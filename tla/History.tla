------------------------------- MODULE History -------------------------------
(***************************************************************************)
(* What the commands promise of the history alone, with no files in it: a  *)
(* graph of commits that only grows, branches that point into it, and HEAD *)
(* on one of them or on a commit.  JitRepo implements it.                  *)
(***************************************************************************)
EXTENDS Naturals, Sequences

CONSTANTS
  Branch,     \* names of branches
  Main,       \* the branch a new repository is on
  HeadName,   \* HEAD given for a branch, after which HEAD leads nowhere
  MaxCommits  \* bound on the number of commits

NoCommit == 0

VARIABLES
  parents,  \* the parents of each commit, oldest commit first
  refs,     \* the commit of each branch
  head,     \* where HEAD is: a branch or a commit
  merging   \* the commit a merge that was begun is to bring in

hvars == <<parents, refs, head, merging>>

Nodes == 1 .. Len(parents)

\* d and the commits below it.
Below(d) ==
  {a \in Nodes : \A S \in SUBSET Nodes :
     (d \in S /\ \A e \in S : parents[e] \subseteq S) => a \in S}

Current == IF head \in Branch THEN refs[head] ELSE head

At(t) == IF t \in Branch THEN refs[t] ELSE t

HInit ==
  /\ parents = <<>>
  /\ refs = [b \in Branch |-> NoCommit]
  /\ head = Main
  /\ merging = NoCommit

\* Moves the branch of HEAD, if there is one, to c.
Advance(c) == refs' = [b \in Branch |-> IF b = head THEN c ELSE refs[b]]

\* A new commit on top of the current one, and of the one being merged.
Record ==
  /\ head # HeadName
  /\ Len(parents) < MaxCommits
  /\ parents' = Append(parents, {Current, merging} \ {NoCommit})
  /\ Advance(Len(parents) + 1)
  /\ merging' = NoCommit
  /\ UNCHANGED head

\* A commit that has the current one below it takes its place.
FastForward(c) ==
  /\ head # HeadName
  /\ Current \in Below(c)
  /\ Advance(c)
  /\ UNCHANGED <<parents, head, merging>>

\* A merge with a commit that is not above the current one.
BeginMerge(c) ==
  /\ head # HeadName /\ Current \in Nodes
  /\ merging' = c
  /\ UNCHANGED <<parents, refs, head>>

Point(b) ==
  /\ head # HeadName
  /\ refs' = [refs EXCEPT ![b] = Current]
  /\ UNCHANGED <<parents, head, merging>>

Switch(t) ==
  /\ t # HeadName => At(t) \in Nodes
  /\ head' = t
  /\ UNCHANGED <<parents, refs, merging>>

HNext ==
  \/ Record
  \/ \E c \in Nodes : FastForward(c) \/ BeginMerge(c)
  \/ \E b \in Branch : Point(b)
  \/ \E t \in Branch \cup Nodes \cup {HeadName} : Switch(t)

HSpec == HInit /\ [][HNext]_hvars
=============================================================================
