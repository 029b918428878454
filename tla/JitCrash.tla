------------------------------- MODULE JitCrash -------------------------------
(***************************************************************************)
(* The commands of JitRepo as processes that may be killed, and that may   *)
(* run beside each other: no command locks the repository.  A command is a *)
(* program of steps, each of which reads or changes one file.  An ofstream *)
(* truncates its file when it is opened and writes it when it is flushed   *)
(* or closed, so that writing a file takes two steps, and the index, which *)
(* flushes after every line, a step for each line.  Commits are stored in  *)
(* one step, since nobody knows a commit's name before it is whole.        *)
(*                                                                         *)
(* The files of a user are at the root and are numbered in the order of    *)
(* their names.  Two processes whose index files have several lines would  *)
(* write them over each other at their own positions: setups with two      *)
(* processes keep to index files of one line while both write.             *)
(***************************************************************************)
EXTENDS Functions, MergeWalk

CONSTANTS
  Proc,        \* processes
  Path,        \* the user's files
  Text,        \* their contents
  Markers,     \* a content with conflict markers
  Branch,      \* names of branches, all of one length
  Main,        \* the branch init selects
  Setups,      \* repositories to begin with, and what may happen to them
  MaxCommits,  \* bound on the number of commits
  Idle         \* stands for what a process without a command does

Nothing == 0   \* in place of a commit (NoCommit) or branch: what an empty file says

Ids == 1 .. MaxCommits

ASSUME CrashAssumption ==
  /\ Path \subseteq Nat
  /\ Main \in Branch
  /\ Markers \in Text
  /\ MaxCommits \in Nat

Commands == {"init", "add", "commit", "checkout", "branch", "merge"}

\* Trees, and what the index holds.
Snapshot == UNION {[D -> Text] : D \in SUBSET Path}
Commit   == [tree : Snapshot, parents : Seq(Nat)]

\* A command that makes sense: add of a file, branch of a name, and checkout
\* and merge of a branch or commit.
Sensible(cmd, arg) ==
  /\ cmd \in Commands /\ arg \in Branch \cup Nat
  /\ cmd = "add" => arg \in Path
  /\ cmd = "branch" => arg \in Branch
  /\ cmd \in {"checkout", "merge"} => arg \in Branch \cup Ids

\* What may happen: so many commands and kills, so many processes at a time.
Limits ==
  [commands : Nat, kills : Nat, procs : Nat,
   asked : SUBSET {c \in [cmd : Commands, arg : Branch \cup Nat] : Sensible(c.cmd, c.arg)}]

\* A repository to begin with is one that is whole.
ASSUME SetupAssumption ==
  \A s \in Setups :
    LET n == Len(s.commits)
    IN  /\ s.jit \in BOOLEAN
        /\ s.commits \in Seq(Commit) /\ n <= MaxCommits
        /\ s.head \in Branch \cup 0 .. n
        /\ s.refs \in [Branch -> 0 .. n] /\ s.mergeHead \in 0 .. n
        /\ s.wd \in [Path -> Text] /\ s.index \in Snapshot
        /\ s.blobs \subseteq Text /\ Range(s.index) \subseteq s.blobs
        /\ \A c \in 1 .. n :
             /\ Range(s.commits[c].parents) \subseteq 1 .. (c - 1)
             /\ Range(s.commits[c].tree) \subseteq s.blobs
             /\ s.commits[c].tree \in s.trees
        /\ s.budget \in Limits

\* The index of such a repository has only grown, and its commits with it:
\* add and checkout add to it, and a commit's tree is what it lists.
ASSUME GrownAssumption ==
  \A s \in Setups : \A c \in 1 .. Len(s.commits) :
    /\ DOMAIN s.commits[c].tree \subseteq DOMAIN s.index
    /\ \A d \in Range(s.commits[c].parents) :
         DOMAIN s.commits[d].tree \subseteq DOMAIN s.commits[c].tree

(***************************************************************************)
(* The programs.  merge goes on as forward or as diverge, which starts     *)
(* again for every file.                                                   *)
(***************************************************************************)
Program ==
  [init     |-> <<"make .jit", "open HEAD", "write HEAD">>,
   add      |-> <<"load", "open blob", "write blob", "reopen blob", "write blob",
                  "open index", "write index">>,
   commit   |-> <<"load", "read HEAD", "read ref", "open tree", "write tree",
                  "read MERGE_HEAD", "reread MERGE_HEAD", "clear MERGE_HEAD",
                  "store commit", "is branch", "name branch", "open ref", "write ref">>,
   checkout |-> <<"load", "resolve", "reconstruct", "read tree", "open HEAD",
                  "write HEAD", "open index", "write index">>,
   branch   |-> <<"read HEAD", "read ref", "open ref", "write ref">>,
   merge    |-> <<"read HEAD", "read ref", "resolve", "walk">>,
   forward  |-> <<"name branch", "resolve again", "open ref", "write ref",
                  "reconstruct">>,
   diverge  |-> <<"merge file", "resolve again", "open MERGE_HEAD",
                  "write MERGE_HEAD">>]

\* What a process knows; Idle is nothing of the kind.
Memory ==
  [cmd : Commands, program : DOMAIN Program, arg : Branch \cup Nat, at : Nat, index : Snapshot,
   name : Branch \cup Nat, ours : Nat, other : Nat, merge : Seq(Nat), new : Nat,
   todo : SUBSET Path]

ASSUME IdleAssumption == Idle \notin Memory

VARIABLES
  jit,        \* whether .jit is there
  head,       \* .jit/HEAD: a branch, a commit, or nothing
  refs,       \* .jit/refs: a commit or nothing for each branch
  mergeHead,  \* .jit/MERGE_HEAD
  index,      \* .jit/index
  blobs,      \* blobs in .jit/objects
  trees,      \* trees in .jit/objects, each the map of paths that it stands for
  torn,       \* the blobs, and the trees, whose files are empty
  commits,    \* commits in .jit/objects, oldest first
  wd,         \* the text of the user's files
  run,        \* what each process runs, how far it is, and what it has read
  budget,     \* how many commands and kills may still come, which commands,
              \* and how many of them at once

  \* What was promised, kept for the properties: no step depends on it.
  killed,     \* commands that were killed, with the step they were about to take
  together,   \* commands that ran at the same time
  selected,   \* the branch or commit that was reported as checked out
  kept,       \* commits that were reported as made, with their branch
  begun,      \* the commit whose merge was reported as begun and not as ended
  staged      \* files that were reported as added

objects  == <<blobs, trees, torn, commits>>
pointers == <<head, refs, mergeHead>>
promises == <<selected, kept, begun, staged>>
vars     == <<jit, pointers, index, objects, wd, run, budget, killed, together, promises>>

-----------------------------------------------------------------------------
Quiet == \A p \in Proc : run[p] = Idle

\* c and the commits below it in the history; nothing is below nothing.
Ancestors(c) ==
  {a \in 1 .. Len(commits) :
     /\ c \in 1 .. Len(commits)
     /\ \A S \in SUBSET (1 .. Len(commits)) :
          (c \in S /\ \A d \in S : Range(commits[d].parents) \ {Nothing} \subseteq S) => a \in S}

\* A commit without files, and one with an empty line for a parent, cannot be
\* retrieved.
Readable(c) ==
  /\ c \in 1 .. Len(commits)
  /\ DOMAIN commits[c].tree # {} /\ Nothing \notin Range(commits[c].parents)

\* The files that can be retrieved from a commit.
Entries(c) ==
  LET t == commits[c].tree
  IN  IF t \in torn.trees \/ t \notin trees THEN <<>>
      ELSE Restrict(t, {f \in DOMAIN t : t[f] \in blobs \ torn.blobs})

Overlay(f, g) ==
  [k \in DOMAIN f \cup DOMAIN g |-> IF k \in DOMAIN g THEN g[k] ELSE f[k]]

\* What a name on the command line, or in HEAD, stands for.
Tip(name) == IF name \in Branch THEN refs[name] ELSE name

-----------------------------------------------------------------------------
At(p, step) ==
  /\ run[p] # Idle
  /\ Program[run[p].program][run[p].at] = step

Last(p) == run[p].at = Len(Program[run[p].program])

Stay(p, m) == run' = [run EXCEPT ![p] = m] /\ UNCHANGED promises

\* What a command that is reported as done promises.
Finish(p) ==
  LET m == run[p]
  IN
  /\ run' = [run EXCEPT ![p] = Idle]
  /\ selected' = CASE m.cmd = "init" -> Main
                   [] m.cmd = "checkout" -> m.arg
                   [] OTHER -> selected
  /\ kept' = CASE m.cmd = "commit" /\ selected \in Branch -> kept \cup {<<m.new, selected>>}
               [] m.cmd = "branch" -> {k \in kept : k[2] # m.arg}
               [] OTHER -> kept
  /\ begun' = CASE m.cmd = "commit" /\ begun \in Range(commits[m.new].parents) -> Nothing
                [] m.program = "diverge" -> m.other
                [] OTHER -> begun
  /\ staged' = IF m.cmd = "add" THEN staged \cup {m.arg} ELSE staged

\* The command ends early, with or without a message.
Stop(p) == run' = [run EXCEPT ![p] = Idle] /\ UNCHANGED promises

\* The step is done, and m is what the process knows after it.
Go(p, m) == IF Last(p) THEN Finish(p) ELSE Stay(p, [m EXCEPT !.at = @ + 1])

Others == UNCHANGED <<budget, killed, together>>

-----------------------------------------------------------------------------
Init ==
  \E s \in Setups :
    /\ jit = s.jit /\ head = s.head /\ refs = s.refs /\ mergeHead = s.mergeHead
    /\ index = s.index /\ blobs = s.blobs /\ trees = s.trees /\ commits = s.commits
    /\ torn = [blobs |-> {}, trees |-> {}]
    /\ wd = s.wd
    /\ run = [p \in Proc |-> Idle]
    /\ budget = s.budget
    /\ killed = {} /\ together = {}
    /\ selected = s.head
    /\ kept = {k \in Ids \X Branch : k[1] \in Ancestors(s.refs[k[2]])}
    /\ begun = s.mergeHead
    /\ staged = DOMAIN s.index

Edit(f, t) ==
  /\ Quiet /\ budget.commands > 0
  /\ wd' = [wd EXCEPT ![f] = t]
  /\ UNCHANGED <<jit, pointers, index, objects, run, promises>> /\ Others

Running == {p \in Proc : run[p] # Idle}

\* repoRoot fails where there is no .jit, and init where there is one.
Start(p, c) ==
  /\ run[p] = Idle
  /\ budget.commands > 0 /\ Cardinality(Running) < budget.procs
  /\ jit = (c.cmd # "init")
  /\ run' = [run EXCEPT ![p] =
       [cmd |-> c.cmd, program |-> c.cmd, arg |-> c.arg, at |-> 1, index |-> <<>>,
        name |-> Nothing, ours |-> Nothing, other |-> Nothing, merge |-> <<>>,
        new |-> Nothing, todo |-> {}]]
  /\ budget' = [budget EXCEPT !.commands = @ - 1]
  /\ together' = together \cup {{c.cmd, run[q].cmd} : q \in Running}
  /\ UNCHANGED <<jit, pointers, index, objects, wd, killed, promises>>

Kill(p) ==
  /\ run[p] # Idle /\ budget.kills > 0
  /\ run' = [run EXCEPT ![p] = Idle]
  /\ budget' = [budget EXCEPT !.kills = @ - 1]
  /\ killed' = killed \cup {<<run[p].cmd, Program[run[p].program][run[p].at]>>}
  /\ UNCHANGED <<jit, pointers, index, objects, wd, together, promises>>

-----------------------------------------------------------------------------
(***************************************************************************)
(* Steps that only read.                                                   *)
(***************************************************************************)
Reads == UNCHANGED <<jit, pointers, index, objects, wd>> /\ Others

\* Mutant: the index is not loaded.
LoadIndexEmpty(p) == At(p, "load") /\ Go(p, run[p]) /\ Reads

LoadIndex(p) == At(p, "load") /\ Go(p, [run[p] EXCEPT !.index = index]) /\ Reads

\* resolve("HEAD"), with the file of the branch read after that of HEAD, and
\* getHead.
ReadHead(p) ==
  /\ At(p, "read HEAD") \/ At(p, "name branch")
  /\ Go(p, [run[p] EXCEPT !.name = head])
  /\ Reads

ReadRef(p) == At(p, "read ref") /\ Go(p, [run[p] EXCEPT !.ours = Tip(run[p].name)]) /\ Reads

\* The commit that checkout and merge are asked for.
ResolveOther(p) ==
  /\ At(p, "resolve")
  /\ LET c == Tip(run[p].arg)
     IN  IF run[p].cmd = "checkout" /\ ~Readable(c) THEN Stop(p)
         ELSE Go(p, [run[p] EXCEPT !.other = c])
  /\ Reads

\* merge asks again for what it writes.
ResolveAgain(p) ==
  /\ At(p, "resolve again")
  /\ Go(p, [run[p] EXCEPT !.new = Tip(run[p].arg)])
  /\ Reads

\* Mutant: it does not ask whether.
ReadMergeHeadUnasked(p) == At(p, "read MERGE_HEAD") /\ Go(p, run[p]) /\ Reads

\* commit asks whether there is a merge, and then which.
ReadMergeHead(p) ==
  /\ At(p, "read MERGE_HEAD")
  /\ IF mergeHead = Nothing THEN Stay(p, [run[p] EXCEPT !.at = @ + 3])
     ELSE Go(p, run[p])
  /\ Reads

RereadMergeHead(p) ==
  /\ At(p, "reread MERGE_HEAD")
  /\ Go(p, [run[p] EXCEPT !.merge = <<mergeHead>>])
  /\ Reads

\* commit on a detached HEAD is done without moving a branch.
IsHeadBranch(p) ==
  /\ At(p, "is branch")
  /\ IF head \in Branch THEN Go(p, run[p]) ELSE Finish(p)
  /\ Reads

\* How merge's walk from the commit c ends, looking for ours (MergeWalk).
WalkFrom(c, ours) ==
  LET stored == 1 .. Len(commits)
  IN  Walked([d \in stored |-> commits[d].parents], {d \in stored : Readable(d)}, ours, c)

\* merge's walk.  Where the other side has no file that can be retrieved,
\* merge ends and has done nothing; where a commit cannot be, it fails.
Walk(p) ==
  /\ At(p, "walk")
  /\ LET m == run[p]
         files == Entries(m.other)
         end == IF Readable(m.ours) /\ Readable(m.other) THEN WalkFrom(m.other, m.ours)
                ELSE "not found"
     IN  CASE end = "fast-forward" -> Stay(p, [m EXCEPT !.program = "forward", !.at = 1])
           [] end = "divergent" /\ DOMAIN files # {} ->
                Stay(p, [m EXCEPT !.program = "diverge", !.at = 1, !.todo = DOMAIN files])
           [] OTHER -> Stop(p)
  /\ Reads

\* readTree adds to the index that was loaded.
ReadTree(p) ==
  /\ At(p, "read tree")
  /\ Go(p, [run[p] EXCEPT !.index = Overlay(@, Entries(run[p].other))])
  /\ Reads

-----------------------------------------------------------------------------
(***************************************************************************)
(* Steps that change a file.                                               *)
(***************************************************************************)

\* mkdir of .jit and what is below it.  When another init has made it since this
\* one looked, it is content to find the directory, or fails to make it.
MakeJit(p) ==
  /\ At(p, "make .jit")
  /\ \/ Go(p, run[p])
     \/ jit /\ Stop(p)
  /\ jit' = TRUE
  /\ UNCHANGED <<pointers, index, objects, wd>> /\ Others

\* Mutant: the file is listed and its object not made.
OpenBlobListed(p) ==
  /\ At(p, "open blob")
  /\ Go(p, [run[p] EXCEPT !.index = Overlay(@, [f \in {run[p].arg} |-> wd[run[p].arg]])])
  /\ UNCHANGED <<jit, pointers, index, objects, wd>> /\ Others

\* ObjectStore::store of the file that add is given: what it reads is what is
\* listed, and it is stored twice.
OpenBlob(p) ==
  /\ At(p, "open blob")
  /\ LET text == wd[run[p].arg]
     IN  /\ blobs' = blobs \cup {text}
         /\ torn' = [torn EXCEPT !.blobs = @ \cup {text}]
         /\ Go(p, [run[p] EXCEPT !.index = Overlay(@, [f \in {run[p].arg} |-> text])])
  /\ UNCHANGED <<jit, pointers, index, trees, commits, wd>> /\ Others

ReopenBlob(p) ==
  /\ At(p, "reopen blob")
  /\ torn' = [torn EXCEPT !.blobs = @ \cup {run[p].index[run[p].arg]}]
  /\ Go(p, run[p])
  /\ UNCHANGED <<jit, pointers, index, blobs, trees, commits, wd>> /\ Others

WriteBlob(p) ==
  /\ At(p, "write blob")
  /\ torn' = [torn EXCEPT !.blobs = @ \ {run[p].index[run[p].arg]}]
  /\ Go(p, run[p])
  /\ UNCHANGED <<jit, pointers, index, blobs, trees, commits, wd>> /\ Others

\* The tree of a commit; an empty one has no name and no file.
OpenTree(p) ==
  /\ At(p, "open tree")
  /\ IF DOMAIN run[p].index = {} THEN UNCHANGED <<trees, torn>>
     ELSE /\ trees' = trees \cup {run[p].index}
          /\ torn' = [torn EXCEPT !.trees = @ \cup {run[p].index}]
  /\ Go(p, run[p])
  /\ UNCHANGED <<jit, pointers, index, blobs, commits, wd>> /\ Others

WriteTree(p) ==
  /\ At(p, "write tree")
  /\ torn' = [torn EXCEPT !.trees = @ \ {run[p].index}]
  /\ Go(p, run[p])
  /\ UNCHANGED <<jit, pointers, index, blobs, trees, commits, wd>> /\ Others

\* updateMergeHead(""): opened, and nothing is written.
ClearMergeHead(p) ==
  /\ At(p, "clear MERGE_HEAD")
  /\ mergeHead' = Nothing
  /\ Go(p, run[p])
  /\ UNCHANGED <<jit, head, refs, index, objects, wd>> /\ Others

\* The commit that is stored, by its parents.
Store(p, parents) ==
  /\ At(p, "store commit")
  /\ Len(commits) < MaxCommits
  /\ commits' = Append(commits, [tree |-> run[p].index, parents |-> parents])
  /\ Go(p, [run[p] EXCEPT !.new = Len(commits) + 1])
  /\ UNCHANGED <<jit, pointers, index, blobs, trees, torn, wd>> /\ Others

Ours(p) == IF run[p].ours # Nothing THEN <<run[p].ours>> ELSE <<>>

\* Mutants: a merge has the other side alone for a parent, or ours alone.
StoreCommitOther(p) == Store(p, IF run[p].merge # <<>> THEN run[p].merge ELSE Ours(p))
StoreCommitOurs(p)  == Store(p, Ours(p))

\* The parent that was read in place of a merge's is written even if it is
\* nothing.
StoreCommit(p) == Store(p, Ours(p) \o run[p].merge)

\* The branch that commit, branch and merge move.  Where HEAD no longer says a
\* branch, a stray file is written, or none.
Moved(m) == IF m.cmd = "branch" THEN m.arg ELSE m.name

\* Mutant: what HEAD says is written, not what it stands for.
TargetUnresolved(m) == IF m.cmd = "branch" THEN m.name ELSE m.new

\* Where they move it.
Target(m) == IF m.cmd = "branch" THEN m.ours ELSE m.new

\* What is in a file after nothing, or something, is written at its start.
Wrote(old, new) == IF new = Nothing THEN old ELSE new

OpenRef(p) ==
  /\ At(p, "open ref")
  /\ refs' = [b \in Branch |-> IF b = Moved(run[p]) THEN Nothing ELSE refs[b]]
  /\ Go(p, run[p])
  /\ UNCHANGED <<jit, head, mergeHead, index, objects, wd>> /\ Others

WriteRef(p) ==
  /\ At(p, "write ref")
  /\ refs' = [b \in Branch |-> IF b = Moved(run[p]) THEN Wrote(refs[b], Target(run[p]))
                               ELSE refs[b]]
  /\ Go(p, run[p])
  /\ UNCHANGED <<jit, head, mergeHead, index, objects, wd>> /\ Others

OpenHead(p) ==
  /\ At(p, "open HEAD")
  /\ head' = Nothing
  /\ Go(p, run[p])
  /\ UNCHANGED <<jit, refs, mergeHead, index, objects, wd>> /\ Others

WriteHead(p) ==
  /\ At(p, "write HEAD")
  /\ head' = IF run[p].cmd = "init" THEN Main ELSE run[p].arg
  /\ Go(p, run[p])
  /\ UNCHANGED <<jit, refs, mergeHead, index, objects, wd>> /\ Others

\* reconstruct writes the files that can be retrieved, here in one step.
Reconstruct(p) ==
  /\ At(p, "reconstruct")
  /\ wd' = Overlay(wd, Entries(run[p].other))
  /\ Go(p, run[p])
  /\ UNCHANGED <<jit, pointers, index, objects>> /\ Others

\* A file of the other side that ours has too is written with both.
MergeFile(p) ==
  /\ At(p, "merge file")
  /\ \E f \in run[p].todo :
       /\ LET ours == Entries(run[p].ours)
              theirs == commits[run[p].other].tree
          IN  wd' = IF f \in DOMAIN ours /\ ours[f] # theirs[f]
                      THEN [wd EXCEPT ![f] = Markers] ELSE wd
       /\ Go(p, [run[p] EXCEPT !.todo = @ \ {f}])
  /\ UNCHANGED <<jit, pointers, index, objects>> /\ Others

OpenMergeHead(p) ==
  /\ At(p, "open MERGE_HEAD")
  /\ mergeHead' = Nothing
  /\ Go(p, run[p])
  /\ UNCHANGED <<jit, head, refs, index, objects, wd>> /\ Others

WriteMergeHead(p) ==
  /\ At(p, "write MERGE_HEAD")
  /\ mergeHead' = Wrote(mergeHead, run[p].new)
  /\ IF run[p].todo = {} THEN Finish(p) ELSE Stay(p, [run[p] EXCEPT !.at = 1])
  /\ UNCHANGED <<jit, head, refs, index, objects, wd>> /\ Others

OpenIndex(p) ==
  /\ At(p, "open index")
  /\ index' = <<>>
  /\ Go(p, [run[p] EXCEPT !.todo = DOMAIN run[p].index])
  /\ UNCHANGED <<jit, pointers, objects, wd>> /\ Others

\* Line by line, sorted.  The first line is written at the file's start.
WriteIndex(p) ==
  /\ At(p, "write index")
  /\ LET m == run[p]
         f == CHOOSE g \in m.todo : \A h \in m.todo : g <= h
     IN  IF m.todo = {} THEN UNCHANGED index /\ Finish(p)
         ELSE /\ index' = Overlay(IF m.todo = DOMAIN m.index THEN <<>> ELSE index,
                                  Restrict(m.index, {f}))
              /\ IF m.todo = {f} THEN Finish(p) ELSE Stay(p, [m EXCEPT !.todo = @ \ {f}])
  /\ UNCHANGED <<jit, pointers, objects, wd>> /\ Others

Step(p) ==
  \/ LoadIndex(p) \/ ReadHead(p) \/ ReadRef(p) \/ ResolveOther(p) \/ ResolveAgain(p) \/ ReadMergeHead(p)
  \/ RereadMergeHead(p) \/ IsHeadBranch(p) \/ Walk(p) \/ ReadTree(p)
  \/ MakeJit(p) \/ OpenBlob(p) \/ ReopenBlob(p) \/ WriteBlob(p) \/ OpenTree(p) \/ WriteTree(p)
  \/ ClearMergeHead(p) \/ StoreCommit(p) \/ OpenRef(p) \/ WriteRef(p) \/ OpenHead(p)
  \/ WriteHead(p) \/ Reconstruct(p) \/ MergeFile(p) \/ OpenMergeHead(p)
  \/ WriteMergeHead(p) \/ OpenIndex(p) \/ WriteIndex(p)

Next ==
  \/ \E f \in Path, t \in Text \ {Markers} : Edit(f, t)
  \/ \E p \in Proc : Step(p) \/ Kill(p) \/ \E c \in budget.asked : Start(p, c)

Spec == Init /\ [][Next]_vars

-----------------------------------------------------------------------------
TypeOK ==
  /\ jit \in BOOLEAN
  /\ head \in Branch \cup Ids \cup {Nothing}
  /\ refs \in [Branch -> Ids \cup {Nothing}]
  /\ mergeHead \in Ids \cup {Nothing}
  /\ index \in Snapshot
  /\ torn \in [blobs : SUBSET blobs, trees : SUBSET trees] /\ blobs \subseteq Text
  /\ commits \in Seq(Commit) /\ Len(commits) <= MaxCommits
  /\ run \in [Proc -> Memory \cup {Idle}]
  /\ wd \in [Path -> Text] /\ budget \in Limits

\* Was a command killed when it was about to take one of the steps?
KilledAt(steps) == \E k \in killed : k[2] \in steps

\* Did two of the commands run at the same time?
Met(cmds) == \E pair \in together : pair \subseteq cmds

\* Whatever is killed, and whatever runs at the same time, no reference and
\* no parent dangles or makes a cycle.  Only a commit beside another command
\* that writes MERGE_HEAD, commit or merge, can have an empty line for a
\* parent, and then nothing can read it any more: it has asked whether there is
\* a merge, and when it asks which, the other has opened the file to clear it
\* or to write it.
HistoryReadable ==
  /\ Range(refs) \cup {Tip(head), mergeHead} \subseteq (1 .. Len(commits)) \cup {Nothing}
  /\ \A c \in 1 .. Len(commits) :
       /\ Range(commits[c].parents) \subseteq 0 .. (c - 1)
       /\ Nothing \in Range(commits[c].parents) => Met({"commit", "merge"})

\* A commit that was reported as made is in the history of the branch that
\* was reported as checked out, and stays there.  It takes a kill between the
\* opening and the writing of the branch's file or of HEAD, a checkout that is
\* killed after it moved HEAD, or two commands at once that both write or read
\* those, init among them, to lose it; killing anything else, and adds at any
\* time, do not.
CommitsKept ==
  Quiet => \/ \A k \in kept : k[1] \in Ancestors(refs[k[2]])
           \/ KilledAt({"write ref", "write HEAD"})
           \/ killed \cap {<<"checkout", "open index">>, <<"checkout", "write index">>} # {}
           \/ Met({"init", "commit", "branch", "checkout", "merge"})

\* Where a kill costs a merge: of a commit that has cleared MERGE_HEAD, and of
\* a merge that goes from file to file, for it may have written MERGE_HEAD
\* already, over another merge, when it is reported as begun.
MergeLosing ==
  ({"commit"} \X {"store commit", "is branch", "name branch", "open ref", "write ref"})
  \cup ({"merge"} \X {"merge file", "resolve again", "open MERGE_HEAD", "write MERGE_HEAD"})

\* A merge that was begun stays pending until a commit records it.  It takes
\* one of those kills, a commit or merge beside another, or a branch command
\* that moves the branch under a merge, to lose it.
MergeKept ==
  Quiet => \/ begun # Nothing => mergeHead = begun
           \/ killed \cap MergeLosing # {}
           \/ Met({"commit", "merge"}) \/ {"branch", "merge"} \in together

\* What the index lists and what commits hold is stored, even with commands
\* at the same time.  A file of it is empty only while it is being written
\* again, or after a command was killed at that; older commits lose the file
\* with it.
ObjectsWhole ==
  LET Writing(step) == \E p \in Proc : At(p, step)
      hashes == Range(index) \cup UNION {Range(commits[c].tree) : c \in 1 .. Len(commits)}
      roots  == {commits[c].tree : c \in 1 .. Len(commits)} \ {<<>>}
  IN  /\ hashes \subseteq blobs /\ roots \subseteq trees
      /\ hashes \cap torn.blobs # {} => Writing("write blob") \/ KilledAt({"write blob"})
      /\ roots \cap torn.trees # {} => Writing("write tree") \/ KilledAt({"write tree"})

\* What was added stays staged, and a commit has every file of its parents,
\* unless a command was killed while it saved the index, or another ran at
\* the same time as one that saves it.
FilesKept ==
  \/ /\ Quiet => staged \subseteq DOMAIN index
     /\ \A c \in 1 .. Len(commits) : \A d \in Range(commits[c].parents) \ {Nothing} :
          DOMAIN commits[d].tree \subseteq DOMAIN commits[c].tree
  \/ KilledAt({"write index"})
  \/ \E pair \in together : pair \cap {"add", "checkout"} # {}
=============================================================================
