----------------------------- MODULE CommitWalks -----------------------------
(***************************************************************************)
(* The two walks over the history, each with a deque of deque.h.  merge    *)
(* looks for our commit from the other one, breadth first, to decide       *)
(* whether it is a fast-forward; a commit that is reached twice is visited *)
(* twice.  log lists the commits from that of HEAD, depth first, and       *)
(* passes over those it has visited.                                       *)
(***************************************************************************)
EXTENDS Deque, FiniteSets, Functions

CONSTANT Size   \* number of commits

ASSUME WalkAssumption == Size \in Nat \ {0} /\ Null \notin Nat

Commits == 1 .. Size

VARIABLES
  command,   \* "merge" or "log"
  parents,   \* the parents of each commit, in the order retrieve lists them
  readable,  \* the commits that retrieve can read
  ours,      \* the commit of HEAD, for merge
  other,     \* the commit the walk begins with
  dq,        \* the deque of the walk
  cur,       \* the commit taken from it, while its parents are pushed
  left,      \* its parents that are still to be pushed
  visited,   \* the commits that log has listed
  answer     \* "walking", or how the walk ended

graph == <<command, parents, readable, ours, other>>
wvars == <<graph, dq, cur, left, visited, answer>>

-----------------------------------------------------------------------------
\* The commits at or below c.
Ancestors(c) ==
  {a \in Commits : \A S \in SUBSET Commits :
     (c \in S /\ \A d \in S : Range(parents[d]) \subseteq S) => a \in S}

MergeCommits(c) == {a \in Ancestors(c) : Len(parents[a]) > 1}

(***************************************************************************)
(* A history that commit can make.  A commit whose tree is empty cannot be *)
(* read: there are some before the first file, and later when the index    *)
(* has lost its files.  It is not checked out or merged, so only the next  *)
(* commit can have it as its parent.  Others have the commit of HEAD, any  *)
(* that can be read, and the one on which MERGE_HEAD was left by a merge   *)
(* into a commit that was not below it, or that its walk may have missed.  *)
(***************************************************************************)
History ==
  /\ parents[1] = <<>>
  /\ \A c \in 2 .. Size :
       \/ parents[c] = <<c - 1>>
       \/ /\ Len(parents[c]) > 0
          /\ Range(parents[c]) \subseteq readable \cap 1 .. (c - 1)
          /\ Len(parents[c]) = 2 =>
               \/ Cardinality(MergeCommits(parents[c][2])) > 1
               \/ \E o \in readable : o < c /\ o \notin Ancestors(parents[c][2])

WInit ==
  /\ parents \in {f \in [Commits -> UNION {[1 .. n -> Commits] : n \in 0 .. 2}] :
                    \A c \in Commits : Range(f[c]) \subseteq 1 .. (c - 1)}
  /\ readable \in SUBSET Commits
  /\ History
  /\ ours \in readable /\ other \in readable
  /\ command \in (IF ours = other THEN {"merge", "log"} ELSE {"merge"})
  /\ dq = PushedBack(EmptyDeque, other)
  /\ cur = Null
  /\ left = <<>>
  /\ visited = {}
  /\ answer = "walking"

\* The deque is empty: merge has not met ours, and log is done.
Exhausted ==
  /\ answer = "walking" /\ left = <<>> /\ dq.filled = 0
  /\ answer' = IF command = "merge" THEN "divergent" ELSE "listed"
  /\ UNCHANGED <<graph, dq, cur, left, visited>>

\* The guard of a step that takes a commit.
Takes(cmd) == command = cmd /\ answer = "walking" /\ left = <<>> /\ dq.filled > 0

\* Mutant: the commit is looked at and stays where it is.
TakeKept ==
  /\ Takes("merge")
  /\ cur' = Front(dq)
  /\ answer' = IF cur' = Null THEN "crash"
               ELSE IF cur' = ours THEN "fast-forward"
               ELSE "walking"
  /\ left' = IF answer' = "walking" THEN parents[cur'] ELSE <<>>
  /\ UNCHANGED <<graph, dq, visited>>

\* merge takes the next commit from the front.  A slot that was never written
\* is a null pointer.
Take ==
  /\ Takes("merge")
  /\ cur' = Front(dq)
  /\ dq' = PoppedFront(dq)
  /\ answer' = IF cur' = Null THEN "crash"
               ELSE IF cur' = ours THEN "fast-forward"
               ELSE "walking"
  /\ left' = IF answer' = "walking" THEN parents[cur'] ELSE <<>>
  /\ UNCHANGED <<graph, visited>>

\* Mutant: the commits that were pushed twice are listed without their parents.
ListShallow ==
  /\ Takes("log")
  /\ cur' = Back(dq)
  /\ dq' = PoppedBack(dq)
  /\ answer' = IF cur' = Null THEN "crash" ELSE "walking"
  /\ visited' = visited \cup ({cur'} \ {Null})
  /\ left' = IF cur' = Null \/ dq'.filled > 0 THEN <<>> ELSE parents[cur']
  /\ UNCHANGED graph

\* log takes it from the back, and lists it unless it has.
List ==
  /\ Takes("log")
  /\ cur' = Back(dq)
  /\ dq' = PoppedBack(dq)
  /\ answer' = IF cur' = Null THEN "crash" ELSE "walking"
  /\ visited' = visited \cup ({cur'} \ {Null})
  /\ left' = IF cur' \in visited \cup {Null} THEN <<>> ELSE parents[cur']
  /\ UNCHANGED graph

\* Mutant: only the first parent is followed.
PushFirstParent ==
  /\ left # <<>>
  /\ left' = <<>>
  /\ IF Head(left) \in readable
       THEN dq' = PushedBack(dq, Head(left)) /\ UNCHANGED answer
       ELSE answer' = "exception" /\ UNCHANGED dq
  /\ UNCHANGED <<graph, cur, visited>>

\* One parent is retrieved, which may throw, and pushed.
PushParent ==
  /\ answer = "walking" /\ left # <<>>
  /\ left' = Tail(left)
  /\ IF Head(left) \in readable
       THEN dq' = PushedBack(dq, Head(left)) /\ UNCHANGED answer
       ELSE answer' = "exception" /\ UNCHANGED dq
  /\ UNCHANGED <<graph, cur, visited>>

WNext == Exhausted \/ Take \/ List \/ PushParent

\* A walk is a loop of one process, which nothing interrupts.
WSpec == WInit /\ [][WNext]_wvars /\ WF_wvars(WNext)

-----------------------------------------------------------------------------
\* merge fast-forwards only to a commit that leaves nothing of ours out.  With
\* at most one merge commit below the other commit the opposite holds too: it
\* calls two histories divergent only when they are, and it gives up only when
\* a commit cannot be read.
WalkRight ==
  /\ answer = "fast-forward" => ours \in Ancestors(other)
  /\ Cardinality(MergeCommits(other)) <= 1 =>
       /\ answer # "crash"
       /\ answer = "divergent" => ours \notin Ancestors(other)
       /\ answer = "exception" => ~(Ancestors(other) \subseteq readable)

\* log lists nothing but the history of HEAD.  With at most one merge commit
\* below HEAD it lists all of it, unless one of its commits cannot be read;
\* with two it may dereference a null pointer on the way.
LogRight ==
  command = "log" =>
    /\ visited \subseteq Ancestors(other)
    /\ answer = "listed" => visited = Ancestors(other)
    /\ Cardinality(MergeCommits(other)) <= 1 =>
         /\ answer # "crash"
         /\ answer = "exception" => ~(Ancestors(other) \subseteq readable)

\* A walk ends, however many paths lead through the history.
WalkEnds == <>(answer # "walking")
=============================================================================
