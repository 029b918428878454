------------------------------ MODULE MCJitCrash ------------------------------
(***************************************************************************)
(* Five repositories: none yet; one without files or commits; one with two *)
(* branches, of which the second is ahead; one with a merge that is begun; *)
(* and one with two files where a merge is begun and the other branch has  *)
(* moved since.                                                            *)
(***************************************************************************)
EXTENDS JitCrash

CONSTANTS main, next, old, new, markers

Files    == {1, 2}
Branches == {main, next}

Run(cmd, arg) == [cmd |-> cmd, arg |-> arg]

\* What is asked for where there is one file, and where there are two.
OneFile ==
  {Run("commit", Nothing), Run("add", 1), Run("branch", next), Run("merge", next)}
  \cup {Run("checkout", t) : t \in {next, 1}}

TwoFiles == OneFile \cup {Run("init", Nothing), Run("add", 2)}

NoRefs == [b \in Branches |-> Nothing]
Olds   == [f \in Files |-> old]

Budget(commands, kills, procs, asked) ==
  [commands |-> commands, kills |-> kills, procs |-> procs, asked |-> asked]

Snap(tree, parents) == [tree |-> tree, parents |-> parents]

None(limits) ==
  [jit |-> FALSE, head |-> Nothing, refs |-> NoRefs, mergeHead |-> Nothing,
   index |-> <<>>, blobs |-> {}, trees |-> {}, commits |-> <<>>, wd |-> Olds,
   budget |-> limits]

Fresh(limits) == [None(limits) EXCEPT !.jit = TRUE, !.head = main]

One == [f \in {1} |-> old]
Two == [f \in Files |-> IF f = 1 THEN new ELSE old]

\* Two commits, and next has the second.
Ahead(limits) ==
  [Fresh(limits) EXCEPT !.refs = [b \in Branches |-> IF b = main THEN 1 ELSE 2],
     !.index = Two, !.blobs = {old, new}, !.trees = {One, Two},
     !.commits = <<Snap(One, <<>>), Snap(Two, <<1>>)>>, !.wd = Two]

Merged == [f \in {1} |-> markers]
Newer  == [f \in {1} |-> new]

\* One file, a commit of its own on each branch, and the merge begun.
Begun(limits) ==
  [Fresh(limits) EXCEPT !.refs = [b \in Branches |-> IF b = main THEN 2 ELSE 3],
     !.index = Newer, !.blobs = {old, new, markers}, !.trees = {One, Newer, Merged},
     !.commits = <<Snap(One, <<>>), Snap(Newer, <<1>>), Snap(Merged, <<1>>)>>,
     !.mergeHead = 3, !.wd = [Olds EXCEPT ![1] = markers]]

\* Two files, a merge begun with a commit that next had, and a commit that it
\* has now.
Overtaken(limits) ==
  [Fresh(limits) EXCEPT !.refs = [b \in Branches |-> IF b = main THEN 2 ELSE 4],
     !.index = Two, !.blobs = {old, new}, !.trees = {Olds, Two},
     !.commits = <<Snap(Olds, <<>>), Snap(Two, <<1>>), Snap(Olds, <<1>>), Snap(Olds, <<1>>)>>,
     !.mergeHead = 3, !.wd = Two]

\* Two at once: on an empty index, and then only two, or on a single file.
Repositories ==
  {None(Budget(3, 1, 1, TwoFiles)),
   None(Budget(3, 1, 2, {Run("init", Nothing), Run("commit", Nothing)})),
   Ahead(Budget(3, 1, 1, TwoFiles)),
   Begun(Budget(3, 1, 1, TwoFiles)), Fresh(Budget(2, 1, 2, TwoFiles)),
   Begun(Budget(2, 1, 2, OneFile)), Begun(Budget(3, 0, 2, OneFile)),
   Overtaken(Budget(1, 1, 1, {Run("merge", next)}))}

\* The walk of merge is over after as many rounds as MergeWalk takes, in every
\* graph of five commits: that is as many as there are when a merge begins.  To
\* meet ours, or a commit that cannot be read, only ends it sooner.
ASSUME WalksEnd ==
  LET Upto(n) == {<<>>} \cup {<<i>> : i \in 1 .. n} \cup {<<i, j>> : i, j \in 1 .. n}
  IN  \A p \in Upto(1), q \in Upto(2), r \in Upto(3), s \in Upto(4), c \in 1 .. 5 :
        Walked(<<<<>>, p, q, r, s>>, 1 .. 5, NoCommit, c) # "walking"
=============================================================================
