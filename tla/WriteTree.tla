------------------------------ MODULE WriteTree ------------------------------
(***************************************************************************)
(* How IndexStore::writeTree nests the staged files into tree objects.  It *)
(* tells the sub-directories of a directory by comparing strings: whatever *)
(* begins with the directory's path, and has no slash in what remains      *)
(* after one more character, is taken for one of them.                     *)
(***************************************************************************)
EXTENDS TreeShape

CONSTANT
  File   \* the files that may be staged

ASSUME FileAssumption == File \subseteq Seq(STRING) \ {<<>>}

VARIABLE staged   \* the files in the index

-----------------------------------------------------------------------------
\* The real sub-directories of d among the directories of K; those in
\* Glued(K, d) are taken for some.
Nested(K, d) == {e \in Dirs(K) : e # <<>> /\ Dir(e) = d}

\* The name under which the tree of d gets the tree of e.
NameIn(d, e) ==
  IF Dir(e) = d THEN e[Len(e)] ELSE Rest[<<d[Len(d)], e[Len(e)]>>]

\* Mutant: only the files of the directory itself are entered.
TreePathsFlat(K) == {p \in K : Dir(p) = <<>>}

(***************************************************************************)
(* The tree of K, as the pairs of a path its entries spell and the file    *)
(* whose blob is there: _writeTree from the root.                          *)
(***************************************************************************)
TreePaths(K) ==
  LET tree[d \in Dirs(K) \cup {<<>>}] ==
        {<<<<p[Len(p)]>>, p>> : p \in {f \in K : Dir(f) = d}}
        \cup UNION {{<<<<NameIn(d, e)>> \o t[1], t[2]>> : t \in tree[e]} :
                      e \in Nested(K, d) \cup Glued(K, d)}
  IN  tree[<<>>]

-----------------------------------------------------------------------------
TInit == staged = {}

Stage(f) ==
  /\ f \notin staged
  /\ staged' = staged \cup {f}

TNext == \E f \in File : Stage(f)

TSpec == TInit /\ [][TNext]_staged

-----------------------------------------------------------------------------
\* A file below directories that all hold files is in the tree under its own
\* path, however deep; only staged files are in it; and a file is in it under
\* another path only when there are directories side by side whose names begin
\* alike: with "s" and "s-o", the files of "s-o" are in it as "s/o" too.
TreeHoldsWritten ==
  /\ \A p \in Written(staged) : <<p, p>> \in TreePaths(staged)
  /\ \A x \in TreePaths(staged) : x[2] \in staged /\ (x[1] = x[2] \/ Siblings(staged))
=============================================================================
