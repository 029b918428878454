------------------------------ MODULE TreeShape ------------------------------
(***************************************************************************)
(* Paths of the staging area and the part of them that a written tree      *)
(* keeps.  A path is the non-empty sequence of its components, so the file *)
(* "d/e/y" is <<"d", "e", "y">>; a directory is such a sequence too and    *)
(* the repository root, the "." of IndexStore::writeTree, is <<>>.         *)
(***************************************************************************)
EXTENDS Naturals, Sequences

CONSTANT
  Rest   \* Rest[<<m, n>>] is what remains of the name n without the beginning
         \* m and one more character, where n begins with m and is longer by
         \* two characters or more

\* To begin with another and be longer is a strict order of the names.
ASSUME RestAssumption ==
  /\ DOMAIN Rest \subseteq STRING \X STRING
  /\ \A q \in DOMAIN Rest : q[1] # q[2]
  /\ \A q, r \in DOMAIN Rest : q[2] = r[1] => <<q[1], r[2]>> \in DOMAIN Rest

\* What pathString returns for a path that lies outside the repository root
\* as far as std::filesystem::relative can tell: the empty string.
Blank == <<"">>

\* What pathString returns for the root itself.
Dot == <<".">>

\* The directory part of a path: what precedes its last slash.
Dir(p) == SubSeq(p, 1, Len(p) - 1)

\* The directories that hold a file of K directly: the keys of dirMap.
Dirs(K) == {Dir(p) : p \in K}

(***************************************************************************)
(* The paths of K that _writeTree reaches.  It descends from a directory   *)
(* only into keys of dirMap that are exactly one level below it, so a path *)
(* is written when every directory above it holds a file directly, and is  *)
(* left out of the tree when one of them holds only sub-directories.       *)
(***************************************************************************)
Written(K) ==
  {p \in K : \A n \in 1..(Len(p) - 1) : SubSeq(p, 1, n) \in Dirs(K)}

\* Directories beside d whose name begins with d's: _writeTree takes them for
\* sub-directories of d.
Glued(K, d) ==
  {e \in Dirs(K) : /\ d # <<>> /\ e # <<>> /\ Dir(e) = Dir(d)
                   /\ <<d[Len(d)], e[Len(e)]>> \in DOMAIN Rest}

\* There are such directories.
Siblings(K) == \E d \in Dirs(K) : Glued(K, d) # {}
=============================================================================
