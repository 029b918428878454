---------------------------- MODULE MCJitRepoFlat ----------------------------
(***************************************************************************)
(* Three instances on the files at the root: the first file alone, with    *)
(* all commits and no deletions; and it and another, which come and go,    *)
(* with one commit and one text, the other having a plain name or one with *)
(* a space in it.                                                          *)
(***************************************************************************)
EXTENDS MCJitRepo

FirstFile ==
  /\ DOMAIN index' \subseteq OnePath
  /\ \A p \in Path : IF p \in OnePath THEN wd[p] # NoFile => wd'[p] # NoFile
                     ELSE wd'[p] = NoFile

\* The files of P.
ComeAndGo(P) ==
  /\ Len(commits') <= 1
  /\ \A p \in Path : wd'[p] # other /\ (p \notin P => wd'[p] = NoFile)

VARIABLE instance

FlatSpec ==
  /\ Init /\ instance \in {"first file", "plain names", "a space"}
  /\ [][/\ Next /\ UNCHANGED instance
        /\ CASE instance = "first file"  -> FirstFile
             [] instance = "plain names" -> ComeAndGo(PlainPaths)
             [] instance = "a space"     -> ComeAndGo(SpacedPaths)]_<<vars, instance>>
=============================================================================
