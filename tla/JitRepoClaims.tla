---------------------------- MODULE JitRepoClaims ----------------------------
(***************************************************************************)
(* What the README says jit's commands do, where they do something else.   *)
(***************************************************************************)
EXTENDS JitRepo

\* The README has the index track the files to be committed and convert staged
\* files into tree objects: a commit has every file that is listed when it is
\* made and that is there.
StagedCommitted ==
  [][Len(commits') > Len(commits) =>
       \A p \in DOMAIN index \cap Path :
         wd[p] # NoFile => p \in DOMAIN commits'[Len(commits')].tree]_vars
=============================================================================
