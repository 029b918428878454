------------------------------ MODULE MCJitRepo ------------------------------
(***************************************************************************)
(* Small repositories for TLC.                                             *)
(***************************************************************************)
EXTENDS JitRepoClaims

CONSTANTS empty, text, other

\* A directory whose sub-directory is written only once it has a file too.
NestedPaths == {<<"d", "x">>, <<"d", "e", "y">>}

\* Two files at the root, ...
PlainPaths == {<<"a">>, <<"b">>}

\* ... and one whose name is their names with a space between them, ...
FlatPaths == PlainPaths \cup {<<"a b">>}

\* ... or, beside the first alone, whose second word names nothing.
SpacedPaths == {<<"a">>, <<"a b">>}

\* Such a name, and a directory that has no file of its own.
MixedPaths == {<<"a b">>, <<"d", "e", "y">>}

\* A single file at the root.
OnePath == {<<"a">>}

\* What the user writes: one text per file, ...
OneText == [p \in Path |-> IF p = <<"d", "x">> THEN {empty} ELSE {text}]

\* ... two to the file of the directory, ...
FirstChanges == [p \in Path |-> IF p = <<"d", "x">> THEN {empty, other} ELSE {text}]

\* ... or two to the file at the root.
TwoTexts == [p \in Path |-> IF p[1] = "a" THEN {text, other} ELSE {text}]

\* The order of the lines of a sorted index file.
LineOrder ==
  SelectSeq(<<Blank, Dot, <<"a">>, <<"a b">>, <<"b">>, <<"d", "e", "y">>, <<"d", "x">>>>,
            LAMBDA k : k \in Key)

\* What the names are made of.  No name begins with that of a directory.
SpacedParts ==
  [k \in Key |-> CASE k = Blank     -> <<>>
                   [] k = <<"a b">> -> <<<<"a">>, <<"b">>>>
                   [] OTHER         -> <<k>>]

NoWord    == {}
LostWords == {<<"a">>, <<"b">>}
NoRest    == [pair \in {} |-> ""]

\* The walk of merge is over after as many rounds as MergeWalk takes, in every
\* graph of three commits.
ASSUME WalksEnd ==
  LET Upto(n) == {<<>>} \cup {<<i>> : i \in 1 .. n} \cup {<<i, j>> : i, j \in 1 .. n}
  IN  \A p \in Upto(1), q \in Upto(2), readable \in SUBSET (1 .. 3), ours \in 1 .. 3 :
        Walked(<<<<>>, p, q>>, readable, ours, 3) # "walking"
=============================================================================
