----------------------------- MODULE MCWriteTree -----------------------------
(***************************************************************************)
(* Files around the directories "s", "so" and "s-o", the name of the last  *)
(* of which leaves "o" after "s" and one more character.                   *)
(***************************************************************************)
EXTENDS WriteTree

Files ==
  {<<"a">>, <<"s", "f">>, <<"s", "t", "g">>, <<"s", "t", "u", "k">>, <<"t", "n">>,
   <<"so", "i">>, <<"s-o", "h">>, <<"s-o", "t", "m">>}

Rests == [pair \in {<<"s", "s-o">>} |-> "o"]
=============================================================================
