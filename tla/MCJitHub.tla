------------------------------- MODULE MCJitHub -------------------------------
(***************************************************************************)
(* Users who compete for a name.                                           *)
(***************************************************************************)
EXTENDS JitHub

\* Two names with one address, and one name twice, once with an address that
\* is too long.
Long == {[name |-> "ann", email |-> "a...a@x"]}
Accounts == {[name |-> "ann", email |-> "a@x"], [name |-> "bob", email |-> "a@x"]} \cup Long
===============================================================================
