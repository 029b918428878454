---------------------------- MODULE MCJitHubRepos ----------------------------
(***************************************************************************)
(* An owner, a contributor and a stranger who is not registered.           *)
(***************************************************************************)
EXTENDS JitHubRepos

Users == {"ann", "bob"}

Secret == [owner |-> "ann", name |-> "secret", public |-> FALSE, described |-> TRUE]
Bare   == [owner |-> "bob", name |-> "bare", public |-> TRUE, described |-> FALSE]
Gone   == [owner |-> "ann", name |-> "gone", public |-> FALSE, described |-> TRUE]
Repos  == {Secret, Bare}

\* The owner is listed, or bob is.
Start == {{<<"ann", Secret>>}, {<<"bob", Secret>>}}

Ask(op, by, of, p, target) == [op |-> op, by |-> by, of |-> of, repo |-> p, target |-> target]

\* Grants and revokes that clash, one by a user who is not the owner and one
\* for a user who does not exist; what owner and contributor may ask for.
Requests ==
  {Ask(op, "ann", "ann", Secret, "bob") : op \in {"grant", "revoke"}}
  \cup {Ask("grant", "bob", "ann", Secret, "bob"), Ask("grant", "ann", "ann", Secret, "eve")}
  \cup {Ask(op, by, "ann", Secret, "bob") : op \in {"remote", "details"}, by \in Users}
  \cup {Ask("list", "bob", "ann", Secret, "bob"), Ask("list", "ann", "bob", Secret, "bob"),
        Ask("list", "bob", "bob", Secret, "bob")}
  \cup {Ask("push", "bob", "ann", Secret, "bob"), Ask("pull", "ann", "ann", Gone, "bob"),
        Ask("profile", "ann", "ann", Secret, "bob")}

None == [op |-> "none"]
=============================================================================
