-------------------------------- MODULE Access --------------------------------
(***************************************************************************)
(* What the server promises of access to repositories: it is given and     *)
(* taken by owners alone, one person at a time, and a request that gave or *)
(* took it found it not given, or given, at that very moment.  JitHubRepos *)
(* implements it.                                                          *)
(***************************************************************************)
CONSTANTS
  Request,  \* requests to the server
  User,     \* registered users
  Repo,     \* repositories: records with an owner
  Waiting   \* stands for what a request that is not done has done

Deed(what, by, row) == [what |-> what, by |-> by, row |-> row]

VARIABLES
  access,   \* who was granted access to which repository
  deed      \* what each request has done, and by whom

avars == <<access, deed>>

AInit ==
  /\ access \in SUBSET (User \X Repo)
  /\ deed = [r \in Request |-> Waiting]

\* The owner of p gives u access, which u does not have.
Give(r, u, p) ==
  /\ deed[r] = Waiting
  /\ <<u, p>> \notin access
  /\ access' = access \cup {<<u, p>>}
  /\ deed' = [deed EXCEPT ![r] = Deed("grant", p.owner, <<u, p>>)]

\* The owner of p takes the access that u has.
Take(r, u, p) ==
  /\ deed[r] = Waiting
  /\ <<u, p>> \in access
  /\ access' = access \ {<<u, p>>}
  /\ deed' = [deed EXCEPT ![r] = Deed("revoke", p.owner, <<u, p>>)]

ANext == \E r \in Request, u \in User, p \in Repo : Give(r, u, p) \/ Take(r, u, p)

ASpec == AInit /\ [][ANext]_avars
===============================================================================
