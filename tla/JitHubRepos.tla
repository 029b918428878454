----------------------------- MODULE JitHubRepos -----------------------------
(***************************************************************************)
(* The server's repositories and who has access to them.  As in JitHub,    *)
(* requests run beside each other and meet in the database, one statement  *)
(* or commit at a time; a request is already authenticated, as the user    *)
(* its access token names.  CreateRepo never succeeds (see JitHub), so the *)
(* repositories are those that the operator put into the table.            *)
(***************************************************************************)
EXTENDS FiniteSets, Naturals

CONSTANTS
  Request,   \* requests to the server
  User,      \* registered users
  Repo,      \* rows of Repository: records with the owner, whether it is
             \* public, and whether there is a description
  Granted,   \* what RepositoryUsers may hold at first
  Menu,      \* what is asked for: records with op, by, of, repo and target
  NoRequest, \* what a request that has not arrived asks for
  MaxConns   \* connections that PostgreSQL accepts

Ops == {"profile", "list", "details", "remote", "push", "pull", "grant", "revoke"}

ASSUME ConnsAssumption == MaxConns \in Nat \ {0} /\ IsFiniteSet(Request)
ASSUME MenuAssumption ==
  /\ \A q \in Menu : q.op \in Ops /\ q.by \in User
  /\ NoRequest \notin Menu
ASSUME RepoAssumption == \A p \in Repo : p.public \in BOOLEAN /\ p.described \in BOOLEAN
ASSUME GrantedAssumption == Granted \subseteq SUBSET (User \X Repo)

\* Where a request is: about to make the query of that name, or in a
\* transaction before the statement or the commit of that name.
Queries == {"GetRepoPrivacy", "GetAccessStatusOnRepo", "GetRepoSecret", "repos of owner",
            "repos of contributor", "repos for visitor", "Begin grant", "Begin revoke"}
InTx    == {"INSERT access", "COMMIT grant", "DELETE access", "COMMIT revoke"}

VARIABLES
  req,      \* what each request asks for
  at,       \* where it is; "new" before it arrives and "done" once answered
  answer,   \* its answer: "ok", "refused", "not found" or "error"
  access,   \* the table RepositoryUsers: pairs of a user and a repository
  shown,    \* the repositories a listing has collected
  leaked,   \* the requests that were answered and still have a connection
  seen,     \* access that was in the table at some time since a request arrived
  done      \* the requests whose change of the table was committed

vars == <<req, at, answer, access, shown, leaked, seen, done>>

-----------------------------------------------------------------------------
Op(r)   == req[r].op
By(r)   == req[r].by
For(r)  == req[r].repo
Row(r)  == <<req[r].target, req[r].repo>>

Free == Cardinality({r \in Request : at[r] \in InTx} \cup leaked) < MaxConns

GoTo(r, place) == at' = [at EXCEPT ![r] = place] /\ UNCHANGED answer

Answer(r, what) ==
  /\ at' = [at EXCEPT ![r] = "done"]
  /\ answer' = [answer EXCEPT ![r] = what]

Leak(r) == leaked' = leaked \cup {r}

\* The queries that read RepositoryUsers or change nothing else.
Reads == UNCHANGED <<req, access, seen, done>>

-----------------------------------------------------------------------------
Init ==
  /\ req = [r \in Request |-> NoRequest]
  /\ at = [r \in Request |-> "new"]
  /\ answer = [r \in Request |-> "none"]
  /\ access \in Granted
  /\ shown = [r \in Request |-> {}]
  /\ leaked = {}
  /\ seen = [r \in Request |-> {}]
  /\ done = {}

\* HandleGetProfile belongs to a handler that NewApplication leaves nil, and
\* panics.
GetProfile(r) == Answer(r, "error")

GetAllRepos(r) == GoTo(r, "repos of owner")

\* The route's first call that can fail.
Arrive(r, q) ==
  /\ at[r] = "new"
  /\ req' = [req EXCEPT ![r] = q]
  /\ seen' = [seen EXCEPT ![r] = access]
  /\ \/ q.op = "profile" /\ GetProfile(r)
     \/ q.op = "list" /\ GetAllRepos(r)
     \/ q.op \notin {"profile", "list"} /\ GoTo(r, "GetRepoPrivacy")
  /\ UNCHANGED <<access, shown, leaked, done>>

GetRepoPrivacy(r) == Free /\ For(r) \in Repo

\* What comes behind AuthorizePrivacy for those who grant and revoke.
Proceed(r) == GoTo(r, IF Op(r) = "grant" THEN "Begin grant" ELSE "Begin revoke")

\* Mutant: anybody who is registered may grant and revoke.
AuthorizeOwnershipOpen(r) ==
  IF By(r) \in User THEN Proceed(r) ELSE Answer(r, "refused")

\* AuthorizeOwnership asks no database.
AuthorizeOwnership(r) ==
  IF By(r) = For(r).owner THEN Proceed(r) ELSE Answer(r, "refused")

\* AuthorizePrivacy finds the repository; who asks to grant or to revoke is
\* then looked at by AuthorizeOwnership, the others by AuthorizeEditAccess.
AuthorizePrivacy(r) ==
  /\ at[r] = "GetRepoPrivacy"
  /\ \/ /\ GetRepoPrivacy(r) /\ Op(r) \notin {"grant", "revoke"}
        /\ GoTo(r, "GetAccessStatusOnRepo")
     \/ GetRepoPrivacy(r) /\ Op(r) \in {"grant", "revoke"} /\ AuthorizeOwnership(r)
     \/ ~GetRepoPrivacy(r) /\ Answer(r, "error")
  /\ Reads /\ UNCHANGED <<shown, leaked>>

\* The details at the privacy that was read before.
GetRepo(r, contributor) ==
  Answer(r, IF contributor \/ For(r).public THEN "ok" ELSE "refused")

AddRemoteRepo(r, contributor) ==
  IF contributor THEN GoTo(r, "GetRepoSecret") ELSE Answer(r, "refused")

\* HandlePush and HandlePull go no further than that.
PushOrPull(r, contributor) == Answer(r, IF contributor THEN "ok" ELSE "refused")

\* The handlers behind AuthorizeEditAccess: they look at what it found.
Handle(r, contributor) ==
  CASE Op(r) = "details" -> GetRepo(r, contributor)
    [] Op(r) = "remote"  -> AddRemoteRepo(r, contributor)
    [] OTHER -> PushOrPull(r, contributor)

\* Mutant: anybody's row will do.
AccessStatusLoose(r) ==
  IF By(r) = For(r).owner THEN {TRUE}
  ELSE IF Free THEN {\E u \in User : <<u, For(r)>> \in access} ELSE {}

\* GetAccessStatusOnRepo: the answer, if there is one.  The owner has access.
\* For others it asks for their row; it scans the row that it finds into a
\* string instead of a pointer to one, which fails, so that there is no TRUE.
AccessStatus(r) ==
  IF By(r) = For(r).owner THEN {TRUE}
  ELSE IF Free /\ <<By(r), For(r)>> \notin access THEN {FALSE} ELSE {}

AuthorizeEditAccess(r) ==
  /\ at[r] = "GetAccessStatusOnRepo"
  /\ \/ \E contributor \in AccessStatus(r) : Handle(r, contributor)
     \/ AccessStatus(r) = {} /\ Answer(r, "error")
  /\ Reads /\ UNCHANGED <<shown, leaked>>

GetRepoSecret(r) ==
  /\ at[r] = "GetRepoSecret"
  /\ Answer(r, IF Free THEN "ok" ELSE "error")
  /\ Reads /\ UNCHANGED <<shown, leaked>>

-----------------------------------------------------------------------------
(***************************************************************************)
(* GetAllReposbyUsername: three queries, the last for visitors only.  The  *)
(* first scans the owner's name over the repository's, so that a row tells *)
(* no more than its owner, privacy and description; shown has the rows.  A *)
(* row without a description cannot be scanned, and the rows are then left *)
(* open, with their connection.  A connection may break while rows are     *)
(* read: the first two queries notice, the third answers with what it has. *)
(***************************************************************************)
Scan(r, rows, next) ==
  \/ Answer(r, "error") /\ UNCHANGED <<shown, leaked>>
  \/ /\ Free /\ \E p \in rows : ~p.described
     /\ Answer(r, "error") /\ Leak(r) /\ UNCHANGED shown
  \/ Free /\ (\A p \in rows : p.described) /\ next /\ UNCHANGED leaked

Owned(u)      == {p \in Repo : p.owner = u}
SharedWith(u) == {p \in Repo : <<u, p>> \in access}

\* Mutant: the rows are left open whenever the listing fails.
ReposOfOwnerOpen(r) ==
  /\ at[r] = "repos of owner"
  /\ \/ Free /\ shown' = [shown EXCEPT ![r] = Owned(req[r].of)]
        /\ GoTo(r, "repos of contributor") /\ UNCHANGED leaked
     \/ Answer(r, "error") /\ Leak(r) /\ UNCHANGED shown
  /\ Reads

ReposOfOwner(r) ==
  /\ at[r] = "repos of owner"
  /\ Scan(r, Owned(req[r].of),
       /\ shown' = [shown EXCEPT ![r] = Owned(req[r].of)]
       /\ GoTo(r, "repos of contributor"))
  /\ Reads

\* Mutant: visitors see what is shared with the user they visit.
ReposOfContributorAll(r) ==
  /\ at[r] = "repos of contributor"
  /\ LET all == shown[r] \cup SharedWith(req[r].of)
     IN  Scan(r, SharedWith(req[r].of),
           /\ shown' = [shown EXCEPT ![r] = all]
           /\ IF By(r) = req[r].of THEN Answer(r, "ok") ELSE GoTo(r, "repos for visitor"))
  /\ Reads

\* What is shared with the user comes to the list; a visitor keeps of both
\* what is public.
ReposOfContributor(r) ==
  /\ at[r] = "repos of contributor"
  /\ LET all == shown[r] \cup SharedWith(req[r].of)
     IN  Scan(r, SharedWith(req[r].of),
           \/ By(r) = req[r].of /\ shown' = [shown EXCEPT ![r] = all] /\ Answer(r, "ok")
           \/ /\ By(r) # req[r].of
              /\ shown' = [shown EXCEPT ![r] = {p \in all : p.public}]
              /\ GoTo(r, "repos for visitor"))
  /\ Reads

\* A visitor gets what the user shares with them too.
ReposForVisitor(r) ==
  /\ at[r] = "repos for visitor"
  /\ LET rows == Owned(req[r].of) \cap SharedWith(By(r))
     IN  Scan(r, rows,
           /\ \E read \in SUBSET rows : shown' = [shown EXCEPT ![r] = @ \cup read]
           /\ Answer(r, "ok"))
  /\ Reads

-----------------------------------------------------------------------------
(***************************************************************************)
(* GrantAccessOnRepo and RevokeAccessOnRepo.  They return without ending   *)
(* their transaction when a statement fails, and when a DELETE finds no    *)
(* row.                                                                    *)
(***************************************************************************)
Quiet == UNCHANGED <<req, access, shown, seen, done>>

Begin(r) ==
  /\ at[r] \in {"Begin grant", "Begin revoke"}
  /\ IF Free THEN GoTo(r, IF at[r] = "Begin grant" THEN "INSERT access" ELSE "DELETE access")
     ELSE Answer(r, "error")
  /\ Quiet /\ UNCHANGED leaked

\* Another transaction has put in or taken out the same row.
Inserting(row) == \E s \in Request : at[s] = "COMMIT grant" /\ Row(s) = row
Deleting(row)  == \E s \in Request : at[s] = "COMMIT revoke" /\ Row(s) = row

\* Mutant: the table's users need not exist.
InsertAccessAnyone(r) ==
  /\ at[r] = "INSERT access"
  /\ ~Inserting(Row(r)) /\ ~Deleting(Row(r))
  /\ IF Row(r) \notin access
       THEN GoTo(r, "COMMIT grant") /\ UNCHANGED leaked
       ELSE Answer(r, "error") /\ Leak(r)
  /\ Quiet

\* The pair is the table's key, and the user has to exist.  The statement
\* waits for transactions that changed a row with the same key.
InsertAccess(r) ==
  /\ at[r] = "INSERT access"
  /\ ~Inserting(Row(r)) /\ ~Deleting(Row(r))
  /\ IF req[r].target \in User /\ Row(r) \notin access
       THEN GoTo(r, "COMMIT grant") /\ UNCHANGED leaked
       ELSE Answer(r, "error") /\ Leak(r)
  /\ Quiet

\* Mutant: it waits for grants, and for those that were left open.
DeleteAccessStuck(r) ==
  /\ at[r] = "DELETE access"
  /\ ~Deleting(Row(r))
  /\ \A s \in leaked : Row(s) # Row(r)
  /\ IF Row(r) \in access
       THEN GoTo(r, "COMMIT revoke") /\ UNCHANGED leaked
       ELSE Answer(r, "not found") /\ Leak(r)
  /\ Quiet

\* It does not see a row that is not committed, and waits for transactions
\* that have deleted the row already.
DeleteAccess(r) ==
  /\ at[r] = "DELETE access"
  /\ ~Deleting(Row(r))
  /\ IF Row(r) \in access
       THEN GoTo(r, "COMMIT revoke") /\ UNCHANGED leaked
       ELSE Answer(r, "not found") /\ Leak(r)
  /\ Quiet

\* A statement fails for a reason of its own: PostgreSQL refuses what it is
\* given (a name with a NUL in it), ends it while it waits, or the connection
\* breaks.  PostgreSQL keeps the connection unless it is the one that broke.
FailStatement(r) ==
  /\ at[r] \in {"INSERT access", "DELETE access"}
  /\ Answer(r, "error")
  /\ Leak(r) \/ UNCHANGED leaked
  /\ Quiet

\* A commit whose connection breaks gives an error, whether or not it was done.
CommitGrant(r) ==
  /\ at[r] = "COMMIT grant"
  /\ \/ /\ access' = access \cup {Row(r)} /\ done' = done \cup {r}
        /\ seen' = [s \in Request |-> IF at[s] \in {"new", "done"} THEN seen[s]
                                      ELSE seen[s] \cup {Row(r)}]
        /\ \E what \in {"ok", "error"} : Answer(r, what)
     \/ Answer(r, "error") /\ UNCHANGED <<access, seen, done>>
  /\ UNCHANGED <<req, shown, leaked>>

CommitRevoke(r) ==
  /\ at[r] = "COMMIT revoke"
  /\ \/ /\ access' = access \ {Row(r)} /\ done' = done \cup {r}
        /\ \E what \in {"ok", "error"} : Answer(r, what)
     \/ Answer(r, "error") /\ UNCHANGED <<access, done>>
  /\ UNCHANGED <<req, shown, leaked, seen>>

Serve(r) ==
  \/ AuthorizePrivacy(r) \/ AuthorizeEditAccess(r) \/ GetRepoSecret(r)
  \/ ReposOfOwner(r) \/ ReposOfContributor(r) \/ ReposForVisitor(r)
  \/ Begin(r) \/ InsertAccess(r) \/ DeleteAccess(r) \/ CommitGrant(r) \/ CommitRevoke(r)

Next == \E r \in Request : Serve(r) \/ FailStatement(r) \/ \E q \in Menu : Arrive(r, q)

\* Each request's goroutine goes on, and the database answers it; that a
\* statement fails is nothing to wait for.
Spec == Init /\ [][Next]_vars /\ \A r \in Request : WF_vars(Serve(r))

-----------------------------------------------------------------------------
\* The type of the server's state.
TypeOK ==
  /\ req \in [Request -> Menu \cup {NoRequest}]
  /\ at \in [Request -> {"new", "done"} \cup Queries \cup InTx]
  /\ answer \in [Request -> {"none", "ok", "refused", "not found", "error"}]
  /\ access \subseteq User \X Repo
  /\ shown \in [Request -> SUBSET Repo]
  /\ leaked \subseteq Request
  /\ seen \in [Request -> SUBSET (User \X Repo)]
  /\ done \subseteq Request
  /\ \A r \in Request : at[r] # "new" => req[r] # NoRequest

\* Had r's user access to p at some time since r arrived?
HadAccess(r, p) == By(r) = p.owner \/ <<By(r), p>> \in seen[r]

\* The secret of a repository, its content and the details of a private one
\* are given only to those who had access to it while they asked, although
\* the check and the answer are apart and grants and revokes run beside them.
ServedHaveAccess ==
  \A r \in Request :
    /\ at[r] = "done" /\ answer[r] = "ok"
    /\ Op(r) \in {"remote", "push", "pull", "details"}
    => HadAccess(r, For(r)) \/ (Op(r) = "details" /\ For(r).public)

\* A listing, which is put together from three queries, has no private
\* repository that the one who asked had no access to while it was made.
ListedHaveAccess ==
  \A r \in Request : at[r] = "done" /\ answer[r] = "ok" /\ Op(r) = "list"
    => \A p \in shown[r] : p.public \/ HadAccess(r, p)

\* A connection is lost only by a grant or a revoke of the owner that fails or
\* finds nothing, even when another has just taken the row away, and by a
\* listing that meets a repository without a description, the user's or shared
\* with the user while it was made.  What strangers ask of a repository costs
\* none, and nothing that succeeds does.
WhoLeaks ==
  \A r \in leaked :
    /\ at[r] = "done"
    /\ \/ Op(r) = "grant" /\ answer[r] = "error" /\ By(r) = For(r).owner
       \/ Op(r) = "revoke" /\ answer[r] \in {"not found", "error"} /\ By(r) = For(r).owner
       \/ Op(r) = "list" /\ answer[r] = "error"
          /\ \E p \in Repo : ~p.described /\ (p.owner = req[r].of \/ <<req[r].of, p>> \in seen[r])

\* Grants and revokes take effect one after the other and by owners alone:
\* two grants of the same access never both succeed, nor do two revokes, and
\* a commit that reports an error has happened wholly or not at all.
A == INSTANCE Access WITH
       Waiting <- NoRequest,
       deed <- [r \in Request |->
                  IF r \in done THEN [what |-> Op(r), by |-> By(r), row |-> Row(r)]
                  ELSE NoRequest]

AccessImplemented == A!ASpec

\* Every request is answered, even when connections run out and transactions
\* wait for each other's rows.
Answered == \A r \in Request : at[r] # "new" ~> at[r] = "done"

-----------------------------------------------------------------------------
\* The routes say "Add remote if have access" and "Push if have access": who
\* was granted access is not answered with an error while there are
\* connections enough.
ContributorsServed ==
  \A r \in Request :
    at[r] = "done" /\ Op(r) \in {"remote", "push", "pull"} /\ For(r) \in Repo
      /\ <<By(r), For(r)>> \in access => answer[r] # "error"
=============================================================================
