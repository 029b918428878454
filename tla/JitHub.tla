-------------------------------- MODULE JitHub --------------------------------
(***************************************************************************)
(* The server's accounts and sessions.  Each request runs in a goroutine   *)
(* of its own and meets the others in the database, one statement or       *)
(* commit at a time.  A statement needs one of the connections that        *)
(* PostgreSQL accepts.  A transaction keeps its connection until it is     *)
(* committed or rolled back; store methods that return early, as they do   *)
(* when a statement fails, do neither.                                     *)
(***************************************************************************)
EXTENDS FiniteSets, Naturals

CONSTANTS
  Request,   \* requests to the server
  Account,   \* what users register with: records with a name and an email
  TooLong,   \* those whose full name or address does not fit its column
  MaxConns   \* connections that PostgreSQL accepts

ASSUME ConnsAssumption == MaxConns \in Nat \ {0} /\ IsFiniteSet(Request)
ASSUME AccountAssumption == TooLong \subseteq Account

Ops == {"register", "login", "logout", "refresh", "create repository"}

\* Where a request is: about to make the call of that name, or in a
\* transaction before the statement or the commit of that name.
Waiting  == {"GetUserbyUsername", "GetUserbyEmailAddress", "CreateUser", "Login",
             "StoreRefreshToken", "RevokeAllTokens", "GetRefreshToken", "CreateRepo"}
InTx     == {"INSERT user", "COMMIT user", "COMMIT token", "COMMIT revoked"}

VARIABLES
  op,        \* what each request asks for
  who,       \* the account it is about
  at,        \* where it is; "new" before it arrives and "done" once answered
  answer,    \* its answer: "ok", "error", or "already" for an empty logout
  users,     \* the table Users, of committed rows
  stored,    \* the table RefreshTokens: the requests whose token has a row
  revoked,   \* those of them that are revoked
  rows,      \* the tokens that a logout's UPDATE found
  given,     \* the tokens clients had been given when a logout arrived
  leaked     \* the requests that were answered and still have a connection

vars == <<op, who, at, answer, users, stored, revoked, rows, given, leaked>>
tables == <<users, stored, revoked>>

-----------------------------------------------------------------------------
Name(r) == who[r].name

Clash(a, b) == a.name = b.name \/ a.email = b.email

\* Whether PostgreSQL accepts one more connection.  The pool of database/sql
\* has no limit of its own, and hands out the error when it does not.
Free == Cardinality({r \in Request : at[r] \in InTx} \cup leaked) < MaxConns

Issues(r) == op[r] \in {"register", "login"} /\ answer[r] = "ok"

\* The tokens of name that clients have been given.
Given(name) == {r \in Request : Issues(r) /\ Name(r) = name}

\* Mutants: one of the tokens; tokens that are not in the table too.
TokensOfOne(name) ==
  {r \in stored : Name(r) = name /\ r = CHOOSE s \in stored : Name(s) = name}
TokensOfAll(name) == {r \in Request : Name(r) = name}

\* Tokens of name in the table.
TokensOf(name) == {r \in stored : Name(r) = name}

GoTo(r, place) == at' = [at EXCEPT ![r] = place] /\ UNCHANGED answer

Answer(r, what) ==
  /\ at' = [at EXCEPT ![r] = "done"]
  /\ answer' = [answer EXCEPT ![r] = what]

Keep == UNCHANGED <<op, who, given>>

-----------------------------------------------------------------------------
Init ==
  /\ op = [r \in Request |-> "register"]
  /\ who \in [Request -> Account]
  /\ at = [r \in Request |-> "new"]
  /\ answer = [r \in Request |-> "none"]
  /\ users = {} /\ stored = {} /\ revoked = {} /\ leaked = {}
  /\ rows = [r \in Request |-> {}]
  /\ given = [r \in Request |-> {}]

\* The route's first call.
First(o) ==
  CASE o = "register" -> "GetUserbyUsername"
    [] o = "login"    -> "Login"
    [] o = "logout"   -> "RevokeAllTokens"
    [] o = "refresh"  -> "GetRefreshToken"
    [] OTHER          -> "CreateRepo"

\* A request comes in.  Autheticate lets a logout or a new repository through
\* with the access token of a login or registration, however old the session:
\* it asks the token alone, until it expires.  A refresh needs none.
Arrive(r, o) ==
  /\ at[r] = "new"
  /\ o \in {"logout", "create repository"} => Given(Name(r)) # {}
  /\ op' = [op EXCEPT ![r] = o]
  /\ given' = [given EXCEPT ![r] = IF o = "logout" THEN Given(Name(r)) ELSE {}]
  /\ GoTo(r, First(o))
  /\ UNCHANGED <<who, tables, rows, leaked>>

\* Register asks for the name, ...
CheckName(r) ==
  /\ at[r] = "GetUserbyUsername"
  /\ IF Free /\ \A u \in users : u.name # Name(r)
       THEN GoTo(r, "GetUserbyEmailAddress")
       ELSE Answer(r, "error")
  /\ Keep /\ UNCHANGED <<tables, rows, leaked>>

\* ... then for the address, and looks at the form of what it got.
CheckEmail(r) ==
  /\ at[r] = "GetUserbyEmailAddress"
  /\ \/ /\ Free /\ \A u \in users : u.email # who[r].email
        /\ GoTo(r, "CreateUser")
     \/ Answer(r, "error")
  /\ Keep /\ UNCHANGED <<tables, rows, leaked>>

\* Begin, in CreateUser.
BeginUser(r) ==
  /\ at[r] = "CreateUser"
  /\ IF Free THEN GoTo(r, "INSERT user") ELSE Answer(r, "error")
  /\ Keep /\ UNCHANGED <<tables, rows, leaked>>

\* Mutant: the table has no keys.
InsertUserUnchecked(r) ==
  /\ at[r] = "INSERT user"
  /\ GoTo(r, "COMMIT user")
  /\ Keep /\ UNCHANGED <<tables, rows, leaked>>

\* Mutant: a transaction that failed and was left open blocks its rows.
AwaitsLeaked(r) ==
  \E s \in Request : (at[s] = "COMMIT user" \/ s \in leaked) /\ Clash(who[s], who[r])

\* Another transaction has inserted a row with the same name or address.
Awaits(r) == \E s \in Request : at[s] = "COMMIT user" /\ Clash(who[s], who[r])

\* The row goes into Users.  The name is its primary key and the address is
\* unique: the statement waits for transactions that have inserted a row with
\* either, and fails when there is one in the table.  It fails at once on a
\* value too long for its column.  CreateUser then returns without a rollback.
InsertUser(r) ==
  /\ at[r] = "INSERT user"
  /\ \/ /\ who[r] \notin TooLong /\ ~Awaits(r) /\ \A u \in users : ~Clash(u, who[r])
        /\ GoTo(r, "COMMIT user")
        /\ UNCHANGED leaked
     \/ /\ who[r] \in TooLong \/ (~Awaits(r) /\ \E u \in users : Clash(u, who[r]))
        /\ Answer(r, "error")
        /\ leaked' = leaked \cup {r}
  /\ Keep /\ UNCHANGED <<tables, rows>>

\* A commit whose connection breaks gives an error, whether or not it was done.
CommitUser(r) ==
  /\ at[r] = "COMMIT user"
  /\ \/ users' = users \cup {who[r]} /\ GoTo(r, "StoreRefreshToken")
     \/ users' \in {users, users \cup {who[r]}} /\ Answer(r, "error")
  /\ Keep /\ UNCHANGED <<stored, revoked, rows, leaked>>

\* Mutant: it reads in a transaction that it leaves open on an error.
FindUserInTx(r) ==
  /\ at[r] = "Login"
  /\ \/ /\ Free /\ \E u \in users : u.name = Name(r)
        /\ GoTo(r, "StoreRefreshToken") /\ UNCHANGED leaked
     \/ Answer(r, "error") /\ leaked' = leaked \cup {r}
  /\ Keep /\ UNCHANGED <<tables, rows>>

\* Login finds the user, and compares the password with the hash it read.
FindUser(r) ==
  /\ at[r] = "Login"
  /\ \/ /\ Free /\ \E u \in users : u.name = Name(r)
        /\ GoTo(r, "StoreRefreshToken")
     \/ Answer(r, "error")
  /\ Keep /\ UNCHANGED <<tables, rows, leaked>>

\* Begin and INSERT, in StoreRefreshToken: the user is in the table, and the
\* token is new, so that no key refuses the row.
InsertToken(r) ==
  /\ at[r] = "StoreRefreshToken"
  /\ IF Free THEN GoTo(r, "COMMIT token") ELSE Answer(r, "error")
  /\ Keep /\ UNCHANGED <<tables, rows, leaked>>

\* Mutant: the error of a commit is dropped.
CommitTokenHopeful(r) ==
  /\ at[r] = "COMMIT token"
  /\ stored' \in {stored, stored \cup {r}} /\ Answer(r, "ok")
  /\ Keep /\ UNCHANGED <<users, revoked, rows, leaked>>

\* Register and Login answer with the token that is now stored.
CommitToken(r) ==
  /\ at[r] = "COMMIT token"
  /\ \/ stored' = stored \cup {r} /\ Answer(r, "ok")
     \/ stored' \in {stored, stored \cup {r}} /\ Answer(r, "error")
  /\ Keep /\ UNCHANGED <<users, revoked, rows, leaked>>

\* Begin and UPDATE, in RevokeAllTokens: the statement sees the rows that were
\* committed before it.  Rows that another logout has updated only delay it.
\* When there are none it returns without a rollback.
UpdateTokens(r) ==
  /\ at[r] = "RevokeAllTokens"
  /\ IF ~Free THEN Answer(r, "error") /\ UNCHANGED <<rows, leaked>>
     ELSE IF TokensOf(Name(r)) = {}
       THEN Answer(r, "already") /\ leaked' = leaked \cup {r} /\ UNCHANGED rows
       ELSE /\ GoTo(r, "COMMIT revoked")
            /\ rows' = [rows EXCEPT ![r] = TokensOf(Name(r))]
            /\ UNCHANGED leaked
  /\ Keep /\ UNCHANGED tables

CommitRevoked(r) ==
  /\ at[r] = "COMMIT revoked"
  /\ \/ revoked' = revoked \cup rows[r] /\ Answer(r, "ok")
     \/ revoked' \in {revoked, revoked \cup rows[r]} /\ Answer(r, "error")
  /\ Keep /\ UNCHANGED <<users, stored, rows, leaked>>

\* Four columns do not fit the one variable GetRefreshToken has for them, so
\* that it fails whether or not the token is in the table.
Refresh(r) ==
  /\ at[r] = "GetRefreshToken"
  /\ Answer(r, "error")
  /\ Keep /\ UNCHANGED <<tables, rows, leaked>>

\* CreateRepo's INSERT names no table, and its transaction is left open.
CreateRepo(r) ==
  /\ at[r] = "CreateRepo"
  /\ Answer(r, "error")
  /\ leaked' = IF Free THEN leaked \cup {r} ELSE leaked
  /\ Keep /\ UNCHANGED <<tables, rows>>

\* A statement of a transaction fails for a reason of its own: the database is
\* out of space, or ends it while it waits, or the connection breaks.  The
\* methods return the error without a rollback, and PostgreSQL keeps the
\* connection unless it is the one that broke.
FailStatement(r) ==
  /\ at[r] = "INSERT user" \/ (at[r] \in {"StoreRefreshToken", "RevokeAllTokens"} /\ Free)
  /\ Answer(r, "error")
  /\ leaked' \in {leaked, leaked \cup {r}}
  /\ Keep /\ UNCHANGED <<tables, rows>>

Serve(r) ==
  \/ CheckName(r) \/ CheckEmail(r) \/ BeginUser(r) \/ InsertUser(r) \/ CommitUser(r)
  \/ FindUser(r) \/ InsertToken(r) \/ CommitToken(r)
  \/ UpdateTokens(r) \/ CommitRevoked(r)
  \/ Refresh(r) \/ CreateRepo(r)

Next == \E r \in Request : Serve(r) \/ FailStatement(r) \/ \E o \in Ops : Arrive(r, o)

\* Each request's goroutine goes on, and the database answers it; that a
\* statement fails is nothing to wait for.
Spec == Init /\ [][Next]_vars /\ \A r \in Request : WF_vars(Serve(r))

-----------------------------------------------------------------------------
\* The type of the server's state.
TypeOK ==
  /\ op \in [Request -> Ops]
  /\ who \in [Request -> Account]
  /\ at \in [Request -> {"new", "done"} \cup Waiting \cup InTx]
  /\ answer \in [Request -> {"none", "ok", "error", "already"}]
  /\ users \subseteq Account
  /\ stored \subseteq Request
  /\ revoked \subseteq stored
  /\ rows \in [Request -> SUBSET Request]
  /\ given \in [Request -> SUBSET Request]
  /\ leaked \subseteq Request

\* Register checks that a name and an address are free and takes them in
\* another transaction, and yet two registrations that both succeed have
\* different ones, however their steps interleave.
OneAccount ==
  \A r, s \in Request :
    r # s /\ {op[r], op[s]} = {"register"} /\ answer[r] = "ok" /\ answer[s] = "ok"
      => ~Clash(who[r], who[s])

\* Once a logout has succeeded, every refresh token that a client had been
\* given before it was sent is revoked, and so stays whatever login or second
\* logout runs beside it; a user's tokens are revoked by no other request.
LogoutRevokes ==
  /\ \A r \in Request : op[r] = "logout" /\ answer[r] = "ok" => given[r] \subseteq revoked
  /\ \A s \in revoked : \E r \in Request : op[r] = "logout" /\ Name(r) = Name(s)

\* Nobody with an access token is told to be logged out already: whoever has
\* one has a row in RefreshTokens, for it is stored before the answer is sent.
\* RevokeAllTokens never takes its early return.
NeverAlreadyOut ==
  /\ \A r \in Request : Issues(r) => r \in stored
  /\ \A r \in Request : answer[r] # "already"

\* A request costs a connection only when it is answered with an error: a
\* refresh never does, a login only of a user who is registered, whose token
\* could not be inserted, and a logout only when its UPDATE failed, for it is
\* never told that there is nothing to revoke.
WhoLeaks ==
  \A r \in leaked :
    /\ answer[r] = "error"
    /\ op[r] # "refresh"
    /\ op[r] = "login" => \E u \in users : u.name = Name(r)

\* Every request is answered, even when connections run out and registrations
\* wait for each other's rows.
Answered == \A r \in Request : at[r] # "new" ~> at[r] = "done"
=============================================================================
