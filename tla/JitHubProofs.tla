---------------------------- MODULE JitHubProofs ----------------------------
(***************************************************************************)
(* Proofs about JitHub, for any requests, accounts and connections.        *)
(***************************************************************************)
EXTENDS JitHub, TLAPS

-----------------------------------------------------------------------------
(***************************************************************************)
(* The inductive invariant.                                                *)
(***************************************************************************)

\* Where a request for o may be.
Places(o) ==
  CASE o = "register" -> {"GetUserbyUsername", "GetUserbyEmailAddress", "CreateUser",
                          "INSERT user", "COMMIT user", "StoreRefreshToken", "COMMIT token"}
    [] o = "login"    -> {"Login", "StoreRefreshToken", "COMMIT token"}
    [] o = "logout"   -> {"RevokeAllTokens", "COMMIT revoked"}
    [] o = "refresh"  -> {"GetRefreshToken"}
    [] OTHER          -> {"CreateRepo"}

\* A request is where its kind can be, has an answer when it is done, and
\* keeps its connection only when it is done.
Placed ==
  \A r \in Request :
    /\ at[r] \in {"new", "done"} \cup Places(op[r])
    /\ at[r] = "done" <=> answer[r] # "none"
    /\ r \in leaked => at[r] = "done"
    /\ at[r] = "new" => op[r] = "register"

\* The requests whose registration has put its row into Users.
Registered(r) ==
  op[r] = "register" /\ (at[r] \in {"StoreRefreshToken", "COMMIT token"} \/ answer[r] = "ok")

\* Rows that are committed, and rows that are about to be, do not clash.
Distinct ==
  /\ \A r \in Request : Registered(r) => who[r] \in users
  /\ \A r, s \in Request : r # s /\ Registered(r) /\ Registered(s) => ~Clash(who[r], who[s])
  /\ \A r \in Request : at[r] = "COMMIT user" =>
       /\ \A u \in users : ~Clash(u, who[r])
       /\ \A s \in Request : at[s] = "COMMIT user" /\ r # s => ~Clash(who[r], who[s])

\* What a logout was given is stored for its user, and on the way to be revoked.
Revoking ==
  \A r \in Request :
    /\ Issues(r) => r \in stored
    /\ rows[r] \subseteq stored
    /\ \A s \in rows[r] : Name(s) = Name(r)
    /\ given[r] \subseteq stored
    /\ \A s \in given[r] : Name(s) = Name(r)
    /\ at[r] = "RevokeAllTokens" => given[r] # {}
    /\ at[r] = "COMMIT revoked" => given[r] \subseteq rows[r]

\* A login that goes on has found its user.
Found ==
  \A r \in Request : op[r] = "login" /\ at[r] \in {"StoreRefreshToken", "COMMIT token"} =>
    \E u \in users : u.name = Name(r)

Inv == /\ TypeOK /\ Placed /\ Distinct /\ Revoking /\ LogoutRevokes /\ NeverAlreadyOut
       /\ Found /\ WhoLeaks

-----------------------------------------------------------------------------
\* The initial states satisfy it: nothing has happened.
LEMMA InitInv == Init => Inv
BY DEF Init, Inv, TypeOK, Placed, Distinct, Revoking, LogoutRevokes, NeverAlreadyOut, WhoLeaks,
       Registered, Issues, Ops, Found

\* The two ways in which a request goes on, and their types.
LEMMA GoToType ==
  ASSUME TypeOK, NEW r \in Request, NEW place \in Waiting \cup InTx, GoTo(r, place)
  PROVE  /\ at' \in [Request -> {"new", "done"} \cup Waiting \cup InTx]
         /\ answer' \in [Request -> {"none", "ok", "error", "already"}]
BY DEF TypeOK, GoTo

LEMMA AnswerType ==
  ASSUME TypeOK, NEW r \in Request, NEW what \in {"ok", "error", "already"}, Answer(r, what)
  PROVE  /\ at' \in [Request -> {"new", "done"} \cup Waiting \cup InTx]
         /\ answer' \in [Request -> {"none", "ok", "error", "already"}]
BY DEF TypeOK, Answer

\* The part of a state's type that all actions but Arrive share.
LEMMA Typed ==
  ASSUME TypeOK, Keep,
         at' \in [Request -> {"new", "done"} \cup Waiting \cup InTx],
         answer' \in [Request -> {"none", "ok", "error", "already"}],
         users' \subseteq Account, stored' \subseteq Request, revoked' \subseteq stored',
         rows' \in [Request -> SUBSET Request], leaked' \subseteq Request
  PROVE  TypeOK'
BY DEF TypeOK, Keep

\* Type correctness is kept.  That rows are stored is needed for revoked.
LEMMA TypeStep ==
  ASSUME TypeOK, Revoking, [Next]_vars
  PROVE  TypeOK'
<1>1. CASE UNCHANGED vars
  BY <1>1 DEF vars, TypeOK
<1>2. ASSUME NEW r \in Request, NEW o \in Ops, Arrive(r, o)
      PROVE  TypeOK'
  <2>1. First(o) \in Waiting \cup InTx
    BY DEF First, Waiting
  <2>2. Given(Name(r)) \subseteq Request
    BY DEF Given
  <2>3. GoTo(r, First(o))
    BY <1>2 DEF Arrive
  <2>4. op' \in [Request -> Ops] /\ given' \in [Request -> SUBSET Request]
    BY <1>2, <2>2 DEF Arrive, TypeOK
  <2>5. UNCHANGED <<who, tables, rows, leaked>>
    BY <1>2 DEF Arrive
  <2>6. at' \in [Request -> {"new", "done"} \cup Waiting \cup InTx]
        /\ answer' \in [Request -> {"none", "ok", "error", "already"}]
    BY <2>1, <2>3, GoToType
  <2> QED
    BY <2>4, <2>5, <2>6 DEF TypeOK, tables
<1>3. ASSUME NEW r \in Request, Serve(r)
      PROVE  TypeOK'
  <2>0. /\ {"GetUserbyEmailAddress", "CreateUser", "INSERT user", "COMMIT user",
            "StoreRefreshToken", "COMMIT token", "COMMIT revoked"} \subseteq Waiting \cup InTx
        /\ who[r] \in Account /\ users \subseteq Account /\ stored \subseteq Request
        /\ revoked \subseteq stored /\ rows \in [Request -> SUBSET Request]
        /\ leaked \subseteq Request /\ rows[r] \subseteq stored
    BY DEF Waiting, InTx, TypeOK, Revoking
  <2>1. CASE CheckName(r)
    BY <2>0, <2>1, GoToType, AnswerType, Typed DEF CheckName, tables
  <2>2. CASE CheckEmail(r)
    BY <2>0, <2>2, GoToType, AnswerType, Typed DEF CheckEmail, tables
  <2>3. CASE BeginUser(r)
    BY <2>0, <2>3, GoToType, AnswerType, Typed DEF BeginUser, tables
  <2>4. CASE InsertUser(r)
    BY <2>0, <2>4, GoToType, AnswerType, Typed DEF InsertUser, tables
  <2>5. CASE CommitUser(r)
    BY <2>0, <2>5, GoToType, AnswerType, Typed DEF CommitUser
  <2>6. CASE FindUser(r)
    BY <2>0, <2>6, GoToType, AnswerType, Typed DEF FindUser, tables
  <2>7. CASE InsertToken(r)
    BY <2>0, <2>7, GoToType, AnswerType, Typed DEF InsertToken, tables
  <2>8. CASE CommitToken(r)
    BY <2>0, <2>8, GoToType, AnswerType, Typed DEF CommitToken
  <2>9. CASE UpdateTokens(r)
    <3>1. TokensOf(Name(r)) \subseteq Request
      BY <2>0 DEF TokensOf
    <3>2. rows' \in [Request -> SUBSET Request]
      BY <2>0, <2>9, <3>1 DEF UpdateTokens
    <3>3. leaked' \subseteq Request
      BY <2>0, <2>9 DEF UpdateTokens
    <3>4. Keep /\ UNCHANGED tables
      BY <2>9 DEF UpdateTokens
    <3>5. \/ \E what \in {"error", "already"} : Answer(r, what)
          \/ GoTo(r, "COMMIT revoked")
      BY <2>9 DEF UpdateTokens
    <3> QED
      BY <2>0, <3>2, <3>3, <3>4, <3>5, GoToType, AnswerType, Typed DEF tables
  <2>10. CASE CommitRevoked(r)
    BY <2>0, <2>10, GoToType, AnswerType, Typed DEF CommitRevoked
  <2>11. CASE Refresh(r)
    BY <2>0, <2>11, GoToType, AnswerType, Typed DEF Refresh, tables
  <2>12. CASE CreateRepo(r)
    BY <2>0, <2>12, GoToType, AnswerType, Typed DEF CreateRepo, tables
  <2> QED
    BY <1>3, <2>1, <2>2, <2>3, <2>4, <2>5, <2>6, <2>7, <2>8, <2>9, <2>10, <2>11, <2>12 DEF Serve
<1>4. ASSUME NEW r \in Request, FailStatement(r)
      PROVE  TypeOK'
  <2>1. Answer(r, "error") /\ Keep /\ UNCHANGED <<tables, rows>> /\ leaked' \subseteq leaked \cup {r}
    BY <1>4 DEF FailStatement
  <2> QED
    BY <2>1, AnswerType, Typed DEF TypeOK, tables
<1> QED
  BY <1>1, <1>2, <1>3, <1>4 DEF Next

\* A request that goes on, or is answered, stays where its kind can be.
LEMMA GoToPlaced ==
  ASSUME TypeOK, Placed, NEW r \in Request, NEW place \in Places(op[r]),
         at[r] \notin {"new", "done"}, place \notin {"new", "done"},
         GoTo(r, place), UNCHANGED <<op, leaked>>
  PROVE  Placed'
<1> USE DEF TypeOK, GoTo
<1>1. at' = [at EXCEPT ![r] = place] /\ answer' = answer /\ op' = op /\ leaked' = leaked
  OBVIOUS
<1> QED
  BY <1>1 DEF Placed

LEMMA AnswerPlaced ==
  ASSUME TypeOK, Placed, NEW r \in Request, NEW what \in {"ok", "error", "already"},
         Answer(r, what), UNCHANGED op, leaked' \subseteq leaked \cup {r}
  PROVE  Placed'
BY DEF TypeOK, Placed, Answer

\* An arrived request is where the requests of its kind can be.
LEMMA PlacedStep ==
  ASSUME TypeOK, Placed, [Next]_vars
  PROVE  Placed'
<1>1. CASE UNCHANGED vars
  BY <1>1 DEF vars, Placed
<1>2. ASSUME NEW r \in Request, NEW o \in Ops, Arrive(r, o)
      PROVE  Placed'
  BY <1>2 DEF Arrive, First, Placed, Places, GoTo, TypeOK, Ops
<1>3. ASSUME NEW r \in Request, Serve(r)
      PROVE  Placed'
  <2>0. op[r] \in Ops /\ at[r] \in {"new", "done"} \cup Places(op[r])
    BY DEF TypeOK, Placed
  <2>1. CASE CheckName(r)
    BY <2>0, <2>1, GoToPlaced, AnswerPlaced DEF CheckName, Keep, Places
  <2>2. CASE CheckEmail(r)
    BY <2>0, <2>2, GoToPlaced, AnswerPlaced DEF CheckEmail, Keep, Places
  <2>3. CASE BeginUser(r)
    BY <2>0, <2>3, GoToPlaced, AnswerPlaced DEF BeginUser, Keep, Places
  <2>4. CASE InsertUser(r)
    BY <2>0, <2>4, GoToPlaced, AnswerPlaced DEF InsertUser, Keep, Places
  <2>5. CASE CommitUser(r)
    BY <2>0, <2>5, GoToPlaced, AnswerPlaced DEF CommitUser, Keep, Places
  <2>6. CASE FindUser(r)
    BY <2>0, <2>6, GoToPlaced, AnswerPlaced DEF FindUser, Keep, Places
  <2>7. CASE InsertToken(r)
    BY <2>0, <2>7, GoToPlaced, AnswerPlaced DEF InsertToken, Keep, Places
  <2>8. CASE CommitToken(r)
    BY <2>0, <2>8, GoToPlaced, AnswerPlaced DEF CommitToken, Keep, Places
  <2>9. CASE UpdateTokens(r)
    BY <2>0, <2>9, GoToPlaced, AnswerPlaced DEF UpdateTokens, Keep, Places
  <2>10. CASE CommitRevoked(r)
    BY <2>0, <2>10, GoToPlaced, AnswerPlaced DEF CommitRevoked, Keep, Places
  <2>11. CASE Refresh(r)
    BY <2>0, <2>11, GoToPlaced, AnswerPlaced DEF Refresh, Keep, Places
  <2>12. CASE CreateRepo(r)
    BY <2>0, <2>12, GoToPlaced, AnswerPlaced DEF CreateRepo, Keep, Places
  <2> QED
    BY <1>3, <2>1, <2>2, <2>3, <2>4, <2>5, <2>6, <2>7, <2>8, <2>9, <2>10, <2>11, <2>12 DEF Serve
<1>4. ASSUME NEW r \in Request, FailStatement(r)
      PROVE  Placed'
  <2>1. Answer(r, "error") /\ Keep /\ leaked' \subseteq leaked \cup {r}
    BY <1>4 DEF FailStatement
  <2> QED
    BY <2>1, AnswerPlaced DEF Keep
<1> QED
  BY <1>1, <1>2, <1>3, <1>4 DEF Next

\* Rows stay distinct where none is put in and no request comes nearer to it.
LEMMA SameDistinct ==
  ASSUME Distinct, UNCHANGED <<who, users>>,
         \A s \in Request : Registered(s)' => Registered(s),
         \A s \in Request : at'[s] = "COMMIT user" => at[s] = "COMMIT user"
  PROVE  Distinct'
BY DEF Distinct

LEMMA ErrorDistinct ==
  ASSUME TypeOK, Distinct, NEW r \in Request, Answer(r, "error"), Keep, UNCHANGED users
  PROVE  Distinct'
<1>1. ASSUME NEW s \in Request, Registered(s)'
      PROVE  Registered(s)
  BY <1>1 DEF TypeOK, Registered, Answer, Keep
<1>2. \A s \in Request : at'[s] = "COMMIT user" => at[s] = "COMMIT user"
  BY DEF TypeOK, Answer
<1> QED
  BY <1>1, <1>2, SameDistinct DEF Keep

LEMMA GoToDistinct ==
  ASSUME TypeOK, Distinct, NEW r \in Request, NEW place, GoTo(r, place), Keep, UNCHANGED users,
         place # "COMMIT user",
         place \in {"StoreRefreshToken", "COMMIT token"} => Registered(r) \/ op[r] # "register"
  PROVE  Distinct'
<1>1. ASSUME NEW s \in Request, Registered(s)'
      PROVE  Registered(s)
  BY <1>1 DEF TypeOK, Registered, GoTo, Keep
<1>2. \A s \in Request : at'[s] = "COMMIT user" => at[s] = "COMMIT user"
  BY DEF TypeOK, GoTo
<1> QED
  BY <1>1, <1>2, SameDistinct DEF Keep

\* The rows of Users stay distinct.
LEMMA DistinctStep ==
  ASSUME TypeOK, Placed, Distinct, [Next]_vars
  PROVE  Distinct'
<1>1. CASE UNCHANGED vars
  BY <1>1 DEF vars, Distinct, Registered
<1>2. ASSUME NEW r \in Request, NEW o \in Ops, Arrive(r, o)
      PROVE  Distinct'
  <2>1. /\ op' = [op EXCEPT ![r] = o] /\ at' = [at EXCEPT ![r] = First(o)]
        /\ UNCHANGED <<who, users, answer>>
    BY <1>2 DEF Arrive, GoTo, tables
  <2>2. answer[r] = "none" /\ First(o) \notin {"COMMIT user", "StoreRefreshToken", "COMMIT token"}
    BY <1>2 DEF Arrive, Placed, First
  <2>3. ASSUME NEW s \in Request, Registered(s)'
        PROVE  Registered(s)
    BY <2>1, <2>2, <2>3 DEF TypeOK, Registered
  <2>4. \A s \in Request : at'[s] = "COMMIT user" => at[s] = "COMMIT user"
    BY <2>1, <2>2 DEF TypeOK
  <2> QED
    BY <2>1, <2>3, <2>4, SameDistinct
<1>3. ASSUME NEW r \in Request, Serve(r)
      PROVE  Distinct'
  <2>0. op[r] \in Ops /\ at[r] \in {"new", "done"} \cup Places(op[r])
    BY DEF TypeOK, Placed
  <2>1. CASE CheckName(r)
    BY <2>1, GoToDistinct, ErrorDistinct DEF CheckName, tables
  <2>2. CASE CheckEmail(r)
    BY <2>2, GoToDistinct, ErrorDistinct DEF CheckEmail, tables
  <2>3. CASE BeginUser(r)
    BY <2>3, GoToDistinct, ErrorDistinct DEF BeginUser, tables
  <2>4. CASE InsertUser(r)
    <3>1. CASE Answer(r, "error")
      BY <2>4, <3>1, ErrorDistinct DEF InsertUser, tables
    <3>2. CASE GoTo(r, "COMMIT user")
      <4>1. ~Awaits(r) /\ \A u \in users : ~Clash(u, who[r])
        BY <2>4, <3>2 DEF InsertUser, GoTo, Answer, TypeOK
      <4>2. UNCHANGED <<users, who, op, answer>> /\ at' = [at EXCEPT ![r] = "COMMIT user"]
        BY <2>4, <3>2 DEF InsertUser, GoTo, Keep, tables
      <4>3. ASSUME NEW s \in Request
            PROVE  Registered(s)' => Registered(s)
        BY <4>2 DEF TypeOK, Registered
      <4>4. ASSUME NEW s \in Request, NEW t \in Request, s # t,
                   at'[s] = "COMMIT user", at'[t] = "COMMIT user"
            PROVE  ~Clash(who[s], who[t])
        <5>1. \A q \in Request : q # r => at'[q] = at[q]
          BY <4>2 DEF TypeOK
        <5>2. \A q \in Request : at[q] = "COMMIT user" => ~Clash(who[q], who[r])
          BY <4>1 DEF Awaits
        <5>3. \A a, b : Clash(a, b) <=> Clash(b, a)
          BY DEF Clash
        <5> QED
          BY <4>4, <5>1, <5>2, <5>3 DEF Distinct
      <4>5. ASSUME NEW s \in Request, at'[s] = "COMMIT user", NEW u \in users
            PROVE  ~Clash(u, who[s])
        <5>1. CASE s = r
          BY <4>1, <5>1
        <5>2. CASE s # r
          BY <4>2, <4>5, <5>2 DEF TypeOK, Distinct
        <5> QED
          BY <5>1, <5>2
      <4> QED
        BY <4>2, <4>3, <4>4, <4>5 DEF Distinct
    <3> QED
      BY <2>4, <3>1, <3>2 DEF InsertUser
  <2>5. CASE CommitUser(r)
    <3>1. /\ at[r] = "COMMIT user" /\ UNCHANGED <<op, who>>
          /\ users' = users \cup {who[r]} \/ users' = users
      BY <2>5 DEF CommitUser, Keep
    <3>2. /\ \A s \in Request : at'[s] = "COMMIT user" => s # r /\ at[s] = "COMMIT user"
          /\ \A s \in Request : Registered(s)' => Registered(s) \/ s = r
          /\ Registered(r)' => users' = users \cup {who[r]}
      BY <2>5 DEF CommitUser, GoTo, Answer, Keep, TypeOK, Registered
    <3>3. \A s \in Request : at[s] = "COMMIT user" /\ s # r => ~Clash(who[r], who[s])
      BY <3>1 DEF Distinct
    <3>4. \A u \in users : ~Clash(u, who[r]) /\ ~Clash(who[r], u)
      BY <3>1 DEF Distinct, Clash
    <3>5. \A s \in Request : Registered(s) => who[s] \in users
      BY DEF Distinct
    <3>6. ASSUME NEW s \in Request, NEW t \in Request, s # t, Registered(s)', Registered(t)'
          PROVE  ~Clash(who[s], who[t])
      BY <3>2, <3>4, <3>5, <3>6 DEF Distinct
    <3>7. ASSUME NEW s \in Request, at'[s] = "COMMIT user"
          PROVE  \A u \in users' : ~Clash(u, who[s])
      <4>1. s # r /\ at[s] = "COMMIT user"
        BY <3>2, <3>7
      <4>2. ~Clash(who[r], who[s])
        BY <3>3, <4>1
      <4>3. \A u \in users : ~Clash(u, who[s])
        BY <4>1 DEF Distinct
      <4> QED
        BY <3>1, <4>2, <4>3
    <3>8. \A s \in Request : Registered(s)' => who[s] \in users'
      BY <3>1, <3>2, <3>5
    <3>9. ASSUME NEW s \in Request, NEW t \in Request, s # t,
                 at'[s] = "COMMIT user", at'[t] = "COMMIT user"
          PROVE  ~Clash(who[s], who[t])
      BY <3>2, <3>9 DEF Distinct
    <3> QED
      BY <3>1, <3>6, <3>7, <3>8, <3>9 DEF Distinct
  <2>6. CASE FindUser(r)
    BY <2>0, <2>6, GoToDistinct, ErrorDistinct DEF FindUser, tables, Places
  <2>7. CASE InsertToken(r)
    BY <2>0, <2>7, GoToDistinct, ErrorDistinct DEF InsertToken, tables, Registered
  <2>8. CASE CommitToken(r)
    <3>1. at[r] = "COMMIT token" /\ UNCHANGED <<op, who, users>>
      BY <2>8 DEF CommitToken, Keep
    <3>2. \A s \in Request : Registered(s)' => Registered(s)
      BY <2>8, <3>1 DEF CommitToken, Answer, TypeOK, Registered
    <3>3. \A s \in Request : at'[s] = "COMMIT user" => at[s] = "COMMIT user"
      BY <2>8 DEF CommitToken, Answer, TypeOK
    <3> QED
      BY <3>1, <3>2, <3>3, SameDistinct
  <2>9. CASE op[r] = "logout" /\ (UpdateTokens(r) \/ CommitRevoked(r))
    <3>1. UNCHANGED <<op, who, users>>
      BY <2>9 DEF UpdateTokens, CommitRevoked, Keep, tables
    <3>2. \/ GoTo(r, "COMMIT revoked")
          \/ \E what \in {"ok", "already", "error"} : Answer(r, what)
      BY <2>9 DEF UpdateTokens, CommitRevoked
    <3>3. \A s \in Request : Registered(s)' => Registered(s)
      BY <2>9, <3>1, <3>2 DEF GoTo, Answer, TypeOK, Registered
    <3>4. \A s \in Request : at'[s] = "COMMIT user" => at[s] = "COMMIT user"
      BY <3>2 DEF GoTo, Answer, TypeOK
    <3> QED
      BY <3>1, <3>3, <3>4, SameDistinct
  <2>10. UpdateTokens(r) \/ CommitRevoked(r) => op[r] = "logout"
    BY <2>0 DEF UpdateTokens, CommitRevoked, Places, Ops
  <2>11. CASE Refresh(r)
    BY <2>11, ErrorDistinct DEF Refresh, tables
  <2>12. CASE CreateRepo(r)
    BY <2>12, ErrorDistinct DEF CreateRepo, tables
  <2> QED
    BY <1>3, <2>1, <2>2, <2>3, <2>4, <2>5, <2>6, <2>7, <2>8, <2>9, <2>10, <2>11, <2>12 DEF Serve
<1>4. ASSUME NEW r \in Request, FailStatement(r)
      PROVE  Distinct'
  BY <1>4, ErrorDistinct DEF FailStatement, tables
<1> QED
  BY <1>1, <1>2, <1>3, <1>4 DEF Next

\* What has to be revoked, and is, stays so where tokens are only added, and
\* no request comes nearer to a logout's end or to the answer "ok".
Steady(r) ==
  /\ UNCHANGED <<who, rows, given, op, revoked>>
  /\ stored \subseteq stored'
  /\ \A s \in Request : at'[s] \in {"RevokeAllTokens", "COMMIT revoked"} => at'[s] = at[s]
  /\ \A s \in Request : s # r => answer'[s] = answer[s]
  /\ answer'[r] = "ok" => answer[r] = "ok" \/ r \in stored'
  /\ answer'[r] # "ok" \/ op[r] # "logout"

LEMMA SteadyRevoking ==
  ASSUME TypeOK, Revoking, NEW r \in Request, Steady(r)
  PROVE  Revoking'
<1>1. ASSUME NEW s \in Request, Issues(s)'
      PROVE  s \in stored'
  BY <1>1 DEF Steady, Revoking, Issues
<1> QED
  BY <1>1 DEF Steady, Revoking, Name

\* A request that does not concern tokens, a token that is stored, or an error.
LEMMA OtherSteady ==
  ASSUME TypeOK, Placed, NEW r \in Request, Serve(r),
         ~UpdateTokens(r), ~CommitRevoked(r)
  PROVE  Steady(r)
<1>1. at[r] \in {"new", "done"} \cup Places(op[r]) /\ op[r] \in Ops
  BY DEF TypeOK, Placed
<1>2. CASE CommitToken(r)
  BY <1>1, <1>2 DEF CommitToken, Steady, Keep, Answer, TypeOK, Places
<1>3. CASE ~CommitToken(r)
  <2>1. \/ Answer(r, "error")
        \/ \E place \in {"GetUserbyEmailAddress", "CreateUser", "INSERT user", "COMMIT user",
                         "StoreRefreshToken", "COMMIT token"} : GoTo(r, place)
    BY <1>3 DEF Serve, CheckName, CheckEmail, BeginUser, InsertUser, CommitUser, FindUser,
         InsertToken, Refresh, CreateRepo
  <2>2. UNCHANGED <<who, rows, given, op, stored, revoked>>
    BY <1>3 DEF Serve, CheckName, CheckEmail, BeginUser, InsertUser, CommitUser, FindUser,
         InsertToken, Refresh, CreateRepo, Keep, tables
  <2>3. at[r] # "done" => answer[r] = "none"
    BY DEF Placed, TypeOK
  <2>4. at[r] # "done"
    BY <1>3 DEF Serve, CheckName, CheckEmail, BeginUser, InsertUser, CommitUser, FindUser,
         InsertToken, Refresh, CreateRepo
  <2>5. CASE Answer(r, "error")
    BY <2>2, <2>5 DEF Steady, Answer, TypeOK
  <2>6. CASE \E place \in {"GetUserbyEmailAddress", "CreateUser", "INSERT user", "COMMIT user",
                           "StoreRefreshToken", "COMMIT token"} : GoTo(r, place)
    BY <2>2, <2>3, <2>4, <2>6 DEF Steady, GoTo, TypeOK
  <2> QED
    BY <2>1, <2>5, <2>6
<1> QED
  BY <1>2, <1>3

\* A failed statement changes nothing that tokens depend on.
LEMMA FailSteady ==
  ASSUME TypeOK, NEW r \in Request, FailStatement(r)
  PROVE  Steady(r)
<1>1. Answer(r, "error") /\ UNCHANGED <<who, rows, given, op, stored, revoked>>
  BY DEF FailStatement, Keep, tables
<1> QED
  BY <1>1 DEF Steady, Answer, TypeOK

\* A logout finds every token it was given in the table, and has it revoked.
LEMMA RevokingStep ==
  ASSUME TypeOK, Placed, Revoking, [Next]_vars
  PROVE  Revoking'
<1>1. CASE UNCHANGED vars
  BY <1>1 DEF vars, Revoking, Issues, Name
<1>2. ASSUME NEW r \in Request, NEW o \in Ops, Arrive(r, o)
      PROVE  Revoking'
  <2>1. /\ op' = [op EXCEPT ![r] = o] /\ at' = [at EXCEPT ![r] = First(o)]
        /\ given' = [given EXCEPT ![r] = IF o = "logout" THEN Given(Name(r)) ELSE {}]
        /\ UNCHANGED <<who, users, stored, revoked, answer, rows>>
    BY <1>2 DEF Arrive, GoTo, tables
  <2>2. answer[r] = "none"
    BY <1>2 DEF Arrive, Placed
  <2>3. /\ \A s \in Given(Name(r)) : s \in stored /\ Name(s) = Name(r)
        /\ o = "logout" => Given(Name(r)) # {}
        /\ First(o) = "RevokeAllTokens" => o = "logout"
        /\ First(o) # "COMMIT revoked"
    BY <1>2 DEF Arrive, Given, Revoking, First, Ops
  <2>4. ASSUME NEW s \in Request, Issues(s)'
        PROVE  s \in stored'
    BY <2>1, <2>2, <2>4 DEF TypeOK, Revoking, Issues
  <2>5. ASSUME NEW s \in Request
        PROVE  /\ given'[s] \subseteq stored /\ \A t \in given'[s] : Name(t) = Name(s)
               /\ at'[s] = "RevokeAllTokens" => given'[s] # {}
               /\ at'[s] = "COMMIT revoked" => given'[s] \subseteq rows[s]
    <3>1. CASE s = r
      BY <2>1, <2>3, <3>1 DEF TypeOK
    <3>2. CASE s # r
      BY <2>1, <3>2 DEF TypeOK, Revoking
    <3> QED
      BY <3>1, <3>2
  <2> QED
    BY <2>1, <2>4, <2>5 DEF Revoking, Name
<1>3. ASSUME NEW r \in Request, UpdateTokens(r)
      PROVE  Revoking'
  <2>1. /\ at[r] = "RevokeAllTokens" /\ UNCHANGED <<op, who, given, stored, revoked>>
        /\ answer[r] = "none"
    BY <1>3 DEF UpdateTokens, Keep, tables, Placed, TypeOK
  <2>2. given[r] # {} /\ given[r] \subseteq TokensOf(Name(r))
    BY <2>1 DEF Revoking, TokensOf
  <2>3. CASE Answer(r, "error")
    <3>1. UNCHANGED rows
      BY <1>3, <2>3 DEF UpdateTokens, Answer, GoTo, TypeOK
    <3>2. Steady(r)
      BY <2>1, <2>3, <3>1 DEF Steady, Answer, TypeOK
    <3> QED
      BY <3>2, SteadyRevoking
  <2>4. CASE GoTo(r, "COMMIT revoked")
    <3>1. rows' = [rows EXCEPT ![r] = TokensOf(Name(r))]
      BY <1>3, <2>1, <2>2, <2>4 DEF UpdateTokens, Answer, GoTo, TypeOK
    <3>2. \A s \in TokensOf(Name(r)) : s \in stored /\ Name(s) = Name(r)
      BY DEF TokensOf
    <3>3. ASSUME NEW s \in Request, Issues(s)'
          PROVE  s \in stored'
      BY <2>1, <2>4, <3>3 DEF GoTo, Revoking, Issues
    <3>4. ASSUME NEW s \in Request
          PROVE  /\ rows'[s] \subseteq stored /\ \A t \in rows'[s] : Name(t) = Name(s)
                 /\ at'[s] = "RevokeAllTokens" => given[s] # {}
                 /\ at'[s] = "COMMIT revoked" => given[s] \subseteq rows'[s]
      <4>1. CASE s = r
        BY <2>2, <2>4, <3>1, <3>2, <4>1 DEF GoTo, TypeOK
      <4>2. CASE s # r
        BY <2>4, <3>1, <4>2 DEF GoTo, TypeOK, Revoking
      <4> QED
        BY <4>1, <4>2
    <3> QED
      BY <2>1, <3>3, <3>4 DEF Revoking, Name
  <2> QED
    BY <1>3, <2>2, <2>3, <2>4 DEF UpdateTokens
<1>4. ASSUME NEW r \in Request, CommitRevoked(r)
      PROVE  Revoking'
  <2>1. /\ at[r] = "COMMIT revoked" /\ UNCHANGED <<op, who, given, stored, rows>>
        /\ op[r] = "logout"
        /\ \E what \in {"ok", "error"} : Answer(r, what)
    <3>1. at[r] \in {"new", "done"} \cup Places(op[r]) /\ op[r] \in Ops
      BY DEF TypeOK, Placed
    <3> QED
      BY <1>4, <3>1 DEF CommitRevoked, Keep, Places, Ops
  <2>2. ASSUME NEW s \in Request, Issues(s)'
        PROVE  s \in stored'
    BY <2>1, <2>2 DEF Answer, Revoking, Issues, TypeOK
  <2>3. \A s \in Request : at'[s] \in {"RevokeAllTokens", "COMMIT revoked"} => at'[s] = at[s]
    BY <2>1 DEF Answer, TypeOK
  <2> QED
    BY <2>1, <2>2, <2>3 DEF Revoking, Name
<1>5. ASSUME NEW r \in Request, Serve(r), ~UpdateTokens(r), ~CommitRevoked(r)
      PROVE  Revoking'
  BY <1>5, OtherSteady, SteadyRevoking
<1>6. ASSUME NEW r \in Request, FailStatement(r)
      PROVE  Revoking'
  BY <1>6, FailSteady, SteadyRevoking
<1> QED
  BY <1>1, <1>2, <1>3, <1>4, <1>5, <1>6 DEF Next

\* What a logout has revoked stays revoked, and is what it was given at least.
LEMMA LogoutStep ==
  ASSUME TypeOK, Placed, Revoking, LogoutRevokes, [Next]_vars
  PROVE  LogoutRevokes'
<1>1. CASE UNCHANGED vars
  BY <1>1 DEF vars, LogoutRevokes, Name
<1>2. ASSUME NEW r \in Request, NEW o \in Ops, Arrive(r, o)
      PROVE  LogoutRevokes'
  <2>1. /\ op' = [op EXCEPT ![r] = o] /\ \A s \in Request : s # r => given'[s] = given[s]
        /\ UNCHANGED <<who, revoked, answer>>
    BY <1>2 DEF Arrive, GoTo, tables, TypeOK
  <2>2. answer[r] = "none" /\ op[r] = "register"
    BY <1>2 DEF Arrive, Placed
  <2>3. \A s \in Request : op[s] = "logout" => op'[s] = "logout"
    BY <2>1, <2>2 DEF TypeOK
  <2>4. ASSUME NEW s \in Request, op'[s] = "logout", answer'[s] = "ok"
        PROVE  given'[s] \subseteq revoked
    BY <2>1, <2>2, <2>4 DEF TypeOK, LogoutRevokes
  <2> QED
    BY <2>1, <2>3, <2>4 DEF LogoutRevokes, Name
<1>3. ASSUME NEW r \in Request, UpdateTokens(r)
      PROVE  LogoutRevokes'
  <2>1. /\ UNCHANGED <<op, who, given, revoked>>
        /\ \A s \in Request : answer'[s] = "ok" => answer[s] = "ok"
    BY <1>3 DEF UpdateTokens, Keep, tables, Answer, GoTo, TypeOK
  <2> QED
    BY <2>1 DEF LogoutRevokes, Name
<1>4. ASSUME NEW r \in Request, CommitRevoked(r)
      PROVE  LogoutRevokes'
  <2>1. /\ at[r] = "COMMIT revoked" /\ UNCHANGED <<op, who, given>>
        /\ op[r] = "logout"
        /\ revoked' \in {revoked, revoked \cup rows[r]}
        /\ answer'[r] = "ok" => revoked' = revoked \cup rows[r]
        /\ \A s \in Request : s # r => answer'[s] = answer[s]
    <3>1. at[r] \in {"new", "done"} \cup Places(op[r]) /\ op[r] \in Ops
      BY DEF TypeOK, Placed
    <3> QED
      BY <1>4, <3>1 DEF CommitRevoked, Keep, Places, Ops, Answer, TypeOK
  <2>2. given[r] \subseteq rows[r] /\ \A s \in rows[r] : s \in Request /\ Name(s) = Name(r)
    BY <2>1 DEF Revoking, TypeOK
  <2>3. ASSUME NEW s \in Request, op[s] = "logout", answer'[s] = "ok"
        PROVE  given[s] \subseteq revoked'
    BY <2>1, <2>2, <2>3 DEF LogoutRevokes
  <2>4. ASSUME NEW s \in revoked'
        PROVE  \E t \in Request : op[t] = "logout" /\ Name(t) = Name(s)
    BY <2>1, <2>2 DEF LogoutRevokes
  <2> QED
    BY <2>1, <2>3, <2>4 DEF LogoutRevokes, Name
<1>5. ASSUME NEW r \in Request, Serve(r), ~UpdateTokens(r), ~CommitRevoked(r)
      PROVE  LogoutRevokes'
  <2>1. Steady(r)
    BY <1>5, OtherSteady
  <2> QED
    BY <2>1 DEF Steady, LogoutRevokes, Name
<1>6. ASSUME NEW r \in Request, FailStatement(r)
      PROVE  LogoutRevokes'
  <2>1. Steady(r)
    BY <1>6, FailSteady
  <2> QED
    BY <2>1 DEF Steady, LogoutRevokes, Name
<1> QED
  BY <1>1, <1>2, <1>3, <1>4, <1>5, <1>6 DEF Next

\* Nobody is told to be logged out already.
LEMMA AlreadyStep ==
  ASSUME TypeOK, Placed, Revoking, NeverAlreadyOut, [Next]_vars
  PROVE  NeverAlreadyOut'
<1>1. \A r \in Request : Issues(r)' => r \in stored'
  BY RevokingStep DEF Revoking
<1>2. \A r \in Request : answer'[r] # "already"
  <2>1. CASE UNCHANGED vars
    BY <2>1 DEF vars, NeverAlreadyOut
  <2>2. ASSUME NEW r \in Request, NEW o \in Ops, Arrive(r, o)
        PROVE  UNCHANGED answer
    BY <2>2 DEF Arrive, GoTo
  <2>3. ASSUME NEW r \in Request, Serve(r) \/ FailStatement(r)
        PROVE  \/ \E what \in {"ok", "error"} : Answer(r, what)
               \/ UNCHANGED answer
    <3>1. CASE UpdateTokens(r)
      <4>1. TokensOf(Name(r)) # {}
        BY <3>1 DEF UpdateTokens, Revoking, TokensOf
      <4> QED
        BY <3>1, <4>1 DEF UpdateTokens, GoTo
    <3>2. CASE ~UpdateTokens(r)
      BY <2>3, <3>2 DEF Serve, CheckName, CheckEmail, BeginUser, InsertUser, CommitUser,
           FindUser, InsertToken, CommitToken, CommitRevoked, Refresh, CreateRepo, GoTo, FailStatement
    <3> QED
      BY <3>1, <3>2
  <2>4. ASSUME NEW r \in Request, \E what \in {"ok", "error"} : Answer(r, what)
        PROVE  \A s \in Request : answer'[s] # "already"
    BY <2>4 DEF Answer, NeverAlreadyOut, TypeOK
  <2> QED
    BY <2>1, <2>2, <2>3, <2>4 DEF Next, NeverAlreadyOut
<1> QED
  BY <1>1, <1>2 DEF NeverAlreadyOut

\* A login goes on only with a user it has found, and users stay.
LEMMA FoundStep ==
  ASSUME TypeOK, Placed, Found, [Next]_vars
  PROVE  Found' /\ users \subseteq users'
<1>1. CASE UNCHANGED vars
  BY <1>1 DEF vars, Found, Name
<1>2. ASSUME NEW r \in Request, NEW o \in Ops, Arrive(r, o)
      PROVE  Found' /\ users \subseteq users'
  <2>1. /\ op' = [op EXCEPT ![r] = o] /\ at' = [at EXCEPT ![r] = First(o)]
        /\ UNCHANGED <<who, users>>
    BY <1>2 DEF Arrive, GoTo, tables
  <2>2. First(o) \notin {"StoreRefreshToken", "COMMIT token"}
    BY DEF First
  <2> QED
    BY <2>1, <2>2 DEF Found, TypeOK, Name
<1>3. ASSUME NEW r \in Request, Serve(r) \/ FailStatement(r)
      PROVE  Found' /\ users \subseteq users'
  <2>1. /\ at[r] \in {"new", "done"} \cup Places(op[r]) /\ op[r] \in Ops
        /\ \A s \in Request : at[s] \in {"new", "done"} \cup Waiting \cup InTx
    BY DEF TypeOK, Placed
  <2>2. UNCHANGED <<op, who>> /\ users \subseteq users' /\ \A s \in Request : s # r => at'[s] = at[s]
    BY <1>3 DEF Serve, CheckName, CheckEmail, BeginUser, InsertUser, CommitUser, FindUser,
         InsertToken, CommitToken, UpdateTokens, CommitRevoked, Refresh, CreateRepo, FailStatement,
         Keep, GoTo, Answer, TypeOK, tables
  <2>3. ASSUME op[r] = "login", at'[r] \in {"StoreRefreshToken", "COMMIT token"}
        PROVE  \E u \in users : u.name = Name(r)
    <3>1. CASE FindUser(r)
      BY <2>3, <3>1 DEF FindUser, Answer, TypeOK
    <3>2. CASE InsertToken(r)
      BY <2>3, <3>2 DEF InsertToken, Found
    <3>3. CASE ~FindUser(r) /\ ~InsertToken(r)
      <4>1. at'[r] = "done"
        BY <1>3, <2>1, <2>3, <3>3 DEF Serve, CheckName, CheckEmail, BeginUser, InsertUser, CommitUser,
             CommitToken, UpdateTokens, CommitRevoked, Refresh, CreateRepo, FailStatement,
             Answer, TypeOK, Places
      <4> QED
        BY <2>3, <4>1
    <3> QED
      BY <3>1, <3>2, <3>3
  <2> QED
    BY <2>2, <2>3 DEF Found, Name
<1> QED
  BY <1>1, <1>2, <1>3 DEF Next

\* A connection is lost only with an error, and not by a login of nobody.
LEMMA LeakStep ==
  ASSUME TypeOK, Placed, Revoking, Found, WhoLeaks, [Next]_vars
  PROVE  WhoLeaks'
<1>0. users \subseteq users'
  BY FoundStep
<1>1. CASE UNCHANGED vars
  BY <1>1 DEF vars, WhoLeaks, Name
<1>2. ASSUME NEW r \in Request, NEW o \in Ops, Arrive(r, o)
      PROVE  WhoLeaks'
  <2>1. r \notin leaked /\ UNCHANGED <<leaked, answer, who, users>> /\ op' = [op EXCEPT ![r] = o]
    BY <1>2 DEF Arrive, GoTo, Placed, tables
  <2> QED
    BY <2>1 DEF WhoLeaks, TypeOK, Name
<1>3. ASSUME NEW r \in Request, Serve(r)
      PROVE  WhoLeaks'
  <2>0. at[r] # "done" /\ r \notin leaked
        /\ at[r] \in {"new", "done"} \cup Places(op[r]) /\ op[r] \in Ops
    BY <1>3 DEF Serve, CheckName, CheckEmail, BeginUser, InsertUser, CommitUser, FindUser,
         InsertToken, CommitToken, UpdateTokens, CommitRevoked, Refresh, CreateRepo, Placed, TypeOK
  <2>1. UNCHANGED <<op, who>> /\ \A s \in Request : s # r => answer'[s] = answer[s]
    BY <1>3 DEF Serve, CheckName, CheckEmail, BeginUser, InsertUser, CommitUser, FindUser,
         InsertToken, CommitToken, UpdateTokens, CommitRevoked, Refresh, CreateRepo,
         Keep, GoTo, Answer, TypeOK
  <2>2. CASE UNCHANGED leaked
    BY <1>0, <2>0, <2>1, <2>2 DEF WhoLeaks, TypeOK, Name
  <2>3. CASE InsertUser(r)
    <3>1. op[r] = "register"
      BY <2>0, <2>3 DEF InsertUser, Places, Ops
    <3>2. CASE leaked' = leaked \cup {r} /\ Answer(r, "error")
      BY <1>0, <2>1, <3>1, <3>2 DEF WhoLeaks, Answer, TypeOK, Name
    <3> QED
      BY <2>2, <2>3, <3>2 DEF InsertUser
  <2>4. CASE UpdateTokens(r)
    <3>1. TokensOf(Name(r)) # {}
      BY <2>4 DEF UpdateTokens, Revoking, TokensOf
    <3> QED
      BY <2>2, <2>4, <3>1 DEF UpdateTokens
  <2>5. CASE CreateRepo(r)
    <3>1. op[r] = "create repository"
      BY <2>0, <2>5 DEF CreateRepo, Places, Ops
    <3>2. leaked' \subseteq leaked \cup {r} /\ Answer(r, "error")
      BY <2>5 DEF CreateRepo
    <3> QED
      BY <1>0, <2>1, <3>1, <3>2 DEF WhoLeaks, Answer, TypeOK, Name
  <2> QED
    BY <1>3, <2>2, <2>3, <2>4, <2>5 DEF Serve, CheckName, CheckEmail, BeginUser, CommitUser,
         FindUser, InsertToken, CommitToken, CommitRevoked, Refresh
<1>4. ASSUME NEW r \in Request, FailStatement(r)
      PROVE  WhoLeaks'
  <2>1. /\ Answer(r, "error") /\ UNCHANGED <<op, who, users>> /\ leaked' \subseteq leaked \cup {r}
        /\ at[r] \in {"INSERT user", "StoreRefreshToken", "RevokeAllTokens"}
    BY <1>4 DEF FailStatement, Keep, tables
  <2>2. op[r] # "refresh"
    BY <2>1 DEF Placed, Places
  <2>3. op[r] = "login" => at[r] = "StoreRefreshToken"
    BY <2>1 DEF Placed, Places
  <2>4. op[r] = "login" => \E u \in users : u.name = Name(r)
    BY <2>3 DEF Found
  <2> QED
    BY <2>1, <2>2, <2>4 DEF WhoLeaks, Answer, TypeOK, Name
<1> QED
  BY <1>1, <1>2, <1>3, <1>4 DEF Next

-----------------------------------------------------------------------------
\* Inv is inductive, and holds of every behaviour of the server.
LEMMA Invariance == Spec => []Inv
<1>1. Inv /\ [Next]_vars => Inv'
  BY TypeStep, PlacedStep, DistinctStep, RevokingStep, LogoutStep, AlreadyStep, FoundStep,
     LeakStep DEF Inv
<1> QED
  BY <1>1, InitInv, PTL DEF Spec

\* The server's tables and requests have their types, whatever is asked for:
\* what is revoked is stored.
THEOREM TypeCorrect == Spec => []TypeOK
<1>1. Inv => TypeOK
  BY DEF Inv
<1> QED
  BY <1>1, Invariance, PTL

\* Register: two requests that are both answered with success have different
\* names and different addresses.
THEOREM NamesTakenOnce == Spec => []OneAccount
<1>1. Inv => OneAccount
  BY DEF Inv, Distinct, OneAccount, Registered
<1> QED
  BY <1>1, Invariance, PTL

\* RevokeAllTokens: a logout that is answered with success has revoked every
\* token that its user had been given before it was sent, and no token is
\* revoked that is not of a user who logs out.
THEOREM LogoutsRevoke == Spec => []LogoutRevokes
<1>1. Inv => LogoutRevokes
  BY DEF Inv
<1> QED
  BY <1>1, Invariance, PTL

\* RevokeAllTokens never finds no row, because StoreRefreshToken comes before
\* the answer of Login and Register.
THEOREM NobodyAlreadyOut == Spec => []NeverAlreadyOut
<1>1. Inv => NeverAlreadyOut
  BY DEF Inv
<1> QED
  BY <1>1, Invariance, PTL

\* The calls that begin a transaction keep its connection only when they fail,
\* and Login begins none for a user it does not find.
THEOREM OnlyFailuresLeak == Spec => []WhoLeaks
<1>1. Inv => WhoLeaks
  BY DEF Inv
<1> QED
  BY <1>1, Invariance, PTL
=============================================================================
