-------------------------- MODULE JitHubReposProofs --------------------------
(***************************************************************************)
(* Proofs about JitHubRepos, for any requests, users, repositories and     *)
(* connections, and whatever is asked for.                                 *)
(***************************************************************************)
EXTENDS JitHubRepos, TLAPS

-----------------------------------------------------------------------------
(***************************************************************************)
(* The inductive invariant: what is true of each request, and of those     *)
(* that are about to commit.                                               *)
(***************************************************************************)

\* Where requests behind the checks are: what they are about exists, ...
Checked == {"GetAccessStatusOnRepo", "GetRepoSecret"} \cup {"Begin grant", "Begin revoke"} \cup InTx

\* ... and these belong to owners.
Owners == Checked \ {"GetAccessStatusOnRepo"}

\* Where a request for o may be.
Places(o) ==
  CASE o = "list"   -> {"repos of owner", "repos of contributor", "repos for visitor"}
    [] o = "remote" -> {"GetRepoPrivacy", "GetAccessStatusOnRepo", "GetRepoSecret"}
    [] o = "grant"  -> {"GetRepoPrivacy", "Begin grant", "INSERT access", "COMMIT grant"}
    [] o = "revoke" -> {"GetRepoPrivacy", "Begin revoke", "DELETE access", "COMMIT revoke"}
    [] o \in {"details", "push", "pull"} -> {"GetRepoPrivacy", "GetAccessStatusOnRepo"}
    [] OTHER -> {}

Active(r) == at[r] \notin {"new", "done"}

\* A request that is under way.
Placed(r) ==
  /\ Active(r) => at[r] \in Places(Op(r)) /\ access \subseteq seen[r]
  /\ r \in leaked \cup done => at[r] = "done"
  /\ at[r] \in Checked => For(r) \in Repo
  /\ at[r] \in Owners => By(r) = For(r).owner

\* What the parts of a listing have brought so far.
Listing(r) ==
  /\ at[r] = "repos of contributor" => shown[r] \subseteq Owned(req[r].of)
  /\ at[r] = "repos for visitor" => \A p \in shown[r] : p.public

\* The three properties, of one request.
Served(r) ==
  at[r] = "done" /\ answer[r] = "ok" /\ Op(r) \in {"remote", "push", "pull", "details"}
    => HadAccess(r, For(r)) \/ (Op(r) = "details" /\ For(r).public)

Listed(r) ==
  at[r] = "done" /\ answer[r] = "ok" /\ Op(r) = "list"
    => \A p \in shown[r] : p.public \/ HadAccess(r, p)

Leaked(r) ==
  r \in leaked =>
    \/ Op(r) = "grant" /\ answer[r] = "error" /\ By(r) = For(r).owner
    \/ Op(r) = "revoke" /\ answer[r] \in {"not found", "error"} /\ By(r) = For(r).owner
    \/ Op(r) = "list" /\ answer[r] = "error"
       /\ \E p \in Repo : ~p.described /\ (p.owner = req[r].of \/ <<req[r].of, p>> \in seen[r])

Good(r) == Placed(r) /\ Listing(r) /\ Served(r) /\ Listed(r) /\ Leaked(r)

\* A grant that is about to be committed is the only one of its row, which is
\* not there; and a revoke the only one of a row that is.
Alone ==
  \A r \in Request :
    /\ at[r] = "COMMIT grant" => req[r].target \in User /\ Row(r) \notin access
    /\ at[r] = "COMMIT revoke" => Row(r) \in access
    /\ \A s \in Request :
         at[r] \in {"COMMIT grant", "COMMIT revoke"} /\ at[s] = at[r] /\ Row(s) = Row(r) => s = r

Inv == TypeOK /\ Alone /\ \A r \in Request : Good(r)

-----------------------------------------------------------------------------
\* The initial states satisfy it: nothing has been asked for.
LEMMA InitInv == Init => Inv
<1> SUFFICES ASSUME Init PROVE Inv
  OBVIOUS
<1>1. TypeOK
  BY GrantedAssumption DEF Init, TypeOK
<1>2. Alone
  BY DEF Init, Alone
<1>3. ASSUME NEW r \in Request PROVE Good(r)
  BY DEF Init, Good, Placed, Active, Listing, Served, Listed, Leaked, Checked, Owners, InTx
<1> QED
  BY <1>1, <1>2, <1>3 DEF Inv

-----------------------------------------------------------------------------
(***************************************************************************)
(* Type correctness.                                                       *)
(***************************************************************************)
Ats     == {"new", "done"} \cup Queries \cup InTx
Answers == {"none", "ok", "refused", "not found", "error"}

LEMMA GoToType ==
  ASSUME TypeOK, NEW r \in Request, NEW place \in Ats, GoTo(r, place)
  PROVE  at' \in [Request -> Ats] /\ answer' \in [Request -> Answers]
BY DEF TypeOK, GoTo, Ats, Answers

LEMMA AnswerType ==
  ASSUME TypeOK, NEW r \in Request, NEW what \in Answers, Answer(r, what)
  PROVE  at' \in [Request -> Ats] /\ answer' \in [Request -> Answers]
BY DEF TypeOK, Answer, Ats, Answers

\* A request goes on, or its statement fails.
Acts(r) == Serve(r) \/ FailStatement(r)

\* What the steps of a request leave alone, and where they go.
Moves(r) ==
  /\ req' = req /\ Active(r)
  /\ \/ \E place \in Places(Op(r)) : GoTo(r, place)
     \/ \E what \in Answers \ {"none"} : Answer(r, what)
  /\ \A s \in Request : s # r => shown'[s] = shown[s]
  /\ leaked' = leaked \/ (leaked' = leaked \cup {r} /\ at'[r] = "done")

\* The steps that change no table.
StaysPut(r) == UNCHANGED <<access, seen, done>>

\* Every step of a request is of this form.
LEMMA ServeMoves ==
  ASSUME TypeOK, NEW r \in Request, Good(r), Acts(r)
  PROVE  Moves(r)
<1>0. /\ Op(r) \in Ops
      /\ at[r] # "new"
      /\ Active(r) => at[r] \in Places(Op(r))
  <2>1. at[r] # "new"
    BY DEF Serve, AuthorizePrivacy, AuthorizeEditAccess, GetRepoSecret, ReposOfOwner,
         ReposOfContributor, ReposForVisitor, Begin, InsertAccess, DeleteAccess, CommitGrant,
         CommitRevoke, Acts, FailStatement
  <2> QED
    BY <2>1, MenuAssumption DEF TypeOK, Op, Good, Placed
<1> USE DEF Active, Answers
<1>1. CASE AuthorizePrivacy(r)
  BY <1>0, <1>1 DEF AuthorizePrivacy, AuthorizeOwnership, Proceed, Moves, Reads, Places, Ops
<1>2. CASE AuthorizeEditAccess(r)
  BY <1>0, <1>2 DEF AuthorizeEditAccess, Handle, GetRepo, AddRemoteRepo, PushOrPull, Moves,
       Reads, Places, Ops
<1>3. CASE GetRepoSecret(r)
  BY <1>0, <1>3 DEF GetRepoSecret, Moves, Reads, Places, Ops
<1>4. CASE ReposOfOwner(r)
  BY <1>0, <1>4 DEF ReposOfOwner, Scan, Leak, Answer, Moves, Reads, Places, Ops, TypeOK
<1>5. CASE ReposOfContributor(r)
  BY <1>0, <1>5 DEF ReposOfContributor, Scan, Leak, Answer, Moves, Reads, Places, Ops, TypeOK
<1>6. CASE ReposForVisitor(r)
  BY <1>0, <1>6 DEF ReposForVisitor, Scan, Leak, Answer, Moves, Reads, Places, Ops, TypeOK
<1>7. CASE Begin(r)
  BY <1>0, <1>7 DEF Begin, Moves, Quiet, Places, Ops
<1>8. CASE InsertAccess(r)
  BY <1>0, <1>8 DEF InsertAccess, Leak, Answer, Moves, Quiet, Places, Ops, TypeOK
<1>9. CASE DeleteAccess(r)
  BY <1>0, <1>9 DEF DeleteAccess, Leak, Answer, Moves, Quiet, Places, Ops, TypeOK
<1>10. CASE CommitGrant(r)
  BY <1>0, <1>10 DEF CommitGrant, Moves, Places, Ops
<1>11. CASE CommitRevoke(r)
  BY <1>0, <1>11 DEF CommitRevoke, Moves, Places, Ops
<1>12. CASE FailStatement(r)
  BY <1>0, <1>12 DEF FailStatement, Leak, Answer, Moves, Quiet, Places, Ops, TypeOK
<1> QED
  BY <1>1, <1>2, <1>3, <1>4, <1>5, <1>6, <1>7, <1>8, <1>9, <1>10, <1>11, <1>12 DEF Acts, Serve

\* Type correctness is kept.
LEMMA TypeStep ==
  ASSUME Inv, [Next]_vars
  PROVE  TypeOK'
<1> USE DEF Ats, Answers
<1>0. TypeOK
  BY DEF Inv
<1>1. CASE UNCHANGED vars
  BY <1>0, <1>1 DEF vars, TypeOK
<1>2. ASSUME NEW r \in Request, NEW q \in Menu, Arrive(r, q)
      PROVE  TypeOK'
  <2>1. at' \in [Request -> Ats] /\ answer' \in [Request -> Answers] /\ at'[r] # "new"
        /\ \A s \in Request : s # r => at'[s] = at[s]
    BY <1>0, <1>2, GoToType, AnswerType
       DEF Arrive, GetProfile, GetAllRepos, GoTo, Answer, Queries, TypeOK
  <2>2. /\ req' = [req EXCEPT ![r] = q] /\ seen' = [seen EXCEPT ![r] = access]
        /\ UNCHANGED <<access, shown, leaked, done>>
    BY <1>2 DEF Arrive
  <2>3. q # NoRequest /\ access \in SUBSET (User \X Repo)
    BY <1>0, MenuAssumption DEF TypeOK
  <2>4. req' \in [Request -> Menu \cup {NoRequest}] /\ seen' \in [Request -> SUBSET (User \X Repo)]
    BY <1>0, <2>2, <2>3 DEF TypeOK
  <2>5. \A s \in Request : at'[s] # "new" => req'[s] # NoRequest
    BY <1>0, <2>1, <2>2, <2>3 DEF TypeOK
  <2> QED
    BY <1>0, <2>1, <2>2, <2>4, <2>5 DEF TypeOK
<1>3. ASSUME NEW r \in Request, Acts(r)
      PROVE  TypeOK'
  <2>0. Good(r) /\ Moves(r)
    BY <1>0, <1>3, ServeMoves DEF Inv
  <2>1. /\ at' \in [Request -> Ats] /\ answer' \in [Request -> Answers]
        /\ \A s \in Request : at'[s] # "new" => at[s] # "new"
    <3>1. Places(Op(r)) \subseteq Ats
      BY DEF Places, Queries, InTx
    <3> QED
      BY <1>0, <2>0, <3>1, GoToType, AnswerType DEF Moves, Active, GoTo, Answer, TypeOK
  <2>2. req' = req /\ leaked' \subseteq Request
    BY <1>0, <2>0 DEF Moves, TypeOK
  <2>3. shown' \in [Request -> SUBSET Repo]
    <3>1. CASE ReposOfOwner(r)
      BY <1>0, <3>1 DEF ReposOfOwner, Scan, Owned, TypeOK
    <3>2. CASE ReposOfContributor(r)
      <4>1. shown[r] \subseteq Repo /\ SharedWith(req[r].of) \subseteq Repo
        BY <1>0 DEF TypeOK, SharedWith
      <4> QED
        BY <1>0, <3>2, <4>1 DEF ReposOfContributor, Scan, TypeOK
    <3>3. CASE ReposForVisitor(r)
      <4>1. shown[r] \subseteq Repo /\ Owned(req[r].of) \cap SharedWith(By(r)) \subseteq Repo
        BY <1>0 DEF TypeOK, SharedWith
      <4> QED
        BY <1>0, <3>3, <4>1 DEF ReposForVisitor, Scan, TypeOK
    <3> QED
      BY <1>0, <1>3, <3>1, <3>2, <3>3 DEF Acts, Serve, AuthorizePrivacy, AuthorizeEditAccess, GetRepoSecret,
           Begin, InsertAccess, DeleteAccess, FailStatement, CommitGrant, CommitRevoke, Quiet, TypeOK
  <2>4. access' \subseteq User \X Repo /\ seen' \in [Request -> SUBSET (User \X Repo)]
        /\ done' \subseteq Request
    <3>1. CASE CommitGrant(r)
      <4>1. Row(r) \in User \X Repo
        <5>1. at[r] = "COMMIT grant"
          BY <3>1 DEF CommitGrant
        <5>2. For(r) \in Repo
          BY <2>0, <5>1 DEF Good, Placed, Checked, InTx
        <5> QED
          BY <5>1, <5>2 DEF Inv, Alone, Row, For
      <4>2. /\ access' \in {access, access \cup {Row(r)}} /\ done' \in {done, done \cup {r}}
            /\ \/ seen' = seen
               \/ seen' = [s \in Request |-> IF at[s] \in {"new", "done"} THEN seen[s]
                                           ELSE seen[s] \cup {Row(r)}]
        BY <3>1 DEF CommitGrant
      <4>3. access \subseteq User \X Repo /\ seen \in [Request -> SUBSET (User \X Repo)]
            /\ done \subseteq Request
        BY <1>0 DEF TypeOK
      <4>4. \A s \in Request : seen[s] \cup {Row(r)} \subseteq User \X Repo
        BY <4>1, <4>3
      <4> QED
        BY <4>1, <4>2, <4>3, <4>4
    <3> QED
      BY <1>0, <1>3, <3>1 DEF Acts, Serve, AuthorizePrivacy, AuthorizeEditAccess, GetRepoSecret,
           ReposOfOwner, ReposOfContributor, ReposForVisitor, Begin, InsertAccess, DeleteAccess,
           FailStatement, CommitRevoke,
           Quiet, Reads, TypeOK
  <2> QED
    BY <1>0, <2>1, <2>2, <2>3, <2>4 DEF TypeOK
<1> QED
  BY <1>1, <1>2, <1>3 DEF Next, Acts

-----------------------------------------------------------------------------
(***************************************************************************)
(* What changes of the table.                                              *)
(***************************************************************************)

\* Only commits change it; they tell the requests that are under way, and
\* none that are done.
LEMMA Tables ==
  ASSUME Inv, NEW r \in Request, Acts(r)
  PROVE  /\ \A s \in Request : seen[s] \subseteq seen'[s]
         /\ \A s \in Request : at[s] \notin {"new", "done"} /\ access \subseteq seen[s]
              => access' \subseteq seen'[s]
         /\ StaysPut(r) \/ CommitGrant(r) \/ CommitRevoke(r)
         /\ done' \subseteq done \cup {r}
<1>1. CASE CommitGrant(r)
  BY <1>1 DEF CommitGrant, Inv, TypeOK
<1>2. CASE CommitRevoke(r)
  BY <1>2 DEF CommitRevoke
<1>3. CASE ~CommitGrant(r) /\ ~CommitRevoke(r)
  <2>1. StaysPut(r)
    BY <1>3 DEF Acts, Serve, AuthorizePrivacy, AuthorizeEditAccess, GetRepoSecret, ReposOfOwner,
         ReposOfContributor, ReposForVisitor, Begin, InsertAccess, DeleteAccess, FailStatement,
         Quiet, Reads, StaysPut
  <2> QED
    BY <2>1 DEF StaysPut
<1> QED
  BY <1>1, <1>2, <1>3

\* The other requests stay good.
LEMMA OthersGood ==
  ASSUME Inv, NEW r \in Request, Acts(r), NEW s \in Request, s # r
  PROVE  Good(s)'
<1>1. /\ req' = req /\ at'[s] = at[s] /\ answer'[s] = answer[s] /\ shown'[s] = shown[s]
      /\ (s \in leaked' <=> s \in leaked) /\ (s \in done' <=> s \in done)
  <2>1. Moves(r) /\ TypeOK
    BY ServeMoves DEF Inv
  <2>2. s \in done' <=> s \in done
    BY Tables DEF StaysPut, CommitGrant, CommitRevoke
  <2> QED
    BY <2>1, <2>2 DEF Moves, GoTo, Answer, TypeOK
<1>2. Good(s)
  BY DEF Inv
<1>3. seen[s] \subseteq seen'[s] /\ (Active(s) /\ access \subseteq seen[s] => access' \subseteq seen'[s])
  BY Tables DEF Active
<1>4. Op(s)' = Op(s) /\ By(s)' = By(s) /\ For(s)' = For(s)
  BY <1>1 DEF Op, By, For
<1>5. \A p : HadAccess(s, p) => HadAccess(s, p)'
  BY <1>3, <1>4 DEF HadAccess
<1>6. Placed(s)'
  BY <1>1, <1>2, <1>3, <1>4 DEF Good, Placed, Active
<1>7. Listing(s)'
  BY <1>1, <1>2 DEF Good, Listing, Owned
<1>8. Served(s)' /\ Listed(s)'
  BY <1>1, <1>2, <1>4, <1>5 DEF Good, Served, Listed
<1>9. Leaked(s)'
  BY <1>1, <1>2, <1>3, <1>4 DEF Good, Leaked
<1> QED
  BY <1>6, <1>7, <1>8, <1>9 DEF Good

\* The request itself stays good: by kind of step.
LEMMA ServedGood ==
  ASSUME Inv, NEW r \in Request, Acts(r)
  PROVE  Good(r)'
<1>0. /\ TypeOK /\ Good(r) /\ Moves(r) /\ Op(r) \in Ops /\ at[r] \in Places(Op(r))
      /\ access \subseteq seen[r]
  <2>1. TypeOK /\ Good(r) /\ Moves(r)
    BY ServeMoves DEF Inv
  <2>2. Active(r)
    BY <2>1 DEF Moves
  <2>3. at[r] \in Places(Op(r)) /\ access \subseteq seen[r]
    BY <2>1, <2>2 DEF Good, Placed
  <2>4. req[r] \in Menu
    BY <2>1, <2>2 DEF TypeOK, Active
  <2>5. Op(r) \in Ops
    BY <2>4, MenuAssumption DEF Op
  <2> QED
    BY <2>1, <2>3, <2>5
<1>1. /\ Op(r)' = Op(r) /\ By(r)' = By(r) /\ For(r)' = For(r) /\ req' = req
      /\ r \notin leaked /\ r \notin done
  BY <1>0 DEF Moves, Op, By, For, Good, Placed, Active
<1>2. /\ seen[r] \subseteq seen'[r] /\ access' \subseteq seen'[r]
      /\ \A p : HadAccess(r, p) => HadAccess(r, p)'
  <2>1. seen[r] \subseteq seen'[r] /\ access' \subseteq seen'[r]
    BY <1>0, Tables DEF Moves, Active
  <2> QED
    BY <1>1, <2>1 DEF HadAccess
\* A step that is not about a listing, and goes on.
<1>3. ASSUME NEW place \in Places(Op(r)), GoTo(r, place), Op(r) # "list",
             leaked' = leaked, done' = done,
             place \in Checked => For(r) \in Repo, place \in Owners => By(r) = For(r).owner
      PROVE  Good(r)'
  <2>1. at'[r] = place /\ place \notin {"new", "done", "repos of contributor", "repos for visitor"}
    BY <1>0, <1>3 DEF GoTo, TypeOK, Places, Ops
  <2>2. Placed(r)'
    BY <1>1, <1>2, <1>3, <2>1 DEF Placed, Active
  <2>3. Listing(r)' /\ Served(r)' /\ Listed(r)' /\ Leaked(r)'
    BY <1>1, <1>3, <2>1 DEF Listing, Served, Listed, Leaked
  <2> QED
    BY <2>2, <2>3 DEF Good
\* A step that ends the request.
<1>4. ASSUME NEW what \in Answers \ {"none"}, Answer(r, what), Served(r)', Listed(r)', Leaked(r)'
      PROVE  Good(r)'
  <2>1. at'[r] = "done"
    BY <1>0, <1>4 DEF Answer, TypeOK
  <2>2. Placed(r)' /\ Listing(r)'
    BY <2>1 DEF Placed, Listing, Active, Checked, Owners, InTx
  <2> QED
    BY <1>4, <2>2 DEF Good
\* A step that ends it without success and without keeping its connection.
<1>5. ASSUME NEW what \in Answers \ {"none", "ok"}, Answer(r, what), leaked' = leaked
      PROVE  Good(r)'
  <2>1. at'[r] = "done" /\ answer'[r] = what
    BY <1>0, <1>5 DEF Answer, TypeOK
  <2>2. Served(r)' /\ Listed(r)' /\ Leaked(r)'
    BY <1>1, <1>5, <2>1 DEF Served, Listed, Leaked
  <2> QED
    BY <1>4, <1>5, <2>2
<1> USE DEF Answers
<1>6. CASE AuthorizePrivacy(r)
  <2>1. leaked' = leaked /\ done' = done /\ Op(r) # "list"
    BY <1>0, <1>6 DEF AuthorizePrivacy, Reads, Places, Ops
  <2>2. CASE GetRepoPrivacy(r) /\ Op(r) \notin {"grant", "revoke"} /\ GoTo(r, "GetAccessStatusOnRepo")
    <3>1. "GetAccessStatusOnRepo" \in Places(Op(r)) /\ For(r) \in Repo
      BY <1>0, <2>1, <2>2, <1>6 DEF Places, Ops, GetRepoPrivacy, AuthorizePrivacy
    <3>2. "GetAccessStatusOnRepo" \notin Owners
      BY DEF Owners
    <3> QED
      BY <1>3, <2>1, <2>2, <3>1, <3>2
  <2>3. CASE GetRepoPrivacy(r) /\ Op(r) \in {"grant", "revoke"} /\ AuthorizeOwnership(r)
    BY <1>3, <1>5, <2>1, <2>3 DEF AuthorizeOwnership, Proceed, GetRepoPrivacy, Places
  <2>4. CASE Answer(r, "error")
    BY <1>5, <2>1, <2>4
  <2> QED
    BY <1>6, <2>2, <2>3, <2>4 DEF AuthorizePrivacy
<1>7. CASE AuthorizeEditAccess(r)
  <2>1. leaked' = leaked /\ done' = done /\ Op(r) \in {"details", "remote", "push", "pull"}
        /\ For(r) \in Repo
    BY <1>0, <1>7 DEF AuthorizeEditAccess, Reads, Places, Ops, Good, Placed, Checked
  <2>2. CASE Answer(r, "error") \/ Answer(r, "refused")
    BY <1>5, <2>1, <2>2
  <2>3. ASSUME NEW contributor \in AccessStatus(r), Handle(r, contributor)
        PROVE  Good(r)'
    <3>1. contributor \in BOOLEAN /\ (contributor => By(r) = For(r).owner)
      BY DEF AccessStatus
    <3>2. CASE Op(r) = "remote" /\ contributor
      BY <1>3, <2>1, <2>3, <3>1, <3>2 DEF Handle, AddRemoteRepo, Places
    <3>3. CASE Answer(r, "ok") /\ (By(r) = For(r).owner \/ (Op(r) = "details" /\ For(r).public))
      <4>1. Served(r)' /\ Listed(r)' /\ Leaked(r)'
        BY <1>1, <2>1, <3>3 DEF Served, Listed, Leaked, HadAccess
      <4> QED
        BY <1>4, <3>3, <4>1
    <3>4. \/ Op(r) = "remote" /\ contributor
          \/ Answer(r, "refused")
          \/ Answer(r, "ok") /\ (By(r) = For(r).owner \/ (Op(r) = "details" /\ For(r).public))
      BY <2>1, <2>3, <3>1 DEF Handle, AddRemoteRepo, GetRepo, PushOrPull
    <3> QED
      BY <2>2, <3>2, <3>3, <3>4
  <2> QED
    BY <1>7, <2>2, <2>3 DEF AuthorizeEditAccess
<1>8. CASE GetRepoSecret(r)
  <2>1. leaked' = leaked /\ Op(r) = "remote" /\ By(r) = For(r).owner
    BY <1>0, <1>8 DEF GetRepoSecret, Places, Ops, Good, Placed, Owners, Checked
  <2>2. CASE Answer(r, "error")
    BY <1>5, <2>1, <2>2
  <2>3. CASE Answer(r, "ok")
    <3>1. Served(r)' /\ Listed(r)' /\ Leaked(r)'
      BY <1>1, <2>1 DEF Served, Listed, Leaked, HadAccess
    <3> QED
      BY <1>4, <2>3, <3>1
  <2> QED
    BY <1>8, <2>2, <2>3 DEF GetRepoSecret
\* A listing that ends in an error, with its rows left open only if one of them
\* has no description.
<1>9. ASSUME NEW rows, rows \subseteq Repo, Op(r) = "list", Answer(r, "error"),
             \A p \in rows : p.owner = req[r].of \/ <<req[r].of, p>> \in seen[r],
             leaked' = leaked \/ \E p \in rows : ~p.described
      PROVE  Good(r)'
  <2>1. CASE UNCHANGED leaked
    BY <1>5, <1>9, <2>1
  <2>2. CASE \E p \in rows : ~p.described
    <3>1. at'[r] = "done" /\ answer'[r] = "error"
      BY <1>0, <1>9 DEF Answer, TypeOK
    <3>2. \E p \in Repo : ~p.described /\ (p.owner = req[r].of \/ <<req[r].of, p>> \in seen'[r])
      BY <1>2, <1>9, <2>2
    <3>3. Served(r)' /\ Listed(r)' /\ Leaked(r)'
      BY <1>1, <1>9, <3>1, <3>2 DEF Served, Listed, Leaked
    <3> QED
      BY <1>4, <1>9, <3>3
  <2> QED
    BY <1>9, <2>1, <2>2
<1>10. CASE ReposOfOwner(r)
  <2>1. Op(r) = "list" /\ Owned(req[r].of) \subseteq Repo /\ done' = done
        /\ \A p \in Owned(req[r].of) : p.owner = req[r].of
    BY <1>0, <1>10 DEF ReposOfOwner, Places, Ops, Owned, Reads
  <2>2. CASE shown' = [shown EXCEPT ![r] = Owned(req[r].of)] /\ GoTo(r, "repos of contributor")
             /\ leaked' = leaked
    <3>1. at'[r] = "repos of contributor" /\ shown'[r] = Owned(req[r].of)
      BY <1>0, <2>2 DEF GoTo, TypeOK
    <3>2. Placed(r)'
      BY <1>1, <1>2, <2>1, <2>2, <3>1 DEF Placed, Active, Places, Checked, Owners, InTx
    <3>3. Listing(r)' /\ Served(r)' /\ Listed(r)' /\ Leaked(r)'
      BY <1>1, <2>2, <3>1 DEF Listing, Served, Listed, Leaked, Owned
    <3> QED
      BY <3>2, <3>3 DEF Good
  <2> QED
    BY <1>9, <1>10, <2>1, <2>2 DEF ReposOfOwner, Scan
<1>11. CASE ReposOfContributor(r)
  <2> DEFINE of  == req[r].of
             all == shown[r] \cup SharedWith(of)
  <2>1. /\ Op(r) = "list" /\ SharedWith(of) \subseteq Repo /\ done' = done
        /\ \A p \in SharedWith(of) : <<of, p>> \in seen[r]
        /\ \A p \in shown[r] : p.owner = of
    BY <1>0, <1>11 DEF ReposOfContributor, Places, Ops, SharedWith, Reads, Good, Listing, Owned
  <2>2. CASE By(r) = of /\ shown' = [shown EXCEPT ![r] = all] /\ Answer(r, "ok") /\ leaked' = leaked
    <3>1. shown'[r] = all
      BY <1>0, <2>2 DEF TypeOK
    <3>2. \A p \in all : HadAccess(r, p)
      BY <2>1, <2>2 DEF HadAccess
    <3>3. Listed(r)'
      BY <1>2, <3>1, <3>2 DEF Listed
    <3>4. Served(r)' /\ Leaked(r)'
      BY <1>1, <2>1, <2>2 DEF Served, Leaked
    <3> QED
      BY <1>4, <2>2, <3>3, <3>4
  <2>3. CASE shown' = [shown EXCEPT ![r] = {p \in all : p.public}] /\ GoTo(r, "repos for visitor")
             /\ leaked' = leaked
    <3>1. at'[r] = "repos for visitor" /\ \A p \in shown'[r] : p.public
      BY <1>0, <2>3 DEF GoTo, TypeOK
    <3>2. Placed(r)'
      BY <1>1, <1>2, <2>1, <2>3, <3>1 DEF Placed, Active, Places, Checked, Owners, InTx
    <3>3. Listing(r)' /\ Served(r)' /\ Listed(r)' /\ Leaked(r)'
      BY <1>1, <2>3, <3>1 DEF Listing, Served, Listed, Leaked
    <3> QED
      BY <3>2, <3>3 DEF Good
  <2> QED
    BY <1>9, <1>11, <2>1, <2>2, <2>3 DEF ReposOfContributor, Scan
<1>12. CASE ReposForVisitor(r)
  <2> DEFINE rows == Owned(req[r].of) \cap SharedWith(By(r))
  <2>1. /\ Op(r) = "list" /\ rows \subseteq Repo /\ done' = done
        /\ \A p \in rows : p.owner = req[r].of /\ <<By(r), p>> \in seen[r]
        /\ \A p \in shown[r] : p.public
    BY <1>0, <1>12 DEF ReposForVisitor, Places, Ops, Owned, SharedWith, Reads, Good, Listing
  <2>2. ASSUME NEW read \in SUBSET rows, shown' = [shown EXCEPT ![r] = @ \cup read],
               Answer(r, "ok"), leaked' = leaked
        PROVE  Good(r)'
    <3>1. shown'[r] = shown[r] \cup read
      BY <1>0, <2>2 DEF TypeOK
    <3>2. \A p \in shown'[r] : p.public \/ HadAccess(r, p)
      BY <2>1, <3>1 DEF HadAccess
    <3>3. Listed(r)'
      BY <1>2, <3>2 DEF Listed
    <3>4. Served(r)' /\ Leaked(r)'
      BY <1>1, <2>1, <2>2 DEF Served, Leaked
    <3> QED
      BY <1>4, <2>2, <3>3, <3>4
  <2> QED
    BY <1>9, <1>12, <2>1, <2>2 DEF ReposForVisitor, Scan
<1>13. CASE Begin(r)
  <2>1. /\ Op(r) \in {"grant", "revoke"} /\ For(r) \in Repo /\ By(r) = For(r).owner
        /\ leaked' = leaked /\ done' = done
        /\ at[r] = (IF Op(r) = "grant" THEN "Begin grant" ELSE "Begin revoke")
    BY <1>0, <1>13 DEF Begin, Quiet, Places, Ops, Good, Placed, Owners, Checked
  <2> QED
    BY <1>3, <1>5, <1>13, <2>1 DEF Begin, Places
<1>14. CASE InsertAccess(r)
  <2>1. Op(r) = "grant" /\ For(r) \in Repo /\ By(r) = For(r).owner /\ done' = done
    BY <1>0, <1>14 DEF InsertAccess, Quiet, Places, Ops, Good, Placed, Owners, Checked, InTx
  <2>2. CASE Answer(r, "error")
    <3>1. at'[r] = "done" /\ answer'[r] = "error"
      BY <1>0, <2>2 DEF Answer, TypeOK
    <3>2. Served(r)' /\ Listed(r)' /\ Leaked(r)'
      BY <1>1, <2>1, <3>1 DEF Served, Listed, Leaked
    <3> QED
      BY <1>4, <2>2, <3>2
  <2> QED
    BY <1>3, <1>14, <2>1, <2>2 DEF InsertAccess, Places
<1>15. CASE DeleteAccess(r)
  <2>1. Op(r) = "revoke" /\ For(r) \in Repo /\ By(r) = For(r).owner /\ done' = done
    BY <1>0, <1>15 DEF DeleteAccess, Quiet, Places, Ops, Good, Placed, Owners, Checked, InTx
  <2>2. CASE Answer(r, "not found")
    <3>1. at'[r] = "done" /\ answer'[r] = "not found"
      BY <1>0, <2>2 DEF Answer, TypeOK
    <3>2. Served(r)' /\ Listed(r)' /\ Leaked(r)'
      BY <1>1, <2>1, <3>1 DEF Served, Listed, Leaked
    <3> QED
      BY <1>4, <2>2, <3>2
  <2> QED
    BY <1>3, <1>15, <2>1, <2>2 DEF DeleteAccess, Places
<1>16. CASE CommitGrant(r) \/ CommitRevoke(r)
  <2>1. Op(r) \in {"grant", "revoke"} /\ leaked' = leaked
    BY <1>0, <1>16 DEF CommitGrant, CommitRevoke, Places, Ops
  <2>2. \E what \in {"ok", "error"} : Answer(r, what)
    BY <1>16 DEF CommitGrant, CommitRevoke
  <2>3. Served(r)' /\ Listed(r)' /\ Leaked(r)'
    BY <1>1, <2>1 DEF Served, Listed, Leaked
  <2> QED
    BY <1>4, <2>2, <2>3
<1>17. CASE FailStatement(r)
  <2>1. Op(r) \in {"grant", "revoke"} /\ For(r) \in Repo /\ By(r) = For(r).owner /\ done' = done
    BY <1>0, <1>17 DEF FailStatement, Quiet, Places, Ops, Good, Placed, Owners, Checked, InTx
  <2>2. Answer(r, "error")
    BY <1>17 DEF FailStatement
  <2>3. at'[r] = "done" /\ answer'[r] = "error"
    BY <1>0, <2>2 DEF Answer, TypeOK
  <2>4. Served(r)' /\ Listed(r)' /\ Leaked(r)'
    BY <1>1, <2>1, <2>3 DEF Served, Listed, Leaked
  <2> QED
    BY <1>4, <2>2, <2>4
<1> QED
  BY <1>6, <1>7, <1>8, <1>10, <1>11, <1>12, <1>13, <1>14, <1>15, <1>16, <1>17 DEF Acts, Serve

\* Good is kept by every step.
LEMMA GoodStep ==
  ASSUME Inv, [Next]_vars, NEW s \in Request
  PROVE  Good(s)'
<1>0. TypeOK /\ Good(s)
  BY DEF Inv
<1>1. CASE UNCHANGED vars
  BY <1>0, <1>1 DEF vars, Good, Placed, Active, Listing, Served, Listed, Leaked, HadAccess, Op, By,
       For, Owned
<1>2. ASSUME NEW r \in Request, NEW q \in Menu, Arrive(r, q)
      PROVE  Good(s)'
  <2>1. /\ req' = [req EXCEPT ![r] = q] /\ seen' = [seen EXCEPT ![r] = access]
        /\ UNCHANGED <<access, shown, leaked, done>> /\ at[r] = "new"
    BY <1>2 DEF Arrive
  <2>2. CASE s # r
    <3>1. /\ req'[s] = req[s] /\ at'[s] = at[s] /\ answer'[s] = answer[s] /\ seen'[s] = seen[s]
      BY <1>0, <1>2, <2>1, <2>2 DEF Arrive, GetProfile, GetAllRepos, GoTo, Answer, TypeOK
    <3> QED
      BY <1>0, <2>1, <3>1 DEF Good, Placed, Active, Listing, Served, Listed, Leaked, HadAccess,
           Op, By, For, Owned
  <2>3. CASE s = r
    <3>1. Op(r)' = q.op /\ access' \subseteq seen'[r] /\ r \notin leaked /\ r \notin done
      BY <1>0, <2>1, <2>3 DEF TypeOK, Op, Good, Placed
    <3>2. q.op \in Ops
      BY MenuAssumption
    <3>3. \/ at'[r] = "done" /\ answer'[r] = "error"
          \/ q.op = "list" /\ at'[r] = "repos of owner"
          \/ q.op \notin {"profile", "list"} /\ at'[r] = "GetRepoPrivacy"
      BY <1>0, <1>2 DEF Arrive, GetProfile, GetAllRepos, GoTo, Answer, TypeOK
    <3>4. Placed(r)'
      BY <2>1, <3>1, <3>2, <3>3 DEF Placed, Active, Places, Ops, Checked, Owners, InTx
    <3>5. Listing(r)' /\ Served(r)' /\ Listed(r)' /\ Leaked(r)'
      BY <2>1, <3>1, <3>3 DEF Listing, Served, Listed, Leaked
    <3> QED
      BY <2>3, <3>4, <3>5 DEF Good
  <2> QED
    BY <2>2, <2>3
<1>3. ASSUME NEW r \in Request, Acts(r)
      PROVE  Good(s)'
  BY <1>3, OthersGood, ServedGood
<1> QED
  BY <1>1, <1>2, <1>3 DEF Next, Acts

-----------------------------------------------------------------------------
\* Transactions that are about to commit stay alone with their rows: their
\* statements waited for each other.
LEMMA AloneStep ==
  ASSUME Inv, [Next]_vars
  PROVE  Alone'
<1>0. TypeOK /\ Alone
  BY DEF Inv
<1>1. CASE UNCHANGED vars
  BY <1>0, <1>1 DEF vars, Alone, Row
<1> DEFINE Commits == {"COMMIT grant", "COMMIT revoke"}
\* A request moves that is not about to commit then, and the table stays.
<1>2. ASSUME NEW r \in Request, at'[r] \notin Commits, UNCHANGED access,
             \A s \in Request : s # r => at'[s] = at[s] /\ req'[s] = req[s]
      PROVE  Alone'
  <2>1. \A s \in Request : at'[s] \in Commits =>
          s # r /\ at[s] = at'[s] /\ req'[s] = req[s] /\ Row(s)' = Row(s)
    BY <1>2 DEF Row
  <2>2. \A s \in Request : at'[s] = "COMMIT grant" => req'[s].target \in User /\ Row(s)' \notin access'
    BY <1>0, <1>2, <2>1 DEF Alone
  <2>3. \A s \in Request : at'[s] = "COMMIT revoke" => Row(s)' \in access'
    BY <1>0, <1>2, <2>1 DEF Alone
  <2>4. \A s, t \in Request :
          at'[s] \in Commits /\ at'[t] = at'[s] /\ Row(t)' = Row(s)' => t = s
    BY <1>0, <2>1 DEF Alone
  <2> QED
    BY <2>2, <2>3, <2>4 DEF Alone
<1>3. ASSUME NEW r \in Request, NEW q \in Menu, Arrive(r, q)
      PROVE  Alone'
  <2>1. /\ at'[r] \notin Commits /\ UNCHANGED access
        /\ \A s \in Request : s # r => at'[s] = at[s] /\ req'[s] = req[s]
    BY <1>0, <1>3 DEF Arrive, GetProfile, GetAllRepos, GoTo, Answer, TypeOK
  <2> QED
    BY <1>2, <2>1
<1>4. ASSUME NEW r \in Request, Acts(r)
      PROVE  Alone'
  <2>0. /\ req' = req
        /\ \A s \in Request : s # r => at'[s] = at[s]
    <3>1. Moves(r)
      BY <1>4, ServeMoves DEF Inv
    <3> QED
      BY <1>0, <3>1 DEF Moves, GoTo, Answer, TypeOK
  <2>1. CASE at'[r] \notin Commits /\ UNCHANGED access
    BY <1>2, <2>0, <2>1
  <2>7. \A s : Row(s)' = Row(s)
    BY <2>0 DEF Row
  <2>2. CASE InsertAccess(r) /\ at'[r] \in Commits
    <3>1. /\ at'[r] = "COMMIT grant" /\ UNCHANGED access /\ ~Inserting(Row(r))
          /\ req[r].target \in User /\ Row(r) \notin access
      BY <1>0, <2>2 DEF InsertAccess, GoTo, Answer, Quiet, TypeOK
    <3>2. \A s \in Request : s # r /\ at'[s] = "COMMIT grant" => Row(s) # Row(r)
      BY <2>0, <3>1 DEF Inserting
    <3>3. \A s, t \in Request : at'[s] \in Commits /\ at'[t] = at'[s] /\ Row(t) = Row(s) => t = s
      BY <1>0, <2>0, <3>1, <3>2 DEF Alone
    <3>4. \A s \in Request :
            /\ at'[s] = "COMMIT grant" => req[s].target \in User /\ Row(s) \notin access'
            /\ at'[s] = "COMMIT revoke" => Row(s) \in access'
      BY <1>0, <2>0, <3>1, <3>2 DEF Alone
    <3> QED
      BY <2>0, <2>7, <3>3, <3>4 DEF Alone
  <2>3. CASE DeleteAccess(r) /\ at'[r] \in Commits
    <3>1. /\ at'[r] = "COMMIT revoke" /\ UNCHANGED access /\ ~Deleting(Row(r))
          /\ Row(r) \in access
      BY <1>0, <2>3 DEF DeleteAccess, GoTo, Answer, Quiet, TypeOK
    <3>2. \A s \in Request : s # r /\ at'[s] = "COMMIT revoke" => Row(s) # Row(r)
      BY <2>0, <3>1 DEF Deleting
    <3>3. \A s, t \in Request : at'[s] \in Commits /\ at'[t] = at'[s] /\ Row(t) = Row(s) => t = s
      BY <1>0, <2>0, <3>1, <3>2 DEF Alone
    <3>4. \A s \in Request :
            /\ at'[s] = "COMMIT grant" => req[s].target \in User /\ Row(s) \notin access'
            /\ at'[s] = "COMMIT revoke" => Row(s) \in access'
      BY <1>0, <2>0, <3>1, <3>2 DEF Alone
    <3> QED
      BY <2>0, <2>7, <3>3, <3>4 DEF Alone
  <2>4. CASE CommitGrant(r)
    <3>1. at'[r] = "done" /\ at[r] = "COMMIT grant" /\ access' \in {access, access \cup {Row(r)}}
      BY <1>0, <2>4 DEF CommitGrant, Answer, TypeOK
    <3>2. \A s \in Request : s # r /\ at[s] = "COMMIT grant" => Row(s) # Row(r)
      BY <1>0, <3>1 DEF Alone
    <3>3. \A s, t \in Request : at'[s] \in Commits /\ at'[t] = at'[s] /\ Row(t) = Row(s) => t = s
      BY <1>0, <2>0, <3>1, <3>2 DEF Alone
    <3>4. \A s \in Request :
            /\ at'[s] = "COMMIT grant" => req[s].target \in User /\ Row(s) \notin access'
            /\ at'[s] = "COMMIT revoke" => Row(s) \in access'
      BY <1>0, <2>0, <3>1, <3>2 DEF Alone
    <3> QED
      BY <2>0, <2>7, <3>3, <3>4 DEF Alone
  <2>5. CASE CommitRevoke(r)
    <3>1. at'[r] = "done" /\ at[r] = "COMMIT revoke" /\ access' \in {access, access \ {Row(r)}}
      BY <1>0, <2>5 DEF CommitRevoke, Answer, TypeOK
    <3>2. \A s \in Request : s # r /\ at[s] = "COMMIT revoke" => Row(s) # Row(r)
      BY <1>0, <3>1 DEF Alone
    <3>3. \A s, t \in Request : at'[s] \in Commits /\ at'[t] = at'[s] /\ Row(t) = Row(s) => t = s
      BY <1>0, <2>0, <3>1, <3>2 DEF Alone
    <3>4. \A s \in Request :
            /\ at'[s] = "COMMIT grant" => req[s].target \in User /\ Row(s) \notin access'
            /\ at'[s] = "COMMIT revoke" => Row(s) \in access'
      BY <1>0, <2>0, <3>1, <3>2 DEF Alone
    <3> QED
      BY <2>0, <2>7, <3>3, <3>4 DEF Alone
  <2>6. \/ at'[r] \notin Commits /\ UNCHANGED access
        \/ InsertAccess(r) /\ at'[r] \in Commits
        \/ DeleteAccess(r) /\ at'[r] \in Commits
        \/ CommitGrant(r) \/ CommitRevoke(r)
    <3>1. CASE AuthorizePrivacy(r) \/ AuthorizeEditAccess(r) \/ GetRepoSecret(r)
      BY <1>0, <3>1 DEF AuthorizePrivacy, AuthorizeOwnership, Proceed, AuthorizeEditAccess, Handle,
           GetRepo, AddRemoteRepo, PushOrPull, GetRepoSecret, GoTo, Answer, Reads, TypeOK
    <3>2. CASE ReposOfOwner(r) \/ ReposOfContributor(r) \/ ReposForVisitor(r)
      BY <1>0, <3>2 DEF ReposOfOwner, ReposOfContributor, ReposForVisitor, Scan, GoTo, Answer,
           Reads, TypeOK
    <3>3. CASE Begin(r) \/ InsertAccess(r) \/ DeleteAccess(r) \/ FailStatement(r)
      BY <1>0, <3>3 DEF Begin, InsertAccess, DeleteAccess, FailStatement, GoTo, Answer, Quiet, TypeOK
    <3> QED
      BY <1>4, <3>1, <3>2, <3>3 DEF Acts, Serve
  <2> QED
    BY <2>1, <2>2, <2>3, <2>4, <2>5, <2>6
<1> QED
  BY <1>1, <1>3, <1>4 DEF Next, Acts

-----------------------------------------------------------------------------
\* Inv is inductive, and holds of every behaviour of the server.
LEMMA Invariance == Spec => []Inv
<1>1. Inv /\ [Next]_vars => Inv'
  BY TypeStep, AloneStep, GoodStep DEF Inv
<1> QED
  BY <1>1, InitInv, PTL DEF Spec

\* The table RepositoryUsers holds users and repositories that exist, and
\* requests have their types, whatever is asked for.
THEOREM TypeCorrect == Spec => []TypeOK
<1>1. Inv => TypeOK
  BY DEF Inv
<1> QED
  BY <1>1, Invariance, PTL

\* AuthorizeEditAccess and the handlers behind it: the secret of a repository,
\* its content and the details of a private one are given only to those who
\* had access while they asked.
THEOREM ServedHadAccess == Spec => []ServedHaveAccess
<1>1. Inv => ServedHaveAccess
  BY DEF Inv, Good, Served, ServedHaveAccess
<1> QED
  BY <1>1, Invariance, PTL

\* GetAllReposbyUsername: a listing has no private repository that the one who
\* asked had no access to while its three queries were made.
THEOREM ListedHadAccess == Spec => []ListedHaveAccess
<1>1. Inv => ListedHaveAccess
  BY DEF Inv, Good, Listed, ListedHaveAccess
<1> QED
  BY <1>1, Invariance, PTL

\* GrantAccessOnRepo, RevokeAccessOnRepo and GetAllReposbyUsername are the only
\* calls that keep a connection, whatever their statements meet: grants and
\* revokes of the owner that fail or find nothing, and listings with a
\* repository that has no description.
THEOREM OnlyFailuresLeak == Spec => []WhoLeaks
<1>1. Inv => WhoLeaks
  BY DEF Inv, TypeOK, Good, Placed, Leaked, WhoLeaks
<1> QED
  BY <1>1, Invariance, PTL

-----------------------------------------------------------------------------
(***************************************************************************)
(* The refinement.                                                         *)
(***************************************************************************)

\* What each request has done.
Deeds == [r \in Request |->
            IF r \in done THEN [what |-> Op(r), by |-> By(r), row |-> Row(r)] ELSE NoRequest]

\* A commit that is done is one deed; no other step is one.
LEMMA DeedStep ==
  ASSUME Inv, NEW r \in Request, Acts(r)
  PROVE  \/ UNCHANGED <<access, Deeds>>
         \/ /\ r \notin done /\ For(r) \in Repo /\ By(r) = For(r).owner /\ req[r].target \in User
            /\ Deeds' = [Deeds EXCEPT ![r] = [what |-> Op(r), by |-> By(r), row |-> Row(r)]]
            /\ \/ Op(r) = "grant" /\ Row(r) \notin access /\ access' = access \cup {Row(r)}
               \/ Op(r) = "revoke" /\ Row(r) \in access /\ access' = access \ {Row(r)}
<1>0. TypeOK /\ Alone /\ Good(r) /\ Moves(r) /\ Active(r)
  BY ServeMoves DEF Inv, Moves
<1>1. req' = req /\ r \notin done /\ at[r] \in Places(Op(r))
  BY <1>0 DEF Moves, Good, Placed, Active
<1>2. \A s : Op(s)' = Op(s) /\ By(s)' = By(s) /\ Row(s)' = Row(s)
  BY <1>1 DEF Op, By, Row
<1>3. CASE UNCHANGED <<access, done>>
  BY <1>2, <1>3 DEF Deeds
<1>4. CASE /\ done' = done \cup {r} /\ at[r] \in {"COMMIT grant", "COMMIT revoke"}
           /\ access' = IF at[r] = "COMMIT grant" THEN access \cup {Row(r)} ELSE access \ {Row(r)}
  <2>1. Op(r) = (IF at[r] = "COMMIT grant" THEN "grant" ELSE "revoke")
    <3>1. Op(r) \in Ops
      BY <1>0, MenuAssumption DEF TypeOK, Active, Op
    <3> QED
      BY <1>1, <1>4, <3>1 DEF Places, Ops
  <2>2. For(r) \in Repo /\ By(r) = For(r).owner
    BY <1>0, <1>4 DEF Good, Placed, Owners, Checked, InTx
  <2>3. req[r].target \in User /\ (at[r] = "COMMIT grant" <=> Row(r) \notin access)
    BY <1>0, <1>4 DEF Alone, TypeOK, Row
  <2>4. Deeds' = [Deeds EXCEPT ![r] = [what |-> Op(r), by |-> By(r), row |-> Row(r)]]
    BY <1>2, <1>4 DEF Deeds
  <2> QED
    BY <1>1, <1>4, <2>1, <2>2, <2>3, <2>4
<1>5. \/ UNCHANGED <<access, done>>
      \/ /\ done' = done \cup {r} /\ at[r] \in {"COMMIT grant", "COMMIT revoke"}
         /\ access' = IF at[r] = "COMMIT grant" THEN access \cup {Row(r)} ELSE access \ {Row(r)}
  BY Tables DEF StaysPut, CommitGrant, CommitRevoke
<1> QED
  BY <1>3, <1>4, <1>5

\* GrantAccessOnRepo and RevokeAccessOnRepo implement Access: their committed
\* changes take effect one after the other, by owners alone, two grants of the
\* same access never both happen, nor do two revokes.
THEOREM Implements == Spec => AccessImplemented
<1>1. Init => A!AInit
  BY GrantedAssumption DEF Init, A!AInit
<1>2. Inv /\ [Next]_vars => [A!ANext]_(A!avars)
  <2> SUFFICES ASSUME Inv, [Next]_vars PROVE [A!ANext]_(A!avars)
    OBVIOUS
  <2>1. CASE UNCHANGED <<access, Deeds>>
    BY <2>1 DEF Deeds, A!avars
  <2>2. CASE UNCHANGED vars
    BY <2>1, <2>2 DEF vars, Deeds, Op, By, Row
  <2>3. ASSUME NEW r \in Request, NEW q \in Menu, Arrive(r, q)
        PROVE  [A!ANext]_(A!avars)
    <3>1. r \notin done
      BY <2>3 DEF Inv, Good, Placed, Arrive
    <3>2. \A s \in done : req'[s] = req[s]
      BY <2>3, <3>1 DEF Arrive, Inv, TypeOK
    <3>3. UNCHANGED <<access, done>>
      BY <2>3 DEF Arrive
    <3> QED
      BY <2>1, <3>2, <3>3 DEF Deeds, Op, By, Row
  <2>4. ASSUME NEW r \in Request, Acts(r)
        PROVE  [A!ANext]_(A!avars)
    <3>1. CASE UNCHANGED <<access, Deeds>>
      BY <2>1, <3>1
    <3>2. CASE /\ r \notin done /\ For(r) \in Repo /\ By(r) = For(r).owner /\ req[r].target \in User
               /\ Deeds' = [Deeds EXCEPT ![r] = [what |-> Op(r), by |-> By(r), row |-> Row(r)]]
               /\ \/ Op(r) = "grant" /\ Row(r) \notin access /\ access' = access \cup {Row(r)}
                  \/ Op(r) = "revoke" /\ Row(r) \in access /\ access' = access \ {Row(r)}
      <4>1. PICK u \in User, p \in Repo : u = req[r].target /\ p = For(r)
        BY <3>2
      <4>2. Deeds[r] = NoRequest /\ Row(r) = <<u, p>> /\ By(r) = p.owner
        BY <3>2, <4>1 DEF Deeds, Row, For
      <4>3. A!Give(r, u, p) \/ A!Take(r, u, p)
        BY <3>2, <4>2 DEF Deeds, A!Give, A!Take, A!Deed
      <4> QED
        BY <4>1, <4>3 DEF A!ANext
    <3> QED
      BY <2>4, <3>1, <3>2, DeedStep
  <2> QED
    BY <2>2, <2>3, <2>4 DEF Next, Acts
<1> QED
  BY <1>1, <1>2, Invariance, PTL DEF Spec, AccessImplemented, A!ASpec
=============================================================================
