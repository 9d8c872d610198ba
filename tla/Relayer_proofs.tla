---------------------------- MODULE Relayer_proofs ----------------------------
(***************************************************************************)
(* Proofs about Relayer: the map of pending authorizes and the requests at *)
(* work determine each other, the state keeps its shape, and a payment     *)
(* that is reported was made exactly once, for any number of requests and  *)
(* holders and whatever the ledger and the network do.                     *)
(***************************************************************************)
EXTENDS Relayer, FiniteSetTheorems, TLAPS

\* What makes OneAuthorizeAtWork inductive: a started request has a route, and
\* one that views the ledger has a route that does.
RequestsOK ==
  /\ req = [r \in Requests |-> req[r]]
  /\ \A r \in Requests : req[r].pc # "idle" => req[r].route \in Routes
  /\ \A r \in Requests : req[r].pc = "view" => req[r].route # "claimable"

MapOK == inflight \in [Holders -> Requests \cup {NoRequest}]

WorkInv == RequestsOK /\ MapOK /\ OneAuthorizeAtWork

\* Working: active, and not on another request's promise.
Working(r) == Active(r) /\ req[r].pc # "joined"

\* A request that waits does so on one at work.
Follows(q) == req[q].pc = "joined" => req[q].leader \in AtWork(req[q].holder)

\* A step that changes request r and no other.
Only(r) == req' = [p \in Requests |-> IF p = r THEN req'[r] ELSE req[p]]

\* The invariant, part by part.
LEMMA WorkIsShared ==
  WorkInv <=> /\ RequestsOK /\ MapOK
              /\ \A h \in Holders : AtWork(h) = {inflight[h]} \ {NoRequest}
              /\ \A q \in Requests : Follows(q)
BY DEF WorkInv, OneAuthorizeAtWork, Follows

LEMMA WorkIsSharedNext ==
  WorkInv' <=> /\ RequestsOK' /\ MapOK'
               /\ \A h \in Holders : AtWork(h)' = {inflight'[h]} \ {NoRequest}
               /\ \A q \in Requests : Follows(q)'
BY DEF WorkInv, OneAuthorizeAtWork, Follows, AtWork, Active

-------------------------------------------------------------------------------
(***************************************************************************)
(* The ways a step changes requests and map.                               *)
(***************************************************************************)

\* A request ends, and with it the ones that share its promise.
LEMMA FinishKeeps ==
  ASSUME WorkInv, NEW r \in Requests, Working(r), NEW a, Finish(r, a)
  PROVE  WorkInv'
<1> USE NoRequestApart
<1>1. /\ req' = [q \in Requests |->
                   IF q = r \/ (req[q].pc = "joined" /\ req[q].leader = r)
                   THEN Done(req[q].route, req[q].holder, a) ELSE req[q]]
      /\ inflight' = [h \in Holders |-> IF inflight[h] = r THEN NoRequest ELSE inflight[h]]
  BY DEF Finish, Answered, Released
<1>2. \A q \in Requests : /\ req'[q] = req[q] \/ req'[q].pc = "done"
                          /\ req'[q].pc = "done" /\ req'[q] # req[q] => req'[q].route = req[q].route
                          /\ req'[r].pc = "done"
  BY <1>1 DEF Done
<1>3. RequestsOK'
  <2>1. \A q \in Requests : req[q].pc # "idle" => req'[q].route = req[q].route
    BY <1>1 DEF Done
  <2>2. \A q \in Requests : req[q].pc = "idle" => req'[q] = req[q]
    BY <1>1 DEF Working, Active
  <2> QED
    BY <1>1, <1>2, <2>1, <2>2 DEF RequestsOK, WorkInv
<1>4. MapOK'
  BY <1>1 DEF MapOK, WorkInv
<1>5. ASSUME NEW h \in Holders PROVE AtWork(h)' = AtWork(h) \ {r}
  BY <1>1 DEF AtWork, Active, Done
<1>6. ASSUME NEW h \in Holders PROVE AtWork(h)' = {inflight'[h]} \ {NoRequest}
  <2>1. AtWork(h) = {inflight[h]} \ {NoRequest}
    BY DEF WorkInv, OneAuthorizeAtWork
  <2>2. inflight'[h] = IF inflight[h] = r THEN NoRequest ELSE inflight[h]
    BY <1>1
  <2> QED
    BY <1>5, <2>1, <2>2
<1>7. ASSUME NEW q \in Requests PROVE Follows(q)'
  <2> SUFFICES ASSUME req'[q].pc = "joined" PROVE Follows(q)'
    BY DEF Follows
  <2>1. req'[q] = req[q] /\ req[q].leader # r
    BY <1>1 DEF Done
  <2>2. req[q].leader \in AtWork(req[q].holder)
    BY <2>1, WorkIsShared DEF Follows
  <2>3. req[q].leader \in Requests /\ req'[req[q].leader] = req[req[q].leader]
    BY <1>1, <2>1, <2>2 DEF AtWork
  <2> QED
    BY <2>1, <2>2, <2>3 DEF Follows, AtWork, Active
<1> QED
  BY <1>3, <1>4, <1>6, <1>7, WorkIsSharedNext

\* A request goes on, on the same route and for the same holder.
LEMMA MoveKeeps ==
  ASSUME WorkInv, NEW r \in Requests, Working(r), Only(r),
         req'[r].pc \in {"build", "send", "poll"},
         req'[r].route = req[r].route, req'[r].holder = req[r].holder, UNCHANGED inflight
  PROVE  WorkInv'
<1>1. RequestsOK'
  BY DEF Only, RequestsOK, WorkInv, Working, Active
<1>2. ASSUME NEW h PROVE AtWork(h)' = AtWork(h)
  BY DEF Only, AtWork, Active, Working
<1>3. ASSUME NEW q \in Requests PROVE Follows(q)'
  BY <1>2, WorkIsShared DEF Only, Follows, AtWork, Active, Working
<1> QED
  BY <1>1, <1>2, <1>3, WorkIsShared, WorkIsSharedNext DEF MapOK

\* A request of another route starts.
LEMMA StartKeeps ==
  ASSUME WorkInv, NEW r \in Requests, req[r].pc = "idle", Only(r),
         req'[r].pc \in {"view", "build"}, req'[r].route \in Routes \ {"authorize"},
         req'[r].pc = "view" => req'[r].route # "claimable", UNCHANGED inflight
  PROVE  WorkInv'
<1>1. RequestsOK'
  BY DEF Only, RequestsOK, WorkInv
<1>2. ASSUME NEW h PROVE AtWork(h)' = AtWork(h)
  BY DEF Only, AtWork, Active
<1>3. ASSUME NEW q \in Requests PROVE Follows(q)'
  BY <1>2, WorkIsShared DEF Only, Follows, AtWork, Active
<1> QED
  BY <1>1, <1>2, <1>3, WorkIsShared, WorkIsSharedNext DEF MapOK

-------------------------------------------------------------------------------
(***************************************************************************)
(* The steps.                                                              *)
(***************************************************************************)

LEMMA ArriveAuthorizeKeeps ==
  ASSUME WorkInv, NEW r \in Requests, NEW h \in Holders, ArriveAuthorize(r, h)
  PROVE  WorkInv'
<1> USE NoRequestApart
<1> DEFINE joined == [pc |-> "joined", route |-> "authorize", holder |-> h, leader |-> inflight[h]]
           leading == [pc |-> "view", route |-> "authorize", holder |-> h]
<1>1. req[r].pc = "idle" /\ AtWork(h) = {inflight[h]} \ {NoRequest}
  BY DEF ArriveAuthorize, WorkInv, OneAuthorizeAtWork
<1>2. CASE Join(h)
  <2>1. req' = [p \in Requests |-> IF p = r THEN joined ELSE req[p]] /\ inflight' = inflight
    BY <1>2 DEF ArriveAuthorize, WorkInv, RequestsOK
  <2>2. inflight[h] \in AtWork(h)
    BY <1>1, <1>2 DEF Join
  <2>3. RequestsOK'
    BY <2>1 DEF RequestsOK, WorkInv, Routes
  <2>4. \A g : AtWork(g)' = AtWork(g)
    BY <1>1, <2>1 DEF AtWork, Active
  <2>5. ASSUME NEW p \in Requests PROVE Follows(p)'
    <3>1. CASE p = r
      BY <1>1, <2>1, <2>2, <3>1 DEF Follows, AtWork, Active
    <3>2. CASE p # r
      BY <1>1, <2>1, <3>2, WorkIsShared DEF Follows, AtWork, Active
    <3> QED
      BY <3>1, <3>2
  <2> QED
    BY <2>1, <2>3, <2>4, <2>5, WorkIsShared, WorkIsSharedNext DEF MapOK
<1>3. CASE ~Join(h)
  <2>1. /\ req' = [p \in Requests |-> IF p = r THEN leading ELSE req[p]]
        /\ inflight' = [inflight EXCEPT ![h] = r]
    BY <1>3 DEF ArriveAuthorize, WorkInv, RequestsOK
  <2>2. AtWork(h) = {}
    BY <1>1, <1>3 DEF Join
  <2>3. RequestsOK'
    BY <2>1 DEF RequestsOK, WorkInv, Routes
  <2>4. MapOK'
    BY <2>1 DEF MapOK, WorkInv
  <2>5. \A g : AtWork(g)' = IF g = h THEN AtWork(g) \cup {r} ELSE AtWork(g)
    BY <1>1, <2>1 DEF AtWork, Active
  <2>6. ASSUME NEW g \in Holders PROVE AtWork(g)' = {inflight'[g]} \ {NoRequest}
    BY <2>1, <2>2, <2>5 DEF WorkInv, OneAuthorizeAtWork, MapOK
  <2>7. ASSUME NEW p \in Requests PROVE Follows(p)'
    BY <1>1, <2>1, WorkIsShared DEF Follows, AtWork, Active
  <2> QED
    BY <2>3, <2>4, <2>6, <2>7, WorkIsSharedNext
<1> QED
  BY <1>2, <1>3

LEMMA ArriveKeeps ==
  ASSUME WorkInv, NEW r \in Requests, Arrive(r)
  PROVE  WorkInv'
<1>1. ASSUME NEW h \in Holders, ArriveAuthorize(r, h) PROVE WorkInv'
  BY <1>1, ArriveAuthorizeKeeps
<1>2. ASSUME NEW h \in Holders, ArriveRequest(r, h) PROVE WorkInv'
  BY <1>2, StartKeeps DEF ArriveRequest, Routes, Only, WorkInv, RequestsOK
<1>3. ASSUME NEW h \in Holders, ArriveClaimable(r, h) PROVE WorkInv'
  BY <1>3, StartKeeps DEF ArriveClaimable, Routes, Only, WorkInv, RequestsOK
<1>4. ASSUME NEW e \in handed, ArriveCallback(r, e) PROVE WorkInv'
  BY <1>4, StartKeeps DEF ArriveCallback, Routes, Only, WorkInv, RequestsOK
<1> QED
  BY <1>1, <1>2, <1>3, <1>4 DEF Arrive

LEMMA ViewKeeps ==
  ASSUME WorkInv, NEW r \in Requests, View(r)
  PROVE  WorkInv'
<1>1. req[r].pc = "view" /\ Working(r) /\ req[r].route \in {"authorize", "request", "callback"}
  BY DEF View, Working, Active, WorkInv, RequestsOK, Routes
<1>2. PICK l \in {line[req[r].holder], "none"} :
        IF l = "auth" THEN Finish(r, "already")
        ELSE /\ req' = [req EXCEPT ![r] =
                  CASE req[r].route = "authorize" ->
                         [pc |-> "build", route |-> req[r].route, holder |-> req[r].holder,
                          next |-> "authorize"]
                    [] req[r].route = "request" ->
                         [pc |-> "build", route |-> req[r].route, holder |-> req[r].holder,
                          next |-> DiagnoseCase(req[r].holder, l),
                          create |-> acct[req[r].holder] = "none"]
                    [] req[r].route = "callback" -> Sending(req[r], req[r].tx)]
             /\ UNCHANGED inflight
  BY DEF View
<1>3. CASE l = "auth"
  BY <1>1, <1>2, <1>3, FinishKeeps
<1>4. CASE l # "auth"
  <2>1. CASE req[r].route = "authorize"
    BY <1>1, <1>2, <1>4, <2>1, MoveKeeps DEF Only, WorkInv, RequestsOK
  <2>2. CASE req[r].route = "request"
    BY <1>1, <1>2, <1>4, <2>2, MoveKeeps DEF Only, WorkInv, RequestsOK
  <2>3. CASE req[r].route = "callback"
    BY <1>1, <1>2, <1>4, <2>3, MoveKeeps DEF Sending, Only, WorkInv, RequestsOK
  <2> QED
    BY <1>1, <2>1, <2>2, <2>3
<1> QED
  BY <1>3, <1>4

LEMMA BuildKeeps ==
  ASSUME WorkInv, NEW r \in Requests,
         \/ BuildAuthorize(r) \/ BuildClaimable(r) \/ BuildSponsored(r)
         \/ BuildOnboard(r) \/ BuildFails(r)
  PROVE  WorkInv'
<1>1. Working(r)
  BY DEF BuildAuthorize, BuildClaimable, BuildSponsored, BuildOnboard, BuildFails, Working, Active
<1>2. CASE BuildAuthorize(r)
  <2>1. CASE Verdict(req[r].holder) = "ok"
    BY <1>1, <1>2, <2>1, MoveKeeps DEF BuildAuthorize, Sending, Only, WorkInv, RequestsOK
  <2>2. CASE Verdict(req[r].holder) # "ok"
    BY <1>1, <1>2, <2>2, FinishKeeps DEF BuildAuthorize
  <2> QED
    BY <2>1, <2>2
<1>3. CASE BuildClaimable(r)
  BY <1>1, <1>3, MoveKeeps DEF BuildClaimable, Sending, Only, WorkInv, RequestsOK
<1>4. CASE BuildSponsored(r)
  BY <1>1, <1>4, FinishKeeps DEF BuildSponsored
<1>5. CASE BuildOnboard(r)
  BY <1>1, <1>5, FinishKeeps DEF BuildOnboard
<1>6. CASE BuildFails(r)
  BY <1>1, <1>6, FinishKeeps DEF BuildFails
<1> QED
  BY <1>2, <1>3, <1>4, <1>5, <1>6

LEMMA SubmitKeeps ==
  ASSUME WorkInv, NEW r \in Requests,
         Send(r) \/ SendThrows(r) \/ Confirmed(r) \/ Unconfirmed(r)
  PROVE  WorkInv'
<1>1. Working(r)
  BY DEF Send, SendThrows, Confirmed, Unconfirmed, Working, Active
<1>2. CASE Send(r)
  <2>1. CASE Finish(r, "chain_error")
    BY <1>1, <2>1, FinishKeeps
  <2>2. CASE req' = [req EXCEPT ![r] = Polling(@)] /\ UNCHANGED inflight
    BY <1>1, <2>2, MoveKeeps DEF Polling, Only, WorkInv, RequestsOK
  <2> QED
    BY <1>2, <2>1, <2>2 DEF Send
<1>3. CASE SendThrows(r)
  BY <1>1, <1>3, FinishKeeps DEF SendThrows
<1>4. CASE Confirmed(r)
  <2>1. CASE AuthorizeFollows(req[r])
    <3>1. req[r].route = "callback"
      BY <2>1 DEF AuthorizeFollows
    <3> QED
      BY <1>1, <1>4, <2>1, <3>1, MoveKeeps DEF Confirmed, Only, WorkInv, RequestsOK
  <2>2. CASE ~AuthorizeFollows(req[r])
    BY <1>1, <1>4, <2>2, FinishKeeps DEF Confirmed
  <2> QED
    BY <2>1, <2>2
<1>5. CASE Unconfirmed(r)
  BY <1>1, <1>5, FinishKeeps DEF Unconfirmed
<1> QED
  BY <1>2, <1>3, <1>4, <1>5

\* A restart empties the map and ends every request.
LEMMA CrashKeeps == ASSUME WorkInv, Crash PROVE WorkInv'
<1>1. /\ req' = [r \in Requests |->
                   IF Active(r) THEN Done(req[r].route, req[r].holder, "lost") ELSE req[r]]
      /\ inflight' = [h \in Holders |-> NoRequest]
  BY DEF Crash
<1>2. \A r \in Requests : req'[r].pc \in {"idle", "done"}
  BY <1>1 DEF Done, Active
<1>3. RequestsOK'
  BY <1>1, <1>2 DEF RequestsOK, WorkInv, Active, Done
<1>4. \A h \in Holders : AtWork(h)' = {}
  BY <1>2 DEF AtWork, Active
<1> QED
  BY <1>1, <1>2, <1>3, <1>4 DEF WorkInv, MapOK, OneAuthorizeAtWork

LEMMA ElsewhereKeeps == ASSUME WorkInv, UNCHANGED <<req, inflight>> PROVE WorkInv'
BY DEF WorkInv, RequestsOK, MapOK, OneAuthorizeAtWork, AtWork, Active

LEMMA WorkStep == WorkInv /\ [Next]_vars => WorkInv'
<1> SUFFICES ASSUME WorkInv, [Next]_vars PROVE WorkInv'
  OBVIOUS
<1>1. ASSUME NEW r \in Requests, Arrive(r) PROVE WorkInv'
  BY <1>1, ArriveKeeps
<1>2. ASSUME NEW r \in Requests, Step(r) PROVE WorkInv'
  <2>1. CASE View(r)
    BY <2>1, ViewKeeps
  <2>2. CASE ViewFails(r)
    BY <2>2, FinishKeeps DEF ViewFails, Working, Active
  <2>3. CASE BuildAuthorize(r) \/ BuildClaimable(r) \/ BuildSponsored(r) \/ BuildOnboard(r) \/ BuildFails(r)
    BY <2>3, BuildKeeps
  <2>4. CASE Send(r) \/ SendThrows(r) \/ Confirmed(r) \/ Unconfirmed(r)
    BY <2>4, SubmitKeeps
  <2> QED
    BY <1>2, <2>1, <2>2, <2>3, <2>4 DEF Step
<1>3. CASE Environment
  <2>1. CASE Crash
    BY <2>1, CrashKeeps
  <2>2. CASE ~Crash
    BY <1>3, <2>2, ElsewhereKeeps
       DEF Environment, Apply, Drop, IssuerFreezes, IssuerUnfreezes, HolderMoves, relayerVars
  <2> QED
    BY <2>1, <2>2
<1>4. CASE UNCHANGED vars
  BY <1>4, ElsewhereKeeps DEF vars, relayerVars
<1> QED
  BY <1>1, <1>2, <1>3, <1>4 DEF Next

LEMMA InitWork == Init => WorkInv
BY NoRequestApart DEF Init, WorkInv, RequestsOK, MapOK, OneAuthorizeAtWork, AtWork, Active, Idle

\* Concurrent authorizes for one holder share one (inflightAuthorize): the map
\* names exactly the request at work, and whoever waits, waits on it.
THEOREM AuthorizesCoalesce == Spec => []OneAuthorizeAtWork
<1>1. WorkInv => OneAuthorizeAtWork
  BY DEF WorkInv
<1> QED
  BY <1>1, InitWork, WorkStep, PTL DEF Spec

-------------------------------------------------------------------------------
(***************************************************************************)
(* The shape of the state.                                                 *)
(***************************************************************************)

Funds == {"none", "poor", "funded"}
Lines == {"none", "unauth", "auth"}

\* What a request carries from one await to the next.
Typed(q) ==
  \/ q.pc = "idle"
  \/ /\ q.route \in Routes /\ q.holder \in Holders
     /\ \/ q.pc = "done" /\ q.answer \in Answers
        \/ q.pc = "view" /\ q.route # "claimable" /\ (q.route = "callback" => q.tx \in Transactions)
        \/ q.pc = "joined" /\ q.leader \in Requests
        \/ q.pc = "build" /\ q.next \in Kinds /\ (q.next = "sponsored" => q.create \in BOOLEAN)
        \/ q.pc \in {"send", "poll"} /\ q.tx \in Transactions

LedgerTyped ==
  /\ acct \in [Holders -> Funds] /\ line \in [Holders -> Lines] /\ banned \in SUBSET Holders

NetworkTyped ==
  /\ seq \in [Sources -> Nat]
  /\ pool \subseteq Transactions /\ handed \subseteq Transactions
  /\ applied \subseteq [tx : Transactions, ok : BOOLEAN]
  /\ \A t, u \in pool : t.source = u.source => t = u

RequestsTyped ==
  /\ req = [r \in Requests |-> req[r]] /\ \A r \in Requests : Typed(req[r])
  /\ inflight \in [Holders -> Requests \cup {NoRequest}]

TypeInv == LedgerTyped /\ NetworkTyped /\ RequestsTyped

LEMMA TypeInvIsEnough == TypeInv => RelayerTypeOK
BY DEF TypeInv, LedgerTyped, NetworkTyped, RequestsTyped, Typed, RelayerTypeOK, RequestOK, Funds, Lines

LEMMA TxTyped ==
  ASSUME TypeInv, NEW kind \in Kinds, NEW h \in Holders, NEW source \in Sources,
         NEW r \in Requests, NEW create \in BOOLEAN
  PROVE  Tx(kind, h, source, r, create) \in Transactions
BY DEF Tx, Transactions, TypeInv, NetworkTyped

LEMMA ExplainedIsAnswer == \A code : ExplainChainError(code) \in Answers \ {"paid"}
BY Zenon DEF ExplainChainError, Answers, Refusals

LEMMA DiagnosedIsKind ==
  ASSUME NEW h \in Holders, NEW l
  PROVE  DiagnoseCase(h, l) \in {"onboard", "sponsored", "authorize"}
BY Zenon DEF DiagnoseCase

\* The two ways in which a step changes requests.
LEMMA FinishTyped ==
  ASSUME RequestsTyped, NEW r \in Requests, req[r].pc # "idle", NEW a \in Answers, Finish(r, a)
  PROVE  RequestsTyped'
<1>1. /\ req' = [q \in Requests |->
                   IF q = r \/ (req[q].pc = "joined" /\ req[q].leader = r)
                   THEN Done(req[q].route, req[q].holder, a) ELSE req[q]]
      /\ inflight' = [h \in Holders |-> IF inflight[h] = r THEN NoRequest ELSE inflight[h]]
  BY DEF Finish, Answered, Released
<1>2. ASSUME NEW q \in Requests PROVE Typed(req'[q])
  <2>1. CASE q = r \/ (req[q].pc = "joined" /\ req[q].leader = r)
    <3>1. req'[q] = Done(req[q].route, req[q].holder, a)
      BY <1>1, <2>1
    <3>2. req[q].route \in Routes /\ req[q].holder \in Holders
      BY <2>1 DEF RequestsTyped, Typed
    <3> QED
      BY <3>1, <3>2 DEF Typed, Done
  <2>2. CASE ~(q = r \/ (req[q].pc = "joined" /\ req[q].leader = r))
    BY <1>1, <2>2 DEF RequestsTyped
  <2> QED
    BY <2>1, <2>2
<1> QED
  BY <1>1, <1>2 DEF RequestsTyped

LEMMA GoesOnTyped ==
  ASSUME RequestsTyped, NEW r \in Requests, NEW q, Typed(q), req' = [req EXCEPT ![r] = q],
         UNCHANGED inflight
  PROVE  RequestsTyped'
<1>1. req' = [p \in Requests |-> IF p = r THEN q ELSE req[p]]
  BY DEF RequestsTyped
<1> QED
  BY <1>1 DEF RequestsTyped

LEMMA RestTyped ==
  /\ LedgerTyped /\ UNCHANGED ledger => LedgerTyped'
  /\ NetworkTyped /\ UNCHANGED network /\ UNCHANGED handed => NetworkTyped'
  /\ RequestsTyped /\ UNCHANGED <<req, inflight>> => RequestsTyped'
BY DEF ledger, network, LedgerTyped, NetworkTyped, RequestsTyped

\* The steps of requests.
LEMMA ArriveTyped == ASSUME TypeInv, NEW r \in Requests, Arrive(r) PROVE TypeInv'
<1>1. LedgerTyped' /\ NetworkTyped'
  BY RestTyped DEF TypeInv, Arrive, ArriveAuthorize, ArriveRequest, ArriveCallback, ArriveClaimable
<1>2. ASSUME NEW h \in Holders, ArriveAuthorize(r, h) PROVE RequestsTyped'
  <2>1. CASE Join(h)
    <3> DEFINE q == [pc |-> "joined", route |-> "authorize", holder |-> h, leader |-> inflight[h]]
    <3>1. Typed(q)
      BY <2>1 DEF Typed, Join, TypeInv, RequestsTyped, Routes
    <3> QED
      BY <1>2, <2>1, <3>1, GoesOnTyped DEF ArriveAuthorize, TypeInv
  <2>2. CASE ~Join(h)
    <3> DEFINE q == [pc |-> "view", route |-> "authorize", holder |-> h]
    <3>1. Typed(q)
      BY DEF Typed, Routes
    <3>2. req' = [req EXCEPT ![r] = q] /\ inflight' = [inflight EXCEPT ![h] = r]
      BY <1>2, <2>2 DEF ArriveAuthorize
    <3>3. req' = [p \in Requests |-> IF p = r THEN q ELSE req[p]]
      BY <3>2 DEF TypeInv, RequestsTyped
    <3> HIDE DEF q
    <3> QED
      BY <3>1, <3>2, <3>3 DEF TypeInv, RequestsTyped
  <2> QED
    BY <2>1, <2>2
<1>3. ASSUME NEW h \in Holders, ArriveRequest(r, h) PROVE RequestsTyped'
  <2>1. Typed([pc |-> "view", route |-> "request", holder |-> h])
    BY DEF Typed, Routes
  <2> QED
    BY <1>3, <2>1, GoesOnTyped DEF ArriveRequest, TypeInv
<1>4. ASSUME NEW e \in handed, ArriveCallback(r, e) PROVE RequestsTyped'
  <2>1. Typed([pc |-> "view", route |-> "callback", holder |-> e.holder, tx |-> e])
    BY DEF Typed, Routes, TypeInv, NetworkTyped, Transactions
  <2> QED
    BY <1>4, <2>1, GoesOnTyped DEF ArriveCallback, TypeInv
<1>5. ASSUME NEW h \in Holders, ArriveClaimable(r, h) PROVE RequestsTyped'
  <2>1. Typed([pc |-> "build", route |-> "claimable", holder |-> h, next |-> "claimable"])
    BY DEF Typed, Routes, Kinds
  <2> QED
    BY <1>5, <2>1, GoesOnTyped DEF ArriveClaimable, TypeInv
<1> QED
  BY <1>1, <1>2, <1>3, <1>4, <1>5 DEF Arrive, TypeInv

LEMMA ViewTyped == ASSUME TypeInv, NEW r \in Requests, View(r) PROVE TypeInv'
<1> DEFINE h == req[r].holder
<1>1. LedgerTyped' /\ NetworkTyped'
  BY RestTyped DEF TypeInv, View
<1>2. /\ req[r].pc = "view" /\ h \in Holders /\ RequestsTyped
      /\ req[r].route \in {"authorize", "request", "callback"}
      /\ req[r].route = "callback" => req[r].tx \in Transactions
  BY DEF View, TypeInv, RequestsTyped, Typed, Routes
<1>3. PICK l \in {line[h], "none"} :
        IF l = "auth" THEN Finish(r, "already")
        ELSE /\ req' = [req EXCEPT ![r] =
                  CASE req[r].route = "authorize" ->
                         [pc |-> "build", route |-> req[r].route, holder |-> h, next |-> "authorize"]
                    [] req[r].route = "request" ->
                         [pc |-> "build", route |-> req[r].route, holder |-> h,
                          next |-> DiagnoseCase(h, l), create |-> acct[h] = "none"]
                    [] req[r].route = "callback" -> Sending(req[r], req[r].tx)]
             /\ UNCHANGED inflight
  BY DEF View
<1>4. CASE l = "auth"
  BY <1>1, <1>2, <1>3, <1>4, FinishTyped DEF TypeInv, Answers
<1>5. CASE l # "auth" /\ req[r].route = "authorize"
  <2> DEFINE q == [pc |-> "build", route |-> req[r].route, holder |-> h, next |-> "authorize"]
  <2>1. Typed(q)
    BY <1>2, <1>5 DEF Typed, Routes, Kinds
  <2>2. req' = [req EXCEPT ![r] = q] /\ UNCHANGED inflight
    BY <1>3, <1>5
  <2> QED
    BY <1>1, <1>2, <2>1, <2>2, GoesOnTyped DEF TypeInv
<1>6. CASE l # "auth" /\ req[r].route = "request"
  <2> DEFINE q == [pc |-> "build", route |-> req[r].route, holder |-> h,
                   next |-> DiagnoseCase(h, l), create |-> acct[h] = "none"]
  <2>1. DiagnoseCase(h, l) \in Kinds
    BY <1>2, DiagnosedIsKind DEF Kinds
  <2>2. Typed(q)
    BY <1>2, <1>6, <2>1 DEF Typed, Routes
  <2>3. req' = [req EXCEPT ![r] = q] /\ UNCHANGED inflight
    BY <1>3, <1>6
  <2> QED
    BY <1>1, <1>2, <2>2, <2>3, GoesOnTyped DEF TypeInv
<1>7. CASE l # "auth" /\ req[r].route = "callback"
  <2>1. Typed(Sending(req[r], req[r].tx))
    BY <1>2, <1>7 DEF Typed, Routes, Sending
  <2>2. req' = [req EXCEPT ![r] = Sending(req[r], req[r].tx)] /\ UNCHANGED inflight
    BY <1>3, <1>7
  <2> QED
    BY <1>1, <1>2, <2>1, <2>2, GoesOnTyped DEF TypeInv
<1> QED
  BY <1>2, <1>4, <1>5, <1>6, <1>7

LEMMA BuildTyped ==
  ASSUME TypeInv, NEW r \in Requests,
         \/ BuildAuthorize(r) \/ BuildClaimable(r) \/ BuildSponsored(r)
         \/ BuildOnboard(r) \/ BuildFails(r)
  PROVE  TypeInv'
<1> DEFINE h == req[r].holder
<1>1. /\ req[r].pc = "build" /\ req[r].route \in Routes /\ h \in Holders
      /\ req[r].next = "sponsored" => req[r].create \in BOOLEAN
      /\ RequestsTyped /\ NetworkTyped /\ LedgerTyped
  BY DEF BuildAuthorize, BuildClaimable, BuildSponsored, BuildOnboard, BuildFails,
         TypeInv, RequestsTyped, Typed
<1>2. h \in Sources /\ Relayer \in Sources
  BY <1>1 DEF Sources
<1>3. LedgerTyped' /\ UNCHANGED network
  BY <1>1, RestTyped DEF BuildAuthorize, BuildClaimable, BuildSponsored, BuildOnboard, BuildFails
<1>4. ASSUME NEW t \in Transactions PROVE Typed(Sending(req[r], t))
  BY <1>1 DEF Typed, Sending
<1>5. CASE BuildAuthorize(r)
  <2>1. NetworkTyped'
    BY <1>1, <1>3, <1>5, RestTyped DEF BuildAuthorize
  <2>2. CASE Verdict(h) = "ok"
    <3> DEFINE t == Tx("authorize", h, Relayer, r, FALSE)
    <3>1. t \in Transactions
      BY <1>1, <1>2, TxTyped DEF Kinds
    <3>2. req' = [req EXCEPT ![r] = Sending(req[r], t)] /\ UNCHANGED inflight
      BY <1>5, <2>2 DEF BuildAuthorize
    <3> HIDE DEF t
    <3> QED
      BY <1>1, <1>3, <1>4, <2>1, <3>1, <3>2, GoesOnTyped DEF TypeInv
  <2>3. CASE Verdict(h) # "ok"
    <3>1. Finish(r, ExplainChainError(AuthorizerCode(h)))
      BY <1>5, <2>3 DEF BuildAuthorize
    <3> QED
      BY <1>1, <1>3, <2>1, <3>1, FinishTyped, ExplainedIsAnswer DEF TypeInv
  <2> QED
    BY <2>2, <2>3
<1>6. CASE BuildClaimable(r)
  <2> DEFINE t == Tx("claimable", h, Relayer, r, FALSE)
  <2>1. t \in Transactions
    BY <1>1, <1>2, TxTyped DEF Kinds
  <2>2. req' = [req EXCEPT ![r] = Sending(req[r], t)] /\ UNCHANGED <<inflight, handed>>
    BY <1>6 DEF BuildClaimable
  <2>3. NetworkTyped'
    BY <1>1, <1>3, <2>2, RestTyped
  <2> HIDE DEF t
  <2> QED
    BY <1>1, <1>3, <1>4, <2>1, <2>2, <2>3, GoesOnTyped DEF TypeInv
<1>7. CASE BuildSponsored(r)
  <2> DEFINE t == Tx("sponsored", h, Relayer, r, req[r].create)
  <2>1. t \in Transactions
    BY <1>1, <1>2, <1>7, TxTyped DEF Kinds, BuildSponsored
  <2>2. handed' = handed \cup {t} /\ Finish(r, "handed")
    BY <1>7 DEF BuildSponsored
  <2>3. RequestsTyped'
    BY <1>1, <2>2, FinishTyped DEF Answers
  <2> HIDE DEF t
  <2> QED
    BY <1>1, <1>3, <2>1, <2>2, <2>3 DEF TypeInv, NetworkTyped, network
<1>8. CASE BuildOnboard(r)
  <2> DEFINE t == Tx("onboard", h, IF h \in Contracts THEN Relayer ELSE h, r, FALSE)
  <2>1. t \in Transactions
    BY <1>1, <1>2, TxTyped DEF Kinds
  <2>2. \/ handed' = handed \cup {t} /\ Finish(r, "handed")
        \/ handed' = handed /\ Finish(r, ExplainChainError(RouterCode.AuthorizationRefused))
    BY <1>8 DEF BuildOnboard
  <2>3. RequestsTyped'
    BY <1>1, <2>2, FinishTyped, ExplainedIsAnswer DEF Answers
  <2> HIDE DEF t
  <2> QED
    BY <1>1, <1>3, <2>1, <2>2, <2>3 DEF TypeInv, NetworkTyped, network
<1>9. CASE BuildFails(r)
  BY <1>1, <1>3, <1>9, FinishTyped, RestTyped DEF BuildFails, TypeInv, Answers
<1> QED
  BY <1>5, <1>6, <1>7, <1>8, <1>9

LEMMA AdmittedTyped ==
  ASSUME NetworkTyped, NEW t \in Transactions, pool' = Admitted(t), UNCHANGED <<seq, applied, handed>>
  PROVE  NetworkTyped'
BY DEF NetworkTyped, Admitted

LEMMA SubmitTyped ==
  ASSUME TypeInv, NEW r \in Requests,
         Send(r) \/ SendThrows(r) \/ Confirmed(r) \/ Unconfirmed(r)
  PROVE  TypeInv'
<1>1. /\ req[r].pc \in {"send", "poll"} /\ req[r].tx \in Transactions
      /\ req[r].route \in Routes /\ req[r].holder \in Holders
      /\ RequestsTyped /\ NetworkTyped /\ LedgerTyped
  BY DEF Send, SendThrows, Confirmed, Unconfirmed, TypeInv, RequestsTyped, Typed
<1>2. LedgerTyped'
  BY <1>1, RestTyped DEF Send, SendThrows, Confirmed, Unconfirmed
<1>3. CASE Send(r)
  <2>1. CASE BadSeq(req[r].tx)
    BY <1>1, <1>2, <1>3, <2>1, FinishTyped, RestTyped DEF Send, TypeInv, Answers, network
  <2>2. CASE ~BadSeq(req[r].tx)
    <3>1. Typed(Polling(req[r]))
      BY <1>1 DEF Typed, Polling
    <3>2. /\ req' = [req EXCEPT ![r] = Polling(req[r])] /\ UNCHANGED <<inflight, seq, applied, handed>>
          /\ pool' = Admitted(req[r].tx)
      BY <1>3, <2>2 DEF Send
    <3> QED
      BY <1>1, <1>2, <3>1, <3>2, GoesOnTyped, AdmittedTyped DEF TypeInv
  <2> QED
    BY <2>1, <2>2
<1>4. CASE SendThrows(r)
  <2>1. RequestsTyped'
    BY <1>1, <1>4, FinishTyped DEF SendThrows, Answers
  <2>2. NetworkTyped'
    BY <1>1, <1>4, AdmittedTyped, RestTyped DEF SendThrows, network
  <2> QED
    BY <1>2, <2>1, <2>2 DEF TypeInv
<1>5. CASE Confirmed(r)
  <2>1. NetworkTyped'
    BY <1>1, <1>5, RestTyped DEF Confirmed
  <2>2. CASE AuthorizeFollows(req[r])
    <3> DEFINE q == [pc |-> "build", route |-> "callback", holder |-> req[r].holder, next |-> "authorize"]
    <3>1. Typed(q)
      BY <1>1 DEF Typed, Routes, Kinds
    <3>2. req' = [req EXCEPT ![r] = q] /\ UNCHANGED inflight
      BY <1>5, <2>2 DEF Confirmed
    <3> QED
      BY <1>1, <1>2, <2>1, <3>1, <3>2, GoesOnTyped DEF TypeInv
  <2>3. CASE ~AuthorizeFollows(req[r])
    BY <1>1, <1>2, <1>5, <2>1, <2>3, FinishTyped DEF Confirmed, TypeInv, Answers
  <2> QED
    BY <2>2, <2>3
<1>6. CASE Unconfirmed(r)
  BY <1>1, <1>2, <1>6, FinishTyped, RestTyped, ExplainedIsAnswer DEF Unconfirmed, NotConfirmed, TypeInv
<1> QED
  BY <1>3, <1>4, <1>5, <1>6

\* The steps of everybody else.
LEMMA EffectTyped ==
  ASSUME TypeInv, NEW t \in Transactions, NEW ok \in BOOLEAN, NEW l \in Lines, NEW a \in Funds,
         Effect(t, ok, l, a)
  PROVE  /\ line' \in [Holders -> Lines] /\ acct' \in [Holders -> Funds]
         /\ applied' \subseteq [tx : Transactions, ok : BOOLEAN]
         /\ applied' = applied \cup {[tx |-> t, ok |-> ok]}
<1>1. line' \in [Holders -> Lines] /\ acct' \in [Holders -> Funds]
  BY DEF Effect, TypeInv, LedgerTyped
<1>2. [tx |-> t, ok |-> ok] \in [tx : Transactions, ok : BOOLEAN]
  OBVIOUS
<1>3. applied \subseteq [tx : Transactions, ok : BOOLEAN]
  BY DEF TypeInv, NetworkTyped
<1> QED
  BY <1>1, <1>2, <1>3 DEF Effect

\* What a transaction does, by its kind.
LEMMA ApplyByKind ==
  ASSUME NEW t, Apply(t)
  PROVE  LET h == t.holder IN
         /\ t.kind = "authorize" =>
              Effect(t, Verdict(h) = "ok", IF Verdict(h) = "ok" THEN "auth" ELSE line[h], acct[h])
         /\ t.kind = "onboard" =>
              Effect(t, Routed(h) # "refused", IF Routed(h) = "refused" THEN line[h] ELSE Routed(h), acct[h])
         /\ t.kind = "sponsored" =>
              IF t.create = (acct[h] = "none")
              THEN Effect(t, TRUE, Trusted(h), IF t.create THEN "poor" ELSE acct[h])
              ELSE Effect(t, FALSE, line[h], acct[h])
         /\ t.kind = "claimable" => \E ok \in BOOLEAN : Effect(t, ok, line[h], acct[h])
BY Zenon DEF Apply

LEMMA RoutedIsLine ==
  ASSUME TypeInv, NEW h \in Holders
  PROVE  Trusted(h) \in Lines /\ Routed(h) \in Lines \cup {"refused"} /\ (Governs => Routed(h) \in {"auth", "refused"})
BY DEF Trusted, Routed, TypeInv, LedgerTyped, Lines

LEMMA ApplyHasEffect ==
  ASSUME TypeInv, NEW t \in pool, Apply(t)
  PROVE  \E ok \in BOOLEAN, l \in Lines, a \in Funds : Effect(t, ok, l, a)
<1> DEFINE h == t.holder
<1>1. t \in Transactions /\ t.kind \in Kinds /\ h \in Holders
  BY DEF TypeInv, NetworkTyped, Transactions
<1>2. line[h] \in Lines /\ acct[h] \in Funds
  BY <1>1 DEF TypeInv, LedgerTyped
<1>3. "auth" \in Lines /\ "poor" \in Funds
  BY DEF Lines, Funds
<1>4. CASE t.kind = "authorize"
  BY <1>2, <1>3, <1>4, ApplyByKind
<1>5. CASE t.kind = "onboard"
  BY <1>1, <1>2, <1>5, ApplyByKind, RoutedIsLine
<1>6. CASE t.kind = "sponsored"
  BY <1>1, <1>2, <1>3, <1>6, ApplyByKind, RoutedIsLine
<1>7. CASE t.kind = "claimable"
  BY <1>2, <1>7, ApplyByKind
<1> QED
  BY <1>1, <1>4, <1>5, <1>6, <1>7 DEF Kinds

LEMMA ApplyTyped == ASSUME TypeInv, NEW t \in pool, Apply(t) PROVE TypeInv'
<1>1. t \in Transactions
  BY DEF TypeInv, NetworkTyped
<1>2. LedgerTyped /\ NetworkTyped /\ RequestsTyped
  BY DEF TypeInv
<1>3. \E ok \in BOOLEAN, l \in Lines, a \in Funds : Effect(t, ok, l, a)
  BY ApplyHasEffect
<1>4. /\ line' \in [Holders -> Lines] /\ acct' \in [Holders -> Funds]
      /\ applied' \subseteq [tx : Transactions, ok : BOOLEAN]
  BY <1>1, <1>3, EffectTyped
<1>5. pool' = pool \ {t} /\ seq' = [seq EXCEPT ![t.source] = t.seq] /\ UNCHANGED <<banned, relayerVars>>
  BY DEF Apply
<1>6. NetworkTyped'
  BY <1>1, <1>2, <1>4, <1>5 DEF NetworkTyped, Transactions, relayerVars
<1> QED
  BY <1>2, <1>4, <1>5, <1>6, RestTyped DEF TypeInv, LedgerTyped, relayerVars

LEMMA EnvironmentTyped == ASSUME TypeInv, Environment PROVE TypeInv'
<1>1. ASSUME NEW t \in pool, Apply(t) PROVE TypeInv'
  BY <1>1, ApplyTyped
<1>2. ASSUME NEW t \in pool, Drop(t) PROVE TypeInv'
  BY <1>2, RestTyped DEF Drop, TypeInv, NetworkTyped, relayerVars
<1>3. ASSUME NEW h \in Holders, IssuerFreezes(h) \/ IssuerUnfreezes(h) PROVE TypeInv'
  BY <1>3, RestTyped DEF IssuerFreezes, IssuerUnfreezes, TypeInv, LedgerTyped, relayerVars, Lines
<1>4. ASSUME NEW h \in Holders, HolderMoves(h) PROVE TypeInv'
  <2>1. LedgerTyped' /\ RequestsTyped'
    BY <1>4, RestTyped DEF HolderMoves, TypeInv, LedgerTyped, relayerVars, Lines
  <2>2. h \in Sources
    BY DEF Sources
  <2>3. NetworkTyped'
    BY <1>4, <2>2 DEF HolderMoves, TypeInv, NetworkTyped, relayerVars
  <2> QED
    BY <2>1, <2>3 DEF TypeInv
<1>5. CASE Crash
  <2>1. ASSUME NEW r \in Requests PROVE Typed(req'[r])
    <3>1. CASE Active(r)
      BY <1>5, <3>1 DEF Crash, Typed, Done, Active, Answers, TypeInv, RequestsTyped
    <3>2. CASE ~Active(r)
      BY <1>5, <3>2 DEF Crash, TypeInv, RequestsTyped
    <3> QED
      BY <3>1, <3>2
  <2>2. RequestsTyped'
    BY <1>5, <2>1 DEF Crash, RequestsTyped
  <2> QED
    BY <1>5, <2>2, RestTyped DEF Crash, TypeInv
<1> QED
  BY <1>1, <1>2, <1>3, <1>4, <1>5 DEF Environment

LEMMA TypeStep == TypeInv /\ [Next]_vars => TypeInv'
<1> SUFFICES ASSUME TypeInv, [Next]_vars PROVE TypeInv'
  OBVIOUS
<1>1. ASSUME NEW r \in Requests, Step(r) PROVE TypeInv'
  <2>1. CASE ViewFails(r)
    BY <2>1, FinishTyped, RestTyped DEF ViewFails, TypeInv, Answers
  <2> QED
    BY <1>1, <2>1, ViewTyped, BuildTyped, SubmitTyped DEF Step
<1>2. CASE UNCHANGED vars
  BY <1>2, RestTyped DEF vars, relayerVars, TypeInv
<1> QED
  BY <1>1, <1>2, ArriveTyped, EnvironmentTyped DEF Next

LEMMA InitTyped == Init => TypeInv
<1> SUFFICES ASSUME Init PROVE TypeInv
  OBVIOUS
<1>1. LedgerTyped /\ RequestsTyped
  BY DEF Init, LedgerTyped, RequestsTyped, Funds, Lines, Typed, Idle
<1>2. NetworkTyped
  BY DEF Init, NetworkTyped
<1> QED
  BY <1>1, <1>2 DEF TypeInv

\* The state keeps its shape, and the pool holds one transaction per source
\* (Send and what the network admits), whatever is repeated, dropped or lost.
THEOREM RelayerTypeCorrect == Spec => []RelayerTypeOK
BY InitTyped, TypeStep, TypeInvIsEnough, PTL DEF Spec

-------------------------------------------------------------------------------
(***************************************************************************)
(* Payments.                                                               *)
(***************************************************************************)

\* What the network has, or has had and applied, from request r.
Carried == pool \cup {x.tx : x \in applied}
CarriedBy(r) == {t \in Carried : t.by = r}

Started(r) == req[r].pc # "idle"
IsPayment(r) == Started(r) /\ req[r].route = "claimable"
Holds(r) == req[r].pc \in {"send", "poll"} \/ (req[r].pc = "view" /\ req[r].route = "callback")
Paid(r) == req[r].pc = "done" /\ req[r].answer = "paid"

\* A transaction is some started request's, and no envelope is a payment's.
Authored ==
  /\ \A t \in Carried \cup handed : t.by \in Requests /\ Started(t.by)
  /\ \A t \in handed : ~IsPayment(t.by)

\* Whoever holds a payment's transaction is the request that made it.
OwnTx(r) ==
  Holds(r) => /\ req[r].tx.by \in Requests /\ Started(req[r].tx.by)
              /\ IsPayment(req[r].tx.by) \/ IsPayment(r) => req[r].tx.by = r

Single(r) == \E t : CarriedBy(r) \subseteq {t}

\* A payment's request has one transaction: none before it is sent.
OneTx(r) ==
  IsPayment(r) =>
    /\ Single(r)
    /\ req[r].pc \in {"build", "send", "poll", "done"}
    /\ req[r].pc = "build" => req[r].next = "claimable"
    /\ req[r].pc \in {"build", "send"} => CarriedBy(r) = {}
    /\ req[r].pc = "poll" => CarriedBy(r) \subseteq {req[r].tx}

\* A payment that is reported has been made with its one transaction.
Made(r) ==
  Paid(r) => /\ IsPayment(r)
             /\ \E t : t.by = r /\ CarriedBy(r) \subseteq {t} /\ [tx |-> t, ok |-> TRUE] \in applied

Accounted(r) == OwnTx(r) /\ OneTx(r) /\ Made(r)

PayInv == TypeInv /\ WorkInv /\ Authored /\ \A r \in Requests : Accounted(r)

\* Requests that have started stay so, on the same route.
RoutesStay == \A r \in Requests : Started(r) => req'[r].pc # "idle" /\ req'[r].route = req[r].route

\* A step adds to the network nothing of r's.
NothingOf(r) == CarriedBy(r)' \subseteq CarriedBy(r) /\ applied \subseteq applied'

LEMMA PaymentsStay ==
  ASSUME RoutesStay
  PROVE  \A r \in Requests : Started(r) => Started(r)' /\ (IsPayment(r)' <=> IsPayment(r))
BY DEF RoutesStay, IsPayment, Started

\* A request that does not move, and whose transaction the step does not send.
LEMMA Unmoved ==
  ASSUME PayInv, RoutesStay, NEW r \in Requests, req'[r] = req[r],
         NothingOf(r) \/ ~IsPayment(r)
  PROVE  Accounted(r)'
<1>1. /\ IsPayment(r)' <=> IsPayment(r)
      /\ Holds(r)' <=> Holds(r)
      /\ Paid(r)' <=> Paid(r)
  BY DEF IsPayment, Started, Holds, Paid
<1>2. OwnTx(r) /\ OneTx(r) /\ Made(r)
  BY DEF PayInv, Accounted
<1>3. OwnTx(r)'
  BY <1>1, <1>2, PaymentsStay DEF OwnTx
<1>4. OneTx(r)'
  <2>1. NothingOf(r) /\ Single(r) => Single(r)'
    BY DEF NothingOf, Single
  <2> QED
    BY <1>1, <1>2, <2>1 DEF OneTx, NothingOf
<1>5. Made(r)'
  <2> SUFFICES ASSUME Paid(r)
               PROVE  \E t : t.by = r /\ CarriedBy(r)' \subseteq {t} /\ [tx |-> t, ok |-> TRUE] \in applied'
    BY <1>1, <1>2 DEF Made
  <2>1. PICK t : t.by = r /\ CarriedBy(r) \subseteq {t} /\ [tx |-> t, ok |-> TRUE] \in applied
    BY <1>2 DEF Made
  <2>2. NothingOf(r)
    BY <1>2 DEF Made
  <2> QED
    BY <2>1, <2>2 DEF NothingOf
<1> QED
  BY <1>3, <1>4, <1>5 DEF Accounted

\* The requests are left alone, and the network takes nothing new.
LEMMA NothingSent ==
  ASSUME PayInv, UNCHANGED <<req, handed>>, Carried' \subseteq Carried, applied \subseteq applied'
  PROVE  Authored' /\ \A r \in Requests : Accounted(r)'
<1>1. RoutesStay /\ \A r \in Requests : NothingOf(r)
  BY DEF RoutesStay, NothingOf, CarriedBy, Started
<1>2. Authored'
  BY <1>1, PaymentsStay DEF PayInv, Authored
<1> QED
  BY <1>1, <1>2, Unmoved

\* What a step of r may send, and what it may hand out.
Sends(r) ==
  applied' = applied /\ \A t \in pool' : t \in pool \/ (req[r].pc = "send" /\ t = req[r].tx)
HandsOut(r) ==
  \A t \in handed' : t \in handed \/ (t.by = r /\ Started(r) /\ ~IsPayment(r))

LEMMA OthersUnmoved ==
  ASSUME PayInv, RoutesStay, NEW r \in Requests, Sends(r),
         NEW q \in Requests, q # r, req'[q] = req[q]
  PROVE  Accounted(q)'
<1>1. IsPayment(q) => NothingOf(q)
  <2> SUFFICES ASSUME IsPayment(q), NEW t \in CarriedBy(q)' PROVE t \in CarriedBy(q)
    BY DEF NothingOf, Sends
  <2>1. t.by = q /\ (t \in Carried \/ (req[r].pc = "send" /\ t = req[r].tx))
    BY DEF CarriedBy, Carried, Sends
  <2>2. ASSUME req[r].pc = "send", t = req[r].tx PROVE FALSE
    <3>1. OwnTx(r) /\ Holds(r)
      BY <2>2 DEF PayInv, Accounted, Holds
    <3> QED
      BY <2>1, <2>2, <3>1 DEF OwnTx
  <2> QED
    BY <2>1, <2>2 DEF CarriedBy
<1> QED
  BY <1>1, Unmoved

LEMMA AuthoredStays ==
  ASSUME PayInv, RoutesStay, NEW r \in Requests, Sends(r), HandsOut(r)
  PROVE  Authored'
<1>1. req[r].pc = "send" => req[r].tx.by \in Requests /\ Started(req[r].tx.by)
  BY DEF PayInv, Accounted, OwnTx, Holds
<1>2. ASSUME NEW t \in Carried' PROVE t.by \in Requests /\ Started(t.by)'
  <2>1. t \in Carried \/ (req[r].pc = "send" /\ t = req[r].tx)
    BY DEF Carried, Sends
  <2> QED
    BY <1>1, <2>1, PaymentsStay DEF PayInv, Authored
<1>3. ASSUME NEW t \in handed' PROVE t.by \in Requests /\ Started(t.by)' /\ ~IsPayment(t.by)'
  BY <1>3, PaymentsStay DEF HandsOut, PayInv, Authored
<1> QED
  BY <1>2, <1>3 DEF Authored

\* What a payment's request sends is its only transaction.
LEMMA SinglesStay ==
  ASSUME PayInv, NEW r \in Requests, IsPayment(r), Sends(r)
  PROVE  Single(r)'
<1>1. OneTx(r)
  BY DEF PayInv, Accounted
<1>2. CASE req[r].pc = "send"
  <2>1. CarriedBy(r) = {}
    BY <1>1, <1>2 DEF OneTx
  <2>2. CarriedBy(r)' \subseteq {req[r].tx}
    BY <2>1 DEF Sends, CarriedBy, Carried
  <2> QED
    BY <2>2 DEF Single
<1>3. CASE req[r].pc # "send"
  <2>1. PICK t : CarriedBy(r) \subseteq {t}
    BY <1>1 DEF OneTx, Single
  <2>2. CarriedBy(r)' \subseteq {t}
    BY <1>3, <2>1 DEF Sends, CarriedBy, Carried
  <2> QED
    BY <2>2 DEF Single
<1> QED
  BY <1>2, <1>3

\* A request ends otherwise than paid.
LEMMA EndPays ==
  ASSUME PayInv, NEW r \in Requests, Working(r), NEW a, a # "paid", Finish(r, a), Sends(r), HandsOut(r)
  PROVE  Authored' /\ \A q \in Requests : Accounted(q)'
<1>1. req' = [q \in Requests |->
                IF q = r \/ (req[q].pc = "joined" /\ req[q].leader = r)
                THEN Done(req[q].route, req[q].holder, a) ELSE req[q]]
  BY DEF Finish, Answered
<1>2. RoutesStay
  BY <1>1 DEF RoutesStay, Started, Done
<1>3. ASSUME NEW q \in Requests PROVE Accounted(q)'
  <2>1. ASSUME req'[q] = Done(req[q].route, req[q].holder, a), q = r \/ req[q].pc = "joined"
        PROVE  Accounted(q)'
    <3>1. Started(q) /\ OneTx(q)
      BY <2>1 DEF PayInv, Accounted, Started, Working, Active
    <3>2. IsPayment(q)' <=> IsPayment(q)
      BY <1>2, <3>1, PaymentsStay
    <3>3. IsPayment(q) => q = r
      BY <2>1, <3>1 DEF OneTx
    <3>4. IsPayment(q) => Single(q)'
      BY <3>1, <3>3, SinglesStay
    <3> QED
      BY <2>1, <3>2, <3>4 DEF Done, Accounted, OwnTx, OneTx, Made, Holds, Paid
  <2>2. CASE q # r /\ req'[q] = req[q]
    BY <1>2, <2>2, OthersUnmoved
  <2> QED
    BY <1>1, <2>1, <2>2
<1> QED
  BY <1>2, <1>3, AuthoredStays

\* A request goes on.
LEMMA MovePays ==
  ASSUME PayInv, NEW r \in Requests, Working(r), NEW p, req' = [req EXCEPT ![r] = p],
         p.pc # "idle", p.route = req[r].route, Sends(r), HandsOut(r),
         Accounted(r)'
  PROVE  Authored' /\ \A q \in Requests : Accounted(q)'
<1>1. \A q \in Requests : req'[q] = IF q = r THEN p ELSE req[q]
  BY DEF PayInv, TypeInv, RequestsTyped
<1>2. RoutesStay
  BY <1>1 DEF RoutesStay, Started
<1> QED
  BY <1>1, <1>2, OthersUnmoved, AuthoredStays

\* A request starts.
LEMMA StartPays ==
  ASSUME PayInv, NEW r \in Requests, NEW p, req' = [req EXCEPT ![r] = p],
         req[r].pc = "idle", UNCHANGED <<pool, applied, handed>>,
         Accounted(r)'
  PROVE  Authored' /\ \A q \in Requests : Accounted(q)'
<1>1. \A q \in Requests : req'[q] = IF q = r THEN p ELSE req[q]
  BY DEF PayInv, TypeInv, RequestsTyped
<1>2. RoutesStay
  BY <1>1 DEF RoutesStay, Started
<1>3. Sends(r) /\ HandsOut(r)
  BY DEF Sends, HandsOut
<1> QED
  BY <1>1, <1>2, <1>3, OthersUnmoved, AuthoredStays

\* An idle request has sent nothing.
LEMMA IdleSentNothing ==
  ASSUME PayInv, NEW r \in Requests, req[r].pc = "idle"
  PROVE  CarriedBy(r) = {}
BY DEF PayInv, Authored, CarriedBy, Started

LEMMA ArrivePays ==
  ASSUME PayInv, NEW r \in Requests, Arrive(r)
  PROVE  Authored' /\ \A q \in Requests : Accounted(q)'
<1>0. req = [q \in Requests |-> req[q]]
  BY DEF PayInv, TypeInv, RequestsTyped
<1>1. ASSUME NEW h \in Holders, ArriveAuthorize(r, h) \/ ArriveRequest(r, h)
      PROVE  Authored' /\ \A q \in Requests : Accounted(q)'
  <2>1. ASSUME NEW p, req' = [req EXCEPT ![r] = p],
               p.pc \in {"joined", "view"}, p.route \in {"authorize", "request"}
        PROVE  Authored' /\ \A q \in Requests : Accounted(q)'
    <3>1. req'[r] = p
      BY <1>0, <2>1
    <3>2. ~Holds(r)' /\ ~Paid(r)' /\ ~IsPayment(r)'
      BY <2>1, <3>1 DEF Holds, Paid, IsPayment
    <3>3. Accounted(r)'
      BY <3>2 DEF Accounted, OwnTx, OneTx, Made
    <3> QED
      BY <1>1, <2>1, <3>3, StartPays DEF ArriveAuthorize, ArriveRequest, network
  <2>2. CASE ArriveRequest(r, h)
    BY <2>1, <2>2 DEF ArriveRequest
  <2>3. CASE ArriveAuthorize(r, h) /\ Join(h)
    <3>1. req' = [req EXCEPT ![r] = [pc |-> "joined", route |-> "authorize",
                                     holder |-> h, leader |-> inflight[h]]]
      BY <2>3 DEF ArriveAuthorize
    <3> QED
      BY <2>1, <3>1
  <2>4. CASE ArriveAuthorize(r, h) /\ ~Join(h)
    <3>1. req' = [req EXCEPT ![r] = [pc |-> "view", route |-> "authorize", holder |-> h]]
      BY <2>4 DEF ArriveAuthorize
    <3> QED
      BY <2>1, <3>1
  <2> QED
    BY <1>1, <2>2, <2>3, <2>4
<1>2. ASSUME NEW e \in handed, ArriveCallback(r, e)
      PROVE  Authored' /\ \A q \in Requests : Accounted(q)'
  <2> DEFINE p == [pc |-> "view", route |-> "callback", holder |-> e.holder, tx |-> e]
  <2>1. /\ req' = [req EXCEPT ![r] = p] /\ req[r].pc = "idle" /\ UNCHANGED <<pool, applied, handed>>
    BY <1>2 DEF ArriveCallback, network
  <2>2. \A q \in Requests : req'[q] = IF q = r THEN p ELSE req[q]
    BY <1>0, <2>1
  <2>3. e.by \in Requests /\ Started(e.by) /\ ~IsPayment(e.by) /\ e.by # r
    BY <2>1 DEF PayInv, Authored, Started
  <2>4. Started(e.by)' /\ ~IsPayment(e.by)'
    BY <2>2, <2>3 DEF Started, IsPayment
  <2>5. OwnTx(r)'
    BY <2>2, <2>3, <2>4 DEF OwnTx, IsPayment
  <2>6. OneTx(r)' /\ Made(r)'
    BY <2>2 DEF OneTx, Made, IsPayment, Paid
  <2> HIDE DEF p
  <2> QED
    BY <2>1, <2>5, <2>6, StartPays DEF Accounted
<1>3. ASSUME NEW h \in Holders, ArriveClaimable(r, h)
      PROVE  Authored' /\ \A q \in Requests : Accounted(q)'
  <2> DEFINE p == [pc |-> "build", route |-> "claimable", holder |-> h, next |-> "claimable"]
  <2>1. /\ req' = [req EXCEPT ![r] = p] /\ req[r].pc = "idle" /\ UNCHANGED <<pool, applied, handed>>
    BY <1>3 DEF ArriveClaimable, network
  <2>2. req'[r] = p
    BY <1>0, <2>1
  <2>3. CarriedBy(r)' = {} /\ Single(r)'
    BY <2>1, IdleSentNothing DEF CarriedBy, Carried, Single
  <2>4. Accounted(r)'
    BY <2>2, <2>3 DEF Accounted, OwnTx, OneTx, Made, Holds, Paid
  <2> HIDE DEF p
  <2> QED
    BY <2>1, <2>4, StartPays
<1> QED
  BY <1>1, <1>2, <1>3 DEF Arrive

LEMMA ViewPays ==
  ASSUME PayInv, NEW r \in Requests, View(r) \/ ViewFails(r)
  PROVE  Authored' /\ \A q \in Requests : Accounted(q)'
<1>1. /\ req[r].pc = "view" /\ Working(r) /\ ~IsPayment(r) /\ Sends(r) /\ HandsOut(r)
      /\ req[r].route \in {"authorize", "request", "callback"}
      /\ UNCHANGED <<pool, applied, handed>>
  BY DEF View, ViewFails, network, Working, Active, IsPayment, Sends, HandsOut, PayInv, WorkInv,
         RequestsOK, Routes
<1>2. CASE Finish(r, "already") \/ Finish(r, "internal")
  BY <1>1, <1>2, EndPays
<1>3. ASSUME NEW p, req' = [req EXCEPT ![r] = p], p.route = req[r].route,
             \/ p.pc = "build"
             \/ p.pc = "send" /\ req[r].route = "callback" /\ p.tx = req[r].tx
      PROVE  Authored' /\ \A q \in Requests : Accounted(q)'
  <2>1. \A q \in Requests : req'[q] = IF q = r THEN p ELSE req[q]
    BY <1>3 DEF PayInv, TypeInv, RequestsTyped
  <2>2. RoutesStay
    BY <1>1, <1>3, <2>1 DEF RoutesStay, Started
  <2>3. ~IsPayment(r)' /\ ~Paid(r)'
    BY <1>1, <1>3, <2>1 DEF IsPayment, Started, Paid
  <2>4. OwnTx(r)'
    <3>1. CASE p.pc = "build"
      BY <2>1, <3>1 DEF OwnTx, Holds
    <3>2. CASE p.pc = "send" /\ req[r].route = "callback" /\ p.tx = req[r].tx
      <4>1. Holds(r) /\ OwnTx(r)
        BY <1>1, <3>2 DEF PayInv, Accounted, Holds
      <4>2. req'[r].tx.by = req[r].tx.by
        BY <2>1, <3>2
      <4> QED
        BY <2>2, <2>3, <4>1, <4>2, PaymentsStay DEF OwnTx
    <3> QED
      BY <1>3, <3>1, <3>2
  <2>5. Accounted(r)'
    BY <2>3, <2>4 DEF Accounted, OneTx, Made
  <2> QED
    BY <1>1, <1>3, <2>5, MovePays
<1>4. CASE View(r) /\ ~Finish(r, "already")
  <2>1. PICK l : req' = [req EXCEPT ![r] =
                  CASE req[r].route = "authorize" ->
                         [pc |-> "build", route |-> req[r].route, holder |-> req[r].holder,
                          next |-> "authorize"]
                    [] req[r].route = "request" ->
                         [pc |-> "build", route |-> req[r].route, holder |-> req[r].holder,
                          next |-> DiagnoseCase(req[r].holder, l),
                          create |-> acct[req[r].holder] = "none"]
                    [] req[r].route = "callback" -> Sending(req[r], req[r].tx)]
    BY <1>4 DEF View
  <2>2. CASE req[r].route = "authorize"
    BY <1>3, <2>1, <2>2
  <2>3. CASE req[r].route = "request"
    <3> DEFINE p == [pc |-> "build", route |-> req[r].route, holder |-> req[r].holder,
                     next |-> DiagnoseCase(req[r].holder, l), create |-> acct[req[r].holder] = "none"]
    <3>1. req' = [req EXCEPT ![r] = p]
      BY <2>1, <2>3
    <3>2. p.pc = "build" /\ p.route = req[r].route
      OBVIOUS
    <3> HIDE DEF p
    <3> QED
      BY <1>3, <3>1, <3>2
  <2>4. CASE req[r].route = "callback"
    BY <1>3, <2>1, <2>4 DEF Sending
  <2> QED
    BY <1>1, <2>2, <2>3, <2>4
<1> QED
  BY <1>2, <1>4 DEF ViewFails

\* A request holds a transaction it has just built.
LEMMA BuiltPays ==
  ASSUME PayInv, NEW r \in Requests, req[r].pc = "build", NEW t, t.by = r,
         req' = [req EXCEPT ![r] = Sending(req[r], t)], UNCHANGED <<pool, applied, handed>>
  PROVE  Authored' /\ \A q \in Requests : Accounted(q)'
<1>1. req'[r] = Sending(req[r], t)
  BY DEF PayInv, TypeInv, RequestsTyped
<1>2. /\ req'[r].pc = "send" /\ req'[r].tx = t /\ req'[r].route = req[r].route
      /\ Working(r) /\ Started(r)
  BY <1>1 DEF Sending, Working, Active, Started
<1>3. (IsPayment(r)' <=> IsPayment(r)) /\ Started(r)' /\ ~Paid(r)' /\ CarriedBy(r)' = CarriedBy(r)
  BY <1>2 DEF IsPayment, Started, Paid, CarriedBy, Carried
<1>4. OneTx(r)
  BY DEF PayInv, Accounted
<1>5. OwnTx(r)' /\ OneTx(r)' /\ Made(r)'
  <2>1. Single(r)' <=> Single(r)
    BY <1>3 DEF Single
  <2> QED
    BY <1>2, <1>3, <1>4, <2>1 DEF OwnTx, OneTx, Made
<1>6. Sends(r) /\ HandsOut(r) /\ Accounted(r)'
  BY <1>5 DEF Sends, HandsOut, Accounted
<1>7. Sending(req[r], t).pc # "idle" /\ Sending(req[r], t).route = req[r].route
  BY DEF Sending
<1> QED
  BY <1>2, <1>6, <1>7, MovePays

LEMMA BuildPays ==
  ASSUME PayInv, NEW r \in Requests,
         \/ BuildAuthorize(r) \/ BuildClaimable(r) \/ BuildSponsored(r)
         \/ BuildOnboard(r) \/ BuildFails(r)
  PROVE  Authored' /\ \A q \in Requests : Accounted(q)'
<1>1. req[r].pc = "build" /\ Working(r) /\ Started(r) /\ UNCHANGED <<pool, applied>>
  BY DEF BuildAuthorize, BuildClaimable, BuildSponsored, BuildOnboard, BuildFails, Working, Active,
         Started, network
<1>2. Sends(r)
  BY <1>1 DEF Sends
<1>3. IsPayment(r) => req[r].next = "claimable"
  BY <1>1 DEF PayInv, Accounted, OneTx
<1>4. CASE BuildAuthorize(r)
  <2> DEFINE t == Tx("authorize", req[r].holder, Relayer, r, FALSE)
  <2>1. handed' = handed /\ HandsOut(r)
    BY <1>4 DEF BuildAuthorize, HandsOut
  <2>2. CASE req' = [req EXCEPT ![r] = Sending(req[r], t)]
    <3>1. t.by = r
      BY DEF Tx
    <3> HIDE DEF t
    <3> QED
      BY <1>1, <2>1, <2>2, <3>1, BuiltPays
  <2>3. CASE Finish(r, ExplainChainError(AuthorizerCode(req[r].holder)))
    BY <1>1, <1>2, <2>1, <2>3, EndPays, ExplainedIsAnswer
  <2> QED
    BY <1>4, <2>2, <2>3 DEF BuildAuthorize
<1>5. CASE BuildClaimable(r)
  <2> DEFINE t == Tx("claimable", req[r].holder, Relayer, r, FALSE)
  <2>1. t.by = r
    BY DEF Tx
  <2>2. req' = [req EXCEPT ![r] = Sending(req[r], t)] /\ handed' = handed
    BY <1>5 DEF BuildClaimable
  <2> HIDE DEF t
  <2> QED
    BY <1>1, <2>1, <2>2, BuiltPays
<1>6. CASE BuildSponsored(r)
  <2> DEFINE t == Tx("sponsored", req[r].holder, Relayer, r, req[r].create)
  <2>1. handed' = handed \cup {t} /\ Finish(r, "handed") /\ ~IsPayment(r)
    BY <1>3, <1>6 DEF BuildSponsored
  <2>2. t.by = r
    BY DEF Tx
  <2> HIDE DEF t
  <2>3. HandsOut(r)
    BY <1>1, <2>1, <2>2 DEF HandsOut
  <2> QED
    BY <1>1, <1>2, <2>1, <2>3, EndPays
<1>7. CASE BuildOnboard(r)
  <2> DEFINE t == Tx("onboard", req[r].holder,
                     IF req[r].holder \in Contracts THEN Relayer ELSE req[r].holder, r, FALSE)
  <2>1. /\ ~IsPayment(r)
        /\ \/ handed' = handed \cup {t} /\ Finish(r, "handed")
           \/ handed' = handed /\ Finish(r, ExplainChainError(RouterCode.AuthorizationRefused))
    BY <1>3, <1>7 DEF BuildOnboard
  <2>2. t.by = r
    BY DEF Tx
  <2> HIDE DEF t
  <2>3. HandsOut(r)
    BY <1>1, <2>1, <2>2 DEF HandsOut
  <2> QED
    BY <1>1, <1>2, <2>1, <2>3, EndPays, ExplainedIsAnswer
<1>8. CASE BuildFails(r)
  BY <1>1, <1>2, <1>8, EndPays DEF BuildFails, HandsOut
<1> QED
  BY <1>4, <1>5, <1>6, <1>7, <1>8

\* A payment that is confirmed: nobody waits on its request.
LEMMA ReportPays ==
  ASSUME PayInv, NEW r \in Requests, IsPayment(r), req[r].pc = "poll", Finish(r, "paid"),
         [tx |-> req[r].tx, ok |-> TRUE] \in applied, UNCHANGED <<pool, applied, handed>>
  PROVE  Authored' /\ \A q \in Requests : Accounted(q)'
<1>1. \A q \in Requests : ~(req[q].pc = "joined" /\ req[q].leader = r)
  BY DEF PayInv, WorkInv, OneAuthorizeAtWork, AtWork, IsPayment
<1>2. \A q \in Requests :
        req'[q] = IF q = r THEN Done(req[r].route, req[r].holder, "paid") ELSE req[q]
  BY <1>1 DEF Finish, Answered
<1>3. RoutesStay /\ Sends(r) /\ HandsOut(r)
  BY <1>2 DEF RoutesStay, Started, Done, Sends, HandsOut
<1>4. OwnTx(r) /\ OneTx(r) /\ Holds(r)
  BY DEF PayInv, Accounted, Holds
<1>5. req[r].tx.by = r /\ CarriedBy(r) \subseteq {req[r].tx}
  BY <1>4 DEF OwnTx, OneTx
<1>6. CarriedBy(r)' = CarriedBy(r) /\ IsPayment(r)' /\ ~Holds(r)' /\ req'[r].pc = "done"
  BY <1>2 DEF CarriedBy, Carried, IsPayment, Started, Holds, Done
<1>7. OwnTx(r)' /\ OneTx(r)' /\ Made(r)'
  <2>1. Single(r)'
    BY <1>5, <1>6 DEF Single
  <2> QED
    BY <1>5, <1>6, <2>1 DEF OwnTx, OneTx, Made
<1>8. Accounted(r)'
  BY <1>7 DEF Accounted
<1> QED
  BY <1>2, <1>3, <1>8, OthersUnmoved, AuthoredStays

LEMMA SubmitPays ==
  ASSUME PayInv, NEW r \in Requests,
         Send(r) \/ SendThrows(r) \/ Confirmed(r) \/ Unconfirmed(r)
  PROVE  Authored' /\ \A q \in Requests : Accounted(q)'
<1>1. Working(r) /\ Started(r) /\ Holds(r) /\ UNCHANGED <<applied, handed>>
  BY DEF Send, SendThrows, Confirmed, Unconfirmed, Working, Active, Started, Holds, network
<1>2. HandsOut(r) /\ OwnTx(r) /\ OneTx(r)
  BY <1>1 DEF HandsOut, PayInv, Accounted
<1>3. \A t \in Admitted(req[r].tx) : t \in pool \/ t = req[r].tx
  BY DEF Admitted
<1>4. CASE Send(r)
  <2>1. CASE BadSeq(req[r].tx)
    BY <1>1, <1>2, <1>4, <2>1, EndPays DEF Send, Sends
  <2>2. CASE ~BadSeq(req[r].tx)
    <3>1. /\ req[r].pc = "send" /\ pool' = Admitted(req[r].tx)
          /\ req' = [req EXCEPT ![r] = Polling(req[r])]
      BY <1>4, <2>2 DEF Send
    <3>2. Sends(r)
      BY <1>1, <1>3, <3>1 DEF Sends
    <3>3. req'[r] = Polling(req[r])
      BY <3>1 DEF PayInv, TypeInv, RequestsTyped
    <3>4. \A q \in Requests : q # r => req'[q] = req[q]
      BY <3>1 DEF PayInv, TypeInv, RequestsTyped
    <3>5. RoutesStay /\ (IsPayment(r)' <=> IsPayment(r)) /\ Holds(r)' /\ ~Paid(r)'
      BY <1>1, <3>3, <3>4 DEF RoutesStay, IsPayment, Started, Holds, Paid, Polling
    <3>6. req'[r].tx = req[r].tx /\ req'[r].pc = "poll"
      BY <3>3 DEF Polling
    <3>7. IsPayment(r) => CarriedBy(r)' \subseteq {req[r].tx}
      BY <1>2, <3>1, <3>2 DEF OneTx, CarriedBy, Carried, Sends
    <3>8. OwnTx(r)' /\ OneTx(r)' /\ Made(r)'
      <4>1. OwnTx(r)'
        BY <1>1, <1>2, <3>5, <3>6, PaymentsStay DEF OwnTx
      <4>2. OneTx(r)' /\ Made(r)'
        BY <3>5, <3>6, <3>7 DEF OneTx, Made, Single
      <4> QED
        BY <4>1, <4>2
    <3>9. Accounted(r)' /\ Polling(req[r]).pc # "idle" /\ Polling(req[r]).route = req[r].route
      BY <3>8 DEF Accounted, Polling
    <3> QED
      BY <1>1, <1>2, <3>1, <3>2, <3>9, MovePays
  <2> QED
    BY <2>1, <2>2
<1>5. CASE SendThrows(r)
  <2>1. Sends(r)
    BY <1>1, <1>3, <1>5 DEF SendThrows, Sends
  <2> QED
    BY <1>1, <1>2, <1>5, <2>1, EndPays DEF SendThrows
<1>6. CASE Confirmed(r)
  <2>1. UNCHANGED pool /\ Sends(r) /\ req[r].pc = "poll" /\ [tx |-> req[r].tx, ok |-> TRUE] \in applied
    BY <1>1, <1>6 DEF Confirmed, Sends, network
  <2>2. CASE AuthorizeFollows(req[r])
    <3> DEFINE p == [pc |-> "build", route |-> "callback", holder |-> req[r].holder, next |-> "authorize"]
    <3>1. req' = [req EXCEPT ![r] = p] /\ req[r].route = "callback"
      BY <1>6, <2>2 DEF Confirmed, AuthorizeFollows
    <3>2. req'[r] = p
      BY <3>1 DEF PayInv, TypeInv, RequestsTyped
    <3>3. ~Holds(r)' /\ ~Paid(r)' /\ ~IsPayment(r)'
      BY <3>2 DEF Holds, Paid, IsPayment
    <3>4. Accounted(r)' /\ p.pc # "idle" /\ p.route = req[r].route
      BY <3>1, <3>3 DEF Accounted, OwnTx, OneTx, Made
    <3> HIDE DEF p
    <3> QED
      BY <1>1, <1>2, <2>1, <3>1, <3>4, MovePays
  <2>3. CASE ~AuthorizeFollows(req[r]) /\ req[r].route = "claimable"
    BY <1>1, <1>6, <2>1, <2>3, ReportPays DEF Confirmed, IsPayment
  <2>4. CASE ~AuthorizeFollows(req[r]) /\ req[r].route # "claimable"
    BY <1>1, <1>2, <1>6, <2>1, <2>4, EndPays DEF Confirmed
  <2> QED
    BY <2>2, <2>3, <2>4
<1>7. CASE Unconfirmed(r)
  <2>1. Sends(r) /\ Finish(r, NotConfirmed(req[r])) /\ NotConfirmed(req[r]) # "paid"
    BY <1>1, <1>7, ExplainedIsAnswer DEF Unconfirmed, Sends, network, NotConfirmed
  <2> QED
    BY <1>1, <1>2, <2>1, EndPays
<1> QED
  BY <1>4, <1>5, <1>6, <1>7

LEMMA CrashPays == ASSUME PayInv, Crash PROVE Authored' /\ \A q \in Requests : Accounted(q)'
<1>1. /\ req' = [r \in Requests |->
                   IF Active(r) THEN Done(req[r].route, req[r].holder, "lost") ELSE req[r]]
      /\ UNCHANGED <<pool, applied, handed>>
  BY DEF Crash, network
<1>2. RoutesStay /\ \A q \in Requests : NothingOf(q)
  BY <1>1 DEF RoutesStay, Started, Done, NothingOf, CarriedBy, Carried
<1>3. Authored'
  BY <1>1, <1>2, PaymentsStay DEF PayInv, Authored, Carried
<1>4. ASSUME NEW q \in Requests PROVE Accounted(q)'
  <2>1. CASE Active(q)
    <3>1. req'[q] = Done(req[q].route, req[q].holder, "lost")
      BY <1>1, <2>1
    <3>2. Started(q) /\ OneTx(q)
      BY <2>1 DEF PayInv, Accounted, Started, Active
    <3>3. (IsPayment(q)' <=> IsPayment(q)) /\ (Single(q)' <=> Single(q))
      BY <1>1, <1>2, <3>2, PaymentsStay DEF Single, CarriedBy, Carried
    <3> QED
      BY <3>1, <3>2, <3>3 DEF Done, Accounted, OwnTx, OneTx, Made, Holds, Paid
  <2>2. CASE ~Active(q)
    BY <1>1, <1>2, <2>2, Unmoved
  <2> QED
    BY <2>1, <2>2
<1> QED
  BY <1>3, <1>4

LEMMA EnvironmentPays ==
  ASSUME PayInv, Environment
  PROVE  Authored' /\ \A q \in Requests : Accounted(q)'
<1>1. ASSUME NEW t \in pool, Apply(t) PROVE Authored' /\ \A q \in Requests : Accounted(q)'
  <2>1. \E ok : applied' = applied \cup {[tx |-> t, ok |-> ok]}
    BY <1>1, ApplyHasEffect DEF Effect, PayInv
  <2>2. pool' = pool \ {t} /\ UNCHANGED <<req, handed>>
    BY <1>1 DEF Apply, relayerVars
  <2>3. Carried' \subseteq Carried /\ applied \subseteq applied'
    BY <2>1, <2>2 DEF Carried
  <2> QED
    BY <2>2, <2>3, NothingSent
<1>2. ASSUME NEW t \in pool, Drop(t) PROVE Authored' /\ \A q \in Requests : Accounted(q)'
  BY <1>2, NothingSent DEF Drop, relayerVars, Carried
<1>3. ASSUME NEW h \in Holders, IssuerFreezes(h) \/ IssuerUnfreezes(h) \/ HolderMoves(h)
      PROVE  Authored' /\ \A q \in Requests : Accounted(q)'
  BY <1>3, NothingSent DEF IssuerFreezes, IssuerUnfreezes, HolderMoves, relayerVars, network, Carried
<1> QED
  BY <1>1, <1>2, <1>3, CrashPays DEF Environment

LEMMA PayStep == PayInv /\ [Next]_vars => PayInv'
<1> SUFFICES ASSUME PayInv, [Next]_vars PROVE PayInv'
  OBVIOUS
<1>1. TypeInv' /\ WorkInv'
  BY TypeStep, WorkStep DEF PayInv
<1>2. Authored' /\ \A q \in Requests : Accounted(q)'
  <2>1. ASSUME NEW r \in Requests, Arrive(r) \/ Step(r)
        PROVE  Authored' /\ \A q \in Requests : Accounted(q)'
    BY <2>1, ArrivePays, ViewPays, BuildPays, SubmitPays DEF Step
  <2>2. CASE UNCHANGED vars
    BY <2>2, NothingSent DEF vars, relayerVars, network, Carried
  <2> QED
    BY <2>1, <2>2, EnvironmentPays DEF Next
<1> QED
  BY <1>1, <1>2 DEF PayInv

LEMMA InitPays == Init => PayInv
<1> SUFFICES ASSUME Init PROVE PayInv
  OBVIOUS
<1>1. TypeInv /\ WorkInv
  BY InitTyped, InitWork
<1>2. Authored
  BY DEF Init, Authored, Carried
<1>3. \A r \in Requests : req[r].pc = "idle"
  BY DEF Init, Idle
<1>4. \A r \in Requests : Accounted(r)
  BY <1>3 DEF Accounted, OwnTx, OneTx, Made, Holds, IsPayment, Started, Paid
<1> QED
  BY <1>1, <1>2, <1>4 DEF PayInv

\* One transaction has paid each order that is reported paid.
PaidIsPaid ==
  \A r \in Requests :
    req[r].pc = "done" /\ req[r].answer = "paid"
      => Cardinality({x \in applied : x.tx.by = r /\ x.ok}) = 1

\* A client of /v1/claimable/send that gets a balance id has been paid, once
\* (Confirmed, on the transaction its own request built).
THEOREM PaymentsAreMadeOnce == Spec => []PaidIsPaid
<1>1. PayInv => PaidIsPaid
  <2> SUFFICES ASSUME PayInv, NEW r \in Requests, Paid(r)
               PROVE  Cardinality({x \in applied : x.tx.by = r /\ x.ok}) = 1
    BY DEF PaidIsPaid, Paid
  <2>1. PICK t : t.by = r /\ CarriedBy(r) \subseteq {t} /\ [tx |-> t, ok |-> TRUE] \in applied
    BY DEF PayInv, Accounted, Made
  <2>2. \A x \in applied : x \in [tx : Transactions, ok : BOOLEAN]
    BY DEF PayInv, TypeInv, NetworkTyped
  <2>3. \A x \in applied : x.tx.by = r => x.tx = t
    BY <2>1 DEF CarriedBy, Carried
  <2>4. {x \in applied : x.tx.by = r /\ x.ok} = {[tx |-> t, ok |-> TRUE]}
    <3>1. ASSUME NEW x \in applied, x.tx.by = r, x.ok PROVE x = [tx |-> t, ok |-> TRUE]
      <4>1. x = [tx |-> x.tx, ok |-> x.ok] /\ x.ok \in BOOLEAN /\ x.tx = t
        BY <2>2, <2>3, <3>1
      <4>2. x.ok = TRUE
        BY <3>1, <4>1
      <4> QED
        BY <4>1, <4>2
    <3> DEFINE x1 == [tx |-> t, ok |-> TRUE]
    <3>2. x1 \in applied /\ x1.tx.by = r /\ x1.ok
      BY <2>1
    <3> HIDE DEF x1
    <3>3. {x \in applied : x.tx.by = r /\ x.ok} = {x1}
      BY <3>1, <3>2 DEF x1
    <3> QED
      BY <3>3 DEF x1
  <2> QED
    BY <2>4, FS_Singleton
<1> QED
  BY <1>1, InitPays, PayStep, PTL DEF Spec

\* The network never carries two transactions of one payment.
OneTransactionEach ==
  \A r \in Requests : IsPayment(r) => \A t, u \in Carried : t.by = r /\ u.by = r => t = u

\* One call of /v1/claimable/send sends one transaction at most, however it is
\* answered and whether or not the relayer restarts (submit sends once and
\* polls).  So a payment is made twice only by a client that calls again, which
\* is what relayer_retry shows.
THEOREM PaymentsAreSentOnce == Spec => []OneTransactionEach
<1>1. PayInv => OneTransactionEach
  <2> SUFFICES ASSUME PayInv, NEW r \in Requests, IsPayment(r),
                      NEW t \in Carried, NEW u \in Carried, t.by = r, u.by = r
               PROVE  t = u
    BY DEF OneTransactionEach
  <2>1. PICK v : CarriedBy(r) \subseteq {v}
    BY DEF PayInv, Accounted, OneTx, Single
  <2> QED
    BY <2>1 DEF CarriedBy
<1> QED
  BY <1>1, InitPays, PayStep, PTL DEF Spec
===============================================================================
