-------------------------- MODULE RelayerTruth_proofs --------------------------
(***************************************************************************)
(* Proofs about Relayer: what a client is told of the ledger was true of   *)
(* it at some moment while its request ran, and the calls of claimable/    *)
(* send implement the abstract payments; for any number of requests and    *)
(* holders, and whoever else moves.                                        *)
(***************************************************************************)
EXTENDS Relayer_proofs

-------------------------------------------------------------------------------
(***************************************************************************)
(* The history.                                                            *)
(***************************************************************************)

\* A running request has seen the present; one that waits, what its leader has.
SeenNow(r)    == Active(r) => Facts[req[r].holder] \subseteq seen[r]
SeenShared(q) == req[q].pc = "joined" => seen[q] = seen[req[q].leader]

LEMMA WitnessOf ==
  ASSUME Witness, NEW r \in Requests
  PROVE  /\ req'[r].pc = "joined" => seen'[r] = seen[req'[r].leader] \cup Facts'[req'[r].holder]
         /\ req'[r].pc \notin {"idle", "done", "joined"} => seen'[r] = seen[r] \cup Facts'[req'[r].holder]
<1> DEFINE w(q) == CASE req'[q].pc \in {"idle", "done"} -> {}
                     [] req'[q].pc = "joined" -> seen[req'[q].leader] \cup Facts'[req'[q].holder]
                     [] OTHER                 -> seen[q] \cup Facts'[req'[q].holder]
<1>1. seen'[r] = w(r)
  BY DEF Witness
<1>2. req'[r].pc = "joined" => w(r) = seen[req'[r].leader] \cup Facts'[req'[r].holder]
  BY SMT
<1>3. req'[r].pc \notin {"idle", "done", "joined"} => w(r) = seen[r] \cup Facts'[req'[r].holder]
  BY SMT
<1> QED
  BY <1>1, <1>2, <1>3

\* Every step is witnessed.
LEMMA StepIsWitnessed == Next => Witness
BY DEF Next, Arrive, ArriveAuthorize, ArriveRequest, ArriveCallback, ArriveClaimable,
       Step, View, ViewFails, BuildAuthorize, BuildClaimable, BuildSponsored, BuildOnboard, BuildFails,
       Send, SendThrows, Confirmed, Unconfirmed,
       Environment, Apply, Drop, IssuerFreezes, IssuerUnfreezes, HolderMoves, Crash

LEMMA SeenStays ==
  ASSUME WorkInv', Witness, NEW r \in Requests
  PROVE  SeenNow(r)' /\ SeenShared(r)'
<1>1. SeenNow(r)'
  BY WitnessOf DEF SeenNow, Active
<1>2. ASSUME req'[r].pc = "joined" PROVE seen'[r] = seen'[req'[r].leader]
  <2> DEFINE p == req'[r].leader
  <2>1. p \in Requests /\ req'[p].pc \notin {"idle", "done", "joined"} /\ req'[p].holder = req'[r].holder
    BY <1>2, WorkIsSharedNext DEF Follows, AtWork, Active
  <2> HIDE DEF p
  <2>2. seen'[p] = seen[p] \cup Facts'[req'[p].holder]
    BY <2>1, WitnessOf
  <2>3. seen'[r] = seen[p] \cup Facts'[req'[r].holder]
    BY <1>2, WitnessOf DEF p
  <2> QED
    BY <2>1, <2>2, <2>3 DEF p
<1> QED
  BY <1>1, <1>2 DEF SeenShared

-------------------------------------------------------------------------------
(***************************************************************************)
(* What a request has in hand.                                             *)
(***************************************************************************)

\* A transaction of its own holder, of a kind its route ends well with.
Suits(route, h, t) ==
  /\ t.holder = h
  /\ route = "claimable" <=> t.kind = "claimable"
  /\ t.kind = "sponsored" => route = "callback"

InHand(r) ==
  /\ req[r].pc \in {"send", "poll"} \/ (req[r].pc = "view" /\ req[r].route = "callback")
       => Suits(req[r].route, req[r].holder, req[r].tx)
  /\ req[r].pc = "build" =>
       /\ req[r].next \in {"onboard", "sponsored"} => req[r].route = "request"
       /\ req[r].next = "claimable" <=> req[r].route = "claimable"

\* Envelopes are the two kinds that wallets sign, for whom they were built.
HandedOK == \A t \in handed : t.kind \in {"sponsored", "onboard"}

HandInv == TypeInv /\ HandedOK /\ \A r \in Requests : InHand(r)

LEMMA HandMoves ==
  ASSUME HandInv, NEW r \in Requests, NEW p, req' = [req EXCEPT ![r] = p], HandedOK',
         p.pc \in {"send", "poll"} \/ (p.pc = "view" /\ p.route = "callback")
           => Suits(p.route, p.holder, p.tx),
         p.pc = "build" =>
           /\ p.next \in {"onboard", "sponsored"} => p.route = "request"
           /\ p.next = "claimable" <=> p.route = "claimable"
  PROVE  HandedOK' /\ \A q \in Requests : InHand(q)'
<1>1. \A q \in Requests : req'[q] = IF q = r THEN p ELSE req[q]
  BY DEF HandInv, TypeInv, RequestsTyped
<1> QED
  BY <1>1 DEF HandInv, InHand

LEMMA HandEnds ==
  ASSUME HandInv, HandedOK', \A q \in Requests : req'[q] = req[q] \/ req'[q].pc = "done"
  PROVE  HandedOK' /\ \A q \in Requests : InHand(q)'
BY DEF HandInv, InHand

LEMMA FinishEnds ==
  ASSUME NEW r \in Requests, NEW a, Finish(r, a)
  PROVE  \A q \in Requests : req'[q] = req[q] \/ req'[q].pc = "done"
BY DEF Finish, Answered, Done

LEMMA HandArrives ==
  ASSUME HandInv, NEW r \in Requests, Arrive(r)
  PROVE  HandedOK' /\ \A q \in Requests : InHand(q)'
<1>0. HandedOK'
  BY DEF HandInv, HandedOK, Arrive, ArriveAuthorize, ArriveRequest, ArriveCallback, ArriveClaimable
<1>1. ASSUME NEW h \in Holders, ArriveAuthorize(r, h) PROVE \A q \in Requests : InHand(q)'
  <2>1. CASE Join(h)
    <3>1. req' = [req EXCEPT ![r] = [pc |-> "joined", route |-> "authorize",
                                     holder |-> h, leader |-> inflight[h]]]
      BY <1>1, <2>1 DEF ArriveAuthorize
    <3> QED
      BY <1>0, <3>1, HandMoves
  <2>2. CASE ~Join(h)
    <3>1. req' = [req EXCEPT ![r] = [pc |-> "view", route |-> "authorize", holder |-> h]]
      BY <1>1, <2>2 DEF ArriveAuthorize
    <3> QED
      BY <1>0, <3>1, HandMoves
  <2> QED
    BY <2>1, <2>2
<1>2. ASSUME NEW h \in Holders, ArriveRequest(r, h) PROVE \A q \in Requests : InHand(q)'
  BY <1>0, <1>2, HandMoves DEF ArriveRequest
<1>3. ASSUME NEW h \in Holders, ArriveClaimable(r, h) PROVE \A q \in Requests : InHand(q)'
  BY <1>0, <1>3, HandMoves DEF ArriveClaimable
<1>4. ASSUME NEW e \in handed, ArriveCallback(r, e) PROVE \A q \in Requests : InHand(q)'
  <2>1. Suits("callback", e.holder, e)
    BY DEF Suits, HandInv, HandedOK
  <2> DEFINE p == [pc |-> "view", route |-> "callback", holder |-> e.holder, tx |-> e]
  <2>2. req' = [req EXCEPT ![r] = p] /\ p.pc = "view" /\ Suits(p.route, p.holder, p.tx)
    BY <1>4, <2>1 DEF ArriveCallback
  <2> HIDE DEF p
  <2> QED
    BY <1>0, <2>2, HandMoves
<1> QED
  BY <1>0, <1>1, <1>2, <1>3, <1>4 DEF Arrive

LEMMA HandViews ==
  ASSUME HandInv, NEW r \in Requests, View(r)
  PROVE  HandedOK' /\ \A q \in Requests : InHand(q)'
<1> DEFINE h == req[r].holder
<1>0. HandedOK'
  BY DEF HandInv, HandedOK, View
<1>1. /\ req[r].pc = "view" /\ h \in Holders
      /\ req[r].route \in {"authorize", "request", "callback"}
  BY DEF View, HandInv, TypeInv, RequestsTyped, Typed, Routes
<1>2. CASE Finish(r, "already")
  BY <1>0, <1>2, FinishEnds, HandEnds
<1>3. ASSUME NEW l, req' = [req EXCEPT ![r] =
                  CASE req[r].route = "authorize" ->
                         [pc |-> "build", route |-> req[r].route, holder |-> h, next |-> "authorize"]
                    [] req[r].route = "request" ->
                         [pc |-> "build", route |-> req[r].route, holder |-> h,
                          next |-> DiagnoseCase(h, l), create |-> acct[h] = "none"]
                    [] req[r].route = "callback" -> Sending(req[r], req[r].tx)]
      PROVE  \A q \in Requests : InHand(q)'
  <2>1. CASE req[r].route = "authorize"
    <3>1. req' = [req EXCEPT ![r] =
                    [pc |-> "build", route |-> req[r].route, holder |-> h, next |-> "authorize"]]
      BY <1>3, <2>1
    <3> QED
      BY <1>0, <2>1, <3>1, HandMoves
  <2>2. CASE req[r].route = "request"
    <3> DEFINE p == [pc |-> "build", route |-> req[r].route, holder |-> h,
                     next |-> DiagnoseCase(h, l), create |-> acct[h] = "none"]
    <3>1. req' = [req EXCEPT ![r] = p]
      BY <1>3, <2>2
    <3>2. p.pc = "build" /\ p.route = "request" /\ p.next # "claimable"
      BY <1>1, <2>2, DiagnosedIsKind
    <3> HIDE DEF p
    <3> QED
      BY <1>0, <3>1, <3>2, HandMoves
  <2>3. CASE req[r].route = "callback"
    <3> DEFINE p == Sending(req[r], req[r].tx)
    <3>1. req' = [req EXCEPT ![r] = p]
      BY <1>3, <2>3
    <3>2. p.pc = "send" /\ Suits(p.route, p.holder, p.tx)
      BY <1>1, <2>3 DEF HandInv, InHand, Sending
    <3> HIDE DEF p
    <3> QED
      BY <1>0, <3>1, <3>2, HandMoves
  <2> QED
    BY <1>1, <2>1, <2>2, <2>3
<1> QED
  BY <1>0, <1>2, <1>3 DEF View

\* What a view does to requests, when it does not end one.
LEMMA ViewMovesOn ==
  ASSUME HandInv, NEW r \in Requests, View(r), ~Finish(r, "already")
  PROVE  \A q \in Requests : req'[q] = req[q] \/ req'[q].pc \in {"build", "send"}
<1>1. req[r].route \in {"authorize", "request", "callback"}
  BY DEF View, HandInv, TypeInv, RequestsTyped, Typed, Routes
<1>2. ASSUME NEW p, p.pc \in {"build", "send"}, req' = [req EXCEPT ![r] = p]
      PROVE  \A q \in Requests : req'[q] = req[q] \/ req'[q].pc \in {"build", "send"}
  BY <1>2 DEF HandInv, TypeInv, RequestsTyped
<1>3. PICK l : req' = [req EXCEPT ![r] =
                CASE req[r].route = "authorize" ->
                       [pc |-> "build", route |-> req[r].route, holder |-> req[r].holder,
                        next |-> "authorize"]
                  [] req[r].route = "request" ->
                       [pc |-> "build", route |-> req[r].route, holder |-> req[r].holder,
                        next |-> DiagnoseCase(req[r].holder, l),
                        create |-> acct[req[r].holder] = "none"]
                  [] req[r].route = "callback" -> Sending(req[r], req[r].tx)]
  BY DEF View
<1>4. CASE req[r].route = "authorize"
  BY <1>2, <1>3, <1>4
<1>5. CASE req[r].route = "request"
  <2> DEFINE p == [pc |-> "build", route |-> req[r].route, holder |-> req[r].holder,
                   next |-> DiagnoseCase(req[r].holder, l), create |-> acct[req[r].holder] = "none"]
  <2>1. req' = [req EXCEPT ![r] = p]
    BY <1>3, <1>5
  <2>2. p.pc = "build"
    OBVIOUS
  <2> HIDE DEF p
  <2> QED
    BY <1>2, <2>1, <2>2
<1>6. CASE req[r].route = "callback"
  BY <1>2, <1>3, <1>6 DEF Sending
<1> QED
  BY <1>1, <1>4, <1>5, <1>6

LEMMA HandBuilds ==
  ASSUME HandInv, NEW r \in Requests,
         \/ BuildAuthorize(r) \/ BuildClaimable(r) \/ BuildSponsored(r)
         \/ BuildOnboard(r) \/ BuildFails(r)
  PROVE  HandedOK' /\ \A q \in Requests : InHand(q)'
<1> DEFINE h == req[r].holder
<1>1. InHand(r)
  BY DEF HandInv
<1>2. CASE BuildAuthorize(r)
  <2>1. HandedOK'
    BY <1>2 DEF BuildAuthorize, HandInv, HandedOK
  <2>2. CASE Finish(r, ExplainChainError(AuthorizerCode(h)))
    BY <2>1, <2>2, FinishEnds, HandEnds
  <2>3. CASE req' = [req EXCEPT ![r] = Sending(req[r], Tx("authorize", h, Relayer, r, FALSE))]
    <3> DEFINE p == Sending(req[r], Tx("authorize", h, Relayer, r, FALSE))
    <3>1. p.pc = "send" /\ Suits(p.route, p.holder, p.tx)
      BY <1>1, <1>2 DEF Sending, Suits, Tx, BuildAuthorize, InHand
    <3> HIDE DEF p
    <3>2. req' = [req EXCEPT ![r] = p]
      BY <2>3 DEF p
    <3> QED
      BY <2>1, <3>1, <3>2, HandMoves
  <2> QED
    BY <1>2, <2>2, <2>3 DEF BuildAuthorize
<1>3. CASE BuildClaimable(r)
  <2> DEFINE p == Sending(req[r], Tx("claimable", h, Relayer, r, FALSE))
  <2>1. HandedOK' /\ req' = [req EXCEPT ![r] = p] /\ req[r].route = "claimable"
    BY <1>1, <1>3 DEF BuildClaimable, HandInv, HandedOK, InHand
  <2>2. p.pc = "send" /\ Suits(p.route, p.holder, p.tx)
    BY <2>1 DEF Sending, Suits, Tx
  <2> HIDE DEF p
  <2> QED
    BY <2>1, <2>2, HandMoves
<1>4. CASE BuildSponsored(r)
  <2>1. HandedOK'
    BY <1>4 DEF BuildSponsored, HandInv, HandedOK, Tx
  <2> QED
    BY <1>4, <2>1, FinishEnds, HandEnds DEF BuildSponsored
<1>5. CASE BuildOnboard(r)
  <2>1. HandedOK'
    BY <1>5 DEF BuildOnboard, HandInv, HandedOK, Tx
  <2> QED
    BY <1>5, <2>1, FinishEnds, HandEnds DEF BuildOnboard
<1>6. CASE BuildFails(r)
  <2>1. HandedOK'
    BY <1>6 DEF BuildFails, HandInv, HandedOK
  <2> QED
    BY <1>6, <2>1, FinishEnds, HandEnds DEF BuildFails
<1> QED
  BY <1>2, <1>3, <1>4, <1>5, <1>6

LEMMA HandSubmits ==
  ASSUME HandInv, NEW r \in Requests,
         Send(r) \/ SendThrows(r) \/ Confirmed(r) \/ Unconfirmed(r)
  PROVE  HandedOK' /\ \A q \in Requests : InHand(q)'
<1>1. HandedOK' /\ InHand(r)
  BY DEF Send, SendThrows, Confirmed, Unconfirmed, HandInv, HandedOK
<1>2. ASSUME NEW a, Finish(r, a) PROVE \A q \in Requests : InHand(q)'
  BY <1>1, <1>2, FinishEnds, HandEnds
<1>3. CASE Send(r) /\ ~BadSeq(req[r].tx)
  <2> DEFINE p == Polling(req[r])
  <2>1. req' = [req EXCEPT ![r] = p] /\ p.pc = "poll" /\ Suits(p.route, p.holder, p.tx)
    BY <1>1, <1>3 DEF Send, Polling, InHand
  <2> HIDE DEF p
  <2> QED
    BY <1>1, <2>1, HandMoves
<1>4. CASE Confirmed(r) /\ AuthorizeFollows(req[r])
  <2>1. req' = [req EXCEPT ![r] = [pc |-> "build", route |-> "callback",
                                   holder |-> req[r].holder, next |-> "authorize"]]
    BY <1>4 DEF Confirmed
  <2> QED
    BY <1>1, <2>1, HandMoves
<1> QED
  BY <1>1, <1>2, <1>3, <1>4 DEF Send, SendThrows, Confirmed, Unconfirmed

LEMMA HandStep == HandInv /\ [Next]_vars => HandInv'
<1> SUFFICES ASSUME HandInv, [Next]_vars PROVE HandInv'
  OBVIOUS
<1>1. TypeInv'
  BY TypeStep DEF HandInv
<1>2. HandedOK' /\ \A q \in Requests : InHand(q)'
  <2>1. ASSUME NEW r \in Requests, Arrive(r) \/ Step(r)
        PROVE  HandedOK' /\ \A q \in Requests : InHand(q)'
    <3>1. CASE ViewFails(r)
      <4>1. HandedOK'
        BY <3>1 DEF ViewFails, HandInv, HandedOK
      <4> QED
        BY <3>1, <4>1, FinishEnds, HandEnds DEF ViewFails
    <3> QED
      BY <2>1, <3>1, HandArrives, HandViews, HandBuilds, HandSubmits DEF Step
  <2>2. ASSUME UNCHANGED <<req, handed>> PROVE HandedOK' /\ \A q \in Requests : InHand(q)'
    BY <2>2 DEF HandInv, HandedOK, InHand
  <2>3. CASE Crash
    <3>1. HandedOK' /\ \A q \in Requests : req'[q] = req[q] \/ req'[q].pc = "done"
      BY <2>3 DEF Crash, HandInv, HandedOK, Done
    <3> QED
      BY <3>1, HandEnds
  <2> QED
    BY <2>1, <2>2, <2>3 DEF Next, Environment, Apply, Drop, IssuerFreezes, IssuerUnfreezes,
                            HolderMoves, relayerVars, vars
<1> QED
  BY <1>1, <1>2 DEF HandInv

-------------------------------------------------------------------------------
(***************************************************************************)
(* What has been applied.                                                  *)
(***************************************************************************)

\* An applied transaction's sequence number is used up, so nobody can submit it
\* again and wait for it.
Spent == \A x \in applied : x.tx.seq <= seq[x.tx.source]

\* A request that finds its transaction applied was running when it was.
Confirmable(r) ==
  /\ req[r].pc = "poll" /\ req[r].tx.kind \in {"authorize", "onboard"}
  /\ [tx |-> req[r].tx, ok |-> TRUE] \in applied
  => "authorized" \in seen[r]

TruthInv ==
  /\ HandInv /\ WorkInv /\ Spent
  /\ \A r \in Requests : SeenNow(r) /\ SeenShared(r) /\ Confirmable(r)

LEMMA SpentStays ==
  ASSUME TypeInv, Spent, NEW u, UNCHANGED applied,
         \/ UNCHANGED seq
         \/ u \in Sources /\ seq' = [seq EXCEPT ![u] = @ + 1]
  PROVE  Spent'
<1>1. \A x \in applied : x.tx.source \in Sources /\ x.tx.seq \in Nat
  BY DEF TypeInv, NetworkTyped, Transactions
<1>2. seq \in [Sources -> Nat]
  BY DEF TypeInv, NetworkTyped
<1> QED
  BY <1>1, <1>2 DEF Spent

LEMMA ApplySpends ==
  ASSUME TypeInv, Spent, NEW t \in pool, Apply(t)
  PROVE  Spent'
<1>1. /\ t.seq = seq[t.source] + 1 /\ seq' = [seq EXCEPT ![t.source] = t.seq]
      /\ t \in Transactions /\ t.source \in Sources
  BY DEF Apply, TypeInv, NetworkTyped, Transactions
<1>2. PICK ok \in BOOLEAN : applied' = applied \cup {[tx |-> t, ok |-> ok]}
  BY ApplyHasEffect DEF Effect
<1>3. \A x \in applied : x.tx.source \in Sources /\ x.tx.seq \in Nat
  BY DEF TypeInv, NetworkTyped, Transactions
<1>4. seq \in [Sources -> Nat]
  BY DEF TypeInv, NetworkTyped
<1>5. \A x \in applied : x.tx.seq <= seq'[x.tx.source]
  BY <1>1, <1>3, <1>4 DEF Spent
<1>6. t.seq <= seq'[t.source]
  BY <1>1, <1>4
<1> QED
  BY <1>2, <1>5, <1>6 DEF Spent

\* What applying t leaves in the ledger, when it succeeds.
LEMMA ApplySucceeds ==
  ASSUME Governs, TypeInv, NEW t \in pool, Apply(t), t.kind \in {"authorize", "onboard"},
         [tx |-> t, ok |-> TRUE] \in applied', [tx |-> t, ok |-> TRUE] \notin applied
  PROVE  line'[t.holder] = "auth"
<1> DEFINE h == t.holder
<1>1. h \in Holders /\ line \in [Holders -> Lines]
  BY DEF TypeInv, LedgerTyped, NetworkTyped, Transactions
<1>2. ASSUME NEW ok, NEW l, NEW a, Effect(t, ok, l, a) PROVE ok = TRUE /\ line'[h] = l
  <2>1. applied' = applied \cup {[tx |-> t, ok |-> ok]} /\ line' = [line EXCEPT ![h] = l]
    BY <1>2 DEF Effect
  <2>2. [tx |-> t, ok |-> TRUE] = [tx |-> t, ok |-> ok]
    BY <2>1
  <2>3. [tx |-> t, ok |-> TRUE].ok = [tx |-> t, ok |-> ok].ok
    BY <2>2
  <2>4. ok = TRUE
    BY <2>3
  <2> QED
    BY <1>1, <2>1, <2>4
<1>3. CASE t.kind = "authorize"
  <2>1. Effect(t, Verdict(h) = "ok", IF Verdict(h) = "ok" THEN "auth" ELSE line[h], acct[h])
    BY <1>3, ApplyByKind
  <2>2. (Verdict(h) = "ok") = TRUE /\ line'[h] = IF Verdict(h) = "ok" THEN "auth" ELSE line[h]
    BY <1>2, <2>1
  <2> QED
    BY <2>2
<1>4. CASE t.kind = "onboard"
  <2>1. Effect(t, Routed(h) # "refused", IF Routed(h) = "refused" THEN line[h] ELSE Routed(h), acct[h])
    BY <1>4, ApplyByKind
  <2>2. (Routed(h) # "refused") = TRUE /\ line'[h] = IF Routed(h) = "refused" THEN line[h] ELSE Routed(h)
    BY <1>2, <2>1
  <2>3. Routed(h) \in {"auth", "refused"}
    BY <1>1, RoutedIsLine
  <2> QED
    BY <2>2, <2>3
<1> QED
  BY <1>3, <1>4

LEMMA ApplyTells ==
  ASSUME Governs, TruthInv, NEW t \in pool, Apply(t)
  PROVE  Spent' /\ \A r \in Requests : Confirmable(r)'
<1>1. /\ TypeInv /\ Spent /\ UNCHANGED req /\ Witness
      /\ t.seq = seq[t.source] + 1 /\ seq' = [seq EXCEPT ![t.source] = t.seq]
  BY DEF TruthInv, HandInv, Apply, relayerVars
<1>2. t \in Transactions /\ t.source \in Sources /\ t.holder \in Holders
  BY <1>1 DEF TypeInv, NetworkTyped, Transactions
<1>3. PICK ok \in BOOLEAN : applied' = applied \cup {[tx |-> t, ok |-> ok]}
  BY <1>1, ApplyHasEffect DEF Effect
<1>4. Spent'
  BY <1>1, ApplySpends
<1>5. ASSUME NEW r \in Requests PROVE Confirmable(r)'
  <2> SUFFICES ASSUME req[r].pc = "poll", req[r].tx.kind \in {"authorize", "onboard"},
                      [tx |-> req[r].tx, ok |-> TRUE] \in applied'
               PROVE  "authorized" \in seen'[r]
    BY <1>1 DEF Confirmable
  <2>1. seen'[r] = seen[r] \cup Facts'[req[r].holder]
    BY <1>1, WitnessOf
  <2>2. CASE [tx |-> req[r].tx, ok |-> TRUE] \in applied
    BY <2>1, <2>2 DEF TruthInv, Confirmable
  <2>3. CASE [tx |-> req[r].tx, ok |-> TRUE] \notin applied
    <3>1. req[r].tx = t
      <4>1. [tx |-> req[r].tx, ok |-> TRUE] = [tx |-> t, ok |-> ok]
        BY <1>3, <2>3
      <4>2. [tx |-> req[r].tx, ok |-> TRUE].tx = [tx |-> t, ok |-> ok].tx
        BY <4>1
      <4> QED
        BY <4>2
    <3>2. line'[t.holder] = "auth"
      BY <1>1, <2>3, <3>1, ApplySucceeds
    <3>3. req[r].holder = t.holder
      BY <3>1 DEF TruthInv, HandInv, InHand, Suits
    <3>4. "authorized" \in Facts'[t.holder]
      BY <1>2, <3>2 DEF Facts
    <3> QED
      BY <2>1, <3>3, <3>4
  <2> QED
    BY <2>2, <2>3
<1> QED
  BY <1>4, <1>5

\* A request starts to wait only for a transaction that nobody has applied.
LEMMA SendTells ==
  ASSUME TruthInv, NEW r \in Requests, Send(r)
  PROVE  \A q \in Requests : Confirmable(q)'
<1>1. UNCHANGED applied /\ Witness /\ req[r].pc = "send"
  BY DEF Send
<1>2. ASSUME NEW q \in Requests, req'[q].pc = "poll", req'[q] = req[q] PROVE Confirmable(q)'
  <2>1. seen'[q] = seen[q] \cup Facts'[req[q].holder]
    BY <1>1, <1>2, WitnessOf
  <2> QED
    BY <1>1, <1>2, <2>1 DEF TruthInv, Confirmable
<1>3. CASE BadSeq(req[r].tx)
  <2>1. \A q \in Requests : req'[q] = req[q] \/ req'[q].pc = "done"
    BY <1>3, FinishEnds DEF Send
  <2>2. ASSUME NEW q \in Requests, req'[q].pc = "done" PROVE Confirmable(q)'
    BY <2>2 DEF Confirmable
  <2>3. ASSUME NEW q \in Requests, req'[q].pc # "poll" PROVE Confirmable(q)'
    BY <2>3 DEF Confirmable
  <2> QED
    BY <1>2, <2>1, <2>2, <2>3
<1>4. CASE ~BadSeq(req[r].tx)
  <2>1. req' = [req EXCEPT ![r] = Polling(req[r])]
    BY <1>4 DEF Send
  <2>2. \A q \in Requests : req'[q] = IF q = r THEN Polling(req[r]) ELSE req[q]
    BY <2>1 DEF TruthInv, HandInv, TypeInv, RequestsTyped
  <2>3. [tx |-> req[r].tx, ok |-> TRUE] \notin applied
    <3>1. req[r].tx \in Transactions /\ seq \in [Sources -> Nat]
      BY <1>1 DEF TruthInv, HandInv, TypeInv, RequestsTyped, Typed, NetworkTyped
    <3>2. seq[req[r].tx.source] \in Nat /\ req[r].tx.seq = seq[req[r].tx.source] + 1
      BY <1>4, <3>1 DEF BadSeq, Transactions
    <3>3. ~(req[r].tx.seq <= seq[req[r].tx.source])
      BY <3>2
    <3> QED
      BY <3>3 DEF TruthInv, Spent
  <2>4. Confirmable(r)'
    <3>1. req'[r].tx = req[r].tx
      BY <2>2 DEF Polling
    <3> QED
      BY <1>1, <2>3, <3>1 DEF Confirmable
  <2>5. ASSUME NEW q \in Requests, q # r PROVE Confirmable(q)'
    <3>1. req'[q] = req[q]
      BY <2>2, <2>5
    <3>2. CASE req'[q].pc = "poll"
      BY <1>2, <3>1, <3>2
    <3>3. CASE req'[q].pc # "poll"
      BY <3>3 DEF Confirmable
    <3> QED
      BY <3>2, <3>3
  <2> QED
    BY <2>4, <2>5
<1> QED
  BY <1>3, <1>4

\* Every other step starts no wait and applies nothing.
LEMMA OthersTell ==
  ASSUME TruthInv, Witness, UNCHANGED applied,
         \A q \in Requests : req'[q] = req[q] \/ req'[q].pc # "poll"
  PROVE  \A q \in Requests : Confirmable(q)'
<1> SUFFICES ASSUME NEW q \in Requests, req'[q].pc = "poll" PROVE Confirmable(q)'
  BY DEF Confirmable
<1>1. req'[q] = req[q] /\ seen'[q] = seen[q] \cup Facts'[req[q].holder]
  BY WitnessOf
<1> QED
  BY <1>1 DEF TruthInv, Confirmable

LEMMA TruthStep == ASSUME Governs PROVE TruthInv /\ [Next]_vars => TruthInv'
<1> SUFFICES ASSUME TruthInv, [Next]_vars PROVE TruthInv'
  OBVIOUS
<1>1. HandInv' /\ WorkInv' /\ TypeInv
  BY HandStep, WorkStep DEF TruthInv, HandInv
<1>2. CASE UNCHANGED vars
  <2>1. Spent'
    BY <1>2 DEF vars, network, TruthInv, Spent
  <2>2. ASSUME NEW r \in Requests PROVE SeenNow(r)' /\ SeenShared(r)' /\ Confirmable(r)'
    <3>1. Facts' = Facts
      BY <1>2 DEF vars, ledger, Facts, Verdict, VerdictOn
    <3> QED
      BY <1>2, <3>1 DEF vars, network, relayerVars, TruthInv, SeenNow, Active, SeenShared, Confirmable
  <2> QED
    BY <1>1, <2>1, <2>2 DEF TruthInv
<1>3. CASE Next
  <2>1. Witness
    BY <1>3, StepIsWitnessed
  <2>2. \A r \in Requests : SeenNow(r)' /\ SeenShared(r)'
    BY <1>1, <2>1, SeenStays
  <2>3. Spent' /\ \A r \in Requests : Confirmable(r)'
    <3>1. ASSUME NEW t \in pool, Apply(t) PROVE Spent' /\ \A r \in Requests : Confirmable(r)'
      BY <3>1, ApplyTells
    <3>2. ASSUME NEW r \in Requests, Send(r) PROVE Spent' /\ \A q \in Requests : Confirmable(q)'
      BY <1>1, <3>2, SpentStays, SendTells DEF Send, TruthInv
    <3>3. ASSUME UNCHANGED <<seq, applied>>,
                 \A q \in Requests : req'[q] = req[q] \/ req'[q].pc # "poll"
          PROVE  Spent' /\ \A q \in Requests : Confirmable(q)'
      BY <1>1, <2>1, <3>3, SpentStays, OthersTell DEF TruthInv
    <3>4. ASSUME NEW r \in Requests, Arrive(r)
          PROVE  Spent' /\ \A q \in Requests : Confirmable(q)'
      <4>1. \A q \in Requests : req'[q] = req[q] \/ req'[q].pc # "poll"
        BY <3>4 DEF Arrive, ArriveAuthorize, ArriveRequest, ArriveCallback, ArriveClaimable,
                    TruthInv, HandInv, TypeInv, RequestsTyped
      <4> QED
        BY <3>3, <3>4, <4>1 DEF Arrive, ArriveAuthorize, ArriveRequest, ArriveCallback,
                                ArriveClaimable, network
    <3>5. ASSUME NEW r \in Requests, Step(r), ~Send(r)
          PROVE  Spent' /\ \A q \in Requests : Confirmable(q)'
      <4>1. UNCHANGED <<seq, applied>>
        BY <3>5 DEF Step, View, ViewFails, BuildAuthorize, BuildClaimable, BuildSponsored, BuildOnboard,
                    BuildFails, SendThrows, Confirmed, Unconfirmed, network
      <4>2. ASSUME NEW p, p.pc # "poll", req' = [req EXCEPT ![r] = p]
            PROVE  \A q \in Requests : req'[q] = req[q] \/ req'[q].pc # "poll"
        BY <4>2 DEF TruthInv, HandInv, TypeInv, RequestsTyped
      <4>3. ASSUME NEW a, Finish(r, a)
            PROVE  \A q \in Requests : req'[q] = req[q] \/ req'[q].pc # "poll"
        BY <4>3, FinishEnds
      <4>4. ASSUME View(r) PROVE \A q \in Requests : req'[q] = req[q] \/ req'[q].pc # "poll"
        BY <4>3, <4>4, ViewMovesOn DEF TruthInv
      <4>5. ASSUME \/ BuildAuthorize(r) \/ BuildClaimable(r) \/ BuildSponsored(r)
                   \/ BuildOnboard(r) \/ BuildFails(r)
            PROVE  \A q \in Requests : req'[q] = req[q] \/ req'[q].pc # "poll"
        BY <4>2, <4>3, <4>5 DEF BuildAuthorize, BuildClaimable, BuildSponsored, BuildOnboard, BuildFails,
                                Sending
      <4>6. ASSUME ViewFails(r) \/ SendThrows(r) \/ Confirmed(r) \/ Unconfirmed(r)
            PROVE  \A q \in Requests : req'[q] = req[q] \/ req'[q].pc # "poll"
        BY <4>2, <4>3, <4>6 DEF ViewFails, SendThrows, Confirmed, Unconfirmed
      <4> QED
        BY <3>3, <3>5, <4>1, <4>4, <4>5, <4>6 DEF Step
    <3>6. CASE Environment /\ \A t \in pool : ~Apply(t)
      <4>1. UNCHANGED applied
        BY <3>6 DEF Environment, Drop, IssuerFreezes, IssuerUnfreezes, HolderMoves, Crash, network
      <4>2. Spent'
        <5>1. ASSUME NEW h \in Holders, HolderMoves(h) PROVE Spent'
          BY <1>1, <4>1, <5>1, SpentStays DEF HolderMoves, TruthInv, Sources
        <5>2. CASE UNCHANGED seq
          BY <1>1, <4>1, <5>2, SpentStays DEF TruthInv
        <5> QED
          BY <3>6, <5>1, <5>2 DEF Environment, Drop, IssuerFreezes, IssuerUnfreezes, Crash, network
      <4>3. \A q \in Requests : req'[q] = req[q] \/ req'[q].pc # "poll"
        BY <3>6 DEF Environment, Drop, IssuerFreezes, IssuerUnfreezes, HolderMoves, Crash, relayerVars, Done
      <4> QED
        BY <2>1, <4>1, <4>2, <4>3, OthersTell
    <3> QED
      BY <1>3, <3>1, <3>2, <3>4, <3>5, <3>6 DEF Next
  <2> QED
    BY <1>1, <2>2, <2>3 DEF TruthInv
<1> QED
  BY <1>2, <1>3

LEMMA InitTruth == Init => TruthInv
<1> SUFFICES ASSUME Init PROVE TruthInv
  OBVIOUS
<1>1. TypeInv /\ WorkInv
  BY InitTyped, InitWork
<1>2. applied = {} /\ handed = {} /\ \A r \in Requests : req[r].pc = "idle"
  BY DEF Init, Idle
<1> QED
  BY <1>1, <1>2 DEF TruthInv, HandInv, HandedOK, InHand, Spent, SeenNow, SeenShared, Confirmable, Active

LEMMA AlwaysTruth == ASSUME Governs PROVE Spec => []TruthInv
BY InitTruth, TruthStep, PTL DEF Spec

-------------------------------------------------------------------------------
(***************************************************************************)
(* What clients are told.                                                  *)
(***************************************************************************)

\* Why request p is answered a.
Reason(p, a) ==
  \/ a = "already" /\ line[req[p].holder] = "auth"
  \/ /\ a = "authorized" /\ req[p].pc = "poll" /\ req[p].route # "claimable"
     /\ [tx |-> req[p].tx, ok |-> TRUE] \in applied /\ ~AuthorizeFollows(req[p])
  \/ a \in Refusals /\ a = Verdict(req[p].holder)
  \/ a \in Refusals /\ req[p].route = "request"
  \/ a \notin {"already", "authorized"} \cup Refusals

\* The code of the authorizer's refusal names the refusal, and a failure without
\* a code names none.
LEMMA CodesAreNames ==
  ASSUME NEW h, Verdict(h) # "ok"
  PROVE  ExplainChainError(AuthorizerCode(h)) = Verdict(h)
<1>1. Verdict(h) \in {"account_banned", "no_trustline"}
  BY DEF Verdict, VerdictOn
<1>2. CASE Verdict(h) = "account_banned"
  <2>1. AuthorizerCode(h) = 1
    BY <1>2 DEF AuthorizerCode
  <2> QED
    BY <1>2, <2>1 DEF ExplainChainError
<1>3. CASE Verdict(h) = "no_trustline"
  <2>1. AuthorizerCode(h) = 3
    BY <1>3 DEF AuthorizerCode
  <2> QED
    BY <1>3, <2>1 DEF ExplainChainError
<1> QED
  BY <1>1, <1>2, <1>3

LEMMA NoCodeNoRefusal == ExplainChainError(0) = "chain_error"
BY DEF ExplainChainError

LEMMA RouterCodeIsRefusal == ExplainChainError(RouterCode.AuthorizationRefused) = "no_trustline"
<1>1. RouterCode.AuthorizationRefused = 3
  BY DEF RouterCode
<1> QED
  BY <1>1 DEF ExplainChainError

\* A step answers with a reason.
LEMMA AnswersHaveReasons ==
  ASSUME TruthInv, NEW p \in Requests, Step(p), NEW r \in Requests, Active(r), req'[r].pc = "done"
  PROVE  \E a : Finish(p, a) /\ Reason(p, a)
<1>1. ASSUME NEW x, req' = [req EXCEPT ![p] = x], x.pc # "done" PROVE FALSE
  BY <1>1 DEF Active, TruthInv, HandInv, TypeInv, RequestsTyped
<1>2. Working(p) => InHand(p)
  BY DEF TruthInv, HandInv
<1>3. CASE View(p)
  <2>1. CASE Finish(p, "already")
    <3>1. PICK l \in {line[req[p].holder], "none"} : l = "auth" \/ req' # Answered(p, "already")
      <4>1. PICK l \in {line[req[p].holder], "none"} :
              IF l = "auth" THEN Finish(p, "already")
              ELSE /\ req' = [req EXCEPT ![p] =
                        CASE req[p].route = "authorize" ->
                               [pc |-> "build", route |-> req[p].route, holder |-> req[p].holder,
                                next |-> "authorize"]
                          [] req[p].route = "request" ->
                               [pc |-> "build", route |-> req[p].route, holder |-> req[p].holder,
                                next |-> DiagnoseCase(req[p].holder, l),
                                create |-> acct[req[p].holder] = "none"]
                          [] req[p].route = "callback" -> Sending(req[p], req[p].tx)]
                   /\ UNCHANGED inflight
        BY <1>3 DEF View
      <4>2. CASE l = "auth"
        BY <4>2
      <4>3. CASE l # "auth"
        <5>1. req[p].route \in {"authorize", "request", "callback"}
          BY <1>3 DEF View, TruthInv, HandInv, TypeInv, RequestsTyped, Typed, Routes
        <5>2. CASE req[p].route = "authorize"
          <6> DEFINE x == [pc |-> "build", route |-> req[p].route, holder |-> req[p].holder,
                           next |-> "authorize"]
          <6>1. req' = [req EXCEPT ![p] = x]
            BY <4>1, <4>3, <5>2
          <6>2. x.pc # "done"
            OBVIOUS
          <6> HIDE DEF x
          <6> QED
            BY <1>1, <6>1, <6>2
        <5>3. CASE req[p].route = "request"
          <6> DEFINE x == [pc |-> "build", route |-> req[p].route, holder |-> req[p].holder,
                           next |-> DiagnoseCase(req[p].holder, l),
                           create |-> acct[req[p].holder] = "none"]
          <6>1. req' = [req EXCEPT ![p] = x]
            BY <4>1, <4>3, <5>3
          <6>2. x.pc # "done"
            OBVIOUS
          <6> HIDE DEF x
          <6> QED
            BY <1>1, <6>1, <6>2
        <5>4. CASE req[p].route = "callback"
          <6> DEFINE x == Sending(req[p], req[p].tx)
          <6>1. req' = [req EXCEPT ![p] = x]
            BY <4>1, <4>3, <5>4
          <6>2. x.pc # "done"
            BY DEF Sending
          <6> HIDE DEF x
          <6> QED
            BY <1>1, <6>1, <6>2
        <5> QED
          BY <5>1, <5>2, <5>3, <5>4
      <4> QED
        BY <4>2, <4>3
    <3>2. line[req[p].holder] = "auth"
      BY <2>1, <3>1 DEF Finish
    <3> QED
      BY <2>1, <3>2 DEF Reason
  <2>2. CASE ~Finish(p, "already")
    <3>1. \A q \in Requests : req'[q] = req[q] \/ req'[q].pc \in {"build", "send"}
      BY <1>3, <2>2, ViewMovesOn DEF TruthInv
    <3> QED
      BY <3>1 DEF Active
  <2> QED
    BY <2>1, <2>2
<1>4. CASE BuildAuthorize(p)
  <2>1. CASE Verdict(req[p].holder) = "ok"
    <3> DEFINE x == Sending(req[p], Tx("authorize", req[p].holder, Relayer, p, FALSE))
    <3>1. req' = [req EXCEPT ![p] = x]
      BY <1>4, <2>1 DEF BuildAuthorize
    <3>2. x.pc # "done"
      BY DEF Sending
    <3> HIDE DEF x
    <3> QED
      BY <1>1, <3>1, <3>2
  <2>2. CASE Verdict(req[p].holder) # "ok"
    <3>1. Finish(p, Verdict(req[p].holder))
      BY <1>4, <2>2, CodesAreNames DEF BuildAuthorize
    <3>2. Verdict(req[p].holder) \in Refusals
      BY <2>2 DEF Verdict, VerdictOn, Refusals
    <3> QED
      BY <3>1, <3>2 DEF Reason
  <2> QED
    BY <2>1, <2>2
<1>5. CASE BuildClaimable(p)
  <2> DEFINE x == Sending(req[p], Tx("claimable", req[p].holder, Relayer, p, FALSE))
  <2>1. req' = [req EXCEPT ![p] = x]
    BY <1>5 DEF BuildClaimable
  <2>2. x.pc # "done"
    BY DEF Sending
  <2> HIDE DEF x
  <2> QED
    BY <1>1, <2>1, <2>2
<1>6. CASE BuildOnboard(p)
  <2>1. req[p].route = "request"
    BY <1>2, <1>6 DEF BuildOnboard, InHand, Working, Active
  <2>2. Finish(p, "handed") \/ Finish(p, "no_trustline")
    BY <1>6, RouterCodeIsRefusal DEF BuildOnboard
  <2>3. Reason(p, "handed") /\ Reason(p, "no_trustline")
    BY <2>1 DEF Reason, Refusals
  <2> QED
    BY <2>2, <2>3
<1>7. CASE BuildSponsored(p) \/ BuildFails(p) \/ ViewFails(p) \/ SendThrows(p) \/ Unconfirmed(p)
  <2>1. Finish(p, "handed") \/ Finish(p, "chain_error") \/ Finish(p, "internal")
    BY <1>7, NoCodeNoRefusal DEF BuildSponsored, BuildFails, ViewFails, SendThrows, Unconfirmed, NotConfirmed
  <2>2. Reason(p, "handed") /\ Reason(p, "chain_error") /\ Reason(p, "internal")
    BY DEF Reason, Refusals
  <2> QED
    BY <2>1, <2>2
<1>8. CASE Send(p)
  <2>1. CASE BadSeq(req[p].tx)
    <3>1. Finish(p, "chain_error") /\ Reason(p, "chain_error")
      BY <1>8, <2>1 DEF Send, Reason, Refusals
    <3> QED
      BY <3>1
  <2>2. CASE ~BadSeq(req[p].tx)
    <3>1. req' = [req EXCEPT ![p] = Polling(req[p])] /\ Polling(req[p]).pc # "done"
      BY <1>8, <2>2 DEF Send, Polling
    <3> QED
      BY <1>1, <3>1
  <2> QED
    BY <2>1, <2>2
<1>9. CASE Confirmed(p)
  <2>1. CASE AuthorizeFollows(req[p])
    BY <1>1, <1>9, <2>1 DEF Confirmed
  <2>2. CASE ~AuthorizeFollows(req[p]) /\ req[p].route = "claimable"
    <3>1. Finish(p, "paid") /\ Reason(p, "paid")
      BY <1>9, <2>2 DEF Confirmed, Reason, Refusals
    <3> QED
      BY <3>1
  <2>3. CASE ~AuthorizeFollows(req[p]) /\ req[p].route # "claimable"
    <3>1. Finish(p, "authorized") /\ Reason(p, "authorized")
      BY <1>9, <2>3 DEF Confirmed, Reason
    <3> QED
      BY <3>1
  <2> QED
    BY <2>1, <2>2, <2>3
<1> QED
  BY <1>3, <1>4, <1>5, <1>6, <1>7, <1>8, <1>9 DEF Step

\* Only the steps of requests answer, and restarts.
LEMMA WhoAnswers ==
  ASSUME TruthInv, [Next]_vars, NEW r \in Requests, Active(r), req'[r].pc = "done",
         req'[r].answer # "lost"
  PROVE  \E p \in Requests : Step(p)
<1>1. req' # req
  BY DEF Active
<1>2. ASSUME NEW p \in Requests, Arrive(p) PROVE FALSE
  <2>1. \A q \in Requests : q # p => req'[q] = req[q]
    BY <1>2 DEF Arrive, ArriveAuthorize, ArriveRequest, ArriveCallback, ArriveClaimable,
                TruthInv, HandInv, TypeInv, RequestsTyped
  <2>2. req[p].pc = "idle"
    BY <1>2 DEF Arrive, ArriveAuthorize, ArriveRequest, ArriveCallback, ArriveClaimable
  <2> QED
    BY <2>1, <2>2 DEF Active
<1>3. ~Crash
  BY DEF Crash, Done
<1> QED
  BY <1>1, <1>2, <1>3 DEF Next, Environment, Apply, Drop, IssuerFreezes, IssuerUnfreezes, HolderMoves,
                          relayerVars, vars

\* A client is told what its own request ends with, or the one it waits on, and
\* has seen what that one saw.
LEMMA ToldByFinish ==
  ASSUME TruthInv, NEW p \in Requests, NEW a, Finish(p, a),
         NEW r \in Requests, Active(r), req'[r].pc = "done"
  PROVE  /\ req'[r].answer = a /\ seen[r] = seen[p]
         /\ r = p \/ req[p].route = "authorize"
<1>1. req'[r] = IF r = p \/ (req[r].pc = "joined" /\ req[r].leader = p)
                THEN Done(req[r].route, req[r].holder, a) ELSE req[r]
  BY DEF Finish, Answered
<1>2. r = p \/ (req[r].pc = "joined" /\ req[r].leader = p)
  BY <1>1 DEF Active
<1>3. req[r].pc = "joined" => seen[r] = seen[req[r].leader] /\ req[req[r].leader].route = "authorize"
  BY DEF TruthInv, SeenShared, WorkInv, OneAuthorizeAtWork, AtWork
<1> QED
  BY <1>1, <1>2, <1>3 DEF Done

\* "authorized: true" is a statement about the ledger (View, Confirmed): a client
\* told so had an authorized line while its request ran, provided the relayer's
\* authorizer governs the asset; elsewhere the router may leave a bare line.
THEOREM SuccessesAreTruthful == ASSUME Governs PROVE Spec => SuccessIsTruthful
<1>1. ASSUME TruthInv, [Next]_vars, NEW r \in Requests, Told(r, {"already", "authorized"})
      PROVE  "authorized" \in seen[r]
  <2>1. Active(r) /\ req'[r].pc = "done" /\ req'[r].answer \in {"already", "authorized"}
    BY <1>1 DEF Told
  <2>2. PICK p \in Requests : Step(p)
    BY <1>1, <2>1, WhoAnswers
  <2>3. PICK a : Finish(p, a) /\ Reason(p, a)
    BY <1>1, <2>1, <2>2, AnswersHaveReasons
  <2>4. a \in {"already", "authorized"} /\ seen[r] = seen[p]
    BY <1>1, <2>1, <2>3, ToldByFinish
  <2>5. Active(p) /\ req[p].holder \in Holders /\ Facts[req[p].holder] \subseteq seen[p]
    <3>1. Active(p)
      BY <2>2 DEF Step, View, ViewFails, BuildAuthorize, BuildClaimable, BuildSponsored, BuildOnboard,
                  BuildFails, Send, SendThrows, Confirmed, Unconfirmed, Active
    <3> QED
      BY <1>1, <3>1 DEF TruthInv, HandInv, TypeInv, RequestsTyped, Typed, SeenNow, Active
  <2>6. CASE a = "already"
    <3>1. line[req[p].holder] = "auth"
      BY <2>3, <2>6 DEF Reason, Refusals
    <3> QED
      BY <2>4, <2>5, <3>1 DEF Facts
  <2>7. CASE a = "authorized"
    <3>1. /\ req[p].pc = "poll" /\ req[p].route # "claimable"
          /\ [tx |-> req[p].tx, ok |-> TRUE] \in applied /\ ~AuthorizeFollows(req[p])
      BY <2>3, <2>7 DEF Reason, Refusals
    <3>2. Suits(req[p].route, req[p].holder, req[p].tx)
      BY <1>1, <3>1 DEF TruthInv, HandInv, InHand
    <3>3. req[p].tx.kind \in Kinds
      BY <1>1, <3>1 DEF TruthInv, HandInv, TypeInv, RequestsTyped, Typed, Transactions
    <3>4. req[p].tx.kind \in {"authorize", "onboard"}
      BY <3>1, <3>2, <3>3 DEF Suits, AuthorizeFollows, Kinds
    <3> QED
      BY <1>1, <2>4, <3>1, <3>4 DEF TruthInv, Confirmable
  <2> QED
    BY <2>4, <2>6, <2>7
<1>2. TruthInv /\ [Next]_vars =>
        [\A r \in Requests : Told(r, {"already", "authorized"}) => "authorized" \in seen[r]]_vars
  BY <1>1
<1> QED
  BY <1>2, AlwaysTruth, PTL DEF SuccessIsTruthful, Spec

\* "Refusals are typed, straight from the authorizer contract" (runbook): a
\* client of a route that simulates the authorizer alone, told a refusal, was
\* refused for that by the authorizer while its request ran.
THEOREM RefusalsAreTheAuthorizers == ASSUME Governs PROVE Spec => AuthorizeRefusalsAreTheAuthorizers
<1>1. ASSUME TruthInv, [Next]_vars, NEW r \in Requests, Told(r, Refusals), req[r].route # "request"
      PROVE  req'[r].answer \in seen[r]
  <2>1. Active(r) /\ req'[r].pc = "done" /\ req'[r].answer \in Refusals
    BY <1>1 DEF Told
  <2>2. PICK p \in Requests : Step(p)
    BY <1>1, <2>1, WhoAnswers DEF Refusals
  <2>3. PICK a : Finish(p, a) /\ Reason(p, a)
    BY <1>1, <2>1, <2>2, AnswersHaveReasons
  <2>4. req'[r].answer = a /\ seen[r] = seen[p] /\ (r = p \/ req[p].route = "authorize")
    BY <1>1, <2>1, <2>3, ToldByFinish
  <2>5. a = Verdict(req[p].holder)
    BY <1>1, <2>1, <2>3, <2>4 DEF Reason, Refusals
  <2>6. Active(p)
    BY <2>2 DEF Step, View, ViewFails, BuildAuthorize, BuildClaimable, BuildSponsored, BuildOnboard,
                BuildFails, Send, SendThrows, Confirmed, Unconfirmed, Active
  <2>7. req[p].holder \in Holders /\ Facts[req[p].holder] \subseteq seen[p]
    BY <1>1, <2>6 DEF TruthInv, HandInv, TypeInv, RequestsTyped, Typed, SeenNow, Active
  <2> QED
    BY <2>4, <2>5, <2>7 DEF Facts
<1>2. TruthInv /\ [Next]_vars =>
        [\A r \in Requests :
           Told(r, Refusals) /\ req[r].route # "request" => req'[r].answer \in seen[r]]_vars
  BY <1>1
<1> QED
  BY <1>2, AlwaysTruth, PTL DEF AuthorizeRefusalsAreTheAuthorizers, Spec
-------------------------------------------------------------------------------
(***************************************************************************)
(* What is paid.                                                           *)
(***************************************************************************)

\* Nothing is paid in the network that is not some payment's.
OnlyOrdersArePaid == \A t \in Carried : t.kind = "claimable" => IsPayment(t.by)

OrdersInv == PayInv /\ HandInv /\ Spent /\ OnlyOrdersArePaid

\* What the steps of request r leave alone, and what they may report.
StepOf(r) ==
  /\ applied' = applied /\ Sends(r) /\ RoutesStay
  /\ \A q \in Requests : req[q].pc = "done" => req'[q] = req[q]
  /\ \A q \in Requests : q # r /\ req[q].pc # "joined" => req'[q] = req[q]
  /\ \A q \in Requests :
       Paid(q)' => \/ Paid(q)
                   \/ /\ q = r /\ IsPayment(r) /\ req[r].pc = "poll"
                      /\ [tx |-> req[r].tx, ok |-> TRUE] \in applied

LEMMA FinishIsStep ==
  ASSUME OrdersInv, NEW r \in Requests, Working(r), NEW a, Finish(r, a),
         applied' = applied, Sends(r),
         a = "paid" => /\ IsPayment(r) /\ req[r].pc = "poll"
                       /\ [tx |-> req[r].tx, ok |-> TRUE] \in applied
  PROVE  StepOf(r)
<1>1. \A q \in Requests :
        req'[q] = IF q = r \/ (req[q].pc = "joined" /\ req[q].leader = r)
                  THEN Done(req[q].route, req[q].holder, a) ELSE req[q]
  BY DEF Finish, Answered
<1>2. RoutesStay
  <2> SUFFICES ASSUME NEW q \in Requests, Started(q)
               PROVE  req'[q].pc # "idle" /\ req'[q].route = req[q].route
    BY DEF RoutesStay
  <2>1. CASE req'[q] = Done(req[q].route, req[q].holder, a)
    BY <2>1 DEF Done
  <2>2. CASE req'[q] = req[q]
    BY <2>2 DEF Started
  <2> QED
    BY <1>1, <2>1, <2>2
<1>3. ASSUME NEW q \in Requests, req[q].pc = "joined", req[q].leader = r PROVE ~IsPayment(r)
  BY <1>3 DEF OrdersInv, PayInv, WorkInv, OneAuthorizeAtWork, AtWork, IsPayment
<1>4. ASSUME NEW q \in Requests, Paid(q)'
      PROVE  Paid(q) \/ (q = r /\ a = "paid")
  <2>1. CASE req'[q] = Done(req[q].route, req[q].holder, a) /\ (q = r \/ (req[q].pc = "joined" /\ req[q].leader = r))
    <3>1. a = "paid"
      BY <1>4, <2>1 DEF Paid, Done
    <3> QED
      BY <1>3, <2>1, <3>1
  <2>2. CASE req'[q] = req[q]
    BY <1>4, <2>2 DEF Paid
  <2> QED
    BY <1>1, <2>1, <2>2
<1>5. /\ \A q \in Requests : req[q].pc = "done" => req'[q] = req[q]
      /\ \A q \in Requests : q # r /\ req[q].pc # "joined" => req'[q] = req[q]
  BY <1>1 DEF Working, Active
<1> QED
  BY <1>2, <1>4, <1>5 DEF StepOf

LEMMA MoveIsStep ==
  ASSUME OrdersInv, NEW r \in Requests, req[r].pc \notin {"idle", "done"},
         NEW p, req' = [req EXCEPT ![r] = p], p.pc \notin {"idle", "done"}, p.route = req[r].route,
         applied' = applied, Sends(r)
  PROVE  StepOf(r)
<1>1. \A q \in Requests : req'[q] = IF q = r THEN p ELSE req[q]
  BY DEF OrdersInv, PayInv, TypeInv, RequestsTyped
<1> QED
  BY <1>1 DEF StepOf, RoutesStay, Started, Paid

LEMMA ViewIsStep ==
  ASSUME OrdersInv, NEW r \in Requests, View(r) \/ ViewFails(r)
  PROVE  StepOf(r)
<1>1. /\ req[r].pc = "view" /\ Working(r) /\ applied' = applied /\ Sends(r)
  BY DEF View, ViewFails, network, Working, Active, Sends
<1>2. CASE Finish(r, "already") \/ Finish(r, "internal")
  BY <1>1, <1>2, FinishIsStep
<1>3. CASE View(r) /\ ~Finish(r, "already")
  <2>1. req[r].route \in {"authorize", "request", "callback"}
    BY <1>1 DEF OrdersInv, PayInv, WorkInv, RequestsOK, Routes
  <2>2. PICK l : req' = [req EXCEPT ![r] =
                  CASE req[r].route = "authorize" ->
                         [pc |-> "build", route |-> req[r].route, holder |-> req[r].holder,
                          next |-> "authorize"]
                    [] req[r].route = "request" ->
                         [pc |-> "build", route |-> req[r].route, holder |-> req[r].holder,
                          next |-> DiagnoseCase(req[r].holder, l),
                          create |-> acct[req[r].holder] = "none"]
                    [] req[r].route = "callback" -> Sending(req[r], req[r].tx)]
    BY <1>3 DEF View
  <2>3. ASSUME NEW p, req' = [req EXCEPT ![r] = p], p.pc \in {"build", "send"}, p.route = req[r].route
        PROVE  StepOf(r)
    BY <1>1, <2>3, MoveIsStep
  <2>4. CASE req[r].route = "authorize"
    BY <2>2, <2>3, <2>4
  <2>5. CASE req[r].route = "request"
    <3> DEFINE p == [pc |-> "build", route |-> req[r].route, holder |-> req[r].holder,
                     next |-> DiagnoseCase(req[r].holder, l), create |-> acct[req[r].holder] = "none"]
    <3>1. req' = [req EXCEPT ![r] = p]
      BY <2>2, <2>5
    <3>2. p.pc = "build" /\ p.route = req[r].route
      OBVIOUS
    <3> HIDE DEF p
    <3> QED
      BY <2>3, <3>1, <3>2
  <2>6. CASE req[r].route = "callback"
    <3>1. Sending(req[r], req[r].tx).pc = "send" /\ Sending(req[r], req[r].tx).route = req[r].route
      BY DEF Sending
    <3>2. req' = [req EXCEPT ![r] = Sending(req[r], req[r].tx)]
      BY <2>2, <2>6
    <3> QED
      BY <2>3, <3>1, <3>2
  <2> QED
    BY <2>1, <2>4, <2>5, <2>6
<1> QED
  BY <1>2, <1>3 DEF ViewFails

LEMMA BuildIsStep ==
  ASSUME OrdersInv, NEW r \in Requests,
         \/ BuildAuthorize(r) \/ BuildClaimable(r) \/ BuildSponsored(r)
         \/ BuildOnboard(r) \/ BuildFails(r)
  PROVE  StepOf(r)
<1>1. req[r].pc = "build" /\ Working(r) /\ applied' = applied /\ Sends(r)
  BY DEF BuildAuthorize, BuildClaimable, BuildSponsored, BuildOnboard, BuildFails, Working, Active,
         network, Sends
<1>2. \/ \E t : req' = [req EXCEPT ![r] = Sending(req[r], t)]
      \/ \E a : a # "paid" /\ Finish(r, a)
  BY ExplainedIsAnswer
     DEF BuildAuthorize, BuildClaimable, BuildSponsored, BuildOnboard, BuildFails
<1>3. ASSUME NEW t, req' = [req EXCEPT ![r] = Sending(req[r], t)] PROVE StepOf(r)
  <2>1. Sending(req[r], t).pc = "send" /\ Sending(req[r], t).route = req[r].route
    BY DEF Sending
  <2> QED
    BY <1>1, <1>3, <2>1, MoveIsStep
<1> QED
  BY <1>1, <1>2, <1>3, FinishIsStep

LEMMA SubmitIsStep ==
  ASSUME OrdersInv, NEW r \in Requests,
         Send(r) \/ SendThrows(r) \/ Confirmed(r) \/ Unconfirmed(r)
  PROVE  StepOf(r)
<1>1. Working(r) /\ req[r].pc \in {"send", "poll"} /\ applied' = applied
  BY DEF Send, SendThrows, Confirmed, Unconfirmed, Working, Active, network
<1>2. Sends(r)
  <2>1. \A t \in Admitted(req[r].tx) : t \in pool \/ t = req[r].tx
    BY DEF Admitted
  <2>2. CASE UNCHANGED pool
    BY <1>1, <2>2 DEF Sends
  <2>3. CASE req[r].pc = "send" /\ pool' = Admitted(req[r].tx)
    BY <1>1, <2>1, <2>3 DEF Sends
  <2> QED
    BY <2>2, <2>3 DEF Send, SendThrows, Confirmed, Unconfirmed, network
<1>3. ASSUME NEW p, req' = [req EXCEPT ![r] = p], p.pc \in {"poll", "build"}, p.route = req[r].route
      PROVE  StepOf(r)
  BY <1>1, <1>2, <1>3, MoveIsStep
<1>4. CASE Send(r) /\ ~BadSeq(req[r].tx)
  <2>1. req' = [req EXCEPT ![r] = Polling(req[r])]
    BY <1>4 DEF Send
  <2>2. Polling(req[r]).pc = "poll" /\ Polling(req[r]).route = req[r].route
    BY DEF Polling
  <2> QED
    BY <1>3, <2>1, <2>2
<1>5. CASE Confirmed(r) /\ AuthorizeFollows(req[r])
  <2> DEFINE p == [pc |-> "build", route |-> "callback", holder |-> req[r].holder, next |-> "authorize"]
  <2>1. req' = [req EXCEPT ![r] = p] /\ req[r].route = "callback"
    BY <1>5 DEF Confirmed, AuthorizeFollows
  <2>2. p.pc = "build" /\ p.route = "callback"
    OBVIOUS
  <2> HIDE DEF p
  <2> QED
    BY <1>3, <2>1, <2>2
<1>6. CASE Confirmed(r) /\ ~AuthorizeFollows(req[r])
  <2>1. /\ req[r].pc = "poll" /\ [tx |-> req[r].tx, ok |-> TRUE] \in applied
        /\ Finish(r, IF req[r].route = "claimable" THEN "paid" ELSE "authorized")
    BY <1>6 DEF Confirmed
  <2>2. CASE req[r].route = "claimable"
    <3>1. IsPayment(r)
      BY <2>1, <2>2 DEF IsPayment, Started
    <3> QED
      BY <1>1, <1>2, <2>1, <2>2, <3>1, FinishIsStep
  <2>3. CASE req[r].route # "claimable"
    BY <1>1, <1>2, <2>1, <2>3, FinishIsStep
  <2> QED
    BY <2>2, <2>3
<1>7. CASE Finish(r, "chain_error")
  BY <1>1, <1>2, <1>7, FinishIsStep
<1> QED
  BY <1>4, <1>5, <1>6, <1>7, NoCodeNoRefusal DEF Send, SendThrows, Unconfirmed, NotConfirmed
LEMMA RequestIsStep ==
  ASSUME OrdersInv, NEW r \in Requests, Step(r)
  PROVE  StepOf(r)
BY ViewIsStep, BuildIsStep, SubmitIsStep DEF Step

\* A request arrives: nothing else moves.
LEMMA ArriveShape ==
  ASSUME TypeInv, NEW r \in Requests, Arrive(r)
  PROVE  /\ req[r].pc = "idle" /\ req'[r].pc \notin {"idle", "done"}
         /\ \A q \in Requests : q # r => req'[q] = req[q]
         /\ UNCHANGED <<seq, pool, applied>>
<1>1. req[r].pc = "idle" /\ UNCHANGED <<seq, pool, applied>>
  BY DEF Arrive, ArriveAuthorize, ArriveRequest, ArriveCallback, ArriveClaimable, network
<1>2. ASSUME NEW p, req' = [req EXCEPT ![r] = p], p.pc \notin {"idle", "done"}
      PROVE  req'[r].pc \notin {"idle", "done"} /\ \A q \in Requests : q # r => req'[q] = req[q]
  BY <1>2 DEF TypeInv, RequestsTyped
<1>3. \E p : p.pc \notin {"idle", "done"} /\ req' = [req EXCEPT ![r] = p]
  <2>1. ASSUME NEW h \in Holders, ArriveAuthorize(r, h)
        PROVE  \E p : p.pc \notin {"idle", "done"} /\ req' = [req EXCEPT ![r] = p]
    <3> DEFINE p == IF Join(h) THEN [pc |-> "joined", route |-> "authorize",
                                     holder |-> h, leader |-> inflight[h]]
                    ELSE [pc |-> "view", route |-> "authorize", holder |-> h]
    <3> WITNESS p
    <3> QED
      BY <2>1 DEF ArriveAuthorize
  <2>2. ASSUME NEW h \in Holders, ArriveRequest(r, h)
        PROVE  \E p : p.pc \notin {"idle", "done"} /\ req' = [req EXCEPT ![r] = p]
    <3> DEFINE p == [pc |-> "view", route |-> "request", holder |-> h]
    <3> WITNESS p
    <3> QED
      BY <2>2 DEF ArriveRequest
  <2>3. ASSUME NEW h \in Holders, ArriveClaimable(r, h)
        PROVE  \E p : p.pc \notin {"idle", "done"} /\ req' = [req EXCEPT ![r] = p]
    <3> DEFINE p == [pc |-> "build", route |-> "claimable", holder |-> h, next |-> "claimable"]
    <3> WITNESS p
    <3> QED
      BY <2>3 DEF ArriveClaimable
  <2>4. ASSUME NEW e \in handed, ArriveCallback(r, e)
        PROVE  \E p : p.pc \notin {"idle", "done"} /\ req' = [req EXCEPT ![r] = p]
    <3> DEFINE p == [pc |-> "view", route |-> "callback", holder |-> e.holder, tx |-> e]
    <3> WITNESS p
    <3> QED
      BY <2>4 DEF ArriveCallback
  <2> QED
    BY <2>1, <2>2, <2>3, <2>4 DEF Arrive
<1> QED
  BY <1>1, <1>2, <1>3

LEMMA SpentStep == TypeInv /\ Spent /\ [Next]_vars => Spent'
<1> SUFFICES ASSUME TypeInv, Spent, [Next]_vars PROVE Spent'
  OBVIOUS
<1>1. ASSUME UNCHANGED <<seq, applied>> PROVE Spent'
  BY <1>1 DEF Spent
<1>2. ASSUME NEW r \in Requests, Arrive(r) PROVE Spent'
  BY <1>1, <1>2, ArriveShape
<1>3. ASSUME NEW r \in Requests, Step(r) PROVE Spent'
  <2>1. UNCHANGED <<seq, applied>>
    BY <1>3 DEF Step, View, ViewFails, BuildAuthorize, BuildClaimable, BuildSponsored, BuildOnboard,
                BuildFails, Send, SendThrows, Confirmed, Unconfirmed, network
  <2> QED
    BY <1>1, <2>1
<1>4. ASSUME NEW h \in Holders, HolderMoves(h) PROVE Spent'
  BY <1>4, SpentStays DEF HolderMoves, Sources
<1>5. CASE UNCHANGED vars
  BY <1>1, <1>5 DEF vars, network
<1>6. ASSUME Environment PROVE Spent'
  BY <1>1, <1>4, <1>6, ApplySpends
     DEF Environment, Drop, IssuerFreezes, IssuerUnfreezes, Crash, network
<1> QED
  BY <1>2, <1>3, <1>5, <1>6 DEF Next

\* Only a payment's request puts a payment into the network.
LEMMA OnlyOrdersStay ==
  ASSUME OrdersInv, RoutesStay,
         \A t \in Carried' : t \in Carried \/ \E r \in Requests : req[r].pc = "send" /\ t = req[r].tx
  PROVE  OnlyOrdersArePaid'
<1> SUFFICES ASSUME NEW t \in Carried', t.kind = "claimable" PROVE IsPayment(t.by)'
  BY DEF OnlyOrdersArePaid
<1>1. t.by \in Requests /\ IsPayment(t.by)
  <2>1. CASE t \in Carried
    BY <2>1 DEF OrdersInv, OnlyOrdersArePaid, PayInv, Authored
  <2>2. ASSUME NEW r \in Requests, req[r].pc = "send", t = req[r].tx
        PROVE  t.by \in Requests /\ IsPayment(t.by)
    <3>1. req[r].route = "claimable"
      BY <2>2 DEF OrdersInv, HandInv, InHand, Suits
    <3>2. IsPayment(r)
      BY <2>2, <3>1 DEF IsPayment, Started
    <3>3. t.by = r
      BY <2>2, <3>2 DEF OrdersInv, PayInv, Accounted, OwnTx, Holds
    <3> QED
      BY <3>2, <3>3
  <2> QED
    BY <2>1, <2>2
<1> QED
  BY <1>1, PaymentsStay DEF IsPayment

\* Who else moves leaves the requests alone, or ends the running ones.
LEMMA OthersShape ==
  ASSUME TypeInv, Environment \/ UNCHANGED vars
  PROVE  /\ RoutesStay /\ Carried' \subseteq Carried
         /\ \A q \in Requests : req'[q] = req[q] \/ (Active(q) /\ req'[q].pc = "done" /\ req'[q].answer = "lost")
         /\ pool' \subseteq pool
         /\ applied' = applied \/ \E t \in pool : Apply(t)
<1>1. ASSUME NEW t \in pool, Apply(t)
      PROVE  req' = req /\ pool' \subseteq pool /\ Carried' \subseteq Carried
  <2>1. \E ok : applied' = applied \cup {[tx |-> t, ok |-> ok]}
    BY <1>1, ApplyHasEffect DEF Effect
  <2>2. pool' = pool \ {t} /\ req' = req
    BY <1>1 DEF Apply, relayerVars
  <2> QED
    BY <2>1, <2>2 DEF Carried
<1>2. CASE Crash
  <2>1. /\ \A q \in Requests : req'[q] = IF Active(q) THEN Done(req[q].route, req[q].holder, "lost") ELSE req[q]
        /\ UNCHANGED <<pool, applied>>
    BY <1>2 DEF Crash, network
  <2>2. ASSUME NEW q \in Requests
        PROVE  /\ req'[q] = req[q] \/ (Active(q) /\ req'[q].pc = "done" /\ req'[q].answer = "lost")
               /\ Started(q) => req'[q].pc # "idle" /\ req'[q].route = req[q].route
    <3>1. CASE Active(q)
      <4>1. req'[q] = Done(req[q].route, req[q].holder, "lost")
        BY <2>1, <3>1
      <4> QED
        BY <3>1, <4>1 DEF Done
    <3>2. CASE ~Active(q)
      BY <2>1, <3>2 DEF Started
    <3> QED
      BY <3>1, <3>2
  <2> QED
    BY <2>1, <2>2 DEF RoutesStay, Carried
<1>3. ASSUME req' = req, pool' \subseteq pool, applied' = applied
      PROVE  RoutesStay /\ Carried' \subseteq Carried
  BY <1>3 DEF RoutesStay, Started, Carried
<1>4. ASSUME NEW t \in pool, Drop(t) PROVE req' = req /\ pool' \subseteq pool /\ applied' = applied
  BY <1>4 DEF Drop, relayerVars
<1>5. ASSUME NEW h \in Holders, IssuerFreezes(h) \/ IssuerUnfreezes(h) \/ HolderMoves(h)
      PROVE  req' = req /\ pool' = pool /\ applied' = applied
  BY <1>5 DEF IssuerFreezes, IssuerUnfreezes, HolderMoves, relayerVars, network
<1>6. CASE UNCHANGED vars
  BY <1>3, <1>6 DEF vars, relayerVars, network
<1>7. ASSUME req' = req PROVE RoutesStay
  BY <1>7 DEF RoutesStay, Started
<1>8. Crash => UNCHANGED <<pool, applied>>
  BY DEF Crash, network
<1> QED
  BY <1>1, <1>2, <1>3, <1>4, <1>5, <1>6, <1>7, <1>8 DEF Environment

LEMMA OrdersStep == OrdersInv /\ [Next]_vars => OrdersInv'
<1> SUFFICES ASSUME OrdersInv, [Next]_vars PROVE OrdersInv'
  OBVIOUS
<1>1. TypeInv /\ PayInv' /\ HandInv' /\ Spent'
  BY PayStep, HandStep, SpentStep DEF OrdersInv, HandInv
<1>2. ASSUME NEW r \in Requests, Arrive(r) PROVE OnlyOrdersArePaid'
  <2>1. RoutesStay /\ Carried' = Carried
    BY <1>1, <1>2, ArriveShape DEF RoutesStay, Started, Carried
  <2> QED
    BY <2>1, OnlyOrdersStay
<1>3. ASSUME NEW r \in Requests, Step(r) PROVE OnlyOrdersArePaid'
  BY <1>3, RequestIsStep, OnlyOrdersStay DEF StepOf, Sends, Carried
<1>4. ASSUME Environment \/ UNCHANGED vars PROVE OnlyOrdersArePaid'
  BY <1>1, <1>4, OthersShape, OnlyOrdersStay
<1> QED
  BY <1>1, <1>2, <1>3, <1>4 DEF Next, OrdersInv

LEMMA InitOrders == Init => OrdersInv
<1> SUFFICES ASSUME Init PROVE OrdersInv
  OBVIOUS
<1>1. PayInv /\ TypeInv
  BY InitPays DEF PayInv
<1>2. applied = {} /\ pool = {} /\ handed = {} /\ \A r \in Requests : req[r].pc = "idle"
  BY DEF Init, Idle
<1> QED
  BY <1>1, <1>2 DEF OrdersInv, HandInv, HandedOK, InHand, Spent, OnlyOrdersArePaid, Carried
-------------------------------------------------------------------------------
(***************************************************************************)
(* The abstract payments.                                                  *)
(***************************************************************************)

\* The orders, spelled out before and after a step.
LEMMA OrdersSpelledOut ==
  /\ OrderedPayments = {r \in Requests : IsPayment(r)}
  /\ OrderedPayments' = {r \in Requests : IsPayment(r)'}
  /\ ConfirmedPayments = {r \in Requests : Paid(r)}
  /\ ConfirmedPayments' = {r \in Requests : Paid(r)'}
BY DEF OrderedPayments, ConfirmedPayments, IsPayment, Started, Paid

LEMMA OrderedStay ==
  ASSUME RoutesStay, \A q \in Requests : req[q].pc = "idle" => req'[q].pc = "idle"
  PROVE  OrderedPayments' = OrderedPayments
BY OrdersSpelledOut, PaymentsStay DEF IsPayment, Started

LEMMA MadeStays == applied' = applied => PaymentsMade' = PaymentsMade
BY DEF PaymentsMade, PaymentsOf

\* A step that pays and tells nobody closes some orders, or none.
LEMMA LapseIsPayments ==
  ASSUME OrderedPayments' = OrderedPayments, ConfirmedPayments' = ConfirmedPayments,
         PaymentsMade' = PaymentsMade, OpenPayments' \subseteq OpenPayments
  PROVE  [Pay!PaymentsNext]_(Pay!payments)
<1> DEFINE S == OpenPayments \ OpenPayments'
<1>1. S \in SUBSET OpenPayments /\ OpenPayments' = OpenPayments \ S
  OBVIOUS
<1> HIDE DEF S
<1> QED
  BY <1>1 DEF Pay!PaymentsNext, Pay!Lapse

\* An answered payment that the network does not have is never sent.
LEMMA NothingReopens ==
  ASSUME OrdersInv, NEW r \in Requests, StepOf(r)
  PROVE  OpenPayments' \cap OrderedPayments \subseteq OpenPayments
<1> SUFFICES ASSUME NEW q \in Requests, q \in OpenPayments', IsPayment(q) PROVE q \in OpenPayments
  BY OrdersSpelledOut
<1>1. /\ \A x \in applied : x.tx.by # q
      /\ req'[q].pc # "done" \/ \E t \in pool' : t.by = q
  BY DEF OpenPayments, StepOf
<1>2. CASE req[q].pc # "done"
  BY <1>1, <1>2, OrdersSpelledOut DEF OpenPayments
<1>3. CASE req[q].pc = "done"
  <2>1. PICK t \in pool' : t.by = q
    BY <1>1, <1>3 DEF StepOf
  <2>2. t \in pool
    <3> SUFFICES ASSUME req[r].pc = "send", t = req[r].tx PROVE FALSE
      BY <2>1 DEF StepOf, Sends
    <3>1. req[r].tx.by = r
      BY <2>1 DEF OrdersInv, PayInv, Accounted, OwnTx, Holds
    <3> QED
      BY <1>3, <2>1, <3>1
  <2> QED
    BY <1>1, <2>1, <2>2, OrdersSpelledOut DEF OpenPayments
<1> QED
  BY <1>2, <1>3

\* A client is told only of its payment.
LEMMA PaidOnce ==
  ASSUME OrdersInv, NEW r \in Requests, IsPayment(r), NEW t \in Carried, t.by = r, t.kind = "claimable",
         [tx |-> t, ok |-> TRUE] \in applied
  PROVE  PaymentsMade[r] = 1
<1>1. \A u \in Carried : u.by = r => u = t
  BY DEF OrdersInv, PayInv, Accounted, OneTx, Single, CarriedBy
<1>2. \A x \in applied : x \in [tx : Transactions, ok : BOOLEAN] /\ x.tx \in Carried
  BY DEF OrdersInv, HandInv, TypeInv, NetworkTyped, Carried
<1> DEFINE x1 == [tx |-> t, ok |-> TRUE]
<1>3. x1 \in applied /\ x1.tx = t /\ x1.ok
  OBVIOUS
<1>4. ASSUME NEW x \in applied, x.tx.by = r, x.ok PROVE x = x1
  <2>1. x = [tx |-> x.tx, ok |-> x.ok] /\ x.ok \in BOOLEAN /\ x.tx = t
    BY <1>1, <1>2, <1>4
  <2>2. x.ok = TRUE
    BY <1>4, <2>1
  <2> QED
    BY <2>1, <2>2
<1> HIDE DEF x1
<1>5. PaymentsOf(r) = {x1}
  BY <1>3, <1>4 DEF PaymentsOf
<1>6. Cardinality(PaymentsOf(r)) = 1
  BY <1>5, FS_Singleton
<1> QED
  BY <1>6 DEF PaymentsMade

LEMMA RequestPays ==
  ASSUME OrdersInv, NEW r \in Requests, Step(r)
  PROVE  [Pay!PaymentsNext]_(Pay!payments)
<1>1. StepOf(r)
  BY RequestIsStep
<1>2. OrderedPayments' = OrderedPayments
  <2>1. req[r].pc # "idle"
    BY DEF Step, View, ViewFails, BuildAuthorize, BuildClaimable, BuildSponsored, BuildOnboard,
           BuildFails, Send, SendThrows, Confirmed, Unconfirmed
  <2> QED
    BY <1>1, <2>1, OrderedStay DEF StepOf
<1>3. OpenPayments' \subseteq OrderedPayments'
  BY DEF OpenPayments
<1>4. OpenPayments' \subseteq OpenPayments /\ PaymentsMade' = PaymentsMade
  BY <1>1, <1>2, <1>3, NothingReopens, MadeStays DEF StepOf
<1>5. ConfirmedPayments \subseteq ConfirmedPayments'
  BY <1>1, OrdersSpelledOut DEF StepOf, Paid
<1>6. CASE ConfirmedPayments' = ConfirmedPayments
  BY <1>2, <1>4, <1>6, LapseIsPayments
<1>7. CASE ConfirmedPayments' # ConfirmedPayments
  <2>1. /\ ConfirmedPayments' = ConfirmedPayments \cup {r} /\ IsPayment(r) /\ req[r].pc = "poll"
        /\ [tx |-> req[r].tx, ok |-> TRUE] \in applied
    BY <1>1, <1>5, <1>7, OrdersSpelledOut DEF StepOf
  <2>2. /\ req[r].tx.by = r /\ req[r].tx.kind = "claimable"
        /\ req[r].tx \in Carried
    BY <2>1 DEF OrdersInv, PayInv, Accounted, OwnTx, Holds, HandInv, InHand, Suits, IsPayment, Carried
  <2>3. PaymentsMade[r] = 1
    BY <2>1, <2>2, PaidOnce
  <2>4. OpenPayments' = OpenPayments
    <3>1. pool' = pool
      BY <2>1, <1>7
         DEF Step, View, ViewFails, BuildAuthorize, BuildClaimable, BuildSponsored, BuildOnboard,
             BuildFails, Send, SendThrows, Confirmed, Unconfirmed, network
    <3>2. r \notin OpenPayments
      <4>1. [tx |-> req[r].tx, ok |-> TRUE].tx.by = r
        BY <2>2
      <4> QED
        BY <2>1, <4>1 DEF OpenPayments
    <3>3. ASSUME NEW q \in OpenPayments PROVE q \in OpenPayments'
      <4>1. q \in Requests /\ q # r
        BY <3>2, <3>3 DEF OpenPayments, OrderedPayments
      <4>2. IsPayment(q) /\ \A x \in applied : x.tx.by # q
        BY <3>3, <4>1, OrdersSpelledOut DEF OpenPayments
      <4>3. req'[q] = req[q]
        <5>1. req[q].pc # "joined"
          BY <4>1, <4>2 DEF OrdersInv, PayInv, Accounted, OneTx
        <5> QED
          BY <1>1, <4>1, <5>1 DEF StepOf
      <4> QED
        BY <1>1, <1>2, <3>1, <3>3, <4>3 DEF OpenPayments, StepOf
    <3> QED
      BY <1>4, <3>3
  <2> QED
    BY <1>2, <1>4, <2>1, <2>3, <2>4 DEF Pay!PaymentsNext, Pay!Confirm
<1> QED
  BY <1>6, <1>7

\* A call of /v1/claimable/send is an order; any other changes nothing here.
LEMMA ArrivalOrders ==
  ASSUME OrdersInv, NEW r \in Requests, Arrive(r)
  PROVE  [Pay!PaymentsNext]_(Pay!payments)
<1>1. /\ req[r].pc = "idle" /\ req'[r].pc \notin {"idle", "done"}
      /\ \A q \in Requests : q # r => req'[q] = req[q]
      /\ UNCHANGED <<pool, applied>>
  BY ArriveShape DEF OrdersInv, HandInv
<1>2. PaymentsMade' = PaymentsMade /\ ConfirmedPayments' = ConfirmedPayments
  BY <1>1, MadeStays DEF ConfirmedPayments
<1>3. \A x \in applied : x.tx.by # r
  BY <1>1, IdleSentNothing DEF OrdersInv, CarriedBy, Carried
<1>4. r \notin OrderedPayments /\ \A q \in Requests : q # r => (q \in OrderedPayments' <=> q \in OrderedPayments)
  BY <1>1 DEF OrderedPayments
<1>5. \A q \in Requests : q # r => (q \in OpenPayments' <=> q \in OpenPayments)
  BY <1>1, <1>4 DEF OpenPayments
<1>6. r \notin OpenPayments /\ (r \in OpenPayments' <=> r \in OrderedPayments')
  BY <1>1, <1>3, <1>4 DEF OpenPayments
<1>7. /\ OrderedPayments \subseteq Requests /\ OrderedPayments' \subseteq Requests
      /\ OpenPayments \subseteq Requests /\ OpenPayments' \subseteq Requests
  BY DEF OrderedPayments, OpenPayments
<1>8. CASE r \in OrderedPayments'
  <2>1. OrderedPayments' = OrderedPayments \cup {r} /\ OpenPayments' = OpenPayments \cup {r}
    BY <1>4, <1>5, <1>6, <1>7, <1>8
  <2> QED
    BY <1>2, <1>4, <2>1 DEF Pay!PaymentsNext, Pay!Order
<1>9. CASE r \notin OrderedPayments'
  <2>1. OrderedPayments' = OrderedPayments /\ OpenPayments' = OpenPayments
    BY <1>4, <1>5, <1>6, <1>7, <1>9
  <2> QED
    BY <1>2, <2>1 DEF Pay!payments
<1> QED
  BY <1>8, <1>9

\* The ledger applies a transaction once: its number is used up by the first.
LEMMA AppliedOnce ==
  ASSUME OrdersInv, NEW t \in pool, Apply(t)
  PROVE  \A x \in applied : x.tx # t
<1>1. t \in Transactions /\ seq \in [Sources -> Nat] /\ t.seq = seq[t.source] + 1
  BY DEF Apply, OrdersInv, HandInv, TypeInv, NetworkTyped
<1>2. seq[t.source] \in Nat /\ ~(t.seq <= seq[t.source])
  BY <1>1 DEF Transactions
<1> QED
  BY <1>2 DEF OrdersInv, Spent

\* A payment's transaction pays its order, or closes it; no other pays.
LEMMA ApplyPays ==
  ASSUME OrdersInv, NEW t \in pool, Apply(t)
  PROVE  [Pay!PaymentsNext]_(Pay!payments)
<1> DEFINE o == t.by
<1>1. PICK ok \in BOOLEAN : applied' = applied \cup {[tx |-> t, ok |-> ok]}
  BY ApplyHasEffect DEF Effect, OrdersInv, HandInv
<1>2. req' = req /\ pool' = pool \ {t}
  BY DEF Apply, relayerVars
<1>3. OrderedPayments' = OrderedPayments /\ ConfirmedPayments' = ConfirmedPayments
  BY <1>2 DEF OrderedPayments, ConfirmedPayments
<1>4. o \in Requests /\ t \in Carried
  BY DEF OrdersInv, PayInv, Authored, Carried
<1>5. OpenPayments' = OpenPayments \ {o}
  <2>1. o \notin OpenPayments'
    <3>1. [tx |-> t, ok |-> ok] \in applied' /\ [tx |-> t, ok |-> ok].tx.by = o
      BY <1>1
    <3> QED
      BY <3>1 DEF OpenPayments
  <2>2. ASSUME NEW q \in Requests, q # o PROVE q \in OpenPayments' <=> q \in OpenPayments
    <3>1. (\A x \in applied' : x.tx.by # q) <=> (\A x \in applied : x.tx.by # q)
      BY <1>1, <2>2
    <3>2. (\E u \in pool' : u.by = q) <=> (\E u \in pool : u.by = q)
      BY <1>2, <2>2
    <3> QED
      BY <1>2, <1>3, <3>1, <3>2 DEF OpenPayments
  <2>3. OpenPayments \subseteq Requests /\ OpenPayments' \subseteq Requests
    BY DEF OpenPayments, OrderedPayments
  <2> QED
    BY <2>1, <2>2, <2>3
<1>6. CASE t.kind = "claimable" /\ ok = TRUE
  <2>1. IsPayment(o)
    BY <1>4, <1>6 DEF OrdersInv, OnlyOrdersArePaid
  <2>2. \A x \in applied : x.tx.by # o
    <3> SUFFICES ASSUME NEW x \in applied, x.tx.by = o PROVE FALSE
      OBVIOUS
    <3>1. x.tx \in Carried
      BY DEF Carried
    <3>2. x.tx = t
      BY <1>4, <2>1, <3>1 DEF OrdersInv, PayInv, Accounted, OneTx, Single, CarriedBy
    <3> QED
      BY <3>2, AppliedOnce
  <2>3. o \in OpenPayments
    BY <1>4, <2>1, <2>2, OrdersSpelledOut DEF OpenPayments
  <2>4. PaymentsMade' = [PaymentsMade EXCEPT ![o] = @ + 1]
    <3> DEFINE x1 == [tx |-> t, ok |-> ok]
    <3>1. x1.tx = t /\ x1.ok /\ applied' = applied \cup {x1}
      BY <1>1, <1>6
    <3> HIDE DEF x1
    <3>2. PaymentsOf(o) = {} /\ PaymentsOf(o)' = {x1}
      BY <1>6, <2>2, <3>1 DEF PaymentsOf
    <3>3. Cardinality(PaymentsOf(o)) = 0 /\ Cardinality(PaymentsOf(o)') = 1
      BY <3>2, FS_EmptySet, FS_Singleton
    <3>4. \A q \in Requests : q # o => PaymentsOf(q)' = PaymentsOf(q)
      BY <3>1 DEF PaymentsOf
    <3>5. \A q \in Requests : PaymentsMade'[q] = IF q = o THEN PaymentsMade[o] + 1 ELSE PaymentsMade[q]
      BY <1>4, <3>3, <3>4 DEF PaymentsMade
    <3> QED
      BY <3>5 DEF PaymentsMade
  <2> QED
    BY <1>3, <1>4, <1>5, <2>3, <2>4 DEF Pay!PaymentsNext, Pay!Make
<1>7. CASE ~(t.kind = "claimable" /\ ok = TRUE)
  <2> DEFINE x1 == [tx |-> t, ok |-> ok]
  <2>1. x1.tx = t /\ x1.ok = ok /\ applied' = applied \cup {x1}
    BY <1>1
  <2> HIDE DEF x1
  <2>2. \A q \in Requests : PaymentsOf(q)' = PaymentsOf(q)
    BY <1>7, <2>1 DEF PaymentsOf
  <2>3. PaymentsMade' = PaymentsMade
    BY <2>2 DEF PaymentsMade
  <2> QED
    BY <1>3, <1>5, <2>3, LapseIsPayments
<1> QED
  BY <1>6, <1>7

\* Drops and restarts close orders, and so do answers.
LEMMA OthersPay ==
  ASSUME OrdersInv, Environment \/ UNCHANGED vars
  PROVE  [Pay!PaymentsNext]_(Pay!payments)
<1>1. /\ RoutesStay /\ pool' \subseteq pool
      /\ \A q \in Requests : req'[q] = req[q] \/ (Active(q) /\ req'[q].pc = "done" /\ req'[q].answer = "lost")
      /\ applied' = applied \/ \E t \in pool : Apply(t)
  BY OthersShape DEF OrdersInv, HandInv
<1>2. CASE applied' = applied
  <2>1. OrderedPayments' = OrderedPayments /\ PaymentsMade' = PaymentsMade
    BY <1>1, <1>2, OrderedStay, MadeStays DEF Active
  <2>2. ConfirmedPayments' = ConfirmedPayments
    BY <1>1 DEF ConfirmedPayments, Active
  <2>3. OpenPayments' \subseteq OpenPayments
    <3> SUFFICES ASSUME NEW q \in OpenPayments' PROVE q \in OpenPayments
      OBVIOUS
    <3>1. q \in OrderedPayments /\ q \in Requests /\ \A x \in applied : x.tx.by # q
      BY <1>2, <2>1 DEF OpenPayments, OrderedPayments
    <3>2. req'[q].pc # "done" \/ \E t \in pool : t.by = q
      BY <1>1 DEF OpenPayments
    <3>3. req[q].pc # "done" \/ \E t \in pool : t.by = q
      BY <1>1, <3>1, <3>2 DEF Active
    <3> QED
      BY <3>1, <3>3 DEF OpenPayments
  <2> QED
    BY <2>1, <2>2, <2>3, LapseIsPayments
<1> QED
  BY <1>1, <1>2, ApplyPays

\* Relayer, ledger and network together keep the promise of the payments: for
\* any number of calls, each is paid once at most and only while it is open, a
\* confirmed one has been paid, and one that is answered and not in the network
\* is never paid later, whatever is dropped, repeated or restarted.
THEOREM PaymentsRefinement == Spec => ImplementsPayments
<1>1. Init => Pay!PaymentsInit
  <2> SUFFICES ASSUME Init PROVE Pay!PaymentsInit
    OBVIOUS
  <2>1. applied = {} /\ \A r \in Requests : req[r].pc = "idle"
    BY DEF Init, Idle
  <2>2. OrderedPayments = {} /\ ConfirmedPayments = {}
    BY <2>1 DEF OrderedPayments, ConfirmedPayments
  <2>3. OpenPayments = {}
    BY <2>2 DEF OpenPayments
  <2>4. PaymentsMade = [r \in Requests |-> 0]
    <3>1. \A r : PaymentsOf(r) = {}
      BY <2>1 DEF PaymentsOf
    <3> QED
      BY <3>1, FS_EmptySet DEF PaymentsMade
  <2> QED
    BY <2>2, <2>3, <2>4 DEF Pay!PaymentsInit
<1>2. OrdersInv /\ [Next]_vars => [Pay!PaymentsNext]_(Pay!payments)
  BY ArrivalOrders, RequestPays, OthersPay DEF Next
<1> QED
  BY <1>1, <1>2, InitOrders, OrdersStep, PTL DEF Spec, ImplementsPayments, Pay!PaymentsSpec
===============================================================================
