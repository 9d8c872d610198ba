------------------------------- MODULE Relayer -------------------------------
(***************************************************************************)
(* The relayer (packages/relayer/src): concurrent HTTP requests that read  *)
(* the ledger, decide, build a transaction from the relayer's account,     *)
(* submit it and wait.  Every await is a point where other requests, other *)
(* submitters, the issuer and the holder move, so one request is several   *)
(* steps: view, build, send, poll.  The process may crash between them;    *)
(* what it has submitted stays with the network.                           *)
(*                                                                         *)
(* The asset is a pinned, regulated one.  The ledger and the RPC endpoint  *)
(* are external: a transaction is admitted in the order of its source's    *)
(* sequence number, one per source at a time, and may be dropped.          *)
(* Requests that a stateless check refuses (unknown asset, bad address,    *)
(* wrong token, an envelope validateSep7Callback rejects) change nothing   *)
(* and are left out.                                                       *)
(***************************************************************************)
EXTENDS Integers, FiniteSets

CONSTANTS
  Requests,      \* the HTTP requests clients make, each once
  Accounts,      \* G-address holders
  Contracts,     \* C-address holders
  Relayer,       \* the relayer's account
  NoRequest,     \* no request: an empty slot of inflightAuthorize
  Governs,       \* the pinned authorizer is the SAC admin
  MaxHolderMoves \* bound on the transactions a holder sends by itself

ASSUME HoldersDisjoint == Accounts \cap Contracts = {}
ASSUME RelayerApart    == Relayer \notin Accounts \cup Contracts
ASSUME NoRequestApart  == NoRequest \notin Requests
ASSUME GovernsBoolean  == Governs \in BOOLEAN
ASSUME MovesAreNat     == MaxHolderMoves \in Nat

Holders == Accounts \cup Contracts
Sources == Holders \cup {Relayer}

VARIABLES
  acct,      \* ledger: each holder's account, "none", "poor" or "funded"
  line,      \* ledger: each holder's line, "none", "unauth" or "auth"
  banned,    \* ledger: the authorizer's denylist
  seq,       \* ledger: each source account's sequence number
  pool,      \* network: transactions admitted and not yet applied
  applied,   \* ledger: transactions applied, with their result
  req,       \* relayer: the progress of each request
  inflight,  \* relayer: inflightAuthorize, the leading request per holder
  handed,    \* envelopes handed out by /v1/sep7/request
  seen       \* history: what the ledger showed while each request ran

ledger      == <<acct, line, banned>>
network     == <<seq, pool, applied>>
relayerVars == <<req, inflight, handed>>
vars        == <<ledger, network, relayerVars, seen>>

Routes   == {"authorize", "callback", "request", "claimable"}
Kinds    == {"authorize", "sponsored", "onboard", "claimable"}
Refusals == {"account_banned", "account_not_allowed", "no_trustline", "authorizer_paused"}
Answers  == {"none", "already", "authorized", "handed", "paid", "chain_error",
             "contract_error", "internal", "lost"} \cup Refusals

\* A transaction: built by request `by`, for `holder`, with the sequence number
\* its source had at build time, plus one.
Tx(kind, h, source, r, create) ==
  [kind |-> kind, holder |-> h, source |-> source, seq |-> seq[source] + 1,
   by |-> r, create |-> create]

Idle == [pc |-> "idle"]
Done(route, h, a) == [pc |-> "done", route |-> route, holder |-> h, answer |-> a]

Active(r) == req[r].pc \notin {"idle", "done"}

-------------------------------------------------------------------------------
(***************************************************************************)
(* The ledger.                                                             *)
(***************************************************************************)

\* What authorize_trustline would answer for a holder whose line is in state l.
VerdictOn(h, l) ==
  IF h \in banned                    THEN "account_banned"
  ELSE IF l = "none" \/ ~Governs     THEN "no_trustline"
  ELSE "ok"

Verdict(h) == VerdictOn(h, line[h])

\* What a request could have observed: an authorized line, and the verdict the
\* authorizer would have given.
Facts == [h \in Holders |-> (IF line[h] = "auth" THEN {"authorized"} ELSE {}) \cup {Verdict(h)}]

\* Facts accumulate over a request's life, from the state it arrives in to the
\* one it is answered in, and are then forgotten; a request that shares a
\* promise has the life of that promise.
Witness ==
  seen' = [r \in Requests |->
             CASE req'[r].pc \in {"idle", "done"} -> {}
               [] req'[r].pc = "joined" -> seen[req'[r].leader] \cup Facts'[req'[r].holder]
               [] OTHER                 -> seen[r] \cup Facts'[req'[r].holder]]

Trusted(h) == IF line[h] = "none" THEN "unauth" ELSE line[h]

\* The router: the line after onboard, or "refused" for a rolled-back call.
Routed(h) ==
  IF line[h] = "auth"                    THEN "auth"
  ELSE IF ~Governs                       THEN Trusted(h)
  ELSE IF VerdictOn(h, Trusted(h)) = "ok" THEN "auth"
  ELSE "refused"

Effect(t, ok, l, a) ==
  /\ applied' = applied \cup {[tx |-> t, ok |-> ok]}
  /\ line' = [line EXCEPT ![t.holder] = l]
  /\ acct' = [acct EXCEPT ![t.holder] = a]

\* A ledger closes with t.
Apply(t) ==
  LET h == t.holder IN
  /\ t \in pool /\ t.seq = seq[t.source] + 1
  /\ pool' = pool \ {t}
  /\ seq' = [seq EXCEPT ![t.source] = t.seq]
  /\ CASE t.kind = "authorize" ->
            Effect(t, Verdict(h) = "ok", IF Verdict(h) = "ok" THEN "auth" ELSE line[h], acct[h])
       [] t.kind = "onboard" ->
            Effect(t, Routed(h) # "refused", IF Routed(h) = "refused" THEN line[h] ELSE Routed(h), acct[h])
       [] t.kind = "sponsored" ->
            IF t.create = (acct[h] = "none")
            THEN Effect(t, TRUE, Trusted(h), IF t.create THEN "poor" ELSE acct[h])
            ELSE Effect(t, FALSE, line[h], acct[h])
       [] t.kind = "claimable" ->
            \E ok \in BOOLEAN : Effect(t, ok, line[h], acct[h])
  /\ UNCHANGED <<banned, relayerVars>>
  /\ Witness

\* t leaves the pool unapplied: its time bound passed, or it was evicted.
Drop(t) ==
  /\ t \in pool
  /\ pool' = pool \ {t}
  /\ UNCHANGED <<ledger, seq, applied, relayerVars>>
  /\ Witness

\* The issuer, through its authorizer, for as long as nobody pauses it.
IssuerFreezes(h) ==
  /\ Governs /\ h \notin banned
  /\ banned' = banned \cup {h}
  /\ line' = [line EXCEPT ![h] = IF @ = "auth" THEN "unauth" ELSE @]
  /\ UNCHANGED <<acct, network, relayerVars>>
  /\ Witness

IssuerUnfreezes(h) ==
  /\ Governs /\ h \in banned
  /\ banned' = banned \ {h}
  /\ line' = [line EXCEPT ![h] = IF @ = "unauth" THEN "auth" ELSE @]
  /\ UNCHANGED <<acct, network, relayerVars>>
  /\ Witness

\* The holder opens or closes its line with a transaction of its own.
HolderMoves(h) ==
  /\ h \in Accounts /\ acct[h] = "funded" /\ seq[h] < MaxHolderMoves
  /\ seq' = [seq EXCEPT ![h] = @ + 1]
  /\ line' = [line EXCEPT ![h] = IF @ = "none" THEN "unauth" ELSE "none"]
  /\ UNCHANGED <<acct, banned, pool, applied, relayerVars>>
  /\ Witness

-------------------------------------------------------------------------------
(***************************************************************************)
(* Answering.                                                              *)
(***************************************************************************)

\* Mutant of Answered: only the leader's client is answered.
AnsweredAlone(r, a) == [req EXCEPT ![r] = Done(req[r].route, req[r].holder, a)]

\* r is answered a, and with it every request that shares its promise.
Answered(r, a) ==
  [q \in Requests |->
     IF q = r \/ (req[q].pc = "joined" /\ req[q].leader = r)
     THEN Done(req[q].route, req[q].holder, a) ELSE req[q]]

\* .finally(() => inflightAuthorize.delete(key))
Released(r) == [h \in Holders |-> IF inflight[h] = r THEN NoRequest ELSE inflight[h]]

Finish(r, a) == req' = Answered(r, a) /\ inflight' = Released(r)

\* Mutant of ExplainChainError: the first two refusals are swapped.
ExplainSwapped(code) ==
  CASE code = 1 -> "account_not_allowed"
    [] code = 2 -> "account_banned"
    [] code = 3 -> "no_trustline"
    [] code = 4 -> "authorizer_paused"
    [] code = 0 -> "chain_error"
    [] OTHER    -> "contract_error"

\* explainChainError: the contract error code decides, whichever contract it
\* came from; 0 stands for a failure without one.  The codes of a contract_error
\* are none that the authorizer or the router fails with for these holders.
ExplainChainError(code) ==
  CASE code = 1 -> "account_banned"
    [] code = 2 -> "account_not_allowed"
    [] code = 3 -> "no_trustline"
    [] code = 4 -> "authorizer_paused"
    [] code = 0 -> "chain_error"
    [] OTHER    -> "contract_error"

\* The error code authorize_trustline fails with under a denylist, and the ones
\* onboard fails with.
AuthorizerCode(h) ==
  CASE Verdict(h) = "account_banned"    -> 1
    [] Verdict(h) = "no_trustline"      -> 3

RouterCode == [NotSac |-> 1, TrustFailed |-> 2, AuthorizationRefused |-> 3, NotAuthorized |-> 4]

-------------------------------------------------------------------------------
(***************************************************************************)
(* Requests.                                                               *)
(***************************************************************************)

\* Mutant of Join: the promise is not looked up.
JoinNever(h) == FALSE

\* A pending authorize for the same holder is shared.
Join(h) == inflight[h] # NoRequest

ArriveAuthorize(r, h) ==
  /\ req[r].pc = "idle"
  /\ IF Join(h)
     THEN /\ req' = [req EXCEPT ![r] = [pc |-> "joined", route |-> "authorize",
                                       holder |-> h, leader |-> inflight[h]]]
          /\ UNCHANGED inflight
     ELSE /\ req' = [req EXCEPT ![r] = [pc |-> "view", route |-> "authorize", holder |-> h]]
          /\ inflight' = [inflight EXCEPT ![h] = r]
  /\ UNCHANGED <<ledger, network, handed>>
  /\ Witness

ArriveRequest(r, h) ==
  /\ req[r].pc = "idle"
  /\ req' = [req EXCEPT ![r] = [pc |-> "view", route |-> "request", holder |-> h]]
  /\ UNCHANGED <<ledger, network, inflight, handed>>
  /\ Witness

\* A wallet returns a signed envelope; it may return the same one twice.
ArriveCallback(r, e) ==
  /\ req[r].pc = "idle" /\ e \in handed
  /\ req' = [req EXCEPT ![r] = [pc |-> "view", route |-> "callback", holder |-> e.holder, tx |-> e]]
  /\ UNCHANGED <<ledger, network, inflight, handed>>
  /\ Witness

\* No read of the recipient: the relayer's sequence number is next.
ArriveClaimable(r, h) ==
  /\ req[r].pc = "idle" /\ h \in Accounts
  /\ req' = [req EXCEPT ![r] = [pc |-> "build", route |-> "claimable", holder |-> h,
                                next |-> "claimable"]]
  /\ UNCHANGED <<ledger, network, inflight, handed>>
  /\ Witness

\* Mutant of DiagnoseCase: a line is ready, whether it is authorized or not.
DiagnoseLineAsReady(h, l) ==
  CASE h \in Contracts                        -> "onboard"
    [] h \notin Contracts /\ acct[h] = "none" -> "sponsored"
    [] h \notin Contracts /\ acct[h] # "none" ->
         IF l # "none" THEN "ready"
         ELSE IF acct[h] = "poor" THEN "sponsored" ELSE "onboard"

\* diagnoseCase for a holder that is not ready, from what the view read.
DiagnoseCase(h, l) ==
  CASE h \in Contracts                        -> "onboard"
    [] h \notin Contracts /\ acct[h] = "none" -> "sponsored"
    [] h \notin Contracts /\ acct[h] # "none" ->
         IF l # "none" THEN "authorize"
         ELSE IF acct[h] = "poor" THEN "sponsored" ELSE "onboard"

Sending(q, t) == [pc |-> "send", route |-> q.route, holder |-> q.holder, tx |-> t]
Polling(q)    == [pc |-> "poll", route |-> q.route, holder |-> q.holder, tx |-> q.tx]

\* ops.view answers: with the ledger's state or, when the status read failed,
\* with a readError that computeReady takes for a missing line.
View(r) ==
  LET q == req[r]
      h == q.holder
  IN /\ q.pc = "view"
     /\ \E l \in {line[h], "none"} :
          IF l = "auth" THEN Finish(r, "already")
          ELSE /\ req' = [req EXCEPT ![r] =
                     CASE q.route = "authorize" ->
                            [pc |-> "build", route |-> q.route, holder |-> h, next |-> "authorize"]
                       [] q.route = "request"   ->
                            [pc |-> "build", route |-> q.route, holder |-> h,
                             next |-> DiagnoseCase(h, l), create |-> acct[h] = "none"]
                       [] q.route = "callback"  -> Sending(q, q.tx)]
               /\ UNCHANGED inflight
     /\ UNCHANGED <<ledger, network, handed>>
     /\ Witness

\* The account read of the view throws: an unhandled error, answered 500.
ViewFails(r) ==
  /\ req[r].pc = "view"
  /\ Finish(r, "internal")
  /\ UNCHANGED <<ledger, network, handed>>
  /\ Witness

\* buildAuthorizeTx: sequence number, then a simulation that already refuses.
BuildAuthorize(r) ==
  LET q == req[r]
      h == q.holder
  IN /\ q.pc = "build" /\ q.next = "authorize"
     /\ IF Verdict(h) = "ok"
        THEN /\ req' = [req EXCEPT ![r] = Sending(q, Tx("authorize", h, Relayer, r, FALSE))]
             /\ UNCHANGED inflight
        ELSE Finish(r, ExplainChainError(AuthorizerCode(h)))
     /\ UNCHANGED <<ledger, network, handed>>
     /\ Witness

BuildClaimable(r) ==
  LET q == req[r]
  IN /\ q.pc = "build" /\ q.next = "claimable"
     /\ req' = [req EXCEPT ![r] = Sending(q, Tx("claimable", q.holder, Relayer, r, FALSE))]
     /\ UNCHANGED <<ledger, network, inflight, handed>>
     /\ Witness

\* The sandwich leaves signed by the relayer, bound to its sequence number.
BuildSponsored(r) ==
  LET q == req[r]
      h == q.holder
  IN /\ q.pc = "build" /\ q.next = "sponsored"
     /\ handed' = handed \cup {Tx("sponsored", h, Relayer, r, q.create)}
     /\ Finish(r, "handed")
     /\ UNCHANGED <<ledger, network>>
     /\ Witness

\* The router call is simulated; the holder sources it, or the relayer for a
\* contract holder.
BuildOnboard(r) ==
  LET q == req[r]
      h == q.holder
      source == IF h \in Contracts THEN Relayer ELSE h
  IN /\ q.pc = "build" /\ q.next = "onboard"
     /\ IF Routed(h) # "refused"
        THEN /\ handed' = handed \cup {Tx("onboard", h, source, r, FALSE)}
             /\ Finish(r, "handed")
        ELSE /\ Finish(r, ExplainChainError(RouterCode.AuthorizationRefused))
             /\ UNCHANGED handed
     /\ UNCHANGED <<ledger, network>>
     /\ Witness

\* A read the build needs fails.
BuildFails(r) ==
  /\ req[r].pc = "build"
  /\ Finish(r, "chain_error")
  /\ UNCHANGED <<ledger, network, handed>>
  /\ Witness

-------------------------------------------------------------------------------
(***************************************************************************)
(* submit: sendTransaction, then getTransaction until the deadline.        *)
(***************************************************************************)

BadSeq(t) == t.seq # seq[t.source] + 1

\* The pool holds one transaction per source; a resend of that one is a
\* DUPLICATE, any other is told TRY_AGAIN_LATER.
Admitted(t) == IF \E u \in pool : u.source = t.source THEN pool ELSE pool \cup {t}

\* PENDING, DUPLICATE and TRY_AGAIN_LATER are all waited on; only ERROR throws.
Send(r) ==
  LET t == req[r].tx
  IN /\ req[r].pc = "send"
     /\ IF BadSeq(t)
        THEN Finish(r, "chain_error") /\ UNCHANGED pool
        ELSE /\ pool' = Admitted(t)
             /\ req' = [req EXCEPT ![r] = Polling(@)]
             /\ UNCHANGED inflight
     /\ UNCHANGED <<ledger, seq, applied, handed>>
     /\ Witness

\* The call throws: before the transaction reached the network, or after.
SendThrows(r) ==
  /\ req[r].pc = "send"
  /\ \/ UNCHANGED pool
     \/ ~BadSeq(req[r].tx) /\ pool' = Admitted(req[r].tx)
  /\ Finish(r, "chain_error")
  /\ UNCHANGED <<ledger, seq, applied, handed>>
  /\ Witness

\* Mutant of AuthorizeFollows: the sponsored trustline is left unauthorized.
AuthorizeNeverFollows(q) == FALSE

\* Case B on a regulated asset: the relayer authorizes in a second transaction.
AuthorizeFollows(q) == q.route = "callback" /\ q.tx.kind = "sponsored"

Confirmed(r) ==
  LET q == req[r]
  IN /\ q.pc = "poll" /\ [tx |-> q.tx, ok |-> TRUE] \in applied
     /\ IF AuthorizeFollows(q)
        THEN /\ req' = [req EXCEPT ![r] = [pc |-> "build", route |-> "callback",
                                          holder |-> q.holder, next |-> "authorize"]]
             /\ UNCHANGED inflight
        ELSE Finish(r, IF q.route = "claimable" THEN "paid" ELSE "authorized")
     /\ UNCHANGED <<ledger, network, handed>>
     /\ Witness

\* Mutant of NotConfirmed: a transaction nobody has seen counts as sent.
NotConfirmedIsSuccess(q) ==
  IF [tx |-> q.tx, ok |-> FALSE] \in applied THEN "chain_error"
  ELSE IF q.route = "claimable" THEN "paid" ELSE "authorized"

\* The transaction failed, a read threw, or the deadline passed first: the
\* error text carries no contract code.
NotConfirmed(q) == ExplainChainError(0)

Unconfirmed(r) ==
  LET q == req[r]
  IN /\ q.pc = "poll"
     /\ Finish(r, NotConfirmed(q))
     /\ UNCHANGED <<ledger, network, handed>>
     /\ Witness

\* The process restarts: requests and the map are gone, the network's state
\* is not.
Crash ==
  /\ \E r \in Requests : Active(r)
  /\ req' = [r \in Requests |-> IF Active(r) THEN Done(req[r].route, req[r].holder, "lost") ELSE req[r]]
  /\ inflight' = [h \in Holders |-> NoRequest]
  /\ UNCHANGED <<ledger, network, handed>>
  /\ Witness

-------------------------------------------------------------------------------
Init ==
  /\ acct \in [Holders -> {"none", "poor", "funded"}]
  /\ \A c \in Contracts : acct[c] = "funded"
  /\ line = [h \in Holders |-> IF h \in Contracts THEN "unauth" ELSE "none"]
  /\ banned = {}
  /\ seq = [s \in Sources |-> 0]
  /\ pool = {} /\ applied = {}
  /\ req = [r \in Requests |-> Idle]
  /\ inflight = [h \in Holders |-> NoRequest]
  /\ handed = {}
  /\ seen = [r \in Requests |-> {}]

Arrive(r) ==
  \/ \E h \in Holders : ArriveAuthorize(r, h) \/ ArriveRequest(r, h) \/ ArriveClaimable(r, h)
  \/ \E e \in handed : ArriveCallback(r, e)

Step(r) ==
  \/ View(r) \/ ViewFails(r)
  \/ BuildAuthorize(r) \/ BuildClaimable(r) \/ BuildSponsored(r) \/ BuildOnboard(r) \/ BuildFails(r)
  \/ Send(r) \/ SendThrows(r)
  \/ Confirmed(r) \/ Unconfirmed(r)

Environment ==
  \/ \E t \in pool : Apply(t) \/ Drop(t)
  \/ \E h \in Holders : IssuerFreezes(h) \/ IssuerUnfreezes(h) \/ HolderMoves(h)
  \/ Crash

Next == (\E r \in Requests : Arrive(r) \/ Step(r)) \/ Environment

\* Nothing is promised of the RPC endpoint: rpc.Server is created without a
\* timeout, and submit looks at its deadline between polls only.
Spec == Init /\ [][Next]_vars

-------------------------------------------------------------------------------
(***************************************************************************)
(* Properties.                                                             *)
(***************************************************************************)

Transactions ==
  [kind : Kinds, holder : Holders, source : Sources, seq : Nat, by : Requests, create : BOOLEAN]

RequestOK(q) ==
  \/ q.pc = "idle"
  \/ /\ q.route \in Routes /\ q.holder \in Holders
     /\ \/ q.pc = "done" /\ q.answer \in Answers
        \/ q.pc = "view" /\ q.route # "claimable"
        \/ q.pc = "joined" /\ q.leader \in Requests
        \/ q.pc = "build" /\ q.next \in Kinds
        \/ q.pc \in {"send", "poll"} /\ q.tx \in Transactions

\* The shape of the state; the pool holds one live transaction per source.
RelayerTypeOK ==
  /\ acct \in [Holders -> {"none", "poor", "funded"}]
  /\ line \in [Holders -> {"none", "unauth", "auth"}]
  /\ banned \in SUBSET Holders
  /\ seq \in [Sources -> Nat]
  /\ \A t \in pool : t \in Transactions
  /\ \A t, u \in pool : t.source = u.source => t = u
  /\ \A r \in Requests : RequestOK(req[r])
  /\ inflight \in [Holders -> Requests \cup {NoRequest}]
  /\ \A t \in handed : t \in Transactions

\* The /authorize requests that work for holder h themselves.
AtWork(h) ==
  {r \in Requests : /\ Active(r) /\ req[r].pc # "joined"
                    /\ req[r].route = "authorize" /\ req[r].holder = h}

\* "Concurrent authorizes for the same (network, asset, account) coalesce onto
\* one promise" (inflightAuthorize): whatever errors, timeouts and restarts
\* happen, the map names exactly the one /authorize request at work for each
\* holder, and every request that waits does so on a request at work.
OneAuthorizeAtWork ==
  /\ \A h \in Holders : AtWork(h) = {inflight[h]} \ {NoRequest}
  /\ \A r \in Requests : req[r].pc = "joined" => req[r].leader \in AtWork(req[r].holder)

\* r is answered, with one of these answers.
Told(r, answers) == Active(r) /\ req'[r].pc = "done" /\ req'[r].answer \in answers

\* "authorized: true" is a statement about the ledger: a client told so had an
\* authorized line at some moment while its request ran, also when the
\* envelope was posted twice, the issuer moved, or the read had failed.
SuccessIsTruthful ==
  [][\A r \in Requests :
       Told(r, {"already", "authorized"}) => "authorized" \in seen[r]]_vars

\* "Refusals are typed, straight from the authorizer contract" (runbook): a
\* client of a route that only ever simulates the authorizer, told account_banned,
\* account_not_allowed or no_trustline, was refused for that by the authorizer
\* at some moment while its request ran.
AuthorizeRefusalsAreTheAuthorizers ==
  [][\A r \in Requests :
       Told(r, Refusals) /\ req[r].route # "request" => req'[r].answer \in seen[r]]_vars

\* The calls of /v1/claimable/send as orders.  One is open until the ledger has
\* its transaction or, once it is answered, until the network has none of it.
OrderedPayments == {r \in Requests : req[r].pc # "idle" /\ req[r].route = "claimable"}
OpenPayments ==
  {r \in OrderedPayments :
     /\ \A x \in applied : x.tx.by # r
     /\ req[r].pc # "done" \/ \E t \in pool : t.by = r}
PaymentsOf(r)     == {x \in applied : x.tx.kind = "claimable" /\ x.tx.by = r /\ x.ok}
PaymentsMade      == [r \in Requests |-> Cardinality(PaymentsOf(r))]
ConfirmedPayments == {r \in Requests : req[r].pc = "done" /\ req[r].answer = "paid"}

Pay == INSTANCE Payments WITH
         Orders    <- Requests,
         ordered   <- OrderedPayments,
         open      <- OpenPayments,
         made      <- PaymentsMade,
         confirmed <- ConfirmedPayments

\* "returns the balance id" (handoff guide): a client of /v1/claimable/send that
\* gets one has been paid, once; nothing is paid that nobody ordered; and a call
\* that was answered otherwise is not paid later, unless its one transaction
\* still waits in the network.
ImplementsPayments == Pay!PaymentsSpec

\* "502 chain_error is RPC trouble; the service holds no state, so
\* restart/retry freely" (runbook): a payment answered chain_error was not
\* made and will not be, so that a retry cannot make it a second time.
ChainErrorIsUnpaid ==
  \A r \in Requests :
    req[r].pc = "done" /\ req[r].route = "claimable" /\ req[r].answer = "chain_error"
      => \A x \in applied : x.tx.by = r => ~x.ok

\* What r waits for is a step of q: its own or, while it shares q's promise,
\* q's.
WaitsOn(r, q) == q = r \/ (req[r].pc = "joined" /\ req[r].leader = q)

\* Every request is answered whose RPC calls are settled, its leader's among
\* them while it shares a promise: no error, deadline or restart leaves its
\* client or the map waiting, and neither does another request that hangs.
EveryRequestIsAnswered ==
  \A r \in Requests :
    (\A q \in Requests : WF_vars(WaitsOn(r, q) /\ Step(q)))
      => (req[r].pc # "idle" ~> req[r].pc = "done")
===============================================================================
