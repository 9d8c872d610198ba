-------------------------------- MODULE Handoff --------------------------------
(***************************************************************************)
(* An integrator hands transactions to holders' wallets as SEP-7 requests: *)
(* it onboards a holder, or delivers a claimable balance and takes the     *)
(* holder through the steps of the claim.  The wallet signs whatever the   *)
(* request asks for, and the envelope goes to the network or to the        *)
(* relayer's callback, which anybody else may call too.                    *)
(***************************************************************************)
EXTENDS Envelopes, Claims

CONSTANTS
  Strange,      \* envelopes that anybody posts to the callback
  Predicates,   \* predicates other senders put on a holder's balance
  ReclaimAfter, \* the integrator's sweep delays; 0 is none
  MaxTime       \* bound on the clock

ASSUME TimesAreNat  == ReclaimAfter \subseteq Nat /\ MaxTime \in Nat
ASSUME StrangeTyped == Strange \subseteq Transactions
ASSUME PredicatesNest == Predicates \subseteq AllPredicates

VARIABLES
  ledger,    \* accounts, lines, and who paid for what in the last envelope
  balance,   \* the balance waiting, or NoBalance
  now,       \* the clock
  request,   \* the request at a wallet, or NoRequest
  plan,      \* the steps of the claim still to take
  claim,     \* whose claim the plan is, of which asset
  disturbed, \* history: somebody else moved since the plan was made
  outcome    \* history: how the last envelope fared

vars == <<ledger, balance, now, request, plan, claim, disturbed, outcome>>

NoBalance == Balance(NoAsset, {}, 0)
NoRequest == [user |-> Nobody]
NoClaim   == [who |-> Nobody, asset |-> NoAsset]

HasLine(w, a)      == <<w, a>> \in ledger.lines
IsAuthorized(w, a) == <<w, a>> \in ledger.auth

Idle == request = NoRequest /\ outcome = "none"

-------------------------------------------------------------------------------
(***************************************************************************)
(* The integrator.                                                         *)
(***************************************************************************)

\* A request, if onboardingRequest hands it out.  The integrator may sign what
\* it must co-sign, and may name the signer; callback is "none", "relayer" (its
\* open endpoint), or "own" (it countersigns what it built).
Offer(env, user, asset, callbacks) ==
  \E signs, names \in BOOLEAN, callback \in callbacks :
    LET e == IF signs /\ Relayer \in Signers(env) THEN Signed(env, Relayer) ELSE env
    IN /\ HandsOut(e, user, callback # "none")
       /\ request' = [user |-> user, asset |-> asset, env |-> e, callback |-> callback,
                      pubkey |-> IF names THEN PubkeyOf(user) ELSE Nobody]

\* The line of a holder that the relayer's sep7/request builds: by the router,
\* or sponsored, with the account where there is none.
RequestedOfRelayer(w, a) ==
  IF w \in Contracts THEN {OnboardRouter(w, Relayer, a)}
  ELSE {SponsoredOnboard(Relayer, w, a, w \notin ledger.exists, "sponsor")}
         \cup (IF w \in ledger.exists THEN {OnboardRouter(w, w, a)} ELSE {})

Onboard(w, a) ==
  /\ Idle /\ plan = <<>> /\ ~HasLine(w, a)
  /\ \/ \E env \in RequestedOfRelayer(w, a) : Offer(env, w, a, {"none", "relayer"})
     \/ w \in ledger.exists /\ Offer(SponsoredOnboard(Relayer, w, a, FALSE, "user"), w, a, {"none", "own"})
  /\ UNCHANGED <<ledger, balance, now, plan, claim, disturbed, outcome>>

\* A balance is delivered, by the integrator or by somebody else.
Deliver(w, a) ==
  /\ Idle /\ balance = NoBalance /\ plan = <<>>
  /\ \/ \E after \in ReclaimAfter : balance' = Balance(a, DeliveredTo(Relayer, w, after), now)
     \/ \E p \in Predicates : balance' = Balance(a, {Claimant(w, p)}, now)
  /\ UNCHANGED <<ledger, now, request, plan, claim, disturbed, outcome>>

\* The steps, from the status read now, for a balance that may be claimed.
Plan(w) ==
  /\ Idle /\ plan = <<>> /\ balance # NoBalance /\ w \in ledger.exists
  /\ \A later \in now..MaxTime : MayClaim(balance, w, later)
  /\ plan' = PlanClaim(HasLine(w, balance.asset), IsAuthorized(w, balance.asset),
                       balance.asset \in Regulated)
  /\ claim' = [who |-> w, asset |-> balance.asset]
  /\ disturbed' = FALSE
  /\ UNCHANGED <<ledger, balance, now, request, outcome>>

\* The claim is sourced by the holder, or by the integrator.
ClaimEnvelopes(w, a, create) ==
  {Claim(w, source, a, create, sponsor) :
     source \in {w, Relayer}, sponsor \in (IF create THEN {Nobody, Relayer} ELSE {Nobody})}

TakeStep(kind) ==
  /\ Idle /\ plan # <<>> /\ Head(plan).kind = kind
  /\ LET w == claim.who  a == claim.asset
     IN \E env \in (IF kind = "create-trustline"
                    THEN {SponsoredOnboard(Relayer, w, a, FALSE, role) : role \in {"sponsor", "user"}}
                    ELSE ClaimEnvelopes(w, a, kind = "claim-with-trustline")) :
          Offer(env, w, a, {"none", "own"})
  /\ UNCHANGED <<ledger, balance, now, plan, claim, disturbed, outcome>>

\* The integrator's authorization: no signature of the user.
TakeAuthorize ==
  /\ Idle /\ plan # <<>> /\ Head(plan).kind = "authorize" /\ HasLine(claim.who, claim.asset)
  /\ ledger' = [ledger EXCEPT !.auth = @ \cup {<<claim.who, claim.asset>>}]
  /\ plan' = Tail(plan)
  /\ UNCHANGED <<balance, now, request, claim, disturbed, outcome>>

-------------------------------------------------------------------------------
(***************************************************************************)
(* The wallet, the callback and the network.                               *)
(***************************************************************************)

IsClaim(env) == \E op \in OpsOf(env) : op.type = "claim"

\* What the network makes of an envelope.
Verdict(env) ==
  IF ~Complete(env) THEN "incomplete"
  ELSE IF Applied(env, ledger).ok /\ (IsClaim(env) => MayClaim(balance, claim.who, now))
  THEN "applied" ELSE "failed"

Submit(env) ==
  /\ outcome' = Verdict(env)
  /\ ledger' = IF Verdict(env) = "applied" THEN Applied(env, ledger) ELSE ledger
  /\ balance' = IF Verdict(env) = "applied" /\ IsClaim(env) THEN NoBalance ELSE balance

\* submit signs as the relayer where it is asked to and has not signed yet.
SignedToSubmit(env, countersign) ==
  IF countersign /\ Relayer \notin Signatures(env) THEN Signed(env, Relayer) ELSE env

\* The callback: refused, or countersigned where the intent says so.
CalledBack(env) ==
  IF CallbackIntents(env) = {} THEN outcome' = "refused" /\ UNCHANGED <<ledger, balance>>
  ELSE \E i \in CallbackIntents(env) : Submit(SignedToSubmit(env, i.countersign))

\* The integrator's own callback: it vets a line it is to sponsor, signs, and
\* sends the envelope as it is or wraps it in a fee bump.
Countersigned(env) ==
  LET signed == Signed(env, Relayer)
  IN IF ~IsClaim(env) /\ ~SafeToSponsor(env, Relayer, request.user, request.asset)
     THEN outcome' = "refused" /\ UNCHANGED <<ledger, balance>>
     ELSE Submit(signed) \/ (CanBump(signed) /\ Submit(Bumped(signed, Relayer)))

\* The signer the request asks for is the user: the wallet signs and sends.
WalletSigns ==
  /\ request # NoRequest /\ outcome = "none"
  /\ LET env == Signed(request.env, Sep7Signer(request.pubkey, request.env))
     IN CASE request.callback = "none"    -> Submit(env)
          [] request.callback = "relayer" -> CalledBack(env)
          [] request.callback = "own"     -> Countersigned(env)
  /\ UNCHANGED <<now, request, plan, claim, disturbed>>

\* The integrator sees the outcome; a plan goes on after a success, or is dropped.
Concluded ==
  /\ outcome # "none"
  /\ plan' = IF plan # <<>> /\ outcome = "applied" THEN Tail(plan) ELSE <<>>
  /\ claim' = IF plan' = <<>> THEN NoClaim ELSE claim
  /\ disturbed' = (disturbed /\ plan' # <<>>)
  /\ ledger' = Ledger(ledger.exists, ledger.lines, ledger.auth)
  /\ request' = NoRequest
  /\ outcome' = "none"
  /\ UNCHANGED <<balance, now>>

\* Anybody posts an envelope, unsigned or signed by everybody but the relayer;
\* most are refused.
Posted == {[env EXCEPT !.sigs = sigs] : env \in Strange, sigs \in {{}, Holders}}
Taken  == {env \in Posted : CallbackIntents(env) # {}}

Post ==
  /\ Idle /\ plan = <<>>
  /\ \E env \in Taken : CalledBack(env)
  /\ UNCHANGED <<now, request, plan, claim, disturbed>>

-------------------------------------------------------------------------------
\* The sender sweeps a balance that it may claim.
Sweep ==
  /\ balance # NoBalance /\ MayClaim(balance, Relayer, now)
  /\ balance' = NoBalance
  /\ disturbed' = (plan # <<>>)
  /\ UNCHANGED <<ledger, now, request, plan, claim, outcome>>

\* The issuer revokes a line.
Revoke(w, a) ==
  /\ a \in Regulated /\ IsAuthorized(w, a)
  /\ ledger' = [ledger EXCEPT !.auth = @ \ {<<w, a>>}]
  /\ disturbed' = (plan # <<>>)
  /\ UNCHANGED <<balance, now, request, plan, claim, outcome>>

Passes ==
  /\ now < MaxTime
  /\ now' = now + 1
  /\ UNCHANGED <<ledger, balance, request, plan, claim, disturbed, outcome>>

Init ==
  /\ \E new \in SUBSET (Holders \cap Accounts) :
       ledger = Ledger((Accounts \ new), {}, {})
  /\ balance = NoBalance
  /\ now = 0
  /\ request = NoRequest
  /\ plan = <<>>
  /\ claim = NoClaim
  /\ disturbed = FALSE
  /\ outcome = "none"

Next ==
  \/ \E w \in Holders, a \in Pinned : Onboard(w, a) \/ Revoke(w, a)
  \/ \E w \in Holders \cap Accounts, a \in Pinned : Deliver(w, a)
  \/ \E w \in Holders \cap Accounts : Plan(w)
  \/ \E kind \in {"create-trustline", "claim", "claim-with-trustline"} : TakeStep(kind)
  \/ TakeAuthorize \/ WalletSigns \/ Concluded \/ Post \/ Sweep \/ Passes

Spec == Init /\ [][Next]_vars

-------------------------------------------------------------------------------
(***************************************************************************)
(* Properties.                                                             *)
(***************************************************************************)

\* What the integrator hands out is complete once the signer it asks for has
\* signed and, through a callback, the integrator: "a signature request that
\* cannot succeed" is made in one case only, where the integrator follows the
\* advice to sign "BEFORE building the handoff" and the user is a smart
\* account, whose signed entry voids what the integrator has signed.
RequestsComplete ==
  request # NoRequest /\ outcome = "incomplete" =>
    request.user \in Contracts /\ Relayer \in Signatures(request.env)

\* What the builders emit and a holder signs, the callback it goes to accepts:
\* assertSafeToSponsor for the integrator's, validateSep7Callback ("exactly the
\* transactions POST /v1/sep7/request emits") for the relayer's.
BuiltIsAccepted == request # NoRequest => outcome # "refused"

\* Whatever the callback is sent, the relayer pays for what it offers: a
\* holder's account and its line of a pinned asset, and nothing leaves it.
OnlyTheOfferIsPaid ==
  /\ Relayer \notin ledger.spent
  /\ \A x \in ledger.paid :
       x.who = Relayer =>
         \E w \in Holders : x.entry = <<"account", w>> \/ \E a \in Pinned : x.entry = <<"line", w, a>>

\* Followed by the book, the steps of planClaim succeed, one after the other, as
\* long as neither the issuer nor the sender intervenes.
PlanSucceeds == plan # <<>> /\ request # NoRequest /\ outcome = "failed" => disturbed

\* The page offers exactly the balances the ledger lets the user claim now;
\* where Horizon leaves a relative bound unresolved, it offers no fewer.  (Not
\* so under a negation, which turns the benefit of the doubt around.)
OffersAreClaimable ==
  \A c \in balance.claimants :
    /\ Offered(balance, c.who, now, TRUE) <=> MayClaim(balance, c.who, now)
    /\ MayClaim(balance, c.who, now) /\ ~NegatesRelative(c.predicate)
         => Offered(balance, c.who, now, FALSE)
    /\ ClaimableAfter(balance, c.who) # Never
         => (MayClaim(balance, c.who, now) <=> now >= ClaimableAfter(balance, c.who))
=================================================================================
