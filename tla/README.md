# A verification project for Authline

Authline onboards holders of Stellar assets: in one step it creates a holder's
trustline and has the issuer's authorizer contract authorize it.  This directory
holds TLA+ models of the parts of Authline where order, concurrency and partial
failure decide correctness, the TLC configurations that check them on small
instances, and TLAPS proofs of the results that matter most for every instance.

Run a configuration with `tlc -config MCAuthorizer.cfg MCAuthorizer`, a proof
with `tlapm Authorizer_proofs.tla`.

## 1. The system

| Component | State | Operations | Interacts with |
|---|---|---|---|
| `contracts/trustline-authorizer` | admin, SAC, policy, pause flag; a `Banned` and an `Allowed` entry per address | `authorize_trustline` (anyone); list edits, freeze, unfreeze, deauthorize, mint, clawback, pause, unpause, `set_admin`, `upgrade`, `set_policy` (admin); getters | the asset contract (SAC), whose admin it is |
| `contracts/trustline-onboard` | none | `onboard(sac, holder)`: trust, discover the admin, ask it to authorize, verify; one transaction | SAC, whatever its admin is |
| `contracts/authorizer-stub` | the SAC | `authorize_trustline` for everybody | SAC |
| `packages/relayer` service and chain operations | `inflightAuthorize`, requests between their awaits; its account's sequence number lives on the ledger | `ready`, `authorize`, `sep7/request`, `sep7/callback`, `claimable/send` | RPC endpoint, ledger, wallets, the SDK's builders |
| `packages/relayer` limits | a token bucket per client, the gate's count | `allow`, `enter`, `leave` | the HTTP server |
| `packages/relayer` config | none | environment parsing | start-up |
| `packages/authline-sdk` | none | transaction builders, status reads, claim planning, sponsorship checks, SEP-7 parsing and signing, registry | relayer, dApp |
| `src/authline.tsx` | the component's state: phase, address, asset, status, badges, pending claims; refs for generations and the session's fee payer | connect, pick, activate, authorize, claim, sign a request, switch, reset; effects for preview, lookup, verification, routing | wallets, RPC, Horizon, friendbot, a request's callback |
| `src/withdraw.tsx` | the phase, the form, the poll timer and its ticks | start, send as claimable, poll, reset | relayer, RPC, Horizon |
| `contracts/guess-the-number`, scripts, examples, stub packages, workflows | - | demonstrations, operation, evidence | - |

What is hard here: legal calls whose *sequence* leads somewhere nobody meant
(freezes and policies, bans and re-opened lines); a contract that must tell a
typed refusal from an untyped abort, because one rolls back and the other
commits; a service that reads the ledger, waits, and acts on what it read, with
one sequence number for all of its transactions, a deadline shorter than their
validity, restarts, and clients that retry, repeat and disconnect; pages whose
awaits answer when the user has moved on; an endpoint open to anybody that signs
with an account that has money.

What makes each part correct:

- *authorizer*: a freeze holds until the issuer lifts it; the events reconstruct
  the state; `is_eligible` and `authorize_trustline` agree; pause stops lists,
  policy, authorizations and supply; only eligible or explicitly re-admitted
  holders enter.
- *router*: the status is true when the transaction lands; a ban is never
  downgraded to an unauthorized line; an eligible holder gets in.
- *relayer*: `authorized: true` and typed refusals are statements about the
  ledger; concurrent authorizes share one; a payment reported is a payment made,
  once; whoever's RPC calls are settled is answered.
- *limits*: pruning is invisible, no client exceeds its budget, the gate neither
  leaks nor over-admits.
- *activation page*: what it shows belongs to the account and the asset on the
  screen; one run at a time, and it ends; "authorized" is said only where it is so.
- *withdraw page*: "can now receive" is said while the form shows a destination
  the ledger has shown ready, unless a tick outlives its request; an open request
  is watched until it is.
- *SDK*: what a builder hands out is accepted and can be completed, unless its
  signature is voided by the user's; whatever else
  is accepted costs the operations account nothing but what it offers; a claim
  that is offered is claimable, and its plan succeeds.

## 2. Modules

| Module | Models | Uses |
|---|---|---|
| `Admission` | the abstract promise of a governed asset: who is eligible, who is authorized, how the two may change | - |
| `Authorizer` | the authorizer contract over its asset | instantiates `Admission` with a refinement mapping |
| `Onboarding` | the router and the stub | extends `Authorizer` |
| `Payments` | the abstract promise of `/v1/claimable/send`: what becomes of an order to pay | - |
| `Relayer` | the relayer's requests, the ledger and the network | instantiates `Payments` with a refinement mapping |
| `Limits` | `limits.ts` and its use in `startServer` | - |
| `Activation` | the activation page | - |
| `Withdraw` | the withdraw page | - |
| `Envelopes` | builders and checks of the SDK and the relayer's callback, over a reference ledger | - |
| `Claims` | claim predicates and their evaluation, delivery, lookup and planning | - |
| `Handoff` | integrator, wallet, callback and network passing envelopes; a claimable balance, its offer on a page and its claim | extends `Envelopes` and `Claims` |
| `MCAuthorizer`, `MCOnboarding`, `MCRelayer`, `MCLimits`, `MCActivation`, `MCWithdraw`, `MCHandoff` | the instances TLC checks | one each of the above |
| `Authorizer_proofs` | proofs: freezes, trail, pause, the refinement of `Admission` | `Authorizer` |
| `Onboarding_proofs` | proofs: the router's answers, and that with it the authorizer's promises hold: admission, freezes, pause, trail | `Onboarding`, `Authorizer_proofs` |
| `Relayer_proofs` | proofs: coalescing, types, payments | `Relayer` |
| `RelayerTruth_proofs` | proofs: what clients are told of the ledger, and the refinement of `Payments` | `Relayer_proofs` |
| `Limits_proofs` | proofs: the gate, pruning, the budget | `Limits` |
| `Activation_proofs` | proofs: whose answers the page shows, one run at a time, truthful copy | `Activation` |
| `Withdraw_proofs` | proofs | `Withdraw` |
| `Handoff_proofs` | proofs: complete and accepted requests, what the relayer pays for, offers and plans | `Handoff` |

### Authorizer

`admin`, `policy`, `paused`, `banned`, `allowed` are the contract's storage; the
sets hold the addresses with an entry.  `sacAdmin`, `line`, `balance` are the
asset, modelled as external from the calls the contract makes
(`try_set_authorized`, `try_mint`, `try_clawback`) and the ledger operations that
reach lines without it: holders open and close lines, transfer, and an earlier
SAC admin may still flip them until the handover.  One action per entry point; a
call the contract refuses rolls back, which is a stuttering step, so guards are
the conditions under which a call succeeds.  Batches are sets: per address the
code makes an idempotent update, so neither order nor repetition shows.  Three
kinds of step surround the contract: the constructor (`Init`), the handover
(`HandOver`) and the asset's own operations (`AssetNext`).

Two variables are histories.  `freeze` records for each address that a freeze is
in force ("held"), or has been undercut by a change of policy ("switched").
`trail` is what an auditor knows who reads only the events and the asset's own
operations.  Neither constrains a step.

A freeze is recorded as "held" only where it can bind: the authorizer is the
SAC admin and the issuer's flags are AUTH_REVOCABLE and AUTH_REQUIRED, as the
comments at `freeze_accounts` and the SEP's issuer requirements say.

### Onboarding

`onboard` is one action, because it is one transaction.  The admin it discovers
is the authorizer or a predecessor of one of five kinds: a classic account, the
stub, a contract that refuses with a typed error, one that answers success and
does nothing, one that aborts.  The holder's line after the call is the one
`LineAfter` gives: the tentative line on the committing statuses, the old one on
errors.  That errors roll back is the host's doing and an assumption of the model,
not a result.

### Relayer

A request moves through `view` (the idempotency check), `build` (sequence number
and simulation), `send` and `poll`; each is an await of the code, and between two
of them any other request, the issuer, the holder, the network or a restart may
move.  A request that shares a pending promise is `joined`.  `/v1/sep7/request`
runs case A itself, or ends by handing an envelope out; `/v1/sep7/callback`
brings one back, any number of times.  The network admits one transaction per
source account and applies it only with the next sequence number, or drops it.
Two reads inside one await (`view` reads the line and the account; `build` reads
the sequence and simulates) are one step.  A failed status read is modelled as
the code takes it: as a missing line.

`seen` is a history: for each running request, the facts about its holder that
the ledger showed since it arrived.

`Payments` knows orders and nothing of transactions, timeouts or restarts: an order
is placed, is paid once while it is open or lapses, and may be confirmed once it
is paid.  A call of `/v1/claimable/send` is an order.  It is open (`OpenPayments`)
until the ledger has its transaction or, once it is answered, until the network
has none of it; so an answer of `chain_error` leaves it open as long as the network
may still apply what was sent.

Abstractions: one asset (coalescing is per asset, and nothing else relates two
of them), regulated; balances of XLM are "none", "poor" (too little for the
reserve) and "funded"; requests that a stateless check refuses are left out,
among them the envelopes `validateSep7Callback` refuses.  The callback receives
envelopes that the relayer handed out; the check also accepts a stranger's of
the same shape, which have the effects of those handed out: they open a line for
a holder and no other.  `Handoff` posts such envelopes.  The authorizer of this
module has a denylist and no pause.  A simulation that fails without a code is a
`chain_error`; one with a code of neither contract, a `contract_error`.
Refusals from simulation carry their contract's error code, failures after
submission carry none, as in the code.

### Limits

Time is in ticks and tokens in fractions of a token such that one tick refills
an integer.  `conn` is a connection's life: receiving the body, handling,
answering; "abandoned" is a handler whose client has left.  No connection but
one that is answered, or still sends its body, closes by itself.  `ideal` (the buckets
that would be there had none ever been pruned) and `granted` (the times of a
client's grants in the last minute) are histories.  `PruneAbove` is 0 in the
instance, so pruning happens at every call: more often than the code's 10 000
buckets would ever have it.

### Activation

`ui` is the component's React state together with the refs its handlers render
from; `badges` are `dirStatuses`; `reads` the status reads and wallet prompts whose
answer is still wanted; `runs` the calls of `claim`, `activate`, `authorize` and
`signSep7` at work; `fee` the session's fee payer, its prepared transaction and the
preparations at work; `link` how the page was opened, which does not change.
Handlers run to their first await, and each await is an action of its own.
`Render` applies the effects that follow a render, in the order React runs them:
the lookup for the address shown and the routing into the claim screen.

The generation counters are only bumped and compared for equality.  So a read
carries what its answer is still good for (`then`, `badge`), and bumping a counter
takes that away from all reads at once (`Superseded` for `statusGen`,
`BadgesDropped` for `dirGen`); reads good for nothing are dropped.  This is the
same as comparing numbers, and keeps the state finite.  A run's `live` is
the comparison its own `refreshStatus` will make.

What a screen renders is reduced to the buttons it offers (`DirectoryScreen` to
`ErrorScreen`, `Header`, `BackLink`); the wallet modal covers the page.  A status
read answers anything the address could have, or fails; the ledger is not
modelled, since the page's obligations are about whose answer it shows and not
about which answer it gets.  A link names live assets and, where it previews one, an
address, and wallets hold addresses (`AssetsLive`, `LinksTyped`).  The one thing it must take from the network, what
the router did, is `Outcomes`: what the page decodes agrees with what was done, or
cannot be decoded.

### Withdraw

`timer` is the interval (its destination, or none), `ticks` the callbacks that
await `readStatus` or `latestTxHash`, `calls` the requests to the relayer at work:
`stopPolling` clears the first and not the second.  Each callback closes over the
destination it began with, so it carries it.  A phase carries a destination only
where the page's does, in the text of a handoff or a claimable balance; "done" and
"ready already" speak of whatever the form holds by then.  `line` is the ledger's
line of each destination and moves at will; `was` is a history.  A destination
stands for the pair of address and asset.

### Envelopes, Claims and Handoff

An envelope is its source, its operations with the sources they name, the kind
of each authorization entry, a fee that is or is not above the cap, a fee bump and
the set of those who signed.  A smart account signs its authorization entry, which
is part of what accounts sign: their earlier signatures stay attached and become
void (`Signed`).  The code looks at the signatures attached (`Signatures`), by their
hints; the network at those that are valid, and refuses superfluous ones
(`Complete`).  `SponsoredOnboard`, `OnboardRouter`, `Claim` are the
builders; `Signers`, `Sep7Signer`, `CoSigners`, `HandsOut` what a wallet is told and
may be given; `SafeToSponsor` and `CallbackIntents` the checks.  `Apply` to `Complete`
are the ledger, external to the code and independent of its checks: who has lines
and accounts, which sponsorship window pays for a reserve, who gives money away,
whose signatures the network asks for.  The relayer's endpoint is held against
that, not against a copy of its own conditions.

`Claims` has predicates as data, that nest `MaxDepth` deep at most (`Nested`; the
ledger has a limit too).  They are evaluated three times over: as the ledger does
(`Satisfied`), as Horizon renders them (`Resolved`) and as the page does
(`PredicateHolds`), each a function on all predicates that is recursive in their
parts.  Instants are those of the years a `Date` reads back from Horizon's rendering; a
bound past the year 9999, an `Invalid Date` to the page, is outside the model.

`Handoff` passes envelopes around: the integrator offers one (`Offer` is
`onboardingRequest`), the holder's wallet signs as the account `sep7Signer` names and
delivers it to the network, to the relayer's callback, or to the integrator's own,
which vets and countersigns it, with or without a fee bump.  `Post` is anybody
posting to the relayer's callback.  A claim is planned once (`Plan`) and its steps
are taken one by one, with the sender's sweep, the issuer's revocation and the
clock in between.  Sequence numbers and time
bounds of envelopes are in `Relayer` and left out here: an envelope is signed once
and its outcome observed before the next.

## 3. Runs

| Run | Instance | Shows |
|---|---|---|
| `authorizer` | 1 classic and 1 contract holder, the authorizer's own address, 2 admins, batches up to 2, all three flags set | freezes, trail, eligibility, pause, refinement |
| `onboarding` | 1 classic holder, the own address, 1 admin, 5 predecessors (one of each kind) | truthfulness, no downgrade, liveness, freezes and refinement for the composition |
| `relayer` | 3 requests, 1 classic holder | coalescing, truthful success, truthful refusals, the refinement of `Payments` |
| `relayer_answers` | 2 requests, 1 classic and 1 contract holder | a request whose RPC calls are settled is answered, even if others hang |
| `limits` | 2 clients, 2 sockets, 1 slot, 2 requests a minute, 3 minutes of 3 ticks | pruning, budget, gate, recovery if handlers settle |
| `activation` | 1 classic and 1 smart wallet, an open and a regulated asset, 1 fee payer key; opened plainly, with a router request, a sponsored one, one for a callback | late answers, one run at a time, truthful copy, every submission ends |
| `withdraw` | 1 classic and 1 smart destination, 2 ticks and 2 calls in flight | ready means ready unless a tick is late, handoffs are watched and end |
| `sdk` | the relayer, a classic holder that may not exist, a smart holder, an open and a regulated pinned asset, one that is not pinned; 14 predicates (`MaxDepth` 3), 3 units of time; some 16 000 envelopes of strangers | requests complete but where a signature is voided, builders' envelopes accepted, the endpoint pays only its offer, plans succeed, offers are claimable |
| `freeze_switch` | as `authorizer`, smaller | a disagreement of code and SEP (section 6) |
| `relayer_retry` | as `relayer` with 2 requests | a disagreement of code and runbook |
| `activation_preview` | a preview link | a disagreement of code and comment |
| `activation_preparation` | a smart account, two fee payers | a disagreement of code and comment |

Why the bounds are enough.  Addresses of the authorizer interact only through
batches and transfers, so one of each kind plus the own address covers the
interactions, with batches of one, of several and over the limit (three
addresses, `MaxBatch` 2).  Amounts 0 and 1 with a limit of 1 reach the zero, the
empty and the full line.  What the runs of the authorizer show is proved without
bounds.  Three requests let an onboarding, its callback and a competing
authorize or payment overlap; `MaxHolderMoves` lets the holder invalidate one
pending transaction by its own.  Nine ticks are three minutes: enough to drain a
bucket, pass the two minutes of pruning and drain it again.  The requests of
`relayer` are interchangeable, and nothing but equality is asked of them, so they
are a symmetry set; so are the admins of `authorizer`.  The runs with liveness
use no symmetry.

`activation` has two accounts so that every late answer has another owner to be
mistaken for, an open and a regulated asset because an open line is authorized
as it is created, and one fee-payer key: preparations overlap once there is one.
What happens when two of them fund a key each is `activation_preparation`'s, with a
smaller instance.  The links cover
the ways the page opens: bare, with an asset, with an address to preview, with a
malformed request, and with requests that differ in callback, completeness and
kind.  `withdraw` has two ticks and two calls in flight, the least with which one
of them can belong to a request the page has left.  In `sdk` the predicates nest
two deep with bounds at the instants 1 and 2 of 3, so each is met before, at and
after its bound; strangers post every sequence of one call, and of a window's
head, one or two operations and a tail, from an alphabet that holds the wrong
value of each field beside the right one.

Deadlock checking is off for `relayer`, `limits` and `activation`, whose instances
end: every request is made once, the clock is bounded, and a page that refuses a
malformed request offers nothing more.

## 4. Fairness

- `Onboarding`: a holder that can pay keeps calling `onboard` (weak fairness of
  one action, always enabled).  Nobody else is obliged to act: the issuer, the
  predecessors and other holders may do anything or nothing.
- `Relayer`: none in the specification.  `rpc.Server` is created without a timeout
  (`server.ts:40`), and `submit` looks at its deadline only between two polls
  (`server.ts:64-69`), so a call of the RPC endpoint may never return.
  `EveryRequestIsAnswered` is conditional, request by request: if the calls that a
  request waits for are settled, with an answer, an error or at the deadline, it is
  answered.  Those are its own and, while it shares a promise, the calls of the
  request it shares it with (`WaitsOn`).  The other requests may hang.
- `Limits`: a response closes once the handler has answered it, and while the body
  is received, for which Node's HTTP server has a request timeout.  A response that
  is being handled is under no such fairness: a handler waits for the RPC endpoint.
  `CapacityComesBack` is conditional on handlers settling.
- `Activation`: a run that has been signed goes on, in weak fairness: the RPC
  endpoint answers or fails, and `submitAndConfirm` has a deadline of its own,
  which is a step.  Wallets, users and other reads may take for ever.
- `Withdraw`: the interval fires and Horizon's answer for the hash comes or fails
  (weak fairness).  The status read is strongly fair: each tick may fail, as
  the comment "transient RPC failure" at the code's `catch` says, but not all of
  them.

The other specifications state safety properties, and no fairness.

## 5. Proofs

Proved with TLAPS, for all values of the constants under the named assumptions
of `Authorizer` (the own address is a contract, the kinds of address are
disjoint, the authorizer is not its own predecessor, amounts are integers,
bounds are naturals, flags are Boolean):

| Theorem of the authorizer | States |
|---|---|
| `TypeCorrect` | `Spec => []TypeOK` |
| `FrozenIsOut` | `Spec => []FrozenStaysOut` |
| `EligibilityIsForeseen` | `Spec => []EligibilityForeseesOutcome` |
| `PauseIsTotal` | `Spec => PauseStopsEverything` |
| `TrailReconstructs` | `Spec => []TrailIsFaithful` |
| `Refinement` | `Spec => ImplementsAdmission` |
| `FrozenIsBanned` | `Spec /\ [][policy' = policy]_vars => []NoFrozenButNotBanned` |

`FrozenStaysOut` is not inductive.  A freeze in force forbids `line = "auth"`,
but a step could re-open a line authorized from the start, or an earlier admin
could flip it, unless the freeze was recorded under a governed asset whose flags
bind.  `FrozenInv` adds exactly that, `freeze[a] = "held" => FreezeBinds`, and is
inductive together with `TypeOK`; `HandOver` is what keeps it, since nothing
takes the adminship from the authorizer.

`FrozenIsBanned` is the other side of the run `freeze_switch`: what the comment at
`freeze_accounts` promises fails through a change of policy, and through nothing
else.  No step but `set_policy` undercuts a freeze (`NothingElseUndercuts`), so under
every issuer that keeps the policy it was deployed with, the promise holds.

`TrailIsFaithful` is inductive with the type invariant: each action is shown to
have the same effect on `trail` as on the state, action by action, which is
where the order of reading the old admin and writing the new one in `set_admin`
matters.

`Refinement` maps `governed` to "the authorizer is SAC admin", `eligible` to the
addresses `is_eligible` accepts and `authorized` to the authorized lines, the own
address left out.  The refinement needs `FrozenInv` nowhere; it needs the type
invariant, and that a call succeeds only on a governed asset.  Each action maps to one abstract
action or a stutter: `SetPolicy`, `Pause` and `Unpause` to `Rule`, list edits to
`Relist` or a stutter, according to the active policy; before the handover every
step maps to `Found`.

| Theorem of the router | States |
|---|---|
| `OnboardingTypeCorrect` | `OnboardingSpec => []OnboardingTypeOK` |
| `StatusesAreTruthful` | `OnboardingSpec => StatusIsTruthful` |
| `BansAreNotDowngraded` | `OnboardingSpec => BanIsNeverDowngraded` |
| `FrozenIsOutOnboarding` | `OnboardingSpec => []FrozenStaysOut` |
| `OnboardingRefinement` | `OnboardingSpec => ImplementsAdmission` |
| `TrailReconstructsOnboarding` | `OnboardingSpec => []TrailIsFaithful` |
| `PauseIsTotalOnboarding` | `OnboardingSpec => PauseStopsEverything` |
| `FrozenIsBannedOnboarding` | `OnboardingSpec /\ [][policy' = policy]_onboardingVars => []NoFrozenButNotBanned` |

They add one assumption, that each predecessor is of one of the five kinds
(`KindOfPredecessors`), and reuse the authorizer's step lemmas: every step is a
step of `Authorizer` or one call of `onboard`.  A call is taken apart by what the
authorizer replies (`VerdictOfReply`) and the line it leaves (`StatusOfLine`).
A call has the same effect on the trail as on the lines (`OnboardKeepsTrail`).
Under a pause a call on a governed asset leaves the lines in place and all
balances as they are (`OnboardWhilePaused`), and every other step is the
authorizer's (`PausedStep`).  On a governed asset a call admits an eligible
holder, opens the line of an asset that needs no authorization, or changes nothing
`Admission` sees; before the handover it is one more step of the predecessor's time.

| Theorem of the relayer | States |
|---|---|
| `AuthorizesCoalesce` | `Spec => []OneAuthorizeAtWork` |
| `RelayerTypeCorrect` | `Spec => []RelayerTypeOK` |
| `PaymentsAreMadeOnce` | `Spec => []PaidIsPaid` |
| `PaymentsAreSentOnce` | `Spec => []OneTransactionEach` |
| `PaymentsRefinement` | `Spec => ImplementsPayments` |
| `SuccessesAreTruthful` | `Governs` implies `Spec => SuccessIsTruthful` |
| `RefusalsAreTheAuthorizers` | `Governs` implies `Spec => AuthorizeRefusalsAreTheAuthorizers` |

| Theorem of the limits | States |
|---|---|
| `GateIsExact` | `Spec => []GateCountsOpenResponses` |
| `PruningCannotBeSeen` | `Spec => []PruningIsInvisible` |
| `NobodyExceedsTheBudget` | `Spec => []BudgetHolds` |
| `LimitsTypeCorrect` | `Spec => []LimitsTypeOK` |

| Theorem of the withdraw page | States |
|---|---|
| `WithdrawTypeCorrect` | `Spec => []WithdrawTypeOK` |
| `ReadyIsTruthful` | `Spec => ReadyUnlessLate` |
| `HandoffsAreWatched` | `Spec => []HandoffIsWatched` |

`AuthorizesCoalesce` rests on one assumption, that "no request" is not a request
(`NoRequestApart`), and holds for any number of requests and holders and whatever
ledger, network and restarts do.  Its invariant `WorkInv` adds what the steps
need to know of a request: a started one has a route, and one that views the
ledger has a route that does.  The proof names three ways to change requests and
map (a request ends and answers those that wait on it; it goes on with the same
route and holder; a request of another route starts), shows that each keeps
`WorkInv`, and assigns each action to one of them; a new `/authorize` and a
restart are shown on their own.

`GateIsExact` needs finitely many sockets (`SlotsFinite`), and connections and
count of the right type (`GateInv`): one more open response is one more in the
count, one fewer is one fewer, and a handler that outlives its client changes
neither.  `PruningCannotBeSeen` is inductive with the types of buckets
(`BucketInv`).  Its argument is the code's comment made exact: a pruned bucket
was untouched for longer than a minute, so its level is full, which is the level
of no bucket at all; a tick and a grant change both levels alike.

`NobodyExceedsTheBudget` cannot be induced over the last minute alone, since the
minute moves.  `BudgetInv` says it of every moment t so far, and of whole time, not
of a window: the grants since t, together with what the bucket still holds, are
at most a full bucket and the refill since t.  A grant moves one token from one
side of the sum to the other, a tick adds to both, and what is forgotten is older
than a minute.  It speaks of `ideal`; `BucketInv` carries it to the pruned buckets.

`PaymentsAreMadeOnce` follows one transaction.  The type invariant `TypeInv` is
`RelayerTypeOK` in the form the provers use.  `PayInv` adds that every transaction in
the network is some started request's (`Authored`), that a payment's request has
none before it sends, one after, and holds the one it built (`OwnTx`, `OneTx`), and
that a reported payment's one transaction has been applied (`Made`).  The case that
needs it is the callback, which holds other requests' transactions: never a
payment's, because only envelopes handed to wallets come back.  `PaymentsAreSentOnce`
is read off the same invariant and says what `PaidIsPaid` leaves open: a request that
was answered `chain_error`, or lost in a restart, has one transaction in flight at
most, so a payment is made twice only by a client that calls again.

`PaymentsRefinement` joins the two and adds time: what has lapsed stays lapsed.  Its
invariant `OrdersInv` is `PayInv` with what a request can have in hand (`HandInv`),
used-up sequence numbers (`Spent`), and that the ledger's payments are those of
`claimable` calls (`OnlyOrdersArePaid`).  The steps fall into three kinds.  A step of
a request sends nothing of another one's (`StepOf`), so it reopens no payment
(`NothingReopens`): it is `Order`, `Confirm`, `Lapse` or a stutter.  The ledger's application
of a transaction is `Make`, or `Lapse` if it fails; it happens once, as its sequence
number is then used up (`AppliedOnce`).  Drops and restarts map to `Lapse`, and a
restart may let many orders lapse at once.  The theorem bounds finding 2 of
section 6: after a `chain_error` a client that waits until the network has none of
the transaction, and finds no balance, may call again and pays once.

`SuccessesAreTruthful` and `RefusalsAreTheAuthorizers` assume `Governs`, that the
relayer's authorizer governs the asset: elsewhere a router call may succeed and
leave a bare line, as the code accepts.  `TruthInv` adds to `TypeInv` and `WorkInv` what a request
can have in hand (`InHand`), that a running request's history has the present
(`SeenNow`) and a waiting one's its leader's (`SeenShared`), and that whoever finds its
transaction applied was running when it was (`Confirmable`).  The last rests on
sequence numbers: an applied transaction's number is used up (`Spent`), so a
repeated post of it is refused before it polls.

The page's `WithdrawInv` is its types and its watched handoffs, with a destination
for each callback at work (`TicksOK`, `CallsOK`) and a history that has what is
ready now (`Recorded`).  It assumes that "none" and the malformed destination are no
destinations, and no destination is of two kinds (`TargetsApart`).

`ReadyIsTruthful` is about behaviours in which no tick is late (`NoTickIsLate`: a tick
that awaits the hash of a destination it saw ready does so on the screen of its own
request).  There `ScreenInv` is inductive: one call at most is at work, on the screen
that says so (`OneCall`); it is for the destination in the form, which is not to be
edited while it works (`CallsOfTheForm`); so what it, or a tick that is not late,
shows as done is the form's, and the ledger has shown it (`DoneWasReady`).  Without
the premise `DoneWasReady` fails, which
is a disagreement of section 6.

| Theorem of the handoff | States |
|---|---|
| `HandoffInvariant` | `Spec => []HandoffInv` |
| `RequestsAreComplete` | `Spec => []RequestsComplete` |
| `WhatIsBuiltIsAccepted` | `Spec => []BuiltIsAccepted` |
| `RelayerPaysForTheOfferOnly` | `Spec => []OnlyTheOfferIsPaid` |
| `PlansSucceed` | `Spec => []PlanSucceeds` |
| `OffersAreRight` | `Spec => []OffersAreClaimable` |

They assume that the relayer is a classic account and accounts, contracts and
"nobody" are apart (`RelayerIsClassic`), that pinned and other assets are disjoint
(`PinnedApart`), that instants are naturals (`TimesAreNat`), that what strangers
post is made of the ledger's operations (`StrangeTyped`), and that predicates nest to
some depth (`DepthIsNat`, `PredicatesNest`).  The runs post a fixed
alphabet; the theorems speak of envelopes of any length, and of claim
predicates of any shape and depth.

`OnlyTheOfferIsPaid` is the one that needed an argument.  An operation is *frugal* if
it opens or closes a sponsorship or claims a balance, creates a holder's account
with nothing in it, opens a pinned line for a holder, or invokes for a holder with
no credential of the relayer's (`Frugal`).  Whoever sponsors it, a frugal operation
that the ledger applies costs the relayer nothing but what it offers (`ApplyKeeps`).
What passes `validateSep7Callback`, and `assertSafeToSponsor` in it, is frugal throughout
(`TakenIsFrugal`), and a frugal envelope keeps the ledger's books by induction over
its operations (`AppliedKeeps`).  The library's induction takes an operator, which
the provers cannot instantiate; `NatSetInduction` states it for sets and is proved
from the well-foundedness of the naturals.
`RequestInv` says what shape the envelope in hand has, by who offered it and who has
signed since; acceptance follows from the shape, and completeness too unless the
user's signature voids the integrator's (`Voids`), which takes a smart account and an
integrator that signed first.  `PlanInv` says of
the steps a plan has left what the ledger must look like for the next to succeed,
or that issuer or sender have come between.

`OffersAreRight` compares three evaluations of one predicate, by induction over how
deep it nests.  That each evaluation is a function at all is shown level by level
(`LevelInduction`, from `NatSetInduction`), after which it may be unfolded one step
at a time and `PredicateInduction` is available.  With bounds resolved, page and ledger agree
(`PageAgrees`).  With a relative bound left unresolved the page errs on one side, and
which side turns with each negation (`PageErrsByParity` proves both together, since
neither is inductive alone); where every such bound is under an even number of
them, the page hides nothing.  `LocksOpen` is the third part, that an announced lock opens when it
says.  The invariant is that the balance's predicates are predicates (`BalanceInv`).

| Theorem of the activation page | States |
|---|---|
| `ActivationTypeCorrect` | `Spec => []ActivationTypeOK` |
| `FreshBadgesAreKept` | `Spec => FreshBadgesStay` |
| `RunsAreAlone` | `Spec /\ []OnlyConnectedSigns => []BusyIsOneRun` |
| `StatusIsShown` | `Spec /\ []OnlyConnectedSigns => []StatusIsOfTheShown` |
| `BadgesAreShown` | `Spec /\ []OnlyConnectedSigns => []BadgesAreTheWallets` |
| `CopyIsTruthful` | `Spec /\ []OnlyConnectedSigns => []ActivationCopyIsTruthful` |
| `OnlyTheConnectedSign` | `NothingWaitsForPreviews` implies `Spec => []OnlyConnectedSigns` |
| `UnpreviewedPagesAreRight` | `NothingWaitsForPreviews` implies `Spec =>` the four above |

They assume that accounts, contracts and "nobody" are apart (`AddressesApart`), the
types of links and assets (`AssetsLive`, `LinksTyped`) and a natural bound on keys
(`KeysAreNat`), and hold for any number of accounts, contracts, assets and links.

`[]OnlyConnectedSigns` is a hypothesis because the code does not keep it:
`activation_preview` shows a previewed address at the claim button, and once a run
is at work for nobody's wallet the other properties have no ground.  It is not a
loophole: `NothingWaitsForPreviews` says that no preview link names an asset of which
a balance waits for its address, and is enough for it (`PreviewInv`: where nobody is
connected the page shows nobody, or a screen without a holder's buttons, and no
late read can lead elsewhere).  `UnpreviewedPagesAreRight` puts the two together and
has no hypothesis on behaviour.

The argument is in four layers.  `TypeInv` holds of every behaviour: what each
handler takes a read, a run, a badge or a prepared transaction for.  `ShownInv` is
about lateness: every read still wanted is about the screen, or about a badge of
the wallet, and there is one foreground read at most (`ReadsShown`); a run is for
the screen, is alone, and while it is at work nothing can be clicked and no modal is
open (`WorkInv`).  The generation counters are what keeps it: each handler that
changes account or asset drops the reads that would contradict the new screen.
`CopyInv` follows one transaction from the prepared envelope to the words on the
screen: a run's flow is the screen's (`FlowShown`), what it submits serves its own
account and asset if the session has made one fee payer (`TxServes`), and what it
found on the ledger matches (`Authorized`, `Activated`).  With two fee payers `TxServes`
fails, which is finding 4 below.

Only model-checked: the five liveness properties (`EligibleHolderGetsIn`,
`EveryRequestIsAnswered`, `CapacityComesBack`, `SubmittingEnds`, `HandoffEnds`), which are
out of the prover's reach.  Every invariant and every action property that a
passing run checks, `ReadyUnlessLate` and both refinements are stated by a theorem.

## 6. Where code and documents disagree

Four disagreements have a run that finds the behaviour, and an entry in
`PROJECT.json` that quotes the line:

1. `set_policy` can leave an address frozen and yet eligible (`freeze_switch`);
   nothing else can (`FrozenIsBanned`).
2. `chain_error` on a payment is not safe to retry (`relayer_retry`).
3. The activation page's preview of an address may lead to its claim screen, where
   nobody is connected and the claim button works (`activation_preview`); it is
   the only way to sign without a wallet (`OnlyTheConnectedSign`).
4. A run of `activate` whose own preparation cannot be funded takes one that ended
   in the meantime, perhaps for another asset, and reports the asset on the screen
   as authorized (`activation_preparation`).

Others were met while modelling.  The models contain them, the properties are
stated so as to exclude them, and no run is spent on them:

- `unfreeze_accounts` may be given the contract's own address and authorizes it
  (`Authorizer`: the abstract mapping leaves `Self` out).
- `POST /v1/sep7/request` submits in case A and so may cost the relayer a fee.
- Refusals are read off error codes, and the router's share the authorizer's
  number space: a banned holder may be told `no_trustline`.
- The callback reports completion on transaction success alone, whatever the
  router's status; `SuccessIsTruthful` is therefore about what the ledger showed
  while the request ran.
- `MAX_INFLIGHT` bounds open responses and not requests being processed: a client
  that leaves frees its slot at once (`GateCountsOpenResponses` says what holds).
- A poll tick of the withdraw page that awaits its read outlives `stopPolling`
  (`withdraw.tsx:226`): after an edit or a new request it ends the later request's
  poll and shows the success screen, which says "This address can now receive" under
  whatever address and asset the form then holds, though the comment above the poll
  says that the page learns the outcome by watching the ledger.  `ReadyUnlessLate`
  shows that this is the only way for the page to say it wrongly, and
  `HandoffIsWatched` allows for it.
- The doc of `onboardingRequest` advises a sponsor to sign before building the handoff,
  and the check for co-signers accepts an envelope that carries a signature
  (`exchange.ts:312`).  Where the user is a smart account and the envelope the router's,
  sourced by the operations account, the user's signed entry changes the hash, the
  early signature is void, and `submit` leaves it alone because it goes by the hint
  (`server.ts:55-58`): the request cannot succeed.  The relayer itself does not sign
  such envelopes early.  `RequestsComplete` shows that this is the only such request.
- `maxInflight`'s doc says that "an authorize can block up to 60 s" (`config.ts:27-29`).
  It can block for ever: no call of the RPC client has a timeout, and the 60 s are
  looked at between polls.  The pending promise stays in `inflightAuthorize`, so every
  later authorize of that account and asset joins it, each in a slot of the gate.
- A request to the activation page without a callback is reported as "authorized"
  when a sponsored envelope was submitted that only created the line
  (`ActivationCopyIsTruthful` is about the page's own activations).
- A relative bound that Horizon leaves unresolved counts as met; under a negation
  the benefit of the doubt turns around, and the page hides a balance that may be
  claimed (`OffersAreClaimable` excludes it by name).
- `assertSafeToSponsor` names two shapes and accepts others between the same ends:
  several account creations, or a line before the account.  All of them cost
  only what is offered, and the ledger refuses what makes no sense.
- `onboardingRequest` asks whether an envelope with co-signers carries *a*
  signature, not whether it carries theirs.

## 7. Not modelled, and the plan

Left out for good: rendering, wording, layout, build files and workflows; the
demonstration contract; the issuer's command line and the evidence scripts, which
are linear, keep no state between steps, and are run by hand against a live
network; the registry's and the configuration's parsing, whose refusals are
stateless.  The protocol, the RPC endpoint and wallets are environment.

The lifetimes of contract entries are the ledger's: an archived entry makes the
call fail or is restored before it is read, never read as absent, so a ban that
is archived does not turn into an admission.  A model of them would only say
that calls may fail for want of a restoration.

What is left that could still be added: the pause and the open assets in the
relayer's authorizer; the refusals of the registry and of discovery as operators.
