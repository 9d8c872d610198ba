------------------------------ MODULE Authorizer ------------------------------
(***************************************************************************)
(* The Trustline Authorizer (contracts/trustline-authorizer/src/lib.rs):   *)
(* the contract an issuer installs as the admin of a Stellar Asset         *)
(* Contract (SAC).  One action per entry point that changes state; a call  *)
(* the contract refuses rolls back and is a stuttering step.  The asset    *)
(* itself (trustlines, balances, the SAC admin) is external: it is         *)
(* modelled from the calls the contract makes and the refusals it expects. *)
(*                                                                         *)
(* A batch is the set of its addresses: the code walks the vector and      *)
(* makes an idempotent update per address, so order and repetition do not  *)
(* show in the state, and the events of one call are one record that lists *)
(* the addresses.                                                          *)
(***************************************************************************)
EXTENDS Integers, FiniteSets

CONSTANTS
  Accounts,        \* G-addresses: they hold the asset through a trustline
  Contracts,       \* C-addresses: always able to hold, authorized or not
  Self,            \* the authorizer's own address
  Principals,      \* addresses that may become the authorizer's admin
  Predecessors,    \* addresses that may be SAC admin before the authorizer
  MaxBatch,        \* MAX_BATCH
  Amounts,         \* amounts passed to mint_to_account and clawback
  MaxBalance,      \* the limit of a line
  AuthRequired,    \* issuer flag AUTH_REQUIRED: a new line is unauthorized
  Revocable,       \* issuer flag AUTH_REVOCABLE: a line can be deauthorized
  ClawbackEnabled  \* issuer flag AUTH_CLAWBACK_ENABLED

ASSUME SelfIsContract   == Self \in Contracts
ASSUME AddressesDisjoint == Accounts \cap Contracts = {}
ASSUME NotPredecessor   == Self \notin Predecessors
ASSUME BoundsAreNat     == MaxBatch \in Nat /\ MaxBalance \in Nat
ASSUME AmountsAreInt    == Amounts \subseteq Int
ASSUME FlagsAreBoolean  == /\ AuthRequired \in BOOLEAN
                           /\ Revocable \in BOOLEAN
                           /\ ClawbackEnabled \in BOOLEAN

Addresses == Accounts \cup Contracts
Policy    == {"Denylist", "Allowlist"}

VARIABLES
  admin,     \* instance storage: the issuer's admin address
  policy,    \* instance storage: the active Policy
  paused,    \* instance storage: the pause flag
  banned,    \* persistent: addresses with a Banned entry
  allowed,   \* persistent: addresses with an Allowed entry
  sacAdmin,  \* asset: who administers the SAC
  line,      \* asset: each address's line, "none", "unauth" or "auth"
  balance,   \* asset: each address's balance
  freeze,    \* history: where each address's last freeze stands
  trail      \* history: the state an auditor rebuilds from the events

contractVars == <<admin, policy, paused, banned, allowed>>
assetVars    == <<sacAdmin, line, balance>>
vars         == <<contractVars, assetVars, freeze, trail>>

Authorized == {a \in Addresses : line[a] = "auth"}

-------------------------------------------------------------------------------
(***************************************************************************)
(* The asset, as the contract meets it through its SAC client.             *)
(***************************************************************************)

\* A line a holder opens is unauthorized exactly for an AUTH_REQUIRED issuer.
FreshLine == IF AuthRequired THEN "unauth" ELSE "auth"

\* try_set_authorized succeeds on a line in state l: the caller is SAC admin,
\* the line exists, and taking authorization away is permitted by the issuer's
\* flags.
CanSetOn(l, on) == sacAdmin = Self /\ l # "none" /\ (on \/ Revocable)

CanSetAuthorized(a, on) == CanSetOn(line[a], on)

\* The lines once authorization has been set on the addresses of S.
SetLines(S, on) ==
  [a \in Addresses |-> IF a \in S THEN IF on THEN "auth" ELSE "unauth" ELSE line[a]]

CanMint(to, amount) ==
  sacAdmin = Self /\ line[to] = "auth" /\ balance[to] + amount <= MaxBalance

CanClawback(from, amount) ==
  sacAdmin = Self /\ ClawbackEnabled /\ line[from] # "none" /\ balance[from] >= amount

-------------------------------------------------------------------------------
(***************************************************************************)
(* The auditor: "the full authorization history is reconstructable from    *)
(* the ledger alone".  trail starts as the deployment transaction shows    *)
(* the state and then follows nothing but what the contract emits and what *)
(* the ledger records of the asset's own operations.                       *)
(***************************************************************************)

\* The events of one call: their kind, addresses and authorizer_admin.
Event(kind, S) == [kind |-> kind, accounts |-> S, by |-> admin]

\* Mutant of LifecycleEvent: the freeze is reported without whether it took.
LifecycleEventAllFlipped(kind, S, flipped) ==
  [kind |-> kind, accounts |-> S, by |-> admin, policy |-> policy, flipped |-> S]

\* Frozen and Unfrozen also carry the policy and, per address, whether the
\* line was flipped.
LifecycleEvent(kind, S, flipped) ==
  [kind |-> kind, accounts |-> S, by |-> admin, policy |-> policy, flipped |-> flipped]

Supply(kind, a, amount) ==
  [kind |-> kind, accounts |-> {a}, by |-> admin, amount |-> amount]

\* What an auditor in state t knows after reading event e.
Replay(t, e) ==
  LET Moved(n) == [a \in Addresses |-> IF a \in e.accounts THEN t.balance[a] + n ELSE t.balance[a]]
      u == [t EXCEPT !.attributed = @ /\ e.by = t.admin]
  IN CASE e.kind = "Authorized"   -> [u EXCEPT !.authorized = @ \cup e.accounts]
       [] e.kind = "Deauthorized" -> [u EXCEPT !.authorized = @ \ e.accounts]
       [] e.kind = "Banned"       -> [u EXCEPT !.banned = @ \cup e.accounts]
       [] e.kind = "Unbanned"     -> [u EXCEPT !.banned = @ \ e.accounts]
       [] e.kind = "Allowed"      -> [u EXCEPT !.allowed = @ \cup e.accounts]
       [] e.kind = "Disallowed"   -> [u EXCEPT !.allowed = @ \ e.accounts]
       [] e.kind = "Frozen"       ->
            [u EXCEPT !.banned = IF e.policy = "Denylist" THEN @ \cup e.accounts ELSE @,
                      !.allowed = IF e.policy = "Allowlist" THEN @ \ e.accounts ELSE @,
                      !.authorized = @ \ e.flipped]
       [] e.kind = "Unfrozen"     ->
            [u EXCEPT !.banned = IF e.policy = "Denylist" THEN @ \ e.accounts ELSE @,
                      !.allowed = IF e.policy = "Allowlist" THEN @ \cup e.accounts ELSE @,
                      !.authorized = @ \cup e.flipped]
       [] e.kind = "Minted"       -> [u EXCEPT !.balance = Moved(e.amount)]
       [] e.kind = "Clawback"     -> [u EXCEPT !.balance = Moved(-e.amount)]
       [] e.kind = "Paused"       -> [u EXCEPT !.paused = TRUE]
       [] e.kind = "Unpaused"     -> [u EXCEPT !.paused = FALSE]
       [] e.kind = "AdminChanged" -> [u EXCEPT !.admin = e.new]
       [] e.kind = "PolicySet"    -> [u EXCEPT !.policy = e.new]
       [] OTHER                   -> u

\* The state as it is, in the shape of the auditor's record.
Ledger ==
  [admin |-> admin, policy |-> policy, paused |-> paused, banned |-> banned,
   allowed |-> allowed, authorized |-> Authorized, balance |-> balance, attributed |-> TRUE]

-------------------------------------------------------------------------------
(***************************************************************************)
(* Checks.                                                                 *)
(***************************************************************************)

\* require_admin_even_when_paused: the stored admin signed the invocation.
RequireAdminEvenWhenPaused(signer) == signer = admin

RequireAdmin(signer) == ~paused /\ RequireAdminEvenWhenPaused(signer)

CheckBatch(batch) == batch # {} /\ Cardinality(batch) <= MaxBatch

\* Re-evaluated by every call, from storage.
CheckPolicy(a) ==
  CASE policy = "Denylist" /\ a \in banned       -> "AccountBanned"
    [] policy = "Allowlist" /\ a \notin allowed  -> "AccountNotAllowed"
    [] OTHER                                     -> "Ok"

\* Mutant of OutcomeOn: the policy is not consulted.
OutcomeUnscreened(a, l) ==
  IF paused                   THEN "ContractPaused"
  ELSE IF a = Self            THEN "CannotAuthorizeAdminContract"
  ELSE IF ~CanSetOn(l, TRUE)  THEN "NoTrustline"
  ELSE "Ok"

\* What authorize_trustline answers for an address whose line is in state l:
\* the first check that fails decides.
OutcomeOn(a, l) ==
  IF paused                      THEN "ContractPaused"
  ELSE IF a = Self               THEN "CannotAuthorizeAdminContract"
  ELSE IF CheckPolicy(a) # "Ok"  THEN CheckPolicy(a)
  ELSE IF ~CanSetOn(l, TRUE)     THEN "NoTrustline"
  ELSE "Ok"

AuthorizeOutcome(a) == OutcomeOn(a, line[a])

\* Mutant of IsEligible: it forgets the pause.
IsEligibleWhilePaused(a) == a # Self /\ CheckPolicy(a) = "Ok"

IsEligible(a) == ~paused /\ a # Self /\ CheckPolicy(a) = "Ok"

-------------------------------------------------------------------------------
(***************************************************************************)
(* Entry points.                                                           *)
(***************************************************************************)

AuthorizeTrustline(a) ==
  /\ AuthorizeOutcome(a) = "Ok"
  /\ line' = SetLines({a}, TRUE)
  /\ trail' = Replay(trail, Event("Authorized", {a}))
  /\ UNCHANGED <<contractVars, sacAdmin, balance, freeze>>

\* The freezes that re-admitting S under policy p lifts.
Lifted(S, p) ==
  [a \in Addresses |-> IF a \in S /\ policy = p THEN "no" ELSE freeze[a]]

AddBannedAccounts(signer, batch) ==
  /\ RequireAdmin(signer)
  /\ CheckBatch(batch)
  /\ banned' = banned \cup batch
  /\ trail' = Replay(trail, Event("Banned", batch))
  /\ UNCHANGED <<admin, policy, paused, allowed, assetVars, freeze>>

RemoveBannedAccounts(signer, batch) ==
  /\ RequireAdmin(signer)
  /\ CheckBatch(batch)
  /\ banned' = banned \ batch
  /\ freeze' = Lifted(batch, "Denylist")
  /\ trail' = Replay(trail, Event("Unbanned", batch))
  /\ UNCHANGED <<admin, policy, paused, allowed, assetVars>>

Allow(signer, batch) ==
  /\ RequireAdmin(signer)
  /\ CheckBatch(batch)
  /\ allowed' = allowed \cup batch
  /\ freeze' = Lifted(batch, "Allowlist")
  /\ trail' = Replay(trail, Event("Allowed", batch))
  /\ UNCHANGED <<admin, policy, paused, banned, assetVars>>

Disallow(signer, batch) ==
  /\ RequireAdmin(signer)
  /\ CheckBatch(batch)
  /\ allowed' = allowed \ batch
  /\ trail' = Replay(trail, Event("Disallowed", batch))
  /\ UNCHANGED <<admin, policy, paused, banned, assetVars, freeze>>

\* Mutant of DropFromPolicy: the freeze deauthorizes and nothing more.
DropNothing(batch) == UNCHANGED <<banned, allowed>>

\* The half of a freeze that edits the active policy's set.
DropFromPolicy(batch) ==
  /\ banned' = IF policy = "Denylist" THEN banned \cup batch ELSE banned
  /\ allowed' = IF policy = "Allowlist" THEN allowed \ batch ELSE allowed

AdmitToPolicy(batch) ==
  /\ banned' = IF policy = "Denylist" THEN banned \ batch ELSE banned
  /\ allowed' = IF policy = "Allowlist" THEN allowed \cup batch ELSE allowed

\* A freeze binds where the issuer's flags let it: AUTH_REVOCABLE for the
\* deauthorize half, AUTH_REQUIRED so that a re-opened line starts unauthorized.
FreezeBinds == sacAdmin = Self /\ Revocable /\ AuthRequired

FreezeAccounts(signer, batch) ==
  LET flipped == {a \in batch : CanSetAuthorized(a, FALSE)}
  IN /\ RequireAdmin(signer)
     /\ CheckBatch(batch)
     /\ DropFromPolicy(batch)
     /\ line' = SetLines(flipped, FALSE)
     /\ freeze' = [a \in Addresses |-> IF a \in batch /\ FreezeBinds THEN "held" ELSE freeze[a]]
     /\ trail' = Replay(trail, LifecycleEvent("Frozen", batch, flipped))
     /\ UNCHANGED <<admin, policy, paused, sacAdmin, balance>>

UnfreezeAccounts(signer, batch) ==
  LET flipped == {a \in batch : CanSetAuthorized(a, TRUE)}
  IN /\ RequireAdmin(signer)
     /\ CheckBatch(batch)
     /\ AdmitToPolicy(batch)
     /\ line' = SetLines(flipped, TRUE)
     /\ freeze' = [a \in Addresses |-> IF a \in batch THEN "no" ELSE freeze[a]]
     /\ trail' = Replay(trail, LifecycleEvent("Unfrozen", batch, flipped))
     /\ UNCHANGED <<admin, policy, paused, sacAdmin, balance>>

DeauthorizeTrustline(signer, a) ==
  /\ RequireAdmin(signer)
  /\ CanSetAuthorized(a, FALSE)
  /\ line' = SetLines({a}, FALSE)
  /\ trail' = Replay(trail, Event("Deauthorized", {a}))
  /\ UNCHANGED <<contractVars, sacAdmin, balance, freeze>>

\* Mutant of MintToAccount: the admin's check is the one that survives a pause.
MintWhilePaused(signer, to, amount) ==
  /\ RequireAdminEvenWhenPaused(signer)
  /\ amount > 0
  /\ CanMint(to, amount)
  /\ balance' = [balance EXCEPT ![to] = @ + amount]
  /\ trail' = Replay(trail, Supply("Minted", to, amount))
  /\ UNCHANGED <<contractVars, sacAdmin, line, freeze>>

MintToAccount(signer, to, amount) ==
  /\ RequireAdmin(signer)
  /\ amount > 0
  /\ CanMint(to, amount)
  /\ balance' = [balance EXCEPT ![to] = @ + amount]
  /\ trail' = Replay(trail, Supply("Minted", to, amount))
  /\ UNCHANGED <<contractVars, sacAdmin, line, freeze>>

ClawBack(signer, from, amount) ==
  /\ RequireAdmin(signer)
  /\ amount > 0
  /\ CanClawback(from, amount)
  /\ balance' = [balance EXCEPT ![from] = @ - amount]
  /\ trail' = Replay(trail, Supply("Clawback", from, amount))
  /\ UNCHANGED <<contractVars, sacAdmin, line, freeze>>

Pause(signer) ==
  /\ RequireAdminEvenWhenPaused(signer)
  /\ ~paused
  /\ paused' = TRUE
  /\ trail' = Replay(trail, Event("Paused", {}))
  /\ UNCHANGED <<admin, policy, banned, allowed, assetVars, freeze>>

Unpause(signer) ==
  /\ RequireAdminEvenWhenPaused(signer)
  /\ paused
  /\ paused' = FALSE
  /\ trail' = Replay(trail, Event("Unpaused", {}))
  /\ UNCHANGED <<admin, policy, banned, allowed, assetVars, freeze>>

\* The event names the admin that signed, read before the write.
SetAdmin(signer, new) ==
  /\ RequireAdminEvenWhenPaused(signer)
  /\ admin' = new
  /\ trail' = Replay(trail, [kind |-> "AdminChanged", accounts |-> {}, by |-> admin, new |-> new])
  /\ UNCHANGED <<policy, paused, banned, allowed, assetVars, freeze>>

\* The code is swapped, every entry of storage stays.
Upgrade(signer) ==
  /\ RequireAdminEvenWhenPaused(signer)
  /\ trail' = Replay(trail, Event("Upgraded", {}))
  /\ UNCHANGED <<contractVars, assetVars, freeze>>

\* Neither set is touched: each keeps its meaning under its own policy.
SetPolicy(signer, new) ==
  /\ RequireAdmin(signer)
  /\ policy' = new
  /\ freeze' = [a \in Addresses |->
                  IF freeze[a] = "held" /\ new # policy THEN "switched" ELSE freeze[a]]
  /\ trail' = Replay(trail, [kind |-> "PolicySet", accounts |-> {}, by |-> admin, new |-> new])
  /\ UNCHANGED <<admin, paused, banned, allowed, assetVars>>

-------------------------------------------------------------------------------
(***************************************************************************)
(* The asset's own operations, which reach the ledger without the          *)
(* authorizer.                                                             *)
(***************************************************************************)

\* CHANGE_TRUST by a holder: open a line, or close an empty one.
OpenLine(a) ==
  /\ a \in Accounts /\ line[a] = "none"
  /\ line' = [line EXCEPT ![a] = FreshLine]
  /\ trail' = [trail EXCEPT !.authorized = IF AuthRequired THEN @ ELSE @ \cup {a}]
  /\ UNCHANGED <<contractVars, sacAdmin, balance, freeze>>

CloseLine(a) ==
  /\ a \in Accounts /\ line[a] # "none" /\ balance[a] = 0
  /\ line' = [line EXCEPT ![a] = "none"]
  /\ trail' = [trail EXCEPT !.authorized = @ \ {a}]
  /\ UNCHANGED <<contractVars, sacAdmin, balance, freeze>>

\* A transfer needs both lines authorized.
Transfer(a, b, amount) ==
  /\ a # b /\ amount > 0
  /\ line[a] = "auth" /\ line[b] = "auth"
  /\ balance[a] >= amount /\ balance[b] + amount <= MaxBalance
  /\ balance' = [balance EXCEPT ![a] = @ - amount, ![b] = @ + amount]
  /\ trail' = [trail EXCEPT !.balance = balance']
  /\ UNCHANGED <<contractVars, sacAdmin, line, freeze>>

\* Whoever is SAC admin before the authorizer flips lines directly.
PredecessorSets(a, on) ==
  /\ sacAdmin # Self /\ line[a] # "none"
  /\ on \/ Revocable
  /\ line' = SetLines({a}, on)
  /\ trail' = [trail EXCEPT !.authorized = IF on THEN @ \cup {a} ELSE @ \ {a}]
  /\ UNCHANGED <<contractVars, sacAdmin, balance, freeze>>

\* SAC.set_admin(<the authorizer>).  No entry point of the authorizer gives
\* the adminship away again.
HandOver(new) ==
  /\ sacAdmin # Self
  /\ sacAdmin' = new
  /\ UNCHANGED <<contractVars, line, balance, freeze, trail>>

-------------------------------------------------------------------------------
\* The constructor, on an asset some predecessor administers.
Init ==
  /\ admin \in Principals
  /\ policy \in Policy
  /\ paused = FALSE
  /\ banned = {} /\ allowed = {}
  /\ sacAdmin \in Predecessors
  /\ line = [a \in Addresses |-> IF a \in Accounts THEN "none" ELSE FreshLine]
  /\ balance = [a \in Addresses |-> 0]
  /\ freeze = [a \in Addresses |-> "no"]
  /\ trail = Ledger

AdminNext(signer) ==
  \/ \E batch \in SUBSET Addresses :
       \/ AddBannedAccounts(signer, batch)
       \/ RemoveBannedAccounts(signer, batch)
       \/ Allow(signer, batch)
       \/ Disallow(signer, batch)
       \/ FreezeAccounts(signer, batch)
       \/ UnfreezeAccounts(signer, batch)
  \/ \E a \in Addresses :
       \/ DeauthorizeTrustline(signer, a)
       \/ \E n \in Amounts : MintToAccount(signer, a, n) \/ ClawBack(signer, a, n)
  \/ Pause(signer)
  \/ Unpause(signer)
  \/ \E new \in Principals : SetAdmin(signer, new)
  \/ Upgrade(signer)
  \/ \E new \in Policy : SetPolicy(signer, new)

AssetNext ==
  \/ \E a \in Addresses :
       \/ OpenLine(a)
       \/ CloseLine(a)
       \/ \E on \in BOOLEAN : PredecessorSets(a, on)
       \/ \E b \in Addresses, n \in Amounts : Transfer(a, b, n)
  \/ \E new \in Predecessors \cup {Self} : HandOver(new)

Next ==
  \/ \E a \in Addresses : AuthorizeTrustline(a)
  \/ \E signer \in Principals : AdminNext(signer)
  \/ AssetNext

Spec == Init /\ [][Next]_vars

-------------------------------------------------------------------------------
(***************************************************************************)
(* Properties.                                                             *)
(***************************************************************************)

\* The shape of the state; balances stay between zero and the line's limit.
TypeOK ==
  /\ admin \in Principals
  /\ policy \in Policy
  /\ paused \in BOOLEAN
  /\ banned \in SUBSET Addresses
  /\ allowed \in SUBSET Addresses
  /\ sacAdmin \in Predecessors \cup {Self}
  /\ line \in [Addresses -> {"none", "unauth", "auth"}]
  /\ \A c \in Contracts : line[c] # "none"
  /\ balance \in [Addresses -> 0..MaxBalance]
  /\ freeze \in [Addresses -> {"no", "held", "switched"}]

\* "The account cannot re-authorize itself by replaying onboard(), or by
\* deleting and recreating the trustline" (freeze_accounts): from a binding
\* freeze until the issuer re-admits the address or changes the policy, it is
\* not authorized and authorize_trustline would refuse it.
FrozenStaysOut ==
  \A a \in Addresses :
    freeze[a] = "held" => line[a] # "auth" /\ CheckPolicy(a) # "Ok"

\* What makes FrozenStaysOut inductive: a freeze in force was made by the
\* authorizer in charge of an asset whose flags let freezes bind.
FrozenInv ==
  /\ FrozenStaysOut
  /\ \A a \in Addresses : freeze[a] = "held" => FreezeBinds

\* "A frozen-but-not-banned state MUST NOT be representable" (SEP, freeze
\* semantics): an address stays refused from a binding freeze until the issuer
\* re-admits it, whatever else happens.
NoFrozenButNotBanned ==
  \A a \in Addresses : freeze[a] # "no" => CheckPolicy(a) # "Ok"

\* "The full authorization history is reconstructable from the ledger alone"
\* (module documentation): an auditor that follows the events and the asset's
\* own operations holds the true state after every step, and every event is
\* attributed to the admin the earlier events put in charge.
TrailIsFaithful == trail = Ledger

\* is_eligible tells a client whether authorize_trustline would be permitted,
\* "ignoring whether a trustline exists": the read and the call agree on every
\* address in every state.
EligibilityForeseesOutcome ==
  \A a \in Addresses :
    IsEligible(a) <=> AuthorizeOutcome(a) \in {"Ok", "NoTrustline"}

\* No line changes but by being opened or closed.
LinesStand ==
  \A a \in Addresses : line'[a] # line[a] => line[a] = "none" \/ line'[a] = "none"

\* Nothing is issued or taken back: a holder pays another, if anything moves.
SupplyStands ==
  \/ UNCHANGED balance
  \/ \E a, b \in Addresses, n \in Amounts :
       a # b /\ balance' = [balance EXCEPT ![a] = @ - n, ![b] = @ + n]

\* "Stop everything: authorization, freezes, supply, policy edits" (pause):
\* while paused neither list changes nor the policy, and once the authorizer
\* is in charge no line's authorization and no supply; holders still open
\* and close lines and pay each other.
PauseStopsEverything ==
  [][paused =>
       /\ UNCHANGED <<policy, banned, allowed>>
       /\ sacAdmin = Self => LinesStand /\ SupplyStands]_vars

\* The authorizer as an implementation of the admission promise; its own
\* address is left out, which UnfreezeAccounts can authorize.
Governed         == sacAdmin = Self
Others           == Addresses \ {Self}
EligibleOthers   == {a \in Addresses : IsEligible(a)}
AuthorizedOthers == Authorized \ {Self}

Adm == INSTANCE Admission WITH
  Holders    <- Others,
  Open       <- ~AuthRequired,
  Binding    <- Revocable,
  governed   <- Governed,
  eligible   <- EligibleOthers,
  authorized <- AuthorizedOthers

\* Every behaviour of the authorizer over its asset is one the abstract
\* admission specification allows.
ImplementsAdmission == Adm!AdmissionSpec
===============================================================================
