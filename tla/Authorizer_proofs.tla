--------------------------- MODULE Authorizer_proofs ---------------------------
(***************************************************************************)
(* Theorems of module Authorizer, for every set of addresses, every batch  *)
(* bound, every choice of the issuer's flags and unboundedly many calls.   *)
(***************************************************************************)
EXTENDS Authorizer, TLAPS

\* The constants of every proof below.
USE SelfIsContract, AddressesDisjoint, NotPredecessor, BoundsAreNat, AmountsAreInt, FlagsAreBoolean

\* Setting authorization on lines that exist keeps every line a line, and
\* leaves the others as they are.
LEMMA SetLinesType ==
  ASSUME TypeOK, NEW S \in SUBSET Addresses, NEW on \in BOOLEAN,
         \A a \in S : line[a] # "none"
  PROVE  /\ SetLines(S, on) \in [Addresses -> {"none", "unauth", "auth"}]
         /\ \A c \in Contracts : SetLines(S, on)[c] # "none"
BY DEF SetLines, TypeOK, Addresses

\* The balance updates of mint, clawback and transfer stay in range.
LEMMA BalanceSteps ==
  ASSUME TypeOK, NEW a \in Addresses, NEW n \in Amounts, n > 0
  PROVE  /\ CanMint(a, n) => [balance EXCEPT ![a] = @ + n] \in [Addresses -> 0..MaxBalance]
         /\ CanClawback(a, n) => [balance EXCEPT ![a] = @ - n] \in [Addresses -> 0..MaxBalance]
         /\ \A b \in Addresses :
              a # b /\ balance[a] >= n /\ balance[b] + n <= MaxBalance
              => [balance EXCEPT ![a] = @ - n, ![b] = @ + n] \in [Addresses -> 0..MaxBalance]
<1>1. n \in Int /\ balance[a] \in 0..MaxBalance
  BY DEF TypeOK
<1>2. CanMint(a, n) => balance[a] + n \in 0..MaxBalance
  BY <1>1 DEF CanMint
<1>3. CanClawback(a, n) => balance[a] - n \in 0..MaxBalance
  BY <1>1 DEF CanClawback
<1>4. ASSUME NEW b \in Addresses,
             a # b, balance[a] >= n, balance[b] + n <= MaxBalance
      PROVE  [balance EXCEPT ![a] = @ - n, ![b] = @ + n] \in [Addresses -> 0..MaxBalance]
  <2>1. balance[b] \in 0..MaxBalance
    BY DEF TypeOK
  <2>2. balance[a] - n \in 0..MaxBalance /\ balance[b] + n \in 0..MaxBalance
    BY <1>1, <1>4, <2>1
  <2> QED
    BY <1>4, <2>2 DEF TypeOK
<1> QED
  BY <1>2, <1>3, <1>4 DEF TypeOK

LEMMA TypeInit == Init => TypeOK
<1> SUFFICES ASSUME Init PROVE TypeOK
  OBVIOUS
<1>1. /\ line \in [Addresses -> {"none", "unauth", "auth"}]
      /\ \A c \in Contracts : line[c] # "none"
  BY DEF Init, FreshLine, Addresses
<1>2. balance \in [Addresses -> 0..MaxBalance]
  <2>1. 0 \in 0..MaxBalance
    OBVIOUS
  <2> QED
    BY <2>1 DEF Init
<1> QED
  BY <1>1, <1>2 DEF Init, TypeOK

LEMMA TypeAdminStep ==
  ASSUME TypeOK, NEW signer \in Principals, AdminNext(signer)
  PROVE  TypeOK'
<1>1. CASE \E batch \in SUBSET Addresses :
             \/ AddBannedAccounts(signer, batch)
             \/ RemoveBannedAccounts(signer, batch)
             \/ Allow(signer, batch)
             \/ Disallow(signer, batch)
  BY <1>1 DEF TypeOK, AddBannedAccounts, RemoveBannedAccounts, Allow, Disallow, Lifted, assetVars
<1>2. ASSUME NEW batch \in SUBSET Addresses, FreezeAccounts(signer, batch)
      PROVE  TypeOK'
  <2> DEFINE flipped == {a \in batch : CanSetAuthorized(a, FALSE)}
  <2>1. \A a \in flipped : line[a] # "none"
    BY DEF CanSetAuthorized, CanSetOn
  <2>2. /\ line' \in [Addresses -> {"none", "unauth", "auth"}]
        /\ \A c \in Contracts : line'[c] # "none"
    BY <1>2, <2>1, SetLinesType DEF FreezeAccounts
  <2> QED
    BY <1>2, <2>2 DEF TypeOK, FreezeAccounts, DropFromPolicy
<1>3. ASSUME NEW batch \in SUBSET Addresses, UnfreezeAccounts(signer, batch)
      PROVE  TypeOK'
  <2> DEFINE flipped == {a \in batch : CanSetAuthorized(a, TRUE)}
  <2>1. \A a \in flipped : line[a] # "none"
    BY DEF CanSetAuthorized, CanSetOn
  <2>2. /\ line' \in [Addresses -> {"none", "unauth", "auth"}]
        /\ \A c \in Contracts : line'[c] # "none"
    BY <1>3, <2>1, SetLinesType DEF UnfreezeAccounts
  <2> QED
    BY <1>3, <2>2 DEF TypeOK, UnfreezeAccounts, AdmitToPolicy
<1>4. ASSUME NEW a \in Addresses, DeauthorizeTrustline(signer, a)
      PROVE  TypeOK'
  <2>1. line[a] # "none"
    BY <1>4 DEF DeauthorizeTrustline, CanSetAuthorized, CanSetOn
  <2>2. /\ line' \in [Addresses -> {"none", "unauth", "auth"}]
        /\ \A c \in Contracts : line'[c] # "none"
    BY <1>4, <2>1, SetLinesType DEF DeauthorizeTrustline
  <2> QED
    BY <1>4, <2>2 DEF TypeOK, DeauthorizeTrustline, contractVars
<1>5. ASSUME NEW a \in Addresses, NEW n \in Amounts,
             MintToAccount(signer, a, n) \/ ClawBack(signer, a, n)
      PROVE  TypeOK'
  <2>1. n > 0
    BY <1>5 DEF MintToAccount, ClawBack
  <2>2. /\ CanMint(a, n) => [balance EXCEPT ![a] = @ + n] \in [Addresses -> 0..MaxBalance]
        /\ CanClawback(a, n) => [balance EXCEPT ![a] = @ - n] \in [Addresses -> 0..MaxBalance]
    BY <2>1, BalanceSteps
  <2>3. balance' \in [Addresses -> 0..MaxBalance]
    <3>1. CASE MintToAccount(signer, a, n)
      BY <3>1, <2>2 DEF MintToAccount
    <3>2. CASE ClawBack(signer, a, n)
      BY <3>2, <2>2 DEF ClawBack
    <3> QED
      BY <1>5, <3>1, <3>2
  <2> QED
    BY <1>5, <2>3 DEF TypeOK, MintToAccount, ClawBack, contractVars
<1>6. CASE \/ Pause(signer) \/ Unpause(signer) \/ Upgrade(signer)
           \/ \E new \in Principals : SetAdmin(signer, new)
           \/ \E new \in Policy : SetPolicy(signer, new)
  BY <1>6 DEF TypeOK, Pause, Unpause, Upgrade, SetAdmin, SetPolicy, contractVars, assetVars
<1> QED
  BY <1>1, <1>2, <1>3, <1>4, <1>5, <1>6 DEF AdminNext

LEMMA TypeAssetStep == TypeOK /\ AssetNext => TypeOK'
<1> SUFFICES ASSUME TypeOK, AssetNext PROVE TypeOK'
  OBVIOUS
<1>1. ASSUME NEW a \in Addresses, OpenLine(a) \/ CloseLine(a)
      PROVE  TypeOK'
  <2>1. /\ a \in Accounts
        /\ \E l \in {"none", "unauth", "auth"} : line' = [line EXCEPT ![a] = l]
    BY <1>1 DEF OpenLine, CloseLine, FreshLine
  <2>2. /\ line' \in [Addresses -> {"none", "unauth", "auth"}]
        /\ \A c \in Contracts : line'[c] # "none"
    BY <2>1 DEF TypeOK, Addresses
  <2> QED
    BY <1>1, <2>2 DEF TypeOK, OpenLine, CloseLine, contractVars
<1>2. ASSUME NEW a \in Addresses, NEW on \in BOOLEAN, PredecessorSets(a, on)
      PROVE  TypeOK'
  <2>1. /\ line' \in [Addresses -> {"none", "unauth", "auth"}]
        /\ \A c \in Contracts : line'[c] # "none"
    BY <1>2, SetLinesType DEF PredecessorSets
  <2> QED
    BY <1>2, <2>1 DEF TypeOK, PredecessorSets, contractVars
<1>3. ASSUME NEW a \in Addresses, NEW b \in Addresses, NEW n \in Amounts, Transfer(a, b, n)
      PROVE  TypeOK'
  <2>1. balance' \in [Addresses -> 0..MaxBalance]
    BY <1>3, BalanceSteps DEF Transfer
  <2> QED
    BY <1>3, <2>1 DEF TypeOK, Transfer, contractVars
<1>4. ASSUME NEW new \in Predecessors \cup {Self}, HandOver(new)
      PROVE  TypeOK'
  BY <1>4 DEF TypeOK, HandOver, contractVars
<1> QED
  BY <1>1, <1>2, <1>3, <1>4 DEF AssetNext

LEMMA TypeStep == TypeOK /\ [Next]_vars => TypeOK'
<1> SUFFICES ASSUME TypeOK, [Next]_vars PROVE TypeOK'
  OBVIOUS
<1>1. ASSUME NEW a \in Addresses, AuthorizeTrustline(a)
      PROVE  TypeOK'
  <2>1. line[a] # "none"
    BY <1>1 DEF AuthorizeTrustline, AuthorizeOutcome, OutcomeOn, CanSetOn
  <2>2. /\ line' \in [Addresses -> {"none", "unauth", "auth"}]
        /\ \A c \in Contracts : line'[c] # "none"
    BY <1>1, <2>1, SetLinesType DEF AuthorizeTrustline
  <2> QED
    BY <1>1, <2>2 DEF TypeOK, AuthorizeTrustline, contractVars
<1>2. ASSUME NEW signer \in Principals, AdminNext(signer)
      PROVE  TypeOK'
  BY <1>2, TypeAdminStep
<1>3. CASE AssetNext
  BY <1>3, TypeAssetStep
<1>4. CASE UNCHANGED vars
  BY <1>4 DEF TypeOK, vars, contractVars, assetVars
<1> QED
  BY <1>1, <1>2, <1>3, <1>4 DEF Next

\* Every reachable state has the shape the contract's storage and the asset's
\* ledger entries have; no balance leaves the limits of its line.
THEOREM TypeCorrect == Spec => []TypeOK
BY TypeInit, TypeStep, PTL DEF Spec

-------------------------------------------------------------------------------
(***************************************************************************)
(* A freeze that binds keeps its address out.                              *)
(***************************************************************************)

\* The lists decide CheckPolicy, by policy.
LEMMA PolicyRefuses ==
  ASSUME TypeOK, NEW a \in Addresses
  PROVE  CheckPolicy(a) # "Ok" <=> \/ policy = "Denylist" /\ a \in banned
                                   \/ policy = "Allowlist" /\ a \notin allowed
BY DEF CheckPolicy, TypeOK, Policy

LEMMA PolicyRefusesNext ==
  ASSUME TypeOK', NEW a \in Addresses
  PROVE  (CheckPolicy(a) # "Ok")' <=> \/ policy' = "Denylist" /\ a \in banned'
                                      \/ policy' = "Allowlist" /\ a \notin allowed'
BY DEF CheckPolicy, TypeOK, Policy

\* The invariant with the policy check spelled out, which is what a step can
\* be seen to keep.
LEMMA FrozenSpelledOut ==
  ASSUME TypeOK
  PROVE  FrozenInv <=>
           \A a \in Addresses : freeze[a] = "held" =>
             /\ line[a] # "auth"
             /\ \/ policy = "Denylist" /\ a \in banned
                \/ policy = "Allowlist" /\ a \notin allowed
             /\ FreezeBinds
BY PolicyRefuses DEF FrozenInv, FrozenStaysOut

LEMMA FrozenAdminStep ==
  ASSUME TypeOK, TypeOK', FrozenInv, NEW signer \in Principals, AdminNext(signer),
         NEW a \in Addresses, freeze'[a] = "held"
  PROVE  /\ line'[a] # "auth"
         /\ \/ policy' = "Denylist" /\ a \in banned'
            \/ policy' = "Allowlist" /\ a \notin allowed'
         /\ FreezeBinds'
<1> DEFINE Out == \/ policy = "Denylist" /\ a \in banned
                  \/ policy = "Allowlist" /\ a \notin allowed
<1> DEFINE OutNext == \/ policy' = "Denylist" /\ a \in banned'
                      \/ policy' = "Allowlist" /\ a \notin allowed'
<1>1. freeze[a] = "held" => line[a] # "auth" /\ Out /\ FreezeBinds
  BY FrozenSpelledOut
<1>2. policy \in {"Denylist", "Allowlist"}
  BY DEF TypeOK, Policy
<1>3. ASSUME NEW batch \in SUBSET Addresses,
             \/ AddBannedAccounts(signer, batch) \/ RemoveBannedAccounts(signer, batch)
             \/ Allow(signer, batch) \/ Disallow(signer, batch)
      PROVE  line'[a] # "auth" /\ OutNext /\ FreezeBinds'
  BY <1>1, <1>2, <1>3
     DEF AddBannedAccounts, RemoveBannedAccounts, Allow, Disallow, Lifted, assetVars, FreezeBinds
<1>4. ASSUME NEW batch \in SUBSET Addresses, FreezeAccounts(signer, batch)
      PROVE  line'[a] # "auth" /\ OutNext /\ FreezeBinds'
  <2>1. FreezeBinds /\ FreezeBinds'
    BY <1>1, <1>4 DEF FreezeAccounts, FreezeBinds
  <2>2. a \in batch => line'[a] # "auth"
    BY <1>4, <2>1 DEF FreezeAccounts, SetLines, CanSetAuthorized, CanSetOn, FreezeBinds
  <2>3. a \notin batch => line'[a] = line[a] /\ freeze[a] = "held"
    BY <1>4 DEF FreezeAccounts, SetLines
  <2>4. OutNext
    BY <1>1, <1>2, <1>4, <2>3 DEF FreezeAccounts, DropFromPolicy
  <2> QED
    BY <1>1, <2>1, <2>2, <2>3, <2>4
<1>5. ASSUME NEW batch \in SUBSET Addresses, UnfreezeAccounts(signer, batch)
      PROVE  line'[a] # "auth" /\ OutNext /\ FreezeBinds'
  <2>1. a \notin batch /\ freeze[a] = "held"
    BY <1>5 DEF UnfreezeAccounts
  <2>2. line'[a] = line[a]
    BY <1>5, <2>1 DEF UnfreezeAccounts, SetLines
  <2> QED
    BY <1>1, <1>5, <2>1, <2>2 DEF UnfreezeAccounts, AdmitToPolicy, FreezeBinds
<1>6. ASSUME NEW b \in Addresses, DeauthorizeTrustline(signer, b)
      PROVE  line'[a] # "auth" /\ OutNext /\ FreezeBinds'
  BY <1>1, <1>6 DEF DeauthorizeTrustline, SetLines, contractVars, FreezeBinds
<1>7. ASSUME NEW b \in Addresses, NEW n \in Amounts,
             MintToAccount(signer, b, n) \/ ClawBack(signer, b, n)
      PROVE  line'[a] # "auth" /\ OutNext /\ FreezeBinds'
  BY <1>1, <1>7 DEF MintToAccount, ClawBack, contractVars, FreezeBinds
<1>8. CASE \/ Pause(signer) \/ Unpause(signer) \/ Upgrade(signer)
           \/ \E new \in Principals : SetAdmin(signer, new)
  BY <1>1, <1>8 DEF Pause, Unpause, Upgrade, SetAdmin, contractVars, assetVars, FreezeBinds
<1>9. ASSUME NEW new \in Policy, SetPolicy(signer, new)
      PROVE  line'[a] # "auth" /\ OutNext /\ FreezeBinds'
  <2>1. freeze[a] = "held" /\ policy' = policy
    BY <1>9 DEF SetPolicy
  <2> QED
    BY <1>1, <1>9, <2>1 DEF SetPolicy, assetVars, FreezeBinds
<1> QED
  BY <1>3, <1>4, <1>5, <1>6, <1>7, <1>8, <1>9 DEF AdminNext

LEMMA FrozenAssetStep ==
  ASSUME TypeOK, TypeOK', FrozenInv, AssetNext, NEW a \in Addresses, freeze'[a] = "held"
  PROVE  /\ line'[a] # "auth"
         /\ \/ policy' = "Denylist" /\ a \in banned'
            \/ policy' = "Allowlist" /\ a \notin allowed'
         /\ FreezeBinds'
<1>1. UNCHANGED <<contractVars, freeze>>
  BY DEF AssetNext, OpenLine, CloseLine, PredecessorSets, Transfer, HandOver
<1>2. /\ line[a] # "auth" /\ FreezeBinds
      /\ \/ policy = "Denylist" /\ a \in banned
         \/ policy = "Allowlist" /\ a \notin allowed
  BY <1>1, FrozenSpelledOut
<1>3. line'[a] # "auth" /\ sacAdmin' = sacAdmin
  BY <1>2 DEF AssetNext, OpenLine, CloseLine, PredecessorSets, Transfer, HandOver,
              FreezeBinds, FreshLine, TypeOK
<1> QED
  BY <1>1, <1>2, <1>3 DEF contractVars, FreezeBinds

LEMMA FrozenStep == TypeOK /\ TypeOK' /\ FrozenInv /\ [Next]_vars => FrozenInv'
<1> SUFFICES ASSUME TypeOK, TypeOK', FrozenInv, [Next]_vars,
                    NEW a \in Addresses, freeze'[a] = "held"
             PROVE  /\ line'[a] # "auth"
                    /\ \/ policy' = "Denylist" /\ a \in banned'
                       \/ policy' = "Allowlist" /\ a \notin allowed'
                    /\ FreezeBinds'
  BY PolicyRefusesNext DEF FrozenInv, FrozenStaysOut
<1>1. ASSUME NEW b \in Addresses, AuthorizeTrustline(b)
      PROVE  /\ line'[a] # "auth"
             /\ \/ policy' = "Denylist" /\ a \in banned'
                \/ policy' = "Allowlist" /\ a \notin allowed'
             /\ FreezeBinds'
  <2>1. freeze[a] = "held"
    BY <1>1 DEF AuthorizeTrustline
  <2>2. CheckPolicy(b) = "Ok"
    BY <1>1 DEF AuthorizeTrustline, AuthorizeOutcome, OutcomeOn
  <2>3. a # b
    BY <2>1, <2>2 DEF FrozenInv, FrozenStaysOut
  <2>4. line'[a] = line[a]
    BY <1>1, <2>3 DEF AuthorizeTrustline, SetLines
  <2> QED
    BY <1>1, <2>1, <2>4, FrozenSpelledOut DEF AuthorizeTrustline, contractVars, FreezeBinds
<1>2. CASE \E signer \in Principals : AdminNext(signer)
  BY <1>2, FrozenAdminStep
<1>3. CASE AssetNext
  BY <1>3, FrozenAssetStep
<1>4. CASE UNCHANGED vars
  BY <1>4, FrozenSpelledOut DEF vars, contractVars, assetVars, FreezeBinds
<1> QED
  BY <1>1, <1>2, <1>3, <1>4 DEF Next

\* However the calls of issuer, holders and strangers interleave, an address
\* under a freeze that binds is neither authorized nor authorizable until the
\* issuer re-admits it or changes the policy.
THEOREM FrozenIsOut == Spec => []FrozenStaysOut
<1>1. Init => FrozenInv
  BY DEF Init, FrozenInv, FrozenStaysOut
<1>2. FrozenInv => FrozenStaysOut
  BY DEF FrozenInv
<1> QED
  BY <1>1, <1>2, FrozenStep, TypeCorrect, PTL DEF Spec

\* A freeze is undercut by nothing but a change of policy.
LEMMA NothingElseUndercuts ==
  (\A a \in Addresses : freeze[a] # "switched") /\ TypeOK /\ [Next]_vars /\ policy' = policy
    => \A a \in Addresses : freeze'[a] # "switched"
<1> SUFFICES ASSUME \A a \in Addresses : freeze[a] # "switched", TypeOK, [Next]_vars, policy' = policy
    PROVE  \A a \in Addresses : freeze'[a] # "switched"
  OBVIOUS
<1>1. ASSUME NEW signer \in Principals, AdminNext(signer)
      PROVE  \A a \in Addresses : freeze'[a] # "switched"
  <2>1. \/ freeze' = freeze
        \/ \E S : \E v \in {"no", "held"} :
             freeze' = [a \in Addresses |-> IF a \in S THEN v ELSE freeze[a]]
        \/ \E new \in Policy : policy' = new /\
             freeze' = [a \in Addresses |->
                          IF freeze[a] = "held" /\ new # policy THEN "switched" ELSE freeze[a]]
    <3>1. ASSUME NEW batch \in SUBSET Addresses,
                 \/ AddBannedAccounts(signer, batch) \/ RemoveBannedAccounts(signer, batch)
                 \/ Allow(signer, batch) \/ Disallow(signer, batch)
          PROVE  \/ freeze' = freeze
                 \/ \E S : freeze' = [a \in Addresses |-> IF a \in S THEN "no" ELSE freeze[a]]
      <4>1. \A p : \E S : Lifted(batch, p) = [a \in Addresses |-> IF a \in S THEN "no" ELSE freeze[a]]
        <5> TAKE p
        <5> WITNESS {a \in batch : policy = p}
        <5> QED BY DEF Lifted
      <4> QED BY <3>1, <4>1 DEF AddBannedAccounts, RemoveBannedAccounts, Allow, Disallow
    <3>2. ASSUME NEW batch \in SUBSET Addresses,
                 FreezeAccounts(signer, batch) \/ UnfreezeAccounts(signer, batch)
          PROVE  \E S : \E v \in {"no", "held"} :
                   freeze' = [a \in Addresses |-> IF a \in S THEN v ELSE freeze[a]]
      <4>1. CASE FreezeAccounts(signer, batch)
        <5> DEFINE S == {a \in batch : FreezeBinds}
        <5>1. freeze' = [a \in Addresses |-> IF a \in S THEN "held" ELSE freeze[a]]
          BY <4>1 DEF FreezeAccounts
        <5> QED BY <5>1
      <4>2. CASE UnfreezeAccounts(signer, batch)
        BY <4>2 DEF UnfreezeAccounts
      <4> QED BY <3>2, <4>1, <4>2
    <3>3. ASSUME NEW a \in Addresses,
                 \/ DeauthorizeTrustline(signer, a)
                 \/ \E n \in Amounts : MintToAccount(signer, a, n) \/ ClawBack(signer, a, n)
          PROVE  freeze' = freeze
      BY <3>3 DEF DeauthorizeTrustline, MintToAccount, ClawBack
    <3>4. CASE Pause(signer) \/ Unpause(signer) \/ Upgrade(signer)
               \/ \E new \in Principals : SetAdmin(signer, new)
      BY <3>4 DEF Pause, Unpause, Upgrade, SetAdmin
    <3>5. CASE \E new \in Policy : SetPolicy(signer, new)
      BY <3>5 DEF SetPolicy
    <3> QED BY <1>1, <3>1, <3>2, <3>3, <3>4, <3>5 DEF AdminNext
  <2> QED BY <2>1
<1>2. CASE ~(\E signer \in Principals : AdminNext(signer))
  BY <1>2 DEF Next, AuthorizeTrustline, AssetNext, OpenLine, CloseLine, PredecessorSets, Transfer,
     HandOver, vars
<1> QED BY <1>1, <1>2

\* What the SEP demands, "a frozen-but-not-banned state MUST NOT be representable",
\* holds under every issuer that keeps the policy it was deployed with.  (One that
\* changes it may leave such a state; see freeze_switch.)
THEOREM FrozenIsBanned == Spec /\ [][policy' = policy]_vars => []NoFrozenButNotBanned
<1> DEFINE Unswitched == \A a \in Addresses : freeze[a] # "switched"
<1>1. Init => Unswitched
  BY DEF Init
<1>2. TypeOK /\ Unswitched /\ [Next]_vars /\ [policy' = policy]_vars => Unswitched'
  BY NothingElseUndercuts DEF vars, contractVars
<1>3. TypeOK /\ Unswitched /\ FrozenStaysOut => NoFrozenButNotBanned
  BY DEF TypeOK, FrozenStaysOut, NoFrozenButNotBanned
<1> QED BY TypeCorrect, FrozenIsOut, <1>1, <1>2, <1>3, PTL DEF Spec


-------------------------------------------------------------------------------
(***************************************************************************)
(* The pause, and what is_eligible foresees.                               *)
(***************************************************************************)

\* The read-only is_eligible and the call itself never disagree about the
\* contract's own checks.
THEOREM EligibilityIsForeseen == Spec => []EligibilityForeseesOutcome
<1>1. EligibilityForeseesOutcome
  BY DEF EligibilityForeseesOutcome, IsEligible, AuthorizeOutcome, OutcomeOn, CheckPolicy
<1> QED
  BY <1>1, PTL

LEMMA PausedStep ==
  ASSUME TypeOK, [Next]_vars, paused
  PROVE  UNCHANGED <<policy, banned, allowed>> /\ (sacAdmin = Self => LinesStand /\ SupplyStands)
<1> DEFINE Still == /\ UNCHANGED <<policy, banned, allowed>>
                    /\ sacAdmin = Self => LinesStand /\ SupplyStands
<1>1. ASSUME NEW a \in Addresses PROVE ~AuthorizeTrustline(a)
  BY DEF AuthorizeTrustline, AuthorizeOutcome, OutcomeOn
<1>2. ASSUME NEW signer \in Principals, AdminNext(signer) PROVE Still
  BY <1>2
     DEF AdminNext, RequireAdmin, AddBannedAccounts, RemoveBannedAccounts, Allow, Disallow,
         FreezeAccounts, UnfreezeAccounts, DeauthorizeTrustline, MintToAccount, ClawBack,
         Pause, Unpause, SetAdmin, Upgrade, SetPolicy, contractVars, assetVars,
         LinesStand, SupplyStands
<1>3. CASE AssetNext
  <2>1. UNCHANGED <<policy, banned, allowed>>
    BY <1>3
       DEF AssetNext, OpenLine, CloseLine, PredecessorSets, Transfer, HandOver, contractVars
  <2>2. sacAdmin = Self => LinesStand
    BY <1>3
       DEF AssetNext, OpenLine, CloseLine, PredecessorSets, Transfer, HandOver, TypeOK, LinesStand
  <2>3. SupplyStands
    BY <1>3
       DEF AssetNext, OpenLine, CloseLine, PredecessorSets, Transfer, HandOver, SupplyStands
  <2> QED
    BY <2>1, <2>2, <2>3
<1>4. CASE UNCHANGED vars
  BY <1>4 DEF vars, contractVars, assetVars, LinesStand, SupplyStands
<1> QED
  BY <1>1, <1>2, <1>3, <1>4 DEF Next

\* Nothing the issuer or a stranger calls changes a list, the policy, a
\* line's authorization or the supply between pause and unpause.
THEOREM PauseIsTotal == Spec => PauseStopsEverything
<1> DEFINE Still == /\ UNCHANGED <<policy, banned, allowed>>
                    /\ sacAdmin = Self => LinesStand /\ SupplyStands
<1>1. TypeOK /\ [Next]_vars => [paused => Still]_vars
  BY PausedStep
<1> QED
  BY <1>1, TypeCorrect, PTL DEF Spec, PauseStopsEverything

-------------------------------------------------------------------------------
(***************************************************************************)
(* The audit trail.                                                        *)
(***************************************************************************)

LEMMA TrailListStep ==
  ASSUME TypeOK, TrailIsFaithful, NEW signer, NEW batch \in SUBSET Addresses,
         \/ AddBannedAccounts(signer, batch) \/ RemoveBannedAccounts(signer, batch)
         \/ Allow(signer, batch) \/ Disallow(signer, batch)
  PROVE  TrailIsFaithful'
<1>1. UNCHANGED <<line, balance>> /\ Authorized' = Authorized
  BY DEF AddBannedAccounts, RemoveBannedAccounts, Allow, Disallow, assetVars, Authorized
<1>2. CASE AddBannedAccounts(signer, batch)
  BY <1>1, <1>2 DEF AddBannedAccounts, TrailIsFaithful, Ledger, Replay, Event, assetVars
<1>3. CASE RemoveBannedAccounts(signer, batch)
  BY <1>1, <1>3 DEF RemoveBannedAccounts, TrailIsFaithful, Ledger, Replay, Event, assetVars
<1>4. CASE Allow(signer, batch)
  BY <1>1, <1>4 DEF Allow, TrailIsFaithful, Ledger, Replay, Event, assetVars
<1>5. CASE Disallow(signer, batch)
  BY <1>1, <1>5 DEF Disallow, TrailIsFaithful, Ledger, Replay, Event, assetVars
<1> QED
  BY <1>2, <1>3, <1>4, <1>5

\* Who is authorized after the lines of S are set.
LEMMA AuthorizedAfter ==
  ASSUME TypeOK, NEW S \in SUBSET Addresses, NEW on \in BOOLEAN, line' = SetLines(S, on)
  PROVE  Authorized' = IF on THEN Authorized \cup S ELSE Authorized \ S
BY DEF Authorized, SetLines, TypeOK

LEMMA TrailLifecycleStep ==
  ASSUME TypeOK, TrailIsFaithful, NEW signer, NEW batch \in SUBSET Addresses,
         FreezeAccounts(signer, batch) \/ UnfreezeAccounts(signer, batch)
  PROVE  TrailIsFaithful'
<1>1. CASE FreezeAccounts(signer, batch)
  <2> DEFINE flipped == {a \in batch : CanSetAuthorized(a, FALSE)}
  <2>1. Authorized' = Authorized \ flipped
    BY <1>1, AuthorizedAfter DEF FreezeAccounts
  <2> QED
    BY <1>1, <2>1 DEF FreezeAccounts, DropFromPolicy, TrailIsFaithful, Ledger, Replay, LifecycleEvent
<1>2. CASE UnfreezeAccounts(signer, batch)
  <2> DEFINE flipped == {a \in batch : CanSetAuthorized(a, TRUE)}
  <2>1. Authorized' = Authorized \cup flipped
    BY <1>2, AuthorizedAfter DEF UnfreezeAccounts
  <2> QED
    BY <1>2, <2>1 DEF UnfreezeAccounts, AdmitToPolicy, TrailIsFaithful, Ledger, Replay, LifecycleEvent
<1> QED
  BY <1>1, <1>2

LEMMA TrailSupplyStep ==
  ASSUME TypeOK, TrailIsFaithful, NEW signer, NEW a \in Addresses, NEW n \in Amounts,
         MintToAccount(signer, a, n) \/ ClawBack(signer, a, n)
  PROVE  TrailIsFaithful'
<1>1. Authorized' = Authorized
  BY DEF MintToAccount, ClawBack, Authorized
<1>2. CASE MintToAccount(signer, a, n)
  <2>1. balance' = [b \in Addresses |-> IF b \in {a} THEN balance[b] + n ELSE balance[b]]
    BY <1>2 DEF MintToAccount, TypeOK
  <2> QED
    BY <1>1, <1>2, <2>1 DEF MintToAccount, TrailIsFaithful, Ledger, Replay, Supply, contractVars
<1>3. CASE ClawBack(signer, a, n)
  <2>1. balance' = [b \in Addresses |-> IF b \in {a} THEN balance[b] + (-n) ELSE balance[b]]
    <3>1. n \in Int /\ balance[a] \in Int
      BY DEF TypeOK
    <3>2. balance[a] + (-n) = balance[a] - n
      BY <3>1
    <3> QED
      BY <1>3, <3>2 DEF ClawBack, TypeOK
  <2> QED
    BY <1>1, <1>3, <2>1 DEF ClawBack, TrailIsFaithful, Ledger, Replay, Supply, contractVars
<1> QED
  BY <1>2, <1>3

LEMMA TrailControlStep ==
  ASSUME TypeOK, TrailIsFaithful, NEW signer,
         \/ Pause(signer) \/ Unpause(signer) \/ Upgrade(signer)
         \/ \E new \in Principals : SetAdmin(signer, new)
         \/ \E new \in Policy : SetPolicy(signer, new)
  PROVE  TrailIsFaithful'
<1>1. UNCHANGED <<line, balance>> /\ Authorized' = Authorized
  BY DEF Pause, Unpause, Upgrade, SetAdmin, SetPolicy, assetVars, Authorized
<1>2. CASE Pause(signer)
  BY <1>1, <1>2 DEF Pause, TrailIsFaithful, Ledger, Replay, Event
<1>3. CASE Unpause(signer)
  BY <1>1, <1>3 DEF Unpause, TrailIsFaithful, Ledger, Replay, Event
<1>4. CASE Upgrade(signer)
  BY <1>1, <1>4 DEF Upgrade, TrailIsFaithful, Ledger, Replay, Event, contractVars
<1>5. ASSUME NEW new \in Principals, SetAdmin(signer, new) PROVE TrailIsFaithful'
  BY <1>1, <1>5 DEF SetAdmin, TrailIsFaithful, Ledger, Replay
<1>6. ASSUME NEW new \in Policy, SetPolicy(signer, new) PROVE TrailIsFaithful'
  BY <1>1, <1>6 DEF SetPolicy, TrailIsFaithful, Ledger, Replay
<1> QED
  BY <1>2, <1>3, <1>4, <1>5, <1>6

LEMMA TrailAssetStep ==
  ASSUME TypeOK, TrailIsFaithful, AssetNext
  PROVE  TrailIsFaithful'
<1>1. ASSUME NEW a \in Addresses, OpenLine(a) PROVE TrailIsFaithful'
  <2>1. Authorized' = IF AuthRequired THEN Authorized ELSE Authorized \cup {a}
    BY <1>1 DEF OpenLine, FreshLine, Authorized, TypeOK
  <2> QED
    BY <1>1, <2>1 DEF OpenLine, TrailIsFaithful, Ledger, contractVars
<1>2. ASSUME NEW a \in Addresses, CloseLine(a) PROVE TrailIsFaithful'
  <2>1. Authorized' = Authorized \ {a}
    BY <1>2 DEF CloseLine, Authorized, TypeOK
  <2> QED
    BY <1>2, <2>1 DEF CloseLine, TrailIsFaithful, Ledger, contractVars
<1>3. ASSUME NEW a \in Addresses, NEW on \in BOOLEAN, PredecessorSets(a, on)
      PROVE  TrailIsFaithful'
  <2>1. Authorized' = IF on THEN Authorized \cup {a} ELSE Authorized \ {a}
    BY <1>3, AuthorizedAfter DEF PredecessorSets
  <2> QED
    BY <1>3, <2>1 DEF PredecessorSets, TrailIsFaithful, Ledger, contractVars
<1>4. ASSUME NEW a \in Addresses, NEW b \in Addresses, NEW n \in Amounts, Transfer(a, b, n)
      PROVE  TrailIsFaithful'
  <2>1. Authorized' = Authorized
    BY <1>4 DEF Transfer, Authorized
  <2> QED
    BY <1>4, <2>1 DEF Transfer, TrailIsFaithful, Ledger, contractVars
<1>5. ASSUME NEW new \in Predecessors \cup {Self}, HandOver(new) PROVE TrailIsFaithful'
  <2>1. Authorized' = Authorized
    BY <1>5 DEF HandOver, Authorized
  <2> QED
    BY <1>5, <2>1 DEF HandOver, TrailIsFaithful, Ledger, contractVars
<1> QED
  BY <1>1, <1>2, <1>3, <1>4, <1>5 DEF AssetNext

LEMMA TrailStep == TypeOK /\ TrailIsFaithful /\ [Next]_vars => TrailIsFaithful'
<1> SUFFICES ASSUME TypeOK, TrailIsFaithful, [Next]_vars PROVE TrailIsFaithful'
  OBVIOUS
<1>1. ASSUME NEW a \in Addresses, AuthorizeTrustline(a) PROVE TrailIsFaithful'
  <2>1. Authorized' = Authorized \cup {a}
    BY <1>1, AuthorizedAfter DEF AuthorizeTrustline
  <2> QED
    BY <1>1, <2>1 DEF AuthorizeTrustline, TrailIsFaithful, Ledger, Replay, Event, contractVars
<1>2. ASSUME NEW signer \in Principals, AdminNext(signer) PROVE TrailIsFaithful'
  <2>1. ASSUME NEW a \in Addresses, DeauthorizeTrustline(signer, a) PROVE TrailIsFaithful'
    <3>1. line' = SetLines({a}, FALSE) /\ {a} \in SUBSET Addresses
      BY <2>1 DEF DeauthorizeTrustline
    <3>2. Authorized' = Authorized \ {a}
      BY <3>1 DEF Authorized, SetLines, TypeOK
    <3> QED
      BY <2>1, <3>2 DEF DeauthorizeTrustline, TrailIsFaithful, Ledger, Replay, Event, contractVars
  <2> QED
    BY <1>2, <2>1, TrailListStep, TrailLifecycleStep, TrailSupplyStep, TrailControlStep DEF AdminNext
<1>3. CASE AssetNext
  BY <1>3, TrailAssetStep
<1>4. CASE UNCHANGED vars
  BY <1>4 DEF vars, contractVars, assetVars, TrailIsFaithful, Ledger, Authorized
<1> QED
  BY <1>1, <1>2, <1>3, <1>4 DEF Next

\* Whoever follows the events and the asset's own operations from the
\* deployment on knows lists, policy, pause, admin, balances and who is
\* authorized, exactly, for ever.
THEOREM TrailReconstructs == Spec => []TrailIsFaithful
<1>1. Init => TrailIsFaithful
  BY DEF Init, TrailIsFaithful
<1> QED
  BY <1>1, TrailStep, TypeCorrect, PTL DEF Spec

-------------------------------------------------------------------------------
(***************************************************************************)
(* The authorizer implements the abstract specification Admission: every   *)
(* initial state maps to an initial state, and every step to a step of     *)
(* Admission or to a stutter.                                              *)
(***************************************************************************)

\* The state components Admission sees, whatever the step.
LEMMA MappedShape ==
  /\ Governed \in BOOLEAN
  /\ EligibleOthers \in SUBSET Others
  /\ AuthorizedOthers \in SUBSET Others
BY DEF Governed, EligibleOthers, AuthorizedOthers, Others, IsEligible, Authorized

LEMMA MappedShapeNext ==
  /\ Governed' \in BOOLEAN
  /\ EligibleOthers' \in SUBSET Others
  /\ AuthorizedOthers' \in SUBSET Others
BY DEF Governed, EligibleOthers, AuthorizedOthers, Others, IsEligible, Authorized

\* Before the handover Admission allows anything.
LEMMA UngovernedStep == ~Governed => Adm!AdmissionNext
BY MappedShapeNext DEF Adm!AdmissionNext, Adm!Found

\* Eligibility, in terms of storage.
LEMMA EligibleSpelledOut ==
  ASSUME TypeOK
  PROVE  EligibleOthers = {a \in Others : /\ ~paused
                                          /\ policy = "Denylist" => a \notin banned
                                          /\ policy = "Allowlist" => a \in allowed}
BY PolicyRefuses DEF EligibleOthers, IsEligible, Others

LEMMA EligibleSpelledOutNext ==
  ASSUME TypeOK'
  PROVE  EligibleOthers' = {a \in Others : /\ ~paused'
                                           /\ policy' = "Denylist" => a \notin banned'
                                           /\ policy' = "Allowlist" => a \in allowed'}
BY PolicyRefusesNext DEF EligibleOthers, IsEligible, Others

LEMMA EligibleUnchanged ==
  ASSUME UNCHANGED contractVars
  PROVE  EligibleOthers' = EligibleOthers
BY DEF EligibleOthers, IsEligible, CheckPolicy, contractVars

LEMMA AuthorizedOthersUnchanged ==
  ASSUME UNCHANGED line
  PROVE  AuthorizedOthers' = AuthorizedOthers
BY DEF AuthorizedOthers, Authorized

LEMMA AuthorizedOthersAfter ==
  ASSUME TypeOK, NEW S \in SUBSET Addresses, NEW on \in BOOLEAN, line' = SetLines(S, on)
  PROVE  AuthorizedOthers' = IF on THEN AuthorizedOthers \cup (S \ {Self})
                             ELSE AuthorizedOthers \ S
BY AuthorizedAfter DEF AuthorizedOthers

LEMMA AdmitStep ==
  ASSUME TypeOK, Governed, NEW a \in Addresses, AuthorizeTrustline(a)
  PROVE  Adm!AdmissionNext
<1>1. a \in EligibleOthers /\ a \in Others
  BY DEF AuthorizeTrustline, AuthorizeOutcome, OutcomeOn, EligibleOthers, IsEligible, Others
<1>2. AuthorizedOthers' = AuthorizedOthers \cup {a}
  <2>1. line' = SetLines({a}, TRUE) /\ {a} \in SUBSET Addresses
    BY DEF AuthorizeTrustline
  <2> QED
    BY <1>1, <2>1 DEF AuthorizedOthers, Authorized, SetLines, TypeOK, Others
<1>3. EligibleOthers' = EligibleOthers /\ Governed' = Governed
  BY EligibleUnchanged DEF AuthorizeTrustline, Governed
<1> QED
  BY <1>1, <1>2, <1>3 DEF Adm!AdmissionNext, Adm!Admit

LEMMA RelistStep ==
  ASSUME TypeOK, TypeOK', Governed, NEW signer, NEW batch \in SUBSET Addresses,
         \/ AddBannedAccounts(signer, batch) \/ RemoveBannedAccounts(signer, batch)
         \/ Allow(signer, batch) \/ Disallow(signer, batch)
  PROVE  Adm!AdmissionNext
<1> DEFINE S == batch \cap Others
<1>1. /\ UNCHANGED <<policy, paused, sacAdmin, line>>
      /\ banned' \ batch = banned \ batch /\ allowed' \ batch = allowed \ batch
  BY DEF AddBannedAccounts, RemoveBannedAccounts, Allow, Disallow, assetVars
<1>2. EligibleOthers' \ S = EligibleOthers \ S
  BY <1>1, EligibleSpelledOut, EligibleSpelledOutNext
<1>3. AuthorizedOthers' = AuthorizedOthers /\ Governed' = Governed
  BY <1>1, AuthorizedOthersUnchanged DEF Governed
<1>4. S \in SUBSET Others
  OBVIOUS
<1>5. Adm!Relist(S)
  BY <1>2, <1>3, MappedShapeNext DEF Adm!Relist
<1> QED
  BY <1>4, <1>5 DEF Adm!AdmissionNext

LEMMA FreezeStep ==
  ASSUME TypeOK, TypeOK', Governed, NEW signer, NEW batch \in SUBSET Addresses,
         FreezeAccounts(signer, batch)
  PROVE  Adm!AdmissionNext
<1> DEFINE S == batch \cap Others
           flipped == {a \in batch : CanSetAuthorized(a, FALSE)}
<1>1. EligibleOthers' = EligibleOthers \ S
  BY EligibleSpelledOut, EligibleSpelledOutNext
     DEF FreezeAccounts, DropFromPolicy, RequireAdmin, TypeOK, Policy
<1>2. AuthorizedOthers' = AuthorizedOthers \ flipped
  BY AuthorizedOthersAfter DEF FreezeAccounts
<1>3. flipped = IF Revocable THEN {a \in batch : line[a] # "none"} ELSE {}
  BY DEF CanSetAuthorized, CanSetOn, Governed
<1>4. AuthorizedOthers' = IF Revocable THEN AuthorizedOthers \ S ELSE AuthorizedOthers
  BY <1>2, <1>3 DEF AuthorizedOthers, Authorized, Others
<1>5. Governed' = Governed
  BY DEF FreezeAccounts, Governed
<1>6. Adm!Freeze(S) /\ S \in SUBSET Others
  BY <1>1, <1>4, <1>5 DEF Adm!Freeze
<1> QED
  BY <1>6 DEF Adm!AdmissionNext

LEMMA UnfreezeStep ==
  ASSUME TypeOK, TypeOK', Governed, NEW signer, NEW batch \in SUBSET Addresses,
         UnfreezeAccounts(signer, batch)
  PROVE  Adm!AdmissionNext
<1> DEFINE S == batch \cap Others
           flipped == {a \in batch : CanSetAuthorized(a, TRUE)}
<1>1. EligibleOthers' = EligibleOthers \cup S
  BY EligibleSpelledOut, EligibleSpelledOutNext
     DEF UnfreezeAccounts, AdmitToPolicy, RequireAdmin, TypeOK, Policy
<1>2. AuthorizedOthers' = AuthorizedOthers \cup (flipped \ {Self})
  BY AuthorizedOthersAfter DEF UnfreezeAccounts
<1>3. flipped \ {Self} \in SUBSET S
  BY DEF Others
<1>4. Governed' = Governed
  BY DEF UnfreezeAccounts, Governed
<1>5. Adm!Unfreeze(S) /\ S \in SUBSET Others
  BY <1>1, <1>2, <1>3, <1>4 DEF Adm!Unfreeze
<1> QED
  BY <1>5 DEF Adm!AdmissionNext

LEMMA RevokeStep ==
  ASSUME TypeOK, Governed, NEW signer, NEW a \in Addresses, DeauthorizeTrustline(signer, a)
  PROVE  [Adm!AdmissionNext]_(Adm!admission)
<1>1. AuthorizedOthers' = AuthorizedOthers \ {a}
  <2>1. line' = SetLines({a}, FALSE) /\ {a} \in SUBSET Addresses
    BY DEF DeauthorizeTrustline
  <2> QED
    BY <2>1 DEF AuthorizedOthers, Authorized, SetLines, TypeOK
<1>2. EligibleOthers' = EligibleOthers /\ Governed' = Governed
  BY EligibleUnchanged DEF DeauthorizeTrustline, Governed
<1>3. CASE a = Self
  <2>1. AuthorizedOthers' = AuthorizedOthers
    BY <1>1, <1>3 DEF AuthorizedOthers
  <2> QED
    BY <1>2, <2>1 DEF Adm!admission
<1>4. CASE a # Self
  <2>1. a \in Others
    BY <1>4 DEF Others
  <2> QED
    BY <1>1, <1>2, <2>1 DEF Adm!AdmissionNext, Adm!Revoke
<1> QED
  BY <1>3, <1>4

LEMMA RuleStep ==
  ASSUME Governed, NEW signer,
         \/ Pause(signer) \/ Unpause(signer) \/ Upgrade(signer)
         \/ \E new \in Principals : SetAdmin(signer, new)
         \/ \E new \in Policy : SetPolicy(signer, new)
  PROVE  Adm!AdmissionNext
<1>1. UNCHANGED <<sacAdmin, line>>
  BY DEF Pause, Unpause, Upgrade, SetAdmin, SetPolicy, assetVars
<1>2. Governed' = Governed /\ AuthorizedOthers' = AuthorizedOthers
  BY <1>1, AuthorizedOthersUnchanged DEF Governed
<1> QED
  BY <1>2, MappedShapeNext DEF Adm!AdmissionNext, Adm!Rule

LEMMA AssetStep ==
  ASSUME TypeOK, Governed, AssetNext
  PROVE  [Adm!AdmissionNext]_(Adm!admission)
<1>1. ASSUME NEW a \in Addresses, OpenLine(a)
      PROVE  [Adm!AdmissionNext]_(Adm!admission)
  <2>1. AuthorizedOthers' = IF AuthRequired THEN AuthorizedOthers ELSE AuthorizedOthers \cup {a}
    BY <1>1 DEF OpenLine, FreshLine, AuthorizedOthers, Authorized, TypeOK
  <2>2. EligibleOthers' = EligibleOthers /\ Governed' = Governed
    BY <1>1, EligibleUnchanged DEF OpenLine, Governed
  <2>3. a \in Others
    BY <1>1 DEF OpenLine, Others
  <2> QED
    BY <2>1, <2>2, <2>3 DEF Adm!AdmissionNext, Adm!Join, Adm!admission
<1>2. ASSUME NEW a \in Addresses, CloseLine(a)
      PROVE  [Adm!AdmissionNext]_(Adm!admission)
  <2>1. AuthorizedOthers' = AuthorizedOthers \ {a}
    BY <1>2 DEF CloseLine, AuthorizedOthers, Authorized, TypeOK
  <2>2. EligibleOthers' = EligibleOthers /\ Governed' = Governed
    BY <1>2, EligibleUnchanged DEF CloseLine, Governed
  <2>3. a \in Others
    BY <1>2 DEF CloseLine, Others
  <2> QED
    BY <2>1, <2>2, <2>3 DEF Adm!AdmissionNext, Adm!Revoke
<1>3. ASSUME NEW a \in Addresses, NEW b \in Addresses, NEW n \in Amounts, Transfer(a, b, n)
      PROVE  UNCHANGED Adm!admission
  BY <1>3, EligibleUnchanged, AuthorizedOthersUnchanged DEF Transfer, Governed, Adm!admission
<1>4. ASSUME NEW a \in Addresses, NEW on \in BOOLEAN PROVE ~PredecessorSets(a, on)
  BY DEF PredecessorSets, Governed
<1>5. ASSUME NEW new PROVE ~HandOver(new)
  BY DEF HandOver, Governed
<1> QED
  BY <1>1, <1>2, <1>3, <1>4, <1>5 DEF AssetNext

LEMMA AdmissionStep ==
  TypeOK /\ TypeOK' /\ [Next]_vars => [Adm!AdmissionNext]_(Adm!admission)
<1> SUFFICES ASSUME TypeOK, TypeOK', [Next]_vars
             PROVE  [Adm!AdmissionNext]_(Adm!admission)
  OBVIOUS
<1>1. CASE ~Governed
  BY <1>1, UngovernedStep
<1>2. CASE Governed /\ \E a \in Addresses : AuthorizeTrustline(a)
  BY <1>2, AdmitStep
<1>3. ASSUME Governed, NEW signer \in Principals, AdminNext(signer)
      PROVE  [Adm!AdmissionNext]_(Adm!admission)
  <2>1. ASSUME NEW a \in Addresses, NEW n \in Amounts,
               MintToAccount(signer, a, n) \/ ClawBack(signer, a, n)
        PROVE  UNCHANGED Adm!admission
    BY <2>1, EligibleUnchanged, AuthorizedOthersUnchanged
       DEF MintToAccount, ClawBack, Governed, Adm!admission
  <2> QED
    BY <1>3, <2>1, RelistStep, FreezeStep, UnfreezeStep, RevokeStep, RuleStep DEF AdminNext
<1>4. CASE Governed /\ AssetNext
  BY <1>4, AssetStep
<1>5. CASE UNCHANGED vars
  <2>1. UNCHANGED <<contractVars, sacAdmin, line>>
    BY <1>5 DEF vars, assetVars
  <2> QED
    BY <2>1, EligibleUnchanged, AuthorizedOthersUnchanged DEF Governed, Adm!admission
<1> QED
  BY <1>1, <1>2, <1>3, <1>4, <1>5 DEF Next

\* The authorizer over its asset keeps the admission promise: once it governs,
\* a holder becomes authorized only while eligible or by being named in an
\* unfreeze, and a freeze removes eligibility and authorization in one step.
THEOREM Refinement == Spec => ImplementsAdmission
<1>1. Init => Adm!AdmissionInit
  BY MappedShape DEF Adm!AdmissionInit
<1> QED
  BY <1>1, AdmissionStep, TypeCorrect, PTL DEF Spec, ImplementsAdmission, Adm!AdmissionSpec
===============================================================================
