--------------------------- MODULE Onboarding_proofs ---------------------------
(***************************************************************************)
(* Proofs about Onboarding: what onboard answers is true of the line it    *)
(* leaves, a refusal leaves nothing, a ban is never downgraded, a freeze   *)
(* survives every call of the router, and router and authorizer together   *)
(* implement Admission: for any holders and any predecessors.              *)
(***************************************************************************)
EXTENDS Onboarding, Authorizer_proofs

\* The answers, by what decides them.
LEMMA TrustedHasLine ==
  ASSUME TypeOK, NEW h \in Holders
  PROVE  Trusted(h) \in {"unauth", "auth"} /\ (line[h] # "none" => Trusted(h) = line[h])
BY DEF Trusted, FreshLine, TypeOK, Holders

LEMMA VerdictOfReply ==
  ASSUME NEW h
  PROVE  /\ AuthorizerReply(h) \in {"ok", "typed error", "untyped error"}
         /\ AuthorizerReply(h) = "ok" =>
              AuthorizerVerdict(h) = IF AfterAuthorizer(h) = "auth" THEN "Authorized" ELSE "NotAuthorized"
         /\ AuthorizerReply(h) = "typed error" => AuthorizerVerdict(h) = "AuthorizationRefused"
         /\ AuthorizerReply(h) = "untyped error" => AuthorizerVerdict(h) = "TrustlineOnly"
<1>1. AuthorizerReply(h) \in {"ok", "typed error", "untyped error"}
  BY DEF AuthorizerReply, TypedOrNot
<1> QED
  BY <1>1 DEF AuthorizerVerdict

\* The line a committing call leaves behind.
LEMMA StatusOfLine ==
  ASSUME TypeOK, NEW h \in Holders, NEW isSac \in BOOLEAN, NEW funded \in BOOLEAN,
         OnboardAnswer(h, isSac, funded) \in OnboardStatus
  PROVE  AfterAuthorizer(h) = IF OnboardAnswer(h, isSac, funded) = "Authorized" THEN "auth" ELSE "unauth"
<1> DEFINE a == OnboardAnswer(h, isSac, funded)
<1>1. Trusted(h) \in {"unauth", "auth"}
  BY TrustedHasLine
<1>2. AfterAuthorizer(h) \in {Trusted(h), "auth"} /\ (AuthorizerReply(h) # "ok" => AfterAuthorizer(h) = Trusted(h))
  BY DEF AfterAuthorizer
<1>3. \/ a = "Authorized" /\ Trusted(h) = "auth"
      \/ Trusted(h) # "auth" /\ a = "TrustlineOnly" /\ sacAdmin # Self /\ Kind[sacAdmin] = "account"
      \/ Trusted(h) # "auth" /\ a = AuthorizerVerdict(h)
  BY DEF OnboardAnswer, OnboardStatus
<1>4. CASE Trusted(h) = "auth"
  BY <1>2, <1>3, <1>4
<1>5. CASE Trusted(h) # "auth" /\ a = "TrustlineOnly" /\ sacAdmin # Self /\ Kind[sacAdmin] = "account"
  <2>1. AuthorizerReply(h) = "untyped error"
    BY <1>5 DEF AuthorizerReply
  <2> QED
    BY <1>1, <1>2, <1>5, <2>1
<1>6. CASE Trusted(h) # "auth" /\ a = AuthorizerVerdict(h)
  BY <1>1, <1>2, <1>6, VerdictOfReply DEF OnboardStatus
<1> QED
  BY <1>3, <1>4, <1>5, <1>6

-------------------------------------------------------------------------------
(***************************************************************************)
(* Types.                                                                  *)
(***************************************************************************)

LEMMA OnboardAnswers ==
  ASSUME NEW h, NEW isSac, NEW funded
  PROVE  OnboardAnswer(h, isSac, funded) \in OnboardStatus \cup OnboardError
<1>1. AuthorizerVerdict(h) \in OnboardStatus \cup OnboardError
  BY VerdictOfReply DEF OnboardStatus, OnboardError
<1> QED
  BY <1>1 DEF OnboardAnswer, OnboardStatus, OnboardError

LEMMA OnboardType ==
  ASSUME OnboardingTypeOK, NEW h \in Holders, NEW isSac \in BOOLEAN, NEW funded \in BOOLEAN,
         Onboard(h, isSac, funded)
  PROVE  OnboardingTypeOK'
<1> DEFINE a == OnboardAnswer(h, isSac, funded)
<1>1. TypeOK /\ answer \in [Holders -> OnboardStatus \cup OnboardError \cup {"none"}]
  BY DEF OnboardingTypeOK
<1>2. answer' = [answer EXCEPT ![h] = a] /\ line' = [line EXCEPT ![h] = LineAfter(h, a)]
      /\ UNCHANGED <<contractVars, sacAdmin, balance, freeze>>
  BY DEF Onboard
<1>3. answer' \in [Holders -> OnboardStatus \cup OnboardError \cup {"none"}]
  BY <1>1, <1>2, OnboardAnswers
<1>4. LineAfter(h, a) = line[h] \/ LineAfter(h, a) \in {"auth", "unauth"}
  BY <1>1, StatusOfLine DEF LineAfter
<1>5. /\ line' \in [Addresses -> {"none", "unauth", "auth"}]
      /\ \A c \in Contracts : line'[c] # "none"
  BY <1>1, <1>2, <1>4 DEF TypeOK, Holders, Addresses
<1>6. TypeOK'
  BY <1>1, <1>2, <1>5 DEF TypeOK, contractVars
<1> QED
  BY <1>3, <1>6 DEF OnboardingTypeOK

LEMMA OnboardingTypeStep == OnboardingTypeOK /\ [OnboardingNext]_onboardingVars => OnboardingTypeOK'
<1> SUFFICES ASSUME OnboardingTypeOK, [OnboardingNext]_onboardingVars PROVE OnboardingTypeOK'
  OBVIOUS
<1>1. CASE OnboardNext
  BY <1>1, OnboardType DEF OnboardNext
<1>2. CASE [Next]_vars /\ UNCHANGED answer
  BY <1>2, TypeStep DEF OnboardingTypeOK
<1> QED
  BY <1>1, <1>2 DEF OnboardingNext, onboardingVars

\* The state keeps its shape, with whatever predecessors.
THEOREM OnboardingTypeCorrect == OnboardingSpec => []OnboardingTypeOK
<1>1. OnboardingInit => OnboardingTypeOK
  BY TypeInit DEF OnboardingInit, OnboardingTypeOK
<1> QED
  BY <1>1, OnboardingTypeStep, PTL DEF OnboardingSpec

-------------------------------------------------------------------------------
(***************************************************************************)
(* What the answer means.                                                  *)
(***************************************************************************)

LEMMA AnswerOf ==
  ASSUME OnboardingTypeOK, NEW h \in Holders, NEW isSac \in BOOLEAN, NEW funded \in BOOLEAN,
         Onboard(h, isSac, funded)
  PROVE  /\ answer'[h] = OnboardAnswer(h, isSac, funded)
         /\ line'[h] = LineAfter(h, answer'[h])
         /\ line' = [line EXCEPT ![h] = LineAfter(h, answer'[h])]
BY DEF Onboard, OnboardingTypeOK, TypeOK, Holders

\* "Keep the trustline and report it truthfully": the status is true of the line
\* when the transaction lands, on every kind of admin.
THEOREM StatusesAreTruthful == OnboardingSpec => StatusIsTruthful
<1>1. ASSUME OnboardingTypeOK, NEW h \in Holders, NEW isSac \in BOOLEAN, NEW funded \in BOOLEAN,
             Onboard(h, isSac, funded), answer'[h] \in OnboardStatus
      PROVE  line'[h] = IF answer'[h] = "Authorized" THEN "auth" ELSE "unauth"
  BY <1>1, AnswerOf, StatusOfLine DEF LineAfter, OnboardingTypeOK
<1>2. OnboardingTypeOK =>
        \A h \in Holders, isSac, funded \in BOOLEAN :
          Onboard(h, isSac, funded) =>
            /\ answer'[h] = "Authorized" => line'[h] = "auth"
            /\ answer'[h] = "TrustlineOnly" => line'[h] = "unauth"
  BY <1>1 DEF OnboardStatus
<1> QED
  BY <1>2, OnboardingTypeCorrect, PTL DEF StatusIsTruthful

\* The auditor's record follows what the router does to a line.
LEMMA OnboardKeepsTrail ==
  ASSUME OnboardingTypeOK, TrailIsFaithful, NEW h \in Holders, NEW isSac \in BOOLEAN,
         NEW funded \in BOOLEAN, Onboard(h, isSac, funded)
  PROVE  TrailIsFaithful'
<1> DEFINE a == OnboardAnswer(h, isSac, funded)
<1>1. /\ line' = [line EXCEPT ![h] = LineAfter(h, a)] /\ answer'[h] = a
      /\ UNCHANGED <<contractVars, sacAdmin, balance, freeze>>
  BY AnswerOf DEF Onboard
<1>2. line \in [Addresses -> {"none", "unauth", "auth"}] /\ h \in Addresses /\ TypeOK
  BY DEF OnboardingTypeOK, TypeOK, Holders
<1>3. line[h] = "auth" => line'[h] = "auth"
  <2>1. line[h] = "auth" => AfterAuthorizer(h) = "auth"
    BY <1>2, TrustedHasLine DEF AfterAuthorizer
  <2> QED
    BY <1>1, <1>2, <2>1 DEF LineAfter
<1>4. Authorized' = IF line'[h] = "auth" THEN Authorized \cup {h} ELSE Authorized
  BY <1>1, <1>2, <1>3 DEF Authorized
<1>5. a = "Authorized" => line'[h] = "auth"
  BY <1>1, <1>2, StatusOfLine DEF LineAfter, OnboardStatus
<1>6. \/ a = "Authorized" /\ trail' = Replay(trail, Event("Authorized", {h}))
      \/ trail' = [trail EXCEPT !.authorized = IF line'[h] = "auth" THEN @ \cup {h} ELSE @]
  BY DEF Onboard
<1>7. UNCHANGED <<admin, policy, paused, banned, allowed, balance>>
  BY <1>1 DEF contractVars
<1>8. CASE a = "Authorized" /\ trail' = Replay(trail, Event("Authorized", {h}))
  BY <1>4, <1>5, <1>7, <1>8 DEF TrailIsFaithful, Ledger, Replay, Event
<1>9. CASE trail' = [trail EXCEPT !.authorized = IF line'[h] = "auth" THEN @ \cup {h} ELSE @]
  BY <1>4, <1>7, <1>9 DEF TrailIsFaithful, Ledger
<1> QED
  BY <1>6, <1>8, <1>9

\* "The full authorization history is reconstructable from the ledger alone",
\* with lines opened and authorized through the router too.
THEOREM TrailReconstructsOnboarding == OnboardingSpec => []TrailIsFaithful
<1>1. OnboardingInit => TrailIsFaithful
  BY DEF OnboardingInit, Init, TrailIsFaithful
<1>2. OnboardingTypeOK /\ TrailIsFaithful /\ [OnboardingNext]_onboardingVars => TrailIsFaithful'
  <2> SUFFICES ASSUME OnboardingTypeOK, TrailIsFaithful, [OnboardingNext]_onboardingVars
               PROVE  TrailIsFaithful'
    OBVIOUS
  <2>1. CASE OnboardNext
    BY <2>1, OnboardKeepsTrail DEF OnboardNext
  <2>2. CASE [Next]_vars
    BY <2>2, TrailStep DEF OnboardingTypeOK
  <2> QED
    BY <2>1, <2>2 DEF OnboardingNext, onboardingVars
<1> QED
  BY <1>1, <1>2, OnboardingTypeCorrect, PTL DEF OnboardingSpec

\* "Panicking here would silently downgrade a ban into an unauthorized
\* trustline": on an asset the authorizer governs, a holder is authorized or
\* refused.
THEOREM BansAreNotDowngraded == OnboardingSpec => BanIsNeverDowngraded
<1>1. ASSUME OnboardingTypeOK, NEW h \in Holders, NEW isSac \in BOOLEAN, NEW funded \in BOOLEAN,
             Onboard(h, isSac, funded), sacAdmin = Self
      PROVE  answer'[h] # "TrustlineOnly"
  <2>1. AuthorizerReply(h) \in {"ok", "typed error"}
    BY <1>1 DEF AuthorizerReply, TypedOrNot
  <2>2. AuthorizerVerdict(h) # "TrustlineOnly"
    BY <2>1, VerdictOfReply
  <2> QED
    BY <1>1, <2>2, AnswerOf DEF OnboardAnswer
<1>2. OnboardingTypeOK =>
        \A h \in Holders, isSac, funded \in BOOLEAN :
          Onboard(h, isSac, funded) /\ sacAdmin = Self => answer'[h] # "TrustlineOnly"
  BY <1>1
<1> QED
  BY <1>2, OnboardingTypeCorrect, PTL DEF BanIsNeverDowngraded

-------------------------------------------------------------------------------
(***************************************************************************)
(* The pause.                                                              *)
(***************************************************************************)

\* The router is no way around the pause: while it lasts, no call changes a
\* list, the policy, an existing line's authorization or a balance.
LEMMA OnboardWhilePaused ==
  ASSUME OnboardingTypeOK, paused, NEW h \in Holders, NEW isSac \in BOOLEAN,
         NEW funded \in BOOLEAN, Onboard(h, isSac, funded)
  PROVE  UNCHANGED <<policy, banned, allowed>> /\ (sacAdmin = Self => LinesStand /\ SupplyStands)
<1>1. UNCHANGED <<policy, banned, allowed>>
  BY DEF Onboard, contractVars
<1>2. ASSUME sacAdmin = Self, NEW a \in Addresses, line'[a] # line[a]
      PROVE  line[a] = "none"
  <2>1. AuthorizerReply(h) = "typed error"
    BY <1>2 DEF AuthorizerReply, TypedOrNot, OutcomeOn
  <2>2. AfterAuthorizer(h) = Trusted(h)
    BY <2>1 DEF AfterAuthorizer
  <2>3. a = h /\ line'[h] \in {line[h], Trusted(h)}
    BY <1>2, <2>2, AnswerOf DEF LineAfter, OnboardingTypeOK, TypeOK
  <2> QED
    BY <1>2, <2>3, TrustedHasLine DEF OnboardingTypeOK
<1>3. SupplyStands
  BY DEF Onboard, SupplyStands
<1> QED
  BY <1>1, <1>2, <1>3 DEF LinesStand

\* Nothing that goes through the router or past it gets around the pause.
THEOREM PauseIsTotalOnboarding == OnboardingSpec => PauseStopsEverything
<1> DEFINE Still == /\ UNCHANGED <<policy, banned, allowed>>
                    /\ sacAdmin = Self => LinesStand /\ SupplyStands
<1>1. OnboardingTypeOK /\ [OnboardingNext]_onboardingVars => [paused => Still]_vars
  <2> SUFFICES ASSUME OnboardingTypeOK, [OnboardingNext]_onboardingVars, paused
               PROVE  Still \/ UNCHANGED vars
    OBVIOUS
  <2>1. CASE OnboardNext
    BY <2>1, OnboardWhilePaused DEF OnboardNext
  <2>2. CASE [Next]_vars
    BY <2>2, PausedStep DEF OnboardingTypeOK
  <2> QED
    BY <2>1, <2>2 DEF OnboardingNext, onboardingVars
<1> QED
  BY <1>1, OnboardingTypeCorrect, PTL DEF OnboardingSpec, PauseStopsEverything

-------------------------------------------------------------------------------
(***************************************************************************)
(* Freezes.                                                                *)
(***************************************************************************)

LEMMA OnboardKeepsFreezes ==
  ASSUME OnboardingTypeOK, FrozenInv, NEW h \in Holders, NEW isSac \in BOOLEAN,
         NEW funded \in BOOLEAN, Onboard(h, isSac, funded)
  PROVE  FrozenInv'
<1> DEFINE a == OnboardAnswer(h, isSac, funded)
<1>1. /\ line' = [line EXCEPT ![h] = LineAfter(h, a)]
      /\ UNCHANGED <<contractVars, sacAdmin, freeze>>
  BY DEF Onboard
<1>2. line \in [Addresses -> {"none", "unauth", "auth"}] /\ TypeOK
  BY DEF OnboardingTypeOK, TypeOK
<1>3. freeze[h] = "held" => AfterAuthorizer(h) # "auth"
  <2> SUFFICES ASSUME freeze[h] = "held" PROVE AfterAuthorizer(h) # "auth"
    OBVIOUS
  <2>1. FreezeBinds /\ line[h] # "auth" /\ CheckPolicy(h) # "Ok" /\ h \in Addresses
    BY DEF FrozenInv, FrozenStaysOut, Holders
  <2>2. Trusted(h) = "unauth"
    BY <1>2, <2>1, TrustedHasLine DEF Trusted, FreshLine, FreezeBinds
  <2>3. OutcomeOn(h, Trusted(h)) # "Ok"
    BY <2>1 DEF OutcomeOn
  <2>4. AuthorizerReply(h) # "ok"
    BY <2>1, <2>3 DEF AuthorizerReply, TypedOrNot, FreezeBinds
  <2> QED
    BY <2>2, <2>4 DEF AfterAuthorizer
<1>4. \A g \in Addresses : freeze[g] = "held" => line'[g] # "auth"
  BY <1>1, <1>2, <1>3 DEF LineAfter, FrozenInv, FrozenStaysOut
<1>5. \A g \in Addresses : (CheckPolicy(g) # "Ok")' <=> CheckPolicy(g) # "Ok"
  BY <1>1 DEF CheckPolicy, contractVars
<1> QED
  BY <1>1, <1>4, <1>5 DEF FrozenInv, FrozenStaysOut, FreezeBinds

\* "The account cannot re-authorize itself by replaying onboard()".
THEOREM FrozenIsOutOnboarding == OnboardingSpec => []FrozenStaysOut
<1>1. OnboardingInit => FrozenInv
  BY DEF OnboardingInit, Init, FrozenInv, FrozenStaysOut
<1>2. OnboardingTypeOK /\ OnboardingTypeOK' /\ FrozenInv /\ [OnboardingNext]_onboardingVars => FrozenInv'
  <2> SUFFICES ASSUME OnboardingTypeOK, OnboardingTypeOK', FrozenInv, [OnboardingNext]_onboardingVars
               PROVE  FrozenInv'
    OBVIOUS
  <2>1. CASE OnboardNext
    BY <2>1, OnboardKeepsFreezes DEF OnboardNext
  <2>2. CASE [Next]_vars
    BY <2>2, FrozenStep DEF OnboardingTypeOK
  <2> QED
    BY <2>1, <2>2 DEF OnboardingNext, onboardingVars
<1>3. FrozenInv => FrozenStaysOut
  BY DEF FrozenInv
<1> QED
  BY <1>1, <1>2, <1>3, OnboardingTypeCorrect, PTL DEF OnboardingSpec

\* "A frozen-but-not-banned state MUST NOT be representable", with the router
\* in play, under every issuer that keeps the policy it was deployed with.
THEOREM FrozenIsBannedOnboarding ==
  OnboardingSpec /\ [][policy' = policy]_onboardingVars => []NoFrozenButNotBanned
<1> DEFINE Unswitched == \A a \in Addresses : freeze[a] # "switched"
<1>1. OnboardingInit => Unswitched
  BY DEF OnboardingInit, Init
<1>2. OnboardingTypeOK /\ Unswitched /\ [OnboardingNext]_onboardingVars
        /\ [policy' = policy]_onboardingVars => Unswitched'
  <2> SUFFICES ASSUME OnboardingTypeOK, Unswitched, [OnboardingNext]_onboardingVars, policy' = policy
               PROVE  Unswitched'
    BY DEF onboardingVars, vars, contractVars
  <2>1. CASE OnboardNext
    BY <2>1 DEF OnboardNext, Onboard
  <2>2. CASE [Next]_vars
    BY <2>2, NothingElseUndercuts DEF OnboardingTypeOK
  <2> QED
    BY <2>1, <2>2 DEF OnboardingNext, onboardingVars
<1>3. OnboardingTypeOK /\ Unswitched /\ FrozenStaysOut => NoFrozenButNotBanned
  BY DEF OnboardingTypeOK, TypeOK, FrozenStaysOut, NoFrozenButNotBanned
<1> QED
  BY OnboardingTypeCorrect, FrozenIsOutOnboarding, <1>1, <1>2, <1>3, PTL DEF OnboardingSpec

-------------------------------------------------------------------------------
(***************************************************************************)
(* Admission.                                                              *)
(***************************************************************************)

\* A call of the router admits an eligible holder, opens an open asset's line,
\* or changes nothing that Admission sees.
LEMMA OnboardIsAdmission ==
  ASSUME OnboardingTypeOK, Governed, NEW h \in Holders, NEW isSac \in BOOLEAN,
         NEW funded \in BOOLEAN, Onboard(h, isSac, funded)
  PROVE  [Adm!AdmissionNext]_(Adm!admission)
<1> DEFINE a == OnboardAnswer(h, isSac, funded)
<1>1. /\ line' = [line EXCEPT ![h] = LineAfter(h, a)]
      /\ UNCHANGED <<contractVars, sacAdmin>>
  BY DEF Onboard
<1>2. /\ line \in [Addresses -> {"none", "unauth", "auth"}] /\ TypeOK
      /\ h \in Others /\ h \in Addresses /\ sacAdmin = Self
  BY DEF OnboardingTypeOK, TypeOK, Holders, Others, Governed
<1>3. EligibleOthers' = EligibleOthers /\ Governed' = Governed
  BY <1>1, EligibleUnchanged DEF Governed
<1>4. CASE line'[h] = line[h]
  <2>1. UNCHANGED line
    BY <1>1, <1>2, <1>4
  <2> QED
    BY <1>3, <2>1, AuthorizedOthersUnchanged DEF Adm!admission
<1>5. CASE line'[h] # line[h]
  <2>1. /\ line'[h] = AfterAuthorizer(h) /\ line[h] # "auth"
    <3>1. line'[h] = AfterAuthorizer(h)
      BY <1>1, <1>2, <1>5 DEF LineAfter
    <3>2. line[h] = "auth" => AfterAuthorizer(h) = "auth"
      BY <1>2, TrustedHasLine DEF AfterAuthorizer
    <3> QED
      BY <1>5, <3>1, <3>2
  <2>2. CASE line'[h] # "auth"
    <3>1. AuthorizedOthers' = AuthorizedOthers
      BY <1>1, <1>2, <2>1, <2>2 DEF AuthorizedOthers, Authorized
    <3> QED
      BY <1>3, <3>1 DEF Adm!admission
  <2>3. CASE line'[h] = "auth"
    <3>1. AuthorizedOthers' = AuthorizedOthers \cup {h}
      BY <1>1, <1>2, <2>3 DEF AuthorizedOthers, Authorized, Others
    <3>2. CASE AuthorizerReply(h) = "ok"
      <4>1. OutcomeOn(h, Trusted(h)) = "Ok"
        BY <1>2, <3>2 DEF AuthorizerReply, TypedOrNot
      <4>2. h \in EligibleOthers
        BY <1>2, <4>1 DEF OutcomeOn, EligibleOthers, IsEligible, Others
      <4> QED
        BY <1>2, <1>3, <3>1, <4>2 DEF Adm!AdmissionNext, Adm!Admit, Governed
    <3>3. CASE AuthorizerReply(h) # "ok"
      <4>1. Trusted(h) = "auth"
        BY <2>1, <2>3, <3>3 DEF AfterAuthorizer
      <4>2. ~AuthRequired
        BY <2>1, <4>1 DEF Trusted, FreshLine
      <4> QED
        BY <1>2, <1>3, <3>1, <4>2 DEF Adm!AdmissionNext, Adm!Join, Governed
    <3> QED
      BY <3>2, <3>3
  <2> QED
    BY <2>2, <2>3
<1> QED
  BY <1>4, <1>5

\* Router and authorizer together keep the admission promise.
THEOREM OnboardingRefinement == OnboardingSpec => ImplementsAdmission
<1>1. OnboardingInit => Adm!AdmissionInit
  BY MappedShape DEF Adm!AdmissionInit
<1>2. OnboardingTypeOK /\ OnboardingTypeOK' /\ [OnboardingNext]_onboardingVars
        => [Adm!AdmissionNext]_(Adm!admission)
  <2> SUFFICES ASSUME OnboardingTypeOK, OnboardingTypeOK', [OnboardingNext]_onboardingVars
               PROVE  [Adm!AdmissionNext]_(Adm!admission)
    OBVIOUS
  <2>1. CASE OnboardNext /\ Governed
    BY <2>1, OnboardIsAdmission DEF OnboardNext
  <2>2. CASE ~Governed
    BY <2>2, UngovernedStep
  <2>3. CASE [Next]_vars
    BY <2>3, AdmissionStep DEF OnboardingTypeOK
  <2> QED
    BY <2>1, <2>2, <2>3 DEF OnboardingNext, onboardingVars
<1> QED
  BY <1>1, <1>2, OnboardingTypeCorrect, PTL DEF OnboardingSpec, ImplementsAdmission, Adm!AdmissionSpec
================================================================================
