------------------------------ MODULE Onboarding ------------------------------
(***************************************************************************)
(* The onboarding router (contracts/trustline-onboard/src/lib.rs) over an  *)
(* asset and the authorizer that governs it.  onboard(sac, holder) is one  *)
(* transaction: it creates the holder's line, discovers the SAC admin and  *)
(* asks it to authorize, and the whole of it commits or rolls back.  The   *)
(* admin the router meets is the authorizer of module Authorizer or, until *)
(* the handover, some other address: a classic account, the testnet stub   *)
(* (contracts/authorizer-stub), or a contract that refuses, does nothing   *)
(* or aborts.                                                              *)
(***************************************************************************)
EXTENDS Authorizer

CONSTANT Kind   \* what each predecessor is

AdminKinds == {"account", "stub", "refuser", "noop", "panicker"}

ASSUME KindOfPredecessors == Kind \in [Predecessors -> AdminKinds]

VARIABLE answer   \* what onboard last told each holder, "none" before any call

onboardingVars == <<vars, answer>>

Holders == Addresses \ {Self}

\* Mutant of OnboardStatus: a holder is authorized or the call has failed.
OnboardStatusAllOrNothing == {"Authorized"}

\* The two statuses commit; the errors abort the transaction.
OnboardStatus == {"Authorized", "TrustlineOnly"}
OnboardError  == {"NotSac", "TrustFailed", "NotAuthorized", "AuthorizationRefused"}

-------------------------------------------------------------------------------
\* SAC.trust(): creates the line if there is none.
Trusted(h) == IF line[h] = "none" THEN FreshLine ELSE line[h]

\* Mutant of TypedOrNot: the authorizer panics instead of returning its error.
Untyped(outcome) == IF outcome = "Ok" THEN "ok" ELSE "untyped error"

\* The router reads only two things off a failed call: a typed contract error,
\* or any other abort.
TypedOrNot(outcome) == IF outcome = "Ok" THEN "ok" ELSE "typed error"

\* try_authorize_trustline(h) on the discovered admin, after the trust step.
AuthorizerReply(h) ==
  IF sacAdmin = Self THEN TypedOrNot(OutcomeOn(h, Trusted(h)))
  ELSE CASE Kind[sacAdmin] \in {"stub", "noop"} -> "ok"
         [] Kind[sacAdmin] = "refuser"          -> "typed error"
         [] OTHER                               -> "untyped error"

\* The line after that call: a reply of ok has authorized it, except for an
\* admin that does nothing.
AfterAuthorizer(h) ==
  IF AuthorizerReply(h) = "ok" /\ (sacAdmin = Self \/ Kind[sacAdmin] = "stub")
  THEN "auth" ELSE Trusted(h)

\* Mutant of AuthorizerVerdict: a success is believed without reading the line.
BelievingVerdict(h) ==
  CASE AuthorizerReply(h) = "ok"          -> "Authorized"
    [] AuthorizerReply(h) = "typed error" -> "AuthorizationRefused"
    [] OTHER                              -> "TrustlineOnly"

\* The status or error the reply is turned into, with the post-condition on a
\* success.
AuthorizerVerdict(h) ==
  CASE AuthorizerReply(h) = "ok" ->
         IF AfterAuthorizer(h) = "auth" THEN "Authorized" ELSE "NotAuthorized"
    [] AuthorizerReply(h) = "typed error" -> "AuthorizationRefused"
    [] OTHER                              -> "TrustlineOnly"

\* Mutant of OnboardAnswer: trust() fails on a line that already exists.
AnswerOnExistingLine(h, isSac, funded) ==
  IF ~isSac                                               THEN "NotSac"
  ELSE IF line[h] # "none" \/ ~funded                     THEN "TrustFailed"
  ELSE IF Trusted(h) = "auth"                             THEN "Authorized"
  ELSE IF sacAdmin # Self /\ Kind[sacAdmin] = "account"   THEN "TrustlineOnly"
  ELSE AuthorizerVerdict(h)

\* What onboard answers: isSac says whether the sac argument is a built-in SAC,
\* funded whether a G-account can pay for the new line.
OnboardAnswer(h, isSac, funded) ==
  IF ~isSac                                                    THEN "NotSac"
  ELSE IF line[h] = "none" /\ ~funded                          THEN "TrustFailed"
  ELSE IF Trusted(h) = "auth"                                  THEN "Authorized"
  ELSE IF sacAdmin # Self /\ Kind[sacAdmin] = "account"        THEN "TrustlineOnly"
  ELSE AuthorizerVerdict(h)

\* The holder's line once the transaction that answers a is over.
LineAfter(h, a) == IF a \in OnboardStatus THEN AfterAuthorizer(h) ELSE line[h]

Onboard(h, isSac, funded) ==
  LET a == OnboardAnswer(h, isSac, funded)
      throughAuthorizer == a = "Authorized" /\ Trusted(h) # "auth" /\ sacAdmin = Self
  IN /\ answer' = [answer EXCEPT ![h] = a]
     /\ line' = [line EXCEPT ![h] = LineAfter(h, a)]
     /\ trail' = IF throughAuthorizer THEN Replay(trail, Event("Authorized", {h}))
                 ELSE [trail EXCEPT !.authorized = IF line'[h] = "auth" THEN @ \cup {h} ELSE @]
     /\ UNCHANGED <<contractVars, sacAdmin, balance, freeze>>

-------------------------------------------------------------------------------
OnboardingInit == Init /\ answer = [h \in Holders |-> "none"]

OnboardNext == \E h \in Holders, isSac, funded \in BOOLEAN : Onboard(h, isSac, funded)

OnboardingNext ==
  \/ OnboardNext
  \/ Next /\ UNCHANGED answer

\* A holder that can pay keeps asking; nobody else is obliged to act.
Persistence == \A h \in Holders : WF_onboardingVars(Onboard(h, TRUE, TRUE))

OnboardingSpec == OnboardingInit /\ [][OnboardingNext]_onboardingVars /\ Persistence

-------------------------------------------------------------------------------
(***************************************************************************)
(* Properties.                                                             *)
(***************************************************************************)

OnboardingTypeOK == TypeOK /\ answer \in [Holders -> OnboardStatus \cup OnboardError \cup {"none"}]

\* "Keep the trustline and report it truthfully" (onboard): a holder told
\* Authorized is authorized when the transaction lands, one told TrustlineOnly
\* holds a line that is not, whatever the discovered admin is.
StatusIsTruthful ==
  [][\A h \in Holders, isSac, funded \in BOOLEAN :
       Onboard(h, isSac, funded) =>
         /\ answer'[h] = "Authorized" => line'[h] = "auth"
         /\ answer'[h] = "TrustlineOnly" => line'[h] = "unauth"]_onboardingVars

\* "Panicking here would silently downgrade a ban into an unauthorized
\* trustline" (authorizer, invariant 3): once the authorizer governs the asset,
\* a holder is authorized or refused, never left with an unauthorized line.
BanIsNeverDowngraded ==
  [][\A h \in Holders, isSac, funded \in BOOLEAN :
       Onboard(h, isSac, funded) /\ sacAdmin = Self
         => answer'[h] # "TrustlineOnly"]_onboardingVars

\* A holder the authorizer would admit for good, on an asset it governs, is
\* authorized again and again however often its line is taken down: neither a
\* closed line nor a transient deauthorization nor an earlier refusal sticks.
EligibleHolderGetsIn ==
  \A h \in Holders :
    <>[](sacAdmin = Self /\ IsEligible(h)) => []<>(line[h] = "auth")
===============================================================================
