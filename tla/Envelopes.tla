------------------------------- MODULE Envelopes -------------------------------
(***************************************************************************)
(* Transactions as the SDK and the relayer handle them: the builders       *)
(* (exchange.ts, onboard.ts, claimable.ts), what a wallet is told about an *)
(* envelope (sep7.ts), and the checks an operations account makes before   *)
(* it signs one (sponsor.ts, service.ts).  The ledger at the end is the    *)
(* reference the checks are measured against: what an envelope does, and   *)
(* who pays for it.                                                        *)
(***************************************************************************)
EXTENDS Naturals, Sequences, FiniteSets

CONSTANTS
  Relayer,    \* the operations account: sponsor, fee source, countersigner
  Accounts,   \* classic accounts, the relayer among them
  Contracts,  \* smart accounts
  Pinned,     \* assets of the registry
  Regulated,  \* those an issuer must authorize
  OtherAssets

Nobody  == "nobody"   \* no account: an operation without a source of its own
NoAsset == "no asset"
Assets  == Pinned \cup OtherAssets
Holders == (Accounts \ {Relayer}) \cup Contracts

ASSUME RelayerIsClassic == Relayer \in Accounts /\ Accounts \cap Contracts = {} /\ Nobody \notin Accounts \cup Contracts
ASSUME PinnedApart      == Pinned \cap OtherAssets = {} /\ NoAsset \notin Assets /\ Regulated \subseteq Assets

-------------------------------------------------------------------------------
(***************************************************************************)
(* Operations and envelopes.  `who` is the account an operation names, and *)
(* `arg` what else the checks tell apart: a starting balance or limit of   *)
(* "0", the router or another contract.  `auth` are the credentials of a   *)
(* contract call's authorization entries.                                  *)
(***************************************************************************)

Op(type, source, who, asset, arg) ==
  [type |-> type, source |-> source, who |-> who, asset |-> asset, arg |-> arg, auth |-> {}]

Begin(source, who)              == Op("begin", source, who, NoAsset, "")
CreateAccount(source, who, arg) == Op("createAccount", source, who, NoAsset, arg)
ChangeTrust(source, asset, arg) == Op("changeTrust", source, Nobody, asset, arg)
EndSponsoring(source)           == Op("end", source, Nobody, NoAsset, "")
ClaimOp(source, asset)          == Op("claim", source, Nobody, asset, "")
Invoke(source, contract, asset, holder, auth) ==
  [Op("invoke", source, holder, asset, contract) EXCEPT !.auth = auth]

AddressCredential(w) == [kind |-> "address", who |-> w]
SourceCredential     == [kind |-> "source", who |-> Nobody]

\* sigs: whoever has signed, an account the envelope, a smart account its entry;
\* void: the accounts that signed it before an entry was signed.
Envelope(source, ops) ==
  [source |-> source, ops |-> ops, fee |-> "base", bump |-> Nobody, sigs |-> {}, void |-> {}]

SourceOf(op, env) == IF op.source = Nobody THEN env.source ELSE op.source

\* A signed entry is part of the envelope: it changes the hash that accounts
\* have signed, and their signatures stay attached to it without being valid.
Signed(env, w) ==
  IF w \in Contracts THEN [env EXCEPT !.sigs = (@ \ Accounts) \cup {w}, !.void = @ \cup (env.sigs \cap Accounts)]
  ELSE [env EXCEPT !.sigs = @ \cup {w}]

\* The accounts whose signature is attached, which is all the code looks for.
Signatures(env)   == (env.sigs \cap Accounts) \cup env.void
OpsOf(env)        == {env.ops[i] : i \in DOMAIN env.ops}

\* The first operation of a type, where there is one (`find`).
OfType(env, type)  == {i \in DOMAIN env.ops : env.ops[i].type = type}
FirstOf(env, type) == env.ops[CHOOSE i \in OfType(env, type) : \A j \in OfType(env, type) : i <= j]

\* Every envelope there may be: classic accounts source it and its operations.
Credentials  == [kind : {"address", "source"}, who : Accounts \cup Contracts \cup {Nobody}]
Operations   ==
  {op \in [type : {"begin", "end", "createAccount", "changeTrust", "invoke", "claim", "data", "pay"},
           source : Accounts \cup {Nobody}, who : Accounts \cup Contracts \cup {Nobody},
           asset : Assets \cup {NoAsset},
           arg : {"", "0", "some", "max", "router", "another", "other call"},
           auth : SUBSET Credentials] : op.type = "invoke" => op.who # Nobody}
Transactions ==
  [source : Accounts, ops : Seq(Operations), fee : {"base", "high"}, bump : Accounts \cup {Nobody},
   sigs : SUBSET (Accounts \cup Contracts), void : SUBSET Accounts]

\* An operation names a source only if it is not the transaction's.
As(w, source) == IF w = source THEN Nobody ELSE w

-------------------------------------------------------------------------------
(***************************************************************************)
(* Builders.                                                               *)
(***************************************************************************)

\* Mutant of SponsoredOnboard: the window is closed by whoever sources the
\* transaction.
SponsoredOnboardClosedBySource(sponsor, user, asset, create, role) ==
  LET source == IF role = "sponsor" THEN sponsor ELSE user
      begin  == Begin(As(sponsor, source), user)
      trust  == ChangeTrust(As(user, source), asset, "max")
      end    == EndSponsoring(Nobody)
  IN Envelope(source, IF create THEN <<begin, CreateAccount(As(sponsor, source), user, "0"), trust, end>>
                                ELSE <<begin, trust, end>>)

\* buildSponsoredOnboardTx; sourced by the user only if the account exists.
SponsoredOnboard(sponsor, user, asset, create, role) ==
  LET source == IF role = "sponsor" THEN sponsor ELSE user
      begin  == Begin(As(sponsor, source), user)
      trust  == ChangeTrust(As(user, source), asset, "max")
      end    == EndSponsoring(As(user, source))
  IN Envelope(source, IF create THEN <<begin, CreateAccount(As(sponsor, source), user, "0"), trust, end>>
                                ELSE <<begin, trust, end>>)

\* buildOnboardTx: simulation records the holder's authorization, by the source
\* where the holder is it, else by an entry of its own.
OnboardRouter(holder, feeSource, asset) ==
  Envelope(feeSource,
    <<Invoke(Nobody, "router", asset, holder,
             {IF holder = feeSource THEN SourceCredential ELSE AddressCredential(holder)})>>)

\* buildClaimTx.
Claim(claimant, feeSource, asset, create, sponsor) ==
  LET user  == As(claimant, feeSource)
      trust == ChangeTrust(user, asset, "max")
      take  == ClaimOp(user, asset)
  IN Envelope(feeSource,
       IF ~create THEN <<take>>
       ELSE IF sponsor = Nobody THEN <<trust, take>>
       ELSE <<Begin(sponsor, claimant), trust, EndSponsoring(user), take>>)

\* buildFeeBump wraps what somebody has signed, and no fee bump.
CanBump(env)   == env.bump = Nobody /\ Signatures(env) # {}
Bumped(env, w) == [env EXCEPT !.bump = w]

-------------------------------------------------------------------------------
(***************************************************************************)
(* What a wallet is told (describeSep7Tx, sep7Signer), and what may be     *)
(* handed to it (coSigners, onboardingRequest).                            *)
(***************************************************************************)

FeeSource(env) == IF env.bump # Nobody THEN env.bump ELSE env.source

Authorizers(op) == {c.who : c \in {d \in op.auth : d.kind = "address"}}

Signers(env) ==
  {FeeSource(env), env.source}
    \cup {op.source : op \in {o \in OpsOf(env) : o.source # Nobody}}
    \cup UNION {Authorizers(op) : op \in OpsOf(env)}

IsOnboard(env) == Len(env.ops) = 1 /\ env.ops[1].type = "invoke" /\ env.ops[1].arg # "other call"

OpSources(env) == {op.source : op \in OpsOf(env)} \ {Nobody, FeeSource(env)}

\* Mutant of Sep7Signer: without a pubkey, the source is asked.
Sep7SignerIsSource(pubkey, env) == IF pubkey # Nobody THEN pubkey ELSE FeeSource(env)

\* Whose signature a request asks for, where it does not say.
Sep7Signer(pubkey, env) ==
  IF pubkey # Nobody                      THEN pubkey
  ELSE IF IsOnboard(env)                  THEN env.ops[1].who
  ELSE IF OfType(env, "begin") # {}       THEN FirstOf(env, "begin").who
  ELSE IF Cardinality(OpSources(env)) = 1 THEN CHOOSE w \in OpSources(env) : TRUE
  ELSE FeeSource(env)

\* coSigners: the accounts, other than the user's, that source something.
CoSigners(env, user) ==
  ({FeeSource(env), env.source} \cup {op.source : op \in OpsOf(env)}) \ {Nobody, user}

\* Mutant of HandsOut: nobody looks for co-signers.
HandsOutAnything(env, user, callback) == TRUE

\* onboardingRequest does not hand out what a wallet could not complete.
HandsOut(env, user, callback) ==
  CoSigners(env, user) = {} \/ Signatures(env) # {} \/ callback

\* Its pubkey parameter names classic accounts only.
PubkeyOf(user) == IF user \in Accounts THEN user ELSE Nobody

-------------------------------------------------------------------------------
(***************************************************************************)
(* assertSafeToSponsor.                                                    *)
(***************************************************************************)

SafeTrust(op, env, user, asset) ==
  op.type = "changeTrust" /\ op.asset = asset /\ op.arg # "0" /\ SourceOf(op, env) = user

SafeCreation(op, env, sponsor, user) ==
  op.type = "createAccount" /\ op.who = user /\ op.arg = "0" /\ SourceOf(op, env) = sponsor

\* Mutant of SafeToSponsor: the starting balance is not looked at.
SafeToSponsorGifts(env, sponsor, user, asset) ==
  LET n      == Len(env.ops)
      middle == {env.ops[i] : i \in 2..(n - 1)}
  IN /\ env.bump = Nobody /\ env.source \in {sponsor, user} /\ n >= 3
     /\ env.ops[1].type = "begin" /\ env.ops[1].who = user /\ SourceOf(env.ops[1], env) = sponsor
     /\ env.ops[n].type = "end" /\ SourceOf(env.ops[n], env) = user
     /\ \A op \in middle : SafeTrust(op, env, user, asset) \/ op.type = "createAccount"
     /\ Cardinality({i \in 2..(n - 1) : env.ops[i].type = "changeTrust"}) = 1

SafeToSponsor(env, sponsor, user, asset) ==
  LET n      == Len(env.ops)
      middle == {env.ops[i] : i \in 2..(n - 1)}
  IN /\ env.bump = Nobody /\ env.source \in {sponsor, user} /\ n >= 3
     /\ env.ops[1].type = "begin" /\ env.ops[1].who = user /\ SourceOf(env.ops[1], env) = sponsor
     /\ env.ops[n].type = "end" /\ SourceOf(env.ops[n], env) = user
     /\ \A op \in middle : SafeTrust(op, env, user, asset) \/ SafeCreation(op, env, sponsor, user)
     /\ Cardinality({i \in 2..(n - 1) : env.ops[i].type = "changeTrust"}) = 1

-------------------------------------------------------------------------------
(***************************************************************************)
(* validateSep7Callback: the holder and asset it accepts an envelope for,  *)
(* and whether the relayer countersigns; {} is a refusal.                  *)
(***************************************************************************)

Intent(asset, holder, countersign) == [asset |-> asset, holder |-> holder, countersign |-> countersign]

\* validateSponsoredCallback.
SponsoredIntents(env) ==
  LET holder == env.ops[1].who
      asset  == FirstOf(env, "changeTrust").asset
  IN IF /\ env.source = Relayer /\ holder # Relayer
        /\ OfType(env, "changeTrust") # {} /\ asset \in Pinned
        /\ SafeToSponsor(env, Relayer, holder, asset)
        /\ env.fee # "high" /\ holder \in Signatures(env)
     THEN {Intent(asset, holder, TRUE)} ELSE {}

RouterIntents(env) ==
  LET op     == env.ops[1]
      holder == op.who
  IN IF ~(/\ IsOnboard(env) /\ op.arg = "router" /\ op.asset \in Pinned
          /\ holder # Relayer /\ op.source \in {Nobody, env.source})
     THEN {}
     ELSE IF env.source = holder
          THEN IF Signatures(env) = {} THEN {} ELSE {Intent(op.asset, holder, FALSE)}
     ELSE IF /\ env.source = Relayer /\ env.fee # "high"
             /\ \A c \in op.auth : c = AddressCredential(holder)
          THEN {Intent(op.asset, holder, TRUE)} ELSE {}

CallbackIntents(env) ==
  IF env.bump # Nobody THEN {}
  ELSE IF Len(env.ops) >= 3 /\ env.ops[1].type = "begin" THEN SponsoredIntents(env)
  ELSE IF Len(env.ops) = 1 THEN RouterIntents(env) ELSE {}

-------------------------------------------------------------------------------
(***************************************************************************)
(* The ledger (external).  `lines` are the trustlines, by holder and       *)
(* asset, `auth` the authorized ones, `open` the open sponsorship windows; *)
(* `paid` says who paid which reserve, and `spent` who gave away anything  *)
(* else.  Whether a claim is permitted is the caller's to know.            *)
(***************************************************************************)

Ledger(exists, lines, auth) ==
  [ok |-> TRUE, exists |-> exists, lines |-> lines, auth |-> auth, open |-> {},
   paid |-> {}, spent |-> {}]

Payer(L, w) == IF \E x \in L.open : x.user = w THEN (CHOOSE x \in L.open : x.user = w).sponsor ELSE w
Paid(L, w, entry) == [L EXCEPT !.paid = @ \cup {[who |-> Payer(L, w), entry |-> entry]}]

Unless(L, refused, M) == IF ~L.ok \/ refused THEN [L EXCEPT !.ok = FALSE] ELSE M

\* A line: of an open asset authorized as it is created, of a regulated one by
\* the router's call only.
WithLine(L, w, asset, authorized) ==
  LET M == IF <<w, asset>> \in L.lines THEN L
           ELSE [Paid(L, w, <<"line", w, asset>>)
                   EXCEPT !.lines = @ \cup {<<w, asset>>},
                          !.auth = IF asset \in Regulated THEN @ ELSE @ \cup {<<w, asset>>}]
  IN IF authorized THEN [M EXCEPT !.auth = @ \cup {<<w, asset>>}] ELSE M

BeginApplies(L, w, op) ==
  Unless(L, w \notin L.exists \/ w = op.who \/ \E x \in L.open : x.user \in {op.who, w},
         [L EXCEPT !.open = @ \cup {[user |-> op.who, sponsor |-> w]}])

EndApplies(L, w) ==
  Unless(L, \A x \in L.open : x.user # w, [L EXCEPT !.open = {x \in @ : x.user # w}])

\* An account without a balance of its own needs a sponsor.
CreationApplies(L, w, op) ==
  Unless(L, w \notin L.exists \/ op.who \in L.exists \/ (op.arg = "0" /\ Payer(L, op.who) = op.who),
         [Paid(L, op.who, <<"account", op.who>>)
            EXCEPT !.exists = @ \cup {op.who}, !.spent = IF op.arg = "0" THEN @ ELSE @ \cup {w}])

TrustApplies(L, w, op) ==
  IF op.arg = "0"
  THEN Unless(L, <<w, op.asset>> \notin L.lines,
              [L EXCEPT !.lines = @ \ {<<w, op.asset>>}, !.auth = @ \ {<<w, op.asset>>}])
  ELSE Unless(L, w \notin L.exists, WithLine(L, w, op.asset, FALSE))

\* A source credential lends the source's authority to whatever is called.
InvokeApplies(L, w, op, sigs) ==
  LET M == IF SourceCredential \in op.auth /\ w # op.who THEN [L EXCEPT !.spent = @ \cup {w}] ELSE L
  IN Unless(L, ~(Authorizers(op) \subseteq sigs),
            IF op.arg # "router" THEN M ELSE WithLine(M, op.who, op.asset, TRUE))

Apply(op, env, L) ==
  LET w == SourceOf(op, env)
  IN CASE op.type = "begin"         -> BeginApplies(L, w, op)
       [] op.type = "end"           -> EndApplies(L, w)
       [] op.type = "createAccount" -> CreationApplies(L, w, op)
       [] op.type = "changeTrust"   -> TrustApplies(L, w, op)
       [] op.type = "invoke"        -> InvokeApplies(L, w, op, env.sigs)
       [] op.type = "claim"         -> Unless(L, <<w, op.asset>> \notin L.auth, L)
       [] op.type = "data"          -> Unless(L, w \notin L.exists, Paid(L, w, <<"data", w>>))
       [] op.type = "pay"           -> Unless(L, w \notin L.exists, [L EXCEPT !.spent = @ \cup {w}])

\* An envelope applies if all its operations do and every window is closed.
Applied(env, L) ==
  LET after[i \in 0..Len(env.ops)] == IF i = 0 THEN L ELSE Apply(env.ops[i], env, after[i - 1])
      M == after[Len(env.ops)]
  IN Unless(M, env.source \notin L.exists \/ M.open # {}, M)

\* The network asks for a signature of everybody an envelope involves, of the
\* envelope as it is, and for no signature besides (txBAD_AUTH_EXTRA).
Complete(env) == Signers(env) \subseteq env.sigs /\ env.void = {}
================================================================================
