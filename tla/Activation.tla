------------------------------ MODULE Activation ------------------------------
(***************************************************************************)
(* The activation page (src/authline.tsx): a React component whose state   *)
(* is `ui`, whose screens offer buttons, and whose handlers await wallets, *)
(* the RPC endpoint, friendbot and the network.  Every await is an answer  *)
(* that arrives later, or never, in a page that has moved on.              *)
(*                                                                         *)
(* The generation counters statusGen and dirGen are only ever bumped and   *)
(* compared for equality, so an answer carries instead whether its         *)
(* generation is still the current one, and is forgotten once it is not.   *)
(* What a read answers is arbitrary: the ledger is whatever it is.         *)
(***************************************************************************)
EXTENDS Naturals, FiniteSets

CONSTANTS
  Accounts, Contracts, \* addresses a wallet may hold: classic, smart accounts
  Assets, OpenAssets,  \* the live assets, and those of them that are open
  DefaultAsset,        \* the configured asset
  RouterMissing,       \* no onboard router on this network
  Testnet,             \* friendbot and Nido exist
  Links,               \* the ways the page may be opened: the URL, the wallets
                       \* the user holds, the balances waiting for them
  MaxKeys              \* bound on the fee-payer keys generated

Nobody == "nobody"     \* no address
Nothing == "nothing"   \* no status, no asset, no transaction, no request
Addresses == Accounts \cup Contracts

ASSUME AddressesApart == Accounts \cap Contracts = {} /\ Nobody \notin Addresses
ASSUME AssetsLive     == DefaultAsset \in Assets /\ OpenAssets \subseteq Assets /\ Nothing \notin Assets
ASSUME KeysAreNat     == MaxKeys \in Nat

\* A link names live assets, and addresses where it previews one; wallets hold
\* addresses, and what waits for them is a live asset.
ASSUME LinksTyped ==
  \A l \in Links :
    /\ l.kind \in {"plain", "address", "bad", "sep7"}
    /\ l.asset \in Assets \cup {Nothing}
    /\ l.kind = "address" => l.address \in Addresses
    /\ l.kind = "sep7" => l.request.asset \in Assets \cup {Nothing}
    /\ l.wallets \subseteq Addresses /\ l.waiting \subseteq Assets

VARIABLES
  link,     \* how the page was opened
  ui,       \* the component's state and the refs it renders from
  badges,   \* dirStatuses: per asset a status, "loading" or "absent"
  reads,    \* reads and wallet prompts whose answer is still wanted
  runs,     \* claim, activate, authorize and signSep7 calls at work
  fee       \* smartFee, smartPrep and the prepareSmartActivation calls at work

vars == <<link, ui, badges, reads, runs, fee>>

Request   == link.request
IsRequest == link.kind = "sep7"

Open(a)         == a \in OpenAssets
CanAuthorize(a) == a \notin OpenAssets
Smart(w)        == w \in Contracts

\* What a status read may answer: for an account its line, which an open asset
\* authorizes, for a contract the SAC's view; "unknown" is a readError without
\* a line.
Values(w, a) ==
  {"none", "auth", "unknown"} \cup (IF Smart(w) \/ Open(a) THEN {} ELSE {"unauth"})
Status(w, a, v) == [who |-> w, asset |-> a, val |-> v]
NoStatus  == Status(Nobody, Nothing, "null")
ReadOk(s) == s.val # "unknown"

Busy    == {"building", "signing", "submitting"}
Resting == {"ready", "authorize", "already"}
Phases  == Busy \cup Resting \cup {"directory", "idle", "preview", "claim", "sep7", "success", "error"}

PhaseFor(s) ==
  IF s.val = "auth" THEN "already"
  ELSE IF s.val = "unauth" /\ CanAuthorize(s.asset) THEN "authorize"
  ELSE "ready"

-------------------------------------------------------------------------------
(***************************************************************************)
(* Effects that run after every render.                                    *)
(***************************************************************************)

\* The lookup of claimable balances starts over for the address shown.
LookedUp(u) == [u EXCEPT !.pending = {}, !.lookup = u.address \in Accounts]

\* A balance waits that one signature can collect now.
Claimable(u) ==
  /\ u.asset \in u.pending /\ u.status # NoStatus
  /\ Open(u.asset) \/ u.status.val = "auth"
  /\ ~Smart(u.address)

\* The effects on [address, claimHash, hash] and on [claimable, phase].
Settled(u) ==
  LET v == IF u.address # ui.address \/ u.hash # ui.hash THEN LookedUp(u) ELSE u
  IN IF Claimable(v) /\ v.phase \in Resting THEN [v EXCEPT !.phase = "claim"] ELSE v

\* Left out of the state: which flow and which outcome brought a screen that
\* shows neither, and where a connect failed once a wallet is connected; each is
\* set again before it is next read.
Kept(u) ==
  [u EXCEPT !.flow   = IF u.phase \in Busy \cup {"success", "error"} THEN @ ELSE "activate",
            !.effect = IF u.phase = "success" THEN @ ELSE "unknown",
            !.failedFromDir = @ /\ u.phase = "error"]

Render(u) == ui' = Kept(Settled(u))

-------------------------------------------------------------------------------
(***************************************************************************)
(* Generations.                                                            *)
(***************************************************************************)

Wanted(then, w, a, fromDir) ==
  [then |-> then, who |-> w, asset |-> a, fromDir |-> fromDir, badge |-> FALSE]

\* Mutant of Superseded: statusGen is not bumped.
SupersededNot(R) == R

\* statusGen is bumped: what remains of a read is its badge.
Superseded(R) == {[r EXCEPT !.then = "badge", !.fromDir = FALSE] : r \in {q \in R : q.badge}}

\* Mutant of BadgesDropped: dirGen is not bumped.
BadgesDroppedNot(R) == R

\* dirGen is bumped.
BadgesDropped(R) == {[r EXCEPT !.badge = FALSE] : r \in {q \in R : q.then # "badge"}}

\* A run's own refresh reads the generation when it starts.
RunsSuperseded == {[r EXCEPT !.live = FALSE] : r \in runs}

\* loadDirectoryStatuses(w): one read per live asset; the one of asset a also
\* answers `then`.
DirectoryReads(w, a, then, fromDir) ==
  {[then |-> IF b = a THEN then ELSE "badge", who |-> w, asset |-> b,
    fromDir |-> b = a /\ fromDir, badge |-> TRUE] : b \in Assets}

AllLoading(w) == [a \in Assets |-> Status(w, a, "loading")]
NoBadges      == [a \in Assets |-> Status(Nobody, a, "absent")]

-------------------------------------------------------------------------------
(***************************************************************************)
(* prepareSmartActivation.                                                 *)
(***************************************************************************)

NoPrep == [who |-> Nobody, asset |-> Nothing, key |-> 0]

\* A call starts: it funds a new key unless the session has one, and builds.
\* Beyond MaxKeys friendbot does not answer.
Prepared(f, w, a, forRun) ==
  LET task(pc, k) == [pc |-> pc, key |-> k, who |-> w, asset |-> a, run |-> forRun]
  IN IF ~Testnet THEN f
     ELSE IF f.key # 0 THEN [f EXCEPT !.tasks = @ \cup {task("build", f.key)}]
     ELSE IF f.made < MaxKeys
          THEN [f EXCEPT !.made = @ + 1, !.tasks = @ \cup {task("fund", f.made + 1)}]
          ELSE f

-------------------------------------------------------------------------------
(***************************************************************************)
(* Screens: the buttons each phase offers.                                 *)
(***************************************************************************)

ConnectedHere(u) == u.address # Nobody /\ u.connected

DirectoryScreen(u) == {"pick"}
Sep7Screen(u) ==
  {"directory"} \cup
  (IF ~ConnectedHere(u)              THEN {"connect"}
   ELSE IF u.address # Request.signer THEN {"switch"}
   ELSE IF u.verify = "forged"       THEN {} ELSE {"signSep7"})
IdleScreen(u)      == IF RouterMissing THEN {} ELSE {"connect"}
PreviewScreen(u)   == {"connect"}
ReadyScreen(u)     == IF RouterMissing THEN {} ELSE {"activate"}
AuthorizeScreen(u) == {"authorize"}
ClaimScreen(u)     == {"claim"}
SuccessScreen(u)   == {"reset"}
AlreadyScreen(u)   == {}
BusyScreen(u)      == {}
ErrorScreen(u) ==
  {"reset"} \cup
  (IF link.kind = "bad"        THEN {}
   ELSE IF u.address = Nobody  THEN {"connect"}
   ELSE IF u.flow = "sep7"     THEN {"signSep7"}
   ELSE IF u.status # NoStatus /\ u.status.val = "unauth" /\ CanAuthorize(u.asset)
        THEN {"authorize"} ELSE {"activate"})

Screen(u) ==
  CASE u.phase = "directory" -> DirectoryScreen(u)
    [] u.phase = "sep7"      -> Sep7Screen(u)
    [] u.phase = "idle"      -> IdleScreen(u)
    [] u.phase = "preview"   -> PreviewScreen(u)
    [] u.phase = "ready"     -> ReadyScreen(u)
    [] u.phase = "authorize" -> AuthorizeScreen(u)
    [] u.phase = "claim"     -> ClaimScreen(u)
    [] u.phase = "success"   -> SuccessScreen(u)
    [] u.phase = "already"   -> AlreadyScreen(u)
    [] u.phase = "error"     -> ErrorScreen(u)
    [] u.phase \in Busy      -> BusyScreen(u)

Header(u) ==
  IF ~ConnectedHere(u) THEN {"connect"}
  ELSE IF u.phase \in Busy THEN {} ELSE {"switch"}

BackLink(u) == IF u.phase \in Busy \cup {"directory", "sep7"} THEN {} ELSE {"directory"}

\* The wallet modal covers the page.
Clicks(button) ==
  /\ ~ui.modal
  /\ button \in Screen(ui) \cup Header(ui) \cup BackLink(ui)

-------------------------------------------------------------------------------
(***************************************************************************)
(* Connecting.                                                             *)
(***************************************************************************)

OpenModal ==
  /\ Clicks("connect")
  /\ Render([ui EXCEPT !.modal = TRUE])
  /\ UNCHANGED <<link, badges, reads, runs, fee>>

CloseModal ==
  /\ ui.modal
  /\ Render([ui EXCEPT !.modal = FALSE])
  /\ UNCHANGED <<link, badges, reads, runs, fee>>

FromDirectory(u) ==
  \/ u.phase = "directory"
  \/ u.phase = "error" /\ u.address = Nobody /\ u.failedFromDir

\* connect(id), up to the wallet's answer.
Connect ==
  /\ ui.modal
  /\ Render([ui EXCEPT !.modal = FALSE])
  /\ reads' = Superseded(reads) \cup {Wanted("wallet", Nobody, ui.asset, FromDirectory(ui))}
  /\ runs' = RunsSuperseded
  /\ UNCHANGED <<link, badges, fee>>

WalletAnswers(r, w) ==
  /\ r \in reads /\ r.then = "wallet"
  /\ Render([ui EXCEPT !.address = w, !.connected = TRUE, !.status = NoStatus])
  /\ badges' = AllLoading(w)
  /\ reads' = BadgesDropped(reads \ {r}) \cup DirectoryReads(w, r.asset, "connect", r.fromDir)
  /\ UNCHANGED <<link, runs, fee>>

WalletRefuses(r) ==
  /\ r \in reads /\ r.then = "wallet"
  /\ Render([ui EXCEPT !.address = Nobody, !.connected = FALSE, !.status = NoStatus,
                       !.failedFromDir = r.fromDir, !.phase = "error"])
  /\ badges' = NoBadges
  /\ reads' = BadgesDropped(reads \ {r})
  /\ UNCHANGED <<link, runs, fee>>

-------------------------------------------------------------------------------
(***************************************************************************)
(* Answers of status reads.                                                *)
(***************************************************************************)

\* Mutant of Filled: the latest answer wins.
FilledAlways(r, s) == IF r.badge THEN [badges EXCEPT ![r.asset] = s] ELSE badges

\* The badge half: fill only while still "loading".
Filled(r, s) ==
  IF r.badge /\ badges[r.asset].val = "loading" THEN [badges EXCEPT ![r.asset] = s] ELSE badges

\* The merge of refreshStatus into the badges, once there are any.
Merged(s) == IF badges = NoBadges THEN badges ELSE [badges EXCEPT ![s.asset] = s]

\* Mutant of Stored: an unreliable read overwrites a good status.
StoredAnyway(s) == [ui EXCEPT !.status = s]

Stored(s) == IF ReadOk(s) THEN [ui EXCEPT !.status = s] ELSE ui

\* Where a connect's read leads: back to the request or the directory, or on.
Connected(r, s) ==
  [Stored(s) EXCEPT !.phase = IF IsRequest THEN "sep7"
                              ELSE IF r.fromDir THEN "directory"
                              ELSE IF ReadOk(s) THEN PhaseFor(s) ELSE "ready"]

Previewed(s) == [Stored(s) EXCEPT !.phase = IF s.val = "auth" THEN "already" ELSE "preview"]

Prepares(r, s) ==
  /\ Smart(r.who) /\ s.val # "auth"
  /\ \/ r.then = "connect" /\ ~IsRequest /\ ~r.fromDir
     \/ r.then = "pick" /\ ReadOk(s)

Answer(r, v) ==
  LET s == Status(r.who, r.asset, v)
  IN /\ r \in reads /\ r.then # "wallet" /\ v \in Values(r.who, r.asset)
     /\ reads' = reads \ {r}
     /\ badges' = IF r.then = "refresh" /\ ReadOk(s) THEN Merged(s) ELSE Filled(r, s)
     /\ fee' = IF Prepares(r, s) THEN Prepared(fee, r.who, r.asset, FALSE) ELSE fee
     /\ Render(CASE r.then = "preview" -> Previewed(s)
                 [] r.then = "connect" -> Connected(r, s)
                 [] r.then = "pick"    ->
                      IF ReadOk(s) THEN [Stored(s) EXCEPT !.phase = PhaseFor(s)] ELSE ui
                 [] r.then = "refresh" -> Stored(s)
                 [] r.then = "badge"   -> ui)
     /\ UNCHANGED <<link, runs>>

\* The lookup of claimable balances answers, or fails as "none".
LookupAnswers ==
  /\ ui.lookup
  /\ \E P \in {{}, link.waiting} : Render([ui EXCEPT !.pending = P, !.lookup = FALSE])
  /\ UNCHANGED <<link, badges, reads, runs, fee>>

\* fetchSep7SigningKey answers.
VerifyAnswers ==
  /\ ui.verify = "checking"
  /\ \E v \in {"verified", "unverified", "forged"} : Render([ui EXCEPT !.verify = v])
  /\ UNCHANGED <<link, badges, reads, runs, fee>>

-------------------------------------------------------------------------------
(***************************************************************************)
(* Moving between assets, accounts and screens.                            *)
(***************************************************************************)

Pick(a) ==
  LET seed == badges[a]
      u    == [ui EXCEPT !.asset = a, !.status = NoStatus]
  IN /\ Clicks("pick")
     /\ IF ~ConnectedHere(ui)
        THEN Render([u EXCEPT !.phase = "idle"]) /\ reads' = Superseded(reads)
        ELSE /\ Render(IF seed.val \notin {"absent", "loading"} /\ ReadOk(seed)
                       THEN [u EXCEPT !.status = seed, !.phase = PhaseFor(seed)]
                       ELSE [u EXCEPT !.phase = "ready"])
             /\ reads' = Superseded(reads) \cup {Wanted("pick", ui.address, a, FALSE)}
     /\ runs' = RunsSuperseded
     /\ UNCHANGED <<link, badges, fee>>

ToDirectory ==
  /\ Clicks("directory")
  /\ Render([ui EXCEPT !.modal = FALSE, !.hash = FALSE, !.lineOnly = FALSE, !.status = NoStatus,
                       !.asset = DefaultAsset, !.phase = "directory"])
  /\ reads' = Superseded(reads)
  /\ runs' = RunsSuperseded
  /\ UNCHANGED <<link, badges, fee>>

Reset ==
  /\ Clicks("reset")
  /\ Render([ui EXCEPT !.hash = FALSE, !.lineOnly = FALSE,
                       !.phase = IF IsRequest THEN "sep7"
                                 ELSE IF ui.address = Nobody THEN "directory"
                                 ELSE IF ui.status = NoStatus THEN "ready"
                                 ELSE PhaseFor([ui.status EXCEPT !.asset = ui.asset])])
  /\ UNCHANGED <<link, badges, reads, runs, fee>>

SwitchWallet ==
  /\ Clicks("switch")
  /\ Render([ui EXCEPT !.connected = FALSE, !.address = Nobody, !.status = NoStatus,
                       !.hash = FALSE, !.lineOnly = FALSE, !.modal = TRUE,
                       !.phase = IF ui.phase = "directory" THEN "directory" ELSE "idle"])
  /\ badges' = NoBadges
  /\ reads' = BadgesDropped(Superseded(reads))
  /\ runs' = RunsSuperseded
  /\ fee' = [fee EXCEPT !.ready = NoPrep]
  /\ UNCHANGED link

-------------------------------------------------------------------------------
(***************************************************************************)
(* Runs: one call of claim, activate, authorize or signSep7.               *)
(***************************************************************************)

Run(flow, pc, w, a) ==
  [flow |-> flow, pc |-> pc, who |-> w, asset |-> a, live |-> TRUE, tx |-> NoPrep, key |-> 0,
   lineOnly |-> FALSE, effect |-> "unknown"]

FlowOf(name) == IF name \in {"activate", "authorize"} THEN "activate" ELSE name

\* What every run does first.
Begins(name, run, phase) ==
  /\ Render([ui EXCEPT !.flow = FlowOf(name), !.lineOnly = FALSE, !.phase = phase,
                       !.returned = IF name = "sep7" THEN FALSE ELSE @])
  /\ reads' = Superseded(reads)
  /\ runs' = RunsSuperseded \cup {run}

\* Mutant of Failed: the catch shows no error.
FailedSilently(run, R, f) ==
  runs' = runs \ {run} /\ reads' = R /\ fee' = f /\ UNCHANGED ui

\* The catch of every run: the error screen, and a read in the background.
Failed(run, R, f) ==
  /\ Render([ui EXCEPT !.phase = "error"])
  /\ runs' = runs \ {run}
  /\ reads' = IF run.asset = Nothing THEN R
              ELSE R \cup {Wanted("refresh", run.who, run.asset, FALSE)}
  /\ fee' = IF run.flow = "activate" /\ Smart(run.who)
            THEN Prepared(f, run.who, run.asset, FALSE) ELSE f

Moves(run, to, phase) ==
  /\ Render([ui EXCEPT !.phase = phase])
  /\ runs' = (runs \ {run}) \cup {to}
  /\ UNCHANGED reads

Claim ==
  /\ Clicks("claim")
  /\ Begins("claim", Run("claim", "build", ui.address, ui.asset), "building")
  /\ UNCHANGED <<link, badges, fee>>

Authorize ==
  /\ Clicks("authorize")
  /\ Begins("authorize", Run("authorize", "build", ui.address, ui.asset), "building")
  /\ UNCHANGED <<link, badges, fee>>

\* Mutant of Serves: a transaction prepared for another asset serves.
ServesAnyAsset(p) == p.who = ui.address /\ fee.key # 0

\* The prepared transaction serves if it is for this holder and asset and not
\* too old; the slow path prepares one first.
Serves(p) == p.who = ui.address /\ p.asset = ui.asset /\ fee.key # 0

ActivateFast ==
  /\ Clicks("activate") /\ Smart(ui.address) /\ Testnet /\ Serves(fee.ready)
  /\ Begins("activate", [Run("activate", "sign", ui.address, ui.asset)
                           EXCEPT !.tx = fee.ready, !.key = fee.key], "signing")
  /\ fee' = [fee EXCEPT !.ready = NoPrep]
  /\ UNCHANGED <<link, badges>>

ActivateSlow ==
  /\ Clicks("activate") /\ Smart(ui.address) /\ Testnet
  /\ Begins("activate", Run("activate", "prep", ui.address, ui.asset), "building")
  /\ fee' = Prepared(fee, ui.address, ui.asset, TRUE)
  /\ UNCHANGED <<link, badges>>

ActivateClassic ==
  /\ Clicks("activate") /\ ~(Smart(ui.address) /\ Testnet)
  /\ Begins("activate", Run("activate", "build", ui.address, ui.asset), "building")
  /\ UNCHANGED <<link, badges, fee>>

\* signSep7 refuses the wrong wallet, and a request whose other signatures
\* would have nowhere to be added.
Sep7Refuses == ui.address # Request.signer \/ ~(Request.complete \/ Request.callback)

SignSep7 ==
  LET run == Run("sep7", "sign", ui.address, Request.asset)
      R   == Superseded(reads)
  IN /\ Clicks("signSep7")
     /\ IF Sep7Refuses
        THEN /\ Render([ui EXCEPT !.flow = "sep7", !.lineOnly = FALSE, !.returned = FALSE,
                                  !.phase = "error"])
             /\ reads' = IF run.asset = Nothing THEN R
                         ELSE R \cup {Wanted("refresh", run.who, run.asset, FALSE)}
             /\ runs' = RunsSuperseded
        ELSE Begins("sep7", run, "signing")
     /\ UNCHANGED <<link, badges, fee>>

-------------------------------------------------------------------------------
(***************************************************************************)
(* The fee payer's preparation, and the run that waits for one.            *)
(***************************************************************************)

\* What activate does with the outcome of the preparation it awaited.
Resumes(t, f) ==
  IF ~t.run THEN fee' = f /\ UNCHANGED <<ui, reads, runs>>
  ELSE \E r \in runs :
         /\ r.pc = "prep" /\ r.who = t.who /\ r.asset = t.asset
         /\ IF f.ready = NoPrep \/ f.key = 0 THEN Failed(r, reads, f)
            ELSE /\ Moves(r, [r EXCEPT !.pc = "sign", !.tx = f.ready, !.key = f.key], "signing")
                 /\ fee' = [f EXCEPT !.ready = NoPrep]

\* Friendbot answers: the key becomes the session's, and the build begins.
Funded(t) ==
  /\ t \in fee.tasks /\ t.pc = "fund"
  /\ fee' = [fee EXCEPT !.key = t.key, !.tasks = (@ \ {t}) \cup {[t EXCEPT !.pc = "build"]}]
  /\ UNCHANGED <<link, ui, badges, reads, runs>>

\* Friendbot refuses: the call returns, and leaves what there was; or it
\* throws, and the call forgets what was prepared.
NotFunded(t) ==
  /\ t \in fee.tasks /\ t.pc = "fund"
  /\ \E p \in {fee.ready, NoPrep} : Resumes(t, [fee EXCEPT !.ready = p, !.tasks = @ \ {t}])
  /\ UNCHANGED <<link, badges>>

\* buildOnboardTx answers or throws.
Built(t) ==
  /\ t \in fee.tasks /\ t.pc = "build"
  /\ \E p \in {[who |-> t.who, asset |-> t.asset, key |-> t.key], NoPrep} :
       Resumes(t, [fee EXCEPT !.ready = p, !.tasks = @ \ {t}])
  /\ UNCHANGED <<link, badges>>

-------------------------------------------------------------------------------
(***************************************************************************)
(* The awaits of a run.                                                    *)
(***************************************************************************)

Signing(run) == Moves(run, [run EXCEPT !.pc = "sign"], "signing") /\ UNCHANGED fee

\* claim() reads the balance and the line again, and gives up where planClaim
\* asks for two signatures: no line on a regulated asset.  The read's failure
\* is not asked for, so "unknown" plans as a missing line.
ClaimRefuses(a, v) == v \in {"none", "unknown"} /\ ~Open(a)

BuildRun(run) ==
  /\ run \in runs /\ run.pc = "build"
  /\ \/ Failed(run, reads, fee)
     \/ run.flow = "claim" /\ \E v \in Values(run.who, run.asset) : ~ClaimRefuses(run.asset, v) /\ Signing(run)
     \/ run.flow = "authorize" /\ Signing(run)
     \/ run.flow = "activate" /\ ~Smart(run.who) /\ Signing(run)
  /\ UNCHANGED <<link, badges>>

SignRun(run) ==
  /\ run \in runs /\ run.pc = "sign"
  /\ \/ Failed(run, reads, fee)
     \/ Moves(run, [run EXCEPT !.pc = "submit"], "submitting") /\ UNCHANGED fee
  /\ UNCHANGED <<link, badges>>

\* The router's outcome: what the page decodes, and what the ledger did.
Outcomes == [said : {"Authorized", "TrustlineOnly", "undecodable"}, did : {"auth", "line"}]
Truthful(o) == (o.said = "Authorized" => o.did = "auth") /\ (o.said = "TrustlineOnly" => o.did = "line")

\* An undecodable outcome falls back on the asset's capability.
LineOnly(o, a) == IF o.said = "undecodable" THEN a # Nothing /\ ~Open(a) ELSE o.said = "TrustlineOnly"

Confirmed(run, only, did) ==
  /\ runs' = (runs \ {run}) \cup {[run EXCEPT !.pc = "refresh", !.live = TRUE,
                                              !.lineOnly = only, !.effect = did]}
  /\ UNCHANGED <<reads, fee>>

\* What was done is done for the holder and the asset of the transaction.
Did(run, o) ==
  IF run.tx = NoPrep \/ (run.tx.who = run.who /\ run.tx.asset = run.asset) THEN o.did ELSE "elsewhere"

\* A smart account's line-only outcome is a failure: it changes nothing.
Outcome(run, o) ==
  /\ Truthful(o)
  /\ IF Smart(run.who) /\ o.said = "TrustlineOnly" /\ run.flow = "activate"
     THEN Failed(run, reads, fee)
     ELSE /\ Confirmed(run, LineOnly(o, run.asset), Did(run, o))
          /\ Render([ui EXCEPT !.lineOnly = LineOnly(o, run.asset)])

SubmitRun(run) ==
  /\ run \in runs /\ run.pc = "submit"
  /\ \/ Failed(run, reads, fee)
     \/ /\ run.flow = "activate" /\ (run.tx # NoPrep => run.tx.key = run.key)
        /\ \E o \in Outcomes : Outcome(run, o)
     \/ run.flow = "authorize" /\ Confirmed(run, FALSE, "auth") /\ UNCHANGED ui
     \/ run.flow = "claim" /\ Confirmed(run, FALSE, "claimed") /\ UNCHANGED ui
     \/ /\ run.flow = "sep7" /\ Request.callback
        /\ Confirmed(run, FALSE, "unknown")
        /\ Render([ui EXCEPT !.returned = TRUE])
     \/ /\ run.flow = "sep7" /\ ~Request.callback /\ Request.router
        /\ \E o \in Outcomes : Outcome(run, o)
     \/ /\ run.flow = "sep7" /\ ~Request.callback /\ ~Request.router
        /\ Confirmed(run, FALSE, "line") /\ UNCHANGED ui
  /\ UNCHANGED <<link, badges>>

\* The run's own refreshStatus answers, and the success screen follows.  Only
\* authorize asks what it read.
RefreshRun(run) ==
  /\ run \in runs /\ run.pc = "refresh"
  /\ \E v \in Values(run.who, run.asset) :
       LET s    == Status(run.who, run.asset, v)
           kept == run.live /\ ReadOk(s) /\ run.asset # Nothing
           u    == IF kept THEN Stored(s) ELSE ui
           only == IF run.flow = "authorize" THEN kept /\ v # "auth" ELSE u.lineOnly
       IN /\ badges' = IF kept THEN Merged(s) ELSE badges
          /\ \E h \in (IF ui.returned THEN BOOLEAN ELSE {TRUE}) :
               LET done == [u EXCEPT !.lineOnly = only, !.hash = h, !.phase = "success",
                                     !.effect = run.effect]
               IN Render(IF h THEN LookedUp(done) ELSE done)
  /\ runs' = runs \ {run}
  /\ UNCHANGED <<link, reads, fee>>

-------------------------------------------------------------------------------
Blank ==
  [address |-> Nobody, connected |-> FALSE, asset |-> DefaultAsset, phase |-> "directory",
   modal |-> FALSE, status |-> NoStatus, flow |-> "activate", lineOnly |-> FALSE,
   returned |-> FALSE, hash |-> FALSE, pending |-> {}, lookup |-> FALSE,
   verify |-> "unsigned", failedFromDir |-> FALSE, effect |-> "unknown"]

AssetOf(l) == IF l.asset = Nothing THEN DefaultAsset ELSE l.asset

\* The first render and its mount effects, for each way to open the page.
Opened(l) ==
  LET u == [Blank EXCEPT !.asset = AssetOf(l), !.phase = IF l.asset = Nothing THEN "directory" ELSE "idle"]
  IN CASE l.kind = "plain"   -> [u EXCEPT !.modal = TRUE]
       [] l.kind = "address" -> [u EXCEPT !.address = l.address, !.lookup = l.address \in Accounts]
       [] l.kind = "bad"     -> [Blank EXCEPT !.phase = "error", !.flow = "sep7"]
       [] l.kind = "sep7"    -> [u EXCEPT !.phase = "sep7", !.flow = "sep7", !.verify = l.request.verify]

Init ==
  /\ link \in Links
  /\ ui = Opened(link)
  /\ badges = IF link.kind = "address" THEN AllLoading(link.address) ELSE NoBadges
  /\ reads = IF link.kind = "address"
             THEN DirectoryReads(link.address, Nothing, "badge", FALSE)
                    \cup {Wanted("preview", link.address, AssetOf(link), FALSE)}
             ELSE {}
  /\ runs = {}
  /\ fee = [key |-> 0, made |-> 0, ready |-> NoPrep, tasks |-> {}]

User ==
  \/ OpenModal \/ CloseModal \/ Connect
  \/ \E a \in Assets : Pick(a)
  \/ ToDirectory \/ Reset \/ SwitchWallet
  \/ Claim \/ Authorize \/ ActivateFast \/ ActivateSlow \/ ActivateClassic \/ SignSep7

Answers ==
  \/ \E r \in reads : (\E w \in link.wallets : WalletAnswers(r, w)) \/ WalletRefuses(r)
  \/ \E r \in reads : \E v \in {"none", "unauth", "auth", "unknown"} : Answer(r, v)
  \/ LookupAnswers \/ VerifyAnswers
  \/ \E t \in fee.tasks : Funded(t) \/ NotFunded(t) \/ Built(t)

RunStep(run) == BuildRun(run) \/ SignRun(run) \/ SubmitRun(run) \/ RefreshRun(run)

Next == User \/ Answers \/ \E run \in runs : RunStep(run)

\* The RPC endpoint answers and submitAndConfirm has a deadline; wallets and
\* users may take for ever.
Spec == Init /\ [][Next]_vars /\ WF_vars(\E run \in runs : SubmitRun(run) \/ RefreshRun(run))

-------------------------------------------------------------------------------
(***************************************************************************)
(* Properties.                                                             *)
(***************************************************************************)

RunOK(r) ==
  /\ r.pc \in {"prep", "build", "sign", "submit", "refresh"}
  /\ r.flow \in {"activate", "authorize", "claim", "sep7"}
  /\ r.who \in Addresses /\ r.asset \in Assets \cup {Nothing}

\* The shape of the state.  A run at work is one of the component's flows, a
\* badge is of its asset, a key is one that was made.
ActivationTypeOK ==
  /\ link \in Links
  /\ ui.address \in Addresses \cup {Nobody} /\ ui.asset \in Assets /\ ui.phase \in Phases
  /\ ui.status = NoStatus \/ ui.status.val \in Values(ui.status.who, ui.status.asset) \ {"unknown"}
  /\ ui.pending \subseteq Assets
  /\ \A a \in Assets : badges[a].asset = a
  /\ \A r \in runs : RunOK(r)
  /\ fee.key \in 0..fee.made /\ fee.made <= MaxKeys

\* "A slow read for account A lands after connecting B and pairs B's address
\* with A's status" (statusGen): whatever answers late, the status stored is
\* the one of the address and the asset on the screen, or of the request's.
StatusIsOfTheShown ==
  ui.status # NoStatus =>
    /\ ui.status.who = ui.address
    /\ ui.status.asset = ui.asset \/ (IsRequest /\ ui.status.asset = Request.asset)

\* "Badges belong to the ADDRESS" (dirGen): every badge is of the address shown.
BadgesAreTheWallets ==
  \A a \in Assets : badges[a].val # "absent" => badges[a].who = ui.address

\* "A fresher write must never be clobbered by a slow connect-time read": a badge
\* that has its answer changes only by a read that followed a transaction, or
\* when the wallet does.
FreshBadgesStay ==
  [][\A a \in Assets :
       badges[a].val \notin {"absent", "loading"} /\ badges'[a] # badges[a] =>
         \/ badges'[a].val \in {"absent", "loading"}
         \/ \E r \in reads \ reads' : r.then = "refresh" /\ r.asset = a
         \/ \E r \in runs \ runs'   : r.pc = "refresh" /\ r.asset = a]_vars

\* "Never abandon a transaction mid-flight" (switchWallet): the page is busy
\* exactly while one run is at work, for the wallet it shows; no late answer
\* takes it out of that phase, and no second run starts.
BusyIsOneRun ==
  /\ ui.phase \in Busy <=> runs # {}
  /\ \A r, s \in runs : r = s
  /\ \A r \in runs : r.who = ui.address

\* The success screen says "authorized" and "ready to receive".
SaysAuthorized ==
  ui.phase = "success" /\ ui.flow # "claim" /\ ~ui.lineOnly /\ ~ui.returned
  /\ (IsRequest => Request.asset # Nothing)

\* "Truthful success copy" ("we never render the stronger claim"): authorized is
\* said only of the asset that the transaction authorized, or of an open one whose
\* line it created, which is authorized as it is created.
SuccessCopyIsTruthful ==
  SaysAuthorized => ui.effect = "auth" \/ (Open(ui.asset) /\ ui.effect # "elsewhere")

\* The same for the page's own activations, in a session with one fee payer.
\* (Preparations that overlap before there is one may fund two, and a run whose
\* own preparation fails then takes the other's.)
ActivationCopyIsTruthful ==
  ui.flow = "activate" /\ fee.made <= 1 => SuccessCopyIsTruthful

\* "Only a connected wallet may reach signing phases" (isConnected): an address
\* that was only previewed signs nothing.
OnlyConnectedSigns == runs # {} => ui.connected

\* "A tx that never lands must surface an error instead of leaving the UI stuck
\* on Submitting forever": submitting ends in a result.
SubmittingEnds == ui.phase = "submitting" ~> ui.phase \in {"success", "error"}
===============================================================================
