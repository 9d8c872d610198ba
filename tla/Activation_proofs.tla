--------------------------- MODULE Activation_proofs ---------------------------
(***************************************************************************)
(* Proofs about the activation page.                                       *)
(***************************************************************************)
EXTENDS Activation, TLAPS

UiFields ==
  {"address", "connected", "asset", "phase", "modal", "status", "flow", "lineOnly", "returned",
   "hash", "pending", "lookup", "verify", "failedFromDir", "effect"}
ReadFields == {"then", "who", "asset", "fromDir", "badge"}
RunFields  == {"flow", "pc", "who", "asset", "live", "tx", "key", "lineOnly", "effect"}

-------------------------------------------------------------------------------
(***************************************************************************)
(* What a render does to the state it is given.                            *)
(***************************************************************************)

LEMMA LookupFields ==
  ASSUME NEW u, DOMAIN u = UiFields
  PROVE  LET v == LookedUp(u)
         IN /\ DOMAIN v = UiFields
            /\ v.address = u.address /\ v.connected = u.connected /\ v.asset = u.asset
            /\ v.phase = u.phase /\ v.modal = u.modal /\ v.status = u.status /\ v.flow = u.flow
            /\ v.lineOnly = u.lineOnly /\ v.returned = u.returned /\ v.effect = u.effect
            /\ v.pending = {} /\ (v.lookup <=> u.address \in Accounts)
  BY DEF LookedUp, UiFields

LEMMA ClaimFields ==
  ASSUME NEW u, DOMAIN u = UiFields
  PROVE  LET v == [u EXCEPT !.phase = "claim"]
         IN /\ DOMAIN v = UiFields
            /\ v.address = u.address /\ v.connected = u.connected /\ v.asset = u.asset
            /\ v.phase = "claim" /\ v.modal = u.modal /\ v.status = u.status /\ v.flow = u.flow
            /\ v.lineOnly = u.lineOnly /\ v.returned = u.returned /\ v.effect = u.effect
            /\ v.pending = u.pending /\ v.lookup = u.lookup
  BY DEF UiFields

LEMMA KeptFields ==
  ASSUME NEW u, DOMAIN u = UiFields
  PROVE  LET v == Kept(u)
         IN /\ DOMAIN v = UiFields
            /\ v.address = u.address /\ v.connected = u.connected /\ v.asset = u.asset
            /\ v.phase = u.phase /\ v.modal = u.modal /\ v.status = u.status
            /\ v.flow = IF u.phase \in Busy \cup {"success", "error"} THEN u.flow ELSE "activate"
            /\ v.lineOnly = u.lineOnly /\ v.returned = u.returned
            /\ v.effect = IF u.phase = "success" THEN u.effect ELSE "unknown"
            /\ v.pending = u.pending /\ v.lookup = u.lookup
  BY DEF Kept, UiFields

LEMMA RenderedFields ==
  ASSUME NEW u, DOMAIN u = UiFields, Render(u)
  PROVE  /\ DOMAIN ui' = UiFields
         /\ ui'.address = u.address /\ ui'.connected = u.connected /\ ui'.asset = u.asset
         /\ ui'.modal = u.modal /\ ui'.status = u.status
         /\ ui'.lineOnly = u.lineOnly /\ ui'.returned = u.returned
         /\ \/ ui'.phase = u.phase
            \/ u.phase \in Resting /\ ui'.phase = "claim" /\ u.asset \in u.pending
         /\ \/ ui'.flow = u.flow
            \/ ui'.flow = "activate" /\ ui'.phase \notin Busy \cup {"success", "error"}
         /\ ui'.phase = "success" => ui'.effect = u.effect
         /\ \/ ui'.pending = {} /\ (ui'.lookup <=> u.address \in Accounts)
            \/ u.address = ui.address /\ ui'.pending = u.pending /\ ui'.lookup = u.lookup
<1> DEFINE v == IF u.address # ui.address \/ u.hash # ui.hash THEN LookedUp(u) ELSE u
           w == IF Claimable(v) /\ v.phase \in Resting THEN [v EXCEPT !.phase = "claim"] ELSE v
<1>1. ui' = Kept(w)
  BY DEF Render, Settled
<1>2. /\ DOMAIN v = UiFields
      /\ v.address = u.address /\ v.connected = u.connected /\ v.asset = u.asset
      /\ v.phase = u.phase /\ v.modal = u.modal /\ v.status = u.status /\ v.flow = u.flow
      /\ v.lineOnly = u.lineOnly /\ v.returned = u.returned /\ v.effect = u.effect
      /\ \/ v.pending = {} /\ (v.lookup <=> u.address \in Accounts)
         \/ u.address = ui.address /\ v.pending = u.pending /\ v.lookup = u.lookup
  BY LookupFields
<1> HIDE DEF v
<1>3. Claimable(v) => u.asset \in u.pending
  BY <1>2 DEF Claimable
<1>4. /\ DOMAIN w = UiFields
      /\ w.address = u.address /\ w.connected = u.connected /\ w.asset = u.asset
      /\ w.modal = u.modal /\ w.status = u.status /\ w.flow = u.flow
      /\ w.lineOnly = u.lineOnly /\ w.returned = u.returned /\ w.effect = u.effect
      /\ w.pending = v.pending /\ w.lookup = v.lookup
      /\ \/ w.phase = u.phase
         \/ u.phase \in Resting /\ w.phase = "claim" /\ u.asset \in u.pending
  BY <1>2, <1>3, ClaimFields
<1> HIDE DEF w
<1> DEFINE x == Kept(w)
<1>5. /\ DOMAIN x = UiFields
      /\ x.address = w.address /\ x.connected = w.connected /\ x.asset = w.asset
      /\ x.phase = w.phase /\ x.modal = w.modal /\ x.status = w.status
      /\ x.flow = IF w.phase \in Busy \cup {"success", "error"} THEN w.flow ELSE "activate"
      /\ x.lineOnly = w.lineOnly /\ x.returned = w.returned
      /\ x.effect = IF w.phase = "success" THEN w.effect ELSE "unknown"
      /\ x.pending = w.pending /\ x.lookup = w.lookup
  BY <1>4, KeptFields
<1>6. ui' = x
  BY <1>1
<1> HIDE DEF x
<1> QED BY <1>2, <1>4, <1>5, <1>6 DEF Resting, Busy

-------------------------------------------------------------------------------
(***************************************************************************)
(* The inductive invariant of the types: what every part of the state is,  *)
(* whoever is connected.                                                   *)
(***************************************************************************)

StatusTyped(s) == s = NoStatus \/ s.val \in Values(s.who, s.asset) \ {"unknown"}

\* A screen with a holder's buttons has a holder; a request's screen, a request.
UiTyped(u) ==
  /\ DOMAIN u = UiFields
  /\ u.address \in Addresses \cup {Nobody} /\ u.asset \in Assets /\ u.phase \in Phases
  /\ StatusTyped(u.status)
  /\ u.pending \subseteq link.waiting
  /\ u.connected => u.address # Nobody
  /\ u.phase \in Resting \cup {"claim"} => u.address # Nobody
  /\ u.phase = "sep7" => IsRequest
  /\ u.flow = "sep7" => link.kind \in {"sep7", "bad"}

\* Nobody has nothing waiting, and nothing looked up.
LookupIdle(u) == u.address = Nobody => u.pending = {} /\ ~u.lookup

UiInv == UiTyped(ui) /\ LookupIdle(ui)

ReadTyped(r) ==
  /\ DOMAIN r = ReadFields
  /\ r.then \in {"wallet", "connect", "pick", "preview", "refresh", "badge"}
  /\ r.asset \in Assets
  /\ r.then # "wallet" => r.who \in Addresses
  /\ r.then = "wallet" => ~r.badge

\* A read, or a prompt, whose answer moves the page to another screen.
Shows(r) == r.then \in {"connect", "pick", "preview"}
Leads(r) == r.then = "wallet" \/ Shows(r)

ReadsInv ==
  /\ \A r \in reads : ReadTyped(r)
  /\ \A r \in reads : Shows(r) => r.who = ui.address
  /\ \A r, s \in reads : Leads(r) /\ Leads(s) => r = s

BadgeTyped(b, a) == b.asset = a /\ b.val \in Values(b.who, a) \cup {"loading", "absent"}
BadgesInv ==
  /\ DOMAIN badges = Assets
  /\ \A a \in Assets : BadgeTyped(badges[a], a)

RunTyped(r) == DOMAIN r = RunFields /\ RunOK(r)
RunsInv == \A r \in runs : RunTyped(r)

TaskTyped(t, f) == DOMAIN t = {"pc", "key", "who", "asset", "run"} /\ t.key \in 1..f.made

\* A key that is being funded is nobody else's, and not yet the session's.
FeeTyped(f) ==
  /\ DOMAIN f = {"key", "made", "ready", "tasks"}
  /\ f.made \in Nat /\ f.made <= MaxKeys /\ f.key \in 0..f.made
  /\ \A t \in f.tasks : TaskTyped(t, f)
  /\ \A t \in f.tasks : t.pc = "fund" => t.key # f.key
  /\ \A s, t \in f.tasks : s.pc = "fund" /\ t.pc = "fund" /\ s.key = t.key => s = t

TypeInv ==
  link \in Links /\ UiInv /\ ReadsInv /\ BadgesInv /\ RunsInv /\ FeeTyped(fee)

-------------------------------------------------------------------------------
(***************************************************************************)
(* Lemmas about the operators the handlers are built from.                 *)
(***************************************************************************)

\* A state that is well formed but for the lookup, which the render starts
\* over when the address is another, is rendered as a well-formed one.
LEMMA RenderedTypes ==
  ASSUME NEW u, UiTyped(u), u.address = ui.address => LookupIdle(u), Render(u), link' = link
  PROVE  UiInv'
<1>1. DOMAIN u = UiFields
  BY DEF UiTyped
<1>2. /\ DOMAIN ui' = UiFields
      /\ ui'.address = u.address /\ ui'.connected = u.connected /\ ui'.asset = u.asset
      /\ ui'.status = u.status
      /\ \/ ui'.phase = u.phase
         \/ u.phase \in Resting /\ ui'.phase = "claim"
      /\ \/ ui'.flow = u.flow
         \/ ui'.flow = "activate"
      /\ \/ ui'.pending = {} /\ (ui'.lookup <=> u.address \in Accounts)
         \/ u.address = ui.address /\ ui'.pending = u.pending /\ ui'.lookup = u.lookup
  BY <1>1, RenderedFields
<1>3. UiTyped(ui')
  BY <1>2 DEF UiTyped, Phases, Resting
<1>4. LookupIdle(ui')
  BY <1>2, AddressesApart DEF UiTyped, LookupIdle, Addresses
<1>5. UiTyped(ui)'
  BY <1>3 DEF UiTyped, IsRequest, StatusTyped, Values
<1>6. LookupIdle(ui)'
  BY <1>4 DEF LookupIdle
<1> QED BY <1>5, <1>6 DEF UiInv

\* What a bump of statusGen leaves are badges of reads there were.
LEMMA SupersededReads ==
  ASSUME NEW R, \A q \in R : ReadTyped(q), NEW r \in Superseded(R)
  PROVE  /\ ReadTyped(r) /\ r.then = "badge" /\ r.badge
         /\ \E q \in R : q.badge /\ r.who = q.who /\ r.asset = q.asset
<1>1. PICK q \in R : q.badge /\ r = [q EXCEPT !.then = "badge", !.fromDir = FALSE]
  BY DEF Superseded
<1>2. ReadTyped(q)
  OBVIOUS
<1>3. /\ DOMAIN r = ReadFields /\ r.then = "badge" /\ r.badge = q.badge
      /\ r.who = q.who /\ r.asset = q.asset
  BY <1>1, <1>2 DEF ReadTyped, ReadFields
<1> QED BY <1>1, <1>2, <1>3 DEF ReadTyped

\* What a bump of dirGen leaves answers what it answered, and no badge.
LEMMA UnbadgedReads ==
  ASSUME NEW R, \A q \in R : ReadTyped(q), NEW r \in BadgesDropped(R)
  PROVE  /\ ReadTyped(r) /\ r.then # "badge" /\ ~r.badge
         /\ \E q \in R : r.then = q.then /\ r.who = q.who /\ r.asset = q.asset
                         /\ r = [q EXCEPT !.badge = FALSE]
<1>1. PICK q \in R : q.then # "badge" /\ r = [q EXCEPT !.badge = FALSE]
  BY DEF BadgesDropped
<1>2. ReadTyped(q)
  OBVIOUS
<1>3. /\ DOMAIN r = ReadFields /\ r.then = q.then /\ ~r.badge
      /\ r.who = q.who /\ r.asset = q.asset
  BY <1>1, <1>2 DEF ReadTyped, ReadFields
<1> QED BY <1>1, <1>2, <1>3 DEF ReadTyped

LEMMA WantedFields ==
  ASSUME NEW then, NEW w, NEW a, NEW d
  PROVE  LET r == Wanted(then, w, a, d)
         IN DOMAIN r = ReadFields /\ r.then = then /\ r.who = w /\ r.asset = a /\ ~r.badge
  BY DEF Wanted, ReadFields

\* One read per asset, of which the asset asked for also answers `then`.
LEMMA DirectoryFields ==
  ASSUME NEW w, NEW a, NEW then, NEW d, NEW r \in DirectoryReads(w, a, then, d)
  PROVE  /\ DOMAIN r = ReadFields /\ r.who = w /\ r.asset \in Assets /\ r.badge
         /\ r.then = IF r.asset = a THEN then ELSE "badge"
         /\ r.fromDir = (r.asset = a /\ d)
<1>1. PICK b \in Assets : r = [then |-> IF b = a THEN then ELSE "badge", who |-> w, asset |-> b,
                               fromDir |-> b = a /\ d, badge |-> TRUE]
  BY DEF DirectoryReads
<1> QED BY <1>1 DEF ReadFields

LEMMA DirectoryOneEach ==
  ASSUME NEW w, NEW a, NEW then, NEW d,
         NEW r \in DirectoryReads(w, a, then, d), NEW s \in DirectoryReads(w, a, then, d),
         r.asset = s.asset
  PROVE  r = s
<1> DEFINE R(b) == [then |-> IF b = a THEN then ELSE "badge", who |-> w, asset |-> b,
                    fromDir |-> b = a /\ d, badge |-> TRUE]
<1>1. PICK b \in Assets : r = R(b)
  BY DEF DirectoryReads
<1>2. PICK c \in Assets : s = R(c)
  BY DEF DirectoryReads
<1>3. r.asset = b /\ s.asset = c
  BY <1>1, <1>2
<1>4. b = c
  BY <1>3
<1> QED BY <1>1, <1>2, <1>4

LEMMA PhaseIsResting ==
  ASSUME NEW s PROVE PhaseFor(s) \in Resting
  BY DEF PhaseFor, Resting

\* A read status, stored or shown as a badge, is typed.
LEMMA StatusFields ==
  ASSUME NEW w, NEW a, NEW v
  PROVE  LET s == Status(w, a, v) IN s.who = w /\ s.asset = a /\ s.val = v
  BY DEF Status

LEMMA StoredFields ==
  ASSUME UiInv, NEW w, NEW a, NEW v \in Values(w, a)
  PROVE  /\ DOMAIN Stored(Status(w, a, v)) = UiFields
         /\ Stored(Status(w, a, v)).status = IF v # "unknown" THEN Status(w, a, v) ELSE ui.status
         /\ StatusTyped(Stored(Status(w, a, v)).status)
         /\ \A f \in UiFields \ {"status"} : Stored(Status(w, a, v))[f] = ui[f]
<1>1. Status(w, a, v).val = v /\ Status(w, a, v).who = w /\ Status(w, a, v).asset = a
  BY DEF Status
<1> DEFINE s == Status(w, a, v)
<1> HIDE DEF s
<1>2. DOMAIN ui = UiFields /\ StatusTyped(ui.status)
  BY DEF UiInv, UiTyped
<1>3. v # "unknown" => StatusTyped(s)
  BY <1>1 DEF StatusTyped, s
<1>4. Stored(s) = IF v # "unknown" THEN [ui EXCEPT !.status = s] ELSE ui
  BY <1>1 DEF Stored, ReadOk, s
<1>5. /\ DOMAIN [ui EXCEPT !.status = s] = UiFields
      /\ [ui EXCEPT !.status = s].status = s
      /\ \A f \in UiFields \ {"status"} : [ui EXCEPT !.status = s][f] = ui[f]
  BY <1>2 DEF UiFields
<1>6. /\ DOMAIN Stored(s) = UiFields
      /\ Stored(s).status = IF v # "unknown" THEN s ELSE ui.status
      /\ StatusTyped(Stored(s).status)
      /\ \A f \in UiFields \ {"status"} : Stored(s)[f] = ui[f]
  BY <1>2, <1>3, <1>4, <1>5
<1> QED BY <1>6 DEF s

\* A badge that is set is the asset's own.
LEMMA BadgeSet ==
  ASSUME BadgesInv, NEW a \in Assets, NEW w, NEW v \in Values(w, a),
         NEW B, B = badges \/ B = [badges EXCEPT ![a] = Status(w, a, v)]
  PROVE  /\ DOMAIN B = Assets
         /\ \A b \in Assets : BadgeTyped(B[b], b)
         /\ \A b \in Assets : b # a => B[b] = badges[b]
         /\ B[a] = badges[a] \/ B[a] = Status(w, a, v)
<1>1. BadgeTyped(Status(w, a, v), a)
  BY DEF BadgeTyped, Status
<1> DEFINE s == Status(w, a, v)
<1> HIDE DEF s
<1>2. BadgeTyped(s, a)
  BY <1>1 DEF s
<1>3. B = badges \/ B = [badges EXCEPT ![a] = s]
  BY DEF s
<1>4. /\ DOMAIN B = Assets
      /\ \A b \in Assets : BadgeTyped(B[b], b)
      /\ \A b \in Assets : b # a => B[b] = badges[b]
      /\ B[a] = badges[a] \/ B[a] = s
  BY <1>2, <1>3 DEF BadgesInv
<1> QED BY <1>4 DEF s

LEMMA FreshBadges ==
  ASSUME NEW B, NEW w, B = AllLoading(w) \/ B = NoBadges
  PROVE  /\ DOMAIN B = Assets
         /\ \A b \in Assets : BadgeTyped(B[b], b) /\ B[b].val \in {"absent", "loading"}
         /\ B = AllLoading(w) => \A b \in Assets : B[b].who = w
         /\ B = NoBadges => \A b \in Assets : B[b].val = "absent"
  BY DEF AllLoading, NoBadges, Status, BadgeTyped

\* A preparation that starts keeps the fee payer typed, and funds a fresh key.
LEMMA PreparedTypes ==
  ASSUME NEW f, FeeTyped(f), NEW w, NEW a, NEW forRun
  PROVE  /\ FeeTyped(Prepared(f, w, a, forRun))
         /\ Prepared(f, w, a, forRun).made >= f.made
         /\ Prepared(f, w, a, forRun).ready = f.ready
         /\ Prepared(f, w, a, forRun).key = f.key
<1> DEFINE g == Prepared(f, w, a, forRun)
           task(pc, k) == [pc |-> pc, key |-> k, who |-> w, asset |-> a, run |-> forRun]
<1>t. \A pc, k : LET t == task(pc, k)
                 IN DOMAIN t = {"pc", "key", "who", "asset", "run"} /\ t.pc = pc /\ t.key = k
  OBVIOUS
<1> DEFINE built == task("build", f.key)
           fund  == task("fund", f.made + 1)
<1>b. DOMAIN built = {"pc", "key", "who", "asset", "run"} /\ built.pc = "build" /\ built.key = f.key
  BY <1>t
<1>u. DOMAIN fund = {"pc", "key", "who", "asset", "run"} /\ fund.pc = "fund" /\ fund.key = f.made + 1
  BY <1>t
<1>g. g = IF ~Testnet THEN f
          ELSE IF f.key # 0 THEN [f EXCEPT !.tasks = @ \cup {built}]
          ELSE IF f.made < MaxKeys
               THEN [f EXCEPT !.made = @ + 1, !.tasks = @ \cup {fund}] ELSE f
  BY DEF Prepared
<1> HIDE DEF g, built, fund
<1>1. CASE g = f
  BY <1>1 DEF FeeTyped, g
<1>2. CASE f.key # 0 /\ g = [f EXCEPT !.tasks = @ \cup {built}]
  <2>1. /\ DOMAIN g = {"key", "made", "ready", "tasks"}
        /\ g.made = f.made /\ g.key = f.key /\ g.ready = f.ready /\ g.tasks = f.tasks \cup {built}
    BY <1>2 DEF FeeTyped
  <2>2. \A t \in g.tasks : TaskTyped(t, g)
    BY <1>2, <2>1, <1>b DEF FeeTyped, TaskTyped
  <2> QED BY <2>1, <2>2, <1>b DEF FeeTyped, g
<1>3. CASE f.key = 0 /\ f.made < MaxKeys /\ g = [f EXCEPT !.made = @ + 1, !.tasks = @ \cup {fund}]
  <2>1. /\ DOMAIN g = {"key", "made", "ready", "tasks"}
        /\ g.made = f.made + 1 /\ g.key = 0 /\ g.ready = f.ready /\ g.tasks = f.tasks \cup {fund}
    BY <1>3 DEF FeeTyped
  <2>2. \A t \in g.tasks : TaskTyped(t, g)
    BY <1>3, <2>1, <1>u DEF FeeTyped, TaskTyped
  <2>3. \A t \in f.tasks : t.key \in 1..f.made
    BY DEF FeeTyped, TaskTyped
  <2>4. FeeTyped(g)
    BY <1>3, <2>1, <2>2, <2>3, <1>u, KeysAreNat DEF FeeTyped
  <2> QED BY <1>3, <2>1, <2>4 DEF FeeTyped, g
<1> QED BY <1>1, <1>2, <1>3, <1>g

\* Which screens offer which button.
LEMMA ScreenButtons ==
  ASSUME ui.phase \in Phases, NEW b \in Screen(ui)
  PROVE  \/ ui.phase = "directory" /\ b = "pick"
         \/ ui.phase = "sep7" /\ b \in Sep7Screen(ui)
         \/ ui.phase \in {"idle", "preview"} /\ b = "connect"
         \/ ui.phase = "ready" /\ b = "activate"
         \/ ui.phase = "authorize" /\ b = "authorize"
         \/ ui.phase = "claim" /\ b = "claim"
         \/ ui.phase = "success" /\ b = "reset"
         \/ ui.phase = "error" /\ b \in ErrorScreen(ui)
<1>1. CASE ui.phase \in Busy \cup {"already"}
  BY <1>1 DEF Screen, Busy, Resting, BusyScreen, AlreadyScreen
<1>2. CASE ui.phase \in Phases \ (Busy \cup {"already"})
  BY <1>2 DEF Screen, Phases, Busy, Resting, DirectoryScreen, IdleScreen, PreviewScreen,
              ReadyScreen, AuthorizeScreen, ClaimScreen, SuccessScreen
<1> QED BY <1>1, <1>2

LEMMA Buttons ==
  ASSUME ui.phase \in Phases, NEW b, Clicks(b)
  PROVE  /\ ~ui.modal
         /\ b = "claim" => ui.phase = "claim"
         /\ b = "authorize" => ui.phase = "authorize" \/ (ui.phase = "error" /\ ui.address # Nobody)
         /\ b = "activate" => ui.phase = "ready" \/ (ui.phase = "error" /\ ui.address # Nobody)
         /\ b = "signSep7" =>
              \/ ui.phase = "sep7" /\ ConnectedHere(ui)
              \/ ui.phase = "error" /\ ui.address # Nobody /\ ui.flow = "sep7" /\ link.kind # "bad"
         /\ b = "pick" => ui.phase = "directory"
         /\ b = "reset" => ui.phase \in {"success", "error"}
         /\ b = "switch" => ConnectedHere(ui)
         /\ ui.phase \in Busy => b = "connect" /\ ~ConnectedHere(ui)
<1>1. ~ui.modal /\ b \in Screen(ui) \cup Header(ui) \cup BackLink(ui)
  BY DEF Clicks
<1>2. CASE b \in Screen(ui)
  <2>1. \/ ui.phase = "directory" /\ b = "pick"
        \/ ui.phase = "sep7" /\ b \in Sep7Screen(ui)
        \/ ui.phase \in {"idle", "preview"} /\ b = "connect"
        \/ ui.phase = "ready" /\ b = "activate"
        \/ ui.phase = "authorize" /\ b = "authorize"
        \/ ui.phase = "claim" /\ b = "claim"
        \/ ui.phase = "success" /\ b = "reset"
        \/ ui.phase = "error" /\ b \in ErrorScreen(ui)
    BY <1>2, ScreenButtons
  <2>2. b \in Sep7Screen(ui) =>
          \/ b \in {"directory", "connect"}
          \/ b \in {"switch", "signSep7"} /\ ConnectedHere(ui)
    BY DEF Sep7Screen
  <2>3. b \in ErrorScreen(ui) =>
          \/ b \in {"reset", "connect"}
          \/ b \in {"signSep7"} /\ link.kind # "bad" /\ ui.address # Nobody /\ ui.flow = "sep7"
          \/ b \in {"activate", "authorize"} /\ ui.address # Nobody
    BY DEF ErrorScreen
  <2> QED BY <1>1, <2>1, <2>2, <2>3 DEF Busy
<1>3. CASE b \in Header(ui)
  BY <1>1, <1>3 DEF Header
<1>4. CASE b \in BackLink(ui)
  BY <1>1, <1>4 DEF BackLink
<1> QED BY <1>1, <1>2, <1>3, <1>4

\* What a handler leaves of the reads, and the one it may ask for.
LEMMA SupersededTypes ==
  ASSUME ReadsInv, NEW x, reads' \subseteq Superseded(reads) \cup {x},
         ReadTyped(x), Shows(x) => x.who = ui'.address
  PROVE  ReadsInv'
<1>1. \A r \in Superseded(reads) : ReadTyped(r) /\ ~Leads(r) /\ ~Shows(r)
  BY SupersededReads DEF ReadsInv, Leads, Shows
<1>2. \A r \in reads' : ReadTyped(r)
  BY <1>1
<1>3. \A r \in reads' : Shows(r) => r.who = ui'.address
  BY <1>1
<1>4. \A r, s \in reads' : Leads(r) /\ Leads(s) => r = s
  BY <1>1
<1> QED BY <1>2, <1>3, <1>4 DEF ReadsInv, ReadTyped, Shows, Leads

LEMMA SupersededOnlyTypes ==
  ASSUME ReadsInv, reads' = Superseded(reads)
  PROVE  ReadsInv'
<1>1. \A r \in reads' : ReadTyped(r) /\ ~Leads(r) /\ ~Shows(r)
  BY SupersededReads DEF ReadsInv, Leads, Shows
<1> QED BY <1>1 DEF ReadsInv, ReadTyped, Shows, Leads

\* The read that follows a failure, in the background.
LEMMA RefreshTypes ==
  ASSUME ReadsInv, ui'.address = ui.address, NEW w \in Addresses, NEW a \in Assets,
         reads' = reads \cup {Wanted("refresh", w, a, FALSE)}
  PROVE  ReadsInv'
<1> DEFINE x == Wanted("refresh", w, a, FALSE)
<1>1. DOMAIN x = ReadFields /\ x.then = "refresh" /\ x.who = w /\ x.asset = a /\ ~x.badge
  BY WantedFields
<1>2. reads' = reads \cup {x}
  OBVIOUS
<1> HIDE DEF x
<1>3. ReadTyped(x) /\ ~Leads(x) /\ ~Shows(x)
  BY <1>1 DEF ReadTyped, Leads, Shows
<1>4. \A r \in reads' : ReadTyped(r)
  BY <1>2, <1>3 DEF ReadsInv
<1>5. \A r \in reads' : Shows(r) => r.who = ui'.address
  BY <1>2, <1>3 DEF ReadsInv
<1>6. \A r, s \in reads' : Leads(r) /\ Leads(s) => r = s
  BY <1>2, <1>3 DEF ReadsInv
<1> QED BY <1>4, <1>5, <1>6 DEF ReadsInv, ReadTyped, Shows, Leads

LEMMA FewerReadsTypes ==
  ASSUME ReadsInv, ui'.address = ui.address, reads' \subseteq reads
  PROVE  ReadsInv'
<1>1. \A r \in reads' : ReadTyped(r)
  BY DEF ReadsInv
<1>2. \A r \in reads' : Shows(r) => r.who = ui'.address
  BY DEF ReadsInv
<1>3. \A r, s \in reads' : Leads(r) /\ Leads(s) => r = s
  BY DEF ReadsInv
<1> QED BY <1>1, <1>2, <1>3 DEF ReadsInv, ReadTyped, Shows, Leads

LEMMA RunMade ==
  ASSUME NEW flow, NEW pc, NEW w, NEW a
  PROVE  LET r == Run(flow, pc, w, a)
         IN /\ DOMAIN r = RunFields /\ r.flow = flow /\ r.pc = pc /\ r.who = w /\ r.asset = a
            /\ r.tx = NoPrep /\ r.key = 0
  BY DEF Run, RunFields

LEMMA RunsSupersededFields ==
  ASSUME RunsInv, NEW r \in RunsSuperseded
  PROVE  /\ RunTyped(r)
         /\ \E q \in runs : r.flow = q.flow /\ r.pc = q.pc /\ r.who = q.who /\ r.asset = q.asset
<1>1. PICK q \in runs : r = [q EXCEPT !.live = FALSE]
  BY DEF RunsSuperseded
<1>2. RunTyped(q)
  BY DEF RunsInv
<1>3. DOMAIN r = RunFields /\ r.flow = q.flow /\ r.pc = q.pc /\ r.who = q.who /\ r.asset = q.asset
  BY <1>1, <1>2 DEF RunTyped, RunFields
<1> QED BY <1>2, <1>3 DEF RunTyped, RunOK

LEMMA SupersededRunsTypes ==
  ASSUME RunsInv, \A r \in runs' : RunTyped(r) \/ r \in RunsSuperseded
  PROVE  RunsInv'
  BY RunsSupersededFields DEF RunsInv, RunTyped, RunOK

\* Where the badges and the fee payer are not touched.
LEMMA SameBadges ==
  ASSUME BadgesInv, badges' = badges PROVE BadgesInv'
  BY DEF BadgesInv, BadgeTyped, Values

LEMMA SameFee ==
  ASSUME FeeTyped(fee), fee' = fee PROVE FeeTyped(fee)'
  BY DEF FeeTyped, TaskTyped

LEMMA SameRuns ==
  ASSUME RunsInv, runs' \subseteq runs PROVE RunsInv'
  BY DEF RunsInv, RunTyped, RunOK

-------------------------------------------------------------------------------
(***************************************************************************)
(* The types: connecting.                                                  *)
(***************************************************************************)

LEMMA ModalTypes ==
  ASSUME TypeInv, OpenModal \/ CloseModal PROVE TypeInv'
<1>1. PICK m \in BOOLEAN : Render([ui EXCEPT !.modal = m])
  BY DEF OpenModal, CloseModal
<1> DEFINE u == [ui EXCEPT !.modal = m]
<1>2. UiTyped(u) /\ LookupIdle(u) /\ u.address = ui.address
  BY DEF TypeInv, UiInv, UiTyped, LookupIdle, UiFields
<1>3. link' = link /\ badges' = badges /\ reads' = reads /\ runs' = runs /\ fee' = fee
  BY DEF OpenModal, CloseModal
<1>4. Render(u)
  BY <1>1
<1> HIDE DEF u
<1>5. UiInv'
  BY <1>2, <1>3, <1>4, RenderedTypes
<1>6. ui'.address = ui.address
  BY <1>2, <1>4, RenderedFields DEF UiTyped
<1> QED BY <1>3, <1>5, <1>6, FewerReadsTypes, SameBadges, SameFee, SameRuns DEF TypeInv

LEMMA ConnectTypes ==
  ASSUME TypeInv, Connect PROVE TypeInv'
<1> DEFINE u == [ui EXCEPT !.modal = FALSE]
           d == FromDirectory(ui)
           x == Wanted("wallet", Nobody, ui.asset, d)
<1>1. UiTyped(u) /\ LookupIdle(u) /\ u.address = ui.address
  BY DEF TypeInv, UiInv, UiTyped, LookupIdle, UiFields
<1>2. Render(u) /\ link' = link /\ badges' = badges /\ fee' = fee /\ runs' = RunsSuperseded
      /\ reads' = Superseded(reads) \cup {x}
  BY DEF Connect
<1> HIDE DEF u, d
<1>3. UiInv'
  BY <1>1, <1>2, RenderedTypes
<1>4. DOMAIN x = ReadFields /\ x.then = "wallet" /\ x.asset = ui.asset /\ ~x.badge
  BY WantedFields
<1> HIDE DEF x
<1>5. ReadTyped(x) /\ ~Shows(x)
  BY <1>4 DEF ReadTyped, Shows, TypeInv, UiInv, UiTyped
<1>6. ReadsInv'
  BY <1>2, <1>5, SupersededTypes DEF TypeInv
<1>7. RunsInv'
  BY <1>2, SupersededRunsTypes DEF TypeInv
<1> QED BY <1>2, <1>3, <1>6, <1>7, SameBadges, SameFee DEF TypeInv

\* With the prompt answered, nothing is left that leads anywhere: badges are
\* dropped, and nothing else led.
LEMMA DroppedReads ==
  ASSUME ReadsInv, NEW p \in reads, Leads(p), NEW r \in BadgesDropped(reads \ {p})
  PROVE  /\ ReadTyped(r) /\ r.then = "refresh" /\ ~Leads(r) /\ ~Shows(r) /\ ~r.badge
         /\ \E q \in reads : q.then = "refresh" /\ r.who = q.who /\ r.asset = q.asset
<1>1. \A q \in reads \ {p} : ReadTyped(q)
  BY DEF ReadsInv
<1>2. /\ ReadTyped(r) /\ r.then # "badge" /\ ~r.badge
      /\ \E q \in reads \ {p} : r.then = q.then /\ r.who = q.who /\ r.asset = q.asset
                      /\ r = [q EXCEPT !.badge = FALSE]
  BY <1>1, UnbadgedReads
<1>3. PICK q \in reads \ {p} : r.then = q.then /\ r.who = q.who /\ r.asset = q.asset
  BY <1>2
<1>4. ~Leads(q)
  BY <1>3 DEF ReadsInv
<1>5. q.then = "refresh" /\ r.then = "refresh"
  BY <1>2, <1>3, <1>4 DEF Leads, Shows, ReadTyped
<1> QED BY <1>2, <1>3, <1>5 DEF Leads, Shows

LEMMA WalletAnswersTypes ==
  ASSUME TypeInv, NEW r \in reads, NEW w \in link.wallets, WalletAnswers(r, w)
  PROVE  TypeInv'
<1> DEFINE u == [ui EXCEPT !.address = w, !.connected = TRUE, !.status = NoStatus]
           D == DirectoryReads(w, r.asset, "connect", r.fromDir)
<1>0. w \in Addresses /\ w # Nobody
  BY LinksTyped, AddressesApart DEF TypeInv
<1>1. DOMAIN u = UiFields /\ u.address = w /\ u.status = NoStatus
      /\ u.asset = ui.asset /\ u.phase = ui.phase /\ u.pending = ui.pending /\ u.flow = ui.flow
      /\ u.lookup = ui.lookup
  BY DEF TypeInv, UiInv, UiTyped, UiFields
<1>2. Render(u) /\ link' = link /\ badges' = AllLoading(w) /\ fee' = fee /\ runs' = runs
      /\ reads' = BadgesDropped(reads \ {r}) \cup D /\ r.then = "wallet"
  BY DEF WalletAnswers
<1> HIDE DEF u
<1>3. UiTyped(u) /\ (u.address = ui.address => LookupIdle(u))
  BY <1>0, <1>1 DEF TypeInv, UiInv, UiTyped, LookupIdle, StatusTyped
<1>4. UiInv' /\ ui'.address = w
  BY <1>1, <1>2, <1>3, RenderedTypes, RenderedFields
<1>5. BadgesInv'
  BY <1>2, FreshBadges DEF BadgesInv, BadgeTyped, Values
<1>6. ReadTyped(r) /\ Leads(r)
  BY <1>2 DEF TypeInv, ReadsInv, Leads
<1>7. \A q \in BadgesDropped(reads \ {r}) : ReadTyped(q) /\ ~Leads(q) /\ ~Shows(q)
  BY <1>6, DroppedReads DEF TypeInv
<1>8. \A q \in D : /\ DOMAIN q = ReadFields /\ q.who = w /\ q.asset \in Assets
                   /\ q.then = IF q.asset = r.asset THEN "connect" ELSE "badge"
  BY DirectoryFields
<1>9. \A p, q \in D : p.asset = q.asset => p = q
  BY DirectoryOneEach
<1> HIDE DEF D
<1>10. \A q \in D : ReadTyped(q) /\ q.who = w /\ (Leads(q) => q.asset = r.asset)
  BY <1>0, <1>8 DEF ReadTyped, Leads, Shows
<1>11. \A q \in reads' : ReadTyped(q)
  BY <1>2, <1>7, <1>10
<1>12. \A q \in reads' : Shows(q) => q.who = ui'.address
  BY <1>2, <1>4, <1>7, <1>10
<1>13. \A p, q \in reads' : Leads(p) /\ Leads(q) => p = q
  BY <1>2, <1>7, <1>9, <1>10
<1>14. ReadsInv'
  BY <1>11, <1>12, <1>13 DEF ReadsInv, ReadTyped, Shows, Leads
<1> QED BY <1>2, <1>4, <1>5, <1>14, SameFee, SameRuns DEF TypeInv

LEMMA WalletRefusesTypes ==
  ASSUME TypeInv, NEW r \in reads, WalletRefuses(r) PROVE TypeInv'
<1> DEFINE u == [ui EXCEPT !.address = Nobody, !.connected = FALSE, !.status = NoStatus,
                           !.failedFromDir = r.fromDir, !.phase = "error"]
<1>1. DOMAIN u = UiFields /\ u.address = Nobody /\ ~u.connected /\ u.status = NoStatus
      /\ u.asset = ui.asset /\ u.phase = "error" /\ u.pending = ui.pending /\ u.flow = ui.flow
      /\ u.lookup = ui.lookup
  BY DEF TypeInv, UiInv, UiTyped, UiFields
<1>2. Render(u) /\ link' = link /\ badges' = NoBadges /\ fee' = fee /\ runs' = runs
      /\ reads' = BadgesDropped(reads \ {r}) /\ r.then = "wallet"
  BY DEF WalletRefuses
<1> HIDE DEF u
<1>3. UiTyped(u) /\ (u.address = ui.address => LookupIdle(u))
  BY <1>1 DEF TypeInv, UiInv, UiTyped, LookupIdle, StatusTyped, Phases, Resting
<1>4. UiInv'
  BY <1>2, <1>3, RenderedTypes
<1>5. BadgesInv'
  BY <1>2, FreshBadges DEF BadgesInv, BadgeTyped, Values
<1>6. Leads(r)
  BY <1>2 DEF Leads
<1>7. \A q \in reads' : ReadTyped(q) /\ ~Leads(q) /\ ~Shows(q)
  BY <1>2, <1>6, DroppedReads DEF TypeInv
<1>8. ReadsInv'
  BY <1>7 DEF ReadsInv, ReadTyped, Shows, Leads
<1> QED BY <1>2, <1>4, <1>5, <1>8, SameFee, SameRuns DEF TypeInv

-------------------------------------------------------------------------------
(***************************************************************************)
(* The types: answers.                                                     *)
(***************************************************************************)

\* The badges after an answer: one of them set, or none.
LEMMA AnsweredBadges ==
  ASSUME NEW r, NEW v, Answer(r, v)
  PROVE  /\ \/ badges' = badges
            \/ badges' = [badges EXCEPT ![r.asset] = Status(r.who, r.asset, v)]
         /\ badges' # badges =>
              \/ r.then = "refresh" /\ badges # NoBadges
              \/ r.badge /\ badges[r.asset].val = "loading"
<1>1. Status(r.who, r.asset, v).asset = r.asset
  BY DEF Status
<1> QED BY <1>1 DEF Answer, Merged, Filled

LEMMA AnsweredFee ==
  ASSUME NEW r, NEW v, Answer(r, v), FeeTyped(fee)
  PROVE  FeeTyped(fee)' /\ fee'.made >= fee.made
<1> DEFINE g == Prepared(fee, r.who, r.asset, FALSE)
<1>1. FeeTyped(g) /\ g.made >= fee.made
  BY PreparedTypes
<1>2. fee' = g \/ fee' = fee
  BY DEF Answer
<1> HIDE DEF g
<1>3. fee.made >= fee.made
  BY DEF FeeTyped
<1>4. FeeTyped(fee') /\ fee'.made >= fee.made
  BY <1>1, <1>2, <1>3
<1> QED BY <1>4 DEF FeeTyped, TaskTyped

\* The state an answer renders differs in the status, and in the screen.
LEMMA AnsweredFields ==
  ASSUME UiInv, NEW r, NEW v, ReadTyped(r), Answer(r, v)
  PROVE  \E u : /\ Render(u) /\ DOMAIN u = UiFields
                /\ u.status = ui.status
                     \/ (r.then # "badge" /\ v # "unknown" /\ u.status = Status(r.who, r.asset, v))
                /\ u.phase = ui.phase \/ (Shows(r) /\ u.phase \in Resting \cup {"directory", "preview"})
                                      \/ (Shows(r) /\ u.phase = "sep7" /\ IsRequest)
                /\ \A f \in UiFields \ {"status", "phase"} : u[f] = ui[f]
                /\ (r.then = "preview" => u.phase \in {"already", "preview"})
<1> DEFINE s == Status(r.who, r.asset, v)
           S == Stored(s)
<1>1. v \in Values(r.who, r.asset) /\ r.then # "wallet"
  BY DEF Answer
<1>2. /\ DOMAIN S = UiFields
      /\ S.status = IF v # "unknown" THEN s ELSE ui.status
      /\ \A f \in UiFields \ {"status"} : S[f] = ui[f]
  BY <1>1, StoredFields
<1>3. ReadOk(s) <=> v # "unknown"
  BY DEF ReadOk, Status
<1>4. PhaseFor(s) \in Resting
  BY PhaseIsResting
<1>5. Render(CASE r.then = "preview" -> [S EXCEPT !.phase = IF s.val = "auth" THEN "already" ELSE "preview"]
                 [] r.then = "connect" -> [S EXCEPT !.phase = IF IsRequest THEN "sep7"
                              ELSE IF r.fromDir THEN "directory"
                              ELSE IF ReadOk(s) THEN PhaseFor(s) ELSE "ready"]
                 [] r.then = "pick"    ->
                      IF ReadOk(s) THEN [S EXCEPT !.phase = PhaseFor(s)] ELSE ui
                 [] r.then = "refresh" -> S
                 [] r.then = "badge"   -> ui)
  BY DEF Answer, Previewed, Connected
<1> HIDE DEF S, s
<1>6. \A p : LET u == [S EXCEPT !.phase = p]
             IN /\ DOMAIN u = UiFields /\ u.phase = p /\ u.status = S.status
                /\ \A f \in UiFields \ {"status", "phase"} : u[f] = ui[f]
  BY <1>2 DEF UiFields
<1>7. DOMAIN ui = UiFields
  BY DEF UiInv, UiTyped
<1>8. CASE r.then = "preview"
  <2> DEFINE p == IF s.val = "auth" THEN "already" ELSE "preview"
             u == [S EXCEPT !.phase = p]
  <2>1. Render(u)
    BY <1>5, <1>8
  <2>2. p \in {"already", "preview"}
    OBVIOUS
  <2> HIDE DEF p
  <2>3. DOMAIN u = UiFields /\ u.phase = p /\ u.status = S.status
        /\ \A f \in UiFields \ {"status", "phase"} : u[f] = ui[f]
    BY <1>6
  <2> HIDE DEF u
  <2> QED BY <1>2, <1>8, <2>1, <2>2, <2>3 DEF Shows, Resting, s
<1>9. CASE r.then = "connect"
  <2> DEFINE p == IF IsRequest THEN "sep7" ELSE IF r.fromDir THEN "directory"
                  ELSE IF ReadOk(s) THEN PhaseFor(s) ELSE "ready"
             u == [S EXCEPT !.phase = p]
  <2>1. Render(u)
    BY <1>5, <1>9
  <2>2. p \in Resting \cup {"directory"} \/ (p = "sep7" /\ IsRequest)
    BY <1>4 DEF Resting
  <2> HIDE DEF p
  <2>3. DOMAIN u = UiFields /\ u.phase = p /\ u.status = S.status
        /\ \A f \in UiFields \ {"status", "phase"} : u[f] = ui[f]
    BY <1>6
  <2> HIDE DEF u
  <2> QED BY <1>2, <1>9, <2>1, <2>2, <2>3 DEF Shows, s
<1>10. CASE r.then = "pick" /\ ReadOk(s)
  <2> DEFINE p == PhaseFor(s)
             u == [S EXCEPT !.phase = p]
  <2>1. Render(u)
    BY <1>5, <1>10
  <2>2. p \in Resting
    BY <1>4
  <2> HIDE DEF p
  <2>3. DOMAIN u = UiFields /\ u.phase = p /\ u.status = S.status
        /\ \A f \in UiFields \ {"status", "phase"} : u[f] = ui[f]
    BY <1>6
  <2> HIDE DEF u
  <2> QED BY <1>2, <1>10, <2>1, <2>2, <2>3 DEF Shows, s
<1>11. CASE r.then = "refresh"
  <2>1. Render(S)
    BY <1>5, <1>11
  <2>2. S.phase = ui.phase
    BY <1>2 DEF UiFields
  <2>3. S.status = ui.status \/ (v # "unknown" /\ S.status = s)
    BY <1>2
  <2> QED BY <1>2, <1>11, <2>1, <2>2, <2>3 DEF s
<1>12. CASE r.then = "badge" \/ (r.then = "pick" /\ ~ReadOk(s))
  <2>1. Render(ui)
    BY <1>5, <1>12
  <2> QED BY <1>7, <1>12, <2>1
<1> QED BY <1>1, <1>8, <1>9, <1>10, <1>11, <1>12 DEF ReadTyped

LEMMA AnswerTypes ==
  ASSUME TypeInv, NEW r \in reads, NEW v, Answer(r, v) PROVE TypeInv'
<1>1. ReadTyped(r) /\ (Shows(r) => r.who = ui.address)
  BY DEF TypeInv, ReadsInv
<1>2. v \in Values(r.who, r.asset) /\ r.then # "wallet" /\ link' = link /\ runs' = runs
      /\ reads' = reads \ {r}
  BY DEF Answer
<1>3. r.who \in Addresses /\ r.who # Nobody /\ r.asset \in Assets
  BY <1>1, <1>2, AddressesApart DEF ReadTyped
<1>4. PICK u : /\ Render(u) /\ DOMAIN u = UiFields
               /\ u.status = ui.status
                    \/ (r.then # "badge" /\ v # "unknown" /\ u.status = Status(r.who, r.asset, v))
               /\ u.phase = ui.phase \/ (Shows(r) /\ u.phase \in Resting \cup {"directory", "preview"})
                                     \/ (Shows(r) /\ u.phase = "sep7" /\ IsRequest)
               /\ \A f \in UiFields \ {"status", "phase"} : u[f] = ui[f]
  BY <1>1, AnsweredFields DEF TypeInv
<1>5. /\ u.address = ui.address /\ u.connected = ui.connected /\ u.asset = ui.asset
      /\ u.pending = ui.pending /\ u.lookup = ui.lookup /\ u.flow = ui.flow
  BY <1>4 DEF UiFields
<1>6. StatusTyped(u.status)
  <2>1. CASE u.status = ui.status
    BY <2>1 DEF TypeInv, UiInv, UiTyped
  <2>2. CASE v # "unknown" /\ u.status = Status(r.who, r.asset, v)
    BY <1>2, <2>2 DEF StatusTyped, Status
  <2> QED BY <1>4, <2>1, <2>2
<1>7. UiTyped(u) /\ LookupIdle(u)
  BY <1>1, <1>3, <1>4, <1>5, <1>6 DEF TypeInv, UiInv, UiTyped, LookupIdle, Phases, Resting
<1>8. UiInv' /\ ui'.address = ui.address
  BY <1>2, <1>4, <1>5, <1>7, RenderedTypes, RenderedFields
<1>9. BadgesInv'
  <2>1. badges' = badges \/ badges' = [badges EXCEPT ![r.asset] = Status(r.who, r.asset, v)]
    BY AnsweredBadges
  <2>2. /\ DOMAIN badges' = Assets
        /\ \A b \in Assets : BadgeTyped(badges'[b], b)
    BY <1>2, <1>3, <2>1, BadgeSet DEF TypeInv
  <2> QED BY <2>2 DEF BadgesInv, BadgeTyped, Values
<1>10. ReadsInv'
  BY <1>2, <1>8, FewerReadsTypes DEF TypeInv
<1>11. FeeTyped(fee)'
  BY AnsweredFee DEF TypeInv
<1> QED BY <1>2, <1>8, <1>9, <1>10, <1>11, SameRuns DEF TypeInv

LEMMA LookupAnswersTypes ==
  ASSUME TypeInv, LookupAnswers PROVE TypeInv'
<1>1. PICK P \in {{}, link.waiting} : Render([ui EXCEPT !.pending = P, !.lookup = FALSE])
  BY DEF LookupAnswers
<1> DEFINE u == [ui EXCEPT !.pending = P, !.lookup = FALSE]
<1>2. /\ ui.lookup /\ link' = link /\ badges' = badges /\ reads' = reads /\ runs' = runs
      /\ fee' = fee
  BY DEF LookupAnswers
<1>3. UiTyped(u) /\ LookupIdle(u) /\ u.address = ui.address
  BY <1>2 DEF TypeInv, UiInv, UiTyped, LookupIdle, UiFields
<1>4. Render(u)
  BY <1>1
<1> HIDE DEF u
<1>5. UiInv' /\ ui'.address = ui.address
  BY <1>2, <1>3, <1>4, RenderedTypes, RenderedFields DEF UiTyped
<1> QED BY <1>2, <1>5, FewerReadsTypes, SameBadges, SameFee, SameRuns DEF TypeInv

LEMMA VerifyAnswersTypes ==
  ASSUME TypeInv, VerifyAnswers PROVE TypeInv'
<1>1. PICK v \in {"verified", "unverified", "forged"} : Render([ui EXCEPT !.verify = v])
  BY DEF VerifyAnswers
<1> DEFINE u == [ui EXCEPT !.verify = v]
<1>2. link' = link /\ badges' = badges /\ reads' = reads /\ runs' = runs /\ fee' = fee
  BY DEF VerifyAnswers
<1>3. UiTyped(u) /\ LookupIdle(u) /\ u.address = ui.address
  BY DEF TypeInv, UiInv, UiTyped, LookupIdle, UiFields
<1>4. Render(u)
  BY <1>1
<1> HIDE DEF u
<1>5. UiInv' /\ ui'.address = ui.address
  BY <1>2, <1>3, <1>4, RenderedTypes, RenderedFields DEF UiTyped
<1> QED BY <1>2, <1>5, FewerReadsTypes, SameBadges, SameFee, SameRuns DEF TypeInv

-------------------------------------------------------------------------------
(***************************************************************************)
(* The types: moving about.                                                *)
(***************************************************************************)

\* A badge with a reliable answer is a status the page may show.
LEMMA BadgeIsStatus ==
  ASSUME BadgesInv, NEW a \in Assets, badges[a].val \notin {"absent", "loading"}, ReadOk(badges[a])
  PROVE  StatusTyped(badges[a])
  BY DEF BadgesInv, BadgeTyped, ReadOk, StatusTyped

\* What picking asset a puts on the screen.
LEMMA PickedFields ==
  ASSUME TypeInv, NEW a \in Assets, Pick(a)
  PROVE  \E u : /\ Render(u) /\ UiTyped(u) /\ LookupIdle(u) /\ u.asset = a
                /\ u.address = ui.address /\ u.connected = ui.connected /\ u.modal = ui.modal
                /\ u.phase \in Resting \cup {"idle"} /\ (~ui.connected => u.phase = "idle")
                /\ u.pending = ui.pending
                /\ \/ u.status = NoStatus
                   \/ u.status = badges[a] /\ badges[a].val # "absent"
<1> DEFINE n == [ui EXCEPT !.asset = a, !.status = NoStatus]
<1>1. DOMAIN ui = UiFields
  BY DEF TypeInv, UiInv, UiTyped
<1>2. \A p : LET u == [n EXCEPT !.phase = p]
             IN /\ DOMAIN u = UiFields /\ u.asset = a /\ u.address = ui.address
                /\ u.connected = ui.connected /\ u.modal = ui.modal /\ u.phase = p
                /\ u.status = NoStatus /\ u.pending = ui.pending /\ u.lookup = ui.lookup
                /\ u.flow = ui.flow
  BY <1>1 DEF UiFields
<1>3. \A s, p : LET u == [n EXCEPT !.status = s, !.phase = p]
             IN /\ DOMAIN u = UiFields /\ u.asset = a /\ u.address = ui.address
                /\ u.connected = ui.connected /\ u.modal = ui.modal /\ u.phase = p
                /\ u.status = s /\ u.pending = ui.pending /\ u.lookup = ui.lookup
                /\ u.flow = ui.flow
  BY <1>1 DEF UiFields
<1>4. CASE ~ConnectedHere(ui)
  <2> DEFINE u == [n EXCEPT !.phase = "idle"]
  <2>1. Render(u)
    BY <1>4 DEF Pick
  <2>2. /\ DOMAIN u = UiFields /\ u.asset = a /\ u.address = ui.address
        /\ u.connected = ui.connected /\ u.modal = ui.modal /\ u.phase = "idle"
        /\ u.status = NoStatus /\ u.pending = ui.pending /\ u.lookup = ui.lookup
        /\ u.flow = ui.flow
    BY <1>2
  <2> HIDE DEF u
  <2>3. UiTyped(u) /\ LookupIdle(u)
    BY <2>2 DEF TypeInv, UiInv, UiTyped, LookupIdle, Phases, Resting, StatusTyped
  <2> QED BY <2>1, <2>2, <2>3
<1>5. CASE ConnectedHere(ui) /\ badges[a].val \notin {"absent", "loading"} /\ ReadOk(badges[a])
  <2> DEFINE p == PhaseFor(badges[a])
             u == [n EXCEPT !.status = badges[a], !.phase = p]
  <2>1. Render(u)
    BY <1>5 DEF Pick
  <2>2. p \in Resting
    BY PhaseIsResting
  <2> HIDE DEF p
  <2>3. /\ DOMAIN u = UiFields /\ u.asset = a /\ u.address = ui.address
        /\ u.connected = ui.connected /\ u.modal = ui.modal /\ u.phase = p
        /\ u.status = badges[a] /\ u.pending = ui.pending /\ u.lookup = ui.lookup
        /\ u.flow = ui.flow
    BY <1>3
  <2> HIDE DEF u
  <2>4. StatusTyped(badges[a])
    BY <1>5, BadgeIsStatus DEF TypeInv
  <2>5. UiTyped(u) /\ LookupIdle(u)
    BY <1>5, <2>2, <2>3, <2>4
    DEF TypeInv, UiInv, UiTyped, LookupIdle, Phases, Resting, ConnectedHere
  <2> QED BY <1>5, <2>1, <2>2, <2>3, <2>5 DEF ConnectedHere
<1>6. CASE ConnectedHere(ui) /\ ~(badges[a].val \notin {"absent", "loading"} /\ ReadOk(badges[a]))
  <2> DEFINE u == [n EXCEPT !.phase = "ready"]
  <2>1. Render(u)
    BY <1>6 DEF Pick
  <2>2. /\ DOMAIN u = UiFields /\ u.asset = a /\ u.address = ui.address
        /\ u.connected = ui.connected /\ u.modal = ui.modal /\ u.phase = "ready"
        /\ u.status = NoStatus /\ u.pending = ui.pending /\ u.lookup = ui.lookup
        /\ u.flow = ui.flow
    BY <1>2
  <2> HIDE DEF u
  <2>3. UiTyped(u) /\ LookupIdle(u)
    BY <1>6, <2>2
    DEF TypeInv, UiInv, UiTyped, LookupIdle, Phases, Resting, StatusTyped, ConnectedHere
  <2> QED BY <1>6, <2>1, <2>2, <2>3 DEF Resting, ConnectedHere
<1> QED BY <1>4, <1>5, <1>6

LEMMA PickTypes ==
  ASSUME TypeInv, NEW a \in Assets, Pick(a) PROVE TypeInv'
<1>1. PICK u : /\ Render(u) /\ UiTyped(u) /\ LookupIdle(u) /\ u.asset = a
               /\ u.address = ui.address
  BY PickedFields
<1>2. link' = link /\ badges' = badges /\ fee' = fee /\ runs' = RunsSuperseded
  BY DEF Pick
<1>3. UiInv' /\ ui'.address = ui.address
  BY <1>1, <1>2, RenderedTypes, RenderedFields DEF UiTyped
<1> DEFINE x == Wanted("pick", ui.address, a, FALSE)
<1>4. \/ reads' = Superseded(reads)
      \/ ConnectedHere(ui) /\ reads' = Superseded(reads) \cup {x}
  BY DEF Pick
<1>5. DOMAIN x = ReadFields /\ x.then = "pick" /\ x.who = ui.address /\ x.asset = a /\ ~x.badge
  BY WantedFields
<1> HIDE DEF x
<1>6. ReadsInv'
  <2>1. CASE reads' = Superseded(reads)
    BY <2>1, SupersededOnlyTypes DEF TypeInv
  <2>2. CASE ConnectedHere(ui) /\ reads' = Superseded(reads) \cup {x}
    <3>1. ReadTyped(x)
      BY <1>5, <2>2 DEF ReadTyped, TypeInv, UiInv, UiTyped, ConnectedHere
    <3> QED BY <1>3, <1>5, <2>2, <3>1, SupersededTypes DEF TypeInv
  <2> QED BY <1>4, <2>1, <2>2
<1>7. RunsInv'
  BY <1>2, SupersededRunsTypes DEF TypeInv
<1> QED BY <1>2, <1>3, <1>6, <1>7, SameBadges, SameFee DEF TypeInv

LEMMA ToDirectoryTypes ==
  ASSUME TypeInv, ToDirectory PROVE TypeInv'
<1> DEFINE u == [ui EXCEPT !.modal = FALSE, !.hash = FALSE, !.lineOnly = FALSE, !.status = NoStatus,
                           !.asset = DefaultAsset, !.phase = "directory"]
<1>1. /\ DOMAIN u = UiFields /\ u.asset = DefaultAsset /\ u.address = ui.address
      /\ u.connected = ui.connected /\ u.phase = "directory" /\ u.status = NoStatus
      /\ u.pending = ui.pending /\ u.lookup = ui.lookup /\ u.flow = ui.flow
  BY DEF TypeInv, UiInv, UiTyped, UiFields
<1>2. Render(u) /\ link' = link /\ badges' = badges /\ fee' = fee /\ runs' = RunsSuperseded
      /\ reads' = Superseded(reads)
  BY DEF ToDirectory
<1> HIDE DEF u
<1>3. UiTyped(u) /\ LookupIdle(u)
  BY <1>1, AssetsLive DEF TypeInv, UiInv, UiTyped, LookupIdle, Phases, Resting, StatusTyped
<1>4. UiInv'
  BY <1>2, <1>3, RenderedTypes
<1>5. ReadsInv' /\ RunsInv'
  BY <1>2, SupersededOnlyTypes, SupersededRunsTypes DEF TypeInv
<1> QED BY <1>2, <1>4, <1>5, SameBadges, SameFee DEF TypeInv

LEMMA ResetTypes ==
  ASSUME TypeInv, Reset PROVE TypeInv'
<1> DEFINE p == IF IsRequest THEN "sep7"
                ELSE IF ui.address = Nobody THEN "directory"
                ELSE IF ui.status = NoStatus THEN "ready"
                ELSE PhaseFor([ui.status EXCEPT !.asset = ui.asset])
           u == [ui EXCEPT !.hash = FALSE, !.lineOnly = FALSE, !.phase = p]
<1>1. Render(u) /\ link' = link /\ badges' = badges /\ reads' = reads /\ runs' = runs /\ fee' = fee
  BY DEF Reset
<1>2. \/ p = "sep7" /\ IsRequest
      \/ p = "directory"
      \/ p \in Resting /\ ui.address # Nobody
  BY PhaseIsResting DEF Resting
<1> HIDE DEF p
<1>3. /\ DOMAIN u = UiFields /\ u.asset = ui.asset /\ u.address = ui.address
      /\ u.connected = ui.connected /\ u.phase = p /\ u.status = ui.status
      /\ u.pending = ui.pending /\ u.lookup = ui.lookup /\ u.flow = ui.flow
  BY DEF TypeInv, UiInv, UiTyped, UiFields
<1> HIDE DEF u
<1>4. UiTyped(u) /\ LookupIdle(u)
  BY <1>2, <1>3 DEF TypeInv, UiInv, UiTyped, LookupIdle, Phases, Resting
<1>5. UiInv' /\ ui'.address = ui.address
  BY <1>1, <1>3, <1>4, RenderedTypes, RenderedFields
<1> QED BY <1>1, <1>5, FewerReadsTypes, SameBadges, SameFee, SameRuns DEF TypeInv

LEMMA SwitchWalletTypes ==
  ASSUME TypeInv, SwitchWallet PROVE TypeInv'
<1> DEFINE p == IF ui.phase = "directory" THEN "directory" ELSE "idle"
           u == [ui EXCEPT !.connected = FALSE, !.address = Nobody, !.status = NoStatus,
                       !.hash = FALSE, !.lineOnly = FALSE, !.modal = TRUE, !.phase = p]
<1>1. Render(u) /\ link' = link /\ badges' = NoBadges
      /\ reads' = BadgesDropped(Superseded(reads)) /\ runs' = RunsSuperseded
      /\ fee' = [fee EXCEPT !.ready = NoPrep]
  BY DEF SwitchWallet
<1>2. p \in {"directory", "idle"}
  OBVIOUS
<1> HIDE DEF p
<1>3. /\ DOMAIN u = UiFields /\ u.asset = ui.asset /\ u.address = Nobody
      /\ ~u.connected /\ u.phase = p /\ u.status = NoStatus
      /\ u.pending = ui.pending /\ u.lookup = ui.lookup /\ u.flow = ui.flow
  BY DEF TypeInv, UiInv, UiTyped, UiFields
<1> HIDE DEF u
<1>4. UiTyped(u) /\ (u.address = ui.address => LookupIdle(u))
  BY <1>2, <1>3 DEF TypeInv, UiInv, UiTyped, LookupIdle, Phases, Resting, StatusTyped
<1>5. UiInv'
  BY <1>1, <1>4, RenderedTypes
<1>6. BadgesInv'
  BY <1>1, FreshBadges DEF BadgesInv, BadgeTyped, Values
<1>7. reads' = {}
  <2>1. \A r \in Superseded(reads) : ReadTyped(r) /\ r.then = "badge"
    BY SupersededReads DEF TypeInv, ReadsInv
  <2> QED BY <1>1, <2>1 DEF BadgesDropped
<1>8. ReadsInv'
  BY <1>7 DEF ReadsInv
<1>9. RunsInv'
  BY <1>1, SupersededRunsTypes DEF TypeInv
<1>10. FeeTyped(fee)'
  <2>1. /\ DOMAIN fee' = {"key", "made", "ready", "tasks"}
        /\ fee'.key = fee.key /\ fee'.made = fee.made /\ fee'.tasks = fee.tasks
    BY <1>1 DEF TypeInv, FeeTyped
  <2> QED BY <2>1 DEF TypeInv, FeeTyped, TaskTyped
<1> QED BY <1>1, <1>5, <1>6, <1>8, <1>9, <1>10 DEF TypeInv

-------------------------------------------------------------------------------
(***************************************************************************)
(* The types: a run begins.                                                *)
(***************************************************************************)

\* What a beginning run puts on the screen.
LEMMA BegunFields ==
  ASSUME UiInv, NEW name, NEW run, NEW phase \in Busy, Begins(name, run, phase),
         name = "sep7" => IsRequest, name \in {"claim", "authorize", "activate", "sep7"}
  PROVE  \E u : /\ Render(u) /\ UiTyped(u) /\ LookupIdle(u)
                /\ u.address = ui.address /\ u.connected = ui.connected /\ u.modal = ui.modal
                /\ u.asset = ui.asset /\ u.status = ui.status /\ u.pending = ui.pending
                /\ u.phase = phase /\ u.flow = FlowOf(name) /\ ~u.lineOnly
<1> DEFINE x == IF name = "sep7" THEN FALSE ELSE ui.returned
           f == FlowOf(name)
           u == [ui EXCEPT !.flow = f, !.lineOnly = FALSE, !.phase = phase, !.returned = x]
<1>1. Render(u)
  BY DEF Begins
<1>2. f = "sep7" => IsRequest
  BY DEF FlowOf
<1> HIDE DEF f, x
<1>3. /\ DOMAIN u = UiFields /\ u.asset = ui.asset /\ u.address = ui.address
      /\ u.connected = ui.connected /\ u.phase = phase /\ u.status = ui.status
      /\ u.pending = ui.pending /\ u.lookup = ui.lookup /\ u.flow = f /\ u.modal = ui.modal
      /\ ~u.lineOnly
  BY DEF UiInv, UiTyped, UiFields
<1> HIDE DEF u
<1>4. UiTyped(u) /\ LookupIdle(u)
  BY <1>2, <1>3 DEF UiInv, UiTyped, LookupIdle, Phases, Resting, Busy, IsRequest
<1> QED BY <1>1, <1>3, <1>4 DEF f

LEMMA BeginsTypes ==
  ASSUME TypeInv, NEW name, NEW run, NEW phase \in Busy, Begins(name, run, phase),
         name = "sep7" => IsRequest, name \in {"claim", "authorize", "activate", "sep7"},
         RunTyped(run), link' = link, badges' = badges, FeeTyped(fee)'
  PROVE  TypeInv'
<1>1. PICK u : Render(u) /\ UiTyped(u) /\ LookupIdle(u)
  BY BegunFields DEF TypeInv
<1>2. UiInv'
  BY <1>1, RenderedTypes
<1>3. reads' = Superseded(reads) /\ runs' = RunsSuperseded \cup {run}
  BY DEF Begins
<1>4. ReadsInv' /\ RunsInv'
  BY <1>3, SupersededOnlyTypes, SupersededRunsTypes DEF TypeInv
<1> QED BY <1>2, <1>4, SameBadges DEF TypeInv

\* Whoever clicks a holder's button is somebody.
LEMMA HolderClicks ==
  ASSUME TypeInv, NEW b \in {"claim", "authorize", "activate", "signSep7"}, Clicks(b)
  PROVE  ui.address \in Addresses
<1>1. ui.address # Nobody
  BY Buttons DEF TypeInv, UiInv, UiTyped, Resting, ConnectedHere
<1> QED BY <1>1 DEF TypeInv, UiInv, UiTyped

LEMMA OwnRunTyped ==
  ASSUME TypeInv, ui.address \in Addresses, NEW pc \in {"prep", "build", "sign"},
         NEW flow \in {"activate", "authorize", "claim"}
  PROVE  RunTyped(Run(flow, pc, ui.address, ui.asset))
<1> DEFINE r == Run(flow, pc, ui.address, ui.asset)
<1>1. DOMAIN r = RunFields /\ r.flow = flow /\ r.pc = pc /\ r.who = ui.address /\ r.asset = ui.asset
  BY RunMade
<1> HIDE DEF r
<1>2. RunTyped(r)
  BY <1>1 DEF RunTyped, RunOK, TypeInv, UiInv, UiTyped
<1> QED BY <1>2 DEF r

LEMMA ClaimTypes ==
  ASSUME TypeInv, Claim PROVE TypeInv'
<1>1. RunTyped(Run("claim", "build", ui.address, ui.asset))
  BY HolderClicks, OwnRunTyped DEF Claim
<1> QED BY <1>1, BeginsTypes, SameFee DEF Claim, Busy, TypeInv

LEMMA AuthorizeTypes ==
  ASSUME TypeInv, Authorize PROVE TypeInv'
<1>1. RunTyped(Run("authorize", "build", ui.address, ui.asset))
  BY HolderClicks, OwnRunTyped DEF Authorize
<1> QED BY <1>1, BeginsTypes, SameFee DEF Authorize, Busy, TypeInv

LEMMA ActivateFastTypes ==
  ASSUME TypeInv, ActivateFast PROVE TypeInv'
<1> DEFINE q == Run("activate", "sign", ui.address, ui.asset)
           r == [q EXCEPT !.tx = fee.ready, !.key = fee.key]
<1>1. RunTyped(q)
  BY HolderClicks, OwnRunTyped DEF ActivateFast
<1> HIDE DEF q
<1>2. DOMAIN r = RunFields /\ r.flow = q.flow /\ r.pc = q.pc /\ r.who = q.who /\ r.asset = q.asset
  BY <1>1 DEF RunTyped, RunFields
<1> DEFINE t == r
<1>3. Begins("activate", t, "signing") /\ fee' = [fee EXCEPT !.ready = NoPrep]
      /\ link' = link /\ badges' = badges
  BY DEF ActivateFast, q
<1>4. RunTyped(t)
  BY <1>1, <1>2 DEF RunTyped, RunOK
<1>5. FeeTyped(fee)'
  <2>1. /\ DOMAIN fee' = {"key", "made", "ready", "tasks"}
        /\ fee'.key = fee.key /\ fee'.made = fee.made /\ fee'.tasks = fee.tasks
    BY <1>3 DEF TypeInv, FeeTyped
  <2> QED BY <2>1 DEF TypeInv, FeeTyped, TaskTyped
<1> HIDE DEF t
<1> QED BY <1>3, <1>4, <1>5, BeginsTypes DEF Busy

LEMMA ActivateSlowTypes ==
  ASSUME TypeInv, ActivateSlow PROVE TypeInv'
<1> DEFINE r == Run("activate", "prep", ui.address, ui.asset)
           g == Prepared(fee, ui.address, ui.asset, TRUE)
<1>1. RunTyped(r)
  BY HolderClicks, OwnRunTyped DEF ActivateSlow
<1>2. FeeTyped(g)
  BY PreparedTypes DEF TypeInv
<1>3. Begins("activate", r, "building") /\ fee' = g /\ link' = link /\ badges' = badges
  BY DEF ActivateSlow
<1> HIDE DEF r, g
<1>4. FeeTyped(fee)'
  BY <1>2, <1>3 DEF FeeTyped, TaskTyped
<1> QED BY <1>1, <1>3, <1>4, BeginsTypes DEF Busy

LEMMA ActivateClassicTypes ==
  ASSUME TypeInv, ActivateClassic PROVE TypeInv'
<1>1. RunTyped(Run("activate", "build", ui.address, ui.asset))
  BY HolderClicks, OwnRunTyped DEF ActivateClassic
<1> QED BY <1>1, BeginsTypes, SameFee DEF ActivateClassic, Busy, TypeInv

\* A request is signed on a request's screen, by somebody.
LEMMA RequestIsSigned ==
  ASSUME TypeInv, Clicks("signSep7")
  PROVE  IsRequest /\ ui.address \in Addresses /\ Request.asset \in Assets \cup {Nothing}
<1>1. IsRequest
  BY Buttons DEF TypeInv, UiInv, UiTyped, IsRequest
<1> QED BY <1>1, HolderClicks, LinksTyped DEF TypeInv, IsRequest, Request

LEMMA SignSep7Types ==
  ASSUME TypeInv, SignSep7 PROVE TypeInv'
<1> DEFINE run == Run("sep7", "sign", ui.address, Request.asset)
           x == Wanted("refresh", ui.address, Request.asset, FALSE)
           u == [ui EXCEPT !.flow = "sep7", !.lineOnly = FALSE, !.returned = FALSE,
                           !.phase = "error"]
<1>1. IsRequest /\ ui.address \in Addresses /\ Request.asset \in Assets \cup {Nothing}
  BY RequestIsSigned DEF SignSep7
<1>2. DOMAIN run = RunFields /\ run.flow = "sep7" /\ run.pc = "sign" /\ run.who = ui.address
      /\ run.asset = Request.asset
  BY RunMade
<1>3. link' = link /\ badges' = badges /\ fee' = fee
  BY DEF SignSep7
<1>4. CASE Sep7Refuses
  <2>1. Render(u) /\ runs' = RunsSuperseded
        /\ reads' = IF run.asset = Nothing THEN Superseded(reads)
                    ELSE Superseded(reads) \cup {Wanted("refresh", run.who, run.asset, FALSE)}
    BY <1>4 DEF SignSep7
  <2>2. DOMAIN u = UiFields /\ u.address = ui.address /\ u.connected = ui.connected
        /\ u.asset = ui.asset /\ u.status = ui.status /\ u.pending = ui.pending
        /\ u.lookup = ui.lookup /\ u.flow = "sep7" /\ u.phase = "error"
    BY DEF TypeInv, UiInv, UiTyped, UiFields
  <2> HIDE DEF u
  <2>3. UiTyped(u) /\ LookupIdle(u)
    BY <1>1, <2>2 DEF TypeInv, UiInv, UiTyped, LookupIdle, Phases, Resting, IsRequest
  <2>4. UiInv' /\ ui'.address = ui.address
    BY <1>3, <2>1, <2>2, <2>3, RenderedTypes, RenderedFields
  <2>5. DOMAIN x = ReadFields /\ x.then = "refresh" /\ x.who = ui.address
        /\ x.asset = Request.asset /\ ~x.badge
    BY WantedFields
  <2>6. reads' = Superseded(reads)
        \/ (Request.asset # Nothing /\ reads' = Superseded(reads) \cup {x})
    BY <1>2, <2>1
  <2> HIDE DEF x
  <2>7. Request.asset # Nothing => ReadTyped(x) /\ ~Shows(x)
    BY <1>1, <2>5 DEF ReadTyped, Shows
  <2>8. ReadsInv'
    BY <2>6, <2>7, SupersededOnlyTypes, SupersededTypes DEF TypeInv
  <2>9. RunsInv'
    BY <2>1, SupersededRunsTypes DEF TypeInv
  <2> QED BY <1>3, <2>4, <2>8, <2>9, SameBadges, SameFee DEF TypeInv
<1>5. CASE ~Sep7Refuses
  <2>1. Begins("sep7", run, "signing")
    BY <1>5 DEF SignSep7
  <2> HIDE DEF run
  <2>2. RunTyped(run)
    BY <1>1, <1>2 DEF RunTyped, RunOK
  <2> QED BY <1>1, <1>3, <2>1, <2>2, BeginsTypes, SameFee DEF Busy, TypeInv
<1> QED BY <1>4, <1>5

-------------------------------------------------------------------------------
(***************************************************************************)
(* The types: a run goes on, fails or ends.                                *)
(***************************************************************************)

\* What a failure puts on the screen, asks for and prepares.
LEMMA FailedFields ==
  ASSUME UiInv, NEW run, NEW f, Failed(run, reads, f), FeeTyped(f)
  PROVE  /\ \E u : /\ Render(u) /\ UiTyped(u) /\ LookupIdle(u)
                   /\ u.address = ui.address /\ u.connected = ui.connected /\ u.modal = ui.modal
                   /\ u.asset = ui.asset /\ u.status = ui.status /\ u.pending = ui.pending
                   /\ u.phase = "error" /\ u.flow = ui.flow
         /\ FeeTyped(fee') /\ fee'.made >= f.made
<1> DEFINE u == [ui EXCEPT !.phase = "error"]
           g == Prepared(f, run.who, run.asset, FALSE)
<1>1. Render(u)
  BY DEF Failed
<1>2. DOMAIN u = UiFields /\ u.address = ui.address /\ u.connected = ui.connected
      /\ u.modal = ui.modal /\ u.asset = ui.asset /\ u.status = ui.status
      /\ u.pending = ui.pending /\ u.lookup = ui.lookup /\ u.flow = ui.flow /\ u.phase = "error"
  BY DEF UiInv, UiTyped, UiFields
<1> HIDE DEF u
<1>3. UiTyped(u) /\ LookupIdle(u)
  BY <1>2 DEF UiInv, UiTyped, LookupIdle, Phases, Resting
<1>4. FeeTyped(g) /\ g.made >= f.made
  BY PreparedTypes
<1>5. fee' = g \/ fee' = f
  BY DEF Failed
<1> HIDE DEF g
<1>6. f.made >= f.made
  BY DEF FeeTyped
<1>7. FeeTyped(fee') /\ fee'.made >= f.made
  BY <1>4, <1>5, <1>6
<1> QED BY <1>1, <1>2, <1>3, <1>7

LEMMA FailedTypes ==
  ASSUME TypeInv, NEW run \in runs, NEW f, FeeTyped(f), Failed(run, reads, f),
         link' = link, badges' = badges
  PROVE  TypeInv'
<1>1. PICK u : Render(u) /\ UiTyped(u) /\ LookupIdle(u) /\ u.address = ui.address
  BY FailedFields DEF TypeInv
<1>2. FeeTyped(fee')
  BY FailedFields DEF TypeInv
<1>3. UiInv' /\ ui'.address = ui.address
  BY <1>1, RenderedTypes, RenderedFields DEF UiTyped
<1>4. RunTyped(run)
  BY DEF TypeInv, RunsInv
<1>5. ReadsInv'
  <2>1. CASE run.asset = Nothing
    BY <1>3, <2>1, FewerReadsTypes DEF Failed, TypeInv
  <2>2. CASE run.asset # Nothing
    <3>1. run.who \in Addresses /\ run.asset \in Assets
      BY <1>4, <2>2 DEF RunTyped, RunOK
    <3>2. reads' = reads \cup {Wanted("refresh", run.who, run.asset, FALSE)}
      BY <2>2 DEF Failed
    <3> QED BY <1>3, <3>1, <3>2, RefreshTypes DEF TypeInv
  <2> QED BY <2>1, <2>2
<1>6. RunsInv'
  BY SameRuns DEF Failed, TypeInv
<1>7. FeeTyped(fee)'
  BY <1>2 DEF FeeTyped, TaskTyped
<1> QED BY <1>3, <1>5, <1>6, <1>7, SameBadges DEF TypeInv

\* What a step of a run puts on the screen.
LEMMA MovedFields ==
  ASSUME UiInv, NEW run, NEW to, NEW phase \in Busy, Moves(run, to, phase)
  PROVE  \E u : /\ Render(u) /\ UiTyped(u) /\ LookupIdle(u)
                /\ u.address = ui.address /\ u.connected = ui.connected /\ u.modal = ui.modal
                /\ u.asset = ui.asset /\ u.status = ui.status /\ u.pending = ui.pending
                /\ u.phase = phase /\ u.flow = ui.flow /\ u.lineOnly = ui.lineOnly
<1> DEFINE u == [ui EXCEPT !.phase = phase]
<1>1. Render(u)
  BY DEF Moves
<1>2. DOMAIN u = UiFields /\ u.address = ui.address /\ u.connected = ui.connected
      /\ u.modal = ui.modal /\ u.asset = ui.asset /\ u.status = ui.status
      /\ u.pending = ui.pending /\ u.lookup = ui.lookup /\ u.flow = ui.flow /\ u.phase = phase
      /\ u.lineOnly = ui.lineOnly
  BY DEF UiInv, UiTyped, UiFields
<1> HIDE DEF u
<1>3. UiTyped(u) /\ LookupIdle(u)
  BY <1>2 DEF UiInv, UiTyped, LookupIdle, Phases, Resting, Busy
<1> QED BY <1>1, <1>2, <1>3

LEMMA MovesTypes ==
  ASSUME TypeInv, NEW run \in runs, NEW to, RunTyped(to), NEW phase \in Busy,
         Moves(run, to, phase), link' = link, badges' = badges, FeeTyped(fee)'
  PROVE  TypeInv'
<1>1. PICK u : Render(u) /\ UiTyped(u) /\ LookupIdle(u) /\ u.address = ui.address
  BY MovedFields DEF TypeInv
<1>2. UiInv' /\ ui'.address = ui.address
  BY <1>1, RenderedTypes, RenderedFields DEF UiTyped
<1>3. reads' = reads /\ runs' = (runs \ {run}) \cup {to}
  BY DEF Moves
<1>4. RunsInv'
  BY <1>3 DEF TypeInv, RunsInv, RunTyped, RunOK
<1> QED BY <1>2, <1>3, <1>4, FewerReadsTypes, SameBadges DEF TypeInv

\* A run that goes on is the run it was.
LEMMA RunGoesOn ==
  ASSUME NEW r, RunTyped(r), NEW pc \in {"sign", "submit"}
  PROVE  LET s == [r EXCEPT !.pc = pc]
         IN /\ RunTyped(s) /\ s.flow = r.flow /\ s.who = r.who /\ s.asset = r.asset /\ s.pc = pc
            /\ s.tx = r.tx
<1> DEFINE s == [r EXCEPT !.pc = pc]
<1>1. /\ DOMAIN s = RunFields /\ s.flow = r.flow /\ s.who = r.who /\ s.asset = r.asset /\ s.pc = pc
      /\ s.tx = r.tx
  BY DEF RunTyped, RunFields
<1> QED BY <1>1 DEF RunTyped, RunOK

LEMMA RunResumes ==
  ASSUME NEW r, RunTyped(r), NEW tx, NEW key
  PROVE  LET s == [r EXCEPT !.pc = "sign", !.tx = tx, !.key = key]
         IN /\ RunTyped(s) /\ s.flow = r.flow /\ s.who = r.who /\ s.asset = r.asset /\ s.pc = "sign"
            /\ s.tx = tx
<1> DEFINE s == [r EXCEPT !.pc = "sign", !.tx = tx, !.key = key]
<1>1. /\ DOMAIN s = RunFields /\ s.flow = r.flow /\ s.who = r.who /\ s.asset = r.asset
      /\ s.pc = "sign" /\ s.tx = tx
  BY DEF RunTyped, RunFields
<1> QED BY <1>1 DEF RunTyped, RunOK

\* The fee payer after a preparation has ended.
LEMMA EndedTask ==
  ASSUME FeeTyped(fee), NEW t \in fee.tasks, NEW p,
         NEW f, f = [fee EXCEPT !.ready = p, !.tasks = @ \ {t}]
  PROVE  FeeTyped(f) /\ f.ready = p /\ f.key = fee.key /\ f.made = fee.made
<1>1. /\ DOMAIN f = {"key", "made", "ready", "tasks"} /\ f.ready = p /\ f.key = fee.key
      /\ f.made = fee.made /\ f.tasks = fee.tasks \ {t}
  BY DEF FeeTyped
<1> QED BY <1>1 DEF FeeTyped, TaskTyped

LEMMA Unready ==
  ASSUME NEW f, FeeTyped(f), NEW g, g = [f EXCEPT !.ready = NoPrep]
  PROVE  FeeTyped(g) /\ g.made = f.made
<1>1. /\ DOMAIN g = {"key", "made", "ready", "tasks"} /\ g.key = f.key
      /\ g.made = f.made /\ g.tasks = f.tasks
  BY DEF FeeTyped
<1> QED BY <1>1 DEF FeeTyped, TaskTyped

LEMMA ResumesTypes ==
  ASSUME TypeInv, NEW t, NEW f, FeeTyped(f), Resumes(t, f), link' = link, badges' = badges
  PROVE  TypeInv'
<1>1. CASE ~t.run
  <2>1. fee' = f /\ ui' = ui /\ reads' = reads /\ runs' = runs
    BY <1>1 DEF Resumes
  <2>2. FeeTyped(fee)'
    BY <2>1 DEF FeeTyped, TaskTyped
  <2>3. UiInv'
    BY <2>1 DEF TypeInv, UiInv, UiTyped, LookupIdle, IsRequest, StatusTyped, Values
  <2> QED BY <2>1, <2>2, <2>3, FewerReadsTypes, SameRuns, SameBadges DEF TypeInv
<1>2. CASE t.run
  <2>1. PICK r \in runs :
          IF f.ready = NoPrep \/ f.key = 0 THEN Failed(r, reads, f)
          ELSE /\ Moves(r, [r EXCEPT !.pc = "sign", !.tx = f.ready, !.key = f.key], "signing")
               /\ fee' = [f EXCEPT !.ready = NoPrep]
    BY <1>2 DEF Resumes
  <2>2. CASE Failed(r, reads, f)
    BY <2>2, FailedTypes
  <2>3. CASE /\ Moves(r, [r EXCEPT !.pc = "sign", !.tx = f.ready, !.key = f.key], "signing")
             /\ fee' = [f EXCEPT !.ready = NoPrep]
    <3> DEFINE s == [r EXCEPT !.pc = "sign", !.tx = f.ready, !.key = f.key]
               g == [f EXCEPT !.ready = NoPrep]
    <3>1. RunTyped(s)
      BY RunResumes DEF TypeInv, RunsInv
    <3>2. FeeTyped(g)
      BY Unready
    <3>3. Moves(r, s, "signing") /\ fee' = g
      BY <2>3
    <3> HIDE DEF s, g
    <3>4. FeeTyped(fee)'
      BY <3>2, <3>3 DEF FeeTyped, TaskTyped
    <3> QED BY <3>1, <3>3, <3>4, MovesTypes DEF Busy
  <2> QED BY <2>1, <2>2, <2>3
<1> QED BY <1>1, <1>2

\* A funded key is the session's, and no other task funds it.
LEMMA FundedFee ==
  ASSUME FeeTyped(fee), NEW t \in fee.tasks, t.pc = "fund",
         NEW f, f = [fee EXCEPT !.key = t.key, !.tasks = (@ \ {t}) \cup {[t EXCEPT !.pc = "build"]}]
  PROVE  FeeTyped(f) /\ f.made = fee.made /\ f.ready = fee.ready
<1> DEFINE b == [t EXCEPT !.pc = "build"]
           T == (fee.tasks \ {t}) \cup {b}
<1>1. DOMAIN t = {"pc", "key", "who", "asset", "run"} /\ t.key \in 1..fee.made
  BY DEF FeeTyped, TaskTyped
<1>2. DOMAIN b = {"pc", "key", "who", "asset", "run"} /\ b.key = t.key /\ b.pc = "build"
  BY <1>1
<1> HIDE DEF b
<1>3. f = [fee EXCEPT !.key = t.key, !.tasks = T]
  BY DEF b
<1>4. \A s \in T : s = b \/ (s \in fee.tasks /\ s # t)
  OBVIOUS
<1> HIDE DEF T
<1>5. /\ DOMAIN f = {"key", "made", "ready", "tasks"} /\ f.key = t.key
      /\ f.made = fee.made /\ f.ready = fee.ready /\ f.tasks = T
  BY <1>3 DEF FeeTyped
<1>6. \A s \in T : TaskTyped(s, f)
  BY <1>1, <1>2, <1>4, <1>5 DEF FeeTyped, TaskTyped
<1>7. \A s \in T : s.pc = "fund" => s.key # f.key
  BY <1>2, <1>4, <1>5 DEF FeeTyped
<1>8. \A s, q \in T : s.pc = "fund" /\ q.pc = "fund" /\ s.key = q.key => s = q
  BY <1>2, <1>4 DEF FeeTyped
<1>9. f.made \in Nat /\ f.made <= MaxKeys /\ f.key \in 0..f.made
  BY <1>1, <1>5 DEF FeeTyped
<1> QED BY <1>5, <1>6, <1>7, <1>8, <1>9 DEF FeeTyped

LEMMA FundedTypes ==
  ASSUME TypeInv, NEW t \in fee.tasks, Funded(t) PROVE TypeInv'
<1> DEFINE f == [fee EXCEPT !.key = t.key, !.tasks = (@ \ {t}) \cup {[t EXCEPT !.pc = "build"]}]
<1>1. fee' = f /\ t.pc = "fund"
      /\ link' = link /\ ui' = ui /\ badges' = badges /\ reads' = reads /\ runs' = runs
  BY DEF Funded
<1>2. FeeTyped(f)
  BY <1>1, FundedFee DEF TypeInv
<1> HIDE DEF f
<1>3. FeeTyped(fee)'
  BY <1>1, <1>2 DEF FeeTyped, TaskTyped
<1>4. UiInv'
  BY <1>1 DEF TypeInv, UiInv, UiTyped, LookupIdle, IsRequest, StatusTyped, Values
<1> QED BY <1>1, <1>3, <1>4, FewerReadsTypes, SameRuns, SameBadges DEF TypeInv

LEMMA PreparationEndsTypes ==
  ASSUME TypeInv, NEW t \in fee.tasks, NotFunded(t) \/ Built(t) PROVE TypeInv'
<1>1. PICK p : Resumes(t, [fee EXCEPT !.ready = p, !.tasks = @ \ {t}])
  BY DEF NotFunded, Built
<1> DEFINE f == [fee EXCEPT !.ready = p, !.tasks = @ \ {t}]
<1>2. FeeTyped(f)
  BY EndedTask DEF TypeInv
<1>3. Resumes(t, f)
  BY <1>1
<1>4. link' = link /\ badges' = badges
  BY DEF NotFunded, Built
<1> HIDE DEF f
<1> QED BY <1>2, <1>3, <1>4, ResumesTypes

LEMMA SigningTypes ==
  ASSUME TypeInv, NEW run \in runs, Signing(run), link' = link, badges' = badges
  PROVE  TypeInv'
<1> DEFINE s == [run EXCEPT !.pc = "sign"]
<1>1. RunTyped(s)
  BY RunGoesOn DEF TypeInv, RunsInv
<1>2. Moves(run, s, "signing") /\ fee' = fee
  BY DEF Signing
<1> HIDE DEF s
<1> QED BY <1>1, <1>2, MovesTypes, SameFee DEF Busy, TypeInv

LEMMA BuildRunTypes ==
  ASSUME TypeInv, NEW run \in runs, BuildRun(run) PROVE TypeInv'
<1>1. link' = link /\ badges' = badges
  BY DEF BuildRun
<1>2. Failed(run, reads, fee) \/ Signing(run)
  BY DEF BuildRun
<1> QED BY <1>1, <1>2, FailedTypes, SigningTypes DEF TypeInv

LEMMA SignRunTypes ==
  ASSUME TypeInv, NEW run \in runs, SignRun(run) PROVE TypeInv'
<1> DEFINE s == [run EXCEPT !.pc = "submit"]
<1>1. link' = link /\ badges' = badges
  BY DEF SignRun
<1>2. \/ Failed(run, reads, fee)
      \/ Moves(run, s, "submitting") /\ fee' = fee
  BY DEF SignRun
<1>3. RunTyped(s)
  BY RunGoesOn DEF TypeInv, RunsInv
<1> HIDE DEF s
<1> QED BY <1>1, <1>2, <1>3, FailedTypes, MovesTypes, SameFee DEF Busy, TypeInv

\* A run that is confirmed reads its line next, with what was done in hand.
LEMMA ConfirmedRuns ==
  ASSUME RunsInv, NEW run \in runs, NEW only, NEW did, Confirmed(run, only, did)
  PROVE  /\ RunsInv' /\ reads' = reads /\ fee' = fee
         /\ \E s : /\ runs' = (runs \ {run}) \cup {s} /\ RunTyped(s)
                   /\ s.flow = run.flow /\ s.who = run.who /\ s.asset = run.asset
                   /\ s.pc = "refresh" /\ s.tx = run.tx /\ s.effect = did
<1> DEFINE s == [run EXCEPT !.pc = "refresh", !.live = TRUE, !.lineOnly = only, !.effect = did]
<1>1. runs' = (runs \ {run}) \cup {s} /\ reads' = reads /\ fee' = fee
  BY DEF Confirmed
<1>r. RunTyped(run)
  BY DEF RunsInv
<1>2. /\ DOMAIN s = RunFields /\ s.flow = run.flow /\ s.who = run.who /\ s.asset = run.asset
      /\ s.pc = "refresh" /\ s.tx = run.tx /\ s.effect = did
  BY <1>r DEF RunTyped, RunFields
<1> HIDE DEF s
<1>t. RunTyped(s)
  BY <1>r, <1>2 DEF RunTyped, RunOK
<1>3. RunsInv'
  BY <1>1, <1>t DEF RunsInv, RunTyped, RunOK
<1> QED BY <1>1, <1>2, <1>3, <1>t

\* What an outcome puts on the screen while the run reads: whether the line was
\* only created, or that the request was returned.
LEMMA OutcomeFields ==
  ASSUME UiInv, NEW x, Render([ui EXCEPT !.lineOnly = x])
  PROVE  \E u : /\ Render(u) /\ UiTyped(u) /\ LookupIdle(u)
                /\ u.address = ui.address /\ u.connected = ui.connected /\ u.modal = ui.modal
                /\ u.asset = ui.asset /\ u.status = ui.status /\ u.pending = ui.pending
                /\ u.phase = ui.phase /\ u.flow = ui.flow /\ u.lineOnly = x
<1> DEFINE u == [ui EXCEPT !.lineOnly = x]
<1>1. DOMAIN u = UiFields /\ u.address = ui.address /\ u.connected = ui.connected
      /\ u.modal = ui.modal /\ u.asset = ui.asset /\ u.status = ui.status /\ u.pending = ui.pending
      /\ u.lookup = ui.lookup /\ u.flow = ui.flow /\ u.phase = ui.phase /\ u.lineOnly = x
  BY DEF UiInv, UiTyped, UiFields
<1>2. Render(u)
  OBVIOUS
<1> HIDE DEF u
<1>3. UiTyped(u) /\ LookupIdle(u)
  BY <1>1 DEF UiInv, UiTyped, LookupIdle
<1> QED BY <1>1, <1>2, <1>3

LEMMA ReturnedFields ==
  ASSUME UiInv, Render([ui EXCEPT !.returned = TRUE])
  PROVE  \E u : /\ Render(u) /\ UiTyped(u) /\ LookupIdle(u)
                /\ u.address = ui.address /\ u.connected = ui.connected /\ u.modal = ui.modal
                /\ u.asset = ui.asset /\ u.status = ui.status /\ u.pending = ui.pending
                /\ u.phase = ui.phase /\ u.flow = ui.flow /\ u.lineOnly = ui.lineOnly
<1> DEFINE u == [ui EXCEPT !.returned = TRUE]
<1>1. DOMAIN u = UiFields /\ u.address = ui.address /\ u.connected = ui.connected
      /\ u.modal = ui.modal /\ u.asset = ui.asset /\ u.status = ui.status /\ u.pending = ui.pending
      /\ u.lookup = ui.lookup /\ u.flow = ui.flow /\ u.phase = ui.phase /\ u.lineOnly = ui.lineOnly
  BY DEF UiInv, UiTyped, UiFields
<1>2. Render(u)
  OBVIOUS
<1> HIDE DEF u
<1>3. UiTyped(u) /\ LookupIdle(u)
  BY <1>1 DEF UiInv, UiTyped, LookupIdle
<1> QED BY <1>1, <1>2, <1>3

\* What submitting comes to: a failure; or the run reads its line next, and the
\* screen says of it what the outcome says.
LEMMA Submitted ==
  ASSUME TypeInv, NEW run \in runs, SubmitRun(run)
  PROVE  \/ Failed(run, reads, fee)
         \/ /\ run.flow \in {"activate", "sep7"}
            /\ \E o \in Outcomes : /\ Truthful(o)
                                  /\ Confirmed(run, LineOnly(o, run.asset), Did(run, o))
                                  /\ Render([ui EXCEPT !.lineOnly = LineOnly(o, run.asset)])
         \/ run.flow = "authorize" /\ Confirmed(run, FALSE, "auth") /\ ui' = ui
         \/ /\ run.flow \in {"claim", "sep7"}
            /\ \E d : Confirmed(run, FALSE, d) /\ (ui' = ui \/ Render([ui EXCEPT !.returned = TRUE]))
  BY DEF SubmitRun, Outcome

LEMMA SubmitRunTypes ==
  ASSUME TypeInv, NEW run \in runs, SubmitRun(run) PROVE TypeInv'
<1>0. link' = link /\ badges' = badges
  BY DEF SubmitRun
<1>1. CASE Failed(run, reads, fee)
  BY <1>0, <1>1, FailedTypes DEF TypeInv
<1>2. ASSUME NEW only, NEW d, Confirmed(run, only, d), NEW u, Render(u), UiTyped(u), LookupIdle(u),
             u.address = ui.address
      PROVE  TypeInv'
  <2>1. UiInv' /\ ui'.address = ui.address
    BY <1>0, <1>2, RenderedTypes, RenderedFields DEF UiTyped
  <2>2. RunsInv' /\ reads' = reads /\ fee' = fee
    BY <1>2, ConfirmedRuns DEF TypeInv
  <2> QED BY <1>0, <2>1, <2>2, FewerReadsTypes, SameBadges, SameFee DEF TypeInv
<1>3. ASSUME NEW only, NEW d, Confirmed(run, only, d), ui' = ui
      PROVE  TypeInv'
  <2>1. UiInv'
    BY <1>0, <1>3 DEF TypeInv, UiInv, UiTyped, LookupIdle, IsRequest, StatusTyped, Values
  <2>2. RunsInv' /\ reads' = reads /\ fee' = fee
    BY <1>3, ConfirmedRuns DEF TypeInv
  <2> QED BY <1>0, <1>3, <2>1, <2>2, FewerReadsTypes, SameBadges, SameFee DEF TypeInv
<1>4. ASSUME NEW o \in Outcomes, Confirmed(run, LineOnly(o, run.asset), Did(run, o)),
             Render([ui EXCEPT !.lineOnly = LineOnly(o, run.asset)])
      PROVE  TypeInv'
  <2> DEFINE x == LineOnly(o, run.asset)
             d == Did(run, o)
  <2>1. Confirmed(run, x, d) /\ Render([ui EXCEPT !.lineOnly = x])
    BY <1>4
  <2> HIDE DEF x, d
  <2> QED BY <1>2, <2>1, OutcomeFields DEF TypeInv
<1>5. ASSUME NEW d, Confirmed(run, FALSE, d), Render([ui EXCEPT !.returned = TRUE])
      PROVE  TypeInv'
  <2> DEFINE no == FALSE
  <2>1. Confirmed(run, no, d)
    BY <1>5
  <2> HIDE DEF no
  <2> QED BY <1>2, <1>5, <2>1, ReturnedFields DEF TypeInv
<1>6. ASSUME NEW d, Confirmed(run, FALSE, d), ui' = ui
      PROVE  TypeInv'
  <2> DEFINE no == FALSE
  <2>1. Confirmed(run, no, d)
    BY <1>6
  <2> HIDE DEF no
  <2> QED BY <1>3, <1>6, <2>1
<1> QED BY <1>1, <1>4, <1>5, <1>6, Submitted

\* What the end of a run puts on the screen: success, with what it did, and with
\* the line it read where it kept it.
LEMMA RefreshFields ==
  ASSUME TypeInv, NEW run \in runs, RefreshRun(run)
  PROVE  \E v \in Values(run.who, run.asset) : \E k \in BOOLEAN : \E u :
           /\ Render(u) /\ UiTyped(u) /\ LookupIdle(u)
           /\ u.address = ui.address /\ u.connected = ui.connected /\ u.modal = ui.modal
           /\ u.asset = ui.asset /\ u.flow = ui.flow
           /\ u.phase = "success" /\ u.effect = run.effect
           /\ u.pending = {} \/ u.pending = ui.pending
           /\ run.flow # "authorize" => u.lineOnly = ui.lineOnly
           /\ k => v # "unknown" /\ run.asset # Nothing
           /\ u.status = IF k THEN Status(run.who, run.asset, v) ELSE ui.status
           /\ badges' = IF k THEN Merged(Status(run.who, run.asset, v)) ELSE badges
<1>1. PICK v \in Values(run.who, run.asset) :
       LET s    == Status(run.who, run.asset, v)
           kept == run.live /\ ReadOk(s) /\ run.asset # Nothing
           u    == IF kept THEN Stored(s) ELSE ui
           only == IF run.flow = "authorize" THEN kept /\ v # "auth" ELSE u.lineOnly
       IN /\ badges' = IF kept THEN Merged(s) ELSE badges
          /\ \E h \in (IF ui.returned THEN BOOLEAN ELSE {TRUE}) :
               LET done == [u EXCEPT !.lineOnly = only, !.hash = h, !.phase = "success",
                                     !.effect = run.effect]
               IN Render(IF h THEN LookedUp(done) ELSE done)
  BY DEF RefreshRun
<1> DEFINE s    == Status(run.who, run.asset, v)
           kept == run.live /\ ReadOk(s) /\ run.asset # Nothing
           u    == IF kept THEN Stored(s) ELSE ui
           only == IF run.flow = "authorize" THEN kept /\ v # "auth" ELSE u.lineOnly
           done(h) == [u EXCEPT !.lineOnly = only, !.hash = h, !.phase = "success",
                                !.effect = run.effect]
<1>2. badges' = IF kept THEN Merged(s) ELSE badges
  BY <1>1
<1>3. PICK h : Render(IF h THEN LookedUp(done(h)) ELSE done(h))
  BY <1>1
<1>4. kept => v # "unknown" /\ run.asset # Nothing
  BY DEF ReadOk, Status
<1>5. DOMAIN ui = UiFields /\ StatusTyped(ui.status)
  BY DEF TypeInv, UiInv, UiTyped
<1>6. kept => /\ DOMAIN Stored(s) = UiFields
              /\ Stored(s).status = s /\ StatusTyped(s)
              /\ \A f \in UiFields \ {"status"} : Stored(s)[f] = ui[f]
  BY <1>4, StoredFields DEF TypeInv
<1>7. PICK k \in BOOLEAN : k <=> kept
  OBVIOUS
<1> HIDE DEF kept, s
<1>8. /\ DOMAIN u = UiFields
      /\ u.status = IF k THEN s ELSE ui.status
      /\ StatusTyped(u.status)
      /\ \A f \in UiFields \ {"status"} : u[f] = ui[f]
  BY <1>5, <1>6, <1>7
<1>9. run.flow # "authorize" => only = u.lineOnly
  OBVIOUS
<1> HIDE DEF u, only
<1> DEFINE d == done(h)
           w == IF h THEN LookedUp(d) ELSE d
<1>10. Render(w)
  BY <1>3
<1>11. /\ DOMAIN d = UiFields /\ d.status = u.status /\ d.lineOnly = only
       /\ d.phase = "success" /\ d.effect = run.effect
       /\ \A f \in {"address", "connected", "asset", "modal", "flow", "pending", "lookup"} : d[f] = u[f]
  BY <1>8 DEF UiFields
<1> HIDE DEF d
<1>12. /\ d.address = ui.address /\ d.connected = ui.connected /\ d.modal = ui.modal
       /\ d.asset = ui.asset /\ d.flow = ui.flow /\ d.pending = ui.pending /\ d.lookup = ui.lookup
       /\ u.lineOnly = ui.lineOnly
  BY <1>8, <1>11 DEF UiFields
<1>13. /\ DOMAIN w = UiFields /\ w.status = u.status /\ w.lineOnly = only
       /\ w.phase = "success" /\ w.effect = run.effect
       /\ w.address = ui.address /\ w.connected = ui.connected /\ w.modal = ui.modal
       /\ w.asset = ui.asset /\ w.flow = ui.flow
       /\ \/ w.pending = {} /\ (w.lookup <=> ui.address \in Accounts)
          \/ w.pending = ui.pending /\ w.lookup = ui.lookup
  BY <1>11, <1>12, LookupFields
<1> HIDE DEF w
<1>14. UiTyped(w)
  BY <1>8, <1>13 DEF TypeInv, UiInv, UiTyped, Phases, Resting
<1>15. LookupIdle(w)
  BY <1>13, AddressesApart DEF TypeInv, UiInv, UiTyped, LookupIdle, Addresses
<1>16. w.status = IF k THEN s ELSE ui.status
  BY <1>8, <1>13
<1>17. badges' = IF k THEN Merged(s) ELSE badges
  BY <1>2, <1>7
<1>18. run.flow # "authorize" => w.lineOnly = ui.lineOnly
  BY <1>9, <1>12, <1>13
<1>19. k => v # "unknown" /\ run.asset # Nothing
  BY <1>4, <1>7
<1> QED BY <1>10, <1>13, <1>14, <1>15, <1>16, <1>17, <1>18, <1>19 DEF s

\* The merge of a line that a run has read.
LEMMA MergedBadges ==
  ASSUME BadgesInv, NEW w, NEW a \in Assets, NEW v \in Values(w, a), badges' = Merged(Status(w, a, v))
  PROVE  /\ BadgesInv'
         /\ \A b \in Assets : b # a => badges'[b] = badges[b]
         /\ badges'[a] = badges[a] \/ (badges # NoBadges /\ badges'[a] = Status(w, a, v))
<1>a. Status(w, a, v).asset = a
  BY DEF Status
<1>1. \/ badges' = badges
      \/ badges # NoBadges /\ badges' = [badges EXCEPT ![a] = Status(w, a, v)]
  BY <1>a DEF Merged
<1>2. /\ DOMAIN badges' = Assets
      /\ \A b \in Assets : BadgeTyped(badges'[b], b)
      /\ \A b \in Assets : b # a => badges'[b] = badges[b]
      /\ badges'[a] = badges[a] \/ badges'[a] = Status(w, a, v)
  BY <1>1, BadgeSet
<1>3. BadgesInv'
  BY <1>2 DEF BadgesInv, BadgeTyped, Values
<1> QED BY <1>1, <1>2, <1>3

LEMMA RefreshRunTypes ==
  ASSUME TypeInv, NEW run \in runs, RefreshRun(run) PROVE TypeInv'
<1>1. PICK v \in Values(run.who, run.asset) : \E k \in BOOLEAN : \E u :
           /\ Render(u) /\ UiTyped(u) /\ LookupIdle(u) /\ u.address = ui.address
           /\ k => v # "unknown" /\ run.asset # Nothing
           /\ badges' = IF k THEN Merged(Status(run.who, run.asset, v)) ELSE badges
  BY RefreshFields
<1>2. PICK k \in BOOLEAN : \E u :
           /\ Render(u) /\ UiTyped(u) /\ LookupIdle(u) /\ u.address = ui.address
           /\ k => v # "unknown" /\ run.asset # Nothing
           /\ badges' = IF k THEN Merged(Status(run.who, run.asset, v)) ELSE badges
  BY <1>1
<1>3. PICK u : Render(u) /\ UiTyped(u) /\ LookupIdle(u) /\ u.address = ui.address
  BY <1>2
<1>4. link' = link /\ reads' = reads /\ fee' = fee /\ runs' = runs \ {run}
  BY DEF RefreshRun
<1>5. UiInv' /\ ui'.address = ui.address
  BY <1>3, <1>4, RenderedTypes, RenderedFields DEF UiTyped
<1>6. BadgesInv'
  <2>1. CASE ~k
    BY <1>2, <2>1, SameBadges DEF TypeInv
  <2>2. CASE k
    <3>1. run.asset \in Assets
      BY <1>2, <2>2 DEF TypeInv, RunsInv, RunTyped, RunOK
    <3>2. badges' = Merged(Status(run.who, run.asset, v))
      BY <1>2, <2>2
    <3> QED BY <3>1, <3>2, MergedBadges DEF TypeInv
  <2> QED BY <2>1, <2>2
<1>7. RunsInv' /\ ReadsInv' /\ FeeTyped(fee)'
  BY <1>4, <1>5, FewerReadsTypes, SameFee, SameRuns DEF TypeInv
<1> QED BY <1>4, <1>5, <1>6, <1>7 DEF TypeInv

-------------------------------------------------------------------------------
(***************************************************************************)
(* The types: how the page opens, and every step.                          *)
(***************************************************************************)

LEMMA OpenedFields ==
  ASSUME link \in Links
  PROVE  LET u == Opened(link)
         IN /\ DOMAIN u = UiFields
            /\ u.address = (IF link.kind = "address" THEN link.address ELSE Nobody)
            /\ ~u.connected /\ u.asset \in Assets /\ u.status = NoStatus /\ u.pending = {}
            /\ u.asset = (IF link.kind = "bad" THEN DefaultAsset ELSE AssetOf(link))
            /\ u.phase = (IF link.kind = "bad" THEN "error" ELSE IF link.kind = "sep7" THEN "sep7"
                         ELSE IF link.asset = Nothing THEN "directory" ELSE "idle")
            /\ (u.lookup <=> link.kind = "address" /\ link.address \in Accounts)
            /\ (u.flow = "sep7" => link.kind \in {"sep7", "bad"})
            /\ (u.modal => link.kind = "plain")
<1> DEFINE a == AssetOf(link)
           p == IF link.asset = Nothing THEN "directory" ELSE "idle"
           u == [Blank EXCEPT !.asset = a, !.phase = p]
<1>1. link.kind \in {"plain", "address", "bad", "sep7"} /\ a \in Assets /\ DefaultAsset \in Assets
  BY LinksTyped, AssetsLive DEF AssetOf
<1>2. /\ DOMAIN Blank = UiFields /\ Blank.address = Nobody /\ ~Blank.connected
      /\ Blank.asset = DefaultAsset /\ Blank.status = NoStatus /\ Blank.pending = {}
      /\ ~Blank.lookup /\ Blank.flow = "activate" /\ ~Blank.modal
  BY DEF Blank, UiFields
<1> HIDE DEF a, p
<1>3. /\ DOMAIN u = UiFields /\ u.address = Nobody /\ ~u.connected
      /\ u.asset = a /\ u.status = NoStatus /\ u.pending = {} /\ u.phase = p
      /\ ~u.lookup /\ u.flow = "activate" /\ ~u.modal
  BY <1>2 DEF UiFields
<1>4. Opened(link) =
       CASE link.kind = "plain"   -> [u EXCEPT !.modal = TRUE]
       [] link.kind = "address" -> [u EXCEPT !.address = link.address, !.lookup = link.address \in Accounts]
       [] link.kind = "bad"     -> [Blank EXCEPT !.phase = "error", !.flow = "sep7"]
       [] link.kind = "sep7"    -> [u EXCEPT !.phase = "sep7", !.flow = "sep7", !.verify = link.request.verify]
  BY DEF Opened, a, p
<1> HIDE DEF u
<1>5. CASE link.kind = "plain"
  <2> DEFINE x == [u EXCEPT !.modal = TRUE]
  <2>1. Opened(link) = x
    BY <1>4, <1>5
  <2>2. /\ DOMAIN x = UiFields /\ x.address = Nobody /\ ~x.connected
        /\ x.asset = a /\ x.status = NoStatus /\ x.pending = {} /\ x.phase = p
        /\ ~x.lookup /\ x.flow = "activate"
    BY <1>3 DEF UiFields
  <2> HIDE DEF x
  <2> QED BY <1>1, <1>5, <2>1, <2>2 DEF a, p
<1>6. CASE link.kind = "address"
  <2> DEFINE l == link.address \in Accounts
             x == [u EXCEPT !.address = link.address, !.lookup = l]
  <2>1. Opened(link) = x
    BY <1>4, <1>6
  <2> HIDE DEF l
  <2>2. /\ DOMAIN x = UiFields /\ x.address = link.address /\ ~x.connected
        /\ x.asset = a /\ x.status = NoStatus /\ x.pending = {} /\ x.phase = p
        /\ x.lookup = l /\ x.flow = "activate" /\ ~x.modal
    BY <1>3 DEF UiFields
  <2> HIDE DEF x
  <2> QED BY <1>1, <1>6, <2>1, <2>2 DEF a, p, l
<1>7. CASE link.kind = "bad"
  <2> DEFINE x == [Blank EXCEPT !.phase = "error", !.flow = "sep7"]
  <2>1. Opened(link) = x
    BY <1>4, <1>7
  <2>2. /\ DOMAIN x = UiFields /\ x.address = Nobody /\ ~x.connected
        /\ x.asset = DefaultAsset /\ x.status = NoStatus /\ x.pending = {} /\ x.phase = "error"
        /\ ~x.lookup /\ x.flow = "sep7" /\ ~x.modal
    BY <1>2 DEF UiFields
  <2> HIDE DEF x
  <2> QED BY <1>1, <1>7, <2>1, <2>2
<1>8. CASE link.kind = "sep7"
  <2> DEFINE y == link.request.verify
             x == [u EXCEPT !.phase = "sep7", !.flow = "sep7", !.verify = y]
  <2>1. Opened(link) = x
    BY <1>4, <1>8
  <2> HIDE DEF y
  <2>2. /\ DOMAIN x = UiFields /\ x.address = Nobody /\ ~x.connected
        /\ x.asset = a /\ x.status = NoStatus /\ x.pending = {} /\ x.phase = "sep7"
        /\ ~x.lookup /\ x.flow = "sep7" /\ ~x.modal
    BY <1>3 DEF UiFields
  <2> HIDE DEF x
  <2> QED BY <1>1, <1>8, <2>1, <2>2 DEF a, p
<1> QED BY <1>1, <1>5, <1>6, <1>7, <1>8

LEMMA InitTypes ==
  ASSUME Init PROVE TypeInv
<1>1. link \in Links
  BY DEF Init
<1>2. link.kind = "address" => link.address \in Addresses /\ link.address # Nobody
  BY <1>1, LinksTyped, AddressesApart
<1>3. link.kind \in {"plain", "address", "bad", "sep7"} /\ AssetOf(link) \in Assets
  BY <1>1, LinksTyped, AssetsLive DEF AssetOf
<1>4. UiInv
  BY <1>1, <1>2, <1>3, OpenedFields
  DEF Init, UiInv, UiTyped, LookupIdle, StatusTyped, Phases, Resting, IsRequest
<1>5. BadgesInv
  BY FreshBadges DEF Init, BadgesInv
<1>6. ReadsInv
  <2>1. CASE link.kind # "address"
    BY <2>1 DEF Init, ReadsInv
  <2>2. CASE link.kind = "address"
    <3> DEFINE no == FALSE
               D == DirectoryReads(link.address, Nothing, "badge", no)
               x == Wanted("preview", link.address, AssetOf(link), no)
    <3>1. reads = D \cup {x}
      BY <2>2 DEF Init
    <3>2. DOMAIN x = ReadFields /\ x.then = "preview" /\ x.who = link.address
          /\ x.asset = AssetOf(link) /\ ~x.badge
      BY WantedFields
    <3> HIDE DEF no
    <3>3. \A r \in D : /\ DOMAIN r = ReadFields /\ r.who = link.address /\ r.asset \in Assets
                       /\ r.then = "badge"
      BY DirectoryFields
    <3> HIDE DEF D, x
    <3>4. \A r \in D : ReadTyped(r) /\ ~Shows(r) /\ ~Leads(r)
      BY <1>2, <2>2, <3>3 DEF ReadTyped, Shows, Leads
    <3>5. ReadTyped(x)
      BY <1>2, <1>3, <2>2, <3>2 DEF ReadTyped
    <3>6. ui.address = link.address
      BY <1>1, <2>2, OpenedFields DEF Init
    <3> QED BY <3>1, <3>2, <3>4, <3>5, <3>6 DEF ReadsInv
  <2> QED BY <2>1, <2>2
<1>7. FeeTyped(fee)
  <2>1. fee = [key |-> 0, made |-> 0, ready |-> NoPrep, tasks |-> {}]
    BY DEF Init
  <2> QED BY <2>1, KeysAreNat DEF FeeTyped
<1> QED BY <1>1, <1>4, <1>5, <1>6, <1>7 DEF Init, TypeInv, RunsInv

LEMMA StepTypes ==
  ASSUME TypeInv, [Next]_vars PROVE TypeInv'
<1>1. CASE User
  BY <1>1, ModalTypes, ConnectTypes, PickTypes, ToDirectoryTypes, ResetTypes, SwitchWalletTypes,
     ClaimTypes, AuthorizeTypes, ActivateFastTypes, ActivateSlowTypes, ActivateClassicTypes,
     SignSep7Types DEF User
<1>2. CASE Answers
  BY <1>2, WalletAnswersTypes, WalletRefusesTypes, AnswerTypes, LookupAnswersTypes,
     VerifyAnswersTypes, FundedTypes, PreparationEndsTypes DEF Answers
<1>3. CASE \E run \in runs : RunStep(run)
  BY <1>3, BuildRunTypes, SignRunTypes, SubmitRunTypes, RefreshRunTypes DEF RunStep
<1>4. CASE UNCHANGED vars
  <2>1. UiInv'
    BY <1>4 DEF vars, TypeInv, UiInv, UiTyped, LookupIdle, IsRequest, StatusTyped, Values
  <2> QED BY <1>4, <2>1, FewerReadsTypes, SameBadges, SameFee, SameRuns DEF vars, TypeInv
<1> QED BY <1>1, <1>2, <1>3, <1>4 DEF Next

LEMMA TypesHold == Spec => []TypeInv
<1> QED BY InitTypes, StepTypes, PTL DEF Spec

LEMMA TypesAreOK == TypeInv => ActivationTypeOK
<1> SUFFICES ASSUME TypeInv PROVE ActivationTypeOK
  OBVIOUS
<1>1. ui.pending \subseteq Assets
  BY LinksTyped DEF TypeInv, UiInv, UiTyped
<1> QED BY <1>1
    DEF TypeInv, UiInv, UiTyped, StatusTyped, BadgesInv, BadgeTyped, RunsInv, RunTyped, FeeTyped,
        ActivationTypeOK

\* Types: whatever answers when, and whoever is connected, every part of the
\* page's state is what its handlers take it for.
THEOREM ActivationTypeCorrect == Spec => []ActivationTypeOK
<1> QED BY TypesHold, TypesAreOK, PTL

-------------------------------------------------------------------------------
(***************************************************************************)
(* A fresh badge is not clobbered.                                         *)
(***************************************************************************)

FreshStep ==
  \A a \in Assets :
     badges[a].val \notin {"absent", "loading"} /\ badges'[a] # badges[a] =>
       \/ badges'[a].val \in {"absent", "loading"}
       \/ \E r \in reads \ reads' : r.then = "refresh" /\ r.asset = a
       \/ \E r \in runs \ runs'   : r.pc = "refresh" /\ r.asset = a

\* The steps that touch a badge.
LEMMA BadgesChange ==
  ASSUME Next
  PROVE  \/ badges' = badges
         \/ \E r \in reads : \E w : WalletAnswers(r, w)
         \/ \E r \in reads : WalletRefuses(r)
         \/ \E r \in reads : \E v : Answer(r, v)
         \/ SwitchWallet
         \/ \E run \in runs : RefreshRun(run)
<1>1. CASE User
  BY <1>1 DEF User, OpenModal, CloseModal, Connect, Pick, ToDirectory, Reset, Claim, Authorize,
              ActivateFast, ActivateSlow, ActivateClassic, SignSep7
<1>2. CASE Answers
  BY <1>2 DEF Answers, LookupAnswers, VerifyAnswers, Funded, NotFunded, Built
<1>3. CASE \E run \in runs : RunStep(run)
  BY <1>3 DEF RunStep, BuildRun, SignRun, SubmitRun
<1> QED BY <1>1, <1>2, <1>3 DEF Next

LEMMA FreshBadgesStep ==
  ASSUME TypeInv, [Next]_vars PROVE FreshStep
<1> SUFFICES ASSUME NEW a \in Assets,
                    badges[a].val \notin {"absent", "loading"}, badges'[a] # badges[a]
             PROVE  \/ badges'[a].val \in {"absent", "loading"}
                    \/ \E r \in reads \ reads' : r.then = "refresh" /\ r.asset = a
                    \/ \E r \in runs \ runs'   : r.pc = "refresh" /\ r.asset = a
  BY DEF FreshStep
<1>0. Next
  BY DEF vars
<1>1. ASSUME NEW r \in reads, NEW w, WalletAnswers(r, w)
      PROVE  badges'[a].val \in {"absent", "loading"}
  BY <1>1, FreshBadges DEF WalletAnswers
<1>2. ASSUME NEW r \in reads, WalletRefuses(r)
      PROVE  badges'[a].val \in {"absent", "loading"}
  BY <1>2, FreshBadges DEF WalletRefuses
<1>3. ASSUME SwitchWallet
      PROVE  badges'[a].val \in {"absent", "loading"}
  BY <1>3, FreshBadges DEF SwitchWallet
<1>4. ASSUME NEW r \in reads, NEW v, Answer(r, v)
      PROVE  \E q \in reads \ reads' : q.then = "refresh" /\ q.asset = a
  <2>1. r.asset \in Assets /\ v \in Values(r.who, r.asset) /\ r \in reads \ reads'
    BY <1>4 DEF TypeInv, ReadsInv, ReadTyped, Answer
  <2>2. /\ \/ badges' = badges
           \/ badges' = [badges EXCEPT ![r.asset] = Status(r.who, r.asset, v)]
        /\ badges' # badges =>
             \/ r.then = "refresh" /\ badges # NoBadges
             \/ r.badge /\ badges[r.asset].val = "loading"
    BY <1>4, AnsweredBadges
  <2>3. \A b \in Assets : b # r.asset => badges'[b] = badges[b]
    BY <2>1, <2>2, BadgeSet DEF TypeInv
  <2>4. a = r.asset
    BY <2>3
  <2> QED BY <2>1, <2>2, <2>4
<1>5. ASSUME NEW run \in runs, RefreshRun(run)
      PROVE  \E q \in runs \ runs' : q.pc = "refresh" /\ q.asset = a
  <2>1. run.pc = "refresh" /\ run \in runs \ runs'
    BY <1>5 DEF RefreshRun
  <2>2. PICK v \in Values(run.who, run.asset) : \E k \in BOOLEAN :
           /\ k => v # "unknown" /\ run.asset # Nothing
           /\ badges' = IF k THEN Merged(Status(run.who, run.asset, v)) ELSE badges
    BY <1>5, RefreshFields
  <2>3. run.asset \in Assets /\ badges' = Merged(Status(run.who, run.asset, v))
    BY <2>2 DEF TypeInv, RunsInv, RunTyped, RunOK
  <2>4. a = run.asset
    BY <2>3, MergedBadges DEF TypeInv
  <2> QED BY <2>1, <2>4
<1> QED BY <1>0, <1>1, <1>2, <1>3, <1>4, <1>5, BadgesChange

\* "A fresher write must never be clobbered by a slow connect-time read":
\* whichever reads are late, an answered badge changes only with the wallet, or
\* by a read that followed a transaction.
THEOREM FreshBadgesAreKept == Spec => FreshBadgesStay
<1>1. TypeInv /\ [Next]_vars => [FreshStep]_vars
  BY FreshBadgesStep
<1> QED BY TypesHold, <1>1, PTL DEF Spec, FreshBadgesStay, FreshStep

-------------------------------------------------------------------------------
(***************************************************************************)
(* What the page shows is the shown account's, and one run is at work, as  *)
(* long as nobody signs who is only previewed.                             *)
(***************************************************************************)

AssetAsked(a) == a = ui.asset \/ (IsRequest /\ a = Request.asset)

\* A read whose answer is still wanted is about what is on the screen, and at
\* most one of them is about more than a badge.
ReadsShown ==
  /\ \A r \in reads :
       /\ r.then = "refresh" => r.who = ui.address /\ AssetAsked(r.asset)
       /\ Leads(r) => r.asset = ui.asset
       /\ r.badge => r.who = ui.address
  /\ \A r, s \in reads : r.then # "badge" /\ s.then # "badge" => r = s

\* While a run is at work it is for the screen, which offers nothing else.
RunShown(r) == IF r.flow = "sep7" THEN IsRequest /\ r.asset = Request.asset ELSE r.asset = ui.asset
WorkInv ==
  /\ BusyIsOneRun
  /\ runs # {} => ~ui.modal
  /\ runs # {} => \A r \in reads : r.then = "badge"
  /\ \A r \in runs : RunShown(r)

ShownInv == StatusIsOfTheShown /\ BadgesAreTheWallets /\ ReadsShown /\ WorkInv

\* A connected wallet's run is not disturbed: the busy screen has no buttons.
LEMMA NothingToClick ==
  ASSUME TypeInv, WorkInv, OnlyConnectedSigns, NEW b, Clicks(b) \/ ui.modal
  PROVE  runs = {} /\ ui.phase \notin Busy
<1>1. ui.phase \in Busy <=> runs # {}
  BY DEF WorkInv, BusyIsOneRun
<1>2. runs # {} => ~ui.modal /\ ConnectedHere(ui)
  BY DEF WorkInv, OnlyConnectedSigns, ConnectedHere, TypeInv, UiInv, UiTyped
<1>3. Clicks(b) /\ ui.phase \in Busy => ~ConnectedHere(ui)
  BY Buttons DEF TypeInv, UiInv, UiTyped
<1> QED BY <1>1, <1>2, <1>3

LEMMA NoneSuperseded == ASSUME runs = {} PROVE RunsSuperseded = {}
  BY DEF RunsSuperseded

\* The reads.
LEMMA SupersededShown ==
  ASSUME TypeInv, ReadsShown, reads' = Superseded(reads), ui'.address = ui.address
  PROVE  ReadsShown'
<1>1. \A q \in reads : ReadTyped(q) /\ (q.badge => q.who = ui.address)
  BY DEF TypeInv, ReadsInv, ReadsShown
<1>2. \A r \in reads' : r.then = "badge" /\ r.who = ui'.address
  BY <1>1, SupersededReads
<1> QED BY <1>2 DEF ReadsShown, Leads, Shows, AssetAsked

LEMMA SupersededAndShown ==
  ASSUME TypeInv, ReadsShown, NEW x, reads' = Superseded(reads) \cup {x}, ui'.address = ui.address,
         link' = link, ~x.badge,
         Leads(x) => x.asset = ui'.asset,
         x.then = "refresh" =>
           x.who = ui'.address /\ (x.asset = ui'.asset \/ (IsRequest /\ x.asset = Request.asset))
  PROVE  ReadsShown'
<1>1. \A q \in reads : ReadTyped(q) /\ (q.badge => q.who = ui.address)
  BY DEF TypeInv, ReadsInv, ReadsShown
<1>2. \A r \in Superseded(reads) : r.then = "badge" /\ r.who = ui'.address
  BY <1>1, SupersededReads
<1>3. \A r \in reads' : r.then = "refresh" =>
        r.who = ui'.address /\ (r.asset = ui'.asset \/ (IsRequest /\ r.asset = Request.asset))
  BY <1>2
<1>4. \A r \in reads' : Leads(r) => r.asset = ui'.asset
  BY <1>2 DEF Leads, Shows
<1>5. \A r \in reads' : r.badge => r.who = ui'.address
  BY <1>2
<1>6. \A r, s \in reads' : r.then # "badge" /\ s.then # "badge" => r = s
  BY <1>2
<1> QED BY <1>3, <1>4, <1>5, <1>6 DEF ReadsShown, Leads, Shows, AssetAsked, IsRequest, Request

LEMMA FewerShown ==
  ASSUME ReadsShown, reads' \subseteq reads, ui'.address = ui.address, ui'.asset = ui.asset,
         link' = link
  PROVE  ReadsShown'
  BY DEF ReadsShown, Leads, Shows, AssetAsked, IsRequest, Request

LEMMA RefreshShown ==
  ASSUME ReadsShown, \A r \in reads : r.then = "badge", ui'.address = ui.address, ui'.asset = ui.asset,
         link' = link, NEW a, AssetAsked(a),
         reads' = reads \cup {Wanted("refresh", ui.address, a, FALSE)}
  PROVE  ReadsShown'
<1> DEFINE x == Wanted("refresh", ui.address, a, FALSE)
<1>1. x.then = "refresh" /\ x.who = ui.address /\ x.asset = a /\ ~x.badge
  BY DEF Wanted
<1>2. reads' = reads \cup {x}
  OBVIOUS
<1> HIDE DEF x
<1> QED BY <1>1, <1>2 DEF ReadsShown, Leads, Shows, AssetAsked, IsRequest, Request

\* The status.
LEMMA NoStatusShown == ASSUME ui'.status = NoStatus PROVE StatusIsOfTheShown'
  BY DEF StatusIsOfTheShown

LEMMA SameStatusShown ==
  ASSUME StatusIsOfTheShown, ui'.status = ui.status, ui'.address = ui.address, ui'.asset = ui.asset,
         link' = link
  PROVE  StatusIsOfTheShown'
  BY DEF StatusIsOfTheShown, IsRequest, Request

LEMMA NewStatusShown ==
  ASSUME NEW w, NEW a, NEW v, ui'.status = Status(w, a, v), w = ui'.address, link' = link,
         a = ui'.asset \/ (IsRequest /\ a = Request.asset)
  PROVE  StatusIsOfTheShown'
<1>1. ui'.status.who = w /\ ui'.status.asset = a
  BY DEF Status
<1> QED BY <1>1 DEF StatusIsOfTheShown, IsRequest, Request

\* The badges.
LEMMA SameBadgesShown ==
  ASSUME BadgesAreTheWallets, badges' = badges, ui'.address = ui.address
  PROVE  BadgesAreTheWallets'
  BY DEF BadgesAreTheWallets

LEMMA NewBadgesShown ==
  ASSUME badges' = AllLoading(ui'.address) \/ badges' = NoBadges
  PROVE  BadgesAreTheWallets'
<1>1. \A b \in Assets : badges'[b].val # "absent" => badges'[b].who = ui'.address
  BY FreshBadges
<1> QED BY <1>1 DEF BadgesAreTheWallets

LEMMA OneBadgeShown ==
  ASSUME BadgesInv, BadgesAreTheWallets, NEW a \in Assets, NEW v \in Values(ui.address, a),
         badges' = badges \/ badges' = [badges EXCEPT ![a] = Status(ui.address, a, v)],
         ui'.address = ui.address
  PROVE  BadgesAreTheWallets'
<1>1. /\ \A b \in Assets : b # a => badges'[b] = badges[b]
      /\ badges'[a] = badges[a] \/ badges'[a] = Status(ui.address, a, v)
  BY BadgeSet
<1>2. Status(ui.address, a, v).who = ui.address
  BY DEF Status
<1> QED BY <1>1, <1>2 DEF BadgesAreTheWallets

\* The work.
LEMMA NoWork ==
  ASSUME runs' = {}, ui'.phase \notin Busy PROVE WorkInv'
  BY DEF WorkInv, BusyIsOneRun, RunShown

LEMMA SameWork ==
  ASSUME WorkInv, runs' = runs, ui'.phase \in Busy <=> ui.phase \in Busy, link' = link,
         runs # {} => ui'.address = ui.address /\ ui'.asset = ui.asset,
         runs # {} => ~ui'.modal,
         runs # {} => reads' \subseteq reads
  PROVE  WorkInv'
<1>1. BusyIsOneRun'
  BY DEF WorkInv, BusyIsOneRun
<1>2. runs' # {} => ~ui'.modal
  OBVIOUS
<1>3. runs' # {} => \A r \in reads' : r.then = "badge"
  BY DEF WorkInv
<1>4. \A r \in runs' : RunShown(r)'
  BY DEF WorkInv, RunShown, IsRequest, Request
<1> QED BY <1>1, <1>2, <1>3, <1>4 DEF WorkInv, RunShown

LEMMA OneWork ==
  ASSUME NEW s, runs' = {s}, ui'.phase \in Busy, s.who = ui'.address, ~ui'.modal, link' = link,
         \A r \in reads' : r.then = "badge",
         IF s.flow = "sep7" THEN IsRequest /\ s.asset = Request.asset ELSE s.asset = ui'.asset
  PROVE  WorkInv'
<1>1. BusyIsOneRun'
  BY DEF BusyIsOneRun
<1>2. runs' # {} => ~ui'.modal
  OBVIOUS
<1>3. runs' # {} => \A r \in reads' : r.then = "badge"
  OBVIOUS
<1>4. \A r \in runs' : RunShown(r)'
  BY DEF RunShown, IsRequest, Request
<1> QED BY <1>1, <1>2, <1>3, <1>4 DEF WorkInv, RunShown

\* What of a render the properties speak about.
LEMMA RenderedScreen ==
  ASSUME NEW u, UiTyped(u), Render(u)
  PROVE  /\ ui'.address = u.address /\ ui'.connected = u.connected /\ ui'.asset = u.asset
         /\ ui'.modal = u.modal /\ ui'.status = u.status /\ ui'.lineOnly = u.lineOnly
         /\ ui'.phase \in Busy <=> u.phase \in Busy
         /\ ui'.phase \in Busy => ui'.phase = u.phase
         /\ u.phase \notin Resting => ui'.phase = u.phase
         /\ ui'.phase = u.phase \/ ui'.phase = "claim"
         /\ ui'.phase \in Busy \cup {"success", "error"} => ui'.flow = u.flow
         /\ ui'.phase = "success" => ui'.effect = u.effect /\ u.phase = "success"
<1>1. DOMAIN u = UiFields
  BY DEF UiTyped
<1>2. /\ ui'.address = u.address /\ ui'.connected = u.connected /\ ui'.asset = u.asset
      /\ ui'.modal = u.modal /\ ui'.status = u.status /\ ui'.lineOnly = u.lineOnly
      /\ \/ ui'.phase = u.phase
         \/ u.phase \in Resting /\ ui'.phase = "claim"
      /\ \/ ui'.flow = u.flow
         \/ ui'.phase \notin Busy \cup {"success", "error"}
      /\ ui'.phase = "success" => ui'.effect = u.effect
  BY <1>1, RenderedFields
<1> QED BY <1>2 DEF Busy, Resting

LEMMA ModalShown ==
  ASSUME TypeInv, ShownInv, OnlyConnectedSigns, OpenModal \/ CloseModal PROVE ShownInv'
<1>1. PICK m \in BOOLEAN : Render([ui EXCEPT !.modal = m])
  BY DEF OpenModal, CloseModal
<1> DEFINE u == [ui EXCEPT !.modal = m]
<1>2. UiTyped(u) /\ u.address = ui.address /\ u.asset = ui.asset /\ u.status = ui.status
      /\ u.phase = ui.phase
  BY DEF TypeInv, UiInv, UiTyped, UiFields
<1>3. link' = link /\ badges' = badges /\ reads' = reads /\ runs' = runs
  BY DEF OpenModal, CloseModal
<1>4. Render(u)
  BY <1>1
<1> HIDE DEF u
<1>5. /\ ui'.address = ui.address /\ ui'.asset = ui.asset /\ ui'.status = ui.status
      /\ ui'.phase \in Busy <=> ui.phase \in Busy
  BY <1>2, <1>4, RenderedScreen
<1>6. runs = {} /\ ui.phase \notin Busy
  BY NothingToClick DEF OpenModal, CloseModal, ShownInv
<1> QED BY <1>3, <1>5, <1>6, SameStatusShown, SameBadgesShown, FewerShown, NoWork DEF ShownInv

LEMMA ConnectShown ==
  ASSUME TypeInv, ShownInv, OnlyConnectedSigns, Connect PROVE ShownInv'
<1> DEFINE u == [ui EXCEPT !.modal = FALSE]
           d == FromDirectory(ui)
           x == Wanted("wallet", Nobody, ui.asset, d)
<1>1. UiTyped(u) /\ u.address = ui.address /\ u.asset = ui.asset /\ u.status = ui.status
      /\ u.phase = ui.phase
  BY DEF TypeInv, UiInv, UiTyped, UiFields
<1>2. Render(u) /\ link' = link /\ badges' = badges /\ runs' = RunsSuperseded
      /\ reads' = Superseded(reads) \cup {x} /\ ui.modal
  BY DEF Connect
<1> HIDE DEF u, d
<1>3. /\ ui'.address = ui.address /\ ui'.asset = ui.asset /\ ui'.status = ui.status
      /\ ui'.phase \in Busy <=> ui.phase \in Busy
  BY <1>1, <1>2, RenderedScreen
<1>4. x.then = "wallet" /\ x.asset = ui.asset /\ ~x.badge
  BY WantedFields
<1> HIDE DEF x
<1>5. runs = {} /\ ui.phase \notin Busy
  BY <1>2, NothingToClick DEF ShownInv
<1>6. ReadsShown'
  BY <1>2, <1>3, <1>4, SupersededAndShown DEF ShownInv
<1>7. WorkInv'
  BY <1>2, <1>3, <1>5, NoneSuperseded, NoWork
<1> QED BY <1>2, <1>3, <1>6, <1>7, SameStatusShown, SameBadgesShown DEF ShownInv

LEMMA WalletAnswersShown ==
  ASSUME TypeInv, ShownInv, NEW r \in reads, NEW w \in link.wallets, WalletAnswers(r, w)
  PROVE  ShownInv'
<1> DEFINE u == [ui EXCEPT !.address = w, !.connected = TRUE, !.status = NoStatus]
           D == DirectoryReads(w, r.asset, "connect", r.fromDir)
<1>0. w \in Addresses /\ w # Nobody
  BY LinksTyped, AddressesApart DEF TypeInv
<1>1. DOMAIN u = UiFields /\ u.address = w /\ u.status = NoStatus
      /\ u.asset = ui.asset /\ u.phase = ui.phase /\ u.pending = ui.pending /\ u.flow = ui.flow
  BY DEF TypeInv, UiInv, UiTyped, UiFields
<1>2. Render(u) /\ link' = link /\ badges' = AllLoading(w) /\ runs' = runs
      /\ reads' = BadgesDropped(reads \ {r}) \cup D /\ r.then = "wallet"
  BY DEF WalletAnswers
<1> HIDE DEF u
<1>3. UiTyped(u)
  BY <1>0, <1>1 DEF TypeInv, UiInv, UiTyped, StatusTyped
<1>4. ui'.address = w /\ ui'.asset = ui.asset /\ ui'.status = NoStatus
      /\ (ui'.phase \in Busy <=> ui.phase \in Busy)
  BY <1>1, <1>2, <1>3, RenderedScreen
<1>5. runs = {} /\ ui.phase \notin Busy
  BY <1>2 DEF ShownInv, WorkInv, BusyIsOneRun
<1>6. r.asset = ui.asset
  BY <1>2 DEF ShownInv, ReadsShown, Leads
<1>7. BadgesDropped(reads \ {r}) = {}
  BY <1>2 DEF BadgesDropped, ShownInv, ReadsShown
<1>8. \A q \in D : /\ q.who = w /\ q.asset \in Assets
                   /\ q.then = IF q.asset = r.asset THEN "connect" ELSE "badge"
  BY DirectoryFields
<1>9. \A p, q \in D : p.asset = q.asset => p = q
  BY DirectoryOneEach
<1> HIDE DEF D
<1>10. reads' = D
  BY <1>2, <1>7
<1>11. ReadsShown'
  <2>1. \A q \in reads' : q.then # "refresh" /\ q.who = ui'.address
    BY <1>4, <1>8, <1>10
  <2>2. \A q \in reads' : Leads(q) => q.asset = ui'.asset
    BY <1>4, <1>6, <1>8, <1>10 DEF Leads, Shows
  <2>3. \A p, q \in reads' : p.then # "badge" /\ q.then # "badge" => p = q
    BY <1>8, <1>9, <1>10
  <2> QED BY <2>1, <2>2, <2>3 DEF ReadsShown, Leads, Shows, AssetAsked
<1>12. WorkInv'
  BY <1>2, <1>4, <1>5, NoWork
<1> QED BY <1>2, <1>4, <1>11, <1>12, NoStatusShown, NewBadgesShown DEF ShownInv

LEMMA WalletRefusesShown ==
  ASSUME TypeInv, ShownInv, NEW r \in reads, WalletRefuses(r) PROVE ShownInv'
<1> DEFINE u == [ui EXCEPT !.address = Nobody, !.connected = FALSE, !.status = NoStatus,
                           !.failedFromDir = r.fromDir, !.phase = "error"]
<1>1. DOMAIN u = UiFields /\ u.address = Nobody /\ ~u.connected /\ u.status = NoStatus
      /\ u.asset = ui.asset /\ u.phase = "error" /\ u.pending = ui.pending /\ u.flow = ui.flow
  BY DEF TypeInv, UiInv, UiTyped, UiFields
<1>2. Render(u) /\ link' = link /\ badges' = NoBadges /\ runs' = runs
      /\ reads' = BadgesDropped(reads \ {r}) /\ r.then = "wallet"
  BY DEF WalletRefuses
<1> HIDE DEF u
<1>3. UiTyped(u)
  BY <1>1 DEF TypeInv, UiInv, UiTyped, StatusTyped, Phases, Resting
<1>4. ui'.status = NoStatus /\ ui'.phase = "error"
  BY <1>1, <1>2, <1>3, RenderedScreen DEF Resting
<1>5. runs = {} /\ reads' = {}
  BY <1>2 DEF ShownInv, WorkInv, ReadsShown, BadgesDropped
<1>6. ReadsShown'
  BY <1>5 DEF ReadsShown
<1>7. WorkInv'
  BY <1>2, <1>4, <1>5, NoWork DEF Busy
<1> QED BY <1>2, <1>4, <1>6, <1>7, NoStatusShown, NewBadgesShown DEF ShownInv

LEMMA AnswerShown ==
  ASSUME TypeInv, ShownInv, NEW r \in reads, NEW v, Answer(r, v) PROVE ShownInv'
<1>1. ReadTyped(r) /\ (Shows(r) => r.who = ui.address)
  BY DEF TypeInv, ReadsInv
<1>2. v \in Values(r.who, r.asset) /\ r.then # "wallet" /\ link' = link /\ runs' = runs
      /\ reads' = reads \ {r} /\ r.asset \in Assets
  BY <1>1 DEF Answer, ReadTyped
<1>3. r.then # "badge" => r.who = ui.address /\ AssetAsked(r.asset)
  BY <1>1, <1>2 DEF ShownInv, ReadsShown, AssetAsked, Leads, Shows, ReadTyped
<1>4. r.badge => r.who = ui.address
  BY DEF ShownInv, ReadsShown
<1>5. PICK u : /\ Render(u) /\ DOMAIN u = UiFields
               /\ u.status = ui.status
                    \/ (r.then # "badge" /\ v # "unknown" /\ u.status = Status(r.who, r.asset, v))
               /\ u.phase = ui.phase \/ (Shows(r) /\ u.phase \in Resting \cup {"directory", "preview"})
                                     \/ (Shows(r) /\ u.phase = "sep7" /\ IsRequest)
               /\ \A f \in UiFields \ {"status", "phase"} : u[f] = ui[f]
  BY <1>1, AnsweredFields DEF TypeInv
<1>6. u.address = ui.address /\ u.asset = ui.asset /\ u.modal = ui.modal
  BY <1>5 DEF UiFields
<1>7. /\ ui'.address = ui.address /\ ui'.asset = ui.asset /\ ui'.modal = ui.modal
      /\ ui'.status = u.status
      /\ ui'.phase = u.phase \/ (u.phase \in Resting /\ ui'.phase = "claim")
  BY <1>5, <1>6, RenderedFields
<1>8. Shows(r) => runs = {} /\ ui.phase \notin Busy
  BY DEF ShownInv, WorkInv, BusyIsOneRun, Shows
<1>9. ui'.phase \in Busy <=> ui.phase \in Busy
  BY <1>5, <1>7, <1>8 DEF Busy, Resting
<1>10. StatusIsOfTheShown'
  <2>1. CASE u.status = ui.status
    BY <1>2, <1>7, <2>1, SameStatusShown DEF ShownInv
  <2>2. CASE r.then # "badge" /\ u.status = Status(r.who, r.asset, v)
    BY <1>2, <1>3, <1>7, <2>2, NewStatusShown DEF AssetAsked
  <2> QED BY <1>5, <2>1, <2>2
<1>11. BadgesAreTheWallets'
  <2>1. /\ \/ badges' = badges
           \/ badges' = [badges EXCEPT ![r.asset] = Status(r.who, r.asset, v)]
        /\ badges' # badges => r.then = "refresh" \/ r.badge
    BY AnsweredBadges
  <2>2. badges' = badges \/ r.who = ui.address
    BY <1>3, <1>4, <2>1
  <2>3. CASE badges' = badges
    BY <1>7, <2>3, SameBadgesShown DEF ShownInv
  <2>4. CASE r.who = ui.address
    BY <1>2, <1>7, <2>1, <2>4, OneBadgeShown DEF ShownInv, TypeInv
  <2> QED BY <2>2, <2>3, <2>4
<1>12. ReadsShown'
  BY <1>2, <1>7, FewerShown DEF ShownInv
<1>13. WorkInv'
  <2>1. runs # {} => ~ui.modal
    BY DEF ShownInv, WorkInv
  <2> QED BY <1>2, <1>7, <1>9, <2>1, SameWork DEF ShownInv
<1> QED BY <1>10, <1>11, <1>12, <1>13 DEF ShownInv

\* An answer about something else than the ledger, or none of the screen's doing.
LEMMA ElsewhereShown ==
  ASSUME TypeInv, ShownInv, NEW u, UiTyped(u), Render(u),
         u.address = ui.address, u.asset = ui.asset, u.status = ui.status, u.modal = ui.modal,
         u.phase = ui.phase, link' = link, badges' = badges, reads' = reads, runs' = runs
  PROVE  ShownInv'
<1>1. /\ ui'.address = ui.address /\ ui'.asset = ui.asset /\ ui'.status = ui.status
      /\ ui'.modal = ui.modal /\ (ui'.phase \in Busy <=> ui.phase \in Busy)
  BY RenderedScreen
<1>2. runs # {} => ~ui.modal
  BY DEF ShownInv, WorkInv
<1>3. WorkInv'
  BY <1>1, <1>2, SameWork DEF ShownInv
<1> QED BY <1>1, <1>3, SameStatusShown, SameBadgesShown, FewerShown DEF ShownInv

LEMMA LookupAnswersShown ==
  ASSUME TypeInv, ShownInv, LookupAnswers PROVE ShownInv'
<1>1. PICK P \in {{}, link.waiting} : Render([ui EXCEPT !.pending = P, !.lookup = FALSE])
  BY DEF LookupAnswers
<1> DEFINE u == [ui EXCEPT !.pending = P, !.lookup = FALSE]
<1>2. link' = link /\ badges' = badges /\ reads' = reads /\ runs' = runs
  BY DEF LookupAnswers
<1>3. UiTyped(u) /\ u.address = ui.address /\ u.asset = ui.asset /\ u.status = ui.status
      /\ u.modal = ui.modal /\ u.phase = ui.phase
  BY DEF TypeInv, UiInv, UiTyped, UiFields
<1>4. Render(u)
  BY <1>1
<1> HIDE DEF u
<1> QED BY <1>2, <1>3, <1>4, ElsewhereShown

LEMMA VerifyAnswersShown ==
  ASSUME TypeInv, ShownInv, VerifyAnswers PROVE ShownInv'
<1>1. PICK v \in {"verified", "unverified", "forged"} : Render([ui EXCEPT !.verify = v])
  BY DEF VerifyAnswers
<1> DEFINE u == [ui EXCEPT !.verify = v]
<1>2. link' = link /\ badges' = badges /\ reads' = reads /\ runs' = runs
  BY DEF VerifyAnswers
<1>3. UiTyped(u) /\ u.address = ui.address /\ u.asset = ui.asset /\ u.status = ui.status
      /\ u.modal = ui.modal /\ u.phase = ui.phase
  BY DEF TypeInv, UiInv, UiTyped, UiFields
<1>4. Render(u)
  BY <1>1
<1> HIDE DEF u
<1> QED BY <1>2, <1>3, <1>4, ElsewhereShown

LEMMA PickShown ==
  ASSUME TypeInv, ShownInv, OnlyConnectedSigns, NEW a \in Assets, Pick(a) PROVE ShownInv'
<1>1. PICK u : /\ Render(u) /\ UiTyped(u) /\ u.asset = a
               /\ u.address = ui.address /\ u.phase \in Resting \cup {"idle"}
               /\ \/ u.status = NoStatus
                  \/ u.status = badges[a] /\ badges[a].val # "absent"
  BY PickedFields
<1>2. link' = link /\ badges' = badges /\ runs' = RunsSuperseded
  BY DEF Pick
<1>3. /\ ui'.address = ui.address /\ ui'.asset = a /\ ui'.status = u.status
      /\ ui'.phase \notin Busy
  BY <1>1, RenderedScreen DEF Resting, Busy
<1>4. runs = {}
  BY NothingToClick DEF Pick, ShownInv
<1>5. StatusIsOfTheShown'
  <2>1. badges[a].asset = a /\ (badges[a].val # "absent" => badges[a].who = ui.address)
    BY DEF ShownInv, BadgesAreTheWallets, TypeInv, BadgesInv, BadgeTyped
  <2>2. ui'.status # NoStatus => ui'.status.who = ui'.address /\ ui'.status.asset = ui'.asset
    BY <1>1, <1>3, <2>1
  <2> QED BY <2>2 DEF StatusIsOfTheShown
<1> DEFINE x == Wanted("pick", ui.address, a, FALSE)
<1>6. \/ reads' = Superseded(reads)
      \/ reads' = Superseded(reads) \cup {x}
  BY DEF Pick
<1>7. x.then = "pick" /\ x.asset = a /\ ~x.badge
  BY DEF Wanted
<1> HIDE DEF x
<1>8. ReadsShown'
  BY <1>2, <1>3, <1>6, <1>7, SupersededShown, SupersededAndShown DEF ShownInv
<1>9. WorkInv'
  BY <1>2, <1>3, <1>4, NoneSuperseded, NoWork
<1> QED BY <1>2, <1>3, <1>5, <1>8, <1>9, SameBadgesShown DEF ShownInv

LEMMA ToDirectoryShown ==
  ASSUME TypeInv, ShownInv, OnlyConnectedSigns, ToDirectory PROVE ShownInv'
<1> DEFINE u == [ui EXCEPT !.modal = FALSE, !.hash = FALSE, !.lineOnly = FALSE, !.status = NoStatus,
                           !.asset = DefaultAsset, !.phase = "directory"]
<1>1. /\ DOMAIN u = UiFields /\ u.asset = DefaultAsset /\ u.address = ui.address
      /\ u.connected = ui.connected /\ u.phase = "directory" /\ u.status = NoStatus
      /\ u.pending = ui.pending /\ u.flow = ui.flow
  BY DEF TypeInv, UiInv, UiTyped, UiFields
<1>2. Render(u) /\ link' = link /\ badges' = badges /\ runs' = RunsSuperseded
      /\ reads' = Superseded(reads)
  BY DEF ToDirectory
<1> HIDE DEF u
<1>3. UiTyped(u)
  BY <1>1, AssetsLive DEF TypeInv, UiInv, UiTyped, Phases, Resting, StatusTyped
<1>4. ui'.address = ui.address /\ ui'.status = NoStatus /\ ui'.phase = "directory"
  BY <1>1, <1>2, <1>3, RenderedScreen DEF Resting
<1>5. runs = {}
  BY NothingToClick DEF ToDirectory, ShownInv
<1>6. WorkInv'
  BY <1>2, <1>4, <1>5, NoneSuperseded, NoWork DEF Busy
<1> QED BY <1>2, <1>4, <1>6, SupersededShown, NoStatusShown, SameBadgesShown DEF ShownInv

LEMMA ResetShown ==
  ASSUME TypeInv, ShownInv, OnlyConnectedSigns, Reset PROVE ShownInv'
<1> DEFINE p == IF IsRequest THEN "sep7"
                ELSE IF ui.address = Nobody THEN "directory"
                ELSE IF ui.status = NoStatus THEN "ready"
                ELSE PhaseFor([ui.status EXCEPT !.asset = ui.asset])
           u == [ui EXCEPT !.hash = FALSE, !.lineOnly = FALSE, !.phase = p]
<1>1. Render(u) /\ link' = link /\ badges' = badges /\ reads' = reads /\ runs' = runs
  BY DEF Reset
<1>2. \/ p = "sep7" /\ IsRequest
      \/ p = "directory"
      \/ p \in Resting /\ ui.address # Nobody
  BY PhaseIsResting DEF Resting
<1> HIDE DEF p
<1>3. /\ DOMAIN u = UiFields /\ u.asset = ui.asset /\ u.address = ui.address
      /\ u.connected = ui.connected /\ u.phase = p /\ u.status = ui.status
      /\ u.pending = ui.pending /\ u.flow = ui.flow
  BY DEF TypeInv, UiInv, UiTyped, UiFields
<1> HIDE DEF u
<1>4. UiTyped(u)
  BY <1>2, <1>3 DEF TypeInv, UiInv, UiTyped, Phases, Resting
<1>5. /\ ui'.address = ui.address /\ ui'.asset = ui.asset /\ ui'.status = ui.status
      /\ ui'.phase \notin Busy
  BY <1>1, <1>2, <1>3, <1>4, RenderedScreen DEF Resting, Busy
<1>6. runs = {}
  BY NothingToClick DEF Reset, ShownInv
<1>7. WorkInv'
  BY <1>1, <1>5, <1>6, NoWork
<1> QED BY <1>1, <1>5, <1>7, FewerShown, SameStatusShown, SameBadgesShown DEF ShownInv

LEMMA SwitchWalletShown ==
  ASSUME TypeInv, ShownInv, OnlyConnectedSigns, SwitchWallet PROVE ShownInv'
<1> DEFINE p == IF ui.phase = "directory" THEN "directory" ELSE "idle"
           u == [ui EXCEPT !.connected = FALSE, !.address = Nobody, !.status = NoStatus,
                       !.hash = FALSE, !.lineOnly = FALSE, !.modal = TRUE, !.phase = p]
<1>1. Render(u) /\ link' = link /\ badges' = NoBadges
      /\ reads' = BadgesDropped(Superseded(reads)) /\ runs' = RunsSuperseded
  BY DEF SwitchWallet
<1>2. p \in {"directory", "idle"}
  OBVIOUS
<1> HIDE DEF p
<1>3. /\ DOMAIN u = UiFields /\ u.asset = ui.asset /\ u.address = Nobody
      /\ ~u.connected /\ u.phase = p /\ u.status = NoStatus
      /\ u.pending = ui.pending /\ u.flow = ui.flow
  BY DEF TypeInv, UiInv, UiTyped, UiFields
<1> HIDE DEF u
<1>4. UiTyped(u)
  BY <1>2, <1>3 DEF TypeInv, UiInv, UiTyped, Phases, Resting, StatusTyped
<1>5. ui'.status = NoStatus /\ ui'.phase \notin Busy
  BY <1>1, <1>2, <1>3, <1>4, RenderedScreen DEF Busy
<1>6. runs = {}
  BY NothingToClick DEF SwitchWallet, ShownInv
<1>7. reads' = {}
  <2>1. \A r \in Superseded(reads) : r.then = "badge"
    BY SupersededReads DEF TypeInv, ReadsInv
  <2> QED BY <1>1, <2>1 DEF BadgesDropped
<1>8. ReadsShown'
  BY <1>7 DEF ReadsShown
<1>9. WorkInv'
  BY <1>1, <1>5, <1>6, NoneSuperseded, NoWork
<1> QED BY <1>1, <1>5, <1>8, <1>9, NoStatusShown, NewBadgesShown DEF ShownInv

\* A run that begins is the only one, and for the screen.
LEMMA BeginsShown ==
  ASSUME TypeInv, ShownInv, OnlyConnectedSigns, NEW name, NEW run, NEW phase \in Busy,
         Begins(name, run, phase), NEW b, Clicks(b),
         name = "sep7" => IsRequest, name \in {"claim", "authorize", "activate", "sep7"},
         run.who = ui.address,
         IF run.flow = "sep7" THEN IsRequest /\ run.asset = Request.asset ELSE run.asset = ui.asset,
         link' = link, badges' = badges
  PROVE  ShownInv'
<1>1. PICK u : /\ Render(u) /\ UiTyped(u)
               /\ u.address = ui.address /\ u.modal = ui.modal
               /\ u.asset = ui.asset /\ u.status = ui.status /\ u.phase = phase
  BY BegunFields DEF TypeInv
<1>2. /\ ui'.address = ui.address /\ ui'.asset = ui.asset /\ ui'.status = ui.status
      /\ ui'.modal = ui.modal /\ ui'.phase \in Busy
  BY <1>1, RenderedScreen
<1>3. runs = {} /\ ~ui.modal
  BY NothingToClick DEF ShownInv, Clicks
<1>4. reads' = Superseded(reads) /\ runs' = {run}
  BY <1>3, NoneSuperseded DEF Begins
<1>5. \A r \in reads' : r.then = "badge"
  BY <1>4, SupersededReads DEF TypeInv, ReadsInv
<1>6. WorkInv'
  BY <1>2, <1>3, <1>4, <1>5, OneWork
<1> QED BY <1>2, <1>4, <1>6, SupersededShown, SameStatusShown, SameBadgesShown DEF ShownInv

LEMMA RunBegins ==
  ASSUME TypeInv, ShownInv, OnlyConnectedSigns,
         Claim \/ Authorize \/ ActivateFast \/ ActivateSlow \/ ActivateClassic
  PROVE  ShownInv'
<1>1. \A flow, pc : LET r == Run(flow, pc, ui.address, ui.asset)
                    IN r.who = ui.address /\ r.asset = ui.asset /\ r.flow = flow
  BY RunMade
<1>2. CASE Claim
  BY <1>1, <1>2, BeginsShown DEF Claim, Busy
<1>3. CASE Authorize
  BY <1>1, <1>3, BeginsShown DEF Authorize, Busy
<1>4. CASE ActivateFast
  <2> DEFINE q == Run("activate", "sign", ui.address, ui.asset)
             r == [q EXCEPT !.tx = fee.ready, !.key = fee.key]
  <2>1. q.who = ui.address /\ q.asset = ui.asset /\ q.flow = "activate" /\ DOMAIN q = RunFields
    BY RunMade
  <2>2. Begins("activate", r, "signing") /\ Clicks("activate") /\ link' = link /\ badges' = badges
    BY <1>4 DEF ActivateFast
  <2> HIDE DEF q
  <2>3. r.who = ui.address /\ r.asset = ui.asset /\ r.flow = "activate"
    BY <2>1 DEF RunFields
  <2> HIDE DEF r
  <2> QED BY <2>2, <2>3, BeginsShown DEF Busy
<1>5. CASE ActivateSlow
  BY <1>1, <1>5, BeginsShown DEF ActivateSlow, Busy
<1>6. CASE ActivateClassic
  BY <1>1, <1>6, BeginsShown DEF ActivateClassic, Busy
<1> QED BY <1>2, <1>3, <1>4, <1>5, <1>6

LEMMA SignSep7Shown ==
  ASSUME TypeInv, ShownInv, OnlyConnectedSigns, SignSep7 PROVE ShownInv'
<1> DEFINE run == Run("sep7", "sign", ui.address, Request.asset)
           x == Wanted("refresh", ui.address, Request.asset, FALSE)
           u == [ui EXCEPT !.flow = "sep7", !.lineOnly = FALSE, !.returned = FALSE,
                           !.phase = "error"]
<1>1. IsRequest /\ Clicks("signSep7")
  BY RequestIsSigned DEF SignSep7
<1>2. run.flow = "sep7" /\ run.who = ui.address /\ run.asset = Request.asset
  BY RunMade
<1>3. link' = link /\ badges' = badges
  BY DEF SignSep7
<1>4. CASE Sep7Refuses
  <2>1. Render(u) /\ runs' = RunsSuperseded
        /\ reads' = IF run.asset = Nothing THEN Superseded(reads)
                    ELSE Superseded(reads) \cup {Wanted("refresh", run.who, run.asset, FALSE)}
    BY <1>4 DEF SignSep7
  <2>2. DOMAIN u = UiFields /\ u.address = ui.address /\ u.connected = ui.connected
        /\ u.asset = ui.asset /\ u.status = ui.status /\ u.pending = ui.pending
        /\ u.flow = "sep7" /\ u.phase = "error"
    BY DEF TypeInv, UiInv, UiTyped, UiFields
  <2> HIDE DEF u
  <2>3. UiTyped(u)
    BY <1>1, <2>2 DEF TypeInv, UiInv, UiTyped, Phases, Resting, IsRequest
  <2>4. ui'.address = ui.address /\ ui'.asset = ui.asset /\ ui'.status = ui.status
        /\ ui'.phase = "error"
    BY <2>1, <2>2, <2>3, RenderedScreen DEF Resting
  <2>5. x.then = "refresh" /\ x.who = ui.address /\ x.asset = Request.asset /\ ~x.badge
    BY DEF Wanted
  <2>6. reads' = Superseded(reads) \/ reads' = Superseded(reads) \cup {x}
    BY <1>2, <2>1
  <2> HIDE DEF x
  <2>7. ReadsShown'
    BY <1>1, <1>3, <2>4, <2>5, <2>6, SupersededShown, SupersededAndShown
    DEF ShownInv, Leads, Shows
  <2>8. runs = {}
    BY <1>1, NothingToClick DEF ShownInv
  <2>9. WorkInv'
    BY <2>1, <2>4, <2>8, NoneSuperseded, NoWork DEF Busy
  <2> QED BY <1>3, <2>4, <2>7, <2>9, SameStatusShown, SameBadgesShown DEF ShownInv
<1>5. CASE ~Sep7Refuses
  <2>1. Begins("sep7", run, "signing")
    BY <1>5 DEF SignSep7
  <2> HIDE DEF run
  <2> QED BY <1>1, <1>2, <1>3, <2>1, BeginsShown DEF Busy
<1> QED BY <1>4, <1>5

\* A run at work is the only one, for the account and the asset on the screen or
\* the request's, and nothing is read but badges.
LEMMA AtWork ==
  ASSUME ShownInv, NEW run \in runs
  PROVE  /\ runs = {run} /\ run.who = ui.address /\ RunShown(run) /\ ui.phase \in Busy
         /\ ~ui.modal /\ \A r \in reads : r.then = "badge"
  BY DEF ShownInv, WorkInv, BusyIsOneRun

LEMMA FailedShown ==
  ASSUME TypeInv, ShownInv, NEW run \in runs, NEW f, FeeTyped(f), Failed(run, reads, f),
         link' = link, badges' = badges
  PROVE  ShownInv'
<1>1. PICK u : /\ Render(u) /\ UiTyped(u)
               /\ u.address = ui.address /\ u.asset = ui.asset /\ u.status = ui.status
               /\ u.phase = "error"
  BY FailedFields DEF TypeInv
<1>2. /\ ui'.address = ui.address /\ ui'.asset = ui.asset /\ ui'.status = ui.status
      /\ ui'.phase = "error"
  BY <1>1, RenderedScreen DEF Resting
<1>3. runs = {run} /\ run.who = ui.address /\ RunShown(run) /\ \A r \in reads : r.then = "badge"
  BY AtWork
<1>4. AssetAsked(run.asset)
  BY <1>3 DEF RunShown, AssetAsked
<1>5. \/ reads' = reads
      \/ reads' = reads \cup {Wanted("refresh", ui.address, run.asset, FALSE)}
  BY <1>3 DEF Failed
<1>6. ReadsShown'
  <2>1. CASE reads' = reads
    BY <1>2, <2>1, FewerShown DEF ShownInv
  <2>2. CASE reads' = reads \cup {Wanted("refresh", ui.address, run.asset, FALSE)}
    BY <1>2, <1>3, <1>4, <2>2, RefreshShown DEF ShownInv
  <2> QED BY <1>5, <2>1, <2>2
<1>7. runs' = {}
  BY <1>3 DEF Failed
<1>8. WorkInv'
  BY <1>2, <1>7, NoWork DEF Busy
<1> QED BY <1>2, <1>6, <1>8, SameStatusShown, SameBadgesShown DEF ShownInv

\* A run that goes on, for the same account and asset.
LEMMA WorkGoesOn ==
  ASSUME TypeInv, ShownInv, NEW run \in runs, NEW s, runs' = (runs \ {run}) \cup {s},
         s.flow = run.flow, s.who = run.who, s.asset = run.asset,
         reads' = reads, link' = link, badges' = badges,
         ui'.address = ui.address, ui'.asset = ui.asset, ui'.status = ui.status,
         ui'.modal = ui.modal, ui'.phase \in Busy
  PROVE  ShownInv'
<1>1. /\ runs = {run} /\ run.who = ui.address /\ RunShown(run)
      /\ ~ui.modal /\ \A r \in reads : r.then = "badge"
  BY AtWork
<1>2. runs' = {s}
  BY <1>1
<1>3. IF s.flow = "sep7" THEN IsRequest /\ s.asset = Request.asset ELSE s.asset = ui'.asset
  BY <1>1 DEF RunShown
<1>4. WorkInv'
  BY <1>1, <1>2, <1>3, OneWork
<1> QED BY <1>4, SameStatusShown, SameBadgesShown, FewerShown DEF ShownInv

LEMMA MovesShown ==
  ASSUME TypeInv, ShownInv, NEW run \in runs, NEW s, NEW phase \in Busy, Moves(run, s, phase),
         s.flow = run.flow, s.who = run.who, s.asset = run.asset, link' = link, badges' = badges
  PROVE  ShownInv'
<1>1. PICK u : /\ Render(u) /\ UiTyped(u)
               /\ u.address = ui.address /\ u.asset = ui.asset /\ u.status = ui.status
               /\ u.modal = ui.modal /\ u.phase = phase
  BY MovedFields DEF TypeInv
<1>2. /\ ui'.address = ui.address /\ ui'.asset = ui.asset /\ ui'.status = ui.status
      /\ ui'.modal = ui.modal /\ ui'.phase \in Busy
  BY <1>1, RenderedScreen
<1>3. runs' = (runs \ {run}) \cup {s} /\ reads' = reads
  BY DEF Moves
<1> QED BY <1>2, <1>3, WorkGoesOn

LEMMA ResumesShown ==
  ASSUME TypeInv, ShownInv, NEW t, NEW f, FeeTyped(f), Resumes(t, f), link' = link, badges' = badges
  PROVE  ShownInv'
<1>1. CASE ~t.run
  <2>1. ui' = ui /\ reads' = reads /\ runs' = runs
    BY <1>1 DEF Resumes
  <2>2. runs # {} => ~ui.modal
    BY DEF ShownInv, WorkInv
  <2>3. WorkInv'
    BY <2>1, <2>2, SameWork DEF ShownInv
  <2> QED BY <2>1, <2>3, SameStatusShown, SameBadgesShown, FewerShown DEF ShownInv
<1>2. CASE t.run
  <2>1. PICK r \in runs :
          IF f.ready = NoPrep \/ f.key = 0 THEN Failed(r, reads, f)
          ELSE Moves(r, [r EXCEPT !.pc = "sign", !.tx = f.ready, !.key = f.key], "signing")
    BY <1>2 DEF Resumes
  <2>2. CASE Failed(r, reads, f)
    BY <2>2, FailedShown
  <2>3. CASE Moves(r, [r EXCEPT !.pc = "sign", !.tx = f.ready, !.key = f.key], "signing")
    <3> DEFINE s == [r EXCEPT !.pc = "sign", !.tx = f.ready, !.key = f.key]
    <3>0. RunTyped(r)
      BY DEF TypeInv, RunsInv
    <3>1. s.flow = r.flow /\ s.who = r.who /\ s.asset = r.asset
      BY <3>0 DEF RunTyped, RunFields
    <3>2. Moves(r, s, "signing")
      BY <2>3
    <3> HIDE DEF s
    <3> QED BY <3>1, <3>2, MovesShown DEF Busy
  <2> QED BY <2>1, <2>2, <2>3
<1> QED BY <1>1, <1>2

LEMMA PreparationShown ==
  ASSUME TypeInv, ShownInv, NEW t \in fee.tasks, Funded(t) \/ NotFunded(t) \/ Built(t)
  PROVE  ShownInv'
<1>1. CASE Funded(t)
  <2>1. ui' = ui /\ link' = link /\ badges' = badges /\ reads' = reads /\ runs' = runs
    BY <1>1 DEF Funded
  <2>2. runs # {} => ~ui.modal
    BY DEF ShownInv, WorkInv
  <2>3. WorkInv'
    BY <2>1, <2>2, SameWork DEF ShownInv
  <2> QED BY <2>1, <2>3, SameStatusShown, SameBadgesShown, FewerShown DEF ShownInv
<1>2. CASE NotFunded(t) \/ Built(t)
  <2>1. PICK p : Resumes(t, [fee EXCEPT !.ready = p, !.tasks = @ \ {t}])
    BY <1>2 DEF NotFunded, Built
  <2> DEFINE f == [fee EXCEPT !.ready = p, !.tasks = @ \ {t}]
  <2>2. FeeTyped(f)
    BY EndedTask DEF TypeInv
  <2>3. Resumes(t, f)
    BY <2>1
  <2>4. link' = link /\ badges' = badges
    BY <1>2 DEF NotFunded, Built
  <2> HIDE DEF f
  <2> QED BY <2>2, <2>3, <2>4, ResumesShown
<1> QED BY <1>1, <1>2

LEMMA BuildAndSignShown ==
  ASSUME TypeInv, ShownInv, NEW run \in runs, BuildRun(run) \/ SignRun(run)
  PROVE  ShownInv'
<1>1. link' = link /\ badges' = badges
  BY DEF BuildRun, SignRun
<1> DEFINE a == [run EXCEPT !.pc = "sign"]
           b == [run EXCEPT !.pc = "submit"]
<1>2. \/ Failed(run, reads, fee)
      \/ Moves(run, a, "signing")
      \/ Moves(run, b, "submitting")
  BY DEF BuildRun, SignRun, Signing
<1>3. /\ a.flow = run.flow /\ a.who = run.who /\ a.asset = run.asset
      /\ b.flow = run.flow /\ b.who = run.who /\ b.asset = run.asset
  BY RunGoesOn DEF TypeInv, RunsInv
<1> HIDE DEF a, b
<1>4. CASE Failed(run, reads, fee)
  BY <1>1, <1>4, FailedShown DEF TypeInv
<1>5. CASE Moves(run, a, "signing")
  BY <1>1, <1>3, <1>5, MovesShown DEF Busy
<1>6. CASE Moves(run, b, "submitting")
  BY <1>1, <1>3, <1>6, MovesShown DEF Busy
<1> QED BY <1>2, <1>4, <1>5, <1>6

LEMMA SubmitRunShown ==
  ASSUME TypeInv, ShownInv, NEW run \in runs, SubmitRun(run) PROVE ShownInv'
<1>0. link' = link /\ badges' = badges
  BY DEF SubmitRun
<1>1. CASE Failed(run, reads, fee)
  BY <1>0, <1>1, FailedShown DEF TypeInv
<1>2. ASSUME NEW only, NEW d, Confirmed(run, only, d),
             ui'.address = ui.address, ui'.asset = ui.asset, ui'.status = ui.status,
             ui'.modal = ui.modal, ui'.phase \in Busy
      PROVE  ShownInv'
  <2>1. reads' = reads
    BY <1>2 DEF Confirmed
  <2>2. PICK s : /\ runs' = (runs \ {run}) \cup {s}
                 /\ s.flow = run.flow /\ s.who = run.who /\ s.asset = run.asset
    BY <1>2, ConfirmedRuns DEF TypeInv
  <2> QED BY <1>0, <1>2, <2>1, <2>2, WorkGoesOn
<1>3. ui.phase \in Busy
  BY AtWork
<1>4. ASSUME NEW o \in Outcomes, Confirmed(run, LineOnly(o, run.asset), Did(run, o)),
             Render([ui EXCEPT !.lineOnly = LineOnly(o, run.asset)])
      PROVE  ShownInv'
  <2> DEFINE x == LineOnly(o, run.asset)
             d == Did(run, o)
  <2>1. Confirmed(run, x, d) /\ Render([ui EXCEPT !.lineOnly = x])
    BY <1>4
  <2> HIDE DEF x, d
  <2>2. PICK u : /\ Render(u) /\ UiTyped(u)
                 /\ u.address = ui.address /\ u.modal = ui.modal
                 /\ u.asset = ui.asset /\ u.status = ui.status /\ u.phase = ui.phase
    BY <2>1, OutcomeFields DEF TypeInv
  <2>3. /\ ui'.address = ui.address /\ ui'.asset = ui.asset /\ ui'.status = ui.status
        /\ ui'.modal = ui.modal /\ ui'.phase \in Busy
    BY <1>3, <2>2, RenderedScreen
  <2> QED BY <1>2, <2>1, <2>3
<1>5. ASSUME NEW d, Confirmed(run, FALSE, d), ui' = ui \/ Render([ui EXCEPT !.returned = TRUE])
      PROVE  ShownInv'
  <2> DEFINE no == FALSE
  <2>1. Confirmed(run, no, d)
    BY <1>5
  <2> HIDE DEF no
  <2>2. CASE ui' = ui
    BY <1>2, <1>3, <2>1, <2>2
  <2>3. CASE Render([ui EXCEPT !.returned = TRUE])
    <3>1. PICK u : /\ Render(u) /\ UiTyped(u)
                   /\ u.address = ui.address /\ u.modal = ui.modal
                   /\ u.asset = ui.asset /\ u.status = ui.status /\ u.phase = ui.phase
      BY <2>3, ReturnedFields DEF TypeInv
    <3>2. /\ ui'.address = ui.address /\ ui'.asset = ui.asset /\ ui'.status = ui.status
          /\ ui'.modal = ui.modal /\ ui'.phase \in Busy
      BY <1>3, <3>1, RenderedScreen
    <3> QED BY <1>2, <2>1, <3>2
  <2> QED BY <1>5, <2>2, <2>3
<1> QED BY <1>1, <1>4, <1>5, Submitted

LEMMA RefreshRunShown ==
  ASSUME TypeInv, ShownInv, NEW run \in runs, RefreshRun(run) PROVE ShownInv'
<1>1. PICK v \in Values(run.who, run.asset) : \E k \in BOOLEAN : \E u :
           /\ Render(u) /\ UiTyped(u)
           /\ u.address = ui.address /\ u.asset = ui.asset /\ u.phase = "success"
           /\ k => v # "unknown" /\ run.asset # Nothing
           /\ u.status = IF k THEN Status(run.who, run.asset, v) ELSE ui.status
           /\ badges' = IF k THEN Merged(Status(run.who, run.asset, v)) ELSE badges
  BY RefreshFields
<1>2. PICK k \in BOOLEAN : \E u :
           /\ Render(u) /\ UiTyped(u)
           /\ u.address = ui.address /\ u.asset = ui.asset /\ u.phase = "success"
           /\ k => v # "unknown" /\ run.asset # Nothing
           /\ u.status = IF k THEN Status(run.who, run.asset, v) ELSE ui.status
           /\ badges' = IF k THEN Merged(Status(run.who, run.asset, v)) ELSE badges
  BY <1>1
<1>3. PICK u :
           /\ Render(u) /\ UiTyped(u)
           /\ u.address = ui.address /\ u.asset = ui.asset /\ u.phase = "success"
           /\ u.status = IF k THEN Status(run.who, run.asset, v) ELSE ui.status
  BY <1>2
<1>4. link' = link /\ reads' = reads /\ runs' = runs \ {run}
  BY DEF RefreshRun
<1>5. /\ ui'.address = ui.address /\ ui'.asset = ui.asset /\ ui'.status = u.status
      /\ ui'.phase = "success"
  BY <1>3, RenderedScreen DEF Resting
<1>6. runs = {run} /\ run.who = ui.address /\ RunShown(run)
  BY AtWork
<1>7. k => badges' = Merged(Status(ui.address, run.asset, v)) /\ run.asset \in Assets
           /\ ui'.status = Status(run.who, run.asset, v)
  BY <1>2, <1>3, <1>5, <1>6 DEF TypeInv, RunsInv, RunTyped, RunOK
<1>8. ~k => badges' = badges /\ ui'.status = ui.status
  BY <1>2, <1>3, <1>5
<1>9. StatusIsOfTheShown'
  <2>1. CASE k
    BY <1>4, <1>5, <1>6, <1>7, <2>1, NewStatusShown DEF RunShown
  <2>2. CASE ~k
    BY <1>4, <1>5, <1>8, <2>2, SameStatusShown DEF ShownInv
  <2> QED BY <2>1, <2>2
<1>10. BadgesAreTheWallets'
  <2>1. CASE k
    <3>1. v \in Values(ui.address, run.asset)
      BY <1>6
    <3>2. /\ \A b \in Assets : b # run.asset => badges'[b] = badges[b]
          /\ badges'[run.asset] = badges[run.asset] \/ badges'[run.asset] = Status(ui.address, run.asset, v)
      BY <1>7, <2>1, <3>1, MergedBadges DEF TypeInv
    <3>3. Status(ui.address, run.asset, v).who = ui.address
      BY DEF Status
    <3> QED BY <1>5, <3>2, <3>3 DEF ShownInv, BadgesAreTheWallets
  <2>2. CASE ~k
    BY <1>5, <1>8, <2>2, SameBadgesShown DEF ShownInv
  <2> QED BY <2>1, <2>2
<1>11. WorkInv'
  BY <1>4, <1>5, <1>6, NoWork DEF Busy
<1>12. ReadsShown'
  BY <1>4, <1>5, FewerShown DEF ShownInv
<1> QED BY <1>9, <1>10, <1>11, <1>12 DEF ShownInv

LEMMA InitShown ==
  ASSUME Init PROVE ShownInv
<1>1. link \in Links /\ ui = Opened(link) /\ runs = {}
  BY DEF Init
<1>2. /\ ui.address = (IF link.kind = "address" THEN link.address ELSE Nobody)
      /\ ui.status = NoStatus
      /\ link.kind = "address" => ui.asset = AssetOf(link)
      /\ ui.phase \in {"error", "sep7", "directory", "idle"}
  BY <1>1, OpenedFields
<1>3. StatusIsOfTheShown
  BY <1>2 DEF StatusIsOfTheShown
<1>4. BadgesAreTheWallets
  <2>1. \A b \in Assets : badges[b].val # "absent" => badges[b].who = ui.address
    BY <1>2, FreshBadges DEF Init
  <2> QED BY <2>1 DEF BadgesAreTheWallets
<1>5. ReadsShown
  <2>1. CASE link.kind # "address"
    BY <2>1 DEF Init, ReadsShown
  <2>2. CASE link.kind = "address"
    <3> DEFINE no == FALSE
               D == DirectoryReads(link.address, Nothing, "badge", no)
               x == Wanted("preview", link.address, AssetOf(link), no)
    <3>1. reads = D \cup {x}
      BY <2>2 DEF Init
    <3>2. x.then = "preview" /\ x.asset = AssetOf(link) /\ ~x.badge
      BY DEF Wanted
    <3> HIDE DEF no
    <3>3. \A r \in D : r.who = link.address /\ r.then = "badge"
      BY DirectoryFields
    <3> HIDE DEF D, x
    <3> QED BY <1>2, <2>2, <3>1, <3>2, <3>3 DEF ReadsShown, Leads, Shows
  <2> QED BY <2>1, <2>2
<1>6. WorkInv
  BY <1>1, <1>2 DEF WorkInv, BusyIsOneRun, Busy
<1> QED BY <1>3, <1>4, <1>5, <1>6 DEF ShownInv

LEMMA StepShown ==
  ASSUME TypeInv, ShownInv, OnlyConnectedSigns, [Next]_vars PROVE ShownInv'
<1>1. CASE User
  BY <1>1, ModalShown, ConnectShown, PickShown, ToDirectoryShown, ResetShown, SwitchWalletShown,
     RunBegins, SignSep7Shown DEF User
<1>2. CASE Answers
  BY <1>2, WalletAnswersShown, WalletRefusesShown, AnswerShown, LookupAnswersShown,
     VerifyAnswersShown, PreparationShown DEF Answers
<1>3. CASE \E run \in runs : RunStep(run)
  BY <1>3, BuildAndSignShown, SubmitRunShown, RefreshRunShown DEF RunStep
<1>4. CASE UNCHANGED vars
  <2>1. ui' = ui /\ link' = link /\ badges' = badges /\ reads' = reads /\ runs' = runs
    BY <1>4 DEF vars
  <2>2. runs # {} => ~ui.modal
    BY DEF ShownInv, WorkInv
  <2>3. WorkInv'
    BY <2>1, <2>2, SameWork DEF ShownInv
  <2> QED BY <2>1, <2>3, SameStatusShown, SameBadgesShown, FewerShown DEF ShownInv
<1> QED BY <1>1, <1>2, <1>3, <1>4 DEF Next

LEMMA ShownHolds == Spec /\ []OnlyConnectedSigns => []ShownInv
<1> QED BY InitShown, TypesHold, StepShown, PTL DEF Spec

\* "Never abandon a transaction mid-flight": as long as nobody signs who is only
\* previewed, the page is busy exactly while one run is at work for the wallet it
\* shows, whatever answers late.
THEOREM RunsAreAlone == Spec /\ []OnlyConnectedSigns => []BusyIsOneRun
<1>1. ShownInv => BusyIsOneRun
  BY DEF ShownInv, WorkInv
<1> QED BY ShownHolds, <1>1, PTL

\* "A slow read for account A lands after connecting B": under the same condition
\* the status on the screen is of the account and the asset on the screen.
THEOREM StatusIsShown == Spec /\ []OnlyConnectedSigns => []StatusIsOfTheShown
<1>1. ShownInv => StatusIsOfTheShown
  BY DEF ShownInv
<1> QED BY ShownHolds, <1>1, PTL

\* "Badges belong to the ADDRESS": under the same condition every badge is of the
\* account on the screen.
THEOREM BadgesAreShown == Spec /\ []OnlyConnectedSigns => []BadgesAreTheWallets
<1>1. ShownInv => BadgesAreTheWallets
  BY DEF ShownInv
<1> QED BY ShownHolds, <1>1, PTL

-------------------------------------------------------------------------------
(***************************************************************************)
(* Who is only previewed signs nothing, unless a balance of the previewed  *)
(* asset waits: the claim screen is the only way there.                    *)
(***************************************************************************)

NothingWaitsForPreviews == \A l \in Links : l.kind = "address" => AssetOf(l) \notin l.waiting

\* Where nobody is connected, the page shows nobody, or an address it previews on
\* a screen without a holder's buttons.
Previewing ==
  /\ link.kind = "address" /\ ui.phase \in {"directory", "idle", "preview", "already"}
  /\ ui.phase = "already" => ui.asset = AssetOf(link)
PreviewInv ==
  /\ ~ui.connected => runs = {}
  /\ ~ui.connected => ui.address = Nobody \/ Previewing
  /\ ~ui.connected => \A r \in reads : r.then \notin {"connect", "pick"}
  /\ \A r \in reads : r.then = "preview" => link.kind = "address" /\ r.asset = AssetOf(link)

LEMMA PreviewsSignNothing == PreviewInv => OnlyConnectedSigns
  BY DEF PreviewInv, OnlyConnectedSigns

\* Nothing of a run's is offered to whom nobody has connected.
LEMMA NoHolderUnconnected ==
  ASSUME TypeInv, PreviewInv, ~ui.connected, NEW b \in {"claim", "authorize", "activate", "signSep7"},
         Clicks(b)
  PROVE  FALSE
<1>1. ui.address # Nobody
  BY HolderClicks, AddressesApart
<1>2. ui.phase \in {"directory", "idle", "preview", "already"}
  BY <1>1 DEF PreviewInv, Previewing
<1> QED BY <1>2, Buttons DEF TypeInv, UiInv, UiTyped, ConnectedHere

\* A screen that is rendered for somebody unconnected does not become the claim
\* screen, because nothing waits of the asset it previews.
LEMMA PreviewRenders ==
  ASSUME NothingWaitsForPreviews, TypeInv, NEW u, UiTyped(u), Render(u), link' = link,
         u.address = Nobody \/
           (/\ link.kind = "address" /\ u.phase \in {"directory", "idle", "preview", "already"}
            /\ u.phase = "already" => u.asset = AssetOf(link))
  PROVE  ui'.address = Nobody \/ Previewing'
<1>1. /\ ui'.address = u.address /\ ui'.asset = u.asset
      /\ \/ ui'.phase = u.phase
         \/ u.phase \in Resting /\ ui'.phase = "claim" /\ u.asset \in u.pending
  BY RenderedFields DEF UiTyped
<1>2. u.pending \subseteq link.waiting
  BY DEF UiTyped
<1>3. link.kind = "address" => AssetOf(link) \notin link.waiting
  BY DEF NothingWaitsForPreviews, TypeInv
<1>4. CASE u.address = Nobody
  BY <1>1, <1>4
<1>5. CASE /\ link.kind = "address" /\ u.phase \in {"directory", "idle", "preview", "already"}
           /\ u.phase = "already" => u.asset = AssetOf(link)
  <2>1. ui'.phase = u.phase
    BY <1>1, <1>2, <1>3, <1>5 DEF Resting
  <2> QED BY <1>1, <1>5, <2>1 DEF Previewing, AssetOf
<1> QED BY <1>4, <1>5

\* What is read after a handler is a badge, or what the handler asks for.
LEMMA PreviewReads ==
  ASSUME TypeInv, PreviewInv, link' = link,
         \A r \in reads' : r \in reads \/ r \in Superseded(reads) \/ r.then \in {"wallet", "refresh"}
  PROVE  /\ \A r \in reads' : r.then = "preview" => link'.kind = "address" /\ r.asset = AssetOf(link)'
         /\ ~ui.connected => \A r \in reads' : r.then \notin {"connect", "pick"}
<1>1. \A r \in Superseded(reads) : r.then = "badge"
  BY SupersededReads DEF TypeInv, ReadsInv
<1> QED BY <1>1 DEF PreviewInv, AssetOf

\* The handlers that keep the connection, by somebody connected and by nobody.
LEMMA ConnectedKeep ==
  ASSUME TypeInv, PreviewInv, ui.connected, ui'.connected, link' = link,
         \A r \in reads' : r \in reads \/ r.then # "preview"
  PROVE  PreviewInv'
<1>1. \A r \in reads' : r.then = "preview" => link'.kind = "address" /\ r.asset = AssetOf(link)'
  BY DEF PreviewInv, AssetOf
<1> QED BY <1>1 DEF PreviewInv, AssetOf

LEMMA UnconnectedKeep ==
  ASSUME NothingWaitsForPreviews, TypeInv, PreviewInv, ~ui.connected, link' = link, runs' = {},
         \A r \in reads' : r \in reads \/ r \in Superseded(reads) \/ r.then \in {"wallet", "refresh"},
         NEW u, UiTyped(u), Render(u),
         u.address = Nobody \/
           (/\ link.kind = "address" /\ u.phase \in {"directory", "idle", "preview", "already"}
            /\ u.phase = "already" => u.asset = AssetOf(link))
  PROVE  PreviewInv'
<1>1. ui'.address = Nobody \/ Previewing'
  BY PreviewRenders
<1>2. /\ \A r \in reads' : r.then = "preview" => link'.kind = "address" /\ r.asset = AssetOf(link)'
      /\ \A r \in reads' : r.then \notin {"connect", "pick"}
  BY PreviewReads
<1> QED BY <1>1, <1>2 DEF PreviewInv, AssetOf, Previewing

\* A step that renders a state with the same holder, screen and asset.
LEMMA PreviewKeeps ==
  ASSUME NothingWaitsForPreviews, TypeInv, PreviewInv, NEW u, UiTyped(u), Render(u), link' = link,
         u.connected = ui.connected, u.address = ui.address, u.asset = ui.asset, u.phase = ui.phase,
         ~ui.connected => runs' = {},
         \A r \in reads' : r \in reads \/ r \in Superseded(reads) \/ r.then \in {"wallet", "refresh"}
  PROVE  PreviewInv'
<1>1. ui'.connected = ui.connected
  BY RenderedScreen
<1>2. \A r \in Superseded(reads) : r.then = "badge"
  BY SupersededReads DEF TypeInv, ReadsInv
<1>3. CASE ui.connected
  BY <1>1, <1>2, <1>3, ConnectedKeep
<1>4. CASE ~ui.connected
  <2>1. u.address = Nobody \/
           (/\ link.kind = "address" /\ u.phase \in {"directory", "idle", "preview", "already"}
            /\ u.phase = "already" => u.asset = AssetOf(link))
    BY <1>4 DEF PreviewInv, Previewing
  <2> QED BY <1>4, <2>1, UnconnectedKeep
<1> QED BY <1>3, <1>4

LEMMA WalletPreview ==
  ASSUME NothingWaitsForPreviews, TypeInv, ShownInv, PreviewInv,
         OpenModal \/ CloseModal \/ Connect \/ SwitchWallet
  PROVE  PreviewInv'
<1>0. OnlyConnectedSigns
  BY PreviewsSignNothing
<1>1. ASSUME NEW m \in BOOLEAN, Render([ui EXCEPT !.modal = m]), link' = link,
             ~ui.connected => runs' = {},
             \A r \in reads' : r \in reads \/ r \in Superseded(reads) \/ r.then \in {"wallet", "refresh"}
      PROVE  PreviewInv'
  <2> DEFINE u == [ui EXCEPT !.modal = m]
  <2>1. UiTyped(u) /\ u.address = ui.address /\ u.asset = ui.asset
        /\ u.phase = ui.phase /\ u.connected = ui.connected
    BY DEF TypeInv, UiInv, UiTyped, UiFields
  <2>2. Render(u)
    BY <1>1
  <2> HIDE DEF u
  <2> QED BY <1>1, <2>1, <2>2, PreviewKeeps
<1>2. CASE OpenModal \/ CloseModal
  <2>1. link' = link /\ reads' = reads /\ runs' = runs
        /\ \E m \in BOOLEAN : Render([ui EXCEPT !.modal = m])
    BY <1>2 DEF OpenModal, CloseModal
  <2>2. ~ui.connected => runs' = {}
    BY <2>1 DEF PreviewInv
  <2> QED BY <1>1, <2>1, <2>2
<1>3. CASE Connect
  <2> DEFINE no == FALSE
  <2>1. link' = link /\ runs' = RunsSuperseded /\ ui.modal /\ Render([ui EXCEPT !.modal = no])
        /\ reads' = Superseded(reads) \cup {Wanted("wallet", Nobody, ui.asset, FromDirectory(ui))}
    BY <1>3 DEF Connect
  <2>2. runs' = {}
    BY <1>0, <2>1, NothingToClick, NoneSuperseded DEF ShownInv
  <2>3. Wanted("wallet", Nobody, ui.asset, FromDirectory(ui)).then = "wallet"
    BY DEF Wanted
  <2>4. no \in BOOLEAN
    OBVIOUS
  <2> HIDE DEF no
  <2> QED BY <1>1, <2>1, <2>2, <2>3, <2>4
<1>4. CASE SwitchWallet
  <2> DEFINE p == IF ui.phase = "directory" THEN "directory" ELSE "idle"
             u == [ui EXCEPT !.connected = FALSE, !.address = Nobody, !.status = NoStatus,
                       !.hash = FALSE, !.lineOnly = FALSE, !.modal = TRUE, !.phase = p]
  <2>1. Render(u) /\ link' = link /\ Clicks("switch")
        /\ reads' = BadgesDropped(Superseded(reads)) /\ runs' = RunsSuperseded
    BY <1>4 DEF SwitchWallet
  <2>2. p \in {"directory", "idle"}
    OBVIOUS
  <2> HIDE DEF p
  <2>3. DOMAIN u = UiFields /\ u.address = Nobody
    BY DEF TypeInv, UiInv, UiTyped, UiFields
  <2> HIDE DEF u
  <2>4. ui'.address = Nobody
    BY <2>1, <2>3, RenderedFields
  <2>5. runs' = {}
    BY <1>0, <2>1, NothingToClick, NoneSuperseded DEF ShownInv
  <2>6. reads' = {}
    <3>1. \A r \in Superseded(reads) : r.then = "badge"
      BY SupersededReads DEF TypeInv, ReadsInv
    <3> QED BY <2>1, <3>1 DEF BadgesDropped
  <2> QED BY <2>4, <2>5, <2>6 DEF PreviewInv
<1> QED BY <1>2, <1>3, <1>4

LEMMA WalletAnswerPreview ==
  ASSUME TypeInv, ShownInv, PreviewInv, NEW r \in reads,
         WalletRefuses(r) \/ \E w \in link.wallets : WalletAnswers(r, w)
  PROVE  PreviewInv'
<1>1. r.then = "wallet" /\ link' = link /\ runs' = runs
  BY DEF WalletRefuses, WalletAnswers
<1>2. BadgesDropped(reads \ {r}) = {} /\ runs = {}
  BY <1>1 DEF ShownInv, WorkInv, ReadsShown, BadgesDropped
<1>3. CASE WalletRefuses(r)
  <2> DEFINE u == [ui EXCEPT !.address = Nobody, !.connected = FALSE, !.status = NoStatus,
                             !.failedFromDir = r.fromDir, !.phase = "error"]
  <2>1. Render(u) /\ reads' = {}
    BY <1>2, <1>3 DEF WalletRefuses
  <2>2. DOMAIN u = UiFields /\ u.address = Nobody
    BY DEF TypeInv, UiInv, UiTyped, UiFields
  <2> HIDE DEF u
  <2>3. ui'.address = Nobody
    BY <2>1, <2>2, RenderedFields
  <2> QED BY <1>1, <1>2, <2>1, <2>3 DEF PreviewInv
<1>4. ASSUME NEW w \in link.wallets, WalletAnswers(r, w)
      PROVE  PreviewInv'
  <2> DEFINE u == [ui EXCEPT !.address = w, !.connected = TRUE, !.status = NoStatus]
             D == DirectoryReads(w, r.asset, "connect", r.fromDir)
  <2>1. Render(u) /\ reads' = D
    BY <1>2, <1>4 DEF WalletAnswers
  <2>2. DOMAIN u = UiFields /\ u.connected
    BY DEF TypeInv, UiInv, UiTyped, UiFields
  <2> HIDE DEF u
  <2>3. ui'.connected
    BY <2>1, <2>2, RenderedFields
  <2>4. \A q \in D : q.then = IF q.asset = r.asset THEN "connect" ELSE "badge"
    BY DirectoryFields
  <2> HIDE DEF D
  <2>5. \A q \in reads' : q.then # "preview"
    BY <2>1, <2>4
  <2> QED BY <2>3, <2>5 DEF PreviewInv
<1> QED BY <1>3, <1>4

LEMMA AnswerPreview ==
  ASSUME NothingWaitsForPreviews, TypeInv, ShownInv, PreviewInv, NEW r \in reads, NEW v, Answer(r, v)
  PROVE  PreviewInv'
<1>1. ReadTyped(r)
  BY DEF TypeInv, ReadsInv
<1>2. link' = link /\ runs' = runs /\ reads' = reads \ {r}
  BY DEF Answer
<1>3. PICK u : /\ Render(u) /\ DOMAIN u = UiFields
               /\ u.status = ui.status
                    \/ (r.then # "badge" /\ v # "unknown" /\ u.status = Status(r.who, r.asset, v))
               /\ u.phase = ui.phase \/ (Shows(r) /\ u.phase \in Resting \cup {"directory", "preview"})
                                     \/ (Shows(r) /\ u.phase = "sep7" /\ IsRequest)
               /\ \A f \in UiFields \ {"status", "phase"} : u[f] = ui[f]
               /\ (r.then = "preview" => u.phase \in {"already", "preview"})
  BY <1>1, AnsweredFields DEF TypeInv
<1>4. /\ u.address = ui.address /\ u.connected = ui.connected /\ u.asset = ui.asset
      /\ u.pending = ui.pending
  BY <1>3 DEF UiFields
<1>5. /\ ui'.connected = ui.connected /\ ui'.address = ui.address /\ ui'.asset = ui.asset
      /\ \/ ui'.phase = u.phase
         \/ u.phase \in Resting /\ ui'.phase = "claim" /\ u.asset \in u.pending
  BY <1>3, <1>4, RenderedFields
<1>6. CASE ui.connected
  BY <1>2, <1>5, <1>6, ConnectedKeep
<1>7. CASE ~ui.connected
  <2>1. r.then \notin {"connect", "pick"}
    BY <1>7 DEF PreviewInv
  <2>2. u.phase = ui.phase \/ (r.then = "preview" /\ u.phase \in {"already", "preview"})
    BY <1>3, <2>1 DEF Shows
  <2>3. r.then = "preview" => link.kind = "address" /\ ui.asset = AssetOf(link)
    BY DEF PreviewInv, ShownInv, ReadsShown, Leads, Shows
  <2>4. \/ ui.address = Nobody
        \/ /\ link.kind = "address" /\ u.phase \in {"directory", "idle", "preview", "already"}
           /\ u.phase = "already" => ui.asset = AssetOf(link)
    BY <1>7, <2>2, <2>3 DEF PreviewInv, Previewing
  <2>5. link.kind = "address" => AssetOf(link) \notin ui.pending
    BY DEF NothingWaitsForPreviews, TypeInv, UiInv, UiTyped
  <2>6. ui'.address = Nobody \/ Previewing'
    BY <1>2, <1>4, <1>5, <2>4, <2>5 DEF Previewing, Resting, AssetOf
  <2>7. runs' = {} /\ \A q \in reads' : q.then \notin {"connect", "pick"}
    BY <1>2, <1>7 DEF PreviewInv
  <2>8. \A q \in reads' : q.then = "preview" => link'.kind = "address" /\ q.asset = AssetOf(link)'
    BY <1>2 DEF PreviewInv, AssetOf
  <2> QED BY <2>6, <2>7, <2>8 DEF PreviewInv
<1> QED BY <1>6, <1>7

LEMMA OtherAnswersPreview ==
  ASSUME NothingWaitsForPreviews, TypeInv, PreviewInv, LookupAnswers \/ VerifyAnswers
  PROVE  PreviewInv'
<1>0. link' = link /\ reads' = reads /\ runs' = runs
  BY DEF LookupAnswers, VerifyAnswers
<1>1. ~ui.connected => runs' = {}
  BY <1>0 DEF PreviewInv
<1>2. CASE LookupAnswers
  <2>1. PICK P \in {{}, link.waiting} : Render([ui EXCEPT !.pending = P, !.lookup = FALSE])
    BY <1>2 DEF LookupAnswers
  <2> DEFINE u == [ui EXCEPT !.pending = P, !.lookup = FALSE]
  <2>2. UiTyped(u) /\ u.address = ui.address /\ u.asset = ui.asset
        /\ u.connected = ui.connected /\ u.phase = ui.phase
    BY DEF TypeInv, UiInv, UiTyped, UiFields
  <2>3. Render(u)
    BY <2>1
  <2> HIDE DEF u
  <2> QED BY <1>0, <1>1, <2>2, <2>3, PreviewKeeps
<1>3. CASE VerifyAnswers
  <2>1. PICK v \in {"verified", "unverified", "forged"} : Render([ui EXCEPT !.verify = v])
    BY <1>3 DEF VerifyAnswers
  <2> DEFINE u == [ui EXCEPT !.verify = v]
  <2>2. UiTyped(u) /\ u.address = ui.address /\ u.asset = ui.asset
        /\ u.connected = ui.connected /\ u.phase = ui.phase
    BY DEF TypeInv, UiInv, UiTyped, UiFields
  <2>3. Render(u)
    BY <2>1
  <2> HIDE DEF u
  <2> QED BY <1>0, <1>1, <2>2, <2>3, PreviewKeeps
<1> QED BY <1>2, <1>3

LEMMA MovedPreview ==
  ASSUME NothingWaitsForPreviews, TypeInv, ShownInv, PreviewInv,
         (\E a \in Assets : Pick(a)) \/ ToDirectory \/ Reset
  PROVE  PreviewInv'
<1>0. OnlyConnectedSigns
  BY PreviewsSignNothing
<1>1. ASSUME NEW a \in Assets, Pick(a)
      PROVE  PreviewInv'
  <2>1. PICK u : /\ Render(u) /\ UiTyped(u) /\ u.asset = a
                 /\ u.address = ui.address /\ u.connected = ui.connected
                 /\ ~ui.connected => u.phase = "idle"
    BY <1>1, PickedFields
  <2>2. link' = link /\ runs' = RunsSuperseded
    BY <1>1 DEF Pick
  <2>3. runs' = {}
    BY <1>0, <1>1, <2>2, NothingToClick, NoneSuperseded DEF Pick, ShownInv
  <2>4. ui'.connected = ui.connected
    BY <2>1, RenderedScreen
  <2>5. \A r \in Superseded(reads) : r.then = "badge"
    BY SupersededReads DEF TypeInv, ReadsInv
  <2>6. CASE ui.connected
    <3> DEFINE no == FALSE
               x == Wanted("pick", ui.address, a, no)
    <3>1. reads' \subseteq Superseded(reads) \cup {x}
      BY <1>1 DEF Pick
    <3>2. x.then = "pick"
      BY DEF Wanted
    <3> HIDE DEF x
    <3> QED BY <2>2, <2>4, <2>5, <2>6, <3>1, <3>2, ConnectedKeep
  <2>7. CASE ~ui.connected
    <3>1. reads' = Superseded(reads)
      BY <1>1, <2>7 DEF Pick, ConnectedHere
    <3>2. u.address = Nobody \/ link.kind = "address"
      BY <2>1, <2>7 DEF PreviewInv, Previewing
    <3> QED BY <2>1, <2>2, <2>3, <2>7, <3>1, <3>2, UnconnectedKeep
  <2> QED BY <2>6, <2>7
<1>2. CASE ToDirectory
  <2> DEFINE u == [ui EXCEPT !.modal = FALSE, !.hash = FALSE, !.lineOnly = FALSE, !.status = NoStatus,
                             !.asset = DefaultAsset, !.phase = "directory"]
  <2>1. /\ DOMAIN u = UiFields /\ u.asset = DefaultAsset /\ u.address = ui.address
        /\ u.connected = ui.connected /\ u.phase = "directory" /\ u.status = NoStatus
        /\ u.pending = ui.pending /\ u.flow = ui.flow
    BY DEF TypeInv, UiInv, UiTyped, UiFields
  <2>2. Render(u) /\ link' = link /\ runs' = RunsSuperseded /\ reads' = Superseded(reads)
    BY <1>2 DEF ToDirectory
  <2> HIDE DEF u
  <2>3. UiTyped(u)
    BY <2>1, AssetsLive DEF TypeInv, UiInv, UiTyped, Phases, Resting, StatusTyped
  <2>4. runs' = {}
    BY <1>0, <1>2, <2>2, NothingToClick, NoneSuperseded DEF ToDirectory, ShownInv
  <2>5. CASE ui.connected
    <3>1. ui'.connected
      BY <2>1, <2>2, <2>3, <2>5, RenderedScreen
    <3>2. \A r \in reads' : r.then = "badge"
      BY <2>2, SupersededReads DEF TypeInv, ReadsInv
    <3> QED BY <2>2, <2>5, <3>1, <3>2, ConnectedKeep
  <2>6. CASE ~ui.connected
    <3>1. u.address = Nobody \/ link.kind = "address"
      BY <2>1, <2>6 DEF PreviewInv, Previewing
    <3> QED BY <2>1, <2>2, <2>3, <2>4, <2>6, <3>1, UnconnectedKeep
  <2> QED BY <2>5, <2>6
<1>3. CASE Reset
  <2> DEFINE p == IF IsRequest THEN "sep7"
                  ELSE IF ui.address = Nobody THEN "directory"
                  ELSE IF ui.status = NoStatus THEN "ready"
                  ELSE PhaseFor([ui.status EXCEPT !.asset = ui.asset])
             u == [ui EXCEPT !.hash = FALSE, !.lineOnly = FALSE, !.phase = p]
  <2>1. Render(u) /\ link' = link /\ reads' = reads /\ runs' = runs /\ Clicks("reset")
    BY <1>3 DEF Reset
  <2>2. \/ p = "sep7" /\ IsRequest
        \/ p = "directory"
        \/ p \in Resting /\ ui.address # Nobody
    BY PhaseIsResting DEF Resting
  <2> HIDE DEF p
  <2>3. /\ DOMAIN u = UiFields /\ u.asset = ui.asset /\ u.address = ui.address
        /\ u.connected = ui.connected /\ u.phase = p /\ u.status = ui.status
        /\ u.pending = ui.pending /\ u.flow = ui.flow
    BY DEF TypeInv, UiInv, UiTyped, UiFields
  <2> HIDE DEF u
  <2>4. UiTyped(u)
    BY <2>2, <2>3 DEF TypeInv, UiInv, UiTyped, Phases, Resting
  <2>5. CASE ui.connected
    <3>1. ui'.connected
      BY <2>1, <2>3, <2>4, <2>5, RenderedScreen
    <3> QED BY <2>1, <2>5, <3>1, ConnectedKeep
  <2>6. CASE ~ui.connected
    <3>1. ui.phase \in {"success", "error"}
      BY <2>1, Buttons DEF TypeInv, UiInv, UiTyped
    <3>2. u.address = Nobody
      BY <2>3, <2>6, <3>1 DEF PreviewInv, Previewing
    <3>3. runs' = {}
      BY <2>1, <2>6 DEF PreviewInv
    <3> QED BY <2>1, <2>4, <2>6, <3>2, <3>3, UnconnectedKeep
  <2> QED BY <2>5, <2>6
<1> QED BY <1>1, <1>2, <1>3

\* A run begins for somebody connected.
LEMMA BeginsPreview ==
  ASSUME TypeInv, PreviewInv, NEW name, NEW run, NEW phase \in Busy, Begins(name, run, phase),
         name = "sep7" => IsRequest, name \in {"claim", "authorize", "activate", "sep7"},
         ui.connected, link' = link
  PROVE  PreviewInv'
<1>1. PICK u : Render(u) /\ UiTyped(u) /\ u.connected = ui.connected
  BY BegunFields DEF TypeInv
<1>2. ui'.connected
  BY <1>1, RenderedScreen
<1>3. \A r \in reads' : r.then = "badge"
  BY SupersededReads DEF Begins, TypeInv, ReadsInv
<1> QED BY <1>2, <1>3, ConnectedKeep

LEMMA RunBeginsPreview ==
  ASSUME TypeInv, PreviewInv,
         Claim \/ Authorize \/ ActivateFast \/ ActivateSlow \/ ActivateClassic
  PROVE  PreviewInv'
<1>1. ui.connected /\ link' = link
  BY NoHolderUnconnected DEF Claim, Authorize, ActivateFast, ActivateSlow, ActivateClassic
<1>2. \E name \in {"claim", "authorize", "activate"} : \E run : \E phase \in Busy :
        Begins(name, run, phase)
  BY DEF Claim, Authorize, ActivateFast, ActivateSlow, ActivateClassic, Busy
<1> QED BY <1>1, <1>2, BeginsPreview

LEMMA SignSep7Preview ==
  ASSUME TypeInv, PreviewInv, SignSep7 PROVE PreviewInv'
<1> DEFINE run == Run("sep7", "sign", ui.address, Request.asset)
           x == Wanted("refresh", run.who, run.asset, FALSE)
           u == [ui EXCEPT !.flow = "sep7", !.lineOnly = FALSE, !.returned = FALSE,
                           !.phase = "error"]
<1>1. ui.connected /\ link' = link /\ IsRequest
  BY NoHolderUnconnected, RequestIsSigned DEF SignSep7
<1>2. CASE Sep7Refuses
  <2>1. Render(u) /\ reads' \subseteq Superseded(reads) \cup {x}
    BY <1>2 DEF SignSep7
  <2>2. x.then = "refresh"
    BY DEF Wanted
  <2>3. DOMAIN u = UiFields /\ u.connected = ui.connected
    BY DEF TypeInv, UiInv, UiTyped, UiFields
  <2> HIDE DEF x, u
  <2>4. ui'.connected
    BY <1>1, <2>1, <2>3, RenderedFields
  <2>5. \A r \in Superseded(reads) : r.then = "badge"
    BY SupersededReads DEF TypeInv, ReadsInv
  <2> QED BY <1>1, <2>1, <2>2, <2>4, <2>5, ConnectedKeep
<1>3. CASE ~Sep7Refuses
  <2>1. Begins("sep7", run, "signing")
    BY <1>3 DEF SignSep7
  <2> HIDE DEF run
  <2> QED BY <1>1, <2>1, BeginsPreview DEF Busy
<1> QED BY <1>2, <1>3

\* While a run is at work somebody is connected, and stays so.
LEMMA WorkPreview ==
  ASSUME TypeInv, PreviewInv, runs # {}, link' = link, NEW u, Render(u), UiTyped(u),
         u.connected = ui.connected,
         \A r \in reads' : r \in reads \/ r.then = "refresh"
  PROVE  PreviewInv'
<1>1. ui.connected
  BY DEF PreviewInv
<1>2. ui'.connected
  BY <1>1, RenderedScreen
<1> QED BY <1>1, <1>2, ConnectedKeep

LEMMA SamePreview ==
  ASSUME PreviewInv, ui' = ui, link' = link, reads' = reads, runs # {} \/ runs' = runs
  PROVE  PreviewInv'
<1>1. ~ui'.connected => runs' = {}
  BY DEF PreviewInv
<1>2. ~ui'.connected => ui'.address = Nobody \/ Previewing'
  BY DEF PreviewInv, Previewing, AssetOf
<1>3. ~ui'.connected => \A r \in reads' : r.then \notin {"connect", "pick"}
  BY DEF PreviewInv
<1>4. \A r \in reads' : r.then = "preview" => link'.kind = "address" /\ r.asset = AssetOf(link)'
  BY DEF PreviewInv, AssetOf
<1> QED BY <1>1, <1>2, <1>3, <1>4 DEF PreviewInv

LEMMA FailedPreview ==
  ASSUME TypeInv, PreviewInv, NEW run \in runs, NEW f, FeeTyped(f), Failed(run, reads, f), link' = link
  PROVE  PreviewInv'
<1>1. PICK u : Render(u) /\ UiTyped(u) /\ u.connected = ui.connected
  BY FailedFields DEF TypeInv
<1> DEFINE x == Wanted("refresh", run.who, run.asset, FALSE)
<1>2. reads' \subseteq reads \cup {x}
  BY DEF Failed
<1>3. x.then = "refresh"
  BY DEF Wanted
<1> HIDE DEF x
<1> QED BY <1>1, <1>2, <1>3, WorkPreview

LEMMA MovesPreview ==
  ASSUME TypeInv, PreviewInv, NEW run \in runs, NEW s, NEW phase \in Busy, Moves(run, s, phase),
         link' = link
  PROVE  PreviewInv'
<1>1. PICK u : Render(u) /\ UiTyped(u) /\ u.connected = ui.connected
  BY MovedFields DEF TypeInv
<1> QED BY <1>1, WorkPreview DEF Moves

LEMMA PreparationPreview ==
  ASSUME TypeInv, PreviewInv, NEW t \in fee.tasks, Funded(t) \/ NotFunded(t) \/ Built(t)
  PROVE  PreviewInv'
<1>1. CASE Funded(t)
  BY <1>1, SamePreview DEF Funded
<1>2. CASE NotFunded(t) \/ Built(t)
  <2>1. PICK p : Resumes(t, [fee EXCEPT !.ready = p, !.tasks = @ \ {t}])
    BY <1>2 DEF NotFunded, Built
  <2> DEFINE f == [fee EXCEPT !.ready = p, !.tasks = @ \ {t}]
  <2>2. FeeTyped(f)
    BY EndedTask DEF TypeInv
  <2>3. link' = link /\ Resumes(t, f)
    BY <1>2, <2>1 DEF NotFunded, Built
  <2> HIDE DEF f
  <2>4. \/ ui' = ui /\ reads' = reads /\ runs' = runs
        \/ \E r \in runs : Failed(r, reads, f) \/ \E s : Moves(r, s, "signing")
    BY <2>3 DEF Resumes
  <2> QED BY <2>2, <2>3, <2>4, SamePreview, FailedPreview, MovesPreview DEF Busy
<1> QED BY <1>1, <1>2

LEMMA RunStepPreview ==
  ASSUME TypeInv, PreviewInv, NEW run \in runs, RunStep(run) PROVE PreviewInv'
<1>1. CASE BuildRun(run) \/ SignRun(run)
  <2>1. link' = link /\ (Failed(run, reads, fee) \/ \E s : \E phase \in Busy : Moves(run, s, phase))
    BY <1>1 DEF BuildRun, SignRun, Signing, Busy
  <2> QED BY <2>1, FailedPreview, MovesPreview DEF TypeInv
<1>2. CASE SubmitRun(run)
  <2>0. link' = link
    BY <1>2 DEF SubmitRun
  <2>1. ASSUME NEW u, Render(u), UiTyped(u), u.connected = ui.connected, reads' = reads
        PROVE  PreviewInv'
    BY <2>0, <2>1, WorkPreview
  <2>2. \/ Failed(run, reads, fee)
        \/ reads' = reads /\ \E x : Render([ui EXCEPT !.lineOnly = x])
        \/ reads' = reads /\ (ui' = ui \/ Render([ui EXCEPT !.returned = TRUE]))
    BY <1>2, Submitted DEF Confirmed
  <2> QED BY <2>0, <2>1, <2>2, FailedPreview, OutcomeFields, ReturnedFields, SamePreview DEF TypeInv
<1>3. CASE RefreshRun(run)
  <2>1. \E u : Render(u) /\ UiTyped(u) /\ u.connected = ui.connected
    BY <1>3, RefreshFields
  <2> QED BY <1>3, <2>1, WorkPreview DEF RefreshRun
<1> QED BY <1>1, <1>2, <1>3 DEF RunStep

LEMMA InitPreview ==
  ASSUME Init PROVE PreviewInv
<1>1. link \in Links /\ ui = Opened(link) /\ runs = {}
  BY DEF Init
<1>2. /\ ui.address = (IF link.kind = "address" THEN link.address ELSE Nobody)
      /\ link.kind = "address" => ui.phase \in {"directory", "idle"}
  BY <1>1, OpenedFields
<1>3. ui.address = Nobody \/ Previewing
  BY <1>2 DEF Previewing
<1>4. \A r \in reads : \/ r.then = "badge"
                       \/ link.kind = "address" /\ r.then = "preview" /\ r.asset = AssetOf(link)
  <2>1. CASE link.kind # "address"
    BY <2>1 DEF Init
  <2>2. CASE link.kind = "address"
    <3> DEFINE no == FALSE
               D == DirectoryReads(link.address, Nothing, "badge", no)
               x == Wanted("preview", link.address, AssetOf(link), no)
    <3>1. reads = D \cup {x}
      BY <2>2 DEF Init
    <3>2. x.then = "preview" /\ x.asset = AssetOf(link)
      BY DEF Wanted
    <3> HIDE DEF no
    <3>3. \A r \in D : r.then = "badge"
      BY DirectoryFields
    <3> HIDE DEF D, x
    <3> QED BY <2>2, <3>1, <3>2, <3>3
  <2> QED BY <2>1, <2>2
<1> QED BY <1>1, <1>3, <1>4 DEF PreviewInv

LEMMA StepPreview ==
  ASSUME NothingWaitsForPreviews, TypeInv, ShownInv, PreviewInv, [Next]_vars PROVE PreviewInv'
<1>1. CASE User
  BY <1>1, WalletPreview, MovedPreview, RunBeginsPreview, SignSep7Preview DEF User
<1>2. CASE Answers
  BY <1>2, WalletAnswerPreview, AnswerPreview, OtherAnswersPreview, PreparationPreview DEF Answers
<1>3. CASE \E run \in runs : RunStep(run)
  BY <1>3, RunStepPreview
<1>4. CASE UNCHANGED vars
  BY <1>4, SamePreview DEF vars
<1> QED BY <1>1, <1>2, <1>3, <1>4 DEF Next

\* "Only a connected wallet may reach signing phases" (isConnected): true of every
\* page that is not opened on a previewed address for an asset of which a balance
\* waits there.  (There the claim screen is offered; see activation_preview.)
THEOREM OnlyTheConnectedSign == NothingWaitsForPreviews => (Spec => []OnlyConnectedSigns)
<1> SUFFICES ASSUME NothingWaitsForPreviews PROVE Spec => []OnlyConnectedSigns
  OBVIOUS
<1>1. Init => ShownInv /\ PreviewInv
  BY InitShown, InitPreview
<1>2. TypeInv /\ ShownInv /\ PreviewInv /\ [Next]_vars => (ShownInv /\ PreviewInv)'
  BY PreviewsSignNothing, StepShown, StepPreview
<1> QED BY TypesHold, <1>1, <1>2, PreviewsSignNothing, PTL DEF Spec

-------------------------------------------------------------------------------
(***************************************************************************)
(* The success copy is truthful of the page's own activations, under the   *)
(* same condition and in a session with one fee payer.                     *)
(***************************************************************************)

OneFeePayer == fee.made <= 1

\* What was done is no less than "authorized and ready to receive".
Does(effect, a) == effect = "auth" \/ (Open(a) /\ effect # "elsewhere")

\* The screen shows the flow of the run at work; the transaction it was given is
\* for its own account and asset; and what it has done is no less than the screen
\* is about to say.
FlowShown  == \A r \in runs : ui.flow = FlowOf(r.flow)
TxServes   == OneFeePayer => \A r \in runs : r.tx = NoPrep \/ (r.tx.who = r.who /\ r.tx.asset = r.asset)
Authorized == \A r \in runs : r.pc = "refresh" /\ r.flow = "authorize" => r.effect = "auth"
Activated  ==
  OneFeePayer =>
    \A r \in runs : r.pc = "refresh" /\ r.flow = "activate" /\ ~ui.lineOnly => Does(r.effect, r.asset)
CopyInv == FlowShown /\ TxServes /\ Authorized /\ Activated /\ ActivationCopyIsTruthful

\* No run, and another screen.
LEMMA NoCopy ==
  ASSUME runs' = {}, ui'.phase # "success" PROVE CopyInv'
<1>1. FlowShown' /\ TxServes' /\ Authorized' /\ Activated'
  BY DEF FlowShown, TxServes, Authorized, Activated
<1>2. ActivationCopyIsTruthful'
  BY DEF ActivationCopyIsTruthful, SuccessCopyIsTruthful, SaysAuthorized
<1> QED BY <1>1, <1>2 DEF CopyInv

\* The same runs, and the same screen or another one.
LEMMA SameCopy ==
  ASSUME TypeInv, ShownInv, CopyInv, link' = link, runs' = runs, fee'.made <= 1 => fee.made <= 1,
         NEW u, DOMAIN u = UiFields, Render(u),
         u.phase = ui.phase \/ (u.phase # "success" /\ runs = {}),
         u.flow = ui.flow, u.lineOnly = ui.lineOnly, u.asset = ui.asset, u.effect = ui.effect,
         u.returned = ui.returned
  PROVE  CopyInv'
<1>1. /\ ui'.asset = ui.asset /\ ui'.lineOnly = ui.lineOnly
      /\ ui'.phase \in Busy <=> u.phase \in Busy
      /\ ui'.phase \in Busy \cup {"success", "error"} => ui'.flow = ui.flow
      /\ ui'.phase = "success" => ui'.effect = ui.effect /\ u.phase = "success"
  BY RenderedFields DEF Resting, Busy
<1>2. ui'.returned = ui.returned
  BY RenderedFields
<1>3. runs # {} => ui.phase \in Busy
  BY DEF ShownInv, WorkInv, BusyIsOneRun
<1>4. runs # {} => ui'.flow = ui.flow
  BY <1>1, <1>3
<1>5. FlowShown'
  BY <1>4 DEF CopyInv, FlowShown
<1>6. TxServes'
  BY DEF CopyInv, TxServes, OneFeePayer
<1>7. Authorized'
  BY DEF CopyInv, Authorized
<1>8. Activated'
  BY <1>1 DEF CopyInv, Activated, OneFeePayer, Does, Open
<1>9. ActivationCopyIsTruthful'
  <2>1. CASE ui'.phase = "success"
    <3>1. ui.phase = "success" /\ ui'.effect = ui.effect /\ ui'.flow = ui.flow
      BY <1>1, <2>1
    <3> QED BY <1>1, <1>2, <2>1, <3>1
        DEF CopyInv, ActivationCopyIsTruthful, SuccessCopyIsTruthful, SaysAuthorized, IsRequest, Request, Open
  <2>2. CASE ui'.phase # "success"
    BY <2>2 DEF ActivationCopyIsTruthful, SuccessCopyIsTruthful, SaysAuthorized
  <2> QED BY <2>1, <2>2
<1> QED BY <1>5, <1>6, <1>7, <1>8, <1>9 DEF CopyInv

\* Nothing on the screen and nothing of the runs.
LEMMA SameUiCopy ==
  ASSUME CopyInv, link' = link, runs' = runs, ui' = ui, fee'.made <= 1 => fee.made <= 1
  PROVE  CopyInv'
<1>1. FlowShown' /\ TxServes' /\ Authorized' /\ Activated'
  BY DEF CopyInv, FlowShown, TxServes, Authorized, Activated, OneFeePayer, Does, Open
<1>2. ActivationCopyIsTruthful'
  BY DEF CopyInv, ActivationCopyIsTruthful, SuccessCopyIsTruthful, SaysAuthorized, IsRequest, Request, Open
<1> QED BY <1>1, <1>2 DEF CopyInv

\* One run, and the busy screen.
LEMMA OneCopy ==
  ASSUME NEW s, runs' = {s}, ui'.phase \in Busy, ui'.flow = FlowOf(s.flow),
         fee'.made <= 1 => s.tx = NoPrep \/ (s.tx.who = s.who /\ s.tx.asset = s.asset),
         s.pc = "refresh" /\ s.flow = "authorize" => s.effect = "auth",
         fee'.made <= 1 /\ s.pc = "refresh" /\ s.flow = "activate" /\ ~ui'.lineOnly =>
           Does(s.effect, s.asset)
  PROVE  CopyInv'
<1>1. FlowShown' /\ TxServes' /\ Authorized'
  BY DEF FlowShown, TxServes, Authorized, OneFeePayer
<1>2. Activated'
  BY DEF Activated, OneFeePayer, Does, Open
<1>3. ActivationCopyIsTruthful'
  BY DEF ActivationCopyIsTruthful, SuccessCopyIsTruthful, SaysAuthorized, Busy
<1> QED BY <1>1, <1>2, <1>3 DEF CopyInv

LEMMA ModalCopy ==
  ASSUME TypeInv, ShownInv, CopyInv, OnlyConnectedSigns, OpenModal \/ CloseModal \/ Connect
  PROVE  CopyInv'
<1>1. PICK m \in BOOLEAN : Render([ui EXCEPT !.modal = m])
  BY DEF OpenModal, CloseModal, Connect
<1> DEFINE u == [ui EXCEPT !.modal = m]
<1>2. DOMAIN u = UiFields /\ u.phase = ui.phase /\ u.flow = ui.flow /\ u.lineOnly = ui.lineOnly
      /\ u.asset = ui.asset /\ u.effect = ui.effect /\ u.returned = ui.returned
  BY DEF TypeInv, UiInv, UiTyped, UiFields
<1>3. Render(u)
  BY <1>1
<1> HIDE DEF u
<1>4. link' = link /\ fee' = fee
  BY DEF OpenModal, CloseModal, Connect
<1>5. runs' = runs
  <2>1. CASE Connect
    <3>1. runs = {}
      BY <2>1, NothingToClick DEF Connect, ShownInv
    <3> QED BY <2>1, <3>1, NoneSuperseded DEF Connect
  <2>2. CASE OpenModal \/ CloseModal
    BY <2>2 DEF OpenModal, CloseModal
  <2> QED BY <2>1, <2>2
<1> QED BY <1>2, <1>3, <1>4, <1>5, SameCopy

LEMMA SwitchWalletCopy ==
  ASSUME TypeInv, ShownInv, OnlyConnectedSigns, SwitchWallet PROVE CopyInv'
<1> DEFINE p == IF ui.phase = "directory" THEN "directory" ELSE "idle"
           u == [ui EXCEPT !.connected = FALSE, !.address = Nobody, !.status = NoStatus,
                       !.hash = FALSE, !.lineOnly = FALSE, !.modal = TRUE, !.phase = p]
<1>1. Render(u) /\ runs' = RunsSuperseded /\ Clicks("switch")
  BY DEF SwitchWallet
<1>2. p \in {"directory", "idle"}
  OBVIOUS
<1> HIDE DEF p
<1>3. DOMAIN u = UiFields /\ u.phase = p
  BY DEF TypeInv, UiInv, UiTyped, UiFields
<1> HIDE DEF u
<1>4. ui'.phase # "success"
  BY <1>1, <1>2, <1>3, RenderedFields
<1>5. runs' = {}
  BY <1>1, NothingToClick, NoneSuperseded DEF ShownInv
<1> QED BY <1>4, <1>5, NoCopy

LEMMA WalletAnswerCopy ==
  ASSUME TypeInv, ShownInv, CopyInv, NEW r \in reads,
         WalletRefuses(r) \/ \E w \in link.wallets : WalletAnswers(r, w)
  PROVE  CopyInv'
<1>1. r.then = "wallet" /\ link' = link /\ runs' = runs /\ fee' = fee
  BY DEF WalletRefuses, WalletAnswers
<1>2. runs = {}
  BY <1>1 DEF ShownInv, WorkInv
<1>3. CASE WalletRefuses(r)
  <2> DEFINE u == [ui EXCEPT !.address = Nobody, !.connected = FALSE, !.status = NoStatus,
                             !.failedFromDir = r.fromDir, !.phase = "error"]
  <2>1. Render(u)
    BY <1>3 DEF WalletRefuses
  <2>2. DOMAIN u = UiFields /\ u.phase = "error"
    BY DEF TypeInv, UiInv, UiTyped, UiFields
  <2> HIDE DEF u
  <2>3. ui'.phase # "success"
    BY <2>1, <2>2, RenderedFields
  <2> QED BY <1>1, <1>2, <2>3, NoCopy
<1>4. ASSUME NEW w \in link.wallets, WalletAnswers(r, w)
      PROVE  CopyInv'
  <2> DEFINE u == [ui EXCEPT !.address = w, !.connected = TRUE, !.status = NoStatus]
  <2>1. Render(u)
    BY <1>4 DEF WalletAnswers
  <2>2. /\ DOMAIN u = UiFields
        /\ u.phase = ui.phase /\ u.flow = ui.flow /\ u.lineOnly = ui.lineOnly
        /\ u.asset = ui.asset /\ u.effect = ui.effect /\ u.returned = ui.returned
    BY DEF TypeInv, UiInv, UiTyped, UiFields
  <2> HIDE DEF u
  <2> QED BY <1>1, <2>1, <2>2, SameCopy
<1> QED BY <1>3, <1>4

LEMMA AnswerCopy ==
  ASSUME TypeInv, ShownInv, CopyInv, NEW r \in reads, NEW v, Answer(r, v) PROVE CopyInv'
<1>1. ReadTyped(r)
  BY DEF TypeInv, ReadsInv
<1>2. link' = link /\ runs' = runs
  BY DEF Answer
<1>3. PICK u : /\ Render(u) /\ DOMAIN u = UiFields
               /\ u.phase = ui.phase \/ (Shows(r) /\ u.phase \in Resting \cup {"directory", "preview"})
                                     \/ (Shows(r) /\ u.phase = "sep7" /\ IsRequest)
               /\ \A f \in UiFields \ {"status", "phase"} : u[f] = ui[f]
  BY <1>1, AnsweredFields DEF TypeInv
<1>4. /\ u.asset = ui.asset /\ u.lineOnly = ui.lineOnly /\ u.flow = ui.flow /\ u.effect = ui.effect
      /\ u.returned = ui.returned
  BY <1>3 DEF UiFields
<1>5. Shows(r) => runs = {}
  BY DEF Shows, ShownInv, WorkInv
<1>6. fee'.made <= 1 => fee.made <= 1
  BY AnsweredFee DEF TypeInv, FeeTyped
<1>7. u.phase = ui.phase \/ (u.phase # "success" /\ runs = {})
  BY <1>3, <1>5 DEF Resting
<1> QED BY <1>2, <1>3, <1>4, <1>6, <1>7, SameCopy

LEMMA OtherAnswersCopy ==
  ASSUME TypeInv, ShownInv, CopyInv, LookupAnswers \/ VerifyAnswers PROVE CopyInv'
<1>0. link' = link /\ runs' = runs /\ fee' = fee
  BY DEF LookupAnswers, VerifyAnswers
<1>1. CASE LookupAnswers
  <2>1. PICK P \in {{}, link.waiting} : Render([ui EXCEPT !.pending = P, !.lookup = FALSE])
    BY <1>1 DEF LookupAnswers
  <2> DEFINE u == [ui EXCEPT !.pending = P, !.lookup = FALSE]
  <2>2. DOMAIN u = UiFields /\ u.phase = ui.phase /\ u.flow = ui.flow /\ u.lineOnly = ui.lineOnly
        /\ u.asset = ui.asset /\ u.effect = ui.effect /\ u.returned = ui.returned
    BY DEF TypeInv, UiInv, UiTyped, UiFields
  <2>3. Render(u)
    BY <2>1
  <2> HIDE DEF u
  <2> QED BY <1>0, <2>2, <2>3, SameCopy
<1>2. CASE VerifyAnswers
  <2>1. PICK v \in {"verified", "unverified", "forged"} : Render([ui EXCEPT !.verify = v])
    BY <1>2 DEF VerifyAnswers
  <2> DEFINE u == [ui EXCEPT !.verify = v]
  <2>2. DOMAIN u = UiFields /\ u.phase = ui.phase /\ u.flow = ui.flow /\ u.lineOnly = ui.lineOnly
        /\ u.asset = ui.asset /\ u.effect = ui.effect /\ u.returned = ui.returned
    BY DEF TypeInv, UiInv, UiTyped, UiFields
  <2>3. Render(u)
    BY <2>1
  <2> HIDE DEF u
  <2> QED BY <1>0, <2>2, <2>3, SameCopy
<1> QED BY <1>1, <1>2

\* Another asset or another screen ends what the success screen said.
LEMMA MovedCopy ==
  ASSUME TypeInv, ShownInv, OnlyConnectedSigns,
         (\E a \in Assets : Pick(a)) \/ ToDirectory \/ Reset
  PROVE  CopyInv'
<1>1. runs' = {}
  BY NothingToClick, NoneSuperseded DEF Pick, ToDirectory, Reset, ShownInv
<1>2. ASSUME NEW a \in Assets, Pick(a)
      PROVE  ui'.phase # "success"
  BY <1>2, PickedFields, RenderedScreen DEF Resting
<1>3. CASE ToDirectory
  <2> DEFINE u == [ui EXCEPT !.modal = FALSE, !.hash = FALSE, !.lineOnly = FALSE, !.status = NoStatus,
                             !.asset = DefaultAsset, !.phase = "directory"]
  <2>1. DOMAIN u = UiFields /\ u.phase = "directory"
    BY DEF TypeInv, UiInv, UiTyped, UiFields
  <2>2. Render(u)
    BY <1>3 DEF ToDirectory
  <2> HIDE DEF u
  <2>3. ui'.phase # "success"
    BY <2>1, <2>2, RenderedFields
  <2> QED BY <1>1, <2>3, NoCopy
<1>4. CASE Reset
  <2> DEFINE p == IF IsRequest THEN "sep7"
                  ELSE IF ui.address = Nobody THEN "directory"
                  ELSE IF ui.status = NoStatus THEN "ready"
                  ELSE PhaseFor([ui.status EXCEPT !.asset = ui.asset])
             u == [ui EXCEPT !.hash = FALSE, !.lineOnly = FALSE, !.phase = p]
  <2>1. Render(u)
    BY <1>4 DEF Reset
  <2>2. p # "success"
    BY PhaseIsResting DEF Resting
  <2> HIDE DEF p
  <2>3. DOMAIN u = UiFields /\ u.phase = p
    BY DEF TypeInv, UiInv, UiTyped, UiFields
  <2> HIDE DEF u
  <2>4. ui'.phase # "success"
    BY <2>1, <2>2, <2>3, RenderedFields
  <2> QED BY <1>1, <2>4, NoCopy
<1> QED BY <1>1, <1>2, <1>3, <1>4, NoCopy

\* A run begins with no transaction, or with one that serves it.
LEMMA BeginsCopy ==
  ASSUME TypeInv, ShownInv, OnlyConnectedSigns, NEW name, NEW run, NEW phase \in Busy,
         Begins(name, run, phase), NEW b, Clicks(b),
         name = "sep7" => IsRequest, name \in {"claim", "authorize", "activate", "sep7"},
         run.flow = name, run.pc # "refresh",
         run.tx = NoPrep \/ (run.tx.who = run.who /\ run.tx.asset = run.asset)
  PROVE  CopyInv'
<1>1. PICK u : Render(u) /\ UiTyped(u) /\ u.phase = phase /\ u.flow = FlowOf(name)
  BY BegunFields DEF TypeInv
<1>2. ui'.phase \in Busy /\ ui'.flow = FlowOf(run.flow)
  BY <1>1, RenderedScreen
<1>3. runs' = {run}
  BY NothingToClick, NoneSuperseded DEF Begins, ShownInv
<1> QED BY <1>2, <1>3, OneCopy

LEMMA RunBeginsCopy ==
  ASSUME TypeInv, ShownInv, OnlyConnectedSigns,
         Claim \/ Authorize \/ ActivateFast \/ ActivateSlow \/ ActivateClassic
  PROVE  CopyInv'
<1>1. \A flow, pc : LET r == Run(flow, pc, ui.address, ui.asset)
                    IN r.flow = flow /\ r.pc = pc /\ r.tx = NoPrep
  BY RunMade
<1>2. CASE Claim
  BY <1>1, <1>2, BeginsCopy DEF Claim, Busy
<1>3. CASE Authorize
  BY <1>1, <1>3, BeginsCopy DEF Authorize, Busy
<1>4. CASE ActivateFast
  <2> DEFINE q == Run("activate", "sign", ui.address, ui.asset)
             r == [q EXCEPT !.tx = fee.ready, !.key = fee.key]
  <2>1. /\ q.who = ui.address /\ q.asset = ui.asset /\ q.flow = "activate" /\ q.pc = "sign"
        /\ DOMAIN q = RunFields
    BY RunMade
  <2>2. Begins("activate", r, "signing") /\ Clicks("activate") /\ Serves(fee.ready)
    BY <1>4 DEF ActivateFast
  <2> HIDE DEF q
  <2>3. /\ r.who = ui.address /\ r.asset = ui.asset /\ r.flow = "activate" /\ r.pc = "sign"
        /\ r.tx = fee.ready
    BY <2>1 DEF RunFields
  <2> HIDE DEF r
  <2>4. r.tx.who = r.who /\ r.tx.asset = r.asset
    BY <2>2, <2>3 DEF Serves
  <2> QED BY <2>2, <2>3, <2>4, BeginsCopy DEF Busy
<1>5. CASE ActivateSlow
  BY <1>1, <1>5, BeginsCopy DEF ActivateSlow, Busy
<1>6. CASE ActivateClassic
  BY <1>1, <1>6, BeginsCopy DEF ActivateClassic, Busy
<1> QED BY <1>2, <1>3, <1>4, <1>5, <1>6

LEMMA SignSep7Copy ==
  ASSUME TypeInv, ShownInv, OnlyConnectedSigns, SignSep7 PROVE CopyInv'
<1> DEFINE run == Run("sep7", "sign", ui.address, Request.asset)
           u == [ui EXCEPT !.flow = "sep7", !.lineOnly = FALSE, !.returned = FALSE,
                           !.phase = "error"]
<1>1. IsRequest /\ Clicks("signSep7")
  BY RequestIsSigned DEF SignSep7
<1>2. CASE Sep7Refuses
  <2>1. Render(u) /\ runs' = RunsSuperseded
    BY <1>2 DEF SignSep7
  <2>2. DOMAIN u = UiFields /\ u.phase = "error"
    BY DEF TypeInv, UiInv, UiTyped, UiFields
  <2> HIDE DEF u
  <2>3. ui'.phase # "success"
    BY <2>1, <2>2, RenderedFields
  <2>4. runs' = {}
    BY <1>1, <2>1, NothingToClick, NoneSuperseded DEF ShownInv
  <2> QED BY <2>3, <2>4, NoCopy
<1>3. CASE ~Sep7Refuses
  <2>1. Begins("sep7", run, "signing")
    BY <1>3 DEF SignSep7
  <2>2. run.flow = "sep7" /\ run.pc = "sign" /\ run.tx = NoPrep
    BY RunMade
  <2> HIDE DEF run
  <2> QED BY <1>1, <2>1, <2>2, BeginsCopy DEF Busy
<1> QED BY <1>2, <1>3

LEMMA FailedCopy ==
  ASSUME TypeInv, ShownInv, NEW run \in runs, NEW f, FeeTyped(f), Failed(run, reads, f)
  PROVE  CopyInv'
<1>1. PICK u : Render(u) /\ UiTyped(u) /\ u.phase = "error"
  BY FailedFields DEF TypeInv
<1>2. ui'.phase # "success"
  BY <1>1, RenderedScreen
<1>3. runs' = {}
  BY AtWork DEF Failed
<1> QED BY <1>2, <1>3, NoCopy

\* A run goes on, before it has done anything.
LEMMA MovesCopy ==
  ASSUME TypeInv, ShownInv, CopyInv, NEW run \in runs, NEW s, NEW phase \in Busy,
         Moves(run, s, phase), s.flow = run.flow, s.pc # "refresh",
         fee'.made <= 1 => s.tx = NoPrep \/ (s.tx.who = s.who /\ s.tx.asset = s.asset)
  PROVE  CopyInv'
<1>1. PICK u : Render(u) /\ UiTyped(u) /\ u.phase = phase /\ u.flow = ui.flow
  BY MovedFields DEF TypeInv
<1>2. ui'.phase \in Busy /\ ui'.flow = ui.flow
  BY <1>1, RenderedScreen
<1>3. ui.flow = FlowOf(run.flow)
  BY DEF CopyInv, FlowShown
<1>4. runs' = {s}
  BY AtWork DEF Moves
<1> QED BY <1>2, <1>3, <1>4, OneCopy

\* With one fee payer, friendbot has nobody to refuse once there is a key.
LEMMA NoKeyYet ==
  ASSUME FeeTyped(fee), fee.made <= 1, NEW t \in fee.tasks, t.pc = "fund"
  PROVE  fee.key = 0
<1>1. t.key \in 1..fee.made /\ fee.key \in 0..fee.made /\ t.key # fee.key /\ fee.made \in Nat
  BY DEF FeeTyped, TaskTyped
<1> QED BY <1>1

LEMMA PreparationCopy ==
  ASSUME TypeInv, ShownInv, CopyInv, NEW t \in fee.tasks, Funded(t) \/ NotFunded(t) \/ Built(t)
  PROVE  CopyInv'
<1>1. CASE Funded(t)
  <2>1. fee'.made = fee.made
    BY <1>1, FundedFee DEF Funded, TypeInv
  <2> QED BY <1>1, <2>1, SameUiCopy DEF Funded
<1>2. CASE NotFunded(t) \/ Built(t)
  <2>1. PICK p : /\ Resumes(t, [fee EXCEPT !.ready = p, !.tasks = @ \ {t}])
                 /\ \/ t.pc = "fund"
                    \/ p = NoPrep
                    \/ p = [who |-> t.who, asset |-> t.asset, key |-> t.key]
    BY <1>2 DEF NotFunded, Built
  <2> DEFINE f == [fee EXCEPT !.ready = p, !.tasks = @ \ {t}]
  <2>2. FeeTyped(f) /\ f.ready = p /\ f.key = fee.key /\ f.made = fee.made
    BY EndedTask DEF TypeInv
  <2>3. link' = link /\ Resumes(t, f)
    BY <1>2, <2>1 DEF NotFunded, Built
  <2> HIDE DEF f
  <2>4. CASE ~t.run
    BY <2>2, <2>3, <2>4, SameUiCopy DEF Resumes
  <2>5. CASE t.run
    <3>1. PICK r \in runs :
            /\ r.who = t.who /\ r.asset = t.asset
            /\ IF f.ready = NoPrep \/ f.key = 0 THEN Failed(r, reads, f)
               ELSE /\ Moves(r, [r EXCEPT !.pc = "sign", !.tx = f.ready, !.key = f.key], "signing")
                    /\ fee' = [f EXCEPT !.ready = NoPrep]
      BY <2>3, <2>5 DEF Resumes
    <3>2. CASE f.ready = NoPrep \/ f.key = 0
      BY <2>2, <3>1, <3>2, FailedCopy
    <3>3. CASE ~(f.ready = NoPrep \/ f.key = 0)
      <4> DEFINE s == [r EXCEPT !.pc = "sign", !.tx = f.ready, !.key = f.key]
      <4>0. RunTyped(r)
        BY DEF TypeInv, RunsInv
      <4>1. /\ s.flow = r.flow /\ s.who = r.who /\ s.asset = r.asset /\ s.pc = "sign"
            /\ s.tx = f.ready
        BY <4>0 DEF RunTyped, RunFields
      <4>2. Moves(r, s, "signing") /\ fee' = [f EXCEPT !.ready = NoPrep]
        BY <3>1, <3>3
      <4> HIDE DEF s
      <4>3. fee'.made = fee.made
        BY <2>2, <4>2, Unready
      <4>4. fee.made <= 1 => p = [who |-> t.who, asset |-> t.asset, key |-> t.key]
        BY <2>1, <2>2, <3>3, NoKeyYet DEF TypeInv
      <4>5. fee.made <= 1 => s.tx.who = s.who /\ s.tx.asset = s.asset
        BY <2>2, <3>1, <4>1, <4>4
      <4> QED BY <4>1, <4>2, <4>3, <4>5, MovesCopy DEF Busy
    <3> QED BY <3>2, <3>3
  <2> QED BY <2>4, <2>5
<1> QED BY <1>1, <1>2


LEMMA BuildAndSignCopy ==
  ASSUME TypeInv, ShownInv, CopyInv, NEW run \in runs, BuildRun(run) \/ SignRun(run)
  PROVE  CopyInv'
<1> DEFINE a == [run EXCEPT !.pc = "sign"]
           b == [run EXCEPT !.pc = "submit"]
<1>0. RunTyped(run)
  BY DEF TypeInv, RunsInv
<1>1. \/ Failed(run, reads, fee)
      \/ Moves(run, a, "signing") /\ fee' = fee
      \/ Moves(run, b, "submitting") /\ fee' = fee
  BY DEF BuildRun, SignRun, Signing
<1>2. /\ a.flow = run.flow /\ a.who = run.who /\ a.asset = run.asset /\ a.pc = "sign"
      /\ a.tx = run.tx
      /\ b.flow = run.flow /\ b.who = run.who /\ b.asset = run.asset /\ b.pc = "submit"
      /\ b.tx = run.tx
  BY <1>0, RunGoesOn
<1>3. fee.made <= 1 => run.tx = NoPrep \/ (run.tx.who = run.who /\ run.tx.asset = run.asset)
  BY DEF CopyInv, TxServes, OneFeePayer
<1> HIDE DEF a, b
<1>4. CASE Failed(run, reads, fee)
  BY <1>4, FailedCopy DEF TypeInv
<1>5. CASE Moves(run, a, "signing") /\ fee' = fee
  BY <1>2, <1>3, <1>5, MovesCopy DEF Busy
<1>6. CASE Moves(run, b, "submitting") /\ fee' = fee
  BY <1>2, <1>3, <1>6, MovesCopy DEF Busy
<1> QED BY <1>1, <1>4, <1>5, <1>6

\* What a confirmed activation did is no less than what the screen will say.
LEMMA OutcomeDoes ==
  ASSUME TypeInv, ShownInv, CopyInv, NEW run \in runs, run.flow = "activate", OneFeePayer,
         NEW o \in Outcomes, Truthful(o), ~LineOnly(o, run.asset)
  PROVE  Does(Did(run, o), run.asset)
<1>1. Did(run, o) = o.did
  BY DEF CopyInv, TxServes, Did
<1>2. run.asset \in Assets /\ run.asset # Nothing
  BY AtWork, AssetsLive DEF RunShown, TypeInv, UiInv, UiTyped
<1>3. o.said \in {"Authorized", "TrustlineOnly", "undecodable"} /\ o.did \in {"auth", "line"}
  BY DEF Outcomes
<1>4. o.said = "Authorized" \/ (o.said = "undecodable" /\ Open(run.asset))
  BY <1>2, <1>3 DEF LineOnly
<1> QED BY <1>1, <1>3, <1>4 DEF Truthful, Does

\* A run is confirmed, and what it did is in hand.
LEMMA ConfirmedCopy ==
  ASSUME TypeInv, ShownInv, CopyInv, NEW run \in runs, NEW only, NEW d, Confirmed(run, only, d),
         ui'.phase \in Busy, ui'.flow = ui.flow,
         run.flow = "authorize" => d = "auth",
         OneFeePayer /\ run.flow = "activate" /\ ~ui'.lineOnly => Does(d, run.asset)
  PROVE  CopyInv'
<1>1. PICK s : /\ runs' = (runs \ {run}) \cup {s}
               /\ s.flow = run.flow /\ s.who = run.who /\ s.asset = run.asset
               /\ s.pc = "refresh" /\ s.tx = run.tx /\ s.effect = d
  BY ConfirmedRuns DEF TypeInv
<1>2. runs' = {s} /\ fee' = fee
  BY <1>1, AtWork DEF Confirmed
<1>3. ui.flow = FlowOf(run.flow)
  BY DEF CopyInv, FlowShown
<1>4. fee.made <= 1 => run.tx = NoPrep \/ (run.tx.who = run.who /\ run.tx.asset = run.asset)
  BY DEF CopyInv, TxServes, OneFeePayer
<1> QED BY <1>1, <1>2, <1>3, <1>4, OneCopy DEF OneFeePayer

LEMMA SubmitRunCopy ==
  ASSUME TypeInv, ShownInv, CopyInv, NEW run \in runs, SubmitRun(run) PROVE CopyInv'
<1>1. ui.phase \in Busy
  BY AtWork
<1>2. CASE Failed(run, reads, fee)
  BY <1>2, FailedCopy DEF TypeInv
<1>3. ASSUME NEW o \in Outcomes, Truthful(o), run.flow \in {"activate", "sep7"},
             Confirmed(run, LineOnly(o, run.asset), Did(run, o)),
             Render([ui EXCEPT !.lineOnly = LineOnly(o, run.asset)])
      PROVE  CopyInv'
  <2>0. OneFeePayer /\ run.flow = "activate" /\ ~LineOnly(o, run.asset) => Does(Did(run, o), run.asset)
    BY <1>3, OutcomeDoes
  <2> DEFINE x == LineOnly(o, run.asset)
             d == Did(run, o)
  <2>1. /\ Confirmed(run, x, d) /\ Render([ui EXCEPT !.lineOnly = x])
        /\ OneFeePayer /\ run.flow = "activate" /\ ~x => Does(d, run.asset)
    BY <1>3, <2>0
  <2> HIDE DEF x, d
  <2>2. PICK u : /\ Render(u) /\ UiTyped(u) /\ u.phase = ui.phase /\ u.flow = ui.flow
                 /\ u.lineOnly = x
    BY <2>1, OutcomeFields DEF TypeInv
  <2>3. ui'.phase \in Busy /\ ui'.flow = ui.flow /\ ui'.lineOnly = x
    BY <1>1, <2>2, RenderedScreen
  <2> QED BY <1>3, <2>1, <2>3, ConfirmedCopy
<1>4. CASE run.flow = "authorize" /\ Confirmed(run, FALSE, "auth") /\ ui' = ui
  <2> DEFINE no == FALSE
  <2>1. Confirmed(run, no, "auth")
    BY <1>4
  <2> HIDE DEF no
  <2> QED BY <1>1, <1>4, <2>1, ConfirmedCopy
<1> DEFINE no == FALSE
<1>5. ASSUME NEW d, run.flow \in {"claim", "sep7"}, Confirmed(run, no, d),
             ui' = ui \/ Render([ui EXCEPT !.returned = TRUE])
      PROVE  CopyInv'
  <2> HIDE DEF no
  <2>2. CASE ui' = ui
    BY <1>1, <1>5, <2>2, ConfirmedCopy
  <2>3. CASE Render([ui EXCEPT !.returned = TRUE])
    <3>1. PICK u : Render(u) /\ UiTyped(u) /\ u.phase = ui.phase /\ u.flow = ui.flow
      BY <2>3, ReturnedFields DEF TypeInv
    <3>2. ui'.phase \in Busy /\ ui'.flow = ui.flow
      BY <1>1, <3>1, RenderedScreen
    <3> QED BY <1>5, <3>2, ConfirmedCopy
  <2> QED BY <1>5, <2>2, <2>3
<1>6. CASE /\ run.flow \in {"activate", "sep7"}
           /\ \E o \in Outcomes : /\ Truthful(o)
                                 /\ Confirmed(run, LineOnly(o, run.asset), Did(run, o))
                                 /\ Render([ui EXCEPT !.lineOnly = LineOnly(o, run.asset)])
  BY <1>3, <1>6
<1>7. CASE /\ run.flow \in {"claim", "sep7"}
           /\ \E d : Confirmed(run, FALSE, d) /\ (ui' = ui \/ Render([ui EXCEPT !.returned = TRUE]))
  <2>1. PICK d : Confirmed(run, no, d) /\ (ui' = ui \/ Render([ui EXCEPT !.returned = TRUE]))
    BY <1>7
  <2> HIDE DEF no
  <2> QED BY <1>5, <1>7, <2>1
<1> QED BY <1>2, <1>4, <1>6, <1>7, Submitted

LEMMA RefreshRunCopy ==
  ASSUME TypeInv, ShownInv, CopyInv, NEW run \in runs, RefreshRun(run) PROVE CopyInv'
<1>1. PICK u : /\ Render(u) /\ UiTyped(u) /\ u.asset = ui.asset /\ u.flow = ui.flow
               /\ u.phase = "success" /\ u.effect = run.effect
               /\ run.flow # "authorize" => u.lineOnly = ui.lineOnly
  BY RefreshFields
<1>2. /\ ui'.asset = ui.asset /\ ui'.lineOnly = u.lineOnly /\ ui'.phase = "success"
      /\ ui'.flow = ui.flow /\ ui'.effect = run.effect
  BY <1>1, RenderedScreen DEF Resting
<1>3. runs' = {} /\ run.pc = "refresh" /\ fee' = fee /\ link' = link
  BY AtWork DEF RefreshRun
<1>4. FlowShown' /\ TxServes' /\ Authorized' /\ Activated'
  BY <1>3 DEF FlowShown, TxServes, Authorized, Activated
<1>5. ui.flow = FlowOf(run.flow) /\ RunTyped(run) /\ RunShown(run)
  BY AtWork DEF CopyInv, FlowShown, TypeInv, RunsInv
<1>6. ASSUME ui'.flow = "activate", fee'.made <= 1, ~ui'.lineOnly
      PROVE  Does(run.effect, ui.asset)
  <2>1. run.flow \in {"activate", "authorize"}
    BY <1>2, <1>5, <1>6 DEF FlowOf, RunTyped, RunOK
  <2>2. CASE run.flow = "authorize"
    BY <1>3, <2>2 DEF CopyInv, Authorized, Does
  <2>3. CASE run.flow = "activate"
    <3>1. ~ui.lineOnly /\ fee.made <= 1 /\ run.asset = ui.asset
      BY <1>1, <1>2, <1>3, <1>5, <1>6, <2>3 DEF RunShown
    <3> QED BY <1>3, <2>3, <3>1 DEF CopyInv, Activated, OneFeePayer
  <2> QED BY <2>1, <2>2, <2>3
<1>7. ActivationCopyIsTruthful'
  BY <1>2, <1>6 DEF ActivationCopyIsTruthful, SuccessCopyIsTruthful, SaysAuthorized, Does, Open
<1> QED BY <1>4, <1>7 DEF CopyInv

LEMMA InitCopy ==
  ASSUME Init PROVE CopyInv
<1>1. link \in Links /\ ui = Opened(link) /\ runs = {}
  BY DEF Init
<1>2. ui.phase \in {"error", "sep7", "directory", "idle"}
  BY <1>1, OpenedFields
<1>3. FlowShown /\ TxServes /\ Authorized /\ Activated
  BY <1>1 DEF FlowShown, TxServes, Authorized, Activated
<1>4. ActivationCopyIsTruthful
  BY <1>2 DEF ActivationCopyIsTruthful, SuccessCopyIsTruthful, SaysAuthorized
<1> QED BY <1>3, <1>4 DEF CopyInv

LEMMA StepCopy ==
  ASSUME TypeInv, ShownInv, CopyInv, OnlyConnectedSigns, [Next]_vars PROVE CopyInv'
<1>1. CASE User
  BY <1>1, ModalCopy, SwitchWalletCopy, MovedCopy, RunBeginsCopy, SignSep7Copy DEF User
<1>2. CASE Answers
  BY <1>2, WalletAnswerCopy, AnswerCopy, OtherAnswersCopy, PreparationCopy DEF Answers
<1>3. CASE \E run \in runs : RunStep(run)
  BY <1>3, BuildAndSignCopy, SubmitRunCopy, RefreshRunCopy DEF RunStep
<1>4. CASE UNCHANGED vars
  BY <1>4, SameUiCopy DEF vars
<1> QED BY <1>1, <1>2, <1>3, <1>4 DEF Next

\* "Truthful success copy": as long as nobody signs who is only previewed, and no
\* second fee payer is funded, the page says "authorized" of its own activation
\* only where the transaction authorized the holder's line of the asset shown, or
\* created it on an open asset.
THEOREM CopyIsTruthful == Spec /\ []OnlyConnectedSigns => []ActivationCopyIsTruthful
<1>1. CopyInv => ActivationCopyIsTruthful
  BY DEF CopyInv
<1> QED BY InitCopy, TypesHold, ShownHolds, StepCopy, <1>1, PTL DEF Spec

\* All of it together for the pages on which only a connected wallet signs, from
\* what the page is opened with alone.
THEOREM UnpreviewedPagesAreRight ==
  NothingWaitsForPreviews =>
    (Spec => [](StatusIsOfTheShown /\ BadgesAreTheWallets /\ BusyIsOneRun /\ ActivationCopyIsTruthful))
<1> SUFFICES ASSUME NothingWaitsForPreviews
    PROVE Spec => [](StatusIsOfTheShown /\ BadgesAreTheWallets /\ BusyIsOneRun /\ ActivationCopyIsTruthful)
  OBVIOUS
<1> QED BY OnlyTheConnectedSign, RunsAreAlone, StatusIsShown, BadgesAreShown, CopyIsTruthful, PTL

===============================================================================
