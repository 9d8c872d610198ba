-------------------------------- MODULE Withdraw --------------------------------
(***************************************************************************)
(* The withdrawal page (src/withdraw.tsx): an exchange's screen that asks  *)
(* the relayer for an onboarding request, hands it to a wallet, and then   *)
(* polls the ledger until the destination can receive.  Each callback      *)
(* closes over the address and asset it was started with; the poll's timer *)
(* can be cleared, the ticks that already await a read cannot.  The status *)
(* rows, which no handler reads, are left out.                             *)
(***************************************************************************)
EXTENDS Naturals

CONSTANTS
  Classic,     \* destinations (address and asset) at a classic account
  Smart,       \* destinations at a smart account
  HasRelayer,  \* PUBLIC_RELAYER_URL is set
  MaxCalls,    \* bound on the relayer calls in flight
  MaxTicks     \* bound on the poll ticks in flight

Targets == Classic \cup Smart
NoTarget == "none"   \* no destination: nothing is polled, nothing is shown
BadTarget == "typo"  \* what the form holds is not an address

ASSUME TargetsApart ==
  NoTarget \notin Targets /\ BadTarget \notin Targets /\ Classic \cap Smart = {}
ASSUME BoundsAreNat == MaxCalls \in Nat /\ MaxTicks \in Nat

VARIABLES
  form,    \* the destination the form holds
  phase,   \* the screen, and the destination of the request or balance it holds
  timer,   \* poll: the destination the interval polls
  ticks,   \* the poll callbacks at work
  calls,   \* the relayer calls at work
  line,    \* the destination's line: "none", "unauth" or "auth"
  was      \* history: the destinations whose line was authorized at some time

vars == <<form, phase, timer, ticks, calls, line, was>>

Lines   == {"none", "unauth", "auth"}
Screens == {"form", "error", "building", "ready-already", "handoff", "done",
            "sending-claimable", "claimable"}

Screen(t, d) == [t |-> t, of |-> d]
Plain(t)     == Screen(t, NoTarget)   \* a screen that carries no destination of its own
Form         == Plain("form")

IdleTick == [pc |-> "idle", of |-> NoTarget]
IdleCall == [pc |-> "idle", of |-> NoTarget]

\* A callback at work takes the first free place.
FirstFree(places, k) == places[k].pc = "idle" /\ \A j \in 1..(k - 1) : places[j].pc # "idle"
TickStarts(d) ==
  \E k \in DOMAIN ticks : FirstFree(ticks, k) /\ ticks' = [ticks EXCEPT ![k] = [pc |-> "read", of |-> d]]
CallStarts(pc, d) ==
  \E k \in DOMAIN calls : FirstFree(calls, k) /\ calls' = [calls EXCEPT ![k] = [pc |-> pc, of |-> d]]
TickGoes(k, pc) == ticks' = [ticks EXCEPT ![k] = [pc |-> pc, of |-> ticks[k].of]]
TickEnds(k)     == ticks' = [ticks EXCEPT ![k] = IdleTick]
CallGoes(k, pc) == calls' = [calls EXCEPT ![k] = [pc |-> pc, of |-> calls[k].of]]
CallEnds(k)     == calls' = [calls EXCEPT ![k] = IdleCall]

IsReady(d) == line[d] = "auth"

StopPolling == timer' = NoTarget

-------------------------------------------------------------------------------
(***************************************************************************)
(* The user, who has the buttons of the screen.                            *)
(***************************************************************************)

FormScreen    == {"edit", "start"}
ReadyScreen   == {"reset"}
HandoffScreen == {"reset"} \cup (IF form \in Classic THEN {"claimable"} ELSE {})
OutcomeScreen == {"reset"}

Buttons ==
  IF phase.t \in {"form", "error"}          THEN FormScreen
  ELSE IF phase.t = "ready-already"         THEN ReadyScreen
  ELSE IF phase.t = "handoff"               THEN HandoffScreen
  ELSE IF phase.t \in {"claimable", "done"} THEN OutcomeScreen
  ELSE {}

Edit ==
  /\ "edit" \in Buttons
  /\ form' \in (Targets \cup {BadTarget}) \ {form}
  /\ UNCHANGED <<phase, timer, ticks, calls, line, was>>

Start ==
  /\ "start" \in Buttons
  /\ IF form = BadTarget \/ ~HasRelayer
     THEN phase' = Plain("error") /\ UNCHANGED calls
     ELSE phase' = Plain("building") /\ CallStarts("ask", form)
  /\ UNCHANGED <<form, timer, ticks, line, was>>

SendClaimable ==
  /\ "claimable" \in Buttons
  /\ StopPolling
  /\ phase' = Plain("sending-claimable")
  /\ CallStarts("pay", form)
  /\ UNCHANGED <<form, ticks, line, was>>

Reset ==
  /\ "reset" \in Buttons
  /\ StopPolling
  /\ phase' = Form
  /\ UNCHANGED <<form, ticks, calls, line, was>>

-------------------------------------------------------------------------------
(***************************************************************************)
(* The relayer's answers.                                                  *)
(***************************************************************************)

\* What POST /v1/sep7/request does for the line it reads: nothing, the
\* authorization (case A), or a request to hand out (cases B and C).
Handled(k) ==
  /\ calls[k].pc = "ask"
  /\ LET d == calls[k].of
     IN \/ line[d] = "auth"   /\ CallGoes(k, "ready") /\ UNCHANGED <<line, was>>
        \/ line[d] = "unauth" /\ CallGoes(k, "done")
           /\ line' = [line EXCEPT ![d] = "auth"] /\ was' = was \cup {d}
        \/ line[d] = "none"   /\ CallGoes(k, "uri") /\ UNCHANGED <<line, was>>
  /\ UNCHANGED <<form, phase, timer, ticks>>

\* "ready" and case A await a read of the status rows first, which may fail.
\* The screen does not keep whose answer it is.
Finished(k) ==
  /\ calls[k].pc \in {"ready", "done"}
  /\ phase' = Plain(IF calls[k].pc = "ready" THEN "ready-already" ELSE "done")
  /\ CallEnds(k)
  /\ UNCHANGED <<form, timer, ticks, line, was>>

\* Mutant of HandedOff: the poll follows the form.
HandedOffAsShown(k) ==
  /\ calls[k].pc = "uri"
  /\ phase' = Screen("handoff", calls[k].of)
  /\ timer' = form
  /\ CallEnds(k)
  /\ UNCHANGED <<form, ticks, line, was>>

\* The request is shown, and the poll of the one before it stops.
HandedOff(k) ==
  /\ calls[k].pc = "uri"
  /\ phase' = Screen("handoff", calls[k].of)
  /\ timer' = calls[k].of
  /\ CallEnds(k)
  /\ UNCHANGED <<form, ticks, line, was>>

Paid(k) ==
  /\ calls[k].pc = "pay"
  /\ phase' = Screen("claimable", calls[k].of)
  /\ CallEnds(k)
  /\ UNCHANGED <<form, timer, ticks, line, was>>

\* The relayer refuses, answers without what was asked, or is not reached.
CallFails(k) ==
  /\ calls[k].pc \in {"ask", "uri", "pay"}
  /\ phase' = Plain("error")
  /\ CallEnds(k)
  /\ UNCHANGED <<form, timer, ticks, line, was>>

-------------------------------------------------------------------------------
(***************************************************************************)
(* The poll.                                                               *)
(***************************************************************************)

\* Every three seconds, whether or not the tick before is back.
Tick ==
  /\ timer # NoTarget
  /\ TickStarts(timer)
  /\ UNCHANGED <<form, phase, timer, calls, line, was>>

\* Mutant of TickSees: the poll settles for a line.
TickSeesLine(k) ==
  /\ ticks[k].pc = "read"
  /\ IF line[ticks[k].of] # "none" THEN StopPolling /\ TickGoes(k, "hash") ELSE TickEnds(k) /\ UNCHANGED timer
  /\ UNCHANGED <<form, phase, calls, line, was>>

\* The status read answers.  It stops whatever poll runs now.
TickSees(k) ==
  /\ ticks[k].pc = "read"
  /\ IF IsReady(ticks[k].of)
     THEN StopPolling /\ TickGoes(k, "hash")
     ELSE TickEnds(k) /\ UNCHANGED timer
  /\ UNCHANGED <<form, phase, calls, line, was>>

\* Mutant of TickFails: a failed read ends the watch.
TickGivesUp(k) ==
  /\ ticks[k].pc = "read"
  /\ TickEnds(k) /\ StopPolling
  /\ UNCHANGED <<form, phase, calls, line, was>>

\* "Transient RPC failure -- keep watching".
TickFails(k) ==
  /\ ticks[k].pc = "read"
  /\ TickEnds(k)
  /\ UNCHANGED <<form, phase, timer, calls, line, was>>

\* latestTxHash answers, or has no answer, and the page is done, with whatever
\* the form holds by now.
TickShows(k) ==
  /\ ticks[k].pc = "hash"
  /\ phase' = Plain("done")
  /\ TickEnds(k)
  /\ UNCHANGED <<form, timer, calls, line, was>>

-------------------------------------------------------------------------------
\* The wallet signs and the relayer submits; the holder opens or closes a line;
\* the issuer authorizes or freezes it.
LedgerMoves ==
  /\ \E d \in Targets : \E l \in Lines \ {line[d]} :
       /\ line' = [line EXCEPT ![d] = l]
       /\ was' = IF l = "auth" THEN was \cup {d} ELSE was
  /\ UNCHANGED <<form, phase, timer, ticks, calls>>

Init ==
  /\ form = BadTarget
  /\ phase = Form
  /\ timer = NoTarget
  /\ ticks = [k \in 1..MaxTicks |-> IdleTick]
  /\ calls = [k \in 1..MaxCalls |-> IdleCall]
  /\ line \in [Targets -> Lines]
  /\ was = {d \in Targets : line[d] = "auth"}

User == Edit \/ Start \/ SendClaimable \/ Reset

CallStep == \E k \in DOMAIN calls : Handled(k) \/ Finished(k) \/ HandedOff(k) \/ Paid(k) \/ CallFails(k)

Next ==
  \/ User \/ CallStep \/ Tick \/ LedgerMoves
  \/ \E k \in DOMAIN ticks : TickSees(k) \/ TickFails(k) \/ TickShows(k)

\* The timer fires, Horizon answers or fails, and the RPC endpoint's failures
\* are transient.  Users, wallets, the relayer and the ledger owe nothing.
Fairness ==
  /\ WF_vars(Tick)
  /\ WF_vars(\E k \in DOMAIN ticks : TickShows(k))
  /\ SF_vars(\E k \in DOMAIN ticks : TickSees(k))

Spec == Init /\ [][Next]_vars /\ Fairness

-------------------------------------------------------------------------------
(***************************************************************************)
(* Properties.                                                             *)
(***************************************************************************)

\* The shape of the state.
WithdrawTypeOK ==
  /\ form \in Targets \cup {BadTarget}
  /\ phase \in [t : Screens, of : Targets \cup {NoTarget}]
  /\ timer \in Targets \cup {NoTarget}
  /\ ticks \in [1..MaxTicks -> [pc : {"idle", "read", "hash"}, of : Targets \cup {NoTarget}]]
  /\ calls \in [1..MaxCalls -> [pc : {"idle", "ask", "ready", "done", "uri", "pay"},
                                of : Targets \cup {NoTarget}]]
  /\ line \in [Targets -> Lines] /\ was \subseteq Targets

\* "This address can now receive": the page says so of the destination in the
\* form, and only if the ledger has shown its line authorized.
DoneWasReady == phase.t \in {"done", "ready-already"} => form \in was

\* A tick that has seen its destination ready is about to say so on the screen
\* of its own request.  stopPolling does not see to it: a tick at work outlives
\* its interval.
NoTickIsLate ==
  \A k \in DOMAIN ticks :
    ticks[k].pc = "hash" => phase.t \in {"handoff", "done"} /\ ticks[k].of = form

\* The page is right about who can receive unless a tick outlives its request;
\* a late tick is the only way it goes wrong, its late answers included.
ReadyUnlessLate == []NoTickIsLate => []DoneWasReady

\* While a request waits for its wallet, the ledger is watched for it: the timer
\* runs, or a tick has seen some destination ready and is about to say so.
HandoffIsWatched ==
  phase.t = "handoff" =>
    timer = phase.of \/ \E k \in DOMAIN ticks : ticks[k].pc = "hash"

\* The page learns the outcome "by watching the ledger": a handed-out request
\* whose destination stays ready does not wait for ever.
HandoffEnds ==
  \A d \in Targets :
    phase = Screen("handoff", d) ~> phase # Screen("handoff", d) \/ ~IsReady(d)
================================================================================
