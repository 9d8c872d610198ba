---------------------------- MODULE Withdraw_proofs ----------------------------
(***************************************************************************)
(* Proofs about Withdraw: whatever ticks and calls overlap, and however    *)
(* many, the page watches the ledger for every request it has handed out,  *)
(* and calls ready what the ledger showed ready unless a tick is late.     *)
(***************************************************************************)
EXTENDS Withdraw, TLAPS

\* A callback at work is about a destination, and one that has seen it ready is
\* about one that was.
TicksOK ==
  \A k \in 1..MaxTicks : /\ ticks[k].pc # "idle" => ticks[k].of \in Targets
                         /\ ticks[k].pc = "hash" => ticks[k].of \in was
CallsOK ==
  \A k \in 1..MaxCalls : /\ calls[k].pc # "idle" => calls[k].of \in Targets
                         /\ calls[k].pc \in {"ready", "done"} => calls[k].of \in was

\* The history has every destination that is ready now.
Recorded == \A d \in Targets : line[d] = "auth" => d \in was

WithdrawInv ==
  WithdrawTypeOK /\ TicksOK /\ CallsOK /\ Recorded /\ HandoffIsWatched

\* While no tick is late, one call is at work at most; its destination is the
\* form's, and the screen leaves the user nothing to do.
OneCall == \A j, k \in 1..MaxCalls : calls[j].pc # "idle" /\ calls[k].pc # "idle" => j = k
CallsOfTheForm ==
  \A k \in 1..MaxCalls :
    calls[k].pc # "idle" => calls[k].of = form /\ phase.t \in {"building", "sending-claimable"}
ScreenInv == OneCall /\ CallsOfTheForm /\ DoneWasReady

\* What each step leaves alone.
SameTicks  == UNCHANGED ticks /\ was \subseteq was'
SameCalls  == UNCHANGED calls /\ was \subseteq was'
SameLedger == UNCHANGED <<line, was>>

LEMMA TicksKept == ASSUME WithdrawInv, SameTicks PROVE TicksOK'
BY DEF WithdrawInv, TicksOK, SameTicks

LEMMA CallsKept == ASSUME WithdrawInv, SameCalls PROVE CallsOK'
BY DEF WithdrawInv, CallsOK, SameCalls

LEMMA RecordKept == ASSUME WithdrawInv, SameLedger PROVE Recorded'
BY DEF WithdrawInv, Recorded, SameLedger

LEMMA InitHolds == ASSUME Init PROVE WithdrawInv
<1> USE DEF Init, Form, Plain, Screen, IdleTick, IdleCall
<1>1. WithdrawTypeOK
  BY DEF WithdrawTypeOK, Screens
<1> QED
  BY <1>1 DEF WithdrawInv, TicksOK, CallsOK, Recorded, HandoffIsWatched

-------------------------------------------------------------------------------
(***************************************************************************)
(* The user.                                                               *)
(***************************************************************************)

LEMMA UserKeeps == ASSUME WithdrawInv, User PROVE WithdrawInv'
<1> USE TargetsApart
<1>1. CASE Edit
  <2> USE <1>1 DEF Edit
  <2>1. WithdrawTypeOK'
    BY DEF WithdrawInv, WithdrawTypeOK
  <2> QED
    BY <2>1, TicksKept, CallsKept, RecordKept
    DEF WithdrawInv, SameTicks, SameCalls, SameLedger, HandoffIsWatched
<1>2. CASE Start
  <2> USE <1>2 DEF Start
  <2>1. phase' \in {Plain("error"), Plain("building")} /\ UNCHANGED <<form, timer, ticks, line, was>>
    OBVIOUS
  <2>2. CASE UNCHANGED calls
    BY <2>1, <2>2, TicksKept, CallsKept, RecordKept
    DEF WithdrawInv, WithdrawTypeOK, SameTicks, SameCalls, SameLedger, HandoffIsWatched, Plain, Screen, Screens
  <2>3. CASE form # BadTarget /\ CallStarts("ask", form)
    <3>1. form \in Targets
      BY <2>3 DEF WithdrawInv, WithdrawTypeOK
    <3>2. WithdrawTypeOK'
      BY <2>1, <2>3, <3>1 DEF WithdrawInv, WithdrawTypeOK, CallStarts, Plain, Screen, Screens
    <3>3. CallsOK'
      BY <2>1, <2>3, <3>1 DEF WithdrawInv, WithdrawTypeOK, CallsOK, CallStarts
    <3> QED
      BY <2>1, <3>2, <3>3, TicksKept, RecordKept
      DEF WithdrawInv, SameTicks, SameLedger, HandoffIsWatched, Plain, Screen
  <2> QED
    BY <2>2, <2>3
<1>3. CASE SendClaimable
  <2> USE <1>3 DEF SendClaimable, StopPolling
  <2>1. form \in Targets
    BY DEF Buttons, FormScreen, ReadyScreen, HandoffScreen, OutcomeScreen, Targets
  <2>2. WithdrawTypeOK'
    BY <2>1 DEF WithdrawInv, WithdrawTypeOK, CallStarts, Plain, Screen, Screens
  <2>3. CallsOK'
    BY <2>1 DEF WithdrawInv, WithdrawTypeOK, CallsOK, CallStarts
  <2> QED
    BY <2>2, <2>3, TicksKept, RecordKept
    DEF WithdrawInv, SameTicks, SameLedger, HandoffIsWatched, Plain, Screen
<1>4. CASE Reset
  BY <1>4, TicksKept, CallsKept, RecordKept
  DEF Reset, StopPolling, WithdrawInv, WithdrawTypeOK, SameTicks, SameCalls, SameLedger,
      HandoffIsWatched, Form, Plain, Screen, Screens
<1> QED
  BY <1>1, <1>2, <1>3, <1>4 DEF User

-------------------------------------------------------------------------------
(***************************************************************************)
(* The relayer's answers.                                                  *)
(***************************************************************************)

LEMMA CallsKeep == ASSUME WithdrawInv, CallStep PROVE WithdrawInv'
<1> USE TargetsApart
<1> SUFFICES ASSUME NEW k \in 1..MaxCalls,
                    Handled(k) \/ Finished(k) \/ HandedOff(k) \/ Paid(k) \/ CallFails(k)
             PROVE  WithdrawInv'
  BY DEF CallStep, WithdrawInv, WithdrawTypeOK
<1> DEFINE d == calls[k].of
<1>1. calls[k].pc # "idle" => d \in Targets
  BY DEF WithdrawInv, CallsOK
<1>2. CASE Handled(k)
  <2> USE <1>2 DEF Handled
  <2>1. d \in Targets /\ UNCHANGED <<form, phase, timer, ticks>> /\ was \subseteq was'
    BY <1>1
  <2>2. PICK pc \in {"ready", "done", "uri"} :
          /\ calls' = [calls EXCEPT ![k] = [pc |-> pc, of |-> d]]
          /\ pc \in {"ready", "done"} => d \in was'
    BY <2>1 DEF CallGoes, WithdrawInv, Recorded
  <2>3. /\ line' \in [Targets -> Lines] /\ was' \subseteq Targets
        /\ \A e \in Targets : line'[e] = "auth" => e \in was'
    BY <2>1 DEF WithdrawInv, WithdrawTypeOK, Recorded, Lines
  <2>4. WithdrawTypeOK'
    BY <2>1, <2>2, <2>3 DEF WithdrawInv, WithdrawTypeOK
  <2>5. CallsOK'
    BY <2>1, <2>2 DEF WithdrawInv, WithdrawTypeOK, CallsOK
  <2> QED
    BY <2>1, <2>3, <2>4, <2>5, TicksKept
    DEF WithdrawInv, SameTicks, Recorded, HandoffIsWatched
<1>3. CASE Finished(k) \/ HandedOff(k) \/ Paid(k) \/ CallFails(k)
  <2>1. /\ UNCHANGED <<form, ticks, line, was>> /\ CallEnds(k)
        /\ calls[k].pc # "idle"
    BY <1>3 DEF Finished, HandedOff, Paid, CallFails
  <2>2. CallsOK'
    BY <2>1 DEF WithdrawInv, WithdrawTypeOK, CallsOK, CallEnds, IdleCall
  <2>3. /\ phase' \in [t : Screens, of : Targets \cup {NoTarget}]
        /\ timer' \in Targets \cup {NoTarget}
    BY <1>1, <1>3 DEF WithdrawInv, WithdrawTypeOK, Finished, HandedOff, Paid, CallFails, Plain, Screen, Screens
  <2>4. WithdrawTypeOK'
    BY <2>1, <2>3 DEF WithdrawInv, WithdrawTypeOK, CallEnds, IdleCall
  <2>5. HandoffIsWatched'
    BY <1>3, <2>1 DEF WithdrawInv, CallsOK, Finished, HandedOff, Paid, CallFails, Plain, Screen,
                      HandoffIsWatched
  <2> QED
    BY <2>1, <2>2, <2>4, <2>5, TicksKept, RecordKept DEF WithdrawInv, SameTicks, SameLedger
<1> QED
  BY <1>2, <1>3

-------------------------------------------------------------------------------
(***************************************************************************)
(* The poll, and the ledger.                                               *)
(***************************************************************************)

LEMMA TickKeeps == ASSUME WithdrawInv, Tick PROVE WithdrawInv'
<1> USE TargetsApart DEF Tick
<1>1. timer \in Targets
  BY DEF WithdrawInv, WithdrawTypeOK
<1>2. PICK k \in 1..MaxTicks : /\ ticks[k].pc = "idle"
                               /\ ticks' = [ticks EXCEPT ![k] = [pc |-> "read", of |-> timer]]
  BY DEF TickStarts, FirstFree, WithdrawInv, WithdrawTypeOK
<1>3. WithdrawTypeOK'
  BY <1>1, <1>2 DEF WithdrawInv, WithdrawTypeOK
<1>4. TicksOK'
  BY <1>1, <1>2 DEF WithdrawInv, WithdrawTypeOK, TicksOK
<1>5. HandoffIsWatched'
  BY <1>2 DEF WithdrawInv, WithdrawTypeOK, HandoffIsWatched
<1> QED
  BY <1>3, <1>4, <1>5, CallsKept, RecordKept DEF WithdrawInv, SameCalls, SameLedger

LEMMA AnswersKeep ==
  ASSUME WithdrawInv, NEW k \in DOMAIN ticks, TickSees(k) \/ TickFails(k) \/ TickShows(k)
  PROVE  WithdrawInv'
<1> USE TargetsApart
<1>0. k \in 1..MaxTicks
  BY DEF WithdrawInv, WithdrawTypeOK
<1>1. CASE TickSees(k) /\ IsReady(ticks[k].of)
  <2> DEFINE seen == [pc |-> "hash", of |-> ticks[k].of]
  <2>1. /\ ticks' = [ticks EXCEPT ![k] = seen] /\ timer' = NoTarget
        /\ UNCHANGED <<form, phase, calls, line, was>> /\ ticks[k].pc = "read"
    BY <1>1 DEF TickSees, StopPolling, TickGoes
  <2>2. ticks[k].of \in Targets /\ ticks[k].of \in was
    BY <1>0, <1>1, <2>1 DEF WithdrawInv, TicksOK, Recorded, IsReady
  <2>3. seen \in [pc : {"idle", "read", "hash"}, of : Targets \cup {NoTarget}]
    BY <2>2
  <2> HIDE DEF seen
  <2>4. WithdrawTypeOK'
    BY <1>0, <2>1, <2>3 DEF WithdrawInv, WithdrawTypeOK
  <2>5. /\ DOMAIN ticks = 1..MaxTicks /\ DOMAIN ticks' = 1..MaxTicks
        /\ ticks'[k] = seen /\ \A j \in 1..MaxTicks : j # k => ticks'[j] = ticks[j]
    BY <1>0, <2>1 DEF WithdrawInv, WithdrawTypeOK
  <2>6. seen.pc = "hash" /\ seen.of = ticks[k].of
    BY DEF seen
  <2>7. TicksOK'
    BY <2>1, <2>2, <2>5, <2>6 DEF WithdrawInv, TicksOK
  <2> QED
    BY <1>0, <2>1, <2>4, <2>5, <2>6, <2>7, CallsKept, RecordKept
    DEF WithdrawInv, SameCalls, SameLedger, HandoffIsWatched
<1>2. CASE ticks[k].pc = "read" /\ TickEnds(k) /\ UNCHANGED <<form, phase, timer, calls, line, was>>
  <2> USE <1>2 DEF TickEnds, IdleTick
  <2>1. WithdrawTypeOK' /\ TicksOK'
    BY <1>0 DEF WithdrawInv, WithdrawTypeOK, TicksOK
  <2>2. \A j \in 1..MaxTicks : ticks[j].pc = "hash" => ticks'[j].pc = "hash"
    BY <1>0 DEF WithdrawInv, WithdrawTypeOK
  <2>3. HandoffIsWatched'
    BY <2>2 DEF WithdrawInv, WithdrawTypeOK, HandoffIsWatched
  <2> QED
    BY <2>1, <2>3, CallsKept, RecordKept DEF WithdrawInv, SameCalls, SameLedger
<1>3. CASE TickShows(k)
  <2> USE <1>3 DEF TickShows, TickEnds, IdleTick, Plain, Screen
  <2>1. ticks[k].of \in was /\ ticks[k].of \in Targets
    BY <1>0 DEF WithdrawInv, TicksOK
  <2>2. WithdrawTypeOK' /\ TicksOK'
    BY <1>0, <2>1 DEF WithdrawInv, WithdrawTypeOK, TicksOK, Screens
  <2> QED
    BY <2>1, <2>2, CallsKept, RecordKept
    DEF WithdrawInv, SameCalls, SameLedger, HandoffIsWatched
<1> QED
  BY <1>1, <1>2, <1>3 DEF TickSees, TickFails

LEMMA LedgerKeeps == ASSUME WithdrawInv, LedgerMoves PROVE WithdrawInv'
<1> USE DEF LedgerMoves
<1>1. WithdrawTypeOK'
  BY DEF WithdrawInv, WithdrawTypeOK
<1>2. Recorded'
  BY DEF WithdrawInv, WithdrawTypeOK, Recorded
<1>3. SameTicks /\ SameCalls
  BY DEF SameTicks, SameCalls
<1> QED
  BY <1>1, <1>2, <1>3, TicksKept, CallsKept
  DEF WithdrawInv, SameTicks, SameCalls, HandoffIsWatched

-------------------------------------------------------------------------------
LEMMA StepKeeps == ASSUME WithdrawInv, [Next]_vars PROVE WithdrawInv'
<1>1. CASE UNCHANGED vars
  <2> USE <1>1 DEF vars
  <2>1. WithdrawTypeOK'
    BY DEF WithdrawInv, WithdrawTypeOK
  <2> QED
    BY <2>1, TicksKept, CallsKept, RecordKept
    DEF WithdrawInv, SameTicks, SameCalls, SameLedger, HandoffIsWatched
<1>2. CASE Next
  BY <1>2, UserKeeps, CallsKeep, TickKeeps, AnswersKeep, LedgerKeeps DEF Next
<1> QED
  BY <1>1, <1>2

LEMMA AlwaysWithdrawInv == Spec => []WithdrawInv
<1>1. Init => WithdrawInv
  BY InitHolds
<1>2. WithdrawInv /\ [Next]_vars => WithdrawInv'
  BY StepKeeps
<1> QED
  BY <1>1, <1>2, PTL DEF Spec

-------------------------------------------------------------------------------
(***************************************************************************)
(* The screen, while no tick is late.                                      *)
(***************************************************************************)

LEMMA ScreenUser ==
  ASSUME WithdrawInv, ScreenInv, User PROVE ScreenInv'
<1> USE DEF ScreenInv, OneCall, CallsOfTheForm, DoneWasReady, Form, Plain, Screen
<1>1. phase.t \notin {"building", "sending-claimable"}
  BY DEF User, Edit, Start, SendClaimable, Reset, Buttons, FormScreen, ReadyScreen,
         HandoffScreen, OutcomeScreen
<1>2. \A k \in 1..MaxCalls : calls[k].pc = "idle"
  BY <1>1
<1>3. CASE Edit \/ Reset
  <2>1. /\ UNCHANGED calls
        /\ phase'.t \notin {"done", "ready-already"}
    BY <1>3 DEF Edit, Reset, Buttons, FormScreen, ReadyScreen, HandoffScreen, OutcomeScreen
  <2> QED
    BY <1>2, <2>1
<1>4. CASE Start \/ SendClaimable
  <2>1. /\ UNCHANGED form
        /\ \/ UNCHANGED calls /\ phase' = Plain("error")
           \/ /\ phase'.t \in {"building", "sending-claimable"}
              /\ \E pc \in {"ask", "pay"} : CallStarts(pc, form)
    BY <1>4 DEF Start, SendClaimable
  <2>2. CASE UNCHANGED calls /\ phase' = Plain("error")
    BY <1>2, <2>2
  <2>3. CASE phase'.t \in {"building", "sending-claimable"} /\ \E pc \in {"ask", "pay"} : CallStarts(pc, form)
    <3>1. PICK pc \in {"ask", "pay"}, k \in 1..MaxCalls :
            calls' = [calls EXCEPT ![k] = [pc |-> pc, of |-> form]]
      BY <2>3 DEF CallStarts, WithdrawInv, WithdrawTypeOK
    <3>2. \A j \in 1..MaxCalls : calls'[j].pc # "idle" => j = k /\ calls'[j].of = form
      BY <1>2, <3>1 DEF WithdrawInv, WithdrawTypeOK
    <3> QED
      BY <2>1, <2>3, <3>2
  <2> QED
    BY <2>1, <2>2, <2>3
<1> QED
  BY <1>3, <1>4 DEF User

LEMMA ScreenCalls ==
  ASSUME WithdrawInv, ScreenInv, CallStep PROVE ScreenInv'
<1> USE DEF ScreenInv, OneCall, CallsOfTheForm, DoneWasReady, Plain, Screen
<1> SUFFICES ASSUME NEW k \in 1..MaxCalls,
                    Handled(k) \/ Finished(k) \/ HandedOff(k) \/ Paid(k) \/ CallFails(k)
             PROVE  ScreenInv'
  BY DEF CallStep, WithdrawInv, WithdrawTypeOK
<1>1. calls[k].pc # "idle" /\ UNCHANGED form
  BY DEF Handled, Finished, HandedOff, Paid, CallFails
<1>2. CASE Handled(k)
  <2>1. /\ UNCHANGED phase
        /\ \E pc \in {"ready", "done", "uri"} : calls' = [calls EXCEPT ![k] = [pc |-> pc, of |-> calls[k].of]]
    BY <1>2 DEF Handled, CallGoes
  <2>2. \A j \in 1..MaxCalls : calls'[j].of = calls[j].of /\ (calls'[j].pc = "idle" <=> calls[j].pc = "idle")
    BY <1>1, <2>1 DEF WithdrawInv, WithdrawTypeOK
  <2>3. phase.t \in {"building", "sending-claimable"}
    BY <1>1
  <2> QED
    BY <1>1, <2>1, <2>2, <2>3
<1>3. CASE Finished(k) \/ HandedOff(k) \/ Paid(k) \/ CallFails(k)
  <2>1. CallEnds(k) /\ UNCHANGED was
    BY <1>3 DEF Finished, HandedOff, Paid, CallFails
  <2>2. \A j \in 1..MaxCalls : calls'[j].pc = "idle"
    BY <1>1, <2>1 DEF CallEnds, IdleCall, WithdrawInv, WithdrawTypeOK
  <2>3. phase'.t \in {"done", "ready-already"} => calls[k].of \in was
    BY <1>3 DEF WithdrawInv, CallsOK, Finished, HandedOff, Paid, CallFails
  <2> QED
    BY <1>1, <2>1, <2>2, <2>3
<1> QED
  BY <1>2, <1>3

LEMMA ScreenStep ==
  ASSUME WithdrawInv, ScreenInv, NoTickIsLate, [Next]_vars PROVE ScreenInv'
<1> USE DEF ScreenInv, OneCall, CallsOfTheForm, DoneWasReady
<1>1. CASE UNCHANGED <<form, phase, calls>> /\ was \subseteq was'
  BY <1>1
<1>2. ASSUME NEW k \in DOMAIN ticks, TickShows(k) PROVE ScreenInv'
  <2>1. ticks[k].of = form /\ form \in was /\ phase.t \in {"handoff", "done"}
    BY <1>2 DEF TickShows, NoTickIsLate, WithdrawInv, WithdrawTypeOK, TicksOK
  <2>2. \A j \in 1..MaxCalls : calls[j].pc = "idle"
    BY <2>1
  <2> QED
    BY <1>2, <2>1, <2>2 DEF TickShows
<1>3. ASSUME NEW k \in DOMAIN ticks, TickSees(k) \/ TickFails(k) PROVE ScreenInv'
  BY <1>1, <1>3 DEF TickSees, TickFails
<1>4. CASE Tick \/ LedgerMoves \/ UNCHANGED vars
  BY <1>1, <1>4 DEF Tick, LedgerMoves, vars
<1> QED
  BY <1>2, <1>3, <1>4, ScreenUser, ScreenCalls DEF Next

-------------------------------------------------------------------------------
\* The state keeps its shape, for any number of destinations, ticks and calls.
THEOREM WithdrawTypeCorrect == Spec => []WithdrawTypeOK
<1>1. WithdrawInv => WithdrawTypeOK
  BY DEF WithdrawInv
<1> QED
  BY <1>1, AlwaysWithdrawInv, PTL

\* "This address can now receive" is said of the form's destination only if the
\* ledger has shown it ready, provided no tick outlives its request: late
\* answers of the relayer and failed reads do not mislead the page.
THEOREM ReadyIsTruthful == Spec => ReadyUnlessLate
<1>1. Init => ScreenInv
  BY DEF Init, Form, Plain, Screen, IdleCall, ScreenInv, OneCall, CallsOfTheForm, DoneWasReady
<1>2. WithdrawInv /\ ScreenInv /\ NoTickIsLate /\ [Next]_vars => ScreenInv'
  BY ScreenStep
<1>3. ScreenInv => DoneWasReady
  BY DEF ScreenInv
<1> QED
  BY <1>1, <1>2, <1>3, AlwaysWithdrawInv, PTL DEF Spec, ReadyUnlessLate

\* A request that has been handed out is watched: its timer runs, or a tick is
\* about to end it.
THEOREM HandoffsAreWatched == Spec => []HandoffIsWatched
<1>1. WithdrawInv => HandoffIsWatched
  BY DEF WithdrawInv
<1> QED
  BY <1>1, AlwaysWithdrawInv, PTL
================================================================================
