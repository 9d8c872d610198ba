------------------------------ MODULE Admission -------------------------------
(***************************************************************************)
(* What a governed asset promises, whatever contract governs it: who may   *)
(* enter is decided by the issuer alone, a holder enters only while        *)
(* eligible or because the issuer names it, and a freeze takes eligibility *)
(* and authorization in one step.  Stated from the module invariants of    *)
(* contracts/trustline-authorizer/src/lib.rs; it has no pause, no policy,  *)
(* no lists and no trustlines.                                             *)
(***************************************************************************)
CONSTANTS
  Holders,   \* the addresses the issuer decides about
  Open,      \* a new line is authorized from the start
  Binding    \* the issuer's flags let a line be deauthorized

VARIABLES
  governed,    \* the authorizer is the SAC admin
  eligible,    \* who would be authorized on request
  authorized   \* who is authorized

admission == <<governed, eligible, authorized>>

AdmissionInit ==
  /\ governed \in BOOLEAN
  /\ eligible \in SUBSET Holders
  /\ authorized \in SUBSET Holders

\* Before the handover nothing is promised; after it there is no way back.
Found ==
  /\ ~governed
  /\ governed' \in BOOLEAN
  /\ eligible' \in SUBSET Holders
  /\ authorized' \in SUBSET Holders

\* Anyone may ask for an eligible holder.
Admit(a) ==
  /\ governed /\ a \in eligible
  /\ authorized' = authorized \cup {a}
  /\ UNCHANGED <<governed, eligible>>

\* The issuer edits a list: only the named holders are affected, no line is.
Relist(S) ==
  /\ governed
  /\ eligible' \in SUBSET Holders
  /\ eligible' \ S = eligible \ S
  /\ UNCHANGED <<governed, authorized>>

\* The issuer changes the rule for everyone (policy, pause): no line moves.
Rule ==
  /\ governed
  /\ eligible' \in SUBSET Holders
  /\ UNCHANGED <<governed, authorized>>

\* Eligibility and authorization go together.
Freeze(S) ==
  /\ governed
  /\ eligible' = eligible \ S
  /\ authorized' = IF Binding THEN authorized \ S ELSE authorized
  /\ UNCHANGED governed

\* They come back together, authorization only for those that hold a line.
Unfreeze(S) ==
  /\ governed
  /\ eligible' = eligible \cup S
  /\ \E R \in SUBSET S : authorized' = authorized \cup R
  /\ UNCHANGED governed

\* One line is taken down, the holder stays eligible; or the holder leaves.
Revoke(a) ==
  /\ governed
  /\ authorized' = authorized \ {a}
  /\ UNCHANGED <<governed, eligible>>

\* On an open asset a holder is authorized by opening a line.
Join(a) ==
  /\ governed /\ Open
  /\ authorized' = authorized \cup {a}
  /\ UNCHANGED <<governed, eligible>>

AdmissionNext ==
  \/ Found
  \/ \E a \in Holders : Admit(a) \/ Revoke(a) \/ Join(a)
  \/ \E S \in SUBSET Holders : Relist(S) \/ Freeze(S) \/ Unfreeze(S)
  \/ Rule

AdmissionSpec == AdmissionInit /\ [][AdmissionNext]_admission
===============================================================================
