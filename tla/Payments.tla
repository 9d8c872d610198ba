------------------------------- MODULE Payments -------------------------------
(***************************************************************************)
(* What POST /v1/claimable/send promises, whatever relayer and network do: *)
(* each order is paid once at most, only while it is open, and only a      *)
(* payment that was made is confirmed.  It has no requests, transactions,  *)
(* sequence numbers, timeouts or restarts.                                 *)
(***************************************************************************)
EXTENDS Naturals

CONSTANT Orders   \* the calls that clients make

VARIABLES
  ordered,     \* the orders placed
  open,        \* those that may still be paid
  made,        \* how often each has been paid
  confirmed    \* those whose client holds a balance id

payments == <<ordered, open, made, confirmed>>

PaymentsInit ==
  /\ ordered = {} /\ open = {} /\ confirmed = {}
  /\ made = [o \in Orders |-> 0]

Order(o) ==
  /\ o \notin ordered
  /\ ordered' = ordered \cup {o}
  /\ open' = open \cup {o}
  /\ UNCHANGED <<made, confirmed>>

\* The ledger pays an open order, which closes it.
Make(o) ==
  /\ o \in open
  /\ made' = [made EXCEPT ![o] = @ + 1]
  /\ open' = open \ {o}
  /\ UNCHANGED <<ordered, confirmed>>

\* These orders will not be paid any more, whether or not they have been.
Lapse(S) ==
  /\ open' = open \ S
  /\ UNCHANGED <<ordered, made, confirmed>>

Confirm(o) ==
  /\ made[o] = 1
  /\ confirmed' = confirmed \cup {o}
  /\ UNCHANGED <<ordered, open, made>>

PaymentsNext ==
  \/ \E o \in Orders : Order(o) \/ Make(o) \/ Confirm(o)
  \/ \E S \in SUBSET open : Lapse(S)

PaymentsSpec == PaymentsInit /\ [][PaymentsNext]_payments
===============================================================================
