------------------------------ MODULE MCWithdraw ------------------------------
(***************************************************************************)
(* A small instance of Withdraw: one classic and one smart destination,    *)
(* two ticks and two relayer calls in flight.                              *)
(***************************************************************************)
EXTENDS Withdraw

MCClassic == {"g"}
MCSmart   == {"c"}
================================================================================
