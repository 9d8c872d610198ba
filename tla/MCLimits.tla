------------------------------- MODULE MCLimits -------------------------------
(***************************************************************************)
(* A small instance of Limits: two clients, two sockets, one place at the  *)
(* gate, and a clock that runs for several minutes.                        *)
(***************************************************************************)
EXTENDS Limits
===============================================================================
