------------------------------ MODULE MCRelayer ------------------------------
(***************************************************************************)
(* A small instance of Relayer: three requests, so that an onboarding and  *)
(* its callback meet a third request, over one holder.                     *)
(***************************************************************************)
EXTENDS Relayer, TLC

RequestSymmetry == Permutations(Requests)
===============================================================================
