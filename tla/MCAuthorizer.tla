----------------------------- MODULE MCAuthorizer -----------------------------
(***************************************************************************)
(* A small instance of Authorizer: one classic holder, one contract holder *)
(* and the authorizer's own address; two possible admins; batches of up to *)
(* two addresses; amounts below, at and above the positive-amount check.   *)
(***************************************************************************)
EXTENDS Authorizer, TLC

PrincipalSymmetry == Permutations(Principals)
===============================================================================
