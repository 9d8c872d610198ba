---------------------------- MODULE MCOnboarding -----------------------------
(***************************************************************************)
(* A small instance of Onboarding: one classic holder, the authorizer's    *)
(* own address, one admin, and one predecessor of each kind.               *)
(***************************************************************************)
EXTENDS Onboarding

KindByName ==
  [p \in Predecessors |->
     CASE p = "issuer key"  -> "account"
       [] p = "stub"        -> "stub"
       [] p = "strict"      -> "refuser"
       [] p = "no-op"       -> "noop"
       [] OTHER             -> "panicker"]
===============================================================================
