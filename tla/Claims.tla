--------------------------------- MODULE Claims ---------------------------------
(***************************************************************************)
(* Claimable balances (claimable.ts): the balance on the ledger and its    *)
(* claimants, each with a predicate; what a page makes of those it finds,  *)
(* and the steps a recipient takes.  Instants are numbers; a relative      *)
(* bound counts from the ledger that created the balance.                  *)
(***************************************************************************)
EXTENDS Naturals, Sequences

CONSTANT MaxDepth    \* how deep claim predicates nest; the ledger has a limit too

ASSUME DepthIsNat == MaxDepth \in Nat \ {0}

\* Claim predicates, as data.
Unconditional == [kind |-> "unconditional"]
AbsBefore(t)  == [kind |-> "abs_before", t |-> t]
RelBefore(t)  == [kind |-> "rel_before", t |-> t]
Negated(p)    == [kind |-> "not", p |-> p]
Both(p, q)    == [kind |-> "and", p |-> p, q |-> q]
Either(p, q)  == [kind |-> "or", p |-> p, q |-> q]

Unnested == [kind : {"unconditional"}] \cup [kind : {"abs_before", "rel_before"}, t : Nat]

\* The predicates that nest n deep at most.
Nested[n \in 0..MaxDepth] ==
  IF n = 0 THEN Unnested
  ELSE Unnested \cup [kind : {"not"}, p : Nested[n - 1]]
                \cup [kind : {"and", "or"}, p : Nested[n - 1], q : Nested[n - 1]]

AllPredicates == Nested[MaxDepth]

\* The ledger's verdict on a predicate, for a balance created then, now (external).
Satisfied(p, created, now) ==
  LET holds[x \in AllPredicates] ==
        \/ x.kind = "unconditional"
        \/ x.kind = "abs_before" /\ now < x.t
        \/ x.kind = "rel_before" /\ now < created + x.t
        \/ x.kind = "not" /\ ~holds[x.p]
        \/ x.kind = "and" /\ holds[x.p] /\ holds[x.q]
        \/ x.kind = "or" /\ (holds[x.p] \/ holds[x.q])
  IN holds[p]

\* Horizon's answer (external): relative bounds become absolute ones.
Resolved(p, created) ==
  LET resolved[x \in AllPredicates] ==
        IF x.kind = "rel_before" THEN AbsBefore(created + x.t)
        ELSE IF x.kind = "not"   THEN Negated(resolved[x.p])
        ELSE IF x.kind = "and"   THEN Both(resolved[x.p], resolved[x.q])
        ELSE IF x.kind = "or"    THEN Either(resolved[x.p], resolved[x.q])
        ELSE x
  IN resolved[p]

-------------------------------------------------------------------------------
Claimant(w, p) == [who |-> w, predicate |-> p]

\* A balance on the ledger.
Balance(asset, claimants, created) == [asset |-> asset, claimants |-> claimants, created |-> created]

\* The claimants buildClaimableBalanceDelivery names; a delay of 0 is none.
DeliveredTo(sender, recipient, reclaimAfter) ==
  {Claimant(recipient, Unconditional)}
    \cup (IF reclaimAfter = 0 \/ sender = recipient THEN {}
          ELSE {Claimant(sender, Negated(RelBefore(reclaimAfter)))})

\* Whether the ledger lets w claim b at an instant.
MayClaim(b, w, now) ==
  \E c \in b.claimants : c.who = w /\ Satisfied(c.predicate, b.created, now)

-------------------------------------------------------------------------------
\* Mutant of PredicateHolds: the bound itself still counts.
PredicateHoldsInclusive(p, now) ==
  LET holds[x \in AllPredicates] ==
        \/ x.kind \in {"unconditional", "rel_before"}
        \/ x.kind = "abs_before" /\ now <= x.t
        \/ x.kind = "not" /\ ~holds[x.p]
        \/ x.kind = "and" /\ holds[x.p] /\ holds[x.q]
        \/ x.kind = "or" /\ (holds[x.p] \/ holds[x.q])
  IN holds[p]

\* The page's verdict: a relative bound that Horizon did not resolve holds.
\* Instants are those that a Date holds as Horizon writes them, before the year
\* 10000; a bound beyond is an Invalid Date there, which is later than nothing.
PredicateHolds(p, now) ==
  LET holds[x \in AllPredicates] ==
        \/ x.kind \in {"unconditional", "rel_before"}
        \/ x.kind = "abs_before" /\ now < x.t
        \/ x.kind = "not" /\ ~holds[x.p]
        \/ x.kind = "and" /\ holds[x.p] /\ holds[x.q]
        \/ x.kind = "or" /\ (holds[x.p] \/ holds[x.q])
  IN holds[p]

\* unlockTime: when a not(abs_before) lock opens, or never.
Never == 0
UnlockTime(p) == IF p.kind = "not" /\ p.p.kind = "abs_before" THEN p.p.t ELSE Never

\* findClaimableBalances: whether the page offers b to w.  Horizon lists w as a
\* claimant and resolves the predicate, or not.
Offered(b, w, now, resolves) ==
  \E c \in b.claimants :
    c.who = w /\ PredicateHolds(IF resolves THEN Resolved(c.predicate, b.created) ELSE c.predicate, now)

\* The entry's claimableAfter.
ClaimableAfter(b, w) ==
  UnlockTime(Resolved((CHOOSE c \in b.claimants : c.who = w).predicate, b.created))

\* Under which parities of negations a relative bound stands.
RelativeUnder(p) ==
  LET parities[x \in AllPredicates] ==
        {i \in {0, 1} : \/ x.kind = "rel_before" /\ i = 0
                        \/ x.kind = "not" /\ 1 - i \in parities[x.p]
                        \/ x.kind \in {"and", "or"} /\ i \in parities[x.p] \cup parities[x.q]}
  IN parities[p]

NegatesRelative(p) == 1 \in RelativeUnder(p)

-------------------------------------------------------------------------------
Step(kind, signer) == [kind |-> kind, signer |-> signer]

\* Mutant of PlanClaim: an unauthorized line is a line.
PlanClaimAnyLine(hasTrustline, isAuthorized, authRequired) ==
  IF hasTrustline THEN <<Step("claim", "user")>>
  ELSE IF ~authRequired THEN <<Step("claim-with-trustline", "user+integrator")>>
  ELSE <<Step("create-trustline", "user+integrator"), Step("authorize", "integrator"), Step("claim", "user")>>

\* planClaim.
PlanClaim(hasTrustline, isAuthorized, authRequired) ==
  IF hasTrustline /\ (isAuthorized \/ ~authRequired) THEN <<Step("claim", "user")>>
  ELSE IF hasTrustline   THEN <<Step("authorize", "integrator"), Step("claim", "user")>>
  ELSE IF ~authRequired  THEN <<Step("claim-with-trustline", "user+integrator")>>
  ELSE <<Step("create-trustline", "user+integrator"), Step("authorize", "integrator"), Step("claim", "user")>>
================================================================================
