------------------------------- MODULE MCHandoff -------------------------------
(* A relayer, a holder with a classic account, one without (its account may be *)
(* missing too), a smart account; an open and a regulated asset of the         *)
(* registry, and one nobody pins.                                              *)
EXTENDS Handoff

MCAccounts   == {"r", "h"}
MCContracts  == {"c"}
MCPinned     == {"open", "reg"}
MCRegulated  == {"reg"}
MCOther      == {"junk"}

MCReclaim    == {0, 2}
MCPredicates ==
  LET bounds == {AbsBefore(2), RelBefore(1)}
      once   == bounds \cup {Negated(p) : p \in bounds} \cup {Unconditional}
  IN once \cup {Both(p, q) : p \in {Negated(AbsBefore(1))}, q \in bounds}
          \cup {Either(p, q) : p \in {AbsBefore(1)}, q \in {Negated(b) : b \in bounds}}
          \cup {Negated(Both(Negated(AbsBefore(1)), b)) : b \in bounds}

\* Envelopes of strangers: every sequence of one, three or four of these
\* operations with a window at its head, sourced by either account.
Heads == {Begin(w, v) : w \in {Nobody, "r", "h"}, v \in {"r", "h"}}
Ops ==
  {CreateAccount(w, v, arg) : w \in {Nobody, "r"}, v \in {"h", "r"}, arg \in {"0", "some"}}
    \cup {ChangeTrust(w, a, arg) : w \in {Nobody, "h"}, a \in {"open", "junk"}, arg \in {"max", "0"}}
    \cup {Op("data", Nobody, Nobody, NoAsset, ""), Op("pay", Nobody, Nobody, NoAsset, "")}
Tails == {EndSponsoring(w) : w \in {Nobody, "r", "h"}} \cup {ChangeTrust("h", "open", "max")}
Calls ==
  {Invoke(w, contract, a, v, auth) :
     w \in {Nobody, "h"}, contract \in {"router", "another", "other call"}, a \in {"open", "junk"}, v \in {"h", "c", "r"},
     auth \in {{}, {SourceCredential}, {AddressCredential("h")}, {AddressCredential("c")}, {SourceCredential, AddressCredential("h")}}}

MCStrange ==
  {Envelope(s, ops) : s \in {"r", "h"},
     ops \in {<<a>> : a \in Calls}
        \cup {<<a, x, z>> : a \in Heads, x \in Ops, z \in Tails}
        \cup {<<a, x, y, z>> : a \in Heads, x \in Ops, y \in Ops, z \in Tails}}
================================================================================
