---------------------------- MODULE Handoff_proofs ----------------------------
(***************************************************************************)
(* Theorems of module Handoff.                                             *)
(***************************************************************************)
EXTENDS Handoff, FiniteSetTheorems, WellFoundedInduction, TLAPS

USE RelayerIsClassic, PinnedApart, TimesAreNat, StrangeTyped

-------------------------------------------------------------------------------
(***************************************************************************)
(* Folding an envelope's operations over the ledger.                       *)
(***************************************************************************)

\* Induction over the naturals, for sets (the library's takes a predicate, which
\* the provers cannot instantiate).
LEMMA NatSetInduction ==
  ASSUME NEW S, 0 \in S, \A n \in Nat : n \in S => n + 1 \in S
  PROVE  Nat \subseteq S
<1> DEFINE Less == {ss \in Nat \X Nat : ss[1] < ss[2]}
           Out  == {n \in Nat : n \notin S}
<1>1. SUFFICES ASSUME Out # {} PROVE FALSE
  OBVIOUS
<1>2. IsWellFoundedOn(Less, Nat)
  BY NatLessThanWellFounded DEF OpToRel
<1>3. PICK m \in Out : \A y \in Out : ~(<<y, m>> \in Less)
  BY <1>1, <1>2, WFMin
<1>4. m \in Nat /\ m # 0 /\ m \notin S
  BY <1>3
<1>5. m - 1 \in Nat /\ <<m - 1, m>> \in Less
  BY <1>4
<1>6. m - 1 \in S
  BY <1>3, <1>5
<1> QED
  BY <1>4, <1>5, <1>6

\* The ledger after each of the first n operations.
Prefix(env, L, n, f) == f = [i \in 0..n |-> IF i = 0 THEN L ELSE Apply(env.ops[i], env, f[i - 1])]

\* There is such a function for every n.
LEMMA PrefixExists ==
  ASSUME NEW env, NEW L
  PROVE  \A n \in Nat : \E f : Prefix(env, L, n, f)
<1> DEFINE S == {n \in Nat : \E f : Prefix(env, L, n, f)}
<1>1. 0 \in S
  <2>1. Prefix(env, L, 0, [i \in 0..0 |-> L])
    BY DEF Prefix
  <2> QED
    BY <2>1
<1>2. ASSUME NEW n \in Nat, n \in S PROVE n + 1 \in S
  <2>1. PICK f : Prefix(env, L, n, f)
    BY <1>2
  <2> DEFINE g == [i \in 0..(n + 1) |-> IF i <= n THEN f[i] ELSE Apply(env.ops[i], env, f[i - 1])]
  <2>2. \A i \in 0..n : f[i] = IF i = 0 THEN L ELSE Apply(env.ops[i], env, f[i - 1])
    BY <2>1 DEF Prefix
  <2>3. \A i \in 0..(n + 1) : g[i] = IF i = 0 THEN L ELSE Apply(env.ops[i], env, g[i - 1])
    BY <2>2
  <2> HIDE DEF g
  <2>4. g = [i \in 0..(n + 1) |-> g[i]]
    BY DEF g
  <2>5. Prefix(env, L, n + 1, g)
    BY <2>3, <2>4 DEF Prefix
  <2> QED
    BY <2>5
<1> HIDE DEF S
<1>3. Nat \subseteq S
  BY <1>1, <1>2, NatSetInduction
<1> QED
  BY <1>3 DEF S

\* What Applied computes: the ledger after the last operation, if every window is
\* closed by then.
LEMMA AppliedSteps ==
  ASSUME NEW env, NEW L, Len(env.ops) \in Nat
  PROVE  \E f : /\ f[0] = L
                /\ \A i \in 1..Len(env.ops) : f[i] = Apply(env.ops[i], env, f[i - 1])
                /\ Applied(env, L) = Unless(f[Len(env.ops)],
                                            env.source \notin L.exists \/ f[Len(env.ops)].open # {},
                                            f[Len(env.ops)])
<1> DEFINE n == Len(env.ops)
           f == CHOOSE f : Prefix(env, L, n, f)
<1>1. Prefix(env, L, n, f)
  BY PrefixExists
<1>2. Applied(env, L) = Unless(f[n], env.source \notin L.exists \/ f[n].open # {}, f[n])
  BY DEF Applied, Prefix
<1> HIDE DEF f
<1>3. \A i \in 0..n : f[i] = IF i = 0 THEN L ELSE Apply(env.ops[i], env, f[i - 1])
  <2> HIDE DEF n
  <2> QED BY <1>1 DEF Prefix
<1>4. f[0] = L /\ \A i \in 1..n : f[i] = Apply(env.ops[i], env, f[i - 1])
  BY <1>3
<1> QED
  BY <1>2, <1>4

-------------------------------------------------------------------------------
(***************************************************************************)
(* What an operation does to the ledger.                                   *)
(***************************************************************************)

LedgerOf(ok, exists, lines, auth, open, paid, spent) ==
  [ok |-> ok, exists |-> exists, lines |-> lines, auth |-> auth, open |-> open, paid |-> paid, spent |-> spent]

IsLedger(L) == L = LedgerOf(L.ok, L.exists, L.lines, L.auth, L.open, L.paid, L.spent)

\* The fields of a ledger, and what updating one makes of it: the records are
\* opaque from here on.
LEMMA LedgerFields ==
  ASSUME NEW ok, NEW exists, NEW lines, NEW auth, NEW open, NEW paid, NEW spent
  PROVE  LET L == LedgerOf(ok, exists, lines, auth, open, paid, spent)
         IN /\ IsLedger(L) /\ L.ok = ok /\ L.exists = exists /\ L.lines = lines /\ L.auth = auth
            /\ L.open = open /\ L.paid = paid /\ L.spent = spent
BY DEF LedgerOf, IsLedger

\* One field updated.
LEMMA LedgerUpdates ==
  ASSUME NEW L, IsLedger(L), NEW x
  PROVE  /\ [L EXCEPT !.ok = x] = LedgerOf(x, L.exists, L.lines, L.auth, L.open, L.paid, L.spent)
         /\ [L EXCEPT !.exists = x] = LedgerOf(L.ok, x, L.lines, L.auth, L.open, L.paid, L.spent)
         /\ [L EXCEPT !.lines = x] = LedgerOf(L.ok, L.exists, x, L.auth, L.open, L.paid, L.spent)
         /\ [L EXCEPT !.auth = x] = LedgerOf(L.ok, L.exists, L.lines, x, L.open, L.paid, L.spent)
         /\ [L EXCEPT !.open = x] = LedgerOf(L.ok, L.exists, L.lines, L.auth, x, L.paid, L.spent)
         /\ [L EXCEPT !.paid = x] = LedgerOf(L.ok, L.exists, L.lines, L.auth, L.open, x, L.spent)
         /\ [L EXCEPT !.spent = x] = LedgerOf(L.ok, L.exists, L.lines, L.auth, L.open, L.paid, x)
BY DEF LedgerOf, IsLedger

\* Two fields updated: a line with its authorization.
LEMMA LedgerLined ==
  ASSUME NEW L, IsLedger(L), NEW x, NEW y
  PROVE  [L EXCEPT !.lines = x, !.auth = y] = LedgerOf(L.ok, L.exists, x, y, L.open, L.paid, L.spent)
<1> DEFINE M == [L EXCEPT !.lines = x]
<1>1. [L EXCEPT !.lines = x, !.auth = y] = [M EXCEPT !.auth = y]
  OBVIOUS
<1>2. M = LedgerOf(L.ok, L.exists, x, L.auth, L.open, L.paid, L.spent)
  BY LedgerUpdates
<1> HIDE DEF M
<1>3. [M EXCEPT !.auth = y] = LedgerOf(L.ok, L.exists, x, y, L.open, L.paid, L.spent)
  <2>0. IsLedger(M)
    BY <1>2, LedgerFields
  <2>1. M.ok = L.ok /\ M.exists = L.exists /\ M.lines = x /\ M.open = L.open /\ M.paid = L.paid /\ M.spent = L.spent
    BY <1>2, LedgerFields
  <2>2. [M EXCEPT !.auth = y] = LedgerOf(M.ok, M.exists, M.lines, y, M.open, M.paid, M.spent)
    BY Zenon, <2>0, LedgerUpdates
  <2> QED
    BY <2>1, <2>2
<1> QED
  BY <1>1, <1>3

\* Two fields updated: an account with what it was given.
LEMMA LedgerCreated ==
  ASSUME NEW L, IsLedger(L), NEW x, NEW y
  PROVE  [L EXCEPT !.exists = x, !.spent = y] = LedgerOf(L.ok, x, L.lines, L.auth, L.open, L.paid, y)
<1> DEFINE M == [L EXCEPT !.exists = x]
<1>1. [L EXCEPT !.exists = x, !.spent = y] = [M EXCEPT !.spent = y]
  OBVIOUS
<1>2. M = LedgerOf(L.ok, x, L.lines, L.auth, L.open, L.paid, L.spent)
  BY LedgerUpdates
<1> HIDE DEF M
<1>3. [M EXCEPT !.spent = y] = LedgerOf(L.ok, x, L.lines, L.auth, L.open, L.paid, y)
  <2>0. IsLedger(M)
    BY <1>2, LedgerFields
  <2>1. M.ok = L.ok /\ M.exists = x /\ M.lines = L.lines /\ M.auth = L.auth /\ M.open = L.open /\ M.paid = L.paid
    BY <1>2, LedgerFields
  <2>2. [M EXCEPT !.spent = y] = LedgerOf(M.ok, M.exists, M.lines, M.auth, M.open, M.paid, y)
    BY Zenon, <2>0, LedgerUpdates
  <2> QED
    BY <2>1, <2>2
<1> QED
  BY <1>1, <1>3

\* What the relayer offers to pay for.
IsOffered(entry) ==
  \E w \in Holders : entry = <<"account", w>> \/ \E a \in Pinned : entry = <<"line", w, a>>

OnlyOffered(L) == Relayer \notin L.spent /\ \A x \in L.paid : x.who = Relayer => IsOffered(x.entry)

\* A line of an open asset is authorized from the start.
OpenAreAuthorized(L) == \A w, a : <<w, a>> \in L.lines /\ a \notin Regulated => <<w, a>> \in L.auth

LedgerInv(L) == IsLedger(L) /\ L.exists \subseteq Accounts /\ OnlyOffered(L) /\ OpenAreAuthorized(L)

\* M comes of L without harm.
Follows(L, M) == LedgerInv(M) /\ L.exists \subseteq M.exists

\* A refusal only marks the ledger.
LEMMA UnlessKeeps ==
  ASSUME NEW L, LedgerInv(L), NEW M, Follows(L, M), NEW refused
  PROVE  Follows(L, Unless(L, refused, M))
<1> DEFINE no == FALSE
           N  == [L EXCEPT !.ok = no]
<1>1. Unless(L, refused, M) \in {N, M}
  BY DEF Unless
<1> HIDE DEF no
<1>2. N = LedgerOf(no, L.exists, L.lines, L.auth, L.open, L.paid, L.spent)
  BY LedgerUpdates DEF LedgerInv
<1> HIDE DEF N
<1>3. Follows(L, N)
  BY <1>2, LedgerFields DEF Follows, LedgerInv, OnlyOffered, OpenAreAuthorized
<1> QED
  BY <1>1, <1>3

\* A reserve more that is paid.
LEMMA PaidIs ==
  ASSUME NEW L, IsLedger(L), NEW w, NEW entry
  PROVE  LET P == Paid(L, w, entry)
         IN /\ IsLedger(P) /\ P = LedgerOf(L.ok, L.exists, L.lines, L.auth, L.open, P.paid, L.spent)
            /\ P.paid = L.paid \cup {[who |-> Payer(L, w), entry |-> entry]}
<1> DEFINE paid == L.paid \cup {[who |-> Payer(L, w), entry |-> entry]}
<1>1. Paid(L, w, entry) = [L EXCEPT !.paid = paid]
  BY DEF Paid
<1> HIDE DEF paid
<1>2. Paid(L, w, entry) = LedgerOf(L.ok, L.exists, L.lines, L.auth, L.open, paid, L.spent)
  BY <1>1, LedgerUpdates
<1> QED
  BY <1>2, LedgerFields DEF paid

\* A reserve that is offered does no harm.
LEMMA PaidKeeps ==
  ASSUME NEW L, LedgerInv(L), NEW w, NEW entry, IsOffered(entry)
  PROVE  Follows(L, Paid(L, w, entry))
<1> DEFINE P == Paid(L, w, entry)
           x == [who |-> Payer(L, w), entry |-> entry]
<1>1. P = LedgerOf(L.ok, L.exists, L.lines, L.auth, L.open, P.paid, L.spent) /\ P.paid = L.paid \cup {x}
  BY PaidIs DEF LedgerInv
<1>2. x.entry = entry
  OBVIOUS
<1> HIDE DEF P, x
<1>3. Follows(L, P)
  BY <1>1, <1>2, LedgerFields DEF Follows, LedgerInv, OnlyOffered, OpenAreAuthorized
<1> QED
  BY <1>3 DEF P

\* WithLine, field by field.
LEMMA WithLineIs ==
  ASSUME NEW L, IsLedger(L), NEW w, NEW a, NEW authorized \in BOOLEAN
  PROVE  LET P     == Paid(L, w, <<"line", w, a>>)
             new   == <<w, a>> \notin L.lines
             lines == IF new THEN L.lines \cup {<<w, a>>} ELSE L.lines
             auth  == IF authorized \/ (new /\ a \notin Regulated) THEN L.auth \cup {<<w, a>>} ELSE L.auth
         IN WithLine(L, w, a, authorized)
              = LedgerOf(L.ok, L.exists, lines, auth, L.open, IF new THEN P.paid ELSE L.paid, L.spent)
<1> DEFINE P == Paid(L, w, <<"line", w, a>>)
           N == [P EXCEPT !.lines = @ \cup {<<w, a>>},
                          !.auth = IF a \in Regulated THEN @ ELSE @ \cup {<<w, a>>}]
           M == IF <<w, a>> \in L.lines THEN L ELSE N
<1>1. IsLedger(P) /\ P = LedgerOf(L.ok, L.exists, L.lines, L.auth, L.open, P.paid, L.spent)
  BY PaidIs
<1> HIDE DEF P
<1>2. N = LedgerOf(L.ok, L.exists, L.lines \cup {<<w, a>>},
                   IF a \in Regulated THEN L.auth ELSE L.auth \cup {<<w, a>>}, L.open, P.paid, L.spent)
  <2> DEFINE lines == L.lines \cup {<<w, a>>}
             auth  == IF a \in Regulated THEN L.auth ELSE L.auth \cup {<<w, a>>}
  <2>1. P.ok = L.ok /\ P.exists = L.exists /\ P.auth = L.auth /\ P.lines = L.lines /\ P.open = L.open /\ P.spent = L.spent
    BY <1>1, LedgerFields
  <2>2. N = [P EXCEPT !.lines = lines, !.auth = auth]
    BY <2>1
  <2> HIDE DEF lines, auth, N
  <2>3. N = LedgerOf(P.ok, P.exists, lines, auth, P.open, P.paid, P.spent)
    BY <1>1, <2>2, LedgerLined
  <2> QED
    BY <2>1, <2>3 DEF lines, auth
<1> HIDE DEF N
<1>3. IsLedger(M) /\ [M EXCEPT !.auth = @ \cup {<<w, a>>}]
        = LedgerOf(M.ok, M.exists, M.lines, M.auth \cup {<<w, a>>}, M.open, M.paid, M.spent)
  <2>1. IsLedger(M)
    BY <1>2, LedgerFields
  <2> HIDE DEF M
  <2> QED
    BY <2>1, LedgerUpdates
<1>4. WithLine(L, w, a, authorized) = IF authorized THEN [M EXCEPT !.auth = @ \cup {<<w, a>>}] ELSE M
  BY Zenon DEF WithLine, M, N, P
<1>5. CASE <<w, a>> \in L.lines
  <2>1. M = L
    BY <1>5
  <2> HIDE DEF M
  <2> QED
    BY <1>3, <1>4, <1>5, <2>1 DEF IsLedger
<1>6. CASE <<w, a>> \notin L.lines
  <2>1. M = N
    BY <1>6
  <2> HIDE DEF M
  <2>2. /\ M.ok = L.ok /\ M.exists = L.exists /\ M.open = L.open /\ M.paid = P.paid /\ M.spent = L.spent
        /\ M.lines = L.lines \cup {<<w, a>>}
        /\ M.auth = IF a \in Regulated THEN L.auth ELSE L.auth \cup {<<w, a>>}
    BY <1>2, <2>1, LedgerFields
  <2>3. (IF a \in Regulated THEN L.auth ELSE L.auth \cup {<<w, a>>}) \cup {<<w, a>>} = L.auth \cup {<<w, a>>}
    OBVIOUS
  <2>4. CASE authorized
    BY <1>3, <1>4, <1>6, <2>2, <2>3, <2>4 DEF P
  <2>5. CASE ~authorized
    BY <1>2, <1>4, <1>6, <2>1, <2>5 DEF P
  <2> QED
    BY <2>4, <2>5
<1> QED
  BY <1>5, <1>6

\* Nor does the line of a holder.
LEMMA WithLineKeeps ==
  ASSUME NEW L, LedgerInv(L), NEW w \in Holders, NEW a \in Pinned, NEW authorized \in BOOLEAN
  PROVE  Follows(L, WithLine(L, w, a, authorized))
<1> DEFINE P == Paid(L, w, <<"line", w, a>>)
           M == WithLine(L, w, a, authorized)
           new   == <<w, a>> \notin L.lines
           lines == IF new THEN L.lines \cup {<<w, a>>} ELSE L.lines
           auth  == IF authorized \/ (new /\ a \notin Regulated) THEN L.auth \cup {<<w, a>>} ELSE L.auth
           paid  == IF new THEN P.paid ELSE L.paid
<1>1. Follows(L, P)
  <2>1. IsOffered(<<"line", w, a>>)
    BY DEF IsOffered
  <2> QED
    BY <2>1, PaidKeeps
<1>2. M = LedgerOf(L.ok, L.exists, lines, auth, L.open, paid, L.spent)
  BY WithLineIs DEF LedgerInv
<1>3. \A v, b : <<v, b>> \in lines /\ b \notin Regulated => <<v, b>> \in auth
  BY DEF LedgerInv, OpenAreAuthorized
<1>4. \A x \in paid : x.who = Relayer => IsOffered(x.entry)
  BY <1>1 DEF Follows, LedgerInv, OnlyOffered
<1> HIDE DEF P, M, lines, auth, paid
<1>5. Follows(L, M)
  BY <1>2, <1>3, <1>4, LedgerFields DEF Follows, LedgerInv, OnlyOffered, OpenAreAuthorized
<1> QED
  BY <1>5 DEF M

\* An operation that costs the relayer nothing but what it offers, whoever
\* sponsors it.
Frugal(op, env) ==
  \/ op.type \in {"begin", "end", "claim"}
  \/ op.type = "createAccount" /\ op.who \in Holders \cap Accounts /\ op.arg = "0"
  \/ op.type = "changeTrust" /\ op.arg # "0" /\ op.asset \in Pinned /\ SourceOf(op, env) \in Holders
  \/ /\ op.type = "invoke" /\ op.who \in Holders /\ op.asset \in Pinned
     /\ SourceCredential \in op.auth => SourceOf(op, env) = op.who

\* No frugal operation harms the ledger.
LEMMA ApplyKeeps ==
  ASSUME NEW L, LedgerInv(L), NEW env, NEW op, Frugal(op, env)
  PROVE  Follows(L, Apply(op, env, L))
<1> DEFINE w == SourceOf(op, env)
<1>0. Follows(L, L)
  BY DEF Follows
<1>1. CASE op.type = "begin"
  <2> DEFINE opened == L.open \cup {[user |-> op.who, sponsor |-> w]}
             N == [L EXCEPT !.open = opened]
  <2>1. N = LedgerOf(L.ok, L.exists, L.lines, L.auth, opened, L.paid, L.spent)
    BY LedgerUpdates DEF LedgerInv
  <2>2. BeginApplies(L, w, op) = Unless(L, w \notin L.exists \/ w = op.who \/ \E x \in L.open : x.user \in {op.who, w}, N)
    BY DEF BeginApplies
  <2> HIDE DEF opened, N
  <2>3. Follows(L, N)
    BY <2>1, LedgerFields DEF Follows, LedgerInv, OnlyOffered, OpenAreAuthorized
  <2> QED
    BY <1>1, <2>2, <2>3, UnlessKeeps DEF Apply
<1>2. CASE op.type = "end"
  <2> DEFINE rest == {x \in L.open : x.user # w}
             N == [L EXCEPT !.open = rest]
  <2>1. N = LedgerOf(L.ok, L.exists, L.lines, L.auth, rest, L.paid, L.spent)
    BY LedgerUpdates DEF LedgerInv
  <2>2. EndApplies(L, w) = Unless(L, \A x \in L.open : x.user # w, N)
    BY DEF EndApplies
  <2> HIDE DEF rest, N
  <2>3. Follows(L, N)
    BY <2>1, LedgerFields DEF Follows, LedgerInv, OnlyOffered, OpenAreAuthorized
  <2> QED
    BY <1>2, <2>2, <2>3, UnlessKeeps DEF Apply
<1>3. CASE op.type = "createAccount"
  <2> DEFINE P == Paid(L, op.who, <<"account", op.who>>)
             N == [P EXCEPT !.exists = @ \cup {op.who},
                            !.spent = IF op.arg = "0" THEN @ ELSE @ \cup {w}]
  <2>1. op.who \in Holders \cap Accounts /\ op.arg = "0"
    BY <1>3 DEF Frugal
  <2>2. Follows(L, P) /\ P = LedgerOf(L.ok, L.exists, L.lines, L.auth, L.open, P.paid, L.spent)
    <3>1. IsOffered(<<"account", op.who>>)
      BY <2>1 DEF IsOffered
    <3> QED
      BY <3>1, PaidKeeps, PaidIs DEF LedgerInv
  <2>3. CreationApplies(L, w, op)
          = Unless(L, w \notin L.exists \/ op.who \in L.exists \/ (op.arg = "0" /\ Payer(L, op.who) = op.who), N)
    BY DEF CreationApplies
  <2> HIDE DEF P
  <2>4. N = LedgerOf(L.ok, L.exists \cup {op.who}, L.lines, L.auth, L.open, P.paid, L.spent)
    <3> DEFINE exists == L.exists \cup {op.who}
    <3>1. /\ P.ok = L.ok /\ P.exists = L.exists /\ P.lines = L.lines /\ P.auth = L.auth
          /\ P.open = L.open /\ P.spent = L.spent
      BY <2>2, LedgerFields
    <3>2. N = [P EXCEPT !.exists = exists, !.spent = L.spent]
      BY <2>1, <3>1
    <3> HIDE DEF exists, N
    <3>3. N = LedgerOf(P.ok, exists, P.lines, P.auth, P.open, P.paid, L.spent)
      BY <2>2, <3>2, LedgerCreated DEF Follows, LedgerInv
    <3> QED
      BY <3>1, <3>3 DEF exists
  <2> HIDE DEF N
  <2>5. Follows(L, N)
    BY <2>1, <2>2, <2>4, LedgerFields DEF Follows, LedgerInv, OnlyOffered, OpenAreAuthorized
  <2> QED
    BY <1>3, <2>3, <2>5, UnlessKeeps DEF Apply
<1>4. CASE op.type = "changeTrust"
  <2>1. op.arg # "0" /\ Follows(L, WithLine(L, w, op.asset, FALSE))
    BY <1>4, WithLineKeeps DEF Frugal
  <2> QED
    BY <1>4, <2>1, UnlessKeeps DEF Apply, TrustApplies
<1>5. CASE op.type = "invoke"
  <2> DEFINE M == IF SourceCredential \in op.auth /\ w # op.who THEN [L EXCEPT !.spent = @ \cup {w}] ELSE L
  <2>1. M = L
    BY <1>5 DEF Frugal
  <2>2. Follows(L, IF op.arg # "router" THEN L ELSE WithLine(L, op.who, op.asset, TRUE))
    BY <1>0, <1>5, WithLineKeeps DEF Frugal
  <2> QED
    BY <1>5, <2>1, <2>2, UnlessKeeps DEF Apply, InvokeApplies
<1>6. CASE op.type = "claim"
  BY <1>0, <1>6, UnlessKeeps DEF Apply
<1> QED
  BY <1>1, <1>2, <1>3, <1>4, <1>5, <1>6 DEF Frugal

FrugalEnvelope(env) == \A i \in 1..Len(env.ops) : Frugal(env.ops[i], env)

\* Nor does an envelope of them, by induction over its operations.
LEMMA AppliedKeeps ==
  ASSUME NEW L, LedgerInv(L), NEW env, Len(env.ops) \in Nat, FrugalEnvelope(env)
  PROVE  Follows(L, Applied(env, L))
<1>1. PICK f : /\ f[0] = L
               /\ \A i \in 1..Len(env.ops) : f[i] = Apply(env.ops[i], env, f[i - 1])
               /\ Applied(env, L) = Unless(f[Len(env.ops)],
                                           env.source \notin L.exists \/ f[Len(env.ops)].open # {},
                                           f[Len(env.ops)])
  BY AppliedSteps
<1> DEFINE S == {i \in Nat : i <= Len(env.ops) => Follows(L, f[i])}
<1>2. 0 \in S
  BY <1>1 DEF Follows
<1>3. ASSUME NEW n \in Nat, n \in S PROVE n + 1 \in S
  <2>1. SUFFICES ASSUME n + 1 <= Len(env.ops) PROVE Follows(L, f[n + 1])
    OBVIOUS
  <2>2. Follows(L, f[n])
    BY <1>3, <2>1
  <2>3. f[n + 1] = Apply(env.ops[n + 1], env, f[n]) /\ Frugal(env.ops[n + 1], env)
    BY <1>1, <2>1 DEF FrugalEnvelope
  <2>4. Follows(f[n], f[n + 1])
    BY <2>2, <2>3, ApplyKeeps DEF Follows
  <2> QED
    BY <2>2, <2>4 DEF Follows
<1> HIDE DEF S
<1>4. Nat \subseteq S
  BY <1>2, <1>3, NatSetInduction
<1>5. Follows(L, f[Len(env.ops)])
  BY <1>4 DEF S
<1>6. Follows(f[Len(env.ops)], f[Len(env.ops)])
  BY <1>5 DEF Follows
<1>7. Follows(f[Len(env.ops)], Applied(env, L))
  BY <1>1, <1>5, <1>6, UnlessKeeps DEF Follows
<1> QED
  BY <1>5, <1>7 DEF Follows

-------------------------------------------------------------------------------
(***************************************************************************)
(* Envelopes.                                                              *)
(***************************************************************************)

IsEnvelope(env) ==
  /\ env = [source |-> env.source, ops |-> env.ops, fee |-> env.fee, bump |-> env.bump,
            sigs |-> env.sigs, void |-> env.void]
  /\ Len(env.ops) \in Nat /\ DOMAIN env.ops = 1..Len(env.ops)

\* As it is built.
Unsigned(env) == env.sigs = {} /\ env.void = {}

\* A signature changes nothing else: an account's is added, a smart account's
\* entry voids those of the accounts.
LEMMA SigningKeeps ==
  ASSUME NEW env, IsEnvelope(env), NEW w
  PROVE  LET e == Signed(env, w)
         IN /\ IsEnvelope(e) /\ e.source = env.source /\ e.ops = env.ops /\ e.fee = env.fee
            /\ e.bump = env.bump
            /\ w \notin Contracts => e.sigs = env.sigs \cup {w} /\ e.void = env.void
            /\ w \in Contracts => /\ e.sigs = (env.sigs \ Accounts) \cup {w}
                                 /\ e.void = env.void \cup (env.sigs \cap Accounts)
<1> DEFINE sigs == IF w \in Contracts THEN (env.sigs \ Accounts) \cup {w} ELSE env.sigs \cup {w}
           void == IF w \in Contracts THEN env.void \cup (env.sigs \cap Accounts) ELSE env.void
           e    == [source |-> env.source, ops |-> env.ops, fee |-> env.fee, bump |-> env.bump,
                    sigs |-> sigs, void |-> void]
<1>1. env = [source |-> env.source, ops |-> env.ops, fee |-> env.fee, bump |-> env.bump,
             sigs |-> env.sigs, void |-> env.void]
  BY DEF IsEnvelope
<1>2. Signed(env, w) = e
  <2>1. CASE w \in Contracts
    BY <1>1, <2>1 DEF Signed
  <2>2. CASE w \notin Contracts
    BY <1>1, <2>2 DEF Signed
  <2> QED
    BY <2>1, <2>2
<1>3. /\ w \notin Contracts => sigs = env.sigs \cup {w} /\ void = env.void
      /\ w \in Contracts => sigs = (env.sigs \ Accounts) \cup {w} /\ void = env.void \cup (env.sigs \cap Accounts)
  OBVIOUS
<1> HIDE DEF sigs, void
<1>4. /\ e.source = env.source /\ e.ops = env.ops /\ e.fee = env.fee /\ e.bump = env.bump
      /\ e.sigs = sigs /\ e.void = void
  OBVIOUS
<1>5. IsEnvelope(e)
  BY <1>4 DEF IsEnvelope
<1> QED
  BY <1>2, <1>3, <1>4, <1>5

\* A fee bump changes who pays the fee and nothing else.
LEMMA BumpingKeeps ==
  ASSUME NEW env, IsEnvelope(env), NEW w
  PROVE  LET e == Bumped(env, w)
         IN /\ IsEnvelope(e) /\ e.source = env.source /\ e.ops = env.ops /\ e.fee = env.fee
            /\ e.bump = w /\ e.sigs = env.sigs /\ e.void = env.void
BY DEF IsEnvelope, Bumped

\* What the integrator's envelopes for a holder have in common: the relayer and
\* the holder source everything, the holder's is the only other authorization,
\* and a wallet that is not told otherwise signs as the holder.
IsFor(env, w) ==
  /\ IsEnvelope(env) /\ env.bump = Nobody /\ env.source \in {Relayer, w}
  /\ \A i \in 1..Len(env.ops) :
       env.ops[i].source \in {Nobody, Relayer, w} /\ Authorizers(env.ops[i]) \subseteq {w}
  /\ Sep7Signer(Nobody, env) = w
  /\ FrugalEnvelope(env)

\* The sponsored line.
IsSponsored(env, w, a, create) ==
  LET n == IF create THEN 4 ELSE 3
  IN /\ IsEnvelope(env) /\ env.source \in {Relayer, w} /\ Len(env.ops) = n /\ env.fee = "base"
     /\ \A i \in 1..n : env.ops[i].source \in {Nobody, Relayer, w} /\ env.ops[i].auth = {}
     /\ env.ops[1].type = "begin" /\ env.ops[1].who = w /\ SourceOf(env.ops[1], env) = Relayer
     /\ create => /\ env.ops[2].type = "createAccount" /\ env.ops[2].who = w /\ env.ops[2].arg = "0"
                  /\ SourceOf(env.ops[2], env) = Relayer
     /\ env.ops[n - 1].type = "changeTrust" /\ env.ops[n - 1].asset = a /\ env.ops[n - 1].arg = "max"
     /\ SourceOf(env.ops[n - 1], env) = w
     /\ env.ops[n].type = "end" /\ SourceOf(env.ops[n], env) = w

\* It is what buildSponsoredOnboardTx makes.
LEMMA SponsoredIs ==
  ASSUME NEW w \in Holders \cap Accounts, NEW a \in Pinned, NEW create \in BOOLEAN, NEW role \in {"sponsor", "user"}
  PROVE  LET env == SponsoredOnboard(Relayer, w, a, create, role)
         IN IsSponsored(env, w, a, create) /\ env.bump = Nobody /\ Unsigned(env) /\ (role = "sponsor" => env.source = Relayer)
<1> DEFINE source == IF role = "sponsor" THEN Relayer ELSE w
           begin  == Begin(As(Relayer, source), w)
           open   == CreateAccount(As(Relayer, source), w, "0")
           trust  == ChangeTrust(As(w, source), a, "max")
           end    == EndSponsoring(As(w, source))
           ops    == IF create THEN <<begin, open, trust, end>> ELSE <<begin, trust, end>>
           env    == SponsoredOnboard(Relayer, w, a, create, role)
<1>1. w # Nobody /\ w # Relayer /\ Relayer # Nobody
  BY DEF Holders
<1>2. env = [source |-> source, ops |-> ops, fee |-> "base", bump |-> Nobody, sigs |-> {}, void |-> {}]
  BY DEF SponsoredOnboard, Envelope
<1>3. /\ begin.type = "begin" /\ begin.source = As(Relayer, source) /\ begin.who = w /\ begin.auth = {}
      /\ open.type = "createAccount" /\ open.source = As(Relayer, source) /\ open.who = w /\ open.arg = "0" /\ open.auth = {}
      /\ trust.type = "changeTrust" /\ trust.source = As(w, source) /\ trust.asset = a /\ trust.arg = "max" /\ trust.auth = {}
      /\ end.type = "end" /\ end.source = As(w, source) /\ end.auth = {}
  BY DEF Begin, CreateAccount, ChangeTrust, EndSponsoring, Op
<1> HIDE DEF begin, open, trust, end
<1>4. /\ Len(ops) = (IF create THEN 4 ELSE 3) /\ DOMAIN ops = 1..Len(ops)
      /\ ops[1] = begin
      /\ create => ops[2] = open /\ ops[3] = trust /\ ops[4] = end
      /\ ~create => ops[2] = trust /\ ops[3] = end
  <2>1. CASE create
    <3>1. ops = <<begin, open, trust, end>>
      BY <2>1
    <3> HIDE DEF ops
    <3> QED
      BY <2>1, <3>1
  <2>2. CASE ~create
    <3>1. ops = <<begin, trust, end>>
      BY <2>2
    <3> HIDE DEF ops
    <3> QED
      BY <2>2, <3>1
  <2> QED
    BY <2>1, <2>2
<1> HIDE DEF ops, env
<1>5. env.source = source /\ env.ops = ops /\ env.fee = "base" /\ env.bump = Nobody /\ Unsigned(env) /\ IsEnvelope(env)
  BY <1>2, <1>4 DEF IsEnvelope, Unsigned
<1>6. /\ As(Relayer, source) \in {Nobody, Relayer} /\ As(w, source) \in {Nobody, w}
      /\ \A op : op.source = As(Relayer, source) => SourceOf(op, env) = Relayer
      /\ \A op : op.source = As(w, source) => SourceOf(op, env) = w
  BY <1>1, <1>5 DEF As, SourceOf
<1>7. ASSUME create PROVE IsSponsored(env, w, a, create)
  <2>1. env.ops[1] = begin /\ env.ops[2] = open /\ env.ops[3] = trust /\ env.ops[4] = end /\ Len(env.ops) = 4
    BY <1>4, <1>5, <1>7
  <2>2. \A i \in 1..4 : i = 1 \/ i = 2 \/ i = 3 \/ i = 4
    OBVIOUS
  <2>3. \A i \in 1..4 : env.ops[i].source \in {Nobody, Relayer, w} /\ env.ops[i].auth = {}
    BY <1>3, <1>6, <2>1, <2>2
  <2> QED
    BY <1>3, <1>5, <1>6, <1>7, <2>1, <2>3 DEF IsSponsored
<1>8. ASSUME ~create PROVE IsSponsored(env, w, a, create)
  <2>1. env.ops[1] = begin /\ env.ops[2] = trust /\ env.ops[3] = end /\ Len(env.ops) = 3
    BY <1>4, <1>5, <1>8
  <2>2. \A i \in 1..3 : i = 1 \/ i = 2 \/ i = 3
    OBVIOUS
  <2>3. \A i \in 1..3 : env.ops[i].source \in {Nobody, Relayer, w} /\ env.ops[i].auth = {}
    BY <1>3, <1>6, <2>1, <2>2
  <2> QED
    BY <1>3, <1>5, <1>6, <1>8, <2>1, <2>3 DEF IsSponsored
<1>9. role = "sponsor" => env.source = Relayer
  BY <1>5
<1> QED
  BY <1>5, <1>7, <1>8, <1>9 DEF env

\* The first operation of a type, where it comes first.
LEMMA FirstIs ==
  ASSUME NEW env, IsEnvelope(env), NEW n \in 1..Len(env.ops), NEW type, env.ops[n].type = type,
         \A i \in 1..(n - 1) : env.ops[i].type # type
  PROVE  OfType(env, type) # {} /\ FirstOf(env, type) = env.ops[n]
<1>1. n \in OfType(env, type) /\ \A j \in OfType(env, type) : j \in Nat /\ n <= j
  BY DEF OfType, IsEnvelope
<1>2. \A i \in OfType(env, type) : (\A j \in OfType(env, type) : i <= j) => i = n
  BY <1>1
<1>3. (CHOOSE i \in OfType(env, type) : \A j \in OfType(env, type) : i <= j) = n
  BY <1>1, <1>2
<1> QED
  BY <1>1, <1>3 DEF FirstOf

\* It asks for the holder and costs what is offered.
LEMMA SponsoredIsFor ==
  ASSUME NEW w \in Holders \cap Accounts, NEW a \in Pinned, NEW create \in BOOLEAN, NEW env,
         IsSponsored(env, w, a, create), env.bump = Nobody
  PROVE  IsFor(env, w)
<1> DEFINE n == IF create THEN 4 ELSE 3
<1>1. IsEnvelope(env) /\ env.bump = Nobody /\ env.source \in {Relayer, w} /\ Len(env.ops) = n
  BY DEF IsSponsored
<1>2. \A i \in 1..n : env.ops[i].source \in {Nobody, Relayer, w} /\ Authorizers(env.ops[i]) \subseteq {w}
  BY DEF IsSponsored, Authorizers
<1>3. Sep7Signer(Nobody, env) = w
  <2>1. env.ops[1].type = "begin" /\ env.ops[1].who = w
    BY DEF IsSponsored
  <2>2. OfType(env, "begin") # {} /\ FirstOf(env, "begin") = env.ops[1]
    BY <1>1, <2>1, FirstIs
  <2> QED
    BY <1>1, <2>1, <2>2 DEF Sep7Signer, IsOnboard
<1>4. FrugalEnvelope(env)
  <2>1. \A i \in 1..n : i = 1 \/ i = 2 \/ i = n - 1 \/ i = n
    OBVIOUS
  <2>2. Frugal(env.ops[1], env) /\ Frugal(env.ops[n], env)
    BY DEF IsSponsored, Frugal
  <2>3. Frugal(env.ops[n - 1], env)
    BY DEF IsSponsored, Frugal
  <2>4. create => Frugal(env.ops[2], env)
    BY DEF IsSponsored, Frugal
  <2> QED
    BY <1>1, <2>1, <2>2, <2>3, <2>4 DEF FrugalEnvelope
<1> QED
  BY <1>1, <1>2, <1>3, <1>4 DEF IsFor

\* The router call.
IsRouted(env, w, a) ==
  /\ IsEnvelope(env) /\ env.bump = Nobody /\ env.source \in {Relayer, w} /\ Len(env.ops) = 1 /\ env.fee = "base"
  /\ env.ops[1].type = "invoke" /\ env.ops[1].source = Nobody /\ env.ops[1].who = w
  /\ env.ops[1].asset = a /\ env.ops[1].arg = "router"
  /\ env.ops[1].auth = {IF env.source = w THEN SourceCredential ELSE AddressCredential(w)}

\* It is what buildOnboardTx makes.
LEMMA RoutedIs ==
  ASSUME NEW w \in Holders, NEW source \in {Relayer, w}, NEW a \in Pinned
  PROVE  LET env == OnboardRouter(w, source, a)
         IN IsRouted(env, w, a) /\ Unsigned(env) /\ env.source = source
<1> DEFINE env  == OnboardRouter(w, source, a)
           auth == {IF w = source THEN SourceCredential ELSE AddressCredential(w)}
           op   == Invoke(Nobody, "router", a, w, auth)
<1>1. env = [source |-> source, ops |-> <<op>>, fee |-> "base", bump |-> Nobody, sigs |-> {}, void |-> {}]
  BY DEF OnboardRouter, Envelope
<1> HIDE DEF auth
<1>2. op.type = "invoke" /\ op.source = Nobody /\ op.who = w /\ op.asset = a /\ op.arg = "router" /\ op.auth = auth
  BY DEF Invoke, Op
<1> HIDE DEF op, env
<1>3. IsEnvelope(env) /\ env.source = source /\ env.bump = Nobody /\ env.fee = "base" /\ Unsigned(env) /\ Len(env.ops) = 1
      /\ env.ops[1] = op
  BY <1>1 DEF IsEnvelope, Unsigned
<1>4. auth = {IF env.source = w THEN SourceCredential ELSE AddressCredential(w)}
  BY <1>3 DEF auth
<1>5. IsRouted(env, w, a)
  BY <1>2, <1>3, <1>4 DEF IsRouted
<1> QED
  BY <1>3, <1>5 DEF env

\* It asks for the holder and costs what is offered.
LEMMA RoutedIsFor ==
  ASSUME NEW w \in Holders, NEW a \in Pinned, NEW env, IsRouted(env, w, a)
  PROVE  IsFor(env, w)
<1>1. \A i \in 1..Len(env.ops) : i = 1
  BY DEF IsRouted
<1>2. Authorizers(env.ops[1]) \subseteq {w}
  <2>1. \A c \in env.ops[1].auth : c.kind = "address" => c.who = w
    BY DEF IsRouted, SourceCredential, AddressCredential
  <2> QED
    BY <2>1 DEF Authorizers
<1>3. Sep7Signer(Nobody, env) = w
  BY DEF IsRouted, Sep7Signer, IsOnboard
<1>4. SourceCredential \in env.ops[1].auth => SourceOf(env.ops[1], env) = w
  BY DEF IsRouted, SourceCredential, AddressCredential, SourceOf
<1>5. FrugalEnvelope(env)
  BY <1>1, <1>4 DEF FrugalEnvelope, Frugal, IsRouted
<1> QED
  BY <1>1, <1>2, <1>3, <1>5 DEF IsFor, IsRouted

\* The claim, with the line it needs or without.
IsClaimOf(env, w, a, create) ==
  LET n == Len(env.ops)
  IN /\ IsEnvelope(env) /\ env.source \in {Relayer, w}
     /\ n \in (IF create THEN {2, 4} ELSE {1})
     /\ \A i \in 1..n : env.ops[i].source \in {Nobody, Relayer, w} /\ env.ops[i].auth = {}
     /\ env.ops[n].type = "claim" /\ env.ops[n].asset = a /\ SourceOf(env.ops[n], env) = w
     /\ n # 4 => /\ \A i \in 1..n : env.ops[i].source \in {Nobody, w} /\ env.ops[i].type \in {"changeTrust", "claim"}
                 /\ env.source = w \/ \E i \in 1..n : env.ops[i].source = w
     /\ n = 2 => /\ env.ops[1].type = "changeTrust" /\ env.ops[1].asset = a /\ env.ops[1].arg = "max"
                 /\ SourceOf(env.ops[1], env) = w
     /\ n = 4 => /\ env.ops[1].type = "begin" /\ env.ops[1].who = w /\ SourceOf(env.ops[1], env) = Relayer
                 /\ env.ops[2].type = "changeTrust" /\ env.ops[2].asset = a /\ env.ops[2].arg = "max"
                 /\ SourceOf(env.ops[2], env) = w
                 /\ env.ops[3].type = "end" /\ SourceOf(env.ops[3], env) = w

\* It is what buildClaimTx makes.
LEMMA ClaimIs ==
  ASSUME NEW w \in Holders \cap Accounts, NEW source \in {Relayer, w}, NEW a \in Pinned, NEW create \in BOOLEAN,
         NEW sponsor \in {Nobody, Relayer}
  PROVE  LET env == Claim(w, source, a, create, sponsor)
         IN IsClaimOf(env, w, a, create) /\ env.bump = Nobody /\ Unsigned(env)
<1> DEFINE env   == Claim(w, source, a, create, sponsor)
           user  == As(w, source)
           trust == ChangeTrust(user, a, "max")
           take  == ClaimOp(user, a)
           begin == Begin(sponsor, w)
           end   == EndSponsoring(user)
           ops   == IF ~create THEN <<take>> ELSE IF sponsor = Nobody THEN <<trust, take>>
                    ELSE <<begin, trust, end, take>>
<1>1. env = [source |-> source, ops |-> ops, fee |-> "base", bump |-> Nobody, sigs |-> {}, void |-> {}]
  BY DEF Claim, Envelope
<1>2. w # Nobody /\ w # Relayer /\ Relayer # Nobody
  BY DEF Holders
<1>3. /\ begin.type = "begin" /\ begin.source = sponsor /\ begin.who = w /\ begin.auth = {}
      /\ trust.type = "changeTrust" /\ trust.source = user /\ trust.asset = a /\ trust.arg = "max" /\ trust.auth = {}
      /\ end.type = "end" /\ end.source = user /\ end.auth = {}
      /\ take.type = "claim" /\ take.source = user /\ take.asset = a /\ take.auth = {}
  BY DEF Begin, ChangeTrust, EndSponsoring, ClaimOp, Op
<1> HIDE DEF begin, trust, end, take
<1>4. DOMAIN ops = 1..Len(ops) /\ Len(ops) \in Nat
  <2>1. CASE ~create
    BY <2>1
  <2>2. CASE create /\ sponsor = Nobody
    BY <2>2
  <2>3. CASE create /\ sponsor # Nobody
    BY <2>3
  <2> QED
    BY <2>1, <2>2, <2>3
<1> HIDE DEF ops, env
<1>5. env.source = source /\ env.ops = ops /\ env.bump = Nobody /\ Unsigned(env) /\ IsEnvelope(env)
  BY <1>1, <1>4 DEF IsEnvelope, Unsigned
<1>6. /\ user \in {Nobody, w} /\ (source = w \/ user = w)
      /\ \A op : op.source = user => SourceOf(op, env) = w
      /\ sponsor = Relayer => SourceOf(begin, env) = Relayer
  BY <1>2, <1>3, <1>5 DEF As, SourceOf
<1> HIDE DEF user
<1>7. ASSUME ~create PROVE IsClaimOf(env, w, a, create)
  <2>1. Len(env.ops) = 1 /\ env.ops[1] = take
    BY <1>5, <1>7 DEF ops
  <2>2. \A i \in 1..1 : i = 1
    OBVIOUS
  <2> QED
    BY <1>3, <1>5, <1>6, <1>7, <2>1, <2>2 DEF IsClaimOf
<1>8. ASSUME create, sponsor = Nobody PROVE IsClaimOf(env, w, a, create)
  <2>1. ops = <<trust, take>>
    BY <1>8 DEF ops
  <2>2. Len(env.ops) = 2 /\ env.ops[1] = trust /\ env.ops[2] = take
    BY <1>5, <2>1
  <2>3. \A i \in 1..2 : i = 1 \/ i = 2
    OBVIOUS
  <2> QED
    BY <1>3, <1>5, <1>6, <1>8, <2>2, <2>3 DEF IsClaimOf
<1>9. ASSUME create, sponsor = Relayer PROVE IsClaimOf(env, w, a, create)
  <2>1. ops = <<begin, trust, end, take>>
    BY <1>2, <1>9 DEF ops
  <2>2. Len(env.ops) = 4 /\ env.ops[1] = begin /\ env.ops[2] = trust /\ env.ops[3] = end /\ env.ops[4] = take
    BY <1>5, <2>1
  <2>3. \A i \in 1..4 : i = 1 \/ i = 2 \/ i = 3 \/ i = 4
    OBVIOUS
  <2>4. \A i \in 1..4 : env.ops[i].source \in {Nobody, Relayer, w} /\ env.ops[i].auth = {}
    BY <1>3, <1>6, <1>9, <2>2, <2>3
  <2> QED
    BY <1>3, <1>5, <1>6, <1>9, <2>2, <2>4 DEF IsClaimOf
<1> QED
  BY <1>5, <1>7, <1>8, <1>9 DEF env

\* It asks for the holder and costs what is offered.
LEMMA ClaimIsFor ==
  ASSUME NEW w \in Holders \cap Accounts, NEW a \in Pinned, NEW create \in BOOLEAN, NEW env,
         IsClaimOf(env, w, a, create), env.bump = Nobody
  PROVE  IsFor(env, w)
<1> DEFINE n == Len(env.ops)
<1>0. w # Nobody /\ w # Relayer /\ Relayer # Nobody
  BY DEF Holders
<1>1. IsEnvelope(env) /\ env.bump = Nobody /\ env.source \in {Relayer, w} /\ n \in {1, 2, 4}
  BY DEF IsClaimOf
<1>2. \A i \in 1..n : env.ops[i].source \in {Nobody, Relayer, w} /\ Authorizers(env.ops[i]) \subseteq {w}
  BY DEF IsClaimOf, Authorizers
<1>3. Sep7Signer(Nobody, env) = w
  <2>1. CASE n = 4
    <3>1. env.ops[1].type = "begin" /\ env.ops[1].who = w
      BY <2>1 DEF IsClaimOf
    <3>2. OfType(env, "begin") # {} /\ FirstOf(env, "begin") = env.ops[1]
      BY <1>1, <2>1, <3>1, FirstIs
    <3> QED
      BY <1>1, <2>1, <3>1, <3>2 DEF Sep7Signer, IsOnboard
  <2>2. CASE n # 4
    <3>1. \A i \in 1..n : env.ops[i].source \in {Nobody, w} /\ env.ops[i].type \in {"changeTrust", "claim"}
      BY <2>2 DEF IsClaimOf
    <3>2. OfType(env, "begin") = {} /\ ~IsOnboard(env)
      <4>1. DOMAIN env.ops = 1..n
        BY <1>1 DEF IsEnvelope
      <4>2. OfType(env, "begin") = {}
        BY <3>1, <4>1 DEF OfType
      <4>3. n = 1 => env.ops[1].type # "invoke"
        BY <3>1
      <4> QED
        BY <4>2, <4>3 DEF IsOnboard
    <3>3. FeeSource(env) = env.source
      BY <1>1 DEF FeeSource
    <3>4. Sep7Signer(Nobody, env) = IF Cardinality(OpSources(env)) = 1 THEN CHOOSE v \in OpSources(env) : TRUE
                                    ELSE env.source
      BY <3>2, <3>3 DEF Sep7Signer
    <3>5. CASE env.source = w
      <4>1. OpSources(env) = {}
        BY <1>1, <3>1, <3>3, <3>5 DEF OpSources, OpsOf, IsEnvelope
      <4> QED
        BY <3>4, <3>5, <4>1, FS_EmptySet
    <3>6. CASE env.source # w
      <4>1. PICK i \in 1..n : env.ops[i].source = w
        BY <2>2, <3>6 DEF IsClaimOf
      <4>2. OpSources(env) = {w}
        BY <1>0, <1>1, <3>1, <3>3, <3>6, <4>1 DEF OpSources, OpsOf, IsEnvelope
      <4> QED
        BY <3>4, <4>2, FS_Singleton
    <3> QED
      BY <3>5, <3>6
  <2> QED
    BY <2>1, <2>2
<1>4. FrugalEnvelope(env)
  <2>1. Frugal(env.ops[n], env)
    BY DEF IsClaimOf, Frugal
  <2>2. n = 2 => Frugal(env.ops[1], env)
    BY DEF IsClaimOf, Frugal
  <2>3. n = 4 => Frugal(env.ops[1], env) /\ Frugal(env.ops[2], env) /\ Frugal(env.ops[3], env)
    BY DEF IsClaimOf, Frugal
  <2>4. \A i \in 1..n : i = n \/ (n = 2 /\ i = 1) \/ (n = 4 /\ (i = 1 \/ i = 2 \/ i = 3))
    <3>1. n = 1 \/ n = 2 \/ n = 4
      BY <1>1
    <3> HIDE DEF n
    <3> QED
      BY <3>1
  <2> QED
    BY <2>1, <2>2, <2>3, <2>4 DEF FrugalEnvelope
<1> QED
  BY <1>1, <1>2, <1>3, <1>4 DEF IsFor

\* Signing changes neither what an envelope does nor whom it asks.
LEMMA SigningKeepsShape ==
  ASSUME NEW env, IsEnvelope(env), NEW v, NEW w, NEW a, NEW create
  PROVE  LET e == Signed(env, v)
         IN /\ IsSponsored(env, w, a, create) => IsSponsored(e, w, a, create)
            /\ IsRouted(env, w, a) => IsRouted(e, w, a)
            /\ IsClaimOf(env, w, a, create) => IsClaimOf(e, w, a, create)
            /\ Signers(e) = Signers(env) /\ CoSigners(e, w) = CoSigners(env, w)
            /\ FrugalEnvelope(env) => FrugalEnvelope(e)
<1> DEFINE e == Signed(env, v)
<1>1. IsEnvelope(e) /\ e.source = env.source /\ e.ops = env.ops /\ e.fee = env.fee /\ e.bump = env.bump
  BY SigningKeeps
<1> HIDE DEF e
<1>2. \A op : SourceOf(op, e) = SourceOf(op, env)
  BY <1>1 DEF SourceOf
<1>3. IsSponsored(env, w, a, create) => IsSponsored(e, w, a, create)
  BY <1>1, <1>2 DEF IsSponsored
<1>4. IsRouted(env, w, a) => IsRouted(e, w, a)
  BY <1>1 DEF IsRouted
<1>5. IsClaimOf(env, w, a, create) => IsClaimOf(e, w, a, create)
  BY <1>1, <1>2 DEF IsClaimOf
<1>6. Signers(e) = Signers(env) /\ CoSigners(e, w) = CoSigners(env, w)
  BY <1>1 DEF Signers, CoSigners, OpsOf, FeeSource
<1>7. FrugalEnvelope(env) => FrugalEnvelope(e)
  BY <1>1, <1>2 DEF FrugalEnvelope, Frugal
<1> QED
  BY <1>3, <1>4, <1>5, <1>6, <1>7 DEF e

\* Bumping asks the relayer too.
LEMMA SignersOf ==
  ASSUME NEW w \in Holders, NEW env, IsFor(env, w)
  PROVE  /\ Signers(env) \subseteq {Relayer, w}
         /\ Signers(Bumped(env, Relayer)) \subseteq {Relayer, w}
         /\ CoSigners(env, w) = {} => Signers(env) \subseteq {w}
<1>0. w # Nobody /\ w # Relayer /\ Relayer # Nobody
  BY DEF Holders
<1>1. /\ IsEnvelope(env) /\ env.bump = Nobody /\ env.source \in {Relayer, w}
      /\ \A op \in OpsOf(env) : op.source \in {Nobody, Relayer, w} /\ Authorizers(op) \subseteq {w}
  BY DEF IsFor, IsEnvelope, OpsOf
<1>2. FeeSource(env) = env.source
  BY <1>1 DEF FeeSource
<1>3. Signers(env) \subseteq {Relayer, w}
  BY <1>1, <1>2 DEF Signers
<1>4. Signers(Bumped(env, Relayer)) \subseteq {Relayer, w}
  <2> DEFINE e == Bumped(env, Relayer)
  <2>1. e.source = env.source /\ e.ops = env.ops /\ e.bump = Relayer
    BY <1>1, BumpingKeeps
  <2> HIDE DEF e
  <2>2. FeeSource(e) = Relayer /\ OpsOf(e) = OpsOf(env)
    BY <1>0, <2>1 DEF FeeSource, OpsOf
  <2>3. Signers(e) \subseteq {Relayer, w}
    BY <1>1, <2>1, <2>2 DEF Signers
  <2> QED
    BY <2>3 DEF e
<1>5. ASSUME CoSigners(env, w) = {} PROVE Signers(env) \subseteq {w}
  <2>1. env.source = w
    BY <1>0, <1>1, <1>2, <1>5 DEF CoSigners
  <2>2. \A op \in OpsOf(env) : op.source \in {Nobody, w}
    BY <1>0, <1>1, <1>5 DEF CoSigners
  <2> QED
    BY <1>1, <1>2, <2>1, <2>2 DEF Signers
<1> QED
  BY <1>3, <1>4, <1>5

\* assertSafeToSponsor takes what buildSponsoredOnboardTx makes.
LEMMA SponsoredIsSafe ==
  ASSUME NEW w \in Holders \cap Accounts, NEW a \in Pinned, NEW create \in BOOLEAN, NEW env,
         IsSponsored(env, w, a, create), env.bump = Nobody
  PROVE  SafeToSponsor(env, Relayer, w, a)
<1> DEFINE n == IF create THEN 4 ELSE 3
           trusts == {i \in 2..(n - 1) : env.ops[i].type = "changeTrust"}
<1>1. n = 3 \/ n = 4
  OBVIOUS
<1>2. \A op \in {env.ops[i] : i \in 2..(n - 1)} : SafeTrust(op, env, w, a) \/ SafeCreation(op, env, Relayer, w)
  <2>1. SafeTrust(env.ops[n - 1], env, w, a)
    BY DEF IsSponsored, SafeTrust
  <2>2. create => SafeCreation(env.ops[2], env, Relayer, w)
    BY DEF IsSponsored, SafeCreation
  <2>3. \A i \in 2..(n - 1) : i = n - 1 \/ (create /\ i = 2)
    OBVIOUS
  <2> QED
    BY <2>1, <2>2, <2>3
<1>3. Cardinality(trusts) = 1
  <2>1. env.ops[n - 1].type = "changeTrust" /\ (create => env.ops[2].type = "createAccount")
    BY DEF IsSponsored
  <2>2. trusts = {n - 1}
    BY <2>1
  <2> QED
    BY <2>2, FS_Singleton
<1>4. /\ env.bump = Nobody /\ env.source \in {Relayer, w} /\ Len(env.ops) = n
      /\ env.ops[1].type = "begin" /\ env.ops[1].who = w /\ SourceOf(env.ops[1], env) = Relayer
      /\ env.ops[n].type = "end" /\ SourceOf(env.ops[n], env) = w
  BY DEF IsSponsored
<1> HIDE DEF n
<1> QED
  BY <1>1, <1>2, <1>3, <1>4 DEF SafeToSponsor

\* validateSep7Callback takes what POST /v1/sep7/request emits, once signed.
LEMMA SponsoredIsTaken ==
  ASSUME NEW w \in Holders \cap Accounts, NEW a \in Pinned, NEW create \in BOOLEAN, NEW env,
         IsSponsored(env, w, a, create), env.bump = Nobody, env.source = Relayer, w \in env.sigs
  PROVE  CallbackIntents(env) = {Intent(a, w, TRUE)}
<1> DEFINE n == IF create THEN 4 ELSE 3
<1>1. /\ IsEnvelope(env) /\ env.bump = Nobody /\ env.fee = "base" /\ Len(env.ops) = n
      /\ env.ops[1].type = "begin" /\ env.ops[1].who = w /\ env.ops[n - 1].type = "changeTrust" /\ env.ops[n - 1].asset = a
      /\ create => env.ops[2].type = "createAccount"
  BY DEF IsSponsored
<1>2. \A i \in 1..(n - 2) : env.ops[i].type # "changeTrust"
  BY <1>1
<1>3. OfType(env, "changeTrust") # {} /\ FirstOf(env, "changeTrust") = env.ops[n - 1]
  BY <1>1, <1>2, FirstIs
<1>4. w # Relayer /\ w \in Signatures(env)
  BY DEF Holders, Signatures
<1>5. SafeToSponsor(env, Relayer, w, a)
  BY SponsoredIsSafe
<1>6. SponsoredIntents(env) = {Intent(a, w, TRUE)}
  BY <1>1, <1>3, <1>4, <1>5 DEF SponsoredIntents
<1> QED
  BY <1>1, <1>6 DEF CallbackIntents

\* So with the router's envelope; the relayer countersigns what it sources.
LEMMA RoutedIsTaken ==
  ASSUME NEW w \in Holders, NEW a \in Pinned, NEW env, IsRouted(env, w, a), env.source \in Accounts, w \in env.sigs
  PROVE  CallbackIntents(env) = {Intent(a, w, env.source # w)}
<1>1. IsOnboard(env) /\ w # Relayer
  BY DEF IsRouted, IsOnboard, Holders
<1>2. CASE env.source = w
  <2>1. w \in Signatures(env)
    BY <1>2 DEF Signatures
  <2>2. RouterIntents(env) = {Intent(a, w, FALSE)}
    BY <1>1, <1>2, <2>1 DEF RouterIntents, IsRouted
  <2> QED
    BY <1>2, <2>2 DEF CallbackIntents, IsRouted
<1>3. CASE env.source # w
  <2>1. \A c \in env.ops[1].auth : c = AddressCredential(w)
    BY <1>3 DEF IsRouted
  <2>2. env.source = Relayer
    BY <1>3 DEF IsRouted
  <2>3. RouterIntents(env) = {Intent(a, w, TRUE)}
    BY <1>1, <1>3, <2>1, <2>2 DEF RouterIntents, IsRouted
  <2> QED
    BY <1>3, <2>3 DEF CallbackIntents, IsRouted
<1> QED
  BY <1>2, <1>3

\* Whatever a stranger posts, what the callback takes is frugal.
LEMMA TakenIsFrugal ==
  ASSUME NEW env \in Transactions, CallbackIntents(env) # {}
  PROVE  FrugalEnvelope(env)
<1> DEFINE n == Len(env.ops)
<1>1. n \in Nat /\ \A i \in 1..n : env.ops[i] \in Operations
  BY DEF Transactions
<1>2. CASE n >= 3 /\ env.ops[1].type = "begin"
  <2> DEFINE holder == env.ops[1].who
             asset  == FirstOf(env, "changeTrust").asset
  <2>1. SponsoredIntents(env) # {}
    BY <1>2 DEF CallbackIntents
  <2>2. /\ holder # Relayer /\ holder \in Signatures(env) /\ asset \in Pinned
        /\ SafeToSponsor(env, Relayer, holder, asset)
    BY <2>1 DEF SponsoredIntents
  <2> HIDE DEF holder, asset
  <2>3. holder \in Holders \cap Accounts
    <3>1. env.void \subseteq Accounts
      BY DEF Transactions
    <3> QED
      BY <2>2, <3>1 DEF Signatures, Holders
  <2>4. env.ops[n].type = "end"
    BY <2>2 DEF SafeToSponsor
  <2>5. \A i \in 2..(n - 1) : SafeTrust(env.ops[i], env, holder, asset) \/ SafeCreation(env.ops[i], env, Relayer, holder)
    BY <2>2 DEF SafeToSponsor
  <2>6. \A i \in 2..(n - 1) : Frugal(env.ops[i], env)
    BY <2>2, <2>3, <2>5 DEF SafeTrust, SafeCreation, Frugal
  <2>7. \A i \in 1..n : i = 1 \/ i = n \/ i \in 2..(n - 1)
    BY <1>1
  <2> QED
    BY <1>2, <2>4, <2>6, <2>7 DEF FrugalEnvelope, Frugal
<1>3. CASE ~(n >= 3 /\ env.ops[1].type = "begin")
  <2> DEFINE op == env.ops[1]
  <2>1. n = 1 /\ RouterIntents(env) # {}
    BY <1>3 DEF CallbackIntents
  <2>2. /\ IsOnboard(env) /\ op.asset \in Pinned /\ op.who # Relayer /\ op.source \in {Nobody, env.source}
        /\ \/ env.source = op.who
           \/ \A c \in op.auth : c = AddressCredential(op.who)
    BY <2>1 DEF RouterIntents
  <2>3. op.type = "invoke"
    BY <2>2 DEF IsOnboard
  <2>4. op.who \in Holders
    <3>1. op \in Operations
      BY <1>1, <2>1
    <3> HIDE DEF op
    <3>2. op.who \in Accounts \cup Contracts \cup {Nobody} /\ op.who # Nobody
      BY <2>3, <3>1 DEF Operations
    <3> QED
      BY <2>2, <3>2 DEF Holders
  <2>5. SourceCredential \in op.auth => SourceOf(op, env) = op.who
    BY <2>2 DEF SourceOf, SourceCredential, AddressCredential
  <2>6. Frugal(op, env)
    BY <2>2, <2>3, <2>4, <2>5 DEF Frugal
  <2> QED
    BY <2>1, <2>6 DEF FrugalEnvelope
<1> QED
  BY <1>2, <1>3

-------------------------------------------------------------------------------
(***************************************************************************)
(* The steps of a claim, on the ledger.                                    *)
(***************************************************************************)

\* A ledger on which everything so far has applied.
Fine(L) == IsLedger(L) /\ L.ok = TRUE

\* A window opens where none is open.
LEMMA BeginSucceeds ==
  ASSUME NEW L, Fine(L), L.open = {}, NEW env, NEW op, op.type = "begin",
         SourceOf(op, env) \in L.exists, op.who # SourceOf(op, env)
  PROVE  LET M == Apply(op, env, L)
         IN /\ Fine(M) /\ M.exists = L.exists /\ M.lines = L.lines /\ M.auth = L.auth
            /\ M.open # {} /\ \A x \in M.open : x.user = op.who
<1> DEFINE w == SourceOf(op, env)
           opened == L.open \cup {[user |-> op.who, sponsor |-> w]}
           M == [L EXCEPT !.open = opened]
<1>1. Apply(op, env, L) = M
  BY DEF Fine, Apply, BeginApplies, Unless
<1>2. opened # {} /\ \A x \in opened : x.user = op.who
  OBVIOUS
<1> HIDE DEF opened
<1>3. M = LedgerOf(L.ok, L.exists, L.lines, L.auth, opened, L.paid, L.spent)
  BY LedgerUpdates DEF Fine
<1> HIDE DEF M
<1>4. IsLedger(M) /\ M.ok = L.ok /\ M.exists = L.exists /\ M.lines = L.lines /\ M.auth = L.auth /\ M.open = opened
  BY <1>3, LedgerFields
<1> QED
  BY <1>1, <1>2, <1>4 DEF Fine

\* A line is made, an open asset's authorized.
LEMMA TrustSucceeds ==
  ASSUME NEW L, Fine(L), NEW env, NEW op, op.type = "changeTrust", op.arg = "max",
         SourceOf(op, env) \in L.exists
  PROVE  LET M == Apply(op, env, L)
             w == SourceOf(op, env)
         IN /\ Fine(M) /\ M.exists = L.exists /\ M.open = L.open
            /\ <<w, op.asset>> \in M.lines
            /\ OpenAreAuthorized(L) /\ op.asset \notin Regulated => <<w, op.asset>> \in M.auth
<1> DEFINE w == SourceOf(op, env)
           a == op.asset
           M == WithLine(L, w, a, FALSE)
           P     == Paid(L, w, <<"line", w, a>>)
           new   == <<w, a>> \notin L.lines
           lines == IF new THEN L.lines \cup {<<w, a>>} ELSE L.lines
           auth  == IF FALSE \/ (new /\ a \notin Regulated) THEN L.auth \cup {<<w, a>>} ELSE L.auth
           paid  == IF new THEN P.paid ELSE L.paid
<1>1. Apply(op, env, L) = M
  BY DEF Fine, Apply, TrustApplies, Unless
<1>2. M = LedgerOf(L.ok, L.exists, lines, auth, L.open, paid, L.spent)
  BY WithLineIs DEF Fine
<1>3. <<w, a>> \in lines /\ (OpenAreAuthorized(L) /\ a \notin Regulated => <<w, a>> \in auth)
  BY DEF OpenAreAuthorized
<1> HIDE DEF M, lines, auth, paid, a
<1>4. IsLedger(M) /\ M.ok = L.ok /\ M.exists = L.exists /\ M.lines = lines /\ M.auth = auth /\ M.open = L.open
  BY <1>2, LedgerFields
<1> QED
  BY <1>1, <1>3, <1>4 DEF a, Fine

\* The window's user closes it.
LEMMA EndSucceeds ==
  ASSUME NEW L, Fine(L), NEW env, NEW op, op.type = "end",
         L.open # {}, \A x \in L.open : x.user = SourceOf(op, env)
  PROVE  LET M == Apply(op, env, L)
         IN /\ Fine(M) /\ M.exists = L.exists /\ M.lines = L.lines /\ M.auth = L.auth
            /\ M.open = {}
<1> DEFINE w == SourceOf(op, env)
           rest == {x \in L.open : x.user # w}
           M == [L EXCEPT !.open = rest]
<1>1. Apply(op, env, L) = M
  BY DEF Fine, Apply, EndApplies, Unless
<1>2. rest = {}
  OBVIOUS
<1> HIDE DEF rest
<1>3. M = LedgerOf(L.ok, L.exists, L.lines, L.auth, rest, L.paid, L.spent)
  BY LedgerUpdates DEF Fine
<1> HIDE DEF M
<1>4. IsLedger(M) /\ M.ok = L.ok /\ M.exists = L.exists /\ M.lines = L.lines /\ M.auth = L.auth /\ M.open = rest
  BY <1>3, LedgerFields
<1> QED
  BY <1>1, <1>2, <1>4 DEF Fine

\* An authorized line can be claimed to.
LEMMA ClaimSucceeds ==
  ASSUME NEW L, Fine(L), NEW env, NEW op, op.type = "claim", <<SourceOf(op, env), op.asset>> \in L.auth
  PROVE  Apply(op, env, L) = L
BY DEF Fine, Apply, Unless

\* A ledger between two envelopes, on which the relayer and w have accounts.
Settled(L, w) == Fine(L) /\ L.open = {} /\ Relayer \in L.exists /\ w \in L.exists

\* The sponsored line, operation by operation.
LEMMA SponsoredSucceeds ==
  ASSUME NEW L, NEW w \in Holders, Settled(L, w), NEW a, NEW env, IsSponsored(env, w, a, FALSE)
  PROVE  LET M == Applied(env, L)
         IN M.ok = TRUE /\ <<w, a>> \in M.lines
<1>1. /\ IsEnvelope(env) /\ env.source \in {Relayer, w} /\ Len(env.ops) = 3
      /\ env.ops[1].type = "begin" /\ env.ops[1].who = w /\ SourceOf(env.ops[1], env) = Relayer
      /\ env.ops[2].type = "changeTrust" /\ env.ops[2].asset = a /\ env.ops[2].arg = "max" /\ SourceOf(env.ops[2], env) = w
      /\ env.ops[3].type = "end" /\ SourceOf(env.ops[3], env) = w
  BY DEF IsSponsored
<1>0. Len(env.ops) \in Nat
  BY <1>1
<1>2. PICK f : /\ f[0] = L
               /\ \A i \in 1..Len(env.ops) : f[i] = Apply(env.ops[i], env, f[i - 1])
               /\ Applied(env, L) = Unless(f[Len(env.ops)],
                                           env.source \notin L.exists \/ f[Len(env.ops)].open # {},
                                           f[Len(env.ops)])
  BY <1>0, AppliedSteps, Zenon
<1>3. f[1] = Apply(env.ops[1], env, L) /\ f[2] = Apply(env.ops[2], env, f[1]) /\ f[3] = Apply(env.ops[3], env, f[2])
  BY <1>1, <1>2
<1>4. w # Relayer
  BY DEF Holders
<1>5. Fine(f[1]) /\ f[1].exists = L.exists /\ f[1].open # {} /\ \A x \in f[1].open : x.user = w
  <2>1. Apply(env.ops[1], env, L) = f[1] /\ env.ops[1].who = w /\ SourceOf(env.ops[1], env) = Relayer
    BY <1>1, <1>3
  <2> QED
    BY <1>1, <1>4, <2>1, BeginSucceeds DEF Settled
<1>6. Fine(f[2]) /\ f[2].open # {} /\ (\A x \in f[2].open : x.user = w) /\ <<w, a>> \in f[2].lines
  BY <1>1, <1>3, <1>5, TrustSucceeds DEF Settled
<1>7. Fine(f[3]) /\ f[3].open = {} /\ <<w, a>> \in f[3].lines
  BY <1>1, <1>3, <1>6, EndSucceeds
<1> QED
  BY <1>1, <1>2, <1>7 DEF Unless, Settled, Fine

\* The claim, operation by operation, whether it makes its line or has one.
LEMMA ClaimOfSucceeds ==
  ASSUME NEW L, NEW w \in Holders, Settled(L, w), OpenAreAuthorized(L), NEW a, NEW create \in BOOLEAN,
         NEW env, IsClaimOf(env, w, a, create),
         create => a \notin Regulated,
         ~create => <<w, a>> \in L.auth
  PROVE  Applied(env, L).ok = TRUE
<1> DEFINE n == Len(env.ops)
<1>1. /\ IsEnvelope(env) /\ env.source \in {Relayer, w} /\ n \in (IF create THEN {2, 4} ELSE {1})
      /\ env.ops[n].type = "claim" /\ env.ops[n].asset = a /\ SourceOf(env.ops[n], env) = w
  BY DEF IsClaimOf
<1>2. PICK f : /\ f[0] = L
               /\ \A i \in 1..n : f[i] = Apply(env.ops[i], env, f[i - 1])
               /\ Applied(env, L) = Unless(f[n], env.source \notin L.exists \/ f[n].open # {}, f[n])
  BY <1>1, AppliedSteps DEF IsEnvelope
<1>3. n \in {1, 2, 4} /\ f[n] = Apply(env.ops[n], env, f[n - 1])
  <2>1. n = 1 \/ n = 2 \/ n = 4
    BY <1>1
  <2>2. n \in 1..n
    <3> HIDE DEF n
    <3> QED
      BY <2>1
  <2> QED
    BY <1>2, <2>1, <2>2
<1>4. SUFFICES Fine(f[n - 1]) /\ f[n - 1].open = {} /\ <<w, a>> \in f[n - 1].auth
  <2>1. ASSUME Fine(f[n - 1]), f[n - 1].open = {}, <<w, a>> \in f[n - 1].auth PROVE f[n] = f[n - 1]
    BY <1>1, <1>3, <2>1, ClaimSucceeds
  <2> QED
    BY <1>1, <1>2, <2>1 DEF Unless, Settled, Fine
<1>5. CASE ~create
  BY <1>1, <1>2, <1>5 DEF Settled
<1>6. CASE create /\ n = 2
  <2>1. /\ env.ops[1].type = "changeTrust" /\ env.ops[1].asset = a /\ env.ops[1].arg = "max"
        /\ SourceOf(env.ops[1], env) = w
    BY <1>6 DEF IsClaimOf
  <2>2. f[1] = Apply(env.ops[1], env, L)
    BY <1>2, <1>6
  <2> QED
    BY <1>6, <2>1, <2>2, TrustSucceeds DEF Settled
<1>7. CASE create /\ n = 4
  <2>1. /\ env.ops[1].type = "begin" /\ env.ops[1].who = w /\ SourceOf(env.ops[1], env) = Relayer
        /\ env.ops[2].type = "changeTrust" /\ env.ops[2].asset = a /\ env.ops[2].arg = "max" /\ SourceOf(env.ops[2], env) = w
        /\ env.ops[3].type = "end" /\ SourceOf(env.ops[3], env) = w
    BY <1>7 DEF IsClaimOf
  <2>2. f[1] = Apply(env.ops[1], env, L) /\ f[2] = Apply(env.ops[2], env, f[1]) /\ f[3] = Apply(env.ops[3], env, f[2])
    BY <1>2, <1>7
  <2>3. w # Relayer
    BY DEF Holders
  <2>4. /\ Fine(f[1]) /\ f[1].exists = L.exists /\ f[1].lines = L.lines /\ f[1].auth = L.auth
        /\ f[1].open # {} /\ \A x \in f[1].open : x.user = w
    BY <2>1, <2>2, <2>3, BeginSucceeds DEF Settled
  <2>5. OpenAreAuthorized(f[1])
    BY <2>4 DEF OpenAreAuthorized
  <2>6. Fine(f[2]) /\ f[2].open # {} /\ (\A x \in f[2].open : x.user = w) /\ <<w, a>> \in f[2].auth
    BY <1>7, <2>1, <2>2, <2>4, <2>5, TrustSucceeds DEF Settled
  <2>7. Fine(f[3]) /\ f[3].open = {} /\ <<w, a>> \in f[3].auth
    BY <2>1, <2>2, <2>6, EndSucceeds
  <2> QED
    BY <1>7, <2>7
<1> QED
  BY <1>1, <1>5, <1>6, <1>7

-------------------------------------------------------------------------------
(***************************************************************************)
(* The inductive invariant.                                                *)
(***************************************************************************)

\* What a request is: one of the integrator's envelopes for its user, unsigned or
\* signed by the relayer; to the network alone only if the user can complete it.
RequestOK(q) ==
  /\ q.user \in Holders /\ q.asset \in Pinned /\ q.pubkey \in {Nobody, q.user}
  /\ IsFor(q.env, q.user) /\ q.env.sigs \subseteq {Relayer} /\ q.env.void = {}
  /\ q.callback \in {"none", "relayer", "own"}
  /\ q.callback = "none" => CoSigners(q.env, q.user) = {} \/ Relayer \in q.env.sigs
  /\ q.callback = "relayer" =>
       \/ q.user \in Accounts /\ q.env.source = Relayer
          /\ \E create \in BOOLEAN : IsSponsored(q.env, q.user, q.asset, create)
       \/ q.env.source \in Accounts /\ IsRouted(q.env, q.user, q.asset)
  /\ q.callback = "own" =>
       q.user \in Accounts /\ \E create \in BOOLEAN : \/ IsSponsored(q.env, q.user, q.asset, create)
                                                     \/ IsClaimOf(q.env, q.user, q.asset, create)

RequestInv == request # NoRequest => RequestOK(request)

\* The ledger between envelopes and after one.
LedgerStateInv ==
  /\ LedgerInv(ledger) /\ Relayer \in ledger.exists
  /\ outcome = "none" => Fine(ledger) /\ ledger.open = {}

ClaimStep     == Step("claim", "user")
AuthorizeStep == Step("authorize", "integrator")
OpenStep      == Step("create-trustline", "user+integrator")
BothStep      == Step("claim-with-trustline", "user+integrator")
Plans == {<<ClaimStep>>, <<AuthorizeStep, ClaimStep>>, <<BothStep>>, <<OpenStep, AuthorizeStep, ClaimStep>>}

\* What the first step of p needs.
Able(p) ==
  /\ claim.who \in ledger.exists
  /\ p # <<>> => \A later \in now..MaxTime : MayClaim(balance, claim.who, later)
  /\ p = <<ClaimStep>> => IsAuthorized(claim.who, claim.asset)
  /\ p = <<AuthorizeStep, ClaimStep>> => HasLine(claim.who, claim.asset)
  /\ p = <<BothStep>> => claim.asset \notin Regulated

\* A plan is for a holder and a pinned asset; the request is its first step's.
PlanOK ==
  /\ plan \in Plans /\ claim.who \in Holders \cap Accounts /\ claim.asset \in Pinned
  /\ request # NoRequest =>
       /\ request.user = claim.who /\ request.asset = claim.asset
       /\ plan # <<AuthorizeStep, ClaimStep>>
       /\ plan = <<OpenStep, AuthorizeStep, ClaimStep>> => IsSponsored(request.env, claim.who, claim.asset, FALSE)
       /\ plan = <<ClaimStep>> => IsClaimOf(request.env, claim.who, claim.asset, FALSE)
       /\ plan = <<BothStep>> => IsClaimOf(request.env, claim.who, claim.asset, TRUE)

PlanInv ==
  plan # <<>> => /\ PlanOK
                 /\ ~disturbed => Able(IF outcome = "applied" THEN Tail(plan) ELSE plan)

SceneInv ==
  /\ now \in 0..MaxTime
  /\ balance # NoBalance => balance.asset \in Pinned

Answers == RequestsComplete /\ BuiltIsAccepted /\ PlanSucceeds

HandoffInv == RequestInv /\ LedgerStateInv /\ PlanInv /\ SceneInv /\ Answers

-------------------------------------------------------------------------------
(***************************************************************************)
(* Requests.                                                                *)
(***************************************************************************)

\* Nor does wrapping it in a fee bump.
LEMMA BumpingKeepsShape ==
  ASSUME NEW env, IsEnvelope(env), NEW v, NEW w, NEW a, NEW create
  PROVE  LET e == Bumped(env, v)
         IN /\ IsSponsored(env, w, a, create) => IsSponsored(e, w, a, create)
            /\ IsClaimOf(env, w, a, create) => IsClaimOf(e, w, a, create)
            /\ FrugalEnvelope(env) => FrugalEnvelope(e)
<1> DEFINE e == Bumped(env, v)
<1>1. IsEnvelope(e) /\ e.source = env.source /\ e.ops = env.ops /\ e.fee = env.fee /\ e.sigs = env.sigs
  BY BumpingKeeps
<1> HIDE DEF e
<1>2. \A op : SourceOf(op, e) = SourceOf(op, env)
  BY <1>1 DEF SourceOf
<1>3. IsSponsored(env, w, a, create) => IsSponsored(e, w, a, create)
  BY <1>1, <1>2 DEF IsSponsored
<1>4. IsClaimOf(env, w, a, create) => IsClaimOf(e, w, a, create)
  BY <1>1, <1>2 DEF IsClaimOf
<1>5. FrugalEnvelope(env) => FrugalEnvelope(e)
  BY <1>1, <1>2 DEF FrugalEnvelope, Frugal
<1> QED
  BY <1>3, <1>4, <1>5 DEF e

\* A signed request is one for the same holder.
LEMMA SignedIsFor ==
  ASSUME NEW env, NEW w, NEW v, IsFor(env, w)
  PROVE  IsFor(Signed(env, v), w)
<1> DEFINE e == Signed(env, v)
<1>1. IsEnvelope(e) /\ e.source = env.source /\ e.ops = env.ops /\ e.bump = env.bump
  BY SigningKeeps DEF IsFor
<1>2. FrugalEnvelope(e)
  BY SigningKeepsShape DEF IsFor
<1> HIDE DEF e
<1>3. Sep7Signer(Nobody, e) = Sep7Signer(Nobody, env)
  <2>1. OfType(e, "begin") = OfType(env, "begin") /\ FirstOf(e, "begin") = FirstOf(env, "begin")
    BY <1>1 DEF OfType, FirstOf
  <2>2. FeeSource(e) = FeeSource(env) /\ OpSources(e) = OpSources(env)
    BY <1>1 DEF FeeSource, OpSources, OpsOf
  <2>3. IsOnboard(e) = IsOnboard(env) /\ e.ops = env.ops
    BY <1>1 DEF IsOnboard
  <2> QED
    BY <2>1, <2>2, <2>3 DEF Sep7Signer
<1> QED
  BY <1>1, <1>2, <1>3 DEF IsFor, e

\* What the integrator hands out.
LEMMA OfferIs ==
  ASSUME NEW env, NEW w, NEW a, NEW callbacks, Offer(env, w, a, callbacks), Unsigned(env), IsEnvelope(env)
  PROVE  /\ request'.user = w /\ request'.asset = a /\ request'.callback \in callbacks
         /\ request'.env \in {env, Signed(env, Relayer)} /\ request'.pubkey \in {Nobody, w}
         /\ request'.env.sigs \subseteq {Relayer} /\ request'.env.void = {}
         /\ request'.callback = "none" => CoSigners(request'.env, w) = {} \/ Relayer \in request'.env.sigs
<1>1. PICK e \in {env, Signed(env, Relayer)}, callback \in callbacks, key \in {Nobody, w} :
        /\ HandsOut(e, w, callback # "none")
        /\ request' = [user |-> w, asset |-> a, env |-> e, callback |-> callback, pubkey |-> key]
  BY DEF Offer, PubkeyOf
<1>2. /\ request'.user = w /\ request'.asset = a /\ request'.callback = callback /\ request'.env = e
      /\ request'.pubkey = key
  BY <1>1
<1>3. Signed(env, Relayer).sigs = {Relayer} /\ Signed(env, Relayer).void = {} /\ env.sigs = {} /\ env.void = {}
  BY SigningKeeps DEF Unsigned
<1>4. e.sigs \subseteq {Relayer} /\ e.void = {} /\ (callback = "none" => CoSigners(e, w) = {} \/ Relayer \in e.sigs)
  BY <1>1, <1>3 DEF HandsOut, Signatures
<1> QED
  BY <1>2, <1>4, <1>1

\* A sponsored line is for a classic holder, and the callback takes it if the
\* relayer sources it; a routed one is for anybody; a claim goes to the integrator.
LEMMA OfferedIsOK ==
  ASSUME NEW env, NEW w \in Holders, NEW a \in Pinned, NEW callbacks \in SUBSET {"none", "relayer", "own"},
         Offer(env, w, a, callbacks), Unsigned(env), IsFor(env, w),
         "relayer" \in callbacks =>
           \/ w \in Accounts /\ env.source = Relayer /\ \E create \in BOOLEAN : IsSponsored(env, w, a, create)
           \/ env.source \in Accounts /\ IsRouted(env, w, a),
         "own" \in callbacks =>
           w \in Accounts /\ \E create \in BOOLEAN : IsSponsored(env, w, a, create) \/ IsClaimOf(env, w, a, create)
  PROVE  RequestOK(request')
<1>1. IsEnvelope(env)
  BY DEF IsFor
<1>2. /\ request'.user = w /\ request'.asset = a /\ request'.callback \in callbacks
      /\ request'.env \in {env, Signed(env, Relayer)} /\ request'.pubkey \in {Nobody, w}
      /\ request'.env.sigs \subseteq {Relayer} /\ request'.env.void = {}
      /\ request'.callback = "none" => CoSigners(request'.env, w) = {} \/ Relayer \in request'.env.sigs
  BY <1>1, OfferIs
<1>3. IsFor(request'.env, w)
  BY <1>2, SignedIsFor
<1>4. /\ \A create : IsSponsored(env, w, a, create) => IsSponsored(request'.env, w, a, create)
      /\ \A create : IsClaimOf(env, w, a, create) => IsClaimOf(request'.env, w, a, create)
      /\ IsRouted(env, w, a) => IsRouted(request'.env, w, a)
  BY <1>1, <1>2, SigningKeepsShape
<1>5. request'.env.source = env.source
  BY <1>1, <1>2, SigningKeeps
<1> DEFINE q == request'
<1> HIDE DEF q
<1>6. RequestOK(q)
  BY <1>2, <1>3, <1>4, <1>5 DEF RequestOK, q
<1> QED
  BY <1>6 DEF q

-------------------------------------------------------------------------------
(***************************************************************************)
(* The wallet signs.                                                        *)
(***************************************************************************)

\* What reaches the network of a request: what the wallet signed, with the
\* relayer's signature or without, or in the relayer's fee bump.
Sent(env) ==
  LET signed == Signed(env, Relayer) IN {env, signed, Bumped(signed, Relayer)}

\* What is sent keeps the shape of what was built.
LEMMA SentIs ==
  ASSUME NEW w \in Holders, NEW env, IsFor(env, w), NEW e \in Sent(env)
  PROVE  /\ IsEnvelope(e) /\ FrugalEnvelope(e)
         /\ \A a, create : IsSponsored(env, w, a, create) => IsSponsored(e, w, a, create)
         /\ \A a, create : IsClaimOf(env, w, a, create) => IsClaimOf(e, w, a, create)
<1> DEFINE s == Signed(env, Relayer)
<1>1. IsEnvelope(env) /\ FrugalEnvelope(env)
  BY DEF IsFor
<1>2. /\ IsEnvelope(s) /\ FrugalEnvelope(s)
      /\ \A a, create : IsSponsored(env, w, a, create) => IsSponsored(s, w, a, create)
      /\ \A a, create : IsClaimOf(env, w, a, create) => IsClaimOf(s, w, a, create)
  BY <1>1, SigningKeeps, SigningKeepsShape
<1>3. e \in {env, s, Bumped(s, Relayer)}
  BY DEF Sent
<1> HIDE DEF s
<1>4. /\ IsEnvelope(Bumped(s, Relayer)) /\ FrugalEnvelope(Bumped(s, Relayer))
      /\ \A a, create : IsSponsored(s, w, a, create) => IsSponsored(Bumped(s, Relayer), w, a, create)
      /\ \A a, create : IsClaimOf(s, w, a, create) => IsClaimOf(Bumped(s, Relayer), w, a, create)
  BY <1>2, BumpingKeeps, BumpingKeepsShape
<1> QED
  BY <1>1, <1>2, <1>3, <1>4

\* Signed by the holder and the relayer, it is complete, bumped or not.
LEMMA BothComplete ==
  ASSUME NEW w \in Holders, NEW env, IsFor(env, w), w \in env.sigs, env.void = {}
  PROVE  LET signed == Signed(env, Relayer)
         IN Complete(signed) /\ Complete(Bumped(signed, Relayer))
<1> DEFINE s == Signed(env, Relayer)
<1>1. s.sigs = env.sigs \cup {Relayer} /\ s.void = {} /\ IsEnvelope(s)
  BY SigningKeeps DEF IsFor
<1>2. IsFor(s, w)
  BY SignedIsFor
<1> HIDE DEF s
<1>3. Signers(s) \subseteq {Relayer, w} /\ Signers(Bumped(s, Relayer)) \subseteq {Relayer, w}
  BY <1>2, SignersOf
<1>4. Bumped(s, Relayer).sigs = s.sigs /\ Bumped(s, Relayer).void = s.void
  BY <1>1, BumpingKeeps
<1> QED
  BY <1>1, <1>3, <1>4 DEF Complete, s

\* The callback that finds one intent submits what that intent says.
LEMMA CalledBackIs ==
  ASSUME NEW env, NEW a, NEW w, NEW countersign \in BOOLEAN, CalledBack(env),
         CallbackIntents(env) = {Intent(a, w, countersign)}
  PROVE  Submit(SignedToSubmit(env, countersign))
<1> DEFINE i == Intent(a, w, countersign)
<1>1. i.countersign = countersign
  BY DEF Intent
<1> HIDE DEF i
<1>2. CallbackIntents(env) = {i}
  BY DEF i
<1>3. Submit(SignedToSubmit(env, i.countersign))
  BY <1>2 DEF CalledBack
<1> QED
  BY <1>1, <1>3

\* A smart account's entry voids the relayer's signature.
Voids(q) == q.user \in Contracts /\ Relayer \in q.env.sigs

\* The holder signs, and what the request asked for reaches the network, complete
\* unless that voids a signature.
LEMMA WalletSubmits ==
  ASSUME WalletSigns, RequestOK(request)
  PROVE  \E env, e : /\ IsFor(env, request.user) /\ env.ops = request.env.ops
                     /\ \A a, create : /\ IsSponsored(request.env, request.user, a, create) => IsSponsored(env, request.user, a, create)
                                       /\ IsClaimOf(request.env, request.user, a, create) => IsClaimOf(env, request.user, a, create)
                     /\ e \in Sent(env) /\ Submit(e) /\ (Complete(e) \/ Voids(request))
<1> DEFINE w   == request.user
           req == request.env
           env == Signed(req, w)
           s   == Signed(env, Relayer)
<1>1. /\ w \in Holders /\ w # Nobody /\ w # Relayer /\ IsFor(req, w) /\ IsEnvelope(req)
      /\ req.sigs \subseteq {Relayer} /\ req.void = {}
  BY DEF RequestOK, Holders, IsFor
<1>2. Sep7Signer(request.pubkey, req) = w
  BY <1>1 DEF RequestOK, IsFor, Sep7Signer
<1>3. /\ IsFor(env, w) /\ w \in env.sigs /\ env.source = req.source /\ env.ops = req.ops
      /\ env.bump = Nobody /\ IsEnvelope(env)
      /\ CoSigners(env, w) = CoSigners(req, w)
      /\ Relayer \in Signatures(env) => Relayer \in req.sigs
      /\ ~Voids(request) => env.sigs = req.sigs \cup {w} /\ env.void = {}
  <2>1. IsFor(env, w)
    BY <1>1, SignedIsFor
  <2>2. CoSigners(env, w) = CoSigners(req, w)
    BY <1>1, SigningKeepsShape
  <2>3. /\ env.source = req.source /\ env.ops = req.ops /\ IsEnvelope(env)
        /\ w \notin Contracts => env.sigs = req.sigs \cup {w} /\ env.void = req.void
        /\ w \in Contracts => env.sigs = (req.sigs \ Accounts) \cup {w} /\ env.void = req.void \cup (req.sigs \cap Accounts)
    BY <1>1, SigningKeeps
  <2>4. env.bump = Nobody
    BY <2>1 DEF IsFor
  <2> HIDE DEF w, req, env
  <2>5. Relayer \in Signatures(env) => Relayer \in req.sigs
    BY <1>1, <2>3 DEF Signatures
  <2>6. ASSUME ~(w \in Contracts /\ Relayer \in req.sigs) PROVE env.sigs = req.sigs \cup {w} /\ env.void = {}
    <3>1. CASE w \in Contracts
      <4>1. req.sigs = {}
        BY <1>1, <2>6, <3>1
      <4> QED
        BY <1>1, <2>3, <3>1, <4>1
    <3>2. CASE w \notin Contracts
      BY <1>1, <2>3, <3>2
    <3> QED
      BY <3>1, <3>2
  <2>7. w \in env.sigs
    BY <2>3
  <2> QED
    BY <2>1, <2>2, <2>3, <2>4, <2>5, <2>6, <2>7 DEF Voids, w, req
<1>4. \A a, create : /\ IsSponsored(req, w, a, create) => IsSponsored(env, w, a, create)
                     /\ IsClaimOf(req, w, a, create) => IsClaimOf(env, w, a, create)
                     /\ IsRouted(req, w, a) => IsRouted(env, w, a)
  BY <1>1, SigningKeepsShape
<1>5. /\ request.callback \in {"none", "relayer", "own"}
      /\ request.callback = "none" => Submit(env)
      /\ request.callback = "relayer" => CalledBack(env)
      /\ request.callback = "own" => Countersigned(env)
  BY <1>2 DEF WalletSigns, RequestOK
<1> HIDE DEF env
<1>6. ~Voids(request) => Complete(s) /\ Complete(Bumped(s, Relayer))
  BY <1>1, <1>3, BothComplete
<1>7. env \in Sent(env) /\ s \in Sent(env) /\ Bumped(s, Relayer) \in Sent(env)
  BY DEF Sent
<1>11. Signers(env) \subseteq {Relayer, w} /\ (CoSigners(env, w) = {} => Signers(env) \subseteq {w})
  BY <1>1, <1>3, SignersOf
<1>12. ASSUME Submit(SignedToSubmit(env, TRUE)) PROVE \E e \in Sent(env) : Submit(e) /\ (Complete(e) \/ Voids(request))
  <2>1. CASE Relayer \in Signatures(env)
    <3>1. Submit(env)
      BY <1>12, <2>1 DEF SignedToSubmit
    <3>2. ~Voids(request) => Complete(env)
      BY <1>3, <1>11, <2>1 DEF Complete
    <3> QED
      BY <1>7, <3>1, <3>2
  <2>2. CASE Relayer \notin Signatures(env)
    <3>1. Submit(s)
      BY <1>12, <2>2 DEF SignedToSubmit
    <3> QED
      BY <1>6, <1>7, <3>1
  <2> QED
    BY <2>1, <2>2
<1> HIDE DEF s
<1> SUFFICES \E e \in Sent(env) : Submit(e) /\ (Complete(e) \/ Voids(request))
  BY <1>3, <1>4
<1>8. CASE request.callback = "none"
  <2>2. ~Voids(request) => Complete(env)
    BY <1>3, <1>8, <1>11 DEF Complete, RequestOK
  <2> QED
    BY <1>5, <1>7, <1>8, <2>2
<1>9. CASE request.callback = "relayer"
  <2>1. CASE w \in Accounts /\ req.source = Relayer /\ \E create \in BOOLEAN : IsSponsored(req, w, request.asset, create)
    <3>1. PICK create \in BOOLEAN : IsSponsored(env, w, request.asset, create)
      BY <1>4, <2>1
    <3>2. CallbackIntents(env) = {Intent(request.asset, w, TRUE)}
      <4>2. create \in BOOLEAN /\ env.bump = Nobody
        BY <1>3
      <4>1. w \in Holders \cap Accounts /\ request.asset \in Pinned /\ env.source = Relayer /\ w \in env.sigs
        BY <1>1, <1>3, <2>1 DEF RequestOK
      <4> QED
        BY ZenonT(30), <3>1, <4>1, <4>2, SponsoredIsTaken
    <3>3. Submit(SignedToSubmit(env, TRUE))
      BY <1>5, <1>9, <3>2, CalledBackIs
    <3> QED
      BY <1>12, <3>3
  <2>2. CASE req.source \in Accounts /\ IsRouted(req, w, request.asset)
    <3>1. IsRouted(env, w, request.asset) /\ env.source \in Accounts
      BY <1>3, <1>4, <2>2
    <3>2. CallbackIntents(env) = {Intent(request.asset, w, env.source # w)}
      BY <1>1, <1>3, <3>1, RoutedIsTaken DEF RequestOK
    <3>5. Submit(SignedToSubmit(env, env.source # w))
      BY <1>5, <1>9, <3>2, CalledBackIs
    <3>3. CASE env.source = w
      <4>1. Submit(env)
        BY <3>3, <3>5 DEF SignedToSubmit
      <4>2. CoSigners(env, w) = {}
        BY <3>1, <3>3 DEF CoSigners, IsRouted, FeeSource, OpsOf, IsEnvelope
      <4>3. ~Voids(request) => Complete(env)
        BY <1>3, <1>11, <4>2 DEF Complete
      <4> QED
        BY <1>7, <4>1, <4>3
    <3>4. CASE env.source # w
      <4>1. (env.source # w) = TRUE
        BY <3>4
      <4>2. Submit(SignedToSubmit(env, TRUE))
        BY <3>5, <4>1
      <4> QED
        BY <1>12, <4>2
    <3> QED
      BY <3>3, <3>4
  <2> QED
    BY <1>9, <2>1, <2>2 DEF RequestOK
<1>10. CASE request.callback = "own"
  <2>1. PICK create \in BOOLEAN : \/ IsSponsored(env, w, request.asset, create)
                                  \/ IsClaimOf(env, w, request.asset, create)
    BY <1>4, <1>10 DEF RequestOK
  <2>2. IsClaim(env) \/ SafeToSponsor(env, Relayer, w, request.asset)
    <3>1. CASE IsSponsored(env, w, request.asset, create)
      BY <1>1, <1>3, <1>10, <3>1, SponsoredIsSafe DEF RequestOK
    <3>2. CASE IsClaimOf(env, w, request.asset, create)
      <4>1. Len(env.ops) \in DOMAIN env.ops /\ env.ops[Len(env.ops)].type = "claim"
        <5> DEFINE n == Len(env.ops)
        <5>1. DOMAIN env.ops = 1..n /\ n \in {1, 2, 4} /\ env.ops[n].type = "claim"
          BY <3>2 DEF IsClaimOf, IsEnvelope
        <5> HIDE DEF n
        <5>2. n \in DOMAIN env.ops
          BY <5>1
        <5> QED
          BY <5>1, <5>2 DEF n
      <4> QED
        BY <4>1 DEF IsClaim, OpsOf
    <3> QED
      BY <2>1, <3>1, <3>2
  <2>3. Submit(s) \/ Submit(Bumped(s, Relayer))
    BY <1>5, <1>10, <2>2 DEF Countersigned, s
  <2> QED
    BY <1>6, <1>7, <2>3
<1> QED
  BY <1>5, <1>8, <1>9, <1>10

\* An envelope on its way to the network.
LEMMA SubmitKeeps ==
  ASSUME LedgerInv(ledger), NEW env, Len(env.ops) \in Nat, FrugalEnvelope(env), Submit(env)
  PROVE  /\ LedgerInv(ledger') /\ ledger.exists \subseteq ledger'.exists
         /\ balance' \in {balance, NoBalance}
         /\ outcome' = Verdict(env) /\ outcome' \in {"incomplete", "applied", "failed"}
         /\ Complete(env) => outcome' # "incomplete"
<1>1. Follows(ledger, Applied(env, ledger))
  BY AppliedKeeps
<1>2. ledger' \in {ledger, Applied(env, ledger)} /\ balance' \in {balance, NoBalance} /\ outcome' = Verdict(env)
  BY DEF Submit
<1>3. outcome' \in {"incomplete", "applied", "failed"} /\ (Complete(env) => outcome' # "incomplete")
  BY <1>2 DEF Verdict
<1>4. Follows(ledger, ledger')
  BY <1>1, <1>2 DEF Follows
<1> QED
  BY <1>2, <1>3, <1>4 DEF Follows

\* The relayer's account stays, whatever else is created.
LEMMA LedgerStays ==
  ASSUME LedgerStateInv, LedgerInv(ledger'), ledger.exists \subseteq ledger'.exists, outcome' # "none"
  PROVE  LedgerStateInv'
BY DEF LedgerStateInv

\* The plans there are.
LEMMA PlansAre ==
  /\ Plans \subseteq Seq({ClaimStep, AuthorizeStep, OpenStep, BothStep}) /\ <<>> \notin Plans
  /\ \A p \in Plans : Tail(p) \in Plans \/ Tail(p) = <<>>
  /\ Tail(<<ClaimStep>>) = <<>> /\ Tail(<<BothStep>>) = <<>>
  /\ Tail(<<AuthorizeStep, ClaimStep>>) = <<ClaimStep>>
  /\ Tail(<<OpenStep, AuthorizeStep, ClaimStep>>) = <<AuthorizeStep, ClaimStep>>
<1> DEFINE c == ClaimStep  a == AuthorizeStep  o == OpenStep  b == BothStep
<1> HIDE DEF c, a, o, b
<1>1. Plans = {<<c>>, <<a, c>>, <<b>>, <<o, a, c>>}
  BY DEF Plans, c, a, o, b
<1>2. /\ Tail(<<c>>) = <<>> /\ Tail(<<b>>) = <<>> /\ Tail(<<a, c>>) = <<c>> /\ Tail(<<o, a, c>>) = <<a, c>>
  OBVIOUS
<1>3. <<>> \notin Plans /\ Plans \subseteq Seq({c, a, o, b})
  BY <1>1
<1> QED
  BY <1>1, <1>2, <1>3 DEF c, a, o, b

\* The kind of the first step tells which plan it is.
LEMMA PlanByKind ==
  ASSUME NEW p \in Plans
  PROVE  /\ Head(p).kind = "claim" => p = <<ClaimStep>>
         /\ Head(p).kind = "authorize" => p = <<AuthorizeStep, ClaimStep>>
         /\ Head(p).kind = "claim-with-trustline" => p = <<BothStep>>
         /\ Head(p).kind = "create-trustline" => p = <<OpenStep, AuthorizeStep, ClaimStep>>
<1> DEFINE c == ClaimStep  a == AuthorizeStep  o == OpenStep  b == BothStep
<1>1. c.kind = "claim" /\ a.kind = "authorize" /\ b.kind = "claim-with-trustline" /\ o.kind = "create-trustline"
  BY DEF ClaimStep, AuthorizeStep, OpenStep, BothStep, Step
<1>2. Plans = {<<c>>, <<a, c>>, <<b>>, <<o, a, c>>}
  BY DEF Plans
<1> HIDE DEF c, a, o, b
<1>3. Head(<<c>>) = c /\ Head(<<a, c>>) = a /\ Head(<<b>>) = b /\ Head(<<o, a, c>>) = o
  OBVIOUS
<1> QED
  BY <1>1, <1>2, <1>3 DEF c, a, o, b

\* And the plan which kind its first step is.
LEMMA KindByPlan ==
  /\ Head(<<ClaimStep>>).kind = "claim" /\ Head(<<AuthorizeStep, ClaimStep>>).kind = "authorize"
  /\ Head(<<BothStep>>).kind = "claim-with-trustline" /\ Head(<<OpenStep, AuthorizeStep, ClaimStep>>).kind = "create-trustline"
<1> DEFINE c == ClaimStep  a == AuthorizeStep  o == OpenStep  b == BothStep
<1>1. c.kind = "claim" /\ a.kind = "authorize" /\ b.kind = "claim-with-trustline" /\ o.kind = "create-trustline"
  BY DEF ClaimStep, AuthorizeStep, OpenStep, BothStep, Step
<1> HIDE DEF c, a, o, b
<1>3. Head(<<c>>) = c /\ Head(<<a, c>>) = a /\ Head(<<b>>) = b /\ Head(<<o, a, c>>) = o
  OBVIOUS
<1> QED
  BY <1>1, <1>3 DEF c, a, o, b

\* Signed by the holder, the first step of an undisturbed plan succeeds, and
\* leaves what the next one needs.
LEMMA StepSucceeds ==
  ASSUME WalletSigns, RequestOK(request), request # NoRequest, LedgerStateInv, outcome = "none",
         plan # <<>>, PlanOK, Able(plan), now \in 0..MaxTime
  PROVE  /\ outcome' = "applied"
         /\ plan = <<OpenStep, AuthorizeStep, ClaimStep>> =>
              balance' = balance /\ <<claim.who, claim.asset>> \in ledger'.lines
<1> DEFINE w == claim.who
           a == claim.asset
<1>1. PICK env, e : /\ IsFor(env, w)
                    /\ \A b, create : /\ IsSponsored(request.env, w, b, create) => IsSponsored(env, w, b, create)
                                      /\ IsClaimOf(request.env, w, b, create) => IsClaimOf(env, w, b, create)
                    /\ e \in Sent(env) /\ Complete(e) /\ Submit(e)
  <2>1. request.user = w
    BY DEF PlanOK
  <2>2. ~Voids(request)
    BY <2>1 DEF PlanOK, Voids
  <2> QED
    BY <2>1, <2>2, WalletSubmits, Zenon
<1>2. w \in Holders \cap Accounts /\ a \in Pinned
  BY DEF PlanOK
<1>3. /\ IsEnvelope(e)
      /\ \A b, create : IsSponsored(request.env, w, b, create) => IsSponsored(e, w, b, create)
      /\ \A b, create : IsClaimOf(request.env, w, b, create) => IsClaimOf(e, w, b, create)
  <2>1. w \in Holders
    BY <1>2
  <2> QED
    BY <1>1, <2>1, SentIs
<1>4. MayClaim(balance, w, now) /\ Settled(ledger, w) /\ OpenAreAuthorized(ledger)
  BY DEF Able, LedgerStateInv, LedgerInv, Settled
<1>5. outcome' = Verdict(e) /\ (Applied(e, ledger).ok = TRUE => Verdict(e) = "applied")
      /\ ledger' = (IF Verdict(e) = "applied" THEN Applied(e, ledger) ELSE ledger)
      /\ balance' = (IF Verdict(e) = "applied" /\ IsClaim(e) THEN NoBalance ELSE balance)
  BY <1>1, <1>4 DEF Submit, Verdict
<1> HIDE DEF w, a
<1>6. CASE plan = <<OpenStep, AuthorizeStep, ClaimStep>>
  <2>1. IsSponsored(e, w, a, FALSE)
    <3>1. IsSponsored(request.env, w, a, FALSE)
      BY <1>6, Zenon DEF PlanOK, w, a
    <3> QED
      BY <1>3, <3>1, Zenon
  <2>2. Applied(e, ledger).ok = TRUE /\ <<w, a>> \in Applied(e, ledger).lines
    <3>1. w \in Holders
      BY <1>2
    <3> QED
      BY <1>4, <2>1, <3>1, SponsoredSucceeds
  <2>3. ~IsClaim(e)
    <3>1. /\ DOMAIN e.ops = 1..3
          /\ e.ops[1].type = "begin" /\ e.ops[2].type = "changeTrust" /\ e.ops[3].type = "end"
      BY <2>1 DEF IsSponsored, IsEnvelope
    <3>2. \A i \in 1..3 : i = 1 \/ i = 2 \/ i = 3
      OBVIOUS
    <3>3. \A i \in DOMAIN e.ops : e.ops[i].type # "claim"
      BY <3>1, <3>2
    <3> QED
      BY <3>3 DEF IsClaim, OpsOf
  <2> QED
    BY <1>5, <2>2, <2>3 DEF w, a
<1>7. CASE plan = <<ClaimStep>>
  <2>1. IsClaimOf(e, w, a, FALSE) /\ <<w, a>> \in ledger.auth
    <3>1. IsClaimOf(request.env, w, a, FALSE) /\ <<w, a>> \in ledger.auth
      BY <1>7, Zenon DEF PlanOK, Able, IsAuthorized, w, a
    <3> QED
      BY <1>3, <3>1, Zenon
  <2>2. w \in Holders
    BY <1>2
  <2>3. Applied(e, ledger).ok = TRUE
    BY <1>4, <2>1, <2>2, ClaimOfSucceeds
  <2>4. plan # <<OpenStep, AuthorizeStep, ClaimStep>>
    BY <1>7, KindByPlan
  <2> QED
    BY <1>5, <2>3, <2>4
<1>8. CASE plan = <<BothStep>>
  <2>1. IsClaimOf(e, w, a, TRUE) /\ a \notin Regulated
    <3>1. IsClaimOf(request.env, w, a, TRUE) /\ a \notin Regulated
      BY <1>8, Zenon DEF PlanOK, Able, w, a
    <3> QED
      BY <1>3, <3>1, Zenon
  <2>2. w \in Holders
    BY <1>2
  <2>3. Applied(e, ledger).ok = TRUE
    BY <1>4, <2>1, <2>2, ClaimOfSucceeds
  <2>4. plan # <<OpenStep, AuthorizeStep, ClaimStep>>
    BY <1>8, KindByPlan
  <2> QED
    BY <1>5, <2>3, <2>4
<1> QED
  BY <1>6, <1>7, <1>8 DEF PlanOK, Plans

-------------------------------------------------------------------------------
(***************************************************************************)
(* Every action keeps the invariant.                                        *)
(***************************************************************************)

\* The ledger between envelopes.
LEMMA FreshLedger ==
  ASSUME NEW exists, NEW lines, NEW auth
  PROVE  LET L == Ledger(exists, lines, auth)
         IN /\ Fine(L) /\ L.exists = exists /\ L.lines = lines /\ L.auth = auth
            /\ L.open = {} /\ L.paid = {} /\ L.spent = {}
<1> DEFINE yes == TRUE
           L == Ledger(exists, lines, auth)
<1>1. L = LedgerOf(yes, exists, lines, auth, {}, {}, {})
  BY DEF Ledger, LedgerOf
<1>2. yes = TRUE
  OBVIOUS
<1> HIDE DEF yes, L
<1>3. IsLedger(L) /\ L.ok = yes /\ L.exists = exists /\ L.lines = lines /\ L.auth = auth
      /\ L.open = {} /\ L.paid = {} /\ L.spent = {}
  BY <1>1, LedgerFields
<1>4. Fine(L)
  BY <1>2, <1>3 DEF Fine
<1> QED
  BY <1>3, <1>4 DEF L

\* The invariant holds at first.
LEMMA HandoffInitially ==
  ASSUME Init
  PROVE  HandoffInv
<1>1. PICK new \in SUBSET (Holders \cap Accounts) : ledger = Ledger((Accounts \ new), {}, {})
  BY DEF Init
<1>2. Fine(ledger) /\ ledger.exists = Accounts \ new /\ ledger.lines = {} /\ ledger.open = {} /\ ledger.paid = {} /\ ledger.spent = {}
  BY <1>1, FreshLedger
<1>3. LedgerStateInv
  BY <1>2 DEF LedgerStateInv, LedgerInv, Fine, OnlyOffered, OpenAreAuthorized, Holders
<1> QED
  BY <1>3 DEF HandoffInv, Init, RequestInv, PlanInv, SceneInv, Answers, RequestsComplete, BuiltIsAccepted, PlanSucceeds

\* The router's envelope and the sponsored one are what the relayer may hand out.
LEMMA RequestedIs ==
  ASSUME NEW w \in Holders, NEW a \in Pinned, NEW env \in RequestedOfRelayer(w, a), Relayer \in ledger.exists
  PROVE  /\ IsFor(env, w) /\ Unsigned(env)
         /\ \/ w \in Accounts /\ env.source = Relayer /\ \E create \in BOOLEAN : IsSponsored(env, w, a, create)
            \/ env.source \in Accounts /\ IsRouted(env, w, a)
<1>1. CASE \E source \in {Relayer, w} \cap Accounts : env = OnboardRouter(w, source, a)
  <2>1. PICK source \in {Relayer, w} \cap Accounts : env = OnboardRouter(w, source, a)
    BY <1>1
  <2>2. IsRouted(env, w, a) /\ Unsigned(env) /\ env.source = source
    BY <2>1, RoutedIs
  <2> QED
    BY <2>2, RoutedIsFor
<1>2. CASE w \in Accounts /\ env = SponsoredOnboard(Relayer, w, a, w \notin ledger.exists, "sponsor")
  <2> DEFINE create == w \notin ledger.exists
  <2>1. create \in BOOLEAN /\ w \in Holders \cap Accounts
    BY <1>2
  <2>2. env = SponsoredOnboard(Relayer, w, a, create, "sponsor")
    BY <1>2
  <2> HIDE DEF create
  <2>3. IsSponsored(env, w, a, create) /\ env.bump = Nobody /\ Unsigned(env) /\ env.source = Relayer
    BY <2>1, <2>2, SponsoredIs
  <2>4. IsFor(env, w)
    BY <2>1, <2>3, SponsoredIsFor
  <2> QED
    BY <2>1, <2>3, <2>4
<1> QED
  BY <1>1, <1>2 DEF RequestedOfRelayer, Holders

\* The integrator asks for a line.
LEMMA OnboardKeeps ==
  ASSUME HandoffInv, NEW w \in Holders, NEW a \in Pinned, Onboard(w, a)
  PROVE  HandoffInv'
<1>1. RequestOK(request')
  <2>1. CASE \E env \in RequestedOfRelayer(w, a) : Offer(env, w, a, {"none", "relayer"})
    <3>1. PICK env \in RequestedOfRelayer(w, a) : Offer(env, w, a, {"none", "relayer"})
      BY <2>1
    <3>2. Relayer \in ledger.exists
      BY DEF HandoffInv, LedgerStateInv
    <3> DEFINE cs == {"none", "relayer"}
    <3>3. cs \in SUBSET {"none", "relayer", "own"} /\ "own" \notin cs /\ Offer(env, w, a, cs)
      BY <3>1
    <3> HIDE DEF cs
    <3> QED
      BY <3>1, <3>2, <3>3, RequestedIs, OfferedIsOK
  <2>2. CASE w \in ledger.exists /\ Offer(SponsoredOnboard(Relayer, w, a, FALSE, "user"), w, a, {"none", "own"})
    <3> DEFINE no  == FALSE
               env == SponsoredOnboard(Relayer, w, a, no, "user")
               cs  == {"none", "own"}
    <3>0. w \in Accounts
      BY <2>2 DEF HandoffInv, LedgerStateInv, LedgerInv
    <3>1. Offer(env, w, a, cs) /\ cs \in SUBSET {"none", "relayer", "own"} /\ "relayer" \notin cs /\ no \in BOOLEAN
      BY <2>2
    <3> HIDE DEF no, cs
    <3>2. IsSponsored(env, w, a, no) /\ env.bump = Nobody /\ Unsigned(env)
      BY <3>0, <3>1, SponsoredIs
    <3> HIDE DEF env
    <3>3. IsFor(env, w)
      BY <3>0, <3>1, <3>2, SponsoredIsFor
    <3> QED
      BY <3>0, <3>1, <3>2, <3>3, OfferedIsOK
  <2> QED
    BY <2>1, <2>2 DEF Onboard
<1>2. UNCHANGED <<ledger, balance, now, plan, claim, disturbed, outcome>> /\ outcome = "none" /\ plan = <<>>
  BY DEF Onboard, Idle
<1> QED
  BY <1>1, <1>2 DEF HandoffInv, RequestInv, LedgerStateInv, PlanInv, SceneInv, Answers, RequestsComplete, BuiltIsAccepted, PlanSucceeds

\* A balance is delivered.
LEMMA DeliverKeeps ==
  ASSUME HandoffInv, NEW w \in Holders \cap Accounts, NEW a \in Pinned, Deliver(w, a)
  PROVE  HandoffInv'
<1>1. balance'.asset = a
  BY DEF Deliver, Balance
<1>2. UNCHANGED <<ledger, now, request, plan, claim, disturbed, outcome>> /\ plan = <<>>
  BY DEF Deliver
<1> QED
  BY <1>1, <1>2 DEF HandoffInv, RequestInv, LedgerStateInv, PlanInv, SceneInv, Answers, RequestsComplete, BuiltIsAccepted, PlanSucceeds

\* planClaim: the first step can be taken on the status read.
LEMMA PlanKeeps ==
  ASSUME HandoffInv, NEW w \in Holders \cap Accounts, Plan(w)
  PROVE  HandoffInv'
<1> DEFINE a == balance.asset
<1>1. /\ UNCHANGED <<ledger, balance, now, request, outcome>>
      /\ request = NoRequest /\ outcome = "none" /\ w \in ledger.exists /\ a \in Pinned
      /\ \A later \in now..MaxTime : MayClaim(balance, w, later)
      /\ plan' = PlanClaim(HasLine(w, a), IsAuthorized(w, a), a \in Regulated)
      /\ claim' = [who |-> w, asset |-> a]
  BY DEF Plan, Idle, HandoffInv, SceneInv
<1>2. claim'.who = w /\ claim'.asset = a
  BY <1>1
<1>3. IsAuthorized(w, a) \/ ~HasLine(w, a) \/ a \in Regulated
  BY DEF HandoffInv, LedgerStateInv, LedgerInv, OpenAreAuthorized, HasLine, IsAuthorized
<1> HIDE DEF a
<1>4. \/ plan' = <<ClaimStep>> /\ IsAuthorized(w, a)
      \/ plan' = <<AuthorizeStep, ClaimStep>> /\ HasLine(w, a)
      \/ plan' = <<BothStep>> /\ a \notin Regulated
      \/ plan' = <<OpenStep, AuthorizeStep, ClaimStep>>
  BY <1>1, <1>3 DEF PlanClaim, ClaimStep, AuthorizeStep, BothStep, OpenStep
<1>5. PlanOK'
  BY <1>1, <1>2, <1>4 DEF PlanOK, Plans
<1>6. Able(plan)'
  <2>1. (\A later \in now..MaxTime : MayClaim(balance, claim.who, later))' /\ (claim.who \in ledger.exists)'
    BY <1>1, <1>2
  <2>2. ledger' = ledger
    BY <1>1
  <2>3. /\ plan' = <<ClaimStep>> => <<w, a>> \in ledger.auth
        /\ plan' = <<AuthorizeStep, ClaimStep>> => <<w, a>> \in ledger.lines
        /\ plan' = <<BothStep>> => a \notin Regulated
    BY <1>4, KindByPlan DEF IsAuthorized, HasLine
  <2> QED
    BY <1>2, <2>1, <2>2, <2>3 DEF Able, IsAuthorized, HasLine
<1>7. PlanInv'
  BY <1>1, <1>5, <1>6 DEF PlanInv
<1> QED
  BY <1>1, <1>7 DEF HandoffInv, RequestInv, LedgerStateInv, SceneInv, Answers, RequestsComplete, BuiltIsAccepted, PlanSucceeds

\* The request of a step is the one the step asks for.
LEMMA TakeStepKeeps ==
  ASSUME HandoffInv, NEW kind \in {"create-trustline", "claim", "claim-with-trustline"}, TakeStep(kind)
  PROVE  HandoffInv'
<1> DEFINE w == claim.who
           a == claim.asset
           cs == {"none", "own"}
<1>1. /\ UNCHANGED <<ledger, balance, now, plan, claim, disturbed, outcome>>
      /\ request = NoRequest /\ outcome = "none" /\ plan # <<>> /\ Head(plan).kind = kind
  BY DEF TakeStep, Idle
<1>2. plan \in Plans /\ w \in Holders \cap Accounts /\ a \in Pinned
  BY <1>1 DEF HandoffInv, PlanInv, PlanOK
<1>3. /\ kind = "create-trustline" => plan = <<OpenStep, AuthorizeStep, ClaimStep>>
      /\ kind = "claim" => plan = <<ClaimStep>>
      /\ kind = "claim-with-trustline" => plan = <<BothStep>>
  BY <1>1, <1>2, PlanByKind
<1>4. cs \in SUBSET {"none", "relayer", "own"} /\ "relayer" \notin cs
  OBVIOUS
<1> HIDE DEF cs, w, a
<1>5. CASE kind = "create-trustline"
  <2> DEFINE no == FALSE
  <2>1. PICK role \in {"sponsor", "user"} : Offer(SponsoredOnboard(Relayer, w, a, no, role), w, a, cs)
    BY <1>5 DEF TakeStep, w, a, cs
  <2> DEFINE env == SponsoredOnboard(Relayer, w, a, no, role)
  <2>2. no \in BOOLEAN
    OBVIOUS
  <2> HIDE DEF no
  <2>3. IsSponsored(env, w, a, no) /\ env.bump = Nobody /\ Unsigned(env)
    BY <1>2, <2>2, SponsoredIs
  <2>4. Offer(env, w, a, cs)
    BY <2>1
  <2> HIDE DEF env
  <2>5. IsFor(env, w)
    BY <1>2, <2>2, <2>3, SponsoredIsFor
  <2>6. RequestOK(request')
    BY <1>2, <1>4, <2>2, <2>3, <2>4, <2>5, OfferedIsOK
  <2>7. request'.user = w /\ request'.asset = a /\ request'.env \in {env, Signed(env, Relayer)}
    BY <2>3, <2>4, <2>5, OfferIs DEF IsFor
  <2>8. IsSponsored(request'.env, w, a, no)
    BY <2>3, <2>5, <2>7, SigningKeepsShape DEF IsFor
  <2>9. IsSponsored(request'.env, w, a, FALSE)
    BY <2>8 DEF no
  <2>10. plan # <<ClaimStep>> /\ plan # <<BothStep>> /\ plan # <<AuthorizeStep, ClaimStep>>
    BY <1>3, <1>5, KindByPlan
  <2>11. PlanInv'
    <3>1. PlanOK'
      BY <1>1, <1>2, <2>7, <2>9, <2>10, Zenon DEF PlanOK, w, a
    <3>2. (plan # <<>> /\ ~disturbed => Able(plan)) /\ Able(plan)' = Able(plan)
      BY <1>1 DEF HandoffInv, PlanInv, Able, IsAuthorized, HasLine
    <3> QED
      BY <1>1, <3>1, <3>2 DEF PlanInv
  <2> QED
    BY <1>1, <2>6, <2>11 DEF HandoffInv, RequestInv, LedgerStateInv, SceneInv, Answers, RequestsComplete, BuiltIsAccepted, PlanSucceeds
<1>6. CASE kind # "create-trustline"
  <2> DEFINE create == kind = "claim-with-trustline"
  <2>1. PICK env \in ClaimEnvelopes(w, a, create) : Offer(env, w, a, cs)
    BY <1>6 DEF TakeStep, w, a, cs
  <2>2. create \in BOOLEAN
    OBVIOUS
  <2>10. /\ plan # <<OpenStep, AuthorizeStep, ClaimStep>> /\ plan # <<AuthorizeStep, ClaimStep>>
         /\ create => plan # <<ClaimStep>>
         /\ ~create => plan # <<BothStep>>
    BY <1>3, <1>6, KindByPlan
  <2> HIDE DEF create
  <2>3. IsClaimOf(env, w, a, create) /\ env.bump = Nobody /\ Unsigned(env)
    <3>1. PICK source \in {w, Relayer}, sponsor \in {Nobody, Relayer} : env = Claim(w, source, a, create, sponsor)
      BY <2>1 DEF ClaimEnvelopes
    <3> QED
      BY <1>2, <2>2, <3>1, ClaimIs
  <2>4. IsFor(env, w)
    BY <1>2, <2>2, <2>3, ClaimIsFor
  <2>5. RequestOK(request')
    BY <1>2, <1>4, <2>1, <2>2, <2>3, <2>4, OfferedIsOK
  <2>6. request'.user = w /\ request'.asset = a /\ request'.env \in {env, Signed(env, Relayer)}
    BY <2>1, <2>3, <2>4, OfferIs DEF IsFor
  <2>7. IsClaimOf(request'.env, w, a, create)
    BY <2>3, <2>4, <2>6, SigningKeepsShape DEF IsFor
  <2>8. (create => IsClaimOf(request'.env, w, a, TRUE)) /\ (~create => IsClaimOf(request'.env, w, a, FALSE))
    <3>1. ASSUME create PROVE create = TRUE
      BY <2>2, <3>1
    <3>2. ASSUME ~create PROVE create = FALSE
      BY <2>2, <3>2
    <3> QED
      BY <2>7, <3>1, <3>2
  <2>11. PlanInv'
    <3>1. PlanOK'
      BY <1>1, <1>2, <2>6, <2>8, <2>10, Zenon DEF PlanOK, w, a
    <3>2. (plan # <<>> /\ ~disturbed => Able(plan)) /\ Able(plan)' = Able(plan)
      BY <1>1 DEF HandoffInv, PlanInv, Able, IsAuthorized, HasLine
    <3> QED
      BY <1>1, <3>1, <3>2 DEF PlanInv
  <2> QED
    BY <1>1, <2>5, <2>11 DEF HandoffInv, RequestInv, LedgerStateInv, SceneInv, Answers, RequestsComplete, BuiltIsAccepted, PlanSucceeds
<1> QED
  BY <1>5, <1>6

\* The integrator authorizes: the claim can be taken.
LEMMA TakeAuthorizeKeeps ==
  ASSUME HandoffInv, TakeAuthorize
  PROVE  HandoffInv'
<1> DEFINE w == claim.who
           a == claim.asset
           auth == ledger.auth \cup {<<w, a>>}
<1>1. /\ UNCHANGED <<balance, now, request, claim, disturbed, outcome>> /\ request = NoRequest /\ outcome = "none"
      /\ plan # <<>> /\ Head(plan).kind = "authorize" /\ plan' = Tail(plan)
      /\ ledger' = [ledger EXCEPT !.auth = auth]
  BY DEF TakeAuthorize, Idle
<1>2. plan = <<AuthorizeStep, ClaimStep>> /\ plan' = <<ClaimStep>>
  BY <1>1, PlanByKind, PlansAre DEF HandoffInv, PlanInv, PlanOK
<1>3. auth = ledger.auth \cup {<<w, a>>}
  OBVIOUS
<1> HIDE DEF auth
<1>4. ledger' = LedgerOf(ledger.ok, ledger.exists, ledger.lines, auth, ledger.open, ledger.paid, ledger.spent)
  BY <1>1, LedgerUpdates DEF HandoffInv, LedgerStateInv, LedgerInv
<1>5. /\ IsLedger(ledger') /\ ledger'.ok = ledger.ok /\ ledger'.exists = ledger.exists /\ ledger'.lines = ledger.lines
      /\ ledger'.auth = auth /\ ledger'.open = ledger.open /\ ledger'.paid = ledger.paid /\ ledger'.spent = ledger.spent
  BY <1>4, LedgerFields
<1>6. LedgerStateInv'
  BY <1>1, <1>3, <1>5 DEF HandoffInv, LedgerStateInv, LedgerInv, Fine, OnlyOffered, OpenAreAuthorized
<1>7. PlanOK'
  <2>1. plan' \in Plans
    BY <1>2 DEF Plans
  <2> QED
    BY <1>1, <2>1 DEF HandoffInv, PlanInv, PlanOK
<1>8. ~disturbed => Able(plan)'
  <2>1. plan' # <<AuthorizeStep, ClaimStep>> /\ plan' # <<BothStep>>
    BY <1>2, KindByPlan
  <2>2. ~disturbed => Able(plan)
    BY <1>1 DEF HandoffInv, PlanInv
  <2>3. IsAuthorized(claim.who, claim.asset)'
    BY <1>1, <1>3, <1>5 DEF IsAuthorized
  <2> QED
    BY <1>1, <1>5, <2>1, <2>2, <2>3 DEF Able
<1>9. PlanInv'
  BY <1>1, <1>7, <1>8 DEF PlanInv
<1> QED
  BY <1>1, <1>6, <1>9 DEF HandoffInv, RequestInv, SceneInv, Answers, RequestsComplete, BuiltIsAccepted, PlanSucceeds

\* The wallet signs: what is handed out is completed, accepted and succeeds.
LEMMA WalletSignsKeeps ==
  ASSUME HandoffInv, WalletSigns
  PROVE  HandoffInv'
<1>1. request # NoRequest /\ outcome = "none" /\ UNCHANGED <<now, request, plan, claim, disturbed>> /\ RequestOK(request)
  BY DEF WalletSigns, HandoffInv, RequestInv
<1>2. PICK env, e : /\ IsFor(env, request.user) /\ e \in Sent(env) /\ Submit(e)
                    /\ Complete(e) \/ Voids(request)
  BY <1>1, WalletSubmits, Zenon
<1>3. Len(e.ops) \in Nat /\ FrugalEnvelope(e)
  <2>1. request.user \in Holders
    BY <1>1 DEF RequestOK
  <2> QED
    BY <1>2, <2>1, SentIs DEF IsEnvelope
<1>4. LedgerInv(ledger)
  BY DEF HandoffInv, LedgerStateInv
<1>5. /\ LedgerInv(ledger') /\ ledger.exists \subseteq ledger'.exists
      /\ balance' \in {balance, NoBalance}
      /\ outcome' \in {"incomplete", "applied", "failed"}
      /\ outcome' = "incomplete" => Voids(request)
  BY <1>2, <1>3, <1>4, SubmitKeeps
<1>6. LedgerStateInv'
  BY <1>5, LedgerStays DEF HandoffInv
<1>7. ASSUME plan # <<>>, ~disturbed
      PROVE  outcome' = "applied" /\ Able(Tail(plan))'
  <2>1. PlanOK /\ Able(plan) /\ now \in 0..MaxTime
    BY <1>1, <1>7 DEF HandoffInv, PlanInv, SceneInv
  <2>2. /\ outcome' = "applied"
        /\ plan = <<OpenStep, AuthorizeStep, ClaimStep>> =>
             balance' = balance /\ <<claim.who, claim.asset>> \in ledger'.lines
    BY <1>1, <1>7, <2>1, StepSucceeds DEF HandoffInv
  <2>3. (claim.who \in ledger.exists)'
    BY <1>1, <1>5, <2>1 DEF Able
  <2>4. plan \in Plans /\ plan # <<AuthorizeStep, ClaimStep>>
    BY <1>1, <2>1 DEF PlanOK
  <2>5. CASE plan = <<OpenStep, AuthorizeStep, ClaimStep>>
    <3>1. Tail(plan) = <<AuthorizeStep, ClaimStep>> /\ plan # <<>>
      BY <2>5, PlansAre
    <3>2. Tail(plan) # <<ClaimStep>> /\ Tail(plan) # <<BothStep>>
      BY <3>1, KindByPlan
    <3>3. (\A later \in now..MaxTime : MayClaim(balance, claim.who, later))'
      BY <1>1, <1>7, <2>1, <2>2, <2>5 DEF Able
    <3> QED
      BY <1>1, <2>2, <2>3, <2>5, <3>1, <3>2, <3>3 DEF Able, HasLine
  <2>6. CASE plan # <<OpenStep, AuthorizeStep, ClaimStep>>
    <3>1. plan = <<ClaimStep>> \/ plan = <<BothStep>>
      BY <2>4, <2>6 DEF Plans
    <3>2. Tail(plan) = <<>>
      BY <3>1, PlansAre
    <3>3. <<>> # <<ClaimStep>> /\ <<>> # <<BothStep>> /\ <<>> # <<AuthorizeStep, ClaimStep>>
      BY PlansAre DEF Plans
    <3> QED
      BY <1>1, <2>2, <2>3, <3>2, <3>3 DEF Able
  <2> QED
    BY <2>2, <2>5, <2>6
<1>8. PlanOK' = PlanOK
  BY <1>1 DEF PlanOK
<1>9. PlanInv'
  BY <1>1, <1>7, <1>8 DEF HandoffInv, PlanInv
<1>11. Voids(request) => request.user \in Contracts /\ Relayer \in Signatures(request.env)
  BY DEF Voids, Signatures
<1>10. Answers'
  BY <1>1, <1>5, <1>7, <1>11 DEF Answers, RequestsComplete, BuiltIsAccepted, PlanSucceeds
<1> QED
  BY <1>1, <1>5, <1>6, <1>9, <1>10 DEF HandoffInv, RequestInv, SceneInv

\* The next step finds what it needs.
LEMMA ConcludedKeeps ==
  ASSUME HandoffInv, Concluded
  PROVE  HandoffInv'
<1>1. /\ UNCHANGED <<balance, now>> /\ request' = NoRequest /\ outcome' = "none"
      /\ plan' = (IF plan # <<>> /\ outcome = "applied" THEN Tail(plan) ELSE <<>>)
      /\ claim' = (IF plan' = <<>> THEN NoClaim ELSE claim)
      /\ disturbed /\ plan' # <<>> => disturbed'
      /\ ledger' = Ledger(ledger.exists, ledger.lines, ledger.auth)
  BY DEF Concluded
<1>2. /\ Fine(ledger') /\ ledger'.exists = ledger.exists /\ ledger'.lines = ledger.lines /\ ledger'.auth = ledger.auth
      /\ ledger'.open = {} /\ ledger'.paid = {} /\ ledger'.spent = {}
  BY <1>1, FreshLedger
<1>3. LedgerStateInv'
  BY <1>2 DEF HandoffInv, LedgerStateInv, LedgerInv, Fine, OnlyOffered, OpenAreAuthorized
<1>4. ASSUME plan' # <<>> PROVE PlanOK' /\ (~disturbed' => Able(plan)')
  <2>1. plan # <<>> /\ outcome = "applied" /\ plan' = Tail(plan) /\ claim' = claim /\ (~disturbed' => ~disturbed)
    BY <1>1, <1>4
  <2>2. PlanOK /\ (~disturbed => Able(Tail(plan)))
    BY <2>1 DEF HandoffInv, PlanInv
  <2>3. plan' \in Plans
    BY <1>4, <2>1, <2>2, PlansAre DEF PlanOK
  <2>4. PlanOK'
    BY <1>1, <2>1, <2>2, <2>3 DEF PlanOK
  <2>5. ~disturbed' => Able(plan)'
    <3>1. Able(Tail(plan)) => Able(plan)'
      BY <1>1, <1>2, <2>1 DEF Able, HasLine, IsAuthorized
    <3> QED
      BY <2>1, <2>2, <3>1
  <2> QED
    BY <2>4, <2>5
<1>5. PlanInv'
  BY <1>1, <1>4 DEF PlanInv
<1> QED
  BY <1>1, <1>3, <1>5 DEF HandoffInv, RequestInv, SceneInv, Answers, RequestsComplete, BuiltIsAccepted, PlanSucceeds

\* What anybody posts is an envelope like any other.
LEMMA PostedAreTransactions ==
  Posted \subseteq Transactions
<1>1. ASSUME NEW env \in Strange, NEW sigs \in {{}, Holders} PROVE [env EXCEPT !.sigs = sigs] \in Transactions
  <2>1. env \in Transactions /\ sigs \in SUBSET (Accounts \cup Contracts)
    BY DEF Holders
  <2> QED
    BY <2>1 DEF Transactions
<1>2. ASSUME NEW e \in Posted PROVE e \in Transactions
  <2>1. PICK env \in Strange, sigs \in {{}, Holders} : e = [env EXCEPT !.sigs = sigs]
    BY SMTT(30) DEF Posted
  <2> QED
    BY <1>1, <2>1, Zenon
<1> QED
  BY <1>2

\* What the callback takes of anybody costs what is offered.
LEMMA PostKeeps ==
  ASSUME HandoffInv, Post
  PROVE  HandoffInv'
<1>1. PICK env \in Taken : CalledBack(env)
  BY DEF Post
<1>2. /\ request = NoRequest /\ outcome = "none" /\ plan = <<>> /\ UNCHANGED <<now, request, plan, claim, disturbed>>
  BY DEF Post, Idle
<1>3. env \in Transactions /\ CallbackIntents(env) # {}
  BY PostedAreTransactions DEF Taken
<1>4. IsEnvelope(env) /\ FrugalEnvelope(env)
  BY <1>3, TakenIsFrugal DEF Transactions, IsEnvelope
<1>5. PICK e \in {env, Signed(env, Relayer)} : Submit(e)
  BY <1>1, <1>3 DEF CalledBack, SignedToSubmit
<1>6. Len(e.ops) \in Nat /\ FrugalEnvelope(e)
  <2>1. IsEnvelope(e)
    BY <1>4, SigningKeeps
  <2>2. FrugalEnvelope(e)
    BY <1>4, SigningKeepsShape
  <2> QED
    BY <2>1, <2>2 DEF IsEnvelope
<1>7. /\ LedgerInv(ledger') /\ ledger.exists \subseteq ledger'.exists
      /\ balance' \in {balance, NoBalance}
      /\ outcome' \in {"incomplete", "applied", "failed"}
  BY <1>5, <1>6, SubmitKeeps DEF HandoffInv, LedgerStateInv
<1>8. LedgerStateInv'
  BY <1>7, LedgerStays DEF HandoffInv
<1> QED
  BY <1>2, <1>7, <1>8 DEF HandoffInv, RequestInv, PlanInv, SceneInv, Answers, RequestsComplete, BuiltIsAccepted, PlanSucceeds

\* A sweep disturbs the plan.
LEMMA SweepKeeps ==
  ASSUME HandoffInv, Sweep
  PROVE  HandoffInv'
<1>1. UNCHANGED <<ledger, now, request, plan, claim, outcome>> /\ balance' = NoBalance /\ disturbed' = (plan # <<>>)
  BY DEF Sweep
<1>2. PlanOK' = PlanOK
  BY <1>1 DEF PlanOK
<1> QED
  BY <1>1, <1>2 DEF HandoffInv, RequestInv, LedgerStateInv, PlanInv, SceneInv, Answers, RequestsComplete, BuiltIsAccepted, PlanSucceeds

\* So does a revocation; open assets are not revoked.
LEMMA RevokeKeeps ==
  ASSUME HandoffInv, NEW w \in Holders, NEW a \in Pinned, Revoke(w, a)
  PROVE  HandoffInv'
<1> DEFINE auth == ledger.auth \ {<<w, a>>}
<1>1. /\ UNCHANGED <<balance, now, request, plan, claim, outcome>> /\ disturbed' = (plan # <<>>)
      /\ a \in Regulated /\ ledger' = [ledger EXCEPT !.auth = auth]
  BY DEF Revoke
<1>2. OpenAreAuthorized(ledger) => \A v, b : <<v, b>> \in ledger.lines /\ b \notin Regulated => <<v, b>> \in auth
  BY <1>1 DEF OpenAreAuthorized
<1> HIDE DEF auth
<1>3. ledger' = LedgerOf(ledger.ok, ledger.exists, ledger.lines, auth, ledger.open, ledger.paid, ledger.spent)
  BY <1>1, LedgerUpdates DEF HandoffInv, LedgerStateInv, LedgerInv
<1>4. /\ IsLedger(ledger') /\ ledger'.ok = ledger.ok /\ ledger'.exists = ledger.exists /\ ledger'.lines = ledger.lines
      /\ ledger'.auth = auth /\ ledger'.open = ledger.open /\ ledger'.paid = ledger.paid /\ ledger'.spent = ledger.spent
  BY <1>3, LedgerFields
<1>5. LedgerStateInv'
  BY <1>1, <1>2, <1>4 DEF HandoffInv, LedgerStateInv, LedgerInv, Fine, OnlyOffered, OpenAreAuthorized
<1>6. PlanOK' = PlanOK
  BY <1>1 DEF PlanOK
<1> QED
  BY <1>1, <1>5, <1>6 DEF HandoffInv, RequestInv, PlanInv, SceneInv, Answers, RequestsComplete, BuiltIsAccepted, PlanSucceeds

\* What may be claimed from now on may be claimed later.
LEMMA PassesKeeps ==
  ASSUME HandoffInv, Passes
  PROVE  HandoffInv'
<1>1. UNCHANGED <<ledger, balance, request, plan, claim, disturbed, outcome>> /\ now' = now + 1 /\ now' \in 0..MaxTime
      /\ now \in 0..MaxTime
  BY DEF Passes, HandoffInv, SceneInv
<1>2. now'..MaxTime \subseteq now..MaxTime
  BY <1>1
<1>3. PlanOK' = PlanOK
  BY <1>1 DEF PlanOK
<1>4. \A p : Able(p) => Able(p)'
  BY <1>1, <1>2 DEF Able, HasLine, IsAuthorized
<1>5. PlanInv'
  <2>1. (IF outcome = "applied" THEN Tail(plan) ELSE plan)' = (IF outcome = "applied" THEN Tail(plan) ELSE plan)
    BY <1>1
  <2> QED
    BY <1>1, <1>3, <1>4, <2>1 DEF HandoffInv, PlanInv
<1> QED
  BY <1>1, <1>5 DEF HandoffInv, RequestInv, LedgerStateInv, SceneInv, Answers, RequestsComplete, BuiltIsAccepted, PlanSucceeds

\* Nothing changes.
LEMMA StutterKeeps ==
  ASSUME HandoffInv, UNCHANGED vars
  PROVE  HandoffInv'
<1>1. UNCHANGED <<ledger, balance, now, request, plan, claim, disturbed, outcome>>
  BY DEF vars
<1>2. PlanOK' = PlanOK /\ \A p : Able(p)' = Able(p)
  BY <1>1 DEF PlanOK, Able, HasLine, IsAuthorized
<1>3. PlanInv'
  <2>1. (IF outcome = "applied" THEN Tail(plan) ELSE plan)' = (IF outcome = "applied" THEN Tail(plan) ELSE plan)
    BY <1>1
  <2> QED
    BY <1>1, <1>2, <2>1 DEF HandoffInv, PlanInv
<1> QED
  BY <1>1, <1>3 DEF HandoffInv, RequestInv, LedgerStateInv, SceneInv, Answers, RequestsComplete, BuiltIsAccepted, PlanSucceeds

-------------------------------------------------------------------------------
(***************************************************************************)
(* Claim predicates, level by level.                                       *)
(***************************************************************************)

USE DepthIsNat

\* One level more.
Deeper(S) == Unnested \cup [kind : {"not"}, p : S] \cup [kind : {"and", "or"}, p : S, q : S]

Levels(n, f) == f = [i \in 0..n |-> IF i = 0 THEN Unnested ELSE Deeper(f[i - 1])]

LEMMA LevelsExist == \A n \in Nat : \E f : Levels(n, f)
<1> DEFINE S == {n \in Nat : \E f : Levels(n, f)}
<1>1. 0 \in S
  <2>1. Levels(0, [i \in 0..0 |-> Unnested])
    BY DEF Levels
  <2> QED
    BY <2>1
<1>2. ASSUME NEW n \in Nat, n \in S PROVE n + 1 \in S
  <2>1. PICK f : Levels(n, f)
    BY <1>2
  <2> DEFINE g == [i \in 0..(n + 1) |-> IF i <= n THEN f[i] ELSE Deeper(f[i - 1])]
  <2>2. \A i \in 0..n : f[i] = IF i = 0 THEN Unnested ELSE Deeper(f[i - 1])
    BY <2>1 DEF Levels
  <2>3. \A i \in 0..(n + 1) : g[i] = IF i = 0 THEN Unnested ELSE Deeper(g[i - 1])
    BY <2>2
  <2> HIDE DEF g
  <2>4. g = [i \in 0..(n + 1) |-> g[i]]
    BY DEF g
  <2>5. Levels(n + 1, g)
    BY <2>3, <2>4 DEF Levels
  <2> QED
    BY <2>5
<1> HIDE DEF S
<1>3. Nat \subseteq S
  BY <1>1, <1>2, NatSetInduction
<1> QED
  BY <1>3 DEF S

LEMMA NestedSteps ==
  /\ Nested[0] = Unnested
  /\ \A n \in 0..(MaxDepth - 1) : Nested[n + 1] = Deeper(Nested[n])
<1>1. Nested = CHOOSE f : Levels(MaxDepth, f)
  BY DEF Nested, Levels, Deeper
<1>2. Levels(MaxDepth, Nested)
  BY <1>1, LevelsExist
<1>3. \A i \in 0..MaxDepth : Nested[i] = IF i = 0 THEN Unnested ELSE Deeper(Nested[i - 1])
  BY <1>2 DEF Levels
<1> QED
  BY <1>3

LEMMA DeeperGrows == ASSUME NEW S, NEW T, S \subseteq T PROVE Deeper(S) \subseteq Deeper(T)
  BY DEF Deeper

LEMMA NestedGrows == \A n \in 0..(MaxDepth - 1) : Nested[n] \subseteq Nested[n + 1]
<1> DEFINE S == {n \in Nat : n <= MaxDepth - 1 => Nested[n] \subseteq Nested[n + 1]}
<1>1. 0 \in S
  BY NestedSteps DEF Deeper
<1>2. ASSUME NEW n \in Nat, n \in S PROVE n + 1 \in S
  <2> SUFFICES ASSUME n + 1 <= MaxDepth - 1 PROVE Nested[n + 1] \subseteq Nested[n + 1 + 1]
    OBVIOUS
  <2>1. Nested[n] \subseteq Nested[n + 1]
    BY <1>2
  <2>2. Nested[n + 1] = Deeper(Nested[n]) /\ Nested[n + 1 + 1] = Deeper(Nested[n + 1])
    BY NestedSteps
  <2> QED
    BY <2>1, <2>2, DeeperGrows
<1> HIDE DEF S
<1>3. Nat \subseteq S
  BY <1>1, <1>2, NatSetInduction
<1> QED
  BY <1>3 DEF S

\* A set of levels that holds the first one, and the next with each, is all.
LEMMA LevelInduction ==
  ASSUME NEW S, 0 \in S, \A n \in 0..(MaxDepth - 1) : n \in S => n + 1 \in S
  PROVE  MaxDepth \in S
<1> DEFINE T == {n \in Nat : n <= MaxDepth => n \in S}
<1>1. 0 \in T
  OBVIOUS
<1>2. ASSUME NEW n \in Nat, n \in T PROVE n + 1 \in T
  BY <1>2
<1> HIDE DEF T
<1>3. Nat \subseteq T
  BY <1>1, <1>2, NatSetInduction
<1> QED
  BY <1>3 DEF T

\* What is in a level, and of what kind.
LEMMA Kinds ==
  ASSUME NEW S, NEW x \in Deeper(S)
  PROVE  \/ x.kind = "unconditional" /\ x = Unconditional
         \/ x.kind = "abs_before" /\ x.t \in Nat /\ x = AbsBefore(x.t)
         \/ x.kind = "rel_before" /\ x.t \in Nat /\ x = RelBefore(x.t)
         \/ x.kind = "not" /\ x.p \in S /\ x = Negated(x.p)
         \/ x.kind = "and" /\ x.p \in S /\ x.q \in S /\ x = Both(x.p, x.q)
         \/ x.kind = "or" /\ x.p \in S /\ x.q \in S /\ x = Either(x.p, x.q)
<1>1. CASE x \in Unnested
  BY <1>1 DEF Unnested, Unconditional, AbsBefore, RelBefore
<1>2. CASE x \in [kind : {"not"}, p : S]
  BY <1>2 DEF Negated
<1>3. CASE x \in [kind : {"and", "or"}, p : S, q : S]
  BY <1>3 DEF Both, Either
<1> QED
  BY <1>1, <1>2, <1>3 DEF Deeper

LEMMA SimpleKinds ==
  ASSUME NEW x \in Unnested
  PROVE  \/ x.kind = "unconditional" /\ x = Unconditional
         \/ x.kind = "abs_before" /\ x.t \in Nat /\ x = AbsBefore(x.t)
         \/ x.kind = "rel_before" /\ x.t \in Nat /\ x = RelBefore(x.t)
  BY DEF Unnested, Unconditional, AbsBefore, RelBefore

\* Each level is of what the one below it holds.
LEMMA LevelsGrow ==
  /\ Nested[0] = Deeper({}) /\ {} \subseteq Deeper({})
  /\ \A n \in 0..(MaxDepth - 1) : Nested[n] \subseteq Deeper(Nested[n]) /\ Nested[n + 1] = Deeper(Nested[n])
<1>1. Deeper({}) = Unnested
  BY DEF Deeper
<1> QED
  BY <1>1, NestedSteps, NestedGrows

\* One step of Satisfied, and the ledger's verdicts on a set of predicates.
LedgerStep(x, h, created, t) ==
  \/ x.kind = "unconditional"
  \/ x.kind = "abs_before" /\ t < x.t
  \/ x.kind = "rel_before" /\ t < created + x.t
  \/ x.kind = "not" /\ ~h[x.p]
  \/ x.kind = "and" /\ h[x.p] /\ h[x.q]
  \/ x.kind = "or" /\ (h[x.p] \/ h[x.q])

LedgerVerdicts(S, created, t, h) == h = [x \in S |-> LedgerStep(x, h, created, t)]

LEMMA LedgerStepBelow ==
  ASSUME NEW S, NEW x \in Deeper(S), NEW f, NEW g, \A y \in S : f[y] = g[y], NEW created, NEW t
  PROVE  LedgerStep(x, f, created, t) = LedgerStep(x, g, created, t)
<1>1. CASE x.kind \notin {"not", "and", "or"}
  BY <1>1 DEF LedgerStep
<1>2. CASE x.kind = "not" /\ x.p \in S
  BY <1>2 DEF LedgerStep
<1>3. CASE x.kind = "and" /\ x.p \in S /\ x.q \in S
  BY <1>3 DEF LedgerStep
<1>4. CASE x.kind = "or" /\ x.p \in S /\ x.q \in S
  BY <1>4 DEF LedgerStep
<1> QED
  BY <1>1, <1>2, <1>3, <1>4, Kinds

LEMMA LedgerVerdictsDeepen ==
  ASSUME NEW S, S \subseteq Deeper(S), NEW created, NEW t, NEW f, LedgerVerdicts(S, created, t, f)
  PROVE  \E g : LedgerVerdicts(Deeper(S), created, t, g)
<1> DEFINE T == Deeper(S)
           g == [x \in T |-> LedgerStep(x, f, created, t)]
<1>1. S \subseteq T /\ \A x \in T : x \in Deeper(S)
  OBVIOUS
<1> HIDE DEF T
<1>2. \A x \in S : g[x] = f[x]
  BY <1>1 DEF LedgerVerdicts
<1>3. \A x \in T : g[x] = LedgerStep(x, f, created, t)
  OBVIOUS
<1>4. g = [x \in T |-> g[x]]
  OBVIOUS
<1> HIDE DEF g
<1>5. \A x \in T : g[x] = LedgerStep(x, g, created, t)
  BY <1>1, <1>2, <1>3, LedgerStepBelow
<1>6. LedgerVerdicts(T, created, t, g)
  BY <1>4, <1>5 DEF LedgerVerdicts
<1> QED
  BY <1>6 DEF T

LEMMA LedgerVerdictsExist ==
  ASSUME NEW created, NEW t
  PROVE  \E h : LedgerVerdicts(AllPredicates, created, t, h)
<1> DEFINE S == {n \in 0..MaxDepth : \E h : LedgerVerdicts(Nested[n], created, t, h)}
<1>1. 0 \in S
  <2>1. \E h : LedgerVerdicts({}, created, t, h)
    BY DEF LedgerVerdicts
  <2> QED
    BY <2>1, LedgerVerdictsDeepen, LevelsGrow
<1>2. ASSUME NEW n \in 0..(MaxDepth - 1), n \in S PROVE n + 1 \in S
  <2>1. \E h : LedgerVerdicts(Nested[n + 1], created, t, h)
    BY <1>2, LedgerVerdictsDeepen, LevelsGrow
  <2> QED
    BY <2>1
<1> HIDE DEF S
<1>3. MaxDepth \in S
  BY <1>1, <1>2, LevelInduction
<1> QED
  BY <1>3 DEF S, AllPredicates

LEMMA SatisfiedIs ==
  ASSUME NEW created, NEW t
  PROVE  \E h : /\ \A p : Satisfied(p, created, t) = h[p]
                /\ \A x \in AllPredicates : h[x] = LedgerStep(x, h, created, t)
<1> DEFINE h == CHOOSE h : LedgerVerdicts(AllPredicates, created, t, h)
<1>1. LedgerVerdicts(AllPredicates, created, t, h)
  BY LedgerVerdictsExist
<1>2. \A p : Satisfied(p, created, t) = h[p]
  BY DEF Satisfied, LedgerVerdicts, LedgerStep
<1> HIDE DEF h
<1>3. \A x \in AllPredicates : h[x] = LedgerStep(x, h, created, t)
  BY <1>1 DEF LedgerVerdicts
<1> QED
  BY <1>2, <1>3

\* The same of PredicateHolds.
PageStep(x, h, t) ==
  \/ x.kind \in {"unconditional", "rel_before"}
  \/ x.kind = "abs_before" /\ t < x.t
  \/ x.kind = "not" /\ ~h[x.p]
  \/ x.kind = "and" /\ h[x.p] /\ h[x.q]
  \/ x.kind = "or" /\ (h[x.p] \/ h[x.q])

PageVerdicts(S, t, h) == h = [x \in S |-> PageStep(x, h, t)]

LEMMA PageStepBelow ==
  ASSUME NEW S, NEW x \in Deeper(S), NEW f, NEW g, \A y \in S : f[y] = g[y], NEW t
  PROVE  PageStep(x, f, t) = PageStep(x, g, t)
<1>1. CASE x.kind \notin {"not", "and", "or"}
  BY <1>1 DEF PageStep
<1>2. CASE x.kind = "not" /\ x.p \in S
  BY <1>2 DEF PageStep
<1>3. CASE x.kind = "and" /\ x.p \in S /\ x.q \in S
  BY <1>3 DEF PageStep
<1>4. CASE x.kind = "or" /\ x.p \in S /\ x.q \in S
  BY <1>4 DEF PageStep
<1> QED
  BY <1>1, <1>2, <1>3, <1>4, Kinds

LEMMA PageVerdictsDeepen ==
  ASSUME NEW S, S \subseteq Deeper(S), NEW t, NEW f, PageVerdicts(S, t, f)
  PROVE  \E g : PageVerdicts(Deeper(S), t, g)
<1> DEFINE T == Deeper(S)
           g == [x \in T |-> PageStep(x, f, t)]
<1>1. S \subseteq T /\ \A x \in T : x \in Deeper(S)
  OBVIOUS
<1> HIDE DEF T
<1>2. \A x \in S : g[x] = f[x]
  BY <1>1 DEF PageVerdicts
<1>3. \A x \in T : g[x] = PageStep(x, f, t)
  OBVIOUS
<1>4. g = [x \in T |-> g[x]]
  OBVIOUS
<1> HIDE DEF g
<1>5. \A x \in T : g[x] = PageStep(x, g, t)
  BY <1>1, <1>2, <1>3, PageStepBelow
<1>6. PageVerdicts(T, t, g)
  BY <1>4, <1>5 DEF PageVerdicts
<1> QED
  BY <1>6 DEF T

LEMMA PageVerdictsExist ==
  ASSUME NEW t
  PROVE  \E h : PageVerdicts(AllPredicates, t, h)
<1> DEFINE S == {n \in 0..MaxDepth : \E h : PageVerdicts(Nested[n], t, h)}
<1>1. 0 \in S
  <2>1. \E h : PageVerdicts({}, t, h)
    BY DEF PageVerdicts
  <2> QED
    BY <2>1, PageVerdictsDeepen, LevelsGrow
<1>2. ASSUME NEW n \in 0..(MaxDepth - 1), n \in S PROVE n + 1 \in S
  <2>1. \E h : PageVerdicts(Nested[n + 1], t, h)
    BY <1>2, PageVerdictsDeepen, LevelsGrow
  <2> QED
    BY <2>1
<1> HIDE DEF S
<1>3. MaxDepth \in S
  BY <1>1, <1>2, LevelInduction
<1> QED
  BY <1>3 DEF S, AllPredicates

LEMMA PredicateHoldsIs ==
  ASSUME NEW t
  PROVE  \E h : /\ \A p : PredicateHolds(p, t) = h[p]
                /\ \A x \in AllPredicates : h[x] = PageStep(x, h, t)
<1> DEFINE h == CHOOSE h : PageVerdicts(AllPredicates, t, h)
<1>1. PageVerdicts(AllPredicates, t, h)
  BY PageVerdictsExist
<1>2. \A p : PredicateHolds(p, t) = h[p]
  BY DEF PredicateHolds, PageVerdicts, PageStep
<1> HIDE DEF h
<1>3. \A x \in AllPredicates : h[x] = PageStep(x, h, t)
  BY <1>1 DEF PageVerdicts
<1> QED
  BY <1>2, <1>3

\* The same of Resolved.
HorizonStep(x, h, created) ==
  IF x.kind = "rel_before" THEN AbsBefore(created + x.t)
  ELSE IF x.kind = "not"   THEN Negated(h[x.p])
  ELSE IF x.kind = "and"   THEN Both(h[x.p], h[x.q])
  ELSE IF x.kind = "or"    THEN Either(h[x.p], h[x.q])
  ELSE x

HorizonAnswers(S, created, h) == h = [x \in S |-> HorizonStep(x, h, created)]

LEMMA HorizonStepBelow ==
  ASSUME NEW S, NEW x \in Deeper(S), NEW f, NEW g, \A y \in S : f[y] = g[y], NEW created
  PROVE  HorizonStep(x, f, created) = HorizonStep(x, g, created)
<1>1. CASE x.kind \notin {"not", "and", "or"}
  BY <1>1 DEF HorizonStep
<1>2. CASE x.kind = "not" /\ x.p \in S
  BY <1>2 DEF HorizonStep
<1>3. CASE x.kind = "and" /\ x.p \in S /\ x.q \in S
  BY <1>3 DEF HorizonStep
<1>4. CASE x.kind = "or" /\ x.p \in S /\ x.q \in S
  BY <1>4 DEF HorizonStep
<1> QED
  BY <1>1, <1>2, <1>3, <1>4, Kinds

LEMMA HorizonAnswersDeepen ==
  ASSUME NEW S, S \subseteq Deeper(S), NEW created, NEW f, HorizonAnswers(S, created, f)
  PROVE  \E g : HorizonAnswers(Deeper(S), created, g)
<1> DEFINE T == Deeper(S)
           g == [x \in T |-> HorizonStep(x, f, created)]
<1>1. S \subseteq T /\ \A x \in T : x \in Deeper(S)
  OBVIOUS
<1> HIDE DEF T
<1>2. \A x \in S : g[x] = f[x]
  BY <1>1 DEF HorizonAnswers
<1>3. \A x \in T : g[x] = HorizonStep(x, f, created)
  OBVIOUS
<1>4. g = [x \in T |-> g[x]]
  OBVIOUS
<1> HIDE DEF g
<1>5. \A x \in T : g[x] = HorizonStep(x, g, created)
  BY <1>1, <1>2, <1>3, HorizonStepBelow
<1>6. HorizonAnswers(T, created, g)
  BY <1>4, <1>5 DEF HorizonAnswers
<1> QED
  BY <1>6 DEF T

LEMMA HorizonAnswersExist ==
  ASSUME NEW created
  PROVE  \E h : HorizonAnswers(AllPredicates, created, h)
<1> DEFINE S == {n \in 0..MaxDepth : \E h : HorizonAnswers(Nested[n], created, h)}
<1>1. 0 \in S
  <2>1. \E h : HorizonAnswers({}, created, h)
    BY DEF HorizonAnswers
  <2> QED
    BY <2>1, HorizonAnswersDeepen, LevelsGrow
<1>2. ASSUME NEW n \in 0..(MaxDepth - 1), n \in S PROVE n + 1 \in S
  <2>1. \E h : HorizonAnswers(Nested[n + 1], created, h)
    BY <1>2, HorizonAnswersDeepen, LevelsGrow
  <2> QED
    BY <2>1
<1> HIDE DEF S
<1>3. MaxDepth \in S
  BY <1>1, <1>2, LevelInduction
<1> QED
  BY <1>3 DEF S, AllPredicates

LEMMA ResolvedIs ==
  ASSUME NEW created
  PROVE  \E h : /\ \A p : Resolved(p, created) = h[p]
                /\ \A x \in AllPredicates : h[x] = HorizonStep(x, h, created)
<1> DEFINE h == CHOOSE h : HorizonAnswers(AllPredicates, created, h)
<1>1. HorizonAnswers(AllPredicates, created, h)
  BY HorizonAnswersExist
<1>2. \A p : Resolved(p, created) = h[p]
  BY DEF Resolved, HorizonAnswers, HorizonStep
<1> HIDE DEF h
<1>3. \A x \in AllPredicates : h[x] = HorizonStep(x, h, created)
  BY <1>1 DEF HorizonAnswers
<1> QED
  BY <1>2, <1>3

\* The same of RelativeUnder.
ParityStep(x, h) ==
  {i \in {0, 1} : \/ x.kind = "rel_before" /\ i = 0
                  \/ x.kind = "not" /\ 1 - i \in h[x.p]
                  \/ x.kind \in {"and", "or"} /\ i \in h[x.p] \cup h[x.q]}

Parities(S, h) == h = [x \in S |-> ParityStep(x, h)]

LEMMA ParityStepBelow ==
  ASSUME NEW S, NEW x \in Deeper(S), NEW f, NEW g, \A y \in S : f[y] = g[y]
  PROVE  ParityStep(x, f) = ParityStep(x, g)
<1>1. CASE x.kind \notin {"not", "and", "or"}
  BY <1>1 DEF ParityStep
<1>2. CASE x.kind = "not" /\ x.p \in S
  BY <1>2 DEF ParityStep
<1>3. CASE x.kind = "and" /\ x.p \in S /\ x.q \in S
  BY <1>3 DEF ParityStep
<1>4. CASE x.kind = "or" /\ x.p \in S /\ x.q \in S
  BY <1>4 DEF ParityStep
<1> QED
  BY <1>1, <1>2, <1>3, <1>4, Kinds

LEMMA ParitiesDeepen ==
  ASSUME NEW S, S \subseteq Deeper(S), NEW f, Parities(S, f)
  PROVE  \E g : Parities(Deeper(S), g)
<1> DEFINE T == Deeper(S)
           g == [x \in T |-> ParityStep(x, f)]
<1>1. S \subseteq T /\ \A x \in T : x \in Deeper(S)
  OBVIOUS
<1> HIDE DEF T
<1>2. \A x \in S : g[x] = f[x]
  BY <1>1 DEF Parities
<1>3. \A x \in T : g[x] = ParityStep(x, f)
  OBVIOUS
<1>4. g = [x \in T |-> g[x]]
  OBVIOUS
<1> HIDE DEF g
<1>5. \A x \in T : g[x] = ParityStep(x, g)
  BY <1>1, <1>2, <1>3, ParityStepBelow
<1>6. Parities(T, g)
  BY <1>4, <1>5 DEF Parities
<1> QED
  BY <1>6 DEF T

LEMMA ParitiesExist ==
  \E h : Parities(AllPredicates, h)
<1> DEFINE S == {n \in 0..MaxDepth : \E h : Parities(Nested[n], h)}
<1>1. 0 \in S
  <2>1. \E h : Parities({}, h)
    BY DEF Parities
  <2> QED
    BY <2>1, ParitiesDeepen, LevelsGrow
<1>2. ASSUME NEW n \in 0..(MaxDepth - 1), n \in S PROVE n + 1 \in S
  <2>1. \E h : Parities(Nested[n + 1], h)
    BY <1>2, ParitiesDeepen, LevelsGrow
  <2> QED
    BY <2>1
<1> HIDE DEF S
<1>3. MaxDepth \in S
  BY <1>1, <1>2, LevelInduction
<1> QED
  BY <1>3 DEF S, AllPredicates

LEMMA RelativeUnderIs ==
  \E h : /\ \A p : RelativeUnder(p) = h[p]
         /\ \A x \in AllPredicates : h[x] = ParityStep(x, h)
<1> DEFINE h == CHOOSE h : Parities(AllPredicates, h)
<1>1. Parities(AllPredicates, h)
  BY ParitiesExist
<1>2. \A p : RelativeUnder(p) = h[p]
  BY DEF RelativeUnder, Parities, ParityStep
<1> HIDE DEF h
<1>3. \A x \in AllPredicates : h[x] = ParityStep(x, h)
  BY <1>1 DEF Parities
<1> QED
  BY <1>2, <1>3

LEMMA LevelsWithin == \A n \in 0..MaxDepth : Nested[n] \subseteq AllPredicates
<1> DEFINE S == {n \in 0..MaxDepth : Nested[MaxDepth - n] \subseteq AllPredicates}
<1>1. 0 \in S
  BY DEF AllPredicates
<1>2. ASSUME NEW n \in Nat, n \in S \/ n > MaxDepth PROVE n + 1 \in S \/ n + 1 > MaxDepth
  <2> SUFFICES ASSUME n + 1 <= MaxDepth PROVE n + 1 \in S
    OBVIOUS
  <2>1. Nested[MaxDepth - n] \subseteq AllPredicates
    BY <1>2
  <2> DEFINE m == MaxDepth - (n + 1)
  <2>2. m \in 0..(MaxDepth - 1) /\ m + 1 = MaxDepth - n
    OBVIOUS
  <2> HIDE DEF m
  <2>3. Nested[m] \subseteq AllPredicates
    BY <2>1, <2>2, NestedGrows
  <2> QED
    BY <2>3 DEF m
<1> HIDE DEF S
<1> DEFINE T == {n \in Nat : n \in S \/ n > MaxDepth}
<1>3. 0 \in T /\ \A n \in Nat : n \in T => n + 1 \in T
  BY <1>1, <1>2
<1> HIDE DEF T
<1>4. Nat \subseteq T
  BY <1>3, NatSetInduction
<1> SUFFICES ASSUME NEW n \in 0..MaxDepth PROVE Nested[n] \subseteq AllPredicates
  OBVIOUS
<1>5. MaxDepth - n \in T
  BY <1>4
<1>6. MaxDepth - n \in S
  BY <1>5 DEF T
<1>7. MaxDepth - (MaxDepth - n) = n
  OBVIOUS
<1> QED
  BY <1>6, <1>7 DEF S

\* The parts of a predicate are predicates.
LEMMA PartsArePredicates == AllPredicates \subseteq Deeper(AllPredicates)
<1>1. MaxDepth - 1 \in 0..(MaxDepth - 1) /\ MaxDepth - 1 \in 0..MaxDepth /\ (MaxDepth - 1) + 1 = MaxDepth
  OBVIOUS
<1>2. AllPredicates = Deeper(Nested[MaxDepth - 1])
  BY <1>1, LevelsGrow DEF AllPredicates
<1> QED
  BY <1>1, <1>2, LevelsWithin, DeeperGrows

\* A set that holds each predicate whose parts it holds, holds all.
LEMMA PredicateInduction ==
  ASSUME NEW G, AllPredicates \cap Deeper(G) \subseteq G
  PROVE  AllPredicates \subseteq G
<1> DEFINE S == {n \in 0..MaxDepth : Nested[n] \subseteq G}
<1>1. ASSUME NEW n \in 0..MaxDepth, NEW T, Nested[n] = Deeper(T), T \subseteq G PROVE n \in S
  <2>1. Nested[n] \subseteq Deeper(G) /\ Nested[n] \subseteq AllPredicates
    BY <1>1, DeeperGrows, LevelsWithin
  <2> QED
    BY <2>1
<1>2. 0 \in S
  BY <1>1, LevelsGrow
<1>3. ASSUME NEW n \in 0..(MaxDepth - 1), n \in S PROVE n + 1 \in S
  <2>1. Nested[n] \subseteq G /\ n + 1 \in 0..MaxDepth /\ Nested[n + 1] = Deeper(Nested[n])
    BY <1>3, LevelsGrow
  <2> HIDE DEF S
  <2> QED
    BY <1>1, <2>1
<1> HIDE DEF S
<1>4. MaxDepth \in S
  BY <1>2, <1>3, LevelInduction
<1> QED
  BY <1>4 DEF S, AllPredicates

-------------------------------------------------------------------------------
(***************************************************************************)
(* The page's verdict against the ledger's.                                *)
(***************************************************************************)

\* Horizon's answer is a predicate.
LEMMA ResolvedIsPredicate ==
  ASSUME NEW created \in Nat, NEW p \in AllPredicates
  PROVE  Resolved(p, created) \in AllPredicates
<1>1. PICK r : /\ \A x : Resolved(x, created) = r[x]
               /\ \A x \in AllPredicates : r[x] = HorizonStep(x, r, created)
  BY ResolvedIs
<1> DEFINE Keeps(L) == \A x \in L : r[x] \in L
           S == {n \in 0..MaxDepth : Keeps(Nested[n])}
<1>2. ASSUME NEW L, L \subseteq AllPredicates, NEW K, K \subseteq L, L = Deeper(K), Keeps(K) PROVE Keeps(L)
  <2> SUFFICES ASSUME NEW x \in L PROVE r[x] \in L
    OBVIOUS
  <2>1. r[x] = HorizonStep(x, r, created)
    BY <1>1, <1>2
  <2>2. CASE x.kind \notin {"rel_before", "not", "and", "or"}
    BY <2>1, <2>2 DEF HorizonStep
  <2>3. CASE x.kind = "rel_before" /\ x.t \in Nat
    <3>1. r[x] = AbsBefore(created + x.t)
      BY <2>1, <2>3 DEF HorizonStep
    <3> QED
      BY <1>2, <2>3, <3>1 DEF AbsBefore, Deeper, Unnested
  <2>4. CASE x.kind = "not" /\ x.p \in K
    <3>1. r[x] = Negated(r[x.p]) /\ r[x.p] \in K
      BY <1>2, <2>1, <2>4 DEF HorizonStep
    <3> QED
      BY <1>2, <3>1 DEF Negated, Deeper
  <2>5. CASE x.kind = "and" /\ x.p \in K /\ x.q \in K
    <3>1. r[x] = Both(r[x.p], r[x.q]) /\ r[x.p] \in K /\ r[x.q] \in K
      BY <1>2, <2>1, <2>5 DEF HorizonStep
    <3> QED
      BY <1>2, <3>1 DEF Both, Deeper
  <2>6. CASE x.kind = "or" /\ x.p \in K /\ x.q \in K
    <3>1. r[x] = Either(r[x.p], r[x.q]) /\ r[x.p] \in K /\ r[x.q] \in K
      BY <1>2, <2>1, <2>6 DEF HorizonStep
    <3> QED
      BY <1>2, <3>1 DEF Either, Deeper
  <2> QED
    BY <1>2, <2>2, <2>3, <2>4, <2>5, <2>6, Kinds
<1>3. Keeps({})
  OBVIOUS
<1> HIDE DEF Keeps
<1>4. 0 \in S
  BY <1>2, <1>3, LevelsGrow, LevelsWithin
<1>5. ASSUME NEW n \in 0..(MaxDepth - 1), n \in S PROVE n + 1 \in S
  <2>1. /\ n + 1 \in 0..MaxDepth /\ Keeps(Nested[n]) /\ Nested[n] \subseteq Nested[n + 1]
        /\ Nested[n + 1] = Deeper(Nested[n]) /\ Nested[n + 1] \subseteq AllPredicates
    BY <1>5, LevelsGrow, LevelsWithin, NestedGrows
  <2> QED
    BY <1>2, <2>1
<1> HIDE DEF S
<1>6. MaxDepth \in S
  BY <1>4, <1>5, LevelInduction
<1> QED
  BY <1>1, <1>6 DEF S, Keeps, AllPredicates

\* Where Horizon resolves the relative bounds, page and ledger agree.
LEMMA PageAgrees ==
  ASSUME NEW created \in Nat, NEW t \in Nat, NEW p \in AllPredicates
  PROVE  PredicateHolds(Resolved(p, created), t) <=> Satisfied(p, created, t)
<1>1. PICK r : /\ \A x : Resolved(x, created) = r[x]
               /\ \A x \in AllPredicates : r[x] = HorizonStep(x, r, created)
  BY ResolvedIs
<1>2. PICK page : /\ \A x : PredicateHolds(x, t) = page[x]
                  /\ \A x \in AllPredicates : page[x] = PageStep(x, page, t)
  BY PredicateHoldsIs
<1>3. PICK holds : /\ \A x : Satisfied(x, created, t) = holds[x]
                   /\ \A x \in AllPredicates : holds[x] = LedgerStep(x, holds, created, t)
  BY SatisfiedIs
<1>4. \A x \in AllPredicates : r[x] \in AllPredicates
  BY <1>1, ResolvedIsPredicate
<1> DEFINE G == {x \in AllPredicates : page[r[x]] <=> holds[x]}
<1>5. ASSUME NEW x \in AllPredicates, x \in Deeper(G) PROVE page[r[x]] <=> holds[x]
  <2>1. /\ r[x] = HorizonStep(x, r, created) /\ page[r[x]] = PageStep(r[x], page, t)
        /\ holds[x] = LedgerStep(x, holds, created, t)
    BY <1>1, <1>2, <1>3, <1>4
  <2>2. CASE x.kind \in {"unconditional", "abs_before"}
    <3>1. r[x] = x
      BY <2>1, <2>2 DEF HorizonStep
    <3> QED
      BY <2>1, <2>2, <3>1 DEF PageStep, LedgerStep
  <2>3. CASE x.kind = "rel_before"
    <3>1. r[x] = AbsBefore(created + x.t)
      BY <2>1, <2>3 DEF HorizonStep
    <3>2. r[x].kind = "abs_before" /\ r[x].t = created + x.t
      BY <3>1 DEF AbsBefore
    <3> QED
      BY <2>1, <2>3, <3>2 DEF PageStep, LedgerStep
  <2>4. CASE x.kind = "not" /\ x.p \in G
    <3>1. r[x] = Negated(r[x.p])
      BY <2>1, <2>4 DEF HorizonStep
    <3>2. r[x].kind = "not" /\ r[x].p = r[x.p]
      BY <3>1 DEF Negated
    <3> QED
      BY <2>1, <2>4, <3>2 DEF PageStep, LedgerStep
  <2>5. CASE x.kind = "and" /\ x.p \in G /\ x.q \in G
    <3>1. r[x] = Both(r[x.p], r[x.q])
      BY <2>1, <2>5 DEF HorizonStep
    <3>2. r[x].kind = "and" /\ r[x].p = r[x.p] /\ r[x].q = r[x.q]
      BY <3>1 DEF Both
    <3> QED
      BY <2>1, <2>5, <3>2 DEF PageStep, LedgerStep
  <2>6. CASE x.kind = "or" /\ x.p \in G /\ x.q \in G
    <3>1. r[x] = Either(r[x.p], r[x.q])
      BY <2>1, <2>6 DEF HorizonStep
    <3>2. r[x].kind = "or" /\ r[x].p = r[x.p] /\ r[x].q = r[x.q]
      BY <3>1 DEF Either
    <3> QED
      BY <2>1, <2>6, <3>2 DEF PageStep, LedgerStep
  <2> HIDE DEF G
  <2> QED
    BY <1>5, <2>2, <2>3, <2>4, <2>5, <2>6, Kinds
<1>6. AllPredicates \cap Deeper(G) \subseteq G
  BY <1>5
<1> HIDE DEF G
<1>7. p \in G
  BY <1>6, PredicateInduction
<1> QED
  BY <1>1, <1>2, <1>3, <1>7 DEF G

\* Where it does not, the page errs on the side of the bound's parity.
LEMMA PageErrsByParity ==
  ASSUME NEW created \in Nat, NEW t \in Nat, NEW p \in AllPredicates
  PROVE  Satisfied(p, created, t) /\ ~NegatesRelative(p) => PredicateHolds(p, t)
<1>1. PICK par : /\ \A x : RelativeUnder(x) = par[x]
                 /\ \A x \in AllPredicates : par[x] = ParityStep(x, par)
  BY RelativeUnderIs
<1>2. PICK page : /\ \A x : PredicateHolds(x, t) = page[x]
                  /\ \A x \in AllPredicates : page[x] = PageStep(x, page, t)
  BY PredicateHoldsIs
<1>3. PICK holds : /\ \A x : Satisfied(x, created, t) = holds[x]
                   /\ \A x \in AllPredicates : holds[x] = LedgerStep(x, holds, created, t)
  BY SatisfiedIs
<1> DEFINE G == {x \in AllPredicates : /\ 1 \notin par[x] /\ holds[x] => page[x]
                                       /\ 0 \notin par[x] /\ page[x] => holds[x]}
<1>4. ASSUME NEW x \in AllPredicates, x \in Deeper(G)
      PROVE  /\ 1 \notin par[x] /\ holds[x] => page[x]
             /\ 0 \notin par[x] /\ page[x] => holds[x]
  <2>1. /\ par[x] = ParityStep(x, par) /\ page[x] = PageStep(x, page, t)
        /\ holds[x] = LedgerStep(x, holds, created, t)
    BY <1>1, <1>2, <1>3
  <2>2. CASE x.kind \in {"unconditional", "abs_before"}
    BY <2>1, <2>2 DEF PageStep, LedgerStep
  <2>3. CASE x.kind = "rel_before"
    BY <2>1, <2>3 DEF PageStep, LedgerStep, ParityStep
  <2>4. CASE x.kind = "not" /\ x.p \in G
    <3>1. (1 \in par[x] <=> 0 \in par[x.p]) /\ (0 \in par[x] <=> 1 \in par[x.p])
      BY <2>1, <2>4 DEF ParityStep
    <3> QED
      BY <2>1, <2>4, <3>1 DEF PageStep, LedgerStep
  <2>5. CASE x.kind = "and" /\ x.p \in G /\ x.q \in G
    <3>1. \A i \in {0, 1} : i \in par[x] <=> i \in par[x.p] \cup par[x.q]
      BY <2>1, <2>5 DEF ParityStep
    <3> QED
      BY <2>1, <2>5, <3>1 DEF PageStep, LedgerStep
  <2>6. CASE x.kind = "or" /\ x.p \in G /\ x.q \in G
    <3>1. \A i \in {0, 1} : i \in par[x] <=> i \in par[x.p] \cup par[x.q]
      BY <2>1, <2>6 DEF ParityStep
    <3> QED
      BY <2>1, <2>6, <3>1 DEF PageStep, LedgerStep
  <2> HIDE DEF G
  <2> QED
    BY <1>4, <2>2, <2>3, <2>4, <2>5, <2>6, Kinds
<1>5. AllPredicates \cap Deeper(G) \subseteq G
  BY <1>4
<1> HIDE DEF G
<1>6. p \in G
  BY <1>5, PredicateInduction
<1> QED
  BY <1>1, <1>2, <1>3, <1>6 DEF G, NegatesRelative

\* A lock that is announced opens when it says.
LEMMA LocksOpen ==
  ASSUME NEW created \in Nat, NEW t \in Nat, NEW p \in AllPredicates,
         UnlockTime(Resolved(p, created)) # Never
  PROVE  Satisfied(p, created, t) <=> t >= UnlockTime(Resolved(p, created))
<1>1. PICK page : /\ \A x : PredicateHolds(x, t) = page[x]
                  /\ \A x \in AllPredicates : page[x] = PageStep(x, page, t)
  BY PredicateHoldsIs
<1> DEFINE q == Resolved(p, created)
<1>2. q \in AllPredicates /\ (page[q] <=> Satisfied(p, created, t))
  BY <1>1, ResolvedIsPredicate, PageAgrees
<1>3. q.kind = "not" /\ q.p.kind = "abs_before" /\ UnlockTime(q) = q.p.t
  BY DEF UnlockTime
<1> HIDE DEF q
<1>4. q.p \in AllPredicates
  BY <1>2, <1>3, Kinds, PartsArePredicates
<1>5. q.p.t \in Nat
  BY <1>3, <1>4, Kinds, PartsArePredicates
<1>6. page[q] <=> ~(t < q.p.t)
  <2>1. page[q] = PageStep(q, page, t) /\ page[q.p] = PageStep(q.p, page, t)
    BY <1>1, <1>2, <1>4
  <2>2. page[q.p] <=> t < q.p.t
    BY <1>3, <2>1 DEF PageStep
  <2> QED
    BY <1>3, <2>1, <2>2 DEF PageStep
<1> QED
  BY <1>2, <1>3, <1>5, <1>6 DEF q

HIDE DepthIsNat

-------------------------------------------------------------------------------
(***************************************************************************)
(* Theorems.                                                                *)
(***************************************************************************)

\* The invariant holds in every state: one lemma above for each action.
THEOREM HandoffInvariant == Spec => []HandoffInv
<1>1. Init => HandoffInv
  BY HandoffInitially
<1>2. HandoffInv /\ [Next]_vars => HandoffInv'
  <2> SUFFICES ASSUME HandoffInv, [Next]_vars PROVE HandoffInv'
    OBVIOUS
  <2>1. ASSUME NEW w \in Holders, NEW a \in Pinned, Onboard(w, a) PROVE HandoffInv'
    BY <2>1, OnboardKeeps
  <2>2. ASSUME NEW w \in Holders, NEW a \in Pinned, Revoke(w, a) PROVE HandoffInv'
    BY <2>2, RevokeKeeps
  <2>3. ASSUME NEW w \in Holders \cap Accounts, NEW a \in Pinned, Deliver(w, a) PROVE HandoffInv'
    BY <2>3, DeliverKeeps
  <2>4. ASSUME NEW w \in Holders \cap Accounts, Plan(w) PROVE HandoffInv'
    BY <2>4, PlanKeeps
  <2>5. ASSUME NEW kind \in {"create-trustline", "claim", "claim-with-trustline"}, TakeStep(kind) PROVE HandoffInv'
    BY <2>5, TakeStepKeeps
  <2>6. CASE TakeAuthorize
    BY <2>6, TakeAuthorizeKeeps
  <2>7. CASE WalletSigns
    BY <2>7, WalletSignsKeeps
  <2>8. CASE Concluded
    BY <2>8, ConcludedKeeps
  <2>9. CASE Post
    BY <2>9, PostKeeps
  <2>10. CASE Sweep
    BY <2>10, SweepKeeps
  <2>11. CASE Passes
    BY <2>11, PassesKeeps
  <2>12. CASE UNCHANGED vars
    BY <2>12, StutterKeeps
  <2> QED
    BY <2>1, <2>2, <2>3, <2>4, <2>5, <2>6, <2>7, <2>8, <2>9, <2>10, <2>11, <2>12 DEF Next
<1> QED
  BY <1>1, <1>2, PTL DEF Spec

\* The integrator hands out "a signature request that cannot succeed" only where
\* it signed before a smart account did: else, once the wallet and the callback
\* have signed (sep7Signer, coSigners, onboardingRequest), nobody's signature is
\* missing or void.
THEOREM RequestsAreComplete == Spec => []RequestsComplete
<1>1. HandoffInv => RequestsComplete
  BY DEF HandoffInv, Answers
<1> QED
  BY <1>1, HandoffInvariant, PTL

\* What buildSponsoredOnboardTx, buildOnboardTx and buildClaimTx make and a holder
\* signs passes assertSafeToSponsor and validateSep7Callback.
THEOREM WhatIsBuiltIsAccepted == Spec => []BuiltIsAccepted
<1>1. HandoffInv => BuiltIsAccepted
  BY DEF HandoffInv, Answers
<1> QED
  BY <1>1, HandoffInvariant, PTL

\* Whatever envelope is posted to the open callback, the relayer pays for accounts
\* and pinned lines of holders and for nothing else: validateSep7Callback and
\* assertSafeToSponsor, for every envelope of the ledger's operations.
THEOREM RelayerPaysForTheOfferOnly == Spec => []OnlyTheOfferIsPaid
<1>1. HandoffInv => OnlyTheOfferIsPaid
  BY DEF HandoffInv, LedgerStateInv, LedgerInv, OnlyOffered, IsOffered, OnlyTheOfferIsPaid
<1> QED
  BY <1>1, HandoffInvariant, PTL

\* The steps of planClaim succeed one after the other unless the issuer or the
\* sender comes between.
THEOREM PlansSucceed == Spec => []PlanSucceeds
<1>1. HandoffInv => PlanSucceeds
  BY DEF HandoffInv, Answers
<1> QED
  BY <1>1, HandoffInvariant, PTL
-------------------------------------------------------------------------------
(***************************************************************************)
(* What the page offers.                                                   *)
(***************************************************************************)

\* A balance on the ledger: its claimants differ, their predicates nest.
BalanceTyped(b) ==
  /\ b.created \in Nat
  /\ \A c \in b.claimants : c.predicate \in AllPredicates
  /\ \A c, d \in b.claimants : c.who = d.who => c = d

LEMMA DeliveredIsPredicate == Unnested \subseteq AllPredicates /\ Deeper(Unnested) \subseteq AllPredicates
<1>1. 0 \in 0..MaxDepth /\ 0 \in 0..(MaxDepth - 1) /\ 0 + 1 \in 0..MaxDepth
  BY DepthIsNat
<1>2. Nested[0] = Unnested /\ Nested[0 + 1] = Deeper(Nested[0])
  BY <1>1, NestedSteps
<1> QED
  BY <1>1, <1>2, LevelsWithin

BalanceInv == BalanceTyped(balance)

LEMMA BalanceStep == HandoffInv /\ BalanceInv /\ [Next]_vars => BalanceInv'
<1> SUFFICES ASSUME HandoffInv, BalanceInv, [Next]_vars PROVE BalanceTyped(balance')
  BY DEF BalanceInv
<1>0. BalanceTyped(balance)
  BY DEF BalanceInv
<1>1. BalanceTyped(NoBalance)
  BY DEF BalanceTyped, NoBalance, Balance
<1>2. ASSUME NEW w \in Holders \cap Accounts, NEW a \in Pinned, Deliver(w, a)
      PROVE  BalanceTyped(balance')
  <2>1. now \in Nat
    BY DEF HandoffInv, SceneInv
  <2>2. ASSUME NEW after \in ReclaimAfter, balance' = Balance(a, DeliveredTo(Relayer, w, after), now)
        PROVE  BalanceTyped(balance')
    <3>1. Unconditional \in AllPredicates /\ Negated(RelBefore(after)) \in AllPredicates
      <4>1. Unconditional \in Unnested
        BY DEF Unconditional, Unnested
      <4>2. RelBefore(after) \in Unnested
        BY DEF RelBefore, Unnested
      <4> QED
        BY <4>1, <4>2, DeliveredIsPredicate DEF Deeper, Negated
    <3>2. \A c \in balance'.claimants :
             \/ c = Claimant(w, Unconditional)
             \/ c = Claimant(Relayer, Negated(RelBefore(after))) /\ Relayer # w
      BY <2>2 DEF Balance, DeliveredTo
    <3>3. balance'.created = now
      BY <2>2 DEF Balance
    <3> QED
      BY <2>1, <3>1, <3>2, <3>3 DEF BalanceTyped, Claimant
  <2>3. ASSUME NEW p \in Predicates, balance' = Balance(a, {Claimant(w, p)}, now)
        PROVE  BalanceTyped(balance')
    BY <2>1, <2>3, PredicatesNest DEF BalanceTyped, Balance, Claimant
  <2> QED
    BY <1>2, <2>2, <2>3 DEF Deliver
<1>3. CASE balance' \in {balance, NoBalance}
  BY <1>0, <1>1, <1>3
<1>4. ASSUME NEW env, Submit(env) PROVE balance' \in {balance, NoBalance}
  BY <1>4 DEF Submit
<1>5. ASSUME NEW env, CalledBack(env) PROVE balance' \in {balance, NoBalance}
  BY <1>4, <1>5 DEF CalledBack
<1>6. ASSUME NEW env, Countersigned(env) PROVE balance' \in {balance, NoBalance}
  BY <1>4, <1>6 DEF Countersigned
<1>7. CASE WalletSigns
  <2>1. request.callback \in {"none", "relayer", "own"}
    BY <1>7 DEF WalletSigns, HandoffInv, RequestInv, RequestOK
  <2>2. \E env : Submit(env) \/ CalledBack(env) \/ Countersigned(env)
    BY <1>7, <2>1 DEF WalletSigns
  <2> QED
    BY <1>3, <1>4, <1>5, <1>6, <2>2
<1>8. CASE Post
  BY <1>3, <1>5, <1>8 DEF Post
<1>9. CASE \/ \E w \in Holders, a \in Pinned : Onboard(w, a) \/ Revoke(w, a)
           \/ \E w \in Holders \cap Accounts : Plan(w)
           \/ \E kind \in {"create-trustline", "claim", "claim-with-trustline"} : TakeStep(kind)
           \/ TakeAuthorize \/ Concluded \/ Sweep \/ Passes \/ UNCHANGED vars
  BY <1>3, <1>9 DEF Onboard, Revoke, Plan, TakeStep, TakeAuthorize, Concluded, Sweep, Passes, vars
<1> QED
  BY <1>2, <1>7, <1>8, <1>9 DEF Next

\* findClaimableBalances, with Horizon: the page offers exactly what may be
\* claimed, no fewer where a bound comes unresolved and stands under no negation,
\* and a lock it announces opens when it says.  For predicates of any shape, by
\* induction over their nesting.
THEOREM OffersAreRight == Spec => []OffersAreClaimable
<1>1. BalanceInv /\ HandoffInv => OffersAreClaimable
  <2> SUFFICES ASSUME BalanceInv, HandoffInv, NEW c \in balance.claimants
      PROVE  /\ Offered(balance, c.who, now, TRUE) <=> MayClaim(balance, c.who, now)
             /\ MayClaim(balance, c.who, now) /\ ~NegatesRelative(c.predicate)
                  => Offered(balance, c.who, now, FALSE)
             /\ ClaimableAfter(balance, c.who) # Never
                  => (MayClaim(balance, c.who, now) <=> now >= ClaimableAfter(balance, c.who))
    BY DEF OffersAreClaimable
  <2> DEFINE p == c.predicate
             made == balance.created
  <2>1. p \in AllPredicates /\ made \in Nat /\ now \in Nat
    BY DEF BalanceInv, BalanceTyped, HandoffInv, SceneInv
  <2>2. \A d \in balance.claimants : d.who = c.who <=> d = c
    BY DEF BalanceInv, BalanceTyped
  <2>3. MayClaim(balance, c.who, now) <=> Satisfied(p, made, now)
    BY <2>2 DEF MayClaim
  <2>4. Offered(balance, c.who, now, TRUE) <=> PredicateHolds(Resolved(p, made), now)
    BY <2>2 DEF Offered
  <2>5. Offered(balance, c.who, now, FALSE) <=> PredicateHolds(p, now)
    BY <2>2 DEF Offered
  <2>6. ClaimableAfter(balance, c.who) = UnlockTime(Resolved(p, made))
    BY <2>2 DEF ClaimableAfter
  <2>7. NegatesRelative(c.predicate) <=> NegatesRelative(p)
    OBVIOUS
  <2> HIDE DEF p, made
  <2>8. PredicateHolds(Resolved(p, made), now) <=> Satisfied(p, made, now)
    BY <2>1, PageAgrees
  <2>9. Satisfied(p, made, now) /\ ~NegatesRelative(p) => PredicateHolds(p, now)
    BY <2>1, PageErrsByParity
  <2>10. UnlockTime(Resolved(p, made)) # Never
           => (Satisfied(p, made, now) <=> now >= UnlockTime(Resolved(p, made)))
    BY <2>1, LocksOpen
  <2> QED
    BY <2>3, <2>4, <2>5, <2>6, <2>7, <2>8, <2>9, <2>10
<1>2. Init => BalanceInv
  BY DEF Init, BalanceInv, BalanceTyped, NoBalance, Balance
<1> QED
  BY <1>1, <1>2, BalanceStep, HandoffInvariant, PTL DEF Spec
===============================================================================
