----------------------------- MODULE Limits_proofs ----------------------------
(***************************************************************************)
(* Proofs about Limits: the gate counts the open responses for any number  *)
(* of sockets, and pruning changes no client's budget, whatever the rate,  *)
(* the length of a minute and the number of clients.                       *)
(***************************************************************************)
EXTENDS Limits, FiniteSetTheorems, TLAPS

-------------------------------------------------------------------------------
(***************************************************************************)
(* The gate.                                                               *)
(***************************************************************************)

ConnStates == {"closed", "receiving", "handling", "answering", "abandoned"}

\* The count is inductive as soon as connections have a state at all.
GateInv == conn \in [Slots -> ConnStates] /\ inflight \in Nat /\ GateCountsOpenResponses

LEMMA OpenIsFinite == IsFiniteSet(OpenResponses)
BY SlotsFinite, FS_Subset, OpenResponses \subseteq Slots DEF OpenResponses

\* An open response more, and one fewer.
LEMMA OneMore ==
  ASSUME GateInv, NEW c \in Slots, conn[c] = "closed",
         conn' = [conn EXCEPT ![c] = "receiving"]
  PROVE  Cardinality(OpenResponses') = Cardinality(OpenResponses) + 1
<1>1. OpenResponses' = OpenResponses \cup {c} /\ c \notin OpenResponses
  BY DEF OpenResponses, GateInv
<1> QED
  BY <1>1, OpenIsFinite, FS_AddElement

LEMMA OneFewer ==
  ASSUME GateInv, NEW c \in Slots, conn[c] \in {"receiving", "handling", "answering"},
         NEW after \in {"abandoned", "closed"}, conn' = [conn EXCEPT ![c] = after]
  PROVE  Cardinality(OpenResponses') = Cardinality(OpenResponses) - 1
<1>1. OpenResponses' = OpenResponses \ {c} /\ c \in OpenResponses
  BY DEF OpenResponses, GateInv
<1> QED
  BY <1>1, OpenIsFinite, FS_RemoveElement

LEMMA GateStep == GateInv /\ [Next]_vars => GateInv'
<1> SUFFICES ASSUME GateInv, [Next]_vars PROVE GateInv'
  OBVIOUS
<1> USE LimitsAreNat
<1>1. ASSUME NEW c \in Slots, NEW ip \in Clients, Arrive(c, ip) PROVE GateInv'
  <2>1. CASE Allows(ip) /\ Enters
    <3>1. conn' = [conn EXCEPT ![c] = "receiving"] /\ inflight' = inflight + 1 /\ conn[c] = "closed"
      BY <1>1, <2>1 DEF Arrive
    <3>2. Cardinality(OpenResponses') = Cardinality(OpenResponses) + 1
      BY <3>1, OneMore
    <3>3. MaxInflight > 0 => inflight < MaxInflight
      BY <2>1 DEF Enters
    <3>4. conn' \in [Slots -> ConnStates]
      BY <3>1 DEF GateInv, ConnStates
    <3> QED
      BY <3>1, <3>2, <3>3, <3>4 DEF GateInv, GateCountsOpenResponses
  <2>2. CASE ~(Allows(ip) /\ Enters)
    BY <1>1, <2>2 DEF Arrive, GateInv, GateCountsOpenResponses, OpenResponses
  <2> QED
    BY <2>1, <2>2
<1>2. ASSUME NEW c \in Slots, BodyEnds(c) PROVE GateInv'
  <2>1. OpenResponses' = OpenResponses
    BY <1>2 DEF BodyEnds, OpenResponses, GateInv
  <2> QED
    BY <1>2, <2>1 DEF BodyEnds, GateInv, GateCountsOpenResponses, ConnStates
<1>3. ASSUME NEW c \in Slots, HandlerEnds(c) PROVE GateInv'
  <2>1. OpenResponses' = OpenResponses
    BY <1>3 DEF HandlerEnds, OpenResponses, GateInv
  <2> QED
    BY <1>3, <2>1 DEF HandlerEnds, GateInv, GateCountsOpenResponses, ConnStates
<1>4. ASSUME NEW c \in Slots, ResponseCloses(c) PROVE GateInv'
  <2> DEFINE after == IF conn[c] = "handling" THEN "abandoned" ELSE "closed"
  <2>1. conn' = [conn EXCEPT ![c] = after] /\ conn[c] \in {"receiving", "handling", "answering"}
    BY <1>4 DEF ResponseCloses
  <2>2. Cardinality(OpenResponses') = Cardinality(OpenResponses) - 1
    BY <2>1, OneFewer
  <2>3. c \in OpenResponses /\ Cardinality(OpenResponses) \in Nat
    BY <2>1, OpenIsFinite, FS_CardinalityType DEF OpenResponses
  <2>4. inflight > 0
    BY <2>3, OpenIsFinite, FS_EmptySet DEF GateInv, GateCountsOpenResponses
  <2>5. inflight' = inflight - 1
    BY <1>4, <2>4 DEF ResponseCloses, Left
  <2>6. conn' \in [Slots -> ConnStates]
    BY <2>1 DEF GateInv, ConnStates
  <2> QED
    BY <2>2, <2>4, <2>5, <2>6 DEF GateInv, GateCountsOpenResponses
<1>5. CASE Tick \/ UNCHANGED vars
  BY <1>5 DEF Tick, vars, GateInv, GateCountsOpenResponses, OpenResponses
<1> QED
  BY <1>1, <1>2, <1>3, <1>4, <1>5 DEF Next

LEMMA InitGate == Init => GateInv
<1> SUFFICES ASSUME Init PROVE GateInv
  OBVIOUS
<1>1. OpenResponses = {}
  BY DEF Init, OpenResponses
<1> QED
  BY <1>1, FS_EmptySet, LimitsAreNat DEF Init, GateInv, GateCountsOpenResponses, ConnStates

\* The gate's count is the number of open responses, never above its maximum
\* (createGate and the "close" handler of startServer).
THEOREM GateIsExact == Spec => []GateCountsOpenResponses
<1>1. GateInv => GateCountsOpenResponses
  BY DEF GateInv
<1> QED
  BY <1>1, InitGate, GateStep, PTL DEF Spec

-------------------------------------------------------------------------------
(***************************************************************************)
(* The buckets.                                                            *)
(***************************************************************************)

\* A bucket at time t.
Bucket(t) == [tokens : 0..Full, last : 0..t]

BucketInv ==
  /\ now \in Nat
  /\ DOMAIN buckets \subseteq Clients
  /\ buckets \in [DOMAIN buckets -> Bucket(now)]
  /\ ideal \in [Clients -> Bucket(now)]
  /\ PruningIsInvisible

LEMMA FullIsNat == Full \in Nat
BY LimitsAreNat, MinuteLasts DEF Full

\* What a bucket has refilled since it was touched.
LEMMA RefillIsNat ==
  ASSUME NEW t \in Nat, NEW b \in Bucket(t)
  PROVE  /\ b.tokens \in 0..Full /\ b.last \in 0..t
         /\ t - b.last \in Nat /\ (t - b.last) * Rpm \in Nat
<1>1. b.tokens \in 0..Full /\ b.last \in 0..t /\ t - b.last \in Nat
  BY FullIsNat DEF Bucket
<1>2. \A n \in Nat : n * Rpm \in Nat
  BY LimitsAreNat
<1> QED
  BY <1>1, <1>2

LEMMA LevelInRange ==
  ASSUME now \in Nat, NEW b \in Bucket(now)
  PROVE  Level(b) \in 0..Full
BY RefillIsNat, FullIsNat DEF Level

\* A tick refills Rpm, up to the capacity.
LEMMA LevelTicks ==
  ASSUME now \in Nat, now' = now + 1, NEW b \in Bucket(now)
  PROVE  Level(b)' = IF Level(b) + Rpm > Full THEN Full ELSE Level(b) + Rpm
<1>1. (now + 1 - b.last) * Rpm = (now - b.last) * Rpm + Rpm
  <2>1. \A n \in Nat : (n + 1) * Rpm = n * Rpm + Rpm
    BY LimitsAreNat
  <2>2. now + 1 - b.last = (now - b.last) + 1
    BY RefillIsNat
  <2> QED
    BY <2>1, <2>2, RefillIsNat
<1> DEFINE refill == (now - b.last) * Rpm
<1>2. Level(b)' = IF b.tokens + (refill + Rpm) > Full THEN Full ELSE b.tokens + (refill + Rpm)
  <2>1. now' - b.last = now + 1 - b.last /\ now + 1 - b.last \in Nat
    BY RefillIsNat
  <2>2. (now' - b.last) * Rpm = refill + Rpm
    BY <1>1, <2>1
  <2>3. Full' = Full
    BY DEF Full
  <2>4. Level(b)' = IF b.tokens + (now' - b.last) * Rpm > Full THEN Full
                    ELSE b.tokens + (now' - b.last) * Rpm
    BY <2>3 DEF Level
  <2> HIDE DEF refill
  <2> QED
    BY <2>2, <2>4
<1>3. Level(b) = IF b.tokens + refill > Full THEN Full ELSE b.tokens + refill
  BY DEF Level
<1>4. refill \in Nat /\ b.tokens \in Nat /\ Rpm \in Nat /\ Full \in Nat
  BY RefillIsNat, FullIsNat, LimitsAreNat
<1> HIDE DEF refill
<1> QED
  BY <1>2, <1>3, <1>4

\* "Anything untouched for two [minutes] is indistinguishable from absent".
LEMMA StaleIsFull ==
  ASSUME now \in Nat, NEW b \in Bucket(now), Stale(b)
  PROVE  Level(b) = Full
<1>1. now - b.last >= Minute
  BY RefillIsNat, MinuteLasts DEF Stale
<1>2. \A n \in Nat : n >= Minute => n * Rpm >= Rpm * Minute
  BY LimitsAreNat, MinuteLasts
<1>3. (now - b.last) * Rpm >= Full
  BY <1>1, <1>2, RefillIsNat DEF Full
<1> QED
  BY <1>3, RefillIsNat, FullIsNat DEF Level

LEMMA FreshIsFull ==
  ASSUME now \in Nat
  PROVE  Fresh \in Bucket(now) /\ Level(Fresh) = Full
BY FullIsNat, LimitsAreNat DEF Fresh, Bucket, Level

\* The level of a bucket just charged is what is left in it.
LEMMA ChargedLevel ==
  ASSUME now \in Nat, NEW b \in Bucket(now)
  PROVE  /\ Charged(b) \in Bucket(now)
         /\ Level(Charged(b)) = IF Level(b) >= Minute THEN Level(b) - Minute ELSE Level(b)
BY LevelInRange, FullIsNat, LimitsAreNat, MinuteLasts DEF Charged, Grants, Bucket, Level

\* A call of allow finds every client's bucket at the level it would have had.
LEMMA PrunedLevels ==
  ASSUME BucketInv, NEW ip \in Clients
  PROVE  /\ DOMAIN Pruned \subseteq DOMAIN buckets
         /\ BucketOf(ip) \in Bucket(now)
         /\ Level(BucketOf(ip)) = Level(ideal[ip])
         /\ ip \in DOMAIN Pruned => Pruned[ip] = buckets[ip]
<1>1. /\ DOMAIN Pruned \subseteq DOMAIN buckets
      /\ \A i \in DOMAIN Pruned : Pruned[i] = buckets[i]
      /\ \A i \in DOMAIN buckets : i \notin DOMAIN Pruned => Stale(buckets[i])
  BY DEF Pruned
<1>2. CASE ip \in DOMAIN Pruned
  BY <1>1, <1>2 DEF BucketOf, BucketInv, PruningIsInvisible
<1>3. CASE ip \notin DOMAIN buckets
  BY <1>1, <1>3, FreshIsFull DEF BucketOf, BucketInv, PruningIsInvisible
<1>4. CASE ip \in DOMAIN buckets /\ ip \notin DOMAIN Pruned
  <2>1. Level(buckets[ip]) = Full
    BY <1>1, <1>4, StaleIsFull DEF BucketInv
  <2> QED
    BY <1>1, <1>4, <2>1, FreshIsFull DEF BucketOf, BucketInv, PruningIsInvisible
<1> QED
  BY <1>1, <1>2, <1>3, <1>4

LEMMA AllowKeepsLevels ==
  ASSUME BucketInv, NEW ip \in Clients, Allow(ip), now' = now
  PROVE  BucketInv'
<1>1. CASE Rpm = 0
  BY <1>1 DEF Allow, BucketInv, PruningIsInvisible, Level, Fresh, Full, Bucket
<1>2. CASE Rpm # 0
  <2>1. /\ buckets' = [i \in DOMAIN Pruned \cup {ip} |->
                         IF i = ip THEN Charged(BucketOf(ip)) ELSE Pruned[i]]
        /\ ideal' = [ideal EXCEPT ![ip] = Charged(ideal[ip])]
    BY <1>2 DEF Allow
  <2>2. /\ now \in Nat
        /\ Charged(BucketOf(ip)) \in Bucket(now)
        /\ Charged(ideal[ip]) \in Bucket(now)
        /\ Level(Charged(BucketOf(ip))) = Level(Charged(ideal[ip]))
    BY PrunedLevels, ChargedLevel DEF BucketInv
  <2>3. \A b : Level(b)' = Level(b)
    BY DEF Level, Full
  <2>4. DOMAIN buckets' \subseteq Clients
    BY <2>1, PrunedLevels DEF BucketInv
  <2>5. buckets' \in [DOMAIN buckets' -> Bucket(now)]
    BY <2>1, <2>2, PrunedLevels DEF BucketInv
  <2>6. ideal' \in [Clients -> Bucket(now)]
    BY <2>1, <2>2 DEF BucketInv
  <2>7. ASSUME NEW i \in Clients
        PROVE  Level(IF i \in DOMAIN buckets' THEN buckets'[i] ELSE Fresh) = Level(ideal'[i])
    <3>1. CASE i = ip
      BY <2>1, <2>2, <3>1 DEF BucketInv
    <3>2. CASE i # ip /\ i \in DOMAIN Pruned
      BY <2>1, <3>2, PrunedLevels DEF BucketInv, PruningIsInvisible
    <3>3. CASE i # ip /\ i \notin DOMAIN Pruned
      BY <2>1, <3>3, PrunedLevels DEF BucketOf, BucketInv
    <3> QED
      BY <3>1, <3>2, <3>3
  <2>8. Fresh' = Fresh
    BY DEF Fresh, Full
  <2>9. PruningIsInvisible'
    BY <2>3, <2>7, <2>8 DEF PruningIsInvisible
  <2> QED
    BY <2>2, <2>4, <2>5, <2>6, <2>9 DEF BucketInv, Bucket, Full
<1> QED
  BY <1>1, <1>2

\* A tick refills the buckets there are and the ones there would be alike.
LEMMA TickKeepsLevels ==
  ASSUME BucketInv, now' = now + 1, UNCHANGED <<buckets, ideal>>
  PROVE  BucketInv'
<1>1. now \in Nat /\ now' \in Nat
  BY DEF BucketInv
<1>2. \A b \in Bucket(now) : b \in Bucket(now')
  BY <1>1 DEF Bucket
<1>3. /\ DOMAIN buckets' \subseteq Clients
      /\ buckets' \in [DOMAIN buckets' -> Bucket(now')]
      /\ ideal' \in [Clients -> Bucket(now')]
  BY <1>2 DEF BucketInv
<1>4. ASSUME NEW ip \in Clients
      PROVE  Level(IF ip \in DOMAIN buckets THEN buckets[ip] ELSE Fresh)' = Level(ideal[ip])'
  <2>1. ideal[ip] \in Bucket(now) /\ ideal'[ip] = ideal[ip]
    BY DEF BucketInv
  <2>2. CASE ip \in DOMAIN buckets
    <3>1. buckets[ip] \in Bucket(now) /\ buckets'[ip] = buckets[ip]
      BY <2>2 DEF BucketInv
    <3>2. Level(buckets[ip]) = Level(ideal[ip])
      BY <2>2 DEF BucketInv, PruningIsInvisible
    <3> QED
      BY <2>1, <2>2, <3>1, <3>2, <1>1, LevelTicks DEF Level, Full
  <2>3. CASE ip \notin DOMAIN buckets
    <3>1. Level(ideal[ip]) = Full
      BY <1>1, <2>3, FreshIsFull DEF BucketInv, PruningIsInvisible
    <3>2. Level(Fresh)' = Full
      BY <1>1, FullIsNat, LimitsAreNat DEF Level, Fresh, Full
    <3> QED
      BY <2>1, <2>3, <3>1, <3>2, <1>1, LevelTicks, FullIsNat, LimitsAreNat DEF Level, Full
  <2> QED
    BY <2>2, <2>3
<1>5. PruningIsInvisible'
  BY <1>4 DEF PruningIsInvisible
<1> QED
  BY <1>1, <1>3, <1>5 DEF BucketInv, Bucket, Full

LEMMA BucketStep == BucketInv /\ [Next]_vars => BucketInv'
<1> SUFFICES ASSUME BucketInv, [Next]_vars PROVE BucketInv'
  OBVIOUS
<1>1. ASSUME NEW c \in Slots, NEW ip \in Clients, Arrive(c, ip) PROVE BucketInv'
  BY <1>1, AllowKeepsLevels DEF Arrive
<1>2. CASE Tick
  BY <1>2, TickKeepsLevels DEF Tick
<1>3. CASE UNCHANGED <<now, buckets, ideal>>
  BY <1>3 DEF BucketInv, Bucket, Full, PruningIsInvisible, Level, Fresh
<1>4. CASE \E c \in Slots : BodyEnds(c) \/ HandlerEnds(c) \/ ResponseCloses(c)
  BY <1>3, <1>4 DEF BodyEnds, HandlerEnds, ResponseCloses
<1> QED
  BY <1>1, <1>2, <1>3, <1>4 DEF Next, vars

LEMMA InitBuckets == Init => BucketInv
<1> SUFFICES ASSUME Init PROVE BucketInv
  OBVIOUS
<1>1. now \in Nat /\ DOMAIN buckets = {}
  BY DEF Init
<1>2. ideal = [ip \in Clients |-> Fresh] /\ Fresh \in Bucket(now)
  BY <1>1, FreshIsFull DEF Init
<1>3. buckets \in [DOMAIN buckets -> Bucket(now)]
  BY <1>1 DEF Init
<1> QED
  BY <1>1, <1>2, <1>3 DEF BucketInv, PruningIsInvisible

\* Pruning changes no client's budget (prune in createRateLimiter): at every
\* moment each client has the tokens it would have, had nothing been pruned.
THEOREM PruningCannotBeSeen == Spec => []PruningIsInvisible
<1>1. BucketInv => PruningIsInvisible
  BY DEF BucketInv
<1> QED
  BY <1>1, InitBuckets, BucketStep, PTL DEF Spec

-------------------------------------------------------------------------------
(***************************************************************************)
(* The budget.                                                             *)
(***************************************************************************)

GrantSets(t) == SUBSET [at : 0..t, nth : Nat \ {0}]

\* Since any moment t there are at most as many grants as a full bucket at t and
\* its refill pay for, less what is left.  The grants of one moment are numbered
\* from one, so a new one is not among them.
SpentSince(ip, t) == Cardinality(GrantsSince(ip, t)) * Minute

BudgetInv ==
  /\ BucketInv
  /\ now <= MaxTime
  /\ granted \in [Clients -> GrantSets(now)]
  /\ \A ip \in Clients :
       /\ IsFiniteSet(granted[ip])
       /\ \A g \in granted[ip] : g.at > now - Minute
       /\ \A g \in GrantsSince(ip, now) : g.nth <= Cardinality(GrantsSince(ip, now))
       /\ Rpm > 0 => \A t \in Int : t <= now =>
            SpentSince(ip, t) + Level(ideal[ip]) <= Full + (now - t) * Rpm

LEMMA GrantsAreTyped ==
  ASSUME BudgetInv, NEW ip \in Clients
  PROVE  /\ granted[ip] \subseteq [at : 0..now, nth : Nat \ {0}] /\ now \in Nat
         /\ \A g \in granted[ip] : g.at > now - Minute
BY DEF BudgetInv, BucketInv, GrantSets

LEMMA SinceIsFinite ==
  ASSUME BudgetInv, NEW ip \in Clients, NEW t \in Int
  PROVE  /\ IsFiniteSet(GrantsSince(ip, t)) /\ Cardinality(GrantsSince(ip, t)) \in Nat
         /\ SpentSince(ip, t) \in Nat
<1>1. IsFiniteSet(GrantsSince(ip, t)) /\ Cardinality(GrantsSince(ip, t)) \in Nat
  BY FS_Subset, FS_CardinalityType, GrantsSince(ip, t) \subseteq granted[ip]
  DEF BudgetInv, GrantsSince
<1> QED
  BY <1>1, MinuteLasts DEF SpentSince

\* A grant of this moment is a new one, and one more.
LEMMA GrantCounts ==
  ASSUME BudgetInv, NEW ip \in Clients, granted' = [granted EXCEPT ![ip] = @ \cup {Grant(ip)}]
  PROVE  /\ Grant(ip) \notin granted[ip] /\ Grant(ip) \in [at : {now}, nth : Nat \ {0}]
         /\ \A t \in Int : t <= now =>
              Cardinality(GrantsSince(ip, t)') = Cardinality(GrantsSince(ip, t)) + 1
<1> DEFINE n == Cardinality(GrantsSince(ip, now))
<1>1. now \in Nat /\ n \in Nat
  BY SinceIsFinite DEF BudgetInv, BucketInv
<1>2. Grant(ip) \in [at : {now}, nth : Nat \ {0}] /\ Grant(ip).at = now /\ Grant(ip).nth = n + 1
  BY <1>1 DEF Grant
<1>3. Grant(ip) \notin granted[ip]
  <2>1. SUFFICES ASSUME Grant(ip) \in granted[ip] PROVE FALSE
    OBVIOUS
  <2>2. Grant(ip) \in GrantsSince(ip, now)
    BY <1>1, <1>2, <2>1 DEF GrantsSince
  <2>3. Grant(ip).nth <= n
    BY <2>2 DEF BudgetInv
  <2> QED
    BY <1>1, <1>2, <2>3
<1>4. ASSUME NEW t \in Int, t <= now
      PROVE  Cardinality(GrantsSince(ip, t)') = Cardinality(GrantsSince(ip, t)) + 1
  <2>1. granted'[ip] = granted[ip] \cup {Grant(ip)}
    BY DEF BudgetInv
  <2>2. GrantsSince(ip, t)' = GrantsSince(ip, t) \cup {Grant(ip)}
    BY <1>1, <1>2, <1>4, <2>1 DEF GrantsSince
  <2>3. Grant(ip) \notin GrantsSince(ip, t)
    BY <1>3 DEF GrantsSince
  <2> QED
    BY <2>2, <2>3, SinceIsFinite, FS_AddElement
<1> QED
  BY <1>2, <1>3, <1>4

\* What is spent since t, with one grant more.
LEMMA SpentOneMore ==
  ASSUME BudgetInv, NEW ip \in Clients, granted' = [granted EXCEPT ![ip] = @ \cup {Grant(ip)}],
         NEW t \in Int, t <= now
  PROVE  SpentSince(ip, t)' = SpentSince(ip, t) + Minute
<1> DEFINE n == Cardinality(GrantsSince(ip, t))
<1>1. n \in Nat /\ Cardinality(GrantsSince(ip, t)') = n + 1
  BY SinceIsFinite, GrantCounts
<1>2. \A m \in Nat : (m + 1) * Minute = m * Minute + Minute
  BY MinuteLasts
<1>3. SpentSince(ip, t)' = (n + 1) * Minute
  BY <1>1 DEF SpentSince
<1> QED
  BY <1>1, <1>2, <1>3 DEF SpentSince

\* A client that is granted pays a token for it; nobody else is touched.
LEMMA AllowKeepsBudget ==
  ASSUME BudgetInv, NEW ip \in Clients, Allow(ip), now' = now
  PROVE  BudgetInv'
<1>1. BucketInv /\ BucketInv' /\ now \in Nat
  BY AllowKeepsLevels DEF BudgetInv, BucketInv
<1>2. \A b : Level(b)' = Level(b)
  BY DEF Level, Full
<1>3. ASSUME NEW i \in Clients, ideal'[i] = ideal[i], granted'[i] = granted[i]
      PROVE  \A t \in Int : /\ GrantsSince(i, t)' = GrantsSince(i, t)
                           /\ SpentSince(i, t)' = SpentSince(i, t)
                           /\ Level(ideal[i])' = Level(ideal[i])
  BY <1>2, <1>3 DEF GrantsSince, SpentSince
<1>4. CASE Rpm = 0 \/ ~Allows(ip)
  <2>1. granted' = granted
    BY <1>4 DEF Allow
  <2>2. ASSUME NEW i \in Clients PROVE Level(ideal'[i]) <= Level(ideal[i])
    <3>1. CASE Rpm = 0 \/ i # ip
      BY <3>1, <1>1, LevelInRange, FullIsNat DEF Allow, BucketInv
    <3>2. CASE Rpm # 0 /\ i = ip
      BY <3>2, <1>1, ChargedLevel, LevelInRange, FullIsNat, MinuteLasts DEF Allow, BucketInv
    <3> QED
      BY <3>1, <3>2
  <2>3. \A i \in Clients : Level(ideal[i]) \in Nat /\ Level(ideal'[i]) \in Nat
    BY <1>1, <1>2, LevelInRange, FullIsNat DEF BucketInv
  <2>4. ASSUME NEW i \in Clients, Rpm > 0, NEW t \in Int, t <= now
        PROVE  SpentSince(i, t)' + Level(ideal[i])' <= Full + (now - t) * Rpm
    <3>1. SpentSince(i, t)' = SpentSince(i, t) /\ SpentSince(i, t) \in Nat
      BY <2>1, SinceIsFinite DEF SpentSince, GrantsSince
    <3>2. SpentSince(i, t) + Level(ideal[i]) <= Full + (now - t) * Rpm
      BY <2>4 DEF BudgetInv
    <3>3. (now - t) * Rpm \in Int /\ Full \in Int
      BY <1>1, LimitsAreNat, FullIsNat
    <3>4. Level(ideal[i])' <= Level(ideal[i])
      BY <1>2, <2>2
    <3> QED
      BY <1>2, <2>3, <3>1, <3>2, <3>3, <3>4
  <2> QED
    BY <1>1, <2>1, <2>4 DEF BudgetInv, GrantSets, GrantsSince, Full
<1>5. CASE Rpm # 0 /\ Allows(ip)
  <2>1. /\ granted' = [granted EXCEPT ![ip] = @ \cup {Grant(ip)}]
        /\ ideal' = [ideal EXCEPT ![ip] = Charged(@)]
    BY <1>5 DEF Allow
  <2>2. Level(ideal[ip]) >= Minute /\ Level(Charged(ideal[ip])) = Level(ideal[ip]) - Minute
    <3>1. Level(BucketOf(ip)) >= Minute
      BY <1>5 DEF Allows, Grants
    <3> QED
      BY <3>1, <1>1, PrunedLevels, ChargedLevel DEF BucketInv
  <2>3. /\ granted' \in [Clients -> GrantSets(now)]
        /\ \A i \in Clients : i # ip => granted'[i] = granted[i] /\ ideal'[i] = ideal[i]
        /\ granted'[ip] = granted[ip] \cup {Grant(ip)} /\ ideal'[ip] = Charged(ideal[ip])
    <3>1. granted[ip] \cup {Grant(ip)} \in GrantSets(now)
      <4>1. Grant(ip) \in [at : {now}, nth : Nat \ {0}]
        BY <2>1, GrantCounts
      <4>2. Grant(ip) \in [at : 0..now, nth : Nat \ {0}]
        BY <1>1, <4>1
      <4> QED
        BY <4>2, GrantsAreTyped DEF GrantSets
    <3> QED
      BY <2>1, <3>1, <1>1 DEF BudgetInv, BucketInv
  <2>4. ASSUME NEW t \in Int, t <= now
        PROVE  SpentSince(ip, t)' + Level(ideal[ip])' <= Full + (now - t) * Rpm
    <3>1. SpentSince(ip, t)' = SpentSince(ip, t) + Minute /\ SpentSince(ip, t) \in Nat
      BY <2>1, <2>4, SpentOneMore, SinceIsFinite
    <3>2. SpentSince(ip, t) + Level(ideal[ip]) <= Full + (now - t) * Rpm
      BY <1>5, <2>4, LimitsAreNat DEF BudgetInv
    <3>3. (now - t) * Rpm \in Int /\ Full \in Int /\ Level(ideal[ip]) \in Nat
      BY <1>1, LimitsAreNat, FullIsNat, LevelInRange DEF BucketInv
    <3>4. Level(ideal[ip])' = Level(ideal[ip]) - Minute
      BY <1>2, <2>2, <2>3
    <3> QED
      BY <3>1, <3>2, <3>3, <3>4, MinuteLasts
  <2>5. \A g \in GrantsSince(ip, now)' : g.nth <= Cardinality(GrantsSince(ip, now)')
    <3>1. Cardinality(GrantsSince(ip, now)') = Cardinality(GrantsSince(ip, now)) + 1
      <4>1. \A t \in Int : t <= now =>
              Cardinality(GrantsSince(ip, t)') = Cardinality(GrantsSince(ip, t)) + 1
        BY <2>1, GrantCounts
      <4>2. \A t \in Int : t = now => GrantsSince(ip, now)' = GrantsSince(ip, t)'
        BY DEF GrantsSince
      <4>3. PICK t \in Int : t = now
        BY <1>1
      <4> QED
        BY <1>1, <4>1, <4>2, <4>3
    <3>2. GrantsSince(ip, now)' \subseteq GrantsSince(ip, now) \cup {Grant(ip)}
      BY <2>3 DEF GrantsSince
    <3>3. Grant(ip).nth = Cardinality(GrantsSince(ip, now)) + 1
      BY DEF Grant
    <3>4. /\ \A g \in GrantsSince(ip, now) : g.nth <= Cardinality(GrantsSince(ip, now)) /\ g.nth \in Nat
          /\ Cardinality(GrantsSince(ip, now)) \in Nat
      <4>1. \A g \in GrantsSince(ip, now) : g.nth \in Nat
        BY GrantsAreTyped DEF GrantsSince
      <4>2. Cardinality(GrantsSince(ip, now)) \in Nat
        BY <1>1, SinceIsFinite
      <4> QED
        BY <4>1, <4>2 DEF BudgetInv
    <3> QED
      BY <3>1, <3>2, <3>3, <3>4
  <2>6. IsFiniteSet(granted'[ip]) /\ \A g \in granted'[ip] : g.at > now - Minute
    <3>1. IsFiniteSet(granted[ip]) /\ granted'[ip] = granted[ip] \cup {Grant(ip)}
      BY <2>3 DEF BudgetInv
    <3>2. IsFiniteSet(granted'[ip])
      BY <3>1, FS_AddElement
    <3>3. Grant(ip).at > now - Minute
      BY <1>1, MinuteLasts DEF Grant
    <3> QED
      BY <3>1, <3>2, <3>3, GrantsAreTyped
  <2>7. ASSUME NEW i \in Clients
        PROVE  /\ IsFiniteSet(granted'[i])
               /\ \A g \in granted'[i] : g.at > now - Minute
               /\ \A g \in GrantsSince(i, now)' : g.nth <= Cardinality(GrantsSince(i, now)')
               /\ \A t \in Int : t <= now =>
                    SpentSince(i, t)' + Level(ideal[i])' <= Full + (now - t) * Rpm
    <3>1. CASE i = ip
      BY <3>1, <2>4, <2>5, <2>6
    <3>2. CASE i # ip
      BY <3>2, <1>1, <1>3, <1>5, <2>3, LimitsAreNat DEF BudgetInv
    <3> QED
      BY <3>1, <3>2
  <2>8. Full' = Full /\ now' <= MaxTime
    BY DEF Full, BudgetInv
  <2>9. granted' \in [Clients -> GrantSets(now)']
    BY <2>3 DEF GrantSets
  <2> QED
    BY <1>1, <2>7, <2>8, <2>9 DEF BudgetInv
<1> QED
  BY <1>4, <1>5

\* A tick refills at most what it adds to the bound, and forgets what is old.
LEMMA TickKeepsBudget ==
  ASSUME BudgetInv, Tick
  PROVE  BudgetInv'
<1>1. /\ BucketInv /\ BucketInv' /\ now \in Nat /\ now' = now + 1 /\ now' <= MaxTime
      /\ ideal' = ideal /\ Full' = Full
  <2>1. BucketInv /\ now < MaxTime /\ now' = now + 1 /\ UNCHANGED <<buckets, ideal>>
    BY DEF BudgetInv, Tick
  <2> QED
    BY <2>1, TickKeepsLevels, LimitsAreNat DEF BucketInv, Full
<1>2. ASSUME NEW ip \in Clients
      PROVE  /\ granted'[ip] = {g \in granted[ip] : g.at >= now + 2 - Minute}
             /\ granted'[ip] \subseteq granted[ip]
             /\ IsFiniteSet(granted'[ip])
  <2>1. granted'[ip] = {g \in granted[ip] : g.at >= now + 2 - Minute}
    BY DEF Tick, GrantsSince
  <2>2. IsFiniteSet(granted[ip])
    BY DEF BudgetInv
  <2> QED
    BY <2>1, <2>2, FS_Subset
<1>3. granted' \in [Clients -> GrantSets(now)']
  <2>1. granted' = [ip \in Clients |-> granted'[ip]]
    BY DEF Tick
  <2>2. ASSUME NEW ip \in Clients PROVE granted'[ip] \in GrantSets(now)'
    <3>1. [at : 0..now, nth : Nat \ {0}] \subseteq [at : 0..now', nth : Nat \ {0}]
      BY <1>1
    <3> QED
      BY <1>2, <3>1, GrantsAreTyped DEF GrantSets
  <2> HIDE DEF GrantSets
  <2> QED
    BY <2>1, <2>2
<1>4. ASSUME NEW ip \in Clients
      PROVE  /\ \A g \in granted'[ip] : g.at > now' - Minute
             /\ GrantsSince(ip, now)' = {}
  <2>1. \A g \in granted[ip] : g.at \in 0..now
    BY GrantsAreTyped
  <2>2. \A g \in granted'[ip] : g.at > now' - Minute
    BY <1>1, <1>2, <2>1, MinuteLasts
  <2>3. \A g \in granted'[ip] : ~(g.at >= now')
    BY <1>1, <1>2, <2>1
  <2> QED
    BY <2>2, <2>3 DEF GrantsSince
<1>5. ASSUME NEW ip \in Clients, Rpm > 0, NEW t \in Int, t <= now'
      PROVE  SpentSince(ip, t)' + Level(ideal[ip])' <= Full + (now' - t) * Rpm
  <2>1. ideal[ip] \in Bucket(now) /\ ideal'[ip] \in Bucket(now')
    BY <1>1 DEF BucketInv
  <2>2. Level(ideal[ip])' = IF Level(ideal[ip]) + Rpm > Full THEN Full ELSE Level(ideal[ip]) + Rpm
    BY <1>1, <2>1, LevelTicks DEF Level
  <2>3. Level(ideal[ip]) \in Nat /\ Level(ideal[ip]) <= Full /\ Full \in Nat /\ Rpm \in Nat
    BY <1>1, <2>1, LevelInRange, FullIsNat, LimitsAreNat
  <2>4. CASE t <= now
    <3>1. SpentSince(ip, t)' <= SpentSince(ip, t) /\ SpentSince(ip, t) \in Nat /\ SpentSince(ip, t)' \in Nat
      <4>1. GrantsSince(ip, t)' \subseteq GrantsSince(ip, t)
        BY <1>2 DEF GrantsSince
      <4>2. IsFiniteSet(GrantsSince(ip, t)) /\ Cardinality(GrantsSince(ip, t)) \in Nat
        BY SinceIsFinite
      <4>3. /\ Cardinality(GrantsSince(ip, t)') \in Nat
            /\ Cardinality(GrantsSince(ip, t)') <= Cardinality(GrantsSince(ip, t))
        BY <4>1, <4>2, FS_Subset, FS_CardinalityType
      <4>4. \A m, n \in Nat : m <= n => m * Minute <= n * Minute /\ m * Minute \in Nat /\ n * Minute \in Nat
        BY MinuteLasts
      <4> QED
        BY <4>2, <4>3, <4>4 DEF SpentSince
    <3>2. SpentSince(ip, t) + Level(ideal[ip]) <= Full + (now - t) * Rpm
      BY <1>5, <2>4 DEF BudgetInv
    <3>3. (now' - t) * Rpm = (now - t) * Rpm + Rpm /\ (now - t) * Rpm \in Nat
      <4>1. \A n \in Nat : (n + 1) * Rpm = n * Rpm + Rpm /\ n * Rpm \in Nat
        BY LimitsAreNat
      <4>2. now - t \in Nat /\ now' - t = (now - t) + 1
        BY <1>1, <2>4
      <4> QED
        BY <4>1, <4>2
    <3> DEFINE more == (now - t) * Rpm
    <3>4. more \in Nat /\ (now' - t) * Rpm = more + Rpm
      BY <3>3
    <3>5. SpentSince(ip, t) + Level(ideal[ip]) <= Full + more
      BY <3>2
    <3>6. Level(ideal[ip])' <= Level(ideal[ip]) + Rpm /\ Level(ideal[ip])' \in Nat
      BY <2>2, <2>3
    <3> HIDE DEF more
    <3> QED
      BY <2>3, <3>1, <3>4, <3>5, <3>6
  <2>5. CASE t = now'
    <3>1. GrantsSince(ip, t)' = {}
      BY <1>4, <2>5 DEF GrantsSince
    <3>2. SpentSince(ip, t)' = 0
      BY <3>1, FS_EmptySet, MinuteLasts DEF SpentSince
    <3>3. Level(ideal[ip])' <= Full /\ Level(ideal[ip])' \in Nat /\ (now' - t) * Rpm = 0
      BY <1>1, <2>2, <2>3, <2>5
    <3> QED
      BY <2>3, <3>2, <3>3
  <2> QED
    BY <1>1, <1>5, <2>4, <2>5
<1>6. \A ip \in Clients : \A g \in GrantsSince(ip, now)' : g.nth <= Cardinality(GrantsSince(ip, now)')
  BY <1>4
<1> QED
  BY <1>1, <1>2, <1>3, <1>4, <1>5, <1>6 DEF BudgetInv

LEMMA BudgetStep == BudgetInv /\ [Next]_vars => BudgetInv'
<1> SUFFICES ASSUME BudgetInv, [Next]_vars PROVE BudgetInv'
  OBVIOUS
<1>1. ASSUME NEW c \in Slots, NEW ip \in Clients, Arrive(c, ip) PROVE BudgetInv'
  BY <1>1, AllowKeepsBudget DEF Arrive
<1>2. CASE Tick
  BY <1>2, TickKeepsBudget
<1>3. CASE UNCHANGED <<now, buckets, ideal, granted>>
  <2>1. BucketInv'
    BY <1>3 DEF BudgetInv, BucketInv, Bucket, Full, PruningIsInvisible, Level, Fresh
  <2> QED
    BY <1>3, <2>1 DEF BudgetInv, GrantSets, GrantsSince, SpentSince, Level, Full
<1>4. CASE \E c \in Slots : BodyEnds(c) \/ HandlerEnds(c) \/ ResponseCloses(c)
  BY <1>3, <1>4 DEF BodyEnds, HandlerEnds, ResponseCloses
<1> QED
  BY <1>1, <1>2, <1>3, <1>4 DEF Next, vars

LEMMA InitBudget == Init => BudgetInv
<1> SUFFICES ASSUME Init PROVE BudgetInv
  OBVIOUS
<1>1. BucketInv
  BY InitBuckets
<1>2. now = 0 /\ \A ip \in Clients : granted[ip] = {} /\ Level(ideal[ip]) = Full
  BY FreshIsFull DEF Init
<1>3. ASSUME NEW ip \in Clients, NEW t \in Int, t <= now
      PROVE  SpentSince(ip, t) + Level(ideal[ip]) <= Full + (now - t) * Rpm
  <2>1. GrantsSince(ip, t) = {}
    BY <1>2 DEF GrantsSince
  <2>2. SpentSince(ip, t) = 0
    BY <2>1, FS_EmptySet, MinuteLasts DEF SpentSince
  <2>3. (now - t) * Rpm \in Nat
    <3>1. \A n \in Nat : n * Rpm \in Nat
      BY LimitsAreNat
    <3> QED
      BY <1>2, <1>3, <3>1
  <2> QED
    BY <1>2, <2>2, <2>3, FullIsNat
<1> QED
  BY <1>1, <1>2, <1>3, FS_EmptySet, LimitsAreNat DEF BudgetInv, GrantSets, GrantsSince, Init

LEMMA AlwaysBudget == Spec => []BudgetInv
BY InitBudget, BudgetStep, PTL DEF Spec

\* "rpm tokens capacity, refilled evenly over each minute" (createRateLimiter):
\* no client gets more out of a minute than a full bucket and its refill.
THEOREM NobodyExceedsTheBudget == Spec => []BudgetHolds
<1>1. BudgetInv => BudgetHolds
  <2> SUFFICES ASSUME BudgetInv, Rpm > 0, NEW ip \in Clients
               PROVE  Cardinality(granted[ip]) * Minute <= Full + Rpm * (Minute - 1)
    BY DEF BudgetHolds
  <2> DEFINE t == now - (Minute - 1)
  <2>1. now \in Nat /\ t \in Int /\ t <= now /\ now - t = Minute - 1
    BY MinuteLasts DEF BudgetInv, BucketInv
  <2>2. \A g \in granted[ip] : g.at >= t
    BY GrantsAreTyped, MinuteLasts
  <2>3. GrantsSince(ip, t) = granted[ip]
    BY <2>2 DEF GrantsSince
  <2>4. Cardinality(granted[ip]) * Minute = SpentSince(ip, t) /\ SpentSince(ip, t) \in Nat
    BY <2>1, <2>3, SinceIsFinite DEF SpentSince
  <2>5. SpentSince(ip, t) + Level(ideal[ip]) <= Full + (now - t) * Rpm
    BY <2>1 DEF BudgetInv
  <2>6. Level(ideal[ip]) \in Nat
    BY <2>1, LevelInRange, FullIsNat DEF BudgetInv, BucketInv
  <2>7. (now - t) * Rpm = Rpm * (Minute - 1) /\ Rpm * (Minute - 1) \in Nat
    BY <2>1, LimitsAreNat, MinuteLasts
  <2> HIDE DEF t
  <2> QED
    BY <2>4, <2>5, <2>6, <2>7, FullIsNat
<1> QED
  BY <1>1, AlwaysBudget, PTL

\* The state keeps its shape; a bucket never holds more than its capacity.
THEOREM LimitsTypeCorrect == Spec => []LimitsTypeOK
<1>1. BudgetInv /\ GateInv => LimitsTypeOK
  BY DEF BudgetInv, GateInv, BucketInv, Bucket, GrantSets, ConnStates, LimitsTypeOK
<1> QED
  BY <1>1, AlwaysBudget, InitGate, GateStep, PTL DEF Spec
===============================================================================
