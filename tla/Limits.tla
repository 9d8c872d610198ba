-------------------------------- MODULE Limits --------------------------------
(***************************************************************************)
(* The relayer's in-process limits (packages/relayer/src/limits.ts) and    *)
(* the way startServer (server.ts) holds them around a request: a token    *)
(* bucket per client, then a gate on concurrency whose slot is given back  *)
(* when the response closes.                                               *)
(*                                                                         *)
(* Time is counted in ticks, Minute of them to a minute.  Tokens are       *)
(* counted in 1/Minute of a token, so that a tick refills exactly Rpm.     *)
(***************************************************************************)
EXTENDS Integers, FiniteSets

CONSTANTS
  Clients,     \* client IPs
  Slots,       \* connections open at once (not the gate: the sockets)
  Rpm,         \* RATE_LIMIT_RPM, 0 disables
  MaxInflight, \* MAX_INFLIGHT, 0 disables
  Minute,      \* ticks in 60 s
  PruneAbove,  \* 10_000: buckets beyond which stale ones are pruned
  MaxTime      \* bound on the clock

ASSUME LimitsAreNat == Rpm \in Nat /\ MaxInflight \in Nat /\ PruneAbove \in Nat /\ MaxTime \in Nat
ASSUME MinuteLasts  == Minute \in Nat \ {0}
ASSUME SlotsFinite  == IsFiniteSet(Slots)

VARIABLES
  now,      \* Date.now()
  buckets,  \* limits.ts: one bucket per client seen and not pruned
  inflight, \* limits.ts: the gate's count
  conn,     \* server.ts: the state of each connection
  ideal,    \* history: the buckets, had none ever been pruned
  granted   \* history: each client's grants of the last minute

vars == <<now, buckets, inflight, conn, ideal, granted>>

-------------------------------------------------------------------------------
Full  == Rpm * Minute
Fresh == [tokens |-> Full, last |-> now]

\* The tokens of a bucket at this moment.
Level(b) ==
  LET refilled == b.tokens + (now - b.last) * Rpm
  IN IF refilled > Full THEN Full ELSE refilled

\* Mutant of Stale: a bucket is dropped while it is still refilling.
StaleEarly(b) == 2 * (now - b.last) > Minute

\* A bucket refills in one minute; after two it is taken for absent.
Stale(b) == now - b.last > 2 * Minute

Pruned ==
  IF Cardinality(DOMAIN buckets) > PruneAbove
  THEN [ip \in {i \in DOMAIN buckets : ~Stale(buckets[i])} |-> buckets[ip]]
  ELSE buckets

BucketOf(ip) == IF ip \in DOMAIN Pruned THEN Pruned[ip] ELSE Fresh

\* Mutant of Grants: a fraction of a token is enough.
GrantsFraction(b) == Level(b) > 0

Grants(b) == Level(b) >= Minute

\* The bucket once a request has been granted or refused.
Charged(b) ==
  [tokens |-> IF Grants(b) THEN Level(b) - Minute ELSE Level(b), last |-> now]

\* The grants of a client at time t or later; those of one moment are numbered.
GrantsSince(ip, t) == {g \in granted[ip] : g.at >= t}
Grant(ip) == [at |-> now, nth |-> Cardinality(GrantsSince(ip, now)) + 1]

\* limiter.allow(ip), whose answer is Allows(ip).
Allows(ip) == Rpm = 0 \/ Grants(BucketOf(ip))

Allow(ip) ==
  IF Rpm = 0 THEN UNCHANGED <<buckets, ideal, granted>>
  ELSE /\ buckets' = [i \in DOMAIN Pruned \cup {ip} |->
                        IF i = ip THEN Charged(BucketOf(ip)) ELSE Pruned[i]]
       /\ ideal' = [ideal EXCEPT ![ip] = Charged(@)]
       /\ granted' = IF Allows(ip) THEN [granted EXCEPT ![ip] = @ \cup {Grant(ip)}] ELSE granted

Enters == MaxInflight = 0 \/ inflight < MaxInflight

\* Mutant of Left: the slot is not given back.
LeftNever(n) == n

Left(n) == IF n > 0 THEN n - 1 ELSE 0

-------------------------------------------------------------------------------
\* A request's headers arrive.  The token is spent before the gate is asked.
Arrive(c, ip) ==
  /\ conn[c] = "closed"
  /\ Allow(ip)
  /\ IF Allows(ip) /\ Enters
     THEN conn' = [conn EXCEPT ![c] = "receiving"] /\ inflight' = inflight + 1
     ELSE UNCHANGED <<conn, inflight>>     \* 429 or 503, answered at once
  /\ UNCHANGED now

\* The body is complete: the handler starts.
BodyEnds(c) ==
  /\ conn[c] = "receiving"
  /\ conn' = [conn EXCEPT ![c] = "handling"]
  /\ UNCHANGED <<now, buckets, inflight, ideal, granted>>

\* The handler settles, with a client to answer or without.
HandlerEnds(c) ==
  /\ conn[c] \in {"handling", "abandoned"}
  /\ conn' = [conn EXCEPT ![c] = IF @ = "handling" THEN "answering" ELSE "closed"]
  /\ UNCHANGED <<now, buckets, inflight, ideal, granted>>

\* The response closes: it has been sent, the body was over the limit, or the
\* client left.  A running handler is not stopped by it.
ResponseCloses(c) ==
  /\ conn[c] \in {"receiving", "handling", "answering"}
  /\ conn' = [conn EXCEPT ![c] = IF @ = "handling" THEN "abandoned" ELSE "closed"]
  /\ inflight' = Left(inflight)
  /\ UNCHANGED <<now, buckets, ideal, granted>>

Tick ==
  /\ now < MaxTime
  /\ now' = now + 1
  /\ granted' = [ip \in Clients |-> GrantsSince(ip, now + 2 - Minute)]
  /\ UNCHANGED <<buckets, inflight, conn, ideal>>

Init ==
  /\ now = 0
  /\ buckets = [ip \in {} |-> Fresh]
  /\ inflight = 0
  /\ conn = [c \in Slots |-> "closed"]
  /\ ideal = [ip \in Clients |-> Fresh]
  /\ granted = [ip \in Clients |-> {}]

Next ==
  \/ \E c \in Slots :
       \/ \E ip \in Clients : Arrive(c, ip)
       \/ BodyEnds(c)
       \/ HandlerEnds(c)
       \/ ResponseCloses(c)
  \/ Tick

\* A response closes when the answer has been sent, and while the body is
\* awaited at the latest when the HTTP server's own request timeout ends the
\* wait.  A handler is under no deadline: its RPC calls have no timeout, and a
\* client need not leave before it is answered.
Fairness == \A c \in Slots : WF_vars(conn[c] # "handling" /\ ResponseCloses(c))

Spec == Init /\ [][Next]_vars /\ Fairness

-------------------------------------------------------------------------------
(***************************************************************************)
(* Properties.                                                             *)
(***************************************************************************)

\* The shape of the state; a bucket never holds more than a minute's budget.
LimitsTypeOK ==
  /\ now \in 0..MaxTime
  /\ DOMAIN buckets \subseteq Clients
  /\ buckets \in [DOMAIN buckets -> [tokens : 0..Full, last : 0..now]]
  /\ inflight \in Nat
  /\ conn \in [Slots -> {"closed", "receiving", "handling", "answering", "abandoned"}]
  /\ ideal \in [Clients -> [tokens : 0..Full, last : 0..now]]
  /\ granted \in [Clients -> SUBSET [at : 0..now, nth : Nat \ {0}]]

\* "Anything untouched for two is indistinguishable from absent" (prune): the
\* budget of every client is the one it would have if nothing were pruned.
PruningIsInvisible ==
  \A ip \in Clients : Level(IF ip \in DOMAIN buckets THEN buckets[ip] ELSE Fresh) = Level(ideal[ip])

\* "rpm tokens capacity, refilled evenly over each minute": no client is granted
\* more than a full bucket and its refill in the same minute.
BudgetHolds ==
  Rpm > 0 => \A ip \in Clients : Cardinality(granted[ip]) * Minute <= Full + Rpm * (Minute - 1)

OpenResponses == {c \in Slots : conn[c] \in {"receiving", "handling", "answering"}}

\* "MUST leave() exactly once when done": the gate counts exactly the
\* connections whose response is open, so it neither leaks a slot nor admits
\* more of them than it should.
GateCountsOpenResponses ==
  /\ inflight = Cardinality(OpenResponses)
  /\ MaxInflight > 0 => inflight <= MaxInflight

\* A relayer at capacity comes back by itself, provided its handlers settle;
\* one whose RPC call never returns keeps its slot until its client leaves.
CapacityComesBack ==
  (\A c \in Slots : WF_vars(HandlerEnds(c))) => (inflight = MaxInflight ~> inflight < MaxInflight)
===============================================================================
