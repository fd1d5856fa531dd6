------------------------------- MODULE Series -------------------------------
(***************************************************************************)
(* Traffic over time: what is kept of the kubelet's counters and of the    *)
(* agents' rates (server/src/main.ts, db/node-samples.repo.ts), and the    *)
(* lines drawn from it for a node and for the cluster                      *)
(* (query/cluster-series.ts, http/query.controller.ts, kube/rates.ts).     *)
(*                                                                         *)
(* Time is counted in intervals of storage.  A machine moves bytes in each *)
(* of them; its counter says how many since it last started over; its      *)
(* agent, where it runs one, how many in the last interval.  Only what was *)
(* received is modelled: what was sent is treated alike.  Rates are scaled *)
(* by SCALE, so that the divisions of the code come out even.              *)
(***************************************************************************)
EXTENDS Integers, FiniteSets, FiniteSetsExt, Functions, Sequences

CONSTANTS
  Nodes,             \* machines
  Members,           \* those the kubelet reports: nodes of the cluster
  Bytes,             \* bound: what a machine moves in an interval
  MAX_SERIES_POINTS,
  Spans,             \* windows a chart may ask for
  SCALE,             \* a multiple of every span of time
  Null,
  MaxClock,          \* bound: intervals
  MaxFaults          \* bound: things out of the ordinary

SeriesAssumption ==
  /\ IsFiniteSet(Nodes) /\ Members \subseteq Nodes
  /\ Bytes \subseteq Nat
  /\ MAX_SERIES_POINTS \in Nat \ {0}
  /\ Spans \subseteq Nat \ {0}
  /\ MaxClock \in Nat
  /\ SCALE \in Nat \ {0} /\ \A span \in 1 .. MaxClock : SCALE % span = 0
  /\ Null \notin Int

VARIABLES
  clock,
  agents,    \* the machines that run an agent
  moved,     \* history: node -> what it had moved by each time
  restarts,  \* history: node -> times its counter started over
  counter,   \* node -> the counter of its interfaces
  reading,   \* node -> what its kubelet says: a time, and a counter or Null
  persisted, \* persistedAt: node -> time of the last sample kept, or Null
  samples,   \* node_samples
  hardware,  \* facet_host_hardware
  faults

vars == <<clock, agents, moved, restarts, counter, reading, persisted, samples, hardware, faults>>

-----------------------------------------------------------------------------
(* What is kept.                                                           *)

\* The rows of a node.
Of(rows, n) == {row \in rows : row.node = n}

\* One sample in an interval reaches disk.
IsDue(n) ==
  /\ reading[n].at > 0
  /\ persisted[n] # Null => reading[n].at - persisted[n] >= 1

\* What may be odd: a counter starts over or cannot be read, a kubelet says again what it
\* said, an agent misses its report.  A poll may be missed too.
Oddities == {"reset", "unread", "again", "missed"}

\* An interval passes, in which a machine moves b[n] bytes.
Interval(b, odd) ==
  LET is(n, oddity) == odd[n] = oddity
      now == [n \in Nodes |-> IF is(n, "reset") THEN 0 ELSE counter[n] + b[n]]
      missed == IF \E n \in Members : IsDue(n) THEN 1 ELSE 0
      oddities == missed + Cardinality({n \in Nodes : odd[n] \in Oddities})
  IN
  /\ clock < MaxClock /\ faults + oddities <= MaxFaults
  /\ clock' = clock + 1
  /\ moved' = [n \in Nodes |-> [t \in 0 .. clock' |-> IF t = clock' THEN moved[n][clock] + b[n]
                                                      ELSE moved[n][t]]]
  /\ restarts' = [n \in Nodes |-> restarts[n] \cup {t \in {clock'} : is(n, "reset")}]
  /\ counter' = now
  /\ reading' = [n \in Nodes |-> IF is(n, "again") THEN reading[n]
                                 ELSE [at |-> clock', rx |-> IF is(n, "unread") THEN Null ELSE now[n]]]
  /\ hardware' = hardware \cup {[node |-> n, at |-> clock', rx |-> SCALE * b[n]] :
                                  n \in {m \in agents : ~is(m, "missed")}}
  /\ faults' = faults + oddities
  /\ UNCHANGED <<agents, persisted, samples>>

\* A poll of the members, and the sink of samples: NodeSamplesRepo.record for those due.
Polled ==
  LET due == {n \in Members : IsDue(n)} IN
  /\ due # {}
  /\ persisted' = [n \in Nodes |-> IF n \in due THEN reading[n].at ELSE persisted[n]]
  /\ samples' = samples \cup {[count |-> Cardinality(Of(samples, n)), node |-> n,
                               at |-> reading[n].at, rx |-> reading[n].rx] : n \in due}
  /\ UNCHANGED <<clock, agents, moved, restarts, counter, reading, hardware, faults>>

\* A new process has persisted nothing: it may keep a sample twice.
Restart ==
  /\ faults < MaxFaults
  /\ \E n \in Nodes : persisted[n] # Null
  /\ persisted' = [n \in Nodes |-> Null]
  /\ faults' = faults + 1
  /\ UNCHANGED <<clock, agents, moved, restarts, counter, reading, samples, hardware>>

\* A machine outside the cluster is known by its agent.
Init ==
  /\ clock = 0
  /\ agents \in {set \in SUBSET Nodes : Nodes \ Members \subseteq set}
  /\ moved = [n \in Nodes |-> [t \in {0} |-> 0]] /\ restarts = [n \in Nodes |-> {}]
  /\ counter = [n \in Nodes |-> 0] /\ reading = [n \in Nodes |-> [at |-> 0, rx |-> 0]]
  /\ persisted = [n \in Nodes |-> Null]
  /\ samples = {} /\ hardware = {}
  /\ faults = 0

Next ==
  \/ \E b \in [Nodes -> Bytes], odd \in [Nodes -> Oddities \cup {"none"}] : Interval(b, odd)
  \/ Polled
  \/ Restart

Spec == Init /\ [][Next]_vars

-----------------------------------------------------------------------------
(* What is drawn.                                                          *)

CeilDiv(a, b) == (a + b - 1) \div b

\* bucketWidthFor: 0 where what is stored is few enough.
BucketWidthFor(span) == IF span <= MAX_SERIES_POINTS THEN 0 ELSE CeilDiv(span, MAX_SERIES_POINTS)

\* Mutant: a counter that started over is taken for one that went back.
CounterRate_Naive(before, after) ==
  IF after.at <= before.at THEN Null
  ELSE (SCALE * (after.rx - before.rx)) \div (after.at - before.at)

\* counterRate: between two readings of a counter, unless it started over.
CounterRate(before, after) ==
  IF after.at <= before.at \/ after.rx < before.rx THEN Null
  ELSE (SCALE * (after.rx - before.rx)) \div (after.at - before.at)

\* Aggregates of SQL: nulls do not count.
Known(rows) == {row \in rows : row.rx # Null}
AverageOf(rows) ==
  IF Known(rows) = {} THEN Null
  ELSE SumFunction([row \in Known(rows) |-> row.rx]) \div Cardinality(Known(rows))
SumOver(f) ==
  IF \A n \in DOMAIN f : f[n] = Null THEN Null
  ELSE SumFunction([n \in DOMAIN f |-> IF f[n] = Null THEN 0 ELSE f[n]])
GreatestOf(rows) == IF Known(rows) = {} THEN Null ELSE Max({row.rx : row \in Known(rows)})
NewestAt(rows) == Max({row.at : row \in rows})

\* ORDER BY: each stands behind those that come before it.
InOrder(set, before(_, _)) ==
  [i \in 1 .. Cardinality(set) |->
     CHOOSE x \in set : Cardinality({y \in set : before(y, x)}) = i - 1]

\* WHERE and GROUP BY.
Window(rows, span) == {row \in rows : clock - span <= row.at /\ row.at <= clock}
Buckets(rows, width) ==
  InOrder({row.at \div width : row \in rows}, LAMBDA a, b : a < b)
InBucket(rows, bucket, width) == {row \in rows : row.at \div width = bucket}

\* NodeSamplesRepo.series and .bucketed
PointsOf(n, span) ==
  LET rows == Of(Window(samples, span), n)
      width == BucketWidthFor(span)
      before(a, b) == a.at < b.at \/ (a.at = b.at /\ a.count < b.count)
      point(bucket) == [at |-> NewestAt(InBucket(rows, bucket, width)),
                        rx |-> GreatestOf(InBucket(rows, bucket, width))]
  IN IF width = 0 THEN InOrder(rows, before)
     ELSE [i \in DOMAIN Buckets(rows, width) |-> point(Buckets(rows, width)[i])]

\* toRates
RatesOf(points) ==
  [i \in DOMAIN points |->
     IF i = 1 THEN Null
     ELSE IF Null \in {points[i].rx, points[i - 1].rx} THEN Null
     ELSE CounterRate(points[i - 1], points[i])]

\* NodeSamplesRepo.hostSeries
HostPointsOf(n, span) ==
  LET rows == Of(Window(hardware, span), n)
      width == Max({1, BucketWidthFor(span)})
      point(bucket) == [at |-> NewestAt(InBucket(rows, bucket, width)),
                        rx |-> AverageOf(InBucket(rows, bucket, width))]
  IN [i \in DOMAIN Buckets(rows, width) |-> point(Buckets(rows, width)[i])]

\* The inner query of agentTraffic.
PerNode(rows) == [n \in Nodes |-> AverageOf(Of(rows, n))]

AgentTraffic(span) ==
  LET rows == Window(hardware, span)
      width == Max({1, BucketWidthFor(span)})
      point(in) == [at |-> NewestAt(in), rx |-> SumOver(PerNode(in))]
  IN [i \in DOMAIN Buckets(rows, width) |-> point(InBucket(rows, Buckets(rows, width)[i], width))]

\* Each node's counter becomes a rate, against the last bucket that had one; the rates add.
KubeletTraffic(span) ==
  LET rows == Window(samples, span)
      width == Max({1, BucketWidthFor(span)})
      row(n, bucket) == [at |-> NewestAt(InBucket(Of(rows, n), bucket, width)),
                         rx |-> GreatestOf(InBucket(Of(rows, n), bucket, width))]
      has(n, bucket) == Known(InBucket(Of(rows, n), bucket, width)) # {}
      previous(n, bucket) == {b \in 0 .. bucket - 1 : has(n, b)}
      rate(n, bucket) ==
        IF ~has(n, bucket) \/ previous(n, bucket) = {} THEN Null
        ELSE CounterRate(row(n, Max(previous(n, bucket))), row(n, bucket))
      point(bucket) == [at |-> NewestAt(InBucket(rows, bucket, width)),
                        rx |-> SumOver([n \in Nodes |-> rate(n, bucket)])]
  IN [i \in DOMAIN Buckets(rows, width) |-> point(Buckets(rows, width)[i])]

\* clusterTraffic
ClusterTraffic(span) ==
  IF AgentTraffic(span) # <<>> THEN AgentTraffic(span) ELSE KubeletTraffic(span)

-----------------------------------------------------------------------------
(* Properties.                                                             *)

\* What a machine moved after one time and up to another, and in its fastest interval.
Moved(n, from, to) == moved[n][to] - moved[n][from]
Fastest(n) == Max({0} \cup {Moved(n, t - 1, t) : t \in 1 .. clock})

\* The counter could be read when the newest sample of a point was taken.
Read(n, point) == \E row \in Known(Of(samples, n)) : row.at = point.at

\* "One missing point is honest, a wrong point is not": a rate of a node, between points
\* whose newest sample had a counter, is never negative and never more than the node moved
\* between the two, and exactly that if its counter never started over.
NodeRatesAreHonest(n, span) ==
  LET points == PointsOf(n, span)
      rates == RatesOf(points)
      seen(i) == rates[i] * (points[i].at - points[i - 1].at)
      true(i) == SCALE * Moved(n, points[i - 1].at, points[i].at)
  IN \A i \in 2 .. Len(points) :
       rates[i] # Null =>
         /\ 0 <= rates[i]
         /\ Read(n, points[i - 1]) /\ Read(n, points[i]) =>
              seen(i) <= true(i) /\ (restarts[n] = {} => seen(i) = true(i))

\* So are the lines of an agent, and those of the cluster if every counter was read: they
\* never show more than the machines could have moved, each at its fastest.  And no line
\* has many more points than can be drawn.
RatesAreHonest ==
  \A span \in Spans :
    /\ \A n \in Members : NodeRatesAreHonest(n, span)
    /\ \A n \in agents : \A point \in Range(HostPointsOf(n, span)) :
         0 <= point.rx /\ point.rx <= SCALE * Fastest(n)
    /\ Known(samples) = samples => \A point \in Range(ClusterTraffic(span)) : point.rx # Null =>
         0 <= point.rx /\ point.rx <= SCALE * SumFunction([n \in Nodes |-> Fastest(n)])
    /\ BucketWidthFor(span) > 0 => \A n \in Members : Len(PointsOf(n, span)) <= MAX_SERIES_POINTS + 1

=============================================================================
