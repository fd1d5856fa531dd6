----------------------------- MODULE LiveFigures -----------------------------
(***************************************************************************)
(* The figures of one machine, from the readings of its kubelet and of its *)
(* agent to the cards and the charts of its page: collect/live-cache.ts,   *)
(* collect/live-push.ts, GET /api/metrics/current, the state of            *)
(* client/src/lib/live.ts, lib/chart-data.ts and hosts/[name]/page.tsx.    *)
(*                                                                         *)
(* A figure is the times of the readings it is made of.  The client learns *)
(* of it by frames of the socket, in their order, and by answers of REST,  *)
(* which it asks for while the socket is down (LiveClient says when) or    *)
(* when a frame tells it to: `under way` are both, in the order in which   *)
(* the server built them.                                                  *)
(*                                                                         *)
(* A reading may reach the server after a newer one: polls of the kubelet  *)
(* overlap (collect/scheduler.ts), and an agent gives up a report that was *)
(* under way.  Which readings are stored is left open (Series, HostIngest) *)
(* and of what the page loads only the newest time counts here.  Left out: *)
(* values, the details of a watched node, whether a node is of the cluster *)
(* (of one that is not, only the agent says when).                         *)
(***************************************************************************)
EXTENDS Integers, FiniteSets, FiniteSetsExt, SequencesExt

CONSTANTS
  STALE,     \* stalenessMs
  LATENESS,  \* bound: how old a reading may be when it comes
  EVERY,     \* spanMs / PLOT_STEPS
  WINDOW,    \* windowMs of useLiveHistory
  None, Signal,
  MaxClock,  \* bound: time
  MaxLoads,  \* bound: loads of the stored points
  MaxFaults, \* bound: late readings, signals, lost answers and sockets
  MaxWay,    \* bound: frames and answers under way
  MaxAsks    \* bound: requests for the figures

LiveFiguresAssumption ==
  /\ {STALE, LATENESS, WINDOW, EVERY} \subseteq Nat
  /\ EVERY > 0
  /\ None \notin Nat /\ None # Signal
  /\ {None, Signal} \cap [at : Nat, host : Nat \cup {None}] = {}

VARIABLES
  clock,
  latest,     \* #latest: when the kubelet's reading was taken, or None
  host,       \* #host: the agent's
  up,         \* the socket is open
  asked,      \* requests for the figures the server has yet to answer
  way,        \* under way: [via, figure, overtaken]
  shown,      \* the state of useLiveMetrics: the figure of the node, or None
  tail,       \* useLiveHistory: [source, at]
  history,    \* source -> newest of the stored points the page loaded, or -1
  disordered, \* history: a reading was recorded after a newer one of its source
  crossed,    \* history: the client got a figure after one that was built later
  loads, faults, asks

cache == <<latest, host, disordered>>
screen == <<shown, tail, history, crossed>>
bounds == <<loads, faults, asks>>
vars == <<clock, cache, up, asked, way, screen, bounds>>

Sources == {"host", "kubelet"}

\* filter: the items that are these, in their order.
Only(items, these) ==
  FoldLeft(LAMBDA kept, item : IF item \in these THEN Append(kept, item) ELSE kept, <<>>, items)

-----------------------------------------------------------------------------
(* The server.                                                             *)

Fresh(at) == at # None /\ clock - at <= STALE

\* standalone: what the kubelet never mentioned is outside the cluster.
Standalone(at) == [at |-> at, host |-> at]

\* LiveCache.current
Current ==
  IF Fresh(latest)
  THEN [at |-> latest, host |-> IF Fresh(host) THEN host ELSE None]
  ELSE IF latest = None /\ Fresh(host) THEN Standalone(host) ELSE None

Recorded(source) == IF source = "host" THEN host ELSE latest

\* What comes late.
Older(at, than) == than # None /\ at < than

Fault(is) ==
  /\ is => faults < MaxFaults
  /\ faults' = IF is THEN faults + 1 ELSE faults
  /\ UNCHANGED loads

\* LiveCache.record: the kubelet may say again what it said.
Record(at) ==
  /\ latest' = at
  /\ disordered' = (disordered \/ Older(at, latest))
  /\ Fault(Older(at, latest))
  /\ UNCHANGED <<clock, host, up, asked, asks, way, screen>>

\* LiveCache.recordHost
RecordHost(at) ==
  /\ host' = at
  /\ disordered' = (disordered \/ Older(at, host))
  /\ Fault(Older(at, host))
  /\ UNCHANGED <<clock, latest, up, asked, asks, way, screen>>

\* frameMetrics: each second, whole or, when it is too large, as a signal.
Push(what) ==
  /\ up /\ Len(way) < MaxWay
  /\ what \in {Current, Signal}
  /\ way' = Append(way, [via |-> "socket", figure |-> what, overtaken |-> FALSE])
  /\ Fault(what = Signal)
  /\ UNCHANGED <<clock, cache, up, asked, asks, screen>>

\* GET /api/metrics/current
Answer ==
  /\ asked > 0 /\ Len(way) < MaxWay
  /\ asked' = asked - 1
  /\ way' = Append(way, [via |-> "rest", figure |-> Current, overtaken |-> FALSE])
  /\ UNCHANGED <<clock, cache, up, screen, bounds>>

-----------------------------------------------------------------------------
(* The client.                                                             *)

\* sampleOf: the agent's reading where there is one.
SampleOf(figure) ==
  IF figure.host # None THEN [source |-> "host", at |-> figure.host]
  ELSE [source |-> "kubelet", at |-> figure.at]

\* useLiveHistory
Tracked(samples, reading) ==
  IF samples # <<>> /\ Last(samples).at = reading.at THEN samples
  ELSE Append(Only(samples, {s \in Range(samples) : s.at > reading.at - WINDOW}), reading)

Shows(figure) ==
  /\ shown' = figure
  /\ tail' = IF figure = None THEN tail ELSE Tracked(tail, SampleOf(figure))
  /\ UNCHANGED history

Crosses(i) == crossed' = (crossed \/ way[i].overtaken)

\* refetch
Ask == asks < MaxAsks /\ asks' = asks + 1 /\ asked' = asked + 1

\* What was built earlier is overtaken by what arrives.
Without(i) ==
  [j \in 1 .. Len(way) - 1 |->
     IF j < i THEN [way[j] EXCEPT !.overtaken = TRUE] ELSE way[j + 1]]

\* onmessage
FrameArrives(i) ==
  /\ way[i].via = "socket"
  /\ \A j \in 1 .. i - 1 : way[j].via # "socket"
  /\ way' = Without(i)
  /\ IF way[i].figure = Signal
     THEN Ask /\ UNCHANGED screen
     ELSE Shows(way[i].figure) /\ Crosses(i) /\ UNCHANGED <<asked, asks>>
  /\ UNCHANGED <<clock, cache, up, loads, faults>>

\* What refetch gets.
AnswerArrives(i) ==
  /\ way[i].via = "rest"
  /\ way' = Without(i)
  /\ Shows(way[i].figure) /\ Crosses(i)
  /\ UNCHANGED <<clock, cache, up, asked, bounds>>

AnswerLost(i) ==
  /\ way[i].via = "rest"
  /\ way' = RemoveAt(way, i)
  /\ Fault(TRUE)
  /\ UNCHANGED <<clock, cache, up, asked, asks, screen>>

\* The socket closes: what it carried is gone, and startPolling asks at once.
Drop ==
  /\ up /\ Ask
  /\ up' = FALSE
  /\ Fault(TRUE)
  /\ way' = Only(way, {w \in Range(way) : w.via # "socket"})
  /\ UNCHANGED <<clock, cache, screen>>

\* schedulePoll
PollAgain ==
  /\ ~up /\ Ask
  /\ UNCHANGED <<clock, cache, up, way, screen, loads, faults>>

Open ==
  /\ ~up
  /\ up' = TRUE
  /\ UNCHANGED <<clock, cache, asked, way, screen, bounds>>

\* The page loads the stored points of its range: none, or up to what was recorded last.
\* An answer that ends earlier is one that was loaded earlier.
HistoryLands(sources) ==
  /\ \A source \in sources : Recorded(source) # None
  /\ history' = [source \in Sources |-> IF source \in sources THEN Recorded(source) ELSE -1]
  /\ loads < MaxLoads /\ loads' = loads + 1
  /\ UNCHANGED <<clock, cache, up, asked, way, shown, tail, crossed, faults, asks>>

Tick ==
  /\ clock < MaxClock
  /\ clock' = clock + 1
  /\ UNCHANGED <<cache, up, asked, way, screen, bounds>>

Init ==
  /\ clock = 0
  /\ latest = None /\ host = None /\ disordered = FALSE
  /\ loads = 0 /\ faults = 0 /\ asks = 0
  /\ up = TRUE /\ asked = 0 /\ way = <<>>
  /\ shown = None /\ tail = <<>> /\ crossed = FALSE
  /\ history = [source \in Sources |-> -1]

Next ==
  \/ \E at \in clock - LATENESS .. clock : at >= 0 /\ (Record(at) \/ RecordHost(at))
  \/ \E what \in {Current, Signal} : Push(what)
  \/ Answer
  \/ \E i \in DOMAIN way : FrameArrives(i) \/ AnswerArrives(i) \/ AnswerLost(i)
  \/ Drop
  \/ PollAgain
  \/ Open
  \/ \E sources \in SUBSET Sources : HistoryLands(sources)
  \/ Tick

Spec == Init /\ [][Next]_vars

-----------------------------------------------------------------------------
(* The charts.                                                             *)

\* The agent wherever it has anything to say.
Source ==
  IF history["host"] > -1 \/ (shown # None /\ shown.host # None) THEN "host" ELSE "kubelet"

Times(samples) == [i \in DOMAIN samples |-> samples[i].at]

\* Mutant: the tail is added whole.
After_Whole(times, from) == times

\* The part of the tail the history does not have.
After(times, from) == Only(times, {at \in Range(times) : at > from})

\* The places of the readings that are EVERY apart.
Spaced(times) ==
  LET far(kept, i) == kept = <<>> \/ times[i] - times[Last(kept)] >= EVERY
  IN FoldLeft(LAMBDA kept, i : IF far(kept, i) THEN Append(kept, i) ELSE kept,
              <<>>, [i \in DOMAIN times |-> i])

\* And the newest.
Plotted(times) ==
  LET spaced == Spaced(times)
  IN IF times = <<>> \/ Last(spaced) = Len(times) THEN spaced
     ELSE Append(spaced, Len(times))

Thinned(times) ==
  LET plotted == Plotted(times) IN [j \in DOMAIN plotted |-> times[plotted[j]]]

\* The readings of the page's source that the socket delivered.
Delivered == Times(Only(tail, {s \in Range(tail) : s.source = Source}))

\* withLiveTail, from the newest point of the history.
Chart == <<history[Source]>> \o Thinned(After(Delivered, history[Source]))

-----------------------------------------------------------------------------
(* Properties.                                                             *)

\* Each point is later than the one before, but for the newest, which may be as late.
Forward(times) ==
  \A i, j \in DOMAIN times : i < j =>
    IF j < Len(times) THEN times[i] < times[j] ELSE times[i] <= times[j]

\* What arrived last was measured before something that arrived earlier.
Behind ==
  LET times == Delivered
  IN times # <<>> /\ \E i \in DOMAIN times : times[i] > Last(times)

\* A chart goes back in time only while the last reading that came is an older one, and
\* only its newest point may have the time of the point before; an older one comes last
\* only if two answers, or an answer and a frame, crossed, or if the server itself was
\* told out of order; the chart ends, unless the stored points go further or the reading
\* has the time of the one before, with the reading the cards show: "the right-hand edge
\* of every chart is the same number as the card above it".  The cards may show a reading
\* of the other source, while the page still draws what the agent said before.
ChartsMoveForward ==
  LET chart == Chart
      behind == Behind
      reading == SampleOf(shown) IN
  /\ Forward(chart) \/ behind
  /\ behind => disordered \/ crossed
  /\ shown # None /\ ~behind =>
       \/ reading.source # Source
       \/ Last(chart) = Max({reading.at, history[Source]})
       \/ tail # <<>> /\ Last(tail) # reading /\ Last(tail).at = reading.at
=============================================================================
