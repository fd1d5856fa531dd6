------------------------------- MODULE Sweeps -------------------------------
(***************************************************************************)
(* The two polls that resume from a cursor: the events of the cluster      *)
(* (collect/core.integration.ts, kube/client.ts) and the access log of     *)
(* Traefik (integrations/traefik/index.ts), run by collect/scheduler.ts    *)
(* and stored by plugins/ingest.ts.  A behaviour runs one of them: they    *)
(* share nothing.                                                          *)
(*                                                                         *)
(* Items are events, or lines of one replica's log, numbered as they       *)
(* happen.  The cluster stamps most events with the second they fall in    *)
(* (lastTimestamp) and some exactly (eventTime); a second is SECOND units  *)
(* of the server's clock.  setInterval does not wait for the last poll,    *)
(* so several may be under way.                                            *)
(***************************************************************************)
EXTENDS Naturals, Sequences, FiniteSetsExt

CONSTANTS
  Polls,     \* polls under way at once
  Kinds,     \* the polls to look at: events, access
  SECOND,    \* units of the clock in a second
  INTERVAL,  \* EVENT_INTERVAL_MS, ACCESS_INTERVAL_MS
  TAIL,      \* ACCESS_TAIL_LINES
  CHUNK,     \* rows of one INSERT
  MaxItems,  \* bound: items
  MaxClock,  \* bound: the clock
  MaxFaults  \* bound: failures, rotations, restarts

SweepsAssumption ==
  /\ Kinds \subseteq {"events", "access"}
  /\ SECOND \in Nat \ {0} /\ INTERVAL \in Nat /\ TAIL \in Nat /\ CHUNK \in Nat
  /\ MaxItems \in Nat

VARIABLES
  kind,        \* which poll this behaviour runs
  clock,       \* Date.now()
  happened,    \* item -> when it happened, and its stamp
  rotated,     \* lines that are no longer in the current file of the log
  lastStart,   \* when the timer last fired, 0 before it has
  cursor,      \* lastEventSweep, or the entry of lastLineByPod; 0: none yet
  polls,       \* poll -> what it is doing
  stored,      \* history: item -> rows of it
  starts,      \* history: when the sweeps that have moved the cursor had started
  early,       \* history: events read by a sweep that had started before their stamp
  dropped,     \* history: items lost with a failed write, a rotation, a burst or
               \* the process, or there before its first poll
  overlapped,  \* history: two polls were under way at once
  restarted,   \* history: the process was replaced
  faults       \* history: number of faults

world == <<clock, happened, rotated>>
ghosts == <<starts, early, dropped, overlapped, restarted>>
vars == <<kind, world, lastStart, cursor, polls, stored, ghosts, faults>>

Resting == [stage |-> "resting", first |-> FALSE, now |-> 0, since |-> 0, seen |-> 0, rows |-> {}]

-----------------------------------------------------------------------------
Items == 1 .. Len(happened)

\* lastTimestamp of an event or its eventTime, and what toEpoch makes of it.
Stamp(i) == happened[i].stamp

\* The stamps an event of this moment may bear.
Stamps(at) ==
  {stamp \in 0 .. at : stamp = at \/ (stamp % SECOND = 0 /\ at < stamp + SECOND)}

\* What is read at once is a set of items, in the order of their numbers.
\* listEvents(since).
Newer(since) == {i \in Items : Stamp(i) > since}

\* podLogTails: the last lines of the current file.
TailOf == {i \in Items : i > rotated /\ i + TAIL > Len(happened)}

\* Mutant: nothing is taken when the last line read has fallen out.
Unread_Nothing(lines, last) == IF last \in lines THEN {i \in lines : i > last} ELSE {}

\* unreadLines(): nothing at first, what follows the last line read, or all if
\* that has fallen out.
Unread(lines, last) ==
  IF last = 0 THEN {}
  ELSE IF last \in lines THEN {i \in lines : i > last} ELSE lines

\* Read, and yet to be stored.
InFlight(i) == \E p \in Polls : polls[p].stage = "storing" /\ i \in polls[p].rows

-----------------------------------------------------------------------------
(* One poll.                                                               *)

\* A tick: the first at once, then every INTERVAL, whether or not the last poll
\* is over.
Start(p) ==
  /\ polls[p].stage = "resting"
  /\ lastStart = 0 \/ clock >= lastStart + INTERVAL
  /\ lastStart' = clock
  /\ polls' = [polls EXCEPT ![p] =
       [Resting EXCEPT !.stage = "asking", !.first = (cursor = 0), !.now = clock,
                       !.since = IF cursor = 0 THEN clock - INTERVAL ELSE cursor]]
  /\ overlapped' = (overlapped \/ \E q \in Polls : polls[q].stage # "resting")
  /\ UNCHANGED <<kind, world, cursor, stored, starts, early, dropped, restarted, faults>>

\* The API server reads its list, or the kubelet its log.
Read(p) ==
  /\ polls[p].stage = "asking"
  /\ polls' = [polls EXCEPT ![p] =
       [@ EXCEPT !.stage = "answered", !.seen = Len(happened),
                 !.rows = IF kind = "events" THEN Newer(polls[p].since) ELSE TailOf]]
  /\ UNCHANGED <<kind, world, lastStart, cursor, stored, ghosts, faults>>

Storing(p, rows) ==
  polls' = [polls EXCEPT ![p] = IF rows = {} THEN Resting
                                ELSE [@ EXCEPT !.stage = "storing", !.rows = rows]]

\* The answer of listEvents: lastEventSweep moves to the start of this sweep,
\* then the rows are stored.
SweepEvents(p) ==
  /\ kind = "events" /\ polls[p].stage = "answered"
  /\ cursor' = polls[p].now
  /\ Storing(p, polls[p].rows)
  /\ starts' = starts \cup {polls[p].now}
  /\ early' = early \cup {i \in polls[p].rows : Stamp(i) > polls[p].now}
  /\ dropped' = IF polls[p].first THEN dropped \cup {i \in Items : Stamp(i) <= polls[p].since}
                                  ELSE dropped
  /\ UNCHANGED <<kind, world, lastStart, stored, overlapped, restarted, faults>>

\* The answer of podLogTails: unread lines, and the last line is remembered.
ReadLines(p) ==
  /\ kind = "access" /\ polls[p].stage = "answered"
  /\ LET lines == polls[p].rows
         news == Unread(lines, cursor) IN
     /\ cursor' = IF lines = {} THEN cursor ELSE Max(lines)
     /\ Storing(p, news)
     /\ dropped' = dropped \cup
          (IF cursor = 0 THEN 1 .. polls[p].seen ELSE 1 .. polls[p].seen \ lines)
  /\ UNCHANGED <<kind, world, lastStart, stored, starts, early, overlapped, restarted, faults>>

\* The first rows of what is left, CHUNK of them if there are as many.
Chunks(rows) ==
  {chunk \in SUBSET rows :
     /\ Cardinality(chunk) = CHUNK \/ (Cardinality(chunk) < CHUNK /\ chunk = rows)
     /\ \A i \in chunk, j \in rows \ chunk : i < j}

\* One INSERT of #insert, which is in no transaction.
StoreChunk(p) ==
  /\ polls[p].stage = "storing"
  /\ \E chunk \in Chunks(polls[p].rows) :
       /\ stored' = [i \in 1 .. MaxItems |-> IF i \in chunk THEN stored[i] + 1 ELSE stored[i]]
       /\ Storing(p, polls[p].rows \ chunk)
  /\ UNCHANGED <<kind, world, lastStart, cursor, ghosts, faults>>

\* A request or a write that throws ends the poll; onError logs it.
Fails(p) ==
  /\ polls[p].stage # "resting"
  /\ faults < MaxFaults
  /\ faults' = faults + 1
  /\ polls' = [polls EXCEPT ![p] = Resting]
  /\ dropped' = IF polls[p].stage = "storing" THEN dropped \cup polls[p].rows ELSE dropped
  /\ UNCHANGED <<kind, world, lastStart, cursor, stored, starts, early, overlapped, restarted>>

-----------------------------------------------------------------------------
(* The world.                                                              *)

Happen ==
  /\ Len(happened) < MaxItems
  /\ \E stamp \in Stamps(clock) :
       happened' = Append(happened, [at |-> clock, stamp |-> stamp])
  /\ UNCHANGED <<kind, clock, rotated, lastStart, cursor, polls, stored, ghosts, faults>>

\* The kubelet starts a new file: what the old one held cannot be read.
Rotate ==
  /\ kind = "access"
  /\ rotated < Len(happened)
  /\ faults < MaxFaults
  /\ faults' = faults + 1
  /\ rotated' = Len(happened)
  /\ UNCHANGED <<kind, clock, happened, lastStart, cursor, polls, stored, ghosts>>

\* The process is replaced: the cursor and what is under way are gone.
Restart ==
  /\ faults < MaxFaults
  /\ lastStart # 0
  /\ faults' = faults + 1
  /\ lastStart' = 0
  /\ cursor' = 0
  /\ polls' = [p \in Polls |-> Resting]
  /\ dropped' = dropped \cup {i \in Items : InFlight(i)}
  /\ restarted' = TRUE
  /\ UNCHANGED <<kind, world, stored, starts, early, overlapped>>

Tick ==
  /\ clock < MaxClock
  /\ clock' = clock + 1
  /\ UNCHANGED <<kind, happened, rotated, lastStart, cursor, polls, stored, ghosts, faults>>

Init ==
  /\ kind \in Kinds
  /\ clock = INTERVAL + SECOND
  /\ happened = <<>>
  /\ rotated = 0
  /\ lastStart = 0
  /\ cursor = 0
  /\ polls = [p \in Polls |-> Resting]
  /\ stored = [i \in 1 .. MaxItems |-> 0]
  /\ starts = {}
  /\ early = {}
  /\ dropped = {}
  /\ overlapped = FALSE
  /\ restarted = FALSE
  /\ faults = 0

Next ==
  \/ \E p \in Polls :
       \/ Start(p)
       \/ Read(p)
       \/ SweepEvents(p)
       \/ ReadLines(p)
       \/ StoreChunk(p)
       \/ Fails(p)
  \/ Happen
  \/ Rotate
  \/ Restart
  \/ Tick

Spec == Init /\ [][Next]_vars

-----------------------------------------------------------------------------
(* Properties.                                                             *)

\* An item is stored twice only for a known reason: polls overlapped, or the
\* process was replaced, or it is an event stamped after the sweep that read it
\* had started, which the next sweep reads again.
TwiceIsExplained ==
  \A i \in Items : stored[i] > 1 => i \in early \/ overlapped \/ restarted

\* Nothing the cursor has gone past is lost except for a known reason: the write
\* failed, the process was replaced, it was there before the first poll, its line
\* had left the file or the tail, or it is an event of a second in which an
\* earlier sweep had started (comment of unreadLines: "skipping them is not").
SkippedIsExplained ==
  \A i \in Items :
    LET gone == IF kind = "events" THEN cursor # 0 /\ Stamp(i) <= cursor ELSE i <= cursor IN
    gone /\ stored[i] = 0 /\ ~InFlight(i) =>
      \/ i \in dropped
      \/ kind = "events" /\ \E s \in starts : Stamp(i) <= s /\ s <= happened[i].at
=============================================================================
