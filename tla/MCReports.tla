----------------------------- MODULE MCReports ------------------------------
(***************************************************************************)
(* What comes in from machines and from the cluster: the figures of the    *)
(* hosts (HostIngest), what an agent reads of its logs (SessionLogs), what *)
(* the server reads of the cluster's events and of Traefik's log (Sweeps); *)
(* and what is answered from it: the series of the charts (Series) and the *)
(* file of a facet (Export), put together for TLC and for the theorems of  *)
(* ReportsProofs.                                                          *)
(*                                                                         *)
(* A behaviour is one of one of them, `part`.  Hosts report nothing while  *)
(* another part is at work, and the variables of the other parts stay 0;   *)
(* `offset`, `rotated`, `clock` and `faults` are those of the part.        *)
(***************************************************************************)
EXTENDS HostIngest, TLC

CONSTANTS
  \* SessionLogs.
  Attempts, Noise, People, Execs, OwnerOf, Unset, SURPLUS,
  \* Sweeps.
  Polls, Kinds, SECOND, INTERVAL, TAIL, CHUNK, MaxItems, MaxClock,
  \* Series.
  Machines, Members, Bytes, MAX_SERIES_POINTS, Spans, SCALE, Null, MaxIntervals,
  \* Export.
  Rows, Stores, MAX_PAGE, CAP, MaxChanges,
  \* The faults of each.
  MaxFaults

VARIABLES
  part,
  text, sessions, alive, started, written, snap, seen, readable, byLog, byAudit, bySample,
  twice, again, switched, passed, excused, blurred, partial,
  kind, happened, lastStart, cursor, polls, stored, starts, early, dropped, together, restarted,
  agents, moved, restarts, counter, reading, persisted, samples, hardware,
  store, file, format, response, gone, closed, truncated, stayed, arrived, replaced, changes,
  clock, offset, rotated, faults

L == INSTANCE SessionLogs
S == INSTANCE Sweeps WITH overlapped <- together
C == INSTANCE Series WITH Nodes <- Machines, MaxClock <- MaxIntervals
X == INSTANCE Export WITH sent <- gone

ASSUME SessionLogsAssumption == L!SessionLogsAssumption
ASSUME SweepsAssumption == S!SweepsAssumption
ASSUME SeriesAssumption == C!SeriesAssumption
ASSUME ExportAssumption == X!ExportAssumption

\* The variables of each part but for those that are shared.
ofLogs == <<text, sessions, alive, started, written, snap, seen, readable, byLog, byAudit,
            bySample, twice, again, switched, passed, excused, blurred, partial>>
ofSweeps == <<kind, happened, lastStart, cursor, polls, stored, starts, early, dropped,
              together, restarted>>
ofSeries == <<agents, moved, restarts, counter, reading, persisted, samples, hardware>>
ofFile == <<store, file, format, response, gone, closed, truncated, stayed, arrived, replaced,
            changes>>
shared == <<clock, offset, rotated, faults>>

NoLogs ==
  /\ text = 0 /\ sessions = 0 /\ alive = 0 /\ started = 0 /\ written = 0 /\ snap = 0
  /\ seen = 0 /\ readable = 0 /\ byLog = 0 /\ byAudit = 0 /\ bySample = 0 /\ twice = 0
  /\ again = 0 /\ switched = 0 /\ passed = 0 /\ excused = 0 /\ blurred = 0 /\ partial = 0
NoSweeps ==
  /\ kind = 0 /\ happened = 0 /\ lastStart = 0 /\ cursor = 0 /\ polls = 0 /\ stored = 0
  /\ starts = 0 /\ early = 0 /\ dropped = 0 /\ together = 0 /\ restarted = 0
NoSeries ==
  /\ agents = 0 /\ moved = 0 /\ restarts = 0 /\ counter = 0 /\ reading = 0 /\ persisted = 0
  /\ samples = 0 /\ hardware = 0
NoFile ==
  /\ store = 0 /\ file = 0 /\ format = 0 /\ response = 0 /\ gone = 0 /\ closed = 0
  /\ truncated = 0 /\ stayed = 0 /\ arrived = 0 /\ replaced = 0 /\ changes = 0

ReportsInit ==
  /\ Init
  /\ \/ /\ part = "hosts" /\ NoLogs /\ NoSweeps /\ NoSeries /\ NoFile
        /\ clock = 0 /\ offset = 0 /\ rotated = 0 /\ faults = 0
     \/ /\ part = "logs" /\ L!Init /\ NoSweeps /\ NoSeries /\ NoFile
        /\ clock = 0
     \/ /\ part = "sweeps" /\ S!Init /\ NoLogs /\ NoSeries /\ NoFile
        /\ offset = 0
     \/ /\ part = "series" /\ C!Init /\ NoLogs /\ NoSweeps /\ NoFile
        /\ offset = 0 /\ rotated = 0
     \/ /\ part = "file" /\ X!Init /\ NoLogs /\ NoSweeps /\ NoSeries
        /\ clock = 0 /\ rotated = 0

ReportsNext ==
  \/ /\ part = "hosts" /\ Next
     /\ UNCHANGED <<part, ofLogs, ofSweeps, ofSeries, ofFile, shared>>
  \/ /\ part = "logs" /\ L!Next
     /\ UNCHANGED <<part, vars, ofSweeps, ofSeries, ofFile, clock>>
  \/ /\ part = "sweeps" /\ S!Next
     /\ UNCHANGED <<part, vars, ofLogs, ofSeries, ofFile, offset>>
  \/ /\ part = "series" /\ C!Next
     /\ UNCHANGED <<part, vars, ofLogs, ofSweeps, ofFile, offset, rotated>>
  \/ /\ part = "file" /\ X!Next
     /\ UNCHANGED <<part, vars, ofLogs, ofSweeps, ofSeries, clock, rotated>>

Reports == ReportsInit /\ [][ReportsNext]_<<part, vars, ofLogs, ofSweeps, ofSeries, ofFile, shared>>

\* SessionLogs: nothing is news twice, and what was complete in a log when it was read
\* is reported, but for known reasons.  Sweeps: nothing is stored twice and nothing the
\* cursor has gone past is lost, but for known reasons.  Export: a file that looks whole has
\* every row that stayed unless it is full or a CSV cut off by a query that failed, and what
\* a file lacks is its end.
ReadOnceAndWhole ==
  /\ part = "logs" => L!NewsOnce /\ L!MissedIsExplained
  /\ part = "sweeps" => S!TwiceIsExplained /\ S!SkippedIsExplained
  /\ part = "file" => X!FilesAreWhole

\* Export: a full file that lacks a row says so.
ShortFilesSaySo == part = "file" => X!ShortFilesSaySo

\* Series: no rate exceeds what the counters moved.
RatesAreHonest == part = "series" => C!RatesAreHonest

-----------------------------------------------------------------------------
(* The instance: who owns the executions, and three tables.                *)

MCOwnerOf == [e \in Execs |-> CHOOSE p \in People : TRUE]
MCStores == {<<1, 2, 3, 4>>, <<1, 2, 3>>, <<1>>}
Symmetry == Permutations(Requests) \cup Permutations(Noise)
=============================================================================
