---------------------------- MODULE MCBackground ----------------------------
(***************************************************************************)
(* What the server does on its own: the queue of notifications             *)
(* (Dispatcher), the polls that replace the rows of the cluster            *)
(* (Snapshots), the search for integrations (Discovery) and the key set    *)
(* that agents are known by (Credentials), put together for TLC and for    *)
(* the theorems of BackgroundProofs.                                       *)
(*                                                                         *)
(* A behaviour is one of one of them, `part`.  The queue stays empty while *)
(* another part is at work, and the variables of the other parts stay 0;   *)
(* `faults` is that of the part.                                           *)
(***************************************************************************)
EXTENDS Dispatcher

CONSTANTS
  \* Snapshots.
  Polls, Dialects, MaxWorld,
  \* Discovery.
  Sweeps, MaxChanges,
  \* Credentials.
  Calls, REFRESH_INTERVAL, MaxRotations,
  \* The faults of the last two.
  MaxLapses

VARIABLES
  part,
  dialect, world, polls, table, crossed, wrote,
  cluster, reporting, latest, up, rows, sweeps, chosen, overlapped, missed, silenced, changes,
  newest, known, keys, age, fetch, calls, wronged

P == INSTANCE Snapshots
D == INSTANCE Discovery WITH MaxFaults <- MaxLapses
C == INSTANCE Credentials WITH MaxFaults <- MaxLapses

ASSUME SnapshotsAssumption == P!SnapshotsAssumption
ASSUME CredentialsAssumption == C!CredentialsAssumption

\* The variables of each part but for the faults.
ofQueue == <<phase, records, bindings, floor, queue, jobs, draining, pc, batch,
             bound, current, edits>>
ofPolls == <<dialect, world, polls, table, crossed, wrote>>
ofDiscovery == <<cluster, reporting, latest, up, rows, sweeps, chosen, overlapped, missed,
                 silenced, changes>>
ofKeys == <<newest, known, keys, age, fetch, calls, wronged>>
allVars == <<part, ofQueue, ofPolls, ofDiscovery, ofKeys, faults>>

NoPolls ==
  dialect = 0 /\ world = 0 /\ polls = 0 /\ table = 0 /\ crossed = 0 /\ wrote = 0
NoDiscovery ==
  /\ cluster = 0 /\ reporting = 0 /\ latest = 0 /\ up = 0 /\ rows = 0 /\ sweeps = 0
  /\ chosen = 0 /\ overlapped = 0 /\ missed = 0 /\ silenced = 0 /\ changes = 0
NoKeySet ==
  /\ newest = 0 /\ known = 0 /\ keys = 0 /\ age = 0 /\ fetch = 0 /\ calls = 0 /\ wronged = 0

\* The state of the queue where another part is at work.
Empty == Init /\ bindings = {} /\ floor = "warning"

BackgroundInit ==
  \/ part = "queue" /\ Init /\ NoPolls /\ NoDiscovery /\ NoKeySet
  \/ part = "polls" /\ Empty /\ P!Init /\ NoDiscovery /\ NoKeySet
  \/ part = "discovery" /\ Empty /\ D!Init /\ NoPolls /\ NoKeySet
  \/ part = "keys" /\ Empty /\ C!Init /\ NoPolls /\ NoDiscovery

BackgroundNext ==
  \/ part = "queue" /\ Next /\ UNCHANGED <<part, ofPolls, ofDiscovery, ofKeys>>
  \/ part = "polls" /\ P!Next /\ UNCHANGED <<part, ofQueue, ofDiscovery, ofKeys>>
  \/ part = "discovery" /\ D!Next /\ UNCHANGED <<part, ofQueue, ofPolls, ofKeys>>
  \/ part = "keys" /\ C!Next /\ UNCHANGED <<part, ofQueue, ofPolls, ofDiscovery>>

\* The fairness of each in its part.
Fairness ==
  /\ WF_vars(part = "queue" /\ \E d \in Drains : DrainStep(d))
  /\ WF_vars(part = "queue" /\ \E s \in DOMAIN queue : BackoffEnds(s))
  /\ \A p \in Polls : WF_ofPolls(part = "polls" /\ P!Poll(p))
  /\ WF_ofDiscovery(part = "discovery" /\ D!TimerFires)
  /\ \A s \in Sweeps : WF_ofDiscovery(part = "discovery" /\ D!Goes(s))
  /\ \A call \in Calls :
       /\ SF_ofKeys(part = "keys" /\ C!Report(call, newest))
       /\ WF_ofKeys(part = "keys" /\ C!Goes(call))
  /\ WF_ofKeys(part = "keys" /\ (C!Reads \/ C!Lands))
  /\ WF_ofKeys(part = "keys" /\ C!Tick)

Background == BackgroundInit /\ [][BackgroundNext]_allVars /\ Fairness

-----------------------------------------------------------------------------
\* Snapshots: a table holds one snapshot, unless two transactions crossed.  Discovery: an
\* override stays, and the first report brings the agent's screens.  Credentials: a
\* rotated key is unknown for an interval at most.
ClusterIsKnown ==
  /\ part = "polls" => P!OneSnapshotUnlessCrossed
  /\ part = "discovery" => D!OverrideStays /\ D!FirstReportShows
  /\ part = "keys" => C!UnknownForAnIntervalAtMost

\* Snapshots and Discovery: once all is at rest the rows are those of the cluster, and
\* the screens offered those of what is there.
SettlesOnTruth ==
  /\ <>[](part = "polls" => P!Current)
  /\ \A m \in D!Modules : <>[](part = "discovery" => D!OfferedAsIs(m))

\* Credentials: every rotation is followed.
RotationsAreFollowed == <>[](part = "keys" => newest \in keys)
=============================================================================
