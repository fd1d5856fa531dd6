--------------------------- MODULE BackgroundProofs ---------------------------
(***************************************************************************)
(* Theorems about what the server does on its own, for every limit and any *)
(* failures.  The polls of the cluster (Snapshots), the search for         *)
(* integrations (Discovery) and the key set (Credentials), any of them at  *)
(* once: what MCBackground checks.  The queue of notifications             *)
(* (Dispatcher), for any alerts, channels, drains and enqueues: its        *)
(* invariants, and that it implements Outbox.                              *)
(***************************************************************************)
EXTENDS MCBackground, FiniteSetTheorems, SequenceTheorems, TLAPS

-----------------------------------------------------------------------------
(* The polls: the inductive invariant.                                     *)

PollStages == {"resting", "asking", "answered", "begun", "deleting", "deleted"}
Snapshot == [poll : Polls, version : Nat]

PollsTypes ==
  /\ dialect \in Dialects
  /\ world \in Nat
  /\ polls \in [Polls -> [stage : PollStages, version : Nat, removing : SUBSET Snapshot]]
  /\ table \in SUBSET Snapshot
  /\ crossed \in BOOLEAN /\ wrote \in BOOLEAN

\* SQLite hands its connection out to one at a time.
Exclusive ==
  /\ crossed => dialect # "sqlite"
  /\ ~crossed => \A p, q \in Polls : P!InTransaction(p) /\ P!InTransaction(q) => p = q

\* The only transaction removes all there is.
Thorough ==
  ~crossed =>
    \A p \in Polls : polls[p].stage \in {"deleting", "deleted"} => polls[p].removing = table

\* The table as its last writer left it.
Whole ==
  ~crossed => IF wrote THEN \E s \in Snapshot : table = {s} ELSE table = {}

PollsInv == PollsTypes /\ Exclusive /\ Thorough /\ Whole

-----------------------------------------------------------------------------
\* Nothing is stored or under way when the server starts for the first time.
LEMMA PollsStart == P!Init => PollsInv
<1> SUFFICES ASSUME P!Init PROVE PollsInv
  OBVIOUS
<1>1. PollsTypes
  BY DEF P!Init, PollsTypes, P!Resting, PollStages
<1>2. \A p \in Polls : polls[p].stage = "resting"
  BY DEF P!Init, P!Resting
<1>3. Exclusive /\ Thorough /\ Whole
  BY <1>2 DEF P!Init, Exclusive, Thorough, Whole, P!InTransaction
<1> QED BY <1>1, <1>3 DEF PollsInv

\* Nothing changes.
LEMMA PollsStutter == PollsInv /\ UNCHANGED P!vars => PollsInv'
  BY DEF PollsInv, PollsTypes, Exclusive, Thorough, Whole, P!InTransaction, P!vars

\* A step of a poll outside of a transaction: Start, List.
LEMMA PollAsks == ASSUME PollsInv, NEW p \in Polls, P!Start(p) \/ P!List(p) PROVE PollsInv'
<1> USE DEF P!InTransaction, PollStages
<1>1. /\ UNCHANGED <<dialect, world, table, crossed, wrote>>
      /\ \E stage \in {"asking", "answered"}, version \in Nat :
           polls' = [polls EXCEPT ![p] = [@ EXCEPT !.stage = stage, !.version = version]]
  <2>1. CASE P!Start(p)
    <3>1. polls' = [polls EXCEPT ![p] = [@ EXCEPT !.stage = "asking",
                                                  !.version = polls[p].version]]
      BY <2>1 DEF P!Start, PollsInv, PollsTypes
    <3> QED BY <2>1, <3>1 DEF P!Start, PollsInv, PollsTypes
  <2>2. CASE P!List(p)
    BY <2>2 DEF P!List, PollsInv, PollsTypes
  <2> QED BY <2>1, <2>2
<1>2. PICK stage \in {"asking", "answered"}, version \in Nat :
        polls' = [polls EXCEPT ![p] = [@ EXCEPT !.stage = stage, !.version = version]]
  BY <1>1
<1>3. PollsTypes'
  BY <1>1, <1>2 DEF PollsInv, PollsTypes
<1>4. \A q \in Polls : polls'[q].stage \in {"begun", "deleting", "deleted"} =>
        polls'[q] = polls[q]
  BY <1>2 DEF PollsInv, PollsTypes
<1>5. Exclusive' /\ Thorough' /\ Whole'
  BY <1>1, <1>4 DEF PollsInv, Exclusive, Thorough, Whole
<1> QED BY <1>3, <1>5 DEF PollsInv

\* A transaction begins: alone, or the history says that it crossed another.
LEMMA PollBegins == ASSUME PollsInv, NEW p \in Polls, P!Begin(p) PROVE PollsInv'
<1> USE DEF P!InTransaction, PollStages
<1>1. PollsTypes'
  BY DEF P!Begin, PollsInv, PollsTypes
<1>2. \A q \in Polls : q # p => polls'[q] = polls[q]
  BY DEF P!Begin, PollsInv, PollsTypes
<1>3. polls'[p].stage = "begun"
  BY DEF P!Begin, PollsInv, PollsTypes
<1>4. Exclusive'
  BY <1>2, <1>3 DEF P!Begin, PollsInv, PollsTypes, Exclusive
<1>5. Thorough' /\ Whole'
  BY <1>2, <1>3 DEF P!Begin, PollsInv, PollsTypes, Thorough, Whole
<1> QED BY <1>1, <1>4, <1>5 DEF PollsInv

\* What a transaction deletes is all there is, if it is the only one.
LEMMA PollDeletes == ASSUME PollsInv, NEW p \in Polls, P!Delete(p) \/ P!Deleted(p) PROVE PollsInv'
<1> USE DEF P!InTransaction, PollStages
<1>1. UNCHANGED <<dialect, world, table, crossed, wrote>>
  BY DEF P!Delete, P!Deleted
<1>2. PollsTypes'
  BY DEF P!Delete, P!Deleted, PollsInv, PollsTypes
<1>3. \A q \in Polls : q # p => polls'[q] = polls[q]
  BY DEF P!Delete, P!Deleted, PollsInv, PollsTypes
<1>4. /\ polls[p].stage \in {"begun", "deleting"}
      /\ polls'[p].stage \in {"deleting", "deleted"}
      /\ ~crossed => polls'[p].removing = table
  <2>1. CASE P!Delete(p)
    BY <2>1 DEF P!Delete, PollsInv, PollsTypes
  <2>2. CASE P!Deleted(p)
    <3>1. polls[p].stage = "deleting" /\ polls'[p].stage = "deleted"
      BY <2>2 DEF P!Deleted, PollsInv, PollsTypes
    <3>2. polls'[p].removing = polls[p].removing
      BY <2>2 DEF P!Deleted, PollsInv, PollsTypes
    <3> QED BY <3>1, <3>2 DEF PollsInv, Thorough
  <2> QED BY <2>1, <2>2
<1>5. Exclusive' /\ Thorough' /\ Whole'
  BY <1>1, <1>3, <1>4 DEF PollsInv, Exclusive, Thorough, Whole
<1> QED BY <1>2, <1>5 DEF PollsInv

\* What is committed takes the place of all there was.
LEMMA PollCommits == ASSUME PollsInv, NEW p \in Polls, P!Commit(p) PROVE PollsInv'
<1> USE DEF P!InTransaction, PollStages, Snapshot
<1>1. PollsTypes'
  BY DEF P!Commit, PollsInv, PollsTypes, P!Resting
<1>2. /\ \A q \in Polls : q # p => polls'[q] = polls[q]
      /\ polls'[p].stage = "resting" /\ polls[p].stage = "deleted"
      /\ UNCHANGED <<dialect, crossed>> /\ wrote'
  BY DEF P!Commit, PollsInv, PollsTypes, P!Resting
<1>3. Exclusive'
  BY <1>2 DEF PollsInv, Exclusive
<1>4. Thorough'
  BY <1>2 DEF PollsInv, Exclusive, Thorough
<1>5. Whole'
  <2>1. ~crossed => table' = {[poll |-> p, version |-> polls[p].version]}
    BY <1>2 DEF P!Commit, PollsInv, Thorough
  <2>2. [poll |-> p, version |-> polls[p].version] \in Snapshot
    BY DEF PollsInv, PollsTypes
  <2> QED BY <1>2, <2>1, <2>2 DEF Whole
<1> QED BY <1>1, <1>3, <1>4, <1>5 DEF PollsInv

\* A poll that fails, or all of them, leave the table as it was.
LEMMA PollsGiveUp == ASSUME PollsInv, P!Restart \/ \E p \in Polls : P!Fails(p) PROVE PollsInv'
<1> USE DEF P!InTransaction, PollStages
<1>1. UNCHANGED <<dialect, world, table, crossed, wrote>>
  BY DEF P!Restart, P!Fails
<1>2. PollsTypes'
  BY DEF P!Restart, P!Fails, PollsInv, PollsTypes, P!Resting
<1>3. \A q \in Polls : polls'[q].stage \in {"begun", "deleting", "deleted"} =>
        polls'[q] = polls[q]
  BY DEF P!Restart, P!Fails, PollsInv, PollsTypes, P!Resting
<1>4. Exclusive' /\ Thorough' /\ Whole'
  BY <1>1, <1>3 DEF PollsInv, Exclusive, Thorough, Whole
<1> QED BY <1>2, <1>4 DEF PollsInv

\* The cluster changes.
LEMMA ClusterChanges == ASSUME PollsInv, P!Change PROVE PollsInv'
  BY DEF P!Change, PollsInv, PollsTypes, Exclusive, Thorough, Whole, P!InTransaction

\* Every step keeps the invariant.
LEMMA PollsStep == PollsInv /\ [P!Next]_<<ofPolls, faults>> => PollsInv'
<1> SUFFICES ASSUME PollsInv, [P!Next]_<<ofPolls, faults>> PROVE PollsInv'
  OBVIOUS
<1>1. CASE \E p \in Polls : P!Poll(p)
  BY <1>1, PollAsks, PollBegins, PollDeletes, PollCommits DEF P!Poll
<1>2. CASE P!Restart \/ \E p \in Polls : P!Fails(p)
  BY <1>2, PollsGiveUp
<1>3. CASE P!Change
  BY <1>3, ClusterChanges
<1>4. CASE UNCHANGED <<ofPolls, faults>>
  BY <1>4, PollsStutter DEF ofPolls, P!vars
<1> QED BY <1>1, <1>2, <1>3, <1>4 DEF P!Next

\* The module of finite sets is one, whichever module extends it.
LEMMA PollsCounting == \A S : P!Cardinality(S) = Cardinality(S)
  BY DEF P!Cardinality, Cardinality

\* What the invariant says of the table.
LEMMA PollsHold ==
  ASSUME P!SnapshotsAssumption
  PROVE PollsInv => P!OneSnapshotUnlessCrossed
<1> SUFFICES ASSUME PollsInv PROVE P!OneSnapshotUnlessCrossed
  OBVIOUS
<1>1. crossed => dialect = "postgres"
  BY DEF PollsInv, PollsTypes, Exclusive, P!SnapshotsAssumption
<1>2. wrote /\ ~crossed => \E s \in Snapshot : table = {s}
  BY DEF PollsInv, Whole
<1> QED BY <1>1, <1>2, PollsCounting, FS_Singleton DEF P!OneSnapshotUnlessCrossed

-----------------------------------------------------------------------------
(* The integrations: the inductive invariant.                              *)

Findings == {D!Present, D!Degraded, D!Absent, D!Unknown}

DiscoveryTypes ==
  /\ cluster \in {D!Present, D!Degraded, D!Absent}
  /\ rows \in [D!Modules -> [found : Findings, override : D!Overrides, stored : BOOLEAN]]
  /\ sweeps \in [Sweeps ->
       [stage : {"idle", "probing", "probed"}, next : {1, 2}, found : Findings]]
  /\ chosen \in [D!Modules -> D!Overrides]
  /\ reporting \in BOOLEAN /\ latest \in BOOLEAN /\ up \in BOOLEAN
  /\ overlapped \in BOOLEAN /\ missed \in BOOLEAN /\ silenced \in BOOLEAN

\* What a sweep is past has a row, and so has every module once the server listens, so
\* that no override is lost.
Listed ==
  /\ \A s \in Sweeps : sweeps[s].next = 2 => rows["traefik"].stored
  /\ up => \A m \in D!Modules : rows[m].stored

\* As long as an agent reports and sweeps go one after another, they find it.
Noticed ==
  /\ latest => up
  /\ latest /\ ~overlapped /\ ~missed /\ ~silenced =>
       /\ reporting
       /\ \A s \in Sweeps :
            sweeps[s].stage = "probed" /\ sweeps[s].next = 2 => sweeps[s].found = D!Present
       /\ (\A s \in Sweeps : sweeps[s].stage = "idle") => rows["host-agent"].found = D!Present

DiscoveryInv == DiscoveryTypes /\ Listed /\ D!OverrideStays /\ Noticed

-----------------------------------------------------------------------------
(* The integrations: the steps.                                            *)

\* The two modules of the registry, in its order.
LEMMA TwoModules ==
  /\ D!Modules = {"traefik", "host-agent"}
  /\ D!Registry[1] = "traefik" /\ D!Registry[2] = "host-agent" /\ Len(D!Registry) = 2
  /\ D!Len(D!Registry) = 2
<1>1. D!Registry = <<"traefik", "host-agent">> /\ DOMAIN D!Registry = {1, 2}
  BY DEF D!Registry
<1> QED
  BY <1>1 DEF D!Modules

\* A sweep at rest, and a module without a row.
LEMMA Rests ==
  /\ D!Idle.stage = "idle" /\ D!Idle.next = 1 /\ D!Idle.found = D!Unknown
  /\ D!Idle \in [stage : {"idle", "probing", "probed"}, next : {1, 2}, found : Findings]
  /\ D!NoRow \in [found : Findings, override : D!Overrides, stored : BOOLEAN]
  /\ D!NoRow.override = "auto"
  BY DEF D!Idle, D!NoRow, Findings, D!Overrides

\* Nothing is known of the integrations, and nobody has chosen an override.
LEMMA DiscoveryStarts == ASSUME D!Init PROVE DiscoveryInv
<1>1. DiscoveryTypes
  BY Rests DEF D!Init, DiscoveryTypes, D!Overrides
<1>2. Listed /\ D!OverrideStays /\ Noticed
  BY Rests DEF D!Init, Listed, D!OverrideStays, Noticed
<1> QED
  BY <1>1, <1>2 DEF DiscoveryInv

\* A sweep begins: the boot's, the timer's, a rescan's, or that of a first report, of an
\* agent that reports.
LEMMA SweepBegins ==
  ASSUME DiscoveryInv, NEW s \in Sweeps, D!Sweep(s) \/ D!Rescan(s) \/ D!FirstReport(s)
  PROVE  DiscoveryInv'
<1>1. /\ sweeps[s].stage = "idle"
      /\ sweeps' = [sweeps EXCEPT ![s].stage = "probing"]
      /\ overlapped' = (overlapped \/ \E t \in Sweeps : sweeps[t].stage # "idle")
      /\ UNCHANGED <<cluster, up, rows, chosen, missed, silenced>>
      /\ \/ reporting' = reporting /\ latest' = latest
         \/ up /\ reporting' = TRUE /\ latest' = TRUE
  BY DEF D!Sweep, D!Rescan, D!FirstReport, D!Begins
<1>2. /\ sweeps'[s].stage = "probing" /\ sweeps'[s].next = sweeps[s].next
      /\ \A t \in Sweeps \ {s} : sweeps'[t] = sweeps[t]
  BY <1>1 DEF DiscoveryInv, DiscoveryTypes
<1>3. DiscoveryTypes'
  BY <1>1 DEF DiscoveryInv, DiscoveryTypes
<1>4. Listed' /\ D!OverrideStays'
  BY <1>1, <1>2 DEF DiscoveryInv, Listed, D!OverrideStays
<1>5. Noticed'
  <2>1. latest' => up'
    BY <1>1 DEF DiscoveryInv, Noticed
  <2> SUFFICES ASSUME latest', ~overlapped', ~missed', ~silenced'
               PROVE  /\ reporting'
                      /\ \A t \in Sweeps : sweeps'[t].stage # "probed"
    BY <1>2, <2>1 DEF Noticed
  <2>2. \A t \in Sweeps : sweeps[t].stage = "idle"
    BY <1>1
  <2>3. \A t \in Sweeps : sweeps'[t].stage # "probed"
    BY <1>2, <2>2
  <2> QED
    BY <1>1, <2>3 DEF DiscoveryInv, Noticed
<1> QED
  BY <1>3, <1>4, <1>5 DEF DiscoveryInv

\* A probe ends, or fails.
LEMMA Probes ==
  ASSUME DiscoveryInv, NEW s \in Sweeps, D!Probe(s) \/ D!ProbeFails(s)
  PROVE  DiscoveryInv'
<1>1. PICK found \in Findings :
        /\ sweeps' = [sweeps EXCEPT ![s] = [@ EXCEPT !.stage = "probed", !.found = found]]
        /\ missed' \/ found = D!Truth(D!Registry[sweeps[s].next])
  <2>1. CASE D!Probe(s)
    <3>1. D!Truth(D!Registry[sweeps[s].next]) \in Findings
      BY DEF D!Truth, Findings, DiscoveryInv, DiscoveryTypes
    <3> QED
      BY <2>1, <3>1 DEF D!Probe
  <2>2. CASE D!ProbeFails(s)
    BY <2>2 DEF D!ProbeFails, Findings
  <2> QED
    BY <2>1, <2>2
<1>2. /\ sweeps[s].stage = "probing"
      /\ UNCHANGED <<cluster, reporting, latest, up, rows, chosen, overlapped, silenced>>
      /\ missed' \in {missed, TRUE}
  BY DEF D!Probe, D!ProbeFails
<1>3. /\ sweeps'[s].stage = "probed" /\ sweeps'[s].next = sweeps[s].next
      /\ sweeps'[s].found = found
      /\ \A t \in Sweeps \ {s} : sweeps'[t] = sweeps[t]
  BY <1>1 DEF DiscoveryInv, DiscoveryTypes
<1>4. DiscoveryTypes'
  BY <1>1, <1>2 DEF DiscoveryInv, DiscoveryTypes
<1>5. Listed' /\ D!OverrideStays'
  BY <1>2, <1>3 DEF DiscoveryInv, Listed, D!OverrideStays
<1>6. Noticed'
  <2>1. latest' => up'
    BY <1>2 DEF DiscoveryInv, Noticed
  <2> SUFFICES ASSUME latest', ~overlapped', ~missed', ~silenced'
               PROVE  /\ reporting'
                      /\ \A t \in Sweeps :
                           sweeps'[t].stage = "probed" /\ sweeps'[t].next = 2 =>
                             sweeps'[t].found = D!Present
                      /\ ~\A t \in Sweeps : sweeps'[t].stage = "idle"
    BY <1>2, <2>1 DEF Noticed, D!Present
  <2>2. /\ reporting
        /\ \A t \in Sweeps :
             sweeps[t].stage = "probed" /\ sweeps[t].next = 2 => sweeps[t].found = D!Present
    BY <1>2 DEF DiscoveryInv, Noticed
  <2>3. sweeps[s].next = 2 => found = D!Present
    BY <1>1, <2>2, TwoModules DEF D!Truth
  <2> QED
    BY <1>2, <1>3, <2>2, <2>3
<1> QED
  BY <1>4, <1>5, <1>6 DEF DiscoveryInv

\* What a probe found is written, and the sweep goes on or ends.
LEMMA RecordsDetection ==
  ASSUME DiscoveryInv, NEW s \in Sweeps, D!RecordDetection(s)
  PROVE  DiscoveryInv'
<1>1. PICK n \in {1, 2} : n = sweeps[s].next
  BY DEF DiscoveryInv, DiscoveryTypes
<1>2. PICK m \in D!Modules : m = D!Registry[n]
  BY <1>1, TwoModules
<1>3. /\ sweeps[s].stage = "probed"
      /\ rows' = [rows EXCEPT ![m] = [@ EXCEPT !.found = sweeps[s].found, !.stored = TRUE]]
      /\ sweeps' = [sweeps EXCEPT ![s] = IF n = 2 THEN D!Idle
                                         ELSE [@ EXCEPT !.stage = "probing",
                                                       !.next = sweeps[s].next + 1]]
      /\ up' = (up \/ n = 2)
      /\ UNCHANGED <<cluster, reporting, latest, chosen, overlapped, missed, silenced>>
  BY <1>1, <1>2, TwoModules DEF D!RecordDetection
<1>4. m = IF n = 1 THEN "traefik" ELSE "host-agent"
  BY <1>1, <1>2, TwoModules
<1>5. sweeps[s] \in [stage : {"idle", "probing", "probed"}, next : {1, 2}, found : Findings]
  BY DEF DiscoveryInv, DiscoveryTypes
<1>6. /\ sweeps'[s] \in [stage : {"idle", "probing", "probed"}, next : {1, 2}, found : Findings]
      /\ n = 1 => sweeps'[s].stage = "probing" /\ sweeps'[s].next = 2
      /\ n = 2 => sweeps'[s].stage = "idle" /\ sweeps'[s].next = 1
      /\ \A t \in Sweeps \ {s} : sweeps'[t] = sweeps[t]
      /\ sweeps' = [t \in Sweeps |-> sweeps'[t]]
  <2>1. sweeps = [t \in Sweeps |-> sweeps[t]]
    BY DEF DiscoveryInv, DiscoveryTypes
  <2>2. /\ \A t \in Sweeps \ {s} : sweeps'[t] = sweeps[t]
        /\ sweeps' = [t \in Sweeps |-> sweeps'[t]]
    BY <1>3, <2>1
  <2>3. CASE n = 1
    <3>1. sweeps[s].next + 1 = 2
      BY <1>1, <2>3
    <3>2. sweeps' = [sweeps EXCEPT ![s] = [@ EXCEPT !.stage = "probing",
                                                    !.next = sweeps[s].next + 1]]
      BY <1>3, <2>3
    <3>3. sweeps'[s].stage = "probing"
      BY <3>2, <1>5, <2>1
    <3>4. sweeps'[s].next = 2
      BY <3>1, <3>2, <1>5, <2>1
    <3>5. sweeps'[s] \in [stage : {"idle", "probing", "probed"}, next : {1, 2}, found : Findings]
      BY <3>1, <3>2, <1>5, <2>1
    <3> QED
      BY <2>2, <2>3, <3>3, <3>4, <3>5
  <2>4. CASE n = 2
    <3>1. sweeps'[s] = D!Idle
      BY <1>3, <2>1, <2>4
    <3> QED
      BY <2>2, <2>4, <3>1, Rests
  <2> QED
    BY <2>3, <2>4
<1>7. /\ rows' \in [D!Modules -> [found : Findings, override : D!Overrides, stored : BOOLEAN]]
      /\ rows'[m].found = sweeps[s].found /\ rows'[m].stored
      /\ rows'[m].override = rows[m].override
      /\ \A o \in D!Modules \ {m} : rows'[o] = rows[o]
  <2> DEFINE row == [rows[m] EXCEPT !.found = sweeps[s].found, !.stored = TRUE]
  <2>1. /\ rows \in [D!Modules -> [found : Findings, override : D!Overrides, stored : BOOLEAN]]
        /\ rows' = [rows EXCEPT ![m] = row]
    BY <1>3 DEF DiscoveryInv, DiscoveryTypes
  <2>2. /\ row \in [found : Findings, override : D!Overrides, stored : BOOLEAN]
        /\ row.found = sweeps[s].found /\ row.stored /\ row.override = rows[m].override
    BY <1>5, <2>1
  <2> HIDE DEF row
  <2> QED
    BY <2>1, <2>2
<1>8. DiscoveryTypes'
  <2>1. \A t \in Sweeps :
          sweeps'[t] \in [stage : {"idle", "probing", "probed"}, next : {1, 2}, found : Findings]
    BY <1>6 DEF DiscoveryInv, DiscoveryTypes
  <2> QED
    BY <1>3, <1>6, <1>7, <2>1 DEF DiscoveryInv, DiscoveryTypes
<1>9. Listed'
  BY <1>1, <1>3, <1>4, <1>6, <1>7, TwoModules DEF DiscoveryInv, Listed
<1>10. D!OverrideStays'
  BY <1>3, <1>7 DEF DiscoveryInv, D!OverrideStays
<1>11. Noticed'
  <2>1. latest' => up'
    BY <1>3 DEF DiscoveryInv, Noticed
  <2> SUFFICES ASSUME latest', ~overlapped', ~missed', ~silenced'
               PROVE  /\ reporting'
                      /\ \A t \in Sweeps :
                           sweeps'[t].stage = "probed" /\ sweeps'[t].next = 2 =>
                             sweeps'[t].found = D!Present
                      /\ (\A t \in Sweeps : sweeps'[t].stage = "idle")
                           => rows'["host-agent"].found = D!Present
    BY <1>3, <2>1 DEF Noticed, D!Present
  <2>2. /\ reporting
        /\ \A t \in Sweeps :
             sweeps[t].stage = "probed" /\ sweeps[t].next = 2 => sweeps[t].found = D!Present
    BY <1>3 DEF DiscoveryInv, Noticed
  <2>3. n = 2 => rows'["host-agent"].found = D!Present
    <3>1. n = 2 => sweeps[s].found = D!Present
      BY <1>1, <1>3, <2>2
    <3>2. n = 2 => m = "host-agent"
      BY <1>4
    <3> QED
      BY <1>7, <3>1, <3>2
  <2> QED
    BY <1>3, <1>6, <2>2, <2>3
<1> QED
  BY <1>8, <1>9, <1>10, <1>11 DEF DiscoveryInv

\* The write fails, which ends the sweep.
LEMMA RecordingFails ==
  ASSUME DiscoveryInv, NEW s \in Sweeps, D!RecordFails(s)
  PROVE  DiscoveryInv'
<1>1. /\ sweeps' = [sweeps EXCEPT ![s] = D!Idle] /\ missed' = up
      /\ UNCHANGED <<cluster, reporting, latest, up, rows, chosen, overlapped, silenced>>
  BY DEF D!RecordFails
<1>2. /\ sweeps'[s] = D!Idle
      /\ \A t \in Sweeps \ {s} : sweeps'[t] = sweeps[t]
  BY <1>1 DEF DiscoveryInv, DiscoveryTypes
<1>3. DiscoveryTypes'
  BY <1>1, Rests DEF DiscoveryInv, DiscoveryTypes
<1>4. Listed' /\ D!OverrideStays' /\ Noticed'
  BY <1>1, <1>2, Rests DEF DiscoveryInv, Listed, D!OverrideStays, Noticed
<1> QED
  BY <1>3, <1>4 DEF DiscoveryInv

\* The user sets an override: the module has a row.
LEMMA Overrides ==
  ASSUME DiscoveryInv, NEW m \in D!Modules, NEW o \in D!Overrides, D!SetOverride(m, o)
  PROVE  DiscoveryInv'
<1>1. /\ rows' = [rows EXCEPT ![m].override = o]
      /\ chosen' = [chosen EXCEPT ![m] = o]
      /\ UNCHANGED <<cluster, reporting, latest, up, sweeps, overlapped, missed, silenced>>
  BY DEF D!SetOverride, DiscoveryInv, Listed
<1>2. /\ rows' \in [D!Modules -> [found : Findings, override : D!Overrides, stored : BOOLEAN]]
      /\ rows'[m].override = o
      /\ \A other \in D!Modules :
           /\ rows'[other].found = rows[other].found
           /\ rows'[other].stored = rows[other].stored
           /\ other # m => rows'[other] = rows[other]
  BY <1>1 DEF DiscoveryInv, DiscoveryTypes
<1>3. DiscoveryTypes'
  BY <1>1, <1>2 DEF DiscoveryInv, DiscoveryTypes
<1>4. D!OverrideStays'
  BY <1>1, <1>2 DEF DiscoveryInv, DiscoveryTypes, D!OverrideStays
<1>5. Listed' /\ Noticed'
  BY <1>1, <1>2, TwoModules DEF DiscoveryInv, Listed, Noticed
<1> QED
  BY <1>3, <1>4, <1>5 DEF DiscoveryInv

\* Every step keeps the invariant.
LEMMA DiscoveryStep ==
  ASSUME DiscoveryInv, [D!Next]_<<ofDiscovery, faults>>
  PROVE  DiscoveryInv'
<1>1. CASE D!Report \/ D!GoesSilent \/ D!Change
  <2>1. /\ UNCHANGED <<latest, up, rows, sweeps, chosen, overlapped, missed>>
        /\ cluster' \in {D!Present, D!Degraded, D!Absent}
        /\ \/ reporting' = TRUE /\ silenced' = silenced
           \/ reporting' = FALSE /\ silenced' = TRUE
           \/ reporting' = reporting /\ silenced' = silenced
    BY <1>1 DEF D!Report, D!GoesSilent, D!Change, DiscoveryInv, DiscoveryTypes
  <2>2. DiscoveryTypes'
    BY <2>1 DEF DiscoveryInv, DiscoveryTypes
  <2>3. Listed' /\ D!OverrideStays'
    BY <2>1 DEF DiscoveryInv, Listed, D!OverrideStays
  <2>4. Noticed'
    BY <2>1 DEF DiscoveryInv, Noticed
  <2> QED
    BY <2>2, <2>3, <2>4 DEF DiscoveryInv
<1>2. CASE D!Restart
  BY <1>2, Rests
  DEF D!Restart, DiscoveryInv, DiscoveryTypes, Listed, D!OverrideStays, Noticed
<1>3. CASE UNCHANGED <<ofDiscovery, faults>>
  BY <1>3 DEF ofDiscovery, DiscoveryInv, DiscoveryTypes, Listed, D!OverrideStays, Noticed
<1> QED
  BY <1>1, <1>2, <1>3, SweepBegins, Probes, RecordsDetection, RecordingFails, Overrides
  DEF D!Next

\* What the invariant says of overrides and of first reports.
LEMMA DiscoveryHolds == ASSUME DiscoveryInv PROVE D!OverrideStays /\ D!FirstReportShows
  BY DEF DiscoveryInv, Noticed, D!FirstReportShows
-----------------------------------------------------------------------------
(* The keys of the cluster: the inductive invariant.                       *)

\* A report on its way.
Calling == [stage : {"awaiting", "fetched", "verifying", "lookup"},
            next : {"first", "again", "last"}, token : Nat, with : SUBSET Nat,
            excused : BOOLEAN, due : BOOLEAN]

KeyTypes ==
  /\ newest \in Nat \ {0}
  /\ known \in 0 .. REFRESH_INTERVAL /\ age \in 0 .. REFRESH_INTERVAL
  /\ keys \subseteq 1 .. newest
  /\ fetch.stage \in {"none", "asked", "read"} /\ fetch.keys \subseteq 1 .. newest
  /\ calls = [c \in Calls |-> calls[c]]
  /\ \A c \in Calls : calls[c].stage # "idle" => calls[c] \in Calling /\ calls[c].token <= newest

\* Keys that came after the newest key could be fetched are the published ones, and so
\* are those on their way.
Followed ==
  /\ known > age => keys = C!Published
  /\ fetch.stage = "read" =>
       \/ fetch.keys = C!Published
       \/ known = 0 /\ newest \notin fetch.keys

\* A report that must not be refused.
Owed(c) ==
  calls[c].stage # "idle" /\ calls[c].due /\ calls[c].token \in C!Published

\* Recent keys have its key, keys on their way have it, and so have those that it
\* waited for, unless that is excused.
Met(c) ==
  /\ C!Recent => calls[c].token \in keys
  /\ fetch.stage = "read" => calls[c].token \in fetch.keys
  /\ ~calls[c].excused =>
       /\ calls[c].stage # "lookup"
       /\ calls[c].stage = "fetched" => calls[c].token \in keys
       /\ calls[c].stage = "verifying" =>
            /\ calls[c].with = keys
            /\ calls[c].next # "again" => calls[c].token \in keys

KeysInv ==
  /\ KeyTypes
  /\ Followed
  /\ \A c \in Calls : Owed(c) => Met(c)
  /\ ~wronged

-----------------------------------------------------------------------------
(* The keys of the cluster: the steps.                                     *)

\* An interval takes time.
LEMMA AnInterval == REFRESH_INTERVAL \in Nat \ {0}
  BY CredentialsAssumption DEF C!CredentialsAssumption

\* No keys, and nobody is calling.
LEMMA KeysStart == ASSUME C!Init PROVE KeysInv
<1>1. KeyTypes
  BY AnInterval DEF C!Init, C!NoKeys, C!NoFetch, C!Idle,
         KeyTypes
<1>2. \A c \in Calls : calls[c].stage = "idle"
  BY DEF C!Init, C!Idle
<1>3. Followed /\ (\A c \in Calls : Owed(c) => Met(c)) /\ ~wronged
  BY <1>2, AnInterval DEF C!Init, C!NoFetch, Followed, Owed
<1> QED
  BY <1>1, <1>3 DEF KeysInv

\* A step of one report, which may begin a fetch.
LEMMA OneReport ==
  ASSUME KeysInv, NEW c \in Calls, NEW call, calls' = [calls EXCEPT ![c] = call],
         UNCHANGED <<newest, known, keys, age>>, UNCHANGED fetch \/ C!Refresh,
         call.stage # "idle" => call \in Calling /\ call.token <= newest,
         Owed(c)' => Met(c)', ~wronged'
  PROVE  KeysInv'
<1>1. /\ fetch'.stage \in {"none", "asked", "read"} /\ fetch'.keys \subseteq 1 .. newest
      /\ fetch'.stage = "read" => fetch' = fetch
  BY DEF C!Refresh, C!NoFetch, C!NoKeys, KeysInv, KeyTypes
<1>2. /\ calls'[c] = call
      /\ \A d \in Calls \ {c} : calls'[d] = calls[d]
      /\ calls' = [d \in Calls |-> calls'[d]]
  BY DEF KeysInv, KeyTypes
<1>3. KeyTypes'
  BY <1>1, <1>2 DEF KeysInv, KeyTypes
<1>4. C!Published' = C!Published /\ C!Recent' = C!Recent
  BY DEF C!Published, C!Recent
<1>5. Followed'
  BY <1>1, <1>4 DEF KeysInv, Followed
<1>6. \A d \in Calls : Owed(d)' => Met(d)'
  <2> SUFFICES ASSUME NEW d \in Calls \ {c}, Owed(d)' PROVE Met(d)'
    OBVIOUS
  <2>1. Owed(d)
    BY <1>2, <1>4 DEF Owed
  <2>2. Met(d)
    BY <2>1 DEF KeysInv
  <2> QED
    BY <1>1, <1>2, <1>4, <2>2 DEF Met
<1> QED
  BY <1>3, <1>5, <1>6 DEF KeysInv

\* A report comes in.
LEMMA Reported ==
  ASSUME KeysInv, NEW c \in Calls, NEW token \in 0 .. newest,
         C!Report(c, token)
  PROVE  KeysInv'
<1> DEFINE InTime == known = REFRESH_INTERVAL /\ token \in C!Published
<1>1. PICK due \in BOOLEAN : due = InTime
  OBVIOUS
<1>2. PICK call \in Calling :
        /\ calls' = [calls EXCEPT ![c] = call]
        /\ call.stage \in {"awaiting", "verifying"} /\ call.token = token
        /\ call.with = keys /\ (call.due <=> InTime)
        /\ call.stage = "verifying" => call.next = "again"
        /\ UNCHANGED <<newest, known, keys, age, wronged>>
        /\ UNCHANGED fetch \/ C!Refresh
  <2>1. keys \in SUBSET Nat /\ token \in Nat
    BY DEF KeysInv, KeyTypes
  <2>2. CASE keys = C!NoKeys
    <3> DEFINE call == [stage |-> "awaiting", next |-> "first", token |-> token,
                        with |-> keys, excused |-> FALSE, due |-> due]
    <3>1. calls' = [calls EXCEPT ![c] = call]
      BY <1>1, <2>2 DEF C!Report
    <3>2. call \in Calling
      BY <2>1 DEF Calling
    <3>3. UNCHANGED <<newest, known, keys, age, wronged>>
      BY DEF C!Report, C!cluster
    <3>4. C!Refresh
      BY <2>2 DEF C!Report
    <3> QED
      BY <1>1, <3>1, <3>2, <3>3, <3>4
  <2>3. CASE keys # C!NoKeys
    <3> DEFINE call == [stage |-> "verifying", next |-> "again", token |-> token,
                        with |-> keys, excused |-> FALSE, due |-> due]
    <3>1. calls' = [calls EXCEPT ![c] = call]
      BY <1>1, <2>3 DEF C!Report
    <3>2. call \in Calling
      BY <2>1 DEF Calling
    <3>3. UNCHANGED <<newest, known, keys, age, wronged>>
      BY DEF C!Report, C!cluster
    <3>4. UNCHANGED fetch
      BY <2>3 DEF C!Report
    <3> QED
      BY <1>1, <3>1, <3>2, <3>3, <3>4
  <2> QED
    BY <2>2, <2>3
<1>3. calls'[c] = call
  BY <1>2 DEF KeysInv, KeyTypes
<1>4. Owed(c)' => Met(c)'
  <2> SUFFICES ASSUME Owed(c)' PROVE Met(c)'
    OBVIOUS
  <2>1. known = REFRESH_INTERVAL /\ token \in C!Published
    BY <1>2, <1>3 DEF Owed
  <2>2. C!Recent' => token \in keys'
    BY <1>2, <2>1, AnInterval DEF C!Recent, KeysInv, KeyTypes, Followed
  <2>3. fetch'.stage = "read" => token \in fetch'.keys
    BY <1>2, <2>1, AnInterval DEF C!Refresh, C!NoFetch, KeysInv, KeyTypes, Followed
  <2> QED
    BY <1>2, <1>3, <2>2, <2>3 DEF Met
<1>5. call.token <= newest
  BY <1>2 DEF KeysInv, KeyTypes
<1> QED
  BY <1>2, <1>4, <1>5, OneReport DEF KeysInv

\* A report goes on.
LEMMA Moves ==
  ASSUME KeysInv, NEW c \in Calls, calls[c].stage # "idle",
         NEW call \in Calling, calls' = [calls EXCEPT ![c] = call],
         call.token = calls[c].token, call.excused = calls[c].excused, call.due = calls[c].due,
         UNCHANGED <<newest, known, keys, age, wronged>>, UNCHANGED fetch \/ C!Refresh,
         Owed(c) /\ ~calls[c].excused =>
           /\ call.stage # "lookup"
           /\ call.stage = "fetched" => call.token \in keys
           /\ call.stage = "verifying" =>
                call.with = keys /\ (call.next # "again" => call.token \in keys)
  PROVE  KeysInv'
<1>1. calls'[c] = call
  BY DEF KeysInv, KeyTypes
<1>2. call.token <= newest
  BY DEF KeysInv, KeyTypes
<1>3. Owed(c)' => Met(c)'
  <2> SUFFICES ASSUME Owed(c)' PROVE Met(c)'
    OBVIOUS
  <2>1. Owed(c)
    BY <1>1 DEF Owed, C!Published
  <2>2. Met(c)
    BY <2>1 DEF KeysInv
  <2>3. fetch'.stage = "read" => fetch' = fetch
    BY DEF C!Refresh, C!NoFetch
  <2> QED
    BY <1>1, <2>1, <2>2, <2>3 DEF Met, C!Recent
<1> QED
  BY <1>2, <1>3, OneReport DEF KeysInv

\* It is looked for among those given out.
LEMMA LooksElsewhere ==
  ASSUME KeysInv, NEW c \in Calls, calls[c].stage # "idle", C!NotOfTheCluster(c),
         UNCHANGED <<newest, known, keys, age, wronged>>, Owed(c) => calls[c].excused
  PROVE  KeysInv'
<1> DEFINE call == [calls[c] EXCEPT !.stage = "lookup"]
<1>1. /\ call \in Calling
      /\ call.token = calls[c].token /\ call.excused = calls[c].excused
      /\ call.due = calls[c].due
  BY DEF KeysInv, KeyTypes, Calling
<1>2. calls' = [calls EXCEPT ![c] = call] /\ UNCHANGED fetch
  BY DEF C!NotOfTheCluster
<1> HIDE DEF call
<1> QED
  BY <1>1, <1>2, Moves

\* It awaits a fetch.
LEMMA Waits ==
  ASSUME KeysInv, NEW c \in Calls, calls[c].stage # "idle",
         NEW next \in {"first", "again", "last"}, C!Awaits(c, next),
         UNCHANGED <<newest, known, keys, age, wronged>>
  PROVE  KeysInv'
<1> DEFINE call == [calls[c] EXCEPT !.stage = "awaiting", !.next = next]
<1>1. /\ call \in Calling /\ call.stage = "awaiting"
      /\ call.token = calls[c].token /\ call.excused = calls[c].excused
      /\ call.due = calls[c].due
  BY DEF KeysInv, KeyTypes, Calling
<1>2. calls' = [calls EXCEPT ![c] = call] /\ C!Refresh
  BY DEF C!Awaits
<1> HIDE DEF call
<1> QED
  BY <1>1, <1>2, Moves

\* It verifies its token with the keys there are.
LEMMA TakesALook ==
  ASSUME KeysInv, NEW c \in Calls, calls[c].stage # "idle",
         NEW next \in {"first", "again", "last"}, C!Verifies(c, next),
         UNCHANGED <<newest, known, keys, age, wronged>>,
         Owed(c) /\ ~calls[c].excused /\ next # "again" => calls[c].token \in keys
  PROVE  KeysInv'
<1> DEFINE call == [calls[c] EXCEPT !.stage = "verifying", !.next = next, !.with = keys]
<1>1. keys \in SUBSET Nat /\ calls[c] \in Calling
  BY DEF KeysInv, KeyTypes
<1>2. /\ call \in Calling /\ call.stage = "verifying" /\ call.next = next /\ call.with = keys
      /\ call.token = calls[c].token /\ call.excused = calls[c].excused
      /\ call.due = calls[c].due
  BY <1>1 DEF Calling
<1>3. calls' = [calls EXCEPT ![c] = call] /\ UNCHANGED fetch
  BY DEF C!Verifies
<1> HIDE DEF call
<1> QED
  BY <1>2, <1>3, Moves

\* With recent keys, a report whose key has been there for an interval is not given up.
LEMMA FetchesOrNot ==
  ASSUME KeysInv, NEW c \in Calls, calls[c].stage # "idle", C!FetchOrNot(c),
         UNCHANGED <<newest, known, keys, age, wronged>>,
         Owed(c) /\ ~calls[c].excused => calls[c].token \notin keys
  PROVE  KeysInv'
<1>1. Owed(c) /\ C!Recent => calls[c].excused
  BY DEF KeysInv, Met
<1>2. CASE C!Recent
  BY <1>1, <1>2, LooksElsewhere DEF C!FetchOrNot
<1>3. CASE ~C!Recent
  BY <1>3, Waits DEF C!FetchOrNot
<1> QED
  BY <1>2, <1>3

\* A report ends.
LEMMA EndsAs ==
  ASSUME KeysInv, NEW c \in Calls, calls' = [calls EXCEPT ![c] = C!Idle], ~wronged',
         UNCHANGED <<newest, known, keys, age, fetch>>
  PROVE  KeysInv'
<1>1. C!Idle.stage = "idle" /\ calls'[c] = C!Idle
  BY DEF KeysInv, KeyTypes, C!Idle
<1>2. ~Owed(c)'
  BY <1>1 DEF Owed
<1> QED
  BY <1>1, <1>2, OneReport

\* A look is over.
LEMMA Looked == ASSUME KeysInv, NEW c \in Calls, C!Verified(c) PROVE KeysInv'
<1>1. calls[c].stage = "verifying" /\ UNCHANGED <<newest, known, keys, age>>
  BY DEF C!Verified, C!cluster
<1>2. CASE calls[c].token \in calls[c].with
  <2>1. calls' = [calls EXCEPT ![c] = C!Idle] /\ UNCHANGED fetch
    BY <1>2 DEF C!Verified, C!Ends
  <2>2. ~wronged'
    BY <1>2 DEF C!Verified, C!Ends, KeysInv
  <2> QED
    BY <1>1, <2>1, <2>2, EndsAs
<1>3. CASE calls[c].token \notin calls[c].with
  <2>1. Owed(c) /\ ~calls[c].excused => calls[c].next = "again" /\ calls[c].token \notin keys
    BY <1>1, <1>3 DEF KeysInv, Met
  <2>2. UNCHANGED wronged
    BY <1>3 DEF C!Verified
  <2>3. CASE calls[c].next = "again"
    <3>1. C!FetchOrNot(c)
      BY <1>3, <2>3 DEF C!Verified
    <3> QED
      BY <1>1, <2>1, <2>2, <3>1, FetchesOrNot
  <2>4. CASE calls[c].next # "again"
    <3>1. C!NotOfTheCluster(c)
      BY <1>3, <2>4 DEF C!Verified
    <3> QED
      BY <1>1, <2>1, <2>2, <2>4, <3>1, LooksElsewhere
  <2> QED
    BY <2>3, <2>4
<1> QED
  BY <1>2, <1>3

\* What a report waited for is over: without keys it is excused, or they are not of its
\* time.
LEMMA WaitedFor == ASSUME KeysInv, NEW c \in Calls, C!Resumes(c) PROVE KeysInv'
<1>1. calls[c].stage = "fetched" /\ UNCHANGED <<newest, known, keys, age, wronged>>
  BY DEF C!Resumes, C!cluster
<1>2. Owed(c) /\ ~calls[c].excused => calls[c].token \in keys
  BY <1>1 DEF KeysInv, Met
<1>3. keys = C!NoKeys /\ Owed(c) => calls[c].excused
  BY <1>2 DEF C!NoKeys
<1>4. calls[c].next \in {"first", "again", "last"}
  BY <1>1 DEF KeysInv, KeyTypes, Calling
<1>5. CASE calls[c].next = "first"
  <2>1. IF keys = C!NoKeys THEN C!FetchOrNot(c) ELSE C!Verifies(c, "again")
    BY <1>5 DEF C!Resumes
  <2> QED
    BY <1>1, <1>3, <2>1, FetchesOrNot, TakesALook
<1>6. CASE calls[c].next = "again"
  <2>1. IF keys = C!NoKeys THEN C!Awaits(c, "last") ELSE C!Verifies(c, "last")
    BY <1>6 DEF C!Resumes
  <2> QED
    BY <1>1, <1>2, <2>1, Waits, TakesALook
<1>7. CASE calls[c].next = "last"
  <2>1. IF keys = C!NoKeys THEN C!NotOfTheCluster(c) ELSE C!Verifies(c, "last")
    BY <1>7 DEF C!Resumes
  <2> QED
    BY <1>1, <1>2, <1>3, <2>1, LooksElsewhere, TakesALook
<1> QED
  BY <1>4, <1>5, <1>6, <1>7

\* It has been looked for among those given out.
LEMMA LookedUp == ASSUME KeysInv, NEW c \in Calls, C!LooksUp(c) PROVE KeysInv'
<1>1. /\ calls[c].stage = "lookup" /\ UNCHANGED <<newest, known, keys, age, fetch>>
      /\ calls' = [calls EXCEPT ![c] = C!Idle]
  BY DEF C!LooksUp, C!Ends, C!cluster, C!verifier
<1>2. Owed(c) => calls[c].excused
  BY <1>1 DEF KeysInv, Met
<1>3. ~wronged'
  BY <1>1, <1>2 DEF C!LooksUp, C!Ends, KeysInv, Owed
<1> QED
  BY <1>1, <1>3, EndsAs

\* The API server answers.
LEMMA Answers == ASSUME KeysInv, C!Reads PROVE KeysInv'
<1>1. /\ fetch'.stage = "read" /\ fetch'.keys = C!Published
      /\ UNCHANGED <<newest, known, keys, age, calls, wronged>>
  BY DEF C!Reads, C!cluster
<1>2. C!Published' = C!Published /\ C!Published \subseteq 1 .. newest /\ C!Recent' = C!Recent
  BY <1>1 DEF C!Published, C!Recent, KeysInv, KeyTypes
<1>3. KeyTypes'
  BY <1>1, <1>2 DEF KeysInv, KeyTypes
<1>4. Followed'
  BY <1>1, <1>2 DEF KeysInv, Followed
<1>5. \A c \in Calls : Owed(c)' => Met(c)'
  BY <1>1, <1>2 DEF KeysInv, Owed, Met
<1> QED
  BY <1>1, <1>3, <1>4, <1>5 DEF KeysInv

\* The reports a fetch was awaited by, or that were looking meanwhile.
LEMMA LetGo ==
  ASSUME KeysInv, NEW failed \in BOOLEAN, NEW c \in Calls
  PROVE  LET call == C!Released(failed)[c] IN
         /\ call.stage = "idle" <=> calls[c].stage = "idle"
         /\ calls[c].stage # "idle" =>
              /\ call \in Calling
              /\ call.token = calls[c].token /\ call.due = calls[c].due
              /\ call.next = calls[c].next /\ call.with = calls[c].with
              /\ calls[c].excused => call.excused
              /\ CASE calls[c].stage = "awaiting" ->
                        call.stage = "fetched" /\ (failed => call.excused)
                   [] calls[c].stage = "verifying" ->
                        call.stage = "verifying" /\ (~failed => call.excused)
                   [] OTHER -> call.stage = calls[c].stage
<1>1. calls[c].stage # "idle" => calls[c] \in Calling
  BY DEF KeysInv, KeyTypes
<1>2. CASE calls[c].stage = "awaiting"
  BY <1>1, <1>2 DEF C!Released, Calling
<1>3. CASE calls[c].stage = "verifying"
  BY <1>1, <1>3 DEF C!Released, Calling
<1>4. CASE calls[c].stage \notin {"awaiting", "verifying"}
  BY <1>1, <1>4 DEF C!Released, Calling
<1> QED
  BY <1>2, <1>3, <1>4

\* The reports after a fetch: their types.
LEMMA AllLetGo ==
  ASSUME KeysInv, NEW failed \in BOOLEAN, calls' = C!Released(failed), UNCHANGED newest
  PROVE  /\ calls' = [c \in Calls |-> calls'[c]]
         /\ \A c \in Calls : calls'[c].stage # "idle" =>
              calls'[c] \in Calling /\ calls'[c].token <= newest'
         /\ \A c \in Calls : Owed(c)' =>
              /\ Owed(c) /\ Met(c)
              /\ calls'[c].token = calls[c].token
<1>1. calls' = [c \in Calls |-> calls'[c]]
  BY DEF C!Released
<1>2. \A c \in Calls : calls'[c].stage # "idle" =>
        calls'[c] \in Calling /\ calls'[c].token <= newest'
  <2> SUFFICES ASSUME NEW c \in Calls, calls'[c].stage # "idle"
               PROVE  calls'[c] \in Calling /\ calls'[c].token <= newest'
    OBVIOUS
  <2>1. calls[c].stage # "idle" /\ calls'[c] \in Calling /\ calls'[c].token = calls[c].token
    BY LetGo
  <2> QED
    BY <2>1 DEF KeysInv, KeyTypes
<1>3. ASSUME NEW c \in Calls, Owed(c)'
      PROVE  Owed(c) /\ Met(c) /\ calls'[c].token = calls[c].token
  <2>1. C!Published' = C!Published
    BY DEF C!Published
  <2>2. /\ calls[c].stage # "idle" /\ calls'[c].due = calls[c].due
        /\ calls'[c].token = calls[c].token
    BY <1>3, LetGo DEF Owed
  <2>3. Owed(c)
    BY <1>3, <2>1, <2>2 DEF Owed
  <2> QED
    BY <2>2, <2>3 DEF KeysInv
<1> QED
  BY <1>1, <1>2, <1>3

\* The keys on their way arrive.
LEMMA KeysLand == ASSUME KeysInv, C!Lands PROVE KeysInv'
<1>1. /\ fetch.stage = "read" /\ keys' = fetch.keys /\ age' = 0
      /\ fetch'.stage = "none" /\ fetch'.keys = {} /\ calls' = C!Released(FALSE)
      /\ UNCHANGED <<newest, known, wronged>>
  BY DEF C!Lands, C!NoFetch, C!NoKeys, C!cluster
<1>2. 0 \in 0 .. REFRESH_INTERVAL
  BY AnInterval
<1>3. KeyTypes'
  BY <1>1, <1>2, AllLetGo DEF KeysInv, KeyTypes
<1>4. C!Published' = C!Published
  BY <1>1 DEF C!Published
<1>5. Followed'
  BY <1>1, <1>4 DEF KeysInv, KeyTypes, Followed
<1>6. ASSUME NEW c \in Calls, Owed(c)' PROVE Met(c)'
  <2>1. Owed(c) /\ Met(c) /\ calls'[c].token = calls[c].token
    BY <1>1, <1>6, AllLetGo
  <2>2. calls'[c].token \in keys'
    BY <1>1, <2>1 DEF Met
  <2>3. ~calls'[c].excused => calls'[c].stage # "verifying" /\ calls'[c].stage # "lookup"
    <3>1. calls[c].stage # "idle"
      BY <2>1 DEF Owed
    <3>2. /\ calls[c].excused => calls'[c].excused
          /\ calls[c].stage = "awaiting" => calls'[c].stage = "fetched"
          /\ calls[c].stage = "verifying" => calls'[c].excused
          /\ calls[c].stage \notin {"awaiting", "verifying"} => calls'[c].stage = calls[c].stage
      BY <1>1, <3>1, LetGo
    <3> QED
      BY <2>1, <3>2 DEF Met
  <2> QED
    BY <1>1, <2>2, <2>3 DEF Met
<1> QED
  BY <1>1, <1>3, <1>5, <1>6 DEF KeysInv

\* The fetch fails, which excuses who awaited it.
LEMMA FetchFails == ASSUME KeysInv, C!Fails PROVE KeysInv'
<1>1. /\ fetch'.stage = "none" /\ fetch'.keys = {} /\ calls' = C!Released(TRUE)
      /\ UNCHANGED <<newest, known, keys, age, wronged>>
  BY DEF C!Fails, C!AfterFailure, C!NoFetch, C!NoKeys, C!cluster
<1>2. KeyTypes'
  BY <1>1, AllLetGo DEF KeysInv, KeyTypes
<1>3. C!Published' = C!Published /\ C!Recent' = C!Recent
  BY <1>1 DEF C!Published, C!Recent
<1>4. Followed'
  BY <1>1, <1>3 DEF KeysInv, Followed
<1>5. ASSUME NEW c \in Calls, Owed(c)' PROVE Met(c)'
  <2>1. Owed(c) /\ Met(c) /\ calls'[c].token = calls[c].token
    BY <1>1, <1>5, AllLetGo
  <2>2. /\ calls[c].excused => calls'[c].excused
        /\ calls[c].stage = "awaiting" => calls'[c].stage = "fetched" /\ calls'[c].excused
        /\ calls[c].stage # "awaiting" => calls'[c].stage = calls[c].stage
        /\ calls'[c].next = calls[c].next /\ calls'[c].with = calls[c].with
    <3>1. calls[c].stage # "idle"
      BY <2>1 DEF Owed
    <3> QED
      BY <1>1, <3>1, LetGo
  <2> QED
    BY <1>1, <1>3, <2>1, <2>2 DEF Met
<1> QED
  BY <1>1, <1>2, <1>4, <1>5 DEF KeysInv

\* The cluster signs with a new key: the one before it is published still.
LEMMA KeyRotates == ASSUME KeysInv, C!Rotates PROVE KeysInv'
<1>1. /\ newest' = newest + 1 /\ known' = 0
      /\ UNCHANGED <<keys, age, fetch, calls, wronged>>
  BY DEF C!Rotates, C!verifier
<1>2. newest \in Nat \ {0} /\ newest' \in Nat \ {0}
  BY <1>1 DEF KeysInv, KeyTypes
<1>3. C!Recent' = C!Recent
  BY <1>1 DEF C!Recent
<1>4. KeyTypes'
  <2>1. 0 \in 0 .. REFRESH_INTERVAL
    BY AnInterval
  <2>2. 1 .. newest \subseteq 1 .. newest'
    BY <1>1, <1>2
  <2>3. \A c \in Calls : calls'[c].stage # "idle" =>
          calls'[c] \in Calling /\ calls'[c].token <= newest'
    BY <1>1, <1>2 DEF KeysInv, KeyTypes, Calling
  <2> QED
    BY <1>1, <1>2, <2>1, <2>2, <2>3 DEF KeysInv, KeyTypes
<1>5. Followed'
  <2>1. newest' \notin fetch'.keys
    BY <1>1, <1>2 DEF KeysInv, KeyTypes
  <2>2. ~(known' > age')
    BY <1>1 DEF KeysInv, KeyTypes
  <2> QED
    BY <1>1, <2>1, <2>2 DEF Followed
<1>6. ASSUME NEW c \in Calls, Owed(c)' PROVE Met(c)'
  <2>1. calls[c].token \in Nat /\ calls[c].token <= newest
    BY <1>1, <1>6 DEF Owed, KeysInv, KeyTypes, Calling
  <2>2. calls[c].token \in C!Published
    BY <1>1, <1>2, <1>6, <2>1 DEF Owed, C!Published
  <2>3. Owed(c)
    BY <1>1, <1>6, <2>2 DEF Owed
  <2> QED
    BY <1>1, <1>3, <2>3 DEF KeysInv, Met
<1> QED
  BY <1>1, <1>4, <1>5, <1>6 DEF KeysInv

\* Time passes.
LEMMA TimeGoesBy == ASSUME KeysInv, C!Tick PROVE KeysInv'
<1>1. /\ age' = C!UpTo(age)
      /\ known' = IF fetch.stage = "read" /\ newest \notin fetch.keys THEN known
                  ELSE C!UpTo(known)
      /\ UNCHANGED <<newest, keys, fetch, calls, wronged>>
  BY DEF C!Tick
<1>2. REFRESH_INTERVAL \in Nat \ {0} /\ known \in 0 .. REFRESH_INTERVAL
      /\ age \in 0 .. REFRESH_INTERVAL
  BY AnInterval DEF KeysInv, KeyTypes
<1>3. /\ known' \in 0 .. REFRESH_INTERVAL /\ age' \in 0 .. REFRESH_INTERVAL
      /\ age' < REFRESH_INTERVAL => age < REFRESH_INTERVAL
      /\ known' > age' => known > age
  BY <1>1, <1>2 DEF C!UpTo
<1>4. KeyTypes'
  BY <1>1, <1>3 DEF KeysInv, KeyTypes
<1>5. C!Published' = C!Published
  BY <1>1 DEF C!Published
<1>6. Followed'
  <2>1. newest \in C!Published
    BY DEF KeysInv, KeyTypes, C!Published
  <2> QED
    BY <1>1, <1>3, <1>5, <2>1 DEF KeysInv, Followed
<1>7. ASSUME NEW c \in Calls, Owed(c)' PROVE Met(c)'
  <2>1. Owed(c) /\ (C!Recent' => C!Recent)
    BY <1>1, <1>3, <1>5, <1>7 DEF Owed, C!Recent
  <2> QED
    BY <1>1, <2>1 DEF KeysInv, Met
<1> QED
  BY <1>1, <1>4, <1>6, <1>7 DEF KeysInv

\* Every step keeps the invariant.
LEMMA KeysStep ==
  ASSUME KeysInv, [C!Next]_<<ofKeys, faults>>
  PROVE  KeysInv'
<1>1. ASSUME NEW c \in Calls, C!Goes(c) PROVE KeysInv'
  BY <1>1, Looked, WaitedFor, LookedUp DEF C!Goes
<1>2. ASSUME NEW c \in Calls, NEW token \in C!Static .. newest, C!Report(c, token)
      PROVE  KeysInv'
  BY <1>2, Reported DEF C!Static
<1>3. CASE C!Reads \/ C!Lands \/ C!Fails
  BY <1>3, Answers, KeysLand, FetchFails
<1>4. CASE C!Rotates \/ C!Tick
  BY <1>4, KeyRotates, TimeGoesBy
<1>5. CASE UNCHANGED <<ofKeys, faults>>
  <2>1. UNCHANGED <<newest, known, keys, age, fetch, calls, wronged>>
    BY <1>5 DEF ofKeys
  <2>2. KeyTypes' /\ Followed'
    BY <2>1 DEF KeysInv, KeyTypes, Followed, C!Published
  <2>3. \A c \in Calls : Owed(c)' => Met(c)'
    BY <2>1 DEF KeysInv, Owed, Met, C!Published, C!Recent
  <2> QED
    BY <2>1, <2>2, <2>3 DEF KeysInv
<1> QED
  BY <1>1, <1>2, <1>3, <1>4, <1>5 DEF C!Next

\* What the invariant says of refusals.
LEMMA KeysHold == ASSUME KeysInv PROVE C!UnknownForAnIntervalAtMost
  BY DEF KeysInv, C!UnknownForAnIntervalAtMost

-----------------------------------------------------------------------------
(* The queue of notifications: the inductive invariant.                    *)

Rows == Messages \cup {Gone}
Places == {"idle", "due", "next", "noAlert", "noChannel", "sending", "recording",
           "failed"}
AtMessage == {"noAlert", "noChannel", "sending", "recording", "failed"}
Copies == [seq : 1 .. MaxSeq, attempts : 0 .. MaxAttempts]

Active(d) == pc[d] # "idle"

\* The #draining guard: drains do not overlap.
DrainsExclude ==
  /\ \A d \in Drains : Active(d) => draining
  /\ \A d, e \in Drains : Active(d) /\ Active(e) => d = e

\* What a drain has read and is not done with.
Hand(d) == batch[d] \cup {m \in {current[d]} : pc[d] \in AtMessage}

\* The copies a drain works on are still the rows, in their order: nobody else writes
\* a row that waits.
HandsAreFresh ==
  \A d \in Drains :
    /\ pc[d] \in {"idle", "due"} => batch[d] = {}
    /\ \A m \in Hand(d) : m.seq \in DOMAIN queue /\ Waiting(m.seq)
                            /\ queue[m.seq].attempts = m.attempts
    /\ pc[d] \in AtMessage => \A m \in batch[d] : current[d].seq < m.seq

\* The channel has a message that a drain is about to put on record.
Unrecorded(s) == \E d \in Drains : pc[d] = "recording" /\ current[d].seq = s

\* What a row says of its attempts, and what the channel got by them.
RowIsSound(s) ==
  /\ Waiting(s) =>
       /\ queue[s].attempts < MaxAttempts
       /\ queue[s].attempts = 0 => queue[s].due
       /\ Unrecorded(s) => queue[s].accepted = queue[s].doubt + 1
       /\ ~Unrecorded(s) => queue[s].accepted = queue[s].doubt
  /\ queue[s].status = "delivered" => queue[s].accepted = queue[s].doubt + 1
  /\ queue[s].status = "abandoned" => queue[s].accepted = queue[s].doubt

RowsAreSound == \A s \in DOMAIN queue : RowIsSound(s)

\* A drain that has a message has the earlier ones that never failed.
NothingLeftBehind ==
  \A d \in Drains : \A m \in Hand(d), s \in DOMAIN queue :
    s < m.seq /\ Waiting(s) /\ queue[s].attempts = 0 => \E n \in Hand(d) : n.seq = s

\* Why a drain that gives up a message may.
CausesHold ==
  \A d \in Drains :
    /\ pc[d] = "noAlert" => queue[current[d].seq].alert \notin records
    /\ pc[d] = "noChannel" => queue[current[d].seq].channel \notin bound[d]
    /\ edits = 0 /\ pc[d] \notin {"idle", "due"} => bound[d] = bindings

\* Room in the table for what has been handed over.
Room == Len(queue) + Cardinality(Pending) <= MaxSeq

Shape ==
  /\ phase \in [AlertIds -> {"new"} \cup Kinds]
  /\ records \subseteq AlertIds
  /\ bindings \subseteq Channels
  /\ floor \in Severities
  /\ queue \in Seq(Rows)
  /\ jobs \in [Jobs -> SUBSET Entries]
  /\ draining \in BOOLEAN
  /\ pc \in [Drains -> Places]
  /\ batch \in [Drains -> SUBSET Copies]
  /\ bound \in [Drains -> SUBSET Channels]
  /\ current \in [Drains -> [seq : 0 .. MaxSeq, attempts : 0 .. MaxAttempts]]
  /\ edits \in 0 .. MaxEdits
  /\ faults \in 0 .. MaxFaults

IInv ==
  /\ Shape
  /\ Room
  /\ DrainsExclude
  /\ HandsAreFresh
  /\ RowsAreSound
  /\ NothingLeftBehind
  /\ OvertakenOnlyAfterFailure
  /\ AbandonedForCause
  /\ CausesHold

-----------------------------------------------------------------------------
(* The table as a sequence.                                                *)

LEMMA Table ==
  ASSUME Shape
  PROVE  /\ Len(queue) \in Nat /\ DOMAIN queue = 1 .. Len(queue)
         /\ \A s \in DOMAIN queue : s \in Nat /\ s > 0 /\ queue[s] \in Rows
<1> QED BY LenProperties, ElementOfSeq DEF Shape

LEMMA RowKinds ==
  /\ \A r \in Messages : r.status # "swept" /\ r # Gone
  /\ Gone.status = "swept"
  /\ \A r \in Rows : r.status # "swept" => r \in Messages
<1> QED BY DEF Rows, Messages, Gone

\* A new row in the place of an old one.
LEMMA Replaced ==
  ASSUME NEW q \in Seq(Rows), NEW s \in DOMAIN q, NEW row \in Rows, NEW p,
         p = [q EXCEPT ![s] = row]
  PROVE  /\ p \in Seq(Rows) /\ Len(p) = Len(q) /\ DOMAIN p = DOMAIN q
         /\ p[s] = row
         /\ \A t \in DOMAIN q : t # s => p[t] = q[t]
<1>1. DOMAIN q = 1 .. Len(q)
  BY LenProperties
<1> QED BY <1>1, ExceptSeq

\* The whole table written anew.
LEMMA Rewritten ==
  ASSUME NEW q \in Seq(Rows), NEW p, DOMAIN p = DOMAIN q, p = [s \in DOMAIN q |-> p[s]],
         \A s \in DOMAIN q : p[s] \in Rows
  PROVE  p \in Seq(Rows) /\ Len(p) = Len(q)
<1>1. DOMAIN q = 1 .. Len(q) /\ Len(q) \in Nat
  BY LenProperties
<1> QED BY <1>1

\* Finitely many rows can be in flight.
LEMMA EntriesAreFinite ==
  IsFiniteSet(Entries) /\ IsFiniteSet(Jobs \X Entries)
<1> DEFINE Parts == (AlertIds \X Channels) \X Kinds
          Split == [e \in Entries |-> <<<<e.alert, e.channel>>, e.kind>>]
<1>1. IsFiniteSet(Kinds)
  <2>1. Kinds = {"fired"} \cup {"resolved"}
    BY DEF Kinds
  <2> QED BY <2>1, FS_AddElement, FS_Singleton
<1>2. IsFiniteSet(Parts)
  BY <1>1, FS_Product, FinitenessAssumption
<1>3. Split \in Injection(Entries, Parts)
  BY DEF Injection, IsInjective, Entries
<1>4. IsFiniteSet(Entries)
  BY <1>2, <1>3, FS_Injection
<1> QED
  BY <1>4, FS_Product, FinitenessAssumption

LEMMA PendingIsFinite ==
  ASSUME NEW S \in SUBSET (Jobs \X Entries)
  PROVE  IsFiniteSet(S) /\ Cardinality(S) \in Nat
<1> QED
  BY EntriesAreFinite, FS_Subset, FS_CardinalityType

LEMMA UnionIsBounded ==
  ASSUME NEW S, IsFiniteSet(S), NEW T, IsFiniteSet(T)
  PROVE  IsFiniteSet(S \cup T) /\ Cardinality(S \cup T) <= Cardinality(S) + Cardinality(T)
<1>1. S \cap T \in SUBSET S
  OBVIOUS
<1>2. Cardinality(S \cap T) \in Nat
  BY <1>1, FS_Subset, FS_CardinalityType
<1>3. Cardinality(S) \in Nat /\ Cardinality(T) \in Nat
  BY FS_CardinalityType
<1>4. /\ IsFiniteSet(S \cup T)
      /\ Cardinality(S \cup T) = Cardinality(S) + Cardinality(T) - Cardinality(S \cap T)
  BY FS_Union
<1> QED BY <1>2, <1>3, <1>4

-----------------------------------------------------------------------------
(* Every step keeps the invariant.                                         *)

\* Beside an active drain all others are idle, with nothing in hand.
LEMMA OthersAreIdle ==
  ASSUME IInv, NEW d \in Drains, Active(d), NEW e \in Drains, e # d
  PROVE  pc[e] = "idle" /\ batch[e] = {} /\ Hand(e) = {}
<1> QED BY DEF IInv, DrainsExclude, HandsAreFresh, Hand, Active, AtMessage

LEMMA Initially == Init => IInv
<1> SUFFICES ASSUME Init PROVE IInv
  OBVIOUS
<1> USE DEF Init
<1>1. DOMAIN queue = {} /\ Len(queue) = 0 /\ queue \in Seq(Rows)
  BY EmptySeq
<1>2. Shape
  <2>1. /\ Nothing \in [seq : 0 .. MaxSeq, attempts : 0 .. MaxAttempts]
        /\ 0 \in 0 .. MaxEdits /\ 0 \in 0 .. MaxFaults
    BY LimitsAssumption DEF Nothing
  <2>2. "idle" \in Places
    BY DEF Places
  <2> QED BY <1>1, <2>1, <2>2 DEF Shape
<1>3. Room
  <2>1. Pending = {}
    BY DEF Pending
  <2> QED BY <1>1, <2>1, FS_EmptySet, LimitsAssumption DEF Room
<1>4. \A d \in Drains : Hand(d) = {}
  BY DEF Hand, AtMessage
<1> QED
  BY <1>1, <1>2, <1>3, <1>4
  DEF IInv, DrainsExclude, Active, HandsAreFresh, RowsAreSound, NothingLeftBehind,
      OvertakenOnlyAfterFailure, AbandonedForCause, CausesHold, AtMessage

\* What the drains and the rows say of each other stays, when neither changes.
LEMMA Undisturbed ==
  ASSUME IInv, UNCHANGED <<queue, drainVars>>, Shape', Room', AbandonedForCause', CausesHold'
  PROVE  IInv'
<1> USE DEF IInv, drainVars
<1>1. \A d \in Drains : Hand(d)' = Hand(d)
  BY DEF Hand
<1>2. DrainsExclude' /\ HandsAreFresh' /\ NothingLeftBehind'
  BY <1>1 DEF DrainsExclude, Active, HandsAreFresh, NothingLeftBehind, Waiting
<1>3. RowsAreSound'
  BY DEF RowsAreSound, RowIsSound, Unrecorded, Waiting
<1>4. OvertakenOnlyAfterFailure'
  BY DEF OvertakenOnlyAfterFailure, Waiting
<1> QED BY <1>2, <1>3, <1>4

LEMMA StartEnqueueKeeps ==
  ASSUME IInv, NEW j \in Jobs, NEW changed \in SUBSET AlertIds, StartEnqueue(j, changed)
  PROVE  IInv'
<1> USE DEF StartEnqueue, tables, config, drainVars
<1>1. EntriesFor(changed) \in SUBSET Entries
  BY DEF EntriesFor, Entries, Handed, Kinds, IInv, Shape
<1>2. Shape'
  BY <1>1 DEF IInv, Shape, Handed, Kinds
<1>3. Room'
  <2> DEFINE New == {j} \X EntriesFor(changed)
  <2>1. Pending' \subseteq Pending \cup New
    BY <1>1 DEF Pending, IInv, Shape
  <2>2. Pending \in SUBSET (Jobs \X Entries) /\ Pending' \in SUBSET (Jobs \X Entries)
    BY <1>2 DEF Pending, IInv, Shape
  <2>3. IsFiniteSet(EntriesFor(changed)) /\ Cardinality(EntriesFor(changed)) \in Nat
    BY <1>1, EntriesAreFinite, FS_Subset, FS_CardinalityType
  <2>4. IsFiniteSet(New) /\ Cardinality(New) = Cardinality(EntriesFor(changed))
    <3>1. IsFiniteSet({j}) /\ Cardinality({j}) = 1
      BY FS_Singleton
    <3>2. /\ IsFiniteSet(New)
          /\ Cardinality(New) = Cardinality({j}) * Cardinality(EntriesFor(changed))
      BY <2>3, <3>1, FS_Product
    <3> HIDE DEF New
    <3> QED BY <2>3, <3>1, <3>2
  <2>5. Cardinality(Pending \cup New) <= Cardinality(Pending) + Cardinality(New)
        /\ IsFiniteSet(Pending \cup New)
    BY <2>2, <2>4, PendingIsFinite, UnionIsBounded
  <2>6. Cardinality(Pending') <= Cardinality(Pending \cup New)
    BY <2>1, <2>5, FS_Subset
  <2>7. Cardinality(Pending) \in Nat /\ Cardinality(Pending') \in Nat
        /\ Cardinality(Pending \cup New) \in Nat
    BY <2>2, <2>5, PendingIsFinite, FS_CardinalityType
  <2>8. Len(queue) \in Nat /\ queue' = queue
    BY Table DEF IInv
  <2>9. Len(queue) + Cardinality(Pending) + Cardinality(EntriesFor(changed)) <= MaxSeq
    BY DEF WithinBound
  <2> HIDE DEF New
  <2> QED BY <2>3, <2>4, <2>5, <2>6, <2>7, <2>8, <2>9, LimitsAssumption DEF Room
<1>4. AbandonedForCause' /\ CausesHold'
  BY DEF AbandonedForCause, CausesHold, IInv
<1> QED BY <1>2, <1>3, <1>4, Undisturbed

LEMMA InsertKeeps ==
  ASSUME IInv, NEW j \in Jobs, NEW e \in jobs[j], Insert(j, e)
  PROVE  IInv'
<1> USE DEF Insert, config, drainVars
<1> DEFINE row == [alert |-> e.alert, channel |-> e.channel, kind |-> e.kind,
                   attempts |-> 0, due |-> TRUE, status |-> "waiting",
                   error |-> "none", accepted |-> 0, doubt |-> 0]
<1>1. e \in Entries
  BY DEF IInv, Shape
<1>2. row \in Messages
  BY <1>1, LimitsAssumption DEF Messages, Entries
<1>3. /\ queue' = Append(queue, row) /\ queue \in Seq(Rows) /\ queue' \in Seq(Rows)
      /\ Len(queue) \in Nat /\ Len(queue') = Len(queue) + 1
      /\ DOMAIN queue = 1 .. Len(queue) /\ DOMAIN queue' = 1 .. (Len(queue) + 1)
      /\ queue'[Len(queue) + 1] = row
      /\ \A s \in DOMAIN queue : queue'[s] = queue[s]
  BY <1>2 DEF IInv, Shape, Rows
<1> HIDE DEF row
<1> PICK new \in Nat : new = Len(queue) + 1
  BY <1>3
<1>4. /\ row.status = "waiting" /\ row.attempts = 0 /\ row.due
      /\ row.accepted = 0 /\ row.doubt = 0
  BY DEF row
<1>5. Shape'
  BY <1>3 DEF IInv, Shape
<1>6. Room'
  <2>1. Pending' = Pending \ {<<j, e>>} /\ <<j, e>> \in Pending
    BY DEF Pending, IInv, Shape
  <2>2. Pending \in SUBSET (Jobs \X Entries)
    BY DEF Pending, IInv, Shape
  <2>3. IsFiniteSet(Pending) /\ Cardinality(Pending) \in Nat
    BY <2>2, PendingIsFinite
  <2>4. Cardinality(Pending') = Cardinality(Pending) - 1
    BY <2>1, <2>3, FS_RemoveElement
  <2> QED BY <1>3, <2>3, <2>4, LimitsAssumption DEF Room, IInv
<1>7. \A d \in Drains : Hand(d)' = Hand(d)
  BY DEF Hand
<1>8. DrainsExclude'
  BY DEF DrainsExclude, Active, IInv
<1>9. HandsAreFresh'
  BY <1>3, <1>7 DEF HandsAreFresh, Waiting, IInv
<1>10. RowsAreSound'
  <2>1. ~Unrecorded(new)'
    <3> SUFFICES ASSUME NEW d \in Drains, pc[d] = "recording" PROVE current[d].seq # new
      BY DEF Unrecorded
    <3>1. current[d] \in Hand(d)
      BY DEF Hand, AtMessage
    <3> QED BY <1>3, <3>1 DEF HandsAreFresh, IInv
  <2>2. \A s \in DOMAIN queue : Unrecorded(s)' <=> Unrecorded(s)
    BY DEF Unrecorded
  <2>3. RowIsSound(new)'
    BY <1>3, <1>4, <2>1, LimitsAssumption DEF RowIsSound, Waiting
  <2>4. \A s \in DOMAIN queue : RowIsSound(s)'
    BY <1>3, <2>2 DEF RowIsSound, RowsAreSound, Waiting, IInv
  <2>5. \A s \in DOMAIN queue' : s \in DOMAIN queue \/ s = new
    BY <1>3
  <2> QED BY <2>3, <2>4, <2>5 DEF RowsAreSound
<1>11. NothingLeftBehind'
  <2>1. \A d \in Drains : \A m \in Hand(d) : m.seq \in DOMAIN queue
    BY DEF HandsAreFresh, IInv
  <2>2. \A s \in DOMAIN queue', t \in DOMAIN queue : s < t => s \in DOMAIN queue
    BY <1>3
  <2> QED BY <1>3, <1>7, <2>1, <2>2 DEF NothingLeftBehind, Waiting, IInv
<1>12. OvertakenOnlyAfterFailure'
  <2>1. \A s, t \in DOMAIN queue' : s < t /\ queue'[t].status = "delivered" =>
          s \in DOMAIN queue /\ t \in DOMAIN queue
    BY <1>3, <1>4
  <2> QED BY <1>3, <2>1 DEF OvertakenOnlyAfterFailure, Waiting, IInv
<1>13. AbandonedForCause'
  <2>1. \A s \in DOMAIN queue' : s \in DOMAIN queue \/ s = new
    BY <1>3
  <2> QED BY <1>3, <1>4, <2>1 DEF AbandonedForCause, IInv
<1>14. CausesHold'
  <2>1. \A d \in Drains : pc[d] \in {"noAlert", "noChannel"} => current[d].seq \in DOMAIN queue
    BY DEF HandsAreFresh, Hand, AtMessage, IInv
  <2> QED BY <1>3, <2>1 DEF CausesHold, IInv
<1> QED
  BY <1>5, <1>6, <1>8, <1>9, <1>10, <1>11, <1>12, <1>13, <1>14 DEF IInv

-----------------------------------------------------------------------------
(* Steps of a drain that leave the rows alone.                             *)

\* A drain that keeps to the rows it has, or lets go of them: its hand loses a part of it
\* that nobody has to follow.
LEMMA HandChanges ==
  ASSUME IInv, NEW d \in Drains, NEW to \in Places,
         UNCHANGED <<phase, records, bindings, floor, edits, queue, jobs>>,
         pc' = [pc EXCEPT ![d] = to],
         Shape', DrainsExclude', HandsAreFresh', NothingLeftBehind', CausesHold',
         ~(pc[d] = "recording"), to # "recording",
         \A e \in Drains : e # d => current'[e] = current[e]
  PROVE  IInv'
<1> USE DEF IInv
<1>1. Room'
  BY DEF Room, Pending
<1>2. \A s \in DOMAIN queue : Unrecorded(s)' <=> Unrecorded(s)
  BY DEF Unrecorded, Shape
<1>3. RowsAreSound'
  BY <1>2 DEF RowsAreSound, RowIsSound, Waiting
<1>4. OvertakenOnlyAfterFailure' /\ AbandonedForCause'
  BY DEF OvertakenOnlyAfterFailure, AbandonedForCause, Waiting
<1> QED BY <1>1, <1>3, <1>4

LEMMA StartDrainKeeps ==
  ASSUME IInv, NEW d \in Drains, StartDrain(d)
  PROVE  IInv'
<1> USE DEF StartDrain, tables, config
<1>1. Shape' /\ "due" \in Places /\ pc[d] # "recording"
  BY DEF IInv, Shape, Places
<1>2. DrainsExclude'
  BY DEF DrainsExclude, Active, MayDrain, IInv, Shape
<1>3. \A e \in Drains : Hand(e)' = {} /\ pc[e] = "idle"
  BY DEF Hand, HandsAreFresh, DrainsExclude, Active, MayDrain, IInv, Shape, AtMessage
<1>4. HandsAreFresh' /\ NothingLeftBehind' /\ CausesHold'
  BY <1>3 DEF HandsAreFresh, NothingLeftBehind, CausesHold, IInv, Shape, AtMessage
<1> QED BY <1>1, <1>2, <1>4, HandChanges

\* What due() returns, row by row.
Early(s) == {u \in Due : Ahead(u, s)}

LEMMA InBatch ==
  \A m : m \in DueBatch <=>
           \E s \in Due : Cardinality(Early(s)) < DueLimit
                            /\ m = [seq |-> s, attempts |-> queue[s].attempts]
<1>1. DueBatch = {[seq |-> s, attempts |-> queue[s].attempts] :
                    s \in {t \in Due : Cardinality(Early(t)) < DueLimit}}
  BY DEF DueBatch, Early
<1> HIDE DEF Early
<1> QED BY <1>1

LEMMA ReadDueKeeps ==
  ASSUME IInv, NEW d \in Drains, ReadDue(d)
  PROVE  IInv'
<1> USE DEF ReadDue, tables, config
<1>1. DueBatch \in SUBSET Copies
  <2>1. Len(queue) <= MaxSeq
    <3>1. Pending \in SUBSET (Jobs \X Entries)
      BY DEF Pending, IInv, Shape
    <3> QED BY <3>1, PendingIsFinite, Table, LimitsAssumption DEF Room, IInv
  <2>2. \A s \in Due : s \in 1 .. MaxSeq /\ queue[s].attempts \in 0 .. MaxAttempts
    BY <2>1, Table, RowKinds, LimitsAssumption DEF Due, Waiting, IInv, Messages
  <2> QED BY <2>2, InBatch DEF Copies
<1>2. Shape' /\ "next" \in Places /\ pc[d] # "recording"
  BY <1>1 DEF IInv, Shape, Places
<1>3. DrainsExclude'
  BY DEF DrainsExclude, Active, IInv, Shape
<1>4. Hand(d)' = DueBatch /\ \A e \in Drains : e # d => Hand(e)' = {} /\ pc'[e] = "idle"
  BY OthersAreIdle DEF Hand, IInv, Shape, Active, AtMessage
<1>5. HandsAreFresh'
  <2>1. \A m \in DueBatch : m.seq \in DOMAIN queue /\ Waiting(m.seq)
                              /\ queue[m.seq].attempts = m.attempts
    BY InBatch DEF Due
  <2>2. pc'[d] = "next" /\ \A e \in Drains : e # d => batch'[e] = {}
    BY OthersAreIdle DEF IInv, Shape, Active
  <2> QED BY <1>4, <2>1, <2>2 DEF HandsAreFresh, AtMessage, Waiting
<1>6. NothingLeftBehind'
  <2> SUFFICES ASSUME NEW m \in DueBatch, NEW s \in DOMAIN queue, s < m.seq, Waiting(s),
                      queue[s].attempts = 0
               PROVE  \E n \in DueBatch : n.seq = s
    BY <1>4 DEF NothingLeftBehind, Waiting
  <2>1. s \in Due
    BY DEF Due, IInv, RowsAreSound, RowIsSound
  <2>2. m.seq \in Due /\ Cardinality(Early(m.seq)) < DueLimit
    BY InBatch
  <2>3. Early(s) \in SUBSET Early(m.seq)
    BY <2>1, <2>2, Table DEF Due, Early, Ahead, IInv
  <2>4. IsFiniteSet(Early(m.seq))
    <3>1. Early(m.seq) \in SUBSET (1 .. Len(queue)) /\ Len(queue) \in Int
      BY Table DEF Due, Early, IInv
    <3>2. IsFiniteSet(1 .. Len(queue))
      BY <3>1, FS_Interval
    <3> QED BY <3>1, <3>2, FS_Subset
  <2>5. Cardinality(Early(s)) <= Cardinality(Early(m.seq)) /\ Cardinality(Early(s)) \in Nat
        /\ Cardinality(Early(m.seq)) \in Nat
    BY <2>3, <2>4, FS_Subset, FS_CardinalityType
  <2>6. Cardinality(Early(s)) < DueLimit
    BY <2>2, <2>5, LimitsAssumption
  <2>7. [seq |-> s, attempts |-> queue[s].attempts] \in DueBatch
    BY <2>1, <2>6, InBatch
  <2> QED BY <2>7
<1>7. CausesHold'
  BY OthersAreIdle DEF CausesHold, IInv, Shape, Active
<1>8. \A e \in Drains : current'[e] = current[e]
  OBVIOUS
<1> QED BY <1>2, <1>3, <1>5, <1>6, <1>7, <1>8, HandChanges

LEMMA TakeNextKeeps ==
  ASSUME IInv, NEW d \in Drains, NEW m \in batch[d], TakeNext(d, m)
  PROVE  IInv'
<1> USE DEF TakeNext, tables, config
<1>1. m \in Copies /\ m.seq \in Nat /\ pc \in [Drains -> Places] /\ m \in Hand(d)
  BY LimitsAssumption DEF IInv, Shape, Copies, Hand
<1>2. \E to \in {"sending", "noAlert", "noChannel"} :
        /\ pc' = [pc EXCEPT ![d] = to]
        /\ to = "noAlert" => queue[m.seq].alert \notin records
        /\ to = "noChannel" => queue[m.seq].channel \notin bound[d]
  BY DEF Deliverable
<1> PICK to \in {"sending", "noAlert", "noChannel"} :
           /\ pc' = [pc EXCEPT ![d] = to]
           /\ to = "noAlert" => queue[m.seq].alert \notin records
           /\ to = "noChannel" => queue[m.seq].channel \notin bound[d]
  BY <1>2
<1>3. to \in Places /\ pc[d] # "recording" /\ to # "recording" /\ pc'[d] = to
  BY <1>1 DEF Places
<1>4. /\ current' = [current EXCEPT ![d] = m] /\ current'[d] = m
      /\ batch' = [batch EXCEPT ![d] = @ \ {m}] /\ batch'[d] = batch[d] \ {m}
      /\ \A e \in Drains : e # d => current'[e] = current[e] /\ batch'[e] = batch[e]
                                      /\ pc'[e] = pc[e]
  BY <1>1 DEF IInv, Shape
<1>5. Shape'
  <2>1. current' \in [Drains -> [seq : 0 .. MaxSeq, attempts : 0 .. MaxAttempts]]
    BY <1>1, <1>4, LimitsAssumption DEF IInv, Shape, Copies
  <2>2. pc' \in [Drains -> Places] /\ batch' \in [Drains -> SUBSET Copies]
    BY <1>3, <1>4 DEF IInv, Shape
  <2> QED BY <2>1, <2>2 DEF IInv, Shape
<1>6. DrainsExclude'
  BY <1>3, <1>4 DEF DrainsExclude, Active, IInv
<1>7. /\ Hand(d)' = Hand(d)
      /\ \A e \in Drains : e # d => Hand(e)' = {} /\ batch'[e] = {} /\ pc'[e] = "idle"
  BY <1>3, <1>4, OthersAreIdle DEF Hand, Active, AtMessage
<1>8. HandsAreFresh'
  <2>1. \A n \in batch[d] \ {m} : m.seq < n.seq
    BY DEF Ahead
  <2>2. pc' [d] \notin {"idle", "due"}
    BY <1>3
  <2> QED BY <1>4, <1>7, <2>1, <2>2 DEF HandsAreFresh, Waiting, IInv, AtMessage
<1>9. NothingLeftBehind'
  BY <1>7 DEF NothingLeftBehind, Waiting, IInv
<1>10. CausesHold'
  BY <1>3, <1>4, <1>7 DEF CausesHold, IInv
<1> QED BY <1>3, <1>4, <1>5, <1>6, <1>8, <1>9, <1>10, HandChanges

LEMMA SendRefusedKeeps ==
  ASSUME IInv, NEW d \in Drains, SendRefused(d)
  PROVE  IInv'
<1> USE DEF SendRefused, tables, config
<1>1. Shape' /\ "failed" \in Places /\ pc[d] # "recording" /\ pc'[d] = "failed"
  BY DEF IInv, Shape, Places
<1>2. \A e \in Drains : e # d => pc'[e] = pc[e]
  BY DEF IInv, Shape
<1>3. DrainsExclude'
  BY <1>1, <1>2 DEF DrainsExclude, Active, IInv
<1>4. \A e \in Drains : Hand(e)' = Hand(e)
  BY <1>1, <1>2 DEF Hand, AtMessage
<1>5. HandsAreFresh' /\ NothingLeftBehind'
  BY <1>1, <1>2, <1>4 DEF HandsAreFresh, NothingLeftBehind, Waiting, IInv, AtMessage
<1>6. CausesHold'
  BY <1>1, <1>2 DEF CausesHold, IInv
<1> QED BY <1>1, <1>3, <1>5, <1>6, HandChanges

\* A drain that ends, or fails between two messages.
LEMMA ReleaseKeeps ==
  ASSUME IInv, NEW d \in Drains, EndDrain(d) \/ DrainFails(d)
  PROVE  IInv'
<1> USE DEF EndDrain, DrainFails, Reset, Released, tables, config
<1>1. Shape' /\ "idle" \in Places /\ pc[d] # "recording" /\ pc'[d] = "idle"
  <2>1. Nothing \in [seq : 0 .. MaxSeq, attempts : 0 .. MaxAttempts]
    BY LimitsAssumption DEF Nothing
  <2>2. faults' \in 0 .. MaxFaults
    BY LimitsAssumption DEF IInv, Shape
  <2>3. "idle" \in Places
    BY DEF Places
  <2>4. /\ pc' \in [Drains -> Places] /\ pc'[d] = "idle" /\ pc[d] # "recording"
        /\ batch' \in [Drains -> SUBSET Copies] /\ bound' \in [Drains -> SUBSET Channels]
    BY <2>3 DEF IInv, Shape
  <2>5. current' \in [Drains -> [seq : 0 .. MaxSeq, attempts : 0 .. MaxAttempts]]
    BY <2>1 DEF IInv, Shape
  <2>6. /\ draining' \in BOOLEAN
        /\ UNCHANGED <<phase, records, bindings, floor, queue, jobs, edits>>
    OBVIOUS
  <2> QED BY <2>2, <2>3, <2>4, <2>5, <2>6 DEF IInv, Shape
<1>2. pc[d] # "idle" /\ \A e \in Drains : pc'[e] = "idle" /\ batch'[e] = {}
  BY <1>1, OthersAreIdle DEF IInv, Shape, Active
<1>3. \A e \in Drains : Hand(e)' = {}
  BY <1>2 DEF Hand, AtMessage
<1>4. DrainsExclude' /\ HandsAreFresh' /\ NothingLeftBehind' /\ CausesHold'
  BY <1>2, <1>3 DEF DrainsExclude, Active, HandsAreFresh, NothingLeftBehind, CausesHold, AtMessage
<1>5. \A e \in Drains : e # d => current'[e] = current[e]
  BY DEF IInv, Shape
<1> QED BY <1>1, <1>4, <1>5, HandChanges

-----------------------------------------------------------------------------
(* Steps of a drain that write the row it is at.                           *)

\* Why a row may be given up.
HasCause(row) ==
  \/ row.error = "failed" /\ row.attempts = MaxAttempts
  \/ row.error = "noAlert" /\ row.alert \notin records
  \/ row.error = "noChannel" /\ (edits = 0 => row.channel \notin bindings)

\* The row a drain is at waits, and the others are not in question.
LEMMA AtRow ==
  ASSUME IInv, NEW d \in Drains, pc[d] \in AtMessage
  PROVE  /\ current[d].seq \in DOMAIN queue /\ queue[current[d].seq] \in Messages
         /\ Waiting(current[d].seq) /\ queue[current[d].seq].attempts = current[d].attempts
         /\ current[d] \in Hand(d) /\ queue \in Seq(Rows)
         /\ \A s \in DOMAIN queue : Unrecorded(s) <=> pc[d] = "recording" /\ s = current[d].seq
<1>1. current[d] \in Hand(d)
  BY DEF Hand
<1>2. current[d].seq \in DOMAIN queue /\ Waiting(current[d].seq)
      /\ queue[current[d].seq].attempts = current[d].attempts
  BY <1>1 DEF IInv, HandsAreFresh
<1>3. queue[current[d].seq] \in Messages
  BY <1>2, Table, RowKinds DEF IInv, Waiting
<1>4. \A e \in Drains : pc[e] = "recording" => e = d
  BY DEF IInv, DrainsExclude, Active, AtMessage
<1> QED BY <1>1, <1>2, <1>3, <1>4 DEF Unrecorded, IInv, Shape

LEMMA RowChanges ==
  ASSUME IInv, NEW d \in Drains, pc[d] \in AtMessage,
         NEW s, s = current[d].seq, NEW row \in Messages,
         NEW to \in {"next", "recording", "failed"},
         queue' = [queue EXCEPT ![s] = row],
         row.alert = queue[s].alert, row.channel = queue[s].channel,
         UNCHANGED <<phase, records, bindings, floor, edits, jobs, draining, batch, bound>>,
         faults' \in 0 .. MaxFaults,
         pc' = [pc EXCEPT ![d] = to],
         to = "next" => current' = [current EXCEPT ![d] = Nothing],
         to # "next" => /\ current' = current /\ row.status = "waiting"
                        /\ row.attempts = queue[s].attempts /\ row.due = queue[s].due,
         row.status = "waiting" =>
           /\ row.attempts < MaxAttempts
           /\ to = "next" => row.attempts > 0
           /\ to = "recording" => row.accepted = row.doubt + 1
           /\ to # "recording" => row.accepted = row.doubt,
         row.status = "delivered" => row.accepted = row.doubt + 1,
         row.status = "abandoned" => row.accepted = row.doubt /\ HasCause(row)
  PROVE  IInv'
<1>1. /\ s \in DOMAIN queue /\ queue[s] \in Messages /\ Waiting(s)
      /\ current[d] \in Hand(d) /\ queue \in Seq(Rows)
  BY AtRow
<1>2. /\ queue' \in Seq(Rows) /\ Len(queue') = Len(queue) /\ DOMAIN queue' = DOMAIN queue
      /\ queue'[s] = row /\ \A t \in DOMAIN queue : t # s => queue'[t] = queue[t]
  <2>1. row \in Rows
    BY DEF Rows
  <2> QED BY <1>1, <2>1, Replaced
<1>3. /\ pc'[d] = to /\ \A e \in Drains : e # d => pc'[e] = "idle" /\ batch'[e] = {}
      /\ to \in Places /\ pc' \in [Drains -> Places] /\ Active(d)
      /\ to = "next" => current'[d] = Nothing
  BY OthersAreIdle DEF IInv, Shape, Places, Active, AtMessage
<1>4. Shape'
  <2>1. current' \in [Drains -> [seq : 0 .. MaxSeq, attempts : 0 .. MaxAttempts]]
    <3>1. Nothing \in [seq : 0 .. MaxSeq, attempts : 0 .. MaxAttempts]
      BY LimitsAssumption DEF Nothing
    <3> QED BY <3>1 DEF IInv, Shape
  <2> QED BY <1>2, <1>3, <2>1 DEF IInv, Shape
<1>5. Room'
  BY <1>2 DEF Room, Pending, IInv
<1>6. DrainsExclude'
  BY <1>3 DEF DrainsExclude, Active, IInv
<1>7. /\ \A e \in Drains : e # d => Hand(e)' = {}
      /\ Hand(d)' = IF to = "next" THEN batch[d] ELSE Hand(d)
  BY <1>3 DEF Hand, AtMessage
<1>8. /\ batch[d] \subseteq Hand(d)
      /\ \A m \in batch[d] : s < m.seq
      /\ \A m \in Hand(d) : m.seq \in DOMAIN queue /\ Waiting(m.seq)
                              /\ queue[m.seq].attempts = m.attempts
  BY DEF Hand, IInv, HandsAreFresh
<1>9. \A m \in Hand(d)' : m.seq \in DOMAIN queue' /\ queue'[m.seq].status = "waiting"
                            /\ queue'[m.seq].attempts = m.attempts
  <2>1. CASE to = "next"
    <3>1. \A m \in batch[d] : m.seq # s
      BY <1>1, <1>8, Table DEF IInv
    <3> QED BY <1>2, <1>7, <1>8, <2>1, <3>1 DEF Waiting
  <2>2. CASE to # "next"
    BY <1>2, <1>7, <1>8, <2>2 DEF Waiting
  <2> QED BY <2>1, <2>2
<1>10. HandsAreFresh'
  BY <1>3, <1>7, <1>8, <1>9 DEF HandsAreFresh, Waiting, AtMessage
<1>11. RowsAreSound'
  <2>1. \A t \in DOMAIN queue : Unrecorded(t)' <=> to = "recording" /\ t = s
    BY <1>3 DEF Unrecorded
  <2>2. RowIsSound(s)'
    <3>1. to # "next" => (row.attempts = 0 => row.due)
      BY <1>1 DEF IInv, RowsAreSound, RowIsSound
    <3> QED BY <1>1, <1>2, <2>1, <3>1 DEF RowIsSound, Waiting
  <2>3. \A t \in DOMAIN queue : t # s => RowIsSound(t)'
    <3>1. \A t \in DOMAIN queue : t # s => ~Unrecorded(t)
      BY AtRow
    <3> QED BY <1>2, <2>1, <3>1 DEF RowIsSound, Waiting, IInv, RowsAreSound
  <2> QED BY <1>2, <2>2, <2>3 DEF RowsAreSound
<1>12. \A t \in DOMAIN queue : queue'[t].status = "waiting" /\ queue'[t].attempts = 0 =>
         Waiting(t) /\ queue[t].attempts = 0 /\ (to = "next" => t # s)
  BY <1>1, <1>2 DEF Waiting
<1>13. NothingLeftBehind'
  <2> SUFFICES ASSUME NEW m \in Hand(d)', NEW t \in DOMAIN queue, t < m.seq,
                      queue'[t].status = "waiting", queue'[t].attempts = 0
               PROVE  \E n \in Hand(d)' : n.seq = t
    BY <1>2, <1>7 DEF NothingLeftBehind, Waiting
  <2>1. m \in Hand(d)
    BY <1>7, <1>8
  <2>2. PICK n \in Hand(d) : n.seq = t
    BY <1>12, <2>1 DEF IInv, NothingLeftBehind
  <2>3. to = "next" => n # current[d]
    BY <1>12, <2>2
  <2> QED BY <1>7, <2>2, <2>3 DEF Hand
<1>14. OvertakenOnlyAfterFailure'
  <2> SUFFICES ASSUME NEW t \in DOMAIN queue, NEW u \in DOMAIN queue, t < u,
                      queue'[t].status = "waiting", queue'[u].status = "delivered",
                      ~(queue'[t].attempts > 0)
               PROVE  FALSE
    BY <1>2 DEF OvertakenOnlyAfterFailure, Waiting
  <2>1. queue'[t] \in Messages
    BY <1>1, <1>2, Table, RowKinds DEF IInv
  <2>2. queue'[t].attempts = 0
    BY <2>1, LimitsAssumption DEF Messages
  <2>3. Waiting(t) /\ queue[t].attempts = 0 /\ (to = "next" => t # s)
    BY <1>12, <2>2
  <2>4. u = s
    BY <1>2, <2>3 DEF IInv, OvertakenOnlyAfterFailure
  <2>5. PICK n \in Hand(d) : n.seq = t
    BY <1>1, <2>3, <2>4 DEF IInv, NothingLeftBehind
  <2>6. n = current[d] \/ n \in batch[d]
    BY <2>5 DEF Hand
  <2> QED BY <1>1, <1>8, <2>4, <2>5, <2>6, Table DEF IInv
<1>15. AbandonedForCause'
  BY <1>2 DEF AbandonedForCause, HasCause, IInv
<1>16. CausesHold'
  BY <1>3 DEF CausesHold, IInv, AtMessage
<1> QED
  BY <1>4, <1>5, <1>6, <1>10, <1>11, <1>13, <1>14, <1>15, <1>16 DEF IInv

LEMMA GiveUpOrphanKeeps ==
  ASSUME IInv, NEW d \in Drains, GiveUpOrphan(d)
  PROVE  IInv'
<1> USE DEF GiveUpOrphan, Move, config
<1> DEFINE s == current[d].seq
           row == [queue[s] EXCEPT !.status = "abandoned", !.attempts = current[d].attempts,
                                   !.error = pc[d]]
<1>1. pc[d] \in AtMessage /\ pc[d] # "recording"
  BY DEF AtMessage
<1>2. /\ s \in DOMAIN queue /\ queue[s] \in Messages /\ queue[s].attempts = current[d].attempts
      /\ ~Unrecorded(s) /\ Waiting(s)
  BY <1>1, AtRow
<1>3. queue' = [queue EXCEPT ![s] = row]
  BY <1>2
<1>4. row \in Messages /\ row.alert = queue[s].alert /\ row.channel = queue[s].channel
      /\ row.status = "abandoned" /\ row.error = pc[d]
      /\ row.accepted = queue[s].accepted /\ row.doubt = queue[s].doubt
  BY <1>2 DEF Messages
<1>5. row.accepted = row.doubt
  BY <1>2, <1>4 DEF IInv, RowsAreSound, RowIsSound
<1>6. HasCause(row)
  <2>1. pc[d] = "noChannel" /\ edits = 0 => bound[d] = bindings
    BY DEF IInv, CausesHold
  <2> QED BY <1>4, <2>1 DEF HasCause, IInv, CausesHold
<1>7. faults' \in 0 .. MaxFaults
  BY DEF IInv, Shape
<1>8. /\ "next" \in {"next", "recording", "failed"} /\ pc' = [pc EXCEPT ![d] = "next"]
      /\ UNCHANGED <<phase, records, bindings, floor, edits, jobs, draining, batch, bound>>
      /\ current' = [current EXCEPT ![d] = Nothing]
  OBVIOUS
<1> HIDE DEF row, GiveUpOrphan
<1> QED BY <1>1, <1>3, <1>4, <1>5, <1>6, <1>7, <1>8, RowChanges

LEMMA SendAcceptedKeeps ==
  ASSUME IInv, NEW d \in Drains, SendAccepted(d) \/ SendUnanswered(d)
  PROVE  IInv'
<1> USE DEF SendAccepted, SendUnanswered, config
<1>1. /\ pc[d] \in AtMessage /\ pc[d] # "recording" /\ faults' \in 0 .. MaxFaults
  BY DEF AtMessage, IInv, Shape
<1> DEFINE s == current[d].seq
<1>2. /\ s \in DOMAIN queue /\ queue[s] \in Messages /\ ~Unrecorded(s) /\ Waiting(s)
  BY <1>1, AtRow
<1>3. /\ queue[s].accepted = queue[s].doubt /\ queue[s].attempts < MaxAttempts
      /\ queue[s].status = "waiting"
  BY <1>2 DEF IInv, RowsAreSound, RowIsSound, Waiting
<1>4. CASE SendAccepted(d)
  <2> DEFINE row == [queue[s] EXCEPT !.accepted = @ + 1]
  <2>1. queue' = [queue EXCEPT ![s] = row]
    BY <1>2, <1>4
  <2>2. row \in Messages /\ row.alert = queue[s].alert /\ row.channel = queue[s].channel
        /\ row.status = "waiting" /\ row.accepted = row.doubt + 1
        /\ row.attempts = queue[s].attempts /\ row.due = queue[s].due
    BY <1>2, <1>3 DEF Messages
  <2> HIDE DEF row
  <2>3. "recording" \in {"next", "recording", "failed"} /\ pc' = [pc EXCEPT ![d] = "recording"]
        /\ UNCHANGED <<phase, records, bindings, floor, edits, jobs, draining, batch, bound>>
        /\ current' = current
    BY <1>4
  <2> QED BY <1>1, <1>3, <2>1, <2>2, <2>3, RowChanges
<1>5. CASE SendUnanswered(d)
  <2> DEFINE row == [queue[s] EXCEPT !.accepted = queue[s].accepted + 1,
                                     !.doubt = queue[s].doubt + 1]
  <2>1. queue' = [queue EXCEPT ![s] = row]
    BY <1>2, <1>5
  <2>4. row \in Messages
    <3>1. queue[s].accepted + 1 \in Nat /\ queue[s].doubt + 1 \in Nat
      BY <1>2 DEF Messages
    <3> QED BY <1>2, <3>1 DEF Messages
  <2>2. /\ row.alert = queue[s].alert /\ row.channel = queue[s].channel
        /\ row.status = "waiting" /\ row.accepted = row.doubt
        /\ row.attempts = queue[s].attempts /\ row.due = queue[s].due
    BY <1>2, <1>3 DEF Messages
  <2> HIDE DEF row
  <2>3. "failed" \in {"next", "recording", "failed"} /\ pc' = [pc EXCEPT ![d] = "failed"]
        /\ UNCHANGED <<phase, records, bindings, floor, edits, jobs, draining, batch, bound>>
        /\ current' = current
    BY <1>5
  <2> HIDE DEF SendUnanswered, SendAccepted
  <2> QED BY <1>1, <1>3, <2>1, <2>2, <2>3, <2>4, RowChanges
<1> QED BY <1>4, <1>5

LEMMA RecordDeliveredKeeps ==
  ASSUME IInv, NEW d \in Drains, RecordDelivered(d)
  PROVE  IInv'
<1> USE DEF RecordDelivered, Move, config
<1> DEFINE s == current[d].seq
           row == [queue[s] EXCEPT !.status = "delivered", !.error = "none"]
<1>1. pc[d] \in AtMessage /\ pc[d] = "recording" /\ faults' \in 0 .. MaxFaults
  BY DEF AtMessage, IInv, Shape
<1>2. s \in DOMAIN queue /\ queue[s] \in Messages /\ Unrecorded(s) /\ Waiting(s)
  BY <1>1, AtRow
<1>3. queue' = [queue EXCEPT ![s] = row]
  BY <1>2
<1>4. row \in Messages /\ row.alert = queue[s].alert /\ row.channel = queue[s].channel
      /\ row.status = "delivered"
      /\ row.accepted = queue[s].accepted /\ row.doubt = queue[s].doubt
  BY <1>2 DEF Messages
<1>5. row.accepted = row.doubt + 1
  BY <1>2, <1>4 DEF IInv, RowsAreSound, RowIsSound
<1>6. /\ "next" \in {"next", "recording", "failed"} /\ pc' = [pc EXCEPT ![d] = "next"]
      /\ UNCHANGED <<phase, records, bindings, floor, edits, jobs, draining, batch, bound>>
      /\ current' = [current EXCEPT ![d] = Nothing]
  OBVIOUS
<1> HIDE DEF row, RecordDelivered
<1> QED BY <1>1, <1>3, <1>4, <1>5, <1>6, RowChanges

LEMMA RecordFailsKeeps ==
  ASSUME IInv, NEW d \in Drains, RecordFails(d)
  PROVE  IInv'
<1> USE DEF RecordFails, config
<1> DEFINE s == current[d].seq
           row == [queue[s] EXCEPT !.doubt = @ + 1]
<1>1. pc[d] \in AtMessage /\ pc[d] = "recording" /\ faults' \in 0 .. MaxFaults
  BY LimitsAssumption DEF AtMessage, IInv, Shape
<1>2. s \in DOMAIN queue /\ queue[s] \in Messages /\ Unrecorded(s) /\ Waiting(s)
  BY <1>1, AtRow
<1>3. queue' = [queue EXCEPT ![s] = row]
  BY <1>2
<1>4. /\ queue[s].accepted = queue[s].doubt + 1 /\ queue[s].attempts < MaxAttempts
      /\ queue[s].status = "waiting"
  BY <1>2 DEF IInv, RowsAreSound, RowIsSound, Waiting
<1>5. row \in Messages /\ row.alert = queue[s].alert /\ row.channel = queue[s].channel
      /\ row.status = "waiting" /\ row.accepted = row.doubt
      /\ row.attempts = queue[s].attempts /\ row.due = queue[s].due
  BY <1>2, <1>4 DEF Messages
<1>6. /\ "failed" \in {"next", "recording", "failed"} /\ pc' = [pc EXCEPT ![d] = "failed"]
      /\ UNCHANGED <<phase, records, bindings, floor, edits, jobs, draining, batch, bound>>
      /\ current' = current
  OBVIOUS
<1> HIDE DEF row, RecordFails
<1> QED BY <1>1, <1>3, <1>4, <1>5, <1>6, RowChanges

\* A failed attempt: the last one, or one that is retried.
LEMMA AttemptKeeps ==
  ASSUME IInv, NEW d \in Drains, Abandon(d) \/ RetryLater(d)
  PROVE  IInv'
<1> USE DEF Abandon, RetryLater, Move, config
<1> DEFINE s == current[d].seq
<1>1. pc[d] \in AtMessage /\ pc[d] # "recording" /\ faults' \in 0 .. MaxFaults
  BY DEF AtMessage, IInv, Shape
<1>2. /\ s \in DOMAIN queue /\ queue[s] \in Messages /\ queue[s].attempts = current[d].attempts
      /\ ~Unrecorded(s) /\ Waiting(s)
  BY <1>1, AtRow
<1>3. /\ queue[s].accepted = queue[s].doubt /\ queue[s].attempts < MaxAttempts
      /\ queue[s].attempts \in Nat /\ queue[s].status = "waiting"
  BY <1>2, LimitsAssumption DEF IInv, RowsAreSound, RowIsSound, Waiting, Messages
<1>4. CASE Abandon(d)
  <2> DEFINE row == [queue[s] EXCEPT !.status = "abandoned",
                                     !.attempts = current[d].attempts + 1, !.error = "failed"]
  <2>1. queue' = [queue EXCEPT ![s] = row]
    BY <1>2, <1>4
  <2>2. current[d].attempts + 1 = MaxAttempts
    BY <1>2, <1>3, <1>4, LimitsAssumption DEF Exhausted
  <2>5. current[d].attempts + 1 \in 0 .. MaxAttempts
    BY <1>2, <1>3, <2>2, LimitsAssumption
  <2>6. row \in Messages
    BY <1>2, <2>5 DEF Messages
  <2>3. row.alert = queue[s].alert /\ row.channel = queue[s].channel
        /\ row.status = "abandoned" /\ row.accepted = row.doubt
        /\ row.attempts = MaxAttempts /\ row.error = "failed"
    BY <1>2, <1>3, <2>2 DEF Messages
  <2> HIDE DEF row
  <2>4. HasCause(row)
    BY <2>3 DEF HasCause
  <2>7. /\ "next" \in {"next", "recording", "failed"} /\ pc' = [pc EXCEPT ![d] = "next"]
        /\ UNCHANGED <<phase, records, bindings, floor, edits, jobs, draining, batch, bound>>
        /\ current' = [current EXCEPT ![d] = Nothing]
    BY <1>4
  <2> HIDE DEF Abandon, RetryLater
  <2> QED BY <1>1, <2>1, <2>3, <2>4, <2>6, <2>7, RowChanges
<1>5. CASE RetryLater(d)
  <2> DEFINE row == [queue[s] EXCEPT !.attempts = current[d].attempts + 1, !.due = FALSE,
                                     !.error = "failed"]
  <2>1. queue' = [queue EXCEPT ![s] = row]
    BY <1>2, <1>5
  <2>2. current[d].attempts + 1 < MaxAttempts
    BY <1>2, <1>3, <1>5, LimitsAssumption DEF Exhausted
  <2>5. current[d].attempts + 1 \in 0 .. MaxAttempts
    BY <1>2, <1>3, <2>2, LimitsAssumption
  <2>6. row \in Messages
    BY <1>2, <2>5 DEF Messages
  <2>3. row.alert = queue[s].alert /\ row.channel = queue[s].channel
        /\ row.status = "waiting" /\ row.accepted = row.doubt
        /\ row.attempts = current[d].attempts + 1
    BY <1>2, <1>3, <2>2 DEF Messages
  <2> HIDE DEF row
  <2>4. row.attempts > 0 /\ row.attempts < MaxAttempts
    BY <1>2, <1>3, <2>2, <2>3
  <2>7. /\ "next" \in {"next", "recording", "failed"} /\ pc' = [pc EXCEPT ![d] = "next"]
        /\ UNCHANGED <<phase, records, bindings, floor, edits, jobs, draining, batch, bound>>
        /\ current' = [current EXCEPT ![d] = Nothing]
    BY <1>5
  <2> HIDE DEF Abandon, RetryLater
  <2> QED BY <1>1, <2>1, <2>3, <2>4, <2>6, <2>7, RowChanges
<1> QED BY <1>4, <1>5

-----------------------------------------------------------------------------
(* What happens around the drains.                                         *)

\* Rows that change without a hand on them: those that wait keep their attempts, and
\* none is delivered or given up that was not.
LEMMA TableChanges ==
  ASSUME IInv,
         UNCHANGED <<phase, records, bindings, floor, edits>>,
         queue' \in Seq(Rows), Len(queue') = Len(queue), DOMAIN queue' = DOMAIN queue,
         \A s \in DOMAIN queue :
           /\ queue'[s] \in {queue[s], Gone}
                \/ /\ queue[s].status = "waiting" /\ queue'[s].status = "waiting"
                   /\ queue'[s].attempts = queue[s].attempts
                   /\ queue'[s].alert = queue[s].alert
                   /\ queue'[s].channel = queue[s].channel
           /\ queue'[s] = Gone => queue[s].status # "waiting"
  PROVE  /\ OvertakenOnlyAfterFailure' /\ AbandonedForCause'
         /\ \A s \in DOMAIN queue : Waiting(s)' <=> Waiting(s)
         /\ \A s \in DOMAIN queue : Waiting(s) =>
              /\ queue'[s].attempts = queue[s].attempts
              /\ queue'[s].alert = queue[s].alert
              /\ queue'[s].channel = queue[s].channel
<1>1. \A s \in DOMAIN queue :
        /\ queue'[s].status = "waiting" <=> queue[s].status = "waiting"
        /\ queue'[s].status \in {"delivered", "abandoned"} => queue'[s] = queue[s]
        /\ queue[s].status = "waiting" =>
              /\ queue'[s].attempts = queue[s].attempts
              /\ queue'[s].alert = queue[s].alert
              /\ queue'[s].channel = queue[s].channel
  BY RowKinds
<1>2. OvertakenOnlyAfterFailure'
  BY <1>1 DEF IInv, OvertakenOnlyAfterFailure, Waiting
<1>3. AbandonedForCause'
  BY <1>1 DEF IInv, AbandonedForCause
<1> QED BY <1>1, <1>2, <1>3 DEF Waiting

LEMMA BackoffEndsKeeps ==
  ASSUME IInv, NEW s \in DOMAIN queue, BackoffEnds(s)
  PROVE  IInv'
<1> USE DEF BackoffEnds, config, drainVars
<1> DEFINE row == [queue[s] EXCEPT !.due = TRUE]
<1>1. queue[s] \in Messages /\ queue \in Seq(Rows) /\ Waiting(s)
  BY Table, RowKinds DEF IInv, Waiting, Shape
<1>2. row \in Messages /\ row.status = "waiting" /\ row.attempts = queue[s].attempts
      /\ row.alert = queue[s].alert /\ row.channel = queue[s].channel /\ row.due
      /\ row.accepted = queue[s].accepted /\ row.doubt = queue[s].doubt
  BY <1>1 DEF Messages, Waiting
<1>3. queue' = [queue EXCEPT ![s] = row] /\ row \in Rows
  BY <1>1, <1>2 DEF Rows
<1>11. UNCHANGED <<phase, records, bindings, floor, edits, faults, jobs, draining, pc, batch,
                  bound, current>> /\ ~queue[s].due
  OBVIOUS
<1> HIDE DEF row, BackoffEnds
<1>4. /\ queue' \in Seq(Rows) /\ Len(queue') = Len(queue) /\ DOMAIN queue' = DOMAIN queue
      /\ queue'[s] = row /\ \A t \in DOMAIN queue : t # s => queue'[t] = queue[t]
  BY <1>1, <1>3, Replaced
<1>5. /\ OvertakenOnlyAfterFailure' /\ AbandonedForCause'
      /\ \A t \in DOMAIN queue : Waiting(t)' <=> Waiting(t)
      /\ \A t \in DOMAIN queue : Waiting(t) =>
           /\ queue'[t].attempts = queue[t].attempts
           /\ queue'[t].alert = queue[t].alert
           /\ queue'[t].channel = queue[t].channel
  BY <1>1, <1>2, <1>4, <1>11, RowKinds, TableChanges DEF Waiting
<1>6. Shape' /\ Room'
  BY <1>4, <1>11 DEF IInv, Shape, Room, Pending
<1>7. \A d \in Drains : Hand(d)' = Hand(d)
  BY <1>11 DEF Hand
<1>8. DrainsExclude' /\ HandsAreFresh' /\ NothingLeftBehind'
  BY <1>4, <1>5, <1>7, <1>11 DEF IInv, DrainsExclude, Active, HandsAreFresh, NothingLeftBehind
<1>9. RowsAreSound'
  <2>1. \A t \in DOMAIN queue : Unrecorded(t)' <=> Unrecorded(t)
    BY <1>11 DEF Unrecorded
  <2>2. RowIsSound(s)'
    BY <1>1, <1>2, <1>4, <2>1 DEF IInv, RowsAreSound, RowIsSound, Waiting
  <2>3. \A t \in DOMAIN queue : t # s => RowIsSound(t)'
    BY <1>4, <2>1 DEF IInv, RowsAreSound, RowIsSound, Waiting
  <2> QED BY <1>4, <2>2, <2>3 DEF RowsAreSound
<1>10. CausesHold'
  <2>1. \A d \in Drains : pc[d] \in {"noAlert", "noChannel"} =>
          current[d].seq \in DOMAIN queue /\ Waiting(current[d].seq)
    BY DEF IInv, HandsAreFresh, Hand, AtMessage
  <2> QED BY <1>5, <1>11, <2>1 DEF IInv, CausesHold
<1> QED BY <1>5, <1>6, <1>8, <1>9, <1>10 DEF IInv

LEMMA SweepMessagesKeeps ==
  ASSUME IInv, NEW old \in SUBSET DOMAIN queue, SweepMessages(old)
  PROVE  IInv'
<1> USE DEF SweepMessages, config, drainVars
<1>1. queue \in Seq(Rows) /\ \A s \in DOMAIN queue : queue[s] \in Rows
  BY Table DEF IInv, Shape
<1>2. /\ queue' \in Seq(Rows) /\ Len(queue') = Len(queue) /\ DOMAIN queue' = DOMAIN queue
      /\ \A s \in old : queue'[s] = Gone /\ queue[s].status # "waiting"
      /\ \A s \in DOMAIN queue \ old : queue'[s] = queue[s]
  <2>1. \A s \in DOMAIN queue : queue'[s] \in Rows
    BY <1>1 DEF Rows
  <2>2. DOMAIN queue' = DOMAIN queue /\ queue' = [s \in DOMAIN queue |-> queue'[s]]
    OBVIOUS
  <2>3. queue' \in Seq(Rows) /\ Len(queue') = Len(queue)
    BY <1>1, <2>1, <2>2, Rewritten
  <2> QED BY <2>2, <2>3 DEF SweepableMessage, Finished
<1> HIDE DEF SweepMessages
<1>3. UNCHANGED <<phase, records, bindings, floor, edits, faults, jobs, draining, pc, batch,
                  bound, current>>
  BY DEF SweepMessages
<1>4. \A s \in DOMAIN queue :
        queue[s].status = "waiting" => queue'[s] = queue[s] /\ queue[s] # Gone
  BY <1>1, <1>2, RowKinds
<1>5. /\ OvertakenOnlyAfterFailure' /\ AbandonedForCause'
      /\ \A t \in DOMAIN queue : Waiting(t)' <=> Waiting(t)
      /\ \A t \in DOMAIN queue : Waiting(t) =>
           /\ queue'[t].attempts = queue[t].attempts
           /\ queue'[t].alert = queue[t].alert
           /\ queue'[t].channel = queue[t].channel
  BY <1>2, <1>3, <1>4, TableChanges
<1>6. Shape' /\ Room'
  BY <1>2, <1>3 DEF IInv, Shape, Room, Pending
<1>7. \A d \in Drains : Hand(d)' = Hand(d)
  BY <1>3 DEF Hand
<1>8. DrainsExclude' /\ HandsAreFresh' /\ NothingLeftBehind'
  BY <1>2, <1>3, <1>5, <1>7 DEF IInv, DrainsExclude, Active, HandsAreFresh, NothingLeftBehind
<1>9. RowsAreSound'
  <2>1. \A t \in DOMAIN queue : Unrecorded(t)' <=> Unrecorded(t)
    BY <1>3 DEF Unrecorded
  <2>2. \A t \in DOMAIN queue \ old : RowIsSound(t)'
    BY <1>2, <2>1 DEF IInv, RowsAreSound, RowIsSound, Waiting
  <2>3. \A t \in old : RowIsSound(t)'
    BY <1>2, RowKinds DEF RowIsSound, Waiting
  <2> QED BY <1>2, <2>2, <2>3 DEF RowsAreSound
<1>10. CausesHold'
  <2>1. \A d \in Drains : pc[d] \in {"noAlert", "noChannel"} =>
          current[d].seq \in DOMAIN queue /\ Waiting(current[d].seq)
    BY DEF IInv, HandsAreFresh, Hand, AtMessage
  <2> QED BY <1>3, <1>5, <2>1 DEF IInv, CausesHold
<1> QED BY <1>5, <1>6, <1>8, <1>9, <1>10 DEF IInv

LEMMA CrashKeeps ==
  ASSUME IInv, Crash
  PROVE  IInv'
<1> USE DEF Crash, config
<1>1. queue \in Seq(Rows) /\ \A s \in DOMAIN queue : queue[s] \in Rows
  BY Table DEF IInv, Shape
<1>2. \A s \in DOMAIN queue : Unrecorded(s) => Waiting(s) /\ queue[s] \in Messages
  <2>1. \A d \in Drains : pc[d] = "recording" => current[d] \in Hand(d)
    BY DEF Hand, AtMessage
  <2>2. \A s \in DOMAIN queue : Unrecorded(s) => Waiting(s)
    BY <2>1 DEF Unrecorded, IInv, HandsAreFresh
  <2> QED BY <1>1, <2>2, RowKinds DEF Waiting
<1>3. \A s \in DOMAIN queue :
        queue'[s] = IF Unrecorded(s) THEN [queue[s] EXCEPT !.doubt = @ + 1] ELSE queue[s]
  BY DEF Unrecorded
<1>4. \A s \in DOMAIN queue : Unrecorded(s) =>
        /\ queue'[s] \in Messages /\ queue'[s].status = "waiting"
        /\ queue'[s].attempts = queue[s].attempts /\ queue'[s].due = queue[s].due
        /\ queue'[s].alert = queue[s].alert /\ queue'[s].channel = queue[s].channel
        /\ queue'[s].accepted = queue[s].accepted /\ queue'[s].doubt = queue[s].doubt + 1
  <2> SUFFICES ASSUME NEW s \in DOMAIN queue, Unrecorded(s)
               PROVE  /\ queue'[s] \in Messages /\ queue'[s].status = "waiting"
                      /\ queue'[s].attempts = queue[s].attempts /\ queue'[s].due = queue[s].due
                      /\ queue'[s].alert = queue[s].alert /\ queue'[s].channel = queue[s].channel
                      /\ queue'[s].accepted = queue[s].accepted
                      /\ queue'[s].doubt = queue[s].doubt + 1
    OBVIOUS
  <2>1. queue'[s] = [queue[s] EXCEPT !.doubt = @ + 1]
    BY <1>3
  <2>2. queue[s] \in Messages /\ queue[s].status = "waiting"
    BY <1>2 DEF Waiting
  <2> QED BY <2>1, <2>2 DEF Messages
<1>5. \A s \in DOMAIN queue : ~Unrecorded(s) => queue'[s] = queue[s]
  BY <1>3
<1>6. queue' \in Seq(Rows) /\ Len(queue') = Len(queue) /\ DOMAIN queue' = DOMAIN queue
  <2>1. \A s \in DOMAIN queue : queue'[s] \in Rows
    BY <1>1, <1>4, <1>5 DEF Rows
  <2>2. DOMAIN queue' = DOMAIN queue /\ queue' = [s \in DOMAIN queue |-> queue'[s]]
    OBVIOUS
  <2> QED BY <1>1, <2>1, <2>2, Rewritten
<1>7. /\ UNCHANGED <<phase, records, bindings, floor, edits>>
      /\ draining' = FALSE /\ jobs' = [j \in Jobs |-> {}] /\ faults' \in 0 .. MaxFaults
      /\ pc' = [d \in Drains |-> "idle"] /\ batch' = [d \in Drains |-> {}]
      /\ bound' = [d \in Drains |-> {}] /\ current' = [d \in Drains |-> Nothing]
  BY LimitsAssumption DEF IInv, Shape
<1> HIDE DEF Crash
<1>8. /\ OvertakenOnlyAfterFailure' /\ AbandonedForCause'
      /\ \A s \in DOMAIN queue : Waiting(s)' <=> Waiting(s)
      /\ \A s \in DOMAIN queue : Waiting(s) => queue'[s].attempts = queue[s].attempts
  <2>1. \A s \in DOMAIN queue : queue[s].status = "waiting" => queue[s] # Gone
    BY RowKinds
  <2>2. \A s \in DOMAIN queue : queue'[s] = Gone => queue'[s] = queue[s]
    BY <1>4, <1>5, RowKinds
  <2> QED BY <1>2, <1>4, <1>5, <1>6, <1>7, <2>1, <2>2, TableChanges DEF Waiting
<1>9. Shape'
  <2>1. Nothing \in [seq : 0 .. MaxSeq, attempts : 0 .. MaxAttempts] /\ "idle" \in Places
    BY LimitsAssumption DEF Nothing, Places
  <2> QED BY <1>6, <1>7, <2>1 DEF IInv, Shape
<1>10. Room'
  <2>1. Pending' = {}
    BY <1>7 DEF Pending
  <2>2. Cardinality(Pending') = 0
    BY <2>1, FS_EmptySet
  <2>3. Pending \in SUBSET (Jobs \X Entries)
    BY DEF Pending, IInv, Shape
  <2> QED BY <1>6, <2>2, <2>3, PendingIsFinite, Table, LimitsAssumption DEF Room, IInv
<1>11. \A d \in Drains : Hand(d)' = {} /\ pc'[d] = "idle"
  BY <1>7 DEF Hand, AtMessage
<1>12. DrainsExclude' /\ HandsAreFresh' /\ NothingLeftBehind' /\ CausesHold'
  BY <1>7, <1>11 DEF DrainsExclude, Active, HandsAreFresh, NothingLeftBehind, CausesHold, AtMessage
<1>13. RowsAreSound'
  <2>1. \A s \in DOMAIN queue : ~Unrecorded(s)'
    BY <1>11 DEF Unrecorded
  <2>2. \A s \in DOMAIN queue : Unrecorded(s) => RowIsSound(s)'
    BY <1>2, <1>4, <2>1 DEF IInv, RowsAreSound, RowIsSound, Waiting
  <2>3. \A s \in DOMAIN queue : ~Unrecorded(s) => RowIsSound(s)'
    BY <1>5, <2>1 DEF IInv, RowsAreSound, RowIsSound, Waiting
  <2> QED BY <1>6, <2>2, <2>3 DEF RowsAreSound
<1> QED BY <1>8, <1>9, <1>10, <1>12, <1>13 DEF IInv

LEMMA ReconfigureKeeps ==
  ASSUME IInv, NEW some \in SUBSET Channels, NEW least \in Severities,
         Reconfigure(some, least)
  PROVE  IInv'
<1> USE DEF Reconfigure, tables, drainVars
<1>1. Shape' /\ edits' # 0
  BY LimitsAssumption DEF IInv, Shape
<1>2. Room'
  BY DEF IInv, Room, Pending
<1>3. AbandonedForCause' /\ CausesHold'
  BY <1>1 DEF IInv, AbandonedForCause, CausesHold
<1> QED BY <1>1, <1>2, <1>3, Undisturbed

LEMMA SweepAlertsKeeps ==
  ASSUME IInv, NEW old \in SUBSET AlertIds, SweepAlerts(old)
  PROVE  IInv'
<1> USE DEF SweepAlerts, config, drainVars
<1>1. Shape' /\ Room'
  BY DEF IInv, Shape, Room, Pending
<1>2. AbandonedForCause' /\ CausesHold'
  BY DEF IInv, AbandonedForCause, CausesHold
<1> QED BY <1>1, <1>2, Undisturbed

LEMMA Invariant == Spec => []IInv
<1>1. IInv /\ [Next]_vars => IInv'
  <2> SUFFICES ASSUME IInv, [Next]_vars PROVE IInv'
    OBVIOUS
  <2>1. CASE UNCHANGED vars
    <3>1. Shape' /\ Room' /\ AbandonedForCause' /\ CausesHold'
      BY <2>1 DEF IInv, vars, Shape, Room, Pending, AbandonedForCause, CausesHold
    <3> QED BY <2>1, <3>1, Undisturbed DEF vars, drainVars
  <2>2. CASE \E d \in Drains : DrainStep(d)
    BY <2>2, StartDrainKeeps, ReadDueKeeps, TakeNextKeeps, GiveUpOrphanKeeps,
       SendAcceptedKeeps, SendRefusedKeeps, RecordDeliveredKeeps, AttemptKeeps, ReleaseKeeps
    DEF DrainStep
  <2> QED
    BY <2>1, <2>2, StartEnqueueKeeps, InsertKeeps, RecordFailsKeeps, ReleaseKeeps,
       BackoffEndsKeeps, CrashKeeps, ReconfigureKeeps, SweepMessagesKeeps, SweepAlertsKeeps
    DEF Next
<1> QED BY <1>1, Initially, PTL DEF Spec

-----------------------------------------------------------------------------
(* The rows of the queue are those of Outbox.                              *)

\* What Outbox sees of a row.
View(row) ==
  IF row = Gone THEN Gone
  ELSE [status |-> row.status, attempts |-> row.attempts, hits |-> row.accepted]

Views == {View(row) : row \in Rows}

LEMMA Bar ==
  ASSUME Shape
  PROVE  /\ boxBar = [s \in DOMAIN queue |-> View(queue[s])]
         /\ boxBar \in Seq(Views) /\ Len(boxBar) = Len(queue)
         /\ DOMAIN boxBar = DOMAIN queue /\ DOMAIN queue = 1 .. Len(queue)
<1>1. boxBar = [s \in DOMAIN queue |-> View(queue[s])]
  BY DEF boxBar, View
<1>2. DOMAIN queue = 1 .. Len(queue) /\ Len(queue) \in Nat
  BY Table
<1>3. \A s \in DOMAIN queue : View(queue[s]) \in Views
  BY Table DEF Views
<1> HIDE DEF Views, View
<1> QED BY <1>1, <1>2, <1>3

\* A row that waits, as Outbox sees it.
LEMMA ViewOf ==
  ASSUME NEW row \in Messages
  PROVE  /\ View(row) = [status |-> row.status, attempts |-> row.attempts, hits |-> row.accepted]
         /\ row # Gone
<1> QED BY RowKinds DEF View

\* A step that writes one row writes one box.
LEMMA BarOfRow ==
  ASSUME Shape, Shape', NEW s \in DOMAIN queue, NEW row \in Messages,
         queue' = [queue EXCEPT ![s] = row]
  PROVE  boxBar' = [boxBar EXCEPT ![s] = View(row)]
<1>1. /\ DOMAIN queue' = DOMAIN queue /\ queue'[s] = row
      /\ \A t \in DOMAIN queue : t # s => queue'[t] = queue[t]
  OBVIOUS
<1>2. boxBar = [t \in DOMAIN queue |-> View(queue[t])]
      /\ boxBar' = [t \in DOMAIN queue |-> View(queue'[t])]
  BY <1>1 DEF boxBar, View
<1> HIDE DEF View
<1> QED BY <1>1, <1>2

LEMMA InsertImplements ==
  ASSUME IInv, IInv', NEW j \in Jobs, NEW e \in jobs[j], Insert(j, e)
  PROVE  O!Post
<1> USE DEF Insert
<1> DEFINE row == [alert |-> e.alert, channel |-> e.channel, kind |-> e.kind,
                   attempts |-> 0, due |-> TRUE, status |-> "waiting",
                   error |-> "none", accepted |-> 0, doubt |-> 0]
<1>1. row \in Messages /\ row.status = "waiting" /\ row.attempts = 0 /\ row.accepted = 0
  BY LimitsAssumption DEF Messages, Entries, IInv, Shape
<1>2. /\ queue' = Append(queue, row) /\ queue \in Seq(Rows) /\ Len(queue) \in Nat
  BY Table DEF IInv, Shape
<1> HIDE DEF row
<1>3. /\ Len(queue') = Len(queue) + 1 /\ queue'[Len(queue) + 1] = row
      /\ \A s \in 1 .. Len(queue) : queue'[s] = queue[s]
  BY <1>1, <1>2 DEF Rows
<1>4. View(row) = O!New
  BY <1>1, ViewOf DEF O!New
<1>5. Len(queue) < MaxSeq
  <2>1. Pending \in SUBSET (Jobs \X Entries) /\ Pending' \in SUBSET (Jobs \X Entries)
    BY DEF Pending, IInv, Shape
  <2>2. Cardinality(Pending') \in Nat
    BY <2>1, PendingIsFinite
  <2>3. Len(queue') + Cardinality(Pending') <= MaxSeq
    BY DEF IInv, Room
  <2> QED BY <1>2, <1>3, <2>2, <2>3, LimitsAssumption
<1>6. boxBar \in Seq(Views) /\ Len(boxBar) = Len(queue) /\ O!New \in Views
      /\ \A s \in 1 .. Len(queue) : boxBar[s] = View(queue[s])
  BY <1>1, <1>4, Bar DEF IInv, Views, Rows
<1>7. /\ DOMAIN queue' = 1 .. Len(queue')
      /\ boxBar' = [s \in 1 .. (Len(queue) + 1) |-> View(queue'[s])]
  <2>1. DOMAIN queue' = 1 .. Len(queue')
    BY LenProperties DEF IInv, Shape
  <2> QED BY <1>3, <2>1 DEF boxBar, View
<1>8. boxBar' = Append(boxBar, O!New)
  <2> HIDE DEF View, Views
  <2> DEFINE after == Append(boxBar, O!New)
  <2>1. /\ after \in Seq(Views) /\ Len(after) = Len(queue) + 1
        /\ after[Len(queue) + 1] = O!New
        /\ \A s \in 1 .. Len(queue) : after[s] = View(queue[s])
    BY <1>2, <1>6, AppendProperties
  <2>2. after = [s \in 1 .. (Len(queue) + 1) |-> after[s]]
    BY <1>2, <2>1, LenProperties
  <2>3. \A s \in 1 .. (Len(queue) + 1) : after[s] = View(queue'[s])
    BY <1>2, <1>3, <1>4, <2>1
  <2> HIDE DEF after
  <2>4. after = boxBar'
    BY <1>7, <2>2, <2>3
  <2> QED BY <2>4 DEF after
<1> QED BY <1>5, <1>6, <1>8 DEF O!Post

\* What the steps of Outbox write into a box, for a table of them.
LEMMA FieldWritten ==
  ASSUME NEW q, NEW s \in DOMAIN q
  PROVE  /\ [q EXCEPT ![s].hits = @ + 1] = [q EXCEPT ![s] = [q[s] EXCEPT !.hits = q[s].hits + 1]]
         /\ [q EXCEPT ![s].attempts = @ + 1] =
              [q EXCEPT ![s] = [q[s] EXCEPT !.attempts = q[s].attempts + 1]]
<1> QED OBVIOUS

LEMMA StatusWritten ==
  ASSUME NEW q, NEW s \in DOMAIN q, NEW new
  PROVE  [q EXCEPT ![s].status = new] = [q EXCEPT ![s] = [q[s] EXCEPT !.status = new]]
<1> QED OBVIOUS

LEMMA BothWritten ==
  ASSUME NEW q, NEW s \in DOMAIN q, NEW new
  PROVE  [q EXCEPT ![s].attempts = @ + 1, ![s].status = new] =
           [q EXCEPT ![s] = [[q[s] EXCEPT !.attempts = q[s].attempts + 1] EXCEPT !.status = new]]
<1> DEFINE mid == [q EXCEPT ![s].attempts = @ + 1]
<1>1. /\ DOMAIN mid = DOMAIN q /\ mid[s] = [q[s] EXCEPT !.attempts = q[s].attempts + 1]
      /\ \A t \in DOMAIN q : t # s => mid[t] = q[t]
  OBVIOUS
<1>2. [q EXCEPT ![s].attempts = @ + 1, ![s].status = new] = [mid EXCEPT ![s].status = new]
  OBVIOUS
<1>3. [mid EXCEPT ![s].status = new] = [mid EXCEPT ![s] = [mid[s] EXCEPT !.status = new]]
  BY <1>1, StatusWritten
<1>4. \A v : [mid EXCEPT ![s] = v] = [q EXCEPT ![s] = v]
  <2> TAKE v
  <2> HIDE DEF mid
  <2> QED BY <1>1
<1> HIDE DEF mid
<1> QED BY <1>1, <1>2, <1>3, <1>4

\* A step of a drain on the row it is at.
LEMMA AtRowImplements ==
  ASSUME IInv, IInv', NEW d \in Drains,
         \/ GiveUpOrphan(d) \/ SendAccepted(d) \/ SendUnanswered(d)
         \/ RecordDelivered(d) \/ Abandon(d) \/ RetryLater(d)
  PROVE  O!Next
<1> DEFINE s == current[d].seq
<1>1. pc[d] \in AtMessage /\ (pc[d] = "failed" => ~Unrecorded(s))
  <2>1. pc[d] \in AtMessage
    BY DEF GiveUpOrphan, SendAccepted, SendUnanswered, RecordDelivered, Abandon, RetryLater,
           AtMessage
  <2> QED BY <2>1, AtRow
<1>2. /\ s \in DOMAIN queue /\ queue[s] \in Messages /\ queue[s].attempts = current[d].attempts
      /\ queue[s].status = "waiting" /\ queue[s].attempts \in Nat
      /\ pc[d] = "recording" => Unrecorded(s)
  BY <1>1, AtRow, LimitsAssumption DEF Waiting, Messages
<1>3. /\ s \in DOMAIN boxBar /\ boxBar \in Seq(Views)
      /\ boxBar[s] = [status |-> "waiting", attempts |-> queue[s].attempts,
                      hits |-> queue[s].accepted]
  BY <1>2, Bar, ViewOf DEF IInv
<1>4. O!Waits(s)
  BY <1>3 DEF O!Waits
<1>5. queue[s].attempts < MaxAttempts
  BY <1>2 DEF IInv, RowsAreSound, RowIsSound, Waiting
<1>6. \A row \in Messages : queue' = [queue EXCEPT ![s] = row] =>
        boxBar' = [boxBar EXCEPT ![s] = [status |-> row.status, attempts |-> row.attempts,
                                         hits |-> row.accepted]]
  <2> SUFFICES ASSUME NEW row \in Messages, queue' = [queue EXCEPT ![s] = row]
               PROVE  boxBar' = [boxBar EXCEPT ![s] =
                        [status |-> row.status, attempts |-> row.attempts, hits |-> row.accepted]]
    OBVIOUS
  <2>1. Shape /\ Shape'
    BY DEF IInv
  <2>2. boxBar' = [boxBar EXCEPT ![s] = View(row)]
    BY <1>2, <2>1, BarOfRow
  <2> QED BY <2>2, ViewOf
<1>7. CASE SendAccepted(d) \/ SendUnanswered(d)
  <2> DEFINE row == IF SendAccepted(d)
                    THEN [queue[s] EXCEPT !.accepted = queue[s].accepted + 1]
                    ELSE [queue[s] EXCEPT !.accepted = queue[s].accepted + 1,
                                          !.doubt = queue[s].doubt + 1]
  <2>1. queue' = [queue EXCEPT ![s] = row]
    BY <1>2, <1>7 DEF SendAccepted, SendUnanswered
  <2>2. row \in Messages
    <3>1. queue[s].accepted + 1 \in Nat /\ queue[s].doubt + 1 \in Nat
      BY <1>2 DEF Messages
    <3> QED BY <1>2, <3>1 DEF Messages
  <2>3. row.status = "waiting" /\ row.attempts = queue[s].attempts
        /\ row.accepted = queue[s].accepted + 1
    BY <1>2 DEF Messages
  <2> HIDE DEF row
  <2>4. boxBar' = [boxBar EXCEPT ![s] = [status |-> "waiting", attempts |-> queue[s].attempts,
                                         hits |-> queue[s].accepted + 1]]
    BY <1>6, <2>1, <2>2, <2>3
  <2>10. [boxBar EXCEPT ![s].hits = @ + 1] =
            [boxBar EXCEPT ![s] = [boxBar[s] EXCEPT !.hits = boxBar[s].hits + 1]]
    BY <1>3, FieldWritten
  <2>11. [boxBar[s] EXCEPT !.hits = boxBar[s].hits + 1]
           = [status |-> "waiting", attempts |-> queue[s].attempts,
          hits |-> queue[s].accepted + 1]
    BY <1>3
  <2>5. O!Hit(s)
    BY <1>3, <1>4, <2>4, <2>10, <2>11 DEF O!Hit
  <2> QED BY <1>3, <2>5 DEF O!Next
<1>8. CASE GiveUpOrphan(d)
  <2> DEFINE row == [queue[s] EXCEPT !.status = "abandoned", !.attempts = current[d].attempts,
                                     !.error = pc[d]]
  <2>1. queue' = [queue EXCEPT ![s] = row]
    BY <1>2, <1>8 DEF GiveUpOrphan
  <2>2. row \in Messages /\ row.status = "abandoned" /\ row.attempts = queue[s].attempts
        /\ row.accepted = queue[s].accepted
    BY <1>2, <1>8 DEF Messages, GiveUpOrphan
  <2> HIDE DEF row
  <2>3. boxBar' = [boxBar EXCEPT ![s] = [status |-> "abandoned", attempts |-> queue[s].attempts,
                                         hits |-> queue[s].accepted]]
    BY <1>6, <2>1, <2>2
  <2>10. [boxBar EXCEPT ![s].status = "abandoned"] =
            [boxBar EXCEPT ![s] = [boxBar[s] EXCEPT !.status = "abandoned"]]
    BY <1>3, StatusWritten
  <2>11. [boxBar[s] EXCEPT !.status = "abandoned"]
           = [status |-> "abandoned", attempts |-> queue[s].attempts,
          hits |-> queue[s].accepted]
    BY <1>3
  <2>4. O!Orphan(s)
    BY <1>3, <1>4, <2>3, <2>10, <2>11 DEF O!Orphan
  <2> QED BY <1>3, <2>4 DEF O!Next
<1>9. CASE RecordDelivered(d)
  <2> DEFINE row == [queue[s] EXCEPT !.status = "delivered", !.error = "none"]
  <2>1. queue' = [queue EXCEPT ![s] = row]
    BY <1>2, <1>9 DEF RecordDelivered
  <2>2. row \in Messages /\ row.status = "delivered" /\ row.attempts = queue[s].attempts
        /\ row.accepted = queue[s].accepted
    BY <1>2 DEF Messages
  <2> HIDE DEF row
  <2>3. boxBar' = [boxBar EXCEPT ![s] = [status |-> "delivered", attempts |-> queue[s].attempts,
                                         hits |-> queue[s].accepted]]
    BY <1>6, <2>1, <2>2
  <2>4. queue[s].accepted > 0
    <3>1. queue[s].accepted = queue[s].doubt + 1
      BY <1>2, <1>9 DEF RecordDelivered, IInv, RowsAreSound, RowIsSound, Waiting
    <3> QED BY <1>2, <3>1 DEF Messages
  <2>10. [boxBar EXCEPT ![s].status = "delivered"] =
            [boxBar EXCEPT ![s] = [boxBar[s] EXCEPT !.status = "delivered"]]
    BY <1>3, StatusWritten
  <2>11. [boxBar[s] EXCEPT !.status = "delivered"]
           = [status |-> "delivered", attempts |-> queue[s].attempts,
          hits |-> queue[s].accepted]
    BY <1>3
  <2>5. O!Deliver(s)
    BY <1>3, <1>4, <2>3, <2>4, <2>10, <2>11 DEF O!Deliver
  <2> QED BY <1>3, <2>5 DEF O!Next
<1>10. CASE Abandon(d)
  <2> DEFINE row == [queue[s] EXCEPT !.status = "abandoned",
                                     !.attempts = current[d].attempts + 1, !.error = "failed"]
  <2>1. queue' = [queue EXCEPT ![s] = row]
    BY <1>2, <1>10 DEF Abandon
  <2>2. queue[s].attempts + 1 = MaxAttempts /\ current[d].attempts + 1 \in 0 .. MaxAttempts
    BY <1>2, <1>5, <1>10, LimitsAssumption DEF Abandon, Exhausted
  <2>3. row \in Messages
    BY <1>2, <2>2 DEF Messages
  <2>4. row.status = "abandoned" /\ row.attempts = queue[s].attempts + 1
        /\ row.accepted = queue[s].accepted
    BY <1>2 DEF Messages
  <2> HIDE DEF row
  <2>5. boxBar' = [boxBar EXCEPT ![s] = [status |-> "abandoned",
                                         attempts |-> queue[s].attempts + 1,
                                         hits |-> queue[s].accepted]]
    BY <1>6, <2>1, <2>3, <2>4
  <2>10. [boxBar EXCEPT ![s].attempts = @ + 1, ![s].status = "abandoned"] =
            [boxBar EXCEPT ![s] = [[boxBar[s] EXCEPT !.attempts = boxBar[s].attempts + 1]
                                     EXCEPT !.status = "abandoned"]]
    BY <1>3, BothWritten
  <2>11. [[boxBar[s] EXCEPT !.attempts = boxBar[s].attempts + 1] EXCEPT !.status = "abandoned"]
           = [status |-> "abandoned", attempts |-> queue[s].attempts + 1,
              hits |-> queue[s].accepted]
    <3>1. [boxBar[s] EXCEPT !.attempts = boxBar[s].attempts + 1] =
            [status |-> "waiting", attempts |-> queue[s].attempts + 1,
             hits |-> queue[s].accepted]
      BY <1>3
    <3>2. \A at, h : [[status |-> "waiting", attempts |-> at, hits |-> h]
                        EXCEPT !.status = "abandoned"]
                      = [status |-> "abandoned", attempts |-> at, hits |-> h]
      OBVIOUS
    <3> QED BY <3>1, <3>2
  <2>6. O!Exhaust(s)
    BY <1>3, <1>4, <2>2, <2>5, <2>10, <2>11 DEF O!Exhaust
  <2> QED BY <1>3, <2>6 DEF O!Next
<1>11. CASE RetryLater(d)
  <2> DEFINE row == [queue[s] EXCEPT !.attempts = current[d].attempts + 1, !.due = FALSE,
                                     !.error = "failed"]
  <2>1. queue' = [queue EXCEPT ![s] = row]
    BY <1>2, <1>11 DEF RetryLater
  <2>2. queue[s].attempts + 1 < MaxAttempts /\ current[d].attempts + 1 \in 0 .. MaxAttempts
    BY <1>2, <1>5, <1>11, LimitsAssumption DEF RetryLater, Exhausted
  <2>3. row \in Messages
    BY <1>2, <2>2 DEF Messages
  <2>4. row.status = "waiting" /\ row.attempts = queue[s].attempts + 1
        /\ row.accepted = queue[s].accepted
    BY <1>2 DEF Messages
  <2> HIDE DEF row
  <2>5. boxBar' = [boxBar EXCEPT ![s] = [status |-> "waiting",
                                         attempts |-> queue[s].attempts + 1,
                                         hits |-> queue[s].accepted]]
    BY <1>6, <2>1, <2>3, <2>4
  <2>10. [boxBar EXCEPT ![s].attempts = @ + 1] =
            [boxBar EXCEPT ![s] = [boxBar[s] EXCEPT !.attempts = boxBar[s].attempts + 1]]
    BY <1>3, FieldWritten
  <2>11. [boxBar[s] EXCEPT !.attempts = boxBar[s].attempts + 1]
           = [status |-> "waiting", attempts |-> queue[s].attempts + 1,
          hits |-> queue[s].accepted]
    BY <1>3
  <2>6. O!Retry(s)
    BY <1>3, <1>4, <2>2, <2>5, <2>10, <2>11 DEF O!Retry
  <2> QED BY <1>3, <2>6 DEF O!Next
<1> QED BY <1>7, <1>8, <1>9, <1>10, <1>11

LEMMA SweepMessagesImplements ==
  ASSUME IInv, IInv', NEW old \in SUBSET DOMAIN queue, SweepMessages(old)
  PROVE  O!Next
<1>1. /\ DOMAIN boxBar = DOMAIN queue
      /\ \A s \in DOMAIN queue : boxBar[s] = View(queue[s])
  BY Bar DEF IInv
<1>2. \A s \in old : boxBar[s].status \in {"delivered", "abandoned"}
  <2>1. \A s \in old : queue[s] \in Messages /\ queue[s].status \in {"delivered", "abandoned"}
    BY Table, RowKinds DEF IInv, SweepMessages, SweepableMessage, Finished
  <2> QED BY <1>1, <2>1, ViewOf
<1>3. boxBar' = [s \in DOMAIN boxBar |-> IF s \in old THEN O!Gone ELSE boxBar[s]]
  <2>1. /\ DOMAIN queue' = DOMAIN queue
        /\ \A s \in DOMAIN queue : queue'[s] = IF s \in old THEN Gone ELSE queue[s]
    BY DEF SweepMessages
  <2>2. boxBar' = [s \in DOMAIN queue |-> View(queue'[s])]
    BY <2>1 DEF boxBar, View
  <2>3. View(Gone) = O!Gone
    BY DEF View, Gone, O!Gone
  <2> HIDE DEF View
  <2> QED BY <1>1, <2>1, <2>2, <2>3
<1>4. O!Forget(old)
  BY <1>1, <1>2, <1>3 DEF O!Forget
<1> QED BY <1>1, <1>4 DEF O!Next

\* Steps that neither hit nor end a message: the rows change in what Outbox does not see.
LEMMA OthersStutter ==
  ASSUME IInv, IInv', DOMAIN queue' = DOMAIN queue,
         \A s \in DOMAIN queue : View(queue'[s]) = View(queue[s])
  PROVE  boxBar' = boxBar
<1>1. /\ boxBar = [s \in DOMAIN queue |-> View(queue[s])]
      /\ boxBar' = [s \in DOMAIN queue |-> View(queue'[s])]
  BY DEF boxBar, View
<1> HIDE DEF View
<1> QED BY <1>1

LEMMA NextImplements ==
  ASSUME IInv, IInv', [Next]_vars
  PROVE  [O!Next]_boxBar
<1>1. CASE UNCHANGED queue
  BY <1>1, OthersStutter
<1>2. ASSUME NEW s \in DOMAIN queue, BackoffEnds(s) PROVE boxBar' = boxBar
  <2>1. queue[s] \in Messages
    BY <1>2, Table, RowKinds DEF IInv, BackoffEnds, Waiting
  <2>2. queue' = [queue EXCEPT ![s] = [queue[s] EXCEPT !.due = TRUE]]
    BY <1>2 DEF BackoffEnds
  <2>3. DOMAIN queue' = DOMAIN queue /\ \A t \in DOMAIN queue : t # s => queue'[t] = queue[t]
    BY <2>2
  <2>4. /\ queue'[s] \in Messages /\ queue'[s].status = queue[s].status
        /\ queue'[s].attempts = queue[s].attempts /\ queue'[s].accepted = queue[s].accepted
    BY <2>1, <2>2 DEF Messages
  <2>5. View(queue'[s]) = View(queue[s])
    BY <2>1, <2>4, ViewOf
  <2> QED BY <2>3, <2>5, OthersStutter
<1>3. ASSUME Crash PROVE boxBar' = boxBar
  <2>1. /\ DOMAIN queue' = DOMAIN queue
        /\ \A s \in DOMAIN queue :
             queue'[s] = IF Unrecorded(s) THEN [queue[s] EXCEPT !.doubt = @ + 1] ELSE queue[s]
    BY <1>3 DEF Crash, Unrecorded
  <2>2. \A s \in DOMAIN queue : Unrecorded(s) => queue[s] \in Messages
    <3>1. \A d \in Drains : pc[d] = "recording" => current[d] \in Hand(d)
      BY DEF Hand, AtMessage
    <3>2. \A s \in DOMAIN queue : Unrecorded(s) => Waiting(s)
      BY <3>1 DEF Unrecorded, IInv, HandsAreFresh
    <3> QED BY <3>2, Table, RowKinds DEF Waiting, IInv
  <2>3. \A s \in DOMAIN queue : View(queue'[s]) = View(queue[s])
    <3> SUFFICES ASSUME NEW s \in DOMAIN queue, Unrecorded(s)
                 PROVE  View(queue'[s]) = View(queue[s])
      BY <2>1
    <3>1. queue[s] \in Messages /\ queue'[s] = [queue[s] EXCEPT !.doubt = @ + 1]
      BY <2>1, <2>2
    <3>2. /\ queue'[s] \in Messages /\ queue'[s].status = queue[s].status
          /\ queue'[s].attempts = queue[s].attempts /\ queue'[s].accepted = queue[s].accepted
      BY <3>1 DEF Messages
    <3> QED BY <3>1, <3>2, ViewOf
  <2> QED BY <2>1, <2>3, OthersStutter
<1>4. CASE \E d \in Drains : DrainStep(d)
  BY <1>1, <1>4, AtRowImplements
  DEF DrainStep, StartDrain, ReadDue, TakeNext, SendRefused, EndDrain, tables
<1>5. ASSUME NEW d \in Drains, RecordFails(d) PROVE boxBar' = boxBar
  <2> DEFINE s == current[d].seq
  <2>1. s \in DOMAIN queue /\ queue[s] \in Messages
    BY <1>5, AtRow DEF RecordFails, AtMessage
  <2>2. queue' = [queue EXCEPT ![s] = [queue[s] EXCEPT !.doubt = queue[s].doubt + 1]]
    BY <1>5 DEF RecordFails
  <2>3. DOMAIN queue' = DOMAIN queue /\ \A t \in DOMAIN queue : t # s => queue'[t] = queue[t]
    BY <2>2
  <2>4. /\ queue'[s] \in Messages /\ queue'[s].status = queue[s].status
        /\ queue'[s].attempts = queue[s].attempts /\ queue'[s].accepted = queue[s].accepted
    BY <2>1, <2>2 DEF Messages
  <2>5. View(queue'[s]) = View(queue[s])
    BY <2>1, <2>4, ViewOf
  <2> QED BY <2>3, <2>5, OthersStutter
<1>6. ASSUME NEW j \in Jobs, NEW e \in jobs[j], Insert(j, e) PROVE O!Next
  BY <1>6, InsertImplements DEF O!Next
<1>7. ASSUME NEW old \in SUBSET DOMAIN queue, SweepMessages(old) PROVE O!Next
  BY <1>7, SweepMessagesImplements
<1> QED
  BY <1>1, <1>2, <1>3, <1>4, <1>5, <1>6, <1>7
  DEF Next, StartEnqueue, DrainFails, Reconfigure, SweepAlerts, tables, vars

-----------------------------------------------------------------------------
\* A channel gets a message again only after a failure that forces it, and one is overtaken
\* only after it has failed (drain of notify/dispatcher.ts).
THEOREM QueueIsAlwaysSound == Spec => []QueueIsSound
<1>1. IInv => QueueIsSound
  <2> SUFFICES ASSUME IInv PROVE QueueIsSound
    OBVIOUS
  <2>1. \A s \in DOMAIN queue : queue[s] # Gone =>
          queue[s] \in Messages /\ queue[s].status \in {"waiting", "delivered", "abandoned"}
            /\ queue[s].doubt \in Nat
    BY Table DEF IInv, Rows, Messages
  <2>2. NoUnforcedDuplicate
    BY <2>1 DEF NoUnforcedDuplicate, IInv, RowsAreSound, RowIsSound, Waiting
  <2> QED BY <2>2 DEF QueueIsSound, IInv
<1> QED BY <1>1, Invariant, PTL

\* Every variable keeps its shape, and a message is given up only with a reason (giveUp of
\* notify/dispatcher.ts).
THEOREM GivenUpForCause == Spec => []Consistent
<1>1. IInv => Consistent
  <2> SUFFICES ASSUME IInv PROVE Consistent
    OBVIOUS
  <2>1. Pending \in SUBSET (Jobs \X Entries)
    BY DEF Pending, IInv, Shape
  <2>2. Len(queue) <= MaxSeq
    BY <2>1, PendingIsFinite, Table, LimitsAssumption DEF Room, IInv
  <2>3. TypeOK
    BY <2>2 DEF TypeOK, IInv, Shape, Rows, Copies, Places
  <2> QED BY <2>3 DEF Consistent, IInv
<1> QED BY <1>1, Invariant, PTL

\* However drains interleave, fail or are killed, each message is handled as Outbox says:
\* hit only while it waits, ended once, delivered only if the channel has it.
THEOREM Implements == Spec => ImplementsOutbox
<1>1. Init => O!Init
  <2> SUFFICES ASSUME Init PROVE boxBar = <<>>
    BY DEF O!Init
  <2>1. DOMAIN queue = {}
    BY DEF Init
  <2> QED BY <2>1 DEF boxBar
<1>2. IInv /\ IInv' /\ [Next]_vars => [O!Next]_boxBar
  BY NextImplements
<1> QED BY <1>1, <1>2, Invariant, PTL DEF Spec, ImplementsOutbox, O!Spec

-----------------------------------------------------------------------------
(* Together.                                                               *)

BackgroundInv ==
  /\ part = "polls" => PollsInv
  /\ part = "discovery" => DiscoveryInv
  /\ part = "keys" => KeysInv

\* Of what the server does on its own, whatever its drains, polls, sweeps and fetches do
\* at once and whatever fails: a table of the cluster holds one snapshot unless two
\* transactions crossed, an override of an integration stays and an agent's first report
\* brings its screens, and a key the cluster has signed with for an interval is known.
THEOREM TheClusterIsKnown == Background => []ClusterIsKnown
<1>1. BackgroundInit => BackgroundInv
  BY PollsStart, DiscoveryStarts, KeysStart
  DEF BackgroundInit, BackgroundInv
<1>2. BackgroundInv /\ [BackgroundNext]_allVars => BackgroundInv'
  <2> SUFFICES ASSUME BackgroundInv, [BackgroundNext]_allVars PROVE BackgroundInv'
    OBVIOUS
  <2>1. CASE part = "queue" /\ UNCHANGED part
    BY <2>1 DEF BackgroundInv
  <2>2. CASE part = "polls" /\ P!Next /\ UNCHANGED part
    BY <2>2, PollsStep DEF BackgroundInv
  <2>3. CASE part = "discovery" /\ D!Next /\ UNCHANGED part
    BY <2>3, DiscoveryStep DEF BackgroundInv
  <2>4. CASE part = "keys" /\ C!Next /\ UNCHANGED part
    BY <2>4, KeysStep DEF BackgroundInv
  <2>5. CASE UNCHANGED allVars
    <3>1. UNCHANGED <<part, ofPolls, ofDiscovery, ofKeys, faults>>
      BY <2>5 DEF allVars
    <3> QED
      BY <3>1, PollsStep, DiscoveryStep, KeysStep DEF BackgroundInv
  <2> QED
    BY <2>1, <2>2, <2>3, <2>4, <2>5 DEF BackgroundNext
<1>3. BackgroundInv => ClusterIsKnown
  BY PollsHold, DiscoveryHolds, KeysHold, SnapshotsAssumption DEF BackgroundInv, ClusterIsKnown
<1> QED
  BY <1>1, <1>2, <1>3, PTL DEF Background
=============================================================================
