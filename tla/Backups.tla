------------------------------ MODULE Backups ------------------------------
(***************************************************************************)
(* Backups from start to verified: backup/service.ts (runBackup, verify),  *)
(* backup/runner.ts (runNow and its flag), the guard of                    *)
(* backup/scheduler.ts, POST /api/backups/run, the backups table           *)
(* (db/backups.repo.ts) and what alerts/service.ts reads of it.            *)
(*                                                                         *)
(* The bucket is external: it keeps the last object put under a key, may   *)
(* truncate one and may fail any call.                                     *)
(***************************************************************************)
EXTENDS Integers, FiniteSets

CONSTANTS
  Runs,       \* Invocations of runBackup.
  MaxSecond,  \* Bound: seconds a behaviour lasts.
  MaxFaults,  \* Bound: failed database writes and crashes.
  NoRow,      \* No row of this attempt.
  NoObject    \* No object under this key.

Seconds == 0 .. MaxSecond
Statuses == {"open", "ok", "failed"}
Rows == [at: Seconds, status: Statuses]

\* An object is what one run put: the whole body, or a part of it.
Objects == [by: Runs, whole: BOOLEAN]

BackupsAssumption ==
  /\ MaxSecond \in Nat /\ MaxFaults \in Nat
  /\ NoRow \notin Rows
  /\ NoObject \notin Objects

VARIABLES
  second,   \* The clock, in seconds: the resolution of an object name.
  rows,     \* The backups table: attempt -> row.
  bucket,   \* Second of the name -> object.
  pc,       \* Where each run is.
  began,    \* startedAt of each run.
  byTimer,  \* Whether the scheduler started the run.
  armed,    \* BackupScheduler.#running.
  flag,     \* BackupRunner.#running.
  faults    \* Failures so far.

vars == <<second, rows, bucket, pc, began, byTimer, armed, flag, faults>>
InFlight(r) == pc[r] \notin {"idle", "done"}

Init ==
  /\ second = 0
  /\ rows = [r \in Runs |-> NoRow]
  /\ bucket = [t \in Seconds |-> NoObject]
  /\ pc = [r \in Runs |-> "idle"]
  /\ began = [r \in Runs |-> 0]
  /\ byTimer = [r \in Runs |-> FALSE]
  /\ armed = FALSE
  /\ flag = FALSE
  /\ faults = 0

-----------------------------------------------------------------------------
(* Starting.                                                               *)

\* runNow(): the flag goes up and runBackup takes its start time.
Begin(r) ==
  /\ pc[r] = "idle"
  /\ pc' = [pc EXCEPT ![r] = "starting"]
  /\ began' = [began EXCEPT ![r] = second]
  /\ flag' = TRUE
  /\ UNCHANGED <<second, rows, bucket, faults>>

\* The guard of tick().
MayFire == ~armed

\* tick() on a named minute.
BeginByTimer(r) ==
  /\ MayFire
  /\ Begin(r)
  /\ armed' = TRUE
  /\ byTimer' = [byTimer EXCEPT ![r] = TRUE]

\* POST /api/backups/run: no flag is looked at.
BeginByHand(r) ==
  /\ Begin(r)
  /\ UNCHANGED <<armed, byTimer>>

Step(r, from, to) ==
  /\ pc[r] = from
  /\ pc' = [pc EXCEPT ![r] = to]
  /\ UNCHANGED <<second, began, byTimer, armed, flag>>

\* What records.start inserts.
Inserted(r) == [at |-> began[r], status |-> "open"]

InsertRow(r) ==
  /\ Step(r, "starting", "snapshot")
  /\ rows' = [rows EXCEPT ![r] = Inserted(r)]
  /\ UNCHANGED <<bucket, faults>>

-----------------------------------------------------------------------------
(* The body of the try.                                                    *)

\* VACUUM INTO, the size limit, encryption and the check of the copy.
Stage(r) ==
  /\ Step(r, "snapshot", "putting")
  /\ UNCHANGED <<rows, bucket, faults>>

\* s3.put under objectName(startedAt), which names a second. An object that
\* is there is replaced; the bucket may acknowledge a part.
Put(r, whole) ==
  /\ Step(r, "putting", "verifying")
  /\ bucket' = [bucket EXCEPT ![began[r]] = [by |-> r, whole |-> whole]]
  /\ UNCHANGED <<rows, faults>>

\* Mutant: what the bucket holds is not compared.
ReadsBack_Anything(r) == bucket[began[r]] # NoObject

\* verify(): the bytes fetched are the bytes sent.
ReadsBack(r) == bucket[began[r]] = [by |-> r, whole |-> TRUE]

Verify(r) ==
  /\ Step(r, "verifying", IF ReadsBack(r) THEN "recording" ELSE "failing")
  /\ UNCHANGED <<rows, bucket, faults>>

\* Anything in the try may throw: a busy or full disk, a body over the limit,
\* a refused or timed-out request. A put that throws may have been done.
Throw(r) ==
  /\ pc[r] \in {"snapshot", "putting", "verifying"}
  /\ Step(r, pc[r], "failing")
  /\ \/ UNCHANGED bucket
     \/ /\ pc[r] = "putting"
        /\ \E whole \in BOOLEAN :
             bucket' = [bucket EXCEPT ![began[r]] = [by |-> r, whole |-> whole]]
  /\ UNCHANGED <<rows, faults>>

-----------------------------------------------------------------------------
(* Finishing.                                                              *)

\* The finally clause of tick(): only the run the scheduler started holds it.
Rearmed(r) == armed /\ ~byTimer[r]

\* The finally clause of runNow().
Lowered == FALSE

\* runBackup settles: the flags go down, whatever else is in flight.
Settle(r) ==
  /\ pc' = [pc EXCEPT ![r] = "done"]
  /\ flag' = Lowered
  /\ armed' = Rearmed(r)
  /\ UNCHANGED <<second, bucket, began, byTimer>>

\* What records.finish makes of a row.
Finished(row, status) ==
  IF row = NoRow THEN NoRow ELSE [row EXCEPT !.status = status]

\* records.finish with ok.
RecordOk(r) ==
  /\ pc[r] = "recording"
  /\ rows' = [rows EXCEPT ![r] = Finished(@, "ok")]
  /\ Settle(r)
  /\ UNCHANGED faults

\* records.finish in the catch.
RecordFailure(r) ==
  /\ pc[r] = "failing"
  /\ rows' = [rows EXCEPT ![r] = Finished(@, "failed")]
  /\ Settle(r)
  /\ UNCHANGED faults

\* records.finish with ok throws inside the try: a failure after all.
RecordOkFails(r) ==
  /\ faults < MaxFaults
  /\ faults' = faults + 1
  /\ Step(r, "recording", "failing")
  /\ UNCHANGED <<rows, bucket>>

\* records.start, or records.finish in the catch, throws: runBackup does too,
\* and the row, if there is one, is never finished.
WriteFails(r) ==
  /\ pc[r] \in {"starting", "failing"}
  /\ faults < MaxFaults
  /\ faults' = faults + 1
  /\ Settle(r)
  /\ UNCHANGED rows

\* The process dies: rows and objects stay as they are.
Crash ==
  /\ faults < MaxFaults
  /\ faults' = faults + 1
  /\ pc' = [r \in Runs |-> IF InFlight(r) THEN "done" ELSE pc[r]]
  /\ armed' = FALSE
  /\ flag' = FALSE
  /\ UNCHANGED <<second, rows, bucket, began, byTimer>>

TimePasses ==
  /\ second < MaxSecond
  /\ second' = second + 1
  /\ UNCHANGED <<rows, bucket, pc, began, byTimer, armed, flag, faults>>

-----------------------------------------------------------------------------
RunStep(r) ==
  \/ InsertRow(r)
  \/ Stage(r)
  \/ \E whole \in BOOLEAN : Put(r, whole)
  \/ Verify(r)
  \/ Throw(r)
  \/ RecordOk(r)
  \/ RecordFailure(r)

\* Every invocation of the bounded behaviour has been made and has settled.
Over == (\A r \in Runs : pc[r] = "done") /\ UNCHANGED vars

Next ==
  \/ \E r \in Runs : BeginByTimer(r)
  \/ \E r \in Runs : BeginByHand(r)
  \/ \E r \in Runs : RunStep(r)
  \/ \E r \in Runs : RecordOkFails(r)
  \/ \E r \in Runs : WriteFails(r)
  \/ Crash
  \/ TimePasses
  \/ Over

Spec == Init /\ [][Next]_vars

-----------------------------------------------------------------------------
(* What the evaluator reads.                                               *)

Known == {r \in Runs : rows[r] # NoRow}

\* recent(1): the newest attempt, by its start time.  Of two that started in one
\* second, whichever the table returns.
LatestOf(attempts) == {r \in attempts : \A q \in attempts : rows[q].at <= rows[r].at}

\* What the backup-failed rule makes of an attempt; service.ts looks for a finished one
\* only among the one row it read.
Observed(r) == rows[r].status = "failed"

-----------------------------------------------------------------------------
(* Properties.                                                             *)

\* Every variable keeps its shape: a row, once there, keeps its start time and
\* one of its three statuses.
TypeOK ==
  /\ second \in Seconds
  /\ rows \in [Runs -> Rows \cup {NoRow}]
  /\ bucket \in [Seconds -> Objects \cup {NoObject}]
  /\ pc \in [Runs -> {"idle", "starting", "snapshot", "putting", "verifying",
                      "recording", "failing", "done"}]
  /\ began \in [Runs -> Seconds]
  /\ byTimer \in [Runs -> BOOLEAN]
  /\ armed \in BOOLEAN
  /\ flag \in BOOLEAN
  /\ faults \in 0 .. MaxFaults

Alone(r) == \A q \in Runs : q # r /\ rows[q] # NoRow => rows[q].at # rows[r].at

\* A backup on record as ok is in the bucket, whole and its own, however many
\* others ran beside it, unless another one started in the same second.
OkIsInTheBucket ==
  \A r \in Known : rows[r].status = "ok" /\ Alone(r) =>
    bucket[rows[r].at] = [by |-> r, whole |-> TRUE]

\* "Every attempt writes a row" (service.ts): nothing of kubitor's is in the
\* bucket that the table does not know of, even after a crash in the middle,
\* and a row still open is of a run in flight, or something else broke: a
\* failure of the backup itself always ends its row.
OnRecord ==
  /\ \A t \in Seconds : bucket[t] # NoObject => bucket[t].by \in Known
  /\ \A r \in Known : rows[r].status = "open" => InFlight(r) \/ faults > 0

\* What every state of the table, the bucket and the runs has in common.
Consistent == TypeOK /\ OnRecord

\* The Backups screen says a backup is running only while one is. (It may say
\* none is while one is: the first of two to settle takes the flag down.)
FlagIsHonest == flag => \E r \in Runs : InFlight(r)

\* "The most recent finished backup" (alerts/rule.ts): when that one has failed, the
\* evaluator sees a failure, whatever runs beside or after it.
SeesLastFinished ==
  LET Last == LatestOf({r \in Known : rows[r].status # "open"}) IN
  Last # {} /\ (\A r \in Last : Observed(r)) => \A r \in LatestOf(Known) : Observed(r)

=============================================================================
