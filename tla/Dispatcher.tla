----------------------------- MODULE Dispatcher -----------------------------
(***************************************************************************)
(* The notification queue of the server: notify/dispatcher.ts (enqueue and *)
(* drain) over the notifications table (db/notifications.repo.ts), with    *)
(* the channel list it reads (notify/source.ts), the alerts rows it looks  *)
(* up and the retention sweeps of both tables.                             *)
(*                                                                         *)
(* Every await is a step of its own.  A message is one (alert, kind,       *)
(* channel); its wording is left out.                                      *)
(***************************************************************************)
EXTENDS Integers, Sequences, FiniteSets

CONSTANTS
  AlertIds,     \* Alerts that can be reported on.
  Critical,     \* Those of severity critical; the others are warnings.
  Channels,     \* Channel ids a configuration can name.
  Drains,       \* Invocations of drain that can be in flight.
  Jobs,         \* Invocations of enqueue that can be in flight.
  MaxAttempts,  \* MAX_ATTEMPTS, 6 in the code.
  DueLimit,     \* The limit of due(), 20 in the code.
  MaxSeq,       \* Bound: messages queued in a behaviour.
  MaxEdits,     \* Bound: configuration edits in a behaviour.
  MaxFaults     \* Bound: failed database calls and crashes.

Severities == {"critical", "warning"}
Kinds == {"fired", "resolved"}

\* Deliverable text of a message row, with two history fields: how often the
\* channel accepted it, and how often the server could not know that it had.
Messages ==
  [alert: AlertIds, channel: Channels, kind: Kinds,
   attempts: 0 .. MaxAttempts, due: BOOLEAN,
   status: {"waiting", "delivered", "abandoned"},
   error: {"none", "failed", "noAlert", "noChannel"},
   accepted: Nat, doubt: Nat]

\* What is left of a row that retention deleted: its sequence number.
Gone == [status |-> "swept"]

Entries == [alert: AlertIds, channel: Channels, kind: Kinds]

ASSUME SeverityAssumption == Critical \subseteq AlertIds
ASSUME FinitenessAssumption ==
  IsFiniteSet(AlertIds) /\ IsFiniteSet(Channels) /\ IsFiniteSet(Jobs)
ASSUME LimitsAssumption ==
  /\ MaxAttempts \in Nat \ {0}
  /\ DueLimit \in Nat \ {0}
  /\ MaxSeq \in Nat
  /\ MaxEdits \in Nat
  /\ MaxFaults \in Nat

VARIABLES
  phase,     \* What the evaluator has handed over of each alert.
  records,   \* Alerts whose row is still in the alerts table.
  bindings,  \* Channels that channels() returns now.
  floor,     \* The configured minimum severity, one for all channels.
  queue,     \* The notifications table; the index is seq.
  jobs,      \* What each enqueue in flight has yet to insert.
  draining,  \* Dispatcher.#draining.
  pc,        \* Where each drain is.
  batch,     \* What due() returned and the drain has not reached yet.
  bound,     \* The channels a drain works with.
  current,   \* The message a drain is at, as due() returned it.
  edits,     \* Configuration edits so far.
  faults     \* Failures so far.

tables == <<phase, records, queue>>
config == <<bindings, floor, edits>>
drainVars == <<draining, pc, batch, bound, current>>
vars == <<phase, records, bindings, floor, queue, jobs, draining, pc, batch,
          bound, current, edits, faults>>

Nothing == [seq |-> 0, attempts |-> 0]

-----------------------------------------------------------------------------
(* Helpers.                                                                *)

Rank(severity) == IF severity = "critical" THEN 0 ELSE 1
SeverityOf(a) == IF a \in Critical THEN "critical" ELSE "warning"

\* Whether a severity clears a channel's floor.
AtLeast(severity, least) == Rank(severity) <= Rank(least)

Waiting(s) == queue[s].status = "waiting"
Finished(s) == queue[s].status \in {"delivered", "abandoned"}

\* Mutant: what is due is ordered newest first.
Ahead_NewestFirst(s, t) == s > t

\* The order of due(): by sequence, not by clock.
Ahead(s, t) == s < t

\* Mutant: a message that failed once is never due again.
Due_FirstTime == {s \in DOMAIN queue : Waiting(s) /\ queue[s].due /\ queue[s].attempts = 0}

\* The messages whose next attempt is due.
Due == {s \in DOMAIN queue : Waiting(s) /\ queue[s].due}

\* What due(now) returns: the first DueLimit of what is due, as copies.
DueBatch ==
  {[seq |-> s, attempts |-> queue[s].attempts] :
     s \in {t \in Due : Cardinality({u \in Due : Ahead(u, t)}) < DueLimit}}

-----------------------------------------------------------------------------
Init ==
  /\ phase = [a \in AlertIds |-> "new"]
  /\ records = AlertIds
  /\ bindings \in SUBSET Channels
  /\ floor \in Severities
  /\ queue = <<>>
  /\ jobs = [j \in Jobs |-> {}]
  /\ draining = FALSE
  /\ pc = [d \in Drains |-> "idle"]
  /\ batch = [d \in Drains |-> {}]
  /\ bound = [d \in Drains |-> {}]
  /\ current = [d \in Drains |-> Nothing]
  /\ edits = 0
  /\ faults = 0

-----------------------------------------------------------------------------
(* Queueing.                                                               *)

\* The transitions the evaluator can hand over next: an alert fires once and
\* then resolves once.
Handed(a) == IF phase[a] = "new" THEN "fired" ELSE "resolved"

\* What enqueue crosses those transitions with: the channels whose floor each
\* alert clears.
EntriesFor(changed) ==
  {[alert |-> a, channel |-> c, kind |-> Handed(a)] :
     a \in {b \in changed : AtLeast(SeverityOf(b), floor)}, c \in bindings}

\* What was handed over and is not in the table yet, of each enqueue in flight.
Pending == UNION {{j} \X jobs[j] : j \in Jobs}

\* The rows in flight count against the bound as those in the table do.
WithinBound(entries) ==
  Len(queue) + Cardinality(Pending) + Cardinality(entries) <= MaxSeq

\* enqueue(transitions), up to its first await: the channels are read
\* once. The evaluator does not wait for what follows.
StartEnqueue(j, changed) ==
  /\ jobs[j] = {}
  /\ changed # {}
  /\ \A a \in changed : phase[a] # "resolved"
  /\ WithinBound(EntriesFor(changed))
  /\ jobs' = [jobs EXCEPT ![j] = EntriesFor(changed)]
  /\ phase' = [a \in AlertIds |-> IF a \in changed THEN Handed(a) ELSE phase[a]]
  /\ UNCHANGED <<records, config, queue, drainVars, faults>>

\* repo.enqueue: one row, due at once.
Insert(j, e) ==
  /\ e \in jobs[j]
  /\ jobs' = [jobs EXCEPT ![j] = @ \ {e}]
  /\ queue' = Append(queue,
                [alert |-> e.alert, channel |-> e.channel, kind |-> e.kind,
                 attempts |-> 0, due |-> TRUE, status |-> "waiting",
                 error |-> "none", accepted |-> 0, doubt |-> 0])
  /\ UNCHANGED <<phase, records, config, drainVars, faults>>

-----------------------------------------------------------------------------
(* Draining.                                                               *)

\* Mutant: drain does not look at #draining.
MayDrain_Unguarded == TRUE

\* The guard of drain: a drain that finds another one at work returns at once.
MayDrain == ~draining

StartDrain(d) ==
  /\ pc[d] = "idle"
  /\ MayDrain
  /\ draining' = TRUE
  /\ pc' = [pc EXCEPT ![d] = "due"]
  /\ UNCHANGED <<tables, config, jobs, batch, bound, current, faults>>

\* due(now), and then the channels as they are at that moment.
ReadDue(d) ==
  /\ pc[d] = "due"
  /\ pc' = [pc EXCEPT ![d] = "next"]
  /\ batch' = [batch EXCEPT ![d] = DueBatch]
  /\ bound' = [bound EXCEPT ![d] = bindings]
  /\ UNCHANGED <<tables, config, jobs, draining, current, faults>>

\* The channel is still configured and the alert still on record.
Deliverable(d, s) ==
  queue[s].channel \in bound[d] /\ queue[s].alert \in records

\* The next message of the batch, and the lookup of its channel and alert.
TakeNext(d, m) ==
  /\ pc[d] = "next"
  /\ m \in batch[d]
  /\ \A n \in batch[d] : m = n \/ Ahead(m.seq, n.seq)
  /\ batch' = [batch EXCEPT ![d] = @ \ {m}]
  /\ current' = [current EXCEPT ![d] = m]
  /\ pc' = [pc EXCEPT ![d] =
              IF Deliverable(d, m.seq) THEN "sending"
              ELSE IF queue[m.seq].channel \in bound[d] THEN "noAlert"
              ELSE "noChannel"]
  /\ UNCHANGED <<tables, config, jobs, draining, bound, faults>>

\* The drain is done with its current message.
Move(d) ==
  /\ pc' = [pc EXCEPT ![d] = "next"]
  /\ current' = [current EXCEPT ![d] = Nothing]
  /\ UNCHANGED <<draining, batch, bound>>

\* giveUp of a message nobody can send; its attempts stay as they were read.
GiveUpOrphan(d) ==
  LET m == current[d] IN
  /\ pc[d] \in {"noAlert", "noChannel"}
  /\ queue' = [queue EXCEPT ![m.seq].status = "abandoned",
                            ![m.seq].attempts = m.attempts,
                            ![m.seq].error = pc[d]]
  /\ Move(d)
  /\ UNCHANGED <<phase, records, config, jobs, faults>>

\* channel.send returns: the channel has the message.
SendAccepted(d) ==
  /\ pc[d] = "sending"
  /\ pc' = [pc EXCEPT ![d] = "recording"]
  /\ queue' = [queue EXCEPT ![current[d].seq].accepted = @ + 1]
  /\ UNCHANGED <<phase, records, config, jobs, draining, batch, bound, current,
                 faults>>

\* channel.send throws, although the channel has the message: the answer was
\* lost, or was an error sent after the work was done.
SendUnanswered(d) ==
  /\ pc[d] = "sending"
  /\ pc' = [pc EXCEPT ![d] = "failed"]
  /\ queue' = [queue EXCEPT ![current[d].seq].accepted = @ + 1,
                            ![current[d].seq].doubt = @ + 1]
  /\ UNCHANGED <<phase, records, config, jobs, draining, batch, bound, current,
                 faults>>

\* channel.send throws, and the channel does not have the message.
SendRefused(d) ==
  /\ pc[d] = "sending"
  /\ pc' = [pc EXCEPT ![d] = "failed"]
  /\ UNCHANGED <<tables, config, jobs, draining, batch, bound, current, faults>>

\* repo.delivered.
RecordDelivered(d) ==
  /\ pc[d] = "recording"
  /\ queue' = [queue EXCEPT ![current[d].seq].status = "delivered",
                            ![current[d].seq].error = "none"]
  /\ Move(d)
  /\ UNCHANGED <<phase, records, config, jobs, faults>>

\* repo.delivered throws inside the same try as the send: it counts as a
\* failed attempt.
RecordFails(d) ==
  /\ pc[d] = "recording"
  /\ faults < MaxFaults
  /\ faults' = faults + 1
  /\ pc' = [pc EXCEPT ![d] = "failed"]
  /\ queue' = [queue EXCEPT ![current[d].seq].doubt = @ + 1]
  /\ UNCHANGED <<phase, records, config, jobs, draining, batch, bound, current>>

\* Whether an attempt was the last one a message is worth.
Exhausted(attempts) == attempts >= MaxAttempts

\* giveUp after the last attempt.
Abandon(d) ==
  LET m == current[d] IN
  /\ pc[d] = "failed"
  /\ Exhausted(m.attempts + 1)
  /\ queue' = [queue EXCEPT ![m.seq].status = "abandoned",
                            ![m.seq].attempts = m.attempts + 1,
                            ![m.seq].error = "failed"]
  /\ Move(d)
  /\ UNCHANGED <<phase, records, config, jobs, faults>>

\* retryAfter: the attempt is counted and the next one is due after a backoff.
RetryLater(d) ==
  LET m == current[d] IN
  /\ pc[d] = "failed"
  /\ ~Exhausted(m.attempts + 1)
  /\ queue' = [queue EXCEPT ![m.seq].attempts = m.attempts + 1,
                            ![m.seq].due = FALSE,
                            ![m.seq].error = "failed"]
  /\ Move(d)
  /\ UNCHANGED <<phase, records, config, jobs, faults>>

\* The backoff of a message is over: its next_attempt_at is in the past.
BackoffEnds(s) ==
  /\ s \in DOMAIN queue
  /\ Waiting(s)
  /\ ~queue[s].due
  /\ queue' = [queue EXCEPT ![s].due = TRUE]
  /\ UNCHANGED <<phase, records, config, jobs, drainVars, faults>>

Reset(d) ==
  /\ pc' = [pc EXCEPT ![d] = "idle"]
  /\ batch' = [batch EXCEPT ![d] = {}]
  /\ bound' = [bound EXCEPT ![d] = {}]
  /\ current' = [current EXCEPT ![d] = Nothing]

\* The finally clause.
Released == FALSE

EndDrain(d) ==
  /\ pc[d] = "next"
  /\ batch[d] = {}
  /\ draining' = Released
  /\ Reset(d)
  /\ UNCHANGED <<tables, config, jobs, faults>>

\* A database call outside the inner try throws: the outer catch logs, the
\* rest of the batch is left for the next drain.
DrainFails(d) ==
  /\ pc[d] \in {"due", "noAlert", "noChannel", "failed"}
     \/ (pc[d] = "next" /\ batch[d] # {})
  /\ faults < MaxFaults
  /\ faults' = faults + 1
  /\ draining' = Released
  /\ Reset(d)
  /\ UNCHANGED <<tables, config, jobs>>

-----------------------------------------------------------------------------
(* What happens around it.                                                 *)

\* The process dies, on its own or because a rejected enqueue was nobody's to
\* catch: rows survive, everything in memory is gone, and a message the
\* channel had accepted but that was not recorded is in doubt.
Crash ==
  /\ faults < MaxFaults
  /\ faults' = faults + 1
  /\ draining' = FALSE
  /\ jobs' = [j \in Jobs |-> {}]
  /\ pc' = [d \in Drains |-> "idle"]
  /\ batch' = [d \in Drains |-> {}]
  /\ bound' = [d \in Drains |-> {}]
  /\ current' = [d \in Drains |-> Nothing]
  /\ queue' = [s \in DOMAIN queue |->
                 IF \E d \in Drains : pc[d] = "recording" /\ current[d].seq = s
                   THEN [queue[s] EXCEPT !.doubt = @ + 1] ELSE queue[s]]
  /\ UNCHANGED <<phase, records, config>>

\* Somebody saves other notification settings; the next channels() call
\* rebuilds the bindings.
Reconfigure(chosen, least) ==
  /\ edits < MaxEdits
  /\ <<chosen, least>> # <<bindings, floor>>
  /\ edits' = edits + 1
  /\ bindings' = chosen
  /\ floor' = least
  /\ UNCHANGED <<tables, jobs, drainVars, faults>>

\* Mutant: retention by age alone.
SweepableMessage_ByAge(s) == queue[s] # Gone

\* liveWhileNull on the notifications table: an unfinished row is kept.
SweepableMessage(s) == Finished(s)

\* Retention of the notifications table. Which finished rows are past the
\* window is left open.
SweepMessages(old) ==
  /\ old # {}
  /\ \A s \in old : SweepableMessage(s)
  /\ queue' = [s \in DOMAIN queue |->
                 IF s \in old THEN Gone ELSE queue[s]]
  /\ UNCHANGED <<phase, records, config, jobs, drainVars, faults>>

\* Retention of the alerts table: rows that are resolved, by the age of their
\* first sighting, so a long incident may be old the moment it resolves.
SweepAlerts(old) ==
  /\ old # {}
  /\ old \subseteq records
  /\ \A a \in old : phase[a] = "resolved"
  /\ records' = records \ old
  /\ UNCHANGED <<phase, queue, config, jobs, drainVars, faults>>

-----------------------------------------------------------------------------
DrainStep(d) ==
  \/ StartDrain(d)
  \/ ReadDue(d)
  \/ \E m \in batch[d] : TakeNext(d, m)
  \/ GiveUpOrphan(d)
  \/ SendAccepted(d)
  \/ SendUnanswered(d)
  \/ SendRefused(d)
  \/ RecordDelivered(d)
  \/ Abandon(d)
  \/ RetryLater(d)
  \/ EndDrain(d)

Next ==
  \/ \E j \in Jobs : \E changed \in SUBSET AlertIds : StartEnqueue(j, changed)
  \/ \E j \in Jobs : \E e \in jobs[j] : Insert(j, e)
  \/ \E d \in Drains : DrainStep(d)
  \/ \E d \in Drains : RecordFails(d)
  \/ \E d \in Drains : DrainFails(d)
  \/ \E s \in DOMAIN queue : BackoffEnds(s)
  \/ Crash
  \/ \E chosen \in SUBSET Channels, least \in Severities : Reconfigure(chosen, least)
  \/ \E old \in SUBSET DOMAIN queue : SweepMessages(old)
  \/ \E old \in SUBSET AlertIds : SweepAlerts(old)

Spec == Init /\ [][Next]_vars

\* The drain timer keeps starting drains, the runtime resumes them, the clock
\* passes every next_attempt_at. The channels may refuse for ever.
FairSpec ==
  /\ Spec
  /\ WF_vars(\E d \in Drains : DrainStep(d))
  /\ WF_vars(\E s \in DOMAIN queue : BackoffEnds(s))

-----------------------------------------------------------------------------
(* Properties.                                                             *)

\* Every variable keeps its shape; attempts never pass MAX_ATTEMPTS.
TypeOK ==
  /\ phase \in [AlertIds -> {"new"} \cup Kinds]
  /\ records \subseteq AlertIds
  /\ bindings \subseteq Channels
  /\ floor \in Severities
  /\ queue \in Seq(Messages \cup {Gone})
  /\ Len(queue) <= MaxSeq
  /\ jobs \in [Jobs -> SUBSET Entries]
  /\ draining \in BOOLEAN
  /\ pc \in [Drains -> {"idle", "due", "next", "noAlert", "noChannel",
                        "sending", "recording", "failed"}]
  /\ batch \in [Drains -> SUBSET [seq : 1 .. MaxSeq, attempts : 0 .. MaxAttempts]]
  /\ bound \in [Drains -> SUBSET Channels]
  /\ current \in [Drains -> [seq : 0 .. MaxSeq, attempts : 0 .. MaxAttempts]]
  /\ edits \in 0 .. MaxEdits
  /\ faults \in 0 .. MaxFaults

\* Nothing is abandoned before its last attempt, unless its alert is off the
\* record or its channel was taken out of the configuration.
AbandonedForCause ==
  \A s \in DOMAIN queue : queue[s].status = "abandoned" =>
    \/ queue[s].error = "failed" /\ queue[s].attempts = MaxAttempts
    \/ queue[s].error = "noAlert" /\ queue[s].alert \notin records
    \/ queue[s].error = "noChannel" /\ (edits = 0 => queue[s].channel \notin bindings)

\* What every state of the queue and its drains has in common.
Consistent == TypeOK /\ AbandonedForCause

\* A channel gets a message twice only when the server could not know that it
\* got it before: a lost answer, a failed write of the delivery, a crash. A
\* message on record as delivered was accepted once more than was in doubt.
NoUnforcedDuplicate ==
  \A s \in DOMAIN queue : queue[s] # Gone =>
    /\ queue[s].accepted <= queue[s].doubt + 1
    /\ queue[s].status = "delivered" => queue[s].accepted = queue[s].doubt + 1
    /\ queue[s].status = "abandoned" => queue[s].accepted = queue[s].doubt

\* Deliveries are in the order things happened, but for failures: a message is
\* delivered while an earlier one still waits only if that one has failed.
OvertakenOnlyAfterFailure ==
  \A s, t \in DOMAIN queue :
    s < t /\ Waiting(s) /\ queue[t].status = "delivered" => queue[s].attempts > 0

\* A message arrives a second time only after a failure that forces it, and one is
\* overtaken on its channel only after it failed.
QueueIsSound == NoUnforcedDuplicate /\ OvertakenOnlyAfterFailure

\* Every queued message ends, delivered or abandoned, even if its channel
\* refuses for ever and drains fail or crash on the way.
EveryMessageEnds ==
  \A s \in 1 .. MaxSeq :
    (s \in DOMAIN queue /\ Waiting(s)) ~> (s \in DOMAIN queue /\ ~Waiting(s))

-----------------------------------------------------------------------------
(* Refinement: the life of each row.                                       *)

boxBar == [s \in DOMAIN queue |->
             IF queue[s] = Gone THEN Gone
             ELSE [status |-> queue[s].status, attempts |-> queue[s].attempts,
                   hits |-> queue[s].accepted]]

O == INSTANCE Outbox WITH box <- boxBar

\* The interleaved, crash-prone drains handle each message the way Outbox
\* says a message is handled.
ImplementsOutbox == O!Spec

=============================================================================
