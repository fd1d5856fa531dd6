------------------------------- MODULE Alerts -------------------------------
(***************************************************************************)
(* The alert evaluator of the server: alerts/evaluator.ts (one pass over   *)
(* every rule), alerts/service.ts (the timer that starts passes and the    *)
(* #running guard), the alerts table behind them (db/alerts.repo.ts) and   *)
(* the retention sweep of that table (db/retention.ts, db/tables.ts).      *)
(*                                                                         *)
(* Every await of a pass is a step of its own, so other passes, the sweep  *)
(* and a crash of the process interleave with it.                          *)
(***************************************************************************)
EXTENDS Integers, FiniteSets

CONSTANTS
  NumRules,      \* Number of rules; a pass visits them in this order.
  Subjects,      \* What a rule can be wrong about: nodes, pods, agents.
  FireAfter,     \* Rule -> evaluations before it fires.
  ResolveAfter,  \* Rule -> absences before it resolves.
  CountCap,      \* Bound: the two counters of a row saturate here.
  Ids,           \* Row identities; randomUUID in the code.
  Passes,        \* Invocations of evaluateOnce that can be in flight.
  MaxFaults,     \* Bound: failed passes and crashes in a behaviour.
  NoRow          \* No row under this id.

Rules == 1 .. NumRules

States == {"pending", "firing"}
Kinds == {"fired", "resolved"}

\* The columns of a row the control depends on. "open" is resolved_at IS NULL;
\* the wording, the attributes and the timestamps are left out.
Row == [rule: Rules, subject: Subjects, state: States,
        seen: 0 .. CountCap, missing: 0 .. CountCap, open: BOOLEAN]

ASSUME RulesAssumption == NumRules \in Nat \ {0}
ASSUME DampingAssumption ==
  /\ CountCap \in Nat \ {0}
  /\ FireAfter \in [Rules -> 1 .. CountCap]
  /\ ResolveAfter \in [Rules -> 1 .. CountCap]
ASSUME BoundsAssumption == MaxFaults \in Nat
ASSUME NoRowAssumption == NoRow \notin Row

VARIABLES
  world,       \* What each rule would observe at this moment.
  alerts,      \* The alerts table: id -> row.
  running,     \* AlertsService.#running.
  pc,          \* Where each pass is.
  observed,    \* The world a pass read, as rule -> subjects.
  cursor,      \* The rule a pass is at.
  batch,       \* What openFor returned and the pass has not visited yet.
  fresh,       \* Observed subjects with no open alert, not created yet.
  transitions, \* What a pass has collected and not handed over.
  told,        \* History: how often onTransitions saw each row, by kind.
  streak,      \* History: evaluations in a row that observed an identity.
  faults       \* Failures so far.

passVars == <<pc, observed, cursor, batch, fresh, transitions>>
vars == <<world, alerts, running, pc, observed, cursor, batch, fresh,
          transitions, told, streak, faults>>

-----------------------------------------------------------------------------
(* The table.                                                              *)

Exists(i) == alerts[i] # NoRow
Open(i) == Exists(i) /\ alerts[i].open
About(i, r, s) == alerts[i].rule = r /\ alerts[i].subject = s

\* What openFor(rule) selects: unresolved rows, whatever their state.
OpenFor(r) == {i \in Ids : Open(i) /\ alerts[i].rule = r}

NoRows == [i \in Ids |-> NoRow]
NeverTold == [k \in Kinds |-> 0]

\* An id no row, no undelivered transition and no earlier row still uses.
Unused(i) ==
  /\ ~Exists(i)
  /\ told[i] = NeverTold
  /\ \A p \in Passes : \A k \in Kinds : <<i, k>> \notin transitions[p]

Bump(n) == IF n < CountCap THEN n + 1 ELSE n
Tell(n) == IF n < 2 THEN n + 1 ELSE n

\* Mutant: a firing row fires again.
Fires_Again(row) == Bump(row.seen) >= FireAfter[row.rule]

\* Whether this evaluation is the one that turns a row to firing.
Fires(row) == row.state = "pending" /\ Bump(row.seen) >= FireAfter[row.rule]

\* Mutant: one absence too many.
Clears_OffByOne(row) == row.missing >= ResolveAfter[row.rule]

\* Whether this absence is the one that resolves a row.
Clears(row) == Bump(row.missing) >= ResolveAfter[row.rule]

\* Mutant: a row that never fired has a recovery too.
HasRecovery_Always(row) == TRUE

\* Only an alert that fired has a recovery to report.
HasRecovery(row) == row.state = "firing"

\* Mutant: the absence counter is not reset.
Continued_KeepsMissing(row, old) ==
  [row EXCEPT !.seen = Bump(old.seen),
              !.state = IF Fires(old) THEN "firing" ELSE @]

\* repo.update with the patch of an observed row, over what the row holds now.
Continued(row, old) ==
  [row EXCEPT !.seen = Bump(old.seen),
              !.missing = 0,
              !.state = IF Fires(old) THEN "firing" ELSE @]

\* Mutant: the count of absences is not written back.
Missed_NotStored(row, old) == row

\* repo.update with the patch of an absent row.
Missed(row, old) == [row EXCEPT !.missing = Bump(old.missing)]

\* repo.update with the patch that also sets resolvedAt.
Resolved(row, old) ==
  [row EXCEPT !.missing = Bump(old.missing), !.open = FALSE]

\* What repo.create inserts.
NewRow(r, s) ==
  [rule |-> r, subject |-> s,
   state |-> IF FireAfter[r] <= 1 THEN "firing" ELSE "pending",
   seen |-> 1, missing |-> 0, open |-> TRUE]

\* transitions.push, when the step is one.
Collect(collected, i, kind, when) ==
  IF when THEN collected \cup {<<i, kind>>} ELSE collected

-----------------------------------------------------------------------------
NoObservation == [r \in Rules |-> {}]

Init ==
  /\ world \in [Rules -> SUBSET Subjects]
  /\ alerts = NoRows
  /\ running = FALSE
  /\ pc = [p \in Passes |-> "idle"]
  /\ observed = [p \in Passes |-> NoObservation]
  /\ cursor = [p \in Passes |-> 1]
  /\ batch = [p \in Passes |-> NoRows]
  /\ fresh = [p \in Passes |-> {}]
  /\ transitions = [p \in Passes |-> {}]
  /\ told = [i \in Ids |-> NeverTold]
  /\ streak = [r \in Rules |-> [s \in Subjects |-> 0]]
  /\ faults = 0

\* A condition appears in, or disappears from, what the collectors stored.
WorldChanges(r, s) ==
  /\ world' = [world EXCEPT ![r] =
                 IF s \in @ THEN @ \ {s} ELSE @ \cup {s}]
  /\ UNCHANGED <<alerts, running, passVars, told, streak, faults>>

-----------------------------------------------------------------------------
(* One pass.                                                               *)

\* Mutant: evaluateOnce does not look at #running.
MayStart_Unguarded == TRUE

\* The guard of evaluateOnce. A call that finds #running set returns at once
\* with nothing, which changes no state.
MayStart == ~running

\* The timer calls evaluateOnce.
Start(p) ==
  /\ pc[p] = "idle"
  /\ MayStart
  /\ running' = TRUE
  /\ pc' = [pc EXCEPT ![p] = "reading"]
  /\ UNCHANGED <<world, alerts, observed, cursor, batch, fresh, transitions,
                 told, streak, faults>>

\* #world(): the snapshot every rule of the pass is given.
ReadWorld(p) ==
  /\ pc[p] = "reading"
  /\ pc' = [pc EXCEPT ![p] = "opening"]
  /\ observed' = [observed EXCEPT ![p] = world]
  /\ UNCHANGED <<world, alerts, running, cursor, batch, fresh, transitions,
                 told, streak, faults>>

\* repo.openFor(rule.id): from here the pass works on copies of the rows.
FetchOpen(p) ==
  LET r == cursor[p] IN
  /\ pc[p] = "opening"
  /\ r \in Rules
  /\ pc' = [pc EXCEPT ![p] = "updating"]
  /\ batch' = [batch EXCEPT ![p] =
                 [i \in Ids |-> IF i \in OpenFor(r) THEN alerts[i] ELSE NoRow]]
  /\ fresh' = [fresh EXCEPT ![p] =
                 {s \in observed[p][r] :
                    \A i \in OpenFor(r) : alerts[i].subject # s}]
  /\ UNCHANGED <<world, alerts, running, observed, cursor, transitions,
                 told, streak, faults>>

\* The next row of the batch. One that is gone makes repo.update throw: Fail.
Visit(p, i) ==
  /\ pc[p] = "updating"
  /\ batch[p][i] # NoRow
  /\ Exists(i)
  /\ batch' = [batch EXCEPT ![p][i] = NoRow]

\* The row is still observed: its absence counter starts over, its sightings
\* go up, and the one that reaches fireAfter turns it to firing.
StillWrong(p, i) ==
  LET old == batch[p][i] IN
  /\ Visit(p, i)
  /\ old.subject \in observed[p][cursor[p]]
  /\ alerts' = [alerts EXCEPT ![i] = Continued(@, old)]
  /\ transitions' = [transitions EXCEPT ![p] = Collect(@, i, "fired", Fires(old))]
  /\ streak' = [streak EXCEPT ![old.rule][old.subject] = Bump(@)]
  /\ UNCHANGED <<world, running, pc, observed, cursor, fresh, told, faults>>

\* The row is absent, but not yet for long enough.
Absent(p, i) ==
  LET old == batch[p][i] IN
  /\ Visit(p, i)
  /\ old.subject \notin observed[p][cursor[p]]
  /\ ~Clears(old)
  /\ alerts' = [alerts EXCEPT ![i] = Missed(@, old)]
  /\ streak' = [streak EXCEPT ![old.rule][old.subject] = 0]
  /\ UNCHANGED <<world, running, pc, observed, cursor, fresh, transitions,
                 told, faults>>

\* The row has been absent for resolveAfter evaluations.
Resolve(p, i) ==
  LET old == batch[p][i] IN
  /\ Visit(p, i)
  /\ old.subject \notin observed[p][cursor[p]]
  /\ Clears(old)
  /\ alerts' = [alerts EXCEPT ![i] = Resolved(@, old)]
  /\ transitions' = [transitions EXCEPT ![p] =
                       Collect(@, i, "resolved", HasRecovery(old))]
  /\ streak' = [streak EXCEPT ![old.rule][old.subject] = 0]
  /\ UNCHANGED <<world, running, pc, observed, cursor, fresh, told, faults>>

\* repo.create, once every open row of the rule has been visited.
Create(p, i, s) ==
  LET r == cursor[p] IN
  /\ pc[p] = "updating"
  /\ batch[p] = NoRows
  /\ s \in fresh[p]
  /\ Unused(i)
  /\ fresh' = [fresh EXCEPT ![p] = @ \ {s}]
  /\ alerts' = [alerts EXCEPT ![i] = NewRow(r, s)]
  /\ transitions' = [transitions EXCEPT ![p] =
                       Collect(@, i, "fired", FireAfter[r] <= 1)]
  /\ streak' = [streak EXCEPT ![r][s] = Bump(@)]
  /\ UNCHANGED <<world, running, pc, observed, cursor, batch, told, faults>>

NextRule(p) ==
  /\ pc[p] = "updating"
  /\ batch[p] = NoRows
  /\ fresh[p] = {}
  /\ pc' = [pc EXCEPT ![p] = "opening"]
  /\ cursor' = [cursor EXCEPT ![p] = @ + 1]
  /\ UNCHANGED <<world, alerts, running, observed, batch, fresh, transitions,
                 told, streak, faults>>

\* What the end of a pass, of either kind, leaves of its local state.
Discard(p) ==
  /\ pc' = [pc EXCEPT ![p] = "idle"]
  /\ observed' = [observed EXCEPT ![p] = NoObservation]
  /\ cursor' = [cursor EXCEPT ![p] = 1]
  /\ batch' = [batch EXCEPT ![p] = NoRows]
  /\ fresh' = [fresh EXCEPT ![p] = {}]
  /\ transitions' = [transitions EXCEPT ![p] = {}]

\* The finally clause lets the next pass in, however this one ended.
Released == FALSE

\* Every rule is done: the transitions go to onTransitions in one call. The
\* history of a row that the sweep took in between goes with the row.
Finish(p) ==
  /\ pc[p] = "opening"
  /\ cursor[p] = NumRules + 1
  /\ running' = Released
  /\ Discard(p)
  /\ told' = [i \in Ids |-> [k \in Kinds |->
                IF Exists(i) /\ <<i, k>> \in transitions[p]
                  THEN Tell(told[i][k]) ELSE told[i][k]]]
  /\ UNCHANGED <<world, alerts, streak, faults>>

\* Any await of a pass may throw: the catch of evaluateOnce logs, and what
\* the pass had collected is dropped with it. Rows already written stay.
Fail(p) ==
  /\ pc[p] # "idle"
  /\ faults < MaxFaults
  /\ faults' = faults + 1
  /\ running' = Released
  /\ Discard(p)
  /\ UNCHANGED <<world, alerts, told, streak>>

\* The process dies and starts again: only the table survives.
Crash ==
  /\ faults < MaxFaults
  /\ faults' = faults + 1
  /\ running' = FALSE
  /\ pc' = [p \in Passes |-> "idle"]
  /\ observed' = [p \in Passes |-> NoObservation]
  /\ cursor' = [p \in Passes |-> 1]
  /\ batch' = [p \in Passes |-> NoRows]
  /\ fresh' = [p \in Passes |-> {}]
  /\ transitions' = [p \in Passes |-> {}]
  /\ UNCHANGED <<world, alerts, told, streak>>

-----------------------------------------------------------------------------
\* Rows a retention sweep may delete: liveWhileNull keeps the unresolved ones.
Sweepable(i) == Exists(i) /\ ~alerts[i].open

\* One DELETE over the table. Which resolved rows are past the window is
\* left open.
Sweep(old) ==
  /\ old # {}
  /\ \A i \in old : Sweepable(i)
  /\ alerts' = [i \in Ids |-> IF i \in old THEN NoRow ELSE alerts[i]]
  /\ told' = [i \in Ids |-> IF i \in old THEN NeverTold ELSE told[i]]
  /\ UNCHANGED <<world, running, passVars, streak, faults>>

-----------------------------------------------------------------------------
PassStep(p) ==
  \/ Start(p)
  \/ ReadWorld(p)
  \/ FetchOpen(p)
  \/ \E i \in Ids : StillWrong(p, i)
  \/ \E i \in Ids : Absent(p, i)
  \/ \E i \in Ids : Resolve(p, i)
  \/ \E i \in Ids, s \in Subjects : Create(p, i, s)
  \/ NextRule(p)
  \/ Finish(p)

Next ==
  \/ \E r \in Rules, s \in Subjects : WorldChanges(r, s)
  \/ \E p \in Passes : PassStep(p)
  \/ \E p \in Passes : Fail(p)
  \/ Crash
  \/ \E old \in SUBSET Ids : Sweep(old)

Spec == Init /\ [][Next]_vars

\* The interval timer keeps starting passes and the runtime keeps resuming
\* them; the retention timer keeps sweeping. Nothing else is promised.
FairSpec ==
  /\ Spec
  /\ WF_vars(\E p \in Passes : PassStep(p))
  /\ WF_vars(\E old \in SUBSET Ids : Sweep(old))

-----------------------------------------------------------------------------
(* Properties.                                                             *)

\* Every variable keeps its shape; in particular a resolved row keeps one of
\* the two states the column can hold (db/alerts.repo.ts, AlertRecord).
TypeOK ==
  /\ world \in [Rules -> SUBSET Subjects]
  /\ alerts \in [Ids -> Row \cup {NoRow}]
  /\ running \in BOOLEAN
  /\ pc \in [Passes -> {"idle", "reading", "opening", "updating"}]
  /\ observed \in [Passes -> [Rules -> SUBSET Subjects]]
  /\ cursor \in [Passes -> 1 .. NumRules + 1]
  /\ batch \in [Passes -> [Ids -> Row \cup {NoRow}]]
  /\ fresh \in [Passes -> SUBSET Subjects]
  /\ transitions \in [Passes -> SUBSET (Ids \X Kinds)]
  /\ told \in [Ids -> [Kinds -> 0 .. 2]]
  /\ streak \in [Rules -> [Subjects -> 0 .. CountCap]]
  /\ faults \in 0 .. MaxFaults

\* One row lives per (rule, subject) until it resolves, whatever passes fail,
\* overlap or crash between reading the open rows and creating new ones. No
\* unique index enforces it (migration 0012): only the #running guard and the
\* openFor diff do.
OneOpenPerIdentity ==
  \A i, j \in Ids :
    Open(i) /\ Open(j) /\ About(i, alerts[j].rule, alerts[j].subject) => i = j

\* An open row is firing exactly when its rule's fireAfter sightings are on
\* it, and stays open only while its absences are short of resolveAfter. The
\* writes are blind patches computed from copies read before an await.
Damped ==
  \A i \in Ids : Open(i) =>
    /\ alerts[i].state = "firing" <=> alerts[i].seen >= FireAfter[alerts[i].rule]
    /\ alerts[i].missing < ResolveAfter[alerts[i].rule]

\* "One `fired` and one `resolved`, and the fifty-nine evaluations in between
\* produce nothing": no alert is handed over twice with the same kind.
ToldOnce == \A i \in Ids : \A k \in Kinds : told[i][k] <= 1

\* A recovery is only handed over for an alert whose failure was: nobody is
\* told a problem is over who was never told it started.
NoRecoveryUntold ==
  \A i \in Ids : told[i]["resolved"] > 0 => told[i]["fired"] > 0

\* The same as long as no pass has failed and the process has not been killed.
NoRecoveryUntoldUnlessFailed == faults = 0 => NoRecoveryUntold

\* A resolved row is history: no pass changes it again, a recurrence is a new
\* row, and only the retention sweep removes it.
ResolvedIsFinal ==
  [][\A i \in Ids : Sweepable(i) => alerts'[i] \in {alerts[i], NoRow}]_vars

Turns(i) ==
  /\ alerts'[i] # NoRow
  /\ alerts'[i].state = "firing"
  /\ Exists(i) => alerts[i].state = "pending"

\* Damping as rule.ts states it, for the rules that resolve on the first
\* absence: a row turns to firing only when the condition held for fireAfter
\* evaluations in a row.  (For the others an evaluation that misses the
\* condition does not start the count over.)
FiresWhenHeldIfBrisk ==
  [][\A i \in Ids : Turns(i) /\ ResolveAfter[alerts'[i].rule] = 1 =>
       streak'[alerts'[i].rule][alerts'[i].subject]
         >= FireAfter[alerts'[i].rule]]_vars

Firing(r, s) == \E i \in Ids : Open(i) /\ About(i, r, s) /\ alerts[i].state = "firing"
Quiet(r, s) == \A i \in Ids : Open(i) => ~About(i, r, s)

\* No failure ends the evaluations: a condition that stays is eventually a
\* firing alert, and stays one, and a condition that is gone for good leaves no
\* open alert behind, whatever passes failed or were killed on the way.
ConditionsAreFollowed ==
  \A r \in Rules, s \in Subjects :
    /\ <>[](s \in world[r]) => <>[]Firing(r, s)
    /\ <>[](s \notin world[r]) => <>[]Quiet(r, s)

-----------------------------------------------------------------------------
(* Refinement: the incident of an identity is what its open row says.      *)

IncidentOf(r, s) ==
  IF \E i \in Ids : Open(i) /\ About(i, r, s)
    THEN LET row == alerts[CHOOSE i \in Ids : Open(i) /\ About(i, r, s)]
         IN  [phase |-> row.state, seen |-> row.seen, missing |-> row.missing]
    ELSE [phase |-> "quiet", seen |-> 0, missing |-> 0]

incidentBar == [r \in Rules |-> [s \in Subjects |-> IncidentOf(r, s)]]

I == INSTANCE Incidents WITH incident <- incidentBar

\* The multi-step, crash-prone, retried passes move each identity the way one
\* atomic sighting or absence per evaluation would.
ImplementsIncidents == I!Spec

=============================================================================
