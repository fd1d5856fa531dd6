---------------------------- MODULE AlertsProofs ----------------------------
(***************************************************************************)
(* Theorems about Alerts, for every number of rules, subjects, ids, passes *)
(* and faults.                                                             *)
(***************************************************************************)
EXTENDS Alerts, TLAPS

-----------------------------------------------------------------------------
(* The inductive invariant.                                                *)

Active(p) == pc[p] # "idle"

\* The #running guard: passes do not overlap.
Exclusive ==
  /\ \A p \in Passes : Active(p) => running
  /\ \A p, q \in Passes : Active(p) /\ Active(q) => p = q

\* A pass is in the middle of a rule only when there is one.
CursorInRules == \A p \in Passes : pc[p] = "updating" => cursor[p] \in Rules

IType == TypeOK /\ CursorInRules

\* The copies a pass works on are still the rows: nobody else writes the rows
\* of an open alert while a pass is at them.
BatchFresh ==
  \A p \in Passes, i \in Ids : batch[p][i] # NoRow =>
    /\ pc[p] = "updating"
    /\ Open(i)
    /\ batch[p][i] = alerts[i]
    /\ alerts[i].rule = cursor[p]

\* What a pass is about to create has no open row yet.
FreshUnknown ==
  \A p \in Passes : \A s \in fresh[p] :
    /\ pc[p] = "updating"
    /\ \A i \in Ids : Open(i) => ~About(i, cursor[p], s)

Collected(i, k) == \E p \in Passes : <<i, k>> \in transitions[p]

\* A transition is either yet to be collected, or collected and yet to be
\* handed over, or handed over.
Accounted ==
  /\ \A p \in Passes : ~Active(p) => transitions[p] = {}
  /\ \A i \in Ids, k \in Kinds : Collected(i, k) => told[i][k] = 0
  /\ \A i \in Ids : Open(i) =>
       told[i]["resolved"] = 0 /\ ~Collected(i, "resolved")
  /\ \A i \in Ids : Exists(i) /\ alerts[i].state = "pending" =>
       told[i]["fired"] = 0 /\ ~Collected(i, "fired")

IInv ==
  /\ IType
  /\ Exclusive
  /\ BatchFresh
  /\ FreshUnknown
  /\ OneOpenPerIdentity
  /\ Damped
  /\ Accounted
  /\ ToldOnce

-----------------------------------------------------------------------------
(* Types.                                                                  *)

\* NoRow is no row of the table (AlertRecord).
LEMMA RowNotNoRow == \A row \in Row : row # NoRow
  BY NoRowAssumption

\* A capped count stays a count.
LEMMA BumpType == ASSUME NEW n \in 0 .. CountCap PROVE Bump(n) \in 0 .. CountCap
  BY DampingAssumption DEF Bump

\* A capped tally stays a tally.
LEMMA TellType == ASSUME NEW n \in 0 .. 2 PROVE Tell(n) \in 0 .. 2
  BY DEF Tell

\* What the three patches and the insert write is a row.
LEMMA PatchType ==
  ASSUME NEW row \in Row, NEW old \in Row
  PROVE  /\ Continued(row, old) \in Row
         /\ Missed(row, old) \in Row
         /\ Resolved(row, old) \in Row
<1>1. Bump(old.seen) \in 0 .. CountCap /\ Bump(old.missing) \in 0 .. CountCap
  BY BumpType DEF Row
<1>2. 0 \in 0 .. CountCap
  BY DampingAssumption
<1> QED
  BY <1>1, <1>2 DEF Row, Continued, Missed, Resolved, States

\* The row a sighting creates (evaluator.ts, repo.create) is a row.
LEMMA NewRowType ==
  ASSUME NEW r \in Rules, NEW s \in Subjects
  PROVE  NewRow(r, s) \in Row
  BY DampingAssumption DEF Row, NewRow, States

\* What is collected are transitions.
LEMMA CollectType ==
  ASSUME NEW T \in SUBSET (Ids \X Kinds), NEW i \in Ids, NEW k \in Kinds, NEW when
  PROVE  Collect(T, i, k, when) \in SUBSET (Ids \X Kinds)
  BY DEF Collect

\* The empty table, the empty observation and the empty tally have their types.
LEMMA BlankType ==
  /\ NoRows \in [Ids -> Row \cup {NoRow}]
  /\ NoObservation \in [Rules -> SUBSET Subjects]
  /\ NeverTold \in [Kinds -> 0 .. 2]
  BY DEF NoRows, NoObservation, NeverTold

\* The ends of the intervals the counters live in.
LEMMA BoundType ==
  /\ 1 \in 1 .. NumRules + 1
  /\ 0 \in 0 .. CountCap
  /\ 0 \in 0 .. MaxFaults
  /\ \A n \in 0 .. MaxFaults : n < MaxFaults => n + 1 \in 0 .. MaxFaults
  BY RulesAssumption, DampingAssumption, BoundsAssumption

\* The initial state has its type.
LEMMA InitType == Init => IType
<1> SUFFICES ASSUME Init PROVE IType
  OBVIOUS
<1>1. [i \in Ids |-> NeverTold] \in [Ids -> [Kinds -> 0 .. 2]]
  BY BlankType
<1>2. [r \in Rules |-> [s \in Subjects |-> 0]] \in [Rules -> [Subjects -> 0 .. CountCap]]
  BY BoundType
<1>3. \A p \in Passes : pc[p] = "idle"
  BY DEF Init
<1> QED
  BY <1>1, <1>2, <1>3, BlankType, BoundType DEF Init, IType, TypeOK, CursorInRules

\* Every step keeps the types.
LEMMA TypeStep == IType /\ [Next]_vars => IType'
<1> SUFFICES ASSUME IType, [Next]_vars PROVE IType'
  OBVIOUS
<1> USE DEF IType, CursorInRules
<1>1. ASSUME NEW r \in Rules, NEW s \in Subjects, WorldChanges(r, s) PROVE IType'
  BY <1>1 DEF WorldChanges, TypeOK, passVars
<1>2. ASSUME NEW p \in Passes, Start(p) PROVE IType'
  BY <1>2 DEF Start, TypeOK
<1>3. ASSUME NEW p \in Passes, ReadWorld(p) PROVE IType'
  BY <1>3 DEF ReadWorld, TypeOK
<1>4. ASSUME NEW p \in Passes, FetchOpen(p) PROVE IType'
  <2>1. \A i \in OpenFor(cursor[p]) : alerts[i] \in Row
    BY DEF OpenFor, Open, Exists, TypeOK
  <2>2. batch'[p] \in [Ids -> Row \cup {NoRow}]
    BY <1>4, <2>1 DEF FetchOpen, TypeOK
  <2>3. fresh'[p] \in SUBSET Subjects
    BY <1>4 DEF FetchOpen, TypeOK
  <2> QED
    BY <1>4, <2>2, <2>3 DEF FetchOpen, TypeOK
<1>5. ASSUME NEW p \in Passes, NEW i \in Ids, Visit(p, i)
      PROVE  /\ alerts[i] \in Row /\ batch[p][i] \in Row
             /\ batch' \in [Passes -> [Ids -> Row \cup {NoRow}]]
             /\ cursor[p] \in Rules
  BY <1>5 DEF Visit, Exists, TypeOK
<1>6. ASSUME NEW p \in Passes, NEW i \in Ids, StillWrong(p, i) PROVE IType'
  <2>1. alerts' \in [Ids -> Row \cup {NoRow}]
    BY <1>5, <1>6, PatchType DEF StillWrong, TypeOK
  <2>2. transitions' \in [Passes -> SUBSET (Ids \X Kinds)]
    BY <1>6, CollectType DEF StillWrong, TypeOK, Kinds
  <2>3. streak' \in [Rules -> [Subjects -> 0 .. CountCap]]
    BY <1>5, <1>6, BumpType DEF StillWrong, TypeOK, Row
  <2> QED
    BY <1>5, <1>6, <2>1, <2>2, <2>3 DEF StillWrong, TypeOK
<1>7. ASSUME NEW p \in Passes, NEW i \in Ids, Absent(p, i) PROVE IType'
  <2>1. alerts' \in [Ids -> Row \cup {NoRow}]
    BY <1>5, <1>7, PatchType DEF Absent, TypeOK
  <2>2. streak' \in [Rules -> [Subjects -> 0 .. CountCap]]
    BY <1>5, <1>7, DampingAssumption DEF Absent, TypeOK, Row
  <2> QED
    BY <1>5, <1>7, <2>1, <2>2 DEF Absent, TypeOK
<1>8. ASSUME NEW p \in Passes, NEW i \in Ids, Resolve(p, i) PROVE IType'
  <2>1. alerts' \in [Ids -> Row \cup {NoRow}]
    BY <1>5, <1>8, PatchType DEF Resolve, TypeOK
  <2>2. transitions' \in [Passes -> SUBSET (Ids \X Kinds)]
    BY <1>8, CollectType DEF Resolve, TypeOK, Kinds
  <2>3. streak' \in [Rules -> [Subjects -> 0 .. CountCap]]
    BY <1>5, <1>8, DampingAssumption DEF Resolve, TypeOK, Row
  <2> QED
    BY <1>5, <1>8, <2>1, <2>2, <2>3 DEF Resolve, TypeOK
<1>9. ASSUME NEW p \in Passes, NEW i \in Ids, NEW s \in Subjects, Create(p, i, s)
      PROVE  IType'
  <2>1. alerts' \in [Ids -> Row \cup {NoRow}]
    BY <1>9, NewRowType DEF Create, TypeOK
  <2>2. transitions' \in [Passes -> SUBSET (Ids \X Kinds)]
    BY <1>9, CollectType DEF Create, TypeOK, Kinds
  <2>3. streak' \in [Rules -> [Subjects -> 0 .. CountCap]]
    BY <1>9, BumpType DEF Create, TypeOK
  <2> QED
    BY <1>9, <2>1, <2>2, <2>3 DEF Create, TypeOK
<1>10. ASSUME NEW p \in Passes, NextRule(p) PROVE IType'
  BY <1>10, RulesAssumption DEF NextRule, TypeOK, Rules
<1>11. ASSUME NEW p \in Passes, Finish(p) PROVE IType'
  <2>1. told' \in [Ids -> [Kinds -> 0 .. 2]]
    BY <1>11, TellType DEF Finish, TypeOK
  <2> QED
    BY <1>11, <2>1, BlankType, BoundType DEF Finish, Discard, Released, TypeOK
<1>12. ASSUME NEW p \in Passes, Fail(p) PROVE IType'
  BY <1>12, BlankType, BoundType DEF Fail, Discard, Released, TypeOK
<1>13. CASE Crash
  BY <1>13, BlankType, BoundType DEF Crash, TypeOK
<1>14. ASSUME NEW old \in SUBSET Ids, Sweep(old) PROVE IType'
  BY <1>14 DEF Sweep, TypeOK, NeverTold, passVars
<1>15. CASE UNCHANGED vars
  BY <1>15 DEF vars, TypeOK
<1> QED
  BY <1>1, <1>2, <1>3, <1>4, <1>6, <1>7, <1>8, <1>9, <1>10, <1>11, <1>12, <1>13,
     <1>14, <1>15
  DEF Next, PassStep

\* Every variable keeps its shape in every behaviour.
THEOREM TypeCorrect == Spec => []TypeOK
<1>1. Init => IType
  BY InitType
<1>2. IType /\ [Next]_vars => IType'
  BY TypeStep
<1>3. IType => TypeOK
  BY DEF IType
<1> QED
  BY <1>1, <1>2, <1>3, PTL DEF Spec

-----------------------------------------------------------------------------
(* The steps that are not a visit of a row.                                *)

\* Every step keeps passes from overlapping: the #running flag of service.ts
\* is raised before the first await and lowered when the pass is over.
LEMMA ExclusiveStep == IType /\ Exclusive /\ [Next]_vars => Exclusive'
<1> SUFFICES ASSUME IType, Exclusive, [Next]_vars PROVE Exclusive'
  OBVIOUS
<1> USE DEF Exclusive, Active, IType, TypeOK
<1>1. ASSUME NEW p \in Passes, Start(p) PROVE Exclusive'
  BY <1>1 DEF Start, MayStart
<1>2. ASSUME NEW p \in Passes, Finish(p) \/ Fail(p) PROVE Exclusive'
  <2>1. pc' = [pc EXCEPT ![p] = "idle"] /\ Active(p)
    BY <1>2 DEF Finish, Fail, Discard
  <2> QED
    BY <2>1
<1>3. CASE Crash
  BY <1>3 DEF Crash
<1>4. ASSUME NEW p \in Passes, running' = running, Active(p),
             pc' \in {pc, [pc EXCEPT ![p] = "opening"], [pc EXCEPT ![p] = "updating"]}
      PROVE  Exclusive'
  <2>1. \A q \in Passes : Active(q)' => Active(q)
    BY <1>4
  <2> QED
    BY <1>4, <2>1
<1>5. ASSUME NEW p \in Passes, ReadWorld(p) \/ FetchOpen(p) \/ NextRule(p)
      PROVE  Exclusive'
  BY <1>4, <1>5 DEF ReadWorld, FetchOpen, NextRule
<1>6. ASSUME NEW p \in Passes, NEW i \in Ids,
             StillWrong(p, i) \/ Absent(p, i) \/ Resolve(p, i)
      PROVE  Exclusive'
  BY <1>4, <1>6 DEF StillWrong, Absent, Resolve, Visit
<1>7. ASSUME NEW p \in Passes, NEW i \in Ids, NEW s \in Subjects, Create(p, i, s)
      PROVE  Exclusive'
  BY <1>4, <1>7 DEF Create
<1>8. ASSUME UNCHANGED <<running, pc>> PROVE Exclusive'
  BY <1>8
<1> QED
  BY <1>1, <1>2, <1>3, <1>5, <1>6, <1>7, <1>8
  DEF Next, PassStep, WorldChanges, Sweep, passVars, vars

\* While a pass is at work, the others hold nothing.
LEMMA Alone ==
  ASSUME IInv, NEW p \in Passes, Active(p)
  PROVE  \A q \in Passes : q # p =>
           /\ pc[q] = "idle"
           /\ \A i \in Ids : batch[q][i] = NoRow
           /\ fresh[q] = {}
           /\ transitions[q] = {}
  BY DEF IInv, IType, Exclusive, Active, BatchFresh, FreshUnknown, Accounted, TypeOK

\* The inductive invariant holds at first.
LEMMA InitIInv == Init => IInv
<1> SUFFICES ASSUME Init PROVE IInv
  OBVIOUS
<1>1. IType
  BY InitType
<1>2. \A i \in Ids : ~Exists(i) /\ ~Open(i) /\ told[i] = NeverTold
  BY DEF Init, NoRows, Exists, Open
<1>3. \A p \in Passes : /\ ~Active(p) /\ transitions[p] = {} /\ fresh[p] = {}
                        /\ \A i \in Ids : batch[p][i] = NoRow
  BY DEF Init, NoRows, Active
<1> QED
  BY <1>1, <1>2, <1>3
  DEF IInv, Exclusive, BatchFresh, FreshUnknown, OneOpenPerIdentity, Damped,
      Accounted, Collected, ToldOnce, NeverTold, Kinds

\* Steps that leave the table and the history alone.
LEMMA QuietStep ==
  ASSUME IInv, UNCHANGED <<alerts, told>>,
         \A p \in Passes :
           /\ ~Active(p)' => transitions'[p] = {}
           /\ transitions'[p] \in {{}, transitions[p]}
           /\ \/ fresh'[p] = {} /\ \A i \in Ids : batch'[p][i] = NoRow
              \/ fresh'[p] = fresh[p] /\ batch'[p] = batch[p]
                 /\ pc'[p] = pc[p] /\ cursor'[p] = cursor[p]
  PROVE  /\ BatchFresh' /\ FreshUnknown' /\ OneOpenPerIdentity'
         /\ Damped' /\ Accounted' /\ ToldOnce'
<1>1. BatchFresh'
  BY DEF IInv, BatchFresh, Open, Exists
<1>2. FreshUnknown'
  BY DEF IInv, FreshUnknown, Open, Exists, About
<1>3. OneOpenPerIdentity' /\ Damped' /\ ToldOnce'
  BY DEF IInv, OneOpenPerIdentity, Damped, ToldOnce, Open, Exists, About
<1>4. \A i \in Ids, k \in Kinds : Collected(i, k)' => Collected(i, k)
  BY DEF Collected
<1>5. Accounted'
  BY <1>4 DEF IInv, Accounted, Open, Exists, Active, Kinds
<1> QED
  BY <1>1, <1>2, <1>3, <1>5

-----------------------------------------------------------------------------
(* Visits of a row.                                                        *)

\* A visit writes over the row it has a copy of, and keeps its identity.
LEMMA VisitFacts ==
  ASSUME IInv, NEW p \in Passes, NEW i \in Ids, Visit(p, i)
  PROVE  /\ Active(p) /\ cursor[p] \in Rules
         /\ batch[p][i] = alerts[i] /\ alerts[i] \in Row /\ Open(i)
  BY DEF IInv, IType, TypeOK, CursorInRules, BatchFresh, Visit, Exists, Active

\* Writing a visited row, under its own rule and subject, disturbs neither the
\* batch, nor what is fresh, nor the uniqueness of open rows.
LEMMA VisitKeepsIdentities ==
  ASSUME IInv, NEW p \in Passes, NEW i \in Ids, Visit(p, i), NEW row \in Row,
         row.rule = alerts[i].rule, row.subject = alerts[i].subject,
         alerts' = [alerts EXCEPT ![i] = row], UNCHANGED <<pc, cursor, fresh>>
  PROVE  BatchFresh' /\ FreshUnknown' /\ OneOpenPerIdentity'
<1>1. Open(i) /\ alerts[i] \in Row
  BY VisitFacts
<1>2. \A j \in Ids : /\ j # i => alerts'[j] = alerts[j]
                     /\ Open(j)' => Open(j)
  BY <1>1 DEF Open, Exists, IInv, IType, TypeOK
<1>3. \A j \in Ids : Open(j)' =>
        alerts'[j].rule = alerts[j].rule /\ alerts'[j].subject = alerts[j].subject
  BY <1>2 DEF IInv, IType, TypeOK
<1>4. BatchFresh'
  <2> SUFFICES ASSUME NEW q \in Passes, NEW j \in Ids, batch'[q][j] # NoRow
               PROVE  /\ pc[q] = "updating" /\ Open(j)' /\ batch'[q][j] = alerts'[j]
                      /\ alerts'[j].rule = cursor[q]
    BY DEF BatchFresh
  <2>1. batch[q][j] # NoRow /\ batch'[q][j] = batch[q][j]
    BY DEF Visit, IInv, IType, TypeOK
  <2>2. j # i
    BY <2>1, Alone, VisitFacts DEF Visit, IInv, IType, TypeOK
  <2> QED
    BY <2>1, <2>2, <1>2 DEF IInv, BatchFresh, Open, Exists
<1>5. FreshUnknown'
  BY <1>2, <1>3 DEF IInv, FreshUnknown, About
<1>6. OneOpenPerIdentity'
  BY <1>2, <1>3 DEF IInv, OneOpenPerIdentity, About
<1> QED
  BY <1>4, <1>5, <1>6

\* What a visit collects keeps every account, when the row it writes says so.
LEMMA VisitAccounts ==
  ASSUME IInv, NEW p \in Passes, NEW i \in Ids, Visit(p, i), NEW row \in Row,
         alerts' = [alerts EXCEPT ![i] = row], UNCHANGED <<pc, told>>,
         NEW k \in Kinds, NEW when,
         transitions' = [transitions EXCEPT ![p] = Collect(@, i, k, when)],
         k = "fired" /\ when => alerts[i].state = "pending" /\ row.state = "firing",
         k = "resolved" /\ when => ~row.open,
         row.state = "pending" => alerts[i].state = "pending"
  PROVE  Accounted' /\ ToldOnce'
<1>1. Open(i) /\ Active(p) /\ Exists(i)
  BY VisitFacts DEF Open
<1>2. told[i][k] = 0 \/ ~when
  BY <1>1 DEF IInv, Accounted, Kinds
<1>3. \A j \in Ids, l \in Kinds :
        Collected(j, l)' => Collected(j, l) \/ (when /\ j = i /\ l = k)
  BY DEF Collected, Collect, IInv, IType, TypeOK
<1>4. \A j \in Ids : j # i => alerts'[j] = alerts[j]
  BY DEF IInv, IType, TypeOK
<1>5. alerts'[i] = row
  BY DEF IInv, IType, TypeOK
<1>6. \A q \in Passes : ~Active(q)' => transitions'[q] = {}
  BY <1>1 DEF IInv, Accounted, Active, IType, TypeOK
<1>7. \A j \in Ids, l \in Kinds : Collected(j, l)' => told'[j][l] = 0
  BY <1>2, <1>3 DEF IInv, Accounted
<1>8. \A j \in Ids : Open(j)' => told'[j]["resolved"] = 0 /\ ~Collected(j, "resolved")'
  BY <1>1, <1>3, <1>4, <1>5 DEF IInv, Accounted, Open, Exists, Kinds
<1>9. \A j \in Ids : Exists(j)' /\ alerts'[j].state = "pending" =>
        told'[j]["fired"] = 0 /\ ~Collected(j, "fired")'
  BY <1>1, <1>3, <1>4, <1>5 DEF IInv, Accounted, Exists, Kinds
<1> QED
  BY <1>6, <1>7, <1>8, <1>9 DEF IInv, Accounted, ToldOnce

\* Writing one row keeps Damped if the new row is damped.
LEMMA VisitDamped ==
  ASSUME IInv, NEW i \in Ids, NEW row \in Row,
         alerts' = [alerts EXCEPT ![i] = row],
         row.open => /\ row.state = "firing" <=> row.seen >= FireAfter[row.rule]
                     /\ row.missing < ResolveAfter[row.rule]
  PROVE  Damped'
  BY DEF IInv, IType, TypeOK, Damped, Open, Exists

\* What each patch makes of a damped open row.
LEMMA ContinuedRow ==
  ASSUME NEW old \in Row,
         old.state = "firing" <=> old.seen >= FireAfter[old.rule]
  PROVE  LET row == Continued(old, old) IN
         /\ row \in Row /\ row.rule = old.rule /\ row.subject = old.subject
         /\ row.state = "firing" <=> row.seen >= FireAfter[row.rule]
         /\ row.missing < ResolveAfter[row.rule]
         /\ Fires(old) => old.state = "pending" /\ row.state = "firing"
         /\ row.state = "pending" => old.state = "pending"
<1> DEFINE row == Continued(old, old)
<1>1. row \in Row
  BY PatchType
<1>2. /\ row.rule = old.rule /\ row.subject = old.subject
      /\ row.seen = Bump(old.seen) /\ row.missing = 0
      /\ row.state = IF Fires(old) THEN "firing" ELSE old.state
  BY DEF Continued, Row
<1>3. /\ old.rule \in Rules /\ old.seen \in 0 .. CountCap
      /\ old.state \in {"pending", "firing"}
      /\ FireAfter[old.rule] \in 1 .. CountCap
      /\ ResolveAfter[old.rule] \in 1 .. CountCap
  BY DampingAssumption DEF Row, States
<1>4. Bump(old.seen) >= old.seen /\ Bump(old.seen) \in Nat
  BY <1>3, DampingAssumption DEF Bump
<1>5. CASE old.state = "firing"
  BY <1>1, <1>2, <1>3, <1>4, <1>5 DEF Fires
<1>6. CASE old.state = "pending"
  BY <1>1, <1>2, <1>3, <1>4, <1>6 DEF Fires
<1> QED
  BY <1>3, <1>5, <1>6

\* The patch of an absence short of resolveAfter leaves a damped row.
LEMMA MissedRow ==
  ASSUME NEW old \in Row, ~Clears(old),
         old.state = "firing" <=> old.seen >= FireAfter[old.rule]
  PROVE  LET row == Missed(old, old) IN
         /\ row \in Row /\ row.rule = old.rule /\ row.subject = old.subject
         /\ row.state = "firing" <=> row.seen >= FireAfter[row.rule]
         /\ row.missing < ResolveAfter[row.rule]
         /\ row.state = old.state
<1> DEFINE row == Missed(old, old)
<1>1. row \in Row
  BY PatchType
<1>2. /\ row.rule = old.rule /\ row.subject = old.subject /\ row.seen = old.seen
      /\ row.missing = Bump(old.missing) /\ row.state = old.state
  BY DEF Missed, Row
<1>3. /\ old.rule \in Rules /\ old.missing \in 0 .. CountCap
      /\ ResolveAfter[old.rule] \in 1 .. CountCap
      /\ Bump(old.missing) \in 0 .. CountCap
  BY DampingAssumption, BumpType DEF Row
<1> QED
  BY <1>1, <1>2, <1>3 DEF Clears

\* The patch that resolves leaves a closed row of the same identity.
LEMMA ResolvedRow ==
  ASSUME NEW old \in Row
  PROVE  LET row == Resolved(old, old) IN
         /\ row \in Row /\ row.rule = old.rule /\ row.subject = old.subject
         /\ ~row.open /\ row.state = old.state
<1>1. Resolved(old, old) \in Row
  BY PatchType
<1> QED
  BY <1>1 DEF Resolved, Row

-----------------------------------------------------------------------------
(* Every step.                                                             *)

\* A sighting of an open condition keeps the inductive invariant.
LEMMA StillWrongStep ==
  ASSUME IInv, NEW p \in Passes, NEW i \in Ids, StillWrong(p, i)
  PROVE  /\ BatchFresh' /\ FreshUnknown' /\ OneOpenPerIdentity'
         /\ Damped' /\ Accounted' /\ ToldOnce'
<1> DEFINE row == Continued(alerts[i], alerts[i])
<1>1. Visit(p, i)
  BY DEF StillWrong
<1>2. batch[p][i] = alerts[i] /\ alerts[i] \in Row /\ Open(i)
  BY <1>1, VisitFacts
<1>3. /\ row \in Row /\ row.rule = alerts[i].rule /\ row.subject = alerts[i].subject
      /\ row.state = "firing" <=> row.seen >= FireAfter[row.rule]
      /\ row.missing < ResolveAfter[row.rule]
      /\ Fires(alerts[i]) => alerts[i].state = "pending" /\ row.state = "firing"
      /\ row.state = "pending" => alerts[i].state = "pending"
  BY <1>2, ContinuedRow DEF IInv, Damped
<1>4. /\ alerts' = [alerts EXCEPT ![i] = row]
      /\ transitions' = [transitions EXCEPT ![p] =
                           Collect(@, i, "fired", Fires(alerts[i]))]
      /\ UNCHANGED <<pc, cursor, fresh, told>>
  BY <1>2 DEF StillWrong, IInv, IType, TypeOK
<1> HIDE DEF row
<1>5. BatchFresh' /\ FreshUnknown' /\ OneOpenPerIdentity'
  BY <1>1, <1>3, <1>4, VisitKeepsIdentities
<1>6. Accounted' /\ ToldOnce'
  BY <1>1, <1>3, <1>4, VisitAccounts DEF Kinds
<1>7. Damped'
  BY <1>3, <1>4, VisitDamped
<1> QED
  BY <1>5, <1>6, <1>7

\* An absence short of resolveAfter keeps the inductive invariant.
LEMMA AbsentStep ==
  ASSUME IInv, NEW p \in Passes, NEW i \in Ids, Absent(p, i)
  PROVE  /\ BatchFresh' /\ FreshUnknown' /\ OneOpenPerIdentity'
         /\ Damped' /\ Accounted' /\ ToldOnce'
<1> DEFINE row == Missed(alerts[i], alerts[i])
<1>1. Visit(p, i)
  BY DEF Absent
<1>2. batch[p][i] = alerts[i] /\ alerts[i] \in Row /\ Open(i)
  BY <1>1, VisitFacts
<1>3. /\ row \in Row /\ row.rule = alerts[i].rule /\ row.subject = alerts[i].subject
      /\ row.state = "firing" <=> row.seen >= FireAfter[row.rule]
      /\ row.missing < ResolveAfter[row.rule]
      /\ row.state = alerts[i].state
  BY <1>2, MissedRow DEF IInv, Damped, Absent
<1>4. /\ alerts' = [alerts EXCEPT ![i] = row]
      /\ transitions' = [transitions EXCEPT ![p] = Collect(@, i, "fired", FALSE)]
      /\ UNCHANGED <<pc, cursor, fresh, told>>
  BY <1>2 DEF Absent, Collect, IInv, IType, TypeOK
<1> HIDE DEF row
<1>5. BatchFresh' /\ FreshUnknown' /\ OneOpenPerIdentity'
  BY <1>1, <1>3, <1>4, VisitKeepsIdentities
<1>6. Accounted' /\ ToldOnce'
  BY <1>1, <1>3, <1>4, VisitAccounts DEF Kinds
<1>7. Damped'
  BY <1>3, <1>4, VisitDamped
<1> QED
  BY <1>5, <1>6, <1>7

\* The absence that resolves keeps the inductive invariant.
LEMMA ResolveStep ==
  ASSUME IInv, NEW p \in Passes, NEW i \in Ids, Resolve(p, i)
  PROVE  /\ BatchFresh' /\ FreshUnknown' /\ OneOpenPerIdentity'
         /\ Damped' /\ Accounted' /\ ToldOnce'
<1> DEFINE row == Resolved(alerts[i], alerts[i])
<1>1. Visit(p, i)
  BY DEF Resolve
<1>2. batch[p][i] = alerts[i] /\ alerts[i] \in Row /\ Open(i)
  BY <1>1, VisitFacts
<1>3. /\ row \in Row /\ row.rule = alerts[i].rule /\ row.subject = alerts[i].subject
      /\ ~row.open /\ row.state = alerts[i].state
  BY <1>2, ResolvedRow
<1>4. /\ alerts' = [alerts EXCEPT ![i] = row]
      /\ transitions' = [transitions EXCEPT ![p] =
                           Collect(@, i, "resolved", HasRecovery(alerts[i]))]
      /\ UNCHANGED <<pc, cursor, fresh, told>>
  BY <1>2 DEF Resolve, IInv, IType, TypeOK
<1> HIDE DEF row
<1>5. BatchFresh' /\ FreshUnknown' /\ OneOpenPerIdentity'
  BY <1>1, <1>3, <1>4, VisitKeepsIdentities
<1>6. Accounted' /\ ToldOnce'
  BY <1>1, <1>3, <1>4, VisitAccounts DEF Kinds
<1>7. Damped'
  BY <1>3, <1>4, VisitDamped
<1> QED
  BY <1>5, <1>6, <1>7

\* The first sighting, which creates a row, keeps the inductive invariant.
LEMMA CreateStep ==
  ASSUME IInv, NEW p \in Passes, NEW i \in Ids, NEW s \in Subjects, Create(p, i, s)
  PROVE  /\ BatchFresh' /\ FreshUnknown' /\ OneOpenPerIdentity'
         /\ Damped' /\ Accounted' /\ ToldOnce'
<1> DEFINE r == cursor[p]
           row == NewRow(r, s)
<1>1. /\ r \in Rules /\ Active(p) /\ pc[p] = "updating" /\ s \in fresh[p]
      /\ ~Exists(i) /\ told[i] = NeverTold
      /\ \A k \in Kinds : ~Collected(i, k)
  BY DEF Create, Unused, Collected, Active, IInv, IType, CursorInRules
<1>2. /\ row \in Row /\ row.rule = r /\ row.subject = s /\ row.open
      /\ row.seen = 1 /\ row.missing = 0
      /\ row.state = IF FireAfter[r] <= 1 THEN "firing" ELSE "pending"
  BY <1>1, NewRowType DEF NewRow
<1>3. /\ alerts' = [alerts EXCEPT ![i] = row]
      /\ transitions' = [transitions EXCEPT ![p] =
                           Collect(@, i, "fired", FireAfter[r] <= 1)]
      /\ fresh' = [fresh EXCEPT ![p] = @ \ {s}]
      /\ UNCHANGED <<pc, cursor, batch, told>>
  BY DEF Create
<1>4. /\ alerts'[i] = row
      /\ \A j \in Ids : j # i => alerts'[j] = alerts[j]
  BY <1>3 DEF IInv, IType, TypeOK
<1>5. /\ FireAfter[r] \in 1 .. CountCap
      /\ ResolveAfter[r] \in 1 .. CountCap
  BY <1>1, DampingAssumption
<1> HIDE DEF row
<1>6. \A q \in Passes, j \in Ids : batch[q][j] # NoRow => j # i
  BY <1>1 DEF IInv, BatchFresh, Open
<1>7. BatchFresh'
  BY <1>3, <1>4, <1>6 DEF IInv, BatchFresh, Open, Exists
<1>8. \A q \in Passes : q # p => fresh'[q] = {}
  BY <1>1, <1>3, Alone DEF IInv, IType, TypeOK
<1>9. FreshUnknown'
  <2> SUFFICES ASSUME NEW t \in fresh'[p], NEW j \in Ids, Open(j)'
               PROVE  pc[p] = "updating" /\ ~About(j, r, t)'
    BY <1>3, <1>8, <1>1 DEF FreshUnknown, About
  <2>1. t \in fresh[p] /\ t # s
    BY <1>3 DEF IInv, IType, TypeOK
  <2>2. CASE j = i
    BY <2>1, <2>2, <1>1, <1>2, <1>3, <1>4 DEF About
  <2>3. CASE j # i
    BY <2>1, <2>3, <1>1, <1>3, <1>4 DEF IInv, FreshUnknown, About, Open, Exists
  <2> QED
    BY <2>2, <2>3
<1>10. OneOpenPerIdentity'
  <2>1. \A j \in Ids : Open(j) => ~About(j, r, s)
    BY <1>1 DEF IInv, FreshUnknown
  <2> QED
    BY <2>1, <1>2, <1>4 DEF IInv, OneOpenPerIdentity, Open, Exists, About
<1>11. Damped'
  BY <1>2, <1>4, <1>5 DEF IInv, Damped, Open, Exists
<1>12. \A j \in Ids, l \in Kinds :
         Collected(j, l)' =>
           Collected(j, l) \/ (FireAfter[r] <= 1 /\ j = i /\ l = "fired")
  BY <1>3 DEF Collected, Collect, IInv, IType, TypeOK
<1>13. \A q \in Passes : ~Active(q)' => transitions'[q] = {}
  BY <1>1, <1>3 DEF IInv, Accounted, Active, IType, TypeOK
<1>14. told[i]["fired"] = 0 /\ told[i]["resolved"] = 0
  BY <1>1 DEF NeverTold, Kinds
<1>15. \A j \in Ids, k \in Kinds : Collected(j, k)' => told'[j][k] = 0
  BY <1>3, <1>12, <1>14 DEF IInv, Accounted
<1>16. \A j \in Ids : Open(j)' => told'[j]["resolved"] = 0 /\ ~Collected(j, "resolved")'
  BY <1>1, <1>3, <1>4, <1>12, <1>14 DEF IInv, Accounted, Open, Exists, Kinds
<1>17. \A j \in Ids : Exists(j)' /\ alerts'[j].state = "pending" =>
         told'[j]["fired"] = 0 /\ ~Collected(j, "fired")'
  BY <1>1, <1>2, <1>3, <1>4, <1>12, <1>14 DEF IInv, Accounted, Exists, Kinds
<1> QED
  BY <1>3, <1>7, <1>9, <1>10, <1>11, <1>13, <1>15, <1>16, <1>17
  DEF IInv, Accounted, ToldOnce

\* Reading the open rows of a rule keeps the inductive invariant.
LEMMA FetchStep ==
  ASSUME IInv, NEW p \in Passes, FetchOpen(p)
  PROVE  /\ BatchFresh' /\ FreshUnknown' /\ OneOpenPerIdentity'
         /\ Damped' /\ Accounted' /\ ToldOnce'
<1>1. /\ Active(p) /\ UNCHANGED <<alerts, told, cursor, transitions>>
      /\ pc'[p] = "updating"
      /\ \A q \in Passes : q # p => pc'[q] = pc[q]
  BY DEF FetchOpen, Active, IInv, IType, TypeOK
<1>2. \A q \in Passes : q # p => fresh'[q] = {} /\ \A j \in Ids : batch'[q][j] = NoRow
  BY <1>1, Alone DEF FetchOpen, IInv, IType, TypeOK
<1>3. \A j \in Ids : batch'[p][j] # NoRow =>
        j \in OpenFor(cursor[p]) /\ batch'[p][j] = alerts[j]
  BY DEF FetchOpen, IInv, IType, TypeOK
<1>4. BatchFresh'
  BY <1>1, <1>2, <1>3 DEF BatchFresh, OpenFor, Open, Exists
<1>5. \A s \in fresh'[p] : \A j \in OpenFor(cursor[p]) : alerts[j].subject # s
  BY DEF FetchOpen, IInv, IType, TypeOK
<1>6. FreshUnknown'
  BY <1>1, <1>2, <1>5 DEF FreshUnknown, OpenFor, Open, Exists, About
<1>7. OneOpenPerIdentity' /\ Damped' /\ ToldOnce'
  BY <1>1 DEF IInv, OneOpenPerIdentity, Damped, ToldOnce, Open, Exists, About
<1>8. \A j \in Ids, k \in Kinds : Collected(j, k)' <=> Collected(j, k)
  BY <1>1 DEF Collected
<1>9. Accounted'
  BY <1>1, <1>8 DEF IInv, Accounted, Active, Open, Exists, Kinds
<1> QED
  BY <1>4, <1>6, <1>7, <1>9

\* The hand-over: what was collected becomes what was told, once.
LEMMA FinishStep ==
  ASSUME IInv, NEW p \in Passes, Finish(p)
  PROVE  /\ BatchFresh' /\ FreshUnknown' /\ OneOpenPerIdentity'
         /\ Damped' /\ Accounted' /\ ToldOnce'
<1>1. Active(p) /\ alerts' = alerts
  BY DEF Finish, Active
<1>2. \A q \in Passes : /\ pc'[q] = "idle" /\ fresh'[q] = {} /\ transitions'[q] = {}
                        /\ \A j \in Ids : batch'[q][j] = NoRow
  BY <1>1, Alone DEF Finish, Discard, NoRows, IInv, IType, TypeOK
<1>3. BatchFresh' /\ FreshUnknown'
  BY <1>2 DEF BatchFresh, FreshUnknown
<1>4. OneOpenPerIdentity' /\ Damped'
  BY <1>1 DEF IInv, OneOpenPerIdentity, Damped, Open, Exists, About
<1>5. \A j \in Ids, k \in Kinds :
        told'[j][k] = IF Exists(j) /\ <<j, k>> \in transitions[p]
                        THEN Tell(told[j][k]) ELSE told[j][k]
  BY DEF Finish
<1>6. \A j \in Ids, k \in Kinds :
        \/ told'[j][k] = told[j][k]
        \/ Collected(j, k) /\ told[j][k] = 0 /\ told'[j][k] = 1
  <2> SUFFICES ASSUME NEW j \in Ids, NEW k \in Kinds, <<j, k>> \in transitions[p]
               PROVE  Collected(j, k) /\ told[j][k] = 0 /\ Tell(0) = 1
    BY <1>5
  <2>1. Collected(j, k)
    BY DEF Collected
  <2>2. told[j][k] = 0
    BY <2>1 DEF IInv, Accounted
  <2> QED
    BY <2>1, <2>2 DEF Tell
<1>7. ToldOnce'
  BY <1>6 DEF IInv, ToldOnce
<1>8. Accounted'
  BY <1>1, <1>2, <1>6 DEF IInv, Accounted, Collected, Open, Exists, Kinds
<1> QED
  BY <1>3, <1>4, <1>7, <1>8

\* Retention takes resolved rows only, which no pass holds.
LEMMA SweepStep ==
  ASSUME IInv, NEW old \in SUBSET Ids, Sweep(old)
  PROVE  /\ BatchFresh' /\ FreshUnknown' /\ OneOpenPerIdentity'
         /\ Damped' /\ Accounted' /\ ToldOnce'
<1>1. /\ UNCHANGED <<pc, cursor, batch, fresh, transitions>>
      /\ \A j \in Ids : IF j \in old THEN alerts'[j] = NoRow /\ told'[j] = NeverTold
                        ELSE alerts'[j] = alerts[j] /\ told'[j] = told[j]
      /\ \A j \in old : ~Open(j)
  BY DEF Sweep, Sweepable, Open, passVars
<1>2. \A j \in Ids : /\ Exists(j)' => alerts'[j] = alerts[j] /\ told'[j] = told[j]
                     /\ Open(j)' <=> Open(j)
                     /\ Open(j) => alerts'[j] = alerts[j]
  BY <1>1 DEF Exists, Open
<1>3. BatchFresh' /\ FreshUnknown'
  BY <1>1, <1>2 DEF IInv, BatchFresh, FreshUnknown, About
<1>4. OneOpenPerIdentity' /\ Damped'
  BY <1>2 DEF IInv, OneOpenPerIdentity, Damped, About
<1>5. \A j \in Ids, k \in Kinds : /\ Collected(j, k)' <=> Collected(j, k)
                                  /\ told'[j][k] \in {0, told[j][k]}
  BY <1>1 DEF Collected, NeverTold
<1>6. ToldOnce'
  BY <1>5 DEF IInv, ToldOnce
<1>7. Accounted'
  <2>1. \A j \in Ids : Exists(j)' => Exists(j)
    BY <1>1 DEF Exists
  <2> QED
    BY <1>1, <1>2, <1>5, <2>1 DEF IInv, Accounted, Active, Exists, Open, Kinds
<1> QED
  BY <1>3, <1>4, <1>6, <1>7

\* Every step keeps the inductive invariant.
LEMMA IInvStep == IInv /\ [Next]_vars => IInv'
<1> SUFFICES ASSUME IInv, [Next]_vars PROVE IInv'
  OBVIOUS
<1>1. IType' /\ Exclusive'
  BY TypeStep, ExclusiveStep DEF IInv
<1> DEFINE Rest == /\ BatchFresh /\ FreshUnknown /\ OneOpenPerIdentity
                   /\ Damped /\ Accounted /\ ToldOnce
<1>2. SUFFICES Rest'
  BY <1>1 DEF IInv
<1> USE DEF IInv, IType, TypeOK
<1>3. ASSUME NEW r \in Rules, NEW s \in Subjects, WorldChanges(r, s) PROVE Rest'
  BY <1>3, QuietStep DEF WorldChanges, passVars, Accounted, Active
<1>4. ASSUME NEW p \in Passes, Start(p) PROVE Rest'
  <2>1. fresh[p] = {} /\ \A i \in Ids : batch[p][i] = NoRow
    BY <1>4 DEF Start, BatchFresh, FreshUnknown
  <2> QED
    BY <1>4, <2>1, QuietStep DEF Start, Accounted, Active
<1>5. ASSUME NEW p \in Passes, ReadWorld(p) PROVE Rest'
  <2>1. fresh[p] = {} /\ \A i \in Ids : batch[p][i] = NoRow
    BY <1>5 DEF ReadWorld, BatchFresh, FreshUnknown
  <2> QED
    BY <1>5, <2>1, QuietStep DEF ReadWorld, Accounted, Active
<1>6. ASSUME NEW p \in Passes, NextRule(p) PROVE Rest'
  <2>1. \A i \in Ids : batch[p][i] = NoRow
    BY <1>6 DEF NextRule, NoRows
  <2> QED
    BY <1>6, <2>1, QuietStep DEF NextRule, Accounted, Active
<1>7. ASSUME NEW p \in Passes, Fail(p) PROVE Rest'
  BY <1>7, QuietStep DEF Fail, Discard, NoRows, Accounted, Active
<1>8. CASE Crash
  BY <1>8, QuietStep DEF Crash, NoRows
<1>9. CASE UNCHANGED vars
  BY <1>9, QuietStep DEF vars, Accounted, Active
<1> QED
  BY <1>3, <1>4, <1>5, <1>6, <1>7, <1>8, <1>9, FetchStep, StillWrongStep, AbsentStep,
     ResolveStep, CreateStep, FinishStep, SweepStep
  DEF Next, PassStep

\* The inductive invariant always holds.
LEMMA IInvAlways == Spec => []IInv
<1>1. Init => IInv
  BY InitIInv
<1>2. IInv /\ [Next]_vars => IInv'
  BY IInvStep
<1> QED
  BY <1>1, <1>2, PTL DEF Spec

\* No unique index keeps a second open row of one (rule, subject) out of the
\* alerts table; the #running guard and the diff against openFor do, however
\* many passes are started, fail or die.
THEOREM OneOpen == Spec => []OneOpenPerIdentity
<1>1. IInv => OneOpenPerIdentity
  BY DEF IInv
<1> QED
  BY <1>1, IInvAlways, PTL

\* The blind patches of the evaluator never leave an open row firing short of
\* fireAfter sightings, or open past resolveAfter absences.
THEOREM AlwaysDamped == Spec => []Damped
<1>1. IInv => Damped
  BY DEF IInv
<1> QED
  BY <1>1, IInvAlways, PTL

\* No alert is handed to the notifier twice with the same kind.
THEOREM NeverToldTwice == Spec => []ToldOnce
<1>1. IInv => ToldOnce
  BY DEF IInv
<1> QED
  BY <1>1, IInvAlways, PTL

\* A resolved row is history: no step of any pass changes it, whatever copies
\* the pass works on; only the sweep removes it.
THEOREM ResolvedStays == Spec => ResolvedIsFinal
<1> DEFINE Final == \A j \in Ids : Sweepable(j) => alerts'[j] \in {alerts[j], NoRow}
<1>1. ASSUME IInv, [Next]_vars PROVE Final
  <2> USE <1>1 DEF IInv, IType, TypeOK
  <2>1. ASSUME NEW p \in Passes, NEW i \in Ids,
               StillWrong(p, i) \/ Absent(p, i) \/ Resolve(p, i)
        PROVE  Final
    <3>1. Visit(p, i) /\ \A j \in Ids : j # i => alerts'[j] = alerts[j]
      BY <2>1 DEF StillWrong, Absent, Resolve
    <3>2. Open(i)
      BY <3>1, VisitFacts
    <3> QED
      BY <3>1, <3>2 DEF Sweepable, Open
  <2>2. ASSUME NEW p \in Passes, NEW i \in Ids, NEW s \in Subjects, Create(p, i, s)
        PROVE  Final
    BY <2>2 DEF Create, Unused, Sweepable
  <2>3. ASSUME NEW old \in SUBSET Ids, Sweep(old) PROVE Final
    BY <2>3 DEF Sweep
  <2>4. ASSUME UNCHANGED alerts PROVE Final
    BY <2>4
  <2> QED
    BY <1>1, <2>1, <2>2, <2>3, <2>4
    DEF Next, PassStep, WorldChanges, Start, ReadWorld, FetchOpen, NextRule, Finish,
        Fail, Crash, vars
<1>2. IInv /\ [Next]_vars =>
        [\A i \in Ids : Sweepable(i) => alerts'[i] \in {alerts[i], NoRow}]_vars
  BY <1>1
<1> QED
  BY <1>2, IInvAlways, PTL DEF Spec, ResolvedIsFinal

-----------------------------------------------------------------------------
(* Alerts implements Incidents.                                            *)

View(row) == [phase |-> row.state, seen |-> row.seen, missing |-> row.missing]

\* The same as Open, OneOpenPerIdentity and IncidentOf, of any table.
OpenIn(T, i) == T[i] # NoRow /\ T[i].open
OneOpenIn(T) ==
  \A i, j \in Ids :
    (OpenIn(T, i) /\ OpenIn(T, j) /\ T[i].rule = T[j].rule
       /\ T[i].subject = T[j].subject) => i = j
Matches(T, i, r, s) == OpenIn(T, i) /\ T[i].rule = r /\ T[i].subject = s
IncidentIn(T, r, s) ==
  IF \E i \in Ids : Matches(T, i, r, s)
    THEN View(T[CHOOSE i \in Ids : Matches(T, i, r, s)])
    ELSE I!Quiet

\* The incident of an identity, read off the table given as a parameter.
LEMMA InTable ==
  /\ OneOpenPerIdentity => OneOpenIn(alerts)
  /\ \A i, r, s : Matches(alerts, i, r, s) <=> Open(i) /\ About(i, r, s)
  /\ \A r, s : IncidentOf(r, s) = IncidentIn(alerts, r, s)
<1>1. \A i, r, s : Matches(alerts, i, r, s) <=> Open(i) /\ About(i, r, s)
  BY DEF Matches, OpenIn, Open, Exists, About
<1>2. ASSUME OneOpenPerIdentity PROVE OneOpenIn(alerts)
  <2> SUFFICES ASSUME NEW i \in Ids, NEW j \in Ids, OpenIn(alerts, i), OpenIn(alerts, j),
                      alerts[i].rule = alerts[j].rule, alerts[i].subject = alerts[j].subject
               PROVE  i = j
    BY DEF OneOpenIn
  <2>1. Open(i) /\ Open(j)
    BY DEF OpenIn, Open, Exists
  <2> QED
    BY <1>2, <2>1, Zenon DEF OneOpenPerIdentity, About
<1>3. ASSUME NEW r, NEW s PROVE IncidentOf(r, s) = IncidentIn(alerts, r, s)
  <2>1. \A i : Matches(alerts, i, r, s) = (Open(i) /\ About(i, r, s))
    BY DEF Matches, OpenIn, Open, Exists, About
  <2> QED
    BY <2>1, Zenon DEF IncidentOf, IncidentIn, View, I!Quiet
<1> QED
  BY <1>1, <1>2, <1>3

\* The same in the next state.
LEMMA InTableNext ==
  /\ OneOpenPerIdentity' => OneOpenIn(alerts')
  /\ \A i, r, s : Matches(alerts', i, r, s) <=> Open(i)' /\ About(i, r, s)'
  /\ \A r, s : IncidentOf(r, s)' = IncidentIn(alerts', r, s)
<1>1. \A i, r, s : Matches(alerts', i, r, s) <=> Open(i)' /\ About(i, r, s)'
  BY DEF Matches, OpenIn, Open, Exists, About
<1>2. ASSUME OneOpenPerIdentity' PROVE OneOpenIn(alerts')
  <2> SUFFICES ASSUME NEW i \in Ids, NEW j \in Ids, OpenIn(alerts', i), OpenIn(alerts', j),
                      alerts'[i].rule = alerts'[j].rule, alerts'[i].subject = alerts'[j].subject
               PROVE  i = j
    BY DEF OneOpenIn
  <2>1. Open(i)' /\ Open(j)'
    BY DEF OpenIn, Open, Exists
  <2> QED
    BY <1>2, <2>1, Zenon DEF OneOpenPerIdentity, About
<1>3. ASSUME NEW r, NEW s PROVE IncidentOf(r, s)' = IncidentIn(alerts', r, s)
  <2>1. \A i : Matches(alerts', i, r, s) = (Open(i) /\ About(i, r, s))'
    BY DEF Matches, OpenIn, Open, Exists, About
  <2> QED
    BY <2>1, Zenon DEF IncidentOf, IncidentIn, View, I!Quiet
<1> QED
  BY <1>1, <1>2, <1>3

\* The incident of an identity is its open row, when it has one.
LEMMA IncidentOfRow ==
  ASSUME NEW T, OneOpenIn(T), NEW r, NEW s, NEW i \in Ids, Matches(T, i, r, s)
  PROVE  IncidentIn(T, r, s) = View(T[i])
<1> DEFINE j == CHOOSE k \in Ids : Matches(T, k, r, s)
<1>1. j \in Ids /\ Matches(T, j, r, s)
  OBVIOUS
<1>2. j = i
  BY <1>1 DEF OneOpenIn, Matches
<1> QED
  BY <1>2 DEF IncidentIn

\* No open row, no incident.
LEMMA IncidentOfNone ==
  ASSUME NEW T, NEW r, NEW s, \A i \in Ids : ~Matches(T, i, r, s)
  PROVE  IncidentIn(T, r, s) = I!Quiet
  BY DEF IncidentIn

\* A step that only moves rows of one identity leaves the other incidents.
LEMMA OthersKeep ==
  ASSUME IInv, IInv', NEW i \in Ids, NEW r, NEW s,
         \A j \in Ids : j # i => alerts'[j] = alerts[j],
         Open(i) => About(i, r, s), Open(i)' => About(i, r, s)'
  PROVE  \A q \in Rules, t \in Subjects :
           q # r \/ t # s => IncidentOf(q, t)' = IncidentOf(q, t)
<1> SUFFICES ASSUME NEW q \in Rules, NEW t \in Subjects, q # r \/ t # s
             PROVE  IncidentIn(alerts', q, t) = IncidentIn(alerts, q, t)
  BY InTable, InTableNext
<1>1. ~Matches(alerts, i, q, t) /\ ~Matches(alerts', i, q, t)
  BY InTable, InTableNext DEF About
<1>2. \A j \in Ids : Matches(alerts', j, q, t) <=> Matches(alerts, j, q, t)
  BY <1>1 DEF Matches, OpenIn
<1>3. CASE \E j \in Ids : Matches(alerts, j, q, t)
  <2>1. PICK j \in Ids : Matches(alerts, j, q, t)
    BY <1>3
  <2>2. Matches(alerts', j, q, t) /\ alerts'[j] = alerts[j]
    BY <1>1, <1>2, <2>1
  <2>3. OneOpenIn(alerts) /\ OneOpenIn(alerts')
    BY InTable, InTableNext DEF IInv
  <2> QED
    BY <2>1, <2>2, <2>3, IncidentOfRow
<1>4. CASE \A j \in Ids : ~Matches(alerts, j, q, t)
  BY <1>2, <1>4, IncidentOfNone
<1> QED
  BY <1>3, <1>4

\* A step that moves one identity as an evaluation may is a step of Incidents.
LEMMA OneMoves ==
  ASSUME IInv, IInv', NEW i \in Ids, NEW r \in Rules, NEW s \in Subjects,
         \A j \in Ids : j # i => alerts'[j] = alerts[j],
         Open(i) => About(i, r, s), Open(i)' => About(i, r, s)',
         \/ IncidentOf(r, s)' = I!Sighted(r, IncidentOf(r, s))
         \/ /\ IncidentOf(r, s) # I!Quiet
            /\ IncidentOf(r, s)' = I!Missed(r, IncidentOf(r, s))
  PROVE  I!Next
<1>1. \A q \in Rules, t \in Subjects :
        q # r \/ t # s => IncidentOf(q, t)' = IncidentOf(q, t)
  BY OthersKeep
<1>2. incidentBar' = [incidentBar EXCEPT ![r][s] = IncidentOf(r, s)']
  BY <1>1 DEF incidentBar
<1>3. incidentBar[r][s] = IncidentOf(r, s)
  BY DEF incidentBar
<1> QED
  BY <1>2, <1>3, Zenon DEF I!Next, I!Sight, I!Miss

\* Both modules cap a count the same way.
LEMMA UpIsBump == \A n : I!Up(n) = Bump(n)
  BY DEF I!Up, Bump

\* A visited row is the incident of its identity, before and after.
LEMMA VisitedIncident ==
  ASSUME IInv, IInv', NEW p \in Passes, NEW i \in Ids, Visit(p, i),
         NEW r, NEW s, About(i, r, s),
         NEW row \in Row, row.rule = r, row.subject = s,
         alerts' = [alerts EXCEPT ![i] = row]
  PROVE  /\ r \in Rules /\ s \in Subjects /\ About(i, r, s)'
         /\ \A j \in Ids : j # i => alerts'[j] = alerts[j]
         /\ IncidentOf(r, s) = View(alerts[i])
         /\ OpenIn(alerts', i) => IncidentIn(alerts', r, s) = View(row)
<1>1. Open(i) /\ alerts[i] \in Row /\ alerts'[i] = row
  BY VisitFacts DEF IInv, IType, TypeOK
<1>2. /\ r \in Rules /\ s \in Subjects /\ About(i, r, s)'
      /\ \A j \in Ids : j # i => alerts'[j] = alerts[j]
  BY <1>1 DEF Row, About
<1>3. OneOpenIn(alerts) /\ OneOpenIn(alerts')
  BY InTable, InTableNext DEF IInv
<1>4. IncidentOf(r, s) = View(alerts[i])
  <2>1. Matches(alerts, i, r, s)
    BY <1>1, <1>2, InTable
  <2> QED
    BY <1>3, <2>1, IncidentOfRow, InTable
<1>5. ASSUME OpenIn(alerts', i) PROVE IncidentIn(alerts', r, s) = View(row)
  <2>1. Matches(alerts', i, r, s)
    BY <1>1, <1>5 DEF Matches
  <2> QED
    BY <1>1, <1>3, <2>1, IncidentOfRow
<1> QED
  BY <1>2, <1>4, <1>5

\* Closing the open row of an identity ends its incident.
LEMMA ClosedIncident ==
  ASSUME IInv, NEW i \in Ids, NEW r, NEW s, Open(i), About(i, r, s),
         \A j \in Ids : j # i => alerts'[j] = alerts[j], ~OpenIn(alerts', i)
  PROVE  IncidentIn(alerts', r, s) = I!Quiet
<1>1. ASSUME NEW j \in Ids PROVE ~Matches(alerts', j, r, s)
  <2>1. CASE j = i
    BY <2>1 DEF Matches
  <2>2. CASE j # i
    <3>1. Matches(alerts', j, r, s) => Open(j) /\ About(j, r, s)
      BY <2>2 DEF Matches, OpenIn, Open, Exists, About
    <3> QED
      BY <2>2, <3>1 DEF IInv, OneOpenPerIdentity, About
  <2> QED
    BY <2>1, <2>2
<1> QED
  BY <1>1, IncidentOfNone

\* A sighting of an open condition is a Sight of its incident.
LEMMA StillWrongImplements ==
  ASSUME IInv, IInv', NEW p \in Passes, NEW i \in Ids, StillWrong(p, i)
  PROVE  I!Next
<1>1. Visit(p, i)
  BY DEF StillWrong
<1>2. batch[p][i] = alerts[i] /\ alerts[i] \in Row /\ Open(i)
  BY <1>1, VisitFacts
<1>3. PICK r, s, row : r = alerts[i].rule /\ s = alerts[i].subject
                       /\ row = Continued(alerts[i], alerts[i])
  OBVIOUS
<1>4. /\ row \in Row /\ row.rule = r /\ row.subject = s
      /\ row.seen = Bump(alerts[i].seen) /\ row.missing = 0
      /\ row.state = IF Fires(alerts[i]) THEN "firing" ELSE alerts[i].state
      /\ row.open
  BY <1>2, <1>3, PatchType DEF Continued, Row, Open
<1>5. alerts' = [alerts EXCEPT ![i] = row]
  BY <1>2, <1>3 DEF StillWrong, IInv, IType, TypeOK
<1>6. /\ r \in Rules /\ s \in Subjects /\ About(i, r, s) /\ About(i, r, s)'
      /\ \A j \in Ids : j # i => alerts'[j] = alerts[j]
      /\ IncidentOf(r, s) = View(alerts[i])
      /\ IncidentOf(r, s)' = View(row)
  <2>1. About(i, r, s)
    BY <1>3 DEF About
  <2>2. alerts'[i] = row
    BY <1>5 DEF IInv, IType, TypeOK
  <2>3. OpenIn(alerts', i)
    BY <1>4, <2>2, RowNotNoRow DEF OpenIn
  <2>4. row \in Row /\ row.rule = r /\ row.subject = s
    BY <1>4
  <2>5. IncidentIn(alerts', r, s) = View(row)
    BY <1>1, <1>5, <2>1, <2>3, <2>4, VisitedIncident
  <2>6. IncidentOf(r, s)' = View(row)
    BY <2>5, InTableNext
  <2>7. r \in Rules /\ s \in Subjects /\ About(i, r, s)'
    BY <1>1, <1>5, <2>1, <2>4, VisitedIncident
  <2>8. IncidentOf(r, s) = View(alerts[i])
    BY <1>1, <1>5, <2>1, <2>4, VisitedIncident
  <2>9. \A j \in Ids : j # i => alerts'[j] = alerts[j]
    BY <1>1, <1>5, <2>1, <2>4, VisitedIncident
  <2> QED
    BY <2>1, <2>6, <2>7, <2>8, <2>9
<1>7. row.state = IF Bump(alerts[i].seen) >= FireAfter[r] THEN "firing" ELSE "pending"
  <2>1. alerts[i].state = "firing" <=> alerts[i].seen >= FireAfter[r]
    BY <1>2, <1>3 DEF IInv, Damped
  <2>2. /\ alerts[i].seen \in 0 .. CountCap /\ FireAfter[r] \in 1 .. CountCap
        /\ alerts[i].state \in {"pending", "firing"}
    BY <1>2, <1>6, DampingAssumption DEF Row, States
  <2>3. Bump(alerts[i].seen) >= alerts[i].seen /\ Bump(alerts[i].seen) \in Nat
    BY <2>2, DampingAssumption DEF Bump
  <2> QED
    BY <1>3, <1>4, <2>1, <2>2, <2>3 DEF Fires
<1>8. IncidentOf(r, s)' = I!Sighted(r, IncidentOf(r, s))
  BY <1>4, <1>6, <1>7, UpIsBump DEF I!Sighted, View
<1> QED
  BY <1>6, <1>8, OneMoves

\* An absence short of resolveAfter is a Miss of its incident.
LEMMA AbsentImplements ==
  ASSUME IInv, IInv', NEW p \in Passes, NEW i \in Ids, Absent(p, i)
  PROVE  I!Next
<1>1. Visit(p, i)
  BY DEF Absent
<1>2. batch[p][i] = alerts[i] /\ alerts[i] \in Row /\ Open(i)
  BY <1>1, VisitFacts
<1>3. PICK r, s, row : r = alerts[i].rule /\ s = alerts[i].subject
                       /\ row = Missed(alerts[i], alerts[i])
  OBVIOUS
<1>4. /\ row \in Row /\ row.rule = r /\ row.subject = s
      /\ row.seen = alerts[i].seen /\ row.missing = Bump(alerts[i].missing)
      /\ row.state = alerts[i].state /\ row.open
  BY <1>2, <1>3, PatchType DEF Missed, Row, Open
<1>5. alerts' = [alerts EXCEPT ![i] = row]
  BY <1>2, <1>3 DEF Absent, IInv, IType, TypeOK
<1>6. /\ r \in Rules /\ s \in Subjects /\ About(i, r, s) /\ About(i, r, s)'
      /\ \A j \in Ids : j # i => alerts'[j] = alerts[j]
      /\ IncidentOf(r, s) = View(alerts[i])
      /\ IncidentOf(r, s)' = View(row)
  <2>1. About(i, r, s)
    BY <1>3 DEF About
  <2>2. alerts'[i] = row
    BY <1>5 DEF IInv, IType, TypeOK
  <2>3. OpenIn(alerts', i)
    BY <1>4, <2>2, RowNotNoRow DEF OpenIn
  <2>4. row \in Row /\ row.rule = r /\ row.subject = s
    BY <1>4
  <2>5. IncidentIn(alerts', r, s) = View(row)
    BY <1>1, <1>5, <2>1, <2>3, <2>4, VisitedIncident
  <2>6. IncidentOf(r, s)' = View(row)
    BY <2>5, InTableNext
  <2>7. r \in Rules /\ s \in Subjects /\ About(i, r, s)'
    BY <1>1, <1>5, <2>1, <2>4, VisitedIncident
  <2>8. IncidentOf(r, s) = View(alerts[i])
    BY <1>1, <1>5, <2>1, <2>4, VisitedIncident
  <2>9. \A j \in Ids : j # i => alerts'[j] = alerts[j]
    BY <1>1, <1>5, <2>1, <2>4, VisitedIncident
  <2> QED
    BY <2>1, <2>6, <2>7, <2>8, <2>9
<1>7. ~(I!Up(alerts[i].missing) >= ResolveAfter[r])
  BY <1>2, <1>3, UpIsBump DEF Absent, Clears
<1>8. IncidentOf(r, s)' = I!Missed(r, IncidentOf(r, s))
  BY <1>4, <1>6, <1>7, UpIsBump DEF I!Missed, View
<1>9. IncidentOf(r, s) # I!Quiet
  BY <1>2, <1>6 DEF View, I!Quiet, Row, States
<1> QED
  BY <1>6, <1>8, <1>9, OneMoves

\* The absence that resolves is a Miss of its incident.
LEMMA ResolveImplements ==
  ASSUME IInv, IInv', NEW p \in Passes, NEW i \in Ids, Resolve(p, i)
  PROVE  I!Next
<1>1. Visit(p, i)
  BY DEF Resolve
<1>2. batch[p][i] = alerts[i] /\ alerts[i] \in Row /\ Open(i)
  BY <1>1, VisitFacts
<1>3. PICK r, s, row : r = alerts[i].rule /\ s = alerts[i].subject
                       /\ row = Resolved(alerts[i], alerts[i])
  OBVIOUS
<1>4. row \in Row /\ row.rule = r /\ row.subject = s /\ ~row.open
  BY <1>2, <1>3, ResolvedRow
<1>5. alerts' = [alerts EXCEPT ![i] = row]
  BY <1>2, <1>3 DEF Resolve, IInv, IType, TypeOK
<1>6. /\ r \in Rules /\ s \in Subjects /\ About(i, r, s) /\ About(i, r, s)'
      /\ \A j \in Ids : j # i => alerts'[j] = alerts[j]
      /\ IncidentOf(r, s) = View(alerts[i])
      /\ IncidentOf(r, s)' = I!Quiet
  <2>1. About(i, r, s)
    BY <1>3 DEF About
  <2>2. alerts'[i] = row
    BY <1>5 DEF IInv, IType, TypeOK
  <2>3. ~OpenIn(alerts', i)
    BY <1>4, <2>2 DEF OpenIn
  <2>4. row \in Row /\ row.rule = r /\ row.subject = s
    BY <1>4
  <2>5. \A j \in Ids : j # i => alerts'[j] = alerts[j]
    BY <1>1, <1>5, <2>1, <2>4, VisitedIncident
  <2>6. IncidentOf(r, s)' = I!Quiet
    BY <1>2, <2>1, <2>3, <2>5, ClosedIncident, InTableNext
  <2>7. r \in Rules /\ s \in Subjects /\ About(i, r, s)'
    BY <1>1, <1>5, <2>1, <2>4, VisitedIncident
  <2>8. IncidentOf(r, s) = View(alerts[i])
    BY <1>1, <1>5, <2>1, <2>4, VisitedIncident
  <2> QED
    BY <2>1, <2>5, <2>6, <2>7, <2>8
<1>7. I!Up(alerts[i].missing) >= ResolveAfter[r]
  BY <1>2, <1>3, UpIsBump DEF Resolve, Clears
<1>8. IncidentOf(r, s)' = I!Missed(r, IncidentOf(r, s))
  BY <1>6, <1>7 DEF I!Missed, View
<1>9. IncidentOf(r, s) # I!Quiet
  BY <1>2, <1>6 DEF View, I!Quiet, Row, States
<1> QED
  BY <1>6, <1>8, <1>9, OneMoves

\* The first sighting is a Sight of an incident that was quiet.
LEMMA CreateImplements ==
  ASSUME IInv, IInv', NEW p \in Passes, NEW i \in Ids, NEW s \in Subjects,
         Create(p, i, s)
  PROVE  I!Next
<1>1. PICK r, row : r = cursor[p] /\ row = NewRow(r, s)
  OBVIOUS
<1>2. /\ r \in Rules /\ s \in fresh[p] /\ ~Exists(i) /\ ~Open(i)
      /\ \A j \in Ids : Open(j) => ~About(j, r, s)
  BY <1>1 DEF Create, Unused, Open, IInv, IType, CursorInRules, FreshUnknown
<1>3. /\ row \in Row /\ row.rule = r /\ row.subject = s /\ row.open
      /\ row.seen = 1 /\ row.missing = 0
      /\ row.state = IF FireAfter[r] <= 1 THEN "firing" ELSE "pending"
  BY <1>1, <1>2, NewRowType DEF NewRow
<1>4. alerts'[i] = row /\ \A j \in Ids : j # i => alerts'[j] = alerts[j]
  BY <1>1 DEF Create, IInv, IType, TypeOK
<1>5. Open(i)' /\ About(i, r, s)'
  BY <1>3, <1>4, RowNotNoRow DEF Open, Exists, About
<1>6. IncidentOf(r, s) = I!Quiet
  BY <1>2, InTable, IncidentOfNone
<1>7. IncidentOf(r, s)' = View(row)
  <2>1. Matches(alerts', i, r, s) /\ OneOpenIn(alerts')
    BY <1>5, InTableNext DEF IInv
  <2> QED
    BY <1>4, <2>1, IncidentOfRow, InTableNext
<1>8. I!Up(0) = 1 /\ FireAfter[r] \in 1 .. CountCap
  BY <1>2, DampingAssumption DEF I!Up
<1>9. IncidentOf(r, s)' = I!Sighted(r, IncidentOf(r, s))
  BY <1>3, <1>6, <1>7, <1>8 DEF I!Sighted, I!Quiet, View
<1> QED
  BY <1>2, <1>4, <1>5, <1>9, OneMoves

\* A retention sweep moves no incident: it takes resolved rows only.
LEMMA SweepImplements ==
  ASSUME IInv, IInv', NEW old \in SUBSET Ids, Sweep(old)
  PROVE  incidentBar' = incidentBar
<1>1. \A j \in Ids : /\ OpenIn(alerts', j) <=> OpenIn(alerts, j)
                     /\ OpenIn(alerts, j) => alerts'[j] = alerts[j]
  BY DEF Sweep, Sweepable, OpenIn, Exists
<1>2. \A j \in Ids : \A r, s : Matches(alerts', j, r, s) <=> Matches(alerts, j, r, s)
  BY <1>1 DEF Matches
<1>3. ASSUME NEW r, NEW s PROVE IncidentOf(r, s)' = IncidentOf(r, s)
  <2>1. CASE \E j \in Ids : Matches(alerts, j, r, s)
    <3>1. PICK j \in Ids : Matches(alerts, j, r, s)
      BY <2>1
    <3>2. Matches(alerts', j, r, s) /\ alerts'[j] = alerts[j]
      BY <1>1, <1>2, <3>1 DEF Matches
    <3>3. OneOpenIn(alerts) /\ OneOpenIn(alerts')
      BY InTable, InTableNext DEF IInv
    <3> QED
      BY <3>1, <3>2, <3>3, IncidentOfRow, InTable, InTableNext
  <2>2. CASE \A j \in Ids : ~Matches(alerts, j, r, s)
    BY <1>2, <2>2, IncidentOfNone, InTable, InTableNext
  <2> QED
    BY <2>1, <2>2
<1> QED
  BY <1>3 DEF incidentBar

\* The passes, with their awaits, failures, crashes and the sweep beside them,
\* implement the damped signal of Incidents: every step of the evaluator moves
\* at most one identity, and moves it as one atomic evaluation would.
THEOREM Implements == Spec => ImplementsIncidents
<1>1. Init => I!Init
  <2> SUFFICES ASSUME Init PROVE I!Init
    OBVIOUS
  <2>1. \A r, s : IncidentOf(r, s) = I!Quiet
    BY InTable, IncidentOfNone DEF Init, NoRows, Matches, OpenIn
  <2> QED
    BY <2>1 DEF I!Init, incidentBar
<1>2. ASSUME IInv, IInv', [Next]_vars PROVE [I!Next]_incidentBar
  <2>1. ASSUME UNCHANGED alerts PROVE incidentBar' = incidentBar
    BY <2>1 DEF incidentBar, IncidentOf, Open, Exists, About
  <2> QED
    BY <1>2, <2>1, StillWrongImplements, AbsentImplements, ResolveImplements,
       CreateImplements, SweepImplements
    DEF Next, PassStep, WorldChanges, Start, ReadWorld, FetchOpen, NextRule, Finish,
        Fail, Crash, vars
<1> QED
  BY <1>1, <1>2, IInvAlways, PTL DEF Spec, ImplementsIncidents, I!Spec

-----------------------------------------------------------------------------
(* While nothing has failed, every recovery follows its failure.           *)

\* A firing row was reported, or is about to be by the pass that turned it.
Reported ==
  /\ \A i \in Ids : Exists(i) /\ alerts[i].state = "firing" =>
       told[i]["fired"] > 0 \/ Collected(i, "fired")
  /\ \A i \in Ids : Exists(i) /\ Collected(i, "resolved") => alerts[i].state = "firing"
  /\ NoRecoveryUntold

\* A visited row keeps every transition accounted for.
LEMMA ReportedVisit ==
  ASSUME IInv, Reported, NEW p \in Passes, NEW i \in Ids,
         StillWrong(p, i) \/ Absent(p, i) \/ Resolve(p, i)
  PROVE  Reported'
<1> USE DEF IInv, IType, TypeOK
<1>1. Visit(p, i) /\ told' = told /\ \A j \in Ids : j # i => alerts'[j] = alerts[j]
  BY DEF StillWrong, Absent, Resolve
<1>2. /\ batch[p][i] = alerts[i] /\ alerts[i] \in Row /\ Exists(i)
      /\ alerts[i].state \in {"pending", "firing"}
  BY <1>1, VisitFacts DEF Open, Row, States
<1>3. \A j \in Ids, k \in Kinds : Collected(j, k) => Collected(j, k)'
  BY DEF StillWrong, Absent, Resolve, Collected, Collect
<1>4. \A j \in Ids, k \in Kinds : Collected(j, k)' => Collected(j, k) \/ j = i
  <2> SUFFICES ASSUME NEW j \in Ids, NEW k \in Kinds, j # i, NEW q \in Passes,
                      <<j, k>> \in transitions'[q]
               PROVE  <<j, k>> \in transitions[q]
    BY DEF Collected
  <2>1. CASE StillWrong(p, i)
    BY <2>1 DEF StillWrong, Collect
  <2>2. CASE Absent(p, i)
    BY <2>2 DEF Absent
  <2>3. CASE Resolve(p, i)
    BY <2>3 DEF Resolve, Collect
  <2> QED
    BY <2>1, <2>2, <2>3
<1>5. /\ alerts'[i].state = "firing" =>
           told[i]["fired"] > 0 \/ Collected(i, "fired")'
      /\ Collected(i, "resolved")' => alerts'[i].state = "firing"
  <2>1. CASE StillWrong(p, i)
    <3>1. alerts'[i].state = IF Fires(alerts[i]) THEN "firing" ELSE alerts[i].state
      BY <1>2, <2>1 DEF StillWrong, Continued, Row
    <3>2. Fires(alerts[i]) => Collected(i, "fired")'
      BY <1>2, <2>1 DEF StillWrong, Collected, Collect
    <3>3. Collected(i, "resolved")' => Collected(i, "resolved")
      BY <2>1 DEF StillWrong, Collected, Collect
    <3> QED
      BY <1>2, <1>3, <3>1, <3>2, <3>3 DEF Reported, Kinds
  <2>2. CASE Absent(p, i)
    BY <1>2, <2>2 DEF Absent, Missed, Row, Reported, Collected
  <2>3. CASE Resolve(p, i)
    <3>1. alerts'[i].state = alerts[i].state
      BY <1>2, <2>3 DEF Resolve, Resolved, Row
    <3>2. Collected(i, "resolved")' => Collected(i, "resolved") \/ alerts[i].state = "firing"
      BY <1>2, <2>3 DEF Resolve, Collected, Collect, HasRecovery
    <3> QED
      BY <1>2, <1>3, <3>1, <3>2 DEF Reported, Kinds
  <2> QED
    BY <2>1, <2>2, <2>3
<1>6. \A j \in Ids : j # i => (Exists(j)' <=> Exists(j))
  BY <1>1 DEF Exists
<1> QED
  BY <1>1, <1>3, <1>4, <1>5, <1>6 DEF Reported, NoRecoveryUntold, Kinds

\* A created row keeps every transition accounted for.
LEMMA ReportedCreate ==
  ASSUME IInv, Reported, NEW p \in Passes, NEW i \in Ids, NEW s \in Subjects,
         Create(p, i, s)
  PROVE  Reported'
<1> USE DEF IInv, IType, TypeOK
<1>1. told' = told /\ \A j \in Ids : j # i => alerts'[j] = alerts[j]
  BY DEF Create
<1>2. \A j \in Ids, k \in Kinds : Collected(j, k) => Collected(j, k)'
  BY DEF Create, Collected, Collect
<1>3. \A j \in Ids : Collected(j, "resolved")' => Collected(j, "resolved")
  BY DEF Create, Collected, Collect
<1>4. ~Collected(i, "resolved")
  BY DEF Create, Unused, Collected, Kinds
<1>5. alerts'[i].state = "firing" => Collected(i, "fired")'
  BY DEF Create, NewRow, Collected, Collect
<1>6. \A j \in Ids : j # i => (Exists(j)' <=> Exists(j))
  BY <1>1 DEF Exists
<1> QED
  BY <1>1, <1>2, <1>3, <1>4, <1>5, <1>6 DEF Reported, NoRecoveryUntold, Kinds

\* The end of a pass hands over what it collected, and loses nothing.
LEMMA ReportedFinish ==
  ASSUME IInv, Reported, NEW p \in Passes, Finish(p)
  PROVE  Reported'
<1>1. alerts' = alerts /\ Active(p)
  BY DEF Finish, Active
<1>2. \A j \in Ids, k \in Kinds : ~Collected(j, k)'
  BY <1>1, Alone DEF Finish, Discard, Collected, IInv, IType, TypeOK
<1>3. \A j \in Ids, k \in Kinds : Collected(j, k) => <<j, k>> \in transitions[p]
  BY <1>1, Alone DEF Collected
<1>4. \A j \in Ids, k \in Kinds :
        told'[j][k] = IF Exists(j) /\ <<j, k>> \in transitions[p]
                        THEN Tell(told[j][k]) ELSE told[j][k]
  BY DEF Finish
<1>5. \A j \in Ids, k \in Kinds : told[j][k] \in 0 .. 2 /\ Tell(told[j][k]) > 0
  BY DEF IInv, IType, TypeOK, Tell
<1>6. ASSUME NEW j \in Ids, Exists(j), alerts[j].state = "firing"
      PROVE  told'[j]["fired"] > 0
  BY <1>3, <1>4, <1>5, <1>6 DEF Reported, Kinds
<1>7. ASSUME NEW j \in Ids, told'[j]["resolved"] > 0 PROVE told'[j]["fired"] > 0
  <2>1. CASE told[j]["resolved"] > 0
    BY <1>4, <1>5, <2>1 DEF Reported, NoRecoveryUntold, Kinds
  <2>2. CASE Exists(j) /\ <<j, "resolved">> \in transitions[p]
    BY <1>6, <2>2 DEF Reported, Collected
  <2> QED
    BY <1>4, <1>7, <2>1, <2>2 DEF Kinds
<1> QED
  BY <1>1, <1>2, <1>6, <1>7 DEF Reported, NoRecoveryUntold, Exists, Kinds

\* Without a failure, every step keeps every transition accounted for.
LEMMA ReportedStep ==
  ASSUME IInv, faults = 0 => Reported, [Next]_vars
  PROVE  faults' = 0 => Reported'
<1> SUFFICES ASSUME faults' = 0 PROVE Reported'
  OBVIOUS
<1> USE DEF IInv, IType, TypeOK
<1>1. ASSUME UNCHANGED <<alerts, told, transitions, faults>> PROVE Reported'
  BY <1>1 DEF Reported, NoRecoveryUntold, Collected, Exists
<1>2. ASSUME NEW p \in Passes, NEW i \in Ids,
             StillWrong(p, i) \/ Absent(p, i) \/ Resolve(p, i)
      PROVE  Reported'
  BY <1>2, ReportedVisit DEF StillWrong, Absent, Resolve
<1>3. ASSUME NEW p \in Passes, NEW i \in Ids, NEW s \in Subjects, Create(p, i, s)
      PROVE  Reported'
  BY <1>3, ReportedCreate DEF Create
<1>4. ASSUME NEW p \in Passes, Finish(p) PROVE Reported'
  BY <1>4, ReportedFinish DEF Finish
<1>5. ASSUME NEW p \in Passes, Fail(p) PROVE FALSE
  BY <1>5, BoundsAssumption DEF Fail
<1>6. CASE Crash
  BY <1>6, BoundsAssumption DEF Crash
<1>7. ASSUME NEW old \in SUBSET Ids, Sweep(old) PROVE Reported'
  <2>1. /\ faults = 0 /\ \A j \in Ids, k \in Kinds : Collected(j, k)' <=> Collected(j, k)
        /\ \A j \in Ids : IF j \in old THEN ~Exists(j)' /\ told'[j] = NeverTold
                          ELSE alerts'[j] = alerts[j] /\ told'[j] = told[j]
    BY <1>7 DEF Sweep, passVars, Collected, Exists
  <2>2. NeverTold["resolved"] = 0
    BY DEF NeverTold, Kinds
  <2>3. \A j \in Ids : Exists(j)' =>
          Exists(j) /\ alerts'[j] = alerts[j] /\ told'[j] = told[j]
    BY <2>1 DEF Exists
  <2>4. \A j \in Ids : told'[j]["resolved"] > 0 => told'[j] = told[j]
    BY <2>1, <2>2
  <2>5. NoRecoveryUntold'
    BY <2>1, <2>4 DEF Reported, NoRecoveryUntold
  <2> QED
    BY <2>1, <2>3, <2>5 DEF Reported, Kinds
<1> QED
  BY <1>1, <1>2, <1>3, <1>4, <1>5, <1>6, <1>7
  DEF Next, PassStep, WorldChanges, Start, ReadWorld, FetchOpen, NextRule, passVars, vars

\* As long as no pass failed and the process never died, a recovery is handed
\* over only for an alert whose failure was.
THEOREM RecoveryFollowsFailure == Spec => []NoRecoveryUntoldUnlessFailed
<1>1. Init => (faults = 0 => Reported)
  BY DEF Init, Reported, NoRecoveryUntold, Exists, NoRows, NeverTold, Kinds
<1>2. IInv /\ (faults = 0 => Reported) /\ [Next]_vars => (faults = 0 => Reported)'
  BY ReportedStep
<1>3. (faults = 0 => Reported) => NoRecoveryUntoldUnlessFailed
  BY DEF Reported, NoRecoveryUntoldUnlessFailed
<1> QED
  BY <1>1, <1>2, <1>3, IInvAlways, PTL DEF Spec


-----------------------------------------------------------------------------
(* Rules that resolve on the first absence fire on what held throughout.   *)

\* The sightings of an open row are evaluations in a row, when its rule forgives
\* no absence.
Held ==
  \A i \in Ids : Open(i) /\ ResolveAfter[alerts[i].rule] = 1 =>
    streak[alerts[i].rule][alerts[i].subject] >= alerts[i].seen

FiresWhenHeld ==
  \A i \in Ids : Turns(i) /\ ResolveAfter[alerts'[i].rule] = 1 =>
    streak'[alerts'[i].rule][alerts'[i].subject] >= FireAfter[alerts'[i].rule]

\* More sightings never count for fewer.
LEMMA BumpGrows ==
  ASSUME NEW m \in 0 .. CountCap, NEW n \in 0 .. CountCap
  PROVE  /\ Bump(m) >= 1 /\ Bump(m) <= CountCap
         /\ m <= n => Bump(m) <= Bump(n)
  BY DampingAssumption DEF Bump

\* Steps that count nothing, and open, change or turn no row.
LEMMA HeldStays ==
  ASSUME IInv, Held, UNCHANGED streak,
         \A i \in Ids : alerts'[i] \in {alerts[i], NoRow}
  PROVE  Held' /\ FiresWhenHeld
<1>1. Held'
  BY DEF Held, Open, Exists
<1>2. \A i \in Ids : ~Turns(i)
  BY DEF Turns, Exists
<1> QED BY <1>1, <1>2 DEF FiresWhenHeld

\* A step that counts one identity, and leaves the rows of the others alone.
LEMMA HeldElsewhere ==
  ASSUME IInv, Held, NEW i \in Ids, NEW r \in Rules, NEW s \in Subjects, NEW n \in Nat,
         streak' = [streak EXCEPT ![r][s] = n],
         \A j \in Ids : j # i => alerts'[j] = alerts[j] /\ (Open(j) => ~About(j, r, s)),
         Open(i)' /\ ResolveAfter[r] = 1 => n >= alerts'[i].seen,
         Open(i)' => About(i, r, s)',
         Turns(i) => Open(i)' /\ alerts'[i].seen >= FireAfter[r],
         Open(i)' => alerts'[i] \in Row
  PROVE  Held' /\ FiresWhenHeld
<1> USE DEF IInv, IType, TypeOK
<1>1. /\ streak'[r][s] = n
      /\ \A q \in Rules, t \in Subjects : q # r \/ t # s => streak'[q][t] = streak[q][t]
  OBVIOUS
<1>2. ASSUME NEW j \in Ids, j # i, Open(j)', ResolveAfter[alerts'[j].rule] = 1
      PROVE  streak'[alerts'[j].rule][alerts'[j].subject] >= alerts'[j].seen
  <2>1. alerts'[j] = alerts[j] /\ Open(j) /\ alerts[j] \in Row
    BY <1>2 DEF Open, Exists
  <2>2. alerts[j].rule \in Rules /\ alerts[j].subject \in Subjects
    BY <2>1 DEF Row
  <2>3. alerts[j].rule # r \/ alerts[j].subject # s
    BY <1>2, <2>1 DEF About
  <2>4. streak[alerts[j].rule][alerts[j].subject] >= alerts[j].seen
    BY <1>2, <2>1 DEF Held
  <2> QED BY <1>1, <2>1, <2>2, <2>3, <2>4
<1>3. ASSUME Open(i)', ResolveAfter[alerts'[i].rule] = 1
      PROVE  streak'[alerts'[i].rule][alerts'[i].subject] >= alerts'[i].seen
  BY <1>1, <1>3 DEF About
<1>4. Held'
  BY <1>2, <1>3 DEF Held
<1>5. \A j \in Ids : Turns(j) => j = i
  BY DEF Turns, Exists
<1>6. ASSUME Turns(i), ResolveAfter[alerts'[i].rule] = 1
      PROVE  streak'[alerts'[i].rule][alerts'[i].subject] >= FireAfter[alerts'[i].rule]
  <2>1. Open(i)' /\ alerts'[i].seen >= FireAfter[r] /\ alerts'[i] \in Row
    BY <1>6
  <2>3. alerts'[i].rule = r /\ alerts'[i].subject = s
    BY <2>1 DEF About
  <2>4. alerts'[i].seen \in 0 .. CountCap /\ FireAfter[r] \in 1 .. CountCap
    BY <2>1, DampingAssumption DEF Row
  <2>2. n >= alerts'[i].seen
    BY <1>6, <2>1, <2>3
  <2>5. n >= FireAfter[r]
    BY <2>1, <2>2, <2>4, DampingAssumption
  <2> QED BY <1>1, <2>3, <2>5
<1> QED BY <1>4, <1>5, <1>6 DEF FiresWhenHeld

\* A visit of a row: a sighting bumps both counts, an absence of a rule that
\* forgives none closes the row.
LEMMA HeldVisit ==
  ASSUME IInv, IInv', Held, NEW p \in Passes, NEW i \in Ids,
         StillWrong(p, i) \/ Absent(p, i) \/ Resolve(p, i)
  PROVE  Held' /\ FiresWhenHeld
<1> USE DEF IInv, IType, TypeOK
<1>1. Visit(p, i) /\ \A j \in Ids : j # i => alerts'[j] = alerts[j]
  BY DEF StillWrong, Absent, Resolve
<1>2. batch[p][i] = alerts[i] /\ alerts[i] \in Row /\ Open(i)
  BY <1>1, VisitFacts
<1>3. PICK old, r, s : old = alerts[i] /\ r = old.rule /\ s = old.subject
  OBVIOUS
<1>4. /\ old \in Row /\ r \in Rules /\ s \in Subjects
      /\ old.seen \in 0 .. CountCap /\ old.missing \in 0 .. CountCap
      /\ About(i, r, s) /\ Exists(i)
  BY <1>2, <1>3 DEF Row, About, Open
<1>5. \A j \in Ids : j # i /\ Open(j) => ~About(j, r, s)
  BY <1>2, <1>3 DEF OneOpenPerIdentity, About
<1>6. old.state = "firing" <=> old.seen >= FireAfter[r]
  BY <1>2, <1>3 DEF Damped
<1>7. CASE StillWrong(p, i)
  <2>1. PICK n : n = Bump(streak[r][s])
    OBVIOUS
  <2>2. streak' = [streak EXCEPT ![r][s] = n] /\ alerts'[i] = Continued(old, old)
    BY <1>2, <1>3, <1>7, <2>1 DEF StillWrong
  <2>3. n \in Nat /\ streak[r][s] \in 0 .. CountCap
    BY <1>4, <2>1, BumpType
  <2>4. /\ alerts'[i] \in Row /\ alerts'[i].rule = r /\ alerts'[i].subject = s
        /\ alerts'[i].seen = Bump(old.seen)
        /\ alerts'[i].state = "firing" <=> alerts'[i].seen >= FireAfter[r]
    <3>1. old.state = "firing" <=> old.seen >= FireAfter[old.rule]
      BY <1>3, <1>6
    <3>2. Continued(old, old).seen = Bump(old.seen)
      BY <1>4 DEF Continued, Row
    <3> QED BY <1>3, <1>4, <2>2, <3>1, <3>2, ContinuedRow
  <2>5. ResolveAfter[r] = 1 => n >= alerts'[i].seen
    BY <1>2, <1>3, <1>4, <2>1, <2>3, <2>4, BumpGrows DEF Held
  <2>6. Turns(i) => Open(i)' /\ alerts'[i].seen >= FireAfter[r]
    BY <1>2, <1>3, <1>4, <2>2, <2>4, RowNotNoRow DEF Turns, Open, Exists, Continued, Row
  <2>7. About(i, r, s)'
    BY <2>4 DEF About
  <2>8. \A j \in Ids : j # i => alerts'[j] = alerts[j] /\ (Open(j) => ~About(j, r, s))
    BY <1>1, <1>5
  <2>9. alerts'[i] \in Row /\ streak' = [streak EXCEPT ![r][s] = n] /\ n \in Nat
    BY <2>2, <2>3, <2>4
  <2> QED BY <1>4, <2>5, <2>6, <2>7, <2>8, <2>9, HeldElsewhere
<1>8. CASE Absent(p, i)
  <2>1. streak' = [streak EXCEPT ![r][s] = 0] /\ alerts'[i] = Missed(old, old)
    BY <1>2, <1>3, <1>8 DEF Absent
  <2>2. ~Clears(old)
    BY <1>2, <1>3, <1>8 DEF Absent
  <2>3. ResolveAfter[r] # 1
    <3>1. Bump(old.missing) >= 1
      BY <1>4, BumpGrows, DampingAssumption
    <3>2. ~(Bump(old.missing) >= ResolveAfter[r])
      BY <1>3, <2>2 DEF Clears
    <3> QED BY <3>1, <3>2
  <2>4. /\ alerts'[i] \in Row /\ About(i, r, s)' /\ alerts'[i].state = old.state
    <3>1. old.state = "firing" <=> old.seen >= FireAfter[old.rule]
      BY <1>3, <1>6
    <3> QED BY <1>3, <1>4, <2>1, <2>2, <3>1, MissedRow DEF About
  <2>5. ~Turns(i)
    BY <1>3, <1>4, <2>4 DEF Turns
  <2> QED BY <1>1, <1>4, <1>5, <2>1, <2>3, <2>4, <2>5, HeldElsewhere
<1>9. CASE Resolve(p, i)
  <2>1. streak' = [streak EXCEPT ![r][s] = 0] /\ alerts'[i] = Resolved(old, old)
    BY <1>2, <1>3, <1>9 DEF Resolve
  <2>2. ~Open(i)' /\ alerts'[i].state = old.state
    BY <1>4, <2>1, ResolvedRow DEF Open
  <2>3. ~Turns(i)
    BY <1>3, <1>4, <2>2 DEF Turns
  <2> QED BY <1>1, <1>4, <1>5, <2>1, <2>2, <2>3, HeldElsewhere
<1> QED BY <1>7, <1>8, <1>9

\* A created row has one sighting, and its identity has been seen at least once.
LEMMA HeldCreate ==
  ASSUME IInv, Held, NEW p \in Passes, NEW i \in Ids, NEW s \in Subjects, Create(p, i, s)
  PROVE  Held' /\ FiresWhenHeld
<1> USE DEF IInv, IType, TypeOK
<1>1. PICK r, n : r = cursor[p] /\ n = Bump(streak[r][s])
  OBVIOUS
<1>2. /\ r \in Rules /\ s \in fresh[p] /\ ~Exists(i)
      /\ \A j \in Ids : Open(j) => ~About(j, r, s)
  BY <1>1 DEF Create, Unused, CursorInRules, FreshUnknown
<1>3. n \in Nat /\ n >= 1
  BY <1>1, <1>2, BumpType, BumpGrows
<1>4. /\ streak' = [streak EXCEPT ![r][s] = n] /\ alerts'[i] = NewRow(r, s)
      /\ \A j \in Ids : j # i => alerts'[j] = alerts[j]
  BY <1>1 DEF Create
<1>5. /\ alerts'[i] \in Row /\ About(i, r, s)' /\ Open(i)' /\ alerts'[i].seen = 1
      /\ alerts'[i].state = "firing" => alerts'[i].seen >= FireAfter[r]
  BY <1>2, <1>4, NewRowType, RowNotNoRow, DampingAssumption
  DEF NewRow, About, Open, Exists
<1> QED BY <1>2, <1>3, <1>4, <1>5, HeldElsewhere DEF Turns

\* A rule that resolves on the first absence fires only when its condition held for
\* fireAfter evaluations in a row, whatever passes fail, overlap or crash
\* (alerts/rule.ts).
THEOREM BriskRulesFireOnWhatHeld == Spec => FiresWhenHeldIfBrisk
<1>1. Init => Held
  BY DEF Init, Held, Open, Exists, NoRows
<1>2. ASSUME IInv, IInv', Held, [Next]_vars PROVE Held' /\ FiresWhenHeld
  <2>1. ASSUME UNCHANGED <<alerts, streak>> PROVE Held' /\ FiresWhenHeld
    BY <1>2, <2>1, HeldStays
  <2>2. ASSUME NEW old \in SUBSET Ids, Sweep(old) PROVE Held' /\ FiresWhenHeld
    <3>1. UNCHANGED streak /\ \A i \in Ids : alerts'[i] \in {alerts[i], NoRow}
      BY <2>2 DEF Sweep
    <3> QED BY <1>2, <3>1, HeldStays
  <2>3. ASSUME NEW p \in Passes, PassStep(p) PROVE Held' /\ FiresWhenHeld
    BY <1>2, <2>1, <2>3, HeldVisit, HeldCreate
    DEF PassStep, Start, ReadWorld, FetchOpen, NextRule, Finish
  <2> QED BY <1>2, <2>1, <2>2, <2>3 DEF Next, WorldChanges, Fail, Crash, vars
<1>3. IInv /\ IInv' /\ Held /\ [Next]_vars =>
        [\A i \in Ids : Turns(i) /\ ResolveAfter[alerts'[i].rule] = 1 =>
           streak'[alerts'[i].rule][alerts'[i].subject] >= FireAfter[alerts'[i].rule]]_vars
  BY <1>2 DEF FiresWhenHeld
<1> QED BY <1>1, <1>2, <1>3, IInvAlways, PTL DEF Spec, FiresWhenHeldIfBrisk
=============================================================================
