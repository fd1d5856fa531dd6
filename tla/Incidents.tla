------------------------------ MODULE Incidents ------------------------------
(***************************************************************************)
(* What the alert evaluator promises about one (rule, subject): a damped   *)
(* on/off signal.  Every evaluation either sights the condition or misses  *)
(* it; nothing else, no crash, no failed or overlapping pass, no sweep of  *)
(* the table, moves the signal.  Alerts.tla is shown to implement it.      *)
(***************************************************************************)
EXTENDS Integers

CONSTANTS Rules, Subjects, FireAfter, ResolveAfter, CountCap

VARIABLE incident   \* rule -> subject -> where its incident stands

Quiet == [phase |-> "quiet", seen |-> 0, missing |-> 0]

Up(n) == IF n < CountCap THEN n + 1 ELSE n

Sighted(r, was) ==
  [phase |-> IF Up(was.seen) >= FireAfter[r] THEN "firing" ELSE "pending",
   seen |-> Up(was.seen), missing |-> 0]

Missed(r, was) ==
  IF Up(was.missing) >= ResolveAfter[r] THEN Quiet
  ELSE [was EXCEPT !.missing = Up(was.missing)]

Init == incident = [r \in Rules |-> [s \in Subjects |-> Quiet]]

\* An evaluation observes the condition: it is suspected, or confirmed.
Sight(r, s) ==
  incident' = [incident EXCEPT ![r][s] = Sighted(r, @)]

\* An evaluation does not observe it: the incident is closer to its end.
Miss(r, s) ==
  /\ incident[r][s] # Quiet
  /\ incident' = [incident EXCEPT ![r][s] = Missed(r, @)]

Next == \E r \in Rules, s \in Subjects : Sight(r, s) \/ Miss(r, s)

Spec == Init /\ [][Next]_incident

=============================================================================
