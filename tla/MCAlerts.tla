------------------------------ MODULE MCAlerts ------------------------------
(***************************************************************************)
(* Instances of Alerts for TLC.  The damping pairs are those of            *)
(* alerts/rules.ts: node-not-ready and pod-unschedulable (2, 1),           *)
(* pod-crashloop (2, 2), backup-failed (1, 1).                             *)
(***************************************************************************)
EXTENDS Alerts, TLC

\* node-not-ready, pod-crashloop
SlowFire == <<2, 2>>
SlowResolve == <<1, 2>>

\* backup-failed, pod-crashloop
MixedFire == <<1, 2>>
MixedResolve == <<1, 2>>

Symmetry ==
  Permutations(Subjects) \cup Permutations(Ids) \cup Permutations(Passes)
=============================================================================
