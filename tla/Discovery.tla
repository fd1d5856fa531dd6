------------------------------ MODULE Discovery ------------------------------
(***************************************************************************)
(* Which integrations the server thinks there are, and which screens that  *)
(* offers: plugins/detection.service.ts (probe, record, override),         *)
(* db/integration-state.repo.ts, plugins/manifest.ts, and what starts a    *)
(* sweep: the boot and the timer (main.ts), a machine that reports for the *)
(* first time (collect/host-ingest.ts) and a rescan                        *)
(* (http/capabilities.controller.ts).                                      *)
(*                                                                         *)
(* A sweep probes each module in the order of the registry and records it  *)
(* before it probes the next.  Nothing keeps two sweeps apart.  Two        *)
(* modules stand for the rest: traefik, found in the cluster, and          *)
(* host-agent, found by what has reported.                                 *)
(***************************************************************************)
EXTENDS Naturals, Sequences

CONSTANTS
  Sweeps,      \* sweeps under way at once
  MaxChanges,  \* bound: changes of the cluster, of the agents and by the user
  MaxFaults    \* bound: probes and writes that fail, restarts

VARIABLES
  cluster,    \* what is there of Traefik
  reporting,  \* an agent has reported within the last minute
  latest,     \* HostIngest.#latest has it: it has reported since the boot
  up,         \* the boot's own sweep is over and the server listens
  rows,       \* table integration_state
  sweeps,     \* sweep -> what it is doing
  chosen,     \* history: the override the user was last told is set
  overlapped, \* history: since the boot, a sweep started while another was under way
  missed,     \* history: since the boot, a sweep did not run to its end
  silenced,   \* history: since the boot, an agent has gone silent
  changes, faults

vars == <<cluster, reporting, latest, up, rows, sweeps, chosen, overlapped, missed,
          silenced, changes, faults>>

Registry == <<"traefik", "host-agent">>
Modules == {Registry[i] : i \in DOMAIN Registry}
Overrides == {"auto", "force_on", "force_off"}

\* State of an integration, and whether what it feeds is degraded.
Present == [state |-> "present", degraded |-> FALSE]
Degraded == [state |-> "present", degraded |-> TRUE]
Absent == [state |-> "absent", degraded |-> FALSE]
Unknown == [state |-> "unknown", degraded |-> FALSE]

NoRow == [found |-> Unknown, override |-> "auto", stored |-> FALSE]
Idle == [stage |-> "idle", next |-> 1, found |-> Unknown]

-----------------------------------------------------------------------------
(* What is shown.                                                          *)

\* effectiveState.
Effective(found, override) ==
  CASE override = "force_on"  -> [found EXCEPT !.state = "present"]
    [] override = "force_off" -> [found EXCEPT !.state = "absent"]
    [] OTHER                  -> found

\* availability and the navigation: the screens of the facets a present
\* integration feeds.
Offered(m) ==
  LET shown == Effective(rows[m].found, rows[m].override) IN
  shown.state = "present" /\ ~shown.degraded

\* What detect() finds when nothing fails.
Truth(m) ==
  IF m = "traefik" THEN cluster
  ELSE IF reporting THEN Present ELSE Absent

-----------------------------------------------------------------------------
(* A sweep.                                                                *)

Begins(s) ==
  /\ sweeps[s].stage = "idle"
  /\ sweeps' = [sweeps EXCEPT ![s].stage = "probing"]
  /\ overlapped' = (overlapped \/ \E t \in Sweeps : sweeps[t].stage # "idle")

\* The boot's sweep, and the timer's after the nodes have been listed.
Sweep(s) ==
  /\ up \/ \A t \in Sweeps : sweeps[t].stage = "idle"  \* the boot awaits its own
  /\ Begins(s)
  /\ UNCHANGED <<cluster, reporting, latest, up, rows, chosen, missed, silenced, changes, faults>>

\* POST capabilities/rescan.
Rescan(s) ==
  /\ up
  /\ changes < MaxChanges
  /\ changes' = changes + 1
  /\ Begins(s)
  /\ UNCHANGED <<cluster, reporting, latest, up, rows, chosen, missed, silenced, faults>>

\* Mutant: what has been found is not probed again.
Probe_Sticky(s) ==
  /\ sweeps[s].stage = "probing"
  /\ LET m == Registry[sweeps[s].next] IN
     sweeps' = [sweeps EXCEPT ![s] = [@ EXCEPT !.stage = "probed",
       !.found = IF rows[m].found.state = "present" THEN rows[m].found ELSE Truth(m)]]
  /\ UNCHANGED <<cluster, reporting, latest, up, rows, chosen, overlapped, missed, silenced,
                 changes, faults>>

\* #probe: one module's detect().
Probe(s) ==
  /\ sweeps[s].stage = "probing"
  /\ sweeps' = [sweeps EXCEPT ![s] = [@ EXCEPT !.stage = "probed", !.found = Truth(Registry[sweeps[s].next])]]
  /\ UNCHANGED <<cluster, reporting, latest, up, rows, chosen, overlapped, missed, silenced,
                 changes, faults>>

\* A probe that may not look, or throws, finds "unknown" and the sweep goes on.
ProbeFails(s) ==
  /\ sweeps[s].stage = "probing"
  /\ faults < MaxFaults
  /\ faults' = faults + 1
  /\ sweeps' = [sweeps EXCEPT ![s] = [@ EXCEPT !.stage = "probed", !.found = Unknown]]
  /\ missed' = TRUE
  /\ UNCHANGED <<cluster, reporting, latest, up, rows, chosen, overlapped, silenced, changes>>

\* Mutant: the upsert writes its default override over the user's.
RecordDetection_Auto(s) ==
  /\ sweeps[s].stage = "probed"
  /\ LET m == Registry[sweeps[s].next] IN
     rows' = [rows EXCEPT ![m] = [found |-> sweeps[s].found, override |-> "auto", stored |-> TRUE]]
  /\ sweeps' = [sweeps EXCEPT ![s] =
       IF sweeps[s].next = Len(Registry) THEN Idle
       ELSE [@ EXCEPT !.stage = "probing", !.next = sweeps[s].next + 1]]
  /\ up' = (up \/ sweeps[s].next = Len(Registry))
  /\ UNCHANGED <<cluster, reporting, latest, chosen, overlapped, missed, silenced, changes, faults>>

\* recordDetection: an upsert that leaves the override alone; then the next module.
\* After the boot's sweep the server listens.
RecordDetection(s) ==
  /\ sweeps[s].stage = "probed"
  /\ LET m == Registry[sweeps[s].next] IN
     rows' = [rows EXCEPT ![m] = [@ EXCEPT !.found = sweeps[s].found, !.stored = TRUE]]
  /\ sweeps' = [sweeps EXCEPT ![s] =
       IF sweeps[s].next = Len(Registry) THEN Idle
       ELSE [@ EXCEPT !.stage = "probing", !.next = sweeps[s].next + 1]]
  /\ up' = (up \/ sweeps[s].next = Len(Registry))
  /\ UNCHANGED <<cluster, reporting, latest, chosen, overlapped, missed, silenced, changes, faults>>

\* A write that throws ends the sweep; at boot it ends the process.
RecordFails(s) ==
  /\ sweeps[s].stage = "probed"
  /\ faults < MaxFaults
  /\ faults' = faults + 1
  /\ sweeps' = [sweeps EXCEPT ![s] = Idle]
  /\ missed' = up
  /\ UNCHANGED <<cluster, reporting, latest, up, rows, chosen, overlapped, silenced, changes>>

-----------------------------------------------------------------------------
(* Reports, the user, the cluster.                                         *)

\* accept(): the cache has the reading before the listener starts a sweep.
FirstReport(s) ==
  /\ up /\ ~latest
  /\ latest' = TRUE
  /\ reporting' = TRUE
  /\ Begins(s)
  /\ UNCHANGED <<cluster, up, rows, chosen, missed, silenced, changes, faults>>

\* Later reports start none.
Report ==
  /\ up /\ latest /\ ~reporting
  /\ reporting' = TRUE
  /\ UNCHANGED <<cluster, latest, up, rows, sweeps, chosen, overlapped, missed, silenced,
                 changes, faults>>

\* reportingHosts() leaves out what is older than the cache's staleness.
GoesSilent ==
  /\ reporting
  /\ changes < MaxChanges
  /\ changes' = changes + 1
  /\ reporting' = FALSE
  /\ silenced' = TRUE
  /\ UNCHANGED <<cluster, latest, up, rows, sweeps, chosen, overlapped, missed, faults>>

\* Traefik is installed, removed, or loses or regains its replicas.
Change ==
  /\ changes < MaxChanges
  /\ changes' = changes + 1
  /\ cluster' \in {Present, Degraded, Absent} \ {cluster}
  /\ UNCHANGED <<reporting, latest, up, rows, sweeps, chosen, overlapped, missed, silenced, faults>>

\* POST integrations/:id/override: an UPDATE, which says nothing if there is no
\* row; a registered module is answered 204 either way.
SetOverride(m, o) ==
  /\ up
  /\ changes < MaxChanges
  /\ changes' = changes + 1
  /\ o # chosen[m]
  /\ rows' = [rows EXCEPT ![m].override = IF rows[m].stored THEN o ELSE @]
  /\ chosen' = [chosen EXCEPT ![m] = o]
  /\ UNCHANGED <<cluster, reporting, latest, up, sweeps, overlapped, missed, silenced, faults>>

\* The process is replaced.  The table stays.
Restart ==
  /\ faults < MaxFaults
  /\ faults' = faults + 1
  /\ up' = FALSE
  /\ latest' = FALSE
  /\ reporting' = FALSE
  /\ sweeps' = [s \in Sweeps |-> Idle]
  /\ overlapped' = FALSE
  /\ missed' = FALSE
  /\ silenced' = FALSE
  /\ UNCHANGED <<cluster, rows, chosen, changes>>

Init ==
  /\ cluster \in {Present, Absent}
  /\ reporting = FALSE
  /\ latest = FALSE
  /\ up = FALSE
  /\ rows = [m \in Modules |-> NoRow]
  /\ sweeps = [s \in Sweeps |-> Idle]
  /\ chosen = [m \in Modules |-> "auto"]
  /\ overlapped = FALSE
  /\ missed = FALSE
  /\ silenced = FALSE
  /\ changes = 0
  /\ faults = 0

Next ==
  \/ \E s \in Sweeps :
       \/ Sweep(s)
       \/ Rescan(s)
       \/ Probe(s)
       \/ ProbeFails(s)
       \/ RecordDetection(s)
       \/ RecordFails(s)
       \/ FirstReport(s)
  \/ \E m \in Modules, o \in Overrides : SetOverride(m, o)
  \/ Report
  \/ GoesSilent
  \/ Change
  \/ Restart

Spec == Init /\ [][Next]_vars

TimerFires == (\A t \in Sweeps : sweeps[t].stage = "idle") /\ \E s \in Sweeps : Sweep(s)
Goes(s) == Probe(s) \/ RecordDetection(s)

\* The timer fires whenever no sweep is under way; probes and writes end.
Fairness == WF_vars(TimerFires) /\ \A s \in Sweeps : WF_vars(Goes(s))

FairSpec == Spec /\ Fairness

-----------------------------------------------------------------------------
(* Properties.                                                             *)

\* An override the user was told is set is what the table has, whatever sweeps
\* write ("Writes the probe result while preserving whatever override the user
\* set") and although an UPDATE of a row that is not there yet would be lost: the
\* server does not listen before every module has a row.
OverrideStays == \A m \in Modules : rows[m].override = chosen[m]

\* Once the first report's sweep is over the agent's screens are there, without
\* waiting for the timer ("Without this the Hardware screen disappears for up to
\* five minutes after every server restart"), unless sweeps overlapped, one failed,
\* or the agent has gone silent since.
FirstReportShows ==
  latest /\ reporting /\ ~overlapped /\ ~missed /\ ~silenced
    /\ (\A s \in Sweeps : sweeps[s].stage = "idle")
    => rows["host-agent"].found = Present

OfferedAsIs(m) ==
  Offered(m) <=> LET shown == Effective(Truth(m), chosen[m]) IN
                 shown.state = "present" /\ ~shown.degraded

\* Whatever sweeps overlapped or failed, once the cluster, the agents and the user
\* rest the screens offered are those of what is there, or of the override.
SettlesOnTruth == \A m \in Modules : <>[]OfferedAsIs(m)
=============================================================================
