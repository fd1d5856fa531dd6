------------------------------ MODULE Snapshots ------------------------------
(***************************************************************************)
(* The polls that replace what they reported before: nodes and workloads   *)
(* (collect/core.integration.ts) and routes (integrations/traefik/         *)
(* index.ts), run by collect/scheduler.ts and stored by #replaceSnapshot   *)
(* of plugins/ingest.ts: a DELETE and an INSERT in one transaction.        *)
(*                                                                         *)
(* One table with the rows of one integration.  A snapshot is the poll     *)
(* that took it and the version of the cluster it saw; its rows come and   *)
(* go together.  SQLite has one connection, handed out in turn             *)
(* (db/sqlite-dialect.ts).  PostgreSQL has several, and its transactions   *)
(* are READ COMMITTED: a DELETE sees what was committed when it started,   *)
(* and waits for another that has locked the same rows.                    *)
(***************************************************************************)
EXTENDS Naturals, FiniteSets

CONSTANTS
  Polls,      \* polls under way at once
  Dialects,   \* subset of {"sqlite", "postgres"}
  MaxWorld,   \* bound: versions of the cluster
  MaxFaults   \* bound: failures, restarts, and polls longer than their interval

SnapshotsAssumption == Dialects \subseteq {"sqlite", "postgres"}

VARIABLES
  dialect,   \* which database this server has
  world,     \* the version of the cluster
  polls,     \* poll -> what it is doing
  table,     \* the snapshots whose rows are committed
  crossed,   \* history: two transactions were open at once
  wrote,     \* history: a snapshot has been committed
  faults     \* history: number of faults

vars == <<dialect, world, polls, table, crossed, wrote, faults>>

Resting == [stage |-> "resting", version |-> 0, removing |-> {}]

InTransaction(p) == polls[p].stage \in {"begun", "deleting", "deleted"}

\* setInterval does not look whether the last poll is over: one that outlasts its
\* interval is a fault.
Start(p) ==
  /\ polls[p].stage = "resting"
  /\ LET late == \E q \in Polls : polls[q].stage # "resting" IN
     /\ late => faults < MaxFaults
     /\ faults' = IF late THEN faults + 1 ELSE faults
  /\ polls' = [polls EXCEPT ![p].stage = "asking"]
  /\ UNCHANGED <<dialect, world, table, crossed, wrote>>

\* listNodes, listPods or listIngresses.
List(p) ==
  /\ polls[p].stage = "asking"
  /\ polls' = [polls EXCEPT ![p] = [@ EXCEPT !.stage = "answered", !.version = world]]
  /\ UNCHANGED <<dialect, world, table, crossed, wrote, faults>>

\* BEGIN, on the only connection or on one of the pool.
Begin(p) ==
  /\ polls[p].stage = "answered"
  /\ dialect = "sqlite" => ~\E q \in Polls : InTransaction(q)
  /\ crossed' = (crossed \/ \E q \in Polls : InTransaction(q))
  /\ polls' = [polls EXCEPT ![p].stage = "begun"]
  /\ UNCHANGED <<dialect, world, table, wrote, faults>>

\* DELETE ... WHERE integration = ?: what was committed when it starts.
Delete(p) ==
  /\ polls[p].stage = "begun"
  /\ polls' = [polls EXCEPT ![p] = [@ EXCEPT !.stage = "deleting", !.removing = table]]
  /\ UNCHANGED <<dialect, world, table, crossed, wrote, faults>>

\* ... and it ends when nobody else holds those rows.
Deleted(p) ==
  /\ polls[p].stage = "deleting"
  /\ \A q \in Polls \ {p} :
       polls[q].stage = "deleted" => polls[q].removing \cap polls[p].removing \cap table = {}
  /\ polls' = [polls EXCEPT ![p].stage = "deleted"]
  /\ UNCHANGED <<dialect, world, table, crossed, wrote, faults>>

\* INSERT, by chunks, and COMMIT: nobody sees anything in between.
Commit(p) ==
  /\ polls[p].stage = "deleted"
  /\ table' = (table \ polls[p].removing) \cup {[poll |-> p, version |-> polls[p].version]}
  /\ wrote' = TRUE
  /\ polls' = [polls EXCEPT ![p] = Resting]
  /\ UNCHANGED <<dialect, world, crossed, faults>>

\* Mutant: the statements are in no transaction.
Fails_Halfway(p) ==
  /\ polls[p].stage # "resting"
  /\ faults < MaxFaults
  /\ faults' = faults + 1
  /\ table' = IF polls[p].stage = "deleted" THEN table \ polls[p].removing ELSE table
  /\ polls' = [polls EXCEPT ![p] = Resting]
  /\ UNCHANGED <<dialect, world, crossed, wrote>>

\* A call that throws: ROLLBACK, and onError logs it.
Fails(p) ==
  /\ polls[p].stage # "resting"
  /\ faults < MaxFaults
  /\ faults' = faults + 1
  /\ polls' = [polls EXCEPT ![p] = Resting]
  /\ UNCHANGED <<dialect, world, table, crossed, wrote>>

\* The process is replaced; the database rolls back.
Restart ==
  /\ faults < MaxFaults
  /\ faults' = faults + 1
  /\ polls' = [p \in Polls |-> Resting]
  /\ UNCHANGED <<dialect, world, table, crossed, wrote>>

\* The cluster changes.
Change ==
  /\ world < MaxWorld
  /\ world' = world + 1
  /\ UNCHANGED <<dialect, polls, table, crossed, wrote, faults>>

Init ==
  /\ dialect \in Dialects
  /\ world = 1
  /\ polls = [p \in Polls |-> Resting]
  /\ table = {}
  /\ crossed = FALSE
  /\ wrote = FALSE
  /\ faults = 0

\* One step of a poll.
Poll(p) == Start(p) \/ List(p) \/ Begin(p) \/ Delete(p) \/ Deleted(p) \/ Commit(p)

Next ==
  \/ \E p \in Polls : Poll(p) \/ Fails(p)
  \/ Restart
  \/ Change

Spec == Init /\ [][Next]_vars

\* The timer fires, and every call of a poll answers or throws.
Fairness == \A p \in Polls : WF_vars(Poll(p))

FairSpec == Spec /\ Fairness

-----------------------------------------------------------------------------
(* Properties.                                                             *)

\* "A snapshot is authoritative for the integration that sent it: everything that
\* source previously reported is replaced": once one has been stored the table
\* holds the rows of exactly one, whatever fails, unless two transactions were
\* open at once, which only PostgreSQL allows: the second DELETE does not see what
\* the first inserted.
OneSnapshotUnlessCrossed ==
  /\ crossed => dialect = "postgres"
  /\ wrote /\ ~crossed => Cardinality(table) = 1

Current == Cardinality(table) = 1 /\ \A s \in table : s.version = world

\* Rows that doubled, and older rows stored last, do not stay: once the cluster and
\* the faults have come to rest the table is what the cluster is.
HealsItself == <>[]Current
=============================================================================
