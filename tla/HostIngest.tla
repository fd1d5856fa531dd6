----------------------------- MODULE HostIngest -----------------------------
(***************************************************************************)
(* What the agents report once a second, and what the server keeps of it:  *)
(* http/ingest.controller.ts (POST host), collect/host-ingest.ts, the host *)
(* half of collect/live-cache.ts, and the two writes of plugins/ingest.ts. *)
(*                                                                         *)
(* A request is identified, then accepted in one go, which updates memory; *)
(* when the last write is long enough ago it also writes what is known of  *)
(* ALL nodes: an insert, an await, a snapshot in one transaction.          *)
(*                                                                         *)
(* Times are ages, in reports: how long ago the clock of the node, or of   *)
(* the server, says it was.  Ages over OLD are told apart by nothing.      *)
(* A batch is the age of its last usable reading, the only one that stays. *)
(* An agent (agent/src/sender.ts) sends its buffer in order and gives up a *)
(* request its network lost, which the server may still be working on.     *)
(*                                                                         *)
(* Left out: what a reading says, the series of readings written with the  *)
(* snapshot, the kubelet's samples, chunks of 500.                         *)
(***************************************************************************)
EXTENDS Integers

CONSTANTS
  Nodes,
  Ahead,    \* nodes whose clock is one ahead of the server's
  Requests, \* requests the server works on at a time
  PERSIST,  \* HOST_PERSIST_INTERVAL_MS
  STALE,    \* stalenessMs
  OLD,      \* bound: ages above it are one
  Absent    \* no age

ASSUME HostIngestAssumption ==
  /\ Ahead \subseteq Nodes
  /\ PERSIST \in Nat \ {0} /\ STALE \in Nat
  /\ OLD \in Nat /\ OLD > STALE
  /\ Absent \notin Int

VARIABLES
  sent,      \* node -> age of the newest reading its agent sent, or Absent
  request,   \* request -> what the server is doing for it
  latest,    \* #latest: node -> age of its reading, or Absent
  host,      \* LiveCache.#host: node -> age of its figures, or Absent
  since,     \* time since #lastPersistedAt
  resources, \* facet_host_resources: node -> age of its row, or Absent
  wrote,     \* history: nodes whose row this process has written
  abandoned, \* history: an agent gave up a request the server still had
  overlapped \* history: two writes ran at a time

memory == <<latest, host, since>>
table == <<resources, wrote>>
history == <<abandoned, overlapped>>
vars == <<sent, request, memory, table, history>>

-----------------------------------------------------------------------------
Ages == -1 .. OLD
Skew(n) == IF n \in Ahead THEN 1 ELSE 0
Older(age) == IF age = Absent THEN Absent ELSE IF age < OLD THEN age + 1 ELSE OLD

Idle == [stage |-> "idle"]
Identify(n, age) == [stage |-> "identify", node |-> n, age |-> age]
Write(what, readings) == [stage |-> what, readings |-> readings]

Of(r, n) == request[r].stage = "identify" /\ request[r].node = n
Writing == {r \in Requests : request[r].stage \in {"hardware", "resources"}}

-----------------------------------------------------------------------------
(* The agents.                                                             *)

\* Mutant: a batch may hold the newest reading first.
InOrder_NewestFirst(n, age) == TRUE

\* The buffer is sent from its front: a batch ends with a reading no older than
\* the one the last batch ended with.
InOrder(n, age) == sent[n] # Absent => age <= sent[n]

\* Sender.flush
Send(r, n, age) ==
  /\ request[r] = Idle
  /\ age >= -Skew(n)
  /\ InOrder(n, age)
  /\ sent' = [sent EXCEPT ![n] = age]
  /\ request' = [request EXCEPT ![r] = Identify(n, age)]
  /\ abandoned' = (abandoned \/ \E q \in Requests : Of(q, n))
  /\ UNCHANGED <<memory, table, overlapped>>

-----------------------------------------------------------------------------
(* The server.                                                             *)

\* Mutant: a reading is as old as its arrival.
SampledAt_OnArrival(age) == 0

\* toLiveMetrics: the node's clock, unless it is ahead of ours.
SampledAt(age) == IF age < 0 THEN 0 ELSE age

\* prepare: the times of what is written are clamped to when it was accepted.
Clamped(age) == IF age # Absent /\ age < 0 THEN 0 ELSE age

\* No such credential: 401.
Unauthorized(r) ==
  /\ request[r].stage = "identify"
  /\ request' = [request EXCEPT ![r] = Idle]
  /\ UNCHANGED <<sent, memory, table, history>>

Due == since >= PERSIST

\* Mutant: a write knows only of the node that causes it.
Readings_OfCaller(n, known) == [m \in Nodes |-> IF m = n THEN known[m] ELSE Absent]

\* What a write takes with it.
Readings(n, known) == known

\* accept, up to its first write if one is due.
Accept(r) ==
  /\ request[r].stage = "identify"
  /\ LET n == request[r].node
         age == request[r].age
     IN /\ latest' = [latest EXCEPT ![n] = age]
        /\ host' = [host EXCEPT ![n] = SampledAt(age)]
        /\ IF Due
             THEN /\ since' = 0
                  /\ request' = [request EXCEPT ![r] =
                       Write("hardware",
                             [m \in Nodes |-> Clamped(Readings(n, latest')[m])])]
                  /\ overlapped' = (overlapped \/ Writing # {})
             ELSE /\ request' = [request EXCEPT ![r] = Idle]
                  /\ UNCHANGED <<since, overlapped>>
  /\ UNCHANGED <<sent, table, abandoned>>

\* The event facet: one more row for every node known.
InsertHardware(r) ==
  /\ request[r].stage = "hardware"
  /\ request' = [request EXCEPT ![r] = Write("resources", @.readings)]
  /\ UNCHANGED <<sent, memory, table, history>>

\* replaceSnapshot: all rows of the integration go, those of the batch come.
ReplaceResources(r) ==
  /\ request[r].stage = "resources"
  /\ resources' = request[r].readings
  /\ wrote' = wrote \cup {n \in Nodes : request[r].readings[n] # Absent}
  /\ request' = [request EXCEPT ![r] = Idle]
  /\ UNCHANGED <<sent, memory, history>>

\* A statement fails, the answer is 500, and the agent keeps its rows.
WriteFails(r) ==
  /\ r \in Writing
  /\ request' = [request EXCEPT ![r] = Idle]
  /\ UNCHANGED <<sent, memory, table, history>>

Restart ==
  /\ request' = [r \in Requests |-> Idle]
  /\ latest' = [n \in Nodes |-> Absent]
  /\ host' = [n \in Nodes |-> Absent]
  /\ since' = PERSIST
  /\ wrote' = {}
  /\ UNCHANGED <<sent, resources, history>>

\* Time passes for everything.
Tick ==
  /\ sent' = [n \in Nodes |-> Older(sent[n])]
  /\ request' = [r \in Requests |->
       CASE request[r].stage = "identify" ->
              Identify(request[r].node, Older(request[r].age))
         [] r \in Writing ->
              Write(request[r].stage,
                    [n \in Nodes |-> Older(request[r].readings[n])])
         [] OTHER -> Idle]
  /\ latest' = [n \in Nodes |-> Older(latest[n])]
  /\ host' = [n \in Nodes |-> Older(host[n])]
  /\ since' = IF since < PERSIST THEN since + 1 ELSE since
  /\ resources' = [n \in Nodes |-> Older(resources[n])]
  /\ UNCHANGED <<wrote, history>>

-----------------------------------------------------------------------------
\* An empty database, and agents that have yet to report.
Init ==
  /\ sent = [n \in Nodes |-> Absent]
  /\ request = [r \in Requests |-> Idle]
  /\ latest = [n \in Nodes |-> Absent]
  /\ host = [n \in Nodes |-> Absent]
  /\ since = PERSIST
  /\ resources = [n \in Nodes |-> Absent]
  /\ wrote = {}
  /\ abandoned = FALSE /\ overlapped = FALSE

Next ==
  \/ \E r \in Requests :
       \/ \E n \in Nodes, age \in Ages : Send(r, n, age)
       \/ Unauthorized(r)
       \/ Accept(r)
       \/ InsertHardware(r) \/ ReplaceResources(r) \/ WriteFails(r)
  \/ Restart
  \/ Tick

Spec == Init /\ [][Next]_vars

-----------------------------------------------------------------------------
(* Properties.                                                             *)

Works ==
  {Idle}
    \cup [stage : {"identify"}, node : Nodes, age : Ages]
    \cup [stage : {"hardware", "resources"},
          readings : [Nodes -> (0 .. OLD) \cup {Absent}]]

\* Every variable keeps its shape; what memory knows of a node it knows in
\* both places, and what is stored has been clamped.
TypeOK ==
  /\ sent \in [Nodes -> Ages \cup {Absent}]
  /\ request \in [Requests -> Works]
  /\ latest \in [Nodes -> Ages \cup {Absent}]
  /\ host \in [Nodes -> (0 .. OLD) \cup {Absent}]
  /\ \A n \in Nodes : latest[n] = Absent <=> host[n] = Absent
  /\ since \in 0 .. PERSIST
  /\ wrote \subseteq Nodes
  /\ resources \in [Nodes -> (0 .. OLD) \cup {Absent}]
  /\ abandoned \in BOOLEAN /\ overlapped \in BOOLEAN

\* reportingHosts
Reporting == {n \in Nodes : host[n] # Absent /\ host[n] <= STALE}

\* "A dead node must not look alive": once the newest reading an agent sent is
\* older than the limit, by its own clock, its node is not reported live,
\* however late or often the reading arrives.
DeadLooksDead ==
  \A n \in Nodes : sent[n] = Absent \/ sent[n] > STALE => n \notin Reporting

\* "A per-node write would delete every other node's row": a row one process
\* wrote stays as long as that process lives, unless two writes overlapped.
\* The first write after a restart does delete the rows of the nodes that have
\* not reported yet.
WrittenStaysUnlessOverlapped ==
  overlapped \/ \A n \in wrote : resources[n] # Absent

\* A stored row is never replaced by an older reading, not even over restarts
\* and replayed buffers, unless an agent gave up on a request the server still
\* had or two writes overlapped.
NeverBack ==
  [][\A n \in Nodes :
       /\ ~Tick /\ ~abandoned /\ ~overlapped
       /\ resources[n] # Absent /\ resources'[n] # Absent
       => resources'[n] <= resources[n]]_vars
=============================================================================
