--------------------------- MODULE ReportsProofs ----------------------------
(***************************************************************************)
(* Theorems about what comes in from machines and from the cluster, and    *)
(* about the file of a facet, for any instance MCReports may be given:     *)
(* about HostIngest for any nodes, clocks that are ahead, requests,        *)
(* intervals and limits; about SessionLogs for any attempts, people,       *)
(* executions and finitely many other lines of any surplus of bytes; about *)
(* Sweeps for any polls, intervals and lengths of a tail and of a chunk;   *)
(* about Series for finitely many machines and any traffic, spans and      *)
(* number of points; about Export for any rows, tables, length of a page   *)
(* and cap.                                                                *)
(***************************************************************************)
EXTENDS MCReports, Sequences, SequenceTheorems, FiniteSets, FiniteSetTheorems,
  WellFoundedInduction, TLAPS

-----------------------------------------------------------------------------
(* The figures of the hosts: the inductive invariant.                      *)

\* Nothing the server knows of a node is younger than what its agent sent.
Heard ==
  /\ \A n \in Nodes : latest[n] # Absent => sent[n] # Absent /\ sent[n] <= latest[n]
  /\ \A n \in Nodes : host[n] # Absent => sent[n] # Absent /\ sent[n] <= host[n]
  /\ \A r \in Requests : request[r].stage = "identify" =>
       sent[request[r].node] # Absent /\ sent[request[r].node] <= request[r].age

\* What is written, or is being written, is known and was sent.
Known ==
  /\ \A r \in Writing, n \in Nodes : request[r].readings[n] # Absent => latest[n] # Absent
  /\ \A n \in wrote : latest[n] # Absent
  /\ \A n \in Nodes : resources[n] # Absent => sent[n] # Absent

\* One write at a time, and it takes the rows of all earlier ones with it.
Complete ==
  ~overlapped =>
    /\ \A q, r \in Writing : q = r
    /\ \A r \in Writing, n \in wrote : request[r].readings[n] # Absent
    /\ \A n \in wrote : resources[n] # Absent

\* While no request is given up, the one under way is the newest of its node.
Newest ==
  ~abandoned => \A r \in Requests : request[r].stage = "identify" =>
    request[r].age = sent[request[r].node]

\* A row is no younger than what its node's agent sent, and memory knows.
RowOlder(n) ==
  resources[n] # Absent =>
    /\ Clamped(sent[n]) <= resources[n]
    /\ latest[n] # Absent => Clamped(latest[n]) <= resources[n]

\* A write under way brings something between what is known and the row.
WriteBetween(r, n) ==
  request[r].readings[n] # Absent =>
    /\ Clamped(sent[n]) <= request[r].readings[n]
    /\ Clamped(latest[n]) <= request[r].readings[n]
    /\ resources[n] # Absent => request[r].readings[n] <= resources[n]

\* From the agent over memory and the write under way to the row, readings only
\* get older.
Downstream ==
  ~abandoned /\ ~overlapped =>
    \A n \in Nodes : RowOlder(n) /\ \A r \in Writing : WriteBetween(r, n)

IInv == TypeOK /\ Heard /\ Known /\ Complete /\ Newest /\ Downstream

-----------------------------------------------------------------------------
(* Ages.                                                                   *)

\* Growing older keeps an age an age, a stored one stored, and none none.
LEMMA OlderType ==
  /\ \A a \in Ages : Older(a) \in Ages
  /\ \A a \in 0 .. OLD : Older(a) \in 0 .. OLD
  /\ Older(Absent) = Absent
  BY HostIngestAssumption DEF Older, Ages

\* Ages are numbers.
LEMMA AgeNotAbsent == (\A a \in Ages : a # Absent) /\ (\A a \in 0 .. OLD : a # Absent)
  BY HostIngestAssumption DEF Ages

\* Whatever has no age had none before.
LEMMA OlderAbsent == \A a \in Ages \cup {Absent} : Older(a) = Absent <=> a = Absent
  BY OlderType, AgeNotAbsent

\* Time keeps the order of two ages.
LEMMA OlderMonotone == \A a, b \in Ages : a <= b => Older(a) <= Older(b)
  BY HostIngestAssumption DEF Older, Ages

\* The stored ages are among the ages.
LEMMA StoredIsAge == 0 .. OLD \subseteq Ages
  BY HostIngestAssumption DEF Ages

\* What toLiveMetrics and prepare make of an age is a stored age.
LEMMA ClampedType ==
  /\ \A a \in Ages : Clamped(a) \in 0 .. OLD /\ SampledAt(a) \in 0 .. OLD
  /\ Clamped(Absent) = Absent
  BY HostIngestAssumption DEF Clamped, SampledAt, Ages

\* They keep the order of two ages, and make none younger.
LEMMA ClampedMonotone ==
  /\ \A a, b \in Ages : a <= b => Clamped(a) <= Clamped(b)
  /\ \A a \in Ages : a <= SampledAt(a)
  BY HostIngestAssumption DEF Clamped, SampledAt, Ages

\* An age clamped early is at least the age clamped late.
LEMMA ClampedOlder == \A a \in Ages : Clamped(Older(a)) <= Older(Clamped(a))
  BY HostIngestAssumption DEF Clamped, Older, Ages

\* What a tick makes of the work on a request.
LEMMA TickWorks ==
  ASSUME Tick, NEW r \in Requests
  PROVE  /\ request[r].stage = "identify" =>
              request'[r] = Identify(request[r].node, Older(request[r].age))
         /\ r \in Writing =>
              request'[r] = Write(request[r].stage,
                                  [n \in Nodes |-> Older(request[r].readings[n])])
         /\ request[r].stage # "identify" /\ r \notin Writing => request'[r] = Idle
<1>1. request'[r] =
        CASE request[r].stage = "identify" ->
               Identify(request[r].node, Older(request[r].age))
          [] r \in Writing ->
               Write(request[r].stage, [n \in Nodes |-> Older(request[r].readings[n])])
          [] OTHER -> Idle
  BY DEF Tick
<1>2. request[r].stage = "identify" => r \notin Writing
  BY DEF Writing
<1> QED
  BY <1>1, <1>2

-----------------------------------------------------------------------------
(* Types.                                                                  *)

\* The initial state has its type.
LEMMA InitType == Init => TypeOK
<1> SUFFICES ASSUME Init PROVE TypeOK
  OBVIOUS
<1>1. request \in [Requests -> Works]
  BY DEF Init, Works
<1>2. since \in 0 .. PERSIST
  BY HostIngestAssumption DEF Init
<1> QED
  BY <1>1, <1>2 DEF Init, TypeOK

\* Every step keeps the types.
LEMMA TypeStep == TypeOK /\ [Next]_vars => TypeOK'
<1> SUFFICES ASSUME TypeOK, [Next]_vars PROVE TypeOK'
  OBVIOUS
<1> USE HostIngestAssumption DEF TypeOK
<1>1. ASSUME NEW r \in Requests, NEW n \in Nodes, NEW age \in Ages, Send(r, n, age)
      PROVE  TypeOK'
  <2>1. Identify(n, age) \in Works
    BY DEF Identify, Works
  <2> QED
    BY <1>1, <2>1 DEF Send, memory, table
<1>2. ASSUME NEW r \in Requests, Unauthorized(r) \/ WriteFails(r) PROVE TypeOK'
  BY <1>2 DEF Unauthorized, WriteFails, Idle, Works, memory, table, history
<1>3. ASSUME NEW r \in Requests, Accept(r) PROVE TypeOK'
  <2> DEFINE n == request[r].node
             age == request[r].age
  <2>1. n \in Nodes /\ age \in Ages
    BY <1>3 DEF Accept, Works, Idle
  <2>2. SampledAt(age) \in 0 .. OLD
    BY <2>1, ClampedType
  <2>3. latest' = [latest EXCEPT ![n] = age] /\ host' = [host EXCEPT ![n] = SampledAt(age)]
    BY <1>3 DEF Accept
  <2>4. /\ latest' \in [Nodes -> Ages \cup {Absent}]
        /\ host' \in [Nodes -> (0 .. OLD) \cup {Absent}]
        /\ \A m \in Nodes : latest'[m] = Absent <=> host'[m] = Absent
    BY <2>1, <2>2, <2>3, AgeNotAbsent
  <2>5. request' \in [Requests -> Works] /\ since' \in 0 .. PERSIST
        /\ overlapped' \in BOOLEAN
    <3>1. CASE Due
      <4>1. [m \in Nodes |-> Clamped(Readings(n, latest')[m])]
              \in [Nodes -> (0 .. OLD) \cup {Absent}]
        BY <2>4, ClampedType DEF Readings
      <4>2. Write("hardware", [m \in Nodes |-> Clamped(Readings(n, latest')[m])]) \in Works
        BY <4>1 DEF Write, Works
      <4> QED
        BY <1>3, <3>1, <4>2 DEF Accept
    <3>2. CASE ~Due
      BY <1>3, <3>2 DEF Accept, Idle, Works
    <3> QED
      BY <3>1, <3>2
  <2> QED
    BY <1>3, <2>4, <2>5 DEF Accept, table
<1>4. ASSUME NEW r \in Requests, InsertHardware(r) PROVE TypeOK'
  <2>1. request[r].readings \in [Nodes -> (0 .. OLD) \cup {Absent}]
    BY <1>4 DEF InsertHardware, Works, Idle
  <2>2. Write("resources", request[r].readings) \in Works
    BY <2>1 DEF Write, Works
  <2> QED
    BY <1>4, <2>2 DEF InsertHardware, memory, table, history
<1>5. ASSUME NEW r \in Requests, ReplaceResources(r) PROVE TypeOK'
  <2>1. request[r].readings \in [Nodes -> (0 .. OLD) \cup {Absent}]
    BY <1>5 DEF ReplaceResources, Works, Idle
  <2> QED
    BY <1>5, <2>1 DEF ReplaceResources, Idle, Works, memory, history
<1>6. CASE Restart
  BY <1>6 DEF Restart, Idle, Works, history
<1>7. CASE Tick
  <2>1. ASSUME NEW r \in Requests PROVE request'[r] \in Works
    <3>1. CASE request[r].stage = "identify"
      <4> request[r] \in Works
        OBVIOUS
      <4>1. request[r].node \in Nodes /\ request[r].age \in Ages
        BY <3>1 DEF Works, Idle
      <4>2. Identify(request[r].node, Older(request[r].age)) \in Works
        BY <4>1, OlderType DEF Identify, Works
      <4> QED
        BY <1>7, <3>1, <4>2, TickWorks
    <3>2. CASE r \in Writing
      <4>1. /\ request[r].stage \in {"hardware", "resources"}
            /\ request[r].readings \in [Nodes -> (0 .. OLD) \cup {Absent}]
        BY <3>2 DEF Works, Idle, Writing
      <4>2. [n \in Nodes |-> Older(request[r].readings[n])]
              \in [Nodes -> (0 .. OLD) \cup {Absent}]
        BY <4>1, OlderType
      <4>3. Write(request[r].stage, [n \in Nodes |-> Older(request[r].readings[n])]) \in Works
        BY <4>1, <4>2 DEF Write, Works
      <4> QED
        BY <1>7, <3>2, <4>3, TickWorks
    <3>3. CASE request[r].stage # "identify" /\ r \notin Writing
      BY <1>7, <3>3, TickWorks DEF Works
    <3> QED
      BY <3>1, <3>2, <3>3
  <2>2. request' \in [Requests -> Works]
    BY <1>7, <2>1 DEF Tick
  <2>3. /\ sent' \in [Nodes -> Ages \cup {Absent}]
        /\ latest' \in [Nodes -> Ages \cup {Absent}]
        /\ host' \in [Nodes -> (0 .. OLD) \cup {Absent}]
        /\ resources' \in [Nodes -> (0 .. OLD) \cup {Absent}]
    BY <1>7, OlderType DEF Tick
  <2>4. \A n \in Nodes : latest'[n] = Absent <=> host'[n] = Absent
    BY <1>7, OlderAbsent, StoredIsAge DEF Tick
  <2> QED
    BY <1>7, <2>2, <2>3, <2>4 DEF Tick, history
<1>8. CASE UNCHANGED vars
  BY <1>8 DEF vars, memory, table, history
<1> QED
  BY <1>1, <1>2, <1>3, <1>4, <1>5, <1>6, <1>7, <1>8 DEF Next

\* Every variable of HostIngest keeps its shape; what memory knows of a node it
\* knows in both places (host-ingest.ts, live-cache.ts).
THEOREM TypeCorrect == Spec => []TypeOK
  BY InitType, TypeStep, PTL DEF Spec

-----------------------------------------------------------------------------
(* What the steps leave as it is.                                          *)

\* The work on a request has its type.
LEMMA WorkType ==
  ASSUME TypeOK, NEW r \in Requests
  PROVE  /\ request[r].stage = "identify" =>
              request[r].node \in Nodes /\ request[r].age \in Ages
         /\ r \in Writing =>
              request[r].readings \in [Nodes -> (0 .. OLD) \cup {Absent}]
<1> request[r] \in Works
  BY DEF TypeOK
<1> QED
  BY DEF Works, Idle, Writing

\* A report only makes what its agent sent younger.
LEMMA SendFacts ==
  ASSUME TypeOK, NEW r \in Requests, NEW n \in Nodes, NEW age \in Ages, Send(r, n, age)
  PROVE  /\ sent' \in [Nodes -> Ages \cup {Absent}]
         /\ sent'[n] = age
         /\ \A m \in Nodes : sent[m] # Absent =>
              sent'[m] # Absent /\ sent'[m] <= sent[m]
         /\ \A m \in Nodes : m # n => sent'[m] = sent[m]
         /\ request'[r].node = n /\ request'[r].age = age
         /\ \A q \in Requests : q # r => request'[q] = request[q]
         /\ Writing' = Writing
         /\ \A q \in Writing : request'[q] = request[q]
<1>1. sent' \in [Nodes -> Ages \cup {Absent}] /\ sent'[n] = age
      /\ \A m \in Nodes : m # n => sent'[m] = sent[m]
  BY DEF Send, TypeOK
<1>2. \A m \in Nodes : sent[m] # Absent => sent'[m] # Absent /\ sent'[m] <= sent[m]
  BY <1>1, AgeNotAbsent DEF Send, InOrder, TypeOK, Ages
<1>3. request'[r] = Identify(n, age) /\ \A q \in Requests : q # r => request'[q] = request[q]
  BY DEF Send, TypeOK
<1>4. request'[r].node = n /\ request'[r].age = age /\ request'[r].stage = "identify"
  BY <1>3 DEF Identify
<1>5. r \notin Writing
  BY DEF Send, Writing, Idle
<1>6. Writing' = Writing /\ \A q \in Writing : request'[q] = request[q]
  BY <1>3, <1>4, <1>5 DEF Writing
<1> QED
  BY <1>1, <1>2, <1>3, <1>4, <1>6

\* What accept makes of memory.
LEMMA AcceptFacts ==
  ASSUME TypeOK, NEW r \in Requests, Accept(r)
  PROVE  /\ request[r].stage = "identify"
         /\ request[r].node \in Nodes /\ request[r].age \in Ages
         /\ \A m \in Nodes : latest'[m] =
              IF m = request[r].node THEN request[r].age ELSE latest[m]
         /\ \A m \in Nodes : host'[m] =
              IF m = request[r].node THEN SampledAt(request[r].age) ELSE host[m]
         /\ \A q \in Requests : q # r => request'[q] = request[q]
         /\ Due => /\ request'[r].stage = "hardware"
                   /\ \A m \in Nodes : request'[r].readings[m] = Clamped(latest'[m])
                   /\ Writing' = Writing \cup {r}
                   /\ overlapped' = (overlapped \/ Writing # {})
         /\ ~Due => request'[r] = Idle /\ Writing' = Writing /\ overlapped' = overlapped
         /\ r \notin Writing
<1>1. request[r].stage = "identify" /\ r \notin Writing
  BY DEF Accept, Writing
<1>2. request[r].node \in Nodes /\ request[r].age \in Ages
  BY <1>1, WorkType
<1>3. /\ \A m \in Nodes : latest'[m] =
              IF m = request[r].node THEN request[r].age ELSE latest[m]
      /\ \A m \in Nodes : host'[m] =
              IF m = request[r].node THEN SampledAt(request[r].age) ELSE host[m]
  BY <1>2 DEF Accept, TypeOK
<1>4. \A q \in Requests : q # r => request'[q] = request[q]
  BY DEF Accept, TypeOK
<1>5. ASSUME Due
      PROVE  /\ request'[r].stage = "hardware"
             /\ \A m \in Nodes : request'[r].readings[m] = Clamped(latest'[m])
             /\ Writing' = Writing \cup {r}
             /\ overlapped' = (overlapped \/ Writing # {})
  <2>1. /\ request'[r] = Write("hardware",
             [m \in Nodes |-> Clamped(Readings(request[r].node, latest')[m])])
        /\ overlapped' = (overlapped \/ Writing # {})
    BY <1>5 DEF Accept, TypeOK
  <2>2. request'[r].stage = "hardware"
        /\ \A m \in Nodes : request'[r].readings[m] = Clamped(latest'[m])
    BY <2>1 DEF Write, Readings
  <2> QED
    BY <2>1, <2>2, <1>1, <1>4 DEF Writing
<1>6. ASSUME ~Due
      PROVE  request'[r] = Idle /\ Writing' = Writing /\ overlapped' = overlapped
  <2>1. request'[r] = Idle /\ overlapped' = overlapped
    BY <1>6 DEF Accept, TypeOK
  <2> QED
    BY <2>1, <1>1, <1>4 DEF Writing, Idle
<1> QED
  BY <1>1, <1>2, <1>3, <1>4, <1>5, <1>6

\* A request that is done with, one way or another, is no longer worked on.
LEMMA DoneFacts ==
  ASSUME TypeOK, NEW r \in Requests,
         Unauthorized(r) \/ WriteFails(r) \/ ReplaceResources(r)
  PROVE  /\ request'[r] = Idle
         /\ \A q \in Requests : q # r => request'[q] = request[q]
         /\ Writing' = Writing \ {r}
<1>1. request'[r] = Idle /\ \A q \in Requests : q # r => request'[q] = request[q]
  BY DEF Unauthorized, WriteFails, ReplaceResources, TypeOK
<1> QED
  BY <1>1 DEF Writing, Idle

\* The insert leaves what is to be written as it is.
LEMMA InsertFacts ==
  ASSUME TypeOK, NEW r \in Requests, InsertHardware(r)
  PROVE  /\ r \in Writing
         /\ request'[r].stage = "resources"
         /\ request'[r].readings = request[r].readings
         /\ \A q \in Requests : q # r => request'[q] = request[q]
         /\ Writing' = Writing
<1>1. /\ request'[r].stage = "resources"
      /\ request'[r].readings = request[r].readings
      /\ \A q \in Requests : q # r => request'[q] = request[q]
  BY DEF InsertHardware, Write, TypeOK
<1> QED
  BY <1>1 DEF InsertHardware, Writing

\* A tick leaves every request where it is.
LEMMA TickFacts ==
  ASSUME TypeOK, Tick
  PROVE  /\ Writing' = Writing
         /\ \A r \in Writing, n \in Nodes :
              request'[r].readings[n] = Older(request[r].readings[n])
         /\ \A r \in Requests : request'[r].stage = "identify" =>
              /\ request[r].stage = "identify"
              /\ request'[r].node = request[r].node
              /\ request'[r].age = Older(request[r].age)
<1> DEFINE Aged(r) == [n \in Nodes |-> Older(request[r].readings[n])]
<1>1. ASSUME NEW r \in Requests, request[r].stage = "identify"
      PROVE  /\ request'[r].stage = "identify"
             /\ request'[r].node = request[r].node
             /\ request'[r].age = Older(request[r].age)
  <2>1. request'[r] = Identify(request[r].node, Older(request[r].age))
    BY <1>1, TickWorks
  <2> QED
    BY <2>1 DEF Identify
<1>2. ASSUME NEW r \in Writing
      PROVE  request'[r].stage = request[r].stage /\ request'[r].readings = Aged(r)
  <2>1. r \in Requests
    BY DEF Writing
  <2>2. request'[r] = Write(request[r].stage, Aged(r))
    BY <2>1, TickWorks
  <2> QED
    BY <2>2 DEF Write
<1>3. ASSUME NEW r \in Requests, request[r].stage # "identify", r \notin Writing
      PROVE  request'[r].stage = "idle"
  <2>1. request'[r] = Idle
    BY <1>3, TickWorks
  <2> QED
    BY <2>1 DEF Idle
<1>4. \A r \in Requests : r \in Writing' <=> r \in Writing
  BY <1>1, <1>2, <1>3 DEF Writing
<1>5. Writing' = Writing
  BY <1>4 DEF Writing
<1>6. \A r \in Writing, n \in Nodes :
        request'[r].readings[n] = Older(request[r].readings[n])
  BY <1>2
<1>7. ASSUME NEW r \in Requests, request'[r].stage = "identify"
      PROVE  /\ request[r].stage = "identify"
             /\ request'[r].node = request[r].node
             /\ request'[r].age = Older(request[r].age)
  <2>1. request[r].stage = "identify"
    BY <1>2, <1>3, <1>7 DEF Writing
  <2> QED
    BY <1>1, <2>1
<1> QED
  BY <1>5, <1>6, <1>7

-----------------------------------------------------------------------------
(* A dead node looks dead.                                                 *)

\* Every step keeps Heard: what arrives is no younger than what was sent, and
\* what is remembered ages with it.
LEMMA HeardStep == TypeOK /\ Heard /\ [Next]_vars => Heard'
<1> SUFFICES ASSUME TypeOK, Heard, [Next]_vars PROVE Heard'
  OBVIOUS
<1> USE DEF Heard
<1>1. ASSUME NEW r \in Requests, NEW n \in Nodes, NEW age \in Ages, Send(r, n, age)
      PROVE  Heard'
  <2>1. latest' = latest /\ host' = host
    BY <1>1 DEF Send, memory
  <2>2. \A m \in Nodes : latest'[m] # Absent => sent'[m] # Absent /\ sent'[m] <= latest'[m]
    BY <1>1, <2>1, SendFacts, AgeNotAbsent DEF TypeOK, Ages
  <2>3. \A m \in Nodes : host'[m] # Absent => sent'[m] # Absent /\ sent'[m] <= host'[m]
    BY <1>1, <2>1, SendFacts, AgeNotAbsent DEF TypeOK, Ages
  <2>4. ASSUME NEW q \in Requests, request'[q].stage = "identify"
        PROVE  /\ sent'[request'[q].node] # Absent
               /\ sent'[request'[q].node] <= request'[q].age
    <3>1. CASE q = r
      <4>1. request'[q].node = n /\ request'[q].age = age
        BY <1>1, <3>1, SendFacts
      <4>2. sent'[n] = age
        BY <1>1, SendFacts
      <4>3. age # Absent /\ age <= age
        BY HostIngestAssumption DEF Ages
      <4> QED
        BY <4>1, <4>2, <4>3
    <3>2. CASE q # r
      <4>1. request'[q] = request[q]
        BY <1>1, <3>2, SendFacts
      <4>2. request[q].node \in Nodes /\ request[q].age \in Ages
        BY <2>4, <4>1, WorkType
      <4>3. sent[request[q].node] # Absent /\ sent[request[q].node] <= request[q].age
        BY <2>4, <4>1
      <4> QED
        BY <1>1, <4>1, <4>2, <4>3, SendFacts, AgeNotAbsent DEF TypeOK, Ages
    <3> QED
      BY <3>1, <3>2
  <2> QED
    BY <2>2, <2>3, <2>4
<1>2. ASSUME NEW r \in Requests, Accept(r) PROVE Heard'
  <2> DEFINE n == request[r].node
             age == request[r].age
  <2>1. n \in Nodes /\ age \in Ages /\ sent[n] # Absent /\ sent[n] <= age
    BY <1>2, AcceptFacts
  <2>2. sent[n] \in Ages /\ sent[n] <= SampledAt(age)
    BY <2>1, ClampedMonotone, ClampedType, StoredIsAge DEF TypeOK, Ages
  <2>3. sent' = sent
    BY <1>2 DEF Accept
  <2>4. \A m \in Nodes : latest'[m] # Absent => sent'[m] # Absent /\ sent'[m] <= latest'[m]
    BY <1>2, <2>1, <2>3, AcceptFacts
  <2>5. \A m \in Nodes : host'[m] # Absent => sent'[m] # Absent /\ sent'[m] <= host'[m]
    BY <1>2, <2>1, <2>2, <2>3, AcceptFacts
  <2>6. ASSUME NEW q \in Requests, request'[q].stage = "identify"
        PROVE  request'[q] = request[q]
    BY <1>2, <2>6, AcceptFacts DEF Idle
  <2> QED
    BY <2>3, <2>4, <2>5, <2>6
<1>3. ASSUME NEW r \in Requests,
             Unauthorized(r) \/ WriteFails(r) \/ ReplaceResources(r)
      PROVE  Heard'
  <2>1. sent' = sent /\ latest' = latest /\ host' = host
    BY <1>3 DEF Unauthorized, WriteFails, ReplaceResources, memory
  <2>2. \A q \in Requests : request'[q].stage = "identify" => request'[q] = request[q]
    BY <1>3, DoneFacts DEF Idle
  <2> QED
    BY <2>1, <2>2
<1>4. ASSUME NEW r \in Requests, InsertHardware(r) PROVE Heard'
  <2>1. sent' = sent /\ latest' = latest /\ host' = host
    BY <1>4 DEF InsertHardware, memory
  <2>2. \A q \in Requests : request'[q].stage = "identify" => request'[q] = request[q]
    BY <1>4, InsertFacts
  <2> QED
    BY <2>1, <2>2
<1>5. CASE Restart
  <2>1. \A q \in Requests : request'[q].stage # "identify"
    BY <1>5 DEF Restart, Idle
  <2> QED
    BY <1>5, <2>1 DEF Restart
<1>6. CASE Tick
  <2>1. \A m \in Nodes : /\ sent'[m] = Older(sent[m])
                         /\ latest'[m] = Older(latest[m])
                         /\ host'[m] = Older(host[m])
    BY <1>6 DEF Tick
  <2>2. \A m \in Nodes : /\ sent[m] \in Ages \cup {Absent}
                         /\ latest[m] \in Ages \cup {Absent}
                         /\ host[m] \in Ages \cup {Absent}
    BY StoredIsAge DEF TypeOK
  <2>3. \A m \in Nodes : latest'[m] # Absent => sent'[m] # Absent /\ sent'[m] <= latest'[m]
    BY <2>1, <2>2, OlderAbsent, OlderMonotone
  <2>4. \A m \in Nodes : host'[m] # Absent => sent'[m] # Absent /\ sent'[m] <= host'[m]
    BY <2>1, <2>2, OlderAbsent, OlderMonotone
  <2>5. ASSUME NEW q \in Requests, request'[q].stage = "identify"
        PROVE  /\ sent'[request'[q].node] # Absent
               /\ sent'[request'[q].node] <= request'[q].age
    <3>1. /\ request[q].stage = "identify"
          /\ request'[q].node = request[q].node
          /\ request'[q].age = Older(request[q].age)
      BY <1>6, <2>5, TickFacts
    <3>2. request[q].node \in Nodes /\ request[q].age \in Ages
      BY <3>1, WorkType
    <3> QED
      BY <2>1, <2>2, <3>1, <3>2, OlderAbsent, OlderMonotone
  <2> QED
    BY <2>3, <2>4, <2>5
<1>7. CASE UNCHANGED vars
  BY <1>7 DEF vars, memory, table, history
<1> QED
  BY <1>1, <1>2, <1>3, <1>4, <1>5, <1>6, <1>7 DEF Next

\* Before the first report there is nothing to have heard.
LEMMA HeardInit == Init => Heard
<1> SUFFICES ASSUME Init PROVE Heard
  OBVIOUS
<1>1. \A r \in Requests : request[r].stage # "identify"
  BY DEF Init, Idle
<1> QED
  BY <1>1 DEF Init, Heard

\* A node whose agent has sent nothing younger than the limit is not reported
\* live, whatever arrives late, twice or from a clock that is ahead
\* (live-cache.ts, reportingHosts).
THEOREM DeadNodesLookDead == Spec => []DeadLooksDead
<1>1. TypeOK /\ Heard => DeadLooksDead
  <2> SUFFICES ASSUME TypeOK, Heard, NEW n \in Nodes, n \in Reporting
               PROVE  sent[n] # Absent /\ ~(sent[n] > STALE)
    BY DEF DeadLooksDead
  <2>1. sent[n] # Absent /\ sent[n] <= host[n] /\ host[n] <= STALE
    BY DEF Heard, Reporting
  <2>2. sent[n] \in Int /\ host[n] \in Int /\ STALE \in Int
    BY <2>1, HostIngestAssumption DEF TypeOK, Ages, Reporting
  <2> QED
    BY <2>1, <2>2
<1>2. Init => TypeOK /\ Heard
  BY InitType, HeardInit
<1>3. TypeOK /\ Heard /\ [Next]_vars => (TypeOK /\ Heard)'
  BY TypeStep, HeardStep
<1> QED
  BY <1>1, <1>2, <1>3, PTL DEF Spec

-----------------------------------------------------------------------------
(* What was written stays.                                                 *)

\* Every step keeps Known: a write takes its readings from memory, which only a
\* restart empties, and memory takes them from what was sent.
LEMMA KnownStep == TypeOK /\ TypeOK' /\ Heard /\ Known /\ [Next]_vars => Known'
<1> SUFFICES ASSUME TypeOK, TypeOK', Heard, Known, [Next]_vars PROVE Known'
  OBVIOUS
<1> USE DEF Known
<1>1. ASSUME NEW r \in Requests, NEW n \in Nodes, NEW age \in Ages, Send(r, n, age)
      PROVE  Known'
  <2>1. latest' = latest /\ wrote' = wrote /\ resources' = resources
    BY <1>1 DEF Send, memory, table
  <2>2. Writing' = Writing /\ \A q \in Writing : request'[q] = request[q]
    BY <1>1, SendFacts
  <2>3. \A m \in Nodes : sent[m] # Absent => sent'[m] # Absent
    BY <1>1, SendFacts
  <2> QED
    BY <2>1, <2>2, <2>3
<1>2. ASSUME NEW r \in Requests, Accept(r) PROVE Known'
  <2>1. sent' = sent /\ wrote' = wrote /\ resources' = resources
    BY <1>2 DEF Accept, table
  <2>2. \A m \in Nodes : latest[m] # Absent => latest'[m] # Absent
    BY <1>2, AcceptFacts, AgeNotAbsent
  <2>3. ASSUME NEW q \in Writing', NEW m \in Nodes, request'[q].readings[m] # Absent
        PROVE  latest'[m] # Absent
    <3>1. CASE q = r
      <4>1. Due
        BY <1>2, <3>1, <2>3, AcceptFacts
      <4>2. request'[q].readings[m] = Clamped(latest'[m])
        BY <1>2, <3>1, <4>1, AcceptFacts
      <4> QED
        BY <2>3, <4>2, ClampedType
    <3>2. CASE q # r
      <4>1. q \in Writing /\ request'[q] = request[q]
        BY <1>2, <3>2, <2>3, AcceptFacts DEF Writing
      <4> QED
        BY <2>2, <2>3, <4>1
    <3> QED
      BY <3>1, <3>2
  <2>4. wrote \subseteq Nodes
    BY DEF TypeOK
  <2> QED
    BY <2>1, <2>2, <2>3, <2>4
<1>3. ASSUME NEW r \in Requests, Unauthorized(r) \/ WriteFails(r) PROVE Known'
  <2>1. sent' = sent /\ latest' = latest /\ wrote' = wrote /\ resources' = resources
    BY <1>3 DEF Unauthorized, WriteFails, memory, table
  <2>2. \A q \in Writing' : q \in Writing /\ request'[q] = request[q]
    BY <1>3, DoneFacts DEF Writing
  <2> QED
    BY <2>1, <2>2
<1>4. ASSUME NEW r \in Requests, ReplaceResources(r) PROVE Known'
  <2>1. /\ r \in Writing
        /\ sent' = sent /\ latest' = latest
        /\ resources' = request[r].readings
        /\ wrote' = wrote \cup {n \in Nodes : request[r].readings[n] # Absent}
    BY <1>4 DEF ReplaceResources, memory, Writing
  <2>2. \A q \in Writing' : q \in Writing /\ request'[q] = request[q]
    BY <1>4, DoneFacts DEF Writing
  <2>3. \A n \in Nodes : request[r].readings[n] # Absent => latest[n] # Absent /\ sent[n] # Absent
    BY <2>1 DEF Heard
  <2> QED
    BY <2>1, <2>2, <2>3
<1>5. ASSUME NEW r \in Requests, InsertHardware(r) PROVE Known'
  <2>1. sent' = sent /\ latest' = latest /\ wrote' = wrote /\ resources' = resources
    BY <1>5 DEF InsertHardware, memory, table
  <2>2. Writing' = Writing /\ \A q \in Writing : request'[q].readings = request[q].readings
    BY <1>5, InsertFacts DEF Writing
  <2> QED
    BY <2>1, <2>2
<1>6. CASE Restart
  <2>1. Writing' = {} /\ wrote' = {} /\ sent' = sent /\ resources' = resources
    BY <1>6 DEF Restart, Writing, Idle
  <2> QED
    BY <2>1
<1>7. CASE Tick
  <2>1. \A m \in Nodes : /\ sent'[m] = Older(sent[m])
                         /\ latest'[m] = Older(latest[m])
                         /\ resources'[m] = Older(resources[m])
    BY <1>7 DEF Tick
  <2>2. \A m \in Nodes : /\ sent[m] \in Ages \cup {Absent}
                         /\ latest[m] \in Ages \cup {Absent}
                         /\ resources[m] \in Ages \cup {Absent}
    BY StoredIsAge DEF TypeOK
  <2>3. \A m \in Nodes : /\ sent'[m] # Absent <=> sent[m] # Absent
                         /\ latest'[m] # Absent <=> latest[m] # Absent
                         /\ resources'[m] # Absent <=> resources[m] # Absent
    BY <2>1, <2>2, OlderAbsent
  <2>4. Writing' = Writing
    BY <1>7, TickFacts
  <2>5. \A q \in Writing, m \in Nodes :
          request'[q].readings[m] # Absent => request[q].readings[m] # Absent
    BY <1>7, TickFacts, OlderType
  <2>6. wrote' = wrote /\ wrote \subseteq Nodes
    BY <1>7 DEF Tick, TypeOK
  <2> QED
    BY <2>3, <2>4, <2>5, <2>6
<1>8. CASE UNCHANGED vars
  BY <1>8 DEF vars, memory, table, history, Writing
<1> QED
  BY <1>1, <1>2, <1>3, <1>4, <1>5, <1>6, <1>7, <1>8 DEF Next

\* Every step keeps Complete: a write that starts alone takes all of memory,
\* which holds every node this process has written.
LEMMA CompleteStep == TypeOK /\ TypeOK' /\ Known /\ Complete /\ [Next]_vars => Complete'
<1> SUFFICES ASSUME TypeOK, TypeOK', Known, Complete, [Next]_vars, ~overlapped'
             PROVE  /\ \A q, r \in Writing' : q = r
                    /\ \A r \in Writing', n \in wrote' : request'[r].readings[n] # Absent
                    /\ \A n \in wrote' : resources'[n] # Absent
  BY DEF Complete
<1> DEFINE Alone == \A q, r \in Writing' : q = r
           All == \A r \in Writing', n \in wrote' : request'[r].readings[n] # Absent
           Stay == \A n \in wrote' : resources'[n] # Absent
<1> HIDE DEF Alone, All, Stay
<1>0. wrote \subseteq Nodes
  BY DEF TypeOK
<1>1. ASSUME NEW r \in Requests, Accept(r) PROVE Alone /\ All /\ Stay
  <2>1. ~overlapped /\ wrote' = wrote /\ resources' = resources
    BY <1>1 DEF Accept, table
  <2>2. CASE Due
    <3>1. Writing' = {r}
      BY <1>1, <2>2, AcceptFacts
    <3>2. ASSUME NEW n \in wrote PROVE request'[r].readings[n] # Absent
      <4>1. n \in Nodes /\ latest[n] # Absent
        BY <1>0 DEF Known
      <4>2. latest'[n] \in Ages
        BY <1>1, <4>1, AcceptFacts DEF TypeOK
      <4>3. request'[r].readings[n] = Clamped(latest'[n])
        BY <1>1, <2>2, <4>1, AcceptFacts
      <4> QED
        BY <4>2, <4>3, ClampedType, AgeNotAbsent
    <3> QED
      BY <2>1, <3>1, <3>2 DEF Alone, All, Stay, Complete
  <2>3. CASE ~Due
    <3>1. Writing' = Writing /\ \A q \in Writing : request'[q] = request[q]
      BY <1>1, <2>3, AcceptFacts DEF Writing
    <3> QED
      BY <2>1, <3>1 DEF Alone, All, Stay, Complete
  <2> QED
    BY <2>2, <2>3
<1>2. ASSUME NEW r \in Requests, ReplaceResources(r) PROVE Alone /\ All /\ Stay
  <2>1. /\ r \in Writing /\ ~overlapped
        /\ resources' = request[r].readings
        /\ wrote' = wrote \cup {n \in Nodes : request[r].readings[n] # Absent}
    BY <1>2 DEF ReplaceResources, history, Writing
  <2>2. Writing' = {}
    BY <1>2, <2>1, DoneFacts DEF Complete
  <2> QED
    BY <2>1, <2>2 DEF Alone, All, Stay, Complete
<1>3. ASSUME NEW r \in Requests, Unauthorized(r) \/ WriteFails(r)
      PROVE  Alone /\ All /\ Stay
  <2>1. ~overlapped /\ wrote' = wrote /\ resources' = resources
    BY <1>3 DEF Unauthorized, WriteFails, table, history
  <2>2. \A q \in Writing' : q \in Writing /\ request'[q] = request[q]
    BY <1>3, DoneFacts DEF Writing
  <2> QED
    BY <2>1, <2>2 DEF Alone, All, Stay, Complete
<1>4. ASSUME NEW r \in Requests, InsertHardware(r) PROVE Alone /\ All /\ Stay
  <2>1. ~overlapped /\ wrote' = wrote /\ resources' = resources
    BY <1>4 DEF InsertHardware, table, history
  <2>2. Writing' = Writing /\ \A q \in Writing : request'[q].readings = request[q].readings
    BY <1>4, InsertFacts DEF Writing
  <2> QED
    BY <2>1, <2>2 DEF Alone, All, Stay, Complete
<1>5. ASSUME NEW r \in Requests, NEW n \in Nodes, NEW age \in Ages, Send(r, n, age)
      PROVE  Alone /\ All /\ Stay
  <2>1. ~overlapped /\ wrote' = wrote /\ resources' = resources
    BY <1>5 DEF Send, table
  <2>2. Writing' = Writing /\ \A q \in Writing : request'[q] = request[q]
    BY <1>5, SendFacts
  <2> QED
    BY <2>1, <2>2 DEF Alone, All, Stay, Complete
<1>6. CASE Restart
  <2>1. Writing' = {} /\ wrote' = {}
    BY <1>6 DEF Restart, Writing, Idle
  <2> QED
    BY <2>1 DEF Alone, All, Stay
<1>7. CASE Tick
  <2>1. ~overlapped /\ wrote' = wrote /\ Writing' = Writing
    BY <1>7, TickFacts DEF Tick, history
  <2>2. ASSUME NEW n \in wrote PROVE resources'[n] # Absent
    <3>1. resources'[n] = Older(resources[n]) /\ resources[n] # Absent /\ n \in Nodes
      BY <1>0, <1>7, <2>1 DEF Tick, Complete
    <3> QED
      BY <3>1, OlderAbsent, StoredIsAge DEF TypeOK
  <2>3. ASSUME NEW q \in Writing, NEW n \in wrote PROVE request'[q].readings[n] # Absent
    <3>1. n \in Nodes /\ q \in Requests
      BY <1>0 DEF Writing
    <3>2. request[q].readings[n] # Absent
      BY <2>1 DEF Complete
    <3>3. request[q].readings[n] \in Ages
      BY <3>1, <3>2, WorkType, StoredIsAge
    <3> QED
      BY <1>7, <3>1, <3>3, TickFacts, OlderType, AgeNotAbsent
  <2> QED
    BY <2>1, <2>2, <2>3 DEF Alone, All, Stay, Complete
<1>8. CASE UNCHANGED vars
  BY <1>8 DEF vars, memory, table, history, Writing, Alone, All, Stay, Complete
<1> QED
  BY <1>1, <1>2, <1>3, <1>4, <1>5, <1>6, <1>7, <1>8 DEF Next, Alone, All, Stay

\* Before the first write there is nothing to lose.
LEMMA BlankInit == Init => Known /\ Complete /\ Newest /\ Downstream
<1> SUFFICES ASSUME Init PROVE Known /\ Complete /\ Newest /\ Downstream
  OBVIOUS
<1>1. Writing = {} /\ \A r \in Requests : request[r].stage # "identify"
  BY DEF Init, Idle, Writing
<1>2. Known /\ Complete
  BY <1>1 DEF Init, Known, Complete
<1>3. Newest /\ Downstream
  BY <1>1 DEF Init, Newest, Downstream, RowOlder
<1> QED
  BY <1>2, <1>3

-----------------------------------------------------------------------------
(* No row goes back.                                                       *)

\* Neither history is ever taken back.
LEMMA HistoryGrows ==
  TypeOK /\ [Next]_vars => (abandoned => abandoned') /\ (overlapped => overlapped')
<1> SUFFICES ASSUME TypeOK, [Next]_vars
             PROVE  (abandoned => abandoned') /\ (overlapped => overlapped')
  OBVIOUS
<1> DEFINE Grows == (abandoned => abandoned') /\ (overlapped => overlapped')
<1>1. ASSUME NEW r \in Requests, Accept(r) PROVE Grows
  BY <1>1, AcceptFacts DEF Accept
<1>2. ASSUME NEW r \in Requests, NEW n \in Nodes, NEW age \in Ages, Send(r, n, age)
      PROVE  Grows
  BY <1>2 DEF Send
<1>3. ASSUME NEW r \in Requests,
             Unauthorized(r) \/ WriteFails(r) \/ ReplaceResources(r) \/ InsertHardware(r)
      PROVE  Grows
  BY <1>3 DEF Unauthorized, WriteFails, ReplaceResources, InsertHardware, history
<1>4. ASSUME Restart \/ Tick PROVE Grows
  BY <1>4 DEF Restart, Tick, history
<1>5. ASSUME UNCHANGED vars PROVE Grows
  BY <1>5 DEF vars, history
<1> HIDE DEF Grows
<1>6. Grows
  BY <1>1, <1>2, <1>3, <1>4, <1>5 DEF Next
<1> QED
  BY <1>6 DEF Grows

\* Every step keeps Newest: a second report of a node gives up the first.
LEMMA NewestStep == TypeOK /\ Newest /\ [Next]_vars => Newest'
<1> SUFFICES ASSUME TypeOK, Newest, [Next]_vars, ~abandoned',
                    NEW q \in Requests, request'[q].stage = "identify"
             PROVE  request'[q].age = sent'[request'[q].node]
  BY DEF Newest
<1>0. ~abandoned
  BY HistoryGrows
<1>1. ASSUME request'[q] = request[q], sent' = sent
      PROVE  request'[q].age = sent'[request'[q].node]
  BY <1>0, <1>1 DEF Newest
<1>2. ASSUME NEW r \in Requests, NEW n \in Nodes, NEW age \in Ages, Send(r, n, age)
      PROVE  request'[q].age = sent'[request'[q].node]
  <2>1. CASE q = r
    BY <1>2, <2>1, SendFacts
  <2>2. CASE q # r
    <3>1. request'[q] = request[q]
      BY <1>2, <2>2, SendFacts
    <3>2. request[q].node \in Nodes /\ request[q].age = sent[request[q].node]
      BY <1>0, <3>1, WorkType DEF Newest
    <3>3. request[q].node # n
      BY <1>2, <3>1 DEF Send, Of
    <3> QED
      BY <1>2, <3>1, <3>2, <3>3, SendFacts
  <2> QED
    BY <2>1, <2>2
<1>3. ASSUME NEW r \in Requests, Accept(r)
      PROVE  request'[q].age = sent'[request'[q].node]
  <2>1. request'[r].stage # "identify"
    BY <1>3, AcceptFacts DEF Idle
  <2> QED
    BY <1>1, <1>3, <2>1, AcceptFacts DEF Accept
<1>4. ASSUME NEW r \in Requests,
             Unauthorized(r) \/ WriteFails(r) \/ ReplaceResources(r)
      PROVE  request'[q].age = sent'[request'[q].node]
  <2>1. request'[r].stage # "identify"
    BY <1>4, DoneFacts DEF Idle
  <2>2. sent' = sent
    BY <1>4 DEF Unauthorized, WriteFails, ReplaceResources
  <2> QED
    BY <1>1, <1>4, <2>1, <2>2, DoneFacts
<1>5. ASSUME NEW r \in Requests, InsertHardware(r)
      PROVE  request'[q].age = sent'[request'[q].node]
  BY <1>1, <1>5, InsertFacts DEF InsertHardware
<1>6. CASE Restart
  BY <1>6 DEF Restart, Idle
<1>7. CASE Tick
  <2>1. /\ request[q].stage = "identify"
        /\ request'[q].node = request[q].node
        /\ request'[q].age = Older(request[q].age)
    BY <1>7, TickFacts
  <2>2. request[q].node \in Nodes /\ request[q].age = sent[request[q].node]
    BY <1>0, <2>1, WorkType DEF Newest
  <2> QED
    BY <1>7, <2>1, <2>2 DEF Tick
<1>8. CASE UNCHANGED vars
  BY <1>1, <1>8 DEF vars
<1> QED
  BY <1>2, <1>3, <1>4, <1>5, <1>6, <1>7, <1>8 DEF Next

\* Every step keeps Downstream: a write takes, for each node, a reading no older
\* than any before it, and alone it is the next to reach the row.
LEMMA DownstreamStep ==
  TypeOK /\ TypeOK' /\ Heard /\ Heard' /\ Known /\ Complete /\ Newest /\ Downstream
    /\ [Next]_vars => Downstream'
<1> SUFFICES ASSUME TypeOK, TypeOK', Heard, Heard', Known, Complete, Newest, Downstream,
                    [Next]_vars, ~abandoned', ~overlapped', NEW n \in Nodes
             PROVE  RowOlder(n)' /\ \A q \in Writing' : WriteBetween(q, n)'
  BY DEF Downstream
<1> DEFINE Goal == RowOlder(n)' /\ \A q \in Writing' : WriteBetween(q, n)'
<1>a. ~abandoned /\ ~overlapped
  BY HistoryGrows
<1>b. RowOlder(n) /\ \A q \in Writing : WriteBetween(q, n)
  BY <1>a DEF Downstream
<1>c. /\ sent[n] \in Ages \cup {Absent} /\ sent'[n] \in Ages \cup {Absent}
      /\ latest[n] \in Ages \cup {Absent} /\ latest'[n] \in Ages \cup {Absent}
      /\ resources[n] \in (0 .. OLD) \cup {Absent}
      /\ \A q \in Writing : request[q].readings[n] \in (0 .. OLD) \cup {Absent}
  BY WorkType DEF TypeOK, Writing
<1>d. \A q \in Writing : request[q].readings[n] # Absent => latest[n] # Absent
  BY DEF Known
<1>e. /\ latest[n] # Absent => sent[n] # Absent
      /\ resources[n] # Absent => sent[n] # Absent
  BY DEF Known, Heard
<1>1. ASSUME NEW r \in Requests, NEW m \in Nodes, NEW age \in Ages, Send(r, m, age)
      PROVE  Goal
  <2>1. resources' = resources /\ latest' = latest
    BY <1>1 DEF Send, memory, table
  <2>2. Writing' = Writing /\ \A q \in Writing : request'[q] = request[q]
    BY <1>1, SendFacts
  <2>3. sent[n] # Absent => sent'[n] # Absent /\ sent'[n] <= sent[n]
    BY <1>1, SendFacts
  <2>4. sent[n] # Absent => /\ Clamped(sent'[n]) <= Clamped(sent[n])
                            /\ Clamped(sent[n]) \in Int /\ Clamped(sent'[n]) \in Int
    <3>1. sent[n] # Absent => sent[n] \in Ages /\ sent'[n] \in Ages
      BY <1>c, <2>3
    <3> QED
      BY <2>3, <3>1, ClampedMonotone, ClampedType
  <2>5. RowOlder(n)'
    <3> SUFFICES ASSUME resources[n] # Absent
                 PROVE  /\ Clamped(sent'[n]) <= resources[n]
                        /\ latest[n] # Absent => Clamped(latest[n]) <= resources[n]
      BY <2>1 DEF RowOlder
    <3> QED
      BY <1>b, <1>c, <1>e, <2>4 DEF RowOlder
  <2>6. ASSUME NEW q \in Writing' PROVE WriteBetween(q, n)'
    <3>1. q \in Writing /\ request'[q] = request[q]
      BY <2>2, <2>6
    <3> SUFFICES ASSUME request[q].readings[n] # Absent
                 PROVE  /\ Clamped(sent'[n]) <= request[q].readings[n]
                        /\ Clamped(latest[n]) <= request[q].readings[n]
                        /\ resources[n] # Absent => request[q].readings[n] <= resources[n]
      BY <2>1, <3>1 DEF WriteBetween
    <3>2. request[q].readings[n] \in 0 .. OLD
      BY <1>c, <3>1
    <3>3. /\ Clamped(sent[n]) <= request[q].readings[n]
          /\ Clamped(latest[n]) <= request[q].readings[n]
          /\ resources[n] # Absent => request[q].readings[n] <= resources[n]
      BY <1>b, <3>1 DEF WriteBetween
    <3> QED
      BY <1>d, <1>e, <2>4, <3>1, <3>2, <3>3
  <2> QED
    BY <2>5, <2>6
<1>2. ASSUME NEW r \in Requests, Accept(r) PROVE Goal
  <2>1. sent' = sent /\ resources' = resources
    BY <1>2 DEF Accept, table
  <2>2. latest'[n] = latest[n] \/ latest'[n] = sent[n]
    BY <1>2, <1>a, AcceptFacts DEF Newest
  <2>3. RowOlder(n)'
    BY <1>b, <2>1, <2>2 DEF RowOlder
  <2>4. CASE Due
    <3>1. Writing' = {r} /\ request'[r].readings[n] = Clamped(latest'[n])
      BY <1>2, <2>4, AcceptFacts
    <3>2. ASSUME request'[r].readings[n] # Absent
          PROVE  /\ Clamped(sent[n]) <= Clamped(latest'[n])
                 /\ Clamped(latest'[n]) <= Clamped(latest'[n])
                 /\ resources[n] # Absent => Clamped(latest'[n]) <= resources[n]
      <4>1. latest'[n] \in Ages
        BY <1>c, <3>1, <3>2, ClampedType
      <4>2. sent[n] \in Ages /\ sent[n] <= latest'[n]
        BY <1>c, <2>1, <4>1, AgeNotAbsent DEF Heard
      <4>3. Clamped(sent[n]) <= Clamped(latest'[n]) /\ Clamped(latest'[n]) \in Int
        BY <4>1, <4>2, ClampedMonotone, ClampedType
      <4>4. resources[n] # Absent => Clamped(latest'[n]) <= resources[n]
        BY <2>1, <2>3, <4>1, AgeNotAbsent DEF RowOlder
      <4> QED
        BY <4>3, <4>4
    <3>3. WriteBetween(r, n)'
      BY <2>1, <3>1, <3>2 DEF WriteBetween
    <3> QED
      BY <2>3, <3>1, <3>3
  <2>5. CASE ~Due
    <3>1. Writing' = Writing /\ \A q \in Writing : request'[q] = request[q]
      BY <1>2, <2>5, AcceptFacts DEF Writing
    <3>2. ASSUME NEW q \in Writing PROVE WriteBetween(q, n)'
      BY <1>b, <2>1, <2>2, <3>1, <3>2 DEF WriteBetween
    <3> QED
      BY <2>3, <3>1, <3>2
  <2> QED
    BY <2>4, <2>5
<1>3. ASSUME NEW r \in Requests, ReplaceResources(r) PROVE Goal
  <2>1. /\ r \in Writing /\ sent' = sent /\ latest' = latest
        /\ resources' = request[r].readings
    BY <1>3 DEF ReplaceResources, memory, Writing
  <2>2. Writing' = {}
    BY <1>3, <1>a, <2>1, DoneFacts DEF Complete
  <2>3. RowOlder(n)'
    BY <1>b, <2>1 DEF RowOlder, WriteBetween
  <2> QED
    BY <2>2, <2>3
<1>4. ASSUME NEW r \in Requests, Unauthorized(r) \/ WriteFails(r) PROVE Goal
  <2>1. sent' = sent /\ latest' = latest /\ resources' = resources
    BY <1>4 DEF Unauthorized, WriteFails, memory, table
  <2>2. \A q \in Writing' : q \in Writing /\ request'[q] = request[q]
    BY <1>4, DoneFacts DEF Writing
  <2> QED
    BY <1>b, <2>1, <2>2 DEF RowOlder, WriteBetween
<1>5. ASSUME NEW r \in Requests, InsertHardware(r) PROVE Goal
  <2>1. sent' = sent /\ latest' = latest /\ resources' = resources
    BY <1>5 DEF InsertHardware, memory, table
  <2>2. Writing' = Writing /\ \A q \in Writing : request'[q].readings = request[q].readings
    BY <1>5, InsertFacts DEF Writing
  <2> QED
    BY <1>b, <2>1, <2>2 DEF RowOlder, WriteBetween
<1>6. CASE Restart
  <2>1. /\ Writing' = {} /\ latest'[n] = Absent
        /\ sent' = sent /\ resources' = resources
    BY <1>6 DEF Restart, Writing, Idle
  <2> QED
    BY <1>b, <2>1 DEF RowOlder
<1>7. CASE Tick
  <2>1. /\ sent'[n] = Older(sent[n])
        /\ latest'[n] = Older(latest[n])
        /\ resources'[n] = Older(resources[n])
    BY <1>7 DEF Tick
  <2>2. /\ Writing' = Writing
        /\ \A q \in Writing : request'[q].readings[n] = Older(request[q].readings[n])
    BY <1>7, TickFacts
  <2>3. ASSUME NEW a \in Ages, NEW b \in 0 .. OLD, Clamped(a) <= b
        PROVE  Clamped(Older(a)) <= Older(b)
    <3>1. Older(Clamped(a)) <= Older(b)
      BY <2>3, ClampedType, StoredIsAge, OlderMonotone
    <3>2. Clamped(Older(a)) <= Older(Clamped(a))
      BY ClampedOlder
    <3>3. /\ Older(Clamped(a)) \in Int /\ Older(b) \in Int
          /\ Clamped(Older(a)) \in Int
      BY ClampedType, OlderType
    <3> QED
      BY <3>1, <3>2, <3>3
  <2>4. RowOlder(n)'
    <3> SUFFICES ASSUME Older(resources[n]) # Absent
                 PROVE  /\ Clamped(Older(sent[n])) <= Older(resources[n])
                        /\ Older(latest[n]) # Absent =>
                             Clamped(Older(latest[n])) <= Older(resources[n])
      BY <2>1 DEF RowOlder
    <3>1. resources[n] \in 0 .. OLD /\ resources[n] # Absent
      BY <1>c, OlderType
    <3>2. sent[n] \in Ages /\ Clamped(sent[n]) <= resources[n]
      BY <1>b, <1>c, <1>e, <3>1 DEF RowOlder
    <3>3. ASSUME Older(latest[n]) # Absent
          PROVE  latest[n] \in Ages /\ Clamped(latest[n]) <= resources[n]
      BY <1>b, <1>c, <3>1, <3>3, OlderType DEF RowOlder
    <3> QED
      BY <2>3, <3>1, <3>2, <3>3
  <2>5. ASSUME NEW q \in Writing PROVE WriteBetween(q, n)'
    <3> DEFINE a == request[q].readings[n]
    <3> SUFFICES ASSUME Older(a) # Absent
                 PROVE  /\ Clamped(Older(sent[n])) <= Older(a)
                        /\ Clamped(Older(latest[n])) <= Older(a)
                        /\ Older(resources[n]) # Absent => Older(a) <= Older(resources[n])
      BY <2>1, <2>2 DEF WriteBetween
    <3>1. a \in 0 .. OLD /\ a # Absent
      BY <1>c, OlderType
    <3>2. sent[n] \in Ages /\ latest[n] \in Ages
      BY <1>c, <1>d, <1>e, <3>1
    <3>3. /\ Clamped(sent[n]) <= a /\ Clamped(latest[n]) <= a
          /\ resources[n] # Absent => a <= resources[n]
      BY <1>b, <3>1 DEF WriteBetween
    <3>4. ASSUME Older(resources[n]) # Absent PROVE Older(a) <= Older(resources[n])
      BY <1>c, <3>1, <3>3, <3>4, OlderType, OlderMonotone, StoredIsAge
    <3> QED
      BY <2>3, <3>1, <3>2, <3>3, <3>4
  <2> QED
    BY <2>2, <2>4, <2>5
<1>8. CASE UNCHANGED vars
  BY <1>b, <1>8 DEF vars, memory, table, RowOlder, WriteBetween, Writing
<1> QED
  BY <1>1, <1>2, <1>3, <1>4, <1>5, <1>6, <1>7, <1>8 DEF Next

\* The invariant holds in every state.
LEMMA Inductive == Spec => []IInv
<1>1. Init => IInv
  BY InitType, HeardInit, BlankInit DEF IInv
<1>2. IInv /\ [Next]_vars => IInv'
  <2> SUFFICES ASSUME IInv, [Next]_vars PROVE IInv'
    OBVIOUS
  <2>1. TypeOK'
    BY TypeStep DEF IInv
  <2>2. Heard'
    BY HeardStep DEF IInv
  <2>3. Known' /\ Complete' /\ Newest'
    BY <2>1, KnownStep, CompleteStep, NewestStep DEF IInv
  <2>4. Downstream'
    BY <2>1, <2>2, DownstreamStep DEF IInv
  <2> QED
    BY <2>1, <2>2, <2>3, <2>4 DEF IInv
<1> QED
  BY <1>1, <1>2, PTL DEF Spec

\* A row this process wrote stays until it dies, unless two writes overlapped:
\* a write takes the rows of all nodes, never those of its caller only
\* (host-ingest.ts, prepare and persist).
THEOREM WrittenRowsStay == Spec => []WrittenStaysUnlessOverlapped
<1>1. IInv => WrittenStaysUnlessOverlapped
  BY DEF IInv, Complete, WrittenStaysUnlessOverlapped
<1> QED
  BY <1>1, Inductive, PTL

\* A row is never replaced by an older reading unless a request was given up or
\* two writes overlapped (host-ingest.ts with plugins/ingest.ts).
THEOREM RowsNeverGoBack == Spec => NeverBack
<1> DEFINE Kept == \A n \in Nodes :
       /\ ~Tick /\ ~abandoned /\ ~overlapped
       /\ resources[n] # Absent /\ resources'[n] # Absent
       => resources'[n] <= resources[n]
<1>1. IInv /\ [Next]_vars => [Kept]_vars
  <2> SUFFICES ASSUME IInv, [Next]_vars, NEW n \in Nodes,
                      ~Tick, ~abandoned, ~overlapped,
                      resources[n] # Absent, resources'[n] # Absent
               PROVE  resources'[n] <= resources[n]
    OBVIOUS
  <2>1. resources[n] \in Int
    BY DEF IInv, TypeOK
  <2>2. CASE resources' = resources
    BY <2>1, <2>2
  <2>3. ASSUME NEW r \in Requests, ReplaceResources(r)
        PROVE  resources'[n] <= resources[n]
    <3>1. r \in Writing /\ resources' = request[r].readings
      BY <2>3 DEF ReplaceResources, Writing
    <3> QED
      BY <3>1 DEF IInv, Downstream, WriteBetween
  <2> QED
    BY <2>2, <2>3 DEF Next, Send, Unauthorized, Accept, InsertHardware, WriteFails,
                      Restart, vars, table
<1> QED
  BY <1>1, Inductive, PTL DEF Spec, NeverBack

-----------------------------------------------------------------------------
(* The logs of a machine: the inductive invariant.                         *)

\* The stamps and the halves of lines and events.
Pieces == (Attempts \cup Noise \cup Execs) \X {0, 1, 2}

\* Each piece of an entry is written once, the second one right after the first.
IsLog(t) ==
  /\ t \in Seq(Pieces)
  /\ \A j, k \in 1 .. Len(t) : t[j] = t[k] => j = k
  /\ \A j \in 1 .. Len(t) : t[j][2] = 2 => j > 1 /\ t[j - 1] = L!First(t[j][1])

\* What has been reported from a log lies before the offset, whole, if it is there at all.
Behind(t, o, reported) ==
  \A e \in reported, j \in 1 .. Len(t) : t[j][1] = e =>
    /\ \E k \in 1 .. Len(t) : t[k] = L!Second(e)
    /\ o # Unset => j <= o

\* In a log whose bytes exceed its characters by a stamp at most, what lies before the
\* offset is known, but for stamps.
Covers(t, o, known) ==
  o # Unset /\ L!Surplus(t) <= 1 =>
    /\ o <= L!Size(t)
    /\ \A j \in 1 .. Len(t) : j <= o => t[j][1] \in known \/ t[j][2] = 0

LogsTypes ==
  /\ text = [l \in L!Logs |-> text[l]]
  /\ \A l \in L!Logs : IsLog(text[l])
  /\ offset \in [L!Logs -> Nat \cup {Unset}]
  /\ partial = [l \in L!Logs |-> partial[l]]
  /\ alive \subseteq started \cap Execs
  /\ \A e \in alive : OwnerOf[e] \in sessions
  /\ readable \in BOOLEAN

\* What is in a log was begun, and so was what has been reported.
Begun ==
  /\ \A j \in 1 .. Len(text["auth"]) : text["auth"][j][1] \in written \cap (Attempts \cup Noise)
  /\ \A j \in 1 .. Len(text["audit"]) : text["audit"][j][1] \in started \cap Execs
  /\ byLog \subseteq written /\ byAudit \subseteq started /\ bySample \subseteq started

Reported ==
  /\ Behind(text["auth"], offset["auth"], byLog)
  /\ Behind(text["audit"], offset["audit"], byAudit)

\* In a log that was not rotated, what lies before the offset was passed, or cut in two.
Covered ==
  \A l \in L!Logs \ rotated : Covers(text[l], offset[l], passed \cup partial[l])

\* An execution that was sampled and still runs is remembered, and its session is one of
\* those a collect() has read.
Remembered ==
  \A e \in bySample \cap alive :
    /\ e \in seen \cup again
    /\ snap # Unset => OwnerOf[e] \in snap

\* There is one source of executions at a time.
OneSource == ~switched => IF readable THEN bySample = {} ELSE byAudit = {}

LogsInv ==
  /\ LogsTypes /\ Begun /\ Reported /\ Covered /\ Remembered /\ OneSource
  /\ L!NewsOnce /\ L!MissedIsExplained

-----------------------------------------------------------------------------
(* What a read makes of a log.                                             *)

LEMMA LogsAre ==
  /\ L!Logs = {"auth", "audit"}
  /\ "auth" \in L!Logs /\ "audit" \in L!Logs
  BY DEF L!Logs

LEMMA LogsCounting ==
  \A set : L!Cardinality(set) = Cardinality(set) /\ (L!IsFiniteSet(set) <=> IsFiniteSet(set))
  BY DEF L!Cardinality, Cardinality, L!IsFiniteSet, IsFiniteSet

LEMMA SurplusConstants == SURPLUS \in Nat /\ Noise \cap Execs = {} /\ IsFiniteSet(Noise)
  BY SessionLogsAssumption, LogsCounting DEF L!SessionLogsAssumption

LEMMA WideIs ==
  ASSUME NEW t
  PROVE  /\ L!Wide(t) \subseteq Noise /\ IsFiniteSet(L!Wide(t))
         /\ Cardinality(L!Wide(t)) \in Nat /\ L!Cardinality(L!Wide(t)) = Cardinality(L!Wide(t))
<1>1. L!Wide(t) \subseteq Noise
  BY DEF L!Wide
<1>2. IsFiniteSet(L!Wide(t))
  BY <1>1, SurplusConstants, FS_Subset
<1> QED BY <1>1, <1>2, FS_CardinalityType, LogsCounting

\* A log is as long in bytes as in characters, or longer by its surplus.
LEMMA SizeIs ==
  ASSUME NEW t \in Seq(Pieces)
  PROVE  /\ L!Surplus(t) \in Nat /\ L!Size(t) \in Nat /\ Len(t) \in Nat
         /\ L!Size(t) = Len(t) + L!Surplus(t) /\ Len(t) <= L!Size(t)
         /\ L!Wide(t) = {} => L!Surplus(t) = 0
<1>1. Cardinality(L!Wide(t)) \in Nat /\ SURPLUS \in Nat
  BY WideIs, SurplusConstants
<1>2. L!Surplus(t) = SURPLUS * Cardinality(L!Wide(t))
  BY WideIs DEF L!Surplus
<1>3. L!Surplus(t) \in Nat
  BY <1>1, <1>2
<1>4. L!Wide(t) = {} => Cardinality(L!Wide(t)) = 0
  BY FS_EmptySet
<1>5. L!Wide(t) = {} => L!Surplus(t) = 0
  BY <1>1, <1>2, <1>4
<1>6. Len(t) \in Nat
  BY LenProperties
<1>7. L!Size(t) = Len(t) + L!Surplus(t)
  BY DEF L!Size
<1> QED BY <1>3, <1>5, <1>6, <1>7

LEMMA InSlice ==
  ASSUME NEW t \in Seq(Pieces), NEW o \in Nat, NEW half
  PROVE  half \in L!Range(L!Slice(t, o)) <=> \E j \in 1 .. Len(t) : j > o /\ t[j] = half
<1>1. Len(t) \in Nat /\ DOMAIN t = 1 .. Len(t)
  BY LenProperties
<1> DEFINE n == IF o < Len(t) THEN Len(t) - o ELSE 0
<1>2. L!Slice(t, o) = [i \in 1 .. n |-> t[o + i]]
  BY <1>1 DEF L!Slice
<1>3. L!Range(L!Slice(t, o)) = {t[o + i] : i \in 1 .. n}
  BY <1>2 DEF L!Range
<1>4. ASSUME NEW i \in 1 .. n PROVE o + i \in 1 .. Len(t) /\ o + i > o
  BY <1>1
<1>5. ASSUME NEW j \in 1 .. Len(t), j > o PROVE j - o \in 1 .. n /\ t[j] = t[o + (j - o)]
  BY <1>1, <1>5
<1> QED BY <1>3, <1>4, <1>5

LEMMA InLog ==
  ASSUME NEW t \in Seq(Pieces), NEW half
  PROVE  half \in L!Range(t) <=> \E j \in 1 .. Len(t) : t[j] = half
<1>1. DOMAIN t = 1 .. Len(t)
  BY LenProperties
<1> QED BY <1>1 DEF L!Range

\* What a read reports was not reported, and after the read all that was lies behind.
LEMMA ReadsBehind ==
  ASSUME NEW t, IsLog(t), NEW o \in Nat \cup {Unset}, NEW reported, Behind(t, o, reported)
  PROVE  /\ L!Fresh(t, o) \cap reported = {}
         /\ Behind(t, L!Size(t), reported \cup L!Fresh(t, o))
         /\ \A e \in L!Fresh(t, o) : \E j \in 1 .. Len(t) : t[j][1] = e
<1>1. t \in Seq(Pieces) /\ Len(t) \in Nat
  BY LenProperties DEF IsLog
<1>2. L!Size(t) \in Nat /\ Len(t) <= L!Size(t)
  BY <1>1, SizeIs
<1>3. ASSUME NEW e \in L!Fresh(t, o)
      PROVE  /\ o \in Nat /\ o # Unset
             /\ \E j \in 1 .. Len(t) : j > o /\ t[j] = L!Second(e)
  <2>1. o # Unset /\ e \in L!Complete(L!Slice(t, o))
    BY <1>3 DEF L!Fresh, L!Baseline, L!Start
  <2>2. o \in Nat
    BY <2>1
  <2>3. L!Second(e) \in L!Range(L!Slice(t, o))
    BY <2>1 DEF L!Complete
  <2> QED BY <2>1, <2>2, <2>3, <1>1, InSlice
<1>4. \A e : L!Second(e)[1] = e
  BY DEF L!Second
<1>5. L!Fresh(t, o) \cap reported = {}
  <2> SUFFICES ASSUME NEW e \in L!Fresh(t, o), e \in reported PROVE FALSE
    OBVIOUS
  <2>1. PICK j \in 1 .. Len(t) : j > o /\ t[j] = L!Second(e)
    BY <1>3
  <2>2. j <= o
    BY <2>1, <1>3, <1>4 DEF Behind
  <2> QED BY <2>1, <2>2, <1>3
<1>6. Behind(t, L!Size(t), reported \cup L!Fresh(t, o))
  <2> SUFFICES ASSUME NEW e \in reported \cup L!Fresh(t, o), NEW j \in 1 .. Len(t), t[j][1] = e
               PROVE  /\ \E k \in 1 .. Len(t) : t[k] = L!Second(e)
                      /\ j <= L!Size(t)
    BY DEF Behind
  <2>1. \E k \in 1 .. Len(t) : t[k] = L!Second(e)
    <3>1. CASE e \in reported
      BY <3>1 DEF Behind
    <3>2. CASE e \in L!Fresh(t, o)
      BY <3>2, <1>3
    <3> QED BY <3>1, <3>2
  <2> QED BY <2>1, <1>1, <1>2
<1>7. \A e \in L!Fresh(t, o) : \E j \in 1 .. Len(t) : t[j][1] = e
  BY <1>3, <1>4
<1> QED BY <1>5, <1>6, <1>7

\* After a read, what is in the log is known if its entries are.
LEMMA ReadCovers ==
  ASSUME NEW t, IsLog(t), NEW known, L!Entries(t) \subseteq known
  PROVE  Covers(t, L!Size(t), known)
<1>1. t \in Seq(Pieces) /\ Len(t) \in Nat
  BY LenProperties DEF IsLog
<1>2. ASSUME NEW j \in 1 .. Len(t) PROVE t[j][1] \in known
  BY <1>1, InLog DEF L!Entries
<1>3. L!Size(t) \in Nat
  BY <1>1, SizeIs
<1> QED BY <1>2, <1>3 DEF Covers

\* A read recognises what is complete and was not known.
LEMMA NothingMissed ==
  ASSUME NEW t, IsLog(t), NEW o \in Nat, o # Unset, NEW known, Covers(t, o, known),
         L!Surplus(t) <= 1,
         NEW e \in L!Complete(t), e \notin known
  PROVE  e \in L!Fresh(t, o)
<1>1. t \in Seq(Pieces) /\ Len(t) \in Nat
  BY LenProperties DEF IsLog
<1>2. o <= L!Size(t) /\ \A j \in 1 .. Len(t) : j <= o => t[j][1] \in known \/ t[j][2] = 0
  BY DEF Covers
<1>3. ~L!Baseline(t, o)
  BY <1>1, <1>2, SizeIs DEF L!Baseline
<1>4. /\ L!First(e)[1] = e /\ L!First(e)[2] = 1
      /\ L!Second(e)[1] = e /\ L!Second(e)[2] = 2
  BY DEF L!First, L!Second
<1>5. ASSUME NEW half \in L!Range(t), half[1] = e, half[2] # 0
      PROVE  half \in L!Range(L!Slice(t, o))
  <2>1. PICK j \in 1 .. Len(t) : t[j] = half
    BY <1>1, InLog
  <2>2. j > o
    BY <2>1, <1>2, <1>5
  <2> QED BY <2>1, <2>2, <1>1, InSlice
<1>6. L!First(e) \in L!Range(L!Slice(t, o)) /\ L!Second(e) \in L!Range(L!Slice(t, o))
  BY <1>4, <1>5 DEF L!Complete
<1>7. e \in L!Complete(L!Slice(t, o))
  <2>1. e \in L!Entries(L!Slice(t, o))
    BY <1>4, <1>6 DEF L!Entries
  <2> QED BY <2>1, <1>6 DEF L!Complete
<1> QED BY <1>3, <1>7 DEF L!Fresh, L!Start

-----------------------------------------------------------------------------
(* What a line or an event does to its log.                                *)

LEMMA Appended ==
  ASSUME NEW t \in Seq(Pieces), NEW piece \in Pieces
  PROVE  /\ Append(t, piece) \in Seq(Pieces) /\ Len(Append(t, piece)) = Len(t) + 1
         /\ Append(t, piece)[Len(t) + 1] = piece
         /\ \A j \in 1 .. Len(t) : Append(t, piece)[j] = t[j]
         /\ t \o <<piece>> = Append(t, piece)
         /\ \A next : t \o <<piece, next>> = Append(Append(t, piece), next)
  BY AppendProperties

LEMMA SurplusGrows ==
  ASSUME NEW t \in Seq(Pieces), NEW piece \in Pieces
  PROVE  L!Surplus(t) <= L!Surplus(Append(t, piece))
<1> DEFINE u == Append(t, piece)
<1>1. /\ u \in Seq(Pieces) /\ Len(u) = Len(t) + 1 /\ Len(t) \in Nat
      /\ \A j \in 1 .. Len(t) : u[j] = t[j]
  BY Appended, LenProperties
<1> HIDE DEF u
<1>2. L!Wide(t) \subseteq L!Wide(u)
  <2> SUFFICES ASSUME NEW e \in Noise, L!First(e) \in L!Range(t) PROVE L!First(e) \in L!Range(u)
    BY DEF L!Wide
  <2>1. PICK j \in 1 .. Len(t) : t[j] = L!First(e)
    BY InLog
  <2>2. j \in 1 .. Len(u) /\ u[j] = L!First(e)
    BY <1>1, <2>1
  <2> QED BY <1>1, <2>2, InLog
<1>3. Cardinality(L!Wide(t)) <= Cardinality(L!Wide(u))
  BY <1>2, WideIs, FS_Subset
<1>4. /\ Cardinality(L!Wide(t)) \in Nat /\ Cardinality(L!Wide(u)) \in Nat /\ SURPLUS \in Nat
      /\ L!Surplus(t) = SURPLUS * Cardinality(L!Wide(t))
      /\ L!Surplus(u) = SURPLUS * Cardinality(L!Wide(u))
  BY WideIs, SurplusConstants DEF L!Surplus
<1>5. \A s, a, b \in Nat : a <= b => s * a <= s * b
  OBVIOUS
<1> QED BY <1>3, <1>4, <1>5 DEF u

\* A piece leaves what lies before the offset known, if it is a stamp or of an entry that is
\* known, or if the offset does not lie beyond the end.
LEMMA AppendKeeps ==
  ASSUME NEW t \in Seq(Pieces), NEW piece \in Pieces, NEW o \in Nat \cup {Unset}, NEW known,
         Covers(t, o, known),
         o # Unset /\ o = Len(t) + 1 /\ L!Surplus(t) <= 1 => piece[2] = 0 \/ piece[1] \in known
  PROVE  Covers(Append(t, piece), o, known)
<1> DEFINE u == Append(t, piece)
<1>1. /\ u \in Seq(Pieces) /\ Len(u) = Len(t) + 1 /\ u[Len(t) + 1] = piece
      /\ \A j \in 1 .. Len(t) : u[j] = t[j]
  BY Appended
<1>2. L!Surplus(t) <= L!Surplus(u)
  BY SurplusGrows
<1> HIDE DEF u
<1>3. /\ L!Surplus(t) \in Nat /\ L!Size(t) = Len(t) + L!Surplus(t) /\ Len(t) \in Nat
      /\ L!Surplus(u) \in Nat /\ L!Size(u) = Len(u) + L!Surplus(u)
  BY <1>1, SizeIs
<1> SUFFICES ASSUME o # Unset, L!Surplus(u) <= 1
             PROVE  /\ o <= L!Size(u)
                    /\ \A j \in 1 .. Len(u) : j <= o => u[j][1] \in known \/ u[j][2] = 0
  BY DEF Covers, u
<1>4. L!Surplus(t) <= 1 /\ o \in Nat
  BY <1>2, <1>3
<1>5. o <= L!Size(t) /\ \A j \in 1 .. Len(t) : j <= o => t[j][1] \in known \/ t[j][2] = 0
  BY <1>4 DEF Covers
<1>6. o <= L!Size(u) /\ o <= Len(t) + 1
  BY <1>1, <1>2, <1>3, <1>4, <1>5
<1>7. ASSUME NEW j \in 1 .. Len(u), j <= o PROVE u[j][1] \in known \/ u[j][2] = 0
  <2>1. CASE j \in 1 .. Len(t)
    BY <2>1, <1>1, <1>5, <1>7
  <2>2. CASE j = Len(t) + 1
    <3>1. o = Len(t) + 1
      BY <2>2, <1>3, <1>4, <1>6, <1>7
    <3> QED BY <3>1, <2>2, <1>1, <1>4
  <2> QED BY <2>1, <2>2, <1>1, <1>3
<1> QED BY <1>6, <1>7

LEMMA AppendBehind ==
  ASSUME NEW t, IsLog(t), NEW piece \in Pieces, NEW o, NEW reported, piece[1] \notin reported,
         Behind(t, o, reported)
  PROVE  Behind(Append(t, piece), o, reported)
<1>1. t \in Seq(Pieces) /\ Len(t) \in Nat
  BY LenProperties DEF IsLog
<1>2. /\ Len(Append(t, piece)) = Len(t) + 1
      /\ Append(t, piece)[Len(t) + 1] = piece
      /\ \A j \in 1 .. Len(t) : Append(t, piece)[j] = t[j]
  BY <1>1, Appended
<1> SUFFICES ASSUME NEW e \in reported, NEW j \in 1 .. Len(t) + 1, Append(t, piece)[j][1] = e
             PROVE  /\ \E k \in 1 .. Len(t) + 1 : Append(t, piece)[k] = L!Second(e)
                    /\ o # Unset => j <= o
  BY <1>2 DEF Behind
<1>3. j \in 1 .. Len(t)
  BY <1>1, <1>2
<1>4. t[j][1] = e
  BY <1>2, <1>3
<1>5. PICK k \in 1 .. Len(t) : t[k] = L!Second(e)
  BY <1>3, <1>4 DEF Behind
<1>6. k \in 1 .. Len(t) + 1 /\ Append(t, piece)[k] = L!Second(e)
  BY <1>1, <1>2, <1>5
<1> QED BY <1>3, <1>4, <1>6 DEF Behind

\* A stamp, or a first half, that is not in the log makes a log of it again.
LEMMA AppendsPiece ==
  ASSUME NEW t, IsLog(t), NEW piece \in Pieces, piece[2] # 2, \A j \in 1 .. Len(t) : t[j] # piece
  PROVE  IsLog(Append(t, piece))
<1>1. t \in Seq(Pieces) /\ Len(t) \in Nat
  BY LenProperties DEF IsLog
<1> DEFINE u == Append(t, piece)
<1>3. /\ u \in Seq(Pieces) /\ Len(u) = Len(t) + 1 /\ u[Len(t) + 1] = piece
      /\ \A j \in 1 .. Len(t) : u[j] = t[j]
  BY <1>1, Appended
<1> HIDE DEF u
<1>4. ASSUME NEW j \in 1 .. Len(u), NEW k \in 1 .. Len(u), u[j] = u[k] PROVE j = k
  <2>1. CASE j \in 1 .. Len(t) /\ k \in 1 .. Len(t)
    BY <2>1, <1>3, <1>4 DEF IsLog
  <2>2. CASE j = Len(t) + 1 /\ k = Len(t) + 1
    BY <2>2
  <2>3. CASE j \in 1 .. Len(t) /\ k = Len(t) + 1
    BY <2>3, <1>3, <1>4
  <2>4. CASE j = Len(t) + 1 /\ k \in 1 .. Len(t)
    BY <2>4, <1>3, <1>4
  <2> QED BY <2>1, <2>2, <2>3, <2>4, <1>1, <1>3
<1>5. ASSUME NEW j \in 1 .. Len(u), u[j][2] = 2 PROVE j > 1 /\ u[j - 1] = L!First(u[j][1])
  <2>1. j \in 1 .. Len(t)
    BY <1>1, <1>3, <1>5
  <2>2. t[j][2] = 2 /\ u[j] = t[j]
    BY <2>1, <1>3, <1>5
  <2>3. j > 1 /\ t[j - 1] = L!First(t[j][1])
    BY <2>1, <2>2 DEF IsLog
  <2>4. j - 1 \in 1 .. Len(t)
    BY <2>1, <2>3, <1>1
  <2> QED BY <2>2, <2>3, <2>4, <1>3
<1> QED BY <1>3, <1>4, <1>5 DEF IsLog, u

\* So does the second half after the first, and what was whole is not begun anew.
LEMMA FinishesLine ==
  ASSUME NEW t, IsLog(t), Len(t) > 0, t[Len(t)][2] = 1
  PROVE  LET half == L!Second(t[Len(t)][1]) IN
         /\ half \in Pieces /\ half[1] = t[Len(t)][1] /\ IsLog(Append(t, half))
         /\ \A j \in 1 .. Len(t) : t[j] # half
<1> DEFINE e == t[Len(t)][1]
           half == L!Second(e)
<1>1. t \in Seq(Pieces) /\ Len(t) \in Nat /\ Len(t) \in 1 .. Len(t)
  BY LenProperties DEF IsLog
<1>2. t[Len(t)] \in Pieces
  BY <1>1, ElementOfSeq
<1>3. e \in Attempts \cup Noise \cup Execs /\ t[Len(t)] = L!First(e)
  BY <1>2 DEF Pieces, L!First
<1>4. half \in Pieces /\ half[1] = e /\ half[2] = 2
  BY <1>3 DEF L!Second, Pieces
<1>5. \A j \in 1 .. Len(t) : t[j] # half
  <2> SUFFICES ASSUME NEW j \in 1 .. Len(t), t[j] = half PROVE FALSE
    OBVIOUS
  <2>1. t[j][2] = 2 /\ t[j][1] = e
    BY <1>4
  <2>2. j > 1 /\ t[j - 1] = L!First(e)
    BY <2>1 DEF IsLog
  <2>3. j - 1 \in 1 .. Len(t)
    BY <2>2, <1>1
  <2>4. j - 1 = Len(t)
    BY <2>2, <2>3, <1>1, <1>3 DEF IsLog
  <2> QED BY <2>4, <1>1
<1> DEFINE u == Append(t, half)
<1>6. /\ u \in Seq(Pieces) /\ Len(u) = Len(t) + 1 /\ u[Len(t) + 1] = half
      /\ \A j \in 1 .. Len(t) : u[j] = t[j]
  BY <1>1, <1>4, Appended
<1> HIDE DEF u
<1>7. ASSUME NEW j \in 1 .. Len(u), NEW k \in 1 .. Len(u), u[j] = u[k] PROVE j = k
  <2>1. CASE j \in 1 .. Len(t) /\ k \in 1 .. Len(t)
    BY <2>1, <1>6, <1>7 DEF IsLog
  <2>2. CASE j = Len(t) + 1 /\ k = Len(t) + 1
    BY <2>2
  <2>3. CASE j \in 1 .. Len(t) /\ k = Len(t) + 1
    BY <2>3, <1>5, <1>6, <1>7
  <2>4. CASE j = Len(t) + 1 /\ k \in 1 .. Len(t)
    BY <2>4, <1>5, <1>6, <1>7
  <2> QED BY <2>1, <2>2, <2>3, <2>4, <1>1, <1>6
<1>8. ASSUME NEW j \in 1 .. Len(u), u[j][2] = 2 PROVE j > 1 /\ u[j - 1] = L!First(u[j][1])
  <2>1. CASE j = Len(t) + 1
    <3>1. u[j][1] = e /\ j - 1 = Len(t) /\ j > 1
      BY <2>1, <1>1, <1>4, <1>6
    <3> QED BY <3>1, <1>1, <1>3, <1>6
  <2>2. CASE j \in 1 .. Len(t)
    <3>1. t[j][2] = 2 /\ u[j] = t[j]
      BY <2>2, <1>6, <1>8
    <3>2. j > 1 /\ t[j - 1] = L!First(t[j][1])
      BY <2>2, <3>1 DEF IsLog
    <3>3. j - 1 \in 1 .. Len(t)
      BY <2>2, <3>2, <1>1
    <3> QED BY <3>1, <3>2, <3>3, <1>6
  <2> QED BY <2>1, <2>2, <1>1, <1>6
<1> QED BY <1>4, <1>5, <1>6, <1>7, <1>8 DEF IsLog, u

-----------------------------------------------------------------------------
(* The invariant, step by step.                                            *)

LEMMA LogsStart == ASSUME L!Init PROVE LogsInv
<1> USE LogsAre DEF L!Init
<1>0. text["auth"] = <<>> /\ text["audit"] = <<>> /\ Len(<<>>) = 0
  OBVIOUS
<1>1. IsLog(<<>>)
  BY <1>0 DEF IsLog
<1>2. LogsTypes
  BY <1>0, <1>1 DEF LogsTypes
<1>3. Begun
  BY <1>0 DEF Begun
<1>4. Reported
  BY <1>0 DEF Reported, Behind
<1>5. Covered
  BY DEF Covered, Covers
<1>6. Remembered /\ OneSource
  BY DEF Remembered, OneSource
<1>7. L!NewsOnce /\ L!MissedIsExplained
  BY DEF L!NewsOnce, L!MissedIsExplained
<1> QED BY <1>2, <1>3, <1>4, <1>5, <1>6, <1>7 DEF LogsInv

\* What every read does, whatever of it is reported.
LEMMA LogIsRead ==
  ASSUME LogsInv, NEW l \in L!Logs, NEW extra, L!Passes(l, extra), UNCHANGED text
  PROVE  /\ offset' = [k \in L!Logs |-> IF k = l THEN L!Size(text[l]) ELSE offset[k]]
         /\ offset' \in [L!Logs -> Nat \cup {Unset}]
         /\ partial' = [k \in L!Logs |-> partial'[k]]
         /\ Covered'
         /\ passed \subseteq passed' /\ excused \subseteq excused' /\ blurred \subseteq blurred'
         /\ passed' \ passed \subseteq L!Complete(text[l])
         /\ passed' \ passed \subseteq
              L!Fresh(text[l], offset[l]) \cup extra \cup excused' \cup blurred'
<1> USE DEF LogsInv, LogsTypes
<1>1. IsLog(text[l]) /\ text[l] \in Seq(Pieces)
  BY DEF IsLog
<1>2. L!Size(text[l]) \in Nat
  BY <1>1, SizeIs
<1>3. /\ offset' = [k \in L!Logs |-> IF k = l THEN L!Size(text[l]) ELSE offset[k]]
      /\ offset' \in [L!Logs -> Nat \cup {Unset}]
  BY <1>2 DEF L!Passes
<1>4. /\ partial' = [k \in L!Logs |-> partial'[k]]
      /\ partial'[l] = L!Entries(text[l]) \ L!Complete(text[l])
      /\ \A k \in L!Logs \ {l} : partial'[k] = partial[k]
  BY DEF L!Passes
<1>5. /\ passed' = passed \cup (L!Complete(text[l]) \ passed)
      /\ excused \subseteq excused' /\ blurred \subseteq blurred'
      /\ rotated' = rotated \ {l}
  BY DEF L!Passes
<1>6. Covered'
  <2> SUFFICES ASSUME NEW k \in L!Logs, k \notin rotated'
               PROVE  Covers(text[k], offset'[k], passed' \cup partial'[k])
    BY DEF Covered
  <2>1. CASE k = l
    <3>1. L!Entries(text[l]) \subseteq passed' \cup partial'[l]
      BY <1>4, <1>5
    <3>2. offset'[k] = L!Size(text[l])
      BY <1>3, <2>1
    <3> QED BY <3>1, <3>2, <2>1, <1>1, ReadCovers
  <2>2. CASE k # l
    <3>1. Covers(text[k], offset[k], passed \cup partial[k])
      BY <2>2, <1>5 DEF Covered
    <3>2. offset'[k] = offset[k] /\ partial'[k] = partial[k] /\ passed \subseteq passed'
      BY <2>2, <1>3, <1>4, <1>5
    <3> QED BY <3>1, <3>2 DEF Covers
  <2> QED BY <2>1, <2>2
<1>7. ASSUME NEW e \in passed', e \notin passed, e \notin extra, e \notin excused',
             e \notin blurred'
      PROVE  e \in L!Fresh(text[l], offset[l])
  <2> DEFINE new == L!Complete(text[l]) \ passed
  <2>1. e \in new
    BY <1>5, <1>7
  <2>2. offset[l] # Unset /\ l \notin rotated /\ e \notin partial[l]
    BY <2>1, <1>7 DEF L!Passes
  <2>3. L!Surplus(text[l]) <= 1
    BY <2>1, <1>7 DEF L!Passes
  <2>4. Covers(text[l], offset[l], passed \cup partial[l])
    BY <2>2 DEF Covered
  <2>5. offset[l] \in Nat
    BY <2>2
  <2>6. e \in L!Complete(text[l]) /\ e \notin passed \cup partial[l]
    BY <2>1, <2>2
  <2> HIDE DEF LogsInv, LogsTypes, new
  <2> QED BY <2>2, <2>3, <2>4, <2>5, <2>6, <1>1, NothingMissed
<1> QED BY <1>3, <1>4, <1>5, <1>6, <1>7

\* readAccess: what it reports is news, and lies behind the offset afterwards.
LEMMA AccessIsRead == ASSUME LogsInv, L!ReadAccess PROVE LogsInv'
<1> USE LogsAre DEF L!ReadAccess, L!host
<1> DEFINE t == text["auth"]
           o == offset["auth"]
           news == L!Fresh(t, o) \cap Attempts
<1>0. /\ LogsTypes /\ Begun /\ Reported /\ Covered /\ Remembered /\ OneSource
      /\ L!NewsOnce /\ L!MissedIsExplained
  BY DEF LogsInv
<1>1. /\ IsLog(t) /\ o \in Nat \cup {Unset} /\ Behind(t, o, byLog)
  BY <1>0 DEF LogsTypes, Reported
<1>2. /\ L!Fresh(t, o) \cap byLog = {}
      /\ Behind(t, L!Size(t), byLog \cup L!Fresh(t, o))
      /\ \A e \in L!Fresh(t, o) : \E j \in 1 .. Len(t) : t[j][1] = e
  BY <1>1, ReadsBehind
<1>3. /\ offset' = [k \in L!Logs |-> IF k = "auth" THEN L!Size(t) ELSE offset[k]]
      /\ offset' \in [L!Logs -> Nat \cup {Unset}]
      /\ partial' = [k \in L!Logs |-> partial'[k]]
      /\ Covered'
      /\ passed \subseteq passed' /\ excused \subseteq excused' /\ blurred \subseteq blurred'
      /\ passed' \ passed \subseteq L!Complete(t)
      /\ passed' \ passed \subseteq L!Fresh(t, o) \cup {} \cup excused' \cup blurred'
  BY LogIsRead DEF L!ReadAccess
<1> HIDE DEF t, o
<1>4. byLog' = byLog \cup news /\ twice' = twice
  BY <1>2 DEF t, o
<1>5. LogsTypes'
  BY <1>0, <1>3 DEF LogsTypes
<1>6. Begun'
  <2>1. L!Fresh(t, o) \subseteq written
    BY <1>0, <1>2 DEF Begun, t
  <2> QED BY <2>1, <1>0, <1>4 DEF Begun
<1>7. Reported'
  <2>1. Behind(text'["auth"], offset'["auth"], byLog')
    <3>1. offset'["auth"] = L!Size(t) /\ text'["auth"] = t
      BY <1>3 DEF t
    <3>2. byLog' \subseteq byLog \cup L!Fresh(t, o)
      BY <1>4
    <3> QED BY <3>1, <3>2, <1>2 DEF Behind
  <2>2. Behind(text'["audit"], offset'["audit"], byAudit')
    <3>1. offset'["audit"] = offset["audit"]
      BY <1>3
    <3> QED BY <3>1, <1>0 DEF Reported
  <2> QED BY <2>1, <2>2 DEF Reported
<1>8. Remembered'
  BY <1>0 DEF Remembered, LogsTypes
<1>9. OneSource'
  BY <1>0 DEF OneSource
<1>10. L!NewsOnce'
  BY <1>0, <1>4 DEF L!NewsOnce
<1>11. L!MissedIsExplained'
  <2>1. L!Complete(t) \subseteq Attempts \cup Noise
    <3> SUFFICES ASSUME NEW e \in L!Complete(t) PROVE e \in Attempts \cup Noise
      OBVIOUS
    <3>1. t \in Seq(Pieces)
      BY <1>1 DEF IsLog
    <3>2. PICK j \in 1 .. Len(t) : t[j] = L!First(e)
      BY <3>1, InLog DEF L!Complete
    <3>3. t[j][1] = e
      BY <3>2 DEF L!First
    <3> QED BY <3>3, <1>0 DEF Begun, t
  <2> QED BY <2>1, <1>0, <1>3, <1>4 DEF L!MissedIsExplained
<1> QED BY <1>3, <1>5, <1>6, <1>7, <1>8, <1>9, <1>10, <1>11 DEF LogsInv

\* readAudit: the same, of the sessions just read; the sampler has reported nothing.
LEMMA AuditIsRead == ASSUME LogsInv, L!ReadAudit PROVE LogsInv'
<1> USE LogsAre DEF L!ReadAudit, L!host
<1> DEFINE t == text["audit"]
           o == offset["audit"]
           news == L!Fresh(t, o) \cap L!Known
<1>0. /\ LogsTypes /\ Begun /\ Reported /\ Covered /\ Remembered /\ OneSource
      /\ L!NewsOnce /\ L!MissedIsExplained
  BY DEF LogsInv
<1>1. /\ IsLog(t) /\ o \in Nat \cup {Unset} /\ Behind(t, o, byAudit)
  BY <1>0 DEF LogsTypes, Reported
<1>2. /\ L!Fresh(t, o) \cap byAudit = {}
      /\ Behind(t, L!Size(t), byAudit \cup L!Fresh(t, o))
      /\ \A e \in L!Fresh(t, o) : \E j \in 1 .. Len(t) : t[j][1] = e
  BY <1>1, ReadsBehind
<1> DEFINE extra == Execs \ L!Known
<1>3. /\ offset' = [k \in L!Logs |-> IF k = "audit" THEN L!Size(t) ELSE offset[k]]
      /\ offset' \in [L!Logs -> Nat \cup {Unset}]
      /\ partial' = [k \in L!Logs |-> partial'[k]]
      /\ Covered'
      /\ passed \subseteq passed' /\ excused \subseteq excused' /\ blurred \subseteq blurred'
      /\ passed' \ passed \subseteq L!Complete(t)
      /\ passed' \ passed \subseteq L!Fresh(t, o) \cup extra \cup excused' \cup blurred'
  BY LogIsRead DEF L!ReadAudit
<1> HIDE DEF t, o
<1>4. byAudit' = byAudit \cup news /\ twice' = twice
  BY <1>2 DEF t, o
<1>5. LogsTypes'
  BY <1>0, <1>3 DEF LogsTypes
<1>6. Begun'
  <2>1. L!Fresh(t, o) \subseteq started
    BY <1>0, <1>2 DEF Begun, t
  <2> QED BY <2>1, <1>0, <1>4 DEF Begun
<1>7. Reported'
  <2>1. Behind(text'["audit"], offset'["audit"], byAudit')
    <3>1. offset'["audit"] = L!Size(t) /\ text'["audit"] = t
      BY <1>3 DEF t
    <3>2. byAudit' \subseteq byAudit \cup L!Fresh(t, o)
      BY <1>4
    <3> QED BY <3>1, <3>2, <1>2 DEF Behind
  <2>2. Behind(text'["auth"], offset'["auth"], byLog')
    <3>1. offset'["auth"] = offset["auth"]
      BY <1>3
    <3> QED BY <3>1, <1>0 DEF Reported
  <2> QED BY <2>1, <2>2 DEF Reported
<1>8. Remembered'
  BY <1>0 DEF Remembered
<1>9. OneSource'
  BY <1>0 DEF OneSource
<1>10. L!NewsOnce'
  BY <1>0, <1>4 DEF L!NewsOnce, OneSource
<1>11. L!MissedIsExplained'
  <2>1. L!Complete(t) \subseteq Execs
    <3> SUFFICES ASSUME NEW e \in L!Complete(t) PROVE e \in Execs
      OBVIOUS
    <3>1. t \in Seq(Pieces)
      BY <1>1 DEF IsLog
    <3>2. PICK j \in 1 .. Len(t) : t[j] = L!First(e)
      BY <3>1, InLog DEF L!Complete
    <3>3. t[j][1] = e
      BY <3>2 DEF L!First
    <3> QED BY <3>3, <1>0 DEF Begun, t
  <2>2. passed' \ passed \subseteq news \cup excused' \cup blurred'
    <3>1. ASSUME NEW e \in extra, e \in L!Complete(t), e \notin passed PROVE e \in excused'
      BY <3>1 DEF L!Passes, t
    <3> QED BY <3>1, <2>1, <1>3
  <2> QED BY <2>1, <2>2, <1>0, <1>3, <1>4 DEF L!MissedIsExplained
<1> QED BY <1>3, <1>5, <1>6, <1>7, <1>8, <1>9, <1>10, <1>11 DEF LogsInv

\* A collect() that reads no log of auditd: none is on, or the processes are looked at.
LEMMA CommandsAreSampled ==
  ASSUME LogsInv, L!ReadAccessFails \/ L!NoCommands \/ L!Sample \/ L!SampleFails
  PROVE  LogsInv'
<1>0. /\ LogsTypes /\ Begun /\ Reported /\ Covered /\ Remembered /\ OneSource
      /\ L!NewsOnce /\ L!MissedIsExplained
  BY DEF LogsInv
<1>1. UNCHANGED <<text, sessions, alive, started, written, readable, offset, byLog, byAudit,
                  passed, excused, blurred, partial, rotated, switched>>
  BY DEF L!ReadAccessFails, L!NoCommands, L!Sample, L!SampleFails, L!host, L!reading, L!reports
<1>2. LogsTypes' /\ Reported' /\ Covered'
  BY <1>0, <1>1 DEF LogsTypes, Reported, Covered
<1>3. /\ bySample' \subseteq bySample \cup alive
      /\ Remembered' /\ OneSource' /\ L!NewsOnce'
  <2>1. CASE L!ReadAccessFails \/ L!NoCommands
    <3>1. UNCHANGED <<bySample, twice, seen, again>> /\ snap' \in {sessions, Unset}
      BY <2>1 DEF L!ReadAccessFails, L!NoCommands, L!reports
    <3>2. Remembered'
      BY <3>1, <1>0, <1>1 DEF Remembered, LogsTypes
    <3> QED BY <3>1, <3>2, <1>0, <1>1 DEF OneSource, L!NewsOnce
  <2>2. CASE L!Sample
    <3> DEFINE news == (alive \cap L!Known) \ seen
    <3>1. /\ ~readable /\ snap # Unset /\ snap' = Unset /\ again' = again
          /\ bySample' = bySample \cup news /\ twice' = twice \cup (news \cap bySample)
          /\ seen' = alive \cap L!Known
      BY <2>2 DEF L!Sample, L!Diff
    <3>2. ASSUME NEW e \in bySample', e \in alive PROVE e \in seen' \cup again
      <4>1. CASE e \in news
        BY <4>1, <3>1
      <4>2. CASE e \in bySample
        <5>1. OwnerOf[e] \in snap /\ e \in Execs
          BY <4>2, <3>1, <3>2, <1>0 DEF Remembered, LogsTypes
        <5> QED BY <5>1, <3>1, <3>2 DEF L!Known
      <4> QED BY <4>1, <4>2, <3>1
    <3>3. Remembered'
      BY <3>1, <3>2, <1>1 DEF Remembered
    <3>4. news \cap bySample \subseteq again
      BY <1>0 DEF Remembered
    <3> QED BY <3>1, <3>3, <3>4, <1>0, <1>1 DEF OneSource, L!NewsOnce
  <2>3. CASE L!SampleFails
    <3>1. /\ ~readable /\ snap' = Unset /\ again' = again \cup alive
          /\ bySample' = bySample /\ twice' = twice
      BY <2>3 DEF L!SampleFails, L!Diff
    <3> QED BY <3>1, <1>0, <1>1 DEF Remembered, OneSource, L!NewsOnce
  <2> QED BY <2>1, <2>2, <2>3
<1>4. Begun'
  <2>1. bySample' \subseteq started
    BY <1>0, <1>3 DEF Begun, LogsTypes
  <2> QED BY <2>1, <1>0, <1>1 DEF Begun
<1>5. L!MissedIsExplained'
  BY <1>0, <1>1 DEF L!MissedIsExplained
<1> QED BY <1>2, <1>3, <1>4, <1>5 DEF LogsInv

\* A new process of the agent knows no offset.
LEMMA AgentIsReplaced == ASSUME LogsInv, L!Restart PROVE LogsInv'
<1> USE LogsAre DEF L!Restart, L!host, L!reports, L!reading
<1>0. /\ LogsTypes /\ Begun /\ Reported /\ Covered /\ Remembered /\ OneSource
      /\ L!NewsOnce /\ L!MissedIsExplained
  BY DEF LogsInv
<1>1. offset' = [l \in L!Logs |-> Unset]
  OBVIOUS
<1>2. LogsTypes'
  BY <1>0 DEF LogsTypes
<1>3. Begun'
  BY <1>0 DEF Begun
<1>4. Reported'
  BY <1>0, <1>1 DEF Reported, Behind
<1>5. Covered'
  BY <1>1 DEF Covered, Covers
<1>6. Remembered' /\ OneSource'
  BY <1>0 DEF Remembered, OneSource
<1>7. L!NewsOnce' /\ L!MissedIsExplained'
  BY <1>0 DEF L!NewsOnce, L!MissedIsExplained
<1> QED BY <1>2, <1>3, <1>4, <1>5, <1>6, <1>7 DEF LogsInv

\* A log that grows by what has not been reported from it.
LEMMA LogGrows ==
  ASSUME LogsInv, NEW l \in L!Logs, NEW u,
         text' = [text EXCEPT ![l] = u], IsLog(u),
         \A o, reported :
           /\ Behind(text[l], o, reported)
           /\ reported = IF l = "auth" THEN byLog ELSE byAudit
           => Behind(u, o, reported),
         Covers(text[l], offset[l], passed \cup partial[l]) =>
           Covers(u, offset[l], passed \cup partial[l]),
         UNCHANGED <<offset, passed, partial, rotated, byLog, byAudit>>
  PROVE  /\ text' = [k \in L!Logs |-> text'[k]]
         /\ \A k \in L!Logs : IsLog(text'[k])
         /\ Reported' /\ Covered'
<1> USE LogsAre
<1>0. LogsTypes /\ Reported /\ Covered
  BY DEF LogsInv
<1>1. /\ text' = [k \in L!Logs |-> text'[k]]
      /\ text'[l] = u
      /\ \A k \in L!Logs \ {l} : text'[k] = text[k]
  BY <1>0 DEF LogsTypes
<1>2. \A k \in L!Logs : IsLog(text'[k])
  BY <1>0, <1>1 DEF LogsTypes
<1>4. Reported'
  <2>1. CASE l = "auth"
    <3>1. Behind(text["auth"], offset["auth"], byLog)
      BY <1>0 DEF Reported
    <3>2. Behind(text'["auth"], offset["auth"], byLog)
      BY <3>1, <2>1, <1>1
    <3> QED BY <3>2, <2>1, <1>0, <1>1 DEF Reported
  <2>2. CASE l = "audit"
    <3>1. Behind(text["audit"], offset["audit"], byAudit)
      BY <1>0 DEF Reported
    <3>2. Behind(text'["audit"], offset["audit"], byAudit)
      BY <3>1, <2>2, <1>1
    <3> QED BY <3>2, <2>2, <1>0, <1>1 DEF Reported
  <2> QED BY <2>1, <2>2
<1>5. Covered'
  <2> SUFFICES ASSUME NEW k \in L!Logs, k \notin rotated
               PROVE  Covers(text'[k], offset[k], passed \cup partial[k])
    BY DEF Covered
  <2>1. Covers(text[k], offset[k], passed \cup partial[k])
    BY <1>0 DEF Covered
  <2>2. CASE k = l
    BY <2>1, <2>2, <1>1
  <2>3. CASE k # l
    BY <2>1, <2>3, <1>1
  <2> QED BY <2>2, <2>3
<1> QED BY <1>1, <1>2, <1>4, <1>5

\* A line begins, of an entry that is in no log yet.
LEMMA LineBegins ==
  ASSUME LogsInv, NEW e \in Attempts \cup Noise, L!Begin(e)
  PROVE  LogsInv'
<1> USE LogsAre DEF L!Begin, L!agent, L!reports, L!reading
<1>0. /\ LogsTypes /\ Begun /\ Remembered /\ OneSource /\ L!NewsOnce /\ L!MissedIsExplained
  BY DEF LogsInv
<1> DEFINE t == text["auth"]
           o == offset["auth"]
           half == Append(t, L!Stamp(e))
           u == Append(half, L!First(e))
<1>1. /\ IsLog(t) /\ t \in Seq(Pieces) /\ Len(t) \in Nat
      /\ \A j \in 1 .. Len(t) : t[j][1] # e
  <2>1. IsLog(t) /\ \A j \in 1 .. Len(t) : t[j][1] # e
    BY <1>0 DEF LogsTypes, Begun
  <2> QED BY <2>1, LenProperties DEF IsLog
<1>2. /\ L!Stamp(e) \in Pieces /\ L!Stamp(e)[1] = e /\ L!Stamp(e)[2] = 0
      /\ L!First(e) \in Pieces /\ L!First(e)[1] = e /\ L!First(e)[2] = 1
  BY DEF L!Stamp, L!First, Pieces
<1>3. /\ half \in Seq(Pieces) /\ Len(half) = Len(t) + 1 /\ half[Len(t) + 1] = L!Stamp(e)
      /\ \A j \in 1 .. Len(t) : half[j] = t[j]
      /\ \A next : t \o <<L!Stamp(e), next>> = Append(half, next)
  BY <1>1, <1>2, Appended
<1>4. IsLog(half)
  BY <1>1, <1>2, AppendsPiece
<1>5. \A j \in 1 .. Len(half) : half[j] # L!First(e)
  <2> SUFFICES ASSUME NEW j \in 1 .. Len(half), half[j] = L!First(e) PROVE FALSE
    OBVIOUS
  <2>1. CASE j \in 1 .. Len(t)
    BY <2>1, <1>1, <1>2, <1>3
  <2>2. CASE j = Len(t) + 1
    BY <2>2, <1>2, <1>3
  <2> QED BY <2>1, <2>2, <1>1, <1>3
<1> HIDE DEF half
<1>6. IsLog(u)
  BY <1>2, <1>4, <1>5, AppendsPiece
<1>7. /\ u \in Seq(Pieces) /\ Len(u) = Len(half) + 1 /\ u[Len(half) + 1] = L!First(e)
      /\ \A j \in 1 .. Len(half) : u[j] = half[j]
  BY <1>2, <1>3, Appended
<1> HIDE DEF u
<1>8. text' = [text EXCEPT !["auth"] = u] /\ UNCHANGED <<offset, passed, partial, rotated, byLog, byAudit>>
  <2>1. t \o <<L!Stamp(e), L!First(e)>> = u
    BY <1>3 DEF u
  <2> QED BY <2>1 DEF L!Written
<1>9. ASSUME NEW p, Behind(t, p, byLog) PROVE Behind(u, p, byLog)
  <2>1. e \notin byLog
    BY <1>0 DEF Begun
  <2>2. Behind(half, p, byLog)
    BY <2>1, <1>1, <1>2, <1>9, AppendBehind DEF half
  <2> QED BY <2>1, <2>2, <1>2, <1>4, AppendBehind DEF u
<1>10. ASSUME NEW known, Covers(t, o, known) PROVE Covers(u, o, known)
  <2>0. o \in Nat \cup {Unset}
    BY <1>0 DEF LogsTypes
  <2>1. Covers(half, o, known)
    BY <2>0, <1>1, <1>2, <1>10, AppendKeeps DEF half
  <2>2. L!Surplus(t) <= L!Surplus(half)
    BY <1>1, <1>2, SurplusGrows DEF half
  <2>3. ASSUME o # Unset, o = Len(half) + 1, L!Surplus(half) <= 1 PROVE FALSE
    <3>1. /\ L!Surplus(t) \in Nat /\ L!Size(t) = Len(t) + L!Surplus(t)
          /\ L!Surplus(half) \in Nat
      BY <1>1, <1>3, SizeIs
    <3>2. L!Surplus(t) <= 1
      BY <2>2, <2>3, <3>1
    <3>3. o <= L!Size(t)
      BY <3>2, <2>3, <1>10 DEF Covers
    <3> HIDE DEF o
    <3> QED BY <3>1, <3>2, <3>3, <2>3, <1>1, <1>3
  <2> HIDE DEF o
  <2> QED BY <2>0, <2>1, <2>3, <1>2, <1>3, AppendKeeps DEF u
<1> HIDE DEF t, o
<1>11. /\ text' = [k \in L!Logs |-> text'[k]] /\ \A k \in L!Logs : IsLog(text'[k])
       /\ Reported' /\ Covered'
  <2> USE DEF t, o
  <2>1. \A p, reported :
           /\ Behind(text["auth"], p, reported)
           /\ reported = IF "auth" = "auth" THEN byLog ELSE byAudit
           => Behind(u, p, reported)
    BY <1>9
  <2>2. Covers(text["auth"], offset["auth"], passed \cup partial["auth"]) =>
           Covers(u, offset["auth"], passed \cup partial["auth"])
    BY <1>10
  <2> QED BY <2>1, <2>2, <1>6, <1>8, LogGrows
<1>12. LogsTypes'
  BY <1>0, <1>11 DEF LogsTypes
<1>13. Begun'
  <2>1. text'["auth"] = u /\ text'["audit"] = text["audit"]
    BY <1>0, <1>8 DEF LogsTypes
  <2>2. ASSUME NEW j \in 1 .. Len(u) PROVE u[j][1] \in written' \cap (Attempts \cup Noise)
    <3>1. CASE j \in 1 .. Len(t)
      <4>1. u[j] = t[j]
        BY <3>1, <1>1, <1>3, <1>7
      <4> QED BY <4>1, <3>1, <1>0 DEF Begun, t
    <3>2. CASE j = Len(t) + 1
      <4>1. u[j] = L!Stamp(e)
        BY <3>2, <1>1, <1>3, <1>7
      <4> QED BY <4>1, <1>2
    <3>3. CASE j = Len(t) + 2
      <4>1. u[j] = L!First(e)
        BY <3>3, <1>1, <1>3, <1>7
      <4> QED BY <4>1, <1>2
    <3> QED BY <3>1, <3>2, <3>3, <1>1, <1>3, <1>7
  <2>3. /\ \A j \in 1 .. Len(text'["audit"]) : text'["audit"][j][1] \in started' \cap Execs
        /\ byLog' \subseteq written' /\ byAudit' \subseteq started' /\ bySample' \subseteq started'
    BY <1>0, <2>1 DEF Begun
  <2> QED BY <2>1, <2>2, <2>3 DEF Begun
<1>14. Remembered' /\ OneSource' /\ L!NewsOnce' /\ L!MissedIsExplained'
  BY <1>0 DEF Remembered, OneSource, L!NewsOnce, L!MissedIsExplained
<1> QED BY <1>11, <1>12, <1>13, <1>14 DEF LogsInv

\* auditd's log holds no line of others, and so no byte too many.
LEMMA AuditIsPlain ==
  ASSUME LogsInv PROVE L!Surplus(text["audit"]) = 0
<1> DEFINE t == text["audit"]
<1>1. t \in Seq(Pieces) /\ \A j \in 1 .. Len(t) : t[j][1] \in Execs
  BY LogsAre DEF LogsInv, LogsTypes, IsLog, Begun
<1>2. L!Wide(t) = {}
  <2> SUFFICES ASSUME NEW e \in Noise, L!First(e) \in L!Range(t) PROVE FALSE
    BY DEF L!Wide
  <2>1. PICK j \in 1 .. Len(t) : t[j] = L!First(e)
    BY <1>1, InLog
  <2>2. e \in Execs
    BY <2>1, <1>1 DEF L!First
  <2> QED BY <2>2, SurplusConstants
<1> QED BY <1>1, <1>2, SizeIs

\* An execution starts, and auditd writes the first half of it.
LEMMA ExecutionStarts ==
  ASSUME LogsInv, NEW e \in Execs, L!Exec(e)
  PROVE  LogsInv'
<1> USE LogsAre DEF L!Exec, L!agent, L!reports, L!reading
<1>0. /\ LogsTypes /\ Begun /\ Remembered /\ OneSource /\ L!NewsOnce /\ L!MissedIsExplained
  BY DEF LogsInv
<1> DEFINE t == text["audit"]
           o == offset["audit"]
           u == Append(t, L!First(e))
<1>1. /\ IsLog(t) /\ t \in Seq(Pieces) /\ Len(t) \in Nat
      /\ \A j \in 1 .. Len(t) : t[j][1] # e
  <2>1. IsLog(t) /\ \A j \in 1 .. Len(t) : t[j][1] # e
    BY <1>0 DEF LogsTypes, Begun
  <2> QED BY <2>1, LenProperties DEF IsLog
<1>2. /\ L!First(e) \in Pieces /\ L!First(e)[1] = e /\ L!First(e)[2] = 1
      /\ IsLog(u) /\ t \o <<L!First(e)>> = u
  <2>1. L!First(e) \in Pieces /\ L!First(e)[1] = e /\ L!First(e)[2] = 1
    BY DEF L!First, Pieces
  <2> QED BY <2>1, <1>1, AppendsPiece, Appended
<1>3. text' = [text EXCEPT !["audit"] = u] /\ UNCHANGED <<offset, passed, partial, rotated, byLog, byAudit>>
  BY <1>2 DEF L!Written
<1>4. e \notin byAudit
  BY <1>0 DEF Begun
<1>5. /\ text' = [k \in L!Logs |-> text'[k]] /\ \A k \in L!Logs : IsLog(text'[k])
      /\ Reported' /\ Covered'
  <2>1. ASSUME NEW p, Behind(t, p, byAudit) PROVE Behind(u, p, byAudit)
    BY <2>1, <1>1, <1>2, <1>4, AppendBehind
  <2>2. ASSUME NEW known, Covers(t, o, known) PROVE Covers(u, o, known)
    <3>1. o \in Nat \cup {Unset}
      BY <1>0 DEF LogsTypes
    <3>2. L!Surplus(t) = 0 /\ L!Size(t) = Len(t)
      BY <1>1, AuditIsPlain, SizeIs
    <3>3. o # Unset /\ o = Len(t) + 1 => FALSE
      BY <3>1, <3>2, <2>2, <1>1 DEF Covers
    <3> QED BY <3>1, <3>3, <2>2, <1>1, <1>2, AppendKeeps
  <2> HIDE DEF u
  <2>3. \A p, reported :
           /\ Behind(text["audit"], p, reported)
           /\ reported = IF "audit" = "auth" THEN byLog ELSE byAudit
           => Behind(u, p, reported)
    BY <2>1
  <2>4. Covers(text["audit"], offset["audit"], passed \cup partial["audit"]) =>
           Covers(u, offset["audit"], passed \cup partial["audit"])
    BY <2>2
  <2> QED BY <2>3, <2>4, <1>2, <1>3, LogGrows
<1>6. LogsTypes'
  BY <1>0, <1>5 DEF LogsTypes
<1>7. Begun'
  <2>1. t \in Seq(Pieces) /\ Len(t) \in Nat
    BY <1>1
  <2>2. text'["audit"] = Append(t, L!First(e)) /\ text'["auth"] = text["auth"]
    BY <1>0, <1>3 DEF LogsTypes
  <2>3. /\ Len(text'["audit"]) = Len(t) + 1 /\ text'["audit"][Len(t) + 1] = L!First(e)
        /\ \A j \in 1 .. Len(t) : text'["audit"][j] = t[j]
    BY <1>2, <2>1, <2>2, Appended
  <2>4. ASSUME NEW j \in 1 .. Len(text'["audit"])
        PROVE  text'["audit"][j][1] \in started' \cap Execs
    <3>1. CASE j \in 1 .. Len(t)
      BY <3>1, <2>3, <1>0 DEF Begun
    <3>2. CASE j = Len(t) + 1
      BY <3>2, <2>3, <1>2
    <3> QED BY <3>1, <3>2, <2>1, <2>3
  <2>5. /\ \A j \in 1 .. Len(text'["auth"]) :
             text'["auth"][j][1] \in written' \cap (Attempts \cup Noise)
        /\ byLog' \subseteq written' /\ byAudit' \subseteq started' /\ bySample' \subseteq started'
    BY <1>0, <2>2 DEF Begun
  <2> QED BY <2>4, <2>5 DEF Begun
<1>8. Remembered'
  <2>1. e \notin bySample
    BY <1>0 DEF Begun
  <2> QED BY <2>1, <1>0 DEF Remembered
<1>9. OneSource' /\ L!NewsOnce' /\ L!MissedIsExplained'
  BY <1>0 DEF OneSource, L!NewsOnce, L!MissedIsExplained
<1> QED BY <1>5, <1>6, <1>7, <1>8, <1>9 DEF LogsInv

\* A line, or an event, is finished: it was not whole, and so was not reported.
LEMMA LineEnds ==
  ASSUME LogsInv, NEW l \in L!Logs, L!WriteRest(l)
  PROVE  LogsInv'
<1> USE LogsAre DEF L!WriteRest, L!agent, L!reports, L!reading
<1>0. /\ LogsTypes /\ Begun /\ Reported /\ Remembered /\ OneSource /\ L!NewsOnce
      /\ L!MissedIsExplained
  BY DEF LogsInv
<1> DEFINE t == text[l]
           e == t[Len(t)][1]
           half == L!Second(e)
<1>1. IsLog(t) /\ t \in Seq(Pieces) /\ Len(t) \in Nat
  BY <1>0, LenProperties DEF LogsTypes, IsLog
<1>2. Len(t) > 0 /\ t[Len(t)][2] = 1
  BY <1>1, EmptySeq
<1>3. /\ half \in Pieces /\ half[1] = e /\ IsLog(Append(t, half))
      /\ \A j \in 1 .. Len(t) : t[j] # half
  BY <1>1, <1>2, FinishesLine
<1>4. text' = [text EXCEPT ![l] = Append(@, half)]
  BY <1>1, <1>3, Appended DEF L!Written
<1>5. e \notin (IF l = "auth" THEN byLog ELSE byAudit)
  <2>1. Len(t) \in 1 .. Len(t)
    BY <1>1, <1>2
  <2>2. Behind(t, offset[l], IF l = "auth" THEN byLog ELSE byAudit)
    BY <1>0 DEF Reported
  <2> QED BY <2>1, <2>2, <1>3 DEF Behind
<1>6. UNCHANGED <<offset, passed, partial, rotated, byLog, byAudit>>
  OBVIOUS
<1>7. /\ text' = [k \in L!Logs |-> text'[k]] /\ \A k \in L!Logs : IsLog(text'[k])
      /\ Reported' /\ Covered'
  <2> DEFINE u == Append(t, half)
  <2>1. ASSUME NEW p, NEW reported, Behind(t, p, reported),
               reported = IF l = "auth" THEN byLog ELSE byAudit
        PROVE  Behind(u, p, reported)
    BY <2>1, <1>1, <1>3, <1>5, AppendBehind
  <2>2. ASSUME NEW known, Covers(t, offset[l], known) PROVE Covers(u, offset[l], known)
    <3>1. offset[l] \in Nat \cup {Unset}
      BY <1>0 DEF LogsTypes
    <3>2. ASSUME offset[l] # Unset, offset[l] = Len(t) + 1, L!Surplus(t) <= 1
          PROVE  half[1] \in known
      <4>1. Len(t) \in 1 .. Len(t) /\ Len(t) <= offset[l] /\ offset[l] # Unset
        BY <3>2, <1>1, <1>2
      <4> QED BY <4>1, <3>2, <2>2, <1>2, <1>3 DEF Covers
    <3> HIDE DEF half
    <3> QED BY <3>1, <3>2, <2>2, <1>1, <1>3, AppendKeeps
  <2>3. IsLog(u) /\ text' = [text EXCEPT ![l] = u]
    BY <1>3, <1>4
  <2> HIDE DEF u
  <2>4. Covers(text[l], offset[l], passed \cup partial[l]) =>
           Covers(u, offset[l], passed \cup partial[l])
    BY <2>2
  <2> QED BY <2>1, <2>3, <2>4, <1>6, LogGrows
<1>8. LogsTypes'
  BY <1>0, <1>7 DEF LogsTypes
<1>9. Begun'
  <2>1. /\ text'[l] = Append(t, half) /\ \A k \in L!Logs \ {l} : text'[k] = text[k]
    BY <1>0, <1>4 DEF LogsTypes
  <2>2. /\ Len(text'[l]) = Len(t) + 1 /\ text'[l][Len(t) + 1] = half
        /\ \A j \in 1 .. Len(t) : text'[l][j] = t[j]
    BY <1>1, <1>3, <2>1, Appended
  <2>3. ASSUME NEW j \in 1 .. Len(text'[l])
        PROVE  \E k \in 1 .. Len(t) : text'[l][j][1] = t[k][1]
    <3>1. CASE j \in 1 .. Len(t)
      BY <3>1, <2>2
    <3>2. CASE j = Len(t) + 1
      <4>1. Len(t) \in 1 .. Len(t)
        BY <1>1, <1>2
      <4> QED BY <4>1, <3>2, <2>2, <1>3
    <3> QED BY <3>1, <3>2, <1>1, <2>2
  <2>4. ASSUME NEW j \in 1 .. Len(text'["auth"])
        PROVE  text'["auth"][j][1] \in written \cap (Attempts \cup Noise)
    <3>1. CASE l = "auth"
      <4>1. PICK k \in 1 .. Len(t) : text'[l][j][1] = t[k][1]
        BY <2>3, <3>1
      <4>2. t[k][1] \in written \cap (Attempts \cup Noise)
        BY <3>1, <1>0 DEF Begun
      <4> QED BY <4>1, <4>2, <3>1
    <3>2. CASE l # "auth"
      <4>1. text'["auth"] = text["auth"]
        BY <3>2, <2>1
      <4> QED BY <4>1, <1>0 DEF Begun
    <3> QED BY <3>1, <3>2
  <2>5. ASSUME NEW j \in 1 .. Len(text'["audit"])
        PROVE  text'["audit"][j][1] \in started \cap Execs
    <3>1. CASE l = "audit"
      <4>1. PICK k \in 1 .. Len(t) : text'[l][j][1] = t[k][1]
        BY <2>3, <3>1
      <4>2. t[k][1] \in started \cap Execs
        BY <3>1, <1>0 DEF Begun
      <4> QED BY <4>1, <4>2, <3>1
    <3>2. CASE l # "audit"
      <4>1. text'["audit"] = text["audit"]
        BY <3>2, <2>1
      <4> QED BY <4>1, <1>0 DEF Begun
    <3> QED BY <3>1, <3>2
  <2> QED BY <2>4, <2>5, <1>0 DEF Begun
<1>10. Remembered' /\ OneSource' /\ L!NewsOnce' /\ L!MissedIsExplained'
  BY <1>0 DEF Remembered, OneSource, L!NewsOnce, L!MissedIsExplained
<1> QED BY <1>7, <1>8, <1>9, <1>10 DEF LogsInv

\* A rotated log is empty, and what was in it does not come again.
LEMMA LogRotates ==
  ASSUME LogsInv, NEW l \in L!Logs, L!Rotate(l)
  PROVE  LogsInv'
<1> USE LogsAre DEF L!Rotate, L!agent, L!reports
<1>0. /\ LogsTypes /\ Begun /\ Reported /\ Covered /\ Remembered /\ OneSource
      /\ L!NewsOnce /\ L!MissedIsExplained
  BY DEF LogsInv
<1>1. /\ text'[l] = <<>> /\ Len(<<>>) = 0 /\ \A k \in L!Logs \ {l} : text'[k] = text[k]
      /\ text' = [k \in L!Logs |-> text'[k]]
  BY <1>0 DEF LogsTypes
<1>2. LogsTypes'
  <2>1. IsLog(<<>>)
    BY <1>1 DEF IsLog
  <2> QED BY <2>1, <1>0, <1>1 DEF LogsTypes
<1>3. Begun'
  <2>1. \A k \in L!Logs : \A j \in 1 .. Len(text'[k]) : k # l /\ text'[k][j] = text[k][j]
    BY <1>1
  <2> QED BY <2>1, <1>0, <1>1 DEF Begun
<1>4. Reported'
  <2>1. \A o, reported : Behind(<<>>, o, reported)
    BY <1>1 DEF Behind
  <2> QED BY <2>1, <1>0, <1>1 DEF Reported
<1>5. Covered'
  BY <1>0, <1>1 DEF Covered
<1>6. Remembered' /\ OneSource' /\ L!NewsOnce' /\ L!MissedIsExplained'
  BY <1>0 DEF Remembered, OneSource, L!NewsOnce, L!MissedIsExplained
<1> QED BY <1>2, <1>3, <1>4, <1>5, <1>6 DEF LogsInv

\* People and processes come and go; auditd's log becomes readable, or ceases to be.
LEMMA MachineLives ==
  ASSUME LogsInv,
         \/ \E e \in Execs : L!Exit(e)
         \/ \E p \in People : L!LogIn(p) \/ L!LogOut(p)
         \/ L!SetReadable
  PROVE  LogsInv'
<1> USE DEF L!Exit, L!LogIn, L!LogOut, L!SetReadable, L!agent, L!reports, L!reading
<1>0. /\ LogsTypes /\ Begun /\ Reported /\ Covered /\ Remembered /\ OneSource
      /\ L!NewsOnce /\ L!MissedIsExplained
  BY DEF LogsInv
<1>1. UNCHANGED <<text, offset, started, written, byLog, byAudit, bySample, twice, again, passed,
                  excused, blurred, partial, rotated, seen, snap>>
  OBVIOUS
<1>2. alive' \subseteq alive /\ \A e \in alive' : OwnerOf[e] \in sessions'
  BY <1>0 DEF LogsTypes
<1>3. readable' \in BOOLEAN
  BY <1>0 DEF LogsTypes
<1>4. LogsTypes'
  BY <1>0, <1>1, <1>2, <1>3 DEF LogsTypes
<1>5. Begun' /\ Reported' /\ Covered'
  BY <1>0, <1>1 DEF Begun, Reported, Covered
<1>6. Remembered'
  BY <1>0, <1>1, <1>2 DEF Remembered
<1>7. switched' \/ (switched' = switched /\ readable' = readable)
  OBVIOUS
<1>8. OneSource' /\ L!NewsOnce'
  BY <1>0, <1>1, <1>7 DEF OneSource, L!NewsOnce
<1>9. L!MissedIsExplained'
  BY <1>0, <1>1 DEF L!MissedIsExplained
<1> QED BY <1>4, <1>5, <1>6, <1>8, <1>9 DEF LogsInv

LEMMA LogsStep == ASSUME LogsInv, L!Next PROVE LogsInv'
  BY AccessIsRead, AuditIsRead, CommandsAreSampled, AgentIsReplaced, LineBegins, LineEnds,
     LogRotates, ExecutionStarts, MachineLives
  DEF L!Next

LEMMA LogsStutter == ASSUME LogsInv, UNCHANGED L!vars PROVE LogsInv'
<1> USE DEF L!vars, L!agent, L!reports, L!reading, L!host
<1>1. LogsTypes' /\ Begun' /\ Reported' /\ Covered'
  BY DEF LogsInv, LogsTypes, Begun, Reported, Covered
<1>2. Remembered' /\ OneSource' /\ L!NewsOnce' /\ L!MissedIsExplained'
  BY DEF LogsInv, Remembered, OneSource, L!NewsOnce, L!MissedIsExplained
<1> QED BY <1>1, <1>2 DEF LogsInv

-----------------------------------------------------------------------------
(* The polls with a cursor: the inductive invariant.                       *)

\* An item that is stored or about to be, or was passed over for a known reason.
Explained(i) ==
  \/ stored[i] # 0 \/ S!InFlight(i) \/ i \in dropped
  \/ kind = "events" /\ \E s \in starts : S!Stamp(i) <= s /\ s <= happened[i].at

\* A poll, whatever it is doing.
PollShape ==
  [stage : {"resting", "asking", "answered", "storing"}, first : BOOLEAN, now : Nat,
   since : Nat, seen : Nat, rows : SUBSET Nat]

SweepsTypes ==
  /\ kind \in {"events", "access"}
  /\ clock \in Nat /\ clock >= INTERVAL + 1
  /\ happened \in Seq([at : Nat, stamp : Nat])
  /\ Len(happened) <= MaxItems
  /\ \A i \in S!Items : S!Stamp(i) <= happened[i].at /\ happened[i].at <= clock
  /\ rotated \in Nat /\ cursor \in Nat
  /\ polls \in [Polls -> PollShape]
  /\ stored \in [1 .. MaxItems -> Nat]
  /\ \A i \in 1 .. MaxItems : stored[i] # 0 => i \in S!Items
  /\ starts \subseteq Nat

\* What lies behind the cursor is accounted for.
CursorSound ==
  IF kind = "events"
    THEN cursor # 0 =>
           /\ cursor \in starts /\ cursor <= clock
           /\ \A i \in S!Items : S!Stamp(i) <= cursor => Explained(i)
    ELSE cursor <= Len(happened) /\ \A i \in S!Items : i <= cursor => Explained(i)

\* So is what lies behind the cursor a sweep has set out from.
SetsOut(p) ==
  kind = "events" /\ polls[p].stage \in {"asking", "answered"} =>
    /\ polls[p].now \in 1 .. clock
    /\ ~polls[p].first =>
         /\ polls[p].since \in starts /\ polls[p].since <= clock
         /\ \A i \in S!Items : S!Stamp(i) <= polls[p].since => Explained(i)

\* An answer holds what had happened when it was read; what comes later comes after the
\* start of the sweep.
AnswerSound(p) ==
  polls[p].stage = "answered" =>
    /\ polls[p].seen <= Len(happened) /\ polls[p].rows \subseteq 1 .. polls[p].seen
    /\ kind = "events" =>
         /\ \A i \in 1 .. polls[p].seen : i \in polls[p].rows <=> S!Stamp(i) > polls[p].since
         /\ \A i \in S!Items : i > polls[p].seen => happened[i].at >= polls[p].now
    /\ kind = "access" =>
         \A i \in polls[p].rows, j \in 1 .. polls[p].seen : i <= j => j \in polls[p].rows

StoringSound(p) == polls[p].stage = "storing" => polls[p].rows \subseteq S!Items

PollsSound == \A p \in Polls : SetsOut(p) /\ AnswerSound(p) /\ StoringSound(p)

\* Where a poll that is alone stands towards the cursor.
Alone(p) ==
  IF kind = "events"
    THEN polls[p].stage \in {"asking", "answered"} =>
           /\ polls[p].first <=> cursor = 0
           /\ cursor # 0 => polls[p].since = cursor
           /\ polls[p].now >= cursor
    ELSE polls[p].stage = "answered" => cursor <= polls[p].seen

\* An item that was read lies behind the cursor.
BehindCursor(i) ==
  IF kind = "events" THEN cursor # 0 /\ S!Stamp(i) <= cursor ELSE i <= cursor

\* While polls come one at a time and the process lives, what has been read lies behind the
\* cursor, and is stored once or about to be.
OneAtATime ==
  ~together /\ ~restarted =>
    /\ \A p, q \in Polls : polls[p].stage # "resting" /\ polls[q].stage # "resting" => p = q
    /\ \A p \in Polls : Alone(p)
    /\ \A i \in S!Items \ early :
         /\ stored[i] # 0 \/ S!InFlight(i) => BehindCursor(i)
         /\ stored[i] <= 1
         /\ S!InFlight(i) => stored[i] = 0

SweepsInv == SweepsTypes /\ CursorSound /\ PollsSound /\ OneAtATime

-----------------------------------------------------------------------------
(* Items and polls.                                                        *)

LEMMA SweepsConstants ==
  /\ SECOND \in Nat \ {0} /\ INTERVAL \in Nat /\ TAIL \in Nat /\ MaxItems \in Nat
  /\ Kinds \subseteq {"events", "access"}
  BY SweepsAssumption DEF S!SweepsAssumption

LEMMA ItemsAre ==
  ASSUME SweepsTypes
  PROVE  /\ Len(happened) \in Nat /\ S!Items = 1 .. Len(happened) /\ S!Items \subseteq 1 .. MaxItems
         /\ \A i \in S!Items : happened[i].at \in Nat /\ S!Stamp(i) \in Nat /\ stored[i] \in Nat
<1>1. Len(happened) \in Nat /\ S!Items = 1 .. Len(happened)
  BY LenProperties DEF SweepsTypes, S!Items
<1>2. S!Items \subseteq 1 .. MaxItems
  BY <1>1, SweepsConstants DEF SweepsTypes
<1>3. ASSUME NEW i \in S!Items
      PROVE  happened[i].at \in Nat /\ S!Stamp(i) \in Nat /\ stored[i] \in Nat
  <2>1. happened[i] \in [at : Nat, stamp : Nat]
    BY <1>1, ElementOfSeq DEF SweepsTypes
  <2>2. stored[i] \in Nat
    BY <1>2 DEF SweepsTypes
  <2> QED BY <2>1, <2>2 DEF S!Stamp
<1> QED BY <1>1, <1>2, <1>3

LEMMA RestingIs == S!Resting \in PollShape /\ S!Resting.stage = "resting"
  BY DEF S!Resting, PollShape

\* What accounts for an item goes on to do so.
LEMMA StaysExplained ==
  ASSUME NEW i, Explained(i), kind' = kind, happened'[i] = happened[i],
         starts \subseteq starts', dropped \subseteq dropped',
         stored[i] # 0 => stored'[i] # 0,
         S!InFlight(i) => S!InFlight(i)' \/ stored'[i] # 0 \/ i \in dropped'
  PROVE  Explained(i)'
  BY DEF Explained, S!Stamp

\* A poll that goes on to store rows, or ends if there are none.
LEMMA Moves ==
  ASSUME polls \in [Polls -> PollShape], NEW p \in Polls, NEW rows, rows \subseteq Nat,
         S!Storing(p, rows)
  PROVE  /\ polls' \in [Polls -> PollShape]
         /\ \A q \in Polls \ {p} : polls'[q] = polls[q]
         /\ polls'[p].stage \in {"resting", "storing"}
         /\ polls'[p].stage = "storing" => polls'[p].rows = rows
         /\ \A i \in rows : S!InFlight(i)'
         /\ \A i : S!InFlight(i)' =>
              i \in rows \/ \E q \in Polls \ {p} : polls[q].stage = "storing" /\ i \in polls[q].rows
<1> DEFINE next == IF rows = {} THEN S!Resting
                   ELSE [polls[p] EXCEPT !.stage = "storing", !.rows = rows]
<1>1. polls' = [polls EXCEPT ![p] = next]
  BY DEF S!Storing
<1>2. polls[p] \in PollShape
  OBVIOUS
<1>3. rows # {} => /\ next \in PollShape /\ next.stage = "storing" /\ next.rows = rows
  BY <1>2 DEF PollShape
<1>4. rows = {} => next \in PollShape /\ next.stage = "resting"
  BY RestingIs
<1> HIDE DEF next
<1>5. polls'[p] = next /\ \A q \in Polls \ {p} : polls'[q] = polls[q]
  BY <1>1
<1>6. polls' \in [Polls -> PollShape]
  BY <1>1, <1>3, <1>4
<1>7. \A i \in rows : S!InFlight(i)'
  BY <1>3, <1>5 DEF S!InFlight
<1>8. ASSUME NEW i, S!InFlight(i)', i \notin rows
      PROVE  \E q \in Polls \ {p} : polls[q].stage = "storing" /\ i \in polls[q].rows
  <2>1. PICK q \in Polls : polls'[q].stage = "storing" /\ i \in polls'[q].rows
    BY <1>8 DEF S!InFlight
  <2>2. q # p
    BY <2>1, <1>3, <1>4, <1>5, <1>8
  <2> QED BY <2>1, <2>2, <1>5
<1> QED BY <1>3, <1>4, <1>5, <1>6, <1>7, <1>8

\* A step that leaves items, cursor and histories alone, and the rows in flight.
LEMMA NothingStored ==
  ASSUME SweepsInv, UNCHANGED <<kind, happened, cursor, stored, starts, early, dropped>>,
         \A i : S!InFlight(i)' <=> S!InFlight(i),
         clock' \in Nat, clock' >= clock, rotated' \in Nat, polls' \in [Polls -> PollShape]
  PROVE  /\ SweepsTypes' /\ CursorSound'
         /\ \A i \in S!Items : Explained(i) => Explained(i)'
         /\ S!Items' = S!Items /\ \A i : S!Stamp(i)' = S!Stamp(i)
<1>1. S!Items' = S!Items /\ \A i : S!Stamp(i)' = S!Stamp(i)
  BY DEF S!Items, S!Stamp
<1>2. \A i \in S!Items : Explained(i) => Explained(i)'
  BY DEF Explained, S!Stamp
<1>3. SweepsTypes'
  <2>1. clock \in Nat /\ INTERVAL \in Nat
    BY SweepsConstants DEF SweepsInv, SweepsTypes
  <2>2. clock' >= INTERVAL + 1
    BY <2>1 DEF SweepsInv, SweepsTypes
  <2>3. \A i \in S!Items : happened[i].at <= clock'
    BY <2>1, ItemsAre DEF SweepsInv, SweepsTypes
  <2> QED BY <1>1, <2>2, <2>3 DEF SweepsInv, SweepsTypes
<1>4. CursorSound'
  <2>1. clock \in Nat /\ cursor \in Nat
    BY DEF SweepsInv, SweepsTypes
  <2> QED BY <2>1, <1>1, <1>2 DEF SweepsInv, CursorSound
<1> QED BY <1>1, <1>2, <1>3, <1>4

-----------------------------------------------------------------------------
(* The invariant, step by step.                                            *)

LEMMA SweepsStart == ASSUME S!Init PROVE SweepsInv
<1> USE SweepsConstants DEF S!Init
<1>1. Len(happened) = 0 /\ S!Items = {}
  BY DEF S!Items
<1>2. polls \in [Polls -> PollShape] /\ \A p \in Polls : polls[p].stage = "resting"
  BY RestingIs
<1>3. SweepsTypes
  <2>1. kind \in {"events", "access"}
    OBVIOUS
  <2>2. clock \in Nat /\ clock >= INTERVAL + 1
    OBVIOUS
  <2>3. happened \in Seq([at : Nat, stamp : Nat]) /\ Len(happened) <= MaxItems
    BY <1>1
  <2>4. /\ stored \in [1 .. MaxItems -> Nat] /\ starts \subseteq Nat
        /\ rotated \in Nat /\ cursor \in Nat
    OBVIOUS
  <2> QED BY <1>1, <1>2, <2>1, <2>2, <2>3, <2>4 DEF SweepsTypes
<1>4. CursorSound
  BY <1>1 DEF CursorSound
<1>5. PollsSound
  BY <1>2 DEF PollsSound, SetsOut, AnswerSound, StoringSound
<1>6. OneAtATime
  BY <1>1, <1>2 DEF OneAtATime, Alone
<1> QED BY <1>3, <1>4, <1>5, <1>6 DEF SweepsInv

\* Time goes by, and the log is rotated: what an answer will hold is not known yet.
LEMMA LogOrClockMoves == ASSUME SweepsInv, S!Tick \/ S!Rotate PROVE SweepsInv'
<1>1. /\ UNCHANGED <<kind, happened, cursor, stored, starts, early, dropped, polls, together,
                     restarted>>
  BY DEF S!Tick, S!Rotate, S!ghosts
<1>2. clock \in Nat /\ rotated \in Nat /\ Len(happened) \in Nat
  BY ItemsAre DEF SweepsInv, SweepsTypes
<1>3. clock' \in Nat /\ clock' >= clock /\ rotated' \in Nat
  BY <1>2 DEF S!Tick, S!Rotate
<1>4. \A i : S!InFlight(i)' <=> S!InFlight(i)
  BY <1>1 DEF S!InFlight
<1>5. polls' \in [Polls -> PollShape]
  BY <1>1 DEF SweepsInv, SweepsTypes
<1>6. /\ SweepsTypes' /\ CursorSound'
      /\ \A i \in S!Items : Explained(i) => Explained(i)'
      /\ S!Items' = S!Items /\ \A i : S!Stamp(i)' = S!Stamp(i)
  BY <1>1, <1>3, <1>4, <1>5, NothingStored
<1>7. PollsSound'
  <2> SUFFICES ASSUME NEW p \in Polls PROVE SetsOut(p)' /\ AnswerSound(p)' /\ StoringSound(p)'
    BY DEF PollsSound
  <2>1. SetsOut(p) /\ AnswerSound(p) /\ StoringSound(p)
    BY DEF SweepsInv, PollsSound
  <2>2. SetsOut(p)'
    <3>1. \A n \in Nat : n <= clock => n <= clock'
      BY <1>2, <1>3
    <3>2. polls[p].now \in Nat /\ polls[p].since \in Nat
      BY DEF SweepsInv, SweepsTypes, PollShape
    <3>3. polls[p].now \in 1 .. clock => polls[p].now \in 1 .. clock'
      BY <1>2, <1>3, <3>2
    <3> QED BY <2>1, <3>1, <3>2, <3>3, <1>1, <1>6 DEF SetsOut
  <2>3. AnswerSound(p)' /\ StoringSound(p)'
    BY <2>1, <1>1, <1>6 DEF AnswerSound, StoringSound
  <2> QED BY <2>2, <2>3
<1>8. OneAtATime'
  BY <1>1, <1>4, <1>6 DEF SweepsInv, OneAtATime, Alone, BehindCursor
<1> QED BY <1>6, <1>7, <1>8 DEF SweepsInv

\* A poll starts from the cursor, and is alone if none is under way.
LEMMA PollStarts == ASSUME SweepsInv, NEW p \in Polls, S!Start(p) PROVE SweepsInv'
<1> USE DEF S!Start, S!world
<1>0. SweepsTypes /\ CursorSound /\ PollsSound /\ OneAtATime
  BY DEF SweepsInv
<1> DEFINE from == IF cursor = 0 THEN clock - INTERVAL ELSE cursor
           next == [S!Resting EXCEPT !.stage = "asking", !.first = (cursor = 0), !.now = clock,
                                     !.since = from]
<1>1. clock \in Nat /\ clock >= 1 /\ cursor \in Nat /\ from \in Nat
  BY <1>0, SweepsConstants DEF SweepsTypes
<1>2. /\ next.stage = "asking" /\ next.first = (cursor = 0) /\ next.now = clock
      /\ next.since = from /\ next \in PollShape
  BY <1>1 DEF S!Resting, PollShape
<1> HIDE DEF next, from
<1>3. polls' = [polls EXCEPT ![p] = next] /\ polls \in [Polls -> PollShape]
  BY <1>0 DEF next, from, SweepsTypes
<1>4. /\ polls' \in [Polls -> PollShape] /\ polls'[p] = next
      /\ \A q \in Polls \ {p} : polls'[q] = polls[q]
  BY <1>2, <1>3
<1>5. \A i : S!InFlight(i)' <=> S!InFlight(i)
  BY <1>2, <1>4 DEF S!InFlight
<1>u. UNCHANGED <<kind, happened, cursor, stored, starts, early, dropped, clock, rotated>>
  OBVIOUS
<1>6. /\ SweepsTypes' /\ CursorSound'
      /\ \A i \in S!Items : Explained(i) => Explained(i)'
      /\ S!Items' = S!Items /\ \A i : S!Stamp(i)' = S!Stamp(i)
  <2>1. clock' \in Nat /\ clock' >= clock /\ rotated' \in Nat
    BY <1>u, <1>0, <1>1 DEF SweepsTypes
  <2> QED BY <2>1, <1>u, <1>4, <1>5, NothingStored
<1>7. PollsSound'
  <2> SUFFICES ASSUME NEW q \in Polls PROVE SetsOut(q)' /\ AnswerSound(q)' /\ StoringSound(q)'
    BY DEF PollsSound
  <2>1. CASE q # p
    <3>1. polls'[q] = polls[q] /\ SetsOut(q) /\ AnswerSound(q) /\ StoringSound(q)
      BY <2>1, <1>0, <1>4 DEF PollsSound
    <3>2. SetsOut(q)'
      BY <3>1, <1>6, <1>u DEF SetsOut
    <3> QED BY <3>1, <3>2, <1>6, <1>u DEF AnswerSound, StoringSound
  <2>2. CASE q = p
    <3>1. AnswerSound(q)' /\ StoringSound(q)'
      BY <2>2, <1>2, <1>4 DEF AnswerSound, StoringSound
    <3>2. SetsOut(q)'
      <4>1. CASE kind = "events" /\ cursor # 0
        <5>1. /\ cursor \in starts /\ cursor <= clock
              /\ \A i \in S!Items : S!Stamp(i) <= cursor => Explained(i)
          BY <4>1, <1>0 DEF CursorSound
        <5>2. polls'[q].now = clock /\ polls'[q].since = cursor
          BY <4>1, <2>2, <1>2, <1>4 DEF from
        <5>3. clock \in 1 .. clock
          BY <1>1
        <5> QED BY <5>1, <5>2, <5>3, <1>6, <1>u DEF SetsOut
      <4>2. CASE kind # "events" \/ cursor = 0
        <5>1. polls'[q].now = clock /\ polls'[q].first = (cursor = 0)
          BY <2>2, <1>2, <1>4
        <5>2. clock \in 1 .. clock
          BY <1>1
        <5> QED BY <4>2, <5>1, <5>2, <1>u DEF SetsOut
      <4> QED BY <4>1, <4>2
    <3> QED BY <3>1, <3>2
  <2> QED BY <2>1, <2>2
<1>8. OneAtATime'
  <2> SUFFICES ASSUME ~together', ~restarted' PROVE OneAtATime'
    BY DEF OneAtATime
  <2>1. ~together /\ ~restarted /\ \A q \in Polls : polls[q].stage = "resting"
    OBVIOUS
  <2>2. \A q \in Polls : polls'[q].stage # "resting" => q = p
    BY <2>1, <1>4
  <2>3. Alone(p)'
    <3>1. cursor # 0 => from = cursor
      BY DEF from
    <3>2. kind = "events" => clock >= cursor
      BY <1>0, <1>1 DEF CursorSound
    <3> QED BY <3>1, <3>2, <1>2, <1>4 DEF Alone
  <2>4. \A q \in Polls : Alone(q)'
    BY <2>1, <2>3, <1>0, <1>4 DEF OneAtATime, Alone
  <2>5. \A i \in S!Items' \ early' :
          /\ stored'[i] # 0 \/ S!InFlight(i)' => BehindCursor(i)'
          /\ stored'[i] <= 1
          /\ S!InFlight(i)' => stored'[i] = 0
    BY <2>1, <1>0, <1>5, <1>6 DEF OneAtATime, BehindCursor
  <2> QED BY <2>2, <2>4, <2>5 DEF OneAtATime
<1> QED BY <1>6, <1>7, <1>8 DEF SweepsInv

\* What is read at once: of events those that are newer, of a log its end.
LEMMA PollReads == ASSUME SweepsInv, NEW p \in Polls, S!Read(p) PROVE SweepsInv'
<1> USE DEF S!Read, S!world, S!ghosts
<1>0. SweepsTypes /\ CursorSound /\ PollsSound /\ OneAtATime
  BY DEF SweepsInv
<1>1. Len(happened) \in Nat /\ S!Items = 1 .. Len(happened)
  BY <1>0, ItemsAre
<1> DEFINE rows == IF kind = "events" THEN S!Newer(polls[p].since) ELSE S!TailOf
           next == [polls[p] EXCEPT !.stage = "answered", !.seen = Len(happened), !.rows = rows]
<1>2. rows \subseteq S!Items /\ rows \subseteq Nat
  BY <1>1 DEF S!Newer, S!TailOf
<1>3. polls \in [Polls -> PollShape] /\ polls[p] \in PollShape
  BY <1>0 DEF SweepsTypes
<1> HIDE DEF rows
<1>4. /\ next.stage = "answered" /\ next.first = polls[p].first /\ next.now = polls[p].now
      /\ next.since = polls[p].since /\ next.seen = Len(happened) /\ next.rows = rows
      /\ next \in PollShape
  BY <1>1, <1>2, <1>3 DEF PollShape
<1>5. polls' = [polls EXCEPT ![p] = next]
  BY DEF rows
<1> HIDE DEF next
<1>6. /\ polls' \in [Polls -> PollShape] /\ polls'[p] = next
      /\ \A q \in Polls \ {p} : polls'[q] = polls[q]
  BY <1>3, <1>4, <1>5
<1>7. \A i : S!InFlight(i)' <=> S!InFlight(i)
  BY <1>4, <1>6 DEF S!InFlight
<1>8. /\ SweepsTypes' /\ CursorSound'
      /\ \A i \in S!Items : Explained(i) => Explained(i)'
      /\ S!Items' = S!Items /\ \A i : S!Stamp(i)' = S!Stamp(i)
  <2>1. UNCHANGED <<kind, happened, cursor, stored, starts, early, dropped, clock, rotated>>
    OBVIOUS
  <2>2. clock' \in Nat /\ clock' >= clock /\ rotated' \in Nat
    BY <2>1, <1>0 DEF SweepsTypes
  <2> QED BY <2>1, <2>2, <1>6, <1>7, NothingStored
<1>9. PollsSound'
  <2> SUFFICES ASSUME NEW q \in Polls PROVE SetsOut(q)' /\ AnswerSound(q)' /\ StoringSound(q)'
    BY DEF PollsSound
  <2>0. SetsOut(q) /\ AnswerSound(q) /\ StoringSound(q)
    BY <1>0 DEF PollsSound
  <2>1. CASE q # p
    <3>1. polls'[q] = polls[q]
      BY <2>1, <1>6
    <3>2. SetsOut(q)'
      BY <3>1, <2>0, <1>8 DEF SetsOut
    <3> QED BY <3>1, <3>2, <2>0, <1>8 DEF AnswerSound, StoringSound
  <2>2. CASE q = p
    <3>1. SetsOut(q)'
      BY <2>0, <2>2, <1>4, <1>6, <1>8 DEF SetsOut
    <3>2. StoringSound(q)'
      BY <2>2, <1>4, <1>6 DEF StoringSound
    <3>3. ASSUME kind = "events", NEW i \in 1 .. Len(happened)
          PROVE  i \in rows <=> S!Stamp(i) > polls[p].since
      BY <3>3, <1>1 DEF rows, S!Newer
    <3>4. ASSUME kind = "access", NEW i \in rows, NEW j \in 1 .. Len(happened), i <= j
          PROVE  j \in rows
      <4>1. i \in 1 .. Len(happened) /\ i > rotated /\ i + TAIL > Len(happened)
        BY <3>4, <1>1 DEF rows, S!TailOf
      <4>2. rotated \in Nat /\ TAIL \in Nat /\ i \in Nat /\ j \in Nat
        BY <4>1, <1>0, <1>1, SweepsConstants DEF SweepsTypes
      <4>3. j > rotated /\ j + TAIL > Len(happened)
        BY <4>1, <4>2, <3>4, <1>1
      <4> QED BY <4>3, <3>4, <1>1 DEF rows, S!TailOf
    <3>5. \A i \in S!Items : ~(i > Len(happened))
      BY <1>1
    <3>6. AnswerSound(q)'
      <4>1. Len(happened) <= Len(happened) /\ rows \subseteq 1 .. Len(happened)
        BY <1>1, <1>2
      <4>2. kind' = kind /\ happened' = happened
        OBVIOUS
      <4> QED BY <4>1, <4>2, <2>2, <3>3, <3>4, <3>5, <1>4, <1>6, <1>8 DEF AnswerSound
    <3> QED BY <3>1, <3>2, <3>6
  <2> QED BY <2>1, <2>2
<1>10. OneAtATime'
  <2> SUFFICES ASSUME ~together', ~restarted' PROVE OneAtATime'
    BY DEF OneAtATime
  <2>1. /\ \A q, r \in Polls : polls[q].stage # "resting" /\ polls[r].stage # "resting" => q = r
        /\ \A q \in Polls : Alone(q)
    BY <1>0 DEF OneAtATime
  <2>2. \A q, r \in Polls : polls'[q].stage # "resting" /\ polls'[r].stage # "resting" => q = r
    BY <2>1, <1>6
  <2>3. Alone(p)'
    <3>1. kind # "events" => cursor <= Len(happened)
      BY <1>0 DEF CursorSound
    <3>2. Alone(p)
      BY <2>1
    <3> QED BY <3>1, <3>2, <1>4, <1>6 DEF Alone
  <2>4. \A q \in Polls : Alone(q)'
    BY <2>1, <2>3, <1>6 DEF Alone
  <2>5. \A i \in S!Items' \ early' :
          /\ stored'[i] # 0 \/ S!InFlight(i)' => BehindCursor(i)'
          /\ stored'[i] <= 1
          /\ S!InFlight(i)' => stored'[i] = 0
    BY <1>0, <1>7, <1>8 DEF OneAtATime, BehindCursor
  <2> QED BY <2>2, <2>4, <2>5 DEF OneAtATime
<1> QED BY <1>8, <1>9, <1>10 DEF SweepsInv

\* While a poll stores what it has read, or ends, the others are as sound as they were; if
\* it was alone, it still is.
LEMMA OthersGoOn ==
  ASSUME SweepsInv, NEW p \in Polls, polls[p].stage # "resting",
         NEW rows, rows \subseteq S!Items, S!Storing(p, rows),
         UNCHANGED <<kind, happened, clock>>, starts \subseteq starts',
         \A i \in S!Items : Explained(i) => Explained(i)'
  PROVE  /\ PollsSound'
         /\ (\A q, r \in Polls : polls[q].stage # "resting" /\ polls[r].stage # "resting" => q = r)
              => /\ \A q, r \in Polls :
                      polls'[q].stage # "resting" /\ polls'[r].stage # "resting" => q = r
                 /\ \A q \in Polls : Alone(q)'
                 /\ \A i : S!InFlight(i)' => i \in rows
<1>0. SweepsTypes /\ PollsSound
  BY DEF SweepsInv
<1>1. rows \subseteq Nat /\ polls \in [Polls -> PollShape]
  BY <1>0, ItemsAre DEF SweepsTypes
<1>2. /\ \A q \in Polls \ {p} : polls'[q] = polls[q]
      /\ polls'[p].stage \in {"resting", "storing"}
      /\ polls'[p].stage = "storing" => polls'[p].rows = rows
      /\ \A i : S!InFlight(i)' =>
           i \in rows \/ \E q \in Polls \ {p} : polls[q].stage = "storing" /\ i \in polls[q].rows
  BY <1>1, Moves
<1>3. S!Items' = S!Items /\ \A i : S!Stamp(i)' = S!Stamp(i)
  BY DEF S!Items, S!Stamp
<1>4. PollsSound'
  <2> SUFFICES ASSUME NEW q \in Polls PROVE SetsOut(q)' /\ AnswerSound(q)' /\ StoringSound(q)'
    BY DEF PollsSound
  <2>1. CASE q # p
    <3>1. polls'[q] = polls[q] /\ SetsOut(q) /\ AnswerSound(q) /\ StoringSound(q)
      BY <2>1, <1>0, <1>2 DEF PollsSound
    <3>2. SetsOut(q)'
      BY <3>1, <1>3 DEF SetsOut
    <3> QED BY <3>1, <3>2, <1>3 DEF AnswerSound, StoringSound
  <2>2. CASE q = p
    BY <2>2, <1>2, <1>3 DEF SetsOut, AnswerSound, StoringSound
  <2> QED BY <2>1, <2>2
<1>5. ASSUME \A q, r \in Polls : polls[q].stage # "resting" /\ polls[r].stage # "resting" => q = r
      PROVE  /\ \A q, r \in Polls :
                  polls'[q].stage # "resting" /\ polls'[r].stage # "resting" => q = r
             /\ \A q \in Polls : Alone(q)'
             /\ \A i : S!InFlight(i)' => i \in rows
  <2>1. \A q \in Polls \ {p} : polls[q].stage = "resting"
    BY <1>5
  <2> QED BY <2>1, <1>2 DEF Alone
<1> QED BY <1>4, <1>5

\* The events of a sweep are taken in hand, and the cursor moves to its start.
LEMMA EventsAreSwept == ASSUME SweepsInv, NEW p \in Polls, S!SweepEvents(p) PROVE SweepsInv'
<1> DEFINE poll == polls[p]
           rows == polls[p].rows
<1>0. SweepsTypes /\ CursorSound /\ PollsSound /\ OneAtATime
  BY DEF SweepsInv
<1>u. /\ kind = "events" /\ poll.stage = "answered" /\ cursor' = poll.now
      /\ S!Storing(p, rows)
      /\ starts' = starts \cup {poll.now}
      /\ early' = early \cup {i \in rows : S!Stamp(i) > poll.now}
      /\ dropped' = IF poll.first THEN dropped \cup {i \in S!Items : S!Stamp(i) <= poll.since}
                                  ELSE dropped
      /\ UNCHANGED <<kind, clock, happened, rotated, stored, together, restarted>>
  BY DEF S!SweepEvents, S!world
<1>1. /\ Len(happened) \in Nat /\ S!Items = 1 .. Len(happened)
      /\ \A i \in S!Items : happened[i].at \in Nat /\ S!Stamp(i) \in Nat /\ stored[i] \in Nat
  BY <1>0, ItemsAre
<1>2. poll \in PollShape /\ polls \in [Polls -> PollShape]
  BY <1>0 DEF SweepsTypes
<1>3. poll.now \in Nat /\ poll.since \in Nat /\ poll.seen \in Nat /\ clock \in Nat
  BY <1>0, <1>2 DEF PollShape, SweepsTypes
<1>4. SetsOut(p) /\ AnswerSound(p)
  BY <1>0 DEF PollsSound
<1>5. rows \subseteq S!Items /\ rows \subseteq Nat
  <2>1. poll.seen <= Len(happened) /\ rows \subseteq 1 .. poll.seen
    BY <1>4, <1>u DEF AnswerSound
  <2> QED BY <2>1, <1>1, <1>3
<1>6. /\ polls' \in [Polls -> PollShape]
      /\ \A q \in Polls \ {p} : polls'[q] = polls[q]
      /\ \A i \in rows : S!InFlight(i)'
  BY <1>2, <1>5, <1>u, Moves
<1>7. S!Items' = S!Items /\ \A i : S!Stamp(i)' = S!Stamp(i)
  BY <1>u DEF S!Items, S!Stamp
<1>8. ASSUME NEW i \in S!Items, Explained(i) PROVE Explained(i)'
  <2>1. S!InFlight(i) => S!InFlight(i)'
    <3> SUFFICES ASSUME S!InFlight(i) PROVE S!InFlight(i)'
      OBVIOUS
    <3>1. PICK q \in Polls : polls[q].stage = "storing" /\ i \in polls[q].rows
      BY DEF S!InFlight
    <3>2. q # p
      BY <3>1, <1>u
    <3> QED BY <3>1, <3>2, <1>6 DEF S!InFlight
  <2>2. dropped \subseteq dropped' /\ starts \subseteq starts'
    BY <1>u
  <2> QED BY <2>1, <2>2, <1>8, <1>u, StaysExplained
<1>9. SweepsTypes'
  BY <1>0, <1>3, <1>6, <1>7, <1>u DEF SweepsTypes
<1>10. CursorSound'
  <2>1. poll.now \in 1 .. clock
    BY <1>4, <1>u DEF SetsOut
  <2>2. ASSUME NEW i \in S!Items, S!Stamp(i) <= poll.now PROVE Explained(i)'
    <3>1. CASE i > poll.seen
      <4>1. happened[i].at >= poll.now
        BY <3>1, <1>4, <1>u DEF AnswerSound
      <4>2. poll.now \in starts' /\ S!Stamp(i)' <= poll.now /\ poll.now <= happened'[i].at
        BY <4>1, <2>2, <1>1, <1>3, <1>7, <1>u
      <4> QED BY <4>2, <1>u DEF Explained
    <3>2. CASE i <= poll.seen /\ S!Stamp(i) > poll.since
      <4>1. i \in 1 .. poll.seen
        BY <3>2, <1>1, <1>3
      <4>2. i \in rows
        BY <4>1, <3>2, <1>4, <1>u DEF AnswerSound
      <4> QED BY <4>2, <1>6 DEF Explained
    <3>3. CASE S!Stamp(i) <= poll.since
      <4>1. CASE poll.first
        <5>1. i \in dropped'
          BY <4>1, <3>3, <1>u
        <5> QED BY <5>1 DEF Explained
      <4>2. CASE ~poll.first
        <5>1. Explained(i)
          BY <4>2, <3>3, <1>4, <1>u DEF SetsOut
        <5> QED BY <5>1, <1>8
      <4> QED BY <4>1, <4>2
    <3> QED BY <3>1, <3>2, <3>3, <1>1, <1>3
  <2>3. cursor' \in starts' /\ cursor' <= clock'
    BY <2>1, <1>u
  <2> QED BY <2>2, <2>3, <1>7, <1>u DEF CursorSound
<1>11. poll.stage # "resting" /\ UNCHANGED <<kind, happened, clock>> /\ starts \subseteq starts'
  BY <1>u
<1>12. PollsSound'
  BY <1>5, <1>8, <1>11, <1>u, OthersGoOn
<1>13. OneAtATime'
  <2> SUFFICES ASSUME ~together', ~restarted' PROVE OneAtATime'
    BY DEF OneAtATime
  <2>1. /\ \A q, r \in Polls : polls[q].stage # "resting" /\ polls[r].stage # "resting" => q = r
        /\ Alone(p)
        /\ \A i \in S!Items \ early :
             /\ stored[i] # 0 \/ S!InFlight(i) => BehindCursor(i)
             /\ stored[i] <= 1
    BY <1>0, <1>u DEF OneAtATime
  <2>2. /\ \A q, r \in Polls : polls'[q].stage # "resting" /\ polls'[r].stage # "resting" => q = r
        /\ \A q \in Polls : Alone(q)'
        /\ \A i : S!InFlight(i)' => i \in rows
    BY <2>1, <1>5, <1>8, <1>11, <1>u, OthersGoOn
  <2>3. /\ poll.first <=> cursor = 0
        /\ cursor # 0 => poll.since = cursor
        /\ poll.now >= cursor /\ poll.now >= 1 /\ cursor \in Nat
    BY <2>1, <1>0, <1>3, <1>4, <1>u DEF Alone, SetsOut, SweepsTypes
  <2>4. ASSUME NEW i \in S!Items, i \notin early'
        PROVE  /\ stored'[i] # 0 \/ S!InFlight(i)' => BehindCursor(i)'
               /\ stored'[i] <= 1
               /\ S!InFlight(i)' => stored'[i] = 0
    <3>1. i \notin early /\ stored'[i] = stored[i]
      BY <2>4, <1>u
    <3>2. ASSUME i \in rows PROVE stored[i] = 0 /\ S!Stamp(i) <= poll.now
      <4>1. S!Stamp(i) <= poll.now
        BY <3>2, <2>4, <1>1, <1>3, <1>u
      <4>2. i \in 1 .. poll.seen /\ S!Stamp(i) > poll.since
        BY <3>2, <1>4, <1>u DEF AnswerSound
      <4>3. ~(cursor # 0 /\ S!Stamp(i) <= cursor)
        BY <4>2, <2>3, <1>1, <1>3
      <4>4. stored[i] = 0
        BY <4>3, <3>1, <2>1, <1>u DEF BehindCursor
      <4> QED BY <4>1, <4>4
    <3>3. ASSUME stored[i] # 0 PROVE S!Stamp(i) <= poll.now
      <4>1. cursor # 0 /\ S!Stamp(i) <= cursor
        BY <3>1, <3>3, <2>1, <1>u DEF BehindCursor
      <4> QED BY <4>1, <2>3, <1>1, <1>3
    <3>4. stored'[i] # 0 \/ S!InFlight(i)' => S!Stamp(i) <= poll.now
      BY <3>1, <3>2, <3>3, <2>2
    <3>5. stored'[i] # 0 \/ S!InFlight(i)' => BehindCursor(i)'
      BY <3>4, <2>3, <1>3, <1>7, <1>u DEF BehindCursor
    <3> QED BY <3>1, <3>2, <3>5, <2>1, <2>2
  <2> QED BY <2>2, <2>4, <1>7 DEF OneAtATime
<1> QED BY <1>9, <1>10, <1>12, <1>13 DEF SweepsInv

\* The unread lines of a log are taken in hand, and the last of all is remembered.
LEMMA LinesAreRead == ASSUME SweepsInv, NEW p \in Polls, S!ReadLines(p) PROVE SweepsInv'
<1> DEFINE poll == polls[p]
           lines == polls[p].rows
           news == S!Unread(lines, cursor)
<1>0. SweepsTypes /\ CursorSound /\ PollsSound /\ OneAtATime
  BY DEF SweepsInv
<1>u. /\ kind = "access" /\ poll.stage = "answered"
      /\ cursor' = (IF lines = {} THEN cursor ELSE S!Max(lines))
      /\ S!Storing(p, news)
      /\ dropped' = dropped \cup
           (IF cursor = 0 THEN 1 .. poll.seen ELSE 1 .. poll.seen \ lines)
      /\ UNCHANGED <<kind, clock, happened, rotated, stored, starts, early, together, restarted>>
  BY DEF S!ReadLines, S!world
<1>1. /\ Len(happened) \in Nat /\ S!Items = 1 .. Len(happened)
      /\ \A i \in S!Items : stored[i] \in Nat
  BY <1>0, ItemsAre
<1>2. poll \in PollShape /\ polls \in [Polls -> PollShape] /\ cursor \in Nat
  BY <1>0 DEF SweepsTypes
<1>3. poll.seen \in Nat
  BY <1>2 DEF PollShape
<1>4. /\ poll.seen <= Len(happened) /\ lines \subseteq 1 .. poll.seen
      /\ \A i \in lines, j \in 1 .. poll.seen : i <= j => j \in lines
  BY <1>0, <1>u DEF PollsSound, AnswerSound
<1>5. news \subseteq lines /\ lines \subseteq S!Items /\ lines \subseteq Nat
  <2>1. news \subseteq lines
    BY DEF S!Unread
  <2> QED BY <2>1, <1>1, <1>3, <1>4
<1>6. lines # {} => cursor' = poll.seen
  <2> SUFFICES ASSUME lines # {} PROVE S!Max(lines) = poll.seen
    BY <1>u
  <2>1. poll.seen \in lines /\ \A i \in lines : i \in Nat /\ i <= poll.seen
    BY <1>3, <1>4
  <2>2. S!Max(lines) \in lines /\ \A i \in lines : S!Max(lines) >= i
    BY <2>1 DEF S!Max
  <2> QED BY <2>1, <2>2, <1>3
<1>7. /\ polls' \in [Polls -> PollShape]
      /\ \A q \in Polls \ {p} : polls'[q] = polls[q]
      /\ \A i \in news : S!InFlight(i)'
  <2> HIDE DEF news
  <2>1. news \subseteq Nat
    BY <1>5
  <2> QED BY <1>2, <2>1, <1>u, Moves
<1>8. S!Items' = S!Items /\ \A i : S!Stamp(i)' = S!Stamp(i)
  BY <1>u DEF S!Items, S!Stamp
<1> HIDE DEF news
<1>9. ASSUME NEW i \in S!Items, Explained(i) PROVE Explained(i)'
  <2>1. S!InFlight(i) => S!InFlight(i)'
    <3> SUFFICES ASSUME S!InFlight(i) PROVE S!InFlight(i)'
      OBVIOUS
    <3>1. PICK q \in Polls : polls[q].stage = "storing" /\ i \in polls[q].rows
      BY DEF S!InFlight
    <3>2. q # p
      BY <3>1, <1>u
    <3> QED BY <3>1, <3>2, <1>7 DEF S!InFlight
  <2>2. dropped \subseteq dropped' /\ starts \subseteq starts'
    BY <1>u
  <2> QED BY <2>1, <2>2, <1>9, <1>u, StaysExplained
<1>10. cursor <= Len(happened) /\ \A i \in S!Items : i <= cursor => Explained(i)
  BY <1>0, <1>u DEF CursorSound
<1>11. cursor' \in Nat /\ cursor' <= Len(happened)
  <2>1. CASE lines = {}
    BY <2>1, <1>2, <1>10, <1>u
  <2>2. CASE lines # {}
    BY <2>2, <1>3, <1>4, <1>6
  <2> QED BY <2>1, <2>2
<1>12. SweepsTypes'
  BY <1>0, <1>7, <1>8, <1>11, <1>u DEF SweepsTypes
<1>13. CursorSound'
  <2>1. ASSUME NEW i \in S!Items, i <= cursor' PROVE Explained(i)'
    <3>1. CASE lines = {}
      BY <3>1, <2>1, <1>9, <1>10, <1>u
    <3>2. CASE lines # {} /\ (cursor = 0 \/ i \notin lines)
      <4>1. i \in 1 .. poll.seen
        BY <3>2, <2>1, <1>1, <1>3, <1>6
      <4>2. i \in dropped'
        BY <3>2, <4>1, <1>u
      <4> QED BY <4>2 DEF Explained
    <3>3. CASE cursor # 0 /\ i \in lines
      <4>1. CASE cursor \in lines /\ i <= cursor
        BY <4>1, <1>9, <1>10
      <4>2. CASE ~(cursor \in lines /\ i <= cursor)
        <5>1. i \in news
          BY <3>3, <4>2, <1>1, <1>2 DEF news, S!Unread
        <5> QED BY <5>1, <1>7 DEF Explained
      <4> QED BY <4>1, <4>2
    <3> QED BY <3>1, <3>2, <3>3
  <2> QED BY <2>1, <1>8, <1>11, <1>u DEF CursorSound
<1>14. poll.stage # "resting" /\ UNCHANGED <<kind, happened, clock>> /\ starts \subseteq starts'
  BY <1>u
<1>15. PollsSound'
  BY <1>5, <1>9, <1>14, <1>u, OthersGoOn
<1>16. OneAtATime'
  <2> SUFFICES ASSUME ~together', ~restarted' PROVE OneAtATime'
    BY DEF OneAtATime
  <2>1. /\ \A q, r \in Polls : polls[q].stage # "resting" /\ polls[r].stage # "resting" => q = r
        /\ Alone(p)
        /\ \A i \in S!Items \ early :
             /\ stored[i] # 0 \/ S!InFlight(i) => BehindCursor(i)
             /\ stored[i] <= 1
    BY <1>0, <1>u DEF OneAtATime
  <2>2. /\ \A q, r \in Polls : polls'[q].stage # "resting" /\ polls'[r].stage # "resting" => q = r
        /\ \A q \in Polls : Alone(q)'
        /\ \A i : S!InFlight(i)' => i \in news
    BY <2>1, <1>5, <1>9, <1>14, <1>u, OthersGoOn
  <2>3. cursor <= poll.seen
    BY <2>1, <1>u DEF Alone
  <2>4. cursor <= cursor'
    BY <2>3, <1>2, <1>3, <1>6, <1>u
  <2>5. ASSUME NEW i \in news PROVE i > cursor /\ i <= cursor'
    <3>1. i \in lines /\ i \in Nat /\ i <= poll.seen /\ cursor # 0
      BY <1>4, <1>5 DEF news, S!Unread
    <3>2. i > cursor
      <4>1. CASE cursor \in lines
        BY <4>1, <3>1 DEF news, S!Unread
      <4>2. CASE cursor \notin lines
        <5>1. cursor \in 1 .. poll.seen
          BY <3>1, <2>3, <1>2, <1>3
        <5>2. ~(i <= cursor)
          BY <5>1, <4>2, <3>1, <1>4
        <5> QED BY <5>2, <3>1, <1>2
      <4> QED BY <4>1, <4>2
    <3> QED BY <3>1, <3>2, <1>6
  <2>6. ASSUME NEW i \in S!Items, i \notin early'
        PROVE  /\ stored'[i] # 0 \/ S!InFlight(i)' => BehindCursor(i)'
               /\ stored'[i] <= 1
               /\ S!InFlight(i)' => stored'[i] = 0
    <3>1. i \notin early /\ stored'[i] = stored[i]
      BY <2>6, <1>u
    <3>2. stored[i] # 0 => i <= cursor
      BY <3>1, <2>1, <1>u DEF BehindCursor
    <3>3. i \in news => stored[i] = 0
      BY <3>2, <2>5, <1>1, <1>2
    <3>4. stored'[i] # 0 \/ S!InFlight(i)' => i <= cursor'
      BY <3>1, <3>2, <2>2, <2>4, <2>5, <1>1, <1>2, <1>11
    <3>5. stored'[i] # 0 \/ S!InFlight(i)' => BehindCursor(i)'
      BY <3>4, <1>u DEF BehindCursor
    <3> QED BY <3>1, <3>3, <3>5, <2>1, <2>2
  <2> QED BY <2>2, <2>6, <1>8 DEF OneAtATime
<1> QED BY <1>12, <1>13, <1>15, <1>16 DEF SweepsInv

\* Rows are stored, and are in flight no more.
LEMMA RowsAreStored == ASSUME SweepsInv, NEW p \in Polls, S!StoreChunk(p) PROVE SweepsInv'
<1>0. SweepsTypes /\ CursorSound /\ PollsSound /\ OneAtATime
  BY DEF SweepsInv
<1>c. PICK chunk \in S!Chunks(polls[p].rows) :
        /\ stored' = [i \in 1 .. MaxItems |-> IF i \in chunk THEN stored[i] + 1 ELSE stored[i]]
        /\ S!Storing(p, polls[p].rows \ chunk)
  BY DEF S!StoreChunk
<1>u. /\ polls[p].stage = "storing"
      /\ UNCHANGED <<kind, clock, happened, rotated, cursor, starts, early, dropped, together,
                     restarted>>
  BY DEF S!StoreChunk, S!world, S!ghosts
<1> DEFINE rows == polls[p].rows
           left == rows \ chunk
<1>1. /\ Len(happened) \in Nat /\ S!Items = 1 .. Len(happened) /\ S!Items \subseteq 1 .. MaxItems
      /\ \A i \in S!Items : stored[i] \in Nat
  BY <1>0, ItemsAre
<1>2. chunk \subseteq rows /\ rows \subseteq S!Items /\ left \subseteq S!Items /\ left \subseteq Nat
  BY <1>0, <1>1, <1>u DEF S!Chunks, PollsSound, StoringSound
<1>3. polls \in [Polls -> PollShape]
  BY <1>0 DEF SweepsTypes
<1> HIDE DEF left
<1>4. S!Storing(p, left)
  BY <1>c DEF left
<1>5. /\ polls' \in [Polls -> PollShape]
      /\ \A q \in Polls \ {p} : polls'[q] = polls[q]
      /\ \A i \in left : S!InFlight(i)'
  BY <1>2, <1>3, <1>4, Moves
<1>6. S!Items' = S!Items /\ \A i : S!Stamp(i)' = S!Stamp(i)
  BY <1>u DEF S!Items, S!Stamp
<1>7. /\ stored' \in [1 .. MaxItems -> Nat]
      /\ \A i \in 1 .. MaxItems : stored'[i] # 0 => i \in S!Items
  BY <1>0, <1>2, <1>c DEF SweepsTypes
<1>8. \A i \in S!Items : stored'[i] = IF i \in chunk THEN stored[i] + 1 ELSE stored[i]
  BY <1>1, <1>c
<1>9. ASSUME NEW i \in S!Items, Explained(i) PROVE Explained(i)'
  <2>1. S!InFlight(i) => S!InFlight(i)' \/ stored'[i] # 0
    <3> SUFFICES ASSUME S!InFlight(i) PROVE S!InFlight(i)' \/ stored'[i] # 0
      OBVIOUS
    <3>1. PICK q \in Polls : polls[q].stage = "storing" /\ i \in polls[q].rows
      BY DEF S!InFlight
    <3>2. CASE q # p
      BY <3>1, <3>2, <1>5 DEF S!InFlight
    <3>3. CASE q = p /\ i \in chunk
      BY <3>3, <1>1, <1>8
    <3>4. CASE q = p /\ i \notin chunk
      <4>1. i \in left
        BY <3>1, <3>4 DEF left
      <4> QED BY <4>1, <1>5
    <3> QED BY <3>2, <3>3, <3>4
  <2>2. stored[i] # 0 => stored'[i] # 0
    BY <1>1, <1>8
  <2>3. dropped \subseteq dropped' /\ starts \subseteq starts'
    BY <1>u
  <2> QED BY <2>1, <2>2, <2>3, <1>9, <1>u, StaysExplained
<1>10. SweepsTypes'
  BY <1>0, <1>5, <1>6, <1>7, <1>u DEF SweepsTypes
<1>11. CursorSound'
  BY <1>0, <1>6, <1>9, <1>u DEF CursorSound
<1>12. polls[p].stage # "resting" /\ UNCHANGED <<kind, happened, clock>> /\ starts \subseteq starts'
  BY <1>u
<1>13. PollsSound'
  BY <1>2, <1>4, <1>9, <1>12, OthersGoOn
<1>14. OneAtATime'
  <2> SUFFICES ASSUME ~together', ~restarted' PROVE OneAtATime'
    BY DEF OneAtATime
  <2>1. /\ \A q, r \in Polls : polls[q].stage # "resting" /\ polls[r].stage # "resting" => q = r
        /\ \A i \in S!Items \ early :
             /\ stored[i] # 0 \/ S!InFlight(i) => BehindCursor(i)
             /\ stored[i] <= 1
             /\ S!InFlight(i) => stored[i] = 0
    BY <1>0, <1>u DEF OneAtATime
  <2>2. /\ \A q, r \in Polls : polls'[q].stage # "resting" /\ polls'[r].stage # "resting" => q = r
        /\ \A q \in Polls : Alone(q)'
        /\ \A i : S!InFlight(i)' => i \in left
    BY <2>1, <1>2, <1>4, <1>9, <1>12, OthersGoOn
  <2>3. \A i \in rows : S!InFlight(i)
    BY <1>u DEF S!InFlight
  <2>4. ASSUME NEW i \in S!Items, i \notin early'
        PROVE  /\ stored'[i] # 0 \/ S!InFlight(i)' => BehindCursor(i)'
               /\ stored'[i] <= 1
               /\ S!InFlight(i)' => stored'[i] = 0
    <3>1. i \notin early
      BY <2>4, <1>u
    <3>2. i \in chunk \/ i \in left => stored[i] = 0 /\ BehindCursor(i)
      BY <3>1, <2>1, <2>3, <1>2 DEF left
    <3>3. i \in left => i \notin chunk
      BY DEF left
    <3>4. stored'[i] <= 1 /\ (S!InFlight(i)' => stored'[i] = 0)
      BY <3>1, <3>2, <3>3, <2>1, <2>2, <1>1, <1>8
    <3>5. stored'[i] # 0 \/ S!InFlight(i)' => BehindCursor(i)
      BY <3>1, <3>2, <2>1, <2>2, <1>8
    <3>6. BehindCursor(i)' <=> BehindCursor(i)
      BY <1>6, <1>u DEF BehindCursor
    <3> QED BY <3>4, <3>5, <3>6
  <2> QED BY <2>2, <2>4, <1>6 DEF OneAtATime
<1> QED BY <1>10, <1>11, <1>13, <1>14 DEF SweepsInv

\* A poll that fails loses what it had not stored yet.
LEMMA PollFails == ASSUME SweepsInv, NEW p \in Polls, S!Fails(p) PROVE SweepsInv'
<1>0. SweepsTypes /\ CursorSound /\ PollsSound /\ OneAtATime
  BY DEF SweepsInv
<1>u. /\ polls[p].stage # "resting"
      /\ polls' = [polls EXCEPT ![p] = S!Resting]
      /\ dropped' = IF polls[p].stage = "storing" THEN dropped \cup polls[p].rows ELSE dropped
      /\ UNCHANGED <<kind, clock, happened, rotated, cursor, stored, starts, early, together,
                     restarted>>
  BY DEF S!Fails, S!world
<1>1. S!Storing(p, {})
  BY <1>u DEF S!Storing
<1>2. polls \in [Polls -> PollShape]
  BY <1>0 DEF SweepsTypes
<1>3. /\ polls' \in [Polls -> PollShape]
      /\ \A q \in Polls \ {p} : polls'[q] = polls[q]
      /\ polls'[p].stage = "resting"
  BY <1>2, <1>u, RestingIs
<1>4. S!Items' = S!Items /\ \A i : S!Stamp(i)' = S!Stamp(i)
  BY <1>u DEF S!Items, S!Stamp
<1>5. ASSUME NEW i \in S!Items, Explained(i) PROVE Explained(i)'
  <2>1. S!InFlight(i) => S!InFlight(i)' \/ i \in dropped'
    <3> SUFFICES ASSUME S!InFlight(i) PROVE S!InFlight(i)' \/ i \in dropped'
      OBVIOUS
    <3>1. PICK q \in Polls : polls[q].stage = "storing" /\ i \in polls[q].rows
      BY DEF S!InFlight
    <3>2. CASE q # p
      BY <3>1, <3>2, <1>3 DEF S!InFlight
    <3>3. CASE q = p
      BY <3>1, <3>3, <1>u
    <3> QED BY <3>2, <3>3
  <2>2. dropped \subseteq dropped' /\ starts \subseteq starts'
    BY <1>u
  <2> QED BY <2>1, <2>2, <1>5, <1>u, StaysExplained
<1>6. SweepsTypes'
  BY <1>0, <1>3, <1>4, <1>u DEF SweepsTypes
<1>7. CursorSound'
  BY <1>0, <1>4, <1>5, <1>u DEF CursorSound
<1>8. UNCHANGED <<kind, happened, clock>> /\ starts \subseteq starts' /\ {} \subseteq S!Items
  BY <1>u
<1>9. PollsSound'
  BY <1>1, <1>5, <1>8, <1>u, OthersGoOn
<1>10. OneAtATime'
  <2> SUFFICES ASSUME ~together', ~restarted' PROVE OneAtATime'
    BY DEF OneAtATime
  <2>1. /\ \A q, r \in Polls : polls[q].stage # "resting" /\ polls[r].stage # "resting" => q = r
        /\ \A i \in S!Items \ early : (stored[i] # 0 => BehindCursor(i)) /\ stored[i] <= 1
    BY <1>0, <1>u DEF OneAtATime
  <2>2. /\ \A q, r \in Polls : polls'[q].stage # "resting" /\ polls'[r].stage # "resting" => q = r
        /\ \A q \in Polls : Alone(q)'
        /\ \A i : S!InFlight(i)' => i \in {}
    BY <2>1, <1>1, <1>5, <1>8, <1>u, OthersGoOn
  <2>3. \A i : ~S!InFlight(i)'
    BY <2>2
  <2>4. \A i : BehindCursor(i)' <=> BehindCursor(i)
    BY <1>4, <1>u DEF BehindCursor
  <2>5. \A i \in S!Items' \ early' :
          /\ stored'[i] # 0 \/ S!InFlight(i)' => BehindCursor(i)'
          /\ stored'[i] <= 1
          /\ S!InFlight(i)' => stored'[i] = 0
    BY <2>1, <2>3, <2>4, <1>4, <1>u
  <2> QED BY <2>2, <2>5 DEF OneAtATime
<1> QED BY <1>6, <1>7, <1>9, <1>10 DEF SweepsInv

\* The process is replaced: what was in flight is lost, and the cursor with it.
LEMMA SweepsRestart == ASSUME SweepsInv, S!Restart PROVE SweepsInv'
<1>0. SweepsTypes
  BY DEF SweepsInv
<1>u. /\ cursor' = 0 /\ polls' = [p \in Polls |-> S!Resting] /\ restarted' = TRUE
      /\ UNCHANGED <<kind, clock, happened, rotated, stored, starts>>
  BY DEF S!Restart, S!world
<1>1. polls' \in [Polls -> PollShape] /\ \A p \in Polls : polls'[p].stage = "resting"
  BY <1>u, RestingIs
<1>2. S!Items' = S!Items /\ \A i : S!Stamp(i)' = S!Stamp(i)
  BY <1>u DEF S!Items, S!Stamp
<1>3. SweepsTypes'
  BY <1>0, <1>1, <1>2, <1>u DEF SweepsTypes
<1>4. CursorSound'
  <2>1. Len(happened) \in Nat /\ S!Items = 1 .. Len(happened)
    BY <1>0, ItemsAre
  <2> QED BY <2>1, <1>2, <1>u DEF CursorSound
<1>5. PollsSound'
  BY <1>1 DEF PollsSound, SetsOut, AnswerSound, StoringSound
<1>6. OneAtATime'
  BY <1>u DEF OneAtATime
<1> QED BY <1>3, <1>4, <1>5, <1>6 DEF SweepsInv

\* Something happens: it is stamped with the second it falls in or its moment, and if a
\* sweep that moved the cursor had started in that second, that accounts for it.
LEMMA ItemHappens == ASSUME SweepsInv, S!Happen PROVE SweepsInv'
<1>0. SweepsTypes /\ CursorSound /\ PollsSound /\ OneAtATime
  BY DEF SweepsInv
<1>1. /\ Len(happened) \in Nat /\ S!Items = 1 .. Len(happened) /\ S!Items \subseteq 1 .. MaxItems
      /\ \A i \in S!Items : happened[i].at \in Nat /\ S!Stamp(i) \in Nat
  BY <1>0, ItemsAre
<1>u. /\ Len(happened) < MaxItems
      /\ UNCHANGED <<kind, clock, rotated, cursor, polls, stored, starts, early, dropped, together,
                     restarted>>
  BY DEF S!Happen, S!ghosts
<1>2. clock \in Nat /\ MaxItems \in Nat /\ cursor \in Nat
  BY <1>0, SweepsConstants DEF SweepsTypes
<1>c. PICK stamp \in S!Stamps(clock) :
        happened' = Append(happened, [at |-> clock, stamp |-> stamp])
  BY DEF S!Happen
<1>3. stamp \in Nat /\ stamp <= clock
  BY <1>2 DEF S!Stamps
<1> DEFINE item == [at |-> clock, stamp |-> stamp]
<1>n. PICK new : new = Len(happened) + 1
  OBVIOUS
<1>4. item \in [at : Nat, stamp : Nat] /\ item.at = clock /\ item.stamp = stamp
  BY <1>2, <1>3
<1> HIDE DEF item
<1>5. /\ happened' \in Seq([at : Nat, stamp : Nat]) /\ Len(happened') = Len(happened) + 1
      /\ happened'[new] = item
      /\ \A i \in 1 .. Len(happened) : happened'[i] = happened[i]
  BY <1>0, <1>4, <1>c, <1>n, AppendProperties DEF SweepsTypes, item
<1>6. /\ S!Items' = S!Items \cup {new} /\ new \notin S!Items
      /\ \A i \in S!Items : S!Stamp(i)' = S!Stamp(i) /\ happened'[i] = happened[i]
      /\ S!Stamp(new)' = stamp /\ happened'[new].at = clock
  BY <1>1, <1>4, <1>5, <1>n DEF S!Items, S!Stamp
<1>7. \A i : S!InFlight(i)' <=> S!InFlight(i)
  BY <1>u DEF S!InFlight
<1>8. ASSUME NEW i \in S!Items, Explained(i) PROVE Explained(i)'
  BY <1>6, <1>7, <1>8, <1>u, StaysExplained
<1>9. ASSUME kind = "events", NEW s \in starts, s <= clock, stamp <= s PROVE Explained(new)'
  BY <1>6, <1>9, <1>u DEF Explained
<1>10. SweepsTypes'
  <2>1. /\ Len(happened') <= MaxItems
        /\ \A i \in 1 .. MaxItems : stored[i] # 0 => i \in S!Items'
    BY <1>0, <1>1, <1>2, <1>5, <1>6, <1>u DEF SweepsTypes
  <2>2. \A i \in S!Items' : S!Stamp(i)' <= happened'[i].at /\ happened'[i].at <= clock
    BY <1>0, <1>2, <1>3, <1>6 DEF SweepsTypes
  <2> QED BY <2>1, <2>2, <1>0, <1>5, <1>u DEF SweepsTypes
<1>11. CursorSound'
  <2>1. CASE kind = "events" /\ cursor # 0
    <3>1. /\ cursor \in starts /\ cursor <= clock
          /\ \A i \in S!Items : S!Stamp(i) <= cursor => Explained(i)
      BY <2>1, <1>0 DEF CursorSound
    <3>2. \A i \in S!Items' : S!Stamp(i)' <= cursor => Explained(i)'
      BY <3>1, <2>1, <1>6, <1>8, <1>9
    <3> QED BY <3>1, <3>2, <2>1, <1>u DEF CursorSound
  <2>2. CASE kind = "events" /\ cursor = 0
    BY <2>2, <1>u DEF CursorSound
  <2>3. CASE kind # "events"
    <3>1. cursor <= Len(happened) /\ \A i \in S!Items : i <= cursor => Explained(i)
      BY <2>3, <1>0 DEF CursorSound
    <3>2. \A i \in S!Items' : i <= cursor => i \in S!Items
      BY <3>1, <1>1, <1>2, <1>6, <1>n
    <3>3. cursor <= Len(happened')
      BY <3>1, <1>1, <1>2, <1>5
    <3> QED BY <3>1, <3>2, <3>3, <2>3, <1>8, <1>u DEF CursorSound
  <2> QED BY <2>1, <2>2, <2>3
<1>12. PollsSound'
  <2> SUFFICES ASSUME NEW p \in Polls PROVE SetsOut(p)' /\ AnswerSound(p)' /\ StoringSound(p)'
    BY DEF PollsSound
  <2>0. SetsOut(p) /\ AnswerSound(p) /\ StoringSound(p) /\ polls[p] \in PollShape
    BY <1>0 DEF PollsSound, SweepsTypes
  <2>1. SetsOut(p)'
    <3> SUFFICES ASSUME kind = "events", polls[p].stage \in {"asking", "answered"}, ~polls[p].first
                 PROVE  \A i \in S!Items' : S!Stamp(i)' <= polls[p].since => Explained(i)'
      BY <2>0, <1>u DEF SetsOut
    <3>1. /\ polls[p].since \in starts /\ polls[p].since <= clock
          /\ \A i \in S!Items : S!Stamp(i) <= polls[p].since => Explained(i)
      BY <2>0 DEF SetsOut
    <3> QED BY <3>1, <1>6, <1>8, <1>9
  <2>2. AnswerSound(p)'
    <3> SUFFICES ASSUME polls[p].stage = "answered" PROVE AnswerSound(p)'
      BY <1>u DEF AnswerSound
    <3>1. polls[p].seen \in Nat /\ polls[p].now \in Nat /\ polls[p].seen <= Len(happened)
      BY <2>0 DEF AnswerSound, PollShape
    <3>2. polls[p].seen <= Len(happened') /\ \A i \in 1 .. polls[p].seen : i \in S!Items
      BY <3>1, <1>1, <1>5
    <3>3. kind = "events" => polls[p].now <= clock
      BY <2>0 DEF SetsOut
    <3>4. kind = "events" =>
            /\ \A i \in 1 .. polls[p].seen :
                 i \in polls[p].rows <=> S!Stamp(i)' > polls[p].since
            /\ \A i \in S!Items' : i > polls[p].seen => happened'[i].at >= polls[p].now
      BY <3>1, <3>2, <3>3, <2>0, <1>2, <1>6 DEF AnswerSound
    <3> QED BY <3>2, <3>4, <2>0, <1>u DEF AnswerSound
  <2>3. StoringSound(p)'
    BY <2>0, <1>6, <1>u DEF StoringSound
  <2> QED BY <2>1, <2>2, <2>3
<1>13. OneAtATime'
  <2> SUFFICES ASSUME ~together', ~restarted' PROVE OneAtATime'
    BY DEF OneAtATime
  <2>1. /\ \A q, r \in Polls : polls[q].stage # "resting" /\ polls[r].stage # "resting" => q = r
        /\ \A q \in Polls : Alone(q)
        /\ \A i \in S!Items \ early :
             /\ stored[i] # 0 \/ S!InFlight(i) => BehindCursor(i)
             /\ stored[i] <= 1
             /\ S!InFlight(i) => stored[i] = 0
    BY <1>0, <1>u DEF OneAtATime
  <2>2. \A q \in Polls : Alone(q)'
    BY <2>1, <1>u DEF Alone
  <2>3. \A i \in S!Items : BehindCursor(i)' <=> BehindCursor(i)
    BY <1>6, <1>u DEF BehindCursor
  <2>4. stored[new] = 0 /\ ~S!InFlight(new)
    <3>1. new \in 1 .. MaxItems
      BY <1>1, <1>2, <1>n, <1>u
    <3>2. stored[new] = 0
      BY <3>1, <1>0, <1>6 DEF SweepsTypes
    <3>3. ~S!InFlight(new)
      BY <1>0, <1>6 DEF PollsSound, StoringSound, S!InFlight
    <3> QED BY <3>2, <3>3
  <2> QED BY <2>1, <2>2, <2>3, <2>4, <1>6, <1>7, <1>u DEF OneAtATime
<1> QED BY <1>10, <1>11, <1>12, <1>13 DEF SweepsInv

LEMMA SweepsStep == ASSUME SweepsInv, S!Next PROVE SweepsInv'
  BY PollStarts, PollReads, EventsAreSwept, LinesAreRead, RowsAreStored, PollFails, ItemHappens,
     LogOrClockMoves, SweepsRestart
  DEF S!Next

LEMMA SweepsStutter ==
  ASSUME SweepsInv, UNCHANGED <<clock, rotated, ofSweeps>>
  PROVE  SweepsInv'
<1> USE DEF ofSweeps
<1>1. UNCHANGED <<kind, happened, cursor, stored, starts, early, dropped, polls, clock, rotated,
                  together, restarted>>
  OBVIOUS
<1>2. /\ S!Items' = S!Items /\ \A i : S!Stamp(i)' = S!Stamp(i)
      /\ \A i : S!InFlight(i)' <=> S!InFlight(i)
  BY <1>1 DEF S!Items, S!Stamp, S!InFlight
<1>3. \A i : Explained(i)' <=> Explained(i)
  BY <1>1, <1>2 DEF Explained
<1>4. SweepsTypes' /\ CursorSound'
  BY <1>1, <1>2, <1>3 DEF SweepsInv, SweepsTypes, CursorSound
<1>5. PollsSound'
  BY <1>1, <1>2, <1>3 DEF SweepsInv, PollsSound, SetsOut, AnswerSound, StoringSound
<1>6. OneAtATime'
  BY <1>1, <1>2 DEF SweepsInv, OneAtATime, Alone, BehindCursor
<1> QED BY <1>4, <1>5, <1>6 DEF SweepsInv

\* What the properties say is in the invariant.
LEMMA SweepsHold == ASSUME SweepsInv PROVE S!TwiceIsExplained /\ S!SkippedIsExplained
<1>0. /\ Len(happened) \in Nat /\ S!Items = 1 .. Len(happened)
      /\ \A i \in S!Items : stored[i] \in Nat
  BY ItemsAre DEF SweepsInv
<1>1. S!TwiceIsExplained
  BY <1>0 DEF SweepsInv, OneAtATime, S!TwiceIsExplained
<1>2. S!SkippedIsExplained
  BY DEF SweepsInv, CursorSound, Explained, S!SkippedIsExplained
<1> QED BY <1>1, <1>2

-----------------------------------------------------------------------------
(* The file of a facet: the inductive invariant.                           *)

\* The rows yet to be read.
Rest == {store[k] : k \in offset + 1 .. Len(store)}

FileTypes ==
  /\ store \in Seq(Rows) /\ offset \in Nat /\ file \in Seq(Rows)
  /\ IsFiniteSet(arrived) /\ faults \in Nat /\ format \in {"csv", "json"}
  /\ response = "idle" => offset = 0 /\ file = <<>> /\ arrived = {}
  /\ response \in {"idle", "open"} => faults = 0 /\ ~closed

\* A row is in the table once.
NoTwins == \A j, k \in 1 .. Len(store) : store[j] = store[k] => j = k

\* What is repeated, and what is yet to be, came meanwhile.
RepeatsArrived ==
  /\ Len(file) <= CAP
  /\ X!Repeated + Cardinality(Rest \cap X!Range(file)) <= Cardinality(arrived)

\* Of a file that goes on, the rows that stayed are written as far as it has come.
WrittenSoFar ==
  response = "open" /\ ~replaced =>
    /\ stayed \subseteq X!Range(store)
    /\ Len(file) < CAP =>
         \A k \in 1 .. Len(store) :
           k <= offset /\ store[k] \in stayed => store[k] \in X!Range(file)

\* A row that is written comes after all that stayed and stand before it.
HolesFree ==
  ~replaced =>
    \A j, k \in 1 .. Len(store) :
      /\ j < k /\ store[j] \in stayed
      /\ store[k] \in stayed /\ store[k] \in X!Range(file)
      => store[j] \in X!Range(file)

\* A file that came to its end has them all, unless it is full or a query failed; and then
\* it lacks the last bracket.
WholeAtLast ==
  response = "ended" =>
    /\ ~replaced => stayed \subseteq X!Range(file) \/ Len(file) = CAP \/ faults > 0
    /\ closed => faults = 0

FileInv == FileTypes /\ NoTwins /\ RepeatsArrived /\ WrittenSoFar /\ HolesFree /\ WholeAtLast

-----------------------------------------------------------------------------
(* Sequences and what is in them.                                          *)

LEMMA FileConstants ==
  /\ \A s \in Stores : s \in Seq(Rows) /\ \A j, k \in DOMAIN s : s[j] = s[k] => j = k
  /\ MAX_PAGE \in Nat \ {0} /\ CAP \in Nat
  BY ExportAssumption DEF X!ExportAssumption, X!IsInjective

LEMMA FileCounting ==
  \A set : X!Cardinality(set) = Cardinality(set)
  BY DEF X!Cardinality, Cardinality, X!IsFiniteSet, IsFiniteSet

LEMMA RangeIs ==
  ASSUME NEW s \in Seq(Rows)
  PROVE  /\ Len(s) \in Nat
         /\ X!Range(s) = {s[k] : k \in 1 .. Len(s)}
         /\ \A k \in 1 .. Len(s) : s[k] \in X!Range(s)
         /\ \A row \in X!Range(s) : \E k \in 1 .. Len(s) : s[k] = row
         /\ IsFiniteSet(X!Range(s)) /\ Cardinality(X!Range(s)) <= Len(s)
<1>1. Len(s) \in Nat /\ DOMAIN s = 1 .. Len(s)
  BY LenProperties
<1>2. X!Range(s) = {s[k] : k \in 1 .. Len(s)}
  BY <1>1 DEF X!Range
<1>3. IsFiniteSet(1 .. Len(s)) /\ Cardinality(1 .. Len(s)) = Len(s)
  BY <1>1, FS_Interval
<1>4. IsFiniteSet(X!Range(s)) /\ Cardinality(X!Range(s)) <= Len(s)
  <2>1. s \in Surjection(1 .. Len(s), X!Range(s))
    BY <1>1, <1>2 DEF Surjection
  <2> QED BY <2>1, <1>3, FS_Surjection
<1> QED BY <1>1, <1>2, <1>4

\* What is in n places after m of a sequence.
Stretch(f, m, n) == {f[k] : k \in m + 1 .. m + n}

\* A finite set listed without repetition has as many members as the list.
LEMMA Listed ==
  ASSUME NEW n \in Nat, NEW f, NEW m \in Nat,
         \A j, k \in m + 1 .. m + n : f[j] = f[k] => j = k
  PROVE  IsFiniteSet(Stretch(f, m, n)) /\ Cardinality(Stretch(f, m, n)) = n
<1> DEFINE g == [k \in m + 1 .. m + n |-> f[k]]
           set == {f[k] : k \in m + 1 .. m + n}
<1>1. IsFiniteSet(m + 1 .. m + n) /\ Cardinality(m + 1 .. m + n) = n
  <2>1. m + 1 \in Int /\ m + n \in Int /\ (m + 1 > m + n <=> n = 0)
    OBVIOUS
  <2>2. Cardinality(m + 1 .. m + n) = IF m + 1 > m + n THEN 0 ELSE (m + n) - (m + 1) + 1
    BY <2>1, FS_Interval
  <2>3. IsFiniteSet(m + 1 .. m + n)
    BY <2>1, FS_Interval
  <2> QED BY <2>1, <2>2, <2>3
<1>2. g \in Bijection(m + 1 .. m + n, set)
  <2>1. g \in [m + 1 .. m + n -> set]
    OBVIOUS
  <2>2. \A j, k \in m + 1 .. m + n : g[j] = g[k] => j = k
    OBVIOUS
  <2>3. \A x \in set : \E k \in m + 1 .. m + n : g[k] = x
    OBVIOUS
  <2> QED BY <2>1, <2>2, <2>3 DEF Bijection, Injection, Surjection, IsInjective
<1>3. ExistsBijection(m + 1 .. m + n, set)
  BY <1>2 DEF ExistsBijection
<1> QED BY <1>1, <1>3, FS_Bijection DEF Stretch

\* A part of a sequence.
LEMMA PartIs ==
  ASSUME NEW s \in Seq(Rows), NEW i \in Nat, NEW j \in Nat, i >= 1, j <= Len(s), i <= j + 1
  PROVE  /\ SubSeq(s, i, j) \in Seq(Rows)
         /\ Len(SubSeq(s, i, j)) = j - i + 1
         /\ \A k \in 1 .. j - i + 1 : SubSeq(s, i, j)[k] = s[i + k - 1]
<1>1. Len(s) \in Nat /\ \A k \in 1 .. Len(s) : s[k] \in Rows
  BY LenProperties
<1>2. \A k \in i .. j : s[k] \in Rows
  BY <1>1
<1>3. /\ SubSeq(s, i, j) \in Seq(Rows)
      /\ Len(SubSeq(s, i, j)) = IF i <= j THEN j - i + 1 ELSE 0
      /\ \A k \in 1 .. j - i + 1 : SubSeq(s, i, j)[k] = s[i + k - 1]
  BY <1>2, SubSeqProperties
<1> QED BY <1>3

LEMMA InsertedIs ==
  ASSUME NEW s \in Seq(Rows), NEW i \in 1 .. Len(s) + 1, NEW row \in Rows,
         NEW t, t = X!InsertAt(s, i, row)
  PROVE  /\ t \in Seq(Rows) /\ Len(t) = Len(s) + 1
         /\ \A k \in 1 .. Len(t) :
              t[k] = IF k < i THEN s[k] ELSE IF k = i THEN row ELSE s[k - 1]
<1>0. Len(s) \in Nat /\ i \in Nat /\ i >= 1 /\ i <= Len(s) + 1 /\ i - 1 \in Nat
  BY LenProperties
<1> DEFINE a == SubSeq(s, 1, i - 1)  z == SubSeq(s, i, Len(s))  b == a \o <<row>>
<1>1. /\ a \in Seq(Rows) /\ Len(a) = i - 1
      /\ \A k \in 1 .. i - 1 : a[k] = s[k]
  <2>1. /\ a \in Seq(Rows) /\ Len(a) = (i - 1) - 1 + 1
        /\ \A k \in 1 .. (i - 1) - 1 + 1 : a[k] = s[1 + k - 1]
    BY <1>0, PartIs
  <2> QED BY <1>0, <2>1
<1>2. /\ z \in Seq(Rows) /\ Len(z) = Len(s) - i + 1
      /\ \A k \in 1 .. Len(s) - i + 1 : z[k] = s[i + k - 1]
  BY <1>0, PartIs
<1>3. <<row>> \in Seq(Rows) /\ Len(<<row>>) = 1 /\ <<row>>[1] = row
  OBVIOUS
<1> HIDE DEF a, z
<1>4. /\ b \in Seq(Rows) /\ Len(b) = i
      /\ \A k \in 1 .. i : b[k] = IF k <= i - 1 THEN s[k] ELSE row
  <2>1. /\ b \in Seq(Rows) /\ Len(b) = Len(a) + 1
        /\ \A k \in 1 .. Len(a) + 1 :
             b[k] = IF k <= Len(a) THEN a[k] ELSE <<row>>[k - Len(a)]
    BY <1>1, <1>3, ConcatProperties
  <2>2. \A k \in 1 .. i : ~(k <= i - 1) => k - (i - 1) = 1
    BY <1>0
  <2> QED BY <1>0, <1>1, <1>3, <2>1, <2>2
<1> HIDE DEF b
<1>5. t = b \o z
  BY DEF X!InsertAt, b, a, z
<1>6. /\ t \in Seq(Rows) /\ Len(t) = Len(b) + Len(z)
      /\ \A k \in 1 .. Len(b) + Len(z) : t[k] = IF k <= Len(b) THEN b[k] ELSE z[k - Len(b)]
  <2>1. /\ b \o z \in Seq(Rows) /\ Len(b \o z) = Len(b) + Len(z)
        /\ \A k \in 1 .. Len(b) + Len(z) :
             (b \o z)[k] = IF k <= Len(b) THEN b[k] ELSE z[k - Len(b)]
    BY <1>2, <1>4, ConcatProperties
  <2> QED BY <1>5, <2>1
<1>7. Len(t) = Len(s) + 1
  BY <1>0, <1>2, <1>4, <1>6
<1>8. ASSUME NEW k \in 1 .. Len(t)
      PROVE  t[k] = IF k < i THEN s[k] ELSE IF k = i THEN row ELSE s[k - 1]
  <2>1. CASE k <= i
    <3>1. t[k] = b[k] /\ k \in 1 .. i
      BY <1>0, <1>2, <1>4, <1>6, <2>1
    <3> QED BY <1>0, <1>4, <3>1
  <2>2. CASE k > i
    <3>1. t[k] = z[k - i] /\ k - i \in 1 .. Len(s) - i + 1
      BY <1>0, <1>2, <1>4, <1>6, <1>7, <2>2
    <3>2. z[k - i] = s[i + (k - i) - 1] /\ i + (k - i) - 1 = k - 1
      BY <1>0, <1>2, <3>1
    <3> QED BY <1>0, <2>2, <3>1, <3>2
  <2> QED BY <1>0, <1>7, <2>1, <2>2
<1> QED BY <1>6, <1>7, <1>8

LEMMA RemovedIs ==
  ASSUME NEW s \in Seq(Rows), NEW i \in 1 .. Len(s), NEW t, t = X!RemoveAt(s, i)
  PROVE  /\ t \in Seq(Rows) /\ Len(t) = Len(s) - 1
         /\ \A k \in 1 .. Len(t) : t[k] = IF k < i THEN s[k] ELSE s[k + 1]
<1>0. Len(s) \in Nat /\ i \in Nat /\ i >= 1 /\ i <= Len(s) /\ i - 1 \in Nat
  BY LenProperties
<1> DEFINE a == SubSeq(s, 1, i - 1)  z == SubSeq(s, i + 1, Len(s))
<1>1. /\ a \in Seq(Rows) /\ Len(a) = i - 1
      /\ \A k \in 1 .. i - 1 : a[k] = s[k]
  <2>1. /\ a \in Seq(Rows) /\ Len(a) = (i - 1) - 1 + 1
        /\ \A k \in 1 .. (i - 1) - 1 + 1 : a[k] = s[1 + k - 1]
    BY <1>0, PartIs
  <2> QED BY <1>0, <2>1
<1>2. /\ z \in Seq(Rows) /\ Len(z) = Len(s) - i
      /\ \A k \in 1 .. Len(s) - i : z[k] = s[i + k]
  <2>1. /\ z \in Seq(Rows) /\ Len(z) = Len(s) - (i + 1) + 1
        /\ \A k \in 1 .. Len(s) - (i + 1) + 1 : z[k] = s[(i + 1) + k - 1]
    BY <1>0, PartIs
  <2> QED BY <1>0, <2>1
<1> HIDE DEF a, z
<1>3. t = a \o z
  BY DEF X!RemoveAt, a, z
<1>4. /\ t \in Seq(Rows) /\ Len(t) = Len(a) + Len(z)
      /\ \A k \in 1 .. Len(a) + Len(z) : t[k] = IF k <= Len(a) THEN a[k] ELSE z[k - Len(a)]
  <2>1. /\ a \o z \in Seq(Rows) /\ Len(a \o z) = Len(a) + Len(z)
        /\ \A k \in 1 .. Len(a) + Len(z) :
             (a \o z)[k] = IF k <= Len(a) THEN a[k] ELSE z[k - Len(a)]
    BY <1>1, <1>2, ConcatProperties
  <2> QED BY <1>3, <2>1
<1>5. Len(t) = Len(s) - 1
  BY <1>0, <1>1, <1>2, <1>4
<1>6. ASSUME NEW k \in 1 .. Len(t) PROVE t[k] = IF k < i THEN s[k] ELSE s[k + 1]
  <2>1. CASE k < i
    BY <1>0, <1>1, <1>2, <1>4, <2>1
  <2>2. CASE k >= i
    <3>1. t[k] = z[k - (i - 1)] /\ k - (i - 1) \in 1 .. Len(s) - i
      BY <1>0, <1>1, <1>2, <1>4, <1>5, <2>2
    <3>2. z[k - (i - 1)] = s[i + (k - (i - 1))] /\ i + (k - (i - 1)) = k + 1
      BY <1>0, <1>2, <3>1
    <3> QED BY <1>0, <2>2, <3>1, <3>2
  <2> QED BY <1>0, <1>5, <2>1, <2>2
<1> QED BY <1>4, <1>5, <1>6

\* One more member makes a count one more at most.
LEMMA OneMore ==
  ASSUME NEW A, NEW B, NEW x, NEW F, IsFiniteSet(F), A \subseteq B \cup {x}
  PROVE  /\ Cardinality(A \cap F) \in Nat /\ Cardinality(B \cap F) \in Nat
         /\ Cardinality(A \cap F) <= Cardinality(B \cap F) + 1
<1>1. IsFiniteSet(A \cap F) /\ IsFiniteSet(B \cap F)
  BY FS_Intersection
<1>2. Cardinality(A \cap F) \in Nat /\ Cardinality(B \cap F) \in Nat
  BY <1>1, FS_CardinalityType
<1>3. /\ IsFiniteSet((B \cap F) \cup {x})
      /\ Cardinality((B \cap F) \cup {x}) <= Cardinality(B \cap F) + 1
  BY <1>1, <1>2, FS_AddElement
<1>4. A \cap F \in SUBSET ((B \cap F) \cup {x})
  OBVIOUS
<1>5. Cardinality(A \cap F) <= Cardinality((B \cap F) \cup {x})
  BY <1>3, <1>4, FS_Subset
<1>6. Cardinality((B \cap F) \cup {x}) \in Nat
  BY <1>3, FS_CardinalityType
<1> QED BY <1>2, <1>3, <1>5, <1>6

LEMMA NoMore ==
  ASSUME NEW A, NEW B, NEW F, IsFiniteSet(F), A \subseteq B
  PROVE  /\ Cardinality(A \cap F) \in Nat /\ Cardinality(B \cap F) \in Nat
         /\ Cardinality(A \cap F) <= Cardinality(B \cap F)
<1>1. IsFiniteSet(A \cap F) /\ IsFiniteSet(B \cap F)
  BY FS_Intersection
<1>2. A \cap F \in SUBSET (B \cap F)
  OBVIOUS
<1> QED BY <1>1, <1>2, FS_CardinalityType, FS_Subset

-----------------------------------------------------------------------------
(* Every step of a download keeps the invariant.                           *)

LEMMA FileBasics ==
  ASSUME FileInv
  PROVE  /\ store \in Seq(Rows) /\ file \in Seq(Rows) /\ offset \in Nat /\ IsFiniteSet(arrived)
         /\ Len(store) \in Nat /\ Len(file) \in Nat /\ Len(file) <= CAP
         /\ CAP \in Nat /\ MAX_PAGE \in Nat /\ MAX_PAGE >= 1
         /\ IsFiniteSet(X!Range(file)) /\ Cardinality(X!Range(file)) \in Nat
         /\ Cardinality(X!Range(file)) <= Len(file)
         /\ X!Repeated = Len(file) - Cardinality(X!Range(file))
         /\ Cardinality(arrived) \in Nat
         /\ Cardinality(Rest \cap X!Range(file)) \in Nat
<1>1. store \in Seq(Rows) /\ file \in Seq(Rows) /\ offset \in Nat /\ IsFiniteSet(arrived)
  BY DEF FileInv, FileTypes
<1>2. /\ Len(store) \in Nat /\ Len(file) \in Nat /\ IsFiniteSet(X!Range(file))
      /\ Cardinality(X!Range(file)) <= Len(file)
  BY <1>1, RangeIs
<1>3. X!Repeated = Len(file) - Cardinality(X!Range(file))
  BY FileCounting DEF X!Repeated
<1>4. IsFiniteSet(Rest \cap X!Range(file))
  BY <1>2, FS_Intersection
<1>5. /\ Cardinality(X!Range(file)) \in Nat /\ Cardinality(arrived) \in Nat
      /\ Cardinality(Rest \cap X!Range(file)) \in Nat
  BY <1>1, <1>2, <1>4, FS_CardinalityType
<1>6. CAP \in Nat /\ MAX_PAGE \in Nat /\ MAX_PAGE >= 1
  BY FileConstants
<1>7. Len(file) <= CAP
  BY DEF FileInv, RepeatsArrived
<1> QED BY <1>1, <1>2, <1>3, <1>5, <1>6, <1>7

LEMMA FileStart == X!Init => FileInv
<1> SUFFICES ASSUME X!Init PROVE FileInv
  OBVIOUS
<1>1. /\ store \in Stores /\ offset = 0 /\ file = <<>> /\ response = "idle"
      /\ stayed = {} /\ arrived = {} /\ faults = 0 /\ ~closed
      /\ format = "json"
  BY DEF X!Init
<1>2. store \in Seq(Rows) /\ \A j, k \in DOMAIN store : store[j] = store[k] => j = k
  BY <1>1, FileConstants
<1>3. DOMAIN store = 1 .. Len(store) /\ <<>> \in Seq(Rows) /\ Len(<<>>) = 0
  BY <1>2, LenProperties, EmptySeq
<1>4. FileTypes /\ NoTwins
  BY <1>1, <1>2, <1>3, FS_EmptySet DEF FileTypes, NoTwins
<1>5. RepeatsArrived
  <2>1. X!Range(file) = {}
    BY <1>1, <1>3 DEF X!Range
  <2>2. Rest \cap X!Range(file) = {}
    BY <2>1
  <2>3. X!Repeated = 0
    BY <1>1, <1>3, <2>1, FileCounting, FS_EmptySet DEF X!Repeated
  <2>4. Cardinality(arrived) = 0 /\ Cardinality(Rest \cap X!Range(file)) = 0
    BY <1>1, <2>2, FS_EmptySet
  <2> QED BY <1>1, <1>3, <2>3, <2>4, FileConstants DEF RepeatsArrived
<1>6. WrittenSoFar /\ HolesFree /\ WholeAtLast
  BY <1>1 DEF WrittenSoFar, HolesFree, WholeAtLast
<1> QED BY <1>4, <1>5, <1>6 DEF FileInv

LEMMA FileAsked ==
  ASSUME FileInv, \E form \in {"csv", "json"} : X!Ask(form)
  PROVE  FileInv'
<1>1. /\ response = "idle" /\ response' = "open" /\ stayed' = X!Range(store)
      /\ UNCHANGED <<store, offset, file, closed, arrived, replaced, faults>>
      /\ format' \in {"csv", "json"}
  BY DEF X!Ask
<1>0. offset = 0 /\ file = <<>>
  BY <1>1 DEF FileInv, FileTypes
<1>2. Rest' = Rest /\ X!Range(store)' = X!Range(store) /\ X!Range(file)' = X!Range(file)
      /\ X!Repeated' = X!Repeated
  BY <1>1 DEF Rest, X!Range, X!Repeated
<1>3. FileTypes' /\ NoTwins' /\ RepeatsArrived'
  BY <1>1, <1>2 DEF FileInv, FileTypes, NoTwins, RepeatsArrived
<1>4. WrittenSoFar'
  BY <1>0, <1>1, <1>2 DEF WrittenSoFar
<1>5. WholeAtLast'
  BY <1>1 DEF WholeAtLast
<1>6. HolesFree'
  <2>1. X!Range(file') = {}
    BY <1>0, <1>1 DEF X!Range
  <2> QED BY <2>1 DEF HolesFree
<1> QED BY <1>3, <1>4, <1>5, <1>6 DEF FileInv

\* The end of a file, whole or not: what is written stays.
LEMMA FileStops ==
  ASSUME FileInv, response = "open", response' # "open", response' # "idle",
         faults' \in Nat, closed' => faults' = 0,
         ~replaced => stayed \subseteq X!Range(file) \/ Len(file) = CAP \/ faults' > 0,
         UNCHANGED <<store, offset, file, format, stayed, arrived, replaced>>
  PROVE  FileInv'
<1>2. Rest' = Rest /\ X!Range(file)' = X!Range(file) /\ X!Repeated' = X!Repeated
  BY DEF Rest, X!Range, X!Repeated
<1>3. FileTypes' /\ NoTwins' /\ RepeatsArrived'
  BY <1>2 DEF FileInv, FileTypes, NoTwins, RepeatsArrived
<1>4. WrittenSoFar' /\ HolesFree' /\ WholeAtLast'
  BY <1>2 DEF FileInv, WrittenSoFar, HolesFree, WholeAtLast
<1> QED BY <1>3, <1>4 DEF FileInv

\* What a page holds: nothing only when all has been read.
LEMMA PageHolds ==
  ASSUME FileInv
  PROVE  /\ X!Page = <<>> => offset >= Len(store)
         /\ offset >= Len(store) => X!Page = <<>>
         /\ offset < Len(store) =>
              \E p \in 1 .. Len(store) - offset :
                /\ X!Page \in Seq(Rows) /\ Len(X!Page) = p
                /\ \A k \in 1 .. p : X!Page[k] = store[offset + k]
<1> DEFINE n == Len(store)  m == X!SmallerOf(offset + MAX_PAGE, n)
<1>0. n \in Nat /\ offset \in Nat /\ MAX_PAGE \in Nat /\ MAX_PAGE >= 1 /\ store \in Seq(Rows)
  BY FileBasics
<1>1. m \in Nat /\ m <= n /\ (offset < n => m > offset) /\ (offset >= n => m <= offset)
  BY <1>0 DEF X!SmallerOf
<1>2. X!Page = SubSeq(store, offset + 1, m)
  BY DEF X!Page
<1> HIDE DEF n, m
<1>3. offset >= n => X!Page = <<>>
  BY <1>0, <1>1, <1>2, SubSeqEmpty
<1>4. ASSUME offset < n
      PROVE  /\ m - offset \in 1 .. n - offset
             /\ X!Page \in Seq(Rows) /\ Len(X!Page) = m - offset
             /\ \A k \in 1 .. m - offset : X!Page[k] = store[offset + k]
  <2>1. /\ SubSeq(store, offset + 1, m) \in Seq(Rows)
        /\ Len(SubSeq(store, offset + 1, m)) = m - (offset + 1) + 1
        /\ \A k \in 1 .. m - (offset + 1) + 1 :
             SubSeq(store, offset + 1, m)[k] = store[(offset + 1) + k - 1]
    <3>1. offset + 1 \in Nat /\ offset + 1 >= 1 /\ m <= Len(store) /\ offset + 1 <= m + 1
      BY <1>0, <1>1, <1>4 DEF n
    <3> QED BY <1>0, <1>1, <3>1, PartIs
  <2>2. m - (offset + 1) + 1 = m - offset /\ m - offset \in 1 .. n - offset
    BY <1>0, <1>1, <1>4
  <2>3. \A k \in 1 .. m - offset : (offset + 1) + k - 1 = offset + k
    BY <1>0, <1>1
  <2> QED BY <1>2, <2>1, <2>2, <2>3
<1>5. X!Page = <<>> => ~(offset < n)
  <2> SUFFICES ASSUME X!Page = <<>>, offset < n PROVE FALSE
    OBVIOUS
  <2> QED BY <1>0, <1>1, <1>4
<1>6. offset < n => \E p \in 1 .. n - offset :
        /\ X!Page \in Seq(Rows) /\ Len(X!Page) = p
        /\ \A k \in 1 .. p : X!Page[k] = store[offset + k]
  BY <1>4
<1> QED BY <1>0, <1>3, <1>5, <1>6 DEF n

LEMMA FileEnds == ASSUME FileInv, X!Ends \/ X!Fails PROVE FileInv'
<1>0. /\ Len(store) \in Nat /\ Len(file) \in Nat /\ CAP \in Nat /\ offset \in Nat
      /\ store \in Seq(Rows) /\ Len(file) <= CAP
  BY FileBasics
<1>1. CASE X!Ends
  <2>1. /\ response = "open" /\ response' = "ended" /\ (Len(file) >= CAP \/ X!Page = <<>>)
        /\ UNCHANGED <<store, offset, file, format, stayed, arrived, replaced, faults>>
    BY <1>1 DEF X!Ends, X!StreamEnds, X!history
  <2>2. faults = 0
    BY <2>1 DEF FileInv, FileTypes
  <2>3. ASSUME ~replaced, Len(file) < CAP PROVE stayed \subseteq X!Range(file)
    <3>0. offset >= Len(store)
      BY <1>0, <2>1, <2>3, PageHolds
    <3>1. /\ stayed \subseteq X!Range(store)
          /\ \A k \in 1 .. Len(store) :
               k <= offset /\ store[k] \in stayed => store[k] \in X!Range(file)
      BY <2>1, <2>3 DEF FileInv, WrittenSoFar
    <3>2. \A row \in X!Range(store) : \E k \in 1 .. Len(store) : store[k] = row
      BY <1>0, RangeIs
    <3>3. \A k \in 1 .. Len(store) : k <= offset
      BY <1>0, <3>0
    <3> QED BY <3>1, <3>2, <3>3
  <2>4. Len(file) < CAP \/ Len(file) = CAP
    BY <1>0
  <2>5. /\ faults' \in Nat /\ faults' = 0
        /\ ~replaced => stayed \subseteq X!Range(file) \/ Len(file) = CAP
    BY <2>1, <2>2, <2>3, <2>4
  <2>6. response' # "open" /\ response' # "idle"
    BY <2>1
  <2> QED BY <2>1, <2>5, <2>6, FileStops
<1>2. CASE X!Fails
  <2>1. /\ response = "open" /\ response' \in {"ended", "error"}
        /\ faults' = faults + 1 /\ closed' = closed
        /\ UNCHANGED <<store, offset, file, format, stayed, arrived, replaced>>
    BY <1>2 DEF X!Fails, X!history
  <2>2. faults = 0 /\ ~closed
    BY <2>1 DEF FileInv, FileTypes
  <2>3. faults' \in Nat /\ faults' > 0 /\ response' # "open" /\ response' # "idle"
    BY <2>1, <2>2
  <2> QED BY <2>1, <2>2, <2>3, FileStops
<1> QED BY <1>1, <1>2

LEMMA PageIsWritten == ASSUME FileInv, X!ReadPage PROVE FileInv'
<1> DEFINE n == Len(store)  F == X!Range(file)  y == X!Yielded(X!Page)
<1>0. /\ n \in Nat /\ Len(file) \in Nat /\ CAP \in Nat /\ offset \in Nat
      /\ store \in Seq(Rows) /\ file \in Seq(Rows)
      /\ IsFiniteSet(F) /\ Cardinality(F) \in Nat
      /\ X!Repeated = Len(file) - Cardinality(F)
      /\ Cardinality(arrived) \in Nat
      /\ Cardinality(Rest \cap F) \in Nat
  BY FileBasics
<1>u. /\ response = "open" /\ Len(file) < CAP /\ X!Page # <<>>
      /\ file' = file \o y /\ offset' = offset + Len(X!Page)
      /\ UNCHANGED <<store, format, response, closed, stayed, arrived, replaced, faults>>
  BY DEF X!ReadPage, X!Onward, X!history
<1>1. PICK p \in 1 .. n - offset :
        /\ X!Page \in Seq(Rows) /\ Len(X!Page) = p
        /\ \A k \in 1 .. p : X!Page[k] = store[offset + k]
  BY <1>0, <1>u, PageHolds
<1>2. PICK q \in 1 .. p :
        /\ y \in Seq(Rows) /\ Len(y) = q
        /\ \A k \in 1 .. q : y[k] = store[offset + k]
        /\ Len(file) + q <= CAP /\ (q = p \/ Len(file) + q = CAP)
  <2> DEFINE z == X!SmallerOf(Len(X!Page), CAP - Len(file))
  <2>1. z \in 1 .. p /\ Len(file) + z <= CAP /\ (z = p \/ Len(file) + z = CAP)
    BY <1>0, <1>1, <1>u DEF X!SmallerOf
  <2>2. y = SubSeq(X!Page, 1, z)
    BY DEF X!Yielded
  <2> HIDE DEF z
  <2>3. /\ SubSeq(X!Page, 1, z) \in Seq(Rows) /\ Len(SubSeq(X!Page, 1, z)) = z - 1 + 1
        /\ \A k \in 1 .. z - 1 + 1 : SubSeq(X!Page, 1, z)[k] = X!Page[1 + k - 1]
    <3>1. z \in Nat /\ 1 <= z + 1 /\ z <= Len(X!Page)
      BY <1>0, <1>1, <2>1
    <3> QED BY <1>1, <3>1, PartIs
  <2>4. z - 1 + 1 = z /\ \A k \in 1 .. z : 1 + k - 1 = k /\ k \in 1 .. p
    BY <1>0, <1>1, <2>1
  <2> QED BY <1>1, <2>1, <2>2, <2>3, <2>4
<1>p. /\ p \in Nat /\ q \in Nat /\ p >= 1 /\ q >= 1 /\ q <= p /\ offset + p <= n
      /\ offset' = offset + p
  BY <1>0, <1>1, <1>2, <1>u
<1> DEFINE Y == Stretch(store, offset, q)
<1> USE DEF Stretch
<1> HIDE DEF y
\* What is written.
<1>3. /\ file' \in Seq(Rows) /\ Len(file') = Len(file) + q
      /\ X!Range(file)' = F \cup Y
  <2>1. /\ file \o y \in Seq(Rows) /\ Len(file \o y) = Len(file) + Len(y)
        /\ \A k \in 1 .. Len(file) + Len(y) :
             (file \o y)[k] = IF k <= Len(file) THEN file[k] ELSE y[k - Len(file)]
    BY <1>0, <1>2, ConcatProperties
  <2>2. /\ file' \in Seq(Rows) /\ Len(file') = Len(file) + q
        /\ \A k \in 1 .. Len(file) + q :
             file'[k] = IF k <= Len(file) THEN file[k] ELSE y[k - Len(file)]
    BY <1>2, <1>u, <2>1
  <2>3. X!Range(file') = {file'[k] : k \in 1 .. Len(file) + q}
    BY <2>2, RangeIs
  <2>4. F = {file[k] : k \in 1 .. Len(file)}
    BY <1>0, RangeIs
  <2>5. \A k \in 1 .. Len(file) + q : file'[k] \in F \cup Y
    <3> TAKE k \in 1 .. Len(file) + q
    <3>1. CASE k <= Len(file)
      <4>1. k \in 1 .. Len(file) /\ file'[k] = file[k]
        BY <1>0, <1>p, <2>2, <3>1
      <4> QED BY <2>4, <4>1
    <3>2. CASE k > Len(file)
      <4>1. file'[k] = y[k - Len(file)] /\ k - Len(file) \in 1 .. q
        BY <1>0, <1>p, <2>2, <3>2
      <4>2. y[k - Len(file)] = store[offset + (k - Len(file))]
        BY <1>2, <4>1
      <4>3. offset + (k - Len(file)) \in offset + 1 .. offset + q
        BY <1>0, <1>p, <4>1
      <4> QED BY <4>1, <4>2, <4>3
    <3> QED BY <1>0, <1>p, <3>1, <3>2
  <2>6. \A row \in F : row \in X!Range(file')
    <3> TAKE row \in F
    <3>1. PICK k \in 1 .. Len(file) : file[k] = row
      BY <2>4
    <3>2. k \in 1 .. Len(file) + q /\ file'[k] = row
      BY <1>0, <1>p, <2>2, <3>1
    <3> QED BY <2>3, <3>2
  <2>7. \A row \in Y : row \in X!Range(file')
    <3> TAKE row \in Y
    <3>1. PICK k \in offset + 1 .. offset + q : store[k] = row
      OBVIOUS
    <3> DEFINE j == Len(file) + (k - offset)
    <3>2. j \in 1 .. Len(file) + q /\ ~(j <= Len(file)) /\ j - Len(file) = k - offset
          /\ k - offset \in 1 .. q /\ offset + (k - offset) = k
      BY <1>0, <1>p, <3>1
    <3>3. file'[j] = y[k - offset]
      BY <2>2, <3>2
    <3>4. y[k - offset] = row
      BY <1>2, <3>1, <3>2
    <3> QED BY <2>3, <3>2, <3>3, <3>4
  <2>8. X!Range(file') \subseteq F \cup Y
    BY <2>3, <2>5
  <2>9. X!Range(file') = F \cup Y
    BY <2>6, <2>7, <2>8
  <2> QED BY <2>2, <2>9 DEF X!Range
\* A row is in the table once: what is written now is no longer to be read.
<1>4. NoTwins
  BY DEF FileInv
<1>5. IsFiniteSet(Y) /\ Cardinality(Y) = q
  <2>1. \A j \in offset + 1 .. offset + q : j \in 1 .. Len(store)
    BY <1>0, <1>p
  <2>2. \A j, k \in offset + 1 .. offset + q : store[j] = store[k] => j = k
    BY <2>1, <1>4 DEF NoTwins
  <2>3. q \in Nat /\ offset \in Nat
    BY <1>0, <1>p
  <2> HIDE DEF Stretch
  <2> QED BY <2>2, <2>3, Listed
<1>6. Rest' = {store[k] : k \in offset + p + 1 .. n}
  BY <1>u, <1>p DEF Rest
<1>7. Rest' \cap Y = {} /\ Rest' \cup Y \subseteq Rest
  <2>1. Rest' \cap Y = {}
    <3> SUFFICES ASSUME NEW j \in offset + p + 1 .. n, NEW k \in offset + 1 .. offset + q,
                        store[j] = store[k]
                 PROVE  FALSE
      BY <1>6
    <3>1. j \in 1 .. Len(store) /\ k \in 1 .. Len(store) /\ j # k
      BY <1>0, <1>p
    <3> QED BY <3>1, <1>4 DEF NoTwins
  <2>2. \A k \in offset + p + 1 .. n : k \in offset + 1 .. Len(store)
    BY <1>0, <1>p
  <2>3. \A k \in offset + 1 .. offset + q : k \in offset + 1 .. Len(store)
    BY <1>0, <1>p
  <2> QED BY <2>1, <2>2, <2>3, <1>6 DEF Rest
<1> DEFINE R == Rest'
<1> HIDE DEF Y, F, R
<1>8. /\ Cardinality((R \cap F) \cup (Y \cap F)) = Cardinality(R \cap F) + Cardinality(Y \cap F)
      /\ Cardinality(R \cap F) \in Nat /\ Cardinality(Y \cap F) \in Nat
      /\ Cardinality((R \cap F) \cup (Y \cap F)) <= Cardinality(Rest \cap F)
  <2>1. IsFiniteSet(R \cap F) /\ IsFiniteSet(Y \cap F)
    BY <1>0, FS_Intersection
  <2>2. Cardinality(R \cap F) \in Nat /\ Cardinality(Y \cap F) \in Nat
    BY <2>1, FS_CardinalityType
  <2>3. (R \cap F) \cap (Y \cap F) = {}
    BY <1>7 DEF R
  <2>4. Cardinality((R \cap F) \cup (Y \cap F))
          = Cardinality(R \cap F) + Cardinality(Y \cap F) - Cardinality({})
    BY <2>1, <2>3, FS_Union
  <2>5. Cardinality({}) = 0
    BY FS_EmptySet
  <2>6. (R \cap F) \cup (Y \cap F) = (R \cup Y) \cap F
    OBVIOUS
  <2>7. Cardinality((R \cup Y) \cap F) <= Cardinality(Rest \cap F)
    <3>1. R \cup Y \subseteq Rest
      BY <1>7 DEF R
    <3> QED BY <1>0, <3>1, NoMore
  <2>8. Cardinality((R \cap F) \cup (Y \cap F)) <= Cardinality(Rest \cap F)
    BY <2>6, <2>7
  <2>9. Cardinality((R \cap F) \cup (Y \cap F)) = Cardinality(R \cap F) + Cardinality(Y \cap F)
    BY <2>2, <2>4, <2>5
  <2> QED BY <2>2, <2>8, <2>9
<1>9. X!Repeated' = X!Repeated + Cardinality(Y \cap F)
  <2>1. Cardinality(F \cup Y) = Cardinality(F) + Cardinality(Y) - Cardinality(F \cap Y)
    BY <1>0, <1>5, FS_Union
  <2>2. F \cap Y = Y \cap F
    OBVIOUS
  <2>3. X!Repeated' = Len(file') - Cardinality(F \cup Y)
    BY <1>3, FileCounting DEF X!Repeated
  <2>4. /\ Len(file') = Len(file) + q
        /\ Cardinality(F \cup Y) = Cardinality(F) + q - Cardinality(Y \cap F)
    BY <1>3, <1>5, <2>1, <2>2
  <2>5. Cardinality(Y \cap F) \in Nat /\ q \in Nat /\ Cardinality(F) \in Nat /\ Len(file) \in Nat
        /\ X!Repeated = Len(file) - Cardinality(F)
    BY <1>0, <1>8, <1>p
  <2> QED BY <2>3, <2>4, <2>5
<1>10. Rest' \cap X!Range(file)' = R \cap F
  BY <1>3, <1>7 DEF R
<1>11. FileTypes'
  BY <1>0, <1>3, <1>p, <1>u DEF FileInv, FileTypes
<1>12. NoTwins'
  BY <1>4, <1>u DEF NoTwins
<1>13. RepeatsArrived'
  <2>1. X!Repeated + Cardinality(Rest \cap F) <= Cardinality(arrived)
    BY DEF FileInv, RepeatsArrived, F
  <2>2. X!Repeated \in Int
    BY <1>0
  <2>3. Len(file') <= CAP
    BY <1>2, <1>3
  <2>4. X!Repeated' + Cardinality(R \cap F) <= Cardinality(arrived)
    <3>1. /\ Cardinality(R \cap F) + Cardinality(Y \cap F) <= Cardinality(Rest \cap F)
          /\ Cardinality(R \cap F) \in Nat /\ Cardinality(Y \cap F) \in Nat
      BY <1>8
    <3>2. Cardinality(Rest \cap F) \in Nat /\ Cardinality(arrived) \in Nat
      BY <1>0
    <3> QED BY <1>9, <2>1, <2>2, <3>1, <3>2
  <2>5. X!Repeated' + Cardinality(Rest' \cap X!Range(file)') <= Cardinality(arrived')
    BY <1>10, <1>u, <2>4
  <2> QED BY <2>3, <2>5 DEF RepeatsArrived
<1>14. WrittenSoFar'
  <2> SUFFICES ASSUME ~replaced
               PROVE  /\ stayed \subseteq X!Range(store)
                      /\ Len(file') < CAP =>
                           \A k \in 1 .. Len(store) :
                             k <= offset' /\ store[k] \in stayed => store[k] \in F \cup Y
    BY <1>u, <1>3 DEF WrittenSoFar, X!Range
  <2>1. /\ stayed \subseteq X!Range(store)
        /\ \A k \in 1 .. Len(store) : k <= offset /\ store[k] \in stayed => store[k] \in F
    BY <1>u DEF FileInv, WrittenSoFar, F
  <2>2. ASSUME Len(file') < CAP, NEW k \in 1 .. Len(store), k <= offset', store[k] \in stayed
        PROVE  store[k] \in F \cup Y
    <3>1. q = p
      BY <1>0, <1>2, <1>3, <1>p, <2>2
    <3>2. CASE k <= offset
      BY <2>1, <2>2, <3>2
    <3>3. CASE k > offset
      <4>1. k \in offset + 1 .. offset + q
        BY <1>0, <1>p, <2>2, <3>1, <3>3
      <4> QED BY <4>1 DEF Y
    <3> QED BY <1>0, <3>2, <3>3
  <2> QED BY <2>1, <2>2
<1>15. WholeAtLast'
  BY <1>u DEF WholeAtLast
<1>16. HolesFree'
  <2> SUFFICES ASSUME ~replaced, NEW j \in 1 .. n, NEW k \in 1 .. n, j < k,
                      store[j] \in stayed, store[k] \in stayed, store[k] \in F \cup Y
               PROVE  store[j] \in F \cup Y
    BY <1>u, <1>3 DEF HolesFree, X!Range
  <2>1. CASE store[k] \in F
    BY <2>1 DEF FileInv, HolesFree, F
  <2>2. CASE store[k] \in Y
    <3>1. PICK i \in offset + 1 .. offset + q : store[i] = store[k]
      BY <2>2 DEF Y
    <3>2. i \in 1 .. Len(store)
      BY <1>0, <1>p, <3>1
    <3>3. i = k
      BY <3>1, <3>2, <1>4 DEF NoTwins
    <3>4. CASE j <= offset
      BY <1>u, <3>4 DEF FileInv, WrittenSoFar, F
    <3>5. CASE j > offset
      <4>1. j \in offset + 1 .. offset + q
        BY <1>0, <1>p, <3>1, <3>3, <3>5
      <4> QED BY <4>1 DEF Y
    <3> QED BY <1>0, <3>4, <3>5
  <2> QED BY <2>1, <2>2
<1> QED BY <1>11, <1>12, <1>13, <1>14, <1>15, <1>16 DEF FileInv

\* A table that has changed: what is yet to be read grew by a row, for one that came, at most.
LEMMA TableChanged ==
  ASSUME FileInv, NEW x,
         response' = response, response = "open", offset' = offset, file' = file,
         faults' = faults, closed' = closed, format' = format, store' \in Seq(Rows), NoTwins',
         \/ Rest' \subseteq Rest /\ arrived' = arrived
         \/ /\ Rest' \subseteq Rest \cup {x}
            /\ \E row : row \notin arrived /\ arrived' = arrived \cup {row}
  PROVE  FileTypes' /\ RepeatsArrived' /\ WholeAtLast' /\ X!Range(file)' = X!Range(file)
<1> DEFINE F == X!Range(file)  R == Rest'
<1>0. /\ IsFiniteSet(F) /\ IsFiniteSet(arrived) /\ Cardinality(arrived) \in Nat
      /\ Len(file) \in Nat /\ Cardinality(F) \in Nat
      /\ X!Repeated = Len(file) - Cardinality(F)
      /\ Cardinality(Rest \cap F) \in Nat /\ Len(file) <= CAP
  BY FileBasics
<1>1. X!Range(file)' = F /\ X!Repeated' = X!Repeated
  BY DEF X!Range, X!Repeated
<1>2. X!Repeated + Cardinality(Rest \cap F) <= Cardinality(arrived)
  BY DEF FileInv, RepeatsArrived
<1> HIDE DEF F, R
<1>3. /\ IsFiniteSet(arrived') /\ Cardinality(R \cap F) \in Nat /\ Cardinality(arrived') \in Nat
      /\ \/ /\ Cardinality(R \cap F) <= Cardinality(Rest \cap F)
            /\ Cardinality(arrived') = Cardinality(arrived)
         \/ /\ Cardinality(R \cap F) <= Cardinality(Rest \cap F) + 1
            /\ Cardinality(arrived') = Cardinality(arrived) + 1
  <2>1. CASE Rest' \subseteq Rest /\ arrived' = arrived
    <3>1. R \subseteq Rest
      BY <2>1 DEF R
    <3> QED BY <1>0, <2>1, <3>1, NoMore
  <2>2. CASE /\ Rest' \subseteq Rest \cup {x}
             /\ \E row : row \notin arrived /\ arrived' = arrived \cup {row}
    <3>1. R \subseteq Rest \cup {x}
      BY <2>2 DEF R
    <3>2. PICK row : row \notin arrived /\ arrived' = arrived \cup {row}
      BY <2>2
    <3>3. IsFiniteSet(arrived') /\ Cardinality(arrived') = Cardinality(arrived) + 1
      BY <1>0, <3>2, FS_AddElement
    <3>4. Cardinality(R \cap F) \in Nat /\ Cardinality(R \cap F) <= Cardinality(Rest \cap F) + 1
      BY <1>0, <3>1, OneMore
    <3> QED BY <1>0, <3>3, <3>4
  <2> QED BY <2>1, <2>2
<1>4. FileTypes'
  BY <1>3 DEF FileInv, FileTypes
<1>5. RepeatsArrived'
  <2>1. X!Repeated \in Int
    BY <1>0
  <2>2. X!Repeated + Cardinality(R \cap F) <= Cardinality(arrived')
    BY <1>0, <1>2, <1>3, <2>1
  <2>3. Rest' \cap X!Range(file)' = R \cap F
    BY <1>1 DEF R
  <2>4. X!Repeated' + Cardinality(Rest' \cap X!Range(file)') <= Cardinality(arrived')
    BY <1>1, <2>2, <2>3
  <2> QED BY <1>0, <2>4 DEF RepeatsArrived
<1>6. WholeAtLast'
  BY DEF WholeAtLast
<1> QED BY <1>1, <1>4, <1>5, <1>6 DEF F

LEMMA RowComes ==
  ASSUME FileInv, NEW row \in Rows, NEW place \in X!Places, X!Grows(row, place)
  PROVE  FileInv'
<1> DEFINE n == Len(store)
<1>0. n \in Nat /\ offset \in Nat /\ store \in Seq(Rows)
  BY FileBasics
<1>u. /\ response = "open" /\ row \notin X!Range(store) \cup stayed \cup arrived
      /\ store' = X!InsertAt(store, place, row) /\ arrived' = arrived \cup {row}
      /\ UNCHANGED <<offset, file, format, response, closed, stayed, replaced, faults>>
  BY DEF X!Grows, X!Changes, X!answer
<1>p. place \in 1 .. n + 1 /\ place \in Nat
  BY <1>0 DEF X!Places
<1>1. /\ store' \in Seq(Rows) /\ Len(store') = n + 1
      /\ \A k \in 1 .. n + 1 :
           store'[k] = IF k < place THEN store[k] ELSE IF k = place THEN row ELSE store[k - 1]
  <2> DEFINE t == X!InsertAt(store, place, row)
  <2>1. /\ t \in Seq(Rows) /\ Len(t) = Len(store) + 1
        /\ \A k \in 1 .. Len(t) :
             t[k] = IF k < place THEN store[k] ELSE IF k = place THEN row ELSE store[k - 1]
    BY <1>0, <1>p, InsertedIs
  <2> HIDE DEF t
  <2>2. store' = t
    BY <1>u DEF t
  <2> QED BY <2>1, <2>2
<1> DEFINE old(k) == IF k < place THEN k ELSE k - 1
<1>2. ASSUME NEW k \in 1 .. n + 1, k # place
      PROVE  old(k) \in 1 .. n /\ store'[k] = store[old(k)] /\ store'[k] # row
  <2>1. old(k) \in 1 .. n /\ store'[k] = store[old(k)]
    BY <1>0, <1>p, <1>1, <1>2
  <2>2. store[old(k)] \in X!Range(store)
    BY <1>0, <2>1, RangeIs
  <2> QED BY <2>1, <2>2, <1>u
<1>3. store'[place] = row
  BY <1>p, <1>1
<1>4. NoTwins'
  <2> SUFFICES ASSUME NEW j \in 1 .. n + 1, NEW k \in 1 .. n + 1, store'[j] = store'[k]
               PROVE  j = k
    BY <1>1 DEF NoTwins
  <2>1. CASE j = place \/ k = place
    BY <1>2, <1>3, <2>1
  <2>2. CASE j # place /\ k # place
    <3>1. old(j) \in 1 .. n /\ old(k) \in 1 .. n /\ store[old(j)] = store[old(k)]
      BY <1>2, <2>2
    <3>2. old(j) = old(k)
      BY <3>1 DEF FileInv, NoTwins
    <3> QED BY <1>0, <1>p, <2>2, <3>2
  <2> QED BY <2>1, <2>2
<1> DEFINE x == IF place <= offset THEN store[offset] ELSE row
<1>5. Rest' \subseteq Rest \cup {x}
  <2>1. Rest' = {store'[k] : k \in offset + 1 .. n + 1}
    BY <1>u, <1>1 DEF Rest
  <2>2. \A k \in offset + 1 .. n + 1 : store'[k] \in Rest \cup {x}
    <3> TAKE k \in offset + 1 .. n + 1
    <3>0. k \in 1 .. n + 1 /\ k \in Nat /\ k >= offset + 1 /\ k <= n + 1
      BY <1>0
    <3>1. CASE k = place
      BY <1>0, <1>3, <1>p, <3>0, <3>1
    <3>2. CASE k # place
      <4>1. store'[k] = store[old(k)] /\ old(k) \in 1 .. n
        BY <1>2, <3>0, <3>2
      <4>2. old(k) \in offset + 1 .. n \/ (old(k) = offset /\ place <= offset)
        BY <1>0, <1>p, <3>0, <3>2, <4>1
      <4>3. CASE old(k) \in offset + 1 .. n
        <5>1. store[old(k)] \in Rest
          BY <4>3 DEF Rest
        <5> QED BY <4>1, <5>1
      <4>4. CASE old(k) = offset /\ place <= offset
        BY <4>1, <4>4
      <4> QED BY <4>2, <4>3, <4>4
    <3> QED BY <3>1, <3>2
  <2> QED BY <2>1, <2>2
<1> HIDE DEF x
<1>6. FileTypes' /\ RepeatsArrived' /\ WholeAtLast' /\ X!Range(file)' = X!Range(file)
  <2>1. \E r : r \notin arrived /\ arrived' = arrived \cup {r}
    BY <1>u
  <2> QED BY <1>u, <1>1, <1>4, <1>5, <2>1, TableChanged
<1>7. WrittenSoFar'
  <2> SUFFICES ASSUME ~replaced
               PROVE  /\ stayed \subseteq X!Range(store')
                      /\ Len(file) < CAP =>
                           \A k \in 1 .. n + 1 :
                             k <= offset /\ store'[k] \in stayed => store'[k] \in X!Range(file)
    BY <1>u, <1>1, <1>6 DEF WrittenSoFar, X!Range
  <2>0. /\ stayed \subseteq X!Range(store)
        /\ Len(file) < CAP =>
             \A k \in 1 .. n :
               k <= offset /\ store[k] \in stayed => store[k] \in X!Range(file)
    BY <1>u DEF FileInv, WrittenSoFar
  <2>1. ASSUME NEW r \in stayed PROVE r \in X!Range(store')
    <3>1. PICK k \in 1 .. n : store[k] = r
      BY <1>0, <2>0, RangeIs
    <3> DEFINE j == IF k < place THEN k ELSE k + 1
    <3>2. j \in 1 .. n + 1 /\ store'[j] = r
      <4>1. j \in 1 .. n + 1 /\ j # place /\ old(j) = k
        BY <1>0, <1>p
      <4> QED BY <1>2, <3>1, <4>1
    <3> QED BY <1>1, <3>2, RangeIs
  <2>2. ASSUME Len(file) < CAP, NEW k \in 1 .. n + 1, k <= offset, store'[k] \in stayed
        PROVE  store'[k] \in X!Range(file)
    <3>1. k # place
      BY <1>3, <1>u, <2>2
    <3>2. old(k) \in 1 .. n /\ store'[k] = store[old(k)] /\ old(k) <= offset
      BY <1>0, <1>2, <1>p, <2>2, <3>1
    <3> QED BY <2>0, <2>2, <3>2
  <2> QED BY <2>1, <2>2
<1>8. HolesFree'
  <2> SUFFICES ASSUME ~replaced, NEW j \in 1 .. n + 1, NEW k \in 1 .. n + 1, j < k,
                      store'[j] \in stayed, store'[k] \in stayed,
                      store'[k] \in X!Range(file)
               PROVE  store'[j] \in X!Range(file)
    BY <1>u, <1>1, <1>6 DEF HolesFree
  <2>1. j # place /\ k # place
    BY <1>3, <1>u
  <2>2. /\ old(j) \in 1 .. n /\ store'[j] = store[old(j)]
        /\ old(k) \in 1 .. n /\ store'[k] = store[old(k)]
    BY <1>2, <2>1
  <2>3. old(j) < old(k)
    BY <1>0, <1>p, <2>1
  <2> HIDE DEF old
  <2> QED BY <2>2, <2>3 DEF FileInv, HolesFree
<1> QED BY <1>4, <1>6, <1>7, <1>8 DEF FileInv

LEMMA TableIsSwept == ASSUME FileInv, X!Sweep PROVE FileInv'
<1> DEFINE n == Len(store)
<1>0. n \in Nat /\ offset \in Nat /\ store \in Seq(Rows)
  BY FileBasics
<1>u. /\ response = "open" /\ store # <<>> /\ store' = X!Front(store)
      /\ stayed' = stayed \cap X!Range(store')
      /\ UNCHANGED <<offset, file, format, response, closed, arrived, replaced, faults>>
  BY DEF X!Sweep, X!Changes, X!answer
<1>1. n >= 1
  BY <1>0, <1>u, EmptySeq
<1>2. /\ store' \in Seq(Rows) /\ Len(store') = n - 1
      /\ \A k \in 1 .. n - 1 : store'[k] = store[k]
  <2>1. PICK m \in Nat : m = n - 1
    BY <1>0, <1>1
  <2>2. /\ SubSeq(store, 1, m) \in Seq(Rows) /\ Len(SubSeq(store, 1, m)) = m - 1 + 1
        /\ \A k \in 1 .. m - 1 + 1 : SubSeq(store, 1, m)[k] = store[1 + k - 1]
    <3>1. m <= Len(store) /\ 1 <= m + 1
      BY <1>0, <2>1
    <3> QED BY <1>0, <3>1, PartIs
  <2>3. m - 1 + 1 = m /\ \A k \in 1 .. m : 1 + k - 1 = k
    OBVIOUS
  <2>4. store' = SubSeq(store, 1, m)
    BY <1>u, <2>1 DEF X!Front
  <2> QED BY <2>1, <2>2, <2>3, <2>4
<1>3. \A k \in 1 .. n - 1 : k \in 1 .. n
  BY <1>0
<1>4. NoTwins'
  BY <1>2, <1>3 DEF FileInv, NoTwins
<1>5. Rest' \subseteq Rest
  <2>1. \A k \in offset + 1 .. n - 1 : k \in 1 .. n - 1 /\ k \in offset + 1 .. n
    BY <1>0
  <2>2. Rest' = {store'[k] : k \in offset + 1 .. n - 1}
    BY <1>2, <1>u DEF Rest
  <2> QED BY <1>2, <2>1, <2>2 DEF Rest
<1>6. FileTypes' /\ RepeatsArrived' /\ WholeAtLast' /\ X!Range(file)' = X!Range(file)
  BY <1>u, <1>2, <1>4, <1>5, TableChanged
<1>7. WrittenSoFar'
  BY <1>u, <1>2, <1>3, <1>6 DEF FileInv, WrittenSoFar, X!Range
<1>8. HolesFree'
  <2> SUFFICES ASSUME ~replaced, NEW j \in 1 .. n - 1, NEW k \in 1 .. n - 1, j < k,
                      store'[j] \in stayed', store'[k] \in stayed',
                      store'[k] \in X!Range(file)
               PROVE  store'[j] \in X!Range(file)
    BY <1>u, <1>2, <1>6 DEF HolesFree
  <2>1. /\ j \in 1 .. n /\ k \in 1 .. n /\ store'[j] = store[j] /\ store'[k] = store[k]
        /\ store[j] \in stayed /\ store[k] \in stayed
    BY <1>2, <1>3, <1>u
  <2> QED BY <2>1 DEF FileInv, HolesFree
<1> QED BY <1>4, <1>6, <1>7, <1>8 DEF FileInv

LEMMA SnapshotIsReplaced == ASSUME FileInv, NEW row \in Rows, X!Replace(row) PROVE FileInv'
<1> DEFINE n == Len(store)
<1>0. n \in Nat /\ offset \in Nat /\ store \in Seq(Rows) /\ DOMAIN store = 1 .. n
  BY FileBasics, LenProperties
<1>u. /\ response = "open" /\ replaced' = TRUE
      /\ UNCHANGED <<offset, file, format, response, closed, arrived, faults>>
  BY DEF X!Replace, X!Changes, X!answer
<1>1. PICK place \in 1 .. n : store' = X!RemoveAt(store, place)
  BY <1>0 DEF X!Replace
<1>2. /\ store' \in Seq(Rows) /\ Len(store') = n - 1
      /\ \A k \in 1 .. n - 1 : store'[k] = IF k < place THEN store[k] ELSE store[k + 1]
  <2> DEFINE t == X!RemoveAt(store, place)
  <2>1. /\ t \in Seq(Rows) /\ Len(t) = Len(store) - 1
        /\ \A k \in 1 .. Len(t) : t[k] = IF k < place THEN store[k] ELSE store[k + 1]
    BY <1>0, <1>1, RemovedIs
  <2> HIDE DEF t
  <2>2. store' = t
    BY <1>1 DEF t
  <2> QED BY <2>1, <2>2
<1> DEFINE old(k) == IF k < place THEN k ELSE k + 1
<1>3. \A k \in 1 .. n - 1 : old(k) \in 1 .. n /\ store'[k] = store[old(k)] /\ old(k) >= k
  BY <1>0, <1>2
<1>4. NoTwins'
  <2> SUFFICES ASSUME NEW j \in 1 .. n - 1, NEW k \in 1 .. n - 1, store'[j] = store'[k]
               PROVE  j = k
    BY <1>2 DEF NoTwins
  <2>1. old(j) = old(k)
    BY <1>3 DEF FileInv, NoTwins
  <2> QED BY <1>0, <2>1
<1>5. Rest' \subseteq Rest
  <2>1. Rest' = {store'[k] : k \in offset + 1 .. n - 1}
    BY <1>2, <1>u DEF Rest
  <2>2. \A k \in offset + 1 .. n - 1 : store'[k] \in Rest
    <3> TAKE k \in offset + 1 .. n - 1
    <3>1. k \in 1 .. n - 1 /\ k >= offset + 1
      BY <1>0
    <3>2. old(k) \in offset + 1 .. n
      BY <1>0, <1>3, <3>1
    <3> HIDE DEF old
    <3>3. store[old(k)] \in Rest
      BY <3>2 DEF Rest
    <3> QED BY <1>3, <3>1, <3>3
  <2> QED BY <2>1, <2>2
<1>6. FileTypes' /\ RepeatsArrived' /\ WholeAtLast' /\ X!Range(file)' = X!Range(file)
  BY <1>u, <1>2, <1>4, <1>5, TableChanged
<1>7. WrittenSoFar' /\ HolesFree'
  BY <1>u DEF WrittenSoFar, HolesFree
<1> QED BY <1>4, <1>6, <1>7 DEF FileInv

LEMMA FileStep == ASSUME FileInv, X!Next PROVE FileInv'
  BY FileAsked, PageIsWritten, FileEnds, RowComes, TableIsSwept, SnapshotIsReplaced DEF X!Next

LEMMA FileStutter == ASSUME FileInv, UNCHANGED <<offset, ofFile, faults>> PROVE FileInv'
<1>1. UNCHANGED <<store, offset, file, format, response, closed, stayed, arrived, replaced, faults>>
  BY DEF ofFile
<1>2. Rest' = Rest /\ X!Range(file)' = X!Range(file) /\ X!Range(store)' = X!Range(store)
      /\ X!Repeated' = X!Repeated
  BY <1>1 DEF Rest, X!Range, X!Repeated
<1>3. FileTypes' /\ NoTwins' /\ RepeatsArrived'
  BY <1>1, <1>2 DEF FileInv, FileTypes, NoTwins, RepeatsArrived
<1>4. WrittenSoFar' /\ HolesFree' /\ WholeAtLast'
  BY <1>1, <1>2 DEF FileInv, WrittenSoFar, HolesFree, WholeAtLast
<1> QED BY <1>3, <1>4 DEF FileInv

\* What the property says is in the invariant.
LEMMA FileHolds == ASSUME FileInv PROVE X!FilesAreWhole
<1>0. /\ Len(file) <= CAP /\ Cardinality(arrived) \in Nat
      /\ X!Repeated = Len(file) - Cardinality(X!Range(file))
      /\ Len(file) \in Nat /\ Cardinality(X!Range(file)) \in Nat
      /\ Cardinality(Rest \cap X!Range(file)) \in Nat
      /\ DOMAIN store = 1 .. Len(store) /\ Len(store) \in Nat
  BY FileBasics, LenProperties
<1>1. X!Repeated + Cardinality(Rest \cap X!Range(file)) <= Cardinality(arrived)
  BY DEF FileInv, RepeatsArrived
<1>2. X!Repeated \in Int
  BY <1>0
<1>3. X!Repeated <= X!Cardinality(arrived)
  BY <1>0, <1>1, <1>2, FileCounting
<1>4. ASSUME X!LooksWhole, ~replaced, X!Lacks # {}
      PROVE  Len(file) = CAP \/ (format = "csv" /\ faults > 0)
  <2>1. response = "ended" /\ (format = "json" => closed)
    BY <1>4 DEF X!LooksWhole
  <2>2. ~(stayed \subseteq X!Range(file))
    BY <1>4 DEF X!Lacks
  <2>3. (Len(file) = CAP \/ faults > 0) /\ (closed => faults = 0)
    BY <1>4, <2>1, <2>2 DEF FileInv, WholeAtLast
  <2>4. format \in {"csv", "json"}
    BY DEF FileInv, FileTypes
  <2> QED BY <2>1, <2>3, <2>4
<1>5. ASSUME ~replaced PROVE X!NoHoles
  <2> SUFFICES ASSUME NEW j \in 1 .. Len(store), NEW k \in 1 .. Len(store), j < k,
                      store[j] \in stayed, store[j] \notin X!Range(file),
                      store[k] \in stayed, store[k] \in X!Range(file)
               PROVE  FALSE
    BY <1>0 DEF X!NoHoles, X!Lacks
  <2> QED BY <1>5 DEF FileInv, HolesFree
<1> QED BY <1>0, <1>3, <1>4, <1>5 DEF X!FilesAreWhole

-----------------------------------------------------------------------------
(* The lines of the charts: divisions, and the largest of a set.            *)

\* What is left of a division.
LEMMA Dividing ==
  ASSUME NEW a \in Int, NEW w \in Nat \ {0}
  PROVE  a \div w \in Int /\ w * (a \div w) <= a /\ a < w * (a \div w) + w
  OBVIOUS

\* More is divided into no less.
LEMMA DividingMore ==
  ASSUME NEW a \in Int, NEW b \in Int, NEW w \in Nat \ {0}, a <= b
  PROVE  a \div w <= b \div w
<1> DEFINE q == a \div w
           r == b \div w
<1>1. q \in Int /\ r \in Int /\ w * q <= a /\ b < w * r + w
  BY Dividing
<1> HIDE DEF q, r
<1>2. SUFFICES ASSUME q >= r + 1 PROVE FALSE
  BY <1>1 DEF q, r
<1>3. w * q >= w * (r + 1)
  BY <1>1, <1>2
<1>4. w * (r + 1) = w * r + w
  BY <1>1
<1> QED BY <1>1, <1>3, <1>4

\* What is at most so many times the divisor.
LEMMA DividingAtMost ==
  ASSUME NEW a \in Int, NEW w \in Nat \ {0}, NEW q \in Int
  PROVE  /\ a <= q * w => a \div w <= q
         /\ q * w <= a => q <= a \div w
         /\ a = q * w => a \div w = q
<1> DEFINE r == a \div w
<1>1. r \in Int /\ w * r <= a /\ a < w * r + w
  BY Dividing
<1> HIDE DEF r
<1>2. a <= q * w => r <= q
  <2> SUFFICES ASSUME a <= q * w, r >= q + 1 PROVE FALSE
    BY <1>1
  <2>1. w * r >= w * (q + 1)
    BY <1>1
  <2>2. w * (q + 1) = q * w + w
    OBVIOUS
  <2> QED BY <1>1, <2>1, <2>2
<1>3. q * w <= a => q <= r
  <2> SUFFICES ASSUME q * w <= a, q >= r + 1 PROVE FALSE
    BY <1>1
  <2>1. w * q >= w * (r + 1)
    BY <1>1
  <2>2. w * (r + 1) = w * r + w
    BY <1>1
  <2> QED BY <1>1, <2>1, <2>2
<1> QED BY <1>1, <1>2, <1>3 DEF r

\* Counting up from nought reaches every number.
LEMMA CountingUp ==
  ASSUME NEW Ms \in SUBSET Nat, 0 \in Ms, \A n \in Ms : n + 1 \in Ms
  PROVE  \A n \in Nat : n \in Ms
<1> SUFFICES ASSUME NEW m \in Nat, m \notin Ms PROVE FALSE
  OBVIOUS
<1>1. PICK x \in Nat \ Ms : \A y \in Nat \ Ms : <<y, x>> \notin OpToRel(<, Nat)
  BY WFMin, NatLessThanWellFounded
<1>2. \A y \in Nat \ Ms : ~(y < x)
  BY <1>1 DEF OpToRel
<1>3. x # 0 /\ x - 1 \in Nat /\ x - 1 < x
  OBVIOUS
<1>4. x - 1 \in Ms
  BY <1>2, <1>3
<1>5. (x - 1) + 1 = x
  OBVIOUS
<1> QED BY <1>4, <1>5

\* A set of integers none of which is above a bound has a largest member.
LEMMA Largest ==
  ASSUME NEW set \in SUBSET Int, set # {}, NEW m \in Int, \A x \in set : x <= m
  PROVE  C!Max(set) \in set /\ \A x \in set : x <= C!Max(set)
<1> DEFINE Below == {m - x : x \in set}
<1>1. Below \subseteq Nat /\ Below # {}
  <2>1. \A x \in set : m - x \in Nat
    OBVIOUS
  <2> QED BY <2>1
<1>2. PICK b \in Below : \A y \in Below : <<y, b>> \notin OpToRel(<, Nat)
  BY <1>1, WFMin, NatLessThanWellFounded
<1>3. \A y \in Below : ~(y < b)
  BY <1>1, <1>2 DEF OpToRel
<1>4. PICK x \in set : b = m - x
  OBVIOUS
<1>5. \A y \in set : x >= y
  <2> TAKE y \in set
  <2>1. m - y \in Below
    OBVIOUS
  <2>2. ~(m - y < b)
    BY <1>3, <2>1
  <2> HIDE DEF Below
  <2> QED BY <1>4, <2>2
<1> QED BY <1>5 DEF C!Max

-----------------------------------------------------------------------------
(* Sums.                                                                   *)

Some(set) == CHOOSE x \in set : TRUE

\* A set is added up one member after the other.
AddsUp(g, All, f) ==
  \A s \in SUBSET All : g[s] = IF s = {} THEN 0 ELSE f[Some(s)] + g[s \ {Some(s)}]

\* A set without one of its members has one fewer.
LEMMA OneLess ==
  ASSUME NEW All, IsFiniteSet(All), NEW s \in SUBSET All, s # {}
  PROVE  /\ Some(s) \in s /\ s \ {Some(s)} \in SUBSET All
         /\ Cardinality(s) \in Nat /\ Cardinality(s \ {Some(s)}) \in Nat
         /\ Cardinality(s) = 1 + Cardinality(s \ {Some(s)})
<1>1. Some(s) \in s
  BY DEF Some
<1>2. IsFiniteSet(s) /\ Cardinality(s) \in Nat
  BY FS_Subset, FS_CardinalityType
<1>3. IsFiniteSet(s \ {Some(s)}) /\ Cardinality(s \ {Some(s)}) = Cardinality(s) - 1
  BY <1>1, <1>2, FS_RemoveElement
<1>4. Cardinality(s \ {Some(s)}) \in Nat
  BY <1>3, FS_CardinalityType
<1> QED BY <1>1, <1>2, <1>3, <1>4

Adding(g, All, f) ==
  g = [s \in SUBSET All |-> IF s = {} THEN 0 ELSE f[Some(s)] + g[s \ {Some(s)}]]

\* There is such a sum.
LEMMA SumExists ==
  ASSUME NEW All, IsFiniteSet(All), NEW f, \A x \in All : f[x] \in Nat
  PROVE  \E g : Adding(g, All, f)
<1> DEFINE Go(g, s) == IF s = {} THEN 0 ELSE f[Some(s)] + g[s \ {Some(s)}]
           Good(n) == \E g \in [SUBSET All -> Nat] :
                        \A s \in SUBSET All : Cardinality(s) <= n => g[s] = Go(g, s)
           Ns == {n \in Nat : Good(n)}
<1>1. \A g \in [SUBSET All -> Nat] : \A s \in SUBSET All : Go(g, s) \in Nat
  <2> TAKE g \in [SUBSET All -> Nat]
  <2> TAKE s \in SUBSET All
  <2>1. CASE s # {}
    <3>1. f[Some(s)] \in Nat /\ g[s \ {Some(s)}] \in Nat
      BY <2>1, OneLess
    <3> QED BY <2>1, <3>1
  <2> QED BY <2>1
<1>2. 0 \in Ns
  <2> DEFINE g == [s \in SUBSET All |-> 0]
  <2>1. \A s \in SUBSET All : Cardinality(s) \in Nat /\ (Cardinality(s) = 0 => s = {})
    BY FS_Subset, FS_CardinalityType, FS_EmptySet
  <2>2. \A s \in SUBSET All : Cardinality(s) <= 0 => g[s] = Go(g, s)
    BY <2>1
  <2>3. g \in [SUBSET All -> Nat]
    OBVIOUS
  <2> HIDE DEF g, Go
  <2> QED BY <2>2, <2>3
<1>3. ASSUME NEW n \in Ns PROVE n + 1 \in Ns
  <2>1. PICK g \in [SUBSET All -> Nat] :
          \A s \in SUBSET All : Cardinality(s) <= n => g[s] = Go(g, s)
    OBVIOUS
  <2> DEFINE h == [s \in SUBSET All |-> Go(g, s)]
  <2>2. h \in [SUBSET All -> Nat]
    BY <1>1
  <2>3. ASSUME NEW s \in SUBSET All, Cardinality(s) <= n + 1 PROVE h[s] = Go(h, s)
    <3>1. CASE s = {}
      BY <3>1
    <3>2. CASE s # {}
      <4> DEFINE r == s \ {Some(s)}
      <4>1. r \in SUBSET All /\ Cardinality(r) <= n
        BY <2>3, <3>2, OneLess
      <4>2. h[r] = g[r]
        BY <2>1, <4>1
      <4>3. h[s] = f[Some(s)] + g[r]
        BY <3>2
      <4> QED BY <3>2, <4>2, <4>3
    <3> QED BY <3>1, <3>2
  <2> HIDE DEF h, Go
  <2> QED BY <2>2, <2>3
<1> HIDE DEF Good
<1>4. \A n \in Nat : n \in Ns
  BY <1>2, <1>3, CountingUp
<1>5. Good(Cardinality(All))
  BY <1>4, FS_CardinalityType
<1>6. PICK g \in [SUBSET All -> Nat] :
        \A s \in SUBSET All : Cardinality(s) <= Cardinality(All) => g[s] = Go(g, s)
  BY <1>5 DEF Good
<1>7. \A s \in SUBSET All : Cardinality(s) <= Cardinality(All)
  BY FS_Subset
<1>8. g = [s \in SUBSET All |-> Go(g, s)]
  <2> HIDE DEF Go
  <2> QED BY <1>6, <1>7
<1> QED BY <1>8 DEF Adding

\* SumFunction adds up.
LEMMA SumAddsUp ==
  ASSUME NEW f, IsFiniteSet(DOMAIN f), \A x \in DOMAIN f : f[x] \in Nat
  PROVE  \E g : AddsUp(g, DOMAIN f, f) /\ C!SumFunction(f) = g[DOMAIN f]
<1> DEFINE All == DOMAIN f
           sum == CHOOSE g : Adding(g, All, f)
<1>1. \E g : Adding(g, All, f)
  BY SumExists
<1>2. Adding(sum, All, f)
  BY <1>1
<1>3. AddsUp(sum, All, f)
  BY <1>2 DEF AddsUp, Adding
<1>4. C!SumFunction(f) = sum[All]
  BY Zenon DEF C!SumFunction, C!SumFunctionOnSet, C!FoldFunctionOnSet, C!MapThenFoldSet, Some,
               Adding
<1> HIDE DEF sum
<1> QED BY <1>3, <1>4

\* Sums are compared by what is added.
LEMMA SumsCompare ==
  ASSUME NEW All, IsFiniteSet(All), NEW k \in Nat, NEW f, NEW e, NEW g, NEW h,
         \A x \in All : f[x] \in Nat /\ e[x] \in Nat /\ f[x] <= k * e[x],
         AddsUp(g, All, f), AddsUp(h, All, e)
  PROVE  \A s \in SUBSET All : g[s] \in Nat /\ h[s] \in Nat /\ g[s] <= k * h[s]
<1> DEFINE Fits(s) == g[s] \in Nat /\ h[s] \in Nat /\ g[s] <= k * h[s]
           Ns == {n \in Nat : \A s \in SUBSET All : Cardinality(s) = n => Fits(s)}
<1>1. 0 \in Ns
  <2> SUFFICES ASSUME NEW s \in SUBSET All, Cardinality(s) = 0 PROVE Fits(s)
    OBVIOUS
  <2>1. s = {}
    BY FS_Subset, FS_EmptySet
  <2>2. g[s] = 0 /\ h[s] = 0
    BY <2>1 DEF AddsUp
  <2> QED BY <2>2
<1>2. ASSUME NEW n \in Ns PROVE n + 1 \in Ns
  <2> SUFFICES ASSUME NEW s \in SUBSET All, Cardinality(s) = n + 1 PROVE Fits(s)
    OBVIOUS
  <2>1. s # {}
    <3>1. n + 1 # 0
      OBVIOUS
    <3> QED BY <3>1, FS_EmptySet
  <2> DEFINE x == Some(s)
             r == s \ {x}
  <2>2. x \in All /\ r \in SUBSET All /\ Cardinality(r) = n
    BY <2>1, OneLess
  <2>3. Fits(r)
    BY <2>2
  <2>4. g[s] = f[x] + g[r] /\ h[s] = e[x] + h[r]
    BY <2>1 DEF AddsUp
  <2> HIDE DEF x, r
  <2>5. f[x] \in Nat /\ e[x] \in Nat /\ f[x] <= k * e[x]
    BY <2>2
  <2>6. k * (e[x] + h[r]) = k * e[x] + k * h[r]
    BY <2>3, <2>5
  <2>7. k * e[x] \in Nat /\ k * h[r] \in Nat
    BY <2>3, <2>5
  <2> QED BY <2>3, <2>4, <2>5, <2>6, <2>7
<1> HIDE DEF Fits
<1>3. \A n \in Nat : n \in Ns
  BY <1>1, <1>2, CountingUp
<1>4. \A s \in SUBSET All : Cardinality(s) \in Nat
  BY FS_Subset, FS_CardinalityType
<1>5. \A s \in SUBSET All : Fits(s)
  BY <1>3, <1>4
<1> QED BY <1>5 DEF Fits

\* So are those of SumFunction.
LEMMA SumAtMost ==
  ASSUME NEW All, IsFiniteSet(All), NEW k \in Nat, NEW f, NEW e, DOMAIN f = All, DOMAIN e = All,
         \A x \in All : f[x] \in Nat /\ e[x] \in Nat /\ f[x] <= k * e[x]
  PROVE  C!SumFunction(f) \in Nat /\ C!SumFunction(f) <= k * C!SumFunction(e)
<1>1. PICK g : AddsUp(g, All, f) /\ C!SumFunction(f) = g[All]
  BY SumAddsUp
<1>2. PICK h : AddsUp(h, All, e) /\ C!SumFunction(e) = h[All]
  BY SumAddsUp
<1>3. All \in SUBSET All
  OBVIOUS
<1>4. g[All] \in Nat /\ g[All] <= k * h[All]
  BY <1>1, <1>2, <1>3, SumsCompare
<1> QED BY <1>1, <1>2, <1>4

\* As many numbers, none above a bound.
LEMMA SumOfMany ==
  ASSUME NEW All, IsFiniteSet(All), NEW k \in Nat, NEW f, DOMAIN f = All,
         \A x \in All : f[x] \in Nat /\ f[x] <= k
  PROVE  C!SumFunction(f) \in Nat /\ C!SumFunction(f) <= k * Cardinality(All)
<1> DEFINE ones == [x \in All |-> 1]
           h == [s \in SUBSET All |-> Cardinality(s)]
<1>1. PICK g : AddsUp(g, All, f) /\ C!SumFunction(f) = g[All]
  BY SumAddsUp
<1>2. AddsUp(h, All, ones)
  <2> SUFFICES ASSUME NEW s \in SUBSET All
               PROVE  h[s] = IF s = {} THEN 0 ELSE ones[Some(s)] + h[s \ {Some(s)}]
    BY DEF AddsUp
  <2>1. CASE s = {}
    BY <2>1, FS_EmptySet
  <2>2. CASE s # {}
    <3>1. Some(s) \in All /\ s \ {Some(s)} \in SUBSET All
          /\ Cardinality(s) = 1 + Cardinality(s \ {Some(s)})
      BY <2>2, OneLess
    <3> QED BY <2>2, <3>1
  <2> QED BY <2>1, <2>2
<1>3. \A x \in All : f[x] \in Nat /\ ones[x] \in Nat /\ f[x] <= k * ones[x]
  OBVIOUS
<1>4. h[All] = Cardinality(All) /\ All \in SUBSET All
  OBVIOUS
<1> HIDE DEF h, ones
<1>5. g[All] \in Nat /\ g[All] <= k * h[All]
  BY <1>1, <1>2, <1>3, <1>4, SumsCompare
<1> QED BY <1>1, <1>4, <1>5

-----------------------------------------------------------------------------
(* A set in order: each at the place after those before it.                *)

Counted(below, x) == Cardinality(below[x])

\* Where each is before or behind each other, no two places are the same.
LEMMA Ranks ==
  ASSUME NEW set, IsFiniteSet(set), NEW below,
         \A x \in set : below[x] \subseteq set /\ x \notin below[x],
         \A x, y \in set : x = y \/ x \in below[y] \/ y \in below[x],
         \A x, y \in set : y \in below[x] => below[y] \subseteq below[x]
  PROVE  /\ \A i \in 1 .. Cardinality(set) : \E x \in set : Counted(below, x) = i - 1
         /\ \A x, y \in set : Counted(below, y) < Counted(below, x) => y \in below[x]
<1> DEFINE N == Cardinality(set)
           rank == [x \in set |-> Counted(below, x) + 1]
<1>1. N \in Nat
  BY FS_CardinalityType
<1>2. ASSUME NEW x \in set
      PROVE  IsFiniteSet(below[x]) /\ Counted(below, x) \in Nat /\ Counted(below, x) < N
  <2>1. IsFiniteSet(below[x]) /\ Cardinality(below[x]) <= N
        /\ (N = Cardinality(below[x]) => set = below[x])
    BY FS_Subset
  <2>2. Cardinality(below[x]) \in Nat
    BY <2>1, FS_CardinalityType
  <2>3. set # below[x]
    OBVIOUS
  <2> QED BY <1>1, <2>1, <2>2, <2>3 DEF Counted
<1>3. ASSUME NEW x \in set, NEW y \in below[x]
      PROVE  Counted(below, y) < Counted(below, x)
  <2>1. y \in set /\ below[y] \subseteq below[x] /\ below[y] # below[x]
    OBVIOUS
  <2>2. /\ Cardinality(below[y]) <= Cardinality(below[x])
        /\ (Cardinality(below[x]) = Cardinality(below[y]) => below[x] = below[y])
    BY <1>2, <2>1, FS_Subset
  <2>3. Counted(below, x) \in Nat /\ Counted(below, y) \in Nat
    BY <1>2, <2>1
  <2> QED BY <2>1, <2>2, <2>3 DEF Counted
<1>4. \A x, y \in set : Counted(below, y) < Counted(below, x) => y \in below[x]
  <2> SUFFICES ASSUME NEW x \in set, NEW y \in set, Counted(below, y) < Counted(below, x),
                      y \notin below[x]
               PROVE  FALSE
    OBVIOUS
  <2>1. x = y \/ x \in below[y]
    OBVIOUS
  <2>2. Counted(below, x) \in Nat /\ Counted(below, y) \in Nat
    BY <1>2
  <2>3. x \in below[y] => Counted(below, x) < Counted(below, y)
    BY <1>3
  <2> QED BY <2>1, <2>2, <2>3
<1>5. rank \in [set -> 1 .. N]
  BY <1>1, <1>2
<1>6. rank \in Injection(set, 1 .. N)
  <2> SUFFICES ASSUME NEW x \in set, NEW y \in set, rank[x] = rank[y] PROVE x = y
    BY <1>5 DEF Injection, IsInjective
  <2>1. Counted(below, x) = Counted(below, y) /\ Counted(below, x) \in Nat
    BY <1>2
  <2>2. x \notin below[y] /\ y \notin below[x]
    BY <1>3, <2>1
  <2> QED BY <2>2
<1>7. IsFiniteSet(1 .. N) /\ Cardinality(1 .. N) = N
  BY <1>1, FS_Interval
<1>8. rank \in Surjection(set, 1 .. N)
  BY <1>6, <1>7, FS_Injection
<1>9. ASSUME NEW i \in 1 .. N PROVE \E x \in set : Counted(below, x) = i - 1
  <2>1. PICK x \in set : rank[x] = i
    BY <1>8 DEF Surjection
  <2>2. Counted(below, x) \in Nat /\ i \in Nat
    BY <1>1, <1>2
  <2> QED BY <2>1, <2>2
<1> QED BY <1>4, <1>9

-----------------------------------------------------------------------------
(* The lines of the charts: the inductive invariant.                       *)

SeriesTypes ==
  /\ clock \in Nat /\ clock <= MaxIntervals
  /\ agents \subseteq Machines
  /\ moved \in [Machines -> [0 .. clock -> Nat]]
  /\ restarts \in [Machines -> SUBSET Nat]
  /\ counter \in [Machines -> Nat]
  /\ reading \in [Machines -> [at : 0 .. clock, rx : Nat \cup {Null}]]
  /\ samples \subseteq [count : Nat, node : Members, at : 1 .. clock, rx : Nat \cup {Null}]
  /\ hardware \subseteq [node : Machines, at : 1 .. clock, rx : Nat]
  /\ IsFiniteSet(samples) /\ IsFiniteSet(hardware)

\* The rows of a node are numbered.
Numbered ==
  \A n \in Members :
    /\ \A x \in C!Of(samples, n) : x.count < Cardinality(C!Of(samples, n))
    /\ \A x, y \in C!Of(samples, n) : x.count = y.count => x = y

\* The fastest interval of a machine that had moved so much by each time.
Pace(total, time) == C!Max({0} \cup {total[t] - total[t - 1] : t \in 1 .. time})

\* Between two times it moves something or nothing, and no more than in so many of those.
Steady(total, time) ==
  \A s, t \in 0 .. time : s <= t =>
    /\ total[s] <= total[t]
    /\ total[t] - total[s] <= (t - s) * Pace(total, time)

\* What the agent of a machine said, it moved in an interval.
Paced ==
  /\ \A n \in Machines : Steady(moved[n], clock)
  /\ \A row \in hardware : row.rx <= SCALE * Pace(moved[row.node], clock)

\* What the counter of a machine was known to say, and when.
Told(n) == {x \in C!Of(samples, n) \cup {reading[n]} : x.rx # Null}

\* How much of what a machine had moved its counter no longer knew.
Forgotten(n, x) == moved[n][x.at] - x.rx

\* A counter forgets, and never remembers; without a restart it knows everything.
CountersForget ==
  \A n \in Machines :
    /\ counter[n] <= moved[n][clock]
    /\ restarts[n] = {} => counter[n] = moved[n][clock]
    /\ \A x \in Told(n) :
         /\ 0 <= Forgotten(n, x) /\ Forgotten(n, x) <= moved[n][clock] - counter[n]
         /\ restarts[n] = {} => Forgotten(n, x) = 0
    /\ \A x, y \in Told(n) : x.at <= y.at => Forgotten(n, x) <= Forgotten(n, y)

SeriesInv == SeriesTypes /\ Numbered /\ Paced /\ CountersForget

\* As many values as there are members, or fewer.
LEMMA FiniteImage ==
  ASSUME NEW All, IsFiniteSet(All), NEW f
  PROVE  IsFiniteSet({f[x] : x \in All})
<1> DEFINE image == {f[x] : x \in All}
           g == [x \in All |-> f[x]]
<1>1. g \in Surjection(All, image)
  BY DEF Surjection
<1> HIDE DEF image, g
<1>2. IsFiniteSet(image)
  BY <1>1, FS_Surjection
<1> QED BY <1>2 DEF image

\* The fastest interval is one of them, if there is any.
LEMMA PaceIs ==
  ASSUME NEW time \in Nat, NEW total \in [0 .. time -> Nat],
         \A s, t \in 0 .. time : s <= t => total[s] <= total[t]
  PROVE  /\ Pace(total, time) \in Nat
         /\ \A t \in 1 .. time : total[t] - total[t - 1] <= Pace(total, time)
         /\ Pace(total, time) = 0 \/ \E t \in 1 .. time : Pace(total, time) = total[t] - total[t - 1]
<1> DEFINE steps == {0} \cup {total[t] - total[t - 1] : t \in 1 .. time}
<1>1. ASSUME NEW t \in 1 .. time
      PROVE  total[t] - total[t - 1] \in Nat /\ total[t] - total[t - 1] <= total[time]
  <2>1. t \in 0 .. time /\ t - 1 \in 0 .. time /\ time \in 0 .. time /\ t - 1 <= t /\ t <= time
    OBVIOUS
  <2>2. total[t] \in Nat /\ total[t - 1] \in Nat /\ total[time] \in Nat
    BY <2>1
  <2>3. total[t - 1] <= total[t] /\ total[t] <= total[time]
    BY <2>1
  <2> QED BY <2>2, <2>3
<1>2. total[time] \in Nat
  OBVIOUS
<1>3. steps \subseteq Nat /\ steps # {}
  BY <1>1
<1>4. \A x \in steps : x <= total[time]
  BY <1>1, <1>2
<1>5. C!Max(steps) \in steps /\ \A x \in steps : x <= C!Max(steps)
  <2> HIDE DEF steps
  <2>1. steps \in SUBSET Int /\ total[time] \in Int
    BY <1>2, <1>3
  <2> QED BY <2>1, <1>3, <1>4, Largest
<1>6. Pace(total, time) = C!Max(steps)
  BY DEF Pace
<1>7. \A t \in 1 .. time : total[t] - total[t - 1] \in steps
  OBVIOUS
<1>8. \A x \in steps : x = 0 \/ \E t \in 1 .. time : x = total[t] - total[t - 1]
  OBVIOUS
<1> HIDE DEF steps
<1> QED BY <1>1, <1>3, <1>5, <1>6, <1>7, <1>8

\* So many times more is more.
LEMMA Times ==
  ASSUME NEW a \in Nat, NEW p \in Nat, NEW q \in Nat, p <= q
  PROVE  a * p <= a * q /\ a * p \in Nat /\ a * q \in Nat /\ (a + 1) * q = a * q + q
  OBVIOUS

\* One interval more.
LEMMA PaceKept ==
  ASSUME NEW time \in Nat, NEW total \in [0 .. time -> Nat], Steady(total, time), NEW b \in Nat,
         NEW more, more = [t \in 0 .. time + 1 |-> IF t = time + 1 THEN total[time] + b ELSE total[t]]
  PROVE  /\ more \in [0 .. time + 1 -> Nat]
         /\ Steady(more, time + 1)
         /\ b <= Pace(more, time + 1)
         /\ Pace(total, time) \in Nat /\ Pace(more, time + 1) \in Nat
         /\ Pace(total, time) <= Pace(more, time + 1)
<1> DEFINE P == Pace(total, time)
           Q == Pace(more, time + 1)
<1>1. \A t \in 0 .. time : total[t] \in Nat /\ more[t] = total[t]
  OBVIOUS
<1>2. more[time + 1] = total[time] + b /\ total[time] \in Nat
  OBVIOUS
<1>3. more \in [0 .. time + 1 -> Nat]
  BY <1>1
<1>4. \A s, t \in 0 .. time : s <= t => total[s] <= total[t]
  BY DEF Steady
<1>5. ASSUME NEW s \in 0 .. time + 1, NEW t \in 0 .. time + 1, s <= t PROVE more[s] <= more[t]
  <2>1. CASE t \in 0 .. time
    <3>1. s \in 0 .. time
      BY <1>5, <2>1
    <3> QED BY <1>1, <1>4, <1>5, <2>1, <3>1
  <2>2. CASE t = time + 1 /\ s \in 0 .. time
    <3>1. total[s] <= total[time] /\ total[s] \in Nat
      BY <1>1, <1>4, <2>2
    <3> QED BY <1>1, <1>2, <2>2, <3>1
  <2>3. CASE t = time + 1 /\ s = time + 1
    BY <1>2, <2>3
  <2> QED BY <2>1, <2>2, <2>3
<1>6. P \in Nat /\ (P = 0 \/ \E t \in 1 .. time : P = total[t] - total[t - 1])
  BY <1>4, PaceIs
<1>7. Q \in Nat /\ \A t \in 1 .. time + 1 : more[t] - more[t - 1] <= Q
  <2>1. time + 1 \in Nat
    OBVIOUS
  <2> QED BY <1>3, <1>5, <2>1, PaceIs
<1>8. b <= Q
  <2>1. time + 1 \in 1 .. time + 1 /\ (time + 1) - 1 = time /\ time \in 0 .. time
    OBVIOUS
  <2>2. more[time + 1] - more[time] <= Q
    BY <1>7, <2>1
  <2> HIDE DEF Q
  <2> QED BY <1>1, <1>2, <1>7, <2>1, <2>2
<1>9. P <= Q
  <2>1. CASE P = 0
    BY <1>7, <2>1
  <2>2. ASSUME NEW t \in 1 .. time, P = total[t] - total[t - 1] PROVE P <= Q
    <3>1. t \in 1 .. time + 1 /\ t \in 0 .. time /\ t - 1 \in 0 .. time
      OBVIOUS
    <3>2. more[t] - more[t - 1] <= Q
      BY <1>7, <3>1
    <3>3. more[t] - more[t - 1] = total[t] - total[t - 1]
      BY <1>1, <3>1
    <3> HIDE DEF P, Q
    <3> QED BY <2>2, <3>2, <3>3
  <2> HIDE DEF P, Q
  <2> QED BY <1>6, <2>1, <2>2
<1> HIDE DEF P, Q
<1>10. ASSUME NEW s \in 0 .. time + 1, NEW t \in 0 .. time + 1, s <= t
       PROVE  more[t] - more[s] <= (t - s) * Q
  <2>1. CASE t \in 0 .. time
    <3>1. s \in 0 .. time /\ t - s \in Nat
      BY <1>10, <2>1
    <3>2. total[t] - total[s] <= (t - s) * P
      BY <1>10, <2>1, <3>1 DEF Steady, P
    <3>3. (t - s) * P <= (t - s) * Q /\ (t - s) * P \in Nat /\ (t - s) * Q \in Nat
      BY <1>6, <1>7, <1>9, <3>1, Times
    <3>4. total[t] - total[s] \in Int
      BY <1>1, <2>1, <3>1
    <3> QED BY <1>1, <2>1, <3>1, <3>2, <3>3, <3>4
  <2>2. CASE t = time + 1 /\ s \in 0 .. time
    <3>1. time - s \in Nat /\ t - s = (time - s) + 1 /\ time \in 0 .. time /\ s <= time
      BY <2>2
    <3>2. total[time] - total[s] <= (time - s) * P
      BY <2>2, <3>1 DEF Steady, P
    <3>3. /\ (time - s) * P <= (time - s) * Q
          /\ (time - s) * P \in Nat /\ (time - s) * Q \in Nat
          /\ ((time - s) + 1) * Q = (time - s) * Q + Q
      BY <1>6, <1>7, <1>9, <3>1, Times
    <3>4. more[t] - more[s] = (total[time] - total[s]) + b /\ total[time] - total[s] \in Int
      BY <1>1, <1>2, <2>2
    <3> QED BY <1>7, <1>8, <3>1, <3>2, <3>3, <3>4
  <2>3. CASE t = time + 1 /\ s = time + 1
    <3>1. t - s = 0 /\ more[t] - more[s] = 0 /\ 0 * Q = 0
      BY <1>2, <1>7, <2>3
    <3> QED BY <3>1
  <2> QED BY <2>1, <2>2, <2>3
<1>11. Steady(more, time + 1)
  BY <1>5, <1>10 DEF Steady, Q
<1> QED BY <1>3, <1>6, <1>7, <1>8, <1>9, <1>11 DEF P, Q

\* The rows are counted the same way here and in Series.
LEMMA RowCounting ==
  \A set : C!Cardinality(set) = Cardinality(set) /\ (C!IsFiniteSet(set) <=> IsFiniteSet(set))
  BY DEF C!Cardinality, Cardinality, C!IsFiniteSet, IsFiniteSet

\* What is assumed of the constants.
LEMMA NodesAreFinite ==
  /\ IsFiniteSet(Machines) /\ Members \subseteq Machines /\ Bytes \subseteq Nat
  /\ SCALE \in Nat \ {0} /\ MaxIntervals \in Nat /\ Null \notin Int
  /\ MAX_SERIES_POINTS \in Nat \ {0} /\ Spans \subseteq Nat \ {0}
  /\ \A d \in 1 .. MaxIntervals : SCALE % d = 0
  BY Zenon, SeriesAssumption, RowCounting DEF C!SeriesAssumption

\* At the start.
LEMMA SeriesStart == C!Init => SeriesInv
<1> SUFFICES ASSUME C!Init PROVE SeriesInv
  OBVIOUS
<1> USE DEF C!Init
<1>1. 0 .. 0 = {0}
  OBVIOUS
<1>2. SeriesTypes
  BY <1>1, NodesAreFinite, FS_EmptySet DEF SeriesTypes
<1>3. \A n \in Members : C!Of(samples, n) = {}
  BY DEF C!Of
<1>4. Numbered
  BY <1>3 DEF Numbered
<1>5. Paced
  <2>1. ASSUME NEW n \in Machines PROVE Steady(moved[n], clock)
    <3> DEFINE total == moved[n]
    <3>1. total \in [0 .. 0 -> Nat] /\ total[0] = 0 /\ \A s \in 0 .. 0 : s = 0
      BY <1>1
    <3> HIDE DEF total
    <3>2. Pace(total, 0) \in Nat
      BY <3>1, PaceIs
    <3>3. 0 * Pace(total, 0) = 0
      BY <3>2
    <3>4. Steady(total, 0)
      BY <3>1, <3>3 DEF Steady
    <3> QED BY <3>4 DEF total
  <2> QED BY <2>1 DEF Paced
<1>6. CountersForget
  <2>1. ASSUME NEW n \in Machines, NEW x \in Told(n) PROVE x.at = 0 /\ x.rx = 0 /\ Forgotten(n, x) = 0
    BY <2>1 DEF Told, C!Of, Forgotten
  <2> QED BY <2>1 DEF CountersForget
<1> QED BY <1>2, <1>4, <1>5, <1>6 DEF SeriesInv

\* A stuttering step.
LEMMA SeriesStutter ==
  ASSUME SeriesInv, UNCHANGED <<agents, moved, restarts, counter, reading, samples, hardware, clock>>
  PROVE  SeriesInv'
<1>1. SeriesTypes'
  BY DEF SeriesInv, SeriesTypes
<1>2. Numbered'
  BY DEF SeriesInv, Numbered, C!Of
<1>3. Paced'
  BY DEF SeriesInv, Paced, Steady, Pace
<1>4. CountersForget'
  BY DEF SeriesInv, CountersForget, Told, Forgotten, C!Of
<1> QED BY <1>1, <1>2, <1>3, <1>4 DEF SeriesInv

\* An interval passes, with or without oddities.
LEMMA IntervalKeeps ==
  ASSUME SeriesInv, NEW b \in [Machines -> Bytes],
         NEW odd \in [Machines -> C!Oddities \cup {"none"}], C!Interval(b, odd)
  PROVE  SeriesInv'
<1> DEFINE now == [n \in Machines |-> IF odd[n] = "reset" THEN 0 ELSE counter[n] + b[n]]
<1>1. /\ clock < MaxIntervals /\ clock' = clock + 1 /\ clock \in Nat /\ clock' \in Nat
      /\ moved' = [n \in Machines |-> [t \in 0 .. clock + 1 |->
                     IF t = clock + 1 THEN moved[n][clock] + b[n] ELSE moved[n][t]]]
      /\ restarts' = [n \in Machines |->
                        restarts[n] \cup {t \in {clock'} : odd[n] = "reset"}]
      /\ counter' = now
      /\ reading' = [n \in Machines |->
           IF odd[n] = "again" THEN reading[n]
           ELSE [at |-> clock', rx |-> IF odd[n] = "unread" THEN Null ELSE now[n]]]
      /\ hardware' = hardware \cup {[node |-> n, at |-> clock', rx |-> SCALE * b[n]] :
                                      n \in {m \in agents : ~(odd[m] = "missed")}}
      /\ agents' = agents /\ samples' = samples
  BY DEF C!Interval, SeriesInv, SeriesTypes
<1> HIDE DEF now
<1>2. ASSUME NEW n \in Machines PROVE b[n] \in Nat /\ moved[n] \in [0 .. clock -> Nat]
                                    /\ counter[n] \in Nat
  BY NodesAreFinite DEF SeriesInv, SeriesTypes
<1>3. ASSUME NEW n \in Machines
      PROVE  /\ moved'[n] \in [0 .. clock' -> Nat]
             /\ Steady(moved'[n], clock')
             /\ b[n] <= Pace(moved'[n], clock')
             /\ Pace(moved[n], clock) \in Nat /\ Pace(moved'[n], clock') \in Nat
             /\ Pace(moved[n], clock) <= Pace(moved'[n], clock')
  <2>1. moved'[n] = [t \in 0 .. clock + 1 |->
                      IF t = clock + 1 THEN moved[n][clock] + b[n] ELSE moved[n][t]]
    BY <1>1
  <2>2. Steady(moved[n], clock)
    BY DEF SeriesInv, Paced
  <2>3. clock \in Nat /\ moved[n] \in [0 .. clock -> Nat] /\ b[n] \in Nat
    BY <1>1, <1>2
  <2>4. /\ moved'[n] \in [0 .. clock + 1 -> Nat]
        /\ Steady(moved'[n], clock + 1)
        /\ b[n] <= Pace(moved'[n], clock + 1)
        /\ Pace(moved[n], clock) \in Nat /\ Pace(moved'[n], clock + 1) \in Nat
        /\ Pace(moved[n], clock) <= Pace(moved'[n], clock + 1)
    BY <2>1, <2>2, <2>3, PaceKept
  <2>5. clock' = clock + 1
    BY <1>1
  <2> QED BY <2>4, <2>5
<1>4. ASSUME NEW n \in Machines
      PROVE  /\ \A t \in 0 .. clock : moved'[n][t] = moved[n][t]
             /\ moved'[n][clock'] = moved[n][clock] + b[n]
  BY <1>1, <1>2
<1>5. now \in [Machines -> Nat]
  BY <1>2 DEF now
<1>6. ASSUME NEW n \in agents
      PROVE  SCALE * b[n] \in Nat /\ SCALE * b[n] <= SCALE * Pace(moved'[n], clock') /\ n \in Machines
  <2>1. n \in Machines
    BY DEF SeriesInv, SeriesTypes
  <2> QED BY <1>2, <1>3, <2>1, NodesAreFinite, Times
<1> DEFINE heard == {n \in agents : ~(odd[n] = "missed")}
           report == [n \in heard |-> [node |-> n, at |-> clock', rx |-> SCALE * b[n]]]
<1>7. hardware' = hardware \cup {report[n] : n \in heard}
  BY <1>1
<1>8. SeriesTypes'
  <2>1. moved' \in [Machines -> [0 .. clock' -> Nat]]
    BY <1>1, <1>3
  <2>2. restarts' \in [Machines -> SUBSET Nat]
    BY <1>1 DEF SeriesInv, SeriesTypes
  <2>3. reading' \in [Machines -> [at : 0 .. clock', rx : Nat \cup {Null}]]
    BY <1>1, <1>5 DEF SeriesInv, SeriesTypes
  <2>4. samples \subseteq [count : Nat, node : Members, at : 1 .. clock', rx : Nat \cup {Null}]
    BY <1>1 DEF SeriesInv, SeriesTypes
  <2>5. hardware' \subseteq [node : Machines, at : 1 .. clock', rx : Nat]
    <3>1. hardware \subseteq [node : Machines, at : 1 .. clock', rx : Nat]
      BY <1>1 DEF SeriesInv, SeriesTypes
    <3>2. \A n \in heard : report[n] \in [node : Machines, at : 1 .. clock', rx : Nat]
      <4> TAKE n \in heard
      <4>1. n \in Machines /\ SCALE * b[n] \in Nat
        <5>1. n \in agents
          OBVIOUS
        <5> QED BY <1>6, <5>1
      <4>3. clock' \in 1 .. clock'
        BY <1>1
      <4>2. report[n] = [node |-> n, at |-> clock', rx |-> SCALE * b[n]]
        OBVIOUS
      <4> QED BY <4>1, <4>2, <4>3
    <3> HIDE DEF report, heard
    <3> QED BY <1>7, <3>1, <3>2
  <2>6. IsFiniteSet(hardware')
    <3>1. IsFiniteSet(heard)
      BY NodesAreFinite, FS_Subset DEF SeriesInv, SeriesTypes
    <3>2. IsFiniteSet({report[n] : n \in heard})
      <4> HIDE DEF report, heard
      <4> QED BY <3>1, FiniteImage
    <3> HIDE DEF report, heard
    <3> QED BY <1>7, <3>2, FS_Union DEF SeriesInv, SeriesTypes
  <2>7. clock' <= MaxIntervals
    BY <1>1, NodesAreFinite
  <2> HIDE DEF report, heard
  <2> QED BY <1>1, <1>5, <2>1, <2>2, <2>3, <2>4, <2>5, <2>6, <2>7 DEF SeriesInv, SeriesTypes
<1>9. Numbered'
  BY <1>1 DEF SeriesInv, Numbered, C!Of
<1>10. Paced'
  <2>1. ASSUME NEW n \in Machines PROVE Steady(moved[n], clock)'
    BY <1>3 DEF Steady, Pace
  <2>2. ASSUME NEW row \in hardware' PROVE (row.rx <= SCALE * Pace(moved[row.node], clock))'
    <3>1. CASE row \in hardware
      <4>1. row.node \in Machines /\ row.rx \in Nat
        BY <3>1 DEF SeriesInv, SeriesTypes
      <4>2. row.rx <= SCALE * Pace(moved[row.node], clock)
        BY <3>1 DEF SeriesInv, Paced
      <4>3. /\ SCALE * Pace(moved[row.node], clock) <= SCALE * Pace(moved'[row.node], clock')
            /\ SCALE * Pace(moved[row.node], clock) \in Nat
            /\ SCALE * Pace(moved'[row.node], clock') \in Nat
        BY <1>3, <4>1, NodesAreFinite, Times
      <4>4. row.rx <= SCALE * Pace(moved'[row.node], clock')
        BY <4>1, <4>2, <4>3
      <4> QED BY <4>4 DEF Pace
    <3>2. CASE row \in {report[n] : n \in heard}
      <4>1. PICK n \in heard : row = report[n]
        BY <3>2
      <4>2. row.node = n /\ row.rx = SCALE * b[n] /\ n \in agents
        BY <4>1
      <4>3. row.rx <= SCALE * Pace(moved'[row.node], clock')
        BY <1>6, <4>2
      <4> QED BY <4>3 DEF Pace
    <3> QED BY <1>7, <2>2, <3>1, <3>2
  <2> QED BY <2>1, <2>2 DEF Paced
<1>11. CountersForget'
  <2> SUFFICES ASSUME NEW n \in Machines
               PROVE  (/\ counter[n] <= moved[n][clock]
                       /\ restarts[n] = {} => counter[n] = moved[n][clock]
                       /\ \A x \in Told(n) :
                            /\ 0 <= Forgotten(n, x)
                            /\ Forgotten(n, x) <= moved[n][clock] - counter[n]
                            /\ restarts[n] = {} => Forgotten(n, x) = 0
                       /\ \A x, y \in Told(n) :
                            x.at <= y.at => Forgotten(n, x) <= Forgotten(n, y))'
    BY DEF CountersForget
  <2>1. /\ counter[n] <= moved[n][clock] /\ (restarts[n] = {} => counter[n] = moved[n][clock])
        /\ \A x \in Told(n) :
             /\ 0 <= Forgotten(n, x) /\ Forgotten(n, x) <= moved[n][clock] - counter[n]
             /\ restarts[n] = {} => Forgotten(n, x) = 0
        /\ \A x, y \in Told(n) : x.at <= y.at => Forgotten(n, x) <= Forgotten(n, y)
    BY DEF SeriesInv, CountersForget
  <2>2. /\ counter[n] \in Nat /\ counter'[n] \in Nat /\ b[n] \in Nat
        /\ moved[n][clock] \in Nat /\ moved'[n][clock'] = moved[n][clock] + b[n]
        /\ counter'[n] = IF odd[n] = "reset" THEN 0 ELSE counter[n] + b[n]
    BY <1>1, <1>2, <1>4, <1>5 DEF now
  <2>3. restarts'[n] = {} => restarts[n] = {} /\ odd[n] # "reset"
    BY <1>1
  <2>4. counter'[n] <= moved'[n][clock'] /\ (restarts'[n] = {} => counter'[n] = moved'[n][clock'])
        /\ moved[n][clock] - counter[n] <= moved'[n][clock'] - counter'[n]
    BY <2>1, <2>2, <2>3
  <2>5. ASSUME NEW x \in Told(n)
        PROVE  x.at \in 0 .. clock /\ x.rx \in Nat /\ Forgotten(n, x)' = Forgotten(n, x)
               /\ Forgotten(n, x) \in Int
    <3>1. x.at \in 0 .. clock /\ x.rx \in Nat
      BY DEF SeriesInv, SeriesTypes, Told, C!Of
    <3>2. moved'[n][x.at] = moved[n][x.at] /\ moved[n][x.at] \in Nat
      BY <1>2, <1>4, <3>1
    <3> QED BY <3>1, <3>2 DEF Forgotten
  <2>6. ASSUME NEW x \in Told(n)', x \notin Told(n)
        PROVE  x.at = clock' /\ x.rx = counter'[n]
               /\ Forgotten(n, x)' = moved'[n][clock'] - counter'[n]
    <3>1. x = reading'[n] /\ x # reading[n] /\ x.rx # Null
      BY <1>1, <2>6 DEF Told, C!Of
    <3>2. x.at = clock' /\ x.rx = counter'[n]
      BY <1>1, <3>1
    <3> QED BY <3>2 DEF Forgotten
  <2>7. \A x \in Told(n)' :
             /\ 0 <= Forgotten(n, x)' /\ Forgotten(n, x)' <= moved'[n][clock'] - counter'[n]
             /\ restarts'[n] = {} => Forgotten(n, x)' = 0
    <3> TAKE x \in Told(n)'
    <3>1. CASE x \in Told(n)
      BY <1>4, <2>1, <2>2, <2>3, <2>4, <2>5, <3>1
    <3>2. CASE x \notin Told(n)
      BY <2>2, <2>4, <2>6, <3>2
    <3> QED BY <3>1, <3>2
  <2>8. \A x, y \in Told(n)' : x.at <= y.at => Forgotten(n, x)' <= Forgotten(n, y)'
    <3> SUFFICES ASSUME NEW x \in Told(n)', NEW y \in Told(n)', x.at <= y.at
                 PROVE  Forgotten(n, x)' <= Forgotten(n, y)'
      OBVIOUS
    <3>1. CASE x \in Told(n) /\ y \in Told(n)
      BY <2>1, <2>5, <3>1
    <3>2. CASE y \notin Told(n)
      BY <2>6, <2>7, <3>2
    <3>3. CASE x \notin Told(n) /\ y \in Told(n)
      <4>1. x.at = clock' /\ y.at \in 0 .. clock
        BY <2>5, <2>6, <3>3
      <4> QED BY <1>1, <4>1
    <3> QED BY <3>1, <3>2, <3>3
  <2> QED BY <2>4, <2>7, <2>8
<1> QED BY <1>8, <1>9, <1>10, <1>11 DEF SeriesInv

\* A poll is kept.
LEMMA PolledKeeps ==
  ASSUME SeriesInv, C!Polled
  PROVE  SeriesInv'
<1> DEFINE due == {n \in Members : C!IsDue(n)}
           sample == [n \in due |-> [count |-> Cardinality(C!Of(samples, n)), node |-> n,
                                     at |-> reading[n].at, rx |-> reading[n].rx]]
<1>1. /\ UNCHANGED <<clock, agents, moved, restarts, counter, reading, hardware>>
      /\ samples' = samples \cup {sample[n] : n \in due}
  BY RowCounting DEF C!Polled
<1>2. ASSUME NEW n \in due
      PROVE  /\ n \in Members /\ n \in Machines
             /\ sample[n].count = Cardinality(C!Of(samples, n)) /\ sample[n].node = n
             /\ sample[n].at = reading[n].at /\ sample[n].rx = reading[n].rx
             /\ sample[n] \in [count : Nat, node : Members, at : 1 .. clock, rx : Nat \cup {Null}]
  <2>1. n \in Members /\ n \in Machines /\ reading[n].at > 0
    BY NodesAreFinite DEF C!IsDue
  <2>2. reading[n].at \in 0 .. clock /\ reading[n].rx \in Nat \cup {Null} /\ clock \in Nat
    BY <2>1 DEF SeriesInv, SeriesTypes
  <2>3. reading[n].at \in 1 .. clock
    BY <2>1, <2>2
  <2>4. Cardinality(C!Of(samples, n)) \in Nat
    BY FS_Subset, FS_CardinalityType DEF C!Of, SeriesInv, SeriesTypes
  <2>5. sample[n] = [count |-> Cardinality(C!Of(samples, n)), node |-> n,
                     at |-> reading[n].at, rx |-> reading[n].rx]
    OBVIOUS
  <2> HIDE DEF sample, due
  <2> QED BY <2>1, <2>2, <2>3, <2>4, <2>5
<1>3. ASSUME NEW n \in Members
      PROVE  /\ n \notin due => C!Of(samples', n) = C!Of(samples, n)
             /\ n \in due => C!Of(samples', n) = C!Of(samples, n) \cup {sample[n]}
             /\ IsFiniteSet(C!Of(samples, n)) /\ Cardinality(C!Of(samples, n)) \in Nat
             /\ C!Of(samples, n) \subseteq samples
  <2>1. \A m \in due : sample[m].node = m
    BY <1>2
  <2>2. C!Of(samples, n) \subseteq samples /\ IsFiniteSet(samples)
    BY DEF C!Of, SeriesInv, SeriesTypes
  <2>3. IsFiniteSet(C!Of(samples, n)) /\ Cardinality(C!Of(samples, n)) \in Nat
    BY <2>2, FS_Subset, FS_CardinalityType
  <2> HIDE DEF due, sample
  <2> QED BY <1>1, <2>1, <2>2, <2>3 DEF C!Of
<1>4. IsFiniteSet(due)
  BY NodesAreFinite, FS_Subset
<1>5. due \subseteq Members
  OBVIOUS
<1> HIDE DEF due, sample
<1>6. SeriesTypes'
  <2>1. IsFiniteSet({sample[n] : n \in due})
    BY <1>4, FiniteImage
  <2>2. IsFiniteSet(samples')
    BY <1>1, <2>1, FS_Union DEF SeriesInv, SeriesTypes
  <2>3. \A n \in due : sample[n] \in [count : Nat, node : Members, at : 1 .. clock, rx : Nat \cup {Null}]
    BY <1>2
  <2>4. samples' \subseteq [count : Nat, node : Members, at : 1 .. clock, rx : Nat \cup {Null}]
    BY <1>1, <2>3 DEF SeriesInv, SeriesTypes
  <2> QED BY <1>1, <2>2, <2>4 DEF SeriesInv, SeriesTypes
<1>7. Numbered'
  <2> SUFFICES ASSUME NEW n \in Members
               PROVE  /\ \A x \in C!Of(samples', n) : x.count < Cardinality(C!Of(samples', n))
                      /\ \A x, y \in C!Of(samples', n) : x.count = y.count => x = y
    BY DEF Numbered, C!Of
  <2> DEFINE old == C!Of(samples, n)
  <2>1. /\ \A x \in old : x.count < Cardinality(old) /\ x.count \in Nat
        /\ \A x, y \in old : x.count = y.count => x = y
    BY <1>3 DEF SeriesInv, SeriesTypes, Numbered
  <2>2. CASE n \notin due
    BY <1>3, <2>1, <2>2
  <2>3. CASE n \in due
    <3>1. C!Of(samples', n) = old \cup {sample[n]} /\ sample[n].count = Cardinality(old)
          /\ Cardinality(old) \in Nat
      BY <1>2, <1>3, <2>3
    <3>2. sample[n] \notin old
      BY <2>1, <3>1
    <3>3. Cardinality(C!Of(samples', n)) = Cardinality(old) + 1
      BY <1>3, <3>1, <3>2, FS_AddElement
    <3> HIDE DEF old
    <3> QED BY <2>1, <3>1, <3>3
  <2> QED BY <2>2, <2>3
<1>8. Paced'
  BY <1>1 DEF SeriesInv, Paced, Steady, Pace
<1>9. CountersForget'
  <2>1. ASSUME NEW n \in Machines, NEW x \in Told(n)'
        PROVE  \E y \in Told(n) : y.at = x.at /\ y.rx = x.rx
    <3>1. CASE x \in Told(n)
      BY <3>1
    <3>2. CASE x \notin Told(n)
      <4>1. x \in samples' /\ x \notin samples /\ x.node = n /\ x.rx # Null
        BY <1>1, <2>1, <3>2 DEF Told, C!Of
      <4>2. PICK m \in due : x = sample[m]
        BY <1>1, <4>1
      <4>3. m = n /\ x.at = reading[n].at /\ x.rx = reading[n].rx
        BY <1>2, <4>1, <4>2
      <4>4. reading[n] \in Told(n)
        BY <4>1, <4>3 DEF Told
      <4> QED BY <4>3, <4>4
    <3> QED BY <3>1, <3>2
  <2> QED BY <1>1, <2>1 DEF SeriesInv, CountersForget, Forgotten
<1> QED BY <1>6, <1>7, <1>8, <1>9 DEF SeriesInv

\* Every step.
LEMMA SeriesStep ==
  ASSUME SeriesInv, C!Next
  PROVE  SeriesInv'
<1>1. ASSUME NEW b \in [Machines -> Bytes], NEW odd \in [Machines -> C!Oddities \cup {"none"}],
             C!Interval(b, odd)
      PROVE  SeriesInv'
  BY <1>1, IntervalKeeps
<1>2. CASE C!Restart
  BY <1>2, SeriesStutter DEF C!Restart
<1> QED BY <1>1, <1>2, PolledKeeps DEF C!Next

-----------------------------------------------------------------------------
(* What is drawn of the rows.                                              *)

Upwards(set) == C!InOrder(set, LAMBDA a, b : a < b)
InTime(rows) ==
  C!InOrder(rows, LAMBDA a, b : a.at < b.at \/ (a.at = b.at /\ a.count < b.count))

\* Numbers in order go up.
LEMMA NumbersInOrder ==
  ASSUME NEW set \in SUBSET Int, IsFiniteSet(set), NEW seq, seq = Upwards(set)
  PROVE  /\ Cardinality(set) \in Nat
         /\ seq = [i \in 1 .. Cardinality(set) |-> seq[i]]
         /\ \A i \in 1 .. Cardinality(set) : seq[i] \in set
         /\ \A i, j \in 1 .. Cardinality(set) : i < j => seq[i] < seq[j]
<1> DEFINE below == [x \in set |-> {y \in set : y < x}]
           Place(i, x) == C!Cardinality({y \in set : y < x}) = i - 1
<1>1. Cardinality(set) \in Nat
  BY FS_CardinalityType
<1>2. \A x \in set : \A i : Place(i, x) <=> Counted(below, x) = i - 1
  BY RowCounting DEF Counted
<1>3. seq = [i \in 1 .. Cardinality(set) |-> CHOOSE x \in set : Place(i, x)]
  BY RowCounting DEF C!InOrder, Upwards
<1>4. /\ \A i \in 1 .. Cardinality(set) : \E x \in set : Counted(below, x) = i - 1
      /\ \A x, y \in set : Counted(below, y) < Counted(below, x) => y \in below[x]
  <2>1. \A x \in set : below[x] \subseteq set /\ x \notin below[x]
    OBVIOUS
  <2>2. \A x, y \in set : x = y \/ x \in below[y] \/ y \in below[x]
    OBVIOUS
  <2>3. ASSUME NEW x \in set, NEW y \in set, y \in below[x] PROVE below[y] \subseteq below[x]
    <3>1. \A z \in set : z < y => z < x
      BY <2>3
    <3> QED BY <3>1
  <2> HIDE DEF below
  <2> QED BY <2>1, <2>2, <2>3, Ranks
<1>5. \A x, y \in set : y \in below[x] => y < x
  OBVIOUS
<1> HIDE DEF below, Place
<1>6. ASSUME NEW i \in 1 .. Cardinality(set) PROVE seq[i] \in set /\ Counted(below, seq[i]) = i - 1
  <2>1. \E x \in set : Place(i, x)
    BY <1>2, <1>4
  <2>2. seq[i] \in set /\ Place(i, seq[i])
    BY <1>3, <2>1
  <2> QED BY <1>2, <2>2
<1>7. ASSUME NEW i \in 1 .. Cardinality(set), NEW j \in 1 .. Cardinality(set), i < j
      PROVE  seq[i] < seq[j]
  <2>1. i - 1 < j - 1
    BY <1>1, <1>7
  <2>2. seq[i] \in below[seq[j]]
    BY <1>4, <1>6, <2>1
  <2> QED BY <1>5, <1>6, <2>2
<1> QED BY <1>1, <1>3, <1>6, <1>7

\* The rows of a node, unless they are too many to be drawn.
LEMMA RowsInOrder ==
  ASSUME NEW rows, IsFiniteSet(rows), \A x \in rows : x.at \in Int /\ x.count \in Int,
         \A x, y \in rows : x.count = y.count => x = y, NEW seq, seq = InTime(rows)
  PROVE  /\ Cardinality(rows) \in Nat
         /\ seq = [i \in 1 .. Cardinality(rows) |-> seq[i]]
         /\ \A i \in 1 .. Cardinality(rows) : seq[i] \in rows
<1> DEFINE Before(a, b) == a.at < b.at \/ (a.at = b.at /\ a.count < b.count)
           below == [x \in rows |-> {y \in rows : Before(y, x)}]
           Place(i, x) == C!Cardinality({y \in rows : Before(y, x)}) = i - 1
<1>1. Cardinality(rows) \in Nat
  BY FS_CardinalityType
<1>2. \A x \in rows : \A i : Place(i, x) <=> Counted(below, x) = i - 1
  BY RowCounting DEF Counted
<1>3. seq = [i \in 1 .. Cardinality(rows) |-> CHOOSE x \in rows : Place(i, x)]
  BY RowCounting DEF C!InOrder, InTime
<1>4. \A i \in 1 .. Cardinality(rows) : \E x \in rows : Counted(below, x) = i - 1
  <2>1. \A x \in rows : below[x] \subseteq rows /\ x \notin below[x]
    OBVIOUS
  <2>2. \A x, y \in rows : x = y \/ x \in below[y] \/ y \in below[x]
    OBVIOUS
  <2>3. \A x, y \in rows : y \in below[x] => below[y] \subseteq below[x]
    OBVIOUS
  <2> HIDE DEF below
  <2> QED BY <2>1, <2>2, <2>3, Ranks
<1> HIDE DEF below, Place
<1>6. ASSUME NEW i \in 1 .. Cardinality(rows) PROVE seq[i] \in rows
  <2>1. \E x \in rows : Place(i, x)
    BY <1>2, <1>4
  <2> QED BY <1>3, <2>1
<1> QED BY <1>1, <1>3, <1>6

\* The buckets go up, and none of them is empty.
LEMMA BucketsAre ==
  ASSUME NEW rows, IsFiniteSet(rows), \A x \in rows : x.at \in Nat, NEW width \in Nat \ {0}
  PROVE  LET set == {x.at \div width : x \in rows}
             buckets == C!Buckets(rows, width)
         IN  /\ set \in SUBSET Nat /\ IsFiniteSet(set) /\ Cardinality(set) \in Nat
             /\ buckets = [i \in 1 .. Cardinality(set) |-> buckets[i]]
             /\ \A i \in 1 .. Cardinality(set) :
                  buckets[i] \in set /\ C!InBucket(rows, buckets[i], width) # {}
             /\ \A i, j \in 1 .. Cardinality(set) : i < j => buckets[i] < buckets[j]
<1> DEFINE set == {x.at \div width : x \in rows}
           seq == C!Buckets(rows, width)
           f == [x \in rows |-> x.at \div width]
<1>1. set \in SUBSET Nat
  <2>1. ASSUME NEW x \in rows PROVE x.at \div width \in Nat
    <3>1. x.at \in Int /\ 0 \in Int /\ 0 * width <= x.at
      OBVIOUS
    <3> QED BY <3>1, Dividing, DividingAtMost
  <2> QED BY <2>1
<1>2. IsFiniteSet(set)
  <2>1. set = {f[x] : x \in rows}
    OBVIOUS
  <2> HIDE DEF f, set
  <2> QED BY <2>1, FiniteImage
<1>3. seq = Upwards(set)
  BY DEF C!Buckets, Upwards
<1>4. \A b \in set : C!InBucket(rows, b, width) # {}
  BY DEF C!InBucket
<1> HIDE DEF set, seq
<1>5. set \in SUBSET Int
  BY <1>1
<1>6. /\ Cardinality(set) \in Nat
      /\ seq = [i \in 1 .. Cardinality(set) |-> seq[i]]
      /\ \A i \in 1 .. Cardinality(set) : seq[i] \in set
      /\ \A i, j \in 1 .. Cardinality(set) : i < j => seq[i] < seq[j]
  BY <1>2, <1>3, <1>5, NumbersInOrder
<1> QED BY <1>1, <1>2, <1>4, <1>6 DEF set, seq

\* The newest and the greatest of a node's samples.
LEMMA NewestIs ==
  ASSUME SeriesInv, NEW rows, rows # {}, rows \subseteq samples \/ rows \subseteq hardware
  PROVE  /\ C!NewestAt(rows) \in 1 .. clock
         /\ \A x \in rows : x.at <= C!NewestAt(rows)
         /\ \E x \in rows : x.at = C!NewestAt(rows)
<1> DEFINE times == {x.at : x \in rows}
<1>1. times \subseteq 1 .. clock /\ times # {} /\ clock \in Nat
  BY DEF SeriesInv, SeriesTypes
<1>2. C!NewestAt(rows) = C!Max(times)
  BY DEF C!NewestAt
<1>3. \A x \in rows : x.at \in times
  OBVIOUS
<1>4. \A t \in times : \E x \in rows : x.at = t
  OBVIOUS
<1> HIDE DEF times
<1>5. C!Max(times) \in times /\ \A t \in times : t <= C!Max(times)
  <2>1. times \in SUBSET Int /\ clock \in Int /\ \A t \in times : t <= clock
    BY <1>1
  <2> QED BY <1>1, <2>1, Largest
<1> QED BY <1>1, <1>2, <1>3, <1>4, <1>5

\* The greatest counter of some rows is that of one of them.
LEMMA GreatestIs ==
  ASSUME SeriesInv, NEW n \in Members, NEW rows, rows \subseteq C!Of(samples, n),
         C!Known(rows) # {}
  PROVE  /\ C!GreatestOf(rows) \in Nat
         /\ \A x \in C!Known(rows) : x.rx \in Nat /\ x.rx <= C!GreatestOf(rows)
         /\ \E x \in C!Known(rows) : x.rx = C!GreatestOf(rows)
<1> DEFINE known == C!Known(rows)
           said == {x.rx : x \in known}
<1>1. known # {} /\ C!GreatestOf(rows) = C!Max(said)
  BY DEF C!GreatestOf
<1>2. n \in Machines /\ moved[n][clock] \in Nat
  BY NodesAreFinite DEF SeriesInv, SeriesTypes
<1>3. ASSUME NEW x \in known PROVE x.rx \in Nat /\ x.rx <= moved[n][clock]
  <2>1. x \in samples /\ x \in Told(n)
    BY DEF C!Known, C!Of, Told
  <2>2. x.rx \in Nat /\ x.at \in 0 .. clock /\ clock \in 0 .. clock /\ x.at <= clock
    BY <2>1 DEF SeriesInv, SeriesTypes, C!Known
  <2>3. moved[n][x.at] \in Nat /\ moved[n][x.at] <= moved[n][clock]
    BY <1>2, <2>2 DEF SeriesInv, SeriesTypes, Paced, Steady
  <2>4. 0 <= moved[n][x.at] - x.rx
    BY <1>2, <2>1 DEF SeriesInv, CountersForget, Forgotten
  <2> QED BY <1>2, <2>2, <2>3, <2>4
<1>4. said \subseteq Nat /\ said # {} /\ \A y \in said : y <= moved[n][clock]
  <2> HIDE DEF known
  <2> QED BY <1>1, <1>3
<1>5. \A x \in known : x.rx \in said
  OBVIOUS
<1>6. \A y \in said : \E x \in known : x.rx = y
  OBVIOUS
<1> HIDE DEF said
<1>7. C!Max(said) \in said /\ \A y \in said : y <= C!Max(said)
  <2>1. said \in SUBSET Int /\ moved[n][clock] \in Int
    BY <1>2, <1>4
  <2> QED BY <1>4, <2>1, Largest
<1> QED BY <1>1, <1>3, <1>4, <1>5, <1>6, <1>7

\* What is in a later bucket is later.
LEMMA MoreIsLater ==
  ASSUME NEW a \in Nat, NEW b \in Nat, NEW w \in Nat \ {0}, a \div w < b \div w
  PROVE  a < b
<1> SUFFICES ASSUME b <= a PROVE FALSE
  OBVIOUS
<1>1. b \div w <= a \div w
  BY DividingMore
<1>2. a \div w \in Int /\ b \div w \in Int
  BY Dividing
<1> QED BY <1>1, <1>2

\* Two points of a line that do not go back: what a rate between them says.
LEMMA RateIs ==
  ASSUME NEW p, NEW q, p.at \in 1 .. clock, q.at \in 1 .. clock, p.rx \in Nat, q.rx \in Nat,
         clock \in Nat, clock <= MaxIntervals, C!CounterRate(p, q) # Null
  PROVE  /\ C!CounterRate(p, q) \in Nat /\ p.at < q.at /\ p.rx <= q.rx
         /\ C!CounterRate(p, q) * (q.at - p.at) = SCALE * (q.rx - p.rx)
         /\ C!CounterRate(p, q) = (SCALE * (q.rx - p.rx)) \div (q.at - p.at)
<1> DEFINE d == q.at - p.at
           x == q.rx - p.rx
           k == SCALE \div d
<1>1. p.at < q.at /\ p.rx <= q.rx /\ C!CounterRate(p, q) = (SCALE * x) \div d
  BY DEF C!CounterRate
<1>2. d \in 1 .. MaxIntervals /\ d \in Nat \ {0} /\ x \in Nat /\ SCALE \in Nat
  BY <1>1, NodesAreFinite
<1> HIDE DEF d, x
<1>3. SCALE % d = 0
  BY <1>2, NodesAreFinite
<1>4. SCALE = k * d /\ k \in Nat
  <2>1. k \in Int /\ d * k <= SCALE /\ SCALE < d * k + d
    BY <1>2, Dividing
  <2>2. SCALE = d * k
    BY <1>2, <1>3, <2>1
  <2>3. 0 <= k
    <3>1. 0 * d <= SCALE /\ 0 \in Int /\ SCALE \in Int
      BY <1>2
    <3> QED BY <1>2, <3>1, DividingAtMost
  <2> HIDE DEF k
  <2> QED BY <1>2, <2>1, <2>2, <2>3
<1> HIDE DEF k
<1>5. SCALE * x = (k * x) * d /\ k * x \in Nat /\ SCALE * x \in Int
  <2>1. (k * d) * x = (k * x) * d
    BY <1>2, <1>4
  <2> QED BY <1>2, <1>4, <2>1
<1>6. (SCALE * x) \div d = k * x
  BY <1>2, <1>5, DividingAtMost
<1> QED BY <1>1, <1>5, <1>6 DEF d, x

\* A point of a node: a counter it said then or before, and none it said then is greater.
IsPoint(n, p) ==
  /\ p.at \in 1 .. clock
  /\ p.rx # Null =>
       /\ p.rx \in Nat
       /\ \E x \in C!Known(C!Of(samples, n)) : x.rx = p.rx /\ x.at <= p.at
       /\ \A y \in C!Known(C!Of(samples, n)) : y.at = p.at => y.rx <= p.rx

\* What a later point says, the node said after the point before it.
SaidSince(n, p, q) ==
  \E x \in C!Known(C!Of(samples, n)) : x.rx = q.rx /\ p.at < x.at /\ x.at <= q.at

\* A sample that has a counter.
LEMMA SampleIs ==
  ASSUME SeriesInv, NEW n \in Members, NEW x \in C!Known(C!Of(samples, n))
  PROVE  /\ n \in Machines /\ x \in Told(n) /\ x \in samples /\ x.node = n
         /\ x.at \in 1 .. clock /\ x.rx \in Nat /\ clock \in Nat
         /\ moved[n][x.at] \in Nat /\ Forgotten(n, x) = moved[n][x.at] - x.rx
<1>1. n \in Machines /\ x \in samples /\ x.node = n /\ x.rx # Null /\ x \in Told(n)
  BY NodesAreFinite DEF C!Known, C!Of, Told
<1>2. x.at \in 1 .. clock /\ x.rx \in Nat /\ clock \in Nat
  BY <1>1 DEF SeriesInv, SeriesTypes
<1>3. moved[n] \in [0 .. clock -> Nat] /\ x.at \in 0 .. clock
  BY <1>1, <1>2 DEF SeriesInv, SeriesTypes
<1> QED BY <1>1, <1>2, <1>3 DEF Forgotten

\* What a machine had moved does not go back.
LEMMA MovedIs ==
  ASSUME SeriesInv, NEW n \in Machines, NEW s \in 0 .. clock, NEW t \in 0 .. clock, s <= t
  PROVE  /\ moved[n][s] \in Nat /\ moved[n][t] \in Nat /\ moved[n][s] <= moved[n][t]
         /\ C!Moved(n, s, t) = moved[n][t] - moved[n][s]
  BY DEF SeriesInv, SeriesTypes, Paced, Steady, C!Moved

\* Between two points the counter gained no more than was moved.
LEMMA GainedIsMoved ==
  ASSUME SeriesInv, NEW n \in Members, NEW p, NEW q, IsPoint(n, p), IsPoint(n, q),
         p.rx # Null, q.rx # Null, p.at < q.at, SaidSince(n, p, q), C!Read(n, p)
  PROVE  /\ q.rx - p.rx <= C!Moved(n, p.at, q.at)
         /\ C!Read(n, q) /\ restarts[n] = {} => q.rx - p.rx = C!Moved(n, p.at, q.at)
<1>1. PICK x \in C!Known(C!Of(samples, n)) : x.rx = q.rx /\ p.at < x.at /\ x.at <= q.at
  BY DEF SaidSince
<1>2. PICK y \in C!Known(C!Of(samples, n)) : y.at = p.at
  BY DEF C!Read
<1>3. /\ y.rx <= p.rx /\ p.at \in 1 .. clock /\ q.at \in 1 .. clock /\ p.rx \in Nat /\ q.rx \in Nat
  BY <1>2 DEF IsPoint
<1>4. /\ n \in Machines /\ x \in Told(n) /\ y \in Told(n) /\ x.at \in 1 .. clock /\ clock \in Nat
      /\ x.rx \in Nat /\ y.rx \in Nat /\ moved[n][x.at] \in Nat /\ moved[n][y.at] \in Nat
      /\ Forgotten(n, x) = moved[n][x.at] - x.rx /\ Forgotten(n, y) = moved[n][y.at] - y.rx
  BY SampleIs
<1>5. Forgotten(n, y) <= Forgotten(n, x)
  <2>1. y.at <= x.at
    BY <1>1, <1>2, <1>3, <1>4
  <2> QED BY <1>4, <2>1 DEF SeriesInv, CountersForget
<1>6. /\ p.at \in 0 .. clock /\ q.at \in 0 .. clock /\ x.at \in 0 .. clock
      /\ x.at <= q.at /\ p.at <= q.at
  BY <1>1, <1>3, <1>4
<1>7. /\ moved[n][x.at] <= moved[n][q.at] /\ moved[n][q.at] \in Nat
      /\ C!Moved(n, p.at, q.at) = moved[n][q.at] - moved[n][p.at]
  BY <1>4, <1>6, MovedIs
<1>8. q.rx - p.rx <= C!Moved(n, p.at, q.at)
  BY <1>1, <1>2, <1>3, <1>4, <1>5, <1>7
<1>9. ASSUME restarts[n] = {}, NEW r, IsPoint(n, r), r.rx # Null, C!Read(n, r)
      PROVE  r.rx = moved[n][r.at]
  <2>1. PICK u \in C!Known(C!Of(samples, n)) : u.rx = r.rx /\ u.at <= r.at
    BY <1>9 DEF IsPoint
  <2>2. PICK v \in C!Known(C!Of(samples, n)) : v.at = r.at
    BY <1>9 DEF C!Read
  <2>3. v.rx <= r.rx
    BY <1>9, <2>2 DEF IsPoint
  <2>4. /\ u \in Told(n) /\ v \in Told(n) /\ u.at \in 1 .. clock /\ v.at \in 1 .. clock
        /\ u.rx \in Nat /\ v.rx \in Nat /\ moved[n][u.at] \in Nat /\ moved[n][v.at] \in Nat
        /\ Forgotten(n, u) = moved[n][u.at] - u.rx /\ Forgotten(n, v) = moved[n][v.at] - v.rx
    BY SampleIs
  <2>5. Forgotten(n, u) = 0 /\ Forgotten(n, v) = 0
    BY <1>4, <1>9, <2>4 DEF SeriesInv, CountersForget
  <2>6. moved[n][u.at] <= moved[n][v.at]
    <3>1. u.at \in 0 .. clock /\ v.at \in 0 .. clock /\ u.at <= v.at
      BY <1>4, <2>1, <2>2, <2>4
    <3> QED BY <1>4, <3>1, MovedIs
  <2> QED BY <2>1, <2>2, <2>3, <2>4, <2>5, <2>6
<1>10. ASSUME C!Read(n, q), restarts[n] = {} PROVE q.rx - p.rx = C!Moved(n, p.at, q.at)
  <2>1. q.rx = moved[n][q.at] /\ p.rx = moved[n][p.at]
    BY <1>9, <1>10
  <2> QED BY <1>7, <2>1
<1> QED BY <1>8, <1>10

\* A bucket of a node's samples is a point of it.
LEMMA BucketIsPoint ==
  ASSUME SeriesInv, NEW n \in Members, NEW span, span \in Nat, NEW w \in Nat \ {0}, NEW b,
         NEW rows, rows = C!InBucket(C!Of(C!Window(samples, span), n), b, w), rows # {},
         NEW p, p = [at |-> C!NewestAt(rows), rx |-> C!GreatestOf(rows)]
  PROVE  /\ IsPoint(n, p) /\ p.at \div w = b
         /\ C!Known(rows) # {} => p.rx # Null
         /\ p.rx # Null => \E x \in C!Known(C!Of(samples, n)) :
              x.rx = p.rx /\ x.at <= p.at /\ x.at \div w = b
<1>1. rows \subseteq samples /\ rows \subseteq C!Of(samples, n)
  BY DEF C!InBucket, C!Of, C!Window
<1>2. /\ p.at \in 1 .. clock /\ (\A x \in rows : x.at <= p.at) /\ \E x \in rows : x.at = p.at
  BY <1>1, NewestIs
<1>3. PICK newest \in rows : newest.at = p.at
  BY <1>2
<1>4. p.at \div w = b /\ clock - span <= p.at /\ p.at <= clock
  BY <1>3 DEF C!InBucket, C!Of, C!Window
<1>5. ASSUME NEW y \in C!Known(C!Of(samples, n)), y.at = p.at PROVE y \in C!Known(rows)
  BY <1>4, <1>5 DEF C!InBucket, C!Of, C!Window, C!Known
<1>6. \A x \in C!Known(rows) : x \in rows /\ x \in C!Known(C!Of(samples, n)) /\ x.at \div w = b
  BY DEF C!InBucket, C!Of, C!Window, C!Known
<1>7. CASE p.rx = Null
  <2>1. C!Known(rows) = {}
    BY <1>1, <1>7, GreatestIs, NodesAreFinite
  <2> QED BY <1>2, <1>4, <1>7, <2>1 DEF IsPoint
<1>8. CASE p.rx # Null
  <2>1. /\ p.rx \in Nat
        /\ \A x \in C!Known(rows) : x.rx \in Nat /\ x.rx <= p.rx
        /\ \E x \in C!Known(rows) : x.rx = p.rx
    <3>1. C!Known(rows) # {}
      BY <1>8 DEF C!GreatestOf
    <3> QED BY <1>1, <3>1, GreatestIs
  <2>2. PICK x \in C!Known(rows) : x.rx = p.rx
    BY <2>1
  <2>3. x \in C!Known(C!Of(samples, n)) /\ x.at <= p.at /\ x.at \div w = b
    BY <1>2, <1>6
  <2>4. IsPoint(n, p)
    BY <1>2, <1>5, <2>1, <2>2, <2>3 DEF IsPoint
  <2> QED BY <1>4, <1>8, <2>2, <2>3, <2>4
<1> QED BY <1>7, <1>8

\* How wide the buckets are, and that there are not many more than can be drawn.
LEMMA WidthIs ==
  ASSUME NEW span \in Nat \ {0}
  PROVE  /\ C!BucketWidthFor(span) \in Nat
         /\ C!BucketWidthFor(span) > 0 => span <= MAX_SERIES_POINTS * C!BucketWidthFor(span)
         /\ C!Max({1, C!BucketWidthFor(span)}) \in Nat \ {0}
<1> DEFINE w == C!BucketWidthFor(span)
           M == MAX_SERIES_POINTS
           q == (span + M - 1) \div M
<1>1. M \in Nat \ {0}
  BY NodesAreFinite
<1>2. q \in Int /\ span + M - 1 < M * q + M /\ 1 <= q
  <2>1. span + M - 1 \in Int /\ 1 \in Int /\ 1 * M <= span + M - 1
    BY <1>1
  <2> QED BY <1>1, <2>1, Dividing, DividingAtMost
<1>3. w = IF span <= M THEN 0 ELSE q
  BY DEF C!BucketWidthFor, C!CeilDiv
<1> HIDE DEF M, q, w
<1>4. span <= M * q
  <2>1. M * q \in Int
    BY <1>1, <1>2
  <2> QED BY <1>1, <1>2, <2>1
<1>5. w \in Nat /\ (w > 0 => span <= M * w)
  BY <1>2, <1>3, <1>4
<1>6. C!Max({1, w}) \in Nat \ {0}
  <2>1. {1, w} \in SUBSET Int /\ {1, w} # {} /\ w + 1 \in Int /\ \A x \in {1, w} : x <= w + 1
    BY <1>5
  <2>2. C!Max({1, w}) \in {1, w} /\ \A x \in {1, w} : x <= C!Max({1, w})
    BY <2>1, Largest
  <2>3. 1 <= C!Max({1, w})
    BY <2>2
  <2> QED BY <1>5, <2>2, <2>3
<1> QED BY <1>5, <1>6 DEF M, w

\* A window has few buckets of that width: as many as can be drawn, and one.
LEMMA FewBuckets ==
  ASSUME SeriesInv, NEW span \in Nat \ {0}, NEW w \in Nat \ {0}, span <= MAX_SERIES_POINTS * w,
         NEW rows, rows \subseteq C!Window(samples, span),
         NEW set, set = {x.at \div w : x \in rows}
  PROVE  Cardinality(set) <= MAX_SERIES_POINTS + 1
<1> DEFINE M == MAX_SERIES_POINTS
           first == (clock - span) \div w
           last == clock \div w
<1>1. M \in Nat /\ clock \in Nat /\ clock - span \in Int
  BY NodesAreFinite DEF SeriesInv, SeriesTypes
<1>2. first \in Int /\ last \in Int /\ w * last <= clock
  <2>1. clock \div w \in Int /\ w * (clock \div w) <= clock
    <3>1. clock \in Int
      BY <1>1
    <3> QED BY <3>1, Dividing
  <2>2. (clock - span) \div w \in Int
    BY <1>1, Dividing
  <2> QED BY <2>1, <2>2
<1>3. last - M <= first
  <2>1. (last - M) * w = w * last - M * w /\ M * w \in Int /\ w * last \in Int /\ last - M \in Int
    BY <1>1, <1>2
  <2>2. (last - M) * w <= clock - span
    BY <1>1, <1>2, <2>1
  <2> HIDE DEF M, last
  <2> QED BY <1>1, <2>1, <2>2, DividingAtMost
<1>4. set \subseteq first .. last
  <2>1. ASSUME NEW x \in rows PROVE x.at \div w \in first .. last
    <3>1. x.at \in Int /\ clock - span <= x.at /\ x.at <= clock
      BY DEF C!Window, SeriesInv, SeriesTypes
    <3>2. (clock - span) \div w <= x.at \div w
      BY <1>1, <3>1, DividingMore
    <3>3. x.at \div w <= clock \div w
      <4>1. clock \in Int
        BY <1>1
      <4> QED BY <3>1, <4>1, DividingMore
    <3>4. x.at \div w \in Int
      BY <3>1, Dividing
    <3>5. first <= x.at \div w /\ x.at \div w <= last
      BY <3>2, <3>3
    <3> HIDE DEF first, last
    <3> QED BY <1>2, <3>4, <3>5
  <2> QED BY <2>1
<1> HIDE DEF first, last
<1>5. /\ IsFiniteSet(first .. last)
      /\ Cardinality(first .. last) = IF first > last THEN 0 ELSE last - first + 1
  BY <1>2, FS_Interval
<1>6. IsFiniteSet(set) /\ Cardinality(set) <= Cardinality(first .. last)
  BY <1>4, <1>5, FS_Subset
<1>7. Cardinality(set) \in Nat
  BY <1>6, FS_CardinalityType
<1> QED BY <1>1, <1>2, <1>3, <1>5, <1>6, <1>7

\* The points of a node.
LEMMA NodePoints ==
  ASSUME SeriesInv, NEW n \in Members, NEW span \in Nat \ {0}, NEW points, points = C!PointsOf(n, span)
  PROVE  \E N \in Nat :
           /\ points = [i \in 1 .. N |-> points[i]]
           /\ C!BucketWidthFor(span) > 0 => N <= MAX_SERIES_POINTS + 1
           /\ \A i \in 1 .. N : IsPoint(n, points[i])
           /\ \A i \in 2 .. N : points[i].rx # Null /\ points[i - 1].at < points[i].at =>
                SaidSince(n, points[i - 1], points[i])
<1> DEFINE rows == C!Of(C!Window(samples, span), n)
           w == C!BucketWidthFor(span)
<1>1. /\ rows \subseteq samples /\ rows \subseteq C!Of(samples, n) /\ rows \subseteq C!Window(samples, span)
      /\ IsFiniteSet(rows)
  <2>1. rows \subseteq samples /\ rows \subseteq C!Of(samples, n) /\ rows \subseteq C!Window(samples, span)
    BY DEF C!Of, C!Window
  <2> QED BY <2>1, FS_Subset DEF SeriesInv, SeriesTypes
<1>2. \A x \in rows : x.at \in 1 .. clock /\ x.at \in Nat /\ x.count \in Int /\ x.rx \in Nat \cup {Null}
  BY <1>1 DEF SeriesInv, SeriesTypes
<1>3. CASE w = 0
  <2>1. points = InTime(rows)
    BY <1>3 DEF C!PointsOf, InTime
  <2>2. \A x, y \in rows : x.count = y.count => x = y
    BY <1>1 DEF SeriesInv, Numbered
  <2>3. ASSUME NEW x \in rows PROVE IsPoint(n, x)
    <3>1. x.at \in 1 .. clock /\ x.rx \in Nat \cup {Null} /\ x \in C!Of(samples, n)
      BY <1>1, <1>2
    <3>2. ASSUME x.rx # Null
          PROVE  /\ \E y \in C!Known(C!Of(samples, n)) : y.rx = x.rx /\ y.at <= x.at
                 /\ \A y \in C!Known(C!Of(samples, n)) : y.at = x.at => y.rx <= x.rx
      <4>1. x \in C!Known(C!Of(samples, n))
        BY <3>1, <3>2 DEF C!Known
      <4>2. ASSUME NEW y \in C!Known(C!Of(samples, n)), y.at = x.at PROVE y.rx <= x.rx
        <5>1. /\ x \in Told(n) /\ y \in Told(n) /\ n \in Machines /\ x.rx \in Nat /\ y.rx \in Nat
              /\ x.at \in 1 .. clock /\ moved[n][x.at] \in Nat
              /\ Forgotten(n, x) = moved[n][x.at] - x.rx /\ Forgotten(n, y) = moved[n][y.at] - y.rx
          BY <4>1, SampleIs
        <5>2. Forgotten(n, x) <= Forgotten(n, y)
          <6>1. x.at <= y.at
            BY <4>2, <5>1
          <6> QED BY <5>1, <6>1 DEF SeriesInv, CountersForget
        <5> QED BY <4>2, <5>1, <5>2
      <4> QED BY <3>1, <4>1, <4>2
    <3> QED BY <3>1, <3>2 DEF IsPoint
  <2> DEFINE N == Cardinality(rows)
  <2>4. N \in Nat /\ points = [i \in 1 .. N |-> points[i]] /\ \A i \in 1 .. N : points[i] \in rows
    <3> HIDE DEF rows
    <3> QED BY <1>1, <1>2, <2>1, <2>2, RowsInOrder
  <2>5. ASSUME NEW i \in 2 .. N, points[i].rx # Null, points[i - 1].at < points[i].at
        PROVE  SaidSince(n, points[i - 1], points[i])
    <3>1. points[i] \in C!Known(C!Of(samples, n)) /\ points[i].at \in Nat
      <4>1. i \in 1 .. N
        BY <2>4
      <4> QED BY <1>1, <1>2, <2>4, <2>5, <4>1 DEF C!Known
    <3> QED BY <2>5, <3>1 DEF SaidSince
  <2>6. \A i \in 1 .. N : IsPoint(n, points[i])
    BY <2>3, <2>4
  <2>7. ~(C!BucketWidthFor(span) > 0)
    BY <1>3
  <2> HIDE DEF N, rows, w
  <2> QED BY <2>4, <2>5, <2>6, <2>7
<1>4. CASE w # 0
  <2>1. w \in Nat \ {0} /\ span <= MAX_SERIES_POINTS * w
    <3>1. w \in Nat /\ (w > 0 => span <= MAX_SERIES_POINTS * w)
      BY WidthIs
    <3> HIDE DEF w, rows
    <3> QED BY <1>4, <3>1
  <2> DEFINE buckets == C!Buckets(rows, w)
             set == {x.at \div w : x \in rows}
             N == Cardinality(set)
             At(i) == C!InBucket(rows, buckets[i], w)
  <2>2. /\ set \in SUBSET Nat /\ N \in Nat
        /\ buckets = [i \in 1 .. N |-> buckets[i]]
        /\ \A i \in 1 .. N : buckets[i] \in set /\ At(i) # {}
        /\ \A i, j \in 1 .. N : i < j => buckets[i] < buckets[j]
    BY <1>1, <1>2, <2>1, BucketsAre
  <2>3. points = [i \in 1 .. N |-> [at |-> C!NewestAt(At(i)), rx |-> C!GreatestOf(At(i))]]
    <3>1. points = [i \in DOMAIN buckets |-> [at |-> C!NewestAt(At(i)), rx |-> C!GreatestOf(At(i))]]
      BY <1>4 DEF C!PointsOf
    <3>2. DOMAIN buckets = 1 .. N
      <4> HIDE DEF buckets, N
      <4> QED BY <2>2
    <3> QED BY <3>1, <3>2
  <2>4. N <= MAX_SERIES_POINTS + 1
    BY <1>1, <2>1, FewBuckets
  <2>5. ASSUME NEW i \in 1 .. N
        PROVE  /\ IsPoint(n, points[i]) /\ points[i].at \div w = buckets[i]
               /\ points[i].rx # Null => \E x \in C!Known(C!Of(samples, n)) :
                    x.rx = points[i].rx /\ x.at <= points[i].at /\ x.at \div w = buckets[i]
    <3>1. points[i] = [at |-> C!NewestAt(At(i)), rx |-> C!GreatestOf(At(i))] /\ At(i) # {}
      BY <2>2, <2>3
    <3>2. At(i) = C!InBucket(C!Of(C!Window(samples, span), n), buckets[i], w)
      OBVIOUS
    <3>3. span \in Nat
      OBVIOUS
    <3> HIDE DEF At, buckets, w
    <3> QED BY <2>1, <3>1, <3>2, <3>3, BucketIsPoint
  <2> HIDE DEF At, buckets, set, N, w
  <2>6. ASSUME NEW i \in 2 .. N, points[i].rx # Null
        PROVE  SaidSince(n, points[i - 1], points[i])
    <3>1. i \in 1 .. N /\ i - 1 \in 1 .. N /\ i - 1 < i
      BY <2>2
    <3>2. PICK x \in C!Known(C!Of(samples, n)) :
            x.rx = points[i].rx /\ x.at <= points[i].at /\ x.at \div w = buckets[i]
      BY <2>5, <2>6, <3>1
    <3>3. points[i - 1].at \in Nat /\ x.at \in Nat
      BY <2>5, <3>1, SampleIs DEF IsPoint
    <3>4. points[i - 1].at \div w < x.at \div w
      BY <2>2, <2>5, <3>1, <3>2
    <3>5. points[i - 1].at < x.at
      BY <2>1, <3>3, <3>4, MoreIsLater
    <3> QED BY <3>2, <3>5 DEF SaidSince
  <2>7. points = [i \in 1 .. N |-> points[i]]
    BY <2>3
  <2> QED BY <2>2, <2>4, <2>5, <2>6, <2>7
<1> QED BY <1>3, <1>4

\* What a machine moved in its fastest interval.
LEMMA FastestIs ==
  ASSUME SeriesInv, NEW n \in Machines
  PROVE  C!Fastest(n) = Pace(moved[n], clock) /\ C!Fastest(n) \in Nat
<1>1. C!Fastest(n) = Pace(moved[n], clock)
  BY DEF C!Fastest, C!Moved, Pace
<1>2. /\ clock \in Nat /\ moved[n] \in [0 .. clock -> Nat]
      /\ \A s, t \in 0 .. clock : s <= t => moved[n][s] <= moved[n][t]
  BY DEF SeriesInv, SeriesTypes, Paced, Steady
<1> QED BY <1>1, <1>2, PaceIs

\* The rates of a node: none is negative, none says more than was moved.
LEMMA NodeRates ==
  ASSUME SeriesInv, NEW n \in Members, NEW span \in Nat \ {0}
  PROVE  /\ C!NodeRatesAreHonest(n, span)
         /\ C!BucketWidthFor(span) > 0 => Len(C!PointsOf(n, span)) <= MAX_SERIES_POINTS + 1
<1> DEFINE points == C!PointsOf(n, span)
           rates == C!RatesOf(points)
<1>1. PICK N \in Nat :
        /\ points = [i \in 1 .. N |-> points[i]]
        /\ C!BucketWidthFor(span) > 0 => N <= MAX_SERIES_POINTS + 1
        /\ \A i \in 1 .. N : IsPoint(n, points[i])
        /\ \A i \in 2 .. N : points[i].rx # Null /\ points[i - 1].at < points[i].at =>
             SaidSince(n, points[i - 1], points[i])
  BY NodePoints
<1>2. Len(points) = N /\ DOMAIN points = 1 .. N
  <2> HIDE DEF points
  <2>1. DOMAIN points = 1 .. N
    BY <1>1
  <2> QED BY <1>1, <2>1
<1>3. ASSUME NEW i \in 2 .. N, rates[i] # Null
      PROVE  /\ 0 <= rates[i]
             /\ C!Read(n, points[i - 1]) /\ C!Read(n, points[i]) =>
                  /\ rates[i] * (points[i].at - points[i - 1].at)
                       <= SCALE * C!Moved(n, points[i - 1].at, points[i].at)
                  /\ restarts[n] = {} =>
                       rates[i] * (points[i].at - points[i - 1].at)
                         = SCALE * C!Moved(n, points[i - 1].at, points[i].at)
  <2> DEFINE p == points[i - 1]
             q == points[i]
  <2>1. i \in 1 .. N /\ i - 1 \in 1 .. N /\ i # 1
    BY <1>1
  <2>2. p.rx # Null /\ q.rx # Null /\ rates[i] = C!CounterRate(p, q)
    <3> HIDE DEF points
    <3> QED BY <1>2, <1>3, <2>1 DEF C!RatesOf
  <2>3. IsPoint(n, p) /\ IsPoint(n, q)
    BY <1>1, <2>1
  <2>4. p.at < q.at => SaidSince(n, p, q)
    BY <1>1, <2>2
  <2>5. /\ p.at \in 1 .. clock /\ q.at \in 1 .. clock /\ p.rx \in Nat /\ q.rx \in Nat
        /\ clock \in Nat /\ clock <= MaxIntervals /\ SCALE \in Nat /\ n \in Machines
    BY <2>2, <2>3, NodesAreFinite DEF IsPoint, SeriesInv, SeriesTypes
  <2> HIDE DEF p, q
  <2>6. /\ C!CounterRate(p, q) \in Nat /\ p.at < q.at /\ p.rx <= q.rx
        /\ C!CounterRate(p, q) * (q.at - p.at) = SCALE * (q.rx - p.rx)
    BY <1>3, <2>2, <2>5, RateIs
  <2>7. ASSUME C!Read(n, p), C!Read(n, q)
        PROVE  /\ SCALE * (q.rx - p.rx) <= SCALE * C!Moved(n, p.at, q.at)
               /\ restarts[n] = {} => SCALE * (q.rx - p.rx) = SCALE * C!Moved(n, p.at, q.at)
    <3>1. /\ q.rx - p.rx <= C!Moved(n, p.at, q.at)
          /\ restarts[n] = {} => q.rx - p.rx = C!Moved(n, p.at, q.at)
      BY <2>2, <2>3, <2>4, <2>6, <2>7, GainedIsMoved
    <3>2. C!Moved(n, p.at, q.at) \in Nat
      <4>1. p.at \in 0 .. clock /\ q.at \in 0 .. clock /\ p.at <= q.at
        BY <2>5, <2>6
      <4> QED BY <2>5, <4>1, MovedIs
    <3>3. q.rx - p.rx \in Nat
      BY <2>5, <2>6
    <3> QED BY <2>5, <3>1, <3>2, <3>3, Times
  <2>8. /\ 0 <= rates[i]
        /\ C!Read(n, p) /\ C!Read(n, q) =>
             /\ rates[i] * (q.at - p.at) <= SCALE * C!Moved(n, p.at, q.at)
             /\ restarts[n] = {} => rates[i] * (q.at - p.at) = SCALE * C!Moved(n, p.at, q.at)
    BY <2>2, <2>6, <2>7
  <2> QED BY <2>8 DEF p, q
<1>4. C!NodeRatesAreHonest(n, span)
  BY <1>2, <1>3 DEF C!NodeRatesAreHonest
<1> QED BY <1>1, <1>2, <1>4

\* Samples of an agent's rate, averaged: no more than the fastest interval.
LEMMA HostAverage ==
  ASSUME SeriesInv, NEW n \in Machines, NEW rows, rows \subseteq C!Of(hardware, n), rows # {}
  PROVE  C!AverageOf(rows) \in Nat /\ C!AverageOf(rows) <= SCALE * C!Fastest(n)
<1> DEFINE f == [row \in rows |-> row.rx]
           k == SCALE * C!Fastest(n)
<1>1. /\ IsFiniteSet(rows)
      /\ \A row \in rows : row.rx \in Nat /\ row.rx # Null /\ row.rx <= k
  <2>1. rows \subseteq hardware
    BY DEF C!Of
  <2>2. IsFiniteSet(rows)
    BY <2>1, FS_Subset DEF SeriesInv, SeriesTypes
  <2>3. ASSUME NEW row \in rows PROVE row.rx \in Nat /\ row.rx # Null /\ row.rx <= k
    <3>1. row.rx \in Nat /\ row.rx # Null
      BY <2>1, NodesAreFinite DEF SeriesInv, SeriesTypes
    <3>2. row.node = n
      BY DEF C!Of
    <3>3. row.rx <= SCALE * Pace(moved[n], clock)
      BY <2>1, <3>2 DEF SeriesInv, Paced
    <3> QED BY <3>1, <3>3, FastestIs
  <2> QED BY <2>2, <2>3
<1>2. C!Known(rows) = rows
  BY <1>1 DEF C!Known
<1>3. k \in Nat
  <2>1. SCALE \in Nat /\ C!Fastest(n) \in Nat
    BY FastestIs, NodesAreFinite
  <2> QED BY <2>1, Times
<1>4. C!SumFunction(f) \in Nat /\ C!SumFunction(f) <= k * Cardinality(rows)
  <2> HIDE DEF k
  <2> QED BY <1>1, <1>3, SumOfMany
<1>5. Cardinality(rows) \in Nat \ {0}
  BY <1>1, FS_CardinalityType, FS_EmptySet
<1>6. C!AverageOf(rows) = C!SumFunction(f) \div Cardinality(rows)
  BY <1>2, RowCounting DEF C!AverageOf
<1>7. 0 * Cardinality(rows) <= C!SumFunction(f) /\ 0 \in Int
  BY <1>4, <1>5
<1> HIDE DEF f, k
<1>8. C!SumFunction(f) \in Int /\ k \in Int
  BY <1>3, <1>4
<1>9. C!SumFunction(f) \div Cardinality(rows) <= k
  BY <1>4, <1>5, <1>8, DividingAtMost
<1>10. 0 <= C!SumFunction(f) \div Cardinality(rows) /\ C!SumFunction(f) \div Cardinality(rows) \in Int
  BY <1>5, <1>7, <1>8, Dividing, DividingAtMost
<1> QED BY <1>6, <1>9, <1>10 DEF k

\* Lines add up to no more than the machines' fastest intervals do.
LEMMA SumOverIs ==
  ASSUME SeriesInv, NEW f, DOMAIN f = Machines,
         \A n \in Machines : f[n] # Null => f[n] \in Nat /\ f[n] <= SCALE * C!Fastest(n),
         C!SumOver(f) # Null
  PROVE  /\ 0 <= C!SumOver(f)
         /\ C!SumOver(f) <= SCALE * C!SumFunction([n \in Machines |-> C!Fastest(n)])
<1> DEFINE g == [n \in Machines |-> IF f[n] = Null THEN 0 ELSE f[n]]
           e == [n \in Machines |-> C!Fastest(n)]
<1>1. C!SumOver(f) = C!SumFunction(g)
  BY DEF C!SumOver
<1>2. ASSUME NEW n \in Machines PROVE g[n] \in Nat /\ e[n] \in Nat /\ g[n] <= SCALE * e[n]
  <2>1. C!Fastest(n) \in Nat /\ SCALE \in Nat
    BY FastestIs, NodesAreFinite
  <2>2. 0 <= SCALE * C!Fastest(n)
    BY <2>1, Times
  <2> QED BY <2>1, <2>2
<1>3. DOMAIN g = Machines /\ DOMAIN e = Machines /\ SCALE \in Nat /\ IsFiniteSet(Machines)
  BY NodesAreFinite
<1> HIDE DEF g, e
<1>4. C!SumFunction(g) \in Nat /\ C!SumFunction(g) <= SCALE * C!SumFunction(e)
  BY <1>2, <1>3, SumAtMost
<1> QED BY <1>1, <1>4 DEF e

\* The line of an agent.
LEMMA HostLine ==
  ASSUME SeriesInv, NEW n \in Machines, NEW span \in Nat \ {0},
         NEW point \in C!Range(C!HostPointsOf(n, span))
  PROVE  0 <= point.rx /\ point.rx <= SCALE * C!Fastest(n)
<1> DEFINE rows == C!Of(C!Window(hardware, span), n)
           w == C!Max({1, C!BucketWidthFor(span)})
           buckets == C!Buckets(rows, w)
           in(i) == C!InBucket(rows, buckets[i], w)
           set == {x.at \div w : x \in rows}
<1>1. w \in Nat \ {0}
  BY WidthIs
<1>2. rows \subseteq hardware /\ rows \subseteq C!Of(hardware, n)
  BY DEF C!Of, C!Window
<1>3. IsFiniteSet(rows) /\ \A x \in rows : x.at \in Nat
  BY <1>2, FS_Subset DEF SeriesInv, SeriesTypes
<1>4. DOMAIN buckets = 1 .. Cardinality(set) /\ \A i \in 1 .. Cardinality(set) : in(i) # {}
  <2> HIDE DEF w, rows
  <2>1. /\ buckets = [i \in 1 .. Cardinality(set) |-> buckets[i]]
        /\ \A i \in 1 .. Cardinality(set) : C!InBucket(rows, buckets[i], w) # {}
    BY <1>1, <1>3, BucketsAre
  <2> HIDE DEF buckets, set
  <2> QED BY <2>1
<1>5. PICK i \in DOMAIN buckets : point = [at |-> C!NewestAt(in(i)), rx |-> C!AverageOf(in(i))]
  BY DEF C!HostPointsOf, C!Range
<1>6. in(i) # {} /\ in(i) \subseteq C!Of(hardware, n)
  <2>1. in(i) \subseteq rows
    BY DEF C!InBucket
  <2> QED BY <1>2, <1>4, <1>5, <2>1
<1>7. point.rx = C!AverageOf(in(i))
  BY <1>5
<1> HIDE DEF in
<1>8. C!AverageOf(in(i)) \in Nat /\ C!AverageOf(in(i)) <= SCALE * C!Fastest(n)
  BY <1>6, HostAverage
<1> QED BY <1>7, <1>8

\* The line of the cluster, where there are agents.
LEMMA AgentLine ==
  ASSUME SeriesInv, NEW span \in Nat \ {0}, NEW point \in C!Range(C!AgentTraffic(span)),
         point.rx # Null
  PROVE  /\ 0 <= point.rx
         /\ point.rx <= SCALE * C!SumFunction([n \in Machines |-> C!Fastest(n)])
<1> DEFINE rows == C!Window(hardware, span)
           w == C!Max({1, C!BucketWidthFor(span)})
           buckets == C!Buckets(rows, w)
           in(i) == C!InBucket(rows, buckets[i], w)
<1>1. PICK i \in DOMAIN buckets : point = [at |-> C!NewestAt(in(i)), rx |-> C!SumOver(C!PerNode(in(i)))]
  BY DEF C!AgentTraffic, C!Range
<1>2. in(i) \subseteq hardware
  BY DEF C!InBucket, C!Window
<1>3. point.rx = C!SumOver(C!PerNode(in(i)))
  BY <1>1
<1> HIDE DEF in
<1>4. ASSUME NEW n \in Machines, C!PerNode(in(i))[n] # Null
      PROVE  C!PerNode(in(i))[n] \in Nat /\ C!PerNode(in(i))[n] <= SCALE * C!Fastest(n)
  <2>1. C!PerNode(in(i))[n] = C!AverageOf(C!Of(in(i), n))
    BY DEF C!PerNode
  <2>2. C!Of(in(i), n) \subseteq C!Of(hardware, n)
    BY <1>2 DEF C!Of
  <2>3. C!Of(in(i), n) # {}
    BY <1>4, <2>1 DEF C!AverageOf, C!Known
  <2> QED BY <2>1, <2>2, <2>3, HostAverage
<1>5. DOMAIN C!PerNode(in(i)) = Machines
  BY DEF C!PerNode
<1> QED BY <1>3, <1>4, <1>5, SumOverIs

-----------------------------------------------------------------------------
(* The line of the cluster, from the kubelet's counters.                   *)

\* What is kept of a node in a bucket, and what is drawn of it (KubeletTraffic).
Bucket(n, b, span, w) == C!InBucket(C!Of(C!Window(samples, span), n), b, w)
RowOf(n, b, span, w) == [at |-> C!NewestAt(Bucket(n, b, span, w)), rx |-> C!GreatestOf(Bucket(n, b, span, w))]
Earlier(n, b, span, w) == {a \in 0 .. b - 1 : C!Known(Bucket(n, a, span, w)) # {}}
RateIn(n, b, span, w) ==
  IF ~(C!Known(Bucket(n, b, span, w)) # {}) \/ Earlier(n, b, span, w) = {} THEN Null
  ELSE C!CounterRate(RowOf(n, C!Max(Earlier(n, b, span, w)), span, w), RowOf(n, b, span, w))

\* What a node has in a bucket is a point of it.
LEMMA RowIsPoint ==
  ASSUME SeriesInv, C!Known(samples) = samples, NEW n \in Members, NEW span \in Nat \ {0},
         NEW w \in Nat \ {0}, NEW b, C!Known(Bucket(n, b, span, w)) # {},
         NEW p, p = RowOf(n, b, span, w)
  PROVE  /\ IsPoint(n, p) /\ p.at \div w = b /\ p.rx # Null /\ C!Read(n, p)
         /\ \E x \in C!Known(C!Of(samples, n)) : x.rx = p.rx /\ x.at <= p.at /\ x.at \div w = b
<1> DEFINE rows == Bucket(n, b, span, w)
<1>1. rows # {} /\ rows \subseteq samples /\ rows \subseteq C!Of(samples, n)
  BY DEF Bucket, C!Known, C!InBucket, C!Of, C!Window
<1>2. rows = C!InBucket(C!Of(C!Window(samples, span), n), b, w)
  BY DEF Bucket
<1>3. p = [at |-> C!NewestAt(rows), rx |-> C!GreatestOf(rows)] /\ span \in Nat /\ C!Known(rows) # {}
  BY DEF RowOf
<1> HIDE DEF rows
<1>4. /\ IsPoint(n, p) /\ p.at \div w = b /\ p.rx # Null
      /\ \E x \in C!Known(C!Of(samples, n)) : x.rx = p.rx /\ x.at <= p.at /\ x.at \div w = b
  BY <1>1, <1>2, <1>3, BucketIsPoint
<1>5. \E x \in rows : x.at = C!NewestAt(rows)
  BY <1>1, NewestIs
<1>6. C!Read(n, p)
  <2>1. PICK x \in rows : x.at = p.at
    BY <1>3, <1>5
  <2>2. x \in C!Of(samples, n) /\ x.rx # Null
    BY <1>1 DEF C!Known
  <2> QED BY <2>1, <2>2 DEF C!Read, C!Known
<1> QED BY <1>4, <1>6

\* No more than the fastest interval of the node.
LEMMA RateInIs ==
  ASSUME SeriesInv, C!Known(samples) = samples, NEW n \in Machines, NEW span \in Nat \ {0},
         NEW w \in Nat \ {0}, NEW b \in Nat, RateIn(n, b, span, w) # Null
  PROVE  RateIn(n, b, span, w) \in Nat /\ RateIn(n, b, span, w) <= SCALE * C!Fastest(n)
<1> DEFINE a == C!Max(Earlier(n, b, span, w))
           p == RowOf(n, a, span, w)
           q == RowOf(n, b, span, w)
           rate == C!CounterRate(p, q)
           most == C!Fastest(n)
<1>1. C!Known(Bucket(n, b, span, w)) # {} /\ RateIn(n, b, span, w) = rate
  BY DEF RateIn
<1>2. a \in 0 .. b - 1 /\ C!Known(Bucket(n, a, span, w)) # {}
  <2>1. Earlier(n, b, span, w) # {} /\ Earlier(n, b, span, w) \subseteq 0 .. b - 1
    BY DEF RateIn, Earlier
  <2>2. Earlier(n, b, span, w) \in SUBSET Int /\ b - 1 \in Int /\ \A x \in Earlier(n, b, span, w) : x <= b - 1
    BY <2>1
  <2>3. a \in Earlier(n, b, span, w)
    BY <2>1, <2>2, Largest
  <2> HIDE DEF a
  <2> QED BY <2>3 DEF Earlier
<1>3. n \in Members
  <2>1. PICK x \in C!Known(Bucket(n, b, span, w)) : TRUE
    BY <1>1
  <2>2. x \in samples /\ x.node = n
    BY DEF Bucket, C!Known, C!InBucket, C!Of, C!Window
  <2> QED BY <2>2 DEF SeriesInv, SeriesTypes
<1> HIDE DEF a
<1>4. IsPoint(n, p) /\ p.at \div w = a /\ p.rx # Null /\ C!Read(n, p)
  BY <1>2, <1>3, RowIsPoint
<1>5. /\ IsPoint(n, q) /\ q.at \div w = b /\ q.rx # Null
      /\ \E x \in C!Known(C!Of(samples, n)) : x.rx = q.rx /\ x.at <= q.at /\ x.at \div w = b
  BY <1>1, <1>3, RowIsPoint
<1> HIDE DEF p, q
<1>6. /\ p.at \in 1 .. clock /\ q.at \in 1 .. clock /\ p.rx \in Nat /\ q.rx \in Nat
      /\ clock \in Nat /\ clock <= MaxIntervals /\ SCALE \in Nat
  BY <1>4, <1>5, NodesAreFinite DEF IsPoint, SeriesInv, SeriesTypes
<1>7. /\ rate \in Nat /\ p.at < q.at /\ p.rx <= q.rx
      /\ rate = (SCALE * (q.rx - p.rx)) \div (q.at - p.at)
  BY <1>1, <1>6, RateIs
<1>8. SaidSince(n, p, q)
  <2>1. PICK x \in C!Known(C!Of(samples, n)) : x.rx = q.rx /\ x.at <= q.at /\ x.at \div w = b
    BY <1>5
  <2>2. x.at \in Nat /\ p.at \in Nat /\ p.at \div w < x.at \div w
    BY <1>2, <1>3, <1>4, <1>6, <2>1, SampleIs
  <2>3. p.at < x.at
    BY <2>2, MoreIsLater
  <2> QED BY <2>1, <2>3 DEF SaidSince
<1>9. q.rx - p.rx <= C!Moved(n, p.at, q.at)
  BY <1>3, <1>4, <1>5, <1>7, <1>8, GainedIsMoved
<1>10. C!Moved(n, p.at, q.at) <= (q.at - p.at) * most /\ most \in Nat
  <2>1. p.at \in 0 .. clock /\ q.at \in 0 .. clock /\ p.at <= q.at
    BY <1>6, <1>7
  <2>2. C!Moved(n, p.at, q.at) = moved[n][q.at] - moved[n][p.at]
    BY <2>1, MovedIs
  <2>3. moved[n][q.at] - moved[n][p.at] <= (q.at - p.at) * Pace(moved[n], clock)
    BY <2>1 DEF SeriesInv, Paced, Steady
  <2> QED BY <2>2, <2>3, FastestIs
<1> HIDE DEF most, rate
<1>11. SCALE * (q.rx - p.rx) <= SCALE * ((q.at - p.at) * most)
  <2>1. q.rx - p.rx \in Nat /\ q.at - p.at \in Nat /\ C!Moved(n, p.at, q.at) \in Int
    <3>1. C!Moved(n, p.at, q.at) \in Int
      <4>1. p.at \in 0 .. clock /\ q.at \in 0 .. clock /\ p.at <= q.at
        BY <1>6, <1>7
      <4> QED BY <4>1, MovedIs
    <3> QED BY <1>6, <1>7, <3>1
  <2>2. (q.at - p.at) * most \in Nat
    BY <1>10, <2>1, Times
  <2>3. q.rx - p.rx <= (q.at - p.at) * most
    BY <1>9, <1>10, <2>1, <2>2
  <2> QED BY <1>6, <2>1, <2>2, <2>3, Times
<1>12. SCALE * (q.rx - p.rx) <= (SCALE * most) * (q.at - p.at)
  <2>1. SCALE * ((q.at - p.at) * most) = (SCALE * most) * (q.at - p.at)
    BY <1>6, <1>10
  <2> QED BY <1>11, <2>1
<1>13. SCALE * (q.rx - p.rx) \in Int /\ q.at - p.at \in Nat \ {0} /\ SCALE * most \in Int
  BY <1>6, <1>7, <1>10
<1>14. rate <= SCALE * most
  BY <1>7, <1>12, <1>13, DividingAtMost
<1> QED BY <1>1, <1>7, <1>14 DEF most

\* No point of the line is more than the machines moved, each at its fastest.
LEMMA KubeletLine ==
  ASSUME SeriesInv, C!Known(samples) = samples, NEW span \in Nat \ {0},
         NEW point \in C!Range(C!KubeletTraffic(span)), point.rx # Null
  PROVE  /\ 0 <= point.rx
         /\ point.rx <= SCALE * C!SumFunction([n \in Machines |-> C!Fastest(n)])
<1> DEFINE rows == C!Window(samples, span)
           w == C!Max({1, C!BucketWidthFor(span)})
           buckets == C!Buckets(rows, w)
           rates(i) == [n \in Machines |-> RateIn(n, buckets[i], span, w)]
           set == {x.at \div w : x \in rows}
<1>1. w \in Nat \ {0}
  BY WidthIs
<1>2. IsFiniteSet(rows) /\ \A x \in rows : x.at \in Nat
  <2>1. rows \subseteq samples
    BY DEF C!Window
  <2> QED BY <2>1, FS_Subset DEF SeriesInv, SeriesTypes
<1>3. \A i \in DOMAIN buckets : buckets[i] \in Nat
  <2> HIDE DEF w, rows
  <2>1. /\ set \in SUBSET Nat /\ buckets = [i \in 1 .. Cardinality(set) |-> buckets[i]]
        /\ \A i \in 1 .. Cardinality(set) : buckets[i] \in set
    BY <1>1, <1>2, BucketsAre
  <2> HIDE DEF buckets, set
  <2>2. DOMAIN buckets = 1 .. Cardinality(set)
    BY <2>1
  <2> QED BY <2>1, <2>2
<1>4. PICK i \in DOMAIN buckets : point.rx = C!SumOver(rates(i))
  <2> DEFINE line == [i \in DOMAIN buckets |->
                       [at |-> C!NewestAt(C!InBucket(rows, buckets[i], w)), rx |-> C!SumOver(rates(i))]]
  <2>1. C!KubeletTraffic(span) = line
    BY Zenon DEF C!KubeletTraffic, RateIn, Earlier, RowOf, Bucket
  <2>2. C!Range(line) = {line[i] : i \in DOMAIN buckets}
    BY DEF C!Range
  <2>3. PICK i \in DOMAIN buckets : point = line[i]
    <3> HIDE DEF line, buckets
    <3>1. point \in {line[i] : i \in DOMAIN buckets}
      BY <2>1, <2>2
    <3> QED BY <3>1
  <2>4. line[i].rx = C!SumOver(rates(i))
    <3> HIDE DEF rates, buckets
    <3> QED OBVIOUS
  <2> HIDE DEF line, rates, buckets
  <2> QED BY <2>3, <2>4
<1>5. ASSUME NEW n \in Machines, rates(i)[n] # Null
      PROVE  rates(i)[n] \in Nat /\ rates(i)[n] <= SCALE * C!Fastest(n)
  <2>1. rates(i)[n] = RateIn(n, buckets[i], span, w) /\ buckets[i] \in Nat
    BY <1>3, <1>4
  <2> HIDE DEF rates, buckets, w
  <2> QED BY <1>1, <1>5, <2>1, RateInIs
<1>6. DOMAIN rates(i) = Machines
  OBVIOUS
<1> HIDE DEF rates
<1> QED BY <1>4, <1>5, <1>6, SumOverIs

\* The lines that are drawn show no more than was moved.
LEMMA SeriesHolds == SeriesInv => C!RatesAreHonest
<1> SUFFICES ASSUME SeriesInv, NEW span \in Spans
             PROVE  /\ \A n \in Members : C!NodeRatesAreHonest(n, span)
                    /\ \A n \in agents : \A point \in C!Range(C!HostPointsOf(n, span)) :
                         0 <= point.rx /\ point.rx <= SCALE * C!Fastest(n)
                    /\ C!Known(samples) = samples =>
                         \A point \in C!Range(C!ClusterTraffic(span)) : point.rx # Null =>
                           /\ 0 <= point.rx
                           /\ point.rx <= SCALE * C!SumFunction([n \in Machines |-> C!Fastest(n)])
                    /\ C!BucketWidthFor(span) > 0 =>
                         \A n \in Members : Len(C!PointsOf(n, span)) <= MAX_SERIES_POINTS + 1
  BY DEF C!RatesAreHonest
<1>1. span \in Nat \ {0} /\ agents \subseteq Machines
  BY NodesAreFinite DEF SeriesInv, SeriesTypes
<1>2. C!ClusterTraffic(span) = C!AgentTraffic(span) \/ C!ClusterTraffic(span) = C!KubeletTraffic(span)
  BY DEF C!ClusterTraffic
<1>3. ASSUME C!Known(samples) = samples, NEW point \in C!Range(C!ClusterTraffic(span)), point.rx # Null
      PROVE  /\ 0 <= point.rx
             /\ point.rx <= SCALE * C!SumFunction([n \in Machines |-> C!Fastest(n)])
  <2>1. point \in C!Range(C!AgentTraffic(span)) \/ point \in C!Range(C!KubeletTraffic(span))
    BY <1>2, <1>3
  <2>2. CASE point \in C!Range(C!AgentTraffic(span))
    BY <1>1, <1>3, <2>2, AgentLine
  <2>3. CASE point \in C!Range(C!KubeletTraffic(span))
    BY <1>1, <1>3, <2>3, KubeletLine
  <2> QED BY <2>1, <2>2, <2>3
<1>4. \A n \in agents : \A point \in C!Range(C!HostPointsOf(n, span)) :
        0 <= point.rx /\ point.rx <= SCALE * C!Fastest(n)
  BY <1>1, HostLine
<1>5. \A n \in Members : /\ C!NodeRatesAreHonest(n, span)
                         /\ C!BucketWidthFor(span) > 0 =>
                              Len(C!PointsOf(n, span)) <= MAX_SERIES_POINTS + 1
  BY <1>1, NodeRates
<1> QED BY <1>3, <1>4, <1>5

-----------------------------------------------------------------------------
(* The parts together.                                                     *)

\* Whichever part is at work keeps its invariant; a part that is not has none to keep.
ReportsInv ==
  /\ part = "logs" => LogsInv
  /\ part = "sweeps" => SweepsInv
  /\ part = "series" => SeriesInv
  /\ part = "file" => FileInv

LEMMA ReportsStep ==
  ASSUME ReportsInv,
         [ReportsNext]_<<part, vars, ofLogs, ofSweeps, ofSeries, ofFile, shared>>
  PROVE  ReportsInv'
<1>1. CASE part = "hosts" /\ part' = part
  BY <1>1 DEF ReportsInv
<1>2. CASE part = "logs" /\ L!Next /\ part' = part
  BY <1>2, LogsStep DEF ReportsInv
<1>3. CASE part = "sweeps" /\ S!Next /\ part' = part
  BY <1>3, SweepsStep DEF ReportsInv
<1>4. CASE part = "series" /\ C!Next /\ part' = part
  BY <1>4, SeriesStep DEF ReportsInv
<1>5. CASE part = "file" /\ X!Next /\ part' = part
  BY <1>5, FileStep DEF ReportsInv
<1>6. CASE UNCHANGED <<part, vars, ofLogs, ofSweeps, ofSeries, ofFile, shared>>
  <2>1. part' = part
    BY <1>6
  <2>2. part = "logs" => LogsInv'
    <3>1. UNCHANGED L!vars
      BY <1>6 DEF ofLogs, shared, L!vars, L!agent, L!reports, L!reading, L!host
    <3> QED BY <3>1, LogsStutter DEF ReportsInv
  <2>3. part = "sweeps" => SweepsInv'
    <3>1. UNCHANGED <<clock, rotated, ofSweeps>>
      BY <1>6 DEF shared
    <3> QED BY <3>1, SweepsStutter DEF ReportsInv
  <2>4. part = "file" => FileInv'
    <3>1. UNCHANGED <<offset, ofFile, faults>>
      BY <1>6 DEF shared
    <3> QED BY <3>1, FileStutter DEF ReportsInv
  <2>5. part = "series" => SeriesInv'
    <3>1. UNCHANGED <<agents, moved, restarts, counter, reading, samples, hardware, clock>>
      BY <1>6 DEF ofSeries, shared
    <3> QED BY <3>1, SeriesStutter DEF ReportsInv
  <2> QED BY <2>1, <2>2, <2>3, <2>4, <2>5 DEF ReportsInv
<1> QED BY <1>1, <1>2, <1>3, <1>4, <1>5, <1>6 DEF ReportsNext

LEMMA ReportsStart == ReportsInit => ReportsInv
  BY LogsStart, SweepsStart, SeriesStart, FileStart DEF ReportsInit, ReportsInv

\* Logs and events are read at least once and at most once but for the known reasons.  A file
\* of a facet that looks whole to its reader has every row that stayed, unless it holds as many
\* rows as it may or is a CSV whose query failed, and what it lacks then is the end
\* (agent/src/session-collector.ts, the polls of the server's integrations,
\* query.controller.ts).
THEOREM NewsIsReadOnceAndWhole == Reports => []ReadOnceAndWhole
<1>1. ReportsInv => ReadOnceAndWhole
  BY SweepsHold, FileHolds DEF ReportsInv, ReadOnceAndWhole, LogsInv
<1> QED BY ReportsStart, ReportsStep, <1>1, PTL DEF Reports

\* No line of a chart shows more than was moved: not that of a node, whose counter may start
\* over, go unread or be kept twice; not that of an agent; not that of the cluster, whichever
\* of the two it is drawn from (node-samples.repo.ts, cluster-series.ts, query.controller.ts).
THEOREM RatesNeverLie == Reports => []RatesAreHonest
<1>1. ReportsInv => RatesAreHonest
  BY SeriesHolds DEF ReportsInv, RatesAreHonest
<1> QED BY ReportsStart, ReportsStep, <1>1, PTL DEF Reports

=============================================================================
