------------------------------- MODULE Agent --------------------------------
(***************************************************************************)
(* The agent of one machine: the loop of agent/src/main.ts, its senders    *)
(* (sender.ts) and the witness (witness.ts), against a server that comes   *)
(* and goes.                                                               *)
(*                                                                         *)
(* The loop is one thread of awaits: pc is the await it stands at.  A row  *)
(* is Plain or one of a few marked ones that are followed to their end.    *)
(* INTERVAL_MS is one unit of time; a request may take longer, since fetch *)
(* has no timeout here.  A time that has not been set, or was long ago, is *)
(* an age at its cap: the code treats them alike.                          *)
(***************************************************************************)
EXTENDS Naturals, Sequences, SequencesExt, FiniteSets

CONSTANTS
  Marks,         \* marked rows, numbered in the order they are read
  StreamOf,      \* mark -> the sender it goes through
  Weight,        \* row -> its bytes of JSON
  MAX_BUFFERED,  \* rows a sender keeps
  MAX_BATCH,     \* MAX_BATCH_BYTES
  AFTER,         \* WITNESS_AFTER_MS
  REPEAT,        \* WITNESS_REPEAT_MS
  LOOK,          \* SESSION_INTERVAL_MS
  MaxFaults      \* bound: what goes wrong, and outages

Plain == 0
Rows == Marks \cup {Plain}
Events == <<"access", "commands">>
Streams == Range(Events) \cup {"host"}

ASSUME AgentAssumption ==
  /\ Marks \subseteq Nat \ {Plain}
  /\ StreamOf \in [Marks -> Streams]
  /\ Weight \in [Rows -> Nat \ {0}]
  /\ MAX_BUFFERED \in Nat \ {0} /\ MAX_BATCH \in Nat
  /\ AFTER \in Nat \ {0} /\ REPEAT \in Nat \ {0} /\ LOOK \in Nat \ {0}
  /\ MaxFaults \in Nat

VARIABLES
  pc,            \* the await: collect, token, post, shout, look, snapshot, delay, or ended
  at,            \* the sender that is flushing
  batch,         \* how many of its oldest rows travel
  buffer,        \* sender -> #buffer
  found,         \* event stream -> rows read and not yet handed to its sender
  running,       \* no signal yet
  sinceContact,  \* age of #lastContactAt, or of #started before the first
  sinceShout,    \* age of #lastShoutedAt
  sinceLook,     \* age of lastSessionsAt
  up,            \* the server answers
  downFor,       \* history: how long it has not
  excused,       \* history: since the last contact, not just an outage
  born,          \* history: marks that were read
  stored,        \* history: mark -> how often the server stored it
  doubted,       \* history: marks stored by a request that did not end well
  lost,          \* history: marks refused by the server, crowded out, or gone
                 \* with the process
  faults         \* history: number of faults

loop == <<pc, at, batch, found, running>>
ages == <<sinceContact, sinceShout, sinceLook>>
world == <<up, downFor>>
ghosts == <<born, stored, doubted, lost>>
vars == <<loop, buffer, ages, world, excused, ghosts, faults>>

-----------------------------------------------------------------------------
MarksIn(rows) == Range(rows) \ {Plain}
Bytes(rows) == FoldLeft(LAMBDA sum, row : sum + Weight[row], 0, rows)
Older(age, cap) == IF age < cap THEN age + 1 ELSE cap

\* A request of the n oldest rows is small enough, or cannot be smaller.
Fits(rows, n) == n = 1 \/ Bytes(SubSeq(rows, 1, n)) <= MAX_BATCH

\* batchWithin(): as many of the oldest rows as fit, and never fewer than one.
BatchWithin(rows) ==
  CHOOSE n \in 1 .. Len(rows) : Fits(rows, n) /\ (n < Len(rows) => ~Fits(rows, n + 1))

\* What enqueue() leaves of a buffer: the oldest rows make way.
Kept(rows) ==
  SubSeq(rows, IF Len(rows) > MAX_BUFFERED THEN Len(rows) - MAX_BUFFERED + 1 ELSE 1, Len(rows))

\* enqueue() of rows at sender s, its buffer being one of b, then flush() up to
\* its first await.  `gone` is what is lost already.
Flush(b, gone, s, rows) ==
  LET all == b[s] \o rows IN
  /\ buffer' = [b EXCEPT ![s] = Kept(all)]
  /\ at' = s
  /\ batch' = BatchWithin(Kept(all))
  /\ pc' = "token"
  /\ lost' = gone \cup (MarksIn(all) \ MarksIn(Kept(all)))

\* A row as it is read: Plain, or the next mark of its stream.
Fresh(s) ==
  LET waiting == {m \in Marks \ born : StreamOf[m] = s} IN
  {Plain} \cup {m \in waiting : \A n \in waiting : m <= n}

-----------------------------------------------------------------------------
(* The loop.                                                               *)

Collect ==
  /\ pc = "collect"
  /\ \E row \in Fresh("host") :
       /\ Flush(buffer, lost, "host", <<row>>)
       /\ born' = born \cup MarksIn(<<row>>)
  /\ UNCHANGED <<found, running, ages, world, excused, stored, doubted, faults>>

\* "A bad cycle must not end the process."
CollectThrows ==
  /\ pc = "collect"
  /\ faults < MaxFaults
  /\ faults' = faults + 1
  /\ pc' = "delay"
  /\ excused' = TRUE
  /\ UNCHANGED <<at, batch, found, running, buffer, ages, world, ghosts>>

\* Mutant: the patience before a shout is one interval.
Unreachable_Hasty(contact, shout) == contact >= 1 /\ shout >= REPEAT

\* Whether check() has something to say.
Unreachable(contact, shout) == contact >= AFTER /\ shout >= REPEAT

\* reportSessions() up to its first await.
StartSessions ==
  IF sinceLook < LOOK THEN pc' = "delay" /\ UNCHANGED sinceLook
                      ELSE pc' = "look" /\ sinceLook' = 0

\* Mutant: the time of the last shout is touched by every check.
Witnessed_Touched(reached, odd) ==
  /\ excused' = (~reached /\ (excused \/ odd))
  /\ sinceContact' = IF reached THEN 0 ELSE sinceContact
  /\ sinceShout' = IF reached THEN REPEAT ELSE 0
  /\ IF ~reached /\ Unreachable(sinceContact, sinceShout)
     THEN pc' = "shout" /\ UNCHANGED sinceLook
     ELSE StartSessions

\* witness.record() and check() up to the post.  `odd`: no answer, although the
\* server is up.
Witnessed(reached, odd) ==
  /\ excused' = (~reached /\ (excused \/ odd))
  /\ sinceContact' = IF reached THEN 0 ELSE sinceContact
  /\ IF ~reached /\ Unreachable(sinceContact, sinceShout)
     THEN pc' = "shout" /\ sinceShout' = 0 /\ UNCHANGED sinceLook
     ELSE StartSessions /\ sinceShout' = IF reached THEN REPEAT ELSE sinceShout

\* The next event stream with rows is flushed; after the last one the snapshot
\* of sessions is posted.
Onward(b, gone, news) ==
  \/ /\ \A i \in DOMAIN Events : news[Events[i]] = <<>>
     /\ pc' = "snapshot" /\ buffer' = b /\ lost' = gone /\ found' = news
     /\ UNCHANGED <<at, batch>>
  \/ \E i \in DOMAIN Events :
       /\ news[Events[i]] # <<>>
       /\ \A j \in 1 .. i - 1 : news[Events[j]] = <<>>
       /\ Flush(b, gone, Events[i], news[Events[i]])
       /\ found' = [news EXCEPT ![Events[i]] = <<>>]

\* The end of flush(), which leaves the buffers b.
FlushEnds(b, gone, reached, odd) ==
  IF at = "host"
  THEN /\ Witnessed(reached, odd)
       /\ buffer' = b /\ lost' = gone
       /\ UNCHANGED <<at, batch, found>>
  ELSE /\ Onward(b, gone, found)
       /\ UNCHANGED <<ages, excused>>

TokenRead ==
  /\ pc = "token"
  /\ pc' = "post"
  /\ UNCHANGED <<at, batch, found, running, buffer, ages, world, excused, ghosts, faults>>

\* "No credential is a condition that resolves itself once the token is mounted."
TokenMissing ==
  /\ pc = "token"
  /\ faults < MaxFaults
  /\ faults' = faults + 1
  /\ FlushEnds(buffer, lost, FALSE, TRUE)
  /\ UNCHANGED <<running, world, born, stored, doubted>>

Travelling == SubSeq(buffer[at], 1, batch)

StoredOnce ==
  [m \in Marks |-> IF m \in MarksIn(Travelling) THEN stored[m] + 1 ELSE stored[m]]

\* Mutant: the whole buffer goes, sent or not.
Advanced_All == [buffer EXCEPT ![at] = <<>>]

\* Mutant: the buffer moves past one row only.
Advanced_One == [buffer EXCEPT ![at] = Tail(@)]

\* The buffers after splice(0, rows.length).
Advanced == [buffer EXCEPT ![at] = SubSeq(@, batch + 1, Len(@))]

\* 2xx.
Taken ==
  /\ pc = "post" /\ up
  /\ stored' = StoredOnce
  /\ FlushEnds(Advanced, lost, TRUE, FALSE)
  /\ UNCHANGED <<running, world, born, doubted, faults>>

\* 4xx but 429: "advance on 4xx".
Refused ==
  /\ pc = "post" /\ up
  /\ FlushEnds(Advanced, lost \cup MarksIn(Travelling), TRUE, FALSE)
  /\ UNCHANGED <<running, world, born, stored, doubted, faults>>

\* 429 or 5xx; a write that fails half way may have stored the rows.
Busy ==
  /\ pc = "post" /\ up
  /\ faults < MaxFaults
  /\ faults' = faults + 1
  /\ \/ UNCHANGED <<stored, doubted>>
     \/ stored' = StoredOnce /\ doubted' = doubted \cup MarksIn(Travelling)
  /\ FlushEnds(buffer, lost, TRUE, FALSE)
  /\ UNCHANGED <<running, world, born>>

\* The connection breaks, before or after the server has stored the rows.
Broken ==
  /\ pc = "post" /\ up
  /\ faults < MaxFaults
  /\ faults' = faults + 1
  /\ \/ UNCHANGED <<stored, doubted>>
     \/ stored' = StoredOnce /\ doubted' = doubted \cup MarksIn(Travelling)
  /\ FlushEnds(buffer, lost, FALSE, TRUE)
  /\ UNCHANGED <<running, world, born>>

NoAnswer ==
  /\ pc = "post" /\ ~up
  /\ FlushEnds(buffer, lost, FALSE, FALSE)
  /\ UNCHANGED <<running, world, born, stored, doubted, faults>>

\* The witness address has answered or not: the agent does not mind.
ShoutEnds ==
  /\ pc = "shout"
  /\ StartSessions
  /\ UNCHANGED <<at, batch, found, running, buffer, sinceContact, sinceShout, world,
                 excused, ghosts, faults>>

\* sessions.collect() has read at most one row of each event stream.
Look ==
  /\ pc = "look"
  /\ \E news \in [Range(Events) -> {<<>>} \cup {<<row>> : row \in Rows}] :
       /\ \A s \in Range(Events) : Range(news[s]) \subseteq Fresh(s)
       /\ Onward(buffer, lost, news)
       /\ born' = born \cup UNION {MarksIn(news[s]) : s \in Range(Events)}
  /\ UNCHANGED <<running, ages, world, excused, stored, doubted, faults>>

\* postSessions(), whatever comes of it.
Snapshot ==
  /\ pc = "snapshot"
  /\ pc' = "delay"
  /\ UNCHANGED <<at, batch, found, running, buffer, ages, world, excused, ghosts, faults>>

-----------------------------------------------------------------------------
(* Time, signals, and the server.                                          *)

Passes ==
  /\ sinceContact' = Older(sinceContact, AFTER)
  /\ sinceShout' = Older(sinceShout, REPEAT)
  /\ sinceLook' = Older(sinceLook, LOOK)
  /\ downFor' = IF up THEN 0 ELSE Older(downFor, AFTER)

\* A request that takes its time.
Hang ==
  /\ pc \in {"post", "shout"}
  /\ faults < MaxFaults
  /\ faults' = faults + 1
  /\ Passes
  /\ excused' = TRUE
  /\ UNCHANGED <<loop, buffer, up, ghosts>>

\* delay(INTERVAL_MS), and the condition of the loop.
Wake ==
  /\ pc = "delay"
  /\ Passes
  /\ pc' = IF running THEN "collect" ELSE "ended"
  /\ UNCHANGED <<at, batch, found, running, buffer, up, excused, ghosts, faults>>

Signal ==
  /\ running /\ pc # "ended"
  /\ faults < MaxFaults
  /\ faults' = faults + 1
  /\ running' = FALSE
  /\ UNCHANGED <<pc, at, batch, found, buffer, ages, world, excused, ghosts>>

\* A new process, after the last one has ended or was killed.
Restart ==
  /\ IF pc = "ended" THEN UNCHANGED faults
                     ELSE faults < MaxFaults /\ faults' = faults + 1
  /\ lost' = lost \cup UNION ({MarksIn(buffer[s]) : s \in Streams}
                              \cup {MarksIn(found[s]) : s \in Range(Events)})
  /\ pc' = "collect" /\ at' = "host" /\ batch' = 0
  /\ buffer' = [s \in Streams |-> <<>>]
  /\ found' = [s \in Range(Events) |-> <<>>]
  /\ running' = TRUE
  /\ sinceContact' = 0 /\ sinceShout' = REPEAT /\ sinceLook' = LOOK
  /\ excused' = FALSE
  /\ UNCHANGED <<world, born, stored, doubted>>

GoesDown ==
  /\ up
  /\ faults < MaxFaults
  /\ faults' = faults + 1
  /\ up' = FALSE
  /\ UNCHANGED <<loop, buffer, ages, downFor, excused, ghosts>>

ComesUp ==
  /\ ~up
  /\ up' = TRUE /\ downFor' = 0
  /\ excused' = TRUE
  /\ UNCHANGED <<loop, buffer, ages, ghosts, faults>>

-----------------------------------------------------------------------------
Init ==
  /\ pc = "collect" /\ at = "host" /\ batch = 0
  /\ buffer = [s \in Streams |-> <<>>]
  /\ found = [s \in Range(Events) |-> <<>>]
  /\ running = TRUE
  /\ sinceContact = 0 /\ sinceShout = REPEAT /\ sinceLook = LOOK
  /\ up = TRUE /\ downFor = 0
  /\ excused = FALSE
  /\ born = {} /\ stored = [m \in Marks |-> 0] /\ doubted = {} /\ lost = {}
  /\ faults = 0

Answer == Taken \/ Refused \/ Busy \/ Broken \/ NoAnswer

Cycle ==
  \/ Collect \/ CollectThrows \/ TokenRead \/ TokenMissing \/ Answer
  \/ ShoutEnds \/ Look \/ Snapshot \/ Wake

Next == Cycle \/ Hang \/ Signal \/ Restart \/ GoesDown \/ ComesUp

Spec == Init /\ [][Next]_vars

\* Awaits settle: a fetch that gets no answer ends with the default timeouts of
\* the runtime.  Whether the server comes back is not assumed.
FairSpec == Spec /\ WF_vars(Cycle)

-----------------------------------------------------------------------------
(* Properties.                                                             *)

InHand(m) ==
  \/ \E s \in Streams : m \in Range(buffer[s])
  \/ \E s \in Range(Events) : m \in Range(found[s])

\* A row that was read is in the agent's hands until the server has stored or
\* refused it, or the buffer was full, or the process gone; it is stored twice
\* only when a request did not end well ("only on success and on 4xx"), and
\* rows of one sender arrive in the order they were read.
Accounted ==
  /\ \A m \in Marks :
       /\ m \in born => InHand(m) \/ stored[m] > 0 \/ m \in lost
       /\ stored[m] > 1 => m \in doubted
       /\ stored[m] > 0 /\ InHand(m) => m \in doubted
  /\ \A m, n \in Marks :
       m < n /\ StreamOf[m] = StreamOf[n] /\ stored[n] > 0
         => stored[m] > 0 \/ m \in lost

\* "How long the server must be unreachable before saying so": a shout says what
\* is so, but for the interval between the last answer and the outage, unless
\* reading, the token or a connection failed in between, or the server was back
\* between two requests, which the witness cannot tell from a silent server.
ShoutsAreTrue ==
  [][pc # "shout" /\ pc' = "shout" /\ ~excused' => downFor + 1 >= AFTER]_vars

\* A server that stays away is reported, and reported again, for as long as it
\* is away, although a shout that fails is not tried again before REPEAT.
KeepsShouting == <>[](~up /\ running) => []<>(pc = "shout")

\* Once the server stays up, what was held during an outage goes out and each
\* cycle leaves nothing behind, also after a row larger than a request may be;
\* login attempts and commands only as long as others come, for it takes a new one
\* to make their sender try again.
BuffersDrain ==
  \A s \in Streams :
    <>[](up /\ running) /\ []<>(pc = "post" /\ at = s)
      => <>[](pc = "collect" => buffer[s] = <<>>)
=============================================================================
