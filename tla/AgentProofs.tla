---------------------------- MODULE AgentProofs -----------------------------
(***************************************************************************)
(* Theorems about Agent, for any marked rows and weights, any limits of    *)
(* the buffers and the requests, and any number of faults.                 *)
(***************************************************************************)
EXTENDS Agent, SequenceTheorems, WellFoundedInduction, TLAPS

EventStreams == Range(Events)

\* Every row of a sender on the agent, in the order it was read.
WaitingOf(b, f) == [s \in Streams |-> IF s = "host" THEN b[s] ELSE b[s] \o f[s]]

\* The marks among the first n of the rows.
Oldest(rows, n) == {rows[i] : i \in 1 .. n} \ {Plain}

\* What st becomes when the server stores the marks.
StoredAgain(st, marks) == [m \in Marks |-> IF m \in marks THEN st[m] + 1 ELSE st[m]]

\* Mark m waits in q.
Waits(q, m) == \E i \in DOMAIN q[StreamOf[m]] : q[StreamOf[m]][i] = m

-----------------------------------------------------------------------------
(* The inductive invariant.  Sound is about any waiting rows q, lost marks  *)
(* gone, marks read brn, numbers of times stored st and doubted marks db,   *)
(* so that what a step does to them can be shown one change at a time.      *)

Types(q, brn, st) ==
  /\ q \in [Streams -> Seq(Rows)]
  /\ brn \subseteq Marks
  /\ st \in [Marks -> Nat]

\* A sender holds marks of its own stream, each once, in the order of reading.
Ordered(q, brn) ==
  \A s \in Streams :
    /\ \A i \in DOMAIN q[s] : q[s][i] # Plain => StreamOf[q[s][i]] = s /\ q[s][i] \in brn
    /\ \A i, j \in DOMAIN q[s] :
         i < j /\ q[s][i] # Plain /\ q[s][j] # Plain => q[s][i] < q[s][j]

\* Marks of a stream are read in their order.
ReadInOrder(brn) ==
  \A m, n \in Marks : m < n /\ StreamOf[m] = StreamOf[n] /\ n \in brn => m \in brn

Traced(q, gone, brn, st, db) ==
  \A m \in Marks :
    /\ st[m] > 0 => m \in brn
    /\ m \in brn => Waits(q, m) \/ st[m] > 0 \/ m \in gone
    /\ st[m] > 1 => m \in db
    /\ st[m] > 0 /\ Waits(q, m) => m \in db

StoredInOrder(gone, st) ==
  \A m, n \in Marks :
    m < n /\ StreamOf[m] = StreamOf[n] /\ st[n] > 0 => st[m] > 0 \/ m \in gone

Sound(q, gone, brn, st, db) ==
  /\ Types(q, brn, st)
  /\ Ordered(q, brn)
  /\ ReadInOrder(brn)
  /\ Traced(q, gone, brn, st, db)
  /\ StoredInOrder(gone, st)

\* Rows stand outside of the buffers only while an event sender is flushing, and
\* none of that sender; a request is of rows that are there.
Shape ==
  /\ buffer \in [Streams -> Seq(Rows)]
  /\ found \in [EventStreams -> Seq(Rows)]
  /\ \/ /\ pc \in {"token", "post"}
        /\ at \in Streams
        /\ batch \in 1 .. Len(buffer[at])
        /\ IF at = "host" THEN \A s \in EventStreams : found[s] = <<>>
                          ELSE found[at] = <<>>
     \/ /\ pc \notin {"token", "post"}
        /\ \A s \in EventStreams : found[s] = <<>>

IInv == Shape /\ Sound(WaitingOf(buffer, found), lost, born, stored, doubted)

-----------------------------------------------------------------------------
(* Streams and sequences.                                                  *)

LEMMA StreamsAre ==
  /\ EventStreams = {"access", "commands"}
  /\ Streams = {"access", "commands", "host"}
  /\ DOMAIN Events = {1, 2}
  /\ Events[1] = "access" /\ Events[2] = "commands"
<1>1. DOMAIN Events = {1, 2}
  BY DEF Events
<1> QED BY <1>1 DEF EventStreams, Streams, Events, Range

LEMMA RowsAre == Rows \subseteq Nat /\ Plain \in Rows /\ Marks = Rows \ {Plain}
  BY AgentAssumption DEF Rows, Plain

\* What is left of a sequence from its k-th element on.
LEMMA Suffix ==
  ASSUME NEW rows \in Seq(Rows), NEW k \in 1 .. Len(rows) + 1
  PROVE  /\ SubSeq(rows, k, Len(rows)) \in Seq(Rows)
         /\ Len(SubSeq(rows, k, Len(rows))) = Len(rows) - k + 1
         /\ \A i \in 1 .. Len(rows) - k + 1 : SubSeq(rows, k, Len(rows))[i] = rows[k + i - 1]
<1>1. Len(rows) \in Nat
  BY LenProperties
<1>2. \A i \in k .. Len(rows) : rows[i] \in Rows
  BY <1>1, ElementOfSeq
<1> QED BY <1>1, <1>2, SubSeqProperties

\* The first k elements of a sequence.
LEMMA Prefix ==
  ASSUME NEW rows \in Seq(Rows), NEW k \in 1 .. Len(rows)
  PROVE  /\ SubSeq(rows, 1, k) \in Seq(Rows)
         /\ Len(SubSeq(rows, 1, k)) = k
         /\ \A i \in 1 .. k : SubSeq(rows, 1, k)[i] = rows[i]
<1>1. Len(rows) \in Nat
  BY LenProperties
<1>2. \A i \in 1 .. k : rows[i] \in Rows
  BY <1>1, ElementOfSeq
<1>3. /\ SubSeq(rows, 1, k) \in Seq(Rows)
      /\ Len(SubSeq(rows, 1, k)) = IF 1 <= k THEN k - 1 + 1 ELSE 0
      /\ \A i \in 1 .. k - 1 + 1 : SubSeq(rows, 1, k)[i] = rows[1 + i - 1]
  BY <1>1, <1>2, SubSeqProperties
<1> QED BY <1>1, <1>3

\* The marks of a sequence.
LEMMA MarksAre ==
  ASSUME NEW rows \in Seq(Rows), NEW m
  PROVE  m \in MarksIn(rows) <=> m # Plain /\ \E i \in 1 .. Len(rows) : rows[i] = m
<1>1. DOMAIN rows = 1 .. Len(rows)
  BY LenProperties
<1> QED BY <1>1 DEF MarksIn, Range

\* Some number of the oldest rows is as many as fit.
LEMMA BatchIsOfRows ==
  ASSUME NEW rows \in Seq(Rows), rows # <<>>
  PROVE  BatchWithin(rows) \in 1 .. Len(rows)
<1> DEFINE L == Len(rows)
           Good(n) == Fits(rows, n) /\ (n < L => ~Fits(rows, n + 1))
           Left == {L - n : n \in {i \in 1 .. L : Fits(rows, i)}}
<1>1. L \in Nat \ {0}
  BY EmptySeq
<1>2. Fits(rows, 1)
  BY DEF Fits
<1> HIDE DEF L
<1>3. Left \subseteq Nat /\ Left # {}
  BY <1>1, <1>2
<1>4. PICK x \in Left : \A y \in Left : <<y, x>> \notin OpToRel(<, Nat)
  BY <1>3, WFMin, NatLessThanWellFounded
<1>5. \A y \in Left : ~(y < x)
  BY <1>3, <1>4 DEF OpToRel
<1>6. PICK n \in 1 .. L : Fits(rows, n) /\ x = L - n
  OBVIOUS
<1>7. n < L => ~Fits(rows, n + 1)
  <2> SUFFICES ASSUME n < L, Fits(rows, n + 1) PROVE FALSE
    OBVIOUS
  <2>1. n + 1 \in 1 .. L
    BY <1>1
  <2>2. L - (n + 1) \in Left
    BY <2>1
  <2>3. L - (n + 1) < x
    BY <1>1, <1>6
  <2> QED BY <1>5, <2>2, <2>3
<1>8. \E i \in 1 .. L : Good(i)
  BY <1>6, <1>7
<1>9. BatchWithin(rows) = CHOOSE i \in 1 .. L : Good(i)
  BY DEF BatchWithin, L
<1> HIDE DEF Good
<1>10. (CHOOSE i \in 1 .. L : Good(i)) \in 1 .. L
  BY <1>8
<1> QED BY <1>9, <1>10 DEF L

\* A buffer keeps the newest of its rows.
LEMMA KeptIsSuffix ==
  ASSUME NEW rows \in Seq(Rows), rows # <<>>
  PROVE  \E k \in 1 .. Len(rows) : Kept(rows) = SubSeq(rows, k, Len(rows))
<1>1. Len(rows) \in Nat \ {0}
  BY EmptySeq
<1>2. MAX_BUFFERED \in Nat \ {0}
  BY AgentAssumption
<1> DEFINE k == IF Len(rows) > MAX_BUFFERED THEN Len(rows) - MAX_BUFFERED + 1 ELSE 1
<1>3. k \in 1 .. Len(rows)
  BY <1>1, <1>2
<1>4. Kept(rows) = SubSeq(rows, k, Len(rows))
  BY DEF Kept
<1> QED BY <1>3, <1>4

-----------------------------------------------------------------------------
(* What steps do to the waiting rows.                                      *)

\* The oldest rows of one sender go; their marks are stored once more, or lost.
LEMMA Leaves ==
  ASSUME NEW q, NEW gone, NEW brn, NEW st, NEW db, Sound(q, gone, brn, st, db),
         NEW s \in Streams, NEW k \in 1 .. Len(q[s]) + 1, NEW rest,
         rest = SubSeq(q[s], k, Len(q[s])),
         NEW more, gone \subseteq more,
         NEW st2 \in [Marks -> Nat], NEW left, left = Oldest(q[s], k - 1),
         \/ st2 = st /\ left \subseteq more
         \/ st2 = StoredAgain(st, left)
  PROVE  Sound([q EXCEPT ![s] = rest], more, brn, st2, db)
<1> DEFINE p == [q EXCEPT ![s] = rest]
<1> USE DEF Sound
<1>0. \A m : m \in left <=> m # Plain /\ \E i \in 1 .. k - 1 : q[s][i] = m
  BY DEF Oldest
<1>1. /\ q \in [Streams -> Seq(Rows)] /\ brn \subseteq Marks /\ st \in [Marks -> Nat]
      /\ q[s] \in Seq(Rows) /\ Len(q[s]) \in Nat /\ DOMAIN q[s] = 1 .. Len(q[s])
  BY LenProperties DEF Types
<1>2. /\ rest \in Seq(Rows)
      /\ Len(rest) = Len(q[s]) - k + 1
      /\ \A i \in 1 .. Len(q[s]) - k + 1 : rest[i] = q[s][k + i - 1]
  BY <1>1, Suffix
<1>3. DOMAIN rest = 1 .. Len(q[s]) - k + 1
  BY <1>2, LenProperties
<1>4. p[s] = rest /\ \A r \in Streams \ {s} : p[r] = q[r]
  BY <1>1
<1>5. Types(p, brn, st2)
  BY <1>1, <1>2 DEF Types
<1> HIDE DEF p
<1>6. \A i \in DOMAIN rest : k + i - 1 \in DOMAIN q[s] /\ rest[i] = q[s][k + i - 1]
  BY <1>1, <1>2, <1>3
<1>7. Ordered(p, brn)
  <2> SUFFICES ASSUME NEW r \in Streams
               PROVE  /\ \A i \in DOMAIN p[r] :
                           p[r][i] # Plain => StreamOf[p[r][i]] = r /\ p[r][i] \in brn
                      /\ \A i, j \in DOMAIN p[r] :
                           i < j /\ p[r][i] # Plain /\ p[r][j] # Plain => p[r][i] < p[r][j]
    BY DEF Ordered
  <2>1. CASE r # s
    BY <2>1, <1>4 DEF Ordered
  <2>2. CASE r = s
    <3>1. \A i \in DOMAIN rest :
            rest[i] # Plain => StreamOf[rest[i]] = s /\ rest[i] \in brn
      BY <1>6 DEF Ordered
    <3>2. ASSUME NEW i \in DOMAIN rest, NEW j \in DOMAIN rest, i < j,
                 rest[i] # Plain, rest[j] # Plain
          PROVE  rest[i] < rest[j]
      <4>1. k + i - 1 < k + j - 1
        BY <3>2, <1>3, <1>1
      <4> QED BY <4>1, <3>2, <1>6 DEF Ordered
    <3> QED BY <3>1, <3>2, <2>2, <1>4
  <2> QED BY <2>1, <2>2
\* Marks that left were waiting.
<1>8. \A m \in left : m \in Marks /\ StreamOf[m] = s /\ m \in brn /\ Waits(q, m)
  <2> SUFFICES ASSUME NEW m \in left
               PROVE  m \in Marks /\ StreamOf[m] = s /\ m \in brn /\ Waits(q, m)
    OBVIOUS
  <2>1. PICK i \in 1 .. k - 1 : q[s][i] = m /\ m # Plain
    BY <1>0
  <2>2. i \in DOMAIN q[s] /\ m # Plain
    BY <2>1, <1>1
  <2> QED BY <2>1, <2>2, <1>1 DEF Ordered, Waits
\* A mark still waiting was waiting, and is not among those that left.
<1>9. \A m \in Marks : Waits(p, m) => Waits(q, m) /\ m \notin left
  <2> SUFFICES ASSUME NEW m \in Marks, Waits(p, m) PROVE Waits(q, m) /\ m \notin left
    OBVIOUS
  <2>0. StreamOf[m] \in Streams /\ m # Plain
    BY AgentAssumption
  <2>1. CASE StreamOf[m] # s
    <3>1. Waits(q, m)
      BY <2>0, <2>1, <1>4 DEF Waits
    <3>2. m \notin left
      BY <2>1, <1>8
    <3> QED BY <3>1, <3>2
  <2>2. CASE StreamOf[m] = s
    <3>1. PICK i \in DOMAIN rest : rest[i] = m
      BY <2>2, <1>4 DEF Waits
    <3>2. k + i - 1 \in DOMAIN q[s] /\ q[s][k + i - 1] = m
      BY <3>1, <1>6
    <3>3. \A j \in 1 .. k - 1 : j \in DOMAIN q[s] /\ j < k + i - 1
      BY <1>1, <1>3, <3>1
    <3>4. m \in Nat /\ ~(m < m)
      BY RowsAre
    <3>5. \A j \in 1 .. k - 1 : q[s][j] # m
      BY <2>0, <3>2, <3>3, <3>4 DEF Ordered
    <3> QED BY <1>0, <3>2, <3>5, <2>2 DEF Waits
  <2> QED BY <2>1, <2>2
\* A mark that was waiting still is, or is among those that left.
<1>10. \A m \in Marks : Waits(q, m) => Waits(p, m) \/ m \in left
  <2> SUFFICES ASSUME NEW m \in Marks, Waits(q, m), m \notin left PROVE Waits(p, m)
    OBVIOUS
  <2>0. StreamOf[m] \in Streams /\ m # Plain
    BY AgentAssumption
  <2>1. CASE StreamOf[m] # s
    BY <2>0, <2>1, <1>4 DEF Waits
  <2>2. CASE StreamOf[m] = s
    <3>1. PICK i \in DOMAIN q[s] : q[s][i] = m
      BY <2>2 DEF Waits
    <3>2. i \in 1 .. Len(q[s]) /\ i \notin 1 .. k - 1
      BY <3>1, <2>0, <1>0, <1>1
    <3>3. i - k + 1 \in 1 .. Len(q[s]) - k + 1 /\ k + (i - k + 1) - 1 = i
      <4> DEFINE L == Len(q[s])
      <4>1. L \in Nat /\ k \in 1 .. L + 1
        BY <1>1
      <4>2. i \in 1 .. L /\ i \notin 1 .. k - 1
        BY <3>2
      <4> HIDE DEF L
      <4>3. i \in Nat /\ k \in Nat /\ i >= k /\ i <= L
        BY <4>1, <4>2
      <4>4. i - k + 1 \in 1 .. L - k + 1 /\ k + (i - k + 1) - 1 = i
        BY <4>1, <4>3
      <4> QED BY <4>4 DEF L
    <3>4. rest[i - k + 1] = m
      BY <3>1, <3>3, <1>3, <1>6
    <3> QED BY <3>3, <3>4, <2>2, <1>3, <1>4 DEF Waits
  <2> QED BY <2>1, <2>2
\* Those read before a mark that left wait no more.
<1>11. \A m, n \in Marks :
         m < n /\ StreamOf[m] = StreamOf[n] /\ n \in left => ~Waits(p, m)
  <2> SUFFICES ASSUME NEW m \in Marks, NEW n \in left, m < n, StreamOf[m] = StreamOf[n],
                      Waits(p, m)
               PROVE  FALSE
    OBVIOUS
  <2>1. StreamOf[m] = s
    BY <1>8
  <2>2. PICK i \in DOMAIN rest : rest[i] = m
    BY <2>1, <1>4 DEF Waits
  <2>3. PICK j \in 1 .. k - 1 : q[s][j] = n
    BY <1>0
  <2>4. /\ k + i - 1 \in DOMAIN q[s] /\ q[s][k + i - 1] = m
        /\ j \in DOMAIN q[s] /\ j < k + i - 1
    BY <2>2, <2>3, <1>1, <1>3, <1>6
  <2>5. n < m
    <3>1. m # Plain /\ n # Plain
      BY <1>8, RowsAre
    <3> QED BY <3>1, <2>3, <2>4 DEF Ordered
  <2>6. m \in Nat /\ n \in Nat
    BY <1>8, RowsAre
  <2> QED BY <2>5, <2>6
<1>12. \A m \in Marks : /\ st[m] \in Nat /\ st2[m] \in Nat
                        /\ st[m] > 0 => st2[m] > 0
                        /\ st2[m] > st[m] => m \in left /\ st2[m] = st[m] + 1
                        /\ m \in left => st2[m] > 0 \/ m \in more
                        /\ m \notin left => st2[m] = st[m]
                        /\ st2[m] # st[m] => st2[m] > st[m]
  BY <1>1 DEF StoredAgain

<1>13. Traced(p, more, brn, st2, db)
  <2> SUFFICES ASSUME NEW m \in Marks
               PROVE  /\ st2[m] > 0 => m \in brn
                      /\ m \in brn => Waits(p, m) \/ st2[m] > 0 \/ m \in more
                      /\ st2[m] > 1 => m \in db
                      /\ st2[m] > 0 /\ Waits(p, m) => m \in db
    BY DEF Traced
  <2>1. /\ st[m] > 0 => m \in brn
        /\ m \in brn => Waits(q, m) \/ st[m] > 0 \/ m \in gone
        /\ st[m] > 1 => m \in db
        /\ st[m] > 0 /\ Waits(q, m) => m \in db
    BY DEF Traced
  <2>2. CASE m \in left
    BY <2>1, <2>2, <1>9, <1>8, <1>12
  <2>3. CASE m \notin left
    BY <2>1, <2>3, <1>9, <1>10, <1>12
  <2> QED BY <2>2, <2>3
<1>14. StoredInOrder(more, st2)
  <2> SUFFICES ASSUME NEW m \in Marks, NEW n \in Marks, m < n,
                      StreamOf[m] = StreamOf[n], st2[n] > 0, m \notin more
               PROVE  st2[m] > 0
    BY DEF StoredInOrder
  <2>1. CASE st[n] > 0
    BY <2>1, <1>12 DEF StoredInOrder
  <2>2. CASE ~(st[n] > 0)
    <3>1. n \in left /\ n \in brn
      BY <2>2, <1>8, <1>12
    <3>2. m \in brn
      BY <3>1 DEF ReadInOrder
    <3>3. ~Waits(p, m)
      BY <3>1, <1>11
    <3> QED BY <3>2, <3>3, <1>13 DEF Traced
  <2> QED BY <2>1, <2>2
<1> QED BY <1>5, <1>7, <1>13, <1>14 DEF p

\* The oldest rows of one sender are stored, but the agent keeps them.
LEMMA Doubts ==
  ASSUME NEW q, NEW gone, NEW brn, NEW st, NEW db, Sound(q, gone, brn, st, db),
         NEW s \in Streams, NEW k \in 1 .. Len(q[s]), NEW sent, sent = Oldest(q[s], k)
  PROVE  Sound(q, gone, brn, StoredAgain(st, sent), db \cup sent)
<1> DEFINE st2 == StoredAgain(st, sent)
<1> USE DEF Sound
<1>0. \A m : m \in sent <=> m # Plain /\ \E i \in 1 .. k : q[s][i] = m
  BY DEF Oldest
<1>1. /\ q \in [Streams -> Seq(Rows)] /\ st \in [Marks -> Nat]
      /\ Len(q[s]) \in Nat /\ DOMAIN q[s] = 1 .. Len(q[s])
  BY LenProperties DEF Types
<1>2. \A m \in Marks : /\ st[m] \in Nat /\ st2[m] \in Nat
                       /\ st[m] > 0 => st2[m] > 0
                       /\ m \in sent => st2[m] > 0
                       /\ m \notin sent => st2[m] = st[m]
  BY <1>1 DEF StoredAgain

<1>3. Types(q, brn, st2)
  BY <1>1, <1>2 DEF StoredAgain, Types
<1> HIDE DEF st2
<1>4. \A m \in sent : m \in Marks /\ StreamOf[m] = s /\ m \in brn
  BY <1>0, <1>1 DEF Ordered, Types
<1>5. Traced(q, gone, brn, st2, db \cup sent)
  BY <1>2, <1>4 DEF Traced
<1>6. \A m, n \in Marks :
        m < n /\ StreamOf[m] = StreamOf[n] /\ n \in sent /\ Waits(q, m) => m \in sent
  <2> SUFFICES ASSUME NEW m \in Marks, NEW n \in sent, m < n, StreamOf[m] = StreamOf[n],
                      Waits(q, m)
               PROVE  m \in sent
    OBVIOUS
  <2>1. PICK i \in DOMAIN q[s] : q[s][i] = m
    BY <1>4 DEF Waits
  <2>2. PICK j \in 1 .. k : q[s][j] = n
    BY <1>0
  <2>3. m # Plain /\ n # Plain /\ m \in Nat /\ n \in Nat
    BY <1>4, RowsAre
  <2>6. j \in DOMAIN q[s]
    BY <1>1
  <2>4. ~(j < i)
    BY <2>1, <2>2, <2>3, <2>6 DEF Ordered
  <2>5. i \in 1 .. k \/ i = j
    BY <1>1, <2>1, <2>2, <2>4
  <2> QED BY <1>0, <2>1, <2>2, <2>3, <2>5
<1>7. StoredInOrder(gone, st2)
  <2> SUFFICES ASSUME NEW m \in Marks, NEW n \in Marks, m < n,
                      StreamOf[m] = StreamOf[n], st2[n] > 0, m \notin gone
               PROVE  st2[m] > 0
    BY DEF StoredInOrder
  <2>1. CASE n \notin sent
    BY <2>1, <1>2 DEF StoredInOrder
  <2>2. CASE n \in sent
    <3>1. m \in brn
      BY <2>2, <1>4 DEF ReadInOrder
    <3> QED BY <3>1, <2>2, <1>2, <1>6 DEF Traced
  <2> QED BY <2>1, <2>2
<1> QED BY <1>3, <1>5, <1>7 DEF st2

\* At most one row is read, Plain or the next mark of its stream.
LEMMA IsRead ==
  ASSUME NEW q, NEW gone, NEW brn, NEW st, NEW db, Sound(q, gone, brn, st, db),
         NEW s \in Streams, NEW rows \in {<<>>} \cup {<<row>> : row \in Rows},
         \A i \in DOMAIN rows :
           rows[i] # Plain => /\ rows[i] \in Marks \ brn /\ StreamOf[rows[i]] = s
                              /\ \A n \in Marks \ brn : StreamOf[n] = s => rows[i] <= n
  PROVE  /\ Sound([q EXCEPT ![s] = @ \o rows], gone, brn \cup MarksIn(rows), st, db)
         /\ rows \in Seq(Rows)
<1> USE DEF Sound
<1>1. /\ q \in [Streams -> Seq(Rows)] /\ st \in [Marks -> Nat] /\ brn \subseteq Marks
      /\ q[s] \in Seq(Rows) /\ Len(q[s]) \in Nat /\ DOMAIN q[s] = 1 .. Len(q[s])
  BY LenProperties DEF Types
<1>2. CASE rows = <<>>
  <2>1. rows \in Seq(Rows) /\ MarksIn(rows) = {}
    BY <1>2 DEF MarksIn, Range
  <2>2. [q EXCEPT ![s] = @ \o rows] = q
    BY <1>1, <1>2, ConcatEmptySeq
  <2>3. brn \cup MarksIn(rows) = brn
    BY <2>1
  <2> QED BY <2>1, <2>2, <2>3
<1>3. CASE rows # <<>>
  <2>1. PICK row \in Rows : rows = <<row>>
    BY <1>3
  <2>2. rows \in Seq(Rows) /\ Len(rows) = 1 /\ rows[1] = row /\ DOMAIN rows = {1}
    BY <2>1
  <2> DEFINE p == [q EXCEPT ![s] = @ \o rows]
             L == Len(q[s])
             brn2 == brn \cup MarksIn(rows)
  <2>3. row # Plain => /\ row \in Marks \ brn /\ StreamOf[row] = s
                       /\ \A n \in Marks \ brn : StreamOf[n] = s => row <= n
    BY <2>2
  <2>4. /\ p[s] \in Seq(Rows) /\ Len(p[s]) = L + 1 /\ p[s][L + 1] = row
        /\ \A i \in 1 .. L : p[s][i] = q[s][i]
        /\ \A r \in Streams \ {s} : p[r] = q[r]
    <3>1. p[s] = q[s] \o rows /\ \A r \in Streams \ {s} : p[r] = q[r]
      BY <1>1
    <3>2. /\ q[s] \o rows \in Seq(Rows)
          /\ Len(q[s] \o rows) = L + 1
          /\ (q[s] \o rows)[L + 1] = row
          /\ \A i \in 1 .. L : (q[s] \o rows)[i] = q[s][i]
      BY <1>1, <2>1, AppendProperties, AppendIsConcat
    <3> HIDE DEF p, L
    <3> QED BY <3>1, <3>2
  <2>5. DOMAIN p[s] = 1 .. L + 1
    BY <2>4, LenProperties
  <2>6. MarksIn(rows) = {row} \ {Plain}
    BY <2>2 DEF MarksIn, Range
  <2>7. brn2 \subseteq Marks /\ p \in [Streams -> Seq(Rows)]
    BY <1>1, <2>3, <2>4, <2>6
  <2>8. Types(p, brn2, st)
    BY <1>1, <2>7 DEF Types
  <2>9. brn2 = brn \cup ({row} \ {Plain})
    BY <2>6
  <2> HIDE DEF p, L, brn2
  <2>10. L \in Nat
    BY <1>1 DEF L
  <2>11. Ordered(p, brn2)
    <3> SUFFICES ASSUME NEW r \in Streams
                 PROVE  /\ \A i \in DOMAIN p[r] :
                             p[r][i] # Plain => StreamOf[p[r][i]] = r /\ p[r][i] \in brn2
                        /\ \A i, j \in DOMAIN p[r] :
                             i < j /\ p[r][i] # Plain /\ p[r][j] # Plain => p[r][i] < p[r][j]
      BY DEF Ordered
    <3>1. CASE r # s
      <4>1. p[r] = q[r]
        BY <3>1, <2>4
      <4>2. brn \subseteq brn2
        BY <2>9
      <4> QED BY <4>1, <4>2 DEF Ordered
    <3>2. CASE r = s
      <4>1. \A i \in 1 .. L + 1 : i \in 1 .. L \/ i = L + 1
        BY <2>10
      <4>2. \A i \in 1 .. L + 1 :
              p[s][i] # Plain => StreamOf[p[s][i]] = s /\ p[s][i] \in brn2
        <5> SUFFICES ASSUME NEW i \in 1 .. L + 1, p[s][i] # Plain
                     PROVE  StreamOf[p[s][i]] = s /\ p[s][i] \in brn2
          OBVIOUS
        <5>1. CASE i = L + 1
          BY <5>1, <2>3, <2>4, <2>9
        <5>2. CASE i \in 1 .. L
          <6>1. i \in DOMAIN q[s] /\ p[s][i] = q[s][i]
            BY <5>2, <1>1, <2>4 DEF L
          <6> QED BY <6>1, <2>9 DEF Ordered
        <5> QED BY <5>1, <5>2, <4>1
      <4>3. \A i \in 1 .. L : q[s][i] # Plain /\ row # Plain => q[s][i] < row
        <5> SUFFICES ASSUME NEW i \in 1 .. L, q[s][i] # Plain, row # Plain
                     PROVE  q[s][i] < row
          OBVIOUS
        <5> DEFINE m == q[s][i]
        <5>1. StreamOf[m] = s /\ m \in brn /\ m \in Marks
          BY <1>1 DEF Ordered, L
        <5>2. m \in Nat /\ row \in Nat /\ m # row
          BY <5>1, <2>3, RowsAre
        <5>3. ~(row < m)
          BY <5>1, <2>3 DEF ReadInOrder
        <5> QED BY <5>2, <5>3
      <4>4. ASSUME NEW i \in 1 .. L + 1, NEW j \in 1 .. L + 1, i < j,
                   p[s][i] # Plain, p[s][j] # Plain
            PROVE  p[s][i] < p[s][j]
        <5>1. i \in 1 .. L
          BY <4>4, <2>10
        <5>2. CASE j = L + 1
          BY <5>1, <5>2, <4>3, <4>4, <2>4
        <5>3. CASE j \in 1 .. L
          BY <5>1, <5>3, <4>4, <1>1, <2>4 DEF Ordered, L
        <5> QED BY <5>2, <5>3, <4>1
      <4> QED BY <4>2, <4>4, <3>2, <2>5
    <3> QED BY <3>1, <3>2
  <2>12. ReadInOrder(brn2)
    <3> SUFFICES ASSUME NEW m \in Marks, NEW n \in Marks, m < n,
                        StreamOf[m] = StreamOf[n], n \in brn2, m \notin brn
                 PROVE  FALSE
      BY <2>9 DEF ReadInOrder
    <3>1. n = row /\ row # Plain
      BY <2>9 DEF ReadInOrder
    <3>2. row <= m
      BY <3>1, <2>3
    <3> QED BY <3>1, <3>2, RowsAre
  <2>13. \A m \in Marks : Waits(p, m) <=> Waits(q, m) \/ m = row
    <3> SUFFICES ASSUME NEW m \in Marks PROVE Waits(p, m) <=> Waits(q, m) \/ m = row
      OBVIOUS
    <3>1. StreamOf[m] \in Streams /\ m # Plain
      BY AgentAssumption
    <3>2. CASE StreamOf[m] # s
      BY <3>1, <3>2, <2>3, <2>4 DEF Waits
    <3>3. CASE StreamOf[m] = s
      <4>1. \A i : i \in 1 .. L + 1 <=> i \in 1 .. L \/ i = L + 1
        BY <2>10
      <4> QED BY <4>1, <3>3, <1>1, <2>4, <2>5 DEF Waits, L
    <3> QED BY <3>2, <3>3
  <2>14. Traced(p, gone, brn2, st, db)
    <3> SUFFICES ASSUME NEW m \in Marks
                 PROVE  /\ st[m] > 0 => m \in brn2
                        /\ m \in brn2 => Waits(p, m) \/ st[m] > 0 \/ m \in gone
                        /\ st[m] > 1 => m \in db
                        /\ st[m] > 0 /\ Waits(p, m) => m \in db
      BY DEF Traced
    <3>1. m = row => ~(st[m] > 0)
      BY <2>3, AgentAssumption DEF Traced
    <3>2. m \in brn2 <=> m \in brn \/ m = row
      <4>1. m # Plain
        BY RowsAre
      <4> QED BY <4>1, <2>9
    <3>3. /\ st[m] > 0 => m \in brn
          /\ m \in brn => Waits(q, m) \/ st[m] > 0 \/ m \in gone
          /\ st[m] > 1 => m \in db
          /\ st[m] > 0 /\ Waits(q, m) => m \in db
      BY DEF Traced
    <3> QED BY <3>1, <3>2, <3>3, <2>13
  <2> QED BY <2>2, <2>8, <2>11, <2>12, <2>14 DEF p, brn2
<1> QED BY <1>2, <1>3

-----------------------------------------------------------------------------
(* The calls the actions are made of.                                      *)

\* Flush: the rows join the buffer of their sender, and the oldest make way.
LEMMA Flushes ==
  ASSUME NEW b \in [Streams -> Seq(Rows)], NEW s \in Streams,
         NEW rows \in Seq(Rows), rows # <<>>,
         NEW q, NEW gone, NEW brn, NEW st, NEW db, Sound(q, gone, brn, st, db),
         q[s] = b[s] \o rows, Flush(b, gone, s, rows)
  PROVE  /\ Sound([q EXCEPT ![s] = buffer'[s]], lost', brn, st, db)
         /\ buffer' \in [Streams -> Seq(Rows)]
         /\ \A r \in Streams \ {s} : buffer'[r] = b[r]
         /\ pc' = "token" /\ at' = s /\ batch' \in 1 .. Len(buffer'[s])
<1> DEFINE all == b[s] \o rows
<1>1. all \in Seq(Rows) /\ all # <<>>
  <2>1. b[s] \in Seq(Rows)
    OBVIOUS
  <2>2. Len(all) = Len(b[s]) + Len(rows) /\ all \in Seq(Rows)
    BY <2>1, ConcatProperties
  <2>3. Len(rows) \in Nat \ {0} /\ Len(b[s]) \in Nat
    BY <2>1, EmptySeq, LenProperties
  <2>4. Len(<<>>) = 0
    BY EmptySeq
  <2> QED BY <2>2, <2>3, <2>4
<1>2. PICK k \in 1 .. Len(all) : Kept(all) = SubSeq(all, k, Len(all))
  BY <1>1, KeptIsSuffix
<1>3. Len(all) \in Nat
  BY <1>1, LenProperties
<1>4. /\ buffer' = [b EXCEPT ![s] = Kept(all)]
      /\ at' = s /\ pc' = "token" /\ batch' = BatchWithin(Kept(all))
      /\ lost' = gone \cup (MarksIn(all) \ MarksIn(Kept(all)))
  BY DEF Flush
<1> HIDE DEF all
<1>5. k \in 1 .. Len(all) + 1 /\ k \in Nat
  BY <1>3
<1>6. /\ Kept(all) \in Seq(Rows)
      /\ Len(Kept(all)) = Len(all) - k + 1
      /\ \A i \in 1 .. Len(all) - k + 1 : Kept(all)[i] = all[k + i - 1]
  BY <1>1, <1>2, <1>5, Suffix
<1>7. Kept(all) # <<>>
  <2>1. Len(Kept(all)) # 0
    BY <1>2, <1>3, <1>6
  <2> QED BY <2>1, EmptySeq
<1>8. buffer'[s] = Kept(all) /\ \A r \in Streams \ {s} : buffer'[r] = b[r]
  BY <1>4
<1>9. buffer' \in [Streams -> Seq(Rows)]
  BY <1>4, <1>6
<1>10. batch' \in 1 .. Len(buffer'[s])
  BY <1>4, <1>6, <1>7, <1>8, BatchIsOfRows
<1> DEFINE left == Oldest(all, k - 1)
<1>11. q[s] = all
  BY DEF all
<1>12. \A m : m \in left <=> m # Plain /\ \E i \in 1 .. k - 1 : all[i] = m
  BY DEF Oldest
<1>13. left \cap MarksIn(Kept(all)) = {}
  <2> SUFFICES ASSUME NEW m \in left, m \in MarksIn(Kept(all)) PROVE FALSE
    OBVIOUS
  <2>1. PICK i \in 1 .. k - 1 : all[i] = m /\ m # Plain
    BY <1>12
  <2>2. PICK j \in 1 .. Len(Kept(all)) : Kept(all)[j] = m
    BY <1>6, MarksAre
  <2>3. all[k + j - 1] = m
    BY <1>6, <2>2
  <2>4. DOMAIN all = 1 .. Len(all)
    BY <1>1, LenProperties
  <2>5. i \in DOMAIN all /\ k + j - 1 \in DOMAIN all /\ i < k + j - 1
    BY <1>2, <1>3, <1>5, <1>6, <2>1, <2>2, <2>4
  <2>6. m < m
    BY <1>11, <2>1, <2>3, <2>5 DEF Sound, Ordered
  <2>7. m \in Nat
    BY <1>1, <1>12, MarksAre, <2>1, <2>4, <2>5, ElementOfSeq, RowsAre
  <2> QED BY <2>6, <2>7
<1>14. gone \subseteq lost' /\ left \subseteq lost'
  <2>1. \A i \in 1 .. k - 1 : i \in 1 .. Len(all)
    BY <1>2, <1>3
  <2>2. left \subseteq MarksIn(all)
    BY <1>1, <1>12, <2>1, MarksAre
  <2> QED BY <1>4, <1>13, <2>2
<1> HIDE DEF left
<1>15. st \in [Marks -> Nat]
  BY DEF Sound, Types
<1>16. Sound([q EXCEPT ![s] = Kept(all)], lost', brn, st, db)
  <2>1. Kept(all) = SubSeq(q[s], k, Len(q[s])) /\ k \in 1 .. Len(q[s]) + 1
    BY <1>2, <1>5, <1>11
  <2>2. left = Oldest(q[s], k - 1)
    BY <1>11 DEF left
  <2> QED BY <1>14, <1>15, <2>1, <2>2, Leaves
<1> QED BY <1>4, <1>8, <1>9, <1>10, <1>16

\* Onward: the next event sender that has rows flushes them.
LEMMA GoesOn ==
  ASSUME NEW b \in [Streams -> Seq(Rows)], NEW news \in [EventStreams -> Seq(Rows)],
         NEW gone, NEW brn, NEW st, NEW db, Sound(WaitingOf(b, news), gone, brn, st, db),
         Onward(b, gone, news)
  PROVE  Shape' /\ Sound(WaitingOf(buffer', found'), lost', brn, st, db)
<1>1. CASE /\ \A i \in DOMAIN Events : news[Events[i]] = <<>>
           /\ pc' = "snapshot" /\ buffer' = b /\ lost' = gone /\ found' = news
           /\ UNCHANGED <<at, batch>>
  BY <1>1, StreamsAre DEF Shape
<1>2. ASSUME NEW i \in DOMAIN Events, news[Events[i]] # <<>>,
             Flush(b, gone, Events[i], news[Events[i]]),
             found' = [news EXCEPT ![Events[i]] = <<>>]
      PROVE  Shape' /\ Sound(WaitingOf(buffer', found'), lost', brn, st, db)
  <2> DEFINE s == Events[i]
             q == WaitingOf(b, news)
  <2>1. s \in EventStreams /\ s \in Streams /\ s # "host"
    BY StreamsAre
  <2>2. news[s] \in Seq(Rows)
    BY <2>1
  <2>3. q[s] = b[s] \o news[s]
    BY <2>1 DEF WaitingOf
  <2>4. Flush(b, gone, s, news[s]) /\ news[s] # <<>>
    BY <1>2
  <2>5. found' = [news EXCEPT ![s] = <<>>]
    BY <1>2
  <2>6. Sound(q, gone, brn, st, db)
    OBVIOUS
  <2> HIDE DEF q, s
  <2>7. /\ Sound([q EXCEPT ![s] = buffer'[s]], lost', brn, st, db)
        /\ buffer' \in [Streams -> Seq(Rows)]
        /\ \A r \in Streams \ {s} : buffer'[r] = b[r]
        /\ pc' = "token" /\ at' = s /\ batch' \in 1 .. Len(buffer'[s])
    BY <2>1, <2>2, <2>3, <2>4, <2>6, Flushes
  <2>8. /\ found' \in [EventStreams -> Seq(Rows)] /\ found'[s] = <<>>
        /\ \A r \in EventStreams \ {s} : found'[r] = news[r]
    BY <2>1, <2>5, EmptySeq
  <2>9. Shape'
    BY <2>1, <2>7, <2>8 DEF Shape
  <2>10. WaitingOf(buffer', found') = [q EXCEPT ![s] = buffer'[s]]
    <3>1. ASSUME NEW r \in Streams
          PROVE  WaitingOf(buffer', found')[r] = [q EXCEPT ![s] = buffer'[s]][r]
      <4>1. CASE r = s
        <5>1. buffer'[s] \o <<>> = buffer'[s]
          BY <2>1, <2>7, ConcatEmptySeq
        <5> QED BY <4>1, <5>1, <2>1, <2>8 DEF WaitingOf, q
      <4>2. CASE r # s
        BY <4>2, <2>7, <2>8, StreamsAre DEF WaitingOf, q
      <4> QED BY <4>1, <4>2
    <3> QED BY <3>1 DEF WaitingOf, q
  <2> QED BY <2>7, <2>9, <2>10
<1> QED BY <1>1, <1>2 DEF Onward

\* FlushEnds: the witness speaks after the host's readings, and the next sender
\* flushes after those of events.
LEMMA Ends ==
  ASSUME Shape, pc \in {"token", "post"},
         NEW b \in [Streams -> Seq(Rows)], NEW reached \in BOOLEAN, NEW odd \in BOOLEAN,
         NEW gone, NEW brn, NEW st, NEW db, Sound(WaitingOf(b, found), gone, brn, st, db),
         FlushEnds(b, gone, reached, odd)
  PROVE  Shape' /\ Sound(WaitingOf(buffer', found'), lost', brn, st, db)
<1>1. CASE at = "host"
  <2>1. pc' \in {"shout", "delay", "look"}
    BY <1>1 DEF FlushEnds, Witnessed, StartSessions
  <2>2. buffer' = b /\ found' = found /\ lost' = gone
    BY <1>1 DEF FlushEnds
  <2> QED BY <1>1, <2>1, <2>2 DEF Shape
<1>2. CASE at # "host"
  <2>1. Onward(b, gone, found)
    BY <1>2 DEF FlushEnds
  <2>2. found \in [EventStreams -> Seq(Rows)]
    BY DEF Shape
  <2> QED BY <2>1, <2>2, GoesOn
<1> QED BY <1>1, <1>2

\* What Fresh gives is what IsRead takes.
LEMMA FreshIsNext ==
  ASSUME NEW s \in Streams, NEW row \in Fresh(s)
  PROVE  /\ row \in Rows
         /\ row # Plain => /\ row \in Marks \ born /\ StreamOf[row] = s
                           /\ \A n \in Marks \ born : StreamOf[n] = s => row <= n
  BY RowsAre DEF Fresh

-----------------------------------------------------------------------------
(* One lemma for each action that moves rows.                              *)

\* The agent starts with nothing.
LEMMA Initially == Init => IInv
<1> SUFFICES ASSUME Init PROVE IInv
  OBVIOUS
<1> DEFINE q == WaitingOf(buffer, found)
<1>1. Shape
  BY EmptySeq DEF Init, Shape, EventStreams
<1>2. q = [s \in Streams |-> <<>>]
  <2>1. <<>> \o <<>> = <<>>
    BY EmptySeq, ConcatEmptySeq
  <2> QED BY <2>1, StreamsAre DEF Init, WaitingOf, EventStreams
<1> HIDE DEF q
<1>3. DOMAIN <<>> = {}
  OBVIOUS
<1>4. Types(q, born, stored)
  BY <1>2, EmptySeq DEF Init, Types
<1>5. Ordered(q, born)
  BY <1>2, <1>3 DEF Ordered
<1>6. ReadInOrder(born) /\ Traced(q, lost, born, stored, doubted) /\ StoredInOrder(lost, stored)
  <2>1. \A m \in Marks : stored[m] = 0 /\ m \notin born /\ ~(stored[m] > 0) /\ ~(stored[m] > 1)
    BY DEF Init
  <2> QED BY <2>1 DEF ReadInOrder, Traced, StoredInOrder
<1> QED BY <1>1, <1>4, <1>5, <1>6 DEF IInv, Sound, q

\* A reading joins the host's buffer.
LEMMA Collects == ASSUME IInv, Collect PROVE IInv'
<1> DEFINE q == WaitingOf(buffer, found)
<1>1. PICK row \in Fresh("host") :
        Flush(buffer, lost, "host", <<row>>) /\ born' = born \cup MarksIn(<<row>>)
  BY DEF Collect
<1>2. "host" \in Streams
  BY StreamsAre
<1> DEFINE rows == <<row>>
           p == [q EXCEPT !["host"] = @ \o rows]
<1>3. rows \in {<<>>} \cup {<<r>> : r \in Rows} /\ DOMAIN rows = {1} /\ rows[1] = row
  BY <1>2, FreshIsNext
<1>4. \A i \in DOMAIN rows :
        rows[i] # Plain => /\ rows[i] \in Marks \ born /\ StreamOf[rows[i]] = "host"
                           /\ \A n \in Marks \ born : StreamOf[n] = "host" => rows[i] <= n
  BY <1>2, <1>3, FreshIsNext
<1>5. rows # <<>>
  OBVIOUS
<1> HIDE DEF rows
<1>6. Sound(q, lost, born, stored, doubted) /\ Shape
  BY DEF IInv
<1>7. buffer \in [Streams -> Seq(Rows)] /\ found \in [EventStreams -> Seq(Rows)]
  BY <1>6 DEF Shape
<1>8. q["host"] = buffer["host"] /\ q = [s \in Streams |-> q[s]]
  BY <1>2 DEF WaitingOf
<1> HIDE DEF q
<1>9. Sound(p, lost, born \cup MarksIn(rows), stored, doubted) /\ rows \in Seq(Rows)
  BY <1>2, <1>3, <1>4, <1>6, IsRead
<1>10. p["host"] = buffer["host"] \o rows
  BY <1>2, <1>8
<1> HIDE DEF p
<1>11. Flush(buffer, lost, "host", rows) /\ born' = born \cup MarksIn(rows)
  BY <1>1 DEF rows
<1>12. /\ Sound([p EXCEPT !["host"] = buffer'["host"]], lost', born', stored, doubted)
       /\ buffer' \in [Streams -> Seq(Rows)]
       /\ \A r \in Streams \ {"host"} : buffer'[r] = buffer[r]
       /\ pc' = "token" /\ at' = "host" /\ batch' \in 1 .. Len(buffer'["host"])
  BY <1>2, <1>5, <1>7, <1>9, <1>10, <1>11, Flushes
<1>13. found' = found /\ stored' = stored /\ doubted' = doubted
  BY DEF Collect
<1>14. Shape'
  BY <1>2, <1>6, <1>12, <1>13 DEF Shape, Collect
<1>15. WaitingOf(buffer', found') = [p EXCEPT !["host"] = buffer'["host"]]
  <2>1. ASSUME NEW r \in Streams
        PROVE  WaitingOf(buffer', found')[r] = [p EXCEPT !["host"] = buffer'["host"]][r]
    BY <1>2, <1>8, <1>12, <1>13 DEF WaitingOf, p, q
  <2> QED BY <2>1, <1>8 DEF WaitingOf, p
<1> QED BY <1>12, <1>13, <1>14, <1>15 DEF IInv

\* The flush ends with nothing sent: no token, or no answer.
LEMMA KeepsAll ==
  ASSUME IInv, pc \in {"token", "post"}, NEW reached \in BOOLEAN, NEW odd \in BOOLEAN,
         FlushEnds(buffer, lost, reached, odd), UNCHANGED <<born, stored, doubted>>
  PROVE  IInv'
<1>1. Shape /\ Sound(WaitingOf(buffer, found), lost, born, stored, doubted)
  BY DEF IInv
<1>2. buffer \in [Streams -> Seq(Rows)]
  BY <1>1 DEF Shape
<1>3. Shape' /\ Sound(WaitingOf(buffer', found'), lost', born, stored, doubted)
  BY <1>1, <1>2, Ends
<1> QED BY <1>3 DEF IInv

\* The rows of a request, and its sender's other rows.
LEMMA Request ==
  ASSUME IInv, pc = "post"
  PROVE  LET q == WaitingOf(buffer, found) IN
         /\ at \in Streams /\ batch \in 1 .. Len(buffer[at]) /\ Len(buffer[at]) \in Nat
         /\ buffer[at] \in Seq(Rows)
         /\ q[at] = buffer[at]
         /\ MarksIn(Travelling) = Oldest(buffer[at], batch)
<1> DEFINE q == WaitingOf(buffer, found)
<1>1. /\ buffer \in [Streams -> Seq(Rows)]
      /\ at \in Streams
      /\ batch \in 1 .. Len(buffer[at])
      /\ IF at = "host" THEN TRUE ELSE found[at] = <<>>
  BY DEF IInv, Shape
<1>2. buffer[at] \in Seq(Rows) /\ Len(buffer[at]) \in Nat
  BY <1>1, LenProperties
<1>3. q[at] = buffer[at]
  BY <1>1, <1>2, ConcatEmptySeq DEF WaitingOf
<1>4. /\ Travelling \in Seq(Rows)
      /\ Len(Travelling) = batch
      /\ \A i \in 1 .. batch : Travelling[i] = buffer[at][i]
  BY <1>1, <1>2, Prefix DEF Travelling
<1>5. MarksIn(Travelling) = Oldest(buffer[at], batch)
  BY <1>4, MarksAre DEF Oldest
<1> QED BY <1>1, <1>2, <1>3, <1>5

\* The server has stored the rows or refused them: they leave.
LEMMA SendsAndForgets ==
  ASSUME IInv, pc = "post", NEW gone, lost \subseteq gone, UNCHANGED <<born, doubted>>,
         \/ stored' = stored /\ MarksIn(Travelling) \subseteq gone
         \/ stored' = StoredOnce,
         FlushEnds(Advanced, gone, TRUE, FALSE)
  PROVE  IInv'
<1> DEFINE q == WaitingOf(buffer, found)
           rest == SubSeq(buffer[at], batch + 1, Len(buffer[at]))
           left == MarksIn(Travelling)
<1>1. /\ at \in Streams /\ batch \in 1 .. Len(buffer[at]) /\ Len(buffer[at]) \in Nat
      /\ buffer[at] \in Seq(Rows)
      /\ q[at] = buffer[at]
      /\ left = Oldest(buffer[at], batch)
  BY Request
<1>2. Shape /\ Sound(q, lost, born, stored, doubted)
  BY DEF IInv
<1>3. buffer \in [Streams -> Seq(Rows)] /\ found \in [EventStreams -> Seq(Rows)]
  BY <1>2 DEF Shape
<1>4. batch + 1 \in 1 .. Len(buffer[at]) + 1 /\ batch + 1 - 1 = batch
  BY <1>1
<1>5. rest \in Seq(Rows)
  BY <1>1, <1>4, Suffix
<1>6. stored \in [Marks -> Nat]
  BY <1>2 DEF Sound, Types
<1>7. stored' \in [Marks -> Nat]
  BY <1>6 DEF StoredOnce
<1>8. \/ stored' = stored /\ left \subseteq gone
      \/ stored' = StoredAgain(stored, left)
  BY DEF StoredOnce, StoredAgain
<1>9. Advanced = [buffer EXCEPT ![at] = rest] /\ Advanced \in [Streams -> Seq(Rows)]
  BY <1>3, <1>5 DEF Advanced
<1>10. WaitingOf(Advanced, found) = [q EXCEPT ![at] = rest]
  <2>1. at # "host" => found[at] = <<>>
    BY <1>2 DEF Shape
  <2>2. rest \o <<>> = rest
    BY <1>5, ConcatEmptySeq
  <2> HIDE DEF rest
  <2>3. ASSUME NEW r \in Streams
        PROVE  WaitingOf(Advanced, found)[r] = [q EXCEPT ![at] = rest][r]
    BY <1>1, <1>3, <1>9, <2>1, <2>2 DEF WaitingOf
  <2> QED BY <2>3 DEF WaitingOf
<1>11. rest = SubSeq(q[at], batch + 1, Len(q[at]))
  BY <1>1
<1>12. left = Oldest(q[at], (batch + 1) - 1)
  BY <1>1, <1>4
<1>13. batch + 1 \in 1 .. Len(q[at]) + 1
  BY <1>1, <1>4
<1> HIDE DEF q, rest, left
<1>14. Sound([q EXCEPT ![at] = rest], gone, born, stored', doubted)
  <2> DEFINE k == batch + 1
             st2 == stored'
  <2>1. /\ rest = SubSeq(q[at], k, Len(q[at])) /\ k \in 1 .. Len(q[at]) + 1
        /\ left = Oldest(q[at], k - 1)
    BY <1>11, <1>12, <1>13
  <2>2. /\ st2 \in [Marks -> Nat]
        /\ \/ st2 = stored /\ left \subseteq gone
           \/ st2 = StoredAgain(stored, left)
    BY <1>7, <1>8
  <2> HIDE DEF k, st2
  <2>3. Sound([q EXCEPT ![at] = rest], gone, born, st2, doubted)
    BY <1>1, <1>2, <2>1, <2>2, Leaves
  <2> QED BY <2>3 DEF st2
<1>15. Sound(WaitingOf(Advanced, found), gone, born, stored', doubted)
  BY <1>10, <1>14
<1>16. Shape' /\ Sound(WaitingOf(buffer', found'), lost', born, stored', doubted)
  BY <1>2, <1>9, <1>15, Ends
<1> QED BY <1>16 DEF IInv

\* The server may have stored the rows, but the agent has not heard of it.
LEMMA SendsAndKeeps ==
  ASSUME IInv, pc = "post", NEW reached \in BOOLEAN, NEW odd \in BOOLEAN,
         \/ UNCHANGED <<stored, doubted>>
         \/ stored' = StoredOnce /\ doubted' = doubted \cup MarksIn(Travelling),
         FlushEnds(buffer, lost, reached, odd), UNCHANGED born
  PROVE  IInv'
<1>1. CASE UNCHANGED <<stored, doubted>>
  BY <1>1, KeepsAll
<1>2. CASE stored' = StoredOnce /\ doubted' = doubted \cup MarksIn(Travelling)
  <2> DEFINE q == WaitingOf(buffer, found)
             sent == MarksIn(Travelling)
  <2>1. /\ at \in Streams /\ batch \in 1 .. Len(buffer[at])
        /\ q[at] = buffer[at]
        /\ sent = Oldest(buffer[at], batch)
    BY Request
  <2>2. Shape /\ Sound(q, lost, born, stored, doubted)
    BY DEF IInv
  <2>3. stored' = StoredAgain(stored, sent)
    BY <1>2 DEF StoredOnce, StoredAgain
  <2>4. sent = Oldest(q[at], batch)
    BY <2>1
  <2>5. batch \in 1 .. Len(q[at])
    BY <2>1
  <2>6. doubted' = doubted \cup sent
    BY <1>2
  <2> HIDE DEF q, sent
  <2>7. Sound(q, lost, born, stored', doubted')
    BY <2>1, <2>2, <2>3, <2>4, <2>5, <2>6, Doubts
  <2>8. buffer \in [Streams -> Seq(Rows)]
    BY <2>2 DEF Shape
  <2>9. Shape' /\ Sound(WaitingOf(buffer', found'), lost', born, stored', doubted')
    BY <2>2, <2>7, <2>8, Ends DEF q
  <2> QED BY <2>9 DEF IInv
<1> QED BY <1>1, <1>2

\* The sessions are read: at most one row of each stream of events.
LEMMA Looks == ASSUME IInv, Look PROVE IInv'
<1>1. PICK news \in [EventStreams -> {<<>>} \cup {<<row>> : row \in Rows}] :
        /\ \A s \in EventStreams : Range(news[s]) \subseteq Fresh(s)
        /\ Onward(buffer, lost, news)
        /\ born' = born \cup UNION {MarksIn(news[s]) : s \in EventStreams}
  BY DEF Look, EventStreams
<1> DEFINE q == WaitingOf(buffer, found)
           a == news["access"]
           c == news["commands"]
           born1 == born \cup MarksIn(a)
           born2 == born1 \cup MarksIn(c)
           q1 == [q EXCEPT !["access"] = @ \o a]
           q2 == [q1 EXCEPT !["commands"] = @ \o c]
<1>2. Shape /\ Sound(q, lost, born, stored, doubted)
  BY DEF IInv
<1>3. /\ buffer \in [Streams -> Seq(Rows)]
      /\ \A s \in EventStreams : found[s] = <<>>
  BY <1>2 DEF Shape, Look
<1>4. /\ a \in {<<>>} \cup {<<row>> : row \in Rows}
      /\ c \in {<<>>} \cup {<<row>> : row \in Rows}
      /\ "access" \in Streams /\ "commands" \in Streams
  BY StreamsAre
<1>5. /\ \A i \in DOMAIN a : a[i] \in Fresh("access")
      /\ \A i \in DOMAIN c : c[i] \in Fresh("commands")
  BY <1>1, StreamsAre DEF Range
<1>6. MarksIn(a) \subseteq {m \in Marks : StreamOf[m] = "access"}
  BY <1>4, <1>5, FreshIsNext DEF MarksIn, Range
<1>7. \A i \in DOMAIN a :
        a[i] # Plain => /\ a[i] \in Marks \ born /\ StreamOf[a[i]] = "access"
                        /\ \A n \in Marks \ born : StreamOf[n] = "access" => a[i] <= n
  BY <1>4, <1>5, FreshIsNext
<1>8. \A i \in DOMAIN c :
        c[i] # Plain => /\ c[i] \in Marks \ born1 /\ StreamOf[c[i]] = "commands"
                        /\ \A n \in Marks \ born1 : StreamOf[n] = "commands" => c[i] <= n
  <2> SUFFICES ASSUME NEW i \in DOMAIN c, c[i] # Plain
               PROVE  /\ c[i] \in Marks \ born1 /\ StreamOf[c[i]] = "commands"
                      /\ \A n \in Marks \ born1 : StreamOf[n] = "commands" => c[i] <= n
    OBVIOUS
  <2>1. /\ c[i] \in Marks \ born /\ StreamOf[c[i]] = "commands"
        /\ \A n \in Marks \ born : StreamOf[n] = "commands" => c[i] <= n
    BY <1>4, <1>5, FreshIsNext
  <2>2. c[i] \notin MarksIn(a)
    BY <1>6, <2>1
  <2> QED BY <2>1, <2>2
<1>9. born' = born2
  BY <1>1, StreamsAre
<1>10. WaitingOf(buffer, news) = q2 /\ news \in [EventStreams -> Seq(Rows)]
  <2>1. a \in Seq(Rows) /\ c \in Seq(Rows)
    <3>1. <<>> \in Seq(Rows) /\ \A row \in Rows : <<row>> \in Seq(Rows)
      BY EmptySeq
    <3> QED BY <1>4, <3>1
  <2>2. \A s \in Streams : buffer[s] \o <<>> = buffer[s]
    BY <1>3, ConcatEmptySeq
  <2>3. q = buffer
    BY <1>3, <2>2, StreamsAre DEF WaitingOf
  <2>4. news \in [EventStreams -> Seq(Rows)]
    BY <2>1, StreamsAre
  <2>5. WaitingOf(buffer, news) = q2
    <3> HIDE DEF q
    <3>1. ASSUME NEW s \in Streams PROVE WaitingOf(buffer, news)[s] = q2[s]
      BY <1>3, <1>4, <2>3, StreamsAre DEF WaitingOf
    <3> QED BY <3>1, <1>3, <2>3 DEF WaitingOf
  <2> QED BY <2>4, <2>5
<1> HIDE DEF q, a, c
<1>11. Sound(q1, lost, born1, stored, doubted)
  BY <1>2, <1>4, <1>7, IsRead
<1> HIDE DEF q1, born1
<1>12. Sound(q2, lost, born2, stored, doubted)
  BY <1>4, <1>8, <1>11, IsRead
<1>13. Sound(WaitingOf(buffer, news), lost, born', stored, doubted)
  BY <1>9, <1>10, <1>12
<1>14. Shape' /\ Sound(WaitingOf(buffer', found'), lost', born', stored, doubted)
  BY <1>1, <1>3, <1>10, <1>13, GoesOn
<1> QED BY <1>14 DEF IInv, Look

\* What is in the agent's hands is what waits.
LEMMA InHandWaits ==
  ASSUME IInv, NEW m \in Marks
  PROVE  InHand(m) <=> Waits(WaitingOf(buffer, found), m)
<1> DEFINE q == WaitingOf(buffer, found)
<1>1. /\ buffer \in [Streams -> Seq(Rows)] /\ found \in [EventStreams -> Seq(Rows)]
      /\ Ordered(q, born)
  BY DEF IInv, Shape, Sound
<1>2. m # Plain /\ StreamOf[m] \in Streams
  BY AgentAssumption
<1>3. ASSUME NEW s \in Streams
      PROVE  (\E i \in DOMAIN q[s] : q[s][i] = m)
             <=> m \in Range(buffer[s]) \/ (s \in EventStreams /\ m \in Range(found[s]))
  <2>1. buffer[s] \in Seq(Rows)
    BY <1>1
  <2>2. CASE s = "host"
    <3>1. q[s] = buffer[s] /\ s \notin EventStreams
      BY <2>2, StreamsAre DEF WaitingOf
    <3>2. m \in Range(buffer[s]) <=> \E i \in DOMAIN buffer[s] : buffer[s][i] = m
      BY DEF Range
    <3> HIDE DEF q
    <3> QED BY <3>1, <3>2
  <2>3. CASE s # "host"
    <3>1. s \in EventStreams /\ found[s] \in Seq(Rows) /\ q[s] = buffer[s] \o found[s]
      BY <1>1, <2>3, StreamsAre DEF WaitingOf
    <3>2. Range(buffer[s] \o found[s]) = Range(buffer[s]) \cup Range(found[s])
      BY <2>1, <3>1, RangeConcatenation
    <3>3. m \in Range(q[s]) <=> \E i \in DOMAIN q[s] : q[s][i] = m
      BY DEF Range
    <3> HIDE DEF q
    <3> QED BY <3>1, <3>2, <3>3
  <2> QED BY <2>2, <2>3
<1>4. \A s \in Streams : (\E i \in DOMAIN q[s] : q[s][i] = m) => s = StreamOf[m]
  BY <1>1, <1>2 DEF Ordered
<1>5. EventStreams \subseteq Streams
  BY StreamsAre
<1> HIDE DEF q
<1>6. InHand(m) <=> \E s \in Streams :
                      m \in Range(buffer[s]) \/ (s \in EventStreams /\ m \in Range(found[s]))
  BY <1>5 DEF InHand, EventStreams
<1> QED BY <1>2, <1>3, <1>4, <1>6 DEF Waits, q

\* A new process has nothing: what waited is lost.
LEMMA Restarts == ASSUME IInv, Restart PROVE IInv'
<1> DEFINE q == WaitingOf(buffer, found)
           p == WaitingOf(buffer', found')
<1>1. Shape /\ Sound(q, lost, born, stored, doubted)
  BY DEF IInv
<1>2. Shape'
  BY EmptySeq DEF Restart, Shape, EventStreams
<1>3. p = [s \in Streams |-> <<>>]
  <2>1. <<>> \o <<>> = <<>>
    BY EmptySeq, ConcatEmptySeq
  <2> QED BY <2>1, StreamsAre DEF Restart, WaitingOf, EventStreams
<1>4. lost \subseteq lost' /\ born' = born /\ stored' = stored /\ doubted' = doubted
  BY DEF Restart
<1>5. \A m \in Marks : Waits(q, m) => m \in lost'
  <2> SUFFICES ASSUME NEW m \in Marks, Waits(q, m) PROVE m \in lost'
    OBVIOUS
  <2>1. InHand(m) /\ m # Plain
    BY InHandWaits, RowsAre
  <2>2. CASE \E s \in Streams : m \in Range(buffer[s])
    <3>1. PICK s \in Streams : m \in MarksIn(buffer[s])
      BY <2>1, <2>2 DEF MarksIn
    <3>2. MarksIn(buffer[s]) \in {MarksIn(buffer[r]) : r \in Streams}
      OBVIOUS
    <3> QED BY <3>1, <3>2 DEF Restart
  <2>3. CASE \E s \in Range(Events) : m \in Range(found[s])
    <3>1. PICK s \in Range(Events) : m \in MarksIn(found[s])
      BY <2>1, <2>3 DEF MarksIn
    <3>2. MarksIn(found[s]) \in {MarksIn(found[r]) : r \in Range(Events)}
      OBVIOUS
    <3> QED BY <3>1, <3>2 DEF Restart
  <2> QED BY <2>1, <2>2, <2>3 DEF InHand
<1>6. DOMAIN <<>> = {}
  OBVIOUS
<1> HIDE DEF q, p
<1>7. Types(p, born', stored')
  BY <1>1, <1>3, <1>4, EmptySeq DEF Sound, Types
<1>8. Ordered(p, born') /\ ReadInOrder(born')
  BY <1>1, <1>3, <1>4, <1>6 DEF Ordered, Sound, ReadInOrder
<1>9. \A m \in Marks : ~Waits(p, m)
  BY <1>3, <1>6, AgentAssumption DEF Waits
<1>10. Traced(p, lost', born', stored', doubted')
  BY <1>1, <1>4, <1>5, <1>9 DEF Sound, Traced
<1>11. StoredInOrder(lost', stored')
  BY <1>1, <1>4 DEF Sound, StoredInOrder
<1> QED BY <1>2, <1>7, <1>8, <1>10, <1>11 DEF IInv, Sound, p

\* Any other step leaves the rows alone, and does not lead into a request.
LEMMA LeavesRowsAlone ==
  ASSUME IInv, UNCHANGED <<at, batch, found, buffer, ghosts>>,
         \/ pc' = pc
         \/ pc = "token" /\ pc' = "post"
         \/ pc \notin {"token", "post"} /\ pc' \notin {"token", "post"}
  PROVE  IInv'
<1>1. Shape' /\ Sound(WaitingOf(buffer, found), lost, born, stored, doubted)
  BY DEF IInv, Shape
<1> QED BY <1>1 DEF IInv, ghosts

-----------------------------------------------------------------------------
LEMMA Steps == ASSUME IInv, Next PROVE IInv'
<1> USE DEF loop, ages, world, ghosts
<1>1. CASE Collect
  BY <1>1, Collects
<1>2. CASE CollectThrows
  BY <1>2, LeavesRowsAlone DEF CollectThrows
<1>3. CASE TokenRead
  BY <1>3, LeavesRowsAlone DEF TokenRead
<1>4. CASE TokenMissing
  BY <1>4, KeepsAll DEF TokenMissing
<1>5. CASE Taken
  <2>1. lost \subseteq lost
    OBVIOUS
  <2> QED BY <1>5, <2>1, SendsAndForgets DEF Taken
<1>6. CASE Refused
  <2>1. /\ lost \subseteq lost \cup MarksIn(Travelling)
        /\ MarksIn(Travelling) \subseteq lost \cup MarksIn(Travelling)
    OBVIOUS
  <2> QED BY <1>6, <2>1, SendsAndForgets DEF Refused
<1>7. CASE Busy
  BY <1>7, SendsAndKeeps DEF Busy
<1>8. CASE Broken
  BY <1>8, SendsAndKeeps DEF Broken
<1>9. CASE NoAnswer
  BY <1>9, KeepsAll DEF NoAnswer
<1>10. CASE ShoutEnds
  BY <1>10, LeavesRowsAlone DEF ShoutEnds, StartSessions
<1>11. CASE Look
  BY <1>11, Looks
<1>12. CASE Snapshot
  BY <1>12, LeavesRowsAlone DEF Snapshot
<1>13. CASE Wake
  BY <1>13, LeavesRowsAlone DEF Wake
<1>14. CASE Hang
  BY <1>14, LeavesRowsAlone DEF Hang
<1>15. CASE Signal
  BY <1>15, LeavesRowsAlone DEF Signal
<1>16. CASE Restart
  BY <1>16, Restarts
<1>17. CASE GoesDown
  BY <1>17, LeavesRowsAlone DEF GoesDown
<1>18. CASE ComesUp
  BY <1>18, LeavesRowsAlone DEF ComesUp
<1> QED BY <1>1, <1>2, <1>3, <1>4, <1>5, <1>6, <1>7, <1>8, <1>9, <1>10, <1>11, <1>12,
           <1>13, <1>14, <1>15, <1>16, <1>17, <1>18 DEF Next, Cycle, Answer

\* A row that was read is in the agent's hands until the server has stored or refused
\* it, or a full buffer or a new process has lost it; it is stored twice only after a
\* request that did not end well, and in the order of reading (#send and flush of
\* agent/src/sender.ts).
THEOREM RowsAreAccountedFor == Spec => []Accounted
<1>1. IInv /\ [Next]_vars => IInv'
  <2> SUFFICES ASSUME IInv, [Next]_vars PROVE IInv'
    OBVIOUS
  <2>1. CASE Next
    BY <2>1, Steps
  <2>2. CASE UNCHANGED vars
    BY <2>2, LeavesRowsAlone DEF vars, loop
  <2> QED BY <2>1, <2>2
<1>2. IInv => Accounted
  BY InHandWaits DEF IInv, Sound, Traced, StoredInOrder, Accounted
<1> QED BY Initially, <1>1, <1>2, PTL DEF Spec

-----------------------------------------------------------------------------
(* The witness: what a shout says of the server.                           *)

\* The server is up and the agent has yet to ask it in this cycle.
BeforeAnswer ==
  \/ pc \in {"collect", "ended"}
  \/ pc \in {"token", "post"} /\ at = "host"

\* Unless something else went wrong since, the last contact is one interval
\* further back than the outage, at the most, and while the server is up it is
\* of this cycle or of the one before.
Patient ==
  /\ sinceContact \in 0 .. AFTER /\ downFor \in 0 .. AFTER
  /\ up => downFor = 0
  /\ ~excused =>
       /\ sinceContact <= downFor + 1
       /\ up /\ ~BeforeAnswer => sinceContact = 0

ShoutIsTrue == pc # "shout" /\ pc' = "shout" /\ ~excused' => downFor + 1 >= AFTER

\* What an attempt to send (flush() and witness.check()) does to the two ages: it
\* ends the wait for the server only when the server was reached, and finds an
\* excuse when a server that is up was not.
LEMMA AttemptEnds ==
  ASSUME Patient, pc \in {"token", "post"}, UNCHANGED world,
         NEW b, NEW gone, NEW reached \in BOOLEAN, NEW odd \in BOOLEAN,
         FlushEnds(b, gone, reached, odd), reached \/ odd \/ ~up
  PROVE  Patient' /\ ShoutIsTrue
<1> USE DEF Patient, world
<1>0. AFTER \in Nat \ {0}
  BY AgentAssumption
<1>1. CASE at = "host"
  <2>1. /\ excused' = (~reached /\ (excused \/ odd))
        /\ sinceContact' = IF reached THEN 0 ELSE sinceContact
        /\ pc' = "shout" => ~reached /\ sinceContact >= AFTER
        /\ pc' \in {"shout", "delay", "look"}
    <3>1. Witnessed(reached, odd)
      BY <1>1 DEF FlushEnds
    <3>2. sinceContact \in Nat /\ AFTER \in Nat
      BY <1>0
    <3>3. excused' = (~reached /\ (excused \/ odd))
      BY <3>1 DEF Witnessed
    <3>4. sinceContact' = IF reached THEN 0 ELSE sinceContact
      BY <3>1 DEF Witnessed
    <3>5. pc' \in {"shout", "delay", "look"}
      BY <3>1 DEF Witnessed, StartSessions
    <3>6. pc' = "shout" => ~reached /\ sinceContact >= AFTER
      BY <3>1, <3>2 DEF Witnessed, StartSessions, Unreachable
    <3> QED BY <3>3, <3>4, <3>5, <3>6
  <2>2. Patient'
    <3>1. CASE reached
      <4>1. sinceContact' = 0
        BY <2>1, <3>1
      <4> QED BY <1>0, <4>1
    <3>2. CASE ~reached /\ odd
      <4>1. excused' /\ sinceContact' = sinceContact
        BY <2>1, <3>2
      <4> QED BY <4>1
    <3>3. CASE ~reached /\ ~up
      <4>1. /\ excused \/ odd => excused'
            /\ sinceContact' = sinceContact
        BY <2>1, <3>3
      <4> QED BY <3>3, <4>1
    <3> QED BY <3>1, <3>2, <3>3
  <2>3. ShoutIsTrue
    <3> SUFFICES ASSUME pc' = "shout", ~excused' PROVE downFor + 1 >= AFTER
      BY DEF ShoutIsTrue
    <3>1. ~reached /\ sinceContact >= AFTER
      BY <2>1
    <3>2. excused => excused'
      BY <2>1, <3>1
    <3>3. sinceContact <= downFor + 1
      BY <3>2
    <3> QED BY <1>0, <3>1, <3>3
  <2> QED BY <2>2, <2>3
<1>2. CASE at # "host"
  <2>1. /\ UNCHANGED <<sinceContact, excused>>
        /\ pc' \in {"snapshot", "token"}
    BY <1>2 DEF FlushEnds, Onward, Flush, ages
  <2>2. ~BeforeAnswer
    BY <1>2 DEF BeforeAnswer
  <2> QED BY <2>1, <2>2 DEF ShoutIsTrue
<1> QED BY <1>1, <1>2

\* Every step keeps the ages honest, and a shout finds them so.
LEMMA PatientStep == ASSUME Patient, [Next]_vars PROVE Patient' /\ ShoutIsTrue
<1> USE DEF Patient, loop, ages, world, BeforeAnswer, ShoutIsTrue
<1>0. AFTER \in Nat \ {0}
  BY AgentAssumption
<1>1. CASE Collect
  BY <1>1 DEF Collect, Flush
<1>2. CASE CollectThrows
  BY <1>2 DEF CollectThrows
<1>3. CASE TokenRead
  BY <1>3 DEF TokenRead
<1>4. CASE TokenMissing
  BY <1>4, AttemptEnds DEF TokenMissing
<1>5. CASE Answer
  BY <1>5, AttemptEnds DEF Answer, Taken, Refused, Busy, Broken, NoAnswer
<1>6. CASE ShoutEnds
  BY <1>6 DEF ShoutEnds, StartSessions
<1>7. CASE Look
  <2>1. pc = "look" /\ pc' \in {"snapshot", "token"} /\ UNCHANGED <<ages, world, excused>>
    BY <1>7 DEF Look, Onward, Flush
  <2> QED BY <2>1
<1>8. CASE Snapshot
  BY <1>8 DEF Snapshot
<1>9. CASE Wake
  BY <1>0, <1>9 DEF Wake, Passes, Older
<1>10. CASE Hang
  BY <1>0, <1>10 DEF Hang, Passes, Older
<1>11. CASE Signal
  BY <1>11 DEF Signal
<1>12. CASE Restart
  BY <1>0, <1>12 DEF Restart
<1>13. CASE GoesDown
  BY <1>0, <1>13 DEF GoesDown
<1>14. CASE ComesUp
  BY <1>0, <1>14 DEF ComesUp
<1>15. CASE UNCHANGED vars
  BY <1>15 DEF vars
<1> QED BY <1>1, <1>2, <1>3, <1>4, <1>5, <1>6, <1>7, <1>8, <1>9, <1>10, <1>11, <1>12,
           <1>13, <1>14, <1>15 DEF Next, Cycle

\* A shout is of an outage that has lasted AFTER, but for the interval between the
\* last answer and the outage, unless something else went wrong since that answer
\* (check() of agent/src/witness.ts).
THEOREM WitnessTellsTheTruth == Spec => ShoutsAreTrue
<1>1. Init => Patient
  BY AgentAssumption DEF Init, Patient, BeforeAnswer
<1>2. Patient /\ [Next]_vars => Patient'
  BY PatientStep
<1>3. Patient /\ [Next]_vars =>
        [pc # "shout" /\ pc' = "shout" /\ ~excused' => downFor + 1 >= AFTER]_vars
  BY PatientStep DEF ShoutIsTrue
<1> QED BY <1>1, <1>2, <1>3, PTL DEF Spec, ShoutsAreTrue
=============================================================================
