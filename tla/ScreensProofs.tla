---------------------------- MODULE ScreensProofs ----------------------------
(***************************************************************************)
(* Proofs about what a screen shows: of the two ends of the live           *)
(* connection, of the table of a facet and of the screens that poll.  For  *)
(* each its inductive invariant, one lemma to an operation, and what       *)
(* follows; together they are the theorems at the end.                     *)
(***************************************************************************)
EXTENDS MCScreens, FiniteSetTheorems, SequenceTheorems, TLAPS

-----------------------------------------------------------------------------
(* The screen's end of the live connection: the inductive invariant.       *)

Pending == IF retrying THEN 1 ELSE 0

\* Whatever is up will close and have another connect, and so will every timer.
Accounted == Cardinality(L!Up) + Pending + retries <= 1 + hurries

\* While the tab is hidden the screen has let go of its socket and of its timers.
LetsGo ==
  hidden /\ ~disposed =>
    /\ socket = NoSock /\ ~retrying /\ poll = "unset"
    /\ Cardinality(L!Live) + retries <= hurries

\* A screen that is shown has a socket that is up or will be replaced.
WayBack == L!Awake => socket \in Socks /\ (sockets[socket] # "idle" \/ retrying)

\* It polls unless a socket is up; a timer that has fired has its request under way.
FallsBack ==
  /\ L!Awake => poll # "unset" \/ L!Up # {}
  /\ poll = "spent" => fetching > 0

\* What the server knows of its connections.
ServerKnows ==
  /\ told \in [Socks -> Nodes \cup {NoNode}]
  /\ heard \subseteq Socks /\ missed \subseteq Socks

ClientInv == L!TypeOK /\ Accounted /\ LetsGo /\ WayBack /\ FallsBack


-----------------------------------------------------------------------------
(* The screen's end: the steps.                                            *)

\* There are finitely many sockets; those that are up, live or not, are counted alike.
LEMMA ClientCounting ==
  /\ \A S : L!Cardinality(S) = Cardinality(S)
  /\ IsFiniteSet(Socks) /\ NoSock \notin Socks
  /\ MaxHurries \in Nat /\ MaxLates \in Nat
  BY LiveClientAssumption
  DEF L!LiveClientAssumption, L!Cardinality, Cardinality, L!IsFiniteSet, IsFiniteSet

LEMMA UpAndLive ==
  /\ IsFiniteSet(L!Up) /\ Cardinality(L!Up) \in Nat
  /\ IsFiniteSet(L!Live) /\ Cardinality(L!Live) \in Nat
  /\ L!Live \subseteq L!Up /\ Cardinality(L!Live) <= Cardinality(L!Up)
<1>1. IsFiniteSet(L!Up) /\ L!Live \subseteq L!Up
  BY ClientCounting, FS_Subset DEF L!Up, L!Live, L!Alive
<1> QED
  BY <1>1, FS_Subset, FS_CardinalityType

\* One up and one pending less, or one pending less.
LEMMA Sums ==
  \A up, up2, p, p2, r, r2, h \in Nat :
    up + p + r <= 1 + h /\ p + r = p2 + r2 + 1 /\ up2 \in {up, up + 1} =>
      up2 + p2 + r2 <= 1 + h
  OBVIOUS

LEMMA Pends == Pending \in {0, 1} /\ (retrying => Pending = 1) /\ (~retrying => Pending = 0)
  BY DEF Pending

\* A screen is mounted.
LEMMA ClientStarts == ASSUME L!Init PROVE ClientInv
<1>1. L!TypeOK
  <2>1. socket \in Socks \cup {NoSock} /\ hidden \in BOOLEAN
    BY DEF L!Init
  <2>2. sockets \in [Socks -> {"idle", "connecting", "open", "closing"}]
    BY DEF L!Init
  <2>3. hurries \in 0 .. MaxHurries /\ lates \in 0 .. MaxLates
    BY ClientCounting DEF L!Init
  <2> QED
    BY <2>1, <2>2, <2>3 DEF L!Init, L!TypeOK
<1>2. CASE hidden
  <2>1. L!Up = {} /\ socket = NoSock
    BY <1>2, ClientCounting DEF L!Init, L!Up
  <2>2. Cardinality(L!Up) = 0 /\ Cardinality(L!Live) = 0
    BY <2>1, UpAndLive, FS_EmptySet
  <2>3. Accounted /\ LetsGo
    BY <2>1, <2>2, Pends DEF L!Init, Accounted, LetsGo
  <2>4. WayBack /\ FallsBack
    BY <1>2 DEF L!Init, WayBack, FallsBack, L!Awake
  <2> QED
    BY <1>1, <2>3, <2>4 DEF ClientInv
<1>3. CASE ~hidden
  <2>1. socket \in Socks /\ L!Up = {socket}
    BY <1>3 DEF L!Init, L!Up
  <2>2. Cardinality(L!Up) = 1
    BY <2>1, FS_Singleton
  <2>3. Accounted /\ LetsGo
    BY <1>3, <2>2, Pends DEF L!Init, Accounted, LetsGo
  <2>4. WayBack /\ FallsBack
    BY <2>1 DEF L!Init, L!Up, WayBack, FallsBack
  <2> QED
    BY <1>1, <2>3, <2>4 DEF ClientInv
<1> QED
  BY <1>2, <1>3

\* What the server knows stays what it was, or it is told, or forgets.
LEMMA ServerStays ==
  ASSUME ClientInv, UNCHANGED <<heard, told, missed>> PROVE ServerKnows'
  BY DEF ClientInv, L!TypeOK, ServerKnows

LEMMA ServerIsTold ==
  ASSUME ClientInv, NEW w \in Nodes \cup {NoNode}, NEW now, NEW opened,
         L!Informed(w, now, ref, opened)
  PROVE  ServerKnows'
<1>1. CASE UNCHANGED <<heard, told, missed>>
  BY <1>1, ServerStays
<1>2. CASE ref # NoSock /\ L!Sent(w, ref)
  <2>1. ref \in Socks
    BY <1>2 DEF ClientInv, L!TypeOK
  <2> QED
    BY <1>2, <2>1 DEF L!Sent, ClientInv, L!TypeOK, ServerKnows
<1> QED
  BY <1>1, <1>2 DEF L!Informed

LEMMA ServerForgets ==
  ASSUME ClientInv, NEW gone, L!Forgets(gone) PROVE ServerKnows'
  BY DEF L!Forgets, ClientInv, L!TypeOK, ServerKnows

\* A socket more is up.
LEMMA OneMoreUp ==
  ASSUME L!TypeOK, NEW s \in Socks, L!Connect(s)
  PROVE  /\ sockets' \in [Socks -> {"idle", "connecting", "open", "closing"}]
         /\ socket' = s /\ ref' = s /\ sockets'[s] # "idle" /\ L!Up' # {}
         /\ ServerKnows'
         /\ UNCHANGED <<watch, connected>>
         /\ Cardinality(L!Up') = Cardinality(L!Up) + 1 /\ Cardinality(L!Up') \in Nat
<1>1. /\ sockets' \in [Socks -> {"idle", "connecting", "open", "closing"}]
      /\ socket' = s /\ ref' = s /\ sockets'[s] # "idle"
      /\ ServerKnows'
      /\ UNCHANGED <<watch, connected>>
  BY DEF L!Connect, L!TypeOK, L!view, ServerKnows
<1>2. L!Up' = L!Up \cup {s} /\ s \notin L!Up
  BY DEF L!Connect, L!TypeOK, L!Up
<1>3. Cardinality(L!Up \cup {s}) = Cardinality(L!Up) + 1
  BY <1>2, UpAndLive, FS_AddElement
<1>4. Cardinality(L!Up) + 1 \in Nat
  BY UpAndLive
<1>5. L!Up' # {} /\ Cardinality(L!Up') = Cardinality(L!Up) + 1 /\ Cardinality(L!Up') \in Nat
  <2> HIDE DEF L!Up
  <2> QED
    BY <1>2, <1>3, <1>4
<1> QED
  BY <1>1, <1>5

\* A timer fires that was to connect.
LEMMA Reconnects ==
  ASSUME ClientInv, L!RetryFires \/ L!StrayRetryFires
  PROVE  ClientInv'
<1>0. retrying' \in BOOLEAN
  BY DEF L!RetryFires, L!StrayRetryFires, ClientInv, L!TypeOK
<1>1. /\ UNCHANGED <<hidden, disposed, poll, polls, fetching, hurries, lates>>
      /\ retries' \in Nat /\ (retrying' => retrying)
      /\ Pending + retries = Pending' + retries' + 1
      /\ retries' <= retries
      /\ L!ConnectOrNot
  <2>1. CASE L!RetryFires
    <3>1. /\ UNCHANGED <<hidden, disposed, poll, polls, fetching, hurries, lates, retries>>
          /\ retrying /\ retrying' = FALSE /\ L!ConnectOrNot
      BY <2>1 DEF L!RetryFires, L!page
    <3>2. Pending = 1 /\ Pending' = 0 /\ retries \in Nat
      BY <3>1 DEF Pending, ClientInv, L!TypeOK
    <3> QED
      BY <3>1, <3>2
  <2>2. CASE L!StrayRetryFires
    BY <2>2, Pends DEF L!StrayRetryFires, L!page, ClientInv, L!TypeOK, Pending
  <2> QED
    BY <2>1, <2>2
<1>2. CASE L!Awake
  <2>1. PICK s \in Socks : L!Connect(s)
    BY <1>1, <1>2 DEF L!ConnectOrNot, L!Connects
  <2>2. L!TypeOK'
    BY <1>0, <1>1, <1>2, <2>1, OneMoreUp DEF ClientInv, L!TypeOK, L!Awake, ServerKnows
  <2>3. Accounted'
    <3>1. Cardinality(L!Up') = Cardinality(L!Up) + 1 /\ Cardinality(L!Up') \in Nat
      BY <2>1, OneMoreUp DEF ClientInv
    <3>2. /\ Pending \in Nat /\ retries \in Nat /\ Pending' \in Nat /\ retries' \in Nat
          /\ hurries \in Nat /\ Cardinality(L!Up) \in Nat
      BY <1>1, Pends, UpAndLive DEF ClientInv, L!TypeOK, Pending
    <3>3. Cardinality(L!Up) + Pending + retries <= 1 + hurries
      BY DEF ClientInv, Accounted
    <3>4. Cardinality(L!Up') + Pending' + retries' <= 1 + hurries
      BY <1>1, <3>1, <3>2, <3>3, Sums
    <3> QED
      BY <1>1, <3>4 DEF Accounted
  <2>4. LetsGo'
    BY <1>1, <1>2 DEF LetsGo, L!Awake
  <2>5. WayBack' /\ FallsBack'
    BY <1>1, <2>1, OneMoreUp DEF ClientInv, WayBack, FallsBack
  <2> QED
    BY <2>2, <2>3, <2>4, <2>5 DEF ClientInv
<1>3. CASE ~L!Awake
  <2>1. UNCHANGED <<sockets, socket, ref, watch, connected, heard, told, missed>>
    BY <1>1, <1>3 DEF L!ConnectOrNot, L!Connects, L!view
  <2>2. L!TypeOK'
    BY <1>0, <1>1, <2>1 DEF ClientInv, L!TypeOK
  <2>3. L!Up' = L!Up /\ L!Live' = L!Live /\ ~L!Awake'
    BY <1>1, <1>3, <2>1 DEF L!Up, L!Live, L!Alive, L!Awake
  <2>4. /\ Pending \in Nat /\ retries \in Nat /\ Pending' \in Nat /\ retries' \in Nat
        /\ hurries \in Nat /\ Cardinality(L!Up) \in Nat /\ Cardinality(L!Live) \in Nat
    BY <1>1, Pends, UpAndLive DEF ClientInv, L!TypeOK, Pending
  <2>5. Accounted'
    <3>1. Cardinality(L!Up) + Pending + retries <= 1 + hurries
      BY DEF ClientInv, Accounted
    <3>2. Cardinality(L!Up') + Pending' + retries' <= 1 + hurries'
      BY <1>1, <2>3, <2>4, <3>1, Sums
    <3> QED
      BY <3>2 DEF Accounted
  <2>6. LetsGo'
    BY <1>1, <2>1, <2>3, <2>4 DEF ClientInv, LetsGo
  <2>7. WayBack' /\ FallsBack'
    BY <1>1, <2>3 DEF ClientInv, WayBack, FallsBack
  <2> QED
    BY <2>2, <2>5, <2>6, <2>7 DEF ClientInv
<1> QED
  BY <1>2, <1>3

\* A poll goes on: its timer fires, or its answer is there.
LEMMA PollsOn ==
  ASSUME ClientInv, L!PollFires \/ L!StrayPollFires \/ L!Fetched
  PROVE  ClientInv'
<1>1. UNCHANGED <<sockets, socket, ref, hidden, disposed, retrying, retries, watch, connected,
                  heard, told, missed, hurries, lates>>
  BY DEF L!PollFires, L!StrayPollFires, L!Fetched, L!page, L!view
<1>2. /\ fetching' \in Nat /\ polls' \in Nat /\ poll' \in {"unset", "pending", "spent"}
      /\ disposed => poll' = "unset"
      /\ hidden /\ ~disposed => poll' = "unset"
      /\ poll' = "spent" => fetching' > 0
      /\ poll' = "unset" => poll = "unset"
  <2>1. CASE L!PollFires
    BY <2>1 DEF L!PollFires, ClientInv, L!TypeOK, LetsGo, FallsBack
  <2>2. CASE L!StrayPollFires
    BY <2>2 DEF L!StrayPollFires, ClientInv, L!TypeOK, LetsGo, FallsBack
  <2>3. CASE L!Fetched
    BY <2>3 DEF L!Fetched, L!SchedulePoll, L!GoesOn, L!Awake, ClientInv, L!TypeOK, LetsGo, FallsBack
  <2> QED
    BY <2>1, <2>2, <2>3
<1>3. L!TypeOK'
  BY <1>1, <1>2 DEF ClientInv, L!TypeOK
<1>4. L!Up' = L!Up /\ L!Live' = L!Live /\ L!Awake' = L!Awake /\ Pending' = Pending
  BY <1>1 DEF L!Up, L!Live, L!Alive, L!Awake, Pending
<1>5. Accounted' /\ LetsGo' /\ WayBack'
  BY <1>1, <1>2, <1>4 DEF ClientInv, Accounted, LetsGo, WayBack
<1>6. FallsBack'
  BY <1>2, <1>4 DEF ClientInv, FallsBack
<1> QED
  BY <1>3, <1>5, <1>6 DEF ClientInv

\* A socket opens, which ends the polling.
LEMMA Opens == ASSUME ClientInv, NEW s \in Socks, L!Opened(s) PROVE ClientInv'
<1>1. /\ sockets[s] = "connecting" /\ sockets' = [sockets EXCEPT ![s] = "open"]
      /\ poll' = "unset" /\ connected' = TRUE
      /\ UNCHANGED <<socket, ref, hidden, disposed, retrying, retries, polls, fetching, watch,
                     hurries>>
  BY DEF L!Opened, L!StopPolling, L!Stopped, L!page
<1>2. lates' \in 0 .. MaxLates
  BY ClientCounting DEF L!Opened, L!StopPolling, ClientInv, L!TypeOK
<1>3. ServerKnows'
  <2>1. watch \in Nodes \cup {NoNode}
    BY DEF ClientInv, L!TypeOK
  <2> QED
    BY <2>1, ServerIsTold DEF L!Opened
<1>4. L!TypeOK'
  BY <1>1, <1>2, <1>3 DEF ClientInv, L!TypeOK, ServerKnows
<1>5. L!Up' = L!Up /\ L!Live' = L!Live /\ L!Awake' = L!Awake /\ Pending' = Pending /\ s \in L!Up
  BY <1>1 DEF ClientInv, L!TypeOK, L!Up, L!Live, L!Alive, L!Awake, Pending
<1>6. Accounted' /\ LetsGo'
  BY <1>1, <1>5 DEF ClientInv, Accounted, LetsGo
<1>7. WayBack' /\ FallsBack'
  BY <1>1, <1>5 DEF ClientInv, L!TypeOK, WayBack, FallsBack
<1> QED
  BY <1>4, <1>6, <1>7 DEF ClientInv

\* A frame comes, the server listens, another node is looked at, or an unmounted screen's tab is shown.
LEMMA OnlyTheView ==
  ASSUME ClientInv, \/ \E s \in Socks : L!Frame(s) \/ L!Attached(s)
                    \/ \E n \in Nodes \cup {NoNode} : L!Navigate(n)
                    \/ L!Unheard
  PROVE  ClientInv'
<1>1. /\ UNCHANGED <<sockets, socket, ref, disposed, retrying, retries, poll, polls, fetching,
                     hurries, lates>>
      /\ hidden' = hidden \/ disposed
      /\ hidden' \in BOOLEAN
  BY DEF L!Frame, L!Attached, L!Navigate, L!Unheard, L!page, L!timers, ClientInv, L!TypeOK
<1>2. /\ connected' \in BOOLEAN /\ watch' \in Nodes \cup {NoNode}
      /\ ServerKnows'
  <2>1. watch \in Nodes \cup {NoNode} /\ connected \in BOOLEAN
    BY DEF ClientInv, L!TypeOK
  <2>2. CASE \E s \in Socks : L!Frame(s)
    BY <2>1, <2>2, ServerIsTold DEF L!Frame
  <2>3. CASE \E s \in Socks : L!Attached(s)
    BY <2>1, <2>3 DEF L!Attached, ClientInv, L!TypeOK, ServerKnows
  <2>4. CASE \E n \in Nodes \cup {NoNode} : L!Navigate(n)
    BY <2>1, <2>4, ServerIsTold DEF L!Navigate
  <2>5. CASE L!Unheard
    BY <2>1, <2>5, ServerStays DEF L!Unheard, L!view
  <2> QED
    BY <2>2, <2>3, <2>4, <2>5
<1>3. L!TypeOK'
  BY <1>1, <1>2 DEF ClientInv, L!TypeOK, ServerKnows
<1>4. L!Up' = L!Up /\ L!Live' = L!Live /\ (L!Awake' => L!Awake) /\ Pending' = Pending
  BY <1>1 DEF L!Up, L!Live, L!Alive, L!Awake, Pending
<1>5. Accounted' /\ LetsGo' /\ WayBack' /\ FallsBack'
  BY <1>1, <1>4 DEF ClientInv, Accounted, LetsGo, WayBack, FallsBack
<1> QED
  BY <1>3, <1>5 DEF ClientInv

\* A socket has closed: a screen that is shown polls and will connect again.
LEMMA AfterClose ==
  ASSUME ClientInv, NEW s \in Socks, sockets[s] # "idle", sockets'[s] = "idle",
         sockets' \in [Socks -> {"idle", "connecting", "open", "closing"}],
         \A t \in Socks \ {s} : /\ sockets'[t] = "idle" <=> sockets[t] = "idle"
                               /\ sockets'[t] \in {sockets[t], "idle", "closing"},
         NEW gone, L!Forgets(gone), L!Retry
  PROVE  ClientInv'
<1>1. /\ connected' = FALSE /\ L!StartPolling
      /\ UNCHANGED <<socket, ref, hidden, disposed, fetching, watch, hurries, lates>>
  BY DEF L!Retry, L!page
<1>2. /\ L!Awake => retrying' = TRUE /\ retries' = IF retrying THEN retries + 1 ELSE retries
      /\ ~L!Awake => retrying' = retrying /\ retries' = retries
  BY DEF L!Retry, L!RetryAllowed
<1>3. /\ L!Awake => poll' # "unset"
      /\ ~L!Awake => poll' = poll
      /\ poll' = "spent" => poll = "spent"
      /\ poll' \in {"unset", "pending", "spent"} /\ polls' \in Nat
  BY <1>1 DEF L!StartPolling, L!MayPoll, L!SchedulePoll, L!GoesOn, ClientInv, L!TypeOK
<1>4. L!Awake' = L!Awake
  BY <1>1 DEF L!Awake
<1>5. retrying' \in BOOLEAN
  BY <1>2 DEF ClientInv, L!TypeOK
<1>6. retries' \in Nat
  BY <1>2 DEF ClientInv, L!TypeOK
<1>7. L!TypeOK'
  <2>1. disposed' => ref' = NoSock /\ ~retrying' /\ poll' = "unset"
    BY <1>1, <1>2, <1>3 DEF ClientInv, L!TypeOK, L!Awake
  <2>2. connected' \in BOOLEAN
    BY <1>1
  <2>3. /\ socket' \in Socks \cup {NoSock} /\ ref' \in Socks \cup {NoSock}
        /\ hidden' \in BOOLEAN /\ disposed' \in BOOLEAN
    BY <1>1 DEF ClientInv, L!TypeOK
  <2>4. /\ fetching' \in Nat /\ watch' \in Nodes \cup {NoNode}
        /\ hurries' \in 0 .. MaxHurries /\ lates' \in 0 .. MaxLates
    BY <1>1 DEF ClientInv, L!TypeOK
  <2>5. ServerKnows'
    BY ServerForgets
  <2> QED
    BY <1>3, <1>5, <1>6, <2>1, <2>2, <2>3, <2>4, <2>5 DEF L!TypeOK, ServerKnows
<1>8. /\ L!Up' = L!Up \ {s} /\ s \in L!Up
      /\ L!Live' \subseteq L!Live
  BY DEF L!Up, L!Live, L!Alive, ClientInv, L!TypeOK
<1>9. /\ Cardinality(L!Up) = Cardinality(L!Up') + 1
      /\ Cardinality(L!Live') <= Cardinality(L!Live)
      /\ Cardinality(L!Up') \in Nat /\ Cardinality(L!Live') \in Nat
  BY <1>8, UpAndLive, FS_RemoveElement, FS_Subset, FS_CardinalityType
<1>10. Accounted'
  <2>1. Pending' + retries' <= Pending + retries + 1
    <3>1. CASE L!Awake /\ retrying
      BY <1>2, <3>1, Pends DEF Pending, ClientInv, L!TypeOK
    <3>2. CASE L!Awake /\ ~retrying
      BY <1>2, <3>2, Pends DEF Pending, ClientInv, L!TypeOK
    <3>3. CASE ~L!Awake
      BY <1>2, <3>3, Pends DEF Pending, ClientInv, L!TypeOK
    <3> QED
      BY <3>1, <3>2, <3>3
  <2>2. Pending \in Nat /\ Pending' \in Nat /\ retries \in Nat /\ hurries \in Nat
    BY Pends DEF Pending, ClientInv, L!TypeOK
  <2>3. Cardinality(L!Up) + Pending + retries <= 1 + hurries
    BY DEF ClientInv, Accounted
  <2>4. \A up, p, p2, r, r2, h \in Nat :
          (up + 1) + p + r <= 1 + h /\ p2 + r2 <= p + r + 1 => up + p2 + r2 <= 1 + h
    OBVIOUS
  <2>5. Cardinality(L!Up') + Pending' + retries' <= 1 + hurries
    BY <1>6, <1>9, <2>1, <2>2, <2>3, <2>4
  <2> QED
    BY <1>1, <2>5 DEF Accounted
<1>11. LetsGo'
  <2> SUFFICES ASSUME hidden, ~disposed
               PROVE  /\ socket = NoSock /\ ~retrying' /\ poll' = "unset"
                      /\ Cardinality(L!Live') + retries' <= hurries
    BY <1>1 DEF LetsGo
  <2>1. ~L!Awake
    BY DEF L!Awake
  <2>2. /\ socket = NoSock /\ ~retrying /\ poll = "unset"
        /\ Cardinality(L!Live) + retries <= hurries
    BY DEF ClientInv, LetsGo
  <2>3. retries \in Nat /\ hurries \in Nat /\ Cardinality(L!Live) \in Nat
    BY UpAndLive DEF ClientInv, L!TypeOK
  <2> QED
    BY <1>2, <1>3, <1>9, <2>1, <2>2, <2>3
<1>12. WayBack' /\ FallsBack'
  BY <1>1, <1>2, <1>3, <1>4 DEF ClientInv, WayBack, FallsBack
<1> QED
  BY <1>7, <1>10, <1>11, <1>12 DEF ClientInv

\* It closes of itself, or fails, which closes the one that is held.
LEMMA Closes ==
  ASSUME ClientInv, NEW s \in Socks, L!Closed(s) \/ L!Failed(s)
  PROVE  ClientInv'
<1>1. CASE L!Closed(s)
  <2>1. /\ sockets[s] # "idle" /\ sockets'[s] = "idle"
        /\ sockets' \in [Socks -> {"idle", "connecting", "open", "closing"}]
        /\ \A t \in Socks \ {s} : sockets'[t] = sockets[t]
        /\ L!Forgets({s}) /\ L!Retry
    BY <1>1 DEF L!Closed, ClientInv, L!TypeOK
  <2> QED
    BY <2>1, AfterClose
<1>2. CASE L!Failed(s)
  <2>1. /\ sockets[s] # "idle" /\ L!Forgets({s}) /\ L!Retry
        /\ sockets' = [x \in Socks |->
              CASE x = s -> "idle"
                [] x # s /\ x = socket /\ L!Alive(x) -> "closing"
                [] OTHER -> sockets[x]]
    BY <1>2 DEF L!Failed
  <2>2. sockets'[s] = "idle"
    BY <2>1
  <2>3. \A t \in Socks \ {s} :
          sockets'[t] = IF t = socket /\ L!Alive(t) THEN "closing" ELSE sockets[t]
    BY <2>1
  <2>4. \A t \in Socks \ {s} : /\ sockets'[t] = "idle" <=> sockets[t] = "idle"
                              /\ sockets'[t] \in {sockets[t], "idle", "closing"}
    BY <2>3 DEF L!Alive
  <2>5. sockets' \in [Socks -> {"idle", "connecting", "open", "closing"}]
    BY <2>1, <2>2, <2>3 DEF ClientInv, L!TypeOK
  <2> QED
    BY <2>1, <2>2, <2>4, <2>5, AfterClose
<1> QED
  BY <1>1, <1>2

\* The tab is hidden: the socket is let go, and the timers.
LEMMA Hides == ASSUME ClientInv, L!Hide PROVE ClientInv'
<1>1. /\ ~hidden /\ ~disposed /\ hidden' = TRUE /\ poll' = "unset" /\ ~retrying'
      /\ sockets' = [s \in Socks |-> IF s = socket /\ L!Alive(s) THEN "closing" ELSE sockets[s]]
      /\ socket' = NoSock
      /\ UNCHANGED <<ref, disposed, retries, polls, fetching, watch, connected, heard, told,
                     missed, hurries>>
  BY DEF L!Hide, L!StopPolling, L!Stopped, L!TimerKept, L!view
<1>2. lates' \in 0 .. MaxLates
  BY ClientCounting DEF L!Hide, L!StopPolling, ClientInv, L!TypeOK
<1>3. retrying' \in BOOLEAN
  BY DEF L!Hide, L!TimerKept
<1>4. sockets' \in [Socks -> {"idle", "connecting", "open", "closing"}]
  BY <1>1 DEF ClientInv, L!TypeOK
<1>5. L!TypeOK'
  <2>1. /\ socket' \in Socks \cup {NoSock} /\ ref' \in Socks \cup {NoSock}
        /\ hidden' \in BOOLEAN /\ disposed' \in BOOLEAN
        /\ ~disposed'
    BY <1>1 DEF ClientInv, L!TypeOK
  <2>2. /\ retries' \in Nat /\ polls' \in Nat /\ fetching' \in Nat
        /\ poll' \in {"unset", "pending", "spent"}
        /\ watch' \in Nodes \cup {NoNode} /\ connected' \in BOOLEAN
        /\ ServerKnows' /\ hurries' \in 0 .. MaxHurries
    BY <1>1, ServerStays DEF ClientInv, L!TypeOK
  <2> QED
    BY <1>2, <1>3, <1>4, <2>1, <2>2 DEF L!TypeOK, ServerKnows
<1>6. L!Up' = L!Up /\ L!Live' = L!Live \ {socket} /\ ~L!Awake'
  <2>1. \A s \in Socks :
          sockets'[s] = IF s = socket /\ L!Alive(s) THEN "closing" ELSE sockets[s]
    BY <1>1
  <2>2. L!Up' = L!Up
    BY <2>1 DEF L!Up, L!Alive
  <2>3. L!Live' = L!Live \ {socket}
    BY <2>1 DEF L!Live, L!Alive
  <2> QED
    BY <1>1, <2>2, <2>3 DEF L!Awake
<1>7. /\ Pending' = 0 /\ Pending \in Nat /\ retries \in Nat /\ hurries \in Nat
      /\ Cardinality(L!Up) \in Nat /\ Cardinality(L!Live) \in Nat
  BY <1>1, UpAndLive DEF Pending, ClientInv, L!TypeOK
<1>8. Cardinality(L!Up) + Pending + retries <= 1 + hurries
  BY DEF ClientInv, Accounted
<1>9. Accounted'
  <2>1. Cardinality(L!Up) + 0 + retries <= 1 + hurries
    BY <1>7, <1>8
  <2> QED
    BY <1>1, <1>6, <1>7, <2>1 DEF Accounted
<1>10. Cardinality(L!Live \ {socket}) + retries <= hurries
  <2>1. socket \in Socks /\ (sockets[socket] # "idle" \/ retrying)
    BY <1>1 DEF ClientInv, WayBack, L!Awake
  <2>2. CASE sockets[socket] # "idle"
    <3>1. socket \in L!Up /\ L!Live \ {socket} \subseteq L!Up \ {socket}
      BY <2>1, <2>2, UpAndLive DEF L!Up
    <3>2. /\ IsFiniteSet(L!Up \ {socket})
          /\ Cardinality(L!Up \ {socket}) = Cardinality(L!Up) - 1
      BY <3>1, UpAndLive, FS_RemoveElement
    <3>3. Cardinality(L!Live \ {socket}) <= Cardinality(L!Up \ {socket})
      BY <3>1, <3>2, FS_Subset
    <3>4. Cardinality(L!Live \ {socket}) \in Nat
      BY UpAndLive, FS_Subset, FS_CardinalityType
    <3>5. \A up, l, p, r, h \in Nat : up + p + r <= 1 + h /\ l <= up - 1 => l + r <= h
      OBVIOUS
    <3> QED
      BY <1>7, <1>8, <3>2, <3>3, <3>4, <3>5
  <2>3. CASE retrying
    <3>1. Pending = 1
      BY <2>3 DEF Pending
    <3>2. Cardinality(L!Live \ {socket}) <= Cardinality(L!Live)
      BY UpAndLive, FS_Subset
    <3>3. Cardinality(L!Live \ {socket}) \in Nat
      BY UpAndLive, FS_Subset, FS_CardinalityType
    <3>4. \A up, l, m, r, h \in Nat : up + 1 + r <= 1 + h /\ l <= up /\ m <= l => m + r <= h
      OBVIOUS
    <3> QED
      BY <1>7, <1>8, <3>1, <3>2, <3>3, <3>4, UpAndLive
  <2> QED
    BY <2>1, <2>2, <2>3
<1>11. LetsGo'
  BY <1>1, <1>6, <1>10 DEF LetsGo
<1>12. WayBack' /\ FallsBack'
  BY <1>1, <1>6 DEF WayBack, FallsBack
<1> QED
  BY <1>5, <1>9, <1>11, <1>12 DEF ClientInv

\* The tab is shown again: the screen connects, hurried when a socket still closes.
LEMMA Shows == ASSUME ClientInv, L!Show PROVE ClientInv'
<1>1. /\ hidden /\ ~disposed /\ hidden' = FALSE
      /\ UNCHANGED <<disposed, retrying, retries, poll, polls, fetching, lates>>
      /\ socket = NoSock /\ ~retrying /\ poll = "unset"
      /\ Cardinality(L!Live) + retries <= hurries
  BY DEF L!Show, L!timers, ClientInv, LetsGo
<1>2. PICK s \in Socks : L!Connect(s)
  BY <1>1 DEF L!Show, L!Reconnects
<1>3. /\ hurries' \in 0 .. MaxHurries
      /\ \/ hurries' = hurries + 1
         \/ hurries' = hurries /\ L!Up = L!Live
  <2>1. PICK hurried \in BOOLEAN :
          /\ hurried = (\E t \in Socks : sockets[t] = "closing")
          /\ hurried => hurries < MaxHurries
          /\ hurries' = IF hurried THEN hurries + 1 ELSE hurries
    BY DEF L!Show
  <2>2. CASE hurried
    <3>1. hurries < MaxHurries /\ hurries' = hurries + 1
      BY <2>1, <2>2
    <3>2. hurries \in 0 .. MaxHurries
      BY DEF ClientInv, L!TypeOK
    <3> QED
      BY <3>1, <3>2, ClientCounting
  <2>3. CASE ~hurried
    <3>1. \A t \in Socks : sockets[t] # "closing"
      BY <2>1, <2>3
    <3>2. \A t \in Socks : sockets[t] \in {"idle", "connecting", "open", "closing"}
      BY DEF ClientInv, L!TypeOK
    <3>3. L!Up = L!Live
      BY <3>1, <3>2 DEF L!Up, L!Live, L!Alive
    <3> QED
      BY <2>1, <2>3, <3>3 DEF ClientInv, L!TypeOK
  <2> QED
    BY <2>2, <2>3
<1>4. /\ sockets' \in [Socks -> {"idle", "connecting", "open", "closing"}]
      /\ socket' = s /\ ref' = s /\ sockets'[s] # "idle" /\ L!Up' # {}
      /\ ServerKnows'
      /\ UNCHANGED <<watch, connected>>
      /\ Cardinality(L!Up') = Cardinality(L!Up) + 1 /\ Cardinality(L!Up') \in Nat
  BY <1>2, OneMoreUp DEF ClientInv
<1>5. L!TypeOK'
  <2>1. retrying' \in BOOLEAN /\ disposed' \in BOOLEAN /\ connected' \in BOOLEAN
    BY <1>1, <1>4 DEF ClientInv, L!TypeOK
  <2>2. /\ retries' \in Nat /\ polls' \in Nat /\ fetching' \in Nat
        /\ poll' \in {"unset", "pending", "spent"}
        /\ watch' \in Nodes \cup {NoNode} /\ lates' \in 0 .. MaxLates
    BY <1>1, <1>4 DEF ClientInv, L!TypeOK
  <2>3. socket' \in Socks \cup {NoSock} /\ ref' \in Socks \cup {NoSock} /\ hidden' \in BOOLEAN
    BY <1>1, <1>4
  <2> QED
    BY <1>1, <1>3, <1>4, <2>1, <2>2, <2>3 DEF L!TypeOK, ServerKnows
<1>6. /\ Pending' = 0 /\ retries \in Nat /\ hurries \in Nat
      /\ Cardinality(L!Up) \in Nat /\ Cardinality(L!Live) \in Nat
  BY <1>1, UpAndLive DEF Pending, ClientInv, L!TypeOK
<1>7. Cardinality(L!Up) + retries <= 1 + hurries
  <2>1. Cardinality(L!Up) + Pending + retries <= 1 + hurries /\ Pending = 0
    BY <1>1 DEF ClientInv, Accounted, Pending
  <2> QED
    BY <1>6, <2>1
<1>8. Accounted'
  <2>1. CASE hurries' = hurries + 1
    <3>1. (Cardinality(L!Up) + 1) + 0 + retries <= 1 + (hurries + 1)
      BY <1>6, <1>7
    <3> QED
      BY <1>1, <1>4, <1>6, <2>1, <3>1 DEF Accounted
  <2>2. CASE hurries' = hurries /\ L!Up = L!Live
    <3>1. (Cardinality(L!Up) + 1) + 0 + retries <= 1 + hurries
      BY <1>1, <1>6, <2>2
    <3> QED
      BY <1>1, <1>4, <1>6, <2>2, <3>1 DEF Accounted
  <2> QED
    BY <1>3, <2>1, <2>2
<1>9. LetsGo'
  BY <1>1 DEF LetsGo
<1>10. WayBack' /\ FallsBack'
  BY <1>1, <1>4 DEF ClientInv, WayBack, FallsBack
<1> QED
  BY <1>5, <1>8, <1>9, <1>10 DEF ClientInv

\* The screen is unmounted.
LEMMA Disposes == ASSUME ClientInv, L!Dispose PROVE ClientInv'
<1>1. /\ disposed' = TRUE /\ ref' = NoSock /\ ~retrying' /\ poll' = "unset"
      /\ sockets' = [s \in Socks |-> IF s = socket THEN "idle" ELSE sockets[s]]
      /\ UNCHANGED <<socket, hidden, retries, polls, fetching, watch, connected, hurries>>
      /\ L!Forgets({socket})
  BY DEF L!Dispose, L!StopPolling, L!Stopped
<1>2. lates' \in 0 .. MaxLates
  BY ClientCounting DEF L!Dispose, L!StopPolling, ClientInv, L!TypeOK
<1>3. retrying' \in BOOLEAN
  BY DEF L!Dispose
<1>4. sockets' \in [Socks -> {"idle", "connecting", "open", "closing"}]
  BY <1>1 DEF ClientInv, L!TypeOK
<1>5. L!TypeOK'
  <2>1. /\ socket' \in Socks \cup {NoSock} /\ ref' = NoSock
        /\ hidden' \in BOOLEAN /\ disposed' \in BOOLEAN
    BY <1>1 DEF ClientInv, L!TypeOK
  <2>2. /\ retries' \in Nat /\ polls' \in Nat /\ fetching' \in Nat
        /\ poll' \in {"unset", "pending", "spent"}
        /\ watch' \in Nodes \cup {NoNode} /\ connected' \in BOOLEAN
        /\ ServerKnows' /\ hurries' \in 0 .. MaxHurries
    BY <1>1, ServerForgets DEF ClientInv, L!TypeOK
  <2> QED
    BY <1>1, <1>2, <1>3, <1>4, <2>1, <2>2 DEF L!TypeOK, ServerKnows
<1>6. L!Up' \subseteq L!Up /\ ~L!Awake'
  BY <1>1 DEF L!Up, L!Awake
<1>7. Accounted'
  <2>1. Cardinality(L!Up') <= Cardinality(L!Up) /\ Cardinality(L!Up') \in Nat
    BY <1>6, UpAndLive, FS_Subset, FS_CardinalityType
  <2>2. Pending' = 0 /\ Pending \in Nat /\ retries \in Nat /\ hurries \in Nat
    BY <1>1 DEF Pending, ClientInv, L!TypeOK
  <2>3. Cardinality(L!Up) + Pending + retries <= 1 + hurries
    BY DEF ClientInv, Accounted
  <2>4. \A up, up2, p, r, h \in Nat : up + p + r <= 1 + h /\ up2 <= up => up2 + 0 + r <= 1 + h
    OBVIOUS
  <2>5. Cardinality(L!Up') + 0 + retries <= 1 + hurries
    BY <2>1, <2>2, <2>3, <2>4, UpAndLive
  <2> QED
    BY <1>1, <2>2, <2>5 DEF Accounted
<1>8. LetsGo' /\ WayBack' /\ FallsBack'
  BY <1>1, <1>6 DEF LetsGo, WayBack, FallsBack
<1> QED
  BY <1>5, <1>7, <1>8 DEF ClientInv

\* Every step keeps the invariant.
LEMMA ClientStep == ASSUME ClientInv, L!Next PROVE ClientInv'
<1>1. CASE L!Callbacks
  BY <1>1, Reconnects, PollsOn DEF L!Callbacks
<1>2. ASSUME NEW s \in Socks,
             L!Opened(s) \/ L!Attached(s) \/ L!Frame(s) \/ L!Closed(s) \/ L!Failed(s)
      PROVE  ClientInv'
  BY <1>2, Opens, OnlyTheView, Closes
<1>3. CASE L!Hide \/ L!Show \/ L!Dispose
  BY <1>3, Hides, Shows, Disposes
<1>4. CASE L!Unheard \/ \E n \in Nodes \cup {NoNode} : L!Navigate(n)
  BY <1>4, OnlyTheView
<1> QED
  BY <1>1, <1>2, <1>3, <1>4 DEF L!Next

LEMMA ClientStutters == ASSUME ClientInv, UNCHANGED ofClient PROVE ClientInv'
<1>1. UNCHANGED <<sockets, socket, ref, hidden, disposed, retrying, retries, poll, polls, fetching,
                  watch, connected, heard, told, missed, hurries, lates>>
  BY DEF ofClient
<1>2. L!TypeOK'
  BY <1>1 DEF ClientInv, L!TypeOK
<1>3. L!Up' = L!Up /\ L!Live' = L!Live /\ L!Awake' = L!Awake /\ Pending' = Pending
  BY <1>1 DEF L!Up, L!Live, L!Alive, L!Awake, Pending
<1>4. Accounted' /\ LetsGo'
  BY <1>1, <1>3 DEF ClientInv, Accounted, LetsGo
<1>5. WayBack' /\ FallsBack'
  BY <1>1, <1>3 DEF ClientInv, WayBack, FallsBack
<1> QED
  BY <1>2, <1>4, <1>5 DEF ClientInv

\* What is accounted for bounds what is live, and what polls or will connect is the way back.
LEMMA ClientHolds ==
  ASSUME ClientInv
  PROVE  L!TypeOK /\ L!NeverStranded /\ L!OneSocketPerReturn
<1>1. L!TypeOK
  BY DEF ClientInv
<1>2. L!NeverStranded
  <2> SUFFICES ASSUME L!Awake, L!Up = {}
               PROVE  L!Polling /\ (retrying \/ retries > 0)
    BY DEF L!NeverStranded
  <2>1. poll # "unset" /\ (poll = "spent" => fetching > 0)
    BY DEF ClientInv, FallsBack
  <2>2. L!Polling
    BY <2>1 DEF ClientInv, L!TypeOK, L!Polling
  <2>3. retrying
    BY DEF ClientInv, WayBack, L!Up
  <2> QED
    BY <2>2, <2>3
<1>3. L!OneSocketPerReturn
  <2>1. /\ Pending \in Nat /\ retries \in Nat /\ hurries \in Nat
        /\ Cardinality(L!Up) + Pending + retries <= 1 + hurries
    BY DEF ClientInv, L!TypeOK, Accounted, Pending
  <2>2. \A up, l, p, r, h \in Nat : up + p + r <= 1 + h /\ l <= up => l <= 1 + h
    OBVIOUS
  <2>3. Cardinality(L!Live) <= 1 + hurries
    BY <2>1, <2>2, UpAndLive
  <2> QED
    BY <2>3, ClientCounting DEF L!OneSocketPerReturn
<1> QED
  BY <1>1, <1>2, <1>3

-----------------------------------------------------------------------------
(* The server's end of the live connection: the inductive invariant.       *)

\* The sockets that hold a place, or are about to.
Taken == {s \in Peers : stage[s] # "none"}

\* Sockets that arrive one at a time find the places there are.
Capped == ~crowded => Cardinality(Taken) <= MAX_CONNECTIONS

\* A client that was not pinged, or has answered, is alive.
Answering == \A s \in Peers : stage[s] = "client" => s \in asked \/ alive[s]

\* A push that may serve a session that has ended had its answer before.
AnsweredBefore ==
  \A p \in Pushes, s \in Peers :
    G!MayServe(p, s) /\ session[s] \notin sessions => <<p, s>> \in grace

GatewayInv == G!TypeOK /\ Capped /\ Answering /\ AnsweredBefore

\* Finite sets are counted alike, whichever module counts them.
LEMMA GatewayCounting ==
  /\ \A S : G!Cardinality(S) = Cardinality(S)
  /\ IsFiniteSet(Peers) /\ Sids # {} /\ MAX_CONNECTIONS \in Nat \ {0}
  BY LiveGatewayAssumption
  DEF G!LiveGatewayAssumption, G!Cardinality, Cardinality, G!IsFiniteSet, IsFiniteSet

\* Nobody is connected when the process starts.
LEMMA GatewayStarts == ASSUME G!Init PROVE GatewayInv
<1>1. G!TypeOK
  <2>1. (CHOOSE x \in Sids : TRUE) \in Sids
    BY GatewayCounting
  <2>2. session \in [Peers -> Sids]
    BY <2>1 DEF G!Init
  <2> QED
    BY <2>2 DEF G!Init, G!TypeOK, G!Clients
<1>2. Taken = {}
  BY DEF G!Init, Taken
<1>3. Capped
  BY <1>2, GatewayCounting, FS_EmptySet DEF Capped
<1>4. Answering /\ AnsweredBefore
  BY DEF G!Init, Answering, AnsweredBefore, G!MayServe, G!Visits, G!Resting
<1> QED
  BY <1>1, <1>3, <1>4 DEF GatewayInv

\* Unless a socket arrives no more places are taken.
LEMMA NoMoreTaken ==
  ASSUME Capped, crowded' = crowded, \A s \in Peers : stage[s] = "none" => stage'[s] = "none"
  PROVE  Capped'
<1>1. Taken' \subseteq Taken /\ IsFiniteSet(Taken)
  BY GatewayCounting, FS_Subset DEF Taken
<1>2. Cardinality(Taken') <= Cardinality(Taken)
  BY <1>1, FS_Subset
<1>3. Cardinality(Taken) \in Nat /\ Cardinality(Taken') \in Nat
  BY <1>1, FS_Subset, FS_CardinalityType
<1> QED
  BY <1>2, <1>3, GatewayCounting DEF Capped

\* A socket arrives: nobody is at work on it, so that its new session was not asked for.
LEMMA PeerArrives ==
  ASSUME GatewayInv, NEW s \in Peers, NEW x \in Sids, G!Arrive(s, x)
  PROVE  GatewayInv'
<1>1. /\ stage[s] = "none" /\ ~G!InUse(s) /\ ~G!Full
      /\ stage' = [stage EXCEPT ![s] = "checking"] /\ link' = [link EXCEPT ![s] = "open"]
      /\ session' = [session EXCEPT ![s] = x]
      /\ crowded' = (crowded \/ G!Validating # {})
      /\ UNCHANGED <<alive, asked, sessions, pushes, grace>>
  BY DEF G!Arrive
<1>2. G!TypeOK'
  BY <1>1 DEF GatewayInv, G!TypeOK, G!Clients
<1>3. Capped'
  <2> SUFFICES ASSUME ~crowded' PROVE Cardinality(Taken') <= MAX_CONNECTIONS
    BY DEF Capped
  <2>1. Taken = G!Clients /\ Taken' = G!Clients \cup {s} /\ s \notin G!Clients
    BY <1>1 DEF Taken, G!Clients, G!Validating, GatewayInv, G!TypeOK
  <2>2. IsFiniteSet(G!Clients)
    BY GatewayCounting, FS_Subset DEF G!Clients
  <2>3. Cardinality(Taken') = Cardinality(G!Clients) + 1 /\ Cardinality(G!Clients) \in Nat
    BY <2>1, <2>2, FS_AddElement, FS_CardinalityType
  <2>4. ~(Cardinality(G!Clients) >= MAX_CONNECTIONS)
    BY <1>1, GatewayCounting DEF G!Full
  <2> QED
    BY <2>3, <2>4, GatewayCounting
<1>4. Answering'
  BY <1>1 DEF GatewayInv, G!TypeOK, Answering
<1>5. AnsweredBefore'
  <2> SUFFICES ASSUME NEW p \in Pushes, NEW t \in Peers,
                      G!MayServe(p, t)', session'[t] \notin sessions'
               PROVE  <<p, t>> \in grace'
    BY DEF AnsweredBefore
  <2>1. G!MayServe(p, t) /\ t # s
    BY <1>1 DEF G!MayServe, G!Visits, G!InUse
  <2>2. session'[t] = session[t]
    BY <1>1, <2>1 DEF GatewayInv, G!TypeOK
  <2> QED
    BY <1>1, <2>1, <2>2 DEF GatewayInv, AnsweredBefore
<1> QED
  BY <1>2, <1>3, <1>4, <1>5 DEF GatewayInv

\* What touches no push and no session keeps what is known of both.
LEMMA PushesAsTheyWere ==
  ASSUME AnsweredBefore, UNCHANGED <<session, sessions, pushes, grace>>
  PROVE  AnsweredBefore'
  BY DEF AnsweredBefore, G!MayServe, G!Visits

\* A socket is looked at, admitted, turned down, closed or lost, or answers a ping.
LEMMA OneSocket ==
  ASSUME GatewayInv, NEW s \in Peers,
         \/ G!Check(s) \/ G!Admit(s) \/ G!Refuse(s) \/ G!Close(s) \/ G!Lose(s) \/ G!Pong(s)
  PROVE  GatewayInv'
<1>1. UNCHANGED <<session, sessions, pushes, grace, crowded>>
  BY DEF G!Check, G!Admit, G!Refuse, G!Close, G!Lose, G!Pong
<1>2. AnsweredBefore'
  BY <1>1, PushesAsTheyWere DEF GatewayInv
<1>3. /\ \A t \in Peers : stage[t] = "none" => stage'[t] = "none"
      /\ G!TypeOK' /\ Answering'
  <2>1. CASE G!Check(s)
    BY <2>1, <1>1 DEF G!Check, GatewayInv, G!TypeOK, G!Clients, Answering
  <2>2. CASE G!Admit(s)
    BY <2>2, <1>1 DEF G!Admit, GatewayInv, G!TypeOK, G!Clients, Answering
  <2>3. CASE G!Refuse(s)
    BY <2>3, <1>1 DEF G!Refuse, G!Drop, GatewayInv, G!TypeOK, G!Clients, Answering
  <2>4. CASE G!Close(s)
    BY <2>4, <1>1 DEF G!Close, G!OnClose, GatewayInv, G!TypeOK, G!Clients, Answering
  <2>5. CASE G!Lose(s)
    BY <2>5, <1>1 DEF G!Lose, GatewayInv, G!TypeOK, G!Clients, Answering
  <2>6. CASE G!Pong(s)
    BY <2>6, <1>1 DEF G!Pong, G!Answered, GatewayInv, G!TypeOK, G!Clients, Answering
  <2> QED
    BY <2>1, <2>2, <2>3, <2>4, <2>5, <2>6
<1>4. Capped'
  BY <1>1, <1>3, NoMoreTaken DEF GatewayInv
<1> QED
  BY <1>2, <1>3, <1>4 DEF GatewayInv

\* A push begins or ends: it has no answer.
LEMMA PushesTurn ==
  ASSUME GatewayInv, NEW p \in Pushes, G!StartPush(p) \/ G!EndPush(p)
  PROVE  GatewayInv'
<1>1. /\ UNCHANGED <<stage, link, session, alive, asked, sessions, grace, crowded>>
      /\ pushes' \in [Pushes -> G!Runs \cup {G!Resting}]
      /\ ~(pushes'[p].run /\ pushes'[p].now.on)
      /\ \A q \in Pushes \ {p} : pushes'[q] = pushes[q]
  <2>1. CASE G!StartPush(p)
    BY <2>1 DEF G!StartPush, G!Push, G!Nobody, G!Clients, G!Runs, G!Answers, GatewayInv, G!TypeOK
  <2>2. CASE G!EndPush(p)
    BY <2>2 DEF G!EndPush, G!Resting, GatewayInv, G!TypeOK
  <2> QED
    BY <2>1, <2>2
<1>2. G!TypeOK' /\ Capped' /\ Answering'
  BY <1>1 DEF GatewayInv, G!TypeOK, G!Clients, Capped, Taken, Answering
<1>3. AnsweredBefore'
  BY <1>1 DEF GatewayInv, AnsweredBefore, G!MayServe, G!Visits
<1> QED
  BY <1>2, <1>3 DEF GatewayInv

\* What a push under way looks like.
LEMMA Running ==
  ASSUME G!TypeOK, NEW p \in Pushes, pushes[p].run
  PROVE  pushes[p] \in G!Runs /\ pushes[p].todo \in SUBSET Peers
<1>1. ~G!Resting.run
  BY DEF G!Resting
<1>2. pushes[p] \in G!Runs
  BY <1>1 DEF G!TypeOK
<1> QED
  BY <1>2 DEF G!Runs

\* The sessions table answers, with what is in it.
LEMMA TableAnswers ==
  ASSUME GatewayInv, NEW p \in Pushes, NEW s \in Peers, G!Read(p, s)
  PROVE  GatewayInv'
<1>1. PICK ok \in BOOLEAN : ok = (session[s] \in sessions)
  <2>1. CASE session[s] \in sessions
    <3>1. TRUE = (session[s] \in sessions)
      BY <2>1
    <3> QED
      BY <3>1
  <2>2. CASE session[s] \notin sessions
    <3>1. FALSE = (session[s] \in sessions)
      BY <2>2
    <3> QED
      BY <3>1
  <2> QED
    BY <2>1, <2>2
<1>2. G!Validated(s) = ok
  BY <1>1 DEF G!Validated
<1>3. /\ UNCHANGED <<stage, link, session, alive, asked, sessions, grace, crowded>>
      /\ pushes[p].run /\ s \in pushes[p].todo
      /\ pushes' = [pushes EXCEPT ![p] = G!Push(@.todo \ {s}, G!Answer(s, ok))]
  BY <1>2 DEF G!Read
<1>4. pushes[p].todo \subseteq Peers
  BY <1>3, Running DEF GatewayInv
<1>5. /\ pushes' \in [Pushes -> G!Runs \cup {G!Resting}]
      /\ \A q \in Pushes \ {p} : pushes'[q] = pushes[q]
      /\ pushes'[p].now.of = s /\ pushes'[p].now.ok = ok
  BY <1>3, <1>4 DEF GatewayInv, G!TypeOK, G!Push, G!Answer, G!Runs, G!Answers
<1>6. G!TypeOK' /\ Capped' /\ Answering'
  BY <1>3, <1>5 DEF GatewayInv, G!TypeOK, G!Clients, Capped, Taken, Answering
<1>7. AnsweredBefore'
  BY <1>1, <1>3, <1>5 DEF GatewayInv, AnsweredBefore, G!MayServe, G!Visits
<1> QED
  BY <1>6, <1>7 DEF GatewayInv

\* A push serves or drops the client it has an answer about.
LEMMA PushActs ==
  ASSUME GatewayInv, NEW p \in Pushes, NEW s \in Peers, G!Act(p, s)
  PROVE  GatewayInv'
<1>1. /\ G!Visits(p, s)
      /\ \/ UNCHANGED <<stage, link, asked>>
         \/ G!Drop(s)
      /\ pushes' = [pushes EXCEPT ![p] = G!Push(@.todo, G!Nobody)]
      /\ grace' = grace \ {<<p, s>>}
      /\ UNCHANGED <<session, alive, sessions, crowded>>
  BY DEF G!Act, G!Evict
<1>2. pushes[p].run /\ pushes[p].now.on /\ pushes[p].now.of = s
  BY <1>1 DEF G!Visits
<1>3. /\ pushes' \in [Pushes -> G!Runs \cup {G!Resting}]
      /\ \A q \in Pushes \ {p} : pushes'[q] = pushes[q]
      /\ ~pushes'[p].now.on
  <2>1. pushes[p].todo \in SUBSET Peers
    BY <1>2, Running DEF GatewayInv
  <2>2. G!Push(pushes[p].todo, G!Nobody) \in G!Runs
    BY <2>1 DEF G!Push, G!Runs, G!Answers
  <2>3. G!Push(pushes[p].todo, G!Nobody).now = G!Nobody /\ ~G!Nobody.on
    BY DEF G!Push, G!Nobody
  <2> QED
    BY <1>1, <2>2, <2>3 DEF GatewayInv, G!TypeOK
<1>4. /\ stage' \in [Peers -> {"none", "checking", "valid", "refused", "client"}]
      /\ link' \in [Peers -> {"open", "lost", "closed"}]
      /\ \A t \in Peers : stage'[t] = "none" => link'[t] = "closed"
      /\ \A t \in Peers : stage[t] = "none" => stage'[t] = "none"
      /\ asked' \subseteq {t \in Peers : stage'[t] = "client"}
      /\ \A t \in Peers : stage'[t] = "client" =>
           stage[t] = "client" /\ (t \in asked => t \in asked')
  <2>1. CASE UNCHANGED <<stage, link, asked>>
    BY <2>1 DEF GatewayInv, G!TypeOK, G!Clients
  <2>2. CASE G!Drop(s)
    BY <2>2 DEF G!Drop, GatewayInv, G!TypeOK, G!Clients
  <2> QED
    BY <1>1, <2>1, <2>2
<1>5. G!TypeOK'
  BY <1>1, <1>3, <1>4 DEF GatewayInv, G!TypeOK, G!Clients
<1>6. Capped'
  BY <1>1, <1>4, NoMoreTaken DEF GatewayInv
<1>7. Answering'
  BY <1>1, <1>4 DEF GatewayInv, Answering
<1>8. AnsweredBefore'
  BY <1>1, <1>3 DEF GatewayInv, AnsweredBefore, G!MayServe, G!Visits
<1> QED
  BY <1>5, <1>6, <1>7, <1>8 DEF GatewayInv

\* Clients that did not answer leave, the others are pinged.
LEMMA HeartBeats == ASSUME GatewayInv, G!Heartbeat PROVE GatewayInv'
<1>1. PICK dead \in SUBSET G!Clients :
        /\ stage' = [s \in Peers |-> IF s \in dead THEN "none" ELSE stage[s]]
        /\ link' = [s \in Peers |-> IF s \in dead THEN "closed" ELSE link[s]]
        /\ alive' = [s \in Peers |-> IF s \in G!Clients \ dead THEN FALSE ELSE alive[s]]
        /\ asked' = (G!Clients \ dead) \cup (asked \ dead)
        /\ UNCHANGED <<session, sessions, pushes, grace, crowded>>
  <2> DEFINE D == {s \in G!Clients : G!Dead(s)}
  <2> SUFFICES \E dead \in SUBSET G!Clients : 
        /\ stage' = [s \in Peers |-> IF s \in dead THEN "none" ELSE stage[s]]
        /\ link' = [s \in Peers |-> IF s \in dead THEN "closed" ELSE link[s]]
        /\ alive' = [s \in Peers |-> IF s \in G!Clients \ dead THEN FALSE ELSE alive[s]]
        /\ asked' = (G!Clients \ dead) \cup (asked \ dead)
        /\ UNCHANGED <<session, sessions, pushes, grace, crowded>>
    OBVIOUS
  <2> WITNESS D \in SUBSET G!Clients
  <2> QED
    BY DEF G!Heartbeat
<1>2. G!TypeOK' /\ Answering'
  BY <1>1 DEF GatewayInv, G!TypeOK, G!Clients, Answering
<1>3. Capped'
  BY <1>1, NoMoreTaken DEF GatewayInv
<1> QED
  BY <1>1, <1>2, <1>3, PushesAsTheyWere DEF GatewayInv

\* A session ends or begins: the answers that came before are on record.
LEMMA SessionsTurn ==
  ASSUME GatewayInv, NEW x \in Sids, G!EndSession(x) \/ G!NewSession(x)
  PROVE  GatewayInv'
<1>1. UNCHANGED <<stage, link, session, alive, asked, pushes, crowded>>
  BY DEF G!EndSession, G!NewSession
<1>2. sessions' \subseteq Sids /\ grace \subseteq grace' /\ grace' \subseteq Pushes \X Peers
  BY DEF G!EndSession, G!NewSession, GatewayInv, G!TypeOK
<1>3. G!TypeOK' /\ Capped' /\ Answering'
  BY <1>1, <1>2 DEF GatewayInv, G!TypeOK, G!Clients, Capped, Taken, Answering
<1>4. AnsweredBefore'
  <2> SUFFICES ASSUME NEW p \in Pushes, NEW s \in Peers,
                      G!MayServe(p, s), session[s] \notin sessions'
               PROVE  <<p, s>> \in grace'
    BY <1>1 DEF AnsweredBefore, G!MayServe, G!Visits
  <2>1. CASE session[s] \notin sessions
    BY <1>2, <2>1 DEF GatewayInv, AnsweredBefore
  <2>2. CASE session[s] \in sessions
    <3>1. session[s] = x /\ G!EndSession(x)
      BY <2>2 DEF G!EndSession, G!NewSession
    <3>2. <<p, s>> \in {v \in Pushes \X Peers : session[v[2]] = x /\ G!MayServe(v[1], v[2])}
      BY <3>1
    <3> QED
      BY <3>1, <3>2 DEF G!EndSession
  <2> QED
    BY <2>1, <2>2
<1> QED
  BY <1>3, <1>4 DEF GatewayInv

\* The process is replaced.
LEMMA GatewayRestarts == ASSUME GatewayInv, G!Restart PROVE GatewayInv'
<1>1. G!TypeOK'
  BY DEF G!Restart, GatewayInv, G!TypeOK, G!Clients
<1>2. Capped'
  BY NoMoreTaken DEF G!Restart, GatewayInv
<1>3. Answering' /\ AnsweredBefore'
  BY DEF G!Restart, Answering, AnsweredBefore, G!MayServe, G!Visits, G!Resting
<1> QED
  BY <1>1, <1>2, <1>3 DEF GatewayInv

\* Every step keeps the invariant.
LEMMA GatewayStep == ASSUME GatewayInv, [G!Next]_ofGateway PROVE GatewayInv'
<1>1. CASE UNCHANGED ofGateway
  BY <1>1 DEF ofGateway, GatewayInv, G!TypeOK, G!Clients, Capped, Taken, Answering,
              AnsweredBefore, G!MayServe, G!Visits
<1>2. CASE \E s \in Peers : G!TurnedAway(s)
  BY <1>2 DEF G!TurnedAway, G!vars, GatewayInv, G!TypeOK, G!Clients, Capped, Taken, Answering,
              AnsweredBefore, G!MayServe, G!Visits
<1> QED
  BY <1>1, <1>2, PeerArrives, OneSocket, PushesTurn, TableAnswers, PushActs, HeartBeats,
     SessionsTurn, GatewayRestarts
  DEF G!Next, G!PushStep

\* What the invariant says of places.
LEMMA GatewayHolds == ASSUME GatewayInv PROVE G!Consistent
<1>1. /\ Taken = G!Clients \cup G!Validating /\ G!Clients \cap G!Validating = {}
      /\ IsFiniteSet(G!Clients) /\ IsFiniteSet(G!Validating)
  BY GatewayCounting, FS_Subset DEF GatewayInv, G!TypeOK, Taken, G!Clients, G!Validating
<1>2. Cardinality(Taken) = Cardinality(G!Clients) + Cardinality(G!Validating)
  <2>1. Cardinality(G!Clients \cup G!Validating) =
          Cardinality(G!Clients) + Cardinality(G!Validating)
            - Cardinality(G!Clients \cap G!Validating)
    BY <1>1, FS_Union
  <2>2. Cardinality(G!Clients \cap G!Validating) = 0
    BY <1>1, FS_EmptySet
  <2>3. Cardinality(G!Clients) \in Nat /\ Cardinality(G!Validating) \in Nat
    BY <1>1, FS_CardinalityType
  <2> QED
    BY <1>1, <2>1, <2>2, <2>3
<1> QED
  BY <1>2, GatewayCounting DEF GatewayInv, Capped, G!Consistent, G!CappedUnlessCrowded

\* What it says of frames and of heartbeats.
LEMMA ServesTheLive ==
  ASSUME GatewayInv
  PROVE  G!FramesHaveSessions /\ G!HeartbeatKeepsOpen
<1>1. G!FramesHaveSessions
  BY DEF GatewayInv, AnsweredBefore, G!FramesHaveSessions, G!Serves
<1>2. G!HeartbeatKeepsOpen
  BY DEF GatewayInv, Answering, G!HeartbeatKeepsOpen, G!Heartbeat, G!Clients, G!Dead
<1> QED
  BY <1>1, <1>2

-----------------------------------------------------------------------------
(* The table of a facet: the inductive invariant.                          *)

Fields == {"params", "stage", "total", "cancelled"}

\* A request whose effect was not cleaned up asks for what the URL says.
AsksForTheUrl(r) == DOMAIN r = Fields /\ (~r.cancelled => r.params = url)

TableInv ==
  /\ \E S : requests \in Seq(S)
  /\ \A n \in DOMAIN requests : AsksForTheUrl(requests[n])
  /\ F!RowsAreOfTheUrl

\* A sequence without one of its elements.
LEMMA Removing ==
  ASSUME NEW S, NEW s \in Seq(S), NEW n \in DOMAIN s
  PROVE  /\ F!RemoveAt(s, n) \in Seq(S)
         /\ \A i \in DOMAIN F!RemoveAt(s, n) : \E j \in DOMAIN s : F!RemoveAt(s, n)[i] = s[j]
<1> DEFINE one == SubSeq(s, 1, n - 1)
           two == SubSeq(s, n + 1, Len(s))
<1>1. n \in 1 .. Len(s) /\ Len(s) \in Nat /\ F!RemoveAt(s, n) = one \o two
  BY DEF F!RemoveAt
<1>2. one \in Seq(S) /\ Len(one) = n - 1 /\ \A i \in 1 .. n - 1 : one[i] = s[i]
  BY <1>1
<1>3. two \in Seq(S) /\ Len(two) = Len(s) - n /\ \A i \in 1 .. Len(s) - n : two[i] = s[n + i]
  BY <1>1
<1> HIDE DEF one, two
<1>4. /\ one \o two \in Seq(S) /\ Len(one \o two) = Len(s) - 1
      /\ \A i \in 1 .. Len(s) - 1 :
           (one \o two)[i] = IF i <= n - 1 THEN one[i] ELSE two[i - (n - 1)]
  <2>1. /\ one \o two \in Seq(S) /\ Len(one \o two) = Len(one) + Len(two)
        /\ \A i \in 1 .. Len(one) + Len(two) :
             (one \o two)[i] = IF i <= Len(one) THEN one[i] ELSE two[i - Len(one)]
    BY <1>2, <1>3, ConcatProperties
  <2>2. Len(one) + Len(two) = Len(s) - 1
    BY <1>1, <1>2, <1>3
  <2> QED
    BY <1>2, <2>1, <2>2
<1>5. ASSUME NEW i \in 1 .. Len(s) - 1
      PROVE  \E j \in DOMAIN s : (one \o two)[i] = s[j]
  <2>1. CASE i <= n - 1
    <3>1. i \in 1 .. n - 1 /\ i \in DOMAIN s
      BY <1>1, <2>1
    <3>2. (one \o two)[i] = one[i]
      BY <1>4, <2>1
    <3> QED
      BY <1>2, <3>1, <3>2
  <2>2. CASE ~(i <= n - 1)
    <3>1. i - (n - 1) \in 1 .. Len(s) - n /\ n + (i - (n - 1)) \in DOMAIN s
      BY <1>1, <2>2
    <3>2. (one \o two)[i] = two[i - (n - 1)]
      BY <1>4, <2>2
    <3> QED
      BY <1>3, <3>1, <3>2
  <2> QED
    BY <2>1, <2>2
<1>6. DOMAIN (one \o two) = 1 .. Len(s) - 1
  BY <1>4
<1> QED
  BY <1>1, <1>4, <1>5, <1>6

\* The screen is mounted, with a request for what its URL says.
LEMMA TableStarts == ASSUME F!Init PROVE TableInv
<1>1. requests = <<F!Request(url)>> /\ loading = TRUE
  BY DEF F!Init
<1>2. requests \in Seq({F!Request(url)})
  BY <1>1
<1>3. \A n \in DOMAIN requests : requests[n] = F!Request(url)
  BY <1>1
<1>4. DOMAIN F!Request(url) = Fields /\ F!Request(url).params = url
  BY DEF F!Request, Fields
<1> QED
  BY <1>1, <1>2, <1>3, <1>4 DEF TableInv, AsksForTheUrl, F!RowsAreOfTheUrl

\* What changes neither the requests nor the URL nor what is shown.
LEMMA ElsewhereInTable ==
  ASSUME TableInv, UNCHANGED <<requests, url, loading, failed, shownFor>>
  PROVE  TableInv'
BY DEF TableInv, AsksForTheUrl, F!RowsAreOfTheUrl

\* A navigation is rendered: the requests of before are cancelled.
LEMMA NavigationArrives == ASSUME TableInv, F!Arrives PROVE TableInv'
<1>1. CASE going = url
  BY <1>1, ElsewhereInTable DEF F!Arrives
<1>2. CASE going # url
  <2>1. /\ url' = going /\ loading' = TRUE
        /\ requests' = Append(F!Cancelled(requests), F!Request(going))
    BY <1>2 DEF F!Arrives
  <2>2. PICK S : requests \in Seq(S)
    BY DEF TableInv
  <2> DEFINE old == F!Cancelled(requests)
             T == {[requests[n] EXCEPT !.cancelled = TRUE] : n \in DOMAIN requests}
             U == T \cup {F!Request(going)}
  <2>3. Len(requests) \in Nat /\ DOMAIN requests = 1 .. Len(requests)
    BY <2>2
  <2>4. old \in [1 .. Len(requests) -> U]
    BY <2>3 DEF F!Cancelled
  <2>5. old \in Seq(U)
    BY <2>3, <2>4
  <2>6. \A n \in DOMAIN old : DOMAIN old[n] = Fields /\ old[n].cancelled
    <3> SUFFICES ASSUME NEW n \in DOMAIN requests
                 PROVE  /\ DOMAIN [requests[n] EXCEPT !.cancelled = TRUE] = Fields
                        /\ [requests[n] EXCEPT !.cancelled = TRUE].cancelled
      BY DEF F!Cancelled
    <3>1. DOMAIN requests[n] = Fields
      BY DEF TableInv, AsksForTheUrl
    <3> QED
      BY <3>1 DEF Fields
  <2>7. DOMAIN F!Request(going) = Fields /\ F!Request(going).params = url'
    BY <2>1 DEF F!Request, Fields
  <2> HIDE DEF old, T, U
  <2>8. /\ Append(old, F!Request(going)) \in Seq(U)
        /\ \A n \in DOMAIN Append(old, F!Request(going)) :
             \/ n \in DOMAIN old /\ Append(old, F!Request(going))[n] = old[n]
             \/ Append(old, F!Request(going))[n] = F!Request(going)
    <3>1. F!Request(going) \in U
      BY DEF U
    <3> QED
      BY <2>5, <3>1
  <2>9. requests' = Append(old, F!Request(going))
    BY <2>1 DEF old
  <2>10. \A n \in DOMAIN requests' : AsksForTheUrl(requests[n])'
    BY <2>6, <2>7, <2>8, <2>9 DEF AsksForTheUrl
  <2> QED
    BY <2>1, <2>8, <2>9, <2>10 DEF TableInv, F!RowsAreOfTheUrl
<1> QED
  BY <1>1, <1>2

\* The server has counted: the request asks for what it asked for.
LEMMA RequestIsCounted ==
  ASSUME TableInv, NEW n \in DOMAIN requests, F!Count(n) PROVE TableInv'
<1> DEFINE r == [requests[n] EXCEPT !.stage = "listing",
                                    !.total = F!Len(F!Matching(requests[n].params))]
<1>1. /\ requests' = [requests EXCEPT ![n] = r]
      /\ UNCHANGED <<url, loading, failed, shownFor>>
  BY DEF F!Count
<1>2. PICK S : requests \in Seq(S)
  BY DEF TableInv
<1>3. DOMAIN requests[n] = Fields /\ AsksForTheUrl(requests[n])
  BY DEF TableInv, AsksForTheUrl
<1>4. DOMAIN r = Fields /\ r.cancelled = requests[n].cancelled /\ r.params = requests[n].params
  BY <1>3 DEF Fields
<1> HIDE DEF r
<1>5. requests' \in Seq(S \cup {r})
  <2>1. Len(requests) \in Nat /\ DOMAIN requests = 1 .. Len(requests)
        /\ requests \in [1 .. Len(requests) -> S]
    BY <1>2
  <2>2. requests' \in [1 .. Len(requests) -> S \cup {r}]
    BY <1>1, <2>1
  <2> QED
    BY <2>1, <2>2
<1>6. \A k \in DOMAIN requests' : AsksForTheUrl(requests[k])'
  <2> SUFFICES ASSUME NEW k \in DOMAIN requests
               PROVE  LET q == IF k = n THEN r ELSE requests[k] IN
                      DOMAIN q = Fields /\ (~q.cancelled => q.params = url)
    BY <1>1 DEF AsksForTheUrl
  <2> QED
    BY <1>3, <1>4 DEF TableInv, AsksForTheUrl
<1> QED
  BY <1>1, <1>5, <1>6 DEF TableInv, F!RowsAreOfTheUrl

\* An answer or a failure: unless its effect is over it was asked for by this URL.
LEMMA RequestEnds ==
  ASSUME TableInv, NEW n \in DOMAIN requests, F!Answer(n) \/ F!Fails(n) PROVE TableInv'
<1>1. requests' = F!RemoveAt(requests, n) /\ url' = url
  BY DEF F!Answer, F!Fails
<1>2. PICK S : requests \in Seq(S)
  BY DEF TableInv
<1>3. /\ requests' \in Seq(S)
      /\ \A i \in DOMAIN requests' : \E j \in DOMAIN requests : requests'[i] = requests[j]
  BY <1>1, <1>2, Removing
<1>4. \A i \in DOMAIN requests' : AsksForTheUrl(requests[i])'
  BY <1>1, <1>3 DEF TableInv, AsksForTheUrl
<1>5. F!RowsAreOfTheUrl'
  <2>1. CASE requests[n].cancelled
    BY <1>1, <2>1 DEF F!Answer, F!Fails, TableInv, F!RowsAreOfTheUrl
  <2>2. CASE ~requests[n].cancelled
    <3>1. requests[n].params = url
      BY <2>2 DEF TableInv, AsksForTheUrl
    <3> QED
      BY <1>1, <2>2, <3>1 DEF F!Answer, F!Fails, F!RowsAreOfTheUrl
  <2> QED
    BY <2>1, <2>2
<1> QED
  BY <1>3, <1>4, <1>5 DEF TableInv

\* Every step keeps the invariant.
LEMMA TableStep == ASSUME TableInv, F!Next PROVE TableInv'
<1>1. CASE F!Reader
  BY <1>1, ElsewhereInTable DEF F!Reader, F!Type, F!Pick, F!Turn
<1>2. ASSUME NEW box \in F!Boxes, F!TypingStops(box) PROVE TableInv'
  BY <1>2, ElsewhereInTable DEF F!TypingStops
<1>3. CASE F!Arrives
  BY <1>3, NavigationArrives
<1>4. ASSUME NEW n \in DOMAIN requests, F!Count(n) \/ F!Answer(n) \/ F!Fails(n) PROVE TableInv'
  BY <1>4, RequestIsCounted, RequestEnds
<1>5. CASE F!IsSwept \/ \E sort \in Sorts : F!Grows(sort)
  BY <1>5, ElsewhereInTable DEF F!IsSwept, F!Grows, F!client
<1> QED
  BY <1>1, <1>2, <1>3, <1>4, <1>5 DEF F!Next

LEMMA TableStutters == ASSUME TableInv, UNCHANGED ofTable PROVE TableInv'
BY ElsewhereInTable DEF ofTable

-----------------------------------------------------------------------------
(* What the other screens ask for: the inductive invariant.                *)

Wanted == Targets \cup {NoTarget}
LoadStates == [stage : {"free", "asked", "served"}, target : Wanted, at : Nat,
               ignored : BOOLEAN, overtaken : BOOLEAN]

PollsTyped ==
  /\ loads \in [Loads -> LoadStates]
  /\ time \in Nat /\ target \in Wanted
  /\ shown # Empty => shown \in [target : Wanted, at : Nat]

Heeded(load) == load.stage # "free" /\ ~load.ignored

\* A request that is heeded is about the target, and no answer is of the future.
OnTarget ==
  \A l \in Loads : loads[l].at <= time /\ (Heeded(loads[l]) => loads[l].target = target)

\* What is shown was true once, and is of the target once something has landed.
ShownIsOfThePast ==
  shown # Empty => shown.at <= time /\ (landed => shown.target = target)

\* An answer on its way is no older than what is shown of its target, unless overtaken.
AnswersAreNewer ==
  \A l \in Loads :
    /\ shown # Empty /\ loads[l].stage = "served" /\ Heeded(loads[l]) /\ ~loads[l].overtaken
    /\ shown.target = loads[l].target
    => shown.at <= loads[l].at

PollsInv == PollsTyped /\ OnTarget /\ ShownIsOfThePast /\ AnswersAreNewer /\ ~back

LEMMA FreeAndAsked ==
  ASSUME target \in Wanted
  PROVE  /\ R!Free \in LoadStates /\ R!Free.stage = "free" /\ R!Free.at = 0
         /\ R!Asked \in LoadStates /\ R!Asked.stage = "asked" /\ R!Asked.at = 0
         /\ R!Asked.target = target
         /\ \A t \in Wanted :
              LET load == [R!Asked EXCEPT !.target = t] IN
              load \in LoadStates /\ load.stage = "asked" /\ load.at = 0 /\ load.target = t
  BY DEF R!Free, R!Asked, LoadStates, Wanted

\* The cleanup has everything ignored.
LEMMA CleanedUp ==
  ASSUME PollsTyped
  PROVE  /\ R!Cleanup \in [Loads -> LoadStates]
         /\ \A l \in Loads : ~Heeded(R!Cleanup[l]) /\ R!Cleanup[l].at \in {0, loads[l].at}
<1>1. SUFFICES ASSUME NEW l \in Loads
               PROVE  LET load == IF loads[l] = R!Free THEN R!Free
                                  ELSE [loads[l] EXCEPT !.ignored = TRUE] IN
                      load \in LoadStates /\ ~Heeded(load) /\ load.at \in {0, loads[l].at}
  BY DEF R!Cleanup
<1>2. CASE loads[l] = R!Free
  BY <1>2, FreeAndAsked DEF Heeded, PollsTyped
<1>3. CASE loads[l] # R!Free
  BY <1>3 DEF Heeded, PollsTyped, LoadStates
<1> QED
  BY <1>2, <1>3

\* A screen is opened.
LEMMA PollsStart == ASSUME R!Init PROVE PollsInv
<1>1. target \in Wanted /\ time = 0 /\ shown = Empty /\ ~back
  BY DEF R!Init, Wanted
<1>2. \A l \in Loads : loads[l] \in {R!Free, R!Asked}
  BY DEF R!Init
<1>3. loads \in [Loads -> LoadStates]
  <2>1. PICK first \in Loads :
          loads = [l \in Loads |-> IF l = first /\ target # NoTarget THEN R!Asked ELSE R!Free]
    BY DEF R!Init
  <2> QED
    BY <1>1, <2>1, FreeAndAsked
<1>4. OnTarget
  BY <1>1, <1>2, FreeAndAsked DEF OnTarget, Heeded
<1> QED
  BY <1>1, <1>3, <1>4 DEF PollsInv, PollsTyped, ShownIsOfThePast, AnswersAreNewer

\* The screen is about something else: nothing that is under way is heeded any more.
LEMMA TargetChanges ==
  ASSUME PollsInv, NEW t \in Wanted, NEW l \in Loads, R!Change(t, l) PROVE PollsInv'
<1>1. /\ target' = t /\ landed' = FALSE /\ UNCHANGED <<time, back>>
      /\ shown' \in {shown, Empty}
  BY DEF R!Change
<1>2. /\ loads' \in [Loads -> LoadStates]
      /\ \A k \in Loads : /\ loads'[k].at \in {0, loads[k].at}
                          /\ Heeded(loads'[k]) => loads'[k].stage = "asked" /\ loads'[k].target = t
  <2>1. CASE loads' = R!Cleanup
    BY <2>1, CleanedUp DEF PollsInv
  <2>2. CASE loads' # R!Cleanup
    <3> DEFINE new == [R!Asked EXCEPT !.target = t]
    <3>1. loads' = [R!Cleanup EXCEPT ![l] = new]
      BY <2>2 DEF R!Change
    <3>2. new \in LoadStates /\ new.stage = "asked" /\ new.at = 0 /\ new.target = t
      BY FreeAndAsked DEF PollsInv, PollsTyped
    <3> HIDE DEF new
    <3> QED
      BY <3>1, <3>2, CleanedUp DEF PollsInv
  <2> QED
    BY <2>1, <2>2
<1>3. PollsTyped'
  BY <1>1, <1>2 DEF PollsInv, PollsTyped
<1>4. OnTarget'
  BY <1>1, <1>2 DEF PollsInv, PollsTyped, OnTarget, Heeded
<1>5. ShownIsOfThePast' /\ AnswersAreNewer'
  BY <1>1, <1>2 DEF PollsInv, ShownIsOfThePast, AnswersAreNewer, Heeded
<1> QED
  BY <1>1, <1>3, <1>4, <1>5 DEF PollsInv

\* A request is made, of the target.
LEMMA Asks == ASSUME PollsInv, NEW l \in Loads, R!Ask(l) PROVE PollsInv'
<1>1. /\ loads' = [loads EXCEPT ![l] = R!Asked]
      /\ UNCHANGED <<target, shown, time, landed, back>>
  BY DEF R!Ask
<1>2. R!Asked \in LoadStates /\ R!Asked.stage = "asked" /\ R!Asked.at = 0 /\ R!Asked.target = target
  BY FreeAndAsked DEF PollsInv, PollsTyped
<1>3. PollsTyped'
  BY <1>1, <1>2 DEF PollsInv, PollsTyped
<1>4. \A k \in Loads : loads'[k] = IF k = l THEN R!Asked ELSE loads[k]
  BY <1>1 DEF PollsInv, PollsTyped
<1>5. OnTarget' /\ ShownIsOfThePast' /\ AnswersAreNewer'
  BY <1>1, <1>2, <1>4
  DEF PollsInv, PollsTyped, OnTarget, ShownIsOfThePast, AnswersAreNewer, Heeded
<1> QED
  BY <1>1, <1>3, <1>5 DEF PollsInv

\* The server answers, with what is true now.
LEMMA IsServed == ASSUME PollsInv, NEW l \in Loads, R!Serve(l) PROVE PollsInv'
<1> DEFINE new == [loads[l] EXCEPT !.stage = "served", !.at = time]
<1>1. /\ loads' = [loads EXCEPT ![l] = new] /\ loads[l].stage = "asked"
      /\ UNCHANGED <<target, shown, time, landed, back>>
  BY DEF R!Serve, PollsInv, PollsTyped
<1>2. /\ new \in LoadStates /\ new.at = time /\ new.target = loads[l].target
      /\ Heeded(new) => Heeded(loads[l])
  BY <1>1 DEF PollsInv, PollsTyped, LoadStates, Heeded
<1> HIDE DEF new
<1>3. PollsTyped'
  BY <1>1, <1>2 DEF PollsInv, PollsTyped
<1>4. \A k \in Loads : loads'[k] = IF k = l THEN new ELSE loads[k]
  BY <1>1 DEF PollsInv, PollsTyped
<1>5. OnTarget' /\ ShownIsOfThePast'
  BY <1>1, <1>2, <1>4 DEF PollsInv, PollsTyped, OnTarget, ShownIsOfThePast, Heeded
<1>6. AnswersAreNewer'
  BY <1>1, <1>2, <1>4 DEF PollsInv, ShownIsOfThePast, AnswersAreNewer, Heeded
<1> QED
  BY <1>1, <1>3, <1>5, <1>6 DEF PollsInv

\* What the rendering does to the requests: none is heeded that was not, but the new one.
LEMMA Renders ==
  ASSUME PollsTyped, NEW l \in Loads, NEW rest \in [Loads -> LoadStates], R!Rendered(l, rest)
  PROVE  /\ loads' \in [Loads -> LoadStates]
         /\ \A k \in Loads :
              \/ loads'[k] = rest[k]
              \/ loads'[k].at = 0 /\ loads'[k].stage = "asked" /\ loads'[k].target = target
              \/ loads'[k].at = 0 /\ loads'[k].stage = "free"
              \/ loads'[k].at = rest[k].at /\ ~Heeded(loads'[k])
<1>1. CASE screen \notin R!RunsAtEachRendering
  BY <1>1 DEF R!Rendered
<1>2. CASE screen \in R!RunsAtEachRendering
  <2>1. loads' = [k \in Loads |->
                    IF k = l THEN R!Asked
                    ELSE IF rest[k] = R!Free THEN R!Free ELSE [rest[k] EXCEPT !.ignored = TRUE]]
    BY <1>2 DEF R!Rendered
  <2>2. ASSUME NEW k \in Loads
        PROVE  /\ [rest[k] EXCEPT !.ignored = TRUE] \in LoadStates
               /\ [rest[k] EXCEPT !.ignored = TRUE].at = rest[k].at
               /\ ~Heeded([rest[k] EXCEPT !.ignored = TRUE])
    <3>1. rest[k] \in LoadStates
      OBVIOUS
    <3> QED
      BY <3>1 DEF LoadStates, Heeded
  <2>3. /\ R!Free \in LoadStates /\ R!Free.stage = "free" /\ R!Free.at = 0
        /\ R!Asked \in LoadStates /\ R!Asked.stage = "asked" /\ R!Asked.at = 0
        /\ R!Asked.target = target
    BY FreeAndAsked DEF PollsTyped
  <2> QED
    BY <2>1, <2>2, <2>3
<1> QED
  BY <1>1, <1>2

\* An answer lands: it is of the target, and what was served before it is overtaken.
LEMMA AnswerLands == ASSUME PollsInv, NEW l \in Loads, R!Lands(l) PROVE PollsInv'
<1> DEFINE rest == [k \in Loads |->
                      IF k = l THEN R!Free
                      ELSE IF loads[k].stage = "served" THEN [loads[k] EXCEPT !.overtaken = TRUE]
                      ELSE loads[k]]
<1>1. /\ loads[l].stage = "served" /\ Heeded(loads[l])
      /\ shown' = [target |-> loads[l].target, at |-> loads[l].at]
      /\ landed' = TRUE /\ UNCHANGED <<target, time>>
      /\ R!Rendered(l, rest)
  BY DEF R!Lands, Heeded
<1>2. ~back'
  <2>1. shown # Empty /\ shown.target = loads[l].target /\ ~loads[l].overtaken
          => shown.at <= loads[l].at
    BY <1>1 DEF PollsInv, AnswersAreNewer
  <2>2. shown # Empty => shown.at \in Nat
    BY DEF PollsInv, PollsTyped
  <2>3. loads[l].at \in Nat
    BY DEF PollsInv, PollsTyped, LoadStates
  <2>4. shown # Empty /\ shown.target = loads[l].target /\ ~loads[l].overtaken
          => ~(shown.at > loads[l].at)
    BY <2>1, <2>2, <2>3
  <2> QED
    BY <2>4 DEF R!Lands, PollsInv
<1>3. ASSUME NEW k \in Loads
      PROVE  /\ rest[k] \in LoadStates /\ rest[k].at \in {0, loads[k].at}
             /\ Heeded(rest[k]) => rest[k].target = loads[k].target /\ Heeded(loads[k])
             /\ rest[k].stage = "served" => rest[k].overtaken
  <2>1. CASE k = l
    BY <2>1, FreeAndAsked DEF Heeded, PollsInv, PollsTyped
  <2>2. CASE k # l /\ loads[k].stage = "served"
    <3>1. loads[k] \in LoadStates /\ rest[k] = [loads[k] EXCEPT !.overtaken = TRUE]
      BY <2>2 DEF PollsInv, PollsTyped
    <3> QED
      BY <3>1 DEF LoadStates, Heeded
  <2>3. CASE k # l /\ loads[k].stage # "served"
    BY <2>3 DEF PollsInv, PollsTyped
  <2> QED
    BY <2>1, <2>2, <2>3
<1>4. rest \in [Loads -> LoadStates]
  BY <1>3
<1> HIDE DEF rest
<1>5. /\ loads' \in [Loads -> LoadStates]
      /\ \A k \in Loads :
           \/ loads'[k] = rest[k]
           \/ loads'[k].at = 0 /\ loads'[k].stage = "asked" /\ loads'[k].target = target
           \/ loads'[k].at = 0 /\ loads'[k].stage = "free"
           \/ loads'[k].at = rest[k].at /\ ~Heeded(loads'[k])
  BY <1>1, <1>4, Renders DEF PollsInv
<1>6. loads[l] \in LoadStates /\ loads[l].target = target /\ loads[l].at <= time
  BY <1>1 DEF PollsInv, PollsTyped, OnTarget
<1>7. PollsTyped' /\ ShownIsOfThePast'
  <2>1. shown'.target = target /\ shown'.at = loads[l].at
    BY <1>1, <1>6
  <2>2. shown' \in [target : Wanted, at : Nat]
    BY <1>1, <1>6 DEF LoadStates
  <2> QED
    BY <1>1, <1>5, <1>6, <2>1, <2>2 DEF PollsInv, PollsTyped, ShownIsOfThePast
<1>8. OnTarget'
  <2> SUFFICES ASSUME NEW k \in Loads
               PROVE  /\ loads'[k].at <= time
                      /\ Heeded(loads'[k]) => loads'[k].target = target
    BY <1>1 DEF OnTarget, Heeded
  <2>1. loads[k].at <= time /\ 0 <= time /\ (Heeded(loads[k]) => loads[k].target = target)
    BY DEF PollsInv, PollsTyped, OnTarget
  <2> QED
    BY <1>3, <1>5, <2>1 DEF Heeded
<1>9. AnswersAreNewer'
  BY <1>3, <1>5 DEF AnswersAreNewer, Heeded
<1> QED
  BY <1>2, <1>7, <1>8, <1>9 DEF PollsInv

\* A request is over, and nothing was shown for it.
LEMMA RequestIsOver ==
  ASSUME PollsInv, NEW l \in Loads, R!Fails(l) \/ R!Ignored(l) PROVE PollsInv'
<1>1. /\ UNCHANGED <<target, time, back>>
      /\ \/ shown' = Empty
         \/ UNCHANGED <<shown, landed>>
      /\ R!Rendered(l, R!Over(l)) \/ loads' = R!Over(l)
      /\ shown' # Empty => loads' = R!Over(l)
  BY DEF R!Fails, R!Ignored
<1>2. /\ R!Over(l) \in [Loads -> LoadStates]
      /\ \A k \in Loads : R!Over(l)[k] = IF k = l THEN R!Free ELSE loads[k]
  BY FreeAndAsked DEF R!Over, PollsInv, PollsTyped
<1>3. R!Free.at = 0 /\ R!Free.stage = "free"
  BY FreeAndAsked DEF PollsInv, PollsTyped
<1>4. /\ loads' \in [Loads -> LoadStates]
      /\ \A k \in Loads :
           \/ loads'[k] = R!Over(l)[k]
           \/ loads'[k].at = 0 /\ loads'[k].stage = "asked" /\ loads'[k].target = target
           \/ loads'[k].at = 0 /\ loads'[k].stage = "free"
           \/ loads'[k].at = R!Over(l)[k].at /\ ~Heeded(loads'[k])
  <2>1. CASE loads' = R!Over(l)
    BY <1>2, <2>1
  <2>2. CASE R!Rendered(l, R!Over(l))
    BY <1>2, <2>2, Renders DEF PollsInv
  <2> QED
    BY <1>1, <2>1, <2>2
<1>5. PollsTyped' /\ ShownIsOfThePast'
  BY <1>1, <1>4 DEF PollsInv, PollsTyped, ShownIsOfThePast
<1>6. OnTarget'
  <2> SUFFICES ASSUME NEW k \in Loads
               PROVE  /\ loads'[k].at <= time
                      /\ Heeded(loads'[k]) => loads'[k].target = target
    BY <1>1 DEF OnTarget, Heeded
  <2>1. loads[k].at <= time /\ 0 <= time /\ (Heeded(loads[k]) => loads[k].target = target)
    BY DEF PollsInv, PollsTyped, OnTarget
  <2> QED
    BY <1>2, <1>3, <1>4, <2>1 DEF Heeded
<1>7. AnswersAreNewer'
  <2>1. CASE shown' = Empty
    BY <2>1 DEF AnswersAreNewer
  <2>2. CASE shown' # Empty
    BY <1>1, <1>2, <1>3, <2>2 DEF PollsInv, AnswersAreNewer, Heeded
  <2> QED
    BY <2>1, <2>2
<1> QED
  BY <1>1, <1>5, <1>6, <1>7 DEF PollsInv

\* The server's data change.
LEMMA TimePasses == ASSUME PollsInv, R!Tick PROVE PollsInv'
<1>1. time' = time + 1 /\ UNCHANGED <<target, shown, loads, landed, back>>
  BY DEF R!Tick
<1>2. PollsTyped' /\ AnswersAreNewer'
  BY <1>1 DEF PollsInv, PollsTyped, AnswersAreNewer, Heeded
<1>3. OnTarget'
  <2>1. \A l \in Loads : loads[l].at \in Nat
    BY DEF PollsInv, PollsTyped, LoadStates
  <2> QED
    BY <1>1, <2>1 DEF PollsInv, PollsTyped, OnTarget, Heeded
<1>4. ShownIsOfThePast'
  <2>1. shown # Empty => shown.at \in Nat
    BY DEF PollsInv, PollsTyped
  <2> QED
    BY <1>1, <2>1 DEF PollsInv, PollsTyped, ShownIsOfThePast
<1> QED
  BY <1>1, <1>2, <1>3, <1>4 DEF PollsInv

\* Every step keeps the invariant.
LEMMA PollsStep == ASSUME PollsInv, R!Next PROVE PollsInv'
<1>1. ASSUME NEW t \in Targets \cup {NoTarget}, NEW l \in Loads, R!Change(t, l) PROVE PollsInv'
  BY <1>1, TargetChanges DEF Wanted
<1>2. ASSUME NEW l \in Loads,
             R!Ask(l) \/ R!Serve(l) \/ R!Lands(l) \/ R!Fails(l) \/ R!Ignored(l)
      PROVE  PollsInv'
  BY <1>2, Asks, IsServed, AnswerLands, RequestIsOver
<1> QED
  BY <1>1, <1>2, TimePasses DEF R!Next

LEMMA PollsStutter == ASSUME PollsInv, UNCHANGED ofPolls PROVE PollsInv'
<1>1. UNCHANGED <<target, shown, loads, time, landed, back>>
  BY DEF ofPolls
<1> QED
  BY <1>1 DEF PollsInv, PollsTyped, OnTarget, ShownIsOfThePast, AnswersAreNewer, Heeded

LEMMA PollsHold == ASSUME PollsInv PROVE R!ShowsItsTarget
BY DEF PollsInv, ShownIsOfThePast, R!ShowsItsTarget

-----------------------------------------------------------------------------
(* Together.                                                               *)

ScreensInv ==
  /\ part = "client" => ClientInv
  /\ part = "gateway" => GatewayInv
  /\ part = "table" => TableInv
  /\ part = "polls" => PollsInv

LEMMA ScreensStart == Init => ScreensInv
  BY ClientStarts, GatewayStarts, TableStarts, PollsStart DEF Init, ScreensInv

LEMMA ScreensStep == ScreensInv /\ [Next]_vars => ScreensInv'
<1> SUFFICES ASSUME ScreensInv, [Next]_vars PROVE ScreensInv'
  OBVIOUS
<1>1. CASE part = "client" /\ L!Next /\ UNCHANGED part
  BY <1>1, ClientStep DEF ScreensInv
<1>2. CASE part = "gateway" /\ G!Next /\ UNCHANGED part
  BY <1>2, GatewayStep DEF ScreensInv
<1>3. CASE part = "table" /\ F!Next /\ UNCHANGED part
  BY <1>3, TableStep DEF ScreensInv
<1>4. CASE part = "polls" /\ R!Next /\ UNCHANGED part
  BY <1>4, PollsStep DEF ScreensInv
<1>5. CASE UNCHANGED vars
  <2>1. UNCHANGED <<part, ofClient, ofGateway, ofTable, ofPolls>>
    BY <1>5 DEF vars
  <2> QED
    BY <2>1, ClientStutters, GatewayStep, TableStutters, PollsStutter DEF ScreensInv
<1> QED
  BY <1>1, <1>2, <1>3, <1>4, <1>5 DEF Next

LEMMA ScreensAlways == Spec => []ScreensInv
  BY ScreensStart, ScreensStep, PTL DEF Spec

\* However sockets open, fail and close, timers fire and are lost, and the tab is hidden
\* and shown: a screen that is shown has a way back to the server and polls meanwhile, it
\* holds one socket and at most one more for each return to the tab while one was closing;
\* and the server keeps to its cap for sockets that arrive one at a time.
THEOREM ConnectionsStaySound == Spec => []ConnectionsAreSound
<1>1. ScreensInv => ConnectionsAreSound
  BY ClientHolds, GatewayHolds DEF ScreensInv, ConnectionsAreSound
<1> QED
  BY <1>1, ScreensAlways, PTL

\* Whatever order requests are answered in, whatever fails and whatever the reader does
\* meanwhile: the rows of a table that says neither "loading" nor that it failed are those
\* its URL asks for, and the other screens show what they are about and never replace an
\* answer with an older one, unless two answers crossed.
THEOREM ScreensShowWhatIsAskedFor == Spec => []ShowsWhatIsAskedFor
<1>1. ScreensInv => ShowsWhatIsAskedFor
  BY PollsHold DEF ScreensInv, TableInv, ShowsWhatIsAskedFor
<1> QED
  BY <1>1, ScreensAlways, PTL

\* No frame is sent to a client whose session has ended, but by a push that had read the
\* session table before, and no client that has answered is terminated by the heartbeat.
THEOREM LiveOnesAreServed == Spec => OnlyTheLiveAreServed
<1>1. ScreensInv => (part = "gateway" => G!FramesHaveSessions /\ G!HeartbeatKeepsOpen)
  BY ServesTheLive DEF ScreensInv
<1> QED
  BY <1>1, ScreensAlways, PTL DEF OnlyTheLiveAreServed
=============================================================================
