----------------------------- MODULE LiveClient -----------------------------
(***************************************************************************)
(* useLiveMetrics, the live connection of one mounted screen:              *)
(* client/src/lib/live.ts.  A socket with reconnects, polling while it is  *)
(* down, the visibility of the tab, and the node the screen watches.       *)
(*                                                                         *)
(* A step is one callback of the page's event loop.  The network and the   *)
(* server do as they like: a socket opens, fails or closes at any time.    *)
(* Delays are left out: a timer fires at some time.  Effects of React run  *)
(* with the callback that changed what they depend on.                     *)
(*                                                                         *)
(* The server attaches its listener for messages only once it has checked  *)
(* the session (ws.gateway.ts, after two awaits): what is sent before that *)
(* is dropped.                                                             *)
(*                                                                         *)
(* A timer whose id was overwritten can no longer be cleared: it is a      *)
(* stray.  A poll is a timer, then a request, then the next timer.         *)
(***************************************************************************)
EXTENDS Naturals, FiniteSets

CONSTANTS
  Socks,       \* WebSocket objects, used again once they are closed
  Nodes,       \* nodes a screen may watch
  Nobody,      \* watching none
  NoSock,      \* null
  MaxHurries,  \* bound: returns to the tab while a socket is closing
  MaxLates     \* bound: polls stopped while their request is in flight

LiveClientAssumption ==
  /\ IsFiniteSet(Socks)
  /\ Nobody \notin Nodes
  /\ NoSock \notin Socks
  /\ MaxHurries \in Nat /\ MaxLates \in Nat

VARIABLES
  sockets,    \* socket -> idle (never opened, or closed), connecting, open, closing
  socket,     \* the variable `socket`
  ref,        \* socketRef.current
  hidden,     \* document.hidden
  disposed,   \* the screen is unmounted
  retrying,   \* reconnectTimer is pending
  retries,    \* stray reconnect timers
  poll,       \* pollTimer: unset, pending, or spent, which is set all the same
  polls,      \* stray poll timers
  fetching,   \* requests of polls in flight
  watch,      \* the node the screen asks for
  connected,  \* state.connected
  heard,      \* sockets whose messages the server listens to
  told,       \* socket -> what the server was last told to watch
  missed,     \* history: sockets whose last request to watch was dropped
  hurries,    \* history: returns while a socket was still closing
  lates       \* history: polls stopped while their request was in flight

timers == <<retrying, retries, poll, polls, fetching>>
view == <<watch, connected, heard, told, missed>>
page == <<hidden, disposed>>
vars == <<sockets, socket, ref, page, timers, view, hurries, lates>>

-----------------------------------------------------------------------------
Alive(s) == sockets[s] \in {"connecting", "open"}
IsOpen(s) == s # NoSock /\ sockets[s] = "open"
Awake == ~disposed /\ ~hidden

\* A request to watch w, or none: it reaches the server or is dropped.
Sent(w, s) ==
  /\ told' = IF s \in heard THEN [told EXCEPT ![s] = w] ELSE told
  /\ missed' = IF s \in heard THEN missed \ {s} ELSE missed \cup {s}
  /\ UNCHANGED heard

\* Mutant: the server is told only when the node changes.
Informed_OnNavigation(w, now, s, opened) ==
  IF w # watch /\ now /\ s # NoSock /\ opened[s] = "open"
    THEN Sent(w, s)
    ELSE UNCHANGED <<heard, told, missed>>

\* The effect on [watch, connected]: the server is told what to send.
Informed(w, now, s, opened) ==
  IF <<w, now>> # <<watch, connected>> /\ now /\ s # NoSock /\ opened[s] = "open"
    THEN Sent(w, s)
    ELSE UNCHANGED <<heard, told, missed>>

\* What the server knows of a connection ends with it.
Forgets(gone) ==
  /\ heard' = heard \ gone /\ missed' = missed \ gone
  /\ told' = [s \in Socks |-> IF s \in gone THEN Nobody ELSE told[s]]

-----------------------------------------------------------------------------
(* Polling.                                                                *)

\* Mutant: polling goes on while hidden.
GoesOn_UntilUnmounted == ~disposed

\* schedulePoll: the next timer, and what becomes of the one before it.
GoesOn == Awake
SchedulePoll ==
  IF GoesOn
    THEN /\ poll' = "pending"
         /\ polls' = IF poll = "pending" THEN polls + 1 ELSE polls
    ELSE UNCHANGED <<poll, polls>>

\* startPolling: nothing when there is a timer, fired or not.
MayPoll == poll = "unset"
StartPolling == IF MayPoll THEN SchedulePoll ELSE UNCHANGED <<poll, polls>>

\* Mutant: the id of the timer is not cleared.
Stopped_KeepsId(timer) == IF timer = "pending" THEN "spent" ELSE timer

\* stopPolling
Stopped(timer) == "unset"

StopPolling ==
  /\ fetching > 0 => lates < MaxLates
  /\ lates' = IF fetching > 0 THEN lates + 1 ELSE lates
  /\ poll' = Stopped(poll)

PollFires ==
  /\ poll = "pending"
  /\ poll' = "spent"
  /\ fetching' = fetching + 1
  /\ UNCHANGED <<sockets, socket, ref, page, retrying, retries, polls, view,
                 hurries, lates>>

StrayPollFires ==
  /\ polls > 0
  /\ polls' = polls - 1
  /\ fetching' = fetching + 1
  /\ UNCHANGED <<sockets, socket, ref, page, retrying, retries, poll, view,
                 hurries, lates>>

\* refetch().finally(schedulePoll)
Fetched ==
  /\ fetching > 0
  /\ fetching' = fetching - 1
  /\ SchedulePoll
  /\ UNCHANGED <<sockets, socket, ref, page, retrying, retries, view, hurries,
                 lates>>

-----------------------------------------------------------------------------
(* The socket.                                                             *)

Connects == Awake

\* connect
Connect(s) ==
  /\ sockets[s] = "idle"
  /\ sockets' = [sockets EXCEPT ![s] = "connecting"]
  /\ socket' = s
  /\ ref' = s
  /\ UNCHANGED view

ConnectOrNot ==
  IF Connects THEN \E s \in Socks : Connect(s)
              ELSE UNCHANGED <<sockets, socket, ref, view>>

RetryFires ==
  /\ retrying
  /\ retrying' = FALSE
  /\ ConnectOrNot
  /\ UNCHANGED <<page, retries, poll, polls, fetching, hurries, lates>>

StrayRetryFires ==
  /\ retries > 0
  /\ retries' = retries - 1
  /\ ConnectOrNot
  /\ UNCHANGED <<page, retrying, poll, polls, fetching, hurries, lates>>

\* onopen
Opened(s) ==
  /\ sockets[s] = "connecting"
  /\ sockets' = [sockets EXCEPT ![s] = "open"]
  /\ StopPolling
  /\ connected' = TRUE
  /\ Informed(watch, TRUE, ref, sockets')
  /\ UNCHANGED <<socket, ref, page, retrying, retries, polls, fetching, watch,
                 hurries>>

\* The server has validated the session; a client gets frames from then on.
Attached(s) ==
  /\ Alive(s) /\ s \notin heard
  /\ heard' = heard \cup {s}
  /\ UNCHANGED <<sockets, socket, ref, page, timers, watch, connected, told, missed, hurries,
                 lates>>

\* onmessage of a frame, which says connected too.
Frame(s) ==
  /\ IsOpen(s) /\ s \in heard
  /\ ~connected
  /\ connected' = TRUE
  /\ Informed(watch, TRUE, ref, sockets)
  /\ UNCHANGED <<sockets, socket, ref, page, timers, watch, hurries, lates>>

\* onclose: poll, and reconnect in a while.
RetryAllowed == Awake
Retry ==
  /\ connected' = FALSE
  /\ StartPolling
  /\ IF RetryAllowed
       THEN /\ retrying' = TRUE
            /\ retries' = IF retrying THEN retries + 1 ELSE retries
       ELSE UNCHANGED <<retrying, retries>>
  /\ UNCHANGED <<socket, ref, page, fetching, watch, hurries, lates>>

\* The closing handshake ends, or the server closes.
Closed(s) ==
  /\ sockets[s] \in {"open", "closing"}
  /\ sockets' = [sockets EXCEPT ![s] = "idle"]
  /\ Forgets({s})
  /\ Retry

\* onerror closes what `socket` holds, whoever failed; onclose follows.
Failed(s) ==
  /\ sockets[s] # "idle"
  /\ sockets' = [x \in Socks |->
       CASE x = s -> "idle"
         [] x # s /\ x = socket /\ Alive(x) -> "closing"
         [] OTHER -> sockets[x]]
  /\ Forgets({s})
  /\ Retry

-----------------------------------------------------------------------------
(* The page.                                                               *)

\* onVisibility
TimerKept == FALSE
Hide ==
  /\ ~hidden /\ ~disposed
  /\ hidden' = TRUE
  /\ StopPolling
  /\ retrying' = TimerKept
  /\ sockets' = [s \in Socks |-> IF s = socket /\ Alive(s) THEN "closing"
                                                          ELSE sockets[s]]
  /\ socket' = NoSock
  /\ UNCHANGED <<ref, disposed, retries, polls, fetching, view, hurries>>

Reconnects(s) == s = NoSock \/ sockets[s] = "idle"
Show ==
  /\ hidden /\ ~disposed
  /\ hidden' = FALSE
  /\ \E hurried \in BOOLEAN :
       /\ hurried = (\E s \in Socks : sockets[s] = "closing")
       /\ hurried => hurries < MaxHurries
       /\ hurries' = IF hurried THEN hurries + 1 ELSE hurries
  /\ IF Reconnects(socket) THEN \E s \in Socks : Connect(s)
                           ELSE UNCHANGED <<sockets, socket, ref, view>>
  /\ UNCHANGED <<disposed, timers, lates>>

\* The tab is hidden or shown after the screen was unmounted: nobody listens.
Unheard ==
  /\ disposed
  /\ hidden' = ~hidden
  /\ UNCHANGED <<sockets, socket, ref, disposed, timers, view, hurries, lates>>

Navigate(n) ==
  /\ ~disposed
  /\ n # watch
  /\ watch' = n
  /\ Informed(n, connected, ref, sockets)
  /\ UNCHANGED <<sockets, socket, ref, page, timers, connected, hurries, lates>>

\* The cleanup.  The socket is detached first, so its close is nobody's.
Dispose ==
  /\ ~disposed
  /\ disposed' = TRUE
  /\ ref' = NoSock
  /\ retrying' = FALSE
  /\ StopPolling
  /\ sockets' = [s \in Socks |-> IF s = socket THEN "idle" ELSE sockets[s]]
  /\ Forgets({socket})
  /\ UNCHANGED <<socket, hidden, retries, polls, fetching, watch, connected, hurries>>

-----------------------------------------------------------------------------
\* Mounted in a tab that is shown, or not.
Init ==
  /\ hidden \in BOOLEAN
  /\ disposed = FALSE
  /\ socket \in IF hidden THEN {NoSock} ELSE Socks
  /\ ref = socket
  /\ sockets = [s \in Socks |-> IF s = socket THEN "connecting" ELSE "idle"]
  /\ retrying = FALSE /\ retries = 0
  /\ poll = "unset" /\ polls = 0
  /\ fetching = 0
  /\ watch = Nobody
  /\ connected = FALSE
  /\ heard = {} /\ told = [s \in Socks |-> Nobody] /\ missed = {}
  /\ hurries = 0 /\ lates = 0

Callbacks ==
  \/ RetryFires \/ StrayRetryFires
  \/ PollFires \/ StrayPollFires
  \/ Fetched

Next ==
  \/ Callbacks
  \/ \E s \in Socks : Opened(s) \/ Attached(s) \/ Frame(s) \/ Closed(s) \/ Failed(s)
  \/ Hide
  \/ Show
  \/ Unheard
  \/ \E n \in Nodes \cup {Nobody} : Navigate(n)
  \/ Dispose

Spec == Init /\ [][Next]_vars

\* Timers fire, requests answer or fail, closing ends, sessions get validated, and the
\* server sends a frame every second.
FairSpec ==
  /\ Spec
  /\ WF_vars(RetryFires) /\ WF_vars(StrayRetryFires)
  /\ WF_vars(PollFires) /\ WF_vars(StrayPollFires)
  /\ WF_vars(Fetched)
  /\ \A s \in Socks :
       /\ WF_vars(sockets[s] = "closing" /\ Closed(s))
       /\ WF_vars(Attached(s))
       /\ WF_vars(Frame(s))

-----------------------------------------------------------------------------
(* Properties.                                                             *)

TypeOK ==
  /\ sockets \in [Socks -> {"idle", "connecting", "open", "closing"}]
  /\ socket \in Socks \cup {NoSock}
  /\ ref \in Socks \cup {NoSock}
  /\ hidden \in BOOLEAN /\ disposed \in BOOLEAN
  /\ retrying \in BOOLEAN /\ retries \in Nat
  /\ poll \in {"unset", "pending", "spent"} /\ polls \in Nat
  /\ fetching \in Nat
  /\ watch \in Nodes \cup {Nobody}
  /\ connected \in BOOLEAN
  /\ told \in [Socks -> Nodes \cup {Nobody}]
  /\ heard \subseteq Socks /\ missed \subseteq Socks
  /\ hurries \in 0 .. MaxHurries /\ lates \in 0 .. MaxLates
  /\ disposed => ref = NoSock /\ ~retrying /\ poll = "unset"

Live == {s \in Socks : Alive(s)}
Up == {s \in Socks : sockets[s] # "idle"}
Polling == poll = "pending" \/ polls > 0 \/ fetching > 0

\* A screen that is shown always has a way back: a socket that is up or on its
\* way, or closes and will say so, or a timer that will try again, and while it
\* waits for that timer it polls: "REST as the fallback".
NeverStranded == Awake /\ Up = {} => Polling /\ (retrying \/ retries > 0)

\* One screen holds one socket, and at most one more for every time somebody
\* came back to the tab while the last socket was still closing (onVisibility
\* looks at the variable only, and the close of the old socket then starts a
\* reconnect of its own).
OneSocketPerReturn == Cardinality(Live) <= 1 + hurries

AtRest == ~Polling /\ ~retrying /\ retries = 0

\* A hidden or unmounted screen comes to rest: no timer is left that could
\* connect or poll, not even a stray one.
ComesToRest == <>[]~Awake => <>[]AtRest

Shows(s, n) == Awake /\ hurries = 0 /\ socket = s /\ IsOpen(s) /\ watch = n

\* The server ends up sending the node that is shown, however sockets came and
\* went and whatever was watched on the way, unless the tab was hurried, or the
\* request came before the server listened.  It is sent when the socket opens and
\* when the screen moves on, and not again: a request that was dropped stays so
\* until then.
WatchesWhatIsShown ==
  \A s \in Socks, n \in Nodes :
    <>[]Shows(s, n) => <>[](told[s] = n \/ s \in missed)
=============================================================================
