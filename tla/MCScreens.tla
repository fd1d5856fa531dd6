----------------------------- MODULE MCScreens ------------------------------
(***************************************************************************)
(* What a screen shows: both ends of the live connection (LiveClient,      *)
(* LiveGateway), the table of a facet with its query (FacetTable), and     *)
(* what the other screens ask for (ScreenPolls), put together for TLC and  *)
(* for the theorems of ScreensProofs.                                      *)
(*                                                                         *)
(* A behaviour is one of one of them, `part`; the variables of the others  *)
(* stay 0.                                                                 *)
(***************************************************************************)
EXTENDS Naturals, Sequences

CONSTANTS
  \* LiveClient.
  Socks, Nodes, NoNode, NoSock, MaxHurries, MaxLates,
  \* LiveGateway.
  Peers, Sids, Pushes, MAX_CONNECTIONS,
  \* FacetTable.
  Sorts, Texts, PageSize, Stores, MaxRows, MaxEdits, MaxMoves,
  \* ScreenPolls.
  Targets, Loads, NoTarget, Empty, MaxTime, MaxChanges, MaxFaults

VARIABLES
  part,
  sockets, socket, ref, hidden, disposed, retrying, retries, poll, polls, fetching, watch,
  connected, heard, told, missed, hurries, lates,
  stage, link, session, alive, asked, sessions, pushes, grace, crowded,
  store, url, going, boxes, timers, requests, rows, total, loading, failed, shownFor, torn,
  edits, moves,
  screen, target, shown, waiting, loads, time, landed, back, changes, faults

L == INSTANCE LiveClient WITH Nobody <- NoNode
G == INSTANCE LiveGateway WITH Socks <- Peers
F == INSTANCE FacetTable
R == INSTANCE ScreenPolls WITH None <- NoTarget

ASSUME LiveClientAssumption == L!LiveClientAssumption
ASSUME LiveGatewayAssumption == G!LiveGatewayAssumption

\* Two rows of two sorts, the newest first, or none.
MCStores == {<<>>, <<"b", "a">>}

ofClient == <<sockets, socket, ref, hidden, disposed, retrying, retries, poll, polls, fetching,
              watch, connected, heard, told, missed, hurries, lates>>
ofGateway == <<stage, link, session, alive, asked, sessions, pushes, grace, crowded>>
ofTable == <<store, url, going, boxes, timers, requests, rows, total, loading, failed, shownFor,
             torn, edits, moves>>
ofPolls == <<screen, target, shown, waiting, loads, time, landed, back, changes, faults>>
vars == <<part, ofClient, ofGateway, ofTable, ofPolls>>

NoClient ==
  /\ sockets = 0 /\ socket = 0 /\ ref = 0 /\ hidden = 0 /\ disposed = 0 /\ retrying = 0
  /\ retries = 0 /\ poll = 0 /\ polls = 0 /\ fetching = 0 /\ watch = 0 /\ connected = 0
  /\ heard = 0 /\ told = 0 /\ missed = 0 /\ hurries = 0 /\ lates = 0
NoGateway ==
  /\ stage = 0 /\ link = 0 /\ session = 0 /\ alive = 0 /\ asked = 0 /\ sessions = 0
  /\ pushes = 0 /\ grace = 0 /\ crowded = 0
NoTable ==
  /\ store = 0 /\ url = 0 /\ going = 0 /\ boxes = 0 /\ timers = 0 /\ requests = 0 /\ rows = 0
  /\ total = 0 /\ loading = 0 /\ failed = 0 /\ shownFor = 0 /\ torn = 0 /\ edits = 0
  /\ moves = 0
NoPolls ==
  /\ screen = 0 /\ target = 0 /\ shown = 0 /\ waiting = 0 /\ loads = 0 /\ time = 0
  /\ landed = 0 /\ back = 0 /\ changes = 0 /\ faults = 0

Init ==
  \/ part = "client" /\ L!Init /\ NoGateway /\ NoTable /\ NoPolls
  \/ part = "gateway" /\ G!Init /\ NoClient /\ NoTable /\ NoPolls
  \/ part = "table" /\ F!Init /\ NoClient /\ NoGateway /\ NoPolls
  \/ part = "polls" /\ R!Init /\ NoClient /\ NoGateway /\ NoTable

Next ==
  \/ part = "client" /\ L!Next /\ UNCHANGED <<part, ofGateway, ofTable, ofPolls>>
  \/ part = "gateway" /\ G!Next /\ UNCHANGED <<part, ofClient, ofTable, ofPolls>>
  \/ part = "table" /\ F!Next /\ UNCHANGED <<part, ofClient, ofGateway, ofPolls>>
  \/ part = "polls" /\ R!Next /\ UNCHANGED <<part, ofClient, ofGateway, ofTable>>

\* The fairness of each in its part.
Fairness ==
  /\ WF_ofClient(part = "client" /\ L!RetryFires)
  /\ WF_ofClient(part = "client" /\ L!StrayRetryFires)
  /\ WF_ofClient(part = "client" /\ L!PollFires)
  /\ WF_ofClient(part = "client" /\ L!StrayPollFires)
  /\ WF_ofClient(part = "client" /\ L!Fetched)
  /\ \A s \in Socks :
       /\ WF_ofClient(part = "client" /\ sockets[s] = "closing" /\ L!Closed(s))
       /\ WF_ofClient(part = "client" /\ L!Attached(s))
       /\ WF_ofClient(part = "client" /\ L!Frame(s))
  /\ \A p \in Pushes : WF_ofGateway(part = "gateway" /\ G!PushStep(p))
  /\ WF_ofGateway(part = "gateway" /\ G!Heartbeat)
  /\ \A s \in Peers : WF_ofGateway(part = "gateway" /\ G!Pong(s))
  /\ \A box \in F!Boxes : WF_ofTable(part = "table" /\ F!TypingStops(box))
  /\ WF_ofTable(part = "table" /\ F!Arrives)
  /\ WF_ofTable(part = "table" /\ F!FirstIsServed)
  /\ WF_ofPolls(part = "polls" /\ screen # "manifest" /\ \E l \in Loads : R!Ask(l))
  /\ \A l \in Loads :
       /\ WF_ofPolls(part = "polls" /\ R!Serve(l))
       /\ WF_ofPolls(part = "polls" /\ (R!Lands(l) \/ R!Ignored(l)))

Spec == Init /\ [][Next]_vars /\ Fairness

-----------------------------------------------------------------------------
\* LiveClient: a screen that is shown always has a way back, and holds one socket, and
\* one more for each return to the tab.  LiveGateway: the cap holds for sockets that
\* arrive one at a time.
ConnectionsAreSound ==
  /\ part = "client" => L!TypeOK /\ L!NeverStranded /\ L!OneSocketPerReturn
  /\ part = "gateway" => G!Consistent

\* LiveClient: a hidden or unmounted screen comes to rest.
ComesToRest == <>[](part = "client" /\ ~L!Awake) => <>[](part = "client" /\ L!AtRest)

\* LiveClient: the server ends up sending the node that is shown, unless it did not listen
\* yet when it was asked to.
WatchesWhatIsShown ==
  \A s \in Socks, n \in Nodes :
    <>[](part = "client" /\ L!Shows(s, n)) =>
      <>[](part = "client" /\ (told[s] = n \/ s \in missed))

\* LiveGateway: no frame after the end of a session, and a peer that answers is never
\* taken for dead.
OnlyTheLiveAreServed ==
  [][part = "gateway" => G!FramesHaveSessions /\ G!HeartbeatKeepsOpen]_vars

\* LiveGateway: clients whose peer is gone or whose session has ended leave.
EndedClientsLeave ==
  \A s \in Peers :
    (part = "gateway" /\ s \in G!Clients /\ G!Over(s))
      ~> (part = "gateway" /\ (s \notin G!Clients \/ ~G!Over(s)))

\* FacetTable: the rows on screen are those the URL asks for.  ScreenPolls: the other
\* screens show what they are about, and never go back in time.
ShowsWhatIsAskedFor ==
  /\ part = "table" => F!RowsAreOfTheUrl
  /\ part = "polls" => R!ShowsItsTarget

\* FacetTable: a link to a page the filters do not reach does not strand the reader.
\* ScreenPolls: a screen that is left open catches up with the server.
ComesToShow ==
  /\ <>[](part = "table" => F!Landed)
  /\ <>[](part = "polls" => R!UpToDate)
=============================================================================
