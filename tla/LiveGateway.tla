---------------------------- MODULE LiveGateway -----------------------------
(***************************************************************************)
(* The server's end of the live connection: http/ws.gateway.ts.  Sockets   *)
(* are admitted under a cap once their session was validated; every second *)
(* a push validates each client's session again and sends it a frame; every *)
(* half minute a heartbeat drops who did not answer the last one.          *)
(*                                                                         *)
(* A validation is a read of the sessions table and, an await later, what  *)
(* is done with the answer.  A push may still run when the next one starts. *)
(* A session is `ended` by a logout, a password, its age or its account.   *)
(* Left out: what a frame contains, and the node a client watches.         *)
(***************************************************************************)
EXTENDS Naturals, FiniteSets

CONSTANTS
  Socks,           \* sockets, used again once they are gone
  Sids,            \* sessions
  Pushes,          \* pushes that run at a time
  MAX_CONNECTIONS

LiveGatewayAssumption == IsFiniteSet(Socks) /\ Sids # {} /\ MAX_CONNECTIONS \in Nat \ {0}

VARIABLES
  stage,    \* socket -> none, checking, valid or refused (the answer), client
  link,     \* socket -> open, lost (nobody has noticed), closed
  session,  \* socket -> the session of its cookie
  alive,    \* socket -> client.alive
  asked,    \* sockets pinged that have not answered
  sessions, \* sessions that are alive
  pushes,   \* push -> what it has yet to visit, and whom it validates now
  grace,    \* history: validations that came out before the session ended
  crowded   \* history: a socket arrived while another was being validated

vars == <<stage, link, session, alive, asked, sessions, pushes, grace, crowded>>

-----------------------------------------------------------------------------
Clients == {s \in Socks : stage[s] = "client"}
Validating == {s \in Socks : stage[s] \in {"checking", "valid", "refused"}}

Resting == [run |-> FALSE]
Nobody == [on |-> FALSE]
Answer(s, ok) == [on |-> TRUE, of |-> s, ok |-> ok]
Push(todo, now) == [run |-> TRUE, todo |-> todo, now |-> now]

Visits(p, s) == pushes[p].run /\ pushes[p].now.on /\ pushes[p].now.of = s
InUse(s) == \E p \in Pushes :
              pushes[p].run /\ (s \in pushes[p].todo \/ Visits(p, s))

\* Mutant: a client was validated once and for all.
Validated_AtConnect(s) == stage[s] = "client" \/ session[s] \in sessions

\* auth.validate
Validated(s) == session[s] \in sessions

\* Removed from #clients, and its socket closed or terminated.
Drop(s) ==
  /\ stage' = [stage EXCEPT ![s] = "none"]
  /\ link' = [link EXCEPT ![s] = "closed"]
  /\ asked' = asked \ {s}

-----------------------------------------------------------------------------
(* Connections.                                                            *)

Full == Cardinality(Clients) >= MAX_CONNECTIONS

\* #onConnection up to its first await.
Arrive(s, x) ==
  /\ stage[s] = "none" /\ ~InUse(s)
  /\ ~Full
  /\ stage' = [stage EXCEPT ![s] = "checking"]
  /\ link' = [link EXCEPT ![s] = "open"]
  /\ session' = [session EXCEPT ![s] = x]
  /\ crowded' = (crowded \/ Validating # {})
  /\ UNCHANGED <<alive, asked, sessions, pushes, grace>>

\* The server is full, or the cookie is not one of ours.
TurnedAway(s) ==
  /\ stage[s] = "none" /\ ~InUse(s)
  /\ UNCHANGED vars

Check(s) ==
  /\ stage[s] = "checking"
  /\ stage' = [stage EXCEPT ![s] = IF session[s] \in sessions THEN "valid"
                                                              ELSE "refused"]
  /\ UNCHANGED <<link, session, alive, asked, sessions, pushes, grace, crowded>>

\* Added to #clients, whatever became of the socket: its events had no
\* listener until now.
Admit(s) ==
  /\ stage[s] = "valid"
  /\ stage' = [stage EXCEPT ![s] = "client"]
  /\ alive' = [alive EXCEPT ![s] = TRUE]
  /\ UNCHANGED <<link, session, asked, sessions, pushes, grace, crowded>>

Refuse(s) ==
  /\ stage[s] = "refused"
  /\ Drop(s)
  /\ UNCHANGED <<session, alive, sessions, pushes, grace, crowded>>

\* The peer closes, or its connection fails where the server can see it.
OnClose(s) ==
  IF s \in Clients
    THEN /\ stage' = [stage EXCEPT ![s] = "none"]
         /\ asked' = asked \ {s}
    ELSE UNCHANGED <<stage, asked>>

Close(s) ==
  /\ stage[s] # "none" /\ link[s] # "closed"
  /\ link' = [link EXCEPT ![s] = "closed"]
  /\ OnClose(s)
  /\ UNCHANGED <<session, alive, sessions, pushes, grace, crowded>>

\* The peer goes away and says nothing.
Lose(s) ==
  /\ stage[s] # "none" /\ link[s] = "open"
  /\ link' = [link EXCEPT ![s] = "lost"]
  /\ UNCHANGED <<stage, session, alive, asked, sessions, pushes, grace, crowded>>

-----------------------------------------------------------------------------
(* Pushes.                                                                 *)

StartPush(p) ==
  /\ ~pushes[p].run
  /\ Clients # {}
  /\ pushes' = [pushes EXCEPT ![p] = Push(Clients, Nobody)]
  /\ UNCHANGED <<stage, link, session, alive, asked, sessions, grace, crowded>>

\* The sessions table answers for the next of the clients there were.
Read(p, s) ==
  /\ pushes[p].run /\ ~pushes[p].now.on
  /\ s \in pushes[p].todo
  /\ pushes' = [pushes EXCEPT ![p] =
                  Push(@.todo \ {s}, Answer(s, Validated(s)))]
  /\ UNCHANGED <<stage, link, session, alive, asked, sessions, grace, crowded>>

\* Whether the client of the answer is served after it.
MayServe(p, s) == Visits(p, s) /\ pushes[p].now.ok

Evict(s) == Drop(s)

\* What the push does with the answer: a frame, if the socket is open, or the
\* end of the connection.
Act(p, s) ==
  /\ Visits(p, s)
  /\ IF pushes[p].now.ok \/ stage[s] = "none"
       THEN UNCHANGED <<stage, link, asked>>
       ELSE Evict(s)
  /\ pushes' = [pushes EXCEPT ![p] = Push(@.todo, Nobody)]
  /\ grace' = grace \ {<<p, s>>}
  /\ UNCHANGED <<session, alive, sessions, crowded>>

EndPush(p) ==
  /\ pushes[p].run
  /\ pushes[p].todo = {} /\ ~pushes[p].now.on
  /\ pushes' = [pushes EXCEPT ![p] = Resting]
  /\ UNCHANGED <<stage, link, session, alive, asked, sessions, grace, crowded>>

-----------------------------------------------------------------------------
(* Heartbeats.                                                             *)

\* Mutant: only sockets known to be closed are terminated.
Dead_IfClosed(s) == ~alive[s] /\ link[s] = "closed"

\* Whoever did not answer the last ping is terminated, the others are pinged.
\* Half a minute is time for every peer that is there to have answered.
Dead(s) == ~alive[s]
Heartbeat ==
  /\ Clients # {}
  /\ \A s \in asked : link[s] # "open"
  /\ LET dead == {s \in Clients : Dead(s)} IN
     /\ stage' = [s \in Socks |-> IF s \in dead THEN "none" ELSE stage[s]]
     /\ link' = [s \in Socks |-> IF s \in dead THEN "closed" ELSE link[s]]
     /\ alive' = [s \in Socks |-> IF s \in Clients \ dead THEN FALSE ELSE alive[s]]
     /\ asked' = (Clients \ dead) \cup (asked \ dead)
  /\ UNCHANGED <<session, sessions, pushes, grace, crowded>>

\* The pong, or the answer to the ping that travels as data.
Answered(s) == TRUE
Pong(s) ==
  /\ s \in asked /\ link[s] = "open"
  /\ asked' = asked \ {s}
  /\ alive' = [alive EXCEPT ![s] = Answered(s)]
  /\ UNCHANGED <<stage, link, session, sessions, pushes, grace, crowded>>

-----------------------------------------------------------------------------
(* Sessions, and the process.                                              *)

\* A session ends; the answers already given stand.
EndSession(x) ==
  /\ x \in sessions
  /\ sessions' = sessions \ {x}
  /\ grace' = grace \cup
       {v \in Pushes \X Socks : session[v[2]] = x /\ MayServe(v[1], v[2])}
  /\ UNCHANGED <<stage, link, session, alive, asked, pushes, crowded>>

NewSession(x) ==
  /\ x \notin sessions
  /\ \A s \in Socks : session[s] = x => stage[s] = "none" /\ ~InUse(s)
  /\ sessions' = sessions \cup {x}
  /\ UNCHANGED <<stage, link, session, alive, asked, pushes, grace, crowded>>

\* The process ends: it is replaced, or a validation throws where nobody
\* catches it.  The next one starts with no sockets.
Restart ==
  /\ stage' = [s \in Socks |-> "none"]
  /\ link' = [s \in Socks |-> "closed"]
  /\ asked' = {}
  /\ pushes' = [p \in Pushes |-> Resting]
  /\ grace' = {}
  /\ UNCHANGED <<session, alive, sessions, crowded>>

-----------------------------------------------------------------------------
Init ==
  /\ stage = [s \in Socks |-> "none"]
  /\ link = [s \in Socks |-> "closed"]
  /\ session \in [Socks -> {CHOOSE x \in Sids : TRUE}]
  /\ alive = [s \in Socks |-> TRUE]
  /\ asked = {}
  /\ sessions = Sids
  /\ pushes = [p \in Pushes |-> Resting]
  /\ grace = {}
  /\ crowded = FALSE

PushStep(p) ==
  \/ StartPush(p)
  \/ \E s \in Socks : Read(p, s) \/ Act(p, s)
  \/ EndPush(p)

Next ==
  \/ \E s \in Socks :
       \/ \E x \in Sids : Arrive(s, x)
       \/ TurnedAway(s) \/ Check(s) \/ Admit(s) \/ Refuse(s)
       \/ Close(s) \/ Lose(s) \/ Pong(s)
  \/ \E p \in Pushes : PushStep(p)
  \/ Heartbeat
  \/ \E x \in Sids : EndSession(x) \/ NewSession(x)
  \/ Restart

Spec == Init /\ [][Next]_vars

\* The timers go off, statements are answered, and peers answer pings.
FairSpec ==
  /\ Spec
  /\ \A p \in Pushes : WF_vars(PushStep(p))
  /\ WF_vars(Heartbeat)
  /\ \A s \in Socks : WF_vars(Pong(s))

-----------------------------------------------------------------------------
(* Properties.                                                             *)

Answers == {Nobody} \cup [on : {TRUE}, of : Socks, ok : BOOLEAN]
Runs == [run : {TRUE}, todo : SUBSET Socks, now : Answers]

\* A socket that is neither on the list nor being validated is closed.
TypeOK ==
  /\ stage \in [Socks -> {"none", "checking", "valid", "refused", "client"}]
  /\ link \in [Socks -> {"open", "lost", "closed"}]
  /\ \A s \in Socks : stage[s] = "none" => link[s] = "closed"
  /\ session \in [Socks -> Sids]
  /\ alive \in [Socks -> BOOLEAN]
  /\ asked \subseteq Clients
  /\ sessions \subseteq Sids
  /\ pushes \in [Pushes -> Runs \cup {Resting}]
  /\ grace \subseteq Pushes \X Socks
  /\ crowded \in BOOLEAN

\* "A cap so one client cannot exhaust the server's sockets", as long as
\* sockets arrive one at a time: the size is read before two awaits and the
\* client added after them.
CappedUnlessCrowded ==
  ~crowded => Cardinality(Clients) + Cardinality(Validating) <= MAX_CONNECTIONS

\* What every state of the list and its sockets has in common.
Consistent == TypeOK /\ CappedUnlessCrowded

Serves(p, s) == MayServe(p, s) /\ Act(p, s) /\ s \in Clients /\ link[s] # "closed"

FramesHaveSessions ==
  \A p \in Pushes, s \in Socks :
    Serves(p, s) /\ session[s] \notin sessions => <<p, s>> \in grace

\* "The session is revalidated on every push": once a session has ended no
\* frame is sent on it but by a push that had its answer before.
NoFrameAfterEnd == [][FramesHaveSessions]_vars

HeartbeatKeepsOpen ==
  Heartbeat => \A s \in Clients : link[s] = "open" => s \in Clients'

\* A peer that answers is never taken for dead: only its own close, the end of
\* its session or of the process takes it off the list.
HealthyStay == [][HeartbeatKeepsOpen]_vars

Over(s) == link[s] # "open" \/ session[s] \notin sessions

\* A client whose peer is gone, seen or unseen, even one that was gone before
\* it was admitted, and one whose session has ended do not hold their place for
\* ever, nor keep being admitted.
EndedClientsLeave ==
  \A s \in Socks : (s \in Clients /\ Over(s)) ~> (s \notin Clients \/ ~Over(s))
=============================================================================
