----------------------------- MODULE ScreenPolls -----------------------------
(***************************************************************************)
(* How the screens of the dashboard get what they show: an effect asks for *)
(* it, and most ask again by an interval (client/src/app/(dash)/page.tsx,  *)
(* hosts/[name], routes/[id], alerts, sessions and layout.tsx,             *)
(* components/command-palette.tsx).  A behaviour is of one of them.        *)
(*                                                                         *)
(* An effect runs again whenever what it is about, the target, changes: a  *)
(* range, a machine, a route, a term, a session; its cleanup has what is   *)
(* under way ignored.  What is shown is an answer of the server: which     *)
(* target it is of, and the time at which it was true.                     *)
(***************************************************************************)
EXTENDS Naturals, FiniteSets

CONSTANTS
  Targets,
  Loads,      \* bound: requests at once
  None,       \* no target: the sheet or the palette is closed, the term too short
  Empty,      \* nothing is shown
  MaxTime,    \* bound: changes at the server
  MaxChanges, \* bound: changes of the target
  MaxFaults   \* bound: requests that fail

VARIABLES
  screen,
  target,
  shown,    \* [target, at], or Empty
  waiting,  \* the timer of the palette runs
  loads,    \* load -> [stage, target, at, ignored, overtaken]
  time,     \* the server's
  landed,   \* history: something was shown since the target changed
  back,     \* history: what was shown was replaced by something older, out of turn
  changes, faults

vars == <<screen, target, shown, waiting, loads, time, landed, back, changes, faults>>

Screens == {"overview", "traffic", "alerts", "host", "resources", "route", "palette", "commands",
            "manifest"}

\* Those that are always about the same.
Fixed == {"overview", "traffic", "alerts", "manifest"}

\* Those that can be closed, which empties them.
Closable == {"palette", "commands"}

\* Mutant: the hardware of a machine is asked for once.
Polled_Once == {"overview", "traffic", "alerts", "host", "route"}

\* Those with an interval.
Polled == {"overview", "traffic", "alerts", "host", "resources", "route"}

\* Those that show nothing after a failure; the others go on showing what they had.
EmptiedByFailure == {"resources", "route", "palette"}

\* The address of a route is decoded at every rendering, into a new object: the effect
\* runs again each time something is shown.
RunsAtEachRendering == {"route"}

Free == [stage |-> "free", target |-> None, at |-> 0, ignored |-> FALSE, overtaken |-> FALSE]
Asked == [Free EXCEPT !.stage = "asked", !.target = target]

\* Mutant: the cleanup clears the interval alone.
Cleanup_Timer == loads

\* cancelled = true
Cleanup == [l \in Loads |-> IF loads[l] = Free THEN Free ELSE [loads[l] EXCEPT !.ignored = TRUE]]

\* The effect of another target: a request at once, or, in the palette, after a while.
Change(t, l) ==
  /\ t # target /\ screen \notin Fixed
  /\ changes < MaxChanges /\ changes' = changes + 1
  /\ target' = t
  /\ landed' = FALSE
  /\ waiting' = (screen = "palette" /\ t # None)
  /\ IF t = None
     THEN screen \in Closable /\ shown' = Empty /\ loads' = Cleanup
     ELSE /\ UNCHANGED shown
          /\ IF screen = "palette" THEN loads' = Cleanup
             ELSE /\ loads[l] = Free
                  /\ loads' = [Cleanup EXCEPT ![l] = [Asked EXCEPT !.target = t]]
  /\ UNCHANGED <<screen, time, back, faults>>

\* The timer of the palette; the interval of the others; a refresh of the manifest, once
\* an override was set or a sweep asked for.
Ask(l) ==
  /\ \/ waiting
     \/ screen \in Polled /\ target # None
     \/ screen = "manifest"
  /\ loads[l] = Free
  /\ waiting' = FALSE
  /\ loads' = [loads EXCEPT ![l] = Asked]
  /\ UNCHANGED <<screen, target, shown, time, landed, back, changes, faults>>

Serve(l) ==
  /\ loads[l].stage = "asked"
  /\ loads' = [loads EXCEPT ![l].stage = "served", ![l].at = time]
  /\ UNCHANGED <<screen, target, shown, waiting, time, landed, back, changes, faults>>

\* The request is over.
Over(l) == [loads EXCEPT ![l] = Free]

\* What the rendering that follows does: nothing, or the effect once more.
Rendered(l, rest) ==
  loads' = IF screen \in RunsAtEachRendering
           THEN [k \in Loads |->
                   IF k = l THEN Asked
                   ELSE IF rest[k] = Free THEN Free ELSE [rest[k] EXCEPT !.ignored = TRUE]]
           ELSE rest

Lands(l) ==
  /\ loads[l].stage = "served" /\ ~loads[l].ignored
  /\ shown' = [target |-> loads[l].target, at |-> loads[l].at]
  /\ landed' = TRUE
  /\ back' = (back \/ (shown # Empty /\ shown.target = loads[l].target
                         /\ shown.at > loads[l].at /\ ~loads[l].overtaken))
  /\ Rendered(l, [k \in Loads |->
                    IF k = l THEN Free
                    ELSE IF loads[k].stage = "served" THEN [loads[k] EXCEPT !.overtaken = TRUE]
                    ELSE loads[k]])
  /\ UNCHANGED <<screen, target, waiting, time, changes, faults>>

Fails(l) ==
  /\ loads[l].stage # "free" /\ ~loads[l].ignored
  /\ faults < MaxFaults /\ faults' = faults + 1
  /\ IF screen \in EmptiedByFailure
     THEN shown' = Empty /\ landed' = TRUE /\ Rendered(l, Over(l))
     ELSE loads' = Over(l) /\ UNCHANGED <<shown, landed>>
  /\ UNCHANGED <<screen, target, waiting, time, back, changes>>

\* An answer, or a failure, of an effect that is over.
Ignored(l) ==
  /\ loads[l].stage # "free" /\ loads[l].ignored
  /\ loads' = Over(l)
  /\ UNCHANGED <<screen, target, shown, waiting, time, landed, back, changes, faults>>

Tick ==
  /\ time < MaxTime /\ time' = time + 1
  /\ UNCHANGED <<screen, target, shown, waiting, loads, landed, back, changes, faults>>

Init ==
  /\ screen \in Screens
  /\ target \in IF screen \in Closable THEN {None} ELSE Targets
  /\ shown = Empty /\ waiting = FALSE
  /\ \E first \in Loads :
       loads = [l \in Loads |-> IF l = first /\ target # None THEN Asked ELSE Free]
  /\ time = 0 /\ landed = FALSE /\ back = FALSE /\ changes = 0 /\ faults = 0

Next ==
  \/ \E t \in Targets \cup {None}, l \in Loads : Change(t, l)
  \/ \E l \in Loads : Ask(l) \/ Serve(l) \/ Lands(l) \/ Fails(l) \/ Ignored(l)
  \/ Tick

\* The interval fires and every request comes to an end.
Fairness ==
  /\ WF_vars(screen # "manifest" /\ \E l \in Loads : Ask(l))
  /\ \A l \in Loads : WF_vars(Serve(l)) /\ WF_vars(Lands(l) \/ Ignored(l))

Spec == Init /\ [][Next]_vars /\ Fairness

-----------------------------------------------------------------------------
(* Properties.                                                             *)

\* A screen shows what it is about, unless what it was about before is still there because
\* nothing has come since it changed; and it goes back in time only if two answers crossed.
ShowsItsTarget ==
  /\ shown # Empty => shown.target = target \/ ~landed
  /\ ~back

\* The screens that are left open.
LeftOpen == Screens \ (Closable \cup {"manifest"})

UpToDate == screen \in LeftOpen => shown # Empty /\ shown.target = target /\ shown.at = time

\* A screen that is left open comes to show what the server has now, after failures too.
CatchesUp == <>[]UpToDate
=============================================================================
