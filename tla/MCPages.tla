------------------------------- MODULE MCPages ------------------------------
(***************************************************************************)
(* What a person sees and changes at a page: the dialogs that ask for the  *)
(* password again (StepUpPages), the forms of the settings                 *)
(* (SettingsForms), and the figures of a machine (LiveFigures), put        *)
(* together for TLC and for the theorems of PagesProofs.                   *)
(*                                                                         *)
(* A behaviour is one of one of them, `part`; the variables of the others  *)
(* stay 0, and `excuses`, `loads` and `faults` are those of the part.      *)
(***************************************************************************)
EXTENDS Naturals, TLC

CONSTANTS
  None,
  \* StepUpPages.
  Names, Calls, MaxSecrets, MaxFaults,
  \* SettingsForms.
  Fields, Values, Loads, MaxTypings,
  \* LiveFigures.
  STALE, LATENESS, EVERY, WINDOW, Signal, MaxClock, MaxLoads, MaxWay, MaxAsks, MaxLapses

VARIABLES
  part,
  page, secret, role, listed, pending, issued, calls, minted, seen, rivals,
  form, stored, open, draft, saved, busy, save, orphans, test, proved, typed, typings,
  clock, latest, host, disordered, up, asked, way, shown, tail, history, crossed, asks,
  excuses, loads, faults

D == INSTANCE StepUpPages
S == INSTANCE SettingsForms
F == INSTANCE LiveFigures WITH MaxFaults <- MaxLapses

ASSUME StepUpPagesAssumption == D!StepUpPagesAssumption
ASSUME LiveFiguresAssumption == F!LiveFiguresAssumption

ofDialogs == <<page, secret, role, listed, pending, issued, calls, minted, seen, rivals>>
ofForms == <<form, stored, open, draft, saved, busy, save, orphans, test, proved, typed, typings>>
ofFigures == <<clock, latest, host, disordered, up, asked, way, shown, tail, history, crossed,
               asks>>
vars == <<part, ofDialogs, ofForms, ofFigures, excuses, loads, faults>>

NoDialogs ==
  /\ page = 0 /\ secret = 0 /\ role = 0 /\ listed = 0 /\ pending = 0 /\ issued = 0
  /\ calls = 0 /\ minted = 0 /\ seen = 0 /\ rivals = 0
NoForms ==
  /\ form = 0 /\ stored = 0 /\ open = 0 /\ draft = 0 /\ saved = 0 /\ busy = 0 /\ save = 0
  /\ orphans = 0 /\ test = 0 /\ proved = 0 /\ typed = 0 /\ typings = 0
NoFigures ==
  /\ clock = 0 /\ latest = 0 /\ host = 0 /\ disordered = 0 /\ up = 0 /\ asked = 0 /\ way = 0
  /\ shown = 0 /\ tail = 0 /\ history = 0 /\ crossed = 0 /\ asks = 0

Init ==
  \/ part = "dialogs" /\ D!Init /\ NoForms /\ NoFigures /\ loads = 0
  \/ part = "forms" /\ S!Init /\ NoDialogs /\ NoFigures
  \/ part = "figures" /\ F!Init /\ NoDialogs /\ NoForms /\ excuses = 0

Next ==
  \/ part = "dialogs" /\ D!Next /\ UNCHANGED <<part, ofForms, ofFigures, loads>>
  \/ part = "forms" /\ S!Next /\ UNCHANGED <<part, ofDialogs, ofFigures>>
  \/ part = "figures" /\ F!Next /\ UNCHANGED <<part, ofDialogs, ofForms, excuses>>

Spec == Init /\ [][Next]_vars

\* StepUpPages: a token or a one-time password that is shown works, and each one in force
\* was shown, but for known reasons.
SecretsReachTheirReader == part = "dialogs" => D!ShownWorks /\ D!InForceWasShown

\* StepUpPages: a list shows what the server has once nothing is under way, and a backup
\* made by hand is made once.
ListsAreCurrent == part = "dialogs" => D!ListIsCurrent /\ D!OneRunAtATime

\* SettingsForms: a save changes what was typed over and nothing else.
SavesWhatWasTyped == part = "forms" => S!SavesWhatWasTyped

\* SettingsForms: a test sends what is on screen.
TestsWhatIsShown == part = "forms" => S!TestsWhatIsShown

\* LiveFigures: charts move forward and end where the cards are.
ChartsMoveForward == part = "figures" => F!ChartsMoveForward

Symmetry == Permutations(Calls) \cup Permutations(Fields)
=============================================================================
