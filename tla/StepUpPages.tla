----------------------------- MODULE StepUpPages -----------------------------
(***************************************************************************)
(* The screens that ask for the password again before each change: the     *)
(* tokens of agents, the accounts, and a backup made by hand               *)
(* (client/src/app/(dash)/settings/{agents,accounts,backups}/page.tsx),    *)
(* with the tokens of agents at the server (auth/agents.service.ts,        *)
(* db/agent-tokens.repo.ts).  A behaviour is of one of the three.          *)
(*                                                                         *)
(* A row of the list has a name, a secret and a role; the secret of an     *)
(* agent is its token, that of an account its password, and only the hash  *)
(* is kept: who asked for one sees it in a dialog, once.  A dialog may be  *)
(* cancelled while its request is under way.  What the server checks of an *)
(* account is in Accounts; here it is found or not, and may be refused.    *)
(***************************************************************************)
EXTENDS Naturals

CONSTANTS
  Names,
  Calls,       \* bound: requests of the page at once
  None,
  MaxSecrets,  \* bound: rows and secrets that are made
  MaxFaults    \* bound: requests given up, lists not had, changes by somebody else

StepUpPagesAssumption == None \notin Calls

VARIABLES
  page,     \* "agents", "accounts", "backups"
  secret,   \* name -> its secret, 0 where there is no row
  role,     \* name -> its role
  listed,   \* the state agents, accounts or status of the page: name -> what is shown
  pending,  \* the state pending: the dialog [kind, name, call], or None
  issued,   \* the state issued: the secret that is shown [name, secret], or None
  calls,    \* call -> [stage, kind, name, role, secret, heard, rows]
  minted,
  seen,     \* history: secrets in force that were shown
  rivals,   \* history: names for which two requests were under way, or that others changed
  excuses,  \* history: what else may leave the screen behind
  faults

screen == <<listed, pending, issued>>
rows == <<secret, role>>
history == <<seen, rivals, excuses, faults>>
vars == <<page, rows, screen, calls, minted, history>>

\* The changes each page offers, and what they need of the row they are about.  The row
\* of a backup stands for the newest one.
Upserts == {"issue"}
Creates == {"create"}
OfRow == {"revoke", "reset", "role", "delete"}
Removes == {"revoke", "delete"}
Mints == {"issue", "create", "reset"}
Kinds ==
  CASE page = "agents" -> {"issue", "revoke"}
    [] page = "accounts" -> {"create", "reset", "role", "delete"}
    [] page = "backups" -> {"run"}

Roles == IF page = "accounts" THEN {"admin", "viewer"} ELSE {"row"}
Rows == {n \in Names : secret[n] # 0}
Gone == [role |-> "gone", since |-> 0]

\* What is shown of a row: since when a token or a backup is there, or the role.
Listing ==
  [n \in Names |->
     IF n \notin Rows THEN Gone
     ELSE [role |-> role[n], since |-> IF page = "accounts" THEN 0 ELSE secret[n]]]

Idle == [stage |-> "idle", kind |-> "", name |-> None, role |-> "", secret |-> 0,
         heard |-> TRUE, rows |-> <<>>]
Loading == [Idle EXCEPT !.stage = "listing"]

\* Requests for a change, as opposed to a list.
Changing(c) == calls[c].stage \in {"asked", "found", "done", "refused"}
Rivals(n) == {c \in Calls : Changing(c) /\ calls[c].name = n}

-----------------------------------------------------------------------------
(* The page.                                                               *)

\* A button of the page or of a row: a dialog that is open covers them.
Open(kind, n) ==
  /\ pending = None /\ issued = None
  /\ kind \in Kinds
  /\ kind \in OfRow => listed[n] # Gone
  /\ \* The dialog of a backup keeps its state while it is closed; the others start anew.
     LET running == {c \in Calls : calls[c].kind = "run"} IN
     pending' = [kind |-> kind, name |-> IF kind \in OfRow THEN n ELSE None,
                 call |-> IF running = {} THEN None ELSE CHOOSE c \in running : TRUE]
  /\ UNCHANGED <<page, rows, listed, issued, calls, minted, history>>

Cancel ==
  /\ pending # None
  /\ pending' = None
  /\ UNCHANGED <<page, rows, listed, issued, calls, minted, history>>

\* submit(), disabled while busy.
Submit(c, n, r) ==
  /\ pending # None /\ pending.call = None
  /\ calls[c] = Idle
  /\ pending.kind \in OfRow => n = pending.name
  /\ pending' = [pending EXCEPT !.call = c]
  /\ calls' = [calls EXCEPT ![c] = [Idle EXCEPT !.stage = "asked", !.kind = pending.kind,
                                                !.name = n, !.role = r]]
  /\ rivals' = IF Rivals(n) = {} THEN rivals ELSE rivals \cup {n}
  /\ UNCHANGED <<page, rows, listed, issued, minted, seen, excuses, faults>>

Dismiss ==
  /\ issued # None
  /\ issued' = None
  /\ UNCHANGED <<page, rows, listed, pending, calls, minted, history>>

\* Mutant: the list is not read again.
After_Stays(c) == Idle

\* await load(), in onDone.
After(c) == [Loading EXCEPT !.kind = IF calls[c].kind = "run" THEN "run" ELSE ""]

\* onDone: it closes the dialog that is open, whichever that is.
Done(c) ==
  /\ calls[c].stage = "done" /\ calls[c].heard
  /\ pending' = None
  /\ issued' = IF calls[c].kind \in Mints
               THEN [name |-> calls[c].name, secret |-> calls[c].secret] ELSE issued
  /\ calls' = [calls EXCEPT ![c] = After(c)]
  /\ seen' = (seen \cup {calls[c].secret}) \cap {secret[n] : n \in Rows}
  /\ UNCHANGED <<page, rows, listed, minted, rivals, excuses, faults>>

\* setError, setBusy(false): seen only in the dialog that asked.
Freed(c) ==
  pending' = IF pending # None /\ pending.call = c THEN [pending EXCEPT !.call = None] ELSE pending

Refused(c) ==
  /\ calls[c].stage = "refused"
  /\ calls' = [calls EXCEPT ![c] = Idle]
  /\ IF calls[c].heard THEN Freed(c) ELSE UNCHANGED pending
  /\ UNCHANGED <<page, rows, listed, issued, minted, history>>

Fault(excuse) ==
  /\ faults < MaxFaults
  /\ faults' = faults + 1
  /\ excuses' = excuses \cup {excuse}

\* The answer tells them of no result, whether the server did what it was asked or not:
\* "Could not reach the server.  Try again."; "That did not work.", a 500 after the write,
\* as when the audit record cannot be stored; or they left the page.
GivesUp(c) ==
  /\ Changing(c) /\ calls[c].heard
  /\ calls' = [calls EXCEPT ![c].heard = FALSE]
  /\ Freed(c)
  /\ Fault("unheard")
  /\ UNCHANGED <<page, rows, listed, issued, minted, seen, rivals>>

\* A request nobody waits for any more is over.
Unheard(c) ==
  /\ calls[c].stage = "done" /\ ~calls[c].heard
  /\ calls' = [calls EXCEPT ![c] = Idle]
  /\ UNCHANGED <<page, rows, screen, minted, history>>

\* setAgents, setAccounts, setStatus.
ListArrives(c) ==
  /\ calls[c].stage = "listed"
  /\ listed' = calls[c].rows
  /\ calls' = [calls EXCEPT ![c] = Idle]
  /\ excuses' = IF \E d \in Calls \ {c} : calls[d].stage = "listed"
                THEN excuses \cup {"crossed"} ELSE excuses
  /\ IF calls[c].kind = "run" THEN Freed(c) ELSE UNCHANGED pending
  /\ UNCHANGED <<page, rows, issued, minted, seen, rivals, faults>>

\* The list that follows a change fails: its dialog is gone, and nothing says so.
ListFails(c) ==
  /\ calls[c].stage \in {"listing", "listed"}
  /\ calls' = [calls EXCEPT ![c] = Idle]
  /\ Fault("unlisted")
  /\ IF calls[c].kind = "run" THEN Freed(c) ELSE UNCHANGED pending
  /\ UNCHANGED <<page, rows, listed, issued, minted, seen, rivals>>

-----------------------------------------------------------------------------
(* The server.                                                             *)

Becomes(c, stage) == calls' = [calls EXCEPT ![c].stage = stage]

\* A wrong password, a name that is not allowed, oneself, the last manager.
Refuse(c) ==
  /\ calls[c].stage = "asked"
  /\ Becomes(c, "refused")
  /\ UNCHANGED <<page, rows, screen, minted, history>>

\* AgentsService.revoke lists the tokens first, an account is looked for by name or id.
Find(c) ==
  LET found == calls[c].name \in Rows IN
  /\ calls[c].stage = "asked"
  /\ calls[c].kind \in OfRow \cup Creates
  /\ Becomes(c, IF found = (calls[c].kind \in OfRow) THEN "found" ELSE "refused")
  /\ UNCHANGED <<page, rows, screen, minted, history>>

Ready(c) ==
  \/ calls[c].stage = "asked" /\ calls[c].kind \in Upserts \cup {"run"}
  \/ calls[c].stage = "found"

Makes(c) == calls[c].kind \in Mints \cup {"run"}
NewSecret == minted + 1

\* Mutant: a token that was issued before stays.
Written_Keeps(c, n) ==
  IF n = calls[c].name /\ n \notin Rows THEN NewSecret ELSE secret[n]

\* The secrets after c has made its own: an update of a row that is gone updates none.
Written(c, n) ==
  IF n = calls[c].name /\ (n \in Rows \/ calls[c].kind # "reset") THEN NewSecret ELSE secret[n]

\* Two accounts have no name in common.
Conflicts(c) == calls[c].kind = "create" /\ calls[c].name \in Rows

Write(c) ==
  /\ Ready(c) /\ ~Conflicts(c)
  /\ LET n == calls[c].name
         kind == calls[c].kind
     IN
     /\ secret' =
          IF kind \in Removes THEN [secret EXCEPT ![n] = 0]
          ELSE IF Makes(c) THEN [m \in Names |-> Written(c, m)] ELSE secret
     /\ role' = IF n \in Rows /\ kind # "role" THEN role ELSE [role EXCEPT ![n] = calls[c].role]
     /\ IF Makes(c)
        THEN minted < MaxSecrets /\ minted' = NewSecret ELSE UNCHANGED minted
  /\ calls' = [calls EXCEPT ![c].stage = "done", ![c].secret = IF Makes(c) THEN NewSecret ELSE 0]
  /\ UNCHANGED <<page, screen, history>>

WriteFails(c) ==
  /\ Ready(c) /\ Conflicts(c)
  /\ Becomes(c, "refused")
  /\ UNCHANGED <<page, rows, screen, minted, history>>

\* GET of the list.
Serve(c) ==
  /\ calls[c].stage = "listing"
  /\ calls' = [calls EXCEPT ![c].stage = "listed", ![c].rows = Listing]
  /\ UNCHANGED <<page, rows, screen, minted, history>>

\* Somebody else at another screen.
Other(n) ==
  /\ \/ n \in Rows /\ secret' = [secret EXCEPT ![n] = 0] /\ UNCHANGED minted
     \/ minted < MaxSecrets /\ minted' = NewSecret /\ secret' = [secret EXCEPT ![n] = NewSecret]
  /\ role' = [role EXCEPT ![n] = CHOOSE r \in Roles : TRUE]
  /\ rivals' = rivals \cup {n}
  /\ seen' = (seen \cup {secret'[n]}) \cap {secret'[m] : m \in Names}
  /\ Fault("others")
  /\ UNCHANGED <<page, screen, calls>>

Init ==
  /\ page \in {"agents", "accounts", "backups"}
  /\ \E there \in {{}} \cup {{n} : n \in Names} :
       /\ secret = [n \in Names |-> IF n \in there THEN 1 ELSE 0]
       /\ minted = IF there = {} THEN 0 ELSE 1
  /\ role = [n \in Names |-> CHOOSE r \in Roles : TRUE]
  /\ listed = [n \in Names |-> Gone]
  /\ pending = None /\ issued = None
  /\ \E c \in Calls : calls = [d \in Calls |-> IF d = c THEN Loading ELSE Idle]
  /\ seen = {secret[n] : n \in Rows} /\ rivals = {} /\ excuses = {} /\ faults = 0

Next ==
  \/ \E kind \in Kinds, n \in Names : Open(kind, n)
  \/ Cancel \/ Dismiss
  \/ \E c \in Calls :
       \/ \E n \in Names, r \in Roles : Submit(c, n, r)
       \/ Done(c) \/ Refused(c) \/ GivesUp(c) \/ Unheard(c)
       \/ ListArrives(c) \/ ListFails(c)
       \/ Refuse(c) \/ Find(c) \/ Write(c) \/ WriteFails(c) \/ Serve(c)
  \/ \E n \in Names : Other(n)

Spec == Init /\ [][Next]_vars

-----------------------------------------------------------------------------
(* Properties.                                                             *)

\* A secret that is shown is the one that is in force, unless its name was changed by two
\* requests at once or by somebody else.
ShownWorks == issued # None => secret[issued.name] = issued.secret \/ issued.name \in rivals

\* "Shown once": a secret in force was shown to who asked for it, or is about to be, unless
\* the answer never told them: the server could not be reached, it failed after the write,
\* or they left the page.
InForceWasShown ==
  page # "backups" =>
    \A n \in Rows :
      \/ secret[n] \in seen
      \/ \E c \in Calls : calls[c].stage = "done" /\ calls[c].secret = secret[n]
      \/ "unheard" \in excuses

\* What a page shows, once nothing is under way, is what the server has, unless somebody
\* else changed it, a list failed, an answer was not heard or two lists crossed.
ListIsCurrent ==
  (\A c \in Calls : calls[c] = Idle) /\ excuses = {} => listed = Listing

\* A page has one backup made by hand at a time: its dialog stays busy when it is closed.
OneRunAtATime ==
  "unheard" \notin excuses =>
    \A c, d \in Calls : calls[c].kind = "run" /\ calls[d].kind = "run" => c = d
=============================================================================
