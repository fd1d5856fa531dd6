---------------------------- MODULE SettingsForms ----------------------------
(***************************************************************************)
(* The two forms of the settings: the screen of the notifications and the  *)
(* dialog of the backup destination (client/src/app/(dash)/settings/       *)
(* notifications/page.tsx, channel-card.tsx, backups/destination-dialog.   *)
(* tsx, lib/notify-form.ts).  A behaviour is of one of the two.            *)
(*                                                                         *)
(* A form gets the whole document from the server, lets it be typed over,  *)
(* and sends the whole of it back; what the server does with it is in      *)
(* Settings.  Here a document has a few fields, which may be empty.  The   *)
(* screen gets it when it opens and after a save; the dialog whenever it   *)
(* is opened, and keeps what it had until the document has come.           *)
(***************************************************************************)
EXTENDS Naturals, FiniteSets

CONSTANTS
  Fields, Values,  \* Values with "", an empty field
  Loads,           \* bound: requests for the document at once
  None,
  MaxTypings,      \* bound: fields typed over
  MaxFaults        \* bound: requests given up, and saves by somebody else

VARIABLES
  form,     \* "screen" or "dialog"
  stored,   \* the document of the server
  open,     \* the dialog is open; the screen always is
  draft,    \* the states draft and input: the document that is shown, or None
  saved,    \* the state saved of the screen
  busy,     \* the state busy
  save,     \* the request under way: [stage, doc, typed, excused], or None
  orphans,  \* saves that were given up and that the server has yet to do
  loads,    \* load -> [stage, doc]
  test,     \* a test under way: the document shown when it was asked for, or None
  proved,   \* history: documents a test was sent with, and what was shown
  typed,    \* history: fields typed over since the document came, or the dialog was opened
  excuses,  \* history: why what is shown may not be what the server had
  typings, faults

client == <<open, draft, saved, busy>>
vars == <<form, stored, client, save, orphans, loads, test, proved, typed, excuses, typings,
          faults>>

Docs == [Fields -> Values]
NoLoad == [stage |-> "idle", doc |-> None]
Under(stage) == {l \in Loads : loads[l].stage = stage}

\* isConfigured
Configured(doc) == \A f \in Fields : doc[f] # ""

-----------------------------------------------------------------------------
(* The form.                                                               *)

\* load(), and the effect of an opening.
Loading(l) ==
  /\ loads[l] = NoLoad
  /\ loads' = [loads EXCEPT ![l].stage = "asked"]

\* What the form had, an edit that was given up among it, can be typed over and saved
\* before the document has come.
OpenDialog(l) ==
  /\ form = "dialog" /\ ~open
  /\ open' = TRUE
  /\ Loading(l)
  /\ typed' = {}
  /\ excuses' = excuses \cup {"early"}
  /\ UNCHANGED <<form, stored, draft, saved, busy, save, orphans, test, proved, typings, faults>>

CloseDialog ==
  /\ form = "dialog" /\ open
  /\ open' = FALSE
  /\ UNCHANGED <<form, stored, draft, saved, busy, save, orphans, loads, test, proved, typed,
                 excuses, typings, faults>>

Type(f, v) ==
  /\ open /\ draft # None /\ draft[f] # v
  /\ draft' = [draft EXCEPT ![f] = v]
  /\ typed' = typed \cup {f}
  /\ typings < MaxTypings /\ typings' = typings + 1
  /\ UNCHANGED <<form, stored, open, saved, busy, save, orphans, loads, test, proved, excuses,
                 faults>>

Dirty == draft # saved

MaySave == open /\ draft # None /\ ~busy /\ (form = "screen" => Dirty)

Save ==
  /\ MaySave
  /\ busy' = TRUE
  /\ save' = [stage |-> "asked", doc |-> draft, typed |-> typed, excused |-> excuses \ {"unseen"} # {}]
  /\ orphans' = IF save = None THEN orphans ELSE orphans \cup {save}
  /\ UNCHANGED <<form, stored, open, draft, saved, loads, test, proved, typed, excuses, typings,
                 faults>>

\* The screen gets the document again; the dialog is closed.
Saved(l) ==
  /\ save # None /\ save.stage = "done"
  /\ save' = None
  /\ IF form = "screen"
     THEN Loading(l) /\ UNCHANGED <<busy, open>>
     ELSE busy' = FALSE /\ open' = FALSE /\ UNCHANGED loads
  /\ UNCHANGED <<form, stored, draft, saved, orphans, test, proved, typed, excuses, typings, faults>>

Refused ==
  /\ save # None /\ save.stage = "refused"
  /\ save' = None /\ busy' = FALSE
  /\ UNCHANGED <<form, stored, open, draft, saved, orphans, loads, test, proved, typed, excuses,
                 typings, faults>>

Fault == faults < MaxFaults /\ faults' = faults + 1

\* The request fails for the form, whether the server does it or not.
GivesUp ==
  /\ save # None
  /\ Fault
  /\ save' = None /\ busy' = FALSE
  /\ orphans' = IF save.stage = "asked" THEN orphans \cup {save} ELSE orphans
  /\ UNCHANGED <<form, stored, open, draft, saved, loads, test, proved, typed, excuses, typings>>

\* Mutant: the dialog keeps what it had, an edit that was given up among it.
Shown_Kept(l) == IF draft = None THEN loads[l].doc ELSE draft

\* The document comes, over whatever was typed meanwhile.
Shown(l) == loads[l].doc

LoadArrives(l) ==
  /\ l \in Under("served")
  /\ loads' = [loads EXCEPT ![l] = NoLoad]
  /\ draft' = Shown(l)
  /\ saved' = loads[l].doc
  /\ busy' = IF form = "screen" THEN FALSE ELSE busy
  /\ typed' = {}
  /\ excuses' = (IF loads[l].doc = stored THEN {} ELSE {"stale"})
                \cup IF save = None /\ Under("asked") \cup Under("served") = {l}
                     THEN {} ELSE {"early"}
  /\ UNCHANGED <<form, stored, open, save, orphans, test, proved, typings, faults>>

LoadFails(l) ==
  /\ loads[l].stage # "idle"
  /\ Fault
  /\ loads' = [loads EXCEPT ![l] = NoLoad]
  /\ busy' = IF form = "screen" THEN FALSE ELSE busy
  /\ UNCHANGED <<form, stored, open, draft, saved, save, orphans, test, proved, typed, excuses,
                 typings>>

\* Mutant: what is typed can be tested.
MayTest_Dirty == form = "screen" /\ draft # None /\ Configured(draft) /\ test = None

\* "Save first — a test sends what is stored, not what is typed."
MayTest == MayTest_Dirty /\ ~Dirty

Test ==
  /\ MayTest
  /\ test' = [doc |-> draft, excused |-> excuses # {} \/ orphans # {} \/ save # None]
  /\ UNCHANGED <<form, stored, client, save, orphans, loads, proved, typed, excuses, typings, faults>>

-----------------------------------------------------------------------------
(* The server.                                                             *)

Serve(l) ==
  /\ l \in Under("asked")
  /\ loads' = [loads EXCEPT ![l] = [stage |-> "served", doc |-> stored]]
  /\ UNCHANGED <<form, stored, client, save, orphans, test, proved, typed, excuses, typings, faults>>

\* A change the form has not seen.
Behind ==
  /\ excuses' = excuses \cup {"stale"}
  /\ save' = IF save = None THEN None ELSE [save EXCEPT !.excused = TRUE]
  /\ orphans' = {[s EXCEPT !.excused = TRUE] : s \in orphans}
  /\ test' = IF test = None THEN None ELSE [test EXCEPT !.excused = TRUE]

\* putNotify, putBackup: a document is replaced by what was sent, which the form has not
\* seen before it comes back.
Put ==
  /\ save # None /\ save.stage = "asked"
  /\ stored' = save.doc
  /\ save' = [save EXCEPT !.stage = "done"]
  /\ test' = IF test = None THEN None ELSE [test EXCEPT !.excused = TRUE]
  /\ orphans' = {[s EXCEPT !.excused = TRUE] : s \in orphans}
  /\ excuses' = excuses \cup {"unseen"}
  /\ UNCHANGED <<form, client, loads, proved, typed, typings, faults>>

\* A wrong password, a document that is not complete, no key to seal with.
Refuse ==
  /\ save # None /\ save.stage = "asked"
  /\ save' = [save EXCEPT !.stage = "refused"]
  /\ UNCHANGED <<form, stored, client, orphans, loads, test, proved, typed, excuses, typings,
                 faults>>

PutLate(s) ==
  /\ s \in orphans
  /\ stored' = s.doc
  /\ excuses' = excuses \cup {"stale"}
  /\ save' = IF save = None THEN None ELSE [save EXCEPT !.excused = TRUE]
  /\ orphans' = {[o EXCEPT !.excused = TRUE] : o \in orphans \ {s}}
  /\ test' = IF test = None THEN None ELSE [test EXCEPT !.excused = TRUE]
  /\ UNCHANGED <<form, client, loads, proved, typed, typings, faults>>

Other(doc) ==
  /\ doc # stored
  /\ Fault
  /\ stored' = doc
  /\ Behind
  /\ UNCHANGED <<form, client, loads, proved, typed, typings>>

\* POST /api/settings/notify/test, with what is stored by then.
Tested ==
  /\ test # None
  /\ test' = None
  /\ proved' = [sent |-> stored, shown |-> test.doc, excused |-> test.excused]
  /\ UNCHANGED <<form, stored, client, save, orphans, loads, typed, excuses, typings, faults>>

Init ==
  /\ form \in {"screen", "dialog"}
  /\ stored \in Docs
  /\ open = (form = "screen")
  /\ draft = None /\ saved = None /\ busy = FALSE
  /\ save = None /\ orphans = {}
  /\ loads \in {[l \in Loads |-> IF l \in some THEN [NoLoad EXCEPT !.stage = "asked"] ELSE NoLoad] :
                  some \in {s \in SUBSET Loads : Cardinality(s) = IF open THEN 1 ELSE 0}}
  /\ test = None /\ proved = None
  /\ typed = {} /\ excuses = {}
  /\ typings = 0 /\ faults = 0

Next ==
  \/ \E l \in Loads :
       OpenDialog(l) \/ Saved(l) \/ LoadArrives(l) \/ LoadFails(l) \/ Serve(l)
  \/ CloseDialog \/ Save \/ Refused \/ GivesUp \/ Test
  \/ \E f \in Fields, v \in Values : Type(f, v)
  \/ Put \/ Refuse \/ Tested
  \/ \E s \in orphans : PutLate(s)
  \/ \E doc \in Docs : Other(doc)

Spec == Init /\ [][Next]_vars

-----------------------------------------------------------------------------
(* Properties.                                                             *)

\* A save changes the fields that were typed over, and no other, unless the document of
\* this opening had not come when it was sent, or what the server had had changed since.
Kept(s) ==
  s.excused \/ \A f \in Fields \ s.typed : s.doc[f] = stored[f]

SavesWhatWasTyped ==
  /\ save # None /\ save.stage = "asked" => Kept(save)
  /\ \A s \in orphans : Kept(s)

\* "A test sends what is stored, not what is typed": who tests has what is stored on
\* screen, unless somebody else has changed it, or it was saved and has yet to come back.
TestsWhatIsShown == proved # None => proved.sent = proved.shown \/ proved.excused
=============================================================================
