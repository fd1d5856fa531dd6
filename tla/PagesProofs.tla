------------------------------ MODULE PagesProofs -----------------------------
(***************************************************************************)
(* What MCPages checks of the dialogs that ask for the password            *)
(* (StepUpPages), of the forms of the settings (SettingsForms) and of the  *)
(* charts (LiveFigures) holds for any names and fields, any window and any *)
(* distance of points, any requests at once and any that are given up or   *)
(* crossed.                                                                *)
(***************************************************************************)
EXTENDS MCPages, SequenceTheorems, FiniteSetTheorems, WellFoundedInduction, TLAPS

-----------------------------------------------------------------------------
(* The forms of the settings: the inductive invariant.                     *)

SaveStates == [stage : {"asked", "done", "refused"}, doc : S!Docs, typed : SUBSET Fields,
               excused : BOOLEAN]
LoadStates == [stage : {"idle", "asked", "served"}, doc : S!Docs \cup {None}]

FormsTyped ==
  /\ stored \in S!Docs
  /\ draft # None => draft \in S!Docs
  /\ save # None => save \in SaveStates
  /\ orphans \subseteq SaveStates
  /\ loads \in [Loads -> LoadStates]
  /\ \A l \in Loads : loads[l].stage = "served" => loads[l].doc \in S!Docs
  /\ typed \subseteq Fields
  /\ test # None => test \in [doc : S!Docs, excused : BOOLEAN]

\* The form knows of no change but its own.
UpToDate == excuses \subseteq {"unseen"}

\* What is shown is what the server has, but for what was typed over.
DraftFollows ==
  UpToDate /\ draft # None => \A f \in Fields \ typed : draft[f] = stored[f]

\* So is what it was sent, which may become what the server has.
SaveFollows ==
  UpToDate /\ draft # None /\ save # None /\ save.stage = "asked" =>
    \A f \in Fields \ typed : save.doc[f] = draft[f]

\* Whether the server has done it or not, a save keeps what was not typed over.
SavesKeep ==
  /\ save # None => S!Kept(save)
  /\ \A s \in orphans : S!Kept(s)

\* What Dirty looks at, and what a test is sent with.
SavedFollows == excuses = {} /\ saved # None => saved = stored
TestFollows == test # None => test.excused \/ test.doc = stored

FormsInv ==
  /\ FormsTyped /\ DraftFollows /\ SaveFollows /\ SavedFollows /\ TestFollows
  /\ SavesKeep /\ S!TestsWhatIsShown

\* The screen is there, or the dialog is closed: nothing is shown.
LEMMA FormsStart == ASSUME S!Init PROVE FormsInv
<1>1. loads \in [Loads -> LoadStates] /\ \A l \in Loads : loads[l].stage # "served"
  <2>1. PICK some \in SUBSET Loads :
          loads = [l \in Loads |-> IF l \in some THEN [S!NoLoad EXCEPT !.stage = "asked"]
                                                 ELSE S!NoLoad]
    BY DEF S!Init
  <2>2. /\ S!NoLoad \in LoadStates /\ S!NoLoad.stage = "idle"
        /\ [S!NoLoad EXCEPT !.stage = "asked"] \in LoadStates
        /\ [S!NoLoad EXCEPT !.stage = "asked"].stage = "asked"
    BY DEF S!NoLoad, LoadStates
  <2> QED
    BY <2>1, <2>2
<1> QED
  BY <1>1 DEF S!Init, FormsInv, FormsTyped, DraftFollows, SaveFollows, SavedFollows, TestFollows,
              SavesKeep, S!TestsWhatIsShown

\* A request for the document is made, fails, or is answered with what the server has.
LEMMA LoadTurns ==
  ASSUME FormsInv, NEW l \in Loads,
         UNCHANGED <<stored, draft, saved, save, orphans, test, proved>>,
         \/ UNCHANGED <<typed, excuses>>
         \/ typed' = {} /\ "early" \in excuses',
         \/ loads' = loads
         \/ loads' = [loads EXCEPT ![l] = S!NoLoad]
         \/ loads' = [loads EXCEPT ![l].stage = "asked"]
         \/ loads' = [loads EXCEPT ![l] = [stage |-> "served", doc |-> stored]]
  PROVE  FormsInv'
<1>1. /\ loads' \in [Loads -> LoadStates]
      /\ \A k \in Loads : loads'[k].stage = "served" => loads'[k].doc \in S!Docs
  <2>1. /\ S!NoLoad \in LoadStates /\ S!NoLoad.stage = "idle"
        /\ [stage |-> "served", doc |-> stored] \in LoadStates
        /\ stored \in S!Docs
    BY DEF S!NoLoad, LoadStates, FormsInv, FormsTyped
  <2>2. CASE loads' = loads
    BY <2>2 DEF FormsInv, FormsTyped
  <2>3. CASE loads' = [loads EXCEPT ![l] = S!NoLoad]
    BY <2>1, <2>3 DEF FormsInv, FormsTyped
  <2>4. CASE loads' = [loads EXCEPT ![l].stage = "asked"]
    BY <2>4 DEF FormsInv, FormsTyped, LoadStates
  <2>5. CASE loads' = [loads EXCEPT ![l] = [stage |-> "served", doc |-> stored]]
    BY <2>1, <2>5 DEF FormsInv, FormsTyped
  <2> QED
    BY <2>2, <2>3, <2>4, <2>5
<1>2. typed' \subseteq Fields
  BY DEF FormsInv, FormsTyped
<1>3. FormsTyped'
  BY <1>1, <1>2 DEF FormsInv, FormsTyped
<1>4. DraftFollows' /\ SaveFollows' /\ SavedFollows'
  BY DEF FormsInv, DraftFollows, SaveFollows, SavedFollows, UpToDate
<1>5. TestFollows' /\ SavesKeep' /\ S!TestsWhatIsShown'
  BY DEF FormsInv, TestFollows, SavesKeep, S!TestsWhatIsShown, S!Kept
<1> QED
  BY <1>3, <1>4, <1>5 DEF FormsInv

\* The document comes: only if no save is under way it is what the server has.
LEMMA DocumentComes == ASSUME FormsInv, NEW l \in Loads, S!LoadArrives(l) PROVE FormsInv'
<1>1. /\ loads[l].stage = "served" /\ loads' = [loads EXCEPT ![l] = S!NoLoad]
      /\ draft' = loads[l].doc /\ saved' = loads[l].doc /\ typed' = {}
      /\ UNCHANGED <<stored, save, orphans, test, proved>>
      /\ loads[l].doc # stored => "stale" \in excuses'
      /\ save # None => "early" \in excuses'
  BY DEF S!LoadArrives, S!Under, S!Shown
<1>2. loads[l].doc \in S!Docs
  BY <1>1 DEF FormsInv, FormsTyped
<1>3. S!NoLoad \in LoadStates /\ S!NoLoad.stage = "idle"
  BY DEF S!NoLoad, LoadStates
<1>4. FormsTyped'
  BY <1>1, <1>2, <1>3 DEF FormsInv, FormsTyped
<1>5. DraftFollows' /\ SavedFollows' /\ SaveFollows'
  BY <1>1 DEF DraftFollows, SavedFollows, SaveFollows, UpToDate
<1>6. TestFollows' /\ SavesKeep' /\ S!TestsWhatIsShown'
  BY <1>1 DEF FormsInv, TestFollows, SavesKeep, S!TestsWhatIsShown, S!Kept
<1> QED
  BY <1>4, <1>5, <1>6 DEF FormsInv

\* A field is typed over.
LEMMA FieldIsTyped ==
  ASSUME FormsInv, NEW f \in Fields, NEW v \in Values, S!Type(f, v) PROVE FormsInv'
<1>1. /\ draft # None /\ draft' = [draft EXCEPT ![f] = v] /\ typed' = typed \cup {f}
      /\ UNCHANGED <<stored, saved, save, orphans, loads, test, proved, excuses>>
  BY DEF S!Type
<1>2. draft \in S!Docs /\ draft' \in S!Docs
  BY <1>1 DEF FormsInv, FormsTyped, S!Docs
<1>3. FormsTyped'
  BY <1>1, <1>2 DEF FormsInv, FormsTyped
<1>4. \A g \in Fields \ typed' : g \in Fields \ typed /\ draft'[g] = draft[g]
  BY <1>1, <1>2 DEF S!Docs
<1>5. DraftFollows' /\ SaveFollows'
  BY <1>1, <1>4 DEF FormsInv, DraftFollows, SaveFollows, UpToDate
<1>6. SavedFollows' /\ TestFollows' /\ SavesKeep' /\ S!TestsWhatIsShown'
  BY <1>1 DEF FormsInv, SavedFollows, TestFollows, SavesKeep, S!TestsWhatIsShown, S!Kept
<1> QED
  BY <1>3, <1>5, <1>6 DEF FormsInv

\* What is shown is sent.
LEMMA FormIsSent == ASSUME FormsInv, S!Save PROVE FormsInv'
<1> DEFINE new == [stage |-> "asked", doc |-> draft, typed |-> typed,
                   excused |-> excuses \ {"unseen"} # {}]
<1>1. /\ draft # None /\ save' = new
      /\ orphans' = IF save = None THEN orphans ELSE orphans \cup {save}
      /\ UNCHANGED <<stored, draft, saved, loads, test, proved, typed, excuses>>
  BY DEF S!Save, S!MaySave
<1>2. new \in SaveStates /\ new.doc = draft /\ new.typed = typed /\ (~new.excused => UpToDate)
  BY <1>1 DEF SaveStates, FormsInv, FormsTyped, UpToDate
<1> HIDE DEF new
<1>3. FormsTyped'
  BY <1>1, <1>2 DEF FormsInv, FormsTyped
<1>4. DraftFollows' /\ SaveFollows' /\ SavedFollows' /\ TestFollows' /\ S!TestsWhatIsShown'
  BY <1>1, <1>2 DEF FormsInv, DraftFollows, SaveFollows, SavedFollows, TestFollows, UpToDate,
                    S!TestsWhatIsShown
<1>5. SavesKeep'
  <2>1. S!Kept(new)
    BY <1>1, <1>2 DEF FormsInv, DraftFollows, S!Kept
  <2>2. \A s \in orphans' : s \in orphans \/ (s = save /\ save # None)
    BY <1>1
  <2> QED
    BY <1>1, <2>1, <2>2 DEF FormsInv, SavesKeep, S!Kept
<1> QED
  BY <1>3, <1>4, <1>5 DEF FormsInv

\* The form hears of its save, gives it up, or the server refuses it.
LEMMA SaveTurns ==
  ASSUME FormsInv, UNCHANGED <<stored, draft, saved, loads, test, proved, typed, excuses>>,
         save # None, save' = None \/ save' = [save EXCEPT !.stage = "refused"],
         orphans' \in {orphans, orphans \cup {save}}
  PROVE  FormsInv'
<1>1. /\ save' # None => save' \in SaveStates /\ save'.stage # "asked" /\ S!Kept(save')
      /\ \A s \in orphans' : s \in SaveStates /\ S!Kept(s)
  <2>1. save \in SaveStates /\ S!Kept(save)
    BY DEF FormsInv, FormsTyped, SavesKeep
  <2>2. LET s == [save EXCEPT !.stage = "refused"] IN
        /\ s \in SaveStates /\ s.stage = "refused"
        /\ s.doc = save.doc /\ s.typed = save.typed /\ s.excused = save.excused
    BY <2>1 DEF SaveStates
  <2> QED
    BY <2>1, <2>2 DEF FormsInv, FormsTyped, SavesKeep, S!Kept
<1>2. FormsTyped'
  BY <1>1 DEF FormsInv, FormsTyped
<1>3. DraftFollows' /\ SaveFollows' /\ SavedFollows' /\ TestFollows' /\ S!TestsWhatIsShown'
  BY <1>1 DEF FormsInv, DraftFollows, SaveFollows, SavedFollows, TestFollows, UpToDate,
              S!TestsWhatIsShown
<1>4. SavesKeep'
  BY <1>1 DEF SavesKeep, S!Kept
<1> QED
  BY <1>2, <1>3, <1>4 DEF FormsInv

\* A test is asked for, of a document that is not dirty, and sent.
LEMMA FormIsTested == ASSUME FormsInv, S!Test \/ S!Tested PROVE FormsInv'
<1>1. UNCHANGED <<stored, draft, saved, save, orphans, loads, typed, excuses>>
  BY DEF S!Test, S!Tested, S!client
<1>2. /\ test' # None => test' \in [doc : S!Docs, excused : BOOLEAN]
      /\ TestFollows' /\ S!TestsWhatIsShown'
  <2>1. CASE S!Test
    <3> DEFINE new == [doc |-> draft,
                       excused |-> excuses # {} \/ orphans # {} \/ save # None]
    <3>1. /\ draft # None /\ draft = saved /\ test' = new /\ proved' = proved
      BY <2>1 DEF S!Test, S!MayTest, S!MayTest_Dirty, S!Dirty
    <3>2. new \in [doc : S!Docs, excused : BOOLEAN]
      BY <3>1 DEF FormsInv, FormsTyped
    <3>3. new.excused \/ new.doc = stored
      BY <3>1 DEF FormsInv, SavedFollows
    <3> HIDE DEF new
    <3> QED
      BY <1>1, <3>1, <3>2, <3>3 DEF FormsInv, TestFollows, S!TestsWhatIsShown
  <2>2. CASE S!Tested
    <3>1. /\ test # None /\ test' = None
          /\ proved' = [sent |-> stored, shown |-> test.doc, excused |-> test.excused]
      BY <2>2 DEF S!Tested
    <3> QED
      BY <1>1, <3>1 DEF FormsInv, TestFollows, S!TestsWhatIsShown
  <2> QED
    BY <2>1, <2>2
<1>3. FormsTyped'
  BY <1>1, <1>2 DEF FormsInv, FormsTyped
<1>4. DraftFollows' /\ SaveFollows' /\ SavedFollows' /\ SavesKeep'
  BY <1>1 DEF FormsInv, DraftFollows, SaveFollows, SavedFollows, SavesKeep, S!Kept, UpToDate
<1> QED
  BY <1>2, <1>3, <1>4 DEF FormsInv

\* Whatever is under way when the document changes is excused.
LEMMA Excusing ==
  ASSUME FormsInv
  PROVE  /\ \A s \in orphans : LET o == [s EXCEPT !.excused = TRUE] IN
              o \in SaveStates /\ S!Kept(o)
         /\ save # None => LET o == [save EXCEPT !.excused = TRUE] IN
              o \in SaveStates /\ S!Kept(o)
         /\ test # None => LET o == [test EXCEPT !.excused = TRUE] IN
              o \in [doc : S!Docs, excused : BOOLEAN] /\ o.excused
BY DEF FormsInv, FormsTyped, SaveStates, S!Kept

\* The server replaces the document by what this form sent.
LEMMA ServerPuts == ASSUME FormsInv, S!Put PROVE FormsInv'
<1>1. /\ save # None /\ save.stage = "asked" /\ stored' = save.doc
      /\ save' = [save EXCEPT !.stage = "done"]
      /\ test' = IF test = None THEN None ELSE [test EXCEPT !.excused = TRUE]
      /\ orphans' = {[s EXCEPT !.excused = TRUE] : s \in orphans}
      /\ excuses' = excuses \cup {"unseen"}
      /\ UNCHANGED <<draft, saved, loads, proved, typed>>
  BY DEF S!Put, S!client
<1>2. /\ save' \in SaveStates /\ save'.doc = stored' /\ save'.stage = "done"
      /\ stored' \in S!Docs
  <2>1. save \in SaveStates
    BY <1>1 DEF FormsInv, FormsTyped
  <2> QED
    BY <1>1, <2>1 DEF SaveStates
<1>3. /\ \A s \in orphans' : s \in SaveStates /\ s.excused
      /\ test' # None => test' \in [doc : S!Docs, excused : BOOLEAN] /\ test'.excused
  <2>1. \A s \in orphans : [s EXCEPT !.excused = TRUE].excused
    BY DEF FormsInv, FormsTyped, SaveStates
  <2> QED
    BY <1>1, <2>1, Excusing
<1>4. FormsTyped'
  BY <1>1, <1>2, <1>3 DEF FormsInv, FormsTyped
<1>5. DraftFollows'
  BY <1>1 DEF FormsInv, DraftFollows, SaveFollows, UpToDate
<1>6. SaveFollows' /\ SavedFollows' /\ TestFollows' /\ S!TestsWhatIsShown'
  BY <1>1, <1>2, <1>3 DEF FormsInv, SaveFollows, SavedFollows, TestFollows, S!TestsWhatIsShown
<1>7. SavesKeep'
  BY <1>2, <1>3 DEF SavesKeep, S!Kept
<1> QED
  BY <1>4, <1>5, <1>6, <1>7 DEF FormsInv

\* It does what was given up, or somebody else saves.
LEMMA ServerMovesOn ==
  ASSUME FormsInv, (\E s \in orphans : S!PutLate(s)) \/ (\E doc \in S!Docs : S!Other(doc))
  PROVE  FormsInv'
<1>1. /\ stored' \in S!Docs
      /\ save' = IF save = None THEN None ELSE [save EXCEPT !.excused = TRUE]
      /\ test' = IF test = None THEN None ELSE [test EXCEPT !.excused = TRUE]
      /\ \A o \in orphans' : \E s \in orphans : o = [s EXCEPT !.excused = TRUE]
      /\ "stale" \in excuses'
      /\ UNCHANGED <<draft, saved, loads, proved, typed>>
  <2>1. ASSUME NEW s \in orphans, S!PutLate(s)
        PROVE  stored' \in S!Docs /\ orphans' = {[o EXCEPT !.excused = TRUE] : o \in orphans \ {s}}
    <3>1. s.doc \in S!Docs
      BY DEF FormsInv, FormsTyped, SaveStates
    <3> QED
      BY <2>1, <3>1 DEF S!PutLate
  <2>2. ASSUME NEW doc \in S!Docs, S!Other(doc)
        PROVE  stored' \in S!Docs /\ orphans' = {[o EXCEPT !.excused = TRUE] : o \in orphans}
    BY <2>2 DEF S!Other, S!Behind
  <2>3. /\ stored' \in S!Docs
        /\ \A o \in orphans' : \E s \in orphans : o = [s EXCEPT !.excused = TRUE]
    BY <2>1, <2>2
  <2> QED
    BY <2>3 DEF S!PutLate, S!Other, S!Behind, S!client
<1>2. /\ \A o \in orphans' : o \in SaveStates /\ o.excused
      /\ save' # None => save' \in SaveStates /\ save'.excused
      /\ test' # None => test' \in [doc : S!Docs, excused : BOOLEAN] /\ test'.excused
  <2>1. \A s \in orphans : [s EXCEPT !.excused = TRUE].excused
    BY DEF FormsInv, FormsTyped, SaveStates
  <2>2. save # None => [save EXCEPT !.excused = TRUE].excused
    BY DEF FormsInv, FormsTyped, SaveStates
  <2>3. \A s \in orphans : [s EXCEPT !.excused = TRUE] \in SaveStates
    BY Excusing
  <2>4. \A o \in orphans' : o \in SaveStates /\ o.excused
    BY <1>1, <2>1, <2>3
  <2>5. save' # None => save' \in SaveStates /\ save'.excused
    BY <1>1, <2>2, Excusing
  <2>6. test' # None => test' \in [doc : S!Docs, excused : BOOLEAN] /\ test'.excused
    BY <1>1, Excusing
  <2> QED
    BY <2>4, <2>5, <2>6
<1>3. FormsTyped'
  BY <1>1, <1>2 DEF FormsInv, FormsTyped
<1>4. DraftFollows' /\ SaveFollows' /\ SavedFollows'
  BY <1>1 DEF DraftFollows, SaveFollows, SavedFollows, UpToDate
<1>5. TestFollows' /\ S!TestsWhatIsShown' /\ SavesKeep'
  BY <1>1, <1>2 DEF FormsInv, TestFollows, S!TestsWhatIsShown, SavesKeep, S!Kept
<1> QED
  BY <1>3, <1>4, <1>5 DEF FormsInv

\* Every step keeps the invariant.
LEMMA FormsStep ==
  ASSUME FormsInv, S!Next \/ UNCHANGED <<ofForms, excuses, loads>> PROVE FormsInv'
<1>1. CASE UNCHANGED <<ofForms, excuses, loads>>
  BY <1>1 DEF ofForms, FormsInv, FormsTyped, DraftFollows, SaveFollows, SavedFollows, TestFollows,
              SavesKeep, S!Kept, S!TestsWhatIsShown, UpToDate
<1>2. ASSUME NEW l \in Loads, S!OpenDialog(l) \/ S!LoadFails(l) \/ S!Serve(l) PROVE FormsInv'
  <2>1. /\ UNCHANGED <<stored, draft, saved, save, orphans, test, proved>>
        /\ \/ UNCHANGED <<typed, excuses>>
           \/ typed' = {} /\ "early" \in excuses'
        /\ \/ loads' = [loads EXCEPT ![l] = S!NoLoad]
           \/ loads' = [loads EXCEPT ![l].stage = "asked"]
           \/ loads' = [loads EXCEPT ![l] = [stage |-> "served", doc |-> stored]]
    BY <1>2 DEF S!OpenDialog, S!LoadFails, S!Serve, S!Loading, S!client
  <2> QED
    BY <2>1, LoadTurns
<1>3. ASSUME NEW l \in Loads, S!Saved(l) PROVE FormsInv'
  <2>1. /\ save # None /\ save' = None
        /\ UNCHANGED <<stored, draft, saved, orphans, test, proved, typed, excuses>>
        /\ loads' = loads \/ loads' = [loads EXCEPT ![l].stage = "asked"]
    BY <1>3 DEF S!Saved, S!Loading
  <2>2. /\ loads' \in [Loads -> LoadStates]
        /\ \A k \in Loads : loads'[k].stage = "served" => loads'[k].doc \in S!Docs
    BY <2>1 DEF FormsInv, FormsTyped, LoadStates
  <2>3. FormsTyped'
    BY <2>1, <2>2 DEF FormsInv, FormsTyped
  <2> QED
    BY <2>1, <2>3 DEF FormsInv, DraftFollows, SaveFollows, SavedFollows, TestFollows, SavesKeep,
                      S!Kept, S!TestsWhatIsShown, UpToDate
<1>4. ASSUME NEW l \in Loads, S!LoadArrives(l) PROVE FormsInv'
  BY <1>4, DocumentComes
<1>5. CASE S!CloseDialog
  BY <1>5 DEF S!CloseDialog, FormsInv, FormsTyped, DraftFollows, SaveFollows, SavedFollows,
              TestFollows, SavesKeep, S!Kept, S!TestsWhatIsShown, UpToDate
<1>6. CASE S!Save
  BY <1>6, FormIsSent
<1>7. CASE S!Refused \/ S!GivesUp \/ S!Refuse
  BY <1>7, SaveTurns DEF S!Refused, S!GivesUp, S!Refuse, S!client
<1>8. CASE S!Test \/ S!Tested
  BY <1>8, FormIsTested
<1>9. ASSUME NEW f \in Fields, NEW v \in Values, S!Type(f, v) PROVE FormsInv'
  BY <1>9, FieldIsTyped
<1>10. CASE S!Put
  BY <1>10, ServerPuts
<1>11. CASE (\E s \in orphans : S!PutLate(s)) \/ (\E doc \in S!Docs : S!Other(doc))
  BY <1>11, ServerMovesOn
<1> QED
  BY <1>1, <1>2, <1>3, <1>4, <1>5, <1>6, <1>7, <1>8, <1>9, <1>10, <1>11 DEF S!Next

LEMMA FormsHold == ASSUME FormsInv PROVE S!SavesWhatWasTyped /\ S!TestsWhatIsShown
BY DEF FormsInv, SavesKeep, S!SavesWhatWasTyped

-----------------------------------------------------------------------------
(* The dialogs that ask for the password: the inductive invariant.         *)

Pages == {"agents", "accounts", "backups"}
AllKinds == {"issue", "revoke", "create", "reset", "role", "delete", "run"}
RoleNames == {"admin", "viewer", "row", "", "gone"}
Lists == [Names -> [role : RoleNames, since : Nat]]
Stages == {"idle", "asked", "found", "done", "refused", "listing", "listed"}
CallStates == [stage : Stages, kind : AllKinds \cup {""}, name : Names \cup {None},
               role : RoleNames, secret : Nat, heard : BOOLEAN, rows : Lists \cup {<<>>}]

\* A request for a change, as opposed to a list.
Asks(call) == call.stage \in {"asked", "found", "done", "refused"}

DialogsTyped ==
  /\ page \in Pages
  /\ secret \in [Names -> Nat] /\ role \in [Names -> RoleNames]
  /\ minted \in Nat
  /\ calls \in [Calls -> CallStates]
  /\ pending # None =>
       pending \in [kind : AllKinds, name : Names \cup {None}, call : Calls \cup {None}]
  /\ issued # None => issued.name \in Names

\* A page makes its own changes only, each about a name.
OnPage ==
  /\ \A c \in Calls :
       /\ Asks(calls[c]) => calls[c].name \in Names /\ calls[c].kind \in D!Kinds
       /\ calls[c].kind = "run" => page = "backups"
  /\ pending # None => pending.kind \in D!Kinds

\* Two requests about one name make it contested.
RivalsAreKnown ==
  \A c, d \in Calls :
    c # d /\ Asks(calls[c]) /\ Asks(calls[d]) /\ calls[c].name = calls[d].name
      => calls[c].name \in rivals

\* What a request has found stays, and what it has made.
FoundStays ==
  \A c \in Calls : calls[c].name \notin rivals =>
    /\ calls[c].stage = "found" /\ calls[c].kind \in D!OfRow => calls[c].name \in D!Rows
    /\ calls[c].stage = "done" /\ calls[c].kind \in D!Mints =>
         secret[calls[c].name] = calls[c].secret

\* While a secret is shown no dialog is open, so that nothing more is asked for.
IssuedCovers ==
  issued # None =>
    /\ pending = None
    /\ issued.name \notin rivals =>
         /\ secret[issued.name] = issued.secret
         /\ \A c \in Calls : Asks(calls[c]) => calls[c].name # issued.name

UnheardIsExcused == \A c \in Calls : ~calls[c].heard => "unheard" \in excuses

\* A request that will bring the list as it is now, or as it will be by then.
WillShow(call) ==
  \/ call.stage \in {"done", "listing"}
  \/ call.stage = "listed" /\ call.rows = D!Listing

ListsFollow ==
  excuses = {} =>
    \/ \E c \in Calls : WillShow(calls[c])
    \/ listed = D!Listing /\ \A c \in Calls : calls[c].stage # "listed"

\* No backup is under way while a dialog could ask for one.
OneRun ==
  "unheard" \notin excuses =>
    /\ \A c, d \in Calls : calls[c].kind = "run" /\ calls[d].kind = "run" => c = d
    /\ page = "backups" /\ pending # None /\ pending.call = None =>
         \A c \in Calls : calls[c].kind # "run"

DialogsInv ==
  /\ DialogsTyped /\ OnPage /\ RivalsAreKnown /\ FoundStays /\ IssuedCovers
  /\ UnheardIsExcused /\ ListsFollow /\ OneRun /\ D!InForceWasShown

-----------------------------------------------------------------------------
(* The dialogs: the steps.                                                 *)

LEMMA KindsOfPages ==
  ASSUME page \in Pages
  PROVE  /\ D!Kinds \subseteq AllKinds
         /\ "run" \in D!Kinds <=> page = "backups"
         /\ page = "backups" => D!Kinds = {"run"}
<1>1. CASE page = "agents"
  BY <1>1 DEF D!Kinds, AllKinds
<1>2. CASE page = "accounts"
  BY <1>2 DEF D!Kinds, AllKinds
<1>3. CASE page = "backups"
  BY <1>3 DEF D!Kinds, AllKinds
<1> QED
  BY <1>1, <1>2, <1>3 DEF Pages

LEMMA ListingTyped ==
  ASSUME secret \in [Names -> Nat], role \in [Names -> RoleNames] PROVE D!Listing \in Lists
BY DEF D!Listing, D!Gone, Lists, RoleNames

\* Requests that are over, ask for a list, and ask for a change.
LEMMA NewCalls ==
  /\ D!Idle \in CallStates /\ D!Idle.stage = "idle" /\ D!Idle.kind = "" /\ D!Idle.heard
  /\ D!Loading \in CallStates /\ D!Loading.stage = "listing" /\ D!Loading.kind = ""
  /\ D!Loading.heard
  /\ \A c \in Calls :
       /\ D!After(c) \in CallStates /\ D!After(c).stage = "listing" /\ D!After(c).heard
       /\ D!After(c).kind = IF calls[c].kind = "run" THEN "run" ELSE ""
<1>1. /\ D!Idle \in CallStates /\ D!Idle.stage = "idle" /\ D!Idle.kind = "" /\ D!Idle.heard
  BY DEF D!Idle, CallStates, Stages, RoleNames
<1>2. /\ D!Loading \in CallStates /\ D!Loading.stage = "listing" /\ D!Loading.kind = ""
      /\ D!Loading.heard
  BY <1>1 DEF D!Loading, CallStates, Stages
<1>3. ASSUME NEW c \in Calls
      PROVE  /\ D!After(c) \in CallStates /\ D!After(c).stage = "listing" /\ D!After(c).heard
             /\ D!After(c).kind = IF calls[c].kind = "run" THEN "run" ELSE ""
  BY <1>2 DEF D!After, CallStates, AllKinds
<1> QED
  BY <1>1, <1>2, <1>3

\* A page is opened, and asks for its list.
LEMMA DialogsStart == ASSUME D!Init PROVE DialogsInv
<1>1. PICK there \in {{}} \cup {{n} : n \in Names} :
        /\ secret = [n \in Names |-> IF n \in there THEN 1 ELSE 0]
        /\ minted = IF there = {} THEN 0 ELSE 1
  BY DEF D!Init
<1>2. PICK c \in Calls : calls = [d \in Calls |-> IF d = c THEN D!Loading ELSE D!Idle]
  BY DEF D!Init
<1>3. (CHOOSE r \in D!Roles : TRUE) \in RoleNames
  <2>1. D!Roles \subseteq RoleNames /\ D!Roles # {}
    BY DEF D!Roles, RoleNames
  <2> QED
    BY <2>1
<1>4. DialogsTyped
  <2>1. minted \in Nat
    BY <1>1
  <2>2. secret \in [Names -> Nat] /\ role \in [Names -> RoleNames]
    BY <1>1, <1>3 DEF D!Init
  <2>3. calls \in [Calls -> CallStates]
    BY <1>2, NewCalls
  <2> QED
    BY <2>1, <2>2, <2>3 DEF D!Init, DialogsTyped, Pages
<1>5. \A d \in Calls : ~Asks(calls[d]) /\ calls[d].kind = "" /\ calls[d].heard
                       /\ calls[d].stage \in {"idle", "listing"}
  BY <1>2, NewCalls DEF Asks
<1>6. WillShow(calls[c])
  BY <1>2, NewCalls DEF WillShow
<1>7. OnPage /\ RivalsAreKnown /\ FoundStays /\ IssuedCovers /\ UnheardIsExcused
  BY <1>5 DEF D!Init, OnPage, RivalsAreKnown, FoundStays, IssuedCovers, UnheardIsExcused
<1>8. ListsFollow /\ OneRun
  BY <1>5, <1>6 DEF ListsFollow, OneRun
<1>9. D!InForceWasShown
  BY DEF D!Init, D!InForceWasShown
<1> QED
  BY <1>4, <1>7, <1>8, <1>9 DEF DialogsInv

\* A dialog is opened, cancelled or dismissed.
LEMMA DialogTurns ==
  ASSUME DialogsInv,
         \/ \E kind \in D!Kinds, n \in Names : D!Open(kind, n)
         \/ D!Cancel \/ D!Dismiss
  PROVE  DialogsInv'
<1>1. UNCHANGED <<page, secret, role, listed, calls, minted, seen, rivals, excuses>>
  BY DEF D!Open, D!Cancel, D!Dismiss, D!rows, D!history
<1>2. /\ pending' # None =>
           /\ pending' \in [kind : AllKinds, name : Names \cup {None}, call : Calls \cup {None}]
           /\ pending'.kind \in D!Kinds
      /\ issued' \in {None, issued}
      /\ issued' # None => pending' = None
      /\ pending' # None /\ pending'.call = None =>
           \/ pending' = pending
           \/ \A c \in Calls : calls[c].kind # "run"
  <2>1. ASSUME NEW kind \in D!Kinds, NEW n \in Names, D!Open(kind, n)
        PROVE  /\ pending' \in [kind : AllKinds, name : Names \cup {None},
                                call : Calls \cup {None}]
               /\ pending'.kind \in D!Kinds
               /\ issued' = None
               /\ pending'.call = None => \A c \in Calls : calls[c].kind # "run"
    <3> DEFINE running == {c \in Calls : calls[c].kind = "run"}
               call == IF running = {} THEN None ELSE CHOOSE c \in running : TRUE
    <3>1. /\ pending' = [kind |-> kind, name |-> IF kind \in D!OfRow THEN n ELSE None,
                         call |-> call]
          /\ issued' = None
      BY <2>1 DEF D!Open
    <3>2. kind \in AllKinds
      BY KindsOfPages DEF DialogsInv, DialogsTyped
    <3>3. /\ running # {} => (CHOOSE c \in running : TRUE) \in Calls
          /\ None \notin Calls
      BY StepUpPagesAssumption DEF D!StepUpPagesAssumption
    <3>4. call \in Calls \cup {None} /\ (call = None => running = {})
      BY <3>3
    <3> HIDE DEF call
    <3> QED
      BY <3>1, <3>2, <3>4
  <2>2. CASE D!Cancel
    BY <2>2 DEF D!Cancel
  <2>3. CASE D!Dismiss
    BY <2>3 DEF D!Dismiss, DialogsInv, DialogsTyped, OnPage, IssuedCovers
  <2> QED
    BY <2>1, <2>2, <2>3 DEF DialogsInv, IssuedCovers
<1>3. DialogsTyped'
  BY <1>1, <1>2 DEF DialogsInv, DialogsTyped
<1>4. OnPage' /\ RivalsAreKnown' /\ FoundStays'
  BY <1>1, <1>2 DEF DialogsInv, OnPage, RivalsAreKnown, FoundStays, Asks, D!Kinds, D!OfRow,
                    D!Mints, D!Rows
<1>5. IssuedCovers'
  BY <1>1, <1>2 DEF DialogsInv, IssuedCovers, Asks
<1>6. UnheardIsExcused' /\ ListsFollow'
  BY <1>1 DEF DialogsInv, UnheardIsExcused, ListsFollow, WillShow, D!Listing, D!Rows
<1>7. OneRun'
  BY <1>1, <1>2 DEF DialogsInv, OneRun
<1>8. D!InForceWasShown'
  BY <1>1 DEF DialogsInv, D!InForceWasShown, D!Rows
<1> QED
  BY <1>3, <1>4, <1>5, <1>6, <1>7, <1>8 DEF DialogsInv

\* A change is asked for, in a dialog.
LEMMA ChangeIsAsked ==
  ASSUME DialogsInv, NEW c \in Calls, NEW n \in Names, NEW r \in D!Roles, D!Submit(c, n, r)
  PROVE  DialogsInv'
<1> DEFINE new == [D!Idle EXCEPT !.stage = "asked", !.kind = pending.kind, !.name = n,
                                 !.role = r]
<1>1. /\ pending # None /\ pending.call = None /\ calls[c] = D!Idle
      /\ pending' = [pending EXCEPT !.call = c]
      /\ calls' = [calls EXCEPT ![c] = new]
      /\ rivals' = IF D!Rivals(n) = {} THEN rivals ELSE rivals \cup {n}
      /\ UNCHANGED <<page, secret, role, listed, issued, minted, seen, excuses>>
  BY DEF D!Submit, D!rows
<1>2. pending.kind \in AllKinds /\ pending.kind \in D!Kinds
  BY <1>1 DEF DialogsInv, DialogsTyped, OnPage
<1>3. /\ new \in CallStates /\ new.stage = "asked" /\ new.kind = pending.kind /\ new.name = n
      /\ new.heard
  <2>1. r \in RoleNames
    BY DEF D!Roles, RoleNames
  <2> QED
    BY <1>2, <2>1, NewCalls DEF CallStates, Stages
<1> HIDE DEF new
<1>4. \A d \in Calls : calls'[d] = IF d = c THEN new ELSE calls[d]
  BY <1>1 DEF DialogsInv, DialogsTyped
<1>5. /\ pending' \in [kind : AllKinds, name : Names \cup {None}, call : Calls \cup {None}]
      /\ pending'.kind = pending.kind /\ pending'.call = c /\ c # None
  BY <1>1, StepUpPagesAssumption DEF DialogsInv, DialogsTyped, D!StepUpPagesAssumption
<1>6. issued = None
  BY <1>1 DEF DialogsInv, IssuedCovers
<1>7. DialogsTyped'
  BY <1>1, <1>3, <1>5, <1>6 DEF DialogsInv, DialogsTyped
<1>8. OnPage'
  <2>1. pending.kind = "run" => page = "backups"
    BY <1>2, KindsOfPages DEF DialogsInv, DialogsTyped
  <2> QED
    BY <1>1, <1>2, <1>3, <1>4, <1>5, <2>1 DEF DialogsInv, OnPage, Asks, D!Kinds
<1>9. RivalsAreKnown'
  <2>1. ASSUME NEW d \in Calls, d # c, Asks(calls[d]), calls[d].name = n PROVE n \in rivals'
    BY <1>1, <2>1 DEF D!Rivals, D!Changing, Asks
  <2>2. rivals \subseteq rivals'
    BY <1>1
  <2> QED
    BY <1>3, <1>4, <2>1, <2>2 DEF DialogsInv, RivalsAreKnown, Asks
<1>10. FoundStays'
  <2>1. rivals \subseteq rivals'
    BY <1>1
  <2> QED
    BY <1>1, <1>3, <1>4, <2>1 DEF DialogsInv, FoundStays, D!OfRow, D!Mints, D!Rows
<1>11. IssuedCovers' /\ UnheardIsExcused'
  BY <1>1, <1>3, <1>4, <1>6 DEF DialogsInv, IssuedCovers, UnheardIsExcused
<1>12. ListsFollow'
  <2>1. ~WillShow(calls[c])
    BY <1>1, NewCalls DEF WillShow
  <2>2. D!Listing' = D!Listing
    BY <1>1 DEF D!Listing, D!Rows
  <2>3. \A d \in Calls : WillShow(calls[d]) => WillShow(calls[d])'
    BY <1>4, <2>1, <2>2 DEF WillShow
  <2> QED
    BY <1>1, <1>3, <1>4, <2>2, <2>3 DEF DialogsInv, ListsFollow
<1>13. OneRun'
  <2>1. new.kind = "run" => page = "backups"
    BY <1>2, <1>3, KindsOfPages DEF DialogsInv, DialogsTyped
  <2> QED
    BY <1>1, <1>3, <1>4, <1>5, <2>1 DEF DialogsInv, OneRun
<1>14. D!InForceWasShown'
  <2>1. calls[c].stage # "done"
    BY <1>1, NewCalls
  <2> QED
    BY <1>1, <1>4, <2>1 DEF DialogsInv, D!InForceWasShown, D!Rows
<1> QED
  BY <1>7, <1>8, <1>9, <1>10, <1>11, <1>12, <1>13, <1>14 DEF DialogsInv

\* A request goes on or ends, and the rows stay as they are.
LEMMA CallTurns ==
  ASSUME DialogsInv, NEW c \in Calls, NEW new \in CallStates,
         calls' = [calls EXCEPT ![c] = new],
         UNCHANGED <<page, secret, role, minted, rivals>>,
         excuses \subseteq excuses',
         Asks(new) => /\ Asks(calls[c]) /\ new.name = calls[c].name
                      /\ new.kind = calls[c].kind,
         new.stage = "found" =>
           calls[c].stage = "found" \/ (new.kind \in D!OfRow => new.name \in D!Rows),
         new.stage = "done" => calls[c].stage = "done" /\ new.secret = calls[c].secret,
         ~new.heard => "unheard" \in excuses',
         new.kind = "run" => calls[c].kind = "run"
  PROVE  /\ calls' \in [Calls -> CallStates]
         /\ \A d \in Calls : calls'[d] = IF d = c THEN new ELSE calls[d]
         /\ \A d \in Calls :
              /\ Asks(calls'[d]) => calls'[d].name \in Names /\ calls'[d].kind \in D!Kinds
              /\ calls'[d].kind = "run" => page = "backups" /\ calls[d].kind = "run"
         /\ RivalsAreKnown' /\ FoundStays' /\ UnheardIsExcused'
         /\ D!Kinds' = D!Kinds /\ D!Listing' = D!Listing
<1>1. /\ calls' \in [Calls -> CallStates]
      /\ \A d \in Calls : calls'[d] = IF d = c THEN new ELSE calls[d]
  BY DEF DialogsInv, DialogsTyped
<1>2. \A d \in Calls :
        /\ Asks(calls'[d]) => calls'[d].name \in Names /\ calls'[d].kind \in D!Kinds
        /\ calls'[d].kind = "run" => page = "backups" /\ calls[d].kind = "run"
  BY <1>1 DEF DialogsInv, OnPage
<1>3. RivalsAreKnown'
  <2>1. \A d \in Calls : Asks(calls'[d]) => Asks(calls[d]) /\ calls'[d].name = calls[d].name
    BY <1>1
  <2> QED
    BY <2>1 DEF DialogsInv, RivalsAreKnown, Asks
<1>4. FoundStays'
  <2>1. \A d \in Calls : d # c => calls'[d] = calls[d]
    BY <1>1
  <2>2. calls'[c] = new
    BY <1>1
  <2>3. new.stage \in {"found", "done"} => new.name = calls[c].name /\ new.kind = calls[c].kind
    BY DEF Asks
  <2> QED
    BY <2>1, <2>2, <2>3 DEF DialogsInv, FoundStays, D!OfRow, D!Mints, D!Rows
<1>5. UnheardIsExcused'
  BY <1>1 DEF DialogsInv, UnheardIsExcused
<1>6. D!Kinds' = D!Kinds /\ D!Listing' = D!Listing
  BY DEF D!Kinds, D!Listing, D!Rows
<1> QED
  BY <1>1, <1>2, <1>3, <1>4, <1>5, <1>6

\* If nothing new is shown, and a dialog changes only by being freed.
LEMMA QuietTurn ==
  ASSUME DialogsInv, NEW c \in Calls, NEW new \in CallStates,
         \A d \in Calls : calls'[d] = IF d = c THEN new ELSE calls[d],
         calls' \in [Calls -> CallStates],
         \A d \in Calls :
           /\ Asks(calls'[d]) => calls'[d].name \in Names /\ calls'[d].kind \in D!Kinds
           /\ calls'[d].kind = "run" => page = "backups" /\ calls[d].kind = "run",
         Asks(new) => Asks(calls[c]) /\ new.name = calls[c].name,
         RivalsAreKnown', FoundStays', UnheardIsExcused', D!Kinds' = D!Kinds,
         UNCHANGED <<page, secret, role, minted, rivals, issued, seen>>,
         excuses \subseteq excuses',
         \/ pending' = pending
         \/ D!Freed(c) /\ new.kind = "" /\ (calls[c].kind = "run" \/ page # "backups")
         \/ D!Freed(c) /\ "unheard" \in excuses',
         \/ calls[c].stage = "done" => "unheard" \in excuses'
         \/ new.stage = "done" /\ new.secret = calls[c].secret,
         \/ ListsFollow'
         \/ listed' = listed /\ D!Listing' = D!Listing /\ ~WillShow(calls[c])
              /\ new.stage # "listed"
  PROVE  DialogsInv'
<1>1. /\ pending = None => pending' = None
      /\ pending' # None =>
           /\ pending' \in [kind : AllKinds, name : Names \cup {None}, call : Calls \cup {None}]
           /\ pending'.kind = pending.kind /\ pending # None
  BY DEF D!Freed, DialogsInv, DialogsTyped
<1>2. DialogsTyped'
  BY <1>1 DEF DialogsInv, DialogsTyped
<1>3. OnPage'
  BY <1>1 DEF DialogsInv, OnPage, Asks
<1>4. IssuedCovers'
  <2>1. \A d \in Calls : Asks(calls'[d]) => Asks(calls[d]) /\ calls'[d].name = calls[d].name
    OBVIOUS
  <2> QED
    BY <1>1, <2>1 DEF DialogsInv, IssuedCovers, Asks
<1>5. OneRun'
  <2>1. SUFFICES ASSUME "unheard" \notin excuses' PROVE OneRun'
    BY DEF OneRun
  <2>2. CASE pending' = pending
    BY <2>1, <2>2 DEF DialogsInv, OneRun
  <2>3. CASE new.kind = "" /\ (calls[c].kind = "run" \/ page # "backups")
    BY <2>1, <2>3 DEF DialogsInv, OneRun
  <2> QED
    BY <2>1, <2>2, <2>3
<1>6. D!InForceWasShown'
  BY DEF DialogsInv, D!InForceWasShown, D!Rows
<1>7. ListsFollow'
  <2>1. SUFFICES ASSUME listed' = listed, D!Listing' = D!Listing, ~WillShow(calls[c]),
                        new.stage # "listed"
                 PROVE  ListsFollow'
    OBVIOUS
  <2>2. \A d \in Calls : WillShow(calls[d]) => WillShow(calls[d])'
    BY <2>1 DEF WillShow
  <2> QED
    BY <2>1, <2>2 DEF DialogsInv, ListsFollow
<1> QED
  BY <1>2, <1>3, <1>4, <1>5, <1>6, <1>7 DEF DialogsInv

\* What was asked for is done: it is shown, and the list is asked for again.
LEMMA ChangeIsDone == ASSUME DialogsInv, NEW c \in Calls, D!Done(c) PROVE DialogsInv'
<1> DEFINE new == D!After(c)
<1>1. /\ calls[c].stage = "done" /\ pending' = None
      /\ issued' = IF calls[c].kind \in D!Mints
                   THEN [name |-> calls[c].name, secret |-> calls[c].secret] ELSE issued
      /\ calls' = [calls EXCEPT ![c] = new]
      /\ seen' = (seen \cup {calls[c].secret}) \cap {secret[n] : n \in D!Rows}
      /\ UNCHANGED <<page, secret, role, listed, minted, rivals, excuses>>
  BY DEF D!Done, D!rows
<1>2. /\ new \in CallStates /\ new.stage = "listing" /\ new.heard /\ ~Asks(new)
      /\ new.kind = "run" => calls[c].kind = "run"
  BY NewCalls DEF Asks
<1> HIDE DEF new
<1>3. /\ calls' \in [Calls -> CallStates]
      /\ \A d \in Calls : calls'[d] = IF d = c THEN new ELSE calls[d]
      /\ \A d \in Calls :
           /\ Asks(calls'[d]) => calls'[d].name \in Names /\ calls'[d].kind \in D!Kinds
           /\ calls'[d].kind = "run" => page = "backups" /\ calls[d].kind = "run"
      /\ RivalsAreKnown' /\ FoundStays' /\ UnheardIsExcused'
      /\ D!Kinds' = D!Kinds
  BY <1>1, <1>2, CallTurns
<1>4. Asks(calls[c]) /\ calls[c].name \in Names
  BY <1>1 DEF DialogsInv, OnPage, Asks
<1>5. DialogsTyped'
  BY <1>1, <1>3, <1>4 DEF DialogsInv, DialogsTyped
<1>6. OnPage'
  BY <1>1, <1>3 DEF OnPage, Asks
<1>7. IssuedCovers'
  <2>1. \A d \in Calls : Asks(calls'[d]) => d # c /\ calls'[d] = calls[d] /\ Asks(calls[d])
    BY <1>2, <1>3
  <2>2. CASE calls[c].kind \in D!Mints
    <3>1. issued'.name = calls[c].name /\ issued'.secret = calls[c].secret
      BY <1>1, <2>2
    <3>2. SUFFICES ASSUME calls[c].name \notin rivals
                   PROVE  /\ secret[calls[c].name] = calls[c].secret
                          /\ \A d \in Calls : Asks(calls'[d]) => calls'[d].name # calls[c].name
      BY <1>1, <3>1 DEF IssuedCovers, Asks
    <3>3. secret[calls[c].name] = calls[c].secret
      BY <1>1, <2>2, <3>2 DEF DialogsInv, FoundStays
    <3>4. \A d \in Calls : Asks(calls'[d]) => calls'[d].name # calls[c].name
      BY <1>4, <2>1, <3>2 DEF DialogsInv, RivalsAreKnown
    <3> QED
      BY <3>3, <3>4
  <2>3. CASE calls[c].kind \notin D!Mints
    BY <1>1, <2>1, <2>3 DEF DialogsInv, IssuedCovers, Asks
  <2> QED
    BY <2>2, <2>3
<1>8. ListsFollow'
  BY <1>2, <1>3 DEF ListsFollow, WillShow
<1>9. OneRun'
  BY <1>1, <1>3 DEF DialogsInv, OneRun
<1>10. D!InForceWasShown'
  BY <1>1, <1>3 DEF DialogsInv, D!InForceWasShown, D!Rows
<1> QED
  BY <1>3, <1>5, <1>6, <1>7, <1>8, <1>9, <1>10 DEF DialogsInv

\* A request for a change is about a name of the page.
LEMMA AskedOf ==
  ASSUME DialogsInv, NEW c \in Calls, Asks(calls[c])
  PROVE  /\ calls[c].name \in Names /\ calls[c].kind \in D!Kinds
         /\ calls[c].kind = "run" \/ page # "backups"
         /\ calls[c].stage # "done" => ~WillShow(calls[c])
BY KindsOfPages DEF DialogsInv, DialogsTyped, OnPage, WillShow, Asks

\* It is refused, or over when nobody waits for it any more.
LEMMA ChangeEnds ==
  ASSUME DialogsInv, NEW c \in Calls, D!Refused(c) \/ D!Unheard(c) PROVE DialogsInv'
<1>1. /\ calls' = [calls EXCEPT ![c] = D!Idle]
      /\ UNCHANGED <<page, secret, role, listed, issued, minted, seen, rivals, excuses>>
      /\ pending' = pending \/ (D!Freed(c) /\ calls[c].stage = "refused")
      /\ calls[c].stage = "refused" \/ (calls[c].stage = "done" /\ ~calls[c].heard)
  BY DEF D!Refused, D!Unheard, D!rows, D!screen, D!history
<1>2. /\ D!Idle \in CallStates /\ D!Idle.kind = "" /\ D!Idle.heard /\ ~Asks(D!Idle)
      /\ D!Idle.stage = "idle"
  BY NewCalls DEF Asks
<1>3. /\ calls' \in [Calls -> CallStates]
      /\ \A d \in Calls : calls'[d] = IF d = c THEN D!Idle ELSE calls[d]
      /\ \A d \in Calls :
           /\ Asks(calls'[d]) => calls'[d].name \in Names /\ calls'[d].kind \in D!Kinds
           /\ calls'[d].kind = "run" => page = "backups" /\ calls[d].kind = "run"
      /\ RivalsAreKnown' /\ FoundStays' /\ UnheardIsExcused'
      /\ D!Kinds' = D!Kinds /\ D!Listing' = D!Listing
  BY <1>1, <1>2, CallTurns
<1>4. Asks(calls[c])
  BY <1>1 DEF Asks
<1>5. calls[c].kind = "run" \/ page # "backups"
  BY <1>4, AskedOf
<1>6. calls[c].stage = "done" => "unheard" \in excuses'
  BY <1>1 DEF DialogsInv, UnheardIsExcused
<1>7. ListsFollow' \/ ~WillShow(calls[c])
  BY <1>1, <1>6, <1>4, AskedOf DEF ListsFollow
<1> QED
  BY <1>1, <1>2, <1>3, <1>5, <1>6, <1>7, QuietTurn

\* The page gives it up: what it asked for may be done, and not be shown.
LEMMA PageGivesUp == ASSUME DialogsInv, NEW c \in Calls, D!GivesUp(c) PROVE DialogsInv'
<1> DEFINE new == [calls[c] EXCEPT !.heard = FALSE]
<1>1. /\ Asks(calls[c]) /\ calls' = [calls EXCEPT ![c] = new] /\ D!Freed(c)
      /\ excuses' = excuses \cup {"unheard"}
      /\ UNCHANGED <<page, secret, role, listed, issued, minted, seen, rivals>>
  BY DEF D!GivesUp, D!Changing, Asks, D!Fault, D!rows
<1>2. /\ new \in CallStates /\ new.stage = calls[c].stage /\ new.name = calls[c].name
      /\ new.kind = calls[c].kind /\ new.secret = calls[c].secret
  BY DEF DialogsInv, DialogsTyped, CallStates
<1> HIDE DEF new
<1>3. /\ calls' \in [Calls -> CallStates]
      /\ \A d \in Calls : calls'[d] = IF d = c THEN new ELSE calls[d]
      /\ \A d \in Calls :
           /\ Asks(calls'[d]) => calls'[d].name \in Names /\ calls'[d].kind \in D!Kinds
           /\ calls'[d].kind = "run" => page = "backups" /\ calls[d].kind = "run"
      /\ RivalsAreKnown' /\ FoundStays' /\ UnheardIsExcused'
      /\ D!Kinds' = D!Kinds
  BY <1>1, <1>2, CallTurns DEF Asks
<1>4. ListsFollow'
  BY <1>1 DEF ListsFollow
<1> QED
  BY <1>1, <1>2, <1>3, <1>4, QuietTurn DEF Asks

\* The list comes, or does not.
LEMMA ListTurns ==
  ASSUME DialogsInv, NEW c \in Calls, D!ListArrives(c) \/ D!ListFails(c) PROVE DialogsInv'
<1>1. /\ calls' = [calls EXCEPT ![c] = D!Idle]
      /\ calls[c].stage \in {"listing", "listed"}
      /\ excuses \subseteq excuses'
      /\ UNCHANGED <<page, secret, role, issued, minted, seen, rivals>>
      /\ pending' = pending \/ (D!Freed(c) /\ calls[c].kind = "run")
  BY DEF D!ListArrives, D!ListFails, D!Fault, D!rows
<1>2. /\ D!Idle \in CallStates /\ D!Idle.kind = "" /\ D!Idle.heard /\ ~Asks(D!Idle)
      /\ D!Idle.stage = "idle"
  BY NewCalls DEF Asks
<1>3. /\ calls' \in [Calls -> CallStates]
      /\ \A d \in Calls : calls'[d] = IF d = c THEN D!Idle ELSE calls[d]
      /\ \A d \in Calls :
           /\ Asks(calls'[d]) => calls'[d].name \in Names /\ calls'[d].kind \in D!Kinds
           /\ calls'[d].kind = "run" => page = "backups" /\ calls[d].kind = "run"
      /\ RivalsAreKnown' /\ FoundStays' /\ UnheardIsExcused'
      /\ D!Kinds' = D!Kinds /\ D!Listing' = D!Listing
  BY <1>1, <1>2, CallTurns
<1>4. ListsFollow'
  <2>1. CASE D!ListFails(c)
    BY <2>1 DEF ListsFollow, D!ListFails, D!Fault
  <2>2. CASE D!ListArrives(c)
    <3>1. SUFFICES ASSUME excuses' = {}
                   PROVE  \/ \E d \in Calls : WillShow(calls[d])'
                          \/ /\ listed' = D!Listing'
                             /\ \A d \in Calls : calls'[d].stage # "listed"
      BY DEF ListsFollow
    <3>2. /\ calls[c].stage = "listed" /\ listed' = calls[c].rows /\ excuses = {}
          /\ \A d \in Calls \ {c} : calls[d].stage # "listed"
      BY <2>2, <3>1 DEF D!ListArrives
    <3>3. PICK d \in Calls : WillShow(calls[d])
      BY <3>2 DEF DialogsInv, ListsFollow
    <3>4. CASE d = c
      BY <1>2, <1>3, <3>2, <3>3, <3>4 DEF WillShow
    <3>5. CASE d # c
      BY <1>3, <3>3, <3>5 DEF WillShow
    <3> QED
      BY <3>4, <3>5
  <2> QED
    BY <2>1, <2>2
<1> QED
  BY <1>1, <1>2, <1>3, <1>4, QuietTurn

\* The server looks for the row, refuses, or answers with its list.
LEMMA ServerTurns ==
  ASSUME DialogsInv, NEW c \in Calls, D!Refuse(c) \/ D!Find(c) \/ D!WriteFails(c)
  PROVE  DialogsInv'
<1> DEFINE stage == IF D!Find(c)
                    THEN IF (calls[c].name \in D!Rows) = (calls[c].kind \in D!OfRow)
                         THEN "found" ELSE "refused"
                    ELSE "refused"
           new == [calls[c] EXCEPT !.stage = stage]
<1>1. /\ calls[c].stage \in {"asked", "found"}
      /\ UNCHANGED <<page, secret, role, listed, pending, issued, minted, seen, rivals, excuses>>
  BY DEF D!Refuse, D!Find, D!WriteFails, D!Ready, D!rows, D!screen, D!history
<1>2. calls' = [calls EXCEPT ![c] = new] /\ stage \in {"found", "refused"}
  BY DEF D!Refuse, D!Find, D!WriteFails, D!Becomes
<1>3. stage = "found" => (calls[c].kind \in D!OfRow => calls[c].name \in D!Rows)
  OBVIOUS
<1> HIDE DEF stage
<1>4. /\ new \in CallStates /\ new.stage = stage /\ new.name = calls[c].name
      /\ new.kind = calls[c].kind /\ new.heard = calls[c].heard
  BY <1>2 DEF DialogsInv, DialogsTyped, CallStates, Stages
<1> HIDE DEF new
<1>5. Asks(calls[c])
  BY <1>1 DEF Asks
<1>6. ~new.heard => "unheard" \in excuses'
  BY <1>1, <1>4 DEF DialogsInv, UnheardIsExcused
<1>7. /\ calls' \in [Calls -> CallStates]
      /\ \A d \in Calls : calls'[d] = IF d = c THEN new ELSE calls[d]
      /\ \A d \in Calls :
           /\ Asks(calls'[d]) => calls'[d].name \in Names /\ calls'[d].kind \in D!Kinds
           /\ calls'[d].kind = "run" => page = "backups" /\ calls[d].kind = "run"
      /\ RivalsAreKnown' /\ FoundStays' /\ UnheardIsExcused'
      /\ D!Kinds' = D!Kinds /\ D!Listing' = D!Listing
  BY <1>1, <1>2, <1>3, <1>4, <1>5, <1>6, CallTurns
<1>8. ~WillShow(calls[c])
  BY <1>1, <1>5, AskedOf
<1> QED
  BY <1>1, <1>2, <1>4, <1>5, <1>7, <1>8, QuietTurn

\* The server answers with its list.
LEMMA ListIsServed == ASSUME DialogsInv, NEW c \in Calls, D!Serve(c) PROVE DialogsInv'
<1> DEFINE new == [calls[c] EXCEPT !.stage = "listed", !.rows = D!Listing]
<1>1. /\ calls[c].stage = "listing" /\ calls' = [calls EXCEPT ![c] = new]
      /\ UNCHANGED <<page, secret, role, listed, pending, issued, minted, seen, rivals, excuses>>
  BY DEF D!Serve, D!rows, D!screen, D!history
<1>2. D!Listing \in Lists
  BY ListingTyped DEF DialogsInv, DialogsTyped
<1>3. /\ new \in CallStates /\ new.stage = "listed" /\ new.rows = D!Listing
      /\ new.kind = calls[c].kind /\ new.heard = calls[c].heard
  BY <1>2 DEF DialogsInv, DialogsTyped, CallStates, Stages
<1> HIDE DEF new
<1>4. ~Asks(new) /\ (~new.heard => "unheard" \in excuses')
  BY <1>1, <1>3 DEF DialogsInv, UnheardIsExcused, Asks
<1>5. /\ calls' \in [Calls -> CallStates]
      /\ \A d \in Calls : calls'[d] = IF d = c THEN new ELSE calls[d]
      /\ \A d \in Calls :
           /\ Asks(calls'[d]) => calls'[d].name \in Names /\ calls'[d].kind \in D!Kinds
           /\ calls'[d].kind = "run" => page = "backups" /\ calls[d].kind = "run"
      /\ RivalsAreKnown' /\ FoundStays' /\ UnheardIsExcused'
      /\ D!Kinds' = D!Kinds /\ D!Listing' = D!Listing
  BY <1>1, <1>3, <1>4, CallTurns
<1>6. ListsFollow'
  BY <1>3, <1>5 DEF ListsFollow, WillShow
<1> QED
  BY <1>1, <1>3, <1>4, <1>5, <1>6, QuietTurn

\* The server does what was asked for: of two requests about one name nothing is promised.
LEMMA ChangeIsMade == ASSUME DialogsInv, NEW c \in Calls, D!Write(c) PROVE DialogsInv'
<1> DEFINE n == calls[c].name
           kind == calls[c].kind
           made == IF D!Makes(c) THEN minted + 1 ELSE 0
           new == [calls[c] EXCEPT !.stage = "done", !.secret = made]
<1>1. /\ Asks(calls[c]) /\ calls[c].stage # "done"
      /\ calls[c].stage = "found" \/ kind \in D!Upserts \cup {"run"}
      /\ secret' = IF kind \in D!Removes THEN [secret EXCEPT ![n] = 0]
                   ELSE IF D!Makes(c) THEN [m \in Names |-> D!Written(c, m)] ELSE secret
      /\ role' = IF n \in D!Rows /\ kind # "role" THEN role
                 ELSE [role EXCEPT ![n] = calls[c].role]
      /\ minted' = IF D!Makes(c) THEN minted + 1 ELSE minted
      /\ UNCHANGED <<page, listed, pending, issued, seen, rivals, excuses>>
  BY DEF D!Write, D!Ready, D!screen, D!history, D!NewSecret, Asks
<1>2. calls' = [calls EXCEPT ![c] = new]
  <2>1. calls' = [calls EXCEPT ![c].stage = "done",
                               ![c].secret = IF D!Makes(c) THEN D!NewSecret ELSE 0]
    BY DEF D!Write
  <2> QED
    BY <2>1 DEF D!NewSecret, DialogsInv, DialogsTyped, CallStates
<1>3. n \in Names /\ kind \in D!Kinds /\ ~WillShow(calls[c])
  BY <1>1, AskedOf
<1>4. made \in Nat /\ minted' \in Nat
  BY <1>1 DEF DialogsInv, DialogsTyped
<1>5. /\ new \in CallStates /\ new.stage = "done" /\ new.secret = made
      /\ new.name = n /\ new.kind = kind /\ new.heard = calls[c].heard /\ Asks(new)
  BY <1>4 DEF DialogsInv, DialogsTyped, CallStates, Stages, Asks
<1>6. /\ calls' \in [Calls -> CallStates]
      /\ \A d \in Calls : calls'[d] = IF d = c THEN new ELSE calls[d]
  BY <1>2, <1>5 DEF DialogsInv, DialogsTyped
<1>7. /\ secret' \in [Names -> Nat]
      /\ \A m \in Names : m # n => secret'[m] = secret[m]
      /\ secret'[n] = IF kind \in D!Removes THEN 0
                      ELSE IF D!Makes(c) /\ (n \in D!Rows \/ kind # "reset") THEN made
                           ELSE secret[n]
  <2>1. secret \in [Names -> Nat]
    BY DEF DialogsInv, DialogsTyped
  <2>2. \A m \in Names : D!Written(c, m) = IF m = n /\ (m \in D!Rows \/ kind # "reset")
                                           THEN minted + 1 ELSE secret[m]
    BY DEF D!Written, D!NewSecret
  <2>3. CASE kind \in D!Removes
    BY <1>1, <1>3, <2>1, <2>3
  <2>4. CASE kind \notin D!Removes /\ D!Makes(c)
    <3>1. secret' = [m \in Names |-> D!Written(c, m)]
      BY <1>1, <2>4
    <3>2. made = minted + 1
      BY <2>4
    <3> QED
      BY <1>3, <1>4, <2>1, <2>2, <2>4, <3>1, <3>2
  <2>5. CASE kind \notin D!Removes /\ ~D!Makes(c)
    BY <1>1, <1>3, <2>1, <2>5
  <2> QED
    BY <2>3, <2>4, <2>5
<1>8. role' \in [Names -> RoleNames]
  <2>1. calls[c].role \in RoleNames /\ role \in [Names -> RoleNames]
    BY DEF DialogsInv, DialogsTyped, CallStates
  <2> QED
    BY <1>1, <1>3, <2>1
<1> HIDE DEF new, made
<1>9. DialogsTyped'
  BY <1>1, <1>4, <1>6, <1>7, <1>8 DEF DialogsInv, DialogsTyped
<1>10. OnPage'
  BY <1>1, <1>3, <1>5, <1>6 DEF DialogsInv, OnPage, Asks, D!Kinds
<1>11. RivalsAreKnown'
  BY <1>1, <1>5, <1>6 DEF DialogsInv, RivalsAreKnown
<1>12. ASSUME NEW d \in Calls, d # c, Asks(calls[d]), calls[d].name \notin rivals
       PROVE  calls[d].name # n
  BY <1>1, <1>12 DEF DialogsInv, RivalsAreKnown
<1>13. FoundStays'
  <2>1. SUFFICES ASSUME NEW d \in Calls, calls'[d].name \notin rivals
                 PROVE  /\ calls'[d].stage = "found" /\ calls'[d].kind \in D!OfRow =>
                             secret'[calls'[d].name] # 0 /\ calls'[d].name \in Names
                        /\ calls'[d].stage = "done" /\ calls'[d].kind \in D!Mints =>
                             secret'[calls'[d].name] = calls'[d].secret
    BY <1>1 DEF FoundStays, D!OfRow, D!Mints, D!Rows
  <2>2. CASE d = c
    <3>1. kind = "reset" => n \in D!Rows
      <4>1. kind = "reset" => calls[c].stage = "found" /\ kind \in D!OfRow
        BY <1>1 DEF D!Upserts, D!OfRow
      <4> QED
        BY <2>1, <2>2, <4>1, <1>5, <1>6 DEF DialogsInv, FoundStays
    <3>2. kind \in D!Mints => D!Makes(c) /\ kind \notin D!Removes
      BY DEF D!Makes, D!Mints, D!Removes
    <3> QED
      BY <1>5, <1>6, <1>7, <2>2, <3>1, <3>2
  <2>3. CASE d # c
    <3>1. calls'[d] = calls[d]
      BY <1>6, <2>3
    <3>2. Asks(calls[d]) => calls[d].name \in Names /\ calls[d].name # n
      BY <1>12, <2>1, <2>3, <3>1, AskedOf
    <3> QED
      BY <1>7, <2>1, <3>1, <3>2 DEF DialogsInv, FoundStays, D!Rows, Asks
  <2> QED
    BY <2>2, <2>3
<1>14. IssuedCovers'
  <2>1. issued # None /\ issued.name \notin rivals => issued.name # n /\ issued.name \in Names
    BY <1>1 DEF DialogsInv, DialogsTyped, IssuedCovers
  <2> QED
    BY <1>1, <1>5, <1>6, <1>7, <2>1 DEF DialogsInv, IssuedCovers
<1>15. UnheardIsExcused' /\ OneRun'
  BY <1>1, <1>5, <1>6 DEF DialogsInv, UnheardIsExcused, OneRun
<1>16. ListsFollow'
  BY <1>5, <1>6 DEF ListsFollow, WillShow
<1>17. D!InForceWasShown'
  <2>1. SUFFICES ASSUME page # "backups", "unheard" \notin excuses,
                        NEW m \in Names, secret'[m] # 0
                 PROVE  \/ secret'[m] \in seen
                        \/ \E d \in Calls :
                             calls'[d].stage = "done" /\ calls'[d].secret = secret'[m]
    BY <1>1 DEF D!InForceWasShown, D!Rows
  <2>2. CASE secret'[m] = secret[m]
    <3>1. m \in D!Rows
      BY <2>1, <2>2 DEF D!Rows
    <3> QED
      BY <1>1, <1>6, <2>1, <2>2, <3>1 DEF DialogsInv, D!InForceWasShown
  <2>3. CASE secret'[m] # secret[m]
    BY <1>5, <1>6, <1>7, <2>1, <2>3
  <2> QED
    BY <2>2, <2>3
<1> QED
  BY <1>9, <1>10, <1>11, <1>13, <1>14, <1>15, <1>16, <1>17 DEF DialogsInv

\* Somebody else removes the row, or makes it anew.
LEMMA OthersChange == ASSUME DialogsInv, NEW n \in Names, D!Other(n) PROVE DialogsInv'
<1>1. /\ minted' \in Nat
      /\ \E s \in Nat : secret' = [secret EXCEPT ![n] = s]
      /\ role' = [role EXCEPT ![n] = CHOOSE r \in D!Roles : TRUE]
      /\ rivals' = rivals \cup {n}
      /\ seen' = (seen \cup {secret'[n]}) \cap {secret'[m] : m \in Names}
      /\ excuses' = excuses \cup {"others"}
      /\ UNCHANGED <<page, listed, pending, issued, calls>>
  <2>1. minted \in Nat /\ D!NewSecret \in Nat
    BY DEF DialogsInv, DialogsTyped, D!NewSecret
  <2> QED
    BY <2>1 DEF D!Other, D!Fault, D!screen
<1>2. /\ secret' \in [Names -> Nat]
      /\ \A m \in Names : m # n => secret'[m] = secret[m]
  BY <1>1 DEF DialogsInv, DialogsTyped
<1>3. role' \in [Names -> RoleNames]
  <2>1. D!Roles \subseteq RoleNames /\ D!Roles # {}
    BY DEF D!Roles, RoleNames
  <2>2. (CHOOSE r \in D!Roles : TRUE) \in RoleNames
    BY <2>1
  <2> QED
    BY <1>1, <2>2 DEF DialogsInv, DialogsTyped
<1>4. DialogsTyped'
  BY <1>1, <1>2, <1>3 DEF DialogsInv, DialogsTyped
<1>5. OnPage' /\ RivalsAreKnown' /\ UnheardIsExcused' /\ ListsFollow' /\ OneRun'
  BY <1>1 DEF DialogsInv, OnPage, RivalsAreKnown, UnheardIsExcused, ListsFollow, OneRun, Asks,
              D!Kinds
<1>6. FoundStays'
  <2>1. ASSUME NEW c \in Calls, calls[c].name \notin rivals', Asks(calls[c])
        PROVE  calls[c].name \in Names /\ secret'[calls[c].name] = secret[calls[c].name]
    BY <1>1, <1>2, <2>1, AskedOf
  <2> QED
    BY <1>1, <2>1 DEF DialogsInv, FoundStays, D!OfRow, D!Mints, D!Rows, Asks
<1>7. IssuedCovers'
  BY <1>1, <1>2 DEF DialogsInv, DialogsTyped, IssuedCovers, Asks
<1>8. D!InForceWasShown'
  BY <1>1, <1>2 DEF DialogsInv, D!InForceWasShown, D!Rows
<1> QED
  BY <1>4, <1>5, <1>6, <1>7, <1>8 DEF DialogsInv

\* Every step keeps the invariant.
LEMMA DialogsStep ==
  ASSUME DialogsInv, D!Next \/ UNCHANGED <<ofDialogs, excuses, faults>> PROVE DialogsInv'
<1>1. CASE UNCHANGED <<ofDialogs, excuses, faults>>
  <2>1. UNCHANGED <<page, secret, role, listed, pending, issued, calls, minted, seen, rivals,
                    excuses>>
    BY <1>1 DEF ofDialogs
  <2>2. DialogsTyped' /\ OnPage' /\ RivalsAreKnown'
    BY <2>1 DEF DialogsInv, DialogsTyped, OnPage, RivalsAreKnown, Asks, D!Kinds
  <2>3. FoundStays' /\ IssuedCovers' /\ UnheardIsExcused'
    BY <2>1 DEF DialogsInv, FoundStays, IssuedCovers, UnheardIsExcused, Asks, D!OfRow, D!Mints,
                D!Rows
  <2>4. ListsFollow' /\ OneRun' /\ D!InForceWasShown'
    BY <2>1 DEF DialogsInv, ListsFollow, WillShow, D!Listing, OneRun, D!InForceWasShown, D!Rows
  <2> QED
    BY <2>2, <2>3, <2>4 DEF DialogsInv
<1>2. CASE \/ \E kind \in D!Kinds, n \in Names : D!Open(kind, n)
           \/ D!Cancel \/ D!Dismiss
  BY <1>2, DialogTurns
<1>3. ASSUME NEW c \in Calls, NEW n \in Names, NEW r \in D!Roles, D!Submit(c, n, r)
      PROVE  DialogsInv'
  BY <1>3, ChangeIsAsked
<1>4. ASSUME NEW c \in Calls,
             \/ D!Done(c) \/ D!Refused(c) \/ D!GivesUp(c) \/ D!Unheard(c)
             \/ D!ListArrives(c) \/ D!ListFails(c)
             \/ D!Refuse(c) \/ D!Find(c) \/ D!Write(c) \/ D!WriteFails(c) \/ D!Serve(c)
      PROVE  DialogsInv'
  BY <1>4, ChangeIsDone, ChangeEnds, PageGivesUp, ListTurns, ServerTurns, ListIsServed,
     ChangeIsMade
<1>5. ASSUME NEW n \in Names, D!Other(n) PROVE DialogsInv'
  BY <1>5, OthersChange
<1> QED
  BY <1>1, <1>2, <1>3, <1>4, <1>5 DEF D!Next

LEMMA DialogsHold ==
  ASSUME DialogsInv
  PROVE  D!ShownWorks /\ D!InForceWasShown /\ D!ListIsCurrent /\ D!OneRunAtATime
<1>1. D!ListIsCurrent
  <2>1. ~WillShow(D!Idle)
    BY NewCalls DEF WillShow
  <2> QED
    BY <2>1 DEF DialogsInv, ListsFollow, D!ListIsCurrent
<1> QED
  BY <1>1 DEF DialogsInv, IssuedCovers, OneRun, D!ShownWorks, D!OneRunAtATime

-----------------------------------------------------------------------------
(* The lines of a chart: what a fold over the places of a sequence does.   *)

LEMMA CountingUp ==
  ASSUME NEW Ms \in SUBSET Nat, 0 \in Ms, \A n \in Ms : n + 1 \in Ms
  PROVE  \A n \in Nat : n \in Ms
<1> SUFFICES ASSUME NEW m \in Nat, m \notin Ms PROVE FALSE
  OBVIOUS
<1>1. PICK x \in Nat \ Ms : \A y \in Nat \ Ms : <<y, x>> \notin OpToRel(<, Nat)
  BY WFMin, NatLessThanWellFounded
<1>2. \A y \in Nat \ Ms : ~(y < x)
  BY <1>1 DEF OpToRel
<1>3. x # 0 /\ x - 1 \in Nat /\ x - 1 < x
  OBVIOUS
<1>4. x - 1 \in Ms
  BY <1>2, <1>3
<1>5. (x - 1) + 1 = x
  OBVIOUS
<1> QED BY <1>4, <1>5

GoesOn(g, All, base, pick, step) ==
  \A s \in SUBSET All : g[s] = IF s = {} THEN base ELSE step[pick[s]][g[s \ {pick[s]}]]

\* A set of subsets is gone through one element after the other.
LEMMA Recursion ==
  ASSUME NEW All, IsFiniteSet(All), NEW A, NEW base \in A,
         NEW pick, \A s \in SUBSET All : s # {} => pick[s] \in s,
         NEW step, \A x \in All : \A a \in A : step[x][a] \in A
  PROVE  \E g \in [SUBSET All -> A] : GoesOn(g, All, base, pick, step)
<1> DEFINE Go(g, s) == IF s = {} THEN base ELSE step[pick[s]][g[s \ {pick[s]}]]
           Good(n) == \E g \in [SUBSET All -> A] :
                        \A s \in SUBSET All : Cardinality(s) <= n => g[s] = Go(g, s)
           Ns == {n \in Nat : Good(n)}
<1>1. \A s \in SUBSET All : Cardinality(s) \in Nat /\ (Cardinality(s) = 0 <=> s = {})
  BY FS_Subset, FS_CardinalityType, FS_EmptySet
<1>2. \A s \in SUBSET All : s # {} => Cardinality(s \ {pick[s]}) = Cardinality(s) - 1
  BY FS_Subset, FS_RemoveElement
<1>3. \A g \in [SUBSET All -> A] : \A s \in SUBSET All : Go(g, s) \in A
  BY <1>2
<1>4. 0 \in Ns
  <2> DEFINE g == [s \in SUBSET All |-> base]
  <2>1. \A s \in SUBSET All : Cardinality(s) <= 0 => g[s] = Go(g, s)
    BY <1>1
  <2>2. g \in [SUBSET All -> A]
    OBVIOUS
  <2> QED BY <2>1, <2>2
<1>5. ASSUME NEW n \in Ns PROVE n + 1 \in Ns
  <2>1. PICK g \in [SUBSET All -> A] :
          \A s \in SUBSET All : Cardinality(s) <= n => g[s] = Go(g, s)
    OBVIOUS
  <2> DEFINE h == [s \in SUBSET All |-> Go(g, s)]
  <2>2. h \in [SUBSET All -> A]
    BY <1>3
  <2>3. ASSUME NEW s \in SUBSET All, Cardinality(s) <= n + 1 PROVE h[s] = Go(h, s)
    <3>1. CASE s = {}
      BY <3>1
    <3>2. CASE s # {}
      <4>1. s \ {pick[s]} \in SUBSET All /\ Cardinality(s \ {pick[s]}) <= n
        BY <1>1, <1>2, <2>3, <3>2
      <4>2. h[s \ {pick[s]}] = g[s \ {pick[s]}]
        BY <2>1, <4>1
      <4> HIDE DEF Go
      <4>3. h[s] = Go(g, s)
        OBVIOUS
      <4> USE DEF Go
      <4> QED BY <3>2, <4>2, <4>3
    <3> QED BY <3>1, <3>2
  <2> HIDE DEF h, Go
  <2> QED BY <2>2, <2>3
<1> HIDE DEF Good
<1>6. \A n \in Nat : n \in Ns
  BY <1>4, <1>5, CountingUp
<1>7. Good(Cardinality(All))
  BY <1>1, <1>6
<1>8. PICK g \in [SUBSET All -> A] :
        \A s \in SUBSET All : Cardinality(s) <= Cardinality(All) => g[s] = Go(g, s)
  BY <1>7 DEF Good
<1>9. \A s \in SUBSET All : Cardinality(s) <= Cardinality(All)
  BY FS_Subset
<1> QED BY <1>8, <1>9 DEF GoesOn

\* A finite set of integers has a largest member.
LEMMA MaxIn ==
  ASSUME NEW n \in Nat, NEW s \in SUBSET (1 .. n), s # {}
  PROVE  F!Max(s) \in s /\ \A y \in s : y <= F!Max(s)
<1> DEFINE Left == {n - i : i \in s}
<1>1. Left \subseteq Nat /\ Left # {}
  <2>1. \A i \in s : n - i \in Nat
    OBVIOUS
  <2> QED BY <2>1
<1>2. PICK x \in Left : \A y \in Left : <<y, x>> \notin OpToRel(<, Nat)
  BY <1>1, WFMin, NatLessThanWellFounded
<1>3. \A y \in Left : ~(y < x)
  BY <1>1, <1>2 DEF OpToRel
<1>4. \E i \in s : \A j \in s : i >= j
  <2>1. PICK i \in s : x = n - i
    OBVIOUS
  <2>2. ASSUME NEW j \in s PROVE i >= j
    <3>1. n - j \in Left
      OBVIOUS
    <3>2. i \in 1 .. n /\ j \in 1 .. n
      OBVIOUS
    <3>3. ~(n - j < x)
      BY <1>3, <3>1
    <3> HIDE DEF Left
    <3> QED BY <2>1, <3>2, <3>3
  <2> QED BY <2>2
<1> QED BY <1>4 DEF F!Max

\* The largest of the first numbers.
LEMMA MaxOfFirst ==
  ASSUME NEW n \in Nat \ {0}
  PROVE  F!Max(1 .. n) = n /\ 1 .. n # {} /\ (1 .. n) \ {n} = 1 .. n - 1
<1>1. \A x \in 1 .. n : (\A y \in 1 .. n : x >= y) <=> x = n
  OBVIOUS
<1>2. F!Max(1 .. n) = n
  BY <1>1 DEF F!Max
<1>3. n \in 1 .. n
  OBVIOUS
<1>4. (1 .. n) \ {n} = 1 .. n - 1
  OBVIOUS
<1> QED BY <1>2, <1>3, <1>4

FoldsUp(g, N, base, step) == \A s \in SUBSET (1 .. N) :
  g[s] = IF s = {} THEN base ELSE step[F!Max(s)][g[s \ {F!Max(s)}]]

\* A fold from the first to the last of N: there is one, whatever is done with each.
LEMMA FoldExists ==
  ASSUME NEW N \in Nat, NEW A, NEW base \in A,
         NEW step, \A i \in 1 .. N : \A a \in A : step[i][a] \in A
  PROVE  \E g \in [SUBSET (1 .. N) -> A] : FoldsUp(g, N, base, step)
<1> DEFINE All == 1 .. N
           pick == [s \in SUBSET All |-> F!Max(s)]
<1>1. \A s \in SUBSET All : s # {} => pick[s] \in s
  BY MaxIn
<1>2. IsFiniteSet(All)
  BY FS_Interval
<1>3. PICK g \in [SUBSET All -> A] : GoesOn(g, All, base, pick, step)
  <2> HIDE DEF All, pick
  <2>1. \A i \in All : \A a \in A : step[i][a] \in A
    BY DEF All
  <2> QED BY <1>1, <1>2, <2>1, Recursion
<1> QED BY <1>3 DEF GoesOn, FoldsUp

\* And it takes one after the other.
LEMMA FoldGoesOn ==
  ASSUME NEW N \in Nat, NEW A, NEW f, f[{}] \in A,
         NEW step, \A i \in 1 .. N : \A a \in A : step[i][a] \in A,
         \A i \in 1 .. N : f[1 .. i - 1] \in A => f[1 .. i] = step[i][f[1 .. i - 1]]
  PROVE  \A i \in 0 .. N : f[1 .. i] \in A
<1> DEFINE Ns == {n \in Nat : n <= N => f[1 .. n] \in A}
<1>1. 0 \in Ns
  <2>1. 1 .. 0 = {}
    OBVIOUS
  <2> QED BY <2>1
<1>2. ASSUME NEW n \in Ns PROVE n + 1 \in Ns
  <2> SUFFICES ASSUME n + 1 <= N PROVE f[1 .. n + 1] \in A
    OBVIOUS
  <2>1. n + 1 \in 1 .. N /\ (n + 1) - 1 = n /\ f[1 .. n] \in A
    OBVIOUS
  <2>2. f[1 .. n + 1] = step[n + 1][f[1 .. n]]
    BY <2>1
  <2> QED BY <2>1, <2>2
<1>3. \A n \in Nat : n \in Ns
  BY <1>1, <1>2, CountingUp
<1> QED BY <1>3

Filters(g, items, these) ==
  /\ g[0] = <<>>
  /\ \A n \in 1 .. Len(items) :
       g[n] = IF items[n] \in these THEN Append(g[n - 1], items[n]) ELSE g[n - 1]
  /\ F!Only(items, these) = g[Len(items)]

\* filter goes from the first item to the last.
LEMMA OnlyGoesOn ==
  ASSUME NEW X, NEW items \in Seq(X), NEW these
  PROVE  \E g \in [0 .. Len(items) -> Seq(X)] : Filters(g, items, these)
<1> DEFINE L == Len(items)
           A == Seq(X)
           more(a, i) == IF items[i] \in these THEN Append(a, items[i]) ELSE a
           step == [i \in 1 .. L |-> [a \in A |-> more(a, i)]]
           Follows(f) == f = [s \in SUBSET DOMAIN items |->
                                IF s = {} THEN <<>> ELSE more(f[s \ {F!Max(s)}], F!Max(s))]
<1>1. L \in Nat /\ <<>> \in A /\ DOMAIN items = 1 .. L
  OBVIOUS
<1>2. \A i \in 1 .. L : \A a \in A : more(a, i) \in A
  OBVIOUS
<1>3. PICK f : Follows(f) /\ F!Only(items, these) = f[DOMAIN items]
  <2> DEFINE f == CHOOSE h : Follows(h)
  <2>1. F!Only(items, these) = f[DOMAIN items]
    BY DEF F!Only, F!FoldLeft, F!MapThenFoldSet
  <2>2. PICK g \in [SUBSET (1 .. L) -> A] : FoldsUp(g, L, <<>>, step)
    <3> DEFINE e == <<>>
    <3>1. \A i \in 1 .. L : \A a \in A : step[i][a] \in A
      BY <1>2
    <3>2. e \in A
      BY <1>1
    <3>3. \E g \in [SUBSET (1 .. L) -> A] : FoldsUp(g, L, e, step)
      <4> HIDE DEF A, L, step, e
      <4> QED BY <1>1, <3>1, <3>2, FoldExists
    <3> QED BY <3>3
  <2>3. ASSUME NEW s \in SUBSET (1 .. L), s # {}
        PROVE  g[s] = more(g[s \ {F!Max(s)}], F!Max(s))
    <3>1. F!Max(s) \in 1 .. L /\ g[s \ {F!Max(s)}] \in A
      BY <1>1, <2>3, MaxIn
    <3> HIDE DEF A, L, more
    <3> QED BY <2>2, <2>3, <3>1 DEF FoldsUp
  <2>4. Follows(g)
    BY <1>1, <2>2, <2>3 DEF FoldsUp
  <2> HIDE DEF Follows
  <2> QED BY <2>1, <2>4
<1>4. f[{}] = <<>>
  BY <1>3
<1>5. ASSUME NEW i \in 1 .. L, f[1 .. i - 1] \in A
      PROVE  f[1 .. i] = step[i][f[1 .. i - 1]]
  <2>1. 1 .. i \in SUBSET (1 .. L) /\ 1 .. i # {} /\ F!Max(1 .. i) = i
        /\ (1 .. i) \ {i} = 1 .. i - 1
    <3>1. i \in Nat \ {0} /\ \A k \in 1 .. i : k \in 1 .. L
      BY <1>1
    <3> QED BY <3>1, MaxOfFirst
  <2>2. \A s \in SUBSET (1 .. L) : s # {} => f[s] = more(f[s \ {F!Max(s)}], F!Max(s))
    BY <1>1, <1>3
  <2> HIDE DEF A, L, more
  <2> QED BY <1>5, <2>1, <2>2
<1>6. \A i \in 0 .. L : f[1 .. i] \in A
  <2> HIDE DEF A, L, more
  <2>1. \A i \in 1 .. L : \A a \in A : step[i][a] \in A
    BY <1>2
  <2>2. f[{}] \in A
    BY <1>1, <1>4
  <2> HIDE DEF step
  <2> QED BY <1>1, <1>5, <2>1, <2>2, FoldGoesOn
<1> DEFINE g == [i \in 0 .. L |-> f[1 .. i]]
<1>7. g \in [0 .. L -> A] /\ g[0] = <<>> /\ g[L] = f[DOMAIN items]
  <2>1. 1 .. 0 = {}
    OBVIOUS
  <2> QED BY <1>1, <1>4, <1>6, <2>1
<1>8. ASSUME NEW i \in 1 .. L PROVE g[i] = more(g[i - 1], i)
  <2>1. i \in 0 .. L /\ i - 1 \in 0 .. L /\ f[1 .. i - 1] \in A
    BY <1>1, <1>6
  <2> HIDE DEF A, L, more
  <2> QED BY <1>5, <2>1
<1> QED BY <1>3, <1>7, <1>8 DEF Filters

\* Where the items come from.
Places(s, e, n, items, these) ==
  /\ e \in [1 .. Len(s) -> 1 .. n]
  /\ \A i, j \in 1 .. Len(s) : i < j => e[i] < e[j]
  /\ \A i \in 1 .. Len(s) : s[i] = items[e[i]] /\ items[e[i]] \in these

LEMMA OneMorePlace ==
  ASSUME NEW X, NEW items \in Seq(X), NEW these, NEW n \in Nat, n + 1 \in 1 .. Len(items),
         NEW s \in Seq(X), NEW e, Places(s, e, n, items, these)
  PROVE  /\ \E d : Places(s, d, n + 1, items, these)
         /\ items[n + 1] \in these =>
              \E d : Places(Append(s, items[n + 1]), d, n + 1, items, these)
<1> DEFINE m == Len(s)
           d == [i \in 1 .. m + 1 |-> IF i = m + 1 THEN n + 1 ELSE e[i]]
           t == Append(s, items[n + 1])
<1>1. m \in Nat /\ e \in [1 .. m -> 1 .. n]
  BY DEF Places
<1>2. Places(s, e, n + 1, items, these)
  <2>1. e \in [1 .. m -> 1 .. n + 1]
    BY <1>1
  <2> QED BY <2>1 DEF Places
<1>3. ASSUME items[n + 1] \in these PROVE Places(t, d, n + 1, items, these)
  <2>1. items[n + 1] \in X
    OBVIOUS
  <2>2. Len(t) = m + 1 /\ t[m + 1] = items[n + 1] /\ \A i \in 1 .. m : t[i] = s[i]
    BY <2>1
  <2>3. d[m + 1] = n + 1 /\ \A i \in 1 .. m : d[i] = e[i] /\ e[i] \in 1 .. n
    BY <1>1
  <2>4. d \in [1 .. m + 1 -> 1 .. n + 1]
    BY <1>1
  <2>5. \A i, j \in 1 .. m : i < j => e[i] < e[j]
    BY DEF Places
  <2>6. \A i \in 1 .. m : s[i] = items[e[i]] /\ items[e[i]] \in these
    BY DEF Places
  <2>7. \A i \in 1 .. m + 1 : i = m + 1 \/ i \in 1 .. m
    BY <1>1
  <2> HIDE DEF d, t, m
  <2>8. \A i, j \in 1 .. m + 1 : i < j => d[i] < d[j]
    <3> SUFFICES ASSUME NEW i \in 1 .. m + 1, NEW j \in 1 .. m + 1, i < j PROVE d[i] < d[j]
      OBVIOUS
    <3>1. i \in 1 .. m
      BY <1>1
    <3>2. CASE j = m + 1
      BY <2>3, <3>1, <3>2
    <3>3. CASE j \in 1 .. m
      BY <2>3, <2>5, <3>1, <3>3
    <3> QED BY <2>7, <3>2, <3>3
  <2>9. \A i \in 1 .. m + 1 : t[i] = items[d[i]] /\ items[d[i]] \in these
    BY <1>3, <2>2, <2>3, <2>6, <2>7
  <2> QED BY <2>2, <2>4, <2>8, <2>9 DEF Places
<1> QED BY <1>2, <1>3

\* What it keeps are some of the items, in their order; the last one if it is to be kept.
LEMMA OnlyIs ==
  ASSUME NEW X, NEW items \in Seq(X), NEW these
  PROVE  /\ F!Only(items, these) \in Seq(X)
         /\ \E e : Places(F!Only(items, these), e, Len(items), items, these)
         /\ items # <<>> /\ F!Last(items) \in these =>
              /\ F!Only(items, these) # <<>>
              /\ F!Last(F!Only(items, these)) = F!Last(items)
<1> DEFINE L == Len(items)
<1>9. PICK g \in [0 .. L -> Seq(X)] : Filters(g, items, these)
  BY OnlyGoesOn
<1>1. /\ g[0] = <<>>
      /\ \A n \in 1 .. L :
           g[n] = IF items[n] \in these THEN Append(g[n - 1], items[n]) ELSE g[n - 1]
      /\ F!Only(items, these) = g[L]
  BY <1>9 DEF Filters
<1> DEFINE Ns == {n \in Nat : n <= L => \E e : Places(g[n], e, n, items, these)}
<1>2. L \in Nat
  OBVIOUS
<1>3. 0 \in Ns
  <2>1. Places(<<>>, <<>>, 0, items, these)
    BY DEF Places
  <2> QED BY <1>1, <2>1
<1>4. ASSUME NEW n \in Ns PROVE n + 1 \in Ns
  <2> SUFFICES ASSUME n + 1 <= L PROVE \E e : Places(g[n + 1], e, n + 1, items, these)
    OBVIOUS
  <2>1. n \in Nat /\ n <= L
    BY <1>2
  <2>2. PICK e : Places(g[n], e, n, items, these)
    BY <2>1
  <2>3. n + 1 \in 1 .. L /\ (n + 1) - 1 = n /\ n \in 0 .. L
    BY <1>2
  <2>4. g[n] \in Seq(X)
    BY <1>1, <2>3
  <2>5. g[n + 1] = IF items[n + 1] \in these THEN Append(g[n], items[n + 1]) ELSE g[n]
    BY <1>1, <2>3
  <2> QED BY <2>1, <2>2, <2>3, <2>4, <2>5, OneMorePlace
<1>5. \A n \in Nat : n \in Ns
  BY <1>3, <1>4, CountingUp
<1>6. \E e : Places(g[L], e, L, items, these)
  BY <1>2, <1>5
<1>7. g[L] \in Seq(X)
  BY <1>1, <1>2
<1>8. ASSUME items # <<>>, F!Last(items) \in these
      PROVE  g[L] # <<>> /\ F!Last(g[L]) = F!Last(items)
  <2>1. L \in 1 .. L /\ L - 1 \in 0 .. L
    BY <1>8
  <2>2. F!Last(items) = items[L] /\ g[L - 1] \in Seq(X) /\ items[L] \in X
    BY <1>1, <2>1 DEF F!Last
  <2>3. g[L] = Append(g[L - 1], items[L])
    BY <1>1, <1>8, <2>1, <2>2
  <2> DEFINE s == g[L - 1]
             x == items[L]
  <2>4. s \in Seq(X) /\ x \in X
    BY <2>2
  <2> HIDE DEF s, x
  <2>5. Append(s, x) # <<>> /\ Append(s, x)[Len(Append(s, x))] = x
    BY <2>4
  <2> QED BY <2>2, <2>3, <2>5 DEF F!Last, s, x
<1> QED BY <1>1, <1>6, <1>7, <1>8

Apart(kept, times) ==
  \A i, j \in 1 .. Len(kept) : i < j => times[kept[i]] < times[kept[j]]

\* A place that is far enough from the last of the places.
LEMMA OneFartherOn ==
  ASSUME NEW times \in Seq(Nat), NEW kept \in Seq(1 .. Len(times)), Apart(kept, times),
         NEW n \in 1 .. Len(times),
         kept # <<>> => times[F!Last(kept)] < times[n]
  PROVE  Append(kept, n) \in Seq(1 .. Len(times)) /\ Apart(Append(kept, n), times)
<1> DEFINE m == Len(kept)
           t == Append(kept, n)
<1>1. m \in Nat /\ Len(t) = m + 1 /\ t[m + 1] = n /\ \A i \in 1 .. m : t[i] = kept[i]
  OBVIOUS
<1>2. t \in Seq(1 .. Len(times))
  OBVIOUS
<1>3. \A i \in 1 .. m : kept[i] \in 1 .. Len(times)
  OBVIOUS
<1>4. \A i \in 1 .. Len(times) : times[i] \in Nat
  OBVIOUS
<1>5. m > 0 => times[kept[m]] < times[n]
  BY DEF F!Last
<1>6. \A i, j \in 1 .. m : i < j => times[kept[i]] < times[kept[j]]
  BY DEF Apart
<1> HIDE DEF m, t
<1>7. ASSUME NEW i \in 1 .. m + 1, NEW j \in 1 .. m + 1, i < j
      PROVE  times[t[i]] < times[t[j]]
  <2>1. i \in 1 .. m /\ t[i] = kept[i] /\ m > 0 /\ m \in 1 .. m
    BY <1>1, <1>7
  <2>2. CASE j # m + 1
    <3>1. j \in 1 .. m
      BY <1>1, <2>2
    <3> QED BY <1>1, <1>6, <1>7, <2>1, <3>1
  <2>3. CASE j = m + 1
    <3>1. times[t[j]] = times[n] /\ times[kept[m]] < times[n]
      BY <1>1, <1>5, <2>1, <2>3
    <3>2. i = m \/ times[kept[i]] < times[kept[m]]
      BY <1>1, <1>6, <2>1
    <3>3. times[kept[i]] \in Nat /\ times[kept[m]] \in Nat /\ times[n] \in Nat
      BY <1>3, <1>4, <2>1
    <3>4. times[kept[i]] < times[n]
      <4> DEFINE x == times[kept[i]]
                 y == times[kept[m]]
                 z == times[n]
      <4>1. x \in Nat /\ y \in Nat /\ z \in Nat /\ y < z /\ (x = y \/ x < y)
        BY <3>1, <3>2, <3>3
      <4> HIDE DEF x, y, z
      <4>2. x < z
        BY <4>1
      <4> QED BY <4>2 DEF x, z
    <3>5. times[t[i]] = times[kept[i]]
      BY <2>1
    <3> QED BY <3>1, <3>4, <3>5
  <2> QED BY <1>1, <2>2, <2>3
<1> QED BY <1>1, <1>2, <1>7 DEF Apart, t

\* What is plotted of more readings than one are readings of different times.
LEMMA SpacedIs ==
  ASSUME NEW times \in Seq(Nat)
  PROVE  /\ F!Spaced(times) \in Seq(1 .. Len(times))
         /\ times # <<>> => F!Spaced(times) # <<>>
         /\ Apart(F!Spaced(times), times)
<1> DEFINE L == Len(times)
           A == {s \in Seq(1 .. L) : Apart(s, times)}
           far(kept, i) == kept = <<>> \/ times[i] - times[F!Last(kept)] >= EVERY
           more(kept, i) == IF far(kept, i) THEN Append(kept, i) ELSE kept
           step == [i \in 1 .. L |-> [a \in A |-> more(a, i)]]
           Follows(f) == f = [s \in SUBSET (1 .. L) |->
                                IF s = {} THEN <<>> ELSE more(f[s \ {F!Max(s)}], F!Max(s))]
<1>1. L \in Nat /\ DOMAIN times = 1 .. L
  OBVIOUS
<1>2. <<>> \in A
  BY DEF Apart
<1>3. ASSUME NEW i \in 1 .. L, NEW a \in A PROVE more(a, i) \in A /\ more(a, i) # <<>>
  <2>1. CASE far(a, i)
    <3>1. a # <<>> => times[F!Last(a)] < times[i]
      <4> SUFFICES ASSUME a # <<>> PROVE times[F!Last(a)] < times[i]
        OBVIOUS
      <4>1. Len(a) \in 1 .. Len(a)
        BY EmptySeq
      <4>2. F!Last(a) \in 1 .. L
        BY <4>1 DEF F!Last
      <4>3. times[F!Last(a)] \in Nat /\ times[i] \in Nat
        BY <4>2
      <4>4. EVERY \in Nat /\ EVERY > 0
        BY LiveFiguresAssumption DEF F!LiveFiguresAssumption
      <4> QED BY <2>1, <4>3, <4>4
    <3>2. Append(a, i) \in A
      BY <3>1, OneFartherOn
    <3>3. Append(a, i) # <<>>
      <4> DEFINE X == 1 .. L
      <4>1. a \in Seq(X) /\ i \in X
        OBVIOUS
      <4> HIDE DEF X, A
      <4> QED BY <4>1, AppendProperties
    <3> QED BY <2>1, <3>2, <3>3
  <2>2. CASE ~far(a, i)
    BY <2>2
  <2> QED BY <2>1, <2>2
<1>4. PICK f : Follows(f) /\ F!Spaced(times) = f[1 .. L]
  <2> DEFINE it == [i \in DOMAIN times |-> i]
             Fold(f) == f = [s \in SUBSET DOMAIN it |->
                               IF s = {} THEN <<>> ELSE
                               IF far(f[s \ {F!Max(s)}], it[F!Max(s)])
                               THEN Append(f[s \ {F!Max(s)}], it[F!Max(s)])
                               ELSE f[s \ {F!Max(s)}]]
             f == CHOOSE h : Fold(h)
  <2>1. F!Spaced(times) = f[DOMAIN it]
    BY DEF F!Spaced, F!FoldLeft, F!MapThenFoldSet
  <2>2. PICK g \in [SUBSET (1 .. L) -> A] : FoldsUp(g, L, <<>>, step)
    <3> DEFINE e == <<>>
    <3>1. \A i \in 1 .. L : \A a \in A : step[i][a] \in A
      BY <1>3
    <3>2. e \in A
      BY <1>2
    <3>3. \E g \in [SUBSET (1 .. L) -> A] : FoldsUp(g, L, e, step)
      <4>1. L \in Nat
        BY <1>1
      <4> HIDE DEF A, L, step, e
      <4> QED BY <4>1, <3>1, <3>2, FoldExists
    <3> QED BY <3>3
  <2>3. ASSUME NEW s \in SUBSET (1 .. L), s # {}
        PROVE  g[s] = more(g[s \ {F!Max(s)}], F!Max(s)) /\ it[F!Max(s)] = F!Max(s)
    <3>1. F!Max(s) \in 1 .. L /\ g[s \ {F!Max(s)}] \in A
      BY <1>1, <2>3, MaxIn
    <3>2. it[F!Max(s)] = F!Max(s)
      BY <1>1, <3>1
    <3> HIDE DEF A, L, more, it
    <3> QED BY <2>2, <2>3, <3>1, <3>2 DEF FoldsUp
  <2>4. DOMAIN it = 1 .. L
    BY <1>1
  <2>5. Fold(g)
    <3>1. ASSUME NEW s \in SUBSET (1 .. L)
          PROVE  g[s] = IF s = {} THEN <<>> ELSE
                        IF far(g[s \ {F!Max(s)}], it[F!Max(s)])
                        THEN Append(g[s \ {F!Max(s)}], it[F!Max(s)])
                        ELSE g[s \ {F!Max(s)}]
      <4>1. s = {} => g[s] = <<>>
        BY <2>2 DEF FoldsUp
      <4> HIDE DEF A, L, far, it
      <4> QED BY <2>3, <4>1
    <3> HIDE DEF A, L, far, it
    <3> QED BY <2>4, <3>1
  <2>6. Fold(f)
    <3> HIDE DEF Fold
    <3> QED BY <2>5
  <2>7. Follows(f)
    <3>1. ASSUME NEW s \in SUBSET (1 .. L)
          PROVE  f[s] = IF s = {} THEN <<>> ELSE more(f[s \ {F!Max(s)}], F!Max(s))
      <4>1. f[s] = IF s = {} THEN <<>> ELSE
                   IF far(f[s \ {F!Max(s)}], it[F!Max(s)])
                   THEN Append(f[s \ {F!Max(s)}], it[F!Max(s)])
                   ELSE f[s \ {F!Max(s)}]
        <5> HIDE DEF far, it, f
        <5> QED BY <2>4, <2>6
      <4>2. s # {} => it[F!Max(s)] = F!Max(s)
        BY <2>3
      <4> HIDE DEF far, it, f
      <4> QED BY <4>1, <4>2
    <3>2. f = [s \in SUBSET (1 .. L) |-> f[s]]
      <4> HIDE DEF far, it, f
      <4> QED BY <2>4, <2>6
    <3> HIDE DEF more, it, f
    <3> QED BY <3>1, <3>2
  <2> HIDE DEF Follows, f, it
  <2> QED BY <2>1, <2>4, <2>7
<1>5. f[{}] = <<>>
  BY <1>4
<1>6. ASSUME NEW i \in 1 .. L PROVE f[1 .. i] = more(f[1 .. i - 1], i)
  <2>1. 1 .. i \in SUBSET (1 .. L) /\ 1 .. i # {} /\ F!Max(1 .. i) = i
        /\ (1 .. i) \ {i} = 1 .. i - 1
    <3>1. i \in Nat \ {0} /\ \A k \in 1 .. i : k \in 1 .. L
      BY <1>1
    <3> QED BY <3>1, MaxOfFirst
  <2>2. \A s \in SUBSET (1 .. L) : s # {} => f[s] = more(f[s \ {F!Max(s)}], F!Max(s))
    BY <1>1, <1>4
  <2> HIDE DEF A, L, more
  <2> QED BY <2>1, <2>2
<1>7. \A i \in 0 .. L : f[1 .. i] \in A
  <2>1. \A i \in 1 .. L : f[1 .. i - 1] \in A => f[1 .. i] = step[i][f[1 .. i - 1]]
    <3> HIDE DEF A, L, more
    <3> QED BY <1>6
  <2>2. \A i \in 1 .. L : \A a \in A : step[i][a] \in A
    BY <1>3
  <2>3. f[{}] \in A /\ L \in Nat
    BY <1>1, <1>2, <1>5
  <2> HIDE DEF A, L, step
  <2> QED BY <2>1, <2>2, <2>3, FoldGoesOn
<1>8. f[1 .. L] \in A
  BY <1>1, <1>7
<1>9. ASSUME times # <<>> PROVE f[1 .. L] # <<>>
  <2>2. L # 0
    BY <1>9, EmptySeq
  <2>1. L \in 1 .. L /\ L \in 0 .. L /\ L - 1 \in 0 .. L
    BY <1>1, <2>2
  <2> HIDE DEF A, L, more
  <2> QED BY <1>3, <1>6, <1>7, <2>1
<1> QED BY <1>4, <1>8, <1>9

\* A line ends with the newest of its readings.
LEMMA ThinnedIs ==
  ASSUME NEW times \in Seq(Nat), times # <<>>,
         \A i \in 1 .. Len(times) : times[i] <= F!Last(times)
  PROVE  /\ F!Thinned(times) \in Seq(Nat) /\ F!Thinned(times) # <<>>
         /\ F!Last(F!Thinned(times)) = F!Last(times)
         /\ \A i \in 1 .. Len(F!Thinned(times)) :
              \E k \in 1 .. Len(times) : F!Thinned(times)[i] = times[k]
         /\ F!Forward(F!Thinned(times))
<1> DEFINE L == Len(times)
           s == F!Spaced(times)
           p == F!Plotted(times)
           t == F!Thinned(times)
           m == Len(s)
<1>1. L \in 1 .. L /\ F!Last(times) = times[L] /\ \A i \in 1 .. L : times[i] \in Nat
  BY EmptySeq DEF F!Last
<1>2. s \in Seq(1 .. L) /\ s # <<>> /\ Apart(s, times)
  BY SpacedIs
<1>3. m \in Nat \ {0} /\ F!Last(s) = s[m] /\ \A i \in 1 .. m : s[i] \in 1 .. L
  <2> DEFINE X == 1 .. L
  <2> HIDE DEF s, L
  <2>1. s \in Seq(X) /\ s # <<>>
    BY <1>2
  <2> HIDE DEF X
  <2>2. m \in Nat \ {0} /\ \A i \in 1 .. m : s[i] \in X
    BY <2>1, EmptySeq, LenProperties
  <2> QED BY <2>2 DEF F!Last, X
<1>4. /\ p \in Seq(1 .. L) /\ Len(p) \in Nat \ {0} /\ p[Len(p)] = L
      /\ \A i, j \in 1 .. Len(p) : i < j =>
           IF j < Len(p) THEN times[p[i]] < times[p[j]] ELSE times[p[i]] <= times[p[j]]
  <2>1. CASE F!Last(s) = L
    <3>1. p = s
      BY <2>1 DEF F!Plotted
    <3>2. ASSUME NEW i \in 1 .. m, NEW j \in 1 .. m, i < j
          PROVE  times[s[i]] < times[s[j]] /\ times[s[i]] <= times[s[j]]
      <4>1. times[s[i]] \in Nat /\ times[s[j]] \in Nat /\ times[s[i]] < times[s[j]]
        BY <1>1, <1>2, <1>3, <3>2 DEF Apart
      <4> QED BY <4>1
    <3> HIDE DEF s, p, L
    <3> QED BY <1>2, <1>3, <2>1, <3>1, <3>2
  <2>2. CASE F!Last(s) # L
    <3>1. p = Append(s, L)
      BY <2>2 DEF F!Plotted
    <3>2. L \in 1 .. L
      BY <1>1
    <3> HIDE DEF s, p, L
    <3>3. /\ Append(s, L) \in Seq(1 .. L) /\ Len(Append(s, L)) = m + 1
          /\ Append(s, L)[m + 1] = L /\ \A i \in 1 .. m : Append(s, L)[i] = s[i]
      BY <1>2, <3>2, AppendProperties
    <3>4. ASSUME NEW i \in 1 .. m + 1, NEW j \in 1 .. m + 1, i < j
          PROVE  IF j < m + 1 THEN times[p[i]] < times[p[j]] ELSE times[p[i]] <= times[p[j]]
      <4>1. i \in 1 .. m /\ p[i] = s[i]
        BY <1>3, <3>1, <3>3, <3>4
      <4>2. CASE j < m + 1
        <5>1. j \in 1 .. m /\ p[j] = s[j]
          BY <1>3, <3>1, <3>3, <4>2
        <5> QED BY <1>2, <3>4, <4>1, <4>2, <5>1 DEF Apart
      <4>3. CASE j = m + 1
        <5>1. p[j] = L
          BY <3>1, <3>3, <4>3
        <5>2. times[s[i]] <= times[L]
          BY <1>1, <1>3, <4>1 DEF L
        <5> QED BY <1>3, <4>1, <4>3, <5>1, <5>2
      <4> QED BY <1>3, <4>2, <4>3
    <3>5. Len(p) = m + 1 /\ p[m + 1] = L /\ p \in Seq(1 .. L) /\ m + 1 \in Nat \ {0}
      BY <1>3, <3>1, <3>3
    <3> QED BY <3>4, <3>5
  <2> QED BY <2>1, <2>2
<1>5. t = [j \in 1 .. Len(p) |-> times[p[j]]]
  BY <1>4 DEF F!Thinned
<1>6. \A j \in 1 .. Len(p) : p[j] \in 1 .. L /\ times[p[j]] \in Nat
  <2>1. \A j \in 1 .. Len(p) : p[j] \in 1 .. L
    <3> DEFINE X == 1 .. L
    <3> HIDE DEF L, p
    <3>1. p \in Seq(X)
      BY <1>4
    <3> HIDE DEF X
    <3>2. \A j \in 1 .. Len(p) : p[j] \in X
      BY <3>1, LenProperties
    <3> QED BY <3>2 DEF X
  <2> QED BY <1>1, <2>1
<1> HIDE DEF p, t, s, m
<1>7. t \in Seq(Nat) /\ Len(t) = Len(p) /\ t # <<>>
  <2> DEFINE n == Len(p)
  <2>1. n \in Nat \ {0} /\ t \in [1 .. n -> Nat]
    BY <1>4, <1>5, <1>6
  <2> HIDE DEF n
  <2>2. t \in Seq(Nat) /\ Len(t) = n
    <3>1. t \in Seq(Nat) /\ DOMAIN t = 1 .. n
      BY <2>1, SeqDef
    <3> QED BY <2>1, <3>1, LenProperties
  <2>3. t # <<>>
    BY <2>1, <2>2
  <2> QED BY <2>2, <2>3 DEF n
<1>8. F!Last(t) = F!Last(times)
  BY <1>1, <1>4, <1>5, <1>7 DEF F!Last
<1>9. F!Forward(t)
  BY <1>4, <1>5, <1>7 DEF F!Forward
<1>10. \A i \in 1 .. Len(t) : \E k \in 1 .. L : t[i] = times[k]
  BY <1>5, <1>6, <1>7
<1> QED BY <1>7, <1>8, <1>9, <1>10 DEF t

LEMMA NothingToThin == F!Thinned(<<>>) = <<>>
<1>1. <<>> \in Seq(Nat) /\ Len(<<>>) = 0 /\ 1 .. 0 = {}
  OBVIOUS
<1>2. F!Spaced(<<>>) \in Seq(1 .. 0)
  BY <1>1, SpacedIs
<1>3. F!Spaced(<<>>) = <<>>
  <2> DEFINE s == F!Spaced(<<>>)
  <2>1. s \in Seq({})
    BY <1>1, <1>2
  <2> HIDE DEF s
  <2>2. Len(s) \in Nat /\ \A i \in 1 .. Len(s) : s[i] \in {}
    BY <2>1, LenProperties
  <2>3. s = <<>>
    BY <2>1, <2>2
  <2> QED BY <2>3 DEF s
<1>4. F!Plotted(<<>>) = <<>>
  BY <1>3 DEF F!Plotted
<1> QED BY <1>4 DEF F!Thinned

LEMMA LargerOfTwo ==
  ASSUME NEW a \in Int, NEW b \in Int
  PROVE  F!Max({a, b}) = IF a > b THEN a ELSE b
<1> DEFINE m == IF a > b THEN a ELSE b
<1>1. \A x \in {a, b} : (\A y \in {a, b} : x >= y) <=> x = m
  OBVIOUS
<1> QED BY <1>1 DEF F!Max

\* A history and what came since, unless that ends with something older.
LEMMA LineGoesForward ==
  ASSUME NEW times \in Seq(Nat), NEW from \in Nat \cup {-1},
         times # <<>> => \A i \in 1 .. Len(times) : times[i] <= F!Last(times)
  PROVE  /\ F!Forward(<<from>> \o F!Thinned(F!After(times, from)))
         /\ times # <<>> => F!Last(<<from>> \o F!Thinned(F!After(times, from))) =
                              F!Max({F!Last(times), from})
<1> DEFINE later == {at \in F!Range(times) : at > from}
           new == F!After(times, from)
           t == F!Thinned(new)
           c == <<from>> \o t
           L == Len(times)
<1>1. /\ new \in Seq(Nat)
      /\ \E e : Places(new, e, L, times, later)
      /\ times # <<>> /\ F!Last(times) \in later => new # <<>> /\ F!Last(new) = F!Last(times)
  <2> HIDE DEF later
  <2>1. new = F!Only(times, later)
    BY DEF F!After, later
  <2> HIDE DEF new
  <2> QED BY <2>1, OnlyIs
<1>2. times # <<>> => L \in 1 .. L /\ F!Last(times) = times[L] /\ times[L] \in Nat
  BY EmptySeq DEF F!Last
<1>3. DOMAIN times = 1 .. L /\ \A i \in 1 .. L : times[i] \in Nat
  OBVIOUS
<1>4. CASE new = <<>>
  <2>1. c = <<from>>
    <3>1. <<from>> \in Seq(Int) /\ t = <<>>
      BY <1>4, NothingToThin
    <3> HIDE DEF t
    <3> QED BY <3>1, ConcatEmptySeq
  <2>2. F!Forward(c) /\ F!Last(c) = from
    BY <2>1 DEF F!Forward, F!Last
  <2>3. ASSUME times # <<>> PROVE from = F!Max({F!Last(times), from})
    <3>1. F!Last(times) \in F!Range(times)
      BY <1>2, <1>3, <2>3 DEF F!Range
    <3>2. ~(F!Last(times) > from)
      BY <1>1, <1>4, <2>3, <3>1
    <3>3. F!Last(times) \in Int /\ from \in Int
      BY <1>2, <2>3
    <3> QED BY <3>2, <3>3, LargerOfTwo
  <2> QED BY <2>2, <2>3
<1>5. CASE new # <<>>
  <2>1. PICK e : Places(new, e, L, times, later)
    BY <1>1
  <2>2. Len(new) \in Nat \ {0}
    BY <1>1, <1>5, EmptySeq
  <2>3. \A i \in 1 .. Len(new) : e[i] \in 1 .. L /\ new[i] = times[e[i]] /\ new[i] > from
    BY <2>1 DEF Places
  <2>4. times # <<>>
    <3>1. e[1] \in 1 .. L
      BY <2>2, <2>3
    <3> QED BY <3>1
  <2>5. F!Last(times) \in F!Range(times)
    BY <1>2, <1>3, <2>4 DEF F!Range
  <2>6. times[L] > from
    <3>1. new[1] > from /\ times[e[1]] = new[1] /\ e[1] \in 1 .. L
      BY <2>2, <2>3
    <3>2. times[e[1]] <= times[L] /\ times[e[1]] \in Nat /\ times[L] \in Nat
      BY <1>2, <1>3, <2>4, <3>1
    <3> QED BY <3>1, <3>2
  <2>7. F!Last(new) = times[L]
    BY <1>1, <1>2, <2>4, <2>5, <2>6
  <2>8. ASSUME NEW i \in 1 .. Len(new) PROVE new[i] <= F!Last(new)
    BY <1>2, <2>3, <2>4, <2>7
  <2>9. /\ t \in Seq(Nat) /\ t # <<>> /\ F!Last(t) = times[L] /\ F!Forward(t)
        /\ \A i \in 1 .. Len(t) : \E k \in 1 .. Len(new) : t[i] = new[k]
    <3> HIDE DEF new
    <3> QED BY <1>1, <1>5, <2>7, <2>8, ThinnedIs
  <2> DEFINE m == Len(t)
  <2>10. m \in Nat \ {0} /\ DOMAIN t = 1 .. m /\ \A i \in 1 .. m : t[i] \in Nat /\ t[i] > from
    <3>1. \A i \in 1 .. m : t[i] > from
      BY <2>3, <2>9
    <3> HIDE DEF t, new
    <3> QED BY <2>9, <3>1, EmptySeq
  <2> HIDE DEF t
  <2>11. /\ Len(c) = m + 1 /\ DOMAIN c = 1 .. m + 1 /\ c[1] = from
         /\ \A i \in 2 .. m + 1 : c[i] = t[i - 1]
    BY <2>9, <2>10
  <2> HIDE DEF c
  <2>12. F!Last(c) = times[L]
    BY <2>9, <2>10, <2>11 DEF F!Last
  <2>13. F!Forward(c)
    <3> SUFFICES ASSUME NEW i \in 1 .. m + 1, NEW j \in 1 .. m + 1, i < j
                 PROVE  IF j < m + 1 THEN c[i] < c[j] ELSE c[i] <= c[j]
      BY <2>11 DEF F!Forward
    <3>1. j \in 2 .. m + 1 /\ j - 1 \in 1 .. m /\ c[j] = t[j - 1]
      BY <2>10, <2>11
    <3>2. CASE i = 1
      <4>1. c[i] < c[j]
        BY <2>10, <2>11, <3>1, <3>2
      <4>2. c[i] \in Int /\ c[j] \in Int
        BY <2>10, <2>11, <3>1, <3>2
      <4> QED BY <4>1, <4>2
    <3>3. CASE i # 1
      <4>1. i \in 2 .. m + 1 /\ i - 1 \in 1 .. m /\ c[i] = t[i - 1] /\ i - 1 < j - 1
        BY <2>10, <2>11, <3>3
      <4>2. IF j - 1 < m THEN t[i - 1] < t[j - 1] ELSE t[i - 1] <= t[j - 1]
        BY <2>9, <2>10, <3>1, <4>1 DEF F!Forward
      <4>3. j < m + 1 <=> j - 1 < m
        BY <2>10, <3>1
      <4> QED BY <3>1, <4>1, <4>2, <4>3
    <3> QED BY <3>2, <3>3
  <2>14. times[L] = F!Max({F!Last(times), from})
    BY <1>2, <2>4, <2>6, LargerOfTwo
  <2> QED BY <2>12, <2>13, <2>14 DEF c, t
<1> QED BY <1>4, <1>5

-----------------------------------------------------------------------------
(* The figures of a machine: the inductive invariant.                      *)

Figures == [at : Nat, host : Nat \cup {None}]
Frames == [via : {"socket", "rest"}, figure : Figures \cup {None, Signal},
           overtaken : BOOLEAN]
Samples == [source : F!Sources, at : Nat]

FiguresTyped ==
  /\ clock \in Nat
  /\ latest \in Nat \cup {None} /\ host \in Nat \cup {None}
  /\ way \in Seq(Frames)
  /\ \A i \in 1 .. Len(way) : way[i].via = "rest" => way[i].figure # Signal
  /\ shown \in Figures \cup {None}
  /\ tail \in Seq(Samples)
  /\ history \in [F!Sources -> Nat \cup {-1}]

\* The tail ends with what the cards show, or with a reading of the same time.
TailFollows ==
  shown # None => tail # <<>> /\ F!Last(tail).at = F!SampleOf(shown).at

NotAfter(s, t) == s.source = t.source => s.at <= t.at

\* What carries a figure, and what it says.
Carries(f) == f.figure \notin {None, Signal}
Told(f) == F!SampleOf(f.figure)

Recorded(s) == F!Recorded(s.source) # None /\ s.at <= F!Recorded(s.source)

\* What is under way was said in this order, and the server has since heard nothing older.
SaidInOrder(w) ==
  /\ \A i \in 1 .. Len(w) : Carries(w[i]) => Recorded(Told(w[i]))
  /\ \A i, j \in 1 .. Len(w) :
       i < j /\ Carries(w[i]) /\ Carries(w[j]) => NotAfter(Told(w[i]), Told(w[j]))

TailRecorded(t) == \A i \in 1 .. Len(t) : Recorded(t[i])

\* What came, came in this order, and what still comes in its turn is no older.
CameInOrder(t, w) ==
  /\ \A i, j \in 1 .. Len(t) : i < j => NotAfter(t[i], t[j])
  /\ \A i \in 1 .. Len(t), j \in 1 .. Len(w) :
       Carries(w[j]) /\ ~w[j].overtaken => NotAfter(t[i], Told(w[j]))

FiguresInv ==
  /\ FiguresTyped /\ TailFollows
  /\ ~disordered => SaidInOrder(way) /\ TailRecorded(tail)
  /\ ~disordered /\ ~crossed => CameInOrder(tail, way)

LEMMA FiguresStart == ASSUME F!Init PROVE FiguresInv
<1>1. way = <<>> /\ tail = <<>>
  BY DEF F!Init
<1>2. way \in Seq(Frames) /\ tail \in Seq(Samples) /\ Len(way) = 0 /\ Len(tail) = 0
  BY <1>1
<1>3. FiguresTyped /\ TailFollows
  BY <1>2 DEF F!Init, FiguresTyped, TailFollows
<1>4. SaidInOrder(way) /\ TailRecorded(tail) /\ CameInOrder(tail, way)
  BY <1>2 DEF SaidInOrder, TailRecorded, CameInOrder
<1> QED BY <1>3, <1>4 DEF FiguresInv

LEMMA NamesOfFigures ==
  /\ None \notin Nat /\ None # Signal /\ None \notin Figures /\ Signal \notin Figures
  /\ LATENESS \in Nat
BY LiveFiguresAssumption DEF F!LiveFiguresAssumption, Figures

LEMMA SampleTyped ==
  ASSUME NEW f \in Figures
  PROVE  F!SampleOf(f) \in Samples
BY DEF F!SampleOf, Figures, Samples, F!Sources

LEMMA CurrentIs ==
  ASSUME FiguresTyped, F!Current # None
  PROVE  /\ F!Current \in Figures
         /\ LET s == F!SampleOf(F!Current) IN
              F!Recorded(s.source) = s.at /\ s.at \in Nat
<1>1. CASE F!Fresh(latest)
  <2> DEFINE h == IF F!Fresh(host) THEN host ELSE None
  <2>1. latest \in Nat /\ h \in Nat \cup {None} /\ (h # None => h = host)
    BY <1>1 DEF F!Fresh, FiguresTyped
  <2>2. F!Current = [at |-> latest, host |-> h]
    BY <1>1 DEF F!Current
  <2> HIDE DEF h
  <2>3. F!Current \in Figures /\ F!Current.at = latest /\ F!Current.host = h
    BY <2>1, <2>2 DEF Figures
  <2>4. CASE h # None
    BY <2>1, <2>3, <2>4, NamesOfFigures DEF F!SampleOf, F!Recorded
  <2>5. CASE h = None
    BY <2>1, <2>3, <2>5, NamesOfFigures DEF F!SampleOf, F!Recorded
  <2> QED BY <2>3, <2>4, <2>5
<1>2. CASE ~F!Fresh(latest)
  <2>1. F!Fresh(host) /\ F!Current = F!Standalone(host)
    BY <1>2 DEF F!Current
  <2>2. host \in Nat
    BY <2>1 DEF F!Fresh, FiguresTyped
  <2> QED
    BY <2>1, <2>2, NamesOfFigures DEF Figures, F!SampleOf, F!Recorded, F!Standalone
<1> QED BY <1>1, <1>2

\* Some of what is under way, in its order, may be overtaken.
From(w, e) ==
  /\ e \in [1 .. Len(w) -> 1 .. Len(way)]
  /\ \A i, j \in 1 .. Len(w) : i < j => e[i] < e[j]
  /\ \A i \in 1 .. Len(w) :
       /\ w[i].figure = way[e[i]].figure /\ w[i].via = way[e[i]].via
       /\ way[e[i]].overtaken => w[i].overtaken

LEMMA FewerUnderWay ==
  ASSUME NEW w, NEW e, From(w, e)
  PROVE  /\ SaidInOrder(way) => SaidInOrder(w)
         /\ \A t : CameInOrder(t, way) => CameInOrder(t, w)
         /\ (\A i \in 1 .. Len(way) : way[i].via = "rest" => way[i].figure # Signal) =>
              \A i \in 1 .. Len(w) : w[i].via = "rest" => w[i].figure # Signal
<1>1. \A i \in 1 .. Len(w) : e[i] \in 1 .. Len(way) /\ Told(w[i]) = Told(way[e[i]])
                             /\ (Carries(w[i]) <=> Carries(way[e[i]]))
  BY DEF From, Told, Carries
<1>2. SaidInOrder(way) => SaidInOrder(w)
  BY <1>1 DEF From, SaidInOrder
<1>3. ASSUME NEW t, CameInOrder(t, way) PROVE CameInOrder(t, w)
  BY <1>1, <1>3 DEF From, CameInOrder
<1>4. (\A i \in 1 .. Len(way) : way[i].via = "rest" => way[i].figure # Signal) =>
         \A i \in 1 .. Len(w) : w[i].via = "rest" => w[i].figure # Signal
  BY DEF From
<1> QED BY <1>2, <1>3, <1>4

LEMMA OneLess ==
  ASSUME NEW i \in 1 .. Len(way), way \in Seq(Frames)
  PROVE  /\ F!Without(i) \in Seq(Frames) /\ \E e : From(F!Without(i), e)
         /\ F!RemoveAt(way, i) \in Seq(Frames) /\ \E e : From(F!RemoveAt(way, i), e)
<1> DEFINE n == Len(way) - 1
           e == [j \in 1 .. n |-> IF j < i THEN j ELSE j + 1]
           w == F!Without(i)
           v == F!RemoveAt(way, i)
<1>1. n \in Nat /\ Len(way) = n + 1 /\ \A j \in 1 .. n + 1 : way[j] \in Frames
  BY LenProperties
<1>2. e \in [1 .. n -> 1 .. n + 1] /\ \A j, k \in 1 .. n : j < k => e[j] < e[k]
  BY <1>1
<1>3. w \in Seq(Frames) /\ Len(w) = n
      /\ \A j \in 1 .. n : w[j] = IF j < i THEN [way[j] EXCEPT !.overtaken = TRUE]
                                           ELSE way[j + 1]
  <2>1. w = [j \in 1 .. n |-> IF j < i THEN [way[j] EXCEPT !.overtaken = TRUE]
                                       ELSE way[j + 1]]
    BY DEF F!Without
  <2>2. \A j \in 1 .. n : j \in 1 .. n + 1 /\ j + 1 \in 1 .. n + 1
    BY <1>1
  <2>3. \A j \in 1 .. n : way[j] \in Frames /\ way[j + 1] \in Frames
                          /\ [way[j] EXCEPT !.overtaken = TRUE] \in Frames
    BY <1>1, <2>2 DEF Frames
  <2>4. w \in [1 .. n -> Frames]
    BY <2>1, <2>3
  <2> HIDE DEF n, w
  <2>5. w \in Seq(Frames) /\ DOMAIN w = 1 .. n
    BY <1>1, <2>4, SeqDef
  <2> QED BY <1>1, <2>1, <2>5, LenProperties
<1>4. From(w, e)
  <2>1. ASSUME NEW j \in 1 .. n
        PROVE  /\ w[j].figure = way[e[j]].figure /\ w[j].via = way[e[j]].via
               /\ way[e[j]].overtaken => w[j].overtaken
    <3>1. j \in 1 .. n + 1 /\ way[j] \in Frames
      BY <1>1
    <3>2. CASE j < i
      BY <1>3, <3>1, <3>2 DEF Frames
    <3>3. CASE ~(j < i)
      BY <1>3, <3>3
    <3> QED BY <3>2, <3>3
  <2> HIDE DEF e, w, n
  <2> QED BY <1>1, <1>2, <1>3, <2>1 DEF From
<1>5. v \in Seq(Frames) /\ Len(v) = n /\ \A j \in 1 .. n : v[j] = way[e[j]]
  <2>1. v = SubSeq(way, 1, i - 1) \o SubSeq(way, i + 1, Len(way))
    BY DEF F!RemoveAt
  <2> DEFINE a == SubSeq(way, 1, i - 1)
             b == SubSeq(way, i + 1, Len(way))
  <2>2. a \in Seq(Frames) /\ Len(a) = i - 1 /\ \A j \in 1 .. i - 1 : a[j] = way[j]
    BY <1>1, SubSeqProperties
  <2>3. b \in Seq(Frames) /\ Len(b) = n + 1 - i /\ \A j \in 1 .. n + 1 - i : b[j] = way[i + j]
    <3> DEFINE L == Len(way)
    <3>1. i + 1 \in 1 .. L + 1 /\ L \in i .. L /\ L = n + 1 /\ i \in Nat
      BY <1>1
    <3> HIDE DEF L, n
    <3>2. /\ SubSeq(way, i + 1, L) \in Seq(Frames)
          /\ Len(SubSeq(way, i + 1, L)) = L - i
          /\ \A j \in 1 .. L - i : SubSeq(way, i + 1, L)[j] = way[i + j]
      BY <3>1, SubSeqProperties DEF L
    <3>3. L - i = n + 1 - i
      BY <3>1, <1>1
    <3> QED BY <3>2, <3>3 DEF L
  <2> HIDE DEF a, b, n
  <2>4. a \o b \in Seq(Frames) /\ Len(a \o b) = n
    BY <1>1, <2>2, <2>3, ConcatProperties
  <2>5. \A j \in 1 .. n : (a \o b)[j] = IF j < i THEN way[j] ELSE way[j + 1]
    <3> SUFFICES ASSUME NEW j \in 1 .. n
                 PROVE  (a \o b)[j] = IF j < i THEN way[j] ELSE way[j + 1]
      OBVIOUS
    <3>1. (a \o b)[j] = IF j <= Len(a) THEN a[j] ELSE b[j - Len(a)]
      BY <1>1, <2>2, <2>3, ConcatProperties
    <3>2. CASE j < i
      <4>1. j \in 1 .. i - 1
        BY <1>1, <3>2
      <4> QED BY <2>2, <3>1, <3>2, <4>1
    <3>3. CASE ~(j < i)
      <4>1. j - (i - 1) \in 1 .. n + 1 - i /\ i + (j - (i - 1)) = j + 1
        BY <1>1, <3>3
      <4> QED BY <2>2, <2>3, <3>1, <3>3, <4>1
    <3> QED BY <3>2, <3>3
  <2> QED BY <2>1, <2>4, <2>5 DEF a, b
<1>6. From(v, e)
  <2> HIDE DEF e, v, n
  <2> QED BY <1>1, <1>2, <1>5 DEF From
<1> QED BY <1>3, <1>4, <1>5, <1>6

\* What a reading adds to the tail of the charts.
LEMMA TailGrows ==
  ASSUME NEW t \in Seq(Samples), NEW r \in Samples
  PROVE  LET u == F!Tracked(t, r) IN
         /\ u \in Seq(Samples) /\ u # <<>> /\ F!Last(u).at = r.at
         /\ \A i \in 1 .. Len(u) : u[i] = r \/ \E k \in 1 .. Len(t) : u[i] = t[k]
         /\ (\A i, j \in 1 .. Len(t) : i < j => NotAfter(t[i], t[j]))
              /\ (\A i \in 1 .. Len(t) : NotAfter(t[i], r)) =>
            \A i, j \in 1 .. Len(u) : i < j => NotAfter(u[i], u[j])
<1> DEFINE u == F!Tracked(t, r)
           these == {s \in F!Range(t) : s.at > r.at - WINDOW}
           o == F!Only(t, these)
           m == Len(o)
<1>1. CASE t # <<>> /\ F!Last(t).at = r.at
  BY <1>1 DEF F!Tracked
<1>2. CASE ~(t # <<>> /\ F!Last(t).at = r.at)
  <2>1. u = Append(o, r)
    BY <1>2 DEF F!Tracked
  <2> HIDE DEF these
  <2>2. o \in Seq(Samples) /\ \E e : Places(o, e, Len(t), t, these)
    BY OnlyIs
  <2>3. PICK e : Places(o, e, Len(t), t, these)
    BY <2>2
  <2> HIDE DEF o, u
  <2>4. /\ u \in Seq(Samples) /\ u # <<>> /\ Len(u) = m + 1 /\ m \in Nat /\ u[m + 1] = r
        /\ \A i \in 1 .. m : u[i] = o[i]
    BY <2>1, <2>2, AppendProperties, LenProperties
  <2>5. \A i \in 1 .. m : e[i] \in 1 .. Len(t) /\ o[i] = t[e[i]]
    BY <2>3 DEF Places
  <2>6. \A i, j \in 1 .. m : i < j => e[i] < e[j]
    BY <2>3 DEF Places
  <2>7. \A i \in 1 .. m + 1 : i \in 1 .. m \/ i = m + 1
    BY <2>4
  <2>8. \A i, j \in 1 .. m + 1 : i < j => i \in 1 .. m
    BY <2>4
  <2>9. F!Last(u).at = r.at
    BY <2>4 DEF F!Last
  <2> HIDE DEF m
  <2>10. \A i \in 1 .. Len(u) : u[i] = r \/ \E k \in 1 .. Len(t) : u[i] = t[k]
    BY <2>4, <2>5, <2>7
  <2>11. ASSUME \A i, j \in 1 .. Len(t) : i < j => NotAfter(t[i], t[j]),
                \A i \in 1 .. Len(t) : NotAfter(t[i], r),
                NEW i \in 1 .. Len(u), NEW j \in 1 .. Len(u), i < j
         PROVE  NotAfter(u[i], u[j])
    <3>1. i \in 1 .. m /\ u[i] = t[e[i]] /\ e[i] \in 1 .. Len(t)
      BY <2>4, <2>5, <2>8, <2>11
    <3>2. CASE j \in 1 .. m
      BY <2>4, <2>5, <2>6, <2>11, <3>1, <3>2
    <3>3. CASE j = m + 1
      BY <2>4, <2>11, <3>1, <3>3
    <3> QED BY <2>4, <2>7, <3>2, <3>3
  <2> QED BY <2>4, <2>9, <2>10, <2>11 DEF u
<1> QED BY <1>1, <1>2

\* A frame or an answer that the server builds now.
LEMMA FigureIsSaid ==
  ASSUME FiguresInv, NEW via \in {"socket", "rest"}, NEW what,
         what = F!Current \/ (via = "socket" /\ what = Signal),
         way' = Append(way, [via |-> via, figure |-> what, overtaken |-> FALSE]),
         UNCHANGED <<clock, latest, host, disordered, shown, tail, history, crossed>>
  PROVE  FiguresInv'
<1> DEFINE x == [via |-> via, figure |-> what, overtaken |-> FALSE]
           n == Len(way)
<1>1. FiguresTyped /\ TailFollows
  BY DEF FiguresInv
<1>2. what \in Figures \cup {None, Signal}
  BY <1>1, CurrentIs
<1>3. x \in Frames /\ x.via = via /\ x.figure = what /\ ~x.overtaken
  BY <1>2 DEF Frames
<1> HIDE DEF x
<1>4. /\ way' \in Seq(Frames) /\ Len(way') = n + 1 /\ n \in Nat /\ way'[n + 1] = x
      /\ \A i \in 1 .. n : way'[i] = way[i]
  BY <1>1, <1>3, AppendProperties, LenProperties DEF FiguresTyped, x
<1>5. \A i \in 1 .. n + 1 : i \in 1 .. n \/ i = n + 1
  BY <1>4
<1>6. ASSUME Carries(x)
      PROVE  /\ Told(x) \in Samples /\ F!Recorded(Told(x).source) = Told(x).at
             /\ Told(x).at \in Nat
  <2>1. what = F!Current /\ F!Current # None
    BY <1>3, <1>6 DEF Carries
  <2>2. F!Current \in Figures
    BY <1>1, <2>1, CurrentIs
  <2>3. Told(x) = F!SampleOf(F!Current)
    BY <1>3, <2>1 DEF Told
  <2> QED BY <1>1, <2>1, <2>2, <2>3, CurrentIs, SampleTyped
<1>7. \A s : Carries(x) /\ Recorded(s) => NotAfter(s, Told(x))
  BY <1>6 DEF Recorded, NotAfter
<1>8. Carries(x) => Recorded(Told(x))
  BY <1>6, NamesOfFigures DEF Recorded
<1>9. \A s : Recorded(s)' <=> Recorded(s)
  BY DEF Recorded, F!Recorded
<1>10. FiguresTyped'
  <2>1. \A i \in 1 .. n + 1 : way'[i].via = "rest" => way'[i].figure # Signal
    <3>1. via = "rest" => what # Signal
      BY <1>1, CurrentIs, NamesOfFigures
    <3>2. \A i \in 1 .. n : way[i].via = "rest" => way[i].figure # Signal
      BY <1>1 DEF FiguresTyped
    <3> QED BY <1>3, <1>4, <1>5, <3>1, <3>2
  <2> HIDE DEF n
  <2> QED BY <1>1, <1>4, <2>1 DEF FiguresTyped
<1>11. TailFollows'
  BY <1>1 DEF TailFollows, F!SampleOf
<1> HIDE DEF n
<1>12. ASSUME ~disordered PROVE SaidInOrder(way)'
  <2>1. SaidInOrder(way)
    BY <1>12 DEF FiguresInv
  <2>2. \A i \in 1 .. n + 1 : Carries(way'[i]) => Recorded(Told(way'[i]))
    BY <1>4, <1>5, <1>8, <2>1 DEF SaidInOrder, n
  <2>3. ASSUME NEW i \in 1 .. n + 1, NEW j \in 1 .. n + 1, i < j,
               Carries(way'[i]), Carries(way'[j])
        PROVE  NotAfter(Told(way'[i]), Told(way'[j]))
    <3>1. i \in 1 .. n
      BY <1>4, <2>3
    <3>2. CASE j \in 1 .. n
      BY <1>4, <2>1, <2>3, <3>1, <3>2 DEF SaidInOrder, n
    <3>3. CASE j = n + 1
      <4>1. way'[i] = way[i] /\ way'[j] = x
        BY <1>4, <3>1, <3>3
      <4>2. Recorded(Told(way[i]))
        BY <2>1, <2>3, <3>1, <4>1 DEF SaidInOrder, n
      <4> QED BY <1>7, <2>3, <4>1, <4>2
    <3> QED BY <1>5, <3>2, <3>3
  <2> QED BY <1>4, <1>9, <2>2, <2>3 DEF SaidInOrder
<1>13. ASSUME ~disordered PROVE TailRecorded(tail)'
  BY <1>9, <1>13 DEF FiguresInv, TailRecorded
<1>14. ASSUME ~disordered, ~crossed PROVE CameInOrder(tail, way)'
  <2>1. CameInOrder(tail, way) /\ TailRecorded(tail)
    BY <1>14 DEF FiguresInv
  <2>2. ASSUME NEW i \in 1 .. Len(tail), NEW j \in 1 .. n + 1, Carries(way'[j]),
               ~way'[j].overtaken
        PROVE  NotAfter(tail[i], Told(way'[j]))
    <3>1. CASE j \in 1 .. n
      BY <1>4, <2>1, <2>2, <3>1 DEF CameInOrder, n
    <3>2. CASE j = n + 1
      BY <1>4, <1>7, <2>1, <2>2, <3>2 DEF TailRecorded
    <3> QED BY <1>5, <3>1, <3>2
  <2> QED BY <1>4, <2>1, <2>2 DEF CameInOrder
<1> QED BY <1>10, <1>11, <1>12, <1>13, <1>14 DEF FiguresInv

\* Some of what is under way goes, nothing of it is looked at.
LEMMA FiguresAreLost ==
  ASSUME FiguresInv, way' \in Seq(Frames), NEW e, From(way', e),
         UNCHANGED <<clock, latest, host, disordered, shown, tail, history, crossed>>
  PROVE  FiguresInv'
<1>1. FiguresTyped /\ TailFollows
  BY DEF FiguresInv
<1>2. /\ SaidInOrder(way) => SaidInOrder(way')
      /\ \A t : CameInOrder(t, way) => CameInOrder(t, way')
      /\ \A i \in 1 .. Len(way') : way'[i].via = "rest" => way'[i].figure # Signal
  <2>1. \A i \in 1 .. Len(way) : way[i].via = "rest" => way[i].figure # Signal
    BY <1>1 DEF FiguresTyped
  <2> QED BY <2>1, FewerUnderWay
<1>3. \A s : Recorded(s)' <=> Recorded(s)
  BY DEF Recorded, F!Recorded
<1>4. FiguresTyped' /\ TailFollows'
  BY <1>1, <1>2 DEF FiguresTyped, TailFollows, F!SampleOf
<1>5. SaidInOrder(way)' <=> SaidInOrder(way')
  BY <1>3 DEF SaidInOrder
<1>6. TailRecorded(tail)' <=> TailRecorded(tail)
  BY <1>3 DEF TailRecorded
<1>7. CameInOrder(tail, way)' <=> CameInOrder(tail, way')
  BY DEF CameInOrder
<1> QED BY <1>2, <1>4, <1>5, <1>6, <1>7 DEF FiguresInv

\* A figure arrives, whatever it overtakes.
LEMMA FigureArrives ==
  ASSUME FiguresInv, NEW i \in 1 .. Len(way), way[i].figure # Signal,
         way' = F!Without(i), F!Shows(way[i].figure), F!Crosses(i),
         UNCHANGED <<clock, latest, host, disordered>>
  PROVE  FiguresInv'
<1> DEFINE f == way[i].figure
           r == F!SampleOf(f)
<1>1. FiguresTyped /\ TailFollows
  BY DEF FiguresInv
<1>2. way \in Seq(Frames) /\ way[i] \in Frames /\ f \in Figures \cup {None}
  <2>1. way \in Seq(Frames) /\ way[i] \in Frames
    BY <1>1, LenProperties DEF FiguresTyped
  <2> QED BY <2>1 DEF Frames
<1>3. PICK e : From(way', e)
  BY <1>2, OneLess
<1>4. way' \in Seq(Frames)
  BY <1>2, OneLess
<1>5. /\ SaidInOrder(way) => SaidInOrder(way')
      /\ \A t : CameInOrder(t, way) => CameInOrder(t, way')
      /\ \A j \in 1 .. Len(way') : way'[j].via = "rest" => way'[j].figure # Signal
  <2>1. \A j \in 1 .. Len(way) : way[j].via = "rest" => way[j].figure # Signal
    BY <1>1 DEF FiguresTyped
  <2> QED BY <1>3, <2>1, FewerUnderWay
<1>6. shown' = f /\ history' = history /\ crossed' = (crossed \/ way[i].overtaken)
      /\ tail' = IF f = None THEN tail ELSE F!Tracked(tail, r)
  BY DEF F!Shows, F!Crosses
<1>7. \A s : Recorded(s)' <=> Recorded(s)
  BY DEF Recorded, F!Recorded
<1>8. SaidInOrder(way)' <=> SaidInOrder(way')
  BY <1>7 DEF SaidInOrder
<1>9. CameInOrder(tail, way)' <=> CameInOrder(tail', way')
  BY DEF CameInOrder
<1>10. tail \in Seq(Samples)
  BY <1>1 DEF FiguresTyped
<1>11. CASE f = None
  <2>1. shown' = None /\ tail' = tail
    BY <1>6, <1>11
  <2>2. FiguresTyped' /\ TailFollows'
    BY <1>1, <1>4, <1>5, <1>6, <2>1 DEF FiguresTyped, TailFollows
  <2>3. TailRecorded(tail)' <=> TailRecorded(tail)
    BY <1>7, <2>1 DEF TailRecorded
  <2> QED BY <1>5, <1>6, <1>8, <1>9, <2>1, <2>2, <2>3 DEF FiguresInv
<1>12. CASE f # None
  <2>1. f \in Figures /\ r \in Samples /\ Carries(way[i]) /\ Told(way[i]) = r
    BY <1>2, <1>12, SampleTyped DEF Carries, Told
  <2> HIDE DEF f, r
  <2>2. /\ tail' \in Seq(Samples) /\ tail' # <<>> /\ F!Last(tail').at = r.at
        /\ \A j \in 1 .. Len(tail') :
             tail'[j] = r \/ \E k \in 1 .. Len(tail) : tail'[j] = tail[k]
        /\ (\A j, k \in 1 .. Len(tail) : j < k => NotAfter(tail[j], tail[k]))
             /\ (\A j \in 1 .. Len(tail) : NotAfter(tail[j], r)) =>
           \A j, k \in 1 .. Len(tail') : j < k => NotAfter(tail'[j], tail'[k])
    BY <1>6, <1>10, <1>12, <2>1, TailGrows
  <2>3. TailFollows'
    <3>2. (F!Last(tail).at = F!SampleOf(shown).at)'
      BY <1>6, <2>2 DEF r, F!SampleOf, F!Last
    <3> QED BY <2>2, <3>2 DEF TailFollows
  <2>4. FiguresTyped'
    BY <1>1, <1>4, <1>5, <1>6, <2>1, <2>2 DEF FiguresTyped
  <2>5. ASSUME ~disordered PROVE TailRecorded(tail)'
    <3>1. SaidInOrder(way) /\ TailRecorded(tail)
      BY <2>5 DEF FiguresInv
    <3>2. Recorded(r)
      BY <2>1, <3>1 DEF SaidInOrder
    <3>3. \A j \in 1 .. Len(tail) : Recorded(tail[j])
      BY <3>1 DEF TailRecorded
    <3>4. \A j \in 1 .. Len(tail') : Recorded(tail'[j])
      BY <2>2, <3>2, <3>3
    <3> QED BY <1>7, <3>4 DEF TailRecorded
  <2>6. ASSUME ~disordered, ~crossed' PROVE CameInOrder(tail', way')
    <3>1. CameInOrder(tail, way) /\ SaidInOrder(way) /\ ~crossed /\ ~way[i].overtaken
      BY <1>6, <2>6 DEF FiguresInv
    <3>2. \A j \in 1 .. Len(tail) : NotAfter(tail[j], r)
      BY <2>1, <3>1 DEF CameInOrder
    <3>3. \A j, k \in 1 .. Len(tail') : j < k => NotAfter(tail'[j], tail'[k])
      BY <2>2, <3>1, <3>2 DEF CameInOrder
    <3>4. CameInOrder(tail, way')
      BY <1>5, <3>1
    <3>5. ASSUME NEW j \in 1 .. Len(way'), Carries(way'[j]), ~way'[j].overtaken
          PROVE  NotAfter(r, Told(way'[j]))
      <4> DEFINE n == Len(way) - 1
      <4>1. way' = [k \in 1 .. n |-> IF k < i THEN [way[k] EXCEPT !.overtaken = TRUE]
                                              ELSE way[k + 1]]
        BY DEF F!Without
      <4>2. n \in Nat /\ Len(way) = n + 1
        BY <1>2, LenProperties
      <4>3. Len(way') = n
        BY <1>4, <4>1, <4>2, LenProperties
      <4>4. j \in 1 .. n /\ way'[j] = IF j < i THEN [way[j] EXCEPT !.overtaken = TRUE]
                                              ELSE way[j + 1]
        BY <4>1, <4>3
      <4>5. way[j] \in Frames
        <5>1. j \in 1 .. Len(way)
          BY <4>2, <4>4
        <5> QED BY <1>2, <5>1, LenProperties
      <4>6. ~(j < i)
        BY <3>5, <4>4, <4>5 DEF Frames
      <4>7. j + 1 \in 1 .. Len(way) /\ i < j + 1 /\ way'[j] = way[j + 1]
        BY <4>2, <4>4, <4>6
      <4> QED BY <2>1, <3>1, <3>5, <4>7 DEF SaidInOrder
    <3>6. ASSUME NEW k \in 1 .. Len(tail'), NEW j \in 1 .. Len(way'),
                 Carries(way'[j]), ~way'[j].overtaken
          PROVE  NotAfter(tail'[k], Told(way'[j]))
      BY <2>2, <3>4, <3>5, <3>6 DEF CameInOrder
    <3> QED BY <3>3, <3>6 DEF CameInOrder
  <2> QED BY <1>5, <1>6, <1>8, <1>9, <2>3, <2>4, <2>5, <2>6 DEF FiguresInv
<1> QED BY <1>11, <1>12

\* A reading is recorded.
LEMMA ReadingIsRecorded ==
  ASSUME FiguresInv, NEW at \in Nat, F!Record(at) \/ F!RecordHost(at)
  PROVE  FiguresInv'
<1>1. FiguresTyped /\ TailFollows
  BY DEF FiguresInv
<1>2. UNCHANGED <<clock, way, shown, tail, history, crossed>>
  BY DEF F!Record, F!RecordHost, F!screen
<1>3. FiguresTyped' /\ TailFollows'
  BY <1>1, <1>2 DEF FiguresTyped, TailFollows, F!SampleOf, F!Record, F!RecordHost
<1>4. ASSUME ~disordered'
      PROVE  ~disordered /\ \A s \in Samples : Recorded(s) => Recorded(s)'
  <2>1. CASE F!Record(at)
    <3>1. latest' = at /\ host' = host /\ ~disordered /\ ~F!Older(at, latest)
      BY <1>4, <2>1 DEF F!Record
    <3>2. latest # None => latest \in Nat /\ latest <= at
      BY <1>1, <3>1 DEF F!Older, FiguresTyped
    <3>3. ASSUME NEW s \in Samples, Recorded(s) PROVE Recorded(s)'
      <4>1. s.at \in Nat
        BY DEF Samples
      <4>2. CASE s.source = "host"
        BY <3>1, <3>3, <4>2 DEF Recorded, F!Recorded
      <4>3. CASE s.source # "host"
        <5>1. latest # None /\ s.at <= latest
          BY <3>3, <4>3 DEF Recorded, F!Recorded
        <5>2. s.at <= at
          BY <3>2, <4>1, <5>1
        <5> QED BY <3>1, <4>3, <5>2, NamesOfFigures DEF Recorded, F!Recorded
      <4> QED BY <4>2, <4>3
    <3> QED BY <3>1, <3>3
  <2>2. CASE F!RecordHost(at)
    <3>1. host' = at /\ latest' = latest /\ ~disordered /\ ~F!Older(at, host)
      BY <1>4, <2>2 DEF F!RecordHost
    <3>2. host # None => host \in Nat /\ host <= at
      BY <1>1, <3>1 DEF F!Older, FiguresTyped
    <3>3. ASSUME NEW s \in Samples, Recorded(s) PROVE Recorded(s)'
      <4>1. s.at \in Nat
        BY DEF Samples
      <4>2. CASE s.source # "host"
        BY <3>1, <3>3, <4>2 DEF Recorded, F!Recorded
      <4>3. CASE s.source = "host"
        <5>1. host # None /\ s.at <= host
          BY <3>3, <4>3 DEF Recorded, F!Recorded
        <5>2. s.at <= at
          BY <3>2, <4>1, <5>1
        <5> QED BY <3>1, <4>3, <5>2, NamesOfFigures DEF Recorded, F!Recorded
      <4> QED BY <4>2, <4>3
    <3> QED BY <3>1, <3>3
  <2> QED BY <2>1, <2>2
<1>5. ASSUME ~disordered' PROVE SaidInOrder(way)' /\ TailRecorded(tail)'
  <2>1. SaidInOrder(way) /\ TailRecorded(tail)
    BY <1>4, <1>5 DEF FiguresInv
  <2>2. \A i \in 1 .. Len(tail) : tail[i] \in Samples
    BY <1>1, LenProperties DEF FiguresTyped
  <2>3. ASSUME NEW i \in 1 .. Len(way), Carries(way[i]) PROVE Told(way[i]) \in Samples
    <3>1. way[i] \in Frames
      BY <1>1, LenProperties DEF FiguresTyped
    <3>2. way[i].figure \in Figures
      BY <2>3, <3>1 DEF Frames, Carries
    <3> QED BY <3>2, SampleTyped DEF Told
  <2>4. TailRecorded(tail)'
    BY <1>2, <1>4, <1>5, <2>1, <2>2 DEF TailRecorded
  <2>5. \A i \in 1 .. Len(way) : Carries(way[i]) => Recorded(Told(way[i]))'
    <3> SUFFICES ASSUME NEW i \in 1 .. Len(way), Carries(way[i])
                 PROVE  Recorded(Told(way[i]))'
      OBVIOUS
    <3> DEFINE s == Told(way[i])
    <3>1. s \in Samples /\ Recorded(s)
      BY <2>1, <2>3 DEF SaidInOrder
    <3>2. s' = s
      BY <1>2 DEF Told, F!SampleOf
    <3> HIDE DEF s
    <3>3. (F!Recorded(s.source) # None /\ s.at <= F!Recorded(s.source))'
      BY <1>4, <1>5, <3>1, <3>2 DEF Recorded, F!Recorded
    <3> QED BY <3>3 DEF Recorded, s
  <2>6. SaidInOrder(way)'
    BY <1>2, <2>1, <2>5 DEF SaidInOrder, Told, F!SampleOf
  <2> QED BY <2>4, <2>6
<1>6. CameInOrder(tail, way)' <=> CameInOrder(tail, way)
  BY <1>2 DEF CameInOrder
<1> QED BY <1>2, <1>3, <1>4, <1>5, <1>6 DEF FiguresInv

\* What the invariant speaks of stays, but for the time and what the page has loaded.
LEMMA FiguresStay ==
  ASSUME FiguresInv, clock' \in Nat, history' \in [F!Sources -> Nat \cup {-1}],
         UNCHANGED <<latest, host, disordered, way, shown, tail, crossed>>
  PROVE  FiguresInv'
<1>1. FiguresTyped' /\ TailFollows'
  BY DEF FiguresInv, FiguresTyped, TailFollows, F!SampleOf
<1>2. \A s : Recorded(s)' <=> Recorded(s)
  BY DEF Recorded, F!Recorded
<1>3. (SaidInOrder(way) /\ TailRecorded(tail))' <=> SaidInOrder(way) /\ TailRecorded(tail)
  BY <1>2 DEF SaidInOrder, TailRecorded
<1>4. CameInOrder(tail, way)' <=> CameInOrder(tail, way)
  BY DEF CameInOrder
<1> QED BY <1>1, <1>3, <1>4 DEF FiguresInv

\* The socket closes.
LEMMA SocketCloses == ASSUME FiguresInv, F!Drop PROVE FiguresInv'
<1> DEFINE rest == {w \in F!Range(way) : w.via # "socket"}
<1>1. way \in Seq(Frames)
  BY DEF FiguresInv, FiguresTyped
<1>2. way' = F!Only(way, rest)
      /\ UNCHANGED <<clock, latest, host, disordered, shown, tail, history, crossed>>
  BY DEF F!Drop, F!cache, F!screen
<1> HIDE DEF rest
<1>3. way' \in Seq(Frames) /\ \E e : Places(way', e, Len(way), way, rest)
  BY <1>1, <1>2, OnlyIs
<1>4. \E e : From(way', e)
  BY <1>3 DEF Places, From
<1> QED BY <1>2, <1>3, <1>4, FiguresAreLost

LEMMA FiguresStep == ASSUME FiguresInv, F!Next \/ UNCHANGED ofFigures PROVE FiguresInv'
<1>1. FiguresTyped
  BY DEF FiguresInv
<1>2. ASSUME NEW at \in clock - LATENESS .. clock, at >= 0, F!Record(at) \/ F!RecordHost(at)
      PROVE  FiguresInv'
  <2>1. at \in Nat
    BY <1>1, <1>2, NamesOfFigures DEF FiguresTyped
  <2> QED BY <1>2, <2>1, ReadingIsRecorded
<1>3. ASSUME NEW what \in {F!Current, Signal}, F!Push(what) PROVE FiguresInv'
  <2>1. way' = Append(way, [via |-> "socket", figure |-> what, overtaken |-> FALSE])
        /\ UNCHANGED <<clock, latest, host, disordered, shown, tail, history, crossed>>
    BY <1>3 DEF F!Push, F!cache, F!screen
  <2> QED BY <1>3, <2>1, FigureIsSaid
<1>4. CASE F!Answer
  <2>1. way' = Append(way, [via |-> "rest", figure |-> F!Current, overtaken |-> FALSE])
        /\ UNCHANGED <<clock, latest, host, disordered, shown, tail, history, crossed>>
    BY <1>4 DEF F!Answer, F!cache, F!screen
  <2> QED BY <2>1, FigureIsSaid
<1>5. ASSUME NEW i \in DOMAIN way,
             F!FrameArrives(i) \/ F!AnswerArrives(i) \/ F!AnswerLost(i)
      PROVE  FiguresInv'
  <2>1. way \in Seq(Frames) /\ i \in 1 .. Len(way)
    BY <1>1, LenProperties DEF FiguresTyped
  <2>2. UNCHANGED <<clock, latest, host, disordered>>
    BY <1>5 DEF F!FrameArrives, F!AnswerArrives, F!AnswerLost, F!cache
  <2>3. CASE F!FrameArrives(i) /\ way[i].figure = Signal
    <3>1. way' = F!Without(i) /\ UNCHANGED <<shown, tail, history, crossed>>
      BY <2>3 DEF F!FrameArrives, F!screen
    <3> QED BY <2>1, <2>2, <3>1, OneLess, FiguresAreLost
  <2>4. CASE F!FrameArrives(i) /\ way[i].figure # Signal
    <3>1. way' = F!Without(i) /\ F!Shows(way[i].figure) /\ F!Crosses(i)
      BY <2>4 DEF F!FrameArrives
    <3> QED BY <2>1, <2>2, <2>4, <3>1, FigureArrives
  <2>5. CASE F!AnswerArrives(i)
    <3>1. way' = F!Without(i) /\ F!Shows(way[i].figure) /\ F!Crosses(i) /\ way[i].via = "rest"
      BY <2>5 DEF F!AnswerArrives
    <3>2. way[i].figure # Signal
      BY <1>1, <2>1, <3>1 DEF FiguresTyped
    <3> QED BY <2>1, <2>2, <3>1, <3>2, FigureArrives
  <2>6. CASE F!AnswerLost(i)
    <3>1. way' = F!RemoveAt(way, i) /\ UNCHANGED <<shown, tail, history, crossed>>
      BY <2>6 DEF F!AnswerLost, F!screen
    <3> QED BY <2>1, <2>2, <3>1, OneLess, FiguresAreLost
  <2> QED BY <1>5, <2>3, <2>4, <2>5, <2>6
<1>6. CASE F!PollAgain \/ F!Open \/ UNCHANGED ofFigures
  <2>1. UNCHANGED <<clock, latest, host, disordered, way, shown, tail, history, crossed>>
    BY <1>6 DEF F!PollAgain, F!Open, F!cache, F!screen, ofFigures
  <2> QED BY <1>1, <2>1, FiguresStay DEF FiguresTyped
<1>7. ASSUME NEW sources \in SUBSET F!Sources, F!HistoryLands(sources) PROVE FiguresInv'
  <2>1. UNCHANGED <<clock, latest, host, disordered, way, shown, tail, crossed>>
    BY <1>7 DEF F!HistoryLands, F!cache
  <2>2. \A source \in sources : F!Recorded(source) \in Nat
    BY <1>1, <1>7 DEF F!HistoryLands, F!Recorded, FiguresTyped
  <2>3. history' \in [F!Sources -> Nat \cup {-1}]
    BY <1>7, <2>2 DEF F!HistoryLands
  <2> QED BY <1>1, <2>1, <2>3, FiguresStay DEF FiguresTyped
<1>8. CASE F!Tick
  <2>1. clock' = clock + 1
        /\ UNCHANGED <<latest, host, disordered, way, shown, tail, history, crossed>>
    BY <1>8 DEF F!Tick, F!cache, F!screen
  <2> QED BY <1>1, <2>1, FiguresStay DEF FiguresTyped
<1> QED
  BY <1>2, <1>3, <1>4, <1>5, <1>6, <1>7, <1>8, SocketCloses DEF F!Next

\* The readings of one source, in the order of the tail.
LEMMA DeliveredIs ==
  ASSUME FiguresTyped
  PROVE  /\ F!Source \in F!Sources
         /\ F!Delivered \in Seq(Nat)
         /\ \A i, j \in 1 .. Len(F!Delivered) : i < j =>
              \E k, l \in 1 .. Len(tail) :
                /\ k < l /\ tail[k].source = tail[l].source
                /\ F!Delivered[i] = tail[k].at /\ F!Delivered[j] = tail[l].at
         /\ tail # <<>> /\ F!Last(tail).source = F!Source =>
              F!Delivered # <<>> /\ F!Last(F!Delivered) = F!Last(tail).at
<1> DEFINE these == {s \in F!Range(tail) : s.source = F!Source}
           o == F!Only(tail, these)
           n == Len(o)
           d == F!Delivered
<1>1. tail \in Seq(Samples)
  BY DEF FiguresTyped
<1>2. \A s : s \in these => s.source = F!Source
  OBVIOUS
<1>3. tail # <<>> /\ F!Last(tail).source = F!Source => F!Last(tail) \in these
  <2>1. tail # <<>> => Len(tail) \in 1 .. Len(tail) /\ DOMAIN tail = 1 .. Len(tail)
    BY <1>1, EmptySeq, LenProperties
  <2> QED BY <2>1 DEF F!Last, F!Range
<1>4. d = [i \in DOMAIN o |-> o[i].at]
  BY DEF F!Delivered, F!Times
<1> HIDE DEF these
<1>5. /\ o \in Seq(Samples)
      /\ \E e : Places(o, e, Len(tail), tail, these)
      /\ tail # <<>> /\ F!Last(tail) \in these => o # <<>> /\ F!Last(o) = F!Last(tail)
  BY <1>1, OnlyIs
<1>6. PICK e : Places(o, e, Len(tail), tail, these)
  BY <1>5
<1> HIDE DEF o
<1>7. n \in Nat /\ DOMAIN o = 1 .. n /\ \A i \in 1 .. n : o[i] \in Samples /\ o[i].at \in Nat
  <2>1. n \in Nat /\ DOMAIN o = 1 .. n /\ \A i \in 1 .. n : o[i] \in Samples
    BY <1>5, LenProperties
  <2> QED BY <2>1 DEF Samples
<1> HIDE DEF d, n
<1>8. d \in Seq(Nat) /\ Len(d) = n /\ \A i \in 1 .. n : d[i] = o[i].at
  <2>1. d \in [1 .. n -> Nat]
    BY <1>4, <1>7
  <2>2. d \in Seq(Nat) /\ DOMAIN d = 1 .. n
    BY <1>7, <2>1, SeqDef
  <2> QED BY <1>4, <1>7, <2>2, LenProperties
<1>9. ASSUME NEW i \in 1 .. n, NEW j \in 1 .. n, i < j
      PROVE  \E k, l \in 1 .. Len(tail) :
                /\ k < l /\ tail[k].source = tail[l].source
                /\ d[i] = tail[k].at /\ d[j] = tail[l].at
  <2>1. /\ e[i] \in 1 .. Len(tail) /\ e[j] \in 1 .. Len(tail) /\ e[i] < e[j]
        /\ o[i] = tail[e[i]] /\ o[j] = tail[e[j]]
        /\ tail[e[i]] \in these /\ tail[e[j]] \in these
    BY <1>6, <1>9 DEF Places, n
  <2> QED BY <1>2, <1>8, <2>1
<1>10. ASSUME o # <<>>, F!Last(o) = F!Last(tail) PROVE d # <<>> /\ F!Last(d) = F!Last(tail).at
  <2>1. n \in Nat \ {0}
    BY <1>5, <1>10, EmptySeq DEF n
  <2>2. d # <<>>
    BY <1>8, <2>1
  <2> QED BY <1>8, <1>10, <2>1, <2>2 DEF F!Last, n
<1>11. F!Source \in F!Sources
  BY DEF F!Source, F!Sources
<1> QED BY <1>3, <1>5, <1>8, <1>9, <1>10, <1>11 DEF d

LEMMA FiguresHold == ASSUME FiguresInv PROVE F!ChartsMoveForward
<1> DEFINE d == F!Delivered
           h == history[F!Source]
<1>1. FiguresTyped /\ TailFollows
  BY DEF FiguresInv
<1>2. d \in Seq(Nat) /\ h \in Nat \cup {-1}
  BY <1>1, DeliveredIs DEF FiguresTyped
<1>3. d # <<>> => Len(d) \in 1 .. Len(d) /\ F!Last(d) = d[Len(d)]
  BY <1>2, EmptySeq DEF F!Last
<1>4. ASSUME ~F!Behind, d # <<>>, NEW i \in 1 .. Len(d) PROVE d[i] <= F!Last(d)
  <2>1. d[i] \in Nat /\ d[Len(d)] \in Nat /\ i \in DOMAIN d
    BY <1>2, <1>3, <1>4, LenProperties
  <2>2. ~(d[i] > F!Last(d))
    BY <1>4, <2>1 DEF F!Behind
  <2> QED BY <1>3, <1>4, <2>1, <2>2
<1>5. ASSUME ~F!Behind
      PROVE  F!Forward(F!Chart) /\ (d # <<>> => F!Last(F!Chart) = F!Max({F!Last(d), h}))
  <2> HIDE DEF d, h
  <2>1. /\ F!Forward(<<h>> \o F!Thinned(F!After(d, h)))
        /\ d # <<>> => F!Last(<<h>> \o F!Thinned(F!After(d, h))) = F!Max({F!Last(d), h})
    BY <1>2, <1>4, <1>5, LineGoesForward
  <2> QED BY <2>1 DEF F!Chart, d, h
<1>6. ASSUME F!Behind PROVE disordered \/ crossed
  <2> SUFFICES ASSUME ~disordered, ~crossed PROVE FALSE
    OBVIOUS
  <2>1. CameInOrder(tail, way)
    BY DEF FiguresInv
  <2>2. PICK i \in 1 .. Len(d) : d[i] > F!Last(d)
    BY <1>2, <1>6, LenProperties DEF F!Behind
  <2>3. d # <<>>
    BY <1>6 DEF F!Behind
  <2>4. i < Len(d) /\ Len(d) \in 1 .. Len(d) /\ d[i] > d[Len(d)]
    <3>1. d[i] \in Nat /\ Len(d) \in Nat
      BY <1>2, <2>2, LenProperties
    <3>2. i # Len(d)
      BY <1>3, <2>2, <2>3, <3>1
    <3> QED BY <1>3, <2>2, <2>3, <3>1, <3>2
  <2>5. PICK k \in 1 .. Len(tail), l \in 1 .. Len(tail) :
          /\ k < l /\ tail[k].source = tail[l].source
          /\ d[i] = tail[k].at /\ d[Len(d)] = tail[l].at
    BY <1>1, <2>4, DeliveredIs
  <2>6. tail[k].at <= tail[l].at
    BY <2>1, <2>5 DEF CameInOrder, NotAfter
  <2>7. d[i] \in Nat /\ d[Len(d)] \in Nat
    BY <1>2, <2>4, LenProperties
  <2> QED BY <2>4, <2>5, <2>6, <2>7
<1>7. ASSUME shown # None, ~F!Behind
      PROVE  LET reading == F!SampleOf(shown) IN
             \/ reading.source # F!Source
             \/ F!Last(F!Chart) = F!Max({reading.at, history[F!Source]})
             \/ tail # <<>> /\ F!Last(tail) # reading /\ F!Last(tail).at = reading.at
  <2> DEFINE r == F!SampleOf(shown)
  <2>1. tail # <<>> /\ F!Last(tail).at = r.at
    BY <1>1, <1>7 DEF TailFollows
  <2>2. CASE F!Last(tail) = r /\ r.source = F!Source
    <3>1. d # <<>> /\ F!Last(d) = r.at
      BY <1>1, <2>1, <2>2, DeliveredIs
    <3> QED BY <1>5, <1>7, <3>1
  <2> QED BY <2>1, <2>2
<1> QED BY <1>5, <1>6, <1>7 DEF F!ChartsMoveForward

-----------------------------------------------------------------------------
(* Together.                                                               *)

PagesInv ==
  /\ part = "dialogs" => DialogsInv
  /\ part = "forms" => FormsInv
  /\ part = "figures" => FiguresInv

\* It holds of every page, whatever is clicked and answered in what order.
LEMMA PagesStaySound == Spec => []PagesInv
<1>1. Init => PagesInv
  BY DialogsStart, FormsStart, FiguresStart DEF Init, PagesInv
<1>2. PagesInv /\ [Next]_vars => PagesInv'
  <2> SUFFICES ASSUME PagesInv, [Next]_vars PROVE PagesInv'
    OBVIOUS
  <2>1. CASE part = "dialogs" /\ D!Next /\ UNCHANGED part
    BY <2>1, DialogsStep DEF PagesInv
  <2>2. CASE part = "forms" /\ S!Next /\ UNCHANGED part
    BY <2>2, FormsStep DEF PagesInv
  <2>3. CASE part = "figures" /\ F!Next /\ UNCHANGED part
    BY <2>3, FiguresStep DEF PagesInv
  <2>4. CASE UNCHANGED vars
    <3>1. UNCHANGED <<part, ofDialogs, ofForms, ofFigures, excuses, loads, faults>>
      BY <2>4 DEF vars
    <3> QED
      BY <3>1, DialogsStep, FormsStep, FiguresStep DEF PagesInv
  <2> QED
    BY <2>1, <2>2, <2>3, <2>4 DEF Next
<1> QED
  BY <1>1, <1>2, PTL DEF Spec

\* Of the pages of agents, accounts and backups: a secret that is shown is in force unless
\* its name was contested, and one in force was shown to who asked for it, or is about to
\* be, unless the answer never told them: the server could not be reached, it failed after
\* the write, or they left the page.
THEOREM SecretsAreShownOnce == Spec => []SecretsReachTheirReader
<1>1. PagesInv => SecretsReachTheirReader
  BY DialogsHold DEF PagesInv, SecretsReachTheirReader
<1> QED
  BY <1>1, PagesStaySound, PTL

\* Of the same pages: a list that nothing is under way for is what the server has, unless
\* somebody else changed it or an answer was lost or crossed another; and one backup is
\* made by hand at a time.
THEOREM ListsFollowChanges == Spec => []ListsAreCurrent
<1>1. PagesInv => ListsAreCurrent
  BY DialogsHold DEF PagesInv, ListsAreCurrent
<1> QED
  BY <1>1, PagesStaySound, PTL

\* Of the forms of the settings: whatever a person types, saves, closes and opens again, a
\* save changes the fields typed over and no other, but for what the form was not shown.
THEOREM SavesChangeWhatWasTyped == Spec => []SavesWhatWasTyped
<1>1. PagesInv => SavesWhatWasTyped
  BY FormsHold DEF PagesInv, SavesWhatWasTyped
<1> QED
  BY <1>1, PagesStaySound, PTL

\* Of the screen of the notifications: the document a test is sent with is the one on
\* screen when it was asked for, but for a save that was under way or somebody else's.
THEOREM TestsSendWhatIsShown == Spec => []TestsWhatIsShown
<1>1. PagesInv => TestsWhatIsShown
  BY FormsHold DEF PagesInv, TestsWhatIsShown
<1> QED
  BY <1>1, PagesStaySound, PTL

\* Of the page of a machine: its charts go forward in time, unless the last reading that came
\* is an older one, which takes two answers that crossed or a reading that was late at the
\* server; and they end with what the cards show.
THEOREM ChartsGoForward == Spec => []ChartsMoveForward
<1>1. PagesInv => ChartsMoveForward
  BY FiguresHold DEF PagesInv, ChartsMoveForward
<1> QED
  BY <1>1, PagesStaySound, PTL
=============================================================================
