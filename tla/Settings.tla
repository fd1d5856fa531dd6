------------------------------ MODULE Settings ------------------------------
(***************************************************************************)
(* The settings the dashboard edits: settings/service.ts with view.ts,     *)
(* documents.ts, resolve.ts and secrets.ts, over db/settings.repo.ts.      *)
(*                                                                         *)
(* Two documents, each kept three times: the row, the document in memory   *)
(* and the configuration resolved from it.  A save reads the document,     *)
(* awaits the sealing, writes the row, replaces the document, awaits the   *)
(* opening and replaces the configuration.  Nothing serialises two saves.  *)
(* The two documents share nothing, so a behaviour edits one of them.      *)
(*                                                                         *)
(* Abstractions.  A channel is its secret and its other required fields    *)
(* taken together, its detail.  Which fields it needs is its kind: Bare,   *)
(* a secret alone (discord, slack, webhook); Paired, both (telegram,       *)
(* gotify, smtp); Open, the detail and perhaps a secret (ntfy).  The       *)
(* destination of backups is one more, its detail the bucket with what     *)
(* goes with it.  The remaining field, minimumSeverity or schedule, is     *)
(* `plain`.  A sealed value is who can open it and what it says.  Left     *)
(* out: input that is refused before anything is read (requireUrl,         *)
(* parseCron, the password) and the audit log.                             *)
(***************************************************************************)
EXTENDS Naturals, FiniteSets

CONSTANTS
  Bare, Paired, Open,  \* notification channels by kind
  Destination,         \* where backups go
  Plains,              \* what minimumSeverity, or schedule, may be
  DefaultPlain,        \* what the empty document says
  Details,             \* what the other fields of a channel may be
  Secrets,             \* what a caller may give as a secret
  EnvSecret,           \* the secrets in the environment
  SealKeys,            \* what KUBITOR_SETTINGS_KEY may be
  NoKey,               \* ... when it is not set; as a cipher, "none"
  Tasks                \* saves in flight at a time

NoDetail == "empty"

SettingsAssumption ==
  /\ DefaultPlain \in Plains
  /\ Details # {} /\ NoDetail \notin Details
  /\ EnvSecret \notin Secrets
  /\ NoKey \notin SealKeys
  /\ Destination \notin Bare \cup Paired \cup Open

VARIABLES
  rows,       \* table settings
  documents,  \* #notifyDocument and #backupDocument
  configs,    \* #notify and #backup
  tasks,      \* the saves in flight
  pc,         \* of the process: down, the document load is at, or up
  key,        \* KUBITOR_SETTINGS_KEY of the deployment
  overlapped, \* history: documents two saves were at once at, since boot
  edited      \* bound: the document this behaviour edits

vars == <<rows, documents, configs, tasks, pc, key, overlapped, edited>>

-----------------------------------------------------------------------------
(* Documents.                                                              *)

Documents == {"notify", "backup"}

Notified == Bare \cup Paired \cup Open
ChannelsOf(d) == IF d = "notify" THEN Notified ELSE {Destination}
Channels == Notified \cup {Destination}

None == [cipher |-> "absent"]
Sealed(k, s) == [cipher |-> k, value |-> s]
SealedValues ==
  [cipher : SealKeys \cup {NoKey}, value : Secrets \cup {EnvSecret}]

Absent == [secret |-> None, detail |-> NoDetail]

\* NOTIFY_DOCUMENT and BACKUP_DOCUMENT: present or absent as a whole.
WellFormed(c, field) ==
  \/ field = Absent
  \/ /\ c \notin Open => field.secret # None
     /\ c \notin Bare => field.detail # NoDetail

Document(plain, fields) == [plain |-> plain, fields |-> fields]
Empty(d) == Document(DefaultPlain, [c \in ChannelsOf(d) |-> Absent])

Missing == [row |-> "missing"]
Unreadable == [row |-> "unreadable"]
Stored(document) == [row |-> "stored", document |-> document]
IsStored(row) == row.row = "stored"

-----------------------------------------------------------------------------
(* Sealing and opening.                                                    *)

CanSeal == key # NoKey

\* Sealer.open: what was never sealed opens with any key, or none.
Opens(sealed) == sealed # None /\ sealed.cipher \in {NoKey, key}

\* carry: sealing where possible.
Carried(s) == Sealed(key, s)

\* sealField, which throws when there is nothing to seal with.
Kept == "kept"
Cleared == "cleared"

\* Mutant: a secret is taken without a key.
Refused_Never(input) == FALSE

Refused(input) == input \in Secrets /\ ~CanSeal

\* Mutant: only secrets this key opens are kept.
Merged_KeepsOpenable(input, current) ==
  CASE input = Kept -> IF Opens(current) THEN current ELSE None
    [] input = Cleared -> None
    [] OTHER -> Sealed(key, input)

Merged(input, current) ==
  CASE input = Kept -> current
    [] input = Cleared -> None
    [] OTHER -> Sealed(key, input)

Changed(input, current) ==
  \/ input \in Secrets
  \/ input = Cleared /\ current # None

-----------------------------------------------------------------------------
(* resolve.ts: a channel whose required secret does not open is left out;  *)
(* one that can do without loses only the secret.                          *)

NotConfigured == [secret |-> "none", detail |-> NoDetail]
Resolved(c, field) ==
  CASE field = Absent -> NotConfigured
    [] Opens(field.secret) ->
         [secret |-> field.secret.value, detail |-> field.detail]
    [] OTHER -> IF c \in Open THEN [secret |-> "none", detail |-> field.detail]
                              ELSE NotConfigured

Resolve(document) ==
  [plain  |-> document.plain,
   fields |-> [c \in DOMAIN document.fields |->
                 Resolved(c, document.fields[c])]]

-----------------------------------------------------------------------------
(* view.ts: what a form sends, merged into the document it was read from.  *)

Inputs(d) ==
  [plain  : Plains,
   fields : [ChannelsOf(d) ->
               [secret : {Kept, Cleared} \cup Secrets,
                detail : {NoDetail} \cup Details]]]

\* A bare channel has no other fields to give.
Expressible(input) ==
  \A c \in DOMAIN input.fields \cap Bare : input.fields[c].detail = NoDetail

\* A channel is there when any of its fields is.  Emptying the bucket takes the
\* whole destination away; a bucket never given is one the schema asks for.
Candidate(c, input, current) ==
  LET secret == Merged(input.secret, current.secret) IN
  IF c = Destination /\ input.detail = NoDetail /\ current # Absent
    THEN Absent
    ELSE [secret |-> secret, detail |-> input.detail]

Merge(input, document) ==
  Document(input.plain,
           [c \in DOMAIN document.fields |->
              Candidate(c, input.fields[c], document.fields[c])])

SomethingChanged(input, document) ==
  \/ input.plain # document.plain
  \/ \E c \in DOMAIN document.fields :
       \/ Changed(input.fields[c].secret, document.fields[c].secret)
       \/ input.fields[c].detail # document.fields[c].detail

Acceptable(input, document) ==
  \A c \in DOMAIN document.fields :
    /\ ~Refused(input.fields[c].secret)
    /\ WellFormed(c, Candidate(c, input.fields[c], document.fields[c]))

-----------------------------------------------------------------------------
(* Saving.                                                                 *)

Idle == [at |-> "none"]
Saving(d, input, document, at) ==
  [at |-> at, of |-> d, input |-> input, document |-> document]

At(t, at) == tasks[t].at = at
Busy(t, d) == \E u \in Tasks \ {t} : tasks[u] # Idle /\ tasks[u].of = d

\* putNotify, putBackup up to the row.  A save that is refused, or that
\* changes nothing, ends here and is no step.
Put(t, d, input) ==
  /\ pc = "up"
  /\ d = edited
  /\ tasks[t] = Idle
  /\ Expressible(input)
  /\ SomethingChanged(input, documents[d])
  /\ Acceptable(input, documents[d])
  /\ tasks' = [tasks EXCEPT ![t] =
                 Saving(d, input, Merge(input, documents[d]), "write")]
  /\ overlapped' = IF Busy(t, d) THEN overlapped \cup {d} ELSE overlapped
  /\ UNCHANGED <<rows, documents, configs, pc, key, edited>>

\* repo.set
Write(t) ==
  LET task == tasks[t] IN
  /\ At(t, "write")
  /\ rows' = [rows EXCEPT ![task.of] = Stored(task.document)]
  /\ tasks' = [tasks EXCEPT ![t].at = "assign"]
  /\ UNCHANGED <<documents, configs, pc, key, overlapped, edited>>

\* repo.set throws, and the save with it.
WriteFails(t) ==
  /\ At(t, "write")
  /\ tasks' = [tasks EXCEPT ![t] = Idle]
  /\ UNCHANGED <<rows, documents, configs, pc, key, overlapped, edited>>

\* Mutant: the document in memory is not replaced.
Held_Never(d, document) == documents[d]

\* The document is the one just written, and the opening begins.
Held(d, document) == document
Assign(t) ==
  LET task == tasks[t] IN
  /\ At(t, "assign")
  /\ documents' = [documents EXCEPT ![task.of] = Held(task.of, task.document)]
  /\ tasks' = [tasks EXCEPT ![t].at = "resolve"]
  /\ UNCHANGED <<rows, configs, pc, key, overlapped, edited>>

Reconfigure(t) ==
  LET task == tasks[t] IN
  /\ At(t, "resolve")
  /\ configs' = [configs EXCEPT ![task.of] = Resolve(task.document)]
  /\ tasks' = [tasks EXCEPT ![t] = Idle]
  /\ UNCHANGED <<rows, documents, pc, key, overlapped, edited>>

-----------------------------------------------------------------------------
(* SettingsService.load, awaited before the server listens.                *)

\* What the environment configures: whole channels, of some of them.
Environment(d, plain, given) ==
  Document(plain, [c \in ChannelsOf(d) |->
    IF c \notin given THEN Absent
    ELSE [secret |-> Carried(EnvSecret),
          detail |-> IF c \in Bare THEN NoDetail
                                   ELSE CHOOSE x \in Details : TRUE]])

\* A missing row is seeded and written; one that does not parse is left.
Seeded(row) == row = Missing

LoadDocument(d, after) ==
  /\ pc = d
  /\ \E plain \in Plains, given \in SUBSET ChannelsOf(d) :
       LET document == IF Seeded(rows[d]) THEN Environment(d, plain, given)
                       ELSE IF rows[d] = Unreadable THEN Empty(d)
                       ELSE rows[d].document IN
       /\ documents' = [documents EXCEPT ![d] = document]
       /\ configs' = [configs EXCEPT ![d] = Resolve(document)]
       /\ rows' = IF Seeded(rows[d])
                    THEN [rows EXCEPT ![d] = Stored(document)]
                    ELSE rows
  /\ pc' = after
  /\ UNCHANGED <<tasks, key, overlapped, edited>>

\* A deployment starts: with the key of the last one, another, or none.
Deploy(k) ==
  /\ pc = "down"
  /\ key' = k
  /\ pc' = "notify"
  /\ overlapped' = {}
  /\ UNCHANGED <<rows, documents, configs, tasks, edited>>

\* Killed at any await; what was in memory goes.
Crash ==
  /\ pc # "down"
  /\ pc' = "down"
  /\ tasks' = [t \in Tasks |-> Idle]
  /\ documents' = [d \in Documents |-> Empty(d)]
  /\ configs' = [d \in Documents |-> Resolve(Empty(d))]
  /\ UNCHANGED <<rows, key, overlapped, edited>>

-----------------------------------------------------------------------------
Init ==
  /\ rows \in [Documents -> {Missing, Unreadable}]
  /\ documents = [d \in Documents |-> Empty(d)]
  /\ key = NoKey
  /\ configs = [d \in Documents |-> Resolve(Empty(d))]
  /\ tasks = [t \in Tasks |-> Idle]
  /\ pc = "down"
  /\ overlapped = {}
  /\ edited \in Documents

Next ==
  \/ \E t \in Tasks :
       \/ \E d \in Documents : \E input \in Inputs(d) : Put(t, d, input)
       \/ Write(t)
       \/ WriteFails(t)
       \/ Assign(t)
       \/ Reconfigure(t)
  \/ LoadDocument("notify", "backup")
  \/ LoadDocument("backup", "up")
  \/ \E k \in SealKeys \cup {NoKey} : Deploy(k)
  \/ Crash

Spec == Init /\ [][Next]_vars

-----------------------------------------------------------------------------
(* Properties.                                                             *)

Fields == [secret : SealedValues \cup {None}, detail : {NoDetail} \cup Details]
IsDocument(d, document) ==
  /\ document.plain \in Plains
  /\ DOMAIN document.fields = ChannelsOf(d)
  /\ \A c \in ChannelsOf(d) :
       document.fields[c] \in Fields /\ WellFormed(c, document.fields[c])

\* Documents are whole wherever they are kept: "half a Telegram configuration
\* sends nothing and says nothing" (documents.ts).
TypeOK ==
  /\ \A d \in Documents :
       /\ IsDocument(d, documents[d])
       /\ IsStored(rows[d]) => IsDocument(d, rows[d].document)
       /\ rows[d].row \in {"missing", "unreadable", "stored"}
  /\ \A t \in Tasks :
       \/ tasks[t] = Idle
       \/ /\ tasks[t].at \in {"write", "assign", "resolve"}
          /\ tasks[t].of \in Documents
          /\ IsDocument(tasks[t].of, tasks[t].document)
  /\ pc \in Documents \cup {"down", "up"}
  /\ key \in SealKeys \cup {NoKey}
  /\ overlapped \in SUBSET Documents
  /\ edited \in Documents

\* "Held in memory and written through": between saves, the row, the document
\* and the configuration are one, whatever saves failed, were cut off or came
\* before, and whatever key this deployment has, as long as no two saves of
\* the document overlapped since it started.
WrittenThroughUnlessOverlapped ==
  \A d \in Documents \ overlapped :
    pc = "up" /\ (\A t \in Tasks : tasks[t] = Idle \/ tasks[t].of # d) =>
      /\ configs[d] = Resolve(documents[d])
      /\ documents[d] = IF IsStored(rows[d]) THEN rows[d].document ELSE Empty(d)

InTheClear(document) ==
  {c \in DOMAIN document.fields : document.fields[c].secret # None
                                    /\ document.fields[c].secret.cipher = NoKey}

\* "Storing a Telegram token unencrypted in a file that is copied into every
\* backup is worse than refusing" (secrets.ts): only what the environment
\* seeded is ever in the clear.
ClearOnlyFromSeed ==
  \A d \in Documents : IsStored(rows[d]) =>
    \A c \in InTheClear(rows[d].document) :
      rows[d].document.fields[c].secret.value = EnvSecret

KeepsTheKept ==
  \A t \in Tasks, d \in Documents \ overlapped : \A c \in ChannelsOf(d) :
    /\ Write(t) /\ tasks[t].of = d /\ IsStored(rows[d])
    /\ tasks[t].input.fields[c].secret = Kept
    /\ c # Destination \/ tasks[t].input.fields[c].detail # NoDetail
    => rows'[d].document.fields[c].secret = rows[d].document.fields[c].secret

\* A save that keeps a secret leaves it in the row as it was, even one this
\* deployment has no key for, as long as no other save of the document
\* overlapped and the destination was not taken away.
KeptSurvivesUnlessOverlapped == [][KeepsTheKept]_vars
=============================================================================
