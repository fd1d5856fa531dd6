--------------------------- MODULE SettingsProofs ---------------------------
(***************************************************************************)
(* Theorems about what MCSettings puts together, for any constants: the    *)
(* settings with any channels, secrets, keys and number of saves in        *)
(* flight; the schedule with any expressions, minute, lateness of ticks    *)
(* and number of restarts and edits; the backups with any number of them,  *)
(* any length of time and any number of failures.  Each has its invariant, *)
(* shown inductive first; the theorems are at the end.                     *)
(***************************************************************************)
EXTENDS MCSettings, TLAPS

-----------------------------------------------------------------------------
(* The settings: the inductive invariant.                                  *)

\* What of a document is in the clear comes from the environment.
ClearSeed(document) ==
  \A c \in S!InTheClear(document) : document.fields[c].secret.value = EnvSecret

\* A document that may be kept.
Good(d, document) == S!IsDocument(d, document) /\ ClearSeed(document)

\* A row is missing, unreadable, or a good document.
GoodRow(d, row) ==
  \/ row \in {S!Missing, S!Unreadable}
  \/ \E document : Good(d, document) /\ row = S!Stored(document)

\* A save in flight has a good document to write.
GoodTask(task) ==
  \/ task = S!Idle
  \/ \E d \in S!Documents, at \in {"write", "assign", "resolve"} : \E input, document :
       Good(d, document) /\ task = S!Saving(d, input, document, at)

Shape ==
  /\ rows = [d \in S!Documents |-> rows[d]]
  /\ documents = [d \in S!Documents |-> documents[d]]
  /\ configs = [d \in S!Documents |-> configs[d]]
  /\ tasks = [t \in Tasks |-> tasks[t]]
  /\ \A d \in S!Documents : GoodRow(d, rows[d]) /\ Good(d, documents[d])
  /\ \A t \in Tasks : GoodTask(tasks[t])
  /\ pc \in S!Documents \cup {"down", "up"}
  /\ key \in SealKeys \cup {NoKey}
  /\ overlapped \in SUBSET S!Documents
  /\ edited \in S!Documents

\* Saves run only while the process is up.
SavesWhenUp == pc # "up" => \A t \in Tasks : tasks[t] = S!Idle

Loaded(d) == pc = "up" \/ (pc = "backup" /\ d = "notify")
Of(t, d) == tasks[t] # S!Idle /\ tasks[t].of = d

\* What a document resolves to under key k.
OpensWith(k, sealed) == sealed # S!None /\ sealed.cipher \in {NoKey, k}

ResolvedWith(k, c, field) ==
  CASE field = S!Absent -> S!NotConfigured
    [] OpensWith(k, field.secret) ->
         [secret |-> field.secret.value, detail |-> field.detail]
    [] OTHER -> IF c \in Open THEN [secret |-> "none", detail |-> field.detail]
                              ELSE S!NotConfigured

ResolveWith(k, document) ==
  [plain  |-> document.plain,
   fields |-> [c \in DOMAIN document.fields |-> ResolvedWith(k, c, document.fields[c])]]

InLine(d) ==
  /\ configs[d] = ResolveWith(key, documents[d])
  /\ documents[d] = IF S!IsStored(rows[d]) THEN rows[d].document ELSE S!Empty(d)

\* Every secret that input keeps is the one that current had.
KeptFrom(d, input, document, current) ==
  \A c \in S!ChannelsOf(d) :
    /\ input.fields[c].secret = S!Kept
    /\ c # Destination \/ input.fields[c].detail # S!NoDetail
    => document.fields[c].secret = current.fields[c].secret

\* What a save that runs alone has brought about when it stands at each await.
InStep(d) ==
  /\ \A t, u \in Tasks : Of(t, d) /\ Of(u, d) => t = u
  /\ (\A t \in Tasks : Of(t, d) => tasks[t].at = "write") => InLine(d)
  /\ \A t \in Tasks : Of(t, d) /\ tasks[t].at \in {"assign", "resolve"} =>
       rows[d] = S!Stored(tasks[t].document)
  /\ \A t \in Tasks : Of(t, d) /\ tasks[t].at = "resolve" =>
       documents[d] = tasks[t].document
  /\ \A t \in Tasks : Of(t, d) /\ tasks[t].at = "write" =>
       KeptFrom(d, tasks[t].input, tasks[t].document, documents[d])

AllInStep == \A d \in S!Documents \ overlapped : Loaded(d) => InStep(d)

SettingsInv == Shape /\ SavesWhenUp /\ AllInStep

-----------------------------------------------------------------------------
(* S!Documents.                                                              *)

LEMMA IdleIsNoSave ==
  ASSUME NEW d, NEW input, NEW document, NEW at \in {"write", "assign", "resolve"}
  PROVE  /\ S!Saving(d, input, document, at) # S!Idle
         /\ S!Saving(d, input, document, at).at = at
         /\ S!Saving(d, input, document, at).of = d
         /\ S!Saving(d, input, document, at).document = document
  BY DEF S!Saving, S!Idle

LEMMA RowsDiffer ==
  /\ ~S!IsStored(S!Missing) /\ ~S!IsStored(S!Unreadable) /\ S!Missing # S!Unreadable
  /\ \A document : /\ S!IsStored(S!Stored(document)) /\ S!Stored(document).document = document
                   /\ S!Stored(document) # S!Missing /\ S!Stored(document) # S!Unreadable
                   /\ S!Stored(document).row = "stored"
  BY DEF S!IsStored, S!Missing, S!Unreadable, S!Stored

\* The parts of a document.
LEMMA Parts ==
  ASSUME NEW plain, NEW fields
  PROVE  S!Document(plain, fields).plain = plain /\ S!Document(plain, fields).fields = fields
  BY DEF S!Document

LEMMA SealedIsClearOnlyWithoutKey ==
  ASSUME NEW k \in SealKeys \cup {NoKey}, NEW s \in Secrets \cup {EnvSecret}
  PROVE  /\ S!Sealed(k, s) \in S!SealedValues /\ S!Sealed(k, s) # S!None
         /\ S!Sealed(k, s).cipher = k /\ S!Sealed(k, s).value = s
<1>1. S!Sealed(k, s) \in S!SealedValues /\ S!Sealed(k, s).cipher = k /\ S!Sealed(k, s).value = s
  BY DEF S!Sealed, S!SealedValues
<1>2. DOMAIN S!Sealed(k, s) = {"cipher", "value"} /\ DOMAIN S!None = {"cipher"}
  BY DEF S!Sealed, S!None
<1> QED BY <1>1, <1>2

LEMMA ResolvesWithItsKey == \A document : S!Resolve(document) = ResolveWith(key, document)
  BY DEF S!Resolve, ResolveWith, S!Resolved, ResolvedWith, S!Opens, OpensWith

\* The empty document, which stands for one that cannot be read.
LEMMA EmptyIsGood == ASSUME S!SettingsAssumption, NEW d \in S!Documents PROVE Good(d, S!Empty(d))
<1> DEFINE fields == [c \in S!ChannelsOf(d) |-> S!Absent]
<1>1. S!Empty(d).plain = DefaultPlain /\ S!Empty(d).fields = fields
  BY Parts DEF S!Empty
<1>2. S!Absent \in S!Fields /\ S!Absent.secret = S!None
  BY DEF S!Absent, S!Fields
<1>3. S!IsDocument(d, S!Empty(d))
  BY <1>1, <1>2 DEF S!IsDocument, S!SettingsAssumption, S!WellFormed
<1>4. S!InTheClear(S!Empty(d)) = {}
  BY <1>1, <1>2 DEF S!InTheClear
<1> QED BY <1>3, <1>4 DEF Good, ClearSeed

\* What the environment seeds.
LEMMA EnvironmentIsGood ==
  ASSUME S!SettingsAssumption, key \in SealKeys \cup {NoKey}, NEW d \in S!Documents,
         NEW plain \in Plains, NEW given \in SUBSET S!ChannelsOf(d)
  PROVE  Good(d, S!Environment(d, plain, given))
<1> DEFINE document == S!Environment(d, plain, given)
           field(c) == [secret |-> S!Carried(EnvSecret),
                        detail |-> IF c \in Bare THEN S!NoDetail
                                                 ELSE CHOOSE x \in Details : TRUE]
<1>1. /\ document.plain = plain
      /\ DOMAIN document.fields = S!ChannelsOf(d)
      /\ \A c \in S!ChannelsOf(d) :
           document.fields[c] = IF c \notin given THEN S!Absent ELSE field(c)
  <2> DEFINE fields == [c \in S!ChannelsOf(d) |-> IF c \notin given THEN S!Absent ELSE field(c)]
  <2>1. document = S!Document(plain, fields)
    BY DEF S!Environment
  <2>2. document.plain = plain /\ document.fields = fields
    BY <2>1, Parts
  <2> HIDE DEF document
  <2> QED BY <2>2
<1>2. S!Absent \in S!Fields /\ S!Absent.secret = S!None
  BY DEF S!Absent, S!Fields
<1>3. \A c : /\ field(c) \in S!Fields /\ field(c).secret = S!Sealed(key, EnvSecret)
             /\ field(c).secret # S!None
             /\ c \notin Bare => field(c).detail # S!NoDetail
  <2>1. (CHOOSE x \in Details : TRUE) \in Details
    BY DEF S!SettingsAssumption
  <2>2. /\ S!Sealed(key, EnvSecret) \in S!SealedValues /\ S!Sealed(key, EnvSecret) # S!None
    BY SealedIsClearOnlyWithoutKey
  <2> QED BY <2>1, <2>2 DEF S!Fields, S!Carried, S!SettingsAssumption
<1>4. \A c : S!WellFormed(c, field(c)) /\ S!WellFormed(c, S!Absent)
  BY <1>3 DEF S!WellFormed
<1> HIDE DEF document, field
<1>5. S!IsDocument(d, document)
  BY <1>1, <1>2, <1>3, <1>4 DEF S!IsDocument
<1>6. S!Sealed(key, EnvSecret).value = EnvSecret
  BY SealedIsClearOnlyWithoutKey
<1>7. ClearSeed(document)
  BY <1>1, <1>2, <1>3, <1>6 DEF ClearSeed, S!InTheClear
<1> QED BY <1>5, <1>7 DEF Good, document

\* What a save makes of the document it was read from: a new secret is sealed.
LEMMA MergeIsGood ==
  ASSUME key \in SealKeys \cup {NoKey}, NEW d \in S!Documents, NEW input \in S!Inputs(d),
         NEW document, Good(d, document), S!Acceptable(input, document)
  PROVE  Good(d, S!Merge(input, document))
<1> DEFINE merged == S!Merge(input, document)
           new(c) == S!Candidate(c, input.fields[c], document.fields[c])
           secret(c) == S!Merged(input.fields[c].secret, document.fields[c].secret)
<1>1. /\ DOMAIN document.fields = S!ChannelsOf(d)
      /\ \A c \in S!ChannelsOf(d) : /\ document.fields[c].secret \in S!SealedValues \cup {S!None}
  BY DEF Good, S!IsDocument, S!Fields
<1>2. /\ input.plain \in Plains
      /\ \A c \in S!ChannelsOf(d) : /\ input.fields[c].secret \in {S!Kept, S!Cleared} \cup Secrets
                                  /\ input.fields[c].detail \in {S!NoDetail} \cup Details
  BY DEF S!Inputs
<1>3. /\ merged.plain = input.plain
      /\ DOMAIN merged.fields = S!ChannelsOf(d)
      /\ \A c \in S!ChannelsOf(d) : merged.fields[c] = new(c)
  BY <1>1, Parts DEF S!Merge
<1>4. ASSUME NEW c \in S!ChannelsOf(d)
      PROVE  /\ secret(c) \in S!SealedValues \cup {S!None}
             /\ secret(c) # S!None /\ secret(c).cipher = NoKey => secret(c).value = EnvSecret
  <2>1. CASE input.fields[c].secret = S!Kept
    <3>1. secret(c) = document.fields[c].secret
      BY <2>1 DEF S!Merged, S!Kept, S!Cleared
    <3>2. c \in DOMAIN document.fields
      BY <1>1
    <3> HIDE DEF secret
    <3> QED BY <3>1, <3>2, <1>1 DEF Good, ClearSeed, S!InTheClear
  <2>2. CASE input.fields[c].secret = S!Cleared
    BY <2>2 DEF S!Merged, S!Kept, S!Cleared
  <2>3. CASE input.fields[c].secret \notin {S!Kept, S!Cleared}
    <3>1. input.fields[c].secret \in Secrets /\ key # NoKey
      BY <1>1, <1>2, <2>3 DEF S!Acceptable, S!Refused, S!CanSeal
    <3>2. secret(c) = S!Sealed(key, input.fields[c].secret)
      BY <2>3 DEF S!Merged
    <3> QED BY <3>1, <3>2, SealedIsClearOnlyWithoutKey
  <2> QED BY <2>1, <2>2, <2>3
<1>5. ASSUME NEW c \in S!ChannelsOf(d)
      PROVE  \/ new(c) = S!Absent
             \/ new(c) = [secret |-> secret(c), detail |-> input.fields[c].detail]
  BY DEF S!Candidate
<1>6. S!Absent \in S!Fields /\ S!Absent.secret = S!None
  BY DEF S!Absent, S!Fields
<1>7. \A c \in S!ChannelsOf(d) : S!WellFormed(c, new(c))
  BY <1>1 DEF S!Acceptable
<1> HIDE DEF merged, new, secret
<1>8. \A c \in S!ChannelsOf(d) : new(c) \in S!Fields
  BY <1>2, <1>4, <1>5, <1>6 DEF S!Fields
<1>9. S!IsDocument(d, merged)
  BY <1>2, <1>3, <1>7, <1>8 DEF S!IsDocument
<1>10. ClearSeed(merged)
  <2> SUFFICES ASSUME NEW c \in S!ChannelsOf(d), new(c).secret # S!None,
                      new(c).secret.cipher = NoKey
               PROVE  new(c).secret.value = EnvSecret
    BY <1>3 DEF ClearSeed, S!InTheClear
  <2>1. new(c).secret = secret(c)
    BY <1>5, <1>6
  <2> QED BY <1>4, <2>1
<1> QED BY <1>9, <1>10 DEF Good, merged

-----------------------------------------------------------------------------
(* The steps.                                                              *)

LEMMA SettingsStart == ASSUME S!SettingsAssumption, S!Init PROVE SettingsInv
<1> USE DEF S!Init
<1>1. \A d \in S!Documents : Good(d, S!Empty(d))
  BY EmptyIsGood
<1>2. Shape
  BY <1>1 DEF Shape, GoodRow, GoodTask
<1>3. SavesWhenUp
  BY DEF SavesWhenUp
<1>4. AllInStep
  BY DEF AllInStep, Loaded
<1> QED BY <1>2, <1>3, <1>4 DEF SettingsInv

LEMMA SettingsStutter == ASSUME SettingsInv, UNCHANGED S!vars PROVE SettingsInv'
<1> USE DEF S!vars
<1>1. Shape' /\ SavesWhenUp'
  BY DEF SettingsInv, Shape, SavesWhenUp
<1>2. \A d : (Loaded(d)' <=> Loaded(d)) /\ (InLine(d)' <=> InLine(d))
  BY DEF Loaded, InLine
<1>3. \A t, d : Of(t, d)' <=> Of(t, d)
  BY DEF Of
<1>4. \A d : InStep(d) => InStep(d)'
  BY <1>2, <1>3 DEF InStep, KeptFrom
<1> QED BY <1>1, <1>2, <1>4 DEF SettingsInv, AllInStep

\* A save in flight: what it is, and its place in the invariant.
LEMMA Task ==
  ASSUME SettingsInv, NEW t \in Tasks, tasks[t] # S!Idle
  PROVE  /\ tasks[t].of \in S!Documents
         /\ tasks[t].at \in {"write", "assign", "resolve"}
         /\ Good(tasks[t].of, tasks[t].document)
         /\ tasks[t] = S!Saving(tasks[t].of, tasks[t].input, tasks[t].document, tasks[t].at)
         /\ pc = "up"
<1>1. PICK d \in S!Documents, at \in {"write", "assign", "resolve"} : \E input, document :
        Good(d, document) /\ tasks[t] = S!Saving(d, input, document, at)
  BY DEF SettingsInv, Shape, GoodTask
<1>2. PICK input, document : Good(d, document) /\ tasks[t] = S!Saving(d, input, document, at)
  BY <1>1
<1>3. /\ tasks[t].of = d /\ tasks[t].at = at /\ tasks[t].document = document
      /\ tasks[t].input = input
  BY <1>2 DEF S!Saving
<1>4. pc = "up"
  BY DEF SettingsInv, SavesWhenUp
<1> QED BY <1>2, <1>3, <1>4

\* A save of a document begins.
LEMMA Puts ==
  ASSUME SettingsInv, NEW t \in Tasks, NEW d \in S!Documents, NEW input \in S!Inputs(d),
         S!Put(t, d, input)
  PROVE  SettingsInv'
<1> DEFINE document == S!Merge(input, documents[d])
           task == S!Saving(d, input, document, "write")
<1>1. Good(d, document)
  BY MergeIsGood DEF SettingsInv, Shape, S!Put
<1>2. /\ tasks' = [tasks EXCEPT ![t] = task] /\ tasks[t] = S!Idle /\ pc = "up"
      /\ overlapped' = IF S!Busy(t, d) THEN overlapped \cup {d} ELSE overlapped
      /\ UNCHANGED <<rows, documents, configs, pc, key, edited>>
  BY DEF S!Put
<1>3. task # S!Idle /\ task.of = d /\ task.at = "write" /\ GoodTask(task)
  BY <1>1, IdleIsNoSave DEF GoodTask
<1>0. KeptFrom(d, task.input, task.document, documents[d])
  <2>1. task.input = input /\ task.document = document
    BY DEF S!Saving
  <2>2. Good(d, documents[d])
    BY DEF SettingsInv, Shape
  <2>3. \A c \in S!ChannelsOf(d) :
          document.fields[c] = S!Candidate(c, input.fields[c], documents[d].fields[c])
    BY <2>2, Parts DEF S!Merge, Good, S!IsDocument
  <2> HIDE DEF document, task
  <2>4. ASSUME NEW c \in S!ChannelsOf(d), input.fields[c].secret = S!Kept,
               c # Destination \/ input.fields[c].detail # S!NoDetail
        PROVE  document.fields[c].secret = documents[d].fields[c].secret
    <3>1. document.fields[c] =
            [secret |-> S!Merged(input.fields[c].secret, documents[d].fields[c].secret),
             detail |-> input.fields[c].detail]
      BY <2>3, <2>4 DEF S!Candidate
    <3>2. S!Merged(input.fields[c].secret, documents[d].fields[c].secret)
            = documents[d].fields[c].secret
      BY <2>4 DEF S!Merged, S!Kept, S!Cleared
    <3> QED BY <3>1, <3>2
  <2> QED BY <2>1, <2>4 DEF KeptFrom
<1> HIDE DEF document, task
<1>4. tasks'[t] = task /\ \A u \in Tasks \ {t} : tasks'[u] = tasks[u]
  BY <1>2 DEF SettingsInv, Shape
<1>5. Shape'
  BY <1>2, <1>3, <1>4 DEF SettingsInv, Shape
<1>6. SavesWhenUp'
  BY <1>2 DEF SavesWhenUp
<1>7. ASSUME NEW e \in S!Documents, e \notin overlapped' PROVE InStep(e)'
  <2>1. InStep(e)
    BY <1>2, <1>7 DEF SettingsInv, AllInStep, Loaded
  <2>2. Of(t, e)' <=> e = d
    BY <1>3, <1>4 DEF Of
  <2>3. \A u \in Tasks \ {t} : Of(u, e)' <=> Of(u, e)
    BY <1>4 DEF Of
  <2>4. e = d => \A u \in Tasks \ {t} : ~Of(u, e)
    BY <1>2, <1>7 DEF S!Busy, Of
  <2>5. ~Of(t, e)
    BY <1>2 DEF Of
  <2>6. InLine(e)' <=> InLine(e)
    BY <1>2 DEF InLine
  <2>7. \A u \in Tasks : Of(u, e)' /\ tasks'[u].at # "write" =>
                           Of(u, e) /\ tasks'[u] = tasks[u]
    BY <1>3, <1>4, <2>2, <2>3
  <2>8. (\A u \in Tasks : Of(u, e)' => tasks'[u].at = "write") =>
          \A u \in Tasks : Of(u, e) => tasks[u].at = "write"
    BY <1>4, <2>3, <2>5
  <2>9. ASSUME NEW u \in Tasks, Of(u, e)', tasks'[u].at = "write"
        PROVE  KeptFrom(e, tasks'[u].input, tasks'[u].document, documents'[e])
    <3>1. CASE u = t
      BY <1>0, <1>2, <1>4, <2>2, <2>9, <3>1
    <3>2. CASE u # t
      <4>1. tasks'[u] = tasks[u] /\ Of(u, e) /\ documents'[e] = documents[e]
        BY <1>2, <1>4, <2>3, <2>9, <3>2
      <4> QED BY <4>1, <2>1, <2>9 DEF InStep
    <3> QED BY <3>1, <3>2
  <2>10. \A u \in Tasks : Of(u, e)' /\ tasks'[u].at = "write" =>
           KeptFrom(e, tasks[u].input, tasks[u].document, documents[e])'
    BY <2>9 DEF KeptFrom
  <2> QED BY <1>2, <2>1, <2>2, <2>3, <2>4, <2>6, <2>7, <2>8, <2>10 DEF InStep, KeptFrom
<1> QED BY <1>5, <1>6, <1>7 DEF SettingsInv, AllInStep

\* A save goes on to its next await, or ends; the document it is about is one of
\* the two, and the other stays as it is.
LEMMA Proceeds ==
  ASSUME SettingsInv, NEW t \in Tasks, tasks[t] # S!Idle, NEW d \in S!Documents, tasks[t].of = d,
         NEW next, GoodTask(next),
         next = S!Idle \/ (next.of = d /\ next.document = tasks[t].document),
         tasks' = [tasks EXCEPT ![t] = next],
         UNCHANGED <<pc, key, overlapped, edited>>,
         rows' = [e \in S!Documents |-> rows'[e]],
         documents' = [e \in S!Documents |-> documents'[e]],
         configs' = [e \in S!Documents |-> configs'[e]],
         \A e \in S!Documents \ {d} :
           rows'[e] = rows[e] /\ documents'[e] = documents[e] /\ configs'[e] = configs[e],
         GoodRow(d, rows'[d]), Good(d, documents'[d]),
         d \notin overlapped =>
           /\ next = S!Idle => InLine(d)'
           /\ next # S!Idle /\ next.at \in {"assign", "resolve"} =>
                rows'[d] = S!Stored(next.document)
           /\ next # S!Idle /\ next.at = "resolve" => documents'[d] = next.document
           /\ next # S!Idle => next.at # "write"
  PROVE  SettingsInv'
<1>1. tasks'[t] = next /\ \A u \in Tasks \ {t} : tasks'[u] = tasks[u]
  BY DEF SettingsInv, Shape
<1>2. pc = "up"
  BY Task
<1>3. Shape'
  BY <1>1, <1>2 DEF SettingsInv, Shape
<1>4. SavesWhenUp'
  BY <1>2 DEF SavesWhenUp
<1>5. ASSUME NEW e \in S!Documents, e \notin overlapped PROVE InStep(e)'
  <2>1. InStep(e)
    BY <1>2, <1>5 DEF SettingsInv, AllInStep, Loaded
  <2>2. \A u \in Tasks \ {t} : Of(u, e)' <=> Of(u, e)
    BY <1>1 DEF Of
  <2>3. CASE e # d
    <3>1. ~Of(t, e) /\ ~Of(t, e)'
      BY <2>3, <1>1 DEF Of
    <3>2. InLine(e)' <=> InLine(e)
      BY <2>3 DEF InLine
    <3>3. \A u \in Tasks : (Of(u, e)' <=> Of(u, e)) /\ (Of(u, e) => tasks'[u] = tasks[u])
      BY <1>1, <2>2, <3>1
    <3> QED BY <2>1, <2>3, <3>2, <3>3 DEF InStep, KeptFrom
  <2>4. CASE e = d
    <3>1. Of(t, e) /\ \A u \in Tasks \ {t} : ~Of(u, e)
      BY <2>1, <2>4 DEF InStep, Of
    <3>2. \A u \in Tasks \ {t} : ~Of(u, e)'
      BY <2>2, <3>1
    <3>3. Of(t, e)' <=> next # S!Idle
      BY <1>1, <2>4 DEF Of
    <3>4. CASE next = S!Idle
      <4>1. \A u \in Tasks : ~Of(u, e)'
        BY <3>2, <3>3, <3>4
      <4>2. InLine(e)'
        BY <1>5, <2>4, <3>4
      <4> QED BY <4>1, <4>2 DEF InStep
    <3>5. CASE next # S!Idle
      <4>1. \A u \in Tasks : Of(u, e)' <=> u = t
        BY <3>2, <3>3, <3>5
      <4>2. /\ next.at \in {"assign", "resolve"} => rows'[e] = S!Stored(next.document)
            /\ next.at = "resolve" => documents'[e] = next.document
            /\ next.at # "write"
        BY <1>5, <2>4, <3>5
      <4> QED BY <1>1, <4>1, <4>2 DEF InStep
    <3> QED BY <3>4, <3>5
  <2> QED BY <2>3, <2>4
<1> QED BY <1>3, <1>4, <1>5 DEF SettingsInv, AllInStep

\* A save moved to another await is as good as it was.
LEMMA Moved ==
  ASSUME SettingsInv, NEW t \in Tasks, tasks[t] # S!Idle, NEW at \in {"assign", "resolve"}
  PROVE  LET next == [tasks[t] EXCEPT !.at = at] IN
         /\ GoodTask(next) /\ next # S!Idle
         /\ next.of = tasks[t].of /\ next.document = tasks[t].document /\ next.at = at
<1> DEFINE task == tasks[t]
           next == [task EXCEPT !.at = at]
<1>1. /\ task.of \in S!Documents /\ Good(task.of, task.document)
      /\ task = S!Saving(task.of, task.input, task.document, task.at)
  BY Task
<1>2. next = S!Saving(task.of, task.input, task.document, at)
  BY <1>1 DEF S!Saving
<1> QED BY <1>1, <1>2, IdleIsNoSave DEF GoodTask

LEMMA Saves ==
  ASSUME SettingsInv, NEW t \in Tasks,
         S!Write(t) \/ S!WriteFails(t) \/ S!Assign(t) \/ S!Reconfigure(t)
  PROVE  SettingsInv'
<1> DEFINE task == tasks[t]
<1>1. task # S!Idle /\ S!Idle.at = "none"
  BY DEF S!Write, S!WriteFails, S!Assign, S!Reconfigure, S!At, S!Idle
<1>0. PICK d \in S!Documents : task.of = d
  BY <1>1, Task
<1>2. /\ task.at \in {"write", "assign", "resolve"}
      /\ Good(d, task.document) /\ pc = "up"
  BY <1>0, <1>1, Task
<1>3. /\ rows = [e \in S!Documents |-> rows[e]] /\ documents = [e \in S!Documents |-> documents[e]]
      /\ configs = [e \in S!Documents |-> configs[e]]
      /\ GoodRow(d, rows[d]) /\ Good(d, documents[d])
  BY <1>2 DEF SettingsInv, Shape
<1>4. d \notin overlapped =>
        /\ \A u \in Tasks : Of(u, d) => u = t
        /\ task.at = "write" => InLine(d)
        /\ task.at \in {"assign", "resolve"} => rows[d] = S!Stored(task.document)
        /\ task.at = "resolve" => documents[d] = task.document
  <2> SUFFICES ASSUME d \notin overlapped
               PROVE  /\ \A u \in Tasks : Of(u, d) => u = t
                      /\ task.at = "write" => InLine(d)
                      /\ task.at \in {"assign", "resolve"} => rows[d] = S!Stored(task.document)
                      /\ task.at = "resolve" => documents[d] = task.document
    OBVIOUS
  <2>1. InStep(d) /\ Of(t, d)
    BY <1>0, <1>1, <1>2 DEF SettingsInv, AllInStep, Loaded, Of
  <2> QED BY <2>1 DEF InStep
<1>5. CASE S!Write(t)
  <2> DEFINE next == [task EXCEPT !.at = "assign"]
  <2>1. /\ tasks' = [tasks EXCEPT ![t] = next]
        /\ rows' = [rows EXCEPT ![d] = S!Stored(task.document)]
        /\ UNCHANGED <<documents, configs, pc, key, overlapped, edited>>
    BY <1>0, <1>5 DEF S!Write
  <2>2. /\ GoodTask(next) /\ next # S!Idle
        /\ next.of = d /\ next.document = task.document /\ next.at = "assign"
    BY <1>0, <1>1, Moved
  <2>3. GoodRow(d, S!Stored(task.document))
    BY <1>2 DEF GoodRow
  <2>4. rows'[d] = S!Stored(task.document) /\ \A e \in S!Documents \ {d} : rows'[e] = rows[e]
    BY <1>2, <1>3, <2>1
  <2>5. rows' = [e \in S!Documents |-> rows'[e]]
    BY <1>3, <2>1
  <2> HIDE DEF next
  <2> QED BY <1>0, <1>1, <1>3, <2>1, <2>2, <2>3, <2>4, <2>5, Proceeds
<1>6. CASE S!WriteFails(t)
  <2>1. tasks' = [tasks EXCEPT ![t] = S!Idle] /\ task.at = "write"
        /\ UNCHANGED <<rows, documents, configs, pc, key, overlapped, edited>>
    BY <1>0, <1>6 DEF S!WriteFails, S!At
  <2>2. GoodTask(S!Idle)
    BY DEF GoodTask
  <2>3. d \notin overlapped => InLine(d)'
    BY <1>4, <2>1 DEF InLine
  <2> QED BY <1>0, <1>1, <1>3, <2>1, <2>2, <2>3, Proceeds
<1>7. CASE S!Assign(t)
  <2> DEFINE next == [task EXCEPT !.at = "resolve"]
  <2>1. /\ tasks' = [tasks EXCEPT ![t] = next] /\ task.at = "assign"
        /\ documents' = [documents EXCEPT ![d] = task.document]
        /\ UNCHANGED <<rows, configs, pc, key, overlapped, edited>>
    BY <1>0, <1>7 DEF S!Assign, S!At, S!Held
  <2>2. /\ GoodTask(next) /\ next # S!Idle
        /\ next.of = d /\ next.document = task.document /\ next.at = "resolve"
    BY <1>0, <1>1, Moved
  <2>3. documents'[d] = task.document /\ \A e \in S!Documents \ {d} : documents'[e] = documents[e]
    BY <1>2, <1>3, <2>1
  <2>4. documents' = [e \in S!Documents |-> documents'[e]]
    BY <1>3, <2>1
  <2> HIDE DEF next
  <2> QED BY <1>0, <1>1, <1>2, <1>3, <1>4, <2>1, <2>2, <2>3, <2>4, Proceeds
<1>8. CASE S!Reconfigure(t)
  <2>1. /\ tasks' = [tasks EXCEPT ![t] = S!Idle] /\ task.at = "resolve"
        /\ configs' = [configs EXCEPT ![d] = S!Resolve(task.document)]
        /\ UNCHANGED <<rows, documents, pc, key, overlapped, edited>>
    BY <1>0, <1>8 DEF S!Reconfigure, S!At
  <2>2. GoodTask(S!Idle)
    BY DEF GoodTask
  <2>3. /\ configs'[d] = S!Resolve(task.document)
        /\ \A e \in S!Documents \ {d} : configs'[e] = configs[e]
    BY <1>2, <1>3, <2>1
  <2>4. configs' = [e \in S!Documents |-> configs'[e]]
    BY <1>3, <2>1
  <2>5. d \notin overlapped => InLine(d)'
    <3> SUFFICES ASSUME d \notin overlapped PROVE InLine(d)'
      OBVIOUS
    <3>1. rows[d] = S!Stored(task.document) /\ documents[d] = task.document
      BY <1>4, <2>1
    <3>2. S!IsStored(rows[d]) /\ rows[d].document = task.document
      BY <3>1, RowsDiffer
    <3>3. configs'[d] = ResolveWith(key, task.document)
      BY <2>3, ResolvesWithItsKey
    <3> QED BY <2>1, <3>1, <3>2, <3>3 DEF InLine
  <2> QED BY <1>0, <1>1, <1>3, <2>1, <2>2, <2>3, <2>4, <2>5, Proceeds
<1> QED BY <1>5, <1>6, <1>7, <1>8

\* A document is loaded while nothing is saved.
LEMMA Loads ==
  ASSUME S!SettingsAssumption, SettingsInv, NEW d \in S!Documents, NEW after,
         (d = "notify" /\ after = "backup") \/ (d = "backup" /\ after = "up"),
         pc' \in S!Documents \cup {"down", "up"}, S!LoadDocument(d, after)
  PROVE  SettingsInv'
<1>1. PICK plain \in Plains, given \in SUBSET S!ChannelsOf(d) :
        LET document == IF S!Seeded(rows[d]) THEN S!Environment(d, plain, given)
                        ELSE IF rows[d] = S!Unreadable THEN S!Empty(d)
                        ELSE rows[d].document IN
        /\ documents' = [documents EXCEPT ![d] = document]
        /\ configs' = [configs EXCEPT ![d] = S!Resolve(document)]
        /\ rows' = IF S!Seeded(rows[d]) THEN [rows EXCEPT ![d] = S!Stored(document)] ELSE rows
  BY DEF S!LoadDocument
<1> DEFINE document == IF S!Seeded(rows[d]) THEN S!Environment(d, plain, given)
                       ELSE IF rows[d] = S!Unreadable THEN S!Empty(d)
                       ELSE rows[d].document
<1>2. /\ documents' = [documents EXCEPT ![d] = document]
      /\ configs' = [configs EXCEPT ![d] = S!Resolve(document)]
      /\ rows' = IF S!Seeded(rows[d]) THEN [rows EXCEPT ![d] = S!Stored(document)] ELSE rows
  BY <1>1
<1>3. /\ pc = d /\ pc' = after
      /\ UNCHANGED <<tasks, key, overlapped, edited>>
  BY DEF S!LoadDocument
<1>4. /\ rows = [e \in S!Documents |-> rows[e]]
      /\ documents = [e \in S!Documents |-> documents[e]]
      /\ configs = [e \in S!Documents |-> configs[e]]
      /\ GoodRow(d, rows[d]) /\ key \in SealKeys \cup {NoKey}
  BY DEF SettingsInv, Shape
<1>5. Good(d, document)
  <2>1. CASE rows[d] = S!Missing
    BY <1>4, <2>1, EnvironmentIsGood DEF S!Seeded
  <2>2. CASE rows[d] = S!Unreadable
    BY <2>2, EmptyIsGood, RowsDiffer DEF S!Seeded
  <2>3. ASSUME NEW x, Good(d, x), rows[d] = S!Stored(x) PROVE Good(d, document)
    BY <2>3, RowsDiffer DEF S!Seeded
  <2> QED BY <1>4, <2>1, <2>2, <2>3 DEF GoodRow
<1>6. GoodRow(d, rows'[d])
  <2>1. CASE S!Seeded(rows[d])
    <3>1. rows'[d] = S!Stored(document)
      BY <1>2, <1>4, <2>1
    <3> QED BY <1>5, <3>1 DEF GoodRow
  <2>2. CASE ~S!Seeded(rows[d])
    BY <1>2, <1>4, <2>2
  <2> QED BY <2>1, <2>2
<1>7. /\ documents'[d] = document /\ configs'[d] = ResolveWith(key, document)
      /\ \A e \in S!Documents \ {d} :
           rows'[e] = rows[e] /\ documents'[e] = documents[e] /\ configs'[e] = configs[e]
      /\ rows' = [e \in S!Documents |-> rows'[e]]
      /\ documents' = [e \in S!Documents |-> documents'[e]]
      /\ configs' = [e \in S!Documents |-> configs'[e]]
  BY <1>2, <1>4, ResolvesWithItsKey
<1>8. document = IF S!IsStored(rows'[d]) THEN rows'[d].document ELSE S!Empty(d)
  <2>1. CASE rows[d] = S!Missing
    <3>1. rows'[d] = S!Stored(document)
      BY <1>2, <1>4, <2>1 DEF S!Seeded
    <3> QED BY <3>1, RowsDiffer
  <2>2. CASE rows[d] = S!Unreadable
    BY <1>2, <2>2, RowsDiffer DEF S!Seeded
  <2>3. ASSUME NEW x, rows[d] = S!Stored(x)
        PROVE  document = IF S!IsStored(rows'[d]) THEN rows'[d].document ELSE S!Empty(d)
    BY <1>2, <2>3, RowsDiffer DEF S!Seeded
  <2> QED BY <1>4, <2>1, <2>2, <2>3 DEF GoodRow
<1> HIDE DEF document
<1>9. Shape'
  BY <1>3, <1>5, <1>6, <1>7 DEF SettingsInv, Shape
<1>10. \A t \in Tasks : tasks[t] = S!Idle /\ tasks'[t] = S!Idle
  BY <1>3 DEF SettingsInv, SavesWhenUp, S!Documents
<1>11. SavesWhenUp'
  BY <1>10 DEF SavesWhenUp
<1>12. InLine(d)'
  BY <1>3, <1>7, <1>8 DEF InLine
<1>13. ASSUME NEW e \in S!Documents, e \notin overlapped, Loaded(e)' PROVE InLine(e)'
  <2>1. CASE e = d
    BY <1>12, <2>1
  <2>2. CASE e # d
    <3>1. e = "notify" /\ d = "backup"
      BY <1>3, <1>13, <2>2 DEF Loaded, S!Documents
    <3>2. InStep(e)
      BY <1>3, <1>13, <3>1 DEF SettingsInv, AllInStep, Loaded
    <3>3. InLine(e)
      BY <1>10, <3>2 DEF InStep, Of
    <3> QED BY <1>3, <1>7, <2>2, <3>3 DEF InLine
  <2> QED BY <2>1, <2>2
<1>14. \A e, t : t \in Tasks => ~Of(t, e)'
  BY <1>10 DEF Of
<1>15. AllInStep'
  BY <1>3, <1>13, <1>14 DEF AllInStep, InStep
<1> QED BY <1>9, <1>11, <1>15 DEF SettingsInv

\* A deployment starts or dies: nothing is loaded and nothing saved.
LEMMA StartsAndDies ==
  ASSUME S!SettingsAssumption, SettingsInv,
         (\E k \in SealKeys \cup {NoKey} : S!Deploy(k)) \/ S!Crash
  PROVE  SettingsInv'
<1>1. CASE \E k \in SealKeys \cup {NoKey} : S!Deploy(k)
  <2>1. /\ pc = "down" /\ pc' = "notify" /\ key' \in SealKeys \cup {NoKey} /\ overlapped' = {}
        /\ UNCHANGED <<rows, documents, configs, tasks, edited>>
    BY <1>1 DEF S!Deploy
  <2>2. Shape'
    BY <2>1 DEF SettingsInv, Shape, S!Documents
  <2>3. SavesWhenUp'
    BY <2>1 DEF SettingsInv, SavesWhenUp
  <2>4. AllInStep'
    BY <2>1 DEF AllInStep, Loaded
  <2> QED BY <2>2, <2>3, <2>4 DEF SettingsInv
<1>2. CASE S!Crash
  <2>1. /\ pc' = "down" /\ tasks' = [t \in Tasks |-> S!Idle]
        /\ documents' = [d \in S!Documents |-> S!Empty(d)]
        /\ configs' = [d \in S!Documents |-> S!Resolve(S!Empty(d))]
        /\ UNCHANGED <<rows, key, overlapped, edited>>
    BY <1>2 DEF S!Crash
  <2>2. \A d \in S!Documents : documents'[d] = S!Empty(d) /\ Good(d, S!Empty(d))
    BY <2>1, EmptyIsGood
  <2>3. \A t \in Tasks : tasks'[t] = S!Idle /\ GoodTask(S!Idle)
    BY <2>1 DEF GoodTask
  <2>4. Shape'
    BY <2>1, <2>2, <2>3 DEF SettingsInv, Shape
  <2>5. SavesWhenUp'
    BY <2>3 DEF SavesWhenUp
  <2>6. AllInStep'
    BY <2>1 DEF AllInStep, Loaded
  <2> QED BY <2>4, <2>5, <2>6 DEF SettingsInv
<1> QED BY <1>1, <1>2

\* Every step of the settings keeps the invariant.
LEMMA SettingsStep == ASSUME S!SettingsAssumption, SettingsInv, S!Next PROVE SettingsInv'
<1>1. ASSUME NEW t \in Tasks, NEW d \in S!Documents, NEW input \in S!Inputs(d), S!Put(t, d, input)
      PROVE  SettingsInv'
  BY <1>1, Puts
<1>2. ASSUME NEW t \in Tasks, S!Write(t) \/ S!WriteFails(t) \/ S!Assign(t) \/ S!Reconfigure(t)
      PROVE  SettingsInv'
  BY <1>2, Saves
<1>3. CASE S!LoadDocument("notify", "backup")
  <2>1. pc' \in S!Documents \cup {"down", "up"} /\ "notify" \in S!Documents
    BY <1>3 DEF S!LoadDocument, S!Documents
  <2> QED BY <1>3, <2>1, Loads
<1>4. CASE S!LoadDocument("backup", "up")
  <2>1. pc' \in S!Documents \cup {"down", "up"} /\ "backup" \in S!Documents
    BY <1>4 DEF S!LoadDocument, S!Documents
  <2> QED BY <1>4, <2>1, Loads
<1>5. CASE (\E k \in SealKeys \cup {NoKey} : S!Deploy(k)) \/ S!Crash
  BY <1>5, StartsAndDies
<1> QED BY <1>1, <1>2, <1>3, <1>4, <1>5 DEF S!Next

-----------------------------------------------------------------------------
(* What the invariant says of the settings.                                *)

LEMMA DocumentsAreWhole == ASSUME SettingsInv PROVE S!TypeOK
<1>1. ASSUME NEW d \in S!Documents
      PROVE  /\ S!IsDocument(d, documents[d])
             /\ S!IsStored(rows[d]) => S!IsDocument(d, rows[d].document)
             /\ rows[d].row \in {"missing", "unreadable", "stored"}
  <2>1. GoodRow(d, rows[d]) /\ Good(d, documents[d])
    BY DEF SettingsInv, Shape
  <2> QED BY <2>1, RowsDiffer DEF GoodRow, Good, S!Missing, S!Unreadable
<1>2. ASSUME NEW t \in Tasks, tasks[t] # S!Idle
      PROVE  /\ tasks[t].at \in {"write", "assign", "resolve"}
             /\ tasks[t].of \in S!Documents
             /\ S!IsDocument(tasks[t].of, tasks[t].document)
  BY <1>2, Task DEF Good
<1> QED BY <1>1, <1>2 DEF S!TypeOK, SettingsInv, Shape

LEMMA OneSetting == ASSUME SettingsInv PROVE S!WrittenThroughUnlessOverlapped
<1> SUFFICES ASSUME NEW d \in S!Documents \ overlapped, pc = "up",
                    \A t \in Tasks : tasks[t] = S!Idle \/ tasks[t].of # d
             PROVE  /\ configs[d] = S!Resolve(documents[d])
                    /\ documents[d] = IF S!IsStored(rows[d]) THEN rows[d].document ELSE S!Empty(d)
  BY DEF S!WrittenThroughUnlessOverlapped
<1>1. InStep(d)
  BY DEF SettingsInv, AllInStep, Loaded
<1>2. InLine(d)
  BY <1>1 DEF InStep, Of
<1> QED BY <1>2, ResolvesWithItsKey DEF InLine

LEMMA SeedAlone == ASSUME SettingsInv PROVE S!ClearOnlyFromSeed
<1> SUFFICES ASSUME NEW d \in S!Documents, S!IsStored(rows[d])
             PROVE  ClearSeed(rows[d].document)
  BY DEF S!ClearOnlyFromSeed, ClearSeed
<1>1. GoodRow(d, rows[d])
  BY DEF SettingsInv, Shape
<1> QED BY <1>1, RowsDiffer DEF GoodRow, Good

\* The document a lone save was read from is the one in the row it replaces.
LEMMA KeepsWhatItRead == ASSUME SettingsInv PROVE S!KeepsTheKept
<1> SUFFICES ASSUME NEW t \in Tasks, NEW d \in S!Documents \ overlapped,
                    NEW c \in S!ChannelsOf(d),
                    S!Write(t), tasks[t].of = d, S!IsStored(rows[d]),
                    tasks[t].input.fields[c].secret = S!Kept,
                    c # Destination \/ tasks[t].input.fields[c].detail # S!NoDetail
             PROVE  rows'[d].document.fields[c].secret = rows[d].document.fields[c].secret
  BY DEF S!KeepsTheKept
<1>1. tasks[t].at = "write" /\ tasks[t] # S!Idle
  BY DEF S!Write, S!At, S!Idle
<1>2. Of(t, d) /\ pc = "up"
  BY <1>1, Task DEF Of
<1>3. InStep(d)
  BY <1>2 DEF SettingsInv, AllInStep, Loaded
<1>4. \A u \in Tasks : Of(u, d) => u = t
  BY <1>2, <1>3 DEF InStep
<1>5. InLine(d) /\ KeptFrom(d, tasks[t].input, tasks[t].document, documents[d])
  BY <1>1, <1>2, <1>3, <1>4 DEF InStep
<1>6. documents[d] = rows[d].document
  BY <1>5 DEF InLine
<1>7. rows' = [rows EXCEPT ![d] = S!Stored(tasks[t].document)]
  BY DEF S!Write
<1>8. rows'[d] = S!Stored(tasks[t].document)
  <2>1. rows = [e \in S!Documents |-> rows[e]]
    BY DEF SettingsInv, Shape
  <2> QED BY <1>7, <2>1
<1> QED BY <1>5, <1>6, <1>8, RowsDiffer DEF KeptFrom

-----------------------------------------------------------------------------
(* The schedule.                                                           *)

\* A time is in the minute it is divided into, and in no other.
LEMMA DivisionIsExact ==
  ASSUME NEW d \in Nat \ {0}, NEW n \in Nat, NEW m \in Int
  PROVE  /\ n \div d \in Nat
         /\ (n \div d) * d <= n
         /\ n < (n \div d) * d + d
         /\ m * d <= n /\ n < m * d + d => m = n \div d
         /\ m * d <= n => m <= n \div d
         /\ m < n \div d => m * d + d <= n
<1> DEFINE q == n \div d
           r == n % d
<1>1. q \in Nat /\ r \in 0 .. d - 1 /\ n = d * q + r
  BY SMT
<1>2. ASSUME m > q
      PROVE  n < m * d
  <2>1. (m - q - 1) * d >= 0
    BY <1>1, <1>2, SMT
  <2> QED
    BY <2>1, <1>1, <1>2, SMT
<1>3. ASSUME m < q
      PROVE  m * d + d <= n
  <2>1. (q - m - 1) * d >= 0
    BY <1>1, <1>3, SMT
  <2> QED
    BY <2>1, <1>1, <1>3, SMT
<1>4. m * d \in Int
  BY SMT
<1> HIDE DEF q
<1>5. /\ m * d <= n /\ n < m * d + d => m = q
      /\ m * d <= n => m <= q
      /\ m < q => m * d + d <= n
  BY <1>1, <1>2, <1>3, <1>4
<1>6. q * d <= n /\ n < q * d + d
  BY <1>1, SMT
<1> QED
  BY <1>1, <1>5, <1>6 DEF q

\* How runs, #lastFiredMinute and the interval go together.  A minute that has run one
\* began before the interval was last armed; while no restart forgot it, the last that
\* fired is the latest; and a named minute whose tick has been, idle since before it, ran.
ScheduleInv ==
  /\ T!TypeOK
  /\ up + offset \in Nat
  /\ due <= up + Minute
  /\ punctual => up <= due
  /\ lastFired # Never => runs[lastFired] > 0
  /\ \A m \in T!Minutes :
       /\ runs[m] > 0 => m * Minute <= due - Minute + 1
       /\ crashes = 0 /\ runs[m] > 0 => lastFired # Never /\ m <= lastFired
       /\ crashes = 0 \/ offset = 1 => runs[m] <= 1
       /\ punctual /\ ~running /\ m \in expression /\ quiet + offset < m * Minute
            /\ m * Minute <= due - Minute + offset => runs[m] > 0

LEMMA ScheduleStarts ==
  T!Init => ScheduleInv
<1> SUFFICES ASSUME T!Init
             PROVE  ScheduleInv
  OBVIOUS
<1> USE SchedulerAssumption DEF T!SchedulerAssumption, T!Init
<1>1. T!Minutes \subseteq Nat
  BY DEF T!Minutes
<1>2. \A m \in T!Minutes : m * Minute \in Int
  BY <1>1, SMT
<1>3. \A m \in T!Minutes : runs[m] = 0
  BY DEF T!NoRuns
<1>4. T!TypeOK
  <2>1. up \in 0 .. MaxUp /\ quiet \in 0 .. MaxUp /\ due \in 0 .. MaxUp + Minute
    OBVIOUS
  <2>2. offset \in 1 - MaxSteps .. 1 /\ edits \in 0 .. MaxEdits /\ crashes \in 0 .. MaxCrashes
    OBVIOUS
  <2>3. runs \in [T!Minutes -> Nat]
    BY DEF T!NoRuns
  <2> QED
    BY <2>1, <2>2, <2>3 DEF T!TypeOK
<1> QED
  BY <1>1, <1>2, <1>3, <1>4 DEF ScheduleInv, T!TypeOK

LEMMA ScheduleStep ==
  ASSUME ScheduleInv, T!Next
  PROVE  ScheduleInv'
<1> USE SchedulerAssumption DEF T!SchedulerAssumption
<1>a. T!Minutes \subseteq Nat
  BY DEF T!Minutes
<1>b. \A m \in T!Minutes : m * Minute \in Int
  BY <1>a, SMT
<1>c. \A n \in Nat : n # Never
  <2>1. \A n \in Nat : n \in Int
    OBVIOUS
  <2> QED
    BY <2>1
<1>1. CASE T!Pass
  <2>1. T!TypeOK'
    BY <1>1 DEF T!Pass, ScheduleInv, T!TypeOK
  <2>2. up' = up + 1 /\ (punctual' => punctual /\ up < due)
    BY <1>1 DEF T!Pass
  <2>3. /\ UNCHANGED <<offset, due, expression, lastFired, running, runs, edits, crashes, quiet>>
    BY <1>1 DEF T!Pass
  <2>4. up \in Int /\ due \in Int /\ offset \in Int
    BY DEF ScheduleInv, T!TypeOK
  <2>5. up' + offset \in Nat /\ due <= up' + Minute /\ (punctual' => up' <= due)
    BY <2>2, <2>4 DEF ScheduleInv
  <2> QED
    BY <2>1, <2>2, <2>3, <2>5, <1>a, <1>b DEF ScheduleInv
<1>2. CASE T!Tick
  <2> DEFINE now == T!Now
  <2>1. /\ up >= due /\ due' = up + Minute
        /\ UNCHANGED <<up, offset, expression, edits, crashes, quiet, punctual>>
    BY <1>2 DEF T!Tick
  <2>2. /\ up \in 0 .. MaxUp /\ due \in Int /\ offset \in 1 - MaxSteps .. 1
        /\ up + offset \in Nat /\ due <= up + Minute /\ (punctual => up = due)
        /\ runs \in [T!Minutes -> Nat] /\ lastFired \in T!Minutes \cup {Never}
    BY <2>1 DEF ScheduleInv, T!TypeOK
  <2>3. now \in T!Minutes
    <3>1. now \in Nat
      BY <2>2, DivisionIsExact DEF T!Now, T!MinuteOf
    <3>2. MaxUp \div Minute \in Nat /\ MaxUp < (MaxUp \div Minute) * Minute + Minute
      BY DivisionIsExact
    <3> DEFINE last == MaxUp \div Minute
    <3>3. last \in Nat /\ MaxUp < last * Minute + Minute
      BY <3>2
    <3>4. SUFFICES ASSUME last + 1 < now
                   PROVE  FALSE
      BY <3>1, <3>3 DEF T!Minutes, T!MinuteOf
    <3>5. (last + 1) * Minute + Minute <= up + offset
      <4>1. last + 1 \in Int
        BY <3>3
      <4> QED
        BY <3>4, <4>1, <2>2, DivisionIsExact DEF T!Now, T!MinuteOf
    <3> HIDE DEF last
    <3>6. (last + 1) * Minute = last * Minute + Minute
      BY <3>3, SMT
    <3> QED
      BY <3>3, <3>5, <3>6, <2>2, SMT
  <2>4. /\ now * Minute <= up + offset
        /\ \A m \in T!Minutes : m * Minute <= up + offset => m <= now
        /\ \A m \in T!Minutes :
             m * Minute <= up + offset /\ up + offset < m * Minute + Minute => m = now
        /\ up + offset < now * Minute + Minute
    <3>1. \A m \in Int :
            /\ m * Minute <= up + offset => m <= now
            /\ m * Minute <= up + offset /\ up + offset < m * Minute + Minute => m = now
      BY <2>2, DivisionIsExact DEF T!Now, T!MinuteOf
    <3>2. now * Minute <= up + offset /\ up + offset < now * Minute + Minute
      BY <2>2, DivisionIsExact DEF T!Now, T!MinuteOf
    <3> HIDE DEF now
    <3> QED
      BY <1>a, <3>1, <3>2
  <2> HIDE DEF now
  <2>5. CASE T!Matches(now) /\ T!NotFiredYet(now) /\ ~running
    <3>1. lastFired' = now /\ running' = TRUE /\ runs' = [runs EXCEPT ![now] = @ + 1]
      BY <1>2, <2>5 DEF T!Tick, T!Mark, now
    <3>2. crashes = 0 \/ offset = 1 => runs[now] = 0
      <4>1. SUFFICES ASSUME crashes = 0 \/ offset = 1, runs[now] > 0
                     PROVE  FALSE
        BY <2>2, <2>3
      <4>2. now * Minute <= due - Minute + 1
        BY <2>3, <4>1 DEF ScheduleInv
      <4>3. CASE offset = 1
        BY <4>2, <4>3, <2>1, <2>2, <2>3, <2>4, <1>b
      <4>4. CASE crashes = 0
        <5>1. lastFired \in T!Minutes /\ now <= lastFired /\ lastFired # now
          BY <4>1, <4>4, <2>2, <2>3, <2>5 DEF ScheduleInv, T!NotFiredYet
        <5>2. runs[lastFired] > 0
          BY <5>1, <1>a, <1>c DEF ScheduleInv
        <5>3. lastFired * Minute <= due - Minute + 1
          BY <5>1, <5>2 DEF ScheduleInv
        <5>4. lastFired * Minute <= up + offset
          BY <5>1, <5>3, <1>b, <2>1, <2>2
        <5>5. lastFired <= now
          BY <5>1, <5>4, <2>4
        <5> QED
          BY <5>1, <5>5, <2>3, <1>a
      <4> QED
        BY <4>1, <4>3, <4>4
    <3>3. crashes = 0 => \A m \in T!Minutes : runs[m] > 0 => m <= now
      <4>1. SUFFICES ASSUME NEW m \in T!Minutes, runs[m] > 0
                     PROVE  m <= now
        OBVIOUS
      <4>2. m * Minute <= due - Minute + 1
        BY <4>1 DEF ScheduleInv
      <4> QED
        BY <4>2, <1>b, <2>1, <2>2, <2>4
    <3>4. T!TypeOK'
      <4>1. runs' \in [T!Minutes -> Nat]
        BY <3>1, <2>2, <2>3
      <4>2. due' \in 0 .. MaxUp + Minute
        BY <2>1, <2>2
      <4> QED
        BY <4>1, <4>2, <3>1, <2>1, <2>3 DEF ScheduleInv, T!TypeOK, T!Minutes, T!MinuteOf
    <3>5. runs'[now] > 0 /\ \A m \in T!Minutes : m # now => runs'[m] = runs[m]
      BY <3>1, <2>2, <2>3
    <3>6. \A m \in T!Minutes :
             /\ runs'[m] > 0 => m * Minute <= due' - Minute + 1
             /\ crashes = 0 /\ runs'[m] > 0 => m <= now
             /\ crashes = 0 \/ offset = 1 => runs'[m] <= 1
      <4>1. SUFFICES ASSUME NEW m \in T!Minutes
                     PROVE  /\ runs'[m] > 0 => m * Minute <= due' - Minute + 1
                            /\ crashes = 0 /\ runs'[m] > 0 => m <= now
                            /\ crashes = 0 \/ offset = 1 => runs'[m] <= 1
        OBVIOUS
      <4>2. CASE m = now
        BY <4>2, <3>1, <3>2, <2>1, <2>2, <2>3, <2>4, <1>b
      <4>3. CASE m # now
        <5>1. runs[m] > 0 => m * Minute <= due - Minute + 1
          BY DEF ScheduleInv
        <5>2. crashes = 0 \/ offset = 1 => runs[m] <= 1
          BY DEF ScheduleInv
        <5> QED
          BY <4>3, <5>1, <5>2, <3>3, <3>5, <2>1, <2>2, <1>b
      <4> QED
        BY <4>2, <4>3
    <3>7. up' + offset' \in Nat /\ due' <= up' + Minute' /\ (punctual' => up' <= due')
      BY <2>1, <2>2
    <3>8. now # Never
      BY <2>3, <1>a, <1>c
    <3> QED
      BY <3>1, <3>4, <3>5, <3>6, <3>7, <3>8, <2>1, <2>3 DEF ScheduleInv, T!Minutes, T!MinuteOf
  <2>6. CASE ~(T!Matches(now) /\ T!NotFiredYet(now) /\ ~running)
    <3>1. UNCHANGED <<lastFired, running, runs>>
      BY <1>2, <2>6 DEF T!Tick, now
    <3>2. T!TypeOK'
      <4>1. due' \in 0 .. MaxUp + Minute
        BY <2>1, <2>2
      <4> QED
        BY <4>1, <3>1, <2>1 DEF ScheduleInv, T!TypeOK, T!Minutes, T!MinuteOf
    <3>3. up' + offset' \in Nat /\ due' <= up' + Minute' /\ (punctual' => up' <= due')
      BY <2>1, <2>2
    <3>4. \A m \in T!Minutes : runs[m] > 0 => m * Minute <= due' - Minute + 1
      <4>1. SUFFICES ASSUME NEW m \in T!Minutes, runs[m] > 0
                     PROVE  m * Minute <= due' - Minute + 1
        OBVIOUS
      <4>2. m * Minute <= due - Minute + 1
        BY <4>1 DEF ScheduleInv
      <4> QED
        BY <4>2, <1>b, <2>1, <2>2
    <3>5. ASSUME NEW m \in T!Minutes, punctual, ~running, m \in expression,
                 quiet + offset < m * Minute, m * Minute <= due' - Minute + offset
          PROVE  runs[m] > 0
      <4>1. CASE m * Minute <= due - Minute + offset
        BY <3>5, <4>1 DEF ScheduleInv
      <4>2. CASE ~(m * Minute <= due - Minute + offset)
        <5>1. m = now
          BY <3>5, <4>2, <2>1, <2>2, <2>4, <1>b
        <5>2. lastFired = now
          BY <5>1, <3>5, <2>6 DEF T!Matches, T!NotFiredYet
        <5> QED
          BY <5>1, <5>2, <2>3, <1>a, <1>c DEF ScheduleInv
      <4> QED
        BY <4>1, <4>2
    <3> QED
      BY <3>1, <3>2, <3>3, <3>4, <3>5, <2>1 DEF ScheduleInv, T!Minutes, T!MinuteOf
  <2> QED
    BY <2>5, <2>6
<1>3. CASE T!RunEnds
  <2>1. T!TypeOK'
    BY <1>3 DEF T!RunEnds, ScheduleInv, T!TypeOK
  <2> QED
    BY <1>3, <1>a, <1>b, <2>1 DEF T!RunEnds, ScheduleInv, T!TypeOK
<1>4. ASSUME NEW e \in Expressions, T!SetSchedule(e)
      PROVE  ScheduleInv'
  <2>1. T!TypeOK'
    BY <1>4 DEF T!SetSchedule, ScheduleInv, T!TypeOK, T!NoRuns
  <2>2. \A m \in T!Minutes : runs'[m] = 0
    BY <1>4 DEF T!SetSchedule, T!NoRuns
  <2> QED
    BY <1>4, <1>a, <1>b, <2>1, <2>2 DEF T!SetSchedule, ScheduleInv, T!TypeOK
<1>5. CASE T!StepBack
  <2>1. T!TypeOK'
    BY <1>5 DEF T!StepBack, ScheduleInv, T!TypeOK
  <2> QED
    BY <1>5, <1>a, <1>b, <2>1 DEF T!StepBack, ScheduleInv, T!TypeOK
<1>6. CASE T!Restart
  <2>1. T!TypeOK'
    <3>1. due' \in 0 .. MaxUp + Minute /\ crashes' \in 0 .. MaxCrashes /\ quiet' \in 0 .. MaxUp
      BY <1>6 DEF T!Restart, ScheduleInv, T!TypeOK
    <3> QED
      BY <1>6, <3>1 DEF T!Restart, ScheduleInv, T!TypeOK
  <2> QED
    BY <1>6, <1>a, <1>b, <1>c, <2>1 DEF T!Restart, ScheduleInv, T!TypeOK
<1>7. CASE T!Over
  BY <1>7 DEF T!Over, T!vars, ScheduleInv, T!TypeOK, T!Minutes, T!MinuteOf
<1> QED
  BY <1>1, <1>2, <1>3, <1>4, <1>5, <1>6, <1>7 DEF T!Next

\* Nothing changes.
LEMMA ScheduleStutter == ASSUME ScheduleInv, UNCHANGED T!vars PROVE ScheduleInv'
  BY DEF T!vars, ScheduleInv, T!TypeOK, T!Minutes, T!MinuteOf

\* What the invariant says of the schedule.
LEMMA ScheduleKept ==
  ASSUME ScheduleInv
  PROVE  T!TypeOK /\ T!OncePerMinute /\ T!EveryNamedMinuteRunsIfPunctual
<1> USE SchedulerAssumption DEF T!SchedulerAssumption
<1>1. T!Minutes \subseteq Nat
  BY DEF T!Minutes
<1>2. ASSUME NEW m \in T!Minutes, punctual, m \in expression, quiet + offset < m * Minute,
             m < T!Now, ~running
      PROVE  runs[m] > 0
  <2>1. /\ up \in Int /\ due \in Int /\ offset \in Int /\ up + offset \in Nat /\ up <= due
        /\ m \in Int /\ m * Minute \in Int
    BY <1>1, <1>2, SMT DEF ScheduleInv, T!TypeOK
  <2>2. m * Minute + Minute <= up + offset
    BY <1>2, <2>1, DivisionIsExact DEF T!Now, T!MinuteOf
  <2>3. m * Minute <= due - Minute + offset
    BY <2>1, <2>2
  <2> QED
    BY <1>2, <2>3 DEF ScheduleInv
<1> QED
  BY <1>2 DEF ScheduleInv, T!OncePerMinute, T!EveryNamedMinuteRunsIfPunctual

-----------------------------------------------------------------------------
(* The backups: where a run can be.                                        *)

Stages == {"idle", "starting", "snapshot", "putting", "verifying", "recording", "failing",
           "done"}

\* The run has a row and has not settled.
HasOpenRow(r) == pc[r] \in {"snapshot", "putting", "verifying", "recording", "failing"}

-----------------------------------------------------------------------------
(* The backups: the inductive invariant.                                   *)

\* A run has a row from its insertion on, open until it settles, and the row has
\* the run's start time.
RowsFollow ==
  \A r \in Runs :
    /\ pc[r] \in {"idle", "starting"} => rows[r] = NoRow
    /\ HasOpenRow(r) => rows[r] # NoRow /\ rows[r].status = "open"
    /\ rows[r] # NoRow => rows[r].at = began[r]

\* An object is under the second its run started in.
KeysAreTrue ==
  \A t \in B!Seconds : bucket[t] # NoObject =>
    bucket[t].by \in B!Known /\ began[bucket[t].by] = t

\* A row still open is of a run in flight, unless something else failed.
OpenIsExplained ==
  \A r \in B!Known : rows[r].status = "open" => B!InFlight(r) \/ faults > 0

\* From its verification on a backup stays in the bucket, if nothing else of its
\* second does.
VerifiedStays ==
  \A r \in B!Known : B!Alone(r) /\ (pc[r] = "recording" \/ rows[r].status = "ok") =>
    bucket[began[r]] = [by |-> r, whole |-> TRUE]

BackupsInv ==
  /\ B!TypeOK
  /\ RowsFollow
  /\ KeysAreTrue
  /\ OpenIsExplained
  /\ VerifiedStays
  /\ B!FlagIsHonest

-----------------------------------------------------------------------------
LEMMA BackupsStart == ASSUME B!BackupsAssumption, B!Init PROVE BackupsInv
<1> USE DEF B!Init
<1>1. B!TypeOK
  <2>1. 0 \in B!Seconds /\ 0 \in 0 .. MaxFaults
    BY DEF B!Seconds, B!BackupsAssumption
  <2>2. byTimer \in [Runs -> BOOLEAN] /\ armed \in BOOLEAN /\ flag \in BOOLEAN
    OBVIOUS
  <2> QED BY <2>1, <2>2 DEF B!TypeOK
<1>2. B!Known = {}
  BY DEF B!Known
<1>3. RowsFollow /\ KeysAreTrue
  BY DEF RowsFollow, HasOpenRow, KeysAreTrue
<1> QED BY <1>1, <1>2, <1>3 DEF BackupsInv, OpenIsExplained, VerifiedStays, B!FlagIsHonest

\* Nothing of what the invariant is about changes.
LEMMA BackupsStutter == ASSUME B!BackupsAssumption, BackupsInv, UNCHANGED B!vars PROVE BackupsInv'
  BY DEF B!vars, BackupsInv, B!TypeOK, RowsFollow, HasOpenRow, KeysAreTrue, OpenIsExplained, VerifiedStays,
     B!FlagIsHonest, B!InFlight, B!Known, B!Alone

\* A run starts: by the timer or by hand.
LEMMA Begins ==
  ASSUME B!BackupsAssumption, BackupsInv, NEW r \in Runs, B!Begin(r),
         armed' \in BOOLEAN, byTimer' \in [Runs -> BOOLEAN]
  PROVE  BackupsInv'
<1>1. B!TypeOK'
  BY DEF BackupsInv, B!TypeOK, B!Begin
<1>2. rows[r] = NoRow /\ r \notin B!Known
  BY DEF BackupsInv, RowsFollow, B!Begin, B!Known
<1>3. \A q \in Runs \ {r} : pc'[q] = pc[q] /\ began'[q] = began[q]
  BY DEF BackupsInv, B!TypeOK, B!Begin
<1>4. pc'[r] = "starting" /\ rows' = rows /\ bucket' = bucket /\ faults' = faults
  BY DEF BackupsInv, B!TypeOK, B!Begin
<1>5. RowsFollow'
  BY <1>2, <1>3, <1>4 DEF BackupsInv, RowsFollow, HasOpenRow
<1>6. B!Known' = B!Known
  BY <1>4 DEF B!Known
<1>7. KeysAreTrue'
  BY <1>2, <1>3, <1>4, <1>6 DEF BackupsInv, KeysAreTrue, B!Known
<1>8. OpenIsExplained'
  BY <1>2, <1>3, <1>4, <1>6 DEF BackupsInv, OpenIsExplained, B!InFlight, B!Known
<1>9. VerifiedStays'
  BY <1>2, <1>3, <1>4, <1>6 DEF BackupsInv, VerifiedStays, B!Alone, B!Known
<1>10. B!FlagIsHonest'
  BY <1>4 DEF B!FlagIsHonest, B!InFlight
<1> QED BY <1>1, <1>5, <1>7, <1>8, <1>9, <1>10 DEF BackupsInv

\* The row of a run is inserted: another backup may lose its second to it.
LEMMA Inserts ==
  ASSUME B!BackupsAssumption, BackupsInv, NEW r \in Runs, B!InsertRow(r)
  PROVE  BackupsInv'
<1> USE DEF B!InsertRow, B!Step
<1>1. rows' = [rows EXCEPT ![r] = B!Inserted(r)] /\ B!Inserted(r) \in B!Rows
  BY DEF BackupsInv, B!TypeOK, B!Inserted, B!Rows, B!Statuses
<1>2. B!TypeOK'
  BY <1>1 DEF BackupsInv, B!TypeOK
<1>3. /\ \A q \in Runs \ {r} : pc'[q] = pc[q] /\ rows'[q] = rows[q]
      /\ pc'[r] = "snapshot" /\ rows'[r] = B!Inserted(r)
      /\ began' = began /\ bucket' = bucket /\ faults' = faults /\ flag' = flag
  BY <1>1 DEF BackupsInv, B!TypeOK
<1>4. /\ B!Inserted(r) # NoRow /\ B!Inserted(r).at = began[r] /\ B!Inserted(r).status = "open"
  BY <1>1 DEF B!Inserted, B!BackupsAssumption
<1>5. RowsFollow'
  BY <1>3, <1>4 DEF BackupsInv, RowsFollow, HasOpenRow
<1>6. B!Known' = B!Known \cup {r}
  BY <1>3, <1>4 DEF B!Known
<1>7. rows[r] = NoRow
  BY DEF BackupsInv, RowsFollow
<1>8. KeysAreTrue'
  BY <1>3, <1>6 DEF BackupsInv, KeysAreTrue
<1>9. OpenIsExplained'
  BY <1>3, <1>6 DEF BackupsInv, OpenIsExplained, B!InFlight
<1>10. \A q \in B!Known : B!Alone(q)' => B!Alone(q)
  BY <1>3, <1>7 DEF B!Alone, B!Known
<1>11. VerifiedStays'
  BY <1>3, <1>4, <1>6, <1>7, <1>10 DEF BackupsInv, VerifiedStays, B!Known
<1>12. B!FlagIsHonest'
  BY <1>3 DEF BackupsInv, B!FlagIsHonest, B!InFlight
<1> QED BY <1>2, <1>5, <1>8, <1>9, <1>11, <1>12 DEF BackupsInv

\* A run with a row goes on in the try, or to the catch: what it puts goes under
\* the second it started in, and only what it has read back is recorded.
LEMMA Works ==
  ASSUME B!BackupsAssumption, BackupsInv, NEW r \in Runs, HasOpenRow(r), NEW to \in Stages,
         B!Step(r, pc[r], to), rows' = rows,
         to \in {"snapshot", "putting", "verifying", "recording", "failing"},
         to = "recording" => B!ReadsBack(r) /\ bucket' = bucket,
         \/ UNCHANGED bucket
         \/ \E whole \in BOOLEAN :
              bucket' = [bucket EXCEPT ![began[r]] = [by |-> r, whole |-> whole]],
         faults' \in 0 .. MaxFaults, faults' >= faults
  PROVE  BackupsInv'
<1> USE DEF B!Step
<1>1. /\ \A q \in Runs \ {r} : pc'[q] = pc[q]
      /\ pc'[r] = to
      /\ began' = began /\ rows' = rows /\ flag' = flag
  BY DEF BackupsInv, B!TypeOK
<1>2. began[r] \in B!Seconds /\ r \in B!Known /\ rows[r].status = "open" /\ rows[r].at = began[r]
  BY DEF BackupsInv, B!TypeOK, RowsFollow, B!Known
<1>3. bucket' \in [B!Seconds -> B!Objects \cup {NoObject}]
  BY <1>2 DEF BackupsInv, B!TypeOK, B!Objects
<1>4. B!TypeOK'
  BY <1>3 DEF BackupsInv, B!TypeOK, Stages
<1>5. B!Known' = B!Known /\ \A q \in Runs : B!Alone(q)' <=> B!Alone(q)
  BY <1>1 DEF B!Known, B!Alone
<1>6. RowsFollow'
  BY <1>1, <1>2 DEF BackupsInv, RowsFollow, HasOpenRow
<1>7. \A t \in B!Seconds :
        \/ bucket'[t] = bucket[t]
        \/ t = began[r] /\ \E whole \in BOOLEAN :
                              bucket'[t] = [by |-> r, whole |-> whole]
  BY <1>2 DEF BackupsInv, B!TypeOK
<1>8. KeysAreTrue'
  <2> SUFFICES ASSUME NEW t \in B!Seconds, bucket'[t] # NoObject
               PROVE  bucket'[t].by \in B!Known /\ began[bucket'[t].by] = t
    BY <1>1, <1>5 DEF KeysAreTrue
  <2>1. CASE bucket'[t] = bucket[t]
    BY <2>1 DEF BackupsInv, KeysAreTrue
  <2>2. CASE bucket'[t] # bucket[t]
    <3>1. PICK whole \in BOOLEAN : bucket'[t] = [by |-> r, whole |-> whole]
      BY <2>2, <1>7
    <3>2. bucket'[t].by = r
      BY <3>1
    <3> QED BY <2>2, <3>2, <1>2, <1>7
  <2> QED BY <2>1, <2>2
<1>9. \A q \in Runs : B!InFlight(q) => B!InFlight(q)'
  BY <1>1 DEF B!InFlight
<1>10. OpenIsExplained'
  <2>1. MaxFaults \in Nat /\ faults \in Nat /\ faults' \in Nat
    BY DEF BackupsInv, B!TypeOK, B!BackupsAssumption
  <2>2. faults > 0 => faults' > 0
    BY <2>1
  <2>3. \A q \in B!Known : rows[q].status = "open" => B!InFlight(q) \/ faults > 0
    BY DEF BackupsInv, OpenIsExplained
  <2>4. \A q \in B!Known : rows[q].status = "open" => B!InFlight(q)' \/ faults' > 0
    BY <1>9, <2>2, <2>3 DEF B!Known
  <2> QED BY <1>1, <1>5, <2>4 DEF OpenIsExplained
<1>11. VerifiedStays'
  <2> SUFFICES ASSUME NEW q \in B!Known, B!Alone(q),
                      pc'[q] = "recording" \/ rows[q].status = "ok"
               PROVE  bucket'[began[q]] = [by |-> q, whole |-> TRUE]
    <3>1. \A q \in B!Known : B!Alone(q)' => B!Alone(q)
      BY <1>5 DEF B!Known
    <3> QED BY <1>1, <1>5, <3>1 DEF VerifiedStays
  <2>1. CASE q = r
    BY <2>1, <1>1, <1>2 DEF B!ReadsBack
  <2>2. CASE q # r
    <3>1. bucket[began[q]] = [by |-> q, whole |-> TRUE]
      BY <2>2, <1>1 DEF BackupsInv, VerifiedStays, B!Known
    <3>2. began[q] # began[r] /\ began[q] \in B!Seconds
      BY <2>2, <1>2 DEF BackupsInv, B!TypeOK, RowsFollow, B!Known, B!Alone
    <3> QED BY <3>1, <3>2, <1>7
  <2> QED BY <2>1, <2>2
<1>12. B!FlagIsHonest'
  BY <1>1, <1>9 DEF BackupsInv, B!FlagIsHonest
<1> QED BY <1>4, <1>6, <1>8, <1>10, <1>11, <1>12 DEF BackupsInv

\* A run settles: with its row finished, or with a failed write and the row as it is.
LEMMA Settles ==
  ASSUME B!BackupsAssumption, BackupsInv, NEW r \in Runs, B!Settle(r),
         \/ /\ HasOpenRow(r) /\ UNCHANGED faults
            /\ \E status \in {"ok", "failed"} :
                 /\ rows' = [rows EXCEPT ![r] = B!Finished(@, status)]
                 /\ status = "ok" => pc[r] = "recording"
         \/ UNCHANGED rows /\ faults' = faults + 1 /\ faults < MaxFaults /\ pc[r] # "idle"
  PROVE  BackupsInv'
<1> USE DEF B!Settle
<1>1. /\ \A q \in Runs \ {r} : pc'[q] = pc[q] /\ rows'[q] = rows[q]
      /\ pc'[r] = "done"
      /\ began' = began /\ bucket' = bucket /\ flag' = FALSE
  BY DEF BackupsInv, B!TypeOK, B!Lowered
<1>2. MaxFaults \in Nat /\ faults \in Nat /\ faults' >= faults /\ faults' \in 0 .. MaxFaults
  BY DEF BackupsInv, B!TypeOK, B!BackupsAssumption
<1>3. \/ /\ rows[r] # NoRow /\ rows'[r] # NoRow /\ rows'[r] \in B!Rows
         /\ rows'[r].at = rows[r].at /\ rows'[r].status \in {"ok", "failed"}
         /\ rows'[r].status = "ok" => pc[r] = "recording"
      \/ rows'[r] = rows[r] /\ faults' > 0
  <2>1. CASE rows' = rows /\ faults' = faults + 1
    BY <2>1, <1>2
  <2>2. ASSUME NEW status \in {"ok", "failed"}, HasOpenRow(r),
               rows' = [rows EXCEPT ![r] = B!Finished(@, status)],
               status = "ok" => pc[r] = "recording"
        PROVE  /\ rows[r] # NoRow /\ rows'[r] # NoRow /\ rows'[r] \in B!Rows
               /\ rows'[r].at = rows[r].at /\ rows'[r].status \in {"ok", "failed"}
               /\ rows'[r].status = "ok" => pc[r] = "recording"
    <3>1. rows[r] # NoRow /\ rows[r] \in B!Rows /\ rows'[r] = B!Finished(rows[r], status)
      BY <2>2 DEF BackupsInv, B!TypeOK, RowsFollow
    <3>2. rows'[r] = [rows[r] EXCEPT !.status = status]
      BY <3>1 DEF B!Finished
    <3>3. rows'[r] \in B!Rows /\ rows'[r].at = rows[r].at /\ rows'[r].status = status
      BY <3>1, <3>2 DEF B!Rows, B!Statuses
    <3> QED BY <2>2, <3>1, <3>3 DEF B!BackupsAssumption
  <2> QED BY <2>1, <2>2
<1>4. /\ B!Known' = B!Known
      /\ \A q \in Runs : rows'[q] # NoRow <=> rows[q] # NoRow
      /\ \A q \in B!Known : rows'[q].at = rows[q].at
  BY <1>1, <1>3 DEF B!Known
<1>5. \A q \in B!Known : B!Alone(q)' <=> B!Alone(q)
  BY <1>4 DEF B!Alone, B!Known
<1>6. B!TypeOK'
  <2>1. rows' \in [Runs -> B!Rows \cup {NoRow}]
    <3>1. \A q \in Runs : rows'[q] \in B!Rows \cup {NoRow}
      BY <1>1, <1>3 DEF BackupsInv, B!TypeOK
    <3>2. rows' = [q \in Runs |-> rows'[q]]
      BY DEF BackupsInv, B!TypeOK
    <3> QED BY <3>1, <3>2
  <2> QED BY <1>2, <2>1 DEF BackupsInv, B!TypeOK, B!Lowered, B!Rearmed
<1>7. RowsFollow'
  BY <1>1, <1>4 DEF BackupsInv, RowsFollow, HasOpenRow, B!Known
<1>8. KeysAreTrue'
  BY <1>1, <1>4 DEF BackupsInv, KeysAreTrue
<1>9. OpenIsExplained'
  BY <1>1, <1>2, <1>3, <1>4 DEF BackupsInv, OpenIsExplained, B!InFlight, B!Known
<1>10. VerifiedStays'
  BY <1>1, <1>3, <1>4, <1>5 DEF BackupsInv, VerifiedStays, B!Known
<1>11. B!FlagIsHonest'
  BY <1>1 DEF B!FlagIsHonest
<1> QED BY <1>6, <1>7, <1>8, <1>9, <1>10, <1>11 DEF BackupsInv

\* The process dies, and with it what is in flight.
LEMMA Dies == ASSUME B!BackupsAssumption, BackupsInv, B!Crash PROVE BackupsInv'
<1> USE DEF B!Crash
<1>1. /\ \A q \in Runs : pc'[q] = IF B!InFlight(q) THEN "done" ELSE pc[q]
      /\ rows' = rows /\ began' = began /\ bucket' = bucket /\ flag' = FALSE
  OBVIOUS
<1>2. faults' \in 0 .. MaxFaults /\ faults' > 0
  BY DEF BackupsInv, B!TypeOK, B!BackupsAssumption
<1>3. B!TypeOK'
  BY <1>2 DEF BackupsInv, B!TypeOK
<1>4. B!Known' = B!Known /\ \A q \in Runs : B!Alone(q)' <=> B!Alone(q)
  BY <1>1 DEF B!Known, B!Alone
<1>5. RowsFollow'
  BY <1>1 DEF BackupsInv, RowsFollow, HasOpenRow, B!InFlight
<1>6. KeysAreTrue' /\ OpenIsExplained' /\ B!FlagIsHonest'
  BY <1>1, <1>2, <1>4 DEF BackupsInv, KeysAreTrue, OpenIsExplained, B!FlagIsHonest
<1>7. VerifiedStays'
  <2>1. \A q \in B!Known : B!Alone(q)' => B!Alone(q)
    BY <1>4 DEF B!Known
  <2>2. \A q \in Runs : pc'[q] = "recording" => pc[q] = "recording"
    BY <1>1
  <2>3. B!Known \subseteq Runs
    BY DEF B!Known
  <2> QED BY <1>1, <1>4, <2>1, <2>2, <2>3 DEF BackupsInv, VerifiedStays
<1> QED BY <1>3, <1>5, <1>6, <1>7 DEF BackupsInv

-----------------------------------------------------------------------------
LEMMA BackupsStep == ASSUME B!BackupsAssumption, BackupsInv, B!Next PROVE BackupsInv'
<1>1. ASSUME NEW r \in Runs, B!BeginByTimer(r) \/ B!BeginByHand(r) PROVE BackupsInv'
  <2>1. B!Begin(r) /\ armed' \in BOOLEAN /\ byTimer' \in [Runs -> BOOLEAN]
    BY <1>1 DEF BackupsInv, B!TypeOK, B!BeginByTimer, B!BeginByHand
  <2> QED BY <2>1, Begins
<1>2. ASSUME NEW r \in Runs, B!RunStep(r) \/ B!RecordOkFails(r) PROVE BackupsInv'
  <2>0. faults \in 0 .. MaxFaults /\ faults >= faults
    BY DEF BackupsInv, B!TypeOK, B!BackupsAssumption
  <2>1. CASE B!InsertRow(r)
    BY <2>1, Inserts
  <2>2. CASE B!Stage(r)
    BY <2>0, <2>2, Works DEF B!Stage, B!Step, HasOpenRow, Stages
  <2>3. ASSUME NEW whole \in BOOLEAN, B!Put(r, whole) PROVE BackupsInv'
    BY <2>0, <2>3, Works DEF B!Put, B!Step, HasOpenRow, Stages
  <2>4. CASE B!Verify(r)
    BY <2>0, <2>4, Works DEF B!Verify, B!Step, HasOpenRow, Stages
  <2>5. CASE B!Throw(r)
    BY <2>0, <2>5, Works DEF B!Throw, B!Step, HasOpenRow, Stages
  <2>6. CASE B!RecordOkFails(r)
    <3>1. faults' \in 0 .. MaxFaults /\ faults' >= faults
      BY <2>6 DEF B!RecordOkFails, BackupsInv, B!TypeOK, B!BackupsAssumption
    <3> QED BY <2>6, <3>1, Works DEF B!RecordOkFails, B!Step, HasOpenRow, Stages
  <2>7. CASE B!RecordOk(r)
    BY <2>7, Settles DEF B!RecordOk, HasOpenRow
  <2>8. CASE B!RecordFailure(r)
    BY <2>8, Settles DEF B!RecordFailure, HasOpenRow
  <2> QED BY <1>2, <2>1, <2>2, <2>3, <2>4, <2>5, <2>6, <2>7, <2>8 DEF B!RunStep
<1>3. ASSUME NEW r \in Runs, B!WriteFails(r) PROVE BackupsInv'
  BY <1>3, Settles DEF B!WriteFails
<1>4. CASE B!Crash
  BY <1>4, Dies
<1>5. CASE B!TimePasses
  <2>1. second' \in B!Seconds
    BY <1>5 DEF B!TimePasses, BackupsInv, B!TypeOK, B!Seconds, B!BackupsAssumption
  <2> QED BY <1>5, <2>1 DEF B!TimePasses, BackupsInv, B!TypeOK, RowsFollow, HasOpenRow, KeysAreTrue,
         OpenIsExplained, VerifiedStays, B!FlagIsHonest, B!InFlight, B!Known, B!Alone
<1>6. CASE B!Over
  BY <1>6, BackupsStutter DEF B!Over
<1> QED BY <1>1, <1>2, <1>3, <1>4, <1>5, <1>6 DEF B!Next

-----------------------------------------------------------------------------
(* What the invariant says of the backups.                                 *)

LEMMA OkMeansThere == ASSUME BackupsInv PROVE B!Consistent /\ B!OkIsInTheBucket /\ B!FlagIsHonest
  BY DEF BackupsInv, RowsFollow, KeysAreTrue, OpenIsExplained, VerifiedStays,
     B!OnRecord, B!Consistent,
     B!OkIsInTheBucket, B!Known

-----------------------------------------------------------------------------
(* All three.                                                              *)

Inv ==
  /\ part = "settings" => SettingsInv
  /\ part = "schedule" => ScheduleInv
  /\ part = "backups" => BackupsInv

LEMMA Inductive == Spec => []Inv
<1>1. Init => Inv
  BY SettingsAssumption, BackupsAssumption, SettingsStart, ScheduleStarts, BackupsStart
     DEF Init, Inv
<1>2. Inv /\ [Next]_vars => Inv'
  <2> SUFFICES ASSUME Inv, [Next]_vars
               PROVE  Inv'
    OBVIOUS
  <2>1. CASE part = "settings" /\ S!Next /\ UNCHANGED <<part, ofSchedule, ofBackups>>
    BY <2>1, SettingsAssumption, SettingsStep DEF Inv
  <2>2. CASE part = "schedule" /\ T!Next /\ UNCHANGED <<part, rows, pc, ofSettings, ofBackups>>
    BY <2>2, ScheduleStep DEF Inv
  <2>3. CASE part = "backups" /\ B!Next /\ UNCHANGED <<part, ofSettings, ofSchedule>>
    BY <2>3, BackupsAssumption, BackupsStep DEF Inv
  <2>4. CASE UNCHANGED vars
    <3>1. UNCHANGED S!vars /\ UNCHANGED T!vars /\ UNCHANGED B!vars /\ part' = part
      BY <2>4 DEF vars, ofSettings, ofSchedule, ofBackups, S!vars, T!vars, B!vars
    <3> QED
      BY <3>1, SettingsStutter, ScheduleStutter, BackupsAssumption, BackupsStutter DEF Inv
  <2> QED
    BY <2>1, <2>2, <2>3, <2>4 DEF Next
<1> QED
  BY <1>1, <1>2, PTL DEF Spec

\* Documents are whole wherever they are kept: in the row, in memory and in a save in
\* flight; and between saves that did not overlap the row, the document and the
\* configuration are one (putNotify, putBackup and load of settings/service.ts).
THEOREM OneSettingAlways == Spec => []WrittenThrough
<1>1. Inv => WrittenThrough
  BY DocumentsAreWhole, OneSetting DEF Inv, WrittenThrough
<1> QED
  BY Inductive, <1>1, PTL

\* Nothing a person saved is ever stored in the clear: without a key a save with a secret
\* is refused (sealField of settings/view.ts), and only the seed of the environment is
\* stored as it is (carry of settings/secrets.ts).
THEOREM SavedIsSealed == Spec => []ClearOnlyFromSeed
<1>1. Inv => ClearOnlyFromSeed
  BY SeedAlone DEF Inv, ClearOnlyFromSeed
<1> QED
  BY Inductive, <1>1, PTL

\* A save that keeps a secret writes back the one in the row, whoever can open it, unless
\* another save of the document overlapped (merge of settings/view.ts, repo.set).
THEOREM KeptSecretsSurvive == Spec => KeptSurvivesUnlessOverlapped
<1>1. Inv /\ [Next]_vars => [part = "settings" => S!KeepsTheKept]_vars
  BY KeepsWhatItRead DEF Inv
<1> QED
  BY Inductive, <1>1, PTL DEF Spec, KeptSurvivesUnlessOverlapped

\* Whatever the ticks, the restarts and the corrections of the clock, a minute runs one
\* backup at most unless the process restarted and the clock was set back, and as long as
\* ticks are punctual every named minute that the scheduler was idle for has run one
\* (tick of backup/scheduler.ts).
THEOREM NamedMinutesRunOnce == Spec => []OncePerNamedMinute
<1>1. Inv => OncePerNamedMinute
  BY ScheduleKept DEF Inv, OncePerNamedMinute
<1> QED
  BY Inductive, <1>1, PTL

\* A backup on record as ok is in the bucket, whole and its own, unless another started in
\* the same second; nothing is in the bucket without a row, and a row is left open only
\* when something besides the backup failed (runBackup and verify of backup/service.ts);
\* the flag of backup/runner.ts is up only while a backup runs.
THEOREM BackupRecordsAreTrue == Spec => []RecordsAreTrue
<1>1. Inv => RecordsAreTrue
  BY OkMeansThere DEF Inv, RecordsAreTrue
<1> QED
  BY Inductive, <1>1, PTL
=============================================================================
