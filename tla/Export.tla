------------------------------- MODULE Export -------------------------------
(***************************************************************************)
(* GET /api/export/:facet: a download of every row that matches            *)
(* (server/src/http/query.controller.ts, and stream() of                   *)
(* query/facet-query.ts).                                                  *)
(*                                                                         *)
(* The rows are read by pages with LIMIT and OFFSET, newest first, over a  *)
(* table that changes from one page to the next: rows come, late ones      *)
(* among those that are there, retention takes the oldest, and the table   *)
(* of a state facet is replaced.                                           *)
(*                                                                         *)
(* The response is what the browser gets.  Its status and headers go out   *)
(* with the first byte.  When the handler throws later, the framework      *)
(* (external) ends the response as it is, and the browser is left with a   *)
(* download that came to its end: only a JSON file without its last        *)
(* bracket, or the header X-Kubitor-Truncated, tells that one is short.    *)
(***************************************************************************)
EXTENDS Naturals, Sequences, SequencesExt, FiniteSets

CONSTANTS
  Rows,        \* rows that match the filters
  Stores,      \* bound: what the table holds at first
  MAX_PAGE,    \* rows read at once
  CAP,         \* EXPORT_ROW_CAP
  MaxChanges,  \* bound: changes of the table
  MaxFaults    \* bound: queries that fail

ExportAssumption ==
  /\ \A store \in Stores : store \in Seq(Rows) /\ IsInjective(store)
  /\ MAX_PAGE \in Nat \ {0} /\ CAP \in Nat

VARIABLES
  store,     \* the rows of the table, newest first
  offset,    \* of the next page
  file,      \* the rows written
  format,    \* of the file: "csv" or "json"
  response,  \* "idle", "open", "ended", or "error": answered with a status of 500
  sent,      \* the headers have gone out
  closed,    \* the last bracket of a JSON file is written
  truncated, \* the header X-Kubitor-Truncated has gone out
  stayed,    \* history: rows that were there all the time
  arrived,   \* history: rows that came meanwhile
  replaced,  \* history: a snapshot was replaced meanwhile
  changes, faults

answer == <<format, response, sent, closed, truncated>>
history == <<stayed, arrived, replaced>>
vars == <<store, offset, file, answer, history, changes, faults>>

SmallerOf(a, b) == IF a < b THEN a ELSE b

\* run() with a limit and an offset.
Page == SubSeq(store, offset + 1, SmallerOf(offset + MAX_PAGE, Len(store)))

\* What stream() yields of a page.
Yielded(page) == SubSeq(page, 1, SmallerOf(Len(page), CAP - Len(file)))

\* Mutant: the next page starts one row late.
Onward_OffByOne(page) == offset + Len(page) + 1

\* offset += page.rows.length.
Onward(page) == offset + Len(page)

\* The names of the file and of its type are set; a JSON file starts with a bracket.
Ask(kind) ==
  /\ response = "idle"
  /\ response' = "open"
  /\ format' = kind
  /\ sent' = (kind = "json")
  /\ stayed' = Range(store)
  /\ UNCHANGED <<store, offset, file, closed, truncated, arrived, replaced, changes, faults>>

\* A page, written as it comes.
ReadPage ==
  /\ response = "open"
  /\ Len(file) < CAP /\ Page # <<>>
  /\ file' = file \o Yielded(Page)
  /\ offset' = Onward(Page)
  /\ sent' = TRUE
  /\ UNCHANGED <<store, format, response, closed, truncated, history, changes, faults>>

\* stream() ends at an empty page, or when it has given as many rows as it may.
StreamEnds == Len(file) >= CAP \/ Page = <<>>

\* Once the loop is through, a JSON file has its last bracket.  The header for a full
\* file is set after that: when the headers have gone out setHeader() throws, and the
\* framework ends the response instead of response.end().
Ends ==
  /\ response = "open"
  /\ StreamEnds
  /\ closed' = (format = "json")
  /\ truncated' = (Len(file) >= CAP /\ ~sent)
  /\ sent' = TRUE
  /\ response' = "ended"
  /\ UNCHANGED <<store, offset, file, format, history, changes, faults>>

\* A query that fails: an answer of its own as long as nothing has gone out, and the
\* end of what has gone out otherwise.
Fails ==
  /\ response = "open"
  /\ Len(file) < CAP
  /\ faults < MaxFaults
  /\ faults' = faults + 1
  /\ response' = IF sent THEN "ended" ELSE "error"
  /\ sent' = TRUE
  /\ UNCHANGED <<store, offset, file, format, closed, truncated, history, changes>>

-----------------------------------------------------------------------------
(* The table.                                                              *)

Changes == response = "open" /\ changes < MaxChanges /\ changes' = changes + 1

\* Where a row may come in.
Places == 1 .. Len(store) + 1

\* A row is stored, late or not.
Grows(row, place) ==
  /\ Changes
  /\ row \notin Range(store) \cup stayed \cup arrived
  /\ store' = InsertAt(store, place, row)
  /\ arrived' = arrived \cup {row}
  /\ UNCHANGED <<offset, file, answer, stayed, replaced, faults>>

\* Retention takes the oldest, the last of the order.
Sweep ==
  /\ Changes /\ store # <<>>
  /\ store' = Front(store)
  /\ stayed' = stayed \cap Range(store')
  /\ UNCHANGED <<offset, file, answer, arrived, replaced, faults>>

\* A snapshot is replaced by one that lacks a row.
Replace(row) ==
  /\ Changes
  /\ \E place \in DOMAIN store : store[place] = row /\ store' = RemoveAt(store, place)
  /\ stayed' = stayed \ {row}
  /\ replaced' = TRUE
  /\ UNCHANGED <<offset, file, answer, arrived, faults>>

Init ==
  /\ store \in Stores
  /\ offset = 0 /\ file = <<>>
  /\ format = "json" /\ response = "idle"
  /\ sent = FALSE /\ closed = FALSE /\ truncated = FALSE
  /\ stayed = {} /\ arrived = {} /\ replaced = FALSE
  /\ changes = 0 /\ faults = 0

Next ==
  \/ \E kind \in {"csv", "json"} : Ask(kind)
  \/ ReadPage
  \/ Ends
  \/ Fails
  \/ \E row \in Rows, place \in Places : Grows(row, place)
  \/ Sweep
  \/ \E row \in Rows : Replace(row)

Spec == Init /\ [][Next]_vars

-----------------------------------------------------------------------------
(* Properties.                                                             *)

\* Rows written again.
Repeated == Len(file) - Cardinality(Range(file))

\* All a reader can tell of a download that came to its end.
LooksWhole == response = "ended" /\ (format = "json" => closed)

Lacks == stayed \ Range(file)

\* What a file lacks of the rows that stayed is at its end: a row that is written is
\* preceded by all those that stood before it.
NoHoles ==
  \A j, k \in DOMAIN store :
    j < k /\ store[j] \in Lacks => store[k] \notin stayed \cap Range(file)

\* "A download that quietly differs from the screen is worse than none": a file that
\* looks whole and lacks a row that was there from first to last is as long as a file
\* may be, or a CSV of which a query failed; and what any file lacks is its end.  Both
\* unless a snapshot was replaced meanwhile.  A file repeats a row for each that came
\* meanwhile, never more.
FilesAreWhole ==
  /\ LooksWhole /\ ~replaced /\ Lacks # {}
       => Len(file) = CAP \/ (format = "csv" /\ faults > 0)
  /\ ~replaced => NoHoles
  /\ Len(file) <= CAP
  /\ Repeated <= Cardinality(arrived)

\* "Say so rather than letting a silently short file look complete": a file that came to
\* its end because it is full, and lacks a row, says so.
ShortFilesSaySo ==
  LooksWhole /\ faults = 0 /\ ~replaced /\ Lacks # {} => truncated
=============================================================================
