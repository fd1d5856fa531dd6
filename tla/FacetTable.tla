----------------------------- MODULE FacetTable -----------------------------
(***************************************************************************)
(* The table of every facet screen (client/src/components/facet-table.tsx, *)
(* pager.tsx) and the query behind it (server/src/query/facet-query.ts,    *)
(* http/query.controller.ts).                                              *)
(*                                                                         *)
(* The URL holds the filters and the page.  router.replace() takes effect  *)
(* later, and what is typed waits until typing stops; both work on the     *)
(* parameters of the render they come from.  A request is a count and then *)
(* a listing, two statements in no transaction, over a table that grows    *)
(* and is swept meanwhile.                                                 *)
(*                                                                         *)
(* Rows are of one of two sorts and PageSize of them make a page; what a   *)
(* text box or a select asks for is a sort to show or to hide.             *)
(***************************************************************************)
EXTENDS Naturals, Sequences, SequencesExt, FiniteSets

CONSTANTS
  Sorts,      \* sorts of rows
  Texts,      \* bound: the sorts a reader asks for
  PageSize,   \* rows on a page
  Stores,     \* bound: what the table holds at first
  MaxRows,    \* bound: rows of the table
  MaxEdits,   \* bound: things the reader does
  MaxMoves    \* bound: rows that come and go, requests that fail

VARIABLES
  store,     \* the matching table, newest first: the sorts of its rows
  url,       \* useSearchParams()
  going,     \* router.replace() under way: the parameters, or NoUrl
  boxes,     \* text box -> what was typed into it, or "untouched"
  timers,    \* text box -> NoTimer, or what its timer will do
  requests,  \* api.facet() calls under way
  rows, total, loading, failed,  \* the component's state
  shownFor,  \* history: the parameters rows were asked with
  torn,      \* history: the table changed between a count and its listing
  edits, moves

client == <<url, going, boxes, timers, requests, rows, total, loading, failed, shownFor>>
vars == <<store, client, torn, edits, moves>>

None == ""
Boxes == {"search", "exclude"}
Keys == Boxes \cup {"select"}
NoUrl == [search |-> None, exclude |-> None, select |-> None, page |-> 0]
NoTimer == [value |-> None, from |-> NoUrl]
Bare == [search |-> None, exclude |-> None, select |-> None, page |-> 1]

-----------------------------------------------------------------------------
(* The query.                                                              *)

\* applyFilters.
Matches(sort, params) ==
  /\ params.search = None \/ sort = params.search
  /\ params.exclude = None \/ sort # params.exclude
  /\ params.select = None \/ sort = params.select

Matching(params) == SelectSeq(store, LAMBDA sort : Matches(sort, params))

\* LIMIT and OFFSET of a page.
PageOf(params) ==
  LET all == Matching(params)
      first == (params.page - 1) * PageSize + 1
      last == params.page * PageSize IN
  SubSeq(all, first, IF last < Len(all) THEN last ELSE Len(all))

\* pages of the pager: at least one.
Pages(n) == IF n = 0 THEN 1 ELSE (n + PageSize - 1) \div PageSize

-----------------------------------------------------------------------------
(* The component.                                                          *)

\* What a text box shows: what was typed, or what the URL says.
Shown(box) == IF boxes[box] = "untouched" THEN url[box] ELSE boxes[box]

\* setParam(): the parameters of the render it belongs to, with one changed; any
\* change but of the page goes back to the first.
With(from, key, value) ==
  IF key = "page" THEN [from EXCEPT !.page = value] ELSE [from EXCEPT ![key] = value, !.page = 1]

\* Mutant: a page past the end is left alone.
Clamped_Never(params, n, busy) == NoUrl

\* The effect that lands the reader on the last page there is.
Clamped(params, n, busy) ==
  IF ~busy /\ n > 0 /\ params.page > Pages(n) THEN [params EXCEPT !.page = Pages(n)] ELSE NoUrl

\* setParamWhenTypingStops(): the timer of this box starts again.
Type(box, text) ==
  /\ edits < MaxEdits
  /\ edits' = edits + 1
  /\ text # Shown(box)
  /\ boxes' = [boxes EXCEPT ![box] = text]
  /\ timers' = [timers EXCEPT ![box] = [value |-> text, from |-> url]]
  /\ UNCHANGED <<store, url, going, requests, rows, total, loading, failed, shownFor, torn, moves>>

\* Typing has stopped.
TypingStops(box) ==
  /\ timers[box] # NoTimer
  /\ going' = With(timers[box].from, box, timers[box].value)
  /\ timers' = [timers EXCEPT ![box] = NoTimer]
  /\ UNCHANGED <<store, url, boxes, requests, rows, total, loading, failed, shownFor, torn,
                 edits, moves>>

\* A select, which takes effect at once.
Pick(value) ==
  /\ edits < MaxEdits
  /\ edits' = edits + 1
  /\ value # url.select
  /\ going' = With(url, "select", value)
  /\ UNCHANGED <<store, url, boxes, timers, requests, rows, total, loading, failed, shownFor,
                 torn, moves>>

\* The pager, drawn when there is more than one page.
Turn(page) ==
  /\ edits < MaxEdits
  /\ edits' = edits + 1
  /\ page # url.page
  /\ going' = With(url, "page", page)
  /\ UNCHANGED <<store, url, boxes, timers, requests, rows, total, loading, failed, shownFor,
                 torn, moves>>

Request(params) == [params |-> params, stage |-> "counting", total |-> 0, cancelled |-> FALSE]

\* Mutant: the effect does not cancel the request before it.
Cancelled_Never(asked) == asked

\* The clean-up of the effect that asks.
Cancelled(asked) == [n \in DOMAIN asked |-> [asked[n] EXCEPT !.cancelled = TRUE]]

\* The navigation is rendered and its effects run: the clamp, with the total of
\* before, and the request.
Arrives ==
  /\ going # NoUrl
  /\ url' = going
  /\ IF going = url
     THEN /\ going' = NoUrl
          /\ UNCHANGED <<requests, loading, failed>>
     ELSE /\ going' = Clamped(going, total, loading)
          /\ requests' = Append(Cancelled(requests), Request(going))
          /\ loading' = TRUE
          /\ failed' = FALSE
  /\ UNCHANGED <<store, boxes, timers, rows, total, shownFor, torn, edits, moves>>

-----------------------------------------------------------------------------
(* A request.                                                              *)

\* The server counts.
Count(n) ==
  /\ requests[n].stage = "counting"
  /\ requests' = [requests EXCEPT ![n] = [@ EXCEPT !.stage = "listing",
                    !.total = Len(Matching(requests[n].params))]]
  /\ UNCHANGED <<store, url, going, boxes, timers, rows, total, loading, failed, shownFor, torn,
                 edits, moves>>

\* It lists the page and the answer arrives.  Without a change there is no render
\* and no effect.
Answer(n) ==
  /\ requests[n].stage = "listing"
  /\ requests' = RemoveAt(requests, n)
  /\ IF requests[n].cancelled
     THEN UNCHANGED <<rows, total, loading, failed, shownFor, going>>
     ELSE /\ rows' = PageOf(requests[n].params)
          /\ total' = requests[n].total
          /\ loading' = FALSE
          /\ failed' = FALSE
          /\ shownFor' = requests[n].params
          /\ LET page == Clamped(url, requests[n].total, FALSE) IN
             going' = IF page = NoUrl THEN going ELSE page
  /\ UNCHANGED <<store, url, boxes, timers, torn, edits, moves>>

\* The request fails: what was there stays under the message.  The clamp looks
\* again, with the total it knows.
Fails(n) ==
  /\ moves < MaxMoves
  /\ moves' = moves + 1
  /\ requests' = RemoveAt(requests, n)
  /\ IF requests[n].cancelled
     THEN UNCHANGED <<loading, failed, going>>
     ELSE /\ failed' = TRUE
          /\ loading' = FALSE
          /\ LET page == Clamped(url, total, FALSE) IN
             going' = IF page = NoUrl THEN going ELSE page
  /\ UNCHANGED <<store, url, boxes, timers, rows, total, shownFor, torn, edits>>

-----------------------------------------------------------------------------
(* The table of the server.                                                *)

Tears == torn' = (torn \/ \E n \in DOMAIN requests : requests[n].stage = "listing")

\* A row comes, the newest.
Grows(sort) ==
  /\ moves < MaxMoves /\ Len(store) < MaxRows
  /\ moves' = moves + 1
  /\ store' = <<sort>> \o store
  /\ Tears
  /\ UNCHANGED <<client, edits>>

\* Retention takes the oldest.
IsSwept ==
  /\ moves < MaxMoves /\ store # <<>>
  /\ moves' = moves + 1
  /\ store' = Front(store)
  /\ Tears
  /\ UNCHANGED <<client, edits>>

\* The exclusion of a first visit, written into a URL that has neither box.
Seeded(default) == IF default = None THEN NoUrl ELSE [url EXCEPT !.exclude = default]

\* A link to any page, and the first effects.
Init ==
  /\ store \in Stores
  /\ url \in {[Bare EXCEPT !.page = page] : page \in 1 .. MaxRows}
  /\ \E default \in Texts \cup {None} : going = Seeded(default)
  /\ boxes = [box \in Boxes |-> "untouched"]
  /\ timers = [box \in Boxes |-> NoTimer]
  /\ requests = <<Request(url)>>
  /\ rows = <<>>
  /\ total = 0
  /\ loading = TRUE
  /\ failed = FALSE
  /\ shownFor = NoUrl
  /\ torn = FALSE
  /\ edits = 0
  /\ moves = 0

Reader ==
  \/ \E box \in Boxes, text \in Texts \cup {None} : Type(box, text)
  \/ \E value \in Texts \cup {None} : Pick(value)
  \/ \E page \in 1 .. Pages(total) : Turn(page)

Next ==
  \/ Reader
  \/ \E box \in Boxes : TypingStops(box)
  \/ Arrives
  \/ \E n \in DOMAIN requests : Count(n) \/ Answer(n) \/ Fails(n)
  \/ \E sort \in Sorts : Grows(sort)
  \/ IsSwept

Spec == Init /\ [][Next]_vars

FirstIsServed == requests # <<>> /\ (Count(1) \/ Answer(1))

\* Timers run out, navigations are rendered, the oldest request is answered.
Fairness ==
  /\ \A box \in Boxes : WF_vars(TypingStops(box))
  /\ WF_vars(Arrives)
  /\ WF_vars(FirstIsServed)

FairSpec == Spec /\ Fairness

-----------------------------------------------------------------------------
(* Properties.                                                             *)

\* Whatever order requests are answered in, the rows shown without "loading" or the
\* message of a failure are those the URL asks for.
RowsAreOfTheUrl == ~loading /\ ~failed => shownFor = url

Landed == ~loading /\ (failed \/ torn \/ rows # <<>> \/ total = 0)

\* A link to a page the filters do not reach does not strand the reader ("Land them
\* on the last page there is"): when reader and table have come to rest there are
\* rows to see, or none match, or the last request failed, or the table changed
\* between a count and its listing.
LandsOnAPage == <>[]Landed
=============================================================================
