---------------------------- MODULE Credentials ----------------------------
(***************************************************************************)
(* Which agent is calling: kube/sa-token.ts and #identify of               *)
(* http/ingest.controller.ts.                                              *)
(*                                                                         *)
(* A report carries a token of the cluster, which names its key, or one of *)
(* the table agent_tokens, which stays as it is.  The cluster's key set is *)
(* fetched when a token does not verify, by one caller at a time; the      *)
(* others await that fetch.  Everything between two awaits is one step.    *)
(*                                                                         *)
(* A key is the number of the rotation that brought it, and the cluster    *)
(* publishes the newest and the one before it.  A token of another         *)
(* audience, namespace or account is as one whose key nobody publishes,    *)
(* and so is, to the verifier, one of the table.                           *)
(***************************************************************************)
EXTENDS Naturals, FiniteSets

CONSTANTS
  Calls,             \* senders, each with one report at a time
  REFRESH_INTERVAL,  \* in steps of the clock
  MaxRotations,      \* bound: how often the key changes
  MaxFaults          \* bound: fetches that fail

CredentialsAssumption == REFRESH_INTERVAL \in Nat \ {0}

VARIABLES
  newest,   \* the cluster: the key it signs with
  known,    \* history: for how long the newest key could be fetched, up to the interval
  keys,     \* #keys, or NoKeys
  age,      \* now() - #fetchedAt, up to the interval
  fetch,    \* #inFlight: its stage, and the key set on its way
  calls,    \* call -> Idle, or what it has got to
  wronged,  \* history: a report was refused without an excuse
  faults

verifier == <<keys, age, fetch, faults>>
cluster == <<newest, known>>
vars == <<cluster, verifier, calls, wronged>>

NoKeys == {}
NoFetch == [stage |-> "none", keys |-> NoKeys]
Idle == [stage |-> "idle"]

\* Keys count from 1; the one before the first is not published.
Published == {newest, newest - 1} \ {0}

\* A token is the number of its key, or one of the table.
Static == 0

-----------------------------------------------------------------------------
(* #refresh and #tryVerify.                                                *)

\* Mutant: a fetch that failed is kept.
AfterFailure_Kept == [stage |-> "failed", keys |-> NoKeys]

\* finally { this.#inFlight = null }
AfterFailure == NoFetch

\* A fetch is under way, the one there is or a new one.
Refresh == fetch' = IF fetch = NoFetch THEN [NoFetch EXCEPT !.stage = "asked"] ELSE fetch

\* This call awaits it and goes on at `next`.
Awaits(call, next) ==
  /\ calls' = [calls EXCEPT ![call] = [@ EXCEPT !.stage = "awaiting", !.next = next]]
  /\ Refresh

\* Mutant: a report keeps the keys it first had.
Verifies_Captured(call, next) ==
  /\ calls' = [calls EXCEPT ![call] = [@ EXCEPT !.stage = "verifying", !.next = next,
                                         !.with = IF @ = NoKeys THEN keys ELSE @]]
  /\ UNCHANGED fetch

\* This call verifies its token with the keys there are.
Verifies(call, next) ==
  /\ calls' = [calls EXCEPT ![call] = [@ EXCEPT !.stage = "verifying", !.next = next, !.with = keys]]
  /\ UNCHANGED fetch

\* The token verifies under no key: look for it among those given out.
NotOfTheCluster(call) ==
  /\ calls' = [calls EXCEPT ![call].stage = "lookup"]
  /\ UNCHANGED fetch

\* now() - #fetchedAt < REFRESH_INTERVAL_MS
Recent == age < REFRESH_INTERVAL

\* After a first failure: fetch, unless the keys are recent.
FetchOrNot(call) == IF Recent THEN NotOfTheCluster(call) ELSE Awaits(call, "again")

\* A report comes in.  `due`: its key could have been known for an interval.
Report(call, token) ==
  /\ calls[call] = Idle
  /\ LET came == [stage |-> "new", next |-> "", token |-> token, with |-> keys, excused |-> FALSE,
                  due |-> known = REFRESH_INTERVAL /\ token \in Published] IN
     IF keys = NoKeys
     THEN /\ calls' = [calls EXCEPT ![call] = [came EXCEPT !.stage = "awaiting", !.next = "first"]]
          /\ Refresh
     ELSE /\ calls' = [calls EXCEPT ![call] = [came EXCEPT !.stage = "verifying", !.next = "again"]]
          /\ UNCHANGED fetch
  /\ UNCHANGED <<cluster, keys, age, faults, wronged>>

\* A report ends.  It is wronged if it is refused though its key could have been
\* known for an interval, is published still, and nothing excuses it.
Ends(call, accepted) ==
  /\ calls' = [calls EXCEPT ![call] = Idle]
  /\ wronged' = \/ wronged
                 \/ /\ ~accepted /\ ~calls[call].excused
                    /\ calls[call].due /\ calls[call].token \in Published

\* The signature has been looked at, under the keys that were taken.
Verified(call) ==
  /\ calls[call].stage = "verifying"
  /\ IF calls[call].token \in calls[call].with
     THEN Ends(call, TRUE) /\ UNCHANGED fetch
     ELSE /\ IF calls[call].next = "again" THEN FetchOrNot(call) ELSE NotOfTheCluster(call)
          /\ UNCHANGED wronged
  /\ UNCHANGED <<cluster, keys, age, faults>>

\* The fetch a call awaited has ended.  #tryVerify without keys gives up after the
\* fetch of its own; verify() then asks for another, and tries again, which fetches
\* once more if there are none.
Resumes(call) ==
  /\ calls[call].stage = "fetched"
  /\ CASE calls[call].next = "first" ->
            IF keys = NoKeys THEN FetchOrNot(call) ELSE Verifies(call, "again")
       [] calls[call].next = "again" ->
            IF keys = NoKeys THEN Awaits(call, "last") ELSE Verifies(call, "last")
       [] calls[call].next = "last" ->
            IF keys = NoKeys THEN NotOfTheCluster(call) ELSE Verifies(call, "last")
  /\ UNCHANGED <<cluster, keys, age, faults, wronged>>

\* nodeFor.
LooksUp(call) ==
  /\ calls[call].stage = "lookup"
  /\ Ends(call, calls[call].token = Static)
  /\ UNCHANGED <<cluster, verifier>>

-----------------------------------------------------------------------------
(* The fetch.                                                              *)

\* The API server answers with the keys it publishes now.
Reads ==
  /\ fetch.stage = "asked"
  /\ fetch' = [stage |-> "read", keys |-> Published]
  /\ UNCHANGED <<cluster, keys, age, faults, calls, wronged>>

\* Who awaited the fetch may go on; who was verifying with other keys, or awaited one
\* that failed, has an excuse.
Released(failed) ==
  [call \in Calls |->
     CASE calls[call].stage = "awaiting" ->
            [calls[call] EXCEPT !.stage = "fetched", !.excused = @ \/ failed]
       [] calls[call].stage = "verifying" -> [calls[call] EXCEPT !.excused = @ \/ ~failed]
       [] OTHER -> calls[call]]

Lands ==
  /\ fetch.stage = "read"
  /\ keys' = fetch.keys
  /\ age' = 0
  /\ fetch' = NoFetch
  /\ calls' = Released(FALSE)
  /\ UNCHANGED <<cluster, faults, wronged>>

Fails ==
  /\ faults < MaxFaults /\ fetch # NoFetch
  /\ faults' = faults + 1
  /\ fetch' = AfterFailure
  /\ calls' = Released(TRUE)
  /\ UNCHANGED <<cluster, keys, age, wronged>>

-----------------------------------------------------------------------------

\* The cluster signs with a new key.
Rotates ==
  /\ newest <= MaxRotations
  /\ newest' = newest + 1
  /\ known' = 0
  /\ UNCHANGED <<verifier, calls, wronged>>

UpTo(n) == IF n < REFRESH_INTERVAL THEN n + 1 ELSE n

\* Time passes.  An answer that was read before the rotation holds `known` back.
Tick ==
  /\ age' = UpTo(age)
  /\ known' = IF fetch.stage = "read" /\ newest \notin fetch.keys THEN known ELSE UpTo(known)
  /\ UNCHANGED <<newest, keys, fetch, faults, calls, wronged>>

\* #fetchedAt is 0, so the interval is long over.
Init ==
  /\ newest = 1
  /\ known = 0
  /\ keys = NoKeys
  /\ age = REFRESH_INTERVAL
  /\ fetch = NoFetch
  /\ calls = [call \in Calls |-> Idle]
  /\ wronged = FALSE
  /\ faults = 0

Goes(call) == Verified(call) \/ Resumes(call) \/ LooksUp(call)

Next ==
  \/ \E call \in Calls : \E token \in Static .. newest : Report(call, token)
  \/ \E call \in Calls : Goes(call)
  \/ Reads \/ Lands \/ Fails
  \/ Rotates \/ Tick

Spec == Init /\ [][Next]_vars

\* The kubelet renews tokens, so that reports under the newest key come again and
\* again; they go on, the API server answers, and time passes.
Fairness ==
  /\ \A call \in Calls : SF_vars(Report(call, newest)) /\ WF_vars(Goes(call))
  /\ WF_vars(Reads) /\ WF_vars(Lands) /\ WF_vars(Tick)

FairSpec == Spec /\ Fairness

-----------------------------------------------------------------------------
(* Properties.                                                             *)

\* A rotated key is unknown for an interval at most: a token whose key could have
\* been fetched for that long is refused only if a fetch this report waited for
\* failed, or if the key set changed under its first look.
UnknownForAnIntervalAtMost ==
  ~wronged

\* Every rotation is followed, whatever fetches failed before: as long as an agent goes
\* on reporting, the verifier comes to hold the key the cluster signs with.
RotationsAreFollowed == <>[](newest \in keys)
=============================================================================
