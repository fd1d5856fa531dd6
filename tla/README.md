# kubitor in TLA+

kubitor is a dashboard for one Kubernetes cluster: one server process (NestJS
on Node, SQLite or Postgres), an agent on every node, a browser client. The
server collects readings, evaluates alert rules, queues notifications, takes
backups of its own database and answers requests, all on one event loop. These
modules model the parts of it where that loop interleaves, fails or is killed.
Paths below are relative to `src/server/src` unless they say otherwise.

## The system

| part | state | operations | talks to |
|---|---|---|---|
| Alert evaluation (`alerts/`, `db/alerts.repo.ts`) | the `alerts` table, `#running` | a pass every minute: read the world, and per rule read the open rows, update, resolve, create | hands transitions to notification delivery; reads the backups table |
| Notification delivery (`notify/`, `db/notifications.repo.ts`) | the `notifications` table, `#draining` | enqueue, drain every ten seconds, retry, give up | the channels outside; the alerts table; the settings |
| Backup schedule (`backup/scheduler.ts`, `cron.ts`) | expression, last fired minute, `#running` | tick every minute, setSchedule | starts backup runs |
| Backup runs (`backup/runner.ts`, `service.ts`) | the `backups` table, the runner's flag, the bucket | snapshot, encrypt, put, verify, record | the bucket; the scheduler; `POST /api/backups/run` |
| Accounts and sessions (`auth/`, `db/accounts.repo.ts`, `db/sessions.repo.ts`) | the `accounts` and `sessions` tables | login, logout, validate, change, reset, create, delete, setRole, bootstrap | every controller goes through its guard |
| Login lockout (`auth/auth.service.ts`, `login-policy.ts`) | the `login_attempts` table | count, verify, record, pause | accounts and sessions |
| Retention (`db/retention.ts`, `db/tables.ts`) | none | one DELETE per table and hour | every table |
| Settings (`settings/`) | documents, the `settings` table, resolved configuration | load, read, put | notification delivery and backups are rebuilt from it |
| Live gateway (`http/ws.gateway.ts`, `collect/live-push.ts`, `live-cache.ts`) | open sockets and their sessions, the newest readings | upgrade, push, heartbeat | sessions; the collected nodes; `src/client/src/lib/live.ts` |
| Collection (`collect/`, `plugins/ingest.ts`, `integrations/`) | samples, snapshots, events, cursors | polls by an interval, host ingest | the cluster API, the agents |
| Detection (`plugins/detection.service.ts`, `manifest.ts`) | a row per integration, overrides | sweep, rescan, override, first report | the cluster API; every screen |
| Agents' credentials (`kube/sa-token.ts`, `auth/agents.service.ts`) | the key set, the fetch in flight, the `agent_tokens` table | verify, refresh, issue, revoke | the ingest endpoint |
| Queries (`query/`, `http/query.controller.ts`) | none | count and page, series, export | every table; the screens |
| Agent (`src/agent/src/`) | bounded buffers, log offsets, sessions, witness state | read, enqueue, flush, witness | the ingest endpoint |
| Dashboard (`src/client/src/`) | socket, timers, what is shown, what is typed | connect, poll, ask, edit, save | the gateway and the endpoints |

What is hard in it: every `await` lets another request, timer or callback in,
and most guards are checks made an await before the write they protect; timers
fire again while their last callback runs; a pass or a drain may fail half way
with rows already written; the process is replaced (a single replica, strategy
Recreate) at any await; what is sent outside, to a channel or a bucket, cannot
be taken back or be known to have arrived. The full list, with lines, is under
"hazards" in PROJECT.json.

## The modules

Every module has one VARIABLE per piece of state of the code and per program
counter, one action per handler or per stretch of a handler between two awaits,
and keeps the source's names. Operators named `X_Y` are mutants of the operator
`X`: plausible bugs that the property named beside them in PROJECT.json must
catch. The map in PROJECT.json gives the lines of every definition.

| module | models | its actions, in the code's terms |
|---|---|---|
| `Alerts` | the pass of the evaluator and its table | `Start` (evaluateOnce, its flag), `ReadWorld`, `FetchOpen`, `StillWrong`, `Absent`, `Resolve`, `Create`, `NextRule` and `Finish` are the stretches between the awaits of evaluate(); `Fail` is an await that throws, `Crash` a kill, `Sweep` retention |
| `Incidents` | what Alerts promises: a damped on/off signal per rule and subject | `Sight`, `Miss` |
| `AlertsProofs` | theorems about Alerts | |
| `Dispatcher` | enqueue() and drain() over the queue | `StartEnqueue`, `Insert`; `StartDrain`, `ReadDue`, `TakeNext`, the three ends of a send, `RecordDelivered`, `RecordFails`, `Abandon`, `RetryLater`, `GiveUpOrphan`, `EndDrain`, `DrainFails`; `Reconfigure`, both sweeps, `Crash` |
| `Outbox` | what Dispatcher promises about each message | `Post`, `Hit`, `Retry`, `Exhaust`, `Orphan`, `Deliver`, `Forget` |
| `BackupScheduler` | tick(), setSchedule() and the clocks | `Pass`, `Tick`, `RunEnds`, `SetSchedule`, `StepBack`, `Restart` |
| `Backups` | runBackup(), runNow() and the bucket | `BeginByTimer`, `BeginByHand`, `InsertRow`, `Stage`, `Put`, `Verify`, `Throw`, `RecordOk`, `RecordFailure`, `WriteFails`, `Crash` |
| `Accounts` | the requests about accounts and sessions, one statement at a time | one action per statement: guard, read, count, write, erase of each request; login, logout, bootstrap; `Fails` is a statement that throws, `Crash` a kill |
| `Settings` | load() and the two put requests | `Put` (merge and seal), `Write`, `WriteFails`, `Assign`, `Reconfigure`; `Deploy`, `LoadDocument`, `Crash` |
| `LiveClient` | useLiveMetrics, one callback at a time | socket events, the two timers, `Hide`, `Show`, `Navigate`, `Dispose`; `Attached` is the server, which listens once it has checked the session |
| `LiveGateway` | admission, pushes and heartbeats | `Arrive`, `Check`, `Admit`, `Refuse`, `StartPush`, `Read`, `Act`, `Heartbeat`, `Pong`; sessions that end, peers that close or vanish |
| `HostIngest` | POST host, memory and the two writes | `Send`, `Accept`, `InsertHardware`, `ReplaceResources`, `WriteFails`, `Restart`, `Tick` |
| `SignIn` | login() and its attempts | `Ask` with `Count`, `Record`, `SucceedsWith`, `Answer` between its awaits; `Breaks` and `Crash` |
| `Snapshots` | the polls that replace a table, over both databases | `Start`, `List`, `Begin`, `Delete`, `Deleted`, `Commit`; `Fails`, `Restart`, `Change` |
| `Sweeps` | the polls that resume from a cursor | `Start`, `Read`, `SweepEvents` and `ReadLines` (where the cursor moves), `StoreChunk`; what happens in the cluster, rotation of the log. What is read at once is a set of numbered items, for order within it is that of the numbers |
| `Discovery` | detection, overrides, the manifest | `Sweep`, `Rescan`, `Probe`, `RecordDetection`, `SetOverride`, `FirstReport`; `Report`, `GoesSilent`, `Change`, `Restart` |
| `Credentials` | verify(), refresh() and the table of tokens | `Report`, `Verified`, `Resumes`, `LooksUp`; the fetch (`Reads`, `Lands`, `Fails`), `Rotates`, `Tick` |
| `Agent` | the loop of the agent, its senders, its witness | `Collect`, `TokenRead`, the five ends of a post, `ShoutEnds`, `Look`, `Snapshot`, `Wake`; `Hang`, `Signal`, `Restart`, the server going and coming |
| `AgentProofs` | theorems about Agent | |
| `SessionLogs` | SessionCollector over the two logs and /proc | `ReadAccess`, `ReadAudit`, `Sample`, their failures; lines begun and finished, rotation, executions. A line of the auth log is a stamp and two halves: the patterns of `sshd-log.ts` do without the first |
| `Series` | the samples kept, and the lines of the charts | `Polled` (the sink of main.ts), `Interval`, `Restart`; buckets, rates and the sum over the cluster are operators |
| `Export` | GET /api/export/:facet, as far as the browser gets it | `Ask`, `ReadPage`, `Ends`, `Fails`; the table that `Grows`, is swept or replaced |
| `FacetTable` | the table of a facet screen and its query | `Reader` (what the reader does), `TypingStops`, `Arrives` (the new URL), `Count`, `Answer`, `Fails`; the table meanwhile |
| `ScreenPolls` | the other screens | `Change`, `Ask`, `Serve`, `Lands`, `Fails`, `Ignored` |
| `StepUpPages` | the dialogs that ask for the password again, with agents.service.ts | `Open`, `Submit`, `Cancel`, `Dismiss`; `Find`, `Write`, `Serve` at the server; `Done`, `Refused`, `GivesUp`, `Unheard`, the list |
| `SettingsForms` | the two forms of the settings | `OpenDialog`, `Type`, `Save`, `Test`, the loads; `Put` and `PutLate` at the server |
| `LiveFigures` | readings over the cache, the frames and REST into cards and charts | `Record`, `RecordHost`, `Push`, `Answer`, `FrameArrives`, `AnswerArrives`, `HistoryLands`, ... |
| `MCBackground`, `MCSettings`, `MCSessions`, `MCReports`, `MCScreens`, `MCPages` | the modules of one run side by side | |
| `BackgroundProofs` | theorems about Dispatcher, Snapshots, Discovery and Credentials | |
| `SettingsProofs` | theorems about Settings, BackupScheduler and Backups | |
| `SessionsProofs` | theorems about Accounts and SignIn | |
| `ReportsProofs` | theorems about HostIngest, SessionLogs, Sweeps, Series and Export | |
| `ScreensProofs` | theorems about LiveClient, LiveGateway, FacetTable and ScreenPolls | |
| `PagesProofs` | theorems about StepUpPages, SettingsForms and LiveFigures | |

`Alerts` and `Dispatcher` are joined by the hand-over of transitions: Finish
gives them away, StartEnqueue takes any a table of alerts can give. `Backups`
has the guard of the scheduler's tick, `BackupScheduler` the minutes; `SeesLastFinished`
in Backups is what the rule backup-failed of Alerts reads. `Agent` decides when a
reading is sent, `HostIngest` what becomes of it; that a sender's rows arrive in their
order (`Accounted`) is what HostIngest assumes of requests that are not given
up. `LiveClient` says when REST is asked, `LiveFigures` what its answers do.
`Accounts` has the checks behind the dialogs of `StepUpPages`, and `Settings` those
behind `SettingsForms`.

The modules that share no state are checked, and proved about, by groups. A module
`MC...` instantiates those of its group with the constants and variables they have
in common by name; a behaviour is one of one of them (`part`), in which the variables
of the others stay 0, so that `tlc` goes through the state spaces one beside the
other. Variables of one name (`faults`, `offset`, `clock`) are those of the part that is
at work. A property of such a module is `part = "..." => ` the property of the
component, one conjunct for each. What the constants are is left to the .cfg, so
that the theorems in `...Proofs`, which EXTENDS the MC module, are about every
instance, and state the very formulas that TLC checks on one.

What is abstracted throughout: texts, timestamps (where only their order or
their passing counts, a flag or an age stands for them), the audit log, hashing,
encryption (a sealed value is who can open it and what it says) and SQL (one
statement is one step: kubitor's SQLite dialect serialises them, and none of the
modelled Postgres statements spans rows another one writes half of).

## The runs

| run | instance | shows |
|---|---|---|
| `alerts` | two rules with the damping of node-not-ready (2, 1) and pod-crashloop (2, 2), one subject, two rows, two passes, two failures | one open row per condition, each transition handed over once, no recovery of an untold failure unless a pass failed; firing only after a held condition for rules that clear at once; every condition is followed in the end; implements `Incidents` |
| `alerts_lost` | the same, one failure | violation: a failed pass loses the transition of a row it has written (finding) |
| `background` | Dispatcher: one alert (fired, resolved), one channel, two drains, batches of one, two attempts, an edit, two failures. Snapshots: two polls, either database, two faults. Discovery: two sweeps, two changes, a fault. Credentials: two senders, two rotations, a failed fetch | duplicates only after a doubt, overtaking only after a failure, every message ends, implements `Outbox`; one snapshot in the table unless two transactions crossed, overrides stay, screens appear with the first report, a rotated key is unknown for an interval at most; rows, screens and keys settle on what is there |
| `sessions` | Accounts: two accounts, two sessions, two requests, three passwords. SignIn: two addresses, two calls, a threshold of two in a window of two | sessions have accounts, stale ones are explained (a login under way, a kill, a statement that failed after the hash), somebody is left after requests one at a time; wrong guesses in a window stay below the threshold plus the calls in progress, and Retry-After is kept |
| `accounts_demoted` | Accounts alone | violation: two demotions leave nobody who manages accounts (finding) |
| `settings` | Settings: a channel with a secret alone, one with a secret it may do without, the destination, which needs both; one key or none; two saves. BackupScheduler: minutes of four units, ticks late by up to two, a clock set back twice, an edit, a restart. Backups: three runs, two seconds, one failure | row, document and configuration agree between saves, no secret in the clear but those seeded, kept secrets survive; a minute starts one backup, and every named one does while no tick is late; ok means in the bucket and whole |
| `backups_unseen` | Backups alone, two runs | violation: a newer attempt that still runs hides a failed backup (finding) |
| `reports` | HostIngest: two nodes, one with a clock ahead, two requests. SessionLogs: an attempt, two wide lines whose surplus is that of a stamp each, a session, an execution, a fault. Sweeps: two polls, three items, seconds of two units, a tail of two. Series: two nodes, four intervals, buckets of two. Export: four rows and one that comes, pages of two, a cap of four | a dead node looks dead, written rows stay, no row goes back; nothing is news twice and nothing is passed over but for named reasons; no rate exceeds what was moved; and a file that looks whole to its reader lacks rows that stayed at its end only, when it is full or a query of a CSV failed |
| `agent` | two readings, one of them larger than a request, a login attempt, buffers of two, patience of three, two faults | every row read is in hand, stored, refused or crowded out, and in order; shouts are true, go on, and the buffers empty themselves |
| `export_short` | Export alone of `MCReports`: the tables of `reports`, a cap of three, no change and no failure | violation: a file that is cut off at the cap does not say so (finding) |
| `screens` | LiveClient: three sockets, a node, one hurried return, two late polls. LiveGateway: two sockets, a session, two pushes, a cap of one. FacetTable: two rows of two sorts, one to a page, two edits. ScreenPolls: two targets, two requests, a failure | never stranded, a socket per return, rest when nobody looks, the node shown is the node told unless the request came before the server listened; no frame after the end, ended leave; rows of the URL, a page that exists, screens that catch up and do not go back |
| `pages` | StepUpPages: one name, two requests, two secrets, a fault. SettingsForms: two fields, two loads, two typings, a fault. LiveFigures: readings of three times, a window of two of them, points two apart so that a line draws its first and its last, one frame or answer late or lost. A reading that comes late is already stale there (STALE is 0, which keeps the run within minutes), so in the run only crossing answers bring an older one last; the theorem is about every STALE | shown secrets work and working ones were shown, lists are current, forms save what was typed, tests test what is shown, charts move forward |

Why the instances are enough to be of interest: every guard is met on both
sides. Two passes, drains, saves or requests make every race there is between
two; the code has no rule that depends on there being three. MAX_ATTEMPTS is 2
so that a message both backs off and gives up; the batch limit 1, the caps, the
threshold and the tail are reached and exceeded; a counter of 2 reaches both damping
thresholds. The names that start with `Max` bound a behaviour, not the program:
failures, edits, rotations, changes and time, more of which bring the modules back to
states they have had. In `Settings` a behaviour edits one of the two documents
(`edited`): they share nothing but the key. A channel that needs both of its fields
is the destination; `Paired` is empty in the instance. Every write there either
happens or not: that a write happens and its acknowledgement is lost is left out,
and so is a configuration that cannot be rebuilt, which no document that passes
validation makes. In `HostIngest` ages above OLD = STALE + 1 look alike to all
code. In `Sweeps` a second is two units, so that an event may be stamped before or after
the sweep of its second; in `Series` buckets hold two samples or one, so that a
counter starts over within one and between two. The stop at the bounds is not a
deadlock of the program, so the runs that reach them do not look for deadlocks.

Liveness is stated where the code makes a promise over time. `Alerts`: the
interval starts passes and the runtime resumes them, so weak fairness of the
steps of a pass together; failures are not fair and bounded. `Dispatcher`: the
same, and backoffs end. `Snapshots` and `Discovery`: timers fire and the steps of a poll
or a sweep settle. `Credentials`: the steps of a call, the fetch and the clock go on, and
strong fairness for reports under the newest key: an agent reports again and again,
whether or not a report of it is under way. `Agent`: every await of the loop settles,
fetch by its own timeouts; whether the server comes back is not assumed. `LiveClient`:
timers fire, requests settle, closing ends, the server sends frames, and it ends the
checks after which it listens.
`LiveGateway`: pushes and heartbeats go on and a peer that is there answers pings.
`FacetTable` and `ScreenPolls`: typing stops, the router and the requests settle,
intervals fire (not for the manifest, which is asked for once). Nothing assumes that a
channel, a bucket, a save or a user ever succeeds.

## What is proved

Everything below is for all values of the constants that satisfy the named assumptions,
which TLC evaluates on each run. Each part has an inductive invariant, because none of
the properties is inductive: what a step writes is right only for what was read some
awaits before. The proofs have a lemma that the initial states satisfy the invariant,
one lemma for each action (or a few that differ in nothing it speaks of), one for
stuttering, and a theorem at the end that combines them. Every inductive invariant was
checked by TLC on the instance of its run first.

### Alerts (`AlertsProofs`)

For any rules, damping, subjects, ids, passes and bounds: the type invariant,
`OneOpenPerIdentity`, `Damped`, `ToldOnce`, `ResolvedIsFinal`,
`NoRecoveryUntoldUnlessFailed`, `FiresWhenHeldIfBrisk`, and that Alerts implements
Incidents. They share the
inductive invariant `IInv`. That a pass does not create a second open row needs that
nobody else writes while it is between its read and its write, so IInv says that at most
one pass is active (`Exclusive`), that its copies are the rows (`BatchFresh`), that what
it is about to create is open nowhere (`FreshUnknown`), and that each transition is not
yet collected, collected, or handed over (`Accounted`). The refinement maps a step on a
row to a sighting or a miss of its identity, and all others to stutters. For
`FiresWhenHeldIfBrisk` the sightings of an open row are at most the evaluations in a
row, when its rule forgives no absence (`Held`). Assumed are
damping thresholds between one and the cap of the counters, and that NoRow is no row.

### What the server does on its own (`BackgroundProofs`)

`Dispatcher`, for any alerts, channels, drains, enqueues, limits and failures:
`QueueIsSound`, `Consistent`, and that it implements Outbox. The invariant says that one
drain is active (`DrainsExclude`), that the copies it has are rows that still wait, with
the attempts they were read with and in their order (`HandsAreFresh`), that the channel
has what the row says of it or one more while it is about to be recorded
(`RowsAreSound`), that a drain with a message has the earlier ones that never failed
(`NothingLeftBehind`, which is about the limit of due()), and why it gives one up
(`CausesHold`). The refinement forgets everything of a row but its status, its attempts
and how often the channel took it; all but the six steps that write such a row, an
insertion and retention are stutters. That the queue stays within its bound (`Room`)
needs finitely many alerts, channels and enqueues (`FinitenessAssumption`); the limits
are those of `LimitsAssumption`.

`ClusterIsKnown` has three parts. `Snapshots`, for any polls and versions: SQLite has
one transaction at a time (`Exclusive`), a transaction that is alone removes all there
is (`Thorough`), and the table is what its last writer left (`Whole`). `Discovery`: what
a sweep is past has a row (`Listed`), so that an override is an update of one and is not
lost; and as long as an agent reports and sweeps do not overlap, they find it
(`Noticed`). `Credentials`, for any interval of at least one: a report that must not be
refused (`Owed`) has its key among those known, on their way, or waited for (`Met`); and
keys that came after the newest one could be fetched are the published ones
(`Followed`).

### Accounts and sign-in (`SessionsProofs`)

`Accounts`, for any names and roles and finitely many accounts and requests in flight:
`Consistent`, `StaleSessionsExplained` and `OneAccountAliveUnlessOverlapped` together,
and that requests one at a time leave somebody who manages accounts (an action
property). A session under an old password is one whose revocation is still to come, one
opened by a login that was under way, or one of an account whose revocation was cut off
(`cut`) by a kill or by a statement that failed. As long as no two requests have overlapped, one that is past its guard and
its reads knows what they told it (`OneAtATime`); passwords never run out under those
who still set one (`PasswordsLast`).

`SignIn`, for any addresses, threshold and finitely many calls: `GuessesAreBounded` and
`RetryAfterIsKept`. The invariant bounds the rows of a window together with the calls
whose guess may still become one (`GuessesToCome`), and says that what was told when
nobody asked is about every row there is (`Waits`) and that who waited is alone until
its failures are counted (`Patient`). Assumed is WINDOW < COOLDOWN + DELAY: the code has
window and cooldown the same and a pause of half a second before a refusal, without
which the window would still take in its first moment.

### Settings and backups (`SettingsProofs`)

`Settings`, for any channels, secrets, keys and saves in flight: `WrittenThrough`,
`ClearOnlyFromSeed`, and that a kept secret survives a save (an action property). The
invariant says what has come about at each await of a save that runs alone (`InStep`):
the row before the document, the document before the configuration; and that every
document anywhere, in a row, in memory or in a save in flight, has nothing in the clear
but what the environment gave (`Good`), for sealed values are carried over from one to
the other. Assumed is, among others, that there is a detail that is not the empty one,
and that the secret of the environment is not one a caller gives.

`BackupScheduler`, for any expressions, lateness of ticks, restarts and edits:
`OncePerNamedMinute`. Between two ticks the invariant (`ScheduleInv`) relates the three
clocks, of the process, of the wall and of the minute last fired. Assumed is that the
clock is set back by less than a minute in all: otherwise one process may see a minute
twice with another between.

`Backups`, for any runs, seconds and failures: `RecordsAreTrue`. Between its
verification and its record a run depends on nobody writing its key (`VerifiedStays`),
which holds because keys are the second a run began in and are written by runs of that
second only (`KeysAreTrue`, `RowsFollow`); a row is open of a run in flight or for a
reason (`OpenIsExplained`).

### What comes in (`ReportsProofs`)

`HostIngest`, for any nodes, skews, requests and intervals: the type invariant,
`DeadLooksDead`, `WrittenStaysUnlessOverlapped` and `NeverBack`. The invariant follows a
reading downstream: nothing the server knows is younger than what the agent sent
(`Heard`), a write under way takes every row of its process with it (`Complete`), and,
as long as no request is given up and no two writes overlap, ages only grow from the
agent over memory and the write to the row (`Newest`, `Downstream`). Clocks that are
ahead are why the last speaks of clamped ages: clamping and growing older do not
commute, but an age clamped early is never below one clamped late.

`ReadOnceAndWhole` has three parts. `SessionLogs`, for any attempts, people and
executions, finitely many other lines and any surplus: a log has each piece of an entry
once, the second half right after the first (`IsLog`); what has been reported lies whole
before the offset (`Reported`); what lies before the offset was passed or cut in two, if
its surplus is a stamp at most, for then a slice that starts late by the surplus has lost
a stamp and nothing of what a pattern needs (`Covered`); what was sampled and still runs
is remembered (`Remembered`), and executions have one source at a time (`OneSource`).
`Sweeps`, for
any polls, interval, length of a second, of a tail and of a chunk: an item behind the
cursor, or behind the cursor a sweep set out from, is stored, about to be, or passed
over for a known reason (`CursorSound`, `SetsOut`), an answer is what the cluster had
when it was given (`AnswerSound`), and polls that do not overlap store only what is
behind the cursor, once (`OneAtATime`). `Export`, for any tables whose rows differ, any
length of a page and any cap: a row is in the table once (`NoTwins`); what is repeated
in the file, and what is in it and still ahead of the offset, are together no more than
what came meanwhile (`RepeatsArrived`); of a file that goes on, the rows that stayed
are written as far as the offset (`WrittenSoFar`); a row that is written comes after all
that stayed and stand before it (`HolesFree`); and a file that came to its end has them
all, or is full, or lacks the bracket because a query failed (`WholeAtLast`). Whether a
file is whole is asked of what its reader can tell (`LooksWhole`), not of what the server
knows.

`Series`, for any traffic, spans and number of points and finitely many machines:
`RatesAreHonest`. What a counter says differs from what its machine had moved by what
it has forgotten, and that only grows: a later sample never knows more of the past than
an earlier one, and all of it as long as the counter never started over
(`CountersForget`). So two samples are never further apart than the traffic between
them, and this carries over to the points of a line, for the largest counter of a bucket
was said by the time of the bucket's newest sample and after the point before it
(`IsPoint`, `SaidSince`), even where a sample was kept twice or a counter started over
within the bucket. The rows of a node are told apart by their number (`Numbered`), and
between any two times a machine moves at most so many times what it moved in its
fastest interval (`Paced`). The rest is about the operators the lines are made of: a set
put in order by counting what comes before each member (`Ranks`, `NumbersInOrder`,
`RowsInOrder`), sums over a set compared member by member (`SumAddsUp`, `SumsCompare`),
and division (`Dividing`, `DividingAtMost`). Rates come out even because SCALE is a
multiple of every span of time; averages are rounded down.

### What agents send (`AgentProofs`)

For any streams of readings, buffers, batches, restarts and faults: `Accounted` and
`ShoutsAreTrue`. The invariant of the first looks at a sender's rows as one sequence, those collected and not yet buffered
after those in the buffer, and says that they are in the order of reading, each once,
and that what was read and is not there is stored, refused or lost (`Sound`); while a
flush is under way the rows stand in the middle of a move, of one sender only, and a
request is of rows that are still the oldest (`Shape`). For the second, the last contact
is one interval further back than the outage at most, unless something else went wrong
since, and while the server is up it is of this cycle or the one before (`Patient`).

### The screens (`ScreensProofs`, `PagesProofs`)

`LiveClient`, for any finite set of sockets: every socket that is up and every timer
will be replaced by at most one connect (`Accounted`), a hidden tab has let go of both
(`LetsGo`), and one that is shown has a way back (`WayBack`) and polls unless a socket
is up (`FallsBack`). `LiveGateway`, for any sessions, pushes and cap of at least one:
sockets that arrive one at a time find the places there are (`Capped`), who was not
pinged or has answered is alive (`Answering`), and a push that may serve an ended
session had its answer before (`AnsweredBefore`). Together: `ConnectionsAreSound` and
the action property `OnlyTheLiveAreServed`. `FacetTable`, for any tables and pages: a
request whose effect was not cleaned up asks for what the URL says. `ScreenPolls`, for
any targets and requests: what is heeded is about the target (`OnTarget`), what is shown
was true once (`ShownIsOfThePast`), and an answer on its way is no older than it, unless
overtaken (`AnswersAreNewer`). Together: `ShowsWhatIsAskedFor`.

`StepUpPages`, for any names and requests: `SecretsReachTheirReader` and
`ListsAreCurrent`. Two requests about one name make it contested (`RivalsAreKnown`),
what a request has found at the server stays so unless its name is contested
(`FoundStays`), while a secret is shown no dialog is open (`IssuedCovers`), and for
whatever the list does not show yet a request is under way (`ListsFollow`).
`SettingsForms`, for any fields and values: `SavesWhatWasTyped` and `TestsWhatIsShown`.
The form is followed from the draft over the request to the document at the server
(`DraftFollows`, `SaveFollows`, `SavesKeep`) and to what a test is sent with
(`SavedFollows`, `TestFollows`).
`LiveFigures`, for any window and distance of points, any stored points in order and
any frames and answers that are late, lost or crossed: `ChartsMoveForward`. As long as
the server was not told out of order, what it holds and has sent is in the order it was
said (`SaidInOrder`) and ends with what it has recorded (`TailRecorded`); as long as
nothing crossed either, so are the points the page has (`CameInOrder`, `TailFollows`).
The other half is about the line alone: what the folds that filter and thin it return is
found by recursion over the set of positions (`Recursion`, `FoldExists`, `FoldGoesOn`),
for each a description without a fold (`OnlyIs`, `SpacedIs`, `ThinnedIs`), and from
these that a line in order is drawn in order (`LineGoesForward`).

### Only model-checked

All liveness properties, and only those: TLAPS has no rules for fairness here
(`ConditionsAreFollowed`, `EveryMessageEnds`, `SettlesOnTruth`, `RotationsAreFollowed`,
`GoesOnTrying`, `ComesToRest`, `WatchesWhatIsShown`, `EndedClientsLeave`, `ComesToShow`).

## What the models show beyond the findings

Things that a model had to admit, as exceptions named in its properties, where
comments read otherwise:

- Alerts: an absence short of resolveAfter leaves the count of sightings, so a
  pod-crashloop alert (2, 2) fires on seen, missed, seen, while
  `evaluator.ts:28` speaks of consecutive evaluations. Hence `FiresWhenHeldIfBrisk`.
- Dispatcher: a message that backs off is overtaken by its own recovery
  (`OvertakenOnlyAfterFailure`), which `db/notifications.repo.ts:50` calls worse than
  late; retention of alerts goes by the first sighting, so the alert behind a
  waiting message may be swept and the message given up.
- Schedule: lateness adds up, and a tick can step over a named minute
  (`EveryNamedMinuteRunsIfPunctual`). Nothing looks back.
- Backups: a backup by hand and one by the timer run together, although
  `scheduler.ts:71` wants no two uploads; two of one second write one object.
- Accounts: two accounts that delete each other, or are demoted at once, leave
  nobody; a login under way when the password changes opens a session under the
  old one (`StaleSessionsExplained`, "late"); and when the statement that revokes the
  sessions fails after the one that stores the hash (`auth/accounts.service.ts:106-108`,
  `auth/auth.service.ts:152-153`), the request is answered with an error, the password is
  the new one and the old sessions stay (`cut`), as after a kill.
- Sign-in: calls that overlap all count before any is recorded, so an address learns
  of as many guesses more as it has calls in progress (`GuessesAreBounded`). The window takes
  in its first moment, so that Retry-After is kept hangs on the pause before the answer.
- Settings: two saves of one document that overlap lose the first one's edit,
  and may leave the configuration older than the row until the next save or boot.
- Live client: a request to watch a node is sent when the socket opens, while the
  server listens only after two awaits (`http/ws.gateway.ts:85`, `:91`, `:103`). What comes before is
  dropped and not repeated until the node or the connection changes (`missed` in
  `WatchesWhatIsShown`), while the comment says it is "Re-sent whenever the socket comes
  back, because the server holds this per client." (`src/client/src/lib/live.ts:199-200`). Also, a
  hurried return leaves a second socket; a poll in flight when the
  socket opens keeps polling until the tab is hidden.
- Live gateway: sockets that arrive together pass the cap.
- Host ingest: the first write after a restart deletes the rows of nodes that
  have not reported yet, which is what the comment on the write wants to avoid.
- Snapshots: on PostgreSQL two polls of one kind that overlap leave the rows of both until
  the next one (`OneSnapshotUnlessCrossed`).
- Sweeps: an event stamped with the second in which a sweep falls is read again or
  passed over, and a failed insert loses what its sweep had read, for the cursor has
  moved (`core.integration.ts:126-130`; `TwiceIsExplained`, `SkippedIsExplained`).
- Credentials: only a fetch that succeeds spaces the next one
  (`sa-token.ts:64`, `:96-97`), while the comment speaks of a stream of bad tokens
  that must not become one of requests.
- Agent: a token that cannot be read, or a reading that throws, counts as a server that was
  not reached, though it is there (`excused` in `ShoutsAreTrue`); a failed shout
  is not repeated before the hour is over; rows of login attempts are only sent again
  when another attempt comes.
- Session logs: offsets count bytes and slices characters
  (`src/agent/src/session-collector.ts:300`, `:306-307`, and `:169-176` for auditd), so each reading drops as many
  characters of what is new as the file has bytes too many. Up to the length of a stamp that
  costs nothing, for the patterns of `sshd-log.ts` are not anchored; with more, the first
  lines of every reading are not reported until the log is rotated (`blurred`). Lines cut in two by a reading
  are not recognised in either half (`excused`); a sample of /proc that fails makes the next one report everything anew.
- Series: a bucket's largest counter is that of its newest sample
  (`node-samples.repo.ts:90-92`) only while the counter does not start over within it.
- Export: an offset over a table that grows repeats a row for each that came. The header
  that says a file was cut short is set after the first byte
  (`http/query.controller.ts:226`), when headers are gone: `setHeader` throws and the framework
  ends the response, and a full file looks as whole as any other, a JSON document with
  its last bracket included (`ShortFilesSaySo`, the finding of `export_short`). A CSV ends
  the same way when a query fails after the first row; JSON is then without its bracket.
- Facet table: the timer of a text box has the parameters of the render in which it was
  typed, so that a filter chosen meanwhile is undone when typing stops.
- Screen polls: the key of `src/client/src/app/(dash)/routes/[id]/page.tsx:61` is a new object at each rendering,
  so its effect (`:108`) runs again after every answer: requests follow each other without the
  fifteen seconds in between; a request that fails shows "No route named" (`:113`).
- Dialogs: the answer to a dialog that was cancelled closes the next one, and may
  cover a secret that is shown. A secret that is in force may have been shown to nobody:
  the server could not be reached, it failed after the write (`auth/accounts.service.ts:81`,
  `:108`, `:110`: a 500), or they left the page; all three are `GivesUp`.
- Forms: a document that comes late replaces what was typed; typing back what was
  there enables the test of a channel whose save is still under way.
- Live figures: after a restart, a node whose kubelet has not answered yet is shown as
  outside the cluster, and one whose kubelet reading is stale is not shown even if
  its agent reports (`live-cache.ts:188-194`); a chart stays with the agent's history
  when the agent is quiet; and its newest point may have the time of the one before,
  for the last reading is told from the last one kept by its identity and not by its
  time (`chart-data.ts:47-48`).

## What the properties excuse

Of these hazards in PROJECT.json a part is named as an exception in a property, or
permitted by it, so that the property would not tell if that part became worse:

| hazard | excused or permitted |
|---|---|
| two backups share one flag | that the flag goes down while the other one runs on |
| two saves of one document | what the first of them changed, its secrets included (`KeptSurvivesUnlessOverlapped`, `WrittenThrough`) |
| sockets that arrive together | the cap (`crowded`) |
| a hurried return to the tab | one socket more for each return |
| a snapshot made from memory | the rows of nodes a new process has not heard of |
| clocks that are ahead | a reading stored without the clamp would break none of the properties |
| a failed shout | that it is not repeated within the hour |
| a key set that cannot be had | that every bad token asks for it again |
| timers that write the URL | a filter chosen while a typing timer runs |
| a page that the sweep leaves behind | while the answers of count and page are torn (`torn`) |
| answers out of order in charts | points drawn backwards (`crossed`, `disordered`) |
| a dialog answered under another | a covered secret counts as seen, a dead one is of a contested name |
| a document that comes late | what was typed before it came |

## What is not modelled, and the plan

Not modelled, with reasons, under "components" in PROJECT.json. Every
component has a module now. What is left out of them is I/O, conversion and
rendering: the grammars of the parsers (`src/agent/src/sshd-log.ts`, `auditd.ts`,
`integrations/traefik/access-log.ts`), `config.ts`, which reads the environment once,
migrations, the filters by column of a query, CSV quoting, hashing and sealing, the drawing of
machines, menus and charts, and the details of a watched node. None of them
keeps state between two awaits.

Left for later, in this order:

1. The composition of Agent and HostIngest, of which `InOrder` and `abandoned` are what the
   sender implements.
2. `collect/agent-status.ts` and the grammar of schedules against reference
   definitions.
