---------------------------- MODULE SessionLogs -----------------------------
(***************************************************************************)
(* SessionCollector, the part of the agent that reads who tried to get in  *)
(* and what runs in the sessions: agent/src/session-collector.ts, with     *)
(* sessions.ts, sshd-log.ts, auditd.ts and commands.ts.  Mode `full`, with *)
(* an auth log and auditd's log.                                           *)
(*                                                                         *)
(* A log is a sequence of pieces.  A line of the auth log is a stamp, the  *)
(* time and the name of the machine, and the two halves of what it says;   *)
(* an execution in auditd's is a SYSCALL and an EXECVE record.  The        *)
(* patterns of sshd-log.ts are anchored nowhere: a line is recognised      *)
(* without its stamp, but not without a half of what it says.              *)
(*                                                                         *)
(* A piece is as many characters as a stamp has.  A line of somebody else  *)
(* may hold characters of several bytes, as sudo's for a command with a    *)
(* name in Hangul; its bytes exceed its characters by SURPLUS pieces, and  *)
(* the surplus of a file is that of all its lines.  Logs are written,      *)
(* rotated and read at any time; a read takes the whole file.              *)
(***************************************************************************)
EXTENDS Naturals, Sequences, Functions, FiniteSets

CONSTANTS
  Attempts,   \* lines of sshd about an attempt
  Noise,      \* lines of others, with characters of several bytes
  People,     \* sessions
  Execs,      \* executions in them
  OwnerOf,    \* execution -> its session
  Unset,      \* an offset that is null
  SURPLUS,    \* pieces by which the bytes of such a line exceed its characters
  MaxFaults   \* bound: rotations, restarts of the agent, reads that fail

SessionLogsAssumption ==
  /\ IsFiniteSet(Noise) /\ Noise \cap Execs = {}
  /\ SURPLUS \in Nat

Logs == {"auth", "audit"}

VARIABLES
  text,      \* log -> what the file holds now
  offset,    \* #logOffset, #auditOffset
  sessions,  \* who is logged in
  alive,     \* executions that run
  started,   \* executions that have started
  written,   \* lines of the auth log begun
  snap,      \* the sessions this collect() has read, or Unset between collects
  seen,      \* #seen of CommandDiff
  readable,  \* auditd's log can be read
  byLog,     \* history: attempts reported
  byAudit,   \* history: executions reported from auditd's log
  bySample,  \* history: executions reported by the sampler
  twice,     \* history: reported more than once by one of them
  again,     \* history: executions a sampler had reason to report again
  switched,  \* history: auditd's log became readable, or ceased to be
  passed,    \* history: entries that were complete in a file when it was read
  excused,   \* history: those of them with a reason not to be reported
  blurred,   \* history: those read in a file whose surplus exceeds a stamp
  partial,   \* history: log -> entries half written when it was last read
  rotated,   \* history: logs rotated since they were last read
  faults     \* history: number of faults

agent == <<offset, snap, seen>>
reports == <<byLog, byAudit, bySample, twice>>
reading == <<passed, excused, blurred, partial, rotated>>
host == <<text, sessions, alive, started, written, readable>>
vars == <<agent, reports, reading, host, again, switched, faults>>

-----------------------------------------------------------------------------
(* Files.                                                                  *)

Stamp(e) == <<e, 0>>
First(e) == <<e, 1>>
Second(e) == <<e, 2>>

Entries(t) == {piece[1] : piece \in Range(t)}

\* What parseSshdLine and the reader of auditd's log recognise.
Complete(t) == {e \in Entries(t) : First(e) \in Range(t) /\ Second(e) \in Range(t)}

Wide(t) == {e \in Noise : First(e) \in Range(t)}
Surplus(t) == SURPLUS * Cardinality(Wide(t))

\* Buffer.byteLength(text).
Size(t) == Len(t) + Surplus(t)

\* Mutant: one piece too far.
Slice_OffByOne(t, o) == SubSeq(t, o + 2, Len(t))

\* text.slice(offset), which counts characters.
Slice(t, o) == SubSeq(t, o + 1, Len(t))

\* A read that only notes where the file ends: the first one, or the file is
\* shorter than what was read of it.
Baseline(t, o) == o = Unset \/ Size(t) < o

Start(o) == IF o = Unset THEN 0 ELSE o

\* The entries a read recognises in what is new.
Fresh(t, o) == IF Baseline(t, o) THEN {} ELSE Complete(Slice(t, Start(o)))

\* What a read of log l does to the offset and what it leaves on record: which
\* entries it passes, and which of them it may miss; those of `extra` it is not
\* to report.
Passes(l, extra) ==
  LET new == Complete(text[l]) \ passed
      may == IF offset[l] = Unset \/ l \in rotated
               THEN new ELSE new \cap (partial[l] \cup extra) IN
  /\ offset' = [offset EXCEPT ![l] = Size(text[l])]
  /\ passed' = passed \cup new
  /\ excused' = excused \cup may
  /\ blurred' = IF Surplus(text[l]) <= 1 THEN blurred ELSE blurred \cup new
  /\ partial' = [partial EXCEPT ![l] = Entries(text[l]) \ Complete(text[l])]
  /\ rotated' = rotated \ {l}

-----------------------------------------------------------------------------
(* collect().                                                              *)

\* #readAccess and #readSessions, side by side.
ReadAccess ==
  /\ snap = Unset
  /\ snap' = sessions
  /\ LET news == Fresh(text["auth"], offset["auth"]) \cap Attempts IN
     /\ byLog' = byLog \cup news
     /\ twice' = twice \cup (news \cap byLog)
  /\ Passes("auth", {})
  /\ UNCHANGED <<host, seen, byAudit, bySample, again, switched, faults>>

\* The auth log cannot be read.
ReadAccessFails ==
  /\ snap = Unset
  /\ faults < MaxFaults
  /\ faults' = faults + 1
  /\ snap' = sessions
  /\ UNCHANGED <<host, offset, seen, reports, reading, again, switched>>

\* "Not full, or nobody is on": no command is read, and auditd's log waits.
NoCommands ==
  /\ snap = {}
  /\ snap' = Unset
  /\ UNCHANGED <<host, offset, seen, reports, reading, again, switched, faults>>

\* Executions of the sessions just read.
Known == {e \in Execs : OwnerOf[e] \in snap}

\* #readAudit.
ReadAudit ==
  /\ snap \notin {Unset, {}}
  /\ readable
  /\ snap' = Unset
  /\ LET news == Fresh(text["audit"], offset["audit"]) \cap Known IN
     /\ byAudit' = byAudit \cup news
     /\ twice' = twice \cup (news \cap byAudit)
  /\ Passes("audit", Execs \ Known)
  /\ UNCHANGED <<host, seen, byLog, bySample, again, switched, faults>>

\* CommandDiff.next: what is new since the last sample, which is then what is
\* remembered.
Diff(running) ==
  LET news == running \ seen IN
  /\ bySample' = bySample \cup news
  /\ twice' = twice \cup (news \cap bySample)
  /\ seen' = running

\* readSessionCommands: the processes beneath the sessions just read.
Sample ==
  /\ snap \notin {Unset, {}}
  /\ ~readable
  /\ snap' = Unset
  /\ Diff(alive \cap Known)
  /\ UNCHANGED <<host, offset, byLog, byAudit, reading, again, switched, faults>>

\* /proc or its boot time cannot be read: the sample is empty.
SampleFails ==
  /\ snap \notin {Unset, {}}
  /\ ~readable
  /\ faults < MaxFaults
  /\ faults' = faults + 1
  /\ snap' = Unset
  /\ Diff({})
  /\ again' = again \cup alive
  /\ UNCHANGED <<host, offset, byLog, byAudit, reading, switched>>

\* A new process of the agent.
Restart ==
  /\ faults < MaxFaults
  /\ faults' = faults + 1
  /\ offset' = [l \in Logs |-> Unset]
  /\ snap' = Unset /\ seen' = {}
  /\ again' = again \cup alive
  /\ UNCHANGED <<host, reports, reading, switched>>

-----------------------------------------------------------------------------
(* The machine.                                                            *)

Written(l, pieces) == text' = [text EXCEPT ![l] = @ \o pieces]

Begin(e) ==
  /\ e \notin written
  /\ written' = written \cup {e}
  /\ Written("auth", <<Stamp(e), First(e)>>)
  /\ UNCHANGED <<sessions, alive, started, readable, agent, reports, reading, again,
                 switched, faults>>

\* The rest of a line or event that was last to be written to its log.
WriteRest(l) ==
  /\ text[l] # <<>>
  /\ LET last == text[l][Len(text[l])] IN last[2] = 1 /\ Written(l, <<Second(last[1])>>)
  /\ UNCHANGED <<sessions, alive, started, written, readable, agent, reports, reading,
                 again, switched, faults>>

Exec(e) ==
  /\ e \notin started /\ OwnerOf[e] \in sessions
  /\ started' = started \cup {e}
  /\ alive' = alive \cup {e}
  /\ Written("audit", <<First(e)>>)
  /\ UNCHANGED <<sessions, written, readable, agent, reports, reading, again, switched,
                 faults>>

Exit(e) ==
  /\ e \in alive
  /\ alive' = alive \ {e}
  /\ UNCHANGED <<text, sessions, started, written, readable, agent, reports, reading,
                 again, switched, faults>>

LogIn(p) ==
  /\ p \notin sessions
  /\ sessions' = sessions \cup {p}
  /\ UNCHANGED <<text, alive, started, written, readable, agent, reports, reading, again,
                 switched, faults>>

LogOut(p) ==
  /\ p \in sessions
  /\ sessions' = sessions \ {p}
  /\ alive' = {e \in alive : OwnerOf[e] # p}
  /\ UNCHANGED <<text, started, written, readable, agent, reports, reading, again,
                 switched, faults>>

\* logrotate.
Rotate(l) ==
  /\ text[l] # <<>>
  /\ faults < MaxFaults
  /\ faults' = faults + 1
  /\ text' = [text EXCEPT ![l] = <<>>]
  /\ rotated' = rotated \cup {l}
  /\ UNCHANGED <<sessions, alive, started, written, readable, agent, reports, passed,
                 excused, blurred, partial, again, switched>>

\* Permissions change, or auditd is installed.
SetReadable ==
  /\ faults < MaxFaults
  /\ faults' = faults + 1
  /\ readable' = ~readable
  /\ switched' = TRUE
  /\ UNCHANGED <<text, sessions, alive, started, written, agent, reports, reading, again>>

-----------------------------------------------------------------------------
Init ==
  /\ text = [l \in Logs |-> <<>>]
  /\ offset = [l \in Logs |-> Unset]
  /\ sessions = {} /\ alive = {} /\ started = {} /\ written = {}
  /\ snap = Unset /\ seen = {}
  /\ readable \in BOOLEAN
  /\ byLog = {} /\ byAudit = {} /\ bySample = {} /\ twice = {}
  /\ again = {} /\ switched = FALSE
  /\ passed = {} /\ excused = {} /\ blurred = {}
  /\ partial = [l \in Logs |-> {}] /\ rotated = {}
  /\ faults = 0

Next ==
  \/ ReadAccess \/ ReadAccessFails \/ NoCommands \/ ReadAudit \/ Sample \/ SampleFails
  \/ Restart
  \/ \E e \in Attempts \cup Noise : Begin(e)
  \/ \E l \in Logs : WriteRest(l) \/ Rotate(l)
  \/ \E e \in Execs : Exec(e) \/ Exit(e)
  \/ \E p \in People : LogIn(p) \/ LogOut(p)
  \/ SetReadable

Spec == Init /\ [][Next]_vars

-----------------------------------------------------------------------------
(* Properties.                                                             *)

\* Nothing is news twice: "importing a whole log on every restart would backdate
\* thousands of attempts", "a process is news once", "running both would report
\* the same execution twice".  An execution is sampled again only after a sample
\* that failed or a restart, and reported from both sources only when the
\* source changed.
NewsOnce ==
  /\ twice \subseteq again
  /\ byAudit \cap bySample # {} => switched

\* What was complete in a log when it was read has been reported, but for what
\* was there before the first read, was cut in two by a read, follows a rotation,
\* was run in a session that is over, or lies in a file whose bytes exceed its
\* characters by more than the stamp of a line: #logOffset is in bytes
\* (Buffer.byteLength) and text.slice() counts characters, so every read drops as
\* many characters of what is new as the file had bytes too many.
MissedIsExplained ==
  passed \subseteq byLog \cup byAudit \cup excused \cup blurred \cup Noise
=============================================================================
