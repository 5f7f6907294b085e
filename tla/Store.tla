------------------------------- MODULE Store -------------------------------
(***************************************************************************)
(* The monitor's Store (core/receiver/store.go): the per-agent state map    *)
(* in memory, its persisted copy state.json, and the daily JSONL files.     *)
(* Every operation holds Store.mu from its first to its last access, so     *)
(* each is one step.  A crash inside an operation leaves what a failed save *)
(* followed by a crash leaves: the line written, state.json as it was.      *)
(***************************************************************************)
EXTENDS Integers

CONSTANTS
    Agents,         \* agent ids; positive numbers, States() sorts by them
    MaxTime,        \* bound: the last instant of the model's clock
    DayLength,      \* clock units in a UTC day
    RetentionDays   \* retention_days; 0 or less disables the cleanup

ASSUME StoreAssumption ==
    /\ Agents \subseteq Nat \ {0}
    /\ MaxTime \in Nat \ {0}
    /\ DayLength \in Nat \ {0}
    /\ RetentionDays \in Int

VARIABLES
    states,   \* Store.states: the map in memory
    disk,     \* the content of state.json (no file: every agent absent)
    files     \* the JSONL files that exist, as <<agent, day>>

storeVars == <<states, disk, files>>

(***************************************************************************)
(* Values                                                                  *)
(***************************************************************************)
Zero == 0                       \* time.Time{}
Instant == 0 .. MaxTime         \* Zero or a reading of the clock
NotifyState == {"none", "down", "up"}

AgentState == [known: BOOLEAN, lastSeen: Instant, down: BOOLEAN,
               downSince: Instant, notified: NotifyState]

\* known = FALSE: the map has no entry for the agent.
Absent == [known |-> FALSE, lastSeen |-> Zero, down |-> FALSE,
           downSince |-> Zero, notified |-> "none"]

NoStates == [a \in Agents |-> Absent]

StoreTypeOK ==
    /\ states \in [Agents -> AgentState]
    /\ disk \in [Agents -> AgentState]
    /\ files \subseteq Agents \X Nat

StoreInit ==
    /\ states = NoStates
    /\ disk = NoStates
    /\ files = {}

(***************************************************************************)
(* Helpers                                                                 *)
(***************************************************************************)
Day(t) == t \div DayLength

reportPath(a, now) == <<a, Day(now)>>

\* A file is older than the cutoff when the midnight its name stands for is.
MutExpiredOffByOne(f, now) == f[2] * DayLength <= now - (RetentionDays - 1) * DayLength

Expired(f, now) == f[2] * DayLength < now - RetentionDays * DayLength

\* What cleanupLocked leaves of the files fs.  "stuck" are files that
\* os.ReadDir or os.Remove failed on: those errors are ignored.
cleanupLocked(fs, now, stuck) ==
    IF RetentionDays <= 0
      THEN fs
      ELSE {f \in fs : ~Expired(f, now) \/ f \in stuck}

\* Temp file plus rename: state.json is replaced as a whole or not at all.
saveStateLocked(saved) == disk' = IF saved THEN states' ELSE disk

(***************************************************************************)
(* Operations                                                              *)
(***************************************************************************)

\* Append, the report file cannot be opened: nothing changes.
AppendOpenFails == UNCHANGED storeVars

\* Append, Write or Close fails: the file may exist by then, the map is as it was.
AppendWriteFails(a, now) ==
    /\ files' = files \union {reportPath(a, now)}
    /\ UNCHANGED <<states, disk>>

MutAppendResetsNotified(a, now, saved, stuck) ==
    /\ states' = [states EXCEPT ![a] = [Absent EXCEPT !.known = TRUE, !.lastSeen = now]]
    /\ saveStateLocked(saved)
    /\ LET written == files \union {reportPath(a, now)}
       IN  files' = IF saved THEN cleanupLocked(written, now, stuck) ELSE written

\* Append, the line is written: the entry is created or refreshed, then saved,
\* and only after a successful save are old files removed.
AppendStored(a, now, saved, stuck) ==
    /\ states' = [states EXCEPT ![a].known = TRUE, ![a].lastSeen = now]
    /\ saveStateLocked(saved)
    /\ LET written == files \union {reportPath(a, now)}
       IN  files' = IF saved THEN cleanupLocked(written, now, stuck) ELSE written

MutSetLivenessDropsNotified(a, down, downSince, notified, saved) ==
    /\ IF states[a].known
         THEN states' = [states EXCEPT ![a].down = down, ![a].downSince = downSince]
         ELSE UNCHANGED states
    /\ IF states[a].known THEN saveStateLocked(saved) ELSE UNCHANGED disk
    /\ UNCHANGED files

\* SetLiveness: an unknown agent is an error, the map changes before the save.
SetLiveness(a, down, downSince, notified, saved) ==
    /\ IF states[a].known
         THEN /\ states' = [states EXCEPT ![a].down = down,
                                          ![a].downSince = downSince,
                                          ![a].notified = notified]
              /\ saveStateLocked(saved)
         ELSE UNCHANGED <<states, disk>>
    /\ UNCHANGED files

\* EnsureAgent: an entry for an agent the configuration lists.
EnsureAgent(a, saved) ==
    /\ IF states[a].known
         THEN UNCHANGED <<states, disk>>
         ELSE /\ states' = [states EXCEPT ![a].known = TRUE]
              /\ saveStateLocked(saved)
    /\ UNCHANGED files

\* NewStore / loadState: the map is what state.json holds.
loadState ==
    /\ states' = disk
    /\ UNCHANGED <<disk, files>>

=============================================================================
