------------------------------ MODULE Monitor ------------------------------
(***************************************************************************)
(* The monitor process (cmd/heartpost-monitor) as one system: concurrent    *)
(* report handlers, the Checker goroutine and its ticker, the Store they    *)
(* share, the webhook the Checker calls, and the process's own life: start, *)
(* shutdown, crash, restart from state.json.                                *)
(*                                                                         *)
(* The Checker takes a snapshot of the Store, then judges one agent at a    *)
(* time; the webhook call and the write-back of each verdict are steps of   *)
(* their own, with handlers and crashes in between.                         *)
(***************************************************************************)
EXTENDS Store

CONSTANTS
    Handlers,          \* report requests that may be in flight at once
    PerAgent,          \* Thresholds.PerAgent; 0 where the agent has no entry
    DefaultThreshold,  \* Thresholds.Default; 0 when unset
    BuiltinThreshold,  \* DefaultIntervalMultiplier * 5 minutes, in clock units
    Configs,           \* the agent key sets a (re)start may find in its config
    MaxCrashes,        \* bound: how often the process may end
    Faults             \* failures considered: "save", "write", "hook", "lost"

ASSUME MonitorAssumption ==
    /\ PerAgent \in [Agents -> Int]
    /\ DefaultThreshold \in Int
    /\ BuiltinThreshold \in Nat \ {0}
    /\ Configs \subseteq SUBSET Agents
    /\ MaxCrashes \in Nat
    /\ Faults \subseteq {"save", "write", "hook", "lost"}

VARIABLES
    clock,    \* the wall clock; never Zero
    phase,    \* of the process: "stopped", "starting", "running", "stopping"
    keys,     \* Config.AgentKeys of the running process
    boot,     \* configured agents run() has not passed to EnsureAgent yet
    slot,     \* per handler: the accepted report waiting for Store.mu
    ticker,   \* time.Ticker's channel, capacity 1; Zero when empty
    checker,  \* Check's local variables
    \* What an observer of the webhook knows:
    acked,    \* per agent: the last alert the webhook confirmed
    bell,     \* per agent: flips with every confirmation
    seen,     \* per agent: the last alert the webhook received
    forgot,   \* per agent: a restart lost the record of the last confirmation
    crashes

processVars == <<phase, keys, boot, slot, ticker, checker>>
observerVars == <<acked, bell, seen, forgot>>
vars == <<storeVars, processVars, observerVars, clock, crashes>>

(***************************************************************************)
(* Judging one agent                                                       *)
(***************************************************************************)
Kind == {"none", "down", "recovered"}

For(a) ==
    IF PerAgent[a] > 0 THEN PerAgent[a]
    ELSE IF DefaultThreshold > 0 THEN DefaultThreshold ELSE BuiltinThreshold

\* The value of Notified that stands for a confirmed event.
NotifiedAs(kind) == IF kind = "down" THEN "down" ELSE "up"

\* Whether to alert depends on what was alerted last, not on Down.
EventKind(down, notified) ==
    IF down /\ notified # "down" THEN "down"
    ELSE IF ~down /\ notified = "down" THEN "recovered" ELSE "none"

Silent(st, a, now) == now - st.lastSeen > For(a)

Verdict == [agent: Agents \union {0}, down: BOOLEAN, downSince: Instant,
            notified: NotifyState, kind: Kind]

NoVerdict == [agent |-> 0, down |-> FALSE, downSince |-> Zero,
              notified |-> "none", kind |-> "none"]

MutJudgeMovesDownSince(st, a, now) ==
    LET down == Silent(st, a, now)
    IN  [agent |-> a, down |-> down,
         downSince |-> IF down THEN now ELSE Zero,
         notified |-> st.notified,
         kind |-> EventKind(down, st.notified)]

\* Check's verdict on the snapshot entry st of agent a.
Judge(st, a, now) ==
    LET down == Silent(st, a, now)
    IN  [agent |-> a, down |-> down,
         downSince |-> IF ~down THEN Zero
                       ELSE IF st.downSince = Zero THEN now ELSE st.downSince,
         notified |-> st.notified,
         kind |-> EventKind(down, st.notified)]

SameLiveness(st, v) ==
    st.down = v.down /\ st.downSince = v.downSince /\ st.notified = v.notified

(***************************************************************************)
(* Process-local values                                                    *)
(***************************************************************************)
NoRequest == [agent |-> 0, now |-> Zero]
Request == [agent: Agents, now: Instant \ {Zero}]

CheckerIdle == [pc |-> "wait", now |-> Zero, todo |-> {}, snap |-> NoStates,
                verdict |-> NoVerdict]
CheckerState == [pc: {"wait", "scan", "notify", "write"}, now: Instant,
                 todo: SUBSET Agents, snap: [Agents -> AgentState],
                 verdict: Verdict]

Init ==
    /\ StoreInit
    /\ clock = 1
    /\ phase = "stopped"
    /\ keys = {}
    /\ boot = {}
    /\ slot = [h \in Handlers |-> NoRequest]
    /\ ticker = Zero
    /\ checker = CheckerIdle
    /\ acked = [a \in Agents |-> "none"]
    /\ bell = [a \in Agents |-> FALSE]
    /\ seen = [a \in Agents |-> "none"]
    /\ forgot = [a \in Agents |-> FALSE]
    /\ crashes = 0

\* A failure only the environment decides on.
MayFail(fault, ok) == ok \/ fault \in Faults

Alive == phase \in {"running", "stopping"}

(***************************************************************************)
(* The process's life (main.go, run)                                        *)
(***************************************************************************)

\* Load the configuration and NewStore.
Start ==
    /\ phase = "stopped"
    /\ \E k \in Configs : keys' = k /\ boot' = k
    /\ loadState
    /\ phase' = "starting"
    /\ UNCHANGED <<slot, ticker, checker, observerVars, clock, crashes>>

\* The process is gone: memory, goroutines and requests in flight with it.
ProcessEnds ==
    /\ phase' = "stopped"
    /\ states' = NoStates
    /\ keys' = {}
    /\ boot' = {}
    /\ slot' = [h \in Handlers |-> NoRequest]
    /\ ticker' = Zero
    /\ checker' = CheckerIdle
    /\ forgot' = [a \in Agents |-> disk[a].notified # acked[a]]
    /\ UNCHANGED <<disk, files, acked, bell, seen, clock>>

\* One iteration of run's loop over AgentKeys.
Ensure(a) ==
    /\ phase = "starting"
    /\ a \in boot
    /\ EnsureAgent(a, TRUE)
    /\ boot' = boot \ {a}
    /\ UNCHANGED <<phase, keys, slot, ticker, checker, observerVars, clock,
                   crashes>>

\* EnsureAgent cannot save the entry it added: run returns the error.
EnsureFails(a) ==
    /\ phase = "starting"
    /\ a \in boot
    /\ ~states[a].known
    /\ MayFail("save", FALSE)
    /\ crashes < MaxCrashes
    /\ crashes' = crashes + 1
    /\ ProcessEnds

\* go checker.Run and ListenAndServe.
Serve ==
    /\ phase = "starting"
    /\ boot = {}
    /\ phase' = "running"
    /\ UNCHANGED <<storeVars, keys, boot, slot, ticker, checker, observerVars,
                   clock, crashes>>

\* SIGTERM: no new connections; handlers may finish, the Checker is not joined.
Shutdown ==
    /\ phase = "running"
    /\ crashes < MaxCrashes
    /\ phase' = "stopping"
    /\ UNCHANGED <<storeVars, keys, boot, slot, ticker, checker, observerVars,
                   clock, crashes>>

\* The process ends: killed, or run returns (Shutdown waits at most 10 seconds,
\* and for handlers only).
Crash ==
    /\ phase # "stopped"
    /\ crashes < MaxCrashes
    /\ crashes' = crashes + 1
    /\ ProcessEnds

\* After a shutdown the process does end.
Exit == phase = "stopping" /\ Crash

(***************************************************************************)
(* Report handlers (handler.go, ServeHTTP; the reports it accepts)          *)
(***************************************************************************)

\* The checks pass and "now" is read; the handler has yet to get Store.mu.
Accept(h, a) ==
    /\ phase = "running"
    /\ slot[h] = NoRequest
    /\ a \in keys
    /\ slot' = [slot EXCEPT ![h] = [agent |-> a, now |-> clock]]
    /\ UNCHANGED <<storeVars, phase, keys, boot, ticker, checker, observerVars,
                   clock, crashes>>

\* Store.Append with the "now" read earlier, then the response.
AppendReport(h) ==
    /\ Alive
    /\ slot[h] # NoRequest
    /\ LET a == slot[h].agent
           now == slot[h].now
       IN  \/ \E saved \in BOOLEAN :
                /\ MayFail("save", saved)
                /\ \E stuck \in {{}} \union
                     (IF "write" \in Faults THEN {files} ELSE {}) :
                       AppendStored(a, now, saved, stuck)
           \/ MayFail("write", FALSE) /\ AppendOpenFails
           \/ MayFail("write", FALSE) /\ AppendWriteFails(a, now)
    /\ slot' = [slot EXCEPT ![h] = NoRequest]
    /\ UNCHANGED <<phase, keys, boot, ticker, checker, observerVars, clock,
                   crashes>>

(***************************************************************************)
(* The Checker (liveness.go)                                                *)
(***************************************************************************)

\* The ticker drops a tick while the channel still holds one.
TickerFire ==
    /\ Alive
    /\ ticker = Zero
    /\ ticker' = clock
    /\ UNCHANGED <<storeVars, phase, keys, boot, slot, checker, observerVars,
                   clock, crashes>>

\* Run receives the tick (select may prefer it to ctx.Done) and Check takes
\* its snapshot; "now" is the time of the tick.
CheckBegin ==
    /\ Alive
    /\ checker.pc = "wait"
    /\ ticker # Zero
    /\ ticker' = Zero
    /\ checker' = [CheckerIdle EXCEPT !.pc = "scan", !.now = ticker,
                                      !.todo = {a \in Agents : states[a].known},
                                      !.snap = states]
    /\ UNCHANGED <<storeVars, phase, keys, boot, slot, observerVars, clock,
                   crashes>>

\* The next agent of the sorted snapshot.
FirstOf(todo, a) == a \in todo /\ \A b \in todo : a <= b

\* Never heard from, or nothing to alert and nothing to write.
ScanSkip(a) ==
    /\ Alive
    /\ checker.pc = "scan"
    /\ FirstOf(checker.todo, a)
    /\ LET st == checker.snap[a]
           v == Judge(st, a, checker.now)
       IN  \/ st.lastSeen = Zero
           \/ v.kind = "none" /\ SameLiveness(st, v)
    /\ checker' = [checker EXCEPT !.todo = @ \ {a}]
    /\ UNCHANGED <<storeVars, phase, keys, boot, slot, ticker, observerVars,
                   clock, crashes>>

\* A transition to alert, or only Down / DownSince to write back.
ScanJudge(a) ==
    /\ Alive
    /\ checker.pc = "scan"
    /\ FirstOf(checker.todo, a)
    /\ LET st == checker.snap[a]
           v == Judge(st, a, checker.now)
       IN  /\ st.lastSeen # Zero
           /\ v.kind # "none" \/ ~SameLiveness(st, v)
           /\ checker' = [checker EXCEPT
                            !.pc = IF v.kind # "none" THEN "notify" ELSE "write",
                            !.verdict = v]
    /\ UNCHANGED <<storeVars, phase, keys, boot, slot, ticker, observerVars,
                   clock, crashes>>

MutNotifyAckedNotAdvanced ==
    /\ Alive
    /\ checker.pc = "notify"
    /\ LET a == checker.verdict.agent
           n == NotifiedAs(checker.verdict.kind)
       IN  /\ checker' = [checker EXCEPT !.pc = "write"]
           /\ acked' = [acked EXCEPT ![a] = n]
           /\ bell' = [bell EXCEPT ![a] = ~@]
           /\ seen' = [seen EXCEPT ![a] = n]
           /\ forgot' = [forgot EXCEPT ![a] = FALSE]
    /\ UNCHANGED <<storeVars, phase, keys, boot, slot, ticker, clock, crashes>>

\* The webhook answers 2xx.
NotifyAcked ==
    /\ Alive
    /\ checker.pc = "notify"
    /\ LET a == checker.verdict.agent
           n == NotifiedAs(checker.verdict.kind)
       IN  /\ checker' = [checker EXCEPT !.pc = "write", !.verdict.notified = n]
           /\ acked' = [acked EXCEPT ![a] = n]
           /\ bell' = [bell EXCEPT ![a] = ~@]
           /\ seen' = [seen EXCEPT ![a] = n]
           /\ forgot' = [forgot EXCEPT ![a] = FALSE]
    /\ UNCHANGED <<storeVars, phase, keys, boot, slot, ticker, clock, crashes>>

\* A shutdown cancels the context of the call.
NotifyMayFail(fault) == phase = "stopping" \/ MayFail(fault, FALSE)

MutNotifyFailsAdvances ==
    /\ Alive
    /\ checker.pc = "notify"
    /\ NotifyMayFail("hook")
    /\ checker' = [checker EXCEPT !.pc = "write",
                        !.verdict.notified = NotifiedAs(checker.verdict.kind)]
    /\ UNCHANGED <<storeVars, phase, keys, boot, slot, ticker, observerVars,
                   clock, crashes>>

\* Notify returns an error: the POST was lost, or it arrived and the answer was
\* lost, late, cancelled or not 2xx.  Notified is not advanced.
NotifyFails ==
    /\ Alive
    /\ checker.pc = "notify"
    /\ LET a == checker.verdict.agent
           n == NotifiedAs(checker.verdict.kind)
       IN  \/ NotifyMayFail("hook") /\ UNCHANGED seen
           \/ NotifyMayFail("lost") /\ seen' = [seen EXCEPT ![a] = n]
    /\ checker' = [checker EXCEPT !.pc = "write"]
    /\ UNCHANGED <<storeVars, phase, keys, boot, slot, ticker, acked, bell, forgot,
                   clock, crashes>>

\* SetLiveness; its error is only logged.
WriteBack(saved) ==
    /\ Alive
    /\ checker.pc = "write"
    /\ MayFail("save", saved)
    /\ LET v == checker.verdict
       IN  /\ SetLiveness(v.agent, v.down, v.downSince, v.notified, saved)
           /\ checker' = [checker EXCEPT !.pc = "scan", !.todo = @ \ {v.agent},
                                         !.verdict = NoVerdict]
    /\ UNCHANGED <<phase, keys, boot, slot, ticker, observerVars, clock, crashes>>

\* Check returns; Run waits for the next tick.
CheckEnd ==
    /\ Alive
    /\ checker.pc = "scan"
    /\ checker.todo = {}
    /\ checker' = CheckerIdle
    /\ UNCHANGED <<storeVars, phase, keys, boot, slot, ticker, observerVars,
                   clock, crashes>>

AdvanceClock ==
    /\ clock < MaxTime
    /\ clock' = clock + 1
    /\ UNCHANGED <<storeVars, processVars, observerVars, crashes>>

Next ==
    \/ Start
    \/ \E a \in Agents : Ensure(a) \/ EnsureFails(a)
    \/ Serve
    \/ Shutdown
    \/ Crash
    \/ \E h \in Handlers, a \in Agents : Accept(h, a)
    \/ \E h \in Handlers : AppendReport(h)
    \/ TickerFire
    \/ CheckBegin
    \/ \E a \in Agents : ScanSkip(a) \/ ScanJudge(a)
    \/ NotifyAcked
    \/ NotifyFails
    \/ \E saved \in BOOLEAN : WriteBack(saved)
    \/ CheckEnd
    \/ AdvanceClock

Spec == Init /\ [][Next]_vars

\* Goroutines that can run do run; a started process comes up, a shutdown ends,
\* time passes; and the webhook does not fail for ever.  Reports, crashes and
\* failures are the environment's: nothing makes them happen.
Fairness ==
    /\ WF_vars(AdvanceClock)
    /\ WF_vars(Start)
    /\ \A a \in Agents : WF_vars(Ensure(a))
    /\ WF_vars(Serve)
    /\ WF_vars(Exit)
    /\ \A h \in Handlers : WF_vars(AppendReport(h))
    /\ WF_vars(TickerFire)
    /\ WF_vars(CheckBegin)
    /\ \A a \in Agents : WF_vars(ScanSkip(a)) /\ WF_vars(ScanJudge(a))
    /\ WF_vars(NotifyAcked \/ NotifyFails)
    /\ SF_vars(NotifyAcked)
    /\ WF_vars(\E saved \in BOOLEAN : WriteBack(saved))
    /\ WF_vars(CheckEnd)

FairSpec == Spec /\ Fairness

(***************************************************************************)
(* Properties                                                              *)
(***************************************************************************)

\* The type invariant: every variable of the monitor holds a value of its type.
TypeOK ==
    /\ StoreTypeOK
    /\ clock \in Instant \ {Zero}
    /\ phase \in {"stopped", "starting", "running", "stopping"}
    /\ keys \subseteq Agents
    /\ boot \subseteq Agents
    /\ slot \in [Handlers -> Request \union {NoRequest}]
    /\ ticker \in Instant
    /\ checker \in CheckerState
    /\ acked \in [Agents -> NotifyState]
    /\ bell \in [Agents -> BOOLEAN]
    /\ seen \in [Agents -> NotifyState]
    /\ forgot \in [Agents -> BOOLEAN]
    /\ crashes \in Nat

\* Check works on a copy of the Store while handlers go on appending.  Whatever
\* they do, the liveness fields it has copied for an agent it has yet to finish
\* are still those of the Store, so its write-back overwrites no other update
\* (liveness.go Check, store.go Append and SetLiveness).
SnapshotOwned ==
    \A a \in checker.todo :
        /\ states[a].known
        /\ checker.snap[a].down = states[a].down
        /\ checker.snap[a].downSince = states[a].downSince
        /\ checker.snap[a].notified = states[a].notified

\* Between two checks the Store's Notified is the alert the webhook confirmed
\* last, failed saves and concurrent reports notwithstanding; a stopped
\* process's state.json says the same.  The exception is an agent for which a
\* restart lost the record (forgot).
AlertsRecorded ==
    \A a \in Agents :
        \/ forgot[a]
        \/ phase = "stopped" /\ disk[a].notified = acked[a]
        \/ phase # "stopped" /\ states[a].notified = acked[a]
        \/ checker.pc = "write" /\ checker.verdict.agent = a

\* The Checker never sends an alert the webhook has already confirmed as the
\* last one for that agent, unless a restart lost the record of it
\* (liveness.go:36-40, "it does not ring repeatedly").
NoRepeatedAlert ==
    checker.pc = "notify" =>
        LET v == checker.verdict
        IN  forgot[v.agent] \/ acked[v.agent] # NotifiedAs(v.kind)

\* A recovery is only ever announced for an agent whose outage was confirmed by
\* the webhook at some time, whatever crashes and failed saves came in between
\* (liveness.go Check, the second case of the switch).
RecoveryFollowsAlert ==
    checker.pc = "notify" /\ checker.verdict.kind = "recovered" =>
        acked[checker.verdict.agent] # "none"

\* At c, more than retention_days have passed since the day of t began.
Outlived(t, c) == (Day(t) * DayLength) + (RetentionDays * DayLength) < c

\* The report that last_seen stands for, in memory or in state.json, is still in
\* its JSONL file unless the file has outlived retention_days (store.go Append
\* and cleanupLocked, with the "now" of concurrent requests out of order).
LastReportKept ==
    RetentionDays > 0 =>
        \A a \in Agents : \A st \in {states[a], disk[a]} :
            \/ st.lastSeen = Zero
            \/ Outlived(st.lastSeen, clock)
            \/ reportPath(a, st.lastSeen) \in files

\* While an agent stays down, down_since stays the time of the first verdict, in
\* spite of write-backs of verdicts taken from older snapshots (liveness.go
\* Check; store.go AgentState.DownSince).
DownSinceStable ==
    [][phase # "stopped" =>
         \A a \in Agents : states[a].down /\ states'[a].down =>
           states'[a].downSince = states[a].downSince]_vars

\* When time and crashes have come to an end, what the webhook confirmed last
\* agrees with the agent's silence: an outage is announced in the end and so is
\* its end, through failing webhooks, failing saves, restarts and stale
\* snapshots, unless a restart lost the record (liveness.go:70-71).
AlertsConverge ==
    \A a \in Agents :
        <>[](\/ forgot[a]
             \/ states[a].lastSeen # Zero =>
                  (Silent(states[a], a, clock) <=> acked[a] = "down"))

(***************************************************************************)
(* The inductive invariant behind the safety properties                     *)
(***************************************************************************)

\* The Checker's own state: idle when the process cannot run it or between two
\* checks, and never judging with a zero "now".
CheckerShape ==
    /\ ~Alive => checker = CheckerIdle
    /\ checker.pc = "wait" => checker.todo = {}
    /\ checker.pc # "wait" => checker.now # Zero

\* A verdict being sent or written back agrees with what the webhook confirmed,
\* and keeps the DownSince of the snapshot.
VerdictOK ==
    checker.pc \in {"notify", "write"} =>
        LET v == checker.verdict
            st == checker.snap[v.agent]
        IN  /\ v.agent \in checker.todo
            /\ forgot[v.agent] \/ v.notified = acked[v.agent]
            /\ v.notified # "none" => acked[v.agent] # "none"
            /\ v.down <=> v.downSince # Zero
            /\ v.down /\ st.downSince # Zero => v.downSince = st.downSince
            /\ checker.pc = "notify" =>
                  v.kind # "none" /\ v.kind = EventKind(v.down, v.notified)

\* In memory and on disk: Down goes with DownSince, and Notified is set only for
\* an agent some alert was confirmed for.
EntriesOK ==
    \A a \in Agents : \A st \in {states[a], disk[a]} :
        /\ st.down <=> st.downSince # Zero
        /\ st.notified # "none" => acked[a] # "none"

\* A report waiting for the lock was stamped in the past.
StampsPast == \A h \in Handlers : slot[h].now <= clock

IInv ==
    /\ TypeOK
    /\ CheckerShape
    /\ SnapshotOwned
    /\ VerdictOK
    /\ EntriesOK
    /\ AlertsRecorded
    /\ StampsPast
    /\ LastReportKept

(***************************************************************************)
(* What the documentation says and the code does not do                     *)
(***************************************************************************)

\* What the comments on NotifyState (store.go:31) and Checker (liveness.go:40)
\* say: a restart never makes the Checker send a confirmed alert again.
RestartNeverRepeats ==
    checker.pc = "notify" =>
        acked[checker.verdict.agent] # NotifiedAs(checker.verdict.kind)

\* What README.md says: the monitor alerts "once more when it comes back".  An
\* operator whose webhook received an outage is told when the agent is back for
\* good.
RecoveryAnnounced ==
    \A a \in Agents :
        <>[](states[a].lastSeen # Zero /\ ~Silent(states[a], a, clock))
            => <>[](seen[a] # "down")

\* What store.go:64 says of AgentState, "the latest state of the agent": a later
\* report's last_seen is not replaced by an earlier one's.
LastSeenNeverRegresses ==
    [][\A a \in Agents : phase' = phase =>
         states'[a].lastSeen >= states[a].lastSeen]_vars

\* The abstract alert channel the monitor implements.
Alerts == INSTANCE AlertChannel WITH told <- acked, doubtful <- forgot

\* Seen from the webhook, the monitor is an AlertChannel: confirmed outages and
\* recoveries alternate for each agent, starting with an outage, except where a
\* restart lost the record of the last one.
ImplementsAlertChannel == Alerts!Spec

=============================================================================
