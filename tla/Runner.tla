------------------------------- MODULE Runner -------------------------------
(***************************************************************************)
(* The agent's Runner (agent/runner.go): the life of Run, from the guards   *)
(* it takes to the deferred functions that give them back, its worker       *)
(* groups, services and heartbeat, and concurrent calls of Close.           *)
(*                                                                         *)
(* Several Runner objects live in one process and share the guard "active"; *)
(* the lock file is shared with other processes.  A cycle (collect, encode, *)
(* send) is one span between two steps; only its outcome matters here.      *)
(***************************************************************************)
EXTENDS Integers

CONSTANTS
    Runners,    \* Runner objects
    Closers,    \* goroutines that call Close
    Groups,     \* the groups of Options.Tasks
    NServices,  \* len(Options.Services)
    Options,    \* option records a Runner may be made with
    MaxTicks,   \* bound: ticks of the groups' tickers, all groups together
    Nobody,     \* no holder
    Other       \* another process holding the lock file

ASSUME RunnerAssumption ==
    /\ NServices \in Nat
    /\ MaxTicks \in Nat
    /\ Nobody \notin Runners
    /\ Other \notin Runners \union {Nobody}
    /\ Options \subseteq [once: BOOLEAN, lockFile: BOOLEAN, heartbeat: BOOLEAN,
                          returnFailure: BOOLEAN]

VARIABLES
    opts,       \* per runner: its Options
    started, closed, done,   \* per runner: the fields of that name
    pc,         \* per runner: where Run is
    result,     \* per runner: the error Run returns, "nil" for none
    ctx,        \* per runner: "none", "open", or who cancelled it first
    up,         \* per runner: services started and not yet stopped
    heartbeat,  \* per runner: the heartbeat goroutine runs
    worker,     \* per runner and group: where the group's goroutine is
    err,        \* per runner and group: what its last cycle returned
    failures,   \* per runner: the channel of capacity 1
    active,     \* holder of the package's mutex
    fileLock,   \* holder of the lock file
    closer,     \* per closer: the Close call it is in
    ticks

objectVars == <<opts, started, closed, done>>
runVars == <<pc, result, ctx>>
workVars == <<up, heartbeat, worker, err, failures>>
guardVars == <<active, fileLock>>
vars == <<objectVars, runVars, workVars, guardVars, closer, ticks>>

\* Errors Run returns.  "canceled" stands for the error of a cancelled context,
\* "failed" for any other failure of a cycle.
Result == {"nil", "busy", "locked", "setup", "failed", "canceled"}
Outcome == {"nil", "failed", "canceled"}

Stages == {"new", "guard", "lock", "verify", "services", "launch", "once",
           "wait", "joinHeartbeat", "awaitHeartbeat", "stopServices", "stopping",
           "release", "unlock", "final", "returned"}

WorkerStates == {"off", "cycle", "report", "cancel", "select", "done"}

Init ==
    /\ opts \in [Runners -> Options]
    /\ started = [r \in Runners |-> FALSE]
    /\ closed = [r \in Runners |-> FALSE]
    /\ done = [r \in Runners |-> FALSE]
    /\ pc = [r \in Runners |-> "new"]
    /\ result = [r \in Runners |-> "nil"]
    /\ ctx = [r \in Runners |-> "none"]
    /\ up = [r \in Runners |-> 0]
    /\ heartbeat = [r \in Runners |-> FALSE]
    /\ worker = [r \in Runners |-> [g \in Groups |-> "off"]]
    /\ err = [r \in Runners |-> [g \in Groups |-> "nil"]]
    /\ failures = [r \in Runners |-> "nil"]
    /\ active = Nobody
    /\ fileLock = Nobody
    /\ closer = [c \in Closers |-> [pc |-> "idle", of |-> Nobody]]
    /\ ticks = 0

Canceled(r) == ctx[r] \in {"inside", "outside"}

\* cancel() has an effect once; later calls change nothing.
CancelBy(r, who) == ctx' = [ctx EXCEPT ![r] = IF @ = "open" THEN who ELSE @]

\* A call under ctx may only blame the context when it is done.
MayEnd(r, outcome) == outcome = "canceled" => Canceled(r)

Goto(r, stage) == pc' = [pc EXCEPT ![r] = stage]

Return(r, e) == result' = [result EXCEPT ![r] = e]

(***************************************************************************)
(* Run                                                                     *)
(***************************************************************************)

\* The section under r.mu; a runner that is closed or started is refused.
Run(r) ==
    /\ pc[r] = "new"
    /\ ~closed[r]
    /\ ~started[r]
    /\ started' = [started EXCEPT ![r] = TRUE]
    /\ ctx' = [ctx EXCEPT ![r] = "open"]
    /\ Goto(r, "guard")
    /\ UNCHANGED <<opts, closed, done, result, workVars, guardVars, closer, ticks>>

TakeActive(r) ==
    /\ pc[r] = "guard"
    /\ IF active = Nobody
         THEN active' = r /\ Goto(r, "lock") /\ UNCHANGED result
         ELSE Return(r, "busy") /\ Goto(r, "final") /\ UNCHANGED active
    /\ UNCHANGED <<objectVars, ctx, workVars, fileLock, closer, ticks>>

\* filelock.Acquire does not wait, and its release gives back only what was taken.
Acquire(r) == fileLock = Nobody /\ fileLock' = r
Release(r) == fileLock' = IF fileLock = r THEN Nobody ELSE fileLock

\* The error of Acquire (or that of the directory) ends Run.
TakeFileLock(r) ==
    /\ pc[r] = "lock"
    /\ \/ /\ ~opts[r].lockFile
          /\ Goto(r, "verify")
          /\ UNCHANGED <<fileLock, result>>
       \/ /\ opts[r].lockFile
          /\ Acquire(r)
          /\ Goto(r, "verify")
          /\ UNCHANGED result
       \/ /\ opts[r].lockFile
          /\ \/ fileLock # Nobody /\ Return(r, "locked")
             \/ Return(r, "setup")
          /\ Goto(r, "unlock")
          /\ UNCHANGED fileLock
    /\ UNCHANGED <<objectVars, ctx, workVars, active, closer, ticks>>

\* The licence check, under ctx.
Verify(r) ==
    /\ pc[r] = "verify"
    /\ \/ Goto(r, "services") /\ UNCHANGED result
       \/ Return(r, "setup") /\ Goto(r, "release")
    /\ UNCHANGED <<objectVars, ctx, workVars, guardVars, closer, ticks>>

\* One iteration of the loop over Services; ctx is looked at before each.
StartService(r) ==
    /\ pc[r] = "services"
    /\ up[r] < NServices
    /\ \/ /\ Canceled(r)
          /\ Return(r, "canceled")
          /\ Goto(r, "stopServices")
          /\ UNCHANGED up
       \/ /\ ~Canceled(r)
          /\ Return(r, "setup")
          /\ Goto(r, "stopServices")
          /\ UNCHANGED up
       \/ /\ ~Canceled(r)
          /\ up' = [up EXCEPT ![r] = @ + 1]
          /\ UNCHANGED <<pc, result>>
    /\ UNCHANGED <<objectVars, ctx, heartbeat, worker, err, failures, guardVars,
                   closer, ticks>>

StartHeartbeat(r) ==
    /\ pc[r] = "services"
    /\ up[r] = NServices
    /\ heartbeat' = [heartbeat EXCEPT ![r] = opts[r].heartbeat]
    /\ Goto(r, IF opts[r].once THEN "once" ELSE "launch")
    /\ UNCHANGED <<objectVars, result, ctx, up, worker, err, failures, guardVars,
                   closer, ticks>>

\* Mode Once: the cycle's error is Run's.
OnceEnds(r, outcome) ==
    /\ pc[r] = "once"
    /\ MayEnd(r, outcome)
    /\ Return(r, outcome)
    /\ Goto(r, "joinHeartbeat")
    /\ UNCHANGED <<objectVars, ctx, workVars, guardVars, closer, ticks>>

\* Mode Intervals: a goroutine per group, each beginning with a cycle.
LaunchWorkers(r) ==
    /\ pc[r] = "launch"
    /\ worker' = [worker EXCEPT ![r] = [g \in Groups |-> "cycle"]]
    /\ Goto(r, IF Groups = {} THEN "joinHeartbeat" ELSE "wait")
    /\ UNCHANGED <<objectVars, result, ctx, up, heartbeat, err, failures, guardVars,
                   closer, ticks>>

MutReturnWithoutJoin(r) ==
    /\ pc[r] = "wait"
    /\ Canceled(r)
    /\ Return(r, failures[r])
    /\ Goto(r, "joinHeartbeat")
    /\ UNCHANGED <<objectVars, ctx, workVars, guardVars, closer, ticks>>

\* <-ctx.Done(), workers.Wait(), and the first failure if there is one.
JoinWorkers(r) ==
    /\ pc[r] = "wait"
    /\ Canceled(r)
    /\ \A g \in Groups : worker[r][g] = "done"
    /\ Return(r, failures[r])
    /\ Goto(r, "joinHeartbeat")
    /\ UNCHANGED <<objectVars, ctx, workVars, guardVars, closer, ticks>>

(***************************************************************************)
(* A group's goroutine                                                      *)
(***************************************************************************)
Step(r, g, state) == worker' = [worker EXCEPT ![r][g] = state]

CycleEnds(r, g, outcome) ==
    /\ worker[r][g] = "cycle"
    /\ MayEnd(r, outcome)
    /\ err' = [err EXCEPT ![r][g] = outcome]
    /\ Step(r, g, IF outcome # "nil" /\ opts[r].returnFailure THEN "report" ELSE "select")
    /\ UNCHANGED <<objectVars, runVars, up, heartbeat, failures, guardVars, closer, ticks>>

MutReportReplaces(r, g) ==
    /\ worker[r][g] = "report"
    /\ failures' = [failures EXCEPT ![r] = err[r][g]]
    /\ Step(r, g, "cancel")
    /\ UNCHANGED <<objectVars, runVars, up, heartbeat, err, guardVars, closer, ticks>>

MutReportToNobody(r, g) ==
    /\ worker[r][g] = "report"
    /\ Step(r, g, "cancel")
    /\ UNCHANGED <<objectVars, runVars, up, heartbeat, err, failures, guardVars, closer,
                   ticks>>

\* A send to the channel of capacity 1 that does not wait: the first one stays.
ReportFailure(r, g) ==
    /\ worker[r][g] = "report"
    /\ failures' = [failures EXCEPT ![r] = IF @ = "nil" THEN err[r][g] ELSE @]
    /\ Step(r, g, "cancel")
    /\ UNCHANGED <<objectVars, runVars, up, heartbeat, err, guardVars, closer, ticks>>

MutFailureEndsOneGroup(r, g) ==
    /\ worker[r][g] = "cancel"
    /\ Step(r, g, "done")
    /\ UNCHANGED <<objectVars, runVars, up, heartbeat, err, failures, guardVars, closer,
                   ticks>>

CancelOthers(r, g) ==
    /\ worker[r][g] = "cancel"
    /\ CancelBy(r, "inside")
    /\ Step(r, g, "done")
    /\ UNCHANGED <<objectVars, pc, result, up, heartbeat, err, failures, guardVars,
                   closer, ticks>>

\* select: ctx.Done is ready.
SelectDone(r, g) ==
    /\ worker[r][g] = "select"
    /\ Canceled(r)
    /\ Step(r, g, "done")
    /\ UNCHANGED <<objectVars, runVars, up, heartbeat, err, failures, guardVars, closer,
                   ticks>>

\* select: a tick is ready, and taken even when ctx is done as well.
SelectTick(r, g) ==
    /\ worker[r][g] = "select"
    /\ ticks < MaxTicks
    /\ ticks' = ticks + 1
    /\ Step(r, g, "cycle")
    /\ UNCHANGED <<objectVars, runVars, up, heartbeat, err, failures, guardVars, closer>>

\* RunHeartbeat returns by itself when it has nothing to do, else with ctx.
HeartbeatEnds(r) ==
    /\ heartbeat[r]
    /\ heartbeat' = [heartbeat EXCEPT ![r] = FALSE]
    /\ UNCHANGED <<objectVars, runVars, up, worker, err, failures, guardVars, closer, ticks>>

(***************************************************************************)
(* The deferred functions, last registered first                            *)
(***************************************************************************)
CancelHeartbeat(r) ==
    /\ pc[r] = "joinHeartbeat"
    /\ CancelBy(r, "inside")
    /\ Goto(r, "awaitHeartbeat")
    /\ UNCHANGED <<objectVars, result, workVars, guardVars, closer, ticks>>

MutHeartbeatNotJoined(r) ==
    /\ pc[r] = "awaitHeartbeat"
    /\ Goto(r, "stopServices")
    /\ UNCHANGED <<objectVars, result, ctx, workVars, guardVars, closer, ticks>>

JoinHeartbeat(r) ==
    /\ pc[r] = "awaitHeartbeat"
    /\ ~heartbeat[r]
    /\ Goto(r, "stopServices")
    /\ UNCHANGED <<objectVars, result, ctx, workVars, guardVars, closer, ticks>>

CancelServices(r) ==
    /\ pc[r] = "stopServices"
    /\ CancelBy(r, "inside")
    /\ Goto(r, "stopping")
    /\ UNCHANGED <<objectVars, result, workVars, guardVars, closer, ticks>>

\* The service started last is stopped first; errors are only logged.
StopService(r) ==
    /\ pc[r] = "stopping"
    /\ IF up[r] > 0
         THEN up' = [up EXCEPT ![r] = @ - 1] /\ UNCHANGED pc
         ELSE Goto(r, "release") /\ UNCHANGED up
    /\ UNCHANGED <<objectVars, result, ctx, heartbeat, worker, err, failures, guardVars,
                   closer, ticks>>

ReleaseFileLock(r) ==
    /\ pc[r] = "release"
    /\ Release(r)
    /\ Goto(r, "unlock")
    /\ UNCHANGED <<objectVars, result, ctx, workVars, active, closer, ticks>>

ReleaseActive(r) ==
    /\ pc[r] = "unlock"
    /\ active' = Nobody
    /\ Goto(r, "final")
    /\ UNCHANGED <<objectVars, result, ctx, workVars, fileLock, closer, ticks>>

\* cancel, closed under r.mu, close(done).
Finish(r) ==
    /\ pc[r] = "final"
    /\ CancelBy(r, "inside")
    /\ closed' = [closed EXCEPT ![r] = TRUE]
    /\ done' = [done EXCEPT ![r] = TRUE]
    /\ Goto(r, "returned")
    /\ UNCHANGED <<opts, started, result, workVars, guardVars, closer, ticks>>

(***************************************************************************)
(* Close, and what else ends a context                                      *)
(***************************************************************************)
MutCloseForgetsClosed(c, r) ==
    /\ closer[c].pc = "idle"
    /\ CancelBy(r, "outside")
    /\ closer' = [closer EXCEPT ![c] =
                    [pc |-> IF started[r] THEN "waiting" ELSE "closed", of |-> r]]
    /\ UNCHANGED <<objectVars, pc, result, workVars, guardVars, ticks>>

MutCloseNoCancel(c, r) ==
    /\ closer[c].pc = "idle"
    /\ closed' = [closed EXCEPT ![r] = TRUE]
    /\ closer' = [closer EXCEPT ![c] =
                    [pc |-> IF started[r] THEN "waiting" ELSE "closed", of |-> r]]
    /\ UNCHANGED <<opts, started, done, runVars, workVars, guardVars, ticks>>

\* The section under r.mu.
Close(c, r) ==
    /\ closer[c].pc = "idle"
    /\ closed' = [closed EXCEPT ![r] = TRUE]
    /\ CancelBy(r, "outside")
    /\ closer' = [closer EXCEPT ![c] =
                    [pc |-> IF started[r] THEN "waiting" ELSE "closed", of |-> r]]
    /\ UNCHANGED <<opts, started, done, pc, result, workVars, guardVars, ticks>>

\* Close returns nil: done is closed.
CloseReturns(c) ==
    /\ closer[c].pc = "waiting"
    /\ done[closer[c].of]
    /\ closer' = [closer EXCEPT ![c].pc = "closed"]
    /\ UNCHANGED <<objectVars, runVars, workVars, guardVars, ticks>>

\* Close's own context ends first.
CloseGivesUp(c) ==
    /\ closer[c].pc = "waiting"
    /\ closer' = [closer EXCEPT ![c].pc = "gaveUp"]
    /\ UNCHANGED <<objectVars, runVars, workVars, guardVars, ticks>>

\* The parent context is cancelled, or Options.Timeout is over.
ParentDone(r) ==
    /\ ctx[r] = "open"
    /\ CancelBy(r, "outside")
    /\ UNCHANGED <<objectVars, pc, result, workVars, guardVars, closer, ticks>>

\* Another process takes and gives back the lock file.
OtherProcess ==
    /\ \/ fileLock = Nobody /\ fileLock' = Other
       \/ fileLock = Other /\ fileLock' = Nobody
    /\ UNCHANGED <<objectVars, runVars, workVars, active, closer, ticks>>

MainStep(r) ==
    \/ TakeActive(r) \/ TakeFileLock(r) \/ Verify(r)
    \/ StartService(r) \/ StartHeartbeat(r) \/ LaunchWorkers(r)
    \/ \E outcome \in Outcome : OnceEnds(r, outcome)
    \/ JoinWorkers(r) \/ CancelHeartbeat(r) \/ JoinHeartbeat(r)
    \/ CancelServices(r) \/ StopService(r)
    \/ ReleaseFileLock(r) \/ ReleaseActive(r) \/ Finish(r)

WorkerStep(r, g) ==
    \/ \E outcome \in Outcome : CycleEnds(r, g, outcome)
    \/ ReportFailure(r, g) \/ CancelOthers(r, g)

Next ==
    \/ \E r \in Runners : Run(r) \/ MainStep(r) \/ HeartbeatEnds(r) \/ ParentDone(r)
    \/ \E r \in Runners, g \in Groups :
          WorkerStep(r, g) \/ SelectDone(r, g) \/ SelectTick(r, g)
    \/ \E c \in Closers, r \in Runners : Close(c, r)
    \/ \E c \in Closers : CloseReturns(c) \/ CloseGivesUp(c)
    \/ OtherProcess

Spec == Init /\ [][Next]_vars

\* Goroutines run; collectors, requests, services and the heartbeat return once
\* their context is done (they do so by timeouts of their own); select does not
\* prefer the tick for ever.  Nothing makes a caller call Run or Close, a parent
\* context end, or a tick arrive.
Fairness ==
    /\ \A r \in Runners :
          /\ WF_vars(MainStep(r))
          /\ WF_vars(Canceled(r) /\ HeartbeatEnds(r))
    /\ \A r \in Runners, g \in Groups :
          /\ WF_vars(WorkerStep(r, g))
          /\ SF_vars(SelectDone(r, g))

FairSpec == Spec /\ Fairness

(***************************************************************************)
(* Properties                                                              *)
(***************************************************************************)
\* The type invariant: every variable of the runners holds a value of its type.
TypeOK ==
    /\ opts \in [Runners -> Options]
    /\ started \in [Runners -> BOOLEAN]
    /\ closed \in [Runners -> BOOLEAN]
    /\ done \in [Runners -> BOOLEAN]
    /\ pc \in [Runners -> Stages]
    /\ result \in [Runners -> Result]
    /\ ctx \in [Runners -> {"none", "open", "inside", "outside"}]
    /\ up \in [Runners -> 0 .. NServices]
    /\ heartbeat \in [Runners -> BOOLEAN]
    /\ worker \in [Runners -> [Groups -> WorkerStates]]
    /\ err \in [Runners -> [Groups -> Outcome]]
    /\ failures \in [Runners -> Outcome]
    /\ active \in Runners \union {Nobody}
    /\ fileLock \in Runners \union {Nobody, Other}
    /\ closer \in [Closers -> [pc: {"idle", "waiting", "closed", "gaveUp"},
                               of: Runners \union {Nobody}]]
    /\ ticks \in 0 .. MaxTicks

\* Something that Run started and has to end before it returns.
Busy(r) ==
    \/ up[r] > 0
    \/ heartbeat[r]
    \/ pc[r] = "once"
    \/ \E g \in Groups : worker[r][g] \notin {"off", "done"}

\* Whatever a Run has going, on whichever goroutine, happens under the process's
\* guard and, when configured, under the lock file: no two runs overlap, in one
\* process or in two, and none leaves work behind (runner.go:37, "collector
\* globals permit one active Run per process"; filelock.go:1-6).
WorkIsGuarded ==
    \A r \in Runners :
        Busy(r) => active = r /\ (opts[r].lockFile => fileLock = r)

\* Cycles run with all services up and, the heartbeat included, are over before
\* the first service is stopped (runner.go, the order of the deferred functions).
ServicesOutliveWork ==
    \A r \in Runners :
        heartbeat[r] \/ (\E g \in Groups : worker[r][g] = "cycle") => up[r] = NServices

\* After a Close that returned nil nothing of that runner goes on, and nothing
\* ever will, also when Close came before Run or twice (runner.go:297).
ClosedMeansIdle ==
    \A c \in Closers :
        closer[c].pc = "closed" =>
            LET r == closer[c].of
            IN  ~Busy(r) /\ active # r /\ fileLock # r

\* Run blames the cancellation only when it came from outside: the groups that a
\* failing group cancels never replace its failure (runner.go:208-209).
FirstFailureIsCause ==
    \A r \in Runners : result[r] = "canceled" => ctx[r] = "outside"

\* Under ReturnFailure no failed cycle is lost: when Run in Intervals mode returns
\* nil, no group's last cycle had failed (options.go:36-37).
FailureReturned ==
    \A r \in Runners :
        pc[r] = "returned" /\ opts[r].returnFailure /\ ~opts[r].once /\ result[r] = "nil"
            => \A g \in Groups : err[r][g] = "nil"

\* A run that is closed comes to its end, in spite of ticks that go on arriving.
CloseCompletes == \A r \in Runners : started[r] /\ closed[r] ~> done[r]

\* Under ReturnFailure the first failed cycle ends the whole run: the other groups
\* are cancelled and joined (options.go:36-37).
FailureEndsRun ==
    \A r \in Runners, g \in Groups : worker[r][g] = "report" ~> done[r]

(***************************************************************************)
(* The inductive invariant behind the safety properties                     *)
(***************************************************************************)
Working == {"launch", "once", "wait", "joinHeartbeat", "awaitHeartbeat"}
HoldingFile == {"verify", "services", "stopServices", "stopping", "release"} \union Working
Leaving == {"joinHeartbeat", "awaitHeartbeat", "stopServices", "stopping",
            "release", "unlock", "final", "returned"}
HoldingActive == {"lock", "unlock"} \union HoldingFile

\* The guards are held exactly in the stages between taking and releasing them.
GuardsHeld ==
    \A r \in Runners :
        /\ pc[r] \in HoldingActive <=> active = r
        /\ pc[r] \in HoldingFile /\ opts[r].lockFile => fileLock = r
        /\ fileLock = r => pc[r] \in HoldingFile

\* What runs in which stage of Run.
StageShape ==
    \A r \in Runners :
        /\ pc[r] = "new" <=> ~started[r]
        /\ pc[r] = "new" <=> ctx[r] = "none"
        /\ pc[r] = "returned" <=> done[r]
        /\ done[r] => closed[r]
        /\ up[r] > 0 => pc[r] \in {"services", "stopServices", "stopping"} \union Working
        /\ pc[r] \in Working => up[r] = NServices
        /\ heartbeat[r] => pc[r] \in Working
        /\ pc[r] # "wait" => \A g \in Groups : worker[r][g] \in {"off", "done"}
        /\ pc[r] = "wait" => \A g \in Groups : worker[r][g] # "off"

ClosersShape ==
    \A c \in Closers :
        LET r == closer[c].of
        IN  /\ closer[c].pc # "idle" => r \in Runners
            /\ closer[c].pc = "closed" => closed[r] /\ (done[r] \/ pc[r] = "new")

\* Who has cancelled, and what the channel of failures holds by then.
FailureShape ==
    \A r \in Runners :
        /\ ctx[r] = "inside" => pc[r] \notin {"guard", "lock", "verify", "services",
                                              "launch", "once"}
        /\ pc[r] = "once" => opts[r].once
        /\ ctx[r] = "inside" /\ pc[r] = "wait" => failures[r] # "nil"
        /\ failures[r] = "canceled" => ctx[r] = "outside"
        /\ /\ pc[r] \in Leaving /\ opts[r].returnFailure /\ ~opts[r].once
           /\ result[r] = "nil"
           => \A g \in Groups : err[r][g] = "nil"
        /\ \A g \in Groups :
              /\ worker[r][g] = "report" /\ err[r][g] = "canceled" => Canceled(r)
              /\ worker[r][g] = "report" => err[r][g] # "nil"
              /\ worker[r][g] = "cancel" => failures[r] # "nil"
              /\ worker[r][g] = "cancel" \/ worker[r][g] = "report" => opts[r].returnFailure
              /\ /\ opts[r].returnFailure
                 /\ worker[r][g] \in {"off", "cycle", "select", "done"}
                 /\ failures[r] = "nil"
                 => err[r][g] = "nil"

IInv ==
    /\ TypeOK
    /\ GuardsHeld
    /\ StageShape
    /\ ClosersShape
    /\ FailureShape
    /\ FirstFailureIsCause

=============================================================================
