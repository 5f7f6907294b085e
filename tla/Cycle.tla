------------------------------- MODULE Cycle -------------------------------
(***************************************************************************)
(* What the agent's worker groups do over and over (agent/runner.go, cycle):*)
(* collect, encode, send to every target, refresh the licence token after a *)
(* 401.  Cycles of several groups run at once and share the token in memory *)
(* and its cache file with each other and with the heartbeat                *)
(* (agentlicense/verifier.go); the process may end and begin again.         *)
(*                                                                         *)
(* The licence server is outside the repository.  Tokens are numbered by    *)
(* the server's epochs: it accepts those of the current epoch, and a new    *)
(* epoch makes older ones invalid.                                         *)
(***************************************************************************)
EXTENDS Integers

CONSTANTS
    Workers,       \* goroutines of the worker groups
    NTasks,        \* tasks of a group, run in order
    Disabled,      \* tasks switched off by Jobs
    NTargets,      \* Options.Targets, in order
    Primary,       \* index of the target named PrimaryTargetName; 0: no licence
    StopOnCancel,  \* the targets with that option
    RetryCount,    \* of every target
    Options,       \* option records an agent may run with
    MaxEpoch,      \* bound: epochs of the licence server
    MaxFaults,     \* bound: failures of network, disk and encoder
    MaxRestarts    \* bound: how often the process ends

ASSUME CycleAssumption ==
    /\ NTasks \in Nat
    /\ Disabled \subseteq 1 .. NTasks
    /\ NTargets \in Nat \ {0}
    /\ Primary \in 0 .. NTargets
    /\ StopOnCancel \subseteq 1 .. NTargets
    /\ RetryCount \in Nat
    /\ MaxEpoch \in Nat \ {0}
    /\ MaxFaults \in Nat
    /\ MaxRestarts \in Nat
    /\ Options \subseteq
         [cancelPolicy: {"ReportCanceled", "FailCanceled", "DropCanceled"},
          returnFailure: BOOLEAN, dryRun: BOOLEAN, emptyOnFailure: BOOLEAN,
          refresh: BOOLEAN, relaxed: BOOLEAN, cached: BOOLEAN, heartbeat: BOOLEAN,
          timeout: BOOLEAN]

VARIABLES
    opts,      \* the agent's options; "relaxed": a failed verification may be
               \* made good, by Relaxed or a valid offline file
    phase,     \* of the process: "down" or "up"
    expired,   \* the context of Run is over
    token,     \* Verifier's currentToken; None is the empty string
    cache,     \* the token in the cache file, None when there is none
    tmp,       \* the token in the cache's temporary file
    hb,        \* the heartbeat: where it is and the token it has been given
    pc,        \* per worker: where its cycle is
    next,      \* per worker: index of the task or of the result at hand
    report,    \* per worker: what the report says of each task
    bearer,    \* per worker: the token its requests carry, or the refreshed one
    call,      \* per worker and target: SendOne's attempts, last error, end
    good,      \* per worker: the targets its cycle counts as successes
    ret,       \* per worker: what its last finished cycle returned
    stored,    \* per worker: the targets that accepted the cycle's report
    epoch,     \* of the licence server
    faults,
    restarts

agentVars == <<phase, expired, token, cache, tmp, hb>>
cycleVars == <<pc, next, report, bearer, call, good, ret, stored>>
countVars == <<faults, restarts>>
vars == <<opts, agentVars, cycleVars, epoch, countVars>>

None == 0
Token == 0 .. MaxEpoch
Tasks == 1 .. NTasks
Targets == 1 .. NTargets

Stages == {"idle", "collect", "token", "send", "judge", "verify", "write", "rename",
           "install", "resend"}
Heartbeat == [pc: {"off", "wait", "reauth", "answered"}, answer: Token]
Entry == {"none", "value", "error"}
Error == {"none", "nil", "canceled", "failed", "status401", "refresh"}
Call == [tries: 0 .. RetryCount + 1, last: {"nil", "ok", "canceled", "failed", "status401"},
         done: BOOLEAN]

NoCall == [tries |-> 0, last |-> "nil", done |-> FALSE]
NoReport == [i \in Tasks |-> "none"]
HeartbeatOff == [pc |-> "off", answer |-> None]

Init ==
    /\ opts \in Options
    /\ phase = "down"
    /\ expired = FALSE
    /\ token = None
    /\ cache = None
    /\ tmp = None
    /\ hb = HeartbeatOff
    /\ pc = [w \in Workers |-> "idle"]
    /\ next = [w \in Workers |-> 1]
    /\ report = [w \in Workers |-> NoReport]
    /\ bearer = [w \in Workers |-> None]
    /\ call = [w \in Workers |-> [t \in Targets |-> NoCall]]
    /\ good = [w \in Workers |-> {}]
    /\ ret = [w \in Workers |-> "none"]
    /\ stored = [w \in Workers |-> {}]
    /\ epoch = 1
    /\ faults = 0
    /\ restarts = 0

\* A failure the environment decides on.
Fault == faults < MaxFaults /\ faults' = faults + 1

Goto(w, where) == pc' = [pc EXCEPT ![w] = where]

\* The cycle returns e.
Return(w, e) == Goto(w, "idle") /\ ret' = [ret EXCEPT ![w] = e]

(***************************************************************************)
(* The process                                                             *)
(***************************************************************************)

\* Run's verify before the groups start: the cached token if it still passes the
\* local checks, else one from the licence server; or the fallbacks of a failed
\* verification, which try to remove the cache.  A verification that fails for good ends Run: still "down".  Without
\* a licence nobody looks at the token.
Boot ==
    /\ phase = "down"
    /\ \/ /\ opts.cached
          /\ cache # None
          /\ token' = cache
          /\ UNCHANGED <<cache, tmp, faults>>
       \/ /\ token' = epoch
          /\ cache' = IF opts.cached THEN epoch ELSE cache
          /\ tmp' = IF opts.cached THEN None ELSE tmp
          /\ UNCHANGED faults
       \/ /\ opts.relaxed
          /\ Fault
          /\ token' = None
          /\ cache' \in IF opts.cached THEN {None, cache} ELSE {cache}
          /\ UNCHANGED tmp
    /\ phase' = "up"
    /\ hb' = IF opts.heartbeat /\ token' # None THEN [HeartbeatOff EXCEPT !.pc = "wait"]
             ELSE HeartbeatOff
    /\ UNCHANGED <<opts, expired, cycleVars, epoch, restarts>>

\* The process ends; only files survive.
Crash ==
    /\ phase = "up"
    /\ restarts < MaxRestarts
    /\ restarts' = restarts + 1
    /\ phase' = "down"
    /\ expired' = FALSE
    /\ token' = None
    /\ hb' = HeartbeatOff
    /\ pc' = [w \in Workers |-> "idle"]
    /\ ret' = [w \in Workers |-> "none"]
    /\ UNCHANGED <<opts, cache, tmp, next, report, bearer, call, good, stored, epoch,
                   faults>>

\* The cycle that w finished last ends the run of all groups.
EndsRun(w) == opts.returnFailure /\ ret[w] \notin {"none", "nil"}

\* Options.Timeout, or the cancellation by a group that failed.
Expire ==
    /\ phase = "up"
    /\ ~expired
    /\ opts.timeout \/ \E w \in Workers : pc[w] = "idle" /\ EndsRun(w)
    /\ expired' = TRUE
    /\ UNCHANGED <<opts, phase, token, cache, tmp, hb, cycleVars, epoch, countVars>>

\* The licence server gives up the tokens of its epoch.
Revoke ==
    /\ epoch < MaxEpoch
    /\ epoch' = epoch + 1
    /\ UNCHANGED <<opts, agentVars, cycleVars, countVars>>

(***************************************************************************)
(* Collecting and encoding                                                 *)
(***************************************************************************)
BeginCycle(w) ==
    /\ phase = "up"
    /\ pc[w] = "idle"
    /\ ~EndsRun(w)
    /\ Goto(w, "collect")
    /\ next' = [next EXCEPT ![w] = 1]
    /\ report' = [report EXCEPT ![w] = NoReport]
    /\ call' = [call EXCEPT ![w] = [t \in Targets |-> NoCall]]
    /\ good' = [good EXCEPT ![w] = {}]
    /\ stored' = [stored EXCEPT ![w] = {}]
    /\ UNCHANGED <<opts, agentVars, bearer, ret, epoch, countVars>>

MutCollectTask(w) ==
    /\ pc[w] = "collect"
    /\ next[w] <= NTasks
    /\ next' = [next EXCEPT ![w] = @ + 1]
    /\ \E entry \in {"value", "error"} :
          report' = IF next[w] \in Disabled \/ expired
                      THEN report ELSE [report EXCEPT ![w][next[w]] = entry]
    /\ UNCHANGED <<opts, agentVars, pc, bearer, call, good, ret, stored, epoch, countVars>>

\* One iteration of collect's loop: disabled, past the deadline, failed or done.
CollectTask(w) ==
    /\ pc[w] = "collect"
    /\ next[w] <= NTasks
    /\ next[w] \in Disabled \/ ~expired \/ opts.cancelPolicy = "ReportCanceled"
    /\ next' = [next EXCEPT ![w] = @ + 1]
    /\ \E entry \in {"value", "error"} :
          /\ expired => entry = "error"
          /\ report' = IF next[w] \in Disabled
                         THEN report ELSE [report EXCEPT ![w][next[w]] = entry]
    /\ UNCHANGED <<opts, agentVars, pc, bearer, call, good, ret, stored, epoch, countVars>>

\* The other two policies end the collection, and the cycle.
CollectCanceled(w) ==
    /\ pc[w] = "collect"
    /\ next[w] \in Tasks \ Disabled
    /\ expired
    /\ opts.cancelPolicy # "ReportCanceled"
    /\ Return(w, IF opts.cancelPolicy = "DropCanceled" THEN "nil" ELSE "canceled")
    /\ UNCHANGED <<opts, agentVars, next, report, bearer, call, good, stored, epoch,
                   countVars>>

EncodeFails(w) ==
    /\ pc[w] = "collect"
    /\ next[w] > NTasks
    /\ ~opts.emptyOnFailure
    /\ Fault
    /\ Return(w, "failed")
    /\ UNCHANGED <<opts, agentVars, next, report, bearer, call, good, stored, epoch,
                   restarts>>

\* encode, perhaps to "{}", and the end of a dry run.
Encode(w) ==
    /\ pc[w] = "collect"
    /\ next[w] > NTasks
    /\ \/ UNCHANGED <<report, faults>>
       \/ /\ opts.emptyOnFailure
          /\ Fault
          /\ report' = [report EXCEPT ![w] = NoReport]
    /\ IF opts.dryRun THEN Return(w, "nil") ELSE Goto(w, "token") /\ UNCHANGED ret
    /\ UNCHANGED <<opts, agentVars, next, bearer, call, good, stored, epoch, restarts>>

(***************************************************************************)
(* Sending                                                                 *)
(***************************************************************************)

\* CurrentToken, then a goroutine per target.
SendReports(w) ==
    /\ pc[w] = "token"
    /\ bearer' = [bearer EXCEPT ![w] = token]
    /\ Goto(w, "send")
    /\ UNCHANGED <<opts, agentVars, next, report, call, good, ret, stored, epoch, countVars>>

Sending(w, t) == pc[w] \in {"send", "resend"} /\ ~call[w][t].done

Accepts(w, t) == t # Primary \/ bearer[w] = epoch

SendCanceled(w, t) ==
    /\ Sending(w, t)
    /\ t \in StopOnCancel
    /\ expired
    /\ call' = [call EXCEPT ![w][t] =
                  [tries |-> @.tries, done |-> TRUE,
                   last |-> IF @.last = "nil" THEN "canceled" ELSE @.last]]
    /\ UNCHANGED <<opts, agentVars, pc, next, report, bearer, good, ret, stored, epoch,
                   countVars>>

\* What one attempt leaves: a confirmation, or an error and perhaps no more tries.
Attempted(w, t, answer) ==
    call' = [call EXCEPT ![w][t] =
               [tries |-> @.tries + 1, last |-> answer,
                done |-> answer = "ok" \/ @.tries >= RetryCount]]

\* The request reached the target and its answer the agent.
SendAnswered(w, t) ==
    /\ Sending(w, t)
    /\ ~expired
    /\ Attempted(w, t, IF Accepts(w, t) THEN "ok" ELSE "status401")
    /\ stored' = [stored EXCEPT ![w] = IF Accepts(w, t) THEN @ \union {t} ELSE @]
    /\ UNCHANGED <<opts, agentVars, pc, next, report, bearer, good, ret, epoch, countVars>>

\* An attempt fails: not delivered, refused, or its answer lost.
SendFails(w, t) ==
    /\ Sending(w, t)
    /\ \/ expired /\ t \notin StopOnCancel /\ UNCHANGED <<stored, faults>>
       \/ ~expired /\ Fault /\ UNCHANGED stored
       \/ /\ ~expired
          /\ Accepts(w, t)
          /\ Fault
          /\ stored' = [stored EXCEPT ![w] = @ \union {t}]
    /\ Attempted(w, t, "failed")
    /\ UNCHANGED <<opts, agentVars, pc, next, report, bearer, good, ret, epoch, restarts>>

\* wg.Wait, and the loop over the results begins.
SendDone(w) ==
    /\ pc[w] = "send"
    /\ \A t \in Targets : call[w][t].done
    /\ Goto(w, "judge")
    /\ next' = [next EXCEPT ![w] = 1]
    /\ UNCHANGED <<opts, agentVars, report, bearer, call, good, ret, stored, epoch,
                   countVars>>

(***************************************************************************)
(* The results                                                             *)
(***************************************************************************)
MutNeedsRefreshOthers(w, t) ==
    opts.refresh /\ t # Primary /\ call[w][t].last = "status401"

NeedsRefresh(w, t) == opts.refresh /\ t = Primary /\ call[w][t].last = "status401"

MutJudgeCountsAnswers(w) ==
    /\ pc[w] = "judge"
    /\ next[w] \in Targets
    /\ ~NeedsRefresh(w, next[w])
    /\ good' = [good EXCEPT ![w] =
                  IF call[w][next[w]].last \in {"ok", "status401"}
                    THEN @ \union {next[w]} ELSE @]
    /\ next' = [next EXCEPT ![w] = @ + 1]
    /\ UNCHANGED <<opts, agentVars, pc, report, bearer, call, ret, stored, epoch, countVars>>

\* A result that calls for no refresh.
Judge(w) ==
    /\ pc[w] = "judge"
    /\ next[w] \in Targets
    /\ ~NeedsRefresh(w, next[w])
    /\ good' = [good EXCEPT ![w] =
                  IF call[w][next[w]].last = "ok" THEN @ \union {next[w]} ELSE @]
    /\ next' = [next EXCEPT ![w] = @ + 1]
    /\ UNCHANGED <<opts, agentVars, pc, report, bearer, call, ret, stored, epoch, countVars>>

\* Without any success the failure of the last target is the last of the loop.
CycleEnds(w) ==
    /\ pc[w] = "judge"
    /\ next[w] > NTargets
    /\ Return(w, IF opts.returnFailure /\ good[w] = {} THEN call[w][NTargets].last ELSE "nil")
    /\ UNCHANGED <<opts, agentVars, next, report, bearer, call, good, stored, epoch,
                   countVars>>

\* The 401 of the primary: the cache file is removed (or stays, with a warning).
ClearTokenCache(w) ==
    /\ pc[w] = "judge"
    /\ next[w] \in Targets
    /\ NeedsRefresh(w, next[w])
    /\ \/ cache' = (IF opts.cached THEN None ELSE cache) /\ UNCHANGED faults
       \/ opts.cached /\ Fault /\ UNCHANGED cache
    /\ Goto(w, "verify")
    /\ UNCHANGED <<opts, phase, expired, token, tmp, hb, next, report, bearer, call, good,
                   ret, stored, epoch, restarts>>

\* resolveToken(force): the licence server answers with a token.
VerifyWithMonitor(w) ==
    /\ pc[w] = "verify"
    /\ ~expired
    /\ bearer' = [bearer EXCEPT ![w] = epoch]
    /\ Goto(w, IF opts.cached THEN "write" ELSE "install")
    /\ UNCHANGED <<opts, agentVars, next, report, call, good, ret, stored, epoch, countVars>>

\* resolveToken without an answer: no token at all when that is allowed, else the
\* end of the cycle, whatever the other targets said.
VerifyFails(w) ==
    /\ pc[w] = "verify"
    /\ \/ expired /\ UNCHANGED faults
       \/ ~expired /\ Fault
    /\ IF opts.relaxed
         THEN /\ cache' \in IF opts.cached THEN {None, cache} ELSE {cache}
              /\ bearer' = [bearer EXCEPT ![w] = None]
              /\ Goto(w, "install")
              /\ UNCHANGED ret
         ELSE Return(w, "refresh") /\ UNCHANGED <<cache, bearer>>
    /\ UNCHANGED <<opts, phase, expired, token, tmp, hb, next, report, call, good, stored,
                   epoch, restarts>>

\* SaveTokenCache: the temporary file has one name for all goroutines.
WriteCache(w) ==
    /\ pc[w] = "write"
    /\ \/ tmp' = bearer[w] /\ Goto(w, "rename") /\ UNCHANGED <<ret, faults>>
       \/ Fault /\ Return(w, "refresh") /\ UNCHANGED tmp
    /\ UNCHANGED <<opts, phase, expired, token, cache, hb, next, report, bearer, call, good,
                   stored, epoch, restarts>>

RenameCache(w) ==
    /\ pc[w] = "rename"
    /\ IF tmp = None
         THEN Return(w, "refresh") /\ UNCHANGED <<cache, tmp>>
         ELSE cache' = tmp /\ tmp' = None /\ Goto(w, "install") /\ UNCHANGED ret
    /\ UNCHANGED <<opts, phase, expired, token, hb, next, report, bearer, call, good, stored,
                   epoch, countVars>>

MutInstallForgets(w) ==
    /\ pc[w] = "install"
    /\ call' = [call EXCEPT ![w][next[w]] = NoCall]
    /\ Goto(w, "resend")
    /\ UNCHANGED <<opts, agentVars, next, report, bearer, good, ret, stored, epoch, countVars>>

MutInstallResendsAll(w) ==
    /\ pc[w] = "install"
    /\ token' = bearer[w]
    /\ call' = [call EXCEPT ![w] = [t \in Targets |-> NoCall]]
    /\ Goto(w, "resend")
    /\ UNCHANGED <<opts, phase, expired, cache, tmp, hb, next, report, bearer, good, ret,
                   stored, epoch, countVars>>

\* SetCurrentToken; then SendOne once more, to the primary alone.
Install(w) ==
    /\ pc[w] = "install"
    /\ token' = bearer[w]
    /\ call' = [call EXCEPT ![w][next[w]] = NoCall]
    /\ Goto(w, "resend")
    /\ UNCHANGED <<opts, phase, expired, cache, tmp, hb, next, report, bearer, good, ret,
                   stored, epoch, countVars>>

\* The second SendOne: a success like any other, or the end of the cycle.
ResendDone(w) ==
    /\ pc[w] = "resend"
    /\ \A t \in Targets : call[w][t].done
    /\ IF call[w][next[w]].last = "ok"
         THEN /\ good' = [good EXCEPT ![w] = @ \union {next[w]}]
              /\ next' = [next EXCEPT ![w] = @ + 1]
              /\ Goto(w, "judge")
              /\ UNCHANGED ret
         ELSE Return(w, call[w][next[w]].last) /\ UNCHANGED <<good, next>>
    /\ UNCHANGED <<opts, agentVars, report, bearer, call, stored, epoch, countVars>>

(***************************************************************************)
(* The heartbeat                                                           *)
(***************************************************************************)

\* A tick: the server extends the token of its epoch (under the same or a new
\* one, or with an empty answer); the answer is on its way.
HeartbeatSent ==
    /\ hb.pc = "wait"
    /\ ~expired
    /\ token = epoch
    /\ \/ \E answer \in {epoch, None} :
             hb' = [pc |-> "answered", answer |-> answer] /\ UNCHANGED epoch
       \/ /\ epoch < MaxEpoch
          /\ epoch' = epoch + 1
          /\ hb' = [pc |-> "answered", answer |-> epoch']
    /\ UNCHANGED <<opts, phase, expired, token, cache, tmp, cycleVars, countVars>>

\* A 401 or 403, and the verification that follows it.
HeartbeatRefused ==
    /\ hb.pc = "wait"
    /\ ~expired
    /\ token # epoch
    /\ hb' = [hb EXCEPT !.pc = "reauth"]
    /\ UNCHANGED <<opts, phase, expired, token, cache, tmp, cycleVars, epoch, countVars>>

HeartbeatReauth ==
    /\ hb.pc = "reauth"
    /\ \/ ~expired /\ hb' = [pc |-> "answered", answer |-> epoch] /\ UNCHANGED faults
       \/ expired /\ hb' = [hb EXCEPT !.pc = "wait"] /\ UNCHANGED faults
       \/ ~expired /\ Fault /\ hb' = [hb EXCEPT !.pc = "wait"]
    /\ UNCHANGED <<opts, phase, expired, token, cache, tmp, cycleVars, epoch, restarts>>

\* SetCurrentToken with an answer that may be older than the token in place.
HeartbeatAnswered ==
    /\ hb.pc = "answered"
    /\ token' = IF hb.answer # None THEN hb.answer ELSE token
    /\ hb' = [pc |-> "wait", answer |-> None]
    /\ UNCHANGED <<opts, phase, expired, cache, tmp, cycleVars, epoch, countVars>>

HeartbeatEnds ==
    /\ hb.pc = "wait"
    /\ expired
    /\ hb' = HeartbeatOff
    /\ UNCHANGED <<opts, phase, expired, token, cache, tmp, cycleVars, epoch, countVars>>

CycleStep(w) ==
    \/ CollectTask(w) \/ CollectCanceled(w) \/ EncodeFails(w) \/ Encode(w)
    \/ SendReports(w)
    \/ \E t \in Targets : SendCanceled(w, t) \/ SendAnswered(w, t) \/ SendFails(w, t)
    \/ SendDone(w) \/ Judge(w) \/ CycleEnds(w)
    \/ ClearTokenCache(w) \/ VerifyWithMonitor(w) \/ VerifyFails(w)
    \/ WriteCache(w) \/ RenameCache(w) \/ Install(w) \/ ResendDone(w)

HeartbeatStep ==
    HeartbeatSent \/ HeartbeatRefused \/ HeartbeatReauth \/ HeartbeatAnswered \/ HeartbeatEnds

Next ==
    \/ Boot \/ Crash \/ Expire \/ Revoke
    \/ \E w \in Workers : BeginCycle(w) \/ CycleStep(w)
    \/ HeartbeatStep

Spec == Init /\ [][Next]_vars

\* Goroutines run, tickers tick (BeginCycle, the heartbeat's requests) and the
\* process is started again.  MaxFaults bounds the failures, MaxEpoch the
\* revocations: in the end the environment behaves.
Fairness ==
    /\ WF_vars(Boot)
    /\ \A w \in Workers : WF_vars(BeginCycle(w)) /\ WF_vars(CycleStep(w))
    /\ WF_vars(HeartbeatStep)

FairSpec == Spec /\ Fairness

(***************************************************************************)
(* Properties                                                              *)
(***************************************************************************)
\* The type invariant: every variable of the cycles holds a value of its type.
TypeOK ==
    /\ opts \in Options
    /\ phase \in {"down", "up"}
    /\ expired \in BOOLEAN
    /\ token \in Token
    /\ cache \in Token
    /\ tmp \in Token
    /\ hb \in Heartbeat
    /\ pc \in [Workers -> Stages]
    /\ next \in [Workers -> Nat \ {0}]
    /\ report \in [Workers -> [Tasks -> Entry]]
    /\ bearer \in [Workers -> Token]
    /\ call \in [Workers -> [Targets -> Call]]
    /\ good \in [Workers -> SUBSET Targets]
    /\ ret \in [Workers -> Error]
    /\ stored \in [Workers -> SUBSET Targets]
    /\ epoch \in 1 .. MaxEpoch
    /\ faults \in 0 .. MaxFaults
    /\ restarts \in 0 .. MaxRestarts

\* What the nil of w's last cycle stands for.
Delivered(w) ==
    /\ pc[w] = "idle" /\ ret[w] = "nil"
    /\ opts.returnFailure /\ ~opts.dryRun
    /\ opts.cancelPolicy = "DropCanceled" => ~expired
    => stored[w] # {}

\* Under ReturnFailure a cycle that returns nil has put its report into the hands of
\* some target, through retries, lost answers, a refreshed token and a resend
\* (runner.go cycle; options.go:36).  A dry run sends nothing, and DropCanceled asks
\* for nil when the deadline ended the collection.
NilMeansDelivered == \A w \in Workers : Delivered(w)

\* No task is missing from a report that goes out, whenever the deadline strikes and
\* whichever collectors fail: its entry is a value or an error (collect.go; the test
\* of main_test.go:45, "does not vanish silently").
NoTaskVanishes ==
    \A w \in Workers :
        pc[w] \notin {"idle", "collect"} /\ ~opts.emptyOnFailure
            => \A i \in Tasks \ Disabled : report[w][i] # "none"

\* A target that confirmed a cycle's report is not sent it again, neither by a retry
\* nor by the resend after a refresh (reporter.go SendOne; runner.go cycle).
SentOnce ==
    [][\A w \in Workers, t \in Targets :
          call[w][t].last = "ok" /\ pc[w] # "idle" => call'[w][t].last = "ok"]_vars

\* Once the licence server stops revoking, the token the cycles use stays one it
\* accepts: late answers to the heartbeat, concurrent refreshes, a stale cache file
\* after a restart and allowed fallbacks do not keep an old one alive (runner.go
\* cycle; verifier.go heartbeatLoop).
TokenRecovers == <>[](token = epoch)

\* Cycles keep ending, and once network, disk and licence server behave every one of
\* them delivers, in spite of the temporary file the refreshes share
\* (token_cache.go:102) and of the refreshes that fail by it.
DeliveryRecovers ==
    \A w \in Workers :
        /\ []<>(pc[w] = "idle")
        /\ <>[](pc[w] = "idle" => ret[w] = "nil" /\ stored[w] # {})

(***************************************************************************)
(* What the safety properties rest on                                       *)
(***************************************************************************)
\* The tasks the loop has passed are in the report.
Reported(w) ==
    pc[w] # "idle" /\ ~opts.emptyOnFailure
        => \A i \in Tasks \ Disabled :
              pc[w] # "collect" \/ i < next[w] => report[w][i] # "none"

\* SendOne ends with an answer or an error, and a confirmation ends it.
Sent(w) ==
    \A t \in Targets :
        /\ call[w][t].done => call[w][t].last # "nil"
        /\ ~call[w][t].done => call[w][t].tries <= RetryCount
        /\ call[w][t].last = "ok" => call[w][t].done /\ t \in stored[w]

\* The loop over the results counts confirmations, and leaves it only for a refresh.
Judged(w) ==
    /\ pc[w] \in {"judge", "verify", "write", "rename", "install", "resend"}
         => /\ \A t \in Targets : pc[w] # "resend" \/ t # next[w] => call[w][t].done
            /\ \A t \in Targets :
                  t < next[w] /\ call[w][t].last = "ok" => t \in good[w]
    /\ pc[w] \in {"verify", "write", "rename", "install", "resend"} => next[w] \in Targets
    /\ pc[w] \in {"verify", "write", "rename", "install"}
         => call[w][next[w]].last = "status401"
    /\ good[w] \subseteq stored[w]

\* The inductive invariant: types, what a cycle has done at each of its steps, and
\* what its result stands for (runner.go cycle).
IInv ==
    /\ TypeOK
    /\ \A w \in Workers : Reported(w) /\ Sent(w) /\ Judged(w)
    /\ NilMeansDelivered

(***************************************************************************)
(* What the documentation says and the code does not do                     *)
(***************************************************************************)
\* What registry.go:20-21 says of the overall timeout: a report with the values
\* obtained so far is left.  Nothing but the deadline keeps these from being sent.
PartialReportDelivered ==
    \A w \in Workers :
        /\ pc[w] = "idle" /\ ret[w] # "none"
        /\ opts.cancelPolicy = "ReportCanceled" /\ ~opts.dryRun
        /\ \E i \in Tasks : report[w][i] = "value"
        /\ faults = 0 /\ epoch = 1
        => stored[w] # {}

\* What options.go:36 and the test at runtime_policy_test.go:276 say: an error means
\* that every target failed, partial delivery is not fatal.
ErrorMeansAllFailed ==
    \A w \in Workers :
        pc[w] = "idle" /\ ret[w] \notin {"none", "nil"}
            => \A t \in Targets : call[w][t].last # "ok"

=============================================================================
