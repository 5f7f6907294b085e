# heartpost, specified

heartpost is a monitoring pair written in Go: an **agent** on each server collects
values and posts a signed report at intervals, and a **monitor** stores the reports,
judges from their absence that a server has gone quiet, and tells a webhook once when
that happens and once when the server is back. This directory holds TLA+ models of
the program, the TLC configurations that check them and the TLAPS proofs about them.
Paths below are relative to the repository's root (`src/` here).

Contents: [1 inventory](#1-the-system) · [2 modules](#2-the-modules-and-the-code) ·
[3 runs](#3-runs) · [4 fairness](#4-fairness) · [5 proofs](#5-proofs) ·
[6 code and documentation](#6-where-the-code-and-its-documentation-disagree) ·
[7 not modelled](#7-what-is-not-modelled) · [8 plan](#8-plan)

## 1. The system

```
 agent process                                    monitor process
 ┌──────────────────────────────────────┐         ┌────────────────────────────────────┐
 │ LoadConfig ─ New                     │         │ Load (configuration)               │
 │ Runner.Run ── services, heartbeat    │  POST   │ Handler.ServeHTTP (one goroutine   │
 │   │                                  │ /report │   per request) ── Append ─┐        │
 │   └ worker per group: cycle =        │ ──────► │                        Store ── state.json
 │       token → collect → send         │ signed, │  Checker.Run ─ Check ──┤    └── YYYY-MM-DD.jsonl
 │ collectors: jsonl, audit, nextcloud  │ retried │      └─ Notify ────────┼──────► webhook
 └──────────────────────────────────────┘         │  Dashboard ────────────┘           │
   lock file, token cache, JSONL files,           └────────────────────────────────────┘
   checkpoints
```

| Component | State it keeps | Operations | Interacts with |
|---|---|---|---|
| **Store** `core/receiver/store.go` | map of agent states, `state.json`, daily JSONL files, all under one mutex | `NewStore`/`loadState`, `Append`, `SetLiveness`, `EnsureAgent`, `States`, cleanup of expired files | handlers, Checker, dashboard, `run` |
| **Report handler** `core/receiver/handler.go` | none of its own; any number run at once | allow list, validation, signature, clock skew, `Store.Append` | agent's `SendOne`, Store |
| **Checker** `core/receiver/liveness.go` | ticker; snapshot and verdict of the check in progress | `Run` (ticker loop), `Check` (snapshot, judge, notify, write back) | Store, notifier |
| **Webhook notifier** `core/notify/webhook.go` | none | `Notify`: one POST with a timeout | external webhook |
| **Dashboard** `core/receiver/web.go` | none | `ServeHTTP`, `buildPage`: judges the Store anew | Store |
| **Monitor process** `cmd/heartpost-monitor/main.go`, `config.go` | life of the process, configuration | `Load`, `EnsureAgent` loop, serve, shutdown, crash and restart | all of the above |
| **Agent command** `cmd/heartpost-agent/`, `agent/config*.go`, `defaults.go`, `registry.go` | none | `LoadConfig`, `OptionsFromConfig` | Runner |
| **Runner** `agent/runner.go` | `started`, `closed`, `done`, contexts, worker goroutines, a failures channel of capacity 1, a process-wide mutex | `New`, `Run`, `Close`, the deferred functions | services, collectors, reporter, licence, lock file |
| **File lock** `filelock/` | the lock on a file | `Acquire` without waiting, release | Runner, other processes |
| **Collection** `agent/collect.go` | none | `Collect` task by task under the context | collectors |
| **Reporter** `agent/reporter.go`, `agentsig/` | none | `SendReports`, `SendOne` with retries, signed per attempt | the monitor's handler, other targets |
| **Licence, token cache** `agentlicense/`, `agent/license.go`, `agent/token_cache.go` | current token (memory), cached token (file) | verify, resolve, refresh after a 401, heartbeat | Runner's cycle, licence server, offline file |
| **Audit log tail** `collector/optional/audit_log_tail/` | checkpoint (file, offset) | `Collect`: read since the checkpoint, save it | dated log files of another program |
| **JSONL template** `collector/jsonl.go` with ssh, nginx, fail2ban, http_outcome | the keys in its JSONL file | `Run`: tail, deduplicate, append, rename | log files |
| **Receipt sink** `httpoutcome/` | open file | `RoundTrip`, `Record`, `Close`, the trusted path | http_outcome's collector |
| **Nextcloud collector** `collector/optional/nextcloud/` | place in two logs, mark of a pending append, local copy | `Collect`: recover, read two logs within one budget, append, save | logs that logrotate copies or renames |
| System and optional collectors, honeypot server, object storage, agent log file, payload format | | | section 7 |

What is hard in it, and what makes each part correct:

* **Monitor.** `Check` copies the whole Store and then works on the copy for as long as
  the webhooks take, while handlers store reports and time goes on; each verdict is
  written back over whatever the Store holds by then. A webhook call may be lost, may
  arrive with its answer lost, and may be cancelled by a shutdown that does not wait
  for the Checker. Saving `state.json` may fail after memory changed, and the process
  may end anywhere. Correct means: confirmed alerts alternate per agent; the record
  of what was confirmed is lost only by a process end; concurrent reports never touch
  what a check will write back; an outage and its end are announced in the end; the last
  report's line outlives its retention; the page agrees with the Checker.
* **Delivery.** An attempt may be lost on either way, be held back, or time out while
  the monitor still handles it; a retry may come long after the first attempt; the
  window for its age is computed in an int64. A line may be half written and the next one
  appended behind it. Correct means: what is acknowledged is stored, an attempt leaves
  one line at most, nothing old is admitted and a client in step is never refused.
* **Runner.** One goroutine runs `Run`; others run the groups, the heartbeat and any
  number of `Close` calls; a failing group cancels the others; six deferred functions
  and as many early returns have to give back what was taken and nothing else. Correct means:
  runs never overlap; nothing goes on after `Close` returned nil; work ends before the
  services it uses; the error returned is the first failure; `Close` comes to its end.
* **Cycle.** Concurrent cycles share a token that a heartbeat and a 401 refresh both
  replace; targets fail one by one. Correct means: nil is returned only for a delivered
  report, nothing is sent again that was confirmed, a rejected token does not stay in use.
* **Licence.** A cached token outlives the process, the server's decision and its key.
  Correct means: after a revocation only the last token's life is left; what was saved
  can be used.
* **Log readers.** Places and keys on disk, against files that another program appends
  to, rotates, truncates and deletes, with a failure or a process end between any two
  writes. Correct means: no event twice, none lost but in ways the code accepts.

`PROJECT.json` lists every hazard at its line with the properties that cover it.

## 2. The modules and the code

| Module | Models | Extends / instances |
|---|---|---|
| `Store` | `store.go`: one operator per operation | |
| `AlertChannel` | no code: what the monitor promises the operator | |
| `Monitor` | `liveness.go`, the accepting path of `handler.go`, `main.go`'s life cycle, `Notify` as the Checker sees it | `Store`; `INSTANCE AlertChannel` |
| `Dashboard` | `web.go`'s `buildPage` over the Store of `Monitor` | `Monitor` |
| `MonitorConfig` | `config.go`'s `Load`, `Thresholds.For`, the page's own check of a request | |
| `ReportChannel` | no code: what reporting promises its caller | |
| `ReportDelivery` | `SendOne`, a network, `ServeHTTP` with every check, `Append`'s partial failures | `INSTANCE ReportChannel` |
| `AgentSetup` | `LoadConfig`, `OptionsFromConfig`, `New` | |
| `Runner` | `runner.go`'s `Run` and `Close`, `filelock` as used there | |
| `Cycle` | `runner.go`'s `cycle`, `collect.go`, `SendReports`, the token of `verifier.go` under concurrent cycles | |
| `License` | `verify`, `resolveToken`, `token_cache.go`, what `agentlicense` accepts | |
| `AuditLogTail` | the audit log collector's `Collect` | |
| `EventLog` | `JSONLLogCollector.Run` and the keys and lines of its four collectors | |
| `Receipts` | `httpoutcome`: transport, classifier, sink, trusted path; with the collectors that read | `EventLog` |
| `NextcloudTail` | the Nextcloud collector's `Collect` | |
| `MonitorProofs` | theorems about `Monitor`, `Dashboard` and `MonitorConfig` | those three, `TLAPS` |
| `RunnerProofs` | theorems about `Runner` and `AgentSetup` | those two, `TLAPS` |
| `DeliveryProofs`, `CycleProofs`, `LicenseProofs`, `AuditLogTailProofs`, `ReceiptsProofs`, `NextcloudProofs` | theorems about `ReportDelivery`, `Cycle`, `License`, `AuditLogTail`, `Receipts`, `NextcloudTail` | the module, `TLAPS` |
| `MC...` | constants for TLC; `MCMonitor` takes thresholds, retention and keys from `Load` of a file, `MCRunner` its options from `New` | |

### Store and Monitor

`states` is the map, `disk` the content of `state.json` (all agents absent when there
is no file), `files` the JSONL files that exist, as pairs of agent and day. Every method
holds `Store.mu` from its first to its last access, so each is one operator and becomes
one step. `saved` says whether `saveStateLocked` (temporary file plus rename) succeeded:
as in the code the map has changed by then, and `Append` returns before the cleanup.
`time.Time{}` is 0; `Day` is division by `DayLength`. Labels, summaries and the text of lines
are left out: no property tells them apart.

| Action | Code |
|---|---|
| `Start`, `Ensure`, `EnsureFails`, `Serve` | `run`: configuration and `NewStore`, the loop over `AgentKeys`, its error return, `go checker.Run` and `ListenAndServe` |
| `Shutdown`, `Crash` | SIGTERM; the process ends, by being killed or because `run` returns (it waits for handlers, at most ten seconds, and not for the Checker) |
| `Accept`, `AppendReport` | `ServeHTTP`: `now` is read (handler.go:194) in one step, `Store.Append` runs under the lock in a later one; other requests and checks come in between |
| `TickerFire` | `time.Ticker`: a channel of capacity 1 that drops ticks and keeps the time of the one it holds |
| `CheckBegin`, `ScanSkip`, `ScanJudge`, `CheckEnd` | `Check`: the snapshot, the loop over its agents in order, `continue` for agents never heard from or unchanged |
| `NotifyAcked`, `NotifyFails` | the webhook call: confirmed; or an error, with the POST lost or received |
| `WriteBack` | `SetLiveness`, its save failing or not; the error is only logged |

`checker` holds `Check`'s local variables, `slot[h]` a request between its two steps.
The observer's variables are not in the program: `acked` (last alert the webhook
confirmed, per agent), `bell` (flips with every confirmation, so that a repeated alert
is a step), `seen` (last alert the webhook received) and `forgot` (a process end lost
the record of the last confirmation). No guard reads them.

`ImplementsAlertChannel` is the refinement `AlertChannel WITH told <- acked, doubtful <-
forgot`: confirmed alerts alternate, beginning with an outage, except that after a process end
which lost the record one alert may repeat. `Dashboard!PageAgrees` relates what the page
computes on its own to what the Checker decided.

### MonitorConfig and AgentSetup

Pure operators from a file's fields to what the program runs with. A field of the monitor's file is
unset, of spaces, unreadable, or a duration; `WrapDuration` is int64 multiplication. `AgentSetup`
follows a configuration from `LoadConfig` (the mode of `agent_secrets.toml`, defaults,
refusals) through `OptionsFromConfig`, where seconds become nanoseconds that may wrap, to
`New`. `LoadIsSound` and `CommandIsRunnable` are the promises: proved for any file, and evaluated for
thousands of them by the ASSUMEs of `MCMonitor` and `MCRunner`, which also show that both verdicts occur.
A `timeout_sec` above 9 223 372 036 wraps: then `New` refuses it or the run has no end; `Plausible`
names that exception.

### ReportDelivery

One `SendOne` per sender. `client` is the sender's configuration, right or wrong in any
way the handler checks; `call[s][n]` is the request of attempt `n`: sent, admitted
(between the checks and `Append`), answered, or gone. `Arrive` applies the checks in
`ServeHTTP`'s order (method, agent id, allow list with forwarded addresses, size of the body, timestamp and
signature present, skew, key and signature, the id the body claims); `Stored`, `StoreTorn` and `StoreOpenFails` are `Append`'s outcomes: the line
with or without `state.json`, half a line, nothing. `torn` are the files that end in half a
line and `spoilt` the lines appended behind one. `SendOne` may meanwhile have timed out
(`TimedOut`) and be on its next attempt: a late request is still handled, and its answer
reaches nobody. Times are int64 of width `2 * Half`, and a header may hold any of them; `Wrap` is the arithmetic of
the skew check. `ReportChannel` is the abstract
promise.

### Runner

`pc[r]` walks through `Run`; each deferred function is a stage of its own, entered in
the reverse order of registration, and each early return goes to the stage of the first
function registered by then: `unlock` (the mutex), `release` (the lock file),
`stopServices`, `joinHeartbeat`, and `final` (cancel, `closed`, `close(done)`).
`worker[r][g]` is the goroutine of a group: in a cycle, about to report a failure
to the channel, about to cancel the others, in its `select`, or done. A cycle is one span
with an outcome; only an outcome that blames the context is restricted (it must
be done). `ctx[r]` records who cancelled the run's context first: `outside` (parent
context, timeout, `Close`) or `inside` (`Run` and its groups); the code does not record
that, `FirstFailureIsCause` needs it. `select` with both channels ready is two actions
enabled at once. `active` is the package's mutex (taken with `TryLock`), `fileLock` the
lock file, which `OtherProcess` competes for. `Options` is what `New` makes of
the options it accepts.

### Cycle

The span `Runner` leaves open. `pc[w]` is where a worker's cycle is:

| Stage | Actions | Code |
|---|---|---|
| `idle` | `BeginCycle` | the worker's loop; a failed cycle ends it under `ReturnFailure` (`EndsRun`) |
| `collect` | `CollectTask`, `CollectCanceled`, `EncodeFails`, `Encode` | `collect`, one iteration per step; `EncodePayload`; the dry run's return |
| `token`, `send` | `SendReports`; `SendCanceled`, `SendAnswered`, `SendFails` per target; `SendDone` | `CurrentToken`, the goroutines of `SendReports`, one attempt of `SendOne` per step, `wg.Wait` |
| `judge` | `Judge`, `ClearTokenCache`, `CycleEnds` | the loop over the results and the return after it |
| `verify` to `resend` | `VerifyWithMonitor`, `VerifyFails`, `WriteCache`, `RenameCache`, `Install`, `ResendDone` | the branch for a 401 of the primary: `resolveToken(force)`, `SaveTokenCache` in its two system calls, `SetCurrentToken`, the second `SendOne` |

A report is, per task, nothing, a value or an error. `call[w][t]` holds the local
variables of `SendOne`, `stored[w]` the targets that really have the report of w's cycle
(also when the answer was lost); the code does not know it. `good[w]` is the `successes`
counter as a set. `Boot` is `Run`'s `verify`, `Crash` any end of the process, `Expire`
the end of its context.

Tokens are numbers of the licence server's epochs. It lives outside the repository
and is modelled from its use: it accepts the tokens of its current epoch, hands out
those to whoever verifies, may replace them when it extends one (`HeartbeatSent`) and
may revoke them at any time (`Revoke`).

Two things the model shows that no document denies. The temporary file of the cache has one
name, so of two workers that refresh at once one may install the other's token in the file and
the second rename fails, which that cycle returns as an error; `DeliveryRecovers` shows
that cycles deliver again. The heartbeat's re-authentication does not write the cache: a
restart may begin with a token known to be revoked, which the first 401 repairs.

### License

What `Cycle` takes as given: when a token is good. `Verify` is the check of the licence key
on the spot; `Valid` the check of a cache entry; `Boot`, `ReadCache`, `Ask`, `Answer`,
`Fallback`, `Save` and `Rename` the steps of `verify` and `resolveToken`, each with its failure;
`Refresh` the forced one after a 401. `left` keeps what the cache file held before the first start: anything, also an
entry of this agent's own, with or without a kid and an end of its own. Tokens, keys and files are records of what their
verification looks at; a signature is a Boolean. The server's clock may be ahead, it
may change its key, and revoke. `start` records on which ground the process runs, and
since when that ground is known. A licence refusal is treated like a server that cannot be
reached, as in the code: both lead to `Fallback`.

### The log readers

All three count offsets, fingerprints and sizes in lines (or units of size): a line
without its newline is one that is not there yet.

`AuditLogTail`: one file per day, a checkpoint, at most `maxEventsPerCollect` events.
`Collect` opens the checkpoint's file and the latest, and hands its events over once the
checkpoint is on disk. A checkpoint that cannot be read or decoded is none (line 78 drops the error): `loadState`
may then be `Start` whatever `state` is, and `resets` keeps the places in `given` where that
was saved, since events of the latest file come again after them. `excused` holds what `Collect` loses in ways the
code accepts: events ahead of the checkpoint in files it does not open (days strictly between those two files, and
all but the latest after such a read), and those whose process ended after the save.

`EventLog` and `Receipts`: `run` is `Collect`'s place: start, one step per file, append, rename, return. What identifies
an event is the collector's `Key`; a line cut off by a failed write is `Torn`, and the
next one glued to it is noise. `LoadSeen` knows the keys of a prefix of the JSONL file: all of it, or, as the fault
`unread`, what comes before an error of opening or scanning it, which the code drops. http_outcome's log is written by the `RoundTrip`s of an
application through a `FileSink`, and read only over a path whose owners and modes are
trusted.

`NextcloudTail`: `loadState` is a state file, or a log's entry in it, that cannot be used: the log's content is then
passed over as at the first Collect. `Read` is `recoverAppend` and both sources in one step, under a budget of one unit
(the code counts bytes and events); `SavePending`, `AppendJSONL`, `Rotate` and `Return` the four writes, each of
which may fail or be the last (`Fails`). `CopyApp`/`TruncateApp` is logrotate's
copytruncate in its two steps, `RenameAudit` its create, with inodes used again. The exceptions `NothingSkipped` names, in `excused` and `Unrecognised`: events
from before the first Collect, or the one that found no place; files rotated twice between two looks, or without a trace (from an empty or missing
file); the copy of a copytruncate that a fingerprint taken half-way no longer matches; an event no report
can hold; and what a Collect had saved and not returned when it ended.

## 3. Runs

All runs are exhaustive. `N` is the number of distinct states.

| Run | Instance | N | Checks |
|---|---|---|---|
| `mon_alerts` | 1 agent which a restart may find dropped, 1 handler, clock to 4, 2 process ends, failing saves and webhooks, lost answers, fairness | 395 958 | `AlertsRecorded`, `DownSinceStable`, `ImplementsAlertChannel`, `AlertsConverge` |
| `mon_handlers` | 2 agents with different thresholds, 2 handlers, days of one unit, retention 1, failing writes | 1 117 840 | `SnapshotOwned`, `LastReportKept`, `PageAgrees` |
| `run_groups` | 1 runner, 2 groups, 2 services, heartbeat, 2 closers, 3 ticks, both modes and failure policies, fairness | 31 352 | `ServicesOutliveWork`, `FirstFailureIsCause`, `FailureReturned`, `CloseCompletes`, `FailureEndsRun` |
| `run_pair` | 2 runners, 2 closers, with and without lock file, another process | 414 708 | `WorkIsGuarded`, `ClosedMeansIdle` |
| `cyc_policies` | 1 worker, 3 tasks (1 disabled), 2 targets, 1 retry, 14 option records, 2 failures, 1 revocation | 667 686 | `NilMeansDelivered`, `NoTaskVanishes`, `SentOnce` |
| `cyc_tokens` | 2 workers, heartbeat and cache file, 1 revocation, 1 failure, 1 restart, fairness | 426 651 | `TokenRecovers`, `DeliveryRecovers` |
| `delivery` | 1 sender out of 23 clients, 5 allow lists, 1 retry, clock to 3, lost messages, failing file, `state.json`, short writes, fairness | 552 638 | `IInv`, `AcknowledgedStored`, `StoredWithinSkew`, `InStepNeverUnauthorized`, `ImplementsReportChannel`, `SendOneReturns` |
| `license` | 10 configurations, 3 licence files, 7 leftover caches of this and another agent, 2 keys, 1 revocation, clock to 3 | 5 250 092 | `IInv`, `RevokedEndsStarts`, `SavedIsReusable` |
| `audit` | 3 days, 3 lines, 2 events per Collect, one unreadable checkpoint, failing saves, crashes, removals, truncation, fairness | 470 932 | `IInv`, `GivenOnceInOrder`, `NothingPassedOver`, `BacklogDrains` |
| `receipts` | 4 collectors, 3 lines, 2 lines per Run, file of 2, 2 requests, 3 paths, 3 owner lists, 2 faults, fairness | 395 828 | `NothingOverlooked`, `ReceiptsAccepted`, `AgainOnlyIfForgotten`, `CaughtUp` |
| `nextcloud` | 2 logs, 3 lines, 2 rotations, budget 2, 1 fault | 4 199 456 | `NothingTwice`, `NothingSkipped`, `LocalCopyExact`, `PutOffOnce` |
| `receipts_again` | http_outcome without faults | 160 012 before the violation | `ReceiptSentOnce`, violated: section 6 |

What the properties say is written above each of them in the modules. Each has a mutant (an operator
`Mut...` beside the definition it replaces) that stands for a plausible bug and that the
property's run finds: dropping `Notified` in `SetLiveness`, an off-by-one in the retention, returning without joining the workers, replacing the
first failure in the channel, signing a retry with the first attempt's time, comparing only one wrapped
difference, forgetting the limit's rest after a day change, keys that leave the operation id out, and so on.

**Why the bounds are enough.** The named bounds are `MaxTime`, `MaxCrashes`, `MaxTicks`,
`MaxEpoch`, `MaxFaults`, `MaxRestarts`, `MaxResets`, `MaxLines`, `MaxRotations`, `Lines`, `Days` and the
sizes of the sets.

* Monitor: a clock to 4 with threshold 1 lets an agent report, go quiet, be
  judged down, report again, be judged up and go quiet again, with a snapshot older than any of these;
  one agent is enough for properties about one agent's alerts since the Checker treats
  agents one after the other and the Store's entries are independent; `mon_handlers` checks
  that two do not disturb each other. Two process ends allow a restart whose record was lost and one that
  then loses another. Two handlers are the least that store in another order than they read the clock.
* Runner: two groups are the least where one failure cancels another group; two runners the least that compete.
* Cycle: two targets with different options let one fail in every way while the other
  succeeds, two failures exhaust the retry, two epochs give every holder of a token the
  chance to hold a stale one, and two workers are the least that refresh at once.
* Delivery: two attempts, a timeout of 1 and a clock to 3 let the first request arrive
  during the second, after it, and after `SendOne` returned. `Half` is 32 and the furthest drifts are -32 and 28, the ends
  of what a header can hold: the difference from the monitor's clock wraps for the first, and at a distance of 32 its
  negation too; 23 clients, each sound or wrong in one thing, and five allow lists take every branch of the handler.
* Licence: lifetimes 0 (for ever) and 1, a server one unit ahead, and a clock to 3 put every moment on both
  sides of every end; two keys let the server change to one the agent does not trust.
* Log readers: three days are the least with one in between; three lines with limit two
  leave a rest in the old and in the new file; one lost checkpoint lets events come before and after it; two rotations put an unseen file in
  place; two faults reach a torn line with another one glued to it. In `nextcloud` the one
  fault is a failed step or a lost place; that a mark is lost with the state file after a failed step, which takes two, is
  covered by the proofs.

The proofs of section 5 cover the safety properties of every run for all sizes; the
bounds matter for the liveness properties, and for finding out what to prove.

Agents are numbers, since `States()` sorts by name and the order of `Check`'s loop
follows. Symmetry is used for handlers, closers and runners, and only in runs
without temporal properties. Deadlock is checked in the `mon_*` runs, `cyc_tokens` and `license`; the
others turn it off because the system may stop: a runner that returned, a `Close` that ended, a run
whose cycle failed, a `SendOne` that returned, a log nobody writes to any more (the bound).

## 4. Fairness

`Monitor!FairSpec`: weak fairness for what goroutines do once they can (start-up, append,
ticker, the Checker's steps), for the end of a process that is shutting down and the
start of one that has ended, and for the clock up to its bound. Strong fairness only
for `NotifyAcked`: a webhook that fails for ever refutes any promise, but between two
successes it may fail any finite number of times. Saves of `state.json` may fail every
time, since the map in memory is what the Checker reads. Nothing makes a report arrive, a
process end or a failure happen.

`ReportDelivery!FairSpec`: weak fairness for the clock (up to its bound; `TimedOut` needs a
timer, not an answer) and for each sender's goroutine. Nothing makes the network or the monitor do
anything: `SendOneReturns` holds against all of it.

`Runner!FairSpec`: weak fairness for the step each goroutine is at, and for the end of
the heartbeat once its context is done (its request carries that context). Cycles end
by the timeouts of collectors and requests. Strong fairness for `SelectDone`: Go's
`select` chooses among ready cases at random, so a context that is done is not passed
over for ever although ticks keep arriving. Nothing makes a caller call `Run` or
`Close`, a tick arrive, or a cycle fail.

`Cycle!FairSpec`: weak fairness for each worker's next cycle and its steps (tickers
tick, requests have timeouts), for the heartbeat's, and for the start of a process that
has ended. Nothing makes a failure happen or keeps it from happening: `MaxFaults` bounds the
failures, `MaxEpoch` the revocations and `MaxRestarts` the ends of the process, so that
the environment behaves in the end, at a time the model does not choose. The run of
the liveness properties is of an agent under `WarnFailure`, which outlives its failed cycles.

`AuditLogTail!FairSpec`: `Collect` is called again and again (weak), and its save works now and
then (strong). `MaxResets` bounds how often a Collect goes on without its checkpoint: one that could never be read
would have the beginning of the latest file handed over for ever. `Receipts!FairSpec`: the collector's steps (weak); the application, logrotate
and the faults are left to themselves, the faults bounded.

## 5. Proofs

`tlapm` checks the eight `...Proofs` modules to the last leaf, for every value of the
constants that satisfies the modules' assumptions: `StoreAssumption`,
`MonitorAssumption`, `DashboardAssumption` (finitely many agents), `DeliveryAssumption`,
`ClockAssumption` (a header holds some int64; the monitor's clock stays the skew away from the last one),
`RunnerAssumption`, `CycleAssumption`, `LicenseAssumption`, `ConfigAssumption`,
`SetupAssumption`, `AuditLogAssumption`, `ReceiptsAssumption` and
`NextcloudAssumption`. So for any number of agents, handlers, senders, runners, groups, services,
closers, workers, tasks, targets, requests, paths, days, lines and rotations; any thresholds,
retention, retry count, word size, options, budgets, event sizes, fingerprint
lengths and bounds.

**Monitor.** The inductive invariant `Monitor!IInv` is what the alert properties rest
on and cannot do without:

* `CheckerShape`: the Checker is idle when no process runs it;
* `SnapshotOwned`: between the snapshot and an agent's write-back its `Down`, `DownSince`
  and `Notified` in the Store are those of the snapshot (only the Checker writes them;
  `Append` touches `LastSeen` only; `EnsureAgent` runs before the Checker does). Without
  it a write-back could undo anything;
* `VerdictOK`: the verdict in flight agrees with what the webhook confirmed;
* `EntriesOK`: entries in memory *and on disk* are consistent, since a restart turns the
  disk into memory;
* `AlertsRecorded`: `Notified` is the last confirmed alert, unless a process end lost it;
* `StampsPast`, `LastReportKept`: a request waiting for the lock carries a past time, so
  that a late `Append` never removes the file of a newer report.

Theorems: `TypeCorrect`, `Invariance`, `SnapshotStaysOwned`, `ConfirmedAlertsRecorded`,
`NeverRepeats`, `RecoveryNeverFirst`, `LastReportStays`, `PageStaysTrue` (the dashboard, below); the action property
`DownSinceStays`; and `Refinement`, that initial states and steps of the monitor are those
of `AlertChannel` or stutter.

**Delivery.** `ReportDelivery!IInv` says that where a request is tells what became of it
(`RequestKept`: it has a line only if it was admitted, a 200 only with a line, an
admitted one has a known id and an age within the skew), what its sender knows
(`SenderKept`: a nil comes from a 200 of one of its attempts), and that every half line in a file is
some request's of that agent (`HasFragment`). The age is where arithmetic matters: the lemma that
`InRange`, computed with a difference and a negation that both wrap, is the plain comparison for every int64 in the
header but one, the time 2^63 seconds before the monitor's (`Ages`). Theorems: `Invariance`, `AcknowledgedIsStored`, `NoSecondLine` (`OneLinePerAttempt`,
proved and not run), `NothingOldIsStored`; the action property `InStepIsHeard`; and `Refinement` to
`ReportChannel`.

**Runner.** `Runner!IInv` ties the stage of `Run` to everything else: `GuardsHeld` (which
stages hold which guard), `StageShape` (services, heartbeat and workers by stage),
`ClosersShape` (a closed runner never began or is over), `FailureShape` (a failure is in
the channel before the group that had it cancels the others, and the error "canceled"
gets there only if the context ended from outside). Each part has a lemma for the steps,
with one case per action; `OverStays` says that a runner closed before `Run`, or over,
stays so. Theorems: `TypeCorrect`, `Invariance`, `WorkStaysGuarded`,
`ServicesOutlive`, `ClosedStaysIdle`, `FirstFailure`, `FailureIsReturned`.

**Cycle.** `Cycle!IInv` says what a cycle has done at each of its stages: `Reported`
(every task the loop has passed is in the report), `Sent` (an attempt's confirmation
ends its `SendOne`, and the target has the report) and `Judged` (past `wg.Wait` every call is over,
every confirmation up to the current result is counted, and the branch for a 401 is
entered at a target that answered 401 and no other). `NilMeansDelivered` is inductive
only with all three: without any success the error returned is that of the *last*
target, so that one must have ended with an error rather than without an attempt. A step
of one worker leaves the parts of the others alone (`OthersStand`, `OthersKeep`); its own parts
have a lemma for each step that disturbs them. Theorems: `TypeCorrect`, `Invariance`,
`NilIsDelivered`, `TasksStay`, and the action property `ConfirmedOnce`.

**Licence.** `RevokedEndsStarts` alone is not inductive: a token in hand or in the cache may be used at any later time. `TokenInHand`
and `CacheKept` bound what each can be by `LastEnd`, the end of the last token the server
may have issued by now, which stops growing when it revokes, unless the cache still holds the entry the data directory
came with (`left`), for which its own ends count (`LeftGrants`); `StartKept` does the same for
the ground of the running process. Theorems: `Invariance`, `RevocationEndsStarts`, `SavedStaysReusable`.

**Configurations.** `MonitorProofs!LoadSound` and `RunnerProofs!CommandRuns` prove `LoadIsSound` and
`CommandIsRunnable` for any file; the core of both is the lemma that a duration within
half a word does not wrap.

**Dashboard.** `PageAgrees` compares the page's own judgement with the Checker's, so it rests on
what has been written back so far: `PageInv` adds to `Monitor!IInv` that only agents that
reported are down (`EntriesHeard`, of memory, disk and snapshot), and that what `Check`
has written back, or is about to, is what the page's `Silent` says of the snapshot at the
check's time (`JudgedAsShown`). That the agents held down come first and are
counted is then a lemma about the sorted page, for any finite set of agents.

**Audit log.** `AuditLogTail!IInv` compares the order of the lines with the two places a reader can
have, the checkpoint and the end of what a Collect under way has read: lines are numbered in the order of the files
(`FilesInOrder`); everything a reader at the place still comes to is newer than everything it
gave (`Behind`, which has to hold of an emptied file that has not yet grown past the old
offset too); and what was read continues what was given, with all that was due on the way
(`Continues`). The first and the last are claimed of what was handed over since the last reset only (`Continued`), and
a Collect that could not read its checkpoint continues nothing. What `Collect` returns is a recursive function of a file; the lemmas describe its value by
its length and its elements, each proved by the least index at which it could
fail (`LeastNumber`).

**Receipts.** `Receipts!IInv` relates what was looked at, what was written to the JSONL file and what is
remembered: everything looked at is on its way, shipped or lost (`LookedInv`), everything shipped is remembered or
forgotten by a rename or a torn line (`KeysInv`; a Run that cannot read the file to its end forgets for itself only), and every receipt in the log is of a request
of its own, which is done (`RequestsInv`). Theorems: `Invariance`, `EventsReturned`,
`RecordedAreAccepted`, and the action property `ReadOnce`.

**Nextcloud.** None of the four properties is inductive, and the reason is the same as why the code
needs offsets, inodes and fingerprints together. `NextcloudTail!IInv` is the conjunction of

* `LogsOK`: a line is in one file once, but for a copy whose log is not truncated yet;
* `PlacesOK`: a place behind the beginning has a fingerprint, the rest of an old file is read before the new
  one is begun, and a fingerprint that matches the log means that the log is the one
  it was taken from (`Recognised`). That is the step which fails as soon as one of
  the signs of a rotation is dropped;
* `FreshOK`: no event returned, or kept in the local copy, lies where a Collect from the place on disk, or from the
  place about to be saved, would read (`NothingTwice` follows);
* `CopyOK`: how far `nextcloud.jsonl` is at each of the four writes, and that the mark cuts
  off what the interrupted one added, no more (`LocalCopyExact`);
* `TurnsOK`: a log that waits is the next to be read first (`PutOffOnce`). This needs that a first event is
  refused only when the report is full (`NothingThere`);
* `CoveredOK`: every other event lies where the next Collects read, is too large, or is one
  of the exceptions; a rotation since the last look leaves it in the file the
  fingerprint names (`NothingSkipped`).

The log's four steps (a line, a rename, a copy, a truncation) are lemmas about one log and one
place, used for the place on disk and for the one a Collect is about to save. `readSource` has
one lemma for what it returns (`ReadSource`), one for what it leaves (`ReadCovered`) and one
for a reading without limits (`Everything`), which is how `Unread` is defined.

TLC checks the inductive invariants of delivery, licence and audit log as properties of their runs. Those of
the others, with the type invariants, are not in the runs: the theorems state them
for every instance. Each was checked by TLC before it was proved, and can be again as
INVARIANT of the component's cfg (`PageInv` of `mon_handlers.cfg`, whose
module `MCMonitor` includes the dashboard).

**Only model-checked:** liveness (`AlertsConverge`, `SendOneReturns`, `CloseCompletes`,
`FailureEndsRun`, `TokenRecovers`, `DeliveryRecovers`, `BacklogDrains`, `CaughtUp`), which
under fairness is out of the prover's reach. The provers cannot instantiate the library's induction
theorems; where a proof needs induction over a file it goes through the well-foundedness
of the numbers instead (the least line that would be a counterexample), for
recursive functions whose value at each index is known to exist.

## 6. Where the code and its documentation disagree

* `receipts_again`: after the JSONL file was renamed for its size the keys in it are
  forgotten, and the next Collect returns the last receipts a second time, while
  `collector/vps/httpoutcome/httpoutcome.go:61-63` says that a receipt is sent once. `AgainOnlyIfForgotten` (in
  `receipts`) names the other ways: a record behind a torn one, and a JSONL file that cannot be opened or scanned to its
  end, of which `LoadSeen` says nothing (jsonl.go:27-44).

Beside these, one boundary: a timestamp exactly 2^63 seconds before the monitor's clock passes the skew check, since
the difference is its own negation in int64 (handler.go:195-198). It still needs the agent's signature. `StoredWithinSkew`
names this age.

Five sentences the code does not keep either are stated in the modules, under "What the
documentation says", and left out of the runs since TLC refutes each: within seconds,
and `RecoveryAnnounced`, a temporal property, within two minutes. To reproduce one, make it the only property of the
cfg named with it, as PROPERTY for `RecoveryAnnounced` and `LastSeenNeverRegresses` and as INVARIANT for the others.

* `Monitor!RestartNeverRepeats`: a process end between the webhook's answer (liveness.go:125) and the write-back
  (144) makes the restarted monitor send the same alert again, while the comments at
  store.go:31 and liveness.go:40 say that a restart does not (`mon_alerts.cfg`).
* `Monitor!RecoveryAnnounced`: an outage whose POST arrived but whose answer was lost is never
  followed by a recovery if the agent is back before the retry; README.md:17-19 promises
  one alert for each (`mon_alerts.cfg`).
* `Monitor!LastSeenNeverRegresses`: two requests of one agent may read the clock in one order and reach
  the Store in the other; store.go:203 then moves `last_seen` back, though store.go:64
  calls the entry the latest state (`mon_handlers.cfg`).
* `Cycle!PartialReportDelivered`: once the overall timeout strikes while collecting, nothing is sent
  (runner.go:259 uses the same context), while registry.go:20-21 orders the collectors so
  that a report with the values obtained is left (`cyc_policies.cfg`).
* `Cycle!ErrorMeansAllFailed`: after a 401 of the primary a failed refresh or resend makes the cycle fail
  (runner.go:279, 283) although another target has the report; options.go:36 and the
  test at runtime_policy_test.go:276 reserve the error for the failure of every target (`cyc_policies.cfg`).

One more stands beside the audit log's properties:

* `AuditLogTail!DayChangeLosesNothing` (an action property): days strictly between the checkpoint's and the latest are
  never opened (audit_log_tail.go:97-116), while the comment at 95-98 says that nothing is lost over
  a day change. A checkpoint that cannot be read (78) loses and repeats events without an error. Likewise a process that ends between the save of the checkpoint and the
  report loses the events it had read, against line 7, "neither duplicates nor gaps across restarts" (`audit.cfg`).

## 7. What is not modelled

* `Runner` and `Cycle` are two models of one goroutine's work: in `Runner` a cycle has an
  outcome only, any of those `Cycle` can have. They are not composed in one state space.
* The text of logs and reports: parsing of dates, addresses and user agents; what
  fail2ban-client and the system and optional collectors' commands print. These collectors keep
  no state between calls. The fields of an event beyond those its key is made of.
* Cryptography: a signature is a value that depends on what is signed; encodings of
  tokens and keys are abstracted to whether they verify. Issuing tokens is not the repository's.
* `rotatingWriter` (the agent's log file cut off at its size): it carries nothing the program reads again.
* `Multi` and `Discard` notifiers: no interleaving of their own. With `notify.disabled` every
  alert counts as confirmed; `AlertsConverge` is about one configured webhook.
* The honeypot server and the object storage client: one append, one call, no state.
* In `NextcloudTail`, a rotation while one Collect looks at a log (between the stat at nextcloud.go:373, the fingerprints
  at 403 and 432 and the reading at 547); an unfinished last line of the rotated file, which the code takes (583); a
  state file of which only `prev` or the mark was dropped; a rest of the budget in bytes with none left in events.
* In `Monitor`, torn lines (files exist or do not; `ReportDelivery` has them) and refused
  requests; a request there is one the handler accepts.
* The wall clock stepping back: the clocks of the models do not.
* Command-line flags, layout, labels, templates.

## 8. Plan

Done: every component that keeps state between calls, or that several processes or
goroutines share. What could follow, in order of weight:

1. `NextcloudTail!Read` in steps, so that a rotation can fall between the stat of a log and its reading.
2. Composition: `Runner` with `Cycle` in place of its span, by refinement; the token of
   `Cycle` with the checks of `License`.
3. The agent's log file with two processes, if it is ever read by the program.
