----------------------------- MODULE AgentSetup -----------------------------
(***************************************************************************)
(* From the agent's configuration to a Runner: AgentConfig.Validate and     *)
(* LockPath (agent/config.go), TargetFromConfig and OptionsFromConfig       *)
(* (agent/defaults.go) and New (agent/runner.go), which refuses options     *)
(* nobody could run.  The file counts seconds, the options nanoseconds in   *)
(* an int64.                                                                *)
(***************************************************************************)
EXTENDS Integers, Sequences

CONSTANTS
    Second,         \* time.Second
    HalfDuration    \* 2^63: a time.Duration is an int64

ASSUME SetupAssumption ==
    /\ {Second, HalfDuration} \subseteq Nat \ {0}
    /\ 300 * Second < HalfDuration

\* The empty string: what Go gives a string nobody set.
Unset == ""

Refused == [ok |-> FALSE]

(***************************************************************************)
(* agent/config.go                                                         *)
(***************************************************************************)

\* The mode of agent_secrets.toml: a bit for the group or others is an error, except
\* on Windows, where it is a warning.
CheckSecretsPerm(mode, windows) ==
    IF windows THEN "warning" ELSE IF mode % 64 # 0 THEN "error" ELSE Unset

Positive(x, default) == IF x <= 0 THEN default ELSE x

Or(text, default) == IF text = Unset THEN default ELSE text

DefaultLogMax == 5 * 1024 * 1024

\* A field left out, or one that makes no sense as a number, gets its default.
Validate(c) ==
    IF \/ c.id = Unset
       \/ Or(c.type, "rental") \notin {"rental", "vps"}
       \/ c.endpoint # Unset /\ c.key = Unset
      THEN Refused
      ELSE [ok |-> TRUE, id |-> c.id, type |-> Or(c.type, "rental"), endpoint |-> c.endpoint,
            key |-> c.key, path |-> Or(c.path, "/api/agent/report"),
            httpTimeout |-> Positive(c.httpTimeout, 10), retry |-> IF c.retry < 0 THEN 0 ELSE c.retry,
            timeout |-> Positive(c.timeout, 30), logMax |-> Positive(c.logMax, DefaultLogMax),
            log |-> c.log, home |-> c.home]

\* The mode of agent_secrets.toml is looked at before the file is merged into c.
DecodeFails(c) == c.secrets /\ CheckSecretsPerm(c.mode, c.windows) = "error"

LoadConfig(c) == IF DecodeFails(c) THEN Refused ELSE Validate(c)

\* Beside the log, in the home directory, or beside the configuration.
LockPath(c) == IF c.log # Unset THEN "log" ELSE IF c.home # Unset THEN "home" ELSE "config"

(***************************************************************************)
(* agent/registry.go: the collectors of the two types, by name              *)
(***************************************************************************)

RentalCollectors ==
    <<"host", "loadavg", "memory", "disk", "cron", "process", "cpu", "network", "apache_log">>

vpsCollectors ==
    <<"system", "process", "cron", "services", "ssl", "ssh", "nginx", "http_outcome", "updates">>

DefaultCollectors(c) == IF c.type = "vps" THEN vpsCollectors ELSE RentalCollectors

(***************************************************************************)
(* agent/defaults.go                                                       *)
(***************************************************************************)

\* time.Duration(n) * time.Second
Seconds(n) == ((n * Second + HalfDuration) % (2 * HalfDuration)) - HalfDuration

TargetFromConfig(c) ==
    [name |-> "monitor", retry |-> c.retry, timeout |-> Seconds(c.httpTimeout)]

configTasks(c) ==
    LET names == DefaultCollectors(c)
    IN  [i \in DOMAIN names |-> [name |-> names[i], collect |-> TRUE]]

\* What is not set has Go's zero value: mode Once, ReportCanceled, ReturnFailure, no
\* licence, no services.
OptionsFromConfig(c) ==
    [id |-> c.id, mode |-> 0, cancelPolicy |-> 0, failurePolicy |-> 0, encoding |-> 0,
     tasks |-> configTasks(c), targets |-> <<TargetFromConfig(c)>>, services |-> <<>>,
     license |-> "none", verifyTimeout |-> 0, unknownInterval |-> 0, timeout |-> Seconds(c.timeout),
     lock |-> LockPath(c), dryRun |-> c.endpoint = Unset]

(***************************************************************************)
(* agent/runner.go                                                         *)
(***************************************************************************)

Distinct(seq) == \A i, j \in DOMAIN seq : seq[i].name = seq[j].name => i = j

\* A task needs a callback, a service is not nil, a licence has a verifier.
Runnable(o) ==
    /\ o.id # Unset
    /\ o.mode <= 1 /\ o.cancelPolicy <= 2 /\ o.failurePolicy <= 1 /\ o.encoding <= 2
    /\ \A i \in DOMAIN o.tasks : o.tasks[i].name # Unset /\ o.tasks[i].collect
    /\ Distinct(o.tasks)
    /\ \A i \in DOMAIN o.targets :
          o.targets[i].name # Unset /\ o.targets[i].retry >= 0 /\ o.targets[i].timeout >= 0
    /\ Distinct(o.targets)
    /\ o.dryRun \/ o.targets # <<>>
    /\ \A i \in DOMAIN o.services : o.services[i] # "nil"
    /\ o.license # "no verifier"

WithTimeout(t) == [t EXCEPT !.timeout = IF t.timeout = 0 THEN Seconds(10) ELSE t.timeout]

New(o) ==
    IF ~Runnable(o) THEN Refused
    ELSE [ok |-> TRUE,
          once |-> o.mode = 0,
          returnFailure |-> o.failurePolicy = 0,
          lockFile |-> o.lock # Unset,
          heartbeat |-> o.license = "heartbeat",
          targets |-> [i \in DOMAIN o.targets |-> WithTimeout(o.targets[i])],
          tasks |-> o.tasks, services |-> o.services, dryRun |-> o.dryRun, timeout |-> o.timeout,
          verifyTimeout |-> Positive(o.verifyTimeout, Seconds(30)),
          unknownInterval |-> Positive(o.unknownInterval, Seconds(300))]

(***************************************************************************)
(* What the parts promise each other                                       *)
(***************************************************************************)

\* Times that an int64 holds.
Plausible(c) == \A n \in {c.httpTimeout, c.timeout} : n * Second < HalfDuration

\* With such times, what LoadConfig accepts never fails in New, runs once under the
\* lock file with failures returned, and every wait of it has an end: the target's
\* requests, their number and the whole (the command has no other way to make a
\* Runner).  A larger number may wrap: then New refuses it, or the whole has no end.
CommandIsRunnable(c) ==
    LET v == LoadConfig(c)
        r == New(OptionsFromConfig(v))
    IN  v.ok /\ Plausible(c) =>
          /\ r.ok /\ r.once /\ r.returnFailure /\ r.lockFile /\ ~r.heartbeat
          /\ r.timeout > 0
          /\ \A i \in DOMAIN r.targets : r.targets[i].timeout > 0 /\ r.targets[i].retry >= 0
          /\ ~r.dryRun => c.key # Unset

=============================================================================
