---------------------------- MODULE MonitorConfig ----------------------------
(***************************************************************************)
(* The monitor's configuration (cmd/heartpost-monitor/config.go): what Load *)
(* makes of a file it can read, and the thresholds the Checker and the page *)
(* take from it.  A duration stands for its number of clock units; a field  *)
(* that is not in the file is Unset, one of spaces is Spaces, one that       *)
(* nobody can parse is Garbled.                                             *)
(***************************************************************************)
EXTENDS Integers

CONSTANTS
    Ids,               \* the agent ids ValidAgentID accepts
    Unset, Spaces, Garbled,
    AgentInterval,     \* defaultAgentInterval, 5 minutes
    CheckInterval,     \* defaultCheckInterval
    NotifyTimeout,     \* defaultNotifyTimeout
    Skew,              \* receiver.DefaultTimestampSkew
    Retention,         \* defaultRetentionDays
    Multiplier,        \* receiver.DefaultIntervalMultiplier
    HalfDuration       \* 2^63: a time.Duration is an int64

ASSUME ConfigAssumption ==
    /\ {Unset, Spaces, Garbled} \cap Int = {}
    /\ {AgentInterval, CheckInterval, NotifyTimeout, Skew, Multiplier, HalfDuration} \subseteq Nat \ {0}
    /\ Retention \in Nat
    /\ Multiplier * AgentInterval < HalfDuration

\* A duration as it may stand in the file.
Raw == Int \union {Unset, Spaces, Garbled}

Blank == {Unset, Spaces}

Rejected == [accepted |-> FALSE]

\* parseDuration succeeds: blank, or positive and within an int64.
Parsed(raw) == raw \in Blank \/ raw \in 1 .. HalfDuration - 1

parseDuration(raw, default) == IF raw \in Blank THEN default ELSE raw

WrapDuration(x) == ((x + HalfDuration) % (2 * HalfDuration)) - HalfDuration

\* The checks of Load.  keys and agents are functions from the ids in the file, to a
\* key and to a down_threshold; known says that no key of the file was left over.
Accepted(f) ==
    /\ f.known
    /\ f.timezone # Garbled
    /\ \A raw \in {f.skew, f.check, f.timeout, f.interval, f.threshold} : Parsed(raw)
    /\ DOMAIN f.keys # {}
    /\ \A id \in DOMAIN f.keys : id \in Ids /\ f.keys[id] \notin Blank
    /\ \A id \in DOMAIN f.agents : id \in DOMAIN f.keys /\ Parsed(f.agents[id])
    /\ f.user # Unset => f.password # Unset
    /\ f.webhook \notin Blank \/ f.disabled

\* Three times the interval of the agents unless the file says otherwise.
defaultThreshold(f) ==
    parseDuration(f.threshold, WrapDuration(Multiplier * parseDuration(f.interval, AgentInterval)))

\* An entry of spaces is taken for 0, which For passes over.
perAgent(f) ==
    [id \in DOMAIN f.keys |->
        IF id \in DOMAIN f.agents /\ f.agents[id] # Unset THEN parseDuration(f.agents[id], 0) ELSE 0]

Load(f) ==
    IF ~Accepted(f) THEN Rejected
    ELSE [accepted |-> TRUE,
          keys |-> DOMAIN f.keys,
          perAgent |-> perAgent(f),
          default |-> defaultThreshold(f),
          check |-> parseDuration(f.check, CheckInterval),
          timeout |-> parseDuration(f.timeout, NotifyTimeout),
          skew |-> parseDuration(f.skew, Skew),
          retention |-> IF f.retention = 0 THEN Retention ELSE f.retention,
          auth |-> f.user # Unset,
          silent |-> f.webhook \in Blank]

\* Thresholds.For on the result.
Threshold(c, id) ==
    IF c.perAgent[id] > 0 THEN c.perAgent[id]
    ELSE IF c.default > 0 THEN c.default ELSE Multiplier * AgentInterval

(***************************************************************************)
(* The page's own check (core/receiver/web.go)                              *)
(***************************************************************************)

\* What a request is answered with, under c: password says that both names and
\* passwords agree.
ServePage(c, path, password) ==
    IF c.auth /\ ~password THEN 401
    ELSE IF path \in {"/", "/static/"} THEN 200 ELSE 404

(***************************************************************************)
(* What Load promises                                                      *)
(***************************************************************************)

\* A file whose durations are a third of an int64 at most.
Plausible(f) == f.interval \in Blank \/ (f.interval \in Int /\ Multiplier * f.interval < HalfDuration)

\* A monitor that starts judges every agent by a positive threshold, its own or the
\* file's or three intervals, checks at a positive interval (a ticker panics on
\* another) and is silent only if the file says so: config.go:100-103, "no
\* configuration that is wrong and quietly runs".
LoadIsSound(f) ==
    LET c == Load(f)
    IN  c.accepted =>
          /\ \A id \in c.keys :
                /\ Threshold(c, id) > 0
                /\ id \in DOMAIN f.agents /\ f.agents[id] \in Int => Threshold(c, id) = f.agents[id]
                /\ (id \in DOMAIN f.agents => f.agents[id] \in Blank) /\ f.threshold \in Int
                     => Threshold(c, id) = f.threshold
                /\ (id \in DOMAIN f.agents => f.agents[id] \in Blank) /\ f.threshold \in Blank
                     /\ f.interval \in Int /\ Plausible(f)
                     => Threshold(c, id) = Multiplier * f.interval
          /\ c.check > 0 /\ c.timeout > 0 /\ c.skew > 0
          /\ c.silent => f.disabled

=============================================================================
