--------------------------- MODULE ReportDelivery ---------------------------
(***************************************************************************)
(* One report on its way: SendOne (agent/reporter.go) signs and posts it    *)
(* until a target confirms it, the network loses or delays requests and     *)
(* answers, Handler.ServeHTTP (core/receiver/handler.go) checks each request *)
(* and Store.Append adds a line to the agent's file.  The monitor reads its *)
(* clock when it checks a request and writes the line in a later step.      *)
(***************************************************************************)
EXTENDS Integers, Sequences

CONSTANTS
    Senders,     \* calls of SendOne; each sends one report
    Clients,     \* what may be sending: functions from Senders to Setup
    Keys,        \* Config.AgentKeys: the key of every agent the monitor lists
    Ids,         \* the agent ids ValidAgentID accepts
    AllowLists,  \* the values of Config.AllowedIPs a monitor may be started with
    TrustForwardedFor,
    Addr,        \* client addresses; positive numbers, Loopback among them
    Loopback,
    MaxBodyBytes, DefaultMaxBodyBytes,    \* of Config, and its default
    TimestampSkew, DefaultTimestampSkew,  \* likewise, in whole seconds
    Timeout,     \* Target.Timeout, seconds
    RetryCount,
    Half,        \* 2^63: times are int64 seconds
    MaxTime,     \* bound: the last second of the model's clock
    Faults       \* failures considered: "lost", "open", "save", "short"

NoAddr == 0             \* a nil net.IP
Blank == {}             \* an entry of spaces
Unparsable == {NoAddr}  \* an entry that is neither an address nor a network
Attempt == 1 .. RetryCount + 1

\* A value of the configuration that is not positive stands for the default.
skew == IF TimestampSkew <= 0 THEN DefaultTimestampSkew ELSE TimestampSkew
maxBody == IF MaxBodyBytes <= 0 THEN DefaultMaxBodyBytes ELSE MaxBodyBytes

\* A client: its method, the header's agent id after TrimSpace, the id its body
\* claims ("garbled" when that is no JSON), its key, whether it signs, how far
\* its clock is off, the size of the body, the peer of its connection, the hops in
\* its X-Forwarded-For, and Target.StopOnCancel.
Setup == [method: STRING, id: STRING, claims: STRING, key: STRING, signs: BOOLEAN,
          drift: Int, size: Nat, peer: Addr, hops: Seq(Addr \union {NoAddr}), stop: BOOLEAN]

ASSUME DeliveryAssumption ==
    /\ Clients \subseteq [Senders -> Setup]
    /\ DOMAIN Keys \subseteq Ids
    /\ AllowLists \subseteq SUBSET SUBSET (Addr \union {NoAddr})
    /\ Addr \subseteq Nat \ {NoAddr}
    /\ Loopback \in Addr
    /\ TrustForwardedFor \in BOOLEAN
    /\ {MaxBodyBytes, TimestampSkew} \subseteq Int
    /\ {DefaultMaxBodyBytes, DefaultTimestampSkew, RetryCount, MaxTime} \subseteq Nat
    /\ {Timeout, Half} \subseteq Nat \ {0}
    /\ Faults \subseteq {"lost", "open", "save", "short"}

\* Every header holds some int64, and the monitor's clock is far from the end of them.
ASSUME ClockAssumption ==
    /\ MaxTime + skew < Half
    /\ \A f \in Clients, s \in Senders : f[s].drift \in -Half .. (Half - 1) - MaxTime

VARIABLES
    clock,      \* the monitor's clock
    client,     \* per sender: its Setup
    allowList,  \* Config.AllowedIPs: a set of networks
    pc,         \* per sender: where SendOne is
    attempt,    \* per sender: the attempt it is at
    since,      \* per sender: when that attempt began
    cancelled,  \* per sender: its context is cancelled
    last,       \* per sender: the error SendOne would return
    call,       \* per sender and attempt: the request and its answer
    lines,      \* per sender and attempt: the lines its request left on disk
    torn,       \* agents whose file ends in a fragment of a line
    spoilt      \* <<sender, attempt>> pairs whose line continues a fragment

sendVars == <<pc, attempt, since, cancelled, last>>
diskVars == <<lines, torn, spoilt>>
vars == <<clock, client, allowList, sendVars, call, diskVars>>

\* "lost": no answer, whatever the reason; "status": an answer that is not 2xx.
Error == {"none", "lost", "status", "canceled", "nil"}
Status == {0, 200, 400, 401, 403, 405, 413, 500}
Request == [stage: {"none", "sent", "admitted", "answered", "gone"},
            ts: Int, signed: Int, now: 0 .. MaxTime, status: Status]
NoCall == [stage |-> "none", ts |-> 0, signed |-> 0, now |-> 0, status |-> 0]

(***************************************************************************)
(* The handler's checks                                                    *)
(***************************************************************************)

\* parseAllowedIPs: blank entries count for nothing, one bad entry is an error.
parseAllowedIPs(list) ==
    IF Unparsable \in list THEN {Unparsable} ELSE list \ {Blank}

\* Handler.allowed; NewHandler refuses to start on {Unparsable}.
allowed == parseAllowedIPs(allowList)

forwardedFor(u) == IF u.hops = <<>> THEN NoAddr ELSE u.hops[Len(u.hops)]

\* The header counts only when a proxy on this host passed the request on.
remoteIP(u) ==
    IF TrustForwardedFor /\ u.peer = Loopback /\ forwardedFor(u) # NoAddr
      THEN forwardedFor(u)
      ELSE u.peer

ipAllowed(u) == allowed = {} \/ \E net \in allowed : remoteIP(u) \in net

\* int64 arithmetic.
Wrap(x) == ((x + Half) % (2 * Half)) - Half

MutInRange(now, ts) == Wrap(now - ts) <= skew

InRange(now, ts) ==
    LET diff == Wrap(now - ts)
    IN  (IF diff < 0 THEN Wrap(-diff) ELSE diff) <= skew

\* The ages InRange lets pass, in whole numbers: -2^63 is its own negation in int64, so
\* that a request signed at exactly 2^63 seconds before the monitor's time passes too.
Ages == (-skew .. skew) \union {Half}

\* HMAC-SHA256: two signatures agree only if all that was signed agrees.
Compute(key, ts, body) == <<key, ts, body>>

Verify(key, ts, body, signature) == signature = Compute(key, ts, body)

\* The checks in the order of the code, each with the answer it refuses with.
Checks(s, c) ==
    LET u == client[s]
    IN  << <<u.method = "POST", 405>>,
           <<u.id # "", 400>>,
           <<u.id \in Ids, 400>>,
           <<ipAllowed(u), 403>>,
           <<u.size <= maxBody, 413>>,
           <<u.signs, 401>>,
           <<InRange(clock, c.ts), 401>>,
           <<u.id \in DOMAIN Keys /\ Verify(Keys[u.id], c.ts, s, Compute(u.key, c.signed, s)), 401>>,
           <<u.claims = u.id, 400>> >>

\* The answer of the first check that fails; 200 when none does.
Verdict(s, c) ==
    LET failing == {i \in 1 .. 9 : ~Checks(s, c)[i][1]}
        first == CHOOSE i \in failing : \A j \in failing : i <= j
    IN  IF failing = {} THEN 200 ELSE Checks(s, c)[first][2]

Init ==
    /\ clock = 0
    /\ client \in Clients
    /\ allowList \in AllowLists
    /\ pc = [s \in Senders |-> "ready"]
    /\ attempt = [s \in Senders |-> 1]
    /\ since = [s \in Senders |-> 0]
    /\ cancelled = [s \in Senders |-> FALSE]
    /\ last = [s \in Senders |-> "none"]
    /\ call = [s \in Senders |-> [n \in Attempt |-> NoCall]]
    /\ lines = [s \in Senders |-> [n \in Attempt |-> 0]]
    /\ torn = {}
    /\ spoilt = {}

(***************************************************************************)
(* SendOne                                                                 *)
(***************************************************************************)

Return(s, err) ==
    /\ pc' = [pc EXCEPT ![s] = "returned"]
    /\ last' = [last EXCEPT ![s] = err]
    /\ UNCHANGED <<attempt, since, cancelled>>

MutFailed(s, err) ==
    IF attempt[s] > RetryCount + 1
      THEN Return(s, err)
      ELSE /\ pc' = [pc EXCEPT ![s] = "ready"]
           /\ attempt' = [attempt EXCEPT ![s] = @ + 1]
           /\ last' = [last EXCEPT ![s] = err]
           /\ UNCHANGED <<since, cancelled>>

\* The attempt failed: the next one, or out of the loop with this error.
Failed(s, err) ==
    IF attempt[s] = RetryCount + 1
      THEN Return(s, err)
      ELSE /\ pc' = [pc EXCEPT ![s] = "ready"]
           /\ attempt' = [attempt EXCEPT ![s] = @ + 1]
           /\ last' = [last EXCEPT ![s] = err]
           /\ UNCHANGED <<since, cancelled>>

\* The check at the top of the loop.
StopAtOnce(s) ==
    /\ pc[s] = "ready"
    /\ client[s].stop /\ cancelled[s]
    /\ Return(s, IF last[s] = "none" THEN "canceled" ELSE last[s])
    /\ UNCHANGED <<clock, call, diskVars, client, allowList>>

\* Do under a context that is over fails before anything is sent.
PostCancelled(s) ==
    /\ pc[s] = "ready"
    /\ ~client[s].stop /\ cancelled[s]
    /\ Failed(s, "lost")
    /\ UNCHANGED <<clock, call, diskVars, client, allowList>>

MutSignedTime(s) == since[s] + client[s].drift

SignedTime(s) == clock + client[s].drift

\* Each attempt is signed anew, with the client's clock as it is then.
Post(s) ==
    /\ pc[s] = "ready"
    /\ ~cancelled[s]
    /\ pc' = [pc EXCEPT ![s] = "waiting"]
    /\ since' = [since EXCEPT ![s] = clock]
    /\ call' = [call EXCEPT ![s][attempt[s]] =
                  [stage |-> "sent", ts |-> SignedTime(s), signed |-> SignedTime(s),
                   now |-> 0, status |-> 0]]
    /\ UNCHANGED <<clock, attempt, cancelled, last, diskVars, client, allowList>>

MutAnswered(s) ==
    LET c == call[s][attempt[s]]
    IN  /\ pc[s] = "waiting"
        /\ c.stage = "answered"
        /\ IF c.status \in {200, 500} THEN Return(s, "nil") ELSE Failed(s, "status")
        /\ call' = [call EXCEPT ![s][attempt[s]].stage = "gone"]
        /\ UNCHANGED <<clock, diskVars, client, allowList>>

\* The answer to the attempt that is waited for arrives.
Answered(s) ==
    LET c == call[s][attempt[s]]
    IN  /\ pc[s] = "waiting"
        /\ c.stage = "answered"
        /\ IF c.status = 200 THEN Return(s, "nil") ELSE Failed(s, "status")
        /\ call' = [call EXCEPT ![s][attempt[s]].stage = "gone"]
        /\ UNCHANGED <<clock, diskVars, client, allowList>>

MutTimedOut(s) ==
    /\ pc[s] = "waiting"
    /\ cancelled[s]
    /\ Failed(s, "lost")
    /\ UNCHANGED <<clock, call, diskVars, client, allowList>>

\* Do gives up: the client's timeout or the context is over.  The request may be
\* anywhere by then.  (At MaxTime the clock of the model stands still.)
TimedOut(s) ==
    /\ pc[s] = "waiting"
    /\ clock - since[s] >= Timeout \/ clock = MaxTime \/ cancelled[s]
    /\ Failed(s, "lost")
    /\ UNCHANGED <<clock, call, diskVars, client, allowList>>

\* The connection breaks, before or after the request got through.
Broken(s) ==
    /\ "lost" \in Faults
    /\ pc[s] = "waiting"
    /\ Failed(s, "lost")
    /\ UNCHANGED <<clock, call, diskVars, client, allowList>>

\* The overall timeout or the caller ends the context.
Cancel(s) ==
    /\ pc[s] # "returned"
    /\ ~cancelled[s]
    /\ cancelled' = [cancelled EXCEPT ![s] = TRUE]
    /\ UNCHANGED <<clock, pc, attempt, since, last, call, diskVars, client, allowList>>

(***************************************************************************)
(* The handler                                                             *)
(***************************************************************************)

\* ServeHTTP up to the call of Append: refused, or admitted with the clock it read.
Arrive(s, n) ==
    /\ allowed # {Unparsable}
    /\ call[s][n].stage = "sent"
    /\ LET status == Verdict(s, call[s][n])
       IN  call' = [call EXCEPT ![s][n] =
                     IF status = 200 THEN [@ EXCEPT !.stage = "admitted", !.now = clock]
                                     ELSE [@ EXCEPT !.stage = "answered", !.status = status]]
    /\ UNCHANGED <<clock, sendVars, diskVars, client, allowList>>

Answer(s, n, status) ==
    call' = [call EXCEPT ![s][n] = [@ EXCEPT !.stage = "answered", !.status = status]]

\* Append cannot open the file.
StoreOpenFails(s, n) ==
    /\ "open" \in Faults
    /\ call[s][n].stage = "admitted"
    /\ Answer(s, n, 500)
    /\ UNCHANGED <<clock, sendVars, diskVars, client, allowList>>

\* Append writes a part of the line only and leaves it there.
StoreTorn(s, n) ==
    /\ "short" \in Faults
    /\ call[s][n].stage = "admitted"
    /\ torn' = torn \union {client[s].id}
    /\ Answer(s, n, 500)
    /\ UNCHANGED <<clock, sendVars, lines, spoilt, client, allowList>>

MutStored(s, n) ==
    /\ call[s][n].stage = "admitted"
    /\ lines' = [lines EXCEPT ![s][n] = @ + 1]
    /\ spoilt' = IF client[s].id \in torn THEN spoilt \union {<<s, n>>} ELSE spoilt
    /\ torn' = torn \ {client[s].id}
    /\ Answer(s, n, 200) \/ ("save" \in Faults /\ lines[s][n] = 0 /\ UNCHANGED call)
    /\ UNCHANGED <<clock, sendVars, client, allowList>>

\* Append writes the line, behind whatever the file ends in; a failing save of
\* state.json makes the answer a 500.
Stored(s, n) ==
    /\ call[s][n].stage = "admitted"
    /\ lines' = [lines EXCEPT ![s][n] = @ + 1]
    /\ spoilt' = IF client[s].id \in torn THEN spoilt \union {<<s, n>>} ELSE spoilt
    /\ torn' = torn \ {client[s].id}
    /\ \/ Answer(s, n, 200)
       \/ "save" \in Faults /\ Answer(s, n, 500)
    /\ UNCHANGED <<clock, sendVars, client, allowList>>

AdvanceClock ==
    /\ clock < MaxTime
    /\ clock' = clock + 1
    /\ UNCHANGED <<sendVars, call, diskVars, client, allowList>>

Sending(s) ==
    StopAtOnce(s) \/ PostCancelled(s) \/ Post(s) \/ Answered(s) \/ TimedOut(s)

Handling(s, n) ==
    Arrive(s, n) \/ StoreOpenFails(s, n) \/ StoreTorn(s, n) \/ Stored(s, n)

Next ==
    \/ \E s \in Senders : Sending(s) \/ Broken(s) \/ Cancel(s)
    \/ \E s \in Senders, n \in Attempt : Handling(s, n)
    \/ AdvanceClock

\* Time passes and a goroutine that can go on does so.  The network and the monitor
\* owe nothing: a request or an answer that is lost is one that never arrives.
Fairness == WF_vars(AdvanceClock) /\ \A s \in Senders : WF_vars(Sending(s))

Spec == Init /\ [][Next]_vars
FairSpec == Spec /\ Fairness

(***************************************************************************)
(* Properties                                                              *)
(***************************************************************************)

\* The type invariant: every variable holds a value of its type.
TypeOK ==
    /\ clock \in 0 .. MaxTime
    /\ client \in Clients
    /\ allowList \in AllowLists
    /\ pc \in [Senders -> {"ready", "waiting", "returned"}]
    /\ attempt \in [Senders -> Attempt]
    /\ since \in [Senders -> 0 .. MaxTime]
    /\ cancelled \in [Senders -> BOOLEAN]
    /\ last \in [Senders -> Error]
    /\ call \in [Senders -> [Attempt -> Request]]
    /\ lines \in [Senders -> [Attempt -> Nat]]
    /\ torn \subseteq DOMAIN Keys
    /\ spoilt \subseteq Senders \X Attempt

\* A request whose line was written in part.
Fragment(t, m) == call[t][m].status = 500 /\ lines[t][m] = 0

\* A report SendOne returned nil for is in the agent's file, and on a line of its own
\* unless a write to that file was cut short: store.go:174-212, reporter.go:76-81.
AcknowledgedStored ==
    \A s \in Senders :
        pc[s] = "returned" /\ last[s] = "nil" =>
            \E n \in Attempt :
                /\ lines[s][n] > 0
                /\ <<s, n>> \in spoilt =>
                     \E t \in Senders, m \in Attempt : client[t].id = client[s].id /\ Fragment(t, m)

\* A line stands for one admitted request: an attempt never leaves two, however its
\* answer got lost, and one that was refused leaves none (handler.go:147-239).
OneLinePerAttempt ==
    \A s \in Senders, n \in Attempt :
        /\ lines[s][n] <= 1
        /\ lines[s][n] = 1 => call[s][n].status \in {200, 500}

\* The attempts that are still to come.
Untried(s, n) == n > attempt[s] \/ (n = attempt[s] /\ pc[s] = "ready")

RequestKept(s, n) ==
    LET c == call[s][n]
    IN  /\ Untried(s, n) => c.stage = "none"
        /\ c.stage \in {"none", "sent", "admitted"} => c.status = 0 /\ lines[s][n] = 0
        /\ c.stage # "none" => c.signed = c.ts /\ c.ts - client[s].drift \in 0 .. MaxTime
        /\ c.stage = "admitted" \/ lines[s][n] > 0 =>
              client[s].id \in DOMAIN Keys /\ c.now - c.ts \in Ages
        /\ lines[s][n] <= 1
        /\ lines[s][n] = 1 => c.status \in {200, 500}
        /\ c.status = 200 => lines[s][n] = 1

SenderKept(s) ==
    /\ since[s] <= clock
    /\ pc[s] = "waiting" => call[s][attempt[s]].stage # "none"
                             /\ call[s][attempt[s]].ts = since[s] + client[s].drift
    /\ last[s] = "nil" => pc[s] = "returned" /\ \E n \in Attempt : call[s][n].status = 200

HasFragment(id) == \E t \in Senders, m \in Attempt : client[t].id = id /\ Fragment(t, m)

\* The inductive invariant: where a request is says what became of it, what its sender
\* knows of it and which checks it passed; a fragment in a file is some request's.
IInv ==
    /\ TypeOK
    /\ \A s \in Senders, n \in Attempt : RequestKept(s, n)
    /\ \A s \in Senders : SenderKept(s)
    /\ \A id \in torn : HasFragment(id)
    /\ \A s \in Senders, n \in Attempt : <<s, n>> \in spoilt => HasFragment(client[s].id)

\* In whole numbers, not int64, and for any int64 in the header: no line was admitted
\* further from the time its request was signed at than timestamp_skew, in either
\* direction, but for the one distance of 2^63.  A request the network held back for
\* longer is refused (handler.go:195-203).
StoredWithinSkew ==
    \A s \in Senders, n \in Attempt :
        lines[s][n] > 0 => call[s][n].now - call[s][n].ts \in (-skew .. skew) \union {Half}

\* The client's clock is right to within what timeout and skew leave.
InStep(s) ==
    /\ client[s].signs
    /\ client[s].id \in DOMAIN Keys /\ Keys[client[s].id] = client[s].key
    /\ client[s].drift \in Timeout - skew .. skew - Timeout

\* While SendOne waits for it, a request of a client in step is never refused for
\* its age or signature, whichever attempt it is (reporter.go:58-66).
InStepNeverUnauthorized ==
    [][\A s \in Senders :
         LET n == attempt[s]
         IN  /\ pc[s] = "waiting" /\ clock - since[s] <= Timeout
             /\ call[s][n].stage = "sent"
             /\ InStep(s)
             => call'[s][n].status # 401]_vars

\* SendOne returns, whatever the network and the monitor do (reporter.go:48-83).
SendOneReturns == \A s \in Senders : <>(pc[s] = "returned")

\* The whole keeps the promise of ReportChannel.
Channel == INSTANCE ReportChannel WITH
    Reports <- Senders,
    copies <- lines,
    told <- [s \in Senders |->
               IF pc[s] # "returned" THEN "pending"
               ELSE IF last[s] = "nil" THEN "delivered" ELSE "failed"]

ImplementsReportChannel == Channel!Spec

=============================================================================
