------------------------------ MODULE EventLog ------------------------------
(***************************************************************************)
(* The collectors built on JSONLLogCollector (collector/jsonl.go): ssh,     *)
(* nginx, fail2ban and http_outcome.  Run reads the last lines of a log,    *)
(* drops the events whose key is in its own JSONL file, appends the others  *)
(* to it, renames it away when it is too large, and returns the new ones.   *)
(*                                                                         *)
(* A line is [n, at, what, op]: the n-th one written, in second at; what    *)
(* stands for the address, path, jail or event that its key is made of, op  *)
(* for the operation id it carries.                                         *)
(***************************************************************************)
EXTENDS Integers, Sequences, FiniteSets, SequencesExt

CONSTANTS
    Kinds,    \* the collectors of the model, one of them in a behaviour
    MaxBytes, \* lines the JSONL file may hold before it is renamed
    maxLines, \* lines of a log that Run looks at
    MaxTime,  \* bound: the seconds of the logs
    Lines,    \* bound: lines written to the logs
    MaxFaults,\* bound: faults in a behaviour
    Faults    \* "unread": the JSONL file cannot be opened or read to its end;
              \* "append": a write fails, half done; "rotate": the rename fails;
              \* "crash": the agent ends; "huge": a line over ScannerBufferBytes;
              \* "short": a sink's write is cut off; "renamed": logrotate;
              \* "chmod": the path gets other owners or modes

ASSUME EventLogAssumption ==
    /\ Kinds \subseteq {"ssh", "nginx", "fail2ban", "http_outcome"}
    /\ {MaxBytes, maxLines, MaxTime, Lines, MaxFaults} \subseteq Nat
    /\ Faults \subseteq {"unread", "append", "rotate", "crash", "huge", "short", "renamed", "chmod"}

NoId == 0
BadId == -1     \* not 32 lower case hex digits
Noise == "noise"
Huge == "huge"
Torn == [n |-> 0, at |-> 0, what |-> "torn", op |-> NoId]  \* a piece without its newline
Glued == [n |-> 0, at |-> 0, what |-> Noise, op |-> NoId]

VARIABLES
    kind,      \* the collector
    log,       \* the configured log (1) and the name logrotate gives it (2)
    present,   \* which of the two exist
    written,   \* lines written so far
    jsonl,     \* the collector's own file
    run,       \* Collect: its place, the files left, the new and all events so far
    sent,      \* the events Collect has returned
    covered,   \* events a successful Run has looked at
    lost,      \* remembered by a Run whose result never left
    forgotten, \* keys that were returned and are in the JSONL file no longer
    faults     \* faults so far

logs == <<log, present, written>>
outcome == <<sent, covered, lost, forgotten>>
eventVars == <<kind, logs, jsonl, run, outcome, faults>>

Idle == [pc |-> "idle", todo |-> <<>>, fresh |-> <<>>, events |-> <<>>, looked |-> {}]

EventInit ==
    /\ kind \in Kinds
    /\ log = [f \in {1, 2} |-> <<>>]
    /\ present = {}
    /\ written = 0
    /\ jsonl = <<>>
    /\ run = Idle
    /\ sent = {} /\ covered = {} /\ lost = {} /\ forgotten = {}
    /\ faults = 0

Fault(f) == f \in Faults /\ faults < MaxFaults /\ faults' = faults + 1

(***************************************************************************)
(* The differences between the collectors                                  *)
(***************************************************************************)

SshKey(e) == <<e.at, e.what>>
Fail2banKey(e) == <<e.at, e.what>>

MutNginxKey(e) == <<e.at, e.what>>

\* An access log line with an operation id is told apart by it.
NginxKey(e) == IF e.op # NoId THEN <<e.at, e.what, e.op>> ELSE <<e.at, e.what>>

\* SeenKey
Key(e) ==
    CASE kind = "ssh" -> SshKey(e)
      [] kind = "nginx" -> NginxKey(e)
      [] kind = "fail2ban" -> Fail2banKey(e)
      [] kind = "http_outcome" -> <<e.op>>

\* A disconnect before the login is complete is not an event.
SshLine(l) == IF l.what \in {"accepted", "failed", "invalid_user", "disconnect"} THEN <<l>> ELSE <<>>

Fail2banLine(l) == IF l.what \in {"ban", "unban", "restore", "found"} THEN <<l>> ELSE <<>>

\* An id of another form is left out.
NginxLine(l) == IF l.what = "request" THEN <<[l EXCEPT !.op = IF @ = BadId THEN NoId ELSE @]>> ELSE <<>>

(***************************************************************************)
(* JSONLLogCollector                                                       *)
(***************************************************************************)

Put(file, line) ==
    IF file # <<>> /\ Last(file) = Torn
      THEN Append(Front(file), IF line = Torn THEN Torn ELSE Glued)
      ELSE Append(file, line)

PutAll(file, records) ==
    LET put[k \in 0 .. Len(records)] == IF k = 0 THEN file ELSE Put(put[k - 1], records[k])
    IN  put[Len(records)]

Whole(file) == {e \in ToSet(file) : e.what \notin {Noise, Torn.what}}

Remembered(file) == {Key(e) : e \in Whole(file)}

MutLoadSeen(n) ==
    LET bad == {k \in 1 .. n : jsonl[k].what \in {Noise, Torn.what}}
    IN  Remembered(SelectSeq(SubSeq(jsonl, 1, n), LAMBDA e : bad = {}))

\* The keys of the first n records: the scan may end before the last one, at a record
\* that does not fit its buffer or with an error, and a file that cannot be opened has none.
LoadSeen(n) == Remembered(SubSeq(jsonl, 1, n))

TailLines(lines) == SubSeq(lines, IF Len(lines) > maxLines THEN Len(lines) - maxLines + 1 ELSE 1, Len(lines))

New(seen, parsed, k) ==
    /\ Key(parsed[k]) \notin seen
    /\ \A j \in 1 .. k - 1 : Key(parsed[j]) # Key(parsed[k])

\* New events only, and each key once in a batch.
ParseTail(seen, parsed) ==
    LET fresh[k \in 0 .. Len(parsed)] ==
          IF k = 0 THEN <<>>
          ELSE IF New(seen, parsed, k) THEN Append(fresh[k - 1], parsed[k]) ELSE fresh[k - 1]
    IN  fresh[Len(parsed)]

(***************************************************************************)
(* Collect, one Run for each of its files                                  *)
(***************************************************************************)

Start(files) ==
    /\ run.pc = "idle"
    /\ run' = [Idle EXCEPT !.pc = "file", !.todo = files]
    /\ UNCHANGED <<kind, logs, jsonl, outcome, faults>>

\* The file gives nothing: http_outcome goes on with the next one, for the others
\* Collect fails.
Skipped == IF kind = "http_outcome" THEN [run EXCEPT !.pc = "file", !.todo = Tail(@), !.fresh = <<>>] ELSE Idle

Readable(f) == f \in present /\ \A k \in 1 .. Len(log[f]) : log[f][k].what # Huge

\* LoadSeen and ParseTail for f, the next of the files; parsed are its last lines' events.
\* LoadSeen tells nobody that it did not get to the end.
ReadFile(f, trusted, parsed) ==
    /\ run.pc = "file"
    /\ run.todo # <<>> /\ f = Head(run.todo)
    /\ \E n \in 0 .. Len(jsonl) :
          LET fresh == ParseTail(LoadSeen(n), parsed)
              looked == run.looked \union ToSet(parsed)
          IN  /\ IF n = Len(jsonl) THEN faults' = faults ELSE trusted /\ Fault("unread")
              /\ run' = IF ~trusted \/ ~Readable(f) THEN Skipped
                        ELSE IF fresh = <<>> THEN [run EXCEPT !.todo = Tail(@), !.looked = looked]
                        ELSE [run EXCEPT !.pc = "append", !.fresh = fresh, !.looked = looked]
    /\ UNCHANGED <<kind, logs, jsonl, outcome>>

AppendJSONL ==
    /\ run.pc = "append"
    /\ jsonl' = PutAll(jsonl, run.fresh)
    /\ forgotten' = (forgotten \union {Key(e) : e \in ToSet(run.fresh)}) \ Remembered(jsonl')
    /\ run' = [run EXCEPT !.pc = "rotate"]
    /\ UNCHANGED <<kind, logs, sent, covered, lost, faults>>

\* What has reached the disk is remembered, and never returned.
AppendFails ==
    /\ Fault("append")
    /\ run.pc = "append"
    /\ \E k \in 0 .. Len(run.fresh) : \E rest \in {<<>>, <<Torn>>} :
          /\ jsonl' = PutAll(jsonl, SubSeq(run.fresh, 1, k) \o rest)
          /\ lost' = lost \union {e \in ToSet(SubSeq(run.fresh, 1, k)) : Key(e) \in Remembered(jsonl')}
    /\ run' = [Skipped EXCEPT !.looked = @ \ ToSet(run.fresh)]
    /\ UNCHANGED <<kind, logs, sent, covered, forgotten>>

MutRotate ==
    /\ run.pc = "rotate"
    /\ jsonl' = IF Len(jsonl) > MaxBytes THEN <<>> ELSE jsonl
    /\ forgotten' = IF Len(jsonl) > MaxBytes THEN forgotten \union Remembered(jsonl) ELSE forgotten
    /\ run' = [run EXCEPT !.pc = "file", !.todo = Tail(@), !.fresh = <<>>]
    /\ UNCHANGED <<kind, logs, sent, covered, lost, faults>>

Rotate ==
    /\ run.pc = "rotate"
    /\ jsonl' = IF Len(jsonl) > MaxBytes THEN <<>> ELSE jsonl
    /\ forgotten' = IF Len(jsonl) > MaxBytes THEN forgotten \union Remembered(jsonl) ELSE forgotten
    /\ run' = [run EXCEPT !.pc = "file", !.todo = Tail(@), !.fresh = <<>>, !.events = @ \o run.fresh]
    /\ UNCHANGED <<kind, logs, sent, covered, lost, faults>>

RotateFails ==
    /\ Fault("rotate")
    /\ run.pc = "rotate"
    /\ Len(jsonl) > MaxBytes
    /\ lost' = lost \union ToSet(run.fresh)
    /\ run' = [Skipped EXCEPT !.looked = @ \ ToSet(run.fresh)]
    /\ UNCHANGED <<kind, logs, jsonl, sent, covered, forgotten>>

Return ==
    /\ run.pc = "file"
    /\ run.todo = <<>>
    /\ sent' = sent \union ToSet(run.events)
    /\ covered' = covered \union run.looked
    /\ run' = Idle
    /\ UNCHANGED <<kind, logs, jsonl, lost, forgotten, faults>>

Crash ==
    /\ Fault("crash")
    /\ run.pc # "idle"
    /\ lost' = lost \union ToSet(run.events)
                 \union (IF run.pc = "rotate" THEN ToSet(run.fresh) ELSE {})
    /\ run' = Idle
    /\ UNCHANGED <<kind, logs, jsonl, sent, covered, forgotten>>

(***************************************************************************)
(* The logs                                                                *)
(***************************************************************************)

\* A daemon's line: in the second of the last one or a later one.
DaemonWrites(whats, ids) ==
    /\ kind # "http_outcome"
    /\ written < Lines
    /\ \E at \in 1 .. MaxTime, what \in whats, op \in ids :
          /\ log[1] # <<>> => at >= Last(log[1]).at
          /\ op # NoId => kind = "nginx" /\ what \notin {Noise, Huge}
          /\ what = Huge => "huge" \in Faults
          /\ log' = [log EXCEPT ![1] = Append(@, [n |-> written + 1, at |-> at, what |-> what, op |-> op])]
    /\ present' = present \union {1}
    /\ written' = written + 1
    /\ UNCHANGED <<kind, jsonl, run, outcome, faults>>

=============================================================================
