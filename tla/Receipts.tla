------------------------------ MODULE Receipts ------------------------------
(***************************************************************************)
(* HTTP outcome receipts (httpoutcome) and the collectors that read them    *)
(* and the other logs: an application's RoundTrips record receipts in a     *)
(* FileSink, http_outcome reads the file if it can trust it.  Daemons write *)
(* the logs of the other collectors.                                        *)
(***************************************************************************)
EXTENDS EventLog

CONSTANTS
    Req,      \* the application's requests, the numbers of their operation ids
    Shapes,   \* what they may be: [operation, method, status]
    Layouts,  \* what the file's path may look like
    Owners,   \* HTTPOutcomeTrustedOwners: sets of names
    Users     \* the uids of the users there are

\* A directory or a file as the collector and the sink see it, and the path of one.
Entry == [type : {"dir", "file", "other"}, uid : Nat, writable : BOOLEAN, sticky : BOOLEAN]
Path == [clean : BOOLEAN, above : SUBSET Entry, parent : Entry, file : Entry]

ASSUME ReceiptsAssumption ==
    /\ Req \subseteq Nat \ {NoId}
    /\ Layouts \subseteq Path /\ Layouts # {}

Root == 0
Me == 1

VARIABLES
    req,     \* per request: its place, its shape and what the caller got
    sink,    \* the file the sink writes: 0 none, 1 or 2 a log, 3 one renamed away
    layout,  \* the path's directories and file, with owners and modes
    owners   \* HTTPOutcomeTrustedOwners

app == <<req, sink, layout, owners>>
vars == <<eventVars, app>>

(***************************************************************************)
(* httpoutcome.go                                                          *)
(***************************************************************************)

allowedOperation(op) == op \in {"ensure_collection", "path_exists", "fetch_file", "preview_file"}
allowedOutcome(o) == o \in {"success", "expected", "integration_error", "other"}

MutClassify(s) == IF s.status \in 200 .. 299 THEN "success" ELSE IF s.status = 404 THEN "not_found" ELSE "other"

Classify(s) ==
    IF s.status \in 200 .. 299 THEN "success"
    ELSE IF <<s.operation, s.method, s.status>> \in
              {<<"ensure_collection", "MKCOL", 405>>, <<"path_exists", "PROPFIND", 404>>} THEN "expected"
    ELSE IF <<s.operation, s.method, s.status>> \in
              ({"fetch_file"} \X {"GET", "HEAD"} \X {404}) \union {<<"preview_file", "GET", 404>>}
      THEN "integration_error"
    ELSE "other"

\* A caller may have methods of its own.
Padded == " GET"
Long == "more than 32 bytes"
goodMethod(method) == method \notin {"", Padded, Long}

ValidateReceipt(r) ==
    /\ goodMethod(r.method)
    /\ r.status \in 100 .. 599
    /\ allowedOperation(r.operation)
    /\ allowedOutcome(r.outcome)

\* The receipt of request r.
Receipt(r) == [operation |-> req[r].shape.operation, method |-> req[r].shape.method,
               status |-> req[r].shape.status, outcome |-> Classify(req[r].shape)]

\* A line that is no receipt, or not a good one, is dropped.
ParseReceiptLine(l) == IF l.what = "receipt" /\ ValidateReceipt(Receipt(l.op)) THEN <<l>> ELSE <<>>

(***************************************************************************)
(* sink.go, perm_unix.go                                                   *)
(***************************************************************************)

uidAllowed(uid, trusted, allowRoot) == uid = Me \/ (allowRoot /\ uid = Root) \/ uid \in trusted

checkOwnerAndMode(e, trusted) == uidAllowed(e.uid, trusted, FALSE) /\ ~e.writable

checkFileInfoWith(e, type, trusted) == e.type = type /\ checkOwnerAndMode(e, trusted)

checkAncestor(e, trusted) ==
    /\ e.type = "dir"
    /\ uidAllowed(e.uid, trusted, TRUE)
    /\ ~e.writable \/ e.sticky

VerifyTrustedPath(l) ==
    /\ l.clean
    /\ checkFileInfoWith(l.parent, "dir", {})
    /\ checkFileInfoWith(l.file, "file", {})

VerifyTrustedPathWithOwners(l, trusted) ==
    /\ l.clean
    /\ \A e \in l.above : checkAncestor(e, trusted)
    /\ checkFileInfoWith(l.parent, "dir", trusted)
    /\ checkFileInfoWith(l.file, "file", trusted)

Created == [type |-> "file", uid |-> Me, writable |-> FALSE, sticky |-> FALSE]

\* A file that does not exist is created; verifyOpened looks at the file again.
NewFileSink ==
    /\ kind = "http_outcome"
    /\ sink = 0
    /\ layout' = IF 1 \in present THEN layout ELSE [layout EXCEPT !.file = Created]
    /\ VerifyTrustedPath(layout')
    /\ sink' = 1
    /\ present' = present \union {1}
    /\ UNCHANGED <<kind, log, written, jsonl, run, outcome, req, owners, faults>>

\* Close, or the end of the application.
CloseSink ==
    /\ sink # 0
    /\ sink' = 0
    /\ UNCHANGED <<eventVars, req, layout, owners>>

(***************************************************************************)
(* Transport.RoundTrip                                                     *)
(***************************************************************************)

Untagged == [operation |-> "", method |-> "", status |-> 0]
NewRequest == [pc |-> "new", shape |-> Untagged, got |-> "nothing"]

\* Without an allowed operation, or without an id, the request goes out untagged.
Tag(r) ==
    /\ kind = "http_outcome"
    /\ req[r].pc = "new"
    /\ \E s \in Shapes : \E pc \in (IF allowedOperation(s.operation) THEN {"tagged", "plain"} ELSE {"plain"}) :
          req' = [req EXCEPT ![r] = [NewRequest EXCEPT !.pc = pc, !.shape = IF pc = "plain" THEN @ ELSE s]]
    /\ UNCHANGED <<eventVars, sink, layout, owners>>

\* base.RoundTrip returns.
BaseReturns(r) ==
    /\ req[r].pc \in {"tagged", "plain"}
    /\ \/ req' = [req EXCEPT ![r].pc = IF @ = "tagged" THEN "record" ELSE "done", ![r].got = "response"]
       \/ req' = [req EXCEPT ![r].pc = "done", ![r].got = "error"]
    /\ UNCHANGED <<eventVars, sink, layout, owners>>

\* FileSink.Record, under its lock; the caller gets the response in any case.
Record(r) ==
    /\ req[r].pc = "record"
    /\ req' = [req EXCEPT ![r].pc = "done"]
    /\ IF sink \in {1, 2}
         THEN /\ written' = written + 1
              /\ \E line \in {[n |-> written + 1, at |-> 1, what |-> "receipt", op |-> r], Torn} :
                    /\ log' = [log EXCEPT ![sink] = Put(@, line)]
                    /\ IF line = Torn THEN Fault("short") ELSE faults' = faults
         ELSE UNCHANGED <<log, written, faults>>
    /\ UNCHANGED <<kind, present, jsonl, run, outcome, sink, layout, owners>>

(***************************************************************************)
(* The collectors                                                          *)
(***************************************************************************)

resolveOwner(name) == IF name \in DOMAIN Users THEN {Users[name]} ELSE {}

\* With a name nobody can resolve in the list, no file is read.
mayRead(f) ==
    \/ kind # "http_outcome"
    \/ owners = {} /\ VerifyTrustedPath(layout)
    \/ /\ owners # {}
       /\ \A name \in owners : resolveOwner(name) # {}
       /\ VerifyTrustedPathWithOwners(layout, UNION {resolveOwner(name) : name \in owners})

Parse(l) ==
    CASE kind = "ssh" -> SshLine(l)
      [] kind = "nginx" -> NginxLine(l)
      [] kind = "fail2ban" -> Fail2banLine(l)
      [] kind = "http_outcome" -> ParseReceiptLine(l)

\* The events of the lines a Run of file f looks at.
TailEvents(f) ==
    LET lines == TailLines(log[f]) IN FlattenSeq([k \in 1 .. Len(lines) |-> Parse(lines[k])])

Collect ==
    \/ Start(IF kind = "http_outcome" THEN <<1, 2>> ELSE <<1>>) /\ UNCHANGED app
    \/ \E f \in {1, 2} : ReadFile(f, mayRead(f), TailEvents(f)) /\ UNCHANGED app

(***************************************************************************)
(* The world                                                               *)
(***************************************************************************)

\* logrotate: the writers that hold the file open go on in it.
Rename ==
    /\ Fault("renamed")
    /\ 1 \in present
    /\ log' = [f \in {1, 2} |-> IF f = 2 THEN log[1] ELSE <<>>]
    /\ present' = {2}
    /\ sink' = IF sink \in {1, 2} THEN sink + 1 ELSE sink
    /\ UNCHANGED <<kind, written, jsonl, run, outcome, req, layout, owners>>

Chmod ==
    /\ kind = "http_outcome"
    /\ Fault("chmod")
    /\ layout' \in Layouts
    /\ UNCHANGED <<kind, logs, jsonl, run, outcome, req, sink, owners>>

Init ==
    /\ EventInit
    /\ req = [r \in Req |-> NewRequest]
    /\ sink = 0
    /\ layout \in IF kind = "http_outcome" THEN Layouts ELSE {CHOOSE l \in Layouts : TRUE}
    /\ owners \in IF kind = "http_outcome" THEN Owners ELSE {{}}

Next ==
    \/ NewFileSink \/ CloseSink \/ Rename \/ Chmod
    \/ \E r \in Req : Tag(r) \/ BaseReturns(r) \/ Record(r)
    \/ Collect
    \/ (AppendJSONL \/ AppendFails \/ Rotate \/ RotateFails \/ Return \/ Crash) /\ UNCHANGED app
    \/ DaemonWrites(CASE kind = "ssh" -> {"failed", "preauth", Huge}
                     [] kind = "fail2ban" -> {"ban", "unban", Noise}
                     [] OTHER -> {"request", Noise, Huge},
                    IF kind = "nginx" THEN {NoId, BadId, 1} ELSE {NoId}) /\ UNCHANGED app

\* The runner starts the collector again and again, and a Collect that runs goes on.
Fairness == WF_vars(Collect \/ ((AppendJSONL \/ Rotate \/ Return) /\ UNCHANGED app))

Spec == Init /\ [][Next]_vars
FairSpec == Spec /\ Fairness

(***************************************************************************)
(* Properties                                                              *)
(***************************************************************************)

\* The same event: the same operation if it carries an id, otherwise the same key.
Same(e, f) == IF kind = "http_outcome" \/ (kind = "nginx" /\ e.op # NoId)
                THEN e.op = f.op
                ELSE <<e.at, e.what>> = <<f.at, f.what>>

\* An event is read again only after its key was forgotten, when the JSONL file was
\* renamed or its record was written behind a torn one, or in a Run that could not read
\* the JSONL file to its end: any other Run drops it (jsonl.go:26-74).
AgainOnlyIfForgotten ==
    [][run.pc = "file" /\ run'.pc = "append" =>
         \A k \in 1 .. Len(run'.fresh) :
             (\E e \in sent \union ToSet(run.events) : Key(e) = Key(run'.fresh[k]))
             => \/ Key(run'.fresh[k]) \in forgotten
                \/ Key(run'.fresh[k]) \in Remembered(jsonl) /\ faults' # faults]_vars

\* An event a successful Run has looked at was returned; the JSONL file may hide it
\* only if a failed write or rename, or a crash, came in between (jsonl.go:110-125).
NothingOverlooked == \A e \in covered : \E f \in sent \union lost : Same(e, f)

\* What Transport records of a request with a method and a status that HTTP knows,
\* ParseReceiptLine accepts; a caller's method that is empty, padded or long is recorded
\* and refused (httpoutcome.go:137-186 and :236-244).
ReceiptsAccepted ==
    kind = "http_outcome" =>
      \A f \in {1, 2} : \A k \in 1 .. Len(log[f]) :
        LET l == log[f][k]
        IN  l.what = "receipt" /\ goodMethod(req[l.op].shape.method) /\ req[l.op].shape.status \in 100 .. 599
            => ParseReceiptLine(l) = <<l>>

\* The events of the lines that a Run looks at.
InReach(f) ==
    IF run.pc \in {"append", "rotate"} \/ ~Readable(f) \/ ~mayRead(f) THEN {}
    ELSE ToSet(TailEvents(f))

\* Sooner or later everything within reach is returned, unless a fault made the
\* collector remember it unsent (jsonl.go:108-125).
CaughtUp ==
    <>[](\A f \in 1 .. (IF kind = "http_outcome" THEN 2 ELSE 1) :
            \A e \in InReach(f) : \E g \in sent \union lost : Same(e, g))

\* What the comment at collector/vps/httpoutcome/httpoutcome.go:61-63 promises: "so
\* a receipt is sent once".
ReceiptSentOnce ==
    [][kind = "http_outcome" /\ run.pc = "file" /\ run'.pc = "append" =>
         \A k \in 1 .. Len(run'.fresh) : \A e \in sent : Key(e) # Key(run'.fresh[k])]_vars

(***************************************************************************)
(* The inductive invariant                                                 *)
(***************************************************************************)

Whats == {Noise, Huge, Torn.what, "receipt", "failed", "preauth", "ban", "unban", "request"}
Line == [n : Nat, at : Nat, what : Whats, op : Int]

Request == [pc : {"new", "tagged", "plain", "record", "done"}, shape : Shapes \union {Untagged}, got : {"nothing", "response", "error"}]

\* The type invariant: every variable holds a value of its type.
TypeOK ==
    /\ kind \in Kinds
    /\ log \in [{1, 2} -> Seq(Line)] /\ present \subseteq {1, 2} /\ written \in Nat
    /\ jsonl \in Seq(Line)
    /\ run \in [pc : {"idle", "file", "append", "rotate"}, todo : Seq({1, 2}), fresh : Seq(Line),
                events : Seq(Line), looked : SUBSET Line]
    /\ sent \subseteq Line /\ covered \subseteq Line /\ lost \subseteq Line
    /\ faults \in Nat
    /\ req \in [Req -> Request] /\ sink \in 0 .. 3 /\ layout \in Path

\* Events read and not returned yet.
Batch == IF run.pc \in {"append", "rotate"} THEN ToSet(run.fresh) ELSE {}

\* Events whose records AppendJSONL has written, of this Collect or an earlier one.
Shipped == sent \union ToSet(run.events) \union (IF run.pc = "rotate" THEN ToSet(run.fresh) ELSE {})

\* A Collect that has one file only has no events before it is through with it.
PlaceInv ==
    /\ run.pc = "idle" => run.looked = {} /\ run.events = <<>>
    /\ run.pc \in {"append", "rotate"} => run.todo # <<>>
    /\ kind # "http_outcome" /\ run.todo # <<>> => Tail(run.todo) = <<>> /\ run.events = <<>>

\* What was looked at is on its way, and what hides an event from LoadSeen was shipped
\* or is among the lost.
LookedInv ==
    /\ Batch \subseteq run.looked
    /\ \A e \in run.looked : \E f \in Shipped \union lost \union Batch : Same(e, f)
    /\ Whole(jsonl) \subseteq Shipped \union lost

\* What was shipped is remembered, or known to be forgotten.
KeysInv == \A e \in Shipped : Key(e) \in Remembered(jsonl) \union forgotten

Logged == UNION {{l \in ToSet(log[f]) : l.what = "receipt"} : f \in {1, 2}}

\* Every receipt is of a request of its own that is done and had an allowed operation.
RequestsInv ==
    kind = "http_outcome" =>
      /\ \A r \in Req : req[r].pc \in {"tagged", "record"} => allowedOperation(req[r].shape.operation)
      /\ \A l \in Logged \union run.looked :
            l.op \in Req /\ req[l.op].pc = "done" /\ allowedOperation(req[l.op].shape.operation)
      /\ \A l, m \in Logged \union run.looked : l.op = m.op => l = m

IInv == TypeOK /\ PlaceInv /\ LookedInv /\ KeysInv /\ RequestsInv /\ NothingOverlooked

=============================================================================
