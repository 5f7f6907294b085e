---------------------------- MODULE NextcloudTail ----------------------------
(***************************************************************************)
(* The Nextcloud collector (collector/optional/nextcloud): Collect reads    *)
(* what is new in nextcloud.log, which logrotate copies and truncates, and  *)
(* in audit.log, which it renames; no more than one report can hold.  It    *)
(* writes the events to its own nextcloud.jsonl and returns them when its   *)
(* place in the logs is on disk.  Offsets and fingerprints count lines, the *)
(* budget units where the code counts bytes and events.                     *)
(***************************************************************************)
EXTENDS Integers, Sequences, SequencesExt

CONSTANTS
    maxResult,   \* what one Collect may return, in units of an event's size
    Sizes,       \* per source the sizes of its events
    HeadLines,   \* lines a fingerprint covers (headFingerprintBytes)
    MaxBytes,    \* lines nextcloud.jsonl may hold before it is renamed
    MaxLines,    \* bound: lines written to the logs
    MaxRotations,\* bound: rotations of the logs
    MaxFaults    \* bound: failed steps and crashes

Source == {"app", "audit"}

ASSUME NextcloudAssumption ==
    /\ {maxResult, HeadLines} \subseteq Nat \ {0}
    /\ Sizes \in [Source -> SUBSET (Nat \ {0})]
    /\ {MaxBytes, MaxLines, MaxRotations, MaxFaults} \subseteq Nat

Inode == 1 .. 3

VARIABLES
    file,      \* per source the log (cur) and the one rotated last (prev)
    copied,    \* logrotate has copied nextcloud.log and not truncated it yet
    state,     \* the state file
    run,       \* Collect: its place, the events it has read, the state to save
    jsonl,     \* nextcloud.jsonl
    archived,  \* the events of nextcloud.jsonl.1 and the ones before it
    given,     \* events Collect has returned
    excused,   \* events left out on purpose, or with a Collect that saved and did not return
    starved,   \* per source: Collects in a row that left its first event behind
    rotations, \* per source: since the Collect began whose state is on disk
    bounds     \* lines, rotations and faults so far

local == <<jsonl, archived>>
history == <<given, excused, starved>>
vars == <<file, copied, state, run, local, history, rotations, bounds>>

Absent == [exists |-> FALSE, ino |-> 0, lines |-> <<>>]
NoPrev == [known |-> FALSE, offset |-> 0, ino |-> 0, head |-> <<>>]
NoPlace == [known |-> FALSE, offset |-> 0, ino |-> 0, head |-> <<>>, prev |-> NoPrev]
NoMark == [known |-> FALSE, size |-> 0, head |-> <<>>]
NoState == [files |-> [s \in Source |-> NoPlace], round |-> 0, appending |-> NoMark]
Idle == [pc |-> "idle", events |-> <<>>, next |-> NoState, took |-> {}, waiting |-> {},
         skipped |-> {}, rotations |-> [s \in Source |-> 0]]

Init ==
    /\ file = [s \in Source |-> [cur |-> IF s = "app" THEN [Absent EXCEPT !.exists = TRUE, !.ino = 1] ELSE Absent,
                                 prev |-> Absent]]
    /\ copied = FALSE
    /\ state = NoState
    /\ run = Idle
    /\ jsonl = <<>> /\ archived = {}
    /\ given = {} /\ excused = {} /\ starved = [s \in Source |-> 0]
    /\ rotations = [s \in Source |-> 0]
    /\ bounds = [lines |-> 0, rotations |-> 0, faults |-> 0]

(***************************************************************************)
(* Reading one source                                                      *)
(***************************************************************************)

readHead(lines) == SubSeq(lines, 1, IF Len(lines) < HeadLines THEN Len(lines) ELSE HeadLines)

\* No fingerprint matches everything.
matches(head, lines) == Len(head) <= Len(lines) /\ SubSeq(lines, 1, Len(head)) = head

\* The first event of a source may exceed its share.
take(a, size) == size <= a.left /\ (a.taken = 0 \/ size <= a.share)

\* One that no report can hold is passed over; one that the budget refuses ends the
\* reading.
readLine(a, line, k) ==
    IF a.more THEN a
    ELSE IF line.size > maxResult THEN [a EXCEPT !.at = k]
    ELSE IF ~take(a, line.size) THEN [a EXCEPT !.more = TRUE]
    ELSE [a EXCEPT !.at = k, !.events = Append(@, line.n),
                   !.left = @ - line.size, !.share = @ - line.size, !.taken = @ + 1]

readFrom(lines, offset, acc) ==
    LET upTo[k \in offset .. Len(lines)] ==
          IF k = offset THEN [acc EXCEPT !.at = offset, !.more = FALSE]
                        ELSE readLine(upTo[k - 1], lines[k], k)
    IN  upTo[Len(lines)]

\* The first time: past events are not sent.
FirstTime(f) ==
    IF f.cur.exists
      THEN [NoPlace EXCEPT !.known = TRUE, !.offset = Len(f.cur.lines), !.ino = f.cur.ino, !.head = readHead(f.cur.lines)]
      ELSE [NoPlace EXCEPT !.known = TRUE]

prevIsOldFile(st, f) ==
    /\ Len(f.prev.lines) >= st.offset
    /\ IF st.head # <<>> THEN matches(st.head, f.prev.lines)
                         ELSE st.ino \in {0, f.prev.ino, f.cur.ino}

MutRotated(st, f) == Len(f.cur.lines) < st.offset \/ st.ino \notin {0, f.cur.ino}

rotated(st, f) ==
    \/ Len(f.cur.lines) < st.offset
    \/ ~matches(st.head, f.cur.lines)
    \/ st.ino \notin {0, f.cur.ino}

MutSwitched(st, f) ==
    LET s == IF ~rotated(st, f) THEN st
             ELSE [st EXCEPT !.offset = 0, !.head = <<>>, !.prev = [known |-> TRUE, offset |-> 0, ino |-> f.prev.ino, head |-> st.head]]
    IN  [s EXCEPT !.ino = f.cur.ino, !.head = readHead(f.cur.lines)]

\* The place after a look at the log: a rotation leaves the rest of the old file as
\* prev; the fingerprint grows with a young file.
Switched(st, f) ==
    LET old == f.prev.exists /\ prevIsOldFile(st, f)
        s == IF ~rotated(st, f) THEN st
             ELSE [st EXCEPT !.offset = 0, !.head = <<>>,
                             !.prev = IF old THEN [known |-> TRUE, offset |-> st.offset, ino |-> f.prev.ino, head |-> st.head]
                                             ELSE NoPrev]
    IN  [s EXCEPT !.ino = f.cur.ino,
                  !.head = IF Len(@) < HeadLines /\ Len(f.cur.lines) > Len(@) THEN readHead(f.cur.lines) ELSE @]

prevValid(p, f) ==
    /\ p.known
    /\ f.prev.exists
    /\ Len(f.prev.lines) >= p.offset
    /\ p.ino \in {0, f.prev.ino}
    /\ matches(p.head, f.prev.lines)

\* The rest of the old file first; the new one only when that is done.
readSource(st, f, acc) ==
    IF ~st.known THEN [st |-> FirstTime(f), acc |-> acc]
    ELSE LET s == IF f.cur.exists THEN Switched(st, f) ELSE st
             a == IF prevValid(s.prev, f) THEN readFrom(f.prev.lines, s.prev.offset, acc) ELSE [acc EXCEPT !.more = FALSE]
             b == readFrom(f.cur.lines, s.offset, a)
         IN  IF a.more THEN [st |-> [s EXCEPT !.prev.offset = a.at], acc |-> a]
             ELSE IF f.cur.exists THEN [st |-> [s EXCEPT !.prev = NoPrev, !.offset = b.at], acc |-> b]
             ELSE [st |-> [s EXCEPT !.prev = NoPrev], acc |-> a]

Budget(n) == [left |-> n, share |-> n \div 2, taken |-> 0, events |-> <<>>, at |-> 0, more |-> FALSE]

\* What a Collect without limits would return of source s.
NoLimit == LET n == 2 * MaxLines * maxResult IN [Budget(n) EXCEPT !.share = n]

Unread(s) == ToSet(readSource(state.files[s], file[s], NoLimit).acc.events)

(***************************************************************************)
(* Collect                                                                 *)
(***************************************************************************)

MutRecoverAppend == jsonl

\* What an interrupted Collect has appended is cut off again.
recoverAppend ==
    LET m == state.appending
    IN  IF m.known /\ Len(jsonl) > m.size /\ matches(m.head, jsonl) THEN SubSeq(jsonl, 1, m.size) ELSE jsonl

MutOrder == <<"app", "audit">>

Order == IF state.round % 2 = 0 THEN <<"app", "audit">> ELSE <<"audit", "app">>

Lines(f) == ToSet(f.cur.lines) \union ToSet(f.prev.lines)

\* Taken between the copying and the truncation, a fingerprint may cover more lines
\* than the copy holds; the copy is then not recognised as the old file, and what was
\* not read of it is left out.
Unrecognised(s) ==
    LET copy == file[s].prev.lines
    IN  IF s = "app" /\ Len(copy) < Len(state.files[s].head) /\ matches(copy, state.files[s].head)
          THEN {l.n : l \in ToSet(copy)} ELSE {}

\* loadState finds nothing it can read, or a source's entry without a sound offset and
\* fingerprint: what the logs hold by then is passed over, as it is the first time.
loadState ==
    /\ run.pc = "idle"
    /\ bounds.faults < MaxFaults
    /\ \E lost \in {Source} \union {{s} : s \in Source} :
          /\ state' = IF lost = Source THEN NoState
                      ELSE [state EXCEPT !.files = [s \in Source |-> IF s \in lost THEN NoPlace ELSE @[s]]]
          /\ starved' = [s \in Source |-> IF s \in lost THEN 0 ELSE starved[s]]
          /\ rotations' = [s \in Source |-> IF s \in lost THEN 0 ELSE rotations[s]]
    /\ bounds' = [bounds EXCEPT !.faults = @ + 1]
    /\ UNCHANGED <<file, copied, run, local, given, excused>>

\* recoverAppend and both sources: what they look at is one state of the logs.
Read ==
    /\ run.pc = "idle"
    /\ LET o == Order
           one == readSource(state.files[o[1]], file[o[1]], Budget(maxResult))
           rest == one.acc.left
           two == readSource(state.files[o[2]], file[o[2]], [Budget(rest) EXCEPT !.share = rest])
           part == [s \in Source |-> IF s = o[1] THEN one ELSE two]
           events == part["app"].acc.events \o part["audit"].acc.events
       IN  run' = [pc |-> IF events = <<>> THEN "save" ELSE "pending",
                   events |-> events,
                   next |-> [files |-> [s \in Source |-> part[s].st], round |-> (state.round + 1) % 2, appending |-> NoMark],
                   took |-> {s \in Source : part[s].acc.events # <<>>},
                   waiting |-> {s \in Source : Unread(s) # {}},
                   skipped |-> (UNION {{l.n : l \in Lines(file[s])} : s \in {s \in Source : ~state.files[s].known}})
                             \union Unrecognised("app"),
                   rotations |-> rotations]
    /\ jsonl' = recoverAppend
    /\ UNCHANGED <<file, copied, state, archived, history, rotations, bounds>>

\* The mark goes to disk before the events, with the place they were read from.
SavePending ==
    /\ run.pc = "pending"
    /\ state' = [state EXCEPT !.appending = [known |-> TRUE, size |-> Len(jsonl), head |-> readHead(jsonl)]]
    /\ run' = [run EXCEPT !.pc = "append"]
    /\ UNCHANGED <<file, copied, local, history, rotations, bounds>>

AppendJSONL ==
    /\ run.pc = "append"
    /\ jsonl' = jsonl \o [k \in 1 .. Len(run.events) |-> [n |-> run.events[k]]]
    /\ run' = [run EXCEPT !.pc = "rotate"]
    /\ UNCHANGED <<file, copied, state, archived, history, rotations, bounds>>

Rotate ==
    /\ run.pc = "rotate"
    /\ IF Len(jsonl) > MaxBytes
         THEN jsonl' = <<>> /\ archived' = archived \union {l.n : l \in ToSet(jsonl)}
         ELSE UNCHANGED local
    /\ run' = [run EXCEPT !.pc = "save"]
    /\ UNCHANGED <<file, copied, state, history, rotations, bounds>>

\* The new place is on disk; the mark is gone.
Saved == state' = run.next

\* What the new place leaves behind for good, with the events in lost.
Settled(lost) ==
    /\ excused' = excused \union run.skipped \union lost
    /\ starved' = [s \in Source |-> IF s \in run.waiting \ run.took THEN starved[s] + 1 ELSE 0]
    /\ rotations' = [s \in Source |-> rotations[s] - run.rotations[s]]

Return ==
    /\ run.pc = "save"
    /\ Saved
    /\ Settled({})
    /\ given' = given \union ToSet(run.events)
    /\ run' = Idle
    /\ UNCHANGED <<file, copied, local, bounds>>

\* A step fails, or the process ends there.
Fails ==
    /\ bounds.faults < MaxFaults
    /\ run.pc # "idle"
    /\ \/ UNCHANGED <<state, jsonl, history, rotations>>
       \/ /\ run.pc = "append"
          /\ \E k \in 1 .. Len(run.events) : jsonl' = jsonl \o [i \in 1 .. k |-> [n |-> run.events[i]]]
          /\ UNCHANGED <<state, history, rotations>>
       \/ /\ run.pc = "save"
          /\ Saved
          /\ Settled(ToSet(run.events))
          /\ UNCHANGED <<jsonl, given>>
    /\ run' = Idle
    /\ bounds' = [bounds EXCEPT !.faults = @ + 1]
    /\ UNCHANGED <<file, copied, archived>>

(***************************************************************************)
(* Nextcloud and logrotate                                                 *)
(***************************************************************************)

Write(s) ==
    /\ bounds.lines < MaxLines
    /\ \E size \in Sizes[s] :
          file' = [file EXCEPT ![s].cur =
                     [exists |-> TRUE, ino |-> IF @.exists THEN @.ino ELSE 1,
                      lines |-> Append(@.lines, [n |-> bounds.lines + 1, size |-> size])]]
    /\ bounds' = [bounds EXCEPT !.lines = @ + 1]
    /\ UNCHANGED <<copied, state, run, local, history, rotations>>

\* A second rotation since the last look puts a file in prev that nobody has seen.
\* So does a rotation that leaves no trace: of a file that was missing at that look,
\* or of one that was empty then and is truncated.
Rotation(s) ==
    /\ bounds.rotations < MaxRotations
    /\ bounds' = [bounds EXCEPT !.rotations = @ + 1]
    /\ rotations' = [rotations EXCEPT ![s] = @ + 1]
    /\ excused' = IF rotations[s] > 0 \/ (state.files[s].head = <<>> /\ (s = "app" \/ state.files[s].ino = 0))
                    THEN excused \union {l.n : l \in ToSet(file[s].cur.lines)} ELSE excused
    /\ UNCHANGED <<state, run, local, given, starved>>

\* audit.log: create.
RenameAudit ==
    /\ file["audit"].cur.exists
    /\ \E ino \in Inode \ {file["audit"].cur.ino} :
          file' = [file EXCEPT !["audit"] = [cur |-> [exists |-> TRUE, ino |-> ino, lines |-> <<>>], prev |-> file["audit"].cur]]
    /\ Rotation("audit")
    /\ UNCHANGED copied

\* nextcloud.log: copytruncate.
CopyApp ==
    /\ ~copied
    /\ bounds.rotations < MaxRotations
    /\ file' = [file EXCEPT !["app"].prev = [file["app"].cur EXCEPT !.ino = IF file["app"].prev.ino = 2 THEN 3 ELSE 2]]
    /\ copied' = TRUE
    /\ UNCHANGED <<state, run, local, history, rotations, bounds>>

TruncateApp ==
    /\ copied
    /\ file' = [file EXCEPT !["app"].cur.lines = <<>>]
    /\ copied' = FALSE
    /\ Rotation("app")

Next ==
    \/ loadState \/ Read \/ SavePending \/ AppendJSONL \/ Rotate \/ Return \/ Fails
    \/ \E s \in Source : Write(s)
    \/ RenameAudit \/ CopyApp \/ TruncateApp

Spec == Init /\ [][Next]_vars

(***************************************************************************)
(* Properties                                                              *)
(***************************************************************************)

\* No event is returned twice, whatever is rotated, fails or is interrupted while it
\* is read (nextcloud.go:15-21).
NothingTwice ==
    run.pc = "save" => IsInjective(run.events) /\ ToSet(run.events) \intersect given = {}

\* Every event of the two files logrotate leaves in place is behind the place on
\* disk only if it was returned or is one of the named exceptions; otherwise the
\* next Collects find it (nextcloud.go:372-495).
NothingSkipped ==
    run.pc = "idle" =>
      \A s \in Source :
        LET found == Unread(s)
        IN  \A l \in Lines(file[s]) :
              l.n \notin given \union excused \union Unrecognised(s) /\ l.size <= maxResult => l.n \in found \/ ~state.files[s].known

\* nextcloud.jsonl never holds an event twice, and cutting off what an interrupted
\* Collect has appended takes none away that was returned (nextcloud.go:26-27 and
\* :345-367).
LocalCopyExact == IsInjective(jsonl) /\ given \subseteq archived \union {l.n : l \in ToSet(jsonl)}

\* One source's backlog puts the other's next event off once, and not again: of two
\* Collects that succeed one takes it, so both logs drain (nextcloud.go:274-276).
PutOffOnce == \A s \in Source : starved[s] <= 1

(***************************************************************************)
(* The inductive invariant                                                 *)
(***************************************************************************)

Number == 1 .. MaxLines
Line == [n : Number, size : Nat]
Copy == [n : Number]
Log == [exists : BOOLEAN, ino : {0} \union Inode, lines : Seq(Line)]
OldPlace == [known : BOOLEAN, offset : Nat, ino : {0} \union Inode, head : Seq(Line)]
Place == [known : BOOLEAN, offset : Nat, ino : {0} \union Inode, head : Seq(Line), prev : OldPlace]
StateFile == [files : [Source -> Place], round : 0 .. 1,
              appending : [known : BOOLEAN, size : Nat, head : Seq(Copy)]]

TypeOK ==
    /\ file \in [Source -> [cur : Log, prev : Log]]
    /\ copied \in BOOLEAN
    /\ state \in StateFile
    /\ run \in [pc : {"idle", "pending", "append", "rotate", "save"}, events : Seq(Number), next : StateFile,
                took : SUBSET Source, waiting : SUBSET Source, skipped : SUBSET Number, rotations : [Source -> Nat]]
    /\ jsonl \in Seq(Copy)
    /\ {archived, given, excused} \subseteq SUBSET Number
    /\ {starved, rotations} \subseteq [Source -> Nat]
    /\ bounds \in [lines : 0 .. MaxLines, rotations : Nat, faults : Nat]
    /\ run.pc # "idle" => \A s \in Source : run.rotations[s] <= rotations[s]

Numbers(lines) == {l.n : l \in ToSet(lines)}

Distinct(lines) == \A i, j \in DOMAIN lines : lines[i].n = lines[j].n => i = j

\* A line is in one log and there once, but for the copy of a log not truncated yet.
LogOK(s, f, last, half) ==
    /\ \A n \in Numbers(f.cur.lines) \union Numbers(f.prev.lines) : n <= last
    /\ Distinct(f.cur.lines) /\ Distinct(f.prev.lines)
    /\ f.cur.exists <=> f.cur.ino # 0
    /\ ~f.cur.exists => f.cur.lines = <<>> /\ f.prev.lines = <<>>
    /\ ~f.prev.exists => f.prev.lines = <<>>
    /\ s = "app" => f.cur.ino = 1
    /\ IF s = "app" /\ half THEN matches(f.prev.lines, f.cur.lines)
                              ELSE Numbers(f.cur.lines) \intersect Numbers(f.prev.lines) = {}

LogsOK ==
    /\ \A s \in Source : LogOK(s, file[s], bounds.lines, copied)
    /\ \A m \in Lines(file["app"]), l \in Lines(file["audit"]) : m.n # l.n

\* A place that is not at the beginning has a fingerprint; the new file is not begun
\* before the rest of the old one is read; a place that never saw a file is empty.
PlaceOK(s, st, f, last) ==
    /\ \A n \in Numbers(st.head) \union Numbers(st.prev.head) : n <= last
    /\ st.head = <<>> => st.offset = 0
    /\ st.prev.known => st.offset = 0
    /\ st.ino = 0 => st.head = <<>> /\ ~st.prev.known
    /\ ~f.cur.exists => st.ino = 0
    /\ s = "app" /\ st.known => st.ino = 1
    /\ s = "app" /\ st.prev.known => st.prev.head # <<>>

\* The fingerprint tells the file of the place from every other.
Recognised(st, f) ==
    /\ st.head # <<>> /\ matches(st.head, f.cur.lines) => ~rotated(st, f)
    /\ st.prev.known /\ st.prev.head # <<>> => ~matches(st.prev.head, f.cur.lines)

\* None of the events in G is one that a Collect from the place would read.
Fresh(st, f, G) ==
    st.known =>
      /\ \A k \in DOMAIN f.cur.lines : f.cur.lines[k].n \in G => k <= st.offset /\ ~rotated(st, f)
      /\ \A k \in DOMAIN f.prev.lines : f.prev.lines[k].n \in G =>
            /\ rotated(st, f) /\ prevIsOldFile(st, f) => k <= st.offset
            /\ ~rotated(st, f) /\ prevValid(st.prev, f) => k <= st.prev.offset

\* Nobody looks for the events behind the place but in D; r rotations since the look.
Unmatched(s, st, f) == s = "app" /\ Len(f.prev.lines) < Len(st.head) /\ matches(f.prev.lines, st.head)

Covered(s, st, f, half, D, r) ==
    LET passed(l) == l.n \in D \/ l.size > maxResult
    IN  st.known =>
          /\ r = 0 => ~rotated(st, f)
          /\ \A k \in DOMAIN f.cur.lines : k <= st.offset /\ ~rotated(st, f) => passed(f.cur.lines[k])
          /\ s # "app" \/ ~half =>
               \A k \in DOMAIN f.prev.lines :
                  \/ passed(f.prev.lines[k])
                  \/ Unmatched(s, st, f)
                  \/ (rotated(st, f) /\ prevIsOldFile(st, f) /\ k > st.offset)
                  \/ (~rotated(st, f) /\ prevValid(st.prev, f) /\ k > st.prev.offset)

Kept == given \union Numbers(recoverAppend)

PlacesOK ==
    \A s \in Source :
        /\ PlaceOK(s, state.files[s], file[s], bounds.lines)
        /\ Recognised(state.files[s], file[s])
        /\ run.pc # "idle" => PlaceOK(s, run.next.files[s], file[s], bounds.lines) /\ Recognised(run.next.files[s], file[s])

FreshOK ==
    \A s \in Source :
        /\ Fresh(state.files[s], file[s], Kept)
        /\ run.pc # "idle" => Fresh(run.next.files[s], file[s], Kept \union ToSet(run.events))

\* How far the local copy is at each place of Collect.
CopyOK ==
    /\ \A n \in Kept \union Numbers(jsonl) \union ToSet(run.events) : n <= bounds.lines
    /\ IsInjective(jsonl)
    /\ given \subseteq archived \union Numbers(recoverAppend)
    /\ run.pc # "idle" =>
          /\ run.next.appending = NoMark
          /\ IsInjective(run.events)
          /\ ToSet(run.events) \intersect Kept = {}
          /\ ToSet(run.events) \subseteq archived \union Numbers(jsonl) \/ run.pc \in {"pending", "append"}
          /\ Numbers(jsonl) \subseteq Kept \union ToSet(run.events)
    /\ run.pc \in {"pending", "append"} => recoverAppend = jsonl
    /\ run.pc = "append" =>
          state.appending = [known |-> TRUE, size |-> Len(jsonl), head |-> readHead(jsonl)]
    /\ run.pc = "rotate" => ToSet(run.events) \subseteq Numbers(jsonl)

\* The log that waits is the one that is read first.
TurnsOK ==
    /\ \A s \in Source : starved[s] = 0 \/ (starved[s] = 1 /\ Order[1] = s)
    /\ run.pc # "idle" => /\ run.next.round = (state.round + 1) % 2
                          /\ Order[1] \in run.waiting => Order[1] \in run.took

\* A log that has lost its fingerprint since the place on disk was rotated.
CoveredOK ==
    \A s \in Source :
        /\ Covered(s, state.files[s], file[s], copied, given \union excused, rotations[s])
        /\ ~state.files[s].known => state.files[s].ino = 0
        /\ run.pc # "idle" =>
              /\ run.next.files[s].known
              /\ Covered(s, run.next.files[s], file[s], copied, given \union excused \union run.skipped \union ToSet(run.events),
                         rotations[s] - run.rotations[s])
              /\ run.next.files[s].ino = 0 => state.files[s].ino = 0
              /\ run.next.files[s].head = <<>> /\ state.files[s].head # <<>> => run.rotations[s] > 0

IInv == TypeOK /\ LogsOK /\ PlacesOK /\ FreshOK /\ CopyOK /\ TurnsOK /\ CoveredOK

=============================================================================
