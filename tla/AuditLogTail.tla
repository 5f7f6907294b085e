---------------------------- MODULE AuditLogTail ----------------------------
(***************************************************************************)
(* The audit log collector (collector/optional/audit_log_tail): Collect     *)
(* reads what another program has added to its files, one per day, and      *)
(* keeps its place in a checkpoint file.  Events are handed over when       *)
(* Collect returns them.  Offsets count whole lines: a line without its     *)
(* newline is one that is not there yet.                                    *)
(***************************************************************************)
EXTENDS Integers, Sequences, FiniteSets

CONSTANTS
    Days,      \* bound: the days of the model, 1 .. Days
    MaxLines,  \* bound: the lines written, all files together
    maxEventsPerCollect,
    MaxResets, \* bound: the places in what is handed over where Collect went on
               \* without its checkpoint
    Faults     \* "load": the checkpoint cannot be read or decoded; "save": a log
               \* cannot be read or the checkpoint not written; "crash": the process
               \* ends; "removed": an old file goes; "truncate": the latest is emptied

ASSUME AuditLogAssumption ==
    /\ {Days, maxEventsPerCollect} \subseteq Nat \ {0}
    /\ {MaxLines, MaxResets} \subseteq Nat
    /\ Faults \subseteq {"load", "save", "crash", "removed", "truncate"}

Day == 1 .. Days
NoFile == 0
Noise == 0   \* a line that is no event; events carry the number they were written as

VARIABLES
    file,     \* per day: the lines of its file
    exists,   \* the days whose file exists
    written,  \* lines written so far
    state,    \* the checkpoint: current file and offset
    job,      \* what Collect has read and not saved yet
    given,    \* the events handed over, in that order
    cut,      \* days whose file was emptied or removed
    resets,   \* the lengths of given at which a Collect without its checkpoint was saved
    excused   \* events that were lost in a way the collector accepts

world == <<file, exists, written, cut>>
vars == <<file, exists, written, cut, state, job, given, resets, excused>>

Start == [current |-> NoFile, offset |-> 0]
NoJob == [busy |-> FALSE, from |-> Start, events |-> <<>>, at |-> Start]

Init ==
    /\ file = [d \in Day |-> <<>>]
    /\ exists = {}
    /\ written = 0
    /\ cut = {}
    /\ state = Start
    /\ job = NoJob
    /\ given = <<>>
    /\ resets = {}
    /\ excused = {}

(***************************************************************************)
(* Collect                                                                 *)
(***************************************************************************)

latest == CHOOSE d \in exists : \A e \in exists : e <= d

MutFound(d, from, to) == SubSeq(file[d], from + 1, to)

Found(d, from, to) ==
    LET upTo[k \in from .. to] ==
          IF k = from THEN <<>>
          ELSE IF file[d][k] = Noise THEN upTo[k - 1] ELSE Append(upTo[k - 1], file[d][k])
    IN  upTo[to]

\* The longest stretch of lines that needs no line after the max-th event.
ReadTo(d, offset, max) ==
    LET ends == {e \in offset .. Len(file[d]) :
                   e = offset \/ max <= 0 \/ Len(Found(d, offset, e - 1)) < max}
    IN  CHOOSE e \in ends : \A f \in ends : f <= e

\* A missing file has no events and leaves the offset alone.
readFromOffset(d, offset, max) ==
    IF d \in exists /\ offset <= Len(file[d])
      THEN LET to == ReadTo(d, offset, max) IN [events |-> Found(d, offset, to), offset |-> to]
      ELSE [events |-> <<>>, offset |-> offset]

Done(from, events, d, offset) ==
    [busy |-> TRUE, from |-> from, events |-> events, at |-> [current |-> d, offset |-> offset]]

MutAfterDayChange(from) ==
    LET old == readFromOffset(from.current, from.offset, maxEventsPerCollect)
        new == readFromOffset(latest, 0, maxEventsPerCollect)
    IN  Done(from, old.events \o new.events, latest, new.offset)

MutStaysOnOldDay(from) ==
    LET old == readFromOffset(from.current, from.offset, maxEventsPerCollect)
    IN  Done(from, old.events, from.current, old.offset)

\* The checkpoint is in an older file: the rest of that one, then the latest from
\* its beginning, together no more than the limit.
AfterDayChange(from) ==
    LET old == readFromOffset(from.current, from.offset, maxEventsPerCollect)
        new == readFromOffset(latest, 0, maxEventsPerCollect - Len(old.events))
    IN  IF Len(old.events) >= maxEventsPerCollect
          THEN Done(from, old.events, from.current, old.offset)
          ELSE Done(from, old.events \o new.events, latest, new.offset)

\* The first time, or the same file again; an offset behind its end is forgotten.
SameDay(from) ==
    LET known == IF from.current = latest THEN from.offset ELSE 0
        new == readFromOffset(latest, IF Len(file[latest]) < known THEN 0 ELSE known, maxEventsPerCollect)
    IN  Done(from, new.events, latest, new.offset)

\* The error of loadState is dropped: a checkpoint that cannot be read is none.
loadState == {state} \union {none \in {Start} : "load" \in Faults /\ Cardinality(resets) < MaxResets}

Collect ==
    /\ ~job.busy
    /\ exists # {}
    /\ \E from \in loadState :
          job' = IF from.current \notin {NoFile, latest} THEN AfterDayChange(from) ELSE SameDay(from)
    /\ UNCHANGED <<world, state, given, resets, excused>>

\* A reader at p has not been there.
AheadOf(p, d, k) == p.current < d \/ (p.current = d /\ p.offset < k)

\* Lines ahead of the checkpoint in files that this Collect does not open: it reads
\* the file of the checkpoint it found and the latest.
PassedBy ==
    UNION {{file[d][k] : k \in {k \in 1 .. Len(file[d]) : AheadOf(state, d, k)}} :
             d \in {d \in exists : d < job.at.current /\ d # job.from.current}}

Resets == IF job.from = state THEN resets ELSE resets \union {Len(given)}

MutSaved ==
    /\ job.busy
    /\ state' = IF "save" \in Faults THEN state ELSE job.at
    /\ given' = given \o job.events
    /\ resets' = Resets
    /\ excused' = excused \union PassedBy
    /\ job' = NoJob
    /\ UNCHANGED world

\* The events are handed over only when the checkpoint is on disk.
Saved ==
    /\ job.busy
    /\ state' = job.at
    /\ given' = given \o job.events
    /\ resets' = Resets
    /\ excused' = excused \union PassedBy
    /\ job' = NoJob
    /\ UNCHANGED world

\* No checkpoint, no events: the next Collect reads them again.
SaveFails ==
    /\ "save" \in Faults
    /\ job.busy
    /\ job' = NoJob
    /\ UNCHANGED <<world, state, given, resets, excused>>

\* The process ends in Collect, before the rename or between it and the report.
Crash ==
    /\ "crash" \in Faults
    /\ job.busy
    /\ \/ UNCHANGED <<state, resets, excused>>
       \/ /\ state' = job.at
          /\ resets' = Resets
          /\ excused' = excused \union PassedBy \union {job.events[k] : k \in 1 .. Len(job.events)}
    /\ job' = NoJob
    /\ UNCHANGED <<world, given>>

(***************************************************************************)
(* The program that writes the files                                       *)
(***************************************************************************)

Write ==
    /\ exists # {}
    /\ written < MaxLines
    /\ written' = written + 1
    /\ \E line \in {Noise, written + 1} : file' = [file EXCEPT ![latest] = Append(@, line)]
    /\ UNCHANGED <<exists, cut, state, job, given, resets, excused>>

NewDay ==
    /\ \E d \in Day : (\A e \in exists : e < d) /\ exists' = exists \union {d}
    /\ UNCHANGED <<file, written, cut, state, job, given, resets, excused>>

Remove ==
    /\ "removed" \in Faults
    /\ exists # {}
    /\ \E d \in exists \ {latest} :
          /\ exists' = exists \ {d}
          /\ file' = [file EXCEPT ![d] = <<>>]
          /\ cut' = cut \union {d}
    /\ UNCHANGED <<written, state, job, given, resets, excused>>

Truncate ==
    /\ "truncate" \in Faults
    /\ exists # {}
    /\ latest \notin cut /\ file[latest] # <<>>
    /\ file' = [file EXCEPT ![latest] = <<>>]
    /\ cut' = cut \union {latest}
    /\ UNCHANGED <<exists, written, state, job, given, resets, excused>>

Next ==
    \/ Collect \/ Saved \/ SaveFails \/ Crash
    \/ Write \/ NewDay \/ Remove \/ Truncate

\* The agent collects again and again, and its disk works now and then.
Fairness == WF_vars(Collect) /\ SF_vars(Saved)

Spec == Init /\ [][Next]_vars
FairSpec == Spec /\ Fairness

(***************************************************************************)
(* Properties                                                              *)
(***************************************************************************)

\* The type invariant: every variable holds a value of its type.
TypeOK ==
    /\ file \in [Day -> Seq(0 .. MaxLines)]
    /\ exists \subseteq Day
    /\ written \in 0 .. MaxLines
    /\ cut \subseteq Day
    /\ state \in [current : Day \union {NoFile}, offset : Nat]
    /\ job \in [busy : BOOLEAN, from : [current : Day \union {NoFile}, offset : Nat],
                events : Seq(1 .. MaxLines), at : [current : Day \union {NoFile}, offset : Nat]]
    /\ given \in Seq(1 .. MaxLines)
    /\ resets \subseteq 0 .. Len(given)
    /\ excused \subseteq 0 .. MaxLines

\* Events are handed over in the order they were written and none of them twice,
\* over day changes, emptied files, failed saves and restarts, as long as no Collect
\* comes between them that could not read the checkpoint (audit_log_tail.go:7, :78
\* and :146).
GivenOnceInOrder ==
    \A i, j \in 1 .. Len(given) :
        i < j /\ (\A r \in resets : r < i \/ j <= r) => given[i] < given[j]

\* Not handed over yet and in no way excused.
Due(d, k) ==
    /\ d \in exists \ cut
    /\ file[d][k] # Noise
    /\ file[d][k] \notin excused
    /\ \A i \in 1 .. Len(given) : given[i] # file[d][k]

Ahead(d, k) == AheadOf(state, d, k)

\* The checkpoint passes no event of an existing file that was not handed over,
\* except in files between two days, in all but the latest file when it could not be
\* read, and in a crash behind its rename (audit_log_tail.go:78 and :94-152).
NothingPassedOver ==
    \A d \in Day : \A k \in 1 .. Len(file[d]) : Due(d, k) => Ahead(d, k)

\* However large the backlog, it is handed over in the end (audit_log_tail.go:40-42).
BacklogDrains == <>[](\A d \in Day : \A k \in 1 .. Len(file[d]) : ~Due(d, k))

\* What the comments at audit_log_tail.go:7 and :95-98 say of a restart and of a
\* day change: nothing is missed.  Once there is a checkpoint, it moves past an
\* event only when that event is handed over.
DayChangeLosesNothing ==
    [][state.current # NoFile =>
         \A d \in exists : \A k \in 1 .. Len(file[d]) :
             /\ file[d][k] # Noise
             /\ Ahead(d, k)
             /\ state'.current > d \/ (state'.current = d /\ state'.offset >= k)
             => \E i \in 1 .. Len(given') : given'[i] = file[d][k]]_vars

(***************************************************************************)
(* The inductive invariant                                                 *)
(***************************************************************************)

\* Lines are written in the order of their numbers, into the latest file.
FilesInOrder ==
    /\ \A d \in Day : \A k \in 1 .. Len(file[d]) : file[d][k] <= written
    /\ \A d, e \in Day : \A k \in 1 .. Len(file[d]), l \in 1 .. Len(file[e]) :
          file[d][k] # Noise /\ file[e][l] # Noise /\ (d < e \/ (d = e /\ k < l)) => file[d][k] < file[e][l]
    /\ \A d \in Day : (\A e \in exists : e < d) => file[d] = <<>>

\* A place is in a file that is there or was, and within it unless it was emptied.
InPlace(p) ==
    /\ p.current # NoFile => \E d \in exists : p.current <= d
    /\ p.current \in Day \ cut => p.offset <= Len(file[p.current])

\* Everything a reader at p still comes to, a file that was emptied under it
\* included, was written after n.
Behind(p, n) ==
    \A d \in Day : \A k \in 1 .. Len(file[d]) :
        file[d][k] # Noise /\ (AheadOf(p, d, k) \/ (d = p.current /\ Len(file[d]) < p.offset)) => n < file[d][k]

\* The events a Collect that found the checkpoint `from' continues: those handed over
\* since the last reset, and none when it could not read the checkpoint.
Continued(from) == {i \in 1 .. Len(given) : from = state /\ \A r \in resets : r < i}

GivenInv ==
    /\ InPlace(state)
    /\ \A i \in 1 .. Len(given) : given[i] <= written
    /\ \A i \in Continued(state) : Behind(state, given[i])

\* Events read from the checkpoint `from' up to p continue what was handed over, and all
\* that was due on the way to p is among them, but for the files Collect did not open.
Continues(from, events, p) ==
    /\ p.current # NoFile
    /\ InPlace(p)
    /\ \A i \in Continued(from) : Behind(p, given[i])
    /\ \A i \in 1 .. Len(events) : events[i] <= written /\ Behind(p, events[i])
    /\ \A i, j \in 1 .. Len(events) : i < j => events[i] < events[j]
    /\ \A i \in Continued(from), j \in 1 .. Len(events) : given[i] < events[j]
    /\ \A d \in Day : \A k \in 1 .. Len(file[d]) :
          Due(d, k) => \/ AheadOf(p, d, k)
                       \/ \E i \in 1 .. Len(events) : events[i] = file[d][k]
                       \/ Ahead(d, k) /\ d < p.current /\ d # from.current

JobInv == job.busy => Continues(job.from, job.events, job.at)

\* The properties above and what they rest on.
IInv == TypeOK /\ FilesInOrder /\ GivenInv /\ JobInv /\ GivenOnceInOrder /\ NothingPassedOver

=============================================================================
