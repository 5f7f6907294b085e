------------------------------ MODULE Dashboard ------------------------------
(***************************************************************************)
(* The monitor's page (core/receiver/web.go): what it shows of the Store at *)
(* a moment, judged anew and not taken from the Checker.                    *)
(***************************************************************************)
EXTENDS Monitor, FiniteSets

ASSUME DashboardAssumption == IsFiniteSet(Agents)

MutRowDown(a, now) == states[a].lastSeen # Zero /\ now - states[a].lastSeen >= For(a)

\* down in buildPage: not one of an agent that never reported.
RowDown(a, now) == states[a].lastSeen # Zero /\ Silent(states[a], a, now)

Row(a, now) ==
    LET unknown == states[a].lastSeen = Zero
    IN  [agent |-> a, down |-> RowDown(a, now), unknown |-> unknown,
         silence |-> IF unknown THEN 0 ELSE now - states[a].lastSeen]

\* Down first, then the never heard of, then the longer silence, then the id.
Above(r, q) ==
    IF r.down # q.down THEN r.down
    ELSE IF r.unknown # q.unknown THEN r.unknown
    ELSE IF r.silence # q.silence THEN r.silence > q.silence
    ELSE r.agent < q.agent

Sorted(rows) ==
    CHOOSE page \in [1 .. Cardinality(rows) -> rows] : \A i, j \in DOMAIN page : i < j => Above(page[i], page[j])

buildPage(now) ==
    LET rows == {Row(a, now) : a \in {a \in Agents : states[a].known}}
    IN  [rows |-> Sorted(rows), downCount |-> Cardinality({r \in rows : r.down})]

\* At the end of a check the page, opened at the check's time, begins with the
\* agents the Checker holds down and counts them, but for those that reported in the
\* meantime: what the operator was told of and what the page shows agree
\* (web.go:140-211, liveness.go:72-150).
PageAgrees ==
    checker.pc = "scan" /\ checker.todo = {} /\ (\A a \in Agents : states[a].lastSeen = checker.snap[a].lastSeen) =>
        LET page == buildPage(checker.now)
            top == {page.rows[k].agent : k \in 1 .. page.downCount}
        IN  top = {a \in Agents : states[a].down}

(***************************************************************************)
(* The inductive invariant                                                 *)
(***************************************************************************)

\* An entry the Store did not make yet is empty; down is only one that has reported.
EntriesHeard ==
    \A a \in Agents :
        /\ \A st \in {states[a], disk[a], checker.snap[a]} :
              /\ ~st.known => st.lastSeen = Zero
              /\ st.down => st.lastSeen # Zero
        /\ checker.snap[a].lastSeen # Zero => states[a].lastSeen # Zero

\* What Check has written back, or is about to, is what a page opened at the check's
\* time shows of its snapshot.
JudgedAsShown ==
    LET shown(a) == checker.snap[a].lastSeen # Zero /\ Silent(checker.snap[a], a, checker.now)
    IN  /\ checker.pc # "wait" => \A a \in Agents \ checker.todo : states[a].down = shown(a)
        /\ checker.pc \in {"notify", "write"} => checker.verdict.down = shown(checker.verdict.agent)

PageInv == EntriesHeard /\ JudgedAsShown

=============================================================================
