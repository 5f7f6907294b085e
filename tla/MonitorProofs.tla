--------------------------- MODULE MonitorProofs ---------------------------
(***************************************************************************)
(* Proofs about Monitor, for every set of agents, thresholds, handlers,     *)
(* configurations, failures and bounds.                                     *)
(***************************************************************************)
EXTENDS Dashboard, MonitorConfig, FiniteSetTheorems, TLAPS

(***************************************************************************)
(* Types                                                                   *)
(***************************************************************************)

\* The zero entry of a map, and an idle checker, have their types.
LEMMA InitialValues ==
    /\ NoStates \in [Agents -> AgentState]
    /\ CheckerIdle \in CheckerState
    /\ NoVerdict \in Verdict
    /\ Zero \in Instant
  BY StoreAssumption DEF NoStates, Absent, AgentState, CheckerIdle, CheckerState,
     NoVerdict, Verdict, Kind, NotifyState, Instant, Zero

\* A verdict has the type of a verdict.
LEMMA JudgeType ==
    ASSUME NEW st \in AgentState, NEW a \in Agents, NEW now \in Instant
    PROVE  Judge(st, a, now) \in Verdict
<1>1. Silent(st, a, now) \in BOOLEAN
  BY DEF Silent
<1>2. EventKind(Silent(st, a, now), st.notified) \in Kind
  BY DEF EventKind, Kind
<1>3. st.downSince \in Instant /\ st.notified \in NotifyState /\ Zero \in Instant
  BY StoreAssumption DEF AgentState, Instant, Zero
<1>4. (IF ~Silent(st, a, now) THEN Zero
       ELSE IF st.downSince = Zero THEN now ELSE st.downSince) \in Instant
  BY <1>3
<1>5. QED
  BY <1>1, <1>2, <1>3, <1>4, Zenon DEF Judge, Verdict

\* Every Store operation keeps the types of the Store's variables.
LEMMA StoreTypes ==
    ASSUME StoreTypeOK
    PROVE  /\ \A a \in Agents, now \in Instant, saved \in BOOLEAN,
                 stuck \in SUBSET files :
                AppendStored(a, now, saved, stuck) => StoreTypeOK'
           /\ \A a \in Agents, now \in Instant :
                AppendWriteFails(a, now) => StoreTypeOK'
           /\ \A v \in Verdict, saved \in BOOLEAN :
                SetLiveness(v.agent, v.down, v.downSince, v.notified, saved)
                  => StoreTypeOK'
           /\ \A a \in Agents, saved \in BOOLEAN :
                EnsureAgent(a, saved) => StoreTypeOK'
           /\ loadState => StoreTypeOK'
           /\ UNCHANGED storeVars => StoreTypeOK'
<1>1. \A a \in Agents, now \in Instant : reportPath(a, now) \in Agents \X Nat
  BY StoreAssumption DEF reportPath, Day, Instant, Zero
<1>2. ASSUME NEW a \in Agents, NEW now \in Instant, NEW saved \in BOOLEAN,
             NEW stuck \in SUBSET files, AppendStored(a, now, saved, stuck)
      PROVE  StoreTypeOK'
  <2>1. states' \in [Agents -> AgentState]
    BY <1>2, ZenonT(60) DEF AppendStored, StoreTypeOK, AgentState
  <2>2. disk' \in [Agents -> AgentState]
    BY <1>2, <2>1 DEF AppendStored, StoreTypeOK, saveStateLocked
  <2>3. files' \subseteq Agents \X Nat
    BY <1>1, <1>2 DEF AppendStored, StoreTypeOK, cleanupLocked
  <2>4. QED  BY <2>1, <2>2, <2>3 DEF StoreTypeOK
<1>3. ASSUME NEW a \in Agents, NEW now \in Instant, AppendWriteFails(a, now)
      PROVE  StoreTypeOK'
  BY <1>1, <1>3 DEF AppendWriteFails, StoreTypeOK
<1>4. ASSUME NEW v \in Verdict, NEW saved \in BOOLEAN,
             SetLiveness(v.agent, v.down, v.downSince, v.notified, saved)
      PROVE  StoreTypeOK'
  <2>1. states' \in [Agents -> AgentState]
    BY <1>4, SMTT(30) DEF SetLiveness, StoreTypeOK, AgentState, Verdict
  <2>2. QED  BY <1>4, <2>1 DEF SetLiveness, StoreTypeOK, saveStateLocked
<1>5. ASSUME NEW a \in Agents, NEW saved \in BOOLEAN, EnsureAgent(a, saved)
      PROVE  StoreTypeOK'
  <2>1. states' \in [Agents -> AgentState]
    BY <1>5, ZenonT(60) DEF EnsureAgent, StoreTypeOK, AgentState
  <2>2. QED  BY <1>5, <2>1 DEF EnsureAgent, StoreTypeOK, saveStateLocked
<1>6. loadState => StoreTypeOK'
  BY DEF loadState, StoreTypeOK
<1>7. UNCHANGED storeVars => StoreTypeOK'
  BY DEF storeVars, StoreTypeOK
<1>8. QED
  BY <1>2, <1>3, <1>4, <1>5, <1>6, <1>7

\* The end of the process resets what it held in memory to values of its type.
LEMMA ProcessEndsTypes ==
    ASSUME TypeOK, ProcessEnds, crashes' \in Nat
    PROVE  TypeOK'
<1>1. StoreTypeOK'
  BY InitialValues DEF TypeOK, ProcessEnds, StoreTypeOK
<1>2. QED
  BY <1>1, InitialValues DEF TypeOK, ProcessEnds

\* Every step keeps the types.
LEMMA TypeStep ==
    ASSUME TypeOK, [Next]_vars
    PROVE  TypeOK'
<1> USE InitialValues DEF TypeOK
<1>1. CASE Start
  <2>1. StoreTypeOK'
    BY <1>1, StoreTypes DEF Start
  <2>2. QED
    BY <1>1, <2>1, MonitorAssumption DEF Start, observerVars
<1>2. ASSUME NEW a \in Agents, Ensure(a)
      PROVE  TypeOK'
  <2>1. StoreTypeOK'
    BY <1>2, StoreTypes DEF Ensure
  <2>2. QED
    BY <1>2, <2>1 DEF Ensure, observerVars
<1>2a. ASSUME NEW a \in Agents, EnsureFails(a)
       PROVE  TypeOK'
  BY <1>2a, ProcessEndsTypes DEF EnsureFails
<1>3. CASE Serve
  <2>1. StoreTypeOK'
    BY <1>3, StoreTypes DEF Serve
  <2>2. QED
    BY <1>3, <2>1 DEF Serve, observerVars
<1>4. CASE Shutdown
  <2>1. StoreTypeOK'
    BY <1>4, StoreTypes DEF Shutdown
  <2>2. QED
    BY <1>4, <2>1 DEF Shutdown, observerVars
<1>5. CASE Crash
  BY <1>5, ProcessEndsTypes DEF Crash
<1>6. ASSUME NEW h \in Handlers, NEW a \in Agents, Accept(h, a)
      PROVE  TypeOK'
  <2>1. StoreTypeOK'
    BY <1>6, StoreTypes DEF Accept
  <2>2. slot' \in [Handlers -> Request \union {NoRequest}]
    BY <1>6 DEF Accept, Request
  <2>3. QED
    BY <1>6, <2>1, <2>2 DEF Accept, observerVars
<1>7. ASSUME NEW h \in Handlers, AppendReport(h)
      PROVE  TypeOK'
  <2>1. slot[h].agent \in Agents /\ slot[h].now \in Instant
    BY <1>7 DEF AppendReport, Request
  <2>2. StoreTypeOK'
    <3>1. CASE UNCHANGED storeVars
      BY <3>1, StoreTypes
    <3>2. CASE AppendWriteFails(slot[h].agent, slot[h].now)
      BY <2>1, <3>2, StoreTypes
    <3>3. ASSUME NEW saved \in BOOLEAN, NEW stuck \in SUBSET files,
                 AppendStored(slot[h].agent, slot[h].now, saved, stuck)
          PROVE  StoreTypeOK'
      BY <2>1, <3>3, StoreTypes
    <3>4. QED
      BY <1>7, <3>1, <3>2, <3>3 DEF AppendReport, AppendOpenFails
  <2>3. QED
    BY <1>7, <2>2 DEF AppendReport, observerVars
<1>8. CASE TickerFire
  <2>1. StoreTypeOK'
    BY <1>8, StoreTypes DEF TickerFire
  <2>2. QED
    BY <1>8, <2>1 DEF TickerFire, observerVars
<1>9. CASE CheckBegin
  <2>1. StoreTypeOK'
    BY <1>9, StoreTypes DEF CheckBegin
  <2>2. checker' \in CheckerState
    BY <1>9 DEF CheckBegin, CheckerState, CheckerIdle, StoreTypeOK
  <2>3. QED
    BY <1>9, <2>1, <2>2 DEF CheckBegin, observerVars
<1>10. ASSUME NEW a \in Agents, ScanSkip(a)
       PROVE  TypeOK'
  <2>1. StoreTypeOK'
    BY <1>10, StoreTypes DEF ScanSkip
  <2>2. checker' \in CheckerState
    BY <1>10 DEF ScanSkip, CheckerState
  <2>3. QED
    BY <1>10, <2>1, <2>2 DEF ScanSkip, observerVars
<1>11. ASSUME NEW a \in Agents, ScanJudge(a)
       PROVE  TypeOK'
  <2>1. StoreTypeOK'
    BY <1>11, StoreTypes DEF ScanJudge
  <2>2. Judge(checker.snap[a], a, checker.now) \in Verdict
    BY JudgeType DEF CheckerState
  <2>3. checker' \in CheckerState
    BY <1>11, <2>2 DEF ScanJudge, CheckerState
  <2>4. QED
    BY <1>11, <2>1, <2>3 DEF ScanJudge, observerVars
<1>12. CASE NotifyAcked
  <2>1. StoreTypeOK'
    BY <1>12, StoreTypes DEF NotifyAcked
  <2>2. NotifiedAs(checker.verdict.kind) \in NotifyState
    BY DEF NotifiedAs, NotifyState
  <2>3. checker' \in CheckerState
    BY <1>12, <2>2 DEF NotifyAcked, CheckerState, Verdict
  <2>4. QED
    BY <1>12, <2>1, <2>2, <2>3 DEF NotifyAcked
<1>13. CASE NotifyFails
  <2>1. StoreTypeOK'
    BY <1>13, StoreTypes DEF NotifyFails
  <2>2. NotifiedAs(checker.verdict.kind) \in NotifyState
    BY DEF NotifiedAs, NotifyState
  <2>3. checker' \in CheckerState
    BY <1>13 DEF NotifyFails, CheckerState
  <2>4. seen' \in [Agents -> NotifyState]
    BY <1>13, <2>2 DEF NotifyFails
  <2>5. QED
    BY <1>13, <2>1, <2>3, <2>4 DEF NotifyFails
<1>14. ASSUME NEW saved \in BOOLEAN, WriteBack(saved)
       PROVE  TypeOK'
  <2>1. checker.verdict \in Verdict
    BY DEF CheckerState
  <2>2. StoreTypeOK'
    BY <1>14, <2>1, StoreTypes DEF WriteBack
  <2>3. checker' \in CheckerState
    BY <1>14 DEF WriteBack, CheckerState
  <2>4. QED
    BY <1>14, <2>2, <2>3 DEF WriteBack, observerVars
<1>15. CASE CheckEnd
  <2>1. StoreTypeOK'
    BY <1>15, StoreTypes DEF CheckEnd
  <2>2. QED
    BY <1>15, <2>1 DEF CheckEnd, observerVars
<1>16. CASE AdvanceClock
  <2>1. StoreTypeOK'
    BY <1>16, StoreTypes DEF AdvanceClock
  <2>2. clock' \in Instant \ {Zero}
    BY <1>16, StoreAssumption DEF AdvanceClock, Instant, Zero
  <2>3. QED
    BY <1>16, <2>1, <2>2 DEF AdvanceClock, processVars, observerVars
<1>17. CASE UNCHANGED vars
  <2>1. StoreTypeOK'
    BY <1>17, StoreTypes DEF vars
  <2>2. QED
    BY <1>17, <2>1 DEF vars, processVars, observerVars
<1>18. QED
  BY <1>1, <1>2, <1>2a, <1>3, <1>4, <1>5, <1>6, <1>7, <1>8, <1>9, <1>10, <1>11,
     <1>12, <1>13, <1>14, <1>15, <1>16, <1>17 DEF Next

\* TypeOK is invariant: the variables keep their types in every behaviour.
THEOREM TypeCorrect == Spec => []TypeOK
<1>1. Init => TypeOK
  BY InitialValues, StoreAssumption
     DEF Init, StoreInit, TypeOK, StoreTypeOK, Instant, Zero, NotifyState
<1>2. TypeOK /\ [Next]_vars => TypeOK'
  BY TypeStep
<1>3. QED
  BY <1>1, <1>2, PTL DEF Spec

(***************************************************************************)
(* Retention                                                               *)
(***************************************************************************)

\* A file that has outlived retention has done so for good.
LEMMA OutlivedMonotone ==
    ASSUME NEW t \in Instant, NEW c \in Instant, NEW d \in Instant, c <= d,
           Outlived(t, c)
    PROVE  Outlived(t, d)
<1>1. Day(t) * DayLength \in Int /\ RetentionDays * DayLength \in Int
  BY StoreAssumption DEF Day, Instant, Zero
<1>2. QED
  BY <1>1 DEF Outlived, Instant

\* The cleanup removes no file before it has outlived retention.
LEMMA CleanupKeeps ==
    ASSUME NEW a \in Agents, NEW t \in Instant, NEW now \in Instant,
           NEW fs, NEW stuck, reportPath(a, t) \in fs
    PROVE  reportPath(a, t) \in cleanupLocked(fs, now, stuck) \/ Outlived(t, now)
<1>1. Day(t) * DayLength \in Int /\ RetentionDays * DayLength \in Int
  BY StoreAssumption DEF Day, Instant, Zero
<1>2. ASSUME Expired(reportPath(a, t), now)
      PROVE  Outlived(t, now)
  BY <1>1, <1>2 DEF Expired, reportPath, Outlived, Instant
<1>3. QED
  BY <1>2 DEF cleanupLocked

(***************************************************************************)
(* The inductive invariant                                                 *)
(***************************************************************************)

\* A step that touches neither the Store nor the Checker nor the alerts.
LEMMA Frame ==
    ASSUME IInv, TypeOK', StampsPast', clock <= clock',
           UNCHANGED <<states, disk, files, checker, acked, forgot>>,
           phase = "stopped" <=> phase' = "stopped",
           Alive => Alive'
    PROVE  IInv'
<1>1. CheckerShape' /\ SnapshotOwned' /\ VerdictOK' /\ EntriesOK' /\ AlertsRecorded'
  BY DEF IInv, CheckerShape, SnapshotOwned, VerdictOK, EntriesOK, AlertsRecorded
<1>2. LastReportKept'
  <2>1. SUFFICES ASSUME RetentionDays > 0, NEW a \in Agents,
                        NEW st \in {states[a], disk[a]}, st.lastSeen # Zero,
                        reportPath(a, st.lastSeen) \notin files
                 PROVE  Outlived(st.lastSeen, clock')
    BY DEF LastReportKept
  <2>2. st.lastSeen \in Instant
    BY DEF IInv, TypeOK, StoreTypeOK, AgentState
  <2>3. Outlived(st.lastSeen, clock)
    BY <2>1 DEF IInv, LastReportKept
  <2>4. QED
    BY <2>2, <2>3, OutlivedMonotone DEF IInv, TypeOK
<1>3. QED
  BY <1>1, <1>2 DEF IInv

\* The end of the process: state.json is what it was.
LEMMA ProcessEndsKeeps ==
    ASSUME IInv, ProcessEnds, TypeOK'
    PROVE  IInv'
<1> USE DEF ProcessEnds
<1>1. CheckerShape' /\ SnapshotOwned' /\ VerdictOK'
  BY DEF CheckerShape, SnapshotOwned, VerdictOK, CheckerIdle
<1>2. EntriesOK'
  BY DEF IInv, EntriesOK, NoStates, Absent, Zero
<1>3. AlertsRecorded'
  BY DEF AlertsRecorded
<1>4. StampsPast'
  BY StoreAssumption DEF IInv, TypeOK, StampsPast, NoRequest, Instant, Zero
<1>5. LastReportKept'
  BY DEF IInv, LastReportKept, NoStates, Absent
<1>6. QED
  BY <1>1, <1>2, <1>3, <1>4, <1>5 DEF IInv

\* Starting: memory takes over what state.json holds.
LEMMA StartKeeps ==
    ASSUME IInv, Start, TypeOK'
    PROVE  IInv'
<1> USE DEF Start, loadState, observerVars
<1>1. checker = CheckerIdle /\ ~Alive'
  BY DEF IInv, CheckerShape, Alive
<1>2. CheckerShape' /\ SnapshotOwned' /\ VerdictOK'
  BY <1>1 DEF CheckerShape, SnapshotOwned, VerdictOK, CheckerIdle
<1>3. EntriesOK'
  BY DEF IInv, EntriesOK
<1>4. AlertsRecorded'
  BY <1>1 DEF IInv, AlertsRecorded, CheckerIdle
<1>5. StampsPast'
  BY DEF IInv, StampsPast
<1>6. LastReportKept'
  BY DEF IInv, LastReportKept
<1>7. QED
  BY <1>2, <1>3, <1>4, <1>5, <1>6 DEF IInv

\* Adding an entry for a configured agent touches no liveness field.
LEMMA EnsureKeeps ==
    ASSUME IInv, NEW a \in Agents, Ensure(a), TypeOK'
    PROVE  IInv'
<1> USE DEF Ensure, EnsureAgent, saveStateLocked, observerVars
<1>1. checker = CheckerIdle /\ ~Alive'
  BY DEF IInv, CheckerShape, Alive
<1>2. CheckerShape' /\ SnapshotOwned' /\ VerdictOK'
  BY <1>1 DEF CheckerShape, SnapshotOwned, VerdictOK, CheckerIdle
<1>3. \A b \in Agents : /\ states'[b].down = states[b].down
                        /\ states'[b].downSince = states[b].downSince
                        /\ states'[b].notified = states[b].notified
                        /\ states'[b].lastSeen = states[b].lastSeen
  BY DEF IInv, TypeOK, StoreTypeOK, AgentState
<1>4. disk' = states' \/ disk' = disk
  OBVIOUS
<1>5. EntriesOK'
  BY <1>3, <1>4 DEF IInv, EntriesOK
<1>6. AlertsRecorded'
  BY <1>1, <1>3 DEF IInv, AlertsRecorded, CheckerIdle
<1>7. StampsPast'
  BY DEF IInv, StampsPast
<1>8. LastReportKept'
  BY <1>3, <1>4 DEF IInv, LastReportKept
<1>9. QED
  BY <1>2, <1>5, <1>6, <1>7, <1>8 DEF IInv

\* A report changes last_seen of its agent and nothing the Checker owns.
LEMMA AppendKeeps ==
    ASSUME IInv, NEW h \in Handlers, AppendReport(h), TypeOK'
    PROVE  IInv'
<1> DEFINE r == slot[h].agent
           now == slot[h].now
<1>1. /\ r \in Agents
      /\ now \in Instant
      /\ now <= clock
      /\ clock \in Instant
      /\ UNCHANGED <<phase, checker, acked, forgot, clock>>
      /\ slot' = [slot EXCEPT ![h] = NoRequest]
  BY DEF AppendReport, IInv, TypeOK, Request, StampsPast, observerVars
<1>2. StampsPast'
  BY <1>1, StoreAssumption DEF IInv, TypeOK, StampsPast, NoRequest, Instant, Zero
<1>3. CASE UNCHANGED <<states, disk>> /\ files \subseteq files'
  <2>1. CheckerShape' /\ SnapshotOwned' /\ VerdictOK' /\ EntriesOK' /\ AlertsRecorded'
    BY <1>1, <1>3
       DEF IInv, CheckerShape, SnapshotOwned, VerdictOK, EntriesOK, AlertsRecorded, Alive
  <2>2. LastReportKept'
    BY <1>1, <1>3 DEF IInv, LastReportKept
  <2>3. QED
    BY <1>2, <2>1, <2>2 DEF IInv
<1>4. ASSUME NEW saved \in BOOLEAN, NEW stuck,
             AppendStored(r, now, saved, stuck)
      PROVE  IInv'
  <2>1. /\ states' = [states EXCEPT ![r].known = TRUE, ![r].lastSeen = now]
        /\ disk' = states' \/ disk' = disk
    BY <1>4 DEF AppendStored, saveStateLocked
  <2>2. \A b \in Agents :
           /\ states'[b].down = states[b].down
           /\ states'[b].downSince = states[b].downSince
           /\ states'[b].notified = states[b].notified
           /\ states[b].known => states'[b].known
           /\ states'[b].lastSeen = IF b = r THEN now ELSE states[b].lastSeen
    BY <2>1 DEF IInv, TypeOK, StoreTypeOK, AgentState
  <2>3. CheckerShape' /\ VerdictOK'
    BY <1>1 DEF IInv, CheckerShape, VerdictOK, Alive
  <2>4. SnapshotOwned'
    BY <1>1, <2>2 DEF IInv, SnapshotOwned, TypeOK, CheckerState
  <2>5. ASSUME NEW b \in Agents, NEW st \in {states'[b], disk'[b]}
        PROVE  \E old \in {states[b], disk[b]} :
                  /\ st.down = old.down
                  /\ st.downSince = old.downSince
                  /\ st.notified = old.notified
                  /\ st.lastSeen = old.lastSeen \/ (b = r /\ st.lastSeen = now)
    <3>1. CASE st = states'[b]
      <4>1. WITNESS states[b] \in {states[b], disk[b]}
      <4>2. QED  BY <2>2, <3>1
    <3>2. CASE st = disk'[b] /\ disk' = disk
      <4>1. WITNESS disk[b] \in {states[b], disk[b]}
      <4>2. QED  BY <3>2
    <3>3. QED
      BY <2>1, <3>1, <3>2
  <2>10. EntriesOK'
    <3>1. SUFFICES ASSUME NEW b \in Agents, NEW st \in {states'[b], disk'[b]}
                   PROVE  /\ st.down <=> st.downSince # Zero
                          /\ st.notified # "none" => acked[b] # "none"
      BY <1>1 DEF EntriesOK
    <3>2. QED
      BY <2>5 DEF IInv, EntriesOK
  <2>6. AlertsRecorded'
    <3>1. phase # "stopped"
      BY DEF AppendReport, Alive
    <3>2. QED
      BY <1>1, <2>2, <3>1 DEF IInv, AlertsRecorded
  <2>7. ASSUME RetentionDays > 0, NEW b \in Agents, NEW t \in Instant,
               reportPath(b, t) \in files \/ (b = r /\ t = now)
        PROVE  Outlived(t, clock) \/ reportPath(b, t) \in files'
    <3>1. reportPath(b, t) \in files \union {reportPath(r, now)}
      BY <2>7
    <3>2. reportPath(b, t) \in files' \/ Outlived(t, now)
      BY <1>1, <1>4, <3>1, CleanupKeeps DEF AppendStored
    <3>3. QED
      BY <1>1, <3>2, OutlivedMonotone
  <2>8. LastReportKept'
    <3>1. SUFFICES ASSUME RetentionDays > 0, NEW b \in Agents,
                          NEW st \in {states'[b], disk'[b]}, st.lastSeen # Zero
                   PROVE  Outlived(st.lastSeen, clock) \/ reportPath(b, st.lastSeen) \in files'
      BY <1>1 DEF LastReportKept
    <3>2. st.lastSeen \in Instant
      BY DEF TypeOK, StoreTypeOK, AgentState
    <3>3. CASE b = r /\ st.lastSeen = now
      BY <2>7, <3>1, <3>2, <3>3
    <3>4. CASE \E old \in {states[b], disk[b]} : st.lastSeen = old.lastSeen
      <4>1. Outlived(st.lastSeen, clock) \/ reportPath(b, st.lastSeen) \in files
        BY <3>1, <3>4 DEF IInv, LastReportKept
      <4>2. QED
        BY <2>7, <3>1, <3>2, <4>1
    <3>5. QED
      BY <2>5, <3>3, <3>4
  <2>9. QED
    BY <1>2, <2>3, <2>4, <2>6, <2>8, <2>10 DEF IInv
<1>5. CASE AppendOpenFails
  BY <1>3, <1>5 DEF AppendOpenFails, storeVars
<1>6. CASE AppendWriteFails(r, now)
  BY <1>3, <1>6 DEF AppendWriteFails
<1>7. QED
  BY <1>4, <1>5, <1>6 DEF AppendReport

\* A new check starts from a copy of the Store.
LEMMA CheckBeginKeeps ==
    ASSUME IInv, CheckBegin, TypeOK'
    PROVE  IInv'
<1> USE DEF CheckBegin, storeVars, observerVars
<1>1. /\ checker'.pc = "scan"
      /\ checker'.now # Zero
      /\ checker'.snap = states
      /\ checker'.todo = {a \in Agents : states[a].known}
  BY DEF CheckerIdle
<1>2. CheckerShape' /\ VerdictOK' /\ SnapshotOwned'
  BY <1>1 DEF CheckerShape, VerdictOK, SnapshotOwned, Alive
<1>3. EntriesOK' /\ StampsPast' /\ LastReportKept'
  BY DEF IInv, EntriesOK, StampsPast, LastReportKept
<1>4. AlertsRecorded'
  BY DEF IInv, AlertsRecorded
<1>5. QED
  BY <1>2, <1>3, <1>4 DEF IInv

\* Skipping an agent only shortens the list of those left.
LEMMA ScanSkipKeeps ==
    ASSUME IInv, NEW a \in Agents, ScanSkip(a), TypeOK'
    PROVE  IInv'
<1> USE DEF ScanSkip, storeVars, observerVars
<1>1. /\ checker'.pc = "scan" /\ checker.pc = "scan"
      /\ checker'.now = checker.now
      /\ checker'.snap = checker.snap
      /\ checker'.todo \subseteq checker.todo
  BY DEF IInv, TypeOK, CheckerState
<1>2. CheckerShape' /\ VerdictOK' /\ SnapshotOwned'
  BY <1>1 DEF IInv, CheckerShape, VerdictOK, SnapshotOwned, Alive
<1>3. EntriesOK' /\ StampsPast' /\ LastReportKept'
  BY DEF IInv, EntriesOK, StampsPast, LastReportKept
<1>4. AlertsRecorded'
  BY <1>1 DEF IInv, AlertsRecorded
<1>5. QED
  BY <1>2, <1>3, <1>4 DEF IInv

\* A verdict is formed from liveness fields that are still those of the Store.
LEMMA ScanJudgeKeeps ==
    ASSUME IInv, NEW a \in Agents, ScanJudge(a), TypeOK'
    PROVE  IInv'
<1> USE DEF ScanJudge, storeVars, observerVars
<1> DEFINE st == checker.snap[a]
           v == Judge(st, a, checker.now)
<1>1. /\ checker.pc = "scan"
      /\ checker'.pc \in {"notify", "write"}
      /\ checker'.pc = "notify" => v.kind # "none"
      /\ checker'.now = checker.now
      /\ checker'.snap = checker.snap
      /\ checker'.todo = checker.todo
      /\ checker'.verdict = v
      /\ a \in checker.todo
  BY DEF IInv, TypeOK, CheckerState, FirstOf
<1>2. CheckerShape' /\ SnapshotOwned'
  BY <1>1 DEF IInv, CheckerShape, SnapshotOwned, Alive
<1>3. /\ st.notified = states[a].notified
      /\ st.downSince = states[a].downSince
      /\ checker.now # Zero
      /\ Silent(st, a, checker.now) \in BOOLEAN
  BY <1>1 DEF IInv, SnapshotOwned, CheckerShape, Silent
<1>4. /\ v.agent = a
      /\ v.notified = st.notified
      /\ v.down = Silent(st, a, checker.now)
      /\ v.kind = EventKind(v.down, v.notified)
      /\ v.down <=> v.downSince # Zero
      /\ v.down /\ st.downSince # Zero => v.downSince = st.downSince
  BY <1>3 DEF Judge
<1>5. phase # "stopped" /\ UNCHANGED <<states, disk, acked, forgot, phase>>
  BY DEF Alive
<1>6. forgot[a] \/ st.notified = acked[a]
  BY <1>1, <1>3, <1>5 DEF IInv, AlertsRecorded
<1>7. st.notified # "none" => acked[a] # "none"
  BY <1>3 DEF IInv, EntriesOK
<1>8. VerdictOK'
  <2> HIDE DEF v
  <2>1. QED
    BY <1>1, <1>4, <1>5, <1>6, <1>7 DEF VerdictOK
<1>9. EntriesOK' /\ StampsPast' /\ LastReportKept'
  BY DEF IInv, EntriesOK, StampsPast, LastReportKept
<1>10. AlertsRecorded'
  BY <1>1, <1>5 DEF IInv, AlertsRecorded
<1>11. QED
  BY <1>2, <1>8, <1>9, <1>10 DEF IInv

\* The webhook's confirmation and the verdict waiting to be written agree.
LEMMA NotifyAckedKeeps ==
    ASSUME IInv, NotifyAcked, TypeOK'
    PROVE  IInv'
<1> USE DEF NotifyAcked, storeVars
<1> DEFINE v == checker.verdict
           n == NotifiedAs(v.kind)
<1>1. /\ checker.pc = "notify" /\ checker'.pc = "write"
      /\ checker'.now = checker.now
      /\ checker'.snap = checker.snap
      /\ checker'.todo = checker.todo
      /\ checker'.verdict = [v EXCEPT !.notified = n]
      /\ v \in Verdict
  BY DEF IInv, TypeOK, CheckerState
<1>2. /\ v.agent \in checker.todo /\ v.agent \in Agents
      /\ v.down <=> v.downSince # Zero
      /\ v.down /\ checker.snap[v.agent].downSince # Zero =>
           v.downSince = checker.snap[v.agent].downSince
  BY <1>1 DEF IInv, VerdictOK, TypeOK, CheckerState
<1>3. /\ checker'.verdict.agent = v.agent
      /\ checker'.verdict.down = v.down
      /\ checker'.verdict.downSince = v.downSince
      /\ checker'.verdict.notified = n
  BY <1>1 DEF Verdict
<1>4. n # "none" /\ acked' = [acked EXCEPT ![v.agent] = n]
                 /\ forgot' = [forgot EXCEPT ![v.agent] = FALSE]
  BY DEF NotifiedAs
<1>5. CheckerShape' /\ SnapshotOwned'
  BY <1>1 DEF IInv, CheckerShape, SnapshotOwned, Alive
<1>6. acked'[v.agent] = n
  BY <1>2, <1>4 DEF IInv, TypeOK
<1>7. VerdictOK'
  <2> HIDE DEF n
  <2>1. QED
    BY <1>1, <1>2, <1>3, <1>4, <1>6 DEF VerdictOK
<1>8. \A a \in Agents : acked'[a] = IF a = v.agent THEN n ELSE acked[a]
  BY <1>2, <1>4 DEF IInv, TypeOK
<1>9. EntriesOK'
  BY <1>4, <1>8 DEF IInv, EntriesOK
<1>10. AlertsRecorded'
  BY <1>1, <1>3, <1>8 DEF IInv, AlertsRecorded, TypeOK
<1>11. StampsPast' /\ LastReportKept'
  BY DEF IInv, StampsPast, LastReportKept
<1>12. QED
  BY <1>5, <1>7, <1>9, <1>10, <1>11 DEF IInv

\* A failed notification leaves the verdict as it was judged.
LEMMA NotifyFailsKeeps ==
    ASSUME IInv, NotifyFails, TypeOK'
    PROVE  IInv'
<1> USE DEF NotifyFails, storeVars
<1>1. /\ checker.pc = "notify" /\ checker'.pc = "write"
      /\ checker'.now = checker.now
      /\ checker'.snap = checker.snap
      /\ checker'.todo = checker.todo
      /\ checker'.verdict = checker.verdict
  BY DEF IInv, TypeOK, CheckerState
<1>2. CheckerShape' /\ SnapshotOwned' /\ VerdictOK'
  BY <1>1 DEF IInv, CheckerShape, SnapshotOwned, VerdictOK, Alive
<1>3. EntriesOK' /\ StampsPast' /\ LastReportKept'
  BY DEF IInv, EntriesOK, StampsPast, LastReportKept
<1>4. AlertsRecorded'
  BY <1>1 DEF IInv, AlertsRecorded
<1>5. QED
  BY <1>2, <1>3, <1>4 DEF IInv

\* The verdict becomes the Store's record of its agent.
LEMMA WriteBackKeeps ==
    ASSUME IInv, NEW saved \in BOOLEAN, WriteBack(saved), TypeOK'
    PROVE  IInv'
<1> USE DEF WriteBack, observerVars
<1> DEFINE v == checker.verdict
<1>1. /\ checker.pc = "write" /\ checker'.pc = "scan"
      /\ checker'.now = checker.now
      /\ checker'.snap = checker.snap
      /\ checker'.todo = checker.todo \ {v.agent}
      /\ phase # "stopped"
      /\ UNCHANGED <<phase, slot, acked, forgot, clock, files>>
  BY DEF IInv, TypeOK, CheckerState, SetLiveness, Alive
<1>2. /\ v.agent \in Agents
      /\ states[v.agent].known
      /\ v.down <=> v.downSince # Zero
      /\ v.notified # "none" => acked[v.agent] # "none"
      /\ forgot[v.agent] \/ v.notified = acked[v.agent]
  BY <1>1 DEF IInv, VerdictOK, SnapshotOwned, TypeOK, CheckerState
<1>3. /\ states' = [states EXCEPT ![v.agent].down = v.down,
                                  ![v.agent].downSince = v.downSince,
                                  ![v.agent].notified = v.notified]
      /\ disk' = states' \/ disk' = disk
  BY <1>2 DEF SetLiveness, saveStateLocked
<1>4. \A a \in Agents :
        /\ states'[a].known = states[a].known
        /\ states'[a].lastSeen = states[a].lastSeen
        /\ a = v.agent => /\ states'[a].down = v.down
                          /\ states'[a].downSince = v.downSince
                          /\ states'[a].notified = v.notified
        /\ a # v.agent => states'[a] = states[a]
  <2>1. states \in [Agents -> AgentState]
    BY DEF IInv, TypeOK, StoreTypeOK
  <2> HIDE DEF v
  <2>2. QED
    BY <1>2, <1>3, <2>1 DEF AgentState
<1>5. CheckerShape' /\ VerdictOK'
  BY <1>1 DEF IInv, CheckerShape, VerdictOK, Alive
<1>6. SnapshotOwned'
  BY <1>1, <1>4 DEF IInv, SnapshotOwned, TypeOK, CheckerState
<1>7. EntriesOK'
  <2>1. SUFFICES ASSUME NEW a \in Agents, NEW st \in {states'[a], disk'[a]}
                 PROVE  /\ st.down <=> st.downSince # Zero
                        /\ st.notified # "none" => acked[a] # "none"
    BY <1>1 DEF EntriesOK
  <2>2. CASE st = states'[a] /\ a = v.agent
    BY <1>2, <1>4, <2>2
  <2>3. CASE st \in {states[a], disk[a]}
    BY <2>3 DEF IInv, EntriesOK
  <2>4. QED
    BY <1>3, <1>4, <2>2, <2>3
<1>8. AlertsRecorded'
  BY <1>1, <1>2, <1>4 DEF IInv, AlertsRecorded
<1>9. StampsPast'
  BY <1>1 DEF IInv, StampsPast
<1>10. LastReportKept'
  <2>1. SUFFICES ASSUME RetentionDays > 0, NEW a \in Agents,
                        NEW st \in {states'[a], disk'[a]}
                 PROVE  \/ st.lastSeen = Zero
                        \/ Outlived(st.lastSeen, clock)
                        \/ reportPath(a, st.lastSeen) \in files
    BY <1>1 DEF LastReportKept
  <2>2. st.lastSeen = states[a].lastSeen \/ st.lastSeen = disk[a].lastSeen
    <3>1. CASE st = states'[a]
      BY <1>4, <3>1
    <3>2. CASE st = disk'[a] /\ disk' = disk
      BY <3>2
    <3>3. QED
      BY <1>3, <3>1, <3>2
  <2>3. QED
    BY <2>1, <2>2 DEF IInv, LastReportKept
<1>11. QED
  BY <1>5, <1>6, <1>7, <1>8, <1>9, <1>10 DEF IInv

\* Between two checks the Checker holds nothing.
LEMMA CheckEndKeeps ==
    ASSUME IInv, CheckEnd, TypeOK'
    PROVE  IInv'
<1> USE DEF CheckEnd, storeVars, observerVars
<1>1. CheckerShape' /\ SnapshotOwned' /\ VerdictOK'
  BY DEF IInv, CheckerShape, SnapshotOwned, VerdictOK, CheckerIdle, Alive
<1>2. EntriesOK' /\ StampsPast' /\ LastReportKept'
  BY DEF IInv, EntriesOK, StampsPast, LastReportKept
<1>3. AlertsRecorded'
  BY DEF IInv, AlertsRecorded
<1>4. QED
  BY <1>1, <1>2, <1>3 DEF IInv

LEMMA InvInit == Init => IInv
<1> SUFFICES ASSUME Init PROVE IInv
  OBVIOUS
<1> USE DEF Init, StoreInit
<1>1. TypeOK
  BY InitialValues, StoreAssumption
     DEF TypeOK, StoreTypeOK, Instant, Zero, NotifyState
<1>2. CheckerShape /\ SnapshotOwned /\ VerdictOK
  BY DEF CheckerShape, SnapshotOwned, VerdictOK, CheckerIdle
<1>3. EntriesOK /\ AlertsRecorded /\ LastReportKept
  BY DEF EntriesOK, AlertsRecorded, LastReportKept, NoStates, Absent
<1>4. StampsPast
  BY DEF StampsPast, NoRequest, Zero
<1>5. QED
  BY <1>1, <1>2, <1>3, <1>4 DEF IInv

LEMMA InvStep ==
    ASSUME IInv, [Next]_vars
    PROVE  IInv'
<1>1. TypeOK'
  BY TypeStep DEF IInv
<1>2. clock \in Int /\ \A h \in Handlers : slot[h].now \in Int
  BY StoreAssumption DEF IInv, TypeOK, Request, NoRequest, Instant, Zero
<1>3. CASE Start
  BY <1>1, <1>3, StartKeeps
<1>4. ASSUME NEW a \in Agents, Ensure(a) PROVE IInv'
  BY <1>1, <1>4, EnsureKeeps
<1>5. ASSUME NEW a \in Agents, EnsureFails(a) PROVE IInv'
  BY <1>1, <1>5, ProcessEndsKeeps DEF EnsureFails
<1>6. CASE Serve
  BY <1>1, <1>2, <1>6, Frame
     DEF Serve, storeVars, observerVars, Alive, IInv, StampsPast
<1>7. CASE Shutdown
  BY <1>1, <1>2, <1>7, Frame
     DEF Shutdown, storeVars, observerVars, Alive, IInv, StampsPast
<1>8. CASE Crash
  BY <1>1, <1>8, ProcessEndsKeeps DEF Crash
<1>9. ASSUME NEW h \in Handlers, NEW a \in Agents, Accept(h, a) PROVE IInv'
  <2>1. StampsPast'
    BY <1>2, <1>9 DEF Accept, IInv, TypeOK, StampsPast
  <2>2. QED
    BY <1>1, <1>2, <1>9, <2>1, Frame DEF Accept, storeVars, observerVars, Alive
<1>10. ASSUME NEW h \in Handlers, AppendReport(h) PROVE IInv'
  BY <1>1, <1>10, AppendKeeps
<1>11. CASE TickerFire
  BY <1>1, <1>2, <1>11, Frame
     DEF TickerFire, storeVars, observerVars, Alive, IInv, StampsPast
<1>12. CASE CheckBegin
  BY <1>1, <1>12, CheckBeginKeeps
<1>13. ASSUME NEW a \in Agents, ScanSkip(a) PROVE IInv'
  BY <1>1, <1>13, ScanSkipKeeps
<1>14. ASSUME NEW a \in Agents, ScanJudge(a) PROVE IInv'
  BY <1>1, <1>14, ScanJudgeKeeps
<1>15. CASE NotifyAcked
  BY <1>1, <1>15, NotifyAckedKeeps
<1>16. CASE NotifyFails
  BY <1>1, <1>16, NotifyFailsKeeps
<1>17. ASSUME NEW saved \in BOOLEAN, WriteBack(saved) PROVE IInv'
  BY <1>1, <1>17, WriteBackKeeps
<1>18. CASE CheckEnd
  BY <1>1, <1>18, CheckEndKeeps
<1>19. CASE AdvanceClock
  <2>1. clock <= clock' /\ StampsPast'
    BY <1>2, <1>19
       DEF AdvanceClock, processVars, IInv, StampsPast
  <2>2. QED
    BY <1>1, <1>19, <2>1, Frame
       DEF AdvanceClock, storeVars, processVars, observerVars, Alive
<1>20. CASE UNCHANGED vars
  <2>1. clock <= clock' /\ StampsPast'
    BY <1>2, <1>20 DEF vars, processVars, IInv, StampsPast
  <2>2. QED
    BY <1>1, <1>20, <2>1, Frame
       DEF vars, storeVars, processVars, observerVars, Alive
<1>21. QED
  BY <1>3, <1>4, <1>5, <1>6, <1>7, <1>8, <1>9, <1>10, <1>11, <1>12, <1>13,
     <1>14, <1>15, <1>16, <1>17, <1>18, <1>19, <1>20 DEF Next

\* The inductive invariant holds in every state of every behaviour.
THEOREM Invariance == Spec => []IInv
<1>1. IInv /\ [Next]_vars => IInv'
  BY InvStep
<1>2. QED
  BY InvInit, <1>1, PTL DEF Spec

(***************************************************************************)
(* What the monitor guarantees                                             *)
(***************************************************************************)

\* A write-back of the Checker overwrites no liveness field it has not seen, for
\* any number of handlers appending meanwhile.
THEOREM SnapshotStaysOwned == Spec => []SnapshotOwned
<1>1. IInv => SnapshotOwned
  BY DEF IInv
<1>2. QED
  BY Invariance, <1>1, PTL

\* Notified, in memory or in the stopped process's state.json, is the alert the
\* webhook confirmed last, except where a restart lost the record.
THEOREM ConfirmedAlertsRecorded == Spec => []AlertsRecorded
<1>1. IInv => AlertsRecorded
  BY DEF IInv
<1>2. QED
  BY Invariance, <1>1, PTL

\* What the inductive invariant says of an alert about to be sent.
LEMMA AlertToSend ==
    ASSUME IInv, checker.pc = "notify"
    PROVE  LET v == checker.verdict
           IN  /\ v.agent \in Agents
               /\ v.kind # "none"
               /\ v.kind = EventKind(v.down, v.notified)
               /\ forgot[v.agent] \/ v.notified = acked[v.agent]
               /\ v.notified # "none" => acked[v.agent] # "none"
  BY DEF IInv, VerdictOK, TypeOK, CheckerState

\* No alert is sent that the webhook confirmed as the agent's last one, except
\* after a restart that lost the record of it.
THEOREM NeverRepeats == Spec => []NoRepeatedAlert
<1>1. IInv => NoRepeatedAlert
  BY AlertToSend DEF NoRepeatedAlert, EventKind, NotifiedAs
<1>2. QED
  BY Invariance, <1>1, PTL

\* No recovery is announced for an agent no outage was ever confirmed for.
THEOREM RecoveryNeverFirst == Spec => []RecoveryFollowsAlert
<1>1. IInv => RecoveryFollowsAlert
  BY AlertToSend DEF RecoveryFollowsAlert, EventKind
<1>2. QED
  BY Invariance, <1>1, PTL

\* The report behind last_seen stays in its file until the file has outlived
\* retention, whatever the order concurrent requests reach the Store in.
THEOREM LastReportStays == Spec => []LastReportKept
<1>1. IInv => LastReportKept
  BY DEF IInv
<1>2. QED
  BY Invariance, <1>1, PTL

\* A write-back of an agent that stays down keeps its DownSince.
LEMMA WriteBackKeepsDownSince ==
    ASSUME IInv, NEW saved \in BOOLEAN, WriteBack(saved), NEW a \in Agents,
           states[a].down, states'[a].down
    PROVE  states'[a].downSince = states[a].downSince
<1> DEFINE v == checker.verdict
<1>1. /\ v.agent \in checker.todo
      /\ v.agent \in Agents
      /\ v.down /\ checker.snap[v.agent].downSince # Zero =>
           v.downSince = checker.snap[v.agent].downSince
  BY DEF WriteBack, IInv, VerdictOK, TypeOK, CheckerState
<1>2. /\ checker.snap[v.agent].downSince = states[v.agent].downSince
      /\ states[v.agent].known
  BY <1>1 DEF IInv, SnapshotOwned
<1>3. states' = [states EXCEPT ![v.agent].down = v.down,
                               ![v.agent].downSince = v.downSince,
                               ![v.agent].notified = v.notified]
  BY <1>2 DEF WriteBack, SetLiveness
<1>4. CASE a = v.agent
  <2>1. states'[a].down = v.down /\ states'[a].downSince = v.downSince
    BY <1>3, <1>4, ZenonT(60) DEF IInv, TypeOK, StoreTypeOK, AgentState
  <2>2. states[a].downSince # Zero
    BY DEF IInv, EntriesOK
  <2>3. QED
    BY <1>1, <1>2, <1>4, <2>1, <2>2
<1>5. CASE a # v.agent
  BY <1>3, <1>5 DEF IInv, TypeOK, StoreTypeOK
<1>6. QED
  BY <1>4, <1>5

\* A report, or a new entry, leaves DownSince alone.
LEMMA StoreOpsKeepDownSince ==
    ASSUME IInv, NEW b \in Agents, NEW a \in Agents
    PROVE  /\ \A now \in Instant, saved \in BOOLEAN, stuck \in SUBSET files :
                AppendStored(b, now, saved, stuck) =>
                  states'[a].downSince = states[a].downSince
           /\ \A saved \in BOOLEAN :
                EnsureAgent(b, saved) => states'[a].downSince = states[a].downSince
<1>1. states \in [Agents -> AgentState]
  BY DEF IInv, TypeOK, StoreTypeOK
<1>2. ASSUME NEW now \in Instant, NEW saved \in BOOLEAN, NEW stuck \in SUBSET files,
             AppendStored(b, now, saved, stuck)
      PROVE  states'[a].downSince = states[a].downSince
  BY <1>1, <1>2 DEF AppendStored, AgentState
<1>3. ASSUME NEW saved \in BOOLEAN, EnsureAgent(b, saved)
      PROVE  states'[a].downSince = states[a].downSince
  BY <1>1, <1>3 DEF EnsureAgent, AgentState
<1>4. QED
  BY <1>2, <1>3

\* down_since keeps the time of the first verdict while the agent stays down.
THEOREM DownSinceStays == Spec => DownSinceStable
<1> DEFINE Keeps == phase # "stopped" =>
                      \A a \in Agents : states[a].down /\ states'[a].down =>
                        states'[a].downSince = states[a].downSince
<1>1. ASSUME IInv, [Next]_vars
      PROVE  Keeps
  <2>1. ASSUME UNCHANGED states PROVE Keeps
    BY <2>1
  <2>2. ASSUME ProcessEnds PROVE Keeps
    BY <2>2 DEF ProcessEnds, NoStates, Absent
  <2>3. CASE Start
    BY <2>3 DEF Start
  <2>4. ASSUME NEW b \in Agents, Ensure(b) PROVE Keeps
    BY <1>1, <2>4, StoreOpsKeepDownSince DEF Ensure
  <2>5. ASSUME NEW h \in Handlers, AppendReport(h) PROVE Keeps
    <3>1. slot[h].agent \in Agents /\ slot[h].now \in Instant
      BY <1>1, <2>5 DEF AppendReport, IInv, TypeOK, Request
    <3>2. CASE UNCHANGED states
      BY <2>1, <3>2
    <3>3. ASSUME NEW saved \in BOOLEAN, NEW stuck \in SUBSET files,
                 AppendStored(slot[h].agent, slot[h].now, saved, stuck)
          PROVE  Keeps
      BY <1>1, <3>1, <3>3, StoreOpsKeepDownSince
    <3>4. QED
      BY <2>5, <3>2, <3>3
         DEF AppendReport, AppendOpenFails, AppendWriteFails, storeVars
  <2>6. ASSUME NEW saved \in BOOLEAN, WriteBack(saved) PROVE Keeps
    BY <1>1, <2>6, WriteBackKeepsDownSince
  <2>7. QED
    BY <1>1, <2>1, <2>2, <2>3, <2>4, <2>5, <2>6
       DEF Next, EnsureFails, Serve, Shutdown, Crash, Accept, TickerFire,
           CheckBegin, ScanSkip, ScanJudge, NotifyAcked, NotifyFails, CheckEnd,
           AdvanceClock, vars, storeVars
<1>2. IInv /\ [Next]_vars => [Keeps]_vars
  BY <1>1
<1>3. QED
  BY Invariance, <1>2, PTL DEF Spec, DownSinceStable

(***************************************************************************)
(* Refinement                                                              *)
(***************************************************************************)

\* Seen from the webhook, every step of the monitor is a step of AlertChannel or
\* changes nothing it can see.
LEMMA StepImplements ==
    ASSUME IInv, [Next]_vars
    PROVE  [Alerts!Next]_<<acked, bell, forgot>>
<1> USE DEF Alerts!Next
<1>1. ASSUME UNCHANGED <<acked, bell, forgot>>
      PROVE  [Alerts!Next]_<<acked, bell, forgot>>
  BY <1>1
<1>2. ASSUME ProcessEnds
      PROVE  [Alerts!Next]_<<acked, bell, forgot>>
  <2>1. forgot' \in [Agents -> BOOLEAN] /\ UNCHANGED <<acked, bell>>
    BY <1>2 DEF ProcessEnds
  <2>2. \A a \in Agents : forgot'[a] => acked[a] # "none"
    BY <1>2 DEF ProcessEnds, IInv, EntriesOK
  <2>3. QED
    BY <2>1, <2>2 DEF Alerts!Restart
<1>3. CASE NotifyAcked
  <2> DEFINE v == checker.verdict
  <2>1. /\ v.agent \in Agents
        /\ v.kind # "none"
        /\ v.kind = EventKind(v.down, v.notified)
        /\ forgot[v.agent] \/ v.notified = acked[v.agent]
        /\ v.notified # "none" => acked[v.agent] # "none"
    BY <1>3, AlertToSend DEF NotifyAcked
  <2>2. /\ acked' = [acked EXCEPT ![v.agent] = NotifiedAs(v.kind)]
        /\ bell' = [bell EXCEPT ![v.agent] = ~@]
        /\ forgot' = [forgot EXCEPT ![v.agent] = FALSE]
    BY <1>3 DEF NotifyAcked
  <2>3. CASE v.kind = "down"
    <3>1. acked[v.agent] # "down" \/ forgot[v.agent]
      BY <2>1, <2>3 DEF EventKind
    <3>2. Alerts!AnnounceDown(v.agent)
      BY <2>2, <2>3, <3>1 DEF Alerts!AnnounceDown, NotifiedAs
    <3>3. QED
      BY <2>1, <3>2
  <2>4. CASE v.kind # "down"
    <3>1. v.notified = "down"
      BY <2>1, <2>4 DEF EventKind
    <3>2. acked[v.agent] \in {"none", "down", "up"}
      BY <2>1 DEF IInv, TypeOK, NotifyState
    <3>3. acked[v.agent] = "down" \/ (acked[v.agent] = "up" /\ forgot[v.agent])
      BY <2>1, <3>1, <3>2
    <3>4. Alerts!AnnounceUp(v.agent)
      BY <2>2, <2>4, <3>3 DEF Alerts!AnnounceUp, NotifiedAs
    <3>5. QED
      BY <2>1, <3>4
  <2>5. QED
    BY <2>3, <2>4
<1>4. QED
  BY <1>1, <1>2, <1>3
     DEF Next, Start, Ensure, EnsureFails, Serve, Shutdown, Crash, Accept,
         AppendReport, TickerFire, CheckBegin, ScanSkip, ScanJudge, NotifyFails,
         WriteBack, CheckEnd, AdvanceClock, vars, observerVars

\* The monitor implements the alert channel its documentation promises.
THEOREM Refinement == Spec => ImplementsAlertChannel
<1>1. Init => Alerts!Init
  BY DEF Init, Alerts!Init
<1>2. IInv /\ [Next]_vars => [Alerts!Next]_<<acked, bell, forgot>>
  BY StepImplements
<1>3. QED
  BY Invariance, <1>1, <1>2, PTL DEF Spec, ImplementsAlertChannel, Alerts!Spec

(***************************************************************************)
(* Dashboard: a sorted page                                                *)
(***************************************************************************)

RowType == [agent : Nat, down : BOOLEAN, unknown : BOOLEAN, silence : Int]

\* Above is a strict order, total among the rows of different agents.
LEMMA AboveOrder ==
    ASSUME NEW r \in RowType, NEW q \in RowType, NEW p \in RowType
    PROVE  /\ ~Above(r, r)
           /\ Above(r, q) /\ Above(q, p) => Above(r, p)
           /\ r.agent # q.agent => Above(r, q) \/ Above(q, r)
           /\ Above(r, q) /\ q.down => r.down
<1>1. \A x \in RowType : /\ x.agent \in Nat /\ x.silence \in Int
                         /\ x.down \in BOOLEAN /\ x.unknown \in BOOLEAN
  BY DEF RowType
<1>2. ~Above(r, r)
  BY <1>1 DEF Above
<1>3. Above(r, q) /\ Above(q, p) => Above(r, p)
  BY <1>1 DEF Above
<1>4. r.agent # q.agent => Above(r, q) \/ Above(q, r)
  BY <1>1 DEF Above
<1>5. Above(r, q) /\ q.down => r.down
  BY <1>1 DEF Above
<1>6. QED
  BY <1>2, <1>3, <1>4, <1>5

IsRows(R) ==
    /\ IsFiniteSet(R)
    /\ R \subseteq RowType
    /\ \A r, q \in R : r.agent = q.agent => r = q

\* A page of R: every row, each above the ones that follow it.
IsPage(page, R) ==
    /\ page \in [1 .. Cardinality(R) -> R]
    /\ \A i, j \in DOMAIN page : i < j => Above(page[i], page[j])

\* The number of the rows above a row, and one, is its place on a page.
LEMMA PageExists ==
    ASSUME NEW R, IsRows(R)
    PROVE  \E page : IsPage(page, R)
<1> DEFINE n == Cardinality(R)
           before(r) == {q \in R : Above(q, r)}
           rank == [r \in R |-> Cardinality(before(r)) + 1]
<1>1. n \in Nat /\ IsFiniteSet(R) /\ \A r \in R : r \in RowType
  BY FS_CardinalityType DEF IsRows
<1>2. ASSUME NEW r \in R
      PROVE  IsFiniteSet(before(r)) /\ Cardinality(before(r)) \in 0 .. n - 1
  <2>1. before(r) \in SUBSET (R \ {r})
    BY <1>1, AboveOrder
  <2>2. IsFiniteSet(R \ {r}) /\ Cardinality(R \ {r}) = n - 1
    BY <1>1, FS_RemoveElement
  <2> HIDE DEF before, n
  <2>3. IsFiniteSet(before(r)) /\ Cardinality(before(r)) <= n - 1
    BY <2>1, <2>2, FS_Subset
  <2>4. Cardinality(before(r)) \in Nat
    BY <2>3, FS_CardinalityType
  <2>5. QED
    BY <1>1, <2>3, <2>4
<1>3. ASSUME NEW r \in R, NEW q \in R, Above(q, r)
      PROVE  Cardinality(before(q)) < Cardinality(before(r))
  <2>1. before(q) \in SUBSET before(r)
    BY <1>1, <1>3, AboveOrder
  <2>2. q \in before(r) /\ q \notin before(q)
    BY <1>1, <1>3, AboveOrder
  <2>3. before(q) # before(r)
    BY <2>2
  <2> HIDE DEF before
  <2>4. /\ Cardinality(before(q)) <= Cardinality(before(r))
        /\ Cardinality(before(q)) # Cardinality(before(r))
    BY <1>2, <2>1, <2>3, FS_Subset
  <2>5. QED
    BY <1>1, <1>2, <2>4
<1> HIDE DEF before, n
<1>4. rank \in [R -> 1 .. n] /\ \A r \in R : rank[r] = Cardinality(before(r)) + 1
  BY <1>1, <1>2
<1> HIDE DEF rank
<1>5. \A r, q \in R : Above(q, r) => rank[q] < rank[r]
  BY <1>1, <1>2, <1>3, <1>4
<1>6. \A r, q \in R : rank[r] = rank[q] => r = q
  <2> SUFFICES ASSUME NEW r \in R, NEW q \in R, rank[r] = rank[q], r # q PROVE FALSE
    OBVIOUS
  <2>1. Above(r, q) \/ Above(q, r)
    BY <1>1, AboveOrder DEF IsRows
  <2>2. rank[r] \in Nat /\ rank[q] \in Nat
    BY <1>1, <1>4
  <2>3. QED
    BY <1>5, <2>1, <2>2
<1>7. \A k \in 1 .. n : \E r \in R : rank[r] = k
  <2>1. rank \in Injection(R, 1 .. n)
    BY <1>4, <1>6 DEF Injection, IsInjective
  <2>2. IsFiniteSet(1 .. n) /\ Cardinality(1 .. n) = n
    BY <1>1, FS_Interval
  <2>3. rank \in Surjection(R, 1 .. n)
    BY <2>1, <2>2, FS_Injection DEF n
  <2>4. QED
    BY <2>3 DEF Surjection
<1> DEFINE page == [k \in 1 .. n |-> CHOOSE r \in R : rank[r] = k]
<1>8. \A k \in 1 .. n : page[k] \in R /\ rank[page[k]] = k
  BY <1>7
<1>9. page \in [1 .. n -> R]
  BY <1>8
<1>10. DOMAIN page = 1 .. n
  OBVIOUS
<1> HIDE DEF page
<1>11. ASSUME NEW i \in 1 .. n, NEW j \in 1 .. n, i < j PROVE Above(page[i], page[j])
  <2>1. page[i] # page[j]
    BY <1>1, <1>8, <1>11
  <2>2. page[i].agent # page[j].agent
    BY <1>8, <2>1 DEF IsRows
  <2>3. Above(page[i], page[j]) \/ Above(page[j], page[i])
    BY <1>1, <1>8, <2>2, AboveOrder
  <2>4. Above(page[j], page[i]) => j < i
    BY <1>5, <1>8
  <2>5. QED
    BY <1>1, <1>11, <2>3, <2>4
<1>12. IsPage(page, R)
  BY <1>9, <1>10, <1>11 DEF IsPage, n
<1>13. QED
  BY <1>12

\* The rows of agents that are down are the first ones of a page.
LEMMA DownFirst ==
    ASSUME NEW R, IsRows(R)
    PROVE  LET down == {r \in R : r.down}
           IN  {Sorted(R)[k] : k \in 1 .. Cardinality(down)} = down
<1> DEFINE n == Cardinality(R)
           down == {r \in R : r.down}
           m == Cardinality(down)
           page == Sorted(R)
           D == {k \in 1 .. n : page[k].down}
<1>1. n \in Nat /\ IsFiniteSet(R) /\ \A r \in R : r \in RowType
  BY FS_CardinalityType DEF IsRows
<1>2. IsPage(page, R)
  BY PageExists, Zenon DEF Sorted, IsPage
<1>3. page \in [1 .. n -> R] /\ \A i, j \in 1 .. n : i < j => Above(page[i], page[j])
  BY <1>2 DEF IsPage
<1> HIDE DEF page, n
<1>4. \A i, j \in 1 .. n : page[i] = page[j] => i = j
  <2> SUFFICES ASSUME NEW i \in 1 .. n, NEW j \in 1 .. n, page[i] = page[j], i < j PROVE FALSE
    BY <1>1
  <2>1. Above(page[i], page[i]) /\ page[i] \in RowType
    BY <1>1, <1>3
  <2>2. QED
    BY <2>1, AboveOrder
<1>5. \A r \in R : \E k \in 1 .. n : page[k] = r
  <2>1. page \in Injection(1 .. n, R)
    BY <1>3, <1>4 DEF Injection, IsInjective
  <2>2. Cardinality(1 .. n) = n
    BY <1>1, FS_Interval
  <2>3. page \in Surjection(1 .. n, R)
    BY <1>1, <2>1, <2>2, FS_Injection DEF n
  <2>4. QED
    BY <2>3 DEF Surjection
<1>6. IsFiniteSet(D) /\ D \subseteq 1 .. n
  BY <1>1, FS_Interval, FS_Subset
<1>7. Cardinality(D) = m
  <2> DEFINE f == [k \in D |-> page[k]]
  <2>1. \A k \in D : f[k] \in down /\ f[k] = page[k]
    BY <1>3
  <2>2. \A r \in down : \E k \in D : f[k] = r
    BY <1>5
  <2>3. f \in [D -> down]
    BY <2>1
  <2>4. \A i, j \in D : f[i] = f[j] => i = j
    BY <1>4, <2>1
  <2> HIDE DEF f, D, down
  <2>5. f \in Injection(D, down) /\ f \in Surjection(D, down)
    BY <2>2, <2>3, <2>4 DEF Injection, IsInjective, Surjection
  <2>6. ExistsBijection(D, down)
    BY <2>5 DEF ExistsBijection, Bijection
  <2>7. QED
    BY <1>6, <2>6, FS_Bijection
<1>8. ASSUME NEW j \in D PROVE j <= m
  <2>1. \A i \in 1 .. j : i \in D
    <3> SUFFICES ASSUME NEW i \in 1 .. j, i # j PROVE page[i].down /\ i \in 1 .. n
      BY <1>8
    <3>1. i \in 1 .. n /\ j \in 1 .. n /\ i < j
      BY <1>1
    <3>2. Above(page[i], page[j]) /\ page[j].down /\ page[i] \in RowType /\ page[j] \in RowType
      BY <1>1, <1>3, <3>1
    <3>3. QED
      BY <3>1, <3>2, AboveOrder
  <2>2. j \in Nat
    BY <1>1, <1>6
  <2>3. Cardinality(1 .. j) = j
    BY <2>2, FS_Interval, <1>6
  <2> HIDE DEF D, m
  <2>4. Cardinality(1 .. j) <= Cardinality(D)
    BY <1>6, <2>1, FS_Subset
  <2>5. QED
    BY <1>7, <2>3, <2>4
<1>9. D = 1 .. m
  <2>1. m \in Nat
    BY <1>6, <1>7, FS_CardinalityType
  <2>2. IsFiniteSet(1 .. m) /\ Cardinality(1 .. m) = m
    BY <2>1, FS_Interval
  <2>3. D \in SUBSET (1 .. m)
    BY <1>6, <1>8, <2>1
  <2> HIDE DEF D, m
  <2>4. QED
    BY <1>7, <2>2, <2>3, FS_Subset
<1>10. {page[k] : k \in D} = down
  BY <1>3, <1>5
<1> HIDE DEF D
<1>11. QED
  BY <1>9, <1>10 DEF page

(***************************************************************************)
(* Dashboard: the page agrees with the Checker                             *)
(***************************************************************************)

LEMMA PageInit ==
    ASSUME Init
    PROVE  PageInv
<1>1. states = NoStates /\ disk = NoStates /\ checker = CheckerIdle
  BY DEF Init, StoreInit
<1>2. EntriesHeard
  <2>1. \A a \in Agents : NoStates[a] = Absent
    BY DEF NoStates
  <2>2. ~Absent.down /\ Absent.lastSeen = Zero
    BY DEF Absent
  <2>3. checker.snap = NoStates
    BY <1>1 DEF CheckerIdle
  <2>4. QED
    BY <1>1, <2>1, <2>2, <2>3 DEF EntriesHeard
<1>3. JudgedAsShown
  BY <1>1 DEF JudgedAsShown, CheckerIdle
<1>4. QED
  BY <1>2, <1>3 DEF PageInv

LEMMA PageStill ==
    ASSUME PageInv, UNCHANGED <<states, disk, checker>>
    PROVE  PageInv'
<1>1. EntriesHeard'
  BY DEF PageInv, EntriesHeard
<1>2. JudgedAsShown'
  BY DEF PageInv, JudgedAsShown, Silent, For
<1>3. QED
  BY <1>1, <1>2 DEF PageInv

LEMMA PageEnds ==
    ASSUME PageInv, ProcessEnds
    PROVE  PageInv'
<1>1. states' = NoStates /\ disk' = disk /\ checker' = CheckerIdle
  BY DEF ProcessEnds
<1>2. EntriesHeard'
  BY <1>1 DEF PageInv, EntriesHeard, NoStates, Absent, CheckerIdle
<1>3. JudgedAsShown'
  BY <1>1 DEF JudgedAsShown, CheckerIdle
<1>4. QED
  BY <1>2, <1>3 DEF PageInv

\* While no check runs, the entries may change as long as they stay sound.
LEMMA PageIdle ==
    ASSUME PageInv, checker = CheckerIdle, checker' = checker,
           \A a \in Agents : \A st \in {states'[a], disk'[a]} :
              (~st.known => st.lastSeen = Zero) /\ (st.down => st.lastSeen # Zero)
    PROVE  PageInv'
<1>1. EntriesHeard'
  BY DEF PageInv, EntriesHeard, CheckerIdle, NoStates, Absent
<1>2. JudgedAsShown'
  BY DEF JudgedAsShown, CheckerIdle
<1>3. QED
  BY <1>1, <1>2 DEF PageInv

LEMMA PageAppend ==
    ASSUME IInv, PageInv, NEW h \in Handlers, AppendReport(h)
    PROVE  PageInv'
<1> DEFINE a == slot[h].agent
           now == slot[h].now
<1>1. a \in Agents /\ now # Zero /\ states \in [Agents -> AgentState] /\ checker' = checker
  BY DEF AppendReport, IInv, TypeOK, StoreTypeOK, Request
<1>2. CASE UNCHANGED <<states, disk>>
  BY <1>1, <1>2, PageStill
<1>3. ASSUME NEW saved \in BOOLEAN, NEW stuck, AppendStored(a, now, saved, stuck)
      PROVE  PageInv'
  <2>1. states' = [states EXCEPT ![a].known = TRUE, ![a].lastSeen = now]
    BY <1>3 DEF AppendStored
  <2>2. disk' = states' \/ disk' = disk
    BY <1>3 DEF AppendStored, saveStateLocked
  <2>3. \A b \in Agents : /\ states'[b].down = states[b].down
                          /\ b # a => states'[b] = states[b]
    BY <1>1, <2>1 DEF AgentState
  <2>4. states'[a].known /\ states'[a].lastSeen = now
    BY <1>1, <2>1 DEF AgentState
  <2>5. \A b \in Agents : (~states'[b].known => states'[b].lastSeen = Zero)
                          /\ (states'[b].down => states'[b].lastSeen # Zero)
    BY <1>1, <2>3, <2>4 DEF PageInv, EntriesHeard
  <2>6. EntriesHeard'
    <3>1. \A b \in Agents : states[b].lastSeen # Zero => states'[b].lastSeen # Zero
      BY <1>1, <2>3, <2>4
    <3>2. \A b \in Agents : (~disk'[b].known => disk'[b].lastSeen = Zero)
                            /\ (disk'[b].down => disk'[b].lastSeen # Zero)
      BY <2>2, <2>5 DEF PageInv, EntriesHeard
    <3>3. QED
      BY <1>1, <2>5, <3>1, <3>2 DEF PageInv, EntriesHeard
  <2>7. JudgedAsShown'
    BY <1>1, <2>3 DEF PageInv, JudgedAsShown, Silent, For
  <2>8. QED
    BY <2>6, <2>7 DEF PageInv
<1>4. QED
  BY <1>2, <1>3 DEF AppendReport, AppendOpenFails, AppendWriteFails, storeVars

LEMMA PageCheckBegin ==
    ASSUME IInv, PageInv, CheckBegin
    PROVE  PageInv'
<1>1. /\ states' = states /\ disk' = disk
      /\ checker'.pc = "scan" /\ checker'.now = ticker /\ checker'.snap = states
      /\ checker'.todo = {a \in Agents : states[a].known}
  BY DEF CheckBegin, storeVars, CheckerIdle
<1>2. EntriesHeard'
  BY <1>1 DEF PageInv, EntriesHeard
<1>3. JudgedAsShown'
  <2>1. \A a \in Agents : states[a].down \in BOOLEAN
    BY DEF IInv, TypeOK, StoreTypeOK, AgentState
  <2>2. \A a \in Agents : ~states[a].known => states[a].lastSeen = Zero /\ states[a].down = FALSE
    BY <2>1 DEF PageInv, EntriesHeard
  <2>3. QED
    BY <1>1, <2>2 DEF JudgedAsShown
<1>4. QED
  BY <1>2, <1>3 DEF PageInv

LEMMA PageScan ==
    ASSUME IInv, PageInv, NEW a \in Agents, ScanSkip(a) \/ ScanJudge(a)
    PROVE  PageInv'
<1> DEFINE st == checker.snap[a]
           v == Judge(st, a, checker.now)
<1>1. states' = states /\ disk' = disk /\ checker.pc = "scan" /\ a \in checker.todo /\ checker \in CheckerState
  BY DEF ScanSkip, ScanJudge, FirstOf, storeVars, IInv, TypeOK
<1>2. states[a].down = st.down /\ v.down = Silent(st, a, checker.now) /\ v.agent = a
  BY <1>1 DEF IInv, SnapshotOwned, Judge
<1>3. CASE ScanSkip(a)
  <2>1. checker' = [checker EXCEPT !.todo = @ \ {a}]
    BY <1>3 DEF ScanSkip
  <2>2. /\ checker'.snap = checker.snap /\ checker'.now = checker.now /\ checker'.pc = "scan"
        /\ checker'.todo = checker.todo \ {a}
    BY <1>1, <2>1 DEF CheckerState
  <2>3. st.down = (st.lastSeen # Zero /\ Silent(st, a, checker.now))
    <3>1. st.lastSeen = Zero \/ st.down = v.down
      BY <1>3 DEF ScanSkip, SameLiveness
    <3>2. st.down => st.lastSeen # Zero
      BY DEF PageInv, EntriesHeard
    <3>3. st.down \in BOOLEAN
      BY <1>1 DEF CheckerState, AgentState
    <3> HIDE DEF st, v
    <3>4. QED
      BY <1>2, <3>1, <3>2, <3>3 DEF Silent
  <2>4. EntriesHeard'
    BY <1>1, <2>2 DEF PageInv, EntriesHeard
  <2>5. JudgedAsShown'
    BY <1>1, <1>2, <2>2, <2>3 DEF PageInv, JudgedAsShown
  <2>6. QED
    BY <2>4, <2>5 DEF PageInv
<1>4. CASE ScanJudge(a)
  <2>1. /\ st.lastSeen # Zero
        /\ checker' = [checker EXCEPT !.pc = IF v.kind # "none" THEN "notify" ELSE "write", !.verdict = v]
    BY <1>4 DEF ScanJudge
  <2> HIDE DEF v
  <2>2. /\ checker'.snap = checker.snap /\ checker'.now = checker.now /\ checker'.pc # "wait"
        /\ checker'.todo = checker.todo /\ checker'.verdict = v
    BY <1>1, <2>1 DEF CheckerState
  <2>3. v.down = (st.lastSeen # Zero /\ Silent(st, a, checker.now))
    BY <1>2, <2>1 DEF Silent
  <2>4. EntriesHeard'
    BY <1>1, <2>2 DEF PageInv, EntriesHeard
  <2>5. JudgedAsShown'
    BY <1>1, <1>2, <2>2, <2>3 DEF PageInv, JudgedAsShown
  <2>6. QED
    BY <2>4, <2>5 DEF PageInv
<1>5. QED
  BY <1>3, <1>4

LEMMA PageNotify ==
    ASSUME IInv, PageInv, NotifyAcked \/ NotifyFails
    PROVE  PageInv'
<1>1. states' = states /\ disk' = disk /\ checker.pc = "notify" /\ checker \in CheckerState
  BY DEF NotifyAcked, NotifyFails, storeVars, IInv, TypeOK
<1>2. /\ checker'.snap = checker.snap /\ checker'.now = checker.now /\ checker'.pc = "write"
      /\ checker'.todo = checker.todo
      /\ checker'.verdict.down = checker.verdict.down /\ checker'.verdict.agent = checker.verdict.agent
  <2>1. CASE NotifyAcked
    BY <1>1, <2>1 DEF NotifyAcked, CheckerState, Verdict
  <2>2. CASE NotifyFails
    BY <1>1, <2>2 DEF NotifyFails, CheckerState, Verdict
  <2>3. QED
    BY <2>1, <2>2
<1>3. EntriesHeard'
  BY <1>1, <1>2 DEF PageInv, EntriesHeard
<1>4. JudgedAsShown'
  BY <1>1, <1>2 DEF PageInv, JudgedAsShown
<1>5. QED
  BY <1>3, <1>4 DEF PageInv

LEMMA PageWriteBack ==
    ASSUME IInv, PageInv, NEW saved \in BOOLEAN, WriteBack(saved)
    PROVE  PageInv'
<1> DEFINE v == checker.verdict
           a == v.agent
<1>1. checker.pc = "write" /\ checker \in CheckerState /\ states \in [Agents -> AgentState]
  BY DEF WriteBack, IInv, TypeOK, StoreTypeOK
<1>2. a \in checker.todo /\ a \in Agents
  BY <1>1 DEF IInv, VerdictOK, CheckerState
<1>3. states[a].known /\ states[a].lastSeen \in Instant
  BY <1>1, <1>2 DEF IInv, SnapshotOwned, AgentState
<1>4. /\ states' = [states EXCEPT ![a].down = v.down, ![a].downSince = v.downSince, ![a].notified = v.notified]
      /\ disk' = states' \/ disk' = disk
  BY <1>3 DEF WriteBack, SetLiveness, saveStateLocked
<1>5. checker' = [checker EXCEPT !.pc = "scan", !.todo = @ \ {a}, !.verdict = NoVerdict]
  BY DEF WriteBack
<1>6. /\ checker'.snap = checker.snap /\ checker'.now = checker.now /\ checker'.pc = "scan"
      /\ checker'.todo = checker.todo \ {a}
  BY <1>1, <1>5 DEF CheckerState
<1>7. /\ \A b \in Agents : b # a => states'[b] = states[b]
      /\ states'[a].down = v.down /\ states'[a].known /\ states'[a].lastSeen = states[a].lastSeen
  BY <1>1, <1>2, <1>3, <1>4 DEF AgentState
<1>8. v.down = (checker.snap[a].lastSeen # Zero /\ Silent(checker.snap[a], a, checker.now))
  BY <1>1 DEF PageInv, JudgedAsShown
<1>9. v.down => states[a].lastSeen # Zero
  BY <1>2, <1>8 DEF PageInv, EntriesHeard
<1>10. EntriesHeard'
  <2>1. \A b \in Agents : /\ (~states'[b].known => states'[b].lastSeen = Zero)
                          /\ (states'[b].down => states'[b].lastSeen # Zero)
                          /\ states'[b].lastSeen = states[b].lastSeen
    BY <1>7, <1>9 DEF PageInv, EntriesHeard
  <2>2. \A b \in Agents : (~disk'[b].known => disk'[b].lastSeen = Zero)
                          /\ (disk'[b].down => disk'[b].lastSeen # Zero)
    <3>1. disk' = states' \/ disk' = disk
      BY <1>4
    <3>2. QED
      BY <2>1, <3>1 DEF PageInv, EntriesHeard
  <2>3. QED
    BY <1>6, <2>1, <2>2 DEF PageInv, EntriesHeard
<1>11. JudgedAsShown'
  BY <1>1, <1>2, <1>6, <1>7, <1>8 DEF PageInv, JudgedAsShown
<1>12. QED
  BY <1>10, <1>11 DEF PageInv

LEMMA PageStep ==
    ASSUME IInv, PageInv, [Next]_vars
    PROVE  PageInv'
<1>1. ~Alive => checker = CheckerIdle
  BY DEF IInv, CheckerShape
<1>2. CASE Start
  <2>1. checker = CheckerIdle /\ checker' = checker /\ states' = disk /\ disk' = disk
    BY <1>1, <1>2 DEF Start, Alive, loadState
  <2>2. QED
    BY <2>1, PageIdle DEF PageInv, EntriesHeard
<1>3. ASSUME NEW a \in Agents, Ensure(a) PROVE PageInv'
  <2>1. checker = CheckerIdle /\ checker' = checker
    BY <1>1, <1>3 DEF Ensure, Alive
  <2>2. CASE states[a].known
    BY <1>3, <2>1, <2>2, PageStill DEF Ensure, EnsureAgent
  <2>3. CASE ~states[a].known
    <3>1. states' = [states EXCEPT ![a].known = TRUE] /\ disk' = states'
      BY <1>3, <2>3 DEF Ensure, EnsureAgent, saveStateLocked
    <3>2. states \in [Agents -> AgentState]
      BY DEF IInv, TypeOK, StoreTypeOK
    <3>3. \A b \in Agents : /\ states'[b].lastSeen = states[b].lastSeen /\ states'[b].down = states[b].down
                            /\ states[b].known => states'[b].known
      BY <3>1, <3>2 DEF AgentState
    <3>4. \A b \in Agents : (~states'[b].known => states'[b].lastSeen = Zero)
                            /\ (states'[b].down => states'[b].lastSeen # Zero)
      BY <3>3 DEF PageInv, EntriesHeard
    <3>5. QED
      BY <2>1, <3>1, <3>4, PageIdle
  <2>4. QED
    BY <2>2, <2>3
<1>4. ASSUME NEW a \in Agents, EnsureFails(a) PROVE PageInv'
  BY <1>4, PageEnds DEF EnsureFails
<1>5. CASE Crash
  BY <1>5, PageEnds DEF Crash
<1>6. ASSUME NEW h \in Handlers, AppendReport(h) PROVE PageInv'
  BY <1>6, PageAppend
<1>7. CASE CheckBegin
  BY <1>7, PageCheckBegin
<1>8. ASSUME NEW a \in Agents, ScanSkip(a) \/ ScanJudge(a) PROVE PageInv'
  BY <1>8, PageScan
<1>9. CASE NotifyAcked \/ NotifyFails
  BY <1>9, PageNotify
<1>10. ASSUME NEW saved \in BOOLEAN, WriteBack(saved) PROVE PageInv'
  BY <1>10, PageWriteBack
<1>11. CASE CheckEnd
  <2>1. states' = states /\ disk' = disk /\ checker' = CheckerIdle
    BY <1>11 DEF CheckEnd, storeVars
  <2>2. \A a \in Agents : CheckerIdle.snap[a] = Absent
    BY DEF CheckerIdle, NoStates
  <2>3. ~Absent.down /\ Absent.lastSeen = Zero
    BY DEF Absent
  <2>4. EntriesHeard'
    BY <2>1, <2>2, <2>3 DEF PageInv, EntriesHeard
  <2>5. JudgedAsShown'
    BY <2>1 DEF JudgedAsShown, CheckerIdle
  <2>6. QED
    BY <2>4, <2>5 DEF PageInv
<1>12. CASE Serve \/ Shutdown \/ TickerFire \/ AdvanceClock \/ UNCHANGED vars
  BY <1>12, PageStill DEF Serve, Shutdown, TickerFire, AdvanceClock, vars, storeVars, processVars
<1>13. ASSUME NEW h \in Handlers, NEW a \in Agents, Accept(h, a) PROVE PageInv'
  BY <1>13, PageStill DEF Accept, storeVars
<1>14. QED
  BY <1>2, <1>3, <1>4, <1>5, <1>6, <1>7, <1>8, <1>9, <1>10, <1>11, <1>12, <1>13 DEF Next

\* The rows of the page at the end of a check, when no report came in meanwhile.
LEMMA PageShows ==
    ASSUME IInv, PageInv, checker.pc = "scan", checker.todo = {},
           \A a \in Agents : states[a].lastSeen = checker.snap[a].lastSeen
    PROVE  LET page == buildPage(checker.now)
               top == {page.rows[k].agent : k \in 1 .. page.downCount}
           IN  top = {a \in Agents : states[a].down}
<1> DEFINE now == checker.now
           K == {a \in Agents : states[a].known}
           R == {Row(a, now) : a \in K}
           down == {r \in R : r.down}
           page == buildPage(now)
<1>1. states \in [Agents -> AgentState] /\ now \in Instant /\ IsFiniteSet(Agents) /\ Agents \subseteq Nat
  BY DashboardAssumption, StoreAssumption DEF IInv, TypeOK, StoreTypeOK, CheckerState
<1>2. ASSUME NEW a \in Agents PROVE RowDown(a, now) = states[a].down
  BY DEF PageInv, JudgedAsShown, RowDown, Silent
<1>3. \A a \in Agents : states[a].down => a \in K
  BY DEF PageInv, EntriesHeard
<1>4. \A a \in K : Row(a, now).agent = a /\ Row(a, now).down = RowDown(a, now) /\ Row(a, now) \in RowType
  <2>1. \A a \in K : states[a].lastSeen \in Int /\ now \in Int /\ states[a].down \in BOOLEAN
    <3>1. Instant \subseteq Int
      BY StoreAssumption DEF Instant
    <3> HIDE DEF now
    <3>2. \A a \in K : states[a].lastSeen \in Instant /\ states[a].down \in BOOLEAN
      BY <1>1 DEF AgentState
    <3>3. QED
      BY <1>1, <3>1, <3>2
  <2> SUFFICES ASSUME NEW a \in K
               PROVE  Row(a, now).agent = a /\ Row(a, now).down = RowDown(a, now) /\ Row(a, now) \in RowType
    OBVIOUS
  <2>2. RowDown(a, now) \in BOOLEAN
    BY <1>2, <2>1
  <2> HIDE DEF now
  <2>3. QED
    BY <1>1, <2>1, <2>2 DEF Row, RowType
<1> HIDE DEF now
<1>5. IsRows(R)
  <2>1. IsFiniteSet(K)
    BY <1>1, FS_Subset
  <2>2. IsFiniteSet(R)
    <3> DEFINE f == [a \in K |-> Row(a, now)]
    <3>1. f \in Surjection(K, R)
      BY DEF Surjection
    <3> HIDE DEF f, K, R
    <3>2. QED
      BY <2>1, <3>1, FS_Surjection
  <2>3. QED
    BY <1>4, <2>2 DEF IsRows
<1>6. {Sorted(R)[k] : k \in 1 .. Cardinality(down)} = down
  BY <1>5, DownFirst
<1>7. page.rows = Sorted(R) /\ page.downCount = Cardinality(down)
  BY DEF buildPage
<1> HIDE DEF page
<1>8. {page.rows[k].agent : k \in 1 .. page.downCount} = {r.agent : r \in down}
  <2> DEFINE rows == Sorted(R)
             first == 1 .. Cardinality(down)
  <2>1. {rows[k] : k \in first} = down /\ page.rows = rows /\ 1 .. page.downCount = first
    BY <1>6, <1>7
  <2> HIDE DEF rows, first, down
  <2>2. {rows[k].agent : k \in first} = {r.agent : r \in {rows[k] : k \in first}}
    OBVIOUS
  <2>3. QED
    BY <2>1, <2>2
<1>9. {r.agent : r \in down} = {a \in Agents : states[a].down}
  BY <1>2, <1>3, <1>4
<1>10. QED
  BY <1>8, <1>9 DEF page, now

\* A page opened at the end of a check begins with exactly the agents the Checker holds
\* down, for any number of agents and whatever was reported, judged or lost before
\* (web.go:140-211, liveness.go:72-150).
THEOREM PageStaysTrue == Spec => []PageAgrees
<1>1. Init => IInv /\ PageInv
  BY InvInit, PageInit
<1>2. (IInv /\ PageInv) /\ [Next]_vars => (IInv /\ PageInv)'
  BY InvStep, PageStep
<1>3. IInv /\ PageInv => PageAgrees
  BY PageShows DEF PageAgrees
<1>4. QED
  BY <1>1, <1>2, <1>3, PTL DEF Spec

(***************************************************************************)
(* MonitorConfig: Load is sound for every file                             *)
(***************************************************************************)

\* The durations of f are such as may stand in a file.
IsFile(f) ==
    /\ {f.skew, f.check, f.timeout, f.interval, f.threshold} \subseteq Raw
    /\ \A id \in DOMAIN f.agents : f.agents[id] \in Raw

Duration == 1 .. HalfDuration - 1

LEMMA ProductIsPositive ==
    ASSUME NEW a \in Nat \ {0}, NEW b \in Nat \ {0}
    PROVE  a * b \in Nat \ {0}
OBVIOUS

\* What fits an int64 does not wrap.
LEMMA NoWrap ==
    ASSUME NEW x \in Duration
    PROVE  WrapDuration(x) = x
<1> DEFINE y == x + HalfDuration
           m == 2 * HalfDuration
<1>1. HalfDuration \in Nat \ {0}
  BY ConfigAssumption
<1>2. y \in 0 .. m - 1 /\ m \in Nat /\ m > 0 /\ x \in Int
  BY <1>1 DEF Duration
<1> HIDE DEF y, m
<1>3. y % m = y
  BY <1>2, SMTT(30)
<1>4. QED
  BY <1>1, <1>2, <1>3 DEF y, m, WrapDuration

\* A blank is not a number.
LEMMA BlankIsNoNumber == Blank \cap Int = {}
BY ConfigAssumption DEF Blank

\* What parses is the number in the file, or the default.
LEMMA ParsedIs ==
    ASSUME NEW raw \in Raw, NEW default, Parsed(raw)
    PROVE  /\ raw \in Blank => parseDuration(raw, default) = default
           /\ raw \in Int => raw \in Duration /\ parseDuration(raw, default) = raw
           /\ default \in Nat \ {0} => parseDuration(raw, default) \in Nat \ {0}
<1>1. raw \in Blank \/ raw \in 1 .. HalfDuration - 1
  BY DEF Parsed
<1>2. raw \in Int => raw \notin Blank
  BY BlankIsNoNumber
<1>3. HalfDuration \in Nat
  BY ConfigAssumption
<1>4. raw \in Int => raw \in Duration
  BY <1>1, <1>2 DEF Duration
<1>5. raw \in Duration => raw \in Nat \ {0} /\ raw \in Int
  BY <1>3 DEF Duration
<1>6. QED
  BY <1>1, <1>2, <1>4, <1>5 DEF parseDuration, Duration

\* For any configuration file, whatever its fields hold: a monitor that starts judges
\* every agent by a positive threshold, the file's own where it has one, checks at a
\* positive interval and is silent only if the file says so (config.go:100-221).
THEOREM LoadSound ==
    ASSUME NEW f, IsFile(f)
    PROVE  LoadIsSound(f)
<1> DEFINE c == Load(f)
<1> SUFFICES ASSUME c.accepted
             PROVE  /\ \A id \in c.keys :
                          /\ Threshold(c, id) > 0
                          /\ id \in DOMAIN f.agents /\ f.agents[id] \in Int => Threshold(c, id) = f.agents[id]
                          /\ (id \in DOMAIN f.agents => f.agents[id] \in Blank) /\ f.threshold \in Int
                               => Threshold(c, id) = f.threshold
                          /\ (id \in DOMAIN f.agents => f.agents[id] \in Blank) /\ f.threshold \in Blank
                               /\ f.interval \in Int /\ Plausible(f)
                               => Threshold(c, id) = Multiplier * f.interval
                    /\ c.check > 0 /\ c.timeout > 0 /\ c.skew > 0
                    /\ c.silent => f.disabled
  BY Zenon DEF LoadIsSound
<1>1. Accepted(f)
  BY DEF Load, Rejected
<1>2. /\ c.keys = DOMAIN f.keys /\ c.perAgent = perAgent(f) /\ c.default = defaultThreshold(f)
      /\ c.check = parseDuration(f.check, CheckInterval) /\ c.timeout = parseDuration(f.timeout, NotifyTimeout)
      /\ c.skew = parseDuration(f.skew, Skew) /\ c.silent = (f.webhook \in Blank)
  BY <1>1 DEF Load
<1> HIDE DEF c
<1>3. /\ {AgentInterval, CheckInterval, NotifyTimeout, Skew, Multiplier} \subseteq Nat \ {0}
      /\ HalfDuration \in Nat
  BY ConfigAssumption
<1>4. \A raw \in {f.skew, f.check, f.timeout, f.interval, f.threshold} : raw \in Raw /\ Parsed(raw)
  BY <1>1 DEF Accepted, IsFile
<1>5. c.check > 0 /\ c.timeout > 0 /\ c.skew > 0
  <2>1. {c.check, c.timeout, c.skew} \subseteq Nat \ {0}
    BY <1>2, <1>3, <1>4, ParsedIs
  <2>2. QED
    BY <2>1
<1>6. c.silent => f.disabled
  BY <1>1, <1>2 DEF Accepted
<1>7. ASSUME NEW id \in c.keys
      PROVE  /\ Threshold(c, id) > 0
             /\ id \in DOMAIN f.agents /\ f.agents[id] \in Int => Threshold(c, id) = f.agents[id]
             /\ (id \in DOMAIN f.agents => f.agents[id] \in Blank) /\ f.threshold \in Int
                  => Threshold(c, id) = f.threshold
             /\ (id \in DOMAIN f.agents => f.agents[id] \in Blank) /\ f.threshold \in Blank
                  /\ f.interval \in Int /\ Plausible(f)
                  => Threshold(c, id) = Multiplier * f.interval
  <2>1. c.perAgent[id] =
          IF id \in DOMAIN f.agents /\ f.agents[id] # Unset THEN parseDuration(f.agents[id], 0) ELSE 0
    BY <1>2 DEF perAgent
  <2>2. Multiplier * AgentInterval \in Nat \ {0}
    BY <1>3, ProductIsPositive
  <2>3. ASSUME id \in DOMAIN f.agents, f.agents[id] \in Int
        PROVE  c.perAgent[id] = f.agents[id] /\ f.agents[id] \in Duration
    <3>1. Parsed(f.agents[id]) /\ f.agents[id] \in Raw
      BY <1>1, <2>3 DEF Accepted, IsFile
    <3>2. f.agents[id] # Unset
      BY <2>3, BlankIsNoNumber DEF Blank
    <3>3. QED
      BY <2>1, <2>3, <3>1, <3>2, ParsedIs
  <2>4. ASSUME id \in DOMAIN f.agents => f.agents[id] \in Blank
        PROVE  c.perAgent[id] = 0
    BY <2>1, <2>4 DEF parseDuration
  <2>5. ASSUME f.threshold \in Int
        PROVE  c.default = f.threshold /\ f.threshold \in Duration
    BY <1>2, <1>4, <2>5, ParsedIs DEF defaultThreshold
  <2>6. ASSUME f.threshold \in Blank, f.interval \in Int, Plausible(f)
        PROVE  c.default = Multiplier * f.interval /\ Multiplier * f.interval \in Duration
    <3>1. parseDuration(f.interval, AgentInterval) = f.interval /\ f.interval \in Duration
      BY <1>4, <2>6, ParsedIs
    <3>2. f.interval \in Nat \ {0}
      BY <1>3, <3>1 DEF Duration
    <3>3. Multiplier * f.interval \in Nat \ {0}
      BY <1>3, <3>2, ProductIsPositive
    <3>4. Multiplier * f.interval < HalfDuration
      BY <2>6, BlankIsNoNumber DEF Plausible
    <3>5. Multiplier * f.interval \in Duration
      BY <1>3, <3>3, <3>4 DEF Duration
    <3>6. QED
      BY <1>2, <2>6, <3>1, <3>5, NoWrap DEF defaultThreshold, parseDuration
  <2>7. Threshold(c, id) > 0
    BY <2>2 DEF Threshold
  <2>8. \A x \in Duration : x > 0
    BY <1>3 DEF Duration
  <2>9. QED
    BY <2>3, <2>4, <2>5, <2>6, <2>7, <2>8 DEF Threshold
<1>8. QED
  BY <1>5, <1>6, <1>7

=============================================================================
