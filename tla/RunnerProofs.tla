---------------------------- MODULE RunnerProofs ----------------------------
(***************************************************************************)
(* Proofs about Runner, for any number of runners, groups, services and     *)
(* callers of Close.  Each part of the inductive invariant has a lemma of   *)
(* its own for the steps.                                                   *)
(***************************************************************************)
EXTENDS Runner, AgentSetup, TLAPS

LEMMA InitInv == Init => IInv
<1> SUFFICES ASSUME Init PROVE IInv
  OBVIOUS
<1> USE RunnerAssumption DEF Init
<1>1. TypeOK
  BY DEF TypeOK, Stages, Result, WorkerStates, Outcome
<1>2. GuardsHeld
  BY DEF GuardsHeld, HoldingActive, HoldingFile, Working
<1>3. StageShape
  <2> SUFFICES ASSUME NEW r \in Runners PROVE StageShape!(r)
    BY Zenon DEF StageShape
  <2>1. pc[r] = "new" /\ ctx[r] = "none" /\ up[r] = 0
    OBVIOUS
  <2>2. ~started[r] /\ ~done[r] /\ ~heartbeat[r]
    BY Zenon
  <2>3. \A g \in Groups : worker[r][g] = "off"
    OBVIOUS
  <2> QED
    BY <2>1, <2>2, <2>3 DEF Working
<1>4. ClosersShape
  BY DEF ClosersShape
<1>5. FailureShape /\ FirstFailureIsCause
  BY DEF FailureShape, FirstFailureIsCause, Leaving, Canceled
<1> QED
  BY <1>1, <1>2, <1>3, <1>4, <1>5 DEF IInv

(***************************************************************************)
(* Types                                                                   *)
(***************************************************************************)

\* CancelBy leaves a well typed ctx.
LEMMA CancelTypes ==
    ASSUME TypeOK, NEW r \in Runners, NEW who \in {"inside", "outside"},
           CancelBy(r, who)
    PROVE  ctx' \in [Runners -> {"none", "open", "inside", "outside"}]
  BY DEF TypeOK, CancelBy

\* Starting and stopping one service keeps the count in range.
LEMMA UpTypes ==
    ASSUME up \in [Runners -> 0 .. NServices], NEW r \in Runners,
           \/ UNCHANGED up
           \/ up[r] < NServices /\ up' = [up EXCEPT ![r] = @ + 1]
           \/ up[r] > 0 /\ up' = [up EXCEPT ![r] = @ - 1]
    PROVE  up' \in [Runners -> 0 .. NServices]
  BY RunnerAssumption

LEMMA MainTypes ==
    ASSUME TypeOK, NEW r \in Runners, MainStep(r) PROVE TypeOK'
<1> USE RunnerAssumption
    DEF TypeOK, objectVars, runVars, workVars, guardVars, Goto, Return, Stages, Result, Outcome
<1>1. CASE TakeActive(r)
  BY <1>1 DEF TakeActive
<1>2. CASE TakeFileLock(r)
  BY <1>2 DEF TakeFileLock, Acquire
<1>3. CASE Verify(r)
  BY <1>3 DEF Verify
<1>4. CASE StartService(r)
  <2>1. pc' \in [Runners -> Stages] /\ result' \in [Runners -> Result]
    BY <1>4 DEF StartService
  <2>2. up' \in [Runners -> 0 .. NServices]
    <3>1. UNCHANGED up \/ (up[r] < NServices /\ up' = [up EXCEPT ![r] = @ + 1])
      BY <1>4, Zenon DEF StartService
    <3> QED
      BY <3>1, UpTypes
  <2>3. UNCHANGED <<objectVars, ctx, heartbeat, worker, err, failures, guardVars,
                    closer, ticks>>
    BY <1>4 DEF StartService
  <2> QED
    BY <2>1, <2>2, <2>3
<1>5. CASE StartHeartbeat(r)
  <2>1. opts[r].heartbeat \in BOOLEAN
    OBVIOUS
  <2>2. heartbeat' \in [Runners -> BOOLEAN]
    BY <1>5, <2>1, Zenon DEF StartHeartbeat
  <2>3. pc' \in [Runners -> Stages]
    BY <1>5 DEF StartHeartbeat
  <2>4. UNCHANGED <<objectVars, result, ctx, up, worker, err, failures, guardVars,
                    closer, ticks>>
    BY <1>5, Zenon DEF StartHeartbeat
  <2> QED
    BY <2>2, <2>3, <2>4
<1>6. CASE LaunchWorkers(r)
  <2>1. worker' \in [Runners -> [Groups -> WorkerStates]]
    BY <1>6 DEF LaunchWorkers, WorkerStates
  <2> QED
    BY <1>6, <2>1 DEF LaunchWorkers
<1>7. ASSUME NEW outcome \in Outcome, OnceEnds(r, outcome) PROVE TypeOK'
  BY <1>7 DEF OnceEnds
<1>8. CASE JoinWorkers(r)
  BY <1>8 DEF JoinWorkers
<1>9. CASE CancelHeartbeat(r)
  BY <1>9, CancelTypes DEF CancelHeartbeat
<1>10. CASE JoinHeartbeat(r)
  BY <1>10 DEF JoinHeartbeat
<1>11. CASE CancelServices(r)
  BY <1>11, CancelTypes DEF CancelServices
<1>12. CASE StopService(r)
  <2>1. pc' \in [Runners -> Stages]
    <3>1. UNCHANGED pc \/ Goto(r, "release")
      BY <1>12, Zenon DEF StopService
    <3> QED
      BY <3>1
  <2>2. up' \in [Runners -> 0 .. NServices]
    <3>1. UNCHANGED up \/ (up[r] > 0 /\ up' = [up EXCEPT ![r] = @ - 1])
      BY <1>12, Zenon DEF StopService
    <3> QED
      BY <3>1, UpTypes
  <2>3. UNCHANGED <<objectVars, result, ctx, heartbeat, worker, err, failures, guardVars,
                    closer, ticks>>
    BY <1>12 DEF StopService
  <2> QED
    BY <2>1, <2>2, <2>3
<1>13. CASE ReleaseFileLock(r)
  BY <1>13 DEF ReleaseFileLock, Release
<1>14. CASE ReleaseActive(r)
  BY <1>14 DEF ReleaseActive
<1>15. CASE Finish(r)
  <2>1. closed' \in [Runners -> BOOLEAN] /\ done' \in [Runners -> BOOLEAN]
    BY <1>15, Zenon DEF Finish
  <2>2. pc' \in [Runners -> Stages]
    BY <1>15 DEF Finish
  <2>3. ctx' \in [Runners -> {"none", "open", "inside", "outside"}]
    BY <1>15, CancelTypes, Zenon DEF Finish
  <2>4. UNCHANGED <<opts, started, result, workVars, guardVars, closer, ticks>>
    BY <1>15, Zenon DEF Finish
  <2> QED
    BY <2>1, <2>2, <2>3, <2>4
<1> QED
  BY <1>1, <1>2, <1>3, <1>4, <1>5, <1>6, <1>7, <1>8, <1>9, <1>10, <1>11, <1>12,
     <1>13, <1>14, <1>15 DEF MainStep

LEMMA TypeStep == TypeOK /\ [Next]_vars => TypeOK'
<1> SUFFICES ASSUME TypeOK, [Next]_vars PROVE TypeOK'
  OBVIOUS
<1>1. ASSUME NEW r \in Runners, Run(r) PROVE TypeOK'
  <2>1. started' \in [Runners -> BOOLEAN]
    BY <1>1, Zenon DEF Run, TypeOK
  <2>2. ctx' \in [Runners -> {"none", "open", "inside", "outside"}]
    BY <1>1 DEF Run, TypeOK
  <2>3. pc' \in [Runners -> Stages]
    BY <1>1 DEF Run, TypeOK, Goto, Stages
  <2>4. UNCHANGED <<opts, closed, done, result, workVars, guardVars, closer, ticks>>
    BY <1>1, Zenon DEF Run
  <2> QED
    BY <2>1, <2>2, <2>3, <2>4 DEF TypeOK, workVars, guardVars
<1>2. ASSUME NEW r \in Runners, MainStep(r) PROVE TypeOK'
  BY <1>2, MainTypes
<1>3. ASSUME NEW r \in Runners, HeartbeatEnds(r) PROVE TypeOK'
  <2>1. heartbeat' \in [Runners -> BOOLEAN]
    BY <1>3, Zenon DEF HeartbeatEnds, TypeOK
  <2>2. UNCHANGED <<objectVars, runVars, up, worker, err, failures, guardVars, closer, ticks>>
    BY <1>3, Zenon DEF HeartbeatEnds
  <2> QED
    BY <2>1, <2>2 DEF TypeOK, objectVars, runVars, guardVars
<1>4. ASSUME NEW r \in Runners, ParentDone(r) PROVE TypeOK'
  BY <1>4, CancelTypes DEF ParentDone, TypeOK, objectVars, workVars, guardVars
<1>5. ASSUME NEW r \in Runners, NEW g \in Groups,
             WorkerStep(r, g) \/ SelectDone(r, g) \/ SelectTick(r, g)
      PROVE  TypeOK'
  <2> USE RunnerAssumption
      DEF TypeOK, objectVars, runVars, guardVars, Step, WorkerStates, Outcome
  <2>1. ASSUME NEW outcome \in Outcome, CycleEnds(r, g, outcome) PROVE TypeOK'
    BY <2>1 DEF CycleEnds
  <2>2. CASE ReportFailure(r, g)
    BY <2>2 DEF ReportFailure
  <2>3. CASE CancelOthers(r, g)
    BY <2>3, CancelTypes DEF CancelOthers
  <2>4. CASE SelectDone(r, g)
    BY <2>4 DEF SelectDone
  <2>5. CASE SelectTick(r, g)
    BY <2>5 DEF SelectTick
  <2> QED
    BY <1>5, <2>1, <2>2, <2>3, <2>4, <2>5 DEF WorkerStep
<1>6. ASSUME NEW c \in Closers, NEW r \in Runners, Close(c, r) PROVE TypeOK'
  <2>1. closed' \in [Runners -> BOOLEAN]
    BY <1>6, Zenon DEF Close, TypeOK
  <2>2. ctx' \in [Runners -> {"none", "open", "inside", "outside"}]
    BY <1>6, CancelTypes, Zenon DEF Close
  <2>3. closer' \in [Closers -> [pc: {"idle", "waiting", "closed", "gaveUp"},
                                 of: Runners \union {Nobody}]]
    <3>1. \/ closer' = [closer EXCEPT ![c] = [pc |-> "waiting", of |-> r]]
          \/ closer' = [closer EXCEPT ![c] = [pc |-> "closed", of |-> r]]
      BY <1>6, Zenon DEF Close
    <3> QED
      BY <3>1 DEF TypeOK
  <2>4. UNCHANGED <<opts, started, done, pc, result, workVars, guardVars, ticks>>
    BY <1>6, Zenon DEF Close
  <2> QED
    BY <2>1, <2>2, <2>3, <2>4 DEF TypeOK, workVars, guardVars
<1>7. ASSUME NEW c \in Closers, CloseReturns(c) \/ CloseGivesUp(c) PROVE TypeOK'
  <2>1. UNCHANGED <<objectVars, runVars, workVars, guardVars, ticks>>
    BY <1>7, Zenon DEF CloseReturns, CloseGivesUp
  <2>2. \/ closer' = [closer EXCEPT ![c].pc = "closed"]
        \/ closer' = [closer EXCEPT ![c].pc = "gaveUp"]
    BY <1>7, Zenon DEF CloseReturns, CloseGivesUp
  <2>3. closer' \in [Closers -> [pc: {"idle", "waiting", "closed", "gaveUp"},
                                 of: Runners \union {Nobody}]]
    <3>1. closer \in [Closers -> [pc: {"idle", "waiting", "closed", "gaveUp"},
                                  of: Runners \union {Nobody}]]
      BY DEF TypeOK
    <3>2. CASE closer' = [closer EXCEPT ![c].pc = "closed"]
      BY <3>1, <3>2
    <3>3. CASE closer' = [closer EXCEPT ![c].pc = "gaveUp"]
      BY <3>1, <3>3
    <3> QED
      BY <2>2, <3>2, <3>3
  <2> QED
    BY <2>1, <2>3 DEF TypeOK, objectVars, runVars, workVars, guardVars
<1>8. CASE OtherProcess
  BY <1>8 DEF OtherProcess, TypeOK, objectVars, runVars, workVars
<1>9. CASE UNCHANGED vars
  BY <1>9 DEF vars, TypeOK, objectVars, runVars, workVars, guardVars
<1> QED
  BY <1>1, <1>2, <1>3, <1>4, <1>5, <1>6, <1>7, <1>8, <1>9 DEF Next

(***************************************************************************)
(* The parts of the invariant                                               *)
(***************************************************************************)

\* Goroutines, contexts and closers never touch what Run's own stage rests on.
LEMMA MainUntouched ==
    ASSUME \/ \E r \in Runners : HeartbeatEnds(r) \/ ParentDone(r)
           \/ \E r \in Runners, g \in Groups :
                 WorkerStep(r, g) \/ SelectDone(r, g) \/ SelectTick(r, g)
           \/ \E c \in Closers, r \in Runners : Close(c, r)
           \/ \E c \in Closers : CloseReturns(c) \/ CloseGivesUp(c)
    PROVE  UNCHANGED <<opts, started, done, pc, result, up, active, fileLock>>
  BY Zenon DEF HeartbeatEnds, ParentDone, WorkerStep, CycleEnds, ReportFailure,
     CancelOthers, SelectDone, SelectTick, Close, CloseReturns, CloseGivesUp,
     objectVars, runVars, workVars, guardVars

LEMMA GuardsStep == TypeOK /\ GuardsHeld /\ [Next]_vars => GuardsHeld'
<1> SUFFICES ASSUME TypeOK, GuardsHeld, [Next]_vars PROVE GuardsHeld'
  OBVIOUS
<1>0. /\ pc \in [Runners -> Stages]
      /\ active \in Runners \union {Nobody}
      /\ Nobody \notin Runners
      /\ Other \notin Runners
  BY RunnerAssumption DEF TypeOK
<1> USE <1>0 DEF GuardsHeld, Goto, HoldingActive, HoldingFile, Working, objectVars,
                 guardVars
<1>1. CASE UNCHANGED <<opts, pc, active, fileLock>>
  BY <1>1
<1>2. ASSUME NEW q \in Runners, Run(q) PROVE GuardsHeld'
  BY <1>2 DEF Run
<1>3. ASSUME NEW q \in Runners, TakeActive(q) PROVE GuardsHeld'
  BY <1>3 DEF TakeActive
<1>4. ASSUME NEW q \in Runners, TakeFileLock(q) PROVE GuardsHeld'
  BY <1>4 DEF TakeFileLock, Acquire
<1>5. ASSUME NEW q \in Runners, Verify(q) PROVE GuardsHeld'
  BY <1>5 DEF Verify
<1>6. ASSUME NEW q \in Runners, StartService(q) PROVE GuardsHeld'
  BY <1>6 DEF StartService
<1>7. ASSUME NEW q \in Runners, StartHeartbeat(q) PROVE GuardsHeld'
  <2>1. pc[q] = "services" /\ (Goto(q, "once") \/ Goto(q, "launch"))
    BY <1>7, Zenon DEF StartHeartbeat
  <2>2. UNCHANGED <<opts, active, fileLock>>
    BY <1>7, Zenon DEF StartHeartbeat
  <2> QED
    BY <2>1, <2>2
<1>8. ASSUME NEW q \in Runners, NEW outcome \in Outcome, OnceEnds(q, outcome)
      PROVE  GuardsHeld'
  BY <1>8 DEF OnceEnds
<1>9. ASSUME NEW q \in Runners, LaunchWorkers(q) PROVE GuardsHeld'
  BY <1>9 DEF LaunchWorkers
<1>10. ASSUME NEW q \in Runners, JoinWorkers(q) PROVE GuardsHeld'
  BY <1>10 DEF JoinWorkers
<1>11. ASSUME NEW q \in Runners, CancelHeartbeat(q) PROVE GuardsHeld'
  BY <1>11 DEF CancelHeartbeat
<1>12. ASSUME NEW q \in Runners, JoinHeartbeat(q) PROVE GuardsHeld'
  BY <1>12 DEF JoinHeartbeat
<1>13. ASSUME NEW q \in Runners, CancelServices(q) PROVE GuardsHeld'
  BY <1>13 DEF CancelServices
<1>14. ASSUME NEW q \in Runners, StopService(q) PROVE GuardsHeld'
  BY <1>14 DEF StopService
<1>15. ASSUME NEW q \in Runners, ReleaseFileLock(q) PROVE GuardsHeld'
  BY <1>15 DEF ReleaseFileLock, Release
<1>16. ASSUME NEW q \in Runners, ReleaseActive(q) PROVE GuardsHeld'
  BY <1>16 DEF ReleaseActive
<1>17. ASSUME NEW q \in Runners, Finish(q) PROVE GuardsHeld'
  BY <1>17 DEF Finish
<1>18. CASE OtherProcess
  BY <1>18 DEF OtherProcess, runVars
<1>19. CASE UNCHANGED vars
  BY <1>19 DEF vars, runVars
<1> QED
  BY <1>1, <1>2, <1>3, <1>4, <1>5, <1>6, <1>7, <1>8, <1>9, <1>10, <1>11, <1>12,
     <1>13, <1>14, <1>15, <1>16, <1>17, <1>18, <1>19, MainUntouched, Zenon
  DEF Next, MainStep

\* A step that changes nothing of a runner's stage keeps its shape.
LEMMA StageUntouched ==
    ASSUME NEW r \in Runners, StageShape,
           started'[r] = started[r], closed'[r] = closed[r], done'[r] = done[r],
           pc'[r] = pc[r], ctx'[r] = ctx[r], up'[r] = up[r],
           heartbeat'[r] = heartbeat[r], worker'[r] = worker[r]
    PROVE  StageShape!(r)'
<1>1. StageShape!(r)
  BY Zenon DEF StageShape
<1> QED
  BY <1>1, Zenon

LEMMA StageMain ==
    ASSUME TypeOK, StageShape, NEW q \in Runners, MainStep(q) PROVE StageShape'
<1> SUFFICES ASSUME NEW r \in Runners PROVE StageShape!(r)'
  BY Zenon DEF StageShape
<1>0. /\ pc \in [Runners -> Stages]
      /\ ctx \in [Runners -> {"none", "open", "inside", "outside"}]
      /\ up \in [Runners -> 0 .. NServices]
      /\ worker \in [Runners -> [Groups -> WorkerStates]]
      /\ NServices \in Nat
  BY RunnerAssumption DEF TypeOK
<1>s. StageShape!(r)
  BY Zenon DEF StageShape
<1>t. StageShape!(q)
  BY Zenon DEF StageShape
<1> USE <1>0, <1>s, <1>t DEF Working, Goto, objectVars, runVars, workVars
<1>1. CASE TakeActive(q)
  BY <1>1 DEF TakeActive
<1>2. CASE TakeFileLock(q)
  BY <1>2 DEF TakeFileLock, Acquire
<1>3. CASE Verify(q)
  BY <1>3 DEF Verify
<1>4. CASE StartService(q)
  BY <1>4 DEF StartService
<1>5. CASE StartHeartbeat(q)
  BY <1>5 DEF StartHeartbeat
<1>6. CASE LaunchWorkers(q)
  BY <1>6 DEF LaunchWorkers
<1>7. ASSUME NEW outcome \in Outcome, OnceEnds(q, outcome) PROVE StageShape!(r)'
  BY <1>7 DEF OnceEnds
<1>8. CASE JoinWorkers(q)
  BY <1>8 DEF JoinWorkers
<1>9. CASE CancelHeartbeat(q)
  BY <1>9 DEF CancelHeartbeat, CancelBy
<1>10. CASE JoinHeartbeat(q)
  BY <1>10 DEF JoinHeartbeat
<1>11. CASE CancelServices(q)
  BY <1>11 DEF CancelServices, CancelBy
<1>12. CASE StopService(q)
  BY <1>12 DEF StopService
<1>13. CASE ReleaseFileLock(q)
  BY <1>13 DEF ReleaseFileLock, Release
<1>14. CASE ReleaseActive(q)
  BY <1>14 DEF ReleaseActive
<1>15. CASE Finish(q)
  <2>1. pc[q] = "final" /\ pc' = [pc EXCEPT ![q] = "returned"]
    BY <1>15, Zenon DEF Finish, Goto
  <2>2. CancelBy(q, "inside") /\ UNCHANGED <<started, up, heartbeat, worker>>
    BY <1>15, Zenon DEF Finish, workVars
  <2>3. CASE r = q
    <3>1. done'[r] /\ closed'[r]
      BY <1>15, <2>3, Zenon DEF Finish, TypeOK
    <3>2. pc'[r] = "returned" /\ ctx'[r] # "none"
      BY <2>1, <2>2, <2>3 DEF CancelBy
    <3>3. /\ started'[r] = started[r] /\ up'[r] = up[r]
          /\ heartbeat'[r] = heartbeat[r] /\ worker'[r] = worker[r]
      BY <2>2, Zenon
    <3> QED
      BY <2>1, <2>3, <3>1, <3>2, <3>3
  <2>4. CASE r # q
    <3>1. done'[r] = done[r] /\ closed'[r] = closed[r]
      BY <1>15, <2>4, Zenon DEF Finish, TypeOK
    <3>2. pc'[r] = pc[r] /\ ctx'[r] = ctx[r]
      BY <2>1, <2>2, <2>4 DEF CancelBy
    <3> QED
      BY <2>2, <3>1, <3>2, StageUntouched, Zenon
  <2> QED
    BY <2>3, <2>4
<1> QED
  BY <1>1, <1>2, <1>3, <1>4, <1>5, <1>6, <1>7, <1>8, <1>9, <1>10, <1>11, <1>12,
     <1>13, <1>14, <1>15 DEF MainStep

LEMMA StageStep == TypeOK /\ StageShape /\ [Next]_vars => StageShape'
<1> SUFFICES ASSUME TypeOK, StageShape, [Next]_vars PROVE StageShape'
  OBVIOUS
<1>0. /\ pc \in [Runners -> Stages]
      /\ ctx \in [Runners -> {"none", "open", "inside", "outside"}]
      /\ worker \in [Runners -> [Groups -> WorkerStates]]
  BY DEF TypeOK
<1>1. ASSUME NEW q \in Runners, MainStep(q) PROVE StageShape'
  BY <1>1, StageMain
<1>2. ASSUME NEW q \in Runners, Run(q) PROVE StageShape'
  <2> SUFFICES ASSUME NEW r \in Runners PROVE StageShape!(r)'
    BY Zenon DEF StageShape
  <2>1. StageShape!(r)
    BY Zenon DEF StageShape
  <2>2. UNCHANGED <<closed, done, up, heartbeat, worker>> /\ pc[q] = "new"
    BY <1>2, Zenon DEF Run, workVars
  <2>3. pc'[q] = "guard" /\ ctx'[q] = "open"
    BY <1>0, <1>2 DEF Run, Goto
  <2>4. started'[q]
    BY <1>2, Zenon DEF Run, TypeOK
  <2>5. CASE r = q
    BY <2>1, <2>2, <2>3, <2>4, <2>5 DEF Working
  <2>6. CASE r # q
    <3>1. pc'[r] = pc[r] /\ ctx'[r] = ctx[r]
      BY <1>0, <1>2, <2>6 DEF Run, Goto
    <3>2. started'[r] = started[r]
      BY <1>2, <2>6, Zenon DEF Run, TypeOK
    <3> QED
      BY <2>2, <3>1, <3>2, StageUntouched, Zenon
  <2> QED
    BY <2>5, <2>6
<1>3. ASSUME NEW q \in Runners, HeartbeatEnds(q) PROVE StageShape'
  <2> SUFFICES ASSUME NEW r \in Runners PROVE StageShape!(r)'
    BY Zenon DEF StageShape
  <2>1. StageShape!(r)
    BY Zenon DEF StageShape
  <2>2. UNCHANGED <<started, closed, done, pc, ctx, up, worker>>
    BY <1>3, Zenon DEF HeartbeatEnds, objectVars, runVars
  <2>3. heartbeat'[r] => heartbeat[r]
    BY <1>3, Zenon DEF HeartbeatEnds, TypeOK
  <2> QED
    BY <2>1, <2>2, <2>3, Zenon
<1>4. ASSUME NEW q \in Runners, ParentDone(q) PROVE StageShape'
  BY <1>0, <1>4 DEF ParentDone, CancelBy, StageShape, objectVars, workVars
<1>5. ASSUME NEW q \in Runners, NEW h \in Groups,
             WorkerStep(q, h) \/ SelectDone(q, h) \/ SelectTick(q, h)
      PROVE  StageShape'
  <2> SUFFICES ASSUME NEW r \in Runners PROVE StageShape!(r)'
    BY Zenon DEF StageShape
  <2>1. StageShape!(r) /\ StageShape!(q)
    BY Zenon DEF StageShape
  <2>2. UNCHANGED <<started, closed, done, pc, up, heartbeat>>
    BY <1>5, Zenon DEF WorkerStep, CycleEnds, ReportFailure, CancelOthers, SelectDone,
       SelectTick, objectVars, runVars
  <2>3. ctx'[r] = "none" <=> ctx[r] = "none"
    BY <1>0, <1>5 DEF WorkerStep, CycleEnds, ReportFailure, CancelOthers, SelectDone,
       SelectTick, runVars, CancelBy
  <2>4. PICK s \in WorkerStates \ {"off"} :
           /\ worker' = [worker EXCEPT ![q][h] = s]
           /\ worker[q][h] \notin {"off", "done"}
    BY <1>5 DEF WorkerStep, CycleEnds, ReportFailure, CancelOthers, SelectDone,
       SelectTick, Step, WorkerStates
  <2>5. pc[q] = "wait"
    BY <2>1, <2>4
  <2>6. CASE r = q
    <3>1. \A g \in Groups : worker'[r][g] # "off"
      BY <1>0, <2>1, <2>4, <2>5, <2>6
    <3> QED
      BY <2>1, <2>2, <2>3, <2>5, <2>6, <3>1
  <2>7. CASE r # q
    <3>1. worker'[r] = worker[r]
      BY <1>0, <2>4, <2>7
    <3> QED
      BY <2>1, <2>2, <2>3, <3>1, Zenon
  <2> QED
    BY <2>6, <2>7
<1>6. ASSUME NEW c \in Closers, NEW q \in Runners, Close(c, q) PROVE StageShape'
  <2> SUFFICES ASSUME NEW r \in Runners PROVE StageShape!(r)'
    BY Zenon DEF StageShape
  <2>1. StageShape!(r)
    BY Zenon DEF StageShape
  <2>2. UNCHANGED <<started, done, pc, up, heartbeat, worker>>
    BY <1>6, Zenon DEF Close, workVars
  <2>3. ctx'[r] = "none" <=> ctx[r] = "none"
    BY <1>0, <1>6 DEF Close, CancelBy
  <2>4. closed[r] => closed'[r]
    BY <1>6, Zenon DEF Close, TypeOK
  <2> QED
    BY <2>1, <2>2, <2>3, <2>4, Zenon
<1>7. CASE UNCHANGED <<started, closed, done, pc, ctx, up, heartbeat, worker>>
  <2> SUFFICES ASSUME NEW r \in Runners PROVE StageShape!(r)'
    BY Zenon DEF StageShape
  <2> QED
    BY <1>7, StageUntouched, Zenon
<1>8. ASSUME NEW c \in Closers, CloseReturns(c) \/ CloseGivesUp(c) PROVE StageShape'
  BY <1>7, <1>8 DEF CloseReturns, CloseGivesUp, objectVars, runVars, workVars
<1>9. CASE OtherProcess
  BY <1>7, <1>9, Zenon DEF OtherProcess, objectVars, runVars, workVars
<1>10. CASE UNCHANGED vars
  BY <1>7, <1>10, Zenon DEF vars, objectVars, runVars, workVars
<1> QED
  BY <1>1, <1>2, <1>3, <1>4, <1>5, <1>6, <1>8, <1>9, <1>10, Zenon DEF Next

\* What is over, or closed before it began, stays so.
Over(r) == closed[r] /\ (done[r] \/ pc[r] = "new")
OverNext(r) == closed'[r] /\ (done'[r] \/ pc'[r] = "new")

LEMMA OverStays ==
    ASSUME TypeOK, StageShape, [Next]_vars, NEW r \in Runners, Over(r)
    PROVE  OverNext(r)
<1>0. StageShape!(r) /\ pc \in [Runners -> Stages]
  BY Zenon DEF StageShape, TypeOK
<1>1. ASSUME NEW q \in Runners, Run(q) PROVE OverNext(r)
  <2>1. ~closed[q] /\ UNCHANGED <<closed, done>>
    BY <1>1, Zenon DEF Run
  <2>2. pc' = [pc EXCEPT ![q] = "guard"]
    BY <1>1, Zenon DEF Run, Goto
  <2>3. q # r
    BY <2>1, Zenon DEF Over, OverNext
  <2>4. pc'[r] = pc[r]
    BY <1>0, <2>2, <2>3
  <2> QED
    BY <2>1, <2>4, Zenon DEF Over, OverNext
<1>2. ASSUME NEW q \in Runners, MainStep(q) PROVE OverNext(r)
  <2>1. CASE Finish(q)
    <3>1. done[r] => done'[r]
      BY <2>1, Zenon DEF Finish, TypeOK
    <3>2. closed[r] => closed'[r]
      BY <2>1, Zenon DEF Finish, TypeOK
    <3>3. pc[r] = "new" => pc'[r] = "new"
      BY <1>0, <2>1 DEF Finish, Goto
    <3> QED
      BY <3>1, <3>2, <3>3, Zenon DEF Over, OverNext
  <2>2. CASE ~Finish(q)
    <3>1. UNCHANGED <<closed, done>>
      BY <1>2, <2>2, Zenon DEF MainStep, TakeActive, TakeFileLock, Acquire, Verify, StartService,
         StartHeartbeat, LaunchWorkers, OnceEnds, JoinWorkers, CancelHeartbeat,
         JoinHeartbeat, CancelServices, StopService, ReleaseFileLock, Release, ReleaseActive,
         objectVars
    <3>2. /\ pc[q] # "new"
          /\ pc' = pc \/ \E s \in Stages : pc' = [pc EXCEPT ![q] = s]
      BY <1>2, <2>2 DEF MainStep, TakeActive, TakeFileLock, Acquire, Verify, StartService,
         StartHeartbeat, LaunchWorkers, OnceEnds, JoinWorkers, CancelHeartbeat,
         JoinHeartbeat, CancelServices, StopService, ReleaseFileLock, Release, ReleaseActive,
         Goto, Stages
    <3>3. pc[r] = "new" => pc'[r] = "new"
      BY <1>0, <3>2
    <3> QED
      BY <3>1, <3>3, Zenon DEF Over, OverNext
  <2> QED
    BY <2>1, <2>2
<1>3. ASSUME NEW c \in Closers, NEW q \in Runners, Close(c, q) PROVE OverNext(r)
  <2>1. closed[r] => closed'[r]
    BY <1>3, Zenon DEF Close, TypeOK
  <2>2. UNCHANGED <<done, pc>>
    BY <1>3, Zenon DEF Close
  <2> QED
    BY <2>1, <2>2, Zenon DEF Over, OverNext
<1>4. CASE UNCHANGED <<closed, done, pc>>
  BY <1>4, Zenon DEF Over, OverNext
<1>5. ASSUME NEW q \in Runners, HeartbeatEnds(q) \/ ParentDone(q) PROVE OverNext(r)
  BY <1>4, <1>5, Zenon DEF HeartbeatEnds, ParentDone, objectVars, runVars
<1>6. ASSUME NEW q \in Runners, NEW h \in Groups,
             WorkerStep(q, h) \/ SelectDone(q, h) \/ SelectTick(q, h)
      PROVE  OverNext(r)
  BY <1>4, <1>6, Zenon DEF WorkerStep, CycleEnds, ReportFailure, CancelOthers, SelectDone,
     SelectTick, objectVars, runVars
<1>7. ASSUME NEW c \in Closers, CloseReturns(c) \/ CloseGivesUp(c) PROVE OverNext(r)
  BY <1>4, <1>7, Zenon DEF CloseReturns, CloseGivesUp, objectVars, runVars
<1>8. CASE OtherProcess \/ UNCHANGED vars
  BY <1>4, <1>8, Zenon DEF OtherProcess, vars, objectVars, runVars
<1> QED
  BY <1>1, <1>2, <1>3, <1>5, <1>6, <1>7, <1>8, Zenon DEF Next

LEMMA ClosersStep == TypeOK /\ StageShape /\ ClosersShape /\ [Next]_vars => ClosersShape'
<1> SUFFICES ASSUME TypeOK, StageShape, ClosersShape, [Next]_vars,
                    NEW d \in Closers
             PROVE  /\ closer'[d].pc # "idle" => closer'[d].of \in Runners
                    /\ closer'[d].pc = "closed" => OverNext(closer'[d].of)
  BY Zenon DEF ClosersShape, Over, OverNext
<1>0. closer \in [Closers -> [pc: {"idle", "waiting", "closed", "gaveUp"},
                              of: Runners \union {Nobody}]]
  BY DEF TypeOK
<1>1. /\ closer[d].pc # "idle" => closer[d].of \in Runners
      /\ closer[d].pc = "closed" => Over(closer[d].of)
  BY Zenon DEF ClosersShape, Over, OverNext
<1>2. CASE closer'[d] = closer[d]
  <2>1. closer[d].pc = "closed" => OverNext(closer[d].of)
    BY <1>1, OverStays
  <2> QED
    BY <1>1, <1>2, <2>1, Zenon DEF Over, OverNext
<1>3. ASSUME NEW q \in Runners, Close(d, q)
      PROVE  /\ closer'[d].pc # "idle" => closer'[d].of \in Runners
             /\ closer'[d].pc = "closed" => OverNext(closer'[d].of)
  <2>1. CASE started[q]
    <3>1. closer' = [closer EXCEPT ![d] = [pc |-> "waiting", of |-> q]]
      BY <1>3, <2>1, Zenon DEF Close
    <3> QED
      BY <1>0, <3>1
  <2>2. CASE ~started[q]
    <3>1. closer' = [closer EXCEPT ![d] = [pc |-> "closed", of |-> q]]
      BY <1>3, <2>2, Zenon DEF Close
    <3>2. closer'[d].of = q
      BY <1>0, <3>1
    <3>3. pc'[q] = "new"
      <4>1. pc[q] = "new"
        BY <2>2, Zenon DEF StageShape
      <4> QED
        BY <1>3, <4>1, Zenon DEF Close
    <3>4. closed'[q]
      BY <1>3, Zenon DEF Close, TypeOK
    <3> QED
      BY <3>2, <3>3, <3>4, Zenon DEF OverNext
  <2> QED
    BY <2>1, <2>2
<1>4. CASE CloseReturns(d)
  <2>1. closer[d].pc = "waiting" /\ closer' = [closer EXCEPT ![d].pc = "closed"]
    BY <1>4, Zenon DEF CloseReturns
  <2>2. closer'[d].of = closer[d].of /\ closer[d].of \in Runners
    BY <1>0, <1>1, <2>1
  <2>3. done[closer[d].of] /\ UNCHANGED <<closed, done>>
    BY <1>4, Zenon DEF CloseReturns, objectVars
  <2>4. OverNext(closer[d].of)
    BY <2>2, <2>3, Zenon DEF OverNext, StageShape
  <2> QED
    BY <2>2, <2>4, Zenon DEF Over, OverNext
<1>5. CASE CloseGivesUp(d)
  <2>1. closer' = [closer EXCEPT ![d].pc = "gaveUp"] /\ closer[d].pc = "waiting"
    BY <1>5, Zenon DEF CloseGivesUp
  <2> QED
    BY <1>0, <1>1, <2>1
<1>6. ASSUME NEW c \in Closers \ {d},
             \/ \E q \in Runners : Close(c, q)
             \/ CloseReturns(c)
             \/ CloseGivesUp(c)
      PROVE  closer'[d] = closer[d]
  BY <1>0, <1>6 DEF Close, CloseReturns, CloseGivesUp
<1>7. ASSUME \/ \E r \in Runners : Run(r) \/ MainStep(r) \/ HeartbeatEnds(r) \/ ParentDone(r)
             \/ \E r \in Runners, g \in Groups :
                   WorkerStep(r, g) \/ SelectDone(r, g) \/ SelectTick(r, g)
             \/ OtherProcess
             \/ UNCHANGED vars
      PROVE  UNCHANGED closer
  BY <1>7, ZenonT(60) DEF Run, MainStep, TakeActive, TakeFileLock, Acquire, Verify, StartService,
     StartHeartbeat, LaunchWorkers, OnceEnds, JoinWorkers, CancelHeartbeat,
     JoinHeartbeat, CancelServices, StopService, ReleaseFileLock, Release, ReleaseActive, Finish,
     HeartbeatEnds, ParentDone, WorkerStep, CycleEnds, ReportFailure, CancelOthers,
     SelectDone, SelectTick, OtherProcess, vars
<1> QED
  <2>1. CASE \E c \in Closers : \/ \E q \in Runners : Close(c, q)
                                \/ CloseReturns(c)
                                \/ CloseGivesUp(c)
    <3>1. PICK c \in Closers : \/ \E q \in Runners : Close(c, q)
                               \/ CloseReturns(c)
                               \/ CloseGivesUp(c)
      BY <2>1
    <3>2. CASE c = d
      BY <1>3, <1>4, <1>5, <3>1, <3>2, Zenon
    <3>3. CASE c # d
      <4>1. c \in Closers \ {d}
        BY <3>3
      <4> QED
        BY <1>2, <1>6, <3>1, <4>1, Zenon
    <3> QED
      BY <3>2, <3>3
  <2> QED
    BY <1>2, <1>7, <2>1, Zenon DEF Next

LEMMA FailureMain ==
    ASSUME TypeOK, StageShape, FailureShape, FirstFailureIsCause,
           NEW q \in Runners, MainStep(q)
    PROVE  FailureShape' /\ FirstFailureIsCause'
<1> SUFFICES ASSUME NEW r \in Runners
             PROVE  FailureShape!(r)' /\ FirstFailureIsCause!(r)'
  BY Zenon DEF FailureShape, FirstFailureIsCause
<1>0. /\ pc \in [Runners -> Stages]
      /\ ctx \in [Runners -> {"none", "open", "inside", "outside"}]
      /\ result \in [Runners -> Result]
      /\ worker \in [Runners -> [Groups -> WorkerStates]]
  BY DEF TypeOK
<1>s. /\ StageShape!(q)
      /\ FailureShape!(r) /\ FailureShape!(q)
      /\ FirstFailureIsCause!(r)
  BY Zenon DEF StageShape, FailureShape, FirstFailureIsCause
<1> USE <1>0, <1>s DEF Leaving, Goto, Return, Canceled, CancelBy, objectVars, workVars
<1>1. CASE TakeActive(q)
  BY <1>1 DEF TakeActive
<1>2. CASE TakeFileLock(q)
  BY <1>2 DEF TakeFileLock, Acquire
<1>3. CASE Verify(q)
  BY <1>3 DEF Verify
<1>4. CASE StartService(q)
  BY <1>4 DEF StartService
<1>5. CASE StartHeartbeat(q)
  BY <1>5 DEF StartHeartbeat
<1>6. CASE LaunchWorkers(q)
  BY <1>6 DEF LaunchWorkers
<1>7. ASSUME NEW outcome \in Outcome, OnceEnds(q, outcome)
      PROVE  FailureShape!(r)' /\ FirstFailureIsCause!(r)'
  BY <1>7 DEF OnceEnds, MayEnd
<1>8. CASE JoinWorkers(q)
  BY <1>8 DEF JoinWorkers
<1>9. CASE CancelHeartbeat(q)
  BY <1>9 DEF CancelHeartbeat
<1>10. CASE JoinHeartbeat(q)
  BY <1>10 DEF JoinHeartbeat
<1>11. CASE CancelServices(q)
  BY <1>11 DEF CancelServices
<1>12. CASE StopService(q)
  BY <1>12 DEF StopService
<1>13. CASE ReleaseFileLock(q)
  BY <1>13 DEF ReleaseFileLock, Release
<1>14. CASE ReleaseActive(q)
  BY <1>14 DEF ReleaseActive
<1>15. CASE Finish(q)
  BY <1>15 DEF Finish
<1> QED
  BY <1>1, <1>2, <1>3, <1>4, <1>5, <1>6, <1>7, <1>8, <1>9, <1>10, <1>11, <1>12,
     <1>13, <1>14, <1>15 DEF MainStep

LEMMA FailureWorker ==
    ASSUME TypeOK, StageShape, FailureShape, FirstFailureIsCause,
           NEW q \in Runners, NEW h \in Groups,
           WorkerStep(q, h) \/ SelectDone(q, h) \/ SelectTick(q, h)
    PROVE  FailureShape' /\ FirstFailureIsCause'
<1> SUFFICES ASSUME NEW r \in Runners
             PROVE  FailureShape!(r)' /\ FirstFailureIsCause!(r)'
  BY Zenon DEF FailureShape, FirstFailureIsCause
<1>0. /\ ctx \in [Runners -> {"none", "open", "inside", "outside"}]
      /\ worker \in [Runners -> [Groups -> WorkerStates]]
      /\ err \in [Runners -> [Groups -> Outcome]]
      /\ failures \in [Runners -> Outcome]
  BY DEF TypeOK
<1>s. /\ StageShape!(q)
      /\ FailureShape!(r) /\ FailureShape!(q)
      /\ FirstFailureIsCause!(r)
  BY Zenon DEF StageShape, FailureShape, FirstFailureIsCause
<1> USE <1>0, <1>s DEF Leaving, Step, Canceled, CancelBy, objectVars, runVars
<1>1. ASSUME NEW outcome \in Outcome, CycleEnds(q, h, outcome)
      PROVE  FailureShape!(r)' /\ FirstFailureIsCause!(r)'
  BY <1>1 DEF CycleEnds, MayEnd
<1>2. CASE ReportFailure(q, h)
  BY <1>2 DEF ReportFailure
<1>3. CASE CancelOthers(q, h)
  BY <1>3 DEF CancelOthers
<1>4. CASE SelectDone(q, h)
  BY <1>4 DEF SelectDone
<1>5. CASE SelectTick(q, h)
  BY <1>5 DEF SelectTick
<1> QED
  BY <1>1, <1>2, <1>3, <1>4, <1>5 DEF WorkerStep

LEMMA FailureStep ==
    TypeOK /\ StageShape /\ FailureShape /\ FirstFailureIsCause /\ [Next]_vars
        => FailureShape' /\ FirstFailureIsCause'
<1> SUFFICES ASSUME TypeOK, StageShape, FailureShape, FirstFailureIsCause, [Next]_vars
             PROVE  FailureShape' /\ FirstFailureIsCause'
  OBVIOUS
<1>0. /\ pc \in [Runners -> Stages]
      /\ ctx \in [Runners -> {"none", "open", "inside", "outside"}]
  BY DEF TypeOK
<1> USE <1>0 DEF FailureShape, FirstFailureIsCause, Leaving, Goto, Canceled, CancelBy,
                 objectVars, runVars, workVars
<1>1. ASSUME NEW q \in Runners, Run(q) PROVE FailureShape' /\ FirstFailureIsCause'
  <2>1. result[q] # "canceled" /\ failures[q] # "canceled"
    <3>1. pc[q] = "new"
      BY <1>1, Zenon DEF Run
    <3>2. ctx[q] = "none"
      BY <3>1, Zenon DEF StageShape
    <3> QED
      BY <3>2
  <2>2. /\ pc[q] = "new" /\ pc' = [pc EXCEPT ![q] = "guard"]
        /\ ctx' = [ctx EXCEPT ![q] = "open"]
        /\ UNCHANGED <<opts, result, worker, err, failures>>
    BY <1>1, Zenon DEF Run, Goto, workVars
  <2>3. pc[q] # "wait" /\ \A g \in Groups : worker[q][g] \notin {"report", "cancel"}
    <3>1. StageShape!(q)
      BY Zenon DEF StageShape
    <3> QED
      BY <2>2, <3>1
  <2> QED
    BY <2>1, <2>2, <2>3
<1>2. ASSUME NEW q \in Runners, HeartbeatEnds(q)
      PROVE  FailureShape' /\ FirstFailureIsCause'
  BY <1>2 DEF HeartbeatEnds
<1>3. ASSUME NEW q \in Runners, ParentDone(q) PROVE FailureShape' /\ FirstFailureIsCause'
  BY <1>3 DEF ParentDone
<1>4. ASSUME NEW c \in Closers, NEW q \in Runners, Close(c, q)
      PROVE  FailureShape' /\ FirstFailureIsCause'
  BY <1>4 DEF Close
<1>5. ASSUME NEW c \in Closers, CloseReturns(c) \/ CloseGivesUp(c)
      PROVE  FailureShape' /\ FirstFailureIsCause'
  BY <1>5 DEF CloseReturns, CloseGivesUp
<1>6. CASE OtherProcess \/ UNCHANGED vars
  BY <1>6 DEF OtherProcess, vars
<1> HIDE DEF FailureShape, FirstFailureIsCause
<1> QED
  BY <1>1, <1>2, <1>3, <1>4, <1>5, <1>6, FailureMain, FailureWorker, Zenon DEF Next

(***************************************************************************)
(* The theorems                                                            *)
(***************************************************************************)
\* The inductive invariant holds in every state Run, its goroutines and Close reach.
THEOREM Invariance == Spec => []IInv
<1>1. IInv /\ [Next]_vars => IInv'
  BY TypeStep, GuardsStep, StageStep, ClosersStep, FailureStep, Zenon DEF IInv
<1> QED
  BY InitInv, <1>1, PTL DEF Spec

\* Every variable of the runners always holds a value of its type: the count of
\* started services stays in range, the channel of failures holds an error.
THEOREM TypeCorrect == Spec => []TypeOK
<1>1. IInv => TypeOK
  BY Zenon DEF IInv
<1> QED
  BY <1>1, Invariance, PTL

\* For any number of runners, groups and services: whatever a Run has going happens
\* under the process's mutex and, when configured, under the lock file.
THEOREM WorkStaysGuarded == Spec => []WorkIsGuarded
<1>1. IInv => WorkIsGuarded
  <2> SUFFICES ASSUME IInv, NEW r \in Runners, Busy(r)
               PROVE  active = r /\ (opts[r].lockFile => fileLock = r)
    BY DEF WorkIsGuarded
  <2>1. StageShape!(r) /\ GuardsHeld!(r)
    BY Zenon DEF IInv, StageShape, GuardsHeld
  <2>2. pc[r] \in HoldingFile
    <3>1. up[r] > 0 => pc[r] \in HoldingFile
      BY <2>1 DEF HoldingFile, Working
    <3>2. heartbeat[r] => pc[r] \in HoldingFile
      BY <2>1, Zenon DEF HoldingFile
    <3>3. pc[r] \in {"once", "wait"} => pc[r] \in HoldingFile
      BY DEF HoldingFile, Working
    <3>4. (\E g \in Groups : worker[r][g] \notin {"off", "done"}) => pc[r] = "wait"
      BY <2>1, Zenon
    <3> QED
      BY <3>1, <3>2, <3>3, <3>4 DEF Busy
  <2> QED
    BY <2>1, <2>2, Zenon DEF HoldingActive
<1> QED
  BY <1>1, Invariance, PTL

\* The order of the deferred functions: while a cycle or the heartbeat runs, every
\* service is up.
THEOREM ServicesOutlive == Spec => []ServicesOutliveWork
<1>1. IInv => ServicesOutliveWork
  <2> SUFFICES ASSUME IInv, NEW r \in Runners,
                      heartbeat[r] \/ \E g \in Groups : worker[r][g] = "cycle"
               PROVE  up[r] = NServices
    BY Zenon DEF ServicesOutliveWork
  <2>1. StageShape!(r)
    BY Zenon DEF IInv, StageShape
  <2>2. CASE heartbeat[r]
    BY <2>1, <2>2, Zenon
  <2>3. CASE \E g \in Groups : worker[r][g] = "cycle"
    BY <2>1, <2>3 DEF Working
  <2> QED
    BY <2>2, <2>3
<1> QED
  BY <1>1, Invariance, PTL

\* A Close that returned nil found, or made, the runner idle for good: nothing of it
\* runs and it holds neither guard, whatever else Close or Run is called with.
THEOREM ClosedStaysIdle == Spec => []ClosedMeansIdle
<1>1. IInv => ClosedMeansIdle
  <2> SUFFICES ASSUME IInv, NEW c \in Closers, closer[c].pc = "closed"
               PROVE  LET r == closer[c].of
                      IN  ~Busy(r) /\ active # r /\ fileLock # r
    BY Zenon DEF ClosedMeansIdle
  <2> DEFINE r == closer[c].of
  <2>1. r \in Runners /\ (done[r] \/ pc[r] = "new")
    BY Zenon DEF IInv, ClosersShape
  <2>2. StageShape!(r) /\ GuardsHeld!(r) /\ up[r] \in 0 .. NServices /\ NServices \in Nat
    BY <2>1, RunnerAssumption DEF IInv, TypeOK, StageShape, GuardsHeld
  <2> HIDE DEF r
  <2>3. pc[r] \in {"new", "returned"}
    BY <2>1, <2>2, Zenon
  <2>4. active # r /\ fileLock # r
    BY <2>2, <2>3 DEF HoldingActive, HoldingFile, Working
  <2>5. ~(up[r] > 0) /\ pc[r] # "once"
    BY <2>2, <2>3 DEF Working
  <2>6. ~heartbeat[r]
    <3>1. pc[r] \notin Working
      BY <2>3 DEF Working
    <3> QED
      BY <2>2, <3>1, Zenon
  <2>7. \A g \in Groups : worker[r][g] \in {"off", "done"}
    BY <2>2, <2>3
  <2>8. ~Busy(r)
    BY <2>5, <2>6, <2>7, Zenon DEF Busy
  <2> QED
    BY <2>4, <2>8 DEF r
<1> QED
  BY <1>1, Invariance, PTL

\* Run blames the cancellation only when it came from outside, never because one of
\* its own groups cancelled the others.
THEOREM FirstFailure == Spec => []FirstFailureIsCause
<1>1. IInv => FirstFailureIsCause
  BY Zenon DEF IInv
<1> QED
  BY <1>1, Invariance, PTL

\* Under ReturnFailure a Run in Intervals mode that returns nil had no group whose
\* last cycle failed, whichever goroutine was scheduled when.
THEOREM FailureIsReturned == Spec => []FailureReturned
<1>1. IInv => FailureReturned
  <2> SUFFICES ASSUME IInv, NEW r \in Runners,
                      pc[r] = "returned" /\ opts[r].returnFailure,
                      ~opts[r].once /\ result[r] = "nil"
               PROVE  \A g \in Groups : err[r][g] = "nil"
    BY Zenon DEF FailureReturned
  <2>1. FailureShape!(r)
    BY Zenon DEF IInv, FailureShape
  <2> QED
    BY <2>1 DEF Leaving
<1> QED
  BY <1>1, Invariance, PTL

(***************************************************************************)
(* AgentSetup: what LoadConfig accepts makes a Runner                      *)
(***************************************************************************)

\* What the fields of the two files and the environment may hold.
IsConfig(c) ==
    /\ {c.id, c.type, c.endpoint, c.key, c.path, c.log, c.home} \subseteq STRING
    /\ {c.httpTimeout, c.retry, c.timeout, c.logMax} \subseteq Int

LEMMA ProductIsPositive ==
    ASSUME NEW a \in Nat \ {0}, NEW b \in Nat \ {0}
    PROVE  a * b \in Nat \ {0}
OBVIOUS

\* Seconds an int64 holds as nanoseconds do not wrap.
LEMMA SecondsHold ==
    ASSUME NEW n \in Nat \ {0}, n * Second < HalfDuration
    PROVE  Seconds(n) = n * Second /\ Seconds(n) \in Nat \ {0}
<1>1. HalfDuration \in Nat \ {0} /\ Second \in Nat \ {0}
  BY SetupAssumption
<1>2. n * Second \in Nat \ {0}
  BY <1>1, ProductIsPositive
<1> DEFINE x == n * Second
           y == x + HalfDuration
           m == 2 * HalfDuration
<1>3. x \in Nat \ {0} /\ x < HalfDuration
  BY <1>2
<1>4. Seconds(n) = (y % m) - HalfDuration
  BY Zenon DEF Seconds
<1> HIDE DEF x
<1>5. y \in 0 .. m - 1 /\ m \in Nat /\ m > 0
  BY <1>1, <1>3
<1> HIDE DEF y, m
<1>6. y % m = y
  BY <1>5, SMTT(30)
<1>7. Seconds(n) = x
  BY <1>1, <1>3, <1>4, <1>6 DEF y
<1>8. QED
  BY <1>3, <1>7 DEF x

\* Nobody gave two collectors one name.
LEMMA NamesDistinct ==
    ASSUME NEW names \in {RentalCollectors, vpsCollectors}, NEW i \in DOMAIN names, NEW j \in DOMAIN names,
           names[i] = names[j]
    PROVE  i = j /\ names[i] # Unset
<1>1. CASE names = RentalCollectors
  <2>1. i \in 1 .. 9 /\ j \in 1 .. 9
    BY <1>1 DEF RentalCollectors
  <2>2. i = j
    BY <1>1, <2>1 DEF RentalCollectors
  <2>3. names[i] \in {"host", "loadavg", "memory", "disk", "cron", "process", "cpu", "network", "apache_log"}
    BY <1>1, <2>1 DEF RentalCollectors
  <2>4. names[i] # Unset
    BY <2>3, Zenon DEF Unset
  <2>5. QED
    BY <2>2, <2>4, Zenon
<1>2. CASE names = vpsCollectors
  <2>1. i \in 1 .. 9 /\ j \in 1 .. 9
    BY <1>2 DEF vpsCollectors
  <2>2. i = j
    BY <1>2, <2>1 DEF vpsCollectors
  <2>3. names[i] \in {"system", "process", "cron", "services", "ssl", "ssh", "nginx", "http_outcome", "updates"}
    BY <1>2, <2>1 DEF vpsCollectors
  <2>4. names[i] # Unset
    BY <2>3, Zenon DEF Unset
  <2>5. QED
    BY <2>2, <2>4, Zenon
<1>3. QED
  BY <1>1, <1>2

LEMMA TimesHold == 10 * Second < HalfDuration /\ 30 * Second < HalfDuration /\ 300 * Second < HalfDuration
BY SetupAssumption

\* What LoadConfig makes of the times of the files.
LEMMA TimeIsHeld ==
    ASSUME NEW n \in Int, NEW default \in {10, 30}, n * Second < HalfDuration
    PROVE  Seconds(Positive(n, default)) \in Nat \ {0}
<1>1. CASE n <= 0
  BY <1>1, TimesHold, SecondsHold DEF Positive
<1>2. CASE n > 0
  BY <1>2, SecondsHold DEF Positive
<1>3. QED
  BY <1>1, <1>2

\* Whatever the files and the environment hold: the command's Runner is one that New
\* accepts, runs once under the lock file with failures returned, and has an end to
\* every wait (config.go, defaults.go, runner.go:110-194), if an int64 holds its times.
THEOREM CommandRuns ==
    ASSUME NEW c, IsConfig(c)
    PROVE  CommandIsRunnable(c)
<1> DEFINE v == LoadConfig(c)
           o == OptionsFromConfig(v)
           r == New(o)
<1> SUFFICES ASSUME v.ok, Plausible(c)
             PROVE  /\ r.ok /\ r.once /\ r.returnFailure /\ r.lockFile /\ ~r.heartbeat
                    /\ r.timeout > 0
                    /\ \A i \in DOMAIN r.targets : r.targets[i].timeout > 0 /\ r.targets[i].retry >= 0
                    /\ ~r.dryRun => c.key # Unset
  BY Zenon DEF CommandIsRunnable
<1>1. /\ ~DecodeFails(c) /\ v = Validate(c) /\ Validate(c).ok
  BY DEF LoadConfig, Refused
<1>2. /\ c.id # Unset /\ (c.endpoint # Unset => c.key # Unset)
      /\ v.id = c.id /\ v.endpoint = c.endpoint /\ v.log = c.log /\ v.home = c.home
      /\ v.httpTimeout = Positive(c.httpTimeout, 10) /\ v.timeout = Positive(c.timeout, 30)
      /\ v.retry = IF c.retry < 0 THEN 0 ELSE c.retry
  BY <1>1 DEF Validate, Refused
<1> HIDE DEF v
<1>3. Seconds(v.httpTimeout) \in Nat \ {0} /\ Seconds(v.timeout) \in Nat \ {0}
  <2>1. c.httpTimeout \in Int /\ c.timeout \in Int
    BY DEF IsConfig
  <2>2. c.httpTimeout * Second < HalfDuration /\ c.timeout * Second < HalfDuration
    BY DEF Plausible
  <2>3. QED
    BY <1>2, <2>1, <2>2, TimeIsHeld
<1>4. v.retry \in Nat
  BY <1>2 DEF IsConfig
<1>5. LockPath(v) # Unset
  <2>1. "log" # Unset /\ "home" # Unset /\ "config" # Unset
    BY Zenon DEF Unset
  <2>2. QED
    BY <2>1, Zenon DEF LockPath
<1>6. /\ o.id = v.id /\ o.mode = 0 /\ o.cancelPolicy = 0 /\ o.failurePolicy = 0 /\ o.encoding = 0
      /\ o.tasks = configTasks(v) /\ o.targets = <<TargetFromConfig(v)>> /\ o.services = <<>>
      /\ o.license = "none" /\ o.timeout = Seconds(v.timeout) /\ o.lock = LockPath(v)
      /\ o.dryRun = (v.endpoint = Unset)
  BY Zenon DEF OptionsFromConfig
<1> HIDE DEF o
<1>7. Distinct(o.tasks) /\ \A i \in DOMAIN o.tasks : o.tasks[i].name # Unset /\ o.tasks[i].collect
  <2>1. PICK names \in {RentalCollectors, vpsCollectors} :
          o.tasks = [i \in DOMAIN names |-> [name |-> names[i], collect |-> TRUE]]
    BY <1>6 DEF configTasks, DefaultCollectors
  <2>2. DOMAIN o.tasks = DOMAIN names /\ \A i \in DOMAIN names : o.tasks[i].name = names[i] /\ o.tasks[i].collect
    BY <2>1
  <2>3. Distinct(o.tasks)
    BY <2>2, NamesDistinct DEF Distinct
  <2>4. \A i \in DOMAIN names : names[i] # Unset
    BY NamesDistinct
  <2>5. QED
    BY <2>2, <2>3, <2>4, Zenon
<1>8. /\ DOMAIN o.targets = {1} /\ o.targets[1] = TargetFromConfig(v)
      /\ o.targets[1].name = "monitor" /\ o.targets[1].retry = v.retry
      /\ o.targets[1].timeout = Seconds(v.httpTimeout)
  <2>1. DOMAIN o.targets = {1} /\ o.targets[1] = TargetFromConfig(v)
    BY <1>6
  <2>2. QED
    BY <2>1 DEF TargetFromConfig
<1>9. Runnable(o)
  <2>1. o.id # Unset /\ o.mode <= 1 /\ o.cancelPolicy <= 2 /\ o.failurePolicy <= 1 /\ o.encoding <= 2
    BY <1>2, <1>6
  <2>2. Distinct(o.targets)
    BY <1>8 DEF Distinct
  <2>3. \A i \in DOMAIN o.targets :
           o.targets[i].name # Unset /\ o.targets[i].retry >= 0 /\ o.targets[i].timeout >= 0
    <3>1. "monitor" # Unset
      BY Zenon DEF Unset
    <3>2. QED
      BY <1>3, <1>4, <1>8, <3>1
  <2>4. o.targets # <<>>
    BY <1>6
  <2>5. (\A i \in DOMAIN o.services : o.services[i] # "nil") /\ o.license # "no verifier"
    BY <1>6
  <2>6. QED
    BY <1>7, <2>1, <2>2, <2>3, <2>4, <2>5, Zenon DEF Runnable
<1>10. /\ r.ok /\ r.once = (o.mode = 0) /\ r.returnFailure = (o.failurePolicy = 0) /\ r.lockFile = (o.lock # Unset)
       /\ r.heartbeat = (o.license = "heartbeat") /\ r.dryRun = o.dryRun /\ r.timeout = o.timeout
       /\ r.targets = [i \in DOMAIN o.targets |-> WithTimeout(o.targets[i])]
  BY <1>9, Zenon DEF New
<1> HIDE DEF r
<1>11. r.once /\ r.returnFailure /\ r.lockFile /\ ~r.heartbeat /\ r.timeout > 0
  <2>1. r.timeout > 0
    BY <1>3, <1>6, <1>10
  <2>2. o.license # "heartbeat"
    BY <1>6
  <2>3. QED
    BY <1>5, <1>6, <1>10, <2>1, <2>2, Zenon
<1>12. \A i \in DOMAIN r.targets : r.targets[i].timeout > 0 /\ r.targets[i].retry >= 0
  <2>1. DOMAIN r.targets = {1} /\ o.targets[1].timeout # 0 /\ r.targets[1] = WithTimeout(TargetFromConfig(v))
    BY <1>3, <1>8, <1>10
  <2>2. r.targets[1].timeout = Seconds(v.httpTimeout) /\ r.targets[1].retry = v.retry
    BY <1>3, <1>8, <2>1 DEF TargetFromConfig, WithTimeout
  <2>3. QED
    BY <1>3, <1>4, <1>8, <2>1, <2>2
<1>13. ~r.dryRun => c.key # Unset
  BY <1>2, <1>6, <1>10
<1>14. QED
  BY <1>10, <1>11, <1>12, <1>13

=============================================================================
