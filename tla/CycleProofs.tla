---------------------------- MODULE CycleProofs ----------------------------
(***************************************************************************)
(* Proofs about Cycle, for any number of workers, tasks and targets, any    *)
(* retry count and any set of options.  A step of one worker leaves the     *)
(* parts of the invariant that speak of another alone; its own parts have a *)
(* lemma for every step that a few facts do not settle.                     *)
(***************************************************************************)
EXTENDS Cycle, TLAPS

USE CycleAssumption

LEMMA InitInv == Init => IInv
<1> SUFFICES ASSUME Init PROVE IInv
  OBVIOUS
<1>1. NoCall \in Call
  BY DEF NoCall, Call
<1>2. NoReport \in [Tasks -> Entry]
  BY DEF NoReport, Entry
<1>3. TypeOK
  <2>1. hb \in Heartbeat
    BY DEF Init, Heartbeat, HeartbeatOff, None, Token
  <2>2. call \in [Workers -> [Targets -> Call]] /\ report \in [Workers -> [Tasks -> Entry]]
    BY <1>1, <1>2 DEF Init
  <2>3. ret \in [Workers -> Error] /\ pc \in [Workers -> Stages]
    BY DEF Init, Error, Stages
  <2>4. /\ next \in [Workers -> Nat \ {0}]
        /\ bearer \in [Workers -> Token]
        /\ good \in [Workers -> SUBSET Targets]
        /\ stored \in [Workers -> SUBSET Targets]
    BY DEF Init, None, Token
  <2>5. opts \in Options /\ phase \in {"down", "up"} /\ expired \in BOOLEAN
    BY Zenon DEF Init
  <2>6. /\ token \in Token /\ cache \in Token /\ tmp \in Token
        /\ epoch \in 1 .. MaxEpoch /\ faults \in 0 .. MaxFaults
        /\ restarts \in 0 .. MaxRestarts
    BY DEF Init, None, Token
  <2> QED
    BY <2>1, <2>2, <2>3, <2>4, <2>5, <2>6, Zenon DEF TypeOK
<1>4. \A w \in Workers : Reported(w) /\ Sent(w) /\ Judged(w)
  <2> SUFFICES ASSUME NEW w \in Workers PROVE Reported(w) /\ Sent(w) /\ Judged(w)
    OBVIOUS
  <2>1. pc[w] = "idle" /\ good[w] = {}
    BY DEF Init
  <2>2. \A t \in Targets : call[w][t] = NoCall
    BY DEF Init
  <2>3. Sent(w)
    BY <2>2 DEF Sent, NoCall
  <2> QED
    BY <2>1, <2>3 DEF Reported, Judged
<1>5. NilMeansDelivered
  BY DEF Init, NilMeansDelivered, Delivered
<1> QED
  BY <1>3, <1>4, <1>5 DEF IInv

(***************************************************************************)
(* Types                                                                   *)
(***************************************************************************)

\* The values a cycle begins with have their types.
LEMMA BlankTypes ==
    /\ [t \in Targets |-> NoCall] \in [Targets -> Call]
    /\ NoCall \in Call
    /\ NoReport \in [Tasks -> Entry]
<1>1. NoCall \in Call
  BY DEF NoCall, Call
<1> QED
  BY <1>1 DEF NoReport, Entry

\* At the end of the loop a cycle without any success has a failure to return.
LEMMA FailureAtTheEnd ==
    ASSUME TypeOK, NEW w \in Workers, Sent(w), Judged(w), CycleEnds(w)
    PROVE  /\ call[w][NTargets].last \in Error \ {"nil"} \/ good[w] # {}
           /\ ret' \in [Workers -> Error]
<1>1. NTargets \in Targets /\ call[w] \in [Targets -> Call] /\ next[w] \in Nat
  BY DEF TypeOK, Targets
<1>2. pc[w] = "judge" /\ NTargets < next[w] /\ call[w][NTargets].done
  BY <1>1 DEF CycleEnds, Judged
<1>3. call[w][NTargets] \in Call /\ call[w][NTargets].last # "nil"
  BY <1>1, <1>2 DEF Sent
<1>4. call[w][NTargets].last = "ok" => NTargets \in good[w]
  BY <1>1, <1>2 DEF Judged
<1>5. call[w][NTargets].last \in Error \ {"nil"} \/ good[w] # {}
  BY <1>3, <1>4 DEF Call, Error
<1>6. \/ ret' = [ret EXCEPT ![w] = "nil"]
      \/ good[w] = {} /\ ret' = [ret EXCEPT ![w] = call[w][NTargets].last]
  BY Zenon DEF CycleEnds, Return
<1>7. ret' \in [Workers -> Error]
  BY <1>5, <1>6 DEF TypeOK, Error
<1> QED
  BY <1>5, <1>7

\* An attempt leaves a well typed call: the tries it counts were not used up.
LEMMA AttemptTypes ==
    ASSUME TypeOK, NEW w \in Workers, NEW t \in Targets, Sent(w), Sending(w, t),
           NEW answer \in {"ok", "failed", "status401"}, Attempted(w, t, answer)
    PROVE  call' \in [Workers -> [Targets -> Call]]
<1>1. call[w][t].tries \in 0 .. RetryCount
  BY DEF TypeOK, Sent, Sending, Call
<1> QED
  BY <1>1 DEF TypeOK, Attempted, Call

\* The second SendOne's result is counted, or returned.
LEMMA ResendTypes ==
    ASSUME TypeOK, NEW w \in Workers, Judged(w), ResendDone(w)
    PROVE  TypeOK'
<1>1. next[w] \in Targets /\ call[w][next[w]] \in Call
  BY DEF TypeOK, ResendDone, Judged
<1>2. CASE call[w][next[w]].last = "ok"
  <2>1. /\ next' = [next EXCEPT ![w] = @ + 1]
        /\ good' = [good EXCEPT ![w] = @ \union {next[w]}]
    BY <1>2, Zenon DEF ResendDone
  <2>2. good' \in [Workers -> SUBSET Targets]
    BY <1>1, <2>1 DEF TypeOK
  <2>3. next' \in [Workers -> Nat \ {0}]
    BY <2>1 DEF TypeOK
  <2> QED
    BY <1>2, <2>2, <2>3 DEF TypeOK, ResendDone, Goto, Stages, agentVars, countVars
<1>3. CASE call[w][next[w]].last # "ok"
  <2>1. ret' \in [Workers -> Error]
    BY <1>1, <1>3 DEF TypeOK, ResendDone, Return, Call, Error
  <2> QED
    BY <1>3, <2>1 DEF TypeOK, ResendDone, Goto, Return, Stages, agentVars, countVars
<1> QED
  BY <1>2, <1>3

\* Steps of the process and the licence server.
LEMMA ProcessTypes ==
    ASSUME TypeOK, Boot \/ Crash \/ Expire \/ Revoke
    PROVE  TypeOK'
<1>1. CASE Boot
  <2>1. phase' \in {"down", "up"}
    BY <1>1 DEF TypeOK, Boot
  <2>2. token' \in Token
    BY <1>1 DEF TypeOK, Boot, Token, None
  <2>3. cache' \in Token
    BY <1>1 DEF TypeOK, Boot, Token, None
  <2>4. tmp' \in Token
    BY <1>1 DEF TypeOK, Boot, Token, None
  <2>5. hb' \in Heartbeat
    BY <1>1 DEF TypeOK, Boot, Heartbeat, HeartbeatOff, Token, None
  <2>6. faults' \in 0 .. MaxFaults
    BY <1>1 DEF TypeOK, Boot, Fault
  <2> QED
    BY <2>1, <2>2, <2>3, <2>4, <2>5, <2>6, <1>1 DEF TypeOK, Boot, agentVars,
       cycleVars, countVars
<1>2. CASE Crash
  <2>1. phase' \in {"down", "up"}
    BY <1>2 DEF TypeOK, Crash
  <2>2. restarts' \in 0 .. MaxRestarts
    BY <1>2 DEF TypeOK, Crash
  <2>3. expired' \in BOOLEAN
    BY <1>2 DEF TypeOK, Crash
  <2>4. token' \in Token
    BY <1>2 DEF TypeOK, Crash, Token, None
  <2>5. hb' \in Heartbeat
    BY <1>2 DEF TypeOK, Crash, Heartbeat, HeartbeatOff, Token, None
  <2>6. pc' \in [Workers -> Stages]
    BY <1>2 DEF TypeOK, Crash, Goto, Return, Stages
  <2>7. ret' \in [Workers -> Error]
    BY <1>2 DEF TypeOK, Crash, Goto, Return, Error, Call
  <2> QED
    BY <2>1, <2>2, <2>3, <2>4, <2>5, <2>6, <2>7, <1>2 DEF TypeOK, Crash, agentVars,
       cycleVars, countVars
<1>3. CASE Expire
  <2>1. expired' \in BOOLEAN
    BY <1>3 DEF TypeOK, Expire
  <2> QED
    BY <2>1, <1>3 DEF TypeOK, Expire, agentVars, cycleVars, countVars
<1>4. CASE Revoke
  <2>1. epoch' \in 1 .. MaxEpoch
    BY <1>4 DEF TypeOK, Revoke
  <2> QED
    BY <2>1, <1>4 DEF TypeOK, Revoke, agentVars, cycleVars, countVars
<1> QED
  BY <1>1, <1>2, <1>3, <1>4

\* Steps of the heartbeat.
LEMMA HeartbeatTypes ==
    ASSUME TypeOK, HeartbeatStep
    PROVE  TypeOK'
<1>1. CASE HeartbeatSent
  <2>1. hb' \in Heartbeat
    BY <1>1 DEF TypeOK, HeartbeatSent, Heartbeat, HeartbeatOff, Token, None
  <2>2. epoch' \in 1 .. MaxEpoch
    BY <1>1 DEF TypeOK, HeartbeatSent
  <2> QED
    BY <2>1, <2>2, <1>1 DEF TypeOK, HeartbeatSent, agentVars, cycleVars, countVars
<1>2. CASE HeartbeatRefused
  <2>1. hb' \in Heartbeat
    BY <1>2 DEF TypeOK, HeartbeatRefused, Heartbeat, HeartbeatOff, Token, None
  <2> QED
    BY <2>1, <1>2 DEF TypeOK, HeartbeatRefused, agentVars, cycleVars, countVars
<1>3. CASE HeartbeatReauth
  <2>1. hb' \in Heartbeat
    BY <1>3 DEF TypeOK, HeartbeatReauth, Heartbeat, HeartbeatOff, Token, None
  <2>2. faults' \in 0 .. MaxFaults
    BY <1>3 DEF TypeOK, HeartbeatReauth, Fault
  <2> QED
    BY <2>1, <2>2, <1>3 DEF TypeOK, HeartbeatReauth, agentVars, cycleVars, countVars
<1>4. CASE HeartbeatAnswered
  <2>1. token' \in Token
    BY <1>4 DEF TypeOK, HeartbeatAnswered, Heartbeat
  <2>2. hb' \in Heartbeat
    BY <1>4 DEF TypeOK, HeartbeatAnswered, Heartbeat, HeartbeatOff, Token, None
  <2> QED
    BY <2>1, <2>2, <1>4 DEF TypeOK, HeartbeatAnswered, agentVars, cycleVars, countVars
<1>5. CASE HeartbeatEnds
  <2>1. hb' \in Heartbeat
    BY <1>5 DEF TypeOK, HeartbeatEnds, Heartbeat, HeartbeatOff, Token, None
  <2> QED
    BY <2>1, <1>5 DEF TypeOK, HeartbeatEnds, agentVars, cycleVars, countVars
<1> QED
  BY <1>1, <1>2, <1>3, <1>4, <1>5 DEF HeartbeatStep

\* Steps of a cycle.
LEMMA CycleTypes ==
    ASSUME TypeOK, NEW w \in Workers, Sent(w), Judged(w), BeginCycle(w) \/ CycleStep(w)
    PROVE  TypeOK'
<1>1. CASE BeginCycle(w)
  <2>1. pc' \in [Workers -> Stages]
    BY <1>1 DEF TypeOK, BeginCycle, Goto, Return, Stages
  <2>2. next' \in [Workers -> Nat \ {0}]
    BY <1>1 DEF TypeOK, BeginCycle
  <2>3. report' \in [Workers -> [Tasks -> Entry]]
    BY <1>1, BlankTypes DEF TypeOK, BeginCycle
  <2>4. call' \in [Workers -> [Targets -> Call]]
    BY <1>1, BlankTypes DEF TypeOK, BeginCycle
  <2>5. good' \in [Workers -> SUBSET Targets]
    BY <1>1 DEF TypeOK, BeginCycle
  <2>6. stored' \in [Workers -> SUBSET Targets]
    BY <1>1 DEF TypeOK, BeginCycle
  <2> QED
    BY <2>1, <2>2, <2>3, <2>4, <2>5, <2>6, <1>1 DEF TypeOK, BeginCycle, agentVars,
       cycleVars, countVars
<1>2. CASE CollectTask(w)
  <2>1. next' \in [Workers -> Nat \ {0}]
    BY <1>2 DEF TypeOK, CollectTask
  <2>2. report' \in [Workers -> [Tasks -> Entry]]
    BY <1>2 DEF TypeOK, CollectTask, Entry, NoReport, Tasks
  <2> QED
    BY <2>1, <2>2, <1>2 DEF TypeOK, CollectTask, agentVars, cycleVars, countVars
<1>3. CASE CollectCanceled(w)
  <2>1. pc' \in [Workers -> Stages]
    BY <1>3 DEF TypeOK, CollectCanceled, Goto, Return, Stages
  <2>2. ret' \in [Workers -> Error]
    BY <1>3 DEF TypeOK, CollectCanceled, Goto, Return, Error, Call
  <2> QED
    BY <2>1, <2>2, <1>3 DEF TypeOK, CollectCanceled, agentVars, cycleVars, countVars
<1>4. CASE EncodeFails(w)
  <2>1. pc' \in [Workers -> Stages]
    BY <1>4 DEF TypeOK, EncodeFails, Goto, Return, Stages
  <2>2. ret' \in [Workers -> Error]
    BY <1>4 DEF TypeOK, EncodeFails, Goto, Return, Error, Call
  <2>3. faults' \in 0 .. MaxFaults
    BY <1>4 DEF TypeOK, EncodeFails, Fault
  <2> QED
    BY <2>1, <2>2, <2>3, <1>4 DEF TypeOK, EncodeFails, agentVars, cycleVars, countVars
<1>5. CASE Encode(w)
  <2>1. pc' \in [Workers -> Stages]
    BY <1>5 DEF TypeOK, Encode, Goto, Return, Stages
  <2>2. ret' \in [Workers -> Error]
    BY <1>5 DEF TypeOK, Encode, Goto, Return, Error, Call
  <2>3. report' \in [Workers -> [Tasks -> Entry]]
    BY <1>5, BlankTypes DEF TypeOK, Encode
  <2>4. faults' \in 0 .. MaxFaults
    BY <1>5 DEF TypeOK, Encode, Fault
  <2> QED
    BY <2>1, <2>2, <2>3, <2>4, <1>5 DEF TypeOK, Encode, agentVars, cycleVars, countVars
<1>6. CASE SendReports(w)
  <2>1. pc' \in [Workers -> Stages]
    BY <1>6 DEF TypeOK, SendReports, Goto, Return, Stages
  <2>2. bearer' \in [Workers -> Token]
    BY <1>6 DEF TypeOK, SendReports, Token, None
  <2> QED
    BY <2>1, <2>2, <1>6 DEF TypeOK, SendReports, agentVars, cycleVars, countVars
<1>7. CASE SendDone(w)
  <2>1. pc' \in [Workers -> Stages]
    BY <1>7 DEF TypeOK, SendDone, Goto, Return, Stages
  <2>2. next' \in [Workers -> Nat \ {0}]
    BY <1>7 DEF TypeOK, SendDone
  <2> QED
    BY <2>1, <2>2, <1>7 DEF TypeOK, SendDone, agentVars, cycleVars, countVars
<1>8. CASE Judge(w)
  <2>1. good' \in [Workers -> SUBSET Targets]
    BY <1>8 DEF TypeOK, Judge
  <2>2. next' \in [Workers -> Nat \ {0}]
    BY <1>8 DEF TypeOK, Judge
  <2> QED
    BY <2>1, <2>2, <1>8 DEF TypeOK, Judge, agentVars, cycleVars, countVars
<1>9. CASE CycleEnds(w)
  <2>1. pc' \in [Workers -> Stages]
    BY <1>9 DEF TypeOK, CycleEnds, Goto, Return, Stages
  <2>2. ret' \in [Workers -> Error]
    BY <1>9, FailureAtTheEnd
  <2> QED
    BY <2>1, <2>2, <1>9 DEF TypeOK, CycleEnds, agentVars, cycleVars, countVars
<1>10. CASE ClearTokenCache(w)
  <2>1. cache' \in Token
    BY <1>10 DEF TypeOK, ClearTokenCache, Token, None
  <2>2. faults' \in 0 .. MaxFaults
    BY <1>10 DEF TypeOK, ClearTokenCache, Fault
  <2>3. pc' \in [Workers -> Stages]
    BY <1>10 DEF TypeOK, ClearTokenCache, Goto, Return, Stages
  <2> QED
    BY <2>1, <2>2, <2>3, <1>10 DEF TypeOK, ClearTokenCache, agentVars, cycleVars,
       countVars
<1>11. CASE VerifyWithMonitor(w)
  <2>1. bearer' \in [Workers -> Token]
    BY <1>11 DEF TypeOK, VerifyWithMonitor, Token, None
  <2>2. pc' \in [Workers -> Stages]
    BY <1>11 DEF TypeOK, VerifyWithMonitor, Goto, Return, Stages
  <2> QED
    BY <2>1, <2>2, <1>11 DEF TypeOK, VerifyWithMonitor, agentVars, cycleVars, countVars
<1>12. CASE VerifyFails(w)
  <2>1. \/ bearer' = [bearer EXCEPT ![w] = None] /\ pc' = [pc EXCEPT ![w] = "install"]
        \/ bearer' = bearer /\ pc' = [pc EXCEPT ![w] = "idle"]
    BY <1>12, Zenon DEF VerifyFails, Goto, Return
  <2>2. bearer' \in [Workers -> Token] /\ pc' \in [Workers -> Stages]
    <3>1. None \in Token /\ {"install", "idle"} \subseteq Stages
      BY DEF Token, None, Stages
    <3> QED
      BY <2>1, <3>1, ZenonT(60) DEF TypeOK
  <2>3. cache' \in {None, cache}
    BY <1>12 DEF VerifyFails
  <2>4. cache' \in Token
    BY <2>3 DEF TypeOK, Token, None
  <2>5. faults' \in 0 .. MaxFaults
    BY <1>12 DEF TypeOK, VerifyFails, Fault
  <2>6. ret' \in [Workers -> Error]
    BY <1>12 DEF TypeOK, VerifyFails, Return, Error
  <2> QED
    BY <2>2, <2>4, <2>5, <2>6, <1>12 DEF TypeOK, VerifyFails, countVars
<1>13. CASE WriteCache(w)
  <2>1. tmp' \in Token
    BY <1>13 DEF TypeOK, WriteCache, Token, None
  <2>2. pc' \in [Workers -> Stages]
    BY <1>13 DEF TypeOK, WriteCache, Goto, Return, Stages
  <2>3. ret' \in [Workers -> Error]
    BY <1>13 DEF TypeOK, WriteCache, Goto, Return, Error, Call
  <2>4. faults' \in 0 .. MaxFaults
    BY <1>13 DEF TypeOK, WriteCache, Fault
  <2> QED
    BY <2>1, <2>2, <2>3, <2>4, <1>13 DEF TypeOK, WriteCache, agentVars, cycleVars,
       countVars
<1>14. CASE RenameCache(w)
  <2>1. pc' \in [Workers -> Stages]
    BY <1>14 DEF TypeOK, RenameCache, Goto, Return, Stages
  <2>2. ret' \in [Workers -> Error]
    BY <1>14 DEF TypeOK, RenameCache, Goto, Return, Error, Call
  <2>3. cache' \in Token
    BY <1>14 DEF TypeOK, RenameCache, Token, None
  <2>4. tmp' \in Token
    BY <1>14 DEF TypeOK, RenameCache, Token, None
  <2> QED
    BY <2>1, <2>2, <2>3, <2>4, <1>14 DEF TypeOK, RenameCache, agentVars, cycleVars,
       countVars
<1>15. CASE Install(w)
  <2>1. token' \in Token
    BY <1>15 DEF TypeOK, Install, Token, None
  <2>2. call' \in [Workers -> [Targets -> Call]]
    BY <1>15, BlankTypes DEF TypeOK, Install
  <2>3. pc' \in [Workers -> Stages]
    BY <1>15 DEF TypeOK, Install, Goto, Return, Stages
  <2> QED
    BY <2>1, <2>2, <2>3, <1>15 DEF TypeOK, Install, agentVars, cycleVars, countVars
<1>16. CASE ResendDone(w)
  BY <1>16, ResendTypes
<1>17. ASSUME NEW t \in Targets, SendCanceled(w, t)
      PROVE  TypeOK'
  <2>1. call' \in [Workers -> [Targets -> Call]]
    BY <1>17 DEF TypeOK, SendCanceled, Call
  <2> QED
    BY <2>1, <1>17 DEF TypeOK, SendCanceled, agentVars, cycleVars, countVars
<1>18. ASSUME NEW t \in Targets, SendAnswered(w, t)
      PROVE  TypeOK'
  <2>1. call' \in [Workers -> [Targets -> Call]]
    BY <1>18, AttemptTypes DEF SendAnswered
  <2>2. stored' \in [Workers -> SUBSET Targets]
    BY <1>18 DEF TypeOK, SendAnswered
  <2> QED
    BY <2>1, <2>2, <1>18 DEF TypeOK, SendAnswered, agentVars, cycleVars, countVars
<1>19. ASSUME NEW t \in Targets, SendFails(w, t)
      PROVE  TypeOK'
  <2>1. call' \in [Workers -> [Targets -> Call]]
    BY <1>19, AttemptTypes DEF SendFails
  <2>2. stored' \in [Workers -> SUBSET Targets]
    BY <1>19 DEF TypeOK, SendFails
  <2>3. faults' \in 0 .. MaxFaults
    BY <1>19 DEF TypeOK, SendFails, Fault
  <2> QED
    BY <2>1, <2>2, <2>3, <1>19 DEF TypeOK, SendFails, agentVars, cycleVars, countVars
<1> QED
  BY <1>1, <1>2, <1>3, <1>4, <1>5, <1>6, <1>7, <1>8, <1>9, <1>10, <1>11, <1>12, <1>13,
     <1>14, <1>15, <1>16, <1>17, <1>18, <1>19 DEF CycleStep

(***************************************************************************)
(* The other workers                                                       *)
(***************************************************************************)

\* Nothing of v's cycle changes.
Same(v) ==
    /\ pc'[v] = pc[v] /\ next'[v] = next[v] /\ report'[v] = report[v] /\ call'[v] = call[v]
    /\ good'[v] = good[v] /\ ret'[v] = ret[v] /\ stored'[v] = stored[v]

\* A step of w does not touch v's cycle.
LEMMA OthersStand ==
    ASSUME TypeOK, NEW w \in Workers, NEW v \in Workers, v # w, BeginCycle(w) \/ CycleStep(w)
    PROVE  Same(v) /\ UNCHANGED <<opts, expired>>
<1> USE DEF TypeOK, Same, Goto, Return, agentVars
<1>1. CASE BeginCycle(w)
  BY <1>1 DEF BeginCycle
<1>2. CASE CollectTask(w)
  BY <1>2 DEF CollectTask
<1>3. CASE CollectCanceled(w)
  BY <1>3 DEF CollectCanceled
<1>4. CASE EncodeFails(w)
  BY <1>4 DEF EncodeFails
<1>5. CASE Encode(w)
  BY <1>5 DEF Encode
<1>6. CASE SendReports(w)
  BY <1>6 DEF SendReports
<1>7. CASE SendDone(w)
  BY <1>7 DEF SendDone
<1>8. CASE Judge(w)
  BY <1>8 DEF Judge
<1>9. CASE CycleEnds(w)
  BY <1>9 DEF CycleEnds
<1>10. CASE ClearTokenCache(w)
  BY <1>10 DEF ClearTokenCache
<1>11. CASE VerifyWithMonitor(w)
  BY <1>11 DEF VerifyWithMonitor
<1>12. CASE VerifyFails(w)
  BY <1>12 DEF VerifyFails
<1>13. CASE WriteCache(w)
  BY <1>13 DEF WriteCache
<1>14. CASE RenameCache(w)
  BY <1>14 DEF RenameCache
<1>15. CASE Install(w)
  BY <1>15 DEF Install
<1>16. CASE ResendDone(w)
  BY <1>16 DEF ResendDone
<1>17. ASSUME NEW t \in Targets, SendCanceled(w, t)
      PROVE  Same(v) /\ UNCHANGED <<opts, expired>>
  BY <1>17 DEF SendCanceled, Attempted
<1>18. ASSUME NEW t \in Targets, SendAnswered(w, t)
      PROVE  Same(v) /\ UNCHANGED <<opts, expired>>
  BY <1>18 DEF SendAnswered, Attempted
<1>19. ASSUME NEW t \in Targets, SendFails(w, t)
      PROVE  Same(v) /\ UNCHANGED <<opts, expired>>
  BY <1>19 DEF SendFails, Attempted
<1> QED
  BY <1>1, <1>2, <1>3, <1>4, <1>5, <1>6, <1>7, <1>8, <1>9, <1>10, <1>11, <1>12, <1>13,
     <1>14, <1>15, <1>16, <1>17, <1>18, <1>19 DEF CycleStep

\* Then what the invariant says of v still holds.
LEMMA OthersKeep ==
    ASSUME NEW v \in Workers, Same(v), UNCHANGED <<opts, expired>>,
           Reported(v), Sent(v), Judged(v), Delivered(v)
    PROVE  Reported(v)' /\ Sent(v)' /\ Judged(v)' /\ Delivered(v)'
<1>1. Reported(v)'
  BY DEF Same, Reported
<1>2. Sent(v)'
  BY DEF Same, Sent
<1>3. Judged(v)'
  BY DEF Same, Judged
<1>4. Delivered(v)'
  BY DEF Same, Delivered
<1> QED
  BY <1>1, <1>2, <1>3, <1>4

(***************************************************************************)
(* The worker that takes the step                                          *)
(***************************************************************************)

\* Nothing has been collected when a cycle begins.
LEMMA BeginReported ==
    ASSUME TypeOK, NEW w \in Workers, BeginCycle(w)
    PROVE  Reported(w)'
<1>1. pc'[w] = "collect" /\ next'[w] = 1
  BY DEF TypeOK, BeginCycle, Goto
<1> QED
  BY <1>1 DEF Reported, Tasks

\* An iteration of the loop leaves an entry for its task.
LEMMA CollectReported ==
    ASSUME TypeOK, NEW w \in Workers, CollectTask(w), Reported(w)
    PROVE  Reported(w)'
<1> SUFFICES ASSUME ~opts'.emptyOnFailure, NEW i \in Tasks \ Disabled, i < next'[w]
             PROVE  report'[w][i] # "none"
  BY DEF TypeOK, CollectTask, Reported
<1>1. i < next[w] \/ i = next[w]
  BY DEF TypeOK, CollectTask, Tasks
<1>2. CASE i < next[w]
  <2>1. report[w][i] # "none"
    BY <1>2, Zenon DEF Reported, CollectTask
  <2>2. PICK entry \in {"value", "error"} :
          report' = IF next[w] \in Disabled THEN report ELSE [report EXCEPT ![w][next[w]] = entry]
    BY DEF CollectTask
  <2> QED
    BY <2>1, <2>2 DEF TypeOK
<1>3. CASE i = next[w]
  BY <1>3 DEF TypeOK, CollectTask
<1> QED
  BY <1>1, <1>2, <1>3

\* The loop has passed every task when the report is encoded.
LEMMA EncodeReported ==
    ASSUME TypeOK, NEW w \in Workers, Encode(w), Reported(w)
    PROVE  Reported(w)'
<1> SUFFICES ASSUME ~opts'.emptyOnFailure, NEW i \in Tasks \ Disabled
             PROVE  report'[w][i] # "none"
  BY Zenon DEF Reported
<1>1. ~opts.emptyOnFailure /\ report' = report
  BY Zenon DEF Encode
<1>2. i < next[w] /\ pc[w] = "collect"
  BY DEF TypeOK, Encode, Tasks
<1> QED
  BY <1>1, <1>2 DEF Reported

\* An attempt ends SendOne only with an answer or an error.
LEMMA AttemptKeepsSent ==
    ASSUME TypeOK, NEW w \in Workers, NEW t \in Targets, NEW answer,
           Sent(w), Sending(w, t), Attempted(w, t, answer), answer \in {"ok", "failed", "status401"},
           stored'[w] = stored[w] \/ stored'[w] = stored[w] \union {t},
           answer = "ok" => t \in stored'[w]
    PROVE  Sent(w)'
<1> SUFFICES ASSUME NEW u \in Targets
             PROVE  /\ call'[w][u].done => call'[w][u].last # "nil"
                    /\ ~call'[w][u].done => call'[w][u].tries <= RetryCount
                    /\ call'[w][u].last = "ok" => call'[w][u].done /\ u \in stored'[w]
  BY DEF Sent
<1>1. CASE u = t
  <2>1. call'[w][t] = [tries |-> call[w][t].tries + 1, last |-> answer,
                       done |-> answer = "ok" \/ call[w][t].tries >= RetryCount]
    BY DEF TypeOK, Attempted
  <2>2. call[w][t].tries \in Nat
    BY DEF TypeOK, Call
  <2>3. call'[w][t].done = (answer = "ok" \/ call[w][t].tries >= RetryCount)
    BY <2>1
  <2>4. call'[w][t].tries = call[w][t].tries + 1 /\ call'[w][t].last = answer
    BY <2>1
  <2>5. ~(answer = "ok" \/ call[w][t].tries >= RetryCount)
          => call[w][t].tries + 1 <= RetryCount
    BY <2>2
  <2> QED
    BY <1>1, <2>3, <2>4, <2>5, Zenon
<1>2. CASE u # t
  <2>1. call'[w][u] = call[w][u]
    BY <1>2 DEF TypeOK, Attempted
  <2> QED
    BY <2>1 DEF Sent
<1> QED
  BY <1>1, <1>2

\* A confirmation comes from a target that has the report.
LEMMA AnsweredSent ==
    ASSUME TypeOK, NEW w \in Workers, NEW t \in Targets, SendAnswered(w, t), Sent(w)
    PROVE  Sent(w)'
<1>1. stored'[w] = IF Accepts(w, t) THEN stored[w] \union {t} ELSE stored[w]
  BY DEF TypeOK, SendAnswered
<1>2. CASE Accepts(w, t)
  <2>1. Attempted(w, t, "ok")
    BY <1>2, Zenon DEF SendAnswered
  <2> QED
    BY <1>1, <1>2, <2>1, AttemptKeepsSent DEF SendAnswered
<1>3. CASE ~Accepts(w, t)
  <2>1. Attempted(w, t, "status401")
    BY <1>3, Zenon DEF SendAnswered
  <2> QED
    BY <1>1, <1>3, <2>1, AttemptKeepsSent DEF SendAnswered
<1> QED
  BY <1>2, <1>3

\* A failed attempt takes nothing back.
LEMMA FailsSent ==
    ASSUME TypeOK, NEW w \in Workers, NEW t \in Targets, SendFails(w, t), Sent(w)
    PROVE  Sent(w)'
<1>1. stored'[w] = stored[w] \/ stored'[w] = stored[w] \union {t}
  BY DEF TypeOK, SendFails
<1> QED
  BY <1>1, AttemptKeepsSent DEF SendFails

\* wg.Wait has waited for every target.
LEMMA DoneJudged ==
    ASSUME TypeOK, NEW w \in Workers, SendDone(w), Judged(w)
    PROVE  Judged(w)'
<1>1. pc'[w] = "judge" /\ next'[w] = 1
  BY DEF TypeOK, SendDone, Goto
<1>2. UNCHANGED <<call, good, stored>> /\ \A t \in Targets : call[w][t].done
  BY Zenon DEF SendDone
<1>3. \A t \in Targets : ~(t < 1)
  BY DEF Targets
<1> QED
  BY <1>1, <1>2, <1>3, Zenon DEF Judged

\* Every confirmation is counted, and only those.
LEMMA JudgeJudged ==
    ASSUME TypeOK, NEW w \in Workers, Judge(w), Judged(w), Sent(w)
    PROVE  Judged(w)'
<1>1. pc[w] = "judge" /\ pc'[w] = "judge" /\ next'[w] = next[w] + 1 /\ next[w] \in Targets
  BY DEF TypeOK, Judge
<1>2. good'[w] = IF call[w][next[w]].last = "ok" THEN good[w] \union {next[w]} ELSE good[w]
  BY DEF TypeOK, Judge
<1>3. UNCHANGED <<call, stored>>
  BY DEF Judge
<1>4. \A t \in Targets : call[w][t].done
  BY <1>1, Zenon DEF Judged
<1>5. \A t \in Targets : t < next[w] + 1 /\ call[w][t].last = "ok" => t \in good'[w]
  BY <1>1, <1>2 DEF Judged, Targets
<1>6. good'[w] \subseteq stored[w]
  BY <1>1, <1>2 DEF Judged, Judge, Sent
<1> QED
  BY <1>1, <1>3, <1>4, <1>5, <1>6, Zenon DEF Judged

\* A refresh begins at a target that answered 401.
LEMMA ClearJudged ==
    ASSUME TypeOK, NEW w \in Workers, ClearTokenCache(w), Judged(w), Sent(w)
    PROVE  Judged(w)'
<1>1. pc[w] = "judge" /\ pc'[w] = "verify" /\ next[w] \in Targets
  BY DEF TypeOK, ClearTokenCache, Goto
<1>2. call[w][next[w]].last = "status401"
  BY Zenon DEF ClearTokenCache, NeedsRefresh
<1>3. UNCHANGED <<next, call, good, stored>>
  BY DEF ClearTokenCache
<1> QED
  BY <1>1, <1>2, <1>3, Zenon DEF Judged

\* A successful resend counts.
LEMMA ResendJudged ==
    ASSUME TypeOK, NEW w \in Workers, ResendDone(w), Judged(w), Sent(w)
    PROVE  Judged(w)'
<1>1. pc[w] = "resend" /\ next[w] \in Targets /\ UNCHANGED <<call, stored>>
  BY DEF TypeOK, ResendDone, Judged
<1>2. \A t \in Targets : call[w][t].done
  BY Zenon DEF ResendDone
<1>3. CASE call[w][next[w]].last = "ok"
  <2>1. /\ next' = [next EXCEPT ![w] = @ + 1]
        /\ good' = [good EXCEPT ![w] = @ \union {next[w]}]
        /\ pc' = [pc EXCEPT ![w] = "judge"]
    BY <1>3, Zenon DEF ResendDone, Goto
  <2>2. pc'[w] = "judge" /\ next'[w] = next[w] + 1 /\ good'[w] = good[w] \union {next[w]}
    BY <2>1 DEF TypeOK
  <2>3. \A t \in Targets : t < next[w] + 1 /\ call[w][t].last = "ok" => t \in good'[w]
    BY <1>1, <2>2 DEF Judged, Targets
  <2>4. good'[w] \subseteq stored[w]
    BY <1>1, <1>3, <2>2 DEF Judged, Sent
  <2> QED
    BY <1>1, <1>2, <2>2, <2>3, <2>4, Zenon DEF Judged
<1>4. CASE call[w][next[w]].last # "ok"
  <2>1. pc'[w] = "idle" /\ UNCHANGED good
    BY <1>4 DEF TypeOK, ResendDone, Goto, Return
  <2> QED
    BY <1>1, <2>1 DEF Judged
<1> QED
  BY <1>3, <1>4

\* A cycle without a success returns the failure of its last target.
LEMMA EndsDelivered ==
    ASSUME TypeOK, NEW w \in Workers, CycleEnds(w), Judged(w), Sent(w)
    PROVE  Delivered(w)'
<1>1. CASE good[w] # {}
  BY <1>1 DEF TypeOK, CycleEnds, Judged, Delivered
<1>2. CASE good[w] = {}
  <2>1. SUFFICES ASSUME opts'.returnFailure PROVE ret'[w] # "nil"
    BY Zenon DEF Delivered
  <2>2. ret' = [ret EXCEPT ![w] = call[w][NTargets].last]
    BY <1>2, <2>1, Zenon DEF CycleEnds, Return
  <2>3. NTargets \in Targets /\ NTargets < next[w] /\ pc[w] = "judge"
    BY DEF TypeOK, CycleEnds, Targets
  <2>4. call[w][NTargets].last # "nil"
    BY <2>3, Zenon DEF Judged, Sent
  <2> QED
    BY <2>2, <2>4 DEF TypeOK
<1> QED
  BY <1>1, <1>2

\* A failed resend is returned.
LEMMA ResendDelivered ==
    ASSUME TypeOK, NEW w \in Workers, ResendDone(w), Judged(w), Sent(w)
    PROVE  Delivered(w)'
<1>1. next[w] \in Targets /\ call[w][next[w]].done
  BY DEF TypeOK, ResendDone, Judged
<1>2. call[w][next[w]].last # "nil"
  BY <1>1, Zenon DEF Sent
<1>3. CASE call[w][next[w]].last = "ok"
  <2>1. pc'[w] = "judge"
    BY <1>3 DEF TypeOK, ResendDone, Goto, Stages
  <2> QED
    BY <2>1 DEF Delivered
<1>4. CASE call[w][next[w]].last # "ok"
  <2>1. ret'[w] = call[w][next[w]].last
    BY <1>4 DEF TypeOK, ResendDone, Return
  <2> QED
    BY <1>2, <2>1, Zenon DEF Delivered
<1> QED
  BY <1>3, <1>4

\* The report of the worker that steps.
LEMMA ReportedStep ==
    ASSUME TypeOK, NEW w \in Workers, BeginCycle(w) \/ CycleStep(w), Reported(w)
    PROVE  Reported(w)'
<1>1. CASE BeginCycle(w)
  BY <1>1, BeginReported
<1>2. CASE CollectTask(w)
  BY <1>2, CollectReported
<1>3. CASE CollectCanceled(w)
  BY <1>3 DEF TypeOK, Reported, Goto, Return, agentVars, CollectCanceled
<1>4. CASE EncodeFails(w)
  BY <1>4 DEF TypeOK, Reported, Goto, Return, agentVars, EncodeFails
<1>5. CASE Encode(w)
  BY <1>5, EncodeReported
<1>6. CASE SendReports(w)
  BY <1>6 DEF TypeOK, Reported, Goto, Return, agentVars, SendReports
<1>7. CASE SendDone(w)
  BY <1>7 DEF TypeOK, Reported, Goto, Return, agentVars, SendDone
<1>8. CASE Judge(w)
  BY <1>8 DEF TypeOK, Reported, Goto, Return, agentVars, Judge
<1>9. CASE CycleEnds(w)
  BY <1>9 DEF TypeOK, Reported, Goto, Return, agentVars, CycleEnds
<1>10. CASE ClearTokenCache(w)
  BY <1>10 DEF TypeOK, Reported, Goto, Return, agentVars, ClearTokenCache
<1>11. CASE VerifyWithMonitor(w)
  BY <1>11 DEF TypeOK, Reported, Goto, Return, agentVars, VerifyWithMonitor
<1>12. CASE VerifyFails(w)
  BY <1>12 DEF TypeOK, Reported, Goto, Return, agentVars, VerifyFails
<1>13. CASE WriteCache(w)
  BY <1>13 DEF TypeOK, Reported, Goto, Return, agentVars, WriteCache
<1>14. CASE RenameCache(w)
  BY <1>14 DEF TypeOK, Reported, Goto, Return, agentVars, RenameCache
<1>15. CASE Install(w)
  BY <1>15 DEF TypeOK, Reported, Goto, Return, agentVars, Install
<1>16. CASE ResendDone(w)
  BY <1>16 DEF TypeOK, Reported, Goto, Return, agentVars, ResendDone
<1>17. ASSUME NEW t \in Targets, SendCanceled(w, t)
      PROVE  Reported(w)'
  BY <1>17 DEF TypeOK, Reported, Goto, Return, agentVars, SendCanceled, Attempted, Sending
<1>18. ASSUME NEW t \in Targets, SendAnswered(w, t)
      PROVE  Reported(w)'
  BY <1>18 DEF TypeOK, Reported, Goto, Return, agentVars, SendAnswered, Attempted, Sending
<1>19. ASSUME NEW t \in Targets, SendFails(w, t)
      PROVE  Reported(w)'
  BY <1>19 DEF TypeOK, Reported, Goto, Return, agentVars, SendFails, Attempted, Sending
<1> QED
  BY <1>1, <1>2, <1>3, <1>4, <1>5, <1>6, <1>7, <1>8, <1>9, <1>10, <1>11, <1>12, <1>13,
     <1>14, <1>15, <1>16, <1>17, <1>18, <1>19 DEF CycleStep

\* Its calls.
LEMMA SentStep ==
    ASSUME TypeOK, NEW w \in Workers, BeginCycle(w) \/ CycleStep(w), Sent(w)
    PROVE  Sent(w)'
<1>1. CASE BeginCycle(w)
  BY <1>1 DEF TypeOK, Sent, Goto, Return, agentVars, BeginCycle, NoCall
<1>2. CASE CollectTask(w)
  BY <1>2 DEF TypeOK, Sent, Goto, Return, agentVars, CollectTask
<1>3. CASE CollectCanceled(w)
  BY <1>3 DEF TypeOK, Sent, Goto, Return, agentVars, CollectCanceled
<1>4. CASE EncodeFails(w)
  BY <1>4 DEF TypeOK, Sent, Goto, Return, agentVars, EncodeFails
<1>5. CASE Encode(w)
  BY <1>5 DEF TypeOK, Sent, Goto, Return, agentVars, Encode
<1>6. CASE SendReports(w)
  BY <1>6 DEF TypeOK, Sent, Goto, Return, agentVars, SendReports
<1>7. CASE SendDone(w)
  BY <1>7 DEF TypeOK, Sent, Goto, Return, agentVars, SendDone
<1>8. CASE Judge(w)
  BY <1>8 DEF TypeOK, Sent, Goto, Return, agentVars, Judge
<1>9. CASE CycleEnds(w)
  BY <1>9 DEF TypeOK, Sent, Goto, Return, agentVars, CycleEnds
<1>10. CASE ClearTokenCache(w)
  BY <1>10 DEF TypeOK, Sent, Goto, Return, agentVars, ClearTokenCache
<1>11. CASE VerifyWithMonitor(w)
  BY <1>11 DEF TypeOK, Sent, Goto, Return, agentVars, VerifyWithMonitor
<1>12. CASE VerifyFails(w)
  BY <1>12 DEF TypeOK, Sent, Goto, Return, agentVars, VerifyFails
<1>13. CASE WriteCache(w)
  BY <1>13 DEF TypeOK, Sent, Goto, Return, agentVars, WriteCache
<1>14. CASE RenameCache(w)
  BY <1>14 DEF TypeOK, Sent, Goto, Return, agentVars, RenameCache
<1>15. CASE Install(w)
  BY <1>15 DEF TypeOK, Sent, Goto, Return, agentVars, Install, NoCall
<1>16. CASE ResendDone(w)
  BY <1>16 DEF TypeOK, Sent, Goto, Return, agentVars, ResendDone
<1>17. ASSUME NEW t \in Targets, SendCanceled(w, t)
      PROVE  Sent(w)'
  BY <1>17 DEF TypeOK, Sent, Goto, Return, agentVars, SendCanceled, Attempted, Sending
<1>18. ASSUME NEW t \in Targets, SendAnswered(w, t)
      PROVE  Sent(w)'
  BY <1>18, AnsweredSent
<1>19. ASSUME NEW t \in Targets, SendFails(w, t)
      PROVE  Sent(w)'
  BY <1>19, FailsSent
<1> QED
  BY <1>1, <1>2, <1>3, <1>4, <1>5, <1>6, <1>7, <1>8, <1>9, <1>10, <1>11, <1>12, <1>13,
     <1>14, <1>15, <1>16, <1>17, <1>18, <1>19 DEF CycleStep

\* Its results.
LEMMA JudgedStep ==
    ASSUME TypeOK, NEW w \in Workers, BeginCycle(w) \/ CycleStep(w), Judged(w), Sent(w)
    PROVE  Judged(w)'
<1>1. CASE BeginCycle(w)
  BY <1>1 DEF TypeOK, Judged, Goto, Return, agentVars, BeginCycle, NoCall
<1>2. CASE CollectTask(w)
  BY <1>2 DEF TypeOK, Judged, Goto, Return, agentVars, CollectTask
<1>3. CASE CollectCanceled(w)
  BY <1>3 DEF TypeOK, Judged, Goto, Return, agentVars, CollectCanceled
<1>4. CASE EncodeFails(w)
  BY <1>4 DEF TypeOK, Judged, Goto, Return, agentVars, EncodeFails
<1>5. CASE Encode(w)
  BY <1>5 DEF TypeOK, Judged, Goto, Return, agentVars, Encode
<1>6. CASE SendReports(w)
  BY <1>6 DEF TypeOK, Judged, Goto, Return, agentVars, SendReports
<1>7. CASE SendDone(w)
  BY <1>7, DoneJudged
<1>8. CASE Judge(w)
  BY <1>8, JudgeJudged
<1>9. CASE CycleEnds(w)
  BY <1>9 DEF TypeOK, Judged, Goto, Return, agentVars, CycleEnds
<1>10. CASE ClearTokenCache(w)
  BY <1>10, ClearJudged
<1>11. CASE VerifyWithMonitor(w)
  BY <1>11 DEF TypeOK, Judged, Goto, Return, agentVars, VerifyWithMonitor
<1>12. CASE VerifyFails(w)
  BY <1>12 DEF TypeOK, Judged, Goto, Return, agentVars, VerifyFails
<1>13. CASE WriteCache(w)
  BY <1>13 DEF TypeOK, Judged, Goto, Return, agentVars, WriteCache
<1>14. CASE RenameCache(w)
  BY <1>14 DEF TypeOK, Judged, Goto, Return, agentVars, RenameCache
<1>15. CASE Install(w)
  BY <1>15 DEF TypeOK, Judged, Goto, Return, agentVars, Install, NoCall
<1>16. CASE ResendDone(w)
  BY <1>16, ResendJudged
<1>17. ASSUME NEW t \in Targets, SendCanceled(w, t)
      PROVE  Judged(w)'
  BY <1>17 DEF TypeOK, Judged, Goto, Return, agentVars, SendCanceled, Attempted, Sending
<1>18. ASSUME NEW t \in Targets, SendAnswered(w, t)
      PROVE  Judged(w)'
  BY <1>18 DEF TypeOK, Judged, Goto, Return, agentVars, SendAnswered, Attempted, Sending
<1>19. ASSUME NEW t \in Targets, SendFails(w, t)
      PROVE  Judged(w)'
  BY <1>19 DEF TypeOK, Judged, Goto, Return, agentVars, SendFails, Attempted, Sending
<1> QED
  BY <1>1, <1>2, <1>3, <1>4, <1>5, <1>6, <1>7, <1>8, <1>9, <1>10, <1>11, <1>12, <1>13,
     <1>14, <1>15, <1>16, <1>17, <1>18, <1>19 DEF CycleStep

\* What its nil stands for.
LEMMA DeliveredStep ==
    ASSUME TypeOK, NEW w \in Workers, BeginCycle(w) \/ CycleStep(w), Delivered(w), Judged(w), Sent(w)
    PROVE  Delivered(w)'
<1>1. CASE BeginCycle(w)
  BY <1>1 DEF TypeOK, Delivered, Goto, Return, agentVars, BeginCycle
<1>2. CASE CollectTask(w)
  BY <1>2 DEF TypeOK, Delivered, Goto, Return, agentVars, CollectTask
<1>3. CASE CollectCanceled(w)
  BY <1>3 DEF TypeOK, Delivered, Goto, Return, agentVars, CollectCanceled
<1>4. CASE EncodeFails(w)
  BY <1>4 DEF TypeOK, Delivered, Goto, Return, agentVars, EncodeFails
<1>5. CASE Encode(w)
  BY <1>5 DEF TypeOK, Delivered, Goto, Return, agentVars, Encode
<1>6. CASE SendReports(w)
  BY <1>6 DEF TypeOK, Delivered, Goto, Return, agentVars, SendReports
<1>7. CASE SendDone(w)
  BY <1>7 DEF TypeOK, Delivered, Goto, Return, agentVars, SendDone
<1>8. CASE Judge(w)
  BY <1>8 DEF TypeOK, Delivered, Goto, Return, agentVars, Judge
<1>9. CASE CycleEnds(w)
  BY <1>9, EndsDelivered
<1>10. CASE ClearTokenCache(w)
  BY <1>10 DEF TypeOK, Delivered, Goto, Return, agentVars, ClearTokenCache
<1>11. CASE VerifyWithMonitor(w)
  BY <1>11 DEF TypeOK, Delivered, Goto, Return, agentVars, VerifyWithMonitor
<1>12. CASE VerifyFails(w)
  BY <1>12 DEF TypeOK, Delivered, Goto, Return, agentVars, VerifyFails
<1>13. CASE WriteCache(w)
  BY <1>13 DEF TypeOK, Delivered, Goto, Return, agentVars, WriteCache
<1>14. CASE RenameCache(w)
  BY <1>14 DEF TypeOK, Delivered, Goto, Return, agentVars, RenameCache
<1>15. CASE Install(w)
  BY <1>15 DEF TypeOK, Delivered, Goto, Return, agentVars, Install
<1>16. CASE ResendDone(w)
  BY <1>16, ResendDelivered
<1>17. ASSUME NEW t \in Targets, SendCanceled(w, t)
      PROVE  Delivered(w)'
  BY <1>17 DEF TypeOK, Delivered, Goto, Return, agentVars, SendCanceled, Attempted,
     Sending
<1>18. ASSUME NEW t \in Targets, SendAnswered(w, t)
      PROVE  Delivered(w)'
  BY <1>18 DEF TypeOK, Delivered, Goto, Return, agentVars, SendAnswered, Attempted,
     Sending
<1>19. ASSUME NEW t \in Targets, SendFails(w, t)
      PROVE  Delivered(w)'
  BY <1>19 DEF TypeOK, Delivered, Goto, Return, agentVars, SendFails, Attempted, Sending
<1> QED
  BY <1>1, <1>2, <1>3, <1>4, <1>5, <1>6, <1>7, <1>8, <1>9, <1>10, <1>11, <1>12, <1>13,
     <1>14, <1>15, <1>16, <1>17, <1>18, <1>19 DEF CycleStep

(***************************************************************************)
(* The invariant and what it implies                                       *)
(***************************************************************************)

\* A cycle's step keeps the invariant.
LEMMA CycleInv ==
    ASSUME IInv, NEW w \in Workers, BeginCycle(w) \/ CycleStep(w)
    PROVE  IInv'
<1>1. \A v \in Workers : Reported(v) /\ Sent(v) /\ Judged(v) /\ Delivered(v)
  BY Zenon DEF IInv, NilMeansDelivered
<1>2. TypeOK /\ TypeOK'
  BY <1>1, CycleTypes DEF IInv
<1>3. ASSUME NEW v \in Workers
      PROVE  Reported(v)' /\ Sent(v)' /\ Judged(v)' /\ Delivered(v)'
  <2>1. CASE v = w
    BY <1>1, <1>2, <2>1, ReportedStep, SentStep, JudgedStep, DeliveredStep
  <2>2. CASE v # w
    <3>1. Same(v) /\ UNCHANGED <<opts, expired>>
      BY <1>2, <2>2, OthersStand
    <3> QED
      BY <1>1, <3>1, OthersKeep
  <2> QED
    BY <2>1, <2>2
<1> QED
  BY <1>2, <1>3, Zenon DEF IInv, NilMeansDelivered

\* The steps around the cycles leave them alone, or end them all.
LEMMA AroundInv ==
    ASSUME IInv, Boot \/ Crash \/ Expire \/ Revoke \/ HeartbeatStep
    PROVE  IInv'
<1> USE DEF cycleVars
<1>1. TypeOK /\ TypeOK'
  BY ProcessTypes, HeartbeatTypes DEF IInv
<1>2. UNCHANGED <<opts, next, report, call, good, stored>>
  BY DEF Boot, Crash, Expire, Revoke, HeartbeatStep, HeartbeatSent, HeartbeatRefused,
         HeartbeatReauth, HeartbeatAnswered, HeartbeatEnds
<1>3. \/ UNCHANGED <<pc, ret>> /\ (expired' = expired \/ expired' = TRUE)
      \/ pc' = [w \in Workers |-> "idle"] /\ ret' = [w \in Workers |-> "none"]
  BY DEF Boot, Crash, Expire, Revoke, HeartbeatStep, HeartbeatSent, HeartbeatRefused,
         HeartbeatReauth, HeartbeatAnswered, HeartbeatEnds, agentVars
<1>4. ASSUME NEW v \in Workers
      PROVE  Reported(v)' /\ Sent(v)' /\ Judged(v)' /\ Delivered(v)'
  <2>1. Reported(v) /\ Sent(v) /\ Judged(v) /\ Delivered(v)
    BY Zenon DEF IInv, NilMeansDelivered
  <2>2. Sent(v)'
    BY <1>2, <2>1 DEF Sent
  <2>3. pc'[v] = pc[v] \/ pc'[v] = "idle"
    BY <1>3
  <2>4. Reported(v)'
    BY <1>2, <2>1, <2>3 DEF Reported
  <2>5. Judged(v)'
    BY <1>2, <2>1, <2>3 DEF Judged
  <2>6. Delivered(v)'
    BY <1>1, <1>2, <1>3, <2>1 DEF Delivered, TypeOK
  <2> QED
    BY <2>2, <2>4, <2>5, <2>6
<1> QED
  BY <1>1, <1>4, Zenon DEF IInv, NilMeansDelivered

\* Stuttering.
LEMMA StutterInv == ASSUME IInv, UNCHANGED vars PROVE IInv'
<1> USE DEF vars, agentVars, cycleVars, countVars
<1>1. TypeOK'
  BY DEF IInv, TypeOK
<1>2. ASSUME NEW v \in Workers
      PROVE  Reported(v)' /\ Sent(v)' /\ Judged(v)' /\ Delivered(v)'
  <2>1. Reported(v) /\ Sent(v) /\ Judged(v) /\ Delivered(v)
    BY Zenon DEF IInv, NilMeansDelivered
  <2>2. Same(v) /\ UNCHANGED <<opts, expired>>
    BY DEF Same
  <2> QED
    BY <2>1, <2>2, OthersKeep
<1> QED
  BY <1>1, <1>2, Zenon DEF IInv, NilMeansDelivered

\* Every reachable state of the cycles, the heartbeat and the token cache satisfies the
\* inductive invariant (runner.go cycle, reporter.go SendOne).
THEOREM Invariance == Spec => []IInv
<1>1. IInv /\ [Next]_vars => IInv'
  BY CycleInv, AroundInv, StutterInv DEF Next
<1> QED
  BY <1>1, InitInv, PTL DEF Spec

\* Every reachable state is well typed, whatever the numbers of workers, tasks and
\* targets: no call is tried more than RetryCount + 1 times (reporter.go SendOne).
THEOREM TypeCorrect == Spec => []TypeOK
<1>1. IInv => TypeOK
  BY DEF IInv
<1> QED
  BY <1>1, Invariance, PTL

\* Under ReturnFailure nil means that some target has the report (runner.go cycle).
THEOREM NilIsDelivered == Spec => []NilMeansDelivered
<1>1. IInv => NilMeansDelivered
  BY DEF IInv
<1> QED
  BY <1>1, Invariance, PTL

\* A report that goes out names every task that is enabled (collect.go).
THEOREM TasksStay == Spec => []NoTaskVanishes
<1>1. IInv => NoTaskVanishes
  <2> SUFFICES ASSUME IInv, NEW w \in Workers, pc[w] \notin {"idle", "collect"},
                      ~opts.emptyOnFailure, NEW i \in Tasks \ Disabled
               PROVE  report[w][i] # "none"
    BY DEF NoTaskVanishes
  <2>1. Reported(w)
    BY Zenon DEF IInv
  <2> QED
    BY <2>1 DEF Reported
<1> QED
  BY <1>1, Invariance, PTL

\* No step takes a confirmation back before the cycle ends (reporter.go SendOne;
\* runner.go cycle).
THEOREM ConfirmedOnce == Spec => SentOnce
<1> DEFINE Kept == \A w \in Workers, t \in Targets :
              call[w][t].last = "ok" /\ pc[w] # "idle" => call'[w][t].last = "ok"
<1>1. IInv /\ [Next]_vars => Kept
  <2> SUFFICES ASSUME IInv, [Next]_vars, NEW v \in Workers, NEW t \in Targets,
                      call[v][t].last = "ok", pc[v] # "idle"
               PROVE  call'[v][t].last = "ok"
    OBVIOUS
  <2>1. TypeOK /\ Sent(v) /\ Judged(v)
    BY Zenon DEF IInv
  <2>2. call[v][t].done
    BY <2>1, Zenon DEF Sent
  <2>3. ASSUME NEW w \in Workers, BeginCycle(w) PROVE call'[v][t] = call[v][t]
    BY <2>1, <2>3 DEF BeginCycle, TypeOK
  <2>4. ASSUME NEW w \in Workers, Install(w) PROVE call'[v][t] = call[v][t]
    <3>1. CASE v # w
      BY <2>1, <2>4, <3>1 DEF Install, TypeOK
    <3>2. CASE v = w
      <4>1. next[w] # t
        BY <2>1, <2>4, <3>2 DEF Install, Judged
      <4> QED
        BY <2>1, <2>4, <3>2, <4>1 DEF Install, TypeOK
    <3> QED
      BY <3>1, <3>2
  <2>5. ASSUME NEW w \in Workers, NEW u \in Targets, Sending(w, u),
               \A x \in Workers, y \in Targets :
                  x # w \/ y # u => call'[x][y] = call[x][y]
        PROVE  call'[v][t] = call[v][t]
    <3>1. v # w \/ t # u
      BY <2>2, <2>5, Zenon DEF Sending
    <3> QED
      BY <2>5, <3>1, Zenon
  <2>6. ASSUME NEW w \in Workers, NEW u \in Targets,
               SendCanceled(w, u) \/ SendAnswered(w, u) \/ SendFails(w, u)
        PROVE  call'[v][t] = call[v][t]
    <3>1. Sending(w, u)
      BY <2>6, Zenon DEF SendCanceled, SendAnswered, SendFails
    <3>2. ASSUME NEW x \in Workers, NEW y \in Targets, x # w \/ y # u
          PROVE  call'[x][y] = call[x][y]
      BY <2>1, <2>6, <3>2
      DEF SendCanceled, SendAnswered, SendFails, Attempted, TypeOK
    <3> QED
      BY <2>5, <3>1, <3>2, Zenon
  <2>7. CASE UNCHANGED call
    BY <2>7
  <2> QED
    BY <2>3, <2>4, <2>6, <2>7
    DEF Next, CycleStep, HeartbeatStep, Boot, Crash, Expire, Revoke, HeartbeatSent,
        HeartbeatRefused, HeartbeatReauth, HeartbeatAnswered, HeartbeatEnds, CollectTask,
        CollectCanceled, EncodeFails, Encode, SendReports, SendDone, Judge, CycleEnds,
        ClearTokenCache, VerifyWithMonitor, VerifyFails, WriteCache, RenameCache,
        ResendDone, cycleVars, vars
<1>2. Kept => [Kept]_vars
  OBVIOUS
<1> QED
  BY <1>1, Invariance, PTL DEF Spec, SentOnce

=============================================================================
