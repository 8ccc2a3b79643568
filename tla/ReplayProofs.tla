---------------------------- MODULE ReplayProofs ----------------------------
(***************************************************************************)
(* What holds of the replay engine for every capability: any number of     *)
(* steps and conditions, attended or not, and however late the requests of *)
(* the page leave.                                                         *)
(***************************************************************************)
EXTENDS Replay, TLAPS

Results == [kind : Kinds, at : Int]
Hazards == Risky \cup {None}

\* Every verdict on a failure is a result.
LEMMA VerdictIsResult ==
  ASSUME TypeOK, NEW u \in BOOLEAN, NEW h \in Hazards
  PROVE  Verdict(u, h) \in Results
  BY ReplayAssumption
     DEF TypeOK, Verdict, Result, Results, Hazards, Kinds, None, Steps

\* A note leaves a step labelled risky, or nothing, in _hazard.
LEMMA NotedIsHazard ==
  ASSUME TypeOK, NEW m \in BOOLEAN
  PROVE  Noted(m) \in Hazards
  BY DEF TypeOK, Noted, Hazards

\* What a failed step leaves behind, escalated or not.
LEMMA StepFailedType ==
  ASSUME TypeOK, NEW u \in BOOLEAN, NEW h \in Hazards, StepFailed(u, h)
  PROVE  /\ pc' \in {"parked", "idle"}
         /\ hazard' = h
         /\ escalations' \in Nat
         /\ result' \in Results
<1>1. Verdict(u, h) \in Results
  BY VerdictIsResult
<1>2. QED
  BY <1>1 DEF StepFailed, Finish, TypeOK, Results

\* What one poll leaves behind when it interrupts a step.
LEMMA InterruptedType ==
  ASSUME TypeOK, NEW s \in SUBSET Conds, NEW acted \in BOOLEAN,
         Interrupted(s, acted)
  PROVE  /\ pc' \in {"parked", "idle", "recovering"}
         /\ pc' = "recovering" => recover' \in Recoverable
         /\ fires' \in [Conds -> Nat]
         /\ recover' \in Recoverable \cup {None}
         /\ hazard' = hazard
         /\ escalations' \in Nat
         /\ result' \in Results
<1>1. CASE StepFailed(FALSE, hazard) /\ UNCHANGED <<fires, recover>>
  <2>1. hazard \in Hazards
    BY DEF TypeOK, Hazards
  <2>2. QED
    BY <1>1, <2>1, StepFailedType DEF TypeOK
<1>2. ASSUME NEW c \in Conds, c \in Recoverable, Recover(c, acted)
      PROVE  /\ pc' \in {"parked", "idle", "recovering"}
             /\ pc' = "recovering" => recover' \in Recoverable
             /\ fires' \in [Conds -> Nat]
             /\ recover' \in Recoverable \cup {None}
             /\ hazard' = hazard
             /\ escalations' \in Nat
             /\ result' \in Results
  <2>1. fires' \in [Conds -> Nat]
    BY <1>2 DEF Recover, CountFire, TypeOK
  <2>2. hazard \in Hazards /\ mutated \in BOOLEAN
    BY DEF TypeOK, Hazards
  <2>3. CASE StepFailed(FALSE, hazard) /\ UNCHANGED recover
    BY <2>1, <2>2, <2>3, StepFailedType DEF TypeOK
  <2>4. CASE StepFailed(mutated, hazard) /\ UNCHANGED recover
    BY <2>1, <2>2, <2>4, StepFailedType DEF TypeOK
  <2>5. CASE /\ pc' = "recovering"
             /\ recover' = c
             /\ UNCHANGED <<escalations, hazard, result>>
    BY <1>2, <2>1, <2>5 DEF TypeOK, Results
  <2>6. QED
    BY <1>2, <2>3, <2>4, <2>5 DEF Recover
<1>3. ASSUME NEW c \in Conds, Finish(Result("BUSINESS_OUTCOME", c)),
             UNCHANGED <<fires, recover, escalations, hazard>>
      PROVE  /\ pc' \in {"parked", "idle", "recovering"}
             /\ pc' = "recovering" => recover' \in Recoverable
             /\ fires' \in [Conds -> Nat]
             /\ recover' \in Recoverable \cup {None}
             /\ hazard' = hazard
             /\ escalations' \in Nat
             /\ result' \in Results
  BY <1>3, ReplayAssumption
     DEF Finish, Result, Results, Kinds, Conds, TypeOK
<1>4. QED
  BY <1>1, <1>2, <1>3 DEF Interrupted

\* An engine that has not been called yet is well typed.
LEMMA InitTypeOK == Init => TypeOK
<1> SUFFICES ASSUME Init PROVE TypeOK
  OBVIOUS
<1>1. result \in Results
  BY DEF Init, Result, Results, Kinds, None
<1>2. fires \in [Conds -> Nat]
  BY DEF Init
<1>3. 0 \in 0 .. N
  BY ReplayAssumption
<1>4. QED
  BY <1>1, <1>2, <1>3 DEF Init, TypeOK, Phases, Results

\* A new run starts from well-typed locals.
LEMMA NewRunType ==
  ASSUME NewRun, NEW dir \in Nat, ResetRunState(dir)
  PROVE  /\ index' = 0
         /\ suppressed' \subseteq Conds /\ kept' \subseteq Conds
         /\ fires' \in [Conds -> Nat]
         /\ recover' = None /\ escalations' \in Nat /\ hazard' = None
         /\ mutated' \in BOOLEAN /\ blocked' \in BOOLEAN /\ expired' \in BOOLEAN
         /\ runDir' = dir
         /\ showing' \subseteq Conds /\ stale' \subseteq showing'
         /\ inflight' = {} /\ tried' = {} /\ sent' = {}
         /\ recoverySent' \in BOOLEAN
  BY DEF NewRun, ResetRunState

\* Every step keeps the types.
LEMMA NextTypeOK == TypeOK /\ [Next]_vars => TypeOK'
<1> SUFFICES ASSUME TypeOK, [Next]_vars PROVE TypeOK'
  OBVIOUS
<1>h. hazard \in Hazards
  BY DEF TypeOK, Hazards
<1>1. CASE Refuse
  <2>1. 0 \in 0 .. N
    BY ReplayAssumption
  <2>2. /\ pc' = "idle" /\ result' \in Results
        /\ NewRun /\ ResetRunState(0) /\ runs' = runs + 1
    BY <1>1, ReplayAssumption DEF Refuse, Finish, Result, Results, Kinds, None
  <2>3. QED
    BY <2>1, <2>2, NewRunType DEF TypeOK, Results, Phases
<1>2. CASE Begin
  <2>1. 0 \in 0 .. N
    BY ReplayAssumption
  <2>2. /\ pc' = "start" /\ result' \in Results
        /\ NewRun /\ ResetRunState(runs + 1) /\ runs' = runs + 1
    BY <1>2, ReplayAssumption DEF Begin, Result, Results, Kinds, None
  <2>3. runs + 1 \in Nat
    BY DEF TypeOK
  <2>4. QED
    BY <2>1, <2>2, <2>3, NewRunType DEF TypeOK, Results, Phases
<1>3. CASE Start
  BY <1>3 DEF Start, TypeOK, Phases, engine, marks, calls, page, traffic
<1>4. CASE CheckRequires
  BY <1>4, ReplayAssumption
     DEF CheckRequires, TypeOK, Phases, Kinds, Finish, Result, None,
         engine, marks, calls, page, traffic
<1>5. CASE StartFails
  <2>1. Verdict(FALSE, hazard) \in Results
    BY <1>h, VerdictIsResult
  <2>2. QED
    BY <1>5, <2>1
       DEF StartFails, Finish, TypeOK, Phases, Results,
           engine, marks, calls, page, traffic
<1>6. CASE EnterStep
  <2>1. suppressed' \subseteq Conds /\ stale' \subseteq showing'
    BY <1>6 DEF EnterStep, Snapshot, Armed, TypeOK
  <2>2. index \in Steps
    BY <1>6, ReplayAssumption DEF EnterStep, TypeOK, Steps
  <2>3. QED
    BY <1>6, <2>1, <2>2 DEF EnterStep, TypeOK, Phases, calls, traffic
<1>7. CASE PollBeforeAct
  <2>1. suppressed' \in SUBSET Conds
    BY <1>7 DEF PollBeforeAct, Fresh, TypeOK
  <2>2. CASE Interrupted(suppressed', FALSE)
    BY <1>7, <2>1, <2>2, InterruptedType
       DEF PollBeforeAct, TypeOK, Phases, Results, marks, calls, page, traffic
  <2>3. CASE /\ pc' = "perform"
             /\ UNCHANGED <<fires, recover, escalations, hazard, result>>
    BY <1>7, <2>1, <2>3
       DEF PollBeforeAct, TypeOK, Phases, marks, calls, page, traffic
  <2>4. QED
    BY <1>7, <2>2, <2>3 DEF PollBeforeAct
<1>8. CASE Perform
  <2>1. PICK landed \in BOOLEAN, leaves \in BOOLEAN, late \in BOOLEAN :
          /\ Attempt(landed, leaves, late)
          /\ \/ /\ landed
                /\ pc' = "await"
                /\ hazard' = Noted(mutated')
                /\ UNCHANGED <<escalations, result>>
             \/ /\ Retryable
                /\ pc' \in {"ready", "await"}
                /\ UNCHANGED <<escalations, hazard, result>>
             \/ StepFailed(index \in Risky /\ mutated', Noted(mutated'))
    BY <1>8 DEF Perform
  <2>2. index \in Steps
    BY <1>8 DEF Perform, TypeOK
  <2>3. /\ mutated' \in BOOLEAN
        /\ sent' \subseteq Risky
        /\ inflight' \subseteq Mutating
        /\ tried' \subseteq Steps
    BY <2>1, <2>2, ReplayAssumption DEF Attempt, TypeOK
  <2>4. Noted(mutated') \in Hazards
    BY <2>3, NotedIsHazard
  <2>5. /\ pc' \in {"await", "ready", "parked", "idle"}
        /\ hazard' \in Hazards
        /\ escalations' \in Nat
        /\ result' \in Results
    BY <2>1, <2>3, <2>4, <1>h, StepFailedType DEF TypeOK, Results
  <2>6. QED
    BY <1>8, <2>2, <2>3, <2>5
       DEF Perform, TypeOK, Phases, Hazards, Results, calls, page
<1>9. CASE PostHolds
  <2>1. index + 1 \in 0 .. N
    BY <1>9, ReplayAssumption DEF PostHolds, TypeOK, Steps
  <2>2. QED
    BY <1>9, <2>1 DEF PostHolds, TypeOK, Phases, marks, calls, page, traffic
<1>10. CASE PollAfterAct
  <2>1. suppressed' \in SUBSET Conds
    BY <1>10 DEF PollAfterAct, Fresh, TypeOK
  <2>2. CASE Interrupted(suppressed', TRUE)
    BY <1>10, <2>1, <2>2, InterruptedType
       DEF PollAfterAct, TypeOK, Phases, Results, marks, calls, page, traffic
  <2>3. CASE /\ StepFailed(index \in Risky /\ mutated, Noted(mutated))
             /\ UNCHANGED <<fires, recover>>
    <3>1. Noted(mutated) \in Hazards
      BY NotedIsHazard DEF TypeOK
    <3>2. (index \in Risky /\ mutated) \in BOOLEAN
      OBVIOUS
    <3>3. QED
      BY <1>10, <2>1, <2>3, <3>1, <3>2, StepFailedType
         DEF PollAfterAct, TypeOK, Phases, Hazards, Results,
             marks, calls, page, traffic
  <2>4. CASE UNCHANGED <<pc, escalations, hazard, result, fires, recover>>
    BY <1>10, <2>1, <2>4
       DEF PollAfterAct, TypeOK, Phases, marks, calls, page, traffic
  <2>5. QED
    BY <1>10, <2>2, <2>3, <2>4 DEF PollAfterAct
<1>11. CASE RunRecovery
  <2>1. recover \in Recoverable /\ recover \in Conds
    BY <1>11, ReplayAssumption DEF RunRecovery, TypeOK
  <2>2. Target(recover) \in 0 .. N
    BY <2>1, ReplayAssumption DEF Target, TypeOK, Steps, Retry
  <2>3. mutated' \in BOOLEAN /\ recoverySent' \in BOOLEAN
    BY <1>11 DEF RunRecovery, TypeOK
  <2>4. /\ pc' \in {"enter", "parked", "idle"}
        /\ index' \in 0 .. N
        /\ hazard' \in Hazards
        /\ escalations' \in Nat
        /\ result' \in Results
    BY <1>11, <1>h, <2>2, StepFailedType DEF RunRecovery, TypeOK, Results
  <2>5. QED
    BY <1>11, <2>3, <2>4
       DEF RunRecovery, TypeOK, Phases, Hazards, Results, calls, page
<1>12. CASE EnterCheckpoint
  BY <1>12 DEF EnterCheckpoint, TypeOK, Phases, calls, page, traffic
<1>13. CASE CheckpointHolds
  BY <1>13 DEF CheckpointHolds, TypeOK, Phases, engine, marks, calls, page, traffic
<1>14. CASE PollCheckpoint
  <2>1. kept' \in SUBSET Conds
    BY <1>14 DEF PollCheckpoint, Fresh, TypeOK
  <2>2. CASE Interrupted(kept', TRUE)
    BY <1>14, <2>1, <2>2, InterruptedType
       DEF PollCheckpoint, TypeOK, Phases, Results, marks, calls, page, traffic
  <2>3. CASE /\ StepFailed(FALSE, hazard)
             /\ UNCHANGED <<fires, recover>>
    BY <1>14, <1>h, <2>1, <2>3, StepFailedType
       DEF PollCheckpoint, TypeOK, Phases, Results, marks, calls, page, traffic
  <2>4. CASE UNCHANGED <<pc, escalations, hazard, result, fires, recover>>
    BY <1>14, <2>1, <2>4
       DEF PollCheckpoint, TypeOK, Phases, marks, calls, page, traffic
  <2>5. QED
    BY <1>14, <2>2, <2>3, <2>4 DEF PollCheckpoint
<1>15. CASE Extract
  <2>1. Verdict(FALSE, hazard) \in Results
    BY <1>h, VerdictIsResult
  <2>2. Result("SUCCESS", None) \in Results
    BY DEF Result, Results, Kinds, None
  <2>3. QED
    BY <1>15, <2>1, <2>2
       DEF Extract, Finish, TypeOK, Phases, Results,
           engine, marks, calls, page, traffic
<1>16. CASE Unanswered
  <2>1. Verdict(FALSE, hazard) \in Results
    BY <1>h, VerdictIsResult
  <2>2. QED
    BY <1>16, <2>1
       DEF Unanswered, Finish, TypeOK, Phases, Results,
           engine, marks, calls, page, traffic
<1>17. CASE ResolvedByHuman
  <2>1. Result("BUSINESS_OUTCOME", None) \in Results
    BY DEF Result, Results, Kinds, None
  <2>2. QED
    BY <1>17, <2>1
       DEF ResolvedByHuman, Finish, TypeOK, Phases, Results,
           engine, marks, calls, page, traffic
<1>18. CASE Resume
  <2>1. Verdict(FALSE, hazard) \in Results
    BY <1>h, VerdictIsResult
  <2>2. N \in 0 .. N /\ \A f \in Steps : f + 1 \in 0 .. N
    BY ReplayAssumption DEF Steps
  <2>3. /\ pc' \in {"enter", "idle"}
        /\ index' \in 0 .. N
        /\ result' \in Results
    BY <1>18, <2>1, <2>2 DEF Resume, Finish, TypeOK, Results
  <2>4. QED
    BY <1>18, <2>3 DEF Resume, TypeOK, Phases, Results, marks, calls, page, traffic
<1>19. CASE PageChanges
  BY <1>19 DEF PageChanges, TypeOK, engine, marks, calls, traffic
<1>20. CASE LateRequest
  BY <1>20 DEF LateRequest, TypeOK, engine, calls, page
<1>21. CASE RequestBlocked
  BY <1>21 DEF RequestBlocked, TypeOK, engine, calls, page, traffic
<1>22. CASE DeadlinePasses
  BY <1>22 DEF DeadlinePasses, TypeOK, marks, calls, page, traffic
<1>23. CASE UNCHANGED vars
  BY <1>23 DEF vars, TypeOK, engine, marks, calls, page, traffic
<1>24. QED
  BY <1>1, <1>2, <1>3, <1>4, <1>5, <1>6, <1>7, <1>8, <1>9, <1>10, <1>11, <1>12,
     <1>13, <1>14, <1>15, <1>16, <1>17, <1>18, <1>19, <1>20, <1>21, <1>22, <1>23
     DEF Next, Engine, Step, Operator, Environment

\* Type correctness, for every capability and every configuration.
THEOREM TypeCorrect == Spec => []TypeOK
<1>1. QED
  BY InitTypeOK, NextTypeOK, PTL DEF Spec

-----------------------------------------------------------------------------
(* The hazard step is never performed again. *)

\* An interruption never starts a recovery from inside a risky step that has
\* acted, and only starts one that leads past the hazard.
LEMMA InterruptedKeepsPast ==
  ASSUME TypeOK, NEW s \in SUBSET Conds, NEW acted \in BOOLEAN,
         Interrupted(s, acted), index' = index
  PROVE  /\ hazard' = hazard
         /\ \/ pc' \in {"parked", "idle"}
            \/ /\ pc' = "recovering"
               /\ ~(acted /\ index \in Risky)
               /\ hazard # None => Target(recover)' > hazard
<1>h. hazard \in Hazards /\ mutated \in BOOLEAN
  BY DEF TypeOK, Hazards
<1>1. CASE StepFailed(FALSE, hazard)
  BY <1>h, <1>1, StepFailedType
<1>2. ASSUME NEW c \in Conds, Recover(c, acted)
      PROVE  /\ hazard' = hazard
             /\ \/ pc' \in {"parked", "idle"}
                \/ /\ pc' = "recovering"
                   /\ ~(acted /\ index \in Risky)
                   /\ hazard # None => Target(recover)' > hazard
  <2>1. CASE StepFailed(FALSE, hazard) \/ StepFailed(mutated, hazard)
    BY <1>h, <2>1, StepFailedType
  <2>2. CASE /\ ~(acted /\ index \in Risky)
             /\ ~Reruns(c)
             /\ pc' = "recovering"
             /\ recover' = c
             /\ UNCHANGED hazard
    <3>1. Target(recover)' = Target(c)
      BY <2>2 DEF Target
    <3>2. Target(c) \in Int
      BY ReplayAssumption DEF Target, TypeOK, Steps, Retry
    <3>3. hazard \in Int
      BY ReplayAssumption DEF TypeOK, None, Steps
    <3>4. QED
      BY <2>2, <3>1, <3>2, <3>3 DEF Reruns
  <2>3. QED
    BY <1>2, <2>1, <2>2 DEF Recover
<1>3. ASSUME NEW c \in Conds, Finish(Result("BUSINESS_OUTCOME", c)),
             UNCHANGED hazard
      PROVE  hazard' = hazard /\ pc' \in {"parked", "idle"}
  BY <1>3 DEF Finish
<1>4. QED
  BY <1>1, <1>2, <1>3 DEF Interrupted

\* No step leads back to the hazard: recoveries and handbacks are refused there.
LEMMA NextHazardInv == TypeOK /\ HazardInv /\ [Next]_vars => HazardInv'
<1> SUFFICES ASSUME TypeOK, HazardInv, [Next]_vars PROVE HazardInv'
  OBVIOUS
<1> USE DEF HazardInv, HazardStepIsOver, RecoveryIsPastHazard
<1>i. index \in Nat /\ N \in Nat \ {0}
  BY ReplayAssumption DEF TypeOK
<1>h. hazard \in Hazards /\ hazard \in Int /\ (hazard # None => hazard \in Steps)
  BY ReplayAssumption DEF TypeOK, Hazards, None, Steps
<1>1. CASE Refuse \/ Begin
  BY <1>1 DEF Refuse, Begin, NewRun, ResetRunState
<1>2. CASE StartFails \/ CheckRequires \/ Start
  BY <1>2 DEF StartFails, CheckRequires, Start, Finish, engine
<1>3. CASE EnterStep \/ EnterCheckpoint
  BY <1>3 DEF EnterStep, EnterCheckpoint
<1>4. CASE PollBeforeAct
  <2>1. suppressed' \in SUBSET Conds /\ index' = index
    BY <1>4 DEF PollBeforeAct, Fresh, TypeOK
  <2>2. CASE Interrupted(suppressed', FALSE)
    BY <1>4, <1>h, <2>1, <2>2, InterruptedKeepsPast DEF PollBeforeAct
  <2>3. CASE pc' = "perform" /\ UNCHANGED hazard
    BY <1>4, <2>1, <2>3 DEF PollBeforeAct
  <2>4. QED
    BY <1>4, <2>2, <2>3 DEF PollBeforeAct
<1>5. CASE Perform
  <2>1. mutated' \in BOOLEAN /\ index' = index /\ recover' = recover
    BY <1>5 DEF Perform, Attempt, TypeOK
  <2>2. Noted(mutated') \in {index, hazard} /\ Noted(mutated') \in Hazards
    BY <2>1, NotedIsHazard DEF Noted
  <2>3. hazard # None => index > hazard
    BY <1>5 DEF Perform
  <2>4. \/ pc' \in {"await", "parked", "idle"} /\ hazard' \in {index, hazard}
        \/ pc' \in {"ready", "await"} /\ hazard' = hazard
    BY <1>5, <2>1, <2>2, StepFailedType DEF Perform
  <2>5. QED
    BY <1>i, <1>h, <2>1, <2>3, <2>4
<1>6. CASE PostHolds
  BY <1>6, <1>i, <1>h DEF PostHolds
<1>7. CASE PollAfterAct
  <2>1. suppressed' \in SUBSET Conds /\ index' = index
    BY <1>7 DEF PollAfterAct, Fresh, TypeOK
  <2>2. CASE Interrupted(suppressed', TRUE)
    <3>1. hazard # None /\ index = hazard => index \in Risky
      BY DEF TypeOK
    <3>2. QED
      BY <1>7, <1>i, <1>h, <2>1, <2>2, <3>1, InterruptedKeepsPast DEF PollAfterAct
  <2>3. CASE StepFailed(index \in Risky /\ mutated, Noted(mutated))
    <3>1. Noted(mutated) \in {index, hazard} /\ Noted(mutated) \in Hazards
      BY NotedIsHazard DEF Noted, TypeOK
    <3>2. (index \in Risky /\ mutated) \in BOOLEAN
      OBVIOUS
    <3>3. hazard' \in {index, hazard} /\ pc' \in {"parked", "idle"}
      BY <2>3, <3>1, <3>2, StepFailedType
    <3>4. QED
      BY <1>7, <1>i, <1>h, <2>1, <3>3 DEF PollAfterAct
  <2>4. CASE UNCHANGED <<pc, hazard, recover>>
    BY <1>7, <2>1, <2>4 DEF PollAfterAct
  <2>5. QED
    BY <1>7, <2>2, <2>3, <2>4 DEF PollAfterAct
<1>8. CASE RunRecovery
  <2>1. hazard # None => index > hazard
    BY <1>8 DEF RunRecovery
  <2>2. CASE index' = Target(recover) /\ pc' = "enter" /\ UNCHANGED hazard
    BY <1>8, <2>2 DEF RunRecovery
  <2>3. CASE StepFailed(FALSE, hazard) /\ UNCHANGED index
    BY <1>h, <2>1, <2>3, StepFailedType
  <2>4. QED
    BY <1>8, <2>2, <2>3 DEF RunRecovery
<1>9. CASE CheckpointHolds \/ Extract \/ Unanswered \/ ResolvedByHuman
  BY <1>9 DEF CheckpointHolds, Extract, Unanswered, ResolvedByHuman, Finish, engine
<1>10. CASE PollCheckpoint
  <2>1. kept' \in SUBSET Conds /\ index' = index
    BY <1>10 DEF PollCheckpoint, Fresh, TypeOK
  <2>2. CASE Interrupted(kept', TRUE)
    BY <1>10, <1>h, <2>1, <2>2, InterruptedKeepsPast DEF PollCheckpoint
  <2>3. CASE StepFailed(FALSE, hazard)
    BY <1>10, <1>h, <2>1, <2>3, StepFailedType DEF PollCheckpoint
  <2>4. CASE UNCHANGED <<pc, hazard, recover>>
    BY <1>10, <2>1, <2>4 DEF PollCheckpoint
  <2>5. QED
    BY <1>10, <2>2, <2>3, <2>4 DEF PollCheckpoint
<1>11. CASE Resume
  <2>1. hazard # None => N > hazard
    BY <1>i, <1>h DEF Steps
  <2>2. hazard # None /\ index \notin Risky => index > hazard
    BY <1>11 DEF Resume, TypeOK
  <2>3. hazard # None => \A f \in Steps : ~BehindHazard(f + 1) => f + 1 > hazard
    BY <1>i, <1>h DEF BehindHazard, Steps
  <2>4. QED
    BY <1>11, <2>1, <2>2, <2>3 DEF Resume, Finish
<1>12. CASE PageChanges \/ LateRequest \/ RequestBlocked \/ DeadlinePasses
  BY <1>12 DEF PageChanges, LateRequest, RequestBlocked, DeadlinePasses, engine, Target
<1>13. CASE UNCHANGED vars
  BY <1>13 DEF vars, engine, Target
<1>14. QED
  BY <1>1, <1>2, <1>3, <1>4, <1>5, <1>6, <1>7, <1>8, <1>9, <1>10, <1>11, <1>12, <1>13
     DEF Next, Engine, Step, Operator, Environment

\* Once the engine has recorded that a consequential step dispatched, no retry,
\* recovery, restart or handback performs that step again: for every number of
\* risky steps, and even when requests leave late.
THEOREM HazardStepNeverPerformedAgain == Spec => []HazardStepIsOver
<1>1. Init => HazardInv
  BY DEF Init, HazardInv, HazardStepIsOver, RecoveryIsPastHazard
<1>2. HazardInv => HazardStepIsOver
  BY DEF HazardInv
<1>3. QED
  BY <1>1, <1>2, NextHazardInv, TypeCorrect, PTL DEF Spec

-----------------------------------------------------------------------------
(* Verdicts are honest when a request leaves with its action.  That hypothesis *)
(* excludes what the runs show to break it, requests that leave later; about   *)
(* the mutations of a recovery the second one is needed, and only for denials. *)

Prompt == ~LateDispatch /\ RiskyRecovery = {}

\* r claims neither that nothing happened nor doubt against the record S.
Honest(r, S) ==
  /\ r.kind \in Denials => S = {}
  /\ r.kind = "UNRESOLVED" => r.at \in S

\* A verdict is honest when the hazard it is given agrees with the record.
LEMMA VerdictIsHonest ==
  ASSUME NEW u \in BOOLEAN, NEW h, NEW S, h # None => h \in S,
         S # {} \/ u => h # None
  PROVE  Honest(Verdict(u, h), S)
  BY DEF Honest, Denials, Verdict, Result

\* A failed step ends in an honest verdict or in an intervention.
LEMMA StepFailedIsHonest ==
  ASSUME TypeOK, DispatchInv, Running,
         NEW u \in BOOLEAN, NEW h \in Hazards, NEW S, StepFailed(u, h),
         h # None => h \in S, S # {} \/ u => h # None
  PROVE  /\ pc' \in {"parked", "idle"}
         /\ hazard' = h
         /\ pc' = "parked" => result' = result
         /\ pc' = "idle" => Honest(result', S)
<1>1. Honest(Verdict(u, h), S)
  BY VerdictIsHonest
<1>2. QED
  BY <1>1 DEF StepFailed, Finish

\* So does an interruption of a step or of the checkpoint.
LEMMA InterruptedIsHonest ==
  ASSUME TypeOK, DispatchInv, NEW s, NEW acted \in BOOLEAN,
         Interrupted(s, acted),
         \/ pc = "ready" /\ ~acted
         \/ pc = "await"
         \/ pc = "checkpoint"
  PROVE  /\ pc' \in {"parked", "idle", "recovering"}
         /\ hazard' = hazard
         /\ pc' # "idle" => result' = result
         /\ pc' = "idle" => Honest(result', sent)
<1>h. /\ hazard \in Hazards /\ mutated \in BOOLEAN /\ FALSE \in BOOLEAN
      /\ Running
      /\ hazard # None => hazard \in sent
      /\ sent # {} => hazard # None
  BY DEF TypeOK, Hazards, DispatchInv, Running
<1>1. CASE StepFailed(FALSE, hazard)
  BY <1>1, <1>h, StepFailedIsHonest
<1>2. ASSUME NEW c \in Conds, Recover(c, acted)
      PROVE  /\ pc' \in {"parked", "idle", "recovering"}
             /\ hazard' = hazard
             /\ pc' # "idle" => result' = result
             /\ pc' = "idle" => Honest(result', sent)
  <2>1. CASE StepFailed(FALSE, hazard)
    BY <2>1, <1>h, StepFailedIsHonest
  <2>2. CASE acted /\ index \in Risky /\ StepFailed(mutated, hazard)
    <3>1. pc = "await"
      BY <2>2, ReplayAssumption DEF DispatchInv, Steps
    <3>2. mutated => hazard # None
      BY <2>2, <3>1 DEF DispatchInv
    <3>3. QED
      BY <2>2, <3>2, <1>h, StepFailedIsHonest
  <2>3. CASE pc' = "recovering" /\ UNCHANGED <<hazard, result>>
    BY <2>3
  <2>4. QED
    BY <1>2, <2>1, <2>2, <2>3 DEF Recover
<1>3. ASSUME NEW c \in Conds, Finish(Result("BUSINESS_OUTCOME", c)),
             UNCHANGED hazard
      PROVE  /\ pc' = "idle" /\ hazard' = hazard
             /\ Honest(result', sent)
  BY <1>3 DEF Finish, Result, Honest, Denials
<1>4. QED
  BY <1>1, <1>2, <1>3 DEF Interrupted

\* Every step of such a run keeps the hazard and the traffic in agreement.
LEMMA NextDispatchInv ==
  ASSUME ~LateDispatch, TypeOK, DispatchInv, [Next]_vars
  PROVE  DispatchInv'
<1> USE DEF Honest, StepsAreNotDenied, Denials, UnresolvedHasEvidence, Running
<1>h. /\ hazard \in Hazards /\ mutated \in BOOLEAN /\ FALSE \in BOOLEAN
      /\ hazard # None => hazard \in sent
      /\ sent # {} => hazard # None
  BY DEF TypeOK, Hazards, DispatchInv
<1>1. CASE Refuse \/ Begin
  BY <1>1 DEF Refuse, Begin, NewRun, ResetRunState, Finish, Result, DispatchInv
<1>2. CASE Start \/ CheckRequires
  BY <1>2 DEF Start, CheckRequires, Finish, Result, DispatchInv,
              engine, marks, calls, page, traffic
<1>3. CASE StartFails
  <2>1. Honest(Verdict(FALSE, hazard), sent)
    BY <1>h, VerdictIsHonest
  <2>2. QED
    BY <1>3, <2>1 DEF StartFails, Finish, DispatchInv, engine, traffic, marks
<1>4. CASE EnterStep \/ EnterCheckpoint
  BY <1>4 DEF EnterStep, EnterCheckpoint, DispatchInv, traffic
<1>5. CASE PollBeforeAct
  <2>1. CASE Interrupted(suppressed', FALSE)
    <3>1. pc = "ready" /\ UNCHANGED <<mutated, index, traffic>>
      BY <1>5 DEF PollBeforeAct, marks
    <3>2. /\ pc' \in {"parked", "idle", "recovering"}
          /\ hazard' = hazard
          /\ pc' # "idle" => result' = result
          /\ pc' = "idle" => Honest(result', sent)
      BY <2>1, <3>1, InterruptedIsHonest
    <3>3. QED
      BY <3>1, <3>2 DEF DispatchInv, traffic
  <2>2. CASE pc' = "perform" /\ UNCHANGED <<hazard, result>>
    BY <1>5, <2>2 DEF PollBeforeAct, DispatchInv, marks, traffic
  <2>3. QED
    BY <1>5, <2>1, <2>2 DEF PollBeforeAct
<1>6. CASE Perform
  <2>1. PICK landed \in BOOLEAN, leaves \in BOOLEAN, late \in BOOLEAN :
          /\ Attempt(landed, leaves, late)
          /\ \/ /\ landed
                /\ pc' = "await"
                /\ hazard' = Noted(mutated')
                /\ UNCHANGED <<escalations, result>>
             \/ /\ Retryable
                /\ pc' \in {"ready", "await"}
                /\ UNCHANGED <<escalations, hazard, result>>
             \/ StepFailed(index \in Risky /\ mutated', Noted(mutated'))
    BY <1>6 DEF Perform
  <2>2. /\ pc = "perform" /\ index' = index /\ index \in Steps
    BY <1>6 DEF Perform, TypeOK
  <2>3. /\ inflight' = {}
        /\ mutated' \in BOOLEAN
        /\ sent' \subseteq Mutating
    BY <2>1 DEF Attempt, DispatchInv, TypeOK
  <2>4. /\ index \notin Risky => sent' = sent /\ Noted(mutated') = hazard
        /\ index \in Risky /\ ~mutated' => sent' = sent /\ Noted(mutated') = hazard
        /\ index \in Risky /\ mutated' =>
             /\ index \in sent'
             /\ Noted(mutated') # None
             /\ Noted(mutated') \in sent'
    <3>1. index # None
      BY <2>2, ReplayAssumption DEF Steps, None
    <3>2. /\ mutated' = (mutated \/ leaves)
          /\ sent' = IF leaves /\ index \in Risky THEN sent \cup {index} ELSE sent
      BY <2>1 DEF Attempt
    <3>3. index \in Risky /\ mutated => index \in sent
      BY <2>2 DEF DispatchInv
    <3>4. QED
      BY <3>1, <3>2, <3>3, <1>h DEF Noted
  <2>5. /\ Noted(mutated') \in Hazards
        /\ Noted(mutated') # None => Noted(mutated') \in sent'
        /\ sent' # {} \/ (index \in Risky /\ mutated') => Noted(mutated') # None
    BY <1>h, <2>3, <2>4, NotedIsHazard
  <2>6. CASE /\ pc' \in {"await"}
             /\ hazard' = Noted(mutated')
             /\ result' = result
    BY <2>2, <2>3, <2>4, <2>5, <2>6 DEF DispatchInv
  <2>7. CASE /\ Retryable
             /\ pc' \in {"ready", "await"}
             /\ UNCHANGED <<hazard, result>>
    BY <2>2, <2>3, <2>4, <2>7 DEF DispatchInv, Retryable
  <2>8. CASE StepFailed(index \in Risky /\ mutated', Noted(mutated'))
    <3>1. (index \in Risky /\ mutated') \in BOOLEAN
      OBVIOUS
    <3>2. /\ pc' \in {"parked", "idle"}
          /\ hazard' = Noted(mutated')
          /\ pc' = "parked" => result' = result
          /\ pc' = "idle" => Honest(result', sent')
      BY <2>2, <2>5, <2>8, <3>1, StepFailedIsHonest
    <3>3. QED
      BY <2>2, <2>3, <2>5, <3>2 DEF DispatchInv
  <2>9. QED
    BY <2>1, <2>6, <2>7, <2>8
<1>7. CASE PostHolds
  BY <1>7 DEF PostHolds, DispatchInv, marks, traffic
<1>8. CASE PollAfterAct
  <2>1. pc = "await" /\ UNCHANGED <<mutated, index, traffic>>
    BY <1>8 DEF PollAfterAct, marks
  <2>2. CASE Interrupted(suppressed', TRUE)
    <3>1. /\ pc' \in {"parked", "idle", "recovering"}
          /\ hazard' = hazard
          /\ pc' # "idle" => result' = result
          /\ pc' = "idle" => Honest(result', sent)
      BY <2>1, <2>2, InterruptedIsHonest
    <3>2. QED
      BY <2>1, <3>1 DEF DispatchInv, traffic
  <2>3. CASE StepFailed(index \in Risky /\ mutated, Noted(mutated))
    <3>1. index \in Risky /\ mutated => hazard # None
      BY <2>1 DEF DispatchInv
    <3>2. Noted(mutated) = hazard
      BY <3>1 DEF Noted
    <3>3. (index \in Risky /\ mutated) \in BOOLEAN
      OBVIOUS
    <3>4. StepFailed(index \in Risky /\ mutated, hazard)
      BY <2>3, <3>2
    <3>5. /\ pc' \in {"parked", "idle"}
          /\ hazard' = hazard
          /\ pc' = "parked" => result' = result
          /\ pc' = "idle" => Honest(result', sent)
      BY <1>h, <2>1, <3>1, <3>3, <3>4, StepFailedIsHonest
    <3>6. QED
      BY <2>1, <3>5 DEF DispatchInv, traffic
  <2>4. CASE UNCHANGED <<pc, hazard, result>>
    BY <2>1, <2>4 DEF DispatchInv, traffic
  <2>5. QED
    BY <1>8, <2>2, <2>3, <2>4 DEF PollAfterAct
<1>9. CASE RunRecovery
  <2>1. pc = "recovering" /\ UNCHANGED <<inflight, tried, sent>>
    BY <1>9 DEF RunRecovery
  <2>2. CASE pc' = "enter" /\ UNCHANGED <<hazard, result>>
    BY <2>1, <2>2 DEF DispatchInv
  <2>3. CASE StepFailed(FALSE, hazard)
    <3>1. /\ pc' \in {"parked", "idle"}
          /\ hazard' = hazard
          /\ pc' = "parked" => result' = result
          /\ pc' = "idle" => Honest(result', sent)
      BY <1>h, <2>1, <2>3, StepFailedIsHonest
    <3>2. QED
      BY <2>1, <3>1 DEF DispatchInv
  <2>4. QED
    BY <1>9, <2>2, <2>3 DEF RunRecovery
<1>10. CASE CheckpointHolds
  BY <1>10 DEF CheckpointHolds, DispatchInv, engine, traffic
<1>11. CASE PollCheckpoint
  <2>1. pc = "checkpoint" /\ UNCHANGED <<mutated, index, traffic>>
    BY <1>11 DEF PollCheckpoint, marks
  <2>2. CASE Interrupted(kept', TRUE)
    <3>1. /\ pc' \in {"parked", "idle", "recovering"}
          /\ hazard' = hazard
          /\ pc' # "idle" => result' = result
          /\ pc' = "idle" => Honest(result', sent)
      BY <2>1, <2>2, InterruptedIsHonest
    <3>2. QED
      BY <2>1, <3>1 DEF DispatchInv, traffic
  <2>3. CASE StepFailed(FALSE, hazard)
    <3>1. /\ pc' \in {"parked", "idle"}
          /\ hazard' = hazard
          /\ pc' = "parked" => result' = result
          /\ pc' = "idle" => Honest(result', sent)
      BY <1>h, <2>1, <2>3, StepFailedIsHonest
    <3>2. QED
      BY <2>1, <3>1 DEF DispatchInv, traffic
  <2>4. CASE UNCHANGED <<pc, hazard, result>>
    BY <2>1, <2>4 DEF DispatchInv, traffic
  <2>5. QED
    BY <1>11, <2>2, <2>3, <2>4 DEF PollCheckpoint
<1>12. CASE Extract \/ Unanswered \/ ResolvedByHuman
  <2>1. Honest(Verdict(FALSE, hazard), sent)
    BY <1>h, VerdictIsHonest
  <2>2. pc' = "idle" /\ UNCHANGED <<hazard, traffic>>
    BY <1>12 DEF Extract, Unanswered, ResolvedByHuman, Finish
  <2>3. \/ result' = Verdict(FALSE, hazard)
        \/ result' = Result("SUCCESS", None)
        \/ result' = Result("BUSINESS_OUTCOME", None)
    BY <1>12 DEF Extract, Unanswered, ResolvedByHuman, Finish
  <2>4. Honest(Result("SUCCESS", None), sent) /\ Honest(Result("BUSINESS_OUTCOME", None), sent)
    BY DEF Result
  <2>5. Honest(result', sent)
    BY <2>1, <2>3, <2>4
  <2>6. QED
    BY <2>2, <2>5 DEF DispatchInv, traffic
<1>13. CASE Resume
  <2>1. Honest(Verdict(FALSE, hazard), sent)
    BY <1>h, VerdictIsHonest
  <2>2. pc' \in {"enter", "idle"} /\ UNCHANGED <<hazard, traffic>>
    BY <1>13 DEF Resume, Finish
  <2>3. /\ pc' = "idle" => result' = Verdict(FALSE, hazard)
        /\ pc' = "enter" => result' = result
    BY <1>13 DEF Resume, Finish
  <2>4. pc = "parked"
    BY <1>13 DEF Resume
  <2>5. QED
    BY <2>1, <2>2, <2>3, <2>4 DEF DispatchInv, traffic
<1>14. CASE PageChanges \/ RequestBlocked \/ DeadlinePasses
  BY <1>14 DEF PageChanges, RequestBlocked, DeadlinePasses, DispatchInv,
               engine, marks, traffic
<1>15. CASE LateRequest
  BY <1>15 DEF LateRequest, DispatchInv
<1>16. CASE UNCHANGED vars
  BY <1>16 DEF vars, engine, marks, traffic, DispatchInv
<1>17. QED
  BY <1>1, <1>2, <1>3, <1>4, <1>5, <1>6, <1>7, <1>8, <1>9, <1>10, <1>11, <1>12,
     <1>13, <1>14, <1>15, <1>16
     DEF Next, Engine, Step, Operator, Environment

\* So they agree throughout.
LEMMA DispatchInvariant == ASSUME ~LateDispatch PROVE Spec => []DispatchInv
<1>1. Init => DispatchInv
  BY DEF Init, DispatchInv, StepsAreNotDenied, Denials, UnresolvedHasEvidence, Running, Result
<1>2. TypeOK /\ DispatchInv /\ [Next]_vars => DispatchInv'
  BY NextDispatchInv
<1>3. QED
  BY <1>1, <1>2, TypeCorrect, PTL DEF Spec

\* When requests leave with their action, no FAILURE, no allowlist and no
\* precondition verdict denies a mutation that a risky step sent, whatever the
\* recoveries of the run did (the verdict in run(), _note_hazard's call sites).
THEOREM StepMutationsAreNotDenied == ASSUME ~LateDispatch PROVE Spec => []StepsAreNotDenied
<1>1. DispatchInv => StepsAreNotDenied
  BY DEF DispatchInv
<1>2. QED
  BY <1>1, DispatchInvariant, PTL

\* Recoveries without a mutation leave no trace of one.
LEMMA QuietRecoveries == ASSUME RiskyRecovery = {} PROVE Spec => []~recoverySent
<1>1. Init => ~recoverySent
  BY DEF Init
<1>2. ~recoverySent /\ [Next]_vars => ~recoverySent'
  <2> SUFFICES ASSUME ~recoverySent, [Next]_vars  PROVE ~recoverySent'
    OBVIOUS
  <2>1. CASE Refuse \/ Begin
    BY <2>1 DEF Refuse, Begin, NewRun
  <2>2. CASE Perform \/ LateRequest \/ RunRecovery
    BY <2>2 DEF Perform, LateRequest, RunRecovery
  <2>3. CASE UNCHANGED traffic
    BY <2>3 DEF traffic
  <2>4. CASE Start \/ CheckRequires \/ EnterStep \/ PollBeforeAct \/ PostHolds \/ PollAfterAct
    BY <2>3, <2>4 DEF Start, CheckRequires, EnterStep, PollBeforeAct, PostHolds, PollAfterAct
  <2>5. CASE EnterCheckpoint \/ CheckpointHolds \/ PollCheckpoint \/ Extract
    BY <2>3, <2>5 DEF EnterCheckpoint, CheckpointHolds, PollCheckpoint, Extract
  <2>6. CASE Unanswered \/ Operator \/ DeadlinePasses \/ StartFails
    BY <2>3, <2>6 DEF Unanswered, Operator, ResolvedByHuman, Resume, DeadlinePasses, StartFails
  <2>7. CASE PageChanges \/ RequestBlocked \/ UNCHANGED vars
    BY <2>3, <2>7 DEF PageChanges, RequestBlocked, vars
  <2>8. QED
    BY <2>1, <2>2, <2>4, <2>5, <2>6, <2>7 DEF Next, Engine, Step, Environment
<1>3. QED
  BY <1>1, <1>2, PTL DEF Spec

\* When recoveries send none either, the engine never calls a run FAILURE after a
\* consequential mutation left the browser.
THEOREM FailureIsHonest == ASSUME Prompt PROVE Spec => []NoFalseFailure
<1>1. DispatchInv /\ ~recoverySent => NoFalseFailure
  BY DEF DispatchInv, StepsAreNotDenied, NoFalseFailure
<1>2. ~LateDispatch /\ RiskyRecovery = {}
  BY DEF Prompt
<1>3. QED
  BY <1>1, <1>2, DispatchInvariant, QuietRecoveries, PTL

\* And UNRESOLVED always names a risky step that did send one, also in runs of
\* which a recovery sends mutations of its own.
THEOREM DoubtIsFounded == ASSUME ~LateDispatch PROVE Spec => []UnresolvedHasEvidence
<1>1. DispatchInv => UnresolvedHasEvidence
  BY DEF DispatchInv
<1>2. QED
  BY <1>1, DispatchInvariant, PTL

\* With at most one step that is both risky and mutating, as every shipped
\* capability has, no step is performed after its mutation left the browser.
THEOREM NoDoubleFire ==
  ASSUME ~LateDispatch, \A i, j \in Risky \cap Mutating : i = j
  PROVE  Spec => []NoSecondDispatch
<1>1. TypeOK /\ DispatchInv /\ HazardStepIsOver => NoSecondDispatch
  <2> SUFFICES ASSUME TypeOK, DispatchInv, HazardStepIsOver,
                      pc = "perform", index \in Risky, index \in sent
               PROVE  FALSE
    BY DEF NoSecondDispatch
  <2>1. /\ index \in Risky \cap Mutating
        /\ hazard # None
        /\ hazard \in Risky \cap Mutating
    BY DEF TypeOK, DispatchInv
  <2>2. index = hazard
    BY <2>1
  <2>3. index \in Int
    BY ReplayAssumption DEF TypeOK
  <2>4. QED
    BY <2>1, <2>2, <2>3 DEF HazardStepIsOver
<1>2. QED
  BY <1>1, DispatchInvariant, TypeCorrect, HazardStepNeverPerformedAgain, PTL

-----------------------------------------------------------------------------
(* What each call leaves to its caller: the run directory, where a handback    *)
(* leads, and the contract of the result type.                                 *)

\* Every call, refused or not, starts by forgetting the directory of the one
\* before it (_reset_run_state before validation and the risk gate).
THEOREM DirectoryIsThisCalls == Spec => []RunDirIsThisRun
<1>1. Init => RunDirIsThisRun
  BY DEF Init, RunDirIsThisRun
<1>2. RunDirIsThisRun /\ [Next]_vars => RunDirIsThisRun'
  <2> SUFFICES ASSUME RunDirIsThisRun, [Next]_vars
               PROVE  RunDirIsThisRun'
    OBVIOUS
  <2>1. CASE Refuse \/ Begin
    BY <2>1 DEF Refuse, Begin, ResetRunState, RunDirIsThisRun
  <2>2. CASE UNCHANGED calls
    BY <2>2 DEF calls, RunDirIsThisRun
  <2>3. CASE Start \/ CheckRequires \/ StartFails \/ Extract \/ CheckpointHolds
             \/ EnterCheckpoint \/ PollCheckpoint \/ RunRecovery
    BY <2>2, <2>3 DEF Start, CheckRequires, StartFails, Extract, CheckpointHolds,
                      EnterCheckpoint, PollCheckpoint, RunRecovery
  <2>4. CASE Step
    BY <2>2, <2>4 DEF Step, EnterStep, PollBeforeAct, Perform, PostHolds, PollAfterAct, calls
  <2>5. CASE Unanswered \/ Operator \/ DeadlinePasses
    BY <2>2, <2>5 DEF Unanswered, Operator, ResolvedByHuman, Resume, DeadlinePasses
  <2>6. CASE PageChanges \/ LateRequest \/ RequestBlocked
    BY <2>2, <2>6 DEF PageChanges, LateRequest, RequestBlocked
  <2>7. CASE UNCHANGED vars
    BY <2>2, <2>7 DEF vars
  <2>8. QED
    BY <2>1, <2>3, <2>4, <2>5, <2>6, <2>7 DEF Next, Engine, Environment
<1>3. QED
  BY <1>1, <1>2, PTL DEF Spec

\* Under the assumptions of NoDoubleFire a handback never resumes at or before
\* a consequential step whose mutation left (the guard of _resume_scan).
THEOREM HandbacksArePastDispatch ==
  ASSUME ~LateDispatch, \A i, j \in Risky \cap Mutating : i = j
  PROVE  Spec => HandbackIsPastDispatch
<1>1. TypeOK /\ DispatchInv /\ HazardStepIsOver /\ [Next]_vars
        => [pc = "parked" /\ pc' = "enter" => \A i \in sent : index' > i]_vars
  <2> SUFFICES ASSUME TypeOK, DispatchInv, HazardStepIsOver, [Next]_vars,
                      pc = "parked", pc' = "enter", NEW i \in sent
               PROVE  index' > i
    OBVIOUS
  <2>1. Resume
    BY DEF Next, Engine, Step, Operator, Environment, Refuse, Begin, Running, Start,
           CheckRequires, StartFails, EnterStep, PollBeforeAct, Perform, PostHolds,
           PollAfterAct, EnterCheckpoint, CheckpointHolds, PollCheckpoint, Extract,
           RunRecovery, Unanswered, ResolvedByHuman, PageChanges, LateRequest,
           RequestBlocked, DeadlinePasses, Finish, vars
  <2>2. i = hazard /\ hazard # None /\ hazard \in Risky /\ hazard \in Steps
    BY ReplayAssumption DEF TypeOK, DispatchInv
  <2>3. i \in Int /\ index \in Int /\ i < N
    BY <2>2, ReplayAssumption DEF TypeOK, Steps
  <2>4. CASE index' = N
    BY <2>3, <2>4
  <2>5. ASSUME NEW frontier \in Steps, ~BehindHazard(frontier + 1), index' = frontier + 1
        PROVE  index' > i
    BY <2>2, <2>3, <2>5, ReplayAssumption DEF BehindHazard, Steps
  <2>6. CASE index \notin Risky /\ index' = index
    BY <2>2, <2>3, <2>6 DEF HazardStepIsOver
  <2>7. QED
    BY <2>1, <2>4, <2>5, <2>6 DEF Resume, Finish
<1>2. QED
  BY <1>1, DispatchInvariant, TypeCorrect, HazardStepNeverPerformedAgain, PTL
     DEF Spec, HandbackIsPastDispatch

\* What a call that was accepted may return.
Answers == {"SUCCESS", "BUSINESS_OUTCOME", "PRECONDITION_FAILED", "FAILURE",
            "OFF_ALLOWLIST", "UNRESOLVED"}

\* How far one step of the engine takes a call: to an answer, or not.
Proceeds ==
  /\ pc' # "idle" => result' = result
  /\ pc' = "idle" => result'.kind \in Answers

\* A failed step is an answer or an intervention.
LEMMA StepFailedProceeds ==
  ASSUME NEW u, NEW h, StepFailed(u, h)
  PROVE  Proceeds
  BY DEF StepFailed, Finish, Verdict, Result, Proceeds, Answers

\* So is an interruption, or it is a recovery.
LEMMA InterruptedProceeds ==
  ASSUME NEW s, NEW acted, Interrupted(s, acted)
  PROVE  Proceeds
<1>1. CASE StepFailed(FALSE, hazard)
  BY <1>1, StepFailedProceeds
<1>2. ASSUME NEW c \in Conds, Recover(c, acted)
      PROVE  Proceeds
  <2>1. CASE StepFailed(FALSE, hazard) \/ StepFailed(mutated, hazard)
    BY <2>1, StepFailedProceeds
  <2>2. CASE pc' = "recovering" /\ UNCHANGED <<hazard, result>>
    BY <2>2 DEF Proceeds
  <2>3. QED
    BY <1>2, <2>1, <2>2 DEF Recover
<1>3. ASSUME NEW c \in Conds, Finish(Result("BUSINESS_OUTCOME", c))
      PROVE  Proceeds
  BY <1>3 DEF Finish, Result, Proceeds, Answers
<1>4. QED
  BY <1>1, <1>2, <1>3 DEF Interrupted

\* A call that is running goes on to its answer and forgets nothing it sent.
LEMMA RunProceeds ==
  ASSUME TypeOK, Running, Next
  PROVE  Proceeds /\ sent \subseteq sent'
<1> USE DEF Running, Proceeds, Answers
<1>1. CASE Start \/ CheckRequires \/ StartFails
  BY <1>1 DEF Start, CheckRequires, StartFails, Finish, Result, Verdict, traffic
<1>2. CASE EnterStep \/ PostHolds \/ EnterCheckpoint \/ CheckpointHolds
  BY <1>2 DEF EnterStep, PostHolds, EnterCheckpoint, CheckpointHolds, traffic
<1>3. CASE PollBeforeAct \/ PollAfterAct \/ PollCheckpoint
  <2>1. UNCHANGED traffic
    BY <1>3 DEF PollBeforeAct, PollAfterAct, PollCheckpoint
  <2>2. CASE \E s, acted : Interrupted(s, acted)
    BY <2>1, <2>2, InterruptedProceeds DEF traffic
  <2>3. CASE \E u, h : StepFailed(u, h)
    BY <2>1, <2>3, StepFailedProceeds DEF traffic
  <2>4. CASE (pc' = "perform" /\ result' = result) \/ UNCHANGED <<pc, result>>
    BY <2>1, <2>4 DEF traffic
  <2>5. QED
    BY <1>3, <2>2, <2>3, <2>4 DEF PollBeforeAct, PollAfterAct, PollCheckpoint
<1>4. CASE Perform
  <2>1. sent \subseteq sent'
    BY <1>4 DEF Perform, Attempt
  <2>2. CASE \E u, h : StepFailed(u, h)
    BY <2>1, <2>2, StepFailedProceeds
  <2>3. CASE pc' \in {"ready", "await"} /\ result' = result
    BY <2>1, <2>3
  <2>4. QED
    BY <1>4, <2>2, <2>3 DEF Perform
<1>5. CASE RunRecovery
  <2>1. sent' = sent
    BY <1>5 DEF RunRecovery
  <2>2. CASE StepFailed(FALSE, hazard)
    BY <2>1, <2>2, StepFailedProceeds
  <2>3. CASE pc' = "enter" /\ result' = result
    BY <2>1, <2>3
  <2>4. QED
    BY <1>5, <2>2, <2>3 DEF RunRecovery
<1>6. CASE Extract \/ Unanswered \/ ResolvedByHuman
  BY <1>6 DEF Extract, Unanswered, ResolvedByHuman, Finish, Result, Verdict, traffic
<1>7. CASE Resume
  BY <1>7 DEF Resume, Finish, Result, Verdict, traffic
<1>8. CASE PageChanges \/ LateRequest \/ RequestBlocked \/ DeadlinePasses
  BY <1>8 DEF PageChanges, LateRequest, RequestBlocked, DeadlinePasses, traffic
<1>9. CASE Refuse \/ Begin
  BY <1>9 DEF Refuse, Begin
<1>10. QED
  BY <1>1, <1>2, <1>3, <1>4, <1>5, <1>6, <1>7, <1>8, <1>9
     DEF Next, Engine, Step, Operator, Environment

\* The contract with the mutations of steps alone, those of recoveries left aside.
StepContract == INSTANCE ResultContract WITH
  running <- Running, dispatched <- sent # {}, verdict <- result.kind

\* One step of the engine is one of the contract, or none.
LEMMA ContractStep ==
  TypeOK /\ DispatchInv /\ DispatchInv' /\ [Next]_vars
    => [StepContract!Next]_<<Running, sent # {}, result.kind>>
<1> USE DEF Running, StepContract!Definite, StepContract!NothingRan, StepContract!Refusals
<1> SUFFICES ASSUME TypeOK, DispatchInv, DispatchInv', [Next]_vars
             PROVE  [StepContract!Next]_<<Running, sent # {}, result.kind>>
  OBVIOUS
<1>1. CASE Refuse
  BY <1>1 DEF Refuse, Finish, Result, NewRun, StepContract!Next, StepContract!Refuse
<1>2. CASE Begin
  BY <1>2 DEF Begin, Result, NewRun, StepContract!Next, StepContract!Accept
<1>3. CASE Running /\ Next
  <2>1. Proceeds /\ sent \subseteq sent'
    BY <1>3, RunProceeds
  <2>2. CASE pc' # "idle"
    BY <1>3, <2>1, <2>2 DEF Proceeds, StepContract!Next, StepContract!Dispatch
  <2>3. CASE pc' = "idle"
    <3>1. result'.kind \in Answers
      BY <2>1, <2>3 DEF Proceeds
    <3>2. /\ result'.kind \in StepContract!NothingRan => sent' = {}
          /\ result'.kind = "UNRESOLVED" => sent' # {}
      BY DEF DispatchInv, StepsAreNotDenied, Denials, UnresolvedHasEvidence
    <3>3. (sent' # {}) \in {sent # {}, TRUE}
      BY <2>1
    <3>4. StepContract!Answer
      BY <1>3, <2>3, <3>1, <3>2, <3>3 DEF StepContract!Answer, Answers
    <3>5. QED
      BY <3>4 DEF StepContract!Next
  <2>4. QED
    BY <2>2, <2>3
<1>4. CASE UNCHANGED vars
  BY <1>4 DEF vars, traffic
<1>5. CASE ~Running /\ Next
  BY <1>1, <1>2, <1>5
     DEF Next, Engine, Step, Operator, Environment, Start, CheckRequires, StartFails,
         EnterStep, PollBeforeAct, Perform, PostHolds, PollAfterAct, EnterCheckpoint,
         CheckpointHolds, PollCheckpoint, Extract, RunRecovery, Unanswered,
         ResolvedByHuman, Resume, PageChanges, LateRequest, RequestBlocked, DeadlinePasses
<1>6. QED
  BY <1>3, <1>4, <1>5

\* When requests leave with their action, the engine implements the contract of its
\* result type for what its steps send, whatever recoveries send besides.
THEOREM StepsKeepTheContract == ASSUME ~LateDispatch PROVE Spec => StepContract!Spec
<1>1. Init => StepContract!Init
  BY DEF Init, StepContract!Init, Result, Running
<1>2. QED
  BY <1>1, ContractStep, DispatchInvariant, TypeCorrect, PTL DEF Spec, StepContract!Spec

\* When recoveries send none either, it implements the contract as it stands: every
\* caller that is modelled by the contract alone (the twin, the API) may be run with
\* this engine.
THEOREM EngineKeepsTheContract == ASSUME Prompt PROVE Spec => KeepsTheContract
<1>1. Init => Contract!Init
  BY DEF Init, Contract!Init, Result, Running
<1>2. ~recoverySent /\ ~recoverySent' /\ [StepContract!Next]_<<Running, sent # {}, result.kind>>
        => [Contract!Next]_<<Running, sent # {} \/ recoverySent, result.kind>>
  BY DEF StepContract!Next, StepContract!Refuse, StepContract!Accept, StepContract!Dispatch,
         StepContract!Answer, StepContract!Definite, StepContract!NothingRan,
         StepContract!Refusals, Contract!Next, Contract!Refuse, Contract!Accept,
         Contract!Dispatch, Contract!Answer, Contract!Definite, Contract!NothingRan,
         Contract!Refusals
<1>3. ~LateDispatch /\ RiskyRecovery = {}
  BY DEF Prompt
<1>4. QED
  BY <1>1, <1>2, <1>3, ContractStep, DispatchInvariant, QuietRecoveries, TypeCorrect, PTL
     DEF Spec, KeepsTheContract, Contract!Spec

-----------------------------------------------------------------------------
(* The freshness rule, for runs before an operator took part.  A handback can  *)
(* enter the checkpoint with the suppression of an earlier step: hence the     *)
(* condition.                                                                  *)

\* Outcomes that have shown since the step began are suppressed where the engine
\* polls for them, and the checkpoint inherits the suppression of the last step.
FreshInv ==
  /\ pc \in {"start", "requires"} => index = 0
  /\ pc \in {"ready", "perform", "await"}
       => (stale \cap Armed(index)) \ Recoverable \subseteq suppressed
  /\ pc \in {"enter", "checkpoint", "recovering"} /\ index = N
       => stale \ Recoverable \subseteq kept
  /\ pc = "checkpoint" => index = N

\* As long as no intervention was raised.
CalmInv ==
  /\ pc = "parked" => escalations # 0
  /\ escalations = 0 => FreshInv

\* A step that raises none ends or goes on to a recovery when it is interrupted.
LEMMA CalmStepFailed ==
  ASSUME escalations \in Nat, escalations' = 0, NEW u, NEW h, StepFailed(u, h)
  PROVE  pc' = "idle"
  BY DEF StepFailed, Finish

LEMMA CalmInterrupted ==
  ASSUME escalations \in Nat, escalations' = 0, NEW s, NEW acted, Interrupted(s, acted)
  PROVE  pc' \in {"idle", "recovering"}
  BY CalmStepFailed DEF Interrupted, Recover, Finish

\* An outcome that a poll answers with is not one it suppresses.
LEMMA AnswerIsNotSuppressed ==
  ASSUME NEW s, NEW acted, Interrupted(s, acted), result'.kind = "BUSINESS_OUTCOME",
         result.kind # "BUSINESS_OUTCOME"
  PROVE  result'.at \in (Armed(index) \cap showing) \ (Recoverable \cup s)
<1>1. ASSUME NEW u, NEW h, StepFailed(u, h)
      PROVE  FALSE
  BY <1>1 DEF StepFailed, Finish, Verdict, Result
<1>2. PICK c \in Conds : /\ IsHit(c, s)
                         /\ \/ c \in Recoverable /\ Recover(c, acted)
                            \/ c \notin Recoverable /\ Finish(Result("BUSINESS_OUTCOME", c))
  BY <1>1 DEF Interrupted
<1>3. ~Recover(c, acted)
  <2>1. ~StepFailed(FALSE, hazard) /\ ~StepFailed(mutated, hazard)
    BY <1>1
  <2>2. result' # result
    OBVIOUS
  <2>3. QED
    BY <2>1, <2>2 DEF Recover
<1>4. c \notin Recoverable /\ result'.at = c
  BY <1>2, <1>3 DEF Finish, Result
<1>5. QED
  BY <1>2, <1>4 DEF IsHit, Matching

\* While a call runs it has no result.
Undecided == Running => result.kind = "NONE"

LEMMA UndecidedInvariant == Spec => []Undecided
<1>1. Init => Undecided
  BY DEF Init, Undecided, Running
<1>2. TypeOK /\ Undecided /\ [Next]_vars => Undecided'
  <2> SUFFICES ASSUME TypeOK, Undecided, [Next]_vars
               PROVE  Undecided'
    OBVIOUS
  <2>1. CASE Refuse \/ Begin
    BY <2>1 DEF Refuse, Begin, Finish, Result, Undecided, Running
  <2>2. CASE Running /\ Next
    BY <2>2, RunProceeds DEF Proceeds, Undecided, Running
  <2>3. CASE UNCHANGED vars
    BY <2>3 DEF vars, Undecided, Running
  <2>4. CASE ~Running /\ Next /\ ~(Refuse \/ Begin)
    BY <2>4
       DEF Next, Engine, Step, Operator, Environment, Start, CheckRequires, StartFails,
           EnterStep, PollBeforeAct, Perform, PostHolds, PollAfterAct, EnterCheckpoint,
           CheckpointHolds, PollCheckpoint, Extract, RunRecovery, Unanswered, Running,
           ResolvedByHuman, Resume, PageChanges, LateRequest, RequestBlocked, DeadlinePasses
  <2>5. QED
    BY <2>1, <2>2, <2>3, <2>4
<1>3. QED
  BY <1>1, <1>2, TypeCorrect, PTL DEF Spec

\* Interventions are counted, and only a new call forgets the count.
LEMMA EscalationsGrow ==
  ASSUME TypeOK, [Next]_vars, ~(Refuse \/ Begin)
  PROVE  /\ escalations' = escalations \/ escalations' = escalations + 1
         /\ pc' = "parked" => pc = "parked" \/ escalations' = escalations + 1
<1>s. ASSUME NEW u, NEW h, StepFailed(u, h)
      PROVE  \/ pc' = "parked" /\ escalations' = escalations + 1
             \/ pc' = "idle" /\ escalations' = escalations
  BY <1>s DEF StepFailed, Finish
<1>1. CASE Start \/ CheckRequires \/ StartFails \/ EnterStep \/ PostHolds \/ EnterCheckpoint
           \/ CheckpointHolds \/ Extract
  BY <1>1 DEF Start, CheckRequires, StartFails, EnterStep, PostHolds, EnterCheckpoint,
              CheckpointHolds, Extract, Finish, engine
<1>2. ASSUME NEW s, NEW acted, Interrupted(s, acted)
      PROVE  \/ pc' = "parked" /\ escalations' = escalations + 1
             \/ pc' \in {"idle", "recovering"} /\ escalations' = escalations
  BY <1>2, <1>s DEF Interrupted, Recover, Finish
<1>3. CASE PollBeforeAct
  BY <1>3, <1>2 DEF PollBeforeAct
<1>4. CASE PollAfterAct
  BY <1>4, <1>2, <1>s DEF PollAfterAct
<1>5. CASE PollCheckpoint
  BY <1>5, <1>2, <1>s DEF PollCheckpoint
<1>6. CASE Perform
  BY <1>6, <1>s DEF Perform
<1>7. CASE RunRecovery
  BY <1>7, <1>s DEF RunRecovery
<1>8. CASE Unanswered \/ ResolvedByHuman \/ Resume
  BY <1>8 DEF Unanswered, ResolvedByHuman, Resume, Finish, engine
<1>9. CASE PageChanges \/ LateRequest \/ RequestBlocked \/ DeadlinePasses \/ UNCHANGED vars
  BY <1>9 DEF PageChanges, LateRequest, RequestBlocked, DeadlinePasses, engine, vars
<1>10. QED
  BY <1>1, <1>3, <1>4, <1>5, <1>6, <1>7, <1>8, <1>9
     DEF Next, Engine, Step, Operator, Environment

\* Every step that raises no intervention keeps it.
LEMMA NextFreshInv ==
  ASSUME TypeOK, FreshInv, pc # "parked", escalations' = 0, [Next]_vars
  PROVE  FreshInv'
<1>n. /\ N \in Nat \ {0} /\ index \in Int /\ stale \subseteq showing /\ stale \subseteq Conds
      /\ escalations \in Nat
  BY ReplayAssumption DEF TypeOK
<1>1. CASE Refuse \/ Begin
  BY <1>1, <1>n DEF Refuse, Begin, NewRun, Finish, FreshInv
<1>2. CASE Start \/ CheckRequires \/ StartFails
  BY <1>2, <1>n DEF Start, CheckRequires, StartFails, Finish, FreshInv, engine, page
<1>3. CASE EnterStep
  <2>1. pc' = "ready" /\ index' = index /\ suppressed' = (Armed(index) \ Recoverable) \cap showing
        /\ stale' = showing
    BY <1>3 DEF EnterStep, Snapshot
  <2>2. QED
    BY <2>1 DEF FreshInv, Armed
<1>4. CASE PollBeforeAct \/ PollAfterAct
  <2>1. /\ pc \in {"ready", "await"} /\ index' = index /\ stale' = stale
        /\ suppressed' = suppressed \cap showing /\ index \in Steps
    BY <1>4 DEF PollBeforeAct, PollAfterAct, Fresh, page, TypeOK
  <2>2. pc' \in {"idle", "recovering", "perform", "await"}
    <3>1. CASE \E s, acted : Interrupted(s, acted)
      BY <1>n, <3>1, CalmInterrupted
    <3>2. CASE \E u, h : StepFailed(u, h)
      BY <1>n, <3>2, CalmStepFailed
    <3>3. QED
      BY <1>4, <3>1, <3>2 DEF PollBeforeAct, PollAfterAct
  <2>3. index # N
    BY <2>1, <1>n DEF Steps
  <2>4. QED
    BY <1>n, <2>1, <2>2, <2>3 DEF FreshInv, Armed
<1>5. CASE Perform
  <2>1. /\ pc = "perform" /\ UNCHANGED <<index, stale, suppressed>>
        /\ pc' \in {"idle", "ready", "await"}
    BY <1>5, <1>n, CalmStepFailed DEF Perform, page
  <2>2. QED
    BY <2>1 DEF FreshInv, Armed
<1>6. CASE PostHolds
  <2>1. /\ pc = "await" /\ pc' = "enter" /\ index' = index + 1 /\ kept' = suppressed
        /\ stale' = stale
    BY <1>6 DEF PostHolds, page
  <2>2. index + 1 = N => stale \subseteq Armed(index)
    BY <1>n, ReplayAssumption DEF Armed, Conds, Steps
  <2>3. QED
    BY <2>1, <2>2 DEF FreshInv
<1>7. CASE EnterCheckpoint
  BY <1>7 DEF EnterCheckpoint, FreshInv, page
<1>8. CASE PollCheckpoint
  <2>1. /\ pc = "checkpoint" /\ index' = index /\ stale' = stale
        /\ kept' = kept \cap showing
    BY <1>8 DEF PollCheckpoint, Fresh, page
  <2>2. pc' \in {"idle", "recovering", "checkpoint"}
    <3>1. CASE \E s, acted : Interrupted(s, acted)
      BY <1>n, <3>1, CalmInterrupted
    <3>2. CASE \E u, h : StepFailed(u, h)
      BY <1>n, <3>2, CalmStepFailed
    <3>3. QED
      BY <1>8, <3>1, <3>2 DEF PollCheckpoint
  <2>3. QED
    BY <1>n, <2>1, <2>2 DEF FreshInv
<1>9. CASE RunRecovery
  <2>1. pc = "recovering" /\ UNCHANGED <<stale, kept>> /\ pc' \in {"enter", "idle"}
        /\ (pc' = "enter" => index' = Target(recover)) /\ recover \in Conds
    BY <1>9, <1>n, CalmStepFailed, ReplayAssumption DEF RunRecovery, TypeOK, page
  <2>2. Target(recover) = N => index = N
    BY <1>n, <2>1, ReplayAssumption DEF Target, Steps, Retry
  <2>3. QED
    BY <2>1, <2>2 DEF FreshInv
<1>10. CASE CheckpointHolds \/ Extract \/ Unanswered \/ ResolvedByHuman
  BY <1>10 DEF CheckpointHolds, Extract, Unanswered, ResolvedByHuman, Finish, FreshInv
<1>11. CASE Resume
  BY <1>11 DEF Resume
<1>12. CASE PageChanges
  BY <1>12 DEF PageChanges, engine, FreshInv, Armed
<1>13. CASE LateRequest \/ RequestBlocked
  BY <1>13 DEF LateRequest, RequestBlocked, engine, page, FreshInv, Armed
<1>14. CASE DeadlinePasses
  BY <1>14 DEF DeadlinePasses, page, FreshInv, Armed
<1>15. CASE UNCHANGED vars
  BY <1>15 DEF vars, engine, page, FreshInv, Armed
<1>16. QED
  BY <1>1, <1>2, <1>3, <1>4, <1>5, <1>6, <1>7, <1>8, <1>9, <1>10, <1>11, <1>12, <1>13,
     <1>14, <1>15 DEF Next, Engine, Step, Operator, Environment

LEMMA CalmInvariant == Spec => []CalmInv
<1>1. Init => CalmInv
  BY DEF Init, FreshInv, CalmInv
<1>2. TypeOK /\ CalmInv /\ [Next]_vars => CalmInv'
  <2> SUFFICES ASSUME TypeOK, CalmInv, [Next]_vars
               PROVE  CalmInv'
    OBVIOUS
  <2>1. CASE Refuse \/ Begin
    BY <2>1, ReplayAssumption DEF Refuse, Begin, NewRun, Finish, FreshInv, CalmInv
  <2>2. CASE ~(Refuse \/ Begin)
    <3>1. /\ escalations' = escalations \/ escalations' = escalations + 1
          /\ pc' = "parked" => pc = "parked" \/ escalations' = escalations + 1
      BY <2>2, EscalationsGrow
    <3>2. escalations \in Nat
      BY DEF TypeOK
    <3>3. pc' = "parked" => escalations' # 0
      BY <3>1, <3>2 DEF CalmInv
    <3>4. escalations' = 0 => FreshInv /\ pc # "parked"
      BY <3>1, <3>2 DEF CalmInv
    <3>5. QED
      BY <3>3, <3>4, NextFreshInv DEF CalmInv
  <2>3. QED
    BY <2>1, <2>2
<1>3. QED
  BY <1>1, <1>2, TypeCorrect, PTL DEF Spec

\* In every run, attended or not, an outcome that was on the page before the
\* action and never left it answers neither the step nor the checkpoint as long as
\* no intervention was raised, whatever recoveries and restarts came before
\* (_run_step's snapshot, replay.py:453).
THEOREM CalmAnswersAreFresh ==
  Spec => [][escalations = 0 /\ result'.kind = "BUSINESS_OUTCOME"
                /\ pc \in {"ready", "await", "checkpoint"}
               => result'.at \notin stale]_vars
<1>1. TypeOK /\ Undecided /\ CalmInv /\ [Next]_vars
        => [escalations = 0 /\ result'.kind = "BUSINESS_OUTCOME"
                /\ pc \in {"ready", "await", "checkpoint"}
              => result'.at \notin stale]_vars
  <2> SUFFICES ASSUME TypeOK, Undecided, CalmInv, [Next]_vars, vars' # vars,
                      escalations = 0, result'.kind = "BUSINESS_OUTCOME",
                      pc \in {"ready", "await", "checkpoint"}
               PROVE  result'.at \notin stale
    OBVIOUS
  <2>0. FreshInv
    BY DEF CalmInv
  <2>1. result.kind = "NONE" /\ result' # result
    BY DEF Undecided, Running
  <2>2. ~ \E u, h : StepFailed(u, h)
    BY <2>1 DEF StepFailed, Finish, Verdict, Result
  <2>3. CASE PollBeforeAct \/ PollAfterAct
    <3>1. PICK acted : Interrupted(suppressed', acted)
      BY <2>1, <2>2, <2>3 DEF PollBeforeAct, PollAfterAct
    <3>2. result'.at \in (Armed(index) \cap showing) \ (Recoverable \cup suppressed')
      BY <2>1, <3>1, AnswerIsNotSuppressed
    <3>3. suppressed' = suppressed \cap showing /\ pc \in {"ready", "await"}
      BY <2>3 DEF PollBeforeAct, PollAfterAct, Fresh
    <3>4. QED
      BY <2>0, <3>2, <3>3 DEF FreshInv
  <2>4. CASE PollCheckpoint
    <3>1. PICK acted : Interrupted(kept', acted)
      BY <2>1, <2>2, <2>4 DEF PollCheckpoint
    <3>2. result'.at \in (Armed(index) \cap showing) \ (Recoverable \cup kept')
      BY <2>1, <3>1, AnswerIsNotSuppressed
    <3>3. kept' = kept \cap showing /\ pc = "checkpoint"
      BY <2>4 DEF PollCheckpoint, Fresh
    <3>4. QED
      BY <2>0, <3>2, <3>3 DEF FreshInv
  <2>5. QED
    BY <2>1, <2>2, <2>3, <2>4
       DEF Next, Engine, Step, Operator, Environment, Refuse, Begin, Running, Start,
           CheckRequires, StartFails, EnterStep, Perform, PostHolds,
           EnterCheckpoint, CheckpointHolds, Extract, RunRecovery, Unanswered,
           ResolvedByHuman, Resume, PageChanges, LateRequest, RequestBlocked,
           DeadlinePasses, vars
<1>2. QED
  BY <1>1, CalmInvariant, TypeCorrect, UndecidedInvariant, PTL DEF Spec

\* Unattended, where none is ever raised, it never does.
THEOREM UnattendedAnswersAreFresh == ASSUME ~Attended PROVE Spec => StaleNeverAnswers
<1>1. Init => escalations = 0
  BY DEF Init
<1>2. TypeOK /\ escalations = 0 /\ [Next]_vars => (escalations = 0)'
  <2> SUFFICES ASSUME TypeOK, escalations = 0, [Next]_vars
               PROVE  escalations' = 0
    OBVIOUS
  <2>1. CASE Refuse \/ Begin
    BY <2>1 DEF Refuse, Begin, NewRun
  <2>2. CASE \E u, h : StepFailed(u, h)
    BY <2>2 DEF StepFailed
  <2>3. CASE UNCHANGED escalations
    BY <2>3
  <2>4. CASE \E s, acted : Interrupted(s, acted)
    BY <2>2, <2>3, <2>4 DEF Interrupted, Recover
  <2>5. CASE PollBeforeAct \/ PollAfterAct \/ PollCheckpoint
    BY <2>2, <2>3, <2>4, <2>5 DEF PollBeforeAct, PollAfterAct, PollCheckpoint
  <2>6. CASE Perform \/ RunRecovery
    BY <2>2, <2>3, <2>6 DEF Perform, RunRecovery
  <2>7. QED
    BY <2>1, <2>3, <2>5, <2>6
       DEF Next, Engine, Step, Operator, Environment, Start, CheckRequires, StartFails,
           EnterStep, PostHolds, EnterCheckpoint, CheckpointHolds, Extract, Unanswered,
           ResolvedByHuman, Resume, PageChanges, LateRequest, RequestBlocked,
           DeadlinePasses, engine, vars
<1>3. /\ escalations = 0
      /\ [escalations = 0 /\ result'.kind = "BUSINESS_OUTCOME"
                /\ pc \in {"ready", "await", "checkpoint"}
            => result'.at \notin stale]_vars
      => [result'.kind = "BUSINESS_OUTCOME" /\ pc \in {"ready", "await", "checkpoint"}
            => result'.at \notin stale]_vars
  <2> SUFFICES ASSUME escalations = 0,
                      [escalations = 0 /\ result'.kind = "BUSINESS_OUTCOME"
                          /\ pc \in {"ready", "await", "checkpoint"}
                        => result'.at \notin stale]_vars
               PROVE  [result'.kind = "BUSINESS_OUTCOME" /\ pc \in {"ready", "await", "checkpoint"}
                        => result'.at \notin stale]_vars
    OBVIOUS
  <2> QED
    OBVIOUS
<1>4. Spec => [](escalations = 0)
  BY <1>1, <1>2, TypeCorrect, PTL DEF Spec
<1>5. QED
  BY <1>3, <1>4, CalmAnswersAreFresh, PTL DEF StaleNeverAnswers

-----------------------------------------------------------------------------
(* The docstring's retry rule.                                                *)

\* No recovery leads back to a risky step or to one before it.
RestartsPastRisky ==
  \A c \in Recoverable, i \in Risky : RestartFrom[c] = Retry \/ i < RestartFrom[c]

\* Before an intervention, what was attempted of the risky steps is behind, but for
\* the step that is waiting for its postconditions.
TriedInv ==
  escalations = 0 =>
    \A i \in tried \cap Risky : i < index \/ (i = index /\ pc \in {"await", "idle"})

\* A poll that is interrupted behind a risky action does not lead to a recovery.
LEMMA RiskyInterrupted ==
  ASSUME escalations \in Nat, escalations' = 0, index \in Risky, NEW s, Interrupted(s, TRUE)
  PROVE  pc' = "idle"
<1>1. ASSUME NEW c, Recover(c, TRUE)
      PROVE  pc' = "idle"
  BY <1>1, CalmStepFailed DEF Recover
<1>2. QED
  BY <1>1, CalmStepFailed DEF Interrupted, Finish

LEMMA NextTriedInv ==
  ASSUME RestartsPastRisky, TypeOK, TriedInv, escalations = 0, pc # "parked", [Next]_vars
  PROVE  TriedInv'
<1> SUFFICES ASSUME escalations' = 0, NEW i \in tried' \cap Risky
             PROVE  i < index' \/ (i = index' /\ pc' \in {"await", "idle"})
  BY DEF TriedInv
<1>n. i \in Int /\ index \in Int
  <2>1. i \in Steps
    BY ReplayAssumption
  <2>2. QED
    BY <2>1 DEF TypeOK, Steps
<1>i. i \in tried => i < index \/ (i = index /\ pc \in {"await", "idle"})
  BY DEF TriedInv
<1>1. CASE Refuse \/ Begin
  BY <1>1 DEF Refuse, Begin, NewRun
<1>2. CASE Start \/ CheckRequires \/ StartFails \/ EnterStep \/ CheckpointHolds \/ Extract
           \/ Unanswered \/ ResolvedByHuman
  <2>1. tried' = tried /\ index' = index /\ pc \notin {"await", "idle"}
    BY <1>2 DEF Start, CheckRequires, StartFails, EnterStep, CheckpointHolds, Extract,
                Unanswered, ResolvedByHuman, engine, traffic
  <2>2. QED
    BY <1>i, <2>1
<1>3. CASE PollBeforeAct \/ PollCheckpoint
  <2>1. tried' = tried /\ index' = index /\ pc \in {"ready", "checkpoint"}
    BY <1>3 DEF PollBeforeAct, PollCheckpoint, traffic
  <2>2. QED
    BY <1>i, <2>1
<1>4. CASE PollAfterAct
  <2>1. pc = "await" /\ index' = index /\ tried' = tried
    BY <1>4 DEF PollAfterAct, traffic
  <2>2. i = index => pc' \in {"await", "idle"}
    <3>1. ASSUME NEW s, Interrupted(s, TRUE), i = index
          PROVE  pc' = "idle"
      BY <3>1, RiskyInterrupted DEF TypeOK
    <3>2. ASSUME NEW u, NEW h, StepFailed(u, h)
          PROVE  pc' = "idle"
      BY <3>2, CalmStepFailed DEF TypeOK
    <3>3. QED
      BY <1>4, <2>1, <3>1, <3>2 DEF PollAfterAct
  <2>3. QED
    BY <1>i, <2>1, <2>2
<1>5. CASE Perform
  <2>1. pc = "perform" /\ index' = index /\ tried' = tried \cup {index}
    BY <1>5 DEF Perform, Attempt
  <2>2. index \in Risky => pc' \in {"await", "idle"}
    BY <1>5, CalmStepFailed DEF Perform, Retryable, TypeOK
  <2>3. QED
    BY <1>i, <2>1, <2>2
<1>6. CASE PostHolds
  BY <1>6, <1>i, <1>n DEF PostHolds, traffic
<1>7. CASE EnterCheckpoint
  BY <1>7, <1>i DEF EnterCheckpoint, traffic
<1>8. CASE RunRecovery
  <2>1. /\ pc = "recovering" /\ tried' = tried /\ recover \in Recoverable
        /\ \/ index' = Target(recover)
           \/ index' = index
    BY <1>8 DEF RunRecovery, TypeOK
  <2>2. i < Target(recover)
    BY <1>i, <2>1 DEF RestartsPastRisky, Target
  <2>3. QED
    BY <1>i, <2>1, <2>2
<1>9. CASE Resume
  BY <1>9 DEF Resume
<1>10. CASE PageChanges \/ LateRequest \/ RequestBlocked \/ DeadlinePasses \/ UNCHANGED vars
  <2>1. UNCHANGED <<tried, index, pc>>
    BY <1>10 DEF PageChanges, LateRequest, RequestBlocked, DeadlinePasses, engine, traffic, vars
  <2>2. QED
    BY <1>i, <2>1
<1>11. QED
  BY <1>1, <1>2, <1>3, <1>4, <1>5, <1>6, <1>7, <1>8, <1>9, <1>10
     DEF Next, Engine, Step, Operator, Environment

\* "a step marked risky is never re-attempted" (replay.py:15) holds before an
\* intervention of every capability whose recoveries restart behind its risky steps;
\* late requests, risky recoveries and any number of risky steps included.
THEOREM RiskyStepsRunOnce ==
  ASSUME RestartsPastRisky
  PROVE  Spec => [](escalations = 0 => RiskyNeverReattempted)
<1>1. Init => TriedInv
  BY DEF Init, TriedInv
<1>2. TypeOK /\ CalmInv /\ TriedInv /\ [Next]_vars => TriedInv'
  <2> SUFFICES ASSUME TypeOK, CalmInv, TriedInv, [Next]_vars
               PROVE  TriedInv'
    OBVIOUS
  <2>1. CASE Refuse \/ Begin
    BY <2>1 DEF Refuse, Begin, NewRun, TriedInv
  <2>2. CASE ~(Refuse \/ Begin)
    <3>1. escalations' = escalations \/ escalations' = escalations + 1
      BY <2>2, EscalationsGrow
    <3>2. escalations' = 0 => escalations = 0 /\ pc # "parked"
      BY <3>1 DEF TypeOK, CalmInv
    <3>3. QED
      BY <3>2, NextTriedInv DEF TriedInv
  <2>3. QED
    BY <2>1, <2>2
<1>3. TypeOK /\ TriedInv => (escalations = 0 => RiskyNeverReattempted)
  BY ReplayAssumption DEF TypeOK, TriedInv, RiskyNeverReattempted
<1>4. QED
  BY <1>1, <1>2, <1>3, CalmInvariant, TypeCorrect, PTL DEF Spec

-----------------------------------------------------------------------------
(* What a call has to spend.                                                   *)

\* Where the engine is, in numbers.
LEMMA Distances ==
  ASSUME NEW i \in Int
  PROVE  /\ Distance("start", i) = 4 * N + 6
         /\ \A p \in {"requires", "recovering", "parked"} : Distance(p, i) = 4 * N + 5
         /\ Distance("enter", i) = 4 * (N - i) + 4
         /\ Distance("ready", i) = 4 * (N - i) + 3
         /\ Distance("perform", i) = 4 * (N - i) + 2
         /\ Distance("await", i) = 4 * (N - i) + 1
         /\ Distance("checkpoint", i) = 4 * (N - i) + 3
         /\ Distance("extract", i) = 4 * (N - i) + 2
  BY DEF Distance, Stage

\* A failed step ends the call or spends an intervention.
LEMMA StepFailedCounts ==
  ASSUME TypeOK, NEW u, NEW h, StepFailed(u, h), \A c \in Conds : fires'[c] >= fires[c]
  PROVE  Counts
<1>1. CASE pc' = "idle"
  BY <1>1 DEF Counts, Running
<1>2. CASE pc' # "idle"
  <2>1. escalations < MaxEscalations /\ escalations' = escalations + 1 /\ escalations \in Nat
    BY <1>2 DEF StepFailed, Finish, TypeOK
  <2>2. escalations' >= escalations /\ escalations' > escalations
    BY <2>1
  <2>3. QED
    BY <2>1, <2>2 DEF Counts, Spends
<1>3. QED
  BY <1>1, <1>2

\* So does an interruption, or it spends a recovery the cap still has.
LEMMA InterruptedCounts ==
  ASSUME TypeOK, NEW s, NEW acted, Interrupted(s, acted)
  PROVE  Counts
<1>f. fires \in [Conds -> Nat] /\ MaxFires \in [Conds -> Nat] /\ escalations \in Nat
  BY ReplayAssumption DEF TypeOK
<1>1. CASE StepFailed(FALSE, hazard) /\ UNCHANGED fires
  <2>1. \A c \in Conds : fires'[c] >= fires[c]
    BY <1>1, <1>f
  <2>2. QED
    BY <1>1, <2>1, StepFailedCounts
<1>2. ASSUME NEW c \in Conds, Recover(c, acted)
      PROVE  Counts
  <2>1. fires' = [fires EXCEPT ![c] = @ + 1]
    BY <1>2 DEF Recover, CountFire
  <2>2. fires'[c] = fires[c] + 1 /\ \A d \in Conds : fires'[d] >= fires[d]
    BY <1>f, <2>1
  <2>3. CASE StepFailed(FALSE, hazard) \/ StepFailed(mutated, hazard)
    BY <2>2, <2>3, StepFailedCounts
  <2>4. CASE ~(fires[c] + 1 > MaxFires[c]) /\ UNCHANGED escalations
    <3>1. fires[c] < MaxFires[c] /\ fires'[c] > fires[c] /\ escalations' >= escalations
      BY <1>f, <2>2, <2>4
    <3>2. QED
      BY <2>2, <3>1 DEF Counts, Spends
  <2>5. QED
    BY <1>2, <2>3, <2>4 DEF Recover
<1>3. ASSUME NEW c \in Conds, Finish(Result("BUSINESS_OUTCOME", c))
      PROVE  Counts
  BY <1>3 DEF Finish, Counts, Running
<1>4. QED
  BY <1>1, <1>2, <1>3 DEF Interrupted

LEMMA StepCounts ==
  ASSUME TypeOK, Engine \/ StartFails \/ Unanswered \/ Operator
  PROVE  Counts
<1>t. /\ N \in Nat /\ index \in 0 .. N /\ fires \in [Conds -> Nat] /\ escalations \in Nat
      /\ \A c \in Conds : fires[c] >= fires[c]
  BY ReplayAssumption DEF TypeOK
<1>k. ASSUME UNCHANGED <<fires, escalations>>, Nearer \/ Waits
      PROVE  Counts
  BY <1>k DEF Counts
<1>s. ASSUME UNCHANGED fires, NEW u, NEW h, StepFailed(u, h)
      PROVE  Counts
  BY <1>s, <1>t, StepFailedCounts
<1>e. ASSUME pc' = "idle"
      PROVE  Counts
  BY <1>e DEF Counts, Running
<1>1. CASE Start
  <2>1. pc = "start" /\ pc' = "requires" /\ UNCHANGED <<index, fires, escalations>>
    BY <1>1 DEF Start, engine
  <2>2. QED
    BY <2>1, <1>k, <1>t, Distances DEF Nearer
<1>2. CASE CheckRequires
  <2>1. pc = "requires" /\ pc' \in {"enter", "idle"} /\ UNCHANGED <<index, fires, escalations>>
    BY <1>2 DEF CheckRequires, Finish, engine
  <2>2. CASE pc' = "enter"
    BY <2>1, <2>2, <1>k, <1>t, Distances DEF Nearer
  <2>3. QED
    BY <2>1, <2>2, <1>e
<1>3. CASE EnterStep
  <2>1. pc = "enter" /\ pc' = "ready" /\ UNCHANGED <<index, fires, escalations>>
    BY <1>3 DEF EnterStep
  <2>2. QED
    BY <2>1, <1>k, <1>t, Distances DEF Nearer
<1>4. CASE PollBeforeAct
  <2>1. CASE /\ pc = "ready" /\ pc' = "perform" /\ UNCHANGED <<index, fires, escalations>>
    BY <2>1, <1>k, <1>t, Distances DEF Nearer
  <2>2. QED
    BY <1>4, <2>1, InterruptedCounts DEF PollBeforeAct
<1>5. CASE Perform
  <2>1. pc = "perform" /\ UNCHANGED <<index, fires, expired>>
    BY <1>5 DEF Perform
  <2>2. CASE pc' = "await" /\ UNCHANGED escalations
    BY <2>1, <2>2, <1>k, <1>t, Distances DEF Nearer
  <2>3. CASE Retryable /\ pc' \in {"ready", "await"} /\ UNCHANGED escalations
    BY <2>1, <2>3, <1>k DEF Waits, Retryable
  <2>4. CASE \E u, h : StepFailed(u, h)
    BY <2>1, <2>4, <1>s
  <2>5. QED
    BY <1>5, <2>2, <2>3, <2>4 DEF Perform
<1>6. CASE PostHolds
  <2>1. /\ pc = "await" /\ pc' = "enter" /\ index' = index + 1 /\ UNCHANGED <<fires, escalations>>
    BY <1>6 DEF PostHolds
  <2>2. Distance("await", index) = 4 * (N - index) + 1
        /\ Distance("enter", index + 1) = 4 * (N - (index + 1)) + 4
    BY <1>t, Distances
  <2>3. QED
    BY <2>1, <2>2, <1>k, <1>t DEF Nearer
<1>7. CASE PollAfterAct
  <2>1. pc = "await" /\ UNCHANGED <<index, expired>>
    BY <1>7 DEF PollAfterAct
  <2>2. CASE \E s, acted : Interrupted(s, acted)
    BY <2>2, InterruptedCounts
  <2>3. CASE UNCHANGED fires /\ \E u, h : StepFailed(u, h)
    BY <2>3, <1>s
  <2>4. CASE ~expired /\ UNCHANGED <<pc, fires, escalations>>
    BY <2>1, <2>4, <1>k DEF Waits
  <2>5. QED
    BY <1>7, <2>2, <2>3, <2>4 DEF PollAfterAct
<1>8. CASE RunRecovery
  <2>1. pc = "recovering" /\ UNCHANGED fires
    BY <1>8 DEF RunRecovery
  <2>2. CASE pc' = "enter" /\ index' = Target(recover) /\ UNCHANGED escalations
    <3>1. index' \in 0 .. N
      BY <2>1, <2>2, <1>t, ReplayAssumption DEF Target, TypeOK, Steps, Retry
    <3>2. QED
      BY <2>1, <2>2, <3>1, <1>k, <1>t, Distances DEF Nearer
  <2>3. QED
    BY <1>8, <2>1, <2>2, <1>s DEF RunRecovery
<1>9. CASE EnterCheckpoint
  <2>1. pc = "enter" /\ pc' = "checkpoint" /\ UNCHANGED <<index, fires, escalations>>
    BY <1>9 DEF EnterCheckpoint
  <2>2. QED
    BY <2>1, <1>k, <1>t, Distances DEF Nearer
<1>10. CASE CheckpointHolds
  <2>1. pc = "checkpoint" /\ pc' = "extract" /\ UNCHANGED <<index, fires, escalations>>
    BY <1>10 DEF CheckpointHolds, engine
  <2>2. QED
    BY <2>1, <1>k, <1>t, Distances DEF Nearer
<1>11. CASE PollCheckpoint
  <2>1. pc = "checkpoint" /\ UNCHANGED <<index, expired>>
    BY <1>11 DEF PollCheckpoint
  <2>2. CASE \E s, acted : Interrupted(s, acted)
    BY <2>2, InterruptedCounts
  <2>3. CASE UNCHANGED fires /\ \E u, h : StepFailed(u, h)
    BY <2>3, <1>s
  <2>4. CASE ~expired /\ UNCHANGED <<pc, fires, escalations>>
    BY <2>1, <2>4, <1>k DEF Waits
  <2>5. QED
    BY <1>11, <2>2, <2>3, <2>4 DEF PollCheckpoint
<1>12. CASE Extract \/ StartFails \/ Unanswered \/ ResolvedByHuman
  BY <1>12, <1>e DEF Extract, StartFails, Unanswered, ResolvedByHuman, Finish
<1>13. CASE Resume
  <2>1. pc = "parked" /\ UNCHANGED <<fires, escalations>> /\ pc' \in {"enter", "idle"}
    BY <1>13 DEF Resume, Finish
  <2>2. pc' = "enter" => index' \in 0 .. N
    BY <1>13, <1>t, ReplayAssumption DEF Resume, Finish, Steps
  <2>3. CASE pc' = "enter"
    BY <2>1, <2>2, <2>3, <1>k, <1>t, Distances DEF Nearer
  <2>4. QED
    BY <2>1, <2>3, <1>e
<1>14. QED
  BY <1>1, <1>2, <1>3, <1>4, <1>5, <1>6, <1>7, <1>8, <1>9, <1>10, <1>11, <1>12, <1>13
     DEF Engine, Step, Operator

\* For every capability and configuration: no step of the engine and no answer of
\* the operator lets a call go round without ending it, spending from its caps,
\* coming nearer to its end or waiting for a deadline.  What EveryRunEnds adds is
\* fairness (_execute's loop and caps, replay.py:426-509, 836-909).
THEOREM NothingIsForNothing == Spec => EveryStepCounts
<1>1. TypeOK /\ [Next]_vars => [Engine \/ StartFails \/ Unanswered \/ Operator => Counts]_vars
  BY StepCounts
<1>2. QED
  BY <1>1, TypeCorrect, PTL DEF Spec, EveryStepCounts
=============================================================================
