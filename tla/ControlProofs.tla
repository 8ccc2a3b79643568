---------------------------- MODULE ControlProofs ----------------------------
(***************************************************************************)
(* What holds of the hand-off of a session for every set of operators, any *)
(* length of the command queue and any escalation budget.                  *)
(***************************************************************************)
EXTENDS ControlHandoff, TLAPS

\* Who posts what to the console, in one formula: no request moves the engine,
\* a take needs a parked run, and a decision is about the present intervention.
LEMMA ConsoleStep ==
  ASSUME Console
  PROVE  /\ UNCHANGED <<engine, page, entered, recorded>>
         /\ state' = state \/ (state = "PAUSED" /\ state' = "HUMAN")
         /\ \/ decision' = decision
            \/ decision'.during = interventions
<1>1. PICK o \in Operators :
        OperatorTakes(o) \/ OperatorRequests(o) \/ OperatorSubmits(o) \/ OperatorDecides(o)
  BY DEF Console
<1>2. CASE OperatorTakes(o)
  BY <1>2 DEF OperatorTakes, Take, history
<1>3. CASE OperatorRequests(o)
  BY <1>3 DEF OperatorRequests, RequestControl, history
<1>4. CASE OperatorSubmits(o)
  BY <1>4 DEF OperatorSubmits, SubmitCommand, history
<1>5. CASE OperatorDecides(o)
  <2>1. PICK kind \in Kinds \ {"NONE"}, declared \in BOOLEAN :
          Decide(o, kind, declared, interventions)
    BY <1>5 DEF OperatorDecides
  <2>2. decision'.during = interventions /\ UNCHANGED <<state, recorded>>
    BY <2>1 DEF Decide
  <2>3. QED
    BY <1>5, <2>2 DEF OperatorDecides
<1>6. QED
  BY <1>1, <1>2, <1>3, <1>4, <1>5

\* The token follows the engine: every step keeps TokenInv.
LEMMA NextTokenInv == TokenInv /\ [Next]_vars => TokenInv'
<1> SUFFICES ASSUME TokenInv, [Next]_vars PROVE TokenInv'
  OBVIOUS
<1> USE DEF TokenInv, SingleDriver, Driving, Parked, ParkedPhases
<1>1. CASE Poll
  BY <1>1 DEF Poll, Escalate
<1>2. CASE Act
  BY <1>2 DEF Act, Escalate
<1>3. CASE Raise
  BY <1>3 DEF Raise, Park
<1>4. CASE Enter \/ ReadState \/ NextCommand \/ Execute \/ Drain
  BY <1>4 DEF Enter, ReadState, NextCommand, Execute, Drain, hubVars
<1>5. CASE Leave
  BY <1>5 DEF Leave, ResumeAutomation
<1>6. CASE Fail
  BY <1>6 DEF Fail, hubVars
<1>7. CASE Console
  BY <1>7, ConsoleStep DEF engine
<1>8. CASE HumanActs \/ DeadlinePasses
  BY <1>8 DEF HumanActs, DeadlinePasses, hubVars, engine
<1>9. CASE UNCHANGED vars
  BY <1>9 DEF vars, hubVars, engine
<1>10. QED
  BY <1>1, <1>2, <1>3, <1>4, <1>5, <1>6, <1>7, <1>8, <1>9 DEF Next, Engine

\* So the token follows the engine throughout.
LEMMA TokenInvariant == Spec => []TokenInv
<1>1. Init => TokenInv
  BY DEF Init, HubInit, TokenInv, SingleDriver, Driving, Parked, ParkedPhases
<1>2. QED
  BY <1>1, NextTokenInv, PTL DEF Spec

\* However many operators post, and whenever they do, automation drives only
\* while it holds the token and a command runs only while a human holds it.
THEOREM OneDriver == Spec => []SingleDriver
<1>1. TokenInv => SingleDriver
  BY DEF TokenInv
<1>2. QED
  BY <1>1, TokenInvariant, PTL

\* A pending decision, and the one acted on, are about the present intervention.
DecisionInv ==
  /\ decision.kind # "NONE" => decision.during = interventions
  /\ DecisionIsFresh

\* Every step keeps that.
LEMMA NextDecisionInv == DecisionInv /\ [Next]_vars => DecisionInv'
<1> SUFFICES ASSUME DecisionInv, [Next]_vars PROVE DecisionInv'
  OBVIOUS
<1> USE DEF DecisionInv, DecisionIsFresh
<1>1. CASE Poll \/ Act
  BY <1>1 DEF Poll, Act, Escalate
<1>2. CASE Raise
  BY <1>2 DEF Raise, Park, NoDecision
<1>3. CASE Enter \/ ReadState \/ NextCommand \/ Execute \/ Leave \/ Fail
  BY <1>3 DEF Enter, ReadState, NextCommand, Execute, Leave, Fail, hubVars
<1>4. CASE Drain
  BY <1>4 DEF Drain, TakeDecision, NoDecision
<1>5. CASE Console
  BY <1>5, ConsoleStep DEF engine
<1>6. CASE HumanActs \/ DeadlinePasses
  BY <1>6 DEF HumanActs, DeadlinePasses, hubVars, engine
<1>7. CASE UNCHANGED vars
  BY <1>7 DEF vars, hubVars, engine
<1>8. QED
  BY <1>1, <1>2, <1>3, <1>4, <1>5, <1>6, <1>7 DEF Next, Engine

\* The engine never acts on a decision left over from an earlier intervention.
THEOREM NoLeftoverDecision == Spec => []DecisionIsFresh
<1>1. Init => DecisionInv
  BY DEF Init, HubInit, NoDecision, DecisionInv, DecisionIsFresh
<1>2. DecisionInv => DecisionIsFresh
  BY DEF DecisionInv
<1>3. QED
  BY <1>1, <1>2, NextDecisionInv, PTL DEF Spec

\* Automation's own events wait in the browser only while it holds the token.
RecordInv ==
  /\ "automation" \in pending => state = "AUTOMATION"
  /\ RecordIsHuman

\* Every step keeps that: the screenshot of an intervention flushes them before
\* the run parks.
LEMMA NextRecordInv == TokenInv /\ RecordInv /\ [Next]_vars => RecordInv'
<1> SUFFICES ASSUME TokenInv, RecordInv, [Next]_vars PROVE RecordInv'
  OBVIOUS
<1> USE DEF RecordInv, RecordIsHuman, RecordHumanAction
<1>1. CASE Poll \/ Raise
  BY <1>1 DEF Poll, Raise, DriverCall
<1>2. CASE Act
  BY <1>2 DEF Act, DriverCall, TokenInv, SingleDriver, Driving
<1>3. CASE Execute
  <2>1. state = "HUMAN"
    BY <1>3 DEF Execute, TokenInv, SingleDriver
  <2>2. PICK events \in {{}, {"human"}} : RecordHumanAction(pending \cup events)
    BY <1>3 DEF Execute
  <2>3. QED
    BY <1>3, <2>1, <2>2 DEF Execute
<1>4. CASE Enter \/ ReadState \/ NextCommand \/ Drain \/ Leave \/ Fail
  BY <1>4 DEF Enter, ReadState, NextCommand, Drain, Leave, Fail, ResumeAutomation,
              hubVars, page
<1>5. CASE Console
  BY <1>5, ConsoleStep DEF page
<1>6. CASE HumanActs \/ DeadlinePasses
  BY <1>6 DEF HumanActs, DeadlinePasses, hubVars, page
<1>7. CASE UNCHANGED vars
  BY <1>7 DEF vars, hubVars, page
<1>8. QED
  BY <1>1, <1>2, <1>3, <1>4, <1>5, <1>6, <1>7 DEF Next, Engine

\* The record of human actions never holds an event of automation.
THEOREM HumanRecordIsHuman == Spec => []RecordIsHuman
<1>1. Init => RecordInv
  BY DEF Init, HubInit, RecordInv, RecordIsHuman
<1>2. RecordInv => RecordIsHuman
  BY DEF RecordInv
<1>3. QED
  BY <1>1, <1>2, NextRecordInv, TokenInvariant, PTL DEF Spec

\* Without a browser window for the operator, input is on record at once, so the
\* last word on the evidence of a failure knows of it.
EvidenceInv ==
  /\ entered => "human" \in recorded
  /\ captured => phase = "ended"
  /\ EvidenceHidesHumanInput

\* Every step of a headless run keeps that.
LEMMA NextEvidenceInv ==
  ASSUME ~Headed, TokenInv, EvidenceInv, [Next]_vars
  PROVE  EvidenceInv'
<1> USE DEF EvidenceInv, EvidenceHidesHumanInput, RecordHumanAction
<1>1. CASE Poll \/ Act \/ Raise
  BY <1>1 DEF Poll, Act, Raise, Escalate, DriverCall, history
<1>2. CASE Execute
  <2>1. state = "HUMAN"
    BY <1>2 DEF Execute, TokenInv, SingleDriver
  <2>2. PICK events \in {{}, {"human"}} :
          /\ RecordHumanAction(pending \cup events)
          /\ entered' = (entered \/ events # {})
    BY <1>2 DEF Execute
  <2>3. recorded' = recorded \cup (pending \cup events)
    BY <2>1, <2>2
  <2>4. captured' = captured /\ phase = "executing"
    BY <1>2 DEF Execute
  <2>5. ~captured
    BY <2>4
  <2>6. QED
    BY <2>2, <2>3, <2>4, <2>5
<1>3. CASE Enter \/ ReadState \/ NextCommand \/ Drain \/ Leave
  BY <1>3 DEF Enter, ReadState, NextCommand, Drain, Leave, hubVars, page, history
<1>4. CASE Fail
  BY <1>4 DEF Fail, Suppressed, hubVars, history
<1>5. CASE Console
  BY <1>5, ConsoleStep DEF page, engine
<1>6. CASE DeadlinePasses
  BY <1>6 DEF DeadlinePasses, hubVars, page, history
<1>7. CASE HumanActs
  BY <1>7 DEF HumanActs
<1>8. CASE UNCHANGED vars
  BY <1>8 DEF vars, hubVars, page, history, engine
<1>9. QED
  BY <1>1, <1>2, <1>3, <1>4, <1>5, <1>6, <1>7, <1>8 DEF Next, Engine

\* In a headless run no failure report shows a page a human put something on.
THEOREM HeadlessEvidence == ASSUME ~Headed PROVE Spec => []EvidenceHidesHumanInput
<1>1. Init => EvidenceInv
  BY DEF Init, HubInit, EvidenceInv, EvidenceHidesHumanInput
<1>2. TokenInv /\ EvidenceInv /\ [Next]_vars => EvidenceInv'
  BY NextEvidenceInv
<1>3. EvidenceInv => EvidenceHidesHumanInput
  BY DEF EvidenceInv
<1>4. QED
  BY <1>1, <1>2, <1>3, TokenInvariant, PTL DEF Spec

\* What an operator posts is well typed.
LEMMA ConsoleType ==
  ASSUME TypeOK, Console
  PROVE  HubTypeOK' /\ aborted' \in BOOLEAN
<1> USE DEF TypeOK, HubTypeOK
<1>1. PICK o \in Operators :
        OperatorTakes(o) \/ OperatorRequests(o) \/ OperatorSubmits(o) \/ OperatorDecides(o)
  BY DEF Console
<1>2. CASE OperatorTakes(o)
  BY <1>2 DEF OperatorTakes, Take, history
<1>3. CASE OperatorRequests(o)
  BY <1>3 DEF OperatorRequests, RequestControl, history
<1>4. CASE OperatorSubmits(o)
  <2>1. commands' \in Seq(Operators)
    BY <1>4 DEF OperatorSubmits, SubmitCommand
  <2>2. QED
    BY <1>4, <2>1 DEF OperatorSubmits, SubmitCommand, history
<1>5. CASE OperatorDecides(o)
  <2>1. PICK kind \in Kinds \ {"NONE"}, declared \in BOOLEAN :
          /\ Decide(o, kind, declared, interventions)
          /\ aborted' = (aborted \/ kind = "ABORT")
    BY <1>5 DEF OperatorDecides
  <2>2. decision' \in Decisions
    BY <2>1 DEF Decide, Decisions
  <2>3. QED
    BY <1>5, <2>1, <2>2 DEF OperatorDecides, Decide
<1>6. QED
  BY <1>1, <1>2, <1>3, <1>4, <1>5

\* The budget bounds the interventions: one is raised only while it lasts.
TypeInv == TypeOK /\ (phase = "raising" => interventions < MaxEscalations)

\* That is inductive together with the token.
LEMMA NextTypeInv == TokenInv /\ TypeInv /\ [Next]_vars => TypeInv'
<1> SUFFICES ASSUME TokenInv, TypeInv, [Next]_vars PROVE TypeInv'
  OBVIOUS
<1> USE HandoffAssumption DEF TypeInv, TypeOK, HubTypeOK, ParkedPhases
<1>0. NoDecision \in Decisions
  BY DEF NoDecision, Decisions, Kinds
<1>1. CASE Poll
  BY <1>1 DEF Poll, Escalate, DriverCall, RecordHumanAction, history
<1>2. CASE Act
  BY <1>2 DEF Act, Escalate, DriverCall, RecordHumanAction, history, Actors
<1>3. CASE Raise
  <2>1. HubTypeOK'
    BY <1>0, <1>3 DEF Raise, Park, DriverCall, RecordHumanAction
  <2>2. interventions' \in 0 .. MaxEscalations
    <3>1. interventions \in 0 .. MaxEscalations /\ interventions < MaxEscalations
      BY <1>3 DEF Raise
    <3>2. QED
      BY <1>3, <3>1 DEF Raise
  <2>3. QED
    BY <1>3, <2>1, <2>2 DEF Raise, history
<1>4. CASE Enter
  BY <1>4 DEF Enter, hubVars, page, history
<1>5. CASE ReadState
  BY <1>5 DEF ReadState, hubVars, page, history
<1>6. CASE NextCommand
  <2>1. CASE commands = <<>> /\ phase' = "deciding" /\ UNCHANGED commands
    BY <1>6, <2>1 DEF NextCommand, page, history
  <2>2. CASE PopCommand /\ phase' = "executing"
    <3>1. commands' \in Seq(Operators)
      BY <2>2 DEF PopCommand
    <3>2. QED
      BY <1>6, <2>2, <3>1 DEF NextCommand, page, history
  <2>3. QED
    BY <1>6, <2>1, <2>2 DEF NextCommand
<1>7. CASE Execute
  <2>1. PICK events \in {{}, {"human"}} :
          /\ RecordHumanAction(pending \cup events)
          /\ entered' = (entered \/ events # {})
    BY <1>7 DEF Execute
  <2>2. recorded' \subseteq Actors
    BY <2>1 DEF RecordHumanAction, Actors
  <2>3. QED
    BY <1>7, <2>1, <2>2 DEF Execute
<1>8. CASE Drain
  BY <1>0, <1>8 DEF Drain, TakeDecision, page, history
<1>9. CASE Leave
  BY <1>9 DEF Leave, ResumeAutomation, page, history
<1>10. CASE Fail
  BY <1>10 DEF Fail, Suppressed, hubVars, history
<1>11. CASE Console
  <2>1. HubTypeOK' /\ aborted' \in BOOLEAN
    BY <1>11, ConsoleType DEF TypeOK
  <2>2. UNCHANGED <<engine, page, entered>>
    BY <1>11, ConsoleStep
  <2>3. QED
    BY <2>1, <2>2 DEF engine, page
<1>12. CASE HumanActs
  BY <1>12 DEF HumanActs, hubVars, engine, Actors
<1>13. CASE DeadlinePasses
  BY <1>13 DEF DeadlinePasses, hubVars, page, history
<1>14. CASE UNCHANGED vars
  BY <1>14 DEF vars, hubVars, engine, page, history
<1>15. QED
  BY <1>1, <1>2, <1>3, <1>4, <1>5, <1>6, <1>7, <1>8, <1>9, <1>10, <1>11, <1>12,
     <1>13, <1>14 DEF Next, Engine

\* Type correctness for every set of operators and every budget; in particular
\* a run never raises more interventions than its budget.
THEOREM HandoffTypeCorrect == Spec => []TypeOK
<1>1. Init => TypeInv
  <2>1. NoDecision \in Decisions
    BY DEF NoDecision, Decisions, Kinds
  <2>2. <<>> \in Seq(Operators)
    OBVIOUS
  <2>3. 0 \in 0 .. MaxEscalations
    BY HandoffAssumption
  <2>4. Init => HubTypeOK
    BY <2>1, <2>2 DEF Init, HubInit, HubTypeOK
  <2>5. [taken |-> NoDecision, operator |-> Nobody]
          \in [taken : Decisions, operator : Operators \cup {Nobody}]
    BY <2>1
  <2>6. Init => interventions \in 0 .. MaxEscalations
    BY <2>3 DEF Init
  <2>7. QED
    BY <2>4, <2>5, <2>6 DEF Init, TypeInv, TypeOK, ParkedPhases
<1>2. TypeInv => TypeOK
  BY DEF TypeInv
<1>3. QED
  BY <1>1, <1>2, NextTypeInv, TokenInvariant, PTL DEF Spec
=============================================================================
