--------------------------- MODULE ControlHandoff ---------------------------
(***************************************************************************)
(* One attended run: the engine thread (_poll_recognizers, _maybe_escalate *)
(* and the parked loop _park_and_wait of src/src/hands/replay.py) against  *)
(* operators that post to the console at any moment.  Between two accesses *)
(* of the hub's lock anything may happen, so the loop is one action per    *)
(* access.  What the engine does to the page is Replay's business; here it *)
(* acts, answers or fails.  The events of the page (an injected listener   *)
(* reports every click and input, whoever made it) wait in the browser and *)
(* reach the hub only inside a call to the driver, as its synchronous API  *)
(* delivers them.                                                          *)
(***************************************************************************)
EXTENDS EscalationHub

CONSTANTS
  MaxEscalations,  \* EscalationSettings.max_escalations
  Headed           \* does the operator have the browser window?

ASSUME HandoffAssumption == MaxEscalations \in Nat /\ Headed \in BOOLEAN

VARIABLES
  phase,          \* where the engine thread is
  interventions,  \* interventions raised so far
  expired,        \* the deadline of this intervention has passed
  chosen,         \* the decision the engine took, and the operator it recorded
  pending,        \* the page: whose events wait in the browser
  captured,       \* did the failure report capture the page?
  entered,        \* history: a human put something on the page in this run
  aborted         \* history: an abort was accepted in this run

engine  == <<phase, interventions, expired, chosen>>
page    == <<pending, captured>>
history == <<entered, aborted>>
vars    == <<hubVars, engine, page, history>>

ParkedPhases == {"entering", "waiting", "popping", "executing", "deciding", "leaving"}
Driving == phase \in {"polling", "acting", "raising"}
Parked  == phase \in ParkedPhases

TypeOK ==
  /\ HubTypeOK
  /\ phase \in ParkedPhases \cup {"polling", "acting", "raising", "failing", "ended"}
  /\ interventions \in 0 .. MaxEscalations
  /\ expired \in BOOLEAN
  /\ chosen \in [taken : Decisions, operator : Operators \cup {Nobody}]
  /\ pending \subseteq Actors
  /\ captured \in BOOLEAN
  /\ entered \in BOOLEAN /\ aborted \in BOOLEAN

-----------------------------------------------------------------------------
(* Automation. *)

\* Every call to the driver first delivers the events that waited.
DriverCall == RecordHumanAction(pending)

\* A budget compared before it is counted.
EscalateOnceMore ==
  phase' = IF interventions <= MaxEscalations THEN "raising" ELSE "failing"

\* _maybe_escalate: an intervention while the budget lasts, else a failure.
Escalate == phase' = IF interventions < MaxEscalations THEN "raising" ELSE "failing"

\* A poll that looks for a requested pause only before the first intervention.
PausesOnce == pauseRequested /\ state = "AUTOMATION" /\ interventions = 0

Pauses == pauseRequested /\ state = "AUTOMATION"

\* _poll_recognizers: a requested pause comes before anything the page says.
Poll ==
  /\ phase = "polling"
  /\ IF Pauses THEN Escalate ELSE phase' = "acting" \/ phase' = "ended" \/ Escalate
  /\ DriverCall
  /\ pending' = {}
  /\ UNCHANGED <<state, operator, decision, pauseRequested, commands, interventions,
                 expired, chosen, captured, history>>

\* A step acts on the page; the listener reports the engine's own clicks too.
\* A run whose last postconditions and checkpoint hold at once ends without a
\* further poll, and outputs that cannot be read are a failure without appeal.
Act ==
  /\ phase = "acting"
  /\ phase' \in {"polling", "ended", "failing"} \/ Escalate
  /\ DriverCall
  /\ pending' \in {{}, {"automation"}}
  /\ UNCHANGED <<state, operator, decision, pauseRequested, commands, interventions,
                 expired, chosen, captured, history>>

\* The intervention's screenshot, then park.
Raise ==
  /\ phase = "raising"
  /\ DriverCall
  /\ pending' = {}
  /\ Park
  /\ interventions' = interventions + 1
  /\ phase' = "entering"
  /\ UNCHANGED <<operator, commands, expired, chosen, captured, history>>

-----------------------------------------------------------------------------
(* The parked loop. *)

Enter ==
  /\ phase = "entering"
  /\ expired' = FALSE
  /\ phase' = "waiting"
  /\ UNCHANGED <<hubVars, interventions, chosen, page, history>>

ReadState ==
  /\ phase = "waiting"
  /\ phase' = IF state = "HUMAN" THEN "popping" ELSE "deciding"
  /\ UNCHANGED <<hubVars, interventions, expired, chosen, page, history>>

NextCommand ==
  /\ phase = "popping"
  /\ \/ PopCommand /\ phase' = "executing"
     \/ commands = <<>> /\ phase' = "deciding" /\ UNCHANGED commands
  /\ UNCHANGED <<state, operator, decision, pauseRequested, recorded, interventions,
                 expired, chosen, page, history>>

\* _execute_human_command; an execution that fails is traced and changes
\* nothing.  The loop goes round without a look at the deadline.
Execute ==
  /\ phase = "executing"
  /\ phase' = "waiting"
  /\ \E events \in {{}, {"human"}} :
       /\ RecordHumanAction(pending \cup events)
       /\ entered' = (entered \/ events # {})
  /\ pending' = {}
  /\ UNCHANGED <<state, operator, decision, pauseRequested, commands, interventions,
                 expired, chosen, captured, aborted>>

\* A loop that never looks at the deadline.
DeadlineIgnored == FALSE

DeadlinePassed == expired

\* take_decision: none, and then the deadline; an undeclared code, and the
\* loop goes round; or a decision to act on, with the operator of the moment.
Drain ==
  /\ phase = "deciding"
  /\ TakeDecision
  /\ \/ /\ decision.kind = "NONE"
        /\ phase' = IF DeadlinePassed THEN "failing" ELSE "waiting"
        /\ UNCHANGED chosen
     \/ /\ decision.kind = "RESOLVE" /\ ~decision.declared
        /\ phase' = "waiting"
        /\ UNCHANGED chosen
     \/ /\ decision.kind # "NONE" /\ (decision.kind = "RESOLVE" => decision.declared)
        /\ phase' = "leaving"
        /\ chosen' = [taken |-> decision, operator |-> operator]
  /\ UNCHANGED <<state, operator, pauseRequested, commands, recorded, interventions,
                 expired, page, history>>

\* Back in _maybe_escalate: an abort fails the run, a resolution answers it, an
\* approval or a handback gives the session back to the engine.
Leave ==
  /\ phase = "leaving"
  /\ \/ chosen.taken.kind = "ABORT" /\ phase' = "failing" /\ UNCHANGED state
     \/ chosen.taken.kind = "RESOLVE" /\ phase' = "ended" /\ UNCHANGED state
     \/ /\ chosen.taken.kind \in {"APPROVE", "HANDBACK"}
        /\ ResumeAutomation
        /\ phase' = "polling"
  /\ UNCHANGED <<operator, decision, pauseRequested, commands, recorded, interventions,
                 expired, chosen, page, history>>

\* Only the token is asked, not what was recorded in an earlier window.
SuppressedWhileHeld == state = "HUMAN"

\* _failure_evidence: the page is not captured if a human holds the session or
\* human actions are on record.
Suppressed == state = "HUMAN" \/ recorded # {}

Fail ==
  /\ phase = "failing"
  /\ captured' = ~Suppressed
  /\ phase' = "ended"
  /\ UNCHANGED <<hubVars, interventions, expired, chosen,
                 pending, history>>

-----------------------------------------------------------------------------
(* Operators, the clock and the page. *)

ConsoleUp == phase # "ended"

OperatorTakes(o) ==
  /\ ConsoleUp
  /\ Take(o)
  /\ UNCHANGED <<engine, page, history>>

OperatorRequests(o) ==
  /\ ConsoleUp
  /\ RequestControl(o)
  /\ UNCHANGED <<engine, page, history>>

OperatorSubmits(o) ==
  /\ ConsoleUp
  /\ SubmitCommand(o)
  /\ UNCHANGED <<engine, page, history>>

OperatorDecides(o) ==
  /\ ConsoleUp
  /\ \E kind \in Kinds \ {"NONE"}, declared \in BOOLEAN :
       /\ kind # "RESOLVE" => declared
       /\ Decide(o, kind, declared, interventions)
       /\ aborted' = (aborted \/ kind = "ABORT")
  /\ UNCHANGED <<engine, page, entered>>

\* In headed mode the operator has the browser window, and nothing but custom keeps
\* them from using it while automation holds the session.
HumanActs ==
  /\ Headed
  /\ ConsoleUp
  /\ pending' = pending \cup {"human"}
  /\ entered' = TRUE
  /\ UNCHANGED <<hubVars, engine, captured, aborted>>

DeadlinePasses ==
  /\ Parked /\ phase # "entering"
  /\ expired' = TRUE
  /\ UNCHANGED <<hubVars, phase, interventions, chosen, page, history>>

-----------------------------------------------------------------------------
Init ==
  /\ HubInit
  /\ phase = "polling"
  /\ interventions = 0
  /\ expired = FALSE
  /\ chosen = [taken |-> NoDecision, operator |-> Nobody]
  /\ pending = {}
  /\ captured = FALSE
  /\ entered = FALSE /\ aborted = FALSE

Engine ==
  \/ Poll \/ Act \/ Raise
  \/ Enter \/ ReadState \/ NextCommand \/ Execute \/ Drain \/ Leave
  \/ Fail

Console ==
  \E o \in Operators :
    OperatorTakes(o) \/ OperatorRequests(o) \/ OperatorSubmits(o) \/ OperatorDecides(o)

Next == Engine \/ Console \/ HumanActs \/ DeadlinePasses

Spec == Init /\ [][Next]_vars

\* The engine thread runs and the clock advances; nothing is assumed of the
\* operators.
FairSpec == Spec /\ WF_vars(Engine) /\ WF_vars(DeadlinePasses)

-----------------------------------------------------------------------------
(* Properties. *)

\* One driver: automation drives only while the hub says so, a command runs
\* only while a human holds the session.
SingleDriver ==
  /\ Driving => state = "AUTOMATION"
  /\ phase \in {"popping", "executing"} => state = "HUMAN"

\* The engine acts on a decision made about the intervention it is parked in,
\* never on one left over from an earlier one.
DecisionIsFresh == phase = "leaving" => chosen.taken.during = interventions

\* The engine's own clicks, which the listener reports as well, are never on
\* record as human actions.
RecordIsHuman == "automation" \notin recorded

\* Once a human put something on the page, in this intervention or an earlier
\* one, a failure report captures no page content (_failure_evidence).
EvidenceHidesHumanInput == captured => ~entered

\* What makes SingleDriver inductive: a parked engine never holds the token.
TokenInv == SingleDriver /\ (Parked => state # "AUTOMATION")

\* An intervention ends, with a decision or at its deadline, unless operators
\* keep the engine busy with commands or undeclared codes for ever.
KeptBusy ==
  \E o \in Operators :
    OperatorSubmits(o) \/ (OperatorDecides(o) /\ decision'.kind = "RESOLVE")

InterventionEnds == (Parked ~> ~Parked) \/ []<><<KeptBusy>>_vars

\* A pause requested while automation drives is granted, or the run is over.
PauseIsGranted == pauseRequested /\ Driving ~> Parked \/ phase = "ended"

\* The operator on record for a decision is the one who made it.  The code does
\* not keep this, nor the next one; README.md, "Disagreements".
DecisionIsAttributed == phase = "leaving" => chosen.operator = chosen.taken.by

\* Once an abort was accepted, automation never drives the session again.
AbortStopsTheRun == aborted => ~Driving

=============================================================================
