---------------------------- MODULE EscalationHub ----------------------------
(***************************************************************************)
(* The hub between the engine thread and the operator console              *)
(* (src/src/hands/escalation.py): one lock, so every method is one action, *)
(* and a method that returns False is one that is not enabled.  The console*)
(* serves each request on a thread of its own, so operators interleave     *)
(* freely.  A decision carries who posted it and during which intervention:*)
(* history that the hub itself does not keep; of a command only its place  *)
(* in the queue and who posted it matter.                                  *)
(***************************************************************************)
EXTENDS Naturals, Sequences

CONSTANTS
  Operators,  \* the names that post to the console
  MaxQueue    \* bound: commands waiting at once

ASSUME HubAssumption == Operators # {} /\ MaxQueue \in Nat

VARIABLES
  state,           \* ControlState: who holds the session
  operator,        \* the last operator to post a transition
  decision,        \* the decision not yet taken by the engine
  pauseRequested,  \* request_control was called since the last park
  commands,        \* the command queue
  recorded         \* human_actions: whose page events were recorded

hubVars == <<state, operator, decision, pauseRequested, commands, recorded>>

Nobody == "nobody"
Kinds  == {"NONE", "APPROVE", "HANDBACK", "ABORT", "RESOLVE"}
Actors == {"human", "automation"}

\* declared says whether the code of a RESOLVE is an outcome of the artifact.
Decisions ==
  [kind : Kinds, declared : BOOLEAN, by : Operators \cup {Nobody}, during : Nat]
NoDecision == [kind |-> "NONE", declared |-> TRUE, by |-> Nobody, during |-> 0]

HubTypeOK ==
  /\ state \in {"AUTOMATION", "PAUSED", "HUMAN"}
  /\ operator \in Operators \cup {Nobody}
  /\ decision \in Decisions
  /\ pauseRequested \in BOOLEAN
  /\ commands \in Seq(Operators)
  /\ recorded \subseteq Actors

HubInit ==
  /\ state = "AUTOMATION"
  /\ operator = Nobody
  /\ decision = NoDecision
  /\ pauseRequested = FALSE
  /\ commands = <<>>
  /\ recorded = {}

-----------------------------------------------------------------------------
(* The console's side. *)

\* Accepted in every state: a page that shows the running controls may be old.
RequestControl(o) ==
  /\ pauseRequested' = TRUE
  /\ operator' = o
  /\ UNCHANGED <<state, decision, commands, recorded>>

\* A take that does not wait for the engine to park.
TakeAtOnce(o) ==
  /\ state # "HUMAN"
  /\ state' = "HUMAN"
  /\ operator' = o
  /\ UNCHANGED <<decision, pauseRequested, commands, recorded>>

Take(o) ==
  /\ state = "PAUSED"
  /\ state' = "HUMAN"
  /\ operator' = o
  /\ UNCHANGED <<decision, pauseRequested, commands, recorded>>

SubmitCommand(o) ==
  /\ state = "HUMAN"
  /\ Len(commands) < MaxQueue
  /\ commands' = Append(commands, o)
  /\ UNCHANGED <<state, operator, decision, pauseRequested, recorded>>

\* Approving needs a paused run, the other decisions a human in control.  A
\* decision the engine has not taken yet is overwritten.
Decide(o, kind, declared, now) ==
  /\ kind \in {"HANDBACK", "ABORT", "RESOLVE"} => state = "HUMAN"
  /\ kind = "APPROVE" => state = "PAUSED"
  /\ decision' = [kind |-> kind, declared |-> declared, by |-> o, during |-> now]
  /\ operator' = o
  /\ UNCHANGED <<state, pauseRequested, commands, recorded>>

-----------------------------------------------------------------------------
(* The engine's side. *)

\* A park that keeps a decision nobody has taken.
ParkKeepsDecision ==
  /\ state' = "PAUSED"
  /\ pauseRequested' = FALSE
  /\ UNCHANGED decision

Park ==
  /\ state' = "PAUSED"
  /\ decision' = NoDecision
  /\ pauseRequested' = FALSE

PopCommand ==
  /\ commands # <<>>
  /\ commands' = Tail(commands)

TakeDecision == decision' = NoDecision

\* Recording page events whoever holds the session.
RecordAlways(events) == recorded' = recorded \cup events

\* The capture callback: dormant unless a human holds the session.
RecordHumanAction(events) ==
  recorded' = IF state = "HUMAN" THEN recorded \cup events ELSE recorded

\* Pending commands, a requested pause and a late decision stay.
ResumeAutomation == state' = "AUTOMATION"
=============================================================================
