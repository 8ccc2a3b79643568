------------------------------- MODULE Replay -------------------------------
(***************************************************************************)
(* The replay engine (src/src/hands/replay.py): the index loop that drives *)
(* one capability's steps against a live page and returns exactly one      *)
(* result.  The page is the environment: whether a postcondition, the      *)
(* checkpoint or a precondition holds is answered anew at every read; which*)
(* recognizers match is a state of the page (showing), because freshness   *)
(* suppression compares two reads of it.  Time is the flag expired, the    *)
(* step budget.  The operator of an attended run is reduced here to what   *)
(* the engine gets back from _park_and_wait; the hand-off itself is        *)
(* ControlHandoff.                                                         *)
(***************************************************************************)
EXTENDS Integers, FiniteSets

CONSTANTS
  N,              \* number of steps of the capability; index N is the checkpoint
  M,              \* number of conditions, numbered in the order of the artifact
  Risky,          \* the steps labelled risky
  Mutating,       \* the steps whose action can send a mutation-kind request
  Recoverable,    \* the conditions classified recoverable; the others are outcomes
  RiskyRecovery,  \* the recoverable conditions whose recovery sends a mutation
  ArmedAfter,     \* condition -> index of the step it is armed after
  RestartFrom,    \* condition -> index of restart_from, or Retry
  MaxFires,       \* condition -> max_fires_per_run
  Attended,       \* is an escalation hub configured?
  MaxEscalations, \* EscalationSettings.max_escalations
  RequireReview,  \* PolicySettings.require_risk_review
  LateDispatch,   \* can a request leave the page after the driver call returned?
  MaxRuns         \* bound: runs of one engine object that are explored

Steps == 0 .. N - 1
Conds == 1 .. M
None  == -1
Retry == -1

ASSUME ReplayAssumption ==
  /\ N \in Nat \ {0}
  /\ M \in Nat
  /\ Risky \subseteq Steps
  /\ Mutating \subseteq Steps
  /\ Recoverable \subseteq Conds
  /\ RiskyRecovery \subseteq Recoverable
  /\ ArmedAfter \in [Conds -> Steps]
  /\ RestartFrom \in [Conds -> Steps \cup {Retry}]
  /\ MaxFires \in [Conds -> Nat]
  /\ Attended \in BOOLEAN
  /\ MaxEscalations \in Nat
  /\ RequireReview \in BOOLEAN
  /\ LateDispatch \in BOOLEAN
  /\ MaxRuns \in Nat

VARIABLES
  pc,           \* where the engine is
  index,        \* the loop's index: a step, or N in the checkpoint phase
  suppressed,   \* recognizers suppressed as stale in the current step
  kept,         \* the suppression the last completed step handed to the checkpoint
  fires,        \* condition -> recoveries counted in this run
  recover,      \* the condition being recovered from, or None
  escalations,  \* interventions raised in this run
  hazard,       \* the step named by _hazard, or None
  mutated,      \* a mutation was observed since _dispatch_mark
  blocked,      \* a request was blocked since _blocked_mark
  expired,      \* the step budget has run out
  result,       \* what run() returned
  runs,         \* how many times run() was called
  runDir,       \* last_run_dir: the run it belongs to, or 0
  showing,      \* the page: the conditions that match now
  inflight,     \* the page: actions that ran and whose mutation has yet to leave
  stale,        \* history: conditions showing without a break since the step began
  tried,        \* history: steps whose action was attempted in this run
  sent,         \* history: risky steps a mutation of which left the browser
  recoverySent  \* history: a recovery step sent a mutation in this run

engine  == <<index, suppressed, kept, fires, recover, escalations, expired>>
marks   == <<mutated, blocked>>
calls   == <<runs, runDir>>
page    == <<showing, stale>>
traffic == <<inflight, tried, sent, recoverySent>>
vars    == <<pc, engine, hazard, marks, result, calls, page, traffic>>

Phases == {"idle", "start", "requires", "enter", "ready", "perform", "await",
           "checkpoint", "recovering", "parked", "extract"}
Kinds  == {"NONE", "INVALID_PARAMETERS", "REVIEW_REQUIRED", "OFF_ALLOWLIST",
           "PRECONDITION_FAILED", "SUCCESS", "BUSINESS_OUTCOME", "FAILURE",
           "UNRESOLVED"}

Result(kind, at) == [kind |-> kind, at |-> at]
Running == pc # "idle"

TypeOK ==
  /\ pc \in Phases
  /\ index \in 0 .. N
  /\ suppressed \subseteq Conds
  /\ kept \subseteq Conds
  /\ fires \in [Conds -> Nat]
  /\ recover \in Recoverable \cup {None}
  /\ escalations \in Nat
  /\ hazard \in Risky \cup {None}
  /\ mutated \in BOOLEAN
  /\ blocked \in BOOLEAN
  /\ expired \in BOOLEAN
  /\ result \in [kind : Kinds, at : Int]
  /\ runs \in Nat
  /\ runDir \in Nat
  /\ showing \subseteq Conds
  /\ stale \subseteq showing
  /\ inflight \subseteq Mutating
  /\ tried \subseteq Steps
  /\ sent \subseteq Risky
  /\ recoverySent \in BOOLEAN
  /\ pc = "recovering" => recover \in Recoverable
  /\ pc \in {"ready", "perform", "await"} => index \in Steps

-----------------------------------------------------------------------------
(* Leaving the run: one verdict, one way to escalate. *)

Finish(r) == pc' = "idle" /\ result' = r

\* The wrong order: the allowlist is blamed before the doubt is looked at.
VerdictBlamesFirst(unresolved, h) ==
  IF blocked THEN Result("OFF_ALLOWLIST", index)
  ELSE IF h # None THEN Result("UNRESOLVED", h)
  ELSE IF unresolved THEN Result("UNRESOLVED", index)
  ELSE Result("FAILURE", index)

\* How run() names a failure, h being the hazard: doubt first, then the
\* allowlist, and only then a failure.
Verdict(unresolved, h) ==
  IF h # None THEN Result("UNRESOLVED", h)
  ELSE IF unresolved THEN Result("UNRESOLVED", index)
  ELSE IF blocked THEN Result("OFF_ALLOWLIST", index)
  ELSE Result("FAILURE", index)

\* _maybe_escalate up to the park: attended, a failure becomes an
\* intervention while the escalation budget lasts.
StepFailed(unresolved, h) ==
  /\ hazard' = h
  /\ IF Attended /\ escalations < MaxEscalations
     THEN /\ pc' = "parked"
          /\ escalations' = escalations + 1
          /\ UNCHANGED result
     ELSE /\ Finish(Verdict(unresolved, h))
          /\ UNCHANGED escalations

\* A note that forgets to ask for the label.
NotedForAnyStep(m) == IF m /\ hazard = None THEN index ELSE hazard

\* _note_hazard, m telling whether a mutation was observed since the mark:
\* the first hazard of a run stays.
Noted(m) == IF index \in Risky /\ m /\ hazard = None THEN index ELSE hazard

-----------------------------------------------------------------------------
(* run(): reset, validate, gate, then start the browser. *)

\* A reset that comes after validation and the gate, so a refusal skips it.
ResetAfterGate(dir) ==
  /\ hazard' = None
  /\ mutated' = FALSE
  /\ blocked' = FALSE
  /\ runDir' = IF dir = 0 THEN runDir ELSE dir

\* A reset that leaves the hazard of the previous run in place.
ResetKeepsHazard(dir) ==
  /\ UNCHANGED hazard
  /\ mutated' = FALSE
  /\ blocked' = FALSE
  /\ runDir' = dir

\* _reset_run_state, with the run directory this call ends up with: none (0)
\* when it is refused.
ResetRunState(dir) ==
  /\ hazard' = None
  /\ mutated' = FALSE
  /\ blocked' = FALSE
  /\ runDir' = dir

\* The locals of _execute, and the history of the run.
NewRun ==
  /\ index' = 0
  /\ suppressed' = {}
  /\ kept' = {}
  /\ fires' = [c \in Conds |-> 0]
  /\ recover' = None
  /\ escalations' = 0
  /\ expired' = FALSE
  /\ showing' = {}
  /\ stale' = {}
  /\ inflight' = {}
  /\ tried' = {}
  /\ sent' = {}
  /\ recoverySent' = FALSE

NeedsReview(reviewed) ==
  RequireReview /\ ~Attended /\ Risky # {} /\ ~reviewed

\* _validate_params raised ValueError, or the risk gate refused.
Refuse ==
  /\ ~Running
  /\ runs < MaxRuns
  /\ runs' = runs + 1
  /\ ResetRunState(0)
  /\ NewRun
  /\ \E reviewed \in BOOLEAN :
       \/ Finish(Result("INVALID_PARAMETERS", None))
       \/ NeedsReview(reviewed) /\ Finish(Result("REVIEW_REQUIRED", None))

Begin ==
  /\ ~Running
  /\ runs < MaxRuns
  /\ runs' = runs + 1
  /\ ResetRunState(runs + 1)
  /\ NewRun
  /\ \E reviewed \in BOOLEAN : ~NeedsReview(reviewed)
  /\ pc' = "start"
  /\ result' = Result("NONE", None)

Start ==
  /\ pc = "start"
  /\ pc' = "requires"
  /\ UNCHANGED <<engine, hazard, marks, result, calls, page, traffic>>

CheckRequires ==
  /\ pc = "requires"
  /\ \/ pc' = "enter" /\ UNCHANGED result
     \/ Finish(Result("PRECONDITION_FAILED", None))
  /\ UNCHANGED <<engine, hazard, marks, calls, page, traffic>>

\* The browser never came up, or the entry page did not load.
StartFails ==
  /\ pc = "start"
  /\ Finish(Verdict(FALSE, hazard))
  /\ UNCHANGED <<engine, hazard, marks, calls, page, traffic>>

-----------------------------------------------------------------------------
(* Recognizers. *)

Armed(i) == {c \in Conds : ArmedAfter[c] <= i}
Fresh(s) == s \cap showing

\* The first armed condition, in the artifact's order, that matches; outcomes
\* in s are suppressed, recoverable conditions never are.
Matching(s) == {c \in Armed(index) \cap showing : c \in Recoverable \/ c \notin s}
IsHit(c, s) == c \in Matching(s) /\ \A d \in Matching(s) : c <= d

Target(c) == IF RestartFrom[c] = Retry THEN index ELSE RestartFrom[c]

\* A count that is read but never written back.
CountForgotten(c) == fires

CountFire(c) == [fires EXCEPT ![c] = @ + 1]

\* Only the steps strictly before the consequential one are refused.
RerunsOffByOne(c) == hazard # None /\ Target(c) < hazard

\* Resuming at or before the consequential step would run it again.
Reruns(c) == hazard # None /\ Target(c) <= hazard

\* _recover up to the recovery steps: the cap, then a risky step that already
\* acted, then a resume point that would run the consequential step again.
Recover(c, acted) ==
  LET exhausted == fires[c] + 1 > MaxFires[c]
      refire    == acted /\ index \in Risky
      rerun     == Reruns(c)
  IN  /\ fires' = CountFire(c)
      /\ \/ /\ exhausted
            /\ StepFailed(FALSE, hazard)
            /\ UNCHANGED recover
         \/ /\ ~exhausted /\ refire
            /\ StepFailed(mutated, hazard)
            /\ UNCHANGED recover
         \/ /\ ~exhausted /\ ~refire /\ rerun
            /\ StepFailed(FALSE, hazard)
            /\ UNCHANGED recover
         \/ /\ ~exhausted /\ ~refire /\ ~rerun
            /\ pc' = "recovering"
            /\ recover' = c
            /\ UNCHANGED <<escalations, hazard, result>>

\* One poll that ended the step: the operator asked for control, or an armed
\* recognizer matched.  s is the suppression after this poll's refresh.
Interrupted(s, acted) ==
  \/ /\ Attended
     /\ StepFailed(FALSE, hazard)
     /\ UNCHANGED <<fires, recover>>
  \/ \E c \in Conds :
       /\ IsHit(c, s)
       /\ \/ c \in Recoverable /\ Recover(c, acted)
          \/ /\ c \notin Recoverable
             /\ Finish(Result("BUSINESS_OUTCOME", c))
             /\ UNCHANGED <<fires, recover, escalations, hazard>>

\* The recovery steps, single attempt and without recognizers; they may send a
\* mutation whether or not they then succeed.
RunRecovery ==
  /\ pc = "recovering"
  /\ \E leaves \in (IF recover \in RiskyRecovery THEN BOOLEAN ELSE {FALSE}) :
       /\ recoverySent' = (recoverySent \/ leaves)
       /\ mutated' = (mutated \/ leaves)
  /\ \/ /\ index' = Target(recover)
        /\ pc' = "enter"
        /\ UNCHANGED <<hazard, escalations, result>>
     \/ /\ StepFailed(FALSE, hazard)
        /\ UNCHANGED index
  /\ recover' = None
  /\ UNCHANGED <<suppressed, kept, fires, expired, blocked, calls, page,
                 inflight, tried, sent>>

-----------------------------------------------------------------------------
(* One step. *)

\* No snapshot at all.
SnapshotSkipped == {}

\* The outcomes that already match before the step acts.
Snapshot == (Armed(index) \ Recoverable) \cap showing

\* The start of _run_step: the freshness snapshot, then the two marks.
EnterStep ==
  /\ pc = "enter"
  /\ index < N
  /\ suppressed' = Snapshot
  /\ stale' = showing
  /\ mutated' = FALSE
  /\ blocked' = FALSE
  /\ expired' = FALSE
  /\ pc' = "ready"
  /\ UNCHANGED <<index, kept, fires, recover, escalations, hazard, result,
                 calls, showing, traffic>>

\* _act_with_retries: the poll before an attempt.
PollBeforeAct ==
  /\ pc = "ready"
  /\ suppressed' = Fresh(suppressed)
  /\ \/ Interrupted(suppressed', FALSE)
     \/ /\ Matching(suppressed') = {}
        /\ pc' = "perform"
        /\ UNCHANGED <<fires, recover, escalations, hazard, result>>
  /\ UNCHANGED <<index, kept, expired, marks, calls, page, traffic>>

\* What an attempt does to the world: the page may run the action even though
\* the driver call fails, and its mutation leaves at once, later, or never.
Attempt(landed, leaves, late) ==
  /\ leaves => landed /\ index \in Mutating
  /\ late => LateDispatch /\ landed /\ ~leaves /\ index \in Mutating
  /\ tried' = tried \cup {index}
  /\ mutated' = (mutated \/ leaves)
  /\ sent' = IF leaves /\ index \in Risky THEN sent \cup {index} ELSE sent
  /\ inflight' = IF late THEN inflight \cup {index} ELSE inflight

\* A safe step goes round again whatever its budget says.
RetryableForEver == index \notin Risky

Retryable == index \notin Risky /\ ~expired

\* The attempt, and the hazard note after it.  Only a safe step inside its
\* budget goes round again, unless its effect is already there.
Perform ==
  /\ pc = "perform"
  /\ \E landed, leaves, late \in BOOLEAN : 
       /\ Attempt(landed, leaves, late)
       /\ \/ /\ landed
             /\ pc' = "await"
             /\ hazard' = Noted(mutated')
             /\ UNCHANGED <<escalations, result>>
          \/ /\ Retryable
             /\ pc' \in {"ready", "await"}
             /\ UNCHANGED <<escalations, hazard, result>>
          \/ StepFailed(index \in Risky /\ mutated', Noted(mutated'))
  /\ UNCHANGED <<index, suppressed, kept, fires, recover, expired, blocked,
                 calls, page, recoverySent>>

\* _await_post, the postconditions hold: nothing is noted on this path.
PostHolds ==
  /\ pc = "await"
  /\ kept' = suppressed
  /\ index' = index + 1
  /\ pc' = "enter"
  /\ UNCHANGED <<suppressed, fires, recover, escalations, expired, hazard,
                 marks, result, calls, page, traffic>>

\* _await_post, the postconditions do not hold: refresh, poll, deadline.
PollAfterAct ==
  /\ pc = "await"
  /\ suppressed' = Fresh(suppressed)
  /\ \/ Interrupted(suppressed', TRUE)
     \/ /\ Matching(suppressed') = {}
        /\ IF expired
           THEN StepFailed(index \in Risky /\ mutated, Noted(mutated))
           ELSE UNCHANGED <<pc, escalations, hazard, result>>
        /\ UNCHANGED <<fires, recover>>
  /\ UNCHANGED <<index, kept, expired, marks, calls, page, traffic>>

-----------------------------------------------------------------------------
(* The checkpoint phase and the outputs. *)

EnterCheckpoint ==
  /\ pc = "enter"
  /\ index = N
  /\ blocked' = FALSE
  /\ expired' = FALSE
  /\ pc' = "checkpoint"
  /\ UNCHANGED <<index, suppressed, kept, fires, recover, escalations, hazard,
                 mutated, result, calls, page, traffic>>

CheckpointHolds ==
  /\ pc = "checkpoint"
  /\ pc' = "extract"
  /\ UNCHANGED <<engine, hazard, marks, result, calls, page, traffic>>

PollCheckpoint ==
  /\ pc = "checkpoint"
  /\ kept' = Fresh(kept)
  /\ \/ Interrupted(kept', TRUE)
     \/ /\ Matching(kept') = {}
        /\ IF expired
           THEN StepFailed(FALSE, hazard)
           ELSE UNCHANGED <<pc, escalations, hazard, result>>
        /\ UNCHANGED <<fires, recover>>
  /\ UNCHANGED <<index, suppressed, expired, marks, calls, page, traffic>>

\* Outputs and the observer: a failure here is final, never escalated.
Extract ==
  /\ pc = "extract"
  /\ \/ Finish(Result("SUCCESS", None))
     \/ Finish(Verdict(FALSE, hazard))
  /\ UNCHANGED <<engine, hazard, marks, calls, page, traffic>>

-----------------------------------------------------------------------------
(* The intervention, reduced to what _park_and_wait returns. *)

\* The operator aborted, or the time to live ran out.
Unanswered ==
  /\ pc = "parked"
  /\ Finish(Verdict(FALSE, hazard))
  /\ UNCHANGED <<engine, hazard, marks, calls, page, traffic>>

\* The operator resolved the run as an outcome they established themselves.
ResolvedByHuman ==
  /\ pc = "parked"
  /\ Finish(Result("BUSINESS_OUTCOME", None))
  /\ UNCHANGED <<engine, hazard, marks, calls, page, traffic>>

\* Only a frontier strictly before the hazard is refused.
BehindHazardOffByOne(resumeAt) == hazard # None /\ resumeAt < hazard

BehindHazard(resumeAt) == hazard # None /\ resumeAt <= hazard

\* _resume_scan after an approval or a handback.  The frontier is the last
\* step whose postconditions hold; the engine refuses one at or before the
\* hazard, and without any frontier refuses to retry a risky step.
Resume ==
  /\ pc = "parked"
  /\ \/ /\ index' = N
        /\ pc' = "enter"
        /\ UNCHANGED result
     \/ \E frontier \in Steps :
          IF BehindHazard(frontier + 1)
          THEN Finish(Verdict(FALSE, hazard)) /\ UNCHANGED index
          ELSE index' = frontier + 1 /\ pc' = "enter" /\ UNCHANGED result
     \/ /\ IF index \in Risky
           THEN Finish(Verdict(FALSE, hazard))
           ELSE pc' = "enter" /\ UNCHANGED result
        /\ UNCHANGED index
  /\ UNCHANGED <<suppressed, kept, fires, recover, escalations, expired,
                 hazard, marks, calls, page, traffic>>

-----------------------------------------------------------------------------
(* The page and the clock. *)

PageChanges ==
  /\ Running
  /\ showing' \in SUBSET Conds
  /\ showing' # showing
  /\ stale' = stale \cap showing'
  /\ UNCHANGED <<pc, engine, hazard, marks, result, calls, traffic>>

\* A request that a step's action caused leaves the page after the driver call
\* returned; it counts since the mark of whatever step is current now.
LateRequest ==
  /\ Running
  /\ \E i \in inflight :
       /\ inflight' = inflight \ {i}
       /\ sent' = IF i \in Risky THEN sent \cup {i} ELSE sent
  /\ mutated' = TRUE
  /\ UNCHANGED <<pc, engine, hazard, blocked, result, calls, page, tried,
                 recoverySent>>

RequestBlocked ==
  /\ Running
  /\ blocked' = TRUE
  /\ UNCHANGED <<pc, engine, hazard, mutated, result, calls, page, traffic>>

DeadlinePasses ==
  /\ pc \in {"ready", "perform", "await", "checkpoint"}
  /\ expired' = TRUE
  /\ UNCHANGED <<pc, index, suppressed, kept, fires, recover, escalations,
                 hazard, marks, result, calls, page, traffic>>

-----------------------------------------------------------------------------
Init ==
  /\ pc = "idle"
  /\ index = 0
  /\ suppressed = {}
  /\ kept = {}
  /\ fires = [c \in Conds |-> 0]
  /\ recover = None
  /\ escalations = 0
  /\ hazard = None
  /\ mutated = FALSE
  /\ blocked = FALSE
  /\ expired = FALSE
  /\ result = Result("NONE", None)
  /\ runs = 0
  /\ runDir = 0
  /\ showing = {}
  /\ stale = {}
  /\ inflight = {}
  /\ tried = {}
  /\ sent = {}
  /\ recoverySent = FALSE

Step == EnterStep \/ PollBeforeAct \/ Perform \/ PostHolds \/ PollAfterAct

Engine ==
  \/ Start \/ CheckRequires \/ Step \/ RunRecovery
  \/ EnterCheckpoint \/ CheckpointHolds \/ PollCheckpoint \/ Extract

Operator == ResolvedByHuman \/ Resume

Environment == PageChanges \/ LateRequest \/ RequestBlocked \/ StartFails

Next ==
  \/ Refuse \/ Begin
  \/ Engine
  \/ Unanswered
  \/ Operator
  \/ DeadlinePasses
  \/ Environment

Spec == Init /\ [][Next]_vars

\* The engine thread runs, clocks advance, and an intervention has a time to
\* live; nothing is assumed of the page or of the operator.
FairSpec ==
  /\ Spec
  /\ WF_vars(Engine)
  /\ WF_vars(DeadlinePasses)
  /\ WF_vars(Unanswered)

-----------------------------------------------------------------------------
(* Properties. *)

\* A FAILURE or an allowlist verdict claims that nothing happened: it is never
\* returned once a consequential mutation has left the browser, whatever
\* failed afterwards (the verdict in run(), _note_hazard's call sites).
Denials == {"FAILURE", "OFF_ALLOWLIST", "PRECONDITION_FAILED"}

NoFalseFailure == result.kind \in Denials => sent = {} /\ ~recoverySent

\* UNRESOLVED needs credible evidence: the step it names is risky, and it did
\* send a mutation in this very run.
UnresolvedHasEvidence ==
  result.kind = "UNRESOLVED" => result.at \in sent

\* The engine is never about to perform a risky step whose mutation has
\* already left the browser in this run: not by a retry, not by a recovery,
\* not by a restart, not by a handback.
NoSecondDispatch ==
  pc = "perform" /\ index \in Risky => index \notin sent

\* A handback never resumes at or before a consequential step that already
\* dispatched: the operator's screen, not the engine, would run it again.
HandbackIsPastDispatch ==
  [][pc = "parked" /\ pc' = "enter" => \A i \in sent : index' > i]_vars

\* Once the run carries a hazard, the engine is past the step the hazard names,
\* or still inside it with its action behind it: no recovery and no handback
\* leads back to performing it.
HazardStepIsOver ==
  hazard # None =>
    \/ index > hazard
    \/ index = hazard /\ pc \in {"idle", "await", "parked"}

\* What makes the previous property inductive: a recovery under way leads past
\* the hazard (the test in _recover is made before the recovery steps run).
RecoveryIsPastHazard ==
  pc = "recovering" /\ hazard # None => Target(recover) > hazard

HazardInv == HazardStepIsOver /\ RecoveryIsPastHazard

\* As far as the steps themselves go, and not those of a recovery.
StepsAreNotDenied == result.kind \in Denials => sent = {}

\* What makes the verdicts honest when requests leave with the action: the
\* hazard and the record of what left agree whenever a verdict can be given.
DispatchInv ==
  /\ inflight = {}
  /\ sent \subseteq Mutating
  /\ sent # {} => hazard # None
  /\ hazard # None => hazard \in sent
  /\ pc \in {"ready", "perform", "await"} /\ mutated /\ index \in Risky
       => hazard # None /\ index \in sent
  /\ pc \in {"start", "requires"} => sent = {}
  /\ pc = "checkpoint" => index = N
  /\ Running => result.kind = "NONE"
  /\ StepsAreNotDenied
  /\ UnresolvedHasEvidence

\* The docstring's stronger retry rule: a step marked risky is never attempted
\* twice in a run.  The code does not keep it; README.md, "Disagreements".
RiskyNeverReattempted ==
  pc = "perform" /\ index \in Risky => index \notin tried

\* An outcome that was on the page before the step's action and never left it
\* does not become the answer of that step, nor of the checkpoint.
StaleNeverAnswers ==
  [][result'.kind = "BUSINESS_OUTCOME" /\ pc \in {"ready", "await", "checkpoint"}
       => result'.at \notin stale]_vars

\* A caller that reads last_run_dir after a call finds the evidence of that
\* call or nothing, never an earlier run's.
RunDirIsThisRun == runDir \in {0, runs}

\* The engine implements the contract of its result type.
Contract == INSTANCE ResultContract WITH
  running    <- Running,
  dispatched <- sent # {} \/ recoverySent,
  verdict    <- result.kind

KeepsTheContract == Contract!Spec

\* The way before a call that is at p, in step i: the steps to go, and where it is
\* in this one.  A recovery and a handback may lead to any step.
Stage ==
  [enter |-> 4, ready |-> 3, perform |-> 2, await |-> 1, checkpoint |-> 3, extract |-> 2]

Distance(p, i) ==
  IF p = "start" THEN 4 * N + 6
  ELSE IF p \in {"requires", "recovering", "parked"} THEN 4 * N + 5
  ELSE 4 * (N - i) + Stage[p]

Nearer == Distance(pc', index') < Distance(pc, index)

\* A recovery or an intervention that the caps still had, and nothing returned.
Spends ==
  /\ \A c \in Conds : fires'[c] >= fires[c]
  /\ escalations' >= escalations
  /\ \/ \E c \in Conds : fires[c] < MaxFires[c] /\ fires'[c] > fires[c]
     \/ escalations < MaxEscalations /\ escalations' > escalations

\* One more poll or attempt of the same step, inside its budget.
Waits ==
  /\ ~expired
  /\ {pc, pc'} \subseteq {"ready", "perform", "await", "checkpoint"}
  /\ UNCHANGED <<index, expired>>

Counts == ~Running' \/ Spends \/ (UNCHANGED <<fires, escalations>> /\ (Nearer \/ Waits))

\* Nothing the engine or the operator does is for nothing: each step ends the
\* call, spends from its caps, comes nearer to its end, or waits for a deadline
\* that has yet to pass.  A recovery that is not counted, a retry behind the
\* deadline or a handback that costs nothing would let a call go on for ever.
EveryStepCounts == [][Engine \/ StartFails \/ Unanswered \/ Operator => Counts]_vars

\* Every call returns: whatever the page, the operator and the network do, the
\* retries, recoveries and escalations run out.
EveryRunEnds == Running ~> ~Running
=============================================================================
