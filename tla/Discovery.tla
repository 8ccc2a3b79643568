------------------------------ MODULE Discovery ------------------------------
(***************************************************************************)
(* Discovery (discover.py): one supervised exploration of the application  *)
(* for the happy path and one for every declared outcome, each a planning  *)
(* loop (planner.py) in which the model proposes, the planner validates,   *)
(* acts, watches the network and records; the recorder's checks; and the   *)
(* artifact that comes of it.  The model's proposals and the pages are the *)
(* environment; the page reacts to an action in its own time.              *)
(***************************************************************************)
EXTENDS Integers, Sequences, FiniteSets

CONSTANTS
  Elements,    \* what the primary rung of a ladder tells apart
  Kind,        \* element -> "click" or "type", what is done with it
  Posts,       \* the elements whose reaction is a non-GET request
  Codes,       \* the declared outcomes, in the order of the request
  MaxSteps,    \* Planner.max_steps
  MaxInvalid   \* Planner.max_invalid

ASSUME DiscoveryAssumption ==
  /\ Kind \in [Elements -> {"click", "type"}]
  /\ Posts \subseteq Elements
  /\ Codes \in Seq(STRING)
  /\ \A i \in DOMAIN Codes : Codes[i] \notin {"none", "done", "stuck", "exhausted"}
  /\ MaxSteps \in Nat \ {0} /\ MaxInvalid \in Nat \ {0}

Outcomes == {Codes[i] : i \in DOMAIN Codes}
Endings  == {"none", "done", "stuck", "exhausted"} \cup Outcomes
Legs     == 1 .. Len(Codes) + 1   \* the first is the happy one
Steps    == [element : Elements, risk : {"safe", "risky"}, nth : Nat]

VARIABLES
  leg,       \* the exploration under way
  phase,     \* where discover() or the planner in it is
  steps,     \* PlannerResult.steps
  calls,     \* PlannerResult.llm_calls
  invalid,   \* PlannerResult.invalid_proposals
  grace,     \* grace_turn_used
  ending,    \* PlannerResult.ending, with the reported code
  acting,    \* the element the driver call is about, and whether it landed
  nonGet,    \* _RiskWatch.non_get_seen of the latest watch
  changed,   \* does the page show something it did not before the action?
  pending,   \* the actions the page has still to react to
  happy,     \* the happy run's steps
  armed,     \* outcome -> the number of happy steps its recognizer arms after
  artifact,  \* has the artifact been written?
  did,       \* history: the elements acted on in this leg, recorded or not
  posted,    \* history: the actions whose request left before they were observed
  lost,      \* history: did an action land that was answered as failed?
  routes     \* history: did and lost of the legs that were distilled

budget  == <<calls, invalid, grace>>
acts    == <<acting, nonGet, changed, pending, did, posted, lost>>
results == <<leg, happy, armed, artifact, routes>>
vars    == <<phase, steps, ending, budget, acts, results>>

Phases == {"idle", "asking", "turn", "driving", "observing", "settling", "ended", "failed", "written"}

TypeOK ==
  /\ leg \in 1 .. Len(Codes) + 2
  /\ phase \in Phases
  /\ steps \in Seq(Steps) /\ happy \in Seq(Steps) /\ Len(steps) <= MaxSteps
  /\ calls \in 0 .. MaxSteps + MaxInvalid + 1
  /\ invalid \in 0 .. MaxInvalid
  /\ grace \in BOOLEAN
  /\ ending \in Endings
  /\ acting \in [element : Elements, landed : BOOLEAN]
  /\ nonGet \in BOOLEAN /\ changed \in BOOLEAN /\ lost \in BOOLEAN /\ artifact \in BOOLEAN
  /\ did \in Seq(Elements)
  /\ pending \subseteq 1 .. Len(did) /\ posted \subseteq 1 .. Len(did)
  /\ armed \in Seq(Nat)

-----------------------------------------------------------------------------
\* A browser and a planner of its own for every leg; `finally` stops it.
StartLeg ==
  /\ phase = "idle" /\ leg \in Legs
  /\ phase' = "asking"
  /\ steps' = <<>> /\ ending' = "none"
  /\ calls' = 0 /\ invalid' = 0 /\ grace' = FALSE
  /\ pending' = {} /\ did' = <<>> /\ posted' = {} /\ lost' = FALSE
  /\ UNCHANGED <<acting, nonGet, changed, results>>

\* A bound that leaves no turn for the grace.
MayAskWithoutGrace == calls < MaxSteps + MaxInvalid
MayAsk == calls < MaxSteps + MaxInvalid + 1

\* model.complete.
Ask ==
  /\ phase = "asking"
  /\ IF MayAsk
     THEN /\ phase' = "turn" /\ calls' = calls + 1
          /\ UNCHANGED ending
     ELSE /\ phase' = "ended" /\ ending' = "exhausted"
          /\ UNCHANGED calls
  /\ UNCHANGED <<steps, invalid, grace, acts, results>>

\* Whether the invalid proposals are used up, one too late.
SpentLate(n) == n > MaxInvalid
Spent(n) == n >= MaxInvalid

\* _invalid: the proposal is answered with an error, and counted.
Invalid ==
  /\ invalid' = invalid + 1
  /\ IF Spent(invalid')
     THEN phase' = "ended" /\ ending' = "stuck"
     ELSE phase' = "asking" /\ UNCHANGED ending

\* No tool call or several, arguments that do not parse, an undeclared outcome,
\* an action that does not validate, or one no locator of which leads back to
\* its element.
Rejected ==
  /\ phase = "turn"
  /\ Invalid
  /\ UNCHANGED <<steps, calls, grace, acts, results>>

\* The model says how the run ends.
Ends ==
  /\ phase = "turn"
  /\ ending' \in {"done", "stuck"} \cup Outcomes
  /\ phase' = "ended"
  /\ UNCHANGED <<steps, budget, acts, results>>

\* An action beyond the step budget: it is told once, then the run is over.
OverBudget ==
  /\ phase = "turn"
  /\ Len(steps) >= MaxSteps
  /\ grace' = TRUE
  /\ IF grace
     THEN phase' = "ended" /\ ending' = "exhausted"
     ELSE phase' = "asking" /\ UNCHANGED ending
  /\ UNCHANGED <<steps, calls, invalid, acts, results>>

-----------------------------------------------------------------------------
\* A watch that ends when the driver call returns.
WatchedWhileDriving == phase = "driving"

\* _RiskWatch: over the driver call and the observation after it.
Watched == phase \in {"driving", "observing"}

\* _act_turn gives a validated action to the driver, under a new watch.
Act ==
  /\ phase = "turn"
  /\ Len(steps) < MaxSteps
  /\ \E e \in Elements : acting' = [element |-> e, landed |-> FALSE]
  /\ phase' = "driving"
  /\ nonGet' = FALSE /\ changed' = FALSE
  /\ UNCHANGED <<steps, ending, budget, pending, did, posted, lost, results>>

\* A fill is done when it is done, unless the page reacts to it with a request.
Reacts(e) == Kind[e] = "click" \/ e \in Posts

\* The click or the fill reaches the page.
Lands ==
  /\ phase = "driving" /\ ~acting.landed
  /\ acting' = [acting EXCEPT !.landed = TRUE]
  /\ did' = Append(did, acting.element)
  /\ pending' = IF Reacts(acting.element) THEN pending \cup {Len(did) + 1} ELSE pending
  /\ UNCHANGED <<phase, steps, ending, budget, nonGet, changed, posted, lost, results>>

\* The page reacts to an action, at any time after it, in any order; once the run
\* has ended nobody watches.
React(nth) ==
  /\ phase \in {"asking", "turn", "driving", "observing", "settling"}
  /\ nth \in pending
  /\ pending' = pending \ {nth}
  /\ changed' = TRUE
  /\ LET posts == did[nth] \in Posts IN
        /\ nonGet' = (nonGet \/ (posts /\ Watched))
        /\ posted' = IF posts /\ phase \in {"driving", "observing"} /\ nth = Len(did)
                        /\ acting.landed
                     THEN posted \cup {nth} ELSE posted
  /\ UNCHANGED <<phase, steps, ending, budget, acting, did, lost, results>>

\* The driver gives up, also after the action reached the page: it counts as a
\* proposal that was invalid, and nothing is recorded or observed.
DriverFails ==
  /\ phase = "driving"
  /\ Invalid
  /\ lost' = (lost \/ acting.landed)
  /\ UNCHANGED <<steps, calls, grace, acting, nonGet, changed, pending, did, posted, results>>

DriverReturns ==
  /\ phase = "driving" /\ acting.landed
  /\ phase' = "observing"
  /\ UNCHANGED <<steps, ending, budget, acts, results>>

\* build_observation, within the watch.
Observe ==
  /\ phase = "observing"
  /\ phase' = "settling"
  /\ UNCHANGED <<steps, ending, budget, acts, results>>

\* The label of the step that was just observed.
Risk == IF nonGet THEN "risky" ELSE "safe"

\* _settle_post: a fill is its own evidence, a click needs something new on the
\* page as it now is; without evidence no step is recorded (Raises).
Settle ==
  /\ phase = "settling"
  /\ changed \/ Kind[acting.element] = "type"
  /\ steps' = Append(steps, [element |-> acting.element, risk |-> Risk, nth |-> Len(did)])
  /\ phase' = "asking"
  /\ UNCHANGED <<ending, budget, acts, results>>

-----------------------------------------------------------------------------
\* What the happy leg must end with, and the others.
Expected == IF leg = 1 THEN "done" ELSE Codes[leg - 1]

\* Steps alike in their action kinds only.
SameKinds(a, b) == Kind[a.element] = Kind[b.element]
SameStep(a, b)  == a.element = b.element

\* _arming_step: the outcome leg went a part of the happy one's way, and its
\* recognizer arms after the last step of that part.
OnHappyPath ==
  /\ steps # <<>> /\ Len(steps) <= Len(happy)
  /\ \A i \in DOMAIN steps : SameStep(happy[i], steps[i])

\* The recorder proves what the model named on the live page, or Raises.
Distil ==
  /\ phase = "ended" /\ ending = Expected
  /\ IF leg = 1
     THEN happy' = steps /\ UNCHANGED armed
     ELSE OnHappyPath /\ armed' = Append(armed, Len(steps)) /\ UNCHANGED happy
  /\ routes' = Append(routes, [did |-> did, lost |-> lost])
  /\ leg' = leg + 1
  /\ phase' = "idle"
  /\ UNCHANGED <<steps, ending, budget, acts, artifact>>

\* An ending that is not the leg's, a divergent path, what cannot be proved, a
\* model provider or a page that fails: the exception leaves discover().
Raises ==
  /\ phase \notin {"failed", "written"}
  /\ phase' = "failed"
  /\ UNCHANGED <<steps, ending, budget, acts, results>>

\* assemble, which wants a step at least, and write_text.
Write ==
  /\ phase = "idle" /\ leg \notin Legs /\ happy # <<>>
  /\ artifact' = TRUE
  /\ phase' = "written"
  /\ UNCHANGED <<steps, ending, budget, acts, leg, happy, armed, routes>>

-----------------------------------------------------------------------------
Init ==
  /\ leg = 1 /\ phase = "idle" /\ steps = <<>> /\ ending = "none"
  /\ calls = 0 /\ invalid = 0 /\ grace = FALSE
  /\ acting \in [element : Elements, landed : {FALSE}]
  /\ nonGet = FALSE /\ changed = FALSE /\ pending = {}
  /\ happy = <<>> /\ armed = <<>> /\ artifact = FALSE
  /\ did = <<>> /\ posted = {} /\ lost = FALSE /\ routes = <<>>

Next ==
  \/ StartLeg \/ Ask \/ Rejected \/ Ends \/ OverBudget
  \/ Act \/ Lands \/ DriverFails \/ DriverReturns \/ Observe \/ Settle
  \/ \E nth \in pending : React(nth)
  \/ Distil \/ Raises \/ Write

Spec == Init /\ [][Next]_vars

-----------------------------------------------------------------------------
\* A run is called exhausted only when the model proposed one action more than
\* the budget in each of two turns: it was told, and had a turn to end the run
\* (planner.py:276-412).  So the bound of the loop never ends a run.
GraceBeforeExhausted ==
  ending = "exhausted" =>
    Len(steps) = MaxSteps /\ grace /\ calls = MaxSteps + invalid + 2

\* A step that is recorded as safe sent no non-GET request before it was
\* observed, wherever in the driver call or the page's reaction it came
\* (planner.py:212-232, 471-497).
SafeStepsAreQuiet ==
  \A i \in DOMAIN steps : steps[i].risk = "safe" => steps[i].nth \notin posted

\* The recognizer of an outcome arms where the outcome was seen: what was done to
\* the application in its leg is what the happy steps up to there did to it.  An
\* action that landed and was answered as failed is in no leg's steps
\* (discover.py:399-427, planner.py:471-480).
ArmedWhereSeen ==
  artifact => \A i \in DOMAIN armed :
    ~routes[1].lost /\ ~routes[i + 1].lost =>
      routes[i + 1].did = SubSeq(routes[1].did, 1, armed[i])
==============================================================================
