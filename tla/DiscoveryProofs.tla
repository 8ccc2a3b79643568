--------------------------- MODULE DiscoveryProofs ---------------------------
(***************************************************************************)
(* Proofs about Discovery, for any elements, outcomes and budgets.  The    *)
(* turns of a leg add up to its steps, its invalid proposals and its grace *)
(* turn; what a leg did is what it recorded, unless an action was lost;    *)
(* and the legs that were distilled agree with the happy steps.            *)
(***************************************************************************)
EXTENDS Discovery, TLAPS

Running == {"asking", "turn", "driving", "observing", "settling"}
InTurn  == {"turn", "driving", "observing", "settling"}

Route == [did : Seq(Elements), lost : BOOLEAN]

\* Every turn that is over was a step, an invalid proposal or the grace turn.
BudgetInv ==
  /\ phase \in Running =>
       /\ ending = "none"
       /\ invalid < MaxInvalid
       /\ grace => Len(steps) = MaxSteps
       /\ calls = Len(steps) + invalid + (IF grace THEN 1 ELSE 0)
                  + (IF phase \in InTurn THEN 1 ELSE 0)
  /\ phase \in {"driving", "observing", "settling"} => Len(steps) < MaxSteps
  /\ GraceBeforeExhausted

\* The action of this turn is the last one that was done.
UnderWay == phase \in {"driving", "observing", "settling"} /\ acting.landed

WatchInv ==
  /\ phase \in {"observing", "settling"} => acting.landed
  /\ UnderWay => did # <<>> /\ did[Len(did)] = acting.element
  /\ UnderWay /\ Len(did) \in posted => nonGet
  /\ \A i \in DOMAIN steps : steps[i].nth \in 1 .. Len(did)
  /\ UnderWay => \A i \in DOMAIN steps : steps[i].nth < Len(did)
  /\ SafeStepsAreQuiet

\* Recorded steps and landed actions, the one under way included.
Recorded ==
  phase # "failed" /\ ~lost =>
    /\ Len(did) = Len(steps) + (IF UnderWay THEN 1 ELSE 0)
    /\ \A i \in DOMAIN steps : did[i] = steps[i].element

RouteInv ==
  /\ routes \in Seq(Route)
  /\ Len(routes) = leg - 1
  /\ Len(armed) = IF leg = 1 THEN 0 ELSE leg - 2
  /\ leg > 1 /\ ~routes[1].lost =>
       /\ Len(routes[1].did) = Len(happy)
       /\ \A i \in 1 .. Len(happy) : routes[1].did[i] = happy[i].element
  /\ \A i \in DOMAIN armed :
       /\ armed[i] \in 1 .. Len(happy)
       /\ ~routes[i + 1].lost =>
            /\ Len(routes[i + 1].did) = armed[i]
            /\ \A j \in 1 .. armed[i] : routes[i + 1].did[j] = happy[j].element

-----------------------------------------------------------------------------
InLeg == phase \in Running \cup {"ended"} => leg \in Legs

LEMMA CodesFacts == Len(Codes) \in Nat /\ \A i \in 1 .. Len(Codes) : Codes[i] \in Outcomes
  BY DiscoveryAssumption DEF Outcomes

LEMMA TypeInit == Init => TypeOK /\ InLeg
  <1> SUFFICES ASSUME Init  PROVE TypeOK /\ InLeg  OBVIOUS
  <1>1. Len(steps) = 0 /\ steps \in Seq(Steps) /\ happy \in Seq(Steps) /\ did \in Seq(Elements)
        /\ armed \in Seq(Nat)
    BY DEF Init
  <1>2. acting \in [element : Elements, landed : BOOLEAN]  BY DEF Init
  <1>3. 0 \in 0 .. MaxSteps + MaxInvalid + 1 /\ 0 \in 0 .. MaxInvalid /\ 0 <= MaxSteps
    BY DiscoveryAssumption
  <1>4. 1 \in 1 .. Len(Codes) + 2  BY CodesFacts
  <1> QED  BY <1>1, <1>2, <1>3, <1>4 DEF Init, TypeOK, InLeg, Phases, Endings, Running

LEMMA TypeNext ==
  ASSUME TypeOK, InLeg, [Next]_vars, phase \in Running => invalid < MaxInvalid,
         phase = "settling" => Len(steps) < MaxSteps
  PROVE  TypeOK' /\ InLeg'
  <1> USE CodesFacts, DiscoveryAssumption
  <1>1. CASE StartLeg
    <2>1. Len(steps') = 0 /\ steps' \in Seq(Steps) /\ did' \in Seq(Elements)  BY <1>1 DEF StartLeg
    <2>2. 0 \in 0 .. MaxSteps + MaxInvalid + 1 /\ 0 \in 0 .. MaxInvalid /\ 0 <= MaxSteps  OBVIOUS
    <2> QED
      BY <1>1, <2>1, <2>2 DEF StartLeg, TypeOK, InLeg, Phases, Endings, Running, results
  <1>2. CASE Ask
    BY <1>2 DEF Ask, MayAsk, TypeOK, InLeg, Phases, Endings, Running, acts, results
  <1>3. CASE Rejected
    BY <1>3 DEF Rejected, Invalid, Spent, TypeOK, InLeg, Phases, Endings, Running, acts, results
  <1>4. CASE Ends
    BY <1>4 DEF Ends, TypeOK, InLeg, Phases, Endings, Running, budget, acts, results
  <1>5. CASE OverBudget
    BY <1>5 DEF OverBudget, TypeOK, InLeg, Phases, Endings, Running, acts, results
  <1>6. CASE Act
    <2>1. acting' \in [element : Elements, landed : BOOLEAN]  BY <1>6 DEF Act
    <2> QED
      BY <1>6, <2>1 DEF Act, TypeOK, InLeg, Phases, Endings, Running, budget, results
  <1>7. CASE Lands
    <2>1. acting' \in [element : Elements, landed : BOOLEAN]  BY <1>7 DEF Lands, TypeOK
    <2>2. did' \in Seq(Elements) /\ Len(did') = Len(did) + 1  BY <1>7 DEF Lands, TypeOK
    <2>3. pending' \subseteq 1 .. Len(did')  BY <1>7, <2>2 DEF Lands, TypeOK
    <2>4. posted' \subseteq 1 .. Len(did')  BY <1>7, <2>2 DEF Lands, TypeOK
    <2> QED
      BY <1>7, <2>1, <2>2, <2>3, <2>4 DEF Lands, TypeOK, InLeg, Phases, Endings, Running, budget, results
  <1>8. CASE DriverFails
    BY <1>8 DEF DriverFails, Invalid, Spent, TypeOK, InLeg, Phases, Endings, Running, results
  <1>9. CASE DriverReturns
    BY <1>9 DEF DriverReturns, TypeOK, InLeg, Phases, Endings, Running, budget, acts, results
  <1>10. CASE Observe
    BY <1>10 DEF Observe, TypeOK, InLeg, Phases, Endings, Running, budget, acts, results
  <1>11. CASE Settle
    <2>1. [element |-> acting.element, risk |-> Risk, nth |-> Len(did)] \in Steps
      BY DEF TypeOK, Steps, Risk
    <2>2. steps' \in Seq(Steps) /\ Len(steps') = Len(steps) + 1
      BY <1>11, <2>1 DEF Settle, TypeOK
    <2> QED
      BY <1>11, <2>2 DEF Settle, TypeOK, InLeg, Phases, Endings, Running, budget, acts, results
  <1>12. ASSUME NEW nth \in pending, React(nth)  PROVE TypeOK' /\ InLeg'
    <2>1. nonGet' \in BOOLEAN /\ posted' \subseteq 1 .. Len(did)
      BY <1>12 DEF React, TypeOK
    <2> QED
      BY <1>12, <2>1 DEF React, TypeOK, InLeg, Phases, Endings, Running, budget, results
  <1>13. CASE Distil
    <2>1. leg' \in 1 .. Len(Codes) + 2
      BY <1>13 DEF Distil, TypeOK, InLeg, Legs
    <2>2. happy' \in Seq(Steps) /\ armed' \in Seq(Nat)
      <3>1. steps \in Seq(Steps) /\ happy \in Seq(Steps) /\ armed \in Seq(Nat) /\ Len(steps) \in Nat
        BY DEF TypeOK
      <3>2. CASE leg = 1  BY <1>13, <3>1, <3>2 DEF Distil
      <3>3. CASE leg # 1
        <4>1. armed' = Append(armed, Len(steps)) /\ happy' = happy  BY <1>13, <3>3 DEF Distil
        <4>2. Append(armed, Len(steps)) \in Seq(Nat)  BY <3>1
        <4> QED  BY <3>1, <4>1, <4>2
      <3> QED  BY <3>2, <3>3
    <2> QED
      BY <1>13, <2>1, <2>2 DEF Distil, TypeOK, InLeg, Phases, Endings, Running, budget, acts
  <1>14. CASE Raises
    BY <1>14 DEF Raises, TypeOK, InLeg, Phases, Endings, Running, budget, acts, results
  <1>15. CASE Write
    BY <1>15 DEF Write, TypeOK, InLeg, Phases, Endings, Running, budget, acts
  <1>16. CASE UNCHANGED vars
    BY <1>16 DEF vars, TypeOK, InLeg, Phases, Endings, Running, budget, acts, results
  <1> QED
    BY <1>1, <1>2, <1>3, <1>4, <1>5, <1>6, <1>7, <1>8, <1>9, <1>10, <1>11, <1>12, <1>13, <1>14, <1>15,
       <1>16 DEF Next

LEMMA BudgetInit == Init => BudgetInv
  BY DEF Init, BudgetInv, GraceBeforeExhausted, Running

LEMMA BudgetTypes ==
  ASSUME TypeOK
  PROVE  /\ calls \in Nat /\ invalid \in Nat /\ Len(steps) \in Nat
         /\ MaxSteps \in Nat /\ MaxInvalid \in Nat /\ MaxSteps >= 1 /\ MaxInvalid >= 1
         /\ Len(steps) <= MaxSteps
  BY DiscoveryAssumption DEF TypeOK

\* In the phase in which the model is asked there is always a turn left.
LEMMA ATurnIsLeft == TypeOK /\ BudgetInv /\ phase = "asking" => MayAsk
  BY BudgetTypes DEF BudgetInv, Running, InTurn, MayAsk

LEMMA BudgetNext ==
  ASSUME TypeOK, BudgetInv, [Next]_vars
  PROVE  BudgetInv'
  <1> USE BudgetTypes
  <1> USE DEF BudgetInv, GraceBeforeExhausted, Running, InTurn
  <1>1. CASE StartLeg  BY <1>1 DEF StartLeg
  <1>2. CASE Ask
    <2>1. phase' = "turn" /\ calls' = calls + 1 /\ UNCHANGED ending
      BY <1>2, ATurnIsLeft DEF Ask
    <2> QED  BY <1>2, <2>1 DEF Ask
  <1>3. CASE Rejected  BY <1>3 DEF Rejected, Invalid, Spent
  <1>4. CASE Ends
    <2>1. ending' # "exhausted"  BY <1>4, DiscoveryAssumption DEF Ends, Outcomes
    <2> QED  BY <1>4, <2>1 DEF Ends
  <1>5. CASE OverBudget  BY <1>5 DEF OverBudget
  <1>6. CASE Act  BY <1>6 DEF Act, budget
  <1>7. CASE Lands  BY <1>7 DEF Lands, budget
  <1>8. CASE DriverFails  BY <1>8 DEF DriverFails, Invalid, Spent
  <1>9. CASE DriverReturns  BY <1>9 DEF DriverReturns, budget
  <1>10. CASE Observe  BY <1>10 DEF Observe, budget
  <1>11. CASE Settle
    <2>1. Len(steps') = Len(steps) + 1  BY <1>11 DEF Settle, TypeOK
    <2> QED  BY <1>11, <2>1 DEF Settle, budget
  <1>12. CASE \E nth \in pending : React(nth)  BY <1>12 DEF React, budget
  <1>13. CASE Distil  BY <1>13 DEF Distil, budget
  <1>14. CASE Raises  BY <1>14 DEF Raises, budget
  <1>15. CASE Write  BY <1>15 DEF Write, budget
  <1>16. CASE UNCHANGED vars  BY <1>16 DEF vars, budget
  <1> QED
    BY <1>1, <1>2, <1>3, <1>4, <1>5, <1>6, <1>7, <1>8, <1>9, <1>10, <1>11, <1>12, <1>13, <1>14, <1>15,
       <1>16 DEF Next

LEMMA TypeAndBudget == Spec => [](TypeOK /\ InLeg /\ BudgetInv)
  <1>1. TypeOK /\ InLeg /\ BudgetInv /\ [Next]_vars => (TypeOK /\ InLeg /\ BudgetInv)'
    <2> SUFFICES ASSUME TypeOK, InLeg, BudgetInv, [Next]_vars  PROVE (TypeOK /\ InLeg /\ BudgetInv)'
      OBVIOUS
    <2>1. phase \in Running => invalid < MaxInvalid  BY DEF BudgetInv
    <2>2. phase = "settling" => Len(steps) < MaxSteps  BY DEF BudgetInv
    <2>3. TypeOK' /\ InLeg'  BY <2>1, <2>2, TypeNext
    <2> QED  BY <2>3, BudgetNext
  <1> QED  BY <1>1, TypeInit, BudgetInit, PTL DEF Spec

\* What the planner counts and records stays within its types and budgets
\* (planner.py:236-241, 276-423).
THEOREM DiscoveryTypeCorrect == Spec => []TypeOK
  BY TypeAndBudget, PTL

\* Whatever the budgets, an exhausted run had its grace turn, and the bound of the
\* loop never ends one (planner.py:276-412).
THEOREM ExhaustedAfterGrace == Spec => []GraceBeforeExhausted
  <1>1. BudgetInv => GraceBeforeExhausted  BY DEF BudgetInv
  <1> QED  BY <1>1, TypeAndBudget, PTL

-----------------------------------------------------------------------------
Facts == TypeOK /\ InLeg /\ BudgetInv

LEMMA WatchInit == Init => WatchInv /\ Recorded /\ RouteInv
  <1> SUFFICES ASSUME Init  PROVE WatchInv /\ Recorded /\ RouteInv  OBVIOUS
  <1>1. WatchInv  BY DEF Init, WatchInv, UnderWay, SafeStepsAreQuiet
  <1>2. Recorded  BY DEF Init, Recorded, UnderWay
  <1>3. RouteInv  BY DEF Init, RouteInv
  <1> QED  BY <1>1, <1>2, <1>3

LEMMA SequenceTypes ==
  ASSUME TypeOK
  PROVE  /\ steps \in Seq(Steps) /\ happy \in Seq(Steps) /\ did \in Seq(Elements)
         /\ Len(steps) \in Nat /\ Len(did) \in Nat
         /\ acting \in [element : Elements, landed : BOOLEAN]
         /\ posted \subseteq 1 .. Len(did) /\ pending \subseteq 1 .. Len(did)
  BY DEF TypeOK

LEMMA WatchNext ==
  ASSUME TypeOK, WatchInv, [Next]_vars
  PROVE  WatchInv'
  <1> USE SequenceTypes
  <1> USE DEF WatchInv, UnderWay, SafeStepsAreQuiet
  <1>1. CASE StartLeg  BY <1>1 DEF StartLeg, acts, results
  <1>2. CASE Ask  BY <1>2 DEF Ask, acts, results
  <1>3. CASE Rejected  BY <1>3 DEF Rejected, Invalid, acts, results
  <1>4. CASE Ends  BY <1>4 DEF Ends, acts, results
  <1>5. CASE OverBudget  BY <1>5 DEF OverBudget, acts, results
  <1>6. CASE Act  BY <1>6 DEF Act, acts, results
  <1>7. CASE Lands  BY <1>7 DEF Lands, acts, results
  <1>8. CASE DriverFails  BY <1>8 DEF DriverFails, Invalid, acts, results
  <1>9. CASE DriverReturns  BY <1>9 DEF DriverReturns, acts, results
  <1>10. CASE Observe  BY <1>10 DEF Observe, acts, results
  <1>11. CASE Settle
    <2>1. /\ steps' = Append(steps, [element |-> acting.element, risk |-> Risk, nth |-> Len(did)])
          /\ phase' = "asking" /\ UNCHANGED <<acting, nonGet, did, posted>>
      BY <1>11 DEF Settle, acts
    <2>2. UnderWay /\ did # <<>>  BY <1>11 DEF Settle
    <2>3. Len(did) \in 1 .. Len(did)  BY <2>2
    <2>4. ASSUME NEW i \in DOMAIN steps'
          PROVE  steps'[i].nth \in 1 .. Len(did) /\ (steps'[i].risk = "safe" => steps'[i].nth \notin posted)
      <3>1. CASE i \in DOMAIN steps
        <4>1. steps'[i] = steps[i]  BY <2>1, <3>1
        <4> QED  BY <3>1, <4>1
      <3>2. CASE i \notin DOMAIN steps
        <4>1. steps'[i] = [element |-> acting.element, risk |-> Risk, nth |-> Len(did)]
          BY <2>1, <2>4, <3>2
        <4>2. steps'[i].nth = Len(did) /\ steps'[i].risk = Risk  BY <4>1
        <4>3. Len(did) \in posted => nonGet  BY <2>2
        <4>4. Risk = "safe" => ~nonGet  BY DEF Risk
        <4> QED  BY <2>3, <4>2, <4>3, <4>4
      <3> QED  BY <3>1, <3>2
    <2> QED  BY <2>1, <2>4
  <1>12. ASSUME NEW nth \in pending, React(nth)  PROVE WatchInv'
    <2>1. UNCHANGED <<phase, steps, acting, did>>  BY <1>12 DEF React
    <2>2. CASE posted' = posted
      <3>1. nonGet => nonGet'  BY <1>12 DEF React
      <3> QED  BY <2>1, <2>2, <3>1
    <2>3. CASE posted' # posted
      <3>1. /\ did[nth] \in Posts /\ phase \in {"driving", "observing"} /\ nth = Len(did)
            /\ acting.landed /\ posted' = posted \cup {nth}
        BY <1>12, <2>3 DEF React
      <3>2. nonGet'  BY <1>12, <3>1 DEF React, Watched
      <3>3. \A i \in DOMAIN steps : steps[i].nth # nth  BY <3>1
      <3> QED  BY <2>1, <3>1, <3>2, <3>3
    <2> QED  BY <2>2, <2>3
  <1>13. CASE Distil  BY <1>13 DEF Distil, acts, results
  <1>14. CASE Raises  BY <1>14 DEF Raises, acts, results
  <1>15. CASE Write  BY <1>15 DEF Write, acts, results
  <1>16. CASE UNCHANGED vars  BY <1>16 DEF vars, acts, results
  <1> QED
    BY <1>1, <1>2, <1>3, <1>4, <1>5, <1>6, <1>7, <1>8, <1>9, <1>10, <1>11, <1>12, <1>13, <1>14, <1>15,
       <1>16 DEF Next

LEMMA RecordedNext ==
  ASSUME TypeOK, WatchInv, Recorded, [Next]_vars
  PROVE  Recorded'
  <1> USE SequenceTypes
  <1> USE DEF Recorded, UnderWay
  <1>1. CASE StartLeg  BY <1>1 DEF StartLeg, acts, results
  <1>2. CASE Ask  BY <1>2 DEF Ask, acts, results
  <1>3. CASE Rejected  BY <1>3 DEF Rejected, Invalid, acts, results
  <1>4. CASE Ends  BY <1>4 DEF Ends, acts, results
  <1>5. CASE OverBudget  BY <1>5 DEF OverBudget, acts, results
  <1>6. CASE Act  BY <1>6 DEF Act, acts, results
  <1>7. CASE Lands  BY <1>7 DEF Lands, acts, results
  <1>8. CASE DriverFails  BY <1>8 DEF DriverFails, Invalid, acts, results
  <1>9. CASE DriverReturns  BY <1>9 DEF DriverReturns, acts, results
  <1>10. CASE Observe  BY <1>10 DEF Observe, acts, results
  <1>11. CASE Settle
    <2>1. /\ steps' = Append(steps, [element |-> acting.element, risk |-> Risk, nth |-> Len(did)])
          /\ phase = "settling" /\ phase' = "asking" /\ UNCHANGED <<acting, did, lost>>
      BY <1>11 DEF Settle, acts
    <2>2. acting.landed /\ did[Len(did)] = acting.element  BY <2>1 DEF WatchInv
    <2> SUFFICES ASSUME ~lost
                 PROVE  Len(did) = Len(steps') /\ \A i \in DOMAIN steps' : did[i] = steps'[i].element
      BY <2>1
    <2>3. Len(did) = Len(steps) + 1 /\ \A i \in DOMAIN steps : did[i] = steps[i].element
      BY <2>1, <2>2
    <2>4. Len(steps') = Len(steps) + 1  BY <2>1
    <2>5. ASSUME NEW i \in DOMAIN steps'  PROVE did[i] = steps'[i].element
      <3>1. CASE i \in DOMAIN steps  BY <2>1, <2>3, <3>1
      <3>2. CASE i \notin DOMAIN steps
        <4>1. i = Len(steps) + 1  BY <2>1, <2>5, <3>2
        <4>2. steps'[i].element = acting.element  BY <2>1, <4>1
        <4> QED  BY <2>2, <2>3, <4>1, <4>2
      <3> QED  BY <3>1, <3>2
    <2> QED  BY <2>3, <2>4, <2>5
  <1>12. ASSUME NEW nth \in pending, React(nth)  PROVE Recorded'  BY <1>12 DEF React
  <1>13. CASE Distil  BY <1>13 DEF Distil, acts, results
  <1>14. CASE Raises  BY <1>14 DEF Raises, acts, results
  <1>15. CASE Write  BY <1>15 DEF Write, acts, results
  <1>16. CASE UNCHANGED vars  BY <1>16 DEF vars, acts, results
  <1> QED
    BY <1>1, <1>2, <1>3, <1>4, <1>5, <1>6, <1>7, <1>8, <1>9, <1>10, <1>11, <1>12, <1>13, <1>14, <1>15,
       <1>16 DEF Next

LEMMA RouteNext ==
  ASSUME TypeOK, InLeg, Recorded, RouteInv, [Next]_vars
  PROVE  RouteInv'
  <1> USE SequenceTypes
  <1> USE DEF RouteInv
  <1>1. CASE StartLeg  BY <1>1 DEF StartLeg, acts, results
  <1>2. CASE Ask  BY <1>2 DEF Ask, acts, results
  <1>3. CASE Rejected  BY <1>3 DEF Rejected, Invalid, acts, results
  <1>4. CASE Ends  BY <1>4 DEF Ends, acts, results
  <1>5. CASE OverBudget  BY <1>5 DEF OverBudget, acts, results
  <1>6. CASE Act  BY <1>6 DEF Act, acts, results
  <1>7. CASE Lands  BY <1>7 DEF Lands, acts, results
  <1>8. CASE DriverFails  BY <1>8 DEF DriverFails, Invalid, acts, results
  <1>9. CASE DriverReturns  BY <1>9 DEF DriverReturns, acts, results
  <1>10. CASE Observe  BY <1>10 DEF Observe, acts, results
  <1>11. CASE Settle  BY <1>11 DEF Settle, acts, results
  <1>12. ASSUME NEW nth \in pending, React(nth)  PROVE RouteInv'
    <2>1. UNCHANGED <<leg, happy, armed, routes>>  BY <1>12 DEF React, results
    <2> QED  BY <2>1
  <1>13. CASE Distil
    <2> DEFINE this == [did |-> did, lost |-> lost]
    <2>1. phase = "ended" /\ routes' = Append(routes, this) /\ leg' = leg + 1
      BY <1>13 DEF Distil
    <2>2. leg \in Nat /\ leg >= 1 /\ Len(routes) = leg - 1 /\ routes \in Seq(Route)
      BY CodesFacts DEF TypeOK
    <2>3. this \in Route  BY DEF TypeOK, Route
    <2>4. routes' \in Seq(Route) /\ Len(routes') = leg' - 1  BY <2>1, <2>2, <2>3
    <2>5. routes'[leg].did = did /\ routes'[leg].lost = lost
      <3>1. routes'[leg] = this  BY <2>1, <2>2, <2>3
      <3> QED  BY <3>1
    <2>6. \A i \in 1 .. leg - 1 : routes'[i] = routes[i]  BY <2>1, <2>2, <2>3
    <2>7. ~lost => Len(did) = Len(steps) /\ \A i \in 1 .. Len(steps) : did[i] = steps[i].element
      BY <2>1 DEF Recorded, UnderWay
    <2>8. CASE leg = 1
      <3>1. happy' = steps /\ armed' = armed  BY <1>13, <2>8 DEF Distil
      <3>2. Len(armed') = 0 /\ armed' \in Seq(Nat)  BY <2>8, <3>1 DEF TypeOK
      <3>3. DOMAIN armed' = {}  BY <3>2
      <3>4. leg' = 2  BY <2>1, <2>8
      <3> QED  BY <2>4, <2>5, <2>7, <2>8, <3>1, <3>2, <3>3, <3>4
    <2>9. CASE leg # 1
      <3>1. happy' = happy /\ armed' = Append(armed, Len(steps)) /\ OnHappyPath
        BY <1>13, <2>9 DEF Distil
      <3>2. armed \in Seq(Nat) /\ Len(armed) = leg - 2 /\ leg >= 2
        BY <2>2, <2>9 DEF TypeOK
      <3>3. Len(armed') = leg' - 2  BY <2>1, <2>2, <3>1, <3>2
      <3>4. routes'[1] = routes[1]  BY <2>2, <2>6, <3>2
      <3>5. Len(steps) \in 1 .. Len(happy) /\ \A i \in 1 .. Len(steps) : happy[i].element = steps[i].element
        <4>1. steps # <<>> /\ Len(steps) <= Len(happy)  BY <3>1 DEF OnHappyPath
        <4>2. \A i \in 1 .. Len(steps) : happy[i].element = steps[i].element
          BY <3>1 DEF OnHappyPath, SameStep
        <4> QED  BY <4>1, <4>2
      <3>6. ASSUME NEW i \in DOMAIN armed'
            PROVE  /\ armed'[i] \in 1 .. Len(happy')
                   /\ ~routes'[i + 1].lost =>
                        /\ Len(routes'[i + 1].did) = armed'[i]
                        /\ \A j \in 1 .. armed'[i] : routes'[i + 1].did[j] = happy'[j].element
        <4>1. CASE i \in DOMAIN armed
          <5>1. armed'[i] = armed[i]  BY <3>1, <3>2, <4>1
          <5>2. i + 1 \in 1 .. leg - 1  BY <2>2, <3>2, <4>1
          <5>3. routes'[i + 1] = routes[i + 1]  BY <2>6, <5>2
          <5> QED  BY <3>1, <4>1, <5>1, <5>3
        <4>2. CASE i \notin DOMAIN armed
          <5>1. i = leg - 1 /\ armed'[i] = Len(steps)  BY <2>2, <3>1, <3>2, <3>6, <4>2
          <5>2. i + 1 = leg  BY <2>2, <5>1
          <5> QED  BY <2>5, <2>7, <3>1, <3>5, <5>1, <5>2
        <4> QED  BY <4>1, <4>2
      <3>7. leg' > 1 /\ leg > 1  BY <2>1, <2>2, <3>2
      <3> QED  BY <2>4, <3>1, <3>3, <3>4, <3>6, <3>7, <2>2
    <2> QED  BY <2>8, <2>9
  <1>14. CASE Raises  BY <1>14 DEF Raises, acts, results
  <1>15. CASE Write  BY <1>15 DEF Write, acts, results
  <1>16. CASE UNCHANGED vars  BY <1>16 DEF vars, acts, results
  <1> QED
    BY <1>1, <1>2, <1>3, <1>4, <1>5, <1>6, <1>7, <1>8, <1>9, <1>10, <1>11, <1>12, <1>13, <1>14, <1>15,
       <1>16 DEF Next

LEMMA DiscoveryInvariant == Spec => [](TypeOK /\ WatchInv /\ Recorded /\ RouteInv)
  <1>1. TypeOK /\ InLeg /\ WatchInv /\ Recorded /\ RouteInv /\ [Next]_vars
          => WatchInv' /\ Recorded' /\ RouteInv'
    BY WatchNext, RecordedNext, RouteNext
  <1> QED  BY <1>1, WatchInit, TypeAndBudget, PTL DEF Spec

\* In every run a step recorded as safe had sent no non-GET request when it was
\* observed (planner.py:212-232, 471-497).
THEOREM SafeIsQuiet == Spec => []SafeStepsAreQuiet
  <1>1. WatchInv => SafeStepsAreQuiet  BY DEF WatchInv
  <1> QED  BY <1>1, DiscoveryInvariant, PTL

\* For any outcomes and any explorations, a recognizer of the artifact arms where
\* its leg was on the happy path (discover.py:399-427), unless an action was lost.
THEOREM RecognizersArmWhereSeen == Spec => []ArmedWhereSeen
  <1>1. TypeOK /\ RouteInv => ArmedWhereSeen
    <2> SUFFICES ASSUME TypeOK, RouteInv, NEW i \in DOMAIN armed, ~routes[1].lost, ~routes[i + 1].lost
                 PROVE  routes[i + 1].did = SubSeq(routes[1].did, 1, armed[i])
      BY DEF ArmedWhereSeen
    <2>1. armed \in Seq(Nat) /\ leg \in Nat /\ leg > 1 /\ Len(routes) = leg - 1 /\ Len(armed) = leg - 2
      BY CodesFacts DEF TypeOK, RouteInv
    <2>2. 1 \in 1 .. Len(routes) /\ i + 1 \in 1 .. Len(routes)  BY <2>1
    <2>3. routes[1].did \in Seq(Elements) /\ routes[i + 1].did \in Seq(Elements)
      <3>1. routes[1] \in Route /\ routes[i + 1] \in Route  BY <2>2 DEF RouteInv
      <3> QED  BY <3>1 DEF Route
    <2>4. Len(routes[1].did) = Len(happy) /\ \A j \in 1 .. Len(happy) : routes[1].did[j] = happy[j].element
      BY <2>1 DEF RouteInv
    <2>5. /\ armed[i] \in 1 .. Len(happy) /\ Len(routes[i + 1].did) = armed[i]
          /\ \A j \in 1 .. armed[i] : routes[i + 1].did[j] = happy[j].element
      BY DEF RouteInv
    <2>6. \A j \in 1 .. armed[i] : routes[i + 1].did[j] = routes[1].did[j]
      <3>1. Len(happy) \in Nat  BY DEF TypeOK
      <3> QED  BY <2>4, <2>5, <3>1
    <2>7. \A a, b \in Seq(Elements) : \A n \in 1 .. Len(b) :
            Len(a) = n /\ (\A j \in 1 .. n : a[j] = b[j]) => a = SubSeq(b, 1, n)
      OBVIOUS
    <2> QED  BY <2>3, <2>4, <2>5, <2>6, <2>7
  <1> QED  BY <1>1, DiscoveryInvariant, PTL
=============================================================================
