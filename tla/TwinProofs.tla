----------------------------- MODULE TwinProofs -----------------------------
(***************************************************************************)
(* Proofs about the verified run, for any shares, statuses, faults and     *)
(* number of changes by others: a settled verdict tells what the record    *)
(* truly was (SettlesTruthfully), and what that says of the own request.   *)
(***************************************************************************)
EXTENDS Twin, TLAPS

Sound(image, record) == image.read /\ image.right => image.share = record

\* The images are those of the reads, and the phases keep their order.
WindowInv ==
  /\ phase = "pre" => looks = (IF reading.read THEN 1 ELSE 0) /\ pre = NoImage
  /\ phase \in {"call", "execute"} => looks = 1 /\ pre.share[Target] = From
  /\ phase = "post" => looks = (IF reading.read THEN 2 ELSE 1)
  /\ claim # "NONE" => looks \in {1, 2} /\ (post.read => looks = 2)
  /\ phase \in {"pre", "call", "execute"} => claim = "NONE"
  /\ phase = "post" => claim # "NONE"
  /\ phase \notin {"execute", "raised"} /\ claim = "NONE" => ~asked
  /\ phase \in {"call", "execute", "post"} => pre.read
  /\ phase \in {"call", "execute"} => reading = NoImage
  /\ phase \in {"pre", "call", "execute", "post"} => post = NoImage
  /\ phase = "pre" => Sound(reading, first)
  /\ phase = "post" => Sound(reading, last)
  /\ Sound(pre, first) /\ Sound(post, last)

\* What run_twin has recorded by the end, and keeps when it raises after that.
OutcomeInv ==
  /\ verdict = "NONE" => journal = {} /\ ~retry /\ collateral = {}
  /\ verdict # "NONE" => Closing \/ phase = "raised"
  /\ Closing => verdict # "NONE"
  /\ phase \in {"manifest", "done"} => "twin_finished" \in journal
  /\ verdict # "NONE" /\ claim = "NONE" =>
       /\ verdict = "REFUSED" /\ ~asked /\ ~retry /\ collateral = {}
       /\ journal \ {"twin_finished"} = {"execution_refused"}
  /\ verdict # "NONE" /\ claim # "NONE" =>
       /\ verdict = VerdictOn(pre, post, claim)
       /\ retry = RetryEligible(pre, post, claim)
       /\ collateral = Collateral(pre, post)
       /\ journal \ {"twin_finished"} = {"reconciled"}

\* What the request, the page and the claim have to do with each other.
RequestInv ==
  /\ request = "none" <=> ~asked
  /\ ~asked => shown = "nothing"
  /\ landed # "no" => request = "handled"
  /\ request = "dropped" <=> asked /\ ~Forwards
  /\ shown = "applied" => fault = "FALSE_SUCCESS" \/ landed = "window"
  /\ shown = "refused" => request = "handled" /\ landed = "no"
  /\ shown # "nothing" => request # "queued"
  /\ claim = "SUCCESS" => shown = "applied"
  /\ claim = "BUSINESS_OUTCOME" => ~asked \/ shown = "refused"
  /\ claim \in Engine!NothingRan \cup Engine!Refusals => ~asked
  /\ asked /\ fault = "THIRD_PARTY_MUTATION" => meddled
  /\ asked => looks \in {1, 2}
  /\ looks < 2 => landed \in {"no", "window"}

\* Between the reads only the own request moves the target, if nobody meddled.
EffectInv ==
  ~meddled =>
    /\ looks = 1 => durable[Target] = (IF landed = "window" THEN To ELSE first[Target])
    /\ looks = 2 => last[Target] = (IF landed = "window" THEN To ELSE first[Target])

Inv == TypeOK /\ WindowInv /\ OutcomeInv /\ RequestInv /\ EffectInv
-----------------------------------------------------------------------------
(* Proofs. *)

\* What images and records are made of.
LEMMA ImageTypes ==
  /\ NoImage \in Images /\ ~NoImage.read
  /\ \A image \in Images :
       image.read \in BOOLEAN /\ image.right \in BOOLEAN /\ image.share \in Records
  /\ \A s \in Shares, r \in Records : r[s] \in Statuses \cup {Absent}
  /\ \A r \in Records, s \in Shares, status \in Statuses \cup {Absent} :
       [r EXCEPT ![s] = status] \in Records
  /\ \A right \in BOOLEAN, r \in Records :
       [read |-> TRUE, right |-> right, share |-> r] \in Images
BY DEF NoImage, Images, Records

\* What the contract lets the executor's result be.
LEMMA ClaimTypes ==
  /\ "NONE" \notin Claims
  /\ Claims = {"SUCCESS", "BUSINESS_OUTCOME", "UNRESOLVED", "PRECONDITION_FAILED", "FAILURE",
               "OFF_ALLOWLIST", "INVALID_PARAMETERS", "REVIEW_REQUIRED"}
BY DEF Claims, Engine!Definite, Engine!NothingRan, Engine!Refusals

\* The verdict is one of four, and the target is never its own collateral.
LEMMA VerdictTypes ==
  ASSUME NEW a, NEW b, NEW kind
  PROVE  /\ VerdictOn(a, b, kind) \in Verdicts
         /\ RetryEligible(a, b, kind) \in BOOLEAN
         /\ Collateral(a, b) \subseteq Shares \ {Target}
BY DEF VerdictOn, RetryEligible, Collateral, Verdicts

\* What a settled verdict and a mismatch say of the two images.
LEMMA VerdictMeaning ==
  ASSUME NEW a, NEW b, NEW kind
  PROVE  /\ VerdictOn(a, b, kind) \in Settled \cup {"MISMATCH"} => Decides(a, b)
         /\ VerdictOn(a, b, kind) = "COMMITTED" => b.share[Target] = To
         /\ VerdictOn(a, b, kind) = "NOT_COMMITTED" =>
              b.share[Target] = From /\ Committed(kind) # "yes"
         /\ VerdictOn(a, b, kind) = "MISMATCH" =>
              \/ Committed(kind) = "no" /\ b.share[Target] = To
              \/ Committed(kind) = "yes" /\ b.share[Target] = From
<1>1. CASE ~Decides(a, b)
  BY <1>1 DEF VerdictOn, Settled
<1>2. CASE Decides(a, b)
  <2>1. b.share[Target] \in {From, To} /\ From # To
    BY <1>2, ReconcileAssumption DEF Decides
  <2>2. Contradicts(Committed(kind), b.share[Target]) <=>
          \/ Committed(kind) = "no" /\ b.share[Target] = To
          \/ Committed(kind) = "yes" /\ b.share[Target] = From
    BY DEF Contradicts
  <2>3. QED
    BY <1>2, <2>1, <2>2 DEF VerdictOn
<1>3. QED
  BY <1>1, <1>2

\* Initially nothing was read, sent or judged.
LEMMA InitInv == Init => Inv
<1> SUFFICES ASSUME Init PROVE Inv
  OBVIOUS
<1>1. TypeOK
  <2>1. durable \in Records /\ first \in Records /\ last \in Records
    BY DEF Init
  <2>2. reading \in Images /\ pre \in Images /\ post \in Images
    BY ImageTypes DEF Init
  <2>3. foreign \in 0 .. MaxForeign /\ looks \in 0 .. 2
    BY TwinAssumption DEF Init
  <2>4. collateral \subseteq Shares \ {Target}
    BY DEF Init
  <2>5. QED
    BY <2>1, <2>2, <2>3, <2>4 DEF Init, TypeOK, Phases
<1>2. WindowInv /\ OutcomeInv /\ RequestInv /\ EffectInv
  BY ImageTypes DEF Init, WindowInv, OutcomeInv, RequestInv, EffectInv, Sound,
                    Closing, Engine!NothingRan, Engine!Refusals
<1>3. QED
  BY <1>1, <1>2 DEF Inv

\* Every step keeps the types.
LEMMA NextTypeOK == TypeOK /\ WindowInv /\ [Next]_vars => TypeOK'
<1> SUFFICES ASSUME TypeOK, WindowInv, [Next]_vars PROVE TypeOK'
  OBVIOUS
<1> USE ImageTypes, ReconcileAssumption, TwinAssumption
    DEF TypeOK, executor, config, judgment, truth, Phases
<1>1. CASE \E kind \in {"get", "signon", "post"} : VerifierSends(kind)
  <2>1. PICK kind \in {"get", "signon", "post"} : VerifierSends(kind)
    BY <1>1
  <2>2. durable' \in Records
    BY <2>1 DEF VerifierSends
  <2>3. QED
    BY <2>1, <2>2 DEF VerifierSends
<1>2. CASE VerifierReads
  <2>1. reading' \in Images
    <3>1. ASSUME NEW status \in Statuses \cup {Absent}
          PROVE  [s \in Shares |-> status] \in Records
      BY DEF Records
    <3>2. QED
      BY <1>2, <3>1 DEF VerifierReads
  <2>2. looks' \in 0 .. 2
    BY <1>2 DEF VerifierReads, Observing, WindowInv
  <2>3. QED
    BY <1>2, <2>1, <2>2 DEF VerifierReads
<1>3. CASE VerifierReports \/ VerifierFails
  <2>1. PICK image \in Images : Reported(image)
    BY <1>3 DEF VerifierReports, VerifierFails
  <2>2. reading' \in Images /\ pre' \in Images /\ post' \in Images
    BY <2>1 DEF Reported
  <2>3. phase' \in {"call", "judge"} /\ violated' = FALSE
    BY <2>1 DEF Reported, Observing
  <2>4. /\ UNCHANGED <<durable, claim, asked, shown, request, fault, outage, verdict, retry>>
        /\ UNCHANGED <<collateral, journal, foreign, looks, first, last, landed, meddled>>
    BY <2>1 DEF Reported
  <2>5. /\ durable' \in Records /\ first' \in Records /\ last' \in Records
        /\ phase' \in Phases
    BY <2>3, <2>4
  <2>6. /\ claim' \in Claims \cup {"NONE"}
        /\ request' \in {"none", "queued", "handled", "dropped"}
        /\ shown' \in {"nothing", "applied", "refused", "garbled"}
        /\ fault' \in Faults
        /\ verdict' \in Verdicts \cup {"REFUSED", "NONE"}
    BY <2>4
  <2>7. /\ collateral' \subseteq Shares \ {Target}
        /\ journal' \subseteq {"execution_refused", "reconciled", "twin_finished"}
    BY <2>4
  <2>8. /\ asked' \in BOOLEAN /\ outage' \in BOOLEAN /\ retry' \in BOOLEAN
        /\ violated' \in BOOLEAN /\ meddled' \in BOOLEAN
    BY <2>3, <2>4
  <2>9. foreign' \in 0 .. MaxForeign /\ looks' \in 0 .. 2 /\ landed' \in {"no", "window", "after"}
    BY <2>4
  <2>10. QED
    BY <2>2, <2>5, <2>6, <2>7, <2>8, <2>9, Zenon
<1>4. CASE EngineRefuses
  <2>1. claim' \in Claims /\ asked' \in BOOLEAN
    BY <1>4 DEF EngineRefuses, Engine!Refuse, Claims
  <2>2. QED
    BY <1>4, <2>1 DEF EngineRefuses
<1>5. CASE EngineAccepts
  <2>1. claim' = "NONE" /\ asked' \in BOOLEAN
    BY <1>5 DEF EngineAccepts, Engine!Accept
  <2>2. QED
    BY <1>5, <2>1 DEF EngineAccepts
<1>6. CASE ExecutorAsks
  BY <1>6 DEF ExecutorAsks, Engine!Dispatch
<1>7. CASE ExecutorAnswers
  BY <1>7 DEF ExecutorAnswers, Engine!Answer, Claims
<1>8. CASE ServerHandles
  BY <1>8 DEF ServerHandles, Acknowledged
<1>9. CASE Judge
  <2>1. verdict' \in Verdicts \cup {"REFUSED", "NONE"} /\ retry' \in BOOLEAN
    BY <1>9, VerdictTypes DEF Judge
  <2>2. collateral' \subseteq Shares \ {Target}
    BY <1>9, VerdictTypes DEF Judge
  <2>3. journal' \subseteq {"execution_refused", "reconciled", "twin_finished"}
    BY <1>9 DEF Judge
  <2>4. QED
    BY <1>9, <2>1, <2>2, <2>3 DEF Judge
<1>10. CASE SomebodyElse
  <2>1. PICK s \in Shares, status \in Statuses \cup {Absent} :
          /\ durable' = [durable EXCEPT ![s] = status]
          /\ meddled' = (meddled \/ (s = Target /\ looks = 1))
    BY <1>10 DEF SomebodyElse
  <2>2. foreign' \in 0 .. MaxForeign
    BY <1>10 DEF SomebodyElse
  <2>3. QED
    BY <1>10, <2>1, <2>2, durable' \in Records, meddled' \in BOOLEAN DEF SomebodyElse
<1>11. CASE Finish \/ Return \/ Raises
  <2>1. /\ phase' \in Phases
        /\ journal' = journal \/ journal' = journal \cup {"twin_finished"}
    BY <1>11 DEF Finish, Return, Raises
  <2>2. journal' \subseteq {"execution_refused", "reconciled", "twin_finished"}
    BY <2>1
  <2>3. QED
    BY <1>11, <2>1, <2>2 DEF Finish, Return, Raises
<1>12. CASE UNCHANGED vars
  BY <1>12 DEF vars
<1>13. QED
  BY <1>1, <1>2, <1>3, <1>4, <1>5, <1>6, <1>7, <1>8, <1>9, <1>10, <1>11, <1>12
     DEF Next, Verifier, Executor

\* Every step keeps the order of the reads and the images true.
LEMMA NextWindowInv == TypeOK /\ WindowInv /\ [Next]_vars => WindowInv'
<1> SUFFICES ASSUME TypeOK, WindowInv, [Next]_vars PROVE WindowInv'
  OBVIOUS
<1> USE ImageTypes, ClaimTypes DEF WindowInv, Sound, executor, truth
<1>1. CASE \E kind \in {"get", "signon", "post"} : VerifierSends(kind)
  BY <1>1 DEF VerifierSends
<1>2. CASE VerifierReads
  <2>1. Observing /\ ~reading.read /\ looks' = looks + 1
    BY <1>2 DEF VerifierReads
  <2>2. reading'.read /\ (reading'.right => reading'.share = durable)
    BY <1>2 DEF VerifierReads
  <2>3. QED
    BY <1>2, <2>1, <2>2 DEF VerifierReads, Observing
<1>3. CASE VerifierReports \/ VerifierFails
  <2>1. PICK image \in Images : Reported(image) /\ (image = reading \/ image = NoImage)
    BY <1>3 DEF VerifierReports, VerifierFails, TypeOK
  <2>2. CASE phase = "pre"
    <3>1. image.read => looks = 1
      BY <2>1, <2>2
    <3>2. claim = "NONE" /\ ~asked /\ UNCHANGED <<claim, asked, looks, first, last>>
      BY <2>1, <2>2 DEF Reported
    <3>3. Sound(image, first)
      BY <2>1, <2>2
    <3>4. pre' = image /\ reading' = NoImage
      BY <2>1, <2>2 DEF Reported
    <3>5. CASE Authorized(image)
      BY <2>1, <2>2, <3>1, <3>2, <3>3, <3>4, <3>5 DEF Reported, Authorized
    <3>6. CASE ~Authorized(image)
      BY <2>1, <2>2, <3>2, <3>3, <3>4, <3>6 DEF Reported
    <3>7. QED
      BY <3>5, <3>6
  <2>3. CASE phase = "post"
    BY <2>1, <2>3 DEF Reported
  <2>4. QED
    BY <2>1, <2>2, <2>3 DEF Reported, Observing
<1>4. CASE EngineRefuses
  <2>1. claim' # "NONE" /\ ~asked'
    BY <1>4 DEF EngineRefuses, Engine!Refuse, Engine!Refusals
  <2>2. looks = 1 /\ ~reading.read
    BY <1>4 DEF EngineRefuses
  <2>3. QED
    BY <1>4, <2>1, <2>2 DEF EngineRefuses
<1>5. CASE EngineAccepts
  BY <1>5 DEF EngineAccepts, Engine!Accept
<1>6. CASE ExecutorAsks
  BY <1>6 DEF ExecutorAsks, Engine!Dispatch
<1>7. CASE ExecutorAnswers
  <2>1. claim' # "NONE" /\ phase' = "post"
    BY <1>7 DEF ExecutorAnswers, Engine!Answer, Engine!Definite, Engine!NothingRan
  <2>2. looks = 1 /\ ~reading.read /\ phase = "execute"
    BY <1>7 DEF ExecutorAnswers
  <2>3. UNCHANGED <<looks, reading, post, first, pre>>
    BY <1>7 DEF ExecutorAnswers
  <2>4. QED
    BY <2>1, <2>2, <2>3
<1>8. CASE ServerHandles
  BY <1>8 DEF ServerHandles
<1>9. CASE Judge
  BY <1>9 DEF Judge
<1>10. CASE SomebodyElse
  BY <1>10 DEF SomebodyElse
<1>11. CASE Finish \/ Return \/ Raises
  BY <1>11 DEF Finish, Return, Raises, Ended
<1>12. CASE UNCHANGED vars
  BY <1>12 DEF vars
<1>13. QED
  BY <1>1, <1>2, <1>3, <1>4, <1>5, <1>6, <1>7, <1>8, <1>9, <1>10, <1>11, <1>12
     DEF Next, Verifier, Executor

\* Every step keeps what is recorded of the outcome.
LEMMA NextOutcomeInv == TypeOK /\ WindowInv /\ OutcomeInv /\ [Next]_vars => OutcomeInv'
<1> SUFFICES ASSUME TypeOK, WindowInv, OutcomeInv, [Next]_vars PROVE OutcomeInv'
  OBVIOUS
<1> USE DEF OutcomeInv, Closing, executor, judgment
<1>1. CASE Judge
  <2>1. /\ phase = "judge" /\ phase' = "close" /\ UNCHANGED <<pre, post, claim, asked>>
        /\ verdict = "NONE"
    BY <1>1 DEF Judge
  <2>2. CASE claim = "NONE"
    <3>1. ~asked
      BY <2>1, <2>2 DEF WindowInv
    <3>2. QED
      BY <1>1, <2>1, <2>2, <3>1 DEF Judge, Refused
  <2>3. CASE claim # "NONE"
    <3>1. /\ verdict' = VerdictOn(pre, post, claim)
          /\ retry' = RetryEligible(pre, post, claim)
          /\ collateral' = Collateral(pre, post)
          /\ journal' = {"reconciled"}
      BY <1>1, <2>1, <2>3 DEF Judge, Refused
    <3>2. verdict' \in Verdicts
      BY <3>1, VerdictTypes
    <3>3. QED
      BY <2>1, <2>3, <3>1, <3>2 DEF Verdicts
  <2>4. QED
    BY <2>2, <2>3
<1>2. CASE (\E kind \in {"get", "signon", "post"} : VerifierSends(kind)) \/ VerifierReads
  BY <1>2 DEF VerifierSends, VerifierReads, Observing
<1>3. CASE VerifierReports \/ VerifierFails
  BY <1>3 DEF VerifierReports, VerifierFails, Reported, Observing
<1>4. CASE EngineRefuses
  BY <1>4 DEF EngineRefuses, Engine!Refuse
<1>5. CASE EngineAccepts \/ ExecutorAsks
  BY <1>5 DEF EngineAccepts, ExecutorAsks
<1>6. CASE ExecutorAnswers
  BY <1>6 DEF ExecutorAnswers
<1>7. CASE ServerHandles
  BY <1>7 DEF ServerHandles
<1>8. CASE SomebodyElse
  BY <1>8 DEF SomebodyElse
<1>9. CASE Finish
  <2>1. /\ phase = "close" /\ phase' = "manifest" /\ journal' = journal \cup {"twin_finished"}
        /\ UNCHANGED <<pre, post, claim, asked, verdict, retry, collateral>>
    BY <1>9 DEF Finish
  <2>2. journal' \ {"twin_finished"} = journal \ {"twin_finished"}
    BY <2>1
  <2>3. QED
    BY <2>1, <2>2
<1>10. CASE Return \/ Raises
  BY <1>10 DEF Return, Raises, Ended
<1>11. CASE UNCHANGED vars
  BY <1>11 DEF vars
<1>12. QED
  BY <1>1, <1>2, <1>3, <1>4, <1>5, <1>6, <1>7, <1>8, <1>9, <1>10, <1>11 DEF Next, Verifier, Executor

\* Every step keeps request, page and claim in agreement.
LEMMA NextRequestInv == TypeOK /\ WindowInv /\ RequestInv /\ [Next]_vars => RequestInv'
<1> SUFFICES ASSUME TypeOK, WindowInv, RequestInv, [Next]_vars PROVE RequestInv'
  OBVIOUS
<1> USE DEF RequestInv, WindowInv, executor, config, truth, Forwards,
            Engine!Definite, Engine!NothingRan, Engine!Refusals
<1>1. CASE \E kind \in {"get", "signon", "post"} : VerifierSends(kind)
  BY <1>1 DEF VerifierSends
<1>2. CASE VerifierReads
  <2>1. UNCHANGED <<claim, asked, shown, request, fault, outage, landed, meddled>>
    BY <1>2 DEF VerifierReads
  <2>2. (looks = 0 /\ looks' = 1 /\ ~asked) \/ (looks = 1 /\ looks' = 2)
    BY <1>2 DEF VerifierReads, Observing
  <2>3. QED
    BY <2>1, <2>2
<1>3. CASE VerifierReports \/ VerifierFails
  BY <1>3 DEF VerifierReports, VerifierFails, Reported
<1>4. CASE EngineRefuses
  <2>1. claim' \in Engine!Refusals /\ ~asked' /\ ~asked
    BY <1>4 DEF EngineRefuses, Engine!Refuse
  <2>2. UNCHANGED <<shown, request, fault, outage, looks, landed, meddled>>
    BY <1>4 DEF EngineRefuses
  <2>3. QED
    BY <2>1, <2>2
<1>5. CASE EngineAccepts
  <2>1. claim' = "NONE" /\ ~asked' /\ ~asked
    BY <1>5 DEF EngineAccepts, Engine!Accept
  <2>2. UNCHANGED <<shown, request, fault, outage, looks, landed, meddled>>
    BY <1>5 DEF EngineAccepts
  <2>3. QED
    BY <2>1, <2>2
<1>6. CASE ExecutorAsks
  <2>1. asked' /\ ~asked /\ claim' = "NONE" /\ looks = 1
    BY <1>6 DEF ExecutorAsks, Engine!Dispatch
  <2>2. UNCHANGED <<fault, looks, landed>> /\ landed = "no" /\ shown = "nothing"
    BY <1>6 DEF ExecutorAsks
  <2>3. /\ request' = IF Forwards THEN "queued" ELSE "dropped"
        /\ shown' = IF fault = "FALSE_SUCCESS" THEN "applied" ELSE shown
        /\ meddled' = (meddled \/ fault = "THIRD_PARTY_MUTATION")
    BY <1>6 DEF ExecutorAsks
  <2>4. QED
    BY <2>1, <2>2, <2>3
<1>7. CASE ExecutorAnswers
  <2>1. /\ claim' = "UNRESOLVED" => asked
        /\ claim' \in Engine!NothingRan => ~asked
        /\ claim' \notin Engine!Refusals
    BY <1>7 DEF ExecutorAnswers, Engine!Answer
  <2>2. Shows(claim') /\ UNCHANGED <<asked, shown, request, fault, outage, looks, landed, meddled>>
    BY <1>7 DEF ExecutorAnswers
  <2>3. QED
    BY <2>1, <2>2 DEF Shows
<1>8. CASE ServerHandles
  <2>1. request = "queued" /\ request' = "handled" /\ asked /\ landed = "no" /\ shown = "nothing"
    BY <1>8 DEF ServerHandles, TypeOK
  <2>2. PICK answer \in {"applied", "refused"} :
          /\ shown' = IF phase = "execute" THEN Acknowledged(answer) ELSE shown
          /\ landed' = IF answer = "refused" THEN landed
                       ELSE IF looks < 2 THEN "window" ELSE "after"
    BY <1>8 DEF ServerHandles
  <2>3. UNCHANGED <<claim, asked, fault, looks, meddled>>
    BY <1>8 DEF ServerHandles
  <2>4. claim \in {"NONE", "UNRESOLVED"}
    BY <2>1, ClaimTypes DEF TypeOK
  <2>5. phase = "execute" => looks = 1
    OBVIOUS
  <2>6. shown' = "applied" => answer = "applied" /\ phase = "execute"
    BY <2>1, <2>2 DEF Acknowledged
  <2>7. shown' = "refused" => answer = "refused"
    BY <2>1, <2>2 DEF Acknowledged
  <2>8. QED
    BY <2>1, <2>2, <2>3, <2>4, <2>5, <2>6, <2>7
<1>9. CASE Judge \/ Finish \/ Return \/ Raises
  BY <1>9 DEF Judge, Finish, Return, Raises
<1>10. CASE SomebodyElse
  BY <1>10 DEF SomebodyElse
<1>11. CASE UNCHANGED vars
  BY <1>11 DEF vars
<1>12. QED
  BY <1>1, <1>2, <1>3, <1>4, <1>5, <1>6, <1>7, <1>8, <1>9, <1>10, <1>11
     DEF Next, Verifier, Executor

\* Every step keeps durable state, the reads and the own request in agreement.
LEMMA NextEffectInv ==
  TypeOK /\ WindowInv /\ RequestInv /\ EffectInv /\ [Next]_vars => EffectInv'
<1> SUFFICES ASSUME TypeOK, WindowInv, RequestInv, EffectInv, [Next]_vars, ~meddled'
             PROVE  /\ looks' = 1 => durable'[Target] = (IF landed' = "window" THEN To
                                                         ELSE first'[Target])
                    /\ looks' = 2 => last'[Target] = (IF landed' = "window" THEN To
                                                      ELSE first'[Target])
  BY DEF EffectInv
<1> USE ReconcileAssumption DEF EffectInv, truth, config
<1>1. CASE \E kind \in {"get", "signon", "post"} : VerifierSends(kind)
  BY <1>1 DEF VerifierSends, GuardPasses
<1>2. CASE VerifierReads
  <2>1. CASE phase = "pre"
    <3>1. looks' = 1 /\ first' = durable /\ UNCHANGED <<durable, landed>> /\ looks = 0
      BY <1>2, <2>1 DEF VerifierReads, WindowInv
    <3>2. ~asked
      BY <2>1 DEF WindowInv
    <3>3. landed = "no"
      BY <3>2 DEF RequestInv
    <3>4. QED
      BY <3>1, <3>3
  <2>2. CASE phase = "post"
    BY <1>2, <2>2 DEF VerifierReads, WindowInv
  <2>3. QED
    BY <1>2, <2>1, <2>2 DEF VerifierReads, Observing
<1>3. CASE VerifierReports \/ VerifierFails
  BY <1>3 DEF VerifierReports, VerifierFails, Reported
<1>4. CASE EngineRefuses \/ EngineAccepts \/ ExecutorAnswers
  BY <1>4 DEF EngineRefuses, EngineAccepts, ExecutorAnswers
<1>5. CASE ExecutorAsks
  BY <1>5 DEF ExecutorAsks
<1>6. CASE ServerHandles
  <2>1. landed = "no" /\ UNCHANGED <<looks, first, last, meddled>>
    BY <1>6 DEF ServerHandles, RequestInv
  <2>2. CASE UNCHANGED <<durable, landed>>
    BY <2>1, <2>2
  <2>3. CASE /\ durable' = [durable EXCEPT ![Target] = To]
             /\ landed' = IF looks < 2 THEN "window" ELSE "after"
    <3>1. durable'[Target] = To
      BY <2>3 DEF TypeOK, Records
    <3>2. QED
      BY <2>1, <2>3, <3>1
  <2>4. QED
    BY <1>6, <2>2, <2>3 DEF ServerHandles
<1>7. CASE Judge \/ Finish \/ Return \/ Raises
  BY <1>7 DEF Judge, Finish, Return, Raises
<1>8. CASE SomebodyElse
  <2>1. PICK s \in Shares, status \in Statuses \cup {Absent} :
          /\ durable' = [durable EXCEPT ![s] = status]
          /\ meddled' = (meddled \/ (s = Target /\ looks = 1))
    BY <1>8 DEF SomebodyElse
  <2>2. looks = 1 => durable'[Target] = durable[Target]
    BY <2>1 DEF TypeOK, Records
  <2>3. ~meddled /\ UNCHANGED <<looks, first, last, landed>>
    BY <1>8, <2>1 DEF SomebodyElse
  <2>4. QED
    BY <2>2, <2>3
<1>9. CASE UNCHANGED vars
  BY <1>9 DEF vars
<1>10. QED
  BY <1>1, <1>2, <1>3, <1>4, <1>5, <1>6, <1>7, <1>8, <1>9 DEF Next, Verifier, Executor

\* Inv holds throughout.
THEOREM TwinInvariant == Spec => []Inv
<1>1. Inv /\ [Next]_vars => Inv'
  BY NextTypeOK, NextWindowInv, NextOutcomeInv, NextRequestInv, NextEffectInv DEF Inv
<1>2. QED
  BY <1>1, InitInv, PTL DEF Spec

\* Type correctness of a verified run, for any shares, statuses and faults.
THEOREM TwinTypeCorrect == Spec => []TypeOK
<1>1. Inv => TypeOK
  BY DEF Inv
<1>2. QED
  BY <1>1, TwinInvariant, PTL

\* A settled verdict about the window is, where nobody meddled, one about the own
\* request.
THEOREM OwnEffectIsSettled == Spec => []WindowTellsOwnEffect
<1>1. Inv => WindowTellsOwnEffect
  <2> SUFFICES ASSUME Inv, ~meddled, verdict \in Settled
               PROVE  /\ verdict = "COMMITTED" => landed = "window"
                      /\ verdict = "NOT_COMMITTED" => landed # "window"
    BY DEF WindowTellsOwnEffect, Settled
  <2>1. verdict # "NONE" /\ claim # "NONE"
    BY DEF Inv, OutcomeInv, Settled
  <2>2. verdict = VerdictOn(pre, post, claim) /\ Decides(pre, post)
    BY <2>1, VerdictMeaning DEF Inv, OutcomeInv
  <2>3. looks = 2 /\ pre.share = first /\ post.share = last /\ first[Target] = From
    BY <2>1, <2>2 DEF Inv, WindowInv, Decides, Comparable, Sound
  <2>4. last[Target] = (IF landed = "window" THEN To ELSE From)
    BY <2>3 DEF Inv, EffectInv
  <2>5. QED
    BY <2>2, <2>3, <2>4, VerdictMeaning, ReconcileAssumption
<1>2. QED
  BY <1>1, TwinInvariant, PTL

\* After a definite answer, a retry that is advised cannot fire twice.
THEOREM RetryNeverDoubles == Spec => []RetryAfterNoIsSafe
<1>1. Inv => RetryAfterNoIsSafe
  <2> SUFFICES ASSUME Inv, retry, ~meddled, claim # "UNRESOLVED"
               PROVE  landed = "no" /\ request # "queued"
    BY DEF RetryAfterNoIsSafe
  <2>1. verdict # "NONE" /\ claim # "NONE"
    BY DEF Inv, OutcomeInv
  <2>2. retry = RetryEligible(pre, post, claim)
    BY <2>1 DEF Inv, OutcomeInv
  <2>3. VerdictOn(pre, post, claim) = "NOT_COMMITTED" /\ claim # "BUSINESS_OUTCOME"
    BY <2>2 DEF RetryEligible
  <2>4. claim # "SUCCESS"
    BY <2>3, VerdictMeaning DEF Committed
  <2>5. ~asked
    BY <2>1, <2>3, <2>4, ClaimTypes
       DEF Inv, TypeOK, RequestInv, Engine!NothingRan, Engine!Refusals
  <2>6. QED
    BY <2>5 DEF Inv, RequestInv
<1>2. QED
  BY <1>1, TwinInvariant, PTL

\* Where nobody meddled, only a fabricated page contradicts the record.
THEOREM HonestNeverMismatches == Spec => []MismatchHasALiar
<1>1. Inv => MismatchHasALiar
  <2> SUFFICES ASSUME Inv, verdict = "MISMATCH", ~meddled PROVE fault = "FALSE_SUCCESS"
    BY DEF MismatchHasALiar
  <2>1. verdict # "NONE" /\ claim # "NONE"
    BY DEF Inv, OutcomeInv
  <2>2. verdict = VerdictOn(pre, post, claim) /\ Decides(pre, post)
    BY <2>1, VerdictMeaning DEF Inv, OutcomeInv
  <2>3. looks = 2 /\ pre.share = first /\ post.share = last /\ first[Target] = From
    BY <2>1, <2>2 DEF Inv, WindowInv, Decides, Comparable, Sound
  <2>4. last[Target] = (IF landed = "window" THEN To ELSE From)
    BY <2>3 DEF Inv, EffectInv
  <2>5. CASE Committed(claim) = "yes" /\ landed # "window"
    BY <2>5 DEF Committed, Inv, RequestInv
  <2>6. CASE Committed(claim) = "no" /\ landed = "window"
    <3>1. claim \notin {"SUCCESS", "UNRESOLVED"}
      BY <2>6 DEF Committed
    <3>2. request = "handled" /\ asked
      BY <2>6 DEF Inv, RequestInv
    <3>3. claim = "BUSINESS_OUTCOME"
      BY <2>1, <3>1, <3>2, ClaimTypes
         DEF Inv, TypeOK, RequestInv, Engine!NothingRan, Engine!Refusals
    <3>4. QED
      BY <2>6, <3>2, <3>3 DEF Inv, RequestInv
  <2>7. QED
    BY <2>2, <2>3, <2>4, <2>5, <2>6, VerdictMeaning, ReconcileAssumption
<1>2. QED
  BY <1>1, TwinInvariant, PTL

\* Every run accounts for itself: what returned or has twin_finished was judged, what
\* is called refused sent nothing, and what sent its request and was not reconciled
\* raised and looks like nothing else.
THEOREM EveryRunIsAccountedFor == Spec => []RunIsAccountedFor
<1>1. Inv => RunIsAccountedFor
  <2> SUFFICES ASSUME Inv PROVE RunIsAccountedFor
    OBVIOUS
  <2> USE DEF Inv, OutcomeInv
  <2>1. phase = "done" => "twin_finished" \in journal
    OBVIOUS
  <2>2. CASE verdict = "NONE"
    <3>1. journal = {} /\ ~retry /\ ~Closing
      BY <2>2
    <3>2. QED
      BY <2>1, <3>1 DEF RunIsAccountedFor, Ended, Closing
  <2>3. CASE verdict # "NONE" /\ claim = "NONE"
    <3>1. /\ verdict = "REFUSED" /\ "execution_refused" \in journal /\ "reconciled" \notin journal
          /\ ~asked /\ request = "none"
      BY <2>3 DEF RequestInv
    <3>2. QED
      BY <2>1, <3>1 DEF RunIsAccountedFor
  <2>4. CASE verdict # "NONE" /\ claim # "NONE"
    <3>1. "reconciled" \in journal /\ "execution_refused" \notin journal
      BY <2>4
    <3>2. verdict \in Verdicts
      BY <2>4, VerdictTypes
    <3>3. QED
      BY <2>1, <3>1, <3>2 DEF RunIsAccountedFor
  <2>5. QED
    BY <2>2, <2>3, <2>4
<1>2. QED
  BY <1>1, TwinInvariant, PTL

\* A settled verdict names exactly the other shares that differ at the two reads.
THEOREM CollateralIsComplete == Spec => []CollateralIsTrue
<1>1. Inv => CollateralIsTrue
  <2> SUFFICES ASSUME Inv, verdict \in Settled
               PROVE  collateral = {s \in Shares \ {Target} : first[s] # last[s]}
    BY DEF CollateralIsTrue
  <2>1. verdict # "NONE" /\ claim # "NONE"
    BY DEF Inv, OutcomeInv, Settled
  <2>2. collateral = Collateral(pre, post) /\ Decides(pre, post)
    BY <2>1, VerdictMeaning DEF Inv, OutcomeInv
  <2>3. pre.share = first /\ post.share = last
    BY <2>1, <2>2 DEF Inv, WindowInv, Decides, Comparable, Sound
  <2>4. QED
    BY <2>2, <2>3 DEF Collateral, Decides
<1>2. QED
  BY <1>1, TwinInvariant, PTL

\* A judgment concludes truthfully.
LEMMA JudgeConcludes == Inv /\ Judge => Promise!Conclude
<1> SUFFICES ASSUME Inv, Judge PROVE Promise!Conclude
  OBVIOUS
<1>1. /\ phase = "judge" /\ phase' = "close" /\ verdict = "NONE"
      /\ UNCHANGED <<durable, pre, post, claim, asked, looks, first, last>>
  BY DEF Judge, Inv, OutcomeInv, Closing, executor, truth
<1>2. CASE claim = "NONE"
  <2>1. verdict' = "REFUSED" /\ ~asked
    BY <1>1, <1>2 DEF Judge, Refused, Inv, WindowInv
  <2>2. QED
    BY <1>1, <2>1 DEF Promise!Conclude, Promise!Truthful, Stage
<1>3. CASE claim # "NONE"
  <2>1. verdict' = VerdictOn(pre, post, claim) /\ verdict' \in Verdicts
    BY <1>3, VerdictTypes DEF Judge, Refused
  <2>2. ASSUME verdict' \in Settled \cup {"MISMATCH"}
        PROVE  /\ Stage = "closed" /\ first[Target] = From
               /\ last[Target] \in {From, To}
               /\ verdict' = "COMMITTED" => last[Target] = To
               /\ verdict' = "NOT_COMMITTED" => last[Target] = From
    <3>1. Decides(pre, post)
      BY <2>1, <2>2, VerdictMeaning
    <3>2. looks = 2 /\ pre.share = first /\ post.share = last
      BY <1>1, <1>3, <3>1 DEF Inv, WindowInv, Decides, Comparable, Sound
    <3>3. Stage = "closed"
      BY <1>1, <3>2 DEF Stage
    <3>4. QED
      BY <2>1, <3>1, <3>2, <3>3, VerdictMeaning DEF Decides
  <2>3. Promise!Truthful(verdict')
    BY <2>2 DEF Promise!Truthful, Settled
  <2>4. Stage # "over" /\ Stage' = "over"
    BY <1>1, <2>1 DEF Stage, Verdicts
  <2>5. QED
    BY <1>1, <2>1, <2>3, <2>4 DEF Promise!Conclude, Verdicts
<1>4. QED
  BY <1>2, <1>3

\* The twin implements Settlement: whatever verifiers, faults, the server and others
\* do, the request leaves inside the window and a settled verdict is true of it.
THEOREM TwinSettlesTruthfully == Spec => SettlesTruthfully
<1>1. Init => Promise!Init
  BY DEF Init, Promise!Init, Stage
<1>2. Inv /\ [Next]_vars => [Promise!Next]_(Promise!vars)
  <2> SUFFICES ASSUME Inv, [Next]_vars PROVE [Promise!Next]_(Promise!vars)
    OBVIOUS
  <2> USE DEF Stage, executor, judgment, truth
  <2>1. CASE \E kind \in {"get", "signon", "post"} : VerifierSends(kind)
    <3>1. UNCHANGED <<durable, looks, first, last, asked, verdict>>
      BY <2>1 DEF VerifierSends, GuardPasses
    <3>2. QED
      BY <3>1 DEF Promise!vars
  <2>2. CASE VerifierReads
    <3>1. verdict = "NONE" /\ UNCHANGED <<durable, asked, verdict>>
      BY <2>2 DEF VerifierReads, Observing, Closing, Inv, OutcomeInv
    <3>2. CASE phase = "pre"
      <4>1. looks = 0 /\ looks' = 1 /\ first' = durable /\ last' = last
        BY <2>2, <3>2 DEF VerifierReads, Inv, WindowInv
      <4>2. QED
        BY <3>1, <4>1 DEF Promise!Next, Promise!LookBefore
    <3>3. CASE phase = "post"
      <4>1. looks = 1 /\ looks' = 2 /\ last' = durable /\ first' = first
        BY <2>2, <3>3 DEF VerifierReads, Inv, WindowInv
      <4>2. QED
        BY <3>1, <4>1 DEF Promise!Next, Promise!LookAfter
    <3>4. QED
      BY <2>2, <3>2, <3>3 DEF VerifierReads, Observing
  <2>3. CASE VerifierReports \/ VerifierFails
    BY <2>3 DEF VerifierReports, VerifierFails, Reported, Promise!vars
  <2>4. CASE EngineRefuses
    <3>1. asked = FALSE /\ asked' = FALSE
      BY <2>4 DEF EngineRefuses, Engine!Refuse, Inv, TypeOK, WindowInv
    <3>2. QED
      BY <2>4, <3>1 DEF EngineRefuses, Promise!vars
  <2>5. CASE EngineAccepts
    <3>1. asked = FALSE /\ asked' = FALSE
      BY <2>5 DEF EngineAccepts, Engine!Accept, Inv, TypeOK, WindowInv
    <3>2. QED
      BY <2>5, <3>1 DEF EngineAccepts, Promise!vars
  <2>6. CASE ExecutorAsks
    <3>1. looks = 1 /\ verdict = "NONE" /\ ~asked /\ asked' = TRUE
      BY <2>6 DEF ExecutorAsks, Engine!Dispatch, Closing, Inv, WindowInv, OutcomeInv
    <3>2. durable' \in Records
      BY <2>6, ImageTypes, ReconcileAssumption DEF ExecutorAsks, Inv, TypeOK
    <3>3. UNCHANGED <<looks, first, last, verdict>>
      BY <2>6 DEF ExecutorAsks
    <3>4. QED
      BY <3>1, <3>2, <3>3 DEF Promise!Next, Promise!Ask
  <2>7. CASE ExecutorAnswers
    BY <2>7 DEF ExecutorAnswers, Promise!vars
  <2>8. CASE ServerHandles
    <3>1. durable' \in Records
      BY <2>8, ImageTypes, ReconcileAssumption DEF ServerHandles, Inv, TypeOK
    <3>2. QED
      BY <2>8, <3>1 DEF ServerHandles, Promise!Next, Promise!Change
  <2>9. CASE Judge
    BY <2>9, JudgeConcludes DEF Promise!Next
  <2>10. CASE SomebodyElse
    <3>1. PICK s \in Shares, status \in Statuses \cup {Absent} :
            durable' = [durable EXCEPT ![s] = status]
      BY <2>10 DEF SomebodyElse
    <3>2. durable' \in Records
      BY <3>1, ImageTypes DEF Inv, TypeOK
    <3>3. QED
      BY <2>10, <3>2 DEF SomebodyElse, Promise!Next, Promise!Change
  <2>11. CASE Finish \/ Return \/ Raises
    BY <2>11 DEF Finish, Return, Raises, Promise!vars
  <2>12. CASE UNCHANGED vars
    BY <2>12 DEF vars, Promise!vars
  <2>13. QED
    BY <2>1, <2>2, <2>3, <2>4, <2>5, <2>6, <2>7, <2>8, <2>9, <2>10, <2>11, <2>12
       DEF Next, Verifier, Executor
<1>3. QED
  BY <1>1, <1>2, TwinInvariant, PTL DEF Spec, SettlesTruthfully, Promise!Spec

=============================================================================
