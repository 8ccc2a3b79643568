-------------------------------- MODULE Twin --------------------------------
(***************************************************************************)
(* A verified run (run_twin of src/src/hands/twin.py): an image of the     *)
(* member by a read-only verifier, the executor, a second image, and the   *)
(* reconciler's judgment.  Each verifier is a process of its own           *)
(* (verifier.py); the executor is a call of the replay engine, known here  *)
(* by its ResultContract; the system of record is shared with other        *)
(* actors; faults are those of chaos.py.                                   *)
(***************************************************************************)
EXTENDS Reconcile

CONSTANTS
  Faults,     \* the executor's chaos modes to explore, "NONE" for none
  MaxForeign  \* bound: changes made by other actors

FaultModes == {"NONE", "COMMIT_WITH_LOST_ACK", "NO_COMMIT_WITH_LOST_ACK", "FALSE_SUCCESS",
               "COMMIT_WITH_CORRUPT_ACK", "COMMIT_WITH_CORRUPT_OUTPUT", "THIRD_PARTY_MUTATION"}

ASSUME TwinAssumption == Faults \subseteq FaultModes /\ MaxForeign \in Nat

VARIABLES
  durable,     \* the system of record: share -> status
  phase,       \* where run_twin is
  reading,     \* what the running verifier has read
  violated,    \* the running verifier tried to write
  pre, post,   \* the two images, as reported
  claim,       \* result.result of the executor
  asked,       \* did the consequential request leave the executor's browser?
  request,     \* where that request is
  shown,       \* the answer the executor's page shows
  fault,       \* the executor's chaos mode
  outage,      \* VERIFIER_FAILURE on the second read
  verdict,     \* reconciliation.verdict, REFUSED, or NONE
  retry,       \* reconciliation.retry_eligible
  collateral,  \* reconciliation.collateral_changes
  journal,     \* the closing events on the twin's trace (trace.jsonl)
  foreign,     \* changes made by other actors so far
  looks,       \* history: how many verifiers have read the record
  first, last, \* history: the record as it truly was at those reads
  landed,      \* history: did the own request change the record, and when?
  meddled      \* history: another actor changed the target between the reads

executor  == <<claim, asked, shown>>
judgment  == <<verdict, retry, collateral>>
config    == <<fault, outage>>
truth     == <<looks, first, last>>
vars      == <<durable, phase, reading, violated, pre, post, executor, request, config,
               judgment, journal, foreign, truth, landed, meddled>>

Observing == phase \in {"pre", "post"}
Closing   == phase \in {"close", "manifest", "done"}
Ended     == phase \in {"done", "raised"}
Phases    == {"pre", "call", "execute", "post", "judge", "close", "manifest", "done", "raised"}

\* The executor promises what the engine's contract says and nothing more.
Engine == INSTANCE ResultContract
  WITH running <- phase = "execute", dispatched <- asked, verdict <- claim

Claims == Engine!Definite \cup Engine!NothingRan \cup Engine!Refusals \cup {"UNRESOLVED"}

TypeOK ==
  /\ durable \in Records /\ first \in Records /\ last \in Records
  /\ phase \in Phases
  /\ reading \in Images /\ pre \in Images /\ post \in Images
  /\ violated \in BOOLEAN /\ asked \in BOOLEAN /\ outage \in BOOLEAN /\ retry \in BOOLEAN
  /\ meddled \in BOOLEAN
  /\ claim \in Claims \cup {"NONE"}
  /\ request \in {"none", "queued", "handled", "dropped"}
  /\ shown \in {"nothing", "applied", "refused", "garbled"}
  /\ fault \in Faults
  /\ verdict \in Verdicts \cup {"REFUSED", "NONE"}
  /\ collateral \subseteq Shares \ {Target}
  /\ journal \subseteq {"execution_refused", "reconciled", "twin_finished"}
  /\ foreign \in 0 .. MaxForeign
  /\ looks \in 0 .. 2
  /\ landed \in {"no", "window", "after"}

-----------------------------------------------------------------------------
(* The verifier: a fresh process for each image. *)

\* What ReadOnlyGuard lets through: reads, and the sign-on.
GuardPassesAll(kind) == TRUE
GuardPasses(kind) == kind \in {"get", "signon"}

\* A request of the verifier's replay; one that is not passed is aborted and
\* recorded, and one that were would change the record.
VerifierSends(kind) ==
  /\ Observing
  /\ violated' = (violated \/ ~GuardPasses(kind))
  /\ durable' = IF kind = "post" /\ GuardPasses(kind)
                THEN [durable EXCEPT ![Target] = To] ELSE durable
  /\ UNCHANGED <<phase, reading, pre, post, executor, request, config, judgment, journal,
                 foreign, truth, landed, meddled>>

\* observe_share_statuses: one look at one page, all shares at once.  The
\* parameters may name another member, whose record says anything.
VerifierReads ==
  /\ Observing
  /\ ~reading.read
  /\ ~(phase = "post" /\ outage)
  /\ \/ reading' = [read |-> TRUE, right |-> TRUE, share |-> durable]
     \/ \E status \in Statuses \cup {Absent} :
          reading' = [read |-> TRUE, right |-> FALSE, share |-> [s \in Shares |-> status]]
  /\ looks' = looks + 1
  /\ first' = IF phase = "pre" THEN durable ELSE first
  /\ last' = IF phase = "post" THEN durable ELSE last
  /\ UNCHANGED <<durable, phase, violated, pre, post, executor, request, config, judgment,
                 journal, foreign, landed, meddled>>

\* run_twin refuses to act on a state it cannot read or that is not From; of
\* whom the image is it does not ask.
Authorized(image) == image.read /\ image.share[Target] = From

\* The report of the verifier arrives and run_twin goes on.
Reported(image) ==
  /\ Observing
  /\ reading' = NoImage
  /\ violated' = FALSE
  /\ IF phase = "pre"
     THEN /\ pre' = image
          /\ phase' = IF Authorized(image) THEN "call" ELSE "judge"
          /\ UNCHANGED post
     ELSE /\ post' = image
          /\ phase' = "judge"
          /\ UNCHANGED pre
  /\ UNCHANGED <<durable, executor, request, config, judgment, journal, foreign, truth,
                 landed, meddled>>

\* A reading made while trying to write is void.
VerifierReports == Reported(IF violated THEN NoImage ELSE reading)

\* A verifier without a time limit, which fails only on what it read.
VerifierFailsParsing == reading.read /\ Reported(NoImage)

\* No page to read, a timeout, an exit code or an unparseable report.
VerifierFails == Reported(NoImage)

-----------------------------------------------------------------------------
(* The executor: one call of engine.run, and the request it may send. *)

\* A refusal is a result, but invalid parameters leave run_twin as a ValueError.
EngineRefuses ==
  /\ phase = "call"
  /\ phase' \in {"raised", "post"}
  /\ Engine!Refuse
  /\ phase' = "raised" <=> claim' = "INVALID_PARAMETERS"
  /\ UNCHANGED <<durable, reading, violated, pre, post, shown, request, config, judgment,
                 journal, foreign, truth, landed, meddled>>

EngineAccepts ==
  /\ phase = "call"
  /\ phase' = "execute"
  /\ Engine!Accept
  /\ UNCHANGED <<durable, reading, violated, pre, post, shown, request, config, judgment,
                 journal, foreign, truth, landed, meddled>>

\* FaultInjector on the consequential request: forwarded, or dropped.
Forwards == fault \in {"NONE", "COMMIT_WITH_LOST_ACK", "COMMIT_WITH_CORRUPT_ACK",
                       "COMMIT_WITH_CORRUPT_OUTPUT"}

\* The engine never sends it again.
ExecutorAsks ==
  /\ phase = "execute"
  /\ ~asked
  /\ UNCHANGED phase
  /\ Engine!Dispatch
  /\ request' = IF Forwards THEN "queued" ELSE "dropped"
  /\ shown' = IF fault = "FALSE_SUCCESS" THEN "applied" ELSE shown
  /\ durable' = IF fault = "THIRD_PARTY_MUTATION"
                THEN [durable EXCEPT ![Target] = To] ELSE durable
  /\ meddled' = (meddled \/ fault = "THIRD_PARTY_MUTATION")
  /\ UNCHANGED <<reading, violated, pre, post, config, judgment, journal, foreign, truth,
                 landed>>

\* What the injector lets the page see of the server's answer.
Acknowledged(answer) ==
  CASE fault = "COMMIT_WITH_LOST_ACK" -> "nothing"
    [] fault \in {"COMMIT_WITH_CORRUPT_ACK", "COMMIT_WITH_CORRUPT_OUTPUT"}
         /\ answer = "applied"        -> "garbled"
    [] OTHER                          -> answer

\* The server decides; it may be later than anybody waits.
ServerHandles ==
  /\ request = "queued"
  /\ request' = "handled"
  /\ \E answer \in {"applied", "refused"} :
       /\ shown' = IF phase = "execute" THEN Acknowledged(answer) ELSE shown
       /\ IF answer = "applied"
          THEN /\ durable' = [durable EXCEPT ![Target] = To]
               /\ landed' = IF looks < 2 THEN "window" ELSE "after"
          ELSE UNCHANGED <<durable, landed>>
  /\ UNCHANGED <<phase, reading, violated, pre, post, claim, asked, config, judgment, journal,
                 foreign, truth, meddled>>

\* The engine's checkpoint and recognizers read the page it has.
Shows(kind) ==
  /\ kind = "SUCCESS" => shown = "applied"
  /\ kind = "BUSINESS_OUTCOME" => ~asked \/ shown = "refused"

\* The answer of a run that returns; one that raises is a case of Raises.  An
\* injector that forwards waits for the server inside the engine's thread; without
\* one the engine may give up an unanswered request.
ExecutorAnswers ==
  /\ phase = "execute"
  /\ fault # "NONE" => request # "queued"
  /\ phase' = "post"
  /\ asked' = asked
  /\ Engine!Answer
  /\ Shows(claim')
  /\ UNCHANGED <<durable, reading, violated, pre, post, shown, request, config, judgment,
                 journal, foreign, truth, landed, meddled>>

-----------------------------------------------------------------------------
\* Calling a run refused because an image is missing, whichever it is.
RefusedWithoutImage == ~pre.read \/ ~post.read

\* aborted is set: the executor was not called.
Refused == claim = "NONE"

\* A refusal has no reconciliation.  The verdict is told by the event; one that was
\* reached and not written is none.
Judge ==
  /\ phase = "judge"
  /\ phase' = "close"
  /\ IF Refused
     THEN /\ verdict' = "REFUSED"
          /\ journal' = journal \cup {"execution_refused"}
          /\ UNCHANGED <<retry, collateral>>
     ELSE /\ verdict' = VerdictOn(pre, post, claim)
          /\ retry' = RetryEligible(pre, post, claim)
          /\ collateral' = Collateral(pre, post)
          /\ journal' = journal \cup {"reconciled"}
  /\ UNCHANGED <<durable, reading, violated, pre, post, executor, request, config, foreign,
                 truth, landed, meddled>>

\* The last event on the trace ...
Finish ==
  /\ phase = "close"
  /\ phase' = "manifest"
  /\ journal' = journal \cup {"twin_finished"}
  /\ UNCHANGED <<durable, reading, violated, pre, post, executor, request, config, judgment,
                 foreign, truth, landed, meddled>>

\* ... and then manifest.json and twin.json; the TwinRun is returned.
Return ==
  /\ phase = "manifest"
  /\ phase' = "done"
  /\ UNCHANGED <<durable, reading, violated, pre, post, executor, request, config, judgment,
                 journal, foreign, truth, landed, meddled>>

\* run_twin handles no exception: one of engine.run, also after the request left,
\* of the evidence it writes between the steps or of its trace goes to the caller.
Raises ==
  /\ ~Ended
  /\ phase' = "raised"
  /\ UNCHANGED <<durable, reading, violated, pre, post, executor, request, config, judgment,
                 journal, foreign, truth, landed, meddled>>

\* Anybody else, at any time, on any share.
SomebodyElse ==
  /\ ~Ended
  /\ foreign < MaxForeign
  /\ foreign' = foreign + 1
  /\ \E s \in Shares, status \in Statuses \cup {Absent} :
       /\ durable' = [durable EXCEPT ![s] = status]
       /\ meddled' = (meddled \/ (s = Target /\ looks = 1))
  /\ UNCHANGED <<phase, reading, violated, pre, post, executor, request, config, judgment,
                 journal, truth, landed>>

Init ==
  /\ durable \in Records
  /\ phase = "pre"
  /\ reading = NoImage /\ pre = NoImage /\ post = NoImage
  /\ violated = FALSE
  /\ claim = "NONE" /\ asked = FALSE /\ shown = "nothing" /\ request = "none"
  /\ fault \in Faults /\ outage \in BOOLEAN
  /\ verdict = "NONE" /\ retry = FALSE /\ collateral = {}
  /\ journal = {}
  /\ foreign = 0
  /\ looks = 0 /\ first = durable /\ last = durable
  /\ landed = "no" /\ meddled = FALSE

Verifier == (\E kind \in {"get", "signon", "post"} : VerifierSends(kind))
              \/ VerifierReads \/ VerifierReports \/ VerifierFails
Executor == EngineRefuses \/ EngineAccepts \/ ExecutorAsks \/ ExecutorAnswers

Next == \/ Verifier \/ Executor \/ ServerHandles \/ SomebodyElse
        \/ Judge \/ Finish \/ Return \/ Raises

Spec == Init /\ [][Next]_vars

\* The verifier has a timeout, the engine returns or raises; the server owes nothing,
\* except that an injector which waits for it gets an answer or an error.
FairSpec ==
  /\ Spec
  /\ WF_vars(VerifierFails)
  /\ WF_vars(EngineRefuses \/ EngineAccepts)
  /\ WF_vars(ExecutorAnswers)
  /\ WF_vars(fault # "NONE" /\ ServerHandles)
  /\ WF_vars(Judge)
  /\ WF_vars(Finish)
  /\ WF_vars(Return)

-----------------------------------------------------------------------------
(* What a verified run promises. *)

Stage == IF verdict # "NONE" THEN "over"
         ELSE IF looks = 0 THEN "before" ELSE IF looks = 1 THEN "open" ELSE "closed"

Promise == INSTANCE Settlement WITH stage <- Stage

\* The twin implements Settlement: the request leaves only inside the window, a
\* refused run sent nothing, and a settled verdict tells what the record truly
\* was at the two reads, whatever faults, late commits and others do
\* (reconcile.py: "a statement about the observation window").
SettlesTruthfully == Promise!Spec

\* When nobody else touched the target between the reads, the verdict is also
\* about the own request: committed if it changed the record inside the window,
\* not committed only if it did not (the causal reading that reconcile.py
\* withholds because the assumption cannot be seen).
WindowTellsOwnEffect ==
  ~meddled => /\ verdict = "COMMITTED" => landed = "window"
              /\ verdict = "NOT_COMMITTED" => landed # "window"

\* A retry advised after a definite answer cannot fire twice: the request of
\* this run neither changed the record nor can still do so.  After UNRESOLVED a
\* server slower than the engine's patience can (retry_eligible).
RetryAfterNoIsSafe ==
  retry /\ ~meddled /\ claim # "UNRESOLVED" => landed = "no" /\ request # "queued"

\* Unless another actor intervened, the executor is contradicted only when its
\* page was fabricated: an honest engine never claims what the record denies
\* (EFFECT_MISMATCH; the engine's contract composed with the reconciler).
MismatchHasALiar == verdict = "MISMATCH" /\ ~meddled => fault = "FALSE_SUCCESS"

\* A run accounts for itself.  It returns only with twin_finished on its trace, and
\* that only behind a judgment: reconciled, or execution_refused, which means that
\* no request left, then or later.  A run of which the request left and that has no
\* reconciliation is one that raised: it advises no retry and has no twin_finished,
\* so that nobody takes it for one that was judged (run_twin's order of writes and
\* events, twin.py:132-264).
RunIsAccountedFor ==
  /\ phase = "done" => "twin_finished" \in journal
  /\ "twin_finished" \in journal =>
       \/ "reconciled" \in journal /\ verdict \in Verdicts
       \/ "execution_refused" \in journal /\ verdict = "REFUSED"
  /\ "execution_refused" \in journal => request = "none" /\ "reconciled" \notin journal
  /\ Ended /\ asked /\ "reconciled" \notin journal =>
       phase = "raised" /\ "twin_finished" \notin journal /\ ~retry

\* A settled verdict comes with exactly the other shares whose true status differs
\* between the two reads, one that appears or disappears included
\* (collateral_changes).
CollateralIsTrue ==
  verdict \in Settled => collateral = {s \in Shares \ {Target} : first[s] # last[s]}

\* Every verified run ends, by a return or an exception: no verifier, answer or
\* fault makes it wait for ever.
TwinEnds == <>Ended
=============================================================================
