# Specifications of agent-hands

agent-hands replays reviewed browser capabilities against a live page, without a
model in the loop, and promises its caller an answer that never claims more than
the engine saw.  These specifications model the parts of it that a test can
hardly reach: retries and recoveries around an irreversible click, requests that
leave late, a live session handed to an operator and back, a verdict about
durable state that others change too, retries of one transaction that race, a log
that crashes and is tampered with, and an exploration whose page reacts late.

## The system

| Part | State it keeps | Operations | Interacts with |
|---|---|---|---|
| **Replay engine** (`replay.py`, `results.py`, `conditions.py`) | per object: `_hazard`, `_dispatch_mark`, `_blocked_mark`, `last_run_dir`; per run: the loop's index, fires, suppression, escalations | `run`: reset, validate, risk gate, start, requires, steps (act, retry, wait), recover, checkpoint, extract, escalate, verdict | the surface, the hub, the trace; called by API, CLI, verifier, twin |
| **Operator hand-off** (`escalation.py`, `_park_and_wait`) | the token, operator, decision, pause flag, command queue, recorded human actions | request, take, act, approve, hand back, abort, resolve; park, pop, drain, resume | HTTP threads against the engine thread, one lock |
| **Reconciliation** (`reconcile.py`, `verifier.py`) | a before and an after image | observe, settle | a read-only process of its own |
| **Twin and chaos** (`twin.py`, `chaos.py`) | the scripted fault, claim, images, journal | pre-image, execute, post-image, judge | engine and reconciliation |
| **Invocation API** (`api.py`) | completed envelopes by capability and key | invoke under one lock | the engine, the capability files |
| **Artifact** (`artifact.py`, `values.py`) | a capability and its review | load, validate, hash, review | engine, API, `hands review` |
| **Trace** (`trace.py`) | a hash chain and a seal | emit, close, reopen, verify | every part; `hands explain`, dashboard |
| **Planner, discovery** (`planner.py`, `discover.py`, `recorder.py`, `observe.py`, `llm.py`) | budgets, steps, risk watch, one leg per outcome | plan, act, watch, distil, write | a model and a surface |
| **Surface** (`surface.py`) | dispatched and blocked requests | start, resolve, act, capture | browser callbacks during driver calls |
| **Front ends** (`cli.py`, `chatbot`, `dashboard`) | none of their own | parse, call, render | the parts above |

What makes each correct: the engine fires an irreversible step once, says
UNRESOLVED when and only when something may have happened, and always returns;
the hand-off has one driver at a time, acts on what operators decided and keeps
what they entered out of its evidence; reconciliation never guesses, and a run of the
twin that was not judged does not look like one that was; the API runs one request per key and gives
everyone the same answer; a risky capability runs only as a second person signed
it; the trace tells sealed from torn; discovery stays within its budgets, calls
no mutating step safe, and arms a recognizer where it saw the outcome.
`PROJECT.json` lists the hazards at the line where each bites.

## The modules

| Module | What it models |
|---|---|
| `Replay` | the engine's control flow: one capability, runs one after another on one engine object |
| `ResultContract` | what a caller may rely on; `Replay` implements it (`KeepsTheContract`); `Twin` and `Invoke` know the engine by it |
| `EscalationHub` | the hub: one action per method, because each holds the lock |
| `ControlHandoff` | extends the hub with the parked loop, one action per access of the hub, and with operators, clock and page events |
| `Reconcile` | the reconciler as operators on two images and a claim |
| `Twin` | a verified run around the reconciler: verifiers, engine, faults, server, other actors |
| `Settlement` | what a verified run promises; `Twin` implements it (`SettlesTruthfully`) |
| `Catalog` | capability files and the people who record, review and edit them |
| `Invoke` | extends the catalog with the requests, the lock, the engine, the record and restarts |
| `AuditTrace` | one log: its writer, other hands, and a reader |
| `Discovery` | the legs of one discovery, each a planning loop against a reacting page |
| `MCReplay`, `MCControl`, `MCInvoke`, `MCAuditTrace`, `MCDiscovery` | instances for TLC (`Twin` needs none) |
| `ReplayProofs`, `ControlProofs`, `TwinProofs`, `InvokeProofs`, `TraceProofs`, `DiscoveryProofs` | theorems for every value of the constants |

The composition goes through two abstract modules.  `Replay` is shown to
implement `ResultContract`; `Twin` and `Invoke` take the engine's actions
(`Engine!Accept`, `Engine!Dispatch`, `Engine!Answer`, `Engine!Refuse`) from an
instance of it and add nothing to what the engine promises, so what they show
holds of any engine that keeps the contract.  `Settlement` plays that part for
whoever reads a verdict of the twin.

### Replay

`pc` is where the engine thread is: `start`, `requires`, `enter` (top of the
loop), `ready` (the poll before an attempt), `perform` (the attempt), `await`
(the postcondition loop), `checkpoint`, `recovering`, `parked`, `extract`, and
`idle` between calls.  `index` is the loop's index, and `N` its checkpoint
phase.  `hazard` is `_hazard` reduced to its step.  `_dispatch_mark` and
`_blocked_mark` are positions in growing lists of which the code only asks
whether anything came after them; `mutated` and `blocked` are the answers.
Exceptions are transitions: `_StepFailed` is `StepFailed`, `_Recover` is
`Recover`, `_Recognized` a `BUSINESS_OUTCOME`, `_PauseRequested` the first
disjunct of `Interrupted`.

The page is the environment.  Postconditions, checkpoint and requires are
answered anew at each read, because pages change at any time.  Recognizers are
the exception: freshness compares two reads, so the matching conditions are a
variable (`showing`) that the page changes when it likes.  An attempt may land
although the driver call fails, and may or may not send a mutation; with
`LateDispatch` the request may also leave later.  `expired` is the step budget.
`sent`, `tried`, `recoverySent` and `stale` are history that only properties
read; `inflight` belongs to the page.

Abstracted: what a condition or a locator is, values and their parsing, text and
masking, evidence, the trace, and the order of a recovery's own steps (they are
one action that may send a mutation and may fail).  Interventions come back from
`parked` in each way `_park_and_wait` can return.

### ControlHandoff

`phase` is the engine thread of an attended run.  `polling` and `acting`
stand for the whole of Replay's loop: act, poll, fail or finish at will.
`raising` takes the screenshot and parks; `entering`, `waiting`, `popping`,
`executing`, `deciding` are the loop of `_park_and_wait`, split wherever another
thread can come in between; `leaving` holds the decision taken but not carried
out; `failing` asks `_failure_evidence`.  Operators post at any moment, also to a
page that is out of date.  In a headed run they may also use the browser window
(`HumanActs`), while automation holds the session too.  The listener of the page
reports clicks and inputs, the engine's own included.  With the synchronous API of Playwright such events
reach the callback only inside a driver call (`pending` until then): the parked
loop sleeps with `time.sleep`, and makes a driver call only to execute a command.

### Reconcile and Twin

`Reconcile` is `reconcile()` as a function of the two images and the result's
kind.  The code's tests are ordered, but only the wording of the reason depends on
the order, so the operators state when images decide (`Decides`), when the claim
contradicts them, and what follows.

`Twin` is `run_twin`.  `phase` is where it is: `pre` and `post` while a verifier
runs (a process of its own, which reads, may try to write, may be stopped by its
timeout at any moment, and reports), `call` before `engine.run`, `execute` inside
it, `judge`, `close` (the last event), `manifest` (the files behind the trace), and
`done` or `raised`.  `run_twin` handles no exception, so `Raises` leaves it from
anywhere, `engine.run` after its request left included, and changes nothing else:
what was not written by then never is.  The pre-image authorises the execution; the
code asks only for the share's status there and not whose record it is, while
`reconcile()` asks for both, and so do the actions.  `request` is the
consequential request: the injector of `chaos.py` forwards or drops it, the server
handles a queued one whenever it likes, also after the engine gave up and after
the second image.  `shown` is what the injector lets the page show.  `durable` is
the record, which the server, the third party of the chaos mode, and anybody else
(`SomebodyElse`) change.  `first` and `last` are the record as it was at the two
reads; that, `landed` and `meddled` are history.

Abstracted: hashes and manifest, wall-clock times of the window, the pages the
injector fabricates, and what the executor's capability does before its one
consequential request.  An image of another member has one arbitrary status on
all shares.

### Catalog and Invoke

A file is the artifact that is in it, or torn: `write_text` truncates, then fills,
and the writer may die in between; readers treat what does not parse as absent.
An artifact's content is reduced to what the review is about: the version of
everything that is hashed, the maker, and the reviewer's name, which the hash
covers.  A hash is the content it was computed from (equal hashes, equal
contents).  Recorders, reviewers and editors load, work and write without a lock; an editor may
change any of these at once, but computes no hash.

A request loads its capability, waits for the lock, and under it finds what was
recorded, is refused by the engine, or runs.  The check, the refusals and the
record are single steps because the lock is held; a run is several, because
the dispatch of its request, its failure and the process's end fall between.
`result` and `dispatched` are the engine's, `runDir` is `last_run_dir`, and
`ownRun`, `sent`, `broken`, `answeredIn` are history.  `epoch` counts restarts,
which lose threads and the record.  Parameters are abstracted to whether
validation refuses them, and status codes to the kind of answer.

### AuditTrace

`lines` and `seal` are the two files.  A record is written in two steps (`BeginLine`,
`EndLine`), so that a crash may leave a torn line, to which a reopened trace appends
(`glued`: neither parses), and counted in a third (`CountLine`): `emit` assigns
`_prev` and `_seq` after its flush.  `EmitFails` is an exception in between, a
Ctrl-C or a write that fails: the line, whole in the file or still in its buffer
(`owing`, until `FlushRest`), is not counted.  The Trace lives on; `__exit__` closes
and seals it (`BeginSeal`), or it emits again.  `Crash` is the process that dies
without.  `_prev` and `_seq` are one step, because no call stands between the two
assignments at which anything could interrupt.  A seal is truncated and then filled.  `Digest(line)` is a record that
holds the line: SHA-256 without collisions.  The reader does what `hands explain`
does, read by read: the first line, the log, the seal's check, the seal again, and,
with a receipt, the log once more; the writer and other hands go on meanwhile.
The receipt is the tip that an invocation's envelope carries out of the directory.
Other hands may leave any log of lines that is in `Forgeries` of the present one; the
instance drops, doubles, swaps and alters records, with and without computing the
chain anew.  That somebody who may write both files can forge both is a limit the
source documents; the receipt is the answer to it.

### Discovery

`leg` 1 is the happy exploration, the others one for each declared outcome.
`phase` follows the planner: `asking`, `turn` (a reply is there), `driving` (the
driver call), `observing` (the observation, still in the watch), `settling`.
Every way a proposal can be refused is `Rejected`; `OverBudget` is the grace turn;
`DriverFails` counts as an invalid proposal even when the click landed.  The page
reacts to an action at any time after it and in any order (`React`): a reaction
changes the page, and sends a request if the element is one that posts.
`nonGet` is the watch's flag, whatever request set it.  `Distil` is the end of a
leg that ended as it had to; what the recorder then demands of the page, and
every exception that leaves `discover()`, is `Raises`.  `did`, `posted`, `lost`
and `routes` are history.

Abstracted: the model and what it is shown, token counts and messages, locators
(an element is what its primary rung tells apart), the recorder's regions and
output parsing, and the page's content but for whether something new is on it.

## What the runs check

Passing runs switch deadlock checking off: when the last call, request, reader or
exploration has ended, the system rests.

| Run | Instance | Shows |
|---|---|---|
| `unattended` | 3 steps, two runs of one object, a recovery to the first step | `TypeOK`; `NoFalseFailure`: no verdict claims that nothing happened after a consequential request; `UnresolvedHasEvidence`: doubt names a step that did dispatch in this run; `StaleNeverAnswers`; `RunDirIsThisRun` |
| `attended` | two interventions, a recovery to the last step | `NoSecondDispatch`, `HandbackIsPastDispatch`, and the refinement `KeepsTheContract` |
| `late` | late requests, a recovery that mutates and restarts at the first step, under fairness | `HazardStepIsOver`: still no way back to the step the hazard names; `EveryRunEnds`; `EveryStepCounts`: each step of the engine, a recovery or an operator ends the call, spends from a cap, comes nearer to the end, or waits before a deadline |
| `handoff` | two operators, headed, two interventions | `SingleDriver`, `DecisionIsFresh`, `RecordIsHuman`, `TypeOK` |
| `headless` | one operator, command channel, queue of two, under fairness | `EvidenceHidesHumanInput`, `InterventionEnds`, `PauseIsGranted` |
| `twin` | two shares, three statuses and absence, all seven faults, one foreign change, exceptions anywhere, under fairness | `SettlesTruthfully` (the refinement of `Settlement`), `WindowTellsOwnEffect`, `RetryAfterNoIsSafe`, `MismatchHasALiar`, `CollateralIsTrue`, `RunIsAccountedFor`, `TwinEnds` |
| `invoke` | a request and its retry under one key, one write of the file, one restart, an engine that may raise, under fairness | `OncePerKey`, `DuplicateGetsOriginal`, `EveryRequestAnswered`; `EnvelopeIsItsRun`: an envelope, fresh or from the record, names its run and tells truly whether that run's request left |
| `review` | two writes, two persons with three spellings, one request without a key | `FourEyes` |
| `trace` | two records of two kinds, one of them perhaps not counted, two openings, two changes by other hands | `SealedIsAsWritten`, `ReceiptBindsTheRun`, `NoFalseAlarm` |
| `discovery` | a field, a link and a submit that posts, one outcome, two steps, two invalid proposals | `GraceBeforeExhausted`, `SafeStepsAreQuiet`, `ArmedWhereSeen` |

Two runs expect a violation, each of a sentence of the repository:

| Run | What happens |
|---|---|
| `stale_handback` | after a handback to the checkpoint, the suppression is that of an earlier step, and an outcome older than the action answers |
| `invoke_retry` | a run dispatches and then raises; the lock is released, nothing is recorded, and the retry under the same key dispatches again |

### What some properties leave out

They say what the code keeps, and where it stops:

* `RetryAfterNoIsSafe` excepts UNRESOLVED: a server slower than the engine's
  patience may commit after the second image, and the advised retry doubles it.
* `OncePerKey` excepts a run that ended in an exception (`invoke_retry`) and
  speaks of one life of the process; the source leaves restarts out on purpose.
* `SealedIsAsWritten` is about a reader whose verification had the seal
  (`sealUsed`): `verify_chain` and `is_sealed` read it one after the other, and a
  seal that appears in between is reported although nothing was compared with it.
  A log that Trace is opened on after a change, or with a line that it wrote and
  did not count, counts as Trace's from then on (`own`, which also limits
  `ReceiptBindsTheRun`): it continues the chain of whatever the file holds.
* `RunIsAccountedFor` does not say that every request is judged: a run that an
  exception ends after its request left is judged by nobody, its caller sees the
  exception, and what is on disk has neither `reconciled` nor `twin_finished`.
* `NoFalseAlarm` lists when an untouched log is called modified; see below.
* `SafeStepsAreQuiet` is about requests up to the observation, and `ArmedWhereSeen`
  excepts explorations in which an action landed that the driver reported as failed.

### Disagreements

Where the code does not keep what its documents or comments say, and no run is
kept for it, this is the instance that shows it; each takes a change of constants,
or of the property named, in one configuration.

* **A late request makes a FAILURE.**  `NoFalseFailure` in `Replay_unattended.cfg`
  with `LateDispatch = TRUE`: a request that leaves after its step's postconditions
  held is noted by nothing (`replay.py:574`), is charged to the next step's mark,
  and a later failure is FAILURE.  `replay.py` says that a failure afterwards is
  UNRESOLVED; `planner.py:484` that clicks' requests commonly come after the call.
* **A risky step runs again.**  `RiskyNeverReattempted` in `Replay_unattended.cfg`:
  `restart_from` goes back over a risky step that ran without a visible mutation
  (`replay.py:836`), where `replay.py:15` says that "a step marked risky is never
  re-attempted".  The shipped account inquiry restarts over its sign-on this way.
* **The wrong operator is on record.**  `DecisionIsAttributed` in
  `Control_handoff.cfg`: `take_decision` (`escalation.py:147`) returns whoever
  posted last, not who decided, where `escalation.py:17` says that "every
  transition records the operator identity".
* **An accepted abort has no effect.**  `AbortStopsTheRun` in
  `Control_handoff.cfg`: `decide` (`escalation.py:121`) overwrites a pending
  decision, and also takes one after the drain; `escalation.py:16` says a human
  can "abort a run they judge unsafe".
* **Headed input reaches the evidence.**  `EvidenceHidesHumanInput` in
  `Control_headless.cfg` with `Headed = TRUE`: the parked loop makes no driver
  call, so the operator's page events arrive after the handback and are dropped,
  and a later failure captures the page (`replay.py:420`).
* **A posting step is recorded as safe.**  In `Discovery`, a request that leaves
  after the observation of its step finds no watch open; if none of the later
  watches is open either, no step is risky for it.  `docs/HARD_QUESTIONS.md:227`
  says that "any step that fired a non-GET during discovery is recorded risky";
  a late request may even mark the step after it.
* **An honest log is "modified".**  In `AuditTrace`, a crash that tears the last
  line, a record written while `hands explain` reads, a directory reopened after
  its seal, and an exception in `emit` between its flush and its counters
  (`trace.py:179-181`), after which `__exit__` seals one record fewer than the file
  holds or the next record repeats a number, all end in "BROKEN — the log was modified after the run"
  (`cli.py:227`); `NoFalseAlarm` has them as its exceptions.  A torn first line is
  reported as a log from before chaining.

The constants of the passing runs also mark where properties stop holding.  With
`LateDispatch` a handback may resume at a step that dispatched unseen
(`HandbackIsPastDispatch` in `attended`).  With `RiskyRecovery = {1}` a recovery
that sent a mutation and then failed is a FAILURE (`NoFalseFailure` in
`unattended`).  With two steps in both `Risky` and `Mutating`, a recovery may
restart at the second, because only the first is the hazard (`NoSecondDispatch`
with `RestartFrom <- FromLast`); no shipped capability has two.

Behaviours without a property of their own: a take is accepted after an approval
was posted, and the approval then takes control away from the human; a command
still queued at a handback runs in the next human window; commands run after the
deadline, because a round that executed one does not look at it; a review signs
what it loaded and overwrites what the file has become; the twin executes on an
image of another member whose share looks right (and then calls the outcome
UNVERIFIABLE).

### Bounds

Three steps are the least with a step before, at and after the consequential
one; the instance has a risky step that does not mutate (a sign-on), a mutating
one that is not risky, and one that is both.  One recoverable condition, with
every kind of restart, and one outcome are enough for their order and for
freshness; two fires and two interventions are enough to use up each budget and
to carry state from one into the next.  `MaxRuns` is 2 where state may leak from
run to run.  In the hand-off two operators overwrite each other, the second
intervention shows what is left over from the first, and the queue's bound
(`MaxQueue`) is only the model's.

In `twin` a second share carries collateral changes, the third status is neither
end of the transition, and one foreign change (`MaxForeign`) is enough to come
before, between or after the reads, together with the third party's own; the record
starts anywhere.  In `invoke` a request and its duplicate meet in every order, with
the one write that changes what they load (`MaxWrites`) and one restart
(`MaxRestarts`); `review` has two writes instead, the least with which a signature
and a later change, or two writers, meet; its request has no key, which is the
branch without a record.  In `trace` there are two lines (`MaxRecords`: those of a
log that Trace adds to; other hands may leave up to twice as many), of which one may
go uncounted (`MaxUncounted`), the first or the last; events are symmetric; two openings (`MaxOpens`) are the least with a seal that is
out of date, and two changes (`MaxTouches`) can hide each other.  In `discovery`,
two steps and two invalid proposals exhaust every budget in every order, and leave a reaction of the first step
pending under the watch of the second; the one outcome has its own leg.

### Fairness

`FairSpec` of `Replay` assumes that the engine's thread runs (it never waits for
anyone but in a bounded poll), that time passes a deadline, and that an
intervention has a time to live; nothing of the page or the operator.
`FairSpec` of `ControlHandoff` assumes the thread and the clock.
`InterventionEnds` holds unless operators post commands or resolutions for ever:
the loop does not look at the deadline in a round that executed a command or met
an undeclared code.

`FairSpec` of `Twin` assumes that a verifier's subprocess meets its timeout, that
the engine returns (`EveryRunEnds`), and that run_twin's own thread runs, to its
return; it never needs an exception to end.  Of the
server nothing, except when an injector waits for it inside the engine's thread:
its fetch has a time limit too.  `FairSpec` of `Invoke` assumes that a waiting
thread takes the lock when it is free, and again that the engine returns; that
`Raise` frees the lock is part of the action, not of the fairness.

## What is proved

For every value of the constants within the named assumptions of each module.
The SMT, Zenon and LS4 backends check every leaf.

`ReplayProofs`, for every number of steps and conditions:

* `TypeCorrect`.
* `HazardStepNeverPerformedAgain`: `HazardStepIsOver`, with no further
  assumption, late requests, risky recoveries and any number of risky steps
  included.  It is not inductive alone: `_recover` tests the resume point before
  the recovery's steps run, so `HazardInv` adds that a recovery under way leads
  past the hazard.
* `DoubtIsFounded`, `NoDoubleFire`, `HandbacksArePastDispatch` and
  `StepMutationsAreNotDenied` when requests leave with their action, whatever
  mutations recoveries send; the second and third also with at most one step both
  risky and mutating.  Their inductive invariant `DispatchInv` says that hazard and
  traffic of the steps agree whenever a verdict can be given: whatever left is the
  hazard's or a later step's, and a mark with something after it on a risky step
  comes with a hazard.  `StepsAreNotDenied` is what remains of `NoFalseFailure` when
  a recovery may mutate: the steps' own mutations are still never denied.
* `FailureIsHonest`: `NoFalseFailure` under `Prompt` (requests leave with their
  action and recoveries send none).  The variations above show that no assumption
  can be dropped.
* `StepsKeepTheContract`: when requests leave with their action, the engine
  implements `ResultContract` for what its steps send, whatever recoveries send
  besides.  Each action proceeds with a run, answers it, or stutters (`Proceeds`);
  what an answer may be is `DispatchInv` again.  `EngineKeepsTheContract`, which is
  `KeepsTheContract` under `Prompt`, follows: without recoveries that mutate the two
  instances of the contract are one.
* `CalmAnswersAreFresh`: in every run, attended or not, no outcome older than the
  action answers before the first intervention.  `CalmInv` says that what was there
  before the step acted is still suppressed while it is shown; `stale_handback`
  shows how a handback breaks that.  `UnattendedAnswersAreFresh`, which is
  `StaleNeverAnswers` without a hub, follows.
* `NothingIsForNothing`: `EveryStepCounts`, with no further assumption.  Fires and
  escalations never go back within a call and are capped; between two expenses
  `Distance` falls with every step but those that poll or try once more, which need
  a deadline that has yet to pass.  With the fairness of `FairSpec`, under which
  deadlines pass, this is why `EveryRunEnds` holds; that last inference stays with
  TLC.
* `RiskyStepsRunOnce`: `RiskyNeverReattempted`, which no configuration checks since
  restarts refute it (see "A risky step runs again"), holds before an intervention
  of every capability that has no restart at or before a risky step.  `TriedInv`:
  the risky steps that were attempted are behind, but for one that awaits its
  postconditions, and from there only an intervention leads back.
* `DirectoryIsThisCalls`: `RunDirIsThisRun`.

`ControlProofs`, for any operators, queue and budget:

* `HandoffTypeCorrect`, which includes that the budget of interventions is kept.
* `OneDriver`: `SingleDriver`, from `TokenInv`, which adds that a parked engine
  never holds the token.
* `NoLeftoverDecision`: `DecisionIsFresh`, since `park` clears what nobody drained.
* `HumanRecordIsHuman`: `RecordIsHuman`, since the screenshot of an intervention
  is a driver call and delivers automation's events while automation still holds
  the token.
* `HeadlessEvidence`: `EvidenceHidesHumanInput` when the operator has no window.

`TwinProofs`, for any shares, statuses, faults and number of foreign changes: all
safety properties of `twin`.  The inductive invariant has four parts beside the
types: `WindowInv` (the images are those of the two reads, and phases keep their
order), `OutcomeInv` (what is recorded by the end and kept by a run that raises
after it), `RequestInv` (request, page and claim agree) and `EffectInv` (between the
reads only the own request moves the target, unless somebody meddled).
`TwinSettlesTruthfully` is the refinement: every
action is a step of `Settlement` or a stutter, and `JudgeConcludes` is the case
that needs the invariant.  `EveryRunIsAccountedFor` is `RunIsAccountedFor`: a run
that returns, or has `twin_finished`, was judged; what is called refused sent
nothing; a run whose request left without a reconciliation is one that raised.

`InvokeProofs`, for any requests, files, operators, writes and restarts: all
safety properties of `invoke` and `review`.  `ReviewInv` follows signatures to
wherever an artifact is (file, writer, request): what a hash covers somebody
signed.  `RunInv` says that one thread runs and holds the lock, `RecordInv` that
nothing is recorded for a transaction while it runs and that what is recorded is
what this life of the process answered.  From these, one execution per key.
`HonestInv` adds that run directories are never given twice, that the engine's
`dispatched` is about the run that holds the lock, and that every envelope, answered
or recorded, vouches for a run that is over: only then can no later request of that
run make it a lie (`EnvelopesTellTheirRun`).  `ReturningEngineNeverPostsTwice` is
`NeverPostedTwice` for an engine whose runs never raise (`~Faulty`): by `CutInv`, a
run without a result then belongs to an earlier life of the process, so the
exceptions of `invoke_retry` are all that refutes it.

`TraceProofs`, for logs of any length and whatever other hands leave: `SealProves`
and `ReceiptProves`.  `WriterInv` says what a sealed log looks like; `CheckInv`
that the lines checked so far form a chain, and that two chained logs with one
line in common agree before it, since digests are injective; so the tip decides
the whole log.  Both hold under `own`, and `SealProves` for a verification that had
the seal (`sealUsed`).  `TraceTypeCorrect` holds because other hands leave lines,
whatever is in them.  `AlarmsHaveACause` is `NoFalseAlarm`, from `AlarmInv`: as long as nobody
else touched the files, lines that are whole and counted are a chain that the writer
continues, or of which the last was flushed and is yet to be counted (`LogHonest`),
the seal and the receipt of a run that closed are of its tip
(`SealHonest`, `ReceiptHonest`), and a reader under whom nothing moved holds the log
and a seal that fits it (`CopyHonest`).

`DiscoveryProofs`, for any elements, outcomes and budgets: all properties of
`discovery`.  `BudgetInv` counts: turns taken are steps, invalid proposals, the
grace turn and the turn under way, so the loop's bound never ends a run.
`WatchInv` ties the flag to the action under way, `Recorded` the steps to what was
done, `RouteInv` every distilled leg to the happy one.

Only model-checked: all liveness (`EveryRunEnds`, `InterventionEnds`,
`PauseIsGranted`, `TwinEnds`, `EveryRequestAnswered`), which is out of the prover's
reach, and the two properties that a run refutes: one of them, `NeverPostedTwice`,
is proved of an engine that does not raise.

## Not modelled

* Replay composed with ControlHandoff: mutations and blocked requests of a human
  window charged to the engine's steps, and how many actions follow a requested
  pause.  The two share the hub's token; their product is beyond the small
  instances that show anything about either.
* The kinds of conditions, values, money and parameters and their masking
  (`conditions.py`, `values.py`, `artifact.py`): functions of a page or of a
  string, in reach of tests.  The validators' rules appear as assumptions.
* The resolution of locators, fingerprints and the observation of a page
  (`surface.py`, `observe.py`, `recorder.py`): a choice of the page wherever the
  models need an answer.
* A discovery whose error turn shows the model the observation from before the
  failed action: the model's replies are arbitrary, so nothing depends on it.
* Rendering, argument parsing and the HTML of the front ends (no state of their
  own), model calls (external), the evaluation scripts and the generator of the
  shipped capabilities.
