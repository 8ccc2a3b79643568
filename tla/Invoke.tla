------------------------------- MODULE Invoke -------------------------------
(***************************************************************************)
(* POST /capabilities/<name>/invoke (src/src/hands/api.py): requests that  *)
(* arrive on threads of their own, one lock around check, execution and    *)
(* record, one engine object, known by its ResultContract, and a map of    *)
(* completed envelopes that lives as long as the process.  The capability  *)
(* is loaded before the lock is taken.                                     *)
(***************************************************************************)
EXTENDS Catalog

CONSTANTS
  Requests,    \* the requests that may arrive; a retry is a request of its own
  NameOf,      \* request -> the capability it names
  KeyOf,       \* request -> its idempotency key, or NoKey
  Verdicts,    \* the verdicts of a run that are told apart
  Faulty,      \* can engine.run raise once it has begun?
  MaxRestarts  \* bound: restarts of the process

NoKey == "no key"
Free  == "free"

ASSUME InvokeAssumption ==
  /\ NameOf \in [Requests -> Names]
  /\ Free \notin Requests
  /\ Faulty \in BOOLEAN
  /\ MaxRestarts \in Nat

VARIABLES
  phase,       \* request -> where its thread is
  loaded,      \* request -> the artifact its thread loaded
  holder,      \* who holds _INVOKE_LOCK, or Free
  dispatched,  \* the engine: the consequential request of this run left
  result,      \* the engine: what the last run returned
  runDir,      \* the engine: last_run_dir, the run it belongs to, or 0
  runs,        \* run directories made
  completed,   \* <<name, key>> -> the recorded envelope, or NoEnvelope
  answer,      \* request -> what was answered
  epoch,       \* restarts so far
  ownRun,      \* history: request -> the run directory its call made, or 0
  sent,        \* history: requests whose run sent the consequential request
  broken,      \* history: requests whose run ended without a result
  answeredIn   \* history: request -> the epoch its answer belongs to

engine  == <<dispatched, result, runDir, runs>>
history == <<ownRun, sent, broken, answeredIn>>
vars    == <<catalogVars, phase, loaded, holder, engine, completed, answer, epoch, history>>

Engine == INSTANCE ResultContract WITH running <- holder # Free, verdict <- result

Results == Engine!Definite \cup Engine!NothingRan \cup Engine!Refusals \cup {"UNRESOLVED"}

Keys == {KeyOf[r] : r \in Requests} \ {NoKey}
Slot(r) == <<NameOf[r], KeyOf[r]>>
Keyed(r) == KeyOf[r] # NoKey

Envelopes == [artifact : Artifacts, run : Nat, result : Results]
NoEnvelope == [run |-> -1]

\* The answers: an envelope, or 404, 400, 500, or a connection that was lost.
Error(kind) == [kind |-> kind, envelope |-> NoEnvelope]
NoAnswer == Error("none")
\* A verdict in doubt as an error of the server, which clients retry.
DoubtAsFault(e) ==
  [kind |-> IF e.result = "UNRESOLVED" THEN "fault" ELSE "envelope", envelope |-> e]
WithEnvelope(e) == [kind |-> "envelope", envelope |-> e]
Answers ==
  [kind : {"none", "unknown", "invalid", "fault", "lost"}, envelope : {NoEnvelope}]
    \cup [kind : {"envelope"}, envelope : Envelopes]

TypeOK ==
  /\ CatalogTypeOK
  /\ phase \in [Requests -> {"idle", "waiting", "running", "answered"}]
  /\ loaded \in [Requests -> Artifacts]
  /\ holder \in Requests \cup {Free}
  /\ dispatched \in BOOLEAN
  /\ result \in Results \cup {"NONE"}
  /\ runDir \in Nat /\ runs \in Nat
  /\ completed \in [Names \X Keys -> Envelopes \cup {NoEnvelope}]
  /\ answer \in [Requests -> Answers]
  /\ epoch \in 0 .. MaxRestarts
  /\ ownRun \in [Requests -> Nat]
  /\ sent \subseteq Requests /\ broken \subseteq Requests
  /\ answeredIn \in [Requests -> 0 .. MaxRestarts]

-----------------------------------------------------------------------------
Reply(r, a) ==
  /\ phase' = [phase EXCEPT ![r] = "answered"]
  /\ answer' = [answer EXCEPT ![r] = a]
  /\ answeredIn' = [answeredIn EXCEPT ![r] = epoch]

\* _load_catalog, outside the lock: a file that cannot be read is not there.
Receive(r) ==
  /\ phase[r] = "idle"
  /\ LET file == files[NameOf[r]] IN
     IF file.whole
     THEN /\ loaded' = [loaded EXCEPT ![r] = file.artifact]
          /\ phase' = [phase EXCEPT ![r] = "waiting"]
          /\ UNCHANGED <<answer, answeredIn>>
     ELSE Reply(r, Error("unknown")) /\ UNCHANGED loaded
  /\ UNCHANGED <<catalogVars, holder, engine, completed, epoch, ownRun, sent, broken>>

\* The lock is free to take.
Enters(r) == phase[r] = "waiting" /\ holder = Free

\* A lookup that lets what ended in doubt be tried again.
RecordedUnlessDoubt(r) ==
  /\ Keyed(r)
  /\ completed[Slot(r)] # NoEnvelope
  /\ completed[Slot(r)].result # "UNRESOLVED"

\* A duplicate finds what was recorded for the capability and the key.
Recorded(r) == Keyed(r) /\ completed[Slot(r)] # NoEnvelope

Replay(r) ==
  /\ Enters(r)
  /\ Recorded(r)
  /\ Reply(r, WithEnvelope(completed[Slot(r)]))
  /\ UNCHANGED <<catalogVars, loaded, holder, engine, completed, epoch, ownRun, sent, broken>>

\* The gate looks at what was loaded; the API's engine is unattended.
NeedsReview(a) == a.content.version \in Risky /\ ~ReviewValid(a)

\* A record of what succeeded only, as if the rest could be tried again.
RecordDefinite(r, e) ==
  completed' = IF Keyed(r) /\ e.result \in Engine!Definite
               THEN [completed EXCEPT ![Slot(r)] = e] ELSE completed

\* Without a key there is no record.
Record(r, e) ==
  completed' = IF Keyed(r) THEN [completed EXCEPT ![Slot(r)] = e] ELSE completed

\* The record and the answer, still under the lock.
Conclude(r, e) ==
  /\ Record(r, e)
  /\ Reply(r, WithEnvelope(e))

\* A reset that comes after the refusals of run().
ResetKept == runDir' = runDir
ResetRunDir == runDir' = 0

\* The engine refuses before it makes a run directory.
RefuseUnreviewed(r) ==
  /\ Enters(r) /\ ~Recorded(r)
  /\ NeedsReview(loaded[r])
  /\ UNCHANGED holder
  /\ result' = "REVIEW_REQUIRED"
  /\ Engine!Refuse
  /\ ResetRunDir
  /\ Conclude(r, [artifact |-> loaded[r], run |-> runDir', result |-> result'])
  /\ UNCHANGED <<catalogVars, loaded, runs, epoch, ownRun, sent, broken>>

\* ValueError of _validate_params: 400, and no record.
RefuseParameters(r) ==
  /\ Enters(r) /\ ~Recorded(r)
  /\ UNCHANGED holder
  /\ result' = "INVALID_PARAMETERS"
  /\ Engine!Refuse
  /\ ResetRunDir
  /\ Reply(r, Error("invalid"))
  /\ UNCHANGED <<catalogVars, loaded, completed, runs, epoch, ownRun, sent, broken>>

Execute(r) ==
  /\ Enters(r) /\ ~Recorded(r)
  /\ ~NeedsReview(loaded[r])
  /\ holder' = r
  /\ Engine!Accept
  /\ runs' = runs + 1
  /\ runDir' = runs + 1
  /\ phase' = [phase EXCEPT ![r] = "running"]
  /\ ownRun' = [ownRun EXCEPT ![r] = runs + 1]
  /\ UNCHANGED <<catalogVars, loaded, completed, answer, epoch, sent, broken, answeredIn>>

\* The consequential request of the run leaves the browser.
Dispatch(r) ==
  /\ phase[r] = "running"
  /\ UNCHANGED holder
  /\ Engine!Dispatch
  /\ sent' = sent \cup {r}
  /\ UNCHANGED <<catalogVars, phase, loaded, runDir, runs, completed, answer, epoch, ownRun,
                 broken, answeredIn>>

\* A lock that is given back where a verdict was returned.
LeaveOnReturn == holder' = IF result' = "NONE" THEN holder ELSE Free
Leave == holder' = Free

\* engine.run returns: envelope, record, answer, and the lock is free.
Finish(r) ==
  /\ phase[r] = "running"
  /\ result' \in Verdicts
  /\ Leave
  /\ Engine!Answer
  /\ dispatched' = dispatched
  /\ Conclude(r, [artifact |-> loaded[r], run |-> runDir, result |-> result'])
  /\ UNCHANGED <<catalogVars, loaded, runDir, runs, epoch, ownRun, sent, broken>>

\* engine.run raises after it began, a ValueError (400) or anything else, like a
\* full disk under trace or evidence (500): the caller sees an error, the lock is freed, nothing recorded.
Raise(r) ==
  /\ Faulty
  /\ phase[r] = "running"
  /\ UNCHANGED engine
  /\ Leave
  /\ broken' = broken \cup {r}
  /\ Reply(r, Error("fault"))
  /\ UNCHANGED <<catalogVars, loaded, completed, epoch, ownRun, sent>>

\* The process is killed and started again: threads, engine and map are gone.
Restart ==
  /\ epoch < MaxRestarts
  /\ epoch' = epoch + 1
  /\ holder' = Free
  /\ dispatched' = FALSE /\ result' = "NONE" /\ runDir' = 0
  /\ completed' = [slot \in Names \X Keys |-> NoEnvelope]
  /\ LET cut == {r \in Requests : phase[r] \in {"waiting", "running"}} IN
     /\ phase' = [r \in Requests |-> IF r \in cut THEN "answered" ELSE phase[r]]
     /\ answer' = [r \in Requests |-> IF r \in cut THEN Error("lost") ELSE answer[r]]
     /\ answeredIn' = [r \in Requests |-> IF r \in cut THEN epoch ELSE answeredIn[r]]
     /\ broken' = broken \cup {r \in Requests : phase[r] = "running"}
  /\ UNCHANGED <<catalogVars, loaded, runs, ownRun, sent>>

Init ==
  /\ CatalogInit
  /\ phase = [r \in Requests |-> "idle"]
  /\ loaded = [r \in Requests |-> files[NameOf[r]].artifact]
  /\ holder = Free
  /\ dispatched = FALSE /\ result = "NONE" /\ runDir = 0 /\ runs = 0
  /\ completed = [slot \in Names \X Keys |-> NoEnvelope]
  /\ answer = [r \in Requests |-> NoAnswer]
  /\ epoch = 0
  /\ ownRun = [r \in Requests |-> 0]
  /\ sent = {} /\ broken = {}
  /\ answeredIn = [r \in Requests |-> 0]

Enter(r) == Replay(r) \/ RefuseUnreviewed(r) \/ RefuseParameters(r) \/ Execute(r)
Serve(r) == Receive(r) \/ Enter(r) \/ Dispatch(r) \/ Finish(r) \/ Raise(r)

People == CatalogNext /\ UNCHANGED <<phase, loaded, holder, engine, completed, answer, epoch, history>>

Next == (\E r \in Requests : Serve(r)) \/ Restart \/ People

Spec == Init /\ [][Next]_vars

\* Every thread that can take the lock does so in the end, and engine.run
\* returns: it is bounded by timeouts throughout (Replay!RunEnds).
Fairness == \A r \in Requests : WF_vars(Enter(r)) /\ WF_vars(Finish(r))
FairSpec == Spec /\ Fairness

-----------------------------------------------------------------------------
RanIn(r) == IF phase[r] = "running" THEN epoch ELSE answeredIn[r]
SameTransaction(q, r) == Keyed(q) /\ Slot(q) = Slot(r)
HasEnvelope(r) == answer[r].kind = "envelope"

\* Two requests with one capability and one key do not both send the
\* consequential request in one life of the process, unless the run of one
\* ended in an exception (api.py:182-191, the critical section).
OncePerKey ==
  \A q, r \in sent :
    q # r /\ SameTransaction(q, r) /\ RanIn(q) = RanIn(r) => {q, r} \cap broken # {}

\* All requests of one transaction that get an envelope in one life of the
\* process get the same one, whatever became of the file (api.py:192-194).
DuplicateGetsOriginal ==
  \A q, r \in Requests :
    SameTransaction(q, r) /\ HasEnvelope(q) /\ HasEnvelope(r)
      /\ answeredIn[q] = answeredIn[r]
    => answer[q] = answer[r]

\* An envelope is about a run of its own transaction, the caller's own where it
\* had one: it names that run and the contract as loaded before the wait for the
\* lock, is in doubt only if the consequential request of that run left, and
\* denies only if it did not.  One that names no run is a refusal.  Records that
\* outlive the run, duplicates and restarts included (api.py:182-217).
EnvelopeIsItsRun ==
  \A r \in Requests : HasEnvelope(r) =>
    LET e == answer[r].envelope IN
    /\ ownRun[r] # 0 => e.run = ownRun[r]
    /\ \/ e.run = 0 /\ e.result \in Engine!Refusals
       \/ \E q \in Requests :
            /\ q = r \/ SameTransaction(q, r)
            /\ ownRun[q] # 0 /\ e.run = ownRun[q] /\ e.artifact = loaded[q]
            /\ e.result = "UNRESOLVED" => q \in sent
            /\ e.result \in Engine!NothingRan => q \notin sent

\* A risky artifact runs only as a named reviewer signed it, and the reviewer
\* is not its known maker, however the file changed between load, review,
\* write and run (artifact.py:540-585, the gate of engine.run).
FourEyes ==
  \A r \in Requests :
    LET content == loaded[r].content IN
    ownRun[r] # 0 /\ content.version \in Risky =>
      /\ content \in signed
      /\ content.maker # Nobody => Person[content.by] # Person[content.maker]

\* Every request that was received is answered, also the one that waits for
\* a duplicate to finish (api.py:191).
EveryRequestAnswered ==
  \A r \in Requests : phase[r] \in {"waiting", "running"} ~> phase[r] = "answered"

\* "a transfer cannot be posted twice by a nervous retry" (api.py:156-157),
\* in one life of the process.
NeverPostedTwice ==
  \A q, r \in sent : q # r /\ SameTransaction(q, r) => RanIn(q) # RanIn(r)
=============================================================================
