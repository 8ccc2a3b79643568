---------------------------- MODULE InvokeProofs ----------------------------
(***************************************************************************)
(* Proofs about Invoke, for every set of requests, files, operators and    *)
(* every number of writes and restarts.                                    *)
(***************************************************************************)
EXTENDS Invoke, TLAPS

-----------------------------------------------------------------------------
(* Types.                                                                  *)

LEMMA UnreviewedType == Unreviewed \subseteq Artifacts
  <1>1. ASSUME NEW version \in Versions, NEW maker \in Signatories
        PROVE  Unsigned(version, maker) \in Artifacts
    BY DEF Unsigned, Artifacts, Contents, Signatories
  <1> QED  BY <1>1 DEF Unreviewed

LEMMA SignedByType ==
  ASSUME NEW a \in Artifacts, NEW reviewer \in Operators
  PROVE  SignedBy(a, reviewer) \in Artifacts /\ SignedBy(a, reviewer).content \in Contents
  BY DEF SignedBy, Artifacts, Contents, Signatories

LEMMA CallWriteType ==
  ASSUME CatalogTypeOK, NEW n \in Names, NEW a \in Artifacts, CallWrite(n, a)
  PROVE  /\ files' \in [Names -> [whole : BOOLEAN, artifact : Artifacts]]
         /\ writes' \subseteq Writes
         /\ written' \in 0 .. MaxWrites
  <1>1. written' \in 0 .. MaxWrites
    BY CatalogAssumption DEF CatalogTypeOK, CallWrite
  <1>2. [name |-> n, artifact |-> a, begun |-> FALSE] \in Writes  BY DEF Writes
  <1> QED  BY <1>1, <1>2 DEF CatalogTypeOK, CallWrite

\* Whoever discovers, reviews, edits or writes leaves files, writes and
\* signatures of their types.
LEMMA CatalogTypes ==
  ASSUME CatalogTypeOK, CatalogNext
  PROVE  CatalogTypeOK'
  <1>1. ASSUME NEW n \in Names, Discover(n)  PROVE CatalogTypeOK'
    BY <1>1, UnreviewedType, CallWriteType DEF Discover, CatalogTypeOK
  <1>2. ASSUME NEW n \in Names, Review(n)  PROVE CatalogTypeOK'
    <2>1. files[n].artifact \in Artifacts  BY DEF CatalogTypeOK
    <2> QED  BY <1>2, <2>1, SignedByType, CallWriteType DEF Review, CatalogTypeOK
  <1>3. ASSUME NEW n \in Names, EditByHand(n)  PROVE CatalogTypeOK'
    <2>1. files[n].artifact \in Artifacts  BY DEF CatalogTypeOK
    <2>2. PICK content \in Contents :
            CallWrite(n, [files[n].artifact EXCEPT !.content = content])
      BY <1>3 DEF EditByHand
    <2>3. [files[n].artifact EXCEPT !.content = content] \in Artifacts
      BY <2>1 DEF Artifacts
    <2> QED  BY <1>3, <2>2, <2>3, CallWriteType DEF EditByHand, CatalogTypeOK
  <1>4. ASSUME NEW w \in writes, Truncate(w)  PROVE CatalogTypeOK'
    BY <1>4 DEF Truncate, CatalogTypeOK, Writes
  <1>5. ASSUME NEW w \in writes, Fill(w)  PROVE CatalogTypeOK'
    BY <1>5 DEF Fill, CatalogTypeOK, Writes
  <1>6. ASSUME NEW w \in writes, WriterDies(w)  PROVE CatalogTypeOK'
    BY <1>6 DEF WriterDies, CatalogTypeOK
  <1> QED  BY <1>1, <1>2, <1>3, <1>4, <1>5, <1>6 DEF CatalogNext

LEMMA CatalogInitTypes == CatalogInit => CatalogTypeOK
  <1>1. [whole : {TRUE}, artifact : Unreviewed] \subseteq [whole : BOOLEAN, artifact : Artifacts]
    BY UnreviewedType
  <1>2. ASSUME CatalogInit  PROVE files \in [Names -> [whole : BOOLEAN, artifact : Artifacts]]
    BY <1>1, <1>2 DEF CatalogInit
  <1>3. ASSUME CatalogInit  PROVE written \in 0 .. MaxWrites
    BY <1>3, CatalogAssumption DEF CatalogInit
  <1> QED  BY <1>2, <1>3 DEF CatalogInit, CatalogTypeOK

ThreadTypes ==
  /\ phase \in [Requests -> {"idle", "waiting", "running", "answered"}]
  /\ answer \in [Requests -> Answers]
  /\ answeredIn \in [Requests -> 0 .. MaxRestarts]

LEMMA ErrorType ==
  ASSUME NEW kind \in {"none", "unknown", "invalid", "fault", "lost"}
  PROVE  Error(kind) \in Answers
  BY DEF Error, Answers

LEMMA WithEnvelopeType ==
  ASSUME NEW e \in Envelopes
  PROVE  WithEnvelope(e) \in Answers
  BY DEF WithEnvelope, Answers

LEMMA ReplyTypes ==
  ASSUME TypeOK, NEW r \in Requests, NEW a \in Answers, Reply(r, a)
  PROVE  ThreadTypes'
  BY DEF TypeOK, Reply, ThreadTypes

LEMMA RecordTypes ==
  ASSUME TypeOK, NEW r \in Requests, NEW e \in Envelopes, Record(r, e)
  PROVE  completed' \in [Names \X Keys -> Envelopes \cup {NoEnvelope}]
  BY InvokeAssumption DEF TypeOK, Record

LEMMA TypeInit == Init => TypeOK
  <1> SUFFICES ASSUME Init  PROVE TypeOK  OBVIOUS
  <1>1. CatalogTypeOK  BY CatalogInitTypes DEF Init
  <1>2. ThreadTypes
    BY ErrorType, InvokeAssumption DEF Init, ThreadTypes, NoAnswer
  <1>3. loaded \in [Requests -> Artifacts]
    BY <1>1, InvokeAssumption DEF Init, CatalogTypeOK
  <1>4. /\ completed \in [Names \X Keys -> Envelopes \cup {NoEnvelope}]
        /\ ownRun \in [Requests -> Nat]
    BY DEF Init
  <1>5. epoch \in 0 .. MaxRestarts  BY InvokeAssumption DEF Init
  <1> QED  BY <1>1, <1>2, <1>3, <1>4, <1>5 DEF Init, TypeOK, ThreadTypes

LEMMA TypeNext == TypeOK /\ [Next]_vars => TypeOK'
  <1> SUFFICES ASSUME TypeOK, [Next]_vars  PROVE TypeOK'  OBVIOUS
  <1>0. CatalogTypeOK' \/ catalogVars' # catalogVars
    BY DEF TypeOK, CatalogTypeOK, catalogVars
  <1>1. ASSUME NEW r \in Requests, Receive(r)  PROVE TypeOK'
    <2>1. CASE files[NameOf[r]].whole
      BY <1>0, <1>1, <2>1, InvokeAssumption
      DEF Receive, TypeOK, CatalogTypeOK, engine
    <2>2. CASE ~files[NameOf[r]].whole
      <3>1. ThreadTypes'  BY <1>1, <2>2, ErrorType, ReplyTypes DEF Receive
      <3> QED  BY <1>0, <1>1, <2>2, <3>1 DEF Receive, TypeOK, ThreadTypes, engine
    <2> QED  BY <2>1, <2>2
  <1>2. ASSUME NEW r \in Requests, Replay(r)  PROVE TypeOK'
    <2>1. completed[Slot(r)] \in Envelopes
      BY <1>2, InvokeAssumption DEF Replay, Recorded, Keyed, Slot, Keys, TypeOK
    <2>2. ThreadTypes'  BY <1>2, <2>1, WithEnvelopeType, ReplyTypes DEF Replay
    <2> QED  BY <1>0, <1>2, <2>2 DEF Replay, TypeOK, ThreadTypes, engine
  <1>3. ASSUME NEW r \in Requests, RefuseUnreviewed(r)  PROVE TypeOK'
    <2> DEFINE e == [artifact |-> loaded[r], run |-> runDir', result |-> result']
    <2>1. e \in Envelopes
      BY <1>3 DEF RefuseUnreviewed, ResetRunDir, Envelopes, TypeOK, Results, Engine!Refusals
    <2>2. ThreadTypes'
      BY <1>3, <2>1, WithEnvelopeType, ReplyTypes DEF RefuseUnreviewed, Conclude
    <2>3. completed' \in [Names \X Keys -> Envelopes \cup {NoEnvelope}]
      BY <1>3, <2>1, RecordTypes DEF RefuseUnreviewed, Conclude
    <2> QED
      BY <1>0, <1>3, <2>2, <2>3
      DEF RefuseUnreviewed, ResetRunDir, TypeOK, ThreadTypes, Engine!Refuse, Results,
          Engine!Refusals
  <1>4. ASSUME NEW r \in Requests, RefuseParameters(r)  PROVE TypeOK'
    <2>1. ThreadTypes'  BY <1>4, ErrorType, ReplyTypes DEF RefuseParameters
    <2> QED
      BY <1>0, <1>4, <2>1
      DEF RefuseParameters, ResetRunDir, TypeOK, ThreadTypes, Engine!Refuse, Results,
          Engine!Refusals
  <1>5. ASSUME NEW r \in Requests, Execute(r)  PROVE TypeOK'
    <2>1. /\ phase' \in [Requests -> {"idle", "waiting", "running", "answered"}]
          /\ ownRun' \in [Requests -> Nat]
      BY <1>5 DEF Execute, TypeOK
    <2> QED  BY <1>0, <1>5, <2>1 DEF Execute, TypeOK, Engine!Accept
  <1>6. ASSUME NEW r \in Requests, Dispatch(r)  PROVE TypeOK'
    BY <1>0, <1>6 DEF Dispatch, TypeOK, Engine!Dispatch
  <1>7. ASSUME NEW r \in Requests, Finish(r)  PROVE TypeOK'
    <2> DEFINE e == [artifact |-> loaded[r], run |-> runDir, result |-> result']
    <2>0. result' \in Results
      BY <1>7 DEF Finish, Engine!Answer, Results, Engine!Definite, Engine!NothingRan
    <2>1. e \in Envelopes  BY <2>0 DEF Envelopes, TypeOK
    <2>2. ThreadTypes'
      BY <1>7, <2>1, WithEnvelopeType, ReplyTypes DEF Finish, Conclude
    <2>3. completed' \in [Names \X Keys -> Envelopes \cup {NoEnvelope}]
      BY <1>7, <2>1, RecordTypes DEF Finish, Conclude
    <2> QED  BY <1>0, <1>7, <2>0, <2>2, <2>3 DEF Finish, Leave, TypeOK, ThreadTypes
  <1>8. ASSUME NEW r \in Requests, Raise(r)  PROVE TypeOK'
    <2>1. ThreadTypes'  BY <1>8, ErrorType, ReplyTypes DEF Raise
    <2> QED  BY <1>0, <1>8, <2>1 DEF Raise, Leave, TypeOK, ThreadTypes, engine
  <1>9. CASE Restart
    <2>1. ThreadTypes'
      BY <1>9, ErrorType, InvokeAssumption DEF Restart, TypeOK, ThreadTypes
    <2>2. epoch' \in 0 .. MaxRestarts
      BY <1>9, InvokeAssumption DEF Restart, TypeOK
    <2> QED  BY <1>0, <1>9, <2>1, <2>2 DEF Restart, TypeOK, ThreadTypes
  <1>10. CASE People
    BY <1>10, CatalogTypes DEF People, TypeOK, engine, history
  <1>11. CASE UNCHANGED vars
    BY <1>0, <1>11 DEF vars, TypeOK, engine, history
  <1> QED
    BY <1>1, <1>2, <1>3, <1>4, <1>5, <1>6, <1>7, <1>8, <1>9, <1>10, <1>11
    DEF Next, Serve, Enter

\* Every variable of the API keeps its type (api.py).
THEOREM InvokeTypeCorrect == Spec => []TypeOK
  BY TypeInit, TypeNext, PTL DEF Spec

-----------------------------------------------------------------------------
(* Four eyes.                                                              *)

\* A hash with a name in it was computed by `hands review`.
Honest(a) == a.hash.by # Nobody => a.hash \in signed

\* Signatures by the maker's reviewers only, wherever the artifact is now: in
\* its file, with a writer, or loaded by a request.
ReviewInv ==
  /\ \A c \in signed : /\ c.by \in Operators
                       /\ c.maker # Nobody => Person[c.by] # Person[c.maker]
  /\ \A n \in Names : Honest(files[n].artifact)
  /\ \A w \in writes : Honest(w.artifact)
  /\ \A r \in Requests : Honest(loaded[r])
  /\ \A r \in Requests : ownRun[r] # 0 => phase[r] \in {"running", "answered"}
  /\ \A r \in Requests : ownRun[r] # 0 => ~NeedsReview(loaded[r])

LEMMA UnreviewedHonest == \A a \in Unreviewed : a.hash.by = Nobody
  BY DEF Unreviewed, Unsigned

CatalogHonest ==
  /\ \A c \in signed : /\ c.by \in Operators
                       /\ c.maker # Nobody => Person[c.by] # Person[c.maker]
  /\ \A n \in Names : Honest(files[n].artifact)
  /\ \A w \in writes : Honest(w.artifact)

\* What people do to the files keeps every hash honest; signatures only grow.
LEMMA CatalogStaysHonest ==
  ASSUME CatalogTypeOK, CatalogHonest, CatalogNext
  PROVE  CatalogHonest' /\ signed \subseteq signed'
  <1>1. ASSUME NEW n \in Names, Discover(n)  PROVE CatalogHonest' /\ signed \subseteq signed'
    BY <1>1, UnreviewedHonest DEF Discover, CallWrite, CatalogHonest, Honest
  <1>2. ASSUME NEW n \in Names, Review(n)  PROVE CatalogHonest' /\ signed \subseteq signed'
    <2> DEFINE a == files[n].artifact
    <2>1. a \in Artifacts  BY DEF CatalogTypeOK
    <2>2. PICK reviewer \in Operators :
            /\ ~SameOperator(reviewer, a.content.maker)
            /\ CallWrite(n, SignedBy(a, reviewer))
            /\ signed' = signed \cup {SignedBy(a, reviewer).content}
      BY <1>2 DEF Review
    <2>3. /\ SignedBy(a, reviewer).hash = SignedBy(a, reviewer).content
          /\ SignedBy(a, reviewer).content.by = reviewer
          /\ SignedBy(a, reviewer).content.maker = a.content.maker
      BY <2>1 DEF SignedBy, Artifacts, Contents
    <2>4. a.content.maker # Nobody => Person[reviewer] # Person[a.content.maker]
      BY <2>2, CatalogAssumption DEF SameOperator
    <2> HIDE DEF a
    <2> QED  BY <2>2, <2>3, <2>4 DEF CallWrite, CatalogHonest, Honest
  <1>3. ASSUME NEW n \in Names, EditByHand(n)
        PROVE  CatalogHonest' /\ signed \subseteq signed'
    <2>1. PICK content \in Contents :
            CallWrite(n, [files[n].artifact EXCEPT !.content = content])
      BY <1>3 DEF EditByHand
    <2>2. files[n].artifact \in Artifacts  BY DEF CatalogTypeOK
    <2>3. [files[n].artifact EXCEPT !.content = content].hash = files[n].artifact.hash
      BY <2>2 DEF Artifacts
    <2>4. PICK a : CallWrite(n, a) /\ a.hash = files[n].artifact.hash
      BY <2>1, <2>3
    <2> QED  BY <1>3, <2>4 DEF EditByHand, CallWrite, CatalogHonest, Honest
  <1>4. ASSUME NEW w \in writes, Truncate(w)  PROVE CatalogHonest' /\ signed \subseteq signed'
    BY <1>4 DEF Truncate, CatalogTypeOK, Writes, CatalogHonest, Honest
  <1>5. ASSUME NEW w \in writes, Fill(w)  PROVE CatalogHonest' /\ signed \subseteq signed'
    BY <1>5 DEF Fill, CatalogTypeOK, Writes, CatalogHonest, Honest
  <1>6. ASSUME NEW w \in writes, WriterDies(w)
        PROVE  CatalogHonest' /\ signed \subseteq signed'
    BY <1>6 DEF WriterDies, CatalogHonest, Honest
  <1> QED  BY <1>1, <1>2, <1>3, <1>4, <1>5, <1>6 DEF CatalogNext

LEMMA ReviewInit == Init => ReviewInv
  <1> SUFFICES ASSUME Init  PROVE ReviewInv  OBVIOUS
  <1>1. \A n \in Names : files[n].artifact \in Unreviewed  BY DEF Init, CatalogInit
  <1>2. \A r \in Requests : loaded[r] \in Unreviewed  BY <1>1, InvokeAssumption DEF Init
  <1> QED  BY <1>1, <1>2, UnreviewedHonest DEF Init, CatalogInit, ReviewInv, Honest

\* Loading and running: what is loaded stays as it was loaded.
LEMMA ReviewNext == TypeOK /\ ReviewInv /\ [Next]_vars => ReviewInv'
  <1> SUFFICES ASSUME TypeOK, ReviewInv, [Next]_vars  PROVE ReviewInv'  OBVIOUS
  <1> USE DEF Honest, NeedsReview
  <1>1. ASSUME NEW r \in Requests, Receive(r)  PROVE ReviewInv'
    BY <1>1, InvokeAssumption DEF Receive, Reply, ReviewInv, TypeOK, catalogVars
  <1>2. ASSUME NEW r \in Requests, Replay(r)  PROVE ReviewInv'
    BY <1>2 DEF Replay, Reply, ReviewInv, TypeOK, catalogVars
  <1>3. ASSUME NEW r \in Requests, RefuseUnreviewed(r)  PROVE ReviewInv'
    BY <1>3 DEF RefuseUnreviewed, Conclude, Reply, ReviewInv, TypeOK, catalogVars
  <1>4. ASSUME NEW r \in Requests, RefuseParameters(r)  PROVE ReviewInv'
    BY <1>4 DEF RefuseParameters, Reply, ReviewInv, TypeOK, catalogVars
  <1>5. ASSUME NEW r \in Requests, Execute(r)  PROVE ReviewInv'
    BY <1>5 DEF Execute, ReviewInv, TypeOK, catalogVars
  <1>6. ASSUME NEW r \in Requests, Dispatch(r)  PROVE ReviewInv'
    BY <1>6 DEF Dispatch, ReviewInv, catalogVars
  <1>7. ASSUME NEW r \in Requests, Finish(r)  PROVE ReviewInv'
    BY <1>7 DEF Finish, Conclude, Reply, ReviewInv, TypeOK, catalogVars
  <1>8. ASSUME NEW r \in Requests, Raise(r)  PROVE ReviewInv'
    BY <1>8 DEF Raise, Reply, ReviewInv, TypeOK, catalogVars
  <1>9. CASE Restart
    BY <1>9 DEF Restart, ReviewInv, TypeOK, catalogVars
  <1>10. CASE People
    <2>1. CatalogHonest' /\ signed \subseteq signed'
      BY <1>10, CatalogStaysHonest DEF People, TypeOK, ReviewInv, CatalogHonest
    <2> QED  BY <1>10, <2>1 DEF People, ReviewInv, CatalogHonest, history, ReviewValid
  <1>11. CASE UNCHANGED vars
    BY <1>11 DEF vars, ReviewInv, catalogVars, history, ReviewValid
  <1> QED
    BY <1>1, <1>2, <1>3, <1>4, <1>5, <1>6, <1>7, <1>8, <1>9, <1>10, <1>11
    DEF Next, Serve, Enter

\* No risky artifact runs but as a reviewer other than its maker signed it
\* (artifact.py:540-585), for any number of edits and reviews meanwhile.
THEOREM RunsAreReviewed == Spec => []FourEyes
  <1>1. TypeOK /\ ReviewInv => FourEyes
    <2> SUFFICES ASSUME TypeOK, ReviewInv, NEW r \in Requests, ownRun[r] # 0,
                        loaded[r].content.version \in Risky
                 PROVE  /\ loaded[r].content \in signed
                        /\ loaded[r].content.maker # Nobody =>
                             Person[loaded[r].content.by] # Person[loaded[r].content.maker]
      BY DEF FourEyes
    <2>1. ReviewValid(loaded[r])  BY DEF ReviewInv, NeedsReview
    <2>2. loaded[r].content \in signed  BY <2>1 DEF ReviewValid, ReviewInv, Honest
    <2> QED  BY <2>2 DEF ReviewInv
  <1> QED  BY <1>1, TypeInit, TypeNext, ReviewInit, ReviewNext, PTL DEF Spec

-----------------------------------------------------------------------------
(* Runs and records.                                                       *)

\* An envelope of the transaction that has this slot, or of the request r.
Tells(e, r) ==
  \/ e.run = 0
  \/ \E q \in Requests : /\ q = r \/ SameTransaction(q, r)
                         /\ e.run = ownRun[q] /\ e.artifact = loaded[q]

\* One thread runs at a time, it holds the lock, and the engine's directory is
\* that of its run.
RunInv ==
  /\ \A r \in Requests : phase[r] = "running" => holder = r
  /\ holder # Free => phase[holder] = "running"
  /\ \A r \in Requests : ownRun[r] # 0 => phase[r] \in {"running", "answered"}
  /\ \A r \in sent : ownRun[r] # 0
  /\ \A r \in Requests : phase[r] = "running" => ownRun[r] = runDir /\ runDir # 0

\* What is recorded is what this life of the process answered; while a request
\* runs, nothing is recorded for its transaction.
RecordInv ==
  /\ \A r \in Requests : phase[r] # "answered" => ~HasEnvelope(r)
  /\ \A r \in Requests : answeredIn[r] <= epoch
  /\ \A r \in Requests : HasEnvelope(r) /\ Keyed(r) /\ answeredIn[r] = epoch =>
       completed[Slot(r)] = answer[r].envelope
  /\ \A r \in Requests : phase[r] = "running" /\ Keyed(r) => completed[Slot(r)] = NoEnvelope
  /\ \A r \in sent \ broken :
       phase[r] = "answered" /\ Keyed(r) /\ answeredIn[r] = epoch => Recorded(r)
  /\ \A r \in Requests : HasEnvelope(r) => Tells(answer[r].envelope, r)
  /\ \A r \in Requests : Recorded(r) => Tells(completed[Slot(r)], r)

\* Nobody has an envelope and nothing is recorded at first.
LEMMA NothingAtFirst ==
  ASSUME Init, NEW r \in Requests
  PROVE  ~HasEnvelope(r) /\ ~Recorded(r)
  <1>1. ~HasEnvelope(r)  BY DEF Init, HasEnvelope, NoAnswer, Error
  <1>2. Keyed(r) => Slot(r) \in Names \X Keys  BY InvokeAssumption DEF Keyed, Slot, Keys
  <1> QED  BY <1>1, <1>2 DEF Init, Recorded

LEMMA RunInit == Init => RunInv /\ RecordInv
  <1> SUFFICES ASSUME Init  PROVE RunInv /\ RecordInv  OBVIOUS
  <1>1. RunInv  BY InvokeAssumption DEF Init, RunInv
  <1>2. \A r \in Requests : ~HasEnvelope(r) /\ ~Recorded(r)  BY NothingAtFirst
  <1>3. sent = {} /\ \A r \in Requests : phase[r] = "idle" /\ answeredIn[r] <= epoch
    BY DEF Init
  <1>4. RecordInv  BY <1>2, <1>3 DEF RecordInv
  <1> QED  BY <1>1, <1>4

LEMMA RunNext == TypeOK /\ RunInv /\ [Next]_vars => RunInv'
  <1> SUFFICES ASSUME TypeOK, RunInv, [Next]_vars  PROVE RunInv'  OBVIOUS
  <1>1. ASSUME NEW r \in Requests, Receive(r)  PROVE RunInv'
    BY <1>1, InvokeAssumption DEF Receive, Reply, RunInv, TypeOK, engine
  <1>2. ASSUME NEW r \in Requests, Replay(r)  PROVE RunInv'
    BY <1>2, InvokeAssumption DEF Replay, Enters, Reply, RunInv, TypeOK, engine
  <1>3. ASSUME NEW r \in Requests, RefuseUnreviewed(r)  PROVE RunInv'
    BY <1>3, InvokeAssumption DEF RefuseUnreviewed, Enters, Conclude, Reply, RunInv, TypeOK
  <1>4. ASSUME NEW r \in Requests, RefuseParameters(r)  PROVE RunInv'
    BY <1>4, InvokeAssumption DEF RefuseParameters, Enters, Reply, RunInv, TypeOK
  <1>5. ASSUME NEW r \in Requests, Execute(r)  PROVE RunInv'
    BY <1>5, InvokeAssumption DEF Execute, Enters, RunInv, TypeOK
  <1>6. ASSUME NEW r \in Requests, Dispatch(r)  PROVE RunInv'
    <2>1. ownRun[r] # 0  BY <1>6 DEF Dispatch, RunInv
    <2> QED  BY <1>6, <2>1, InvokeAssumption DEF Dispatch, RunInv, TypeOK
  <1>7. ASSUME NEW r \in Requests, Finish(r)  PROVE RunInv'
    BY <1>7, InvokeAssumption DEF Finish, Leave, Conclude, Reply, RunInv, TypeOK
  <1>8. ASSUME NEW r \in Requests, Raise(r)  PROVE RunInv'
    BY <1>8, InvokeAssumption DEF Raise, Leave, Reply, RunInv, TypeOK
  <1>9. CASE Restart
    BY <1>9, InvokeAssumption DEF Restart, RunInv, TypeOK
  <1>10. CASE People
    BY <1>10 DEF People, RunInv, engine, history
  <1>11. CASE UNCHANGED vars
    BY <1>11 DEF vars, RunInv, engine, history
  <1> QED
    BY <1>1, <1>2, <1>3, <1>4, <1>5, <1>6, <1>7, <1>8, <1>9, <1>10, <1>11
    DEF Next, Serve, Enter

LEMMA SlotFacts ==
  /\ \A r \in Requests : Keyed(r) => Slot(r) \in Names \X Keys
  /\ \A q, r \in Requests : Slot(q) = Slot(r) => (Keyed(q) <=> Keyed(r))
  BY InvokeAssumption DEF Slot, Keyed, Keys

LEMMA EnvelopeFacts == \A e \in Envelopes : e # NoEnvelope
  <1> SUFFICES ASSUME NEW e \in Envelopes, e = NoEnvelope  PROVE FALSE  OBVIOUS
  <1>1. e.run \in Nat  BY DEF Envelopes
  <1>2. e.run = -1  BY DEF NoEnvelope
  <1> QED  BY <1>1, <1>2

LEMMA AnswerFacts ==
  ASSUME TypeOK, NEW r \in Requests
  PROVE  HasEnvelope(r) => answer[r].envelope \in Envelopes
  BY DEF TypeOK, Answers, HasEnvelope

\* What tells of a request tells of all of its transaction.
LEMMA TellsAll ==
  ASSUME NEW e, NEW q \in Requests, NEW r \in Requests, Keyed(r), Slot(q) = Slot(r), Tells(e, r)
  PROVE  Tells(e, q)
  BY SlotFacts DEF Tells, SameTransaction

LEMMA TellsStays ==
  ASSUME UNCHANGED <<ownRun, loaded>>, NEW e, NEW r \in Requests, Tells(e, r)
  PROVE  Tells(e, r)'
  BY DEF Tells, SameTransaction, Keyed, Slot

\* The record and the answer of a request that had the lock.
LEMMA ConcludeStep ==
  ASSUME TypeOK, RecordInv, NEW r \in Requests, NEW e \in Envelopes, Conclude(r, e),
         ~Recorded(r), Tells(e, r),
         \A q \in Requests : q # r => phase[q] # "running",
         UNCHANGED <<loaded, epoch, ownRun, sent, broken>>
  PROVE  RecordInv'
  <1>0. /\ phase' = [phase EXCEPT ![r] = "answered"]
        /\ answer' = [answer EXCEPT ![r] = WithEnvelope(e)]
        /\ answeredIn' = [answeredIn EXCEPT ![r] = epoch]
        /\ completed' = IF Keyed(r) THEN [completed EXCEPT ![Slot(r)] = e] ELSE completed
    BY DEF Conclude, Reply, Record
  <1>a. WithEnvelope(e).kind = "envelope" /\ WithEnvelope(e).envelope = e
    BY DEF WithEnvelope
  <1>b. \A q \in Requests : Keyed(q) =>
          completed'[Slot(q)] = IF Slot(q) = Slot(r) THEN e ELSE completed[Slot(q)]
    BY <1>0, SlotFacts DEF TypeOK
  <1>c. /\ answer'[r].kind = "envelope" /\ answer'[r].envelope = e
        /\ \A q \in Requests : q # r => answer'[q] = answer[q]
    BY <1>0, <1>a DEF TypeOK
  <1>1. \A q \in Requests : phase'[q] # "answered" => ~HasEnvelope(q)'
    BY <1>0, <1>c DEF TypeOK, HasEnvelope, RecordInv
  <1>2. \A q \in Requests : answeredIn'[q] <= epoch'
    BY <1>0 DEF TypeOK, RecordInv
  <1>3. ASSUME NEW q \in Requests, HasEnvelope(q)', Keyed(q), answeredIn'[q] = epoch'
        PROVE  completed'[Slot(q)] = answer'[q].envelope
    <2>1. CASE q = r  BY <2>1, <1>3, <1>b, <1>c
    <2>2. CASE q # r
      <3>1. HasEnvelope(q) /\ answeredIn[q] = epoch
        BY <1>0, <1>c, <1>3, <2>2 DEF HasEnvelope, TypeOK
      <3>2. completed[Slot(q)] = answer[q].envelope  BY <1>3, <3>1 DEF RecordInv
      <3>3. completed[Slot(q)] # NoEnvelope  BY <3>1, <3>2, AnswerFacts, EnvelopeFacts
      <3>4. Slot(q) # Slot(r)  BY <1>3, <3>3, SlotFacts DEF Recorded
      <3> QED  BY <1>3, <1>b, <1>c, <2>2, <3>2, <3>4
    <2> QED  BY <2>1, <2>2
  <1>4. \A q \in Requests : phase'[q] # "running"
    BY <1>0 DEF TypeOK
  <1>5. ASSUME NEW q \in sent \ broken, Keyed(q), phase'[q] = "answered", answeredIn'[q] = epoch
        PROVE  Recorded(q)'
    <2>0. q \in Requests  BY DEF TypeOK
    <2>1. CASE Slot(q) = Slot(r)
      BY <1>5, <1>b, <2>0, <2>1, EnvelopeFacts DEF Recorded, Keyed, Slot
    <2>2. CASE Slot(q) # Slot(r)
      <3>1. q # r  BY <2>2
      <3>2. phase[q] = "answered" /\ answeredIn[q] = epoch
        BY <1>0, <1>5, <2>0, <3>1 DEF TypeOK
      <3>3. Recorded(q)  BY <1>5, <3>2 DEF RecordInv
      <3> QED  BY <1>b, <2>0, <2>2, <3>3 DEF Recorded, Keyed, Slot
    <2> QED  BY <2>1, <2>2
  <1>6. ASSUME NEW q \in Requests, HasEnvelope(q)'
        PROVE  Tells(answer'[q].envelope, q)
    <2>1. CASE q = r  BY <2>1, <1>c
    <2>2. CASE q # r  BY <2>2, <1>6, <1>c DEF HasEnvelope, RecordInv
    <2> QED  BY <2>1, <2>2
  <1>7. ASSUME NEW q \in Requests, Recorded(q)'
        PROVE  Tells(completed'[Slot(q)], q)
    <2>0. Keyed(q)  BY <1>7 DEF Recorded, Keyed
    <2>1. CASE Slot(q) = Slot(r)
      BY <1>b, <2>0, <2>1, SlotFacts, TellsAll
    <2>2. CASE Slot(q) # Slot(r)
      BY <1>7, <1>b, <2>0, <2>2 DEF Recorded, RecordInv, Slot, Keyed
    <2> QED  BY <2>1, <2>2
  <1>8. \A q \in Requests : HasEnvelope(q)' => Tells(answer[q].envelope, q)'
    BY <1>6, TellsStays DEF Tells, SameTransaction, Keyed, Slot
  <1>9. \A q \in Requests : Recorded(q)' => Tells(completed[Slot(q)], q)'
    BY <1>7 DEF Tells, SameTransaction, Keyed, Slot
  <1> QED
    BY <1>1, <1>2, <1>3, <1>4, <1>5, <1>8, <1>9 DEF RecordInv, Keyed, Slot

\* An answer that records nothing: an error, or what was recorded already.
LEMMA ReplyStep ==
  ASSUME TypeOK, RecordInv, NEW r \in Requests, NEW a, Reply(r, a),
         \/ a.kind # "envelope"
         \/ Recorded(r) /\ a = WithEnvelope(completed[Slot(r)]),
         r \in sent => r \in broken',
         broken \subseteq broken',
         UNCHANGED <<loaded, epoch, ownRun, sent, completed>>
  PROVE  RecordInv'
  <1>0. /\ phase' = [phase EXCEPT ![r] = "answered"]
        /\ answer' = [answer EXCEPT ![r] = a]
        /\ answeredIn' = [answeredIn EXCEPT ![r] = epoch]
    BY DEF Reply
  <1>a. WithEnvelope(completed[Slot(r)]).envelope = completed[Slot(r)]
    BY DEF WithEnvelope
  <1>c. answer'[r] = a /\ \A q \in Requests : q # r => answer'[q] = answer[q]
    BY <1>0 DEF TypeOK
  <1>d. HasEnvelope(r)' => Recorded(r) /\ answer'[r].envelope = completed[Slot(r)]
    BY <1>a, <1>c DEF HasEnvelope
  <1>1. \A q \in Requests : phase'[q] # "answered" => ~HasEnvelope(q)'
    BY <1>0, <1>c DEF TypeOK, HasEnvelope, RecordInv
  <1>2. \A q \in Requests : answeredIn'[q] <= epoch'
    BY <1>0 DEF TypeOK, RecordInv
  <1>3. \A q \in Requests : HasEnvelope(q)' /\ Keyed(q) /\ answeredIn'[q] = epoch' =>
          completed'[Slot(q)] = answer'[q].envelope
    BY <1>0, <1>c, <1>d DEF HasEnvelope, TypeOK, RecordInv
  <1>4. \A q \in Requests : phase'[q] = "running" /\ Keyed(q) => completed'[Slot(q)] = NoEnvelope
    BY <1>0 DEF TypeOK, RecordInv
  <1>5. \A q \in sent' \ broken' :
          phase'[q] = "answered" /\ Keyed(q) /\ answeredIn'[q] = epoch' => Recorded(q)'
    BY <1>0 DEF TypeOK, RecordInv, Recorded, Keyed, Slot
  <1>6. \A q \in Requests : HasEnvelope(q)' => Tells(answer'[q].envelope, q)
    BY <1>c, <1>d DEF HasEnvelope, RecordInv
  <1>7. \A q \in Requests : Recorded(q)' => Tells(completed'[Slot(q)], q)
    BY DEF Recorded, RecordInv, Keyed, Slot
  <1>8. \A q \in Requests : HasEnvelope(q)' => Tells(answer[q].envelope, q)'
    BY <1>6 DEF Tells, SameTransaction, Keyed, Slot
  <1>9. \A q \in Requests : Recorded(q)' => Tells(completed[Slot(q)], q)'
    BY <1>7 DEF Tells, SameTransaction, Keyed, Slot
  <1> QED
    BY <1>1, <1>2, <1>3, <1>4, <1>5, <1>8, <1>9 DEF RecordInv, Keyed, Slot

\* A step that answers nobody and changes neither runs nor what is loaded.
LEMMA QuietStep ==
  ASSUME RecordInv, UNCHANGED <<phase, loaded, completed, answer, epoch, history>>
  PROVE  RecordInv'
  BY DEF RecordInv, history, HasEnvelope, Recorded, Tells, SameTransaction, Keyed, Slot

LEMMA RecordNext == TypeOK /\ RunInv /\ RecordInv /\ [Next]_vars => RecordInv'
  <1> SUFFICES ASSUME TypeOK, RunInv, RecordInv, [Next]_vars  PROVE RecordInv'  OBVIOUS
  <1>0. \A q \in Requests : q \in sent => phase[q] \in {"running", "answered"}
    BY DEF RunInv
  <1>a. \A kind : Error(kind).kind = kind  BY DEF Error
  <1>1. ASSUME NEW r \in Requests, Receive(r)  PROVE RecordInv'
    <2>0. r \notin sent  BY <1>0, <1>1 DEF Receive
    <2>1. CASE files[NameOf[r]].whole
      <3>1. /\ phase' = [phase EXCEPT ![r] = "waiting"]
            /\ loaded' = [loaded EXCEPT ![r] = files[NameOf[r]].artifact]
            /\ phase[r] = "idle"
            /\ UNCHANGED <<answer, answeredIn, completed, epoch, ownRun, sent, broken>>
        BY <1>1, <2>1 DEF Receive
      <3>2. ownRun[r] = 0  BY <3>1 DEF RunInv, TypeOK
      <3>3. ASSUME NEW e, NEW q \in Requests, Tells(e, q)  PROVE Tells(e, q)'
        BY <3>1, <3>2, <3>3 DEF Tells, SameTransaction, Keyed, Slot, TypeOK
      <3>4. \A q \in Requests : phase'[q] = IF q = r THEN "waiting" ELSE phase[q]
        BY <3>1 DEF TypeOK
      <3>5. ~HasEnvelope(r)  BY <3>1 DEF RecordInv
      <3> QED
        BY <2>0, <3>1, <3>3, <3>4, <3>5 DEF RecordInv, HasEnvelope, Recorded, Keyed, Slot, TypeOK
    <2>2. CASE ~files[NameOf[r]].whole
      BY <1>1, <1>a, <2>0, <2>2, ReplyStep DEF Receive
    <2> QED  BY <2>1, <2>2
  <1>2. ASSUME NEW r \in Requests, Replay(r)  PROVE RecordInv'
    <2>1. r \notin sent  BY <1>0, <1>2 DEF Replay, Enters
    <2> QED  BY <1>2, <2>1, ReplyStep DEF Replay
  <1>3. ASSUME NEW r \in Requests, RefuseUnreviewed(r)  PROVE RecordInv'
    <2> DEFINE e == [artifact |-> loaded[r], run |-> runDir', result |-> result']
    <2>1. e \in Envelopes
      BY <1>3 DEF RefuseUnreviewed, ResetRunDir, Envelopes, TypeOK, Results, Engine!Refusals
    <2>2. e.run = 0  BY <1>3 DEF RefuseUnreviewed, ResetRunDir
    <2>3. \A q \in Requests : phase[q] # "running"
      BY <1>3, InvokeAssumption DEF RefuseUnreviewed, Enters, RunInv
    <2>4. Tells(e, r)  BY <2>2 DEF Tells
    <2>5. /\ Conclude(r, e) /\ ~Recorded(r)
          /\ UNCHANGED <<loaded, epoch, ownRun, sent, broken>>
      BY <1>3 DEF RefuseUnreviewed
    <2> HIDE DEF e
    <2> QED  BY <2>1, <2>3, <2>4, <2>5, ConcludeStep
  <1>4. ASSUME NEW r \in Requests, RefuseParameters(r)  PROVE RecordInv'
    <2>1. r \notin sent  BY <1>0, <1>4 DEF RefuseParameters, Enters
    <2> QED  BY <1>4, <1>a, <2>1, ReplyStep DEF RefuseParameters
  <1>5. ASSUME NEW r \in Requests, Execute(r)  PROVE RecordInv'
    <2>1. /\ phase' = [phase EXCEPT ![r] = "running"]
          /\ ownRun' = [ownRun EXCEPT ![r] = runs + 1]
          /\ phase[r] = "waiting" /\ ~Recorded(r)
          /\ UNCHANGED <<loaded, completed, answer, epoch, sent, broken, answeredIn>>
      BY <1>5 DEF Execute, Enters
    <2>2. ownRun[r] = 0  BY <2>1 DEF RunInv, TypeOK
    <2>3. \A q \in Requests : ownRun'[q] = IF q = r THEN runs + 1 ELSE ownRun[q]
      BY <2>1 DEF TypeOK
    <2>4. ASSUME NEW e, NEW q \in Requests, Tells(e, q)  PROVE Tells(e, q)'
      BY <2>1, <2>2, <2>3, <2>4 DEF Tells, SameTransaction, Keyed, Slot
    <2>5. \A q \in Requests : phase'[q] = IF q = r THEN "running" ELSE phase[q]
      BY <2>1 DEF TypeOK
    <2>6. ~HasEnvelope(r)  BY <2>1 DEF RecordInv
    <2> QED
      BY <2>1, <2>4, <2>5, <2>6 DEF RecordInv, HasEnvelope, Recorded, Keyed, Slot, TypeOK
  <1>6. ASSUME NEW r \in Requests, Dispatch(r)  PROVE RecordInv'
    <2>1. /\ phase[r] = "running" /\ sent' = sent \cup {r}
          /\ UNCHANGED <<phase, loaded, completed, answer, epoch, ownRun, broken, answeredIn>>
      BY <1>6 DEF Dispatch
    <2> QED
      BY <2>1 DEF RecordInv, HasEnvelope, Recorded, Tells, SameTransaction, Keyed, Slot
  <1>7. ASSUME NEW r \in Requests, Finish(r)  PROVE RecordInv'
    <2> DEFINE e == [artifact |-> loaded[r], run |-> runDir, result |-> result']
    <2>0. result' \in Results
      BY <1>7 DEF Finish, Engine!Answer, Results, Engine!Definite, Engine!NothingRan
    <2>1. e \in Envelopes  BY <2>0 DEF Envelopes, TypeOK
    <2>2. phase[r] = "running"  BY <1>7 DEF Finish
    <2>3. \A q \in Requests : q # r => phase[q] # "running"  BY <2>2 DEF RunInv
    <2>4. Tells(e, r)  BY <2>2 DEF Tells, RunInv
    <2>5. ~Recorded(r)  BY <2>2 DEF Recorded, RecordInv
    <2>6. Conclude(r, e) /\ UNCHANGED <<loaded, epoch, ownRun, sent, broken>>
      BY <1>7 DEF Finish
    <2> HIDE DEF e
    <2> QED  BY <2>1, <2>3, <2>4, <2>5, <2>6, ConcludeStep
  <1>8. ASSUME NEW r \in Requests, Raise(r)  PROVE RecordInv'
    BY <1>8, <1>a, ReplyStep DEF Raise
  <1>9. CASE Restart
    <2>1. /\ epoch' = epoch + 1
          /\ UNCHANGED <<loaded, ownRun, sent>>
          /\ \A q \in Requests : answeredIn'[q] \in {epoch, answeredIn[q]}
          /\ \A q \in Requests : answer'[q] \in {Error("lost"), answer[q]}
          /\ \A q \in Requests : phase'[q] # "running"
          /\ \A q \in Requests : phase'[q] # "answered" => phase[q] # "answered"
          /\ completed' = [slot \in Names \X Keys |-> NoEnvelope]
      BY <1>9 DEF Restart, TypeOK
    <2>2. \A q \in Requests : answeredIn'[q] <= epoch /\ answeredIn'[q] # epoch'
      BY <2>1, InvokeAssumption DEF RecordInv, TypeOK
    <2>3. \A q \in Requests : HasEnvelope(q)' => HasEnvelope(q) /\ answer'[q] = answer[q]
      BY <1>a, <2>1 DEF HasEnvelope
    <2>4. \A q \in Requests : ~Recorded(q)'
      BY <2>1, SlotFacts DEF Recorded, Keyed, Slot
    <2>5. \A q \in Requests : HasEnvelope(q)' => Tells(answer[q].envelope, q)'
      BY <2>1, <2>3 DEF RecordInv, Tells, SameTransaction, Keyed, Slot
    <2>6. \A q \in Requests : phase'[q] # "answered" => ~HasEnvelope(q)'
      BY <2>1, <2>3 DEF RecordInv
    <2>7. \A q \in Requests : answeredIn'[q] <= epoch'
      BY <2>1, <2>2, InvokeAssumption DEF TypeOK, RecordInv
    <2>8. sent \subseteq Requests  BY DEF TypeOK
    <2> QED  BY <2>1, <2>2, <2>4, <2>5, <2>6, <2>7, <2>8 DEF RecordInv, Keyed, Slot
  <1>10. CASE People
    BY <1>10, QuietStep DEF People
  <1>11. CASE UNCHANGED vars
    BY <1>11, QuietStep DEF vars
  <1> QED
    BY <1>1, <1>2, <1>3, <1>4, <1>5, <1>6, <1>7, <1>8, <1>9, <1>10, <1>11
    DEF Next, Serve, Enter

-----------------------------------------------------------------------------
(* What an envelope says of the consequential request.                     *)

\* An envelope vouches for what a run that is over sent, or refuses.
Vouches(e, ph, own, gone) ==
  \/ e.run = 0 /\ e.result \in Engine!Refusals
  \/ \E q \in Requests :
       /\ ph[q] = "answered"
       /\ own[q] # 0 /\ e.run = own[q]
       /\ e.result = "UNRESOLVED" => q \in gone
       /\ e.result \in Engine!NothingRan => q \notin gone

\* Run directories are never given twice, the engine's flag is about the run that
\* holds the lock, and every envelope vouches for a run that is over.
HonestInv ==
  /\ \A r \in Requests : ownRun[r] <= runs
  /\ \A q, r \in Requests : ownRun[q] # 0 /\ ownRun[q] = ownRun[r] => q = r
  /\ holder # Free => (dispatched <=> holder \in sent)
  /\ \A r \in Requests : HasEnvelope(r) => Vouches(answer[r].envelope, phase, ownRun, sent)
  /\ \A r \in Requests : Recorded(r) => Vouches(completed[Slot(r)], phase, ownRun, sent)
  /\ \A r \in Requests : HasEnvelope(r) /\ ownRun[r] # 0 => answer[r].envelope.run = ownRun[r]

LEMMA HonestInit == Init => HonestInv
  <1> SUFFICES ASSUME Init  PROVE HonestInv  OBVIOUS
  <1>1. \A r \in Requests : ~HasEnvelope(r) /\ ~Recorded(r)  BY NothingAtFirst
  <1>2. holder = Free /\ \A r \in Requests : ownRun[r] = 0 /\ ownRun[r] <= runs  BY DEF Init
  <1> QED  BY <1>1, <1>2 DEF HonestInv

\* What is over stays as it was.
LEMMA VouchesStays ==
  ASSUME NEW e, NEW ph, NEW own, NEW gone, NEW ph2, NEW own2, NEW gone2,
         Vouches(e, ph, own, gone),
         \A q \in Requests : ph[q] = "answered" =>
           ph2[q] = "answered" /\ own2[q] = own[q] /\ (q \in gone2 <=> q \in gone)
  PROVE  Vouches(e, ph2, own2, gone2)
  BY DEF Vouches

\* A step that makes no envelope and no run.
LEMMA HonestQuiet ==
  ASSUME HonestInv, UNCHANGED <<ownRun, runs, sent>>,
         holder' = Free \/ UNCHANGED <<holder, dispatched>>,
         \A q \in Requests : phase[q] = "answered" => phase'[q] = "answered",
         \A q \in Requests : HasEnvelope(q)' => HasEnvelope(q) /\ answer'[q] = answer[q],
         \A q \in Requests : Recorded(q)' => Recorded(q) /\ completed'[Slot(q)] = completed[Slot(q)]
  PROVE  HonestInv'
  <1>1. ASSUME NEW q \in Requests, HasEnvelope(q)'
        PROVE  Vouches(answer'[q].envelope, phase', ownRun', sent')
    <2>1. Vouches(answer[q].envelope, phase, ownRun, sent)  BY <1>1 DEF HonestInv
    <2>2. answer'[q] = answer[q]  BY <1>1
    <2> QED  BY <2>1, <2>2, VouchesStays
  <1>2. ASSUME NEW q \in Requests, Recorded(q)'
        PROVE  Vouches(completed'[Slot(q)], phase', ownRun', sent')
    <2>1. Vouches(completed[Slot(q)], phase, ownRun, sent)  BY <1>2 DEF HonestInv
    <2>2. completed'[Slot(q)] = completed[Slot(q)]  BY <1>2
    <2> QED  BY <2>1, <2>2, VouchesStays
  <1> QED  BY <1>1, <1>2 DEF HonestInv, Slot

\* A request that had no run is answered, with an envelope that vouches or with none.
LEMMA HonestReply ==
  ASSUME TypeOK, HonestInv, NEW r \in Requests, NEW a, Reply(r, a),
         phase[r] # "answered", ownRun[r] = 0,
         a.kind = "envelope" => Vouches(a.envelope, phase, ownRun, sent),
         holder = Free, holder' = Free,
         UNCHANGED <<completed, ownRun, runs, sent>>
  PROVE  HonestInv'
  <1>1. /\ phase' = [phase EXCEPT ![r] = "answered"]
        /\ answer' = [answer EXCEPT ![r] = a]
    BY DEF Reply
  <1>2. \A e : Vouches(e, phase, ownRun, sent) => Vouches(e, phase', ownRun', sent')
    <2>1. \A q \in Requests : phase[q] = "answered" => phase'[q] = "answered"
      BY <1>1 DEF TypeOK
    <2> QED  BY <2>1, VouchesStays
  <1>3. answer'[r] = a /\ \A q \in Requests : q # r => answer'[q] = answer[q]
    BY <1>1 DEF TypeOK
  <1>4. ASSUME NEW q \in Requests, HasEnvelope(q)'
        PROVE  Vouches(answer'[q].envelope, phase', ownRun', sent')
    <2>1. CASE q = r  BY <1>2, <1>3, <1>4, <2>1 DEF HasEnvelope
    <2>2. CASE q # r
      <3>1. HasEnvelope(q) /\ answer'[q] = answer[q]  BY <1>3, <1>4, <2>2 DEF HasEnvelope
      <3> QED  BY <1>2, <3>1 DEF HonestInv
    <2> QED  BY <2>1, <2>2
  <1>5. ASSUME NEW q \in Requests, Recorded(q)'
        PROVE  Vouches(completed'[Slot(q)], phase', ownRun', sent')
    <2>1. Recorded(q)  BY <1>5 DEF Recorded, Keyed, Slot
    <2> QED  BY <1>2, <2>1 DEF HonestInv
  <1>6. \A q \in Requests : HasEnvelope(q)' /\ ownRun'[q] # 0 => answer'[q].envelope.run = ownRun'[q]
    BY <1>3 DEF HonestInv, HasEnvelope
  <1> QED  BY <1>4, <1>5, <1>6 DEF HonestInv, Slot

\* The answer and the record of a request that had the lock: the envelope vouches
\* for the run that ends with it, or refuses.
LEMMA HonestConclude ==
  ASSUME TypeOK, HonestInv, NEW r \in Requests, NEW e, Conclude(r, e),
         phase[r] # "answered", e.run = ownRun[r],
         Vouches(e, phase', ownRun, sent),
         holder' = Free, UNCHANGED <<ownRun, runs, sent>>
  PROVE  HonestInv'
  <1>1. /\ phase' = [phase EXCEPT ![r] = "answered"]
        /\ answer' = [answer EXCEPT ![r] = WithEnvelope(e)]
        /\ completed' = IF Keyed(r) THEN [completed EXCEPT ![Slot(r)] = e] ELSE completed
    BY DEF Conclude, Reply, Record
  <1>2. \A f : Vouches(f, phase, ownRun, sent) => Vouches(f, phase', ownRun', sent')
    <2>1. \A q \in Requests : phase[q] = "answered" => phase'[q] = "answered"
      BY <1>1 DEF TypeOK
    <2> QED  BY <2>1, VouchesStays
  <1>3. /\ answer'[r].envelope = e
        /\ \A q \in Requests : q # r => answer'[q] = answer[q]
    BY <1>1 DEF TypeOK, WithEnvelope
  <1>4. \A q \in Requests : Keyed(q) =>
          completed'[Slot(q)] = IF Keyed(r) /\ Slot(q) = Slot(r) THEN e ELSE completed[Slot(q)]
    BY <1>1, SlotFacts DEF TypeOK
  <1>5. ASSUME NEW q \in Requests, HasEnvelope(q)'
        PROVE  Vouches(answer'[q].envelope, phase', ownRun', sent')
    <2>1. CASE q = r  BY <1>3, <2>1
    <2>2. CASE q # r
      <3>1. HasEnvelope(q) /\ answer'[q] = answer[q]  BY <1>3, <1>5, <2>2 DEF HasEnvelope
      <3> QED  BY <1>2, <3>1 DEF HonestInv
    <2> QED  BY <2>1, <2>2
  <1>6. ASSUME NEW q \in Requests, Recorded(q)'
        PROVE  Vouches(completed'[Slot(q)], phase', ownRun', sent')
    <2>1. Keyed(q)  BY <1>6 DEF Recorded, Keyed
    <2>2. CASE Keyed(r) /\ Slot(q) = Slot(r)
      BY <1>4, <2>1, <2>2
    <2>3. CASE ~(Keyed(r) /\ Slot(q) = Slot(r))
      <3>1. completed'[Slot(q)] = completed[Slot(q)]  BY <1>4, <2>1, <2>3
      <3>2. Recorded(q)  BY <1>6, <3>1 DEF Recorded, Keyed, Slot
      <3> QED  BY <1>2, <3>1, <3>2 DEF HonestInv
    <2> QED  BY <2>2, <2>3
  <1>7. \A q \in Requests : HasEnvelope(q)' /\ ownRun'[q] # 0 => answer'[q].envelope.run = ownRun'[q]
    BY <1>3 DEF HonestInv, HasEnvelope
  <1> QED  BY <1>5, <1>6, <1>7 DEF HonestInv, Slot

LEMMA HonestNext == TypeOK /\ RunInv /\ RecordInv /\ HonestInv /\ [Next]_vars => HonestInv'
  <1> SUFFICES ASSUME TypeOK, RunInv, RecordInv, HonestInv, [Next]_vars  PROVE HonestInv'
    OBVIOUS
  <1>a. \A kind : Error(kind).kind = kind  BY DEF Error
  <1>b. \A r \in Requests : phase[r] \notin {"running", "answered"} => ownRun[r] = 0 /\ r \notin sent
    BY DEF RunInv
  <1>1. ASSUME NEW r \in Requests, Receive(r)  PROVE HonestInv'
    <2>1. /\ UNCHANGED <<completed, holder, dispatched, ownRun, runs, sent>>
          /\ phase'[r] # "idle" /\ \A q \in Requests : q # r => phase'[q] = phase[q]
          /\ phase[r] = "idle"
          /\ answer'[r] = answer[r] \/ answer'[r].kind # "envelope"
          /\ \A q \in Requests : q # r => answer'[q] = answer[q]
      BY <1>1, <1>a DEF Receive, Reply, engine, TypeOK
    <2> QED  BY <2>1, HonestQuiet DEF HasEnvelope, Recorded, Keyed, Slot
  <1>2. ASSUME NEW r \in Requests, Replay(r)  PROVE HonestInv'
    <2>1. /\ Reply(r, WithEnvelope(completed[Slot(r)])) /\ Recorded(r)
          /\ phase[r] = "waiting" /\ holder = Free
          /\ UNCHANGED <<completed, holder, ownRun, runs, sent>>
      BY <1>2 DEF Replay, Enters, engine
    <2>2. Vouches(completed[Slot(r)], phase, ownRun, sent)  BY <2>1 DEF HonestInv
    <2>3. WithEnvelope(completed[Slot(r)]).envelope = completed[Slot(r)]  BY DEF WithEnvelope
    <2> QED  BY <1>b, <2>1, <2>2, <2>3, HonestReply
  <1>3. ASSUME NEW r \in Requests, RefuseUnreviewed(r)  PROVE HonestInv'
    <2> DEFINE e == [artifact |-> loaded[r], run |-> runDir', result |-> result']
    <2>1. /\ Conclude(r, e) /\ phase[r] = "waiting" /\ holder = Free /\ holder' = Free
          /\ UNCHANGED <<ownRun, runs, sent>>
      BY <1>3 DEF RefuseUnreviewed, Enters
    <2>2. e.run = 0 /\ e.result \in Engine!Refusals
      BY <1>3 DEF RefuseUnreviewed, ResetRunDir, Engine!Refusals
    <2>3. Vouches(e, phase', ownRun, sent)  BY <2>2 DEF Vouches
    <2>4. e.run = ownRun[r]  BY <1>b, <2>1, <2>2
    <2> HIDE DEF e
    <2> QED  BY <2>1, <2>3, <2>4, HonestConclude
  <1>4. ASSUME NEW r \in Requests, RefuseParameters(r)  PROVE HonestInv'
    <2>1. /\ Reply(r, Error("invalid")) /\ phase[r] = "waiting" /\ holder = Free
          /\ UNCHANGED <<completed, holder, ownRun, runs, sent>>
      BY <1>4 DEF RefuseParameters, Enters
    <2> QED  BY <1>a, <1>b, <2>1, HonestReply
  <1>5. ASSUME NEW r \in Requests, Execute(r)  PROVE HonestInv'
    <2>1. /\ phase' = [phase EXCEPT ![r] = "running"]
          /\ ownRun' = [ownRun EXCEPT ![r] = runs + 1]
          /\ runs' = runs + 1 /\ holder' = r
          /\ dispatched' = FALSE /\ phase[r] = "waiting"
          /\ UNCHANGED <<completed, answer, sent>>
      BY <1>5 DEF Execute, Enters, Engine!Accept
    <2>2. r \notin sent /\ ~HasEnvelope(r)  BY <1>b, <2>1 DEF RecordInv
    <2>3. \A q \in Requests : ownRun'[q] = IF q = r THEN runs + 1 ELSE ownRun[q]
      BY <2>1 DEF TypeOK
    <2>4. \A q \in Requests : phase[q] = "answered" =>
            phase'[q] = "answered" /\ ownRun'[q] = ownRun[q] /\ (q \in sent' <=> q \in sent)
      BY <2>1, <2>3 DEF TypeOK
    <2>5. \A e : Vouches(e, phase, ownRun, sent) => Vouches(e, phase', ownRun', sent')
      BY <2>4, VouchesStays
    <2>6. \A q \in Requests : ownRun[q] \in Nat /\ runs \in Nat /\ ownRun[q] <= runs
      BY DEF TypeOK, HonestInv
    <2>7. \A q \in Requests : HasEnvelope(q)' => HasEnvelope(q) /\ q # r /\ answer'[q] = answer[q]
      BY <2>1, <2>2 DEF HasEnvelope
    <2>8. \A q \in Requests : Recorded(q)' => Recorded(q) /\ completed'[Slot(q)] = completed[Slot(q)]
      BY <2>1 DEF Recorded, Keyed, Slot
    <2>9. /\ \A q \in Requests : ownRun'[q] <= runs'
          /\ \A p, q \in Requests : ownRun'[p] # 0 /\ ownRun'[p] = ownRun'[q] => p = q
      BY <2>1, <2>3, <2>6 DEF HonestInv
    <2>10. \A q \in Requests : HasEnvelope(q)' =>
             Vouches(answer'[q].envelope, phase', ownRun', sent')
      BY <2>5, <2>7 DEF HonestInv
    <2>11. \A q \in Requests : Recorded(q)' =>
             Vouches(completed'[Slot(q)], phase', ownRun', sent')
      BY <2>5, <2>8 DEF HonestInv
    <2>12. \A q \in Requests : HasEnvelope(q)' /\ ownRun'[q] # 0 =>
             answer'[q].envelope.run = ownRun'[q]
      BY <2>3, <2>7 DEF HonestInv
    <2>13. dispatched' <=> holder' \in sent'  BY <2>1, <2>2
    <2> QED  BY <2>9, <2>10, <2>11, <2>12, <2>13 DEF HonestInv, Slot
  <1>6. ASSUME NEW r \in Requests, Dispatch(r)  PROVE HonestInv'
    <2>1. /\ phase[r] = "running" /\ sent' = sent \cup {r} /\ dispatched' = TRUE
          /\ UNCHANGED <<phase, holder, completed, answer, ownRun, runs>>
      BY <1>6 DEF Dispatch, Engine!Dispatch
    <2>2. holder = r  BY <2>1 DEF RunInv
    <2>3. \A e : Vouches(e, phase, ownRun, sent) => Vouches(e, phase', ownRun', sent')
      BY <2>1, VouchesStays
    <2>4. \A q \in Requests : HasEnvelope(q)' =>
            Vouches(answer'[q].envelope, phase', ownRun', sent')
      BY <2>1, <2>3 DEF HonestInv, HasEnvelope
    <2>5. \A q \in Requests : Recorded(q)' =>
            Vouches(completed'[Slot(q)], phase', ownRun', sent')
      BY <2>1, <2>3 DEF HonestInv, Recorded, Keyed, Slot
    <2> QED  BY <2>1, <2>2, <2>4, <2>5 DEF HonestInv, HasEnvelope, Slot
  <1>7. ASSUME NEW r \in Requests, Finish(r)  PROVE HonestInv'
    <2> DEFINE e == [artifact |-> loaded[r], run |-> runDir, result |-> result']
    <2>1. /\ Conclude(r, e) /\ phase[r] = "running" /\ holder' = Free
          /\ UNCHANGED <<dispatched, ownRun, runs, sent>>
      BY <1>7 DEF Finish, Leave
    <2>2. holder = r /\ ownRun[r] = runDir /\ runDir # 0  BY <2>1 DEF RunInv
    <2>3. dispatched <=> r \in sent  BY <2>2, InvokeAssumption DEF HonestInv
    <2>4. result' \in Engine!Definite \cup (IF dispatched THEN {"UNRESOLVED"} ELSE Engine!NothingRan)
      BY <1>7, <2>1 DEF Finish, Engine!Answer
    <2>5. /\ result' = "UNRESOLVED" => r \in sent
          /\ result' \in Engine!NothingRan => r \notin sent
      BY <2>3, <2>4 DEF Engine!Definite, Engine!NothingRan
    <2>6. phase'[r] = "answered"  BY <2>1 DEF Conclude, Reply, TypeOK
    <2>7. e.run = ownRun[r] /\ e.result = result'  BY <2>2
    <2> HIDE DEF e
    <2>8. Vouches(e, phase', ownRun, sent)  BY <2>2, <2>5, <2>6, <2>7 DEF Vouches
    <2> QED  BY <2>1, <2>7, <2>8, HonestConclude
  <1>8. ASSUME NEW r \in Requests, Raise(r)  PROVE HonestInv'
    <2>1. /\ UNCHANGED <<completed, ownRun, runs, sent>> /\ holder' = Free
          /\ phase' = [phase EXCEPT ![r] = "answered"]
          /\ answer' = [answer EXCEPT ![r] = Error("fault")]
      BY <1>8 DEF Raise, Leave, Reply, engine
    <2>2. \A q \in Requests : phase[q] = "answered" => phase'[q] = "answered"
      BY <2>1 DEF TypeOK
    <2>3. \A q \in Requests : HasEnvelope(q)' => HasEnvelope(q) /\ answer'[q] = answer[q]
      BY <1>a, <2>1 DEF HasEnvelope, TypeOK
    <2> QED  BY <2>1, <2>2, <2>3, HonestQuiet DEF Recorded, Keyed, Slot
  <1>9. CASE Restart
    <2>1. /\ UNCHANGED <<ownRun, runs, sent>> /\ holder' = Free
          /\ \A q \in Requests : answer'[q] \in {Error("lost"), answer[q]}
          /\ \A q \in Requests : phase[q] = "answered" => phase'[q] = "answered"
          /\ completed' = [slot \in Names \X Keys |-> NoEnvelope]
      BY <1>9 DEF Restart, TypeOK
    <2>2. \A q \in Requests : HasEnvelope(q)' => HasEnvelope(q) /\ answer'[q] = answer[q]
      BY <1>a, <2>1 DEF HasEnvelope
    <2>3. \A q \in Requests : ~Recorded(q)'
      BY <2>1, SlotFacts DEF Recorded, Keyed, Slot
    <2> QED  BY <2>1, <2>2, <2>3, HonestQuiet
  <1>10. CASE People
    BY <1>10, HonestQuiet DEF People, engine, history, HasEnvelope, Recorded, Keyed, Slot
  <1>11. CASE UNCHANGED vars
    BY <1>11, HonestQuiet DEF vars, engine, history, HasEnvelope, Recorded, Keyed, Slot
  <1> QED
    BY <1>1, <1>2, <1>3, <1>4, <1>5, <1>6, <1>7, <1>8, <1>9, <1>10, <1>11
    DEF Next, Serve, Enter

\* For any requests, restarts, writers and exceptions: an envelope names the run and
\* the contract of its own transaction and tells truly whether its consequential
\* request left, also when it is served from the record (api.py:182-217).
THEOREM EnvelopesTellTheirRun == Spec => []EnvelopeIsItsRun
  <1>1. RecordInv /\ HonestInv => EnvelopeIsItsRun
    <2> SUFFICES ASSUME RecordInv, HonestInv, NEW r \in Requests, HasEnvelope(r)
                 PROVE  LET e == answer[r].envelope IN
                        /\ ownRun[r] # 0 => e.run = ownRun[r]
                        /\ \/ e.run = 0 /\ e.result \in Engine!Refusals
                           \/ \E q \in Requests :
                                /\ q = r \/ SameTransaction(q, r)
                                /\ ownRun[q] # 0 /\ e.run = ownRun[q] /\ e.artifact = loaded[q]
                                /\ e.result = "UNRESOLVED" => q \in sent
                                /\ e.result \in Engine!NothingRan => q \notin sent
      BY DEF EnvelopeIsItsRun
    <2> DEFINE e == answer[r].envelope
    <2>1. Tells(e, r) /\ Vouches(e, phase, ownRun, sent)  BY DEF RecordInv, HonestInv
    <2>2. ownRun[r] # 0 => e.run = ownRun[r]  BY DEF HonestInv
    <2>3. ASSUME NEW q \in Requests, ownRun[q] # 0, e.run = ownRun[q]
          PROVE  (q = r \/ SameTransaction(q, r)) /\ e.artifact = loaded[q]
      BY <2>1, <2>3 DEF Tells, HonestInv
    <2> HIDE DEF e
    <2>4. \/ e.run = 0 /\ e.result \in Engine!Refusals
          \/ \E q \in Requests :
               /\ q = r \/ SameTransaction(q, r)
               /\ ownRun[q] # 0 /\ e.run = ownRun[q] /\ e.artifact = loaded[q]
               /\ e.result = "UNRESOLVED" => q \in sent
               /\ e.result \in Engine!NothingRan => q \notin sent
      BY <2>1, <2>3 DEF Vouches
    <2> QED  BY <2>2, <2>4 DEF e
  <1> QED
    BY <1>1, TypeInit, TypeNext, RunInit, RunNext, RecordNext, HonestInit, HonestNext, PTL DEF Spec

\* Where a request that was sent ran is settled when it starts.
LEMMA RanInStays ==
  ASSUME TypeOK, RunInv, [Next]_vars, NEW q \in sent
  PROVE  RanIn(q)' = RanIn(q) /\ broken \subseteq broken'
  <1>0. q \in Requests /\ phase[q] \in {"running", "answered"}
    BY DEF TypeOK, RunInv
  <1> USE DEF RanIn
  <1>1. ASSUME NEW r \in Requests, Receive(r)  PROVE RanIn(q)' = RanIn(q) /\ broken \subseteq broken'
    BY <1>0, <1>1 DEF Receive, Reply, TypeOK
  <1>2. ASSUME NEW r \in Requests, Replay(r)  PROVE RanIn(q)' = RanIn(q) /\ broken \subseteq broken'
    BY <1>0, <1>2 DEF Replay, Enters, Reply, TypeOK
  <1>3. ASSUME NEW r \in Requests, RefuseUnreviewed(r)
        PROVE  RanIn(q)' = RanIn(q) /\ broken \subseteq broken'
    BY <1>0, <1>3 DEF RefuseUnreviewed, Enters, Conclude, Reply, TypeOK
  <1>4. ASSUME NEW r \in Requests, RefuseParameters(r)
        PROVE  RanIn(q)' = RanIn(q) /\ broken \subseteq broken'
    BY <1>0, <1>4 DEF RefuseParameters, Enters, Reply, TypeOK
  <1>5. ASSUME NEW r \in Requests, Execute(r)  PROVE RanIn(q)' = RanIn(q) /\ broken \subseteq broken'
    BY <1>0, <1>5 DEF Execute, Enters, TypeOK
  <1>6. ASSUME NEW r \in Requests, Dispatch(r)  PROVE RanIn(q)' = RanIn(q) /\ broken \subseteq broken'
    BY <1>0, <1>6 DEF Dispatch, TypeOK
  <1>7. ASSUME NEW r \in Requests, Finish(r)  PROVE RanIn(q)' = RanIn(q) /\ broken \subseteq broken'
    BY <1>0, <1>7 DEF Finish, Conclude, Reply, TypeOK
  <1>8. ASSUME NEW r \in Requests, Raise(r)  PROVE RanIn(q)' = RanIn(q) /\ broken \subseteq broken'
    BY <1>0, <1>8 DEF Raise, Reply, TypeOK
  <1>9. CASE Restart
    BY <1>0, <1>9 DEF Restart, TypeOK
  <1>10. CASE People
    BY <1>10 DEF People, history
  <1>11. CASE UNCHANGED vars
    BY <1>11 DEF vars, history
  <1> QED
    BY <1>1, <1>2, <1>3, <1>4, <1>5, <1>6, <1>7, <1>8, <1>9, <1>10, <1>11
    DEF Next, Serve, Enter

LEMMA SentStays ==
  ASSUME [Next]_vars
  PROVE  sent' = sent \/ \E r \in Requests : Dispatch(r)
  BY DEF Next, Serve, Enter, Receive, Replay, RefuseUnreviewed, RefuseParameters, Execute,
         Finish, Raise, Restart, People, vars, history

\* A transaction dispatches again in one life of the process only where its run of
\* before ended there without a result.
LEMMA SecondDispatch ==
  ASSUME TypeOK, RunInv, RecordInv, NEW r \in Requests, Dispatch(r),
         NEW s \in sent, s # r, SameTransaction(s, r) \/ SameTransaction(r, s), RanIn(s) = epoch
  PROVE  s \in broken /\ answeredIn[s] = epoch
  <1>1. s \in Requests /\ Slot(s) = Slot(r) /\ Keyed(s) /\ Keyed(r)
    BY SlotFacts DEF TypeOK, SameTransaction
  <1>2. phase[r] = "running"  BY DEF Dispatch
  <1>3. phase[s] = "answered"  BY <1>1, <1>2 DEF RunInv
  <1>4. answeredIn[s] = epoch  BY <1>3 DEF RanIn
  <1>5. completed[Slot(s)] = NoEnvelope  BY <1>1, <1>2 DEF RecordInv
  <1> QED  BY <1>1, <1>3, <1>4, <1>5 DEF RecordInv, Recorded

LEMMA OnceNext ==
  TypeOK /\ RunInv /\ RecordInv /\ OncePerKey /\ [Next]_vars => OncePerKey'
  <1> SUFFICES ASSUME TypeOK, RunInv, RecordInv, OncePerKey, [Next]_vars,
                      NEW p \in sent', NEW q \in sent', p # q, SameTransaction(p, q),
                      RanIn(p)' = RanIn(q)'
               PROVE  {p, q} \cap broken' # {}
    BY DEF OncePerKey, SameTransaction, Keyed, Slot
  <1>1. CASE p \in sent /\ q \in sent
    BY <1>1, RanInStays DEF OncePerKey
  <1>3. CASE ~(p \in sent /\ q \in sent)
    <2>1. PICK r \in Requests : Dispatch(r)  BY <1>3, SentStays
    <2>2. /\ sent' = sent \cup {r} /\ broken' = broken
          /\ UNCHANGED <<phase, epoch, answeredIn>> /\ phase[r] = "running"
      BY <2>1 DEF Dispatch
    <2>3. RanIn(r)' = epoch  BY <2>2 DEF RanIn
    <2>4. CASE p = r
      <3>1. q \in sent  BY <2>2, <2>4
      <3>2. RanIn(q) = epoch  BY <2>3, <2>4, <3>1, RanInStays
      <3> QED  BY <2>1, <2>2, <2>4, <3>1, <3>2, SecondDispatch
    <2>5. CASE p # r
      <3>1. q = r /\ p \in sent  BY <1>3, <2>2, <2>5
      <3>2. RanIn(p) = epoch  BY <2>3, <3>1, RanInStays
      <3> QED  BY <2>1, <2>2, <3>1, <3>2, SecondDispatch
    <2> QED  BY <2>4, <2>5
  <1> QED  BY <1>1, <1>3

\* One capability and key, one execution in a life of the process, but for runs
\* that end in an exception (api.py:182-191); for any number of retries.
THEOREM KeyedRequestsRunOnce == Spec => []OncePerKey
  <1>1. Init => OncePerKey  BY DEF Init, OncePerKey
  <1> QED
    BY <1>1, TypeInit, TypeNext, RunInit, RunNext, RecordNext, OnceNext, PTL DEF Spec, RecordInv

\* Without exceptions, only the end of a life of the process leaves a run without a
\* result.
CutInv == \A r \in broken : phase[r] = "answered" /\ answeredIn[r] < epoch

LEMMA CutNext ==
  ASSUME ~Faulty
  PROVE  TypeOK /\ RunInv /\ CutInv /\ [Next]_vars => CutInv'
  <1> SUFFICES ASSUME TypeOK, RunInv, CutInv, [Next]_vars  PROVE CutInv'  OBVIOUS
  <1>0. broken \subseteq Requests /\ epoch \in Nat
    BY InvokeAssumption DEF TypeOK
  <1>1. ASSUME NEW r \in Requests, NEW a, Reply(r, a), phase[r] # "answered",
               UNCHANGED <<epoch, broken>>
        PROVE  CutInv'
    BY <1>0, <1>1 DEF Reply, CutInv, TypeOK
  <1>2. ASSUME UNCHANGED <<answeredIn, epoch, broken>>,
               \A q \in Requests : phase[q] = "answered" => phase'[q] = "answered"
        PROVE  CutInv'
    BY <1>0, <1>2 DEF CutInv
  <1>3. ASSUME NEW r \in Requests, Receive(r)  PROVE CutInv'
    <2>1. CASE files[NameOf[r]].whole
      BY <1>2, <1>3, <2>1 DEF Receive, TypeOK
    <2>2. CASE ~files[NameOf[r]].whole
      BY <1>1, <1>3, <2>2 DEF Receive
    <2> QED  BY <2>1, <2>2
  <1>4. ASSUME NEW r \in Requests, Replay(r) \/ RefuseUnreviewed(r) \/ RefuseParameters(r)
        PROVE  CutInv'
    BY <1>1, <1>4 DEF Replay, RefuseUnreviewed, RefuseParameters, Enters, Conclude
  <1>5. ASSUME NEW r \in Requests, Execute(r) \/ Dispatch(r)  PROVE CutInv'
    BY <1>2, <1>5 DEF Execute, Enters, Dispatch, TypeOK
  <1>6. ASSUME NEW r \in Requests, Finish(r)  PROVE CutInv'
    BY <1>1, <1>6 DEF Finish, Conclude
  <1>7. ASSUME NEW r \in Requests, Raise(r)  PROVE CutInv'
    BY <1>7 DEF Raise
  <1>8. CASE Restart
    <2>1. /\ epoch' = epoch + 1
          /\ broken' = broken \cup {r \in Requests : phase[r] = "running"}
          /\ \A r \in Requests : phase[r] = "running" =>
               phase'[r] = "answered" /\ answeredIn'[r] = epoch
          /\ \A r \in Requests : phase[r] = "answered" =>
               phase'[r] = "answered" /\ answeredIn'[r] = answeredIn[r]
      BY <1>8 DEF Restart, TypeOK
    <2>2. \A r \in broken : answeredIn[r] \in Nat  BY <1>0, InvokeAssumption DEF TypeOK
    <2> QED  BY <1>0, <2>1, <2>2 DEF CutInv
  <1>9. CASE People
    BY <1>2, <1>9 DEF People, history
  <1>10. CASE UNCHANGED vars
    BY <1>2, <1>10 DEF vars, history
  <1> QED
    BY <1>3, <1>4, <1>5, <1>6, <1>7, <1>8, <1>9, <1>10 DEF Next, Serve, Enter

\* "a transfer cannot be posted twice by a nervous retry" (api.py:156-157) in any one
\* life of the process, for any number of retries, restarts and changes of the file,
\* of an engine that returns once it began: exceptions are all that refutes it.
THEOREM ReturningEngineNeverPostsTwice == ASSUME ~Faulty PROVE Spec => []NeverPostedTwice
  <1>1. Init => CutInv /\ NeverPostedTwice  BY DEF Init, CutInv, NeverPostedTwice
  <1>2. TypeOK /\ RunInv /\ RecordInv /\ CutInv /\ NeverPostedTwice /\ [Next]_vars
          => NeverPostedTwice'
    <2> SUFFICES ASSUME TypeOK, RunInv, RecordInv, CutInv, NeverPostedTwice, [Next]_vars,
                        NEW p \in sent', NEW q \in sent', p # q, SameTransaction(p, q),
                        RanIn(p)' = RanIn(q)'
                 PROVE  FALSE
      BY DEF NeverPostedTwice, SameTransaction, Keyed, Slot
    <2>1. CASE p \in sent /\ q \in sent
      BY <2>1, RanInStays DEF NeverPostedTwice
    <2>2. CASE ~(p \in sent /\ q \in sent)
      <3>1. PICK r \in Requests : Dispatch(r)  BY <2>2, SentStays
      <3>2. sent' = sent \cup {r} /\ UNCHANGED <<phase, epoch, answeredIn>> /\ phase[r] = "running"
        BY <3>1 DEF Dispatch
      <3>3. RanIn(r)' = epoch  BY <3>2 DEF RanIn
      <3>4. PICK s \in sent : /\ s # r /\ RanIn(s)' = epoch
                              /\ SameTransaction(s, r) \/ SameTransaction(r, s)
        BY <2>2, <3>2, <3>3
      <3>5. RanIn(s) = epoch  BY <3>4, RanInStays
      <3>6. s \in broken /\ answeredIn[s] = epoch  BY <3>1, <3>4, <3>5, SecondDispatch
      <3>7. epoch \in Nat  BY InvokeAssumption DEF TypeOK
      <3> QED  BY <3>6, <3>7 DEF CutInv
    <2> QED  BY <2>1, <2>2
  <1> QED
    BY <1>1, <1>2, TypeInit, TypeNext, RunInit, RunNext, RecordNext, CutNext, PTL DEF Spec

\* An answer of an earlier life of the process stays.
LEMMA OldAnswersStay ==
  ASSUME TypeOK, RecordInv, [Next]_vars, NEW q \in Requests, HasEnvelope(q)',
         answeredIn'[q] # epoch'
  PROVE  answer'[q] = answer[q] /\ answeredIn'[q] = answeredIn[q]
  <1>0. \A kind : Error(kind).kind = kind  BY DEF Error
  <1>1. ASSUME NEW r \in Requests, NEW a, Reply(r, a), epoch' = epoch
        PROVE  answer'[q] = answer[q] /\ answeredIn'[q] = answeredIn[q]
    BY <1>1 DEF Reply, TypeOK
  <1>2. ASSUME NEW r \in Requests, Serve(r)
        PROVE  \/ answer' = answer /\ answeredIn' = answeredIn
               \/ epoch' = epoch /\ \E a : Reply(r, a)
    BY <1>2 DEF Serve, Enter, Receive, Replay, RefuseUnreviewed, RefuseParameters, Execute,
                Dispatch, Finish, Raise, Conclude
  <1>3. CASE Restart
    BY <1>0, <1>3 DEF Restart, TypeOK, HasEnvelope
  <1>4. CASE People \/ UNCHANGED vars
    BY <1>4 DEF People, vars, history
  <1> QED  BY <1>1, <1>2, <1>3, <1>4 DEF Next

LEMMA DuplicateNext ==
  /\ TypeOK /\ TypeOK' /\ RecordInv /\ RecordInv' /\ DuplicateGetsOriginal
  /\ [Next]_vars
  => DuplicateGetsOriginal'
  <1> SUFFICES ASSUME TypeOK, TypeOK', RecordInv, RecordInv', DuplicateGetsOriginal, [Next]_vars,
                      NEW p \in Requests, NEW q \in Requests, SameTransaction(p, q),
                      HasEnvelope(p)', HasEnvelope(q)', answeredIn'[p] = answeredIn'[q]
               PROVE  answer'[p] = answer'[q]
    BY DEF DuplicateGetsOriginal, SameTransaction, Keyed, Slot
  <1>1. CASE answeredIn'[p] = epoch'
    <2>1. Keyed(p) /\ Keyed(q) /\ Slot(p) = Slot(q)
      BY SlotFacts DEF SameTransaction
    <2>2. answer'[p].envelope = answer'[q].envelope
      BY <1>1, <2>1 DEF RecordInv, Keyed, Slot
    <2>3. answer'[p].kind = "envelope" /\ answer'[q].kind = "envelope"
      BY DEF HasEnvelope
    <2>4. answer'[p] \in Answers /\ answer'[q] \in Answers  BY DEF TypeOK
    <2> QED  BY <2>2, <2>3, <2>4 DEF Answers
  <1>2. CASE answeredIn'[p] # epoch'
    <2>1. /\ answer'[p] = answer[p] /\ answeredIn'[p] = answeredIn[p]
          /\ answer'[q] = answer[q] /\ answeredIn'[q] = answeredIn[q]
      BY <1>2, OldAnswersStay
    <2> QED  BY <2>1 DEF HasEnvelope, DuplicateGetsOriginal
  <1> QED  BY <1>1, <1>2

\* The requests of one transaction get one envelope in a life of the process
\* (api.py:192-194), for any number of them and of changes to the file.
THEOREM DuplicatesGetTheOriginal == Spec => []DuplicateGetsOriginal
  <1>1. Init => DuplicateGetsOriginal
    BY DEF Init, DuplicateGetsOriginal, HasEnvelope, NoAnswer, Error
  <1> QED
    BY <1>1, TypeInit, TypeNext, RunInit, RunNext, RecordNext, DuplicateNext, PTL DEF Spec
=============================================================================
