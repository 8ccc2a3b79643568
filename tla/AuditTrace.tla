----------------------------- MODULE AuditTrace -----------------------------
(***************************************************************************)
(* The audit log of one run (trace.py): the Trace that writes it, may be   *)
(* interrupted, may crash, may reopen it and seals it; hands that change   *)
(* the files afterwards; and `hands explain` (cli.py) and the dashboard    *)
(* (app.py), which read log and seal in several reads, also while the run  *)
(* is still writing.                                                       *)
(***************************************************************************)
EXTENDS Integers, Sequences, FiniteSets

CONSTANTS
  Events,        \* what records are told apart by
  MaxRecords,    \* bound: lines of a log that Trace adds to
  MaxUncounted,  \* bound: different lines that are written and not counted
  MaxOpens,      \* bound: times a Trace is opened on the directory
  MaxTouches,    \* bound: changes by other hands
  Forgeries(_)   \* log -> the logs other hands may leave in its place

ASSUME AuditTraceAssumption ==
  MaxRecords \in Nat /\ MaxUncounted \in Nat /\ MaxOpens \in Nat /\ MaxTouches \in Nat

\* SHA-256 of a line: different lines, different digests.
Digest(line) == [of |-> line]
NoDigest == [of_nothing |-> TRUE]

\* A line of trace.jsonl.  A torn one lacks its end, and what is written next
\* is glued to it; neither parses.
Line(number, previous, event) ==
  [form |-> "whole", seq |-> number, prev |-> previous, event |-> event]
Torn(line)  == [line EXCEPT !.form = "torn"]
Whole(line) == line.form = "whole"

NoLine == Line(0, NoDigest, "none")

NoSeal == [readable |-> FALSE]
Seal(records, tip) == [readable |-> TRUE, records |-> records, tip |-> tip]

VARIABLES
  lines,     \* trace.jsonl
  seal,      \* trace.tip; NoSeal also when it cannot be parsed
  writer,    \* where Trace is: none, open, writing, flushed, owing, sealing, closed or dead
  pending,   \* the line that emit writes, NoLine when there is none
  seq,       \* Trace._seq
  prev,      \* Trace._prev
  receipt,   \* the tip in the invoke envelope, or NoDigest
  reader,    \* where the reader is
  round,     \* its verification: 1 the local one, 2 with the receipt
  seen,      \* its copy of the lines
  at,        \* lines of it that were checked
  expect,    \* the digest of the last of those
  sealUsed,  \* did the local verification have a seal to check?
  report,    \* what the reader says
  opens, touches,  \* counters of the bounds
  written,   \* history: the records Trace wrote and counted
  uncounted, \* history: the lines it wrote and, interrupted, did not count
  own,       \* history: has Trace only continued logs of which it counted every line?
  closings,  \* history: the logs Trace sealed
  moved      \* history: did the run write while it was read, or had it since its seal?

files   == <<lines, seal>>
trace   == <<writer, pending, seq, prev, opens>>
reading == <<reader, round, seen, at, expect, sealUsed, report>>
history == <<written, uncounted, own, closings>>
vars    == <<files, trace, receipt, reading, touches, history, moved>>

Writers == {"none", "open", "writing", "flushed", "owing", "sealing", "closed", "dead"}
Reports == {"none", "legacy", "broken", "sealed", "unsealed", "reconciled", "mismatch"}

IsLog(log) == log \in Seq({log[i] : i \in DOMAIN log})
IsLine(l) ==
  /\ DOMAIN l = {"form", "seq", "prev", "event"}
  /\ l.form \in {"whole", "torn", "glued"} /\ l.seq \in Nat
IsSeal(s) == s.readable \in BOOLEAN /\ (s.readable => s.records \in Nat)

AreLines(log) == IsLog(log) /\ \A i \in DOMAIN log : IsLine(log[i])

TypeOK ==
  /\ AreLines(lines)
  /\ IsLog(seen) /\ IsLog(written)
  /\ IsSeal(seal)
  /\ writer \in Writers /\ IsLine(pending)
  /\ seq \in Nat
  /\ reader \in {"idle", "load", "check", "look", "done"}
  /\ round \in 1 .. 2
  /\ at \in 0 .. Len(seen)
  /\ report \in Reports
  /\ sealUsed \in BOOLEAN /\ own \in BOOLEAN /\ moved \in BOOLEAN
  /\ opens \in 0 .. MaxOpens /\ touches \in 0 .. MaxTouches

Busy == reader \notin {"idle", "done"}
RunMoves == moved' = (moved \/ Busy)

-----------------------------------------------------------------------------
TipOf(log) == IF log = <<>> THEN NoDigest ELSE Digest(log[Len(log)])

\* A reopened log of which the numbers go on and the chain starts anew.
ForkedChain == seq' = Len(lines) /\ prev' = NoDigest
ContinuedChain == seq' = Len(lines) /\ prev' = TipOf(lines)

\* Trace.__init__ continues the chain of whatever the file holds.
Open ==
  /\ writer \in {"none", "closed", "dead"}
  /\ opens < MaxOpens
  /\ opens' = opens + 1
  /\ writer' = "open"
  /\ ContinuedChain
  /\ own' = (own /\ lines = written)
  /\ written' = lines
  /\ UNCHANGED <<files, pending, receipt, reading, touches, uncounted, closings, moved>>

\* emit: the write and its flush may reach the file in parts ...
BeginLine ==
  /\ writer = "open"
  /\ Len(lines) < MaxRecords
  /\ \E event \in Events : pending' = Line(seq, prev, event)
  /\ lines' = Append(lines, Torn(pending'))
  /\ writer' = "writing"
  /\ RunMoves
  /\ UNCHANGED <<seal, seq, prev, opens, receipt, reading, touches, history>>

\* The last line gets its end; behind the torn line of a writer that died it is
\* a part of that one.
Completed(log, new) ==
  LET last == Len(log) IN
  IF last > 1 /\ log[last - 1].form = "torn"
  THEN [SubSeq(log, 1, last - 1) EXCEPT ![last - 1].form = "glued"]
  ELSE [log EXCEPT ![last] = new]

EndLine ==
  /\ writer = "writing"
  /\ lines' = Completed(lines, pending)
  /\ writer' = "flushed"
  /\ RunMoves
  /\ UNCHANGED <<seal, pending, seq, prev, opens, receipt, reading, touches, history>>

\* ... and then the record is counted: no call stands between the assignments of
\* _prev and _seq, so nothing comes between them.
CountLine ==
  /\ writer = "flushed"
  /\ seq' = seq + 1
  /\ prev' = Digest(pending)
  /\ written' = Append(written, pending)
  /\ pending' = NoLine
  /\ writer' = "open"
  /\ UNCHANGED <<files, opens, receipt, reading, touches, uncounted, own, closings, moved>>

NotCounted == uncounted' = uncounted \cup {pending}

\* An exception in emit, a Ctrl-C or a write that fails, ends it before it has
\* counted; the Trace lives on, at least until __exit__ closes it.  What did not
\* reach the file stays in its buffer.  (An emit of which nothing reached it is
\* one that begins when the buffer does.)
EmitFails ==
  /\ Cardinality(uncounted) < MaxUncounted
  /\ \/ writer = "writing" /\ writer' = "owing" /\ UNCHANGED <<pending, uncounted>>
     \/ writer = "flushed" /\ writer' = "open" /\ pending' = NoLine /\ NotCounted
  /\ UNCHANGED <<files, seq, prev, opens, receipt, reading, touches, written, own, closings,
                 moved>>

\* The next flush, of another emit or of close, brings the rest.
FlushRest ==
  /\ writer = "owing"
  /\ lines' = Completed(lines, pending)
  /\ pending' = NoLine
  /\ NotCounted
  /\ writer' = "open"
  /\ RunMoves
  /\ UNCHANGED <<seal, seq, prev, opens, receipt, reading, touches, written, own, closings>>

\* close, also by __exit__ on an exception, and _seal: write_text truncates the
\* old seal, then fills it.
BeginSeal ==
  /\ writer = "open"
  /\ writer' = "sealing"
  /\ seal' = NoSeal
  /\ RunMoves
  /\ UNCHANGED <<lines, pending, seq, prev, opens, receipt, reading, touches, history>>

SealNow == Seal(seq, prev)

EndSeal ==
  /\ writer = "sealing"
  /\ writer' = "closed"
  /\ seal' = SealNow
  /\ closings' = closings \cup {written}
  /\ RunMoves
  /\ UNCHANGED <<lines, pending, seq, prev, opens, receipt, reading, touches, written,
                 uncounted, own>>

\* The process dies, or close fails, also in the middle of a line or of the seal.
Crash ==
  /\ writer \in {"open", "writing", "flushed", "owing", "sealing"}
  /\ writer' = "dead"
  /\ pending' = NoLine /\ seq' = 0 /\ prev' = NoDigest
  /\ UNCHANGED <<files, opens, receipt, reading, touches, history, moved>>

\* chain_tip: the invoke envelope carries what the seal says after the run, and
\* somebody keeps it.
TakeReceipt ==
  /\ writer = "closed"
  /\ receipt = NoDigest
  /\ receipt' = IF seal.readable THEN seal.tip ELSE NoDigest
  /\ UNCHANGED <<files, trace, reading, touches, history, moved>>

-----------------------------------------------------------------------------
Touch ==
  /\ touches < MaxTouches
  /\ touches' = touches + 1
  /\ UNCHANGED <<trace, receipt, reading, history, moved>>

\* Other hands change the log, while no line lacks its end; it stays lines.
Tamper ==
  /\ writer \notin {"writing", "owing"}
  /\ Touch
  /\ lines' \in Forgeries(lines) /\ AreLines(lines')
  /\ UNCHANGED seal

LoseSeal == Touch /\ seal' = NoSeal /\ UNCHANGED lines

-----------------------------------------------------------------------------
Say(what) == reader' = "done" /\ report' = what

\* is_chained: the first line parses and has a seq.
LookChained ==
  /\ reader = "idle"
  /\ IF lines # <<>> /\ Whole(lines[1])
     THEN reader' = "load" /\ UNCHANGED report
     ELSE Say("legacy")
  /\ UNCHANGED <<files, trace, receipt, round, seen, at, expect, sealUsed, touches, history, moved>>

\* A second verification that goes on where the first one ended.
KeepPlace == at' = at
StartOver == at' = 0

\* verify_chain reads the file once ...
Load ==
  /\ reader = "load"
  /\ reader' = "check"
  /\ seen' = lines
  /\ StartOver
  /\ expect' = NoDigest
  /\ moved' = (moved \/ (seal.readable /\ writer # "closed"))
  /\ UNCHANGED <<files, trace, receipt, round, sealUsed, report, touches, history>>

\* ... and goes through its lines.
NextLine == seen[at + 1]
Follows == Whole(NextLine) /\ NextLine.seq = at /\ NextLine.prev = expect

CheckLine ==
  /\ reader = "check"
  /\ at < Len(seen)
  /\ Follows
  /\ at' = at + 1
  /\ expect' = Digest(NextLine)
  /\ UNCHANGED <<files, trace, receipt, reader, round, seen, sealUsed, report, touches, history,
                 moved>>

\* A seal of which the count is compared, and not the tip.
CountMatches == seal.readable => seal.records = Len(seen)
SealMatches  == seal.readable => seal.records = Len(seen) /\ seal.tip = expect

\* A receipt that is compared where there is a seal to compare.
ReceiptMatchesIfSealed == seal.readable => expect = receipt
ReceiptMatches == expect = receipt

Complete == reader = "check" /\ at = Len(seen)

\* What does not verify is broken; in the second round the log was found intact
\* and the receipt does not match.
Refuse ==
  /\ \/ reader = "check" /\ at < Len(seen) /\ ~Follows
     \/ Complete /\ ~SealMatches
     \/ Complete /\ round = 2 /\ ~ReceiptMatches
  /\ Say(IF round = 1 THEN "broken" ELSE "mismatch")
  /\ UNCHANGED <<files, trace, receipt, round, seen, at, expect, sealUsed, touches, history, moved>>

Verify ==
  /\ Complete /\ SealMatches
  /\ \/ /\ round = 1
        /\ reader' = "look"
        /\ sealUsed' = seal.readable
        /\ UNCHANGED report
     \/ /\ round = 2 /\ ReceiptMatches
        /\ Say("reconciled")
        /\ UNCHANGED sealUsed
  /\ UNCHANGED <<files, trace, receipt, round, seen, at, expect, touches, history, moved>>

\* is_sealed is a read of its own.  The dashboard has no receipt, and whoever
\* calls `hands explain` may keep one; an empty one is none.
LookSealed ==
  /\ reader = "look"
  /\ \/ /\ receipt # NoDigest
        /\ round' = 2
        /\ reader' = "load"
        /\ UNCHANGED report
     \/ /\ Say(IF seal.readable THEN "sealed" ELSE "unsealed")
        /\ UNCHANGED round
  /\ UNCHANGED <<files, trace, receipt, seen, at, expect, sealUsed, touches, history, moved>>

-----------------------------------------------------------------------------
Init ==
  /\ lines = <<>> /\ seal = NoSeal
  /\ writer = "none" /\ pending = NoLine /\ seq = 0 /\ prev = NoDigest
  /\ receipt = NoDigest
  /\ reader = "idle" /\ round = 1 /\ seen = <<>> /\ at = 0 /\ expect = NoDigest
  /\ sealUsed = FALSE /\ report = "none"
  /\ opens = 0 /\ touches = 0
  /\ written = <<>> /\ uncounted = {} /\ own = TRUE /\ closings = {} /\ moved = FALSE

Next ==
  \/ Open \/ BeginLine \/ EndLine \/ CountLine \/ EmitFails \/ FlushRest
  \/ BeginSeal \/ EndSeal \/ Crash \/ TakeReceipt
  \/ Tamper \/ LoseSeal
  \/ LookChained \/ Load \/ CheckLine \/ Refuse \/ Verify \/ LookSealed

Spec == Init /\ [][Next]_vars

-----------------------------------------------------------------------------
\* A log that is reported as sealed, by a reader whose verification had the
\* seal, is one that Trace closed, record by record: a crashed run, a run still
\* writing, one of which a line was written and not counted, and a log changed
\* anywhere, its last record included, are not.  A log that Trace is opened on
\* with other lines than it counted counts as what it writes from then on
\* (trace.py:120-135, 154-211, cli.py:222-249).
SealedIsAsWritten == own /\ report = "sealed" /\ sealUsed => seen \in closings

\* A log that is reconciled with the receipt is the one that was closed when
\* the receipt was given, also when the seal is gone (trace.py:107-135).
ReceiptBindsTheRun ==
  own /\ report = "reconciled" =>
    \A log \in closings : log # <<>> /\ TipOf(log) = receipt => seen = log

\* What an honest run can be charged with: a record that is torn; one that an
\* exception in emit left written and uncounted, behind which Trace numbers and
\* seals as if it were not there; one that came while it was read or after the
\* seal of an earlier opening; or a receipt of such an earlier seal.  Anything
\* else that is reported broken, or not matching its receipt, was changed by
\* others (trace.py:101-135, 154-211).
NoFalseAlarm ==
  report \in {"broken", "mismatch"} =>
    \/ touches > 0 \/ moved
    \/ \E i \in DOMAIN seen : ~Whole(seen[i]) \/ seen[i] \in uncounted
    \/ report = "mismatch" /\ opens > 1
=============================================================================
