---------------------------- MODULE TraceProofs -----------------------------
(***************************************************************************)
(* Proofs about AuditTrace, for logs of any length, any number of openings *)
(* and changes, and whatever other hands leave in the place of the log.    *)
(***************************************************************************)
EXTENDS AuditTrace, SequenceTheorems, TLAPS

-----------------------------------------------------------------------------
(* Logs.                                                                   *)

\* Numbered from 0, each with the digest of the one before.
Chained(log, n) ==
  \A k \in 1 .. n :
    /\ log[k].seq = k - 1
    /\ log[k].prev = IF k = 1 THEN NoDigest ELSE Digest(log[k - 1])

\* Where the copy that was read and a log have the same line, they have the
\* same lines before it.
Agree(log) ==
  \A k \in 1 .. at :
    k <= Len(log) /\ seen[k] = log[k] => \A i \in 1 .. k : seen[i] = log[i]

LEMMA DigestFacts ==
  /\ \A a, b : Digest(a) = Digest(b) => a = b
  /\ \A a : Digest(a) # NoDigest
  <1>1. \A a, b : Digest(a) = Digest(b) => a = b
    <2> SUFFICES ASSUME NEW a, NEW b, Digest(a) = Digest(b)  PROVE a = b  OBVIOUS
    <2>1. Digest(a).of = a /\ Digest(b).of = b  BY DEF Digest
    <2> QED  BY <2>1
  <1>2. ASSUME NEW a  PROVE Digest(a) # NoDigest
    <2>1. "of" \in DOMAIN Digest(a)  BY DEF Digest
    <2>2. "of" \notin DOMAIN NoDigest  BY DEF NoDigest
    <2> QED  BY <2>1, <2>2
  <1> QED  BY <1>1, <1>2

LEMMA LogIntro ==
  ASSUME NEW S, NEW log \in Seq(S)
  PROVE  IsLog(log)
  BY DEF IsLog

LEMMA LogFacts ==
  ASSUME NEW log, IsLog(log)
  PROVE  /\ Len(log) \in Nat
         /\ DOMAIN log = 1 .. Len(log)
         /\ log # <<>> => Len(log) >= 1
  BY DEF IsLog

LEMMA SameLog ==
  ASSUME NEW a, IsLog(a), NEW b, IsLog(b), Len(a) = Len(b),
         \A i \in 1 .. Len(a) : a[i] = b[i]
  PROVE  a = b
  <1> DEFINE S == {a[i] : i \in DOMAIN a} \cup {b[i] : i \in DOMAIN b}
  <1>1. a \in Seq(S) /\ b \in Seq(S)  BY DEF IsLog
  <1> QED  BY <1>1, SeqEqual

LEMMA AppendLog ==
  ASSUME NEW log, IsLog(log), NEW line
  PROVE  /\ IsLog(Append(log, line))
         /\ Len(Append(log, line)) = Len(log) + 1
         /\ \A i \in 1 .. Len(log) : Append(log, line)[i] = log[i]
         /\ Append(log, line)[Len(log) + 1] = line
  <1> DEFINE S == {log[i] : i \in DOMAIN log} \cup {line}
  <1>1. log \in Seq(S) /\ line \in S  BY DEF IsLog
  <1>2. Append(log, line) \in Seq(S)  BY <1>1
  <1>3. IsLog(Append(log, line))  BY <1>2, LogIntro
  <1> QED  BY <1>1, <1>3

LEMMA EditLog ==
  ASSUME NEW log, IsLog(log), NEW n \in 1 .. Len(log), NEW line
  PROVE  IsLog([log EXCEPT ![n] = line])
  <1> DEFINE S == {log[i] : i \in DOMAIN log} \cup {line}
  <1>1. log \in Seq(S) /\ line \in S  BY DEF IsLog
  <1>2. [log EXCEPT ![n] = line] \in Seq(S)  BY <1>1
  <1> QED  BY <1>2, LogIntro

LEMMA CutLog ==
  ASSUME NEW log, IsLog(log), NEW n \in 0 .. Len(log)
  PROVE  IsLog(SubSeq(log, 1, n)) /\ Len(SubSeq(log, 1, n)) = n
  <1> DEFINE S == {log[i] : i \in DOMAIN log}
  <1>1. log \in Seq(S)  BY DEF IsLog
  <1>2. SubSeq(log, 1, n) \in Seq(S) /\ Len(SubSeq(log, 1, n)) = n
    BY <1>1, SubSeqProperties
  <1> QED  BY <1>2, LogIntro

LEMMA CompletedLog ==
  ASSUME NEW log, IsLog(log), NEW line, log # <<>>
  PROVE  IsLog(Completed(log, line))
  <1> DEFINE last == Len(log)
  <1>1. last \in Nat /\ last >= 1  BY LogFacts
  <1>2. CASE last > 1 /\ log[last - 1].form = "torn"
    <2> DEFINE cut == SubSeq(log, 1, last - 1)
    <2>0. last - 1 \in 0 .. Len(log)  BY <1>1
    <2>1. IsLog(cut) /\ Len(cut) = last - 1
      <3> HIDE DEF last
      <3> QED  BY <2>0, CutLog
    <2>2. last - 1 \in 1 .. Len(cut)  BY <1>1, <1>2, <2>1
    <2>3. \A line2 : IsLog([cut EXCEPT ![last - 1] = line2])
      BY <2>1, <2>2, EditLog
    <2> QED  BY <1>2, <2>3 DEF Completed
  <1>3. CASE ~(last > 1 /\ log[last - 1].form = "torn")
    <2>1. IsLog([log EXCEPT ![last] = line])  BY <1>1, EditLog
    <2> QED  BY <1>3, <2>1 DEF Completed
  <1> QED  BY <1>2, <1>3

-----------------------------------------------------------------------------
(* What Trace writes.                                                      *)

\* While Trace has the log open its numbers and its digest are those of the
\* records it counted, and the line it writes goes on with them; unless it was
\* opened on a log with other lines, these are a chain, and so is all it sealed; a
\* seal that can be read is that of such a log.
WriterInv ==
  /\ IsLog(lines) /\ IsLog(written)
  /\ writer \in {"writing", "owing"} => lines # <<>>
  /\ writer \in {"writing", "flushed", "owing"} => pending.seq = seq /\ pending.prev = prev
  /\ writer \in {"open", "writing", "flushed", "owing", "sealing"} =>
       seq = Len(written) /\ prev = TipOf(written)
  /\ \A log \in closings : IsLog(log)
  /\ own => /\ Chained(written, Len(written))
            /\ \A log \in closings : Chained(log, Len(log))
            /\ seal.readable => \E log \in closings : seal = Seal(Len(log), TipOf(log))

LEMMA EmptyLog == IsLog(<<>>) /\ Len(<<>>) = 0 /\ Chained(<<>>, 0)
  <1>1. <<>> \in Seq({}) /\ Len(<<>>) = 0  OBVIOUS
  <1>2. IsLog(<<>>)  BY <1>1, LogIntro
  <1>3. Chained(<<>>, 0)  BY DEF Chained
  <1> QED  BY <1>1, <1>2, <1>3

LEMMA WriterInit == Init => WriterInv
  BY EmptyLog DEF Init, WriterInv, NoSeal

LEMMA WriterNext == WriterInv /\ [Next]_vars => WriterInv'
  <1> SUFFICES ASSUME WriterInv, [Next]_vars  PROVE WriterInv'  OBVIOUS
  <1>1. CASE Open
    <2>1. IsLog(written') /\ written' = lines  BY <1>1 DEF Open, WriterInv
    <2>2. seq' = Len(written') /\ prev' = TipOf(written')
      BY <1>1, <2>1 DEF Open, ContinuedChain
    <2>3. own' => own /\ written' = written  BY <1>1 DEF Open
    <2>4. UNCHANGED <<lines, seal, closings>> /\ writer' = "open"
      BY <1>1 DEF Open, files
    <2> QED  BY <2>1, <2>2, <2>3, <2>4 DEF WriterInv
  <1>2. CASE BeginLine
    <2>1. PICK e : pending' = Line(seq, prev, e)  BY <1>2 DEF BeginLine
    <2>2. pending'.seq = seq /\ pending'.prev = prev  BY <2>1 DEF Line
    <2>3. lines' = Append(lines, Torn(pending'))  BY <1>2 DEF BeginLine
    <2>4. IsLog(lines') /\ lines' # <<>>
      BY <2>3, AppendLog, LogFacts, EmptyLog DEF WriterInv
    <2> QED  BY <1>2, <2>2, <2>4 DEF BeginLine, WriterInv, history
  <1>3. CASE EndLine \/ FlushRest
    <2>1. /\ lines' = Completed(lines, pending) /\ writer \in {"writing", "owing"}
          /\ UNCHANGED <<seal, seq, prev, written, own, closings>>
          /\ writer' = "open" \/ (writer' = "flushed" /\ pending' = pending)
      BY <1>3 DEF EndLine, FlushRest, history
    <2>2. IsLog(lines')  BY <2>1, CompletedLog DEF WriterInv
    <2> QED  BY <2>1, <2>2 DEF WriterInv
  <1>4. CASE CountLine
    <2> DEFINE n == Len(written)
    <2>1. /\ prev' = Digest(pending) /\ seq' = seq + 1 /\ written' = Append(written, pending)
          /\ UNCHANGED <<lines, seal, own, closings>> /\ writer' = "open" /\ writer = "flushed"
      BY <1>4 DEF CountLine, files
    <2>3. /\ IsLog(written') /\ Len(written') = n + 1 /\ n \in Nat
          /\ \A i \in 1 .. n : written'[i] = written[i]
          /\ written'[n + 1] = pending
      BY <2>1, AppendLog, LogFacts DEF WriterInv
    <2>4. pending.seq = n /\ pending.prev = TipOf(written)
      BY <2>1 DEF WriterInv
    <2>5. TipOf(written') = Digest(pending) /\ written' # <<>>
      BY <2>3, EmptyLog DEF TipOf
    <2>6. Chained(written, n) => Chained(written', n + 1)
      <3> SUFFICES ASSUME Chained(written, n), NEW k \in 1 .. n + 1
                   PROVE  /\ written'[k].seq = k - 1
                          /\ written'[k].prev = IF k = 1 THEN NoDigest ELSE Digest(written'[k - 1])
        BY DEF Chained
      <3>1. CASE k \in 1 .. n  BY <2>3, <3>1 DEF Chained
      <3>2. CASE k = n + 1
        <4>1. CASE n = 0
          <5>1. written = <<>>  BY <4>1, LogFacts DEF WriterInv
          <5> QED  BY <2>3, <2>4, <3>2, <4>1, <5>1 DEF TipOf
        <4>2. CASE n # 0
          <5>1. written # <<>>  BY <4>2, EmptyLog
          <5> QED  BY <2>3, <2>4, <3>2, <4>2, <5>1 DEF TipOf
        <4> QED  BY <4>1, <4>2
      <3> QED  BY <2>3, <3>1, <3>2
    <2>7. seq' = Len(written') /\ prev' = TipOf(written')
      BY <2>1, <2>3, <2>5 DEF WriterInv
    <2> QED  BY <2>1, <2>3, <2>6, <2>7 DEF WriterInv
  <1>5. CASE EmitFails
    BY <1>5 DEF EmitFails, WriterInv, files
  <1>6. CASE BeginSeal
    BY <1>6 DEF BeginSeal, WriterInv, NoSeal, history
  <1>7. CASE EndSeal
    <2>1. seal' = Seal(Len(written), TipOf(written)) /\ closings' = closings \cup {written}
      BY <1>7 DEF EndSeal, SealNow, WriterInv
    <2> QED  BY <1>7, <2>1 DEF EndSeal, WriterInv
  <1>8. CASE Crash  BY <1>8 DEF Crash, WriterInv, files, history
  <1>9. CASE TakeReceipt  BY <1>9 DEF TakeReceipt, WriterInv, files, trace, history
  <1>10. CASE Tamper  BY <1>10 DEF Tamper, AreLines, Touch, WriterInv, trace, history
  <1>11. CASE LoseSeal  BY <1>11 DEF LoseSeal, Touch, WriterInv, trace, history, NoSeal
  <1>12. CASE \/ LookChained \/ Load \/ CheckLine \/ Refuse \/ Verify \/ LookSealed
             \/ UNCHANGED vars
    BY <1>12 DEF LookChained, Load, CheckLine, Refuse, Verify, LookSealed, vars, WriterInv,
                 files, trace, history
  <1> QED
    BY <1>1, <1>2, <1>3, <1>4, <1>5, <1>6, <1>7, <1>8, <1>9, <1>10, <1>11, <1>12 DEF Next

-----------------------------------------------------------------------------
(* Types.                                                                  *)

LEMMA LineIsLine ==
  ASSUME NEW n \in Nat, NEW p, NEW e
  PROVE  /\ IsLine(Line(n, p, e)) /\ IsLine(Torn(Line(n, p, e)))
         /\ Whole(Line(n, p, e)) /\ ~Whole(Torn(Line(n, p, e)))
  BY DEF Line, Torn, Whole, IsLine

\* What EndLine leaves of the lines that were there.
LEMMA CompletedLines ==
  ASSUME NEW log, AreLines(log), log # <<>>, NEW line, IsLine(line)
  PROVE  LET n == Len(log) - 1
             new == Completed(log, line)
         IN  /\ AreLines(new)
             /\ \/ /\ n > 0 /\ ~Whole(log[n]) /\ Len(new) = n /\ ~Whole(new[n])
                \/ /\ n > 0 => log[n].form # "torn"
                   /\ Len(new) = n + 1
                   /\ \A i \in 1 .. n : new[i] = log[i]
                   /\ new[n + 1] = line
  <1> DEFINE n == Len(log) - 1
             new == Completed(log, line)
  <1>1. n \in Nat /\ Len(log) = n + 1 /\ IsLog(log) /\ DOMAIN log = 1 .. n + 1
    BY LogFacts DEF AreLines
  <1>2. IsLog(new) /\ DOMAIN new = 1 .. Len(new) /\ Len(new) \in Nat
    BY <1>1, CompletedLog, LogFacts
  <1>0. \A a, b \in Nat : a \in 1 .. b /\ b \in 1 .. a => a = b  OBVIOUS
  <1>3. CASE n > 0 /\ log[n].form = "torn"
    <2> DEFINE cut == SubSeq(log, 1, n)
    <2>1. IsLog(cut) /\ Len(cut) = n
      <3>1. n \in 0 .. Len(log)  BY <1>1
      <3> HIDE DEF n
      <3> QED  BY <1>1, <3>1, CutLog
    <2>2. DOMAIN cut = 1 .. n  BY <2>1, LogFacts
    <2>3. \A i \in 1 .. n : cut[i] = log[i]
      <3> DEFINE S == {log[i] : i \in DOMAIN log}
      <3>1. log \in Seq(S)  BY <1>1 DEF IsLog
      <3> HIDE DEF S, n
      <3> QED  BY <1>1, <3>1
    <2>4. new = [cut EXCEPT ![n].form = "glued"]
      BY <1>1, <1>3 DEF Completed
    <2>5. DOMAIN new = 1 .. n
      <3> HIDE DEF cut, new, n
      <3> QED  BY <2>2, <2>4
    <2>6. n \in 1 .. n  BY <1>1, <1>3
    <2>7. IsLine(log[n])  BY <1>1, <2>6 DEF AreLines
    <2>8. new[n] = [log[n] EXCEPT !.form = "glued"] /\ \A i \in 1 .. n : i # n => new[i] = log[i]
      <3> HIDE DEF cut, new, n
      <3> QED  BY <2>2, <2>3, <2>4, <2>6
    <2> HIDE DEF cut, new, n
    <2>9. IsLine(new[n]) /\ ~Whole(new[n])
      BY <2>7, <2>8 DEF IsLine, Whole
    <2>10. Len(new) = n
      <3>1. Len(new) \in 1 .. n /\ n \in 1 .. Len(new)
        <4>1. Len(new) # 0  BY <1>2, <2>5, <2>6
        <4> QED  BY <1>2, <2>5, <2>6, <4>1
      <3> QED  BY <1>1, <1>2, <1>0, <3>1
    <2>11. \A i \in 1 .. n : IsLine(new[i])
      <3> TAKE i \in 1 .. n
      <3>1. IsLine(log[i])  BY <1>1 DEF AreLines
      <3> QED  BY <2>8, <2>9, <3>1
    <2>12. ~Whole(log[n])  BY <1>3 DEF Whole
    <2> QED  BY <1>2, <1>3, <2>5, <2>9, <2>10, <2>11, <2>12 DEF AreLines, new, n
  <1>4. CASE ~(n > 0 /\ log[n].form = "torn")
    <2>1. new = [log EXCEPT ![n + 1] = line]
      BY <1>1, <1>4 DEF Completed
    <2> HIDE DEF new, n
    <2>2. DOMAIN new = 1 .. n + 1  BY <1>1, <2>1
    <2>3. new[n + 1] = line /\ \A i \in 1 .. n : new[i] = log[i]
      BY <1>1, <2>1
    <2>4. Len(new) = n + 1
      <3>1. Len(new) # 0  BY <1>1, <1>2, <2>2
      <3>2. Len(new) \in 1 .. n + 1 /\ n + 1 \in 1 .. Len(new)
        BY <1>1, <1>2, <2>2, <3>1
      <3>3. n + 1 \in Nat  BY <1>1
      <3> QED  BY <1>2, <1>0, <3>2, <3>3
    <2>5. \A i \in 1 .. n + 1 : IsLine(new[i])
      <3> TAKE i \in 1 .. n + 1
      <3>1. IsLine(log[i])  BY <1>1 DEF AreLines
      <3> QED  BY <1>1, <2>3, <3>1
    <2> QED  BY <1>2, <1>4, <2>2, <2>3, <2>4, <2>5 DEF AreLines, new, n
  <1> QED  BY <1>3, <1>4

-----------------------------------------------------------------------------
(* What is read.                                                           *)

\* The lines that were checked are a chain that agrees with all that Trace
\* wrote and sealed.
CheckInv ==
  /\ IsLog(seen) /\ at \in 0 .. Len(seen)
  /\ Chained(seen, at)
  /\ expect = IF at = 0 THEN NoDigest ELSE Digest(seen[at])
  /\ own => Agree(written) /\ \A log \in closings : Agree(log)

\* What was verified is what the reports say.
ReportInv ==
  /\ round \in 1 .. 2
  /\ round = 2 => receipt # NoDigest
  /\ reader = "look" => round = 1
  /\ report # "none" => reader = "done"
  /\ own /\ sealUsed /\ (reader = "look" \/ report = "sealed") => seen \in closings
  /\ report = "reconciled" => expect = receipt /\ receipt # NoDigest /\ at = Len(seen)

LEMMA ReaderInit == Init => CheckInv /\ ReportInv
  BY EmptyLog DEF Init, CheckInv, ReportInv, Chained, Agree

\* The step by which a line is checked: digests tie it to the line before.
LEMMA AgreeExtends ==
  ASSUME CheckInv, at < Len(seen), Follows, NEW log, IsLog(log), Chained(log, Len(log)), Agree(log),
         at + 1 <= Len(log), seen[at + 1] = log[at + 1]
  PROVE  \A i \in 1 .. at + 1 : seen[i] = log[i]
  <1>1. at \in Nat /\ Len(log) \in Nat  BY LogFacts DEF CheckInv
  <1>2. CASE at = 0  BY <1>1, <1>2
  <1>3. CASE at # 0
    <2>1. at \in 1 .. at /\ at + 1 \in 1 .. Len(log) /\ at + 1 # 1 /\ (at + 1) - 1 = at
      BY <1>1, <1>3
    <2>2. log[at + 1].prev = Digest(log[at])  BY <2>1 DEF Chained
    <2>3. seen[at + 1].prev = Digest(seen[at])
      BY <1>3 DEF CheckInv, Follows, NextLine
    <2>4. seen[at] = log[at]  BY <2>2, <2>3, DigestFacts
    <2>5. \A i \in 1 .. at : seen[i] = log[i]  BY <1>1, <2>1, <2>4 DEF Agree
    <2> QED  BY <1>1, <2>5
  <1> QED  BY <1>2, <1>3

\* A record that Trace adds to its log does not break the agreement.
LEMMA AgreeWithMore ==
  ASSUME CheckInv, NEW log, IsLog(log), Chained(log, Len(log)), Agree(log), NEW line,
         Chained(Append(log, line), Len(log) + 1)
  PROVE  Agree(Append(log, line))
  <1> DEFINE more == Append(log, line)
             n == Len(log)
  <1>1. /\ n \in Nat /\ Len(more) = n + 1
        /\ \A i \in 1 .. n : more[i] = log[i]
    BY LogFacts, AppendLog
  <1>2. at \in Nat  BY LogFacts DEF CheckInv
  <1> SUFFICES ASSUME NEW k \in 1 .. at, k <= n + 1, seen[k] = more[k]
               PROVE  \A i \in 1 .. k : seen[i] = more[i]
    BY <1>1 DEF Agree
  <1> HIDE DEF more, n
  <1>3. CASE k <= n
    <2>1. seen[k] = log[k]  BY <1>1, <1>3
    <2>2. \A i \in 1 .. k : seen[i] = log[i]  BY <1>1, <1>2, <1>3, <2>1 DEF Agree, n
    <2> QED  BY <1>1, <1>2, <1>3, <2>2
  <1>4. CASE k = n + 1 /\ n = 0  BY <1>4
  <1>5. CASE k = n + 1 /\ n # 0
    <2>1. k # 1 /\ k \in 1 .. n + 1 /\ k - 1 = n /\ n \in 1 .. at  BY <1>1, <1>2, <1>5
    <2>2. more[k].prev = Digest(more[n])  BY <2>1 DEF Chained, more, n
    <2>3. seen[k].prev = Digest(seen[n])  BY <2>1 DEF Chained, CheckInv
    <2>4. seen[n] = log[n]  BY <1>1, <2>1, <2>2, <2>3, DigestFacts
    <2>5. \A i \in 1 .. n : seen[i] = log[i]  BY <1>1, <2>1, <2>4 DEF Agree, n
    <2> QED  BY <1>1, <1>5, <2>5
  <1> QED  BY <1>1, <1>3, <1>4, <1>5

\* Where the reader has its place and Trace its log, nothing changes.
LEMMA CheckStays ==
  ASSUME CheckInv, UNCHANGED <<seen, at, expect>>,
         own' => /\ own /\ written' = written
                 /\ \A log \in closings' : log \in closings \/ log = written
  PROVE  CheckInv'
  BY DEF CheckInv, Agree, Chained

LEMMA CheckNext == WriterInv /\ WriterInv' /\ CheckInv /\ [Next]_vars => CheckInv'
  <1> SUFFICES ASSUME WriterInv, WriterInv', CheckInv, [Next]_vars  PROVE CheckInv'  OBVIOUS
  <1>1. CASE Open
    BY <1>1, CheckStays DEF Open, reading
  <1>2. CASE CountLine
    <2>1. written' = Append(written, pending)  BY <1>2 DEF CountLine
    <2>2. UNCHANGED <<seen, at, expect, own, closings>>  BY <1>2 DEF CountLine, reading
    <2>3. own => Chained(Append(written, pending), Len(written) + 1)
      BY <2>1, <2>2, AppendLog DEF WriterInv
    <2>4. own => Agree(Append(written, pending))
      BY <2>3, AgreeWithMore DEF WriterInv, CheckInv
    <2>5. own' => Agree(written)'
      BY <2>1, <2>2, <2>4 DEF Agree
    <2>6. own' => \A log \in closings' : Agree(log)'
      BY <2>2 DEF CheckInv, Agree
    <2> QED  BY <2>2, <2>5, <2>6 DEF CheckInv, Chained
  <1>3. CASE EndSeal
    BY <1>3, CheckStays DEF EndSeal, reading
  <1>4. CASE \/ BeginLine \/ EndLine \/ EmitFails \/ FlushRest \/ BeginSeal \/ Crash \/ TakeReceipt
            \/ Tamper \/ LoseSeal \/ LookChained \/ Refuse \/ Verify \/ LookSealed \/ UNCHANGED vars
    <2>1. UNCHANGED <<seen, at, expect, own, written, closings>>
      BY <1>4 DEF BeginLine, EndLine, EmitFails, FlushRest, BeginSeal, Crash, TakeReceipt,
                  Tamper, LoseSeal, Touch, LookChained, Refuse, Verify, LookSealed, vars, reading, history
    <2> QED  BY <2>1, CheckStays
  <1>5. CASE Load
    <2>1. seen' = lines /\ at' = 0 /\ expect' = NoDigest /\ Len(lines) \in Nat
      BY <1>5, LogFacts DEF Load, StartOver, WriterInv
    <2> QED  BY <2>1 DEF WriterInv, CheckInv, Chained, Agree
  <1>6. CASE CheckLine
    <2>1. /\ at < Len(seen) /\ Follows /\ at' = at + 1 /\ expect' = Digest(seen[at + 1])
          /\ UNCHANGED <<seen, own, written, closings>>
      BY <1>6 DEF CheckLine, NextLine, history
    <2>2. at \in Nat /\ Len(seen) \in Nat  BY LogFacts DEF CheckInv
    <2>3. Chained(seen, at + 1)
      BY <2>1, <2>2 DEF Chained, CheckInv, Follows, NextLine
    <2>4. ASSUME NEW log, IsLog(log), Chained(log, Len(log)), Agree(log)  PROVE Agree(log)'
      <3> SUFFICES ASSUME NEW k \in 1 .. at + 1, k <= Len(log), seen[k] = log[k]
                   PROVE  \A i \in 1 .. k : seen[i] = log[i]
        BY <2>1 DEF Agree
      <3>1. CASE k = at + 1  BY <2>1, <2>4, <3>1, AgreeExtends
      <3>2. CASE k # at + 1
        <4>1. k \in 1 .. at  BY <2>2, <3>2
        <4> QED  BY <2>4, <4>1 DEF Agree
      <3> QED  BY <3>1, <3>2
    <2>5. own' => Agree(written)' /\ \A log \in closings' : Agree(log)'
      <3> SUFFICES ASSUME own  PROVE Agree(written)' /\ \A log \in closings : Agree(log)'
        BY <2>1
      <3>1. Agree(written)'
        <4>1. \A log : log = written => Agree(log)'  BY <2>4 DEF WriterInv, CheckInv
        <4> QED  BY <2>1, <4>1 DEF Agree
      <3>2. \A log \in closings : Agree(log)'  BY <2>4 DEF WriterInv, CheckInv
      <3> QED  BY <3>1, <3>2
    <2>6. at' \in 0 .. Len(seen')  BY <2>1, <2>2
    <2>7. at' # 0 /\ expect' = Digest(seen'[at'])  BY <2>1, <2>2
    <2> QED  BY <2>1, <2>3, <2>5, <2>6, <2>7 DEF CheckInv, Chained
  <1> QED  BY <1>1, <1>2, <1>3, <1>4, <1>5, <1>6 DEF Next

\* Lines that were all checked and end like a log of Trace are that log.
LEMMA SameTipSameLog ==
  ASSUME CheckInv, at = Len(seen), NEW log, IsLog(log), Chained(log, Len(log)), Agree(log),
         expect = TipOf(log), log # <<>>
  PROVE  seen = log
  <1>1. /\ at \in Nat /\ Len(log) \in Nat /\ Len(log) >= 1  BY LogFacts DEF CheckInv
  <1>2. expect = Digest(log[Len(log)])  BY DEF TipOf
  <1>3. at # 0 /\ seen[at] = log[Len(log)]  BY <1>2, DigestFacts DEF CheckInv
  <1>4. seen[at].seq = at - 1 /\ log[Len(log)].seq = Len(log) - 1
    <2>1. at \in 1 .. at /\ Len(log) \in 1 .. Len(log)  BY <1>1, <1>3
    <2>2. Chained(seen, at)  BY DEF CheckInv
    <2>3. seen[at].seq = at - 1  BY <2>1, <2>2 DEF Chained
    <2>4. log[Len(log)].seq = Len(log) - 1  BY <2>1 DEF Chained
    <2> QED  BY <2>3, <2>4
  <1>5. at = Len(log)
    <2>1. at - 1 = Len(log) - 1  BY <1>3, <1>4
    <2> QED  BY <1>1, <2>1
  <1>6. \A i \in 1 .. at : seen[i] = log[i]
    BY <1>1, <1>3, <1>5 DEF Agree
  <1> QED  BY <1>5, <1>6, SameLog DEF CheckInv

\* A local verification that had the seal read a log that Trace sealed.
LEMMA SealedLog ==
  ASSUME WriterInv, CheckInv, own, Complete, SealMatches, seal.readable
  PROVE  seen \in closings
  <1>1. PICK log \in closings : seal = Seal(Len(log), TipOf(log))  BY DEF WriterInv
  <1>2. Len(log) = Len(seen) /\ TipOf(log) = expect
    BY <1>1 DEF SealMatches, Seal
  <1>3. IsLog(log) /\ Chained(log, Len(log)) /\ Agree(log)
    BY DEF WriterInv, CheckInv
  <1>4. CASE log # <<>>
    BY <1>2, <1>3, <1>4, SameTipSameLog DEF Complete
  <1>5. CASE log = <<>>
    <2>1. Len(seen) = 0 /\ IsLog(seen)  BY <1>2, <1>5, EmptyLog DEF CheckInv
    <2>2. seen = <<>>  BY <2>1, EmptyLog, SameLog
    <2> QED  BY <1>5, <2>2
  <1> QED  BY <1>4, <1>5

LEMMA ReportNext == WriterInv /\ CheckInv /\ ReportInv /\ [Next]_vars => ReportInv'
  <1> SUFFICES ASSUME WriterInv, CheckInv, ReportInv, [Next]_vars  PROVE ReportInv'  OBVIOUS
  <1>1. CASE \/ Open \/ BeginLine \/ EndLine \/ CountLine \/ EmitFails \/ FlushRest \/ BeginSeal
            \/ EndSeal \/ Crash \/ Tamper \/ LoseSeal \/ UNCHANGED vars
    <2>1. UNCHANGED <<reading, receipt>>
      BY <1>1 DEF Open, BeginLine, EndLine, CountLine, EmitFails, FlushRest, BeginSeal, EndSeal,
                  Crash, Tamper, LoseSeal, Touch, vars
    <2>2. closings \subseteq closings'
      <3>1. CASE EndSeal  BY <3>1 DEF EndSeal
      <3>2. CASE ~EndSeal
        <4>1. UNCHANGED closings
          BY <1>1, <3>2 DEF Open, BeginLine, EndLine, CountLine, EmitFails, FlushRest, BeginSeal,
                            Crash, Tamper, LoseSeal, Touch, vars, history
        <4> QED  BY <4>1
      <3> QED  BY <3>1, <3>2
    <2>3. own' => own
      BY <1>1 DEF Open, BeginLine, EndLine, CountLine, EmitFails, FlushRest, BeginSeal, EndSeal,
                  Crash, Tamper, LoseSeal, Touch, vars, history
    <2> QED  BY <2>1, <2>2, <2>3 DEF ReportInv, reading
  <1>2. CASE TakeReceipt
    BY <1>2 DEF TakeReceipt, ReportInv, reading, history
  <1>3. CASE LookChained
    BY <1>3 DEF LookChained, Say, ReportInv, history
  <1>4. CASE Load
    BY <1>4 DEF Load, ReportInv, history
  <1>5. CASE CheckLine
    BY <1>5 DEF CheckLine, ReportInv, history
  <1>6. CASE Refuse
    BY <1>6 DEF Refuse, Complete, Say, ReportInv, history
  <1>7. CASE Verify
    <2>1. CASE round = 1
      BY <1>7, <2>1, SealedLog DEF Verify, Complete, Say, ReportInv, history
    <2>2. CASE round = 2
      BY <1>7, <2>2 DEF Verify, Complete, ReceiptMatches, Say, ReportInv, history
    <2> QED  BY <2>1, <2>2 DEF ReportInv
  <1>8. CASE LookSealed
    BY <1>8 DEF LookSealed, Say, ReportInv, history
  <1> QED  BY <1>1, <1>2, <1>3, <1>4, <1>5, <1>6, <1>7, <1>8 DEF Next

\* A log that is reported as sealed is, record by record, one that Trace sealed
\* (trace.py:120-135, cli.py:222-249), whatever was put in its place.
THEOREM SealProves == Spec => []SealedIsAsWritten
  <1>1. ReportInv => SealedIsAsWritten  BY DEF ReportInv, SealedIsAsWritten
  <1> QED
    BY <1>1, WriterInit, WriterNext, ReaderInit, CheckNext, ReportNext, PTL DEF Spec

\* A log that is reconciled with a receipt is the one the receipt was given for
\* (trace.py:107-135), whatever was put in its place, its seal included.
THEOREM ReceiptProves == Spec => []ReceiptBindsTheRun
  <1>1. WriterInv /\ CheckInv /\ ReportInv => ReceiptBindsTheRun
    <2> SUFFICES ASSUME WriterInv, CheckInv, ReportInv, own, report = "reconciled",
                        NEW log \in closings, log # <<>>, TipOf(log) = receipt
                 PROVE  seen = log
      BY DEF ReceiptBindsTheRun
    <2>1. at = Len(seen) /\ expect = TipOf(log)  BY DEF ReportInv
    <2>2. IsLog(log) /\ Chained(log, Len(log)) /\ Agree(log)  BY DEF WriterInv, CheckInv
    <2> QED  BY <2>1, <2>2, SameTipSameLog
  <1> QED
    BY <1>1, WriterInit, WriterNext, ReaderInit, CheckNext, ReportNext, PTL DEF Spec

-----------------------------------------------------------------------------
LEMMA TypeInit == Init => TypeOK
  <1> SUFFICES ASSUME Init  PROVE TypeOK  OBVIOUS
  <1>1. DOMAIN lines = {} /\ IsLog(lines) /\ IsLog(seen) /\ IsLog(written) /\ at \in 0 .. Len(seen)
    BY EmptyLog DEF Init
  <1>2. IsSeal(seal)  BY DEF Init, NoSeal, IsSeal
  <1>3. opens \in 0 .. MaxOpens /\ touches \in 0 .. MaxTouches
    BY AuditTraceAssumption DEF Init, AuditTraceAssumption
  <1>4. AreLines(lines)  BY <1>1 DEF AreLines
  <1>5. /\ writer \in Writers /\ seq \in Nat /\ IsLine(pending)
        /\ reader \in {"idle", "load", "check", "look", "done"} /\ report \in Reports
    BY LineIsLine DEF Init, Reports, Writers, NoLine
  <1>6. sealUsed \in BOOLEAN /\ own \in BOOLEAN /\ moved \in BOOLEAN
    BY Zenon DEF Init
  <1>7. round \in 1 .. 2  BY DEF Init
  <1> QED  BY <1>1, <1>2, <1>3, <1>4, <1>5, <1>6, <1>7 DEF TypeOK

LEMMA LinesNext ==
  ASSUME TypeOK, WriterInv, [Next]_vars
  PROVE  AreLines(lines') /\ seq' \in Nat /\ IsSeal(seal') /\ IsLine(pending')
  <1>1. CASE Open
    BY <1>1, LogFacts DEF Open, ContinuedChain, TypeOK, AreLines, files
  <1>2. CASE BeginLine
    <2>1. PICK e : pending' = Line(seq, prev, e)  BY <1>2 DEF BeginLine
    <2> DEFINE new == Torn(pending')
    <2>2. lines' = Append(lines, new) /\ IsLine(pending') /\ IsLine(new)
      BY <1>2, <2>1, LineIsLine DEF BeginLine, TypeOK
    <2> HIDE DEF new
    <2>3. /\ IsLog(lines') /\ Len(lines') = Len(lines) + 1 /\ Len(lines) \in Nat
          /\ DOMAIN lines = 1 .. Len(lines) /\ DOMAIN lines' = 1 .. Len(lines')
          /\ \A i \in 1 .. Len(lines) : lines'[i] = lines[i]
          /\ lines'[Len(lines) + 1] = new
      BY <2>2, AppendLog, LogFacts DEF TypeOK, AreLines
    <2>4. AreLines(lines')
      <3> SUFFICES ASSUME NEW i \in 1 .. Len(lines) + 1  PROVE IsLine(lines'[i])
        BY <2>3 DEF AreLines
      <3>1. CASE i = Len(lines) + 1  BY <2>2, <2>3, <3>1
      <3>2. CASE i # Len(lines) + 1
        <4>1. i \in 1 .. Len(lines)  BY <2>3, <3>2
        <4> QED  BY <2>3, <4>1 DEF TypeOK, AreLines
      <3> QED  BY <3>1, <3>2
    <2> QED  BY <1>2, <2>2, <2>4 DEF BeginLine, TypeOK
  <1>3. CASE EndLine \/ FlushRest
    <2>1. /\ lines' = Completed(lines, pending) /\ UNCHANGED <<seq, seal>> /\ lines # <<>>
          /\ pending' \in {pending, NoLine}
      BY <1>3 DEF EndLine, FlushRest, WriterInv
    <2>2. AreLines(lines')  BY <2>1, CompletedLines DEF TypeOK
    <2> QED  BY <2>1, <2>2, LineIsLine DEF TypeOK, NoLine
  <1>4. CASE CountLine \/ EmitFails \/ Crash
    <2>1. /\ UNCHANGED files /\ seq' \in {0, seq, seq + 1} /\ pending' \in {pending, NoLine}
      BY <1>4 DEF CountLine, EmitFails, Crash
    <2> QED  BY <2>1, LineIsLine DEF TypeOK, NoLine, files
  <1>5. CASE BeginSeal  BY <1>5 DEF BeginSeal, NoSeal, IsSeal, TypeOK
  <1>6. CASE EndSeal  BY <1>6 DEF EndSeal, SealNow, Seal, IsSeal, TypeOK
  <1>7. CASE Tamper  BY <1>7 DEF Tamper, Touch, trace, TypeOK
  <1>8. CASE LoseSeal  BY <1>8 DEF LoseSeal, Touch, trace, NoSeal, IsSeal, TypeOK
  <1>9. CASE \/ TakeReceipt \/ LookChained \/ Load \/ CheckLine \/ Refuse \/ Verify
            \/ LookSealed \/ UNCHANGED vars
    BY <1>9 DEF TakeReceipt, LookChained, Load, CheckLine, Refuse, Verify, LookSealed, vars,
                files, trace, TypeOK
  <1> QED  BY <1>1, <1>2, <1>3, <1>4, <1>5, <1>6, <1>7, <1>8, <1>9 DEF Next

LEMMA ControlNext ==
  ASSUME TypeOK, [Next]_vars
  PROVE  /\ writer' \in Writers
         /\ reader' \in {"idle", "load", "check", "look", "done"}
         /\ report' \in Reports /\ sealUsed' \in BOOLEAN /\ own' \in BOOLEAN /\ moved' \in BOOLEAN
         /\ opens' \in 0 .. MaxOpens /\ touches' \in 0 .. MaxTouches
  <1>1. CASE Open
    BY <1>1, AuditTraceAssumption DEF Open, TypeOK, AuditTraceAssumption, reading, Writers
  <1>2. CASE BeginLine \/ EndLine \/ FlushRest \/ BeginSeal \/ EndSeal
    BY <1>2 DEF BeginLine, EndLine, FlushRest, BeginSeal, EndSeal, RunMoves, Busy, TypeOK, reading,
                history, Writers
  <1>3. CASE Tamper \/ LoseSeal
    BY <1>3, AuditTraceAssumption
    DEF Tamper, LoseSeal, Touch, TypeOK, AuditTraceAssumption, trace, reading, history
  <1>4. CASE CountLine \/ EmitFails \/ Crash \/ TakeReceipt \/ UNCHANGED vars
    BY <1>4 DEF CountLine, EmitFails, Crash, TakeReceipt, vars, TypeOK, trace, reading, history,
                Writers
  <1>5. CASE LookChained \/ Load \/ CheckLine
    BY <1>5 DEF LookChained, Load, CheckLine, Say, TypeOK, Reports, trace, history
  <1>6. CASE Refuse  BY <1>6 DEF Refuse, Say, TypeOK, Reports, trace, history
  <1>7. CASE Verify
    BY <1>7 DEF Verify, SealMatches, Say, TypeOK, Reports, IsSeal, trace, history
  <1>8. CASE LookSealed  BY <1>8 DEF LookSealed, Say, TypeOK, Reports, trace, history
  <1> QED  BY <1>1, <1>2, <1>3, <1>4, <1>5, <1>6, <1>7, <1>8 DEF Next

\* Whatever other hands leave, every variable keeps its type.
LEMMA TypeNext ==
  ASSUME TypeOK, WriterInv, WriterInv', CheckInv', ReportInv', [Next]_vars
  PROVE  TypeOK'
  BY LinesNext, ControlNext DEF TypeOK, WriterInv, CheckInv, ReportInv

\* The log stays lines, and the reader's place inside the copy it read, when
\* the log is written, torn, reopened or replaced meanwhile (trace.py:53-96,
\* 154-211).
THEOREM TraceTypeCorrect == Spec => []TypeOK
  <1>1. TypeOK /\ WriterInv /\ WriterInv' /\ CheckInv' /\ ReportInv' /\ [Next]_vars => TypeOK'
    BY TypeNext
  <1> QED
    BY <1>1, TypeInit, WriterInit, WriterNext, ReaderInit, CheckNext, ReportNext, PTL DEF Spec

-----------------------------------------------------------------------------
(* What nobody else touched.                                               *)

\* The lines up to n are whole, and Trace counted all it wrote.
WholeTo(log, n) == \A i \in 1 .. n : Whole(log[i]) /\ log[i] \notin uncounted
TipAt(log, n) == IF n = 0 THEN NoDigest ELSE Digest(log[n])

\* The lines that have their end.
Ended == IF writer \in {"writing", "owing"} THEN Len(lines) - 1 ELSE Len(lines)

\* The lines of runs that never died or failed in one are a chain, and the next
\* goes on with it, or was flushed and is its last.
LogHonest ==
  WholeTo(lines, Ended) =>
    /\ Chained(lines, Ended)
    /\ writer \in {"open", "writing", "owing", "sealing", "closed"} =>
         seq = Ended /\ prev = TipAt(lines, Ended)
    /\ writer = "flushed" => lines # <<>> /\ seq + 1 = Ended /\ lines[Ended] = pending

\* The line that is being written lacks its end.
TornWhileWritten == writer \in {"writing", "owing"} => ~Whole(lines[Len(lines)])

\* The seal of a closed run is its own; the receipt of an only run is its tip.
SealHonest == writer = "closed" => seal = Seal(seq, prev)
ReceiptHonest == opens <= 1 /\ receipt # NoDigest => writer = "closed" /\ receipt = prev

\* A reader that nothing moved under has the log, and a seal of it or none.
CopyHonest ==
  reader = "check" /\ ~moved =>
    /\ seen = lines
    /\ seal.readable /\ WholeTo(lines, Len(lines)) =>
         seal = Seal(Len(lines), TipAt(lines, Len(lines)))

AlarmInv ==
  /\ writer # "none" => opens >= 1
  /\ TornWhileWritten
  /\ touches = 0 => LogHonest /\ SealHonest /\ ReceiptHonest /\ CopyHonest
  /\ report \in {"broken", "mismatch"} => reader = "done"
  /\ NoFalseAlarm

LEMMA AlarmInit == Init => AlarmInv
  <1> SUFFICES ASSUME Init  PROVE AlarmInv  OBVIOUS
  <1>1. Ended = 0  BY EmptyLog DEF Init, Ended
  <1>2. LogHonest  BY <1>1 DEF Init, LogHonest, Chained
  <1>3. SealHonest /\ ReceiptHonest /\ CopyHonest
    BY DEF Init, SealHonest, ReceiptHonest, CopyHonest
  <1> QED  BY <1>2, <1>3 DEF Init, AlarmInv, NoFalseAlarm, TornWhileWritten

\* A log that Trace wrote to its end is a chain, where it is whole.
LEMMA WholeLogIsChain ==
  ASSUME WriterInv, LogHonest, TornWhileWritten, WholeTo(lines, Len(lines))
  PROVE  /\ Chained(lines, Len(lines))
         /\ writer \in {"open", "sealing", "closed"} => seq = Len(lines) /\ prev = TipAt(lines, Len(lines))
  <1>1. Len(lines) \in Nat /\ (lines # <<>> => Len(lines) >= 1)  BY LogFacts DEF WriterInv
  <1>2. writer \notin {"writing", "owing"}
    <2> SUFFICES ASSUME writer \in {"writing", "owing"}  PROVE FALSE  OBVIOUS
    <2>1. Len(lines) \in 1 .. Len(lines)  BY <1>1 DEF WriterInv
    <2> QED  BY <2>1 DEF WholeTo, TornWhileWritten
  <1> QED  BY <1>2 DEF LogHonest, Ended

\* What Trace does to a log that others left alone.
LEMMA LogHonestNext ==
  ASSUME TypeOK, WriterInv, LogHonest, TornWhileWritten,
         [Next]_vars, ~Tamper
  PROVE  LogHonest'
  <1>0. Len(lines) \in Nat /\ (lines # <<>> => Len(lines) >= 1)  BY LogFacts DEF WriterInv
  <1>1. CASE Open
    <2>1. /\ UNCHANGED <<lines, uncounted>> /\ writer' = "open" /\ seq' = Len(lines)
          /\ writer \in {"none", "closed", "dead"}
      BY <1>1 DEF Open, ContinuedChain, files
    <2>2. prev' = TipAt(lines, Len(lines))
      BY <1>0, <1>1, EmptyLog DEF Open, ContinuedChain, TipOf, TipAt
    <2> QED  BY <2>1, <2>2 DEF LogHonest, Ended, WholeTo, TipAt, Chained
  <1>2. CASE BeginLine
    <2> DEFINE new == Torn(pending')
    <2>1. lines' = Append(lines, new)  BY <1>2 DEF BeginLine
    <2> HIDE DEF new
    <2>3. /\ Len(lines') = Len(lines) + 1 /\ \A i \in 1 .. Len(lines) : lines'[i] = lines[i]
      BY <2>1, AppendLog DEF WriterInv
    <2>4. writer = "open" /\ writer' = "writing" /\ UNCHANGED <<seq, prev, uncounted>>
      BY <1>2 DEF BeginLine, history
    <2>5. Ended = Len(lines) /\ Ended' = Len(lines)  BY <1>0, <2>3, <2>4 DEF Ended
    <2>6. WholeTo(lines, Ended)' => WholeTo(lines, Len(lines))
      BY <2>3, <2>4, <2>5 DEF WholeTo
    <2>7. Chained(lines, Len(lines)) => Chained(lines', Len(lines))
      <3> SUFFICES ASSUME Chained(lines, Len(lines)), NEW k \in 1 .. Len(lines)
                   PROVE  /\ lines'[k].seq = k - 1
                          /\ lines'[k].prev = IF k = 1 THEN NoDigest ELSE Digest(lines'[k - 1])
        BY DEF Chained
      <3>1. k # 1 => k - 1 \in 1 .. Len(lines)  BY <1>0
      <3> QED  BY <2>3, <3>1 DEF Chained
    <2>8. TipAt(lines', Len(lines)) = TipAt(lines, Len(lines))
      BY <1>0, <2>3 DEF TipAt
    <2>9. ASSUME WholeTo(lines, Ended)'
          PROVE  Chained(lines', Ended') /\ seq' = Ended' /\ prev' = TipAt(lines', Ended')
      BY <2>4, <2>5, <2>6, <2>7, <2>8, <2>9 DEF LogHonest
    <2> QED  BY <2>4, <2>9 DEF LogHonest
  <1>3. CASE EndLine
    <2> DEFINE n == Len(lines) - 1
    <2>1. /\ lines' = Completed(lines, pending) /\ UNCHANGED <<seq, prev, pending, uncounted>>
          /\ lines # <<>> /\ writer' = "flushed" /\ writer = "writing"
      BY <1>3 DEF EndLine, WriterInv, history
    <2>2. IsLine(pending) /\ pending.seq = seq /\ pending.prev = prev
      BY <2>1 DEF TypeOK, WriterInv
    <2>3. \/ /\ n > 0 /\ Len(lines') = n /\ ~Whole(lines'[n])
          \/ /\ Len(lines') = n + 1
             /\ \A i \in 1 .. n : lines'[i] = lines[i]
             /\ lines'[n + 1] = pending
      BY <2>1, <2>2, CompletedLines DEF TypeOK
    <2>4. n \in Nat /\ Ended = n /\ Ended' = Len(lines')  BY <1>0, <2>1 DEF Ended
    <2> HIDE DEF n
    <2>5. CASE n > 0 /\ Len(lines') = n /\ ~Whole(lines'[n])
      <3>1. ~WholeTo(lines, Ended)'  BY <2>4, <2>5 DEF WholeTo
      <3> QED  BY <3>1 DEF LogHonest
    <2>6. CASE /\ Len(lines') = n + 1
               /\ \A i \in 1 .. n : lines'[i] = lines[i]
               /\ lines'[n + 1] = pending
      <3> SUFFICES ASSUME WholeTo(lines, Ended)'
                   PROVE  /\ Chained(lines', n + 1)
                          /\ lines' # <<>> /\ seq + 1 = n + 1 /\ lines'[n + 1] = pending
        BY <2>1, <2>4, <2>6 DEF LogHonest
      <3>1. WholeTo(lines, n)
        <4> SUFFICES ASSUME NEW i \in 1 .. n  PROVE Whole(lines[i]) /\ lines[i] \notin uncounted
          BY DEF WholeTo
        <4>1. i \in 1 .. n + 1  BY <2>4
        <4> QED  BY <2>1, <2>4, <2>6, <4>1 DEF WholeTo
      <3>2. Chained(lines, n) /\ seq = n /\ prev = TipAt(lines, n)
        BY <2>1, <2>4, <3>1 DEF LogHonest
      <3>3. Chained(lines', n + 1)
        <4> SUFFICES ASSUME NEW k \in 1 .. n + 1
                     PROVE  /\ lines'[k].seq = k - 1
                            /\ lines'[k].prev = IF k = 1 THEN NoDigest ELSE Digest(lines'[k - 1])
          BY DEF Chained
        <4>1. CASE k = n + 1
          <5>1. lines'[k] = pending /\ k - 1 = n  BY <2>4, <2>6, <4>1
          <5>2. k # 1 => n \in 1 .. n /\ n # 0  BY <2>4, <4>1
          <5>3. k = 1 => n = 0  BY <2>4, <4>1
          <5> QED  BY <2>2, <2>6, <3>2, <5>1, <5>2, <5>3 DEF TipAt
        <4>2. CASE k # n + 1
          <5>1. k \in 1 .. n /\ (k # 1 => k - 1 \in 1 .. n)  BY <2>4, <4>2
          <5> QED  BY <2>6, <3>2, <5>1 DEF Chained
        <4> QED  BY <4>1, <4>2
      <3>4. lines' # <<>>  BY <2>4, <2>6, EmptyLog
      <3> QED  BY <2>6, <3>2, <3>3, <3>4
    <2> QED  BY <2>3, <2>5, <2>6
  <1>4. CASE CountLine
    <2>1. /\ UNCHANGED <<lines, uncounted>> /\ writer = "flushed" /\ writer' = "open"
          /\ seq' = seq + 1 /\ prev' = Digest(pending)
      BY <1>4 DEF CountLine, files
    <2>2. Ended = Len(lines) /\ Ended' = Ended  BY <2>1 DEF Ended
    <2>3. WholeTo(lines, Ended)' => WholeTo(lines, Ended)  BY <2>1, <2>2 DEF WholeTo
    <2>4. ASSUME WholeTo(lines, Ended)
          PROVE  Chained(lines, Ended) /\ seq' = Ended /\ prev' = TipAt(lines, Ended)
      BY <1>0, <2>1, <2>2, <2>4 DEF LogHonest, TipAt
    <2> QED  BY <2>1, <2>2, <2>3, <2>4 DEF LogHonest, Chained, TipAt
  <1>5. CASE EmitFails
    <2>1. UNCHANGED <<lines, seq, prev>>  BY <1>5 DEF EmitFails, files
    <2>2. CASE writer = "writing" /\ writer' = "owing" /\ UNCHANGED uncounted
      BY <2>1, <2>2 DEF LogHonest, Ended, WholeTo, Chained, TipAt
    <2>3. CASE writer = "flushed" /\ writer' = "open" /\ uncounted' = uncounted \cup {pending}
      <3>1. Ended = Len(lines) /\ Ended' = Ended  BY <2>1, <2>3 DEF Ended
      <3>2. ASSUME WholeTo(lines, Ended)'  PROVE FALSE
        <4>1. WholeTo(lines, Ended)  BY <2>1, <2>3, <3>1, <3>2 DEF WholeTo
        <4>2. lines # <<>> /\ lines[Ended] = pending  BY <2>3, <4>1 DEF LogHonest
        <4>3. Ended \in 1 .. Ended  BY <1>0, <3>1, <4>2
        <4> QED  BY <2>1, <2>3, <3>1, <3>2, <4>2, <4>3 DEF WholeTo
      <3> QED  BY <3>2 DEF LogHonest
    <2> QED  BY <1>5, <2>2, <2>3 DEF EmitFails, NotCounted
  <1>6. CASE FlushRest
    <2> DEFINE n == Len(lines) - 1
    <2>1. /\ lines' = Completed(lines, pending) /\ uncounted' = uncounted \cup {pending}
          /\ lines # <<>> /\ writer' = "open"
      BY <1>6 DEF FlushRest, NotCounted, WriterInv
    <2>2. \/ n > 0 /\ Len(lines') = n /\ ~Whole(lines'[n])
          \/ Len(lines') = n + 1 /\ lines'[n + 1] = pending
      BY <2>1, CompletedLines DEF TypeOK
    <2>3. n \in Nat /\ Ended' = Len(lines')  BY <1>0, <2>1 DEF Ended
    <2> HIDE DEF n
    <2>4. Ended' \in 1 .. Ended'  BY <2>2, <2>3
    <2>5. ~Whole(lines'[Ended']) \/ lines'[Ended'] \in uncounted'  BY <2>1, <2>2, <2>3
    <2>6. ~WholeTo(lines, Ended)'  BY <2>4, <2>5 DEF WholeTo
    <2> QED  BY <2>6 DEF LogHonest
  <1>7. CASE BeginSeal \/ EndSeal
    <2>1. /\ UNCHANGED <<lines, seq, prev, uncounted>>
          /\ writer \in {"open", "sealing"} /\ writer' \in {"sealing", "closed"}
      BY <1>7 DEF BeginSeal, EndSeal, history
    <2> QED  BY <2>1 DEF LogHonest, Ended, WholeTo, Chained, TipAt
  <1>8. CASE Crash
    <2>1. UNCHANGED <<lines, uncounted>> /\ writer' = "dead"  BY <1>8 DEF Crash, files, history
    <2>2. WholeTo(lines, Len(lines)) => Chained(lines, Len(lines))  BY WholeLogIsChain
    <2> QED  BY <2>1, <2>2 DEF LogHonest, Ended, WholeTo, Chained
  <1>9. CASE \/ TakeReceipt \/ LoseSeal \/ LookChained \/ Load \/ CheckLine \/ Refuse \/ Verify
            \/ LookSealed \/ UNCHANGED vars
    <2>1. UNCHANGED <<lines, writer, seq, prev, pending, uncounted>>
      BY <1>9 DEF TakeReceipt, LoseSeal, Touch, LookChained, Load, CheckLine, Refuse, Verify,
                  LookSealed, vars, files, trace, history
    <2> QED  BY <2>1 DEF LogHonest, Ended, WholeTo, Chained, TipAt
  <1> QED  BY <1>1, <1>2, <1>3, <1>4, <1>5, <1>6, <1>7, <1>8, <1>9 DEF Next

\* What the reader has of such a log.
LEMMA CopyHonestNext ==
  ASSUME WriterInv, LogHonest, SealHonest, CopyHonest, TornWhileWritten,
         [Next]_vars, ~Tamper, ~LoseSeal
  PROVE  CopyHonest'
  <1>1. CASE Load
    <2>1. /\ seen' = lines /\ UNCHANGED <<lines, seal, uncounted>>
          /\ ~moved' /\ seal.readable => writer = "closed"
      BY <1>1 DEF Load, files, history
    <2>2. ASSUME ~moved', seal.readable, WholeTo(lines, Len(lines))
          PROVE  seal = Seal(Len(lines), TipAt(lines, Len(lines)))
      BY <2>1, <2>2, WholeLogIsChain DEF SealHonest
    <2> QED  BY <2>1, <2>2 DEF CopyHonest, WholeTo, TipAt
  <1>2. CASE BeginLine \/ EndLine \/ FlushRest \/ BeginSeal \/ EndSeal
    <2>1. reader' = reader /\ moved' = (moved \/ Busy)
      BY <1>2 DEF BeginLine, EndLine, FlushRest, BeginSeal, EndSeal, RunMoves, reading
    <2> QED  BY <2>1 DEF CopyHonest, Busy
  <1>3. CASE \/ Open \/ CountLine \/ EmitFails \/ Crash \/ TakeReceipt \/ CheckLine
            \/ UNCHANGED vars
    <2>1. UNCHANGED <<files, reader, seen, moved>>
      BY <1>3 DEF Open, CountLine, EmitFails, Crash, TakeReceipt, CheckLine, vars, reading, history
    <2>2. uncounted \subseteq uncounted'
      BY <1>3 DEF Open, CountLine, EmitFails, NotCounted, Crash, TakeReceipt, CheckLine, vars, history
    <2>3. WholeTo(lines, Len(lines))' => WholeTo(lines, Len(lines))
      BY <2>1, <2>2 DEF WholeTo, files
    <2> QED  BY <2>1, <2>3 DEF CopyHonest, WholeTo, TipAt, files
  <1>4. CASE LookChained \/ Refuse \/ Verify \/ LookSealed
    <2>1. reader' # "check"  BY <1>4 DEF LookChained, Refuse, Verify, LookSealed, Say
    <2> QED  BY <2>1 DEF CopyHonest
  <1> QED  BY <1>1, <1>2, <1>3, <1>4 DEF Next

\* What Trace seals, and what a receipt of it says.
LEMMA SealHonestNext ==
  ASSUME TypeOK, SealHonest, ReceiptHonest, writer # "none" => opens >= 1,
         [Next]_vars, ~Tamper, ~LoseSeal
  PROVE  /\ SealHonest' /\ ReceiptHonest'
         /\ writer' # "none" => opens' >= 1
  <1>0. opens \in Nat  BY AuditTraceAssumption DEF TypeOK, AuditTraceAssumption
  <1>1. CASE Open
    <2>1. /\ opens' = opens + 1 /\ writer' = "open" /\ receipt' = receipt
          /\ writer \in {"none", "closed", "dead"}
      BY <1>1 DEF Open
    <2>2. opens' <= 1 /\ receipt # NoDigest => FALSE
      BY <1>0, <2>1 DEF ReceiptHonest
    <2> QED  BY <1>0, <2>1, <2>2 DEF SealHonest, ReceiptHonest
  <1>2. CASE \/ BeginLine \/ EndLine \/ CountLine \/ EmitFails \/ FlushRest \/ BeginSeal \/ EndSeal
            \/ Crash
    <2>1. /\ UNCHANGED <<opens, receipt>> /\ writer \notin {"none", "closed"} /\ writer' # "none"
          /\ writer' = "closed" => seal' = Seal(seq, prev) /\ UNCHANGED <<seq, prev>>
      BY <1>2 DEF BeginLine, EndLine, CountLine, EmitFails, FlushRest, BeginSeal, EndSeal, Crash,
                  SealNow
    <2> QED  BY <2>1 DEF SealHonest, ReceiptHonest
  <1>3. CASE TakeReceipt
    <2>1. /\ receipt' = (IF seal.readable THEN seal.tip ELSE NoDigest)
          /\ writer = "closed" /\ UNCHANGED <<seal, writer, seq, prev, opens>>
      BY <1>3 DEF TakeReceipt, files, trace
    <2>2. receipt' # NoDigest => receipt' = prev  BY <2>1 DEF SealHonest, Seal
    <2> QED  BY <2>1, <2>2 DEF SealHonest, ReceiptHonest
  <1>4. CASE LookChained \/ Load \/ CheckLine \/ Refuse \/ Verify \/ LookSealed \/ UNCHANGED vars
    <2>1. UNCHANGED <<seal, writer, seq, prev, opens, receipt>>
      BY <1>4 DEF LookChained, Load, CheckLine, Refuse, Verify, LookSealed, vars, files, trace
    <2> QED  BY <2>1 DEF SealHonest, ReceiptHonest
  <1> QED  BY <1>1, <1>2, <1>3, <1>4 DEF Next

\* A reader that found fault with a log nobody touched.
LEMMA RefusalHasCause ==
  ASSUME TypeOK, WriterInv, CheckInv, ReportInv, LogHonest, ReceiptHonest, CopyHonest,
         TornWhileWritten, Refuse
  PROVE  \/ moved \/ \E i \in DOMAIN seen : ~Whole(seen[i]) \/ seen[i] \in uncounted
         \/ round = 2 /\ opens > 1
  <1> SUFFICES ASSUME ~moved, \A i \in DOMAIN seen : Whole(seen[i]) /\ seen[i] \notin uncounted
               PROVE  round = 2 /\ opens > 1
    OBVIOUS
  <1>1. reader = "check"  BY DEF Refuse, Complete
  <1>2. seen = lines /\ Len(lines) \in Nat /\ DOMAIN lines = 1 .. Len(lines)
    BY <1>1, LogFacts DEF CopyHonest, WriterInv
  <1>3. WholeTo(lines, Len(lines))  BY <1>2 DEF WholeTo
  <1>4. Chained(seen, Len(seen))  BY <1>2, <1>3, WholeLogIsChain
  <1>5. seal.readable => seal = Seal(Len(lines), TipAt(lines, Len(lines)))
    BY <1>1, <1>3 DEF CopyHonest
  <1>6. at \in 0 .. Len(seen) /\ expect = TipAt(seen, at)  BY DEF CheckInv, TipAt
  <1>7. ~(at < Len(seen) /\ ~Follows)
    <2> SUFFICES ASSUME at < Len(seen)  PROVE Follows  OBVIOUS
    <2>1. at + 1 \in 1 .. Len(seen) /\ (at + 1) - 1 = at /\ (at + 1 = 1 <=> at = 0)  BY <1>2, <1>6
    <2>2. Whole(NextLine)  BY <1>2, <2>1 DEF NextLine
    <2>3. NextLine.seq = at /\ NextLine.prev = expect
      BY <1>4, <1>6, <2>1 DEF NextLine, Chained, TipAt
    <2> QED  BY <2>2, <2>3 DEF Follows
  <1>8. Complete => SealMatches
    BY <1>2, <1>5, <1>6 DEF Complete, SealMatches, Seal
  <1>9. Complete /\ round = 2 /\ ~ReceiptMatches  BY <1>7, <1>8 DEF Refuse
  <1>10. receipt # NoDigest /\ expect = TipAt(lines, Len(lines))
    BY <1>2, <1>6, <1>9 DEF ReportInv, Complete
  <1>11. ~(opens <= 1)
    <2> SUFFICES ASSUME opens <= 1  PROVE FALSE  OBVIOUS
    <2>1. writer = "closed" /\ receipt = prev  BY <1>10 DEF ReceiptHonest
    <2>2. prev = TipAt(lines, Len(lines))  BY <1>3, <2>1, WholeLogIsChain
    <2> QED  BY <1>9, <1>10, <2>1, <2>2 DEF ReceiptMatches
  <1>12. opens \in Nat  BY AuditTraceAssumption DEF TypeOK, AuditTraceAssumption
  <1> QED  BY <1>9, <1>11, <1>12

\* What was reported stays; a run that moves and hands that touch do not unmake
\* its cause.
LEMMA CauseStays ==
  ASSUME TypeOK, NoFalseAlarm, report \in {"broken", "mismatch"} => reader = "done", [Next]_vars, ~Refuse
  PROVE  NoFalseAlarm' /\ (report' \in {"broken", "mismatch"} => reader' = "done")
  <1>0. opens \in Nat /\ touches \in Nat
    BY AuditTraceAssumption DEF TypeOK, AuditTraceAssumption
  <1>3. uncounted \subseteq uncounted'
    BY DEF Next, Open, BeginLine, EndLine, CountLine, EmitFails, FlushRest, NotCounted, BeginSeal,
           EndSeal, Crash, TakeReceipt, Tamper, LoseSeal, Touch, LookChained, Load, CheckLine, Refuse,
           Verify, LookSealed, vars, history
  <1>1. CASE LookChained \/ Load \/ CheckLine \/ Verify \/ LookSealed
    <2>1. reader # "done"  BY <1>1 DEF LookChained, Load, CheckLine, Verify, Complete, LookSealed
    <2>2. report' \notin {"broken", "mismatch"}
      BY <1>1, <2>1 DEF LookChained, Load, CheckLine, Verify, LookSealed, Say
    <2> QED  BY <2>2 DEF NoFalseAlarm
  <1>2. CASE \/ Open \/ BeginLine \/ EndLine \/ CountLine \/ EmitFails \/ FlushRest \/ BeginSeal
            \/ EndSeal \/ Crash \/ TakeReceipt \/ Tamper \/ LoseSeal \/ UNCHANGED vars
    <2>1. UNCHANGED <<reader, report, seen>>
      BY <1>2 DEF Open, BeginLine, EndLine, CountLine, EmitFails, FlushRest, BeginSeal, EndSeal, Crash,
                  TakeReceipt, Tamper, LoseSeal, Touch, vars, reading
    <2>2. moved => moved'
      BY <1>2 DEF Open, BeginLine, EndLine, CountLine, EmitFails, FlushRest, BeginSeal, EndSeal, Crash,
                  TakeReceipt, Tamper, LoseSeal, Touch, vars, RunMoves
    <2>3. (touches' = touches \/ touches' = touches + 1) /\ (opens' = opens \/ opens' = opens + 1)
      BY <1>2 DEF Open, BeginLine, EndLine, CountLine, EmitFails, FlushRest, BeginSeal, EndSeal, Crash,
                  TakeReceipt, Tamper, LoseSeal, Touch, vars, trace
    <2>4. (touches > 0 => touches' > 0) /\ (opens > 1 => opens' > 1)  BY <1>0, <2>3
    <2> QED  BY <1>3, <2>1, <2>2, <2>4 DEF NoFalseAlarm
  <1> QED  BY <1>1, <1>2 DEF Next

LEMMA AlarmNext ==
  ASSUME TypeOK, WriterInv, CheckInv, ReportInv, AlarmInv, [Next]_vars
  PROVE  AlarmInv'
  <1>0. touches \in Nat  BY AuditTraceAssumption DEF TypeOK, AuditTraceAssumption
  <1>1. touches' = 0 => touches = 0 /\ ~Tamper /\ ~LoseSeal
    <2>1. Tamper \/ LoseSeal => touches' = touches + 1  BY DEF Tamper, LoseSeal, Touch
    <2>2. ~Tamper /\ ~LoseSeal => touches' = touches
      BY DEF Next, Open, BeginLine, EndLine, CountLine, EmitFails, FlushRest, BeginSeal, EndSeal, Crash,
             TakeReceipt, LookChained, Load, CheckLine, Refuse, Verify, LookSealed, vars
    <2> QED  BY <1>0, <2>1, <2>2
  <1>2. touches' = 0 => LogHonest' /\ SealHonest' /\ ReceiptHonest' /\ CopyHonest'
    BY <1>1, LogHonestNext, SealHonestNext, CopyHonestNext DEF AlarmInv
  <1>3. TornWhileWritten'
    <2>1. CASE BeginLine
      <3>1. PICK e : pending' = Line(seq, prev, e)  BY <2>1 DEF BeginLine
      <3> DEFINE new == Torn(pending')
      <3>2. ~Whole(new)  BY <3>1, LineIsLine DEF TypeOK
      <3>3. lines' = Append(lines, new)  BY <2>1 DEF BeginLine
      <3> HIDE DEF new
      <3> QED  BY <3>2, <3>3, AppendLog DEF WriterInv, TornWhileWritten
    <2>2. CASE ~BeginLine
      <3>1. writer' \in {"writing", "owing"} => writer \in {"writing", "owing"} /\ UNCHANGED lines
        BY <2>2 DEF Next, Open, EndLine, CountLine, EmitFails, FlushRest, BeginSeal, EndSeal, Crash,
                    TakeReceipt, Tamper, LoseSeal, Touch, LookChained, Load, CheckLine, Refuse, Verify,
                    LookSealed, vars, files, trace
      <3> QED  BY <3>1 DEF AlarmInv, TornWhileWritten
    <2> QED  BY <2>1, <2>2
  <1>4. writer' # "none" => opens' >= 1
    <2>1. CASE Open
      <3>1. opens' = opens + 1 /\ opens \in Nat
        BY <2>1, AuditTraceAssumption DEF Open, TypeOK, AuditTraceAssumption
      <3> QED  BY <3>1
    <2>2. CASE ~Open
      <3>1. opens' = opens /\ (writer' # "none" => writer # "none")
        BY <2>2 DEF Next, BeginLine, EndLine, CountLine, EmitFails, FlushRest, BeginSeal, EndSeal,
                    Crash, TakeReceipt, Tamper, LoseSeal, Touch, LookChained, Load, CheckLine,
                    Refuse, Verify, LookSealed, vars, trace
      <3> QED  BY <3>1 DEF AlarmInv
    <2> QED  BY <2>1, <2>2
  <1>5. NoFalseAlarm' /\ (report' \in {"broken", "mismatch"} => reader' = "done")
    <2>1. CASE Refuse
      <3>1. /\ reader' = "done" /\ report' = (IF round = 1 THEN "broken" ELSE "mismatch")
            /\ UNCHANGED <<seen, moved, touches, opens, uncounted>>
        BY <2>1 DEF Refuse, Say, trace, history
      <3>2. CASE touches = 0
        <4>1. \/ moved \/ \E i \in DOMAIN seen : ~Whole(seen[i]) \/ seen[i] \in uncounted
              \/ round = 2 /\ opens > 1
          BY <2>1, <3>2, RefusalHasCause DEF AlarmInv
        <4> QED  BY <3>1, <4>1 DEF NoFalseAlarm
      <3>3. CASE touches # 0  BY <1>0, <3>1, <3>3 DEF NoFalseAlarm
      <3> QED  BY <3>2, <3>3
    <2>2. CASE ~Refuse  BY <2>2, CauseStays DEF AlarmInv
    <2> QED  BY <2>1, <2>2
  <1> QED  BY <1>2, <1>3, <1>4, <1>5 DEF AlarmInv

\* A log that is reported as broken, or as another than its receipt was given
\* for, was torn by a crash, holds a line that an interrupted emit left written
\* and uncounted, was written while it was read, opened again, or changed by
\* others: nothing that an undisturbed run does raises the alarm
\* (trace.py:101-135, 154-211).
THEOREM AlarmsHaveACause == Spec => []NoFalseAlarm
  <1>1. AlarmInv => NoFalseAlarm  BY DEF AlarmInv
  <1>2. TypeOK /\ WriterInv /\ CheckInv /\ ReportInv /\ AlarmInv /\ [Next]_vars => AlarmInv'
    BY AlarmNext
  <1> QED
    BY <1>1, <1>2, AlarmInit, TraceTypeCorrect, WriterInit, WriterNext, ReaderInit, CheckNext,
       ReportNext, PTL DEF Spec
=============================================================================
