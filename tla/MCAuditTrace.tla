---------------------------- MODULE MCAuditTrace ----------------------------
(***************************************************************************)
(* Instances of AuditTrace: a short log, and what can be done to it.       *)
(***************************************************************************)
EXTENDS AuditTrace, TLC

\* No definition tells one event from another.
Symmetry == Permutations(Events)

Without(log, i) == SubSeq(log, 1, i - 1) \o SubSeq(log, i + 1, Len(log))

Altered(log) == {[log EXCEPT ![i].event = e] : i \in DOMAIN log, e \in Events}
Dropped(log) == {Without(log, i) : i \in DOMAIN log}
Doubled(log) ==
  IF Len(log) > 2 THEN {} ELSE {SubSeq(log, 1, i) \o SubSeq(log, i, Len(log)) : i \in DOMAIN log}
Swapped(log) ==
  {[log EXCEPT ![i] = log[i + 1], ![i + 1] = log[i]] : i \in 1 .. Len(log) - 1}

\* The chain computed anew behind a change, as somebody who knows its rule can.
Rechained(log) ==
  LET new[i \in 0 .. Len(log)] ==
        IF i = 0 THEN <<>> ELSE Append(new[i - 1], Line(i - 1, TipOf(new[i - 1]), log[i].event))
  IN new[Len(log)]

MCForgeries(log) ==
  LET edits == Altered(log) \cup Dropped(log) \cup Doubled(log) \cup Swapped(log)
  IN (edits \cup {Rechained(edit) : edit \in edits}) \ {log}
=============================================================================
