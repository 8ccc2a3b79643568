----------------------------- MODULE Settlement -----------------------------
(***************************************************************************)
(* What the twin promises (the docstring of src/src/hands/reconcile.py): a *)
(* verdict is a statement about the observation window.  Durable state is  *)
(* looked at once before anything is sent and once after the executor      *)
(* answered, and a settled verdict tells what those two looks truly saw.   *)
(* Durable state changes whenever it likes: nothing is said about by whom. *)
(***************************************************************************)
CONSTANTS Shares, Target, Records, From, To

VARIABLES
  durable,   \* share -> status, in the system of record
  stage,     \* "before", "open" (the window), "closed", "over"
  first,     \* the record as it was at the first look
  last,      \* the record as it was at the last look
  asked,     \* has the twin's executor sent its request?
  verdict    \* "NONE" until the end

vars == <<durable, stage, first, last, asked, verdict>>

Init ==
  /\ durable \in Records
  /\ stage = "before"
  /\ first \in Records /\ last \in Records
  /\ asked = FALSE
  /\ verdict = "NONE"

Change ==
  /\ durable' \in Records
  /\ UNCHANGED <<stage, first, last, asked, verdict>>

LookBefore ==
  /\ stage = "before"
  /\ stage' = "open"
  /\ first' = durable
  /\ UNCHANGED <<durable, last, asked, verdict>>

LookAfter ==
  /\ stage = "open"
  /\ stage' = "closed"
  /\ last' = durable
  /\ UNCHANGED <<durable, first, asked, verdict>>

\* The request may change durable state at once.
Ask ==
  /\ stage = "open"
  /\ ~asked
  /\ asked' = TRUE
  /\ durable' \in Records
  /\ UNCHANGED <<stage, first, last, verdict>>

Truthful(v) ==
  /\ v = "COMMITTED"     => stage = "closed" /\ first[Target] = From /\ last[Target] = To
  /\ v = "NOT_COMMITTED" => stage = "closed" /\ first[Target] = From /\ last[Target] = From
  /\ v = "MISMATCH"      => stage = "closed" /\ first[Target] = From /\ last[Target] \in {From, To}

\* A refusal says that nothing was asked.
Conclude ==
  /\ stage # "over"
  /\ stage' = "over"
  /\ verdict' \in {"COMMITTED", "NOT_COMMITTED", "MISMATCH", "UNVERIFIABLE", "REFUSED"}
  /\ Truthful(verdict')
  /\ verdict' = "REFUSED" => ~asked
  /\ UNCHANGED <<durable, first, last, asked>>

Next == Change \/ LookBefore \/ LookAfter \/ Ask \/ Conclude

Spec == Init /\ [][Next]_vars
=============================================================================
