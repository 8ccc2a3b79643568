--------------------------- MODULE ResultContract ---------------------------
(***************************************************************************)
(* What a caller of the replay engine is promised (src/src/hands/results.py*)
(* and the docstring of replay.py): a call returns exactly one verdict, and*)
(* a verdict that claims that nothing happened is never given once a       *)
(* consequential request left, nor is doubt claimed without one.           *)
(***************************************************************************)
VARIABLES
  running,     \* is a call in progress?
  dispatched,  \* has a consequential request left in this call?
  verdict      \* what the last call returned, "NONE" during a call

Definite   == {"SUCCESS", "BUSINESS_OUTCOME"}
NothingRan == {"PRECONDITION_FAILED", "FAILURE", "OFF_ALLOWLIST"}
Refusals   == {"INVALID_PARAMETERS", "REVIEW_REQUIRED"}

Init == running = FALSE /\ dispatched = FALSE /\ verdict = "NONE"

Refuse ==
  /\ ~running
  /\ verdict' \in Refusals
  /\ dispatched' = FALSE
  /\ UNCHANGED running

Accept ==
  /\ ~running
  /\ running' = TRUE
  /\ dispatched' = FALSE
  /\ verdict' = "NONE"

Dispatch ==
  /\ running
  /\ dispatched' = TRUE
  /\ UNCHANGED <<running, verdict>>

\* The last act of a call may itself be what dispatched.
Answer ==
  /\ running
  /\ running' = FALSE
  /\ dispatched' \in {dispatched, TRUE}
  /\ verdict' \in Definite \cup (IF dispatched' THEN {"UNRESOLVED"} ELSE NothingRan)

Next == Refuse \/ Accept \/ Dispatch \/ Answer

Spec == Init /\ [][Next]_<<running, dispatched, verdict>>
=============================================================================
