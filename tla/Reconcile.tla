----------------------------- MODULE Reconcile ------------------------------
(***************************************************************************)
(* The reconciler (src/src/hands/reconcile.py): a judgment on two images   *)
(* of one member's shares and on the kind of result the executor returned. *)
(* The order of the code's tests only chooses the wording of a reason.     *)
(***************************************************************************)
EXTENDS Integers

CONSTANTS
  Shares,    \* the shares on the member record
  Target,    \* expected.share_id
  Statuses,  \* what the status cell of a share can say
  From,      \* expected.from_status
  To         \* expected.to_status

Absent == "ABSENT"  \* the share is not on the record

ASSUME ReconcileAssumption ==
  /\ Target \in Shares
  /\ {From, To} \subseteq Statuses
  /\ From # To
  /\ Absent \notin Statuses

Records == [Shares -> Statuses \cup {Absent}]

\* An observation: of the expected member (right) or of another one.
Images == [read : BOOLEAN, right : BOOLEAN, share : Records]
NoImage == [read |-> FALSE, right |-> FALSE, share |-> [s \in Shares |-> Absent]]

Verdicts == {"COMMITTED", "NOT_COMMITTED", "MISMATCH", "UNVERIFIABLE"}
Settled  == {"COMMITTED", "NOT_COMMITTED"}

-----------------------------------------------------------------------------
\* A claim that rounds doubt to a no.
DoubtIsNo(kind) == IF kind = "SUCCESS" THEN "yes" ELSE "no"

\* What the executor's result claims about the effect.
Committed(kind) ==
  CASE kind = "SUCCESS"    -> "yes"
    [] kind = "UNRESOLVED" -> "unknown"
    [] OTHER               -> "no"

\* Images of whoever the verifier happened to look up.
AnyMember(pre, post) == pre.read /\ post.read

\* Both images, and both of the expected member.
Comparable(pre, post) ==
  /\ pre.read /\ post.read
  /\ pre.right /\ post.right

\* The images decide: the target started where it was expected to.
Decides(pre, post) ==
  /\ Comparable(pre, post)
  /\ pre.share[Target] = From
  /\ post.share[Target] \in {From, To}

Contradicts(claim, status) == <<claim, status>> \in {<<"no", To>>, <<"yes", From>>}

VerdictOn(pre, post, kind) ==
  LET now == post.share[Target]
  IN CASE ~Decides(pre, post)                                         -> "UNVERIFIABLE"
       [] Decides(pre, post) /\ Contradicts(Committed(kind), now)     -> "MISMATCH"
       [] Decides(pre, post) /\ ~Contradicts(Committed(kind), now)
            /\ now = To                                               -> "COMMITTED"
       [] OTHER                                                       -> "NOT_COMMITTED"

\* Advice that forgets what is unknown.
RetryUnlessCommitted(pre, post, kind) ==
  VerdictOn(pre, post, kind) # "COMMITTED" /\ kind # "BUSINESS_OUTCOME"

\* A refusal of the server is not worth a retry: same input, same answer.
RetryEligible(pre, post, kind) ==
  VerdictOn(pre, post, kind) = "NOT_COMMITTED" /\ kind # "BUSINESS_OUTCOME"

\* The target counted as collateral.
AllChanges(pre, post) ==
  {s \in Shares : Comparable(pre, post) /\ pre.share[s] # post.share[s]}

\* Going through the shares of the first image only.
ChangesOfBefore(pre, post) ==
  {s \in Shares \ {Target} : /\ Comparable(pre, post)
                             /\ pre.share[s] \notin {Absent, post.share[s]}}

\* The other shares that changed; reported, and without weight.
Collateral(pre, post) ==
  {s \in Shares \ {Target} : Comparable(pre, post) /\ pre.share[s] # post.share[s]}
=============================================================================
