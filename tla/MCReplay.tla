------------------------------ MODULE MCReplay ------------------------------
(***************************************************************************)
(* Instances of Replay: a three-step capability shaped like the shipped    *)
(* ones (sign on, fill in, submit), with one recoverable condition and one *)
(* business outcome.                                                       *)
(***************************************************************************)
EXTENDS Replay

\* Condition 1 is recoverable and armed from the first step on, as a session
\* expiry is; condition 2 is an outcome armed from the middle step on.
MCArmedAfter  == [c \in 1 .. 2 |-> IF c = 1 THEN 0 ELSE 1]
MCMaxFires    == [c \in 1 .. 2 |-> IF c = 1 THEN 1 ELSE 2]
RetryCurrent  == [c \in 1 .. 2 |-> -1]
FromFirst     == [c \in 1 .. 2 |-> IF c = 1 THEN 0 ELSE -1]
FromLast      == [c \in 1 .. 2 |-> IF c = 1 THEN 2 ELSE -1]
=============================================================================
