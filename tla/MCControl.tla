------------------------------ MODULE MCControl ------------------------------
(***************************************************************************)
(* Instances of ControlHandoff: one operator, or two that post to the same *)
(* console at any moment.                                                  *)
(***************************************************************************)
EXTENDS ControlHandoff

CONSTANTS ann, bob

One  == {ann}
Both == {ann, bob}
=============================================================================
