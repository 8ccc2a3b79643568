----------------------------- MODULE MCDiscovery -----------------------------
(***************************************************************************)
(* An instance of Discovery shaped like the member lookup: a field to fill *)
(* in, a submit that posts and a link; one declared outcome.               *)
(***************************************************************************)
EXTENDS Discovery

MCKind  == [e \in Elements |-> IF e = "field" THEN "type" ELSE "click"]
MCCodes == <<"RECORD_NOT_FOUND">>
==============================================================================
