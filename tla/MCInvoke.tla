------------------------------ MODULE MCInvoke ------------------------------
(***************************************************************************)
(* Instances of Invoke: a transfer, its retry under one key, and a request *)
(* that carries no key.                                                    *)
(***************************************************************************)
EXTENDS Invoke

\* The same person under two spellings, and somebody else.
MCPerson == [o \in Operators |-> IF o = "bob" THEN "bob" ELSE "ann"]
MCNameOf == [r \in Requests |-> "transfer"]
MCKeyOf  == [r \in Requests |-> IF r = "plain" THEN NoKey ELSE "k"]
=============================================================================
