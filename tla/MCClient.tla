------------------------------ MODULE MCClient ------------------------------
(* A small instance of Client.                                             *)
EXTENDS Client

TwoSlots == {0, 1}
Everyone == {"direct", "patient", "hasty"}
Attempts == [p \in Everyone |-> IF p = "direct" THEN 3 ELSE 2]
=============================================================================
