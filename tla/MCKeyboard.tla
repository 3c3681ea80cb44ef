------------------------------ MODULE MCKeyboard ------------------------------
(* Two fields of different sizes, so that a length or a cursor kept from one is wrong
   for the other. *)
EXTENDS Keyboard

CONSTANTS short, long

MCFields == {short, long}
MCSize == [f \in MCFields |-> IF f = short THEN 3 ELSE 4]
=============================================================================
