----------------------------- MODULE MCServerHost -----------------------------
(* A small instance of ServerHost.                                         *)
EXTENDS ServerHost

CONSTANTS p1, r1

OnePeer == {p1}
OneRelay == {r1}
AllKinds == {"JOIN", "REQUEST"}
=============================================================================
