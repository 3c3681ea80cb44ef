----------------------------- MODULE MCLocalHost -----------------------------
(* A small instance of LocalHost.                                          *)
EXTENDS LocalHost

CONSTANTS w1, w2

TwoWorkers == {w1, w2}
=============================================================================
