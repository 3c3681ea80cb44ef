---------------------------- MODULE MCSnapshots ----------------------------
(* Small instances of Snapshots.                                           *)
EXTENDS Snapshots

TwoPlaces == {0, 1}
=============================================================================
