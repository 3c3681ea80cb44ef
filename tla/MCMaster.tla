------------------------------ MODULE MCMaster ------------------------------
(* Small instances of Master.                                              *)
EXTENDS Master, TLC

CONSTANTS p1, p2

TwoPeers == {p1, p2}
PeerSymmetry == Permutations(TwoPeers)
HostKinds == {"REGISTER", "HEARTBEAT"}
PlayerKinds == {"REGISTER", "LIST_REQ", "P2P_REQUEST", "RELAY_TO_SERVER",
                "RELAY_TO_CLIENT"}
=============================================================================
