------------------------------ MODULE MCSettings ------------------------------
(* Small instances of Settings.                                            *)
EXTENDS Settings

AllTwo == {"a", "b"}
StaticA == [k \in AllKeys |-> "a"]
AbsentB == [k \in AllKeys |-> IF k = "server" THEN "b" ELSE "a"]
AtStartA == [k \in Unsaved |-> "a"]
FreshB == [k \in AllKeys |-> IF k = "address" THEN "b" ELSE "a"]
=============================================================================
