---------------------------- MODULE MCGameScene ----------------------------
(* Small instances of GameScene.  Peer slots 0 and 1, one relay client 90,  *)
(* object ids from 10 on.                                                   *)
EXTENDS GameScene

Direct1 == {0}
Relay0 == {}
Relay1 == {90}
OneCell == {1}
TwoCells == {1, 2}
NoRewards == {}
OneReward == {1}
AllBuildings == {"wall", "turret", "mine"}
NoBuildings == {}
MineTurret == {"mine", "turret"}
BuildCommands == {"LOGIN", "GIVE_SCRAP", "CLEAR_BUILDINGS", "RESET_SERVER"}
CombatCommands == {"GIVE_XP", "KILL_ALL_ENEMIES", "SPAWN_BOSS"}
=============================================================================
