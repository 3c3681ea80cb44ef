----------------------------- MODULE GameScene -----------------------------
(***************************************************************************)
(* The authoritative game world of a Void Assault server: the map of game  *)
(* objects, the operations that the server's message loop calls on it      *)
(* (players come and go, build, upgrade, give admin commands; waves spawn  *)
(* enemies) and the physics tick, Update.                                  *)
(*                                                                         *)
(* Update is a chain of loops over the map, run by the one server thread.  *)
(* Each loop body is an action here; phase says which loop is running and  *)
(* todo and inner hold the ids still to visit, so nothing else can happen  *)
(* before the tick is over.  Positions are abstracted: whether two objects *)
(* touch is a free choice, except that a building keeps its grid cell.     *)
(* Of health only an enemy's is kept, in three grades, because an enemy at *)
(* zero health is not yet a dead one; a hit on a player or on a building   *)
(* either finishes it or does not.                                         *)
(***************************************************************************)
EXTENDS Integers, FiniteSets

CONSTANTS
    DirectIds,      \* slots of directly connected peers
    RelayIds,       \* ids of peers behind the master's relay (slot | 0x80000000)
    FirstId,        \* the first id given to a non-player object (1000)
    LastId,         \* bound: the last such id an instance uses
    Cells,          \* grid cells a building can stand on
    TurretLimit,    \* turrets a player may own (5)
    WallCost, TurretCost, MineCost, UpgradeCost,
    Slots,          \* size of a player's inventory (6)
    PvP,            \* pvpFactor > 0
    PvPScrap,       \* scrap for killing a player of level 1 (10)
    Rewards,        \* scrapReward of the enemies a wave spawns
    BossReward,     \* scrapReward of a boss
    Gift,           \* scrap of one GIVE_SCRAP command
    BuildTypes,     \* building types the clients ask for
    Commands,       \* admin commands the clients send
    MaxScrap,       \* bound on the scrap that GIVE_SCRAP tops up
    MaxLevel        \* bound on player and building levels

ClientIds == DirectIds \cup RelayIds
Structures == {"wall", "turret"}
BuildingKinds == Structures \cup {"mine"}
Kinds == {"player", "bullet", "enemy", "artifact"} \cup BuildingKinds
ItemIds == FirstId .. LastId
None == -1

(***************************************************************************)
(* Peer slots stay below 1000 and relay ids have bit 31 set, so neither    *)
(* meets the range nextId walks through.                                   *)
(***************************************************************************)
ASSUME IdAssumption ==
    /\ FirstId \in Nat /\ LastId \in Nat /\ FirstId <= LastId
    /\ ClientIds \subseteq Nat
    /\ IsFiniteSet(ClientIds)
    /\ ClientIds \cap FirstId .. (LastId + 1) = {}

ASSUME NumberAssumption ==
    /\ {WallCost, TurretCost, MineCost, UpgradeCost} \subseteq Nat
    /\ {TurretLimit, Slots, PvPScrap, BossReward, Gift, MaxScrap, MaxLevel} \subseteq Nat
    /\ Rewards \subseteq Nat /\ Cells \subseteq Nat
    /\ PvP \in BOOLEAN
    /\ BuildTypes \subseteq BuildingKinds

VARIABLES
    objects,        \* id -> object, the std::map
    nextId,
    newBullets,     \* bullets fired in this tick, not yet in the map
    newArtifacts,   \* artifacts dropped in this tick, not yet in the map
    phase,          \* which loop of Update runs, or "idle"
    todo,           \* ids the running loop has still to visit
    cur,            \* the object whose inner loop runs
    inner,          \* ids that inner loop has still to visit
    caught,         \* ids collected at the start of HandleCollisionsAndDamage
    spent,          \* history: payouts of an enemy, strikes of a bullet or a mine
    taken,          \* history: how often a player has taken an artifact
    loggedIn        \* history: present players that sent LOGIN

tick == <<newBullets, newArtifacts, phase, todo, cur, inner, caught>>
history == <<spent, taken, loggedIn>>
vars == <<objects, nextId, tick, history>>

Object ==
    [kind: Kinds, hp: {"zero", "hurt", "full"}, flag: BOOLEAN,
     owner: ClientIds \cup {None}, cell: Cells \cup {None}, level: Nat,
     scrap: Nat, kills: Nat, admin: BOOLEAN, items: 0 .. Slots]

Put(f, i, r) == [j \in DOMAIN f \cup {i} |-> IF j = i THEN r ELSE f[j]]
Join(f, g) == [j \in DOMAIN f \cup DOMAIN g |-> IF j \in DOMAIN f THEN f[j] ELSE g[j]]
Erase(f, i) == [j \in DOMAIN f \ {i} |-> f[j]]
Nothing == [j \in {} |-> None]

OfKind(K) == {i \in DOMAIN objects : objects[i].kind \in K}
Players == OfKind({"player"})
Enemies == OfKind({"enemy"})
Buildings == OfKind(BuildingKinds)

New(k) ==
    [kind |-> k, hp |-> "full", flag |-> FALSE, owner |-> None, cell |-> None,
     level |-> 1, scrap |-> 0, kills |-> 0, admin |-> FALSE, items |-> 0]
NewBullet(o) == [New("bullet") EXCEPT !.owner = o]
NewBuilding(k, c, o) == [New(k) EXCEPT !.cell = c, !.owner = o]
NewEnemy(r) == [New("enemy") EXCEPT !.scrap = r]

\* Player::Reset: a death and RESET_SERVER forget everything but isAdmin.
Reset(p) == [p EXCEPT !.level = 1, !.scrap = 0, !.kills = 0, !.items = 0]

TypeOK ==
    /\ DOMAIN objects \subseteq ClientIds \cup ItemIds
    /\ objects \in [DOMAIN objects -> Object]
    /\ DOMAIN newBullets \subseteq ItemIds
    /\ newBullets \in [DOMAIN newBullets -> Object]
    /\ DOMAIN newArtifacts \subseteq ItemIds
    /\ newArtifacts \in [DOMAIN newArtifacts -> Object]
    /\ nextId \in FirstId .. (LastId + 1)
    /\ phase \in {"idle", "update", "contact", "mines", "artifacts", "bullets"}
    /\ todo \subseteq DOMAIN objects /\ inner \subseteq DOMAIN objects
    /\ caught \subseteq DOMAIN objects
    /\ cur \in DOMAIN objects \cup {None}
    /\ spent \in [ItemIds -> Nat] /\ taken \in [ItemIds -> [ClientIds -> Nat]]
    /\ loggedIn \subseteq ClientIds

Init ==
    /\ objects = Nothing /\ nextId = FirstId
    /\ newBullets = Nothing /\ newArtifacts = Nothing
    /\ phase = "idle" /\ todo = {} /\ cur = None /\ inner = {} /\ caught = {}
    /\ spent = [i \in ItemIds |-> 0]
    /\ taken = [i \in ItemIds |-> [p \in ClientIds |-> 0]]
    /\ loggedIn = {}

-----------------------------------------------------------------------------
(* Players come and go.                                                    *)

FirstOnTheMapAfterInsert(others) == Cardinality(DOMAIN others) <= 1

\* Nobody else may be in the map, walls and enemies included.
FirstOnTheMap(others) == DOMAIN others = {}

CreatePlayerWithId(id) ==
    LET others == Erase(objects, id)
    IN  objects' = Put(others, id,
                       [New("player") EXCEPT !.admin = FirstOnTheMap(others)])

\* A direct client's CONNECT: the slot's previous player, if any, is replaced.
Connect(id) ==
    /\ phase = "idle"
    /\ CreatePlayerWithId(id)
    /\ loggedIn' = loggedIn \ {id}
    /\ UNCHANGED <<nextId, tick, spent, taken>>

\* JOIN creates only an absent player; for a present one it sets the name.
JoinGame(id) ==
    /\ phase = "idle" /\ id \notin DOMAIN objects
    /\ CreatePlayerWithId(id)
    /\ loggedIn' = loggedIn \ {id}
    /\ UNCHANGED <<nextId, tick, spent, taken>>

\* DISCONNECT of a direct client, or loss of the master for a relay client.
Leave(id) ==
    /\ phase = "idle" /\ id \in DOMAIN objects
    /\ objects' = Erase(objects, id)
    /\ loggedIn' = loggedIn \ {id}
    /\ UNCHANGED <<nextId, tick, spent, taken>>

-----------------------------------------------------------------------------
(* Building and upgrading.                                                 *)

Cost(type) ==
    CASE type = "wall" -> WallCost
      [] type = "turret" -> TurretCost
      [] type = "mine" -> MineCost

CanPayUnchecked(id, cost) == TRUE
CanPay(id, cost) == objects[id].scrap >= cost

CellFreeIfDoomed(c) == \A b \in Buildings : objects[b].flag \/ objects[b].cell # c

\* Doomed buildings still occupy their cell ...
CellFree(c) == \A b \in Buildings : objects[b].cell # c

TurretsOf(id) == {t \in OfKind({"turret"}) : objects[t].owner = id}

TurretQuotaOffByOne(id) == Cardinality(TurretsOf(id)) <= TurretLimit

\* ... and still count against their owner's limit.
TurretQuotaLeft(id) == Cardinality(TurretsOf(id)) < TurretLimit

\* The builder's distance to the cell and the map's border only disable this.
TryBuild(id, type, c) ==
    /\ phase = "idle" /\ id \in Players
    /\ CellFree(c)
    /\ type = "turret" => TurretQuotaLeft(id)
    /\ CanPay(id, Cost(type))
    /\ nextId <= LastId
    /\ objects' = Put([objects EXCEPT ![id].scrap = @ - Cost(type)],
                      nextId, NewBuilding(type, c, id))
    /\ nextId' = nextId + 1
    /\ UNCHANGED <<tick, history>>

Upgrade(b) == [b EXCEPT !.level = @ + 1]

\* Anyone may upgrade any building the click is near, doomed ones included.
TryUpgrade(id, b) ==
    /\ phase = "idle" /\ id \in Players /\ b \in Buildings
    /\ objects[b].level < MaxLevel
    /\ CanPay(id, UpgradeCost * objects[b].level)
    /\ objects' = [objects EXCEPT ![id].scrap = @ - UpgradeCost * objects[b].level,
                                  ![b] = Upgrade(@)]
    /\ UNCHANGED <<nextId, tick, history>>

-----------------------------------------------------------------------------
(* HandleAdminCommand: LOGIN makes its sender an admin, the others need one. *)

MayCommand(id, cmd) ==
    /\ phase = "idle" /\ cmd \in Commands /\ id \in Players
    /\ cmd # "LOGIN" => objects[id].admin

Login(id) ==
    /\ MayCommand(id, "LOGIN")
    /\ objects' = [objects EXCEPT ![id].admin = TRUE]
    /\ loggedIn' = loggedIn \cup {id}
    /\ UNCHANGED <<nextId, tick, spent, taken>>

GiveScrap(id) ==
    /\ MayCommand(id, "GIVE_SCRAP")
    /\ objects[id].scrap + Gift <= MaxScrap
    /\ objects' = [objects EXCEPT ![id].scrap = @ + Gift]
    /\ UNCHANGED <<nextId, tick, history>>

\* What AddXp does to the level; the experience itself is not kept.
LevelsUp(p) == p.level .. (IF p.level < MaxLevel THEN MaxLevel ELSE p.level)

GiveXp(id) ==
    /\ MayCommand(id, "GIVE_XP")
    /\ \E l \in LevelsUp(objects[id]) : objects' = [objects EXCEPT ![id].level = l]
    /\ UNCHANGED <<nextId, tick, history>>

\* TakeDamage empties every enemy's health; it does not doom the enemy.
KillAllEnemies(id) ==
    /\ MayCommand(id, "KILL_ALL_ENEMIES")
    /\ objects' = [i \in DOMAIN objects |->
                     IF i \in Enemies THEN [objects[i] EXCEPT !.hp = "zero"]
                     ELSE objects[i]]
    /\ UNCHANGED <<nextId, tick, history>>

ClearBuildings(id) ==
    /\ MayCommand(id, "CLEAR_BUILDINGS")
    /\ objects' = [i \in DOMAIN objects |->
                     IF i \in Buildings THEN [objects[i] EXCEPT !.flag = TRUE]
                     ELSE objects[i]]
    /\ UNCHANGED <<nextId, tick, history>>

ResetServer(id) ==
    /\ MayCommand(id, "RESET_SERVER")
    /\ objects' = [i \in Players |-> Reset(objects[i])]
    /\ UNCHANGED <<nextId, tick, history>>

SpawnEnemy(reward) ==
    /\ nextId <= LastId
    /\ objects' = Put(objects, nextId, NewEnemy(reward))
    /\ nextId' = nextId + 1

SpawnBoss(id) ==
    /\ MayCommand(id, "SPAWN_BOSS")
    /\ SpawnEnemy(BossReward)
    /\ UNCHANGED <<tick, history>>

\* One enemy of a wave; the caller's wave clock is left to the server.
SpawnWaveEnemy(reward) ==
    /\ phase = "idle"
    /\ SpawnEnemy(reward)
    /\ UNCHANGED <<tick, history>>

\* With nobody left to play, the server takes enemies and bullets off the map.
ClearEmptyWorld ==
    /\ phase = "idle" /\ Players = {}
    /\ objects' = [i \in DOMAIN objects \ OfKind({"enemy", "bullet"}) |-> objects[i]]
    /\ UNCHANGED <<nextId, tick, history>>

-----------------------------------------------------------------------------
(* Update, first loop: every object acts, then leaves the map if doomed.   *)

IsFirst(i, S) == i \in S /\ \A j \in S : i <= j

EraseAllButWalls(objs, i) ==
    IF objs[i].flag /\ objs[i].kind # "wall" THEN Erase(objs, i) ELSE objs
EraseIfDoomed(objs, i) == IF objs[i].flag THEN Erase(objs, i) ELSE objs

\* Healing starts at zero health too.
Regenerated(hp) == IF hp = "zero" THEN {"hurt"} ELSE {hp, "full"}

Damaged(hp) == IF hp = "zero" THEN {"zero"} ELSE {"hurt", "zero"}

\* History: the members of S have gone off once more.
Count(S) == [i \in ItemIds |-> IF i \in S THEN spent[i] + 1 ELSE spent[i]]

Update ==
    /\ phase = "idle"
    /\ phase' = "update" /\ todo' = DOMAIN objects
    /\ UNCHANGED <<objects, nextId, newBullets, newArtifacts, cur, inner, caught, history>>

Visit(i) ==
    /\ phase = "update" /\ IsFirst(i, todo)
    /\ todo' = todo \ {i}
    /\ UNCHANGED <<newArtifacts, phase, cur, inner, caught, taken, loggedIn>>

ShootSameId(owner) ==
    /\ nextId <= LastId
    /\ newBullets' = Put(newBullets, nextId, NewBullet(owner))
    /\ UNCHANGED nextId

Shoot(owner) ==
    /\ nextId <= LastId
    /\ newBullets' = Put(newBullets, nextId, NewBullet(owner))
    /\ nextId' = nextId + 1

HoldFire == UNCHANGED <<newBullets, nextId>>

UpdatePlayer(i) ==
    /\ Visit(i) /\ objects[i].kind = "player" /\ UNCHANGED spent
    /\ Shoot(i) \/ HoldFire
    /\ objects' = EraseIfDoomed(objects, i)

UpdateTurretOwnsBullet(i) ==
    /\ Visit(i) /\ objects[i].kind = "turret" /\ UNCHANGED spent
    /\ (Enemies # {} /\ Shoot(i)) \/ HoldFire
    /\ objects' = EraseIfDoomed(objects, i)

\* A doomed turret still fires its last shot.
UpdateTurret(i) ==
    /\ Visit(i) /\ objects[i].kind = "turret" /\ UNCHANGED spent
    /\ (Enemies # {} /\ Shoot(objects[i].owner)) \/ HoldFire
    /\ objects' = EraseIfDoomed(objects, i)

\* A mine an enemy stands on hurts that enemy and is gone at once; a mine that has
\* exploded, or is cleared, and only waits for this loop to remove it does so too.
UpdateMine(i) ==
    /\ Visit(i) /\ objects[i].kind = "mine" /\ HoldFire
    /\ \/ objects' = EraseIfDoomed(objects, i) /\ UNCHANGED spent
       \/ \E e \in Enemies : \E h \in Damaged(objects[e].hp) :
            /\ objects' = Erase([objects EXCEPT ![e].hp = h], i)
            /\ spent' = Count({i})

\* A bullet may reach the end of its lifetime.
UpdateBullet(i) ==
    /\ Visit(i) /\ objects[i].kind = "bullet" /\ HoldFire /\ UNCHANGED spent
    /\ objects' \in {EraseIfDoomed(objects, i), Erase(objects, i)}

UpdateEnemy(i) ==
    /\ Visit(i) /\ objects[i].kind = "enemy" /\ HoldFire /\ UNCHANGED spent
    /\ \E h \in Regenerated(objects[i].hp) :
         objects' = EraseIfDoomed([objects EXCEPT ![i].hp = h], i)

UpdateOther(i) ==
    /\ Visit(i) /\ objects[i].kind \in {"wall", "artifact"} /\ HoldFire /\ UNCHANGED spent
    /\ objects' = EraseIfDoomed(objects, i)

-----------------------------------------------------------------------------
(* HandleCollisionsAndDamage.  The lists of enemies, players, ... are made *)
(* once, from the objects that are not doomed; later loops reread flags.   *)

Caught(K) == {i \in caught : objects[i].kind \in K}

\* The bullets of this tick enter the map and the lists are collected.
EndUpdateLoop ==
    /\ phase = "update" /\ todo = {}
    /\ objects' = Join(objects, newBullets) /\ newBullets' = Nothing
    /\ caught' = {i \in DOMAIN objects' : ~objects'[i].flag}
    /\ phase' = "contact"
    /\ todo' = {i \in caught' : objects'[i].kind = "enemy"}
    /\ UNCHANGED <<nextId, newArtifacts, cur, inner, history>>

\* One loop is over: the next runs over the objects of K that were caught.
NextLoop(from, to, K) ==
    /\ phase = from /\ todo = {} /\ inner = {}
    /\ phase' = to /\ todo' = Caught(K) /\ cur' = None
    /\ UNCHANGED <<objects, nextId, newBullets, newArtifacts, inner, caught, history>>

\* An outer loop takes up object i and visits S in its inner loop.
TakeUp(in, i, S) ==
    /\ phase = in /\ inner = {} /\ IsFirst(i, todo)
    /\ todo' = todo \ {i} /\ cur' = i /\ inner' = S
    /\ UNCHANGED <<nextId, newBullets, newArtifacts, phase, caught, taken, loggedIn>>

\* An inner loop visits object j.
Meet(in, j) ==
    /\ phase = in /\ IsFirst(j, inner)
    /\ inner' = inner \ {j}
    /\ UNCHANGED <<nextId, newBullets, newArtifacts, phase, todo, cur, caught,
                   loggedIn>>

\* History: a slain enemy has gone off.
Slain(e, h) == IF h = "zero" THEN {e} ELSE {}

HittableTwice(e) == TRUE
Hittable(e) == ~objects[e].flag /\ objects[e].hp # "zero"

(* Enemies against players and structures: an enemy never dies here.       *)

ContactEnemy(e) ==
    /\ TakeUp("contact", e, IF Hittable(e) THEN Caught({"player"} \cup Structures) ELSE {})
    /\ UNCHANGED <<objects, spent>>

ContactMiss(v) == Meet("contact", v) /\ UNCHANGED <<objects, spent, taken>>

ContactPlayer(p) ==
    /\ Meet("contact", p) /\ objects[p].kind = "player"
    /\ \E after \in {objects[p], Reset(objects[p])}, h \in Damaged(objects[cur].hp) :
         objects' = [objects EXCEPT ![p] = after, ![cur].hp = h]
    /\ UNCHANGED <<spent, taken>>

ContactStructure(s) ==
    /\ Meet("contact", s) /\ objects[s].kind \in Structures /\ ~objects[s].flag
    /\ \E broken \in BOOLEAN, h \in Damaged(objects[cur].hp) :
         objects' = [objects EXCEPT ![s].flag = broken, ![cur].hp = h]
    /\ UNCHANGED <<spent, taken>>

(* Mines: one enemy near enough triggers it, every enemy in the blast is hurt. *)

MineQuiet(m) ==
    /\ TakeUp("mines", m, {})
    /\ UNCHANGED <<objects, spent>>

MineExplodes(m) ==
    /\ TakeUp("mines", m, Caught({"enemy"}))
    /\ ~objects[m].flag /\ Caught({"enemy"}) # {}
    /\ objects' = [objects EXCEPT ![m].flag = TRUE]
    /\ spent' = Count({m})

Rewarded(p, enemy, l) ==
    [p EXCEPT !.scrap = @ + enemy.scrap, !.kills = @ + 1, !.level = l]

\* The owner's reward for killing e, if the owner is still in the map.
Paid(objs, o, e, l) ==
    IF o \in DOMAIN objs /\ objs[o].kind = "player"
    THEN [objs EXCEPT ![o] = Rewarded(@, objs[e], l)] ELSE objs

HitEnemyAndFlyOn(i, e, h) ==
    LET hurt == [objects EXCEPT ![e].hp = h, ![e].flag = (h = "zero")]
        o == objects[i].owner
    IN  \E l \in IF o \in Players THEN LevelsUp(objects[o]) ELSE {1} :
          objects' = IF h = "zero" THEN Paid(hurt, o, e, l) ELSE hurt

\* Object i, a mine or a bullet, is used up on enemy e, whose health becomes h;
\* zero health dooms the enemy and pays the owner of i.
HitEnemy(i, e, h) ==
    LET hurt == [objects EXCEPT ![i].flag = TRUE, ![e].hp = h, ![e].flag = (h = "zero")]
        o == objects[i].owner
    IN  \E l \in IF o \in Players THEN LevelsUp(objects[o]) ELSE {1} :
          objects' = IF h = "zero" THEN Paid(hurt, o, e, l) ELSE hurt

SplashMiss(e) == Meet("mines", e) /\ UNCHANGED <<objects, spent, taken>>

SplashEnemy(e) ==
    /\ Meet("mines", e) /\ ~objects[e].flag
    /\ \E h \in Damaged(objects[e].hp) :
         /\ HitEnemy(cur, e, h)
         /\ spent' = Count(Slain(e, h))
    /\ UNCHANGED taken

(* Artifacts: the loop over the players does not stop at the first taker.  *)

ArtifactTurn(a) ==
    /\ TakeUp("artifacts", a, IF objects[a].flag THEN {} ELSE Caught({"player"}))
    /\ UNCHANGED <<objects, spent>>

PickupMiss(p) == Meet("artifacts", p) /\ UNCHANGED <<objects, spent, taken>>

PickupLeavesIt(p) ==
    /\ Meet("artifacts", p) /\ objects[p].items < Slots
    /\ objects' = [objects EXCEPT ![p].items = @ + 1]
    /\ taken' = [taken EXCEPT ![cur][p] = @ + 1]
    /\ UNCHANGED spent

Pickup(p) ==
    /\ Meet("artifacts", p) /\ objects[p].items < Slots
    /\ objects' = [objects EXCEPT ![p].items = @ + 1, ![cur].flag = TRUE]
    /\ taken' = [taken EXCEPT ![cur][p] = @ + 1]
    /\ UNCHANGED spent

(* Bullets: the first enemy, else the first player, else the first structure. *)

BulletTurn(b) ==
    /\ phase = "bullets" /\ IsFirst(b, todo) /\ todo' = todo \ {b}
    /\ UNCHANGED <<newBullets, phase, cur, inner, caught, taken, loggedIn>>

\* It is doomed already, hits nothing, or leaves the map.
BulletFlies(b) ==
    /\ BulletTurn(b)
    /\ \E gone \in BOOLEAN : objects' = [objects EXCEPT ![b].flag = @ \/ gone]
    /\ UNCHANGED <<nextId, newArtifacts, spent>>

MayDropArtifact ==
    \/ UNCHANGED <<nextId, newArtifacts>>
    \/ /\ nextId <= LastId
       /\ newArtifacts' = Put(newArtifacts, nextId, New("artifact"))
       /\ nextId' = nextId + 1

BulletHitsEnemy(b) ==
    /\ BulletTurn(b) /\ ~objects[b].flag
    /\ \E e \in Caught({"enemy"}) : \E h \in Damaged(objects[e].hp) :
         /\ Hittable(e)
         /\ HitEnemy(b, e, h)
         /\ spent' = Count({b} \cup Slain(e, h))
         /\ IF h = "zero" THEN MayDropArtifact ELSE UNCHANGED <<nextId, newArtifacts>>

\* The owner of b as HandleCollisionsAndDamage looks it up: is it a player?
OwnedByPlayer(b) == objects[b].owner \in Players

\* The victim is reset before its level is read, so the prize is that of level 1.
BulletHitsPlayer(b) ==
    /\ BulletTurn(b) /\ ~objects[b].flag /\ PvP
    /\ objects[b].owner \in DOMAIN objects => OwnedByPlayer(b)
    /\ \E p \in Caught({"player"}) \ {objects[b].owner}, dies \in BOOLEAN :
         LET o == objects[b].owner
             struck == [objects EXCEPT ![b].flag = TRUE,
                                       ![p] = IF dies THEN Reset(@) ELSE @]
         IN  objects' = IF dies /\ OwnedByPlayer(b)
                        THEN [struck EXCEPT ![o].kills = @ + 1, ![o].scrap = @ + PvPScrap]
                        ELSE struck
    /\ spent' = Count({b})
    /\ UNCHANGED <<nextId, newArtifacts>>

BulletHitsStructure(b) ==
    /\ BulletTurn(b) /\ ~objects[b].flag
    /\ PvP \/ ~OwnedByPlayer(b)
    /\ \E s \in Caught(Structures), broken \in BOOLEAN :
         /\ ~objects[s].flag /\ objects[s].owner # objects[b].owner
         /\ objects' = [objects EXCEPT ![b].flag = TRUE, ![s].flag = broken]
    /\ spent' = Count({b})
    /\ UNCHANGED <<nextId, newArtifacts>>

\* The tick is over; the artifacts dropped in it enter the map.
EndUpdate ==
    /\ phase = "bullets" /\ todo = {}
    /\ phase' = "idle" /\ caught' = {}
    /\ objects' = Join(objects, newArtifacts) /\ newArtifacts' = Nothing
    /\ UNCHANGED <<nextId, newBullets, todo, cur, inner, history>>

-----------------------------------------------------------------------------
Request ==
    \/ \E id \in DirectIds : Connect(id)
    \/ \E id \in ClientIds : JoinGame(id) \/ Leave(id)
    \/ \E id \in ClientIds :
         \/ \E type \in BuildTypes, c \in Cells : TryBuild(id, type, c)
         \/ \E b \in Buildings : TryUpgrade(id, b)
         \/ Login(id) \/ GiveScrap(id) \/ GiveXp(id) \/ KillAllEnemies(id)
         \/ SpawnBoss(id) \/ ClearBuildings(id) \/ ResetServer(id)
    \/ \E r \in Rewards : SpawnWaveEnemy(r)
    \/ ClearEmptyWorld

UpdateLoop ==
    \/ \E i \in todo :
         \/ UpdatePlayer(i) \/ UpdateTurret(i) \/ UpdateMine(i)
         \/ UpdateBullet(i) \/ UpdateEnemy(i) \/ UpdateOther(i)
    \/ EndUpdateLoop

ContactLoop ==
    \/ \E e \in todo : ContactEnemy(e)
    \/ \E v \in inner : ContactMiss(v) \/ ContactPlayer(v) \/ ContactStructure(v)
    \/ NextLoop("contact", "mines", {"mine"})

MineLoop ==
    \/ \E m \in todo : MineQuiet(m) \/ MineExplodes(m)
    \/ \E e \in inner : SplashMiss(e) \/ SplashEnemy(e)
    \/ NextLoop("mines", "artifacts", {"artifact"})

ArtifactLoop ==
    \/ \E a \in todo : ArtifactTurn(a)
    \/ \E p \in inner : PickupMiss(p) \/ Pickup(p)
    \/ NextLoop("artifacts", "bullets", {"bullet"})

BulletLoop ==
    \/ \E b \in todo :
         \/ BulletFlies(b) \/ BulletHitsEnemy(b)
         \/ BulletHitsPlayer(b) \/ BulletHitsStructure(b)
    \/ EndUpdate

Tick == Update \/ UpdateLoop \/ ContactLoop \/ MineLoop \/ ArtifactLoop \/ BulletLoop

Next == Request \/ Tick

Spec == Init /\ [][Next]_vars

\* The server thread keeps calling Update and no loop of it waits for anything;
\* with the inputs of a bounded instance, requests may stop at any time.
FairSpec == Spec /\ WF_vars(Tick)

-----------------------------------------------------------------------------
(* Safety.                                                                 *)

InUse == DOMAIN objects \cup DOMAIN newBullets \cup DOMAIN newArtifacts

\* A client's id names nothing but that client's player, and the ids nextId
\* hands out name nothing but the rest, in the map and in the lists waiting to
\* enter it; so no new object ever replaces another one.
IdRanges ==
    /\ \A i \in DOMAIN objects : objects[i].kind = "player" <=> i \in ClientIds
    /\ InUse \subseteq ClientIds \cup FirstId .. (nextId - 1)
    /\ DOMAIN objects \cap (DOMAIN newBullets \cup DOMAIN newArtifacts) = {}

\* Whatever a bullet's or building's owner id finds in the map is a player: kills
\* are credited to players only, and the damage a turret gains by upgrades, which
\* HandleCollisionsAndDamage would read from a TURRET owner, is never used.
OwnersArePlayers ==
    \A m \in {objects, newBullets, newArtifacts} : \A i \in DOMAIN m :
      m[i].owner \in DOMAIN objects => m[i].owner \in Players

\* TryBuild's promise: two buildings never stand on one cell, even while one of
\* them is doomed and waits for Update to remove it.
OneBuildingPerCell ==
    \A a, b \in Buildings : objects[a].cell = objects[b].cell => a = b

\* TryBuild's promise, kept per owner id across deaths, resets and reconnects.
TurretLimitHolds == \A id \in ClientIds : Cardinality(TurretsOf(id)) <= TurretLimit

\* However many bullets and mines reach an enemy in one tick, its kill is paid once.
KillPaidOnce == \A i \in ItemIds : (spent[i] > 1) => i \notin Enemies

\* A bullet strikes one target.  A mine explodes once, over all its collision loops;
\* as the loop over the map hands its blow out without asking whether the mine is
\* doomed, one that has exploded may hit one more enemy as it leaves, and never two.
StrikesAreBounded ==
    /\ \A i \in OfKind({"bullet", "mine"}) : spent[i] <= 1
    /\ \A i \in ItemIds : spent[i] <= 2

\* An artifact picked up in one tick is gone in the next: no player takes it twice,
\* although several players may take it in the same tick, once each.
ArtifactTakenOncePerPlayer ==
    \A i \in ItemIds, p \in ClientIds : taken[i][p] <= 1

\* Of the present players at most one is an admin that never logged in: the one
\* that CreatePlayerWithId found alone on the map.
OneUninvitedAdmin ==
    \A i, j \in Players \ loggedIn : objects[i].admin /\ objects[j].admin => i = j

-----------------------------------------------------------------------------
(* How the loops' variables relate between steps, and what has gone off.   *)

LoopKind == [contact |-> "enemy", mines |-> "mine", artifacts |-> "artifact",
             bullets |-> "bullet"]

\* Between the collision loops nothing is left over from them; while one of them
\* runs, it visits objects of its own kind only.
LoopControl ==
    /\ phase \in {"idle", "update"} => caught = {} /\ newArtifacts = Nothing
    /\ phase \in {"idle", "update", "bullets"} => inner = {} /\ cur = None
    /\ phase = "idle" => todo = {}
    /\ phase # "update" => newBullets = Nothing
    /\ phase \notin {"idle", "update"} =>
         \A i \in todo \cup (IF inner = {} THEN {} ELSE {cur}) :
           i \in DOMAIN objects /\ objects[i].kind = LoopKind[phase]
    /\ phase = "mines" => inner \subseteq Enemies
    /\ \A i \in DOMAIN newBullets : newBullets[i].kind = "bullet"
    /\ \A i \in DOMAIN newArtifacts : newArtifacts[i].kind = "artifact"

\* An enemy, a bullet or a mine goes off once while it is in the map, and is doomed
\* from then on; it may do so once more as it leaves.  Ids not in the map yet have
\* not gone off.
GoesOffOnce ==
    /\ \A i \in OfKind({"enemy", "bullet", "mine"}) :
         spent[i] <= 1 /\ (~objects[i].flag => spent[i] = 0)
    /\ \A i \in DOMAIN newBullets : spent[i] = 0
    /\ \A i \in nextId .. LastId : spent[i] = 0
    /\ \A i \in ItemIds : spent[i] <= 2

\* The invariant behind the safety properties above.
TickInv == LoopControl /\ GoesOffOnce

(* Liveness.                                                               *)

\* A doomed object leaves the map.
DoomedAreRemoved ==
    \A i \in ItemIds :
      (i \in DOMAIN objects /\ objects[i].flag) ~> (i \notin DOMAIN objects)
=============================================================================
