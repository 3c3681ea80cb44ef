-------------------------- MODULE GameSceneProofs --------------------------
(***************************************************************************)
(* For any set of clients, cells and object ids: the safety properties of  *)
(* GameScene, from one inductive invariant.                                *)
(***************************************************************************)
EXTENDS GameScene, FiniteSetTheorems, TLAPS

Untaken(i) == \A p \in ClientIds : taken[i][p] = 0

\* An artifact that lies there has been taken by nobody; while the players reach for
\* it, none of those still to come has taken it.
ArtifactsFit ==
    /\ \A i \in ItemIds, p \in ClientIds : taken[i][p] <= 1
    /\ \A i \in OfKind({"artifact"}) : ~objects[i].flag => Untaken(i)
    /\ \A i \in DOMAIN newBullets \cup DOMAIN newArtifacts \cup nextId .. LastId : Untaken(i)
    /\ phase = "artifacts" => \A p \in inner : p \in ClientIds /\ taken[cur][p] = 0

Inv ==
    /\ TypeOK /\ IdRanges /\ TickInv /\ OneBuildingPerCell /\ TurretLimitHolds
    /\ ArtifactsFit /\ OneUninvitedAdmin

-----------------------------------------------------------------------------
(* The records.                                                            *)

\* Every kind of new object is a well-typed record.
LEMMA NewTypes ==
    /\ \A k \in Kinds : New(k) \in Object /\ New(k).kind = k
    /\ \A o \in ClientIds \cup {None} : NewBullet(o) \in Object /\ NewBullet(o).kind = "bullet"
    /\ \A k \in BuildingKinds, c \in Cells, o \in ClientIds :
         /\ NewBuilding(k, c, o) \in Object /\ NewBuilding(k, c, o).kind = k
         /\ NewBuilding(k, c, o).cell = c /\ NewBuilding(k, c, o).owner = o
    /\ \A r \in Nat : NewEnemy(r) \in Object /\ NewEnemy(r).kind = "enemy"
<1>0. Slots \in Nat
  BY NumberAssumption
<1>1. \A k \in Kinds : New(k) \in Object /\ New(k).kind = k
  BY <1>0 DEF None, Object, New
<1>2. ASSUME NEW o \in ClientIds \cup {None}
      PROVE  NewBullet(o) \in Object /\ NewBullet(o).kind = "bullet"
  <2>1. New("bullet") \in Object /\ New("bullet").kind = "bullet"
    BY <1>1 DEF Kinds
  <2> QED  BY <2>1 DEF NewBullet, Object
<1>3. ASSUME NEW k \in BuildingKinds, NEW c \in Cells, NEW o \in ClientIds
      PROVE  /\ NewBuilding(k, c, o) \in Object /\ NewBuilding(k, c, o).kind = k
             /\ NewBuilding(k, c, o).cell = c /\ NewBuilding(k, c, o).owner = o
  <2>1. New(k) \in Object /\ New(k).kind = k
    BY <1>1 DEF Kinds
  <2> QED  BY <2>1 DEF NewBuilding, Object
<1>4. ASSUME NEW r \in Nat
      PROVE  NewEnemy(r) \in Object /\ NewEnemy(r).kind = "enemy"
  <2>1. New("enemy") \in Object /\ New("enemy").kind = "enemy"
    BY <1>1 DEF Kinds
  <2> QED  BY <2>1 DEF NewEnemy, Object
<1> QED  BY <1>1, <1>2, <1>3, <1>4

\* What a step may do to an object that stays in the map: all but its kind, its
\* cell, its owner and its rights may change, but a doomed one stays doomed.
Same(old, new) ==
    /\ new \in Object
    /\ new.kind = old.kind /\ new.cell = old.cell /\ new.owner = old.owner
    /\ new.admin = old.admin
    /\ old.flag => new.flag

LEMMA SameRecords ==
    ASSUME NEW o \in Object
    PROVE  /\ Same(o, o) /\ Same(o, Reset(o))
           /\ Same(o, Upgrade(o))
           /\ \A f \in BOOLEAN : (o.flag => f) => Same(o, [o EXCEPT !.flag = f])
           /\ \A h \in {"zero", "hurt", "full"} : Same(o, [o EXCEPT !.hp = h])
           /\ \A n \in Nat : Same(o, [o EXCEPT !.scrap = n])
           /\ \A n \in Nat : Same(o, [o EXCEPT !.level = n])
           /\ o.items < Slots => Same(o, [o EXCEPT !.items = @ + 1])
           /\ \A h \in {"zero", "hurt", "full"}, f \in BOOLEAN :
                (o.flag => f) => Same(o, [o EXCEPT !.hp = h, !.flag = f])
           /\ \A e \in Object, l \in Nat : Same(o, Rewarded(o, e, l))
           /\ Same(o, [o EXCEPT !.kills = @ + 1, !.scrap = @ + PvPScrap])
<1>0. Slots \in Nat /\ PvPScrap \in Nat
  BY NumberAssumption
<1> USE <1>0 DEF Object, Same
<1>1. Same(o, o)
  OBVIOUS
<1>10. Same(o, Reset(o))
  <2>1. Reset(o) = [[[[o EXCEPT !.level = 1] EXCEPT !.scrap = 0] EXCEPT !.kills = 0]
                      EXCEPT !.items = 0]
    BY Zenon DEF Reset
  <2>2. Same(o, [o EXCEPT !.level = 1]) /\ [o EXCEPT !.level = 1] \in Object
    OBVIOUS
  <2> DEFINE p == [o EXCEPT !.level = 1]
  <2>3. \A q \in Object : LET r == [q EXCEPT !.scrap = 0] IN r \in Object /\ Same(q, r)
    OBVIOUS
  <2>4. \A q \in Object : LET r == [q EXCEPT !.kills = 0] IN r \in Object /\ Same(q, r)
    OBVIOUS
  <2>5. \A q \in Object : LET r == [q EXCEPT !.items = 0] IN r \in Object /\ Same(q, r)
    OBVIOUS
  <2>6. \A a, b, c : Same(a, b) /\ Same(b, c) => Same(a, c)
    OBVIOUS
  <2> HIDE DEF Object, Same
  <2> QED  BY <2>1, <2>2, <2>3, <2>4, <2>5, <2>6
<1>11. Same(o, Upgrade(o))
  BY DEF Upgrade
<1>2. \A f \in BOOLEAN : (o.flag => f) => Same(o, [o EXCEPT !.flag = f])
  OBVIOUS
<1>3. \A h \in {"zero", "hurt", "full"} : Same(o, [o EXCEPT !.hp = h])
  OBVIOUS
<1>4. \A n \in Nat : Same(o, [o EXCEPT !.scrap = n]) /\ Same(o, [o EXCEPT !.level = n])
  OBVIOUS
<1>6. o.items < Slots => Same(o, [o EXCEPT !.items = @ + 1])
  OBVIOUS
<1>7. \A h \in {"zero", "hurt", "full"}, f \in BOOLEAN :
        (o.flag => f) => Same(o, [o EXCEPT !.hp = h, !.flag = f])
  OBVIOUS
<1>8. \A e \in Object, l \in Nat : Same(o, Rewarded(o, e, l))
  <2> SUFFICES ASSUME NEW e \in Object, NEW l \in Nat
               PROVE  Same(o, Rewarded(o, e, l))
    OBVIOUS
  <2>1. Rewarded(o, e, l) = [[[o EXCEPT !.scrap = @ + e.scrap] EXCEPT !.kills = @ + 1]
                             EXCEPT !.level = l]
    BY DEF Rewarded
  <2>2. \A q \in Object : LET r == [q EXCEPT !.scrap = @ + e.scrap]
                          IN  r \in Object /\ Same(q, r)
    OBVIOUS
  <2>3. \A q \in Object : LET r == [q EXCEPT !.kills = @ + 1] IN r \in Object /\ Same(q, r)
    OBVIOUS
  <2>4. \A q \in Object : LET r == [q EXCEPT !.level = l] IN r \in Object /\ Same(q, r)
    OBVIOUS
  <2>5. \A a, b, c : Same(a, b) /\ Same(b, c) => Same(a, c)
    OBVIOUS
  <2> HIDE DEF Object, Same
  <2> QED  BY <2>1, <2>2, <2>3, <2>4, <2>5
<1>9. Same(o, [o EXCEPT !.kills = @ + 1, !.scrap = @ + PvPScrap])
  <2>1. \A q \in Object : LET r == [q EXCEPT !.kills = @ + 1] IN r \in Object /\ Same(q, r)
    OBVIOUS
  <2>2. \A q \in Object : LET r == [q EXCEPT !.scrap = @ + PvPScrap]
                          IN  r \in Object /\ Same(q, r)
    OBVIOUS
  <2>3. \A a, b, c : Same(a, b) /\ Same(b, c) => Same(a, c)
    OBVIOUS
  <2>4. [o EXCEPT !.kills = @ + 1, !.scrap = @ + PvPScrap]
          = [[o EXCEPT !.kills = @ + 1] EXCEPT !.scrap = @ + PvPScrap]
    OBVIOUS
  <2> HIDE DEF Object, Same
  <2> QED  BY <2>1, <2>2, <2>3, <2>4
<1> HIDE DEF Object, Same
<1> QED  BY <1>1, <1>2, <1>3, <1>4, <1>6, <1>7, <1>8, <1>9, <1>10, <1>11

-----------------------------------------------------------------------------
(* Steps that remove or change objects, and add none.                      *)

\* f is what a step may leave of the map: some objects, with their identity.
Keeps(f) ==
    /\ DOMAIN f \subseteq DOMAIN objects
    /\ f \in [DOMAIN f -> Object]
    /\ \A i \in DOMAIN f : Same(objects[i], f[i])

LEMMA KeepsAll == TypeOK => Keeps(objects)
  BY SameRecords DEF Keeps, TypeOK

LEMMA KeepsOne ==
    ASSUME TypeOK, NEW f, Keeps(f), NEW i \in DOMAIN f, NEW r, Same(f[i], r)
    PROVE  /\ Keeps([f EXCEPT ![i] = r])
           /\ DOMAIN [f EXCEPT ![i] = r] = DOMAIN f
  BY DEF Keeps, Same

LEMMA KeepsMap ==
    ASSUME NEW f, DOMAIN f \subseteq DOMAIN objects, f = [i \in DOMAIN f |-> f[i]],
           \A i \in DOMAIN f : Same(objects[i], f[i])
    PROVE  Keeps(f)
  BY DEF Keeps, Same

LEMMA KeepsErased ==
    ASSUME TypeOK, NEW f, Keeps(f), NEW i
    PROVE  Keeps(Erase(f, i)) /\ Keeps(EraseIfDoomed(f, i))
  BY DEF Keeps, Erase, EraseIfDoomed

-----------------------------------------------------------------------------
(* What every step preserves.                                              *)

Spendable == {"enemy", "bullet", "mine"}

\* How a step may change the world: it keeps objects, adds objects under ids that
\* named none, draws ids from nextId, and counts as gone off only objects that were
\* not doomed and are doomed after it, or that leave the map.
Progress(S) ==
    /\ objects' \in [DOMAIN objects' -> Object]
    /\ nextId' \in nextId .. (LastId + 1)
    /\ newBullets' \in [DOMAIN newBullets' -> Object]
    /\ newArtifacts' \in [DOMAIN newArtifacts' -> Object]
    /\ DOMAIN newBullets' \subseteq DOMAIN newBullets \cup nextId .. (nextId' - 1)
    /\ DOMAIN newArtifacts' \subseteq DOMAIN newArtifacts \cup nextId .. (nextId' - 1)
    /\ DOMAIN objects' \cap (DOMAIN newBullets' \cup DOMAIN newArtifacts') = {}
    /\ \A i \in DOMAIN objects' :
         \/ i \in DOMAIN objects /\ Same(objects[i], objects'[i])
         \/ i \in ClientIds /\ objects'[i].kind = "player"
         \/ /\ i \in DOMAIN newBullets \cup nextId .. (nextId' - 1)
            /\ objects'[i].kind # "player"
         \/ i \in DOMAIN newArtifacts /\ objects'[i].kind = "artifact"
    /\ S \subseteq DOMAIN objects /\ spent' = Count(S)
    /\ \A i \in S : /\ objects[i].kind \in Spendable
                    /\ i \in DOMAIN objects' => ~objects[i].flag /\ objects'[i].flag
    /\ taken' \in [ItemIds -> [ClientIds -> Nat]]

\* The part of the type invariant that Progress preserves.
World ==
    /\ DOMAIN objects \subseteq ClientIds \cup ItemIds
    /\ objects \in [DOMAIN objects -> Object]
    /\ DOMAIN newBullets \subseteq ItemIds
    /\ newBullets \in [DOMAIN newBullets -> Object]
    /\ DOMAIN newArtifacts \subseteq ItemIds
    /\ newArtifacts \in [DOMAIN newArtifacts -> Object]
    /\ nextId \in FirstId .. (LastId + 1)
    /\ spent \in [ItemIds -> Nat] /\ taken \in [ItemIds -> [ClientIds -> Nat]]

LEMMA CountNothing == TypeOK => Count({}) = spent
  BY DEF Count, TypeOK

LEMMA ProgressKeepsIds ==
    ASSUME Inv, NEW S, Progress(S)
    PROVE  World' /\ IdRanges' /\ GoesOffOnce'
<1> USE IdAssumption
<1>0. /\ FirstId \in Nat /\ LastId \in Nat
      /\ nextId \in FirstId .. (LastId + 1) /\ nextId' \in nextId .. (LastId + 1)
      /\ nextId' \in FirstId .. (LastId + 1)
      /\ nextId .. (nextId' - 1) \subseteq ItemIds
      /\ nextId .. (nextId' - 1) \subseteq FirstId .. (nextId' - 1)
      /\ FirstId .. (nextId - 1) \subseteq FirstId .. (nextId' - 1)
      /\ FirstId .. (nextId' - 1) \subseteq ItemIds
      /\ ItemIds \cap ClientIds = {}
  BY DEF Inv, TypeOK, Progress, ItemIds
<1>1. /\ DOMAIN objects \subseteq ClientIds \cup FirstId .. (nextId - 1)
      /\ DOMAIN newBullets \subseteq FirstId .. (nextId - 1)
      /\ DOMAIN newArtifacts \subseteq FirstId .. (nextId - 1)
  BY <1>0 DEF Inv, IdRanges, InUse, TypeOK
<1>2. World'
  BY <1>0, <1>1 DEF World, Progress, Count, Inv, TypeOK
<1>3. IdRanges'
  <2>1. ASSUME NEW i \in DOMAIN objects'
        PROVE  objects'[i].kind = "player" <=> i \in ClientIds
    BY <1>0, <1>1 DEF Progress, Same, Inv, IdRanges
  <2>2. InUse' \subseteq ClientIds \cup FirstId .. (nextId' - 1)
    BY <1>0, <1>1 DEF Progress, InUse
  <2> QED  BY <2>1, <2>2 DEF IdRanges, Progress
<1>4. GoesOffOnce'
  <2>0. /\ \A i \in ItemIds : spent[i] \in Nat
        /\ \A i \in ItemIds : spent'[i] = IF i \in S THEN spent[i] + 1 ELSE spent[i]
        /\ DOMAIN newBullets \subseteq ItemIds
    BY DEF Progress, Count, Inv, TypeOK
  <2>1. ASSUME NEW i \in DOMAIN objects', objects'[i].kind \in Spendable
        PROVE  spent'[i] <= 1 /\ (~objects'[i].flag => spent'[i] = 0)
    <3>1. i \in ItemIds
      BY <1>2, <1>3, <2>1 DEF World, IdRanges, Spendable
    <3>2. CASE i \in DOMAIN objects /\ Same(objects[i], objects'[i])
      <4>1. spent[i] <= 1 /\ (~objects[i].flag => spent[i] = 0)
        BY <2>1, <3>2 DEF Same, Inv, TickInv, GoesOffOnce, OfKind, Spendable
      <4>2. CASE i \in S
        BY <2>0, <2>1, <3>1, <3>2, <4>1, <4>2 DEF Progress, Same
      <4>3. CASE i \notin S
        BY <2>0, <3>1, <3>2, <4>1, <4>3 DEF Same
      <4> QED  BY <4>2, <4>3
    <3>3. CASE ~(i \in DOMAIN objects /\ Same(objects[i], objects'[i]))
      <4>1. i \in DOMAIN newBullets \cup nextId .. (nextId' - 1)
        BY <2>1, <3>1, <3>3, <1>0 DEF Progress, Spendable
      <4>2. i \notin DOMAIN objects
        BY <4>1, <1>0, <1>1 DEF Inv, IdRanges
      <4>3. spent[i] = 0
        BY <4>1, <1>0 DEF Inv, TickInv, GoesOffOnce
      <4> QED  BY <4>2, <4>3, <2>0, <3>1 DEF Progress
    <3> QED  BY <3>2, <3>3
  <2>2. ASSUME NEW i \in DOMAIN newBullets'
        PROVE  spent'[i] = 0
    <3>1. i \in DOMAIN newBullets \cup nextId .. (nextId' - 1)
      BY DEF Progress
    <3>2. spent[i] = 0
      BY <3>1, <1>0 DEF Inv, TickInv, GoesOffOnce
    <3>4. i \in ItemIds
      BY <3>1, <1>0, <2>0
    <3>3. i \notin DOMAIN objects
      BY <3>1, <1>0, <1>1 DEF Inv, IdRanges
    <3> QED  BY <3>2, <3>3, <3>4, <2>0 DEF Progress
  <2>3. ASSUME NEW i \in nextId' .. LastId
        PROVE  spent'[i] = 0
    <3>1. i \in nextId .. LastId /\ i \in ItemIds
      BY <1>0 DEF ItemIds
    <3>2. spent[i] = 0
      BY <3>1 DEF Inv, TickInv, GoesOffOnce
    <3>3. i \notin DOMAIN objects
      BY <3>1, <1>0, <1>1
    <3> QED  BY <3>1, <3>2, <3>3, <2>0 DEF Progress
  <2>4. ASSUME NEW i \in ItemIds
        PROVE  spent'[i] <= 2
    <3>1. spent[i] <= 2 /\ (i \in S => spent[i] <= 1)
      BY DEF Progress, Inv, TickInv, GoesOffOnce, OfKind, Spendable
    <3> QED  BY <2>0, <3>1
  <2> QED  BY <2>1, <2>2, <2>3, <2>4 DEF GoesOffOnce, OfKind, Spendable
<1> QED  BY <1>2, <1>3, <1>4

-----------------------------------------------------------------------------
(* Cells and turrets.                                                      *)

\* The map is finite: its ids are clients' or lie between FirstId and LastId.
LEMMA FiniteMap == TypeOK => \A T : T \subseteq DOMAIN objects => IsFiniteSet(T)
<1>1. IsFiniteSet(ItemIds)
  BY IdAssumption, FS_Interval DEF ItemIds
<1>2. IsFiniteSet(ClientIds \cup ItemIds)
  BY <1>1, IdAssumption, FS_Union
<1> QED  BY <1>2, FS_Subset DEF TypeOK

\* No new building: then no cell gets a second one and no client another turret.
LEMMA NoNewBuilding ==
    ASSUME Inv,
           \A i \in DOMAIN objects' : objects'[i].kind \in BuildingKinds =>
             i \in DOMAIN objects /\ Same(objects[i], objects'[i])
    PROVE  OneBuildingPerCell' /\ TurretLimitHolds'
<1>1. \A i \in Buildings' : i \in Buildings /\ objects'[i].cell = objects[i].cell
  BY DEF Buildings, OfKind, Same
<1>2. OneBuildingPerCell'
  BY <1>1 DEF Inv, OneBuildingPerCell
<1>3. ASSUME NEW id \in ClientIds
      PROVE  Cardinality(TurretsOf(id)') <= TurretLimit
  <2>1. TurretsOf(id)' \subseteq TurretsOf(id)
    BY DEF TurretsOf, OfKind, Same, BuildingKinds, Structures
  <2>2. IsFiniteSet(TurretsOf(id))
    BY FiniteMap DEF TurretsOf, OfKind, Inv
  <2>3. /\ Cardinality(TurretsOf(id)') <= Cardinality(TurretsOf(id))
        /\ Cardinality(TurretsOf(id)') \in Nat /\ Cardinality(TurretsOf(id)) \in Nat
    BY <2>1, <2>2, FS_Subset, FS_CardinalityType
  <2>4. Cardinality(TurretsOf(id)) <= TurretLimit /\ TurretLimit \in Nat
    BY NumberAssumption DEF Inv, TurretLimitHolds
  <2> QED  BY <2>3, <2>4
<1> QED  BY <1>2, <1>3 DEF TurretLimitHolds

\* TryBuild's own checks: the cell is free of doomed buildings too, and the quota
\* counts the turrets that are in the map now.
LEMMA NewBuildingFits ==
    ASSUME Inv, NEW id \in ClientIds, NEW type \in BuildingKinds, NEW c \in Cells,
           CellFree(c), type = "turret" => TurretQuotaLeft(id),
           NEW new, new \notin DOMAIN objects,
           DOMAIN objects' = DOMAIN objects \cup {new},
           objects'[new] = NewBuilding(type, c, id),
           \A i \in DOMAIN objects : Same(objects[i], objects'[i])
    PROVE  OneBuildingPerCell' /\ TurretLimitHolds'
<1>1. /\ objects'[new].kind = type /\ objects'[new].cell = c
      /\ objects'[new].owner = id
  BY NewTypes
<1>2. \A i \in Buildings' \ {new} : i \in Buildings /\ objects'[i].cell = objects[i].cell
  BY DEF Buildings, OfKind, Same
<1>3. OneBuildingPerCell'
  BY <1>1, <1>2 DEF Inv, OneBuildingPerCell, CellFree
<1>4. ASSUME NEW o \in ClientIds
      PROVE  Cardinality(TurretsOf(o)') <= TurretLimit
  <2>1. TurretsOf(o)' \subseteq TurretsOf(o) \cup {new}
    BY DEF TurretsOf, OfKind, Same
  <2>2. new \in TurretsOf(o)' => type = "turret" /\ o = id
    BY <1>1 DEF TurretsOf, OfKind
  <2>3. IsFiniteSet(TurretsOf(o)) /\ Cardinality(TurretsOf(o)) \in Nat
    BY FiniteMap, FS_CardinalityType DEF TurretsOf, OfKind, Inv
  <2>4. Cardinality(TurretsOf(o)) <= TurretLimit /\ TurretLimit \in Nat
    BY NumberAssumption DEF Inv, TurretLimitHolds
  <2>5. CASE new \in TurretsOf(o)'
    <3>1. Cardinality(TurretsOf(o)) < TurretLimit
      BY <2>2, <2>5 DEF TurretQuotaLeft
    <3>2. new \notin TurretsOf(o)
      BY DEF TurretsOf, OfKind
    <3>3. /\ IsFiniteSet(TurretsOf(o) \cup {new})
          /\ Cardinality(TurretsOf(o) \cup {new}) = Cardinality(TurretsOf(o)) + 1
      BY <2>3, <3>2, FS_AddElement
    <3>4. /\ Cardinality(TurretsOf(o)') <= Cardinality(TurretsOf(o) \cup {new})
          /\ Cardinality(TurretsOf(o)') \in Nat
      BY <2>1, <3>3, FS_Subset, FS_CardinalityType
    <3> QED  BY <2>3, <2>4, <3>1, <3>3, <3>4
  <2>6. CASE new \notin TurretsOf(o)'
    <3>1. TurretsOf(o)' \subseteq TurretsOf(o)
      BY <2>1, <2>6
    <3>2. /\ Cardinality(TurretsOf(o)') <= Cardinality(TurretsOf(o))
          /\ Cardinality(TurretsOf(o)') \in Nat
      BY <2>3, <3>1, FS_Subset, FS_CardinalityType
    <3> QED  BY <2>3, <2>4, <3>2
  <2> QED  BY <2>5, <2>6
<1> QED  BY <1>3, <1>4 DEF TurretLimitHolds

-----------------------------------------------------------------------------
(* Admins and artifacts.                                                   *)

\* No new player, and nobody is forgotten to have logged in: no new uninvited admin.
LEMMA NoNewAdmin ==
    ASSUME Inv, loggedIn \cap DOMAIN objects' \subseteq loggedIn',
           \A i \in DOMAIN objects' : objects'[i].kind = "player" =>
             i \in DOMAIN objects /\ Same(objects[i], objects'[i])
    PROVE  OneUninvitedAdmin'
<1>1. \A i \in Players' \ loggedIn' :
        i \in Players \ loggedIn /\ objects'[i].admin = objects[i].admin
  BY DEF Players, OfKind, Same
<1> QED  BY <1>1 DEF Inv, OneUninvitedAdmin

LEMMA Ranges ==
    ASSUME NEW f \in Int, NEW l \in Int, NEW n \in f .. (l + 1), NEW m \in n .. (l + 1)
    PROVE  /\ n .. (m - 1) \subseteq n .. l
           /\ n .. l \subseteq f .. l
           /\ n .. l \cap f .. (n - 1) = {}
           /\ n .. l \subseteq f .. (l + 1)
           /\ m .. l \subseteq n .. l
  OBVIOUS

\* Only the artifacts' loop counts pickups; an artifact enters the map untouched.
LEMMA ProgressKeepsArtifacts ==
    ASSUME Inv, NEW S, Progress(S), taken' = taken, phase' # "artifacts"
    PROVE  ArtifactsFit'
<1>0. /\ World' /\ IdRanges'
      /\ DOMAIN objects \cap (DOMAIN newBullets \cup DOMAIN newArtifacts) = {}
      /\ nextId .. (nextId' - 1) \subseteq nextId .. LastId
      /\ nextId .. LastId \subseteq ItemIds
      /\ DOMAIN objects \cap nextId .. LastId = {}
      /\ nextId' .. LastId \subseteq nextId .. LastId
  <2>1. World' /\ IdRanges'
    BY ProgressKeepsIds
  <2>2. /\ FirstId \in Nat /\ LastId \in Nat /\ nextId \in FirstId .. (LastId + 1)
        /\ nextId' \in nextId .. (LastId + 1)
        /\ DOMAIN objects \subseteq ClientIds \cup FirstId .. (nextId - 1)
    BY IdAssumption DEF Inv, TypeOK, Progress, IdRanges, InUse
  <2>3. /\ nextId .. (nextId' - 1) \subseteq nextId .. LastId
        /\ nextId .. LastId \subseteq ItemIds
        /\ DOMAIN objects \cap nextId .. LastId = {}
        /\ nextId' .. LastId \subseteq nextId .. LastId
    <3>1. /\ nextId .. (nextId' - 1) \subseteq nextId .. LastId
          /\ nextId .. LastId \subseteq ItemIds
          /\ nextId .. LastId \cap FirstId .. (nextId - 1) = {}
          /\ nextId .. LastId \subseteq FirstId .. (LastId + 1)
          /\ nextId' .. LastId \subseteq nextId .. LastId
      <4>1. /\ FirstId \in Int /\ LastId \in Int
            /\ nextId \in FirstId .. (LastId + 1) /\ nextId' \in nextId .. (LastId + 1)
        BY <2>2
      <4> DEFINE n == nextId
                 m == nextId'
      <4>2. n \in FirstId .. (LastId + 1) /\ m \in n .. (LastId + 1)
        BY <4>1
      <4> HIDE DEF n, m
      <4>3. /\ n .. (m - 1) \subseteq n .. LastId
            /\ n .. LastId \subseteq FirstId .. LastId
            /\ n .. LastId \cap FirstId .. (n - 1) = {}
            /\ n .. LastId \subseteq FirstId .. (LastId + 1)
            /\ m .. LastId \subseteq n .. LastId
        BY <4>1, <4>2, Ranges
      <4> QED  BY <4>3, Zenon DEF n, m, ItemIds
    <3>2. ClientIds \cap FirstId .. (LastId + 1) = {}
      BY IdAssumption
    <3> QED  BY <2>2, <3>1, <3>2
  <2> QED  BY <2>1, <2>3 DEF Inv, IdRanges
<1>1. \A i \in DOMAIN newBullets \cup DOMAIN newArtifacts \cup nextId .. LastId : Untaken(i)
  BY DEF Inv, ArtifactsFit
<1>2. ASSUME NEW i \in DOMAIN objects', objects'[i].kind = "artifact", ~objects'[i].flag
      PROVE  Untaken(i)
  <2>1. i \in ItemIds
    BY <1>0, <1>2 DEF World, IdRanges
  <2>2. CASE i \in DOMAIN objects /\ Same(objects[i], objects'[i])
    <3>1. i \in OfKind({"artifact"}) /\ ~objects[i].flag
      BY <1>2, <2>2 DEF Same, OfKind
    <3> QED  BY <3>1 DEF Inv, ArtifactsFit
  <2>3. CASE ~(i \in DOMAIN objects /\ Same(objects[i], objects'[i]))
    <3>1. i \in DOMAIN newBullets \cup DOMAIN newArtifacts \cup nextId .. LastId
      BY <1>0, <1>2, <2>3 DEF Progress
    <3> QED  BY <1>1, <3>1
  <2> QED  BY <2>2, <2>3
<1>3. ASSUME NEW i \in DOMAIN newBullets' \cup DOMAIN newArtifacts' \cup nextId' .. LastId
      PROVE  Untaken(i)
  <2>1. i \in DOMAIN newBullets \cup DOMAIN newArtifacts \cup nextId .. LastId
    BY <1>0, <1>3 DEF Progress
  <2> QED  BY <1>1, <2>1
<1>4. \A i \in ItemIds, p \in ClientIds : taken[i][p] <= 1
  BY DEF Inv, ArtifactsFit
<1> QED  BY <1>2, <1>3, <1>4 DEF ArtifactsFit, OfKind, Untaken

-----------------------------------------------------------------------------
(* The three kinds of steps: requests, Update's first loop, and its others. *)

LEMMA TickVariables ==
    Inv /\ phase = "idle" =>
      /\ newBullets = Nothing /\ newArtifacts = Nothing
      /\ todo = {} /\ inner = {} /\ caught = {} /\ cur = None
      /\ InUse = DOMAIN objects
  BY DEF Inv, TickInv, LoopControl, InUse, Nothing

\* A request runs between two ticks: it need only keep the objects' identities.
LEMMA RequestKeepsInv ==
    ASSUME Inv, phase = "idle", Progress({}), UNCHANGED <<tick, taken>>,
           loggedIn' \subseteq ClientIds,
           OneBuildingPerCell' /\ TurretLimitHolds' /\ OneUninvitedAdmin'
    PROVE  Inv'
<1>1. World' /\ IdRanges' /\ GoesOffOnce'
  BY ProgressKeepsIds
<1>4. ArtifactsFit'
  <2>1. phase' # "artifacts"
    BY DEF tick
  <2> QED  BY <2>1, ProgressKeepsArtifacts
<1>2. LoopControl'
  BY TickVariables DEF tick, LoopControl, Nothing
<1>3. TypeOK'
  BY <1>1, TickVariables DEF tick, World, TypeOK
<1> QED  BY <1>1, <1>2, <1>3, <1>4 DEF Inv, TickInv

\* Update's first loop visits one object after the other: it may remove the one
\* it visits, which then may have gone off, and shoot.
LEMMA VisitKeepsInv ==
    ASSUME Inv, NEW i, Visit(i), Keeps(objects'),
           DOMAIN objects \ {i} \subseteq DOMAIN objects',
           NEW S, S \subseteq DOMAIN objects, spent' = Count(S),
           \A j \in S : objects[j].kind \in Spendable /\ j \notin DOMAIN objects',
           (\E o \in ClientIds \cup {None} : Shoot(o)) \/ HoldFire
    PROVE  Inv'
<1> USE IdAssumption
<1>0. /\ nextId \in Nat /\ LastId \in Nat /\ FirstId \in Nat
      /\ nextId \in FirstId .. (LastId + 1)
      /\ newBullets \in [DOMAIN newBullets -> Object]
      /\ newArtifacts \in [DOMAIN newArtifacts -> Object]
      /\ nextId \notin DOMAIN objects
  BY DEF Inv, TypeOK, IdRanges, InUse
<1>1. /\ nextId' \in nextId .. (LastId + 1)
      /\ newBullets' \in [DOMAIN newBullets' -> Object]
      /\ DOMAIN newBullets' \subseteq DOMAIN newBullets \cup nextId .. (nextId' - 1)
      /\ nextId \notin DOMAIN objects
      /\ \A b \in DOMAIN newBullets' : newBullets'[b].kind = "bullet"
      /\ DOMAIN newBullets' \cap DOMAIN objects = {}
  <2>1. ASSUME NEW o \in ClientIds \cup {None}, Shoot(o)
        PROVE  /\ nextId' \in nextId .. (LastId + 1)
               /\ newBullets' \in [DOMAIN newBullets' -> Object]
               /\ DOMAIN newBullets' \subseteq DOMAIN newBullets \cup nextId .. (nextId' - 1)
               /\ \A b \in DOMAIN newBullets' : newBullets'[b].kind = "bullet"
               /\ DOMAIN newBullets' \cap DOMAIN objects = {}
    <3>1. NewBullet(o) \in Object /\ NewBullet(o).kind = "bullet"
      BY NewTypes
    <3>2. /\ newBullets' = Put(newBullets, nextId, NewBullet(o))
          /\ nextId' = nextId + 1 /\ nextId <= LastId
      BY <2>1 DEF Shoot
    <3>3. /\ newBullets' \in [DOMAIN newBullets \cup {nextId} -> Object]
          /\ DOMAIN newBullets' = DOMAIN newBullets \cup {nextId}
      BY <1>0, <3>1, <3>2 DEF Put
    <3>4. nextId' \in nextId .. (LastId + 1) /\ nextId \in nextId .. (nextId' - 1)
      BY <1>0, <3>2
    <3>5. \A b \in DOMAIN newBullets' : newBullets'[b].kind = "bullet"
      BY <3>1, <3>2, <3>3 DEF Put, Inv, TickInv, LoopControl
    <3>6. DOMAIN newBullets' \cap DOMAIN objects = {}
      BY <1>0, <3>3 DEF Inv, IdRanges
    <3> QED  BY <3>3, <3>4, <3>5, <3>6
  <2>2. CASE HoldFire
    BY <1>0, <2>2 DEF HoldFire, Inv, TickInv, LoopControl, IdRanges
  <2> QED  BY <1>0, <2>1, <2>2
<1>2. /\ inner = {} /\ caught = {} /\ cur = None /\ newArtifacts = Nothing
      /\ phase = "update" /\ phase' = "update" /\ todo' = todo \ {i}
      /\ newArtifacts' = Nothing /\ inner' = {} /\ caught' = {} /\ cur' = None
      /\ todo \subseteq DOMAIN objects
      /\ loggedIn' = loggedIn /\ taken' = taken
      /\ taken' \in [ItemIds -> [ClientIds -> Nat]]
      /\ DOMAIN newArtifacts = {} /\ DOMAIN newArtifacts' = {}
  BY DEF Inv, TypeOK, TickInv, LoopControl, Visit, Nothing
<1>3. Progress(S)
  <2>2. DOMAIN objects' \subseteq DOMAIN objects
    BY DEF Keeps
  <2> QED  BY <1>0, <1>1, <1>2, <2>2 DEF Progress, Keeps
<1>4. World' /\ IdRanges' /\ GoesOffOnce'
  BY <1>3, ProgressKeepsIds
<1>5. TypeOK'
  BY <1>2, <1>4 DEF TypeOK, World, Inv
<1>6. LoopControl'
  BY <1>1, <1>2 DEF LoopControl
<1>7. OneBuildingPerCell' /\ TurretLimitHolds' /\ OneUninvitedAdmin'
  BY <1>2, NoNewBuilding, NoNewAdmin DEF Keeps
<1>8. ArtifactsFit'
  BY <1>2, <1>3, ProgressKeepsArtifacts
<1> QED  BY <1>4, <1>5, <1>6, <1>7, <1>8 DEF Inv, TickInv

\* The collision loops add and remove nothing, and take up objects of their kind.
LEMMA LoopKeepsInv ==
    ASSUME Inv, phase \notin {"idle", "update"}, phase' = phase,
           Keeps(objects'), DOMAIN objects' = DOMAIN objects,
           MayDropArtifact, UNCHANGED <<newBullets, caught, loggedIn>>,
           todo' \subseteq todo,
           inner' \subseteq DOMAIN objects,
           cur' \in {cur} \cup todo,
           inner' # {} => cur' \in todo \/ inner # {},
           phase = "mines" => inner' \subseteq Enemies,
           phase = "bullets" => UNCHANGED <<inner, cur>>,
           NEW S, S \subseteq DOMAIN objects, spent' = Count(S),
           \A i \in S : /\ objects[i].kind \in Spendable
                        /\ ~objects[i].flag /\ objects'[i].flag,
           taken' \in [ItemIds -> [ClientIds -> Nat]],
           IF phase = "artifacts" THEN ArtifactsFit' ELSE taken' = taken
    PROVE  Inv'
<1> USE IdAssumption
<1>0. /\ nextId \in Nat /\ LastId \in Nat /\ FirstId \in Nat
      /\ nextId \in FirstId .. (LastId + 1)
      /\ newArtifacts \in [DOMAIN newArtifacts -> Object]
      /\ nextId \notin DOMAIN objects
      /\ newBullets = Nothing /\ DOMAIN newBullets = {}
      /\ newBullets \in [DOMAIN newBullets -> Object]
  BY DEF Inv, TypeOK, IdRanges, InUse, TickInv, LoopControl, Nothing
<1>1. /\ nextId' \in nextId .. (LastId + 1)
      /\ newArtifacts' \in [DOMAIN newArtifacts' -> Object]
      /\ DOMAIN newArtifacts' \subseteq DOMAIN newArtifacts \cup nextId .. (nextId' - 1)
      /\ \A a \in DOMAIN newArtifacts' : newArtifacts'[a].kind = "artifact"
      /\ DOMAIN newArtifacts' \cap DOMAIN objects = {}
  <2>1. CASE UNCHANGED <<nextId, newArtifacts>>
    BY <1>0, <2>1 DEF Inv, TickInv, LoopControl, IdRanges
  <2>2. CASE /\ nextId <= LastId /\ nextId' = nextId + 1
             /\ newArtifacts' = Put(newArtifacts, nextId, New("artifact"))
    <3>1. New("artifact") \in Object /\ New("artifact").kind = "artifact"
      BY NewTypes DEF Kinds
    <3>2. /\ newArtifacts' \in [DOMAIN newArtifacts \cup {nextId} -> Object]
          /\ DOMAIN newArtifacts' = DOMAIN newArtifacts \cup {nextId}
      BY <1>0, <2>2, <3>1 DEF Put
    <3>3. nextId' \in nextId .. (LastId + 1) /\ nextId \in nextId .. (nextId' - 1)
      BY <1>0, <2>2
    <3>4. \A a \in DOMAIN newArtifacts' : newArtifacts'[a].kind = "artifact"
      BY <2>2, <3>1, <3>2 DEF Put, Inv, TickInv, LoopControl
    <3>5. DOMAIN newArtifacts' \cap DOMAIN objects = {}
      BY <1>0, <3>2 DEF Inv, IdRanges
    <3> QED  BY <3>2, <3>3, <3>4, <3>5
  <2> QED  BY <2>1, <2>2 DEF MayDropArtifact
<1>2. Progress(S)
  BY <1>0, <1>1 DEF Progress, Keeps
<1>3. World' /\ IdRanges' /\ GoesOffOnce'
  BY <1>2, ProgressKeepsIds
<1>4. TypeOK'
  BY <1>3 DEF TypeOK, World, Inv
<1>5. LoopControl'
  <2>1. ASSUME NEW i \in todo' \cup (IF inner' = {} THEN {} ELSE {cur'})
        PROVE  i \in DOMAIN objects' /\ objects'[i].kind = LoopKind[phase']
    <3>1. i \in todo \cup (IF inner = {} THEN {} ELSE {cur})
      BY <2>1
    <3>2. i \in DOMAIN objects /\ objects[i].kind = LoopKind[phase]
      BY <3>1 DEF Inv, TickInv, LoopControl
    <3> QED  BY <3>2 DEF Keeps, Same
  <2>2. phase' = "mines" => inner' \subseteq Enemies'
    BY DEF Enemies, OfKind, Keeps, Same
  <2>3. phase' \in {"idle", "update", "bullets"} => inner' = {} /\ cur' = None
    BY DEF Inv, TickInv, LoopControl
  <2> QED  BY <1>0, <1>1, <2>1, <2>2, <2>3 DEF LoopControl
<1>6. OneBuildingPerCell' /\ TurretLimitHolds' /\ OneUninvitedAdmin'
  BY NoNewBuilding, NoNewAdmin DEF Keeps
<1>7. ArtifactsFit'
  BY <1>2, ProgressKeepsArtifacts
<1> QED  BY <1>3, <1>4, <1>5, <1>6, <1>7 DEF Inv, TickInv

-----------------------------------------------------------------------------
(* The requests.                                                           *)

LEMMA KeepingRequest ==
    ASSUME Inv, phase = "idle", Keeps(objects'), UNCHANGED <<nextId, tick, spent, taken>>,
           loggedIn \cap DOMAIN objects' \subseteq loggedIn',
           loggedIn' \subseteq ClientIds
    PROVE  Inv'
<1>0. /\ DOMAIN newBullets = {} /\ DOMAIN newArtifacts = {}
      /\ newBullets' = newBullets /\ newArtifacts' = newArtifacts
      /\ newBullets \in [DOMAIN newBullets -> Object]
      /\ newArtifacts \in [DOMAIN newArtifacts -> Object]
      /\ nextId' = nextId /\ nextId \in Nat /\ LastId \in Nat
      /\ nextId \in FirstId .. (LastId + 1)
  BY TickVariables, IdAssumption DEF tick, Nothing, Inv, TypeOK
<1>1. nextId' \in nextId .. (LastId + 1)
  BY <1>0, IdAssumption
<1>2. Progress({})
  <2>1. spent' = Count({}) /\ taken' \in [ItemIds -> [ClientIds -> Nat]]
    BY CountNothing DEF Inv, TypeOK
  <2> QED  BY <1>0, <1>1, <2>1 DEF Progress, Keeps
<1>3. OneBuildingPerCell' /\ TurretLimitHolds' /\ OneUninvitedAdmin'
  BY NoNewBuilding, NoNewAdmin DEF Keeps
<1> QED  BY <1>2, <1>3, RequestKeepsInv

\* What is added by a request: a client's player in place of anything its slot
\* held, or an object under nextId.
LEMMA AddingRequest ==
    ASSUME Inv, phase = "idle", UNCHANGED <<tick, spent, taken>>,
           loggedIn' \subseteq ClientIds,
           NEW new, loggedIn \ {new} \subseteq loggedIn', DOMAIN objects' = DOMAIN objects \cup {new},
           objects' \in [DOMAIN objects' -> Object],
           \A i \in DOMAIN objects \ {new} : Same(objects[i], objects'[i]),
           \/ new \in ClientIds /\ objects'[new].kind = "player" /\ nextId' = nextId
           \/ /\ new = nextId /\ nextId' = nextId + 1 /\ nextId <= LastId
              /\ objects'[new].kind # "player",
           new \in ClientIds /\ objects'[new].admin =>
             new \in loggedIn' \/ DOMAIN objects \subseteq {new},
           objects'[new].kind \in BuildingKinds =>
             OneBuildingPerCell' /\ TurretLimitHolds'
    PROVE  Inv'
<1>0. /\ DOMAIN newBullets = {} /\ DOMAIN newArtifacts = {}
      /\ newBullets' = newBullets /\ newArtifacts' = newArtifacts
      /\ newBullets \in [DOMAIN newBullets -> Object]
      /\ newArtifacts \in [DOMAIN newArtifacts -> Object]
      /\ nextId \in Nat /\ LastId \in Nat
      /\ nextId \in FirstId .. (LastId + 1)
  BY TickVariables, IdAssumption DEF tick, Nothing, Inv, TypeOK
<1>1. nextId' \in nextId .. (LastId + 1)
  BY <1>0, IdAssumption
<1>2. Progress({})
  <2>1. spent' = Count({}) /\ taken' \in [ItemIds -> [ClientIds -> Nat]]
    BY CountNothing DEF Inv, TypeOK
  <2>2. new \notin ClientIds => new \in nextId .. (nextId' - 1)
    BY <1>0
  <2>3. ASSUME NEW i \in DOMAIN objects'
        PROVE  \/ i \in DOMAIN objects /\ Same(objects[i], objects'[i])
               \/ i \in ClientIds /\ objects'[i].kind = "player"
               \/ i \in nextId .. (nextId' - 1) /\ objects'[i].kind # "player"
    <3>1. CASE i = new
      BY <1>0, <3>1
    <3>2. CASE i # new
      BY <3>2
    <3> QED  BY <3>1, <3>2
  <2> QED  BY <1>0, <1>1, <2>1, <2>3 DEF Progress
<1>3. OneBuildingPerCell' /\ TurretLimitHolds'
  <2>1. CASE objects'[new].kind \in BuildingKinds
    BY <2>1
  <2>2. CASE objects'[new].kind \notin BuildingKinds
    BY <2>2, NoNewBuilding
  <2> QED  BY <2>1, <2>2
<1>5. OneUninvitedAdmin'
  <2>1. CASE new \in Players' /\ DOMAIN objects \subseteq {new}
    BY <2>1 DEF OneUninvitedAdmin, Players, OfKind
  <2>2. CASE ~(new \in Players' /\ DOMAIN objects \subseteq {new})
    <3>1. \A i \in Players' \ loggedIn' : objects'[i].admin =>
            i \in Players \ loggedIn /\ objects[i].admin
      BY <1>0, <2>2 DEF Players, OfKind, Same
    <3> QED  BY <3>1 DEF Inv, OneUninvitedAdmin
  <2> QED  BY <2>1, <2>2
<1> QED  BY <1>2, <1>3, <1>5, RequestKeepsInv

LEMMA NextIdIsNew == Inv => nextId \notin ClientIds /\ nextId \notin DOMAIN objects
<1> SUFFICES ASSUME Inv PROVE nextId \notin ClientIds /\ nextId \notin DOMAIN objects
  OBVIOUS
<1>1. nextId \in Nat /\ nextId \in FirstId .. (LastId + 1)
  BY IdAssumption DEF Inv, TypeOK
<1>2. nextId \notin ClientIds /\ nextId \notin FirstId .. (nextId - 1)
  BY <1>1, IdAssumption
<1> QED  BY <1>2 DEF Inv, IdRanges, InUse

LEMMA CreatePlayerKeepsInv ==
    ASSUME Inv, NEW id \in ClientIds, phase = "idle", CreatePlayerWithId(id),
           loggedIn' = loggedIn \ {id}, UNCHANGED <<nextId, tick, spent, taken>>
    PROVE  Inv'
<1> DEFINE p == [New("player") EXCEPT !.admin = FirstOnTheMap(Erase(objects, id))]
<1>1. New("player") \in Object /\ New("player").kind = "player"
  BY NewTypes DEF Kinds
<1>2. /\ p \in Object /\ p.kind = "player"
      /\ p.admin => DOMAIN objects \subseteq {id}
  <2>1. DOMAIN Erase(objects, id) = DOMAIN objects \ {id}
    BY DEF Erase
  <2> QED  BY <1>1, <2>1 DEF Object, FirstOnTheMap
<1>3. objects' = Put(Erase(objects, id), id, p)
  BY DEF CreatePlayerWithId
<1> HIDE DEF p
<1>4. objects \in [DOMAIN objects -> Object]
  BY DEF Inv, TypeOK
<1>5. /\ DOMAIN objects' = DOMAIN objects \cup {id}
      /\ objects' \in [DOMAIN objects' -> Object]
      /\ objects'[id] = p
      /\ \A i \in DOMAIN objects \ {id} : objects'[i] = objects[i]
  BY <1>2, <1>3, <1>4 DEF Put, Erase
<1>6. \A i \in DOMAIN objects \ {id} : Same(objects[i], objects'[i])
  BY <1>4, <1>5, SameRecords
<1>7. objects'[id].kind \notin BuildingKinds
  BY <1>2, <1>5 DEF BuildingKinds, Structures
<1>8. loggedIn' \subseteq ClientIds /\ loggedIn \ {id} \subseteq loggedIn'
  BY DEF Inv, TypeOK
<1> QED  BY <1>2, <1>5, <1>6, <1>7, <1>8, AddingRequest

LEMMA SpawnKeepsInv ==
    ASSUME Inv, phase = "idle", NEW r \in Nat, SpawnEnemy(r),
           UNCHANGED <<tick, history>>
    PROVE  Inv'
<1>1. NewEnemy(r) \in Object /\ NewEnemy(r).kind = "enemy"
  BY NewTypes
<1>2. /\ objects' = Put(objects, nextId, NewEnemy(r))
      /\ nextId' = nextId + 1 /\ nextId <= LastId
  BY DEF SpawnEnemy
<1>3. objects \in [DOMAIN objects -> Object]
  BY DEF Inv, TypeOK
<1>4. /\ DOMAIN objects' = DOMAIN objects \cup {nextId}
      /\ objects' \in [DOMAIN objects' -> Object]
      /\ objects'[nextId] = NewEnemy(r)
      /\ \A i \in DOMAIN objects \ {nextId} : objects'[i] = objects[i]
  BY <1>1, <1>2, <1>3 DEF Put
<1>5. \A i \in DOMAIN objects \ {nextId} : Same(objects[i], objects'[i])
  BY <1>3, <1>4, SameRecords
<1>6. objects'[nextId].kind \notin BuildingKinds /\ objects'[nextId].kind # "player"
  BY <1>1, <1>4 DEF BuildingKinds, Structures
<1>7. /\ loggedIn' \subseteq ClientIds /\ UNCHANGED <<tick, spent, taken>>
      /\ loggedIn' = loggedIn
  BY DEF Inv, TypeOK, history
<1>8. nextId \notin ClientIds
  BY NextIdIsNew
<1> QED  BY <1>2, <1>4, <1>5, <1>6, <1>7, <1>8, AddingRequest

LEMMA TryBuildKeepsInv ==
    ASSUME Inv, NEW id \in ClientIds, NEW type \in BuildTypes, NEW c \in Cells,
           TryBuild(id, type, c)
    PROVE  Inv'
<1> DEFINE b == NewBuilding(type, c, id)
           paid == [objects[id] EXCEPT !.scrap = @ - Cost(type)]
<1>1. /\ type \in BuildingKinds /\ b \in Object /\ b.kind = type
      /\ type # "player"
  BY NewTypes, NumberAssumption DEF BuildingKinds, Structures
<1>2. /\ objects \in [DOMAIN objects -> Object] /\ id \in DOMAIN objects
      /\ nextId \notin DOMAIN objects /\ objects[id] \in Object
  BY NextIdIsNew DEF Inv, TypeOK, TryBuild, Players, OfKind
<1>3. Same(objects[id], paid)
  <2>1. Cost(type) \in Nat
    BY <1>1, NumberAssumption DEF Cost, BuildingKinds, Structures
  <2>2. objects[id].scrap \in Nat /\ objects[id].scrap >= Cost(type)
    BY <1>2 DEF Object, TryBuild, CanPay
  <2>3. objects[id].scrap - Cost(type) \in Nat
    BY <2>1, <2>2
  <2> QED  BY <1>2, <2>3, SameRecords
<1>4. /\ objects' = Put([objects EXCEPT ![id] = paid], nextId, b)
      /\ nextId' = nextId + 1 /\ nextId <= LastId
  BY <1>2 DEF TryBuild
<1>5. paid \in Object
  BY <1>3 DEF Same
<1> HIDE DEF b, paid
<1>6. /\ DOMAIN objects' = DOMAIN objects \cup {nextId}
      /\ objects' \in [DOMAIN objects' -> Object]
      /\ objects'[nextId] = b
      /\ \A i \in DOMAIN objects : objects'[i] = objects[i] \/ (i = id /\ objects'[i] = paid)
  BY <1>1, <1>2, <1>4, <1>5 DEF Put
<1>7. \A i \in DOMAIN objects : Same(objects[i], objects'[i])
  BY <1>2, <1>3, <1>6, SameRecords
<1>8. OneBuildingPerCell' /\ TurretLimitHolds'
  BY <1>1, <1>2, <1>6, <1>7, NewBuildingFits DEF TryBuild, b
<1>9. /\ loggedIn' \subseteq ClientIds /\ UNCHANGED <<tick, spent, taken>>
      /\ phase = "idle" /\ loggedIn' = loggedIn /\ nextId \notin ClientIds
  BY NextIdIsNew DEF Inv, TypeOK, history, TryBuild
<1> QED  BY <1>1, <1>4, <1>6, <1>7, <1>8, <1>9, AddingRequest

LEMMA RequestInv == Inv /\ Request => Inv'
<1> SUFFICES ASSUME Inv, Request PROVE Inv'
  OBVIOUS
<1>0. /\ objects \in [DOMAIN objects -> Object] /\ Keeps(objects)
      /\ loggedIn \subseteq ClientIds
      /\ Gift \in Nat /\ MaxLevel \in Nat /\ BossReward \in Nat /\ Rewards \subseteq Nat
      /\ \A i \in DOMAIN objects : objects[i] \in Object
  BY KeepsAll, NumberAssumption DEF Inv, TypeOK
<1>1. ASSUME NEW id \in ClientIds, Connect(id) \/ JoinGame(id)
      PROVE  Inv'
  BY <1>1, CreatePlayerKeepsInv DEF Connect, JoinGame
<1>2. ASSUME NEW id \in ClientIds, Leave(id)
      PROVE  Inv'
  <2>1. Keeps(objects') /\ id \notin DOMAIN objects'
    BY <1>0, <1>2, KeepsErased DEF Leave, Inv, Erase
  <2> QED  BY <1>0, <1>2, <2>1, KeepingRequest DEF Leave
<1>3. ASSUME NEW id \in ClientIds, NEW type \in BuildTypes, NEW c \in Cells,
             TryBuild(id, type, c)
      PROVE  Inv'
  BY <1>3, TryBuildKeepsInv
<1>4. ASSUME NEW id \in ClientIds, NEW b \in Buildings, TryUpgrade(id, b)
      PROVE  Inv'
  <2> DEFINE paid == [objects[id] EXCEPT !.scrap = @ - UpgradeCost * objects[b].level]
             f == [objects EXCEPT ![id] = paid]
  <2>1. /\ id \in DOMAIN objects /\ b \in DOMAIN objects /\ id # b
        /\ phase = "idle" /\ UNCHANGED <<nextId, tick, history>>
    BY <1>4 DEF TryUpgrade, Players, Buildings, OfKind, BuildingKinds, Structures
  <2>2. Same(objects[id], paid)
    <3>1. /\ objects[id].scrap \in Nat /\ objects[b].level \in Nat
          /\ UpgradeCost \in Nat
      BY <1>0, <2>1, NumberAssumption DEF Object
    <3>2. objects[id].scrap >= UpgradeCost * objects[b].level
      BY <1>4 DEF TryUpgrade, CanPay
    <3>3. UpgradeCost * objects[b].level \in Nat
      BY <3>1
    <3>4. objects[id].scrap - UpgradeCost * objects[b].level \in Nat
      BY <3>1, <3>2, <3>3
    <3> QED  BY <1>0, <2>1, <3>4, SameRecords
  <2>3. Keeps(f) /\ DOMAIN f = DOMAIN objects /\ f[b] = objects[b]
    BY <1>0, <2>1, <2>2, KeepsOne DEF Inv
  <2>4. Same(f[b], Upgrade(f[b]))
    BY <1>0, <2>1, <2>3, SameRecords
  <2>5. objects' = [f EXCEPT ![b] = Upgrade(f[b])]
    BY <1>4, <2>1 DEF TryUpgrade
  <2>6. Keeps(objects')
    BY <2>1, <2>3, <2>4, <2>5, KeepsOne DEF Inv
  <2> QED  BY <1>0, <2>1, <2>6, KeepingRequest DEF history
<1>5. ASSUME NEW id \in ClientIds, GiveScrap(id) \/ GiveXp(id)
      PROVE  Inv'
  <2>1. id \in DOMAIN objects /\ phase = "idle"
    BY <1>5 DEF GiveScrap, GiveXp, MayCommand, Players, OfKind
  <2>2. /\ objects[id].scrap + Gift \in Nat
        /\ \A l \in LevelsUp(objects[id]) : l \in Nat
    BY <1>0, <2>1 DEF Object, LevelsUp
  <2>3. PICK r : Same(objects[id], r) /\ objects' = [objects EXCEPT ![id] = r]
    <3>2. CASE GiveScrap(id)
      BY <1>0, <2>1, <2>2, <3>2, SameRecords DEF GiveScrap
    <3>3. CASE GiveXp(id)
      BY <1>0, <2>1, <2>2, <3>3, SameRecords DEF GiveXp
    <3> QED  BY <1>5, <3>2, <3>3
  <2>4. Keeps(objects')
    BY <1>0, <2>1, <2>3, KeepsOne DEF Inv
  <2>5. /\ UNCHANGED <<nextId, tick, spent, taken>>
        /\ loggedIn' = loggedIn
    BY <1>0, <1>5 DEF GiveScrap, GiveXp, history
  <2> QED  BY <1>0, <2>1, <2>4, <2>5, KeepingRequest
<1>11. ASSUME NEW id \in ClientIds, Login(id)
       PROVE  Inv'
  <2>1. /\ id \in DOMAIN objects /\ objects[id].kind = "player" /\ phase = "idle"
        /\ objects' = [objects EXCEPT ![id].admin = TRUE]
        /\ loggedIn' = loggedIn \cup {id}
        /\ UNCHANGED <<nextId, tick, spent, taken>>
    BY <1>11 DEF Login, MayCommand, Players, OfKind
  <2>2. [objects[id] EXCEPT !.admin = TRUE] \in Object /\ [objects[id] EXCEPT !.admin = TRUE].kind = "player"
    BY <1>0, <2>1 DEF Object
  <2> DEFINE p == [objects[id] EXCEPT !.admin = TRUE]
  <2>3. objects' = [objects EXCEPT ![id] = p] /\ p \in Object /\ p.kind = "player"
    BY <2>1, <2>2
  <2> HIDE DEF p
  <2>4. /\ DOMAIN objects' = DOMAIN objects \cup {id} /\ objects'[id] = p
        /\ objects' \in [DOMAIN objects' -> Object]
        /\ \A i \in DOMAIN objects \ {id} : objects'[i] = objects[i]
    BY <1>0, <2>1, <2>3
  <2>5. \A i \in DOMAIN objects \ {id} : Same(objects[i], objects'[i])
    BY <1>0, <2>4, SameRecords
  <2>6. /\ objects'[id].kind \notin BuildingKinds /\ objects'[id].kind = "player"
        /\ loggedIn' \subseteq ClientIds /\ loggedIn \ {id} \subseteq loggedIn' /\ id \in loggedIn'
    BY <1>0, <2>1, <2>3, <2>4 DEF BuildingKinds, Structures
  <2> QED  BY <2>1, <2>4, <2>5, <2>6, AddingRequest
<1>6. ASSUME NEW id \in ClientIds, KillAllEnemies(id)
      PROVE  Inv'
  <2>1. /\ DOMAIN objects' = DOMAIN objects
        /\ objects' = [i \in DOMAIN objects |-> objects'[i]]
        /\ \A i \in DOMAIN objects : objects'[i] \in {objects[i], [objects[i] EXCEPT !.hp = "zero"]}
    BY <1>6 DEF KillAllEnemies
  <2>3. \A i \in DOMAIN objects : Same(objects[i], objects'[i])
    BY <1>0, <2>1, SameRecords
  <2>4. Keeps(objects')
    BY <2>1, <2>3, KeepsMap
  <2> QED  BY <1>0, <1>6, <2>4, KeepingRequest DEF KillAllEnemies, MayCommand, history
<1>7. ASSUME NEW id \in ClientIds, ClearBuildings(id) \/ ResetServer(id)
      PROVE  Inv'
  <2>1. Keeps(objects')
    <3>1. CASE ClearBuildings(id)
      <4>1. /\ DOMAIN objects' = DOMAIN objects
            /\ objects' = [i \in DOMAIN objects |-> objects'[i]]
            /\ \A i \in DOMAIN objects :
                 objects'[i] \in {objects[i], [objects[i] EXCEPT !.flag = TRUE]}
        BY <3>1 DEF ClearBuildings
      <4>2. \A i \in DOMAIN objects : Same(objects[i], objects'[i])
        BY <1>0, <4>1, SameRecords
      <4> QED  BY <4>1, <4>2, KeepsMap
    <3>2. CASE ResetServer(id)
      <4>1. /\ DOMAIN objects' \subseteq DOMAIN objects
            /\ objects' = [i \in DOMAIN objects' |-> objects'[i]]
            /\ \A i \in DOMAIN objects' : objects'[i] = Reset(objects[i])
        BY <3>2 DEF ResetServer, Players, OfKind
      <4>2. \A i \in DOMAIN objects' : Same(objects[i], objects'[i])
        BY <1>0, <4>1, SameRecords
      <4> QED  BY <4>1, <4>2, KeepsMap
    <3> QED  BY <1>7, <3>1, <3>2
  <2> QED  BY <1>0, <1>7, <2>1, KeepingRequest
           DEF ClearBuildings, ResetServer, MayCommand, history
<1>8. ASSUME NEW r \in Rewards, SpawnWaveEnemy(r)
      PROVE  Inv'
  BY <1>0, <1>8, SpawnKeepsInv DEF SpawnWaveEnemy
<1>9. ASSUME NEW id \in ClientIds, SpawnBoss(id)
      PROVE  Inv'
  BY <1>0, <1>9, SpawnKeepsInv DEF SpawnBoss, MayCommand
<1>10. CASE ClearEmptyWorld
  <2>1. /\ DOMAIN objects' \subseteq DOMAIN objects
        /\ objects' = [i \in DOMAIN objects' |-> objects'[i]]
        /\ \A i \in DOMAIN objects' : objects'[i] = objects[i]
    BY <1>10 DEF ClearEmptyWorld
  <2>2. \A i \in DOMAIN objects' : Same(objects[i], objects'[i])
    BY <1>0, <2>1 DEF Keeps
  <2>3. Keeps(objects')
    BY <2>1, <2>2, KeepsMap
  <2> QED  BY <1>0, <1>10, <2>3, KeepingRequest DEF ClearEmptyWorld, history
<1> QED  BY <1>1, <1>2, <1>3, <1>4, <1>5, <1>6, <1>7, <1>8, <1>9, <1>10, <1>11
         DEF Request, ClientIds

-----------------------------------------------------------------------------
(* Update's first loop.                                                    *)

LEMMA UpdateLoopInv == Inv /\ (\E i \in todo :
         \/ UpdatePlayer(i) \/ UpdateTurret(i) \/ UpdateMine(i)
         \/ UpdateBullet(i) \/ UpdateEnemy(i) \/ UpdateOther(i)) => Inv'
<1> SUFFICES ASSUME Inv, NEW i \in todo,
                    \/ UpdatePlayer(i) \/ UpdateTurret(i) \/ UpdateMine(i)
                    \/ UpdateBullet(i) \/ UpdateEnemy(i) \/ UpdateOther(i)
             PROVE  Inv'
  OBVIOUS
<1>0. /\ i \in DOMAIN objects /\ objects[i] \in Object /\ Keeps(objects) /\ TypeOK
      /\ Visit(i) /\ Count({}) = spent
      /\ \A e \in DOMAIN objects : objects[e] \in Object
      /\ objects[i].owner \in ClientIds \cup {None}
  <2>1. i \in DOMAIN objects /\ Visit(i)
    BY DEF Inv, TypeOK, UpdatePlayer, UpdateTurret, UpdateMine, UpdateBullet,
           UpdateEnemy, UpdateOther
  <2> QED  BY <2>1, KeepsAll, CountNothing DEF Inv, TypeOK, Object
<1>1. \A f : /\ DOMAIN Erase(f, i) = DOMAIN f \ {i}
             /\ DOMAIN f \ {i} \subseteq DOMAIN EraseIfDoomed(f, i)
  BY DEF Erase, EraseIfDoomed
<1>2. \A e \in DOMAIN objects, h \in {"zero", "hurt", "full"} :
        /\ Keeps([objects EXCEPT ![e].hp = h])
        /\ DOMAIN [objects EXCEPT ![e].hp = h] = DOMAIN objects
  <2> SUFFICES ASSUME NEW e \in DOMAIN objects, NEW h \in {"zero", "hurt", "full"}
               PROVE  /\ Keeps([objects EXCEPT ![e].hp = h])
                      /\ DOMAIN [objects EXCEPT ![e].hp = h] = DOMAIN objects
    OBVIOUS
  <2>1. Same(objects[e], [objects[e] EXCEPT !.hp = h])
    BY <1>0, SameRecords
  <2> QED  BY <1>0, <2>1, KeepsOne
<1>3. /\ Keeps(objects') /\ DOMAIN objects \ {i} \subseteq DOMAIN objects'
      /\ \/ spent' = Count({})
         \/ spent' = Count({i}) /\ objects[i].kind \in Spendable /\ i \notin DOMAIN objects'
  <2>1. CASE UpdatePlayer(i) \/ UpdateTurret(i) \/ UpdateOther(i) \/ UpdateBullet(i)
    <3>1. /\ objects' = EraseIfDoomed(objects, i) \/ objects' = Erase(objects, i)
          /\ spent' = Count({})
      BY <1>0, <2>1 DEF UpdatePlayer, UpdateTurret, UpdateOther, UpdateBullet
    <3>2. /\ Keeps(EraseIfDoomed(objects, i)) /\ Keeps(Erase(objects, i))
          /\ DOMAIN objects \ {i} \subseteq DOMAIN EraseIfDoomed(objects, i)
          /\ DOMAIN objects \ {i} \subseteq DOMAIN Erase(objects, i)
      BY <1>0, <1>1, KeepsErased
    <3> QED  BY <3>1, <3>2
  <2>2. CASE UpdateMine(i)
    <3>1. CASE objects' = EraseIfDoomed(objects, i) /\ UNCHANGED spent
      BY <1>0, <1>1, <3>1, KeepsErased
    <3>2. CASE \E e \in Enemies : \E h \in Damaged(objects[e].hp) :
                 /\ objects' = Erase([objects EXCEPT ![e].hp = h], i)
                 /\ spent' = Count({i})
      <4>1. PICK e \in Enemies : \E h \in Damaged(objects[e].hp) :
                   /\ objects' = Erase([objects EXCEPT ![e].hp = h], i)
                   /\ spent' = Count({i})
        BY <3>2
      <4>2. PICK h \in Damaged(objects[e].hp) :
                   /\ objects' = Erase([objects EXCEPT ![e].hp = h], i)
                   /\ spent' = Count({i})
        BY <4>1
      <4>3. e \in DOMAIN objects /\ h \in {"zero", "hurt", "full"}
        BY DEF Enemies, OfKind, Damaged
      <4>4. objects[i].kind \in Spendable
        BY <2>2 DEF UpdateMine, Spendable
      <4>5. Keeps(objects') /\ DOMAIN objects' = DOMAIN objects \ {i}
        BY <1>0, <1>1, <1>2, <4>2, <4>3, KeepsErased
      <4> QED  BY <4>2, <4>4, <4>5
    <3> QED  BY <2>2, <3>1, <3>2 DEF UpdateMine
  <2>3. CASE UpdateEnemy(i)
    <3>1. PICK h \in Regenerated(objects[i].hp) :
                 objects' = EraseIfDoomed([objects EXCEPT ![i].hp = h], i)
      BY <2>3 DEF UpdateEnemy
    <3>2. h \in {"zero", "hurt", "full"} /\ spent' = Count({})
      BY <1>0, <2>3 DEF Regenerated, Object, UpdateEnemy
    <3> QED  BY <1>0, <1>1, <1>2, <3>1, <3>2, KeepsErased
  <2> QED  BY <2>1, <2>2, <2>3
<1>4. (\E o \in ClientIds \cup {None} : Shoot(o)) \/ HoldFire
  <2>1. CASE UpdatePlayer(i)
    <3>1. i \in ClientIds
      BY <1>0, <2>1 DEF UpdatePlayer, Inv, IdRanges
    <3> QED  BY <2>1, <3>1 DEF UpdatePlayer
  <2>2. CASE UpdateTurret(i)
    BY <1>0, <2>2 DEF UpdateTurret
  <2>3. CASE UpdateMine(i) \/ UpdateBullet(i) \/ UpdateEnemy(i) \/ UpdateOther(i)
    BY <2>3 DEF UpdateMine, UpdateBullet, UpdateEnemy, UpdateOther
  <2> QED  BY <2>1, <2>2, <2>3
<1> DEFINE S == IF spent' = Count({}) THEN {} ELSE {i}
<1>5. /\ S \subseteq DOMAIN objects /\ spent' = Count(S)
      /\ \A j \in S : objects[j].kind \in Spendable /\ j \notin DOMAIN objects'
  BY <1>0, <1>3
<1> HIDE DEF S
<1> QED  BY <1>0, <1>3, <1>4, <1>5, VisitKeepsInv

-----------------------------------------------------------------------------
(* The collision loops.                                                    *)

\* Taking up an object, or visiting one, with the objects kept and nothing new.
LEMMA TakeUpKeepsInv ==
    ASSUME Inv, NEW i, NEW in, NEW V, in \in {"contact", "mines", "artifacts"},
           TakeUp(in, i, V),
           i \in todo, V \subseteq DOMAIN objects, in = "mines" => V \subseteq Enemies,
           Keeps(objects'), DOMAIN objects' = DOMAIN objects,
           NEW S, S \subseteq DOMAIN objects, spent' = Count(S),
           \A j \in S : /\ objects[j].kind \in Spendable
                        /\ ~objects[j].flag /\ objects'[j].flag,
           in = "artifacts" => ArtifactsFit'
    PROVE  Inv'
<1>1. taken' \in [ItemIds -> [ClientIds -> Nat]] /\ taken' = taken
  BY DEF TakeUp, Inv, TypeOK
<1> QED  BY <1>1, LoopKeepsInv DEF TakeUp, MayDropArtifact

LEMMA MeetKeepsInv ==
    ASSUME Inv, NEW i, NEW in, in \in {"contact", "mines", "artifacts"},
           Meet(in, i),
           Keeps(objects'), DOMAIN objects' = DOMAIN objects,
           NEW S, S \subseteq DOMAIN objects, spent' = Count(S),
           \A j \in S : /\ objects[j].kind \in Spendable
                        /\ ~objects[j].flag /\ objects'[j].flag,
           taken' \in [ItemIds -> [ClientIds -> Nat]],
           IF in = "artifacts" THEN ArtifactsFit' ELSE taken' = taken
    PROVE  Inv'
<1>1. /\ inner' \subseteq DOMAIN objects /\ inner # {}
      /\ phase = "mines" => inner' \subseteq Enemies
  BY DEF Meet, IsFirst, Inv, TypeOK, TickInv, LoopControl
<1> QED  BY <1>1, LoopKeepsInv DEF Meet, MayDropArtifact

\* A loop is over: the next one runs over caught objects, which are in the map.
LEMMA NextLoopKeepsInv ==
    ASSUME Inv,
           \/ NextLoop("contact", "mines", {"mine"})
           \/ NextLoop("mines", "artifacts", {"artifact"})
           \/ NextLoop("artifacts", "bullets", {"bullet"})
    PROVE  Inv'
<1>1. /\ UNCHANGED <<objects, nextId, newBullets, newArtifacts, caught, history>>
      /\ inner' = {} /\ cur' = None
      /\ phase \notin {"idle", "update"}
      /\ phase' \in {"mines", "artifacts", "bullets"}
      /\ todo' \subseteq DOMAIN objects
      /\ \A i \in todo' : objects[i].kind = LoopKind[phase']
  BY DEF NextLoop, Caught, LoopKind, Inv, TypeOK
<1>2. TypeOK' /\ IdRanges' /\ OneBuildingPerCell' /\ TurretLimitHolds' /\ GoesOffOnce'
  BY <1>1 DEF Inv, TypeOK, IdRanges, InUse, TickInv, GoesOffOnce, OfKind, history,
              OneBuildingPerCell, TurretLimitHolds, TurretsOf, Buildings
<1>3. LoopControl'
  BY <1>1 DEF Inv, TickInv, LoopControl
<1>4. ArtifactsFit' /\ OneUninvitedAdmin'
  BY <1>1 DEF Inv, ArtifactsFit, Untaken, OneUninvitedAdmin, Players, OfKind, history
<1> QED  BY <1>2, <1>3, <1>4 DEF Inv, TickInv

LEMMA ContactLoopInv == Inv /\ ContactLoop => Inv'
<1> SUFFICES ASSUME Inv, ContactLoop PROVE Inv'
  OBVIOUS
<1>0. /\ Keeps(objects) /\ TypeOK /\ Count({}) = spent
      /\ taken \in [ItemIds -> [ClientIds -> Nat]]
      /\ caught \subseteq DOMAIN objects
      /\ \A i \in DOMAIN objects : objects[i] \in Object
      /\ \A i \in inner : i \in DOMAIN objects
  BY KeepsAll, CountNothing DEF Inv, TypeOK
<1>1. ASSUME NEW e \in todo, ContactEnemy(e)
      PROVE  Inv'
  <2>1. (IF Hittable(e) THEN Caught({"player"} \cup Structures) ELSE {})
          \subseteq DOMAIN objects
    BY <1>0 DEF Caught
  <2>2. /\ objects' = objects /\ spent' = Count({})
        /\ TakeUp("contact", e, IF Hittable(e) THEN Caught({"player"} \cup Structures) ELSE {})
    BY <1>0, <1>1 DEF ContactEnemy
  <2> QED  BY <1>0, <2>1, <2>2, TakeUpKeepsInv
<1>2. ASSUME NEW v \in inner, ContactMiss(v)
      PROVE  Inv'
  BY <1>0, <1>2, MeetKeepsInv DEF ContactMiss
<1>3. ASSUME NEW p \in inner,
             NEW after, NEW h \in Damaged(objects[cur].hp),
             Same(objects[p], after), p # cur, UNCHANGED <<spent, taken>>, Meet("contact", p),
             objects' = [objects EXCEPT ![p] = after, ![cur].hp = h]
      PROVE  Inv'
  <2> DEFINE f == [objects EXCEPT ![p] = after]
  <2>1. p \in DOMAIN objects /\ cur \in DOMAIN objects
    BY <1>0, <1>3 DEF Inv, TickInv, LoopControl, Meet
  <2>2. Keeps(f) /\ DOMAIN f = DOMAIN objects
    BY <1>0, <1>3, <2>1, KeepsOne
  <2>3. Same(f[cur], [f[cur] EXCEPT !.hp = h])
    BY <1>0, <1>3, <2>1, <2>2, SameRecords DEF Damaged
  <2>4. objects' = [f EXCEPT ![cur] = [f[cur] EXCEPT !.hp = h]]
    BY <1>3, <2>1
  <2>5. Keeps(objects') /\ DOMAIN objects' = DOMAIN objects
    BY <1>0, <2>1, <2>2, <2>3, <2>4, KeepsOne
  <2>6. /\ spent' = Count({}) /\ Meet("contact", p)
        /\ taken' \in [ItemIds -> [ClientIds -> Nat]] /\ taken' = taken
    BY <1>0, <1>3
  <2> HIDE DEF f
  <2> QED  BY <2>5, <2>6, MeetKeepsInv
<1>4. ASSUME NEW v \in inner, Meet("contact", v),
             objects[v].kind \in {"player"} \cup Structures
      PROVE  v # cur
  BY <1>4 DEF Inv, TickInv, LoopControl, Meet, LoopKind, Structures
<1>5. ASSUME NEW p \in inner, ContactPlayer(p)
      PROVE  Inv'
  <2>1. PICK after \in {objects[p], Reset(objects[p])}, h \in Damaged(objects[cur].hp) :
          objects' = [objects EXCEPT ![p] = after, ![cur].hp = h]
    BY <1>5 DEF ContactPlayer
  <2>2. Same(objects[p], after)
    BY <1>0, SameRecords
  <2> QED  BY <1>3, <1>4, <1>5, <2>1, <2>2 DEF ContactPlayer
<1>6. ASSUME NEW s \in inner, ContactStructure(s)
      PROVE  Inv'
  <2>1. PICK broken \in BOOLEAN, h \in Damaged(objects[cur].hp) :
          objects' = [objects EXCEPT ![s].flag = broken, ![cur].hp = h]
    BY <1>6 DEF ContactStructure
  <2>2. Same(objects[s], [objects[s] EXCEPT !.flag = broken])
    BY <1>0, <1>6, SameRecords DEF ContactStructure
  <2>3. objects' = [objects EXCEPT ![s] = [objects[s] EXCEPT !.flag = broken], ![cur].hp = h]
    BY <1>0, <2>1
  <2> QED  BY <1>3, <1>4, <1>6, <2>2, <2>3 DEF ContactStructure
<1> QED  BY <1>1, <1>2, <1>5, <1>6, NextLoopKeepsInv DEF ContactLoop

\* Object i, not doomed, is used up on enemy e: both keep their identity, and so
\* does the player that is paid.
LEMMA HitEnemyKeeps ==
    ASSUME Inv, NEW i \in DOMAIN objects, objects[i].kind # "player",
           NEW e \in DOMAIN objects, objects[e].kind = "enemy", ~objects[e].flag,
           NEW h \in {"zero", "hurt", "full"}, HitEnemy(i, e, h), i # e
    PROVE  /\ Keeps(objects') /\ DOMAIN objects' = DOMAIN objects
           /\ objects'[i].flag /\ (h = "zero" => objects'[e].flag)
<1> DEFINE one == [objects EXCEPT ![i] = [objects[i] EXCEPT !.flag = TRUE]]
           hurt == [one EXCEPT ![e] = [one[e] EXCEPT !.hp = h, !.flag = (h = "zero")]]
           o == objects[i].owner
           dead == [objects[e] EXCEPT !.hp = h, !.flag = (h = "zero")]
<1>0. /\ TypeOK /\ Keeps(objects) /\ MaxLevel \in Nat
      /\ \A j \in DOMAIN objects : objects[j] \in Object
  BY KeepsAll, NumberAssumption DEF Inv, TypeOK
<1>1. /\ Same(objects[i], [objects[i] EXCEPT !.flag = TRUE])
      /\ Same(objects[e], dead)
      /\ dead.flag = (h = "zero") /\ [objects[i] EXCEPT !.flag = TRUE].flag
  BY <1>0, SameRecords DEF Object
<1>2. Keeps(one) /\ DOMAIN one = DOMAIN objects /\ one[e] = objects[e]
  BY <1>0, <1>1, KeepsOne
<1>3. Keeps(hurt) /\ DOMAIN hurt = DOMAIN objects
  BY <1>0, <1>1, <1>2, KeepsOne
<1>4. hurt[i].flag /\ (h = "zero" => hurt[e].flag)
  BY <1>1, <1>2
<1>5. [objects EXCEPT ![i].flag = TRUE, ![e].hp = h, ![e].flag = (h = "zero")] = hurt
  BY <1>0 DEF Object
<1>6. PICK l \in IF o \in Players THEN LevelsUp(objects[o]) ELSE {1} :
        objects' = IF h = "zero" THEN Paid(hurt, o, e, l) ELSE hurt
  BY <1>5 DEF HitEnemy
<1>7. l \in Nat
  BY <1>0 DEF LevelsUp, Players, OfKind, Object
<1> HIDE DEF hurt
<1>8. CASE objects' = hurt
  BY <1>3, <1>4, <1>8
<1>9. CASE objects' # hurt
  <2>1. /\ objects' = [hurt EXCEPT ![o] = Rewarded(hurt[o], hurt[e], l)]
        /\ o \in DOMAIN hurt /\ hurt[o].kind = "player"
    BY <1>6, <1>9 DEF Paid
  <2>2. hurt[o] \in Object /\ hurt[e] \in Object
    BY <1>3, <2>1 DEF Keeps
  <2>3. Same(hurt[o], Rewarded(hurt[o], hurt[e], l))
    BY <1>7, <2>2, SameRecords
  <2>4. Keeps(objects') /\ DOMAIN objects' = DOMAIN objects
    BY <1>0, <1>3, <2>1, <2>3, KeepsOne
  <2>5. o # i /\ o # e
    BY <1>3, <2>1 DEF Keeps, Same
  <2> QED  BY <1>3, <1>4, <2>1, <2>4, <2>5
<1> QED  BY <1>8, <1>9

LEMMA MineLoopInv == Inv /\ MineLoop => Inv'
<1> SUFFICES ASSUME Inv, MineLoop PROVE Inv'
  OBVIOUS
<1>0. /\ Keeps(objects) /\ TypeOK /\ Count({}) = spent
      /\ taken \in [ItemIds -> [ClientIds -> Nat]]
      /\ caught \subseteq DOMAIN objects
      /\ \A i \in DOMAIN objects : objects[i] \in Object
      /\ todo \subseteq DOMAIN objects /\ inner \subseteq DOMAIN objects
  BY KeepsAll, CountNothing DEF Inv, TypeOK
<1>1. ASSUME NEW m \in todo, MineQuiet(m)
      PROVE  Inv'
  BY <1>0, <1>1, TakeUpKeepsInv DEF MineQuiet
<1>2. ASSUME NEW m \in todo, MineExplodes(m)
      PROVE  Inv'
  <2>1. /\ m \in DOMAIN objects /\ ~objects[m].flag /\ spent' = Count({m})
        /\ objects' = [objects EXCEPT ![m] = [objects[m] EXCEPT !.flag = TRUE]]
        /\ TakeUp("mines", m, Caught({"enemy"}))
    BY <1>0, <1>2 DEF MineExplodes
  <2>2. Same(objects[m], [objects[m] EXCEPT !.flag = TRUE])
    BY <1>0, <2>1, SameRecords
  <2>3. Keeps(objects') /\ DOMAIN objects' = DOMAIN objects /\ objects'[m].flag
    <3>1. [objects[m] EXCEPT !.flag = TRUE].flag
      BY <1>0, <2>1 DEF Object
    <3> QED  BY <1>0, <2>1, <2>2, <3>1, KeepsOne
  <2>4. Caught({"enemy"}) \subseteq DOMAIN objects /\ Caught({"enemy"}) \subseteq Enemies
    BY <1>0 DEF Caught, Enemies, OfKind
  <2> DEFINE S == {m}
             V == Caught({"enemy"})
  <2>5. /\ S \subseteq DOMAIN objects /\ spent' = Count(S)
        /\ \A j \in S : ~objects[j].flag /\ objects'[j].flag /\ objects[j].kind \in Spendable
    <3>1. objects[m].kind = "mine"
      BY <2>1 DEF TakeUp, Inv, TickInv, LoopControl, LoopKind
    <3> QED  BY <2>1, <2>3, <3>1 DEF Spendable
  <2>6. V \subseteq DOMAIN objects /\ V \subseteq Enemies /\ TakeUp("mines", m, V)
    BY <2>1, <2>4
  <2> HIDE DEF S, V
  <2> QED  BY <2>3, <2>5, <2>6, TakeUpKeepsInv
<1>3. ASSUME NEW e \in inner, SplashMiss(e)
      PROVE  Inv'
  BY <1>0, <1>3, MeetKeepsInv DEF SplashMiss
<1>4. ASSUME NEW e \in inner, SplashEnemy(e)
      PROVE  Inv'
  <2>1. PICK h \in Damaged(objects[e].hp) : HitEnemy(cur, e, h) /\ spent' = Count(Slain(e, h))
    BY <1>4 DEF SplashEnemy
  <2>2. /\ Meet("mines", e) /\ ~objects[e].flag /\ e \in DOMAIN objects
        /\ h \in {"zero", "hurt", "full"} /\ inner # {} /\ objects[e].kind = "enemy"
        /\ taken' \in [ItemIds -> [ClientIds -> Nat]] /\ taken' = taken
    BY <1>0, <1>4 DEF SplashEnemy, Damaged, Meet, Inv, TickInv, LoopControl, Enemies, OfKind
  <2>3. cur \in DOMAIN objects /\ objects[cur].kind = "mine"
    BY <2>2 DEF Inv, TickInv, LoopControl, LoopKind, Meet
  <2>4. /\ Keeps(objects') /\ DOMAIN objects' = DOMAIN objects
        /\ h = "zero" => objects'[e].flag
    BY <1>4, <2>1, <2>2, <2>3, HitEnemyKeeps
  <2>5. /\ Slain(e, h) \subseteq DOMAIN objects
        /\ \A j \in Slain(e, h) :
             ~objects[j].flag /\ objects'[j].flag /\ objects[j].kind \in Spendable
    BY <2>2, <2>4 DEF Slain, Spendable
  <2> QED  BY <2>1, <2>2, <2>4, <2>5, MeetKeepsInv
<1> QED  BY <1>1, <1>2, <1>3, <1>4, NextLoopKeepsInv DEF MineLoop

\* What waits to enter the map, and the ids nextId has yet to hand out, are not in it.
LEMMA FreshIds ==
    ASSUME Inv, NEW i \in DOMAIN newBullets \cup DOMAIN newArtifacts \cup nextId .. LastId
    PROVE  i \in ItemIds /\ i \notin DOMAIN objects
<1>1. CASE i \in DOMAIN newBullets \cup DOMAIN newArtifacts
  BY <1>1 DEF Inv, TypeOK, IdRanges
<1>2. CASE i \in nextId .. LastId
  <2>1. /\ FirstId \in Nat /\ LastId \in Nat /\ nextId \in FirstId .. (LastId + 1)
        /\ ClientIds \cap FirstId .. (LastId + 1) = {}
        /\ DOMAIN objects \subseteq ClientIds \cup FirstId .. (nextId - 1)
    BY IdAssumption DEF Inv, TypeOK, IdRanges, InUse
  <2>2. i \in FirstId .. LastId /\ i \in FirstId .. (LastId + 1) /\ i \notin FirstId .. (nextId - 1)
    BY <1>2, <2>1
  <2> QED  BY <2>1, <2>2 DEF ItemIds
<1> QED  BY <1>1, <1>2

LEMMA ArtifactLoopInv == Inv /\ ArtifactLoop => Inv'
<1> SUFFICES ASSUME Inv, ArtifactLoop PROVE Inv'
  OBVIOUS
<1>0. /\ Keeps(objects) /\ TypeOK /\ Count({}) = spent
      /\ taken \in [ItemIds -> [ClientIds -> Nat]]
      /\ caught \subseteq DOMAIN objects
      /\ \A i \in DOMAIN objects : objects[i] \in Object
      /\ todo \subseteq DOMAIN objects /\ inner \subseteq DOMAIN objects
  BY KeepsAll, CountNothing DEF Inv, TypeOK
<1>1. ASSUME NEW a \in todo, ArtifactTurn(a)
      PROVE  Inv'
  <2> DEFINE V == IF objects[a].flag THEN {} ELSE Caught({"player"})
  <2>1. V \subseteq DOMAIN objects
    BY <1>0 DEF Caught
  <2>2. /\ TakeUp("artifacts", a, V) /\ objects' = objects /\ spent' = Count({})
        /\ taken' = taken
    BY <1>0, <1>1 DEF ArtifactTurn, TakeUp
  <2>3. ArtifactsFit'
    <3>1. /\ a \in DOMAIN objects /\ objects[a].kind = "artifact" /\ cur' = a /\ inner' = V
          /\ UNCHANGED <<objects, taken, newArtifacts, newBullets, nextId>>
          /\ ~objects[a].flag => Untaken(a)
      BY <1>0, <2>2 DEF TakeUp, Inv, TickInv, LoopControl, LoopKind, ArtifactsFit, OfKind
    <3>2. V \subseteq ClientIds /\ (V # {} => ~objects[a].flag)
      BY <1>0 DEF Caught, Inv, IdRanges
    <3> HIDE DEF V
    <3>3. \A p \in inner' : p \in ClientIds /\ taken'[cur'][p] = 0
      BY <3>1, <3>2 DEF Untaken
    <3> QED  BY <3>1, <3>3 DEF Inv, ArtifactsFit, OfKind, Untaken
  <2> HIDE DEF V
  <2> QED  BY <1>0, <2>1, <2>2, <2>3, TakeUpKeepsInv
<1>4. ASSUME NEW p \in inner, Meet("artifacts", p)
      PROVE  /\ inner' = inner \ {p} /\ phase = "artifacts"
             /\ p \in ClientIds /\ \A q \in inner : q \in ClientIds /\ taken[cur][q] = 0
             /\ UNCHANGED <<cur, newArtifacts, newBullets, nextId>>
             /\ cur \in DOMAIN objects /\ objects[cur].kind = "artifact" /\ cur \in ItemIds
  BY <1>4 DEF Meet, Inv, TypeOK, IdRanges, ArtifactsFit, TickInv, LoopControl, LoopKind
<1>2. ASSUME NEW p \in inner, PickupMiss(p)
      PROVE  Inv'
  <2>1. Meet("artifacts", p) /\ UNCHANGED <<objects, spent, taken>>
    BY <1>2 DEF PickupMiss
  <2>5. ArtifactsFit'
    BY <1>4, <2>1 DEF Inv, ArtifactsFit, OfKind, Untaken
  <2> QED  BY <1>0, <2>1, <2>5, MeetKeepsInv
<1>3. ASSUME NEW p \in inner, Pickup(p)
      PROVE  Inv'
  <2> DEFINE richer == [objects[p] EXCEPT !.items = @ + 1]
             f == [objects EXCEPT ![p] = richer]
  <2>1. /\ p \in DOMAIN objects /\ objects[p].items < Slots
        /\ Meet("artifacts", p) /\ spent' = Count({})
        /\ taken' = [taken EXCEPT ![cur][p] = @ + 1]
    BY <1>0, <1>3 DEF Pickup
  <2>2. cur \in DOMAIN objects /\ objects[cur].kind = "artifact" /\ cur \in ItemIds
    BY <1>4, <2>1
  <2>3. Keeps(f) /\ DOMAIN f = DOMAIN objects
    <3>1. Same(objects[p], richer)
      BY <1>0, <2>1, SameRecords
    <3> QED  BY <1>0, <2>1, <3>1, KeepsOne
  <2>4. Same(f[cur], [f[cur] EXCEPT !.flag = TRUE])
    BY <2>2, <2>3, SameRecords DEF Keeps
  <2>5. objects' = [f EXCEPT ![cur] = [f[cur] EXCEPT !.flag = TRUE]]
    BY <1>3, <2>1, <2>2 DEF Pickup
  <2>6. Keeps(objects') /\ DOMAIN objects' = DOMAIN objects
    BY <1>0, <2>2, <2>3, <2>4, <2>5, KeepsOne
  <2>8. objects'[cur].flag
    <3>1. [f[cur] EXCEPT !.flag = TRUE].flag /\ cur \in DOMAIN f
      BY <2>2, <2>3 DEF Keeps, Object
    <3> HIDE DEF f
    <3> QED  BY <2>5, <3>1
  <2>7. /\ taken' \in [ItemIds -> [ClientIds -> Nat]]
        /\ taken'[cur][p] = taken[cur][p] + 1
        /\ \A q \in ClientIds \ {p} : taken'[cur][q] = taken[cur][q]
        /\ \A i \in ItemIds \ {cur} : taken'[i] = taken[i]
    <3>1. taken \in [ItemIds -> [ClientIds -> Nat]] /\ p \in ClientIds
      BY <1>4, <2>1 DEF Inv, TypeOK
    <3> QED  BY <2>1, <2>2, <3>1
  <2>9. ArtifactsFit'
    <3>1. /\ taken[cur][p] = 0 /\ p \in ClientIds
          /\ inner' = inner \ {p} /\ cur' = cur
          /\ UNCHANGED <<newArtifacts, newBullets, nextId>>
          /\ \A q \in inner : q \in ClientIds /\ taken[cur][q] = 0
      BY <1>4, <2>1
    <3>2. ASSUME NEW i \in ItemIds, NEW q \in ClientIds
          PROVE  taken'[i][q] <= 1
      <4>1. taken[i][q] <= 1
        BY DEF Inv, ArtifactsFit
      <4> QED  BY <2>7, <3>1, <4>1
    <3>3. ASSUME NEW i \in OfKind({"artifact"})', ~objects'[i].flag
          PROVE  Untaken(i)'
      <4>1. i \in OfKind({"artifact"}) /\ Same(objects[i], objects'[i]) /\ i \in ItemIds
        BY <2>6 DEF Keeps, Same, OfKind, Inv, TypeOK, IdRanges
      <4> QED  BY <2>7, <2>8, <3>3, <4>1 DEF Same, Inv, ArtifactsFit, Untaken
    <3>4. ASSUME NEW i \in DOMAIN newBullets' \cup DOMAIN newArtifacts' \cup nextId' .. LastId
          PROVE  Untaken(i)'
      <4>1. Untaken(i) /\ i \in DOMAIN newBullets \cup DOMAIN newArtifacts \cup nextId .. LastId
        BY <3>1, <3>4 DEF Inv, ArtifactsFit
      <4>2. i \in ItemIds /\ i # cur
        BY <2>2, <4>1, FreshIds
      <4> QED  BY <2>7, <4>1, <4>2 DEF Untaken
    <3>5. \A q \in inner' : q \in ClientIds /\ taken'[cur'][q] = 0
      BY <2>7, <3>1
    <3> QED  BY <3>2, <3>3, <3>4, <3>5 DEF ArtifactsFit
  <2> HIDE DEF f
  <2> QED  BY <1>0, <2>1, <2>6, <2>7, <2>9, MeetKeepsInv
<1> QED  BY <1>1, <1>2, <1>3, NextLoopKeepsInv DEF ArtifactLoop

\* The bullets' loop has no inner loop; a bullet's turn is one step.
LEMMA BulletTurnKeepsInv ==
    ASSUME Inv, NEW b, BulletTurn(b), MayDropArtifact,
           Keeps(objects'), DOMAIN objects' = DOMAIN objects,
           NEW S, S \subseteq DOMAIN objects, spent' = Count(S),
           \A j \in S : /\ objects[j].kind \in Spendable
                        /\ ~objects[j].flag /\ objects'[j].flag
    PROVE  Inv'
<1>1. /\ inner' \subseteq DOMAIN objects
      /\ taken' \in [ItemIds -> [ClientIds -> Nat]] /\ taken' = taken
  BY DEF BulletTurn, Inv, TypeOK
<1> QED  BY <1>1, LoopKeepsInv DEF BulletTurn

LEMMA BulletTurnsInv == Inv /\ (\E b \in todo :
         \/ BulletFlies(b) \/ BulletHitsEnemy(b)
         \/ BulletHitsPlayer(b) \/ BulletHitsStructure(b)) => Inv'
<1> SUFFICES ASSUME Inv, NEW b \in todo,
                    \/ BulletFlies(b) \/ BulletHitsEnemy(b)
                    \/ BulletHitsPlayer(b) \/ BulletHitsStructure(b)
             PROVE  Inv'
  OBVIOUS
<1>0. /\ Keeps(objects) /\ TypeOK /\ Count({}) = spent
      /\ taken \in [ItemIds -> [ClientIds -> Nat]]
      /\ caught \subseteq DOMAIN objects
      /\ \A i \in DOMAIN objects : objects[i] \in Object
      /\ b \in DOMAIN objects /\ BulletTurn(b)
  BY KeepsAll, CountNothing
     DEF Inv, TypeOK, BulletFlies, BulletHitsEnemy, BulletHitsPlayer, BulletHitsStructure
<1>1. objects[b].kind = "bullet"
  BY <1>0 DEF BulletTurn, Inv, TickInv, LoopControl, LoopKind
<1> DEFINE S == {b}
           gone == [objects[b] EXCEPT !.flag = TRUE]
           one == [objects EXCEPT ![b] = gone]
<1>2. Keeps(one) /\ DOMAIN one = DOMAIN objects /\ one[b].flag
  <2>1. Same(objects[b], gone) /\ gone.flag
    BY <1>0, SameRecords DEF Object
  <2> QED  BY <1>0, <2>1, KeepsOne
<1>3. CASE BulletFlies(b)
  <2>1. PICK f \in BOOLEAN : objects' = [objects EXCEPT ![b].flag = @ \/ f]
    BY <1>3 DEF BulletFlies
  <2>2. objects[b].flag \in BOOLEAN
    BY <1>0 DEF Object
  <2>3. Same(objects[b], [objects[b] EXCEPT !.flag = @ \/ f])
    BY <1>0, <2>2, SameRecords
  <2>4. Keeps(objects') /\ DOMAIN objects' = DOMAIN objects
    BY <1>0, <2>1, <2>3, KeepsOne
  <2>5. spent' = Count({}) /\ MayDropArtifact
    BY <1>0, <1>3 DEF BulletFlies, MayDropArtifact
  <2> QED  BY <1>0, <2>4, <2>5, BulletTurnKeepsInv
<1>4. CASE BulletHitsEnemy(b)
  <2>0. PICK e \in Caught({"enemy"}) : \E h \in Damaged(objects[e].hp) :
          /\ Hittable(e) /\ HitEnemy(b, e, h)
          /\ spent' = Count({b} \cup Slain(e, h))
          /\ IF h = "zero" THEN MayDropArtifact ELSE UNCHANGED <<nextId, newArtifacts>>
    BY <1>4 DEF BulletHitsEnemy
  <2>1. PICK h \in Damaged(objects[e].hp) :
          /\ Hittable(e) /\ HitEnemy(b, e, h)
          /\ spent' = Count({b} \cup Slain(e, h))
          /\ IF h = "zero" THEN MayDropArtifact ELSE UNCHANGED <<nextId, newArtifacts>>
    BY <2>0
  <2>2. /\ e \in DOMAIN objects /\ objects[e].kind = "enemy" /\ ~objects[e].flag
        /\ h \in {"zero", "hurt", "full"} /\ ~objects[b].flag /\ MayDropArtifact
    BY <1>0, <1>4, <2>1
       DEF Caught, Hittable, Damaged, BulletHitsEnemy, MayDropArtifact
  <2>3. /\ Keeps(objects') /\ DOMAIN objects' = DOMAIN objects
        /\ objects'[b].flag /\ (h = "zero" => objects'[e].flag)
    BY <1>0, <1>1, <2>1, <2>2, HitEnemyKeeps
  <2> DEFINE both == {b} \cup Slain(e, h)
  <2>4. /\ both \subseteq DOMAIN objects /\ spent' = Count(both)
        /\ \A j \in both :
             ~objects[j].flag /\ objects'[j].flag /\ objects[j].kind \in Spendable
    BY <1>0, <1>1, <2>1, <2>2, <2>3 DEF Slain, Spendable
  <2> HIDE DEF both
  <2> QED  BY <1>0, <2>2, <2>3, <2>4, BulletTurnKeepsInv
<1>5. ASSUME Keeps(objects'), DOMAIN objects' = DOMAIN objects, objects'[b].flag,
             ~objects[b].flag, spent' = Count({b}), UNCHANGED <<nextId, newArtifacts>>
      PROVE  Inv'
  <2>1. /\ S \subseteq DOMAIN objects /\ spent' = Count(S) /\ MayDropArtifact
        /\ \A j \in S : ~objects[j].flag /\ objects'[j].flag /\ objects[j].kind \in Spendable
    BY <1>0, <1>1, <1>5 DEF MayDropArtifact, Spendable
  <2> HIDE DEF S
  <2> QED  BY <1>0, <1>5, <2>1, BulletTurnKeepsInv
<1>6. CASE BulletHitsPlayer(b)
  <2> DEFINE o == objects[b].owner
  <2>1. PICK p \in Caught({"player"}) \ {o}, dies \in BOOLEAN :
          LET struck == [objects EXCEPT ![b].flag = TRUE,
                                        ![p] = IF dies THEN Reset(@) ELSE @]
          IN  objects' = IF dies /\ OwnedByPlayer(b)
                         THEN [struck EXCEPT ![o].kills = @ + 1, ![o].scrap = @ + PvPScrap]
                         ELSE struck
    BY <1>6 DEF BulletHitsPlayer
  <2> DEFINE after == IF dies THEN Reset(objects[p]) ELSE objects[p]
             struck == [one EXCEPT ![p] = after]
  <2>2. p \in DOMAIN objects /\ p # b /\ one[p] = objects[p]
    BY <1>0, <1>1 DEF Caught
  <2>3. Same(one[p], after)
    BY <1>0, <2>2, SameRecords
  <2>4. Keeps(struck) /\ DOMAIN struck = DOMAIN objects /\ struck[b].flag
    BY <1>0, <1>2, <2>2, <2>3, KeepsOne
  <2>5. struck = [objects EXCEPT ![b].flag = TRUE, ![p] = IF dies THEN Reset(@) ELSE @]
    BY <1>0, <2>2
  <2>6. /\ ~objects[b].flag /\ spent' = Count({b}) /\ UNCHANGED <<nextId, newArtifacts>>
        /\ objects' = IF dies /\ OwnedByPlayer(b)
                      THEN [struck EXCEPT ![o].kills = @ + 1, ![o].scrap = @ + PvPScrap]
                      ELSE struck
    BY <1>6, <2>1, <2>5 DEF BulletHitsPlayer
  <2> HIDE DEF struck, o, after
  <2>7. CASE objects' = struck
    BY <1>5, <2>4, <2>6, <2>7
  <2>8. CASE objects' # struck
    <3> DEFINE rich == [struck[o] EXCEPT !.kills = @ + 1, !.scrap = @ + PvPScrap]
    <3>1. /\ o \in DOMAIN objects /\ objects[o].kind = "player"
          /\ objects' = [struck EXCEPT ![o].kills = @ + 1, ![o].scrap = @ + PvPScrap]
      BY <2>6, <2>8 DEF OwnedByPlayer, Players, OfKind, o
    <3>2. Same(struck[o], rich)
      BY <2>4, <3>1, SameRecords DEF Keeps
    <3>3. objects' = [struck EXCEPT ![o] = rich]
      BY <2>4, <3>1 DEF Keeps
    <3> HIDE DEF rich
    <3>6. o # b /\ o \in DOMAIN struck
      BY <1>1, <2>4, <3>1
    <3>4. Keeps(objects') /\ DOMAIN objects' = DOMAIN objects /\ o # b
      BY <1>0, <2>4, <3>2, <3>3, <3>6, KeepsOne
    <3>5. objects'[b].flag
      BY <1>0, <2>4, <3>3, <3>4
    <3> QED  BY <1>5, <2>6, <3>4, <3>5
  <2> QED  BY <2>7, <2>8
<1>7. CASE BulletHitsStructure(b)
  <2>1. PICK s \in Caught(Structures), broken \in BOOLEAN :
          /\ ~objects[s].flag
          /\ objects' = [objects EXCEPT ![b].flag = TRUE, ![s].flag = broken]
    BY <1>7 DEF BulletHitsStructure
  <2>2. s \in DOMAIN objects /\ s # b /\ one[s] = objects[s]
    BY <1>0, <1>1 DEF Caught, Structures
  <2>3. Same(one[s], [one[s] EXCEPT !.flag = broken])
    BY <1>0, <2>1, <2>2, SameRecords
  <2>4. objects' = [one EXCEPT ![s] = [one[s] EXCEPT !.flag = broken]]
    BY <1>0, <2>1, <2>2
  <2>5. Keeps(objects') /\ DOMAIN objects' = DOMAIN objects
    BY <1>0, <1>2, <2>2, <2>3, <2>4, KeepsOne
  <2>6. objects'[b].flag
    <3>1. one[b].flag /\ b \in DOMAIN one
      BY <1>0, <1>2
    <3> HIDE DEF one
    <3> QED  BY <2>2, <2>4, <3>1
  <2>7. ~objects[b].flag /\ spent' = Count({b}) /\ UNCHANGED <<nextId, newArtifacts>>
    BY <1>7 DEF BulletHitsStructure
  <2> QED  BY <1>5, <2>5, <2>6, <2>7
<1> QED  BY <1>3, <1>4, <1>6, <1>7

-----------------------------------------------------------------------------
(* The beginning of a tick, the collection of the lists and the end.       *)

LEMMA UpdateInv == Inv /\ Update => Inv'
<1> SUFFICES ASSUME Inv, Update PROVE Inv'
  OBVIOUS
<1>1. /\ UNCHANGED <<objects, nextId, newBullets, newArtifacts, cur, inner, caught, history>>
      /\ phase = "idle" /\ phase' = "update" /\ todo' = DOMAIN objects
  BY DEF Update
<1>2. TypeOK' /\ IdRanges' /\ OneBuildingPerCell' /\ TurretLimitHolds' /\ GoesOffOnce'
  BY <1>1 DEF Inv, TypeOK, IdRanges, InUse, TickInv, GoesOffOnce, OfKind, history,
              OneBuildingPerCell, TurretLimitHolds, TurretsOf, Buildings
<1>3. LoopControl'
  BY <1>1 DEF Inv, TickInv, LoopControl
<1>4. ArtifactsFit' /\ OneUninvitedAdmin'
  BY <1>1 DEF Inv, ArtifactsFit, Untaken, OneUninvitedAdmin, Players, OfKind, history
<1> QED  BY <1>2, <1>3, <1>4 DEF Inv, TickInv

\* Bullets and artifacts enter the map under ids that name nothing in it.
LEMMA JoinProgress ==
    ASSUME Inv, NEW new, new \in [DOMAIN new -> Object],
           DOMAIN new \cap DOMAIN objects = {},
           objects' = Join(objects, new)
    PROVE  /\ DOMAIN objects' = DOMAIN objects \cup DOMAIN new
           /\ objects' \in [DOMAIN objects' -> Object]
           /\ \A i \in DOMAIN objects : objects'[i] = objects[i]
           /\ \A i \in DOMAIN objects : Same(objects[i], objects'[i])
           /\ \A i \in DOMAIN new : objects'[i] = new[i]
<1>1. objects \in [DOMAIN objects -> Object]
  BY DEF Inv, TypeOK
<1>2. /\ DOMAIN objects' = DOMAIN objects \cup DOMAIN new
      /\ objects' \in [DOMAIN objects' -> Object]
      /\ \A i \in DOMAIN objects : objects'[i] = objects[i]
      /\ \A i \in DOMAIN new : objects'[i] = new[i]
  BY <1>1 DEF Join
<1> QED  BY <1>1, <1>2, SameRecords

LEMMA EndUpdateLoopInv == Inv /\ EndUpdateLoop => Inv'
<1> SUFFICES ASSUME Inv, EndUpdateLoop PROVE Inv'
  OBVIOUS
<1>0. /\ objects' = Join(objects, newBullets) /\ newBullets' = Nothing
      /\ phase = "update" /\ phase' = "contact"
      /\ caught' \subseteq DOMAIN objects' /\ todo' \subseteq DOMAIN objects'
      /\ \A i \in todo' : objects'[i].kind = "enemy"
      /\ nextId' = nextId /\ newArtifacts' = newArtifacts
      /\ inner' = inner /\ cur' = cur
      /\ spent' = spent /\ taken' = taken /\ loggedIn' = loggedIn
      /\ newArtifacts = Nothing /\ inner = {} /\ cur = None
  BY DEF EndUpdateLoop, history, Inv, TickInv, LoopControl
<1>1. /\ newBullets \in [DOMAIN newBullets -> Object]
      /\ DOMAIN newBullets \cap DOMAIN objects = {}
      /\ DOMAIN newBullets' = {} /\ DOMAIN newArtifacts' = {}
      /\ newBullets' \in [DOMAIN newBullets' -> Object]
      /\ newArtifacts' \in [DOMAIN newArtifacts' -> Object]
      /\ nextId \in nextId .. (LastId + 1)
      /\ \A i \in DOMAIN newBullets : newBullets[i].kind = "bullet"
  BY <1>0, IdAssumption DEF Inv, TypeOK, IdRanges, Nothing, TickInv, LoopControl
<1>2. /\ DOMAIN objects' = DOMAIN objects \cup DOMAIN newBullets
      /\ objects' \in [DOMAIN objects' -> Object]
      /\ \A i \in DOMAIN objects : Same(objects[i], objects'[i])
      /\ \A i \in DOMAIN newBullets : objects'[i] = newBullets[i]
  BY <1>0, <1>1, JoinProgress
<1>3. spent' = Count({}) /\ taken' \in [ItemIds -> [ClientIds -> Nat]]
  BY <1>0, CountNothing DEF Inv, TypeOK
<1>4. Progress({})
  BY <1>0, <1>1, <1>2, <1>3 DEF Progress
<1>5. World' /\ IdRanges' /\ GoesOffOnce'
  BY <1>4, ProgressKeepsIds
<1>6. TypeOK'
  <2>1. /\ inner' \subseteq DOMAIN objects' /\ cur' \in DOMAIN objects' \cup {None}
        /\ loggedIn' \subseteq ClientIds
    BY <1>0 DEF Inv, TypeOK
  <2> QED  BY <1>0, <1>5, <2>1 DEF TypeOK, World
<1>7. LoopControl'
  BY <1>0, <1>1, <1>2 DEF LoopControl, LoopKind
<1>8. OneBuildingPerCell' /\ TurretLimitHolds' /\ OneUninvitedAdmin'
  <2>1. \A i \in DOMAIN objects' : objects'[i].kind \in BuildingKinds \cup {"player"} =>
          i \in DOMAIN objects /\ Same(objects[i], objects'[i])
    BY <1>1, <1>2 DEF BuildingKinds, Structures
  <2> QED  BY <1>0, <2>1, NoNewBuilding, NoNewAdmin
<1>9. ArtifactsFit'
  BY <1>0, <1>4, ProgressKeepsArtifacts
<1> QED  BY <1>5, <1>6, <1>7, <1>8, <1>9 DEF Inv, TickInv

LEMMA EndUpdateInv == Inv /\ EndUpdate => Inv'
<1> SUFFICES ASSUME Inv, EndUpdate PROVE Inv'
  OBVIOUS
<1>0. /\ objects' = Join(objects, newArtifacts) /\ newArtifacts' = Nothing
      /\ phase = "bullets" /\ phase' = "idle"
      /\ caught' = {} /\ todo' = {}
      /\ nextId' = nextId /\ newBullets' = newBullets
      /\ inner' = inner /\ cur' = cur
      /\ spent' = spent /\ taken' = taken /\ loggedIn' = loggedIn
      /\ newBullets = Nothing
  BY DEF EndUpdate, history, Inv, TickInv, LoopControl
<1>1. /\ newArtifacts \in [DOMAIN newArtifacts -> Object]
      /\ DOMAIN newArtifacts \cap DOMAIN objects = {}
      /\ DOMAIN newBullets' = {} /\ DOMAIN newArtifacts' = {}
      /\ newBullets' \in [DOMAIN newBullets' -> Object]
      /\ newArtifacts' \in [DOMAIN newArtifacts' -> Object]
      /\ nextId \in nextId .. (LastId + 1)
      /\ \A i \in DOMAIN newArtifacts : newArtifacts[i].kind = "artifact"
  BY <1>0, IdAssumption DEF Inv, TypeOK, IdRanges, Nothing, TickInv, LoopControl
<1>2. /\ DOMAIN objects' = DOMAIN objects \cup DOMAIN newArtifacts
      /\ objects' \in [DOMAIN objects' -> Object]
      /\ \A i \in DOMAIN objects : Same(objects[i], objects'[i])
      /\ \A i \in DOMAIN newArtifacts : objects'[i] = newArtifacts[i]
  BY <1>0, <1>1, JoinProgress
<1>3. spent' = Count({}) /\ taken' \in [ItemIds -> [ClientIds -> Nat]]
  BY <1>0, CountNothing DEF Inv, TypeOK
<1>4. Progress({})
  BY <1>0, <1>1, <1>2, <1>3 DEF Progress
<1>5. World' /\ IdRanges' /\ GoesOffOnce'
  BY <1>4, ProgressKeepsIds
<1>6. inner = {} /\ cur = None
  BY <1>0 DEF Inv, TickInv, LoopControl
<1>7. TypeOK'
  BY <1>0, <1>5, <1>6 DEF TypeOK, World, Inv
<1>8. LoopControl'
  BY <1>0, <1>1, <1>6 DEF LoopControl, Nothing
<1>9. OneBuildingPerCell' /\ TurretLimitHolds' /\ OneUninvitedAdmin'
  <2>1. \A i \in DOMAIN objects' : objects'[i].kind \in BuildingKinds \cup {"player"} =>
          i \in DOMAIN objects /\ Same(objects[i], objects'[i])
    BY <1>1, <1>2 DEF BuildingKinds, Structures
  <2> QED  BY <1>0, <2>1, NoNewBuilding, NoNewAdmin
<1>10. ArtifactsFit'
  BY <1>0, <1>4, ProgressKeepsArtifacts
<1> QED  BY <1>5, <1>7, <1>8, <1>9, <1>10 DEF Inv, TickInv

-----------------------------------------------------------------------------
(* The theorems.                                                           *)

LEMMA InitInv == Init => Inv
<1> SUFFICES ASSUME Init PROVE Inv
  OBVIOUS
<1>1. /\ DOMAIN objects = {} /\ DOMAIN newBullets = {} /\ DOMAIN newArtifacts = {}
      /\ objects \in [DOMAIN objects -> Object]
      /\ newBullets \in [DOMAIN newBullets -> Object]
      /\ newArtifacts \in [DOMAIN newArtifacts -> Object]
  BY DEF Init, Nothing
<1>2. nextId \in FirstId .. (LastId + 1)
  BY IdAssumption DEF Init
<1>3. TypeOK
  BY <1>1, <1>2 DEF Init, TypeOK
<1>4. IdRanges
  BY <1>1 DEF IdRanges, InUse
<1>5. TickInv
  BY <1>1, <1>2, IdAssumption DEF Init, TickInv, LoopControl, GoesOffOnce, OfKind, ItemIds
<1>6. OneBuildingPerCell
  BY <1>1 DEF OneBuildingPerCell, Buildings, OfKind
<1>7. TurretLimitHolds
  <2>1. \A id \in ClientIds : TurretsOf(id) = {}
    BY <1>1 DEF TurretsOf, OfKind
  <2> QED  BY <2>1, FS_EmptySet, NumberAssumption DEF TurretLimitHolds
<1>8. ArtifactsFit /\ OneUninvitedAdmin
  <2>1. nextId .. LastId \subseteq ItemIds
    BY <1>2, IdAssumption DEF Init, ItemIds
  <2> QED  BY <1>1, <2>1 DEF Init, ArtifactsFit, Untaken, OneUninvitedAdmin, Players, OfKind
<1> QED  BY <1>3, <1>4, <1>5, <1>6, <1>7, <1>8 DEF Inv

LEMMA NextInv == Inv /\ [Next]_vars => Inv'
<1> SUFFICES ASSUME Inv, [Next]_vars PROVE Inv'
  OBVIOUS
<1>1. CASE Request
  BY <1>1, RequestInv
<1>2. CASE Update
  BY <1>2, UpdateInv
<1>3. CASE UpdateLoop
  BY <1>3, UpdateLoopInv, EndUpdateLoopInv DEF UpdateLoop
<1>4. CASE ContactLoop
  BY <1>4, ContactLoopInv
<1>5. CASE MineLoop
  BY <1>5, MineLoopInv
<1>6. CASE ArtifactLoop
  BY <1>6, ArtifactLoopInv
<1>7. CASE BulletLoop
  BY <1>7, BulletTurnsInv, EndUpdateInv DEF BulletLoop
<1>8. CASE UNCHANGED vars
  BY <1>8 DEF vars, tick, history, Inv, TypeOK, IdRanges, InUse, TickInv, LoopControl,
              GoesOffOnce, OfKind, Enemies, Buildings, OneBuildingPerCell,
              TurretLimitHolds, TurretsOf, ArtifactsFit, Untaken, OneUninvitedAdmin, Players
<1> QED  BY <1>1, <1>2, <1>3, <1>4, <1>5, <1>6, <1>7, <1>8 DEF Next, Tick

\* Inv is an inductive invariant of the game scene.
THEOREM Invariance == Spec => []Inv
<1> QED  BY InitInv, NextInv, PTL DEF Spec

\* The variables of the map, of the lists and of Update's loops keep their types.
THEOREM TypeCorrect == Spec => []TypeOK
<1>1. Inv => TypeOK
  BY DEF Inv
<1> QED  BY <1>1, Invariance, PTL

\* nextId never hands out an id that names something: a new object never replaces
\* another one in the map or in the lists waiting to enter it.
THEOREM IdsAreUnique == Spec => []IdRanges
<1>1. Inv => IdRanges
  BY DEF Inv
<1> QED  BY <1>1, Invariance, PTL

\* Kills are credited to players only: an owner id never finds anything else.
THEOREM OwnersCorrect == Spec => []OwnersArePlayers
<1>1. Inv => OwnersArePlayers
  <2> SUFFICES ASSUME Inv, NEW m \in {objects, newBullets, newArtifacts},
                      NEW i \in DOMAIN m, m[i].owner \in DOMAIN objects
               PROVE  m[i].owner \in Players
    BY DEF OwnersArePlayers
  <2>1. m[i] \in Object
    BY DEF Inv, TypeOK
  <2>2. m[i].owner \in ClientIds \cup {None}
    BY <2>1 DEF Object
  <2>3. None \notin DOMAIN objects
    <3>1. DOMAIN objects \subseteq ClientIds \cup ItemIds
      BY DEF Inv, TypeOK
    <3>2. ClientIds \cup ItemIds \subseteq Nat
      BY IdAssumption DEF ItemIds
    <3>3. None \notin Nat
      BY DEF None
    <3> QED  BY <3>1, <3>2, <3>3
  <2> QED  BY <2>2, <2>3 DEF Inv, IdRanges, Players, OfKind
<1> QED  BY <1>1, Invariance, PTL

\* No two buildings on one cell, doomed ones included.
THEOREM CellsCorrect == Spec => []OneBuildingPerCell
<1>1. Inv => OneBuildingPerCell
  BY DEF Inv
<1> QED  BY <1>1, Invariance, PTL

\* No client id ever owns more turrets than the limit.
THEOREM TurretsCorrect == Spec => []TurretLimitHolds
<1>1. Inv => TurretLimitHolds
  BY DEF Inv
<1> QED  BY <1>1, Invariance, PTL

\* However many bullets and mines reach an enemy in one tick, its kill is paid at
\* most once.
THEOREM KillsPaidOnce == Spec => []KillPaidOnce
<1>1. Inv => KillPaidOnce
  BY DEF Inv, TypeOK, TickInv, GoesOffOnce, KillPaidOnce, OfKind, Enemies
<1> QED  BY <1>1, Invariance, PTL

\* A bullet strikes at most one target; a mine explodes at most once while it is in
\* the map and, counting the blow it may still deal as it leaves, strikes at most twice.
THEOREM StrikesCorrect == Spec => []StrikesAreBounded
<1>1. Inv => StrikesAreBounded
  BY DEF Inv, TickInv, GoesOffOnce, StrikesAreBounded, OfKind
<1> QED  BY <1>1, Invariance, PTL

\* Among the present players at most one is an admin that never logged in.
THEOREM AdminsCorrect == Spec => []OneUninvitedAdmin
<1>1. Inv => OneUninvitedAdmin
  BY DEF Inv
<1> QED  BY <1>1, Invariance, PTL

\* No player takes the same artifact twice, however many players take it in one tick.
THEOREM ArtifactsCorrect == Spec => []ArtifactTakenOncePerPlayer
<1>1. Inv => ArtifactTakenOncePerPlayer
  BY DEF Inv, ArtifactsFit, ArtifactTakenOncePerPlayer
<1> QED  BY <1>1, Invariance, PTL
=============================================================================
