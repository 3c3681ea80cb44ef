------------------------------ MODULE ServerHost ------------------------------
(***************************************************************************)
(* The loop of a game server: what ENet and the master deliver, the        *)
(* players that follow from it, waves, what the server sends back, and how *)
(* it is started and stopped.                                              *)
(*                                                                         *)
(* The server runs in a thread of its own; Stop, called by another thread, *)
(* clears running and joins.  The loop's stages are actions here, one per  *)
(* message where it handles messages.  One iteration takes one unit of     *)
(* time.  Of the world the loop sees which players there are, how many     *)
(* enemies, and whether there are bullets or devices (turrets, mines,      *)
(* artifacts); GameScene says what requests and ticks do to it.            *)
(***************************************************************************)
EXTENDS Enet, FiniteSets

CONSTANTS
    RelayIds,       \* ids of players behind the master's relay
    Public,         \* useMasterServer
    EnemyCap,       \* enemies at which no wave is spawned (120)
    SpawnBase, SpawnStep, SpawnCap,     \* enemies of a wave (5 + 2w, at most 60)
    BossEvery,      \* waves between bosses (5)
    FirstGap, GapBase, GapStep,         \* time between waves (5, then 20 + 2w)
    MaxWave,        \* bound on waves
    MaxInvited,     \* bound on enemies that admins spawn
    MaxTraffic      \* bound on packets, direct or relayed, not handled yet

Ids == Peers \cup RelayIds
Relayed == MaxSession + 1

ASSUME HostAssumption ==
    /\ Peers \cap RelayIds = {} /\ IsFiniteSet(Ids)
    /\ Public \in BOOLEAN
    /\ Kinds \subseteq {"JOIN", "REQUEST"}
    /\ {EnemyCap, SpawnBase, SpawnStep, SpawnCap} \subseteq Nat
    /\ {FirstGap, GapBase, GapStep} \subseteq Nat
    /\ {MaxWave, MaxInvited, MaxTraffic} \subseteq Nat
    /\ EnemyCap > 0 /\ MaxWave > 0 /\ BossEvery \in Nat \ {0}

VARIABLES
    hostUp,         \* netServer has a host
    running,
    thread,         \* where the server's thread is
    caller,         \* where the thread that calls Stop is
    players,        \* id -> the session it plays for, Relayed or Nobody
    relayClientIds,
    connectedToMaster,
    link,           \* the master's connection is alive
    masterWire,     \* what the master sent and was not polled
    masterBatch,    \* what was polled and is not handled
    waveCount, waveTimer, timeToNextWave,
    enemies,
    others,         \* "bullet" and "device", if there is one
    invited,        \* history: enemies that admins spawned
    told            \* history: sessions that were sent their INIT

stop == <<hostUp, running, caller>>
master == <<relayClientIds, connectedToMaster, link, masterWire, masterBatch>>
wave == <<waveCount, waveTimer, timeToNextWave>>
world == <<enemies, others, invited>>
vars == <<enet, stop, thread, players, master, wave, world, told>>

Stages == {"none", "register", "poll", "direct", "relay", "world", "update", "over"}
Lost == [kind |-> "LOST", id |-> Nobody]
MasterEvent == [kind: Kinds, id: RelayIds] \cup {Lost}

TypeOK ==
    /\ EnetTypeOK({Nobody})
    /\ hostUp \in BOOLEAN /\ running \in BOOLEAN /\ thread \in Stages
    /\ caller \in {"idle", "joining", "closing", "leaving", "stopped"}
    /\ players \in [Ids -> Sessions \cup {Nobody, Relayed}]
    /\ relayClientIds \subseteq RelayIds
    /\ connectedToMaster \in BOOLEAN /\ link \in BOOLEAN
    /\ masterWire \in Seq(MasterEvent) /\ masterBatch \in Seq(MasterEvent)
    /\ waveCount \in 1 .. MaxWave /\ waveTimer \in Nat /\ timeToNextWave \in Nat
    /\ enemies \in Nat /\ others \subseteq {"bullet", "device"}
    /\ invited \in 0 .. MaxInvited
    /\ told \subseteq Sessions

Init ==
    /\ EnetInit
    /\ hostUp = FALSE /\ running = FALSE /\ caller = "idle" /\ thread = "none"
    /\ players = [i \in Ids |-> Nobody]
    /\ relayClientIds = {} /\ connectedToMaster = FALSE /\ link = FALSE
    /\ masterWire = <<>> /\ masterBatch = <<>>
    /\ waveCount = 1 /\ waveTimer = 0 /\ timeToNextWave = FirstGap
    /\ enemies = 0 /\ others = {} /\ invited = 0 /\ told = {}

-----------------------------------------------------------------------------
(* The network: clients of this server, and the master.                    *)

Traffic == Len(SelectSeq(wire \o batch, IsPacket)) + Len(masterWire \o masterBatch)

Network ==
    /\ hostUp
    /\ \/ \E p \in Peers :
            Arrive(p) \/ Drop(p) \/ (Traffic < MaxTraffic /\ \E k \in Kinds : Say(p, k, Nobody))
       \/ \E i \in DOMAIN wire : Lose(i)
    /\ UNCHANGED <<stop, thread, players, master, wave, world, told>>

\* The master forwards what a client behind it says, and names it by its relay id.
MasterRelays(id, k) ==
    /\ link /\ Traffic < MaxTraffic
    /\ masterWire' = Append(masterWire, [kind |-> k, id |-> id])
    /\ UNCHANGED <<enet, stop, thread, players, relayClientIds, connectedToMaster, link,
                   masterBatch, wave, world, told>>

MasterLost ==
    /\ link
    /\ link' = FALSE
    /\ masterWire' = Append(masterWire, Lost)
    /\ UNCHANGED <<enet, stop, thread, players, relayClientIds, connectedToMaster,
                   masterBatch, wave, world, told>>

-----------------------------------------------------------------------------
(* Start and Stop.                                                         *)

Start ==
    /\ thread = "none" /\ ~running /\ caller = "idle"
    /\ hostUp' = TRUE /\ running' = TRUE /\ thread' = "register"
    /\ UNCHANGED <<enet, caller, players, master, wave, world, told>>

StopJoinsOnly ==
    /\ caller = "idle" /\ thread # "none"
    /\ caller' = "joining"
    /\ UNCHANGED <<enet, hostUp, running, thread, players, master, wave, world, told>>

StopCalled ==
    /\ caller = "idle" /\ thread # "none"
    /\ running' = FALSE /\ caller' = "joining"
    /\ UNCHANGED <<enet, hostUp, thread, players, master, wave, world, told>>

Joined ==
    /\ caller = "joining" /\ thread = "over"
    /\ caller' = "closing"
    /\ UNCHANGED <<enet, hostUp, running, thread, players, master, wave, world, told>>

CloseHost ==
    /\ caller = "closing"
    /\ caller' = "leaving"
    /\ StopHost /\ hostUp' = FALSE
    /\ UNCHANGED <<running, thread, players, master, wave, world, told>>

\* masterClient->disconnect drops what it gets until the connection is closed.
LeaveMaster ==
    /\ caller = "leaving"
    /\ caller' = "stopped"
    /\ link' = FALSE /\ masterWire' = <<>> /\ relayClientIds' = {}
    /\ UNCHANGED <<enet, hostUp, running, thread, players, connectedToMaster, masterBatch,
                   wave, world, told>>

Stop == Joined \/ CloseHost \/ LeaveMaster

-----------------------------------------------------------------------------
(* The thread: registration, then the loop.                                *)

\* One attempt, of up to five seconds, before the loop; MASTER_REGISTER follows it.
RegisterWithMaster ==
    /\ thread = "register"
    /\ thread' = "poll"
    /\ \E reached \in IF Public THEN BOOLEAN ELSE {FALSE} :
         connectedToMaster' = reached /\ link' = reached
    /\ UNCHANGED <<enet, stop, players, relayClientIds, masterWire, masterBatch, wave,
                   world, told>>

LoopEnds ==
    /\ thread = "poll" /\ ~running
    /\ thread' = "over"
    /\ UNCHANGED <<enet, stop, players, master, wave, world, told>>

Poll ==
    /\ thread = "poll" /\ running
    /\ thread' = "direct"
    /\ PollHost
    /\ UNCHANGED <<stop, players, master, wave, world, told>>

\* The next message of the batch is of kind k, from session s in slot p.
Handle(k, p, s) ==
    /\ thread = "direct" /\ Take
    /\ Head(batch) = [kind |-> k, from |-> p, session |-> s, arg |-> Nobody]
    /\ UNCHANGED <<stop, thread, master, wave>>

\* INIT for session s goes to whoever has its slot now.
TellInit(p, s) == told' = told \cup ({s} \cap {clients[p]})

ConnectTellsAtJoin(p, s) ==
    /\ Handle("CONNECT", p, s)
    /\ players' = [players EXCEPT ![p] = s]
    /\ UNCHANGED <<world, told>>

\* CreatePlayerWithId and INIT.
HandleConnect(p, s) ==
    /\ Handle("CONNECT", p, s)
    /\ players' = [players EXCEPT ![p] = s]
    /\ TellInit(p, s)
    /\ UNCHANGED world

DisconnectForgotten(p, s) ==
    /\ Handle("DISCONNECT", p, s)
    /\ UNCHANGED <<players, world, told>>

HandleDisconnect(p, s) ==
    /\ Handle("DISCONNECT", p, s)
    /\ players' = [players EXCEPT ![p] = Nobody]
    /\ UNCHANGED <<world, told>>

\* A REQUEST, which stands for an ACTION or an ADMIN_CMD: it may leave a device on the
\* map, spawn a boss, or kill and clear.  INPUT touches nothing the loop sees.
ChangeWorld ==
    \/ UNCHANGED world
    \/ others' = others \cup {"device"} /\ UNCHANGED <<enemies, invited>>
    \/ /\ invited < MaxInvited
       /\ enemies' = enemies + 1 /\ invited' = invited + 1
       /\ UNCHANGED others
    \/ enemies' = 0 /\ others' = {} /\ UNCHANGED invited

\* ProcessGamePacket for id, who plays for owner.  JOIN makes a player where there is
\* none and renames the one there is; nobody else is listened to without a player.
ProcessGamePacket(id, owner, k) ==
    IF k = "JOIN"
    THEN /\ players' = IF players[id] = Nobody THEN [players EXCEPT ![id] = owner] ELSE players
         /\ UNCHANGED world
    ELSE /\ IF players[id] = Nobody THEN UNCHANGED world ELSE ChangeWorld
         /\ UNCHANGED players

HandleData(p, s) ==
    \E k \in Kinds :
      /\ Handle(k, p, s)
      /\ ProcessGamePacket(p, s, k)
      /\ IF k = "JOIN" /\ players[p] = Nobody THEN TellInit(p, s)
         ELSE UNCHANGED told

\* The batch is handled: the heartbeat, which changes nothing here, and the master's turn.
PollMaster ==
    /\ thread = "direct" /\ batch = <<>>
    /\ thread' = "relay"
    /\ masterBatch' = masterWire /\ masterWire' = <<>>
    /\ UNCHANGED <<enet, stop, players, relayClientIds, connectedToMaster, link, wave,
                   world, told>>

HandleMaster(e) ==
    /\ thread = "relay" /\ masterBatch # <<>> /\ Head(masterBatch) = e
    /\ masterBatch' = Tail(masterBatch)
    /\ UNCHANGED <<enet, stop, thread, link, masterWire, wave, told>>

HandleRelay(id, k) ==
    /\ HandleMaster([kind |-> k, id |-> id])
    /\ relayClientIds' = relayClientIds \cup {id}
    /\ ProcessGamePacket(id, Relayed, k)
    /\ UNCHANGED connectedToMaster

LossForgetsIdsOnly ==
    /\ HandleMaster(Lost)
    /\ connectedToMaster' = FALSE /\ relayClientIds' = {}
    /\ UNCHANGED <<players, world>>

\* The relay is lost, and with it every client behind it; it is never sought again.
HandleMasterLost ==
    /\ HandleMaster(Lost)
    /\ connectedToMaster' = FALSE /\ relayClientIds' = {}
    /\ players' = [i \in Ids |-> IF i \in relayClientIds THEN Nobody ELSE players[i]]
    /\ UNCHANGED world

NumClients == Cardinality({p \in Peers : clients[p] # Nobody})
TotalClients == NumClients + Cardinality(relayClientIds)

OnlyDevices == "device" \in others
HasEntities == enemies > 0 \/ others # {}

Capped(n, cap) == IF n > cap THEN cap ELSE n

\* With nobody left the enemies go, and the waves start over; timeToNextWave stays.
EmptyWorld ==
    /\ TotalClients = 0
    /\ IF waveCount > 1 \/ HasEntities
       THEN /\ enemies' = 0 /\ others' = others \ {"bullet"}
            /\ waveCount' = 1 /\ waveTimer' = Capped(1, timeToNextWave)
       ELSE /\ waveTimer' = Capped(waveTimer + 1, timeToNextWave)
            /\ UNCHANGED <<enemies, others, waveCount>>
    /\ UNCHANGED <<timeToNextWave, invited>>

WaitForWave ==
    /\ TotalClients > 0 /\ waveTimer + 1 < timeToNextWave
    /\ waveTimer' = waveTimer + 1
    /\ UNCHANGED <<waveCount, timeToNextWave, world>>

WaveSize(w) ==
    Capped(SpawnBase + SpawnStep * w, SpawnCap) + (IF w % BossEvery = 0 THEN 1 ELSE 0)

\* The counter stops at the bound.
NextWave == Capped(waveCount + 1, MaxWave)

AddWaveToAny ==
    enemies' = enemies + WaveSize(waveCount) /\ waveCount' = NextWave

\* With too many enemies about, the wave is put off for a whole gap.
AddWave ==
    IF enemies < EnemyCap
    THEN enemies' = enemies + WaveSize(waveCount) /\ waveCount' = NextWave
    ELSE UNCHANGED <<enemies, waveCount>>

OnlyTheFirstWave ==
    /\ TotalClients > 0 /\ waveTimer + 1 >= timeToNextWave
    /\ waveTimer' = 0
    /\ IF waveCount = 1 THEN AddWave ELSE UNCHANGED <<enemies, waveCount>>
    /\ UNCHANGED <<timeToNextWave, others, invited>>

WaveIsDue ==
    /\ TotalClients > 0 /\ waveTimer + 1 >= timeToNextWave
    /\ waveTimer' = 0 /\ timeToNextWave' = GapBase + waveCount * GapStep
    /\ AddWave
    /\ UNCHANGED <<others, invited>>

World ==
    /\ thread = "relay" /\ masterBatch = <<>>
    /\ thread' = "update"
    /\ EmptyWorld \/ WaitForWave \/ WaveIsDue
    /\ UNCHANGED <<enet, stop, players, master, told>>

\* Up to five ticks: enemies die, bullets and artifacts come and go.  Then events,
\* snapshots and statistics are sent, which changes nothing here.
Update ==
    /\ thread = "update"
    /\ thread' = "poll"
    /\ \E n \in 0 .. enemies : enemies' = n
    /\ \E o \in SUBSET {"bullet", "device"} :
         /\ others' = o
         /\ "device" \in o \ others => enemies' < enemies
         /\ "bullet" \in o => "bullet" \in others \/ TotalClients > 0 \/ enemies > 0
    /\ UNCHANGED <<enet, stop, players, master, wave, invited, told>>

ServerLoop ==
    \/ LoopEnds \/ Poll \/ PollMaster \/ World \/ Update
    \/ \E p \in Peers, s \in Sessions :
         HandleConnect(p, s) \/ HandleDisconnect(p, s) \/ HandleData(p, s)
    \/ \E id \in RelayIds, k \in Kinds : HandleRelay(id, k)
    \/ HandleMasterLost

Thread == RegisterWithMaster \/ ServerLoop

Next ==
    \/ Network \/ MasterLost
    \/ \E id \in RelayIds, k \in Kinds : MasterRelays(id, k)
    \/ Start \/ StopCalled \/ Stop \/ Thread

Spec == Init /\ [][Next]_vars

\* The server's thread and the one in Stop run on; registration and the closing of
\* connections end after five seconds at the latest.
FairSpec == Spec /\ WF_vars(Thread) /\ WF_vars(Stop)

-----------------------------------------------------------------------------
(* Safety.                                                                 *)

\* Every session in clients_ has been sent its own INIT, or its CONNECT is in the batch,
\* though slots change hands between the poll and the handling of a CONNECT.
EverySessionIsTold ==
    \A p \in Peers : clients[p] # Nobody =>
      \/ clients[p] \in told
      \/ \E i \in DOMAIN batch : batch[i].kind = "CONNECT" /\ batch[i].session = clients[p]

\* A player behind the relay is known by its relay id, and exists only as long as the
\* connection to the master does, or its loss waits to be handled.
RelayPlayersNeedTheMaster ==
    caller \notin {"leaving", "stopped"} =>
      \A id \in RelayIds : players[id] # Nobody =>
        /\ id \in relayClientIds
        /\ link \/ Lost \in {masterWire[i] : i \in DOMAIN masterWire}
                \/ Lost \in {masterBatch[i] : i \in DOMAIN masterBatch}

\* After an iteration that saw nobody, the world is as before the first wave.
EmptyWorldIsReset ==
    hostUp /\ thread \in {"update", "poll", "over"} /\ TotalClients = 0 =>
      waveCount = 1 /\ enemies = 0 /\ "bullet" \notin others

\* However waves, deaths and empty worlds follow one another, waves put no more than
\* a capped number of enemies on the map; admins may add theirs.
EnemiesBounded == enemies <= EnemyCap + SpawnCap + invited

\* Stop leaves no host, no client, no relay and no thread.
StoppedIsClean ==
    caller = "stopped" =>
      /\ thread = "over" /\ ~hostUp /\ ~link
      /\ relayClientIds = {}
      /\ \A p \in Peers : clients[p] = Nobody /\ online[p] = Nobody

(* Liveness.                                                               *)

\* Stop returns, even if called while the thread registers with the master.
StopReturns == (caller = "joining") ~> (caller = "stopped")

WaveComes == World /\ enemies' > enemies /\ waveCount' = NextWave

\* As long as somebody is there and enemies are few, wave follows wave: there is always
\* a next one to come, it brings enemies, and the counter moves on with it.
WavesGoOn ==
    <>[](running /\ TotalClients > 0 /\ enemies < EnemyCap) => []<><<WaveComes>>_vars

\* Seen from the sessions, the server does what Attendance promises.
Admitted == {s \in Sessions : s <= lastSession /\ \A q \in {wire, batch} :
               \A i \in DOMAIN q : ~(q[i].kind = "CONNECT" /\ q[i].session = s)}
Held(f) == {f[p] : p \in Peers} \ {Nobody}

IsOpen == caller \notin {"leaving", "stopped"}
WhileOpen(S) == IF IsOpen THEN S ELSE {}

Attends == INSTANCE Attendance WITH
    open <- IsOpen,
    arrived <- WhileOpen(1 .. lastSession),
    online <- WhileOpen(Held(online)),
    admitted <- WhileOpen(Admitted),
    playing <- WhileOpen(Held(players))

IsAttendance == Attends!Spec
=============================================================================
