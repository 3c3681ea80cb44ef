# Void Assault: a verification project

Void Assault is a multiplayer top-down shooter in C++: a game client (raylib), an
authoritative game server that runs inside the client or headless, and a master
server that lists public lobbies, introduces players to hosts and relays packets.
Everything talks over ENet. This directory models the parts in which order,
interleaving, the reuse of ids or arithmetic on buffers decide whether the game is
right, checks the models with TLC, and proves with TLAPS every safety invariant that the
passing runs check, for all values of the constants.

Paths are relative to `src/VoidAssault/src/`. The repository has no tests and no
design documents; its code is the only reference.

1. Inventory · 2. Modules · 3. Runs · 4. What the runs show · 5. What is proved ·
6. Not modelled · 7. What is left

## 1. Inventory

| Component | State it keeps | Operations | What makes it correct | Module |
|---|---|---|---|---|
| **Game world**: `engine/Scenes/GameScene.h`, `engine/ECS/*.h` | the map `objects` (id → player, enemy, bullet, wall, turret, mine, artifact), `nextId`, the lists a tick makes | a player is created, resets, leaves; build, upgrade; seven admin commands; waves spawn; `Update`: five loops over the map, three of them nested | no id names two things; one building per cell; turret quota; a kill is paid once, the blows of bullets and mines are bounded; doomed objects leave | `GameScene` |
| **Game server loop**: `engine/ServerHost.cpp` | a batch of messages, `relayClientIds`, `connectedToMaster`, wave and snapshot timers, `running`, a thread | `Start`, `Stop`, `ServerLoop` (poll, handle, heartbeat, the master's packets, waves, physics, snapshots) | one player for each session, told its id, gone when the session is; waves bounded, and going on; it stops when asked | `ServerHost`, `Attendance` |
| **Own server of a client**: `client/GameClient.cpp` | `localServer`, shared by detached threads and the frame loop | `StartHost`, `StopHost`, the destructors | no call on a destroyed server, no server outlives its game, ports come back | `LocalHost` |
| **Master**: `server/main_master.cpp` | `lobbies`, `nextLobbyId`, cleanup clock | register, heartbeat, list, P2P request, relay both ways, cleanup | the directory names the sessions that registered; what it sends reaches whom it is meant for; dead lobbies go | `Master` |
| **ENet wrappers**: `common/enet/ENetServer.cpp`, `ENetClient.cpp` | host, `clients_` (slot → peer); host, `server_`, `queue_` | start, stop, poll, send; connect, disconnect, poll, send | a message is attributed to its session; a live connection can be used | `Enet`, `Client` |
| **Client**: `client/GameClient.cpp`, `client/scenes/GameplayScene.cpp`, `MainMenuScene.cpp` | `currentScene`, `nextScene`, `myPlayerId`, the lobby list | the frame loop, scene changes, the three ways to join, the return to the menu; detached threads | who plays knows its own player; no player is left behind on a server | `Client` |
| **Snapshots**: `client/SnapshotManager.h` | a history of snapshots, the scene's clock | push, interpolate | the history is sorted; what is drawn lies between two snapshots | `Snapshots` |
| **Byte streams and messages**: `common/serial/StreamBuffer.cpp`, `common/net/Message.*` | bytes, a read cursor | write and read of every type; serialise, deserialise | what is read is what was written | `StreamBuffer`, `Message`, `Fifo` |
| **Settings**: `engine/Utils/ConfigManager.cpp`, the menu's fields | `config`, the file, the fields | `Initialize`, `Load`, `Save`, language; the handlers that copy fields | what was chosen is there again; a server knows the player's name | `Settings` |
| **On-screen keyboard**: `client/vircontrols/InGameKeyboard.h` | target buffer, length, cursor, layout | show, hide, touch, insert, delete, layouts | no byte outside the field; the bytes are the text | `Keyboard`, `TextField` |
| **Presentation**: drawing, particles, sound, HUD, joystick; packets' encoding, compression, clock | | | | not modelled, see 6 |

`ServerHost` calls `GameScene` from one thread; a tick is never interrupted by a
request. The client's frame loop and its detached threads share one `ENetClient`
and one `localServer` without a lock. Both servers know a peer only by its ENet
slot, and slots are given again. Player ids *are* ENet slots (or a slot with bit 31
set, behind the relay); all other ids come from `nextId`, which starts at 1000.

What is hard to test here:

* **One tick, many loops.** `Update` erases, inserts and dooms objects while loops
  walk lists collected earlier; `destroyFlag` defers removal to the next tick.
* **Slots are reused.** A DISCONNECT, the CONNECT of the slot's next user and packets
  of either wait together in one batch, after `clients_` has moved on.
* **Shared objects without locks.** On the client, `connect`, `disconnect` and `poll`
  each take events off one host and drop those they do not want; `StartHost` and
  `StopHost` test, call, reset and assign one `unique_ptr`, and wait for a thread in the
  middle.
* **Two ways to learn and to lose an id.** INIT is sent once, CONNECT is delivered
  late, `Enter` forgets the id, JOIN is sent twice.
* **Two clocks for silence.** Heartbeats are unreliable; the master's timeout and its
  cleanup are separate. A lost link to the master must take its players with it.
* **Three copies of each setting**: field, memory, file, copied by different handlers,
  with a file that is truncated before it is written.
* **Lengths and cursors**: bytes moved in place, integers rebuilt from bytes, reads that
  run out of data.

`PROJECT.json` lists the hazards one by one, at their lines, with the properties
about them.

## 2. Modules

| Module | Stands for | EXTENDS |
|---|---|---|
| `GameScene` | the world, its requests and its tick | standard modules |
| `Enet` | an ENet host with sessions and slots, and `ENetServer` | standard modules |
| `Master` | the master server | `Enet` |
| `ServerHost` | the loop of a game server, its start and stop, its link to the master | `Enet` |
| `Attendance` | abstract: what a server owes the sessions that connect to it | |
| `LocalHost` | the life of the server a client starts for itself | |
| `Client` | `ENetClient`, the frame loop, a detached thread, the far side of each connection | |
| `Snapshots` | broadcast, `SnapshotManager`, the scene's clock, where an entity is drawn | |
| `StreamBuffer` | writes and reads of bytes | |
| `Message` | a stream behind a header, sent and parsed | `StreamBuffer` |
| `Fifo` | abstract: a queue of values | |
| `Settings` | configuration, file, fields, the name in JOIN | |
| `Keyboard` | the on-screen keyboard and the buffers it edits | |
| `TextField` | abstract: texts with a caret | |
| `EnetProofs` | lemmas about hosts and their events | `Enet`, `TLAPS` |
| `GameSceneProofs`, `MasterProofs`, `ServerHostProofs`, `LocalHostProofs`, `StreamBufferProofs` | theorems (section 5) | the module they name, `TLAPS` |
| `ClientProofs` | theorems about what the client does and what it shows | `Client`, `Snapshots`, `TLAPS` |
| `MenuProofs` | theorems about the keyboard and the settings its fields end up in | `Keyboard`, `Settings`, `TLAPS` |
| `MCGameScene`, `MCMaster`, `MCServerHost`, `MCLocalHost`, `MCClient`, `MCSnapshots`, `MCMessage`, `MCSettings`, `MCKeyboard` | constants for TLC | the module |

Three abstract specifications are implemented by detailed ones, through `INSTANCE ... WITH`
a refinement mapping at the end of the detailed module: `ServerHost` implements
`Attendance`, `StreamBuffer` and `Message` implement `Fifo`, `Keyboard` implements
`TextField`. `Snapshots` and `Settings` carry their names in their specifications
(`SnapshotsSpec`, `SettingsSpec`), because a module of proofs is about two modules at once.

A module holds its mutants next to what they alter: a mutant (`CellFreeIfDoomed`,
`LossForgetsIdsOnly`, ...) is a definition no specification uses, which shows what a
plausible slip in the code would look like and which property notices it.

### GameScene

`objects` is the `std::map`, an object one record for all classes (a field a class
does not have keeps its default). Every request handler that `ServerHost` calls is one
action; `Update` starts a tick, and each body of each of its loops is an action, with
`phase`, `todo`, `cur` and `inner` as the program counter: the running loop, the ids
it has still to visit, the object whose inner loop runs and what that loop has still to
visit. No request is enabled before the tick is over, as in the one server thread. Kept
exactly: the order of the loops, every early `continue` and `break`, which list was collected
when, `destroyFlag`, ids, owners, cells, scrap, levels, kills, admin rights. Abstracted:
whether two things touch is a free choice (positions and Chipmunk are not modelled,
buildings keep their cell); an enemy's health has three grades, because an enemy at
exactly zero health without the flag recovers; other health only decides whether a hit
finishes its target.

History variables, read by no guard: `spent` (payouts, strikes, explosions), `taken` (which
player took which artifact how often), `loggedIn`.

### Enet, Master

A connection is a *session*; the slot is all a program sees of it. `PollHost` moves
`wire` to `batch` and updates `clients` at once, as `ENetServer::poll` does; then the
server handles the batch message by message. Of a peer that dropped (`Drop`), packets that
were not polled may be lost (`Lose`), so its DISCONNECT may follow any part of what it sent.
`Master` adds one `Handle...` action per message, then `Cleanup`.
`sent` holds the packets of the last step, each with the session it reaches and the one it
is meant for. A host names a relayed player by the slot that `RELAY_TO_SERVER` brought it; the
id carries, as history, the session that had the slot then (`heard`), and that is whom an
answer is meant for, whoever has the slot by now. Time passes between polls, up to `MaxStall`.

### ServerHost, Attendance

`thread` is where the server's thread is: registration (one attempt, of up to five
seconds, before the loop), poll, the direct messages, the master's messages, the world, the
update. One iteration takes one unit of time. `caller` is where the thread that calls
`Stop` is: joining the server's thread, closing the host, leaving the master. `players`
says for each id which session it plays for; behind the relay there is no session to tell,
only the id. Of the world the loop sees counts: how many enemies, whether there are bullets
or devices. A `REQUEST` stands for ACTION and ADMIN_CMD; what these do in detail is
`GameScene`. `told`, `invited` are history.

`Attendance` knows sessions only, no slots, batches or threads: a session arrives, is
admitted once, may be dismissed after it went offline; infinitely often, who is
online and who plays are the same. `ServerHost` implements it with
`playing <- Held(players)`: the interesting steps are a CONNECT handled for a slot that has
changed hands in the same batch, and a DISCONNECT that follows it.

### LocalHost

One detached thread per click runs `StartHost`; the frame loop runs `StopHost` when a game
is left and when the program ends. `pc` says where each of them is between two reads or
writes of `localServer`, a `unique_ptr` that no lock guards: `stop` (the test), `call` (the
call behind it), `join`, `reset` and `clear` (`reset()` reads the old pointer, then writes null),
`make` and `assign` (so does the move assignment), `drop` (the delete of what was read), `try` (a
port), `connect`. `holds` is what a thread has read, `fresh` what it has made and not
assigned. So two threads may read the same old pointer, and a later write may bury the
server that another one has just assigned. A ServerHost is `idle`, `running`, `stopping`, `over` or
`freed`. Calls that have no defined outcome (through null, on a destroyed object, a second
delete, a second join of one thread, an assignment over a thread not joined) end the behaviour
with `fault`; `fault = "busy port"` is the write through a null host in `ENetServer::start`.
`hasty` is the player: does it click on, or quit, while a thread works? The menu does not
prevent it.

### Client

`pc` holds where the frame loop and the detached thread are. Each call of
`enet_host_service` is one step, so two threads that wait on one host race for its events
as they do in the program: `PollEvent` may take the answer `ConnectSucceeds` waits for.
`peer`, `server`, `queue` and `batch` are the host's peer, `server_`, `queue_` and the
result of `poll`. `down` and each connection's `up` are ENet's two ordered streams,
`conns` keeps the server's side (slot, player, name) of each connection made. `Reset` of
a null `server_` ends the program: `crashed`. `player` is the kind of player: `direct`
joins addresses only, so that one thread uses the host; `patient` joins in every way but
waits for each click; `hasty` does not.

Assumed: a call of `enet_host_service` is atomic (the memory races inside one are beyond
this model); the acknowledgement of the handshake leaves with the next such call, so INIT
never arrives in the call that brings CONNECT; at most one connecting thread runs at a
time. The relay branch is left out: `useRelay` is never set to true.

### Snapshots

`BroadcastSnapshot` puts a snapshot on `net`; it arrives (`OnSnapshot`) in any order, or
never (`Lose`), as unsequenced packets do. `history` is the deque of `SnapshotManager`; the
loop that pops its front is `Prune`. `Update` is the scene's clock: a step towards
`lastServerTime - Delay` of any size, or a jump. `Drawn` is what `Draw` shows of one
entity. Time is in integers; one entity, with a place on a line, stands for all.
`lastServerTime` follows every packet, late ones too, as in `OnMessage`.

### StreamBuffer, Message, Fifo

A buffer is a sequence of bytes with `gpos`; a byte has `Base` values (256 in the
program; the proofs are for any number above one). `Encode` and `Decode` are what the
operators `<<` and `>>` of each type do: shifts and casts on the way out, sums on the way in,
the signed integers rebuilt from unsigned ones. `ReadTooMuch` is a read that runs out of
data. If not even the first part is there (a length, a coordinate, a colour's red), the
reader gets zeros and the cursor stays. If the first part is there and the rest is not, the code
has moved the cursor when it gives up: the reader is `astray`, and what it reads after that
(`ReadAstray`) is whatever bytes it meets, which nothing tells it.
`Message` sends the buffer behind `id`, `requestId` and `type` and gives the receiver
a cursor behind them. In `Fifo` there are only values: `Put`, `Get`, `Miss`.
Floats are the integers they are packed to; the packing itself is not modelled.

### Settings

A setting has one of a few values; what matters is who copies it where. `config` is in
memory, `file` what is on disk, `fields` the menu's buffers, `options` what the menu edits
and no save writes (`Unsaved`): the volume, which only the audio has, and whether a lobby is
public, which only the menu has. The menu opens in two ways: the program starts
(`starting`), or a game has ended (`opening`). `BeginSave` truncates the file
and `WriteFile` fills it; every handler waits for the save it contains, only
`Crash` may come in between. `Launch` replaces a file that does not parse. The text field
of the name is copied to `config` when editing ends; address and server name are copied by the
buttons that use them and by the menu's `Exit`. `joined` is the name in this connection's
last JOIN.

### Keyboard, TextField

`mem` holds the bytes of the four fields, each with its size; `Moved` is `memmove`, and
`StrLen` is `strlen`. A key, a touch, OK and the layout keys are actions. `TextField` is
what the player expects: insert at the caret, delete before it, nothing else changes.

## 3. Runs

| Run | Instance | Question |
|---|---|---|
| `gamescene_build` | 1 slot, 1 relay client, 2 cells, 2 object ids, quota 1, prices 1–2 | buildings, quota, admin rights under every interleaving of requests and ticks; every doomed object goes |
| `gamescene_combat` | 1 slot, 1 relay client, 3 object ids, PvP, free turrets and mines | what happens when bullets, mines, enemies, artifacts and players meet in one tick |
| `master_safe` | 2 slots, 3 sessions, 2 lobbies | slots change hands while packets wait in the batch |
| `master_live` | 2 slots, 2 sessions, 2 lobbies, timeout 1 | dead lobbies go, listed ones have a host that is heard |
| `serverhost` | 1 slot, 2 sessions, 1 relay client, 3 waves | sessions and players, relay, waves, the empty world, Stop at any point; `ServerHost` implements `Attendance` |
| `localhost` | 2 threads, 2 servers, 2 ports, any of them taken | own servers are started and stopped by three threads |
| `localhost_busy` | 2 threads, 1 server, 2 ports, any of them taken | a taken port is reported and the next one tried? It is not: see the finding in section 4 |
| `client` | 2 slots; 3 connections for a direct player, 2 for the others; 1 drop | joining in every way, by every kind of player |
| `snapshots` | 1 entity, 2 places, times 0–5, window 2, 2 packets on their way | loss, reordering and long frames |
| `message` | bytes of 1 bit, all 15 types, 2 values, 2 headers | written, read and missed values, on both sides of a packet; `Fifo` |
| `settings` | 2 values for each setting, any file | edits, saves, late connections, ends and crashes |
| `keyboard` | 2 fields, of 3 and 4 bytes, one key for each layout | all texts, keys and touches; `TextField` |

### Why these bounds suffice

* *World.* `LastId` bounds the objects ever made. Two ids let two buildings compete for a
  cell and for the quota, or a turret fire once; three let one enemy be reached by a
  bullet and a mine in one tick, or by two bullets, and drop an artifact. Two clients
  let one of them leave, return on the same id and meet what it owned. A quota of 1 is
  reached at once. The safety properties of these runs are proved for all constants (section 5).
* *Master.* Three sessions on two slots are the least with a slot given again while the
  other slot's user asks for the lobby of its old one. Two lobbies are the least with
  one registered while another is stale. `MaxStall = 0` takes time out of
  `master_safe`; `master_live` has it.
* *Server.* Two sessions on one slot are what a batch needs in which a slot changes hands;
  a second slot repeats the first, as handlers touch one slot only. One packet in flight
  (`MaxTraffic`) can stand before, between or after the events of presence. Three waves let
  one wave follow another and the counter be reset before it stands at its bound, `EnemyCap = 2` lets a wave be put off, `BossEvery = 2`
  brings one boss, one invited boss the case that is not the waves' doing.
  What the invariants say of sessions, enemies, the empty world and the relay, and the steps
  of `Attendance`, are proved for all bounds.
* *Own server.* Two threads are needed to disturb each other besides the frame loop; two
  servers let each thread make one, or one thread replace the server of the other. Two ports,
  taken or not, give a retry and its end. What the invariants say is proved for all bounds.
* *Client.* A lobby join takes two connections; three direct ones let a second and third
  game start after a loss and a return. Two slots let the right id differ from the default
  0. One drop is the least that ends a connection without being asked to.
* *Snapshots.* Six times and a window of two let the history hold three snapshots and the
  loop pop one or two at once. Two packets are the least that overtake each other.
  Frames of up to two with a jump beyond two reach both branches of the clock, before the
  history's front and past its back.
* *Messages.* With one bit per byte every value of the types up to 16 bits, and the ends
  and middle of the larger ones, are checked; parts of a colour or a vector differ, so that a
  swapped order shows. The proof covers all values and the other sizes of a byte. Two values
  are one behind the other.
* *Settings.* Two values tell a copy from its original; more are the same again. All
  initial files, with any settings absent, are checked.
* *Keyboard.* A field of two characters has a beginning, a middle and an end to insert at,
  and is full after two keys; a second, larger field shows a length kept from the first.

`CHECK_DEADLOCK FALSE` stands where the system may stop: in the world and the master
because the bounds on ids, sessions and lobbies run out; in `serverhost` because a stopped
server stays so; in `localhost` and `client` because the program ends, by itself or by a
fault. The others check for deadlock.

### Fairness

* `GameScene!FairSpec`: weak fairness of `Tick`. The server thread calls `Update` for ever
  and no loop in it waits; requests are owed by nobody.
* `Master!FairSpec`: weak fairness of the loop, which never waits, and of the clock. Peers
  owe nothing: a host may fall silent.
* `ServerHost!FairSpec`: weak fairness of the server's thread and of the one in `Stop`. Neither
  waits longer than five seconds for the network. Clients and the master owe nothing, and
  nobody need call `Stop`.
* `LocalHost!FairSpec`: weak fairness of each thread once it works, and of the end of a server's
  thread that was told to stop (`StopReturns` of `ServerHost`). Nobody need click.
* `Client!FairSpec`: weak fairness of the frame loop, of the detached thread and of the
  servers' polling, each of which is a thread the system runs. No server need accept a
  connection and no connection need be lost; the player need not click.

## 4. What the runs show

All properties of the passing runs hold; each is broken by a mutant of the code. What
deserves a reader's attention:

* **Deferred removal works.** A doomed object is broadcast and visited once more, and
  removed by the first loop of the next tick; the second and third hit on a doomed
  enemy pay nothing (`KillPaidOnce`), because each loop tests `destroyFlag` itself.
* **Artifacts are shared.** The pickup loop does not stop at the first player: in one tick
  each player near an artifact takes it, but each at most once (`ArtifactTakenOncePerPlayer`).
* **A mine has a second blow.** It explodes once over all collision loops, but the loop over the
  map (`GameScene.h:275-288`) does not ask whether a mine is doomed: one that has exploded may
  hit one more enemy on its way out. `StrikesAreBounded` says it never hits a third time.
* **The cell test relies on doomed buildings.** `TryBuild` also refuses cells of buildings
  already doomed; a test of `destroyFlag` there would break `OneBuildingPerCell`.
* **Both servers survive slot reuse.** At the game server, a session whose CONNECT is handled
  late gets its own INIT and its player (`EverySessionIsTold`, `IsAttendance`). At the
  master there are two gaps: between polling a DISCONNECT and handling it, an earlier message
  of the batch may be answered to the slot's new user; and a host goes on naming a relayed
  player by its slot after the player has gone, since nothing tells the host.
  `PacketsReachTheirSession` states both exceptions.
* **INIT and CONNECT.** Joined on the frame loop, the client always comes to know its id,
  because the handshake's acknowledgement, which triggers INIT, leaves with the poll that
  delivers CONNECT (`KnowsOwnId`).
* **Two JOINs are needed.** One goes out with CONNECT, one from `Enter`; each alone can be
  missed, both cannot (`EveryPlayerIsNamed`). With them a name typed while the connection
  comes up is still the one the server gets (`CalledAsTyped`).
* **Lost and late snapshots.** The history stays sorted, so the binary search finds the two
  snapshots around the clock; the clamps of `t` and the guard against an empty interval
  (`client/SnapshotManager.h:69-74`) never act.
* **Save is not atomic.** A crash leaves either the settings last written or, between the
  truncation and the write, a new configuration at the next start: all or nothing, never a
  mixture (`AllOrNothing`).
* **The pointer never dangles.** `reset()` and the assignment write the pointer before they
  delete, so `localServer` points to no destroyed server, however clicks, games and their ends
  overlap (`NeverDangling`). That is all the code gives a hasty player: see the limits below.
* **Waves follow waves.** As long as somebody plays and there is room for enemies, waves come
  again and again and the counter goes on (`WavesGoOn`).

### Finding

`localhost_busy`: `ENetServer::start` tests the host that `enet_host_create` returns and logs
"Failed to create ENet server host (Port might be busy)" (`common/enet/ENetServer.cpp:67`), and
`StartHost` expects that answer: it tries ten ports and logs "All ports busy?" when none is left
(`client/GameClient.cpp:93-99`). But line 65, before the test, calls `enet_host_compress` with
the host. If another program has the port, that host is null, and the program ends in a write
through it. Neither the message nor the second port is ever reached.

### Known limits of the code

None of these contradicts a statement of the repository, so they are recorded here and
not as findings. Those the models reach:

* *Thread and frame loop on one ENet host* (`Client`). `poll` can take the DISCONNECT that a
  thread's `disconnect` awaits, and sets `server_` to null; five seconds later the
  thread resets a null peer (`common/enet/ENetClient.cpp:102`; likewise `connect`, line 67).
  After a lobby join, INIT can reach the menu before the thread has pushed CONNECT; the id
  stays 0. `NullNeverReset` and `KnowsOwnId` are therefore about `direct` players.
* *Joining again while a thread connects* (`Client`, hasty players): `enet_host_connect`
  finds its one peer taken, `server_` becomes null (`ENetClient.cpp:52`), and the first
  connection comes up with nobody to use it, leaving a player on the server.
* *Clicking again, or quitting, while a thread starts a server* (`LocalHost`, hasty players):
  calls through null or on a destroyed server; a server deleted twice, when two threads read
  the same old pointer; a new server that runs on with nobody to stop it, when another
  thread's null is written over it; and a thread that never returns when `Start`
  slips between `Stop`'s flag and its join. `NothingUndefined`, `GoneWithTheGame` and
  `ThreadsReturn` are about players who wait.
* *Kill All Enemies* (`GameScene`): the admin's command (`engine/Scenes/GameScene.h:75-80`) empties
  health but sets no flag, so nobody removes the enemies, and their next `Update` begins to heal
  them (`engine/ECS/Enemy.h:73`); the next hit kills them, and pays.
* *The next player of a slot* (`GameScene`) answers for what the slot's last one left behind:
  bullets, turrets and their kills, and the turret quota.
* *An unknown address* (`Master`): `getPeerIP` gives "127.0.0.1" for a peer that is gone
  (`ENetServer.cpp:32`), so the test for an unknown host (`server/main_master.cpp:99`) never
  holds, and the player is sent to its own machine.
* *Reads that run out of data* (`StreamBuffer`) behind a string's length, a vector's first
  coordinate or a colour's first byte have moved the cursor when they give up
  (`common/serial/StreamBuffer.cpp:285-324`). Nothing tells the reader, which goes on in the
  middle of a value.
* *The relay* (`ServerHost`): ids are forgotten only with the master's link, so a relay client
  that left counts as present and keeps a world from being reset; a relayed JOIN with an id in
  use only renames. The link, once lost, is not sought again. What the host then sends to a
  player that left reaches the slot's next user (`Master`).
* *A late snapshot* (`Snapshots`) that the history refuses still sets `lastServerTime` and the
  wave shown (`GameplayScene.cpp:105,113`), which go back until the next one.
* *The language* (`Settings`) is saved but not loaded, and so is the fullscreen setting, which
  no menu edits. *The volume* (`client/scenes/MainMenuScene.cpp:335-336`) is never copied to
  `masterVolume` (`engine/Utils/ConfigManager.h:27`), nor saved: it lasts as long as the program.
  *The public lobby* (line 284) is set anew whenever the menu opens (line 27).
* *A kill between players* (`engine/Scenes/GameScene.h:495-503`) is paid after the victim's reset, always as of
  level 1.

Those the models do not reach:

* A name may be typed, saved and joined with up to 31 bytes
  (`common/NetworkPackets.h:178`), but `PlayerState` reads at most 16 (line 286): one longer
  name makes every snapshot that holds its player unreadable, for everybody. A list of
  more lobbies than its reader's limit is unreadable in the same way.
* Client-side prediction clamps to a radius that grows with the level
  (`GameplayScene.cpp:238`), the server clamps to 20 (`GameScene.h:319`).
* Until INIT arrives, `myPlayerId` is 0 and snapshots are matched against player 0.
* The lobby refresh thread may outlive its scene (`client/scenes/MainMenuScene.cpp:61`); the
  hole-punching thread tests `localServer` and then uses it (`GameClient.cpp:134`).
* A host registers the configured port at the master, not the one it got (`ServerHost.cpp:76`);
  wave and player counts are cast to 8 bits in the heartbeat (line 108).
* The window's size is used before the configuration is loaded (`client/main_client.cpp`);
  the keyboard deletes bytes, not characters of several bytes; a press on a HUD button also
  acts on the world behind it.

## 5. What is proved

Eight modules hold proofs. Every theorem is for all values of the constants that satisfy the
module's assumptions, which only say of what sort the constants are and are named in the
module that declares them. Every invariant of a passing run has a theorem; its bounds are
bounds of the run and not of the theorem.

### GameSceneProofs (`IdAssumption`, `NumberAssumption`)

| Theorem | Establishes |
|---|---|
| `Invariance` | `Spec => []Inv` |
| `TypeCorrect` | `TypeOK`; scrap never goes negative |
| `IdsAreUnique` | `IdRanges`: no insertion replaces another object |
| `OwnersCorrect` | `OwnersArePlayers`: an owner id finds a player or nothing |
| `CellsCorrect` | `OneBuildingPerCell` |
| `TurretsCorrect` | `TurretLimitHolds` |
| `KillsPaidOnce` | `KillPaidOnce` |
| `StrikesCorrect` | `StrikesAreBounded` |
| `ArtifactsCorrect` | `ArtifactTakenOncePerPlayer` |
| `AdminsCorrect` | `OneUninvitedAdmin` |

    Inv == /\ TypeOK /\ IdRanges /\ TickInv /\ OneBuildingPerCell /\ TurretLimitHolds
           /\ ArtifactsFit /\ OneUninvitedAdmin

`KillPaidOnce` and `StrikesAreBounded` are not inductive: a step of a loop must know that what
it is about to make go off has not gone off before, which is `GoesOffOnce` (not doomed
implies not spent; ids not handed out yet are unspent), and that a loop visits objects of
its own kind, which is `LoopControl`. The mine's second blow is the one exception: the body
that deals it erases the mine in the same step, and an id that was spent is never given again.
`IdRanges` is needed because a new object must not overwrite a spent one. `ArtifactsFit` is
about each player: an artifact that is not doomed was taken by nobody, and while the players
reach for one, those still to come have not taken it.
`OneUninvitedAdmin` is inductive by itself: who becomes an admin unasked finds nobody else on
the map. The argument, in the order of the module:

1. Records: new objects are well typed, and what any step does to an object that stays
   keeps its kind, cell and owner and never clears its flag (`SameRecords`).
2. `Keeps` and `KeepsErased`: a map whose objects only change that way gains no building,
   so cells and quotas survive (`NoNewBuilding`). `TryBuild` is the one request that adds
   a building, and its tests are what `NewBuildingFits` needs.
3. `VisitKeepsInv` and `LoopKeepsInv`: a step of a loop that keeps the map and counts only
   what was not spent preserves `Inv`; one lemma per loop follows.
4. One step per action; `NextInv` joins them, and `Invariance` is their temporal conclusion.

### EnetProofs, MasterProofs (`EnetAssumption`, `MasterAssumption`)

`TypeCorrect`, `DirectoryCorrect` (`DirectoryAccurate`) and `PacketsCorrect`
(`PacketsReachTheirSession`).

What makes the reuse of slots safe is the order of events, which `EnetProofs` states once for
both servers: `Leads(q, f, g)` says that the events `q` turn the holders `f` of the slots into
`g`, each CONNECT finding its slot free, each packet and DISCONNECT the session it is from.
`EnetInv` is that the wire leads from `clients_` to the sessions that are connected, that a
session has one slot all its life and connects once (`OneSlot`, `ConnectsOnce`), and that its end
is final (`GoneForGood`). It survives everything that happens to a host: an event more
at the end (`Arrive`, `Drop`, `Say`), a packet fewer in the middle (`Lose`), and the poll,
which makes what led to the connected sessions the batch and the wire empty.

The master's invariant adds what a batch says of `clients_`, which is ahead of it. What is
left of a batch leads from some holders to `clients_` (`BatchFits`), so a message that waits is
from the session that holds its slot, or that session's DISCONNECT waits behind it
(`LeadsAway`). A lobby likewise is at the slot of the session that registered it, or that
session is about to be handled as gone (`ListedAtItsSlot`). The second is stronger than
`DirectoryAccurate`: the DISCONNECT must name the slot of the lobby, as `HandleDisconnect`
erases by slot. Who a relay id names is a matter of the past: `True(id)` says that its session
has been, and holds no slot but the id's; the ids that hosts were given (`HeardTrueIds`) and
those of packets on their way (`NamesTrueIds`) are true, and stay so because a session has one
slot all its life. Hence the packet behind such an id reaches its player, or the player is
gone. Both exceptions are needed: between the poll and the handling, `clients_` has moved on,
and a host knows nothing of its players' ends.

### ServerHostProofs (`EnetAssumption`, `HostAssumption`)

`StopCorrect` (after `Stop` there is no thread, no host, no client and no link, whenever it
was called), `EnemiesCorrect` (`EnemiesBounded`), `EmptyCorrect` (`EmptyWorldIsReset`),
`RelayCorrect` (`RelayPlayersNeedTheMaster`), `SessionsCorrect` (`EverySessionIsTold`),
`TypeCorrect`, and `AttendanceCorrect`, that the server starts and steps as `Attendance` does.
The inductive invariants:

* `StopInv`: how far `Stop` has come, the thread and the host agree.
* `EnemyInv`: the bound, with the types of the counters; `WaveSizeBound` is the arithmetic of
  one wave, and a boss is admitted because waves start below the cap.
* `EmptyInv` ties the world to what the iteration counted: after the stage that resets the
  world nothing brings enemies back until somebody connects, which only `Poll` can make visible.
* `RelayInv`: the loss of the master is the last thing its connection gives (`LossIsLast`), and
  as long as relayed players or packets are left it is ahead of the loop (`LossIsAhead`).
  Without the first, packets behind the loss could bring players back.
* `SessionInv`: what is left of the batch leads, in the sense of `EnetProofs`, from the sessions
  that have players to the ones in `clients_`; so the CONNECT of a slot finds no player there,
  and a session in `clients_` was told or is still to be.

`AttendanceCorrect` is the safety half of `IsAttendance`: `Attendance!Steps` leaves `Promise`
out. A session is admitted when its CONNECT is no longer waiting (`AdmittedIs`); `HeldGains`
and `HeldLoses` map a player's coming and going to `Attendance`'s sets. Taking a CONNECT or
a DISCONNECT off the batch is an abstract step; polling and everything of the relay, the
waves and the world is a stutter.

### LocalHostProofs (`LocalHostAssumption`)

`PointerIsSound` (`NeverDangling`), for every player; `NothingIsUndefined`
(`NothingUndefined`) and `ServerLeavesWithTheGame` (`GoneWithTheGame`), for players who wait.

For every interleaving, `Sound`: whoever deletes what he has read has overwritten the pointer
(`Overwritten`), and a server that is made and not assigned yet is known to its maker alone
(`Unshared`), so no write brings a destroyed one back. More does not hold: two threads
may hold the same server (`Known` says only that it was made).

For players who wait, `Alone` says that at most one thread is at work, `Finds` what it finds
where it is (at the join, its server is the own one and stopping; at the delete, it is
idle and `localServer` is null), `ComesBack` where `StopHost` returns to, `Owned` that a server
is the own one or about to be destroyed or assigned, `Rests` what is there while nobody works, and
`OnePort` that only the own server has a port. The invariant holds as long as the program
lives. It ends as `EndsWell` says: every call that could raise `"undefined"` is at a place
whose `Finds` excludes it, and `"busy port"` needs a port that another program has, since by
`OnePort` the client itself is in nobody's way. The busy port itself cannot be excluded: it is the
finding of section 4.

### ClientProofs (`ClientAssumption`, `SnapshotAssumption`)

*The client*: `TypeCorrect`, `NullCorrect` (`NullNeverReset`) and `NeverDeafCorrect`
(`NeverDeaf`), from `ClientInv == TypeOK /\ Belongs /\ Verified /\ Alone /\ Usable`.

* `Belongs`: news and a peer belong to a connection that was made.
* `Verified`: ENet's answer is the first thing a connecting peer gets, so that a peer never
  comes up twice nor a second time for a thread that gave up on it.
* `Alone`: a direct player has one thread, and whenever that thread waits in `connect` or
  `disconnect`, `server_` is set. `NullNeverReset` is therefore about the frame loop by itself:
  `server_` is null after a connection that was refused, timed out or was lost in a game, and
  the scene's end must not disconnect then. The race of two threads is out of its scope.
* `Usable`: for players who wait, a peer that connects or is up has `server_` set. This is
  stronger than `NeverDeaf`, which speaks of quiet moments; the code needs it in between.

*What it shows*: `SnapshotsTyped`, `HistoryCorrect` (`HistoryInOrder`), `NewestCorrect`
(`NewestKept`) and `DrawnCorrect` (`DrawnBetweenNeighbours`). The first three are inductive
together. The work is in `PruneKeeps`: in a sorted history the positions that are too old are
the first so many (`InitialInterval`, from the cardinality of intervals), so what is left is
sorted, inside the window and ends as before.

`DrawnBetweenNeighbours` rests on `std::lower_bound`, a recursive function. The prover has no
induction over data, but natural numbers are well founded: a set of lengths at which something
fails has a least one (`LeastNat`). With it, searches of the lengths up to `n` agree
(`SearchesAgree`) and exist (`SearchUpToExists`), so the recursive definition has a value
(`SearchExists`), and no length is the least for which the result is wrong
(`SearchDivides`): in a sorted history everything before the result is before `t`, the rest is
not. `InterpolatedIs` and `DrawnBetween` follow the cases of `GetInterpolatedState` and `Draw`,
whose fallback to the newest snapshot is one of them.

### StreamBufferProofs (`StreamAssumption`, `MessageAssumption`)

For every number of values of a byte, every type and every length of strings:
`BufferIsFifo` and `PayloadCorrect` (the buffer, and the stream of a received message,
implement `Fifo`: `IsFifo`), `CursorCorrect` and `MessageCursorCorrect` (`CursorAtNext`),
`UnreadCorrect`, `TypeCorrect`, `EnvelopeCorrect` (a header that is written is
parsed).

`EightBytes` and the lemmas before it show that dividing a number into bytes and adding
them up again is the identity, two digits at a time, and `SignedBack` that the sum gives back a
signed integer from the unsigned one it was cast to. `ReadBack(x)` says that `Decode`
returns `x` and stops behind it wherever `Encode(x)` lies in a buffer; it is proved for
integers, strings and vectors, colours and floats. The invariant is `Placed`: what is unread
lies in the buffer, one value behind the other, from the cursor to the end. A reader that is
astray keeps all of that but the cursor's place: `CursorWithin` says that no read, of whatever
bytes, takes the cursor back or out of the buffer.
`Deliver` moves it by the length of the header (`DeliverPlaced`).

### MenuProofs (`KeyboardAssumption`, `SettingsAssumption`)

*The keyboard*: `TypeCorrect`, `FitsCorrect` (`TextFits`) and `TextFieldCorrect` (`IsTextField`), for all
fields, sizes and keys. `TypeOK /\ TextFits` is inductive; `TypeOK` carries that `maxLen` is
the size of the open field. `InsertedText` and `ErasedText` are the two facts about `memmove`
that the keys need: the moved bytes, up to their first zero, are the text with one character
inserted or removed. `StepMaps` maps each key to its step of `TextField`.

*The settings*: `SettingsTyped`, `ChoicesCorrect` (`ChoicesSurvive`), `SavesCorrect`
(`AllOrNothing`) and `NameCorrect` (`CalledAsTyped`). None of the three is inductive: each
speaks of one moment, while the copies move for the whole run. `Saved` says at each
stage of the program how the file stands to what was written last (while a save is open there
is no readable file; once the menu is left, what is in memory is what is in the file);
`Remembered` says which copy holds what the player chose: the fields and options the menu shows
(`Shown`), the configuration and the volume after it, the file once the program is off. Their conjunction with the
types is inductive.

### Only model-checked

* Liveness: `DoomedAreRemoved`, `GoneHostsAreRemoved`, `ListedHostsAreHeard`, `StopReturns`,
  `WavesGoOn`, `ThreadsReturn`, `KnowsOwnId`, `NoOrphanPlayer`, `EveryPlayerIsNamed`, and
  `IsAttendance` as a whole, whose `Promise` is a liveness property. Fairness and `ENABLED` are
  outside the prover's reach.
* `BusyPortIsReported`, which the code violates: the finding of section 4.

The type invariants, most of which no run checks, are theorems of all modules.

## 6. Not modelled

* **Packets and their encoding** (`common/NetworkPackets.h`, `Bitsery`): declarations for a
  library; packets are records here. The limits on strings and lists it declares are in
  section 4.
* **Relay compression**, the **clock**: calls of libraries and of the system. Timeouts are
  modelled by what they decide.
* **Positions, velocities, collision geometry** (Chipmunk), experience curves, damage numbers:
  which things meet is a free choice, so the properties do not depend on them.
* **Client-side prediction, HUD, drawing, particles, sound, joystick, texts and fonts**:
  presentation, read by no other component.
* **The lobby list and its refresh thread**: the list only feeds the menu; the thread's one
  hazard, its life against the scene's, is listed.
* **The datagrams of hole punching** and the relay branch of the client (`useRelay` is never
  true).
* **Request/response calls** of the wrappers (`request`, `on`, `handleRequest`) and
  `SettingsScene`, which the program never uses; the write cursor of `StreamBuffer`, which
  nothing reads; files and packed floats in `common/serial`.
* **ENet's own protocol**: the models use its contract (ordered reliable delivery, one event
  per service call, slots given again).
* Vendored raygui, and `merged.txt`, an older concatenation of the sources.

## 7. What is left

1. An abstract directory of lobbies, with `Master` as its implementation.
2. The refresh thread against the scene's lifetime, and the punching thread against
   `localServer`, as further threads of `LocalHost`.
3. Relay compression with the flag that the master drops.
