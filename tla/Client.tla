------------------------------- MODULE Client -------------------------------
(***************************************************************************)
(* How a player's program gets into a game: one ENet host with one peer,   *)
(* shared by the frame loop and by a detached thread that connects (to the *)
(* server it has just started, or to a host the master has signalled).     *)
(*                                                                         *)
(* Nothing guards the host, server_ or queue_.  Every call of              *)
(* enet_host_service, which takes at most one event, is one step here, and *)
(* so is the push of a CONNECT; data races inside such a call are beyond   *)
(* the model.  Whoever takes an event first keeps it: poll drops a CONNECT *)
(* and connect drops everything else.                                      *)
(***************************************************************************)
EXTENDS Integers, Sequences, FiniteSetsExt

CONSTANTS
    Players,    \* kinds of players, see MayJoin
    Slots,      \* peer slots a remote server may give
    MaxConns,   \* bound on connection attempts, for each kind of player
    MaxDrops    \* bound on connections that a server drops

ASSUME ClientAssumption ==
    /\ Players \subseteq {"direct", "patient", "hasty"}
    /\ Slots \subseteq Nat /\ Slots # {}
    /\ MaxConns \in [Players -> Nat] /\ MaxDrops \in Nat

VARIABLES
    player,     \* the player's kind: what it clicks, and when
    pc,         \* where the frame loop and the detached thread are
    peer,       \* ENet: state of the host's only peer
    server,     \* is server_ set?
    ackDue,     \* ENet: the last handshake packet is not acknowledged yet
    down,       \* ENet: what the peer has received and nobody has taken
    queue,      \* CONNECT messages in queue_
    batch,      \* messages of the last poll, not handled yet
    scene, next,    \* current and next scene
    myPlayerId,
    conns,      \* the connections made so far, with the server's side of each
    drops,      \* connections dropped so far
    crashed     \* a null server_ was reset

host == <<peer, server, ackDue, down, queue>>
ui == <<batch, scene, next, myPlayerId>>
vars == <<player, pc, host, ui, conns, drops, crashed>>

Threads == {"main", "worker"}
MainLabels == {"frame", "poll", "handle", "draw", "connecting", "push", "leaving", "exiting"}
WorkerLabels == {"none", "host", "punch", "leaving", "reconnect", "connecting", "push"}

\* One connection: whom it leads to, the slot given to it, what the server has of
\* it (its player, the player's name) and what is on its way there.
Conn == [to: {"remote", "local", "master"}, slot: Slots \cup {0},
         st: {"asked", "acking", "up", "gone"}, player: BOOLEAN, named: BOOLEAN,
         up: Seq({"ACK", "JOIN", "P2P_REQUEST", "BYE"})]

Last == Len(conns)
IsGame(c) == conns[c].to # "master"
Connected == server /\ peer = "up"

TypeOK ==
    /\ player \in Players
    /\ pc["main"] \in MainLabels /\ pc["worker"] \in WorkerLabels /\ DOMAIN pc = Threads
    /\ peer \in {"free", "connecting", "up", "leaving"}
    /\ server \in BOOLEAN /\ ackDue \in BOOLEAN /\ crashed \in BOOLEAN
    /\ down \in Seq({"VERIFY", "INIT", "P2P_SIGNAL", "BYE"})
    /\ queue \in Nat /\ drops \in 0 .. MaxDrops
    /\ batch \in Seq([kind: {"CONNECT", "INIT", "P2P_SIGNAL"}, conn: 0 .. Last])
    /\ scene \in {"menu", "game"} /\ next \in {"none", "menu", "game"}
    /\ myPlayerId \in Slots \cup {0}
    /\ conns \in Seq(Conn)

Init ==
    /\ player \in Players
    /\ pc = [main |-> "frame", worker |-> "none"]
    /\ peer = "free" /\ server = FALSE /\ ackDue = FALSE /\ down = <<>> /\ queue = 0
    /\ batch = <<>> /\ scene = "menu" /\ next = "none" /\ myPlayerId = 0
    /\ conns = <<>> /\ drops = 0 /\ crashed = FALSE

-----------------------------------------------------------------------------
(* The calls of ENetClient, by thread t.                                   *)

Goto(t, label) == pc' = [pc EXCEPT ![t] = label]

\* connect returns, or was not needed.
Return(t) == Goto(t, IF t = "main" THEN "frame" ELSE "none")

Acknowledged(cs) == IF ackDue THEN [cs EXCEPT ![Last].up = Append(@, "ACK")] ELSE cs

Post(cs, m) == [Acknowledged(cs) EXCEPT ![Last].up = Append(@, m)]

\* send: nothing goes out unless connected.
Sends(m) ==
    IF Connected THEN conns' = Post(conns, m) /\ ackDue' = FALSE
    ELSE UNCHANGED <<conns, ackDue>>

ForgetsOnly ==
    IF server THEN server' = FALSE /\ UNCHANGED <<peer, down, ackDue, crashed>>
              ELSE crashed' = TRUE /\ UNCHANGED <<peer, down, ackDue, server>>

\* enet_peer_reset(server_): the server is told nothing.
Reset ==
    IF server THEN /\ peer' = "free" /\ down' = <<>> /\ ackDue' = FALSE /\ server' = FALSE
                   /\ UNCHANGED crashed
              ELSE crashed' = TRUE /\ UNCHANGED <<peer, down, ackDue, server>>

\* connect, up to the call of enet_host_connect.
Connect(t, to) ==
    IF Connected THEN Return(t) /\ UNCHANGED <<host, conns>>
    ELSE IF peer # "free"
         THEN server' = FALSE /\ Return(t) /\ UNCHANGED <<peer, ackDue, down, queue, conns>>
         ELSE /\ Last < MaxConns[player]
              /\ peer' = "connecting" /\ server' = TRUE /\ ackDue' = FALSE /\ down' = <<>>
              /\ conns' = Append(conns, [to |-> to, slot |-> 0, st |-> "asked",
                                         player |-> FALSE, named |-> FALSE, up |-> <<>>])
              /\ Goto(t, "connecting")
              /\ UNCHANGED queue

\* The five seconds of enet_host_service: the first event decides.
ConnectSucceeds(t) ==
    /\ pc[t] = "connecting" /\ down # <<>> /\ Head(down) = "VERIFY"
    /\ peer' = "up" /\ ackDue' = TRUE /\ down' = Tail(down)
    /\ Goto(t, "push")
    /\ UNCHANGED <<server, queue, ui, conns, player, drops, crashed>>

ConnectFails(t) ==
    /\ pc[t] = "connecting"
    /\ down # <<>> => Head(down) # "VERIFY"
    /\ Reset /\ Return(t)
    /\ conns' = Acknowledged(conns)
    /\ UNCHANGED <<queue, ui, player, drops>>

\* queue_.push_back; the lobby button's P2P_REQUEST follows on the main thread.
PushConnect(t) ==
    /\ pc[t] = "push"
    /\ queue' = queue + 1
    /\ IF t = "main" /\ ~IsGame(Last) THEN Sends("P2P_REQUEST") ELSE UNCHANGED <<conns, ackDue>>
    /\ Return(t)
    /\ UNCHANGED <<peer, server, down, ui, player, drops, crashed>>

\* disconnect, up to its loop; what waits to be taken is dropped by ENet.
Disconnect(t, label) ==
    /\ peer' = "leaving" /\ down' = <<>> /\ ackDue' = FALSE
    /\ conns' = Post(conns, "BYE")
    /\ Goto(t, label)
    /\ UNCHANGED <<server, queue>>

\* disconnect's loop ends: with the DISCONNECT event, or after five seconds.
Disconnected ==
    \/ /\ down # <<>> /\ Head(down) = "BYE"
       /\ peer' = "free" /\ server' = FALSE /\ down' = Tail(down)
       /\ UNCHANGED <<ackDue, crashed>>
    \/ down = <<>> /\ Reset

-----------------------------------------------------------------------------
(* The frame loop: scene change, poll, handle the messages, draw.          *)

Main(label) == pc["main"] = label /\ ~crashed

\* GameplayScene::Enter forgets the id and joins again.
EnterGame ==
    /\ Main("frame") /\ next = "game"
    /\ scene' = "game" /\ next' = "none" /\ myPlayerId' = 0
    /\ Sends("JOIN")
    /\ Goto("main", "poll")
    /\ UNCHANGED <<peer, server, down, queue, batch, player, drops, crashed>>

SwitchToMenu == scene' = "menu" /\ next' = "none"

ExitAlwaysDisconnects ==
    /\ Main("frame") /\ next = "menu"
    /\ Disconnect("main", "exiting")
    /\ UNCHANGED <<ui, player, drops, crashed>>

\* GameplayScene::Exit disconnects, then the menu appears.
ExitGame ==
    /\ Main("frame") /\ next = "menu"
    /\ IF Connected
       THEN Disconnect("main", "exiting") /\ UNCHANGED <<scene, next>>
       ELSE SwitchToMenu /\ Goto("main", "poll") /\ UNCHANGED <<host, conns>>
    /\ UNCHANGED <<batch, myPlayerId, player, drops, crashed>>

ExitGameDone ==
    /\ Main("exiting") /\ Disconnected
    /\ SwitchToMenu /\ Goto("main", "poll")
    /\ UNCHANGED <<queue, batch, myPlayerId, conns, player, drops>>

SameScene ==
    /\ Main("frame") /\ next = "none"
    /\ Goto("main", "poll")
    /\ UNCHANGED <<host, ui, conns, player, drops, crashed>>

Msg(kind) == [kind |-> kind, conn |-> Last]

\* One event of poll: a CONNECT is dropped, a DISCONNECT clears server_.
PollEvent ==
    /\ Main("poll") /\ down # <<>>
    /\ down' = Tail(down)
    /\ conns' = Acknowledged(conns) /\ ackDue' = (Head(down) = "VERIFY")
    /\ CASE Head(down) = "VERIFY" -> peer' = "up" /\ UNCHANGED <<server, batch>>
         [] Head(down) = "BYE" -> peer' = "free" /\ server' = FALSE /\ UNCHANGED batch
         [] Head(down) = "INIT" -> batch' = Append(batch, Msg("INIT")) /\ UNCHANGED <<peer, server>>
         [] OTHER -> batch' = Append(batch, Msg("P2P_SIGNAL")) /\ UNCHANGED <<peer, server>>
    /\ UNCHANGED <<pc, queue, scene, next, myPlayerId, player, drops, crashed>>

QueueLast == batch \o [i \in 1 .. queue |-> Msg("CONNECT")]

QueueOnlyAfterNews ==
    /\ Main("poll") /\ down = <<>>
    /\ conns' = Acknowledged(conns) /\ ackDue' = FALSE
    /\ IF batch = <<>> THEN UNCHANGED <<batch, queue>> ELSE batch' = QueueLast /\ queue' = 0
    /\ Goto("main", "handle")
    /\ UNCHANGED <<peer, server, down, scene, next, myPlayerId, player, drops, crashed>>

QueueCleared ==
    /\ Main("poll") /\ down = <<>>
    /\ conns' = Acknowledged(conns) /\ ackDue' = FALSE
    /\ queue' = 0
    /\ Goto("main", "handle")
    /\ UNCHANGED <<peer, server, down, batch, scene, next, myPlayerId, player, drops, crashed>>

\* No event is left: queue_ follows the messages of the network.
PollEnd ==
    /\ Main("poll") /\ down = <<>>
    /\ conns' = Acknowledged(conns) /\ ackDue' = FALSE
    /\ batch' = QueueLast /\ queue' = 0
    /\ Goto("main", "handle")
    /\ UNCHANGED <<peer, server, down, scene, next, myPlayerId, player, drops, crashed>>

OnlyEnterJoins ==
    /\ Main("handle") /\ batch # <<>> /\ Head(batch).kind = "CONNECT"
    /\ batch' = Tail(batch)
    /\ next' = IF scene = "game" THEN next ELSE "game"
    /\ UNCHANGED <<pc, host, scene, myPlayerId, conns, player, drops, crashed>>

HandleConnect ==
    /\ Main("handle") /\ batch # <<>> /\ Head(batch).kind = "CONNECT"
    /\ batch' = Tail(batch)
    /\ Sends("JOIN")
    /\ next' = IF scene = "game" THEN next ELSE "game"
    /\ UNCHANGED <<pc, peer, server, down, queue, scene, myPlayerId, player, drops, crashed>>

\* Only GameplayScene has an OnMessage; the menu drops an INIT.
HandleInit ==
    /\ Main("handle") /\ batch # <<>> /\ Head(batch).kind = "INIT"
    /\ batch' = Tail(batch)
    /\ IF scene = "game" THEN myPlayerId' = conns[Head(batch).conn].slot
                         ELSE UNCHANGED myPlayerId
    /\ UNCHANGED <<pc, host, scene, next, conns, player, drops, crashed>>

\* The master's signal starts a thread (the model keeps to one at a time).
HandleSignal ==
    /\ Main("handle") /\ batch # <<>> /\ Head(batch).kind = "P2P_SIGNAL"
    /\ batch' = Tail(batch)
    /\ pc' = IF pc["worker"] = "none" THEN [pc EXCEPT !["worker"] = "punch"] ELSE pc
    /\ UNCHANGED <<host, scene, next, myPlayerId, conns, player, drops, crashed>>

AllHandled ==
    /\ Main("handle") /\ batch = <<>>
    /\ Goto("main", "draw")
    /\ UNCHANGED <<host, ui, conns, player, drops, crashed>>

NoClick ==
    /\ Main("draw")
    /\ Goto("main", "frame")
    /\ UNCHANGED <<host, ui, conns, player, drops, crashed>>

\* A direct player joins addresses only; only a hasty one joins again while a thread is
\* at work or a connection is up, which the menu does not prevent.
MayJoin(how) ==
    /\ Main("draw") /\ scene = "menu"
    /\ player = "direct" => how = "direct"
    /\ player # "hasty" => pc["worker"] = "none" /\ ~Connected

\* The buttons: join an address, join a lobby, start a local game.
JoinDirect ==
    /\ MayJoin("direct") /\ Connect("main", "remote")
    /\ UNCHANGED <<ui, player, drops, crashed>>

ConnectToLobby ==
    /\ MayJoin("lobby") /\ Connect("main", "master")
    /\ UNCHANGED <<ui, player, drops, crashed>>

JoinLocal ==
    /\ MayJoin("local") /\ pc["worker"] = "none"
    /\ pc' = [main |-> "frame", worker |-> "host"]
    /\ UNCHANGED <<host, ui, conns, player, drops, crashed>>

ReturnToMenu ==
    /\ Main("draw") /\ scene = "game"
    /\ IF Connected THEN Disconnect("main", "leaving") /\ UNCHANGED next
                    ELSE next' = "menu" /\ Goto("main", "frame") /\ UNCHANGED <<host, conns>>
    /\ UNCHANGED <<batch, scene, myPlayerId, player, drops, crashed>>

ReturnToMenuDone ==
    /\ Main("leaving") /\ Disconnected
    /\ next' = "menu" /\ Goto("main", "frame")
    /\ UNCHANGED <<queue, batch, scene, myPlayerId, conns, player, drops>>

-----------------------------------------------------------------------------
(* The detached thread.                                                    *)

Worker(label) == pc["worker"] = label /\ ~crashed

\* The local server runs; the thread connects to it.
WorkerJoinsOwnServer ==
    /\ Worker("host") /\ Connect("worker", "local")
    /\ UNCHANGED <<ui, player, drops, crashed>>

\* The signalled host: leave the master, then connect.
WorkerLeavesMaster ==
    /\ Worker("punch")
    /\ IF Connected THEN Disconnect("worker", "leaving")
                    ELSE Goto("worker", "reconnect") /\ UNCHANGED <<host, conns>>
    /\ UNCHANGED <<ui, player, drops, crashed>>

WorkerLeft ==
    /\ Worker("leaving") /\ Disconnected
    /\ Goto("worker", "reconnect")
    /\ UNCHANGED <<queue, ui, conns, player, drops>>

WorkerReconnects ==
    /\ Worker("reconnect") /\ Connect("worker", "remote")
    /\ UNCHANGED <<ui, player, drops, crashed>>

-----------------------------------------------------------------------------
(* The servers' side of connection c, and the network.                     *)

Reaches(c, m) == down' = IF c = Last /\ peer \in {"connecting", "up"} THEN Append(down, m) ELSE down

TakenSlots == {conns[c].slot : c \in {d \in 1 .. Last : conns[d].st \in {"acking", "up"}
                                                         /\ conns[d].to = "remote"}}

\* A server started by this program has this program as its first client.
Accept(c) ==
    /\ conns[c].st = "asked" /\ c = Last /\ peer = "connecting"
    /\ \E s \in IF conns[c].to = "remote" THEN Slots \ TakenSlots ELSE {0} :
         conns' = [conns EXCEPT ![c].st = "acking", ![c].slot = s]
    /\ Reaches(c, "VERIFY")
    /\ UNCHANGED <<pc, peer, server, ackDue, queue, ui, player, drops, crashed>>

Receives(c, m) == conns[c].up # <<>> /\ Head(conns[c].up) = m

\* CONNECT at the server: a game server creates the player and sends INIT.
ServerConnects(c) ==
    /\ Receives(c, "ACK") /\ conns[c].st = "acking"
    /\ conns' = [conns EXCEPT ![c].st = "up", ![c].player = IsGame(c), ![c].up = Tail(@)]
    /\ IF IsGame(c) THEN Reaches(c, "INIT") ELSE UNCHANGED down
    /\ UNCHANGED <<pc, peer, server, ackDue, queue, ui, player, drops, crashed>>

\* JOIN names a present player; it creates an absent one, and sends INIT then only.
ServerTakesJoin(c) ==
    /\ Receives(c, "JOIN") /\ conns[c].st = "up"
    /\ conns' = [conns EXCEPT ![c].player = IsGame(c), ![c].named = IsGame(c), ![c].up = Tail(@)]
    /\ IF IsGame(c) /\ ~conns[c].player THEN Reaches(c, "INIT") ELSE UNCHANGED down
    /\ UNCHANGED <<pc, peer, server, ackDue, queue, ui, player, drops, crashed>>

\* The master signals if it still has the lobby; a game server knows no such packet.
ServerTakesRequest(c) ==
    /\ Receives(c, "P2P_REQUEST") /\ conns[c].st = "up"
    /\ conns' = [conns EXCEPT ![c].up = Tail(@)]
    /\ (~IsGame(c) /\ Reaches(c, "P2P_SIGNAL")) \/ UNCHANGED down
    /\ UNCHANGED <<pc, peer, server, ackDue, queue, ui, player, drops, crashed>>

ServerTakesBye(c) ==
    /\ Receives(c, "BYE") /\ conns[c].st \in {"acking", "up"}
    /\ conns' = [conns EXCEPT ![c].st = "gone", ![c].player = FALSE, ![c].up = <<>>]
    /\ down' = IF c = Last /\ peer = "leaving" THEN <<"BYE">> ELSE down
    /\ UNCHANGED <<pc, peer, server, ackDue, queue, ui, player, drops, crashed>>

\* The server stops, or ENet gives the connection up on both sides.
ServerDrops(c) ==
    /\ conns[c].st = "up" /\ drops < MaxDrops
    /\ drops' = drops + 1
    /\ conns' = [conns EXCEPT ![c].st = "gone", ![c].player = FALSE, ![c].up = <<>>]
    /\ Reaches(c, "BYE")
    /\ UNCHANGED <<pc, peer, server, ackDue, queue, ui, player, crashed>>

\* ENet's timeout at the server, for a client that is no longer there.
ServerTimesOut(c) ==
    /\ conns[c].st \in {"acking", "up"} /\ (c # Last \/ peer = "free")
    /\ conns' = [conns EXCEPT ![c].st = "gone", ![c].player = FALSE, ![c].up = <<>>]
    /\ UNCHANGED <<pc, host, ui, player, drops, crashed>>

-----------------------------------------------------------------------------
FrameLoop ==
    \/ EnterGame \/ ExitGame \/ ExitGameDone \/ SameScene
    \/ PollEvent \/ PollEnd
    \/ HandleConnect \/ HandleInit \/ HandleSignal \/ AllHandled
    \/ NoClick \/ JoinDirect \/ ConnectToLobby \/ JoinLocal
    \/ ReturnToMenu \/ ReturnToMenuDone
    \/ ~crashed /\ (ConnectSucceeds("main") \/ ConnectFails("main") \/ PushConnect("main"))

Thread ==
    \/ WorkerJoinsOwnServer \/ WorkerLeavesMaster \/ WorkerLeft \/ WorkerReconnects
    \/ ~crashed /\ (ConnectSucceeds("worker") \/ ConnectFails("worker") \/ PushConnect("worker"))

Servers == \E c \in 1 .. Last :
    \/ ServerConnects(c) \/ ServerTakesJoin(c) \/ ServerTakesRequest(c) \/ ServerTakesBye(c)
    \/ ServerTimesOut(c)

Next == FrameLoop \/ Thread \/ Servers \/ \E c \in 1 .. Last : Accept(c) \/ ServerDrops(c)

Spec == Init /\ [][Next]_vars

\* The frame loop and the thread are scheduled, the servers poll; a server need not
\* accept anybody, and the network may drop whom it likes.
FairSpec == Spec /\ WF_vars(FrameLoop) /\ WF_vars(Thread) /\ WF_vars(Servers)

-----------------------------------------------------------------------------
Conns == 1 .. Max({MaxConns[p] : p \in Players})

\* The player sees the game that connection c leads to.
InGame(c) ==
    /\ c = Last /\ scene = "game" /\ Connected /\ ~crashed
    /\ IsGame(c) /\ conns[c].st = "up"

IdUnknown(c) == InGame(c) /\ myPlayerId # conns[c].slot
Nameless(c) == InGame(c) /\ ~conns[c].named
Abandoned(c) == c <= Last /\ scene = "menu" /\ ~crashed /\ conns[c].player

\* INIT may overtake the CONNECT in queue_, the menu drops it and Enter forgets the
\* id; still no client that joins addresses stays in a game without its player's id.
KnowsOwnId == \A c \in Conns : []<>~(player = "direct" /\ IdUnknown(c))

\* Every player that stays gets its name: one of the two JOINs arrives.
EveryPlayerIsNamed == \A c \in Conns : []<>~Nameless(c)

\* A player on a server belongs to a program that comes to show the game, or goes away,
\* if the player waits for each click.
NoOrphanPlayer == \A c \in Conns : []<>~(player # "hasty" /\ Abandoned(c))

\* With no connect or disconnect under way, a live peer is one the program can use, if
\* the player waits for each click.
NeverDeaf ==
    (/\ player # "hasty" /\ peer = "up"
     /\ \A t \in Threads : pc[t] \notin {"connecting", "push", "leaving", "exiting"})
      => server

\* A connection may be refused, time out, or be lost in a game before the scene's Exit and
\* ReturnToMenu come to disconnect: enet_peer_reset is not called with a null server_, as
\* long as only the frame loop's thread uses the host.  (With the detached thread it is:
\* poll takes the event that thread waits for.)
NullNeverReset == player = "direct" => ~crashed
=============================================================================
