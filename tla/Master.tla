------------------------------- MODULE Master -------------------------------
(***************************************************************************)
(* The master server: the directory of public lobbies, the signalling of   *)
(* players to hosts, and the relay between them.                           *)
(*                                                                         *)
(* One thread polls ENet, then handles the messages it got one by one,     *)
(* then removes lobbies whose host has been silent.  Enet says what a poll *)
(* returns.                                                                *)
(***************************************************************************)
EXTENDS Enet

CONSTANTS
    LobbyTimeout,   \* silence after which a lobby is dropped (30 s)
    CleanupPeriod,  \* time between two cleanups (5 s)
    MaxStall,       \* bound on the time that passes between two polls
    MaxLobby        \* bound on lobby ids

LobbyIds == 1 .. MaxLobby

ASSUME MasterAssumption ==
    /\ {LobbyTimeout, CleanupPeriod, MaxStall, MaxLobby} \subseteq Nat
    /\ Kinds \subseteq {"REGISTER", "HEARTBEAT", "LIST_REQ", "P2P_REQUEST",
                        "RELAY_TO_SERVER", "RELAY_TO_CLIENT"}

VARIABLES
    lobbies,        \* lobby id -> lobby
    nextLobbyId,
    phase,          \* "poll" or "handle"
    sinceCleanup,   \* time since the last cleanup
    sent,           \* packets the last step sent
    registered,     \* peers: sessions that sent MASTER_REGISTER
    heard,          \* peers: session -> relay ids it was given
    elapsed         \* time since the last poll

directory == <<lobbies, nextLobbyId>>
vars == <<directory, phase, sinceCleanup, sent, registered, heard, elapsed, enet>>

\* A lobby: its host's slot, the time since its host was heard, and, as history,
\* the session that registered it and the one whose address it advertises (nobody's is
\* the loopback address getPeerIP gives for a slot without a session).
Lobby ==
    [peer: Peers, silence: 0 .. (LobbyTimeout + 1), session: Sessions,
     ip: Sessions \cup {Nobody}]

\* How a host names a player it knows through the relay: by the player's slot. Which
\* player held the slot when the host was told is history.
RelayIds == [slot: Peers, session: Sessions]

\* A packet on its way out: whom it reaches, whom it is meant for, and whether a relay
\* id says so.
Packet == [to: Sessions \cup {Nobody}, meant: Sessions, byId: BOOLEAN]

TypeOK ==
    /\ DOMAIN lobbies \subseteq LobbyIds /\ lobbies \in [DOMAIN lobbies -> Lobby]
    /\ nextLobbyId \in 1 .. (MaxLobby + 1)
    /\ EnetTypeOK(LobbyIds \cup RelayIds \cup {Nobody})
    /\ phase \in {"poll", "handle"}
    /\ sinceCleanup \in 0 .. (CleanupPeriod + 1)
    /\ sent \subseteq Packet
    /\ registered \subseteq Sessions
    /\ heard \in [Sessions -> SUBSET RelayIds]
    /\ elapsed \in 0 .. MaxStall

Init ==
    /\ EnetInit
    /\ lobbies = [l \in {} |-> Nobody] /\ nextLobbyId = 1
    /\ phase = "poll" /\ sinceCleanup = CleanupPeriod + 1 /\ sent = {}
    /\ registered = {} /\ heard = [s \in Sessions |-> {}] /\ elapsed = 0

-----------------------------------------------------------------------------
(* The network: sessions begin and end, peers send, time passes.           *)

\* What a packet of kind k can be about.
About(k) ==
    CASE k = "RELAY_TO_CLIENT" -> RelayIds
      [] k \in {"P2P_REQUEST", "RELAY_TO_SERVER"} -> LobbyIds
      [] OTHER -> {Nobody}

\* A ServerHost registers once per connection, then sends heartbeats, and relays to the
\* players it was told of, for as long as it likes; players ask for the list, for a
\* host and for the relay.
Send(p, k, a) ==
    /\ a \in About(k)
    /\ online[p] \in registered <=> k \in {"HEARTBEAT", "RELAY_TO_CLIENT"}
    /\ k = "RELAY_TO_CLIENT" => a \in heard[online[p]]
    /\ Say(p, k, a)
    /\ registered' = registered \cup (IF k = "REGISTER" THEN {online[p]} ELSE {})

TimePasses ==
    /\ elapsed < MaxStall
    /\ elapsed' = elapsed + 1
    /\ UNCHANGED <<directory, phase, sinceCleanup, sent, registered, heard, enet>>

Network ==
    \/ /\ \/ \E p \in Peers : Arrive(p) \/ Drop(p)
          \/ \E i \in DOMAIN wire : Lose(i)
       /\ UNCHANGED <<directory, phase, sinceCleanup, sent, registered, heard, elapsed>>
    \/ /\ \E p \in Peers, k \in Kinds : \E a \in About(k) : Send(p, k, a)
       /\ UNCHANGED <<directory, phase, sinceCleanup, sent, heard, elapsed>>

-----------------------------------------------------------------------------
(* The master's loop.                                                      *)

Capped(n, cap) == IF n > cap THEN cap ELSE n

\* ENet is polled, then the clock is read.
Poll ==
    /\ phase = "poll"
    /\ phase' = "handle"
    /\ PollHost
    /\ lobbies' = [l \in DOMAIN lobbies |->
                     [lobbies[l] EXCEPT !.silence = Capped(@ + elapsed, LobbyTimeout + 1)]]
    /\ sinceCleanup' = Capped(sinceCleanup + elapsed, CleanupPeriod + 1)
    /\ elapsed' = 0 /\ sent' = {}
    /\ UNCHANGED <<nextLobbyId, registered, heard>>

\* The next message of the batch is of kind k.
Handle(k) ==
    /\ phase = "handle" /\ Take /\ Head(batch).kind = k
    /\ UNCHANGED <<phase, sinceCleanup, registered, elapsed>>

Sender == Head(batch)
HostedBy(p) == {l \in DOMAIN lobbies : lobbies[l].peer = p}
Without(L) == [l \in DOMAIN lobbies \ L |-> lobbies[l]]

\* server->send: the packet goes to whoever holds the slot now.
SendTo(p, meant) == [to |-> clients[p], meant |-> meant, byId |-> FALSE]

\* CONNECT is not looked at.
HandleConnect ==
    /\ Handle("CONNECT") /\ sent' = {}
    /\ UNCHANGED <<directory, heard>>

DisconnectErasesById ==
    /\ Handle("DISCONNECT") /\ sent' = {}
    /\ lobbies' = Without({Sender.from})
    /\ UNCHANGED <<nextLobbyId, heard>>

HandleDisconnect ==
    /\ Handle("DISCONNECT") /\ sent' = {}
    /\ lobbies' = Without(HostedBy(Sender.from))
    /\ UNCHANGED <<nextLobbyId, heard>>

\* The new lobby advertises the address its slot has now (getPeerIP).
HandleRegister ==
    /\ Handle("REGISTER") /\ sent' = {}
    /\ nextLobbyId <= MaxLobby
    /\ lobbies' = [l \in DOMAIN lobbies \cup {nextLobbyId} |->
                     IF l = nextLobbyId
                     THEN [peer |-> Sender.from, silence |-> 0,
                           session |-> Sender.session, ip |-> clients[Sender.from]]
                     ELSE lobbies[l]]
    /\ nextLobbyId' = nextLobbyId + 1 /\ UNCHANGED heard

IsFirstOf(l, L) == l \in L /\ \A m \in L : l <= m

AnyHeartbeat ==
    /\ Handle("HEARTBEAT") /\ sent' = {}
    /\ lobbies' = [l \in DOMAIN lobbies |-> [lobbies[l] EXCEPT !.silence = 0]]
    /\ UNCHANGED <<nextLobbyId, heard>>

\* Only the sender's first lobby is refreshed.
HandleHeartbeat ==
    /\ Handle("HEARTBEAT") /\ sent' = {}
    /\ lobbies' = [l \in DOMAIN lobbies |->
                     IF IsFirstOf(l, HostedBy(Sender.from))
                     THEN [lobbies[l] EXCEPT !.silence = 0] ELSE lobbies[l]]
    /\ UNCHANGED <<nextLobbyId, heard>>

HandleListReq ==
    /\ Handle("LIST_REQ")
    /\ sent' = {SendTo(Sender.from, Sender.session)}
    /\ UNCHANGED <<directory, heard>>

P2PSwapsSignals ==
    /\ Handle("P2P_REQUEST")
    /\ LET l == Sender.arg
       IN  sent' = IF l \in DOMAIN lobbies
                   THEN {SendTo(lobbies[l].peer, Sender.session),
                         SendTo(Sender.from, lobbies[l].session)}
                   ELSE {}
    /\ UNCHANGED <<directory, heard>>

\* Player and host are told each other's address. It is never unknown: getPeerIP gives
\* the loopback address for a peer that is not there.
HandleP2PRequest ==
    /\ Handle("P2P_REQUEST")
    /\ LET l == Sender.arg
       IN  sent' = IF l \in DOMAIN lobbies
                   THEN {SendTo(Sender.from, Sender.session),
                         SendTo(lobbies[l].peer, lobbies[l].session)}
                   ELSE {}
    /\ UNCHANGED <<directory, heard>>

\* Whoever the packet reaches can answer to the sender's slot from now on.
HandleRelayToServer ==
    /\ Handle("RELAY_TO_SERVER")
    /\ LET l == Sender.arg
           id == [slot |-> Sender.from, session |-> Sender.session]
       IN  IF l \in DOMAIN lobbies
           THEN /\ sent' = {SendTo(lobbies[l].peer, lobbies[l].session)}
                /\ heard' = [h \in Sessions |->
                               IF h = clients[lobbies[l].peer]
                               THEN heard[h] \cup {id} ELSE heard[h]]
           ELSE sent' = {} /\ UNCHANGED heard
    /\ UNCHANGED directory

\* To whoever holds the slot that the host names.
HandleRelayToClient ==
    /\ Handle("RELAY_TO_CLIENT")
    /\ LET id == Sender.arg
       IN  sent' = {[to |-> clients[id.slot], meant |-> id.session, byId |-> TRUE]}
    /\ UNCHANGED <<directory, heard>>

TimedOut(l) == lobbies[l].silence > LobbyTimeout

\* The batch is handled: now and then, silent lobbies are dropped.
Cleanup ==
    /\ phase = "handle" /\ batch = <<>>
    /\ phase' = "poll" /\ sent' = {}
    /\ IF sinceCleanup > CleanupPeriod
       THEN /\ lobbies' = Without({l \in DOMAIN lobbies : TimedOut(l)})
            /\ sinceCleanup' = 0
       ELSE UNCHANGED <<lobbies, sinceCleanup>>
    /\ UNCHANGED <<nextLobbyId, registered, heard, elapsed, enet>>

HandleMessage ==
    \/ HandleConnect \/ HandleDisconnect \/ HandleRegister \/ HandleHeartbeat
    \/ HandleListReq \/ HandleP2PRequest \/ HandleRelayToServer \/ HandleRelayToClient

Loop == Poll \/ HandleMessage \/ Cleanup

Next == Loop \/ Network \/ TimePasses

Spec == Init /\ [][Next]_vars

\* The master's loop never waits and the clock goes on; peers owe nothing.
FairSpec == Spec /\ WF_vars(Loop) /\ WF_vars(TimePasses)

-----------------------------------------------------------------------------
(* Safety.                                                                 *)

\* A lobby belongs to the session that registered it: that session holds the
\* lobby's slot and its address is the one advertised, or its DISCONNECT is in the
\* batch being handled.  A slot given to someone else takes no lobby with it.
DirectoryAccurate ==
    \A l \in DOMAIN lobbies :
      \/ Leaving(lobbies[l].session)
      \/ clients[lobbies[l].peer] = lobbies[l].session /\ lobbies[l].ip = lobbies[l].session

Connected(s) == \E p \in Peers : clients[p] = s

\* What the master sends reaches the session it is meant for or nobody, but for two
\* gaps. Between polling a DISCONNECT and handling it, earlier messages of the batch
\* are answered to the slot's new session; and a host goes on naming a relayed player
\* by its slot when the player has gone, as nothing tells it so.
PacketsReachTheirSession ==
    \A m \in sent :
      \/ m.to \in {m.meant, Nobody}
      \/ Leaving(m.meant)
      \/ m.byId /\ ~Connected(m.meant)

(* Liveness.                                                               *)

\* The lobby of a host that has gone is removed.
GoneHostsAreRemoved ==
    \A l \in LobbyIds :
      (l \in DOMAIN lobbies /\ online[lobbies[l].peer] # lobbies[l].session)
        ~> (l \notin DOMAIN lobbies)

\* A lobby that stays listed has a host that keeps sending heartbeats.
ListedHostsAreHeard ==
    \A l \in LobbyIds :
      <>[](l \in DOMAIN lobbies) =>
        []<><<HandleHeartbeat /\ l \in HostedBy(Sender.from)>>_vars
=============================================================================
