----------------------------- MODULE MasterProofs -----------------------------
(***************************************************************************)
(* Proofs about the master server: the directory lists the sessions that   *)
(* registered, at the slots they hold, and what is sent reaches whom it is *)
(* meant for, though slots change hands while messages wait to be handled. *)
(***************************************************************************)
EXTENDS Master, EnetProofs

Args == LobbyIds \cup RelayIds \cup {Nobody}
Event == EventWith(Args)

-----------------------------------------------------------------------------
(* The inductive invariant.                                                *)

\* The session of relay id `id` has been, and holds no slot but the id's.
True(id) ==
  /\ id \in RelayIds /\ id.session <= lastSession
  /\ \A r \in Peers : id.session \in {online[r], clients[r]} => r = id.slot

\* The relay ids of packets are true.
NamesTrueIds(q) == \A i \in 1 .. Len(q) : q[i].kind = "RELAY_TO_CLIENT" => True(q[i].arg)

\* The relay ids that hosts were given are true.
HeardTrueIds == \A s \in Sessions : \A id \in heard[s] : True(id)

\* The rest of the batch fits who held the slots when its first message was sent.
BatchFits == \E f \in Holders : Leads(batch, f, clients)

\* The end of session s in slot p is among the events q.
LeavingIn(q, p, s) ==
  \E i \in 1 .. Len(q) : q[i].kind = "DISCONNECT" /\ q[i].from = p /\ q[i].session = s

\* DirectoryAccurate, and who leaves a lobby leaves from the lobby's slot: that is
\* what lets HandleDisconnect find the lobby.
ListedAtItsSlot ==
  \A l \in DOMAIN lobbies :
    \/ LeavingIn(batch, lobbies[l].peer, lobbies[l].session)
    \/ clients[lobbies[l].peer] = lobbies[l].session /\ lobbies[l].ip = lobbies[l].session

Inv ==
  /\ TypeOK
  /\ EnetInv(Args)
  /\ phase = "poll" => batch = <<>>
  /\ NamesTrueIds(wire) /\ NamesTrueIds(batch) /\ HeardTrueIds
  /\ BatchFits
  /\ ListedAtItsSlot
  /\ PacketsReachTheirSession

LEMMA Constants ==
  /\ LobbyTimeout \in Nat /\ CleanupPeriod \in Nat /\ MaxStall \in Nat /\ MaxLobby \in Nat
  /\ MaxSession \in Nat
BY MasterAssumption, EnetAssumption

LEMMA InitInv == Init => Inv
<1> SUFFICES ASSUME Init PROVE Inv
  OBVIOUS
<1>1. EnetInv(Args) BY EnetInitInv DEF Init
<1>2. /\ batch = <<>> /\ wire = <<>> /\ clients \in Holders
      /\ DOMAIN lobbies = {} /\ sent = {} /\ phase = "poll"
      /\ heard = [s \in Sessions |-> {}]
  BY DEF Init, EnetInit, Holders
<1>3. TypeOK
  <2>1. EnetTypeOK(Args) BY <1>1 DEF EnetInv
  <2> QED BY <2>1, <1>2, Constants DEF TypeOK, Init, Args
<1>4. NamesTrueIds(wire) /\ NamesTrueIds(batch)
  <2>1. Len(<<>>) = 0 OBVIOUS
  <2> QED BY <1>2, <2>1 DEF NamesTrueIds
<1>5. BatchFits BY <1>2, LeadsNowhere DEF BatchFits
<1>6. ListedAtItsSlot BY <1>2 DEF ListedAtItsSlot
<1>7. PacketsReachTheirSession BY <1>2 DEF PacketsReachTheirSession
<1>8. HeardTrueIds BY <1>2 DEF HeardTrueIds
<1> QED BY <1>1, <1>2, <1>3, <1>4, <1>5, <1>6, <1>7, <1>8 DEF Inv

\* A relay id stays true if no session of the past gets a slot it did not hold.
LEMMA TrueStays ==
  ASSUME lastSession \in Nat, lastSession' \in Nat, lastSession <= lastSession',
         \A r \in Peers : \A s \in Sessions :
           s <= lastSession /\ s \in {online'[r], clients'[r]} => s \in {online[r], clients[r]}
  PROVE  \A id : True(id) => True(id)'
<1> SUFFICES ASSUME NEW id, True(id) PROVE True(id)'
  OBVIOUS
<1>1. id.session \in Sessions /\ id.session \in Nat BY Constants DEF True, RelayIds, Sessions
<1>2. id.session <= lastSession' BY <1>1 DEF True
<1> QED BY <1>1, <1>2 DEF True

LEMMA IdsStayTrue ==
  ASSUME HeardTrueIds, heard' = heard, \A id : True(id) => True(id)'
  PROVE  HeardTrueIds'
BY DEF HeardTrueIds

-----------------------------------------------------------------------------
(* The network, and what does not concern the directory.                   *)

\* Nothing but the network changes.
LEMMA NetworkKeeps ==
  ASSUME Inv, EnetInv(Args)', NamesTrueIds(wire)', UNCHANGED <<clients, batch>>,
         UNCHANGED <<directory, phase, sinceCleanup, sent, heard, elapsed>>,
         registered' \subseteq Sessions, \A id : True(id) => True(id)'
  PROVE  Inv'
<1>1. TypeOK'
  <2>1. EnetTypeOK(Args)' BY DEF EnetInv
  <2> QED BY <2>1 DEF Inv, TypeOK, directory, Args
<1>2. BatchFits' BY DEF Inv, BatchFits
<1>3. ListedAtItsSlot' BY DEF Inv, ListedAtItsSlot, LeavingIn, directory
<1>4. PacketsReachTheirSession' BY DEF Inv, PacketsReachTheirSession, Leaving, Connected
<1>5. NamesTrueIds(batch)' BY DEF Inv, NamesTrueIds
<1>6. HeardTrueIds' BY IdsStayTrue DEF Inv
<1> QED BY <1>1, <1>2, <1>3, <1>4, <1>5, <1>6 DEF Inv

LEMMA AppendNames ==
  ASSUME wire \in Seq(Event), NamesTrueIds(wire), NEW e \in Event, wire' = Append(wire, e),
         e.kind = "RELAY_TO_CLIENT" => True(e.arg), \A id : True(id) => True(id)'
  PROVE  NamesTrueIds(wire)'
<1> DEFINE E == Event
<1> HIDE DEF E
<1>1. wire \in Seq(E) /\ e \in E BY DEF E
<1>2. /\ Len(wire') = Len(wire) + 1 /\ Len(wire) \in Nat
      /\ \A i \in 1 .. Len(wire) : wire'[i] = wire[i]
      /\ wire'[Len(wire) + 1] = e
  BY <1>1, AppendProperties
<1>3. ASSUME NEW i \in 1 .. Len(wire') PROVE i \in 1 .. Len(wire) \/ i = Len(wire) + 1
  BY <1>2
<1> QED BY <1>2, <1>3 DEF NamesTrueIds

LEMMA NetworkInv ==
  ASSUME Inv, Network
  PROVE  Inv'
<1>1. /\ EnetInv(Args) /\ NamesTrueIds(wire) /\ Nobody \in Args
      /\ registered \subseteq Sessions /\ wire \in Seq(Event)
      /\ online \in Holders /\ lastSession \in Nat
  BY Constants DEF Inv, TypeOK, Args, EnetInv, EnetTypeOK, Event, Holders
<1>2. ASSUME NEW p \in Peers, Arrive(p),
             UNCHANGED <<directory, phase, sinceCleanup, sent, registered, heard, elapsed>>
      PROVE  Inv'
  <2> DEFINE e == [kind |-> "CONNECT", from |-> p, session |-> lastSession', arg |-> Nobody]
  <2>1. EnetInv(Args)' BY <1>1, <1>2, ArriveInv
  <2>2. wire' = Append(wire, e) /\ UNCHANGED <<clients, batch>> BY <1>2 DEF Arrive, Happens
  <2>3. e \in Event
    <3>1. lastSession' \in Sessions
      BY <1>2, Constants DEF Arrive, Sessions, Inv, EnetInv, EnetTypeOK
    <3> QED BY <3>1 DEF Event, EventWith, Args
  <2>4. \A id : True(id) => True(id)'
    <3>1. /\ lastSession' = lastSession + 1 /\ clients' = clients
          /\ \A r \in Peers : online'[r] = online[r] \/ online'[r] = lastSession'
      BY <1>1, <1>2 DEF Arrive, Holders
    <3>2. ~(lastSession' <= lastSession) /\ lastSession <= lastSession' /\ lastSession' \in Nat
      BY <1>1, <3>1
    <3> QED BY <1>1, <3>1, <3>2, TrueStays
  <2>5. NamesTrueIds(wire)' BY <1>1, <2>2, <2>3, <2>4, AppendNames
  <2> QED BY <1>1, <1>2, <2>1, <2>2, <2>4, <2>5, NetworkKeeps
<1>3. ASSUME NEW p \in Peers, Drop(p),
             UNCHANGED <<directory, phase, sinceCleanup, sent, registered, heard, elapsed>>
      PROVE  Inv'
  <2> DEFINE e == [kind |-> "DISCONNECT", from |-> p, session |-> online[p], arg |-> Nobody]
  <2>1. EnetInv(Args)' BY <1>1, <1>3, DropInv
  <2>2. wire' = Append(wire, e) /\ UNCHANGED <<clients, batch>> BY <1>3 DEF Drop, Happens
  <2>3. e \in Event BY <1>1, <1>3 DEF Drop, Event, EventWith, Args, Holders
  <2>4. \A id : True(id) => True(id)'
    <3>1. /\ lastSession' = lastSession /\ clients' = clients
          /\ \A r \in Peers : online'[r] = online[r] \/ online'[r] \notin Sessions
      BY <1>1, <1>3, KindsDiffer DEF Drop, Holders
    <3> QED BY <1>1, <3>1, TrueStays
  <2>5. NamesTrueIds(wire)' BY <1>1, <2>2, <2>3, <2>4, AppendNames
  <2> QED BY <1>1, <1>3, <2>1, <2>2, <2>4, <2>5, NetworkKeeps
<1>4. ASSUME NEW i \in DOMAIN wire, Lose(i),
             UNCHANGED <<directory, phase, sinceCleanup, sent, registered, heard, elapsed>>
      PROVE  Inv'
  <2> DEFINE E == Event
  <2>1. EnetInv(Args)' BY <1>1, <1>4, LoseInv
  <2>2. wire' = Losing(wire, i) /\ UNCHANGED <<clients, batch>> BY <1>4 DEF Lose
  <2> HIDE DEF E
  <2>3. wire \in Seq(E) BY <1>1 DEF E
  <2>4. i \in 1 .. Len(wire) /\ Len(wire) \in Nat BY <1>4, <2>3
  <2>5. /\ Len(wire') = Len(wire) - 1
        /\ \A j \in 1 .. (Len(wire) - 1) : wire'[j] = IF j < i THEN wire[j] ELSE wire[j + 1]
    BY <2>2, <2>3, <2>4, LosingIs
  <2>6. \A id : True(id) => True(id)' BY <1>4 DEF Lose, True
  <2>7. NamesTrueIds(wire)' BY <1>1, <2>4, <2>5, <2>6 DEF NamesTrueIds
  <2> QED BY <1>1, <1>4, <2>1, <2>2, <2>6, <2>7, NetworkKeeps
<1>5. ASSUME NEW p \in Peers, NEW k \in Kinds, NEW a \in About(k), Send(p, k, a),
             UNCHANGED <<directory, phase, sinceCleanup, sent, heard, elapsed>>
      PROVE  Inv'
  <2> DEFINE e == [kind |-> k, from |-> p, session |-> online[p], arg |-> a]
  <2>0. a \in Args BY DEF About, Args
  <2>1. EnetInv(Args)' BY <1>1, <1>5, <2>0, SayInv DEF Send
  <2>2. wire' = Append(wire, e) /\ UNCHANGED <<clients, batch>>
    BY <1>5 DEF Send, Say, Happens
  <2>3. online[p] \in Sessions BY <1>1, <1>5 DEF Send, Say, Holders
  <2>4. e \in Event BY <2>0, <2>3 DEF Event, EventWith
  <2>5. k = "RELAY_TO_CLIENT" => True(a) BY <1>5, <2>3 DEF Send, Inv, HeardTrueIds
  <2>6. \A id : True(id) => True(id)' BY <1>5 DEF Send, Say, True
  <2>7. NamesTrueIds(wire)' BY <1>1, <2>2, <2>4, <2>5, <2>6, AppendNames
  <2>8. registered' \subseteq Sessions BY <1>1, <1>5, <2>3 DEF Send
  <2> QED BY <1>5, <2>1, <2>2, <2>6, <2>7, <2>8, NetworkKeeps
<1> QED BY <1>1, <1>2, <1>3, <1>4, <1>5 DEF Network

LEMMA TimePassesInv ==
  ASSUME Inv, TimePasses
  PROVE  Inv'
<1>1. /\ elapsed' \in 0 .. MaxStall
      /\ UNCHANGED <<lobbies, nextLobbyId, phase, sinceCleanup, sent, registered, heard, enet>>
  BY Constants DEF TimePasses, Inv, TypeOK, directory
<1>2. EnetInv(Args)' BY <1>1, EnetStutter DEF Inv
<1>3. TypeOK'
  <2>1. EnetTypeOK(Args)' BY <1>2 DEF EnetInv
  <2> QED BY <1>1, <2>1 DEF Inv, TypeOK, Args
<1> QED
  BY <1>1, <1>2, <1>3 DEF Inv, NamesTrueIds, HeardTrueIds, True, BatchFits, ListedAtItsSlot,
                          LeavingIn, PacketsReachTheirSession, Leaving, Connected, enet

-----------------------------------------------------------------------------
(* The loop.                                                               *)

\* A poll: whoever lost a slot has a DISCONNECT in the new batch.
LEMMA PollInv ==
  ASSUME Inv, Poll
  PROVE  Inv'
<1> DEFINE E == Event
<1>1. /\ phase = "poll" /\ batch = <<>> /\ PollHost /\ EnetInv(Args)
      /\ phase' = "handle" /\ elapsed' = 0 /\ sent' = {}
      /\ nextLobbyId' = nextLobbyId /\ registered' = registered /\ heard' = heard
  BY DEF Inv, Poll
<1>2. EnetInv(Args)' /\ clients' = online /\ Leads(batch', clients, clients')
  BY <1>1, PollHostInv
<1>3. /\ wire \in Seq(E) /\ batch' = wire /\ wire' = <<>>
      /\ clients \in Holders /\ Leads(wire, clients, online)
  BY <1>1 DEF PollHost, EnetInv, EnetTypeOK, Event, Holders
<1> HIDE DEF E
<1>4. /\ DOMAIN lobbies' = DOMAIN lobbies
      /\ \A l \in DOMAIN lobbies :
           /\ lobbies[l] \in Lobby /\ lobbies'[l] \in Lobby
           /\ lobbies'[l].peer = lobbies[l].peer /\ lobbies'[l].session = lobbies[l].session
           /\ lobbies'[l].ip = lobbies[l].ip
  <2>1. /\ lobbies \in [DOMAIN lobbies -> Lobby] /\ elapsed \in 0 .. MaxStall
        /\ lobbies' = [l \in DOMAIN lobbies |->
             [lobbies[l] EXCEPT !.silence = Capped(@ + elapsed, LobbyTimeout + 1)]]
    BY DEF Inv, TypeOK, Poll
  <2>2. ASSUME NEW l \in DOMAIN lobbies
        PROVE  /\ lobbies'[l] \in Lobby
               /\ lobbies'[l].peer = lobbies[l].peer /\ lobbies'[l].session = lobbies[l].session
               /\ lobbies'[l].ip = lobbies[l].ip
    <3>1. lobbies[l] \in Lobby BY <2>1
    <3>2. Capped(lobbies[l].silence + elapsed, LobbyTimeout + 1) \in 0 .. (LobbyTimeout + 1)
      BY <2>1, <3>1, Constants DEF Lobby, Capped
    <3> QED BY <2>1, <3>1, <3>2 DEF Lobby
  <2> QED BY <2>1, <2>2
<1>5. sinceCleanup' \in 0 .. (CleanupPeriod + 1)
  BY Constants DEF Inv, TypeOK, Poll, Capped
<1>6. TypeOK'
  <2>1. EnetTypeOK(Args)' BY <1>2 DEF EnetInv
  <2>2. lobbies' \in [DOMAIN lobbies' -> Lobby] BY <1>4 DEF Inv, TypeOK, Poll
  <2> QED BY <1>1, <1>4, <1>5, <2>1, <2>2, Constants DEF Inv, TypeOK, Args
<1>7. NamesTrueIds(wire)' /\ NamesTrueIds(batch)' /\ HeardTrueIds'
  <2>1. Len(<<>>) = 0 OBVIOUS
  <2>2. clients' = online /\ online' = online /\ lastSession' = lastSession
    BY <1>1, <1>2 DEF PollHost
  <2>3. \A id : True(id) => True(id)' BY <2>2 DEF True
  <2>4. HeardTrueIds' BY <1>1, <2>3, IdsStayTrue DEF Inv
  <2> QED BY <1>3, <2>1, <2>3, <2>4 DEF Inv, NamesTrueIds
<1>8. BatchFits' BY <1>2, <1>3 DEF BatchFits
<1>9. ListedAtItsSlot'
  <2> SUFFICES ASSUME NEW l \in DOMAIN lobbies
               PROVE  \/ LeavingIn(batch', lobbies[l].peer, lobbies[l].session)
                      \/ /\ clients'[lobbies[l].peer] = lobbies[l].session
                         /\ lobbies[l].ip = lobbies[l].session
    BY <1>4 DEF ListedAtItsSlot, LeavingIn
  <2> DEFINE p == lobbies[l].peer
             s == lobbies[l].session
  <2>1. p \in Peers /\ s \in Sessions BY <1>4 DEF Lobby
  <2>2. clients[p] = s /\ lobbies[l].ip = s
    <3>1. Len(batch) = 0 BY <1>1
    <3> QED BY <3>1 DEF Inv, ListedAtItsSlot, LeavingIn
  <2>3. CASE online[p] = s BY <1>2, <2>2, <2>3
  <2>4. CASE online[p] # s
    <3>1. clients[p] # Nobody BY <2>1, <2>2, KindsDiffer
    <3>2. \E i \in 1 .. Len(wire) :
            wire[i].kind = "DISCONNECT" /\ wire[i].from = p /\ wire[i].session = clients[p]
      BY <1>3, <2>1, <2>2, <2>4, <3>1, LeadsAway
    <3> QED BY <1>3, <2>2, <3>2 DEF LeavingIn
  <2> QED BY <2>3, <2>4
<1>10. PacketsReachTheirSession' BY <1>1 DEF PacketsReachTheirSession
<1> QED BY <1>1, <1>2, <1>6, <1>7, <1>8, <1>9, <1>10 DEF Inv

\* What a message that is taken leaves: the sender of a packet holds its slot, or its
\* DISCONNECT comes later in the batch; whoever is leaving is still leaving, unless the
\* message is that DISCONNECT.
LEMMA Taken ==
  ASSUME Inv, Take
  PROVE  /\ EnetInv(Args)' /\ NamesTrueIds(batch)' /\ BatchFits'
         /\ Sender \in Event /\ UNCHANGED <<clients, wire>>
         /\ \A id : True(id) => True(id)'
         /\ Sender.kind = "RELAY_TO_CLIENT" => True(Sender.arg)
         /\ IsPacket(Sender) => True([slot |-> Sender.from, session |-> Sender.session])
         /\ IsPacket(Sender) =>
              \/ clients[Sender.from] = Sender.session
              \/ LeavingIn(batch', Sender.from, Sender.session)
         /\ \A p, s : LeavingIn(batch, p, s) =>
              \/ LeavingIn(batch', p, s)
              \/ Sender.kind = "DISCONNECT" /\ Sender.from = p /\ Sender.session = s
<1> DEFINE E == Event
<1>1. /\ EnetInv(Args) /\ batch \in Seq(E) /\ batch # <<>> /\ batch' = Tail(batch)
      /\ UNCHANGED <<clients, wire>>
  BY DEF Inv, Take, EnetInv, EnetTypeOK, Event
<1> HIDE DEF E
<1>2. EnetInv(Args)' BY <1>1, TakeInv
<1>3. /\ Sender = batch[1] /\ Sender \in E /\ Len(batch) \in Nat /\ Len(batch) >= 1
      /\ batch' \in Seq(E) /\ Len(batch') = Len(batch) - 1
      /\ \A i \in 1 .. Len(batch') : i + 1 \in 1 .. Len(batch) /\ batch'[i] = batch[i + 1]
  BY <1>1 DEF Sender
<1>11. \A id : True(id) => True(id)' BY DEF Take, True
<1>4. NamesTrueIds(batch)' BY <1>3, <1>11 DEF Inv, NamesTrueIds
<1>5. Sender.kind = "RELAY_TO_CLIENT" => True(Sender.arg) BY <1>3 DEF Inv, NamesTrueIds
<1>12. True([slot |-> Sender.from, session |-> Sender.session])
  <2>1. Sender.from \in Peers /\ Sender.session \in Sessions BY <1>3 DEF E, Event, EventWith
  <2>2. At(Sender.session, Sender.from) BY <1>3 DEF At
  <2>3. /\ Sender.session <= lastSession
        /\ \A r \in Peers : At(Sender.session, r) => r = Sender.from
    BY <1>1, <2>1, <2>2 DEF EnetInv, OneSlot
  <2> QED BY <2>1, <2>3 DEF True, RelayIds, At
<1>6. PICK f \in Holders : Leads(batch, f, clients) BY DEF Inv, BatchFits
<1>7. PICK k \in Holders : Applies(Sender, f, k) /\ Leads(batch', k, clients)
  BY <1>1, <1>6, LeadsRest DEF Sender
<1>8. BatchFits' BY <1>1, <1>7 DEF BatchFits
<1>9. ASSUME IsPacket(Sender), clients[Sender.from] # Sender.session
      PROVE  LeavingIn(batch', Sender.from, Sender.session)
  <2>1. k[Sender.from] = Sender.session BY <1>7, <1>9, KindsDiffer DEF Applies
  <2>2. Sender.from \in Peers /\ Sender.session \in Sessions
    BY <1>3 DEF E, Event, EventWith
  <2>3. \E i \in 1 .. Len(batch') : /\ batch'[i].kind = "DISCONNECT"
                                     /\ batch'[i].from = Sender.from
                                     /\ batch'[i].session = k[Sender.from]
    BY <1>3, <1>7, <1>9, <2>1, <2>2, KindsDiffer, LeadsAway
  <2> QED BY <2>1, <2>3 DEF LeavingIn
<1>10. ASSUME NEW p, NEW s, LeavingIn(batch, p, s),
              ~(Sender.kind = "DISCONNECT" /\ Sender.from = p /\ Sender.session = s)
       PROVE  LeavingIn(batch', p, s)
  <2>1. PICK i \in 1 .. Len(batch) :
          batch[i].kind = "DISCONNECT" /\ batch[i].from = p /\ batch[i].session = s
    BY <1>10 DEF LeavingIn
  <2>2. i # 1 BY <1>3, <1>10, <2>1
  <2>3. i - 1 \in 1 .. Len(batch') /\ (i - 1) + 1 = i BY <1>3, <2>1, <2>2
  <2>4. batch'[i - 1] = batch[i] BY <1>3, <2>3
  <2> QED BY <2>1, <2>3, <2>4 DEF LeavingIn
<1> QED BY <1>1, <1>2, <1>3, <1>4, <1>5, <1>8, <1>9, <1>10, <1>11, <1>12 DEF E

\* A handler's step: it is enough to look at the lobbies and at what is sent.
LEMMA HandleInv ==
  ASSUME Inv, NEW k, Handle(k),
         DOMAIN lobbies' \subseteq LobbyIds, lobbies' \in [DOMAIN lobbies' -> Lobby],
         nextLobbyId' \in 1 .. (MaxLobby + 1), sent' \subseteq Packet,
         heard' \in [Sessions -> SUBSET RelayIds], HeardTrueIds',
         ListedAtItsSlot', PacketsReachTheirSession'
  PROVE  Inv'
<1>1. /\ Take /\ phase = "handle" /\ UNCHANGED <<phase, sinceCleanup, registered, elapsed>>
  BY DEF Handle
<1>2. EnetInv(Args)' /\ NamesTrueIds(batch)' /\ BatchFits' /\ UNCHANGED wire
  BY <1>1, Taken
<1>3. TypeOK'
  <2>1. EnetTypeOK(Args)' BY <1>2 DEF EnetInv
  <2> QED BY <1>1, <2>1 DEF Inv, TypeOK, Args
<1>4. NamesTrueIds(wire)'
  <2>1. \A id : True(id) => True(id)' BY <1>1, Taken
  <2> QED BY <1>2, <2>1 DEF Inv, NamesTrueIds
<1> QED BY <1>1, <1>2, <1>3, <1>4 DEF Inv

\* No host is told of a player.
LEMMA HeardTheSame ==
  ASSUME Inv, Take, heard' = heard
  PROVE  heard' \in [Sessions -> SUBSET RelayIds] /\ HeardTrueIds'
<1>1. HeardTrueIds' BY Taken, IdsStayTrue DEF Inv
<1> QED BY <1>1 DEF Inv, TypeOK

\* A message that is no DISCONNECT takes no lobby from its slot.
LEMMA StillListed ==
  ASSUME Inv, Take, Sender.kind # "DISCONNECT", NEW l \in DOMAIN lobbies
  PROVE  \/ LeavingIn(batch', lobbies[l].peer, lobbies[l].session)
         \/ clients'[lobbies[l].peer] = lobbies[l].session /\ lobbies[l].ip = lobbies[l].session
BY Taken DEF Inv, ListedAtItsSlot

\* The directory is left alone.
LEMMA SameDirectory ==
  ASSUME Inv, Take, Sender.kind # "DISCONNECT", UNCHANGED directory
  PROVE  /\ DOMAIN lobbies' \subseteq LobbyIds /\ lobbies' \in [DOMAIN lobbies' -> Lobby]
         /\ nextLobbyId' \in 1 .. (MaxLobby + 1)
         /\ ListedAtItsSlot'
<1>1. lobbies' = lobbies /\ nextLobbyId' = nextLobbyId BY DEF directory
<1>2. ListedAtItsSlot' BY <1>1, StillListed DEF ListedAtItsSlot, LeavingIn
<1> QED BY <1>1, <1>2 DEF Inv, TypeOK

\* The same lobbies, heard of or not.
LEMMA OnlySilence ==
  ASSUME Inv, Take, Sender.kind # "DISCONNECT", DOMAIN lobbies' = DOMAIN lobbies,
         \A l \in DOMAIN lobbies :
           lobbies'[l] = lobbies[l] \/ lobbies'[l] = [lobbies[l] EXCEPT !.silence = 0],
         lobbies' \in [DOMAIN lobbies' -> Lobby]
  PROVE  ListedAtItsSlot'
<1>1. ASSUME NEW l \in DOMAIN lobbies
      PROVE  /\ lobbies'[l].peer = lobbies[l].peer /\ lobbies'[l].session = lobbies[l].session
             /\ lobbies'[l].ip = lobbies[l].ip
  <2>1. lobbies[l] \in Lobby BY DEF Inv, TypeOK
  <2> QED BY <2>1 DEF Lobby
<1> QED BY <1>1, StillListed DEF ListedAtItsSlot, LeavingIn

-----------------------------------------------------------------------------
(* The handlers.                                                           *)

\* Whom packet m reaches is whom it is meant for, or that one is about to leave.
Reaches(m) ==
  \/ m.to \in {m.meant, Nobody}
  \/ \E i \in DOMAIN batch' : batch'[i].kind = "DISCONNECT" /\ batch'[i].session = m.meant
  \/ m.byId /\ ~\E p \in Peers : clients'[p] = m.meant

LEMMA SentReaches ==
  ASSUME NEW S, sent' = S, \A m \in S : Reaches(m)
  PROVE  PacketsReachTheirSession'
BY DEF PacketsReachTheirSession, Reaches, Leaving, Connected

\* A packet to a slot, meant for the session that holds it or leaves it.
LEMMA SendReaches ==
  ASSUME Inv, Take, NEW p \in Peers, NEW s \in Sessions,
         clients[p] = s \/ LeavingIn(batch', p, s)
  PROVE  SendTo(p, s) \in Packet /\ Reaches(SendTo(p, s))
<1> DEFINE E == Event
<1>1. EnetInv(Args)' BY Taken
<1>2. batch' \in Seq(E) BY <1>1 DEF EnetInv, EnetTypeOK, Event
<1> HIDE DEF E
<1>3. DOMAIN batch' = 1 .. Len(batch') BY <1>2
<1>4. clients[p] \in Sessions \cup {Nobody} BY DEF Inv, EnetInv, EnetTypeOK
<1> QED BY <1>3, <1>4 DEF SendTo, Packet, Reaches, LeavingIn

\* The kind of a message that is handled.
LEMMA HandledKind ==
  ASSUME Inv, NEW k, Handle(k)
  PROVE  /\ Take /\ Sender.kind = k
         /\ Sender.from \in Peers /\ Sender.session \in Sessions
         /\ k \notin {"CONNECT", "DISCONNECT"} => IsPacket(Sender)
<1>1. Take /\ Sender.kind = k BY DEF Handle, Sender
<1>2. Sender \in Event BY <1>1, Taken
<1> QED BY <1>1, <1>2 DEF Event, EventWith, IsPacket

LEMMA HandleConnectInv == Inv /\ HandleConnect => Inv'
<1> SUFFICES ASSUME Inv, HandleConnect PROVE Inv'
  OBVIOUS
<1>1. Handle("CONNECT") /\ sent' = {} /\ UNCHANGED <<directory, heard>> BY DEF HandleConnect
<1>2. Take /\ Sender.kind # "DISCONNECT" BY <1>1, HandledKind
<1>3. PacketsReachTheirSession' BY <1>1 DEF PacketsReachTheirSession
<1> QED BY <1>1, <1>2, <1>3, SameDirectory, HeardTheSame, HandleInv

\* The lobbies that go are those of the slot whose session ended; whoever leaves any
\* other slot is still leaving.
LEMMA HandleDisconnectInv == Inv /\ HandleDisconnect => Inv'
<1> SUFFICES ASSUME Inv, HandleDisconnect PROVE Inv'
  OBVIOUS
<1>1. /\ Handle("DISCONNECT") /\ sent' = {} /\ nextLobbyId' = nextLobbyId /\ heard' = heard
      /\ lobbies' = Without(HostedBy(Sender.from))
  BY DEF HandleDisconnect
<1>2. Take BY <1>1, HandledKind
<1>3. /\ DOMAIN lobbies' \subseteq DOMAIN lobbies
      /\ \A l \in DOMAIN lobbies' : lobbies'[l] = lobbies[l] /\ lobbies[l].peer # Sender.from
  BY <1>1 DEF Without, HostedBy
<1>4. lobbies' \in [DOMAIN lobbies' -> Lobby] BY <1>1 DEF Inv, TypeOK, Without
<1>5. ListedAtItsSlot' BY <1>2, <1>3, Taken DEF ListedAtItsSlot, Inv
<1>6. PacketsReachTheirSession' BY <1>1 DEF PacketsReachTheirSession
<1>7. DOMAIN lobbies' \subseteq LobbyIds /\ nextLobbyId' \in 1 .. (MaxLobby + 1)
  BY <1>1, <1>3 DEF Inv, TypeOK
<1> QED BY <1>1, <1>2, <1>4, <1>5, <1>6, <1>7, HeardTheSame, HandleInv

\* getPeerIP gives the sender's own address, or the sender is leaving.
LEMMA HandleRegisterInv == Inv /\ HandleRegister => Inv'
<1> SUFFICES ASSUME Inv, HandleRegister PROVE Inv'
  OBVIOUS
<1> DEFINE new == [peer |-> Sender.from, silence |-> 0,
                   session |-> Sender.session, ip |-> clients[Sender.from]]
<1>1. /\ Handle("REGISTER") /\ sent' = {} /\ nextLobbyId <= MaxLobby
      /\ lobbies' = [l \in DOMAIN lobbies \cup {nextLobbyId} |->
                       IF l = nextLobbyId THEN new ELSE lobbies[l]]
      /\ nextLobbyId' = nextLobbyId + 1 /\ heard' = heard
  BY DEF HandleRegister
<1>2. /\ Take /\ Sender.kind # "DISCONNECT" /\ IsPacket(Sender)
      /\ Sender.from \in Peers /\ Sender.session \in Sessions
  BY <1>1, HandledKind
<1>3. nextLobbyId \in LobbyIds /\ nextLobbyId' \in 1 .. (MaxLobby + 1)
  BY <1>1, Constants DEF Inv, TypeOK, LobbyIds
<1>4. clients[Sender.from] \in Sessions \cup {Nobody}
  BY <1>2 DEF Inv, EnetInv, EnetTypeOK
<1>5. new \in Lobby BY <1>2, <1>4, Constants DEF Lobby
<1>6. /\ DOMAIN lobbies' = DOMAIN lobbies \cup {nextLobbyId}
      /\ lobbies'[nextLobbyId] = new
      /\ \A l \in DOMAIN lobbies : l # nextLobbyId => lobbies'[l] = lobbies[l]
  BY <1>1
<1>7. /\ new.peer = Sender.from /\ new.session = Sender.session
      /\ new.ip = clients[Sender.from]
  OBVIOUS
<1> HIDE DEF new
<1>8. DOMAIN lobbies' \subseteq LobbyIds /\ lobbies' \in [DOMAIN lobbies' -> Lobby]
  BY <1>1, <1>3, <1>5, <1>6 DEF Inv, TypeOK
<1>9. ListedAtItsSlot'
  <2> SUFFICES ASSUME NEW l \in DOMAIN lobbies'
               PROVE  \/ LeavingIn(batch', lobbies'[l].peer, lobbies'[l].session)
                      \/ /\ clients'[lobbies'[l].peer] = lobbies'[l].session
                         /\ lobbies'[l].ip = lobbies'[l].session
    BY DEF ListedAtItsSlot
  <2>1. CASE l = nextLobbyId BY <1>2, <1>6, <1>7, <2>1, Taken
  <2>2. CASE l # nextLobbyId BY <1>2, <1>6, <2>2, StillListed
  <2> QED BY <2>1, <2>2
<1>10. PacketsReachTheirSession' BY <1>1 DEF PacketsReachTheirSession
<1> QED BY <1>1, <1>2, <1>3, <1>8, <1>9, <1>10, HeardTheSame, HandleInv

LEMMA HandleHeartbeatInv == Inv /\ HandleHeartbeat => Inv'
<1> SUFFICES ASSUME Inv, HandleHeartbeat PROVE Inv'
  OBVIOUS
<1>1. /\ Handle("HEARTBEAT") /\ sent' = {} /\ nextLobbyId' = nextLobbyId /\ heard' = heard
      /\ lobbies' = [l \in DOMAIN lobbies |->
                       IF IsFirstOf(l, HostedBy(Sender.from))
                       THEN [lobbies[l] EXCEPT !.silence = 0] ELSE lobbies[l]]
  BY DEF HandleHeartbeat
<1>2. Take /\ Sender.kind # "DISCONNECT" BY <1>1, HandledKind
<1>3. /\ DOMAIN lobbies' = DOMAIN lobbies
      /\ \A l \in DOMAIN lobbies :
           lobbies'[l] = lobbies[l] \/ lobbies'[l] = [lobbies[l] EXCEPT !.silence = 0]
  BY <1>1
<1>4. lobbies' \in [DOMAIN lobbies' -> Lobby]
  <2>1. ASSUME NEW l \in DOMAIN lobbies PROVE lobbies'[l] \in Lobby
    <3>1. lobbies[l] \in Lobby BY DEF Inv, TypeOK
    <3>2. [lobbies[l] EXCEPT !.silence = 0] \in Lobby BY <3>1, Constants DEF Lobby
    <3> QED BY <1>3, <3>1, <3>2
  <2> QED BY <1>1, <2>1
<1>5. ListedAtItsSlot' BY <1>2, <1>3, <1>4, OnlySilence
<1>6. PacketsReachTheirSession' BY <1>1 DEF PacketsReachTheirSession
<1>7. DOMAIN lobbies' \subseteq LobbyIds /\ nextLobbyId' \in 1 .. (MaxLobby + 1)
  BY <1>1, <1>3 DEF Inv, TypeOK
<1> QED BY <1>1, <1>2, <1>4, <1>5, <1>6, <1>7, HeardTheSame, HandleInv

LEMMA HandleListReqInv == Inv /\ HandleListReq => Inv'
<1> SUFFICES ASSUME Inv, HandleListReq PROVE Inv'
  OBVIOUS
<1> DEFINE answer == SendTo(Sender.from, Sender.session)
<1>1. Handle("LIST_REQ") /\ sent' = {answer} /\ UNCHANGED <<directory, heard>> BY DEF HandleListReq
<1>2. /\ Take /\ Sender.kind # "DISCONNECT" /\ IsPacket(Sender)
      /\ Sender.from \in Peers /\ Sender.session \in Sessions
  BY <1>1, HandledKind
<1>3. answer \in Packet /\ Reaches(answer) BY <1>2, Taken, SendReaches
<1> HIDE DEF answer
<1>4. sent' \subseteq Packet /\ PacketsReachTheirSession' BY <1>1, <1>3, SentReaches
<1> QED BY <1>1, <1>2, <1>4, SameDirectory, HeardTheSame, HandleInv

\* What is sent to the host of a lobby reaches it, or it is leaving.
LEMMA HostIsReached ==
  ASSUME Inv, Take, Sender.kind # "DISCONNECT", NEW l \in DOMAIN lobbies
  PROVE  /\ SendTo(lobbies[l].peer, lobbies[l].session) \in Packet
         /\ Reaches(SendTo(lobbies[l].peer, lobbies[l].session))
<1>1. lobbies[l] \in Lobby BY DEF Inv, TypeOK
<1>2. lobbies[l].peer \in Peers /\ lobbies[l].session \in Sessions BY <1>1 DEF Lobby
<1>3. \/ LeavingIn(batch', lobbies[l].peer, lobbies[l].session)
      \/ clients[lobbies[l].peer] = lobbies[l].session
  BY StillListed, Taken
<1> QED BY <1>2, <1>3, SendReaches

LEMMA HandleP2PRequestInv == Inv /\ HandleP2PRequest => Inv'
<1> SUFFICES ASSUME Inv, HandleP2PRequest PROVE Inv'
  OBVIOUS
<1> DEFINE l == Sender.arg
           player == SendTo(Sender.from, Sender.session)
           host == SendTo(lobbies[l].peer, lobbies[l].session)
<1>1. /\ Handle("P2P_REQUEST") /\ UNCHANGED <<directory, heard>>
      /\ \/ sent' = {}
         \/ l \in DOMAIN lobbies /\ sent' = {player, host}
  BY DEF HandleP2PRequest
<1>2. /\ Take /\ Sender.kind # "DISCONNECT" /\ IsPacket(Sender)
      /\ Sender.from \in Peers /\ Sender.session \in Sessions
  BY <1>1, HandledKind
<1>3. player \in Packet /\ Reaches(player) BY <1>2, Taken, SendReaches
<1>4. l \in DOMAIN lobbies => host \in Packet /\ Reaches(host) BY <1>2, HostIsReached
<1> HIDE DEF player, host
<1>5. sent' \subseteq Packet /\ \A m \in sent' : Reaches(m) BY <1>1, <1>3, <1>4
<1>6. PacketsReachTheirSession' BY <1>5, SentReaches
<1> QED BY <1>1, <1>2, <1>5, <1>6, SameDirectory, HeardTheSame, HandleInv

\* The relay id that the host is told is the sender's own.
LEMMA HandleRelayToServerInv == Inv /\ HandleRelayToServer => Inv'
<1> SUFFICES ASSUME Inv, HandleRelayToServer PROVE Inv'
  OBVIOUS
<1> DEFINE l == Sender.arg
           id == [slot |-> Sender.from, session |-> Sender.session]
           host == SendTo(lobbies[l].peer, lobbies[l].session)
<1>1. /\ Handle("RELAY_TO_SERVER") /\ UNCHANGED directory
      /\ \/ sent' = {} /\ heard' = heard
         \/ /\ l \in DOMAIN lobbies /\ sent' = {host}
            /\ heard' = [h \in Sessions |->
                 IF h = clients[lobbies[l].peer] THEN heard[h] \cup {id} ELSE heard[h]]
  BY DEF HandleRelayToServer
<1>2. /\ Take /\ Sender.kind # "DISCONNECT" /\ IsPacket(Sender)
      /\ Sender.from \in Peers /\ Sender.session \in Sessions
  BY <1>1, HandledKind
<1>3. l \in DOMAIN lobbies => host \in Packet /\ Reaches(host) BY <1>2, HostIsReached
<1>4. True(id) /\ \A i : True(i) => True(i)' BY <1>2, Taken
<1> HIDE DEF host
<1>5. sent' \subseteq Packet /\ \A m \in sent' : Reaches(m) BY <1>1, <1>3
<1>6. PacketsReachTheirSession' BY <1>5, SentReaches
<1>7. id \in RelayIds BY <1>4 DEF True
<1> HIDE DEF id
<1>8. heard' \in [Sessions -> SUBSET RelayIds] BY <1>1, <1>7 DEF Inv, TypeOK
<1>9. HeardTrueIds'
  <2>1. \A s \in Sessions : \A i \in heard'[s] : i \in heard[s] \/ i = id BY <1>1
  <2> QED BY <1>4, <2>1 DEF Inv, HeardTrueIds
<1> QED BY <1>1, <1>2, <1>5, <1>6, <1>8, <1>9, SameDirectory, HandleInv

\* If the slot of a true id is not held by the id's session, no slot is.
LEMMA HandleRelayToClientInv == Inv /\ HandleRelayToClient => Inv'
<1> SUFFICES ASSUME Inv, HandleRelayToClient PROVE Inv'
  OBVIOUS
<1> DEFINE id == Sender.arg
           packet == [to |-> clients[id.slot], meant |-> id.session, byId |-> TRUE]
<1>1. /\ Handle("RELAY_TO_CLIENT") /\ UNCHANGED <<directory, heard>>
      /\ sent' = {packet}
  BY DEF HandleRelayToClient
<1>2. Take /\ Sender.kind # "DISCONNECT" BY <1>1, HandledKind
<1>3. True(id) BY <1>1, <1>2, HandledKind, Taken
<1>4. id.slot \in Peers /\ id.session \in Sessions BY <1>3 DEF True, RelayIds
<1>5. clients[id.slot] \in Sessions \cup {Nobody} BY <1>4 DEF Inv, EnetInv, EnetTypeOK
<1>6. packet \in Packet BY <1>4, <1>5 DEF Packet
<1>7. clients[id.slot] # id.session => ~\E p \in Peers : clients'[p] = id.session
  <2>1. clients' = clients BY <1>2 DEF Take
  <2> QED BY <1>3, <2>1 DEF True
<1>8. Reaches(packet) BY <1>7 DEF Reaches
<1> HIDE DEF packet
<1>9. sent' \subseteq Packet /\ PacketsReachTheirSession' BY <1>1, <1>6, <1>8, SentReaches
<1> QED BY <1>1, <1>2, <1>9, SameDirectory, HeardTheSame, HandleInv

LEMMA CleanupInv == Inv /\ Cleanup => Inv'
<1> SUFFICES ASSUME Inv, Cleanup PROVE Inv'
  OBVIOUS
<1>1. /\ batch = <<>> /\ phase' = "poll" /\ sent' = {}
      /\ UNCHANGED <<nextLobbyId, registered, heard, elapsed, enet>>
      /\ sinceCleanup' \in {0, sinceCleanup}
      /\ \/ lobbies' = lobbies
         \/ lobbies' = Without({l \in DOMAIN lobbies : TimedOut(l)})
  BY DEF Cleanup
<1>2. /\ DOMAIN lobbies' \subseteq DOMAIN lobbies /\ lobbies' \in [DOMAIN lobbies' -> Lobby]
      /\ \A l \in DOMAIN lobbies' : lobbies'[l] = lobbies[l]
  BY <1>1 DEF Inv, TypeOK, Without
<1>3. EnetInv(Args)' BY <1>1, EnetStutter DEF Inv
<1>4. TypeOK'
  <2>1. EnetTypeOK(Args)' BY <1>3 DEF EnetInv
  <2> QED BY <1>1, <1>2, <2>1, Constants DEF Inv, TypeOK, Args
<1>5. ListedAtItsSlot' BY <1>1, <1>2 DEF Inv, ListedAtItsSlot, enet
<1>6. PacketsReachTheirSession' BY <1>1 DEF PacketsReachTheirSession
<1> QED BY <1>1, <1>3, <1>4, <1>5, <1>6 DEF Inv, NamesTrueIds, HeardTrueIds, True,
                                                   BatchFits, enet

-----------------------------------------------------------------------------
(* Theorems.                                                               *)

LEMMA NextInv == Inv /\ [Next]_vars => Inv'
<1> SUFFICES ASSUME Inv, [Next]_vars PROVE Inv'
  OBVIOUS
<1>1. CASE HandleMessage
  BY <1>1, HandleConnectInv, HandleDisconnectInv, HandleRegisterInv, HandleHeartbeatInv,
     HandleListReqInv, HandleP2PRequestInv, HandleRelayToServerInv, HandleRelayToClientInv
  DEF HandleMessage
<1>2. CASE UNCHANGED vars
  <2>1. EnetInv(Args)' BY <1>2, EnetStutter DEF Inv, vars
  <2>2. TypeOK'
    <3>1. EnetTypeOK(Args)' BY <2>1 DEF EnetInv
    <3> QED BY <1>2, <3>1 DEF Inv, TypeOK, Args, vars, directory
  <2> QED
    BY <1>2, <2>1, <2>2 DEF Inv, NamesTrueIds, HeardTrueIds, True, BatchFits,
                            ListedAtItsSlot, LeavingIn, PacketsReachTheirSession, Leaving,
                            Connected, vars, directory, enet
<1> QED BY <1>1, <1>2, PollInv, CleanupInv, NetworkInv, TimePassesInv DEF Next, Loop

THEOREM Invariance == Spec => []Inv
BY InitInv, NextInv, PTL DEF Spec

\* The master's state is what its types say; in particular a packet never goes to a
\* slot that does not exist.
THEOREM TypeCorrect == Spec => []TypeOK
<1>1. Inv => TypeOK BY DEF Inv
<1> QED BY <1>1, Invariance, PTL

\* The lobby list: each entry is the session that registered it, under the address of
\* that session, until its DISCONNECT is handled, for any number of slots and sessions.
THEOREM DirectoryCorrect == Spec => []DirectoryAccurate
<1>1. Inv => DirectoryAccurate
  <2> SUFFICES ASSUME Inv PROVE DirectoryAccurate
    OBVIOUS
  <2> DEFINE E == Event
  <2>1. batch \in Seq(E) BY DEF Inv, EnetInv, EnetTypeOK, Event
  <2> HIDE DEF E
  <2>2. DOMAIN batch = 1 .. Len(batch) BY <2>1
  <2> QED BY <2>2 DEF Inv, ListedAtItsSlot, DirectoryAccurate, LeavingIn, Leaving
<1> QED BY <1>1, Invariance, PTL

\* Answers, signals and relayed packets reach the session they are meant for or nobody,
\* or it is out of reach: its DISCONNECT waits in the batch, or a host named it by a
\* relay id after it had gone. While a session holds a slot nothing meant for it goes
\* astray.
THEOREM PacketsCorrect == Spec => []PacketsReachTheirSession
<1>1. Inv => PacketsReachTheirSession BY DEF Inv
<1> QED BY <1>1, Invariance, PTL
=============================================================================
