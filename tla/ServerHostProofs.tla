--------------------------- MODULE ServerHostProofs ---------------------------
(***************************************************************************)
(* Proofs about the server's loop: what stopping leaves, who exists while  *)
(* the master's connection does, and what waves may put on the map.        *)
(***************************************************************************)
EXTENDS ServerHost, EnetProofs, FiniteSetTheorems

-----------------------------------------------------------------------------
(* Stopping.                                                               *)

\* How far Stop has come, the thread and the host agree.
StopInv ==
  /\ caller \in {"closing", "leaving", "stopped"} => thread = "over"
  /\ caller \in {"leaving", "stopped"} =>
       ~hostUp /\ \A p \in Peers : clients[p] = Nobody /\ online[p] = Nobody
  /\ caller = "stopped" => ~link /\ relayClientIds = {}

LEMMA StopStep ==
  ASSUME StopInv, [Next]_vars
  PROVE  StopInv'
<1> USE DEF StopInv, enet, stop, master, wave, world
<1>1. CASE Network BY <1>1 DEF Network
<1>2. CASE MasterLost BY <1>2 DEF MasterLost
<1>3. ASSUME NEW id \in RelayIds, NEW k \in Kinds, MasterRelays(id, k) PROVE StopInv'
  BY <1>3 DEF MasterRelays
<1>4. CASE Start BY <1>4 DEF Start
<1>5. CASE StopCalled BY <1>5 DEF StopCalled
<1>6. CASE Joined BY <1>6 DEF Joined
<1>7. CASE CloseHost BY <1>7 DEF CloseHost, StopHost
<1>8. CASE LeaveMaster BY <1>8 DEF LeaveMaster
<1>9. CASE RegisterWithMaster BY <1>9 DEF RegisterWithMaster
<1>10. CASE LoopEnds BY <1>10 DEF LoopEnds
<1>11. CASE Poll BY <1>11 DEF Poll, PollHost
<1>12. CASE PollMaster BY <1>12 DEF PollMaster
<1>13. CASE World BY <1>13 DEF World
<1>14. CASE Update BY <1>14 DEF Update
<1>15. ASSUME NEW p \in Peers, NEW s \in Sessions,
              HandleConnect(p, s) \/ HandleDisconnect(p, s) \/ HandleData(p, s)
       PROVE  StopInv'
  BY <1>15 DEF HandleConnect, HandleDisconnect, HandleData, Handle, Take
<1>16. ASSUME NEW id \in RelayIds, NEW k \in Kinds, HandleRelay(id, k) PROVE StopInv'
  BY <1>16 DEF HandleRelay, HandleMaster
<1>17. CASE HandleMasterLost BY <1>17 DEF HandleMasterLost, HandleMaster
<1>18. CASE UNCHANGED vars BY <1>18 DEF vars
<1> QED
  BY <1>1, <1>2, <1>3, <1>4, <1>5, <1>6, <1>7, <1>8, <1>9, <1>10, <1>11, <1>12, <1>13, <1>14,
     <1>15, <1>16, <1>17, <1>18 DEF Next, Stop, Thread, ServerLoop

\* After Stop nothing is left of the server: no thread, no host, no client, no link to
\* the master; whoever starts another one starts from nothing.
THEOREM StopCorrect == Spec => []StoppedIsClean
<1>1. Init => StopInv BY DEF Init, EnetInit, StopInv
<1>2. StopInv /\ [Next]_vars => StopInv' BY StopStep
<1>3. StopInv => StoppedIsClean BY DEF StopInv, StoppedIsClean
<1> QED BY <1>1, <1>2, <1>3, PTL DEF Spec

-----------------------------------------------------------------------------
(* The number of enemies.                                                  *)

EnemyInv ==
  /\ enemies \in Nat /\ invited \in 0 .. MaxInvited /\ waveCount \in 1 .. MaxWave
  /\ EnemiesBounded

LEMMA WaveSizeBound ==
  ASSUME NEW w \in Nat
  PROVE  WaveSize(w) \in 0 .. (SpawnCap + 1)
<1> DEFINE n == SpawnBase + SpawnStep * w
<1>1. SpawnBase \in Nat /\ SpawnStep \in Nat /\ SpawnCap \in Nat BY HostAssumption
<1>2. n \in Nat BY <1>1
<1> HIDE DEF n
<1>3. Capped(n, SpawnCap) \in 0 .. SpawnCap BY <1>1, <1>2 DEF Capped
<1> QED BY <1>1, <1>3 DEF WaveSize, n

LEMMA ChangeWorldEnemies ==
  ASSUME EnemyInv, ChangeWorld
  PROVE  enemies' \in Nat /\ invited' \in 0 .. MaxInvited
         /\ enemies' <= EnemyCap + SpawnCap + invited'
<1>1. EnemyCap \in Nat /\ SpawnCap \in Nat /\ MaxInvited \in Nat BY HostAssumption
<1> QED BY <1>1 DEF ChangeWorld, EnemyInv, EnemiesBounded, world

LEMMA EnemyStep ==
  ASSUME EnemyInv, [Next]_vars
  PROVE  EnemyInv'
<1> DEFINE Same == UNCHANGED <<enemies, invited, waveCount>>
<1>0. /\ EnemyCap \in Nat /\ SpawnCap \in Nat /\ MaxInvited \in Nat
      /\ MaxWave \in Nat /\ MaxWave > 0
  BY HostAssumption
<1>1. ASSUME Same PROVE EnemyInv' BY <1>1 DEF EnemyInv, EnemiesBounded
<1>2. CASE \/ Network \/ MasterLost \/ Start \/ StopCalled \/ Stop
           \/ \E id \in RelayIds, k \in Kinds : MasterRelays(id, k)
  <2>1. Same
    BY <1>2 DEF Network, MasterLost, Start, StopCalled, Stop, Joined, CloseHost, LeaveMaster,
                MasterRelays, wave, world
  <2> QED BY <1>1, <2>1
<1>3. CASE RegisterWithMaster \/ LoopEnds \/ Poll \/ PollMaster
  <2>1. Same BY <1>3 DEF RegisterWithMaster, LoopEnds, Poll, PollMaster, wave, world
  <2> QED BY <1>1, <2>1
<1>4. CASE HandleMasterLost
  <2>1. Same BY <1>4 DEF HandleMasterLost, HandleMaster, wave, world
  <2> QED BY <1>1, <2>1
<1>5. ASSUME NEW p \in Peers, NEW s \in Sessions, HandleConnect(p, s) \/ HandleDisconnect(p, s)
      PROVE  EnemyInv'
  <2>1. Same BY <1>5 DEF HandleConnect, HandleDisconnect, Handle, wave, world
  <2> QED BY <1>1, <2>1
<1>6. ASSUME NEW p, NEW s, NEW k, ProcessGamePacket(p, s, k), UNCHANGED wave
      PROVE  EnemyInv'
  <2>1. UNCHANGED world \/ ChangeWorld BY <1>6 DEF ProcessGamePacket
  <2>2. waveCount' = waveCount BY <1>6 DEF wave
  <2>3. CASE UNCHANGED world BY <1>1, <2>2, <2>3 DEF world
  <2>4. CASE ChangeWorld
    BY <2>2, <2>4, ChangeWorldEnemies DEF EnemyInv, EnemiesBounded
  <2> QED BY <2>1, <2>3, <2>4
<1>7. ASSUME NEW p \in Peers, NEW s \in Sessions, HandleData(p, s) PROVE EnemyInv'
  BY <1>6, <1>7 DEF HandleData, Handle
<1>8. ASSUME NEW id \in RelayIds, NEW k \in Kinds, HandleRelay(id, k) PROVE EnemyInv'
  BY <1>6, <1>8 DEF HandleRelay, HandleMaster
<1>9. CASE World
  <2>1. ASSUME EmptyWorld PROVE EnemyInv'
    BY <1>0, <2>1 DEF EmptyWorld, EnemyInv, EnemiesBounded
  <2>2. ASSUME WaitForWave PROVE EnemyInv'
    BY <1>1, <2>2 DEF WaitForWave, world
  <2>3. ASSUME WaveIsDue PROVE EnemyInv'
    <3>1. invited' = invited /\ AddWave BY <2>3 DEF WaveIsDue
    <3>2. CASE enemies < EnemyCap
      <4>1. enemies' = enemies + WaveSize(waveCount) /\ waveCount' = NextWave
        BY <3>1, <3>2 DEF AddWave
      <4>2. waveCount \in Nat /\ waveCount \in 1 .. MaxWave BY DEF EnemyInv
      <4>3. WaveSize(waveCount) \in 0 .. (SpawnCap + 1) BY <4>2, WaveSizeBound
      <4>4. waveCount' \in 1 .. MaxWave BY <1>0, <4>1, <4>2 DEF NextWave, Capped
      <4>5. enemies \in Nat /\ invited \in 0 .. MaxInvited BY DEF EnemyInv
      <4>6. enemies' \in Nat /\ enemies' <= EnemyCap + SpawnCap + invited
        BY <1>0, <3>2, <4>1, <4>3, <4>5
      <4> QED BY <3>1, <4>4, <4>5, <4>6 DEF EnemyInv, EnemiesBounded
    <3>3. CASE ~(enemies < EnemyCap) BY <1>1, <3>1, <3>3 DEF AddWave
    <3> QED BY <3>2, <3>3
  <2> QED BY <1>9, <2>1, <2>2, <2>3 DEF World
<1>10. CASE Update
  <2>1. /\ waveCount' = waveCount /\ invited' = invited
        /\ enemies' \in 0 .. enemies
    BY <1>10 DEF Update, wave
  <2> QED BY <1>0, <2>1 DEF EnemyInv, EnemiesBounded
<1>11. CASE UNCHANGED vars BY <1>1, <1>11 DEF vars, wave, world
<1> QED
  BY <1>2, <1>3, <1>4, <1>5, <1>7, <1>8, <1>9, <1>10, <1>11 DEF Next, Thread, ServerLoop

LEMMA EnemyInvHolds == Spec => []EnemyInv
<1>1. Init => EnemyInv BY HostAssumption DEF Init, EnemyInv, EnemiesBounded
<1> QED BY <1>1, EnemyStep, PTL DEF Spec

\* The 120 enemies at which ServerLoop stops adding waves, and the 60 of a wave, bound
\* what is on the map, whatever dies, is put off or starts over in between.
THEOREM EnemiesCorrect == Spec => []EnemiesBounded
<1>1. EnemyInv => EnemiesBounded BY DEF EnemyInv
<1> QED BY <1>1, EnemyInvHolds, PTL

-----------------------------------------------------------------------------
(* An empty world.                                                         *)

\* Before the loop's first iteration there is nothing to reset.
EmptyInv ==
  /\ thread \in {"none", "register"} => waveCount = 1 /\ enemies = 0 /\ others = {}
  /\ EmptyWorldIsReset

LEMMA EmptyStep ==
  ASSUME StopInv, EnemyInv, EmptyInv, [Next]_vars
  PROVE  EmptyInv'
<1> USE DEF EmptyInv, EmptyWorldIsReset
<1>1. ASSUME UNCHANGED <<thread, waveCount, enemies, others, TotalClients>>, hostUp' => hostUp
      PROVE  EmptyInv'
  BY <1>1
<1>2. CASE Network
  BY <1>1, <1>2 DEF Network, Arrive, Drop, Lose, Say, stop, wave, world, master, TotalClients, NumClients
<1>3. CASE MasterLost
  BY <1>1, <1>3 DEF MasterLost, enet, stop, wave, world, TotalClients, NumClients
<1>4. ASSUME NEW id \in RelayIds, NEW k \in Kinds, MasterRelays(id, k) PROVE EmptyInv'
  BY <1>1, <1>4 DEF MasterRelays, enet, stop, wave, world, TotalClients, NumClients
<1>5. CASE Start BY <1>5 DEF Start, wave, world
<1>6. CASE StopCalled \/ Joined
  BY <1>1, <1>6 DEF StopCalled, Joined, enet, master, wave, world, TotalClients, NumClients
<1>7. CASE CloseHost BY <1>7 DEF CloseHost, wave, world
<1>8. CASE LeaveMaster
  <2>1. ~hostUp /\ ~hostUp' BY <1>8 DEF LeaveMaster, StopInv
  <2> QED BY <1>8, <2>1 DEF LeaveMaster, wave, world
<1>9. CASE RegisterWithMaster BY <1>9 DEF RegisterWithMaster, wave, world
<1>10. CASE LoopEnds
  BY <1>10 DEF LoopEnds, enet, stop, master, wave, world, TotalClients, NumClients
<1>11. CASE Poll \/ PollMaster BY <1>11 DEF Poll, PollMaster
<1>12. ASSUME NEW p \in Peers, NEW s \in Sessions,
              HandleConnect(p, s) \/ HandleDisconnect(p, s) \/ HandleData(p, s)
       PROVE  EmptyInv'
  BY <1>12 DEF HandleConnect, HandleDisconnect, HandleData, Handle
<1>13. ASSUME NEW id \in RelayIds, NEW k \in Kinds, HandleRelay(id, k) PROVE EmptyInv'
  BY <1>13 DEF HandleRelay, HandleMaster
<1>14. CASE HandleMasterLost BY <1>14 DEF HandleMasterLost, HandleMaster
<1>15. CASE World
  <2>1. TotalClients' = TotalClients /\ thread' = "update"
    BY <1>15 DEF World, enet, master, TotalClients, NumClients
  <2>2. CASE EmptyWorld
    <3>1. enemies \in Nat /\ waveCount \in Nat /\ waveCount >= 1
      BY HostAssumption DEF EnemyInv
    <3>2. waveCount' = 1 /\ enemies' = 0 /\ "bullet" \notin others'
      BY <2>2, <3>1 DEF EmptyWorld, HasEntities
    <3> QED BY <2>1, <3>2
  <2>3. CASE WaitForWave \/ WaveIsDue
    <3>1. TotalClients > 0 BY <2>3 DEF WaitForWave, WaveIsDue
    <3>2. TotalClients # 0
      <4> DEFINE n == TotalClients
      <4>1. n > 0 BY <3>1
      <4> HIDE DEF n
      <4>2. n # 0 BY <4>1
      <4> QED BY <4>2 DEF n
    <3> QED BY <2>1, <3>2
  <2> QED BY <1>15, <2>2, <2>3 DEF World
<1>16. CASE Update
  <2>1. /\ TotalClients' = TotalClients /\ waveCount' = waveCount /\ hostUp' = hostUp
        /\ thread = "update" /\ thread' = "poll"
        /\ enemies' \in 0 .. enemies
        /\ "bullet" \in others' => "bullet" \in others \/ TotalClients > 0 \/ enemies > 0
    BY <1>16 DEF Update, enet, stop, master, wave, TotalClients, NumClients
  <2> QED BY <2>1
<1>17. CASE UNCHANGED vars
  BY <1>1, <1>17 DEF vars, enet, stop, master, wave, world, TotalClients, NumClients
<1> QED
  BY <1>2, <1>3, <1>4, <1>5, <1>6, <1>7, <1>8, <1>9, <1>10, <1>11, <1>12, <1>13, <1>14, <1>15,
     <1>16, <1>17 DEF Next, Stop, Thread, ServerLoop

\* ServerLoop's branch for zero clients leaves nothing of the last game, whatever the
\* order of disconnects, ticks and waves before it.
THEOREM EmptyCorrect == Spec => []EmptyWorldIsReset
<1>1. Init => EmptyInv BY DEF Init, EmptyInv, EmptyWorldIsReset
<1>2. Init => StopInv BY DEF Init, EnetInit, StopInv
<1>3. EmptyInv => EmptyWorldIsReset BY DEF EmptyInv
<1> QED BY <1>1, <1>2, <1>3, StopStep, EnemyInvHolds, EmptyStep, PTL DEF Spec

-----------------------------------------------------------------------------
(* The master's connection.                                                *)

LossIn(q) == \E i \in 1 .. Len(q) : q[i] = Lost

\* The loss is the last the master's connection gives, and only there while the
\* connection is down.
LossIsLast ==
  /\ \A i \in 1 .. Len(masterWire) : masterWire[i] = Lost => i = Len(masterWire) /\ ~link
  /\ \A i \in 1 .. Len(masterBatch) :
       masterBatch[i] = Lost => i = Len(masterBatch) /\ ~link /\ masterWire = <<>>

\* Whatever is left to handle, the loss is in it or is yet to come.
LossIsAhead ==
  (masterWire # <<>> \/ masterBatch # <<>> \/ \E id \in RelayIds : players[id] # Nobody) =>
    link \/ LossIn(masterWire) \/ LossIn(masterBatch)

RelayInv ==
  /\ players \in [Ids -> Sessions \cup {Nobody, Relayed}]
  /\ masterWire \in Seq(MasterEvent) /\ masterBatch \in Seq(MasterEvent)
  /\ thread # "relay" => masterBatch = <<>>
  /\ thread \in {"none", "register"} => ~link /\ masterWire = <<>>
  /\ LossIsLast
  /\ caller \notin {"leaving", "stopped"} =>
       /\ LossIsAhead
       /\ \A id \in RelayIds : players[id] # Nobody => id \in relayClientIds

\* One more event at the end of what the master sent.
LEMMA AppendLoss ==
  ASSUME NEW q \in Seq(MasterEvent), NEW e \in MasterEvent
  PROVE  /\ Append(q, e) \in Seq(MasterEvent) /\ Append(q, e) # <<>>
         /\ Len(Append(q, e)) = Len(q) + 1
         /\ \A i \in 1 .. Len(q) : Append(q, e)[i] = q[i]
         /\ Append(q, e)[Len(q) + 1] = e
         /\ LossIn(Append(q, e)) <=> LossIn(q) \/ e = Lost
<1> DEFINE S == MasterEvent
<1> HIDE DEF S
<1>1. q \in Seq(S) /\ e \in S BY DEF S
<1>2. /\ Append(q, e) \in Seq(S) /\ Append(q, e) # <<>> /\ Len(Append(q, e)) = Len(q) + 1
      /\ \A i \in 1 .. Len(q) : Append(q, e)[i] = q[i]
      /\ Append(q, e)[Len(q) + 1] = e
      /\ Len(q) \in Nat
  BY <1>1, AppendProperties
<1>3. LossIn(Append(q, e)) <=> LossIn(q) \/ e = Lost BY <1>2 DEF LossIn
<1> QED BY <1>2, <1>3 DEF S

\* What is left of a batch when its first event is taken.
LEMMA TailLoss ==
  ASSUME NEW q \in Seq(MasterEvent), q # <<>>
  PROVE  /\ Tail(q) \in Seq(MasterEvent) /\ Len(Tail(q)) = Len(q) - 1 /\ Len(q) >= 1
         /\ \A i \in 1 .. Len(Tail(q)) : Tail(q)[i] = q[i + 1]
         /\ Head(q) = q[1]
         /\ Head(q) # Lost => (LossIn(Tail(q)) <=> LossIn(q))
<1> DEFINE S == MasterEvent
<1> HIDE DEF S
<1>1. q \in Seq(S) /\ q # <<>> BY DEF S
<1>2. /\ Tail(q) \in Seq(S) /\ Len(Tail(q)) = Len(q) - 1 /\ Len(q) >= 1 /\ Len(q) \in Nat
      /\ \A i \in 1 .. Len(Tail(q)) : Tail(q)[i] = q[i + 1]
      /\ Head(q) = q[1]
  BY <1>1
<1>3. ASSUME LossIn(Tail(q)) PROVE LossIn(q) BY <1>2, <1>3 DEF LossIn
<1>4. ASSUME LossIn(q), Head(q) # Lost PROVE LossIn(Tail(q))
  <2>1. PICK i \in 1 .. Len(q) : q[i] = Lost BY <1>4 DEF LossIn
  <2>2. i # 1 BY <1>2, <1>4, <2>1
  <2>3. (i - 1) \in 1 .. Len(Tail(q)) /\ (i - 1) + 1 = i BY <1>2, <2>1, <2>2
  <2>4. Tail(q)[i - 1] = Lost BY <1>2, <2>1, <2>3
  <2> QED BY <2>3, <2>4 DEF LossIn
<1> QED BY <1>2, <1>3, <1>4 DEF S

LEMMA RelayStep ==
  ASSUME StopInv, RelayInv, [Next]_vars
  PROVE  RelayInv'
<1> USE DEF RelayInv
<1>0. Peers \cap RelayIds = {} /\ Peers \subseteq Ids /\ RelayIds \subseteq Ids
  BY HostAssumption DEF Ids
<1>1. ASSUME UNCHANGED <<players, relayClientIds, link, masterWire, masterBatch>>,
             thread' \in {"none", "register"} => thread \in {"none", "register"},
             thread = "relay" => thread' = "relay" \/ masterBatch = <<>>,
             caller \in {"leaving", "stopped"} => caller' \in {"leaving", "stopped"}
      PROVE  RelayInv'
  BY <1>1 DEF LossIsLast, LossIsAhead, LossIn
<1>2. CASE Network BY <1>1, <1>2 DEF Network, stop, master
<1>3. CASE MasterLost
  <2>1. Lost \in MasterEvent BY DEF MasterEvent
  <2>2. /\ link /\ ~link' /\ masterWire' = Append(masterWire, Lost)
        /\ UNCHANGED <<players, relayClientIds, masterBatch, thread, caller>>
    BY <1>3 DEF MasterLost, stop
  <2>3. /\ Len(masterWire) \in Nat
        /\ \A i \in 1 .. Len(masterWire) : masterWire[i] # Lost
        /\ \A i \in 1 .. Len(masterBatch) : masterBatch[i] # Lost
    BY <2>2 DEF LossIsLast
  <2>4. masterWire' \in Seq(MasterEvent) /\ LossIn(masterWire') BY <2>1, <2>2, AppendLoss
  <2>5. LossIsLast'
    BY <2>1, <2>2, <2>3, AppendLoss DEF LossIsLast
  <2>6. LossIsAhead' BY <2>4 DEF LossIsAhead, LossIn
  <2> QED BY <2>2, <2>4, <2>5, <2>6
<1>4. ASSUME NEW id \in RelayIds, NEW k \in Kinds, MasterRelays(id, k) PROVE RelayInv'
  <2> DEFINE e == [kind |-> k, id |-> id]
  <2>1. e \in MasterEvent BY DEF MasterEvent
  <2>2. /\ link /\ link' = link /\ masterWire' = Append(masterWire, e)
        /\ UNCHANGED <<players, relayClientIds, masterBatch, thread, caller>>
    BY <1>4 DEF MasterRelays, stop
  <2>3. e # Lost
    <3>1. k # "LOST" \/ id # Nobody BY HostAssumption
    <3> QED BY <3>1 DEF Lost
  <2> HIDE DEF e
  <2>4. /\ \A i \in 1 .. Len(masterWire) : masterWire[i] # Lost
        /\ \A i \in 1 .. Len(masterBatch) : masterBatch[i] # Lost
        /\ Len(masterWire) \in Nat
    BY <2>2 DEF LossIsLast
  <2>5. masterWire' \in Seq(MasterEvent) BY <2>1, <2>2, AppendLoss
  <2>6. LossIsLast' BY <2>1, <2>2, <2>3, <2>4, AppendLoss DEF LossIsLast
  <2>7. LossIsAhead' BY <2>2 DEF LossIsAhead
  <2> QED BY <2>2, <2>5, <2>6, <2>7
<1>5. CASE Start \/ StopCalled \/ Joined
  BY <1>1, <1>5 DEF Start, StopCalled, Joined, master
<1>6. CASE CloseHost BY <1>1, <1>6 DEF CloseHost, master
<1>7. CASE LeaveMaster
  <2>1. /\ thread = "over" /\ thread' = thread /\ caller' = "stopped"
        /\ masterBatch' = masterBatch /\ masterWire' = <<>> /\ players' = players
    BY <1>7 DEF LeaveMaster, StopInv
  <2>2. masterBatch = <<>> BY <2>1
  <2>3. LossIsLast' BY <2>1, <2>2 DEF LossIsLast
  <2> QED BY <2>1, <2>2, <2>3
<1>8. CASE RegisterWithMaster
  <2>1. /\ thread = "register" /\ thread' = "poll"
        /\ UNCHANGED <<players, relayClientIds, masterBatch, masterWire, caller>>
    BY <1>8 DEF RegisterWithMaster, stop
  <2>2. ~link /\ masterWire = <<>> /\ masterBatch = <<>> BY <2>1
  <2>3. LossIsLast' BY <2>1, <2>2 DEF LossIsLast
  <2>4. LossIsAhead => LossIsAhead' BY <2>1, <2>2 DEF LossIsAhead, LossIn
  <2> QED BY <2>1, <2>2, <2>3, <2>4
<1>9. CASE LoopEnds \/ Poll \/ Update
  BY <1>1, <1>9 DEF LoopEnds, Poll, Update, stop, master
<1>10. CASE PollMaster
  <2>1. /\ thread = "direct" /\ thread' = "relay"
        /\ masterBatch' = masterWire /\ masterWire' = <<>>
        /\ UNCHANGED <<players, relayClientIds, link, caller>>
    BY <1>10 DEF PollMaster, stop
  <2>2. masterBatch = <<>> BY <2>1
  <2>3. LossIsLast' BY <2>1 DEF LossIsLast
  <2>4. LossIsAhead => LossIsAhead' BY <2>1, <2>2 DEF LossIsAhead, LossIn
  <2> QED BY <2>1, <2>2, <2>3, <2>4
<1>11. CASE World BY <1>1, <1>11 DEF World, stop, master
\* A direct client's message: the relay's players stay.
<1>12. ASSUME NEW p \in Peers, NEW s \in Sessions,
              HandleConnect(p, s) \/ HandleDisconnect(p, s) \/ HandleData(p, s)
       PROVE  RelayInv'
  <2>1. /\ UNCHANGED <<relayClientIds, link, masterWire, masterBatch, thread, caller>>
        /\ \/ players' = players
           \/ \E v \in {s, Nobody} : players' = [players EXCEPT ![p] = v]
    BY <1>12 DEF HandleConnect, HandleDisconnect, HandleData, Handle, ProcessGamePacket, stop, master
  <2>2. /\ players' \in [Ids -> Sessions \cup {Nobody, Relayed}]
        /\ \A id \in RelayIds : players'[id] = players[id]
    BY <1>0, <2>1
  <2>3. LossIsLast' /\ (LossIsAhead => LossIsAhead')
    BY <2>1, <2>2 DEF LossIsLast, LossIsAhead, LossIn
  <2> QED BY <2>1, <2>2, <2>3
<1>13. ASSUME NEW id \in RelayIds, NEW k \in Kinds, HandleRelay(id, k) PROVE RelayInv'
  <2> DEFINE e == [kind |-> k, id |-> id]
  <2>1. /\ masterBatch # <<>> /\ Head(masterBatch) = e /\ masterBatch' = Tail(masterBatch)
        /\ relayClientIds' = relayClientIds \cup {id}
        /\ thread = "relay" /\ UNCHANGED <<link, masterWire, thread, caller>>
        /\ \/ players' = players
           \/ players' = [players EXCEPT ![id] = Relayed]
    BY <1>13 DEF HandleRelay, HandleMaster, ProcessGamePacket, stop
  <2>2. e # Lost
    <3>1. k # "LOST" BY HostAssumption
    <3> QED BY <3>1 DEF Lost
  <2> HIDE DEF e
  <2>3. /\ players' \in [Ids -> Sessions \cup {Nobody, Relayed}]
        /\ \A i \in RelayIds : players'[i] = players[i] \/ i = id
    BY <1>0, <2>1
  <2>4. /\ masterBatch' \in Seq(MasterEvent) /\ (LossIn(masterBatch') <=> LossIn(masterBatch))
        /\ Len(masterBatch') = Len(masterBatch) - 1 /\ Len(masterBatch) \in Nat
        /\ \A i \in 1 .. Len(masterBatch') : masterBatch'[i] = masterBatch[i + 1]
    BY <2>1, <2>2, TailLoss
  <2>5. LossIsLast'
    <3>1. ASSUME NEW i \in 1 .. Len(masterBatch'), masterBatch'[i] = Lost
          PROVE  i = Len(masterBatch') /\ ~link /\ masterWire = <<>>
      <4>1. i + 1 \in 1 .. Len(masterBatch) /\ masterBatch[i + 1] = Lost BY <2>4, <3>1
      <4>2. i + 1 = Len(masterBatch) /\ ~link /\ masterWire = <<>> BY <4>1 DEF LossIsLast
      <4> QED BY <2>4, <4>2
    <3>2. masterWire' = masterWire /\ link' = link BY <2>1
    <3> QED BY <3>1, <3>2 DEF LossIsLast
  <2>6. LossIsAhead => LossIsAhead' BY <2>1, <2>4 DEF LossIsAhead, LossIn
  <2> QED BY <2>1, <2>3, <2>4, <2>5, <2>6
\* The loss: nothing follows it, and it takes the relay's players along.
<1>14. CASE HandleMasterLost
  <2>1. /\ masterBatch # <<>> /\ Head(masterBatch) = Lost /\ masterBatch' = Tail(masterBatch)
        /\ relayClientIds' = {}
        /\ players' = [i \in Ids |-> IF i \in relayClientIds THEN Nobody ELSE players[i]]
        /\ thread = "relay" /\ UNCHANGED <<link, masterWire, thread, caller>>
    BY <1>14 DEF HandleMasterLost, HandleMaster, stop
  <2>2. /\ Len(masterBatch) \in Nat /\ Len(masterBatch) >= 1 /\ masterBatch[1] = Lost
        /\ masterBatch' \in Seq(MasterEvent) /\ Len(masterBatch') = Len(masterBatch) - 1
    BY <2>1, TailLoss
  <2>3. Len(masterBatch) = 1 /\ masterWire = <<>> BY <2>2 DEF LossIsLast
  <2>4. masterBatch' = <<>> BY <2>2, <2>3
  <2>5. players' \in [Ids -> Sessions \cup {Nobody, Relayed}] BY <2>1
  <2>6. LossIsLast' BY <2>1, <2>3, <2>4 DEF LossIsLast
  <2>7. caller \notin {"leaving", "stopped"} => \A id \in RelayIds : players'[id] = Nobody
    BY <1>0, <2>1
  <2> QED BY <2>1, <2>3, <2>4, <2>5, <2>6, <2>7 DEF LossIsAhead
<1>15. CASE UNCHANGED vars BY <1>1, <1>15 DEF vars, stop, master
<1> QED
  BY <1>2, <1>3, <1>4, <1>5, <1>6, <1>7, <1>8, <1>9, <1>10, <1>11, <1>12, <1>13, <1>14, <1>15
  DEF Next, Stop, Thread, ServerLoop

LEMMA RelayInit == Init => RelayInv
<1> SUFFICES ASSUME Init PROVE RelayInv
  OBVIOUS
<1>1. /\ players = [i \in Ids |-> Nobody] /\ masterWire = <<>> /\ masterBatch = <<>>
      /\ ~link /\ thread = "none"
  BY DEF Init
<1>2. \A id \in RelayIds : players[id] = Nobody BY <1>1 DEF Ids
<1>3. players \in [Ids -> Sessions \cup {Nobody, Relayed}] BY <1>1
<1>4. masterWire \in Seq(MasterEvent) /\ masterBatch \in Seq(MasterEvent) BY <1>1
<1>5. LossIsLast /\ LossIsAhead BY <1>1, <1>2 DEF LossIsLast, LossIsAhead
<1> QED BY <1>1, <1>2, <1>3, <1>4, <1>5 DEF RelayInv

\* A relayed player leaves the world with the master's connection at the latest: the
\* loss that ends it is never behind a message that would bring the player back.
THEOREM RelayCorrect == Spec => []RelayPlayersNeedTheMaster
<1>1. Init => StopInv BY DEF Init, EnetInit, StopInv
<1>2. RelayInv => RelayPlayersNeedTheMaster
  <2>1. ASSUME NEW q \in Seq(MasterEvent), LossIn(q) PROVE Lost \in {q[i] : i \in DOMAIN q}
    BY <2>1 DEF LossIn
  <2> QED BY <2>1 DEF RelayInv, RelayPlayersNeedTheMaster, LossIsAhead
<1> QED BY <1>1, <1>2, RelayInit, StopStep, RelayStep, PTL DEF Spec

-----------------------------------------------------------------------------
(* Sessions.                                                               *)

Args == {Nobody}
Event == EventWith(Args)

\* The players of direct clients, as holders of the slots.
Direct == [p \in Peers |-> players[p]]

\* Session s gets its slot among the events q.
ConnectIn(q, s) == \E i \in 1 .. Len(q) : Connects(q[i], s)

\* What is left of the batch leads from the players there are to clients_: that is why
\* a CONNECT finds no player, and a DISCONNECT or a packet the player of its session.
SessionInv ==
  /\ EnetInv(Args)
  /\ thread # "direct" => batch = <<>>
  /\ relayClientIds \subseteq RelayIds
  /\ IsOpen => Leads(batch, Direct, clients)
  /\ \A p \in Peers : clients[p] # Nobody =>
       clients[p] \in told \/ ConnectIn(batch, clients[p])

LEMMA SessionInit == Init => SessionInv
<1> SUFFICES ASSUME Init PROVE SessionInv
  OBVIOUS
<1>1. EnetInv(Args) BY EnetInitInv DEF Init
<1>2. /\ batch = <<>> /\ clients \in Holders /\ Direct = clients
      /\ \A p \in Peers : clients[p] = Nobody
  BY DEF Init, EnetInit, Holders, Direct, Ids
<1>3. Leads(batch, Direct, clients) BY <1>2, LeadsNowhere
<1> QED BY <1>1, <1>2, <1>3 DEF SessionInv, Init

\* Steps that leave clients, batch and direct players as they are.
LEMMA SessionKeeps ==
  ASSUME SessionInv, EnetInv(Args)', UNCHANGED <<clients, batch, Direct, told>>,
         thread' # "direct" => thread # "direct" \/ batch = <<>>,
         IsOpen' => IsOpen, relayClientIds' \subseteq RelayIds
  PROVE  SessionInv'
BY DEF SessionInv

\* Polling: who gets a slot has its CONNECT in the new batch.
LEMMA SessionPoll ==
  ASSUME StopInv, SessionInv, Poll
  PROVE  SessionInv'
<1> DEFINE E == Event
<1>1. /\ thread = "poll" /\ thread' = "direct" /\ PollHost /\ batch = <<>> /\ EnetInv(Args)
      /\ UNCHANGED <<players, relayClientIds, told, caller>>
  BY DEF Poll, SessionInv, master, stop
<1>2. EnetInv(Args)' /\ clients' = online /\ Leads(batch', clients, clients')
  BY <1>1, PollHostInv
<1>3. IsOpen BY <1>1 DEF StopInv, IsOpen
<1>4. wire \in Seq(E) /\ clients \in Holders
  BY <1>1 DEF EnetInv, EnetTypeOK, Event, Holders
<1>5. Direct' = Direct /\ Direct = clients
  <2>1. Leads(<<>>, Direct, clients) BY <1>1, <1>3 DEF SessionInv
  <2>2. Direct = clients BY <2>1, LeadsNowhere
  <2> QED BY <1>1, <2>2 DEF Direct
<1> HIDE DEF E
<1>6. ASSUME NEW p \in Peers, clients'[p] # Nobody
      PROVE  clients'[p] \in told \/ ConnectIn(batch', clients'[p])
  <2>1. clients'[p] = After(wire, p, clients[p]) /\ batch' = wire BY <1>1 DEF PollHost
  <2>2. CASE Presence(wire, p) = {}
    <3>1. clients'[p] = clients[p] BY <2>1, <2>2 DEF After
    <3>2. Len(batch) = 0 BY <1>1
    <3> QED BY <1>6, <3>1, <3>2 DEF SessionInv, ConnectIn
  <2>3. CASE Presence(wire, p) # {}
    <3>1. PICK i \in Presence(wire, p) : LastPresence(wire, p) = wire[i]
      BY <1>4, <2>3, LastIsLast
    <3>2. wire[i].kind = "CONNECT" /\ clients'[p] = wire[i].session
      BY <1>6, <2>1, <2>3, <3>1 DEF After
    <3>3. i \in 1 .. Len(wire) BY <1>4, <3>1 DEF Presence
    <3> QED BY <2>1, <3>2, <3>3 DEF ConnectIn, Connects
  <2> QED BY <2>2, <2>3
<1> QED BY <1>1, <1>2, <1>5, <1>6 DEF SessionInv

\* What a message of the batch finds, and what is left when it is taken.
LEMMA Handled ==
  ASSUME StopInv, SessionInv, NEW k, NEW p \in Peers, NEW s \in Sessions, Handle(k, p, s)
  PROVE  /\ EnetInv(Args)' /\ IsOpen /\ UNCHANGED <<clients, caller, thread, relayClientIds>>
         /\ UNCHANGED <<wire, online, lastSession>>
         /\ Len(batch) >= 1
         /\ batch[1] = [kind |-> k, from |-> p, session |-> s, arg |-> Nobody]
         /\ \A r : ConnectIn(batch, r) <=> ConnectIn(batch', r) \/ (k = "CONNECT" /\ r = s)
         /\ k = "CONNECT" => ~ConnectIn(batch', s) /\ ~ConnectIn(wire, s)
         /\ At(s, p)
         /\ \E f \in Holders :
              Applies(batch[1], Direct, f) /\ Leads(batch', f, clients)
<1> DEFINE E == Event
           e == [kind |-> k, from |-> p, session |-> s, arg |-> Nobody]
<1>1. /\ EnetInv(Args) /\ batch \in Seq(E) /\ batch # <<>> /\ batch' = Tail(batch)
      /\ thread = "direct" /\ Take /\ Head(batch) = e
      /\ UNCHANGED <<clients, wire, online, lastSession, caller, thread, relayClientIds>>
  BY DEF Handle, Take, SessionInv, EnetInv, EnetTypeOK, Event, stop, master
<1>2. EnetInv(Args)' BY <1>1, TakeInv
<1>3. IsOpen BY <1>1 DEF StopInv, IsOpen
<1> HIDE DEF E
<1>4. /\ Head(batch) = batch[1] /\ Len(batch) \in Nat /\ Len(batch) >= 1
      /\ batch' \in Seq(E) /\ Len(batch') = Len(batch) - 1
      /\ \A i \in 1 .. Len(batch') : i + 1 \in 1 .. Len(batch) /\ batch'[i] = batch[i + 1]
  BY <1>1
<1>5. ASSUME NEW r, ConnectIn(batch, r), ~(k = "CONNECT" /\ r = s) PROVE ConnectIn(batch', r)
  <2>1. PICK i \in 1 .. Len(batch) : Connects(batch[i], r) BY <1>5 DEF ConnectIn
  <2>2. i # 1 BY <1>1, <1>4, <1>5, <2>1 DEF Connects
  <2>3. i - 1 \in 1 .. Len(batch') /\ (i - 1) + 1 = i BY <1>4, <2>1, <2>2
  <2>4. batch'[i - 1] = batch[i] BY <1>4, <2>3
  <2> QED BY <2>1, <2>3, <2>4 DEF ConnectIn
<1>6. \E f \in Holders : Applies(batch[1], Direct, f) /\ Leads(batch', f, clients)
  <2>1. Leads(batch, Direct, clients) BY <1>3 DEF SessionInv
  <2> QED BY <1>1, <1>4, <2>1, LeadsRest
<1>7. e.kind = k /\ e.from = p /\ e.session = s OBVIOUS
<1>8. At(s, p) BY <1>1, <1>4, <1>7 DEF At
<1>9. ASSUME NEW r, ConnectIn(batch', r) PROVE ConnectIn(batch, r)
  BY <1>4, <1>9 DEF ConnectIn
<1>10. ASSUME k = "CONNECT"
       PROVE  ConnectIn(batch, s) /\ ~ConnectIn(batch', s) /\ ~ConnectIn(wire, s)
  <2>1. 1 \in 1 .. Len(batch) /\ Connects(batch[1], s)
    BY <1>1, <1>4, <1>7, <1>10 DEF Connects
  <2>2. ConnectIn(batch, s) BY <2>1 DEF ConnectIn
  <2>3. ConnectsOnce BY <1>1 DEF EnetInv
  <2>4. ~ConnectIn(wire, s) BY <2>1, <2>3 DEF ConnectIn, ConnectsOnce
  <2>5. ASSUME NEW i \in 1 .. Len(batch'), Connects(batch'[i], s) PROVE FALSE
    <3>1. i + 1 \in 1 .. Len(batch) /\ Connects(batch[i + 1], s) BY <1>4, <2>5
    <3>2. i + 1 = 1 BY <2>1, <2>3, <3>1 DEF ConnectsOnce
    <3> QED BY <1>4, <3>2
  <2> QED BY <2>2, <2>4, <2>5 DEF ConnectIn
<1> QED BY <1>1, <1>2, <1>3, <1>4, <1>5, <1>6, <1>8, <1>9, <1>10

\* Who plays has its slot, or its DISCONNECT in the batch.
LEMMA PlayersAt ==
  ASSUME SessionInv, IsOpen, NEW p \in Peers, players[p] # Nobody
  PROVE  players[p] \in Sessions /\ At(players[p], p)
<1> DEFINE E == Event
<1>1. batch \in Seq(E) BY DEF SessionInv, EnetInv, EnetTypeOK, Event
<1> HIDE DEF E
<1>2. Leads(batch, Direct, clients) BY DEF SessionInv
<1>3. Direct[p] = players[p] BY DEF Direct
<1>4. Direct \in Holders
  <2>1. PICK h : IsRun(batch, h) /\ h[0] = Direct BY <1>2 DEF Leads
  <2>2. 0 \in 0 .. Len(batch) BY <1>1
  <2> QED BY <2>1, <2>2 DEF IsRun
<1>5. players[p] \in Sessions BY <1>3, <1>4 DEF Holders
<1>6. CASE clients[p] = players[p] BY <1>5, <1>6 DEF At
<1>7. CASE clients[p] # players[p]
  <2>1. \E i \in 1 .. Len(batch) : /\ batch[i].kind = "DISCONNECT" /\ batch[i].from = p
                                   /\ batch[i].session = Direct[p]
    BY <1>1, <1>2, <1>3, <1>7, LeadsAway
  <2> QED BY <1>3, <1>5, <2>1 DEF At
<1> QED BY <1>5, <1>6, <1>7

\* The session that connects gets its INIT now if it still has the slot; if it has not,
\* nobody in clients_ is left without one for it.
LEMMA SessionConnect ==
  ASSUME StopInv, RelayInv, SessionInv, NEW p \in Peers, NEW s \in Sessions, HandleConnect(p, s)
  PROVE  SessionInv' /\ players[p] = Nobody
<1>1. /\ Handle("CONNECT", p, s) /\ players' = [players EXCEPT ![p] = s] /\ TellInit(p, s)
  BY DEF HandleConnect
<1>2. thread = "direct" /\ thread' = "direct" BY <1>1 DEF Handle
<1> DEFINE e == [kind |-> "CONNECT", from |-> p, session |-> s, arg |-> Nobody]
<1>3. e.kind = "CONNECT" /\ e.from = p /\ e.session = s OBVIOUS
<1>4. PICK f \in Holders : Applies(batch[1], Direct, f) /\ Leads(batch', f, clients)
  BY <1>1, Handled
<1>5. batch[1] = e BY <1>1, Handled
<1> HIDE DEF e
<1>6. Direct[p] = Nobody /\ f = [Direct EXCEPT ![p] = s]
  BY <1>3, <1>4, <1>5, KindsDiffer DEF Applies
<1>7. players[p] = Nobody BY <1>6 DEF Direct
<1>8. Peers \subseteq Ids /\ DOMAIN players = Ids BY DEF Ids, RelayInv
<1>9. Direct' = f BY <1>1, <1>6, <1>8 DEF Direct
<1>10. ASSUME NEW r \in Peers, clients[r] # Nobody
       PROVE  clients[r] \in told' \/ ConnectIn(batch', clients[r])
  <2>1. told \subseteq told' BY <1>1 DEF TellInit
  <2>2. CASE clients[r] \in told BY <2>1, <2>2
  <2>3. CASE ConnectIn(batch, clients[r]) /\ clients[r] # s BY <1>1, <2>3, Handled
  <2>4. CASE clients[r] = s
    <3>1. At(s, p) BY <1>1, Handled
    <3>2. At(s, r) BY <2>4 DEF At
    <3>3. r = p BY <3>1, <3>2 DEF SessionInv, EnetInv, OneSlot
    <3> QED BY <1>1, <2>4, <3>3 DEF TellInit
  <2> QED BY <1>10, <2>2, <2>3, <2>4 DEF SessionInv
<1>11. EnetInv(Args)' /\ UNCHANGED <<clients, relayClientIds>> BY <1>1, Handled
<1> QED BY <1>2, <1>4, <1>7, <1>9, <1>10, <1>11 DEF SessionInv

\* A DISCONNECT finds the player of the session that left.
LEMMA SessionDisconnect ==
  ASSUME StopInv, RelayInv, SessionInv, NEW p \in Peers, NEW s \in Sessions,
         HandleDisconnect(p, s)
  PROVE  SessionInv' /\ players[p] = s
<1>1. /\ Handle("DISCONNECT", p, s) /\ players' = [players EXCEPT ![p] = Nobody]
      /\ told' = told
  BY DEF HandleDisconnect
<1>2. thread = "direct" /\ thread' = "direct" BY <1>1 DEF Handle
<1> DEFINE e == [kind |-> "DISCONNECT", from |-> p, session |-> s, arg |-> Nobody]
<1>3. e.kind = "DISCONNECT" /\ e.from = p /\ e.session = s OBVIOUS
<1>4. PICK f \in Holders : Applies(batch[1], Direct, f) /\ Leads(batch', f, clients)
  BY <1>1, Handled
<1>5. batch[1] = e BY <1>1, Handled
<1> HIDE DEF e
<1>6. Direct[p] = s /\ f = [Direct EXCEPT ![p] = Nobody]
  BY <1>3, <1>4, <1>5, KindsDiffer DEF Applies
<1>7. players[p] = s BY <1>6 DEF Direct
<1>8. Peers \subseteq Ids /\ DOMAIN players = Ids BY DEF Ids, RelayInv
<1>9. Direct' = f BY <1>1, <1>6, <1>8 DEF Direct
<1>10. /\ EnetInv(Args)' /\ UNCHANGED <<clients, relayClientIds>>
       /\ \A r : ConnectIn(batch, r) => ConnectIn(batch', r)
  <2>1. \A k : k # "CONNECT" /\ Handle(k, p, s) =>
          /\ EnetInv(Args)' /\ UNCHANGED <<clients, relayClientIds>>
          /\ \A r : ConnectIn(batch, r) => ConnectIn(batch', r)
    BY Handled
  <2> QED BY <1>1, <2>1
<1> QED BY <1>1, <1>2, <1>4, <1>7, <1>9, <1>10 DEF SessionInv

\* A packet finds the player of the session that sent it: a JOIN makes none.
LEMMA SessionData ==
  ASSUME StopInv, RelayInv, SessionInv, NEW p \in Peers, NEW s \in Sessions, HandleData(p, s)
  PROVE  SessionInv' /\ players' = players
<1>1. PICK k \in Kinds : /\ Handle(k, p, s) /\ ProcessGamePacket(p, s, k)
                         /\ IF k = "JOIN" /\ players[p] = Nobody THEN TellInit(p, s)
                            ELSE UNCHANGED told
  BY DEF HandleData
<1>2. thread = "direct" /\ thread' = "direct" BY <1>1 DEF Handle
<1> DEFINE e == [kind |-> k, from |-> p, session |-> s, arg |-> Nobody]
<1>3. e.kind = k /\ e.from = p /\ e.session = s OBVIOUS
<1>4. PICK f \in Holders : Applies(batch[1], Direct, f) /\ Leads(batch', f, clients)
  BY <1>1, Handled
<1>5. batch[1] = e BY <1>1, Handled
<1> HIDE DEF e
<1>6. k # "CONNECT" /\ k # "DISCONNECT" BY EnetAssumption
<1>7. Direct[p] = s /\ f = Direct BY <1>3, <1>4, <1>5, <1>6 DEF Applies
<1>8. players[p] # Nobody BY <1>7, KindsDiffer DEF Direct
<1>9. players' = players /\ told' = told BY <1>1, <1>8 DEF ProcessGamePacket
<1>10. /\ EnetInv(Args)' /\ UNCHANGED <<clients, relayClientIds>>
       /\ \A r : ConnectIn(batch, r) => ConnectIn(batch', r)
  BY <1>1, <1>6, Handled
<1>11. Direct' = Direct BY <1>9 DEF Direct
<1> QED BY <1>2, <1>4, <1>7, <1>9, <1>10, <1>11 DEF SessionInv

LEMMA SessionNetwork ==
  ASSUME SessionInv, Network
  PROVE  SessionInv'
<1>1. Nobody \in Args /\ EnetInv(Args) BY DEF Args, SessionInv
<1>2. /\ UNCHANGED <<clients, batch, players, told, thread, relayClientIds, caller>>
  BY DEF Network, Arrive, Drop, Lose, Say, master, stop
<1>3. EnetInv(Args)'
  <2>1. ASSUME NEW p \in Peers, Arrive(p) PROVE EnetInv(Args)' BY <1>1, <2>1, ArriveInv
  <2>2. ASSUME NEW p \in Peers, Drop(p) PROVE EnetInv(Args)' BY <1>1, <2>2, DropInv
  <2>3. ASSUME NEW i \in DOMAIN wire, Lose(i) PROVE EnetInv(Args)' BY <1>1, <2>3, LoseInv
  <2>4. ASSUME NEW p \in Peers, NEW k \in Kinds, Say(p, k, Nobody) PROVE EnetInv(Args)'
    BY <1>1, <2>4, SayInv
  <2> QED BY <2>1, <2>2, <2>3, <2>4 DEF Network
<1>4. Direct' = Direct BY <1>2 DEF Direct
<1> QED BY <1>2, <1>3, <1>4, SessionKeeps DEF IsOpen, SessionInv

\* Steps of which Enet and the direct players see nothing.
Elsewhere ==
  /\ UNCHANGED <<enet, Direct, told>>
  /\ relayClientIds' \subseteq RelayIds
  /\ IsOpen' = IsOpen
  /\ thread' # "direct" => thread # "direct" \/ batch = <<>>

LEMMA ElsewhereKeeps ==
  ASSUME SessionInv, Elsewhere
  PROVE  SessionInv'
<1>1. EnetInv(Args)' BY EnetStutter DEF Elsewhere, SessionInv
<1> QED BY <1>1, SessionKeeps DEF Elsewhere, enet

\* The steps of the server, sorted by what they mean to a session.
LEMMA StepKinds ==
  ASSUME StopInv, RelayInv, SessionInv, [Next]_vars
  PROVE  \/ Elsewhere
         \/ Network \/ Poll \/ CloseHost
         \/ \E p \in Peers, s \in Sessions :
              HandleConnect(p, s) \/ HandleDisconnect(p, s) \/ HandleData(p, s)
<1>0. /\ relayClientIds \subseteq RelayIds
      /\ Peers \cap RelayIds = {} /\ Peers \subseteq Ids /\ DOMAIN players = Ids
  BY HostAssumption DEF SessionInv, RelayInv, Ids
<1> USE DEF enet, stop, master, IsOpen
<1>1. ASSUME players' = players PROVE Direct' = Direct BY <1>1 DEF Direct
<1>2. CASE MasterLost BY <1>0, <1>1, <1>2 DEF MasterLost, Elsewhere
<1>3. ASSUME NEW id \in RelayIds, NEW k \in Kinds, MasterRelays(id, k) PROVE Elsewhere
  BY <1>0, <1>1, <1>3 DEF MasterRelays, Elsewhere
<1>4. CASE Start BY <1>0, <1>1, <1>4 DEF Start, Elsewhere
<1>5. CASE StopCalled \/ Joined BY <1>0, <1>1, <1>5 DEF StopCalled, Joined, Elsewhere
<1>6. CASE LeaveMaster BY <1>0, <1>1, <1>6 DEF LeaveMaster, Elsewhere
<1>7. CASE RegisterWithMaster BY <1>0, <1>1, <1>7 DEF RegisterWithMaster, Elsewhere
<1>8. CASE LoopEnds \/ PollMaster BY <1>0, <1>1, <1>8 DEF LoopEnds, PollMaster, Elsewhere
<1>9. CASE World BY <1>0, <1>1, <1>9 DEF World, Elsewhere
<1>10. CASE Update BY <1>0, <1>1, <1>10 DEF Update, Elsewhere
<1>11. ASSUME NEW id \in RelayIds, NEW k \in Kinds, HandleRelay(id, k) PROVE Elsewhere
  <2>1. players' = players \/ players' = [players EXCEPT ![id] = Relayed]
    BY <1>11 DEF HandleRelay, ProcessGamePacket
  <2>2. \A p \in Peers : players'[p] = players[p] BY <1>0, <2>1
  <2>3. Direct' = Direct BY <2>2 DEF Direct
  <2> QED BY <1>0, <1>11, <2>3 DEF HandleRelay, HandleMaster, Elsewhere
<1>12. CASE HandleMasterLost
  <2>1. players' = [i \in Ids |-> IF i \in relayClientIds THEN Nobody ELSE players[i]]
    BY <1>12 DEF HandleMasterLost
  <2>2. \A p \in Peers : players'[p] = players[p] BY <1>0, <2>1
  <2>3. Direct' = Direct BY <2>2 DEF Direct
  <2> QED BY <1>0, <1>12, <2>3 DEF HandleMasterLost, HandleMaster, Elsewhere
<1>13. CASE UNCHANGED vars BY <1>0, <1>1, <1>13 DEF vars, Elsewhere
<1> QED
  BY <1>2, <1>3, <1>4, <1>5, <1>6, <1>7, <1>8, <1>9, <1>10, <1>11, <1>12, <1>13
  DEF Next, Stop, Thread, ServerLoop

LEMMA SessionClose ==
  ASSUME StopInv, SessionInv, CloseHost
  PROVE  SessionInv'
<1>1. EnetInv(Args)' BY StopHostInv DEF CloseHost, SessionInv
<1>2. ~IsOpen' BY DEF CloseHost, IsOpen
<1>3. batch' = <<>> /\ \A p \in Peers : clients'[p] = Nobody BY DEF CloseHost, StopHost
<1> QED BY <1>1, <1>2, <1>3 DEF SessionInv, CloseHost, master

LEMMA SessionStep ==
  ASSUME StopInv, RelayInv, SessionInv, [Next]_vars
  PROVE  SessionInv'
BY StepKinds, ElsewhereKeeps, SessionNetwork, SessionPoll, SessionClose, SessionConnect,
   SessionDisconnect, SessionData

LEMMA SessionInvHolds == Spec => [](StopInv /\ RelayInv /\ SessionInv)
<1>1. Init => StopInv BY DEF Init, EnetInit, StopInv
<1> QED BY <1>1, RelayInit, SessionInit, StopStep, RelayStep, SessionStep, PTL DEF Spec

\* Nobody in clients_ waits for an INIT that will not come, for any number of slots that
\* change hands any number of times between polls.
THEOREM SessionsCorrect == Spec => []EverySessionIsTold
<1>1. SessionInv => EverySessionIsTold
  <2> SUFFICES ASSUME SessionInv PROVE EverySessionIsTold
    OBVIOUS
  <2> DEFINE E == Event
  <2>1. batch \in Seq(E) BY DEF SessionInv, EnetInv, EnetTypeOK, Event
  <2> HIDE DEF E
  <2>2. DOMAIN batch = 1 .. Len(batch) BY <2>1
  <2> QED BY <2>2 DEF SessionInv, EverySessionIsTold, ConnectIn, Connects
<1> QED BY <1>1, SessionInvHolds, PTL

-----------------------------------------------------------------------------
(* The server's steps are steps of Attendance.                             *)

\* Admitted, said with what the invariant is about.
LEMMA AdmittedIs ==
  SessionInv => \A s : s \in Admitted <=>
    /\ s \in Sessions /\ s <= lastSession
    /\ ~ConnectIn(wire, s) /\ ~ConnectIn(batch, s)
<1> SUFFICES ASSUME SessionInv, NEW s
             PROVE  s \in Admitted <=>
                      /\ s \in Sessions /\ s <= lastSession
                      /\ ~ConnectIn(wire, s) /\ ~ConnectIn(batch, s)
  OBVIOUS
<1> DEFINE E == Event
<1>1. wire \in Seq(E) /\ batch \in Seq(E) BY DEF SessionInv, EnetInv, EnetTypeOK, Event
<1> HIDE DEF E
<1>2. DOMAIN wire = 1 .. Len(wire) /\ DOMAIN batch = 1 .. Len(batch) BY <1>1
<1> QED BY <1>2 DEF Admitted, ConnectIn, Connects

LEMMA AdmittedNext ==
  (SessionInv => \A s : s \in Admitted <=>
    /\ s \in Sessions /\ s <= lastSession
    /\ ~ConnectIn(wire, s) /\ ~ConnectIn(batch, s))'
BY AdmittedIs, PTL

\* Who is admitted changes only with the CONNECTs that wait, or with a new session that
\* has one.
LEMMA SameAdmitted ==
  ASSUME SessionInv, SessionInv', lastSession' = lastSession,
         \A s : ConnectIn(wire', s) \/ ConnectIn(batch', s)
                <=> ConnectIn(wire, s) \/ ConnectIn(batch, s)
  PROVE  Admitted' = Admitted
BY AdmittedIs, AdmittedNext

\* A slot is given, and taken back.
LEMMA HeldGains ==
  ASSUME NEW D, Peers \subseteq D, NEW f, DOMAIN f = D, f = [d \in D |-> f[d]],
         NEW p \in Peers, NEW s, s # Nobody, f[p] = Nobody
  PROVE  Held([f EXCEPT ![p] = s]) = Held(f) \cup {s}
<1> DEFINE g == [f EXCEPT ![p] = s]
<1>1. g[p] = s /\ \A r \in Peers : r # p => g[r] = f[r] OBVIOUS
<1> HIDE DEF g
<1>2. Held(g) = Held(f) \cup {s} BY <1>1 DEF Held
<1> QED BY <1>2 DEF g

LEMMA HeldLoses ==
  ASSUME NEW D, Peers \subseteq D, NEW f, DOMAIN f = D, f = [d \in D |-> f[d]],
         NEW p \in Peers, f[p] # Nobody, \A r \in Peers : f[r] = f[p] => r = p
  PROVE  Held([f EXCEPT ![p] = Nobody]) = Held(f) \ {f[p]}
<1> DEFINE g == [f EXCEPT ![p] = Nobody]
<1>1. g[p] = Nobody /\ \A r \in Peers : r # p => g[r] = f[r] OBVIOUS
<1> HIDE DEF g
<1>2. Held(g) = Held(f) \ {f[p]} BY <1>1 DEF Held
<1> QED BY <1>2 DEF g

LEMMA HeldDirect ==
  ASSUME Direct' = Direct
  PROVE  Held(players)' = Held(players)
<1>1. \A p \in Peers : players'[p] = players[p]
  <2>1. \A p \in Peers : Direct[p] = players[p] /\ Direct'[p] = players'[p] BY DEF Direct
  <2> QED BY <2>1
<1> QED BY <1>1 DEF Held

AttendsStep == [Attends!Next]_(Attends!vars)

LEMMA NothingHappens ==
  ASSUME UNCHANGED <<IsOpen, lastSession, online, Admitted>>, Direct' = Direct
  PROVE  AttendsStep
<1>1. Held(players)' = Held(players) BY HeldDirect
<1>2. Held(online)' = Held(online) BY DEF Held
<1> QED BY <1>1, <1>2 DEF AttendsStep, Attends!vars, WhileOpen

LEMMA ClosedStays ==
  ASSUME ~IsOpen, ~IsOpen'
  PROVE  AttendsStep
BY DEF AttendsStep, Attends!vars, WhileOpen, IsOpen

\* What the wire says of connects, when one event comes.
LEMMA ConnectAppended ==
  ASSUME NEW E, NEW q \in Seq(E), NEW e \in E, NEW s
  PROVE  ConnectIn(Append(q, e), s) <=> ConnectIn(q, s) \/ Connects(e, s)
<1> DEFINE r == Append(q, e)
<1>1. /\ Len(r) = Len(q) + 1 /\ Len(q) \in Nat /\ r[Len(q) + 1] = e
      /\ \A i \in 1 .. Len(q) : r[i] = q[i]
  BY AppendProperties
<1> HIDE DEF r
<1>2. \A i \in 1 .. Len(r) : i \in 1 .. Len(q) \/ i = Len(q) + 1 BY <1>1
<1>3. ConnectIn(r, s) <=> ConnectIn(q, s) \/ Connects(e, s) BY <1>1, <1>2 DEF ConnectIn
<1> QED BY <1>3 DEF r

LEMMA AttendsArrive ==
  ASSUME SessionInv, SessionInv', IsOpen, IsOpen', NEW p \in Peers, Arrive(p),
         UNCHANGED players
  PROVE  AttendsStep
<1> DEFINE E == Event
           e == [kind |-> "CONNECT", from |-> p, session |-> lastSession', arg |-> Nobody]
<1>1. /\ wire \in Seq(E) /\ lastSession \in Nat /\ online \in Holders /\ MaxSession \in Nat
      /\ lastSession < MaxSession /\ online[p] = Nobody
      /\ lastSession' = lastSession + 1 /\ online' = [online EXCEPT ![p] = lastSession']
      /\ wire' = Append(wire, e) /\ UNCHANGED <<clients, batch>>
  BY EnetAssumption DEF Arrive, Happens, SessionInv, EnetInv, EnetTypeOK, Event, Holders
<1>2. lastSession' \in Sessions /\ lastSession' # Nobody BY <1>1 DEF Sessions, Nobody
<1>3. e \in E BY <1>2 DEF Event, EventWith, Args
<1>4. \A s : Connects(e, s) <=> s = lastSession' BY DEF Connects
<1> HIDE DEF E, e
<1>5. \A s : ConnectIn(wire', s) <=> ConnectIn(wire, s) \/ s = lastSession'
  BY <1>1, <1>3, <1>4, ConnectAppended
<1>6. Admitted' = Admitted
  <2>1. ASSUME NEW s PROVE s \in Admitted' <=> s \in Admitted
    <3>1. s \in Sessions => s \in Int BY DEF Sessions
    <3> QED BY <1>1, <1>5, <3>1, AdmittedIs, AdmittedNext
  <2> QED BY <2>1 DEF Admitted
<1>7. Held(online)' = Held(online) \cup {lastSession'}
  <2>1. online = [d \in Peers |-> online[d]] /\ DOMAIN online = Peers BY <1>1 DEF Holders
  <2>2. Held([online EXCEPT ![p] = lastSession']) = Held(online) \cup {lastSession'}
    <3> DEFINE f == online
               s == lastSession'
               D == Peers
    <3>1. /\ Peers \subseteq D /\ DOMAIN f = D /\ f = [d \in D |-> f[d]]
          /\ s # Nobody /\ f[p] = Nobody
      BY <1>1, <1>2, <2>1
    <3> HIDE DEF f, s, D
    <3>2. Held([f EXCEPT ![p] = s]) = Held(f) \cup {s} BY <3>1, HeldGains
    <3> QED BY <3>2 DEF f, s
  <2> QED BY <1>1, <2>2
<1>8. 1 .. lastSession' = (1 .. lastSession) \cup {lastSession'} BY <1>1
<1>9. lastSession' \notin 1 .. lastSession BY <1>1
<1>10. Held(players)' = Held(players) BY DEF Held
<1>11. Attends!Connect(lastSession')
  BY <1>6, <1>7, <1>8, <1>9, <1>10 DEF Attends!Connect, WhileOpen
<1> QED BY <1>2, <1>11 DEF AttendsStep, Attends!Next

LEMMA AttendsDrop ==
  ASSUME SessionInv, SessionInv', IsOpen, IsOpen', NEW p \in Peers, Drop(p),
         UNCHANGED players
  PROVE  AttendsStep
<1> DEFINE E == Event
           e == [kind |-> "DISCONNECT", from |-> p, session |-> online[p], arg |-> Nobody]
<1>1. /\ wire \in Seq(E) /\ online \in Holders /\ online[p] # Nobody
      /\ online' = [online EXCEPT ![p] = Nobody]
      /\ wire' = Append(wire, e) /\ UNCHANGED <<clients, batch, lastSession>>
  BY DEF Drop, Happens, SessionInv, EnetInv, EnetTypeOK, Event, Holders
<1>2. online[p] \in Sessions BY <1>1 DEF Holders
<1>3. e \in E BY <1>2 DEF Event, EventWith, Args
<1>4. \A s : ~Connects(e, s) BY DEF Connects
<1> HIDE DEF E, e
<1>5. \A s : ConnectIn(wire', s) <=> ConnectIn(wire, s) BY <1>1, <1>3, <1>4, ConnectAppended
<1>6. Admitted' = Admitted BY <1>1, <1>5, SameAdmitted
<1>7. \A r \in Peers : online[r] = online[p] => r = p
  <2>1. \A r \in Peers : online[r] = online[p] => At(online[p], r) BY DEF At
  <2> QED BY <1>2, <2>1 DEF SessionInv, EnetInv, OneSlot
<1>8. Held(online)' = Held(online) \ {online[p]}
  <2>1. online = [d \in Peers |-> online[d]] /\ DOMAIN online = Peers BY <1>1 DEF Holders
  <2>2. Held([online EXCEPT ![p] = Nobody]) = Held(online) \ {online[p]}
    <3> DEFINE f == online
               D == Peers
    <3>1. /\ Peers \subseteq D /\ DOMAIN f = D /\ f = [d \in D |-> f[d]]
          /\ f[p] # Nobody /\ \A r \in Peers : f[r] = f[p] => r = p
      BY <1>1, <1>7, <2>1
    <3> HIDE DEF f, D
    <3>2. Held([f EXCEPT ![p] = Nobody]) = Held(f) \ {f[p]} BY <3>1, HeldLoses
    <3> QED BY <3>2 DEF f
  <2> QED BY <1>1, <2>2
<1>9. online[p] \in Held(online) BY <1>1 DEF Held
<1>10. Held(players)' = Held(players) BY DEF Held
<1>11. Attends!Disconnect(online[p])
  BY <1>1, <1>6, <1>8, <1>9, <1>10 DEF Attends!Disconnect, WhileOpen, IsOpen
<1> QED BY <1>2, <1>11 DEF AttendsStep, Attends!Next

LEMMA AttendsNetwork ==
  ASSUME SessionInv, SessionInv', Network
  PROVE  AttendsStep
<1>1. UNCHANGED <<players, caller>> /\ IsOpen' = IsOpen /\ Direct' = Direct
  BY DEF Network, stop, IsOpen, Direct
<1>2. CASE ~IsOpen BY <1>1, <1>2, ClosedStays
<1>3. CASE IsOpen
  <2> DEFINE E == Event
  <2>1. wire \in Seq(E) BY DEF SessionInv, EnetInv, EnetTypeOK, Event
  <2>2. ASSUME NEW i \in DOMAIN wire, Lose(i) PROVE AttendsStep
    <3> HIDE DEF E
    <3>1. /\ IsPacket(wire[i]) /\ wire' = Losing(wire, i)
          /\ UNCHANGED <<clients, batch, online, lastSession>>
      BY <2>2 DEF Lose
    <3>2. i \in 1 .. Len(wire) /\ Len(wire) \in Nat BY <2>1
    <3>3. /\ Len(wire') = Len(wire) - 1
          /\ \A j \in 1 .. (Len(wire) - 1) :
               wire'[j] = IF j < i THEN wire[j] ELSE wire[j + 1]
      BY <2>1, <3>1, <3>2, LosingIs
    <3>4. ASSUME NEW s, ConnectIn(wire', s) PROVE ConnectIn(wire, s)
      BY <3>2, <3>3, <3>4 DEF ConnectIn
    <3>5. ASSUME NEW s, ConnectIn(wire, s) PROVE ConnectIn(wire', s)
      <4>1. PICK j \in 1 .. Len(wire) : Connects(wire[j], s) BY <3>5 DEF ConnectIn
      <4>2. j # i BY <3>1, <4>1, KindsDiffer DEF Connects
      <4>3. CASE j < i
        <5>1. j \in 1 .. Len(wire') /\ wire'[j] = wire[j] BY <3>2, <3>3, <4>3
        <5> QED BY <4>1, <5>1 DEF ConnectIn
      <4>4. CASE j > i
        <5>1. j - 1 \in 1 .. Len(wire') /\ ~(j - 1 < i) /\ (j - 1) + 1 = j
          BY <3>2, <3>3, <4>4
        <5>2. wire'[j - 1] = wire[j] BY <3>3, <5>1
        <5> QED BY <4>1, <5>1, <5>2 DEF ConnectIn
      <4> QED BY <3>2, <4>2, <4>3, <4>4
    <3>6. Admitted' = Admitted BY <3>1, <3>4, <3>5, SameAdmitted
    <3> QED BY <1>1, <3>1, <3>6, NothingHappens
  <2>3. ASSUME NEW p \in Peers, NEW k \in Kinds, Say(p, k, Nobody) PROVE AttendsStep
    <3> DEFINE e == [kind |-> k, from |-> p, session |-> online[p], arg |-> Nobody]
    <3>1. /\ wire' = Append(wire, e) /\ online[p] # Nobody
          /\ UNCHANGED <<clients, batch, online, lastSession>>
      BY <2>3 DEF Say, Happens
    <3>2. online[p] \in Sessions BY <3>1 DEF SessionInv, EnetInv, EnetTypeOK
    <3>3. e \in E BY <3>2 DEF Event, EventWith, Args
    <3>4. \A s : ~Connects(e, s) BY EnetAssumption DEF Connects
    <3> HIDE DEF E, e
    <3>5. \A s : ConnectIn(wire', s) <=> ConnectIn(wire, s)
      BY <2>1, <3>1, <3>3, <3>4, ConnectAppended
    <3>6. Admitted' = Admitted BY <3>1, <3>5, SameAdmitted
    <3> QED BY <1>1, <3>1, <3>6, NothingHappens
  <2>4. IsOpen' BY <1>1, <1>3
  <2> QED BY <1>1, <1>3, <2>2, <2>3, <2>4, AttendsArrive, AttendsDrop DEF Network
<1> QED BY <1>2, <1>3

\* A connect is handled: its session is admitted, and the slot had no player.
LEMMA AttendsConnect ==
  ASSUME StopInv, RelayInv, SessionInv, SessionInv', NEW p \in Peers, NEW s \in Sessions,
         HandleConnect(p, s)
  PROVE  AttendsStep
<1>1. Handle("CONNECT", p, s) /\ players' = [players EXCEPT ![p] = s] BY DEF HandleConnect
<1>2. players[p] = Nobody BY SessionConnect
<1>3. /\ IsOpen /\ UNCHANGED <<caller, wire, online, lastSession>> /\ At(s, p)
      /\ \A r : ConnectIn(batch, r) <=> ConnectIn(batch', r) \/ r = s
      /\ ~ConnectIn(batch', s) /\ ~ConnectIn(wire, s)
  <2>1. \A k : k = "CONNECT" /\ Handle(k, p, s) =>
          /\ IsOpen /\ UNCHANGED <<caller, wire, online, lastSession>> /\ At(s, p)
          /\ \A r : ConnectIn(batch, r) <=> ConnectIn(batch', r) \/ r = s
          /\ ~ConnectIn(batch', s) /\ ~ConnectIn(wire, s)
    BY Handled
  <2> QED BY <1>1, <2>1
<1>4. IsOpen' = IsOpen BY <1>3 DEF IsOpen
<1>5. s <= lastSession BY <1>3 DEF SessionInv, EnetInv, OneSlot
<1>6. s \notin Admitted BY <1>3, AdmittedIs
<1>7. Admitted' = Admitted \cup {s} BY <1>3, <1>5, AdmittedIs, AdmittedNext
<1>8. Held(players)' = Held(players) \cup {s}
  <2>1. players = [d \in Ids |-> players[d]] /\ DOMAIN players = Ids BY DEF RelayInv
  <2>2. Peers \subseteq Ids /\ s # Nobody BY KindsDiffer DEF Ids
  <2> QED BY <1>1, <1>2, <2>1, <2>2, HeldGains
<1>9. s \in 1 .. lastSession
  <2>1. lastSession \in Int BY DEF SessionInv, EnetInv, EnetTypeOK
  <2> QED BY <1>5, <2>1 DEF Sessions
<1>10. Held(online)' = Held(online) BY <1>3 DEF Held
<1>11. Attends!Admit(s)
  BY <1>3, <1>4, <1>6, <1>7, <1>8, <1>9, <1>10 DEF Attends!Admit, WhileOpen
<1> QED BY <1>11 DEF AttendsStep, Attends!Next

\* A disconnect is handled: the player of that session goes, and the session has gone.
LEMMA AttendsDisconnect ==
  ASSUME StopInv, RelayInv, SessionInv, SessionInv', NEW p \in Peers, NEW s \in Sessions,
         HandleDisconnect(p, s)
  PROVE  AttendsStep
<1>1. Handle("DISCONNECT", p, s) /\ players' = [players EXCEPT ![p] = Nobody]
  BY DEF HandleDisconnect
<1>2. players[p] = s /\ s # Nobody BY SessionDisconnect, KindsDiffer
<1>3. /\ IsOpen /\ UNCHANGED <<caller, wire, online, lastSession>>
      /\ \A r : ConnectIn(batch, r) <=> ConnectIn(batch', r)
      /\ Len(batch) >= 1
      /\ batch[1] = [kind |-> "DISCONNECT", from |-> p, session |-> s, arg |-> Nobody]
  <2>1. \A k : k # "CONNECT" /\ Handle(k, p, s) =>
          /\ IsOpen /\ UNCHANGED <<caller, wire, online, lastSession>>
          /\ \A r : ConnectIn(batch, r) <=> ConnectIn(batch', r)
          /\ Len(batch) >= 1
          /\ batch[1] = [kind |-> k, from |-> p, session |-> s, arg |-> Nobody]
    BY Handled
  <2> QED BY <1>1, <2>1
<1>4. IsOpen' = IsOpen BY <1>3 DEF IsOpen
<1>5. Admitted' = Admitted BY <1>3, SameAdmitted
<1>6. \A r \in Peers : players[r] = players[p] => r = p
  <2>1. \A r \in Peers : players[r] = s => At(s, r) BY <1>2, <1>3, PlayersAt
  <2> QED BY <1>2, <2>1 DEF SessionInv, EnetInv, OneSlot
<1>7. Held(players)' = Held(players) \ {s}
  <2>1. players = [d \in Ids |-> players[d]] /\ DOMAIN players = Ids BY DEF RelayInv
  <2>2. Peers \subseteq Ids BY DEF Ids
  <2> QED BY <1>1, <1>2, <1>6, <2>1, <2>2, HeldLoses
<1>8. s \in Held(players) BY <1>2 DEF Held
<1>9. s \notin Held(online)
  <2> DEFINE E == Event
  <2>1. batch \in Seq(E) BY DEF SessionInv, EnetInv, EnetTypeOK, Event
  <2> HIDE DEF E
  <2>2. 1 \in 1 .. Len(batch) BY <1>3, <2>1
  <2>3. Disconnects(batch[1], s) BY <1>3 DEF Disconnects
  <2>4. \A r \in Peers : online[r] # s
    BY <2>2, <2>3 DEF SessionInv, EnetInv, GoneForGood
  <2> QED BY <2>4 DEF Held
<1>10. Held(online)' = Held(online) BY <1>3 DEF Held
<1>11. Attends!Dismiss(s)
  BY <1>3, <1>4, <1>5, <1>7, <1>8, <1>9, <1>10 DEF Attends!Dismiss, WhileOpen
<1> QED BY <1>11 DEF AttendsStep, Attends!Next

LEMMA AttendsData ==
  ASSUME StopInv, RelayInv, SessionInv, SessionInv', NEW p \in Peers, NEW s \in Sessions,
         HandleData(p, s)
  PROVE  AttendsStep
<1>1. PICK k \in Kinds : Handle(k, p, s) BY DEF HandleData
<1>2. players' = players BY SessionData
<1>3. k # "CONNECT" BY EnetAssumption
<1>4. /\ IsOpen /\ UNCHANGED <<caller, wire, online, lastSession>>
      /\ \A r : ConnectIn(batch, r) <=> ConnectIn(batch', r)
  BY <1>1, <1>3, Handled
<1>5. Admitted' = Admitted BY <1>4, SameAdmitted
<1>6. IsOpen' = IsOpen BY <1>4 DEF IsOpen
<1>7. Direct' = Direct BY <1>2 DEF Direct
<1> QED BY <1>4, <1>5, <1>6, <1>7, NothingHappens

\* What was on the wire is in the batch now, and nothing was in the batch.
LEMMA AttendsPoll ==
  ASSUME StopInv, SessionInv, SessionInv', Poll
  PROVE  AttendsStep
<1>1. /\ batch = <<>> /\ batch' = wire /\ wire' = <<>>
      /\ UNCHANGED <<online, lastSession, players, caller>>
  BY DEF Poll, PollHost, SessionInv, stop
<1>2. Len(<<>>) = 0 OBVIOUS
<1>3. \A s : ConnectIn(wire', s) \/ ConnectIn(batch', s)
             <=> ConnectIn(wire, s) \/ ConnectIn(batch, s)
  BY <1>1, <1>2 DEF ConnectIn
<1>4. Admitted' = Admitted BY <1>1, <1>3, SameAdmitted
<1>5. IsOpen' = IsOpen /\ Direct' = Direct BY <1>1 DEF IsOpen, Direct
<1> QED BY <1>1, <1>4, <1>5, NothingHappens

LEMMA AttendsClose ==
  ASSUME CloseHost
  PROVE  AttendsStep
<1>1. IsOpen /\ ~IsOpen' BY DEF CloseHost, IsOpen
<1>2. Attends!Close BY <1>1 DEF Attends!Close, WhileOpen, IsOpen
<1> QED BY <1>2 DEF AttendsStep, Attends!Next

LEMMA StepAttends ==
  ASSUME StopInv, RelayInv, SessionInv, SessionInv', [Next]_vars
  PROVE  AttendsStep
<1>1. CASE Elsewhere
  <2>1. UNCHANGED <<IsOpen, lastSession, online, Admitted>> /\ Direct' = Direct
    BY <1>1 DEF Elsewhere, enet, Admitted
  <2> QED BY <2>1, NothingHappens
<1> QED
  BY <1>1, StepKinds, AttendsNetwork, AttendsPoll, AttendsClose, AttendsConnect,
     AttendsDisconnect, AttendsData

LEMMA InitAttends == Init => Attends!Init
<1> SUFFICES ASSUME Init PROVE Attends!Init
  OBVIOUS
<1>1. IsOpen /\ lastSession = 0 BY DEF Init, EnetInit, IsOpen
<1>2. Held(online) = {} BY DEF Init, EnetInit, Held
<1>3. Held(players) = {} BY DEF Init, Held, Ids
<1>4. Admitted = {} BY <1>1 DEF Admitted, Sessions
<1>5. 1 .. lastSession = {} BY <1>1
<1> QED BY <1>1, <1>2, <1>3, <1>4, <1>5 DEF Attends!Init, WhileOpen, IsOpen

\* Slots, batches and threads are not seen: the server starts and steps as Attendance
\* does, whatever the number of slots.  A session gets one player, once, and the player
\* goes after it has gone.  That both happen in the end (Attendance's Promise) is model
\* checked.
THEOREM AttendanceCorrect == Spec => Attends!Steps
<1>1. StopInv /\ RelayInv /\ SessionInv /\ SessionInv' /\ [Next]_vars
        => [Attends!Next]_(Attends!vars)
  BY StepAttends DEF AttendsStep
<1> QED BY <1>1, SessionInvHolds, InitAttends, PTL DEF Spec, Attends!Steps

-----------------------------------------------------------------------------
(* Types: what the invariants above leave over.                            *)

Control ==
  /\ hostUp \in BOOLEAN /\ running \in BOOLEAN /\ thread \in Stages
  /\ caller \in {"idle", "joining", "closing", "leaving", "stopped"}
  /\ connectedToMaster \in BOOLEAN /\ link \in BOOLEAN

LEMMA ControlKeeps == Control /\ [Next]_vars => Control'
<1> SUFFICES ASSUME Control, [Next]_vars PROVE Control'
  OBVIOUS
<1> USE DEF Control, Stages
<1>1. CASE Network \/ MasterLost \/ \E id \in RelayIds, k \in Kinds : MasterRelays(id, k)
  BY <1>1 DEF Network, MasterLost, MasterRelays, stop, master
<1>2. CASE Start \/ StopCalled \/ Stop
  BY <1>2 DEF Start, StopCalled, Stop, Joined, CloseHost, LeaveMaster, stop, master
<1>3. CASE RegisterWithMaster BY <1>3 DEF RegisterWithMaster, stop
<1>4. CASE LoopEnds \/ Poll \/ PollMaster \/ World \/ Update
  BY <1>4 DEF LoopEnds, Poll, PollMaster, World, Update, stop, master
<1>5. ASSUME NEW p \in Peers, NEW s \in Sessions,
             HandleConnect(p, s) \/ HandleDisconnect(p, s) \/ HandleData(p, s)
      PROVE  Control'
  BY <1>5 DEF HandleConnect, HandleDisconnect, HandleData, Handle, stop, master
<1>6. ASSUME NEW id \in RelayIds, NEW k \in Kinds, HandleRelay(id, k) PROVE Control'
  BY <1>6 DEF HandleRelay, HandleMaster, stop
<1>7. CASE HandleMasterLost BY <1>7 DEF HandleMasterLost, HandleMaster, stop
<1>8. CASE UNCHANGED vars BY <1>8 DEF vars, stop, master
<1> QED BY <1>1, <1>2, <1>3, <1>4, <1>5, <1>6, <1>7, <1>8 DEF Next, Thread, ServerLoop

Rest ==
  /\ waveTimer \in Nat /\ timeToNextWave \in Nat
  /\ others \subseteq {"bullet", "device"} /\ told \subseteq Sessions

LEMMA RestKeeps == EnemyInv /\ Rest /\ [Next]_vars => Rest'
<1> SUFFICES ASSUME EnemyInv, Rest, [Next]_vars PROVE Rest'
  OBVIOUS
<1> USE DEF Rest
<1>1. CASE Network \/ MasterLost \/ \E id \in RelayIds, k \in Kinds : MasterRelays(id, k)
  BY <1>1 DEF Network, MasterLost, MasterRelays, wave, world
<1>2. CASE Start \/ StopCalled \/ Stop
  BY <1>2 DEF Start, StopCalled, Stop, Joined, CloseHost, LeaveMaster, wave, world
<1>3. CASE RegisterWithMaster \/ LoopEnds \/ Poll \/ PollMaster
  BY <1>3 DEF RegisterWithMaster, LoopEnds, Poll, PollMaster, wave, world
<1>4. CASE Update BY <1>4 DEF Update, wave
<1>5. CASE World
  <2>1. /\ waveCount \in Nat /\ GapBase \in Nat /\ GapStep \in Nat
        /\ \A n \in Nat : GapBase + n * GapStep \in Nat
    BY HostAssumption DEF EnemyInv
  <2>2. told' = told BY <1>5 DEF World
  <2>3. CASE EmptyWorld
    <3>1. Capped(1, timeToNextWave) \in Nat /\ Capped(waveTimer + 1, timeToNextWave) \in Nat
      BY DEF Capped
    <3>2. waveTimer' \in Nat BY <2>3, <3>1 DEF EmptyWorld
    <3>3. timeToNextWave' \in Nat /\ others' \subseteq {"bullet", "device"}
      BY <2>3 DEF EmptyWorld
    <3> QED BY <2>2, <3>2, <3>3
  <2>4. CASE WaitForWave BY <2>2, <2>4 DEF WaitForWave, world
  <2>5. CASE WaveIsDue BY <2>1, <2>2, <2>5 DEF WaveIsDue
  <2> QED BY <1>5, <2>3, <2>4, <2>5 DEF World
<1>6. ASSUME NEW p \in Peers, NEW s \in Sessions,
             HandleConnect(p, s) \/ HandleDisconnect(p, s) \/ HandleData(p, s)
      PROVE  Rest'
  <2>1. wave' = wave BY <1>6 DEF HandleConnect, HandleDisconnect, HandleData, Handle
  <2>2. told' \subseteq Sessions
    BY <1>6 DEF HandleConnect, HandleDisconnect, HandleData, TellInit
  <2>3. others' \subseteq {"bullet", "device"}
    BY <1>6 DEF HandleConnect, HandleDisconnect, HandleData, ProcessGamePacket, ChangeWorld, world
  <2> QED BY <2>1, <2>2, <2>3 DEF wave
<1>7. ASSUME NEW id \in RelayIds, NEW k \in Kinds, HandleRelay(id, k) PROVE Rest'
  <2>1. wave' = wave /\ told' = told BY <1>7 DEF HandleRelay, HandleMaster
  <2>2. others' \subseteq {"bullet", "device"}
    BY <1>7 DEF HandleRelay, ProcessGamePacket, ChangeWorld, world
  <2> QED BY <2>1, <2>2 DEF wave
<1>8. CASE HandleMasterLost BY <1>8 DEF HandleMasterLost, HandleMaster, wave, world
<1>9. CASE UNCHANGED vars BY <1>9 DEF vars, wave, world
<1> QED
  BY <1>1, <1>2, <1>3, <1>4, <1>5, <1>6, <1>7, <1>8, <1>9 DEF Next, Thread, ServerLoop

\* The loop's variables, the wave timers and everything on its way to the loop keep
\* their types, for any number of slots, waves and packets.
THEOREM TypeCorrect == Spec => []TypeOK
<1>1. Init => Control BY DEF Init, Control, Stages
<1>2. Init => Rest BY HostAssumption DEF Init, Rest
<1>3. EnemyInv /\ RelayInv /\ SessionInv /\ Control /\ Rest => TypeOK
  BY DEF TypeOK, EnemyInv, RelayInv, SessionInv, EnetInv, Args, Control, Rest
<1> QED
  BY <1>1, <1>2, <1>3, EnemyInvHolds, SessionInvHolds, ControlKeeps, RestKeeps, PTL DEF Spec
=============================================================================
