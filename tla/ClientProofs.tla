--------------------------- MODULE ClientProofs ----------------------------
(***************************************************************************)
(* Theorems about the player's program: how it comes into a game (Client), *)
(* for any number of connections, and what it shows there (Snapshots), for *)
(* any delays, windows and number of packets on their way.                 *)
(***************************************************************************)
EXTENDS Client, Snapshots, FiniteSetTheorems, SequenceTheorems, TLAPS

-----------------------------------------------------------------------------
(* The connections.  What has arrived belongs to one, the handshake is the *)
(* first thing that arrives, and a player who waits for each click has no  *)
(* two threads in a call that touches the peer's life.                     *)

Belongs ==
    /\ peer # "free" => Last >= 1
    /\ down # <<>> => Last >= 1
    /\ \A i \in 1 .. Len(batch) : batch[i].kind = "INIT" => batch[i].conn >= 1

Verified ==
    /\ \A i \in 1 .. Len(down) : down[i] = "VERIFY" => i = 1 /\ peer = "connecting"
    /\ peer = "connecting" /\ conns[Last].st = "asked" => down = <<>>

\* Without lobbies and own servers there is no thread but the frame loop's.
Alone ==
    player = "direct" =>
      /\ pc["worker"] = "none" /\ ~crashed
      /\ pc["main"] \in {"connecting", "leaving", "exiting"} => server
      /\ \A c \in 1 .. Last : conns[c].to = "remote"
      /\ \A i \in 1 .. Len(down) : down[i] # "P2P_SIGNAL"
      /\ \A i \in 1 .. Len(batch) : batch[i].kind # "P2P_SIGNAL"

Usable ==
    player # "hasty" =>
      /\ peer \in {"connecting", "up"} => server
      /\ peer = "connecting" => \E t \in Threads : pc[t] = "connecting"
      /\ pc["main"] \in {"connecting", "push"} => pc["worker"] = "none"

ClientInv == TypeOK /\ Belongs /\ Verified /\ Alone /\ Usable

\* The server's side of the connections is the same, but for what is on its way there.
SameConns ==
    /\ conns' \in Seq(Conn) /\ Len(conns') = Last
    /\ \A c \in 1 .. Last : conns'[c].to = conns[c].to /\ conns'[c].st = conns[c].st

Wires == {"ACK", "JOIN", "P2P_REQUEST", "BYE"}
Arrivals == {"VERIFY", "INIT", "P2P_SIGNAL", "BYE"}

Told(cs, c, m) == [cs EXCEPT ![c].up = Append(@, m)]

LEMMA ConnTold ==
  ASSUME NEW r \in Conn, NEW m \in Wires
  PROVE  LET n == [r EXCEPT !.up = Append(r.up, m)]
         IN  n \in Conn /\ n.to = r.to /\ n.st = r.st
<1>1. r.up \in Seq(Wires) BY DEF Conn, Wires
<1>2. Append(r.up, m) \in Seq(Wires) BY <1>1
<1> DEFINE u == Append(r.up, m)
<1> HIDE DEF u
<1>3. [r EXCEPT !.up = u] \in Conn /\ [r EXCEPT !.up = u].to = r.to /\ [r EXCEPT !.up = u].st = r.st
  BY <1>2 DEF Conn, Wires, u
<1> QED BY <1>3 DEF u

LEMMA ToldKeeps ==
  ASSUME NEW cs \in Seq(Conn), NEW c \in Nat, NEW m \in Wires
  PROVE  /\ Told(cs, c, m) \in Seq(Conn) /\ Len(Told(cs, c, m)) = Len(cs)
         /\ \A d \in 1 .. Len(cs) : Told(cs, c, m)[d].to = cs[d].to /\ Told(cs, c, m)[d].st = cs[d].st
<1> DEFINE new == Told(cs, c, m)
<1>1. DOMAIN cs = 1 .. Len(cs) /\ Len(cs) \in Nat OBVIOUS
<1>2. ASSUME NEW d \in 1 .. Len(cs) PROVE new[d] \in Conn /\ new[d].to = cs[d].to /\ new[d].st = cs[d].st
  <2>1. cs[d] \in Conn OBVIOUS
  <2>2. CASE d = c
    <3>1. new[d] = [cs[d] EXCEPT !.up = Append(cs[d].up, m)] BY <1>1, <2>2 DEF Told
    <3> DEFINE r == cs[d]
    <3>2. r \in Conn BY <2>1
    <3>3. new[d] = [r EXCEPT !.up = Append(r.up, m)] BY <3>1
    <3> HIDE DEF r
    <3>4. new[d] \in Conn /\ new[d].to = r.to /\ new[d].st = r.st BY <3>2, <3>3, ConnTold
    <3> QED BY <3>4 DEF r
  <2>3. CASE d # c BY <1>1, <2>1, <2>3 DEF Told
  <2> QED BY <2>2, <2>3
<1>3. new = [d \in 1 .. Len(cs) |-> new[d]] BY <1>1 DEF Told
<1> HIDE DEF new
<1>4. new \in [1 .. Len(cs) -> Conn] BY <1>2, <1>3
<1>5. new \in Seq(Conn) /\ Len(new) = Len(cs) BY <1>1, <1>4
<1> QED BY <1>2, <1>5 DEF new

\* The two ways to send something leave the connections as they are.
LEMMA PostIs ==
  ASSUME TypeOK
  PROVE  /\ Acknowledged(conns) \in Seq(Conn) /\ Len(Acknowledged(conns)) = Last
         /\ \A c \in 1 .. Last : /\ Acknowledged(conns)[c].to = conns[c].to
                                 /\ Acknowledged(conns)[c].st = conns[c].st
         /\ \A m \in Wires :
              /\ Post(conns, m) \in Seq(Conn) /\ Len(Post(conns, m)) = Last
              /\ \A c \in 1 .. Last : /\ Post(conns, m)[c].to = conns[c].to
                                      /\ Post(conns, m)[c].st = conns[c].st
<1> DEFINE cs == Acknowledged(conns)
<1>1. conns \in Seq(Conn) /\ Last \in Nat /\ Len(conns) = Last BY DEF TypeOK, Last
<1>2. /\ cs \in Seq(Conn) /\ Len(cs) = Last
      /\ \A c \in 1 .. Last : cs[c].to = conns[c].to /\ cs[c].st = conns[c].st
  <2>1. CASE ackDue
    <3>1. "ACK" \in Wires BY DEF Wires
    <3>2. cs = Told(conns, Last, "ACK") BY <2>1 DEF Acknowledged, Told
    <3> HIDE DEF cs
    <3> QED BY <1>1, <3>1, <3>2, ToldKeeps
  <2>2. CASE ~ackDue BY <1>1, <2>2 DEF Acknowledged
  <2> QED BY <2>1, <2>2
<1>3. \A m : Post(conns, m) = Told(cs, Last, m) BY DEF Post, Told
<1> HIDE DEF cs
<1>4. ASSUME NEW m \in Wires
      PROVE  /\ Post(conns, m) \in Seq(Conn) /\ Len(Post(conns, m)) = Last
             /\ \A c \in 1 .. Last : /\ Post(conns, m)[c].to = conns[c].to
                                     /\ Post(conns, m)[c].st = conns[c].st
  <2> DEFINE new == Told(cs, Last, m)
  <2>1. /\ new \in Seq(Conn) /\ Len(new) = Len(cs)
        /\ \A c \in 1 .. Len(cs) : new[c].to = cs[c].to /\ new[c].st = cs[c].st
    BY <1>1, <1>2, ToldKeeps
  <2>2. Post(conns, m) = new BY <1>3
  <2> HIDE DEF new
  <2> QED BY <1>2, <2>1, <2>2
<1> QED BY <1>2, <1>4 DEF cs

LEMMA SendsSame == ASSUME TypeOK, NEW m \in Wires, Sends(m) PROVE SameConns /\ ackDue' \in BOOLEAN
<1>1. conns \in Seq(Conn) /\ ackDue \in BOOLEAN BY DEF TypeOK
<1>2. CASE Connected BY <1>2, PostIs DEF Sends, SameConns
<1>3. CASE ~Connected BY <1>1, <1>3 DEF Sends, SameConns, Last
<1> QED BY <1>2, <1>3

LEMMA ConnsUnchanged == ASSUME TypeOK, UNCHANGED conns PROVE SameConns
BY DEF TypeOK, SameConns, Last

\* Messages of connections up to the n-th, with what a direct player never gets left out.
News(n) == [kind : {"CONNECT", "INIT", "P2P_SIGNAL"}, conn : 0 .. n]

NewsOK(b) ==
    /\ b \in Seq(News(Last))
    /\ \A i \in 1 .. Len(b) : /\ b[i].kind = "INIT" => b[i].conn >= 1
                              /\ player = "direct" => b[i].kind # "P2P_SIGNAL"

LEMMA BatchOK == ClientInv => NewsOK(batch)
BY DEF ClientInv, TypeOK, Belongs, Alone, NewsOK, News

LEMMA TailOK == ASSUME NEW b, NewsOK(b), b # <<>> PROVE NewsOK(Tail(b))
<1>1. b \in Seq(News(Last)) BY DEF NewsOK
<1> DEFINE S == News(Last)
<1> HIDE DEF S
<1>2. b \in Seq(S) BY <1>1 DEF S
<1>3. /\ Tail(b) \in Seq(S) /\ Len(b) \in Nat /\ Len(b) >= 1 /\ Len(Tail(b)) = Len(b) - 1
      /\ \A i \in 1 .. Len(b) - 1 : Tail(b)[i] = b[i + 1]
  BY <1>2
<1>4. ASSUME NEW i \in 1 .. Len(Tail(b)) PROVE Tail(b)[i] = b[i + 1] /\ i + 1 \in 1 .. Len(b) BY <1>3
<1> QED BY <1>3, <1>4 DEF NewsOK, S

LEMMA AppendOK ==
  ASSUME TypeOK, NEW b, NewsOK(b), Last >= 1, NEW k \in {"INIT", "P2P_SIGNAL"}, player = "direct" => k # "P2P_SIGNAL"
  PROVE  NewsOK(Append(b, Msg(k)))
<1>1. b \in Seq(News(Last)) BY DEF NewsOK
<1>2. Last \in Nat BY DEF TypeOK, Last
<1> DEFINE S == News(Last)
           m == Msg(k)
<1>3. m \in S /\ m.kind = k /\ m.conn = Last BY <1>2 DEF Msg, News
<1> HIDE DEF S, m
<1>4. b \in Seq(S) BY <1>1 DEF S
<1>5. /\ Append(b, m) \in Seq(S) /\ Len(b) \in Nat /\ Len(Append(b, m)) = Len(b) + 1
      /\ \A i \in 1 .. Len(b) : Append(b, m)[i] = b[i]
      /\ Append(b, m)[Len(b) + 1] = m
  BY <1>3, <1>4
<1>6. ASSUME NEW i \in 1 .. Len(b) + 1
      PROVE  /\ Append(b, m)[i].kind = "INIT" => Append(b, m)[i].conn >= 1
             /\ player = "direct" => Append(b, m)[i].kind # "P2P_SIGNAL"
  <2>1. CASE i \in 1 .. Len(b) BY <1>5, <2>1 DEF NewsOK
  <2>2. CASE i = Len(b) + 1 BY <1>3, <1>5, <2>2
  <2> QED BY <1>5, <2>1, <2>2
<1>7. NewsOK(Append(b, m)) BY <1>5, <1>6 DEF NewsOK, S
<1> QED BY <1>7 DEF m

LEMMA QueueLastOK == ASSUME ClientInv PROVE NewsOK(QueueLast)
<1>1. NewsOK(batch) /\ Last \in Nat /\ queue \in Nat BY BatchOK DEF ClientInv, TypeOK, Last
<1> DEFINE S == News(Last)
           m == Msg("CONNECT")
           q == [i \in 1 .. queue |-> m]
<1>2. m \in S /\ m.kind = "CONNECT" BY <1>1 DEF Msg, News
<1>3. batch \in Seq(S) BY <1>1 DEF NewsOK
<1> HIDE DEF S, m
<1>4. q \in Seq(S) /\ Len(q) = queue /\ \A i \in 1 .. queue : q[i] = m BY <1>1, <1>2
<1> HIDE DEF q
<1>5. /\ batch \o q \in Seq(S) /\ Len(batch) \in Nat /\ Len(batch \o q) = Len(batch) + queue
      /\ \A i \in 1 .. Len(batch) : (batch \o q)[i] = batch[i]
      /\ \A i \in Len(batch) + 1 .. Len(batch) + queue : (batch \o q)[i] = q[i - Len(batch)]
  <2> HIDE DEF NewsOK, QueueLast
  <2>1. /\ batch \o q \in Seq(S) /\ Len(batch \o q) = Len(batch) + Len(q)
        /\ \A i \in 1 .. Len(batch) + Len(q) :
             (batch \o q)[i] = IF i <= Len(batch) THEN batch[i] ELSE q[i - Len(batch)]
    BY <1>3, <1>4, ConcatProperties
  <2>2. Len(batch) \in Nat BY <1>3
  <2> QED BY <1>1, <1>4, <2>1, <2>2
<1>6. ASSUME NEW i \in 1 .. Len(batch) + queue
      PROVE  /\ (batch \o q)[i].kind = "INIT" => (batch \o q)[i].conn >= 1
             /\ player = "direct" => (batch \o q)[i].kind # "P2P_SIGNAL"
  <2>1. CASE i \in 1 .. Len(batch) BY <1>1, <1>5, <2>1 DEF NewsOK
  <2>2. CASE i \in Len(batch) + 1 .. Len(batch) + queue
    <3>1. i - Len(batch) \in 1 .. queue BY <1>1, <1>5, <2>2
    <3> QED BY <1>2, <1>4, <1>5, <2>2, <3>1
  <2> QED BY <1>1, <1>5, <2>1, <2>2
<1>7. NewsOK(batch \o q) BY <1>5, <1>6 DEF NewsOK, S
<1> QED BY <1>7 DEF QueueLast, q, m

-----------------------------------------------------------------------------
(* The calls.                                                              *)

\* Where the threads are, after a step that neither begins nor ends a call.
QuietPc ==
    /\ DOMAIN pc' = Threads /\ pc'["main"] \in MainLabels /\ pc'["worker"] \in WorkerLabels
    /\ \A t \in Threads : pc[t] = "connecting" => pc'[t] = "connecting"
    /\ pc'["main"] \in {"connecting", "push", "leaving", "exiting"} => pc'["main"] = pc["main"]
    /\ pc'["worker"] # "none" => /\ player # "direct"
                                 /\ player # "hasty" => pc'["main"] \notin {"connecting", "push"}

LEMMA QuietKeeps ==
  ASSUME ClientInv, SameConns, QuietPc, (NewsOK(batch))',
         UNCHANGED <<peer, server, down, player, drops, crashed>>,
         ackDue' \in BOOLEAN, queue' \in Nat,
         scene' \in {"menu", "game"}, next' \in {"none", "menu", "game"}, myPlayerId' \in Slots \cup {0}
  PROVE  ClientInv'
<1>1. Last' = Last BY DEF SameConns, Last
<1>2. TypeOK'
  <2>1. batch' \in Seq([kind : {"CONNECT", "INIT", "P2P_SIGNAL"}, conn : 0 .. Last']) BY DEF NewsOK, News
  <2> QED BY <2>1 DEF ClientInv, TypeOK, SameConns, QuietPc
<1>3. Belongs' BY <1>1 DEF ClientInv, Belongs, NewsOK
<1>4. Verified'
  <2>1. peer = "connecting" => Last \in 1 .. Last BY DEF ClientInv, Belongs, TypeOK, Last
  <2> QED BY <1>1, <2>1 DEF ClientInv, Verified, SameConns
<1>5. Alone' BY <1>1 DEF ClientInv, Alone, SameConns, QuietPc, NewsOK
<1>6. Usable' BY DEF ClientInv, Usable, QuietPc, Threads
<1> QED BY <1>2, <1>3, <1>4, <1>5, <1>6 DEF ClientInv

\* From where connect is called, and by whom.
Calls(t, to) ==
    /\ t \in Threads /\ to \in {"remote", "local", "master"}
    /\ t = "main" => pc["main"] = "draw" /\ (player # "hasty" => pc["worker"] = "none")
    /\ t = "worker" => pc["worker"] \in {"host", "reconnect"}
    /\ player = "direct" => t = "main" /\ to = "remote"

LEMMA GotoIs ==
  ASSUME ClientInv, NEW t \in Threads, NEW label, Goto(t, label),
         t = "main" => label \in MainLabels, t = "worker" => label \in WorkerLabels
  PROVE  /\ DOMAIN pc' = Threads /\ pc'["main"] \in MainLabels /\ pc'["worker"] \in WorkerLabels
         /\ pc'[t] = label /\ \A o \in Threads \ {t} : pc'[o] = pc[o]
BY DEF ClientInv, TypeOK, Goto, Threads

LEMMA ReturnIs ==
  ASSUME ClientInv, NEW t \in Threads, Return(t)
  PROVE  /\ DOMAIN pc' = Threads /\ pc'["main"] \in MainLabels /\ pc'["worker"] \in WorkerLabels
         /\ pc'[t] = IF t = "main" THEN "frame" ELSE "none"
         /\ \A o \in Threads \ {t} : pc'[o] = pc[o]
<1>1. "frame" \in MainLabels /\ "none" \in WorkerLabels BY DEF MainLabels, WorkerLabels
<1> QED BY <1>1, GotoIs DEF Return

\* A new connection has no news yet, and what waits to be handled is of older ones.
LEMMA NewConnOK ==
  ASSUME ClientInv, NEW to \in {"remote", "local", "master"}, UNCHANGED <<batch, player>>,
         conns' = Append(conns, [to |-> to, slot |-> 0, st |-> "asked",
                                 player |-> FALSE, named |-> FALSE, up |-> <<>>])
  PROVE  /\ conns' \in Seq(Conn) /\ Last' = Last + 1 /\ (NewsOK(batch))'
         /\ \A c \in 1 .. Last : conns'[c] = conns[c]
         /\ conns'[Last'].to = to
<1> DEFINE n == [to |-> to, slot |-> 0, st |-> "asked", player |-> FALSE, named |-> FALSE, up |-> <<>>]
<1>1. conns \in Seq(Conn) /\ Last \in Nat BY DEF ClientInv, TypeOK, Last
<1>2. <<>> \in Seq({"ACK", "JOIN", "P2P_REQUEST", "BYE"}) OBVIOUS
<1>3. n \in Conn /\ n.to = to BY <1>2 DEF Conn
<1> HIDE DEF n
<1>4. conns' = Append(conns, n) BY DEF n
<1>5. /\ conns' \in Seq(Conn) /\ Len(conns') = Last + 1 /\ conns'[Last + 1] = n
      /\ \A c \in 1 .. Last : conns'[c] = conns[c]
  BY <1>1, <1>3, <1>4 DEF Last
<1>6. NewsOK(batch) BY BatchOK
<1>7. Last' = Last + 1 BY <1>5 DEF Last
<1>8. News(Last) \subseteq News(Last') BY <1>1, <1>7 DEF News
<1>9. batch \in Seq(News(Last'))
  <2> DEFINE S == News(Last)
             T == News(Last')
  <2>1. S \subseteq T /\ batch \in Seq(S) BY <1>6, <1>8 DEF NewsOK
  <2> HIDE DEF S, T
  <2>2. batch \in Seq(T) BY <2>1
  <2> QED BY <2>2 DEF T
<1>10. (NewsOK(batch))' BY <1>6, <1>9 DEF NewsOK
<1> QED BY <1>3, <1>5, <1>7, <1>10

LEMMA ConnectKeeps ==
  ASSUME ClientInv, NEW t, NEW to, Calls(t, to), Connect(t, to), UNCHANGED <<ui, player, drops, crashed>>
  PROVE  ClientInv'
<1>a. t \in Threads /\ t \in {"main", "worker"} /\ to \in {"remote", "local", "master"} BY DEF Calls, Threads
<1>b. /\ UNCHANGED <<batch, scene, next, myPlayerId>>
      /\ TypeOK /\ NewsOK(batch)
      /\ scene \in {"menu", "game"} /\ next \in {"none", "menu", "game"} /\ myPlayerId \in Slots \cup {0}
      /\ ackDue \in BOOLEAN /\ queue \in Nat
  BY BatchOK DEF ui, ClientInv, TypeOK
<1>1. CASE Connected
  <2>1. UNCHANGED <<peer, server, ackDue, down, queue, conns>> /\ Return(t) BY <1>1 DEF Connect, host
  <2>2. SameConns BY <1>b, <2>1, ConnsUnchanged
  <2>3. (NewsOK(batch))' BY <1>b, <2>1 DEF NewsOK, Last
  <2>4. QuietPc BY <1>a, <2>1, ReturnIs DEF QuietPc, Calls, Threads, ClientInv, Alone
  <2> QED BY <1>b, <2>1, <2>2, <2>3, <2>4, QuietKeeps
<1>2. CASE ~Connected /\ peer # "free"
  <2>1. UNCHANGED <<peer, ackDue, down, queue, conns>> /\ Return(t) /\ server' = FALSE BY <1>2 DEF Connect
  <2>2. /\ DOMAIN pc' = Threads /\ pc'["main"] \in MainLabels /\ pc'["worker"] \in WorkerLabels
        /\ pc'[t] = IF t = "main" THEN "frame" ELSE "none"
        /\ \A o \in Threads \ {t} : pc'[o] = pc[o]
    BY <1>a, <2>1, ReturnIs
  <2>3. Last' = Last BY <2>1 DEF Last
  <2>4. TypeOK' BY <1>b, <2>1, <2>2, <2>3 DEF TypeOK
  <2>5. Belongs' /\ Verified' BY <1>b, <2>1, <2>3 DEF ClientInv, Belongs, Verified
  <2>6. Alone' BY <1>a, <1>b, <2>1, <2>2, <2>3 DEF ClientInv, Alone, Calls, Threads
  <2>7. player # "hasty" => peer \notin {"connecting", "up"}
    BY <1>2 DEF ClientInv, Usable, Calls, Connected, Threads
  <2>8. Usable' BY <1>a, <1>b, <2>1, <2>2, <2>7 DEF ClientInv, Usable, Calls, Threads
  <2> QED BY <2>4, <2>5, <2>6, <2>8 DEF ClientInv
<1>3. CASE ~Connected /\ peer = "free"
  <2>1. /\ peer' = "connecting" /\ server' = TRUE /\ ackDue' = FALSE /\ down' = <<>>
        /\ Goto(t, "connecting") /\ queue' = queue
        /\ conns' = Append(conns, [to |-> to, slot |-> 0, st |-> "asked",
                                   player |-> FALSE, named |-> FALSE, up |-> <<>>])
    BY <1>3 DEF Connect
  <2>2. "connecting" \in MainLabels /\ "connecting" \in WorkerLabels BY DEF MainLabels, WorkerLabels
  <2>3. /\ DOMAIN pc' = Threads /\ pc'["main"] \in MainLabels /\ pc'["worker"] \in WorkerLabels
        /\ pc'[t] = "connecting" /\ \A o \in Threads \ {t} : pc'[o] = pc[o]
    BY <1>a, <2>1, <2>2, GotoIs
  <2>4. /\ conns' \in Seq(Conn) /\ Last' = Last + 1 /\ (NewsOK(batch))'
        /\ \A c \in 1 .. Last : conns'[c] = conns[c]
        /\ conns'[Last'].to = to
    BY <1>a, <1>b, <2>1, NewConnOK
  <2>5. Last \in Nat BY <1>b DEF TypeOK, Last
  <2>6. batch' \in Seq([kind : {"CONNECT", "INIT", "P2P_SIGNAL"}, conn : 0 .. Last']) BY <2>4 DEF NewsOK, News
  <2>7. down' \in Seq({"VERIFY", "INIT", "P2P_SIGNAL", "BYE"}) /\ Len(down') = 0 BY <2>1
  <2>8. TypeOK' BY <1>b, <2>1, <2>3, <2>4, <2>6, <2>7 DEF TypeOK
  <2>9. Belongs' /\ Verified' BY <1>b, <2>1, <2>4, <2>5, <2>7 DEF Belongs, Verified, NewsOK
  <2>10. Alone'
    <3> SUFFICES ASSUME player = "direct" PROVE Alone' BY <1>b DEF Alone
    <3>1. t = "main" /\ to = "remote" BY DEF Calls
    <3>2. \A c \in 1 .. Last' : c \in 1 .. Last \/ c = Last' BY <2>4, <2>5
    <3>3. \A c \in 1 .. Last' : conns'[c].to = "remote" BY <2>4, <3>1, <3>2 DEF ClientInv, Alone
    <3>4. pc'["worker"] = "none" /\ crashed' = FALSE
      BY <1>b, <2>3, <3>1 DEF ClientInv, TypeOK, Alone, Threads
    <3>5. \A i \in 1 .. Len(down') : down'[i] # "P2P_SIGNAL" BY <2>7
    <3>6. \A i \in 1 .. Len(batch') : batch'[i].kind # "P2P_SIGNAL" BY <1>b DEF NewsOK
    <3> QED BY <2>1, <3>3, <3>4, <3>5, <3>6 DEF Alone
  <2>11. Usable' BY <1>a, <1>b, <2>1, <2>3 DEF ClientInv, Usable, Calls, Threads
  <2> QED BY <2>8, <2>9, <2>10, <2>11 DEF ClientInv
<1> QED BY <1>1, <1>2, <1>3

\* disconnect begins only when connected, so never in another thread's handshake.
LEMMA DisconnectKeeps ==
  ASSUME ClientInv, NEW t \in Threads, NEW label \in {"leaving", "exiting"}, Connected, Disconnect(t, label),
         t = "worker" => label = "leaving" /\ player # "direct",
         t = "worker" /\ player # "hasty" => pc["main"] \notin {"connecting", "push"},
         UNCHANGED <<ui, player, drops, crashed>>
  PROVE  ClientInv'
<1>b. /\ UNCHANGED <<batch, scene, next, myPlayerId>> /\ t \in {"main", "worker"}
      /\ TypeOK /\ NewsOK(batch) /\ server /\ peer = "up"
      /\ scene \in {"menu", "game"} /\ next \in {"none", "menu", "game"} /\ myPlayerId \in Slots \cup {0}
  BY BatchOK DEF ui, ClientInv, TypeOK, Threads, Connected
<1>1. /\ peer' = "leaving" /\ down' = <<>> /\ ackDue' = FALSE /\ conns' = Post(conns, "BYE")
      /\ Goto(t, label) /\ UNCHANGED <<server, queue>>
  BY DEF Disconnect
<1>2. "BYE" \in Wires /\ label \in MainLabels /\ (t = "worker" => label \in WorkerLabels)
  BY DEF Wires, MainLabels, WorkerLabels
<1>3. SameConns BY <1>b, <1>1, <1>2, PostIs DEF SameConns
<1>4. /\ DOMAIN pc' = Threads /\ pc'["main"] \in MainLabels /\ pc'["worker"] \in WorkerLabels
      /\ pc'[t] = label /\ \A o \in Threads \ {t} : pc'[o] = pc[o]
  BY <1>1, <1>2, GotoIs
<1>5. Last' = Last BY <1>3 DEF SameConns, Last
<1>6. down' \in Seq({"VERIFY", "INIT", "P2P_SIGNAL", "BYE"}) /\ Len(down') = 0 BY <1>1
<1>7. TypeOK' BY <1>b, <1>1, <1>3, <1>4, <1>5, <1>6 DEF TypeOK, SameConns
<1>8. Belongs' /\ Verified' BY <1>b, <1>1, <1>5, <1>6 DEF ClientInv, Belongs, Verified
<1>9. Alone' BY <1>b, <1>1, <1>3, <1>4, <1>5, <1>6 DEF ClientInv, Alone, SameConns, Threads
<1>10. Usable' BY <1>b, <1>1, <1>4 DEF ClientInv, Usable, Threads
<1> QED BY <1>7, <1>8, <1>9, <1>10 DEF ClientInv

\* The peer's end, by the DISCONNECT event or by a reset: nothing is left in down.
Freed ==
    \/ peer' = "free" /\ server' = FALSE /\ UNCHANGED crashed
         /\ (down' = <<>> \/ (down # <<>> /\ down' = Tail(down)))
    \/ ~server /\ crashed' = TRUE /\ UNCHANGED <<peer, server, down>>

\* A call that ends: the thread goes on, and the peer is free, unless server_ was null.
LEMMA FreedKeeps ==
  ASSUME ClientInv, Freed, SameConns, NEW t \in Threads, NEW label, Goto(t, label),
         pc[t] \in {"connecting", "leaving", "exiting"},
         t = "main" => label \in {"poll", "frame"}, t = "worker" => label \in {"none", "reconnect"},
         UNCHANGED <<queue, batch, myPlayerId, player, drops>>, ackDue' \in BOOLEAN,
         scene' \in {"menu", "game"}, next' \in {"none", "menu", "game"}
  PROVE  ClientInv'
<1>b. /\ t \in {"main", "worker"} /\ TypeOK /\ NewsOK(batch)
      /\ myPlayerId \in Slots \cup {0} /\ queue \in Nat /\ Last \in Nat
  BY BatchOK DEF ClientInv, TypeOK, Threads, Last
<1>c. /\ queue' = queue /\ batch' = batch /\ myPlayerId' = myPlayerId /\ player' = player /\ drops' = drops
      /\ conns' \in Seq(Conn)
  BY DEF SameConns
<1>1. (t = "main" => label \in MainLabels) /\ (t = "worker" => label \in WorkerLabels)
  BY DEF MainLabels, WorkerLabels
<1>2. /\ DOMAIN pc' = Threads /\ pc'["main"] \in MainLabels /\ pc'["worker"] \in WorkerLabels
      /\ pc'[t] = label /\ \A o \in Threads \ {t} : pc'[o] = pc[o]
  BY <1>1, GotoIs
<1>3. Last' = Last BY DEF SameConns, Last
<1>4. /\ down' \in Seq(Arrivals)
      /\ down' # <<>> => down # <<>>
      /\ \A i \in 1 .. Len(down') : \/ i \in 1 .. Len(down) /\ down'[i] = down[i] /\ peer' = peer
                                    \/ i + 1 \in 1 .. Len(down) /\ down'[i] = down[i + 1]
  <2>1. down \in Seq(Arrivals) BY <1>b DEF TypeOK, Arrivals
  <2>2. CASE down' = down /\ peer' = peer BY <2>1, <2>2
  <2>3. CASE down' = <<>> BY <2>3
  <2>4. CASE down # <<>> /\ down' = Tail(down)
    <3>1. /\ Tail(down) \in Seq(Arrivals) /\ Len(down) \in Nat /\ Len(Tail(down)) = Len(down) - 1
          /\ \A i \in 1 .. Len(down) - 1 : Tail(down)[i] = down[i + 1]
      BY <2>1, <2>4
    <3>2. ASSUME NEW i \in 1 .. Len(down') PROVE i + 1 \in 1 .. Len(down) /\ down'[i] = down[i + 1]
      BY <2>4, <3>1
    <3> QED BY <2>4, <3>1, <3>2
  <2> QED BY <2>2, <2>3, <2>4 DEF Freed
<1>5. /\ peer' \in {"free", "connecting", "up", "leaving"} /\ server' \in BOOLEAN /\ crashed' \in BOOLEAN
      /\ peer' # "free" => peer # "free" /\ peer' = peer
  BY <1>b DEF Freed, TypeOK
<1>6. TypeOK' BY <1>b, <1>c, <1>2, <1>3, <1>4, <1>5 DEF TypeOK, Arrivals
<1>7. Belongs' BY <1>c, <1>3, <1>4, <1>5 DEF ClientInv, Belongs
<1>8. Verified'
  <2>1. \A i \in 1 .. Len(down') : down'[i] = "VERIFY" => i = 1 /\ peer' = "connecting"
    BY <1>4 DEF ClientInv, Verified
  <2>2. peer' = "connecting" => peer = "connecting" /\ down' = down /\ Last \in 1 .. Last
    BY <1>b, <1>5 DEF Freed, ClientInv, Belongs
  <2> QED BY <1>3, <2>1, <2>2 DEF ClientInv, Verified, SameConns
<1>9. Alone'
  <2> SUFFICES ASSUME player = "direct" PROVE Alone' BY DEF Alone
  <2>1. pc["worker"] = "none" /\ t = "main" /\ server /\ ~crashed BY <1>b DEF ClientInv, Alone
  <2>2. pc'["worker"] = "none" /\ pc'["main"] \in {"poll", "frame"} /\ crashed' = FALSE
    BY <1>2, <1>b, <2>1 DEF Freed, Threads, TypeOK
  <2>3. \A i \in 1 .. Len(down') : down'[i] # "P2P_SIGNAL" BY <1>4 DEF ClientInv, Alone
  <2> QED BY <1>3, <2>2, <2>3 DEF ClientInv, Alone, SameConns
<1>10. Usable'
  <2> SUFFICES ASSUME player # "hasty" PROVE Usable' BY DEF Usable
  <2>1. peer' \notin {"connecting", "up"} BY DEF Freed, ClientInv, Usable
  <2>2. pc'["main"] \in {"connecting", "push"} => pc'["worker"] = "none"
    BY <1>2, <1>b DEF ClientInv, Usable, Threads
  <2> QED BY <2>1, <2>2 DEF Usable
<1> QED BY <1>6, <1>7, <1>8, <1>9, <1>10 DEF ClientInv

\* Taking what has arrived: the handshake is taken first or not at all.
LEMMA TakenIs ==
  ASSUME ClientInv, down # <<>>
  PROVE  /\ Head(down) \in Arrivals /\ Tail(down) \in Seq(Arrivals) /\ Last >= 1
         /\ Head(down) = "VERIFY" => peer = "connecting"
         /\ player = "direct" => Head(down) # "P2P_SIGNAL"
         /\ \A i \in 1 .. Len(Tail(down)) : /\ Tail(down)[i] # "VERIFY"
                                            /\ player = "direct" => Tail(down)[i] # "P2P_SIGNAL"
<1>1. down \in Seq(Arrivals) BY DEF ClientInv, TypeOK, Arrivals
<1>2. /\ Head(down) = down[1] /\ 1 \in 1 .. Len(down) /\ Head(down) \in Arrivals
      /\ Tail(down) \in Seq(Arrivals) /\ Len(down) \in Nat /\ Len(Tail(down)) = Len(down) - 1
      /\ \A i \in 1 .. Len(down) - 1 : Tail(down)[i] = down[i + 1]
  BY <1>1
<1>3. ASSUME NEW i \in 1 .. Len(Tail(down))
      PROVE  Tail(down)[i] # "VERIFY" /\ (player = "direct" => Tail(down)[i] # "P2P_SIGNAL")
  <2>1. i + 1 \in 1 .. Len(down) /\ Tail(down)[i] = down[i + 1] /\ i + 1 # 1 BY <1>2
  <2> QED BY <2>1 DEF ClientInv, Verified, Alone
<1> QED BY <1>2, <1>3 DEF ClientInv, Verified, Alone, Belongs

LEMMA PollEventKeeps == ASSUME ClientInv, PollEvent PROVE ClientInv'
<1>a. /\ pc["main"] = "poll" /\ ~crashed /\ down # <<>> /\ down' = Tail(down)
      /\ conns' = Acknowledged(conns) /\ ackDue' = (Head(down) = "VERIFY")
      /\ pc' = pc /\ queue' = queue /\ scene' = scene /\ next' = next /\ myPlayerId' = myPlayerId
      /\ player' = player /\ drops' = drops /\ crashed' = crashed
  BY DEF PollEvent, Main
<1>b. TypeOK /\ NewsOK(batch) /\ Last \in Nat BY BatchOK DEF ClientInv, TypeOK, Last
<1>1. /\ Head(down) \in Arrivals /\ Tail(down) \in Seq(Arrivals) /\ Last >= 1
      /\ Head(down) = "VERIFY" => peer = "connecting"
      /\ player = "direct" => Head(down) # "P2P_SIGNAL"
      /\ \A i \in 1 .. Len(Tail(down)) : /\ Tail(down)[i] # "VERIFY"
                                         /\ player = "direct" => Tail(down)[i] # "P2P_SIGNAL"
  BY <1>a, TakenIs
<1>2. SameConns BY <1>a, <1>b, PostIs DEF SameConns
<1>3. Last' = Last BY <1>2 DEF SameConns, Last
<1>4. /\ peer' \in {"free", "connecting", "up", "leaving"} /\ server' \in BOOLEAN /\ NewsOK(batch')
      /\ peer' = "connecting" => peer = "connecting"
      /\ peer' = "up" => server' = server /\ peer \in {"connecting", "up"}
      /\ peer' = "connecting" => server' = server
  <2>1. CASE Head(down) = "VERIFY"
    <3>1. peer' = "up" /\ server' = server /\ batch' = batch BY <2>1 DEF PollEvent
    <3> QED BY <1>1, <1>b, <2>1, <3>1 DEF TypeOK
  <2>2. CASE Head(down) = "BYE"
    <3>1. peer' = "free" /\ server' = FALSE /\ batch' = batch BY <2>2 DEF PollEvent
    <3> QED BY <1>b, <3>1
  <2>3. CASE Head(down) = "INIT"
    <3>1. batch' = Append(batch, Msg("INIT")) /\ peer' = peer /\ server' = server BY <2>3 DEF PollEvent
    <3> QED BY <1>1, <1>b, <3>1, AppendOK DEF TypeOK
  <2>4. CASE Head(down) = "P2P_SIGNAL"
    <3>1. batch' = Append(batch, Msg("P2P_SIGNAL")) /\ peer' = peer /\ server' = server BY <2>4 DEF PollEvent
    <3> QED BY <1>1, <1>b, <2>4, <3>1, AppendOK DEF TypeOK
  <2> QED BY <1>1, <2>1, <2>2, <2>3, <2>4 DEF Arrivals
<1>5. (NewsOK(batch))' BY <1>a, <1>3, <1>4 DEF NewsOK
<1>6. batch' \in Seq([kind : {"CONNECT", "INIT", "P2P_SIGNAL"}, conn : 0 .. Last']) BY <1>5 DEF NewsOK, News
<1>7. TypeOK' BY <1>a, <1>b, <1>1, <1>2, <1>4, <1>6 DEF TypeOK, SameConns, Arrivals
<1>8. Belongs' BY <1>1, <1>3, <1>5 DEF Belongs, NewsOK
<1>9. Verified'
  <2>1. peer = "connecting" => conns[Last].st # "asked" BY <1>a DEF ClientInv, Verified
  <2>2. Last \in 1 .. Last BY <1>b, <1>1
  <2> QED BY <1>a, <1>1, <1>2, <1>3, <1>4, <2>1, <2>2 DEF Verified, SameConns
<1>10. Alone' BY <1>a, <1>1, <1>2, <1>3, <1>5 DEF ClientInv, Alone, SameConns, NewsOK
<1>11. Usable' BY <1>a, <1>4 DEF ClientInv, Usable
<1> QED BY <1>7, <1>8, <1>9, <1>10, <1>11 DEF ClientInv

LEMMA ConnectSucceedsKeeps == ASSUME ClientInv, NEW t \in Threads, ConnectSucceeds(t) PROVE ClientInv'
<1>a. /\ pc[t] = "connecting" /\ down # <<>> /\ Head(down) = "VERIFY"
      /\ peer' = "up" /\ ackDue' = TRUE /\ down' = Tail(down) /\ Goto(t, "push")
      /\ server' = server /\ queue' = queue /\ conns' = conns /\ batch' = batch
      /\ scene' = scene /\ next' = next /\ myPlayerId' = myPlayerId
      /\ player' = player /\ drops' = drops /\ crashed' = crashed
  BY DEF ConnectSucceeds, ui
<1>b. TypeOK /\ t \in {"main", "worker"} BY DEF ClientInv, Threads
<1>1. /\ Tail(down) \in Seq(Arrivals) /\ Last >= 1 /\ peer = "connecting"
      /\ \A i \in 1 .. Len(Tail(down)) : /\ Tail(down)[i] # "VERIFY"
                                         /\ player = "direct" => Tail(down)[i] # "P2P_SIGNAL"
  BY <1>a, TakenIs
<1>2. "push" \in MainLabels /\ "push" \in WorkerLabels BY DEF MainLabels, WorkerLabels
<1>3. /\ DOMAIN pc' = Threads /\ pc'["main"] \in MainLabels /\ pc'["worker"] \in WorkerLabels
      /\ pc'[t] = "push" /\ \A o \in Threads \ {t} : pc'[o] = pc[o]
  BY <1>a, <1>2, GotoIs
<1>4. Last' = Last BY <1>a DEF Last
<1>5. TypeOK' BY <1>a, <1>b, <1>1, <1>3, <1>4 DEF TypeOK, Arrivals
<1>6. Belongs' BY <1>a, <1>1, <1>4 DEF ClientInv, Belongs
<1>7. Verified' BY <1>a, <1>1, <1>4 DEF ClientInv, Verified
<1>8. Alone' BY <1>a, <1>b, <1>1, <1>3, <1>4 DEF ClientInv, Alone, Threads
<1>9. Usable' BY <1>a, <1>b, <1>1, <1>3 DEF ClientInv, Usable, Threads
<1> QED BY <1>5, <1>6, <1>7, <1>8, <1>9 DEF ClientInv

-----------------------------------------------------------------------------
(* The servers' side.                                                      *)

\* The server of connection c has done something, by which it is not "asked" any more.
OneServed(c) ==
    /\ c \in 1 .. Last /\ conns' = [d \in 1 .. Last |-> conns'[d]]
    /\ \A d \in 1 .. Last : d # c => conns'[d] = conns[d]
    /\ conns'[c] \in Conn /\ conns'[c].to = conns[c].to /\ conns'[c].st # "asked"

\* What arrives by it.
Arrives(c) ==
    \/ down' = down
    \/ c = Last /\ peer = "connecting" /\ conns[c].st = "asked" /\ down' = Append(down, "VERIFY")
    \/ /\ c = Last /\ peer \in {"connecting", "up"} /\ conns[c].st # "asked"
       /\ \E m \in {"INIT", "P2P_SIGNAL", "BYE"} :
            down' = Append(down, m) /\ (player = "direct" => m # "P2P_SIGNAL")
    \/ peer = "leaving" /\ down' = <<"BYE">>

LEMMA ServersKeep ==
  ASSUME ClientInv, NEW c, OneServed(c), Arrives(c),
         UNCHANGED <<pc, peer, server, ackDue, queue, ui, player, crashed>>, drops' \in 0 .. MaxDrops
  PROVE  ClientInv'
<1>a. /\ pc' = pc /\ peer' = peer /\ server' = server /\ ackDue' = ackDue /\ queue' = queue /\ batch' = batch
      /\ scene' = scene /\ next' = next /\ myPlayerId' = myPlayerId /\ player' = player /\ crashed' = crashed
      /\ TypeOK /\ NewsOK(batch) /\ Last \in Nat /\ c \in 1 .. Last
  BY BatchOK DEF ui, ClientInv, TypeOK, Last, OneServed
<1>1. conns' \in Seq(Conn) /\ Len(conns') = Last
  <2>1. ASSUME NEW d \in 1 .. Last PROVE conns'[d] \in Conn
    <3>1. conns \in Seq(Conn) BY <1>a DEF TypeOK
    <3> QED BY <3>1 DEF OneServed, Last
  <2>2. conns' \in [1 .. Last -> Conn] BY <2>1 DEF OneServed
  <2> QED BY <1>a, <2>2
<1>2. Last' = Last BY <1>1 DEF Last
<1>3. \A d \in 1 .. Last : conns'[d].to = conns[d].to BY DEF OneServed
<1>4. /\ down' \in Seq(Arrivals) /\ (down' # <<>> => Last >= 1)
      /\ \A i \in 1 .. Len(down') : down'[i] = "VERIFY" => i = 1 /\ peer = "connecting"
      /\ player = "direct" => \A i \in 1 .. Len(down') : down'[i] # "P2P_SIGNAL"
  <2>1. down \in Seq(Arrivals) BY <1>a DEF TypeOK, Arrivals
  <2>2. CASE down' = down BY <1>a, <2>1, <2>2 DEF ClientInv, Verified, Alone
  <2>3. CASE peer = "connecting" /\ conns[Last].st = "asked" /\ down' = Append(down, "VERIFY")
    <3>1. down = <<>> BY <2>3 DEF ClientInv, Verified
    <3>2. down' = <<"VERIFY">> BY <2>3, <3>1
    <3>3. "VERIFY" \in Arrivals BY DEF Arrivals
    <3>4. down' \in Seq(Arrivals) /\ Len(down') = 1 /\ down'[1] = "VERIFY" BY <3>2, <3>3
    <3>5. \A i \in 1 .. Len(down') : i = 1 BY <3>4
    <3> QED BY <1>a, <2>3, <3>4, <3>5
  <2>4. CASE \E m \in {"INIT", "P2P_SIGNAL", "BYE"} : down' = Append(down, m) /\ (player = "direct" => m # "P2P_SIGNAL")
    <3> PICK m \in {"INIT", "P2P_SIGNAL", "BYE"} : down' = Append(down, m) /\ (player = "direct" => m # "P2P_SIGNAL")
      BY <2>4
    <3>1. m \in Arrivals /\ m # "VERIFY" BY DEF Arrivals
    <3>2. /\ down' \in Seq(Arrivals) /\ Len(down) \in Nat /\ Len(down') = Len(down) + 1 /\ down'[Len(down) + 1] = m
          /\ \A i \in 1 .. Len(down) : down'[i] = down[i]
      BY <2>1, <3>1
    <3>3. \A i \in 1 .. Len(down') : i \in 1 .. Len(down) \/ i = Len(down) + 1 BY <3>2
    <3>4. \A i \in 1 .. Len(down') : down'[i] = "VERIFY" => i = 1 /\ peer = "connecting"
      BY <3>1, <3>2, <3>3 DEF ClientInv, Verified
    <3>5. player = "direct" => \A i \in 1 .. Len(down') : down'[i] # "P2P_SIGNAL"
      BY <3>2, <3>3 DEF ClientInv, Alone
    <3> QED BY <1>a, <3>2, <3>4, <3>5
  <2>5. CASE down' = <<"BYE">> BY <1>a, <2>5 DEF Arrivals
  <2>6. \/ down' = down
        \/ peer = "connecting" /\ conns[Last].st = "asked" /\ down' = Append(down, "VERIFY")
        \/ \E m \in {"INIT", "P2P_SIGNAL", "BYE"} :
             down' = Append(down, m) /\ (player = "direct" => m # "P2P_SIGNAL")
        \/ down' = <<"BYE">>
    BY DEF Arrives
  <2> QED BY <2>2, <2>3, <2>4, <2>5, <2>6
<1>5. (NewsOK(batch))' BY <1>a, <1>2 DEF NewsOK
<1>6. batch' \in Seq([kind : {"CONNECT", "INIT", "P2P_SIGNAL"}, conn : 0 .. Last']) BY <1>5 DEF NewsOK, News
<1>7. TypeOK' BY <1>a, <1>1, <1>2, <1>4, <1>6 DEF TypeOK, Arrivals
<1>8. Belongs' BY <1>a, <1>2, <1>4 DEF ClientInv, Belongs
<1>9. Verified'
  <2>1. ASSUME peer = "connecting", conns'[Last].st = "asked" PROVE down' = <<>>
    <3>1. c # Last BY <2>1 DEF OneServed
    <3>2. down' = down BY <2>1, <3>1 DEF Arrives
    <3>3. Last \in 1 .. Last BY <1>a
    <3>4. conns[Last].st = "asked" BY <2>1, <3>1, <3>3 DEF OneServed
    <3> QED BY <2>1, <3>2, <3>4 DEF ClientInv, Verified
  <2> QED BY <1>a, <1>2, <1>4, <2>1 DEF Verified
<1>10. Alone' BY <1>a, <1>2, <1>3, <1>4 DEF ClientInv, Alone
<1>11. Usable' BY <1>a DEF ClientInv, Usable
<1> QED BY <1>7, <1>8, <1>9, <1>10, <1>11 DEF ClientInv

LEMMA ServersStep ==
  ASSUME ClientInv, NEW c \in 1 .. Last,
         \/ Accept(c) \/ ServerConnects(c) \/ ServerTakesJoin(c) \/ ServerTakesRequest(c)
         \/ ServerTakesBye(c) \/ ServerDrops(c) \/ ServerTimesOut(c)
  PROVE  ClientInv'
<1> DEFINE r == conns[c]
<1>a. TypeOK /\ Last \in Nat /\ drops \in 0 .. MaxDrops /\ conns \in Seq(Conn) /\ DOMAIN conns = 1 .. Last
  BY DEF ClientInv, TypeOK, Last
<1>b. r \in Conn BY <1>a
<1>c. /\ r.to \in {"remote", "local", "master"} /\ r.slot \in Slots \cup {0} /\ r.player \in BOOLEAN /\ r.named \in BOOLEAN
      /\ r.up \in Seq(Wires)
      /\ r = [to |-> r.to, slot |-> r.slot, st |-> r.st, player |-> r.player, named |-> r.named, up |-> r.up]
  BY <1>b DEF Conn, Wires
<1>d. r.up # <<>> => Tail(r.up) \in Seq(Wires) BY <1>c
<1>e. <<>> \in Seq(Wires) OBVIOUS
<1>f. ASSUME NEW slot \in Slots \cup {0}, NEW st \in {"acking", "up", "gone"}, NEW p \in BOOLEAN, NEW nm \in BOOLEAN,
             NEW up \in Seq(Wires),
             conns' = [d \in 1 .. Last |-> conns'[d]], \A d \in 1 .. Last : d # c => conns'[d] = conns[d],
             conns'[c] = [to |-> r.to, slot |-> slot, st |-> st, player |-> p, named |-> nm, up |-> up]
      PROVE  OneServed(c)
  <2>1. conns'[c] \in Conn /\ conns'[c].to = r.to /\ conns'[c].st # "asked" BY <1>c, <1>f DEF Conn, Wires
  <2> QED BY <1>f, <2>1 DEF OneServed
<1>g. player = "direct" => IsGame(c) BY DEF ClientInv, Alone, IsGame
<1>h. IsGame(c) \in BOOLEAN BY DEF IsGame
<1>1. CASE Accept(c)
  <2>1. PICK s \in Slots \cup {0} : conns' = [conns EXCEPT ![c].st = "acking", ![c].slot = s] BY <1>1 DEF Accept
  <2>2. /\ conns' = [d \in 1 .. Last |-> conns'[d]]
        /\ \A d \in 1 .. Last : d # c => conns'[d] = conns[d]
    BY <1>a, <2>1
  <2>3. conns'[c] = [to |-> r.to, slot |-> s, st |-> "acking",
                     player |-> r.player, named |-> r.named, up |-> r.up]
    BY <1>a, <1>c, <2>1
  <2>5. OneServed(c) BY <1>c, <1>f, <2>2, <2>3
  <2>6. Arrives(c) BY <1>1 DEF Accept, Reaches, Arrives
  <2> QED BY <1>1, <1>a, <2>5, <2>6, ServersKeep DEF Accept
<1>2. CASE ServerConnects(c)
  <2>1. conns' = [conns EXCEPT ![c].st = "up", ![c].player = IsGame(c), ![c].up = Tail(@)]
        /\ r.st = "acking" /\ r.up # <<>>
    BY <1>2 DEF ServerConnects, Receives
  <2> DEFINE u == Tail(r.up)
             g == IsGame(c)
  <2>2. /\ conns' = [d \in 1 .. Last |-> conns'[d]]
        /\ \A d \in 1 .. Last : d # c => conns'[d] = conns[d]
    BY <1>a, <2>1
  <2>3. conns'[c] = [to |-> r.to, slot |-> r.slot, st |-> "up",
                     player |-> g, named |-> r.named, up |-> u]
    BY <1>a, <1>c, <2>1
  <2>4. u \in Seq(Wires) /\ g \in BOOLEAN BY <1>d, <1>h, <2>1
  <2> HIDE DEF u, g, r
  <2>5. OneServed(c) BY <1>c, <1>f, <2>2, <2>3, <2>4
  <2> USE DEF u, g, r
  <2>6. Arrives(c) BY <1>2, <2>1 DEF ServerConnects, Reaches, Arrives
  <2> QED BY <1>2, <1>a, <2>5, <2>6, ServersKeep DEF ServerConnects
<1>3. CASE ServerTakesJoin(c)
  <2>1. conns' = [conns EXCEPT ![c].player = IsGame(c), ![c].named = IsGame(c), ![c].up = Tail(@)]
        /\ r.st = "up" /\ r.up # <<>>
    BY <1>3 DEF ServerTakesJoin, Receives
  <2> DEFINE u == Tail(r.up)
             g == IsGame(c)
  <2>2. /\ conns' = [d \in 1 .. Last |-> conns'[d]]
        /\ \A d \in 1 .. Last : d # c => conns'[d] = conns[d]
    BY <1>a, <2>1
  <2>3. conns'[c] = [to |-> r.to, slot |-> r.slot, st |-> "up",
                     player |-> g, named |-> g, up |-> u]
    BY <1>a, <1>c, <2>1
  <2>4. u \in Seq(Wires) /\ g \in BOOLEAN BY <1>d, <1>h, <2>1
  <2> HIDE DEF u, g, r
  <2>5. OneServed(c) BY <1>c, <1>f, <2>2, <2>3, <2>4
  <2> USE DEF u, g, r
  <2>6. Arrives(c) BY <1>3, <2>1 DEF ServerTakesJoin, Reaches, Arrives
  <2> QED BY <1>3, <1>a, <2>5, <2>6, ServersKeep DEF ServerTakesJoin
<1>4. CASE ServerTakesRequest(c)
  <2>1. conns' = [conns EXCEPT ![c].up = Tail(@)] /\ r.st = "up" /\ r.up # <<>>
    BY <1>4 DEF ServerTakesRequest, Receives
  <2> DEFINE u == Tail(r.up)
             g == IsGame(c)
  <2>2. /\ conns' = [d \in 1 .. Last |-> conns'[d]]
        /\ \A d \in 1 .. Last : d # c => conns'[d] = conns[d]
    BY <1>a, <2>1
  <2>3. conns'[c] = [to |-> r.to, slot |-> r.slot, st |-> "up",
                     player |-> r.player, named |-> r.named, up |-> u]
    BY <1>a, <1>c, <2>1
  <2>4. u \in Seq(Wires) /\ g \in BOOLEAN BY <1>d, <1>h, <2>1
  <2> HIDE DEF u, g, r
  <2>5. OneServed(c) BY <1>c, <1>f, <2>2, <2>3, <2>4
  <2> USE DEF u, g, r
  <2>6. Arrives(c) BY <1>4, <1>g, <2>1 DEF ServerTakesRequest, Reaches, Arrives
  <2> QED BY <1>4, <1>a, <2>5, <2>6, ServersKeep DEF ServerTakesRequest
<1>5. CASE ServerTakesBye(c) \/ ServerDrops(c) \/ ServerTimesOut(c)
  <2>1. conns' = [conns EXCEPT ![c].st = "gone", ![c].player = FALSE, ![c].up = <<>>] /\ r.st \in {"acking", "up"}
    BY <1>5 DEF ServerTakesBye, ServerDrops, ServerTimesOut
  <2>2. /\ conns' = [d \in 1 .. Last |-> conns'[d]]
        /\ \A d \in 1 .. Last : d # c => conns'[d] = conns[d]
    BY <1>a, <2>1
  <2>3. conns'[c] = [to |-> r.to, slot |-> r.slot, st |-> "gone",
                     player |-> FALSE, named |-> r.named, up |-> <<>>]
    BY <1>a, <1>c, <2>1
  <2>5. OneServed(c) BY <1>c, <1>e, <1>f, <2>2, <2>3
  <2>6. Arrives(c) BY <1>5, <2>1 DEF ServerTakesBye, ServerDrops, ServerTimesOut, Reaches, Arrives, host
  <2>7. drops' \in 0 .. MaxDrops
    BY <1>5, <1>a, ClientAssumption DEF ServerTakesBye, ServerDrops, ServerTimesOut
  <2> QED BY <1>5, <2>5, <2>6, <2>7, ServersKeep DEF ServerTakesBye, ServerDrops, ServerTimesOut, host
<1> QED BY <1>1, <1>2, <1>3, <1>4, <1>5

-----------------------------------------------------------------------------
(* The steps.                                                              *)

LEMMA ClientInitCorrect == Init => ClientInv
<1> SUFFICES ASSUME Init PROVE ClientInv OBVIOUS
<1>1. /\ down = <<>> /\ batch = <<>> /\ conns = <<>> /\ peer = "free" /\ server = FALSE /\ ackDue = FALSE
      /\ queue = 0 /\ drops = 0 /\ crashed = FALSE /\ scene = "menu" /\ next = "none" /\ myPlayerId = 0
      /\ player \in Players /\ pc = [main |-> "frame", worker |-> "none"]
  BY DEF Init
<1>2. /\ Len(down) = 0 /\ Len(batch) = 0 /\ Last = 0
      /\ down \in Seq({"VERIFY", "INIT", "P2P_SIGNAL", "BYE"}) /\ conns \in Seq(Conn)
      /\ batch \in Seq([kind: {"CONNECT", "INIT", "P2P_SIGNAL"}, conn: 0 .. Last])
  BY <1>1 DEF Last
<1>3. pc["main"] = "frame" /\ pc["worker"] = "none" /\ DOMAIN pc = Threads BY <1>1 DEF Threads
<1>4. TypeOK
  <2>1. pc["main"] \in MainLabels /\ pc["worker"] \in WorkerLabels /\ DOMAIN pc = Threads
    BY <1>3 DEF MainLabels, WorkerLabels
  <2>2. MaxDrops \in Nat BY ClientAssumption
  <2>3. drops \in 0 .. MaxDrops /\ queue \in Nat BY <1>1, <2>2
  <2>4. /\ peer \in {"free", "connecting", "up", "leaving"}
        /\ server \in BOOLEAN /\ ackDue \in BOOLEAN /\ crashed \in BOOLEAN
        /\ scene \in {"menu", "game"} /\ next \in {"none", "menu", "game"}
        /\ myPlayerId \in Slots \cup {0}
    BY <1>1
  <2> QED BY <1>1, <1>2, <2>1, <2>3, <2>4 DEF TypeOK
<1>5. Belongs /\ Verified /\ Alone /\ Usable BY <1>1, <1>2, <1>3 DEF Belongs, Verified, Alone, Usable
<1> QED BY <1>4, <1>5 DEF ClientInv

LEMMA DisconnectedIs ==
  ASSUME ClientInv, Disconnected PROVE Freed /\ ackDue' \in BOOLEAN
<1>1. ackDue \in BOOLEAN /\ server \in BOOLEAN BY DEF ClientInv, TypeOK
<1>2. CASE down # <<>> /\ Head(down) = "BYE" /\ peer' = "free" /\ server' = FALSE /\ down' = Tail(down)
           /\ UNCHANGED <<ackDue, crashed>>
  BY <1>1, <1>2 DEF Freed
<1>3. CASE Reset /\ server
  <2>1. peer' = "free" /\ down' = <<>> /\ ackDue' = FALSE /\ server' = FALSE /\ crashed' = crashed
    BY <1>3 DEF Reset
  <2> QED BY <2>1 DEF Freed
<1>4. CASE Reset /\ ~server
  <2>1. crashed' = TRUE /\ UNCHANGED <<peer, down, ackDue, server>> BY <1>4 DEF Reset
  <2> QED BY <1>1, <1>4, <2>1 DEF Freed
<1> QED BY <1>2, <1>3, <1>4 DEF Disconnected

\* The frame loop moves on while nothing but it has moved.
LEMMA FrameMoves ==
  ASSUME ClientInv, NEW label \in {"frame", "poll", "handle", "draw"}, Goto("main", label)
  PROVE  QuietPc \/ pc["main"] = "connecting"
<1>1. label \in MainLabels /\ "main" \in Threads BY DEF MainLabels, Threads
<1>2. /\ DOMAIN pc' = Threads /\ pc'["main"] \in MainLabels /\ pc'["worker"] \in WorkerLabels
      /\ pc'["main"] = label /\ \A o \in Threads \ {"main"} : pc'[o] = pc[o]
  BY <1>1, GotoIs
<1> QED BY <1>2 DEF QuietPc, Threads, ClientInv, Alone

\* What QuietKeeps asks of the variables a step leaves alone.
LEMMA Quietly ==
  ASSUME ClientInv
  PROVE  /\ ackDue \in BOOLEAN /\ queue \in Nat /\ myPlayerId \in Slots \cup {0}
         /\ scene \in {"menu", "game"} /\ next \in {"none", "menu", "game"}
         /\ UNCHANGED conns => SameConns
         /\ UNCHANGED <<batch, player>> /\ SameConns => (NewsOK(batch))'
         /\ Acknowledged(conns) = conns' => SameConns
<1>1. NewsOK(batch) /\ TypeOK BY BatchOK DEF ClientInv
<1>2. UNCHANGED <<batch, player>> /\ SameConns => (NewsOK(batch))' BY <1>1 DEF NewsOK, SameConns, Last
<1>3. UNCHANGED conns => SameConns BY <1>1, ConnsUnchanged
<1>4. Acknowledged(conns) = conns' => SameConns BY <1>1, PostIs DEF SameConns
<1> QED BY <1>1, <1>2, <1>3, <1>4 DEF TypeOK

LEMMA FrameStep == ASSUME ClientInv, EnterGame \/ ExitGame \/ ExitGameDone \/ SameScene PROVE ClientInv'
<1>a. TypeOK /\ "JOIN" \in Wires BY DEF ClientInv, Wires
<1>1. CASE EnterGame
  <2>1. SameConns /\ ackDue' \in BOOLEAN BY <1>1, <1>a, SendsSame DEF EnterGame
  <2>2. QuietPc BY <1>1, FrameMoves DEF EnterGame, Main
  <2> QED BY <1>1, <2>1, <2>2, QuietKeeps, Quietly DEF EnterGame
<1>2. CASE ExitGame
  <2>1. CASE Connected
    <3>1. UNCHANGED <<ui, player, drops, crashed>> /\ Disconnect("main", "exiting") /\ "main" \in Threads
      BY <1>2, <2>1 DEF ExitGame, ui, Threads
    <3> QED BY <2>1, <3>1, DisconnectKeeps
  <2>2. CASE ~Connected
    <3>1. SwitchToMenu /\ Goto("main", "poll") /\ pc["main"] = "frame" /\ UNCHANGED <<host, conns, batch, myPlayerId, player, drops, crashed>>
      BY <1>2, <2>2 DEF ExitGame, Main
    <3>2. QuietPc BY <3>1, FrameMoves
    <3>3. UNCHANGED <<peer, server, ackDue, down, queue>> BY <3>1 DEF host
    <3> QED BY <3>1, <3>2, <3>3, QuietKeeps, Quietly DEF SwitchToMenu
  <2> QED BY <2>1, <2>2
<1>3. CASE ExitGameDone
  <2>1. Freed /\ ackDue' \in BOOLEAN BY <1>3, DisconnectedIs DEF ExitGameDone
  <2>2. "main" \in Threads BY DEF Threads
  <2> QED BY <1>3, <2>1, <2>2, FreedKeeps, Quietly DEF ExitGameDone, SwitchToMenu, Main
<1>4. CASE SameScene
  <2>1. UNCHANGED <<peer, server, ackDue, down, queue, batch, scene, next, myPlayerId, conns, player, drops, crashed>>
    BY <1>4 DEF SameScene, host, ui
  <2>2. QuietPc BY <1>4, FrameMoves DEF SameScene, Main
  <2> QED BY <2>1, <2>2, QuietKeeps, Quietly
<1> QED BY <1>1, <1>2, <1>3, <1>4

LEMMA PollStep == ASSUME ClientInv, PollEvent \/ PollEnd PROVE ClientInv'
<1>1. CASE PollEvent BY <1>1, PollEventKeeps
<1>2. CASE PollEnd
  <2>1. /\ UNCHANGED <<peer, server, down, scene, next, myPlayerId, player, drops, crashed>>
        /\ ackDue' = FALSE /\ queue' = 0 /\ batch' = QueueLast /\ conns' = Acknowledged(conns)
        /\ Goto("main", "handle") /\ pc["main"] = "poll"
    BY <1>2 DEF PollEnd, Main
  <2>2. SameConns BY <2>1, Quietly
  <2>3. Last' = Last BY <2>2 DEF SameConns, Last
  <2>4. (NewsOK(batch))'
    <3>1. NewsOK(QueueLast) BY QueueLastOK
    <3> QED BY <2>1, <2>3, <3>1 DEF NewsOK
  <2>5. QuietPc BY <2>1, FrameMoves
  <2> QED BY <2>1, <2>2, <2>4, <2>5, QuietKeeps, Quietly
<1> QED BY <1>1, <1>2

LEMMA HandleStep ==
  ASSUME ClientInv, HandleConnect \/ HandleInit \/ HandleSignal \/ AllHandled PROVE ClientInv'
<1>a. TypeOK /\ NewsOK(batch) /\ "JOIN" \in Wires BY BatchOK DEF ClientInv, Wires
<1>b. DOMAIN pc = Threads /\ pc["main"] \in MainLabels /\ pc["worker"] \in WorkerLabels BY <1>a DEF TypeOK
<1>c. ASSUME UNCHANGED pc PROVE QuietPc BY <1>b, <1>c DEF QuietPc, ClientInv, Alone, Usable
<1>d. ASSUME SameConns, batch # <<>>, batch' = Tail(batch), player' = player PROVE (NewsOK(batch))'
  <2>1. NewsOK(Tail(batch)) BY <1>a, <1>d, TailOK
  <2>2. Last' = Last BY <1>d DEF SameConns, Last
  <2> QED BY <1>d, <2>1, <2>2 DEF NewsOK
<1>1. CASE HandleConnect
  <2>1. /\ UNCHANGED <<pc, peer, server, down, queue, scene, myPlayerId, player, drops, crashed>>
        /\ batch # <<>> /\ batch' = Tail(batch) /\ Sends("JOIN") /\ next' \in {next, "game"}
    BY <1>1 DEF HandleConnect
  <2>2. SameConns /\ ackDue' \in BOOLEAN BY <1>a, <2>1, SendsSame
  <2> QED BY <1>c, <1>d, <2>1, <2>2, QuietKeeps, Quietly
<1>2. CASE HandleInit
  <2>1. /\ UNCHANGED <<pc, peer, server, ackDue, down, queue, scene, next, conns, player, drops, crashed>>
        /\ batch # <<>> /\ batch' = Tail(batch) /\ Head(batch).kind = "INIT"
        /\ myPlayerId' = myPlayerId \/ myPlayerId' = conns[Head(batch).conn].slot
    BY <1>2 DEF HandleInit, host
  <2>2. myPlayerId' \in Slots \cup {0}
    <3>1. Head(batch) = batch[1] /\ 1 \in 1 .. Len(batch) /\ Head(batch) \in News(Last) BY <1>a, <2>1 DEF NewsOK
    <3>2. Head(batch).conn >= 1 BY <1>a, <2>1, <3>1 DEF NewsOK
    <3>3. Last \in Nat /\ conns \in Seq(Conn) BY <1>a DEF TypeOK, Last
    <3>4. Head(batch).conn \in 1 .. Last BY <3>1, <3>2, <3>3 DEF News
    <3>5. conns[Head(batch).conn] \in Conn BY <3>3, <3>4 DEF Last
    <3>6. conns[Head(batch).conn].slot \in Slots \cup {0} BY <3>5 DEF Conn
    <3>7. myPlayerId \in Slots \cup {0} BY <1>a DEF TypeOK
    <3> QED BY <2>1, <3>6, <3>7
  <2> QED BY <1>c, <1>d, <2>1, <2>2, QuietKeeps, Quietly
<1>3. CASE HandleSignal
  <2>1. /\ UNCHANGED <<peer, server, ackDue, down, queue, scene, next, myPlayerId, conns, player, drops, crashed>>
        /\ batch # <<>> /\ batch' = Tail(batch) /\ Head(batch).kind = "P2P_SIGNAL" /\ pc["main"] = "handle"
        /\ pc' = IF pc["worker"] = "none" THEN [pc EXCEPT !["worker"] = "punch"] ELSE pc
    BY <1>3 DEF HandleSignal, host, Main
  <2>2. player # "direct"
    <3>1. Head(batch) = batch[1] /\ 1 \in 1 .. Len(batch) BY <1>a, <2>1 DEF NewsOK
    <3> QED BY <1>a, <2>1, <3>1 DEF NewsOK
  <2>3. QuietPc
    <3>1. CASE pc["worker"] = "none"
      <4>1. pc' = [pc EXCEPT !["worker"] = "punch"] BY <2>1, <3>1
      <4>2. /\ DOMAIN pc' = Threads /\ pc'["worker"] = "punch" /\ pc'["main"] = "handle" BY <1>b, <2>1, <4>1 DEF Threads
      <4> QED BY <1>b, <2>1, <2>2, <3>1, <4>2 DEF QuietPc, Threads, MainLabels, WorkerLabels
    <3>2. CASE pc["worker"] # "none" BY <1>c, <2>1, <3>2
    <3> QED BY <3>1, <3>2
  <2> QED BY <1>d, <2>1, <2>3, QuietKeeps, Quietly
<1>4. CASE AllHandled
  <2>1. UNCHANGED <<peer, server, ackDue, down, queue, batch, scene, next, myPlayerId, conns, player, drops, crashed>>
    BY <1>4 DEF AllHandled, host, ui
  <2>2. QuietPc BY <1>4, FrameMoves DEF AllHandled, Main
  <2> QED BY <2>1, <2>2, QuietKeeps, Quietly
<1> QED BY <1>1, <1>2, <1>3, <1>4

LEMMA DrawStep ==
  ASSUME ClientInv,
         NoClick \/ JoinDirect \/ ConnectToLobby \/ JoinLocal \/ ReturnToMenu \/ ReturnToMenuDone
  PROVE  ClientInv'
<1>a. TypeOK /\ "main" \in Threads /\ player \in {"direct", "patient", "hasty"}
  BY ClientAssumption DEF ClientInv, Threads, TypeOK
<1>1. CASE NoClick
  <2>1. UNCHANGED <<peer, server, ackDue, down, queue, batch, scene, next, myPlayerId, conns, player, drops, crashed>>
    BY <1>1 DEF NoClick, host, ui
  <2>2. QuietPc BY <1>1, FrameMoves DEF NoClick, Main
  <2> QED BY <2>1, <2>2, QuietKeeps, Quietly
<1>2. CASE JoinDirect
  <2>1. Calls("main", "remote") BY <1>2, <1>a DEF JoinDirect, MayJoin, Main, Calls
  <2> QED BY <1>2, <2>1, ConnectKeeps DEF JoinDirect
<1>3. CASE ConnectToLobby
  <2>1. Calls("main", "master") BY <1>3, <1>a DEF ConnectToLobby, MayJoin, Main, Calls
  <2> QED BY <1>3, <2>1, ConnectKeeps DEF ConnectToLobby
<1>4. CASE JoinLocal
  <2>1. /\ UNCHANGED <<peer, server, ackDue, down, queue, batch, scene, next, myPlayerId, conns, player, drops, crashed>>
        /\ player # "direct" /\ pc' = [main |-> "frame", worker |-> "host"]
        /\ pc["main"] = "draw" /\ pc["worker"] = "none"
    BY <1>4 DEF JoinLocal, host, ui, MayJoin, Main
  <2>2. pc'["main"] = "frame" /\ pc'["worker"] = "host" /\ DOMAIN pc' = Threads BY <2>1 DEF Threads
  <2>3. QuietPc BY <2>1, <2>2 DEF QuietPc, Threads, MainLabels, WorkerLabels
  <2> QED BY <2>1, <2>3, QuietKeeps, Quietly
<1>5. CASE ReturnToMenu
  <2>1. CASE Connected
    <3>1. Disconnect("main", "leaving") /\ UNCHANGED <<ui, player, drops, crashed>> BY <1>5, <2>1 DEF ReturnToMenu, ui
    <3> QED BY <1>a, <2>1, <3>1, DisconnectKeeps
  <2>2. CASE ~Connected
    <3>1. /\ UNCHANGED <<peer, server, ackDue, down, queue, batch, scene, myPlayerId, conns, player, drops, crashed>>
          /\ next' = "menu" /\ Goto("main", "frame") /\ pc["main"] = "draw"
      BY <1>5, <2>2 DEF ReturnToMenu, host, Main
    <3>2. QuietPc BY <3>1, FrameMoves
    <3> QED BY <3>1, <3>2, QuietKeeps, Quietly
  <2> QED BY <2>1, <2>2
<1>6. CASE ReturnToMenuDone
  <2>1. Freed /\ ackDue' \in BOOLEAN BY <1>6, DisconnectedIs DEF ReturnToMenuDone
  <2> QED BY <1>6, <1>a, <2>1, FreedKeeps, Quietly DEF ReturnToMenuDone, Main
<1> QED BY <1>1, <1>2, <1>3, <1>4, <1>5, <1>6

LEMMA CallStep ==
  ASSUME ClientInv, NEW t \in Threads, ConnectSucceeds(t) \/ ConnectFails(t) \/ PushConnect(t)
  PROVE  ClientInv'
<1>a. TypeOK /\ t \in {"main", "worker"} BY DEF ClientInv, Threads
<1>1. CASE ConnectSucceeds(t) BY <1>1, ConnectSucceedsKeeps
<1>2. CASE ConnectFails(t)
  <2>1. /\ pc[t] = "connecting" /\ Reset /\ Return(t) /\ conns' = Acknowledged(conns)
        /\ UNCHANGED <<queue, batch, scene, next, myPlayerId, player, drops>>
    BY <1>2 DEF ConnectFails, ui
  <2>2. Freed /\ ackDue' \in BOOLEAN
    <3>1. server \in BOOLEAN /\ ackDue \in BOOLEAN BY <1>a DEF TypeOK
    <3>2. CASE server
      <4>1. peer' = "free" /\ down' = <<>> /\ ackDue' = FALSE /\ server' = FALSE /\ crashed' = crashed
        BY <2>1, <3>2 DEF Reset
      <4> QED BY <4>1 DEF Freed
    <3>3. CASE ~server
      <4>1. crashed' = TRUE /\ UNCHANGED <<peer, down, ackDue, server>> BY <2>1, <3>3 DEF Reset
      <4> QED BY <3>1, <3>3, <4>1 DEF Freed
    <3> QED BY <3>2, <3>3
  <2>3. SameConns BY <2>1, Quietly
  <2>4. CASE t = "main"
    <3>1. Goto(t, "frame") BY <2>1, <2>4 DEF Return
    <3> QED BY <2>1, <2>2, <2>3, <2>4, <3>1, FreedKeeps, Quietly
  <2>5. CASE t = "worker"
    <3>1. Goto(t, "none") BY <2>1, <2>5 DEF Return
    <3> QED BY <2>1, <2>2, <2>3, <2>5, <3>1, FreedKeeps, Quietly
  <2> QED BY <1>a, <2>4, <2>5
<1>3. CASE PushConnect(t)
  <2>1. /\ pc[t] = "push" /\ queue' = queue + 1 /\ Return(t)
        /\ Sends("P2P_REQUEST") \/ UNCHANGED <<conns, ackDue>>
        /\ UNCHANGED <<peer, server, down, batch, scene, next, myPlayerId, player, drops, crashed>>
    BY <1>3 DEF PushConnect, ui
  <2>2. "P2P_REQUEST" \in Wires BY DEF Wires
  <2>3. SameConns /\ ackDue' \in BOOLEAN BY <1>a, <2>1, <2>2, SendsSame, Quietly
  <2>4. queue' \in Nat BY <1>a, <2>1 DEF TypeOK
  <2>5. QuietPc
    <3>1. /\ DOMAIN pc' = Threads /\ pc'["main"] \in MainLabels /\ pc'["worker"] \in WorkerLabels
          /\ pc'[t] = IF t = "main" THEN "frame" ELSE "none"
          /\ \A o \in Threads \ {t} : pc'[o] = pc[o]
      BY <2>1, ReturnIs
    <3> QED BY <1>a, <2>1, <3>1 DEF QuietPc, Threads, ClientInv, Alone
  <2> QED BY <2>1, <2>3, <2>4, <2>5, QuietKeeps, Quietly
<1> QED BY <1>1, <1>2, <1>3

LEMMA ThreadStep ==
  ASSUME ClientInv, WorkerJoinsOwnServer \/ WorkerLeavesMaster \/ WorkerLeft \/ WorkerReconnects
  PROVE  ClientInv'
<1>a. TypeOK /\ "worker" \in Threads /\ player \in {"direct", "patient", "hasty"}
  BY ClientAssumption DEF ClientInv, Threads, TypeOK
<1>b. pc["worker"] # "none" => player # "direct" BY DEF ClientInv, Alone
<1>1. CASE WorkerJoinsOwnServer
  <2>1. Calls("worker", "local") BY <1>1, <1>a, <1>b DEF WorkerJoinsOwnServer, Worker, Calls
  <2> QED BY <1>1, <2>1, ConnectKeeps DEF WorkerJoinsOwnServer
<1>2. CASE WorkerReconnects
  <2>1. Calls("worker", "remote") BY <1>2, <1>a, <1>b DEF WorkerReconnects, Worker, Calls
  <2> QED BY <1>2, <2>1, ConnectKeeps DEF WorkerReconnects
<1>3. CASE WorkerLeavesMaster
  <2>1. pc["worker"] = "punch" /\ UNCHANGED <<ui, player, drops, crashed>> BY <1>3 DEF WorkerLeavesMaster, Worker
  <2>2. CASE Connected
    <3>1. Disconnect("worker", "leaving") BY <1>3, <2>2 DEF WorkerLeavesMaster
    <3>2. player # "hasty" => pc["main"] \notin {"connecting", "push"} BY <2>1 DEF ClientInv, Usable
    <3> QED BY <1>a, <1>b, <2>1, <2>2, <3>1, <3>2, DisconnectKeeps
  <2>3. CASE ~Connected
    <3>1. /\ UNCHANGED <<peer, server, ackDue, down, queue, conns, batch, scene, next, myPlayerId>>
          /\ Goto("worker", "reconnect")
      BY <1>3, <2>1, <2>3 DEF WorkerLeavesMaster, host, ui
    <3>2. "reconnect" \in WorkerLabels BY DEF WorkerLabels
    <3>3. /\ DOMAIN pc' = Threads /\ pc'["main"] \in MainLabels /\ pc'["worker"] \in WorkerLabels
          /\ pc'["worker"] = "reconnect" /\ \A o \in Threads \ {"worker"} : pc'[o] = pc[o]
      BY <1>a, <3>1, <3>2, GotoIs
    <3>4. QuietPc BY <1>b, <2>1, <3>3 DEF QuietPc, Threads, ClientInv, Usable
    <3> QED BY <2>1, <3>1, <3>4, QuietKeeps, Quietly
  <2> QED BY <2>2, <2>3
<1>4. CASE WorkerLeft
  <2>1. Freed /\ ackDue' \in BOOLEAN BY <1>4, DisconnectedIs DEF WorkerLeft
  <2>2. UNCHANGED <<queue, batch, scene, next, myPlayerId, conns, player, drops>> BY <1>4 DEF WorkerLeft, ui
  <2> QED BY <1>4, <1>a, <2>1, <2>2, FreedKeeps, Quietly DEF WorkerLeft, Worker
<1> QED BY <1>1, <1>2, <1>3, <1>4

LEMMA ClientStepCorrect == ClientInv /\ [Next]_vars => ClientInv'
<1> SUFFICES ASSUME ClientInv, [Next]_vars PROVE ClientInv' OBVIOUS
<1>a. "main" \in Threads /\ "worker" \in Threads BY DEF Threads
<1>1. CASE FrameLoop BY <1>1, <1>a, FrameStep, PollStep, HandleStep, DrawStep, CallStep DEF FrameLoop
<1>2. CASE Thread BY <1>2, <1>a, ThreadStep, CallStep DEF Thread
<1>3. CASE Servers BY <1>3, ServersStep DEF Servers
<1>4. CASE \E c \in 1 .. Last : Accept(c) \/ ServerDrops(c) BY <1>4, ServersStep
<1>5. CASE UNCHANGED vars
  <2>1. UNCHANGED <<pc, peer, server, ackDue, down, queue, batch, scene, next, myPlayerId, conns, player, drops, crashed>>
    BY <1>5 DEF vars, host, ui
  <2>2. DOMAIN pc = Threads /\ pc["main"] \in MainLabels /\ pc["worker"] \in WorkerLabels BY DEF ClientInv, TypeOK
  <2>3. QuietPc BY <2>1, <2>2 DEF QuietPc, ClientInv, Alone, Usable
  <2> QED BY <2>1, <2>3, QuietKeeps, Quietly
<1> QED BY <1>1, <1>2, <1>3, <1>4, <1>5 DEF Next

\* The shared host, its one peer and the threads on it, at every point of every run.
THEOREM ClientInvariance == Spec => []ClientInv
BY ClientInitCorrect, ClientStepCorrect, PTL DEF Spec

\* The client's variables keep their types, for any number of connections and slots: what
\* a thread sends goes to a connection there is, and an INIT is of one.
THEOREM TypeCorrect == Spec => []TypeOK
<1>1. ClientInv => TypeOK BY DEF ClientInv
<1> QED BY <1>1, ClientInvariance, PTL

\* A connection that is lost in a game leaves server_ null before ReturnToMenu and Exit come
\* to disconnect; with one thread, the player's who joins addresses only, neither they nor
\* connect's timeout reset it then.
THEOREM NullCorrect == Spec => []NullNeverReset
<1>1. ClientInv => NullNeverReset BY DEF ClientInv, Alone, NullNeverReset
<1> QED BY <1>1, ClientInvariance, PTL

\* A player who waits for each click never has a live peer that the program has forgotten:
\* with a thread at work or not, whoever forgets server_ has freed the peer.
THEOREM NeverDeafCorrect == Spec => []NeverDeaf
<1>1. ClientInv => NeverDeaf BY DEF ClientInv, Usable, NeverDeaf
<1> QED BY <1>1, ClientInvariance, PTL

-----------------------------------------------------------------------------
(* What a client shows.                                                    *)

USE SnapshotAssumption

InOrder(h) == \A i, j \in 1 .. Len(h) : i < j => h[i].time < h[j].time

InWindow(h) == Len(h) > 2 => h[1].time >= Back(h).time - Window

SnapshotsInv == SnapshotsOK /\ HistoryInOrder /\ NewestKept

-----------------------------------------------------------------------------
\* Times are natural numbers.
LEMMA TimeIsNat ==
    ASSUME NEW s \in Snapshot
    PROVE  s.time \in Nat
BY DEF Snapshot

LEMMA StillBefore ==
    ASSUME NEW a \in Int, NEW b \in Int, NEW t \in Int, a <= b, b < t
    PROVE  a < t
OBVIOUS

\* A set of positions that is closed downwards is an initial interval, as long as
\* the set is large: what the loop of PushSnapshot pops are the first so many.
LEMMA InitialInterval ==
    ASSUME NEW m \in Int, NEW T \in SUBSET (1 .. m),
           \A i \in T : 1 .. i \subseteq T
    PROVE  Cardinality(T) \in Nat /\ T = 1 .. Cardinality(T)
<1>1. IsFiniteSet(1 .. m)
  BY FS_Interval
<1>2. IsFiniteSet(T)
  BY <1>1, FS_Subset
<1> DEFINE c == Cardinality(T)
<1>3. c \in Nat
  BY <1>2, FS_CardinalityType
<1>4. T \subseteq 1 .. c
  <2> SUFFICES ASSUME NEW i \in T PROVE i \in 1 .. c
    OBVIOUS
  <2>1. i \in Nat /\ i >= 1
    OBVIOUS
  <2>2. Cardinality(1 .. i) = i
    BY <2>1, FS_Interval
  <2>3. Cardinality(1 .. i) <= c
    BY <1>2, FS_Subset
  <2> QED
    BY <1>3, <2>1, <2>2, <2>3
<1>5. IsFiniteSet(1 .. c) /\ Cardinality(1 .. c) = c
  BY <1>3, FS_Interval
<1>6. 1 .. c = T
  BY <1>4, <1>5, FS_Subset
<1> QED
  BY <1>3, <1>6

\* Pruning an ordered history leaves an ordered history inside the window, with the
\* same newest snapshot.
LEMMA PruneKeeps ==
    ASSUME NEW h \in Seq(Snapshot), h # <<>>, InOrder(h)
    PROVE  /\ Prune(h) \in Seq(Snapshot) /\ Prune(h) # <<>>
           /\ InOrder(Prune(h)) /\ InWindow(Prune(h))
           /\ Back(Prune(h)) = Back(h)
<1> DEFINE n == Len(h)
           T == TooOld(h)
           c == Cardinality(T)
           p == Prune(h)
<1>1. n \in Nat /\ n >= 1
  BY EmptySeq, LenProperties
<1>2. \A i \in 1 .. n : h[i] \in Snapshot /\ h[i].time \in Nat
  <2>1. ASSUME NEW i \in 1 .. n PROVE h[i] \in Snapshot
    BY ElementOfSeq
  <2> QED
    BY <2>1, TimeIsNat
<1>3. T \in SUBSET (1 .. n - 2)
  BY DEF TooOld
<1>4. ASSUME NEW i \in T PROVE 1 .. i \subseteq T
  <2> SUFFICES ASSUME NEW j \in 1 .. i PROVE j \in T
    OBVIOUS
  <2>1. i \in 1 .. n - 2 /\ j \in 1 .. n - 2 /\ i \in 1 .. n /\ j \in 1 .. n
    BY <1>1, <1>3
  <2>2. h[j].time <= h[i].time
    <3>1. CASE j = i
      BY <1>2, <2>1, <3>1
    <3>2. CASE j < i
      BY <1>2, <2>1, <3>2 DEF InOrder
    <3> QED
      BY <2>1, <3>1, <3>2
  <2>3. h[i].time < Back(h).time - Window
    BY DEF TooOld
  <2>4. Back(h).time \in Nat
    BY <1>1, <1>2 DEF Back
  <2>5. h[i].time \in Int /\ h[j].time \in Int /\ Back(h).time - Window \in Int
    BY <1>2, <2>1, <2>4
  <2>6. h[j].time < Back(h).time - Window
    BY <2>2, <2>3, <2>5, StillBefore
  <2> QED
    BY <2>1, <2>6 DEF TooOld
<1>5. c \in Nat /\ T = 1 .. c
  <2>1. n - 2 \in Int
    BY <1>1
  <2> HIDE DEF n, T
  <2> QED
    BY <1>3, <1>4, <2>1, InitialInterval
<1>6. c <= n - 1
  BY <1>1, <1>3, <1>5
<1>7. p = SubSeq(h, c + 1, n)
  BY DEF Prune
<1>8. /\ p \in Seq(Snapshot) /\ Len(p) = n - c
      /\ \A i \in 1 .. n - c : p[i] = h[c + i]
  <2>1. \A i \in c + 1 .. n : h[i] \in Snapshot
    BY <1>2, <1>5
  <2>2. /\ p \in Seq(Snapshot)
        /\ Len(p) = IF c + 1 <= n THEN n - (c + 1) + 1 ELSE 0
        /\ \A i \in 1 .. n - (c + 1) + 1 : p[i] = h[c + 1 + i - 1]
    BY <1>1, <1>5, <1>7, <2>1, SubSeqProperties
  <2>3. Len(p) = n - c
    BY <1>1, <1>5, <1>6, <2>2
  <2>4. ASSUME NEW i \in 1 .. n - c PROVE p[i] = h[c + i]
    <3>1. i \in 1 .. n - (c + 1) + 1 /\ c + 1 + i - 1 = c + i
      BY <1>1, <1>5
    <3> QED
      BY <2>2, <3>1
  <2> QED
    BY <2>2, <2>3, <2>4
<1> HIDE DEF n, c, p
<1>9. p # <<>>
  <2>1. Len(p) # 0
    BY <1>1, <1>5, <1>6, <1>8
  <2> QED
    BY <2>1, EmptySeq
<1>10. InOrder(p)
  <2> SUFFICES ASSUME NEW i \in 1 .. n - c, NEW j \in 1 .. n - c, i < j
               PROVE  p[i].time < p[j].time
    BY <1>8 DEF InOrder
  <2>1. c + i \in 1 .. n /\ c + j \in 1 .. n /\ c + i < c + j
    BY <1>1, <1>5
  <2>2. h[c + i].time < h[c + j].time
    BY <2>1 DEF InOrder, n
  <2> QED
    BY <1>8, <2>2
<1>11. Back(p) = Back(h)
  <2>1. p[n - c] = h[c + (n - c)] /\ c + (n - c) = n
    BY <1>1, <1>5, <1>6, <1>8
  <2> QED
    BY <1>8, <2>1 DEF Back, n
<1>12. InWindow(p)
  <2> SUFFICES ASSUME n - c > 2 PROVE h[c + 1].time >= Back(h).time - Window
    <3>1. Len(p) > 2 => p[1] = h[c + 1]
      BY <1>1, <1>5, <1>8
    <3> QED
      BY <1>8, <1>11, <3>1 DEF InWindow
  <2>1. c + 1 \in 1 .. n - 2 /\ c + 1 \notin T /\ c + 1 \in 1 .. n
    BY <1>1, <1>5
  <2>2. ~ (h[c + 1].time < Back(h).time - Window)
    BY <2>1 DEF TooOld, n
  <2>3. h[c + 1].time \in Nat /\ Back(h).time \in Nat
    BY <1>1, <1>2, <2>1 DEF Back, n
  <2> QED
    BY <2>2, <2>3
<1> QED
  BY <1>8, <1>9, <1>10, <1>11, <1>12 DEF p

-----------------------------------------------------------------------------
\* A push keeps order and window, whatever arrives; it takes what is newer than the
\* back and nothing else.
LEMMA PushKeeps ==
    ASSUME NEW h \in Seq(Snapshot), NEW s \in Snapshot, InOrder(h), InWindow(h)
    PROVE  LET q == PushSnapshot(h, s)
           IN  /\ q \in Seq(Snapshot) /\ q # <<>>
               /\ InOrder(q) /\ InWindow(q)
               /\ Back(q) = IF h # <<>> /\ s.time <= Back(h).time THEN Back(h) ELSE s
<1>1. CASE h # <<>> /\ s.time <= Back(h).time
  BY <1>1 DEF PushSnapshot
<1>2. CASE ~ (h # <<>> /\ s.time <= Back(h).time)
  <2> DEFINE g == Append(h, s)
             n == Len(h)
  <2>1. n \in Nat /\ (h # <<>> => n >= 1) /\ (h = <<>> => n = 0)
    BY EmptySeq, LenProperties
  <2>2. /\ g \in Seq(Snapshot) /\ g # <<>> /\ Len(g) = n + 1
        /\ \A i \in 1 .. n : g[i] = h[i]
        /\ g[n + 1] = s
    BY AppendProperties
  <2>3. \A i \in 1 .. n : h[i] \in Snapshot /\ h[i].time \in Nat
    <3>1. ASSUME NEW i \in 1 .. n PROVE h[i] \in Snapshot
      BY ElementOfSeq
    <3> QED
      BY <3>1, TimeIsNat
  <2>4. s.time \in Nat
    BY DEF Snapshot
  <2>5. Back(g) = s
    BY <2>2 DEF Back
  <2> HIDE DEF g
  <2>6. ASSUME NEW i \in 1 .. n PROVE h[i].time < s.time
    <3>1. h # <<>> /\ n \in 1 .. n
      BY <2>1
    <3>2. h[n].time < s.time
      BY <1>2, <2>3, <2>4, <3>1 DEF Back
    <3>3. h[i].time <= h[n].time
      <4>1. CASE i = n
        BY <2>3, <3>1, <4>1
      <4>2. CASE i < n
        BY <2>3, <3>1, <4>2 DEF InOrder
      <4> QED
        BY <2>1, <4>1, <4>2
    <3> QED
      BY <2>3, <2>4, <3>1, <3>2, <3>3
  <2>7. InOrder(g)
    <3> SUFFICES ASSUME NEW i \in 1 .. n + 1, NEW j \in 1 .. n + 1, i < j
                 PROVE  g[i].time < g[j].time
      BY <2>2 DEF InOrder
    <3>1. i \in 1 .. n
      BY <2>1
    <3>2. CASE j = n + 1
      BY <2>2, <2>6, <3>1, <3>2
    <3>3. CASE j \in 1 .. n
      BY <2>2, <3>1, <3>3 DEF InOrder
    <3> QED
      BY <2>1, <3>2, <3>3
  <2>8. PushSnapshot(h, s) = Prune(g)
    BY <1>2 DEF PushSnapshot, g
  <2> QED
    BY <1>2, <2>2, <2>5, <2>7, <2>8, PruneKeeps
<1> QED
  BY <1>1, <1>2

\* HistoryInOrder is order and window.
LEMMA InOrderInWindow ==
    ASSUME SnapshotsOK
    PROVE  HistoryInOrder <=> InOrder(history) /\ InWindow(history)
<1>1. DOMAIN history = 1 .. Len(history)
  BY LenProperties DEF SnapshotsOK
<1> QED
  BY <1>1 DEF HistoryInOrder, InOrder, InWindow

-----------------------------------------------------------------------------
\* A scene starts with no history.
LEMMA SnapshotsInitInv ==
    ASSUME SnapshotsInit
    PROVE  SnapshotsInv
<1>1. SnapshotsOK
  BY EmptySeq DEF SnapshotsInit, SnapshotsOK
<1>2. Len(history) = 0 /\ DOMAIN history = 1 .. 0
  BY EmptySeq, LenProperties, <1>1 DEF SnapshotsInit, SnapshotsOK
<1> QED
  BY <1>1, <1>2 DEF SnapshotsInit, SnapshotsInv, HistoryInOrder, NewestKept

\* A snapshot that arrives, on time or late, keeps the invariant.
LEMMA OnSnapshotInv ==
    ASSUME SnapshotsInv, NEW s \in net, OnSnapshot(s)
    PROVE  SnapshotsInv'
<1> USE DEF SnapshotsInv
<1>1. s \in Snapshot /\ s.time \in Nat
  BY DEF SnapshotsOK, Snapshot
<1>2. history \in Seq(Snapshot) /\ InOrder(history) /\ InWindow(history)
  BY InOrderInWindow DEF SnapshotsOK
<1> DEFINE q == PushSnapshot(history, s)
<1>3. /\ q \in Seq(Snapshot) /\ q # <<>> /\ InOrder(q) /\ InWindow(q)
      /\ Back(q) = IF history # <<>> /\ s.time <= Back(history).time
                   THEN Back(history) ELSE s
  BY <1>1, <1>2, PushKeeps
<1>4. history' = q
  BY DEF OnSnapshot
<1> HIDE DEF q
<1>5. SnapshotsOK'
  <2>1. clientTime' \in Int /\ lastServerTime' \in Nat /\ newest' \in Nat \cup {-1}
    BY <1>1 DEF OnSnapshot, SnapshotsOK
  <2>2. now' \in 0 .. MaxTime + 1 /\ net' \subseteq Snapshot
    BY DEF OnSnapshot, SnapshotsOK
  <2> QED
    BY <1>3, <1>4, <2>1, <2>2 DEF SnapshotsOK
<1>6. HistoryInOrder'
  <2>1. DOMAIN q = 1 .. Len(q)
    BY <1>3, LenProperties
  <2> QED
    BY <1>3, <1>4, <2>1 DEF HistoryInOrder, InOrder, InWindow, Back
<1>7. NewestKept'
  <2>1. newest' = IF s.time > newest THEN s.time ELSE newest
    BY DEF OnSnapshot
  <2>2. newest \in Nat \cup {-1}
    BY DEF SnapshotsOK
  <2>3. newest' # -1
    BY <1>1, <2>1, <2>2
  <2>4. Back(q).time = newest'
    <3>1. CASE history = <<>>
      BY <1>1, <1>3, <2>1, <2>2, <3>1 DEF NewestKept
    <3>2. CASE history # <<>>
      <4>1. newest = Back(history).time /\ newest \in Nat
        BY <2>2, <3>2 DEF NewestKept
      <4> QED
        BY <1>1, <1>3, <2>1, <3>2, <4>1
    <3> QED
      BY <3>1, <3>2
  <2> QED
    BY <1>3, <1>4, <2>3, <2>4 DEF NewestKept, Back
<1> QED
  BY <1>5, <1>6, <1>7

\* What leaves the history and newest alone only has to keep the types.
LEMMA HistoryUntouched ==
    ASSUME SnapshotsInv, SnapshotsOK', UNCHANGED <<history, newest>>
    PROVE  SnapshotsInv'
BY DEF SnapshotsInv, HistoryInOrder, NewestKept, Back

\* One step per action.
LEMMA SnapshotsNextInv ==
    ASSUME SnapshotsInv, [SnapshotsNext]_snapshots
    PROVE  SnapshotsInv'
<1>1. CASE BroadcastSnapshot
  <2>1. PICK t \in now .. MaxTime, p \in Places \cup {Absent} :
           /\ net' = net \cup {[time |-> t, pos |-> p]}
           /\ now' = t + 1
           /\ UNCHANGED <<history, lastServerTime, clientTime, newest>>
    BY <1>1 DEF BroadcastSnapshot
  <2>2. t \in Nat /\ t <= MaxTime
    BY DEF SnapshotsInv, SnapshotsOK
  <2>3. SnapshotsOK'
    BY <2>1, <2>2 DEF SnapshotsInv, SnapshotsOK, Snapshot
  <2> QED
    BY <2>1, <2>3, HistoryUntouched
<1>2. CASE \E s \in net : Lose(s)
  <2>1. SnapshotsOK'
    BY <1>2 DEF SnapshotsInv, SnapshotsOK, Lose
  <2> QED
    BY <1>2, <2>1, HistoryUntouched DEF Lose
<1>3. CASE \E s \in net : OnSnapshot(s)
  BY <1>3, OnSnapshotInv
<1>4. CASE Update
  <2>1. PICK dt \in 1 .. MaxFrame :
           LET t == clientTime + dt
               target == lastServerTime - Delay
           IN  /\ IF target - t > Jump \/ t - target > Jump
                  THEN clientTime' = target
                  ELSE \E c \in (t .. target) \cup (target .. t) : clientTime' = c
               /\ UNCHANGED <<now, net, history, lastServerTime, newest>>
    BY <1>4 DEF Update
  <2>2. clientTime' \in Int
    BY <2>1 DEF SnapshotsInv, SnapshotsOK
  <2>3. SnapshotsOK'
    BY <2>1, <2>2 DEF SnapshotsInv, SnapshotsOK
  <2> QED
    BY <2>1, <2>3, HistoryUntouched
<1>5. CASE UNCHANGED snapshots
  <2>1. SnapshotsOK'
    BY <1>5 DEF SnapshotsInv, SnapshotsOK, snapshots
  <2> QED
    BY <1>5, <2>1, HistoryUntouched DEF snapshots
<1> QED
  BY <1>1, <1>2, <1>3, <1>4, <1>5 DEF SnapshotsNext

-----------------------------------------------------------------------------
\* The invariant holds always.
THEOREM SnapshotsInvariance == SnapshotsSpec => []SnapshotsInv
<1>1. SnapshotsInit => SnapshotsInv
  BY SnapshotsInitInv
<1>2. SnapshotsInv /\ [SnapshotsNext]_snapshots => SnapshotsInv'
  BY SnapshotsNextInv
<1> QED
  BY <1>1, <1>2, PTL DEF SnapshotsSpec

\* Every variable keeps its type: the history is a sequence of snapshots and
\* lastServerTime a time some snapshot had (GameplayScene::OnMessage).
THEOREM SnapshotsTyped == SnapshotsSpec => []SnapshotsOK
<1>1. SnapshotsInv => SnapshotsOK
  BY DEF SnapshotsInv
<1> QED
  BY <1>1, SnapshotsInvariance, PTL

\* However many snapshots are lost or overtake each other, the history is sorted,
\* as std::lower_bound in GetInterpolatedState needs, and holds no more than two
\* snapshots beyond the window (SnapshotManager::PushSnapshot).
THEOREM HistoryCorrect == SnapshotsSpec => []HistoryInOrder
<1>1. SnapshotsInv => HistoryInOrder
  BY DEF SnapshotsInv
<1> QED
  BY <1>1, SnapshotsInvariance, PTL

\* The newest snapshot that ever arrived is the last of the history, which Draw
\* takes its entities from; before the first the history is empty.
THEOREM NewestCorrect == SnapshotsSpec => []NewestKept
<1>1. SnapshotsInv => NewestKept
  BY DEF SnapshotsInv
<1> QED
  BY <1>1, SnapshotsInvariance, PTL

-----------------------------------------------------------------------------
(* The bisection.  A recursive function is the one its equation has: that  *)
(* there is one, and what it computes, is shown by the least length for    *)
(* which it would be wrong.                                                *)

\* One round, for n snapshots, by what f finds among fewer.
Round(h, t, f, n) ==
    [first \in Nat |->
       IF n = 0 THEN first
       ELSE IF h[first + (n \div 2)].time < t
            THEN f[n - (n \div 2) - 1][first + (n \div 2) + 1]
            ELSE f[n \div 2][first]]

Searches(h, t, f) == f = [n \in Nat |-> Round(h, t, f, n)]

\* A search of at most n snapshots.
SearchesUpTo(h, t, f, n) == f = [m \in 0 .. n |-> Round(h, t, f, m)]

LEMMA LeastNat == ASSUME NEW T, T \subseteq Nat, T # {} PROVE \E n \in T : \A m \in T : n <= m
<1>1. PICK n \in T : \A m \in T : ~(<<m, n>> \in OpToRel(<, Nat)) BY NatLessThanWellFounded, WFMin
<1>2. ASSUME NEW m \in T PROVE n <= m
  <2>1. n \in Nat /\ m \in Nat OBVIOUS
  <2>2. ~(m < n) BY <1>1, <2>1 DEF OpToRel
  <2> QED BY <2>1, <2>2
<1> QED BY <1>2

\* Both halves are shorter.
LEMMA Halves ==
  ASSUME NEW n \in Nat, n # 0
  PROVE  n \div 2 \in 0 .. n - 1 /\ n - (n \div 2) - 1 \in 0 .. n - 1
OBVIOUS

LEMMA RoundNeedsLess ==
  ASSUME NEW h, NEW t, NEW f, NEW g, NEW n \in Nat, \A k \in 0 .. n - 1 : f[k] = g[k]
  PROVE  Round(h, t, f, n) = Round(h, t, g, n)
<1>1. CASE n = 0 BY <1>1 DEF Round
<1>2. CASE n # 0
  <2>1. f[n \div 2] = g[n \div 2] /\ f[n - (n \div 2) - 1] = g[n - (n \div 2) - 1] BY <1>2, Halves
  <2> QED BY <2>1 DEF Round
<1> QED BY <1>1, <1>2

LEMMA SearchesAgree ==
  ASSUME NEW h, NEW t, NEW f, NEW g, NEW n \in Nat, NEW m \in Nat, n <= m,
         SearchesUpTo(h, t, f, n), SearchesUpTo(h, t, g, m)
  PROVE  \A k \in 0 .. n : f[k] = g[k]
<1> DEFINE T == {k \in 0 .. n : f[k] # g[k]}
<1> SUFFICES ASSUME T # {} PROVE FALSE OBVIOUS
<1>1. T \subseteq Nat OBVIOUS
<1>2. PICK k \in T : \A j \in T : k <= j
  <2> HIDE DEF T
  <2> QED BY <1>1, LeastNat
<1>3. k \in 0 .. n /\ k \in Nat /\ f[k] # g[k] OBVIOUS
<1>4. ASSUME NEW j \in 0 .. k - 1 PROVE f[j] = g[j]
  <2>1. j \in 0 .. n /\ ~(k <= j) BY <1>3
  <2> QED BY <1>2, <2>1
<1>5. Round(h, t, f, k) = Round(h, t, g, k) BY <1>3, <1>4, RoundNeedsLess
<1>6. k \in 0 .. m BY <1>3
<1>7. f[k] = Round(h, t, f, k) BY <1>3 DEF SearchesUpTo
<1>8. g[k] = Round(h, t, g, k) BY <1>6 DEF SearchesUpTo
<1> QED BY <1>3, <1>5, <1>7, <1>8

LEMMA SearchExtends ==
  ASSUME NEW h, NEW t, NEW n \in Nat, NEW f, SearchesUpTo(h, t, f, n - 1)
  PROVE  \E g : SearchesUpTo(h, t, g, n)
<1> DEFINE g == [m \in 0 .. n |-> IF m = n THEN Round(h, t, f, n) ELSE f[m]]
<1>1. \A k \in 0 .. n - 1 : f[k] = g[k] OBVIOUS
<1>2. ASSUME NEW m \in 0 .. n PROVE g[m] = Round(h, t, g, m)
  <2>1. \A k \in 0 .. m - 1 : f[k] = g[k] BY <1>1
  <2>2. m \in Nat OBVIOUS
  <2> HIDE DEF g
  <2>3. Round(h, t, f, m) = Round(h, t, g, m) BY <2>1, <2>2, RoundNeedsLess
  <2>4. CASE m = n BY <2>3, <2>4 DEF g
  <2>5. CASE m # n
    <3>1. m \in 0 .. n - 1 BY <2>5
    <3>2. f[m] = Round(h, t, f, m) BY <3>1 DEF SearchesUpTo
    <3> QED BY <1>1, <2>3, <3>1, <3>2
  <2> QED BY <2>4, <2>5
<1>3. g = [m \in 0 .. n |-> g[m]] OBVIOUS
<1> HIDE DEF g
<1>4. g = [m \in 0 .. n |-> Round(h, t, g, m)] BY <1>2, <1>3
<1> QED BY <1>4 DEF SearchesUpTo

LEMMA SearchUpToExists ==
  ASSUME NEW h, NEW t PROVE \A n \in Nat : \E f : SearchesUpTo(h, t, f, n)
<1> DEFINE T == {n \in Nat : ~ \E f : SearchesUpTo(h, t, f, n)}
<1> SUFFICES ASSUME T # {} PROVE FALSE OBVIOUS
<1>1. PICK n \in T : \A j \in T : n <= j
  <2>1. T \subseteq Nat OBVIOUS
  <2> HIDE DEF T
  <2> QED BY <2>1, LeastNat
<1>2. \E f : SearchesUpTo(h, t, f, n - 1)
  <2>1. CASE n = 0
    <3> DEFINE e == [m \in 0 .. -1 |-> 0]
    <3>1. e = [m \in 0 .. -1 |-> Round(h, t, e, m)]
      <4>1. 0 .. -1 = {} OBVIOUS
      <4> QED BY <4>1
    <3>2. n - 1 = -1 BY <2>1
    <3> QED BY <3>1, <3>2 DEF SearchesUpTo
  <2>2. CASE n # 0
    <3>1. n - 1 \in Nat /\ ~(n <= n - 1) BY <2>2
    <3> QED BY <1>1, <3>1
  <2> QED BY <2>1, <2>2
<1>3. \E g : SearchesUpTo(h, t, g, n) BY <1>2, SearchExtends
<1> QED BY <1>3

\* There is a function that searches, so that LowerBound is what it says.
LEMMA SearchExists == ASSUME NEW h, NEW t PROVE \E f : Searches(h, t, f)
<1> DEFINE F(n) == CHOOSE f : SearchesUpTo(h, t, f, n)
           f == [n \in Nat |-> F(n)[n]]
<1>1. \A n \in Nat : SearchesUpTo(h, t, F(n), n) BY SearchUpToExists
<1>2. ASSUME NEW n \in Nat PROVE f[n] = Round(h, t, f, n)
  <2>1. ASSUME NEW k \in 0 .. n - 1 PROVE F(n)[k] = f[k]
    <3>1. k \in Nat /\ k <= n /\ k \in 0 .. k OBVIOUS
    <3>2. SearchesUpTo(h, t, F(k), k) /\ SearchesUpTo(h, t, F(n), n) BY <1>1, <3>1
    <3> HIDE DEF F
    <3>3. F(k)[k] = F(n)[k] BY <3>1, <3>2, SearchesAgree
    <3> QED BY <3>1, <3>3
  <2>2. f[n] = F(n)[n] OBVIOUS
  <2>3. SearchesUpTo(h, t, F(n), n) BY <1>1
  <2> HIDE DEF f, F
  <2>4. Round(h, t, F(n), n) = Round(h, t, f, n) BY <2>1, RoundNeedsLess
  <2>5. F(n)[n] = Round(h, t, F(n), n) BY <2>3 DEF SearchesUpTo
  <2> QED BY <2>2, <2>4, <2>5
<1>3. f = [n \in Nat |-> f[n]] OBVIOUS
<1> HIDE DEF f
<1>4. f = [n \in Nat |-> Round(h, t, f, n)] BY <1>2, <1>3
<1> QED BY <1>4 DEF Searches

LEMMA LowerBoundIs ==
  ASSUME NEW h, NEW t
  PROVE  \E f : Searches(h, t, f) /\ LowerBound(h, t) = f[Len(h)][1]
<1> DEFINE f == CHOOSE g : g = [n \in Nat |-> Round(h, t, g, n)]
<1>1. LowerBound(h, t) = f[Len(h)][1] BY DEF LowerBound, Round
<1>2. Searches(h, t, f) BY SearchExists DEF Searches
<1> QED BY <1>1, <1>2

\* r divides the snapshots from the first-th to before the last-th into those before t
\* and the others.
Divides(h, t, r, first, last) ==
    /\ r \in first .. last
    /\ \A k \in first .. r - 1 : h[k].time < t
    /\ \A k \in r .. last - 1 : h[k].time >= t

LEMMA TimesChain ==
  ASSUME NEW t \in Int, NEW a \in Nat, NEW b \in Nat, a < b
  PROVE  (b < t => a < t) /\ (~(a < t) => b >= t)
OBVIOUS

LEMMA LessIsAtMost ==
  ASSUME NEW a \in Int, NEW b \in Int
  PROVE  /\ a < b => a <= b /\ b >= a
         /\ b >= a => a <= b
         /\ a <= a /\ a >= a
OBVIOUS

LEMMA PartOfInterval ==
  ASSUME NEW t \in Int, NEW a \in Nat, NEW b \in Nat, a < t, b >= t
  PROVE  b - a > 0 /\ t - a \in 0 .. b - a
OBVIOUS

\* What divides the right half divides the whole when the middle is before t.
LEMMA RightDivides ==
  ASSUME NEW h \in Seq(Snapshot), NEW t \in Int, InOrder(h),
         NEW first \in Nat, NEW middle \in Nat, NEW last \in Nat,
         1 <= first, first <= middle, middle < last, last <= Len(h) + 1, h[middle].time < t,
         NEW r, Divides(h, t, r, middle + 1, last)
  PROVE  Divides(h, t, r, first, last)
<1>1. Len(h) \in Nat BY LenProperties
<1>2. \A k \in 1 .. Len(h) : h[k].time \in Nat BY ElementOfSeq, TimeIsNat
<1>3. r \in middle + 1 .. last /\ \A k \in middle + 1 .. r - 1 : h[k].time < t BY DEF Divides
<1>4. ASSUME NEW k \in first .. middle - 1 PROVE h[k].time < t
  <2>1. k \in 1 .. Len(h) /\ middle \in 1 .. Len(h) /\ k < middle BY <1>1
  <2>2. h[k].time < h[middle].time BY <2>1 DEF InOrder
  <2>3. h[k].time \in Nat /\ h[middle].time \in Nat BY <1>2, <2>1
  <2> QED BY <2>2, <2>3, TimesChain
<1>5. ASSUME NEW k \in first .. r - 1 PROVE h[k].time < t
  <2>1. k \in Int /\ r \in Int /\ first <= k /\ k <= r - 1 BY <1>3
  <2>2. k <= middle - 1 \/ k = middle \/ middle + 1 <= k BY <2>1
  <2>3. k \in first .. middle - 1 \/ k = middle \/ k \in middle + 1 .. r - 1 BY <2>1, <2>2
  <2> QED BY <1>3, <1>4, <2>3
<1>6. r \in first .. last BY <1>3
<1> QED BY <1>5, <1>6 DEF Divides

\* What divides the left half divides the whole when the middle is not before t.
LEMMA LeftDivides ==
  ASSUME NEW h \in Seq(Snapshot), NEW t \in Int, InOrder(h),
         NEW first \in Nat, NEW middle \in Nat, NEW last \in Nat,
         1 <= first, first <= middle, middle < last, last <= Len(h) + 1, ~(h[middle].time < t),
         NEW r, Divides(h, t, r, first, middle)
  PROVE  Divides(h, t, r, first, last)
<1>1. Len(h) \in Nat BY LenProperties
<1>2. \A k \in 1 .. Len(h) : h[k].time \in Nat BY ElementOfSeq, TimeIsNat
<1>3. r \in first .. middle /\ \A k \in r .. middle - 1 : h[k].time >= t BY DEF Divides
<1>4. middle \in 1 .. Len(h) BY <1>1
<1>5. ASSUME NEW k \in middle + 1 .. last - 1 PROVE h[k].time >= t
  <2>1. k \in 1 .. Len(h) /\ middle < k BY <1>1
  <2>2. h[middle].time < h[k].time BY <1>4, <2>1 DEF InOrder
  <2>3. h[k].time \in Nat /\ h[middle].time \in Nat BY <1>2, <1>4, <2>1
  <2> QED BY <2>2, <2>3, TimesChain
<1>6. h[middle].time >= t BY <1>2, <1>4
<1>7. ASSUME NEW k \in r .. last - 1 PROVE h[k].time >= t
  <2>1. k \in r .. middle - 1 \/ k = middle \/ k \in middle + 1 .. last - 1 BY <1>3
  <2> QED BY <1>3, <1>5, <1>6, <2>1
<1>8. r \in first .. last BY <1>3
<1> QED BY <1>3, <1>7, <1>8 DEF Divides

\* A round is right when the shorter searches are.
LEMMA RoundDivides ==
  ASSUME NEW h \in Seq(Snapshot), NEW t \in Int, InOrder(h), NEW f, NEW n \in Nat,
         \A m \in 0 .. n - 1 : \A i \in Nat :
           i >= 1 /\ i + m <= Len(h) + 1 => Divides(h, t, f[m][i], i, i + m),
         NEW first \in Nat, first >= 1, first + n <= Len(h) + 1
  PROVE  Divides(h, t, Round(h, t, f, n)[first], first, first + n)
<1>1. Len(h) \in Nat BY LenProperties
<1>2. CASE n = 0
  <2>1. Round(h, t, f, n)[first] = first BY <1>2 DEF Round
  <2> QED BY <1>2, <2>1 DEF Divides
<1>3. CASE n # 0
  <2> DEFINE half == n \div 2
             rest == n - half - 1
  <2>1. half \in 0 .. n - 1 /\ rest \in 0 .. n - 1 /\ rest = n - half - 1 BY <1>3, Halves
  <2>2. Round(h, t, f, n)[first] = IF h[first + half].time < t
                                   THEN f[rest][first + half + 1] ELSE f[half][first]
    BY <1>3 DEF Round
  <2> HIDE DEF half, rest
  <2>3. /\ first + half \in Nat /\ first <= first + half /\ first + half < first + n
        /\ first + half + 1 \in Nat /\ first + half + 1 >= 1
        /\ first + half + 1 + rest = first + n /\ first + n \in Nat
        /\ first + half <= Len(h) + 1
    BY <1>1, <2>1
  <2>4. CASE h[first + half].time < t
    <3>1. Divides(h, t, f[rest][first + half + 1], first + half + 1, first + half + 1 + rest)
      BY <2>1, <2>3
    <3>2. Divides(h, t, f[rest][first + half + 1], first + half + 1, first + n)
      BY <2>3, <3>1
    <3>3. Divides(h, t, f[rest][first + half + 1], first, first + n)
      BY <2>3, <2>4, <3>2, RightDivides
    <3> QED BY <2>2, <2>4, <3>3
  <2>5. CASE ~(h[first + half].time < t)
    <3>1. Divides(h, t, f[half][first], first, first + half) BY <2>1, <2>3
    <3>2. Divides(h, t, f[half][first], first, first + n) BY <2>3, <2>5, <3>1, LeftDivides
    <3> QED BY <2>2, <2>5, <3>2
  <2> QED BY <2>4, <2>5
<1> QED BY <1>2, <1>3

\* No length is the least for which the search is wrong.
LEMMA SearchDivides ==
  ASSUME NEW h \in Seq(Snapshot), NEW t \in Int, InOrder(h), NEW f, Searches(h, t, f)
  PROVE  \A n \in Nat : \A first \in Nat :
           first >= 1 /\ first + n <= Len(h) + 1 => Divides(h, t, f[n][first], first, first + n)
<1> DEFINE Right(n) == \A first \in Nat :
               first >= 1 /\ first + n <= Len(h) + 1 => Divides(h, t, f[n][first], first, first + n)
           T == {n \in Nat : ~Right(n)}
<1> SUFFICES ASSUME T # {} PROVE FALSE OBVIOUS
<1>1. PICK n \in T : \A m \in T : n <= m
  <2>1. T \subseteq Nat OBVIOUS
  <2> HIDE DEF T
  <2> QED BY <2>1, LeastNat
<1>2. n \in Nat /\ ~Right(n) OBVIOUS
<1>3. ASSUME NEW m \in 0 .. n - 1 PROVE Right(m)
  <2>1. m \in Nat /\ ~(n <= m) BY <1>2
  <2> QED BY <1>1, <2>1
<1>4. f[n] = Round(h, t, f, n) BY <1>2 DEF Searches
<1>5. Right(n) BY <1>2, <1>3, <1>4, RoundDivides
<1> QED BY <1>2, <1>5

\* std::lower_bound finds the first snapshot that is not before t, or the end.
LEMMA LowerBoundDivides ==
  ASSUME NEW h \in Seq(Snapshot), NEW t \in Int, InOrder(h)
  PROVE  Divides(h, t, LowerBound(h, t), 1, Len(h) + 1)
<1>1. PICK f : Searches(h, t, f) /\ LowerBound(h, t) = f[Len(h)][1] BY LowerBoundIs
<1>2. Len(h) \in Nat /\ 1 \in Nat /\ 1 >= 1 /\ 1 + Len(h) <= Len(h) + 1 BY LenProperties
<1>3. Divides(h, t, f[Len(h)][1], 1, 1 + Len(h)) BY <1>1, <1>2, SearchDivides
<1>4. 1 + Len(h) = Len(h) + 1 BY <1>2
<1> QED BY <1>1, <1>3, <1>4

\* What is interpolated is a snapshot of the history as it stands, or the two around t.
LEMMA InterpolatedIs ==
  ASSUME NEW h \in Seq(Snapshot), NEW t \in Int, InOrder(h), h # <<>>
  PROVE  \/ \E i \in 1 .. Len(h) : GetInterpolatedState(h, t) = Still(h[i])
         \/ \E b \in 2 .. Len(h) : /\ h[b - 1].time < t /\ h[b].time >= t
                                   /\ GetInterpolatedState(h, t) = Between(h[b - 1], h[b], t)
<1> DEFINE n == Len(h)
           b == LowerBound(h, t)
<1>1. n \in Nat /\ n >= 1 BY EmptySeq, LenProperties
<1>2. 1 \in 1 .. n /\ n \in 1 .. n BY <1>1
<1>3. CASE t >= Back(h).time
  <2>1. GetInterpolatedState(h, t) = Still(h[n]) BY <1>3 DEF GetInterpolatedState, Back
  <2> QED BY <1>2, <2>1
<1>4. CASE ~(t >= Back(h).time) /\ t < h[1].time
  <2>1. GetInterpolatedState(h, t) = Still(h[1]) BY <1>4 DEF GetInterpolatedState
  <2> QED BY <1>2, <2>1
<1>5. CASE ~(t >= Back(h).time) /\ ~(t < h[1].time)
  <2>1. GetInterpolatedState(h, t) = IF b = 1 THEN Still(h[1]) ELSE Between(h[b - 1], h[b], t)
    BY <1>5 DEF GetInterpolatedState
  <2>2. Divides(h, t, b, 1, n + 1) BY LowerBoundDivides
  <2> HIDE DEF b
  <2>3. CASE b = 1 BY <1>2, <2>1, <2>3
  <2>4. CASE b # 1
    <3>1. b \in 1 .. n + 1 /\ \A k \in 1 .. b - 1 : h[k].time < t BY <2>2 DEF Divides
    <3>2. b # n + 1
      <4>1. SUFFICES ASSUME b = n + 1 PROVE FALSE OBVIOUS
      <4>2. n \in 1 .. b - 1 BY <1>1, <4>1
      <4>3. h[n].time < t BY <3>1, <4>2
      <4>4. h[n].time \in Nat /\ ~(t >= h[n].time) BY <1>2, <1>5, ElementOfSeq, TimeIsNat DEF Back
      <4> QED BY <4>3, <4>4
    <3>3. b \in 2 .. n /\ b \in b .. n + 1 - 1 /\ b - 1 \in 1 .. b - 1 BY <1>1, <2>4, <3>1, <3>2
    <3>4. h[b].time >= t BY <2>2, <3>3 DEF Divides
    <3> QED BY <2>1, <2>4, <3>1, <3>3, <3>4
  <2> QED BY <2>3, <2>4
<1> QED BY <1>3, <1>4, <1>5

\* Only neighbours are around a time.
LEMMA NeighboursAround ==
  ASSUME NEW h \in Seq(Snapshot), InOrder(h), NEW b \in 2 .. Len(h), NEW k \in 1 .. Len(h)
  PROVE  h[k].time <= h[b - 1].time \/ h[k].time >= h[b].time
<1>1. Len(h) \in Nat BY LenProperties
<1>2. b \in 1 .. Len(h) /\ b - 1 \in 1 .. Len(h) BY <1>1
<1>3. h[k].time \in Int /\ h[b].time \in Int /\ h[b - 1].time \in Int
  <2>1. h[k].time \in Nat /\ h[b].time \in Nat /\ h[b - 1].time \in Nat
    BY <1>2, ElementOfSeq, TimeIsNat
  <2> QED BY <2>1
<1>4. k < b - 1 \/ k = b - 1 \/ k = b \/ b < k BY <1>1
<1>5. CASE k < b - 1
  <2>1. h[k].time < h[b - 1].time BY <1>2, <1>5 DEF InOrder
  <2>2. h[k].time <= h[b - 1].time BY <1>3, <2>1, LessIsAtMost
  <2> QED BY <2>2
<1>6. CASE b < k
  <2>1. h[b].time < h[k].time BY <1>2, <1>6 DEF InOrder
  <2>2. h[k].time >= h[b].time BY <1>3, <2>1, LessIsAtMost
  <2> QED BY <2>2
<1>7. CASE k = b - 1 BY <1>3, <1>7, LessIsAtMost
<1>8. CASE k = b BY <1>3, <1>8, LessIsAtMost
<1> QED BY <1>4, <1>5, <1>6, <1>7, <1>8

\* A place in the history is between neighbours.
LEMMA StandsBetween ==
  ASSUME SnapshotsInv, NEW i \in 1 .. Len(history), Drawn = Still(history[i])
  PROVE  DrawnBetweenNeighbours
<1>1. DOMAIN history = 1 .. Len(history) BY LenProperties DEF SnapshotsInv, SnapshotsOK
<1>2. /\ Drawn.from = history[i].pos /\ Drawn.to = history[i].pos
      /\ Drawn.part = 0 /\ Drawn.of = 1
  BY DEF Still
<1> HIDE DEF Drawn
<1>3. Drawn.of > 0 /\ Drawn.part \in 0 .. Drawn.of /\ ~(Drawn.part > 0) BY <1>2
<1>4. i - i \in {0, 1} BY LenProperties DEF SnapshotsInv, SnapshotsOK
<1> QED BY <1>1, <1>2, <1>3, <1>4 DEF DrawnBetweenNeighbours

\* So is a step on the way from one snapshot to the next.
LEMMA MovesBetween ==
  ASSUME SnapshotsInv, NEW b \in 2 .. Len(history),
         history[b - 1].time < clientTime, history[b].time >= clientTime,
         Drawn = [from |-> history[b - 1].pos, to |-> history[b].pos,
                  part |-> clientTime - history[b - 1].time,
                  of |-> history[b].time - history[b - 1].time]
  PROVE  DrawnBetweenNeighbours
<1>1. history \in Seq(Snapshot) /\ clientTime \in Int /\ InOrder(history)
  BY InOrderInWindow DEF SnapshotsInv, SnapshotsOK
<1>2. DOMAIN history = 1 .. Len(history) /\ Len(history) \in Nat BY <1>1, LenProperties
<1>3. b \in DOMAIN history /\ b - 1 \in DOMAIN history /\ b - (b - 1) \in {0, 1} BY <1>2
<1>4. history[b].time \in Nat /\ history[b - 1].time \in Nat
  BY <1>1, <1>2, <1>3, ElementOfSeq, TimeIsNat
<1>5. /\ Drawn.from = history[b - 1].pos /\ Drawn.to = history[b].pos
      /\ Drawn.part = clientTime - history[b - 1].time
      /\ Drawn.of = history[b].time - history[b - 1].time
  OBVIOUS
<1> HIDE DEF Drawn
<1>6. Drawn.of > 0 /\ Drawn.part \in 0 .. Drawn.of
  BY <1>1, <1>4, <1>5, PartOfInterval
<1>7. \A k \in DOMAIN history : \/ history[k].time <= history[b - 1].time
                                \/ history[k].time >= history[b].time
  BY <1>1, <1>2, NeighboursAround
<1>8. clientTime <= history[b].time BY <1>1, <1>4, LessIsAtMost
<1> QED BY <1>3, <1>5, <1>6, <1>7, <1>8 DEF DrawnBetweenNeighbours

\* Draw's own fallback, to the newest snapshot, is one of the two.
LEMMA DrawnBetween == SnapshotsInv => DrawnBetweenNeighbours
<1> SUFFICES ASSUME SnapshotsInv, history # <<>> PROVE DrawnBetweenNeighbours
  BY DEF DrawnBetweenNeighbours
<1> DEFINE S == GetInterpolatedState(history, clientTime)
           n == Len(history)
<1>1. history \in Seq(Snapshot) /\ clientTime \in Int /\ InOrder(history)
  BY InOrderInWindow DEF SnapshotsInv, SnapshotsOK
<1>2. n \in 1 .. n BY <1>1, EmptySeq, LenProperties
<1>3. Drawn = IF S.to = Absent THEN Still(history[n]) ELSE S BY DEF Drawn, Back
<1>4. \/ \E i \in 1 .. n : S = Still(history[i])
      \/ \E b \in 2 .. n : /\ history[b - 1].time < clientTime /\ history[b].time >= clientTime
                           /\ S = Between(history[b - 1], history[b], clientTime)
  BY <1>1, InterpolatedIs
<1> HIDE DEF S
<1>5. ASSUME NEW i \in 1 .. n, S = Still(history[i]) PROVE DrawnBetweenNeighbours
  <2>1. Drawn = Still(history[n]) \/ Drawn = Still(history[i]) BY <1>3, <1>5
  <2> QED BY <1>2, <2>1, StandsBetween
<1>6. ASSUME NEW b \in 2 .. n, history[b - 1].time < clientTime, history[b].time >= clientTime,
             S = Between(history[b - 1], history[b], clientTime)
      PROVE  DrawnBetweenNeighbours
  <2>1. CASE history[b - 1].pos # Absent /\ history[b].pos # Absent
    <3>1. S = [from |-> history[b - 1].pos, to |-> history[b].pos,
               part |-> clientTime - history[b - 1].time,
               of |-> history[b].time - history[b - 1].time]
      BY <1>6, <2>1 DEF Between
    <3>2. S.to = history[b].pos BY <3>1
    <3>3. Drawn = S BY <1>3, <2>1, <3>2
    <3> QED BY <1>6, <3>1, <3>3, MovesBetween
  <2>2. CASE ~(history[b - 1].pos # Absent /\ history[b].pos # Absent)
    <3>1. S = Still(history[b]) BY <1>6, <2>2 DEF Between
    <3>2. b \in 1 .. n BY <1>2
    <3> QED BY <1>5, <3>1, <3>2
  <2> QED BY <2>1, <2>2
<1> QED BY <1>4, <1>5, <1>6

\* Whatever was lost or overtaken and however long the frames were, an entity is drawn
\* at its place in a snapshot or between its places in the two around the clock, and the
\* bisection found those two (GetInterpolatedState, GameplayScene::Draw).
THEOREM DrawnCorrect == SnapshotsSpec => []DrawnBetweenNeighbours
BY DrawnBetween, SnapshotsInvariance, PTL
=============================================================================
