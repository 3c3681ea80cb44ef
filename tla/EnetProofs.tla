------------------------------ MODULE EnetProofs ------------------------------
(***************************************************************************)
(* Facts about Enet that the proofs about the two servers rest on.  The    *)
(* events of a slot come in the order connect, packets, disconnect, so a   *)
(* sequence of events leads from who held the slots before it to who holds *)
(* them after it; what is on the wire leads from clients_ to the sessions  *)
(* that are connected.                                                     *)
(***************************************************************************)
EXTENDS Enet, SequenceTheorems, WellFoundedInduction, TLAPS

-----------------------------------------------------------------------------
(* Events that lead from one set of holders to another.                    *)

Holders == [Peers -> Sessions \cup {Nobody}]

\* Event e turns the holders f into g.
Applies(e, f, g) ==
  \/ /\ e.kind = "CONNECT" /\ f[e.from] = Nobody
     /\ g = [f EXCEPT ![e.from] = e.session]
  \/ /\ e.kind = "DISCONNECT" /\ f[e.from] = e.session
     /\ g = [f EXCEPT ![e.from] = Nobody]
  \/ IsPacket(e) /\ f[e.from] = e.session /\ g = f

\* h tells who holds the slots after each event of q.
IsRun(q, h) ==
  /\ h \in [0 .. Len(q) -> Holders]
  /\ \A i \in 1 .. Len(q) : Applies(q[i], h[i - 1], h[i])

Leads(q, f, g) == \E h : IsRun(q, h) /\ h[0] = f /\ h[Len(q)] = g

\* A set of naturals has a smallest member; this is all the induction there is here.
LEMMA Smallest ==
  ASSUME NEW T, T \subseteq Nat, T # {}
  PROVE  \E n \in T : \A m \in T : n <= m
<1>1. PICK n \in T : \A m \in T : ~(<<m, n>> \in OpToRel(<, Nat))
  BY NatLessThanWellFounded, WFMin
<1>2. ASSUME NEW m \in T PROVE n <= m
  <2>1. n \in Nat /\ m \in Nat OBVIOUS
  <2>2. ~(m < n) BY <1>1, <2>1 DEF OpToRel
  <2> QED BY <2>1, <2>2
<1> QED BY <1>2

\* Kinds are told apart.
LEMMA KindsDiffer ==
  /\ \A e : IsPacket(e) => e.kind # "CONNECT" /\ e.kind # "DISCONNECT"
  /\ Nobody \notin Sessions
BY EnetAssumption DEF IsPacket, Nobody, Sessions

\* No event, no change.
LEMMA LeadsNowhere ==
  ASSUME NEW f
  PROVE  /\ f \in Holders => Leads(<<>>, f, f)
         /\ \A g : Leads(<<>>, f, g) => g = f
<1>1. Len(<<>>) = 0 OBVIOUS
<1>2. f \in Holders => IsRun(<<>>, [n \in 0 .. 0 |-> f]) BY <1>1 DEF IsRun
<1>3. f \in Holders => Leads(<<>>, f, f) BY <1>1, <1>2 DEF Leads
<1>4. ASSUME NEW g, Leads(<<>>, f, g) PROVE g = f BY <1>1, <1>4 DEF Leads
<1> QED BY <1>3, <1>4

\* One more event at the end.
LEMMA LeadsFurther ==
  ASSUME NEW E, NEW q \in Seq(E), NEW e \in E, NEW f, NEW g, NEW k \in Holders,
         Leads(q, f, g), Applies(e, g, k)
  PROVE  Leads(Append(q, e), f, k)
<1> DEFINE r == Append(q, e)
           n == Len(q)
<1>1. PICK h : IsRun(q, h) /\ h[0] = f /\ h[n] = g BY DEF Leads
<1>2. /\ n \in Nat /\ Len(r) = n + 1
      /\ \A i \in 1 .. n : r[i] = q[i]
      /\ r[n + 1] = e
  BY AppendProperties
<1> DEFINE j == [i \in 0 .. (n + 1) |-> IF i = n + 1 THEN k ELSE h[i]]
<1> HIDE DEF r, n
<1>3. j \in [0 .. Len(r) -> Holders] BY <1>1, <1>2 DEF IsRun, n
<1>4. ASSUME NEW i \in 1 .. Len(r) PROVE Applies(r[i], j[i - 1], j[i])
  <2>1. CASE i = n + 1
    <3>1. j[i] = k /\ j[i - 1] = g /\ r[i] = e BY <1>1, <1>2, <2>1
    <3> QED BY <3>1
  <2>2. CASE i # n + 1
    <3>1. i \in 1 .. n BY <1>2, <2>2
    <3>2. j[i] = h[i] /\ j[i - 1] = h[i - 1] /\ r[i] = q[i] BY <1>2, <3>1
    <3> QED BY <1>1, <3>1, <3>2 DEF IsRun, n
  <2> QED BY <2>1, <2>2
<1>5. j[0] = f /\ j[Len(r)] = k BY <1>1, <1>2
<1> QED BY <1>3, <1>4, <1>5 DEF Leads, IsRun, r

\* The first event is taken.
LEMMA LeadsRest ==
  ASSUME NEW E, NEW q \in Seq(E), q # <<>>, NEW f, NEW g, Leads(q, f, g)
  PROVE  \E k \in Holders : Applies(Head(q), f, k) /\ Leads(Tail(q), k, g)
<1> DEFINE r == Tail(q)
           n == Len(q)
<1>1. PICK h : IsRun(q, h) /\ h[0] = f /\ h[n] = g BY DEF Leads
<1>2. /\ n \in Nat \ {0} /\ Len(r) = n - 1 /\ Head(q) = q[1]
      /\ \A i \in 1 .. Len(r) : r[i] = q[i + 1]
  OBVIOUS
<1> DEFINE j == [i \in 0 .. (n - 1) |-> h[i + 1]]
<1> HIDE DEF r, n
<1>3. j \in [0 .. Len(r) -> Holders] BY <1>1, <1>2 DEF IsRun, n
<1>4. ASSUME NEW i \in 1 .. Len(r) PROVE Applies(r[i], j[i - 1], j[i])
  <2>1. i + 1 \in 1 .. n /\ (i + 1) - 1 = i BY <1>2
  <2>2. j[i] = h[i + 1] /\ j[i - 1] = h[i] /\ r[i] = q[i + 1] BY <1>2
  <2> QED BY <1>1, <2>1, <2>2 DEF IsRun, n
<1>5. j[0] = h[1] /\ j[Len(r)] = g BY <1>1, <1>2
<1>6. Applies(Head(q), f, h[1]) /\ h[1] \in Holders
  <2>1. 1 \in 1 .. n /\ 1 \in 0 .. n /\ 1 - 1 = 0 BY <1>2
  <2>2. Applies(q[1], h[1 - 1], h[1]) /\ h[1] \in Holders BY <1>1, <2>1 DEF IsRun, n
  <2> QED BY <1>1, <1>2, <2>1, <2>2
<1>7. Leads(r, h[1], g) BY <1>3, <1>4, <1>5 DEF Leads, IsRun
<1> QED BY <1>6, <1>7 DEF r

\* A sequence without its member i is a sequence of the same things.
LEMMA LosingIs ==
  ASSUME NEW E, NEW q \in Seq(E), NEW i \in 1 .. Len(q)
  PROVE  /\ Losing(q, i) \in Seq(E) /\ Len(Losing(q, i)) = Len(q) - 1
         /\ \A j \in 1 .. (Len(q) - 1) : Losing(q, i)[j] = IF j < i THEN q[j] ELSE q[j + 1]
<1>1. Len(q) \in Nat /\ \A j \in 1 .. Len(q) : q[j] \in E OBVIOUS
<1>2. Losing(q, i) \in [1 .. (Len(q) - 1) -> E] BY <1>1 DEF Losing
<1>3. Len(q) - 1 \in Nat BY <1>1
<1> DEFINE n == Len(q) - 1
           r == Losing(q, i)
<1> HIDE DEF n, r
<1>4. r \in [1 .. n -> E] /\ n \in Nat BY <1>2, <1>3 DEF n, r
<1>5. r \in Seq(E) BY <1>4, SeqDef
<1>6. Len(r) = n BY <1>4, <1>5
<1> QED BY <1>5, <1>6 DEF n, r, Losing

\* A lost packet changes no holder.
LEMMA LeadsWithout ==
  ASSUME NEW E, NEW q \in Seq(E), NEW i \in 1 .. Len(q), IsPacket(q[i]),
         NEW f, NEW g, Leads(q, f, g)
  PROVE  Leads(Losing(q, i), f, g)
<1> DEFINE r == Losing(q, i)
           n == Len(q)
<1>1. PICK h : IsRun(q, h) /\ h[0] = f /\ h[n] = g BY DEF Leads
<1>2. /\ n \in Nat \ {0} /\ Len(r) = n - 1 /\ i \in 1 .. n
      /\ \A j \in 1 .. (n - 1) : r[j] = IF j < i THEN q[j] ELSE q[j + 1]
  BY LosingIs
<1> DEFINE j == [m \in 0 .. (n - 1) |-> IF m < i THEN h[m] ELSE h[m + 1]]
<1> HIDE DEF r, n
<1>3. h[i] = h[i - 1]
  <2>1. Applies(q[i], h[i - 1], h[i]) BY <1>1 DEF IsRun
  <2> QED BY <2>1, KindsDiffer DEF Applies
<1>4. j \in [0 .. Len(r) -> Holders] BY <1>1, <1>2 DEF IsRun, n
<1>5. ASSUME NEW m \in 1 .. Len(r) PROVE Applies(r[m], j[m - 1], j[m])
  <2>1. CASE m < i
    <3>1. m \in 1 .. n /\ j[m] = h[m] /\ j[m - 1] = h[m - 1] /\ r[m] = q[m] BY <1>2, <2>1
    <3> QED BY <1>1, <3>1 DEF IsRun, n
  <2>2. CASE m >= i
    <3>1. m + 1 \in 1 .. n /\ (m + 1) - 1 = m /\ r[m] = q[m + 1] /\ j[m] = h[m + 1]
      BY <1>2, <2>2
    <3>2. j[m - 1] = h[m]
      <4>1. CASE m = i
        <5>1. j[m - 1] = h[m - 1] BY <1>2, <4>1
        <5> QED BY <1>3, <4>1, <5>1
      <4>2. CASE m # i BY <1>2, <2>2, <4>2
      <4> QED BY <4>1, <4>2
    <3> QED BY <1>1, <3>1, <3>2 DEF IsRun, n
  <2> QED BY <1>2, <2>1, <2>2
<1>6. j[0] = f /\ j[Len(r)] = g
  <2>1. j[0] = h[0] BY <1>2
  <2>2. j[n - 1] = h[n] BY <1>2, <1>3
  <2> QED BY <1>1, <1>2, <2>1, <2>2
<1> QED BY <1>4, <1>5, <1>6 DEF Leads, IsRun, r

\* Between two events of its own nothing happens to a slot.
LEMMA RunKeeps ==
  ASSUME NEW E, NEW q \in Seq(E), NEW h, IsRun(q, h), NEW p \in Peers,
         NEW m \in 0 .. Len(q), NEW n \in m .. Len(q),
         \A i \in (m + 1) .. n : q[i].from # p \/ IsPacket(q[i])
  PROVE  h[n][p] = h[m][p]
<1> DEFINE T == {k \in m .. n : h[k][p] # h[m][p]}
<1> SUFFICES ASSUME T # {} PROVE FALSE BY DEF T
<1>0. Len(q) \in Nat OBVIOUS
<1>1. PICK k \in T : \A l \in T : k <= l
  <2>1. T \subseteq Nat BY <1>0
  <2> HIDE DEF T
  <2> QED BY <2>1, Smallest
<1>2. k \in m .. n /\ k # m /\ k - 1 \in m .. n /\ k \in (m + 1) .. n /\ k \in 1 .. Len(q)
  BY <1>1
<1>3. h[k - 1][p] = h[m][p] BY <1>1, <1>2
<1>4. Applies(q[k], h[k - 1], h[k]) /\ h[k - 1] \in Holders
  BY <1>2 DEF IsRun
<1>5. h[k][p] = h[k - 1][p]
  <2>1. CASE IsPacket(q[k]) BY <1>4, <2>1, KindsDiffer DEF Applies
  <2>2. CASE q[k].from # p BY <1>4, <2>2 DEF Applies, Holders
  <2> QED BY <1>2, <2>1, <2>2
<1> QED BY <1>1, <1>3, <1>5

\* If anything happened to a slot, something happened to it last.
LEMMA LastIsLast ==
  ASSUME NEW E, NEW q \in Seq(E), NEW p, Presence(q, p) # {}
  PROVE  \E i \in Presence(q, p) :
           /\ LastPresence(q, p) = q[i]
           /\ \A j \in Presence(q, p) : j <= i
<1>1. Len(q) \in Nat /\ DOMAIN q = 1 .. Len(q) OBVIOUS
<1> DEFINE P == Presence(q, p)
           T == {Len(q) - i : i \in P}
<1>2. P \subseteq 1 .. Len(q) BY <1>1 DEF Presence
<1> HIDE DEF P
<1>3. T \subseteq Nat /\ T # {} BY <1>1, <1>2 DEF P
<1>4. PICK n \in T : \A m \in T : n <= m BY <1>3, Smallest
<1>5. PICK i \in P : n = Len(q) - i BY <1>4
<1>6. ASSUME NEW j \in P PROVE j <= i
  <2>1. Len(q) - j \in T OBVIOUS
  <2>2. Len(q) - i <= Len(q) - j BY <1>4, <1>5, <2>1
  <2>3. i \in 1 .. Len(q) /\ j \in 1 .. Len(q) BY <1>2
  <2> QED BY <1>1, <2>2, <2>3
<1> DEFINE l == CHOOSE k \in P : \A j \in P : j <= k
<1>7. l \in P /\ \A j \in P : j <= l BY <1>6
<1> QED BY <1>7 DEF LastPresence, P

\* poll's rule for clients_ gives what the events lead to.
LEMMA AfterIsWhereItLeads ==
  ASSUME NEW E, NEW q \in Seq(E), NEW f, NEW g, Leads(q, f, g), NEW p \in Peers
  PROVE  After(q, p, f[p]) = g[p]
<1>1. Len(q) \in Nat /\ DOMAIN q = 1 .. Len(q) OBVIOUS
<1>2. PICK h : IsRun(q, h) /\ h[0] = f /\ h[Len(q)] = g BY DEF Leads
<1>3. CASE Presence(q, p) = {}
  <2>1. 0 \in 0 .. Len(q) /\ Len(q) \in 0 .. Len(q) BY <1>1
  <2>2. \A i \in (0 + 1) .. Len(q) : q[i].from # p \/ IsPacket(q[i])
    BY <1>1, <1>3 DEF Presence
  <2>3. h[Len(q)][p] = h[0][p] BY <1>2, <2>1, <2>2, RunKeeps
  <2> QED BY <1>2, <1>3, <2>3 DEF After
<1>4. CASE Presence(q, p) # {}
  <2>1. PICK i \in Presence(q, p) :
          LastPresence(q, p) = q[i] /\ \A j \in Presence(q, p) : j <= i
    BY <1>4, LastIsLast
  <2>2. i \in 1 .. Len(q) /\ q[i].from = p /\ ~IsPacket(q[i]) BY <1>1, <2>1 DEF Presence
  <2>3. \A j \in (i + 1) .. Len(q) : q[j].from # p \/ IsPacket(q[j])
    <3> SUFFICES ASSUME NEW j \in (i + 1) .. Len(q), q[j].from = p, ~IsPacket(q[j])
                 PROVE  FALSE
      OBVIOUS
    <3>1. j \in Presence(q, p) BY <1>1, <2>2 DEF Presence
    <3> QED BY <1>1, <2>1, <2>2, <3>1
  <2>4. i \in 0 .. Len(q) /\ Len(q) \in i .. Len(q) BY <1>1, <2>2
  <2>5. h[Len(q)][p] = h[i][p] BY <1>2, <2>3, <2>4, RunKeeps
  <2>6. Applies(q[i], h[i - 1], h[i]) /\ h[i - 1] \in Holders BY <1>1, <1>2, <2>2 DEF IsRun
  <2>7. h[i][p] = IF q[i].kind = "CONNECT" THEN q[i].session ELSE Nobody
    BY <2>2, <2>6 DEF Applies, Holders
  <2> QED BY <1>2, <1>4, <2>1, <2>5, <2>7 DEF After
<1> QED BY <1>3, <1>4

\* A session that no longer holds its slot was disconnected in between.
LEMMA LeadsAway ==
  ASSUME NEW E, NEW q \in Seq(E), NEW f, NEW g, Leads(q, f, g), NEW p \in Peers,
         f[p] # Nobody, g[p] # f[p]
  PROVE  \E i \in 1 .. Len(q) :
           q[i].kind = "DISCONNECT" /\ q[i].from = p /\ q[i].session = f[p]
<1>1. Len(q) \in Nat OBVIOUS
<1>2. PICK h : IsRun(q, h) /\ h[0] = f /\ h[Len(q)] = g BY DEF Leads
<1> DEFINE T == {k \in 0 .. Len(q) : h[k][p] # f[p]}
<1>3. Len(q) \in T /\ T \subseteq Nat BY <1>1, <1>2
<1>4. PICK k \in T : \A l \in T : k <= l BY <1>3, Smallest
<1>5. k \in 1 .. Len(q) /\ k - 1 \in 0 .. Len(q) BY <1>1, <1>2, <1>4
<1>6. h[k - 1][p] = f[p] /\ h[k][p] # f[p] BY <1>4, <1>5
<1>7. Applies(q[k], h[k - 1], h[k]) /\ h[k - 1] \in Holders BY <1>2, <1>5 DEF IsRun
<1>8. q[k].kind = "DISCONNECT" /\ q[k].from = p /\ q[k].session = f[p]
  BY <1>6, <1>7 DEF Applies, Holders
<1> QED BY <1>5, <1>8

-----------------------------------------------------------------------------
(* What holds of a host between its steps.                                 *)

\* Session s is to be found at slot p.
At(s, p) ==
  \/ online[p] = s \/ clients[p] = s
  \/ \E i \in 1 .. Len(wire) : wire[i].from = p /\ wire[i].session = s
  \/ \E i \in 1 .. Len(batch) : batch[i].from = p /\ batch[i].session = s

\* A session has one slot, all its life.
OneSlot ==
  \A s \in Sessions, p \in Peers :
    At(s, p) => s <= lastSession /\ \A r \in Peers : At(s, r) => r = p

Connects(e, s) == e.kind = "CONNECT" /\ e.session = s

\* It connects once.
ConnectsOnce ==
  \A s \in Sessions :
    /\ \A i, j \in 1 .. Len(wire) : Connects(wire[i], s) /\ Connects(wire[j], s) => i = j
    /\ \A i, j \in 1 .. Len(batch) : Connects(batch[i], s) /\ Connects(batch[j], s) => i = j
    /\ \A i \in 1 .. Len(wire), j \in 1 .. Len(batch) :
         ~(Connects(wire[i], s) /\ Connects(batch[j], s))

Disconnects(e, s) == e.kind = "DISCONNECT" /\ e.session = s

\* Once its end is on the way it is not connected.
GoneForGood ==
  \A s \in Sessions, p \in Peers : online[p] = s =>
    /\ \A i \in 1 .. Len(wire) : ~Disconnects(wire[i], s)
    /\ \A i \in 1 .. Len(batch) : ~Disconnects(batch[i], s)

EnetInv(A) ==
  /\ EnetTypeOK(A)
  /\ Leads(wire, clients, online)
  /\ OneSlot /\ ConnectsOnce /\ GoneForGood

LEMMA EnetInitInv ==
  ASSUME NEW A, EnetInit
  PROVE  EnetInv(A)
<1>1. /\ clients \in Holders /\ online = clients /\ wire = <<>> /\ batch = <<>>
      /\ \A p \in Peers : clients[p] = Nobody
      /\ Len(<<>>) = 0 /\ lastSession = 0
  BY DEF EnetInit, Holders
<1>2. EnetTypeOK(A) BY <1>1, EnetAssumption DEF EnetTypeOK, Holders
<1>3. Leads(wire, clients, online) BY <1>1, LeadsNowhere
<1>4. OneSlot /\ ConnectsOnce /\ GoneForGood
  BY <1>1, KindsDiffer DEF OneSlot, ConnectsOnce, GoneForGood, At
<1> QED BY <1>2, <1>3, <1>4 DEF EnetInv

\* An event comes: it fits who holds the slots, and if it is a connect its session is new.
LEMMA EventComes ==
  ASSUME NEW A, EnetInv(A), NEW e \in EventWith(A), wire' = Append(wire, e),
         online' \in Holders, Applies(e, online, online'),
         IF e.kind = "CONNECT"
         THEN lastSession' = lastSession + 1 /\ e.session = lastSession'
         ELSE lastSession' = lastSession,
         lastSession' \in 0 .. MaxSession,
         UNCHANGED <<clients, batch>>
  PROVE  EnetInv(A)'
<1> DEFINE E == EventWith(A)
           n == Len(wire)
<1>1. /\ wire \in Seq(E) /\ batch \in Seq(E) /\ lastSession \in Nat
      /\ online \in Holders /\ clients \in Holders
  BY EnetAssumption DEF EnetInv, EnetTypeOK, Holders
<1>2. /\ e.from \in Peers /\ e.session \in Sessions
      /\ e.kind \in {"CONNECT", "DISCONNECT"} \cup Kinds
  BY DEF EventWith
<1> HIDE DEF E, n
<1>3. /\ wire' \in Seq(E) /\ Len(wire') = n + 1 /\ n \in Nat
      /\ \A i \in 1 .. n : wire'[i] = wire[i]
      /\ wire'[n + 1] = e
  <2>1. e \in E BY DEF E
  <2> QED BY <1>1, <2>1, AppendProperties DEF n
<1>4. EnetTypeOK(A)' BY <1>1, <1>3 DEF EnetInv, EnetTypeOK, Holders, E
<1>5. Leads(wire', clients', online')
  <2>1. e \in E /\ Leads(wire, clients, online) BY DEF E, EnetInv
  <2> QED BY <1>1, <2>1, LeadsFurther
\* Where the event's session is to be found now.
<1>6. ASSUME NEW s \in Sessions, NEW p \in Peers, At(s, p)'
      PROVE  At(s, p) \/ (s = e.session /\ p = e.from)
  <2>1. CASE online'[p] = s BY <1>1, <1>2, <2>1, KindsDiffer DEF Applies, Holders, At
  <2>2. CASE clients'[p] = s BY <2>2 DEF At
  <2>3. ASSUME NEW i \in 1 .. Len(wire'), wire'[i].from = p, wire'[i].session = s
        PROVE  At(s, p) \/ (s = e.session /\ p = e.from)
    <3>1. i \in 1 .. n \/ i = n + 1 BY <1>3
    <3> QED BY <1>3, <2>3, <3>1 DEF At, n
  <2>4. CASE \E i \in 1 .. Len(batch') : batch'[i].from = p /\ batch'[i].session = s
    BY <2>4 DEF At
  <2> QED BY <1>6, <2>1, <2>2, <2>3, <2>4 DEF At
<1>7. CASE e.kind = "CONNECT"
  <2>1. \A p \in Peers : ~At(e.session, p)
    <3>1. ~(e.session <= lastSession) BY <1>1, <1>7
    <3> QED BY <1>2, <3>1 DEF EnetInv, OneSlot
  <2>2. /\ \A i \in 1 .. n : wire[i].session # e.session
        /\ \A i \in 1 .. Len(batch) : batch[i].session # e.session
    <3>1. ASSUME NEW i \in 1 .. n, wire[i].session = e.session PROVE FALSE
      <4>1. wire[i] \in E BY <1>1, ElementOfSeq DEF n
      <4>2. wire[i].from \in Peers BY <4>1 DEF E, EventWith
      <4> QED BY <2>1, <3>1, <4>2 DEF At, n
    <3>2. ASSUME NEW i \in 1 .. Len(batch), batch[i].session = e.session PROVE FALSE
      <4>1. batch[i] \in E BY <1>1, ElementOfSeq
      <4>2. batch[i].from \in Peers BY <4>1 DEF E, EventWith
      <4> QED BY <2>1, <3>2, <4>2 DEF At
    <3> QED BY <3>1, <3>2
  <2>3. OneSlot'
    <3> SUFFICES ASSUME NEW s \in Sessions, NEW p \in Peers, At(s, p)'
                 PROVE  s <= lastSession' /\ \A r \in Peers : At(s, r)' => r = p
      BY DEF OneSlot
    <3>1. CASE s = e.session BY <1>1, <1>6, <1>7, <2>1, <3>1
    <3>2. CASE s # e.session
      <4>1. At(s, p) /\ \A r \in Peers : At(s, r)' => At(s, r) BY <1>6, <3>2
      <4> QED BY <1>1, <1>7, <4>1 DEF EnetInv, OneSlot, Sessions
    <3> QED BY <3>1, <3>2
  <2>4. ConnectsOnce'
    <3>1. ASSUME NEW i \in 1 .. n + 1 PROVE i \in 1 .. n \/ i = n + 1 BY <1>3
    <3> QED BY <1>3, <2>2, <3>1 DEF EnetInv, ConnectsOnce, Connects, n
  <2>5. GoneForGood'
    <3> SUFFICES ASSUME NEW s \in Sessions, NEW p \in Peers, online'[p] = s
                 PROVE  /\ \A i \in 1 .. Len(wire') : ~Disconnects(wire'[i], s)
                        /\ \A i \in 1 .. Len(batch') : ~Disconnects(batch'[i], s)
      BY DEF GoneForGood
    <3>1. online[p] = s \/ s = e.session BY <1>1, <1>7, KindsDiffer DEF Applies, Holders
    <3>2. ~Disconnects(e, s) BY <1>7 DEF Disconnects
    <3>3. /\ \A i \in 1 .. n : ~Disconnects(wire[i], s)
          /\ \A i \in 1 .. Len(batch) : ~Disconnects(batch[i], s)
      BY <2>2, <3>1 DEF EnetInv, GoneForGood, Disconnects, n
    <3>4. ASSUME NEW i \in 1 .. n + 1 PROVE i \in 1 .. n \/ i = n + 1 BY <1>3
    <3> QED BY <1>3, <3>2, <3>3, <3>4
  <2> QED BY <1>4, <1>5, <2>3, <2>4, <2>5 DEF EnetInv
<1>8. CASE e.kind # "CONNECT"
  <2>1. online[e.from] = e.session BY <1>8 DEF Applies
  <2>2. At(e.session, e.from) BY <2>1 DEF At
  <2>3. \A s \in Sessions, p \in Peers : At(s, p)' => At(s, p) BY <1>6, <2>2
  <2>4. OneSlot' BY <1>8, <2>3 DEF EnetInv, OneSlot
  <2>5. ASSUME NEW i \in 1 .. n + 1 PROVE i \in 1 .. n \/ i = n + 1 BY <1>3
  <2>6. ConnectsOnce' BY <1>3, <1>8, <2>5 DEF EnetInv, ConnectsOnce, Connects, n
  <2>7. GoneForGood'
    <3> SUFFICES ASSUME NEW s \in Sessions, NEW p \in Peers, online'[p] = s
                 PROVE  /\ \A i \in 1 .. Len(wire') : ~Disconnects(wire'[i], s)
                        /\ \A i \in 1 .. Len(batch') : ~Disconnects(batch'[i], s)
      BY DEF GoneForGood
    <3>1. online[p] = s BY <1>1, <1>2, <1>8, KindsDiffer DEF Applies, Holders
    <3>2. ~Disconnects(e, s)
      <4> SUFFICES ASSUME Disconnects(e, s) PROVE FALSE
        OBVIOUS
      <4>1. At(s, p) /\ s = e.session BY <3>1 DEF At, Disconnects
      <4>2. p = e.from BY <1>2, <2>2, <4>1 DEF EnetInv, OneSlot
      <4>3. online'[e.from] = Nobody BY <1>1, <1>2, KindsDiffer DEF Applies, Disconnects, Holders
      <4> QED BY <4>2, <4>3, KindsDiffer
    <3> QED BY <1>3, <2>5, <3>1, <3>2 DEF EnetInv, GoneForGood, n
  <2> QED BY <1>4, <1>5, <2>4, <2>6, <2>7 DEF EnetInv
<1> QED BY <1>7, <1>8

LEMMA ArriveInv ==
  ASSUME NEW A, Nobody \in A, EnetInv(A), NEW p \in Peers, Arrive(p)
  PROVE  EnetInv(A)'
<1> DEFINE e == [kind |-> "CONNECT", from |-> p, session |-> lastSession', arg |-> Nobody]
<1>1. /\ lastSession \in Nat /\ MaxSession \in Nat /\ lastSession \in 0 .. MaxSession
      /\ online \in Holders
  BY EnetAssumption DEF EnetInv, EnetTypeOK, Holders
<1>2. /\ online[p] = Nobody /\ lastSession' = lastSession + 1
      /\ lastSession' \in 0 .. MaxSession /\ lastSession' \in Sessions
      /\ online' = [online EXCEPT ![p] = lastSession']
      /\ wire' = Append(wire, e) /\ UNCHANGED <<clients, batch>>
  BY <1>1 DEF Arrive, Happens, Sessions
<1>3. e \in EventWith(A) BY <1>2 DEF EventWith
<1>4. online' \in Holders BY <1>1, <1>2 DEF Holders
<1>5. Applies(e, online, online') BY <1>2 DEF Applies
<1>6. e.kind = "CONNECT" /\ e.session = lastSession' OBVIOUS
<1> HIDE DEF e
<1> QED BY <1>2, <1>3, <1>4, <1>5, <1>6, EventComes

LEMMA DropInv ==
  ASSUME NEW A, Nobody \in A, EnetInv(A), NEW p \in Peers, Drop(p)
  PROVE  EnetInv(A)'
<1> DEFINE e == [kind |-> "DISCONNECT", from |-> p, session |-> online[p], arg |-> Nobody]
<1>1. online \in Holders /\ lastSession \in 0 .. MaxSession
  BY DEF EnetInv, EnetTypeOK, Holders
<1>2. /\ online[p] # Nobody /\ online[p] \in Sessions /\ lastSession' = lastSession
      /\ online' = [online EXCEPT ![p] = Nobody]
      /\ wire' = Append(wire, e) /\ UNCHANGED <<clients, batch>>
  BY <1>1 DEF Drop, Happens, Holders
<1>3. e \in EventWith(A) BY <1>2 DEF EventWith
<1>4. online' \in Holders BY <1>1, <1>2 DEF Holders
<1>5. Applies(e, online, online') BY <1>2 DEF Applies
<1>6. e.kind # "CONNECT" OBVIOUS
<1> HIDE DEF e
<1> QED BY <1>1, <1>2, <1>3, <1>4, <1>5, <1>6, EventComes

LEMMA SayInv ==
  ASSUME NEW A, EnetInv(A), NEW p \in Peers, NEW k \in Kinds, NEW a \in A, Say(p, k, a)
  PROVE  EnetInv(A)'
<1> DEFINE e == [kind |-> k, from |-> p, session |-> online[p], arg |-> a]
<1>1. online \in Holders /\ lastSession \in 0 .. MaxSession
  BY DEF EnetInv, EnetTypeOK, Holders
<1>2. /\ online[p] # Nobody /\ online[p] \in Sessions
      /\ wire' = Append(wire, e) /\ UNCHANGED <<clients, batch, lastSession, online>>
  BY <1>1 DEF Say, Happens, Holders
<1>3. e \in EventWith(A) BY <1>2 DEF EventWith
<1>4. Applies(e, online, online') BY <1>2 DEF Applies, IsPacket
<1>5. e.kind # "CONNECT" BY EnetAssumption
<1>6. online' \in Holders BY <1>1, <1>2
<1> HIDE DEF e
<1> QED BY <1>1, <1>2, <1>3, <1>4, <1>5, <1>6, EventComes

LEMMA LoseInv ==
  ASSUME NEW A, EnetInv(A), NEW i \in DOMAIN wire, Lose(i)
  PROVE  EnetInv(A)'
<1> DEFINE E == EventWith(A)
<1>1. wire \in Seq(E) BY DEF EnetInv, EnetTypeOK
<1> HIDE DEF E
<1>2. i \in 1 .. Len(wire) /\ Len(wire) \in Nat BY <1>1
<1>3. /\ IsPacket(wire[i]) /\ wire' = Losing(wire, i)
      /\ UNCHANGED <<clients, batch, online, lastSession>>
  BY DEF Lose
<1>4. /\ wire' \in Seq(E) /\ Len(wire') = Len(wire) - 1
      /\ \A j \in 1 .. (Len(wire) - 1) : wire'[j] = IF j < i THEN wire[j] ELSE wire[j + 1]
  BY <1>1, <1>2, <1>3, LosingIs
<1>5. EnetTypeOK(A)' BY <1>3, <1>4 DEF EnetInv, EnetTypeOK, E
<1>6. Leads(wire', clients', online') BY <1>1, <1>2, <1>3, LeadsWithout DEF EnetInv
\* Every event of the new wire is one of the old, and two are two.
<1> DEFINE old(j) == IF j < i THEN j ELSE j + 1
<1>7. \A j \in 1 .. Len(wire') : old(j) \in 1 .. Len(wire) /\ wire'[j] = wire[old(j)]
  BY <1>2, <1>4
<1>8. \A j, k \in 1 .. Len(wire') : old(j) = old(k) => j = k BY <1>2, <1>4
<1> HIDE DEF old
<1>9. OneSlot'
  <2>1. \A s \in Sessions, p \in Peers : At(s, p)' => At(s, p) BY <1>3, <1>7 DEF At
  <2> QED BY <1>3, <2>1 DEF EnetInv, OneSlot
<1>10. ConnectsOnce'
  <2> SUFFICES ASSUME NEW s \in Sessions
               PROVE  /\ \A j, k \in 1 .. Len(wire') :
                           Connects(wire'[j], s) /\ Connects(wire'[k], s) => j = k
                      /\ \A j, k \in 1 .. Len(batch) :
                           Connects(batch[j], s) /\ Connects(batch[k], s) => j = k
                      /\ \A j \in 1 .. Len(wire'), k \in 1 .. Len(batch) :
                           ~(Connects(wire'[j], s) /\ Connects(batch[k], s))
    BY <1>3 DEF ConnectsOnce
  <2>1. ASSUME NEW j \in 1 .. Len(wire'), NEW k \in 1 .. Len(wire'),
               Connects(wire'[j], s), Connects(wire'[k], s)
        PROVE  j = k
    <3>1. old(j) = old(k) BY <1>7, <2>1 DEF EnetInv, ConnectsOnce
    <3> QED BY <1>8, <3>1
  <2>2. ASSUME NEW j \in 1 .. Len(wire'), NEW k \in 1 .. Len(batch)
        PROVE  ~(Connects(wire'[j], s) /\ Connects(batch[k], s))
    BY <1>7 DEF EnetInv, ConnectsOnce
  <2> QED BY <2>1, <2>2 DEF EnetInv, ConnectsOnce
<1>11. GoneForGood' BY <1>3, <1>7 DEF EnetInv, GoneForGood
<1> QED BY <1>5, <1>6, <1>9, <1>10, <1>11 DEF EnetInv

\* A poll of a host whose last batch is handled: the programs poll only then.
LEMMA PollHostInv ==
  ASSUME NEW A, EnetInv(A), batch = <<>>, PollHost
  PROVE  /\ EnetInv(A)'
         /\ clients' = online /\ Leads(batch', clients, clients')
<1> DEFINE E == EventWith(A)
<1>1. /\ wire \in Seq(E) /\ clients \in Holders /\ online \in Holders
      /\ Leads(wire, clients, online)
  BY DEF EnetInv, EnetTypeOK, Holders
<1>2. /\ batch' = wire /\ wire' = <<>> /\ UNCHANGED <<online, lastSession>>
      /\ clients' = [p \in Peers |-> After(wire, p, clients[p])]
  BY DEF PollHost
<1> HIDE DEF E
<1>3. \A p \in Peers : After(wire, p, clients[p]) = online[p]
  BY <1>1, AfterIsWhereItLeads
<1>4. clients' = online BY <1>1, <1>2, <1>3 DEF Holders
<1>5. Leads(batch', clients, clients') BY <1>1, <1>2, <1>4
<1>6. Leads(wire', clients', online') BY <1>1, <1>2, <1>4, LeadsNowhere
<1>7. EnetTypeOK(A)' BY <1>1, <1>2, <1>4 DEF EnetInv, EnetTypeOK, Holders, E
<1>8. OneSlot' /\ ConnectsOnce' /\ GoneForGood'
  <2>1. Len(wire') = 0 /\ Len(batch) = 0 BY <1>2
  <2>2. \A s \in Sessions, p \in Peers : At(s, p)' => At(s, p) BY <1>2, <1>4, <2>1 DEF At
  <2>3. OneSlot' BY <1>2, <2>2 DEF EnetInv, OneSlot
  <2>4. ConnectsOnce' BY <1>2, <2>1 DEF EnetInv, ConnectsOnce
  <2>5. GoneForGood' BY <1>2, <2>1 DEF EnetInv, GoneForGood
  <2> QED BY <2>3, <2>4, <2>5
<1> QED BY <1>4, <1>5, <1>6, <1>7, <1>8 DEF EnetInv

LEMMA TakeInv ==
  ASSUME NEW A, EnetInv(A), Take
  PROVE  EnetInv(A)'
<1> DEFINE E == EventWith(A)
<1>1. batch \in Seq(E) BY DEF EnetInv, EnetTypeOK
<1>2. /\ batch # <<>> /\ batch' = Tail(batch)
      /\ UNCHANGED <<clients, online, lastSession, wire>>
  BY DEF Take
<1> HIDE DEF E
<1>3. /\ batch' \in Seq(E) /\ Len(batch') = Len(batch) - 1 /\ Len(batch) \in Nat
      /\ \A i \in 1 .. Len(batch') : batch'[i] = batch[i + 1]
  BY <1>1, <1>2
<1>4. \A i \in 1 .. Len(batch') : i + 1 \in 1 .. Len(batch) BY <1>3
<1>5. EnetTypeOK(A)' BY <1>2, <1>3 DEF EnetInv, EnetTypeOK, E
<1>6. \A s \in Sessions, p \in Peers : At(s, p)' => At(s, p)
  BY <1>2, <1>3, <1>4 DEF At
<1>7. OneSlot' BY <1>2, <1>6 DEF EnetInv, OneSlot
<1>8. ConnectsOnce'
  <2>1. \A i, j \in 1 .. Len(batch') : i + 1 = j + 1 => i = j BY <1>3
  <2> QED BY <1>2, <1>3, <1>4, <2>1 DEF EnetInv, ConnectsOnce
<1>9. GoneForGood' BY <1>2, <1>3, <1>4 DEF EnetInv, GoneForGood
<1> QED BY <1>2, <1>5, <1>7, <1>8, <1>9 DEF EnetInv

LEMMA StopHostInv ==
  ASSUME NEW A, EnetInv(A), StopHost
  PROVE  EnetInv(A)'
<1>1. /\ clients' \in Holders /\ online' = clients' /\ wire' = <<>> /\ batch' = <<>>
      /\ \A p \in Peers : clients'[p] = Nobody
      /\ Len(wire') = 0 /\ Len(batch') = 0 /\ lastSession' = lastSession
  BY DEF StopHost, Holders
<1>2. EnetTypeOK(A)' BY <1>1 DEF EnetInv, EnetTypeOK, Holders
<1>3. Leads(wire', clients', online') BY <1>1, LeadsNowhere
<1>4. OneSlot' /\ ConnectsOnce' /\ GoneForGood'
  BY <1>1, KindsDiffer DEF OneSlot, ConnectsOnce, GoneForGood, At
<1> QED BY <1>2, <1>3, <1>4 DEF EnetInv

LEMMA EnetStutter ==
  ASSUME NEW A, EnetInv(A), UNCHANGED enet
  PROVE  EnetInv(A)'
BY DEF enet, EnetInv, EnetTypeOK, Leads, OneSlot, At, ConnectsOnce, GoneForGood
=============================================================================
