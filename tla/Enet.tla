-------------------------------- MODULE Enet --------------------------------
(***************************************************************************)
(* An ENet host and the ENetServer around it, as the server programs see   *)
(* them.  A connection is a session; the program knows it by its slot      *)
(* only, and slots are given again.  poll applies all the connects and     *)
(* disconnects of a batch to clients_ before the first message of the      *)
(* batch is handled, so a message is handled in a world that may already   *)
(* have lost its sender, or given its slot to someone else.                *)
(***************************************************************************)
EXTENDS Integers, Sequences

CONSTANTS
    Peers,          \* ENet slots
    MaxSession,     \* bound on connections
    MaxWire,        \* bound on packets waiting for a poll
    Kinds           \* packets that peers send

Sessions == 1 .. MaxSession
Nobody == 0

ASSUME EnetAssumption ==
    /\ MaxSession \in Nat /\ MaxWire \in Nat
    /\ {"CONNECT", "DISCONNECT"} \cap Kinds = {}

VARIABLES
    clients,        \* ENetServer's clients_: slot -> its session, or Nobody
    batch,          \* what the last poll returned and is not handled yet
    online,         \* ENet: slot -> the session connected to it, or Nobody
    lastSession,    \* ENet: sessions there have been
    wire            \* ENet: events not polled yet

enet == <<clients, batch, online, lastSession, wire>>

EventWith(A) ==
    [kind: {"CONNECT", "DISCONNECT"} \cup Kinds, from: Peers, session: Sessions, arg: A]

EnetTypeOK(A) ==
    /\ clients \in [Peers -> Sessions \cup {Nobody}]
    /\ batch \in Seq(EventWith(A)) /\ wire \in Seq(EventWith(A))
    /\ online \in [Peers -> Sessions \cup {Nobody}]
    /\ lastSession \in 0 .. MaxSession

EnetInit ==
    /\ clients = [p \in Peers |-> Nobody] /\ batch = <<>>
    /\ online = [p \in Peers |-> Nobody] /\ lastSession = 0 /\ wire = <<>>

Happens(k, p, s, a) == Append(wire, [kind |-> k, from |-> p, session |-> s, arg |-> a])

IsPacket(e) == e.kind \in Kinds

\* A peer gets a free slot.
Arrive(p) ==
    /\ online[p] = Nobody /\ lastSession < MaxSession
    /\ lastSession' = lastSession + 1
    /\ online' = [online EXCEPT ![p] = lastSession']
    /\ wire' = Happens("CONNECT", p, lastSession', Nobody)
    /\ UNCHANGED <<clients, batch>>

\* Disconnect or ENet's timeout.
Drop(p) ==
    /\ online[p] # Nobody
    /\ online' = [online EXCEPT ![p] = Nobody]
    /\ wire' = Happens("DISCONNECT", p, online[p], Nobody)
    /\ UNCHANGED <<clients, batch, lastSession>>

\* What is left of q without its member i.
Losing(q, i) == [j \in 1 .. (Len(q) - 1) |-> IF j < i THEN q[j] ELSE q[j + 1]]

\* What a session sent and was not polled may be lost when it has gone.
Lose(i) ==
    /\ IsPacket(wire[i]) /\ online[wire[i].from] # wire[i].session
    /\ wire' = Losing(wire, i)
    /\ UNCHANGED <<clients, batch, online, lastSession>>

Say(p, k, a) ==
    /\ online[p] # Nobody /\ Len(SelectSeq(wire, IsPacket)) < MaxWire
    /\ wire' = Happens(k, p, online[p], a)
    /\ UNCHANGED <<clients, batch, online, lastSession>>

Presence(q, p) == {i \in DOMAIN q : q[i].from = p /\ ~IsPacket(q[i])}

LastPresence(q, p) ==
    q[CHOOSE i \in Presence(q, p) : \A j \in Presence(q, p) : j <= i]

\* Who has slot p after the events q, if s has it before.
After(q, p, s) ==
    IF Presence(q, p) = {} THEN s
    ELSE IF LastPresence(q, p).kind = "CONNECT" THEN LastPresence(q, p).session
    ELSE Nobody

\* poll drains ENet and updates clients_.
PollHost ==
    /\ batch' = wire /\ wire' = <<>>
    /\ clients' = [p \in Peers |-> After(wire, p, clients[p])]
    /\ UNCHANGED <<online, lastSession>>

\* The next message of the batch is taken.
Take ==
    /\ batch # <<>>
    /\ batch' = Tail(batch)
    /\ UNCHANGED <<clients, online, lastSession, wire>>

\* The end of session s was polled and is not handled yet.
Leaving(s) == \E i \in DOMAIN batch : batch[i].kind = "DISCONNECT" /\ batch[i].session = s

\* stop: the peers are told, waited for and reset; nothing is polled any more.
StopHost ==
    /\ clients' = [p \in Peers |-> Nobody] /\ online' = [p \in Peers |-> Nobody]
    /\ batch' = <<>> /\ wire' = <<>>
    /\ UNCHANGED lastSession
=============================================================================
