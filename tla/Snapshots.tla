----------------------------- MODULE Snapshots -----------------------------
(***************************************************************************)
(* What a client shows of the world: the server broadcasts snapshots that  *)
(* the network may lose or reorder, SnapshotManager keeps the recent ones, *)
(* and each frame draws the world as it was a little before the newest,    *)
(* between two snapshots.                                                  *)
(*                                                                         *)
(* Time is counted in integers.  One entity stands for all, as entities do *)
(* not influence each other's interpolation; of its state only a position  *)
(* on a line is kept.  The wave number shown follows the packets just as   *)
(* lastServerTime does.                                                    *)
(***************************************************************************)
EXTENDS Integers, Sequences, FiniteSets

CONSTANTS
    Places,         \* positions
    Delay,          \* interpolationDelay (0.1 s)
    Jump,           \* beyond this distance the clock jumps (1.5 s)
    Window,         \* snapshots older than the newest by this much go (2 s)
    MaxFrame,       \* bound on the duration of a frame
    MaxTime,        \* bound on the server's time
    MaxFlight       \* bound on snapshots on their way

ASSUME SnapshotAssumption ==
    /\ Places \subseteq Nat
    /\ {Delay, Jump, Window, MaxFrame, MaxTime, MaxFlight} \subseteq Nat

VARIABLES
    now,            \* the earliest time of the next snapshot
    net,            \* snapshots on their way
    history,
    lastServerTime,
    clientTime,
    newest          \* history variable: the latest time received, or -1

snapshots == <<now, net, history, lastServerTime, clientTime, newest>>

Absent == -1
Snapshot == [time: Nat, pos: Places \cup {Absent}]

\* The names say Snapshots where Client has the same ones: ClientProofs is about both.
SnapshotsOK ==
    /\ now \in 0 .. MaxTime + 1 /\ net \subseteq Snapshot
    /\ history \in Seq(Snapshot)
    /\ lastServerTime \in Nat /\ clientTime \in Int /\ newest \in Nat \cup {-1}

SnapshotsInit ==
    /\ now = 0 /\ net = {} /\ history = <<>>
    /\ lastServerTime = 0 /\ clientTime = 0 /\ newest = -1

-----------------------------------------------------------------------------
(* The server and the network.                                             *)

\* The server's clock passes between two snapshots; the first may be at time 0.
BroadcastSnapshot ==
    \E t \in now .. MaxTime, p \in Places \cup {Absent} :
      /\ Cardinality(net) < MaxFlight
      /\ net' = net \cup {[time |-> t, pos |-> p]}
      /\ now' = t + 1
      /\ UNCHANGED <<history, lastServerTime, clientTime, newest>>

Lose(s) ==
    /\ net' = net \ {s}
    /\ UNCHANGED <<now, history, lastServerTime, clientTime, newest>>

-----------------------------------------------------------------------------
(* SnapshotManager.                                                        *)

Back(h) == h[Len(h)]

\* The loop pops from the front what is too old, but keeps two.
TooOld(h) == {i \in 1 .. Len(h) - 2 : h[i].time < Back(h).time - Window}

PruneOnce(h) ==
    IF Len(h) > 2 /\ h[1].time < Back(h).time - Window THEN Tail(h) ELSE h

Prune(h) == SubSeq(h, Cardinality(TooOld(h)) + 1, Len(h))

PushUnordered(h, s) == Prune(Append(h, s))

PushSnapshot(h, s) ==
    IF h # <<>> /\ s.time <= Back(h).time THEN h ELSE Prune(Append(h, s))

\* std::lower_bound: bisection of the len snapshots from the first-th on for the first
\* one that is not before time t.
LowerBound(h, t) ==
    LET search[len \in Nat] ==
          LET half == len \div 2
          IN  [first \in Nat |->
                 IF len = 0 THEN first
                 ELSE IF h[first + half].time < t
                      THEN search[len - half - 1][first + half + 1]
                      ELSE search[half][first]]
    IN  search[Len(h)][1]

Still(s) == [from |-> s.pos, to |-> s.pos, part |-> 0, of |-> 1]

\* Absent at t's right neighbour means that GetInterpolatedState returns false.
Between(a, b, t) ==
    IF a.pos # Absent /\ b.pos # Absent
    THEN [from |-> a.pos, to |-> b.pos, part |-> t - a.time, of |-> b.time - a.time]
    ELSE Still(b)

GetInterpolatedState(h, t) ==
    IF t >= Back(h).time THEN Still(Back(h))
    ELSE IF t < h[1].time THEN Still(h[1])
    ELSE LET b == LowerBound(h, t)
         IN  IF b = 1 THEN Still(h[1]) ELSE Between(h[b - 1], h[b], t)

-----------------------------------------------------------------------------
(* The gameplay scene.                                                     *)

\* OnMessage: the clock follows every snapshot, late ones too.
OnSnapshot(s) ==
    /\ net' = net \ {s}
    /\ history' = PushSnapshot(history, s)
    /\ lastServerTime' = s.time
    /\ clientTime' = IF lastServerTime = 0 THEN s.time - Delay ELSE clientTime
    /\ newest' = IF s.time > newest THEN s.time ELSE newest
    /\ UNCHANGED now

\* Update moves the clock a tenth of the way to its target; any part is allowed here.
Update ==
    \E dt \in 1 .. MaxFrame :
      LET t == clientTime + dt
          target == lastServerTime - Delay
      IN  /\ IF target - t > Jump \/ t - target > Jump
             THEN clientTime' = target
             ELSE \E c \in (t .. target) \cup (target .. t) : clientTime' = c
          /\ UNCHANGED <<now, net, history, lastServerTime, newest>>

\* Draw shows the entities of the newest snapshot, from there if they have no past.
Drawn ==
    LET s == GetInterpolatedState(history, clientTime)
    IN  IF s.to = Absent THEN Still(Back(history)) ELSE s

-----------------------------------------------------------------------------
SnapshotsNext ==
    \/ BroadcastSnapshot
    \/ \E s \in net : Lose(s) \/ OnSnapshot(s)
    \/ Update

SnapshotsSpec == SnapshotsInit /\ [][SnapshotsNext]_snapshots

-----------------------------------------------------------------------------
\* However packets are reordered, the history runs forward in time, and apart from
\* its last two it holds nothing older than the window.
HistoryInOrder ==
    /\ \A i, j \in DOMAIN history : i < j => history[i].time < history[j].time
    /\ Len(history) > 2 => history[1].time >= Back(history).time - Window

\* The newest snapshot that arrived is the one Draw takes its entities from.
NewestKept ==
    IF newest = -1 THEN history = <<>>
                   ELSE history # <<>> /\ Back(history).time = newest

\* Whatever the clock says, an entity that is drawn is drawn where a snapshot has it,
\* or between its places in the two snapshots around the clock, with no other between
\* them: the clamps of t and the guard against an empty interval never act.
DrawnBetweenNeighbours ==
    (history # <<>> /\ Back(history).pos # Absent) =>
      /\ Drawn.of > 0 /\ Drawn.part \in 0 .. Drawn.of
      /\ \E i, j \in DOMAIN history :
           /\ j - i \in {0, 1}
           /\ Drawn.from = history[i].pos /\ Drawn.to = history[j].pos
           /\ Drawn.part > 0 =>
                /\ history[i].time < clientTime /\ clientTime <= history[j].time
                /\ \A k \in DOMAIN history : \/ history[k].time <= history[i].time
                                             \/ history[k].time >= history[j].time
=============================================================================
