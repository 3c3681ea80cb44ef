------------------------------ MODULE Attendance ------------------------------
(***************************************************************************)
(* What a game server owes the sessions that connect to it directly: each  *)
(* gets one player, once, and the player goes when the session has gone.   *)
(* There are no slots, batches or threads here; ServerHost implements it.  *)
(***************************************************************************)
EXTENDS Integers

CONSTANT Sessions

VARIABLES
    open,           \* the server takes connections
    arrived,        \* sessions that ever connected
    online,         \* sessions connected
    admitted,       \* sessions that were given a player
    playing         \* sessions that have a player

vars == <<open, arrived, online, admitted, playing>>

Init == open = TRUE /\ arrived = {} /\ online = {} /\ admitted = {} /\ playing = {}

Connect(s) ==
    /\ open /\ s \notin arrived
    /\ arrived' = arrived \cup {s} /\ online' = online \cup {s}
    /\ UNCHANGED <<open, admitted, playing>>

Disconnect(s) ==
    /\ s \in online
    /\ online' = online \ {s}
    /\ UNCHANGED <<open, arrived, admitted, playing>>

\* A session may be gone again when its arrival is handled.
Admit(s) ==
    /\ open /\ s \in arrived \ admitted
    /\ admitted' = admitted \cup {s} /\ playing' = playing \cup {s}
    /\ UNCHANGED <<open, arrived, online>>

Dismiss(s) ==
    /\ s \in playing \ online
    /\ playing' = playing \ {s}
    /\ UNCHANGED <<open, arrived, online, admitted>>

Close ==
    /\ open
    /\ open' = FALSE
    /\ arrived' = {} /\ online' = {} /\ admitted' = {} /\ playing' = {}

Next ==
    \/ \E s \in Sessions : Connect(s) \/ Disconnect(s) \/ Admit(s) \/ Dismiss(s)
    \/ Close

\* Whoever stays gets a player, and no player outlives its session for ever.
Promise == \A s \in Sessions : []<>(s \in online <=> s \in playing)

Steps == Init /\ [][Next]_vars

Spec == Steps /\ Promise
=============================================================================
