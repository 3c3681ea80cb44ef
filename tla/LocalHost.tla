------------------------------ MODULE LocalHost ------------------------------
(***************************************************************************)
(* The server that a client starts for itself: GameClient's localServer.   *)
(*                                                                         *)
(* StartHost runs in a detached thread of the menu, one per click; the     *)
(* frame loop runs StopHost when a game is left and when the program ends. *)
(* They share the pointer, a unique_ptr, without a lock, and each of them  *)
(* waits for the server's own thread in between.  ServerHost says what     *)
(* that thread does; here it ends some time after it is told to.           *)
(*                                                                         *)
(* Each read and each write of the pointer is a step: a test and the call  *)
(* that follows it are two, and so are, in reset and in an assignment,     *)
(* reading the old pointer, writing the new one and deleting what the old  *)
(* one pointed to.                                                         *)
(*                                                                         *)
(* A call through a null pointer or of a destroyed server, a server that   *)
(* is destroyed twice, and the join of a thread that somebody else joins   *)
(* have no defined outcome: the program ends here with them.               *)
(***************************************************************************)
EXTENDS Integers

CONSTANTS
    Workers,        \* detached threads
    MaxServers,     \* bound on the ServerHosts made
    Ports           \* how many ports StartHost tries (ten)

ASSUME LocalHostAssumption ==
    /\ "main" \notin Workers
    /\ MaxServers \in Nat /\ Ports \in Nat \ {0}

Main == "main"
Threads == Workers \cup {Main}
Servers == 1 .. MaxServers
Null == 0

VARIABLES
    hasty,          \* does the player click on, or quit, while a thread works?
    localServer,    \* the ServerHost it points to, or Null
    made,           \* ServerHosts made so far
    server,         \* what a ServerHost does
    portOf,         \* the port that a ServerHost's socket has, or 0
    busy,           \* ports that other programs have
    pc,             \* where a thread is
    resume,         \* where it goes after StopHost, reset or a destructor
    holds,          \* the ServerHost a thread has read from localServer, or Null
    fresh,          \* the ServerHost it has made and not assigned yet, or Null
    trying,         \* the port it tries
    scene,
    news,           \* a CONNECT that the frame loop has not handled
    failed,         \* history: the own server was started and not reached
    fault           \* how the program ended, if it did

heap == <<made, server, portOf>>
thread == <<pc, resume, holds, fresh, trying>>
frame == <<scene, news, failed>>
given == <<hasty, busy>>
vars == <<given, localServer, heap, thread, frame, fault>>

Deeds == {"none", "idle", "running", "stopping", "over", "freed"}
Places ==
    {"idle", "stop", "call", "join", "reset", "clear", "drop", "make", "assign", "try",
     "connect", "exit", "over"}
Returns == {"idle", "make", "try", "exit", "over"}

TypeOK ==
    /\ hasty \in BOOLEAN
    /\ localServer \in Servers \cup {Null} /\ made \in 0 .. MaxServers
    /\ server \in [Servers -> Deeds]
    /\ portOf \in [Servers -> 0 .. Ports] /\ busy \subseteq 1 .. Ports
    /\ pc \in [Threads -> Places] /\ resume \in [Threads -> Returns]
    /\ holds \in [Threads -> Servers \cup {Null}]
    /\ fresh \in [Threads -> Servers \cup {Null}]
    /\ trying \in [Threads -> 1 .. Ports]
    /\ scene \in {"menu", "game", "over"} /\ news \in BOOLEAN /\ failed \in BOOLEAN
    /\ fault \in {"none", "busy port", "undefined"}

Init ==
    /\ hasty \in BOOLEAN
    /\ localServer = Null /\ made = 0
    /\ server = [o \in Servers |-> "none"] /\ portOf = [o \in Servers |-> 0]
    /\ busy \in SUBSET (1 .. Ports)
    /\ pc = [t \in Threads |-> "idle"] /\ resume = [t \in Threads |-> "idle"]
    /\ holds = [t \in Threads |-> Null] /\ fresh = [t \in Threads |-> Null]
    /\ trying = [t \in Threads |-> 1]
    /\ scene = "menu" /\ news = FALSE /\ failed = FALSE
    /\ fault = "none"

Alive == fault = "none" /\ scene # "over"
At(t, place) == Alive /\ pc[t] = place

Goes(t, place) == pc' = [pc EXCEPT ![t] = place]
Takes(t, o, place) == Goes(t, place) /\ holds' = [holds EXCEPT ![t] = o]
Calls(t, place, back) == Goes(t, place) /\ resume' = [resume EXCEPT ![t] = back]
Becomes(o, deed) == server' = [server EXCEPT ![o] = deed]

-----------------------------------------------------------------------------
(* StopHost: the test, Stop, then reset.                                   *)

JoinsOnly(o) == UNCHANGED server

\* Stop clears running, before it joins.
ToldToStop(o) ==
    IF server[o] = "running" THEN Becomes(o, "stopping") ELSE UNCHANGED server

StopHost(t) ==
    /\ At(t, "stop")
    /\ IF localServer = Null THEN Takes(t, Null, resume[t]) ELSE Takes(t, localServer, "call")
    /\ UNCHANGED <<localServer, heap, given, resume, fresh, trying, frame, fault>>

\* The call may use the pointer that was tested, or read it again.
CallStop(t) ==
    /\ At(t, "call")
    /\ \E o \in {holds[t], localServer} :
         IF o # Null /\ server[o] \in {"idle", "running"}
         THEN Takes(t, o, "join") /\ ToldToStop(o) /\ UNCHANGED fault
         ELSE fault' = "undefined" /\ UNCHANGED <<server, pc, holds>>
    /\ UNCHANGED <<localServer, made, portOf, given, resume, fresh, trying, frame>>

ServerThreadEnds(o) ==
    /\ Alive /\ server[o] = "stopping"
    /\ Becomes(o, "over")
    /\ UNCHANGED <<localServer, made, portOf, given, thread, frame, fault>>

\* The thread is joined, the socket closed; another thread may have destroyed the rest.
Join(t) ==
    /\ At(t, "join") /\ server[holds[t]] \in {"over", "idle", "freed"}
    /\ IF server[holds[t]] = "freed"
       THEN fault' = "undefined" /\ UNCHANGED <<server, portOf, pc, holds>>
       ELSE /\ Becomes(holds[t], "idle") /\ portOf' = [portOf EXCEPT ![holds[t]] = 0]
            /\ Takes(t, Null, "reset") /\ UNCHANGED fault
    /\ UNCHANGED <<localServer, made, given, resume, fresh, trying, frame>>

\* reset: the old pointer is read ...
Reset(t) ==
    /\ At(t, "reset")
    /\ Takes(t, localServer, "clear")
    /\ UNCHANGED <<localServer, heap, given, resume, fresh, trying, frame, fault>>

\* What the old pointer points to is destroyed next, if it points anywhere.
DropsOld(t) ==
    Goes(t, IF holds[t] = Null THEN resume[t] ELSE "drop")

ClearLeavesPointer(t) ==
    /\ At(t, "clear")
    /\ DropsOld(t)
    /\ UNCHANGED <<localServer, heap, given, resume, holds, fresh, trying, frame, fault>>

\* ... and overwritten, whatever is there by now.
Clear(t) ==
    /\ At(t, "clear")
    /\ localServer' = Null
    /\ DropsOld(t)
    /\ UNCHANGED <<heap, given, resume, holds, fresh, trying, frame, fault>>

\* ~ServerHost calls Stop once more.
DropStops(t) ==
    /\ At(t, "drop") /\ server[holds[t]] = "running"
    /\ ToldToStop(holds[t])
    /\ UNCHANGED <<localServer, made, portOf, given, thread, frame, fault>>

Drop(t) ==
    /\ At(t, "drop") /\ server[holds[t]] \in {"idle", "over"}
    /\ Becomes(holds[t], "freed") /\ portOf' = [portOf EXCEPT ![holds[t]] = 0]
    /\ Takes(t, Null, resume[t])
    /\ UNCHANGED <<localServer, made, given, resume, fresh, trying, frame, fault>>

DropTwice(t) ==
    /\ At(t, "drop") /\ server[holds[t]] = "freed"
    /\ fault' = "undefined"
    /\ UNCHANGED <<localServer, heap, given, thread, frame>>

-----------------------------------------------------------------------------
(* StartHost, and the rest of the click's thread.                          *)

Free == \A t \in Threads : pc[t] = "idle"
MayClick == Alive /\ pc[Main] = "idle" /\ scene = "menu" /\ (hasty \/ (Free /\ ~news))

Click(w) ==
    /\ MayClick /\ pc[w] = "idle"
    /\ Calls(w, "stop", "make") /\ failed' = FALSE
    /\ UNCHANGED <<localServer, heap, given, holds, fresh, trying, scene, news, fault>>

\* make_unique; the assignment reads the old pointer ...
Make(w) ==
    /\ At(w, "make") /\ made < MaxServers
    /\ made' = made + 1
    /\ Becomes(made', "idle")
    /\ fresh' = [fresh EXCEPT ![w] = made']
    /\ Takes(w, localServer, "assign")
    /\ UNCHANGED <<localServer, portOf, given, resume, trying, frame, fault>>

\* ... writes the new one, whatever is there by now, and destroys what it read.
Assign(w) ==
    /\ At(w, "assign")
    /\ localServer' = fresh[w] /\ fresh' = [fresh EXCEPT ![w] = Null]
    /\ trying' = [trying EXCEPT ![w] = 1]
    /\ resume' = [resume EXCEPT ![w] = "try"]
    /\ Goes(w, IF holds[w] = Null THEN "try" ELSE "drop")
    /\ UNCHANGED <<heap, given, holds, frame, fault>>

PortIsFree(p) == p \notin busy /\ \A o \in Servers : portOf[o] # p

StartSucceeds(w) ==
    /\ server[localServer] = "idle" /\ PortIsFree(trying[w])
    /\ Becomes(localServer, "running")
    /\ portOf' = [portOf EXCEPT ![localServer] = trying[w]]
    /\ Goes(w, "connect")
    /\ UNCHANGED <<resume, trying, fault>>

\* ENetServer::start goes on with the null host that it gets.
PortIsBusy(w) ==
    /\ server[localServer] = "idle" /\ ~PortIsFree(trying[w])
    /\ fault' = "busy port"
    /\ UNCHANGED <<server, portOf, pc, resume, trying>>

\* Another thread's server is running there: false, for each of the ports.
StartRefuses(w) ==
    /\ server[localServer] = "running"
    /\ IF trying[w] < Ports
       THEN trying' = [trying EXCEPT ![w] = @ + 1] /\ UNCHANGED <<pc, resume>>
       ELSE Calls(w, "reset", "idle") /\ UNCHANGED trying
    /\ UNCHANGED <<server, portOf, fault>>

\* Its thread is not joined yet, and another one is put in its place.
StartsOver(w) ==
    /\ server[localServer] \in {"stopping", "over"}
    /\ fault' = "undefined"
    /\ UNCHANGED <<server, portOf, pc, resume, trying>>

Try(w) ==
    /\ At(w, "try")
    /\ IF localServer = Null
       THEN fault' = "undefined" /\ UNCHANGED <<server, portOf, pc, resume, trying>>
       ELSE StartSucceeds(w) \/ PortIsBusy(w) \/ StartRefuses(w) \/ StartsOver(w)
    /\ UNCHANGED <<localServer, made, given, holds, fresh, frame>>

Connect(w) ==
    /\ At(w, "connect")
    /\ Goes(w, "idle")
    /\ \/ /\ \E o \in Servers : server[o] = "running" /\ portOf[o] = trying[w]
          /\ news' = TRUE /\ UNCHANGED failed
       \/ failed' = TRUE /\ UNCHANGED news
    /\ UNCHANGED <<localServer, heap, given, resume, holds, fresh, trying, scene, fault>>

-----------------------------------------------------------------------------
(* The frame loop.                                                         *)

\* Another server is joined, directly or through the master.
JoinElsewhere ==
    /\ MayClick
    /\ news' = TRUE
    /\ UNCHANGED <<localServer, heap, given, thread, scene, failed, fault>>

HandleConnect ==
    /\ Alive /\ pc[Main] = "idle" /\ news
    /\ news' = FALSE /\ scene' = "game"
    /\ UNCHANGED <<localServer, heap, given, thread, failed, fault>>

MayLeave == Alive /\ pc[Main] = "idle" /\ (hasty \/ Free)

LeavesServer ==
    /\ MayLeave /\ scene = "game"
    /\ scene' = "menu" /\ failed' = FALSE
    /\ UNCHANGED <<localServer, heap, given, thread, news, fault>>

\* ReturnToMenu, and GameplayScene::Exit in the next frame.
LeaveGame ==
    /\ MayLeave /\ scene = "game"
    /\ scene' = "menu" /\ failed' = FALSE
    /\ Calls(Main, "stop", "idle")
    /\ UNCHANGED <<localServer, heap, given, holds, fresh, trying, news, fault>>

\* ~GameClient: StopHost, the scene's Exit, which in a game is another StopHost.
Quit ==
    /\ MayLeave
    /\ Calls(Main, "stop", IF scene = "game" THEN "exit" ELSE "over")
    /\ UNCHANGED <<localServer, heap, given, holds, fresh, trying, frame, fault>>

ExitGame ==
    /\ At(Main, "exit")
    /\ Calls(Main, "stop", "over")
    /\ UNCHANGED <<localServer, heap, given, holds, fresh, trying, frame, fault>>

End ==
    /\ At(Main, "over")
    /\ scene' = "over"
    /\ UNCHANGED <<localServer, heap, given, thread, news, failed, fault>>

Stopping(t) ==
    \/ StopHost(t) \/ CallStop(t) \/ Join(t) \/ Reset(t) \/ Clear(t)
    \/ DropStops(t) \/ Drop(t) \/ DropTwice(t)
Working(w) == Stopping(w) \/ Make(w) \/ Assign(w) \/ Try(w) \/ Connect(w)
Leaving == Stopping(Main) \/ ExitGame \/ End

Next ==
    \/ \E w \in Workers : Click(w) \/ Working(w)
    \/ \E o \in Servers : ServerThreadEnds(o)
    \/ JoinElsewhere \/ HandleConnect \/ LeaveGame \/ Quit \/ Leaving

Spec == Init /\ [][Next]_vars

\* Every thread runs, and a server's loop ends once running is cleared.
FairSpec ==
    /\ Spec
    /\ WF_vars(Leaving) /\ \A w \in Workers : WF_vars(Working(w))
    /\ \A o \in Servers : WF_vars(ServerThreadEnds(o))

-----------------------------------------------------------------------------
\* A player who waits for each click meets no call through a null pointer, of a destroyed
\* server, or of a thread that is being joined, except where ENetServer::start goes on with
\* the null host of a port that another program has.
NothingUndefined ==
    ~hasty => fault = "none" \/ (fault = "busy port" /\ busy # {})

\* ENetServer::start tests the host for null and says "Port might be busy"; StartHost
\* tries ten ports: a port that another program has ends neither.
BusyPortIsReported == fault # "busy port"

\* However clicks, games and their ends interleave, for a hasty player too, localServer
\* never points to a server that is destroyed: every thread overwrites the pointer before
\* it destroys what it read from it.  (That a thread may overwrite what another one has
\* just assigned, or destroy what another one destroyed, is not excluded.)
NeverDangling == localServer # Null => server[localServer] \notin {"none", "freed"}

\* Back in the menu, the server of the game that was left is destroyed and its port is free;
\* one that is there is one that its client could not reach.
GoneWithTheGame ==
    ~hasty /\ Alive /\ scene = "menu" /\ Free /\ ~news /\ ~failed =>
      localServer = Null /\ \A o \in Servers : server[o] \in {"none", "freed"} /\ portOf[o] = 0

\* If the player waits for each click, whoever calls StopHost, and whoever starts a
\* server, comes back.
ThreadsReturn ==
    \A t \in Threads :
      (~hasty /\ pc[t] # "idle") ~>
        (pc[t] = "idle" \/ ~Alive \/ (pc[t] = "make" /\ made = MaxServers))
=============================================================================
