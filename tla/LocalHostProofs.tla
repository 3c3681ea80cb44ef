-------------------------- MODULE LocalHostProofs --------------------------
(***************************************************************************)
(* For any number of threads, servers and ports: whatever the interleaving *)
(* of reads and writes, localServer points to no destroyed server; and a   *)
(* player who waits for each click meets no undefined behaviour but that   *)
(* of a busy port, and leaves no server behind.                            *)
(***************************************************************************)
EXTENDS LocalHost, TLAPS

-----------------------------------------------------------------------------
(* Any interleaving.                                                       *)

NotMadeYet == \A o \in Servers : o > made => server[o] = "none"

\* What a thread has read was made once.
Known == \A t \in Threads : holds[t] # Null => server[holds[t]] # "none"

\* A server that is made and not assigned yet is nobody else's.
Unshared ==
    \A t \in Threads : pc[t] = "assign" =>
      /\ fresh[t] # Null /\ fresh[t] # localServer /\ server[fresh[t]] = "idle"
      /\ \A u \in Threads : /\ holds[u] # fresh[t]
                            /\ pc[u] = "assign" /\ fresh[u] = fresh[t] => u = t

\* Who destroys what he has read has overwritten it, and it is never assigned again.
Overwritten ==
    \A t \in Threads : pc[t] = "drop" => holds[t] # Null /\ holds[t] # localServer

Sound == NotMadeYet /\ Known /\ Unshared /\ Overwritten /\ NeverDangling

Inv == TypeOK /\ Sound

-----------------------------------------------------------------------------
(* One click at a time.                                                    *)

\* One thread at most is at work.
Alone == \A t, u \in Threads : pc[t] # "idle" /\ pc[u] # "idle" => t = u

\* What the thread t finds where it is.
Finds(t) ==
    /\ pc[t] = "stop" /\ localServer # Null => server[localServer] = "running"
    /\ pc[t] = "call" => /\ localServer # Null /\ holds[t] = localServer
                         /\ server[localServer] = "running"
    /\ pc[t] = "join" => /\ localServer # Null /\ holds[t] = localServer
                         /\ server[localServer] \in {"stopping", "over"}
    /\ pc[t] = "reset" => localServer # Null /\ server[localServer] = "idle"
    /\ pc[t] = "clear" => /\ localServer # Null /\ holds[t] = localServer
                          /\ server[localServer] = "idle"
    /\ pc[t] = "drop" => localServer = Null /\ holds[t] # Null /\ server[holds[t]] = "idle"
    /\ pc[t] \in {"make", "exit", "over"} => localServer = Null
    /\ pc[t] = "assign" => localServer = Null /\ holds[t] = Null
    /\ pc[t] = "try" => localServer # Null /\ server[localServer] = "idle"
    /\ pc[t] = "connect" => localServer # Null /\ server[localServer] = "running"

\* Where it goes from there.
ComesBack(t) ==
    pc[t] \in {"stop", "call", "join", "reset", "clear", "drop"} =>
      resume[t] \in (IF t = Main THEN {"idle", "exit", "over"} ELSE {"make"})

\* A server that is not destroyed is the own one, or a thread destroys or assigns it next.
Owned ==
    \A o \in Servers : server[o] \notin {"none", "freed"} =>
      \/ o = localServer
      \/ \E t \in Threads : \/ pc[t] = "drop" /\ holds[t] = o
                            \/ pc[t] = "assign" /\ fresh[t] = o

\* While no thread is at work: the own server runs, and then the client has reached it,
\* is about to, or was told that it cannot; or there is none.
Rests ==
    Free /\ localServer # Null =>
      server[localServer] = "running" /\ (scene = "game" \/ news \/ failed)

\* Only the own server has a port, from its start to the end of its stop.
OnePort ==
    \A o \in Servers : portOf[o] # 0 =>
      o = localServer /\ server[o] \in {"running", "stopping", "over"}

Orderly ==
    Alone /\ (\A t \in Threads : Finds(t) /\ ComesBack(t)) /\ Owned /\ Rests /\ OnePort

\* The program ends as it should, or where a port is busy.
EndsWell == fault = "none" \/ (fault = "busy port" /\ busy # {})

Waiting == EndsWell /\ (Alive => Orderly)

OrderlyInv == Inv /\ (~hasty => Waiting)

-----------------------------------------------------------------------------
(* Types.                                                                  *)

LEMMA InitInv == Init => OrderlyInv
<1> SUFFICES ASSUME Init PROVE OrderlyInv
  OBVIOUS
<1> USE LocalHostAssumption
<1>1. TypeOK
  <2>1. "idle" \in Places /\ "idle" \in Returns /\ "none" \in Deeds /\ 1 \in 1 .. Ports /\ 0 \in 0 .. Ports
        /\ 0 \in 0 .. MaxServers
    BY DEF Places, Deeds, Returns
  <2> QED  BY <2>1 DEF Init, TypeOK
<1>2. Sound
  BY DEF Init, Sound, NotMadeYet, Known, Unshared, Overwritten, NeverDangling
<1>3. Waiting
  BY DEF Init, Waiting, EndsWell, Orderly, Alone, Finds, ComesBack, Owned, Rests, OnePort
<1> QED  BY <1>1, <1>2, <1>3 DEF OrderlyInv, Inv

LEMMA Updated ==
    ASSUME NEW D, NEW R, NEW f \in [D -> R], NEW x, NEW v \in R
    PROVE  [f EXCEPT ![x] = v] \in [D -> R]
  OBVIOUS

\* Wherever a thread goes, whatever it takes and whatever a server becomes.
LEMMA MovesTyped ==
    ASSUME TypeOK, NEW t
    PROVE  /\ \A p \in Places : Goes(t, p) => pc' \in [Threads -> Places]
           /\ \A p \in Places, o \in Servers \cup {Null} : Takes(t, o, p) =>
                pc' \in [Threads -> Places] /\ holds' \in [Threads -> Servers \cup {Null}]
           /\ \A p \in Places, b \in Returns : Calls(t, p, b) =>
                pc' \in [Threads -> Places] /\ resume' \in [Threads -> Returns]
           /\ \A o : \A d \in Deeds : Becomes(o, d) => server' \in [Servers -> Deeds]
           /\ \A o : ToldToStop(o) => server' \in [Servers -> Deeds]
<1>1. "stopping" \in Deeds
  BY DEF Deeds
<1>2. /\ server \in [Servers -> Deeds]
      /\ pc \in [Threads -> Places] /\ resume \in [Threads -> Returns]
      /\ holds \in [Threads -> Servers \cup {Null}]
  BY DEF TypeOK
<1>3. \A p \in Places : Goes(t, p) => pc' \in [Threads -> Places]
  BY <1>2, Updated, Zenon DEF Goes
<1>4. ASSUME NEW p \in Places, NEW o \in Servers \cup {Null}, Takes(t, o, p)
      PROVE  pc' \in [Threads -> Places] /\ holds' \in [Threads -> Servers \cup {Null}]
  BY <1>2, <1>3, <1>4, Updated, Zenon DEF Takes
<1>5. ASSUME NEW p \in Places, NEW b \in Returns, Calls(t, p, b)
      PROVE  pc' \in [Threads -> Places] /\ resume' \in [Threads -> Returns]
  BY <1>2, <1>3, <1>5, Updated, Zenon DEF Calls
<1>6. \A o : \A d \in Deeds : Becomes(o, d) => server' \in [Servers -> Deeds]
  BY <1>2, Updated, Zenon DEF Becomes
<1>7. \A o : ToldToStop(o) => server' \in [Servers -> Deeds]
  BY <1>1, <1>2, <1>6 DEF ToldToStop
<1> QED  BY <1>3, <1>4, <1>5, <1>6, <1>7

LEMMA TypeStep == TypeOK /\ [Next]_vars => TypeOK'
<1> SUFFICES ASSUME TypeOK, [Next]_vars PROVE TypeOK'
  OBVIOUS
<1>0. Main \in Threads /\ Workers \subseteq Threads
  BY DEF Threads
<1>h. made < MaxServers => made + 1 \in 0 .. MaxServers /\ made + 1 \in Servers
  <2>1. made \in 0 .. MaxServers /\ MaxServers \in Nat
    BY LocalHostAssumption DEF TypeOK
  <2> QED  BY <2>1 DEF Servers
<1>i. \A n \in 1 .. Ports : n < Ports => n + 1 \in 1 .. Ports
  BY LocalHostAssumption
<1>a. /\ {"idle", "running", "stopping", "over", "freed"} \subseteq Deeds
      /\ Places = {"idle", "stop", "call", "join", "reset", "clear", "drop", "make", "assign",
                   "try", "connect", "exit", "over"}
      /\ Returns = {"idle", "make", "try", "exit", "over"}
  BY DEF Places, Deeds, Returns
<1>b. Ports \in Nat \ {0} /\ MaxServers \in Nat
  BY LocalHostAssumption
<1>c. ASSUME NEW x, NEW n \in 0 .. Ports, portOf' = [portOf EXCEPT ![x] = n]
      PROVE  portOf' \in [Servers -> 0 .. Ports]
  BY <1>c, Updated, Zenon DEF TypeOK
<1>d. ASSUME NEW x, NEW n \in 1 .. Ports, trying' = [trying EXCEPT ![x] = n]
      PROVE  trying' \in [Threads -> 1 .. Ports]
  BY <1>d, Updated, Zenon DEF TypeOK
<1>e. ASSUME NEW x, NEW p \in Returns, resume' = [resume EXCEPT ![x] = p]
      PROVE  resume' \in [Threads -> Returns]
  BY <1>e, Updated, Zenon DEF TypeOK
<1>f. \A t \in Threads : resume[t] \in Returns /\ holds[t] \in Servers \cup {Null}
                         /\ fresh[t] \in Servers \cup {Null} /\ trying[t] \in 1 .. Ports
  BY DEF TypeOK
<1>k. ASSUME NEW x, NEW o \in Servers \cup {Null}, fresh' = [fresh EXCEPT ![x] = o]
      PROVE  fresh' \in [Threads -> Servers \cup {Null}]
  BY <1>k, Updated, Zenon DEF TypeOK
<1>g. 0 \in 0 .. Ports /\ 1 \in 1 .. Ports /\ 1 .. Ports \subseteq 0 .. Ports
  BY <1>b
<1> USE <1>0, <1>a, <1>f, <1>g, MovesTyped DEF TypeOK, given, heap, thread, frame
<1>1. ASSUME NEW t \in Threads, Stopping(t) PROVE TypeOK'
  <2>1. CASE StopHost(t)
    BY <2>1 DEF StopHost
  <2>2. CASE Join(t)
    BY <2>2, <1>c DEF Join
  <2>3. CASE Reset(t)
    BY <2>3 DEF Reset
  <2>4. CASE Clear(t)
    BY <2>4 DEF Clear, DropsOld
  <2>5. CASE DropStops(t)
    BY <2>5 DEF DropStops
  <2>6. CASE Drop(t)
    BY <2>6, <1>c DEF Drop
  <2>7. CASE DropTwice(t)
    BY <2>7 DEF DropTwice
  <2>8. CASE CallStop(t)
    <3>1. CASE fault' = "undefined" /\ UNCHANGED <<server, pc, holds>>
      BY <2>8, <3>1 DEF CallStop
    <3>2. ASSUME NEW o \in {holds[t], localServer}, Takes(t, o, "join"), ToldToStop(o), UNCHANGED fault
          PROVE  TypeOK'
      BY <2>8, <3>2 DEF CallStop
    <3> QED  BY <2>8, <3>1, <3>2 DEF CallStop
  <2> QED  BY <1>1, <2>1, <2>2, <2>3, <2>4, <2>5, <2>6, <2>7, <2>8 DEF Stopping
<1>2. ASSUME NEW w \in Workers, Click(w) PROVE TypeOK'
  BY <1>2 DEF Click
<1>3. ASSUME NEW w \in Workers, Make(w) PROVE TypeOK'
  <2>1. made' \in 0 .. MaxServers /\ made' \in Servers
    BY <1>3, <1>h DEF Make
  <2> QED  BY <1>3, <2>1, <1>k DEF Make
<1>10. ASSUME NEW w \in Workers, Assign(w) PROVE TypeOK'
  <2>1. Null \in Servers \cup {Null}
    OBVIOUS
  <2> QED  BY <1>10, <2>1, <1>d, <1>e, <1>k DEF Assign
<1>4. ASSUME NEW w \in Workers, Try(w) PROVE TypeOK'
  <2>1. CASE localServer = Null
    BY <1>4, <2>1 DEF Try
  <2>2. CASE StartSucceeds(w)
    BY <1>4, <2>2, <1>c DEF Try, StartSucceeds
  <2>3. CASE PortIsBusy(w)
    BY <1>4, <2>3 DEF Try, PortIsBusy
  <2>4. CASE StartRefuses(w)
    <3>1. CASE trying[w] < Ports
      <4>1. trying[w] + 1 \in 1 .. Ports
        BY <3>1, <1>i
      <4>2. trying' = [trying EXCEPT ![w] = trying[w] + 1] /\ UNCHANGED <<pc, resume, server, portOf>>
        BY <2>4, <3>1 DEF StartRefuses
      <4> QED  BY <1>4, <4>1, <4>2, <2>4, <1>d DEF Try, StartRefuses
    <3>2. CASE ~(trying[w] < Ports)
      BY <1>4, <2>4, <3>2 DEF Try, StartRefuses
    <3> QED  BY <3>1, <3>2
  <2>5. CASE StartsOver(w)
    BY <1>4, <2>5 DEF Try, StartsOver
  <2> QED  BY <1>4, <2>1, <2>2, <2>3, <2>4, <2>5 DEF Try
<1>5. ASSUME NEW w \in Workers, Connect(w) PROVE TypeOK'
  BY <1>5 DEF Connect
<1>6. ASSUME NEW o \in Servers, ServerThreadEnds(o) PROVE TypeOK'
  BY <1>6 DEF ServerThreadEnds
<1>7. CASE JoinElsewhere \/ HandleConnect
  BY <1>7 DEF JoinElsewhere, HandleConnect
<1>8. CASE LeaveGame \/ Quit \/ ExitGame \/ End
  BY <1>8 DEF LeaveGame, Quit, ExitGame, End
<1>9. CASE UNCHANGED vars
  BY <1>9 DEF vars
<1> QED  BY <1>1, <1>2, <1>3, <1>4, <1>5, <1>6, <1>7, <1>8, <1>9, <1>10 DEF Next, Working, Leaving

-----------------------------------------------------------------------------
(* What localServer points to.                                             *)

\* What moves and becomings do, pointwise.
LEMMA MovesAre ==
    ASSUME TypeOK, NEW t \in Threads
    PROVE  /\ \A p : Goes(t, p) =>
                /\ pc'[t] = p
                /\ \A u \in Threads : u # t => pc'[u] = pc[u]
           /\ \A o, p : Takes(t, o, p) =>
                /\ pc'[t] = p /\ holds'[t] = o
                /\ \A u \in Threads : u # t => pc'[u] = pc[u] /\ holds'[u] = holds[u]
           /\ \A p, b : Calls(t, p, b) =>
                /\ pc'[t] = p /\ resume'[t] = b
                /\ \A u \in Threads : u # t => pc'[u] = pc[u] /\ resume'[u] = resume[u]
           /\ \A o, d : Becomes(o, d) =>
                \A x \in Servers : server'[x] = IF x = o THEN d ELSE server[x]
           /\ \A o : ToldToStop(o) =>
                \A x \in Servers : server'[x] = IF x = o /\ server[o] = "running" THEN "stopping"
                                               ELSE server[x]
<1>1. /\ server \in [Servers -> Deeds]
      /\ pc \in [Threads -> Places] /\ resume \in [Threads -> Returns]
      /\ holds \in [Threads -> Servers \cup {Null}]
  BY DEF TypeOK
<1>2. \A p : Goes(t, p) => pc'[t] = p /\ \A u \in Threads : u # t => pc'[u] = pc[u]
  BY <1>1 DEF Goes
<1>3. \A o, p : Takes(t, o, p) =>
        holds'[t] = o /\ \A u \in Threads : u # t => holds'[u] = holds[u]
  BY <1>1 DEF Takes
<1>4. \A p, b : Calls(t, p, b) =>
        resume'[t] = b /\ \A u \in Threads : u # t => resume'[u] = resume[u]
  BY <1>1 DEF Calls
<1>5. \A o, d : Becomes(o, d) =>
        \A x \in Servers : server'[x] = IF x = o THEN d ELSE server[x]
  BY <1>1 DEF Becomes
<1>6. \A o : ToldToStop(o) =>
        \A x \in Servers : server'[x] = IF x = o /\ server[o] = "running" THEN "stopping"
                                       ELSE server[x]
  BY <1>1, <1>5 DEF ToldToStop
<1> QED  BY <1>2, <1>3, <1>4, <1>5, <1>6 DEF Takes, Calls

\* A step that leaves the pointer, and what is not assigned yet, alone.
LEMMA NothingMoves ==
    ASSUME Inv, UNCHANGED <<localServer, made, fresh>>,
           \A o \in Servers : (server'[o] = "none") <=> (server[o] = "none"),
           \A o \in Servers : (server'[o] = "freed") <=> (server[o] = "freed"),
           \A t \in Threads : pc'[t] = "assign" =>
             pc[t] = "assign" /\ server'[fresh[t]] = server[fresh[t]],
           \A t \in Threads : pc'[t] = "drop" => pc[t] = "drop" /\ holds'[t] = holds[t],
           \A t \in Threads : holds'[t] \in {holds[t], localServer, Null}
    PROVE  Sound'
<1>0. /\ localServer \in Servers \cup {Null}
      /\ \A t \in Threads : holds[t] \in Servers \cup {Null}
  BY DEF Inv, TypeOK
<1>1. NotMadeYet'
  BY DEF Inv, Sound, NotMadeYet
<1>2. NeverDangling'
  BY <1>0 DEF Inv, Sound, NeverDangling
<1>5. Known'
  <2> SUFFICES ASSUME NEW t \in Threads, holds'[t] # Null PROVE server'[holds'[t]] # "none"
    BY DEF Known
  <2>1. holds'[t] \in Servers /\ server[holds'[t]] # "none"
    BY <1>0 DEF Inv, Sound, Known, NeverDangling
  <2> QED  BY <2>1
<1>3. Unshared'
  BY DEF Inv, Sound, Unshared
<1>4. Overwritten'
  BY DEF Inv, Sound, Overwritten
<1> QED  BY <1>1, <1>2, <1>3, <1>4, <1>5 DEF Sound

LEMMA SoundStep == Inv /\ [Next]_vars => Sound'
<1> SUFFICES ASSUME Inv, [Next]_vars PROVE Sound'
  OBVIOUS
<1>0. /\ TypeOK /\ Main \in Threads /\ Workers \subseteq Threads
      /\ NotMadeYet /\ Known /\ Unshared /\ Overwritten /\ NeverDangling
  BY DEF Inv, Sound, Threads
<1>a. /\ Null \notin Servers /\ localServer \in Servers \cup {Null}
      /\ \A t \in Threads : holds[t] \in Servers \cup {Null} /\ fresh[t] \in Servers \cup {Null}
      /\ fresh \in [Threads -> Servers \cup {Null}]
  <2>1. Null \notin Servers
    BY LocalHostAssumption DEF Null, Servers
  <2>2. /\ localServer \in Servers \cup {Null}
        /\ holds \in [Threads -> Servers \cup {Null}] /\ fresh \in [Threads -> Servers \cup {Null}]
    BY <1>0 DEF TypeOK
  <2> QED  BY <2>1, <2>2
<1> USE DEF given, heap, thread, frame, At
<1>b. \A t \in Threads : resume[t] \notin {"assign", "drop"}
  BY <1>0 DEF TypeOK, Returns
<1>1. ASSUME NEW t \in Threads, StopHost(t) PROVE Sound'
  <2>1. /\ UNCHANGED <<localServer, made, fresh, server>>
        /\ pc'[t] = resume[t] \/ pc'[t] = "call"
        /\ holds'[t] \in {localServer, Null}
        /\ \A u \in Threads : u # t => pc'[u] = pc[u] /\ holds'[u] = holds[u]
    BY <1>0, <1>1, MovesAre DEF StopHost
  <2> QED  BY <1>b, <2>1, NothingMoves
<1>2. ASSUME NEW t \in Threads, CallStop(t) PROVE Sound'
  <2>1. CASE UNCHANGED <<server, pc, holds>>
    BY <1>2, <2>1, NothingMoves DEF CallStop
  <2>2. ASSUME NEW o \in {holds[t], localServer}, o # Null, server[o] \in {"idle", "running"},
               Takes(t, o, "join"), ToldToStop(o)
        PROVE  Sound'
    <3>1. /\ pc'[t] = "join" /\ holds'[t] = o
          /\ \A u \in Threads : u # t => pc'[u] = pc[u] /\ holds'[u] = holds[u]
          /\ \A x \in Servers : server'[x] = IF x = o /\ server[o] = "running" THEN "stopping"
                                              ELSE server[x]
      BY <1>0, <2>2, MovesAre
    <3>2. \A u \in Threads : pc[u] = "assign" => server'[fresh[u]] = server[fresh[u]]
      BY <1>0, <1>a, <2>2, <3>1 DEF Unshared
    <3>3. UNCHANGED <<localServer, made, fresh>>
      BY <1>2 DEF CallStop
    <3>4. \A u \in Threads : /\ pc'[u] = "assign" => pc[u] = "assign"
                             /\ pc'[u] = "drop" => pc[u] = "drop" /\ holds'[u] = holds[u]
                             /\ holds'[u] \in {holds[u], localServer, Null}
      BY <2>2, <3>1
    <3> QED  BY <2>2, <3>1, <3>2, <3>3, <3>4, NothingMoves
  <2> QED  BY <1>2, <2>1, <2>2 DEF CallStop
<1>3. ASSUME NEW t \in Threads, Join(t) PROVE Sound'
  <2>1. CASE UNCHANGED <<server, pc, holds>>
    BY <1>3, <2>1, NothingMoves DEF Join
  <2>2. CASE /\ server[holds[t]] \in {"over", "idle"}
             /\ Becomes(holds[t], "idle") /\ Takes(t, Null, "reset")
    <3>1. /\ pc'[t] = "reset" /\ holds'[t] = Null
          /\ \A u \in Threads : u # t => pc'[u] = pc[u] /\ holds'[u] = holds[u]
          /\ \A x \in Servers : server'[x] = IF x = holds[t] THEN "idle" ELSE server[x]
      BY <1>0, <2>2, MovesAre
    <3>2. \A u \in Threads : pc[u] = "assign" => server'[fresh[u]] = server[fresh[u]]
      BY <1>0, <1>a, <2>2, <3>1 DEF Unshared
    <3> QED  BY <1>3, <2>2, <3>1, <3>2, NothingMoves DEF Join
  <2> QED  BY <1>3, <2>1, <2>2 DEF Join
<1>4. ASSUME NEW t \in Threads, Reset(t) PROVE Sound'
  BY <1>0, <1>4, MovesAre, NothingMoves DEF Reset
<1>5. ASSUME NEW t \in Threads, Clear(t) PROVE Sound'
  <2>1. /\ UNCHANGED <<made, server, fresh, holds>> /\ localServer' = Null
        /\ pc'[t] = IF holds[t] = Null THEN resume[t] ELSE "drop"
        /\ \A u \in Threads : u # t => pc'[u] = pc[u]
    BY <1>0, <1>5, MovesAre DEF Clear, DropsOld
  <2>2. NotMadeYet' /\ Known' /\ NeverDangling'
    BY <1>0, <2>1 DEF NotMadeYet, Known, NeverDangling
  <2>3. Unshared'
    BY <1>0, <1>b, <2>1 DEF Unshared
  <2>4. Overwritten'
    BY <1>0, <1>b, <2>1 DEF Overwritten
  <2> QED  BY <2>2, <2>3, <2>4 DEF Sound
<1>6. ASSUME NEW t \in Threads, DropStops(t) PROVE Sound'
  <2>1. /\ UNCHANGED <<localServer, made, fresh, pc, holds>> /\ server[holds[t]] = "running"
        /\ \A x \in Servers : server'[x] = IF x = holds[t] THEN "stopping" ELSE server[x]
    BY <1>0, <1>6, MovesAre DEF DropStops
  <2>2. \A u \in Threads : pc[u] = "assign" => server'[fresh[u]] = server[fresh[u]]
    BY <1>0, <1>a, <2>1 DEF Unshared
  <2> QED  BY <2>1, <2>2, NothingMoves
<1>7. ASSUME NEW t \in Threads, Drop(t) PROVE Sound'
  <2>1. /\ UNCHANGED <<localServer, made, fresh>> /\ pc[t] = "drop"
        /\ \A x \in Servers : server'[x] = IF x = holds[t] THEN "freed" ELSE server[x]
        /\ pc'[t] = resume[t] /\ holds'[t] = Null
        /\ \A u \in Threads : u # t => pc'[u] = pc[u] /\ holds'[u] = holds[u]
        /\ server[holds[t]] \in {"idle", "over"}
    BY <1>0, <1>7, MovesAre DEF Drop
  <2>2. NotMadeYet' /\ Known'
    BY <1>0, <1>a, <2>1 DEF NotMadeYet, Known
  <2>3. NeverDangling'
    BY <1>0, <1>a, <2>1 DEF NeverDangling, Overwritten
  <2>4. Unshared'
    BY <1>0, <1>a, <1>b, <2>1 DEF Unshared
  <2>5. Overwritten'
    BY <1>0, <1>b, <2>1 DEF Overwritten
  <2> QED  BY <2>2, <2>3, <2>4, <2>5 DEF Sound
<1>8. ASSUME NEW w \in Workers, Make(w) PROVE Sound'
  <2>1. made' \in Servers /\ made' > made /\ \A o \in Servers : o > made' => o > made /\ o # made'
    <3>1. made \in 0 .. MaxServers /\ MaxServers \in Nat /\ made < MaxServers /\ made' = made + 1
      BY <1>0, <1>8, LocalHostAssumption DEF TypeOK, Make
    <3> QED  BY <3>1 DEF Servers
  <2>2. server[made'] = "none" /\ made' # Null
    BY <1>0, <1>a, <2>1 DEF NotMadeYet
  <2>3. /\ UNCHANGED localServer
        /\ pc'[w] = "assign" /\ holds'[w] = localServer /\ fresh'[w] = made'
        /\ \A u \in Threads : u # w => pc'[u] = pc[u] /\ holds'[u] = holds[u] /\ fresh'[u] = fresh[u]
        /\ \A x \in Servers : server'[x] = IF x = made' THEN "idle" ELSE server[x]
    BY <1>0, <1>8, <1>a, MovesAre DEF Make
  <2>4. made' # localServer /\ \A u \in Threads : holds[u] # made'
    BY <1>0, <2>2 DEF NeverDangling, Known
  <2>5. \A u \in Threads : pc[u] = "assign" => fresh[u] # made' /\ fresh[u] \in Servers
    BY <1>0, <1>a, <2>2 DEF Unshared
  <2>6. NotMadeYet'
    BY <1>0, <2>1, <2>3 DEF NotMadeYet
  <2>7. Known' /\ NeverDangling'
    BY <1>0, <1>a, <2>3 DEF Known, NeverDangling
  <2>8. Unshared'
    BY <1>0, <1>a, <2>1, <2>2, <2>3, <2>4, <2>5 DEF Unshared
  <2>9. Overwritten'
    BY <1>0, <2>3 DEF Overwritten
  <2> QED  BY <2>6, <2>7, <2>8, <2>9 DEF Sound
<1>9. ASSUME NEW w \in Workers, Assign(w) PROVE Sound'
  <2>1. /\ UNCHANGED <<made, server, holds>> /\ localServer' = fresh[w] /\ pc[w] = "assign"
        /\ pc'[w] = (IF holds[w] = Null THEN "try" ELSE "drop")
        /\ \A u \in Threads : u # w => pc'[u] = pc[u] /\ fresh'[u] = fresh[u]
    BY <1>0, <1>9, <1>a, MovesAre DEF Assign
  <2>2. NotMadeYet' /\ Known'
    BY <1>0, <2>1 DEF NotMadeYet, Known
  <2>3. NeverDangling'
    BY <1>0, <2>1 DEF NeverDangling, Unshared
  <2>4. Unshared'
    BY <1>0, <2>1 DEF Unshared
  <2>5. Overwritten'
    BY <1>0, <2>1 DEF Overwritten, Unshared
  <2> QED  BY <2>2, <2>3, <2>4, <2>5 DEF Sound
<1>10. ASSUME NEW w \in Workers, Try(w) PROVE Sound'
  <2>1. CASE StartSucceeds(w)
    <3>1. /\ \A x \in Servers : server'[x] = IF x = localServer THEN "running" ELSE server[x]
          /\ server[localServer] = "idle" /\ pc'[w] = "connect"
          /\ \A u \in Threads : u # w => pc'[u] = pc[u]
      BY <1>0, <2>1, MovesAre DEF StartSucceeds
    <3>2. \A u \in Threads : pc[u] = "assign" => server'[fresh[u]] = server[fresh[u]]
      BY <1>0, <1>a, <3>1 DEF Unshared
    <3> QED  BY <1>10, <3>1, <3>2, NothingMoves DEF Try
  <2>2. CASE StartRefuses(w)
    BY <1>0, <1>10, <2>2, MovesAre, NothingMoves DEF Try, StartRefuses
  <2>3. CASE localServer = Null \/ PortIsBusy(w) \/ StartsOver(w)
    <3>1. UNCHANGED <<server, pc, holds, fresh, localServer, made>>
      BY <1>10, <2>3 DEF Try, PortIsBusy, StartsOver, StartSucceeds, StartRefuses
    <3> QED  BY <3>1, NothingMoves
  <2> QED  BY <1>10, <2>1, <2>2, <2>3 DEF Try
<1>11. ASSUME NEW w \in Workers, Click(w) \/ Connect(w) PROVE Sound'
  BY <1>0, <1>11, MovesAre, NothingMoves DEF Click, Connect
<1>12. ASSUME NEW o \in Servers, ServerThreadEnds(o) PROVE Sound'
  <2>1. /\ UNCHANGED <<localServer, made, fresh, pc, holds>> /\ server[o] = "stopping"
        /\ \A x \in Servers : server'[x] = IF x = o THEN "over" ELSE server[x]
    BY <1>0, <1>12, MovesAre DEF ServerThreadEnds
  <2>2. \A u \in Threads : pc[u] = "assign" => server'[fresh[u]] = server[fresh[u]]
    BY <1>0, <1>a, <2>1 DEF Unshared
  <2> QED  BY <2>1, <2>2, NothingMoves
<1>13. CASE LeaveGame \/ Quit \/ ExitGame
  <2>1. \A t \in Threads : pc'[t] \in {"assign", "drop"} => pc[t] = pc'[t]
    BY <1>0, <1>13, MovesAre DEF LeaveGame, Quit, ExitGame, MayLeave
  <2> QED  BY <1>13, <2>1, NothingMoves DEF LeaveGame, Quit, ExitGame
<1>14. ASSUME NEW t \in Threads, DropTwice(t) PROVE Sound'
  BY <1>14, NothingMoves DEF DropTwice
<1>15. CASE JoinElsewhere \/ HandleConnect \/ End \/ UNCHANGED vars
  BY <1>15, NothingMoves DEF JoinElsewhere, HandleConnect, End, vars
<1> QED  BY <1>0, <1>1, <1>2, <1>3, <1>4, <1>5, <1>6, <1>7, <1>8, <1>9, <1>10, <1>11, <1>12,
            <1>13, <1>14, <1>15 DEF Next, Working, Stopping, Leaving

\* Inv is inductive, and NeverDangling is a part of it.
THEOREM Invariance == Spec => []Inv
<1>1. Init => Inv
  BY InitInv DEF OrderlyInv
<1>2. Inv /\ [Next]_vars => Inv'
  BY TypeStep, SoundStep DEF Inv
<1> QED  BY <1>1, <1>2, PTL DEF Spec

\* The variables keep their types.
THEOREM TypeCorrect == Spec => []TypeOK
<1>1. Inv => TypeOK
  BY DEF Inv
<1> QED  BY <1>1, Invariance, PTL

\* However the reads and writes of the menu's threads and of the frame loop interleave in
\* StartHost and StopHost, localServer never points to a server that is destroyed.
THEOREM PointerIsSound == Spec => []NeverDangling
<1>1. Inv => NeverDangling
  BY DEF Inv, Sound
<1> QED  BY <1>1, Invariance, PTL

-----------------------------------------------------------------------------
(* One thread at work.                                                     *)

\* The thread t alone was at work, or none was; it goes somewhere.
LEMMA OneMoves ==
    ASSUME TypeOK, Alone, NEW t \in Threads, pc[t] # "idle" \/ Free,
           \A u \in Threads : u # t => pc'[u] = pc[u],
           Finds(t)', ComesBack(t)', Owned', Rests', OnePort'
    PROVE  Orderly'
<1>1. \A u \in Threads : u # t => pc'[u] = "idle"
  BY DEF Alone, Free
<1>2. Alone'
  BY <1>1 DEF Alone
<1>3. \A u \in Threads : u # t => Finds(u)' /\ ComesBack(u)'
  BY <1>1 DEF Finds, ComesBack
<1> QED  BY <1>2, <1>3 DEF Orderly

\* None but t is at work, so nothing is claimed of a program at rest.
LEMMA NotAtRest == ASSUME NEW t \in Threads, pc'[t] # "idle" PROVE Rests'
  BY DEF Rests, Free

\* If one thread is at work, what is not destroyed is the own server or that thread's.
LEMMA OwnedByOne ==
    ASSUME Alone, Owned, NEW t \in Threads, pc[t] # "idle" \/ Free,
           NEW o \in Servers, server[o] \notin {"none", "freed"}, o # localServer
    PROVE  (pc[t] = "drop" /\ holds[t] = o) \/ (pc[t] = "assign" /\ fresh[t] = o)
  BY DEF Alone, Owned, Free

LEMMA StoppingOrderly ==
    ASSUME TypeOK, Orderly, Alive, NEW t \in Threads, Stopping(t)
    PROVE  fault' = "none" /\ Orderly'
<1>0. /\ Alone /\ Finds(t) /\ ComesBack(t) /\ Owned /\ OnePort /\ fault = "none"
      /\ localServer \in Servers \cup {Null} /\ Null \notin Servers
      /\ holds[t] \in Servers \cup {Null}
      /\ portOf \in [Servers -> 0 .. Ports]
  BY LocalHostAssumption DEF Orderly, Alive, TypeOK, Null, Servers
<1>a. ASSUME pc[t] \notin {"idle", "drop", "assign"}
      PROVE  \A o \in Servers : server[o] \in {"none", "freed"} \/ o = localServer
  BY <1>0, <1>a, OwnedByOne
<1> USE DEF thread, heap, given, frame, At
<1>1. CASE StopHost(t)
  <2>1. /\ pc[t] = "stop" /\ UNCHANGED <<localServer, server, portOf, resume, fault>>
        /\ \A u \in Threads : u # t => pc'[u] = pc[u]
        /\ pc'[t] = (IF localServer = Null THEN resume[t] ELSE "call")
        /\ holds'[t] = localServer
    BY <1>1, MovesAre DEF StopHost
  <2>2. Owned'
    BY <1>a, <2>1 DEF Owned
  <2>3. CASE localServer = Null
    <3>1. pc'[t] \in {"idle", "exit", "over", "make"}
      BY <1>0, <2>1, <2>3 DEF ComesBack
    <3>2. Finds(t)' /\ ComesBack(t)' /\ Rests' /\ OnePort'
      BY <1>0, <2>1, <2>3, <3>1 DEF Finds, ComesBack, Rests, OnePort
    <3> QED  BY <1>0, <2>1, <2>2, <3>2, OneMoves
  <2>4. CASE localServer # Null
    <3>1. Finds(t)' /\ ComesBack(t)' /\ OnePort'
      BY <1>0, <2>1, <2>4 DEF Finds, ComesBack, OnePort
    <3> QED  BY <1>0, <2>1, <2>2, <2>4, <3>1, NotAtRest, OneMoves
  <2> QED  BY <2>3, <2>4
<1>2. CASE CallStop(t)
  <2>1. /\ pc[t] = "call" /\ UNCHANGED <<localServer, portOf, resume>>
        /\ localServer # Null /\ holds[t] = localServer /\ server[localServer] = "running"
    BY <1>0, <1>2 DEF CallStop, Finds
  <2>2. Takes(t, localServer, "join") /\ ToldToStop(localServer) /\ UNCHANGED fault
    BY <1>2, <2>1 DEF CallStop
  <2>3. /\ pc'[t] = "join" /\ holds'[t] = localServer
        /\ \A u \in Threads : u # t => pc'[u] = pc[u]
        /\ \A x \in Servers : server'[x] = IF x = localServer THEN "stopping" ELSE server[x]
    BY <2>1, <2>2, MovesAre
  <2>4. Finds(t)' /\ ComesBack(t)' /\ OnePort'
    BY <1>0, <2>1, <2>3 DEF Finds, ComesBack, OnePort
  <2>5. Owned'
    BY <1>a, <2>1, <2>3 DEF Owned
  <2> QED  BY <1>0, <2>1, <2>2, <2>3, <2>4, <2>5, NotAtRest, OneMoves
<1>3. CASE Join(t)
  <2>1. /\ pc[t] = "join" /\ UNCHANGED <<localServer, resume>>
        /\ holds[t] = localServer /\ localServer \in Servers
        /\ server[localServer] \in {"stopping", "over"}
    BY <1>0, <1>3 DEF Join, Finds
  <2>2. /\ Becomes(localServer, "idle") /\ portOf' = [portOf EXCEPT ![localServer] = 0]
        /\ Takes(t, Null, "reset") /\ UNCHANGED fault
    BY <1>3, <2>1 DEF Join
  <2>3. /\ pc'[t] = "reset" /\ \A u \in Threads : u # t => pc'[u] = pc[u]
        /\ \A x \in Servers : server'[x] = IF x = localServer THEN "idle" ELSE server[x]
        /\ \A x \in Servers : portOf'[x] = IF x = localServer THEN 0 ELSE portOf[x]
    BY <1>0, <2>2, MovesAre
  <2>4. Finds(t)' /\ ComesBack(t)' /\ OnePort'
    BY <1>0, <2>1, <2>3 DEF Finds, ComesBack, OnePort
  <2>5. Owned'
    BY <1>a, <2>1, <2>3 DEF Owned
  <2> QED  BY <1>0, <2>1, <2>2, <2>3, <2>4, <2>5, NotAtRest, OneMoves
<1>4. CASE Reset(t)
  <2>1. /\ pc[t] = "reset" /\ UNCHANGED <<localServer, server, portOf, resume, fault>>
        /\ localServer \in Servers /\ server[localServer] = "idle"
    BY <1>0, <1>4 DEF Reset, Finds
  <2>2. /\ pc'[t] = "clear" /\ holds'[t] = localServer
        /\ \A u \in Threads : u # t => pc'[u] = pc[u]
    BY <1>0, <1>4, MovesAre DEF Reset
  <2>3. Finds(t)' /\ ComesBack(t)' /\ OnePort'
    BY <1>0, <2>1, <2>2 DEF Finds, ComesBack, OnePort
  <2>4. Owned'
    BY <1>a, <2>1 DEF Owned
  <2> QED  BY <1>0, <2>1, <2>2, <2>3, <2>4, NotAtRest, OneMoves
<1>5. CASE Clear(t)
  <2>1. /\ pc[t] = "clear" /\ UNCHANGED <<server, portOf, resume, holds, fault>>
        /\ localServer \in Servers /\ server[localServer] = "idle" /\ holds[t] = localServer
        /\ localServer' = Null
    BY <1>0, <1>5 DEF Clear, Finds
  <2>2. pc'[t] = "drop" /\ \A u \in Threads : u # t => pc'[u] = pc[u]
    BY <1>0, <1>5, <2>1, MovesAre DEF Clear, DropsOld
  <2>3. Finds(t)' /\ ComesBack(t)'
    BY <1>0, <2>1, <2>2 DEF Finds, ComesBack
  <2>4. OnePort'
    BY <1>0, <2>1 DEF OnePort
  <2>5. Owned'
    BY <1>a, <2>1, <2>2 DEF Owned
  <2> QED  BY <1>0, <2>1, <2>2, <2>3, <2>4, <2>5, NotAtRest, OneMoves
<1>6. ~DropStops(t) /\ ~DropTwice(t)
  BY <1>0 DEF DropStops, DropTwice, Finds
<1>7. CASE Drop(t)
  <2>1. /\ pc[t] = "drop" /\ UNCHANGED <<localServer, resume, fault>>
        /\ localServer = Null /\ pc'[t] = resume[t] /\ holds[t] \in Servers
        /\ \A u \in Threads : u # t => pc'[u] = pc[u]
        /\ portOf' = [portOf EXCEPT ![holds[t]] = 0]
        /\ \A x \in Servers : server'[x] = IF x = holds[t] THEN "freed" ELSE server[x]
    BY <1>0, <1>7, MovesAre DEF Drop, Finds
  <2>2. pc'[t] \in {"idle", "exit", "over", "make"}
    BY <1>0, <2>1 DEF ComesBack
  <2>3. \A x \in Servers : portOf'[x] = 0
    BY <1>0, <2>1 DEF OnePort
  <2>4. Finds(t)' /\ ComesBack(t)' /\ Rests' /\ OnePort'
    BY <2>1, <2>2, <2>3 DEF Finds, ComesBack, Rests, OnePort
  <2>5. \A o \in Servers : server[o] \in {"none", "freed"} \/ o = holds[t]
    BY <1>0, <2>1, OwnedByOne
  <2>6. Owned'
    BY <2>1, <2>5 DEF Owned
  <2> QED  BY <1>0, <2>1, <2>4, <2>6, OneMoves
<1> QED  BY <1>1, <1>2, <1>3, <1>4, <1>5, <1>6, <1>7 DEF Stopping

LEMMA WorkingOrderly ==
    ASSUME TypeOK, Unshared, Orderly, Alive,
           NEW w \in Workers, Make(w) \/ Assign(w) \/ Try(w) \/ Connect(w)
    PROVE  EndsWell' /\ (fault' = "none" => Orderly')
<1>0. /\ Alone /\ Finds(w) /\ ComesBack(w) /\ Owned /\ OnePort /\ fault = "none" /\ w \in Threads
      /\ localServer \in Servers \cup {Null} /\ Null \notin Servers
      /\ fresh \in [Threads -> Servers \cup {Null}]
  BY LocalHostAssumption DEF Orderly, Alive, TypeOK, Null, Servers, Threads
<1>a. portOf \in [Servers -> 0 .. Ports] /\ made \in 0 .. MaxServers /\ MaxServers \in Nat
  BY LocalHostAssumption DEF TypeOK
<1>b. ASSUME pc[w] \notin {"idle", "drop", "assign"}
      PROVE  \A o \in Servers : server[o] \in {"none", "freed"} \/ o = localServer
  BY <1>0, <1>b, OwnedByOne
<1> USE DEF thread, heap, given, frame, At
<1>1. CASE Make(w)
  <2>1. /\ pc[w] = "make" /\ localServer = Null /\ UNCHANGED <<portOf, fault, localServer>>
        /\ made' = made + 1 /\ made < MaxServers
    BY <1>0, <1>1 DEF Make, Finds
  <2>2. made' \in Servers
    BY <1>a, <2>1 DEF Servers
  <2>3. /\ pc'[w] = "assign" /\ holds'[w] = Null /\ fresh'[w] = made'
        /\ \A x \in Servers : server'[x] = IF x = made' THEN "idle" ELSE server[x]
        /\ \A u \in Threads : u # w => pc'[u] = pc[u]
    BY <1>0, <1>1, <2>1, <2>2, MovesAre DEF Make
  <2>4. Finds(w)' /\ ComesBack(w)' /\ OnePort'
    BY <1>0, <2>1, <2>2, <2>3 DEF Finds, ComesBack, OnePort
  <2>5. Owned'
    BY <1>b, <1>0, <2>1, <2>3 DEF Owned
  <2> QED  BY <1>0, <2>1, <2>3, <2>4, <2>5, NotAtRest, OneMoves DEF EndsWell
<1>2. CASE Assign(w)
  <2>1. /\ pc[w] = "assign" /\ localServer = Null /\ holds[w] = Null
        /\ UNCHANGED <<server, portOf, fault>> /\ localServer' = fresh[w]
    BY <1>0, <1>2 DEF Assign, Finds
  <2>2. fresh[w] \in Servers /\ server[fresh[w]] = "idle"
    BY <1>0, <2>1 DEF Unshared
  <2>3. pc'[w] = "try" /\ \A u \in Threads : u # w => pc'[u] = pc[u]
    BY <1>0, <1>2, <2>1, MovesAre DEF Assign
  <2>4. Finds(w)' /\ ComesBack(w)' /\ OnePort'
    BY <1>0, <2>1, <2>2, <2>3 DEF Finds, ComesBack, OnePort
  <2>5. \A o \in Servers : server[o] \in {"none", "freed"} \/ o = fresh[w]
    BY <1>0, <2>1, OwnedByOne
  <2>6. Owned'
    BY <2>1, <2>5 DEF Owned
  <2> QED  BY <1>0, <2>1, <2>3, <2>4, <2>6, NotAtRest, OneMoves DEF EndsWell
<1>3. CASE Try(w)
  <2>1. /\ pc[w] = "try" /\ localServer \in Servers /\ server[localServer] = "idle"
        /\ localServer' = localServer /\ UNCHANGED busy
    BY <1>0, <1>3 DEF Try, Finds
  <2>2. StartSucceeds(w) \/ PortIsBusy(w)
    BY <1>0, <1>3, <2>1 DEF Try, StartRefuses, StartsOver
  <2>3. CASE PortIsBusy(w)
    <3>1. \A o \in Servers : portOf[o] = 0
      BY <1>0, <1>b, <2>1 DEF OnePort
    <3>2. trying[w] \in 1 .. Ports /\ Ports \in Nat
      BY <1>0, LocalHostAssumption DEF TypeOK
    <3>3. trying[w] # 0
      BY <3>2
    <3>4. trying[w] \in busy
      BY <2>3, <3>1, <3>3 DEF PortIsBusy, PortIsFree
    <3> QED  BY <2>1, <2>3, <3>4 DEF PortIsBusy, EndsWell
  <2>4. CASE StartSucceeds(w)
    <3>1. /\ \A x \in Servers : server'[x] = IF x = localServer THEN "running" ELSE server[x]
          /\ pc'[w] = "connect" /\ \A u \in Threads : u # w => pc'[u] = pc[u]
          /\ portOf' = [portOf EXCEPT ![localServer] = trying[w]] /\ UNCHANGED fault
      BY <1>0, <2>4, MovesAre DEF StartSucceeds
    <3>2. Finds(w)' /\ ComesBack(w)' /\ OnePort'
      BY <1>0, <1>a, <2>1, <3>1 DEF Finds, ComesBack, OnePort
    <3>3. Owned'
      BY <1>b, <2>1, <3>1 DEF Owned
    <3> QED  BY <1>0, <2>1, <3>1, <3>2, <3>3, NotAtRest, OneMoves DEF EndsWell
  <2> QED  BY <2>2, <2>3, <2>4
<1>4. CASE Connect(w)
  <2>1. /\ pc[w] = "connect" /\ UNCHANGED <<localServer, server, portOf, fault>>
        /\ localServer # Null /\ server[localServer] = "running"
        /\ news' = TRUE \/ failed' = TRUE
    BY <1>0, <1>4 DEF Connect, Finds
  <2>2. pc'[w] = "idle" /\ \A u \in Threads : u # w => pc'[u] = pc[u]
    BY <1>0, <1>4, MovesAre DEF Connect
  <2>3. Finds(w)' /\ ComesBack(w)' /\ Rests' /\ OnePort'
    BY <1>0, <2>1, <2>2 DEF Finds, ComesBack, Rests, OnePort
  <2>4. Owned'
    BY <1>b, <2>1 DEF Owned
  <2> QED  BY <1>0, <2>1, <2>2, <2>3, <2>4, OneMoves DEF EndsWell
<1> QED  BY <1>1, <1>2, <1>3, <1>4

\* A click, the frame loop, or the server's own thread.
LEMMA RestOrderly ==
    ASSUME TypeOK, Orderly, ~hasty,
           \/ \E w \in Workers : Click(w)
           \/ \E o \in Servers : ServerThreadEnds(o)
           \/ JoinElsewhere \/ HandleConnect \/ LeaveGame \/ Quit \/ ExitGame
    PROVE  fault' = "none" /\ Orderly'
<1>0. /\ Alone /\ Owned /\ OnePort /\ Rests /\ (\A t \in Threads : Finds(t) /\ ComesBack(t))
      /\ Main \in Threads /\ Workers \subseteq Threads /\ Main \notin Workers
      /\ localServer \in Servers \cup {Null} /\ Null \notin Servers
      /\ \A t \in Threads : holds[t] \in Servers \cup {Null}
  <2>1. localServer \in Servers \cup {Null} /\ holds \in [Threads -> Servers \cup {Null}]
    BY DEF TypeOK
  <2>2. /\ Null \notin Servers /\ Main \in Threads /\ Workers \subseteq Threads
        /\ Main \notin Workers
    BY LocalHostAssumption DEF Null, Servers, Threads, Main
  <2> QED  BY <2>1, <2>2 DEF Orderly
<1> USE DEF thread, heap, given, frame, At
<1>1. ASSUME NEW w \in Workers, Click(w) PROVE fault' = "none" /\ Orderly'
  <2>1. Free /\ UNCHANGED <<localServer, server, portOf, holds, fresh, fault>> /\ fault = "none"
    BY <1>0, <1>1 DEF Click, MayClick, Alive
  <2>2. /\ pc'[w] = "stop" /\ resume'[w] = "make"
        /\ \A u \in Threads : u # w => pc'[u] = pc[u]
    BY <1>0, <1>1, MovesAre DEF Click
  <2>3. Finds(w)' /\ ComesBack(w)' /\ OnePort'
    BY <1>0, <2>1, <2>2 DEF Finds, ComesBack, Rests, OnePort
  <2>4. Owned'
    BY <1>0, <2>1, <2>2, OwnedByOne DEF Owned, Free
  <2> QED  BY <1>0, <2>1, <2>2, <2>3, <2>4, NotAtRest, OneMoves
<1>2. ASSUME NEW o \in Servers, ServerThreadEnds(o) PROVE fault' = "none" /\ Orderly'
  <2>1. /\ server[o] = "stopping" /\ UNCHANGED <<localServer, portOf, pc, resume, holds, fresh, scene, news, failed, fault>>
        /\ fault = "none"
        /\ \A x \in Servers : server'[x] = IF x = o THEN "over" ELSE server[x]
    BY <1>0, <1>2, MovesAre DEF ServerThreadEnds, Alive
  <2>2. Alone' /\ Owned' /\ Rests' /\ OnePort'
    BY <1>0, <2>1 DEF Alone, Owned, Free, Rests, OnePort
  <2>3. ASSUME NEW t \in Threads PROVE Finds(t)' /\ ComesBack(t)'
    <3>1. Finds(t) /\ ComesBack(t) /\ holds[t] \in Servers \cup {Null}
      BY <1>0
    <3> QED  BY <1>0, <2>1, <3>1 DEF Finds, ComesBack
  <2> QED  BY <2>1, <2>2, <2>3 DEF Orderly
<1>3. CASE JoinElsewhere \/ HandleConnect
  <2>1. /\ UNCHANGED <<localServer, server, portOf, pc, resume, holds, fresh, failed, fault>> /\ fault = "none"
        /\ (scene' = scene /\ news') \/ scene' = "game"
    BY <1>3 DEF JoinElsewhere, HandleConnect, MayClick, Alive
  <2>2. Alone' /\ Owned' /\ Rests' /\ OnePort'
    BY <1>0, <2>1 DEF Alone, Owned, Free, Rests, OnePort
  <2>3. \A t \in Threads : Finds(t)' /\ ComesBack(t)'
    BY <1>0, <2>1 DEF Finds, ComesBack
  <2> QED  BY <2>1, <2>2, <2>3 DEF Orderly
<1>4. CASE LeaveGame \/ Quit \/ ExitGame
  <2>1. /\ UNCHANGED <<localServer, server, portOf, holds, fresh, fault>> /\ fault = "none"
        /\ pc[Main] = "exit" \/ Free
        /\ localServer # Null => server[localServer] = "running"
    BY <1>0, <1>4 DEF LeaveGame, Quit, ExitGame, MayLeave, Alive, Rests, Finds
  <2>2. /\ pc'[Main] = "stop" /\ resume'[Main] \in {"idle", "exit", "over"}
        /\ \A u \in Threads : u # Main => pc'[u] = pc[u]
    BY <1>0, <1>4, MovesAre DEF LeaveGame, Quit, ExitGame
  <2>3. Finds(Main)' /\ ComesBack(Main)' /\ OnePort'
    BY <1>0, <2>1, <2>2 DEF Finds, ComesBack, OnePort
  <2>4. Owned'
    BY <1>0, <2>1, <2>2, OwnedByOne DEF Owned, Free
  <2> QED  BY <1>0, <2>1, <2>2, <2>3, <2>4, NotAtRest, OneMoves
<1> QED  BY <1>1, <1>2, <1>3, <1>4

LEMMA OrderlyStep == OrderlyInv /\ [Next]_vars => OrderlyInv'
<1> SUFFICES ASSUME OrderlyInv, [Next]_vars PROVE OrderlyInv'
  OBVIOUS
<1>0. Inv' /\ TypeOK /\ Unshared /\ Main \in Threads /\ Workers \subseteq Threads
  BY TypeStep, SoundStep DEF OrderlyInv, Inv, Sound, Threads
<1>1. hasty' = hasty
  BY DEF Next, vars, given, Working, Stopping, Leaving, Click, StopHost, CallStop, Join,
         Reset, Clear, DropStops, Drop, DropTwice, Make, Assign, Try, Connect, ServerThreadEnds, JoinElsewhere,
         HandleConnect, LeaveGame, Quit, ExitGame, End
<1>2. ASSUME ~hasty PROVE Waiting'
  <2>0. Waiting
    BY <1>2 DEF OrderlyInv
  <2>1. ASSUME NEW t \in Threads, Stopping(t) PROVE Waiting'
    <3>1. Alive
      BY <2>1 DEF Stopping, StopHost, CallStop, Join, Reset, Clear, DropStops, Drop, DropTwice, At
    <3> QED  BY <1>0, <2>0, <2>1, <3>1, StoppingOrderly DEF Waiting, EndsWell
  <2>2. ASSUME NEW w \in Workers, Make(w) \/ Assign(w) \/ Try(w) \/ Connect(w) PROVE Waiting'
    <3>1. Alive
      BY <2>2 DEF Make, Assign, Try, Connect, At
    <3> QED  BY <1>0, <2>0, <2>2, <3>1, WorkingOrderly DEF Waiting, Alive
  <2>3. CASE \/ \E w \in Workers : Click(w)
             \/ \E o \in Servers : ServerThreadEnds(o)
             \/ JoinElsewhere \/ HandleConnect \/ LeaveGame \/ Quit \/ ExitGame
    <3>1. Alive
      BY <2>3 DEF Click, MayClick, ServerThreadEnds, JoinElsewhere, HandleConnect,
                  LeaveGame, Quit, MayLeave, ExitGame, At
    <3> QED  BY <1>0, <1>2, <2>0, <2>3, <3>1, RestOrderly DEF Waiting, EndsWell
  <2>4. CASE End
    <3>1. fault' = fault /\ busy' = busy /\ scene' = "over"
      BY <2>4 DEF End, given
    <3> QED  BY <2>0, <3>1 DEF Waiting, EndsWell, Alive
  <2>5. CASE UNCHANGED vars
    <3>1. UNCHANGED <<localServer, server, portOf, busy, pc, resume, holds, fresh, scene, news, failed, fault>>
      BY <2>5 DEF vars, given, heap, thread, frame
    <3>2. Orderly => Orderly'
      BY <3>1 DEF Orderly, Alone, Free, Finds, ComesBack, Owned, Rests, OnePort
    <3> QED  BY <2>0, <3>1, <3>2 DEF Waiting, EndsWell, Alive
  <2> QED  BY <1>0, <2>1, <2>2, <2>3, <2>4, <2>5 DEF Next, Working, Leaving
<1> QED  BY <1>0, <1>1, <1>2 DEF OrderlyInv

\* With a player who waits for each click, one thread is at work at a time, and it
\* finds the server in the state that it left it in.
THEOREM OrderlyInvariance == Spec => []OrderlyInv
<1> QED  BY InitInv, OrderlyStep, PTL DEF Spec

\* Then, if no other program has one of the ports, the program ends as its player ends it:
\* no call through a null pointer or of a destroyed server, no join of a thread that somebody
\* else joins, in however many games.  If one has, the null host of that port is the only
\* other end.
THEOREM NothingIsUndefined == Spec => []NothingUndefined
<1>1. OrderlyInv => NothingUndefined
  BY DEF OrderlyInv, Waiting, EndsWell, NothingUndefined
<1> QED  BY <1>1, OrderlyInvariance, PTL

\* And a game that is left takes its server, and the server's port, with it: no server
\* that was ever made is left.
THEOREM ServerLeavesWithTheGame == Spec => []GoneWithTheGame
<1>1. OrderlyInv => GoneWithTheGame
  <2> SUFFICES ASSUME OrderlyInv, ~hasty, Alive, scene = "menu", Free, ~news, ~failed
               PROVE  localServer = Null /\ \A o \in Servers : server[o] \in {"none", "freed"} /\ portOf[o] = 0
    BY DEF GoneWithTheGame
  <2>1. Owned /\ Rests /\ OnePort
    BY DEF OrderlyInv, Waiting, Orderly
  <2>2. localServer = Null
    BY <2>1 DEF Rests
  <2>3. Null \notin Servers
    BY LocalHostAssumption DEF Null, Servers
  <2> QED  BY <2>1, <2>2, <2>3 DEF Owned, OnePort, Free
<1> QED  BY <1>1, OrderlyInvariance, PTL
=============================================================================
