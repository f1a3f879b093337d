----------------------- MODULE DaemonSingleton_proofs -----------------------
(***************************************************************************)
(* The inductive invariant of DaemonSingleton, and what follows from it,   *)
(* for any number of daemons, files and tamperings.  A step of a daemon    *)
(* that leaves the sockets alone keeps SocketsKnown by SameSockets.        *)
(***************************************************************************)
EXTENDS DaemonSingleton, TLAPS

\* Every way to begin fulfils the invariant.
LEMMA InitHolds == Init => IndInv
  <1> SUFFICES ASSUME Init PROVE IndInv
    OBVIOUS
  <1>1. TypeOK
    BY NamesDiffer, TampersIsNat DEF Init, TypeOK, PCs
  <1>2. LockHeld /\ SocketsKnown
    BY NamesDiffer DEF Init, LockHeld, SocketsKnown, Before
  <1>3. PathIsOwn /\ PathIsFree
    BY NamesDiffer DEF Init, PathIsOwn, PathIsFree, Before, Running, Listens
  <1> QED BY <1>1, <1>2, <1>3 DEF IndInv

\* A file that is made new is not one that anybody knows.
LEMMA NewIsFresh == Room => New \in Inodes /\ Fresh(New)
  BY DEF Room, New

\* While the lockfile is left alone one daemon at most is more than off.
LEMMA OneAtATime ==
  ASSUME LockHeld, "lock" \notin tampered, NEW d \in Daemons, NEW e \in Daemons,
         pc[d] # "off", pc[e] # "off"
  PROVE  d = e
  BY DEF LockHeld

\* The end of a process frees what it held.
LEMMA GoneKeeps ==
  ASSUME IndInv, NEW d \in Daemons, Gone(d), UNCHANGED <<lockPath, sockPath, env>>
  PROVE  IndInv'
  <1>1. TypeOK'
    BY NamesDiffer DEF IndInv, TypeOK, PCs, Gone, Goto, env
  <1>2. LockHeld'
    BY NamesDiffer DEF IndInv, TypeOK, PCs, LockHeld, Gone, Goto, env
  <1>3. SocketsKnown'
    BY NamesDiffer DEF IndInv, TypeOK, PCs, SocketsKnown, Before, Gone, Goto, env
  <1>4. PathIsOwn'
    BY DEF IndInv, TypeOK, PathIsOwn, Running, Gone, Goto, env
  <1>5. PathIsFree'
    BY NamesDiffer DEF IndInv, PathIsFree, Listens, Before, Gone, Goto, env
  <1> QED BY <1>1, <1>2, <1>3, <1>4, <1>5 DEF IndInv

\* A new socket is nobody else's.
LEMMA ListenKeeps ==
  ASSUME IndInv, NEW d \in Daemons, NEW next,
         \/ pc[d] = "binding" /\ next = "listening"
         \/ pc[d] = "rebinding" /\ next = "relistening",
         sockPath # PlainFile, Listen(d, next)
  PROVE  IndInv'
  <1>a. New \in Inodes /\ Fresh(New)
    BY NewIsFresh DEF Listen
  <1> DEFINE n == New
  <1>b. /\ n \in Inodes /\ Fresh(n) /\ sockPath' = n /\ listener' = [listener EXCEPT ![n] = d]
        /\ pc' = [pc EXCEPT ![d] = next]
        /\ UNCHANGED <<lockPath, pidPath, flock, lockFd, server, sockId, unbindable, sid, tampers, tampered>>
    BY <1>a DEF Listen, Goto, own, env
  <1> HIDE DEF n
  <1>1. TypeOK'
    BY <1>b, NamesDiffer DEF IndInv, TypeOK, PCs, Fresh, Goto, paths, own, env
  <1>2. LockHeld'
    BY <1>b, NamesDiffer DEF IndInv, TypeOK, PCs, LockHeld, Fresh, Goto, paths, own, env
  <1>3. SocketsKnown'
    BY <1>b, NamesDiffer DEF IndInv, TypeOK, SocketsKnown, Before, Fresh
  <1>4. PathIsOwn'
    BY <1>b, OneAtATime, NamesDiffer DEF IndInv, TypeOK, PCs, PathIsOwn, Running, SocketsKnown, Before, Fresh
  <1>5. PathIsFree'
    BY <1>b, OneAtATime, NamesDiffer DEF IndInv, TypeOK, PCs, PathIsFree, Listens, SocketsKnown, Before, Fresh
  <1> QED BY <1>1, <1>2, <1>3, <1>4, <1>5 DEF IndInv

\* The daemon knows its own new socket, whatever is at the path.
LEMMA RecordedKeeps ==
  ASSUME IndInv, NEW d \in Daemons, pc[d] \in {"listening", "relistening"}, Recorded(d)
  PROVE  IndInv'
  <1>a. NewSocket(d) \in Inodes /\ listener[NewSocket(d)] = d /\ NewSocket(d) # server[d]
    BY DEF IndInv, SocketsKnown, NewSocket
  <1> DEFINE n == IF sockPath \in Inodes /\ listener[sockPath] = d THEN sockPath ELSE NewSocket(d)
  <1>b. /\ n \in Inodes /\ listener[n] = d /\ (sockPath \in Inodes /\ listener[sockPath] = d => n = sockPath)
        /\ sockPath # NoFile /\ sockId' = [sockId EXCEPT ![d] = sockPath]
        /\ server' = [server EXCEPT ![d] = n] /\ unbindable' = [unbindable EXCEPT ![d] = NoFile]
        /\ pidPath' = d /\ listener' = [i \in Inodes |-> IF i = server[d] THEN Nobody ELSE listener[i]]
        /\ sid' = [sid EXCEPT ![d] = NoFile] /\ pc' = [pc EXCEPT ![d] = "up"]
        /\ UNCHANGED <<lockPath, sockPath, flock, lockFd, tampers, tampered>>
    BY <1>a DEF Recorded, Goto, env
  <1> HIDE DEF n
  <1>1. TypeOK'
    BY <1>a, <1>b, NamesDiffer DEF IndInv, TypeOK, PCs, Goto, paths, own, env
  <1>2. LockHeld'
    BY <1>a, <1>b, NamesDiffer DEF IndInv, TypeOK, PCs, LockHeld, Goto, paths, own, env
  <1>3. SocketsKnown'
    BY <1>a, <1>b, NamesDiffer DEF IndInv, TypeOK, PCs, SocketsKnown, Before, Goto, paths, own, env
  <1>4. PathIsOwn'
    BY <1>a, <1>b DEF IndInv, TypeOK, PathIsOwn, Running, SocketsKnown
  <1>5. PathIsFree'
    BY <1>a, <1>b, NamesDiffer DEF IndInv, PathIsFree, Listens, SocketsKnown
  <1> QED BY <1>1, <1>2, <1>3, <1>4, <1>5 DEF IndInv

\* A daemon that stops closes the socket it listens on.
LEMMA StopServingKeeps ==
  ASSUME IndInv, NEW d \in Daemons, pc[d] \in Running, StopServing(d)
  PROVE  IndInv'
  <1>1. TypeOK'
    BY NamesDiffer DEF IndInv, TypeOK, PCs, StopServing, Running, Goto, paths, own, env
  <1>2. LockHeld'
    BY DEF IndInv, LockHeld, StopServing, Running, Goto, paths, env
  <1>3. SocketsKnown'
    BY NamesDiffer DEF IndInv, SocketsKnown, Before, StopServing, Goto, own
  <1>4. PathIsOwn'
    BY DEF IndInv, TypeOK, PathIsOwn, StopServing, Running, Goto, paths, env
  <1>5. PathIsFree'
    BY NamesDiffer
       DEF IndInv, PathIsFree, Listens, Before, StopServing, Running, Goto, paths, env
  <1> QED BY <1>1, <1>2, <1>3, <1>4, <1>5 DEF IndInv

\* Only a lock that nobody holds is taken.
LEMMA AcquireKeeps ==
  ASSUME IndInv, NEW d \in Daemons, Acquire(d)
  PROVE  IndInv'
  <1>1. TypeOK'
    BY NewIsFresh, NamesDiffer DEF IndInv, TypeOK, PCs, Acquire, TakeLock, Fresh, Goto, own, env
  <1>2. LockHeld'
    BY NewIsFresh, NamesDiffer DEF IndInv, TypeOK, LockHeld, Acquire, TakeLock, Goto, env
  <1>3. SocketsKnown'
    BY DEF IndInv, SocketsKnown, Before, Acquire, Goto, own
  <1>4. PathIsOwn'
    BY DEF IndInv, PathIsOwn, Running, Acquire, Goto, own, env
  <1>5. PathIsFree'
    BY NamesDiffer DEF IndInv, PathIsFree, Listens, Before, Acquire, Goto, env
  <1> QED BY <1>1, <1>2, <1>3, <1>4, <1>5 DEF IndInv

\* A probe changes nothing.
LEMMA MovesKeeps ==
  ASSUME IndInv, NEW d \in Daemons, Probe(d) \/ SocketAnswers(d) \/ SocketRefuses(d)
  PROVE  IndInv'
  <1>1. TypeOK'
    <2>1. pc' \in [Daemons -> PCs] /\ sid' \in [Daemons -> Inodes \cup {NoFile, PlainFile}]
      <3>1. CASE Probe(d)
        BY <3>1 DEF IndInv, TypeOK, PCs, Probe, Goto, own
      <3>2. CASE SocketAnswers(d)
        BY <3>2 DEF IndInv, TypeOK, PCs, SocketAnswers, Goto
      <3>3. CASE SocketRefuses(d)
        BY <3>3 DEF IndInv, TypeOK, PCs, SocketRefuses, Goto
      <3> QED BY <3>1, <3>2, <3>3
    <2> QED BY <2>1 DEF IndInv, TypeOK, Probe, SocketAnswers, SocketRefuses, paths, own, env
  <1>2. LockHeld'
    BY DEF IndInv, TypeOK, LockHeld, Probe, SocketAnswers, SocketRefuses, Goto, paths, env
  <1>3. SocketsKnown'
    BY DEF IndInv, TypeOK, SocketsKnown, Before, Probe, SocketAnswers, SocketRefuses, Goto,
           own
  <1>4. PathIsOwn'
    BY DEF IndInv, TypeOK, PathIsOwn, Running, Probe, SocketAnswers, SocketRefuses, Goto,
           paths, own, env
  <1>5. PathIsFree'
    BY DEF IndInv, TypeOK, PathIsFree, Before, Probe, SocketAnswers, SocketRefuses, Listens,
           Goto, paths, env
  <1> QED BY <1>1, <1>2, <1>3, <1>4, <1>5 DEF IndInv

\* A socket is superseded only when nobody listens.
LEMMA SupersedeKeeps ==
  ASSUME IndInv, NEW d \in Daemons, Supersede(d)
  PROVE  IndInv'
  <1>1. TypeOK'
    BY NamesDiffer DEF IndInv, TypeOK, PCs, Supersede, Listens, Goto, own, env
  <1>2. LockHeld'
    BY NamesDiffer DEF IndInv, TypeOK, PCs, LockHeld, Supersede, Listens, Goto, own, env
  <1>3. SocketsKnown'
    BY DEF IndInv, SocketsKnown, Before, Supersede, Goto, own
  <1>4. PathIsOwn'
    BY OneAtATime, NamesDiffer DEF IndInv, PathIsOwn, Running, Supersede, Goto, env
  <1>5. PathIsFree'
    BY NamesDiffer DEF PathIsFree, Supersede, Listens
  <1> QED BY <1>1, <1>2, <1>3, <1>4, <1>5 DEF IndInv

\* The lock of a new file is taken only if nobody holds it.
LEMMA CheckPidKeeps ==
  ASSUME IndInv, NEW d \in Daemons, CheckPid(d)
  PROVE  IndInv'
  <1>1. TypeOK'
    BY NewIsFresh, NamesDiffer DEF IndInv, TypeOK, PCs, CheckPid, KeepLock, TakeLock, Fresh, own, env
  <1>2. LockHeld'
    BY DEF IndInv, LockHeld, CheckPid, KeepLock, env
  <1>3. SocketsKnown'
    BY DEF IndInv, SocketsKnown, CheckPid, own
  <1>4. PathIsOwn'
    BY DEF IndInv, PathIsOwn, CheckPid, own, env
  <1>5. PathIsFree'
    BY NamesDiffer DEF IndInv, PathIsFree, Listens, Before, CheckPid, env
  <1> QED BY <1>1, <1>2, <1>3, <1>4, <1>5 DEF IndInv

\* The same before the socket is looked at.
LEMMA CheckSocketKeeps ==
  ASSUME IndInv, NEW d \in Daemons, CheckSocket(d)
  PROVE  IndInv'
  <1>1. TypeOK'
    BY NewIsFresh, NamesDiffer DEF IndInv, TypeOK, PCs, CheckSocket, KeepLock, TakeLock, Fresh, Goto, env
  <1>2. LockHeld'
    BY DEF IndInv, LockHeld, CheckSocket, KeepLock, Goto, env
  <1>3. SocketsKnown'
    BY DEF IndInv, SocketsKnown, Before, CheckSocket, Goto
  <1>4. PathIsOwn'
    BY DEF IndInv, PathIsOwn, Running, CheckSocket, env
  <1>5. PathIsFree'
    BY DEF IndInv, PathIsFree, Listens, Before, CheckSocket, Goto, env
  <1> QED BY <1>1, <1>2, <1>3, <1>4, <1>5 DEF IndInv

\* What cannot be bound is remembered.
LEMMA RebindFailsKeeps ==
  ASSUME IndInv, NEW d \in Daemons, RebindFails(d)
  PROVE  IndInv'
  <1>1. TypeOK'
    BY NamesDiffer DEF IndInv, TypeOK, PCs, RebindFails, Goto, paths, env
  <1>2. LockHeld'
    BY NamesDiffer DEF IndInv, TypeOK, PCs, LockHeld, RebindFails, Goto, paths, env
  <1>3. SocketsKnown'
    BY NamesDiffer DEF IndInv, TypeOK, PCs, SocketsKnown, Before, RebindFails, Goto, paths, env
  <1>4. PathIsOwn'
    BY DEF IndInv, PathIsOwn, Running, RebindFails, env
  <1>5. PathIsFree'
    BY NamesDiffer DEF PathIsFree, Listens, RebindFails, paths
  <1> QED BY <1>1, <1>2, <1>3, <1>4, <1>5 DEF IndInv

\* A daemon removes what is its own.
LEMMA UnlinkKeeps ==
  ASSUME IndInv, NEW d \in Daemons, Unlink(d)
  PROVE  IndInv'
  <1>1. TypeOK'
    BY NamesDiffer DEF IndInv, TypeOK, PCs, Unlink, RemoveOwn, Goto, own, env
  <1>2. LockHeld'
    BY NamesDiffer DEF IndInv, TypeOK, PCs, LockHeld, Unlink, RemoveOwn, Goto, own, env
  <1>3. SocketsKnown'
    BY DEF IndInv, SocketsKnown, Before, Unlink, Goto, own
  <1>4. PathIsOwn'
    BY OneAtATime, NamesDiffer DEF IndInv, PathIsOwn, Running, Unlink, RemoveOwn, Goto, env
  <1>5. PathIsFree'
    BY NamesDiffer DEF IndInv, PathIsFree, Listens, Before, Unlink, RemoveOwn, Goto, env
  <1> QED BY <1>1, <1>2, <1>3, <1>4, <1>5 DEF IndInv

\* An old daemon ends.
LEMMA OldEndsKeeps ==
  ASSUME IndInv, OldEnds
  PROVE  IndInv'
  <1>1. TypeOK'
    BY NamesDiffer DEF IndInv, TypeOK, PCs, OldEnds, own, env
  <1>2. LockHeld'
    BY NamesDiffer DEF IndInv, TypeOK, PCs, LockHeld, OldEnds, own, env
  <1>3. SocketsKnown'
    BY NamesDiffer DEF IndInv, TypeOK, PCs, SocketsKnown, Before, OldEnds, own, env
  <1>4. PathIsOwn'
    BY NamesDiffer DEF IndInv, PathIsOwn, OldEnds, own, env
  <1>5. PathIsFree'
    BY DEF IndInv, PathIsFree, Listens, OldEnds, env
  <1> QED BY <1>1, <1>2, <1>3, <1>4, <1>5 DEF IndInv

\* Files are removed or replaced.
LEMMA TamperKeeps ==
  ASSUME IndInv, Tamper
  PROVE  IndInv'
  <1>1. TypeOK'
    <2>1. tampers' \in 0..MaxTampers
      BY TampersIsNat DEF IndInv, TypeOK, Tamper
    <2>2. lockPath' \in Inodes \cup {NoFile} /\ sockPath' \in Inodes \cup {NoFile, PlainFile}
          /\ pidPath' \in Daemons \cup {Old, Nobody} /\ tampered' \subseteq {"socket", "pid", "lock"}
      BY DEF IndInv, TypeOK, Tamper
    <2> QED BY <2>1, <2>2 DEF IndInv, TypeOK, Tamper, own
  <1>2. LockHeld'
    BY TampersIsNat, NamesDiffer DEF IndInv, TypeOK, PCs, LockHeld, Tamper, own
  <1>3. SocketsKnown'
    BY TampersIsNat, NamesDiffer DEF IndInv, TypeOK, PCs, SocketsKnown, Before, Tamper, own
  <1>4. PathIsOwn'
    BY DEF IndInv, TypeOK, PathIsOwn, Tamper, own
  <1>5. PathIsFree'
    BY NamesDiffer DEF PathIsFree, Listens, Tamper
  <1> QED BY <1>1, <1>2, <1>3, <1>4, <1>5 DEF IndInv

\* Every step keeps IndInv.
LEMMA StepKeeps == IndInv /\ [Next]_vars => IndInv'
  <1> SUFFICES ASSUME IndInv, [Next]_vars PROVE IndInv'
    OBVIOUS
  <1>1. CASE UNCHANGED vars
    BY <1>1
       DEF vars, paths, own, env, IndInv, TypeOK, LockHeld, SocketsKnown, PathIsOwn,
           PathIsFree, Listens
  <1>2. ASSUME NEW d \in Daemons, Start(d) PROVE IndInv'
    <2>1. CASE ConcedesByPidfile(d) \/ BindFails(d)
      BY <2>1, GoneKeeps DEF ConcedesByPidfile, BindFails
    <2>2. CASE Bind(d)
      BY <2>2, ListenKeeps DEF Bind
    <2>3. CASE BindDone(d)
      BY <2>3, RecordedKeeps DEF BindDone
    <2> QED BY <1>2, <2>1, <2>2, <2>3, AcquireKeeps, MovesKeeps, SupersedeKeeps DEF Start
  <1>3. ASSUME NEW d \in Daemons, Watchdog(d) PROVE IndInv'
    <2>1. CASE Rebind(d)
      BY <2>1, ListenKeeps DEF Rebind
    <2>2. CASE RebindDone(d)
      BY <2>2, RecordedKeeps DEF RebindDone
    <2>3. CASE Displaced(d)
      BY <2>3, StopServingKeeps DEF Displaced, Running
    <2> QED BY <1>3, <2>1, <2>2, <2>3, CheckPidKeeps, CheckSocketKeeps, MovesKeeps, RebindFailsKeeps
         DEF Watchdog
  <1>4. ASSUME NEW d \in Daemons, Down(d) PROVE IndInv'
    <2>1. CASE Stop(d)
      BY <2>1, StopServingKeeps DEF Stop, Running
    <2>2. CASE Exit(d) \/ Crash(d)
      BY <2>2, GoneKeeps DEF Exit, Crash
    <2> QED BY <1>4, <2>1, <2>2, UnlinkKeeps DEF Down
  <1> QED BY <1>1, <1>2, <1>3, <1>4, OldEndsKeeps, TamperKeeps DEF Next

\* The lock decides who may bind, rebind and remove, for any number of daemons.
THEOREM Inductive == Spec => []IndInv
  BY InitHolds, StepKeeps, PTL DEF Spec

\* Two daemons run at once only after somebody removed the lockfile.
THEOREM AtMostOneRuns == Spec => []OneDaemon
  <1>1. IndInv => OneDaemon
    BY OneAtATime DEF IndInv, OneDaemon, Running
  <1> QED BY <1>1, Inductive, PTL

\* The socket of a running daemon is never taken over or orphaned by another one,
\* while nobody touches the socket or the lockfile.
THEOREM NeverOrphaned == Spec => []NoOrphan
  <1>1. IndInv => NoOrphan
    BY DEF IndInv, PathIsOwn, NoOrphan
  <1> QED BY <1>1, Inductive, PTL

\* Whoever changes what is at the path spares the sockets of others.
LEMMA Supersedes ==
  ASSUME IndInv, NEW d \in Daemons,
         \/ Supersede(d) \/ Unlink(d)
         \/ Listen(d, "listening") /\ pc[d] = "binding"
         \/ Listen(d, "relistening") /\ pc[d] = "rebinding"
  PROVE  /\ Spares(d) /\ \A e \in Daemons \ {d} : pc'[e] = pc[e]
  <1>1. \A e \in Daemons \ {d} : pc'[e] = pc[e]
    BY DEF IndInv, TypeOK, Supersede, Listen, Unlink, Goto
  <1> SUFFICES ASSUME Listens(sockPath), listener[sockPath] # d,
                      tampered \subseteq {"socket"} \/ (pc[d] = "closing" /\ sockId[d] = server[d])
               PROVE  sockPath' = sockPath
    BY <1>1 DEF Spares
  <1>2. CASE Supersede(d)
    BY <1>2, NamesDiffer, OneAtATime
       DEF IndInv, TypeOK, PathIsFree, SocketsKnown, Supersede, Listens, Before
  <1>3. CASE Listen(d, "listening") /\ pc[d] = "binding"
    BY <1>3 DEF IndInv, PathIsFree, Listens
  <1>4. CASE Listen(d, "relistening") /\ pc[d] = "rebinding"
    BY <1>4 DEF IndInv, PathIsFree, Listens, Before
  <1>5. CASE Unlink(d)
    BY <1>5 DEF IndInv, PathIsFree, SocketsKnown, Listens, Before, Unlink, RemoveOwn
  <1> QED BY <1>2, <1>3, <1>4, <1>5

\* No daemon removes or replaces a socket another process listens on.
THEOREM LiveSocketsSpared == Spec => SparesLiveSockets
  <1>1. ASSUME IndInv, Next PROVE \A d \in Daemons : Spares(d)
    <2>1. CASE OldEnds \/ Tamper
      BY <2>1 DEF OldEnds, Tamper, Spares
    <2>2. ASSUME NEW d \in Daemons, Start(d) \/ Watchdog(d) \/ Down(d) PROVE \A e \in Daemons : Spares(e)
      <3>1. CASE Supersede(d) \/ Bind(d) \/ Rebind(d) \/ Unlink(d)
        BY <1>1, <3>1, Supersedes DEF Bind, Rebind, Spares
      <3>2. CASE ~(Supersede(d) \/ Bind(d) \/ Rebind(d) \/ Unlink(d))
        <4>1. sockPath' = sockPath
          BY <2>2, <3>2
             DEF Start, Watchdog, Down, Acquire, Probe, ConcedesByPidfile, BindDone,
                 BindFails, Recorded, CheckPid, CheckSocket, SocketAnswers, SocketRefuses,
                 RebindDone, RebindFails, Displaced, Stop, StopServing, Exit, Crash, paths
        <4> QED BY <4>1 DEF Spares
      <3> QED BY <3>1, <3>2
    <2> QED BY <1>1, <2>1, <2>2 DEF Next
  <1>2. IndInv /\ [Next]_vars => [\A d \in Daemons : Spares(d)]_vars
    BY <1>1
  <1> QED BY <1>2, Inductive, PTL DEF Spec, SparesLiveSockets

=============================================================================
