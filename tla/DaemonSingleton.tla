--------------------------- MODULE DaemonSingleton ---------------------------
(***************************************************************************)
(* One daemon per runtime directory (daemon/server.py): the flock on       *)
(* LOCK_PATH, the probe of a socket somebody may still serve, binding      *)
(* SOCK_PATH, the watchdog that puts back what was removed, and shutdown.  *)
(*                                                                         *)
(* Files are identified by inode, as _path_id does: a flock and a          *)
(* listening socket stay with their inode when the path is removed.  A     *)
(* step ends at an await, or where another process may come in between.    *)
(* A pidfile that names a dead process reads like a missing one.           *)
(***************************************************************************)
EXTENDS Naturals, FiniteSets

CONSTANTS
  Daemons,      \* processes that run daemon.server
  Inodes,       \* identities of lockfiles and sockets
  MaxTampers,   \* how often somebody removes or replaces a file
  Old,          \* a daemon of a version without the lock
  NoFile, PlainFile, Nobody

ASSUME NamesDiffer ==
  /\ {Old, Nobody} \cap Daemons = {} /\ Old # Nobody
  /\ {NoFile, PlainFile} \cap Inodes = {} /\ NoFile # PlainFile
ASSUME TampersIsNat == MaxTampers \in Nat

VARIABLES
  lockPath, sockPath, pidPath,  \* what the three paths name
  flock,      \* inode -> the process that holds its lock
  listener,   \* inode -> the process that listens on it
  pc,
  lockFd,     \* daemon._lock_fd
  server,     \* daemon._server: the socket it listens on
  sockId,     \* daemon._sock_id: what it takes SOCK_PATH to be
  unbindable, \* daemon._unbindable_sock_id
  sid,        \* what the watchdog saw at SOCK_PATH before it probed
  tampers, tampered   \* how often, and with which of the three paths

paths == <<lockPath, sockPath, pidPath>>
own == <<server, sockId, unbindable, sid>>
env == <<tampers, tampered>>
vars == <<paths, flock, listener, pc, lockFd, own, env>>

PCs == {"off", "probing", "answered", "slow", "refused", "binding", "listening",
        "up", "checking", "rebinding", "relistening", "closing", "unlinked"}
Running == {"up", "checking", "rebinding", "relistening"}

TypeOK ==
  /\ lockPath \in Inodes \cup {NoFile}
  /\ sockPath \in Inodes \cup {NoFile, PlainFile}
  /\ pidPath \in Daemons \cup {Old, Nobody}
  /\ flock \in [Inodes -> Daemons \cup {Nobody}]
  /\ listener \in [Inodes -> Daemons \cup {Old, Nobody}]
  /\ pc \in [Daemons -> PCs]
  /\ lockFd \in [Daemons -> Inodes \cup {NoFile}]
  /\ server \in [Daemons -> Inodes \cup {NoFile}]
  /\ sockId \in [Daemons -> Inodes \cup {NoFile, PlainFile}]
  /\ unbindable \in [Daemons -> Inodes \cup {NoFile, PlainFile}]
  /\ sid \in [Daemons -> Inodes \cup {NoFile, PlainFile}]
  /\ tampers \in 0..MaxTampers /\ tampered \subseteq {"socket", "pid", "lock"}

\* Nothing runs, or an old daemon serves; whoever ran before left its files.
Init ==
  /\ lockPath = NoFile
  /\ flock = [i \in Inodes |-> Nobody]
  /\ \/ /\ sockPath = NoFile /\ pidPath = Nobody
        /\ listener = [i \in Inodes |-> Nobody]
     \/ \E i \in Inodes, p \in {Old, Nobody} :
          /\ sockPath = i /\ pidPath = p
          /\ listener = [j \in Inodes |-> IF j = i THEN p ELSE Nobody]
  /\ pc = [d \in Daemons |-> "off"]
  /\ lockFd = [d \in Daemons |-> NoFile]
  /\ server = [d \in Daemons |-> NoFile]
  /\ sockId = [d \in Daemons |-> NoFile]
  /\ unbindable = [d \in Daemons |-> NoFile]
  /\ sid = [d \in Daemons |-> NoFile]
  /\ tampers = 0 /\ tampered = {}

Goto(d, stage) == pc' = [pc EXCEPT ![d] = stage]
Listens(path) == path \in Inodes /\ listener[path] # Nobody
Fresh(i) ==
  /\ i \notin {lockPath, sockPath} /\ flock[i] = Nobody /\ listener[i] = Nobody
  /\ \A d \in Daemons : i \notin {lockFd[d], server[d], sockId[d], unbindable[d], sid[d]}

Room == \E i \in Inodes : Fresh(i)     \* bound: never more files than Inodes
New == CHOOSE i \in Inodes : Fresh(i)

\* A mutant of TakeLock: the lock of another process does not matter.
TakeLockAnyway(d) ==
  LET i == IF lockPath = NoFile THEN New ELSE lockPath IN
  /\ lockPath' = i
  /\ flock' = [j \in Inodes |-> IF j = i THEN d ELSE IF j = lockFd[d] THEN Nobody ELSE flock[j]]
  /\ lockFd' = [lockFd EXCEPT ![d] = i]

\* os.open(O_CREAT) and flock(LOCK_NB); the lock held before is closed.
TakeLock(d) ==
  LET i == IF lockPath = NoFile THEN New ELSE lockPath IN
  /\ IF lockPath = NoFile THEN Room ELSE flock[lockPath] = Nobody
  /\ lockPath' = i
  /\ flock' = [j \in Inodes |-> IF j = i THEN d ELSE IF j = lockFd[d] THEN Nobody ELSE flock[j]]
  /\ lockFd' = [lockFd EXCEPT ![d] = i]

\* The process ends: the kernel closes its sockets and drops its locks.
Gone(d) ==
  /\ Goto(d, "off")
  /\ flock' = [i \in Inodes |-> IF flock[i] = d THEN Nobody ELSE flock[i]]
  /\ listener' = [i \in Inodes |-> IF listener[i] = d THEN Nobody ELSE listener[i]]
  /\ pidPath' = IF pidPath = d THEN Nobody ELSE pidPath
  /\ lockFd' = [lockFd EXCEPT ![d] = NoFile]
  /\ server' = [server EXCEPT ![d] = NoFile]
  /\ sockId' = [sockId EXCEPT ![d] = NoFile]
  /\ unbindable' = [unbindable EXCEPT ![d] = NoFile]
  /\ sid' = [sid EXCEPT ![d] = NoFile]

------------------------------------------------------------------------------
(* Starting: run().                                                          *)

\* Whoever finds the lock held exits with code 2 and changes nothing.
Acquire(d) ==
  /\ pc[d] = "off"
  /\ TakeLock(d)
  /\ Goto(d, IF sockPath = NoFile THEN "binding" ELSE "probing")
  /\ UNCHANGED <<sockPath, pidPath, listener, own, env>>

\* A connect within two seconds; a listener may be too slow to answer in time.
Probe(d) ==
  /\ pc[d] = "probing"
  /\ IF Listens(sockPath)
     THEN Goto(d, "answered") \/ Goto(d, "slow")
     ELSE Goto(d, "refused")
  /\ UNCHANGED <<paths, flock, listener, lockFd, own, env>>

\* Somebody serves, as far as the probe or else the pidfile tells: leave.
ConcedesByPidfile(d) ==
  /\ pc[d] = "answered" \/ (pc[d] = "slow" /\ pidPath # Nobody)
  /\ Gone(d)
  /\ UNCHANGED <<lockPath, sockPath, env>>

Supersede(d) ==
  /\ pc[d] = "refused" \/ (pc[d] = "slow" /\ pidPath = Nobody)
  /\ sockPath' = NoFile
  /\ Goto(d, "binding")
  /\ UNCHANGED <<lockPath, pidPath, flock, listener, lockFd, own, env>>

\* start_unix_server: replaces whatever socket is at the path, live or not.
Listen(d, next) ==
  /\ Room
  /\ sockPath' = New
  /\ listener' = [listener EXCEPT ![New] = d]
  /\ Goto(d, next)
  /\ UNCHANGED <<lockPath, pidPath, flock, lockFd, own, env>>

Bind(d) == pc[d] = "binding" /\ sockPath # PlainFile /\ Listen(d, "listening")

\* Its own new socket, found among those it listens on.
NewSocket(d) == CHOOSE i \in Inodes : listener[i] = d /\ i # server[d]

\* After the await: chmod, remember the inode at the path, write the pidfile and
\* close the server of the socket that was lost.
Recorded(d) ==
  /\ sockPath # NoFile
  /\ sockId' = [sockId EXCEPT ![d] = sockPath]
  /\ server' = [server EXCEPT ![d] = IF sockPath \in Inodes /\ listener[sockPath] = d
                                     THEN sockPath ELSE NewSocket(d)]
  /\ unbindable' = [unbindable EXCEPT ![d] = NoFile]
  /\ pidPath' = d
  /\ listener' = [i \in Inodes |-> IF i = server[d] THEN Nobody ELSE listener[i]]
  /\ sid' = [sid EXCEPT ![d] = NoFile]
  /\ Goto(d, "up")
  /\ UNCHANGED <<lockPath, sockPath, flock, lockFd, env>>

BindDone(d) == pc[d] = "listening" /\ Recorded(d)

\* The path is a plain file, or is gone when chmod wants it: the start fails.
BindFails(d) ==
  /\ \/ pc[d] = "binding" /\ sockPath = PlainFile
     \/ pc[d] = "listening" /\ sockPath = NoFile
  /\ Gone(d)
  /\ UNCHANGED <<lockPath, sockPath, env>>

------------------------------------------------------------------------------
(* The watchdog: _check_paths, every two seconds.                            *)

\* The lockfile first: take the lock of whatever is at the path now.
KeepLock(d) ==
  IF lockPath = lockFd[d] THEN UNCHANGED <<lockPath, flock, lockFd>> ELSE TakeLock(d)

HeldByAnother(d) ==
  /\ lockPath # NoFile /\ lockPath # lockFd[d]
  /\ flock[lockPath] # Nobody

CheckPid(d) ==
  /\ pc[d] = "up" /\ sockPath = sockId[d]
  /\ KeepLock(d)
  /\ pidPath' = d
  /\ UNCHANGED <<sockPath, listener, pc, own, env>>

\* A mutant of CheckSocket: only a replaced socket is noticed.
CheckReplaced(d) ==
  /\ pc[d] = "up" /\ sockPath \notin {NoFile, sockId[d]}
  /\ KeepLock(d)
  /\ sid' = [sid EXCEPT ![d] = sockPath]
  /\ Goto(d, "checking")
  /\ UNCHANGED <<sockPath, pidPath, listener, server, sockId, unbindable, env>>

CheckSocket(d) ==
  /\ pc[d] = "up" /\ sockPath # sockId[d]
  /\ KeepLock(d)
  /\ sid' = [sid EXCEPT ![d] = sockPath]
  /\ Goto(d, IF sockPath = NoFile THEN "rebinding" ELSE "checking")
  /\ UNCHANGED <<sockPath, pidPath, listener, server, sockId, unbindable, env>>

\* The path is served, and is left alone; slow counts as an answer here.
SocketAnswers(d) ==
  /\ pc[d] = "checking" /\ Listens(sockPath)
  /\ Goto(d, "up")
  /\ sid' = [sid EXCEPT ![d] = NoFile]
  /\ UNCHANGED <<paths, flock, listener, lockFd, server, sockId, unbindable, env>>

SocketRefuses(d) ==
  /\ pc[d] = "checking" /\ ~Listens(sockPath)
  /\ IF sid[d] = unbindable[d]     \* reported before; wait for a change
     THEN Goto(d, "up") /\ sid' = [sid EXCEPT ![d] = NoFile]
     ELSE Goto(d, "rebinding") /\ UNCHANGED sid
  /\ UNCHANGED <<paths, flock, listener, lockFd, server, sockId, unbindable, env>>

Rebind(d) == pc[d] = "rebinding" /\ sockPath # PlainFile /\ Listen(d, "relistening")

RebindDone(d) == pc[d] = "relistening" /\ Recorded(d)

RebindFails(d) ==
  /\ \/ pc[d] = "rebinding" /\ sockPath = PlainFile
     \/ pc[d] = "relistening" /\ sockPath = NoFile
  /\ unbindable' = [unbindable EXCEPT ![d] = sid[d]]
  /\ sid' = [sid EXCEPT ![d] = NoFile]
  /\ Goto(d, "up")
  /\ UNCHANGED <<paths, flock, listener, lockFd, server, sockId, env>>

------------------------------------------------------------------------------
(* Stopping.                                                                 *)

\* The tasks are cancelled at their awaits and the server is closed.
StopServing(d) ==
  /\ Goto(d, "closing")
  /\ listener' = [i \in Inodes |-> IF i = server[d] THEN Nobody ELSE listener[i]]
  /\ UNCHANGED <<paths, flock, lockFd, own, env>>

Displaced(d) == pc[d] = "up" /\ HeldByAnother(d) /\ StopServing(d)
\* A signal, the shutdown verb, the idle reaper.
Stop(d) == pc[d] \in {"up", "checking", "relistening"} /\ StopServing(d)

\* A mutant of RemoveOwn: it does not ask whose socket is at the path.
RemoveAny(d) ==
  /\ sockPath' = IF sockPath = PlainFile THEN sockPath ELSE NoFile
  /\ pidPath' = IF pidPath = d THEN Nobody ELSE pidPath

RemoveOwn(d) ==
  /\ sockPath' = IF sockId[d] # NoFile /\ sockPath = sockId[d] THEN NoFile ELSE sockPath
  /\ pidPath' = IF pidPath = d THEN Nobody ELSE pidPath

\* After the sessions are closed.
Unlink(d) ==
  /\ pc[d] = "closing"
  /\ RemoveOwn(d)
  /\ Goto(d, "unlinked")
  /\ UNCHANGED <<lockPath, flock, listener, lockFd, own, env>>

Exit(d) ==
  /\ pc[d] = "unlinked"
  /\ Gone(d)
  /\ UNCHANGED <<lockPath, sockPath, env>>

Crash(d) ==
  /\ pc[d] # "off"
  /\ Gone(d)
  /\ UNCHANGED <<lockPath, sockPath, env>>

------------------------------------------------------------------------------
(* The world: an old daemon that ends, and files somebody removes.           *)

OldEnds ==
  /\ Old \in {listener[i] : i \in Inodes}
  /\ listener' = [i \in Inodes |-> IF listener[i] = Old THEN Nobody ELSE listener[i]]
  /\ pidPath' = IF pidPath = Old THEN Nobody ELSE pidPath
  /\ UNCHANGED <<lockPath, sockPath, flock, pc, lockFd, own, env>>

Tamper ==
  /\ tampers < MaxTampers /\ tampers' = tampers + 1
  /\ \/ /\ sockPath' \in {NoFile, PlainFile} /\ sockPath' # sockPath
        /\ tampered' = tampered \cup {"socket"}
        /\ UNCHANGED <<lockPath, pidPath>>
     \/ /\ pidPath' = Nobody /\ pidPath # Nobody
        /\ tampered' = tampered \cup {"pid"}
        /\ UNCHANGED <<lockPath, sockPath>>
     \/ /\ lockPath' = NoFile /\ lockPath # NoFile
        /\ tampered' = tampered \cup {"lock"}
        /\ UNCHANGED <<sockPath, pidPath>>
  /\ UNCHANGED <<flock, listener, pc, lockFd, own>>

Start(d) ==
  \/ Acquire(d) \/ Probe(d) \/ ConcedesByPidfile(d) \/ Supersede(d)
  \/ Bind(d) \/ BindDone(d) \/ BindFails(d)

Watchdog(d) ==
  \/ CheckPid(d) \/ CheckSocket(d) \/ SocketAnswers(d) \/ SocketRefuses(d)
  \/ Rebind(d) \/ RebindDone(d) \/ RebindFails(d) \/ Displaced(d)

Down(d) == Stop(d) \/ Unlink(d) \/ Exit(d) \/ Crash(d)

Next ==
  \/ \E d \in Daemons : Start(d) \/ Watchdog(d) \/ Down(d)
  \/ OldEnds \/ Tamper

\* The watchdog is a loop of the daemon; nothing makes a daemon start or stop.
Fairness == \A d \in Daemons : WF_vars(Watchdog(d))

Spec == Init /\ [][Next]_vars /\ Fairness

------------------------------------------------------------------------------
(* Properties.                                                               *)

\* While nobody touches the socket or the lockfile, a running daemon is the one
\* clients reach: no start of another, no old daemon and no watchdog takes its
\* socket ("the supersede-and-orphan leak is structurally impossible").
NoOrphan ==
  tampered \subseteq {"pid"} => \A d \in Daemons : pc[d] \in Running => sockPath = server[d]

\* Two daemons run at once only after somebody removed the lockfile.
OneDaemon ==
  "lock" \in tampered \/ \A d, e \in Daemons :
    pc[d] \in Running /\ pc[e] \in Running => d = e

Spares(d) ==
  /\ pc'[d] # pc[d] /\ Listens(sockPath) /\ listener[sockPath] # d
  /\ tampered \subseteq {"socket"} \/ (pc[d] = "closing" /\ sockId[d] = server[d])
  => sockPath' = sockPath

\* No daemon removes or replaces a socket another process listens on, unless
\* somebody removed the lockfile, or the pidfile of a process slow to answer; and
\* not even then when it shuts down.
SparesLiveSockets == [][\A d \in Daemons : Spares(d)]_vars

\* A running daemon whose socket was taken from the path is reachable again, or
\* somebody else is, or the path cannot be bound; else it has stopped.  (A daemon
\* that bound while another did may have remembered the other's socket.)
SocketComesBack ==
  \A d \in Daemons :
    pc[d] \in Running ~>
      \/ pc[d] \notin Running \/ sockId[d] # server[d]
      \/ Listens(sockPath) \/ sockPath = PlainFile

------------------------------------------------------------------------------
(* What every step keeps, and the safety properties rest on.                 *)

Before == {"off", "probing", "answered", "slow", "refused", "binding"}

\* Whoever is more than off holds the lock of the file at LOCK_PATH.
LockHeld ==
  "lock" \in tampered \/ \A d \in Daemons :
    pc[d] # "off" => lockPath \in Inodes /\ lockFd[d] = lockPath /\ flock[lockPath] = d

\* Which sockets a daemon listens on, and that it knows its own.
SocketsKnown ==
  /\ \A i \in Inodes : listener[i] \in Daemons => pc[listener[i]] \notin Before
  /\ \A d \in Daemons :
       /\ pc[d] \in Before \cup {"listening"} => server[d] = NoFile
       /\ server[d] \in Inodes => listener[server[d]] \in {d, Nobody}
       /\ pc[d] = "closing" /\ server[d] \in Inodes => listener[server[d]] = Nobody
       /\ pc[d] \in {"listening", "relistening"} =>
            \E i \in Inodes : listener[i] = d /\ i # server[d]

\* Undisturbed, the path keeps naming the socket of the daemon that bound it.
PathIsOwn ==
  tampered \subseteq {"pid"} =>
    /\ sockPath # PlainFile
    /\ \A d \in Daemons :
         /\ pc[d] = "listening" => sockPath \in Inodes /\ listener[sockPath] = d
         /\ pc[d] \in Running =>
              pc[d] = "up" /\ sockPath \in Inodes /\ listener[sockPath] = d
              /\ sockPath = sockId[d] /\ sockPath = server[d]

\* Nobody binds before he knows that nobody else listens there.
PathIsFree ==
  tampered \subseteq {"socket"} =>
    /\ sockPath \in Inodes /\ listener[sockPath] = Old => pidPath = Old
    /\ \A d \in Daemons :
         /\ pc[d] = "refused" => ~Listens(sockPath)
         /\ pc[d] = "binding" => sockPath \notin Inodes
         /\ pc[d] \notin Before /\ sockPath \in Inodes => listener[sockPath] \in {d, Nobody}

\* The lock, not the socket, decides who may bind, rebind and remove
\* (_acquire_singleton_lock, run, _check_paths, shutdown).
IndInv == TypeOK /\ LockHeld /\ SocketsKnown /\ PathIsOwn /\ PathIsFree

==============================================================================
