------------------------ MODULE SessionRegistry_proofs ------------------------
(* Proofs about SessionRegistry, for any number of names, requests, entries  *)
(* and Chromes.                                                              *)
(*                                                                           *)
(* First the types, with what each stage of a request knows about its job:   *)
(* Shape, and one lemma per action that keeps it. Then the registry and its  *)
(* caps: every action is one of a few kinds of step, Quiet, Registers,       *)
(* Unregisters or Charges (of the request that takes it), or Promotes (of a  *)
(* goal); the <Action>Effect lemmas say which, the <Kind>Keeps lemmas say    *)
(* that each kind keeps the inductive invariant. Then the two kinds of lock: *)
(* LocksApart is inductive on top of it.                                     *)
(*                                                                           *)
(* Placed says on which profile what is registered, launching or closing is: *)
(* one its `start` may have asked for. Every step Moves within it.           *)
(*                                                                           *)
(* Then who holds a Chrome: every action passes Chromes on in one of a few   *)
(* ways (Frees, Carries, Aims, Launches, Seats, Loses), each of which keeps  *)
(* Hands, that nobody holds what another one holds, and, without walls,      *)
(* Owned, that somebody holds what runs. Last the profiles: Lanes is what an *)
(* explore knows of the name it minted, Closers what a close knows of the    *)
(* name it closes. And service: a step is in order (InOrder) when it stays   *)
(* put, lets go of a lock, gets one, or joins or leaves a queue at its turn; *)
(* every step is, and InService, that nobody is forgotten, is inductive.     *)
EXTENDS SessionRegistry, FiniteSetTheorems, SequenceTheorems, TLAPS

------------------------------------------------------------------------------
(* Typing, variable group by variable group.                                 *)

RegShape ==
  /\ entries \in [AllNames -> Entries \cup {NoEntry}]
  /\ budget \in [Entries -> {"persistent", "ephemeral", "promoted"}]
  /\ profile \in [Entries -> Profiles \cup {NoName}]
  /\ session \in [Entries -> Chromes \cup {NoChrome, Foreign}]
  /\ walled \subseteq Entries

LockShape ==
  /\ lock \in [Entries -> Tasks \cup {NoTask}]
  /\ waiters \in [Entries -> Seq(Tasks)]

PoolShape ==
  /\ warm \in [AllNames -> Chromes \cup {NoChrome}]
  /\ warmTask \in [AllNames -> WarmTasks \cup {NoWarm}]
  /\ pre \in [WarmTasks -> [st : {"off", "spawn", "up", "discard", "cancelled"},
                            name : AllNames \cup {NoName}, profile : Profiles \cup {NoName},
                            chrome : Chromes \cup {NoChrome}]]
  /\ \A k \in WarmTasks : pre[k].st # "off" => pre[k].name \in AllNames
  /\ \A n \in AllNames : warmTask[n] # NoWarm =>
       pre[warmTask[n]].st # "off" /\ pre[warmTask[n]].name = n

OsShape ==
  /\ runs \in [Chromes -> Profiles \cup {NoName}]
  /\ stray \subseteq Chromes
  /\ dirs \subseteq Profiles \cup {NoName}

TaskShape ==
  /\ pc \in [Tasks -> PCs]
  /\ job \in [Tasks -> Jobs]
  /\ \A t \in Tasks : MatchesStage(pc[t], job[t])

MutexShape == mutateLock \in Tasks \cup {NoTask}

Shape == RegShape /\ LockShape /\ PoolShape /\ OsShape /\ TaskShape /\ MutexShape

LEMMA ShapeIsTypeOK == Shape <=> TypeOK /\ JobsMatchStage
BY DEF Shape, RegShape, LockShape, PoolShape, OsShape, TaskShape, MutexShape,
       TypeOK, JobsMatchStage

LEMMA ShapeUnchanged ==
  /\ RegShape /\ UNCHANGED regVars => RegShape'
  /\ LockShape /\ UNCHANGED lockVars => LockShape'
  /\ PoolShape /\ UNCHANGED poolVars => PoolShape'
  /\ OsShape /\ UNCHANGED osVars => OsShape'
  /\ TaskShape /\ UNCHANGED <<pc, job>> => TaskShape'
  /\ MutexShape /\ UNCHANGED mutateLock => MutexShape'
<1>1. RegShape /\ UNCHANGED regVars => RegShape'
  BY DEF RegShape, regVars
<1>2. LockShape /\ UNCHANGED lockVars => LockShape'
  BY DEF LockShape, lockVars
<1>3. PoolShape /\ UNCHANGED poolVars => PoolShape'
  BY DEF PoolShape, poolVars
<1>4. OsShape /\ UNCHANGED osVars => OsShape'
  BY DEF OsShape, osVars
<1>5. TaskShape /\ UNCHANGED <<pc, job>> => TaskShape'
  BY DEF TaskShape
<1>6. MutexShape /\ UNCHANGED mutateLock => MutexShape'
  BY DEF MutexShape
<1> QED BY <1>1, <1>2, <1>3, <1>4, <1>5, <1>6

LEMMA InitShape == Init => Shape
<1> SUFFICES ASSUME Init PROVE Shape OBVIOUS
<1>1. RegShape BY DEF Init, RegShape
<1>2. LockShape BY DEF Init, LockShape
<1>3. PoolShape BY DEF Init, PoolShape, OffPre
<1>4. OsShape BY DEF Init, OsShape
<1>5. NoJob \in Jobs BY DEF NoJob, About, Jobs
<1>6. TaskShape
  BY <1>5 DEF Init, TaskShape, PCs, MatchesStage, Healing
<1>7. MutexShape BY DEF Init, MutexShape
<1> QED BY <1>1, <1>2, <1>3, <1>4, <1>6, <1>7 DEF Shape

LEMMA NamesAreProfiles ==
  AllNames \subseteq Profiles /\ \A n \in Names : MayRunOn(n) \subseteq Profiles
BY DEF Profiles, AllNames, MayRunOn

(* The steps requests are made of.                                           *)

LEMMA StepShape ==
  ASSUME TaskShape, NEW t \in Tasks, NEW p \in PCs, NEW j \in Jobs,
         MatchesStage(p, j), Step(t, p, j)
  PROVE  TaskShape'
BY DEF TaskShape, Step

LEMMA ReturnShape ==
  ASSUME TaskShape, MutexShape, NEW t \in Tasks, Return(t)
  PROVE  TaskShape' /\ MutexShape'
<1>1. NoJob \in Jobs BY DEF NoJob, About, Jobs
<1>2. "idle" \in PCs /\ MatchesStage("idle", NoJob)
  BY DEF PCs, MatchesStage, Healing
<1> QED BY <1>1, <1>2 DEF Return, TaskShape, MutexShape

LEMMA ContinueShape ==
  ASSUME TaskShape, MutexShape, NEW t \in Tasks, NEW p \in {"laneBody", "verb"},
         Continue(t, p), job[t].name \in AllNames,
         p = "verb" => job[t].entry \in Entries
  PROVE  TaskShape' /\ MutexShape'
<1> DEFINE j == [job[t] EXCEPT !.target = NoEntry, !.chrome = NoChrome, !.join = NoWarm]
<1>1. j \in Jobs /\ j.name = job[t].name /\ j.entry = job[t].entry
  BY DEF TaskShape, Jobs
<1>2. p \in PCs /\ MatchesStage(p, j)
  BY <1>1 DEF PCs, MatchesStage, Healing
<1>3. pc' = [pc EXCEPT ![t] = p] /\ job' = [job EXCEPT ![t] = j]
  BY DEF Continue
<1>4. TaskShape'
  BY <1>1, <1>2, <1>3 DEF TaskShape
<1> QED BY <1>4 DEF Continue, MutexShape

LEMMA StartWorksShape ==
  ASSUME TaskShape, MutexShape, NEW t \in Tasks, StartWorks(t), job[t].name \in AllNames
  PROVE  TaskShape' /\ MutexShape'
<1>1. job[t].entry \in Entries \cup {NoEntry}
  BY DEF TaskShape, Jobs
<1>2. CASE IsLane(t)
  BY <1>2, ContinueShape DEF StartWorks
<1>3. CASE ~IsLane(t) /\ job[t].entry # NoEntry
  BY <1>1, <1>3, ContinueShape DEF StartWorks
<1>4. CASE ~IsLane(t) /\ job[t].entry = NoEntry
  BY <1>4, ReturnShape DEF StartWorks
<1> QED BY <1>2, <1>3, <1>4

LEMMA StartFailsShape ==
  ASSUME TaskShape, MutexShape, OsShape, NEW t \in Tasks, StartFails(t),
         job[t].name \in AllNames
  PROVE  TaskShape' /\ MutexShape' /\ dirs' \subseteq Profiles \cup {NoName}
<1>1. job[t].entry \in Entries \cup {NoEntry}
  BY DEF TaskShape, Jobs
<1>2. dirs' \subseteq Profiles \cup {NoName}
  BY DEF StartFails, OsShape, TaskShape, Jobs
<1>3. CASE ~IsLane(t) /\ job[t].entry # NoEntry
  BY <1>1, <1>2, <1>3, ContinueShape DEF StartFails
<1>4. CASE ~(~IsLane(t) /\ job[t].entry # NoEntry)
  BY <1>2, <1>4, ReturnShape DEF StartFails
<1> QED BY <1>3, <1>4

LEMMA LeaveShape ==
  ASSUME TaskShape, MutexShape, LockShape, NEW t \in Tasks, Leave(t)
  PROVE  TaskShape' /\ MutexShape' /\ LockShape'
<1>1. TaskShape' /\ MutexShape'
  BY ReturnShape DEF Leave
<1> QED BY <1>1 DEF Leave, LockShape

LEMMA RegisterShape ==
  ASSUME RegShape, NEW n \in AllNames, NEW c \in Chromes \cup {Foreign},
         NEW w \in {"persistent", "ephemeral"}, NEW p \in Profiles \cup {NoName},
         Register(n, c, w, p)
  PROVE  RegShape'
BY DEF RegShape, Register, FreshEntries

LEMMA DiesShape ==
  ASSUME NEW c, Dies(c), RegShape, OsShape
  PROVE  /\ session' \in [Entries -> Chromes \cup {NoChrome, Foreign}]
         /\ runs' \in [Chromes -> Profiles \cup {NoName}]
         /\ stray' \subseteq Chromes
BY DEF Dies, RegShape, OsShape

LEMMA TeardownShape ==
  ASSUME NEW c, Teardown(c), RegShape, OsShape
  PROVE  /\ session' \in [Entries -> Chromes \cup {NoChrome, Foreign}]
         /\ runs' \in [Chromes -> Profiles \cup {NoName}]
         /\ stray' \subseteq Chromes
BY DiesShape DEF Teardown, RegShape, OsShape

LEMMA AcquireShape ==
  ASSUME LockShape, TaskShape, NEW t \in Tasks, NEW e \in Entries,
         NEW p \in PCs, NEW q \in PCs, NEW j \in Jobs,
         MatchesStage(p, j), MatchesStage(q, j), AcquireOrQueue(t, e, p, q, j)
  PROVE  LockShape' /\ TaskShape'
<1>1. TaskShape'
  BY StepShape DEF AcquireOrQueue
<1>2. waiters[e] \in Seq(Tasks)
  BY DEF LockShape
<1>3. Append(waiters[e], t) \in Seq(Tasks)
  BY <1>2, AppendProperties
<1>4. LockShape'
  BY <1>3 DEF AcquireOrQueue, LockShape
<1> QED BY <1>1, <1>4

LEMMA MyTurnShape ==
  ASSUME LockShape, NEW t \in Tasks, MyTurn(t), job[t].entry \in Entries
  PROVE  waiters' \in [Entries -> Seq(Tasks)]
<1>1. waiters[job[t].entry] \in Seq(Tasks) /\ waiters[job[t].entry] # <<>>
  BY DEF MyTurn, LockShape
<1>2. Tail(waiters[job[t].entry]) \in Seq(Tasks)
  BY <1>1, HeadTailProperties
<1> QED BY <1>2 DEF MyTurn, LockShape

LEMMA PreEndsShape ==
  ASSUME PoolShape, NEW k \in WarmTasks, PreEnds(k)
  PROVE  /\ warmTask' \in [AllNames -> WarmTasks \cup {NoWarm}]
         /\ pre' \in [WarmTasks -> [st : {"off", "spawn", "up", "discard", "cancelled"},
                                    name : AllNames \cup {NoName}, profile : Profiles \cup {NoName},
                                    chrome : Chromes \cup {NoChrome}]]
         /\ \A i \in WarmTasks : pre'[i].st # "off" => pre'[i].name \in AllNames
         /\ \A n \in AllNames : warmTask'[n] # NoWarm =>
              pre'[warmTask'[n]].st # "off" /\ pre'[warmTask'[n]].name = n
BY DEF PreEnds, PoolShape, OffPre

------------------------------------------------------------------------------
(* Every action keeps the shape.                                             *)

LEMMA TakeWarmShape ==
  ASSUME Shape, NEW t \in Tasks, job[t].name \in AllNames, pc[t] # "idle", TakeWarm(t)
  PROVE  Shape'
<1> USE DEF Shape
<1> DEFINE n == job[t].name
           c == warm[n]
<1>1. job[t] \in Jobs /\ c \in Chromes \cup {NoChrome}
      /\ job[t].want \in {"persistent", "ephemeral"}
      /\ job[t].profile \in Profiles \cup {NoName}
  BY DEF TaskShape, PoolShape, Jobs
<1>2. CASE /\ c # NoChrome /\ runs[c] = job[t].profile
           /\ Register(n, c, job[t].want, job[t].profile)
           /\ warm' = [warm EXCEPT ![n] = NoChrome]
           /\ StartWorks(t)
           /\ dirs' = dirs \cup {job[t].profile}
           /\ UNCHANGED <<lockVars, warmTask, pre, runs, stray>>
  <2>1. RegShape' BY <1>1, <1>2, RegisterShape
  <2>2. TaskShape' /\ MutexShape' BY <1>2, StartWorksShape
  <2>3. PoolShape' BY <1>2 DEF PoolShape
  <2>4. OsShape' BY <1>1, <1>2 DEF OsShape
  <2>5. LockShape' BY <1>2, ShapeUnchanged
  <2> QED BY <2>1, <2>2, <2>3, <2>4, <2>5
<1>3. CASE /\ c # NoChrome
           /\ warm' = [warm EXCEPT ![n] = NoChrome]
           /\ Step(t, "drop", [job[t] EXCEPT !.chrome = c, !.join = NoWarm])
           /\ mutateLock' = t
           /\ dirs' = dirs \cup {job[t].profile}
           /\ UNCHANGED <<regVars, lockVars, warmTask, pre, runs, stray>>
  <2> DEFINE j == [job[t] EXCEPT !.chrome = c, !.join = NoWarm]
  <2>1. j \in Jobs /\ MatchesStage("drop", j) /\ "drop" \in PCs
    BY <1>1 DEF Jobs, MatchesStage, PCs, Creating, Healing
  <2>2. TaskShape' BY <1>3, <2>1, StepShape
  <2>3. PoolShape' BY <1>3 DEF PoolShape
  <2>4. OsShape' BY <1>1, <1>3 DEF OsShape
  <2>5. LockShape' /\ RegShape' BY <1>3, ShapeUnchanged
  <2>6. MutexShape' BY <1>3 DEF MutexShape
  <2> QED BY <2>2, <2>3, <2>4, <2>5, <2>6
<1>4. CASE /\ c = NoChrome
           /\ Step(t, "spawn", [job[t] EXCEPT !.join = NoWarm])
           /\ mutateLock' = t
           /\ dirs' = dirs \cup {job[t].profile}
           /\ UNCHANGED <<regVars, lockVars, poolVars, runs, stray>>
  <2> DEFINE j == [job[t] EXCEPT !.join = NoWarm]
  <2>1. j \in Jobs /\ MatchesStage("spawn", j) /\ "spawn" \in PCs
    BY <1>1 DEF Jobs, MatchesStage, PCs, Creating, Healing
  <2>2. TaskShape' BY <1>4, <2>1, StepShape
  <2>3. LockShape' /\ RegShape' /\ PoolShape' BY <1>4, ShapeUnchanged
  <2>4. OsShape' BY <1>1, <1>4 DEF OsShape
  <2>5. MutexShape' BY <1>4 DEF MutexShape
  <2> QED BY <2>2, <2>3, <2>4, <2>5
<1>5. CASE StartFails(t) /\ UNCHANGED <<regVars, lockVars, poolVars, runs, stray>>
  <2>1. TaskShape' /\ MutexShape' /\ dirs' \subseteq Profiles \cup {NoName}
    BY <1>5, StartFailsShape
  <2>2. LockShape' /\ RegShape' /\ PoolShape' BY <1>5, ShapeUnchanged
  <2>3. OsShape' BY <1>5, <2>1 DEF OsShape
  <2> QED BY <2>1, <2>2, <2>3
<1> QED BY <1>2, <1>3, <1>4, <1>5 DEF TakeWarm

LEMMA CreateShape ==
  ASSUME Shape, NEW t \in Tasks, job[t].name \in AllNames, pc[t] # "idle", Create(t)
  PROVE  Shape'
<1> USE DEF Shape
<1> DEFINE n == job[t].name
<1>1. job[t] \in Jobs /\ warmTask[n] \in WarmTasks \cup {NoWarm}
     /\ job[t].profile \in Profiles \cup {NoName}
  BY DEF TaskShape, PoolShape, Jobs
<1>2. CASE StartFails(t) /\ UNCHANGED <<regVars, lockVars, poolVars, runs, stray>>
  <2>1. TaskShape' /\ MutexShape' /\ dirs' \subseteq Profiles \cup {NoName}
    BY <1>2, StartFailsShape
  <2>2. LockShape' /\ RegShape' /\ PoolShape' BY <1>2, ShapeUnchanged
  <2>3. OsShape' BY <1>2, <2>1 DEF OsShape
  <2> QED BY <2>1, <2>2, <2>3
<1>3. CASE /\ Step(t, "laneQueue", job[t])
           /\ dirs' = dirs \cup {job[t].profile}
           /\ UNCHANGED mutateLock
           /\ UNCHANGED <<regVars, lockVars, poolVars, runs, stray>>
  <2>1. MatchesStage("laneQueue", job[t]) /\ "laneQueue" \in PCs
    BY DEF MatchesStage, PCs, Healing
  <2>2. TaskShape' BY <1>1, <1>3, <2>1, StepShape
  <2>3. LockShape' /\ RegShape' /\ PoolShape' /\ MutexShape' BY <1>3, ShapeUnchanged
  <2>4. OsShape' BY <1>1, <1>3 DEF OsShape
  <2> QED BY <2>2, <2>3, <2>4
<1>4. CASE /\ warmTask[n] # NoWarm
           /\ warmTask' = [warmTask EXCEPT ![n] = NoWarm]
           /\ Step(t, "join", [job[t] EXCEPT !.join = warmTask[n]])
           /\ mutateLock' = t
           /\ dirs' = dirs \cup {job[t].profile}
           /\ UNCHANGED <<regVars, lockVars, warm, pre, runs, stray>>
  <2> DEFINE j == [job[t] EXCEPT !.join = warmTask[n]]
  <2>1. j \in Jobs /\ MatchesStage("join", j) /\ "join" \in PCs
    BY <1>1 DEF Jobs, MatchesStage, PCs, Creating, Healing
  <2>2. TaskShape' BY <1>4, <2>1, StepShape
  <2>3. PoolShape' BY <1>4 DEF PoolShape
  <2>4. OsShape' BY <1>1, <1>4 DEF OsShape
  <2>5. LockShape' /\ RegShape' BY <1>4, ShapeUnchanged
  <2>6. MutexShape' BY <1>4 DEF MutexShape
  <2> QED BY <2>2, <2>3, <2>4, <2>5, <2>6
<1>5. CASE TakeWarm(t)
  BY <1>5, TakeWarmShape
<1> QED BY <1>2, <1>3, <1>4, <1>5 DEF Create

LEMMA RegistryVerbShape == ASSUME Shape, NEW t \in Tasks, RegistryVerb(t) PROVE Shape'
<1> USE DEF Shape
<1>1. RegShape' /\ LockShape' /\ PoolShape' /\ OsShape' /\ MutexShape'
  BY ShapeUnchanged DEF RegistryVerb
<1>2. PICK n \in Names, want \in {"persistent", "ephemeral"}, verb \in Waiting \ {"goWait"} :
       \E p \in MayRunOn(n) :
         /\ want = "ephemeral" \/ p # n => verb = "startWait"
         /\ Step(t, verb, [About(n, p) EXCEPT !.want = want])
  BY DEF RegistryVerb
<1>6. PICK p \in MayRunOn(n) :
       /\ want = "ephemeral" \/ p # n => verb = "startWait"
       /\ Step(t, verb, [About(n, p) EXCEPT !.want = want])
  BY <1>2
<1> DEFINE j == [About(n, p) EXCEPT !.want = want]
<1>3. j \in Jobs
  BY NamesAreProfiles DEF NoJob, About, Jobs, AllNames
<1>4. verb \in PCs /\ MatchesStage(verb, j)
  BY <1>6, <1>3 DEF MatchesStage, PCs, Waiting, Creating, Closing, Healing, NoJob, About, AllNames
<1>5. TaskShape'
  BY <1>6, <1>3, <1>4, StepShape
<1> QED BY <1>1, <1>5

LEMMA GoUnstartedShape == ASSUME Shape, NEW t \in Tasks, GoUnstarted(t) PROVE Shape'
<1> USE DEF Shape
<1>1. RegShape' /\ LockShape' /\ PoolShape' /\ OsShape' /\ MutexShape'
  BY ShapeUnchanged DEF GoUnstarted
<1>2. PICK n \in Names : Step(t, "goWait", About(n, n))
  BY DEF GoUnstarted
<1> DEFINE j == About(n, n)
<1>3. j \in Jobs
  BY NamesAreProfiles DEF NoJob, About, Jobs, AllNames
<1>4. "goWait" \in PCs /\ MatchesStage("goWait", j)
  BY <1>2, <1>3 DEF MatchesStage, PCs, Waiting, Creating, Closing, Healing, NoJob, About, AllNames
<1>5. TaskShape'
  BY <1>2, <1>3, <1>4, StepShape
<1> QED BY <1>1, <1>5

LEMMA ExploreShape == ASSUME Shape, NEW t \in Tasks, Explore(t) PROVE Shape'
<1> USE DEF Shape
<1>1. RegShape' /\ LockShape' /\ PoolShape' /\ OsShape' /\ MutexShape'
  BY ShapeUnchanged DEF Explore
<1>2. PICK n \in MintedNames : Step(t, "laneQueue", [About(n, n) EXCEPT !.want = "ephemeral"])
  BY DEF Explore
<1> DEFINE j == [About(n, n) EXCEPT !.want = "ephemeral"]
<1>3. j \in Jobs
  BY NamesAreProfiles DEF NoJob, About, Jobs, AllNames
<1>4. "laneQueue" \in PCs /\ MatchesStage("laneQueue", j)
  BY <1>2, <1>3 DEF MatchesStage, PCs, Waiting, Creating, Closing, Healing, NoJob, About, AllNames
<1>5. TaskShape'
  BY <1>2, <1>3, <1>4, StepShape
<1> QED BY <1>1, <1>5

LEMMA LaneTryShape == ASSUME Shape, NEW t \in Tasks, LaneTry(t) PROVE Shape'
<1> USE DEF Shape
<1>1. /\ job[t] \in Jobs /\ MatchesStage(pc[t], job[t])
  BY DEF TaskShape
<1>2. job[t].name \in AllNames /\ pc[t] # "idle"
  BY <1>1 DEF LaneTry, MatchesStage
<1>3. "startWait" \in PCs /\ MatchesStage("startWait", job[t])
  BY <1>2 DEF MatchesStage, PCs, Waiting, Healing
<1>4. TaskShape'
  BY <1>1, <1>3, StepShape DEF LaneTry
<1>5. RegShape' /\ LockShape' /\ PoolShape' /\ OsShape' /\ MutexShape'
  BY ShapeUnchanged DEF LaneTry
<1> QED BY <1>4, <1>5

LEMMA StartLockedShape == ASSUME Shape, NEW t \in Tasks, StartLocked(t) PROVE Shape'
<1> USE DEF Shape
<1>1. /\ job[t] \in Jobs /\ MatchesStage(pc[t], job[t])
  BY DEF TaskShape
<1>2. job[t].name \in AllNames /\ pc[t] # "idle"
  BY <1>1 DEF StartLocked, MatchesStage
<1>3. CASE Create(t)
  BY <1>2, <1>3, CreateShape
<1>4. CASE /\ Registered(job[t].name)
           /\ Reclassify(t)
           /\ Return(t)
           /\ UNCHANGED <<entries, profile, session, walled, lockVars, poolVars, osVars>>
  <2>1. RegShape'
    BY <1>2, <1>4 DEF RegShape, Reclassify, Registered
  <2>2. TaskShape' /\ MutexShape'
    BY <1>4, ReturnShape
  <2>3. LockShape' /\ PoolShape' /\ OsShape'
    BY <1>4, ShapeUnchanged
  <2> QED BY <2>1, <2>2, <2>3
<1> QED BY <1>3, <1>4 DEF StartLocked

LEMMA GoLockedShape == ASSUME Shape, NEW t \in Tasks, GoLocked(t) PROVE Shape'
<1> USE DEF Shape
<1>1. /\ job[t] \in Jobs /\ MatchesStage(pc[t], job[t])
  BY DEF TaskShape
<1>2. job[t].name \in AllNames /\ pc[t] # "idle"
  BY <1>1 DEF GoLocked, MatchesStage
<1>3. CASE Create(t)
  BY <1>2, <1>3, CreateShape
<1>4. CASE StartWorks(t) /\ UNCHANGED <<regVars, lockVars, poolVars, osVars>>
  <2>1. TaskShape' /\ MutexShape'
    BY <1>2, <1>4, StartWorksShape
  <2>2. RegShape' /\ LockShape' /\ PoolShape' /\ OsShape'
    BY <1>4, ShapeUnchanged
  <2> QED BY <2>1, <2>2
<1> QED BY <1>3, <1>4 DEF GoLocked

LEMMA JoinDoneShape == ASSUME Shape, NEW t \in Tasks, JoinDone(t) PROVE Shape'
<1> USE DEF Shape
<1>1. /\ job[t] \in Jobs /\ MatchesStage(pc[t], job[t])
  BY DEF TaskShape
<1>2. job[t].name \in AllNames /\ pc[t] # "idle"
  BY <1>1 DEF JoinDone, MatchesStage
<1> QED BY <1>2, TakeWarmShape DEF JoinDone

LEMMA DropDoneShape == ASSUME Shape, NEW t \in Tasks, DropDone(t) PROVE Shape'
<1> USE DEF Shape
<1>1. /\ job[t] \in Jobs /\ MatchesStage(pc[t], job[t])
  BY DEF TaskShape
<1>2. job[t].name \in AllNames /\ pc[t] # "idle"
  BY <1>1 DEF DropDone, MatchesStage
<1> DEFINE j == [job[t] EXCEPT !.chrome = NoChrome]
<1>3. j \in Jobs /\ "spawn" \in PCs /\ MatchesStage("spawn", j)
  BY <1>1, <1>2 DEF Jobs, MatchesStage, PCs, Creating, Healing
<1>4. TaskShape'
  BY <1>3, StepShape DEF DropDone
<1>5. RegShape' /\ OsShape'
  BY TeardownShape DEF DropDone, RegShape, OsShape
<1>6. LockShape' /\ PoolShape' /\ MutexShape'
  BY ShapeUnchanged DEF DropDone
<1> QED BY <1>4, <1>5, <1>6

LEMMA CreateSpawnShape == ASSUME Shape, NEW t \in Tasks, CreateSpawn(t) PROVE Shape'
<1> USE DEF Shape
<1>1. /\ job[t] \in Jobs /\ MatchesStage(pc[t], job[t])
  BY DEF TaskShape
<1>2. job[t].name \in AllNames /\ pc[t] # "idle"
  BY <1>1 DEF CreateSpawn, MatchesStage
<1>3. RegShape' /\ LockShape' /\ PoolShape'
  BY ShapeUnchanged DEF CreateSpawn
<1>4. ASSUME NEW c \in FreshChromes, runs' = [runs EXCEPT ![c] = job[t].profile],
             Step(t, "up", [job[t] EXCEPT !.chrome = c]),
             dirs' = dirs \cup {job[t].profile}, UNCHANGED <<mutateLock, stray>>
      PROVE  Shape'
  <2> DEFINE j == [job[t] EXCEPT !.chrome = c]
  <2>1. c \in Chromes BY DEF FreshChromes
  <2>2. j \in Jobs /\ "up" \in PCs /\ MatchesStage("up", j)
    BY <1>1, <1>2, <2>1 DEF Jobs, MatchesStage, PCs, Creating, Healing
  <2>3. TaskShape' BY <1>4, <2>2, StepShape
  <2>4. OsShape' BY <1>1, <1>4, <2>1 DEF OsShape, Jobs
  <2>5. MutexShape' BY <1>4, ShapeUnchanged
  <2> QED BY <1>3, <2>3, <2>4, <2>5
<1>5. CASE StartFails(t) /\ UNCHANGED <<runs, stray>>
  <2>1. TaskShape' /\ MutexShape' /\ dirs' \subseteq Profiles \cup {NoName}
    BY <1>2, <1>5, StartFailsShape
  <2>2. OsShape' BY <1>5, <2>1 DEF OsShape
  <2> QED BY <1>3, <2>1, <2>2
<1> QED BY <1>4, <1>5 DEF CreateSpawn

LEMMA CreateUpShape == ASSUME Shape, NEW t \in Tasks, CreateUp(t) PROVE Shape'
<1> USE DEF Shape
<1>1. /\ job[t] \in Jobs /\ MatchesStage(pc[t], job[t])
  BY DEF TaskShape
<1>2. job[t].name \in AllNames /\ pc[t] # "idle"
  BY <1>1 DEF CreateUp, MatchesStage
<1>3. LockShape' /\ PoolShape'
  BY ShapeUnchanged DEF CreateUp
<1>4. CASE Dies(job[t].chrome) /\ StartFails(t) /\ UNCHANGED <<entries, budget, profile, walled>>
  <2>1. TaskShape' /\ MutexShape' /\ dirs' \subseteq Profiles \cup {NoName}
    BY <1>2, <1>4, StartFailsShape
  <2>2. RegShape' /\ OsShape'
    BY <1>4, <2>1, DiesShape DEF RegShape, OsShape
  <2> QED BY <1>3, <2>1, <2>2
<1>5. CASE /\ Register(job[t].name, job[t].chrome, job[t].want, job[t].profile)
           /\ StartWorks(t)
           /\ UNCHANGED osVars
  <2>1. RegShape'
    BY <1>1, <1>2, <1>5 DEF RegShape, Register, FreshEntries, Jobs
  <2>2. TaskShape' /\ MutexShape'
    BY <1>2, <1>5, StartWorksShape
  <2>3. OsShape' BY <1>5, ShapeUnchanged
  <2> QED BY <1>3, <2>1, <2>2, <2>3
<1> QED BY <1>4, <1>5 DEF CreateUp

LEMMA AttachLockedShape == ASSUME Shape, NEW t \in Tasks, AttachLocked(t) PROVE Shape'
<1> USE DEF Shape
<1>1. /\ job[t] \in Jobs /\ MatchesStage(pc[t], job[t])
  BY DEF TaskShape
<1>2. job[t].name \in AllNames /\ job[t].want = "persistent"
  BY <1>1 DEF AttachLocked, MatchesStage
<1>3. RegShape' /\ LockShape' /\ PoolShape' /\ OsShape'
  BY ShapeUnchanged DEF AttachLocked
<1>4. "attach" \in PCs /\ MatchesStage("attach", job[t])
  BY <1>2 DEF MatchesStage, PCs, Healing
<1>5. TaskShape' /\ MutexShape'
  BY <1>1, <1>4, StepShape, ReturnShape DEF AttachLocked, MutexShape
<1> QED BY <1>3, <1>5

LEMMA AttachDoneShape == ASSUME Shape, NEW t \in Tasks, AttachDone(t) PROVE Shape'
<1> USE DEF Shape
<1>1. /\ job[t] \in Jobs /\ MatchesStage(pc[t], job[t])
  BY DEF TaskShape
<1>2. job[t].name \in AllNames /\ pc[t] # "idle"
  BY <1>1 DEF AttachDone, MatchesStage
<1>3. TaskShape' /\ MutexShape'
  BY ReturnShape DEF AttachDone
<1>4. RegShape'
  BY <1>2, NamesAreProfiles, RegisterShape, ShapeUnchanged DEF AttachDone
<1>5. OsShape'
  BY <1>2, NamesAreProfiles DEF AttachDone, OsShape
<1>6. LockShape' /\ PoolShape'
  BY ShapeUnchanged DEF AttachDone
<1> QED BY <1>3, <1>4, <1>5, <1>6

LEMMA ScheduleShape ==
  ASSUME PoolShape, NEW n \in AllNames, NEW p \in Profiles \cup {NoName}, Schedule(n, p)
  PROVE  PoolShape'
<1>1. CASE UNCHANGED poolVars
  BY <1>1, ShapeUnchanged
<1>2. ASSUME NEW k \in FreshWarmTasks, warmTask' = [warmTask EXCEPT ![n] = k],
             pre' = [pre EXCEPT ![k] = [OffPre EXCEPT !.st = "spawn", !.name = n, !.profile = p]],
             UNCHANGED warm
      PROVE  PoolShape'
  BY <1>2 DEF PoolShape, FreshWarmTasks, OffPre
<1> QED BY <1>1, <1>2 DEF Schedule

LEMMA NewLockedShape == ASSUME Shape, NEW t \in Tasks, NewLocked(t) PROVE Shape'
<1> USE DEF Shape
<1>1. /\ job[t] \in Jobs /\ MatchesStage(pc[t], job[t])
  BY DEF TaskShape
<1>2. job[t].name \in AllNames /\ pc[t] # "idle"
  BY <1>1 DEF NewLocked, MatchesStage
<1>3. TaskShape' /\ MutexShape'
  BY ReturnShape DEF NewLocked
<1>4. PoolShape'
  BY <1>2, NamesAreProfiles, ScheduleShape DEF NewLocked
<1>5. OsShape'
  BY <1>2, NamesAreProfiles DEF NewLocked, OsShape
<1>6. RegShape' /\ LockShape'
  BY ShapeUnchanged DEF NewLocked
<1> QED BY <1>3, <1>4, <1>5, <1>6

LEMMA PreSpawnShape == ASSUME Shape, NEW k \in WarmTasks, PreSpawn(k) PROVE Shape'
<1> USE DEF Shape
<1>1. RegShape' /\ LockShape' /\ TaskShape' /\ MutexShape'
  BY ShapeUnchanged DEF PreSpawn
<1>2. pre[k].name \in AllNames /\ pre[k].profile \in Profiles \cup {NoName}
  BY DEF PreSpawn, PoolShape
<1>3. CASE PreEnds(k) /\ UNCHANGED <<runs, dirs>>
  <2>1. PoolShape' BY <1>3, PreEndsShape DEF PreSpawn, PoolShape
  <2>2. OsShape' BY <1>3 DEF PreSpawn, OsShape
  <2> QED BY <1>1, <2>1, <2>2
<1>4. ASSUME NEW c \in FreshChromes, runs' = [runs EXCEPT ![c] = pre[k].profile],
             pre' = [pre EXCEPT ![k].st = "up", ![k].chrome = c],
             dirs' = dirs \cup {pre[k].profile}, UNCHANGED warmTask
      PROVE  Shape'
  <2>1. c \in Chromes BY DEF FreshChromes
  <2>2. OsShape' BY <1>2, <1>4, <2>1 DEF OsShape, PreSpawn
  <2>3. PoolShape' BY ZenonT(40), <1>2, <1>4, <2>1 DEF PoolShape, PreSpawn
  <2> QED BY <1>1, <2>2, <2>3
<1> QED BY <1>3, <1>4 DEF PreSpawn

LEMMA PreUpShape == ASSUME Shape, NEW k \in WarmTasks, PreUp(k) PROVE Shape'
<1> USE DEF Shape
<1>1. LockShape' /\ TaskShape' /\ MutexShape'
  BY ShapeUnchanged DEF PreUp
<1>2. RegShape'
  BY DiesShape DEF PreUp, RegShape
<1>3. OsShape'
  BY DiesShape DEF PreUp, OsShape
<1>4. PoolShape'
  <2>1. CASE PreEnds(k) /\ UNCHANGED warm
    BY <2>1, PreEndsShape DEF PoolShape
  <2>2. CASE PreEnds(k) /\ warm' = [warm EXCEPT ![pre[k].name] = pre[k].chrome]
    BY <2>2, PreEndsShape DEF PoolShape
  <2>3. CASE pre[k].st = "up" /\ pre' = [pre EXCEPT ![k].st = "discard"] /\ UNCHANGED <<warm, warmTask>>
    BY <2>3 DEF PoolShape
  <2> QED BY <2>1, <2>2, <2>3 DEF PreUp
<1> QED BY <1>1, <1>2, <1>3, <1>4

LEMMA PreDiscardShape == ASSUME Shape, NEW k \in WarmTasks, PreDiscard(k) PROVE Shape'
<1> USE DEF Shape
<1>1. LockShape' /\ TaskShape' /\ MutexShape'
  BY ShapeUnchanged DEF PreDiscard
<1>2. RegShape' /\ OsShape'
  BY TeardownShape DEF PreDiscard, RegShape, OsShape
<1>3. PoolShape'
  BY PreEndsShape DEF PreDiscard, PoolShape
<1> QED BY <1>1, <1>2, <1>3

LEMMA PreCancelledShape == ASSUME Shape, NEW k \in WarmTasks, PreCancelled(k) PROVE Shape'
<1> USE DEF Shape
<1>1. LockShape' /\ TaskShape' /\ MutexShape'
  BY ShapeUnchanged DEF PreCancelled
<1>2. RegShape' /\ OsShape'
  BY TeardownShape DEF PreCancelled, RegShape, OsShape
<1>3. PoolShape'
  BY PreEndsShape DEF PreCancelled, PoolShape
<1> QED BY <1>1, <1>2, <1>3

LEMMA PopShape ==
  ASSUME RegShape, TaskShape, NEW t \in Tasks, NEW n \in AllNames, NEW doing \in Jobs,
         Registered(n), Pop(t, n, doing)
  PROVE  RegShape' /\ TaskShape'
<1> DEFINE j == [doing EXCEPT !.name = n, !.target = entries[n], !.profile = profile[entries[n]]]
<1>1. entries[n] \in Entries /\ profile[entries[n]] \in Profiles \cup {NoName}
  BY DEF RegShape, Registered
<1>2. j \in Jobs /\ "popped" \in PCs /\ MatchesStage("popped", j)
  BY <1>1 DEF Jobs, MatchesStage, PCs, Closing, Healing
<1>3. TaskShape'
  BY <1>2, StepShape DEF Pop
<1>4. RegShape'
  BY DEF Pop, RegShape
<1> QED BY <1>3, <1>4

LEMMA CloseLockedShape == ASSUME Shape, NEW t \in Tasks, CloseLocked(t) PROVE Shape'
<1> USE DEF Shape
<1>1. /\ job[t] \in Jobs /\ MatchesStage(pc[t], job[t])
  BY DEF TaskShape
<1>2. job[t].name \in AllNames /\ pc[t] # "idle"
  BY <1>1 DEF CloseLocked, MatchesStage
<1>3. CASE Registered(job[t].name)
  <2>1. Pop(t, job[t].name, job[t]) /\ mutateLock' = t
    BY <1>3 DEF CloseLocked
  <2>2. RegShape' /\ TaskShape'
    BY <1>1, <1>2, <1>3, <2>1, PopShape
  <2>3. LockShape' /\ PoolShape' /\ OsShape'
    BY <2>1, ShapeUnchanged DEF Pop
  <2>4. MutexShape' BY <2>1 DEF MutexShape
  <2> QED BY <2>2, <2>3, <2>4
<1>4. CASE ~Registered(job[t].name)
  <2>1. TaskShape' /\ MutexShape'
    BY <1>4, ReturnShape DEF CloseLocked
  <2>2. RegShape' /\ LockShape' /\ PoolShape' /\ OsShape'
    BY <1>4, ShapeUnchanged DEF CloseLocked
  <2> QED BY <2>1, <2>2
<1> QED BY <1>3, <1>4

LEMMA PinnedStopShape == ASSUME Shape, NEW t \in Tasks, PinnedStop(t) PROVE Shape'
<1> USE DEF Shape
<1>1. /\ job[t] \in Jobs /\ MatchesStage(pc[t], job[t])
  BY DEF TaskShape
<1>2. PICK n \in Names : Registered(n) /\ Pop(t, n, NoJob)
  BY DEF PinnedStop
<1>3. NoJob \in Jobs /\ n \in AllNames
  BY DEF NoJob, About, Jobs, AllNames
<1>4. RegShape' /\ TaskShape'
  BY <1>2, <1>3, PopShape
<1>5. LockShape' /\ PoolShape' /\ OsShape' /\ MutexShape'
  BY <1>2, ShapeUnchanged DEF Pop, PinnedStop
<1> QED BY <1>4, <1>5

LEMMA LaneDoneShape == ASSUME Shape, NEW t \in Tasks, LaneDone(t) PROVE Shape'
<1> USE DEF Shape
<1>1. /\ job[t] \in Jobs /\ MatchesStage(pc[t], job[t])
  BY DEF TaskShape
<1>2. job[t].name \in AllNames /\ pc[t] # "idle"
  BY <1>1 DEF LaneDone, MatchesStage
<1>3. Registered(job[t].name) /\ Pop(t, job[t].name, job[t])
  BY DEF LaneDone
<1>4. RegShape' /\ TaskShape'
  BY <1>1, <1>2, <1>3, PopShape
<1>5. LockShape' /\ PoolShape' /\ OsShape' /\ MutexShape'
  BY <1>3, ShapeUnchanged DEF Pop, LaneDone
<1> QED BY <1>4, <1>5

LEMMA CloseTeardownShape == ASSUME Shape, NEW t \in Tasks, CloseTeardown(t) PROVE Shape'
<1> USE DEF Shape
<1>1. /\ job[t] \in Jobs /\ MatchesStage(pc[t], job[t])
  BY DEF TaskShape
<1>2. job[t].name \in AllNames /\ pc[t] # "idle"
  BY <1>1 DEF CloseTeardown, MatchesStage
<1>3. job[t].target \in Entries
  BY <1>1 DEF CloseTeardown, MatchesStage
<1> DEFINE c == session[job[t].target]
           j == [job[t] EXCEPT !.chrome = IF c = Foreign THEN NoChrome ELSE c]
<1>4. (IF c = Foreign THEN NoChrome ELSE c) \in Chromes \cup {NoChrome}
  BY <1>3 DEF RegShape
<1>5. j \in Jobs /\ "closing" \in PCs /\ MatchesStage("closing", j)
  BY <1>1, <1>2, <1>3, <1>4 DEF Jobs, MatchesStage, PCs, Closing, Healing
<1>6. TaskShape'
  BY <1>5, StepShape DEF CloseTeardown
<1>7. RegShape' /\ LockShape' /\ PoolShape' /\ OsShape' /\ MutexShape'
  BY ShapeUnchanged DEF CloseTeardown
<1> QED BY <1>6, <1>7

LEMMA RemoveProfileShape ==
  ASSUME TaskShape, MutexShape, OsShape, NEW t \in Tasks, RemoveProfile(t)
  PROVE  TaskShape' /\ MutexShape' /\ dirs' \subseteq Profiles \cup {NoName}
BY ReturnShape DEF RemoveProfile, OsShape

LEMMA BeginCancelShape ==
  ASSUME PoolShape, TaskShape, NEW t \in Tasks, job[t].name \in AllNames, BeginCancel(t)
  PROVE  PoolShape' /\ TaskShape'
<1> DEFINE n == job[t].name
           k == warmTask[n]
<1>1. job[t] \in Jobs /\ warm[n] \in Chromes \cup {NoChrome} /\ k \in WarmTasks \cup {NoWarm}
  BY DEF PoolShape, TaskShape
<1>2. CASE k # NoWarm
  <2> DEFINE j == [job[t] EXCEPT !.join = k, !.chrome = NoChrome]
  <2>1. j \in Jobs /\ "cancel" \in PCs /\ MatchesStage("cancel", j)
    BY <1>1 DEF Jobs, MatchesStage, PCs, Closing, Healing
  <2>2. TaskShape'
    BY <1>2, <2>1, StepShape DEF BeginCancel
  <2>3. k \in WarmTasks /\ pre[k].name \in AllNames
    BY <1>1, <1>2 DEF PoolShape
  <2>4. PoolShape'
    <3>1. /\ pre' = [pre EXCEPT ![k].st = "cancelled"]
          /\ warmTask' = [warmTask EXCEPT ![n] = NoWarm] /\ UNCHANGED warm
      BY <1>2 DEF BeginCancel
    <3>2. pre' \in [WarmTasks -> [st : {"off", "spawn", "up", "discard", "cancelled"},
                                 name : AllNames \cup {NoName}, profile : Profiles \cup {NoName},
                                 chrome : Chromes \cup {NoChrome}]]
      BY <2>3, <3>1 DEF PoolShape
    <3>3. \A i \in WarmTasks :
            /\ pre'[i].name = pre[i].name
            /\ pre'[i].st # "off" => pre[i].st # "off" \/ i = k
            /\ pre[i].st # "off" => pre'[i].st # "off"
      BY <2>3, <3>1 DEF PoolShape
    <3>4. warm' \in [AllNames -> Chromes \cup {NoChrome}]
          /\ warmTask' \in [AllNames -> WarmTasks \cup {NoWarm}]
      BY <3>1 DEF PoolShape
    <3>5. \A i \in WarmTasks : pre'[i].st # "off" => pre'[i].name \in AllNames
      <4>1. \A i \in WarmTasks : i = k => pre'[i].name \in AllNames
        BY <2>3, <3>3
      <4>2. \A i \in WarmTasks : pre[i].st # "off" => pre'[i].name \in AllNames
        BY <3>3 DEF PoolShape
      <4> QED BY <3>3, <4>1, <4>2
    <3>6. \A m \in AllNames : warmTask'[m] # NoWarm =>
            pre'[warmTask'[m]].st # "off" /\ pre'[warmTask'[m]].name = m
      <4> SUFFICES ASSUME NEW m \in AllNames, warmTask'[m] # NoWarm
                   PROVE  pre'[warmTask'[m]].st # "off" /\ pre'[warmTask'[m]].name = m
        OBVIOUS
      <4>1. warmTask'[m] = warmTask[m] /\ warmTask[m] \in WarmTasks
        BY <3>1 DEF PoolShape
      <4>2. pre[warmTask[m]].st # "off" /\ pre[warmTask[m]].name = m
        BY <4>1 DEF PoolShape
      <4> QED BY <3>3, <4>1, <4>2
    <3> QED BY <3>2, <3>4, <3>5, <3>6 DEF PoolShape
  <2> QED BY <2>2, <2>4
<1>3. CASE k = NoWarm
  <2> DEFINE j == [job[t] EXCEPT !.chrome = warm[n]]
  <2>1. j \in Jobs /\ "sweep" \in PCs /\ MatchesStage("sweep", j)
    BY <1>1 DEF Jobs, MatchesStage, PCs, Closing, Healing
  <2>2. TaskShape'
    BY <1>3, <2>1, StepShape DEF BeginCancel
  <2>3. PoolShape'
    BY <1>3 DEF BeginCancel, PoolShape
  <2> QED BY <2>2, <2>3
<1> QED BY <1>2, <1>3

LEMMA CloseDoneShape == ASSUME Shape, NEW t \in Tasks, CloseDone(t) PROVE Shape'
<1> USE DEF Shape
<1>1. /\ job[t] \in Jobs /\ MatchesStage(pc[t], job[t])
  BY DEF TaskShape
<1>2. job[t].name \in AllNames /\ pc[t] # "idle"
  BY <1>1 DEF CloseDone, MatchesStage
<1>8. job[t].profile \in Profiles \cup {NoName}
  BY <1>1 DEF Jobs
<1>3. RegShape' /\ runs' \in [Chromes -> Profiles \cup {NoName}] /\ stray' \subseteq Chromes
  BY TeardownShape DEF CloseDone, RegShape
<1>4. LockShape'
  BY ShapeUnchanged DEF CloseDone
<1>5. CASE BeginCancel(t) /\ UNCHANGED <<mutateLock, dirs>>
  <2>1. PoolShape' /\ TaskShape'
    BY <1>2, <1>5, BeginCancelShape
  <2>2. OsShape' /\ MutexShape'
    BY <1>3, <1>5 DEF OsShape, MutexShape
  <2> QED BY <1>3, <1>4, <2>1, <2>2
<1>6. CASE RemoveProfile(t) /\ UNCHANGED poolVars
  <2>1. TaskShape' /\ MutexShape' /\ dirs' \subseteq Profiles \cup {NoName}
    BY <1>6, RemoveProfileShape
  <2>2. PoolShape' BY <1>6, ShapeUnchanged
  <2>3. OsShape' BY <1>3, <2>1 DEF OsShape
  <2> QED BY <1>3, <1>4, <2>1, <2>2, <2>3
<1>7. CASE /\ Return(t)
           /\ Schedule(job[t].name, job[t].profile) \/ UNCHANGED poolVars
           /\ UNCHANGED dirs
  <2>1. TaskShape' /\ MutexShape'
    BY <1>7, ReturnShape
  <2>2. PoolShape' BY <1>2, <1>8, <1>7, ScheduleShape, ShapeUnchanged
  <2>3. OsShape' BY <1>3, <1>7 DEF OsShape
  <2> QED BY <1>3, <1>4, <2>1, <2>2, <2>3
<1> QED BY <1>5, <1>6, <1>7 DEF CloseDone

LEMMA CancelDoneShape == ASSUME Shape, NEW t \in Tasks, CancelDone(t) PROVE Shape'
<1> USE DEF Shape
<1>1. /\ job[t] \in Jobs /\ MatchesStage(pc[t], job[t])
  BY DEF TaskShape
<1>2. job[t].name \in AllNames /\ pc[t] # "idle"
  BY <1>1 DEF CancelDone, MatchesStage
<1>3. RegShape' /\ LockShape'
  BY ShapeUnchanged DEF CancelDone
<1>4. CASE RemoveProfile(t) /\ UNCHANGED warm
  <2>1. TaskShape' /\ MutexShape' /\ dirs' \subseteq Profiles \cup {NoName}
    BY <1>4, RemoveProfileShape
  <2>2. PoolShape' BY <1>4 DEF CancelDone, PoolShape
  <2>3. OsShape' BY <2>1 DEF CancelDone, OsShape
  <2> QED BY <1>3, <2>1, <2>2, <2>3
<1> DEFINE n == job[t].name
           j == [job[t] EXCEPT !.chrome = warm[n], !.join = NoWarm]
<1>5. CASE /\ warm' = [warm EXCEPT ![n] = NoChrome]
           /\ Step(t, "sweep", j)
           /\ UNCHANGED <<mutateLock, dirs>>
  <2>1. warm[n] \in Chromes \cup {NoChrome}
    BY <1>2 DEF PoolShape
  <2>2. j \in Jobs /\ "sweep" \in PCs /\ MatchesStage("sweep", j)
    BY <1>1, <1>2, <2>1 DEF Jobs, MatchesStage, PCs, Closing, Healing
  <2>3. TaskShape' BY <1>5, <2>2, StepShape
  <2>4. PoolShape' BY <1>5 DEF CancelDone, PoolShape
  <2>5. OsShape' BY <1>5 DEF CancelDone, OsShape
  <2>6. MutexShape' BY <1>5 DEF MutexShape
  <2> QED BY <1>3, <2>3, <2>4, <2>5, <2>6
<1> QED BY <1>4, <1>5 DEF CancelDone

LEMMA SweepShape == ASSUME Shape, NEW t \in Tasks, Sweep(t) PROVE Shape'
<1> USE DEF Shape
<1>1. /\ job[t] \in Jobs /\ MatchesStage(pc[t], job[t])
  BY DEF TaskShape
<1>2. RegShape' /\ runs' \in [Chromes -> Profiles \cup {NoName}] /\ stray' \subseteq Chromes
  BY TeardownShape DEF Sweep, RegShape
<1>3. TaskShape' /\ MutexShape' /\ dirs' \subseteq Profiles \cup {NoName}
  BY RemoveProfileShape DEF Sweep
<1>4. OsShape' BY <1>2, <1>3 DEF OsShape
<1>5. LockShape' /\ PoolShape'
  BY ShapeUnchanged DEF Sweep
<1> QED BY <1>2, <1>3, <1>4, <1>5

LEMMA DeleteLockedShape == ASSUME Shape, NEW t \in Tasks, DeleteLocked(t) PROVE Shape'
<1> USE DEF Shape
<1>1. /\ job[t] \in Jobs /\ MatchesStage(pc[t], job[t])
  BY DEF TaskShape
<1>2. job[t].name \in AllNames /\ pc[t] # "idle"
  BY <1>1 DEF DeleteLocked, MatchesStage
<1>3. RegShape' /\ LockShape'
  BY ShapeUnchanged DEF DeleteLocked
<1>4. CASE Return(t) /\ UNCHANGED <<poolVars, dirs>>
  <2>1. TaskShape' /\ MutexShape'
    BY <1>4, ReturnShape
  <2>2. PoolShape' BY <1>4, ShapeUnchanged
  <2>3. OsShape' BY <1>4 DEF DeleteLocked, OsShape
  <2> QED BY <1>3, <2>1, <2>2, <2>3
<1>5. CASE BeginCancel(t) /\ mutateLock' = t /\ UNCHANGED dirs
  <2>1. PoolShape' /\ TaskShape'
    BY <1>2, <1>5, BeginCancelShape
  <2>2. OsShape' /\ MutexShape'
    BY <1>5 DEF DeleteLocked, OsShape, MutexShape
  <2> QED BY <1>3, <2>1, <2>2
<1>6. CASE RemoveProfile(t) /\ UNCHANGED poolVars
  <2>1. TaskShape' /\ MutexShape' /\ dirs' \subseteq Profiles \cup {NoName}
    BY <1>6, RemoveProfileShape
  <2>2. PoolShape' BY <1>6, ShapeUnchanged
  <2>3. OsShape' BY <2>1 DEF DeleteLocked, OsShape
  <2> QED BY <1>3, <2>1, <2>2, <2>3
<1> QED BY <1>4, <1>5, <1>6 DEF DeleteLocked

LEMMA ProbeLockedShape == ASSUME Shape, NEW t \in Tasks, ProbeLocked(t) PROVE Shape'
<1> USE DEF Shape
<1>1. /\ job[t] \in Jobs /\ MatchesStage(pc[t], job[t])
  BY DEF TaskShape
<1>2. job[t].name \in AllNames /\ pc[t] # "idle"
  BY <1>1 DEF ProbeLocked, MatchesStage
<1>3. RegShape' /\ PoolShape'
  BY ShapeUnchanged DEF ProbeLocked
<1> DEFINE e == entries[job[t].name]
           j == [job[t] EXCEPT !.entry = e]
<1>4. CASE Return(t) /\ dirs' = dirs \cup {job[t].name} /\ UNCHANGED lockVars
  <2>1. TaskShape' /\ MutexShape'
    BY <1>4, ReturnShape
  <2>2. OsShape' BY <1>2, <1>4, NamesAreProfiles DEF ProbeLocked, OsShape
  <2>3. LockShape' BY <1>4, ShapeUnchanged
  <2> QED BY <1>3, <2>1, <2>2, <2>3
<1>5. CASE /\ Registered(job[t].name)
           /\ mutateLock' = t
           /\ AcquireOrQueue(t, e, "probe", "probeLock", j)
           /\ UNCHANGED dirs
  <2>1. e \in Entries
    BY <1>2, <1>5 DEF RegShape, Registered
  <2>2. /\ j \in Jobs /\ "probe" \in PCs /\ "probeLock" \in PCs
        /\ MatchesStage("probe", j) /\ MatchesStage("probeLock", j)
    BY <1>1, <1>2, <2>1 DEF Jobs, MatchesStage, PCs, Healing
  <2>3. LockShape' /\ TaskShape'
    BY <1>5, <2>1, <2>2, AcquireShape
  <2>4. OsShape' /\ MutexShape'
    BY <1>5 DEF ProbeLocked, OsShape, MutexShape
  <2> QED BY <1>3, <2>3, <2>4
<1> QED BY <1>4, <1>5 DEF ProbeLocked

LEMMA ProbeRunShape == ASSUME Shape, NEW t \in Tasks, ProbeRun(t) PROVE Shape'
<1> USE DEF Shape
<1>1. /\ job[t] \in Jobs /\ MatchesStage(pc[t], job[t])
  BY DEF TaskShape
<1>2. job[t].name \in AllNames /\ job[t].entry \in Entries
  BY <1>1 DEF ProbeRun, MatchesStage, Healing
<1>3. MatchesStage("probe", job[t]) /\ "probe" \in PCs
  BY <1>2 DEF MatchesStage, PCs, Healing
<1>4. TaskShape'
  BY <1>1, <1>3, StepShape DEF ProbeRun
<1>5. LockShape'
  BY <1>2, MyTurnShape DEF ProbeRun, LockShape
<1>6. RegShape' /\ PoolShape' /\ OsShape' /\ MutexShape'
  BY ShapeUnchanged DEF ProbeRun
<1> QED BY <1>4, <1>5, <1>6

LEMMA ProbeDoneShape == ASSUME Shape, NEW t \in Tasks, ProbeDone(t) PROVE Shape'
<1> USE DEF Shape
<1>1. /\ job[t] \in Jobs /\ MatchesStage(pc[t], job[t])
  BY DEF TaskShape
<1>2. TaskShape' /\ MutexShape' /\ LockShape'
  BY LeaveShape DEF ProbeDone
<1>3. RegShape' /\ PoolShape' /\ OsShape'
  BY ShapeUnchanged DEF ProbeDone
<1> QED BY <1>2, <1>3

LEMMA VerbDoneShape == ASSUME Shape, NEW t \in Tasks, VerbDone(t) PROVE Shape'
<1> USE DEF Shape
<1>1. /\ job[t] \in Jobs /\ MatchesStage(pc[t], job[t])
  BY DEF TaskShape
<1>2. TaskShape' /\ MutexShape' /\ LockShape'
  BY LeaveShape DEF VerbDone
<1>3. RegShape' /\ PoolShape' /\ OsShape'
  BY ShapeUnchanged DEF VerbDone
<1> QED BY <1>2, <1>3

LEMMA VerbArriveShape == ASSUME Shape, NEW t \in Tasks, VerbArrive(t) PROVE Shape'
<1> USE DEF Shape
<1>1. /\ job[t] \in Jobs /\ MatchesStage(pc[t], job[t])
  BY DEF TaskShape
<1>2. PICK n \in Names :
         /\ Registered(n)
         /\ AcquireOrQueue(t, entries[n], "verb", "verbWait",
                           [About(n, n) EXCEPT !.entry = entries[n]])
  BY DEF VerbArrive
<1> DEFINE j == [About(n, n) EXCEPT !.entry = entries[n]]
<1>3. n \in AllNames /\ entries[n] \in Entries
  BY <1>2 DEF AllNames, RegShape, Registered
<1>4. /\ j \in Jobs /\ "verb" \in PCs /\ "verbWait" \in PCs
      /\ MatchesStage("verb", j) /\ MatchesStage("verbWait", j)
  BY <1>3, NamesAreProfiles DEF NoJob, About, Jobs, MatchesStage, PCs, Healing
<1>5. LockShape' /\ TaskShape'
  BY <1>2, <1>3, <1>4, AcquireShape
<1>6. RegShape' /\ PoolShape' /\ OsShape' /\ MutexShape'
  BY ShapeUnchanged DEF VerbArrive
<1> QED BY <1>5, <1>6

LEMMA VerbRunShape == ASSUME Shape, NEW t \in Tasks, VerbRun(t) PROVE Shape'
<1> USE DEF Shape
<1>1. /\ job[t] \in Jobs /\ MatchesStage(pc[t], job[t])
  BY DEF TaskShape
<1>2. job[t].name \in AllNames /\ job[t].entry \in Entries
  BY <1>1 DEF VerbRun, MatchesStage, Healing
<1>3. waiters' \in [Entries -> Seq(Tasks)]
  BY <1>2, MyTurnShape DEF VerbRun
<1>4. RegShape' /\ PoolShape' /\ OsShape'
  BY ShapeUnchanged DEF VerbRun
<1>5. /\ MatchesStage("verb", job[t]) /\ "verb" \in PCs
      /\ MatchesStage("goWait", job[t]) /\ "goWait" \in PCs
  BY <1>2 DEF MatchesStage, PCs, Waiting, Healing
<1>6. LockShape'
  BY <1>2, <1>3 DEF VerbRun, LockShape
<1>7. TaskShape' /\ MutexShape'
  BY <1>1, <1>5, StepShape, ReturnShape, ShapeUnchanged DEF VerbRun
<1> QED BY <1>4, <1>6, <1>7

LEMMA VerbCrashShape == ASSUME Shape, NEW t \in Tasks, VerbCrash(t) PROVE Shape'
<1> USE DEF Shape
<1>1. /\ job[t] \in Jobs /\ MatchesStage(pc[t], job[t])
  BY DEF TaskShape
<1>2. job[t].name \in AllNames /\ job[t].entry \in Entries
  BY <1>1 DEF VerbCrash, MatchesStage, Healing
<1>3. RegShape' /\ PoolShape' /\ OsShape'
  BY ShapeUnchanged DEF VerbCrash
<1>4. CASE Leave(t)
  BY <1>3, <1>4, LeaveShape
<1> DEFINE e == entries[job[t].name]
           j == [job[t] EXCEPT !.target = e, !.chrome = session[e]]
<1>5. CASE /\ Relaunchable(job[t].name)
           /\ Step(t, "healDown", j)
           /\ UNCHANGED <<lockVars, mutateLock>>
  <2>1. e \in Entries
    BY <1>2, <1>5 DEF Relaunchable, Registered, RegShape
  <2>2. session[e] \in Chromes \cup {NoChrome}
    BY <1>5, <2>1 DEF Relaunchable, RegShape
  <2>3. j \in Jobs /\ "healDown" \in PCs /\ MatchesStage("healDown", j)
    BY <1>1, <1>2, <2>1, <2>2 DEF Jobs, MatchesStage, PCs, Healing
  <2>4. TaskShape' BY <1>5, <2>3, StepShape
  <2>5. LockShape' /\ MutexShape' BY <1>5, ShapeUnchanged
  <2> QED BY <1>3, <2>4, <2>5
<1> QED BY <1>4, <1>5 DEF VerbCrash

LEMMA HealDownShape == ASSUME Shape, NEW t \in Tasks, HealDown(t) PROVE Shape'
<1> USE DEF Shape
<1>1. /\ job[t] \in Jobs /\ MatchesStage(pc[t], job[t])
  BY DEF TaskShape
<1>2. job[t].name \in AllNames /\ job[t].entry \in Entries /\ job[t].target \in Entries
  BY <1>1 DEF HealDown, MatchesStage, Healing
<1> DEFINE j == [job[t] EXCEPT !.chrome = NoChrome]
<1>3. j \in Jobs /\ "healSpawn" \in PCs /\ MatchesStage("healSpawn", j)
  BY <1>1, <1>2 DEF Jobs, MatchesStage, PCs, Healing
<1>4. TaskShape' BY <1>3, StepShape DEF HealDown
<1>5. RegShape' /\ OsShape'
  BY TeardownShape DEF HealDown, RegShape, OsShape
<1>6. LockShape' /\ PoolShape' /\ MutexShape'
  BY ShapeUnchanged DEF HealDown
<1> QED BY <1>4, <1>5, <1>6

LEMMA HealSpawnShape == ASSUME Shape, NEW t \in Tasks, HealSpawn(t) PROVE Shape'
<1> USE DEF Shape
<1>1. /\ job[t] \in Jobs /\ MatchesStage(pc[t], job[t])
  BY DEF TaskShape
<1>2. job[t].name \in AllNames /\ job[t].entry \in Entries /\ job[t].target \in Entries
  BY <1>1 DEF HealSpawn, MatchesStage, Healing
<1>6. profile[job[t].target] \in Profiles \cup {NoName}
  BY <1>2 DEF RegShape
<1>3. RegShape' /\ PoolShape'
  BY ShapeUnchanged DEF HealSpawn
<1>4. CASE Leave(t) /\ UNCHANGED <<runs, dirs>>
  <2>1. TaskShape' /\ MutexShape' /\ LockShape'
    BY <1>4, LeaveShape
  <2>2. OsShape' BY <1>4 DEF HealSpawn, OsShape
  <2> QED BY <1>3, <2>1, <2>2
<1>5. ASSUME NEW c \in FreshChromes, runs' = [runs EXCEPT ![c] = profile[job[t].target]],
             Step(t, "healUp", [job[t] EXCEPT !.chrome = c]),
             dirs' = dirs \cup {profile[job[t].target]}, UNCHANGED <<lockVars, mutateLock, stray>>
      PROVE  Shape'
  <2> DEFINE j == [job[t] EXCEPT !.chrome = c]
  <2>1. c \in Chromes BY DEF FreshChromes
  <2>2. j \in Jobs /\ "healUp" \in PCs /\ MatchesStage("healUp", j)
    BY <1>1, <1>2, <2>1 DEF Jobs, MatchesStage, PCs, Healing
  <2>3. TaskShape' BY <1>5, <2>2, StepShape
  <2>4. OsShape' BY <1>6, <1>5, <2>1 DEF OsShape
  <2>5. LockShape' /\ MutexShape' BY <1>5, ShapeUnchanged
  <2> QED BY <1>3, <2>3, <2>4, <2>5
<1> QED BY <1>4, <1>5 DEF HealSpawn

LEMMA AdoptShape ==
  ASSUME RegShape, TaskShape, NEW t \in Tasks, job[t].name \in AllNames,
         job[t].entry \in Entries, job[t].target \in Entries, Adopt(t)
  PROVE  TaskShape' /\ session' \in [Entries -> Chromes \cup {NoChrome, Foreign}]
<1> DEFINE j == [job[t] EXCEPT !.target = NoEntry, !.chrome = NoChrome]
<1>1. job[t] \in Jobs /\ job[t].chrome \in Chromes \cup {NoChrome}
  BY DEF TaskShape, Jobs
<1>2. j \in Jobs /\ "verbLast" \in PCs /\ MatchesStage("verbLast", j)
  BY <1>1 DEF Jobs, MatchesStage, PCs, Healing
<1>3. TaskShape' BY <1>2, StepShape DEF Adopt
<1>4. session' \in [Entries -> Chromes \cup {NoChrome, Foreign}]
  BY <1>1 DEF Adopt, RegShape
<1> QED BY <1>3, <1>4

LEMMA HealUpShape == ASSUME Shape, NEW t \in Tasks, HealUp(t) PROVE Shape'
<1> USE DEF Shape
<1>1. /\ job[t] \in Jobs /\ MatchesStage(pc[t], job[t])
  BY DEF TaskShape
<1>2. job[t].name \in AllNames /\ job[t].entry \in Entries /\ job[t].target \in Entries
  BY <1>1 DEF HealUp, MatchesStage, Healing
<1>3. PoolShape'
  BY ShapeUnchanged DEF HealUp
<1>4. CASE Teardown(job[t].chrome) /\ Leave(t)
  <2>1. RegShape' /\ OsShape'
    BY <1>4, TeardownShape DEF HealUp, RegShape, OsShape
  <2>2. TaskShape' /\ MutexShape' /\ LockShape'
    BY <1>4, LeaveShape
  <2> QED BY <1>3, <2>1, <2>2
<1>5. CASE Adopt(t) /\ UNCHANGED <<lockVars, mutateLock, runs, stray>>
  <2>1. TaskShape' /\ session' \in [Entries -> Chromes \cup {NoChrome, Foreign}]
    BY <1>2, <1>5, AdoptShape
  <2>2. RegShape' BY <2>1 DEF HealUp, RegShape
  <2>3. LockShape' /\ MutexShape' /\ OsShape'
    BY <1>5, ShapeUnchanged DEF HealUp, osVars
  <2> QED BY <1>3, <2>1, <2>2, <2>3
<1>6. ASSUME NEW p \in {"healUndo", "healGuard"}, Step(t, p, job[t]),
             UNCHANGED <<session, lockVars, mutateLock, runs, stray>>
      PROVE  Shape'
  <2>1. p \in PCs /\ MatchesStage(p, job[t])
    BY <1>2 DEF PCs, MatchesStage, Healing
  <2>2. TaskShape' BY <1>1, <1>6, <2>1, StepShape
  <2>3. RegShape' BY <1>6 DEF HealUp, RegShape
  <2>4. LockShape' /\ MutexShape' /\ OsShape'
    BY <1>6, ShapeUnchanged DEF HealUp, osVars
  <2> QED BY <1>3, <2>2, <2>3, <2>4
<1> QED BY <1>4, <1>5, <1>6 DEF HealUp

LEMMA HealUndoShape == ASSUME Shape, NEW t \in Tasks, HealUndo(t) PROVE Shape'
<1> USE DEF Shape
<1>1. /\ job[t] \in Jobs /\ MatchesStage(pc[t], job[t])
  BY DEF TaskShape
<1>2. PoolShape'
  BY ShapeUnchanged DEF HealUndo
<1>3. RegShape' /\ OsShape'
  BY TeardownShape DEF HealUndo, RegShape, OsShape
<1>4. TaskShape' /\ MutexShape' /\ LockShape'
  BY LeaveShape DEF HealUndo
<1> QED BY <1>2, <1>3, <1>4

LEMMA HealGuardShape == ASSUME Shape, NEW t \in Tasks, HealGuard(t) PROVE Shape'
<1> USE DEF Shape
<1>1. /\ job[t] \in Jobs /\ MatchesStage(pc[t], job[t])
  BY DEF TaskShape
<1>2. job[t].name \in AllNames /\ job[t].entry \in Entries /\ job[t].target \in Entries
  BY <1>1 DEF HealGuard, MatchesStage, Healing
<1>3. PoolShape' /\ OsShape'
  BY ShapeUnchanged DEF HealGuard
<1>4. CASE Leave(t) /\ UNCHANGED <<session, walled>>
  <2>1. TaskShape' /\ MutexShape' /\ LockShape'
    BY <1>4, LeaveShape
  <2>2. RegShape' BY <1>4 DEF HealGuard, RegShape
  <2> QED BY <1>3, <2>1, <2>2
<1>5. CASE /\ Adopt(t)
           /\ walled' = walled \cup {job[t].target}
           /\ UNCHANGED <<lockVars, mutateLock>>
  <2>1. TaskShape' /\ session' \in [Entries -> Chromes \cup {NoChrome, Foreign}]
    BY <1>2, <1>5, AdoptShape
  <2>2. RegShape' BY <1>2, <1>5, <2>1 DEF HealGuard, RegShape
  <2>3. LockShape' /\ MutexShape' BY <1>5, ShapeUnchanged
  <2> QED BY <1>3, <2>1, <2>2, <2>3
<1> QED BY <1>4, <1>5 DEF HealGuard

LEMMA GoalPinShape == ASSUME Shape, NEW n \in Names, GoalPin(n) PROVE Shape'
<1> USE DEF Shape
<1>1. LockShape' /\ PoolShape' /\ OsShape' /\ TaskShape' /\ MutexShape'
  BY ShapeUnchanged DEF GoalPin
<1>2. entries[n] \in Entries
  BY DEF GoalPin, Registered, RegShape, AllNames
<1>3. RegShape'
  BY <1>2 DEF GoalPin, RegShape
<1> QED BY <1>1, <1>3

------------------------------------------------------------------------------
(* What a step does to the registry, to mutate_lock and to its request.      *)

CreatorStages == Creating \cup {"attach"}

Rest == EntriesKeepName /\ OneCreator /\ CreatorHasRoom /\ BudgetsRespected

CanCreate(t) ==
  mutateLock \in {t, NoTask} /\ ~Registered(job[t].name) /\ HasRoom(job[t].want)

OthersKept(t) ==
  /\ \A u \in Tasks \ {t} : pc'[u] = pc[u] /\ job'[u] = job[u]
  /\ mutateLock' = mutateLock \/ {mutateLock, mutateLock'} \subseteq {t, NoTask}
  /\ job'[t].entry # NoEntry =>
       \/ job'[t].entry = job[t].entry /\ job'[t].name = job[t].name
       \/ job'[t].name \in AllNames /\ entries[job'[t].name] = job'[t].entry

\* The registry stays; the request may begin or go on creating a session.
Quiet(t) ==
  /\ OthersKept(t)
  /\ UNCHANGED <<entries, budget>>
  /\ pc'[t] \in CreatorStages =>
       /\ CanCreate(t) /\ mutateLock' = t
       /\ job'[t].name = job[t].name /\ job'[t].want = job[t].want

Registers(t) ==
  /\ OthersKept(t)
  /\ job[t].name \in AllNames
  /\ CanCreate(t)
  /\ \E c \in Chromes \cup {NoChrome, Foreign}, p \in Profiles \cup {NoName} :
       Register(job[t].name, c, job[t].want, p)
  /\ pc'[t] \notin CreatorStages

Unregisters(t) ==
  /\ OthersKept(t)
  /\ \E n \in AllNames : entries' = [entries EXCEPT ![n] = NoEntry]
  /\ UNCHANGED budget
  /\ pc'[t] \notin CreatorStages

Charges(t) ==
  /\ OthersKept(t)
  /\ mutateLock = NoTask
  /\ UNCHANGED entries
  /\ CountEphemeral < MaxEphemeral
  /\ \E n \in AllNames :
       /\ Registered(n)
       /\ budget' = [budget EXCEPT ![entries[n]] = "ephemeral"]
  /\ pc'[t] \notin CreatorStages

Promotes ==
  /\ UNCHANGED <<entries, pc, job, mutateLock>>
  /\ \E n \in AllNames :
       /\ Registered(n)
       /\ budget' = IF budget[entries[n]] = "ephemeral"
                    THEN [budget EXCEPT ![entries[n]] = "promoted"] ELSE budget

LEMMA BudgetsFinite ==
  ASSUME NEW K
  PROVE  /\ IsFiniteSet(WithBudget(K))
         /\ Cardinality(WithBudget(K)) \in Nat
<1>1. WithBudget(K) \subseteq AllNames BY DEF WithBudget
<1>2. IsFiniteSet(WithBudget(K)) BY <1>1, FiniteNames, FS_Subset
<1> QED BY <1>2, FS_CardinalityType

LEMMA BudgetsFinitePrime ==
  ASSUME NEW K
  PROVE  /\ IsFiniteSet(WithBudget(K)')
         /\ Cardinality(WithBudget(K)') \in Nat
<1>1. WithBudget(K)' \subseteq AllNames BY DEF WithBudget
<1>2. IsFiniteSet(WithBudget(K)') BY <1>1, FiniteNames, FS_Subset
<1> QED BY <1>2, FS_CardinalityType

\* A budget that loses names does not grow; one that gains a name grows by one.
LEMMA BudgetShrinks ==
  ASSUME NEW K, WithBudget(K)' \subseteq WithBudget(K)
  PROVE  Cardinality(WithBudget(K)') <= Cardinality(WithBudget(K))
BY BudgetsFinite, FS_Subset

LEMMA BudgetGrowsByOne ==
  ASSUME NEW K, NEW n, WithBudget(K)' \subseteq WithBudget(K) \cup {n}
  PROVE  Cardinality(WithBudget(K)') <= Cardinality(WithBudget(K)) + 1
<1>1. IsFiniteSet(WithBudget(K)) /\ Cardinality(WithBudget(K)) \in Nat
  BY BudgetsFinite
<1>2. IsFiniteSet(WithBudget(K) \cup {n})
      /\ Cardinality(WithBudget(K) \cup {n}) <= Cardinality(WithBudget(K)) + 1
  BY <1>1, FS_AddElement
<1>3. Cardinality(WithBudget(K)') <= Cardinality(WithBudget(K) \cup {n})
  BY <1>2, FS_Subset
<1>4. Cardinality(WithBudget(K)') \in Nat /\ Cardinality(WithBudget(K) \cup {n}) \in Nat
  BY <1>2, BudgetsFinitePrime, FS_CardinalityType
<1> QED BY <1>1, <1>2, <1>3, <1>4

\* The budgets only shrink: what had room still has.
LEMMA RoomKept ==
  ASSUME BudgetsRespected, CreatorHasRoom,
         WithBudget({"persistent"})' \subseteq WithBudget({"persistent"}),
         WithBudget({"ephemeral"})' \subseteq WithBudget({"ephemeral"})
  PROVE  /\ BudgetsRespected'
         /\ \A w : HasRoom(w) => HasRoom(w)'
<1>1. /\ Cardinality(WithBudget({"persistent"})') <= Cardinality(WithBudget({"persistent"}))
      /\ Cardinality(WithBudget({"ephemeral"})') <= Cardinality(WithBudget({"ephemeral"}))
  BY BudgetShrinks
<1>2. /\ Cardinality(WithBudget({"persistent"})) \in Nat
      /\ Cardinality(WithBudget({"ephemeral"})) \in Nat
      /\ Cardinality(WithBudget({"persistent"})') \in Nat
      /\ Cardinality(WithBudget({"ephemeral"})') \in Nat
  BY BudgetsFinite, BudgetsFinitePrime
<1> QED BY <1>1, <1>2, CapsAreNat DEF BudgetsRespected, HasRoom, CountEphemeral

LEMMA QuietKeeps ==
  ASSUME Shape, Rest, NEW t \in Tasks, Quiet(t)
  PROVE  Rest'
<1>1. EntriesKeepName'
  BY DEF Rest, Quiet, OthersKept, EntriesKeepName, Registered, Shape, TaskShape, Jobs
<1>2. OneCreator'
  BY AbsentValues DEF Rest, Quiet, OthersKept, OneCreator, CanCreate, CreatorStages, Registered
<1>3. BudgetsRespected' /\ \A w : HasRoom(w) => HasRoom(w)'
  <2>1. \A K : WithBudget(K)' = WithBudget(K)
    BY DEF Quiet, WithBudget, Registered
  <2> QED BY <2>1, RoomKept DEF Rest
<1>4. CreatorHasRoom'
  BY <1>3 DEF Rest, Quiet, OthersKept, CreatorHasRoom, CanCreate, CreatorStages
<1> QED BY <1>1, <1>2, <1>3, <1>4 DEF Rest

LEMMA UnregistersKeeps ==
  ASSUME Shape, Rest, NEW t \in Tasks, Unregisters(t)
  PROVE  Rest'
<1>1. PICK n \in AllNames : entries' = [entries EXCEPT ![n] = NoEntry]
  BY DEF Unregisters
<1>2. \A m \in AllNames : entries'[m] \in {entries[m], NoEntry}
  BY <1>1 DEF Shape, RegShape
<1>3. EntriesKeepName'
  BY <1>2 DEF Rest, Unregisters, OthersKept, EntriesKeepName, Registered
<1>4. OneCreator'
  BY <1>2, AbsentValues DEF Rest, Unregisters, OthersKept, OneCreator, CreatorStages,
     Registered, Shape, TaskShape, MatchesStage, Creating
<1>5. BudgetsRespected' /\ \A w : HasRoom(w) => HasRoom(w)'
  <2>1. \A K : WithBudget(K)' \subseteq WithBudget(K)
    BY <1>2 DEF Unregisters, WithBudget, Registered
  <2> QED BY <2>1, RoomKept DEF Rest
<1>6. CreatorHasRoom'
  BY <1>5 DEF Rest, Unregisters, OthersKept, CreatorHasRoom, CreatorStages
<1> QED BY <1>3, <1>4, <1>5, <1>6 DEF Rest

LEMMA PromotesKeeps ==
  ASSUME Shape, Rest, Promotes
  PROVE  Rest'
<1>1. PICK n \in AllNames :
        /\ Registered(n)
        /\ budget' = IF budget[entries[n]] = "ephemeral"
                     THEN [budget EXCEPT ![entries[n]] = "promoted"] ELSE budget
  BY DEF Promotes
<1>2. EntriesKeepName' /\ OneCreator'
  BY DEF Rest, Promotes, EntriesKeepName, OneCreator, Registered
<1>3. BudgetsRespected' /\ \A w : HasRoom(w) => HasRoom(w)'
  <2>1. \A m \in AllNames : Registered(m) => entries[m] \in Entries
    BY DEF Registered, Shape, RegShape
  <2>2. WithBudget({"persistent"})' \subseteq WithBudget({"persistent"})
    BY <1>1, <2>1 DEF Promotes, WithBudget, Registered, Shape, RegShape
  <2>3. WithBudget({"ephemeral"})' \subseteq WithBudget({"ephemeral"})
    BY <1>1, <2>1 DEF Promotes, WithBudget, Registered, Shape, RegShape
  <2> QED BY <2>2, <2>3, RoomKept DEF Rest
<1>4. CreatorHasRoom'
  BY <1>3 DEF Rest, Promotes, CreatorHasRoom
<1> QED BY <1>2, <1>3, <1>4 DEF Rest

LEMMA ChargesKeeps ==
  ASSUME Shape, Rest, NEW t \in Tasks, Charges(t)
  PROVE  Rest'
<1>1. PICK n \in AllNames :
        Registered(n) /\ budget' = [budget EXCEPT ![entries[n]] = "ephemeral"]
  BY DEF Charges
<1>2. EntriesKeepName'
  BY DEF Rest, Charges, OthersKept, EntriesKeepName, Registered, Shape, TaskShape, Jobs
<1>3. \A u \in Tasks : pc'[u] \notin CreatorStages
  BY AbsentValues DEF Rest, Charges, OthersKept, OneCreator, CreatorStages
<1>4. OneCreator' /\ CreatorHasRoom'
  BY <1>3 DEF OneCreator, CreatorHasRoom, CreatorStages
<1>5. BudgetsRespected'
  <2>1. \A m \in AllNames : Registered(m) => entries[m] \in Entries
    BY DEF Registered, Shape, RegShape
  <2>2. WithBudget({"persistent"})' \subseteq WithBudget({"persistent"})
    BY <1>1, <2>1 DEF Charges, WithBudget, Registered, Shape, RegShape
  <2>3. WithBudget({"ephemeral"})' \subseteq WithBudget({"ephemeral"}) \cup {n}
    BY <1>1, <2>1 DEF Charges, WithBudget, Registered, Shape, RegShape, Rest, EntriesKeepName
  <2>4. /\ Cardinality(WithBudget({"persistent"})') <= Cardinality(WithBudget({"persistent"}))
        /\ Cardinality(WithBudget({"ephemeral"})') <= Cardinality(WithBudget({"ephemeral"})) + 1
    BY <2>2, <2>3, BudgetShrinks, BudgetGrowsByOne
  <2>5. /\ Cardinality(WithBudget({"persistent"})) \in Nat
        /\ Cardinality(WithBudget({"ephemeral"})) \in Nat
        /\ Cardinality(WithBudget({"persistent"})') \in Nat
        /\ Cardinality(WithBudget({"ephemeral"})') \in Nat
    BY BudgetsFinite, BudgetsFinitePrime
  <2> QED BY <2>4, <2>5, CapsAreNat DEF Charges, Rest, BudgetsRespected, CountEphemeral
<1> QED BY <1>2, <1>4, <1>5 DEF Rest

LEMMA RegistersKeeps ==
  ASSUME Shape, Rest, NEW t \in Tasks, Registers(t)
  PROVE  Rest'
<1> DEFINE n == job[t].name
           want == job[t].want
<1>1. PICK e \in FreshEntries :
        entries' = [entries EXCEPT ![n] = e] /\ budget' = [budget EXCEPT ![e] = want]
  BY DEF Registers, Register
<1>2. /\ e \in Entries
      /\ \A m \in AllNames : entries[m] # e
      /\ \A u \in Tasks : job[u].entry # e
      /\ n \in AllNames /\ want \in {"persistent", "ephemeral"}
  BY DEF FreshEntries, Registers, Shape, TaskShape, Jobs
<1>3. /\ entries'[n] = e
      /\ \A m \in AllNames \ {n} : entries'[m] = entries[m]
  BY <1>1, <1>2 DEF Shape, RegShape
<1>4. EntriesKeepName'
  <2>1. \A m, i \in AllNames : Registered(m)' /\ entries'[m] = entries'[i] => m = i
    BY <1>2, <1>3 DEF Rest, EntriesKeepName, Registered
  <2>2. ASSUME NEW u \in Tasks, NEW m \in AllNames, Registered(m)', job'[u].entry = entries'[m]
        PROVE  m = job'[u].name
    <3>1. job'[u].entry # NoEntry
      BY <2>2 DEF Registered
    <3>2. job'[u].entry # e
      BY <1>2, <3>1 DEF Registers, OthersKept
    <3>3. m # n /\ Registered(m) /\ job'[u].entry = entries[m]
      BY <1>3, <2>2, <3>2 DEF Registered
    <3> QED BY <3>1, <3>3 DEF Registers, OthersKept, Rest, EntriesKeepName, Registered
  <2> QED BY <2>1, <2>2 DEF EntriesKeepName
<1>5. \A u \in Tasks : pc'[u] \notin CreatorStages
  BY AbsentValues DEF Rest, Registers, CanCreate, OthersKept, OneCreator, CreatorStages
<1>6. OneCreator' /\ CreatorHasRoom'
  BY <1>5 DEF OneCreator, CreatorHasRoom, CreatorStages
<1>7. BudgetsRespected'
  <2>1. \A m \in AllNames : Registered(m) => entries[m] \in Entries
    BY DEF Registered, Shape, RegShape
  <2>2. \A m \in AllNames \ {n} : Registered(m) => budget'[entries[m]] = budget[entries[m]]
    BY <1>1, <1>2, <2>1 DEF Shape, RegShape
  <2>3. \A K : WithBudget(K)' \subseteq WithBudget(K) \cup {n}
    BY <1>3, <2>2 DEF WithBudget, Registered
  <2>4. budget'[e] = want
    BY <1>1, <1>2 DEF Shape, RegShape
  <2>5. \A K : want \notin K => WithBudget(K)' \subseteq WithBudget(K)
    BY <1>3, <2>2, <2>4 DEF WithBudget, Registered
  <2>6. /\ Cardinality(WithBudget({"persistent"})) \in Nat
        /\ Cardinality(WithBudget({"ephemeral"})) \in Nat
        /\ Cardinality(WithBudget({"persistent"})') \in Nat
        /\ Cardinality(WithBudget({"ephemeral"})') \in Nat
    BY BudgetsFinite, BudgetsFinitePrime
  <2>7. /\ Cardinality(WithBudget({"persistent"})') <= Cardinality(WithBudget({"persistent"})) + 1
        /\ Cardinality(WithBudget({"ephemeral"})') <= Cardinality(WithBudget({"ephemeral"})) + 1
    BY <2>3, BudgetGrowsByOne
  <2>8. CASE want = "persistent"
    <3>1. Cardinality(WithBudget({"ephemeral"})') <= Cardinality(WithBudget({"ephemeral"}))
      BY <2>5, <2>8, BudgetShrinks
    <3> QED BY <2>6, <2>7, <2>8, <3>1, CapsAreNat
            DEF Registers, CanCreate, HasRoom, Rest, BudgetsRespected, CountEphemeral
  <2>9. CASE want = "ephemeral"
    <3>1. Cardinality(WithBudget({"persistent"})') <= Cardinality(WithBudget({"persistent"}))
      BY <2>5, <2>9, BudgetShrinks
    <3> QED BY <2>6, <2>7, <2>9, <3>1, CapsAreNat
            DEF Registers, CanCreate, HasRoom, Rest, BudgetsRespected, CountEphemeral
  <2> QED BY <1>2, <2>8, <2>9
<1> QED BY <1>4, <1>6, <1>7 DEF Rest

------------------------------------------------------------------------------
(* Every action is one of those steps.                                       *)

LEMMA ReturnKeepsOthers ==
  ASSUME Shape, NEW t \in Tasks, Return(t)
  PROVE  OthersKept(t) /\ pc'[t] \notin CreatorStages
BY DEF Shape, TaskShape, Return, OthersKept, CreatorStages, Creating, NoJob, About

LEMMA ContinueKeepsOthers ==
  ASSUME Shape, NEW t \in Tasks, NEW p \in {"laneBody", "verb"}, Continue(t, p)
  PROVE  OthersKept(t) /\ pc'[t] \notin CreatorStages
<1> DEFINE j == [job[t] EXCEPT !.target = NoEntry, !.chrome = NoChrome, !.join = NoWarm]
<1>1. job[t] \in Jobs /\ j.name = job[t].name /\ j.entry = job[t].entry
  BY DEF Shape, TaskShape, Jobs
<1>2. pc' = [pc EXCEPT ![t] = p] /\ job' = [job EXCEPT ![t] = j]
  BY DEF Continue
<1>3. pc'[t] = p /\ job'[t] = j /\ \A u \in Tasks \ {t} : pc'[u] = pc[u] /\ job'[u] = job[u]
  BY <1>2 DEF Shape, TaskShape
<1> QED BY <1>1, <1>3 DEF Continue, OthersKept, CreatorStages, Creating

LEMMA StartEndKeepsOthers ==
  ASSUME Shape, NEW t \in Tasks, StartWorks(t) \/ StartFails(t)
  PROVE  OthersKept(t) /\ pc'[t] \notin CreatorStages
BY ReturnKeepsOthers, ContinueKeepsOthers DEF StartWorks, StartFails

\* A request that moves on under the same name and entry.
LEMMA StepKeepsOthers ==
  ASSUME Shape, NEW t \in Tasks, NEW p, NEW j \in Jobs, Step(t, p, j),
         j.name = job[t].name, j.entry = job[t].entry,
         mutateLock' = mutateLock \/ {mutateLock, mutateLock'} \subseteq {t, NoTask}
  PROVE  OthersKept(t) /\ pc'[t] = p /\ job'[t] = j
BY DEF Shape, TaskShape, Step, OthersKept

\* A request that arrives, or a probe, which takes the entry of its name.
LEMMA StepTakesEntry ==
  ASSUME Shape, NEW t \in Tasks, NEW p, NEW j \in Jobs, Step(t, p, j),
         mutateLock' = mutateLock \/ {mutateLock, mutateLock'} \subseteq {t, NoTask},
         j.entry # NoEntry => j.name \in AllNames /\ entries[j.name] = j.entry
  PROVE  OthersKept(t) /\ pc'[t] = p /\ job'[t] = j
BY DEF Shape, TaskShape, Step, OthersKept

LEMMA TakeWarmEffect ==
  ASSUME Shape, NEW t \in Tasks, job[t].name \in AllNames, CanCreate(t), TakeWarm(t)
  PROVE  Quiet(t) \/ Registers(t)
<1> DEFINE n == job[t].name
           c == warm[n]
<1>1. /\ job[t] \in Jobs /\ c \in Chromes \cup {NoChrome}
      /\ mutateLock \in {t, NoTask}
  BY DEF Shape, TaskShape, PoolShape, CanCreate
<1>2. CASE Register(n, c, job[t].want, job[t].profile) /\ StartWorks(t)
  <2>1. OthersKept(t) /\ pc'[t] \notin CreatorStages BY <1>2, StartEndKeepsOthers
  <2>2. job[t].profile \in Profiles \cup {NoName} BY <1>1 DEF Jobs
  <2> QED BY <1>1, <1>2, <2>1, <2>2 DEF Registers
<1>3. CASE /\ Step(t, "drop", [job[t] EXCEPT !.chrome = c, !.join = NoWarm])
           /\ mutateLock' = t /\ UNCHANGED regVars
  <2> DEFINE j == [job[t] EXCEPT !.chrome = c, !.join = NoWarm]
  <2>1. j \in Jobs /\ j.name = n /\ j.entry = job[t].entry /\ j.want = job[t].want
    BY <1>1 DEF Jobs
  <2>2. OthersKept(t) /\ job'[t] = j
    <3>1. Step(t, "drop", j) /\ {mutateLock, mutateLock'} \subseteq {t, NoTask}
      BY <1>1, <1>3
    <3> HIDE DEF j
    <3> QED BY <2>1, <3>1, StepKeepsOthers
  <2> QED BY <1>3, <2>1, <2>2 DEF Quiet, regVars
<1>4. CASE /\ Step(t, "spawn", [job[t] EXCEPT !.join = NoWarm])
           /\ mutateLock' = t /\ UNCHANGED regVars
  <2> DEFINE j == [job[t] EXCEPT !.join = NoWarm]
  <2>1. j \in Jobs /\ j.name = n /\ j.entry = job[t].entry /\ j.want = job[t].want
    BY <1>1 DEF Jobs
  <2>2. OthersKept(t) /\ job'[t] = j
    BY <1>1, <1>4, <2>1, StepKeepsOthers
  <2> QED BY <1>4, <2>1, <2>2 DEF Quiet, regVars
<1>5. CASE StartFails(t) /\ UNCHANGED regVars
  BY <1>5, StartEndKeepsOthers DEF Quiet, regVars
<1> QED BY <1>2, <1>3, <1>4, <1>5 DEF TakeWarm

\* Below the cap there is room: the persistent budget counts promoted sessions too.
LEMMA BelowCapHasRoom ==
  ASSUME NEW w, ~AtCap(w)
  PROVE  HasRoom(w)
<1>1. WithBudget({"persistent"}) \subseteq WithBudget({"persistent", "promoted"})
  BY DEF WithBudget
<1>2. Cardinality(WithBudget({"persistent"})) <= CountPersistent
  BY <1>1, BudgetsFinite, FS_Subset DEF CountPersistent
<1>3. /\ Cardinality(WithBudget({"persistent"})) \in Nat /\ CountPersistent \in Nat
      /\ CountEphemeral \in Nat
  BY BudgetsFinite DEF CountPersistent, CountEphemeral
<1> QED BY <1>2, <1>3, CapsAreNat DEF AtCap, HasRoom

LEMMA CreateEffect ==
  ASSUME Shape, NEW t \in Tasks, job[t].name \in AllNames, mutateLock = NoTask,
         ~Registered(job[t].name), Create(t)
  PROVE  Quiet(t) \/ Registers(t)
<1> DEFINE n == job[t].name
<1>1. job[t] \in Jobs /\ warmTask[n] \in WarmTasks \cup {NoWarm}
  BY DEF Shape, TaskShape, PoolShape
<1>2. CASE AtCap(job[t].want)
  <2>1. UNCHANGED <<entries, budget>>
    BY <1>2 DEF Create, regVars
  <2>2. CASE StartFails(t)
    BY <2>1, <2>2, StartEndKeepsOthers DEF Quiet
  <2>3. CASE Step(t, "laneQueue", job[t]) /\ UNCHANGED mutateLock
    <3>1. OthersKept(t) /\ pc'[t] = "laneQueue"
      BY <1>1, <2>3, StepKeepsOthers
    <3> QED BY <2>1, <3>1 DEF Quiet, CreatorStages, Creating
  <2> QED BY <1>2, <2>2, <2>3 DEF Create
<1>3. CASE ~AtCap(job[t].want)
  <2>1. CanCreate(t)
    BY <1>3, BelowCapHasRoom DEF CanCreate
  <2>2. CASE TakeWarm(t)
    BY <2>1, <2>2, TakeWarmEffect
  <2>3. CASE /\ Step(t, "join", [job[t] EXCEPT !.join = warmTask[n]])
             /\ mutateLock' = t /\ UNCHANGED regVars
    <3> DEFINE j == [job[t] EXCEPT !.join = warmTask[n]]
    <3>1. j \in Jobs /\ j.name = n /\ j.entry = job[t].entry /\ j.want = job[t].want
      BY <1>1 DEF Jobs
    <3>2. OthersKept(t) /\ job'[t] = j
      <4>1. Step(t, "join", j) /\ {mutateLock, mutateLock'} \subseteq {t, NoTask}
        BY <2>3
      <4> HIDE DEF j
      <4> QED BY <3>1, <4>1, StepKeepsOthers
    <3> QED BY <2>1, <2>3, <3>1, <3>2 DEF Quiet, regVars
  <2> QED BY <1>3, <2>2, <2>3 DEF Create
<1> QED BY <1>2, <1>3

\* A creating request holds mutate_lock, its name is free and it has room.
LEMMA CreatorsCan ==
  ASSUME Rest, NEW t \in Tasks, pc[t] \in CreatorStages
  PROVE  CanCreate(t)
BY DEF Rest, OneCreator, CreatorHasRoom, CanCreate, CreatorStages

LEMMA NewLockedEffect == ASSUME Shape, Rest, NEW t \in Tasks, NewLocked(t) PROVE Quiet(t)
<1>1. job[t] \in Jobs /\ MatchesStage(pc[t], job[t])
  BY DEF Shape, TaskShape
<1>2. UNCHANGED <<entries, budget>>
  BY DEF NewLocked, regVars
<1> QED BY <1>2, ReturnKeepsOthers DEF NewLocked, Quiet

LEMMA ProbeDoneEffect == ASSUME Shape, Rest, NEW t \in Tasks, ProbeDone(t) PROVE Quiet(t)
<1>1. job[t] \in Jobs /\ MatchesStage(pc[t], job[t])
  BY DEF Shape, TaskShape
<1>2. UNCHANGED <<entries, budget>>
  BY DEF ProbeDone, regVars
<1> QED BY <1>2, ReturnKeepsOthers DEF ProbeDone, Quiet, Leave

LEMMA VerbDoneEffect == ASSUME Shape, Rest, NEW t \in Tasks, VerbDone(t) PROVE Quiet(t)
<1>1. job[t] \in Jobs /\ MatchesStage(pc[t], job[t])
  BY DEF Shape, TaskShape
<1>2. UNCHANGED <<entries, budget>>
  BY DEF VerbDone, regVars
<1> QED BY <1>2, ReturnKeepsOthers DEF VerbDone, Quiet, Leave

LEMMA HealUndoEffect == ASSUME Shape, Rest, NEW t \in Tasks, HealUndo(t) PROVE Quiet(t)
<1>1. job[t] \in Jobs /\ MatchesStage(pc[t], job[t])
  BY DEF Shape, TaskShape
<1>2. UNCHANGED <<entries, budget>>
  BY DEF HealUndo, regVars
<1> QED BY <1>2, ReturnKeepsOthers DEF HealUndo, Quiet, Leave

LEMMA SweepEffect == ASSUME Shape, Rest, NEW t \in Tasks, Sweep(t) PROVE Quiet(t)
<1>1. job[t] \in Jobs /\ MatchesStage(pc[t], job[t])
  BY DEF Shape, TaskShape
<1>2. UNCHANGED <<entries, budget>>
  BY DEF Sweep, regVars
<1> QED BY <1>2, ReturnKeepsOthers DEF Sweep, Quiet, RemoveProfile

LEMMA LaneTryEffect == ASSUME Shape, Rest, NEW t \in Tasks, LaneTry(t) PROVE Quiet(t)
<1>1. job[t] \in Jobs /\ MatchesStage(pc[t], job[t])
  BY DEF Shape, TaskShape
<1>2. UNCHANGED <<entries, budget, mutateLock>>
  BY DEF LaneTry, regVars
<1> DEFINE j == job[t]
<1>3. j \in Jobs /\ j.name = job[t].name /\ j.entry = job[t].entry
  BY <1>1 DEF Jobs
<1>4. OthersKept(t) /\ pc'[t] = "startWait"
  BY <1>2, <1>3, StepKeepsOthers DEF LaneTry
<1> QED BY <1>2, <1>4 DEF Quiet, CreatorStages, Creating

LEMMA ProbeRunEffect == ASSUME Shape, Rest, NEW t \in Tasks, ProbeRun(t) PROVE Quiet(t)
<1>1. job[t] \in Jobs /\ MatchesStage(pc[t], job[t])
  BY DEF Shape, TaskShape
<1>2. UNCHANGED <<entries, budget, mutateLock>>
  BY DEF ProbeRun, regVars
<1> DEFINE j == job[t]
<1>3. j \in Jobs /\ j.name = job[t].name /\ j.entry = job[t].entry
  BY <1>1 DEF Jobs
<1>4. OthersKept(t) /\ pc'[t] = "probe"
  BY <1>2, <1>3, StepKeepsOthers DEF ProbeRun
<1> QED BY <1>2, <1>4 DEF Quiet, CreatorStages, Creating

LEMMA HealDownEffect == ASSUME Shape, Rest, NEW t \in Tasks, HealDown(t) PROVE Quiet(t)
<1>1. job[t] \in Jobs /\ MatchesStage(pc[t], job[t])
  BY DEF Shape, TaskShape
<1>2. UNCHANGED <<entries, budget, mutateLock>>
  BY DEF HealDown, regVars
<1> DEFINE j == [job[t] EXCEPT !.chrome = NoChrome]
<1>3. j \in Jobs /\ j.name = job[t].name /\ j.entry = job[t].entry
  BY <1>1 DEF Jobs
<1>4. OthersKept(t) /\ pc'[t] = "healSpawn"
  BY ZenonT(40), <1>2, <1>3, StepKeepsOthers DEF HealDown
<1> QED BY <1>2, <1>4 DEF Quiet, CreatorStages, Creating

LEMMA RegistryVerbEffect == ASSUME Shape, Rest, NEW t \in Tasks, RegistryVerb(t) PROVE Quiet(t)
<1>1. job[t] \in Jobs /\ MatchesStage(pc[t], job[t])
  BY DEF Shape, TaskShape
<1>2. UNCHANGED <<entries, budget, mutateLock>>
  BY DEF RegistryVerb, regVars
<1>3. PICK n \in Names, want \in {"persistent", "ephemeral"}, v \in Waiting :
         \E p \in MayRunOn(n) : Step(t, v, [About(n, p) EXCEPT !.want = want])
  BY DEF RegistryVerb
<1>6. PICK p \in MayRunOn(n) : Step(t, v, [About(n, p) EXCEPT !.want = want])
  BY <1>3
<1> DEFINE j == [About(n, p) EXCEPT !.want = want]
<1>4. j \in Jobs /\ j.entry = NoEntry
  BY NamesAreProfiles DEF Jobs, NoJob, About, AllNames
<1>5. OthersKept(t) /\ pc'[t] = v
  BY <1>2, <1>6, <1>4, StepTakesEntry
<1> QED BY <1>2, <1>3, <1>5 DEF Quiet, CreatorStages, Creating, Waiting

LEMMA GoUnstartedEffect == ASSUME Shape, Rest, NEW t \in Tasks, GoUnstarted(t) PROVE Quiet(t)
<1>1. job[t] \in Jobs /\ MatchesStage(pc[t], job[t])
  BY DEF Shape, TaskShape
<1>2. UNCHANGED <<entries, budget, mutateLock>>
  BY DEF GoUnstarted, regVars
<1>3. PICK n \in Names, v \in {"goWait"} : Step(t, v, About(n, n))
  BY DEF GoUnstarted
<1> DEFINE j == About(n, n)
<1>4. j \in Jobs /\ j.entry = NoEntry
  BY NamesAreProfiles DEF Jobs, NoJob, About, AllNames
<1>5. OthersKept(t) /\ pc'[t] = v
  BY <1>2, <1>3, <1>4, StepTakesEntry
<1> QED BY <1>2, <1>3, <1>5 DEF Quiet, CreatorStages, Creating, Waiting

LEMMA ExploreEffect == ASSUME Shape, Rest, NEW t \in Tasks, Explore(t) PROVE Quiet(t)
<1>1. job[t] \in Jobs /\ MatchesStage(pc[t], job[t])
  BY DEF Shape, TaskShape
<1>2. UNCHANGED <<entries, budget, mutateLock>>
  BY DEF Explore, regVars
<1>3. PICK n \in MintedNames, v \in {"laneQueue"} :
         Step(t, v, [About(n, n) EXCEPT !.want = "ephemeral"])
  BY DEF Explore
<1> DEFINE j == [About(n, n) EXCEPT !.want = "ephemeral"]
<1>4. j \in Jobs /\ j.entry = NoEntry
  BY NamesAreProfiles DEF Jobs, NoJob, About, AllNames
<1>5. OthersKept(t) /\ pc'[t] = v
  BY <1>2, <1>3, <1>4, StepTakesEntry
<1> QED BY <1>2, <1>3, <1>5 DEF Quiet, CreatorStages, Creating, Waiting

LEMMA VerbArriveEffect == ASSUME Shape, Rest, NEW t \in Tasks, VerbArrive(t) PROVE Quiet(t)
<1>1. job[t] \in Jobs /\ MatchesStage(pc[t], job[t])
  BY DEF Shape, TaskShape
<1>2. UNCHANGED <<entries, budget, mutateLock>>
  BY DEF VerbArrive, regVars
<1>3. PICK n \in Names, v \in {"verb", "verbWait"} :
         /\ Registered(n)
         /\ Step(t, v, [About(n, n) EXCEPT !.entry = entries[n]])
  BY DEF VerbArrive, AcquireOrQueue
<1> DEFINE j == [About(n, n) EXCEPT !.entry = entries[n]]
<1>4. n \in AllNames /\ entries[n] \in Entries
  BY <1>3 DEF AllNames, Shape, RegShape, Registered
<1>5. j \in Jobs /\ j.name = n /\ j.entry = entries[n]
  BY <1>4, NamesAreProfiles DEF Jobs, NoJob, About
<1>6. OthersKept(t) /\ pc'[t] = v
  <2>1. Step(t, v, j) /\ mutateLock' = mutateLock BY <1>2, <1>3
  <2> HIDE DEF j
  <2> QED BY <1>4, <1>5, <2>1, StepTakesEntry
<1> QED BY <1>2, <1>3, <1>6 DEF Quiet, CreatorStages, Creating

LEMMA PopEffect ==
  ASSUME Shape, NEW t \in Tasks, NEW n \in AllNames, NEW doing \in Jobs, Registered(n),
         Pop(t, n, doing), doing.entry = NoEntry \/ (doing = job[t] /\ job[t].name = n),
         mutateLock' = mutateLock \/ {mutateLock, mutateLock'} \subseteq {t, NoTask}
  PROVE  Unregisters(t)
<1> DEFINE j == [doing EXCEPT !.name = n, !.target = entries[n], !.profile = profile[entries[n]]]
<1>1. entries[n] \in Entries /\ profile[entries[n]] \in Profiles \cup {NoName}
  BY DEF Shape, RegShape, Registered
<1>2. j \in Jobs /\ j.name = n /\ j.entry = doing.entry
  BY <1>1 DEF Jobs
<1>3. Step(t, "popped", j) /\ UNCHANGED budget /\ entries' = [entries EXCEPT ![n] = NoEntry]
  BY DEF Pop
<1>4. OthersKept(t) /\ pc'[t] = "popped"
  <2> HIDE DEF j
  <2>1. CASE doing.entry = NoEntry
    <3>1. j.entry = NoEntry BY <1>2, <2>1
    <3> QED BY <1>2, <1>3, <3>1, StepTakesEntry
  <2>2. CASE doing = job[t] /\ job[t].name = n
    <3>1. j.name = job[t].name /\ j.entry = job[t].entry BY <1>2, <2>2
    <3> QED BY <1>2, <1>3, <3>1, StepKeepsOthers
  <2> QED BY <2>1, <2>2
<1> QED BY <1>3, <1>4 DEF Unregisters, CreatorStages, Creating

LEMMA CloseLockedEffect == ASSUME Shape, Rest, NEW t \in Tasks, CloseLocked(t) PROVE Quiet(t) \/ Unregisters(t)
<1>1. job[t] \in Jobs /\ MatchesStage(pc[t], job[t])
  BY DEF Shape, TaskShape
<1>2. job[t].name \in AllNames
  BY <1>1 DEF CloseLocked, MatchesStage
<1>3. CASE Registered(job[t].name)
  BY <1>1, <1>2, <1>3, PopEffect DEF CloseLocked
<1>4. CASE ~Registered(job[t].name)
  <2>1. UNCHANGED <<entries, budget>> BY <1>4 DEF CloseLocked, regVars
  <2>2. OthersKept(t) /\ pc'[t] \notin CreatorStages
    BY <1>4, ReturnKeepsOthers DEF CloseLocked
  <2> QED BY <2>1, <2>2 DEF Quiet
<1> QED BY <1>3, <1>4

LEMMA PinnedStopEffect == ASSUME Shape, Rest, NEW t \in Tasks, PinnedStop(t) PROVE Unregisters(t)
<1>1. job[t] \in Jobs /\ MatchesStage(pc[t], job[t])
  BY DEF Shape, TaskShape
<1>2. PICK n \in Names : Registered(n) /\ Pop(t, n, NoJob)
  BY DEF PinnedStop
<1>3. NoJob \in Jobs /\ NoJob.entry = NoEntry /\ n \in AllNames
  BY DEF NoJob, About, Jobs, AllNames
<1> QED BY <1>2, <1>3, PopEffect DEF PinnedStop

LEMMA LaneDoneEffect == ASSUME Shape, Rest, NEW t \in Tasks, LaneDone(t) PROVE Unregisters(t)
<1>1. job[t] \in Jobs /\ MatchesStage(pc[t], job[t])
  BY DEF Shape, TaskShape
<1>2. job[t].name \in AllNames
  BY <1>1 DEF LaneDone, MatchesStage
<1> QED BY <1>1, <1>2, PopEffect DEF LaneDone

LEMMA StartLockedEffect == ASSUME Shape, Rest, NEW t \in Tasks, StartLocked(t) PROVE Quiet(t) \/ Registers(t) \/ Charges(t)
<1>1. job[t] \in Jobs /\ MatchesStage(pc[t], job[t])
  BY DEF Shape, TaskShape
<1>2. job[t].name \in AllNames
  BY <1>1 DEF StartLocked, MatchesStage
<1>3. CASE ~Registered(job[t].name)
  BY <1>2, <1>3, CreateEffect DEF StartLocked
<1>4. CASE Registered(job[t].name)
  <2>1. /\ mutateLock = NoTask /\ UNCHANGED entries
        /\ OthersKept(t) /\ pc'[t] \notin CreatorStages
    BY <1>4, ReturnKeepsOthers DEF StartLocked
  <2>2. CASE UNCHANGED budget
    BY <2>1, <2>2 DEF Quiet
  <2>3. CASE /\ CountEphemeral < MaxEphemeral
             /\ budget' = [budget EXCEPT ![entries[job[t].name]] = "ephemeral"]
    BY <1>2, <1>4, <2>1, <2>3 DEF Charges
  <2>4. Reclassify(t)
    BY <1>4 DEF StartLocked
  <2> QED BY <2>2, <2>3, <2>4 DEF Reclassify
<1> QED BY <1>3, <1>4

LEMMA GoLockedEffect == ASSUME Shape, Rest, NEW t \in Tasks, GoLocked(t) PROVE Quiet(t) \/ Registers(t)
<1>1. job[t] \in Jobs /\ MatchesStage(pc[t], job[t])
  BY DEF Shape, TaskShape
<1>2. job[t].name \in AllNames
  BY <1>1 DEF GoLocked, MatchesStage
<1>3. CASE ~Registered(job[t].name)
  BY <1>2, <1>3, CreateEffect DEF GoLocked
<1>4. CASE Registered(job[t].name)
  BY <1>4, StartEndKeepsOthers DEF GoLocked, Quiet, regVars
<1> QED BY <1>3, <1>4

LEMMA JoinDoneEffect == ASSUME Shape, Rest, NEW t \in Tasks, JoinDone(t) PROVE Quiet(t) \/ Registers(t)
<1>1. job[t] \in Jobs /\ MatchesStage(pc[t], job[t])
  BY DEF Shape, TaskShape
<1>2. job[t].name \in AllNames /\ pc[t] \in CreatorStages
  BY <1>1 DEF JoinDone, MatchesStage, CreatorStages, Creating
<1>3. CanCreate(t) /\ mutateLock = t
  BY <1>2, CreatorsCan DEF Rest, OneCreator, CreatorStages
<1> QED BY <1>2, <1>3, TakeWarmEffect DEF JoinDone

LEMMA DropDoneEffect == ASSUME Shape, Rest, NEW t \in Tasks, DropDone(t) PROVE Quiet(t)
<1>1. job[t] \in Jobs /\ MatchesStage(pc[t], job[t])
  BY DEF Shape, TaskShape
<1>2. job[t].name \in AllNames /\ pc[t] \in CreatorStages
  BY <1>1 DEF DropDone, MatchesStage, CreatorStages, Creating
<1>3. CanCreate(t) /\ mutateLock = t
  BY <1>2, CreatorsCan DEF Rest, OneCreator, CreatorStages
<1> DEFINE j == [job[t] EXCEPT !.chrome = NoChrome]
<1>4. j \in Jobs /\ j.name = job[t].name /\ j.entry = job[t].entry /\ j.want = job[t].want
  BY <1>1 DEF Jobs
<1>5. OthersKept(t) /\ job'[t] = j
  BY ZenonT(40), <1>4, StepKeepsOthers DEF DropDone
<1> QED BY <1>3, <1>4, <1>5 DEF DropDone, Quiet

LEMMA CreateSpawnEffect == ASSUME Shape, Rest, NEW t \in Tasks, CreateSpawn(t) PROVE Quiet(t)
<1>1. job[t] \in Jobs /\ MatchesStage(pc[t], job[t])
  BY DEF Shape, TaskShape
<1>2. job[t].name \in AllNames /\ pc[t] \in CreatorStages
  BY <1>1 DEF CreateSpawn, MatchesStage, CreatorStages, Creating
<1>3. CanCreate(t) /\ mutateLock = t
  BY <1>2, CreatorsCan DEF Rest, OneCreator, CreatorStages
<1>4. UNCHANGED <<entries, budget>>
  BY DEF CreateSpawn, regVars
<1>5. CASE StartFails(t)
  BY <1>4, <1>5, StartEndKeepsOthers DEF Quiet
<1>6. ASSUME NEW c \in FreshChromes, Step(t, "up", [job[t] EXCEPT !.chrome = c]),
             UNCHANGED mutateLock
      PROVE  Quiet(t)
  <2> DEFINE j == [job[t] EXCEPT !.chrome = c]
  <2>1. j \in Jobs /\ j.name = job[t].name /\ j.entry = job[t].entry /\ j.want = job[t].want
    BY <1>1 DEF Jobs, FreshChromes
  <2>2. OthersKept(t) /\ job'[t] = j
    BY <1>6, <2>1, StepKeepsOthers
  <2> QED BY <1>3, <1>4, <1>6, <2>1, <2>2 DEF Quiet
<1> QED BY <1>5, <1>6 DEF CreateSpawn

LEMMA CreateUpEffect == ASSUME Shape, Rest, NEW t \in Tasks, CreateUp(t) PROVE Quiet(t) \/ Registers(t)
<1>1. job[t] \in Jobs /\ MatchesStage(pc[t], job[t])
  BY DEF Shape, TaskShape
<1>2. job[t].name \in AllNames /\ pc[t] \in CreatorStages
  BY <1>1 DEF CreateUp, MatchesStage, CreatorStages, Creating
<1>3. CanCreate(t) /\ mutateLock = t
  BY <1>2, CreatorsCan DEF Rest, OneCreator, CreatorStages
<1>4. CASE StartFails(t) /\ UNCHANGED <<entries, budget>>
  BY <1>4, StartEndKeepsOthers DEF Quiet
<1>5. CASE Register(job[t].name, job[t].chrome, job[t].want, job[t].profile) /\ StartWorks(t)
  <2>1. /\ job[t].chrome \in Chromes \cup {NoChrome}
        /\ job[t].profile \in Profiles \cup {NoName}
    BY <1>1 DEF Jobs
  <2> QED BY <1>2, <1>3, <1>5, <2>1, StartEndKeepsOthers DEF Registers
<1> QED BY <1>4, <1>5 DEF CreateUp

LEMMA AttachLockedEffect == ASSUME Shape, Rest, NEW t \in Tasks, AttachLocked(t) PROVE Quiet(t)
<1>1. job[t] \in Jobs /\ MatchesStage(pc[t], job[t])
  BY DEF Shape, TaskShape
<1>2. job[t].name \in AllNames /\ job[t].want = "persistent"
  BY <1>1 DEF AttachLocked, MatchesStage
<1>3. UNCHANGED <<entries, budget>>
  BY DEF AttachLocked, regVars
<1>4. CASE Return(t)
  BY <1>3, <1>4, ReturnKeepsOthers DEF Quiet
<1>5. CASE /\ ~Registered(job[t].name) /\ CountPersistent < MaxSessions
           /\ Step(t, "attach", job[t]) /\ mutateLock' = t
  <2>1. mutateLock = NoTask BY DEF AttachLocked
  <2>2. CountPersistent \in Nat BY BudgetsFinite DEF CountPersistent
  <2>3. ~AtCap(job[t].want)
    BY <1>2, <1>5, <2>2, CapsAreNat DEF AtCap
  <2>4. CanCreate(t)
    BY <1>5, <2>1, <2>3, BelowCapHasRoom DEF CanCreate
  <2>5. OthersKept(t) /\ job'[t] = job[t]
    BY <1>1, <1>5, <2>1, StepKeepsOthers
  <2> QED BY <1>3, <1>5, <2>4, <2>5 DEF Quiet
<1> QED BY <1>4, <1>5 DEF AttachLocked

LEMMA AttachDoneEffect == ASSUME Shape, Rest, NEW t \in Tasks, AttachDone(t) PROVE Quiet(t) \/ Registers(t)
<1>1. job[t] \in Jobs /\ MatchesStage(pc[t], job[t])
  BY DEF Shape, TaskShape
<1>2. job[t].name \in AllNames /\ pc[t] \in CreatorStages
  BY <1>1 DEF AttachDone, MatchesStage, CreatorStages, Creating
<1>3. CanCreate(t) /\ mutateLock = t
  BY <1>2, CreatorsCan DEF Rest, OneCreator, CreatorStages
<1>4. OthersKept(t) /\ pc'[t] \notin CreatorStages
  BY ReturnKeepsOthers DEF AttachDone
<1>5. job[t].want = "persistent"
  BY <1>1 DEF AttachDone, MatchesStage
<1>6. job[t].name \in Profiles
  BY <1>2, NamesAreProfiles
<1>7. CASE Register(job[t].name, Foreign, "persistent", job[t].name)
  BY <1>2, <1>3, <1>4, <1>5, <1>6, <1>7 DEF Registers
<1>8. CASE UNCHANGED regVars
  BY <1>4, <1>8 DEF Quiet, regVars
<1> QED BY <1>7, <1>8 DEF AttachDone

LEMMA BeginCancelEffect ==
  ASSUME Shape, NEW t \in Tasks, job[t].name \in AllNames, BeginCancel(t),
         mutateLock' = mutateLock \/ {mutateLock, mutateLock'} \subseteq {t, NoTask}
  PROVE  OthersKept(t) /\ pc'[t] \notin CreatorStages
<1> DEFINE n == job[t].name
           i == [job[t] EXCEPT !.join = warmTask[n], !.chrome = NoChrome]
           j == [job[t] EXCEPT !.chrome = warm[n]]
<1>1. /\ job[t] \in Jobs /\ warm[n] \in Chromes \cup {NoChrome}
      /\ warmTask[n] \in WarmTasks \cup {NoWarm}
  BY DEF Shape, TaskShape, PoolShape
<1>2. /\ i \in Jobs /\ i.name = job[t].name /\ i.entry = job[t].entry
      /\ j \in Jobs /\ j.name = job[t].name /\ j.entry = job[t].entry
  BY <1>1 DEF Jobs
<1>3. CASE Step(t, "cancel", i)
  <2>1. OthersKept(t) /\ pc'[t] = "cancel" BY <1>2, <1>3, StepKeepsOthers
  <2> QED BY <2>1 DEF CreatorStages, Creating
<1>4. CASE Step(t, "sweep", j)
  <2>1. OthersKept(t) /\ pc'[t] = "sweep" BY <1>2, <1>4, StepKeepsOthers
  <2> QED BY <2>1 DEF CreatorStages, Creating
<1> QED BY <1>3, <1>4 DEF BeginCancel

LEMMA CloseTeardownEffect == ASSUME Shape, Rest, NEW t \in Tasks, CloseTeardown(t) PROVE Quiet(t)
<1>1. job[t] \in Jobs /\ MatchesStage(pc[t], job[t])
  BY DEF Shape, TaskShape
<1>2. UNCHANGED <<entries, budget, mutateLock>>
  BY DEF CloseTeardown, regVars
<1> DEFINE c == session[job[t].target]
           j == [job[t] EXCEPT !.chrome = IF c = Foreign THEN NoChrome ELSE c]
<1>3. c \in Chromes \cup {NoChrome, Foreign}
  BY <1>1 DEF CloseTeardown, MatchesStage, Shape, RegShape
<1>4. (IF c = Foreign THEN NoChrome ELSE c) \in Chromes \cup {NoChrome}
  BY <1>3
<1>5. j \in Jobs /\ j.name = job[t].name /\ j.entry = job[t].entry
  BY <1>1, <1>4 DEF Jobs
<1>6. OthersKept(t) /\ pc'[t] = "closing"
  <2>1. Step(t, "closing", j) /\ mutateLock' = mutateLock BY <1>2 DEF CloseTeardown
  <2> HIDE DEF j
  <2> QED BY <1>5, <2>1, StepKeepsOthers
<1> QED BY <1>2, <1>6 DEF Quiet, CreatorStages, Creating

LEMMA CloseDoneEffect == ASSUME Shape, Rest, NEW t \in Tasks, CloseDone(t) PROVE Quiet(t)
<1>1. job[t] \in Jobs /\ MatchesStage(pc[t], job[t])
  BY DEF Shape, TaskShape
<1>2. UNCHANGED <<entries, budget>>
  BY DEF CloseDone
<1>3. job[t].name \in AllNames
  BY <1>1 DEF CloseDone, MatchesStage
<1>4. CASE BeginCancel(t) /\ UNCHANGED mutateLock
  BY <1>2, <1>3, <1>4, BeginCancelEffect DEF Quiet
<1>5. CASE Return(t)
  BY <1>2, <1>5, ReturnKeepsOthers DEF Quiet
<1> QED BY <1>4, <1>5 DEF CloseDone, RemoveProfile

LEMMA DeleteLockedEffect == ASSUME Shape, Rest, NEW t \in Tasks, DeleteLocked(t) PROVE Quiet(t)
<1>1. job[t] \in Jobs /\ MatchesStage(pc[t], job[t])
  BY DEF Shape, TaskShape
<1>2. UNCHANGED <<entries, budget>>
  BY DEF DeleteLocked, regVars
<1>3. job[t].name \in AllNames /\ mutateLock = NoTask
  BY <1>1 DEF DeleteLocked, MatchesStage
<1>4. CASE BeginCancel(t) /\ mutateLock' = t
  BY <1>2, <1>3, <1>4, BeginCancelEffect DEF Quiet
<1>5. CASE Return(t)
  BY <1>2, <1>5, ReturnKeepsOthers DEF Quiet
<1> QED BY <1>4, <1>5 DEF DeleteLocked, RemoveProfile

LEMMA CancelDoneEffect == ASSUME Shape, Rest, NEW t \in Tasks, CancelDone(t) PROVE Quiet(t)
<1>1. job[t] \in Jobs /\ MatchesStage(pc[t], job[t])
  BY DEF Shape, TaskShape
<1>2. UNCHANGED <<entries, budget>>
  BY DEF CancelDone, regVars
<1>3. job[t].name \in AllNames
  BY <1>1 DEF CancelDone, MatchesStage
<1>4. CASE Return(t)
  BY <1>2, <1>4, ReturnKeepsOthers DEF Quiet
<1> DEFINE j == [job[t] EXCEPT !.chrome = warm[job[t].name], !.join = NoWarm]
<1>5. CASE Step(t, "sweep", j) /\ UNCHANGED mutateLock
  <2>1. warm[job[t].name] \in Chromes \cup {NoChrome}
    BY <1>3 DEF Shape, PoolShape
  <2>2. j \in Jobs /\ j.name = job[t].name /\ j.entry = job[t].entry
    BY <1>1, <2>1 DEF Jobs
  <2>3. OthersKept(t) /\ pc'[t] = "sweep"
    BY ZenonT(40), <1>5, <2>2, StepKeepsOthers
  <2> QED BY <1>2, <2>3 DEF Quiet, CreatorStages, Creating
<1> QED BY <1>4, <1>5 DEF CancelDone, RemoveProfile

LEMMA ProbeLockedEffect == ASSUME Shape, Rest, NEW t \in Tasks, ProbeLocked(t) PROVE Quiet(t)
<1>1. job[t] \in Jobs /\ MatchesStage(pc[t], job[t])
  BY DEF Shape, TaskShape
<1>2. UNCHANGED <<entries, budget>>
  BY DEF ProbeLocked, regVars
<1>3. job[t].name \in AllNames /\ mutateLock = NoTask
  BY <1>1 DEF ProbeLocked, MatchesStage
<1>4. CASE Return(t)
  BY <1>2, <1>4, ReturnKeepsOthers DEF Quiet
<1> DEFINE e == entries[job[t].name]
           j == [job[t] EXCEPT !.entry = e]
<1>5. ASSUME NEW p \in {"probe", "probeLock"}, Step(t, p, j), mutateLock' = t,
             Registered(job[t].name)
      PROVE  Quiet(t)
  <2>1. e \in Entries
    BY <1>3, <1>5 DEF Shape, RegShape, Registered
  <2>2. j \in Jobs /\ j.name = job[t].name /\ j.entry = e
    BY <1>1, <2>1 DEF Jobs
  <2>3. OthersKept(t) /\ pc'[t] = p
    <3>1. Step(t, p, j) /\ {mutateLock, mutateLock'} \subseteq {t, NoTask}
          /\ (j.entry # NoEntry => j.name \in AllNames /\ entries[j.name] = j.entry)
      BY <1>1, <1>3, <1>5, <2>2
    <3> HIDE DEF j
    <3> QED BY <2>2, <3>1, StepTakesEntry
  <2> QED BY <1>2, <2>3 DEF Quiet, CreatorStages, Creating
<1> QED BY <1>4, <1>5 DEF ProbeLocked, AcquireOrQueue

LEMMA VerbRunEffect == ASSUME Shape, Rest, NEW t \in Tasks, VerbRun(t) PROVE Quiet(t)
<1>1. job[t] \in Jobs /\ MatchesStage(pc[t], job[t])
  BY DEF Shape, TaskShape
<1>2. UNCHANGED <<entries, budget>>
  BY DEF VerbRun, regVars
<1>3. CASE Return(t)
  BY <1>2, <1>3, ReturnKeepsOthers DEF Quiet
<1>4. ASSUME NEW p \in {"verb", "goWait"}, Step(t, p, job[t]), UNCHANGED mutateLock
      PROVE  Quiet(t)
  <2>1. OthersKept(t) /\ pc'[t] = p
    BY <1>1, <1>4, StepKeepsOthers
  <2> QED BY <1>2, <2>1 DEF Quiet, CreatorStages, Creating
<1> QED BY <1>3, <1>4 DEF VerbRun

LEMMA VerbCrashEffect == ASSUME Shape, Rest, NEW t \in Tasks, VerbCrash(t) PROVE Quiet(t)
<1>1. job[t] \in Jobs /\ MatchesStage(pc[t], job[t])
  BY DEF Shape, TaskShape
<1>2. UNCHANGED <<entries, budget>>
  BY DEF VerbCrash, regVars
<1>3. CASE Leave(t)
  BY <1>2, <1>3, ReturnKeepsOthers DEF Quiet, Leave
<1> DEFINE e == entries[job[t].name]
           j == [job[t] EXCEPT !.target = e, !.chrome = session[e]]
<1>4. CASE Relaunchable(job[t].name) /\ Step(t, "healDown", j) /\ UNCHANGED mutateLock
  <2>1. e \in Entries
    BY <1>1, <1>4 DEF Relaunchable, Registered, Shape, RegShape, VerbCrash, MatchesStage
  <2>2. session[e] \in Chromes \cup {NoChrome}
    BY <1>4, <2>1 DEF Relaunchable, Shape, RegShape
  <2>3. j \in Jobs /\ j.name = job[t].name /\ j.entry = job[t].entry
    BY <1>1, <2>1, <2>2 DEF Jobs
  <2>4. OthersKept(t) /\ pc'[t] = "healDown"
    BY ZenonT(40), <1>4, <2>3, StepKeepsOthers
  <2> QED BY <1>2, <2>4 DEF Quiet, CreatorStages, Creating
<1> QED BY <1>3, <1>4 DEF VerbCrash

LEMMA HealSpawnEffect == ASSUME Shape, Rest, NEW t \in Tasks, HealSpawn(t) PROVE Quiet(t)
<1>1. job[t] \in Jobs /\ MatchesStage(pc[t], job[t])
  BY DEF Shape, TaskShape
<1>2. UNCHANGED <<entries, budget>>
  BY DEF HealSpawn, regVars
<1>3. CASE Leave(t)
  BY <1>2, <1>3, ReturnKeepsOthers DEF Quiet, Leave
<1>4. ASSUME NEW c \in FreshChromes, Step(t, "healUp", [job[t] EXCEPT !.chrome = c]),
             UNCHANGED mutateLock
      PROVE  Quiet(t)
  <2> DEFINE j == [job[t] EXCEPT !.chrome = c]
  <2>1. j \in Jobs /\ j.name = job[t].name /\ j.entry = job[t].entry
    BY <1>1 DEF Jobs, FreshChromes
  <2>2. OthersKept(t) /\ pc'[t] = "healUp"
    BY <1>4, <2>1, StepKeepsOthers
  <2> QED BY <1>2, <2>2 DEF Quiet, CreatorStages, Creating
<1> QED BY <1>3, <1>4 DEF HealSpawn

LEMMA AdoptEffect ==
  ASSUME Shape, NEW t \in Tasks, Adopt(t), UNCHANGED <<entries, budget, mutateLock>>
  PROVE  Quiet(t)
<1> DEFINE j == [job[t] EXCEPT !.target = NoEntry, !.chrome = NoChrome]
<1>1. j \in Jobs /\ j.name = job[t].name /\ j.entry = job[t].entry
  BY DEF Shape, TaskShape, Jobs
<1>2. OthersKept(t) /\ pc'[t] = "verbLast"
  BY ZenonT(40), <1>1, StepKeepsOthers DEF Adopt
<1> QED BY <1>2 DEF Quiet, CreatorStages, Creating

LEMMA HealUpEffect == ASSUME Shape, Rest, NEW t \in Tasks, HealUp(t) PROVE Quiet(t)
<1>1. job[t] \in Jobs /\ MatchesStage(pc[t], job[t])
  BY DEF Shape, TaskShape
<1>2. UNCHANGED <<entries, budget>>
  BY DEF HealUp
<1>3. CASE Leave(t)
  BY <1>2, <1>3, ReturnKeepsOthers DEF Quiet, Leave
<1>4. CASE Adopt(t) /\ UNCHANGED mutateLock
  BY <1>2, <1>4, AdoptEffect
<1>5. ASSUME NEW p \in {"healUndo", "healGuard"}, Step(t, p, job[t]), UNCHANGED mutateLock
      PROVE  Quiet(t)
  <2>1. OthersKept(t) /\ pc'[t] = p
    BY <1>1, <1>5, StepKeepsOthers
  <2> QED BY <1>2, <2>1 DEF Quiet, CreatorStages, Creating
<1> QED BY <1>3, <1>4, <1>5 DEF HealUp

LEMMA HealGuardEffect == ASSUME Shape, Rest, NEW t \in Tasks, HealGuard(t) PROVE Quiet(t)
<1>1. job[t] \in Jobs /\ MatchesStage(pc[t], job[t])
  BY DEF Shape, TaskShape
<1>2. UNCHANGED <<entries, budget>>
  BY DEF HealGuard
<1>3. CASE Leave(t)
  BY <1>2, <1>3, ReturnKeepsOthers DEF Quiet, Leave
<1>4. CASE Adopt(t) /\ UNCHANGED mutateLock
  BY <1>2, <1>4, AdoptEffect
<1> QED BY <1>3, <1>4 DEF HealGuard

------------------------------------------------------------------------------
(* The inductive invariant.                                                  *)

OneKind(t) == Quiet(t) \/ Registers(t) \/ Unregisters(t) \/ Charges(t)

LEMMA RequestKind ==
  ASSUME Shape, Rest, NEW t \in Tasks, Request(t)
  PROVE  Shape' /\ OneKind(t)
<1>1. CASE RegistryVerb(t)
  BY <1>1, RegistryVerbShape, RegistryVerbEffect DEF OneKind
<1>2. CASE GoUnstarted(t)
  BY <1>2, GoUnstartedShape, GoUnstartedEffect DEF OneKind
<1>3. CASE Explore(t)
  BY <1>3, ExploreShape, ExploreEffect DEF OneKind
<1>4. CASE VerbArrive(t)
  BY <1>4, VerbArriveShape, VerbArriveEffect DEF OneKind
<1>5. CASE PinnedStop(t)
  BY <1>5, PinnedStopShape, PinnedStopEffect DEF OneKind
<1> QED BY <1>1, <1>2, <1>3, <1>4, <1>5 DEF Request

LEMMA AcquireKind ==
  ASSUME Shape, Rest, NEW t \in Tasks, Acquire(t)
  PROVE  Shape' /\ OneKind(t)
<1>1. CASE StartLocked(t)
  BY <1>1, StartLockedShape, StartLockedEffect DEF OneKind
<1>2. CASE GoLocked(t)
  BY <1>2, GoLockedShape, GoLockedEffect DEF OneKind
<1>3. CASE AttachLocked(t)
  BY <1>3, AttachLockedShape, AttachLockedEffect DEF OneKind
<1>4. CASE NewLocked(t)
  BY <1>4, NewLockedShape, NewLockedEffect DEF OneKind
<1>5. CASE CloseLocked(t)
  BY <1>5, CloseLockedShape, CloseLockedEffect DEF OneKind
<1>6. CASE DeleteLocked(t)
  BY <1>6, DeleteLockedShape, DeleteLockedEffect DEF OneKind
<1>7. CASE ProbeLocked(t)
  BY <1>7, ProbeLockedShape, ProbeLockedEffect DEF OneKind
<1>8. CASE ProbeRun(t)
  BY <1>8, ProbeRunShape, ProbeRunEffect DEF OneKind
<1>9. CASE VerbRun(t)
  BY <1>9, VerbRunShape, VerbRunEffect DEF OneKind
<1> QED BY <1>1, <1>2, <1>3, <1>4, <1>5, <1>6, <1>7, <1>8, <1>9 DEF Acquire

LEMMA ProgressKind ==
  ASSUME Shape, Rest, NEW t \in Tasks, Progress(t)
  PROVE  Shape' /\ OneKind(t)
<1>1. CASE LaneTry(t)
  BY <1>1, LaneTryShape, LaneTryEffect DEF OneKind
<1>2. CASE JoinDone(t)
  BY <1>2, JoinDoneShape, JoinDoneEffect DEF OneKind
<1>3. CASE DropDone(t)
  BY <1>3, DropDoneShape, DropDoneEffect DEF OneKind
<1>4. CASE CreateSpawn(t)
  BY <1>4, CreateSpawnShape, CreateSpawnEffect DEF OneKind
<1>5. CASE CreateUp(t)
  BY <1>5, CreateUpShape, CreateUpEffect DEF OneKind
<1>6. CASE AttachDone(t)
  BY <1>6, AttachDoneShape, AttachDoneEffect DEF OneKind
<1>7. CASE ProbeDone(t)
  BY <1>7, ProbeDoneShape, ProbeDoneEffect DEF OneKind
<1>8. CASE LaneDone(t)
  BY <1>8, LaneDoneShape, LaneDoneEffect DEF OneKind
<1>9. CASE CloseTeardown(t)
  BY <1>9, CloseTeardownShape, CloseTeardownEffect DEF OneKind
<1>10. CASE CloseDone(t)
  BY <1>10, CloseDoneShape, CloseDoneEffect DEF OneKind
<1>11. CASE CancelDone(t)
  BY <1>11, CancelDoneShape, CancelDoneEffect DEF OneKind
<1>12. CASE Sweep(t)
  BY <1>12, SweepShape, SweepEffect DEF OneKind
<1>13. CASE VerbDone(t)
  BY <1>13, VerbDoneShape, VerbDoneEffect DEF OneKind
<1>14. CASE VerbCrash(t)
  BY <1>14, VerbCrashShape, VerbCrashEffect DEF OneKind
<1>15. CASE HealDown(t)
  BY <1>15, HealDownShape, HealDownEffect DEF OneKind
<1>16. CASE HealSpawn(t)
  BY <1>16, HealSpawnShape, HealSpawnEffect DEF OneKind
<1>17. CASE HealUp(t)
  BY <1>17, HealUpShape, HealUpEffect DEF OneKind
<1>18. CASE HealUndo(t)
  BY <1>18, HealUndoShape, HealUndoEffect DEF OneKind
<1>19. CASE HealGuard(t)
  BY <1>19, HealGuardShape, HealGuardEffect DEF OneKind
<1> QED BY <1>1, <1>2, <1>3, <1>4, <1>5, <1>6, <1>7, <1>8, <1>9, <1>10, <1>11, <1>12, <1>13, <1>14, <1>15, <1>16, <1>17, <1>18, <1>19 DEF Progress

LEMMA TaskStepKeeps ==
  ASSUME Shape, Rest, NEW t \in Tasks, Request(t) \/ Acquire(t) \/ Progress(t)
  PROVE  Shape' /\ Rest' /\ OneKind(t)
<1>1. Shape' /\ OneKind(t)
  BY RequestKind, AcquireKind, ProgressKind
<1>2. Rest'
  BY <1>1, QuietKeeps, RegistersKeeps, UnregistersKeeps, ChargesKeeps DEF OneKind
<1> QED BY <1>1, <1>2

\* A pre-warm coroutine touches neither the registry nor a request.
LEMMA PrewarmKeeps ==
  ASSUME Shape, Rest, NEW k \in WarmTasks, Prewarm(k)
  PROVE  Shape' /\ Rest'
<1>1. Shape'
  BY PreSpawnShape, PreUpShape, PreDiscardShape, PreCancelledShape DEF Prewarm
<1>2. UNCHANGED <<entries, budget, mutateLock, pc, job>>
  BY DEF Prewarm, PreSpawn, PreUp, PreDiscard, PreCancelled, regVars
<1>3. Rest'
  BY <1>2 DEF Rest, EntriesKeepName, OneCreator, CreatorHasRoom, HasRoom, CountEphemeral,
     BudgetsRespected, WithBudget, Registered
<1> QED BY <1>1, <1>3

LEMMA GoalPinPromotes ==
  ASSUME NEW n \in Names, GoalPin(n)
  PROVE  Promotes
BY DEF GoalPin, Promotes, AllNames

LEMMA GoalPinKeeps ==
  ASSUME Shape, Rest, NEW n \in Names, GoalPin(n)
  PROVE  Shape' /\ Rest'
BY GoalPinPromotes, PromotesKeeps, GoalPinShape

LEMMA InvIsShapeAndRest ==
  /\ IndInv <=> Shape /\ Rest
  /\ IndInv' <=> Shape' /\ Rest'
BY ShapeIsTypeOK
   DEF IndInv, Rest, Shape, RegShape, LockShape, PoolShape, OsShape, TaskShape, MutexShape,
       TypeOK, JobsMatchStage

LEMMA InitInv == Init => IndInv
<1> SUFFICES ASSUME Init PROVE IndInv OBVIOUS
<1>1. Shape BY InitShape
<1>2. EntriesKeepName /\ OneCreator /\ CreatorHasRoom
  BY DEF Init, EntriesKeepName, OneCreator, CreatorHasRoom, Registered, Creating
<1>3. BudgetsRespected
  <2>1. \A K : WithBudget(K) = {} BY DEF Init, WithBudget, Registered
  <2> QED BY <2>1, FS_EmptySet, CapsAreNat DEF BudgetsRespected, CountEphemeral
<1> QED BY <1>1, <1>2, <1>3, InvIsShapeAndRest DEF Rest

LEMMA NextInv == IndInv /\ [Next]_vars => IndInv'
<1> SUFFICES ASSUME IndInv, [Next]_vars PROVE Shape' /\ Rest'
  BY InvIsShapeAndRest
<1>1. Shape /\ Rest
  BY InvIsShapeAndRest
<1>2. CASE UNCHANGED vars
  <2>1. Shape'
    BY <1>1, <1>2, ShapeUnchanged DEF Shape, vars
  <2>2. Rest'
    BY <1>1, <1>2 DEF Rest, EntriesKeepName, OneCreator, CreatorHasRoom, HasRoom,
       CountEphemeral, BudgetsRespected, WithBudget, Registered, vars, regVars
  <2> QED BY <2>1, <2>2
<1>3. ASSUME NEW t \in Tasks, Request(t) \/ Acquire(t) \/ Progress(t)
      PROVE  Shape' /\ Rest'
  BY <1>1, <1>3, TaskStepKeeps
<1>4. ASSUME NEW k \in WarmTasks, Prewarm(k)
      PROVE  Shape' /\ Rest'
  BY <1>1, <1>4, PrewarmKeeps
<1>5. ASSUME NEW n \in Names, GoalPin(n)
      PROVE  Shape' /\ Rest'
  BY <1>1, <1>5, GoalPinKeeps
<1> QED BY <1>2, <1>3, <1>4, <1>5 DEF Next

------------------------------------------------------------------------------
(* The theorems.                                                             *)

\* In every behaviour of the daemon the inductive invariant holds.
THEOREM Inductive == Spec => []IndInv
BY InitInv, NextInv, PTL DEF Spec

\* Every variable keeps its type.
THEOREM TypeCorrect == Spec => []TypeOK
<1>1. IndInv => TypeOK BY DEF IndInv
<1> QED BY <1>1, Inductive, PTL

\* create() and attach() check that a name is free and then await a launch:
\* mutate_lock makes the check and the insert one step, so no second request
\* inserts that name meanwhile.
THEOREM CreatorIsAlone == Spec => []OneCreator
<1>1. IndInv => OneCreator BY DEF IndInv
<1> QED BY <1>1, Inductive, PTL

\* Neither cap is exceeded by a session charged to it, whatever launches,
\* reclassifications and closes are in flight (create, attach, start).
THEOREM CapsHold == Spec => []BudgetsRespected
<1>1. IndInv => BudgetsRespected BY DEF IndInv
<1> QED BY <1>1, Inductive, PTL

\* No action replaces a registered session by another.
LEMMA StepOverwritesNothing ==
  ASSUME IndInv, [Next]_vars, NEW n \in AllNames, Registered(n)
  PROVE  entries'[n] \in {entries[n], NoEntry}
<1>1. Shape /\ Rest
  BY InvIsShapeAndRest
<1>2. CASE UNCHANGED vars
  BY <1>2 DEF vars, regVars
<1>3. ASSUME NEW t \in Tasks, Request(t) \/ Acquire(t) \/ Progress(t)
      PROVE  entries'[n] \in {entries[n], NoEntry}
  <2>1. CASE Quiet(t) \/ Charges(t)
    BY <2>1 DEF Quiet, Charges
  <2>2. CASE Registers(t)
    BY <1>1, <2>2 DEF Registers, CanCreate, Register, Shape, RegShape
  <2>3. CASE Unregisters(t)
    BY <1>1, <2>3 DEF Unregisters, Shape, RegShape
  <2> QED BY <1>1, <1>3, <2>1, <2>2, <2>3, TaskStepKeeps DEF OneKind
<1>4. ASSUME NEW k \in WarmTasks, Prewarm(k)
      PROVE  entries' = entries
  BY <1>4 DEF Prewarm, PreSpawn, PreUp, PreDiscard, PreCancelled, regVars
<1>5. ASSUME NEW m \in Names, GoalPin(m)
      PROVE  entries' = entries
  BY <1>5 DEF GoalPin
<1> QED BY <1>2, <1>3, <1>4, <1>5 DEF Next

\* A running session is never overwritten in the registry, whatever raced for
\* its name (create, attach): it leaves through close() first.
THEOREM NothingOverwritten == Spec => EntryNeverOverwritten
<1>1. IndInv /\ [Next]_vars
      => [\A n \in AllNames : Registered(n) => entries'[n] \in {entries[n], NoEntry}]_vars
  BY StepOverwritesNothing
<1> QED BY <1>1, Inductive, PTL DEF Spec, EntryNeverOverwritten

------------------------------------------------------------------------------
(* The two kinds of lock: without unlocked closes of named sessions          *)
(* (PinnedExplore), a probe that holds mutate_lock and a `go` that holds an   *)
(* entry.lock never wait for each other.                                      *)

Apart(t) ==
  /\ pc[t] = "probeLock" =>
       /\ mutateLock = t /\ job[t].name \in Names
       /\ entries[job[t].name] = job[t].entry
  /\ pc[t] = "probeWait" => job[t].name \in Names
  /\ pc[t] \in {"laneQueue", "laneBody"} => IsLane(t)
  /\ pc[t] = "goWait" /\ job[t].entry # NoEntry =>
       \A n \in AllNames : entries[n] # job[t].entry

LEMMA ApartEach ==
  /\ LocksApart <=> \A t \in Tasks : Apart(t)
  /\ LocksApart' <=> \A t \in Tasks : Apart(t)'
BY DEF LocksApart, Apart, IsLane

Telling == {"probeLock", "probeWait", "laneQueue", "laneBody", "goWait"}

LEMMA ElsewhereApart ==
  ASSUME NEW t \in Tasks, pc'[t] \notin Telling
  PROVE  Apart(t)'
BY DEF Apart, Telling

\* Only a request that has mutate_lock to itself takes a named session out of
\* the registry.
SparesProbed(t) ==
  mutateLock \in {NoTask, t} \/ \A n \in Names : Registered(n) => entries'[n] = entries[n]

LEMMA OthersApart ==
  ASSUME Shape, Rest, LocksApart, NEW t \in Tasks, OneKind(t), SparesProbed(t),
         NEW u \in Tasks \ {t}
  PROVE  Apart(u)'
<1>1. /\ pc'[u] = pc[u] /\ job'[u] = job[u] /\ OthersKept(t)
      /\ Apart(u) /\ MatchesStage(pc[u], job[u])
  BY ApartEach DEF OneKind, Quiet, Registers, Unregisters, Charges, OthersKept, Shape, TaskShape
<1>2. CASE pc[u] = "probeLock"
  <2>1. /\ mutateLock = u /\ job[u].name \in Names
        /\ entries[job[u].name] = job[u].entry /\ job[u].entry \in Entries
    BY <1>1, <1>2 DEF Apart, MatchesStage
  <2>2. mutateLock' = u
    BY <1>1, <2>1, AbsentValues DEF OthersKept
  <2>3. entries'[job[u].name] = job[u].entry
    BY <2>1, AbsentValues DEF SparesProbed, Registered
  <2> QED BY <1>1, <1>2, <2>1, <2>2, <2>3 DEF Apart
<1>3. CASE pc[u] = "goWait" /\ job[u].entry # NoEntry
  <2>1. \A n \in AllNames : entries[n] # job[u].entry
    BY <1>1, <1>3 DEF Apart
  <2>2. CASE Quiet(t) \/ Charges(t)
    BY <1>1, <1>3, <2>1, <2>2 DEF Apart, Quiet, Charges
  <2>3. CASE Unregisters(t)
    <3>1. \A n \in AllNames : entries'[n] \in {entries[n], NoEntry}
      BY <2>3 DEF Unregisters, Shape, RegShape
    <3> QED BY <1>1, <1>3, <2>1, <3>1 DEF Apart
  <2>4. CASE Registers(t)
    <3>1. PICK e \in FreshEntries : entries' = [entries EXCEPT ![job[t].name] = e]
      BY <2>4 DEF Registers, Register
    <3>2. e # job[u].entry
      BY <3>1 DEF FreshEntries
    <3>3. \A n \in AllNames : entries'[n] \in {entries[n], e}
      BY <3>1 DEF Shape, RegShape
    <3> QED BY <1>1, <1>3, <2>1, <3>2, <3>3 DEF Apart
  <2> QED BY <2>2, <2>3, <2>4 DEF OneKind
<1>4. CASE pc[u] \notin {"probeLock"} /\ ~(pc[u] = "goWait" /\ job[u].entry # NoEntry)
  BY <1>1, <1>4 DEF Apart, IsLane
<1> QED BY <1>2, <1>3, <1>4

(* Where each action leaves its own request.                                 *)

LEMMA ReturnElsewhere ==
  ASSUME Shape, NEW t \in Tasks, Return(t)
  PROVE  pc'[t] \notin Telling
BY DEF Shape, TaskShape, Return, Telling

LEMMA StepLands ==
  ASSUME Shape, NEW t \in Tasks, NEW p, NEW j, Step(t, p, j)
  PROVE  pc'[t] = p /\ job'[t] = j
BY DEF Shape, TaskShape, Step

LEMMA StepElsewhere ==
  ASSUME Shape, NEW t \in Tasks, NEW p, NEW j, Step(t, p, j), p \notin Telling
  PROVE  pc'[t] \notin Telling
BY StepLands

LEMMA StartWorksApart ==
  ASSUME Shape, NEW t \in Tasks, StartWorks(t)
  PROVE  Apart(t)'
<1>1. CASE IsLane(t)
  <2> DEFINE j == [job[t] EXCEPT !.target = NoEntry, !.chrome = NoChrome, !.join = NoWarm]
  <2>1. pc'[t] = "laneBody" /\ job'[t] = j
    BY <1>1 DEF StartWorks, Continue, Shape, TaskShape
  <2>2. j.name = job[t].name
    BY DEF Shape, TaskShape, Jobs
  <2> QED BY <1>1, <2>1, <2>2 DEF Apart, IsLane
<1>2. CASE ~IsLane(t) /\ job[t].entry # NoEntry
  <2>1. pc'[t] = "verb"
    BY <1>2 DEF StartWorks, Continue, Shape, TaskShape
  <2> QED BY <2>1, ElsewhereApart DEF Telling
<1>3. CASE ~IsLane(t) /\ job[t].entry = NoEntry
  BY <1>3, ReturnElsewhere, ElsewhereApart DEF StartWorks
<1> QED BY <1>1, <1>2, <1>3

LEMMA StartFailsApart ==
  ASSUME Shape, NEW t \in Tasks, StartFails(t)
  PROVE  Apart(t)'
<1>1. CASE ~IsLane(t) /\ job[t].entry # NoEntry
  <2>1. pc'[t] = "verb"
    BY <1>1 DEF StartFails, Continue, Shape, TaskShape
  <2> QED BY <2>1, ElsewhereApart DEF Telling
<1>2. CASE ~(~IsLane(t) /\ job[t].entry # NoEntry)
  BY <1>2, ReturnElsewhere, ElsewhereApart DEF StartFails
<1> QED BY <1>1, <1>2

LEMMA TakeWarmApart ==
  ASSUME Shape, NEW t \in Tasks, TakeWarm(t)
  PROVE  Apart(t)'
BY StartWorksApart, StartFailsApart, StepLands, ElsewhereApart DEF TakeWarm, Telling

LEMMA CreateApart ==
  ASSUME Shape, NEW t \in Tasks, Create(t)
  PROVE  Apart(t)'
<1>1. CASE StartFails(t) \/ TakeWarm(t)
  BY <1>1, StartFailsApart, TakeWarmApart
<1>2. CASE IsLane(t) /\ Step(t, "laneQueue", job[t])
  BY <1>2, StepLands DEF Apart, IsLane
<1>3. CASE Step(t, "join", [job[t] EXCEPT !.join = warmTask[job[t].name]])
  BY <1>3, StepLands, ElsewhereApart DEF Telling
<1> QED BY <1>1, <1>2, <1>3 DEF Create

LEMMA RegistryVerbApart ==
  ASSUME Shape, Rest, LocksApart, NEW t \in Tasks, RegistryVerb(t)
  PROVE  Apart(t)'
<1>1. PICK n \in Names, w \in {"persistent", "ephemeral"}, v \in Waiting \ {"goWait"} :
        \E p \in MayRunOn(n) : Step(t, v, [About(n, p) EXCEPT !.want = w])
  BY DEF RegistryVerb
<1>4. PICK p \in MayRunOn(n) : Step(t, v, [About(n, p) EXCEPT !.want = w])
  BY <1>1
<1> DEFINE j == [About(n, p) EXCEPT !.want = w]
<1>2. pc'[t] = v /\ job'[t] = j
  BY <1>4, StepLands
<1>3. j.name = n
  BY DEF NoJob, About
<1> QED BY <1>2, <1>3 DEF Apart, Waiting

LEMMA GoUnstartedApart ==
  ASSUME Shape, Rest, LocksApart, NEW t \in Tasks, GoUnstarted(t)
  PROVE  Apart(t)'
<1>1. PICK n \in Names : Step(t, "goWait", About(n, n))
  BY DEF GoUnstarted
<1>2. pc'[t] = "goWait" /\ job'[t] = About(n, n)
  BY <1>1, StepLands
<1>3. job'[t].entry = NoEntry
  BY <1>2 DEF NoJob, About
<1> QED BY <1>2, <1>3 DEF Apart

LEMMA ExploreApart ==
  ASSUME Shape, Rest, LocksApart, NEW t \in Tasks, Explore(t)
  PROVE  Apart(t)'
<1>1. PICK n \in MintedNames :
        Step(t, "laneQueue", [About(n, n) EXCEPT !.want = "ephemeral"])
  BY DEF Explore
<1> DEFINE j == [About(n, n) EXCEPT !.want = "ephemeral"]
<1>2. pc'[t] = "laneQueue" /\ job'[t] = j
  BY <1>1, StepLands
<1>3. j.name = n
  BY DEF NoJob, About
<1> QED BY <1>2, <1>3 DEF Apart, IsLane

LEMMA VerbArriveApart ==
  ASSUME Shape, Rest, LocksApart, NEW t \in Tasks, VerbArrive(t)
  PROVE  Apart(t)'
BY ReturnElsewhere, StepLands, ElsewhereApart DEF VerbArrive, AcquireOrQueue, Telling

LEMMA StartLockedApart ==
  ASSUME Shape, Rest, LocksApart, NEW t \in Tasks, StartLocked(t)
  PROVE  Apart(t)'
BY ReturnElsewhere, ElsewhereApart, CreateApart DEF StartLocked

LEMMA GoLockedApart ==
  ASSUME Shape, Rest, LocksApart, NEW t \in Tasks, GoLocked(t)
  PROVE  Apart(t)'
BY StartWorksApart, CreateApart DEF GoLocked

LEMMA JoinDoneApart ==
  ASSUME Shape, Rest, LocksApart, NEW t \in Tasks, JoinDone(t)
  PROVE  Apart(t)'
BY TakeWarmApart DEF JoinDone

LEMMA CreateSpawnApart ==
  ASSUME Shape, Rest, LocksApart, NEW t \in Tasks, CreateSpawn(t)
  PROVE  Apart(t)'
<1>1. CASE StartFails(t)
  BY <1>1, StartFailsApart
<1>2. ASSUME NEW c, Step(t, "up", [job[t] EXCEPT !.chrome = c])
      PROVE  Apart(t)'
  BY <1>2, StepLands, ElsewhereApart DEF Telling
<1> QED BY <1>1, <1>2 DEF CreateSpawn

LEMMA CreateUpApart ==
  ASSUME Shape, Rest, LocksApart, NEW t \in Tasks, CreateUp(t)
  PROVE  Apart(t)'
BY StartWorksApart, StartFailsApart DEF CreateUp

LEMMA CloseLockedApart ==
  ASSUME Shape, Rest, LocksApart, NEW t \in Tasks, CloseLocked(t)
  PROVE  Apart(t)'
BY ReturnElsewhere, StepLands, ElsewhereApart DEF CloseLocked, Pop, Telling

LEMMA LaneDoneApart ==
  ASSUME Shape, Rest, LocksApart, NEW t \in Tasks, LaneDone(t)
  PROVE  Apart(t)'
BY ReturnElsewhere, StepLands, ElsewhereApart DEF LaneDone, Pop, Telling

LEMMA CloseDoneApart ==
  ASSUME Shape, Rest, LocksApart, NEW t \in Tasks, CloseDone(t)
  PROVE  Apart(t)'
BY ReturnElsewhere, StepLands, ElsewhereApart DEF CloseDone, BeginCancel, RemoveProfile, Telling

LEMMA CancelDoneApart ==
  ASSUME Shape, Rest, LocksApart, NEW t \in Tasks, CancelDone(t)
  PROVE  Apart(t)'
BY ReturnElsewhere, StepLands, ElsewhereApart DEF CancelDone, RemoveProfile, Telling

LEMMA SweepApart ==
  ASSUME Shape, Rest, LocksApart, NEW t \in Tasks, Sweep(t)
  PROVE  Apart(t)'
BY ReturnElsewhere, StepLands, ElsewhereApart DEF Sweep, RemoveProfile, Telling

LEMMA DeleteLockedApart ==
  ASSUME Shape, Rest, LocksApart, NEW t \in Tasks, DeleteLocked(t)
  PROVE  Apart(t)'
BY ReturnElsewhere, StepLands, ElsewhereApart DEF DeleteLocked, BeginCancel, RemoveProfile, Telling

LEMMA ProbeLockedApart ==
  ASSUME Shape, Rest, LocksApart, NEW t \in Tasks, ProbeLocked(t)
  PROVE  Apart(t)'
<1> DEFINE n == job[t].name
           e == entries[n]
<1>1. n \in Names /\ job[t] \in Jobs
  BY ApartEach DEF ProbeLocked, Apart, Shape, TaskShape
<1>2. CASE Return(t)
  BY <1>2, ReturnElsewhere, ElsewhereApart
<1>3. CASE Step(t, "probe", [job[t] EXCEPT !.entry = e])
  BY <1>3, StepLands, ElsewhereApart DEF Telling
<1>4. CASE Step(t, "probeLock", [job[t] EXCEPT !.entry = e]) /\ mutateLock' = t
  <2>1. pc'[t] = "probeLock" /\ job'[t].name = n /\ job'[t].entry = e
    BY <1>1, <1>4, StepLands DEF Jobs
  <2>2. entries' = entries
    BY DEF ProbeLocked, regVars
  <2> QED BY <1>1, <1>4, <2>1, <2>2 DEF Apart
<1> QED BY <1>2, <1>3, <1>4 DEF ProbeLocked, AcquireOrQueue

LEMMA VerbRunApart ==
  ASSUME Shape, Rest, LocksApart, NEW t \in Tasks, VerbRun(t)
  PROVE  Apart(t)'
<1>1. CASE Return(t) \/ Step(t, "verb", job[t])
  BY <1>1, ReturnElsewhere, StepLands, ElsewhereApart DEF Telling
<1>2. CASE ~Registered(job[t].name) /\ Step(t, "goWait", job[t])
  <2>1. pc'[t] = "goWait" /\ job'[t] = job[t] /\ entries' = entries
    BY <1>2, StepLands DEF VerbRun, regVars
  <2>2. job[t].entry # NoEntry => \A n \in AllNames : entries[n] # job[t].entry
    BY <1>2 DEF Rest, EntriesKeepName, Registered
  <2> QED BY <2>1, <2>2 DEF Apart
<1> QED BY <1>1, <1>2 DEF VerbRun

LEMMA AttachLockedApart ==
  ASSUME Shape, Rest, LocksApart, NEW t \in Tasks, AttachLocked(t)
  PROVE  Apart(t)'
BY ReturnElsewhere, StepLands, ElsewhereApart DEF AttachLocked, Telling

LEMMA AttachDoneApart ==
  ASSUME Shape, Rest, LocksApart, NEW t \in Tasks, AttachDone(t)
  PROVE  Apart(t)'
BY ReturnElsewhere, StepLands, ElsewhereApart DEF AttachDone, Telling

LEMMA NewLockedApart ==
  ASSUME Shape, Rest, LocksApart, NEW t \in Tasks, NewLocked(t)
  PROVE  Apart(t)'
BY ReturnElsewhere, StepLands, ElsewhereApart DEF NewLocked, Telling

LEMMA ProbeRunApart ==
  ASSUME Shape, Rest, LocksApart, NEW t \in Tasks, ProbeRun(t)
  PROVE  Apart(t)'
BY ReturnElsewhere, StepLands, ElsewhereApart DEF ProbeRun, Telling

LEMMA LaneTryApart ==
  ASSUME Shape, Rest, LocksApart, NEW t \in Tasks, LaneTry(t)
  PROVE  Apart(t)'
BY ReturnElsewhere, StepLands, ElsewhereApart DEF LaneTry, Telling

LEMMA DropDoneApart ==
  ASSUME Shape, Rest, LocksApart, NEW t \in Tasks, DropDone(t)
  PROVE  Apart(t)'
BY ReturnElsewhere, StepLands, ElsewhereApart DEF DropDone, Telling

LEMMA ProbeDoneApart ==
  ASSUME Shape, Rest, LocksApart, NEW t \in Tasks, ProbeDone(t)
  PROVE  Apart(t)'
BY ReturnElsewhere, StepLands, ElsewhereApart DEF ProbeDone, Leave, Telling

LEMMA CloseTeardownApart ==
  ASSUME Shape, Rest, LocksApart, NEW t \in Tasks, CloseTeardown(t)
  PROVE  Apart(t)'
BY ReturnElsewhere, StepLands, ElsewhereApart DEF CloseTeardown, Telling

LEMMA VerbDoneApart ==
  ASSUME Shape, Rest, LocksApart, NEW t \in Tasks, VerbDone(t)
  PROVE  Apart(t)'
BY ReturnElsewhere, StepLands, ElsewhereApart DEF VerbDone, Leave, Telling

LEMMA VerbCrashApart ==
  ASSUME Shape, Rest, LocksApart, NEW t \in Tasks, VerbCrash(t)
  PROVE  Apart(t)'
BY ReturnElsewhere, StepLands, ElsewhereApart DEF VerbCrash, Leave, Telling

LEMMA HealDownApart ==
  ASSUME Shape, Rest, LocksApart, NEW t \in Tasks, HealDown(t)
  PROVE  Apart(t)'
BY ReturnElsewhere, StepLands, ElsewhereApart DEF HealDown, Telling

LEMMA HealSpawnApart ==
  ASSUME Shape, Rest, LocksApart, NEW t \in Tasks, HealSpawn(t)
  PROVE  Apart(t)'
<1>1. CASE Leave(t)
  BY <1>1, ReturnElsewhere, ElsewhereApart DEF Leave
<1>2. ASSUME NEW c, Step(t, "healUp", [job[t] EXCEPT !.chrome = c])
      PROVE  Apart(t)'
  BY <1>2, StepLands, ElsewhereApart DEF Telling
<1> QED BY <1>1, <1>2 DEF HealSpawn

LEMMA HealUpApart ==
  ASSUME Shape, Rest, LocksApart, NEW t \in Tasks, HealUp(t)
  PROVE  Apart(t)'
BY ReturnElsewhere, StepLands, ElsewhereApart DEF HealUp, Leave, Adopt, Telling

LEMMA HealUndoApart ==
  ASSUME Shape, Rest, LocksApart, NEW t \in Tasks, HealUndo(t)
  PROVE  Apart(t)'
BY ReturnElsewhere, StepLands, ElsewhereApart DEF HealUndo, Leave, Telling

LEMMA HealGuardApart ==
  ASSUME Shape, Rest, LocksApart, NEW t \in Tasks, HealGuard(t)
  PROVE  Apart(t)'
BY ReturnElsewhere, StepLands, ElsewhereApart DEF HealGuard, Leave, Adopt, Telling

(* What each action takes out of the registry.                               *)

LEMMA KindSpares ==
  ASSUME NEW t \in Tasks, Quiet(t) \/ Registers(t) \/ Charges(t)
  PROVE  SparesProbed(t)
BY DEF Quiet, Registers, Charges, CanCreate, SparesProbed

LEMMA CloseLockedSpares ==
  ASSUME NEW t \in Tasks, CloseLocked(t)
  PROVE  SparesProbed(t)
BY DEF CloseLocked, SparesProbed

LEMMA LaneDoneSpares ==
  ASSUME Shape, LocksApart, NEW t \in Tasks, LaneDone(t)
  PROVE  SparesProbed(t)
<1>1. job[t].name \in MintedNames
  BY ApartEach DEF LaneDone, Apart, IsLane
<1>2. entries' = [entries EXCEPT ![job[t].name] = NoEntry]
  BY DEF LaneDone, Pop
<1> QED BY <1>1, <1>2, NamesDisjoint DEF SparesProbed, Shape, RegShape, AllNames

LEMMA RequestApart ==
  ASSUME Shape, Rest, LocksApart, ~PinnedExplore, NEW t \in Tasks, Request(t)
  PROVE  Apart(t)' /\ SparesProbed(t)
<1>1. CASE RegistryVerb(t)
  BY <1>1, RegistryVerbApart, RegistryVerbEffect, KindSpares
<1>2. CASE GoUnstarted(t)
  BY <1>2, GoUnstartedApart, GoUnstartedEffect, KindSpares
<1>3. CASE Explore(t)
  BY <1>3, ExploreApart, ExploreEffect, KindSpares
<1>4. CASE VerbArrive(t)
  BY <1>4, VerbArriveApart, VerbArriveEffect, KindSpares
<1>5. ~PinnedStop(t)
  BY DEF PinnedStop
<1> QED BY <1>1, <1>2, <1>3, <1>4, <1>5 DEF Request

LEMMA AcquireApart ==
  ASSUME Shape, Rest, LocksApart, NEW t \in Tasks, Acquire(t)
  PROVE  Apart(t)' /\ SparesProbed(t)
<1>1. CASE StartLocked(t)
  BY <1>1, StartLockedApart, StartLockedEffect, KindSpares
<1>2. CASE GoLocked(t)
  BY <1>2, GoLockedApart, GoLockedEffect, KindSpares
<1>3. CASE AttachLocked(t)
  BY <1>3, AttachLockedApart, AttachLockedEffect, KindSpares
<1>4. CASE NewLocked(t)
  BY <1>4, NewLockedApart, NewLockedEffect, KindSpares
<1>5. CASE CloseLocked(t)
  BY <1>5, CloseLockedApart, CloseLockedSpares
<1>6. CASE DeleteLocked(t)
  BY <1>6, DeleteLockedApart, DeleteLockedEffect, KindSpares
<1>7. CASE ProbeLocked(t)
  BY <1>7, ProbeLockedApart, ProbeLockedEffect, KindSpares
<1>8. CASE ProbeRun(t)
  BY <1>8, ProbeRunApart, ProbeRunEffect, KindSpares
<1>9. CASE VerbRun(t)
  BY <1>9, VerbRunApart, VerbRunEffect, KindSpares
<1> QED BY <1>1, <1>2, <1>3, <1>4, <1>5, <1>6, <1>7, <1>8, <1>9 DEF Acquire

LEMMA ProgressApart ==
  ASSUME Shape, Rest, LocksApart, NEW t \in Tasks, Progress(t)
  PROVE  Apart(t)' /\ SparesProbed(t)
<1>1. CASE LaneTry(t)
  BY <1>1, LaneTryApart, LaneTryEffect, KindSpares
<1>2. CASE JoinDone(t)
  BY <1>2, JoinDoneApart, JoinDoneEffect, KindSpares
<1>3. CASE DropDone(t)
  BY <1>3, DropDoneApart, DropDoneEffect, KindSpares
<1>4. CASE CreateSpawn(t)
  BY <1>4, CreateSpawnApart, CreateSpawnEffect, KindSpares
<1>5. CASE CreateUp(t)
  BY <1>5, CreateUpApart, CreateUpEffect, KindSpares
<1>6. CASE AttachDone(t)
  BY <1>6, AttachDoneApart, AttachDoneEffect, KindSpares
<1>7. CASE ProbeDone(t)
  BY <1>7, ProbeDoneApart, ProbeDoneEffect, KindSpares
<1>8. CASE LaneDone(t)
  BY <1>8, LaneDoneApart, LaneDoneSpares
<1>9. CASE CloseTeardown(t)
  BY <1>9, CloseTeardownApart, CloseTeardownEffect, KindSpares
<1>10. CASE CloseDone(t)
  BY <1>10, CloseDoneApart, CloseDoneEffect, KindSpares
<1>11. CASE CancelDone(t)
  BY <1>11, CancelDoneApart, CancelDoneEffect, KindSpares
<1>12. CASE Sweep(t)
  BY <1>12, SweepApart, SweepEffect, KindSpares
<1>13. CASE VerbDone(t)
  BY <1>13, VerbDoneApart, VerbDoneEffect, KindSpares
<1>14. CASE VerbCrash(t)
  BY <1>14, VerbCrashApart, VerbCrashEffect, KindSpares
<1>15. CASE HealDown(t)
  BY <1>15, HealDownApart, HealDownEffect, KindSpares
<1>16. CASE HealSpawn(t)
  BY <1>16, HealSpawnApart, HealSpawnEffect, KindSpares
<1>17. CASE HealUp(t)
  BY <1>17, HealUpApart, HealUpEffect, KindSpares
<1>18. CASE HealUndo(t)
  BY <1>18, HealUndoApart, HealUndoEffect, KindSpares
<1>19. CASE HealGuard(t)
  BY <1>19, HealGuardApart, HealGuardEffect, KindSpares
<1> QED BY <1>1, <1>2, <1>3, <1>4, <1>5, <1>6, <1>7, <1>8, <1>9, <1>10, <1>11, <1>12, <1>13, <1>14, <1>15, <1>16, <1>17, <1>18, <1>19 DEF Progress

LEMMA InitApart == Init => LocksApart
BY DEF Init, LocksApart

LEMMA NextApart ==
  ASSUME ~PinnedExplore, IndInv, LocksApart, [Next]_vars
  PROVE  LocksApart'
<1>1. Shape /\ Rest
  BY InvIsShapeAndRest
<1>2. CASE UNCHANGED <<entries, mutateLock, pc, job>>
  BY <1>2 DEF LocksApart, IsLane
<1>3. ASSUME NEW t \in Tasks, Request(t) \/ Acquire(t) \/ Progress(t)
      PROVE  LocksApart'
  <2>1. Apart(t)' /\ SparesProbed(t)
    BY <1>1, <1>3, RequestApart, AcquireApart, ProgressApart
  <2>2. OneKind(t)
    BY <1>1, <1>3, TaskStepKeeps
  <2>3. \A u \in Tasks \ {t} : Apart(u)'
    BY <1>1, <2>1, <2>2, OthersApart
  <2> QED BY <2>1, <2>3, ApartEach
<1>4. ASSUME NEW k \in WarmTasks, Prewarm(k)
      PROVE  UNCHANGED <<entries, mutateLock, pc, job>>
  BY <1>4 DEF Prewarm, PreSpawn, PreUp, PreDiscard, PreCancelled, regVars
<1>5. ASSUME NEW n \in Names, GoalPin(n)
      PROVE  UNCHANGED <<entries, mutateLock, pc, job>>
  BY <1>5 DEF GoalPin
<1> QED BY <1>2, <1>3, <1>4, <1>5 DEF Next, vars, regVars

\* As long as no client runs `explore` on a named session, whose close takes no
\* lock, geo_info and gpu_info (mutate_lock, then entry.lock) and an
\* auto-starting `go` (entry.lock, then mutate_lock) never wait for each other.
THEOREM LocksNeverEmbrace == ASSUME ~PinnedExplore PROVE Spec => []NoDeadlyEmbrace
<1>1. Init => IndInv /\ LocksApart
  BY InitInv, InitApart
<1>2. IndInv /\ LocksApart /\ [Next]_vars => IndInv' /\ LocksApart'
  BY NextInv, NextApart
<1>3. IndInv /\ LocksApart => NoDeadlyEmbrace
  BY AbsentValues DEF IndInv, JobsMatchStage, MatchesStage, LocksApart, NoDeadlyEmbrace, AllNames
<1> QED BY <1>1, <1>2, <1>3, PTL DEF Spec

------------------------------------------------------------------------------
(* Where sessions run: a session that is registered, launching or closing is *)
(* on a profile its `start` may have asked for, and a lane on that of its    *)
(* minted name.                                                              *)

PlacesOf(n) == IF n \in MintedNames THEN {n} ELSE MayRunOn(n)
Own(n, p) == n \in AllNames => p \in PlacesOf(n)

JobPlaced(t) ==
  /\ Own(job[t].name, job[t].profile)
  /\ job[t].target # NoEntry => Own(job[t].name, profile[job[t].target])

Placed ==
  /\ \A t \in Tasks : JobPlaced(t)
  /\ \A k \in WarmTasks : Own(pre[k].name, pre[k].profile)
  /\ \A n \in AllNames : Registered(n) => Own(n, profile[entries[n]])

(* The steps: a request is answered, goes on with what it was about, begins, *)
(* or takes up the session that is registered.                               *)

Begins(t, n) == job'[t].profile \in PlacesOf(n) /\ job'[t].target = NoEntry
TakesUp(t, n) ==
  /\ Registered(n) /\ job'[t].target = entries[n]
  /\ \/ job'[t].profile = profile[entries[n]]
     \/ job'[t].profile = job[t].profile /\ job[t].name = n

Goes(t) ==
  /\ \A u \in Tasks \ {t} : job'[u] = job[u]
  /\ \/ job'[t].name \notin AllNames
     \/ /\ job'[t].name = job[t].name /\ job'[t].profile = job[t].profile
        /\ job'[t].target \in {job[t].target, NoEntry}
     \/ \E n \in AllNames : job'[t].name = n /\ (Begins(t, n) \/ TakesUp(t, n))

EnrollsNone == (\A n \in AllNames : entries'[n] \in {entries[n], NoEntry}) /\ UNCHANGED profile
Enrolls ==
  \E e \in FreshEntries, n \in AllNames : \E p \in PlacesOf(n) :
    /\ entries' = [entries EXCEPT ![n] = e]
    /\ profile' = [profile EXCEPT ![e] = p]
PoolPlaced == \A k \in WarmTasks : pre'[k] = pre[k] \/ Own(pre'[k].name, pre'[k].profile)

Moves(t) == Goes(t) /\ (EnrollsNone \/ Enrolls) /\ PoolPlaced

LEMMA PlacesAreProfiles ==
  /\ NoName \notin AllNames
  /\ \A n \in AllNames : n \in PlacesOf(n) /\ PlacesOf(n) \subseteq Profiles
BY NamesAreProfiles, AbsentValues DEF PlacesOf, MayRunOn, AllNames

LEMMA MovesKeepsPlaced ==
  ASSUME Shape, Placed, NEW t \in Tasks, Moves(t)
  PROVE  Placed'
<1>1. /\ \A u \in Tasks : job[u].target \in Entries \cup {NoEntry}
      /\ entries \in [AllNames -> Entries \cup {NoEntry}] /\ DOMAIN profile = Entries
  BY DEF Shape, TaskShape, RegShape, Jobs
<1>2. /\ \A u \in Tasks : job[u].target # NoEntry => profile'[job[u].target] = profile[job[u].target]
      /\ \A n \in AllNames : Registered(n) => profile'[entries[n]] = profile[entries[n]]
  BY <1>1 DEF Moves, EnrollsNone, Enrolls, FreshEntries, Registered
<1>3. \A u \in Tasks \ {t} : JobPlaced(u)'
  BY <1>2 DEF Placed, JobPlaced, Moves, Goes, Own, PlacesOf, MayRunOn
<1>4. JobPlaced(t)'
  <2>1. CASE job'[t].name \notin AllNames
    BY <2>1 DEF JobPlaced, Own
  <2>2. CASE /\ job'[t].name = job[t].name /\ job'[t].profile = job[t].profile
             /\ job'[t].target \in {job[t].target, NoEntry}
    BY <1>2, <2>2 DEF Placed, JobPlaced, Own, PlacesOf, MayRunOn
  <2>3. ASSUME NEW n \in AllNames, job'[t].name = n, Begins(t, n)
        PROVE  JobPlaced(t)'
    BY <2>3 DEF JobPlaced, Own, Begins, PlacesOf, MayRunOn
  <2>4. ASSUME NEW n \in AllNames, job'[t].name = n, TakesUp(t, n)
        PROVE  JobPlaced(t)'
    BY <1>2, <2>4 DEF Placed, JobPlaced, Own, TakesUp, PlacesOf, MayRunOn
  <2> QED BY <2>1, <2>2, <2>3, <2>4 DEF Moves, Goes
<1>5. \A k \in WarmTasks : Own(pre[k].name, pre[k].profile)'
  BY DEF Placed, Moves, PoolPlaced, Own, PlacesOf, MayRunOn
<1>6. \A n \in AllNames : Registered(n)' => Own(n, profile[entries[n]])'
  <2>1. CASE EnrollsNone
    BY <2>1 DEF EnrollsNone, Placed, Registered, Own, PlacesOf, MayRunOn
  <2>2. ASSUME NEW e \in FreshEntries, NEW n \in AllNames, NEW p \in PlacesOf(n),
               entries' = [entries EXCEPT ![n] = e], profile' = [profile EXCEPT ![e] = p]
        PROVE  \A m \in AllNames : Registered(m)' => Own(m, profile[entries[m]])'
    <3>1. entries'[n] = e /\ profile'[e] = p /\ \A m \in AllNames \ {n} : entries'[m] = entries[m]
      BY <1>1, <2>2 DEF FreshEntries
    <3>2. Own(n, profile[entries[n]])'
      BY <3>1 DEF Own, PlacesOf, MayRunOn
    <3>3. ASSUME NEW m \in AllNames \ {n}, Registered(m)'
          PROVE  Own(m, profile[entries[m]])'
      <4>1. Registered(m) /\ entries'[m] = entries[m] /\ profile'[entries[m]] = profile[entries[m]]
        BY <1>2, <3>1, <3>3 DEF Registered
      <4> QED BY <4>1 DEF Placed, Own, PlacesOf, MayRunOn
    <3> QED BY <3>2, <3>3
  <2> QED BY <2>1, <2>2 DEF Moves, Enrolls
<1> QED BY <1>3, <1>4, <1>5, <1>6 DEF Placed

LEMMA ReturnGoes ==
  ASSUME Shape, NEW t \in Tasks, Return(t)
  PROVE  Goes(t)
BY PlacesAreProfiles DEF Shape, TaskShape, Return, NoJob, Goes

LEMMA StepGoes ==
  ASSUME Shape, NEW t \in Tasks, NEW p, NEW j, Step(t, p, j),
         j.name = job[t].name, j.profile = job[t].profile, j.target \in {job[t].target, NoEntry}
  PROVE  Goes(t)
BY DEF Shape, TaskShape, Step, Goes

LEMMA ContinueGoes ==
  ASSUME Shape, NEW t \in Tasks, NEW p, Continue(t, p)
  PROVE  Goes(t)
<1> DEFINE j == [job[t] EXCEPT !.target = NoEntry, !.chrome = NoChrome, !.join = NoWarm]
<1>1. j.name = job[t].name /\ j.profile = job[t].profile /\ j.target = NoEntry
  BY DEF Shape, TaskShape, Jobs
<1>2. Step(t, p, j)
  BY DEF Continue, Step
<1> QED BY <1>1, <1>2, StepGoes

LEMMA StartEndGoes ==
  ASSUME Shape, NEW t \in Tasks, StartWorks(t) \/ StartFails(t)
  PROVE  Goes(t)
BY ReturnGoes, ContinueGoes DEF StartWorks, StartFails

LEMMA SameRegistry == UNCHANGED <<entries, profile>> => EnrollsNone
BY DEF EnrollsNone

LEMMA SamePool == UNCHANGED pre => PoolPlaced
BY DEF PoolPlaced

\* What a request launches a session on, it registers the session with.
LEMMA RegisterEnrolls ==
  ASSUME NEW n \in AllNames, NEW c, NEW want, NEW p \in PlacesOf(n), Register(n, c, want, p)
  PROVE  Enrolls
BY DEF Register, Enrolls

LEMMA ScheduleMoves ==
  ASSUME Shape, NEW n \in AllNames, NEW p \in PlacesOf(n), Schedule(n, p)
  PROVE  PoolPlaced
<1>1. ASSUME NEW k \in FreshWarmTasks,
             pre' = [pre EXCEPT ![k] = [OffPre EXCEPT !.st = "spawn", !.name = n, !.profile = p]]
      PROVE  PoolPlaced
  <2> DEFINE r == [OffPre EXCEPT !.st = "spawn", !.name = n, !.profile = p]
  <2>1. r.name = n /\ r.profile = p
    BY DEF OffPre
  <2>2. \A l \in WarmTasks : pre'[l] = pre[l] \/ pre'[l] = r
    BY <1>1 DEF Shape, PoolShape
  <2> QED BY <2>1, <2>2 DEF PoolPlaced, Own
<1> QED BY <1>1, SamePool DEF Schedule, poolVars

LEMMA BeginCancelMoves ==
  ASSUME Shape, Placed, NEW t \in Tasks, BeginCancel(t)
  PROVE  Goes(t) /\ PoolPlaced
<1> DEFINE n == job[t].name
           k == warmTask[n]
<1>1. job[t] \in Jobs /\ pre \in [WarmTasks -> [st : {"off", "spawn", "up", "discard", "cancelled"},
                            name : AllNames \cup {NoName}, profile : Profiles \cup {NoName},
                            chrome : Chromes \cup {NoChrome}]]
  BY DEF Shape, TaskShape, PoolShape
<1>2. CASE k # NoWarm
  <2> DEFINE j == [job[t] EXCEPT !.join = k, !.chrome = NoChrome]
  <2>1. Step(t, "cancel", j) /\ pre' = [pre EXCEPT ![k].st = "cancelled"]
    BY <1>2 DEF BeginCancel
  <2>2. j.name = job[t].name /\ j.profile = job[t].profile /\ j.target = job[t].target
    BY <1>1 DEF Jobs
  <2>3. \A l \in WarmTasks : pre'[l].name = pre[l].name /\ pre'[l].profile = pre[l].profile
    BY <1>1, <2>1
  <2> QED BY <2>1, <2>2, <2>3, StepGoes DEF PoolPlaced, Placed
<1>3. CASE k = NoWarm
  <2> DEFINE j == [job[t] EXCEPT !.chrome = warm[n]]
  <2>1. Step(t, "sweep", j) /\ UNCHANGED pre
    BY <1>3 DEF BeginCancel
  <2>2. j.name = job[t].name /\ j.profile = job[t].profile /\ j.target = job[t].target
    BY <1>1 DEF Jobs
  <2> QED BY <2>1, <2>2, StepGoes, SamePool
<1> QED BY <1>2, <1>3

LEMMA PopMoves ==
  ASSUME Shape, NEW t \in Tasks, NEW n \in AllNames, NEW d \in Jobs, Registered(n), Pop(t, n, d)
  PROVE  Moves(t)
<1> DEFINE j == [d EXCEPT !.name = n, !.target = entries[n], !.profile = profile[entries[n]]]
<1>1. j.name = n /\ j.target = entries[n] /\ j.profile = profile[entries[n]]
  BY DEF Jobs
<1>2. Step(t, "popped", j) /\ entries' = [entries EXCEPT ![n] = NoEntry] /\ UNCHANGED <<profile, pre>>
  BY DEF Pop, poolVars
<1> HIDE DEF j
<1>3. Goes(t)
  BY <1>1, <1>2 DEF Step, Shape, TaskShape, Goes, TakesUp
<1>4. EnrollsNone
  BY <1>2 DEF EnrollsNone, Shape, RegShape
<1> QED BY <1>2, <1>3, <1>4, SamePool DEF Moves

LEMMA BeginGoes ==
  ASSUME Shape, NEW t \in Tasks, NEW st, NEW j, NEW n \in AllNames, Step(t, st, j),
         j.name = n, j.profile \in PlacesOf(n), j.target = NoEntry
  PROVE  Goes(t)
BY DEF Shape, TaskShape, Step, Goes, Begins

LEMMA RequestMoves ==
  ASSUME Shape, NEW t \in Tasks, Request(t)
  PROVE  Moves(t)
<1>0. /\ \A n \in Names : n \in AllNames /\ PlacesOf(n) = MayRunOn(n) /\ n \in PlacesOf(n)
      /\ \A n \in MintedNames : n \in AllNames /\ n \in PlacesOf(n)
  BY NamesDisjoint DEF PlacesOf, AllNames, MayRunOn
<1>1. CASE RegistryVerb(t)
  <2>1. PICK n \in Names, want \in {"persistent", "ephemeral"}, verb \in Waiting \ {"goWait"} :
          \E p \in MayRunOn(n) : Step(t, verb, [About(n, p) EXCEPT !.want = want])
    BY <1>1 DEF RegistryVerb
  <2>2. PICK p \in MayRunOn(n) : Step(t, verb, [About(n, p) EXCEPT !.want = want])
    BY <2>1
  <2> DEFINE j == [About(n, p) EXCEPT !.want = want]
  <2>3. j.name = n /\ j.profile = p /\ j.target = NoEntry
    BY DEF About, NoJob
  <2> HIDE DEF j
  <2>4. Goes(t)
    BY <1>0, <2>2, <2>3, BeginGoes DEF j
  <2> QED BY <1>1, <2>4, SameRegistry, SamePool DEF RegistryVerb, Moves, regVars, poolVars
<1>2. CASE GoUnstarted(t)
  <2>1. PICK n \in Names : Step(t, "goWait", About(n, n))
    BY <1>2 DEF GoUnstarted
  <2>2. About(n, n).name = n /\ About(n, n).profile = n /\ About(n, n).target = NoEntry
    BY DEF About, NoJob
  <2>3. Goes(t)
    BY <1>0, <2>1, <2>2, BeginGoes
  <2> QED BY <1>2, <2>3, SameRegistry, SamePool DEF GoUnstarted, Moves, regVars, poolVars
<1>3. CASE Explore(t)
  <2>1. PICK n \in MintedNames : Step(t, "laneQueue", [About(n, n) EXCEPT !.want = "ephemeral"])
    BY <1>3 DEF Explore
  <2> DEFINE j == [About(n, n) EXCEPT !.want = "ephemeral"]
  <2>2. j.name = n /\ j.profile = n /\ j.target = NoEntry
    BY DEF About, NoJob
  <2>3. Goes(t)
    BY <1>0, <2>1, <2>2, BeginGoes
  <2> QED BY <1>3, <2>3, SameRegistry, SamePool DEF Explore, Moves, regVars, poolVars
<1>4. CASE VerbArrive(t)
  <2>1. PICK n \in Names, st \in {"verb", "verbWait"} :
          Step(t, st, [About(n, n) EXCEPT !.entry = entries[n]])
    BY <1>4 DEF VerbArrive, AcquireOrQueue
  <2> DEFINE j == [About(n, n) EXCEPT !.entry = entries[n]]
  <2>2. j.name = n /\ j.profile = n /\ j.target = NoEntry
    BY DEF About, NoJob
  <2>3. Goes(t)
    BY <1>0, <2>1, <2>2, BeginGoes
  <2> QED BY <1>4, <2>3, SameRegistry, SamePool DEF VerbArrive, Moves, regVars, poolVars
<1>5. CASE PinnedStop(t)
  <2>1. PICK n \in Names : Registered(n) /\ Pop(t, n, NoJob)
    BY <1>5 DEF PinnedStop
  <2>2. NoJob \in Jobs
    BY DEF NoJob, Jobs
  <2> QED BY <1>0, <2>1, <2>2, PopMoves
<1> QED BY <1>1, <1>2, <1>3, <1>4, <1>5 DEF Request

\* What a request is about, once it is about something.
LEMMA JobIsPlaced ==
  ASSUME Shape, Placed, NEW t \in Tasks, pc[t] # "idle"
  PROVE  /\ job[t] \in Jobs /\ job[t].name \in AllNames
         /\ job[t].profile \in PlacesOf(job[t].name)
BY DEF Shape, TaskShape, MatchesStage, Placed, JobPlaced, Own

LEMMA TakeWarmMoves ==
  ASSUME Shape, Placed, NEW t \in Tasks, pc[t] # "idle", TakeWarm(t)
  PROVE  Moves(t)
<1> DEFINE n == job[t].name
           c == warm[n]
<1>1. job[t] \in Jobs /\ n \in AllNames /\ job[t].profile \in PlacesOf(n)
  BY JobIsPlaced
<1>2. CASE /\ Register(n, c, job[t].want, job[t].profile)
           /\ StartWorks(t)
           /\ UNCHANGED <<lockVars, warmTask, pre, runs, stray>>
  BY <1>1, <1>2, StartEndGoes, RegisterEnrolls, SamePool DEF Moves
<1>3. CASE /\ Step(t, "drop", [job[t] EXCEPT !.chrome = c, !.join = NoWarm])
           /\ UNCHANGED <<regVars, lockVars, warmTask, pre, runs, stray>>
  <2> DEFINE j == [job[t] EXCEPT !.chrome = c, !.join = NoWarm]
  <2>1. j.name = n /\ j.profile = job[t].profile /\ j.target = job[t].target
    BY <1>1 DEF Jobs
  <2>2. Goes(t)
    BY <1>3, <2>1, StepGoes
  <2> QED BY <1>3, <2>2, SameRegistry, SamePool DEF Moves, regVars
<1>4. CASE /\ Step(t, "spawn", [job[t] EXCEPT !.join = NoWarm])
           /\ UNCHANGED <<regVars, lockVars, poolVars, runs, stray>>
  <2> DEFINE j == [job[t] EXCEPT !.join = NoWarm]
  <2>1. j.name = n /\ j.profile = job[t].profile /\ j.target = job[t].target
    BY <1>1 DEF Jobs
  <2>2. Goes(t)
    BY <1>4, <2>1, StepGoes
  <2> QED BY <1>4, <2>2, SameRegistry, SamePool DEF Moves, regVars, poolVars
<1>5. CASE StartFails(t) /\ UNCHANGED <<regVars, lockVars, poolVars, runs, stray>>
  BY <1>5, StartEndGoes, SameRegistry, SamePool DEF Moves, regVars, poolVars
<1> QED BY <1>2, <1>3, <1>4, <1>5 DEF TakeWarm

LEMMA CreateMoves ==
  ASSUME Shape, Placed, NEW t \in Tasks, pc[t] # "idle", Create(t)
  PROVE  Moves(t)
<1>1. CASE StartFails(t) /\ UNCHANGED <<regVars, lockVars, poolVars, runs, stray>>
  BY <1>1, StartEndGoes, SameRegistry, SamePool DEF Moves, regVars, poolVars
<1>2. CASE Step(t, "laneQueue", job[t]) /\ UNCHANGED <<regVars, lockVars, poolVars, runs, stray>>
  BY <1>2, StepGoes, SameRegistry, SamePool DEF Moves, regVars, poolVars
<1>3. CASE /\ Step(t, "join", [job[t] EXCEPT !.join = warmTask[job[t].name]])
           /\ UNCHANGED <<regVars, lockVars, warm, pre, runs, stray>>
  <2> DEFINE j == [job[t] EXCEPT !.join = warmTask[job[t].name]]
  <2>1. j.name = job[t].name /\ j.profile = job[t].profile /\ j.target = job[t].target
    BY DEF Jobs, Shape, TaskShape
  <2>2. Goes(t)
    BY <1>3, <2>1, StepGoes
  <2> QED BY <1>3, <2>2, SameRegistry, SamePool DEF Moves, regVars
<1>4. CASE TakeWarm(t)
  BY <1>4, TakeWarmMoves
<1> QED BY <1>1, <1>2, <1>3, <1>4 DEF Create

LEMMA AcquireMoves ==
  ASSUME Shape, Placed, NEW t \in Tasks, Acquire(t)
  PROVE  Moves(t)
<1>1. CASE StartLocked(t) \/ GoLocked(t)
  <2>1. pc[t] # "idle"
    BY <1>1 DEF StartLocked, GoLocked
  <2>2. CASE Create(t)
    BY <2>1, <2>2, CreateMoves
  <2>3. CASE Return(t) /\ UNCHANGED <<entries, profile, session, walled, lockVars, poolVars, osVars>>
    BY <2>3, ReturnGoes, SameRegistry, SamePool DEF Moves, poolVars
  <2>4. CASE StartWorks(t) /\ UNCHANGED <<regVars, lockVars, poolVars, osVars>>
    BY <2>4, StartEndGoes, SameRegistry, SamePool DEF Moves, regVars, poolVars
  <2> QED BY <1>1, <2>2, <2>3, <2>4 DEF StartLocked, GoLocked
<1>2. CASE AttachLocked(t)
  BY <1>2, ReturnGoes, StepGoes, SameRegistry, SamePool DEF AttachLocked, Moves, regVars, poolVars
<1>3. CASE NewLocked(t)
  <2>1. PoolPlaced
    BY <1>3, JobIsPlaced, PlacesAreProfiles, ScheduleMoves DEF NewLocked
  <2> QED BY <1>3, <2>1, ReturnGoes, SameRegistry DEF NewLocked, Moves, regVars
<1>4. CASE CloseLocked(t)
  <2>1. job[t] \in Jobs /\ job[t].name \in AllNames
    BY <1>4, JobIsPlaced DEF CloseLocked
  <2>2. CASE Registered(job[t].name) /\ Pop(t, job[t].name, job[t])
    BY <2>1, <2>2, PopMoves
  <2>3. CASE Return(t) /\ UNCHANGED <<regVars, lockVars, poolVars, osVars>>
    BY <2>3, ReturnGoes, SameRegistry, SamePool DEF Moves, regVars, poolVars
  <2> QED BY <1>4, <2>2, <2>3 DEF CloseLocked
<1>5. CASE DeleteLocked(t)
  <2>1. CASE Return(t) /\ UNCHANGED poolVars
    BY <1>5, <2>1, ReturnGoes, SameRegistry, SamePool DEF DeleteLocked, Moves, regVars, poolVars
  <2>2. CASE BeginCancel(t)
    BY <1>5, <2>2, BeginCancelMoves, SameRegistry DEF DeleteLocked, Moves, regVars
  <2> QED BY <1>5, <2>1, <2>2 DEF DeleteLocked, RemoveProfile
<1>6. CASE ProbeLocked(t)
  <2> DEFINE j == [job[t] EXCEPT !.entry = entries[job[t].name]]
  <2>1. j.name = job[t].name /\ j.profile = job[t].profile /\ j.target = job[t].target
    BY DEF Jobs, Shape, TaskShape
  <2>2. Goes(t)
    <3>1. CASE Return(t)
      BY <3>1, ReturnGoes
    <3>2. ASSUME NEW st, Step(t, st, j) PROVE Goes(t)
      BY <2>1, <3>2, StepGoes
    <3> QED BY <1>6, <3>1, <3>2 DEF ProbeLocked, AcquireOrQueue
  <2> QED BY <1>6, <2>2, SameRegistry, SamePool DEF ProbeLocked, Moves, regVars, poolVars
<1>7. CASE ProbeRun(t)
  BY <1>7, StepGoes, SameRegistry, SamePool DEF ProbeRun, Moves, regVars, poolVars
<1>8. CASE VerbRun(t)
  <2>1. Goes(t)
    BY <1>8, StepGoes, ReturnGoes DEF VerbRun
  <2> QED BY <1>8, <2>1, SameRegistry, SamePool DEF VerbRun, Moves, regVars, poolVars
<1> QED BY <1>1, <1>2, <1>3, <1>4, <1>5, <1>6, <1>7, <1>8 DEF Acquire

LEMMA CloseDoneMoves ==
  ASSUME Shape, Placed, NEW t \in Tasks, CloseDone(t)
  PROVE  Moves(t)
<1>1. job[t].name \in AllNames /\ job[t].profile \in PlacesOf(job[t].name)
  BY JobIsPlaced DEF CloseDone
<1>2. CASE BeginCancel(t)
  BY <1>2, BeginCancelMoves, SameRegistry DEF CloseDone, Moves
<1>3. CASE Return(t) /\ (Schedule(job[t].name, job[t].profile) \/ UNCHANGED poolVars)
  <2>1. PoolPlaced
    BY <1>1, <1>3, ScheduleMoves, SamePool DEF poolVars
  <2> QED BY <1>3, <2>1, ReturnGoes, SameRegistry DEF CloseDone, Moves
<1> QED BY <1>2, <1>3 DEF CloseDone, RemoveProfile

LEMMA VerbCrashMoves ==
  ASSUME Shape, NEW t \in Tasks, VerbCrash(t)
  PROVE  Moves(t)
<1> DEFINE n == job[t].name
           j == [job[t] EXCEPT !.target = entries[n], !.chrome = session[entries[n]]]
<1>1. n \in AllNames /\ j.name = n /\ j.profile = job[t].profile /\ j.target = entries[n]
  BY DEF VerbCrash, Shape, TaskShape, MatchesStage, Jobs
<1>2. Goes(t)
  <2>1. CASE Leave(t)
    BY <2>1, ReturnGoes DEF Leave
  <2>2. CASE Registered(n) /\ Step(t, "healDown", j)
    <3>1. job'[t] = j /\ \A u \in Tasks \ {t} : job'[u] = job[u]
      BY <2>2 DEF Step, Shape, TaskShape
    <3> QED BY <1>1, <2>2, <3>1 DEF Goes, TakesUp
  <2> QED BY <2>1, <2>2 DEF VerbCrash, Relaunchable
<1> QED BY <1>2, SameRegistry, SamePool DEF VerbCrash, Moves, regVars, poolVars

LEMMA HandOver ==
  ASSUME Shape, NEW t \in Tasks, NEW c
  PROVE  LET j == [job[t] EXCEPT !.chrome = c]
             i == [job[t] EXCEPT !.target = NoEntry, !.chrome = c]
             h == [job[t] EXCEPT !.chrome = c, !.join = NoWarm]
         IN  /\ j.name = job[t].name /\ j.profile = job[t].profile /\ j.target = job[t].target
             /\ i.name = job[t].name /\ i.profile = job[t].profile /\ i.target = NoEntry
             /\ h.name = job[t].name /\ h.profile = job[t].profile /\ h.target = job[t].target
BY DEF Shape, TaskShape, Jobs

LEMMA ProgressMoves ==
  ASSUME Shape, Placed, NEW t \in Tasks, Progress(t)
  PROVE  Moves(t)
<1>1. CASE LaneTry(t)
  BY <1>1, StepGoes, SameRegistry, SamePool DEF LaneTry, Moves, regVars, poolVars
<1>2. CASE JoinDone(t)
  BY <1>2, TakeWarmMoves DEF JoinDone
<1>3. CASE DropDone(t) \/ HealDown(t)
  <2>1. Goes(t)
    BY <1>3, HandOver, StepGoes DEF DropDone, HealDown
  <2> QED BY <1>3, <2>1, SameRegistry, SamePool DEF DropDone, HealDown, Moves, poolVars
<1>4. CASE CreateSpawn(t)
  <2>1. Goes(t)
    BY <1>4, HandOver, StepGoes, StartEndGoes DEF CreateSpawn
  <2> QED BY <1>4, <2>1, SameRegistry, SamePool DEF CreateSpawn, Moves, regVars, poolVars
<1>5. CASE CreateUp(t)
  <2>1. Goes(t)
    BY <1>5, StartEndGoes DEF CreateUp
  <2>2. EnrollsNone \/ Enrolls
    BY <1>5, JobIsPlaced, RegisterEnrolls, SameRegistry DEF CreateUp
  <2> QED BY <1>5, <2>1, <2>2, SamePool DEF CreateUp, Moves, poolVars
<1>6. CASE AttachDone(t)
  <2>1. Goes(t)
    BY <1>6, ReturnGoes DEF AttachDone
  <2>2. EnrollsNone \/ Enrolls
    BY <1>6, JobIsPlaced, PlacesAreProfiles, RegisterEnrolls, SameRegistry DEF AttachDone, regVars
  <2> QED BY <1>6, <2>1, <2>2, SamePool DEF AttachDone, Moves, poolVars
<1>7. CASE ProbeDone(t) \/ VerbDone(t)
  BY <1>7, ReturnGoes, SameRegistry, SamePool DEF ProbeDone, VerbDone, Leave, Moves, regVars, poolVars
<1>8. CASE LaneDone(t)
  BY <1>8, JobIsPlaced, PopMoves DEF LaneDone
<1>9. CASE CloseTeardown(t)
  <2>1. Goes(t)
    BY <1>9, HandOver, StepGoes DEF CloseTeardown
  <2> QED BY <1>9, <2>1, SameRegistry, SamePool DEF CloseTeardown, Moves, regVars, poolVars
<1>10. CASE CancelDone(t)
  <2>1. Goes(t)
    BY <1>10, HandOver, StepGoes, ReturnGoes DEF CancelDone, RemoveProfile
  <2> QED BY <1>10, <2>1, SameRegistry, SamePool DEF CancelDone, Moves, regVars
<1>11. CASE Sweep(t)
  BY <1>11, ReturnGoes, SameRegistry, SamePool DEF Sweep, RemoveProfile, Moves, poolVars
<1>12. CASE HealSpawn(t)
  <2>1. Goes(t)
    BY <1>12, HandOver, StepGoes, ReturnGoes DEF HealSpawn, Leave
  <2> QED BY <1>12, <2>1, SameRegistry, SamePool DEF HealSpawn, Moves, regVars, poolVars
<1>13. CASE HealUp(t) \/ HealUndo(t) \/ HealGuard(t)
  <2>1. Goes(t)
    BY <1>13, HandOver, StepGoes, ReturnGoes DEF HealUp, HealUndo, HealGuard, Adopt, Leave
  <2> QED BY <1>13, <2>1, SameRegistry, SamePool DEF HealUp, HealUndo, HealGuard, Moves, poolVars
<1> QED BY <1>1, <1>2, <1>3, <1>4, <1>5, <1>6, <1>7, <1>8, <1>9, <1>10, <1>11, <1>12, <1>13,
        CloseDoneMoves, VerbCrashMoves DEF Progress

LEMMA InitPlaced == Init => Placed
BY PlacesAreProfiles DEF Init, Placed, JobPlaced, Own, NoJob, OffPre, Registered

LEMMA StillPlaced ==
  ASSUME Placed, UNCHANGED <<entries, profile, job>>, PoolPlaced
  PROVE  Placed'
BY DEF Placed, JobPlaced, PoolPlaced, Registered, Own, PlacesOf, MayRunOn

LEMMA PrewarmPlaced ==
  ASSUME Shape, Placed, NEW k \in WarmTasks, Prewarm(k)
  PROVE  PoolPlaced
<1>1. pre \in [WarmTasks -> [st : {"off", "spawn", "up", "discard", "cancelled"},
                            name : AllNames \cup {NoName}, profile : Profiles \cup {NoName},
                            chrome : Chromes \cup {NoChrome}]]
  BY DEF Shape, PoolShape
<1>2. CASE PreEnds(k)
  BY <1>1, <1>2, PlacesAreProfiles DEF PreEnds, OffPre, PoolPlaced, Own
<1>3. ASSUME NEW st, NEW c,
             pre' = [pre EXCEPT ![k].st = st] \/ pre' = [pre EXCEPT ![k].st = st, ![k].chrome = c]
      PROVE  PoolPlaced
  <2>1. \A l \in WarmTasks : pre'[l].name = pre[l].name /\ pre'[l].profile = pre[l].profile
    BY <1>1, <1>3
  <2> QED BY <2>1 DEF PoolPlaced, Placed
<1> QED BY <1>2, <1>3 DEF Prewarm, PreSpawn, PreUp, PreDiscard, PreCancelled

LEMMA NextPlaced ==
  ASSUME Shape, Placed, [Next]_vars
  PROVE  Placed'
<1>1. CASE UNCHANGED vars
  BY <1>1, StillPlaced, SamePool DEF vars, regVars, poolVars
<1>2. ASSUME NEW t \in Tasks, Request(t) \/ Acquire(t) \/ Progress(t)
      PROVE  Placed'
  BY <1>2, RequestMoves, AcquireMoves, ProgressMoves, MovesKeepsPlaced
<1>3. ASSUME NEW k \in WarmTasks, Prewarm(k)
      PROVE  Placed'
  <2>1. UNCHANGED <<entries, profile, job>>
    BY <1>3 DEF Prewarm, PreSpawn, PreUp, PreDiscard, PreCancelled, regVars
  <2> QED BY <1>3, <2>1, PrewarmPlaced, StillPlaced
<1>4. ASSUME NEW n \in Names, GoalPin(n)
      PROVE  Placed'
  BY <1>4, StillPlaced, SamePool DEF GoalPin, poolVars
<1> QED BY <1>1, <1>2, <1>3, <1>4 DEF Next

------------------------------------------------------------------------------
(* Who holds a Chrome: the warm pool, a pre-warm coroutine, a session, or a   *)
(* request that launched it or took it out of the pool. A request that closes *)
(* the Chrome of a session only refers to it.                                 *)

InHand == {"drop", "up", "sweep", "healUp", "healUndo", "healGuard"}
Healed == {"healUp", "healUndo", "healGuard"}
Tearing == {"closing", "healDown"}

Holds(t, c) == pc[t] \in InHand /\ job[t].chrome = c

HandsEmpty ==
  /\ \A t \in Tasks : pc[t] \notin InHand \cup Tearing => job[t].chrome = NoChrome
  /\ \A t \in Tasks : pc[t] \in InHand => job[t].chrome # NoChrome
  /\ \A k \in WarmTasks : pre[k].st \in {"off", "spawn"} => pre[k].chrome = NoChrome

\* A Chrome somebody holds is running, on the profile it was launched for.
HeldRuns ==
  /\ \A n \in AllNames : warm[n] # NoChrome => runs[warm[n]] \in PlacesOf(n)
  /\ \A k \in WarmTasks : pre[k].chrome # NoChrome =>
       runs[pre[k].chrome] = pre[k].profile /\ pre[k].profile # NoName
  /\ \A t \in Tasks : pc[t] \in InHand => runs[job[t].chrome] # NoName
  /\ \A t \in Tasks : pc[t] = "up" => runs[job[t].chrome] = job[t].profile
  /\ \A t \in Tasks : pc[t] \in Healed => runs[job[t].chrome] = profile[job[t].target]
  /\ \A e \in Entries : session[e] \in Chromes => runs[session[e]] # NoName

\* No two hold the same one.
HeldOnce ==
  \A c \in Chromes :
    /\ \A e, f \in Entries : session[e] = c /\ session[f] = c => e = f
    /\ \A k, l \in WarmTasks : pre[k].chrome = c /\ pre[l].chrome = c => k = l
    /\ \A t, u \in Tasks : Holds(t, c) /\ job[u].chrome = c => t = u
    /\ \A n, m \in AllNames : warm[n] = c /\ warm[m] = c => n = m
    /\ \A n \in AllNames, e \in Entries : ~(warm[n] = c /\ session[e] = c)
    /\ \A n \in AllNames, k \in WarmTasks : ~(warm[n] = c /\ pre[k].chrome = c)
    /\ \A n \in AllNames, t \in Tasks : ~(warm[n] = c /\ job[t].chrome = c)
    /\ \A k \in WarmTasks, e \in Entries : ~(pre[k].chrome = c /\ session[e] = c)
    /\ \A k \in WarmTasks, t \in Tasks : ~(pre[k].chrome = c /\ job[t].chrome = c)
    /\ \A t \in Tasks, e \in Entries : ~(Holds(t, c) /\ session[e] = c)

Hands == HandsEmpty /\ HeldRuns /\ HeldOnce

(* The steps that pass Chromes on.                                           *)

\* A pre-warm may be scheduled or told to stop.
WarmHolds ==
  \A k \in WarmTasks :
    /\ pre'[k].chrome = pre[k].chrome
    /\ pre[k].chrome # NoChrome => pre'[k].profile = pre[k].profile
    /\ pre'[k].st \in {"off", "spawn"} => pre[k].chrome = NoChrome

\* The other requests stay; a wall goes up only where one was.
OthersHold(t) ==
  /\ \A u \in Tasks \ {t} : pc'[u] = pc[u] /\ job'[u] = job[u]
  /\ WarmHolds
  /\ pc'[t] = "healGuard" => job[t].target \in walled
  /\ walled' \subseteq walled \/ pc[t] = "healGuard"

Ends(c) == Teardown(c) \/ (c = NoChrome /\ UNCHANGED <<runs, session, stray>>)

\* The registry stays, or the request takes a session out of it to close it.
Stays(t) == UNCHANGED <<entries, profile>> /\ pc'[t] # "popped"
Pops(t) ==
  /\ UNCHANGED <<profile, session>> /\ pc'[t] = "popped"
  /\ \E n \in AllNames :
       /\ Registered(n)
       /\ entries' = [entries EXCEPT ![n] = NoEntry]
       /\ job'[t].target = entries[n]

\* The request is left with nothing in hand, or takes a parked Chrome.
Unparks(t) ==
  \/ /\ UNCHANGED warm
     /\ job'[t].chrome = NoChrome /\ pc'[t] \notin InHand
  \/ \E n \in AllNames :
       /\ warm[n] # NoChrome
       /\ warm' = [warm EXCEPT ![n] = NoChrome]
       /\ pc'[t] \in {"drop", "sweep"} /\ job'[t].chrome = warm[n]

\* It ends what it has in hand, and may take a parked Chrome.
Frees(t) ==
  /\ OthersHold(t)
  /\ pc[t] # "popped" /\ (Stays(t) \/ Pops(t))
  /\ Ends(job[t].chrome)
  /\ Unparks(t)

\* It keeps what it has in hand.
Carries(t) ==
  /\ OthersHold(t) /\ Stays(t)
  /\ UNCHANGED <<warm, session, runs, stray>>
  /\ {pc[t], pc'[t]} \subseteq Healed
  /\ job'[t].chrome = job[t].chrome /\ job'[t].target = job[t].target

\* It is about to close a session's Chrome.
Aims(t) ==
  /\ OthersHold(t) /\ Stays(t)
  /\ UNCHANGED <<warm, session, runs, stray>>
  /\ pc'[t] \in Tearing
  /\ pc[t] \notin InHand \cup Tearing
  /\ job'[t].chrome # NoChrome => \E e \in Entries : session[e] = job'[t].chrome
  /\ pc[t] = "popped" =>
       session[job[t].target] \in {job'[t].chrome, NoChrome, Foreign}

\* It launches a Chrome.
Launches(t) ==
  /\ OthersHold(t) /\ Stays(t)
  /\ UNCHANGED <<warm, session, stray>>
  /\ pc[t] \notin InHand \cup Tearing \cup {"popped"}
  /\ \E c \in FreshChromes, p \in Profiles :
       /\ ProfileFree(p)
       /\ runs' = [runs EXCEPT ![c] = p]
       /\ job'[t].chrome = c
       /\ \/ pc'[t] = "up" /\ job'[t].profile = p
          \/ pc'[t] = "healUp" /\ profile[job'[t].target] = p

\* A session gets the Chrome the request has in hand, a parked one, or one
\* that is not the daemon's: a session it registers, or the one it heals.
Seats(t) ==
  /\ OthersHold(t)
  /\ UNCHANGED <<runs, stray>>
  /\ pc'[t] \notin InHand \cup {"popped"} /\ job'[t].chrome = NoChrome
  /\ pc[t] \notin Tearing \cup {"popped"}
  /\ job[t].name \in AllNames
  /\ \E e \in Entries, c \in Chromes \cup {Foreign} :
       /\ session' = [session EXCEPT ![e] = c]
       /\ \/ Holds(t, c) /\ UNCHANGED warm
          \/ c = Foreign /\ UNCHANGED warm /\ pc[t] \notin InHand
          \/ /\ pc[t] \notin InHand
             /\ warm[job[t].name] = c
             /\ warm' = [warm EXCEPT ![job[t].name] = NoChrome]
       /\ \/ e \in FreshEntries /\ entries' = [entries EXCEPT ![job[t].name] = e]
          \/ /\ pc[t] \in InHand /\ e = job[t].target /\ UNCHANGED <<entries, profile>>
             /\ Owns(t) \/ pc[t] = "healGuard"
       /\ c \in Chromes => runs[c] = profile'[e]
       /\ \A f \in Entries \ {e} : profile'[f] = profile[f]

\* It gives up the re-arming of a wall, and loses the Chrome it was for.
Loses(t) ==
  /\ OthersHold(t) /\ Stays(t)
  /\ UNCHANGED <<warm, session, runs, stray>>
  /\ pc[t] = "healGuard" /\ pc'[t] \notin InHand
  /\ job'[t].chrome = NoChrome

Passes(t) ==
  Frees(t) \/ Carries(t) \/ Aims(t) \/ Launches(t) \/ Seats(t) \/ Loses(t)

LEMMA PlacesSame == \A n \in AllNames : PlacesOf(n)' = PlacesOf(n)
BY DEF PlacesOf, MayRunOn

LEMMA EndsKeepsRuns ==
  ASSUME Shape, NEW c \in Chromes \cup {NoChrome}, Ends(c)
  PROVE  /\ \A d \in Chromes : d # c => runs'[d] = runs[d]
         /\ \A e \in Entries : session'[e] = session[e] \/ session'[e] = NoChrome
         /\ \A e \in Entries : session'[e] \in Chromes => runs'[session'[e]] = runs[session'[e]]
<1>1. CASE Dies(c)
  BY <1>1, AbsentValues DEF Dies, Shape, RegShape, OsShape
<1>2. CASE UNCHANGED <<runs, session>>
  BY <1>2
<1> QED BY <1>1, <1>2 DEF Ends, Teardown

\* What the request that takes the step must see to; the others' stay.
OwnHeldRuns(t) ==
  /\ pc[t] \in InHand => runs[job[t].chrome] # NoName
  /\ pc[t] = "up" => runs[job[t].chrome] = job[t].profile
  /\ pc[t] \in Healed => runs[job[t].chrome] = profile[job[t].target]

LEMMA HeldRunsStay ==
  ASSUME Shape, Hands, NEW t \in Tasks, OthersHold(t), UNCHANGED profile,
         NEW c \in Chromes \cup {NoChrome}, \A d \in Chromes : d # c => runs'[d] = runs[d],
         \A n \in AllNames : warm'[n] \in {warm[n], NoChrome},
         \A e \in Entries : session'[e] = session[e] \/ session'[e] = NoChrome,
         \A e \in Entries : session'[e] \in Chromes => runs'[session'[e]] = runs[session'[e]],
         c \in Chromes =>
           /\ \A n \in AllNames : warm[n] # c
           /\ \A k \in WarmTasks : pre[k].chrome # c
           /\ \A u \in Tasks \ {t} : ~Holds(u, c),
         OwnHeldRuns(t)'
  PROVE  HeldRuns'
<1>1. /\ \A n \in AllNames : warm[n] \in Chromes \cup {NoChrome}
      /\ \A k \in WarmTasks : pre[k].chrome \in Chromes \cup {NoChrome}
      /\ \A u \in Tasks : job[u].chrome \in Chromes \cup {NoChrome}
      /\ Healed \subseteq InHand /\ "up" \in InHand
  BY DEF Shape, TaskShape, PoolShape, Jobs, Healed, InHand
<1>2. \A n \in AllNames : warm'[n] # NoChrome => runs'[warm'[n]] \in PlacesOf(n)
  BY <1>1 DEF Hands, HeldRuns
<1>3. \A k \in WarmTasks : pre'[k].chrome # NoChrome =>
        runs'[pre'[k].chrome] = pre'[k].profile /\ pre'[k].profile # NoName
  BY <1>1 DEF Hands, HeldRuns, OthersHold, WarmHolds
<1>4. ASSUME NEW u \in Tasks PROVE OwnHeldRuns(u)'
  <2>1. CASE u # t
    <3>1. pc'[u] = pc[u] /\ job'[u] = job[u]
      BY <2>1 DEF OthersHold
    <3>2. pc[u] \in InHand => runs'[job[u].chrome] = runs[job[u].chrome]
      BY <1>1, <2>1 DEF Holds, Hands, HandsEmpty
    <3> QED BY <1>1, <3>1, <3>2 DEF OwnHeldRuns, Hands, HeldRuns
  <2> QED BY <2>1
<1>5. \A e \in Entries : session'[e] \in Chromes => runs'[session'[e]] # NoName
  BY AbsentValues DEF Hands, HeldRuns
<1> QED BY <1>2, <1>3, <1>4, <1>5, PlacesSame DEF HeldRuns, OwnHeldRuns

LEMMA FreesKeepsHands ==
  ASSUME Shape, Shape', Hands, NEW t \in Tasks, Frees(t)
  PROVE  Hands'
<1> DEFINE c == job[t].chrome
<1>0. OthersHold(t) /\ UNCHANGED profile
  BY DEF Frees, Stays, Pops
<1>1. /\ c \in Chromes \cup {NoChrome}
      /\ \A n \in AllNames : warm[n] \in Chromes \cup {NoChrome}
      /\ \A k \in WarmTasks : pre[k].chrome \in Chromes \cup {NoChrome}
      /\ \A u \in Tasks : job[u].chrome \in Chromes \cup {NoChrome}
  BY DEF Shape, TaskShape, PoolShape, Jobs
<1>2. /\ \A d \in Chromes : d # c => runs'[d] = runs[d]
      /\ \A e \in Entries : session'[e] = session[e] \/ session'[e] = NoChrome
      /\ \A e \in Entries : session'[e] \in Chromes => runs'[session'[e]] = runs[session'[e]]
  BY <1>1, EndsKeepsRuns DEF Frees, Unparks
<1>3. c \in Chromes =>
        /\ \A n \in AllNames : warm[n] # c
        /\ \A k \in WarmTasks : pre[k].chrome # c
        /\ \A u \in Tasks \ {t} : ~Holds(u, c)
  BY DEF Hands, HeldOnce, Holds
<1>4. CASE UNCHANGED warm /\ job'[t].chrome = NoChrome /\ pc'[t] \notin InHand
  <2>1. HandsEmpty'
    BY <1>4 DEF Hands, HandsEmpty, Frees, OthersHold, WarmHolds
  <2>2. HeldRuns'
    <3>1. OwnHeldRuns(t)'
      BY <1>4 DEF OwnHeldRuns, InHand, Healed
    <3> QED BY <1>0, <1>1, <1>2, <1>3, <1>4, <3>1, HeldRunsStay
  <2>3. HeldOnce'
    BY <1>1, <1>2, <1>4, AbsentValues DEF Hands, HeldOnce, Holds, Frees, OthersHold, WarmHolds
  <2> QED BY <2>1, <2>2, <2>3 DEF Hands
<1>5. ASSUME NEW n \in AllNames,
             warm[n] # NoChrome,
             warm' = [warm EXCEPT ![n] = NoChrome],
             pc'[t] \in {"drop", "sweep"}, job'[t].chrome = warm[n]
      PROVE  Hands'
  <2>0. /\ warm'[n] = NoChrome
        /\ \A m \in AllNames : m # n => warm'[m] = warm[m]
    BY <1>5 DEF Shape, PoolShape
  <2>1. HandsEmpty'
    BY <1>5 DEF Hands, HandsEmpty, Frees, OthersHold, WarmHolds, InHand
  <2>2. HeldRuns'
    <3>1. runs'[warm[n]] = runs[warm[n]] /\ runs[warm[n]] # NoName
      BY <1>1, <1>2, <1>3, <1>5, AbsentValues, PlacesAreProfiles DEF Hands, HeldRuns
    <3>2. OwnHeldRuns(t)'
      BY <1>5, <3>1 DEF OwnHeldRuns, InHand, Healed
    <3> QED BY <1>0, <1>1, <1>2, <1>3, <2>0, <3>2, HeldRunsStay
  <2>3. HeldOnce'
    BY <1>1, <1>2, <1>5, <2>0, AbsentValues DEF Hands, HeldOnce, HeldRuns, Holds, Frees, OthersHold, WarmHolds
  <2> QED BY <2>1, <2>2, <2>3 DEF Hands
<1> QED BY <1>4, <1>5 DEF Frees, Unparks

LEMMA CarriesKeepsHands ==
  ASSUME Shape, Shape', Hands, NEW t \in Tasks, Carries(t)
  PROVE  Hands'
<1>0. {pc[t], pc'[t]} \subseteq InHand
  BY DEF Carries, Healed, InHand
<1>1. HandsEmpty'
  BY <1>0 DEF Hands, HandsEmpty, Carries, OthersHold, WarmHolds
<1>2. HeldRuns'
  <2>1. OwnHeldRuns(t)'
    BY <1>0 DEF OwnHeldRuns, Hands, HeldRuns, Carries, Stays, Healed
  <2> QED BY <2>1, HeldRunsStay, AbsentValues DEF Carries, Stays
<1>3. HeldOnce'
  BY <1>0 DEF Hands, HeldOnce, Holds, Carries, OthersHold, WarmHolds
<1> QED BY <1>1, <1>2, <1>3 DEF Hands

LEMMA AimsKeepsHands ==
  ASSUME Shape, Shape', Hands, NEW t \in Tasks, Aims(t)
  PROVE  Hands'
<1>0. pc'[t] \notin InHand
  BY DEF Aims, Tearing, InHand
<1>1. HandsEmpty'
  BY <1>0 DEF Hands, HandsEmpty, Aims, OthersHold, WarmHolds
<1>2. HeldRuns'
  <2>1. OwnHeldRuns(t)'
    BY <1>0 DEF OwnHeldRuns, InHand, Healed
  <2> QED BY <2>1, HeldRunsStay, AbsentValues DEF Aims, Stays
<1>3. HeldOnce'
  BY <1>0, AbsentValues DEF Hands, HeldOnce, Holds, Aims, OthersHold, WarmHolds
<1> QED BY <1>1, <1>2, <1>3 DEF Hands

LEMMA FreshIsUnheld ==
  ASSUME Shape, Hands, NEW c \in FreshChromes
  PROVE  /\ c \in Chromes /\ runs[c] = NoName
         /\ \A u \in Tasks : job[u].chrome # c
         /\ \A n \in AllNames : warm[n] # c
         /\ \A k \in WarmTasks : pre[k].chrome # c
         /\ \A e \in Entries : session[e] # c
<1>1. c \in Chromes /\ runs[c] = NoName /\ \A u \in Tasks : job[u].chrome # c
  BY DEF FreshChromes
<1>2. \A n \in AllNames : warm[n] # c
  BY <1>1, AbsentValues, PlacesAreProfiles DEF Hands, HeldRuns
<1>3. \A k \in WarmTasks : pre[k].chrome # c
  BY <1>1, AbsentValues DEF Hands, HeldRuns, HandsEmpty, Shape, PoolShape
<1>4. \A e \in Entries : session[e] # c
  BY <1>1 DEF Hands, HeldRuns
<1> QED BY <1>1, <1>2, <1>3, <1>4

LEMMA LaunchesKeepsHands ==
  ASSUME Shape, Shape', Hands, NEW t \in Tasks, Launches(t)
  PROVE  Hands'
<1>1. PICK c \in FreshChromes, p \in Profiles :
       /\ runs' = [runs EXCEPT ![c] = p]
       /\ job'[t].chrome = c
       /\ \/ pc'[t] = "up" /\ job'[t].profile = p
          \/ pc'[t] = "healUp" /\ profile[job'[t].target] = p
  BY DEF Launches
<1>2. /\ c \in Chromes /\ runs[c] = NoName
      /\ \A u \in Tasks : job[u].chrome # c
      /\ \A n \in AllNames : warm[n] # c
      /\ \A k \in WarmTasks : pre[k].chrome # c
      /\ \A e \in Entries : session[e] # c
  BY FreshIsUnheld
<1>3. /\ \A d \in Chromes : d # c => runs'[d] = runs[d]
      /\ runs'[c] = p /\ p # NoName /\ pc'[t] \in InHand /\ UNCHANGED profile
  BY <1>1, <1>2, AbsentValues DEF Shape, OsShape, Launches, Stays, InHand
<1>4. HandsEmpty'
  BY <1>1, <1>2, <1>3, AbsentValues DEF Hands, HandsEmpty, Launches, OthersHold, WarmHolds
<1>5. HeldRuns'
  <2>1. \A n \in AllNames : warm'[n] # NoChrome => runs'[warm'[n]] \in PlacesOf(n)
    BY <1>2, <1>3 DEF Hands, HeldRuns, Launches, Shape, PoolShape
  <2>2. \A l \in WarmTasks : pre'[l].chrome # NoChrome =>
          runs'[pre'[l].chrome] = pre'[l].profile /\ pre'[l].profile # NoName
    BY <1>2, <1>3 DEF Hands, HeldRuns, Launches, OthersHold, WarmHolds, Shape, PoolShape
  <2>3. ASSUME NEW u \in Tasks \ {t}, pc'[u] \in InHand
        PROVE  /\ runs'[job'[u].chrome] # NoName
               /\ pc'[u] = "up" => runs'[job'[u].chrome] = job'[u].profile
               /\ pc'[u] \in Healed => runs'[job'[u].chrome] = profile'[job'[u].target]
    <3>1. pc'[u] = pc[u] /\ job'[u] = job[u] /\ job[u].chrome \in Chromes \ {c}
      BY <1>2, <2>3 DEF Launches, OthersHold, Hands, HandsEmpty, Shape, TaskShape, Jobs
    <3> QED BY <1>3, <2>3, <3>1 DEF Hands, HeldRuns
  <2>4. \A e \in Entries : session'[e] \in Chromes => runs'[session'[e]] # NoName
    BY <1>2, <1>3 DEF Hands, HeldRuns, Launches
  <2>5. /\ runs'[job'[t].chrome] # NoName
        /\ pc'[t] = "up" => runs'[job'[t].chrome] = job'[t].profile
        /\ pc'[t] \in Healed => runs'[job'[t].chrome] = profile'[job'[t].target]
    BY <1>1, <1>3 DEF Healed
  <2>6. Healed \subseteq InHand /\ "up" \in InHand
    BY DEF Healed, InHand
  <2> QED BY <2>1, <2>2, <2>3, <2>4, <2>5, <2>6, PlacesSame DEF HeldRuns
<1>6. HeldOnce'
  BY <1>1, <1>2, AbsentValues DEF Hands, HeldOnce, Holds, Launches, OthersHold, WarmHolds
<1> QED BY <1>4, <1>5, <1>6 DEF Hands

LEMMA SeatsKeepsHands ==
  ASSUME Shape, Shape', Hands, NEW t \in Tasks, Seats(t)
  PROVE  Hands'
<1>1. PICK e \in Entries, c \in Chromes \cup {Foreign} :
       /\ session' = [session EXCEPT ![e] = c]
       /\ \/ Holds(t, c) /\ UNCHANGED warm
          \/ c = Foreign /\ UNCHANGED warm /\ pc[t] \notin InHand
          \/ /\ pc[t] \notin InHand
             /\ warm[job[t].name] = c
             /\ warm' = [warm EXCEPT ![job[t].name] = NoChrome]
       /\ e \in FreshEntries \/ UNCHANGED profile
       /\ \A f \in Entries \ {e} : profile'[f] = profile[f]
  BY DEF Seats
<1>2. /\ session'[e] = c
      /\ \A f \in Entries : f # e => session'[f] = session[f]
      /\ \A n \in AllNames : warm'[n] \in {warm[n], NoChrome}
      /\ UNCHANGED runs
  BY <1>1 DEF Seats, Shape, RegShape, PoolShape
<1>3. c \in Chromes =>
        /\ runs[c] # NoName
        /\ \A n \in AllNames : warm'[n] # c
        /\ \A k \in WarmTasks : pre[k].chrome # c
        /\ \A f \in Entries : session[f] # c
        /\ \A u \in Tasks \ {t} : job[u].chrome # c
  <2>1. CASE Holds(t, c) /\ UNCHANGED warm
    BY <2>1, AbsentValues DEF Hands, HeldOnce, HeldRuns, Holds, Shape, TaskShape, Jobs, MatchesStage, InHand
  <2>2. CASE /\ warm[job[t].name] = c /\ warm' = [warm EXCEPT ![job[t].name] = NoChrome]
             /\ c \in Chromes
    <3>1. job[t].name \in AllNames
      BY DEF Seats
    <3> QED BY <2>2, <3>1, AbsentValues, PlacesAreProfiles DEF Hands, HeldOnce, HeldRuns, Shape, PoolShape
  <2> QED BY <1>1, <2>1, <2>2, AbsentValues
<1>4. HandsEmpty'
  BY DEF Hands, HandsEmpty, Seats, OthersHold, WarmHolds
<1>5. HeldRuns'
  <2>1. \A u \in Tasks : pc[u] \in Healed => profile'[job[u].target] = profile[job[u].target]
    BY <1>1 DEF FreshEntries, Shape, TaskShape, MatchesStage, Healing, Healed
  <2>2. pc'[t] \notin InHand /\ Healed \subseteq InHand /\ "up" \in InHand
    BY DEF Seats, Healed, InHand
  <2>3. \A u \in Tasks : pc'[u] \in InHand => u # t /\ pc'[u] = pc[u] /\ job'[u] = job[u]
    BY <2>2 DEF Seats, OthersHold
  <2>4. \A n \in AllNames : warm'[n] # NoChrome => runs'[warm'[n]] \in PlacesOf(n)
    BY <1>2 DEF Hands, HeldRuns
  <2>5. \A k \in WarmTasks : pre'[k].chrome # NoChrome =>
          runs'[pre'[k].chrome] = pre'[k].profile /\ pre'[k].profile # NoName
    BY <1>2 DEF Hands, HeldRuns, Seats, OthersHold, WarmHolds
  <2>6. \A f \in Entries : session'[f] \in Chromes => runs'[session'[f]] # NoName
    BY <1>2, <1>3 DEF Hands, HeldRuns
  <2> QED BY <1>2, <2>1, <2>2, <2>3, <2>4, <2>5, <2>6, PlacesSame DEF Hands, HeldRuns
<1>6. HeldOnce'
  BY <1>2, <1>3, AbsentValues DEF Hands, HeldOnce, Holds, Seats, OthersHold, WarmHolds
<1> QED BY <1>4, <1>5, <1>6 DEF Hands

LEMMA LosesKeepsHands ==
  ASSUME Shape, Shape', Hands, NEW t \in Tasks, Loses(t)
  PROVE  Hands'
<1>1. HandsEmpty'
  BY DEF Hands, HandsEmpty, Loses, OthersHold, WarmHolds
<1>2. HeldRuns'
  <2>1. OwnHeldRuns(t)'
    BY DEF OwnHeldRuns, Loses, InHand, Healed
  <2> QED BY <2>1, HeldRunsStay, AbsentValues DEF Loses, Stays
<1>3. HeldOnce'
  BY AbsentValues DEF Hands, HeldOnce, Holds, Loses, OthersHold, WarmHolds
<1> QED BY <1>1, <1>2, <1>3 DEF Hands

(* What a pre-warm coroutine does.                                           *)

\* The other coroutines and the requests stay.
OthersWarm(k) ==
  /\ UNCHANGED <<profile, pc, job>>
  /\ \A l \in WarmTasks \ {k} : pre'[l] = pre[l]

WarmLaunches(k) ==
  /\ OthersWarm(k)
  /\ UNCHANGED <<warm, session, stray>>
  /\ pre[k].chrome = NoChrome /\ ProfileFree(pre[k].profile) /\ pre[k].profile \in Profiles
  /\ \E c \in FreshChromes :
       /\ runs' = [runs EXCEPT ![c] = pre[k].profile]
       /\ pre'[k].chrome = c /\ pre'[k].profile = pre[k].profile
       /\ pre'[k].st \notin {"off", "spawn"}

Parks(k) ==
  /\ OthersWarm(k)
  /\ UNCHANGED <<session, runs, stray>>
  /\ pre[k].name \in AllNames /\ pre[k].profile \in PlacesOf(pre[k].name)
  /\ warm[pre[k].name] = NoChrome
  /\ warm' = [warm EXCEPT ![pre[k].name] = pre[k].chrome]
  /\ pre'[k].chrome = NoChrome

WarmFrees(k) ==
  /\ OthersWarm(k)
  /\ UNCHANGED warm
  /\ Ends(pre[k].chrome)
  /\ pre'[k].chrome = NoChrome

WarmCarries(k) ==
  /\ OthersWarm(k)
  /\ UNCHANGED <<warm, session, runs, stray>>
  /\ pre'[k].chrome = pre[k].chrome /\ pre'[k].profile = pre[k].profile
  /\ pre'[k].st \notin {"off", "spawn"}

WarmPasses(k) == WarmLaunches(k) \/ Parks(k) \/ WarmFrees(k) \/ WarmCarries(k)

LEMMA WarmLaunchesKeepsHands ==
  ASSUME Shape, Shape', Hands, NEW k \in WarmTasks, WarmLaunches(k)
  PROVE  Hands'
<1>1. PICK c \in FreshChromes :
       /\ runs' = [runs EXCEPT ![c] = pre[k].profile]
       /\ pre'[k].chrome = c /\ pre'[k].profile = pre[k].profile
       /\ pre'[k].st \notin {"off", "spawn"}
  BY DEF WarmLaunches
<1>2. /\ c \in Chromes /\ runs[c] = NoName
      /\ \A u \in Tasks : job[u].chrome # c
      /\ \A n \in AllNames : warm[n] # c
      /\ \A l \in WarmTasks : pre[l].chrome # c
      /\ \A e \in Entries : session[e] # c
  BY FreshIsUnheld
<1>3. /\ \A d \in Chromes : d # c => runs'[d] = runs[d]
      /\ runs'[c] = pre[k].profile /\ pre[k].profile # NoName
  BY <1>1, <1>2, AbsentValues DEF Shape, OsShape, WarmLaunches
<1>4. HandsEmpty'
  BY <1>1, <1>2 DEF Hands, HandsEmpty, WarmLaunches, OthersWarm
<1>5. HeldRuns'
  <2>1. \A n \in AllNames : warm'[n] # NoChrome => runs'[warm'[n]] \in PlacesOf(n)
    BY <1>2, <1>3 DEF Hands, HeldRuns, WarmLaunches, Shape, PoolShape
  <2>2. \A l \in WarmTasks : pre'[l].chrome # NoChrome =>
          runs'[pre'[l].chrome] = pre'[l].profile /\ pre'[l].profile # NoName
    BY <1>1, <1>2, <1>3 DEF Hands, HeldRuns, WarmLaunches, OthersWarm, Shape, PoolShape
  <2>3. ASSUME NEW u \in Tasks, pc'[u] \in InHand
        PROVE  runs'[job'[u].chrome] = runs[job[u].chrome] /\ pc'[u] = pc[u] /\ job'[u] = job[u]
    BY <1>2, <1>3, <2>3 DEF Hands, HandsEmpty, WarmLaunches, OthersWarm, Shape, TaskShape, Jobs
  <2>4. \A e \in Entries : session'[e] \in Chromes => runs'[session'[e]] # NoName
    BY <1>2, <1>3 DEF Hands, HeldRuns, WarmLaunches
  <2>5. Healed \subseteq InHand /\ "up" \in InHand /\ UNCHANGED profile
    BY DEF Healed, InHand, WarmLaunches, OthersWarm
  <2> QED BY <2>1, <2>2, <2>3, <2>4, <2>5, PlacesSame DEF Hands, HeldRuns
<1>6. HeldOnce'
  BY <1>1, <1>2 DEF Hands, HeldOnce, Holds, WarmLaunches, OthersWarm
<1> QED BY <1>4, <1>5, <1>6 DEF Hands

LEMMA ParksKeepsHands ==
  ASSUME Shape, Shape', Hands, NEW k \in WarmTasks, Parks(k)
  PROVE  Hands'
<1> DEFINE n == pre[k].name
           c == pre[k].chrome
<1>1. /\ warm'[n] = c
      /\ \A m \in AllNames : m # n => warm'[m] = warm[m]
      /\ n \in AllNames /\ c \in Chromes \cup {NoChrome}
  BY DEF Parks, Shape, PoolShape
<1>2. HandsEmpty'
  BY DEF Hands, HandsEmpty, Parks, OthersWarm
<1>3. HeldRuns'
  BY <1>1 DEF Hands, HeldRuns, Parks, OthersWarm
<1>4. HeldOnce'
  BY <1>1, AbsentValues DEF Hands, HeldOnce, Holds, Parks, OthersWarm
<1> QED BY <1>2, <1>3, <1>4 DEF Hands

LEMMA WarmFreesKeepsHands ==
  ASSUME Shape, Shape', Hands, NEW k \in WarmTasks, WarmFrees(k)
  PROVE  Hands'
<1> DEFINE c == pre[k].chrome
<1>1. /\ c \in Chromes \cup {NoChrome}
      /\ \A n \in AllNames : warm[n] \in Chromes \cup {NoChrome}
      /\ \A l \in WarmTasks : pre[l].chrome \in Chromes \cup {NoChrome}
      /\ \A u \in Tasks : job[u].chrome \in Chromes \cup {NoChrome}
  BY DEF Shape, TaskShape, PoolShape, Jobs
<1>2. /\ \A d \in Chromes : d # c => runs'[d] = runs[d]
      /\ \A e \in Entries : session'[e] = session[e] \/ session'[e] = NoChrome
      /\ \A e \in Entries : session'[e] \in Chromes => runs'[session'[e]] = runs[session'[e]]
  BY <1>1, EndsKeepsRuns DEF WarmFrees
<1>3. c \in Chromes =>
        /\ \A n \in AllNames : warm[n] # c
        /\ \A l \in WarmTasks \ {k} : pre[l].chrome # c
        /\ \A u \in Tasks : job[u].chrome # c
  BY DEF Hands, HeldOnce
<1>4. HandsEmpty'
  BY DEF Hands, HandsEmpty, WarmFrees, OthersWarm
<1>5. HeldRuns'
  <2>1. \A n \in AllNames : warm'[n] # NoChrome => runs'[warm'[n]] \in PlacesOf(n)
    BY <1>1, <1>2, <1>3 DEF Hands, HeldRuns, WarmFrees
  <2>2. \A l \in WarmTasks : pre'[l].chrome # NoChrome =>
          runs'[pre'[l].chrome] = pre'[l].profile /\ pre'[l].profile # NoName
    BY <1>1, <1>2, <1>3 DEF Hands, HeldRuns, WarmFrees, OthersWarm
  <2>3. \A u \in Tasks : pc[u] \in InHand => runs'[job[u].chrome] = runs[job[u].chrome]
    BY <1>1, <1>2, <1>3 DEF Hands, HandsEmpty
  <2>4. \A e \in Entries : session'[e] \in Chromes => runs'[session'[e]] # NoName
    BY <1>2, AbsentValues DEF Hands, HeldRuns
  <2>5. Healed \subseteq InHand /\ "up" \in InHand /\ UNCHANGED <<profile, pc, job>>
    BY DEF Healed, InHand, WarmFrees, OthersWarm
  <2> QED BY <2>1, <2>2, <2>3, <2>4, <2>5, PlacesSame DEF Hands, HeldRuns
<1>6. HeldOnce'
  BY <1>1, <1>2, AbsentValues DEF Hands, HeldOnce, Holds, WarmFrees, OthersWarm
<1> QED BY <1>4, <1>5, <1>6 DEF Hands

LEMMA WarmCarriesKeepsHands ==
  ASSUME Shape, Shape', Hands, NEW k \in WarmTasks, WarmCarries(k)
  PROVE  Hands'
<1>1. HandsEmpty'
  BY DEF Hands, HandsEmpty, WarmCarries, OthersWarm
<1>2. HeldRuns'
  BY DEF Hands, HeldRuns, WarmCarries, OthersWarm
<1>3. HeldOnce'
  BY DEF Hands, HeldOnce, Holds, WarmCarries, OthersWarm
<1> QED BY <1>1, <1>2, <1>3 DEF Hands

LEMMA PrewarmPasses ==
  ASSUME Shape, Placed, Hands, NEW k \in WarmTasks, Prewarm(k)
  PROVE  WarmPasses(k)
<1>0. /\ pre[k].st # "off" => pre[k].name \in AllNames
      /\ pre[k] \in [st : {"off", "spawn", "up", "discard", "cancelled"},
                     name : AllNames \cup {NoName}, profile : Profiles \cup {NoName},
                     chrome : Chromes \cup {NoChrome}]
      /\ DOMAIN pre = WarmTasks
      /\ pre[k].st # "off" => pre[k].profile \in PlacesOf(pre[k].name) /\ pre[k].profile \in Profiles
  BY PlacesAreProfiles DEF Shape, PoolShape, Placed, Own
<1>1. ASSUME PreEnds(k)
      PROVE  /\ pre'[k].chrome = NoChrome
             /\ \A l \in WarmTasks \ {k} : pre'[l] = pre[l]
  BY <1>0, <1>1 DEF PreEnds, OffPre
<1>2. CASE PreSpawn(k)
  <2>1. CASE PreEnds(k) /\ UNCHANGED <<runs, dirs>>
    BY <1>1, <1>2, <2>1 DEF PreSpawn, WarmPasses, WarmFrees, OthersWarm, Ends, Hands, HandsEmpty, regVars
  <2>2. ASSUME NEW c \in FreshChromes, ProfileFree(pre[k].profile),
               runs' = [runs EXCEPT ![c] = pre[k].profile],
               pre' = [pre EXCEPT ![k].st = "up", ![k].chrome = c]
        PROVE  WarmLaunches(k)
    <3>1. /\ pre'[k].chrome = c /\ pre'[k].profile = pre[k].profile /\ pre'[k].st = "up"
          /\ \A l \in WarmTasks \ {k} : pre'[l] = pre[l]
      BY <1>0, <2>2
    <3> QED BY <1>0, <1>2, <2>2, <3>1 DEF PreSpawn, WarmLaunches, OthersWarm, Hands, HandsEmpty, regVars
  <2> QED BY <1>2, <2>1, <2>2 DEF PreSpawn, WarmPasses
<1>3. CASE PreUp(k)
  <2>1. CASE warm[pre[k].name] = NoChrome /\ PreEnds(k) /\ warm' = [warm EXCEPT ![pre[k].name] = pre[k].chrome]
             /\ UNCHANGED <<session, runs, stray>>
    BY <1>0, <1>1, <1>3, <2>1 DEF PreUp, WarmPasses, Parks, OthersWarm
  <2>2. CASE pre' = [pre EXCEPT ![k].st = "discard"] /\ UNCHANGED <<session, warm, warmTask, runs, stray>>
    <3>1. /\ pre'[k].chrome = pre[k].chrome /\ pre'[k].profile = pre[k].profile /\ pre'[k].st = "discard"
          /\ \A l \in WarmTasks \ {k} : pre'[l] = pre[l]
      BY <1>0, <2>2
    <3> QED BY <1>3, <2>2, <3>1 DEF PreUp, WarmPasses, WarmCarries, OthersWarm
  <2>3. CASE Dies(pre[k].chrome) /\ PreEnds(k) /\ UNCHANGED warm
    BY <1>1, <1>3, <2>3 DEF PreUp, WarmPasses, WarmFrees, OthersWarm, Ends, Teardown
  <2> QED BY <1>3, <2>1, <2>2, <2>3 DEF PreUp
<1>4. CASE PreDiscard(k) \/ PreCancelled(k)
  BY <1>1, <1>4 DEF PreDiscard, PreCancelled, WarmPasses, WarmFrees, OthersWarm, Ends
<1> QED BY <1>2, <1>3, <1>4 DEF Prewarm

(* Every action of a request is such a step.                                 *)

LEMMA ReturnHands ==
  ASSUME Shape, NEW t \in Tasks, Return(t)
  PROVE  /\ pc'[t] = "idle" /\ job'[t].chrome = NoChrome
         /\ \A u \in Tasks \ {t} : pc'[u] = pc[u] /\ job'[u] = job[u]
BY DEF Shape, TaskShape, Return, NoJob, About

LEMMA ContinueHands ==
  ASSUME Shape, NEW t \in Tasks, NEW p, Continue(t, p)
  PROVE  /\ pc'[t] = p /\ job'[t].chrome = NoChrome
         /\ \A u \in Tasks \ {t} : pc'[u] = pc[u] /\ job'[u] = job[u]
<1> DEFINE j == [job[t] EXCEPT !.target = NoEntry, !.chrome = NoChrome, !.join = NoWarm]
<1>1. job[t] \in Jobs
  BY DEF Shape, TaskShape
<1>2. j.chrome = NoChrome
  BY <1>1 DEF Jobs
<1>3. job' = [job EXCEPT ![t] = j] /\ pc' = [pc EXCEPT ![t] = p]
  BY DEF Continue
<1> QED BY <1>2, <1>3 DEF Shape, TaskShape

LEMMA StartEndsHands ==
  ASSUME Shape, NEW t \in Tasks, StartWorks(t) \/ StartFails(t)
  PROVE  /\ pc'[t] \in {"idle", "laneBody", "verb"} /\ job'[t].chrome = NoChrome
         /\ \A u \in Tasks \ {t} : pc'[u] = pc[u] /\ job'[u] = job[u]
BY ReturnHands, ContinueHands DEF StartWorks, StartFails

LEMMA StepHands ==
  ASSUME Shape, NEW t \in Tasks, NEW p, NEW j, Step(t, p, j)
  PROVE  /\ pc'[t] = p /\ job'[t] = j
         /\ \A u \in Tasks \ {t} : pc'[u] = pc[u] /\ job'[u] = job[u]
BY DEF Shape, TaskShape, Step

\* A request that has no Chrome in hand goes on without one.
Plain(t) ==
  /\ \A u \in Tasks \ {t} : pc'[u] = pc[u] /\ job'[u] = job[u]
  /\ UNCHANGED <<warm, session, runs, stray>>
  /\ pc[t] \notin InHand \cup Tearing \cup {"popped"} /\ pc'[t] \notin InHand
  /\ job'[t].chrome = NoChrome
  /\ walled' \subseteq walled
  /\ Stays(t) \/ Pops(t)

LEMMA PlainFrees ==
  ASSUME Shape, Hands, NEW t \in Tasks, Plain(t), UNCHANGED pre
  PROVE  Frees(t)
BY DEF Plain, Frees, Unparks, OthersHold, WarmHolds, Ends, Hands, HandsEmpty, InHand

\* A request that moves on, or takes a session out of the registry.
LEMMA StepPlain ==
  ASSUME Shape, NEW t \in Tasks, NEW p, NEW j, Step(t, p, j),
         pc[t] \notin InHand \cup Tearing \cup {"popped"},
         p \notin InHand \cup {"popped"}, j.chrome = NoChrome,
         UNCHANGED <<entries, profile, session, walled, warm, runs, stray>>
  PROVE  Plain(t)
BY StepHands DEF Plain, Stays

LEMMA PopPlain ==
  ASSUME Shape, NEW t \in Tasks, NEW n \in AllNames, NEW d \in Jobs, d.chrome = NoChrome,
         Registered(n), pc[t] \notin InHand \cup Tearing \cup {"popped"}, Pop(t, n, d)
  PROVE  Plain(t) /\ UNCHANGED pre
<1> DEFINE j == [d EXCEPT !.name = n, !.target = entries[n], !.profile = profile[entries[n]]]
<1>1. j.chrome = NoChrome /\ j.target = entries[n]
  BY DEF Jobs
<1>2. Step(t, "popped", j) /\ entries' = [entries EXCEPT ![n] = NoEntry]
      /\ UNCHANGED <<budget, profile, session, walled, lockVars, poolVars, osVars>>
  BY DEF Pop
<1> HIDE DEF j
<1>3. pc'[t] = "popped" /\ job'[t] = j /\ \A u \in Tasks \ {t} : pc'[u] = pc[u] /\ job'[u] = job[u]
  BY <1>2, StepHands
<1>4. Pops(t)
  BY <1>1, <1>2, <1>3 DEF Pops
<1> QED BY <1>1, <1>2, <1>3, <1>4 DEF Plain, InHand, poolVars, osVars

LEMMA RequestPasses ==
  ASSUME Shape, Hands, NEW t \in Tasks, Request(t)
  PROVE  Frees(t)
<1>0. NoJob \in Jobs /\ NoJob.chrome = NoChrome
  BY DEF NoJob, About, Jobs
<1>1. CASE RegistryVerb(t)
  <2>1. PICK n \in Names, want \in {"persistent", "ephemeral"}, verb \in Waiting \ {"goWait"} :
          \E p \in MayRunOn(n) : Step(t, verb, [About(n, p) EXCEPT !.want = want])
    BY <1>1 DEF RegistryVerb
  <2>2. \A p \in MayRunOn(n) : [About(n, p) EXCEPT !.want = want].chrome = NoChrome
    BY DEF NoJob, About
  <2>3. verb \notin InHand \cup {"popped"}
    BY DEF InHand, Waiting
  <2>4. Plain(t)
    BY <1>1, <2>1, <2>2, <2>3, StepPlain
       DEF RegistryVerb, regVars, poolVars, osVars, InHand, Tearing
  <2> QED BY <1>1, <2>4, PlainFrees DEF RegistryVerb, poolVars
<1>2. CASE GoUnstarted(t)
  <2>1. PICK n \in Names : Step(t, "goWait", About(n, n))
    BY <1>2 DEF GoUnstarted
  <2>2. About(n, n).chrome = NoChrome
    BY DEF NoJob, About
  <2>3. Plain(t)
    BY <1>2, <2>1, <2>2, StepPlain
       DEF GoUnstarted, regVars, poolVars, osVars, InHand, Tearing
  <2> QED BY <1>2, <2>3, PlainFrees DEF GoUnstarted, poolVars
<1>3. CASE Explore(t)
  <2>1. PICK n \in MintedNames : Step(t, "laneQueue", [About(n, n) EXCEPT !.want = "ephemeral"])
    BY <1>3 DEF Explore
  <2>2. [About(n, n) EXCEPT !.want = "ephemeral"].chrome = NoChrome
    BY DEF NoJob, About
  <2>3. Plain(t)
    BY <1>3, <2>1, <2>2, StepPlain
       DEF Explore, regVars, poolVars, osVars, InHand, Tearing
  <2> QED BY <1>3, <2>3, PlainFrees DEF Explore, poolVars
<1>4. CASE VerbArrive(t)
  <2>1. PICK n \in Names, p \in {"verb", "verbWait"} :
          Step(t, p, [About(n, n) EXCEPT !.entry = entries[n]])
    BY <1>4 DEF VerbArrive, AcquireOrQueue
  <2>2. [About(n, n) EXCEPT !.entry = entries[n]].chrome = NoChrome
    BY DEF NoJob, About
  <2>3. Plain(t)
    BY <1>4, <2>1, <2>2, StepPlain
       DEF VerbArrive, regVars, poolVars, osVars, InHand, Tearing
  <2> QED BY <1>4, <2>3, PlainFrees DEF VerbArrive, poolVars
<1>5. CASE PinnedStop(t)
  <2>1. PICK n \in Names : Registered(n) /\ Pop(t, n, NoJob)
    BY <1>5 DEF PinnedStop
  <2>2. n \in AllNames
    BY DEF AllNames
  <2>3. Plain(t) /\ UNCHANGED pre
    BY <1>0, <1>5, <2>1, <2>2, PopPlain DEF PinnedStop, InHand, Tearing
  <2> QED BY <2>3, PlainFrees
<1> QED BY <1>1, <1>2, <1>3, <1>4, <1>5 DEF Request

LEMMA TakeWarmPasses ==
  ASSUME Shape, Hands, NEW t \in Tasks, job[t].name \in AllNames,
         pc[t] \in {"startWait", "goWait", "join"}, TakeWarm(t)
  PROVE  Passes(t)
<1> DEFINE n == job[t].name
           c == warm[n]
<1>1. /\ job[t] \in Jobs /\ job[t].chrome = NoChrome
      /\ c \in Chromes \cup {NoChrome}
      /\ pc[t] \notin InHand \cup Tearing \cup {"popped"}
  BY DEF Hands, HandsEmpty, InHand, Tearing, Shape, TaskShape, PoolShape
<1>2. CASE /\ c # NoChrome /\ runs[c] = job[t].profile
           /\ Register(n, c, job[t].want, job[t].profile)
           /\ warm' = [warm EXCEPT ![n] = NoChrome]
           /\ StartWorks(t)
           /\ UNCHANGED <<lockVars, warmTask, pre, runs, stray>>
  <2>1. PICK e \in FreshEntries :
          /\ entries' = [entries EXCEPT ![n] = e]
          /\ session' = [session EXCEPT ![e] = c]
          /\ walled' = walled \ {e}
          /\ profile' = [profile EXCEPT ![e] = job[t].profile]
    BY <1>2 DEF Register
  <2>2. /\ e \in Entries /\ runs[c] = profile'[e]
        /\ \A f \in Entries \ {e} : profile'[f] = profile[f]
    BY <1>2, <2>1 DEF FreshEntries, Shape, RegShape
  <2>3. OthersHold(t) /\ pc'[t] \notin InHand \cup {"popped"} /\ job'[t].chrome = NoChrome
    BY <1>2, <2>1, StartEndsHands DEF OthersHold, WarmHolds, InHand, Hands, HandsEmpty
  <2> QED BY <1>1, <1>2, <2>1, <2>2, <2>3 DEF Passes, Seats
<1>3. CASE /\ c # NoChrome
           /\ warm' = [warm EXCEPT ![n] = NoChrome]
           /\ Step(t, "drop", [job[t] EXCEPT !.chrome = c, !.join = NoWarm])
           /\ UNCHANGED <<regVars, lockVars, warmTask, pre, runs, stray>>
  <2> DEFINE j == [job[t] EXCEPT !.chrome = c, !.join = NoWarm]
  <2>1. j.chrome = c /\ j.name = n
    BY <1>1 DEF Jobs
  <2>2. pc'[t] = "drop" /\ job'[t] = j /\ \A u \in Tasks \ {t} : pc'[u] = pc[u] /\ job'[u] = job[u]
    BY <1>3, StepHands
  <2>3. OthersHold(t) /\ Stays(t)
    BY <1>3, <2>2 DEF OthersHold, WarmHolds, Stays, regVars, Hands, HandsEmpty
  <2> QED BY <1>1, <1>3, <2>1, <2>2, <2>3 DEF Passes, Frees, Unparks, Ends, InHand, regVars
<1>4. CASE /\ Step(t, "spawn", [job[t] EXCEPT !.join = NoWarm])
           /\ UNCHANGED <<regVars, lockVars, poolVars, runs, stray>>
  <2> DEFINE j == [job[t] EXCEPT !.join = NoWarm]
  <2>1. j.chrome = NoChrome
    BY <1>1 DEF Jobs
  <2>2. pc'[t] = "spawn" /\ job'[t] = j /\ \A u \in Tasks \ {t} : pc'[u] = pc[u] /\ job'[u] = job[u]
    BY <1>4, StepHands
  <2>3. Plain(t)
    BY <1>1, <1>4, <2>1, <2>2 DEF Plain, Stays, regVars, poolVars, InHand
  <2> QED BY <1>4, <2>3, PlainFrees DEF Passes, poolVars
<1>5. CASE StartFails(t) /\ UNCHANGED <<regVars, lockVars, poolVars, runs, stray>>
  <2>1. Plain(t)
    BY <1>1, <1>5, StartEndsHands DEF Plain, Stays, regVars, poolVars, InHand
  <2> QED BY <1>5, <2>1, PlainFrees DEF Passes, poolVars
<1> QED BY <1>2, <1>3, <1>4, <1>5 DEF TakeWarm

LEMMA CreatePasses ==
  ASSUME Shape, Hands, NEW t \in Tasks, job[t].name \in AllNames,
         pc[t] \in {"startWait", "goWait"}, Create(t)
  PROVE  Passes(t)
<1> DEFINE n == job[t].name
<1>1. /\ job[t] \in Jobs /\ job[t].chrome = NoChrome
      /\ pc[t] \notin InHand \cup Tearing \cup {"popped"}
  BY DEF Hands, HandsEmpty, InHand, Tearing, Shape, TaskShape
<1>2. CASE StartFails(t) /\ UNCHANGED <<regVars, lockVars, poolVars, runs, stray>>
  <2>1. Plain(t)
    BY <1>1, <1>2, StartEndsHands DEF Plain, Stays, regVars, poolVars, InHand
  <2> QED BY <1>2, <2>1, PlainFrees DEF Passes, poolVars
<1>3. CASE Step(t, "laneQueue", job[t]) /\ UNCHANGED <<regVars, lockVars, poolVars, runs, stray>>
  <2>1. Plain(t)
    BY <1>1, <1>3, StepHands DEF Plain, Stays, regVars, poolVars, InHand
  <2> QED BY <1>3, <2>1, PlainFrees DEF Passes, poolVars
<1>4. CASE /\ Step(t, "join", [job[t] EXCEPT !.join = warmTask[n]])
           /\ UNCHANGED <<regVars, lockVars, warm, pre, runs, stray>>
  <2> DEFINE j == [job[t] EXCEPT !.join = warmTask[n]]
  <2>1. j.chrome = NoChrome
    BY <1>1 DEF Jobs
  <2>2. pc'[t] = "join" /\ job'[t] = j /\ \A u \in Tasks \ {t} : pc'[u] = pc[u] /\ job'[u] = job[u]
    BY <1>4, StepHands
  <2>3. Plain(t)
    BY <1>1, <1>4, <2>1, <2>2 DEF Plain, Stays, regVars, InHand
  <2> QED BY <1>4, <2>3, PlainFrees DEF Passes
<1>5. CASE TakeWarm(t)
  BY <1>5, TakeWarmPasses
<1> QED BY <1>2, <1>3, <1>4, <1>5 DEF Create

LEMMA StartLockedPasses ==
  ASSUME Shape, Hands, NEW t \in Tasks, StartLocked(t)
  PROVE  Passes(t)
<1>1. job[t].name \in AllNames
  BY DEF StartLocked, Shape, TaskShape, MatchesStage
<1>2. CASE Create(t)
  BY <1>1, <1>2, CreatePasses DEF StartLocked
<1>3. CASE Return(t) /\ UNCHANGED <<entries, profile, session, walled, lockVars, poolVars, osVars>>
  <2>1. Plain(t)
    BY <1>3, ReturnHands DEF StartLocked, Plain, Stays, InHand, Tearing, poolVars, osVars
  <2> QED BY <1>3, <2>1, PlainFrees DEF Passes, poolVars
<1> QED BY <1>2, <1>3 DEF StartLocked

LEMMA GoLockedPasses ==
  ASSUME Shape, Hands, NEW t \in Tasks, GoLocked(t)
  PROVE  Passes(t)
<1>1. job[t].name \in AllNames
  BY DEF GoLocked, Shape, TaskShape, MatchesStage
<1>2. CASE Create(t)
  BY <1>1, <1>2, CreatePasses DEF GoLocked
<1>3. CASE StartWorks(t) /\ UNCHANGED <<regVars, lockVars, poolVars, osVars>>
  <2>1. Plain(t)
    BY <1>3, StartEndsHands DEF GoLocked, Plain, Stays, InHand, Tearing, regVars, poolVars, osVars
  <2> QED BY <1>3, <2>1, PlainFrees DEF Passes, poolVars
<1> QED BY <1>2, <1>3 DEF GoLocked

LEMMA JoinDonePasses ==
  ASSUME Shape, Hands, NEW t \in Tasks, JoinDone(t)
  PROVE  Passes(t)
<1>1. job[t].name \in AllNames
  BY DEF JoinDone, Shape, TaskShape, MatchesStage
<1> QED BY <1>1, TakeWarmPasses DEF JoinDone

LEMMA DropDonePasses ==
  ASSUME Shape, Hands, NEW t \in Tasks, DropDone(t)
  PROVE  Passes(t)
<1> DEFINE j == [job[t] EXCEPT !.chrome = NoChrome]
<1>1. j.chrome = NoChrome
  BY DEF Shape, TaskShape, Jobs
<1>2. pc'[t] = "spawn" /\ job'[t] = j /\ \A u \in Tasks \ {t} : pc'[u] = pc[u] /\ job'[u] = job[u]
  BY StepHands DEF DropDone
<1>3. OthersHold(t) /\ Stays(t)
  BY <1>2 DEF DropDone, OthersHold, WarmHolds, Stays, poolVars, Hands, HandsEmpty
<1> QED BY <1>1, <1>2, <1>3 DEF DropDone, Passes, Frees, Unparks, Ends, poolVars, InHand

LEMMA CreateSpawnPasses ==
  ASSUME Shape, Placed, Hands, NEW t \in Tasks, CreateSpawn(t)
  PROVE  Passes(t)
<1>1. job[t].profile \in Profiles /\ job[t] \in Jobs /\ pc[t] = "spawn"
      /\ pc[t] \notin InHand \cup Tearing \cup {"popped"}
  BY JobIsPlaced, PlacesAreProfiles DEF CreateSpawn, InHand, Tearing
<1>2. CASE StartFails(t) /\ UNCHANGED runs
  <2>1. Plain(t)
    BY <1>1, <1>2, StartEndsHands DEF CreateSpawn, Plain, Stays, InHand, regVars, poolVars
  <2> QED BY <2>1, PlainFrees DEF CreateSpawn, Passes, poolVars
<1>3. ASSUME ProfileFree(job[t].profile), NEW c \in FreshChromes,
             runs' = [runs EXCEPT ![c] = job[t].profile],
             Step(t, "up", [job[t] EXCEPT !.chrome = c])
      PROVE  Launches(t)
  <2> DEFINE j == [job[t] EXCEPT !.chrome = c]
  <2>1. j.chrome = c /\ j.profile = job[t].profile
    BY <1>1 DEF Jobs
  <2>2. pc'[t] = "up" /\ job'[t] = j /\ \A u \in Tasks \ {t} : pc'[u] = pc[u] /\ job'[u] = job[u]
    BY <1>3, StepHands
  <2>3. OthersHold(t) /\ Stays(t)
    BY <2>2 DEF CreateSpawn, OthersHold, WarmHolds, Stays, regVars, poolVars, Hands, HandsEmpty
  <2> QED BY <1>1, <1>3, <2>1, <2>2, <2>3 DEF CreateSpawn, Launches, regVars, poolVars, InHand
<1> QED BY <1>2, <1>3 DEF CreateSpawn, Passes

LEMMA CreateUpPasses ==
  ASSUME Shape, Hands, NEW t \in Tasks, CreateUp(t)
  PROVE  Passes(t)
<1> DEFINE c == job[t].chrome
<1>1. /\ job[t].name \in AllNames /\ pc[t] = "up" /\ c \in Chromes
      /\ pc[t] \in InHand \ (Tearing \cup {"popped"})
  BY DEF CreateUp, Shape, TaskShape, MatchesStage, InHand, Tearing, Hands, HandsEmpty, Jobs
<1>2. CASE Register(job[t].name, c, job[t].want, job[t].profile) /\ StartWorks(t) /\ UNCHANGED osVars
  <2>1. PICK e \in FreshEntries :
          /\ entries' = [entries EXCEPT ![job[t].name] = e]
          /\ session' = [session EXCEPT ![e] = c]
          /\ walled' = walled \ {e}
          /\ profile' = [profile EXCEPT ![e] = job[t].profile]
    BY <1>2 DEF Register
  <2>2. /\ e \in Entries /\ runs[c] = profile'[e]
        /\ \A f \in Entries \ {e} : profile'[f] = profile[f]
    BY <1>1, <2>1 DEF FreshEntries, Hands, HeldRuns, Shape, RegShape
  <2>3. OthersHold(t) /\ pc'[t] \notin InHand \cup {"popped"} /\ job'[t].chrome = NoChrome
    BY <1>2, <2>1, StartEndsHands DEF CreateUp, OthersHold, WarmHolds, InHand, poolVars, Hands, HandsEmpty
  <2> QED BY <1>1, <1>2, <2>1, <2>2, <2>3 DEF CreateUp, Passes, Seats, Holds, poolVars, osVars
<1>3. CASE Dies(c) /\ StartFails(t) /\ UNCHANGED <<entries, budget, profile, walled>>
  <2>1. OthersHold(t) /\ Stays(t) /\ pc'[t] \notin InHand /\ job'[t].chrome = NoChrome
    BY <1>3, StartEndsHands DEF CreateUp, OthersHold, WarmHolds, Stays, InHand, poolVars, Hands, HandsEmpty
  <2> QED BY <1>1, <1>3, <2>1 DEF CreateUp, Passes, Frees, Unparks, Ends, Teardown, poolVars
<1> QED BY <1>2, <1>3 DEF CreateUp

LEMMA AttachLockedPasses ==
  ASSUME Shape, Hands, NEW t \in Tasks, AttachLocked(t)
  PROVE  Passes(t)
<1>1. job[t].chrome = NoChrome
  BY DEF AttachLocked, Hands, HandsEmpty, InHand, Tearing
<1>2. Plain(t)
  BY <1>1, ReturnHands, StepHands
     DEF AttachLocked, Plain, Stays, InHand, Tearing, regVars, poolVars, osVars
<1> QED BY <1>2, PlainFrees DEF AttachLocked, Passes, poolVars

LEMMA AttachDonePasses ==
  ASSUME Shape, Hands, NEW t \in Tasks, AttachDone(t)
  PROVE  Passes(t)
<1>1. /\ job[t].name \in AllNames /\ pc[t] = "attach"
      /\ pc[t] \notin InHand \cup Tearing \cup {"popped"}
  BY DEF AttachDone, Shape, TaskShape, MatchesStage, InHand, Tearing
<1>2. CASE UNCHANGED <<regVars, dirs>>
  <2>1. Plain(t)
    BY <1>1, <1>2, ReturnHands DEF AttachDone, Plain, Stays, InHand, regVars, poolVars
  <2> QED BY <2>1, PlainFrees DEF AttachDone, Passes, poolVars
<1>3. CASE Register(job[t].name, Foreign, "persistent", job[t].name)
  <2>1. PICK e \in FreshEntries :
          /\ entries' = [entries EXCEPT ![job[t].name] = e]
          /\ session' = [session EXCEPT ![e] = Foreign]
          /\ walled' = walled \ {e}
          /\ profile' = [profile EXCEPT ![e] = job[t].name]
    BY <1>3 DEF Register
  <2>2. /\ e \in Entries /\ Foreign \notin Chromes
        /\ \A f \in Entries \ {e} : profile'[f] = profile[f]
    BY <2>1, AbsentValues DEF FreshEntries, Shape, RegShape
  <2>3. OthersHold(t) /\ pc'[t] \notin InHand \cup {"popped"} /\ job'[t].chrome = NoChrome
    BY <2>1, ReturnHands DEF AttachDone, OthersHold, WarmHolds, InHand, poolVars, Hands, HandsEmpty
  <2> QED BY <1>1, <2>1, <2>2, <2>3 DEF AttachDone, Passes, Seats, poolVars
<1> QED BY <1>2, <1>3 DEF AttachDone

LEMMA ScheduleHands ==
  ASSUME Shape, Hands, NEW n \in AllNames, NEW p, Schedule(n, p)
  PROVE  WarmHolds /\ UNCHANGED warm
<1>1. CASE UNCHANGED poolVars
  BY <1>1 DEF poolVars, WarmHolds, Hands, HandsEmpty
<1>2. ASSUME NEW k \in FreshWarmTasks,
             pre' = [pre EXCEPT ![k] = [OffPre EXCEPT !.st = "spawn", !.name = n, !.profile = p]],
             UNCHANGED warm
      PROVE  WarmHolds
  <2>1. k \in WarmTasks /\ pre[k].chrome = NoChrome
    BY DEF FreshWarmTasks, Hands, HandsEmpty
  <2>2. /\ pre'[k].chrome = NoChrome
        /\ \A l \in WarmTasks \ {k} : pre'[l] = pre[l]
    BY <1>2, <2>1 DEF OffPre, Shape, PoolShape
  <2> QED BY <2>1, <2>2 DEF WarmHolds, Hands, HandsEmpty
<1> QED BY <1>1, <1>2 DEF Schedule, poolVars

LEMMA NewLockedPasses ==
  ASSUME Shape, Hands, NEW t \in Tasks, NewLocked(t)
  PROVE  Passes(t)
<1>1. /\ job[t].name \in AllNames
      /\ pc[t] \notin InHand \cup Tearing \cup {"popped"}
      /\ job[t].chrome = NoChrome
  BY DEF NewLocked, Shape, TaskShape, MatchesStage, InHand, Tearing, Hands, HandsEmpty
<1>2. WarmHolds /\ UNCHANGED warm
  BY <1>1, ScheduleHands DEF NewLocked
<1> QED BY <1>1, <1>2, ReturnHands
        DEF NewLocked, Passes, Frees, Unparks, Ends, OthersHold, Stays, regVars, InHand

LEMMA BeginCancelHands ==
  ASSUME Shape, Hands, NEW t \in Tasks, job[t].name \in AllNames,
         HasPrewarm(job[t].name), BeginCancel(t)
  PROVE  /\ WarmHolds /\ Unparks(t) /\ pc'[t] \in {"cancel", "sweep"}
         /\ \A u \in Tasks \ {t} : pc'[u] = pc[u] /\ job'[u] = job[u]
<1> DEFINE n == job[t].name
           k == warmTask[n]
<1>1. job[t] \in Jobs /\ warm[n] \in Chromes \cup {NoChrome}
  BY DEF Shape, TaskShape, PoolShape
<1>2. CASE k # NoWarm
  <2> DEFINE j == [job[t] EXCEPT !.join = k, !.chrome = NoChrome]
  <2>1. j.chrome = NoChrome
    BY <1>1 DEF Jobs
  <2>2. /\ pc'[t] = "cancel" /\ job'[t] = j /\ UNCHANGED warm
        /\ \A u \in Tasks \ {t} : pc'[u] = pc[u] /\ job'[u] = job[u]
        /\ pre' = [pre EXCEPT ![k].st = "cancelled"]
    BY <1>2, StepHands DEF BeginCancel
  <2>3. WarmHolds
    BY <1>2, <2>2 DEF WarmHolds, Hands, HandsEmpty, Shape, PoolShape
  <2> QED BY <2>1, <2>2, <2>3 DEF Unparks, InHand
<1>3. CASE k = NoWarm
  <2> DEFINE j == [job[t] EXCEPT !.chrome = warm[n]]
  <2>1. j.chrome = warm[n] /\ j.name = n /\ warm[n] # NoChrome
    BY <1>1, <1>3 DEF Jobs, HasPrewarm
  <2>2. /\ pc'[t] = "sweep" /\ job'[t] = j /\ warm' = [warm EXCEPT ![n] = NoChrome]
        /\ \A u \in Tasks \ {t} : pc'[u] = pc[u] /\ job'[u] = job[u]
        /\ UNCHANGED pre
    BY <1>3, StepHands DEF BeginCancel
  <2>3. WarmHolds
    BY <2>2 DEF WarmHolds, Hands, HandsEmpty
  <2> QED BY <2>1, <2>2, <2>3 DEF Unparks, InHand
<1> QED BY <1>2, <1>3

LEMMA CloseLockedPasses ==
  ASSUME Shape, Hands, NEW t \in Tasks, CloseLocked(t)
  PROVE  Passes(t)
<1>1. /\ job[t].name \in AllNames /\ job[t] \in Jobs /\ pc[t] = "closeWait"
      /\ pc[t] \notin InHand \cup Tearing \cup {"popped"}
      /\ job[t].chrome = NoChrome
  BY DEF CloseLocked, Shape, TaskShape, MatchesStage, InHand, Tearing, Hands, HandsEmpty
<1>2. CASE Registered(job[t].name) /\ Pop(t, job[t].name, job[t])
  BY <1>1, <1>2, PopPlain, PlainFrees DEF Passes
<1>3. CASE Return(t) /\ UNCHANGED <<regVars, lockVars, poolVars, osVars>>
  <2>1. Plain(t)
    BY <1>1, <1>3, ReturnHands DEF Plain, Stays, InHand, regVars, poolVars, osVars
  <2> QED BY <1>3, <2>1, PlainFrees DEF Passes, poolVars
<1> QED BY <1>2, <1>3 DEF CloseLocked

LEMMA DeleteLockedPasses ==
  ASSUME Shape, Hands, NEW t \in Tasks, DeleteLocked(t)
  PROVE  Passes(t)
<1>1. /\ job[t].name \in AllNames
      /\ pc[t] \notin InHand \cup Tearing \cup {"popped"}
      /\ job[t].chrome = NoChrome
  BY DEF DeleteLocked, Shape, TaskShape, MatchesStage, InHand, Tearing, Hands, HandsEmpty
<1>2. CASE Return(t) /\ UNCHANGED poolVars
  <2>1. Plain(t)
    BY <1>1, <1>2, ReturnHands DEF DeleteLocked, Plain, Stays, InHand, regVars, poolVars
  <2> QED BY <1>2, <2>1, PlainFrees DEF Passes, poolVars
<1>3. CASE HasPrewarm(job[t].name) /\ BeginCancel(t)
  <2>1. /\ WarmHolds /\ Unparks(t) /\ pc'[t] \in {"cancel", "sweep"}
        /\ \A u \in Tasks \ {t} : pc'[u] = pc[u] /\ job'[u] = job[u]
    BY <1>1, <1>3, BeginCancelHands
  <2> QED BY <1>1, <2>1 DEF DeleteLocked, Passes, Frees, Ends, OthersHold, Stays, regVars
<1> QED BY <1>2, <1>3 DEF DeleteLocked, RemoveProfile

LEMMA ProbeLockedPasses ==
  ASSUME Shape, Hands, NEW t \in Tasks, ProbeLocked(t)
  PROVE  Passes(t)
<1>1. /\ job[t] \in Jobs /\ job[t].chrome = NoChrome
      /\ pc[t] \notin InHand \cup Tearing \cup {"popped"}
  BY DEF ProbeLocked, Shape, TaskShape, InHand, Tearing, Hands, HandsEmpty
<1>2. CASE Return(t)
  <2>1. Plain(t)
    BY <1>1, <1>2, ReturnHands DEF ProbeLocked, Plain, Stays, InHand, regVars, poolVars
  <2> QED BY <2>1, PlainFrees DEF ProbeLocked, Passes, poolVars
<1>3. ASSUME NEW p \in {"probe", "probeLock"},
             Step(t, p, [job[t] EXCEPT !.entry = entries[job[t].name]])
      PROVE  Passes(t)
  <2> DEFINE j == [job[t] EXCEPT !.entry = entries[job[t].name]]
  <2>1. j.chrome = NoChrome
    BY <1>1 DEF Jobs
  <2>2. Step(t, p, j)
    BY <1>3
  <2> HIDE DEF j
  <2>3. Plain(t)
    BY <1>1, <2>1, <2>2, StepPlain DEF ProbeLocked, InHand, regVars, poolVars
  <2> QED BY <2>3, PlainFrees DEF ProbeLocked, Passes, poolVars
<1> QED BY <1>2, <1>3 DEF ProbeLocked, AcquireOrQueue

LEMMA ProbeRunPasses ==
  ASSUME Shape, Hands, NEW t \in Tasks, ProbeRun(t)
  PROVE  Passes(t)
<1>1. job[t].chrome = NoChrome
  BY DEF ProbeRun, InHand, Tearing, Hands, HandsEmpty
<1>2. Plain(t)
  BY <1>1, StepPlain DEF ProbeRun, InHand, Tearing, regVars, poolVars, osVars
<1> QED BY <1>2, PlainFrees DEF ProbeRun, Passes, poolVars

LEMMA VerbRunPasses ==
  ASSUME Shape, Hands, NEW t \in Tasks, VerbRun(t)
  PROVE  Passes(t)
<1>1. job[t].chrome = NoChrome
  BY DEF VerbRun, InHand, Tearing, Hands, HandsEmpty
<1>2. Plain(t)
  BY <1>1, StepHands, ReturnHands DEF VerbRun, Plain, Stays, InHand, Tearing, regVars, poolVars, osVars
<1> QED BY <1>2, PlainFrees DEF VerbRun, Passes, poolVars

LEMMA LaneTryPasses ==
  ASSUME Shape, Hands, NEW t \in Tasks, LaneTry(t)
  PROVE  Passes(t)
<1>1. job[t].chrome = NoChrome
  BY DEF LaneTry, InHand, Tearing, Hands, HandsEmpty
<1>2. Plain(t)
  BY <1>1, StepPlain DEF LaneTry, InHand, Tearing, regVars, poolVars, osVars
<1> QED BY <1>2, PlainFrees DEF LaneTry, Passes, poolVars

LEMMA LeavePlain ==
  ASSUME Shape, NEW t \in Tasks, Leave(t), pc[t] \notin InHand \cup Tearing \cup {"popped"},
         UNCHANGED <<entries, profile, session, walled, warm, runs, stray>>
  PROVE  Plain(t)
BY ReturnHands DEF Leave, Plain, Stays, InHand

LEMMA ProbeDonePasses ==
  ASSUME Shape, Hands, NEW t \in Tasks, ProbeDone(t)
  PROVE  Passes(t)
BY LeavePlain, PlainFrees DEF ProbeDone, Passes, InHand, Tearing, regVars, poolVars, osVars

LEMMA VerbDonePasses ==
  ASSUME Shape, Hands, NEW t \in Tasks, VerbDone(t)
  PROVE  Passes(t)
BY LeavePlain, PlainFrees DEF VerbDone, Passes, InHand, Tearing, regVars, poolVars, osVars

LEMMA LaneDonePasses ==
  ASSUME Shape, Hands, NEW t \in Tasks, LaneDone(t)
  PROVE  Passes(t)
<1>1. /\ job[t].name \in AllNames /\ job[t] \in Jobs
      /\ pc[t] \notin InHand \cup Tearing \cup {"popped"}
      /\ job[t].chrome = NoChrome
  BY DEF LaneDone, Shape, TaskShape, MatchesStage, InHand, Tearing, Hands, HandsEmpty
<1> QED BY <1>1, PopPlain, PlainFrees DEF LaneDone, Passes

LEMMA CloseTeardownPasses ==
  ASSUME Shape, Hands, NEW t \in Tasks, CloseTeardown(t)
  PROVE  Passes(t)
<1> DEFINE c == session[job[t].target]
           d == IF c = Foreign THEN NoChrome ELSE c
           j == [job[t] EXCEPT !.chrome = d]
<1>1. /\ pc[t] = "popped" /\ pc[t] \notin InHand \cup Tearing
      /\ job[t].target \in Entries /\ job[t] \in Jobs
  BY DEF CloseTeardown, Shape, TaskShape, MatchesStage, InHand, Tearing
<1>2. j.chrome = d
  BY <1>1 DEF Jobs
<1>3. pc'[t] = "closing" /\ job'[t] = j /\ \A u \in Tasks \ {t} : pc'[u] = pc[u] /\ job'[u] = job[u]
  BY StepHands DEF CloseTeardown
<1>4. OthersHold(t) /\ Stays(t)
  BY <1>3 DEF CloseTeardown, OthersHold, WarmHolds, Stays, regVars, poolVars, Hands, HandsEmpty
<1> QED BY <1>1, <1>2, <1>3, <1>4 DEF CloseTeardown, Passes, Aims, Tearing, regVars, poolVars, osVars

LEMMA CloseDonePasses ==
  ASSUME Shape, Hands, NEW t \in Tasks, CloseDone(t)
  PROVE  Passes(t)
<1>1. /\ job[t].name \in AllNames /\ pc[t] = "closing" /\ pc[t] # "popped" /\ pc[t] # "healGuard"
  BY DEF CloseDone, Shape, TaskShape, MatchesStage, Healing
<1>2. CASE HasPrewarm(job[t].name) /\ BeginCancel(t)
  <2>1. /\ WarmHolds /\ Unparks(t) /\ pc'[t] \in {"cancel", "sweep"}
        /\ \A u \in Tasks \ {t} : pc'[u] = pc[u] /\ job'[u] = job[u]
    BY <1>1, <1>2, BeginCancelHands
  <2> QED BY <1>1, <2>1 DEF CloseDone, Passes, Frees, Ends, OthersHold, Stays
<1>3. ASSUME Return(t), Schedule(job[t].name, job[t].profile) \/ UNCHANGED poolVars
      PROVE  Passes(t)
  <2>1. WarmHolds /\ UNCHANGED warm
    BY <1>1, <1>3, ScheduleHands DEF Schedule
  <2> QED BY <1>1, <1>3, <2>1, ReturnHands
          DEF CloseDone, Passes, Frees, Unparks, Ends, OthersHold, Stays, InHand
<1> QED BY <1>2, <1>3 DEF CloseDone, RemoveProfile

LEMMA CancelDonePasses ==
  ASSUME Shape, Hands, NEW t \in Tasks, CancelDone(t)
  PROVE  Passes(t)
<1> DEFINE n == job[t].name
<1>1. /\ n \in AllNames /\ job[t] \in Jobs /\ warm[n] \in Chromes \cup {NoChrome}
      /\ pc[t] \notin InHand \cup Tearing \cup {"popped"}
      /\ job[t].chrome = NoChrome
  BY DEF CancelDone, Shape, TaskShape, PoolShape, MatchesStage, InHand, Tearing, Hands, HandsEmpty
<1>2. CASE Return(t) /\ UNCHANGED warm
  <2>1. Plain(t)
    BY <1>1, <1>2, ReturnHands DEF CancelDone, Plain, Stays, InHand, regVars
  <2> QED BY <2>1, PlainFrees DEF CancelDone, Passes
<1>3. CASE /\ warm[n] # NoChrome
           /\ warm' = [warm EXCEPT ![n] = NoChrome]
           /\ Step(t, "sweep", [job[t] EXCEPT !.chrome = warm[n], !.join = NoWarm])
  <2> DEFINE j == [job[t] EXCEPT !.chrome = warm[n], !.join = NoWarm]
  <2>1. j.chrome = warm[n] /\ j.name = n
    BY <1>1 DEF Jobs
  <2>2. pc'[t] = "sweep" /\ job'[t] = j /\ \A u \in Tasks \ {t} : pc'[u] = pc[u] /\ job'[u] = job[u]
    BY <1>3, StepHands
  <2>3. OthersHold(t) /\ Stays(t)
    BY <2>2 DEF CancelDone, OthersHold, WarmHolds, Stays, regVars, Hands, HandsEmpty
  <2> QED BY <1>1, <1>3, <2>1, <2>2, <2>3 DEF CancelDone, Passes, Frees, Unparks, Ends, InHand, regVars
<1> QED BY <1>2, <1>3 DEF CancelDone, RemoveProfile

LEMMA SweepPasses ==
  ASSUME Shape, Hands, NEW t \in Tasks, Sweep(t)
  PROVE  Passes(t)
BY ReturnHands DEF Sweep, RemoveProfile, Passes, Frees, Unparks, Ends, OthersHold, WarmHolds,
   Stays, poolVars, InHand, Hands, HandsEmpty

LEMMA VerbCrashPasses ==
  ASSUME Shape, Hands, NEW t \in Tasks, VerbCrash(t)
  PROVE  Passes(t)
<1>1. /\ job[t].name \in AllNames /\ job[t] \in Jobs /\ pc[t] = "verb"
      /\ pc[t] \notin InHand \cup Tearing \cup {"popped"}
  BY DEF VerbCrash, Shape, TaskShape, MatchesStage, InHand, Tearing
<1>2. CASE Leave(t)
  BY <1>1, <1>2, LeavePlain, PlainFrees DEF VerbCrash, Passes, regVars, poolVars, osVars
<1>3. CASE /\ Relaunchable(job[t].name)
           /\ Step(t, "healDown", [job[t] EXCEPT !.target = entries[job[t].name],
                                                 !.chrome = session[entries[job[t].name]]])
  <2> DEFINE e == entries[job[t].name]
             j == [job[t] EXCEPT !.target = e, !.chrome = session[e]]
  <2>1. e \in Entries /\ j.chrome = session[e]
    BY <1>1, <1>3 DEF Relaunchable, Registered, Jobs, Shape, RegShape
  <2>2. pc'[t] = "healDown" /\ job'[t] = j /\ \A u \in Tasks \ {t} : pc'[u] = pc[u] /\ job'[u] = job[u]
    BY <1>3, StepHands
  <2>3. OthersHold(t) /\ Stays(t)
    BY <2>2 DEF VerbCrash, OthersHold, WarmHolds, Stays, regVars, poolVars, Hands, HandsEmpty
  <2> HIDE DEF e, j
  <2> QED BY <1>1, <2>1, <2>2, <2>3 DEF VerbCrash, Passes, Aims, Tearing, regVars, poolVars, osVars
<1> QED BY <1>2, <1>3 DEF VerbCrash

LEMMA HealDownPasses ==
  ASSUME Shape, Hands, NEW t \in Tasks, HealDown(t)
  PROVE  Passes(t)
<1> DEFINE j == [job[t] EXCEPT !.chrome = NoChrome]
<1>1. j.chrome = NoChrome
  BY DEF Shape, TaskShape, Jobs
<1>2. pc'[t] = "healSpawn" /\ job'[t] = j /\ \A u \in Tasks \ {t} : pc'[u] = pc[u] /\ job'[u] = job[u]
  BY StepHands DEF HealDown
<1>3. OthersHold(t) /\ Stays(t)
  BY <1>2 DEF HealDown, OthersHold, WarmHolds, Stays, poolVars, Hands, HandsEmpty
<1> QED BY <1>1, <1>2, <1>3 DEF HealDown, Passes, Frees, Unparks, Ends, poolVars, InHand

LEMMA HealSpawnPasses ==
  ASSUME Shape, Placed, Hands, NEW t \in Tasks, HealSpawn(t)
  PROVE  Passes(t)
<1> DEFINE p == profile[job[t].target]
<1>0. /\ job[t].name \in AllNames /\ job[t] \in Jobs /\ pc[t] = "healSpawn"
      /\ job[t].target \in Entries
  BY DEF HealSpawn, Shape, TaskShape, MatchesStage, Healing
<1>1. job[t] \in Jobs /\ p \in Profiles /\ pc[t] = "healSpawn"
      /\ pc[t] \notin InHand \cup Tearing \cup {"popped"}
  BY <1>0, PlacesAreProfiles, AbsentValues DEF Placed, JobPlaced, Own, InHand, Tearing
<1>2. CASE Leave(t) /\ UNCHANGED <<runs, dirs>>
  BY <1>1, <1>2, LeavePlain, PlainFrees DEF HealSpawn, Passes, regVars, poolVars
<1>3. ASSUME ProfileFree(p), NEW c \in FreshChromes,
             runs' = [runs EXCEPT ![c] = p],
             Step(t, "healUp", [job[t] EXCEPT !.chrome = c])
      PROVE  Launches(t)
  <2> DEFINE j == [job[t] EXCEPT !.chrome = c]
  <2>1. j.chrome = c /\ j.target = job[t].target
    BY <1>1 DEF Jobs
  <2>2. pc'[t] = "healUp" /\ job'[t] = j /\ \A u \in Tasks \ {t} : pc'[u] = pc[u] /\ job'[u] = job[u]
    BY <1>3, StepHands
  <2>3. OthersHold(t) /\ Stays(t)
    BY <2>2 DEF HealSpawn, OthersHold, WarmHolds, Stays, regVars, poolVars, Hands, HandsEmpty
  <2> QED BY <1>1, <1>3, <2>1, <2>2, <2>3 DEF HealSpawn, Launches, regVars, poolVars, InHand
<1> QED BY <1>2, <1>3 DEF HealSpawn, Passes

\* The healed session gets the Chrome.
LEMMA AdoptSeats ==
  ASSUME Shape, Hands, NEW t \in Tasks, Adopt(t), pc[t] \in {"healUp", "healGuard"},
         Owns(t) \/ pc[t] = "healGuard", walled' \subseteq walled \/ pc[t] = "healGuard",
         UNCHANGED <<entries, profile, poolVars, runs, stray>>
  PROVE  Seats(t)
<1> DEFINE c == job[t].chrome
           j == [job[t] EXCEPT !.target = NoEntry, !.chrome = NoChrome]
<1>1. /\ job[t].name \in AllNames /\ job[t] \in Jobs /\ c \in Chromes /\ job[t].target \in Entries
      /\ pc[t] \in InHand /\ pc[t] \notin Tearing \cup {"popped"}
  BY DEF Shape, TaskShape, MatchesStage, InHand, Tearing, Healing, Hands, HandsEmpty, Jobs
<1>2. j.chrome = NoChrome
  BY <1>1 DEF Jobs
<1>3. /\ pc'[t] = "verbLast" /\ job'[t] = j
      /\ \A u \in Tasks \ {t} : pc'[u] = pc[u] /\ job'[u] = job[u]
      /\ session' = [session EXCEPT ![job[t].target] = c]
  BY StepHands DEF Adopt
<1> HIDE DEF j
<1>4. OthersHold(t)
  BY <1>3 DEF OthersHold, WarmHolds, poolVars, Hands, HandsEmpty
<1>5. runs[c] = profile[job[t].target]
  BY DEF Hands, HeldRuns, Healed
<1> QED BY <1>1, <1>2, <1>3, <1>4, <1>5 DEF Seats, Holds, poolVars, InHand

LEMMA HealUpPasses ==
  ASSUME Shape, Hands, NEW t \in Tasks, HealUp(t)
  PROVE  Passes(t)
<1>1. /\ job[t] \in Jobs /\ pc[t] = "healUp" /\ pc[t] \in InHand
  BY DEF HealUp, Shape, TaskShape, InHand
<1>2. CASE Step(t, "healUndo", job[t]) /\ UNCHANGED <<session, lockVars, mutateLock, runs, stray>>
  BY <1>1, <1>2, StepHands DEF HealUp, Passes, Carries, OthersHold, WarmHolds, Stays, poolVars,
     InHand, Healed, Hands, HandsEmpty
<1>3. CASE /\ job[t].target \in walled /\ Step(t, "healGuard", job[t])
           /\ UNCHANGED <<session, lockVars, mutateLock, runs, stray>>
  BY <1>1, <1>3, StepHands DEF HealUp, Passes, Carries, OthersHold, WarmHolds, Stays, poolVars,
     InHand, Healed, Hands, HandsEmpty
<1>4. CASE Owns(t) /\ Adopt(t) /\ UNCHANGED <<lockVars, mutateLock, runs, stray>>
  <2>1. Seats(t)
    BY <1>1, <1>4, AdoptSeats DEF HealUp
  <2> QED BY <2>1 DEF Passes
<1>5. CASE Teardown(job[t].chrome) /\ Leave(t)
  BY <1>1, <1>5, ReturnHands DEF HealUp, Leave, Passes, Frees, Unparks, Ends, OthersHold, WarmHolds,
     Stays, poolVars, InHand, Hands, HandsEmpty
<1> QED BY <1>2, <1>3, <1>4, <1>5 DEF HealUp

LEMMA HealUndoPasses ==
  ASSUME Shape, Hands, NEW t \in Tasks, HealUndo(t)
  PROVE  Passes(t)
BY ReturnHands DEF HealUndo, Leave, Passes, Frees, Unparks, Ends, OthersHold, WarmHolds,
   Stays, poolVars, InHand, Hands, HandsEmpty

LEMMA HealGuardPasses ==
  ASSUME Shape, Hands, NEW t \in Tasks, HealGuard(t)
  PROVE  Passes(t)
<1>1. CASE Adopt(t)
  <2>1. Seats(t)
    BY <1>1, AdoptSeats DEF HealGuard, osVars
  <2> QED BY <2>1 DEF Passes
<1>2. CASE Leave(t) /\ UNCHANGED <<session, walled>>
  BY <1>2, ReturnHands DEF HealGuard, Leave, Passes, Loses, OthersHold, WarmHolds, Stays,
     poolVars, osVars, InHand, Hands, HandsEmpty
<1> QED BY <1>1, <1>2 DEF HealGuard

LEMMA AcquirePasses ==
  ASSUME Shape, Hands, NEW t \in Tasks, Acquire(t)
  PROVE  Passes(t)
BY StartLockedPasses, GoLockedPasses, AttachLockedPasses, NewLockedPasses, CloseLockedPasses,
   DeleteLockedPasses, ProbeLockedPasses, ProbeRunPasses, VerbRunPasses DEF Acquire

LEMMA ProgressPasses ==
  ASSUME Shape, Placed, Hands, NEW t \in Tasks, Progress(t)
  PROVE  Passes(t)
<1>1. CASE \/ LaneTry(t) \/ JoinDone(t) \/ DropDone(t) \/ CreateSpawn(t) \/ CreateUp(t)
           \/ AttachDone(t) \/ ProbeDone(t)
  BY <1>1, LaneTryPasses, JoinDonePasses, DropDonePasses, CreateSpawnPasses, CreateUpPasses,
     AttachDonePasses, ProbeDonePasses
<1>2. CASE \/ LaneDone(t) \/ CloseTeardown(t) \/ CloseDone(t) \/ CancelDone(t) \/ Sweep(t)
           \/ VerbDone(t) \/ VerbCrash(t)
  BY <1>2, LaneDonePasses, CloseTeardownPasses, CloseDonePasses, CancelDonePasses, SweepPasses,
     VerbDonePasses, VerbCrashPasses
<1>3. CASE HealDown(t) \/ HealSpawn(t) \/ HealUp(t) \/ HealUndo(t) \/ HealGuard(t)
  BY <1>3, HealDownPasses, HealSpawnPasses, HealUpPasses, HealUndoPasses, HealGuardPasses
<1> QED BY <1>1, <1>2, <1>3 DEF Progress

LEMMA TaskStepPasses ==
  ASSUME Shape, Placed, Hands, NEW t \in Tasks, Request(t) \/ Acquire(t) \/ Progress(t)
  PROVE  Passes(t)
BY RequestPasses, AcquirePasses, ProgressPasses DEF Passes

LEMMA InitHands == Init => Hands
BY AbsentValues DEF Init, Hands, HandsEmpty, HeldRuns, HeldOnce, Holds, InHand, Healed, OffPre, NoJob

LEMMA NextHands ==
  ASSUME IndInv, Placed, Hands, [Next]_vars
  PROVE  Hands'
<1>1. Shape /\ Rest /\ Shape'
  BY NextInv, InvIsShapeAndRest
<1>2. CASE UNCHANGED <<profile, warm, pre, session, runs, pc, job>>
  BY <1>2, PlacesSame DEF Hands, HandsEmpty, HeldRuns, HeldOnce, Holds
<1>3. ASSUME NEW t \in Tasks, Request(t) \/ Acquire(t) \/ Progress(t)
      PROVE  Hands'
  BY <1>1, <1>3, TaskStepPasses, FreesKeepsHands, CarriesKeepsHands, AimsKeepsHands,
     LaunchesKeepsHands, SeatsKeepsHands, LosesKeepsHands DEF Passes
<1>4. ASSUME NEW k \in WarmTasks, Prewarm(k)
      PROVE  Hands'
  BY <1>1, <1>4, PrewarmPasses, WarmLaunchesKeepsHands, ParksKeepsHands, WarmFreesKeepsHands,
     WarmCarriesKeepsHands DEF WarmPasses
<1>5. ASSUME NEW n \in Names, GoalPin(n)
      PROVE  UNCHANGED <<profile, warm, pre, session, runs, pc, job>>
  BY <1>5 DEF GoalPin, poolVars, osVars
<1> QED BY <1>2, <1>3, <1>4, <1>5 DEF Next, vars, regVars, poolVars, osVars

LEMMA HandsSeparate ==
  ASSUME Shape, EntriesKeepName, Hands
  PROVE  ChromesNotShared
<1> DEFINE held(x) == {warm[x]} \cup (IF Registered(x) THEN {session[entries[x]]} ELSE {})
<1>1. ASSUME NEW n \in AllNames, NEW m \in AllNames, n # m, NEW c \in Chromes,
             c \in held(n), c \in held(m)
      PROVE  FALSE
  <2>1. /\ Registered(n) => entries[n] \in Entries
        /\ Registered(m) => entries[m] \in Entries
    BY DEF Shape, RegShape, Registered
  <2>2. ~(warm[n] = c /\ warm[m] = c)
    BY <1>1 DEF Hands, HeldOnce
  <2>3. ~(warm[n] = c /\ Registered(m) /\ session[entries[m]] = c)
    BY <2>1 DEF Hands, HeldOnce
  <2>4. ~(warm[m] = c /\ Registered(n) /\ session[entries[n]] = c)
    BY <2>1 DEF Hands, HeldOnce
  <2>5. ~(Registered(n) /\ Registered(m) /\ session[entries[n]] = c /\ session[entries[m]] = c)
    BY <1>1, <2>1 DEF Hands, HeldOnce, EntriesKeepName
  <2> QED BY <1>1, <2>2, <2>3, <2>4, <2>5
<1>2. ASSUME NEW n \in AllNames, Registered(n), warm[n] # NoChrome, session[entries[n]] = warm[n]
      PROVE  FALSE
  <2>1. warm[n] \in Chromes /\ entries[n] \in Entries
    BY <1>2 DEF Shape, PoolShape, RegShape, Registered
  <2> QED BY <1>2, <2>1 DEF Hands, HeldOnce
<1> QED BY <1>1, <1>2 DEF ChromesNotShared

\* No two sessions of the registry drive the same Chrome, and no parked one is
\* a session's, whatever claims, heals and closes are in flight (create()'s
\* warm-claim, relaunch(), the pre-warm coroutine).
THEOREM NoChromeShared == Spec => []ChromesNotShared
<1>1. Init => IndInv /\ Placed /\ Hands
  BY InitInv, InitPlaced, InitHands
<1>2. IndInv /\ Placed /\ Hands /\ [Next]_vars => IndInv' /\ Placed' /\ Hands'
  BY NextInv, InvIsShapeAndRest, NextPlaced, NextHands
<1>3. IndInv /\ Hands => ChromesNotShared
  BY InvIsShapeAndRest, HandsSeparate DEF Rest
<1> QED BY <1>1, <1>2, <1>3, PTL DEF Spec

------------------------------------------------------------------------------
(* No Chrome is lost, as long as no goal walls a session in: a browser adopted *)
(* under a wall is adopted whoever owns the name by then.                     *)

ProfileAlone ==
  \A c, d \in Chromes : runs[c] = runs[d] /\ runs[c] # NoName => c = d

NoWall == walled = {} /\ \A t \in Tasks : pc[t] # "healGuard"

SessionOnProfile ==
  \A n \in AllNames :
    Registered(n) /\ session[entries[n]] \in Chromes =>
      runs[session[entries[n]]] = profile[entries[n]]

\* A session being closed is out of the registry, and stays out.
PoppedGone ==
  \A t \in Tasks : pc[t] = "popped" => \A n \in AllNames : entries[n] # job[t].target

Owned == NoWall /\ ProfileAlone /\ SessionOnProfile /\ PoppedGone /\ EveryChromeOwned

LEMMA EndsKeepsAlone ==
  ASSUME Shape, ProfileAlone, NEW c, Ends(c)
  PROVE  ProfileAlone'
<1>1. CASE Dies(c)
  BY <1>1 DEF Dies, ProfileAlone
<1>2. CASE UNCHANGED runs
  BY <1>2 DEF ProfileAlone
<1> QED BY <1>1, <1>2 DEF Ends, Teardown

LEMMA LaunchKeepsAlone ==
  ASSUME Shape, ProfileAlone, NEW p \in Profiles, NEW c \in Chromes, ProfileFree(p),
         runs' = [runs EXCEPT ![c] = p]
  PROVE  ProfileAlone'
BY DEF ProfileAlone, ProfileFree, Shape, OsShape

LEMMA PassesKeepsAlone ==
  ASSUME Shape, ProfileAlone, NEW t \in Tasks, Passes(t)
  PROVE  ProfileAlone'
<1>1. CASE Frees(t)
  BY <1>1, EndsKeepsAlone DEF Frees
<1>2. CASE Launches(t)
  BY <1>2, LaunchKeepsAlone DEF Launches, FreshChromes
<1>3. CASE Carries(t) \/ Aims(t) \/ Seats(t) \/ Loses(t)
  BY <1>3 DEF Carries, Aims, Seats, Loses, ProfileAlone
<1> QED BY <1>1, <1>2, <1>3 DEF Passes

LEMMA WarmPassesKeepsAlone ==
  ASSUME Shape, ProfileAlone, NEW k \in WarmTasks, WarmPasses(k)
  PROVE  ProfileAlone'
<1>1. CASE WarmFrees(k)
  BY <1>1, EndsKeepsAlone DEF WarmFrees
<1>2. CASE WarmLaunches(k)
  BY <1>2, LaunchKeepsAlone DEF WarmLaunches, FreshChromes
<1>3. CASE Parks(k) \/ WarmCarries(k)
  BY <1>3 DEF Parks, WarmCarries, ProfileAlone
<1> QED BY <1>1, <1>2, <1>3 DEF WarmPasses

LEMMA PassesKeepsNoWall ==
  ASSUME NoWall, NEW t \in Tasks, Passes(t)
  PROVE  NoWall'
<1>1. OthersHold(t)
  BY DEF Passes, Frees, Carries, Aims, Launches, Seats, Loses
<1> QED BY <1>1 DEF OthersHold, NoWall

\* What a step that ends a Chrome leaves of the others.
LEMMA EndsKeepsOwners ==
  ASSUME Shape, NEW c \in Chromes \cup {NoChrome}, Ends(c), NEW d \in Chromes, runs'[d] # NoName, d \notin stray'
  PROVE  /\ d # c /\ runs'[d] = runs[d] /\ d \notin stray
         /\ \A e \in Entries : session[e] = d => session'[e] = d
<1>1. CASE Dies(c)
  BY <1>1, AbsentValues DEF Dies, Shape, RegShape, OsShape
<1>2. CASE Stubborn /\ c \in Chromes /\ runs[c] # NoName /\ stray' = stray \cup {c} /\ UNCHANGED <<runs, session>>
  BY <1>2
<1>3. CASE c = NoChrome /\ UNCHANGED <<runs, session, stray>>
  BY <1>3, AbsentValues
<1> QED BY <1>1, <1>2, <1>3 DEF Ends, Teardown

LEMMA EndsKeepsProfiles ==
  ASSUME Shape, SessionOnProfile, NEW c \in Chromes \cup {NoChrome}, Ends(c),
         \A n \in AllNames : entries'[n] \in {entries[n], NoEntry}, UNCHANGED profile
  PROVE  SessionOnProfile'
<1>1. /\ \A e \in Entries : session'[e] = session[e] \/ session'[e] = NoChrome
      /\ \A e \in Entries : session'[e] \in Chromes => runs'[session'[e]] = runs[session'[e]]
  BY EndsKeepsRuns
<1>2. \A n \in AllNames : Registered(n) => entries[n] \in Entries
  BY DEF Shape, RegShape, Registered
<1> QED BY <1>1, <1>2, AbsentValues DEF SessionOnProfile, Registered

\* How the registry and the sessions being closed change.
LEMMA FreesEntries ==
  ASSUME Shape, NEW t \in Tasks, Stays(t) \/ Pops(t)
  PROVE  (\A n \in AllNames : entries'[n] \in {entries[n], NoEntry}) /\ UNCHANGED profile
BY DEF Stays, Pops, Shape, RegShape

LEMMA FreesKeepsGone ==
  ASSUME Shape, EntriesKeepName, PoppedGone, NEW t \in Tasks, OthersHold(t),
         Stays(t) \/ Pops(t)
  PROVE  PoppedGone'
<1>1. ASSUME NEW u \in Tasks \ {t}, pc'[u] = "popped", NEW n \in AllNames
      PROVE  entries'[n] # job'[u].target
  <2>1. pc[u] = "popped" /\ job'[u] = job[u] /\ job[u].target \in Entries
    BY <1>1 DEF OthersHold, Shape, TaskShape, MatchesStage
  <2> QED BY <2>1, FreesEntries, AbsentValues DEF PoppedGone
<1>2. ASSUME pc'[t] = "popped", NEW n \in AllNames
      PROVE  entries'[n] # job'[t].target
  <2>1. PICK m \in AllNames :
          /\ Registered(m)
          /\ entries' = [entries EXCEPT ![m] = NoEntry]
          /\ job'[t].target = entries[m]
    BY <1>2 DEF Stays, Pops
  <2> QED BY <2>1 DEF EntriesKeepName, Registered, Shape, RegShape
<1> QED BY <1>1, <1>2 DEF PoppedGone

LEMMA FreesKeepsOwned ==
  ASSUME Shape, Shape', EntriesKeepName, Hands, Owned, NEW t \in Tasks, Frees(t)
  PROVE  Owned'
<1> DEFINE c == job[t].chrome
<1>1. c \in Chromes \cup {NoChrome}
  BY DEF Shape, TaskShape, Jobs
<1>2. NoWall' /\ ProfileAlone'
  BY PassesKeepsNoWall, PassesKeepsAlone DEF Passes, Owned
<1>3. PoppedGone'
  BY FreesKeepsGone DEF Frees, Owned
<1>4. SessionOnProfile'
  BY <1>1, EndsKeepsProfiles, FreesEntries DEF Frees, Owned
<1>5. ASSUME NEW d \in Chromes, runs'[d] # NoName, d \notin stray'
      PROVE  \/ \E n \in AllNames : warm'[n] = d \/ (Registered(n)' /\ session'[entries'[n]] = d)
             \/ \E k \in WarmTasks : pre'[k].chrome = d
             \/ \E u \in Tasks : job'[u].chrome = d \/ (pc'[u] = "popped" /\ session'[job'[u].target] = d)
  <2>1. /\ d # c /\ runs[d] # NoName /\ d \notin stray
        /\ \A e \in Entries : session[e] = d => session'[e] = d
    BY <1>1, <1>5, EndsKeepsOwners DEF Frees
  <2>2. CASE \E n \in AllNames : warm[n] = d
    BY <2>2, AbsentValues DEF Frees, Unparks, Shape, PoolShape
  <2>3. ASSUME NEW n \in AllNames, Registered(n), session[entries[n]] = d
        PROVE  \/ Registered(n)' /\ session'[entries'[n]] = d
               \/ pc'[t] = "popped" /\ session'[job'[t].target] = d
    <3>1. entries[n] \in Entries /\ session'[entries[n]] = d
      BY <2>1, <2>3 DEF Shape, RegShape, Registered
    <3> QED BY <2>3, <3>1 DEF Frees, Stays, Pops, Registered, Shape, RegShape
  <2>4. CASE \E k \in WarmTasks : pre[k].chrome = d
    BY <2>4 DEF Frees, OthersHold, WarmHolds
  <2>5. CASE \E u \in Tasks : job[u].chrome = d
    BY <2>1, <2>5 DEF Frees, OthersHold
  <2>6. ASSUME NEW u \in Tasks, pc[u] = "popped", session[job[u].target] = d
        PROVE  pc'[u] = "popped" /\ session'[job'[u].target] = d
    BY <2>1, <2>6 DEF Frees, OthersHold, Shape, TaskShape, MatchesStage
  <2> QED BY <2>1, <2>2, <2>3, <2>4, <2>5, <2>6 DEF Owned, EveryChromeOwned
<1> QED BY <1>2, <1>3, <1>4, <1>5 DEF Owned, EveryChromeOwned

\* A step that moves no session: the sessions, their profiles and the registry
\* stay.
LEMMA StaysKeeps ==
  ASSUME Shape, SessionOnProfile, PoppedGone, NEW t \in Tasks, OthersHold(t), Stays(t), UNCHANGED session,
         \A d \in Chromes : runs[d] # NoName => runs'[d] = runs[d],
         \A e \in Entries : session[e] \in Chromes => runs[session[e]] # NoName
  PROVE  SessionOnProfile' /\ PoppedGone'
<1>1. SessionOnProfile'
  BY DEF SessionOnProfile, Stays, Registered, Shape, RegShape
<1>2. PoppedGone'
  BY DEF PoppedGone, Stays, OthersHold
<1> QED BY <1>1, <1>2

LEMMA CarriesKeepsOwned ==
  ASSUME Shape, Shape', EntriesKeepName, Hands, Owned, NEW t \in Tasks, Carries(t)
  PROVE  Owned'
<1>1. NoWall' /\ ProfileAlone'
  BY PassesKeepsNoWall, PassesKeepsAlone DEF Passes, Owned
<1>2. SessionOnProfile' /\ PoppedGone'
  BY StaysKeeps DEF Carries, Owned, Hands, HeldRuns
<1>3. pc[t] # "popped"
  BY DEF Carries, Healed
<1>4. EveryChromeOwned'
  BY <1>3 DEF Owned, EveryChromeOwned, Carries, OthersHold, WarmHolds, Stays, Registered
<1> QED BY <1>1, <1>2, <1>4 DEF Owned

LEMMA AimsKeepsOwned ==
  ASSUME Shape, Shape', EntriesKeepName, Hands, Owned, NEW t \in Tasks, Aims(t)
  PROVE  Owned'
<1>1. NoWall' /\ ProfileAlone'
  BY PassesKeepsNoWall, PassesKeepsAlone DEF Passes, Owned
<1>2. SessionOnProfile' /\ PoppedGone'
  BY StaysKeeps DEF Aims, Owned, Hands, HeldRuns
<1>3. job[t].chrome = NoChrome
  BY DEF Aims, Hands, HandsEmpty
<1>4. EveryChromeOwned'
  BY <1>3, AbsentValues DEF Owned, EveryChromeOwned, Aims, OthersHold, WarmHolds, Stays, Registered
<1> QED BY <1>1, <1>2, <1>4 DEF Owned

LEMMA LaunchesKeepsOwned ==
  ASSUME Shape, Shape', EntriesKeepName, Hands, Owned, NEW t \in Tasks, Launches(t)
  PROVE  Owned'
<1>1. NoWall' /\ ProfileAlone'
  BY PassesKeepsNoWall, PassesKeepsAlone DEF Passes, Owned
<1>2. PICK c \in FreshChromes, p \in Profiles :
        runs' = [runs EXCEPT ![c] = p] /\ job'[t].chrome = c
  BY DEF Launches
<1>3. c \in Chromes /\ runs[c] = NoName /\ \A d \in Chromes : d # c => runs'[d] = runs[d]
  BY <1>2 DEF FreshChromes, Shape, OsShape
<1>4. SessionOnProfile' /\ PoppedGone'
  BY <1>3, StaysKeeps DEF Launches, Owned, Hands, HeldRuns
<1>5. job[t].chrome = NoChrome /\ pc[t] # "popped"
  BY DEF Launches, Hands, HandsEmpty
<1>6. EveryChromeOwned'
  BY <1>2, <1>3, <1>5, AbsentValues
     DEF Owned, EveryChromeOwned, Launches, OthersHold, WarmHolds, Stays, Registered
<1> QED BY <1>1, <1>4, <1>6 DEF Owned

\* The session that gets a Chrome is registered, under the name it runs for,
\* and had none that still runs.
LEMMA SeatsKeepsOwned ==
  ASSUME Shape, Shape', EntriesKeepName, Hands, Owned, NEW t \in Tasks, Seats(t),
         \A m \in AllNames : Registered(m) => entries'[m] \in {entries[m], NoEntry}
  PROVE  Owned'
<1> DEFINE n == job[t].name
<1>1. NoWall' /\ ProfileAlone'
  BY PassesKeepsNoWall, PassesKeepsAlone DEF Passes, Owned
<1>2. PICK e \in Entries, c \in Chromes \cup {Foreign} :
       /\ session' = [session EXCEPT ![e] = c]
       /\ \/ Holds(t, c) /\ UNCHANGED warm
          \/ c = Foreign /\ UNCHANGED warm /\ pc[t] \notin InHand
          \/ /\ pc[t] \notin InHand
             /\ warm[n] = c
             /\ warm' = [warm EXCEPT ![n] = NoChrome]
       /\ \/ e \in FreshEntries /\ entries' = [entries EXCEPT ![n] = e]
          \/ /\ pc[t] \in InHand /\ e = job[t].target /\ UNCHANGED <<entries, profile>>
             /\ Owns(t) \/ pc[t] = "healGuard"
       /\ c \in Chromes => runs[c] = profile'[e]
       /\ \A f \in Entries \ {e} : profile'[f] = profile[f]
  BY DEF Seats
<1>3. /\ n \in AllNames /\ pc'[t] \notin InHand \cup {"popped"} /\ job'[t].chrome = NoChrome
      /\ pc[t] \notin Tearing \cup {"popped"} /\ OthersHold(t) /\ UNCHANGED <<runs, stray>>
  BY DEF Seats
<1>4. /\ session'[e] = c
      /\ \A f \in Entries : f # e => session'[f] = session[f]
  BY <1>2 DEF Shape, RegShape
<1>5. /\ c \in Chromes => runs[c] = profile'[e]
      /\ e \in FreshEntries \/ UNCHANGED profile
  BY <1>2
<1>6. /\ entries'[n] = e
      /\ \A m \in AllNames : m # n => entries'[m] = entries[m] /\ entries[m] # e
      /\ Registered(n) => entries[n] = e
  <2>1. CASE e \in FreshEntries /\ entries' = [entries EXCEPT ![n] = e]
    BY <1>3, <2>1, AbsentValues DEF Registered, FreshEntries, Shape, RegShape
  <2>2. CASE e = job[t].target /\ UNCHANGED entries /\ Owns(t)
    BY <1>3, <2>2, AbsentValues DEF Owns, EntriesKeepName, Registered
  <2> QED BY <1>2, <2>1, <2>2 DEF Owned, NoWall
<1>7. \A u \in Tasks : pc[u] = "popped" => u # t /\ job[u].target # e
  <2>1. CASE e \in FreshEntries
    BY <1>3, <2>1 DEF FreshEntries
  <2>2. CASE e = job[t].target /\ UNCHANGED entries
    BY <1>3, <1>6, <2>2 DEF Owned, PoppedGone
  <2> QED BY <1>2, <2>1, <2>2
<1>8. SessionOnProfile'
  BY <1>2, <1>3, <1>4, <1>5, <1>6 DEF Owned, SessionOnProfile, Registered, Shape, RegShape
<1>9. PoppedGone'
  BY <1>3, <1>6, <1>7 DEF Owned, PoppedGone, OthersHold
<1>10. ASSUME NEW d \in Chromes, runs'[d] # NoName, d \notin stray'
       PROVE  \/ \E m \in AllNames : warm'[m] = d \/ (Registered(m)' /\ session'[entries'[m]] = d)
              \/ \E k \in WarmTasks : pre'[k].chrome = d
              \/ \E u \in Tasks : job'[u].chrome = d \/ (pc'[u] = "popped" /\ session'[job'[u].target] = d)
  <2>1. runs[d] # NoName /\ d \notin stray
    BY <1>3, <1>10
  <2>2. entries'[n] # NoEntry /\ (d = c => session'[entries'[n]] = d)
    BY <1>4, <1>6, AbsentValues
  <2>3. ASSUME NEW m \in AllNames, warm[m] = d, d # c
        PROVE  warm'[m] = d
    BY <1>2, <2>3 DEF Shape, PoolShape
  <2>4. ASSUME NEW m \in AllNames, Registered(m), session[entries[m]] = d, d # c
        PROVE  Registered(m)' /\ session'[entries'[m]] = d
    <3>1. CASE m = n
      <4>1. entries[n] = e /\ runs[d] = profile'[e]
        BY <1>3, <1>5, <1>6, <2>4, <3>1 DEF Owned, SessionOnProfile, FreshEntries
      <4>2. c \in Chromes
        BY <1>2, <1>3, <4>1, AbsentValues DEF FreshEntries, Holds, Shape, TaskShape, Jobs
      <4> QED BY <1>5, <2>1, <2>4, <4>1, <4>2 DEF Owned, ProfileAlone
    <3>2. CASE m # n
      <4>1. entries'[m] = entries[m] /\ entries[m] \in Entries /\ entries[m] # e
        BY <1>6, <2>4, <3>2 DEF Registered, Shape, RegShape
      <4> QED BY <1>4, <2>4, <4>1 DEF Registered
    <3> QED BY <3>1, <3>2
  <2>5. CASE \E k \in WarmTasks : pre[k].chrome = d
    BY <1>3, <2>5 DEF OthersHold, WarmHolds
  <2>6. ASSUME NEW u \in Tasks, job[u].chrome = d, d # c
        PROVE  job'[u].chrome = d
    BY <1>2, <1>3, <2>6, AbsentValues DEF OthersHold, Holds, Hands, HandsEmpty
  <2>7. ASSUME NEW u \in Tasks, pc[u] = "popped", session[job[u].target] = d
        PROVE  pc'[u] = "popped" /\ session'[job'[u].target] = d
    BY <1>3, <1>4, <1>7, <2>7 DEF OthersHold, Shape, TaskShape, MatchesStage
  <2> QED BY <1>3, <2>1, <2>2, <2>3, <2>4, <2>5, <2>6, <2>7 DEF Owned, EveryChromeOwned, Registered
<1> QED BY <1>1, <1>8, <1>9, <1>10 DEF Owned, EveryChromeOwned

\* A coroutine touches neither the registry nor a request.
LEMMA WarmPassesKeepsOwned ==
  ASSUME Shape, Shape', Hands, Owned, NEW k \in WarmTasks, WarmPasses(k), UNCHANGED <<entries, walled>>
  PROVE  Owned'
<1> DEFINE c == pre[k].chrome
<1>1. NoWall' /\ ProfileAlone' /\ PoppedGone' /\ OthersWarm(k) /\ c \in Chromes \cup {NoChrome}
  BY WarmPassesKeepsAlone
     DEF Owned, NoWall, PoppedGone, WarmPasses, WarmLaunches, Parks, WarmFrees, WarmCarries,
         OthersWarm, Shape, PoolShape
<1>2. CASE Parks(k) \/ WarmCarries(k)
  <2>1. SessionOnProfile'
    BY <1>2 DEF Owned, SessionOnProfile, Registered, Parks, WarmCarries, OthersWarm
  <2>2. EveryChromeOwned'
    BY <1>2, AbsentValues DEF Owned, EveryChromeOwned, Registered, Parks, WarmCarries, OthersWarm, Shape, PoolShape
  <2> QED BY <1>1, <2>1, <2>2 DEF Owned
<1>3. CASE WarmLaunches(k)
  <2>1. PICK d \in FreshChromes : runs' = [runs EXCEPT ![d] = pre[k].profile] /\ pre'[k].chrome = d
    BY <1>3 DEF WarmLaunches
  <2>2. d \in Chromes /\ runs[d] = NoName /\ \A x \in Chromes : x # d => runs'[x] = runs[x]
    BY <2>1 DEF FreshChromes, Shape, OsShape
  <2>3. SessionOnProfile'
    BY <1>3, <2>2, FreshIsUnheld, <2>1 DEF Owned, SessionOnProfile, Registered, WarmLaunches, OthersWarm, Shape, RegShape
  <2>4. EveryChromeOwned'
    BY <1>3, <2>1, <2>2, AbsentValues DEF Owned, EveryChromeOwned, Registered, WarmLaunches, OthersWarm
  <2> QED BY <1>1, <2>3, <2>4 DEF Owned
<1>4. CASE WarmFrees(k)
  <2>1. SessionOnProfile'
    BY <1>1, <1>4, EndsKeepsProfiles DEF Owned, WarmFrees, OthersWarm
  <2>2. ASSUME NEW d \in Chromes, runs'[d] # NoName, d \notin stray'
        PROVE  \/ \E n \in AllNames : warm'[n] = d \/ (Registered(n)' /\ session'[entries'[n]] = d)
               \/ \E l \in WarmTasks : pre'[l].chrome = d
               \/ \E u \in Tasks : job'[u].chrome = d \/ (pc'[u] = "popped" /\ session'[job'[u].target] = d)
    <3>1. /\ d # c /\ runs[d] # NoName /\ d \notin stray
          /\ \A e \in Entries : session[e] = d => session'[e] = d
      BY <1>1, <1>4, <2>2, EndsKeepsOwners DEF WarmFrees
    <3>2. /\ \A n \in AllNames : Registered(n) => entries[n] \in Entries
          /\ \A u \in Tasks : pc[u] = "popped" => job[u].target \in Entries
      BY DEF Registered, Shape, RegShape, TaskShape, MatchesStage
    <3> QED BY <1>1, <1>4, <3>1, <3>2 DEF Owned, EveryChromeOwned, Registered, WarmFrees, OthersWarm
  <2> QED BY <1>1, <2>1, <2>2 DEF Owned, EveryChromeOwned
<1> QED BY <1>2, <1>3, <1>4 DEF WarmPasses

LEMMA InitOwned == Init => Owned
BY DEF Init, Owned, NoWall, ProfileAlone, SessionOnProfile, PoppedGone, EveryChromeOwned, Registered

LEMMA NextOwned ==
  ASSUME ~GoalPins, IndInv, Placed, Hands, Owned, [Next]_vars
  PROVE  Owned'
<1>1. Shape /\ Rest /\ Shape' /\ EntriesKeepName
  BY NextInv, InvIsShapeAndRest DEF Rest
<1>2. CASE UNCHANGED vars
  BY <1>2 DEF Owned, NoWall, ProfileAlone, SessionOnProfile, PoppedGone, EveryChromeOwned, Registered,
     vars, regVars, poolVars, osVars
<1>3. ASSUME NEW t \in Tasks, Request(t) \/ Acquire(t) \/ Progress(t)
      PROVE  Owned'
  <2>1. Passes(t)
    BY <1>1, <1>3, TaskStepPasses
  <2>2. \A m \in AllNames : Registered(m) => entries'[m] \in {entries[m], NoEntry}
    BY StepOverwritesNothing
  <2>3. ~Loses(t)
    BY DEF Loses, Owned, NoWall
  <2> QED BY <1>1, <2>1, <2>2, <2>3, FreesKeepsOwned, CarriesKeepsOwned, AimsKeepsOwned,
          LaunchesKeepsOwned, SeatsKeepsOwned DEF Passes
<1>4. ASSUME NEW k \in WarmTasks, Prewarm(k)
      PROVE  Owned'
  <2>1. UNCHANGED <<entries, walled>>
    BY <1>4 DEF Prewarm, PreSpawn, PreUp, PreDiscard, PreCancelled, regVars
  <2> QED BY <1>1, <1>4, <2>1, PrewarmPasses, WarmPassesKeepsOwned
<1>5. ASSUME NEW n \in Names, GoalPin(n)
      PROVE  FALSE
  BY <1>5 DEF GoalPin
<1> QED BY <1>2, <1>3, <1>4, <1>5 DEF Next

\* Without walls, no await of create(), relaunch(), close() or the pre-warm
\* loses the Chrome it started or took: a browser that runs is a session's, is
\* parked, or is in the hands of what will adopt or close it, unless its close
\* could not kill it.
THEOREM NoChromeLost == ASSUME ~GoalPins PROVE Spec => []EveryChromeOwned
<1>1. Init => IndInv /\ Placed /\ Hands /\ Owned
  BY InitInv, InitPlaced, InitHands, InitOwned
<1>2. IndInv /\ Placed /\ Hands /\ Owned /\ [Next]_vars => IndInv' /\ Placed' /\ Hands' /\ Owned'
  BY NextInv, InvIsShapeAndRest, NextPlaced, NextHands, NextOwned
<1>3. Owned => EveryChromeOwned
  BY DEF Owned
<1> QED BY <1>1, <1>2, <1>3, PTL DEF Spec

------------------------------------------------------------------------------
(* The explore lanes: what a request that minted its session's name knows.    *)

LaneStages == {"laneQueue", "startWait", "spawn", "up", "laneBody", "popped", "closing"}

OnLane(t) ==
  /\ pc[t] \in LaneStages /\ job[t].want = "ephemeral"
  /\ IF pc[t] = "laneBody"
     THEN Registered(job[t].name) /\ budget[entries[job[t].name]] = "ephemeral"
     ELSE ~Registered(job[t].name)
  /\ pc[t] \in {"popped", "closing"} =>
       /\ budget[job[t].target] = "ephemeral"
       /\ \A n \in AllNames : entries[n] # job[t].target

LaneTask(t) ==
  /\ IsLane(t) => OnLane(t)
  /\ pc[t] \in {"laneQueue", "laneBody"} => IsLane(t)

\* A minted name is of one request, and no pre-warm's.
OneEach == \A t, u \in Tasks : IsLane(t) /\ job[u].name = job[t].name => t = u

MintedCold ==
  /\ \A n \in MintedNames : warm[n] = NoChrome /\ warmTask[n] = NoWarm
  /\ \A k \in WarmTasks : pre[k].name \notin MintedNames

Lanes == (\A t \in Tasks : LaneTask(t)) /\ OneEach /\ MintedCold /\ LaneLeavesNothing

(* What a step of t leaves of minted names that are not its own, and of its own. *)

SparesMinted(t) == \A n \in MintedNames : n # job[t].name => entries'[n] = entries[n]

Renames(t) ==
  \/ job'[t].name \in Names \cup {NoName, job[t].name}
  \/ \A u \in Tasks : job[u].name # job'[t].name

LeavesCold ==
  /\ \A n \in MintedNames : warmTask'[n] \in {warmTask[n], NoWarm}
  /\ \A k \in WarmTasks : pre'[k].name \in {pre[k].name} \cup Names

CleansUp(t) ==
  /\ \A n \in MintedNames \cap dirs' : n \in dirs \/ n = job'[t].name
  /\ IsLane(t) => job'[t].name = job[t].name \/ job[t].name \notin dirs'

Behaves(t) == LaneTask(t)' /\ SparesMinted(t) /\ Renames(t) /\ LeavesCold /\ CleansUp(t)

LEMMA OthersOnLane ==
  ASSUME Shape, Rest, Lanes, NEW t \in Tasks, OneKind(t), SparesMinted(t), NEW u \in Tasks \ {t}
  PROVE  LaneTask(u)'
<1>1. pc'[u] = pc[u] /\ job'[u] = job[u] /\ LaneTask(u) /\ MatchesStage(pc[u], job[u])
  BY DEF OneKind, Quiet, Registers, Unregisters, Charges, OthersKept, Lanes, Shape, TaskShape
<1>2. CASE ~IsLane(u)
  BY <1>1, <1>2 DEF LaneTask, IsLane
<1>3. CASE IsLane(u)
  <2> DEFINE n == job[u].name
  <2>1. OnLane(u) /\ n \in MintedNames /\ n \in AllNames /\ n # job[t].name
    BY <1>1, <1>3 DEF LaneTask, IsLane, Lanes, OneEach, AllNames
  <2>2. entries'[n] = entries[n]
    BY <2>1 DEF SparesMinted
  <2>3. \A e \in Entries :
          /\ (\E m \in AllNames : entries[m] = e) \/ (\E v \in Tasks : job[v].target = e)
          /\ budget[e] = "ephemeral"
          => budget'[e] = "ephemeral"
    <3>1. CASE Quiet(t) \/ Unregisters(t)
      BY <3>1 DEF Quiet, Unregisters
    <3>2. CASE Charges(t)
      BY <3>2 DEF Charges, Shape, RegShape
    <3>3. CASE Registers(t)
      BY <3>3 DEF Registers, Register, FreshEntries, Shape, RegShape
    <3> QED BY <3>1, <3>2, <3>3 DEF OneKind
  <2>4. ASSUME NEW e \in Entries, \E v \in Tasks : job[v].target = e, \A m \in AllNames : entries[m] # e
        PROVE  \A m \in AllNames : entries'[m] # e
    <3>1. CASE Quiet(t) \/ Charges(t)
      BY <2>4, <3>1 DEF Quiet, Charges
    <3>2. CASE Unregisters(t)
      BY <2>4, <3>2, AbsentValues DEF Unregisters, Shape, RegShape
    <3>3. CASE Registers(t)
      BY <2>4, <3>3 DEF Registers, Register, FreshEntries, Shape, RegShape
    <3> QED BY <3>1, <3>2, <3>3 DEF OneKind
  <2>5. pc[u] = "laneBody" => entries[n] \in Entries /\ budget'[entries[n]] = "ephemeral"
    BY <2>1, <2>3 DEF OnLane, Registered, Shape, RegShape
  <2>6. pc[u] \in {"popped", "closing"} =>
          /\ budget'[job[u].target] = "ephemeral"
          /\ \A m \in AllNames : entries'[m] # job[u].target
    BY <1>1, <2>1, <2>3, <2>4 DEF OnLane, MatchesStage
  <2>7. OnLane(u)'
    BY <1>1, <2>1, <2>2, <2>5, <2>6 DEF OnLane, Registered
  <2> QED BY <1>1, <2>1, <2>7 DEF LaneTask, IsLane
<1> QED BY <1>2, <1>3

LEMMA BehavesKeepsLanes ==
  ASSUME Shape, Shape', Rest, Lanes, NEW t \in Tasks, OneKind(t), Passes(t), Behaves(t)
  PROVE  Lanes'
<1>1. \A u \in Tasks \ {t} : pc'[u] = pc[u] /\ job'[u] = job[u]
  BY DEF OneKind, Quiet, Registers, Unregisters, Charges, OthersKept
<1>2. \A u \in Tasks : LaneTask(u)'
  BY OthersOnLane DEF Behaves
<1>3. OneEach'
  <2>1. \A u \in Tasks \ {t} : job'[u].name = job[u].name
    BY <1>1
  <2>2. job'[t].name \in MintedNames => \A u \in Tasks \ {t} : job[u].name # job'[t].name
    BY NamesDisjoint, AbsentValues DEF Behaves, Renames, Lanes, OneEach, IsLane, AllNames, Profiles
  <2> QED BY <2>1, <2>2 DEF Lanes, OneEach, IsLane
<1>4. MintedCold'
  <2>1. \A n \in MintedNames : warm'[n] \in {warm[n], NoChrome}
    BY DEF Passes, Frees, Unparks, Carries, Aims, Launches, Seats, Loses, Shape, PoolShape, AllNames
  <2> QED BY <2>1, NamesDisjoint DEF Behaves, LeavesCold, Lanes, MintedCold
<1>5. LaneLeavesNothing'
  <2>1. ASSUME NEW n \in MintedNames \cap dirs'
        PROVE  \E u \in Tasks : job'[u].name = n
    <3>1. CASE n = job'[t].name
      BY <3>1
    <3>2. CASE n \in dirs /\ n # job'[t].name
      <4>1. PICK u \in Tasks : job[u].name = n
        BY <3>2 DEF Lanes, LaneLeavesNothing
      <4>2. u # t
        BY <2>1, <3>2, <4>1 DEF Behaves, CleansUp, IsLane
      <4> QED BY <1>1, <4>1, <4>2
    <3> QED BY <2>1, <3>1, <3>2 DEF Behaves, CleansUp
  <2> QED BY <2>1 DEF LaneLeavesNothing
<1> QED BY <1>2, <1>3, <1>4, <1>5 DEF Lanes

LEMMA WarmKeepsLanes ==
  ASSUME Shape, Placed, Lanes, NEW k \in WarmTasks, Prewarm(k)
  PROVE  Lanes'
<1>1. UNCHANGED <<entries, budget, mutateLock, pc, job>>
  BY DEF Prewarm, PreSpawn, PreUp, PreDiscard, PreCancelled, regVars
<1>2. /\ \A n \in AllNames : warmTask'[n] \in {warmTask[n], NoWarm}
      /\ \A l \in WarmTasks : pre'[l].name \in {pre[l].name, NoName}
  BY DEF Prewarm, PreSpawn, PreUp, PreDiscard, PreCancelled, PreEnds, OffPre, Shape, PoolShape
<1>3. \A n \in AllNames : warm'[n] = warm[n] \/ n = pre[k].name
  BY DEF Prewarm, PreSpawn, PreUp, PreDiscard, PreCancelled, Shape, PoolShape
<1>4. \A n \in MintedNames \cap dirs' : n \in dirs
  <2>1. dirs' = dirs \/ (pre[k].st = "spawn" /\ dirs' = dirs \cup {pre[k].profile})
    BY DEF Prewarm, PreSpawn, PreUp, PreDiscard, PreCancelled
  <2>2. pre[k].st = "spawn" => pre[k].name \in Names /\ pre[k].profile \in MayRunOn(pre[k].name)
    BY DEF Shape, PoolShape, Lanes, MintedCold, Placed, Own, PlacesOf, AllNames
  <2> QED BY <2>1, <2>2, NamesDisjoint DEF MayRunOn, AllNames
<1>5. \A t \in Tasks : LaneTask(t)'
  BY <1>1 DEF Lanes, LaneTask, OnLane, IsLane, Registered
<1>6. OneEach'
  BY <1>1 DEF Lanes, OneEach, IsLane
<1>7. MintedCold'
  BY <1>2, <1>3, AbsentValues DEF Lanes, MintedCold, AllNames, Profiles
<1>8. LaneLeavesNothing'
  BY <1>1, <1>4 DEF Lanes, MintedCold, LaneLeavesNothing
<1> QED BY <1>5, <1>6, <1>7, <1>8 DEF Lanes

LEMMA GoalPinKeepsLanes ==
  ASSUME Shape, Rest, Lanes, NEW n \in Names, GoalPin(n)
  PROVE  Lanes'
<1>1. UNCHANGED <<entries, warm, warmTask, pre, dirs, pc, job>>
  BY DEF GoalPin, poolVars, osVars
<1>2. \A e \in Entries : budget'[e] = budget[e] \/ e = entries[n]
  BY DEF GoalPin, Shape, RegShape
<1>3. ASSUME NEW t \in Tasks
      PROVE  LaneTask(t)'
  <2>1. LaneTask(t) /\ MatchesStage(pc[t], job[t])
    BY DEF Lanes, Shape, TaskShape
  <2>2. IsLane(t) /\ pc[t] = "laneBody" =>
          entries[job[t].name] \in Entries /\ entries[job[t].name] # entries[n]
    BY <2>1, NamesDisjoint DEF LaneTask, OnLane, IsLane, Registered, GoalPin, Rest, EntriesKeepName, AllNames, Shape, RegShape
  <2>3. IsLane(t) /\ pc[t] \in {"popped", "closing"} =>
          job[t].target \in Entries /\ job[t].target # entries[n]
    BY <2>1 DEF LaneTask, OnLane, MatchesStage, AllNames
  <2> QED BY <1>1, <1>2, <2>1, <2>2, <2>3 DEF LaneTask, OnLane, IsLane, Registered
<1>4. OneEach' /\ MintedCold' /\ LaneLeavesNothing'
  BY <1>1 DEF Lanes, OneEach, IsLane, MintedCold, LaneLeavesNothing
<1> QED BY <1>3, <1>4 DEF Lanes

(* The requests that are not explores.                                        *)

\* A step of theirs: no lane stage, no minted name, no profile but what they
\* are about.
Theirs(t) == {job[t].name, job[t].profile}
             \cup (IF job[t].target = NoEntry THEN {} ELSE {profile[job[t].target]})
OffLane(t) ==
  /\ job'[t].name \in Names \cup {NoName, job[t].name}
  /\ pc'[t] \notin {"laneQueue", "laneBody"}
  /\ dirs' \subseteq dirs \cup Theirs(t)
  /\ LeavesCold

LEMMA OffLaneBehaves ==
  ASSUME Shape, Placed, NEW t \in Tasks, ~IsLane(t), OffLane(t), SparesMinted(t),
         pc[t] = "idle" => UNCHANGED dirs
  PROVE  Behaves(t)
<1>1. job'[t].name \notin MintedNames
  BY NamesDisjoint, AbsentValues DEF OffLane, IsLane, AllNames, Profiles
<1>2. LaneTask(t)'
  BY <1>1 DEF LaneTask, IsLane, OffLane
<1>3. Renames(t)
  BY DEF Renames, OffLane
<1>4. CleansUp(t)
  <2>1. ASSUME pc[t] # "idle"
        PROVE  MintedNames \cap Theirs(t) = {}
    <3>1. job[t].name \in Names /\ job[t].profile \in MayRunOn(job[t].name)
      BY <2>1, JobIsPlaced DEF IsLane, PlacesOf, AllNames
    <3>2. job[t].target # NoEntry => profile[job[t].target] \in MayRunOn(job[t].name)
      BY <3>1, NamesDisjoint DEF IsLane, Placed, JobPlaced, Own, PlacesOf, AllNames
    <3>3. MintedNames \cap MayRunOn(job[t].name) = {}
      BY <3>1, NamesDisjoint DEF MayRunOn, AllNames
    <3> QED BY <3>1, <3>2, <3>3, NamesDisjoint DEF Theirs
  <2> QED BY <2>1 DEF CleansUp, IsLane, OffLane
<1> QED BY <1>2, <1>3, <1>4 DEF Behaves, OffLane

LEMMA KindSparesMinted ==
  ASSUME Shape, NEW t \in Tasks, Quiet(t) \/ Registers(t) \/ Charges(t)
  PROVE  SparesMinted(t)
BY DEF Quiet, Registers, Charges, Register, SparesMinted, Shape, RegShape, AllNames

LEMMA PopSparesMinted ==
  ASSUME Shape, NEW t \in Tasks, CloseLocked(t) \/ PinnedStop(t) \/ LaneDone(t)
  PROVE  SparesMinted(t)
BY NamesDisjoint DEF CloseLocked, PinnedStop, LaneDone, Pop, regVars, SparesMinted, Shape, RegShape, AllNames

LEMMA SparesMintedAll ==
  ASSUME Shape, Rest, NEW t \in Tasks, Request(t) \/ Acquire(t) \/ Progress(t)
  PROVE  SparesMinted(t)
<1>1. CASE CloseLocked(t) \/ PinnedStop(t) \/ LaneDone(t)
  BY <1>1, PopSparesMinted
<1>2. CASE Request(t) /\ ~PinnedStop(t)
  BY <1>2, RegistryVerbEffect, GoUnstartedEffect, ExploreEffect, VerbArriveEffect, KindSparesMinted DEF Request
<1>3. CASE Acquire(t) /\ ~CloseLocked(t)
  BY <1>3, StartLockedEffect, GoLockedEffect, AttachLockedEffect, NewLockedEffect, DeleteLockedEffect,
     ProbeLockedEffect, ProbeRunEffect, VerbRunEffect, KindSparesMinted DEF Acquire
<1>4. CASE Progress(t) /\ ~LaneDone(t)
  BY <1>4, LaneTryEffect, JoinDoneEffect, DropDoneEffect, CreateSpawnEffect, CreateUpEffect, AttachDoneEffect,
     ProbeDoneEffect, CloseTeardownEffect, CloseDoneEffect, CancelDoneEffect, SweepEffect, VerbDoneEffect,
     VerbCrashEffect, HealDownEffect, HealSpawnEffect, HealUpEffect, HealUndoEffect, HealGuardEffect,
     KindSparesMinted DEF Progress
<1> QED BY <1>1, <1>2, <1>3, <1>4

LEMMA StillCold ==
  ASSUME Shape, UNCHANGED <<warmTask, pre>>
  PROVE  LeavesCold
BY DEF LeavesCold

LEMMA ReturnOffLane ==
  ASSUME Shape, NEW t \in Tasks, Return(t)
  PROVE  job'[t] = NoJob /\ job'[t].name = NoName /\ pc'[t] = "idle"
BY DEF Shape, TaskShape, Return, NoJob, About

LEMMA ContinueOffLane ==
  ASSUME Shape, NEW t \in Tasks, NEW p, Continue(t, p)
  PROVE  pc'[t] = p /\ job'[t].name = job[t].name /\ job'[t].want = job[t].want
<1> DEFINE j == [job[t] EXCEPT !.target = NoEntry, !.chrome = NoChrome, !.join = NoWarm]
<1>1. job[t] \in Jobs /\ j.name = job[t].name /\ j.want = job[t].want
  BY DEF Shape, TaskShape, Jobs
<1>2. pc' = [pc EXCEPT ![t] = p] /\ job' = [job EXCEPT ![t] = j]
  BY DEF Continue
<1> QED BY <1>1, <1>2 DEF Shape, TaskShape

LEMMA StartEndsOffLane ==
  ASSUME Shape, NEW t \in Tasks, ~IsLane(t), StartWorks(t) \/ StartFails(t)
  PROVE  job'[t].name \in {NoName, job[t].name} /\ pc'[t] \in {"idle", "verb"}
BY ReturnOffLane, ContinueOffLane DEF StartWorks, StartFails

LEMMA StepOffLane ==
  ASSUME Shape, NEW t \in Tasks, NEW p \in PCs \ {"laneQueue", "laneBody"}, NEW j \in Jobs, Step(t, p, j),
         j.name \in Names \cup {job[t].name}
  PROVE  job'[t].name \in Names \cup {NoName, job[t].name} /\ pc'[t] \notin {"laneQueue", "laneBody"}
BY StepLands

\* A new request of these, and a pinned explore that ends, address a named session.
LEMMA ArrivesOffLane ==
  ASSUME Shape, NEW t \in Tasks, RegistryVerb(t) \/ GoUnstarted(t) \/ VerbArrive(t) \/ PinnedStop(t)
  PROVE  OffLane(t)
<1>1. UNCHANGED <<warmTask, pre, dirs>>
  BY DEF RegistryVerb, GoUnstarted, VerbArrive, PinnedStop, Pop, poolVars, osVars
<1>2. \E n \in Names : job'[t].name = n /\ pc'[t] \notin {"laneQueue", "laneBody"}
  <2>1. CASE RegistryVerb(t)
    <3>1. PICK n \in Names, w \in {"persistent", "ephemeral"}, v \in Waiting \ {"goWait"} :
            \E p \in MayRunOn(n) : Step(t, v, [About(n, p) EXCEPT !.want = w])
      BY <2>1 DEF RegistryVerb
    <3>2. PICK p \in MayRunOn(n) : pc'[t] = v /\ job'[t] = [About(n, p) EXCEPT !.want = w]
      BY <3>1, StepLands
    <3> QED BY <3>2 DEF NoJob, About, Waiting
  <2>2. CASE GoUnstarted(t)
    <3>1. PICK n \in Names : Step(t, "goWait", About(n, n))
      BY <2>2 DEF GoUnstarted
    <3>2. pc'[t] = "goWait" /\ job'[t] = About(n, n)
      BY <3>1, StepLands
    <3> QED BY <3>2 DEF NoJob, About
  <2>3. CASE VerbArrive(t)
    <3>1. PICK n \in Names, p \in {"verb", "verbWait"} :
            Step(t, p, [About(n, n) EXCEPT !.entry = entries[n]])
      BY <2>3 DEF VerbArrive, AcquireOrQueue
    <3>2. pc'[t] = p /\ job'[t] = [About(n, n) EXCEPT !.entry = entries[n]]
      BY <3>1, StepLands
    <3> QED BY <3>2 DEF NoJob, About
  <2>4. CASE PinnedStop(t)
    <3>1. PICK n \in Names : Step(t, "popped", [NoJob EXCEPT !.name = n, !.target = entries[n], !.profile = profile[entries[n]]])
      BY <2>4 DEF PinnedStop, Pop
    <3>2. pc'[t] = "popped" /\ job'[t] = [NoJob EXCEPT !.name = n, !.target = entries[n], !.profile = profile[entries[n]]]
      BY <3>1, StepLands
    <3> QED BY <3>2 DEF NoJob, About
  <2> QED BY <2>1, <2>2, <2>3, <2>4
<1> QED BY <1>1, <1>2, StillCold DEF OffLane

LEMMA TakeWarmOffLane ==
  ASSUME Shape, NEW t \in Tasks, ~IsLane(t), TakeWarm(t)
  PROVE  OffLane(t)
<1> DEFINE c == warm[job[t].name]
<1>1. job[t] \in Jobs /\ dirs' \subseteq dirs \cup Theirs(t) /\ LeavesCold
  <2>1. UNCHANGED <<warmTask, pre>>
    BY DEF TakeWarm, poolVars
  <2>2. dirs' \subseteq dirs \cup Theirs(t)
    BY DEF TakeWarm, StartFails, Theirs
  <2> QED BY <2>1, <2>2, StillCold DEF Shape, TaskShape
<1>2. CASE StartWorks(t) \/ StartFails(t)
  BY <1>1, <1>2, StartEndsOffLane DEF OffLane
<1>3. CASE Step(t, "drop", [job[t] EXCEPT !.chrome = c, !.join = NoWarm])
  <2> DEFINE j == [job[t] EXCEPT !.chrome = c, !.join = NoWarm]
  <2>1. j.name = job[t].name
    BY <1>1 DEF Jobs
  <2>2. Step(t, "drop", j)
    BY <1>3
  <2> HIDE DEF j
  <2>3. job'[t] = j /\ pc'[t] = "drop"
    BY <2>2, StepLands
  <2> QED BY <1>1, <2>1, <2>3 DEF OffLane
<1>4. CASE Step(t, "spawn", [job[t] EXCEPT !.join = NoWarm])
  BY <1>1, <1>4, StepLands DEF OffLane, Jobs
<1> QED BY <1>2, <1>3, <1>4 DEF TakeWarm

LEMMA CreateOffLane ==
  ASSUME Shape, NEW t \in Tasks, ~IsLane(t), Create(t)
  PROVE  OffLane(t)
<1> DEFINE n == job[t].name
<1>1. CASE StartFails(t) /\ UNCHANGED poolVars
  <2>1. dirs' \subseteq dirs \cup Theirs(t)
    BY <1>1 DEF StartFails, Theirs
  <2> QED BY <1>1, <2>1, StillCold, StartEndsOffLane DEF OffLane, poolVars
<1>2. CASE TakeWarm(t)
  BY <1>2, TakeWarmOffLane
<1>3. CASE /\ warmTask' = [warmTask EXCEPT ![n] = NoWarm]
           /\ Step(t, "join", [job[t] EXCEPT !.join = warmTask[n]])
           /\ dirs' = dirs \cup {job[t].profile} /\ UNCHANGED pre
  <2>1. LeavesCold
    BY <1>3 DEF LeavesCold, Shape, PoolShape, AllNames
  <2>2. job[t] \in Jobs
    BY DEF Shape, TaskShape
  <2>3. job'[t].name = job[t].name /\ pc'[t] = "join"
    BY <1>3, <2>2, StepLands DEF Jobs
  <2> QED BY <1>3, <2>1, <2>3 DEF OffLane, Theirs
<1> QED BY <1>1, <1>2, <1>3 DEF Create

\* The request is answered or goes on under its name.
KeepsName(t) == pc'[t] \notin {"laneQueue", "laneBody"} /\ job'[t].name \in {NoName, job[t].name}

LEMMA NameKeptOffLane ==
  ASSUME NEW t \in Tasks, KeepsName(t), dirs' \subseteq dirs \cup Theirs(t), LeavesCold
  PROVE  OffLane(t)
BY DEF KeepsName, OffLane

LEMMA ReturnKeepsName ==
  ASSUME Shape, NEW t \in Tasks, Return(t)
  PROVE  KeepsName(t)
BY ReturnOffLane DEF KeepsName

LEMMA StepKeepsName ==
  ASSUME Shape, NEW t \in Tasks, NEW p, p \notin {"laneQueue", "laneBody"}, NEW j, Step(t, p, j),
         j.name = job[t].name
  PROVE  KeepsName(t)
BY StepLands DEF KeepsName

\* What a request may change of its job and keep its name.
LEMMA SameName ==
  ASSUME Shape, NEW t \in Tasks, NEW e, NEW c, NEW k, NEW p
  PROVE  /\ job[t].name = job[t].name
         /\ [job[t] EXCEPT !.chrome = c].name = job[t].name
         /\ [job[t] EXCEPT !.entry = e].name = job[t].name
         /\ [job[t] EXCEPT !.join = k].name = job[t].name
         /\ [job[t] EXCEPT !.target = e, !.chrome = c].name = job[t].name
         /\ [job[t] EXCEPT !.join = k, !.chrome = c].name = job[t].name
         /\ [job[t] EXCEPT !.chrome = c, !.join = k].name = job[t].name
         /\ [job[t] EXCEPT !.name = job[t].name, !.target = e, !.profile = p].name = job[t].name
<1>1. job[t] \in Jobs
  BY DEF Shape, TaskShape
<1> QED BY <1>1 DEF Jobs

LEMMA ScheduleCold ==
  ASSUME Shape, NEW n \in Names, NEW p, Schedule(n, p)
  PROVE  LeavesCold
<1>1. CASE UNCHANGED poolVars
  BY <1>1, StillCold DEF poolVars
<1>2. ASSUME NEW k \in WarmTasks, warmTask' = [warmTask EXCEPT ![n] = k],
             pre' = [pre EXCEPT ![k] = [OffPre EXCEPT !.st = "spawn", !.name = n, !.profile = p]]
      PROVE  LeavesCold
  BY <1>2, NamesDisjoint DEF LeavesCold, OffPre, Shape, PoolShape, AllNames
<1> QED BY <1>1, <1>2 DEF Schedule, FreshWarmTasks

LEMMA BeginCancelCold ==
  ASSUME Shape, NEW t \in Tasks, job[t].name \in AllNames, BeginCancel(t)
  PROVE  LeavesCold /\ KeepsName(t)
<1> DEFINE n == job[t].name
           k == warmTask[n]
<1>1. CASE k # NoWarm
  <2>1. /\ warmTask' = [warmTask EXCEPT ![n] = NoWarm] /\ pre' = [pre EXCEPT ![k].st = "cancelled"]
        /\ k \in WarmTasks
    BY <1>1 DEF BeginCancel, Shape, PoolShape
  <2>2. LeavesCold
    BY <2>1 DEF LeavesCold, Shape, PoolShape, AllNames
  <2>3. Step(t, "cancel", [job[t] EXCEPT !.join = k, !.chrome = NoChrome])
    BY <1>1 DEF BeginCancel
  <2> HIDE DEF k
  <2>4. KeepsName(t)
    BY <2>3, SameName, StepKeepsName, ZenonT(30)
  <2> QED BY <2>2, <2>4
<1>2. CASE k = NoWarm
  <2>1. Step(t, "sweep", [job[t] EXCEPT !.chrome = warm[n]]) /\ UNCHANGED <<warmTask, pre>>
    BY <1>2 DEF BeginCancel
  <2> QED BY <2>1, SameName, StepKeepsName, StillCold
<1> QED BY <1>1, <1>2

LEMMA NamedOffLane == ASSUME Shape, NEW t \in Tasks, pc[t] # "idle", ~IsLane(t) PROVE job[t].name \in Names
BY DEF Shape, TaskShape, MatchesStage, IsLane, AllNames

LEMMA NewLockedOffLane ==
  ASSUME Shape, NEW t \in Tasks, ~IsLane(t), NewLocked(t) PROVE OffLane(t)
<1>1. job[t].name \in Names
  BY NamedOffLane DEF NewLocked
<1>2. LeavesCold
  BY <1>1, ScheduleCold DEF NewLocked
<1> QED BY <1>2, ReturnKeepsName, NameKeptOffLane DEF NewLocked, Theirs

LEMMA CloseDoneOffLane ==
  ASSUME Shape, NEW t \in Tasks, ~IsLane(t), CloseDone(t) PROVE OffLane(t)
<1>1. job[t].name \in Names /\ job[t].name \in AllNames
  BY NamedOffLane DEF CloseDone, AllNames
<1>2. CASE BeginCancel(t) /\ UNCHANGED dirs
  BY <1>1, <1>2, BeginCancelCold, NameKeptOffLane
<1>3. CASE RemoveProfile(t) /\ UNCHANGED poolVars
  BY <1>3, ReturnKeepsName, StillCold, NameKeptOffLane DEF RemoveProfile, poolVars
<1>4. CASE Return(t) /\ (Schedule(job[t].name, job[t].profile) \/ UNCHANGED poolVars) /\ UNCHANGED dirs
  BY <1>1, <1>4, ReturnKeepsName, ScheduleCold, StillCold, NameKeptOffLane DEF poolVars
<1> QED BY <1>2, <1>3, <1>4 DEF CloseDone

LEMMA DeleteLockedOffLane ==
  ASSUME Shape, NEW t \in Tasks, ~IsLane(t), DeleteLocked(t) PROVE OffLane(t)
<1>1. job[t].name \in AllNames
  BY NamedOffLane DEF DeleteLocked, AllNames
<1>2. CASE BeginCancel(t) /\ UNCHANGED dirs
  BY <1>1, <1>2, BeginCancelCold, NameKeptOffLane
<1>3. CASE RemoveProfile(t) /\ UNCHANGED poolVars
  BY <1>3, ReturnKeepsName, StillCold, NameKeptOffLane DEF RemoveProfile, poolVars
<1>4. CASE Return(t) /\ UNCHANGED poolVars /\ UNCHANGED dirs
  BY <1>4, ReturnKeepsName, StillCold, NameKeptOffLane DEF poolVars
<1> QED BY <1>2, <1>3, <1>4 DEF DeleteLocked

LEMMA CancelDoneOffLane ==
  ASSUME Shape, NEW t \in Tasks, CancelDone(t) PROVE OffLane(t)
<1>1. LeavesCold
  BY StillCold DEF CancelDone
<1>2. CASE RemoveProfile(t)
  BY <1>1, <1>2, ReturnKeepsName, NameKeptOffLane DEF RemoveProfile
<1>3. CASE Step(t, "sweep", [job[t] EXCEPT !.chrome = warm[job[t].name], !.join = NoWarm]) /\ UNCHANGED dirs
  <2> DEFINE j == [job[t] EXCEPT !.chrome = warm[job[t].name], !.join = NoWarm]
  <2>1. j.name = job[t].name
    BY SameName
  <2>2. Step(t, "sweep", j)
    BY <1>3
  <2> HIDE DEF j
  <2> QED BY <1>1, <1>3, <2>1, <2>2, StepKeepsName, NameKeptOffLane
<1> QED BY <1>2, <1>3 DEF CancelDone

LEMMA SweepOffLane ==
  ASSUME Shape, NEW t \in Tasks, Sweep(t) PROVE OffLane(t)
BY ReturnKeepsName, StillCold, NameKeptOffLane DEF Sweep, RemoveProfile, poolVars

LEMMA CloseLockedOffLane ==
  ASSUME Shape, NEW t \in Tasks, CloseLocked(t) PROVE OffLane(t)
<1>1. LeavesCold /\ UNCHANGED dirs
  BY StillCold DEF CloseLocked, Pop, poolVars, osVars
<1>2. CASE Return(t)
  BY <1>1, <1>2, ReturnKeepsName, NameKeptOffLane
<1>3. CASE Step(t, "popped", [job[t] EXCEPT !.name = job[t].name, !.target = entries[job[t].name],
                                               !.profile = profile[entries[job[t].name]]])
  <2> DEFINE j == [job[t] EXCEPT !.name = job[t].name, !.target = entries[job[t].name],
                                 !.profile = profile[entries[job[t].name]]]
  <2>1. j.name = job[t].name
    BY SameName
  <2>2. Step(t, "popped", j)
    BY <1>3
  <2> HIDE DEF j
  <2>3. KeepsName(t)
    BY <2>1, <2>2, StepKeepsName
  <2> QED BY <1>1, <2>3, NameKeptOffLane
<1> QED BY <1>2, <1>3 DEF CloseLocked, Pop

LEMMA ProbeLockedOffLane ==
  ASSUME Shape, NEW t \in Tasks, ProbeLocked(t) PROVE OffLane(t)
<1> DEFINE e == entries[job[t].name]
<1>1. LeavesCold /\ dirs' \subseteq dirs \cup Theirs(t)
  BY StillCold DEF ProbeLocked, Theirs, poolVars
<1>2. CASE Return(t)
  BY <1>1, <1>2, ReturnKeepsName, NameKeptOffLane
<1>3. ASSUME NEW p \in {"probe", "probeLock"}, Step(t, p, [job[t] EXCEPT !.entry = e])
      PROVE  OffLane(t)
  BY <1>1, <1>3, SameName, StepKeepsName, NameKeptOffLane
<1> QED BY <1>2, <1>3 DEF ProbeLocked, AcquireOrQueue

LEMMA SpawnsOffLane ==
  ASSUME Shape, NEW t \in Tasks, ~IsLane(t), CreateSpawn(t) PROVE OffLane(t)
<1>1. LeavesCold
  BY StillCold DEF CreateSpawn, poolVars
<1>2. CASE StartFails(t)
  BY <1>1, <1>2, StartEndsOffLane DEF StartFails, OffLane, Theirs
<1>3. ASSUME NEW c, Step(t, "up", [job[t] EXCEPT !.chrome = c]), dirs' = dirs \cup {job[t].profile}
      PROVE  OffLane(t)
  BY <1>1, <1>3, SameName, StepKeepsName, NameKeptOffLane DEF Theirs
<1> QED BY <1>2, <1>3 DEF CreateSpawn

LEMMA UpsOffLane ==
  ASSUME Shape, NEW t \in Tasks, ~IsLane(t), CreateUp(t) PROVE OffLane(t)
<1>1. LeavesCold
  BY StillCold DEF CreateUp, poolVars
<1>2. dirs' \subseteq dirs \cup Theirs(t)
  BY DEF CreateUp, osVars, StartFails, Theirs
<1> QED BY <1>1, <1>2, StartEndsOffLane DEF CreateUp, OffLane

LEMMA HealSpawnOffLane ==
  ASSUME Shape, NEW t \in Tasks, HealSpawn(t) PROVE OffLane(t)
<1>1. LeavesCold
  BY StillCold DEF HealSpawn, poolVars
<1>2. CASE Leave(t) /\ UNCHANGED dirs
  BY <1>1, <1>2, ReturnKeepsName, NameKeptOffLane DEF Leave
<1>3. ASSUME NEW c, Step(t, "healUp", [job[t] EXCEPT !.chrome = c]),
             dirs' = dirs \cup {profile[job[t].target]}, job[t].target # NoEntry
      PROVE  OffLane(t)
  BY <1>1, <1>3, SameName, StepKeepsName, NameKeptOffLane DEF Theirs
<1>4. pc[t] = "healSpawn" => job[t].target # NoEntry
  BY AbsentValues DEF Shape, TaskShape, MatchesStage, Healing
<1> QED BY <1>2, <1>3, <1>4 DEF HealSpawn

LEMMA AttachDoneOffLane ==
  ASSUME Shape, NEW t \in Tasks, AttachDone(t) PROVE OffLane(t)
<1>1. LeavesCold /\ dirs' \subseteq dirs \cup Theirs(t)
  BY StillCold DEF AttachDone, Theirs, poolVars
<1> QED BY <1>1, ReturnKeepsName, NameKeptOffLane DEF AttachDone

LEMMA VerbsOffLane ==
  ASSUME Shape, NEW t \in Tasks, ProbeRun(t) \/ ProbeDone(t) \/ VerbRun(t) \/ VerbDone(t) \/ AttachLocked(t)
  PROVE  OffLane(t)
<1>1. LeavesCold /\ UNCHANGED dirs
  BY StillCold DEF ProbeRun, ProbeDone, VerbRun, VerbDone, AttachLocked, poolVars, osVars
<1>2. Return(t) \/ \E p \in {"probe", "verb", "goWait", "attach"} : Step(t, p, job[t])
  BY DEF ProbeRun, ProbeDone, VerbRun, VerbDone, AttachLocked, Leave
<1> QED BY <1>1, <1>2, ReturnKeepsName, StepKeepsName, NameKeptOffLane

LEMMA HealsOffLane ==
  ASSUME Shape, NEW t \in Tasks, VerbCrash(t) \/ HealDown(t) \/ HealUp(t) \/ HealUndo(t) \/ HealGuard(t)
  PROVE  OffLane(t)
<1>1. LeavesCold /\ UNCHANGED dirs
  BY StillCold DEF VerbCrash, HealDown, HealUp, HealUndo, HealGuard, poolVars, osVars
<1>2. CASE VerbCrash(t)
  <2> DEFINE e == entries[job[t].name]
             j == [job[t] EXCEPT !.target = e, !.chrome = session[e]]
  <2>1. j.name = job[t].name
    BY SameName
  <2>2. Return(t) \/ Step(t, "healDown", j)
    BY <1>2 DEF VerbCrash, Leave
  <2> HIDE DEF j
  <2> QED BY <1>1, <2>1, <2>2, ReturnKeepsName, StepKeepsName, NameKeptOffLane
<1>3. CASE HealDown(t)
  BY <1>1, <1>3, SameName, StepKeepsName, NameKeptOffLane DEF HealDown
<1>4. CASE HealUp(t) \/ HealUndo(t) \/ HealGuard(t)
  <2> DEFINE j == [job[t] EXCEPT !.target = NoEntry, !.chrome = NoChrome]
  <2>1. j.name = job[t].name
    BY SameName
  <2>2. \/ Return(t) \/ Step(t, "healUndo", job[t]) \/ Step(t, "healGuard", job[t])
        \/ Step(t, "verbLast", j)
    BY <1>4 DEF HealUp, HealUndo, HealGuard, Adopt, Leave
  <2> HIDE DEF j
  <2> QED BY <1>1, <2>1, <2>2, ReturnKeepsName, StepKeepsName, NameKeptOffLane
<1> QED BY <1>2, <1>3, <1>4

LEMMA DropsOffLane ==
  ASSUME Shape, NEW t \in Tasks, DropDone(t) \/ CloseTeardown(t) PROVE OffLane(t)
<1>1. LeavesCold /\ UNCHANGED dirs
  BY StillCold DEF DropDone, CloseTeardown, poolVars, osVars
<1>2. \E c : Step(t, "spawn", [job[t] EXCEPT !.chrome = c]) \/ Step(t, "closing", [job[t] EXCEPT !.chrome = c])
  BY DEF DropDone, CloseTeardown
<1> QED BY <1>1, <1>2, SameName, StepKeepsName, NameKeptOffLane

(* The explores: one proceeds to its next stage, or finishes, its profile      *)
(* removed.                                                                    *)

Proceeds(t) ==
  /\ OnLane(t)' /\ job'[t].name = job[t].name
  /\ dirs' \in {dirs, dirs \cup {job[t].name}} /\ LeavesCold

Finishes(t) ==
  /\ pc'[t] = "idle" /\ job'[t] = NoJob
  /\ dirs' = dirs \ {job[t].name} /\ LeavesCold

LEMMA ProceedsBehaves ==
  ASSUME NEW t \in Tasks, IsLane(t), Proceeds(t), SparesMinted(t)
  PROVE  Behaves(t)
<1>1. LaneTask(t)'
  BY DEF Proceeds, LaneTask, IsLane
<1>2. Renames(t) /\ CleansUp(t)
  BY DEF Proceeds, Renames, CleansUp
<1> QED BY <1>1, <1>2 DEF Behaves, Proceeds

LEMMA FinishesBehaves ==
  ASSUME NEW t \in Tasks, IsLane(t), Finishes(t), SparesMinted(t)
  PROVE  Behaves(t)
<1>1. LaneTask(t)'
  BY AbsentValues DEF Finishes, NoJob, LaneTask, IsLane, AllNames, Profiles
<1>2. Renames(t) /\ CleansUp(t)
  BY DEF Finishes, NoJob, Renames, CleansUp
<1> QED BY <1>1, <1>2 DEF Behaves, Finishes

\* An explore before its session is registered: nothing in the registry changes.
Early == {"laneQueue", "startWait", "spawn", "up"}

LEMMA EarlyProceeds ==
  ASSUME NEW t \in Tasks, pc'[t] \in Early, job'[t].name = job[t].name,
         job'[t].want = "ephemeral", ~Registered(job[t].name), UNCHANGED entries,
         dirs' \in {dirs, dirs \cup {job[t].name}}, LeavesCold
  PROVE  Proceeds(t)
BY DEF Proceeds, OnLane, Early, LaneStages, Registered

\* It has its session.
LEMMA RegisteredProceeds ==
  ASSUME Shape, NEW t \in Tasks, job[t].name \in AllNames, pc'[t] = "laneBody",
         job'[t].name = job[t].name, job'[t].want = "ephemeral",
         NEW c, NEW p, Register(job[t].name, c, "ephemeral", p),
         dirs' \in {dirs, dirs \cup {job[t].name}}, LeavesCold
  PROVE  Proceeds(t)
<1>1. PICK e \in FreshEntries : /\ entries' = [entries EXCEPT ![job[t].name] = e]
                               /\ budget' = [budget EXCEPT ![e] = "ephemeral"]
  BY DEF Register
<1>2. e \in Entries /\ entries'[job[t].name] = e /\ budget'[e] = "ephemeral"
  BY <1>1 DEF FreshEntries, Shape, RegShape
<1> QED BY <1>2, AbsentValues DEF Proceeds, OnLane, LaneStages, Registered

LEMMA LaneKnows ==
  ASSUME Shape, Placed, Lanes, NEW t \in Tasks, IsLane(t)
  PROVE  /\ OnLane(t) /\ job[t].want = "ephemeral" /\ job[t].name \in AllNames
         /\ job[t] \in Jobs /\ job[t].profile = job[t].name /\ job[t].name \notin Outside
         /\ warm[job[t].name] = NoChrome /\ warmTask[job[t].name] = NoWarm
BY NamesDisjoint DEF Lanes, LaneTask, OnLane, IsLane, MintedCold, AllNames, Shape, TaskShape, Placed, JobPlaced,
   Own, PlacesOf

LEMMA LaneStartFails ==
  ASSUME Shape, NEW t \in Tasks, IsLane(t), StartFails(t), LeavesCold
  PROVE  Finishes(t)
BY ReturnOffLane DEF StartFails, Finishes

LEMMA LaneStartWorks ==
  ASSUME Shape, NEW t \in Tasks, IsLane(t), StartWorks(t)
  PROVE  pc'[t] = "laneBody" /\ job'[t].name = job[t].name /\ job'[t].want = job[t].want
BY ContinueOffLane DEF StartWorks

LEMMA ExploreBehaves ==
  ASSUME Shape, Lanes, NEW t \in Tasks, Explore(t), SparesMinted(t)
  PROVE  Behaves(t)
<1>1. PICK n \in MintedNames \ dirs :
        /\ ~Registered(n) /\ \A u \in Tasks : job[u].name # n
        /\ Step(t, "laneQueue", [About(n, n) EXCEPT !.want = "ephemeral"])
  BY DEF Explore
<1>2. UNCHANGED <<entries, dirs>> /\ LeavesCold
  BY StillCold DEF Explore, regVars, poolVars, osVars
<1>3. pc'[t] = "laneQueue" /\ job'[t].name = n /\ job'[t].want = "ephemeral"
  <2>1. pc'[t] = "laneQueue" /\ job'[t] = [About(n, n) EXCEPT !.want = "ephemeral"]
    BY <1>1, StepLands
  <2> QED BY <2>1 DEF NoJob, About
<1>4. LaneTask(t)'
  BY <1>1, <1>2, <1>3 DEF LaneTask, OnLane, IsLane, LaneStages, Registered
<1>5. ~IsLane(t)
  BY DEF Explore, Lanes, LaneTask, OnLane, LaneStages
<1>6. Renames(t) /\ CleansUp(t)
  BY <1>1, <1>2, <1>3, <1>5 DEF Renames, CleansUp
<1> QED BY <1>2, <1>4, <1>6 DEF Behaves

LEMMA LaneTryProceeds ==
  ASSUME Shape, Placed, Lanes, NEW t \in Tasks, IsLane(t), LaneTry(t)
  PROVE  Proceeds(t)
<1>1. UNCHANGED <<entries, dirs>> /\ LeavesCold
  BY StillCold DEF LaneTry, regVars, poolVars, osVars
<1>2. pc'[t] = "startWait" /\ job'[t] = job[t] /\ ~Registered(job[t].name) /\ job[t].want = "ephemeral"
  BY StepLands, LaneKnows DEF LaneTry, OnLane
<1> QED BY <1>1, <1>2, EarlyProceeds DEF Early

LEMMA LaneStarts ==
  ASSUME Shape, Placed, Lanes, NEW t \in Tasks, IsLane(t), StartLocked(t)
  PROVE  Proceeds(t) \/ Finishes(t)
<1> DEFINE n == job[t].name
<1>1. /\ ~Registered(n) /\ n \in AllNames /\ warm[n] = NoChrome /\ warmTask[n] = NoWarm
      /\ job[t].want = "ephemeral" /\ job[t] \in Jobs /\ job[t].profile = n
  BY LaneKnows DEF StartLocked, OnLane
<1>2. Create(t)
  BY <1>1 DEF StartLocked
<1>3. UNCHANGED <<entries, warmTask, pre>>
  BY <1>1, <1>2 DEF Create, TakeWarm, regVars, poolVars
<1>4. LeavesCold
  BY <1>3, StillCold
<1>5. CASE StartFails(t)
  BY <1>4, <1>5, LaneStartFails
<1>6. CASE Step(t, "laneQueue", job[t]) /\ dirs' = dirs \cup {n}
  <2>1. pc'[t] = "laneQueue" /\ job'[t] = job[t]
    BY <1>6, StepLands
  <2> QED BY <1>1, <1>3, <1>4, <1>6, <2>1, EarlyProceeds DEF Early
<1>7. CASE Step(t, "spawn", [job[t] EXCEPT !.join = NoWarm]) /\ dirs' = dirs \cup {n}
  <2> DEFINE j == [job[t] EXCEPT !.join = NoWarm]
  <2>1. j.name = n /\ j.want = "ephemeral"
    BY <1>1 DEF Jobs
  <2>2. pc'[t] = "spawn" /\ job'[t] = j
    BY <1>7, StepLands
  <2> HIDE DEF j
  <2> QED BY <1>1, <1>3, <1>4, <1>7, <2>1, <2>2, EarlyProceeds DEF Early
<1> QED BY <1>1, <1>2, <1>5, <1>6, <1>7 DEF Create, TakeWarm

LEMMA LaneSpawns ==
  ASSUME Shape, Placed, Lanes, NEW t \in Tasks, IsLane(t), CreateSpawn(t)
  PROVE  Proceeds(t) \/ Finishes(t)
<1> DEFINE n == job[t].name
<1>1. /\ ~Registered(n) /\ job[t].want = "ephemeral" /\ job[t] \in Jobs /\ job[t].profile = n
  BY LaneKnows DEF CreateSpawn, OnLane
<1>2. UNCHANGED entries /\ LeavesCold
  BY StillCold DEF CreateSpawn, regVars, poolVars
<1>3. CASE StartFails(t)
  BY <1>2, <1>3, LaneStartFails
<1>4. ASSUME NEW c, Step(t, "up", [job[t] EXCEPT !.chrome = c]), dirs' = dirs \cup {n}
      PROVE  Proceeds(t)
  <2> DEFINE j == [job[t] EXCEPT !.chrome = c]
  <2>1. j.name = n /\ j.want = "ephemeral"
    BY <1>1 DEF Jobs
  <2>2. pc'[t] = "up" /\ job'[t] = j
    BY <1>4, StepLands
  <2> HIDE DEF j
  <2> QED BY <1>1, <1>2, <1>4, <2>1, <2>2, EarlyProceeds DEF Early
<1> QED BY <1>1, <1>3, <1>4 DEF CreateSpawn

LEMMA LaneUp ==
  ASSUME Shape, Placed, Lanes, NEW t \in Tasks, IsLane(t), CreateUp(t)
  PROVE  Proceeds(t) \/ Finishes(t)
<1>1. job[t].want = "ephemeral" /\ job[t].name \in AllNames
  BY LaneKnows
<1>2. LeavesCold
  BY StillCold DEF CreateUp, poolVars
<1>3. CASE StartFails(t)
  BY <1>2, <1>3, LaneStartFails
<1>4. CASE Register(job[t].name, job[t].chrome, job[t].want, job[t].profile) /\ StartWorks(t) /\ UNCHANGED osVars
  <2>1. pc'[t] = "laneBody" /\ job'[t].name = job[t].name /\ job'[t].want = "ephemeral"
    BY <1>1, <1>4, LaneStartWorks
  <2>2. dirs' = dirs
    BY <1>4 DEF osVars
  <2> QED BY <1>1, <1>2, <1>4, <2>1, <2>2, RegisteredProceeds
<1> QED BY <1>3, <1>4 DEF CreateUp

LEMMA LaneCloses ==
  ASSUME Shape, Rest, Placed, Lanes, NEW t \in Tasks, IsLane(t), LaneDone(t)
  PROVE  Proceeds(t)
<1> DEFINE n == job[t].name
           j == [job[t] EXCEPT !.name = n, !.target = entries[n], !.profile = profile[entries[n]]]
<1>1. /\ n \in AllNames /\ job[t] \in Jobs /\ job[t].want = "ephemeral"
      /\ Registered(n) /\ budget[entries[n]] = "ephemeral"
  BY LaneKnows DEF LaneDone, OnLane
<1>2. /\ entries' = [entries EXCEPT ![n] = NoEntry] /\ Step(t, "popped", j)
      /\ UNCHANGED <<budget, dirs>> /\ LeavesCold
  BY StillCold DEF LaneDone, Pop, poolVars, osVars
<1>3. j.name = n /\ j.want = "ephemeral" /\ j.target = entries[n]
  BY <1>1 DEF Jobs
<1> HIDE DEF j
<1>4. pc'[t] = "popped" /\ job'[t] = j
  BY <1>2, StepLands
<1>5. \A m \in AllNames : entries'[m] # entries[n]
  BY <1>1, <1>2 DEF Rest, EntriesKeepName, Registered, Shape, RegShape
<1>6. entries'[n] = NoEntry
  BY <1>1, <1>2 DEF Shape, RegShape
<1> QED BY <1>1, <1>2, <1>3, <1>4, <1>5, <1>6 DEF Proceeds, OnLane, LaneStages, Registered

LEMMA LaneTearsDown ==
  ASSUME Shape, Placed, Lanes, NEW t \in Tasks, IsLane(t), CloseTeardown(t)
  PROVE  Proceeds(t)
<1> DEFINE c == session[job[t].target]
           j == [job[t] EXCEPT !.chrome = IF c = Foreign THEN NoChrome ELSE c]
<1>1. job[t] \in Jobs /\ OnLane(t) /\ pc[t] = "popped"
  BY LaneKnows DEF CloseTeardown
<1>2. Step(t, "closing", j) /\ UNCHANGED <<entries, budget, dirs>> /\ LeavesCold
  BY StillCold DEF CloseTeardown, regVars, poolVars, osVars
<1>3. j.name = job[t].name /\ j.want = job[t].want /\ j.target = job[t].target
  BY <1>1 DEF Jobs
<1> HIDE DEF j
<1>4. pc'[t] = "closing" /\ job'[t] = j
  BY <1>2, StepLands
<1> QED BY <1>1, <1>2, <1>3, <1>4 DEF Proceeds, OnLane, LaneStages, Registered

LEMMA LaneCloseDone ==
  ASSUME Shape, Placed, Lanes, NEW t \in Tasks, IsLane(t), CloseDone(t)
  PROVE  Finishes(t)
<1>1. budget[job[t].target] = "ephemeral" /\ ~HasPrewarm(job[t].name)
      /\ job[t].profile = job[t].name /\ job[t].name \notin Outside
  BY LaneKnows DEF CloseDone, OnLane, HasPrewarm
<1>2. RemoveProfile(t) /\ UNCHANGED <<warmTask, pre>>
  BY <1>1 DEF CloseDone, poolVars
<1> QED BY <1>1, <1>2, StillCold, ReturnOffLane DEF RemoveProfile, Finishes

\* Every step of a request behaves.
LEMMA LaneBehaves ==
  ASSUME Shape, Rest, Placed, Lanes, NEW t \in Tasks, IsLane(t), Request(t) \/ Acquire(t) \/ Progress(t)
  PROVE  Proceeds(t) \/ Finishes(t)
<1>1. pc[t] \in LaneStages
  BY LaneKnows DEF OnLane
<1>2. ~Request(t)
  BY <1>1 DEF Request, RegistryVerb, GoUnstarted, Explore, VerbArrive, PinnedStop, LaneStages
<1>3. CASE Acquire(t)
  <2>1. StartLocked(t)
    BY <1>1, <1>3 DEF Acquire, GoLocked, AttachLocked, NewLocked, CloseLocked, DeleteLocked, ProbeLocked,
       ProbeRun, VerbRun, LaneStages
  <2> QED BY <2>1, LaneStarts
<1>4. CASE Progress(t)
  <2>1. \/ LaneTry(t) \/ CreateSpawn(t) \/ CreateUp(t) \/ LaneDone(t) \/ CloseTeardown(t) \/ CloseDone(t)
    BY <1>1, <1>4 DEF Progress, JoinDone, DropDone, AttachDone, ProbeDone, CancelDone, Sweep, VerbDone,
       VerbCrash, HealDown, HealSpawn, HealUp, HealUndo, HealGuard, LaneStages
  <2> QED BY <2>1, LaneTryProceeds, LaneSpawns, LaneUp, LaneCloses, LaneTearsDown, LaneCloseDone
<1> QED BY <1>2, <1>3, <1>4

LEMMA OtherStepsOffLane ==
  ASSUME Shape, Lanes, NEW t \in Tasks, ~IsLane(t), Request(t) \/ Acquire(t) \/ Progress(t), ~Explore(t)
  PROVE  OffLane(t)
<1>1. pc[t] \notin {"laneQueue", "laneBody"}
  BY DEF Lanes, LaneTask
<1>2. CASE Request(t)
  BY <1>2, ArrivesOffLane DEF Request
<1>3. CASE Acquire(t)
  <2>1. CASE StartLocked(t)
    <3>1. CASE Return(t) /\ UNCHANGED <<poolVars, osVars>>
      BY <3>1, ReturnKeepsName, StillCold, NameKeptOffLane DEF poolVars, osVars
    <3> QED BY <2>1, <3>1, CreateOffLane DEF StartLocked
  <2>2. CASE GoLocked(t)
    <3>1. CASE StartWorks(t) /\ UNCHANGED <<poolVars, osVars>>
      BY <3>1, StartEndsOffLane, StillCold DEF poolVars, osVars, OffLane
    <3> QED BY <2>2, <3>1, CreateOffLane DEF GoLocked
  <2> QED BY <1>3, <2>1, <2>2, NewLockedOffLane, CloseLockedOffLane, DeleteLockedOffLane, ProbeLockedOffLane,
          VerbsOffLane DEF Acquire
<1>4. CASE Progress(t)
  <2>1. ~LaneTry(t) /\ ~LaneDone(t)
    BY <1>1 DEF LaneTry, LaneDone
  <2>2. CASE JoinDone(t)
    BY <2>2, TakeWarmOffLane DEF JoinDone
  <2> QED BY <1>4, <2>1, <2>2, DropsOffLane, SpawnsOffLane, UpsOffLane, AttachDoneOffLane, VerbsOffLane,
          CloseDoneOffLane, CancelDoneOffLane, SweepOffLane, HealsOffLane, HealSpawnOffLane DEF Progress
<1> QED BY <1>2, <1>3, <1>4

LEMMA TaskKeepsLanes ==
  ASSUME Shape, Shape', Rest, Placed, Hands, Lanes, NEW t \in Tasks, Request(t) \/ Acquire(t) \/ Progress(t)
  PROVE  Lanes'
<1>1. OneKind(t) /\ SparesMinted(t)
  BY TaskStepKeeps, SparesMintedAll
<1>2. Passes(t)
  BY TaskStepPasses DEF Rest
<1>3. Behaves(t)
  <2>1. CASE Explore(t)
    BY <1>1, <2>1, ExploreBehaves
  <2>2. CASE IsLane(t)
    BY <1>1, <2>2, LaneBehaves, ProceedsBehaves, FinishesBehaves
  <2>3. CASE ~IsLane(t) /\ ~Explore(t)
    <3>1. pc[t] = "idle" => UNCHANGED dirs
      <4>1. pc[t] = "idle" => Request(t)
        BY DEF Acquire, StartLocked, GoLocked, AttachLocked, NewLocked, CloseLocked, DeleteLocked, ProbeLocked,
           ProbeRun, VerbRun, Progress, LaneTry, JoinDone, DropDone, CreateSpawn, CreateUp, AttachDone, ProbeDone,
           LaneDone, CloseTeardown, CloseDone, CancelDone, Sweep, VerbDone, VerbCrash, HealDown, HealSpawn, HealUp,
           HealUndo, HealGuard
      <4>2. Request(t) => UNCHANGED dirs
        BY DEF Request, RegistryVerb, GoUnstarted, Explore, VerbArrive, PinnedStop, Pop, osVars
      <4> QED BY <4>1, <4>2
    <3> QED BY <1>1, <2>3, <3>1, OtherStepsOffLane, OffLaneBehaves
  <2> QED BY <2>1, <2>2, <2>3
<1> QED BY <1>1, <1>2, <1>3, BehavesKeepsLanes

LEMMA InitLanes == Init => Lanes
BY AbsentValues DEF Init, Lanes, LaneTask, OnLane, IsLane, OneEach, MintedCold, LaneLeavesNothing, NoJob, About, OffPre, AllNames, Profiles

LEMMA NextLanes ==
  ASSUME IndInv, Placed, Hands, Lanes, [Next]_vars
  PROVE  Lanes'
<1>1. Shape /\ Rest /\ Shape'
  BY NextInv, InvIsShapeAndRest
<1>2. CASE UNCHANGED vars
  BY <1>2 DEF Lanes, LaneTask, OnLane, IsLane, Registered, OneEach, MintedCold, LaneLeavesNothing,
     vars, regVars, poolVars, osVars
<1>3. ASSUME NEW t \in Tasks, Request(t) \/ Acquire(t) \/ Progress(t)
      PROVE  Lanes'
  BY <1>1, <1>3, TaskKeepsLanes
<1>4. ASSUME NEW k \in WarmTasks, Prewarm(k)
      PROVE  Lanes'
  BY <1>1, <1>4, WarmKeepsLanes
<1>5. ASSUME NEW n \in Names, GoalPin(n)
      PROVE  Lanes'
  BY <1>1, <1>5, GoalPinKeepsLanes
<1> QED BY <1>2, <1>3, <1>4, <1>5 DEF Next

\* The explore lane leaves nothing behind: a start refused or failed removes the
\* profile it made, and the close of an explore's session removes it with the
\* session, whatever goals pin and clients close meanwhile.
THEOREM LanesClean == Spec => []LaneLeavesNothing
<1>1. Init => IndInv /\ Placed /\ Hands /\ Lanes
  BY InitInv, InitPlaced, InitHands, InitLanes
<1>2. IndInv /\ Placed /\ Hands /\ Lanes /\ [Next]_vars => IndInv' /\ Placed' /\ Hands' /\ Lanes'
  BY NextInv, InvIsShapeAndRest, NextPlaced, NextHands, NextLanes
<1>3. Lanes => LaneLeavesNothing
  BY DEF Lanes
<1> QED BY <1>1, <1>2, <1>3, PTL DEF Spec

------------------------------------------------------------------------------
(* A profile outlives what uses it.                                           *)

\* A request that closes or deletes a named session keeps the others away.
Closer(t) ==
  /\ pc[t] \in Closing /\ ~IsLane(t) => ~Registered(job[t].name) /\ mutateLock = t
  /\ pc[t] \in {"cancel", "sweep"} => warmTask[job[t].name] = NoWarm
  /\ pc[t] = "sweep" => warm[job[t].name] = NoChrome

\* A pre-warm that is launching is in the table, or awaited by a request.
Tracked ==
  \A k \in WarmTasks : pre[k].st \in {"spawn", "up"} =>
    \/ warmTask[pre[k].name] = k
    \/ \E t \in Tasks : pc[t] = "join" /\ job[t].join = k /\ job[t].name = pre[k].name

Closers == (\A t \in Tasks : Closer(t)) /\ Tracked

(* What a step of a request does to the pre-warms.                            *)

LeavesJoined(t) == pc[t] = "join" => pre[job[t].join].st = "off"

Joins(t) ==
  LET n == job[t].name IN
  /\ warmTask' = [warmTask EXCEPT ![n] = NoWarm] /\ UNCHANGED pre
  /\ pc'[t] = "join" /\ job'[t].join = warmTask[n] /\ job'[t].name = n

Schedules(t) ==
  \E n \in Names, k \in FreshWarmTasks :
    /\ mutateLock \in {NoTask, t} /\ warmTask[n] = NoWarm
    /\ warmTask' = [warmTask EXCEPT ![n] = k]
    /\ pre'[k].name = n /\ \A l \in WarmTasks \ {k} : pre'[l] = pre[l]

Cancels(t) ==
  \E n \in AllNames :
    /\ warmTask[n] # NoWarm
    /\ warmTask' = [warmTask EXCEPT ![n] = NoWarm]
    /\ pre' = [pre EXCEPT ![warmTask[n]].st = "cancelled"]

Pools(t) ==
  /\ LeavesJoined(t)
  /\ UNCHANGED <<warmTask, pre>> \/ Joins(t) \/ Schedules(t) \/ Cancels(t)

LEMMA PoolsKeepsTracked ==
  ASSUME Shape, Closers, NEW t \in Tasks, \A u \in Tasks \ {t} : pc'[u] = pc[u] /\ job'[u] = job[u], Pools(t)
  PROVE  Tracked'
<1>1. ASSUME NEW k \in WarmTasks, pre'[k].st \in {"spawn", "up"}, pre[k].st \in {"spawn", "up"},
             pre'[k].name = pre[k].name,
             warmTask[pre[k].name] = k => warmTask'[pre[k].name] = k \/ Joins(t)
      PROVE  \/ warmTask'[pre'[k].name] = k
             \/ \E u \in Tasks : pc'[u] = "join" /\ job'[u].join = k /\ job'[u].name = pre'[k].name
  <2>1. CASE warmTask[pre[k].name] = k /\ warmTask'[pre[k].name] = k
    BY <1>1, <2>1
  <2>2. CASE warmTask[pre[k].name] = k /\ warmTask'[pre[k].name] # k
    <3>1. Joins(t) /\ pre[k].name = job[t].name
      BY <1>1, <2>2 DEF Joins, Shape, PoolShape
    <3> QED BY <1>1, <2>2, <3>1 DEF Joins
  <2>3. CASE warmTask[pre[k].name] # k
    <3>1. PICK u \in Tasks : pc[u] = "join" /\ job[u].join = k /\ job[u].name = pre[k].name
      BY <1>1, <2>3 DEF Closers, Tracked
    <3>2. u # t
      BY <1>1, <3>1 DEF Pools, LeavesJoined
    <3> QED BY <1>1, <3>1, <3>2
  <2> QED BY <2>1, <2>2, <2>3
<1>2. ASSUME NEW k \in WarmTasks, pre'[k].st \in {"spawn", "up"}
      PROVE  \/ warmTask'[pre'[k].name] = k
             \/ \E u \in Tasks : pc'[u] = "join" /\ job'[u].join = k /\ job'[u].name = pre'[k].name
  <2>1. CASE UNCHANGED <<warmTask, pre>> \/ Joins(t)
    BY <1>1, <1>2, <2>1 DEF Joins
  <2>2. CASE Schedules(t)
    <3>1. PICK n \in Names, l \in FreshWarmTasks :
            /\ warmTask[n] = NoWarm
            /\ warmTask' = [warmTask EXCEPT ![n] = l]
            /\ pre'[l].name = n /\ \A m \in WarmTasks \ {l} : pre'[m] = pre[m]
      BY <2>2 DEF Schedules
    <3>2. CASE k = l
      BY <3>1, <3>2 DEF OffPre, Shape, PoolShape, AllNames
    <3>3. CASE k # l
      <4>1. pre'[k] = pre[k]
        BY <3>1, <3>3 DEF Shape, PoolShape
      <4>2. warmTask[pre[k].name] = k => warmTask'[pre[k].name] = k
        BY <3>1, AbsentValues DEF Shape, PoolShape
      <4> QED BY <1>1, <1>2, <4>1, <4>2
    <3> QED BY <3>2, <3>3
  <2>3. CASE Cancels(t)
    <3>1. PICK n \in AllNames :
            /\ warmTask[n] # NoWarm
            /\ warmTask' = [warmTask EXCEPT ![n] = NoWarm]
            /\ pre' = [pre EXCEPT ![warmTask[n]].st = "cancelled"]
      BY <2>3 DEF Cancels
    <3>2. k # warmTask[n] /\ pre'[k] = pre[k]
      BY <1>2, <3>1 DEF Shape, PoolShape
    <3>3. warmTask[pre[k].name] = k => warmTask'[pre[k].name] = k
      BY <3>1, <3>2 DEF Shape, PoolShape
    <3> QED BY <1>1, <1>2, <3>2, <3>3
  <2> QED BY <2>1, <2>2, <2>3 DEF Pools
<1> QED BY <1>2 DEF Tracked

LEMMA PassesUnparks ==
  ASSUME Shape, NEW t \in Tasks, Passes(t), NEW n \in AllNames
  PROVE  warm'[n] \in {warm[n], NoChrome}
BY DEF Passes, Frees, Unparks, Carries, Aims, Launches, Seats, Loses, Shape, PoolShape

LEMMA OthersCloser ==
  ASSUME Shape, Rest, Lanes, Closers, NEW t \in Tasks, OneKind(t), Passes(t), Pools(t),
         NEW u \in Tasks \ {t}
  PROVE  Closer(u)'
<1>1. /\ pc'[u] = pc[u] /\ job'[u] = job[u] /\ Closer(u) /\ MatchesStage(pc[u], job[u])
      /\ OthersKept(t) /\ LaneTask(u)
  BY DEF OneKind, Quiet, Registers, Unregisters, Charges, OthersKept, Closers, Lanes, Shape, TaskShape
<1>2. CASE pc[u] \in Closing /\ ~IsLane(u)
  <2> DEFINE n == job[u].name
  <2>1. mutateLock = u /\ ~Registered(n) /\ n \in AllNames
    BY <1>1, <1>2 DEF Closer, MatchesStage, Closing
  <2>2. mutateLock' = u
    BY <1>1, <2>1, AbsentValues DEF OthersKept
  <2>3. entries'[n] = NoEntry
    <3>1. ~Registers(t)
      BY <2>1, AbsentValues DEF Registers, CanCreate
    <3>2. \A m \in AllNames : entries'[m] \in {entries[m], NoEntry}
      BY <3>1 DEF OneKind, Quiet, Unregisters, Charges, Shape, RegShape
    <3> QED BY <2>1, <3>2 DEF Registered
  <2>4. warmTask'[n] \in {warmTask[n], NoWarm}
    <3>1. ~Schedules(t)
      BY <2>1, AbsentValues DEF Schedules
    <3> QED BY <2>1, <3>1 DEF Pools, Joins, Cancels, Shape, PoolShape
  <2>5. warm'[n] \in {warm[n], NoChrome}
    BY <2>1, PassesUnparks
  <2> QED BY <1>1, <2>2, <2>3, <2>4, <2>5 DEF Closer, IsLane, Registered
<1>3. CASE pc[u] \notin Closing
  BY <1>1, <1>3 DEF Closer, Closing
<1>4. CASE IsLane(u)
  <2>1. pc[u] \notin {"cancel", "sweep"}
    BY <1>1, <1>4 DEF LaneTask, OnLane, LaneStages
  <2> QED BY <1>1, <1>4, <2>1 DEF Closer, IsLane
<1> QED BY <1>2, <1>3, <1>4

LEMMA WarmKeepsClosers ==
  ASSUME Shape, Rest, Lanes, Closers, NEW k \in WarmTasks, Prewarm(k)
  PROVE  Closers'
<1>1. UNCHANGED <<entries, mutateLock, pc, job>>
  BY DEF Prewarm, PreSpawn, PreUp, PreDiscard, PreCancelled, regVars
<1>2. /\ \A n \in AllNames : warmTask'[n] = IF pre'[k].st = "off" /\ warmTask[n] = k THEN NoWarm ELSE warmTask[n]
      /\ \A l \in WarmTasks \ {k} : pre'[l] = pre[l]
      /\ pre'[k].st \in {"up", "discard", "off"}
      /\ pre'[k].st # "off" => pre'[k].name = pre[k].name
      /\ pre'[k].st = "up" => pre[k].st = "spawn"
  BY DEF Prewarm, PreSpawn, PreUp, PreDiscard, PreCancelled, PreEnds, OffPre, Shape, PoolShape
<1>3. \A n \in AllNames : warm'[n] = warm[n] \/ (n = pre[k].name /\ pre[k].st = "up")
  BY DEF Prewarm, PreSpawn, PreUp, PreDiscard, PreCancelled, Shape, PoolShape
<1>4. ASSUME NEW t \in Tasks
      PROVE  Closer(t)'
  <2>1. Closer(t) /\ MatchesStage(pc[t], job[t]) /\ LaneTask(t)
    BY DEF Closers, Lanes, Shape, TaskShape
  <2>2. CASE pc[t] \in Closing
    <3>1. job[t].name \in AllNames /\ warmTask'[job[t].name] \in {warmTask[job[t].name], NoWarm}
      BY <1>2, <2>1, <2>2 DEF MatchesStage, Closing
    <3>2. pc[t] = "sweep" => warm'[job[t].name] = warm[job[t].name]
      <4> SUFFICES ASSUME pc[t] = "sweep", job[t].name = pre[k].name, pre[k].st = "up" PROVE FALSE
        BY <1>3, <3>1
      <4>1. mutateLock = t /\ warmTask[job[t].name] = NoWarm
        BY <2>1 DEF Closer, Closing, LaneTask, OnLane, LaneStages
      <4>2. PICK u \in Tasks : pc[u] = "join"
        BY <4>1, AbsentValues DEF Closers, Tracked
      <4> QED BY <4>1, <4>2 DEF Rest, OneCreator, Creating
    <3> QED BY <1>1, <2>1, <3>1, <3>2 DEF Closer, IsLane, Registered
  <2>3. CASE pc[t] \notin Closing
    BY <1>1, <2>3 DEF Closer, Closing
  <2> QED BY <2>2, <2>3
<1>5. Tracked'
  <2>1. ASSUME NEW l \in WarmTasks, pre'[l].st \in {"spawn", "up"}
        PROVE  \/ warmTask'[pre'[l].name] = l
               \/ \E t \in Tasks : pc'[t] = "join" /\ job'[t].join = l /\ job'[t].name = pre'[l].name
    <3>1. pre'[l].name = pre[l].name /\ pre[l].st \in {"spawn", "up"} /\ pre[l].name \in AllNames
      BY <1>2, <2>1 DEF Shape, PoolShape
    <3>2. warmTask[pre[l].name] = l => warmTask'[pre[l].name] = l
      BY <1>2, <2>1, <3>1
    <3> QED BY <1>1, <3>1, <3>2 DEF Closers, Tracked
  <2> QED BY <2>1 DEF Tracked
<1> QED BY <1>4, <1>5 DEF Closers

LEMMA StillPools ==
  ASSUME NEW t \in Tasks, UNCHANGED <<warmTask, pre>>, pc[t] # "join"
  PROVE  Pools(t)
BY DEF Pools, LeavesJoined

LEMMA CreatePools ==
  ASSUME Shape, NEW t \in Tasks, pc[t] # "join", Create(t)
  PROVE  Pools(t)
<1> DEFINE n == job[t].name
           k == warmTask[n]
           j == [job[t] EXCEPT !.join = k]
<1>1. CASE UNCHANGED <<warmTask, pre>>
  BY <1>1, StillPools
<1>2. CASE warmTask' = [warmTask EXCEPT ![n] = NoWarm] /\ UNCHANGED pre /\ Step(t, "join", j)
  <2>1. j.join = k /\ j.name = n
    BY DEF Shape, TaskShape, Jobs
  <2>2. pc'[t] = "join" /\ job'[t] = j
    BY <1>2, StepLands
  <2> HIDE DEF j
  <2> QED BY <1>2, <2>1, <2>2 DEF Pools, LeavesJoined, Joins
<1> QED BY <1>1, <1>2 DEF Create, TakeWarm, poolVars

LEMMA SchedulePools ==
  ASSUME Shape, NEW t \in Tasks, pc[t] # "join", NEW n \in Names, mutateLock \in {NoTask, t},
         NEW p, Schedule(n, p)
  PROVE  Pools(t)
<1>1. CASE UNCHANGED poolVars
  BY <1>1, StillPools DEF poolVars
<1>2. ASSUME NEW k \in FreshWarmTasks, MaySchedule(n), warmTask' = [warmTask EXCEPT ![n] = k],
             pre' = [pre EXCEPT ![k] = [OffPre EXCEPT !.st = "spawn", !.name = n, !.profile = p]]
      PROVE  Schedules(t)
  <2> DEFINE w == [OffPre EXCEPT !.st = "spawn", !.name = n, !.profile = p]
  <2>1. w.name = n
    BY DEF OffPre
  <2>2. k \in WarmTasks /\ pre' = [pre EXCEPT ![k] = w]
    BY <1>2 DEF FreshWarmTasks
  <2> HIDE DEF w
  <2>3. pre'[k].name = n /\ \A l \in WarmTasks \ {k} : pre'[l] = pre[l]
    BY <2>1, <2>2 DEF Shape, PoolShape
  <2> QED BY <1>2, <2>3 DEF Schedules, MaySchedule
<1> QED BY <1>1, <1>2 DEF Schedule, Pools, LeavesJoined

LEMMA BeginCancelPools ==
  ASSUME NEW t \in Tasks, pc[t] # "join", job[t].name \in AllNames, BeginCancel(t)
  PROVE  Pools(t)
<1>1. CASE UNCHANGED <<warmTask, pre>>
  BY <1>1, StillPools
<1> QED BY <1>1 DEF BeginCancel, Pools, LeavesJoined, Cancels

LEMMA RequestPools ==
  ASSUME NEW t \in Tasks, Request(t)
  PROVE  Pools(t)
<1>1. UNCHANGED <<warmTask, pre>> /\ pc[t] # "join"
  BY DEF Request, RegistryVerb, GoUnstarted, Explore, VerbArrive, PinnedStop, Pop, poolVars
<1> QED BY <1>1, StillPools

LEMMA AcquirePools ==
  ASSUME Shape, Lanes, NEW t \in Tasks, Acquire(t)
  PROVE  Pools(t)
<1>1. CASE StartLocked(t)
  <2>1. CASE UNCHANGED poolVars
    BY <1>1, <2>1, StillPools DEF StartLocked, poolVars
  <2> QED BY <1>1, <2>1, CreatePools DEF StartLocked
<1>2. CASE GoLocked(t)
  <2>1. CASE UNCHANGED poolVars
    BY <1>2, <2>1, StillPools DEF GoLocked, poolVars
  <2> QED BY <1>2, <2>1, CreatePools DEF GoLocked
<1>3. CASE NewLocked(t)
  <2>1. job[t].name \in Names
    <3>1. ~IsLane(t)
      BY <1>3 DEF Lanes, LaneTask, OnLane, LaneStages, NewLocked
    <3> QED BY <1>3, <3>1, NamedOffLane DEF NewLocked
  <2> QED BY <1>3, <2>1, SchedulePools DEF NewLocked
<1>4. CASE DeleteLocked(t)
  <2>1. job[t].name \in AllNames
    BY <1>4 DEF DeleteLocked, Shape, TaskShape, MatchesStage
  <2>2. CASE UNCHANGED poolVars
    BY <1>4, <2>2, StillPools DEF DeleteLocked, poolVars
  <2> QED BY <1>4, <2>1, <2>2, BeginCancelPools DEF DeleteLocked
<1>5. CASE AttachLocked(t) \/ CloseLocked(t) \/ ProbeLocked(t) \/ ProbeRun(t) \/ VerbRun(t)
  <2>1. UNCHANGED <<warmTask, pre>> /\ pc[t] # "join"
    BY <1>5 DEF AttachLocked, CloseLocked, Pop, ProbeLocked, ProbeRun, VerbRun, poolVars
  <2> QED BY <2>1, StillPools
<1> QED BY <1>1, <1>2, <1>3, <1>4, <1>5 DEF Acquire

LEMMA ProgressPools ==
  ASSUME Shape, Placed, Lanes, Closers, NEW t \in Tasks, Progress(t)
  PROVE  Pools(t)
<1>1. CASE JoinDone(t)
  <2>1. UNCHANGED <<warmTask, pre>>
    BY <1>1 DEF JoinDone, TakeWarm, poolVars
  <2> QED BY <1>1, <2>1 DEF JoinDone, Pools, LeavesJoined
<1>2. CASE CloseDone(t)
  <2>1. pc[t] = "closing" /\ job[t].name \in AllNames
    BY <1>2 DEF CloseDone, Shape, TaskShape, MatchesStage
  <2>2. CASE UNCHANGED poolVars
    BY <2>1, <2>2, StillPools DEF poolVars
  <2>3. CASE BeginCancel(t)
    BY <2>1, <2>3, BeginCancelPools
  <2>4. CASE budget[job[t].target] # "ephemeral" /\ Schedule(job[t].name, job[t].profile)
    <3>1. ~IsLane(t)
      BY <2>1, <2>4, LaneKnows DEF OnLane
    <3>2. mutateLock = t /\ job[t].name \in Names
      BY <2>1, <3>1, NamedOffLane DEF Closers, Closer, Closing
    <3> QED BY <2>1, <2>4, <3>2, SchedulePools
  <2> QED BY <1>2, <2>2, <2>3, <2>4 DEF CloseDone
<1>3. CASE Progress(t) /\ ~JoinDone(t) /\ ~CloseDone(t)
  <2>1. UNCHANGED <<warmTask, pre>>
    BY <1>3 DEF Progress, LaneTry, DropDone, CreateSpawn, CreateUp, AttachDone, ProbeDone, LaneDone, Pop,
       CloseTeardown, CancelDone, Sweep, VerbDone, VerbCrash, HealDown, HealSpawn, HealUp, HealUndo,
       HealGuard, poolVars
  <2>2. pc[t] # "join"
    BY <1>3 DEF Progress, LaneTry, DropDone, CreateSpawn, CreateUp, AttachDone, ProbeDone, LaneDone,
       CloseTeardown, CancelDone, Sweep, VerbDone, VerbCrash, HealDown, HealSpawn, HealUp, HealUndo, HealGuard
  <2> QED BY <2>1, <2>2, StillPools
<1> QED BY <1>1, <1>2, <1>3

(* Where a request is when it closes.                                         *)

LEMMA OpenCloser ==
  ASSUME NEW t \in Tasks, pc'[t] \notin Closing
  PROVE  Closer(t)'
BY DEF Closer, Closing

LEMMA ReturnOpens ==
  ASSUME Shape, NEW t \in Tasks, Return(t)
  PROVE  Closer(t)'
BY ReturnOffLane, OpenCloser DEF Closing

LEMMA StartEndsOpen ==
  ASSUME Shape, NEW t \in Tasks, StartWorks(t) \/ StartFails(t)
  PROVE  Closer(t)'
<1>1. Return(t) \/ Continue(t, "laneBody") \/ Continue(t, "verb")
  BY DEF StartWorks, StartFails
<1> QED BY <1>1, ReturnOpens, ContinueOffLane, OpenCloser DEF Closing

LEMMA TakeWarmOpens ==
  ASSUME Shape, NEW t \in Tasks, TakeWarm(t)
  PROVE  Closer(t)'
<1>1. \/ StartWorks(t) \/ StartFails(t)
      \/ \E p \in {"drop", "spawn"} : \E j : Step(t, p, j)
  BY DEF TakeWarm
<1> QED BY <1>1, StartEndsOpen, StepLands, OpenCloser DEF Closing

LEMMA CreateOpens ==
  ASSUME Shape, NEW t \in Tasks, Create(t)
  PROVE  Closer(t)'
<1>1. \/ StartFails(t) \/ TakeWarm(t)
      \/ \E p \in {"laneQueue", "join"} : \E j : Step(t, p, j)
  BY DEF Create
<1> QED BY <1>1, StartEndsOpen, TakeWarmOpens, StepLands, OpenCloser DEF Closing

LEMMA BeginCancelCloser ==
  ASSUME Shape, NEW t \in Tasks, BeginCancel(t), job[t].name \in AllNames, UNCHANGED entries,
         ~IsLane(t), ~Registered(job[t].name), mutateLock' = t
  PROVE  Closer(t)'
<1> DEFINE n == job[t].name
           k == warmTask[n]
<1>1. job[t] \in Jobs
  BY DEF Shape, TaskShape
<1>2. CASE k # NoWarm
  <2> DEFINE j == [job[t] EXCEPT !.join = k, !.chrome = NoChrome]
  <2>1. j.name = n
    BY <1>1 DEF Jobs
  <2>2. Step(t, "cancel", j)
    BY <1>2 DEF BeginCancel
  <2>3. warmTask'[n] = NoWarm
    BY <1>2 DEF BeginCancel, Shape, PoolShape
  <2> HIDE DEF j
  <2>4. pc'[t] = "cancel" /\ job'[t] = j
    BY <2>2, StepLands
  <2> QED BY <2>1, <2>3, <2>4 DEF Closer, IsLane, Registered
<1>3. CASE k = NoWarm
  <2> DEFINE j == [job[t] EXCEPT !.chrome = warm[n]]
  <2>1. j.name = n
    BY <1>1 DEF Jobs
  <2>2. Step(t, "sweep", j)
    BY <1>3 DEF BeginCancel
  <2>3. warmTask'[n] = NoWarm /\ warm'[n] = NoChrome
    BY <1>3 DEF BeginCancel, Shape, PoolShape
  <2> HIDE DEF j
  <2>4. pc'[t] = "sweep" /\ job'[t] = j
    BY <2>2, StepLands
  <2> QED BY <2>1, <2>3, <2>4 DEF Closer, IsLane, Registered
<1> QED BY <1>2, <1>3

LEMMA CloseLockedCloser ==
  ASSUME Shape, NEW t \in Tasks, CloseLocked(t)
  PROVE  Closer(t)'
<1> DEFINE n == job[t].name
           j == [job[t] EXCEPT !.name = n, !.target = entries[n], !.profile = profile[entries[n]]]
<1>1. CASE Return(t)
  BY <1>1, ReturnOpens
<1>2. CASE Registered(n) /\ Pop(t, n, job[t]) /\ mutateLock' = t
  <2>1. n \in AllNames /\ j.name = n
    BY DEF CloseLocked, Shape, TaskShape, MatchesStage, Jobs
  <2>2. Step(t, "popped", j) /\ entries' = [entries EXCEPT ![n] = NoEntry]
    BY <1>2 DEF Pop
  <2> HIDE DEF j
  <2>3. pc'[t] = "popped" /\ job'[t] = j
    BY <2>2, StepLands
  <2>4. entries'[n] = NoEntry
    BY <2>1, <2>2 DEF Shape, RegShape
  <2> QED BY <1>2, <2>1, <2>3, <2>4 DEF Closer, Registered
<1> QED BY <1>1, <1>2 DEF CloseLocked

LEMMA LaneDoneCloser ==
  ASSUME Shape, Rest, Placed, Lanes, NEW t \in Tasks, LaneDone(t)
  PROVE  Closer(t)'
<1>1. IsLane(t)
  BY DEF LaneDone, Lanes, LaneTask
<1>2. Proceeds(t)
  BY <1>1, LaneCloses
<1>3. IsLane(t)'
  BY <1>1, <1>2 DEF Proceeds, IsLane
<1>4. pc'[t] = "popped"
  BY StepLands DEF LaneDone, Pop
<1> QED BY <1>3, <1>4 DEF Closer

LEMMA CloseTeardownCloser ==
  ASSUME Shape, Closers, NEW t \in Tasks, CloseTeardown(t)
  PROVE  Closer(t)'
<1> DEFINE c == session[job[t].target]
           j == [job[t] EXCEPT !.chrome = IF c = Foreign THEN NoChrome ELSE c]
<1>1. j.name = job[t].name
  BY DEF Shape, TaskShape, Jobs
<1>2. Step(t, "closing", j) /\ UNCHANGED <<entries, mutateLock>>
  BY DEF CloseTeardown, regVars
<1> HIDE DEF j
<1>3. pc'[t] = "closing" /\ job'[t] = j
  BY <1>2, StepLands
<1>4. ~IsLane(t) => ~Registered(job[t].name) /\ mutateLock = t
  BY DEF CloseTeardown, Closers, Closer, Closing
<1> QED BY <1>1, <1>2, <1>3, <1>4 DEF Closer, IsLane, Registered

LEMMA CloseDoneCloser ==
  ASSUME Shape, Placed, Lanes, Closers, NEW t \in Tasks, CloseDone(t)
  PROVE  Closer(t)'
<1>1. CASE Return(t)
  BY <1>1, ReturnOpens
<1>2. CASE /\ budget[job[t].target] = "ephemeral" /\ HasPrewarm(job[t].name)
           /\ BeginCancel(t) /\ UNCHANGED <<mutateLock, dirs>>
  <2>1. ~IsLane(t)
    BY <1>2, LaneKnows DEF HasPrewarm
  <2>2. ~Registered(job[t].name) /\ mutateLock = t /\ UNCHANGED entries
    BY <2>1 DEF CloseDone, Closers, Closer, Closing
  <2>3. job[t].name \in AllNames
    BY DEF CloseDone, Shape, TaskShape, MatchesStage
  <2> QED BY <1>2, <2>1, <2>2, <2>3, BeginCancelCloser
<1> QED BY <1>1, <1>2 DEF CloseDone, RemoveProfile

LEMMA DeleteLockedCloser ==
  ASSUME Shape, Lanes, NEW t \in Tasks, DeleteLocked(t)
  PROVE  Closer(t)'
<1>1. CASE Return(t)
  BY <1>1, ReturnOpens
<1>2. CASE ~Registered(job[t].name) /\ BeginCancel(t) /\ mutateLock' = t
  <2>1. ~IsLane(t)
    BY DEF DeleteLocked, Lanes, LaneTask, OnLane, LaneStages
  <2>2. job[t].name \in AllNames /\ UNCHANGED entries
    BY DEF DeleteLocked, regVars, Shape, TaskShape, MatchesStage
  <2> QED BY <1>2, <2>1, <2>2, BeginCancelCloser
<1> QED BY <1>1, <1>2 DEF DeleteLocked, RemoveProfile

LEMMA CancelDoneCloser ==
  ASSUME Shape, Lanes, Closers, NEW t \in Tasks, CancelDone(t)
  PROVE  Closer(t)'
<1> DEFINE n == job[t].name
           j == [job[t] EXCEPT !.chrome = warm[n], !.join = NoWarm]
<1>1. CASE Return(t)
  BY <1>1, ReturnOpens
<1>2. CASE warm' = [warm EXCEPT ![n] = NoChrome] /\ Step(t, "sweep", j) /\ UNCHANGED <<mutateLock, dirs>>
  <2>1. j.name = n /\ n \in AllNames
    BY DEF CancelDone, Shape, TaskShape, MatchesStage, Jobs
  <2>2. warm'[n] = NoChrome /\ warmTask'[n] = NoWarm
    BY <1>2, <2>1 DEF CancelDone, Closers, Closer, Shape, PoolShape
  <2>3. ~IsLane(t)
    BY DEF CancelDone, Lanes, LaneTask, OnLane, LaneStages
  <2>4. ~Registered(n) /\ mutateLock = t /\ UNCHANGED entries
    BY <2>3 DEF CancelDone, Closers, Closer, Closing, regVars
  <2> HIDE DEF j
  <2>5. pc'[t] = "sweep" /\ job'[t] = j
    BY <1>2, StepLands
  <2> QED BY <1>2, <2>1, <2>2, <2>4, <2>5 DEF Closer, Registered
<1> QED BY <1>1, <1>2 DEF CancelDone, RemoveProfile

LEMMA RequestOpens ==
  ASSUME Shape, ~PinnedExplore, NEW t \in Tasks, Request(t)
  PROVE  Closer(t)'
<1>1. \E p \in Waiting \cup {"laneQueue", "verb", "verbWait"} : \E j : Step(t, p, j)
  <2>1. CASE RegistryVerb(t)
    BY <2>1 DEF RegistryVerb
  <2>2. CASE GoUnstarted(t) \/ Explore(t)
    BY <2>2 DEF GoUnstarted, Explore, Waiting
  <2>3. CASE VerbArrive(t)
    BY <2>3 DEF VerbArrive, AcquireOrQueue
  <2> QED BY <2>1, <2>2, <2>3 DEF Request, PinnedStop
<1> QED BY <1>1, StepLands, OpenCloser DEF Waiting, Closing

LEMMA AcquireCloser ==
  ASSUME Shape, Lanes, Closers, NEW t \in Tasks, Acquire(t)
  PROVE  Closer(t)'
<1>1. CASE StartLocked(t)
  BY <1>1, ReturnOpens, CreateOpens DEF StartLocked
<1>2. CASE GoLocked(t)
  BY <1>2, StartEndsOpen, CreateOpens DEF GoLocked
<1>3. CASE AttachLocked(t) \/ NewLocked(t) \/ ProbeLocked(t) \/ ProbeRun(t) \/ VerbRun(t)
  <2>1. Return(t) \/ \E p \in {"attach", "probe", "probeLock", "verb", "goWait"} : \E j : Step(t, p, j)
    BY <1>3 DEF AttachLocked, NewLocked, ProbeLocked, AcquireOrQueue, ProbeRun, VerbRun
  <2> QED BY <2>1, ReturnOpens, StepLands, OpenCloser DEF Closing
<1> QED BY <1>1, <1>2, <1>3, CloseLockedCloser, DeleteLockedCloser DEF Acquire

LEMMA ProgressCloser ==
  ASSUME Shape, Rest, Placed, Lanes, Closers, NEW t \in Tasks, Progress(t)
  PROVE  Closer(t)'
<1>1. CASE JoinDone(t)
  BY <1>1, TakeWarmOpens DEF JoinDone
<1>2. CASE CreateSpawn(t) \/ CreateUp(t)
  <2>1. StartWorks(t) \/ StartFails(t) \/ \E j : Step(t, "up", j)
    BY <1>2 DEF CreateSpawn, CreateUp
  <2> QED BY <2>1, StartEndsOpen, StepLands, OpenCloser DEF Closing
<1>3. CASE LaneTry(t) \/ DropDone(t) \/ AttachDone(t) \/ ProbeDone(t) \/ VerbDone(t) \/ VerbCrash(t) \/ Sweep(t)
  <2>1. Return(t) \/ \E p \in {"startWait", "spawn", "healDown"} : \E j : Step(t, p, j)
    BY <1>3 DEF LaneTry, DropDone, AttachDone, ProbeDone, VerbDone, VerbCrash, Sweep, RemoveProfile, Leave
  <2> QED BY <2>1, ReturnOpens, StepLands, OpenCloser DEF Closing
<1>4. CASE HealDown(t) \/ HealSpawn(t) \/ HealUp(t) \/ HealUndo(t) \/ HealGuard(t)
  <2>1. Return(t) \/ \E p \in {"healSpawn", "healUp", "healUndo", "healGuard", "verbLast"} : \E j : Step(t, p, j)
    BY <1>4 DEF HealDown, HealSpawn, HealUp, HealUndo, HealGuard, Adopt, Leave
  <2> QED BY <2>1, ReturnOpens, StepLands, OpenCloser DEF Closing
<1> QED BY <1>1, <1>2, <1>3, <1>4, LaneDoneCloser, CloseTeardownCloser, CloseDoneCloser, CancelDoneCloser
        DEF Progress

LEMMA InitClosers == Init => Closers
BY DEF Init, Closers, Closer, Tracked, Closing, OffPre

LEMMA NextClosers ==
  ASSUME ~PinnedExplore, IndInv, Placed, Hands, Lanes, Closers, [Next]_vars
  PROVE  Closers'
<1>1. Shape /\ Rest
  BY InvIsShapeAndRest
<1>2. CASE UNCHANGED <<entries, warm, warmTask, pre, mutateLock, pc, job>>
  BY <1>2 DEF Closers, Closer, Tracked, IsLane, Registered
<1>3. ASSUME NEW t \in Tasks, Request(t) \/ Acquire(t) \/ Progress(t)
      PROVE  Closers'
  <2>1. OneKind(t) /\ Passes(t)
    BY <1>1, <1>3, TaskStepKeeps, TaskStepPasses
  <2>2. Pools(t)
    BY <1>1, <1>3, RequestPools, AcquirePools, ProgressPools
  <2>3. Closer(t)'
    BY <1>1, <1>3, RequestOpens, AcquireCloser, ProgressCloser
  <2>4. \A u \in Tasks \ {t} : Closer(u)'
    BY <1>1, <2>1, <2>2, OthersCloser
  <2>5. \A u \in Tasks \ {t} : pc'[u] = pc[u] /\ job'[u] = job[u]
    BY <2>1 DEF OneKind, Quiet, Registers, Unregisters, Charges, OthersKept
  <2>6. Tracked'
    BY <1>1, <2>2, <2>5, PoolsKeepsTracked
  <2> QED BY <2>3, <2>4, <2>6 DEF Closers
<1>4. ASSUME NEW k \in WarmTasks, Prewarm(k)
      PROVE  Closers'
  BY <1>1, <1>4, WarmKeepsClosers
<1>5. ASSUME NEW n \in Names, GoalPin(n)
      PROVE  UNCHANGED <<entries, warm, warmTask, pre, mutateLock, pc, job>>
  BY <1>5 DEF GoalPin, poolVars
<1> QED BY <1>2, <1>3, <1>4, <1>5 DEF Next, vars, regVars, poolVars

\* Nothing but the end of a close, a delete or an explore removes a profile.
LEMMA StepRemoves ==
  ASSUME NEW t \in Tasks, Request(t) \/ Acquire(t) \/ Progress(t), NEW n \in dirs \ dirs'
  PROVE  \/ /\ n = job[t].profile /\ n \notin Outside
            /\ pc[t] \in {"closing", "cancel", "sweep", "deleteWait"} /\ Return(t)
         \/ n = job[t].name /\ IsLane(t)
<1>1. CASE Request(t)
  BY <1>1 DEF Request, RegistryVerb, GoUnstarted, Explore, VerbArrive, PinnedStop, Pop, osVars
<1>2. CASE Acquire(t)
  <2>1. CASE StartLocked(t) \/ GoLocked(t)
    BY <2>1 DEF StartLocked, GoLocked, Create, TakeWarm, StartFails, osVars
  <2>2. CASE DeleteLocked(t)
    BY <2>2 DEF DeleteLocked, RemoveProfile
  <2> QED BY <1>2, <2>1, <2>2
          DEF Acquire, AttachLocked, NewLocked, CloseLocked, Pop, ProbeLocked, ProbeRun, VerbRun, osVars
<1>3. CASE Progress(t)
  <2>1. CASE JoinDone(t) \/ CreateSpawn(t) \/ CreateUp(t)
    BY <2>1 DEF JoinDone, CreateSpawn, CreateUp, TakeWarm, StartFails, osVars
  <2>2. CASE CloseDone(t) \/ CancelDone(t) \/ Sweep(t)
    BY <2>2 DEF CloseDone, CancelDone, Sweep, RemoveProfile
  <2> QED BY <1>3, <2>1, <2>2
          DEF Progress, LaneTry, DropDone, AttachDone, ProbeDone, LaneDone, Pop, CloseTeardown, VerbDone,
              VerbCrash, HealDown, HealSpawn, HealUp, HealUndo, HealGuard, osVars
<1> QED BY <1>1, <1>2, <1>3

\* A session runs under its own name, or outside the profile store.
LEMMA OwnPlaces ==
  ASSUME ~OtherProfiles, NEW n \in AllNames, NEW p \in PlacesOf(n), p \notin Outside
  PROVE  p = n
BY DEF PlacesOf, MayRunOn

LEMMA RemovedIsUnused ==
  ASSUME ~OtherProfiles, IndInv, Placed, Lanes, Lanes', Closers, NEW t \in Tasks,
         Request(t) \/ Acquire(t) \/ Progress(t), NEW n \in dirs \ dirs'
  PROVE  /\ n \in AllNames /\ ~Registered(n) /\ warm'[n] = NoChrome /\ warmTask'[n] = NoWarm
         /\ \A u \in Tasks : job'[u].name = n => pc[u] \notin Creating
         /\ job'[t].profile # n /\ \A u \in Tasks \ {t} : job'[u] = job[u]
<1>1. Shape /\ Rest
  BY InvIsShapeAndRest
<1>2. n = job[t].name /\ n \in AllNames
  <2>1. CASE n = job[t].name /\ IsLane(t)
    BY <2>1 DEF IsLane, AllNames
  <2>2. CASE n = job[t].profile /\ n \notin Outside /\ pc[t] # "idle"
    BY <1>1, <2>2, JobIsPlaced, OwnPlaces
  <2> QED BY <2>1, <2>2, StepRemoves
<1>5. \A u \in Tasks \ {t} : job'[u] = job[u]
  BY <1>1, TaskStepKeeps DEF OneKind, Quiet, Registers, Unregisters, Charges, OthersKept
<1>6. NoJob.profile # n /\ NoJob.name # n
  BY <1>2, PlacesAreProfiles DEF NoJob
<1>3. CASE IsLane(t)
  <2>1. Finishes(t)
    BY <1>1, <1>2, <1>3, LaneBehaves DEF Proceeds
  <2>2. pc[t] # "laneBody"
    <3> SUFFICES ASSUME pc[t] = "laneBody" PROVE FALSE
      OBVIOUS
    <3>1. LaneDone(t)
      BY DEF Request, RegistryVerb, GoUnstarted, Explore, VerbArrive, PinnedStop,
         Acquire, StartLocked, GoLocked, AttachLocked, NewLocked, CloseLocked, DeleteLocked, ProbeLocked,
         ProbeRun, VerbRun, Progress, LaneTry, JoinDone, DropDone, CreateSpawn, CreateUp, AttachDone,
         ProbeDone, CloseTeardown, CloseDone, CancelDone, Sweep, VerbDone, VerbCrash, HealDown, HealSpawn,
         HealUp, HealUndo, HealGuard
    <3>2. pc'[t] = "popped"
      BY <1>1, <3>1, StepLands DEF LaneDone, Pop
    <3> QED BY <2>1, <3>2 DEF Finishes
  <2>3. ~Registered(n)
    BY <1>1, <1>2, <1>3, <2>2, LaneKnows DEF OnLane
  <2>4. warm'[n] = NoChrome /\ warmTask'[n] = NoWarm
    BY <1>2, <1>3 DEF Lanes, MintedCold, IsLane
  <2>5. ASSUME NEW u \in Tasks, job'[u].name = n
        PROVE  FALSE
    <3>1. u # t
      BY <1>6, <2>1, <2>5 DEF Finishes
    <3>2. job'[u] = job[u]
      BY <1>5, <3>1
    <3> QED BY <1>2, <1>3, <2>5, <3>1, <3>2 DEF Lanes, OneEach
  <2> QED BY <1>2, <1>5, <1>6, <2>1, <2>3, <2>4, <2>5 DEF Finishes
<1>4. CASE ~IsLane(t)
  <2>1. pc[t] \in {"closing", "cancel", "sweep", "deleteWait"} /\ Return(t)
    BY <1>4, StepRemoves
  <2>5. job'[t].profile # n
    BY <1>1, <1>6, <2>1, ReturnOffLane
  <2>2. CASE DeleteLocked(t)
    <3>1. mutateLock = NoTask /\ ~Registered(n) /\ warm'[n] = NoChrome /\ warmTask'[n] = NoWarm
      BY <1>2, <2>2 DEF DeleteLocked, HasPrewarm, poolVars
    <3> QED BY <1>1, <1>2, <1>5, <2>5, <3>1, AbsentValues DEF Rest, OneCreator
  <2>3. CASE CloseDone(t) \/ CancelDone(t) \/ Sweep(t)
    <3>1. mutateLock = t /\ ~Registered(n)
      BY <1>2, <1>4, <2>3 DEF CloseDone, CancelDone, Sweep, Closers, Closer, Closing
    <3>2. warm'[n] = NoChrome /\ warmTask'[n] = NoWarm
      <4>1. CASE CloseDone(t)
        BY <1>2, <4>1 DEF CloseDone, HasPrewarm, poolVars
      <4>2. CASE CancelDone(t)
        BY <1>1, <1>2, <4>2 DEF CancelDone, Closers, Closer, Shape, PoolShape
      <4>3. CASE Sweep(t)
        BY <1>2, <4>3 DEF Sweep, Closers, Closer, poolVars
      <4> QED BY <2>3, <4>1, <4>2, <4>3
    <3>3. pc[t] \notin Creating
      BY <2>1 DEF Creating
    <3> QED BY <1>1, <1>2, <1>5, <2>5, <3>1, <3>2, <3>3 DEF Rest, OneCreator
  <2>4. DeleteLocked(t) \/ CloseDone(t) \/ CancelDone(t) \/ Sweep(t)
    BY <2>1 DEF Request, RegistryVerb, GoUnstarted, Explore, VerbArrive, PinnedStop,
       Acquire, StartLocked, GoLocked, AttachLocked, NewLocked, CloseLocked, ProbeLocked,
       ProbeRun, VerbRun, Progress, LaneTry, JoinDone, DropDone, CreateSpawn, CreateUp, AttachDone,
       ProbeDone, LaneDone, CloseTeardown, VerbDone, VerbCrash, HealDown, HealSpawn,
       HealUp, HealUndo, HealGuard
  <2> QED BY <2>2, <2>3, <2>4
<1> QED BY <1>3, <1>4

\* So nothing uses the profile that goes.
LEMMA RemovedIsOutlived ==
  ASSUME ~OtherProfiles, IndInv, Placed, Placed', Hands, Hands', Lanes, Lanes', Closers, IndInv',
         NEW t \in Tasks, Request(t) \/ Acquire(t) \/ Progress(t), NEW p \in dirs \ dirs'
  PROVE  /\ \A n \in AllNames :
              /\ Registered(n) => profile[entries[n]] # p
              /\ warm'[n] # NoChrome => runs'[warm'[n]] # p
              /\ warmTask'[n] # NoWarm => pre'[warmTask'[n]].profile # p
         /\ \A u \in Tasks : job'[u].profile = p => pc[u] \notin Creating
<1>1. /\ p \in AllNames /\ ~Registered(p) /\ warm'[p] = NoChrome /\ warmTask'[p] = NoWarm
      /\ \A u \in Tasks : job'[u].name = p => pc[u] \notin Creating
      /\ job'[t].profile # p /\ \A u \in Tasks \ {t} : job'[u] = job[u]
  BY RemovedIsUnused
<1>2. p \notin Outside
  BY <1>1, NamesDisjoint
<1>3. \A n \in AllNames : p \in PlacesOf(n) => p = n
  BY <1>2, OwnPlaces
<1>4. Shape /\ Shape'
  BY InvIsShapeAndRest
<1>5. ASSUME NEW n \in AllNames
      PROVE  /\ Registered(n) => profile[entries[n]] # p
             /\ warm'[n] # NoChrome => runs'[warm'[n]] # p
             /\ warmTask'[n] # NoWarm => pre'[warmTask'[n]].profile # p
  <2>1. Registered(n) => profile[entries[n]] # p
    BY <1>1, <1>3 DEF Placed, Own
  <2>2. warm'[n] # NoChrome => runs'[warm'[n]] # p
    BY <1>1, <1>3, PlacesSame DEF Hands, HeldRuns
  <2>3. warmTask'[n] # NoWarm => pre'[warmTask'[n]].profile # p
    <3>1. warmTask'[n] # NoWarm => warmTask'[n] \in WarmTasks /\ pre'[warmTask'[n]].name = n
      BY <1>4 DEF Shape, PoolShape
    <3> QED BY <1>1, <1>3, <3>1, PlacesSame DEF Placed, Own
  <2> QED BY <2>1, <2>2, <2>3
<1>6. ASSUME NEW u \in Tasks, job'[u].profile = p, pc[u] \in Creating
      PROVE  FALSE
  <2>1. u # t /\ job'[u] = job[u] /\ pc[u] # "idle"
    BY <1>1, <1>6 DEF Creating
  <2>2. job[u].name = p
    BY <1>3, <1>4, <1>6, <2>1, JobIsPlaced
  <2> QED BY <1>1, <1>6, <2>1, <2>2
<1> QED BY <1>5, <1>6

\* While no client runs `explore` on a named session, whose close takes no lock,
\* and none starts a session on the profile of another name, a profile is removed
\* only when no session runs on it, none is being created on it and no browser
\* is being pre-warmed or is parked on it.
THEOREM ProfilesOutlive ==
  ASSUME ~PinnedExplore, ~OtherProfiles PROVE Spec => ProfileOutlivesSession
<1> DEFINE P == \A p \in dirs \ dirs' :
                  /\ \A n \in AllNames :
                       /\ Registered(n) => profile[entries[n]] # p
                       /\ warm'[n] # NoChrome => runs'[warm'[n]] # p
                       /\ warmTask'[n] # NoWarm => pre'[warmTask'[n]].profile # p
                  /\ \A t \in Tasks : job'[t].profile = p => pc[t] \notin Creating
           I == IndInv /\ Placed /\ Hands /\ Lanes /\ Closers
<1>1. Init => I
  BY InitInv, InitPlaced, InitHands, InitLanes, InitClosers
<1>2. I /\ [Next]_vars => I'
  BY NextInv, InvIsShapeAndRest, NextPlaced, NextHands, NextLanes, NextClosers
<1>3. ASSUME I, I', [Next]_vars
      PROVE  [P]_vars
  <2>1. ASSUME NEW t \in Tasks, Request(t) \/ Acquire(t) \/ Progress(t)
        PROVE  P
    BY <1>3, <2>1, RemovedIsOutlived
  <2>2. ASSUME NEW k \in WarmTasks, Prewarm(k)
        PROVE  P
    BY <2>2 DEF Prewarm, PreSpawn, PreUp, PreDiscard, PreCancelled
  <2>3. ASSUME NEW n \in Names, GoalPin(n)
        PROVE  P
    BY <2>3 DEF GoalPin, osVars
  <2> HIDE DEF P
  <2> QED BY <1>3, <2>1, <2>2, <2>3 DEF Next
<1> QED BY <1>1, <1>2, <1>3, PTL DEF Spec, ProfileOutlivesSession

------------------------------------------------------------------------------
(* Nobody is forgotten in a queue, and no lock is left taken.  A step of a     *)
(* request stays put, lets go, takes, joins or has its turn (InOrder).         *)

HoldsMutex == Creating \cup Closing \cup {"attach", "probeLock", "probe"}

InQueues ==
  /\ \A e \in Entries : \A i \in DOMAIN waiters[e] :
       InLine(waiters[e][i]) /\ job[waiters[e][i]].entry = e
  /\ \A e \in Entries : \A i, j \in DOMAIN waiters[e] : waiters[e][i] = waiters[e][j] => i = j
  /\ \A t \in Tasks : InLine(t) =>
       \E i \in DOMAIN waiters[job[t].entry] : waiters[job[t].entry][i] = t

LocksTaken ==
  /\ \A e \in Entries : lock[e] # NoTask => job[lock[e]].entry = e /\ Inside(lock[e])
  /\ \A t \in Tasks : Inside(t) =>
       lock[job[t].entry] = t /\ pc[t] \in UnderLock /\ job[t].name \in Names

MutexTaken == mutateLock # NoTask => pc[mutateLock] \in HoldsMutex

\* Those that wait for an entry.lock, or will, address a session by its name.
NamesGiven == \A t \in Tasks : pc[t] \in {"verbWait", "probeLock", "probeWait"} => job[t].name \in Names

InService == InQueues /\ LocksTaken /\ MutexTaken /\ NamesGiven

StaysPut(t) ==
  /\ ~InLine(t) /\ ~InLine(t)' /\ UNCHANGED lockVars
  /\ job'[t].entry = job[t].entry
  /\ Inside(t) => pc'[t] \in UnderLock /\ job'[t].name = job[t].name

LetsGo(t) ==
  /\ Inside(t) /\ pc'[t] = "idle" /\ job'[t] = NoJob
  /\ lock' = [lock EXCEPT ![job[t].entry] = NoTask] /\ UNCHANGED waiters

Gets(t, e) ==
  /\ ~InLine(t) /\ job[t].entry = NoEntry /\ lock[e] = NoTask
  /\ lock' = [lock EXCEPT ![e] = t] /\ UNCHANGED waiters
  /\ pc'[t] \in {"verb", "probe"} /\ job'[t].entry = e /\ job'[t].name \in Names

StandsInLine(t, e) ==
  /\ ~InLine(t) /\ job[t].entry = NoEntry
  /\ waiters' = [waiters EXCEPT ![e] = Append(@, t)] /\ UNCHANGED lock
  /\ InLine(t)' /\ job'[t].entry = e

HasTurn(t) ==
  /\ InLine(t) /\ MyTurn(t)
  /\ \/ /\ lock' = [lock EXCEPT ![job[t].entry] = t]
        /\ pc'[t] \in {"verb", "probe", "goWait"} /\ job'[t] = job[t]
     \/ UNCHANGED lock /\ pc'[t] = "idle" /\ job'[t] = NoJob

InOrder(t) ==
  /\ \/ StaysPut(t) \/ LetsGo(t) \/ HasTurn(t)
     \/ \E e \in Entries : Gets(t, e) \/ StandsInLine(t, e)
  /\ mutateLock' = t => pc'[t] \in HoldsMutex
  /\ pc'[t] \in {"verbWait", "probeLock", "probeWait"} => job'[t].name \in Names

LEMMA ServiceIsNobodyForgotten == InService => NobodyIsForgotten
BY DEF InService, InQueues, LocksTaken, MutexTaken, HoldsMutex, NobodyIsForgotten

LEMMA QueuesOfTasks ==
  ASSUME LockShape, NEW e \in Entries, NEW i \in DOMAIN waiters[e]
  PROVE  waiters[e][i] \in Tasks
<1>1. waiters[e] \in Seq(Tasks)
  BY DEF LockShape
<1> QED BY <1>1, ElementOfSeq

LEMMA QueuesUnmoved ==
  ASSUME Shape, InQueues, NEW t \in Tasks, OthersKept(t), UNCHANGED waiters,
         ~InLine(t), ~InLine(t)'
  PROVE  InQueues'
<1>1. \A e \in Entries : \A i \in DOMAIN waiters[e] : waiters[e][i] \in Tasks \ {t}
  BY QueuesOfTasks DEF Shape, InQueues
<1>2. \A u \in Tasks \ {t} : pc'[u] = pc[u] /\ job'[u] = job[u]
  BY DEF OthersKept
<1> QED BY <1>1, <1>2 DEF InQueues, InLine

LEMMA QueueJoined ==
  ASSUME Shape, InQueues, NEW t \in Tasks, OthersKept(t), NEW e \in Entries,
         ~InLine(t), InLine(t)', job'[t].entry = e,
         waiters' = [waiters EXCEPT ![e] = Append(@, t)]
  PROVE  InQueues'
<1> DEFINE n == Len(waiters[e])
<1>1. /\ waiters[e] \in Seq(Tasks) /\ waiters'[e] = Append(waiters[e], t)
      /\ \A f \in Entries \ {e} : waiters'[f] = waiters[f]
  BY DEF Shape, LockShape
<1>2. /\ DOMAIN waiters[e] = 1..n /\ n \in Nat /\ DOMAIN waiters'[e] = 1..(n + 1)
      /\ \A i \in 1..n : waiters'[e][i] = waiters[e][i]
      /\ waiters'[e][n + 1] = t
  BY <1>1, AppendProperties, LenProperties
<1> HIDE DEF n
<1>3. \A u \in Tasks \ {t} : InLine(u)' = InLine(u) /\ job'[u] = job[u]
  BY DEF OthersKept, InLine
<1>4. \A f \in Entries : \A i \in DOMAIN waiters[f] :
        /\ waiters[f][i] \in Tasks \ {t}
        /\ InLine(waiters[f][i]) /\ job[waiters[f][i]].entry = f
  BY QueuesOfTasks DEF Shape, InQueues
<1>5. \A f \in Entries : \A i \in DOMAIN waiters'[f] :
        \/ f = e /\ i = n + 1 /\ waiters'[f][i] = t
        \/ i \in DOMAIN waiters[f] /\ waiters'[f][i] = waiters[f][i]
  BY <1>1, <1>2
<1>6. \A f \in Entries : \A i \in DOMAIN waiters'[f] :
        pc'[waiters'[f][i]] \in {"verbWait", "probeLock"} /\ job'[waiters'[f][i]].entry = f
  BY <1>3, <1>4, <1>5 DEF InLine
<1>7. \A f \in Entries : \A i, j \in DOMAIN waiters'[f] :
        waiters'[f][i] = waiters'[f][j] => i = j
  BY <1>4, <1>5 DEF InQueues
<1>8. ASSUME NEW u \in Tasks, InLine(u)'
      PROVE  \E i \in DOMAIN waiters'[job'[u].entry] : waiters'[job'[u].entry][i] = u
  <2>1. CASE u = t
    BY <1>2, <2>1
  <2>2. CASE u # t
    <3>1. PICK i \in DOMAIN waiters[job[u].entry] : waiters[job[u].entry][i] = u
      BY <1>3, <1>8, <2>2 DEF InQueues
    <3>2. job[u].entry \in Entries
      BY <1>3, <1>8, <2>2 DEF Shape, TaskShape, MatchesStage, InLine
    <3>3. i \in DOMAIN waiters'[job[u].entry] /\ waiters'[job[u].entry][i] = u
      BY <1>1, <1>2, <3>1, <3>2
    <3> QED BY <1>3, <2>2, <3>3
  <2> QED BY <2>1, <2>2
<1> QED BY <1>6, <1>7, <1>8 DEF InQueues, InLine

\* A queue without its head.
LEMMA QueueWithoutHead ==
  ASSUME NEW s \in Seq(Tasks), s # <<>>
  PROVE  /\ Len(s) \in Nat \ {0} /\ DOMAIN s = 1..Len(s) /\ s[1] = Head(s)
         /\ DOMAIN Tail(s) = 1..(Len(s) - 1)
         /\ \A i \in 1..(Len(s) - 1) : Tail(s)[i] = s[i + 1]
<1>1. /\ Tail(s) \in Seq(Tasks) /\ Len(Tail(s)) = Len(s) - 1
      /\ \A i \in 1..Len(Tail(s)) : Tail(s)[i] = s[i + 1]
  BY HeadTailProperties
<1>2. Len(s) \in Nat /\ DOMAIN s = 1..Len(s) /\ DOMAIN Tail(s) = 1..(Len(s) - 1)
  BY <1>1, LenProperties
<1>3. Len(s) # 0 /\ s[1] = Head(s)
  BY <1>2, EmptySeq
<1> QED BY <1>1, <1>2, <1>3

LEMMA QueueServed ==
  ASSUME Shape, InQueues, NEW t \in Tasks, OthersKept(t), InLine(t), MyTurn(t), ~InLine(t)'
  PROVE  InQueues'
<1> DEFINE e == job[t].entry
           n == Len(waiters[e])
<1>0. e \in Entries
  BY DEF Shape, TaskShape, MatchesStage, InLine
<1>1. /\ waiters[e] \in Seq(Tasks) /\ waiters[e] # <<>> /\ Head(waiters[e]) = t
      /\ waiters'[e] = Tail(waiters[e])
      /\ \A f \in Entries \ {e} : waiters'[f] = waiters[f]
  BY <1>0 DEF Shape, LockShape, MyTurn
<1>2. n \in Nat \ {0} /\ DOMAIN waiters[e] = 1..n /\ waiters[e][1] = t
  BY <1>1, QueueWithoutHead
<1>3. DOMAIN waiters'[e] = 1..(n - 1) /\ \A i \in 1..(n - 1) : waiters'[e][i] = waiters[e][i + 1]
  BY <1>1, QueueWithoutHead
<1> HIDE DEF e, n
<1>4. \A u \in Tasks \ {t} : InLine(u)' = InLine(u) /\ job'[u] = job[u]
  BY DEF OthersKept, InLine
<1>5. \A f \in Entries : \A i \in DOMAIN waiters[f] :
        /\ waiters[f][i] \in Tasks /\ InLine(waiters[f][i]) /\ job[waiters[f][i]].entry = f
  BY QueuesOfTasks DEF Shape, InQueues
<1>6. \A f \in Entries : \A i \in DOMAIN waiters'[f] :
        \/ f # e /\ waiters'[f] = waiters[f]
        \/ f = e /\ i \in 1..(n - 1) /\ i + 1 \in DOMAIN waiters[e]
           /\ waiters'[f][i] = waiters[e][i + 1]
  <2>1. \A i \in 1..(n - 1) : i + 1 \in DOMAIN waiters[e]
    BY <1>2
  <2>2. \A i \in DOMAIN waiters'[e] :
          i \in 1..(n - 1) /\ i + 1 \in DOMAIN waiters[e] /\ waiters'[e][i] = waiters[e][i + 1]
    BY <1>3, <2>1
  <2> QED BY <1>1, <2>2
<1>7. \A i \in 1..(n - 1) : waiters[e][i + 1] # t
  BY <1>0, <1>2 DEF InQueues
<1>8. \A f \in Entries \ {e} : \A i \in DOMAIN waiters[f] : waiters[f][i] # t
  BY <1>5 DEF e
<1>9. \A f \in Entries : \A i \in DOMAIN waiters'[f] :
        pc'[waiters'[f][i]] \in {"verbWait", "probeLock"} /\ job'[waiters'[f][i]].entry = f
  BY <1>0, <1>4, <1>5, <1>6, <1>7, <1>8 DEF InLine
<1>10. \A f \in Entries : \A i, j \in DOMAIN waiters'[f] :
         waiters'[f][i] = waiters'[f][j] => i = j
  <2>1. \A i, j \in DOMAIN waiters'[e] : waiters'[e][i] = waiters'[e][j] => i = j
    <3> SUFFICES ASSUME NEW i \in 1..(n - 1), NEW j \in 1..(n - 1),
                        waiters[e][i + 1] = waiters[e][j + 1]
                 PROVE  i = j
      <4>1. \A i \in DOMAIN waiters'[e] : i \in 1..(n - 1) /\ waiters'[e][i] = waiters[e][i + 1]
        BY <1>3
      <4> QED BY <4>1
    <3>1. i + 1 \in DOMAIN waiters[e] /\ j + 1 \in DOMAIN waiters[e]
      BY <1>2
    <3>2. i + 1 = j + 1
      BY <1>0, <3>1 DEF InQueues
    <3> QED BY <1>2, <3>2
  <2>2. ASSUME NEW f \in Entries \ {e}, NEW i \in DOMAIN waiters[f], NEW j \in DOMAIN waiters[f],
               waiters[f][i] = waiters[f][j]
        PROVE  i = j
    BY <2>2 DEF InQueues
  <2>3. \A f \in Entries \ {e} : waiters'[f] = waiters[f]
    BY <1>1
  <2> QED BY <2>1, <2>2, <2>3
<1>11. ASSUME NEW u \in Tasks, InLine(u)'
       PROVE  \E i \in DOMAIN waiters'[job'[u].entry] : waiters'[job'[u].entry][i] = u
  <2>0. u \in Tasks \ {t} /\ InLine(u) /\ job'[u] = job[u]
    BY <1>4, <1>11
  <2>1. PICK i \in DOMAIN waiters[job[u].entry] : waiters[job[u].entry][i] = u
    BY <2>0 DEF InQueues
  <2>2. job[u].entry \in Entries
    BY <2>0 DEF Shape, TaskShape, MatchesStage, InLine
  <2>3. CASE job[u].entry = e
    <3>1. i \in 1..n /\ i # 1
      BY <1>2, <2>0, <2>1, <2>3
    <3>2. i - 1 \in 1..(n - 1) /\ (i - 1) + 1 = i
      BY <1>2, <3>1
    <3>3. i - 1 \in DOMAIN waiters'[e] /\ waiters'[e][i - 1] = u
      BY <1>3, <2>1, <2>3, <3>2
    <3> QED BY <2>0, <2>3, <3>3
  <2>4. CASE job[u].entry # e
    BY <1>1, <2>0, <2>1, <2>2, <2>4
  <2> QED BY <2>3, <2>4
<1> QED BY <1>9, <1>10, <1>11 DEF InQueues, InLine

\* A step in order keeps the queues and the locks.
LEMMA OrderKeepsService ==
  ASSUME Shape, InService, NEW t \in Tasks, OthersKept(t), InOrder(t)
  PROVE  InService'
<1>0. /\ lock \in [Entries -> Tasks \cup {NoTask}] /\ NoTask \notin Tasks
      /\ NoEntry \notin Entries
      /\ \A u \in Tasks \ {t} : pc'[u] = pc[u] /\ job'[u] = job[u]
      /\ job[t].entry \in Entries \cup {NoEntry}
  BY AbsentValues DEF Shape, LockShape, OthersKept, TaskShape, Jobs
<1>1. MutexTaken'
  BY <1>0 DEF InService, MutexTaken, OthersKept, InOrder, Shape, MutexShape
<1>2. NamesGiven'
  BY <1>0 DEF InService, NamesGiven, InOrder
<1>3. CASE StaysPut(t)
  <2>1. InQueues'
    BY <1>3, QueuesUnmoved DEF StaysPut, InService, lockVars
  <2>2. LocksTaken'
    BY <1>0, <1>3 DEF StaysPut, InService, LocksTaken, Inside, InLine, lockVars
  <2> QED BY <1>1, <1>2, <2>1, <2>2 DEF InService
<1>4. CASE LetsGo(t)
  <2>1. InQueues'
    BY <1>4, QueuesUnmoved DEF LetsGo, InService, Inside, InLine
  <2>2. job[t].entry \in Entries /\ ~Inside(t)'
    BY <1>0, <1>4 DEF LetsGo, Inside, NoJob, About
  <2>3. \A e \in Entries : lock'[e] = IF e = job[t].entry THEN NoTask ELSE lock[e]
    BY <1>0, <1>4, <2>2 DEF LetsGo
  <2>4. \A u \in Tasks \ {t} : Inside(u)' = Inside(u)
    BY <1>0 DEF Inside, InLine
  <2>5. LocksTaken'
    BY <1>0, <1>4, <2>2, <2>3, <2>4 DEF LetsGo, InService, LocksTaken, Inside
  <2> QED BY <1>1, <1>2, <2>1, <2>5 DEF InService
<1>5. ASSUME NEW e \in Entries, Gets(t, e)  PROVE InService'
  <2>1. ~InLine(t)' /\ Inside(t)'
    BY <1>0, <1>5 DEF Gets, Inside, InLine
  <2>2. InQueues'
    BY <1>5, <2>1, QueuesUnmoved DEF Gets, InService
  <2>3. \A f \in Entries : lock'[f] = IF f = e THEN t ELSE lock[f]
    BY <1>0, <1>5 DEF Gets
  <2>4. \A u \in Tasks \ {t} : Inside(u)' = Inside(u)
    BY <1>0 DEF Inside, InLine
  <2>5. \A f \in Entries : lock[f] # t
    BY <1>0, <1>5 DEF Gets, InService, LocksTaken
  <2>6. LocksTaken'
    BY <1>0, <1>5, <2>1, <2>3, <2>4, <2>5 DEF Gets, InService, LocksTaken, UnderLock
  <2> QED BY <1>1, <1>2, <2>2, <2>6 DEF InService
<1>6. ASSUME NEW e \in Entries, StandsInLine(t, e)  PROVE InService'
  <2>1. InQueues'
    BY <1>6, QueueJoined DEF StandsInLine, InService
  <2>2. ~Inside(t) /\ ~Inside(t)' /\ \A u \in Tasks \ {t} : Inside(u)' = Inside(u)
    BY <1>0, <1>6 DEF StandsInLine, Inside, InLine
  <2>3. LocksTaken'
    BY <1>0, <1>6, <2>2 DEF StandsInLine, InService, LocksTaken
  <2> QED BY <1>1, <1>2, <2>1, <2>3 DEF InService
<1>7. CASE HasTurn(t)
  <2>1. ~InLine(t)' /\ job[t].entry \in Entries /\ ~Inside(t)
    BY <1>7 DEF HasTurn, InLine, Inside, Shape, TaskShape, MatchesStage
  <2>2. InQueues'
    BY <1>7, <2>1, QueueServed DEF HasTurn, InService
  <2>3. \A u \in Tasks \ {t} : Inside(u)' = Inside(u)
    BY <1>0 DEF Inside, InLine
  <2>4. lock[job[t].entry] = NoTask /\ job[t].name \in Names
    BY <1>7 DEF HasTurn, MyTurn, InLine, InService, NamesGiven
  <2>5. CASE lock' = [lock EXCEPT ![job[t].entry] = t]
             /\ pc'[t] \in {"verb", "probe", "goWait"} /\ job'[t] = job[t]
    <3>1. Inside(t)'
      BY <1>0, <2>1, <2>5 DEF Inside
    <3>2. \A f \in Entries : lock'[f] = IF f = job[t].entry THEN t ELSE lock[f]
      BY <1>0, <2>1, <2>5
    <3>3. LocksTaken'
      BY <1>0, <2>1, <2>3, <2>4, <2>5, <3>1, <3>2 DEF InService, LocksTaken, UnderLock
    <3> QED BY <1>1, <1>2, <2>2, <3>3 DEF InService
  <2>6. CASE UNCHANGED lock /\ pc'[t] = "idle" /\ job'[t] = NoJob
    <3>1. ~Inside(t)'
      BY <2>6 DEF Inside, NoJob, About
    <3>2. LocksTaken'
      BY <1>0, <2>1, <2>3, <2>6, <3>1 DEF InService, LocksTaken
    <3> QED BY <1>1, <1>2, <2>2, <3>2 DEF InService
  <2> QED BY <1>7, <2>5, <2>6 DEF HasTurn
<1> QED BY <1>3, <1>4, <1>5, <1>6, <1>7 DEF InOrder

\* Who stands in no queue has an entry only if it runs under its lock.
LEMMA OutsideHasNoEntry ==
  ASSUME Shape, InService, NEW t \in Tasks, ~InLine(t), pc[t] \notin UnderLock
  PROVE  job[t].entry = NoEntry
BY DEF InService, LocksTaken, Inside

\* An explore runs under no entry.lock.
LEMMA LaneHasNoEntry ==
  ASSUME Shape, InService, NEW t \in Tasks, ~InLine(t), IsLane(t)
  PROVE  job[t].entry = NoEntry
BY NamesDisjoint DEF InService, LocksTaken, Inside, IsLane

LEMMA ReturnInOrder ==
  ASSUME Shape, InService, NEW t \in Tasks, ~InLine(t), job[t].entry = NoEntry,
         Return(t), UNCHANGED lockVars
  PROVE  InOrder(t)
<1>1. pc'[t] = "idle" /\ job'[t] = NoJob /\ mutateLock' # t
  BY AbsentValues DEF Return, Shape, TaskShape
<1> QED BY <1>1 DEF InOrder, StaysPut, InLine, Inside, NoJob, About

LEMMA LeaveInOrder ==
  ASSUME Shape, InService, NEW t \in Tasks, pc[t] \in {"verb", "verbLast", "probe"} \cup Healing, Leave(t)
  PROVE  InOrder(t)
<1>1. pc'[t] = "idle" /\ job'[t] = NoJob /\ mutateLock' # t
  BY AbsentValues DEF Leave, Return, Shape, TaskShape
<1>2. Inside(t)
  BY AbsentValues DEF Shape, TaskShape, MatchesStage, Inside, InLine, Healing
<1> QED BY <1>1, <1>2 DEF InOrder, LetsGo, Leave

LEMMA StepInOrder ==
  ASSUME Shape, InService, NEW t \in Tasks, ~InLine(t), UNCHANGED lockVars,
         NEW p \in PCs \ {"verbWait", "probeLock", "probeWait"}, NEW j, Step(t, p, j),
         j.entry = job[t].entry,
         job[t].entry # NoEntry => p \in UnderLock /\ j.name = job[t].name,
         mutateLock' = t => p \in HoldsMutex
  PROVE  InOrder(t)
<1>1. pc'[t] = p /\ job'[t] = j
  BY StepLands
<1> QED BY <1>1 DEF InOrder, StaysPut, InLine, Inside

\* What a request may change of its job and keep its name and its entry.
LEMMA SameSeat ==
  ASSUME Shape, NEW t \in Tasks, NEW e, NEW c, NEW k, NEW p
  PROVE  /\ \A j \in {job[t], [job[t] EXCEPT !.chrome = c], [job[t] EXCEPT !.join = k],
                      [job[t] EXCEPT !.target = e, !.chrome = c],
                      [job[t] EXCEPT !.join = k, !.chrome = c],
                      [job[t] EXCEPT !.chrome = c, !.join = k],
                      [job[t] EXCEPT !.name = job[t].name, !.target = e, !.profile = p]} :
              j.name = job[t].name /\ j.entry = job[t].entry
<1>1. job[t] \in Jobs
  BY DEF Shape, TaskShape
<1> QED BY <1>1 DEF Jobs

LEMMA ContinueInOrder ==
  ASSUME Shape, InService, NEW t \in Tasks, ~InLine(t), UNCHANGED lockVars,
         NEW p \in {"laneBody", "verb"}, Continue(t, p), job[t].entry # NoEntry => p = "verb"
  PROVE  InOrder(t)
<1> DEFINE j == [job[t] EXCEPT !.target = NoEntry, !.chrome = NoChrome, !.join = NoWarm]
<1>1. job[t] \in Jobs /\ j.name = job[t].name /\ j.entry = job[t].entry
  BY DEF Shape, TaskShape, Jobs
<1>2. pc' = [pc EXCEPT ![t] = p] /\ job' = [job EXCEPT ![t] = j] /\ mutateLock' # t
  BY AbsentValues DEF Continue
<1> HIDE DEF j
<1>3. Step(t, p, j)
  BY <1>2 DEF Step
<1> QED BY <1>1, <1>2, <1>3, StepInOrder DEF UnderLock, PCs

LEMMA StartEndsInOrder ==
  ASSUME Shape, InService, NEW t \in Tasks, ~InLine(t), UNCHANGED lockVars,
         StartWorks(t) \/ StartFails(t)
  PROVE  InOrder(t)
BY ContinueInOrder, ReturnInOrder, LaneHasNoEntry DEF StartWorks, StartFails

LEMMA TakeWarmInOrder ==
  ASSUME Shape, InService, NEW t \in Tasks, ~InLine(t), TakeWarm(t)
  PROVE  InOrder(t)
<1> DEFINE c == warm[job[t].name]
<1>1. UNCHANGED lockVars
  BY DEF TakeWarm
<1>2. CASE StartWorks(t) \/ StartFails(t)
  BY <1>1, <1>2, StartEndsInOrder
<1>3. CASE Step(t, "drop", [job[t] EXCEPT !.chrome = c, !.join = NoWarm])
  <2> DEFINE j == [job[t] EXCEPT !.chrome = c, !.join = NoWarm]
  <2>1. j.name = job[t].name /\ j.entry = job[t].entry
    BY SameSeat
  <2>2. Step(t, "drop", j)
    BY <1>3
  <2> HIDE DEF j
  <2> QED BY <1>1, <2>1, <2>2, StepInOrder DEF UnderLock, Creating, HoldsMutex, PCs
<1>4. CASE Step(t, "spawn", [job[t] EXCEPT !.join = NoWarm])
  BY <1>1, <1>4, SameSeat, StepInOrder DEF UnderLock, Creating, HoldsMutex, PCs
<1> QED BY <1>2, <1>3, <1>4 DEF TakeWarm

LEMMA CreateInOrder ==
  ASSUME Shape, InService, NEW t \in Tasks, pc[t] \in {"startWait", "goWait"},
         mutateLock = NoTask, Create(t)
  PROVE  InOrder(t)
<1> DEFINE n == job[t].name
<1>0. ~InLine(t)
  BY DEF InLine
<1>1. CASE StartFails(t) /\ UNCHANGED lockVars
  BY <1>0, <1>1, StartEndsInOrder
<1>2. CASE IsLane(t) /\ Step(t, "laneQueue", job[t]) /\ UNCHANGED <<mutateLock, lockVars>>
  <2>1. job[t].entry = NoEntry /\ mutateLock' # t
    BY <1>0, <1>2, LaneHasNoEntry, AbsentValues
  <2>2. "laneQueue" \in PCs \ {"verbWait", "probeLock", "probeWait"}
    BY DEF PCs
  <2> QED BY <1>0, <1>2, <2>1, <2>2, StepInOrder
<1>3. CASE Step(t, "join", [job[t] EXCEPT !.join = warmTask[n]]) /\ UNCHANGED lockVars
  BY <1>0, <1>3, SameSeat, StepInOrder DEF UnderLock, Creating, HoldsMutex, PCs
<1>4. CASE TakeWarm(t)
  BY <1>0, <1>4, TakeWarmInOrder
<1> QED BY <1>1, <1>2, <1>3, <1>4 DEF Create

\* An arriving request has no entry; the queues let it in or make it wait.
LEMMA AcquireInOrder ==
  ASSUME Shape, InService, NEW t \in Tasks, ~InLine(t), job[t].entry = NoEntry,
         NEW e \in Entries, NEW j, j.entry = e, j.name \in Names,
         NEW p \in {"verb", "probe"}, NEW w \in {"verbWait", "probeLock"},
         AcquireOrQueue(t, e, p, w, j),
         mutateLock' = t => p \in HoldsMutex /\ w \in HoldsMutex
  PROVE  InOrder(t)
<1>1. CASE /\ lock[e] = NoTask /\ lock' = [lock EXCEPT ![e] = t]
           /\ Step(t, p, j) /\ UNCHANGED waiters
  <2>1. pc'[t] = p /\ job'[t] = j
    BY <1>1, StepLands
  <2> QED BY <1>1, <2>1 DEF InOrder, Gets
<1>2. CASE /\ waiters' = [waiters EXCEPT ![e] = Append(@, t)]
           /\ Step(t, w, j) /\ UNCHANGED lock
  <2>1. pc'[t] = w /\ job'[t] = j
    BY <1>2, StepLands
  <2>2. StandsInLine(t, e)
    BY <1>2, <2>1 DEF StandsInLine, InLine
  <2> QED BY <2>1, <2>2 DEF InOrder
<1> QED BY <1>1, <1>2 DEF AcquireOrQueue

LEMMA RequestInOrder ==
  ASSUME Shape, InService, NEW t \in Tasks, Request(t)
  PROVE  InOrder(t)
<1>0. /\ pc[t] = "idle" /\ ~InLine(t) /\ job[t].entry = NoEntry
      /\ mutateLock # t /\ UNCHANGED mutateLock
  <2>1. pc[t] = "idle" /\ UNCHANGED mutateLock
    BY DEF Request, RegistryVerb, GoUnstarted, Explore, VerbArrive, PinnedStop
  <2>2. pc[t] \notin UnderLock \cup HoldsMutex /\ ~InLine(t)
    BY <2>1 DEF UnderLock, HoldsMutex, InLine, Creating, Healing, Closing
  <2> QED BY <2>1, <2>2, AbsentValues, OutsideHasNoEntry DEF InService, MutexTaken
<1>1. CASE RegistryVerb(t)
  <2>1. PICK n \in Names, w \in {"persistent", "ephemeral"}, v \in Waiting \ {"goWait"} :
          \E p \in MayRunOn(n) : Step(t, v, [About(n, p) EXCEPT !.want = w])
    BY <1>1 DEF RegistryVerb
  <2>2. PICK p \in MayRunOn(n) : pc'[t] = v /\ job'[t] = [About(n, p) EXCEPT !.want = w]
    BY <2>1, StepLands
  <2>3. job'[t].name = n /\ job'[t].entry = NoEntry
    BY <2>2 DEF NoJob, About
  <2>4. UNCHANGED lockVars
    BY <1>1 DEF RegistryVerb
  <2> QED BY <1>0, <2>2, <2>3, <2>4 DEF InOrder, StaysPut, InLine, Inside, Waiting
<1>2. CASE GoUnstarted(t)
  <2>1. PICK n \in Names : Step(t, "goWait", About(n, n))
    BY <1>2 DEF GoUnstarted
  <2>2. UNCHANGED lockVars
    BY <1>2 DEF GoUnstarted
  <2> QED BY <1>0, <2>1, <2>2, StepInOrder DEF NoJob, About, PCs, Waiting
<1>3. CASE Explore(t)
  <2>1. PICK n \in MintedNames : Step(t, "laneQueue", [About(n, n) EXCEPT !.want = "ephemeral"])
    BY <1>3 DEF Explore
  <2>2. UNCHANGED lockVars
    BY <1>3 DEF Explore
  <2> QED BY <1>0, <2>1, <2>2, StepInOrder DEF NoJob, About, PCs
<1>4. CASE VerbArrive(t)
  <2>1. PICK n \in Names : Registered(n) /\ AcquireOrQueue(t, entries[n], "verb", "verbWait",
                             [About(n, n) EXCEPT !.entry = entries[n]])
    BY <1>4 DEF VerbArrive
  <2>2. entries[n] \in Entries
    BY <2>1 DEF Registered, Shape, RegShape, AllNames
  <2>3. /\ [About(n, n) EXCEPT !.entry = entries[n]].entry = entries[n]
        /\ [About(n, n) EXCEPT !.entry = entries[n]].name = n
    BY DEF NoJob, About
  <2> QED BY <1>0, <2>1, <2>2, <2>3, AcquireInOrder
<1>5. CASE PinnedStop(t)
  <2>1. PICK n \in Names : Step(t, "popped", [NoJob EXCEPT !.name = n, !.target = entries[n], !.profile = profile[entries[n]]])
    BY <1>5 DEF PinnedStop, Pop
  <2>2. UNCHANGED lockVars
    BY <1>5 DEF PinnedStop, Pop
  <2> QED BY <1>0, <2>1, <2>2, StepInOrder DEF NoJob, About, PCs, Closing
<1> QED BY <1>1, <1>2, <1>3, <1>4, <1>5 DEF Request

LEMMA PopInOrder ==
  ASSUME Shape, InService, NEW t \in Tasks, ~InLine(t), job[t].entry = NoEntry,
         Pop(t, job[t].name, job[t])
  PROVE  InOrder(t)
<1> DEFINE j == [job[t] EXCEPT !.name = job[t].name, !.target = entries[job[t].name],
                               !.profile = profile[entries[job[t].name]]]
<1>1. j.entry = job[t].entry
  BY SameSeat
<1>2. Step(t, "popped", j) /\ UNCHANGED lockVars
  BY DEF Pop
<1> HIDE DEF j
<1> QED BY <1>1, <1>2, StepInOrder DEF PCs, Closing, HoldsMutex

LEMMA BeginCancelInOrder ==
  ASSUME Shape, InService, NEW t \in Tasks, ~InLine(t), job[t].entry = NoEntry,
         BeginCancel(t), UNCHANGED lockVars
  PROVE  InOrder(t)
<1> DEFINE n == job[t].name
<1>1. CASE Step(t, "cancel", [job[t] EXCEPT !.join = warmTask[n], !.chrome = NoChrome])
  <2> DEFINE j == [job[t] EXCEPT !.join = warmTask[n], !.chrome = NoChrome]
  <2>1. j.entry = job[t].entry
    BY SameSeat
  <2>2. Step(t, "cancel", j)
    BY <1>1
  <2> HIDE DEF j
  <2> QED BY <2>1, <2>2, StepInOrder DEF PCs, Closing, HoldsMutex
<1>2. CASE Step(t, "sweep", [job[t] EXCEPT !.chrome = warm[n]])
  BY <1>2, SameSeat, StepInOrder DEF PCs, Closing, HoldsMutex
<1> QED BY <1>1, <1>2 DEF BeginCancel

LEMMA WaitingHasNoEntry ==
  ASSUME Shape, InService, NEW t \in Tasks,
         pc[t] \in {"idle", "laneQueue", "laneBody", "attach"} \cup Closing \cup (Waiting \ {"goWait"})
  PROVE  ~InLine(t) /\ job[t].entry = NoEntry
<1>1. ~InLine(t) /\ pc[t] \notin UnderLock
  BY DEF InLine, UnderLock, Creating, Healing, Closing, Waiting
<1> QED BY <1>1, OutsideHasNoEntry

LEMMA AcquiresInOrder ==
  ASSUME Shape, InService, NEW t \in Tasks, Acquire(t)
  PROVE  InOrder(t)
<1>1. CASE StartLocked(t)
  <2>1. ~InLine(t) /\ job[t].entry = NoEntry
    BY <1>1, WaitingHasNoEntry DEF StartLocked, Waiting
  <2>2. CASE Return(t) /\ UNCHANGED lockVars
    BY <2>1, <2>2, ReturnInOrder
  <2>3. CASE Create(t)
    BY <1>1, <2>3, CreateInOrder DEF StartLocked
  <2> QED BY <1>1, <2>2, <2>3 DEF StartLocked
<1>2. CASE GoLocked(t)
  <2>1. ~InLine(t)
    BY <1>2 DEF GoLocked, InLine
  <2>2. CASE StartWorks(t) /\ UNCHANGED lockVars
    BY <2>1, <2>2, StartEndsInOrder
  <2>3. CASE Create(t)
    BY <1>2, <2>3, CreateInOrder DEF GoLocked
  <2> QED BY <1>2, <2>2, <2>3 DEF GoLocked
<1>3. CASE AttachLocked(t)
  <2>1. ~InLine(t) /\ job[t].entry = NoEntry /\ UNCHANGED lockVars
    BY <1>3, WaitingHasNoEntry DEF AttachLocked, Waiting
  <2>2. CASE Return(t)
    BY <2>1, <2>2, ReturnInOrder
  <2>3. CASE Step(t, "attach", job[t])
    BY <2>1, <2>3, StepInOrder DEF PCs, HoldsMutex
  <2> QED BY <1>3, <2>2, <2>3 DEF AttachLocked
<1>4. CASE NewLocked(t)
  BY <1>4, WaitingHasNoEntry, ReturnInOrder DEF NewLocked, Waiting
<1>5. CASE CloseLocked(t)
  <2>1. ~InLine(t) /\ job[t].entry = NoEntry
    BY <1>5, WaitingHasNoEntry DEF CloseLocked, Waiting
  <2> QED BY <1>5, <2>1, PopInOrder, ReturnInOrder DEF CloseLocked
<1>6. CASE DeleteLocked(t)
  <2>1. ~InLine(t) /\ job[t].entry = NoEntry /\ UNCHANGED lockVars
    BY <1>6, WaitingHasNoEntry DEF DeleteLocked, Waiting
  <2> QED BY <1>6, <2>1, BeginCancelInOrder, ReturnInOrder DEF DeleteLocked, RemoveProfile
<1>7. CASE ProbeLocked(t)
  <2> DEFINE e == entries[job[t].name]
             j == [job[t] EXCEPT !.entry = e]
  <2>1. ~InLine(t) /\ job[t].entry = NoEntry /\ job[t].name \in Names
    BY <1>7, WaitingHasNoEntry DEF ProbeLocked, Waiting, InService, NamesGiven
  <2>2. CASE Return(t) /\ UNCHANGED lockVars
    BY <2>1, <2>2, ReturnInOrder
  <2>3. CASE Registered(job[t].name) /\ AcquireOrQueue(t, e, "probe", "probeLock", j)
    <3>1. e \in Entries
      BY <2>1, <2>3 DEF Registered, Shape, RegShape, AllNames
    <3>2. j.entry = e /\ j.name \in Names
      <4>1. job[t] \in Jobs
        BY DEF Shape, TaskShape
      <4> QED BY <2>1, <4>1 DEF Jobs
    <3> HIDE DEF e, j
    <3> QED BY <2>1, <2>3, <3>1, <3>2, AcquireInOrder DEF HoldsMutex
  <2> QED BY <1>7, <2>2, <2>3 DEF ProbeLocked
<1>8. CASE ProbeRun(t)
  <2>1. pc'[t] = "probe" /\ job'[t] = job[t]
    BY <1>8, StepLands DEF ProbeRun
  <2>2. HasTurn(t)
    BY <1>8, <2>1 DEF ProbeRun, HasTurn, InLine
  <2> QED BY <2>1, <2>2 DEF InOrder, HoldsMutex
<1>9. CASE VerbRun(t)
  <2>1. mutateLock' # t
    BY <1>9, AbsentValues DEF VerbRun, Return, InService, MutexTaken, HoldsMutex, Creating, Closing
  <2>2. CASE \E p \in {"verb", "goWait"} :
               Step(t, p, job[t]) /\ lock' = [lock EXCEPT ![job[t].entry] = t]
    <3>1. PICK p \in {"verb", "goWait"} :
               Step(t, p, job[t]) /\ lock' = [lock EXCEPT ![job[t].entry] = t]
      BY <2>2
    <3>2. pc'[t] = p /\ job'[t] = job[t]
      BY <3>1, StepLands
    <3>3. HasTurn(t)
      BY <1>9, <3>1, <3>2 DEF VerbRun, HasTurn, InLine
    <3> QED BY <2>1, <3>2, <3>3 DEF InOrder
  <2>3. CASE Return(t) /\ UNCHANGED lock
    <3>1. pc'[t] = "idle" /\ job'[t] = NoJob
      BY <2>3 DEF Return, Shape, TaskShape
    <3>2. HasTurn(t)
      BY <1>9, <2>3, <3>1 DEF VerbRun, HasTurn, InLine
    <3> QED BY <2>1, <3>1, <3>2 DEF InOrder
  <2> QED BY <1>9, <2>2, <2>3 DEF VerbRun
<1> QED BY <1>1, <1>2, <1>3, <1>4, <1>5, <1>6, <1>7, <1>8, <1>9 DEF Acquire

LEMMA AdoptInOrder ==
  ASSUME Shape, InService, NEW t \in Tasks, ~InLine(t), UNCHANGED <<lockVars, mutateLock>>,
         mutateLock # t, Adopt(t)
  PROVE  InOrder(t)
<1> DEFINE j == [job[t] EXCEPT !.target = NoEntry, !.chrome = NoChrome]
<1>1. j.name = job[t].name /\ j.entry = job[t].entry
  BY SameSeat
<1>2. Step(t, "verbLast", j)
  BY DEF Adopt
<1> HIDE DEF j
<1> QED BY <1>1, <1>2, StepInOrder DEF UnderLock, PCs

LEMMA ProgressInOrder ==
  ASSUME Shape, InService, NEW t \in Tasks, Progress(t)
  PROVE  InOrder(t)
<1>0. mutateLock = t => pc[t] \in HoldsMutex
  BY AbsentValues DEF InService, MutexTaken
<1>1. CASE LaneTry(t)
  BY <1>0, <1>1, WaitingHasNoEntry, StepInOrder
     DEF LaneTry, PCs, Waiting, HoldsMutex, Creating, Closing
<1>2. CASE JoinDone(t)
  BY <1>2, TakeWarmInOrder DEF JoinDone, InLine
<1>3. CASE DropDone(t)
  BY <1>3, SameSeat, StepInOrder DEF DropDone, InLine, UnderLock, Creating, HoldsMutex, PCs
<1>4. CASE CreateSpawn(t)
  <2>1. ~InLine(t) /\ UNCHANGED lockVars
    BY <1>4 DEF CreateSpawn, InLine
  <2>2. ASSUME NEW c \in FreshChromes, Step(t, "up", [job[t] EXCEPT !.chrome = c])
        PROVE  InOrder(t)
    BY <2>1, <2>2, SameSeat, StepInOrder DEF UnderLock, Creating, HoldsMutex, PCs
  <2>3. CASE StartFails(t)
    BY <2>1, <2>3, StartEndsInOrder
  <2> QED BY <1>4, <2>2, <2>3 DEF CreateSpawn
<1>5. CASE CreateUp(t)
  BY <1>5, StartEndsInOrder DEF CreateUp, InLine
<1>6. CASE AttachDone(t)
  BY <1>6, WaitingHasNoEntry, ReturnInOrder DEF AttachDone
<1>7. CASE ProbeDone(t)
  BY <1>7, LeaveInOrder DEF ProbeDone
<1>8. CASE LaneDone(t)
  BY <1>8, WaitingHasNoEntry, PopInOrder DEF LaneDone
<1>9. CASE CloseTeardown(t)
  <2>1. ~InLine(t) /\ job[t].entry = NoEntry /\ UNCHANGED lockVars
    BY <1>9, WaitingHasNoEntry DEF CloseTeardown, Closing
  <2>2. PICK c : Step(t, "closing", [job[t] EXCEPT !.chrome = c])
    BY <1>9 DEF CloseTeardown
  <2> QED BY <2>1, <2>2, SameSeat, StepInOrder DEF PCs, Closing, HoldsMutex
<1>10. CASE CloseDone(t)
  <2>1. ~InLine(t) /\ job[t].entry = NoEntry /\ UNCHANGED lockVars
    BY <1>10, WaitingHasNoEntry DEF CloseDone, Closing
  <2> QED BY <1>10, <2>1, BeginCancelInOrder, ReturnInOrder DEF CloseDone, RemoveProfile
<1>11. CASE CancelDone(t)
  <2>1. ~InLine(t) /\ job[t].entry = NoEntry /\ UNCHANGED lockVars
    BY <1>11, WaitingHasNoEntry DEF CancelDone, Closing
  <2>2. CASE Step(t, "sweep", [job[t] EXCEPT !.chrome = warm[job[t].name], !.join = NoWarm])
    <3> DEFINE j == [job[t] EXCEPT !.chrome = warm[job[t].name], !.join = NoWarm]
    <3>1. j.entry = job[t].entry
      BY SameSeat
    <3>2. Step(t, "sweep", j)
      BY <2>2
    <3> HIDE DEF j
    <3> QED BY <2>1, <3>1, <3>2, StepInOrder DEF PCs, Closing, HoldsMutex
  <2>3. CASE RemoveProfile(t)
    BY <2>1, <2>3, ReturnInOrder DEF RemoveProfile
  <2> QED BY <1>11, <2>2, <2>3 DEF CancelDone
<1>12. CASE Sweep(t)
  BY <1>12, WaitingHasNoEntry, ReturnInOrder DEF Sweep, RemoveProfile, Closing
<1>13. CASE VerbDone(t)
  BY <1>13, LeaveInOrder DEF VerbDone
<1>14. CASE VerbCrash(t)
  <2>1. CASE Leave(t)
    BY <1>14, <2>1, LeaveInOrder DEF VerbCrash
  <2>2. CASE ~Leave(t)
    <3> DEFINE e == entries[job[t].name]
               j == [job[t] EXCEPT !.target = e, !.chrome = session[e]]
    <3>1. /\ Step(t, "healDown", j) /\ UNCHANGED <<lockVars, mutateLock>>
          /\ ~InLine(t) /\ mutateLock # t
      BY <1>0, <1>14, <2>2 DEF VerbCrash, InLine, HoldsMutex, Creating, Closing
    <3>2. j.name = job[t].name /\ j.entry = job[t].entry
      BY SameSeat
    <3> HIDE DEF j
    <3> QED BY <3>1, <3>2, StepInOrder DEF UnderLock, Healing, PCs
  <2> QED BY <2>1, <2>2
<1>15. CASE HealDown(t)
  BY <1>0, <1>15, SameSeat, StepInOrder
     DEF HealDown, InLine, UnderLock, Healing, PCs, HoldsMutex, Creating, Closing
<1>16. CASE HealSpawn(t)
  <2>1. CASE Leave(t)
    BY <1>16, <2>1, LeaveInOrder DEF HealSpawn, Healing
  <2>2. CASE ~Leave(t)
    <3>1. /\ UNCHANGED <<lockVars, mutateLock>> /\ ~InLine(t) /\ mutateLock # t
      BY <1>0, <1>16, <2>2 DEF HealSpawn, InLine, HoldsMutex, Creating, Closing
    <3>2. PICK c : Step(t, "healUp", [job[t] EXCEPT !.chrome = c])
      BY <1>16, <2>2 DEF HealSpawn
    <3> QED BY <3>1, <3>2, SameSeat, StepInOrder DEF UnderLock, Healing, PCs
  <2> QED BY <2>1, <2>2
<1>17. CASE HealUp(t)
  <2>1. CASE Leave(t)
    BY <1>17, <2>1, LeaveInOrder DEF HealUp, Healing
  <2>2. CASE ~Leave(t)
    <3>1. /\ UNCHANGED <<lockVars, mutateLock>> /\ ~InLine(t) /\ mutateLock # t
      BY <1>0, <1>17, <2>2 DEF HealUp, InLine, HoldsMutex, Creating, Closing
    <3>2. CASE \E p \in {"healUndo", "healGuard"} : Step(t, p, job[t])
      BY <3>1, <3>2, StepInOrder DEF UnderLock, Healing, PCs
    <3>3. CASE Adopt(t)
      BY <3>1, <3>3, AdoptInOrder
    <3> QED BY <1>17, <2>2, <3>2, <3>3 DEF HealUp
  <2> QED BY <2>1, <2>2
<1>18. CASE HealUndo(t)
  BY <1>18, LeaveInOrder DEF HealUndo, Healing
<1>19. CASE HealGuard(t)
  <2>1. CASE Leave(t)
    BY <1>19, <2>1, LeaveInOrder DEF HealGuard, Healing
  <2>2. CASE ~Leave(t)
    <3>1. /\ UNCHANGED <<lockVars, mutateLock>> /\ ~InLine(t) /\ mutateLock # t /\ Adopt(t)
      BY <1>0, <1>19, <2>2 DEF HealGuard, InLine, HoldsMutex, Creating, Closing
    <3> QED BY <3>1, AdoptInOrder
  <2> QED BY <2>1, <2>2
<1> QED BY <1>1, <1>2, <1>3, <1>4, <1>5, <1>6, <1>7, <1>8, <1>9, <1>10, <1>11, <1>12, <1>13, <1>14, <1>15, <1>16, <1>17, <1>18, <1>19 DEF Progress

LEMMA InitService == Init => InService
BY DEF Init, InService, InQueues, LocksTaken, MutexTaken, NamesGiven, InLine, Inside, NoJob, About

LEMMA NextService ==
  ASSUME IndInv, InService, [Next]_vars
  PROVE  InService'
<1>1. Shape /\ Rest
  BY InvIsShapeAndRest
<1>2. ASSUME NEW t \in Tasks, Request(t) \/ Acquire(t) \/ Progress(t)
      PROVE  InService'
  <2>1. OthersKept(t)
    BY <1>1, <1>2, TaskStepKeeps DEF OneKind, Quiet, Registers, Unregisters, Charges
  <2>2. InOrder(t)
    BY <1>1, <1>2, RequestInOrder, AcquiresInOrder, ProgressInOrder
  <2> QED BY <1>1, <2>1, <2>2, OrderKeepsService
<1>3. CASE UNCHANGED <<lockVars, mutateLock, pc, job>>
  BY <1>3 DEF InService, InQueues, LocksTaken, MutexTaken, NamesGiven, InLine, Inside, lockVars
<1>4. ASSUME NEW k \in WarmTasks, Prewarm(k)
      PROVE  UNCHANGED <<lockVars, mutateLock, pc, job>>
  BY <1>4 DEF Prewarm, PreSpawn, PreUp, PreDiscard, PreCancelled
<1>5. ASSUME NEW n \in Names, GoalPin(n)
      PROVE  UNCHANGED <<lockVars, mutateLock, pc, job>>
  BY <1>5 DEF GoalPin
<1>6. CASE UNCHANGED vars
  BY <1>3, <1>6 DEF vars
<1> QED BY <1>2, <1>3, <1>4, <1>5, <1>6 DEF Next

\* Who awaits the lock of a session is in its queue, once, and in no other; an
\* entry.lock or a mutate_lock that is taken is held by a request that runs
\* inside it and is to give it back: by no lost wakeup and no leaked lock can
\* a request wait for ever. It holds with unlocked closes, goals and hung
\* teardowns too; VerbsAnswered and ClosesAnswered add the fairness.
THEOREM EverybodyIsServed == Spec => []NobodyIsForgotten
<1>1. Init => IndInv /\ InService
  BY InitInv, InitService
<1>2. IndInv /\ InService /\ [Next]_vars => (IndInv /\ InService)'
  BY NextInv, NextService
<1>3. IndInv /\ InService => NobodyIsForgotten
  BY ServiceIsNobodyForgotten
<1> QED BY <1>1, <1>2, <1>3, PTL DEF Spec

==============================================================================
