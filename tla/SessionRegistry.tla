--------------------------- MODULE SessionRegistry ---------------------------
(***************************************************************************)
(* The session registry of the vibatchium daemon (daemon/registry.py) with *)
(* the operations of the dispatcher that reach it (daemon/server.py,       *)
(* daemon/handlers.py): start, auto-starting `go`, the explore lanes,      *)
(* stop/close, delete, attach, session_new with its background pre-warm,   *)
(* the probes that take both locks, and a session verb that heals a        *)
(* crashed Chrome by relaunching it.                                       *)
(*                                                                         *)
(* The daemon is one asyncio loop: a step of this model is the code a      *)
(* coroutine runs between two awaits, so every await is a change of pc.    *)
(* A SessionEntry is an object: closing and re-starting a name makes       *)
(* another entry, and a coroutine may still hold the old one.              *)
(***************************************************************************)
EXTENDS Naturals, Sequences, FiniteSets

CONSTANTS
  Names,         \* session names a client can address
  MintedNames,   \* names minted by the explore lane, `_ex-<pid>-<seq>`
  Outside,       \* user-data-dirs that are not under PROFILES_DIR
  Tasks,         \* requests being served
  WarmTasks,     \* background pre-warm coroutines
  Entries,       \* SessionEntry objects (identities)
  Chromes,       \* Chrome processes launched by the daemon
  MaxSessions, MaxEphemeral,
  OtherProfiles, \* clients start sessions on the profile of another name
  PinnedExplore, \* clients run `explore` on a named session
  GoalPins,      \* goals take ownership of running sessions
  WarmRecycle,   \* VIBATCHIUM_WARM_RECYCLE
  Stubborn,      \* a Chrome may outlive its close (hung or failed teardown)
  NoTask, NoWarm, NoEntry, NoChrome, Foreign, NoName

AllNames == Names \cup MintedNames

\* A profile under PROFILES_DIR has the name of its directory, which is that of
\* the session unless `start --profile` says otherwise.
Profiles == AllNames \cup Outside

ASSUME NamesDisjoint == Names \cap MintedNames = {} /\ Outside \cap AllNames = {}
ASSUME CapsAreNat == MaxSessions \in Nat /\ MaxEphemeral \in Nat
ASSUME FiniteNames == IsFiniteSet(AllNames)
ASSUME FlagsAreBoolean ==
  {OtherProfiles, PinnedExplore, GoalPins, WarmRecycle, Stubborn} \subseteq BOOLEAN
ASSUME AbsentValues ==
  /\ NoTask \notin Tasks /\ NoWarm \notin WarmTasks /\ NoEntry \notin Entries
  /\ NoChrome \notin Chromes /\ Foreign \notin Chromes /\ Foreign # NoChrome
  /\ NoName \notin Profiles

VARIABLES
  entries,    \* _entries: name -> SessionEntry or NoEntry
  budget,     \* entry.ephemeral; "promoted" is an ephemeral flag a goal cleared
  profile,    \* entry.profile_dir
  session,    \* entry.session: its live Chrome, NoChrome once gone, or Foreign
  walled,     \* entries whose session has a goal's nav_allowlist
  lock,       \* entry.lock: holder
  waiters,    \* entry.lock: those who await it, served in order
  mutateLock, \* registry.mutate_lock: holder
  warm,       \* _warm_sessions
  warmTask,   \* _warm_tasks, the running ones
  pre,        \* the pre-warm coroutines
  runs,       \* Chrome processes: the profile each runs on, or NoName
  stray,      \* Chromes that outlived a failed or cancelled operation
  dirs,       \* profile directories on disk
  pc, job     \* the requests

regVars == <<entries, budget, profile, session, walled>>
lockVars == <<lock, waiters>>
poolVars == <<warm, warmTask, pre>>
osVars == <<runs, stray, dirs>>
vars == <<regVars, lockVars, mutateLock, poolVars, osVars, pc, job>>

Waiting == {"startWait", "goWait", "closeWait", "deleteWait", "attachWait",
            "newWait", "probeWait"}
Creating == {"join", "drop", "spawn", "up"}
Closing == {"popped", "closing", "cancel", "sweep"}
Healing == {"healDown", "healSpawn", "healUp", "healUndo", "healGuard"}
PCs == {"idle", "laneQueue", "laneBody", "attach", "probeLock", "probe",
        "verbWait", "verb", "verbLast"}
       \cup Waiting \cup Creating \cup Closing \cup Healing

NoJob == [name |-> NoName, profile |-> NoName, want |-> "persistent", entry |-> NoEntry,
          target |-> NoEntry, chrome |-> NoChrome, join |-> NoWarm]
OffPre == [st |-> "off", name |-> NoName, profile |-> NoName, chrome |-> NoChrome]

Jobs == [name : AllNames \cup {NoName}, profile : Profiles \cup {NoName}, want : {"persistent", "ephemeral"},
         entry : Entries \cup {NoEntry}, target : Entries \cup {NoEntry},
         chrome : Chromes \cup {NoChrome}, join : WarmTasks \cup {NoWarm}]

TypeOK ==
  /\ entries \in [AllNames -> Entries \cup {NoEntry}]
  /\ budget \in [Entries -> {"persistent", "ephemeral", "promoted"}]
  /\ profile \in [Entries -> Profiles \cup {NoName}]
  /\ session \in [Entries -> Chromes \cup {NoChrome, Foreign}]
  /\ walled \subseteq Entries
  /\ lock \in [Entries -> Tasks \cup {NoTask}]
  /\ waiters \in [Entries -> Seq(Tasks)]
  /\ mutateLock \in Tasks \cup {NoTask}
  /\ warm \in [AllNames -> Chromes \cup {NoChrome}]
  /\ warmTask \in [AllNames -> WarmTasks \cup {NoWarm}]
  /\ pre \in [WarmTasks -> [st : {"off", "spawn", "up", "discard", "cancelled"},
                            name : AllNames \cup {NoName}, profile : Profiles \cup {NoName},
                            chrome : Chromes \cup {NoChrome}]]
  /\ runs \in [Chromes -> Profiles \cup {NoName}]
  /\ stray \subseteq Chromes
  /\ dirs \subseteq Profiles \cup {NoName}
  /\ pc \in [Tasks -> PCs]
  /\ job \in [Tasks -> Jobs]

Init ==
  /\ entries = [n \in AllNames |-> NoEntry]
  /\ budget = [e \in Entries |-> "persistent"]
  /\ profile = [e \in Entries |-> NoName]
  /\ session = [e \in Entries |-> NoChrome]
  /\ walled = {}
  /\ lock = [e \in Entries |-> NoTask]
  /\ waiters = [e \in Entries |-> <<>>]
  /\ mutateLock = NoTask
  /\ warm = [n \in AllNames |-> NoChrome]
  /\ warmTask = [n \in AllNames |-> NoWarm]
  /\ pre = [k \in WarmTasks |-> OffPre]
  /\ runs = [c \in Chromes |-> NoName]
  /\ stray = {}
  /\ dirs = {}
  /\ pc = [t \in Tasks |-> "idle"]
  /\ job = [t \in Tasks |-> NoJob]

------------------------------------------------------------------------------
(* Accounting (count_persistent, count_ephemeral, the pre-warm budget).      *)

Registered(n) == entries[n] # NoEntry
WithBudget(kinds) == {n \in AllNames : Registered(n) /\ budget[entries[n]] \in kinds}
CountPersistent == Cardinality(WithBudget({"persistent", "promoted"}))
CountEphemeral == Cardinality(WithBudget({"ephemeral"}))
CountWarm == Cardinality({n \in AllNames : warm[n] # NoChrome})
             + Cardinality({n \in AllNames : warmTask[n] # NoWarm})

\* create() refuses a launch at the cap of the budget it would be charged to.
AtCap(want) == IF want = "ephemeral" THEN CountEphemeral >= MaxEphemeral
               ELSE CountPersistent >= MaxSessions

(* The objects nothing refers to any more: a new one has a new identity.     *)
FreshEntries == {e \in Entries : /\ \A n \in AllNames : entries[n] # e
                                 /\ \A t \in Tasks : e \notin {job[t].entry, job[t].target}}
FreshChromes == {c \in Chromes : /\ runs[c] = NoName
                                 /\ \A t \in Tasks : job[t].chrome # c}
FreshWarmTasks == {k \in WarmTasks : /\ pre[k].st = "off"
                                     /\ \A t \in Tasks : job[t].join # k}

(* Chrome's own lock on its user-data-dir: one process per profile.          *)
ProfileFree(p) == \A c \in Chromes : runs[c] # p

Dies(c) ==
  /\ runs' = [x \in Chromes |-> IF x = c THEN NoName ELSE runs[x]]
  /\ session' = [e \in Entries |-> IF session[e] = c THEN NoChrome ELSE session[e]]
  /\ stray' = stray \ {c}

(* backends.close: the process is gone, or (Stubborn) the close failed or    *)
(* timed out, the singleton owner could not be killed, and it lives on.      *)
Teardown(c) ==
  \/ Dies(c)
  \/ /\ Stubborn /\ c \in Chromes /\ runs[c] # NoName
     /\ stray' = stray \cup {c}
     /\ UNCHANGED <<runs, session>>

Register(n, c, want, p) ==
  \E e \in FreshEntries :
    /\ entries' = [entries EXCEPT ![n] = e]
    /\ budget' = [budget EXCEPT ![e] = want]
    /\ profile' = [profile EXCEPT ![e] = p]
    /\ session' = [session EXCEPT ![e] = c]
    /\ walled' = walled \ {e}

------------------------------------------------------------------------------
(* Control.                                                                  *)

IsLane(t) == job[t].name \in MintedNames

\* The request is answered; a mutate_lock it holds is released.
Return(t) ==
  /\ pc' = [pc EXCEPT ![t] = "idle"]
  /\ job' = [job EXCEPT ![t] = NoJob]
  /\ mutateLock' = IF mutateLock = t THEN NoTask ELSE mutateLock

\* `start` returned: to the explore lane, to a `go` that is running under
\* entry.lock, or to the client.
Continue(t, next) ==
  /\ pc' = [pc EXCEPT ![t] = next]
  /\ job' = [job EXCEPT ![t] = [@ EXCEPT !.target = NoEntry, !.chrome = NoChrome,
                                         !.join = NoWarm]]
  /\ mutateLock' = IF mutateLock = t THEN NoTask ELSE mutateLock

StartWorks(t) ==
  IF IsLane(t) THEN Continue(t, "laneBody")
  ELSE IF job[t].entry # NoEntry THEN Continue(t, "verb") ELSE Return(t)

\* Mutant: the lane does not clean up after a start that failed.
StartFailsKeepsProfile(t) ==
  /\ IF ~IsLane(t) /\ job[t].entry # NoEntry THEN Continue(t, "verb") ELSE Return(t)
  /\ dirs' = dirs \cup {job[t].profile}

\* `start` raised. It has made the profile directory; the explore lane's
\* finally removes the one it minted.
StartFails(t) ==
  /\ IF ~IsLane(t) /\ job[t].entry # NoEntry THEN Continue(t, "verb") ELSE Return(t)
  /\ dirs' = IF IsLane(t) THEN dirs \ {job[t].name} ELSE dirs \cup {job[t].profile}

Step(t, next, newJob) ==
  /\ pc' = [pc EXCEPT ![t] = next]
  /\ job' = [job EXCEPT ![t] = newJob]

(* An asyncio.Lock nobody holds or awaits is taken without giving way; it    *)
(* serves its waiters in order.                                              *)
AcquireOrQueue(t, e, then, wait, newJob) ==
  \/ /\ lock[e] = NoTask /\ waiters[e] = <<>>
     /\ lock' = [lock EXCEPT ![e] = t]
     /\ Step(t, then, newJob)
     /\ UNCHANGED waiters
  \/ /\ lock[e] # NoTask \/ waiters[e] # <<>>
     /\ waiters' = [waiters EXCEPT ![e] = Append(@, t)]
     /\ Step(t, wait, newJob)
     /\ UNCHANGED lock

MyTurn(t) ==
  LET e == job[t].entry IN
  /\ lock[e] = NoTask /\ waiters[e] # <<>> /\ Head(waiters[e]) = t
  /\ waiters' = [waiters EXCEPT ![e] = Tail(@)]

\* The request is answered and its entry.lock released.
Leave(t) ==
  /\ lock' = [lock EXCEPT ![job[t].entry] = NoTask]
  /\ Return(t)
  /\ UNCHANGED waiters

------------------------------------------------------------------------------
(* Requests arrive.                                                          *)

\* What `start --profile` may launch a session on: its own directory, one
\* outside the profile store, or that of another name.
MayRunOn(n) == {n} \cup Outside \cup (IF OtherProfiles THEN Names ELSE {})

\* A request about the session n that, should it launch it, launches it on p.
About(n, p) == [NoJob EXCEPT !.name = n, !.profile = p]

\* A registry verb on a named session queues for mutate_lock.
RegistryVerb(t) ==
  /\ pc[t] = "idle"
  /\ \E n \in Names, want \in {"persistent", "ephemeral"}, verb \in Waiting \ {"goWait"} :
       \E p \in MayRunOn(n) :
         /\ want = "ephemeral" \/ p # n => verb = "startWait"
         /\ Step(t, verb, [About(n, p) EXCEPT !.want = want])
  /\ UNCHANGED <<regVars, lockVars, mutateLock, poolVars, osVars>>

\* `go` on a session that is not running: the dispatcher runs the handler,
\* which queues for mutate_lock to start one.
GoUnstarted(t) ==
  /\ pc[t] = "idle"
  /\ \E n \in Names : ~Registered(n) /\ Step(t, "goWait", About(n, n))
  /\ UNCHANGED <<regVars, lockVars, mutateLock, poolVars, osVars>>

\* explore without a pinned session mints a name and queues for a slot.
Explore(t) ==
  /\ pc[t] = "idle"
  /\ \E n \in MintedNames \ dirs :
       /\ ~Registered(n) /\ \A u \in Tasks : job[u].name # n
       /\ Step(t, "laneQueue", [About(n, n) EXCEPT !.want = "ephemeral"])
  /\ UNCHANGED <<regVars, lockVars, mutateLock, poolVars, osVars>>

\* A slot looks free, or the queueing deadline has passed: try to start.
LaneTry(t) ==
  /\ pc[t] = "laneQueue"
  /\ Step(t, "startWait", job[t])
  /\ UNCHANGED <<regVars, lockVars, mutateLock, poolVars, osVars>>

------------------------------------------------------------------------------
(* start and create (under mutate_lock).                                     *)

\* Mutant: the claimed Chrome stays in the warm pool (get for pop).
TakeWarmKeepsParked(t) ==
  LET n == job[t].name  c == warm[n]  p == job[t].profile IN
  \/ /\ c # NoChrome /\ runs[c] = p
     /\ Register(n, c, job[t].want, p)
     /\ StartWorks(t)
     /\ dirs' = dirs \cup {p}
     /\ UNCHANGED <<lockVars, poolVars, runs, stray>>
  \/ /\ c = NoChrome
     /\ Step(t, "spawn", [job[t] EXCEPT !.join = NoWarm])
     /\ mutateLock' = t
     /\ dirs' = dirs \cup {p}
     /\ UNCHANGED <<regVars, lockVars, poolVars, runs, stray>>

\* The warm-claim of create(): a warm Chrome that fits the request is adopted,
\* one that does not is closed first; without one, unless free memory is below
\* the admission floor, a Chrome is launched. The profile directory is there.
TakeWarm(t) ==
  LET n == job[t].name  c == warm[n]  p == job[t].profile IN
  \/ /\ c # NoChrome /\ runs[c] = p
     /\ Register(n, c, job[t].want, p)
     /\ warm' = [warm EXCEPT ![n] = NoChrome]
     /\ StartWorks(t)
     /\ dirs' = dirs \cup {p}
     /\ UNCHANGED <<lockVars, warmTask, pre, runs, stray>>
  \/ /\ c # NoChrome
     /\ warm' = [warm EXCEPT ![n] = NoChrome]
     /\ Step(t, "drop", [job[t] EXCEPT !.chrome = c, !.join = NoWarm])
     /\ mutateLock' = t
     /\ dirs' = dirs \cup {p}
     /\ UNCHANGED <<regVars, lockVars, warmTask, pre, runs, stray>>
  \/ /\ c = NoChrome
     /\ Step(t, "spawn", [job[t] EXCEPT !.join = NoWarm])
     /\ mutateLock' = t
     /\ dirs' = dirs \cup {p}
     /\ UNCHANGED <<regVars, lockVars, poolVars, runs, stray>>
  \/ /\ c = NoChrome
     /\ StartFails(t)
     /\ UNCHANGED <<regVars, lockVars, poolVars, runs, stray>>

\* create() up to its first await, mutate_lock taken. A lane refused at the
\* cap goes back in line or, past its deadline, gives up.
Create(t) ==
  LET n == job[t].name  p == job[t].profile IN
  \/ /\ AtCap(job[t].want)
     /\ \/ StartFails(t)
        \/ /\ IsLane(t)
           /\ Step(t, "laneQueue", job[t])
           /\ dirs' = dirs \cup {p}
           /\ UNCHANGED mutateLock
     /\ UNCHANGED <<regVars, lockVars, poolVars, runs, stray>>
  \/ /\ ~AtCap(job[t].want)
     /\ warmTask[n] # NoWarm
     /\ warmTask' = [warmTask EXCEPT ![n] = NoWarm]
     /\ Step(t, "join", [job[t] EXCEPT !.join = warmTask[n]])
     /\ mutateLock' = t
     /\ dirs' = dirs \cup {p}
     /\ UNCHANGED <<regVars, lockVars, warm, pre, runs, stray>>
  \/ /\ ~AtCap(job[t].want)
     /\ warmTask[n] = NoWarm
     /\ TakeWarm(t)

\* `start --ephemeral` on a running session charges it to the other budget.
Reclassify(t) ==
  LET e == entries[job[t].name] IN
  IF job[t].want = "ephemeral" /\ budget[e] # "ephemeral" /\ CountEphemeral < MaxEphemeral
  THEN budget' = [budget EXCEPT ![e] = "ephemeral"]
  ELSE UNCHANGED budget

StartLocked(t) ==
  /\ pc[t] = "startWait" /\ mutateLock = NoTask
  /\ \/ /\ Registered(job[t].name)
        /\ Reclassify(t)
        /\ Return(t)
        /\ UNCHANGED <<entries, profile, session, walled, lockVars, poolVars, osVars>>
     \/ /\ ~Registered(job[t].name)
        /\ Create(t)

\* Mutant: the auto-start of `go` does not take mutate_lock.
GoUnlocked(t) ==
  /\ pc[t] = "goWait"
  /\ ~Registered(job[t].name)
  /\ Create(t)

\* `go`, double-checked under the lock.
GoLocked(t) ==
  /\ pc[t] = "goWait" /\ mutateLock = NoTask
  /\ \/ /\ Registered(job[t].name)
        /\ StartWorks(t)
        /\ UNCHANGED <<regVars, lockVars, poolVars, osVars>>
     \/ /\ ~Registered(job[t].name)
        /\ Create(t)

JoinDone(t) ==
  /\ pc[t] = "join" /\ pre[job[t].join].st = "off"
  /\ TakeWarm(t)

DropDone(t) ==
  /\ pc[t] = "drop"
  /\ Teardown(job[t].chrome)
  /\ Step(t, "spawn", [job[t] EXCEPT !.chrome = NoChrome])
  /\ UNCHANGED <<entries, budget, profile, walled, lockVars, mutateLock, poolVars, dirs>>

\* A launch needs the profile to itself; it recreates the directory.
CreateSpawn(t) ==
  /\ pc[t] = "spawn"
  /\ \/ /\ ProfileFree(job[t].profile)
        /\ \E c \in FreshChromes :
             /\ runs' = [runs EXCEPT ![c] = job[t].profile]
             /\ Step(t, "up", [job[t] EXCEPT !.chrome = c])
        /\ dirs' = dirs \cup {job[t].profile}
        /\ UNCHANGED mutateLock
     \/ /\ StartFails(t)
        /\ UNCHANGED runs
  /\ UNCHANGED <<regVars, lockVars, poolVars, stray>>

\* The launch is up and is registered, or it failed after the process existed.
CreateUp(t) ==
  /\ pc[t] = "up"
  /\ \/ /\ Register(job[t].name, job[t].chrome, job[t].want, job[t].profile)
        /\ StartWorks(t)
        /\ UNCHANGED osVars
     \/ /\ Dies(job[t].chrome)
        /\ StartFails(t)
        /\ UNCHANGED <<entries, budget, profile, walled>>
  /\ UNCHANGED <<lockVars, poolVars>>

------------------------------------------------------------------------------
(* attach                                                                    *)

AttachLocked(t) ==
  /\ pc[t] = "attachWait" /\ mutateLock = NoTask
  /\ \/ /\ Registered(job[t].name) \/ CountPersistent >= MaxSessions
        /\ Return(t)
     \/ /\ ~Registered(job[t].name) /\ CountPersistent < MaxSessions
        /\ Step(t, "attach", job[t])
        /\ mutateLock' = t
  /\ UNCHANGED <<regVars, lockVars, poolVars, osVars>>

\* Mutant: an attach that fails keeps mutate_lock.
AttachKeepsLock(t) ==
  /\ pc[t] = "attach"
  /\ pc' = [pc EXCEPT ![t] = "idle"] /\ job' = [job EXCEPT ![t] = NoJob]
  /\ UNCHANGED <<regVars, lockVars, mutateLock, poolVars, osVars>>

AttachDone(t) ==
  /\ pc[t] = "attach"
  /\ \/ /\ Register(job[t].name, Foreign, "persistent", job[t].name)
        /\ dirs' = dirs \cup {job[t].name}
     \/ UNCHANGED <<regVars, dirs>>
  /\ Return(t)
  /\ UNCHANGED <<lockVars, poolVars, runs, stray>>

------------------------------------------------------------------------------
(* The warm pool: schedule_prewarm and its background coroutine.             *)

MaySchedule(n) ==
  /\ warm[n] = NoChrome /\ warmTask[n] = NoWarm /\ ~Registered(n)
  /\ CountPersistent + CountWarm < MaxSessions

\* The memory floor may refuse, or VIBATCHIUM_WARM may be off.
Schedule(n, p) ==
  \/ /\ MaySchedule(n)
     /\ \E k \in FreshWarmTasks :
          /\ warmTask' = [warmTask EXCEPT ![n] = k]
          /\ pre' = [pre EXCEPT ![k] = [OffPre EXCEPT !.st = "spawn", !.name = n,
                                                         !.profile = p]]
     /\ UNCHANGED warm
  \/ UNCHANGED poolVars

NewLocked(t) ==
  /\ pc[t] = "newWait" /\ mutateLock = NoTask
  /\ Return(t)
  /\ dirs' = dirs \cup {job[t].name}
  /\ UNCHANGED <<regVars, lockVars, runs, stray>>
  /\ Schedule(job[t].name, job[t].name)

\* The pre-warm coroutine ends; a done task no longer counts as in flight.
PreEnds(k) ==
  /\ pre' = [pre EXCEPT ![k] = OffPre]
  /\ warmTask' = [n \in AllNames |-> IF warmTask[n] = k THEN NoWarm ELSE warmTask[n]]

PreSpawn(k) ==
  LET p == pre[k].profile IN
  /\ pre[k].st = "spawn"
  /\ \/ /\ ProfileFree(p)
        /\ \E c \in FreshChromes :
             /\ runs' = [runs EXCEPT ![c] = p]
             /\ pre' = [pre EXCEPT ![k].st = "up", ![k].chrome = c]
        /\ dirs' = dirs \cup {p}
        /\ UNCHANGED warmTask
     \/ /\ PreEnds(k)
        /\ UNCHANGED <<runs, dirs>>
  /\ UNCHANGED <<regVars, lockVars, mutateLock, warm, stray, pc, job>>

\* The launch is up: parked if the name is still unclaimed, else discarded.
PreUp(k) ==
  LET n == pre[k].name IN
  /\ pre[k].st = "up"
  /\ \/ /\ ~Registered(n) /\ warm[n] = NoChrome
        /\ warm' = [warm EXCEPT ![n] = pre[k].chrome]
        /\ PreEnds(k)
        /\ UNCHANGED <<session, runs, stray>>
     \/ /\ Registered(n) \/ warm[n] # NoChrome
        /\ pre' = [pre EXCEPT ![k].st = "discard"]
        /\ UNCHANGED <<session, warm, warmTask, runs, stray>>
     \/ /\ Dies(pre[k].chrome)
        /\ PreEnds(k)
        /\ UNCHANGED warm
  /\ UNCHANGED <<entries, budget, profile, walled, lockVars, mutateLock, dirs, pc, job>>

PreDiscard(k) ==
  /\ pre[k].st = "discard"
  /\ Teardown(pre[k].chrome)
  /\ PreEnds(k)
  /\ UNCHANGED <<entries, budget, profile, walled, lockVars, mutateLock, warm, dirs, pc, job>>

\* A cancelled launch or discard: the process dies with the coroutine or not.
PreCancelled(k) ==
  /\ pre[k].st = "cancelled"
  /\ Teardown(pre[k].chrome)
  /\ PreEnds(k)
  /\ UNCHANGED <<entries, budget, profile, walled, lockVars, mutateLock, warm, dirs, pc, job>>

------------------------------------------------------------------------------
(* close, delete_profile_dir and cancel_prewarm.                             *)

\* close() up to its first await: the entry is out of the registry at once.
Pop(t, n, doing) ==
  /\ entries' = [entries EXCEPT ![n] = NoEntry]
  /\ Step(t, "popped", [doing EXCEPT !.name = n, !.target = entries[n],
                                      !.profile = profile[entries[n]]])
  /\ UNCHANGED <<budget, profile, session, walled, lockVars, poolVars, osVars>>

CloseLocked(t) ==
  /\ pc[t] = "closeWait" /\ mutateLock = NoTask
  /\ \/ /\ Registered(job[t].name)
        /\ Pop(t, job[t].name, job[t])
        /\ mutateLock' = t
     \/ /\ ~Registered(job[t].name)
        /\ Return(t)
        /\ UNCHANGED <<regVars, lockVars, poolVars, osVars>>

\* A pinned explore ends with the stop handler, without mutate_lock. Its turn
\* keeps other pinned explores of that name away until the close is done.
PinnedStop(t) ==
  /\ PinnedExplore /\ pc[t] = "idle"
  /\ \E n \in Names :
       /\ Registered(n)
       /\ \A u \in Tasks : pc[u] \in Closing /\ job[u].name = n => mutateLock = u
       /\ Pop(t, n, NoJob)
  /\ UNCHANGED mutateLock

\* The lane closes its own session, without mutate_lock.
LaneDone(t) ==
  /\ pc[t] = "laneBody" /\ Registered(job[t].name)
  /\ Pop(t, job[t].name, job[t])
  /\ UNCHANGED mutateLock

\* Thawed and its handles disposed, the entry's session (as it is now) is torn
\* down.
CloseTeardown(t) ==
  LET c == session[job[t].target] IN
  /\ pc[t] = "popped"
  /\ Step(t, "closing", [job[t] EXCEPT !.chrome = IF c = Foreign THEN NoChrome ELSE c])
  /\ UNCHANGED <<regVars, lockVars, mutateLock, poolVars, osVars>>

\* _within_profiles_dir: nothing outside the profile store is removed.
RemoveProfile(t) ==
  /\ dirs' = dirs \ ({job[t].profile} \ Outside)
  /\ Return(t)

\* Mutant: a pre-warm still launching is overlooked.
HasParked(n) == warm[n] # NoChrome

HasPrewarm(n) == warm[n] # NoChrome \/ warmTask[n] # NoWarm

\* cancel_prewarm: the running coroutine is cancelled and awaited, then a
\* parked Chrome is closed.
BeginCancel(t) ==
  LET n == job[t].name  k == warmTask[n] IN
  IF k # NoWarm
  THEN /\ warmTask' = [warmTask EXCEPT ![n] = NoWarm]
       /\ pre' = [pre EXCEPT ![k].st = "cancelled"]
       /\ Step(t, "cancel", [job[t] EXCEPT !.join = k, !.chrome = NoChrome])
       /\ UNCHANGED warm
  ELSE /\ warm' = [warm EXCEPT ![n] = NoChrome]
       /\ Step(t, "sweep", [job[t] EXCEPT !.chrome = warm[n]])
       /\ UNCHANGED <<warmTask, pre>>

\* The Chrome is down. An ephemeral session's profile goes with it, once no
\* pre-warm of its name can write there, unless it is outside the profile store;
\* a session that is not ephemeral may be recycled into the warm pool.
CloseDone(t) ==
  LET n == job[t].name  p == job[t].profile
      ephemeral == budget[job[t].target] = "ephemeral"
  IN
  /\ pc[t] = "closing"
  /\ Teardown(job[t].chrome)
  /\ \/ /\ ephemeral /\ p \notin Outside /\ HasPrewarm(n)
        /\ BeginCancel(t)
        /\ UNCHANGED <<mutateLock, dirs>>
     \/ /\ ephemeral /\ p \notin Outside /\ ~HasPrewarm(n)
        /\ RemoveProfile(t)
        /\ UNCHANGED poolVars
     \/ /\ ~ephemeral \/ p \in Outside
        /\ Return(t)
        /\ IF WarmRecycle /\ ~ephemeral THEN Schedule(n, p) ELSE UNCHANGED poolVars
        /\ UNCHANGED dirs
  /\ UNCHANGED <<entries, budget, profile, walled, lockVars>>

CancelDone(t) ==
  LET n == job[t].name IN
  /\ pc[t] = "cancel" /\ pre[job[t].join].st = "off"
  /\ \/ /\ warm[n] # NoChrome
        /\ warm' = [warm EXCEPT ![n] = NoChrome]
        /\ Step(t, "sweep", [job[t] EXCEPT !.chrome = warm[n], !.join = NoWarm])
        /\ UNCHANGED <<mutateLock, dirs>>
     \/ /\ warm[n] = NoChrome
        /\ RemoveProfile(t)
        /\ UNCHANGED warm
  /\ UNCHANGED <<regVars, lockVars, warmTask, pre, runs, stray>>

Sweep(t) ==
  /\ pc[t] = "sweep"
  /\ Teardown(job[t].chrome)
  /\ RemoveProfile(t)
  /\ UNCHANGED <<entries, budget, profile, walled, lockVars, poolVars>>

DeleteLocked(t) ==
  /\ pc[t] = "deleteWait" /\ mutateLock = NoTask
  /\ \/ /\ Registered(job[t].name)
        /\ Return(t)
        /\ UNCHANGED <<poolVars, dirs>>
     \/ /\ ~Registered(job[t].name) /\ HasPrewarm(job[t].name)
        /\ BeginCancel(t)
        /\ mutateLock' = t
        /\ UNCHANGED dirs
     \/ /\ ~Registered(job[t].name) /\ ~HasPrewarm(job[t].name)
        /\ RemoveProfile(t)
        /\ UNCHANGED poolVars
  /\ UNCHANGED <<regVars, lockVars, runs, stray>>

------------------------------------------------------------------------------
(* geo_info and gpu_info: under mutate_lock they take entry.lock as well.    *)

ProbeLocked(t) ==
  LET n == job[t].name  e == entries[n] IN
  /\ pc[t] = "probeWait" /\ mutateLock = NoTask
  /\ \/ /\ ~Registered(n)
        /\ Return(t)
        /\ dirs' = dirs \cup {n}
        /\ UNCHANGED lockVars
     \/ /\ Registered(n)
        /\ mutateLock' = t
        /\ AcquireOrQueue(t, e, "probe", "probeLock", [job[t] EXCEPT !.entry = e])
        /\ UNCHANGED dirs
  /\ UNCHANGED <<regVars, poolVars, runs, stray>>

ProbeRun(t) ==
  /\ pc[t] = "probeLock" /\ MyTurn(t)
  /\ lock' = [lock EXCEPT ![job[t].entry] = t]
  /\ Step(t, "probe", job[t])
  /\ UNCHANGED <<regVars, mutateLock, poolVars, osVars>>

\* Mutant: the probe answers without releasing entry.lock.
ProbeKeepsLock(t) ==
  /\ pc[t] = "probe"
  /\ Return(t)
  /\ UNCHANGED <<regVars, lockVars, poolVars, osVars>>

ProbeDone(t) ==
  /\ pc[t] = "probe"
  /\ Leave(t)
  /\ UNCHANGED <<regVars, poolVars, osVars>>

------------------------------------------------------------------------------
(* Session verbs, under entry.lock.                                          *)

\* The dispatcher looked the entry up; the verb queues on that entry's lock.
VerbArrive(t) ==
  /\ pc[t] = "idle"
  /\ \E n \in Names :
       /\ Registered(n)
       /\ AcquireOrQueue(t, entries[n], "verb", "verbWait",
                         [About(n, n) EXCEPT !.entry = entries[n]])
  /\ UNCHANGED <<regVars, mutateLock, poolVars, osVars>>

\* Mutant: a verb under entry.lock goes for mutate_lock, its session running.
VerbRunInverted(t) ==
  /\ pc[t] = "verbWait" /\ MyTurn(t)
  /\ lock' = [lock EXCEPT ![job[t].entry] = t]
  /\ Step(t, "goWait", job[t])
  /\ UNCHANGED <<regVars, mutateLock, poolVars, osVars>>

\* The handler looks the session up again by name. When it is gone, a `go`
\* starts one, with entry.lock held; any other verb fails.
VerbRun(t) ==
  /\ pc[t] = "verbWait" /\ MyTurn(t)
  /\ \/ /\ Registered(job[t].name)
        /\ lock' = [lock EXCEPT ![job[t].entry] = t]
        /\ Step(t, "verb", job[t])
        /\ UNCHANGED mutateLock
     \/ /\ ~Registered(job[t].name)
        /\ lock' = [lock EXCEPT ![job[t].entry] = t]
        /\ Step(t, "goWait", job[t])
        /\ UNCHANGED mutateLock
     \/ /\ ~Registered(job[t].name)
        /\ Return(t)
        /\ UNCHANGED lock
  /\ UNCHANGED <<regVars, poolVars, osVars>>

VerbDone(t) ==
  /\ pc[t] \in {"verb", "verbLast"}
  /\ Leave(t)
  /\ UNCHANGED <<regVars, poolVars, osVars>>

\* relaunch() refuses a session that is gone, or that is someone else's Chrome.
Relaunchable(n) == Registered(n) /\ session[entries[n]] # Foreign

\* The browser died under the verb: relaunch(name), up to its first await.
VerbCrash(t) ==
  LET e == entries[job[t].name] IN
  /\ pc[t] = "verb"
  /\ \/ /\ ~Relaunchable(job[t].name)
        /\ Leave(t)
     \/ /\ Relaunchable(job[t].name)
        /\ Step(t, "healDown", [job[t] EXCEPT !.target = e, !.chrome = session[e]])
        /\ UNCHANGED <<lockVars, mutateLock>>
  /\ UNCHANGED <<regVars, poolVars, osVars>>

HealDown(t) ==
  /\ pc[t] = "healDown"
  /\ Teardown(job[t].chrome)
  /\ Step(t, "healSpawn", [job[t] EXCEPT !.chrome = NoChrome])
  /\ UNCHANGED <<entries, budget, profile, walled, lockVars, mutateLock, poolVars, dirs>>

HealSpawn(t) ==
  LET p == profile[job[t].target] IN
  /\ pc[t] = "healSpawn"
  /\ \/ /\ ProfileFree(p)
        /\ \E c \in FreshChromes :
             /\ runs' = [runs EXCEPT ![c] = p]
             /\ Step(t, "healUp", [job[t] EXCEPT !.chrome = c])
        /\ dirs' = dirs \cup {p}
        /\ UNCHANGED <<lockVars, mutateLock>>
     \/ /\ Leave(t)
        /\ UNCHANGED <<runs, dirs>>
  /\ UNCHANGED <<regVars, poolVars, stray>>

Adopt(t) ==
  /\ session' = [session EXCEPT ![job[t].target] = job[t].chrome]
  /\ Step(t, "verbLast", [job[t] EXCEPT !.target = NoEntry, !.chrome = NoChrome])

\* Mutant: relaunch() does not re-check the entry after its launch.
OwnsUnchecked(t) == TRUE

Owns(t) == entries[job[t].name] = job[t].target

\* The launch is up: the entry may have been closed meanwhile, and a goal's
\* domain wall must be re-armed on the new browser before it is adopted. Or
\* the launch failed, or was cancelled at its time limit.
HealUp(t) ==
  /\ pc[t] = "healUp"
  /\ \/ /\ ~Owns(t)
        /\ Step(t, "healUndo", job[t])
        /\ UNCHANGED <<session, lockVars, mutateLock, runs, stray>>
     \/ /\ Owns(t) /\ job[t].target \in walled
        /\ Step(t, "healGuard", job[t])
        /\ UNCHANGED <<session, lockVars, mutateLock, runs, stray>>
     \/ /\ Owns(t) /\ job[t].target \notin walled
        /\ Adopt(t)
        /\ UNCHANGED <<lockVars, mutateLock, runs, stray>>
     \/ Teardown(job[t].chrome) /\ Leave(t)
  /\ UNCHANGED <<entries, budget, profile, walled, poolVars, dirs>>

HealUndo(t) ==
  /\ pc[t] = "healUndo"
  /\ Teardown(job[t].chrome)
  /\ Leave(t)
  /\ UNCHANGED <<entries, budget, profile, walled, poolVars, dirs>>

\* The wall is armed and the browser adopted, whoever owns the name by now; or
\* arming it raised and relaunch() gave up.
HealGuard(t) ==
  /\ pc[t] = "healGuard"
  /\ \/ /\ Adopt(t)
        /\ walled' = walled \cup {job[t].target}
        /\ UNCHANGED <<lockVars, mutateLock>>
     \/ /\ Leave(t)
        /\ UNCHANGED <<session, walled>>
  /\ UNCHANGED <<entries, budget, profile, poolVars, osVars>>

\* A goal takes or releases the session (caps_cb, domains_cb): it may raise or
\* drop the domain wall, and the profile must outlive the session.
GoalPin(n) ==
  LET e == entries[n] IN
  /\ GoalPins /\ Registered(n)
  /\ budget' = IF budget[e] = "ephemeral" THEN [budget EXCEPT ![e] = "promoted"] ELSE budget
  /\ \E w \in {walled \cup {e}, walled \ {e}} : walled' = w
  /\ UNCHANGED <<entries, profile, session, lockVars, mutateLock, poolVars, osVars, pc, job>>

------------------------------------------------------------------------------
(* The daemon.                                                               *)

Request(t) ==
  RegistryVerb(t) \/ GoUnstarted(t) \/ Explore(t) \/ VerbArrive(t) \/ PinnedStop(t)

Acquire(t) ==
  \/ StartLocked(t) \/ GoLocked(t) \/ AttachLocked(t) \/ NewLocked(t)
  \/ CloseLocked(t) \/ DeleteLocked(t) \/ ProbeLocked(t)
  \/ ProbeRun(t) \/ VerbRun(t)

Progress(t) ==
  \/ LaneTry(t) \/ JoinDone(t) \/ DropDone(t) \/ CreateSpawn(t) \/ CreateUp(t)
  \/ AttachDone(t) \/ ProbeDone(t)
  \/ LaneDone(t) \/ CloseTeardown(t) \/ CloseDone(t) \/ CancelDone(t) \/ Sweep(t)
  \/ VerbDone(t) \/ VerbCrash(t)
  \/ HealDown(t) \/ HealSpawn(t) \/ HealUp(t) \/ HealUndo(t) \/ HealGuard(t)

Prewarm(k) == PreSpawn(k) \/ PreUp(k) \/ PreDiscard(k) \/ PreCancelled(k)

Next ==
  \/ \E t \in Tasks : Request(t) \/ Acquire(t) \/ Progress(t)
  \/ \E k \in WarmTasks : Prewarm(k)
  \/ \E n \in Names : GoalPin(n)

\* Where a request awaits the driver without a time-out: the close of a warm
\* Chrome (create's, cancel_prewarm's), a launch by create(), attach, the body of a
\* lane, the disposal of handles, and whatever a probe or a verb asks its page. The
\* other awaits are bounded: close() and relaunch() give their calls a wait_for, a
\* lane in line has its deadline, and a pre-warm that is joined or cancelled ends
\* or does not.
UntimedCalls ==
  {"drop", "spawn", "up", "attach", "laneBody", "popped", "sweep", "probe", "verb",
   "verbLast", "healGuard"}

\* The loop runs every ready coroutine, hence WF wherever an await is bounded. An
\* asyncio.Lock serves its waiters in arrival order, so a request that can take its
\* lock again and again takes it: SF. Nothing forces requests, goals or crashes, and
\* nothing an untimed call or the coroutine of a pre-warm to end.
Fairness ==
  \A t \in Tasks :
    WF_vars(pc[t] \notin UntimedCalls /\ Progress(t)) /\ SF_vars(Acquire(t))

Spec == Init /\ [][Next]_vars
FairSpec == Spec /\ Fairness

------------------------------------------------------------------------------
(* Correctness.                                                              *)

\* While one request is creating a session (its checks made, its Chrome
\* launching across several awaits), no other request inserts that name: the
\* check-then-insert of create() and attach() is one step for the registry.
OneCreator ==
  \A t \in Tasks : pc[t] \in Creating \cup {"attach"} =>
    /\ mutateLock = t
    /\ ~Registered(job[t].name)

\* A registered session is never replaced by another one: it leaves the
\* registry first (create() refuses a running name).
EntryNeverOverwritten ==
  [][\A n \in AllNames : Registered(n) => entries'[n] \in {entries[n], NoEntry}]_vars

\* Sessions charged to MAX_SESSIONS stay within it, and ephemeral ones within
\* MAX_EPHEMERAL, whatever is launching; sessions a goal promoted out of the
\* ephemeral budget (caps_cb makes no check) are not counted.
BudgetsRespected ==
  /\ Cardinality(WithBudget({"persistent"})) <= MaxSessions
  /\ CountEphemeral <= MaxEphemeral

\* Every Chrome the daemon started is some registered session's, or in the
\* hands of the operation that will adopt or close it, or in the warm pool, or
\* is one its close could not kill: no await loses one.
EveryChromeOwned ==
  \A c \in Chromes : runs[c] # NoName =>
    \/ c \in stray
    \/ \E n \in AllNames : warm[n] = c \/ (Registered(n) /\ session[entries[n]] = c)
    \/ \E k \in WarmTasks : pre[k].chrome = c
    \/ \E t \in Tasks :
         \/ job[t].chrome = c
         \/ pc[t] = "popped" /\ session[job[t].target] = c

\* Two sessions never share a Chrome, nor the warm pool and a session.
ChromesNotShared ==
  \A n, m \in AllNames :
    LET held(x) == {warm[x]} \cup (IF Registered(x) THEN {session[entries[x]]} ELSE {})
    IN  /\ n # m => held(n) \cap held(m) \cap Chromes = {}
        /\ Registered(n) => warm[n] = NoChrome \/ session[entries[n]] # warm[n]

\* The explore lane leaves nothing: a profile directory under a minted name
\* belongs to an explore that is still running.
LaneLeavesNothing ==
  \A n \in MintedNames \cap dirs : \E t \in Tasks : job[t].name = n

\* A profile is not removed under a session that runs on it, a parked or
\* launching pre-warm, or a session being created on it.
ProfileOutlivesSession ==
  [][\A p \in dirs \ dirs' :
       /\ \A n \in AllNames :
            /\ Registered(n) => profile[entries[n]] # p
            /\ warm'[n] # NoChrome => runs'[warm'[n]] # p
            /\ warmTask'[n] # NoWarm => pre'[warmTask'[n]].profile # p
       /\ \A t \in Tasks : job'[t].profile = p => pc[t] \notin Creating]_vars

\* The browsers answer: no untimed call, and no pre-warm, is awaited for ever. The
\* code does not see to that: a wedged page holds the locks of what awaits it.
BrowsersAnswer ==
  /\ \A t \in Tasks : []<>(pc[t] \notin UntimedCalls)
  /\ \A k \in WarmTasks : []<>(pre[k].st = "off")

\* If the browsers answer, a session verb queued on entry.lock is answered, crash
\* recovery and a session closed under it included.
VerbsAnswered ==
  BrowsersAnswer => \A t \in Tasks : pc[t] \in {"verbWait", "verb"} ~> pc[t] = "idle"

\* If the browsers answer, a close that was accepted ends, whatever is being
\* pre-warmed or probed.
ClosesAnswered ==
  BrowsersAnswer => \A t \in Tasks : pc[t] \in Closing \cup {"closeWait"} ~> pc[t] = "idle"

\* No request holds mutate_lock and waits for an entry.lock whose holder waits
\* for mutate_lock.
NoDeadlyEmbrace ==
  \A t, u \in Tasks :
    ~ /\ pc[t] = "goWait" /\ job[t].entry # NoEntry
      /\ pc[u] = "probeLock" /\ job[u].entry = job[t].entry

\* Who awaits an entry.lock, and who runs under it: a verb, the recovery or the
\* start it makes, and a probe.
InLine(t) == pc[t] \in {"verbWait", "probeLock"}
Inside(t) == job[t].entry # NoEntry /\ ~InLine(t)
UnderLock == {"goWait", "verb", "verbLast", "probe"} \cup Creating \cup Healing

\* Nobody waits for what nobody gives: who awaits an entry.lock stands in its
\* queue, once, and in no other; a lock that is taken, entry.lock or
\* mutate_lock, is held by a request that runs inside it.
NobodyIsForgotten ==
  /\ \A e \in Entries : \A i \in DOMAIN waiters[e] :
       InLine(waiters[e][i]) /\ job[waiters[e][i]].entry = e
  /\ \A e \in Entries : \A i, j \in DOMAIN waiters[e] : waiters[e][i] = waiters[e][j] => i = j
  /\ \A t \in Tasks : InLine(t) =>
       \E i \in DOMAIN waiters[job[t].entry] : waiters[job[t].entry][i] = t
  /\ \A e \in Entries : lock[e] # NoTask => job[lock[e]].entry = e /\ Inside(lock[e])
  /\ \A t \in Tasks : Inside(t) =>
       lock[job[t].entry] = t /\ pc[t] \in UnderLock /\ job[t].name \in Names
  /\ mutateLock # NoTask =>
       pc[mutateLock] \in Creating \cup Closing \cup {"attach", "probeLock", "probe"}

------------------------------------------------------------------------------
(* The inductive invariant.                                                  *)

\* What a stage of a request knows about its job.
MatchesStage(stage, j) ==
  /\ stage # "idle" => j.name \in AllNames
  /\ stage \in {"popped", "closing"} \cup Healing => j.target \in Entries
  /\ stage \in {"verbWait", "verb", "verbLast", "probe", "probeLock"} \cup Healing =>
       j.entry \in Entries
  /\ stage \in {"attachWait", "attach"} => j.want = "persistent"

JobsMatchStage ==
  /\ \A t \in Tasks : MatchesStage(pc[t], job[t])
  /\ \A k \in WarmTasks : pre[k].st # "off" => pre[k].name \in AllNames
  /\ \A n \in AllNames : warmTask[n] # NoWarm =>
       pre[warmTask[n]].st # "off" /\ pre[warmTask[n]].name = n

\* An entry is registered under one name; a request that still refers to it
\* addressed it by that name.
EntriesKeepName ==
  /\ \A n, m \in AllNames : Registered(n) /\ entries[n] = entries[m] => n = m
  /\ \A t \in Tasks, n \in AllNames :
       Registered(n) /\ job[t].entry = entries[n] => n = job[t].name

\* A session being created has its slot until it is registered.
HasRoom(want) ==
  IF want = "ephemeral" THEN CountEphemeral < MaxEphemeral
  ELSE Cardinality(WithBudget({"persistent"})) < MaxSessions

CreatorHasRoom ==
  \A t \in Tasks : pc[t] \in Creating \cup {"attach"} => HasRoom(job[t].want)

IndInv ==
  TypeOK /\ JobsMatchStage /\ EntriesKeepName /\ OneCreator
  /\ CreatorHasRoom /\ BudgetsRespected

\* Without unlocked closes: what a probe waits for stays registered, and a
\* `go` that waits under an entry.lock holds that of a session that is gone.
LocksApart ==
  \A t \in Tasks :
    /\ pc[t] = "probeLock" =>
         /\ mutateLock = t /\ job[t].name \in Names
         /\ entries[job[t].name] = job[t].entry
    /\ pc[t] = "probeWait" => job[t].name \in Names
    /\ pc[t] \in {"laneQueue", "laneBody"} => IsLane(t)
    /\ pc[t] = "goWait" /\ job[t].entry # NoEntry =>
         \A n \in AllNames : entries[n] # job[t].entry

==============================================================================
