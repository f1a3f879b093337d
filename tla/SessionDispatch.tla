--------------------------- MODULE SessionDispatch ---------------------------
(***************************************************************************)
(* What the dispatcher (daemon/server.py) does around the verbs of one     *)
(* session: the lease gate, entry.lock with its FIFO of waiters, in-flight *)
(* counts of the unlocked page waits, crash recovery with one retry, the   *)
(* idle freezer that SIGSTOPs a parked Chrome (daemon/freeze.py), and the  *)
(* reaper of abandoned agent sessions.                                     *)
(*                                                                         *)
(* One action is the code between two awaits.  An asyncio.Lock that is     *)
(* released with waiters is unlocked until the first of them runs, and     *)
(* `locked()` then says so.  Closing and re-starting the session makes a   *)
(* new SessionEntry on the same profile directory while others may still   *)
(* hold the old one.                                                       *)
(***************************************************************************)
EXTENDS Naturals, Sequences, FiniteSets

CONSTANTS
  Tasks,        \* requests being served
  Clients,      \* who sends them; a client presents its own lease token
  Entries,      \* SessionEntry objects
  Chromes,      \* Chrome processes launched on the session's profile
  Freezer, Reaper, Nobody, NoEntry, NoChrome

ASSUME ActorsDiffer ==
  /\ Freezer # Reaper /\ {Freezer, Reaper} \cap Tasks = {}
  /\ Nobody \notin Tasks \cup Clients \cup {Freezer, Reaper}
ASSUME TasksFinite == IsFiniteSet(Tasks)
ASSUME AbsentObjects == NoEntry \notin Entries /\ NoChrome \notin Chromes

VARIABLES
  current,    \* registry._entries[name]
  sess,       \* entry.session: its Chrome
  alive,      \* Chromes that run on the profile
  stopped,    \* Chromes whose renderers are SIGSTOPped
  record,     \* entry.freeze_pids; entry.frozen says whether it is empty
  age,        \* idle time: 0 fresh, 1 past freeze_after, 2 past the agent limit
  agent,      \* the registered entry has flags["agent_started"]
  lease,      \* its lease: the holder
  inflight,   \* entry.inflight
  holder, waiters,  \* entry.lock
  mutate,     \* holder of registry.mutate_lock
  pc, job,    \* the requests and the two background loops
  overtaken   \* history: a close took an entry somebody was using

locks == <<holder, waiters, inflight>>
freeze == <<stopped, record>>
books == <<agent, lease>>
vars == <<current, sess, alive, freeze, age, books, locks, mutate, pc, job, overtaken>>

Actors == Tasks \cup {Freezer, Reaper}
RetrySafe == {"read"}               \* RETRY_SAFE_VERBS
LockedVerbs == {"act", "read"}      \* session verbs; the others of each kind alike
Verbs == LockedVerbs \cup {"wait", "checkpoint", "close", "start", "go", "none"}

\* Where a request or a loop is.
PCs == {"idle", "gated", "queued", "driving", "healing", "relaunching", "thawing",
        "waiting", "saving", "closeQueued", "closing", "goQueued", "starting", "going"}

Locking == {"driving", "healing", "relaunching"}           \* inside entry.lock
Counting == {"thawing", "waiting"}                         \* counted in entry.inflight
Users == {"gated", "queued"} \cup Locking \cup Counting    \* keeps the entry it found

\* entry: whose lock or count the task uses; target: what relaunch() works on;
\* page: the Chrome its handler drives; applied: how often the handler acted.
Jobs == [verb : Verbs, client : Clients \cup {Nobody}, entry : Entries \cup {NoEntry},
         target : Entries \cup {NoEntry}, page : Chromes \cup {NoChrome},
         applied : 0..2, retried : BOOLEAN]
NoJob == [verb |-> "none", client |-> Nobody, entry |-> NoEntry,
          target |-> NoEntry, page |-> NoChrome, applied |-> 0, retried |-> FALSE]

TypeOK ==
  /\ current \in Entries \cup {NoEntry}
  /\ sess \in [Entries -> Chromes \cup {NoChrome}]
  /\ alive \subseteq Chromes /\ stopped \subseteq Chromes
  /\ record \in [Entries -> SUBSET Chromes]
  /\ age \in [Entries -> 0..2]
  /\ agent \in BOOLEAN
  /\ lease \in Clients \cup {Nobody}
  /\ inflight \in [Entries -> Nat]
  /\ holder \in [Entries -> Actors \cup {Nobody}]
  /\ waiters \in [Entries -> Seq(Actors)]
  /\ mutate \in Actors \cup {Nobody}
  /\ pc \in [Actors -> PCs]
  /\ job \in [Actors -> Jobs]
  /\ overtaken \in BOOLEAN

Init ==
  /\ current = NoEntry
  /\ sess = [e \in Entries |-> NoChrome]
  /\ alive = {} /\ stopped = {}
  /\ record = [e \in Entries |-> {}]
  /\ age = [e \in Entries |-> 0]
  /\ agent = FALSE
  /\ lease = Nobody
  /\ inflight = [e \in Entries |-> 0]
  /\ holder = [e \in Entries |-> Nobody]
  /\ waiters = [e \in Entries |-> <<>>]
  /\ mutate = Nobody
  /\ pc = [a \in Actors |-> "idle"]
  /\ job = [a \in Actors |-> NoJob]
  /\ overtaken = FALSE

Entry(a) == job[a].entry
Frozen(e) == record[e] # {}
Free(e) == holder[e] = Nobody /\ waiters[e] = <<>>
MyTurn(a, e) == holder[e] = Nobody /\ waiters[e] # <<>> /\ Head(waiters[e]) = a
MayUse(c) == lease \in {Nobody, c}

Goto(a, stage) == pc' = [pc EXCEPT ![a] = stage]
End(a) == Goto(a, "idle") /\ job' = [job EXCEPT ![a] = NoJob]

\* registry.get() stamps activity on the entry it finds.
Touched == IF current = NoEntry THEN age ELSE [age EXCEPT ![current] = 0]

Lift(e) ==
  /\ stopped' = stopped \ record[e]
  /\ record' = [record EXCEPT ![e] = {}]

\* SIGSTOP whatever runs on the entry's profile and is not recorded yet.
Apply(e) ==
  /\ stopped' = stopped \cup alive
  /\ record' = [record EXCEPT ![e] = @ \cup alive]

\* Handlers find the session by its name, not by the entry that was locked.
Page == IF current = NoEntry THEN NoChrome ELSE sess[current]

------------------------------------------------------------------------------
(* Session verbs.                                                            *)

\* The lease gate; then ambient's settle may wait before the lock is taken.
VerbArrive(t, v, c) ==
  /\ pc[t] = "idle" /\ v \in LockedVerbs
  /\ current # NoEntry /\ MayUse(c)
  /\ Goto(t, "gated")
  /\ job' = [job EXCEPT ![t] = [NoJob EXCEPT !.verb = v, !.client = c, !.entry = current]]
  /\ age' = Touched
  /\ UNCHANGED <<current, sess, alive, freeze, books, locks, mutate, overtaken>>

\* Thaw the entry whose lock is held, then run the handler.
Handle(t, e) ==
  /\ Lift(e)
  /\ age' = Touched
  /\ Goto(t, "driving")
  /\ job' = [job EXCEPT ![t] = [@ EXCEPT !.page = Page]]

VerbQueue(t) ==
  /\ pc[t] = "gated"
  /\ ~Free(Entry(t))
  /\ waiters' = [waiters EXCEPT ![Entry(t)] = Append(@, t)]
  /\ Goto(t, "queued")
  /\ UNCHANGED <<current, sess, alive, freeze, age, books, holder, inflight, mutate, job,
                 overtaken>>

VerbRun(t) ==
  /\ \/ pc[t] = "gated" /\ Free(Entry(t)) /\ UNCHANGED waiters
     \/ /\ pc[t] = "queued" /\ MyTurn(t, Entry(t))
        /\ waiters' = [waiters EXCEPT ![Entry(t)] = Tail(@)]
  /\ holder' = [holder EXCEPT ![Entry(t)] = t]
  /\ Handle(t, Entry(t))
  /\ UNCHANGED <<current, sess, alive, books, inflight, mutate, overtaken>>

Unlock(t) == holder' = [holder EXCEPT ![Entry(t)] = Nobody]
Responds(c) == c \in alive \ stopped

VerbReturns(t) ==
  /\ pc[t] = "driving" /\ Responds(job[t].page)
  /\ Unlock(t) /\ End(t)
  /\ age' = Touched     \* the safety scan looks the session up again
  /\ UNCHANGED <<current, sess, alive, freeze, books, waiters, inflight, mutate, overtaken>>

\* Timeouts and refused actions: the lookup after the verb is skipped.
VerbRaises(t) ==
  /\ pc[t] = "driving"
  /\ Unlock(t) /\ End(t)
  /\ UNCHANGED <<current, sess, alive, freeze, age, books, waiters, inflight, mutate, overtaken>>

\* A crash error, before or after the page took the action.
VerbCrashes(t) ==
  /\ pc[t] = "driving" /\ job[t].page # NoChrome /\ ~job[t].retried
  /\ Goto(t, "healing")
  /\ \E acted \in {0, 1} :
       job' = [job EXCEPT ![t] =
                 [job[t] EXCEPT !.applied = job[t].applied + acted, !.page = NoChrome]]
  /\ UNCHANGED <<current, sess, alive, freeze, age, books, locks, mutate, overtaken>>

\* A mutant of RetryOrReport: every verb is run again.
RetryAlways(t, page) ==
  /\ Goto(t, "driving")
  /\ job' = [job EXCEPT ![t] = [@ EXCEPT !.retried = TRUE, !.page = page, !.target = NoEntry]]
  /\ UNCHANGED holder

\* After a recovery: re-run a retry-safe verb once, else tell the caller.
RetryOrReport(t, page) ==
  IF job[t].verb \in RetrySafe
  THEN /\ Goto(t, "driving")
       /\ job' = [job EXCEPT ![t] = [@ EXCEPT !.retried = TRUE, !.page = page, !.target = NoEntry]]
       /\ UNCHANGED holder
  ELSE Unlock(t) /\ End(t)

Revive(t) ==
  /\ pc[t] = "healing" /\ Responds(sess[Entry(t)])
  /\ RetryOrReport(t, Page)
  /\ age' = IF job[t].verb \in RetrySafe THEN Touched ELSE age
  /\ UNCHANGED <<current, sess, alive, freeze, books, waiters, inflight, mutate, overtaken>>

HealFails(t) ==
  /\ \/ pc[t] = "healing" /\ current = NoEntry
     \/ pc[t] = "relaunching"
  /\ Unlock(t) /\ End(t)
  /\ UNCHANGED <<current, sess, alive, freeze, age, books, waiters, inflight, mutate, overtaken>>

\* relaunch() works on the entry registered under the name.
RelaunchDown(t) ==
  /\ pc[t] = "healing" /\ current # NoEntry
  /\ alive' = alive \ {sess[current]}
  /\ stopped' = stopped \ {sess[current]}
  /\ Goto(t, "relaunching")
  /\ job' = [job EXCEPT ![t] = [@ EXCEPT !.target = current]]
  /\ UNCHANGED <<current, sess, record, age, books, locks, mutate, overtaken>>

FreshChrome(c) ==
  /\ c \notin alive /\ c \notin {sess[e] : e \in Entries}
  /\ c \notin {job[a].page : a \in Actors}
  /\ \A e \in Entries : c \notin record[e]

RelaunchUp(t) ==
  /\ pc[t] = "relaunching" /\ alive = {}
  /\ current = job[t].target
  /\ \E c \in Chromes :
       /\ FreshChrome(c)
       /\ alive' = {c}
       /\ sess' = [sess EXCEPT ![current] = c]
       /\ RetryOrReport(t, c)
  /\ record' = [record EXCEPT ![current] = {}]
  /\ age' = Touched
  /\ UNCHANGED <<current, stopped, books, waiters, inflight, mutate, overtaken>>

------------------------------------------------------------------------------
(* Page waits hold no lock; checkpoints of a goal step do not even count.    *)

WaitArrives(t) ==
  /\ pc[t] = "idle" /\ current # NoEntry
  /\ inflight' = [inflight EXCEPT ![current] = @ + 1]
  /\ age' = Touched
  /\ UNCHANGED <<current, sess, alive, books, holder, mutate, overtaken>>

WaitBegins(t) ==
  /\ WaitArrives(t)
  /\ Frozen(current) => Free(current)
  /\ Lift(current)
  /\ Goto(t, "waiting")
  /\ job' = [job EXCEPT ![t] =
       [NoJob EXCEPT !.verb = "wait", !.entry = current, !.page = Page]]
  /\ UNCHANGED waiters

\* It has to wait for the lock before it may thaw the session.
WaitQueues(t) ==
  /\ WaitArrives(t)
  /\ Frozen(current) /\ ~Free(current)
  /\ waiters' = [waiters EXCEPT ![current] = Append(@, t)]
  /\ Goto(t, "thawing")
  /\ job' = [job EXCEPT ![t] = [NoJob EXCEPT !.verb = "wait", !.entry = current]]
  /\ UNCHANGED freeze

WaitThawed(t) ==
  /\ pc[t] = "thawing" /\ MyTurn(t, Entry(t))
  /\ waiters' = [waiters EXCEPT ![Entry(t)] = Tail(@)]
  /\ Lift(Entry(t))
  /\ age' = Touched
  /\ Goto(t, "waiting") /\ job' = [job EXCEPT ![t] = [@ EXCEPT !.page = Page]]
  /\ UNCHANGED <<current, sess, alive, books, holder, inflight, mutate, overtaken>>

WaitEnds(t) ==
  /\ pc[t] = "waiting"
  /\ inflight' = [inflight EXCEPT ![Entry(t)] = @ - 1]
  /\ \/ Responds(job[t].page) /\ age' = Touched
     \/ UNCHANGED age      \* it timed out
  /\ End(t)
  /\ UNCHANGED <<current, sess, alive, freeze, books, holder, waiters, mutate, overtaken>>

\* goal_step calls the checkpoint_save handler directly.
CheckpointBegins(t) ==
  /\ pc[t] = "idle" /\ current # NoEntry
  /\ age' = Touched
  /\ Goto(t, "saving")
  /\ job' = [job EXCEPT ![t] = [NoJob EXCEPT !.verb = "checkpoint", !.page = Page]]
  /\ UNCHANGED <<current, sess, alive, freeze, books, locks, mutate, overtaken>>

CheckpointEnds(t) ==
  /\ pc[t] = "saving" /\ job[t].page \notin stopped
  /\ End(t)
  /\ UNCHANGED <<current, sess, alive, freeze, age, books, locks, mutate, overtaken>>

------------------------------------------------------------------------------
(* Registry verbs, under mutate_lock.                                        *)

Using(a, e) == Entry(a) = e /\ pc[a] \in Users

\* registry.close(): pop, thaw, then await the end of Chrome.
PopSession(a) ==
  /\ current' = NoEntry
  /\ Lift(current)
  /\ agent' = FALSE /\ lease' = Nobody
  /\ mutate' = a
  /\ Goto(a, "closing")
  /\ job' = [job EXCEPT ![a] = [@ EXCEPT !.verb = "close", !.entry = current]]
  /\ overtaken' = (overtaken \/ \E b \in Actors \ {a} : Using(b, current))

CloseArrive(t, c) ==
  /\ pc[t] = "idle" /\ current # NoEntry /\ MayUse(c)
  /\ age' = Touched
  /\ Goto(t, "closeQueued")
  /\ job' = [job EXCEPT ![t] = [NoJob EXCEPT !.verb = "close", !.client = c]]
  /\ UNCHANGED <<current, sess, alive, freeze, books, locks, mutate, overtaken>>

CloseRun(t) ==
  /\ pc[t] = "closeQueued" /\ mutate = Nobody
  /\ IF current = NoEntry
     THEN End(t) /\ UNCHANGED <<current, freeze, books, mutate, overtaken>>
     ELSE PopSession(t)
  /\ UNCHANGED <<sess, alive, age, locks>>

CloseEnds(a) ==
  /\ pc[a] = "closing"
  /\ alive' = alive \ {sess[Entry(a)]}
  /\ stopped' = stopped \ {sess[Entry(a)]}
  /\ mutate' = Nobody
  /\ End(a)
  /\ UNCHANGED <<current, sess, record, age, books, locks, overtaken>>

StartRun(t) ==
  /\ pc[t] = "idle" /\ mutate = Nobody /\ current = NoEntry
  /\ mutate' = t
  /\ Goto(t, "starting")
  /\ job' = [job EXCEPT ![t] = [@ EXCEPT !.verb = "start"]]
  /\ UNCHANGED <<current, sess, alive, freeze, age, books, locks, overtaken>>

FreshEntry(e) ==
  /\ Free(e) /\ inflight[e] = 0
  /\ \A a \in Actors : e \notin {job[a].entry, job[a].target}

\* A `go` (SESSION_AUTOSTART_VERBS, or explore's) that finds no session starts one
\* itself, or finds that another did while it waited, and drives the page: past no
\* gate, without entry.lock and not counted, though server.py:210-212 says the
\* lock is still acquired after the auto-start.
GoArrive(t) ==
  /\ pc[t] = "idle" /\ current = NoEntry
  /\ Goto(t, "goQueued")
  /\ job' = [job EXCEPT ![t] = [NoJob EXCEPT !.verb = "go"]]
  /\ UNCHANGED <<current, sess, alive, freeze, age, books, locks, mutate, overtaken>>

GoRun(t) ==
  /\ pc[t] = "goQueued" /\ mutate = Nobody
  /\ IF current = NoEntry
     THEN mutate' = t /\ Goto(t, "starting") /\ UNCHANGED job
     ELSE /\ Goto(t, "going") /\ job' = [job EXCEPT ![t] = [@ EXCEPT !.page = Page]]
          /\ UNCHANGED mutate
  /\ age' = Touched
  /\ UNCHANGED <<current, sess, alive, freeze, books, locks, overtaken>>

\* No recovery follows a crash: the error is the caller's.
GoEnds(t) ==
  /\ pc[t] = "going"
  /\ End(t)
  /\ \/ Responds(job[t].page) /\ age' = Touched
     \/ UNCHANGED age
  /\ UNCHANGED <<current, sess, alive, freeze, books, locks, mutate, overtaken>>

StartEnds(t) ==
  /\ pc[t] = "starting"
  /\ mutate' = Nobody
  /\ \/ End(t) /\ UNCHANGED <<current, sess, alive, record, age, books>>   \* the launch failed
     \/ \E e \in Entries, c \in Chromes, byAgent \in BOOLEAN :
          /\ IF job[t].verb = "go"
             THEN Goto(t, "going") /\ job' = [job EXCEPT ![t] = [@ EXCEPT !.page = c]]
             ELSE End(t)
          /\ alive = {} /\ FreshEntry(e) /\ FreshChrome(c)
          /\ current' = e
          /\ sess' = [sess EXCEPT ![e] = c]
          /\ alive' = {c}
          /\ record' = [record EXCEPT ![e] = {}]
          /\ age' = [age EXCEPT ![e] = 0]
          /\ agent' = byAgent
          /\ lease' = Nobody
  /\ UNCHANGED <<stopped, locks, overtaken>>

\* session_lease: grant, renew (a no-op here) or steal; session_release.
Lease(c) ==
  /\ mutate = Nobody /\ current # NoEntry
  /\ lease' = c
  /\ age' = Touched
  /\ UNCHANGED <<current, sess, alive, freeze, agent, locks, mutate, pc, job, overtaken>>

Unlease ==
  /\ mutate = Nobody /\ current # NoEntry /\ lease # Nobody
  /\ lease' = Nobody
  /\ age' = Touched
  /\ UNCHANGED <<current, sess, alive, freeze, agent, locks, mutate, pc, job, overtaken>>

------------------------------------------------------------------------------
(* The background loops.                                                     *)

StillIdleByClock(e) == age[e] >= 1             \* a mutant of StillIdle
StillIdle(e) == age[e] >= 1 /\ inflight[e] = 0

FreezePoll ==
  /\ pc[Freezer] = "idle" /\ current # NoEntry
  /\ StillIdle(current) /\ Free(current)
  /\ Apply(current)
  /\ UNCHANGED <<current, sess, alive, age, books, locks, mutate, pc, job, overtaken>>

\* The lock is free, but promised to a waiter.
FreezeQueues ==
  /\ pc[Freezer] = "idle" /\ current # NoEntry
  /\ StillIdle(current) /\ holder[current] = Nobody /\ ~Free(current)
  /\ waiters' = [waiters EXCEPT ![current] = Append(@, Freezer)]
  /\ Goto(Freezer, "queued")
  /\ job' = [job EXCEPT ![Freezer] = [@ EXCEPT !.entry = current]]
  /\ UNCHANGED <<current, sess, alive, freeze, age, books, holder, inflight, mutate, overtaken>>

\* It got the lock: look again, stop the renderers, unlock.
FreezeRun ==
  /\ pc[Freezer] = "queued" /\ MyTurn(Freezer, Entry(Freezer))
  /\ waiters' = [waiters EXCEPT ![Entry(Freezer)] = Tail(@)]
  /\ IF StillIdle(Entry(Freezer)) THEN Apply(Entry(Freezer)) ELSE UNCHANGED freeze
  /\ End(Freezer)
  /\ UNCHANGED <<current, sess, alive, age, books, holder, inflight, mutate, overtaken>>

Abandoned(e) ==
  /\ e # NoEntry
  /\ agent /\ lease = Nobody
  /\ age[e] = 2 /\ holder[e] = Nobody /\ inflight[e] = 0

ReapPoll ==
  /\ pc[Reaper] = "idle" /\ Abandoned(current)
  /\ Goto(Reaper, "closeQueued")
  /\ UNCHANGED <<current, sess, alive, freeze, age, books, locks, mutate, job, overtaken>>

\* A mutant of ReapRun: it acts on the look it took before it waited.
ReapRunUnchecked ==
  /\ pc[Reaper] = "closeQueued" /\ mutate = Nobody
  /\ IF current # NoEntry
     THEN PopSession(Reaper)
     ELSE End(Reaper) /\ UNCHANGED <<current, freeze, books, mutate, overtaken>>
  /\ UNCHANGED <<sess, alive, age, locks>>

\* mutate_lock came: a verb may have landed meanwhile.
ReapRun ==
  /\ pc[Reaper] = "closeQueued" /\ mutate = Nobody
  /\ IF Abandoned(current)
     THEN PopSession(Reaper)
     ELSE End(Reaper) /\ UNCHANGED <<current, freeze, books, mutate, overtaken>>
  /\ UNCHANGED <<sess, alive, age, locks>>

------------------------------------------------------------------------------
(* Time and failures.  A woken waiter runs, and a settle ends, long before   *)
(* an idle limit passes.                                                     *)

Tick ==
  /\ current # NoEntry /\ age[current] < 2
  /\ \A a \in Actors : pc[a] # "gated"
  /\ \A e \in Entries : waiters[e] # <<>> => holder[e] # Nobody
  /\ age' = [age EXCEPT ![current] = @ + 1]
  /\ UNCHANGED <<current, sess, alive, freeze, books, locks, mutate, pc, job, overtaken>>

LeaseExpires ==
  /\ current # NoEntry /\ lease # Nobody
  /\ lease' = Nobody
  /\ UNCHANGED <<current, sess, alive, freeze, age, agent, locks, mutate, pc, job, overtaken>>

ChromeDies(c) ==
  /\ c \in alive
  /\ alive' = alive \ {c} /\ stopped' = stopped \ {c}
  /\ UNCHANGED <<current, sess, record, age, books, locks, mutate, pc, job, overtaken>>

VerbStep(t) ==
  \/ \E v \in LockedVerbs, c \in Clients : VerbArrive(t, v, c)
  \/ VerbQueue(t) \/ VerbRun(t) \/ VerbReturns(t) \/ VerbRaises(t) \/ VerbCrashes(t)
  \/ Revive(t) \/ HealFails(t) \/ RelaunchDown(t) \/ RelaunchUp(t)

WaitStep(t) ==
  \/ WaitBegins(t) \/ WaitQueues(t) \/ WaitThawed(t) \/ WaitEnds(t)
  \/ CheckpointBegins(t) \/ CheckpointEnds(t)

RegistryStep(t) ==
  \/ \E c \in Clients : CloseArrive(t, c)
  \/ CloseRun(t) \/ CloseEnds(t) \/ StartRun(t) \/ StartEnds(t)
  \/ GoArrive(t) \/ GoRun(t) \/ GoEnds(t)

Next ==
  \/ \E t \in Tasks : VerbStep(t) \/ WaitStep(t) \/ RegistryStep(t)
  \/ FreezePoll \/ FreezeQueues \/ FreezeRun
  \/ ReapPoll \/ ReapRun \/ CloseEnds(Reaper)
  \/ \E c \in Clients : Lease(c)
  \/ Unlease \/ LeaseExpires \/ Tick
  \/ \E c \in Chromes : ChromeDies(c)

Spec == Init /\ [][Next]_vars

------------------------------------------------------------------------------
(* Properties.                                                               *)

NeverStopped(stages) ==
  overtaken \/ \A t \in Tasks : pc[t] \in stages => job[t].page \notin stopped

\* No Chrome is stopped while a verb or a page wait drives it, though the freezer
\* looks, waits and looks again while they come and go (server.py:1050-1104).  A
\* close that takes the entry away from its users voids this: they, and the
\* freezer behind them, then work on the session that replaces theirs.
\* The checkpoint of a goal step (goals/handlers.py:43) and a go that started its
\* own session (server.py:657-659) take no lock, are not counted and do not thaw:
\* the freezer may stop their Chrome under them, and nothing is said of them.
VerbNeverStopped == NeverStopped({"driving", "waiting"})

\* A stopped Chrome is on the record of the registered entry, so that whatever
\* verb comes next starts it again.
FrozenIsRecorded ==
  overtaken \/ \A c \in stopped : current # NoEntry /\ c \in record[current]

\* One locked verb at a time drives a Chrome, recovery and retry included, as
\* server.py:647-649 says of the session lock.  A verb queued on an entry that
\* a close took away drives the page of the next entry, under the old lock.  A go
\* that started its own session drives without the lock, and is not meant.
SessionLockExcludes ==
  \A t, u \in Tasks :
    pc[t] = "driving" /\ pc[u] = "driving" /\ job[t].page = job[u].page
    /\ job[t].page # NoChrome => t = u

\* The same while no close takes an entry away from its users.
OneVerbPerPage == overtaken \/ SessionLockExcludes

\* A verb that is not retry-safe acts at most once, however often its Chrome
\* crashes: after an attempt that may have acted it is never driving again.
ActsOnce ==
  \A t \in Tasks : job[t].verb = "act" /\ job[t].applied = 1 => pc[t] # "driving"

\* What a step of the reaper respects.
SparesTheBusy ==
  pc[Reaper] = "closeQueued" /\ pc'[Reaper] = "closing" =>
    /\ lease = Nobody
    /\ \A t \in Tasks : Using(t, current) => pc[t] \in {"gated", "queued"}

\* The reaper of abandoned sessions never closes a session that is leased or
\* that a verb or a page wait is using (a go that started its own session uses it
\* uncounted and is not spared), though it decided to on a look it took
\* before it waited for mutate_lock.  (A verb still queued is not safe: the lock
\* is free between the release of one verb and the turn of the next.)
ReaperSparesTheBusy == [][SparesTheBusy]_vars

\* Who waits for entry.lock stands in its queue, once, and in no other queue.
Waiting == {"queued", "thawing"}
Place(a, e) == {i \in DOMAIN waiters[e] : waiters[e][i] = a}
WaitersKnown ==
  /\ \A e \in Entries : \A i \in DOMAIN waiters[e] :
       pc[waiters[e][i]] \in Waiting /\ Entry(waiters[e][i]) = e
  /\ \A e \in Entries : \A i, j \in DOMAIN waiters[e] : waiters[e][i] = waiters[e][j] => i = j
  /\ \A a \in Actors : pc[a] \in Waiting => Place(a, Entry(a)) # {}

\* mutate_lock is held by who starts or ends a session.
MutateHeld == mutate # Nobody => pc[mutate] \in {"closing", "starting"}

\* Nobody waits for what nobody will give: every waiter of entry.lock is in its
\* queue, and a lock that is not free, entry.lock or mutate_lock, is held by
\* somebody who runs inside it and waits for no lock itself.
NobodyIsForgotten ==
  /\ WaitersKnown /\ MutateHeld
  /\ \A e \in Entries : holder[e] # Nobody => pc[holder[e]] \in Locking

------------------------------------------------------------------------------
(* Why they hold: an inductive invariant.                                    *)

\* A lock is held by the one task that runs inside it.
HoldersHold ==
  /\ \A e \in Entries : holder[e] # Nobody =>
       holder[e] \in Tasks /\ pc[holder[e]] \in Locking /\ Entry(holder[e]) = e
  /\ \A t \in Tasks : pc[t] \in Locking => holder[Entry(t)] = t

\* The count of an entry is the number of its page waits.
Waits(e) == {t \in Tasks : pc[t] \in Counting /\ Entry(t) = e}
WaitsCounted == \A e \in Entries : inflight[e] = Cardinality(Waits(e))

\* Whoever keeps an entry keeps the registered one, until a close takes it away.
UsersCurrent ==
  \A a \in Actors : pc[a] \in Users =>
    Entry(a) \in Entries /\ (overtaken \/ Entry(a) = current)

\* Who starts or ends a session holds mutate_lock, and the name stays free.
RegistryHeld ==
  \A a \in Actors : pc[a] \in {"closing", "starting"} =>
    mutate = a /\ (pc[a] = "starting" => current = NoEntry)

\* A verb runs at most twice, and only a retry-safe one twice.
AttemptsKnown ==
  \A t \in Tasks :
    /\ pc[t] \in {"gated", "queued"} => job[t].applied = 0 /\ ~job[t].retried
    /\ pc[t] = "driving" => job[t].applied = 0 \/ job[t].retried
    /\ pc[t] = "driving" /\ job[t].retried => job[t].verb \in RetrySafe
    /\ pc[t] \in Locking => job[t].applied <= 1

\* Taken together, with the two safety properties that rest on each other.
IndInv ==
  /\ TypeOK /\ HoldersHold /\ WaitsCounted /\ UsersCurrent /\ RegistryHeld
  /\ AttemptsKnown /\ stopped \subseteq alive
  /\ FrozenIsRecorded /\ VerbNeverStopped

==============================================================================
