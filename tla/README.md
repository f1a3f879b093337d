# Formal verification of vibatchium

TLA+ modules, TLC runs and TLAPS proofs about the daemon of this repository
(`vibatchium/`). The daemon drives Chrome sessions for many clients at once: it
is one asyncio loop in which every `await` lets other requests run, so its
correctness is a matter of which coroutine runs between two awaits, which locks
it holds then, and what it believes about state it read before.

Paths below are relative to `vibatchium/`.

## 1. Inventory

| Component | State | Operations | Hard behaviour | What makes it correct |
|---|---|---|---|---|
| Session registry (`daemon/registry.py`) | `_entries`, `mutate_lock`, both session caps, profile directories | create, attach, close, relaunch, delete, list | launches and closes await for seconds; a name may be closed and re-started meanwhile | one entry per name, no Chrome lost, caps, profiles outlive sessions |
| Warm pool (`registry.py:491-572`) | `_warm_sessions`, `_warm_tasks` | schedule, claim, cancel | a background launch races creates, closes and deletes of its name | a warm Chrome is claimed once or closed |
| Dispatch (`daemon/server.py:560-862`) | `entry.lock`, in-flight counts, lease and caps gates | one request in, one answer out; crash recovery and one retry | verbs queue on an entry that is closed under them; recovery inside the lock | every verb is answered, mutating verbs run once |
| Explore lanes (`daemon/handlers.py:2311-2566`) | minted names, per-name turns | off-budget lane, pinned explore | runs outside the dispatcher's locks | the lane leaves nothing behind |
| Probes (`handlers.py:1532-1667`) | both kinds of lock | geo_info, gpu_info | nested locks | no deadly embrace with `go` |
| Freezer and reapers (`server.py:1022-1144`, `daemon/freeze.py`) | frozen flag, recorded processes, activity stamps | freeze, thaw, idle close | periodic loops against verbs in flight | never frozen under a verb, never reaped while in use |
| Leases (`daemon/lease.py`) | holder, expiry | acquire, renew, release, check | expiry against a clock, takeover | who is leased is not reaped |
| Pages (`daemon/browser.py`, `handlers.py`) | `session.page`, `frame_ref`, `_revive_task`, snapshot, handles | go, back, reload, map, frame, page_new/switch/close; page events, reviver, recovery | pages close, crash, open and navigate between any two awaits | a verb acts on the page and document its client means; a lost page comes back |
| Goals (`goals/`) | SQLite goal rows, engine's ownership map, session flags | start, pause, resume, next, step, answer, done, fail; recovery at restart | crash between a row and a flag; several goals want one session | one owner per session, terminal states final |
| Daemon singleton (`server.py:884-1250`, `client.py`) | lock file, pid file, socket | start, probe, watch, shutdown | two daemons start at once; files are removed under one that runs | one daemon, and clients reach it |
| File chooser (`daemon/file_chooser.py`) | armed chooser per session | arm, fire, cancel, abandon | the browser's event races the verb and the relaunch | an arm is settled exactly once |
| Ambient motion (`daemon/ambient.py`) | per-session task, yield count | on, off, begin, end, settle | a background mover against verbs | the mover is still while a verb acts |
| Live view (`liveview.py`) | server, viewers, frame loops | liveview_start/stop, a WebSocket per viewer, takeover input | loops, viewers, verbs and the freezer share sessions and locks | one loop per session, viewers get frames, verbs are answered |
| Observation, secrets (`daemon/observe.py`, `secret_guard.py`, `secrets.py`) | snapshots, masks | observe, act | a page that moved on | a stale reference is refused |
| Plugins, skills, vision, fleet, REST | tables or files of their own | discover, reload; one API call | budget checked before a call that is charged after it | |
| CLI, MCP, SDK, set-up, content tools, launch overrides, capabilities, file policy | none, or files read once | | pure functions and I/O | |

How they interact: a client sends one JSON line; the dispatcher
(`server.py:dispatch`) runs the verb's handler under `registry.mutate_lock`
(registry verbs), under the session's `entry.lock` (session verbs) or under no
lock (page waits, goal verbs, `explore`, most plugin verbs). Handlers call the
registry, which calls the backends, which start and stop Chrome, and drive
pages, whose events call back into the session (page tracking, file chooser,
guard routes). Goals call back into the session's entry
(`goals/handlers.py:62-119`) when they take or release it. Background tasks
(pre-warms, freezer, reapers, the ambient mover, the reviver, frame loops) call
the same operations. Shared state between the models is: the registry's entries
and `entry.lock` (SessionRegistry, SessionDispatch, LiveView), the freezer
(SessionDispatch, LiveView), the recovery of a crashed verb (the relaunch in
SessionRegistry, lock and retry in SessionDispatch, the page it ends up on in
SessionPages). Each module keeps of the others what reaches it, as actions of
its environment.

`PROJECT.json` lists the components with their status and the hazards with the
line where each bites.

## 2. Plan

In order of importance to the system; all of it is done.

| Module | Runs | Proofs |
|---|---|---|
| `SessionRegistry`: registry, warm pool, and what reaches them | `registry_core`, `registry_goals`, `registry_live` | `SessionRegistry_proofs` |
| `SessionDispatch`: locks, counts, leases, freezer, reaper, recovery | `dispatch` | `SessionDispatch_proofs` |
| `SessionPages`: pages, documents, reviver, recovery | `pages` | `SessionPages_proofs` |
| `GoalEngine`, which implements `GoalLifecycle` | `goals_orderly`, `goals_any`, `goals_race` | `GoalEngine_proofs` |
| `DaemonSingleton`: start, watchdog, shutdown | `daemon` | `DaemonSingleton_proofs` |
| `FileChooser`: the armed upload | `chooser` | `FileChooser_proofs` |
| `Ambient`: the mover against verbs | `ambient` | `Ambient_proofs` |
| `LiveView`: frame loops, viewers, takeover | `liveview` | `LiveView_proofs` |

Each `MC*.tla` instantiates its module for TLC, each `.cfg` chooses an instance
and names what is checked; a type invariant is part of each inductive invariant
and proved with it. What could follow: database errors in GoalEngine, the goal
wall in the relaunch of SessionRegistry (the two modules know one half each),
and the goal-caps gate of the dispatcher.

## 3. SessionRegistry

`SessionRegistry.tla` models `daemon/registry.py` together with the handlers
and the dispatcher code that decide which lock an operation holds.

A request is a task `t` with a program counter `pc[t]` and a record `job[t]`
(the session name it addresses, the profile and the budget it wants, the entry it
holds, the entry and the Chrome it works on, the pre-warm it awaits). **One action is the
code between two awaits**; its name says which. Entries are objects with an
identity, because closing and re-starting a name makes a new `SessionEntry`
while other coroutines still hold the old one; an identity, a Chrome or a
pre-warm that nothing refers to any more may be reused, which bounds the state
space without bounding the length of behaviours.

| State | Code |
|---|---|
| `entries`, `budget`, `profile`, `session`, `walled` | `_entries`, `entry.ephemeral`, `entry.profile_dir`, `entry.session`, a goal's `nav_allowlist` |
| `lock`, `waiters` | the `asyncio.Lock` of each entry, with its FIFO of waiters |
| `mutateLock` | `registry.mutate_lock` |
| `warm`, `warmTask`, `pre` | `_warm_sessions`, the live tasks of `_warm_tasks`, where each coroutine is |
| `runs`, `stray`, `dirs` | Chrome processes with their profile, those that outlived their close, the profile directories |

| Actions | Code |
|---|---|
| `StartLocked` `GoLocked` `JoinDone` `DropDone` `CreateSpawn` `CreateUp` | `start`, `go`'s auto-start, `create()`: checks, await of an in-flight pre-warm, close of an unfit warm Chrome, launch, insert |
| `AttachLocked` `AttachDone` | `attach` |
| `NewLocked` `PreSpawn` `PreUp` `PreDiscard` `PreCancelled` | `session_new`, `schedule_prewarm` and its coroutine |
| `CloseLocked` `CloseTeardown` `CloseDone` `CancelDone` `Sweep` `DeleteLocked` | `close()`, `cancel_prewarm()`, `delete_profile_dir()` |
| `Explore` `LaneTry` `LaneDone` `PinnedStop` | the off-budget lane; the close that ends a pinned explore |
| `ProbeLocked` `ProbeRun` `ProbeDone` | `geo_info`, `gpu_info` |
| `VerbArrive` `VerbRun` `VerbDone` `VerbCrash` | a session verb under `entry.lock` |
| `HealDown` `HealSpawn` `HealUp` `HealUndo` `HealGuard` | `relaunch()` |
| `GoalPin` | `caps_cb`, `domains_cb` |

Choices of the abstraction: the memory floor, the warm mode, the fit of a warm
Chrome to a request and the failure of a launch are nondeterministic. A page
that can be revived without a relaunch is part of `VerbDone`. `mutate_lock` is
taken by any waiter, which includes the FIFO order of the code. A launch needs
the profile to itself (Chrome's singleton lock). Names are non-default ones,
which `delete` and ephemeral `close` may remove. `Stubborn` lets a Chrome
survive a close that failed or timed out. Left out are the close of an explore's
minted session by another client (it can name it in `session_close`, and
`session_close_all` reaches it), and `close_all`, at shutdown, when the Chromes
end with the driver process, as well as under `session_close_all`.

A profile directory is known by its name: that of the session, unless
`start --profile` (`handlers.py:909-928`) asks for one outside the store
(`Outside`, which no close and no delete removes) or, with `OtherProfiles`, for
that of another session's name. `MayRunOn` lists them, and every launch,
registration, pre-warm, close and removal uses the profile the code would use.

### Properties and runs

`MCSessionRegistry.tla` declares the symmetry, and a view that forgets the fields
of an entry nothing refers to (registering it sets them anew); each `.cfg` chooses
an instance.

| Run | Instance | What it shows |
|---|---|---|
| `registry_core` | one user name and one minted name, a profile outside the store, two requests, one pre-warm, caps 1 and 1, warm recycling, Chromes that may survive | no Chrome is lost (`EveryChromeOwned`) or shared (`ChromesNotShared`), the lane leaves no profile, probes and `go` never wait for each other (`NoDeadlyEmbrace`), no entry is overwritten, profiles outlive their sessions |
| `registry_goals` | one name, two requests, goals and pinned explores | the inductive invariant `IndInv`, both caps in it, when goals promote sessions and closes are unlocked |
| `registry_live` | fair specification, no symmetry, no ephemeral sessions | if the browsers answer, queued verbs and accepted closes end (`VerbsAnswered`, `ClosesAnswered`) |

Why the bounds are enough: every hazard of this module is a race of at most
three coroutines for one name or one lock (a creator and a second creator; a
relaunch and a close; a holder, a probe and a queued `go`), or of two names for
one slot of a budget, which caps of 1 make scarce; a pre-warm adds one more.

**A profile can be removed under a running session.** `delete_profile_dir`
(`registry.py:1262`) asks whether a session of that name is registered, not
whether one runs on that directory. With two names and `OtherProfiles`,
`ProfileOutlivesSession` is violated in seven states: `start --profile b` on
session a, its launch, `session_delete b`, and `b` is gone under a's Chrome.
Without `OtherProfiles` the same two names satisfy it. `registry_core` checks it,
and `ProfilesOutlive` proves it, under the assumption that no client starts a
session on the profile of another name; the hazard is listed without a property.

Two disagreements with comments of the source came out of runs that are not
kept, as an assumption of the runs above (`GoalPins`, `PinnedExplore`) now names
what each needs:

* a close during `ensure_nav_guard` (`registry.py:1044`), after the re-check of
  `relaunch()`: the new Chrome is adopted by an entry that is no longer
  registered, and nobody owns it. `registry.py:1027-1032` says "Re-check
  ownership; if lost, tear the fresh Chrome down ... rather than orphan it".
  `EveryChromeOwned` is violated with `GoalPins`, hence checked without.
* a `go` that queued on a session closed meanwhile auto-starts (`handlers.py:2611`)
  under its `entry.lock` and waits for `mutate_lock`, held by a probe that waits
  for that `entry.lock`; it needs the unlocked close of a pinned explore
  (`handlers.py:2443`). `registry.py:991-992` says "keeping the two orderings
  disjoint avoids deadlock". `NoDeadlyEmbrace` is violated with `PinnedExplore`.

Three smaller disagreements came up while modelling and have no run: a verb
that recovers holds the lock of the entry it queued on, and relaunches the one
that replaced it (`registry.py:990` "the CALLER must hold entry.lock"); a parked
pre-warm of one name and a started session of another exceed the two caps
together (`registry.py:136`); a goal promotes an ephemeral session when the
persistent budget is full (`goals/handlers.py:79`), which is why
`BudgetsRespected` speaks of sessions charged by a request.

### Fairness

`WF` of each coroutine's next step, where its await is bounded: the loop runs
every ready coroutine; `close()` and `relaunch()` give their calls a `wait_for`
(`registry.py:1015`, `1019`, `1175`), a lane in line has its deadline. `SF` of
taking a lock: an `asyncio.Lock` serves its waiters in order, so a request that
can take its lock again and again takes it; the model lets later requests
overtake at `mutate_lock`, hence strong and not weak fairness. Nothing forces a
request to arrive, a goal to act or a browser to crash.

The other awaits have no time-out, and the specification gives them no fairness
(`UntimedCalls`): the `evaluate` of a probe, under both locks
(`handlers.py:1478`, `1552-1557`, whose comment says that it can wedge the whole
daemon, `1653`), the close of an unfit warm Chrome in `create()`, the discard of a
pre-warm and the close of a parked Chrome (`registry.py:545`, `568`), launches
by `create()`, `attach`, the disposal of handles, and what a verb asks its page.
That they end is the hypothesis of both liveness properties, `BrowsersAnswer`.
What the run then shows is that the daemon adds no wait of its own: no lock is
leaked on a failure path, no waiter is overtaken for ever, and no close waits for
what waits for it. Without the hypothesis both
are false, by a browser that never answers a probe.

### Proofs

`SessionRegistry_proofs.tla` proves, for every number of names, requests,
entries, Chromes and pre-warms, for all caps, and with or without goals, pinned
explores, recycling and stubborn Chromes:

* `TypeCorrect`, `Inductive`: the type invariant and the inductive invariant;
* `CreatorIsAlone`: while a request creates a session, it alone holds
  `mutate_lock` and the name stays free;
* `CapsHold`: `BudgetsRespected`;
* `NothingOverwritten`: `EntryNeverOverwritten`;
* `LocksNeverEmbrace`: `NoDeadlyEmbrace`, if no client runs `explore` on a
  named session (see above why that is needed);
* `NoChromeShared`: `ChromesNotShared`;
* `NoChromeLost`: `EveryChromeOwned`, without goal walls (`~GoalPins`; above);
* `LanesClean`: `LaneLeavesNothing`;
* `ProfilesOutlive`: `ProfileOutlivesSession`, if no client starts a session on the
  profile of another name (above) and none runs `explore` on a named session: the
  close that ends one takes no lock, and may remove the profile directory under a
  start of the same name (a hazard without a property);
* `EverybodyIsServed`: who awaits an `entry.lock` is in its queue, once, and in
  no other; an `entry.lock` or `mutate_lock` that is taken is held by a request
  that runs inside it (`NobodyIsForgotten`).

The assumptions are those the module names: the sets of names are finite and
disjoint, the caps are naturals, the "absent" values are not members.

The argument. `BudgetsRespected` is not inductive: a creator checked the cap
some awaits ago. `CreatorHasRoom` says its room is still there, which holds as
only one request can be a creator (`OneCreator`, through `mutateLock`), every
other way of charging a budget needs `mutate_lock` free or its own check, and
all else only shrinks a budget. `EntriesKeepName` says an entry is registered
under one name and that requests hold it under that name. `JobsMatchStage`
gives each stage the parts of its job that it uses. The proofs classify every
action as one of a few kinds of step (quiet, registers, unregisters, charges,
promotes) and show once per kind that the invariant is kept. The lock theorem
adds `LocksApart`: what a probe waits for stays registered under its name, and
a `go` that waits under an `entry.lock` holds that of an entry registered
nowhere.

Where sessions run. `Placed` says that what is registered, launching, pre-warmed
or closing under a name is on a profile its `start` may have asked for
(`PlacesOf`): for a lane the one of its minted name. Every step `Moves` within it: a
request ends, keeps what it is about, begins, or takes up the session registered
under its name.

Who holds a Chrome. `Hands` lists everything that can hold one: a session, the
warm pool, a pre-warm, or a request at a stage at which its job carries it
(`Holds`); it says that what a request holds runs on the profile it works on,
that what is given up is empty-handed, and that no two holders hold
the same one. Every action passes Chromes on in one of a few ways (`Passes`: it
lets go of one, carries one on, aims at one to close, launches one, seats one in
an entry, or loses one), and `Hands` is kept once per way. A launch needs its
profile free, so that a fresh Chrome has no holder. For `EveryChromeOwned`,
`Owned` adds that no session is walled in, that a profile has one Chrome at most,
that a session runs on the profile of its entry, and that an entry which a close
took out of the registry stays out. `HealGuard` is where this fails with goal walls: the
relaunch adopts its Chrome into an entry that is no longer registered.

What an explore knows of the name it minted (`Lanes`): nobody else works on that
name, nothing is pre-warmed for it, and at each stage of its lane the entry, the
Chrome and the directory are there or not as that stage left them (`OnLane`);
so nothing under a minted name remains when its explore is answered.

What a close knows (`Closers`): from the step that takes the entry out to the
removal of the directory it holds `mutate_lock`, so that the name stays free; no
pre-warm is registered for the name once it was cancelled, and nothing is parked
when the directory is swept. That no pre-warm goes on launching unseen needs
`Tracked`: one that launches is registered for its name, or awaited by a request.
An explore's own close, which takes no lock, works on a minted name that nobody
else uses (`Lanes`). What is removed is in the store, hence of the name itself
(`Placed`, without `OtherProfiles`), and nothing of another name is on it.

Whom the locks serve. The invariant is `NobodyIsForgotten` itself, with the one
fact that a probe still to come addresses a session by its name (`InService`).
A step of a request stays put, lets go of a lock, gets one that nobody holds,
joins a queue at its end or leaves it at its head when its turn comes
(`InOrder`); `QueueJoined`, `QueueServed` and `QueuesUnmoved` show what these do
to a queue, and a lemma per group of actions that they are all there is. A
relaunch that is given up, a verb whose session is gone, a `go` that starts one
under its `entry.lock`: each gives back what it took. It is the safety half of
`VerbsAnswered` and `ClosesAnswered`: no wakeup is lost and no lock is leaked.
What a proof cannot add is the fairness.

Every safety property of the three runs is proved; only the liveness of
`registry_live` is model-checked alone.

## 4. GoalEngine

`GoalEngine.tla` models `goals/engine.py`, its SQLite store and the callbacks of
`goals/handlers.py` that pin a goal's limits on a live session. Goal verbs run
under no lock, and each awaits several store calls, so any two of them may
overlap anywhere.

| State | Code |
|---|---|
| `rows` | the `goals` table: status, session, charged steps (`consumed.steps`), `client_token_idx` |
| `served` | `goal_events`, reduced to the number of `step_done` events of each goal |
| `engine` | `daemon._goal_engine`: absent, published and recovering, up |
| `owner` | `_session_owner` |
| `live`, `gate`, `guard`, `orphans` | sessions with a Chrome; the goal in `flags["goal_caps"]`, `flags["goal_domains"]`; `_nav_guard_installed`; guard routes whose handler was forgotten |
| `pc`, `job` | a request: the verb, its goal, its token, the rows its last query returned, the route call under way |

**Granularity.** `_db` runs one store call in a worker thread, under the store's
lock, and awaits it; the loop resumes the request some time later. So the
execution of a statement and the loop code that acts on its result are two
steps whenever that code reads or writes memory, or sends a statement that
depends on what was read. Loop code that only submits the next statement is one
step with the statement before it. Rows, a file, survive `Crash`; the rest does
not, and a statement not yet executed is lost.

| Actions | Code |
|---|---|
| `Arrive` | a goal verb; the first one after a daemon start publishes the engine (`_get_engine`) |
| `RecoverList` `RecoverFlip` `RecoverClear` | `on_daemon_restart` |
| `Insert` | `create`, `spawn` |
| `List` `Pick` `PickNone` | `next` |
| `Claim` `Pinned` `StartWrite` `Restored` | `_start`: claim and pin, the guard's route, the row, the checkpoint |
| `StepRefused` `StepRead` `StepWrite` `StepEvent` `StepFail` | `step` |
| `Read` `Write` | `ask`, `answer`, `done`, `fail`, `cancel`, `pause`: the check, the row |
| `Release` `ReleaseNone` `Unpinned` | `_release` |
| `ResumeCheck` `ResumeWrite` `ResumeGet` `ResumeClaim` | `resume` |
| `SessionUp` `SessionDown` `Crash` | the registry starts or closes the session; the daemon dies |

Choices of the abstraction: `created_at` has whole seconds, so `next` may take
any goal of its list. The spend and wall budgets may be exceeded at any step
(`StepRead`), the step budget is counted. Events other than `step_done`,
notifiers, artifacts and goal trees change no state of the table and are left
out, as are database errors. `RouteChange` is the change of the guard's route
that a pin or unpin asks the browser for; `Routed` is the browser's answer.

### Clients

The engine checks the state of a goal, awaits, and writes. What it promises
holds for clients that wait their turn, and the constant `Orderly` restricts
requests to what they do (`Heeds`): one request at a time about a goal; goals
are started, paused and cancelled one after the other; only a running goal is
stepped or ended by its driver; an answer follows a question. `Early` is the
other hypothesis: with `Early = FALSE` clients wait for the first goal verb
after a daemon start. With `Orderly = FALSE` and `Early = TRUE` requests come
as they like, retries included.

### Properties and runs

| Run | Clients | What it shows |
|---|---|---|
| `goals_orderly` | orderly; two goals, one session, three requests, every verb, a token | `Exclusive`, `SnapshotsAreOwn`, `GuardGoesWithGoal`, through crashes and recoveries; the refinement `ImplementsLifecycle`; `OrderlyInv`: who owns a session runs, every step is charged, and what these rest on |
| `goals_any` | any, but not early; two requests, the control verbs | a finished goal lets go of its session (`FinishedGoalsLetGo`); pinned caps follow the owner (`GatesFollowOwner`); only a resume after a question takes a session (`OnlyResumeTakesSessions`) |

Bounds: two goals that want the one session are the least that can collide;
every hazard is a race of two requests, and a third one lets the damage of the
first two be used. A goal of `goals_orderly` has a budget of one step, and no
step is sent to a goal with `MaxEvents` events or `MaxCharges` charges, enough
for a step to pass, one to be refused and one to fail.

For clients that overlap their requests the run `goals_race` finds what a
comment rules out: `engine.py:11-12` says "`running` holds exclusive ownership
of its session"; `pause` writes the row; `next` starts the goal again on the
session it still owns; the `pause` releases it; another `next` starts a second
goal there. Two more of the kind came out of runs that are not kept: two steps
at once write the same sum (`engine.py:18` "every `step` charges", 238 and
284), and a `cancel` while `_start` awaits the guard's route leaves the route
behind (`CHANGELOG.md:785` "the nav guard no longer outlives the goal",
`browser.py:387-408`).

Other disagreements of the same kind have no run of their own: a `goal_next`
served during recovery loses its session to `_session_owner.clear()`
(`engine.py:411`; hence `Early`); `done` and `fail` never look at the status, so
a cancelled goal becomes done (`events.py:30` "no further transitions"); the
check of `resume` is two awaits old when it claims the session of a goal that
waited for an answer (`engine.py:355`; `OnlyResumeTakesSessions` allows it); an
`answer` writes `paused` over a goal resumed since its check, which then keeps
its session (`engine.py:13`). Orderly clients meet none of them.

### Proofs

`GoalEngine_proofs.tla` proves, for any goals, sessions, requests, tokens and
budgets, with daemon crashes at any moment:

* for any clients: `GoalTypes`, `BaseInductive`, `FinishedLetGo`
  (`FinishedGoalsLetGo`) and `OnlyResumeTakes` (`OnlyResumeTakesSessions`);
* for any clients that wait for the recovery of the engine (`~Early`):
  `GatesFollow` (`GatesFollowOwner`). With `Early` the recovery forgets the owner
  of a session whose caps are pinned, which is the hazard at
  `goals/handlers.py:131`;
* for orderly clients (`Orderly`, `~Early`): `RunsExclude` (`Exclusive`) and the
  refinement `EngineImplementsLifecycle` (`ImplementsLifecycle`), from the
  invariant `OrderlyInv` (the lemma `OrderlyInductive`).

The code does not make clients orderly (`engine.py:181` itself reckons with two
`next` at once), so `OrderlyInv`, `SnapshotsAreOwn` and `GuardGoesWithGoal` say what a
client gets by waiting its turn, not what the engine enforces. The hazards of
`PROJECT.json` that only overlapping requests meet name no property of theirs.

The argument. `FinishedGoalsLetGo` is not inductive: one has to know that the
request that ended a goal is one that releases (`StageOfVerb`: which stages a
verb passes), that it looks at the session its goal owns (`RowsBound`,
`OwnersBound`: an owner is bound to the session it owns), that the goal it
addresses exists (`GoalsKnown`), and that the rows it read name the sessions
they still name (`ReadsBound`). `BaseInv` is their conjunction. The proof says
in `Effect` what one step of a request may do to itself, to the table and to
the owners, shows it once per action (`ServeEffect`), and shows from it that
each part is kept (`ServeBase`); arrivals, sessions and crashes are lemmas of
their own. The assumptions used are `VerbsKnown` and `AbsentValues`.

For orderly clients, `OrderlyInv` adds to `BaseInv` what waiting one's turn
buys: one request at a time about a goal (`Alone`), one starter at a time
(`OneStarter`), a recovery that runs alone (`RecoveryAlone`, which needs only
`~Early`), rows that are still what the request read (`ReadsFresh`) and that
allow what it is about to do (`GoalReady`). On these rest the statements about
sessions: who is starting owns the session it pins (`StartersOwn`), an owner runs
or is in the hands of a request that will run or release it (`OwnersBusy`), a
running goal owns its session once the recovery is over (`RunningOwns`), a
guard on a session is that of a goal which owns it, and is installed once
(`GuardsOwned`); and no step is done without a charge
(`EveryStepCharged`). None of the middle ones is inductive alone: `Exclusive` follows from `RunningOwns` while the
engine is up, but must be carried as such through a crash, when nobody owns
anything.

The proof classifies the steps: what a request does to a row (`Flips` it to
another status, `WritesOwn` fields, or nothing), to the owners (`Gives`,
`TakesFree`, or nothing); it collects what the invariant says of one request
(`OrderlyFacts`), and shows that a step keeps these facts of all other requests
(`OthersKeep`) because it touches the rows and sessions of its own goal only. The
refinement maps a goal to its status and the session it is bound to while it
runs; a step `Adds` a row, `Turns` one as the life cycle allows (`Allowed`), or
leaves the rows alone. The assumptions on constants are those of the module.

## 5. SessionDispatch

`SessionDispatch.tla` models what `daemon/server.py` does around the verbs of
one session: the lease gate, the lock, the counts, recovery with its one retry,
the freezer (`daemon/freeze.py`) and the reaper of abandoned agent sessions.

| State | Code |
|---|---|
| `current`, `sess`, `alive` | `_entries[name]`, `entry.session`, the Chromes on the profile |
| `stopped`, `record` | what is SIGSTOPped; `entry.freeze_pids` (and `entry.frozen`) |
| `age`, `agent`, `lease` | idle time in three grades, `flags["agent_started"]`, the lease holder |
| `inflight`, `holder`, `waiters`, `mutate` | `entry.inflight`, `entry.lock` with its FIFO, `mutate_lock` |
| `pc`, `job` | a request or one of the two loops: its verb, its entry, the page its handler drives, how often it acted |
| `overtaken` | history: a close took an entry somebody was using |

| Actions | Code |
|---|---|
| `VerbArrive` `VerbQueue` `VerbRun` `VerbReturns` `VerbRaises` | the session-verb branch of `dispatch` |
| `VerbCrashes` `Revive` `RelaunchDown` `RelaunchUp` `HealFails` | `_run_session_verb_with_recovery` |
| `WaitBegins` `WaitQueues` `WaitThawed` `WaitEnds` | the page waits, counted and unlocked |
| `CheckpointBegins` `CheckpointEnds` | the checkpoint of a goal step, neither counted nor locked |
| `GoArrive` `GoRun` `GoEnds` | a `go` (also `explore`'s) whose session is not running: it starts one and drives it, neither counted nor locked |
| `CloseArrive` `CloseRun` `CloseEnds` `StartRun` `StartEnds` `Lease` `Unlease` | registry verbs under `mutate_lock` |
| `FreezePoll` `FreezeQueues` `FreezeRun` `ReapPoll` `ReapRun` | `_freeze_if_idle`, the agent reaper |
| `Tick` `LeaseExpires` `ChromeDies` | time and failures |

An `asyncio.Lock` released with waiters is unlocked until the first of them
runs, and `locked()` says so: the model has that gap, and both background loops
look into it. `Tick` waits for woken coroutines, as an idle limit is minutes and
a turn of the loop is not.

### Run

`dispatch` (two requests, two clients, two entries, two Chromes, symmetry):
`VerbNeverStopped`, no Chrome is stopped under a verb that holds `entry.lock` or
a counted page wait;
`ActsOnce`, a verb that is not retry-safe acts at most once; `ReaperSparesTheBusy`,
the reaper spares who is leased or used although it decided before it waited.
Two entries are what a close and a re-start give; two requests are the one that
is overtaken and the one that overtakes it, besides the two loops.

The exemption `overtaken` is a limit of the code: a verb queued on the lock of
an entry that was closed runs under that lock on the page of the entry that
replaced it, where neither freezer nor other verbs see it. `server.py:647-649`
says verbs to one session serialise; `SessionLockExcludes` without the
exemption is violated. Also seen while modelling: the lease of a verb is checked
before it queues and not after (`server.py:696`); the checkpoint of a goal step
calls its handler directly (`goals/handlers.py:43`), so that the freezer may
stop Chrome under it, where `freeze.py:13-14` and `registry.py:333-334` say who
uses a session is counted or holds its lock.

So it is with a `go` that starts its own session (`SESSION_AUTOSTART_VERBS`;
`explore` runs the same handler). `server.py:210-212` says that the per-session
lock is still acquired after the auto-start. It is not: `server.py:657-659` runs
the handler with neither lock nor count, and the handler starts the session under
`mutate_lock` (`handlers.py:2611-2613`) and then drives its page. With the stage
`going` added to the stages of `NeverStopped` TLC finds `GoArrive`, `GoRun`,
`StartEnds`, `Tick`, `FreezePoll`: the freezer stops the Chrome under the
navigation, against `freeze.py:14`. Added to `SessionLockExcludes`, it finds a
locked verb that drives the same page. The reaper does not see that use either.
The properties speak of the users that take the lock or are counted.

### Proofs

`SessionDispatch_proofs.tla`, for any number of requests, clients, entries and
Chromes: `Inductive`, `VerbsRun` (`VerbNeverStopped`), `OneAtATime`
(`OneVerbPerPage`: one locked verb per page while no close overtakes),
`AtMostOnce` (`ActsOnce`), `BusyAreSpared` (`ReaperSparesTheBusy`),
`EverybodyIsServed` (`NobodyIsForgotten`: who waits for `entry.lock` is in its
queue, once, and in no other; a lock that is taken has somebody running inside).

The argument. That nothing stopped is driven needs to know that whatever is
stopped is on the record of the registered entry (`FrozenIsRecorded`), so that
the thaw a verb or wait begins with lifts all of it; that the freezer's second
look sees every user: a lock has the holder who is inside it (`HoldersHold`), a
count is the number of its waits (`WaitsCounted`), users keep the registered
entry (`UsersCurrent`). `RegistryHeld` keeps a start and a close apart;
`AttemptsKnown` is what `ActsOnce` needs. For `NobodyIsForgotten` the queues
join the invariant (`Served`): a waiter is appended once, leaves at the head when
it is woken, and a freezer or a wait queues like a verb. The assumptions are that the actors
differ and that there are finitely many requests.

## 6. SessionPages

`SessionPages.tla` models the pages of one session: which page verbs drive,
what clients refer to, the page events of `daemon/browser.py` and the page a
recovery ends up on. Verbs hold `entry.lock`, so one is under way; pages open,
close, crash and navigate between any two of its awaits.

| State | Code |
|---|---|
| `tabs`, `alive` | `context.pages`, a page being its place in it; whether the context answers |
| `loaded`, `crashed`, `mapped` | what shows a document; whose renderer died; whose aria refs are of the document shown |
| `active`, `frame` | `session.page`, `session.frame_ref` |
| `snapshot`, `handles` | `entry.snapshot`, `entry.handles` |
| `reviver` | `session._revive_task` |
| `verb` | the verb that holds the lock, what it drives, its attempt |

A page is a number and the places close up, as in the code's list: two states
that differ in the identity of closed pages are one. What belongs to a document
is "now" or, once its page has loaded another, "old".

| Actions | Code |
|---|---|
| `Popup` `PageCloses` `PageNavigates` `RendererCrashes` `BrowserDies` | `on_new_page`, `on_close`, and what tells nobody |
| `ReviverOpens` `ReviverEnds` | `_schedule_revive` and its task |
| `Begin` `Frame` `Navigated` `BackNowhere` `Settled` `Titled` `Done` `ClickedRef` `Mapped` `Evaluated` `Closed` `CloseAnswers` `NewOpens` `NewAnswers` `Fails` | the handlers, await by await |
| `CrashSeen` `Woken` `HealOpens` `HealAdopts` `Relaunch` `RelaunchFails` | `_run_session_verb_with_recovery`, `revive_page`, `relaunch` |

### Run

`pages` (at most two pages while clients and pages go on, and room for those a
verb, its recovery or the reviver may add; one handle; 13 verbs; fair): a `go` tells of the document it
loaded and leaves the session there (`GoTellsWhereItWent`); what is run again
after a crash drives a page that had not crashed (`RetryOnAFreshPage`); a ref
acts on the document of the last map (`RefsActOnTheirMap`); every verb is
answered (`EveryVerbAnswers`) and a lost page comes back (`PageComesBack`).
Two pages are what it takes to switch, to close one and to crash both.

Fairness: `WF` of a verb that waits for the page to settle (`wait_settled` is
bounded) or that the reviver has just woken. No other call has a time-out of its
own in every verb: `title()` (`handlers.py:2662`), `count()` (215), `evaluate` (333),
`close` and `new_page` are awaited with `entry.lock` held, and `handlers_extra.py:1857`
says what a wedged page would do there. So no fairness is assumed at these, and the two
liveness properties are stated under `DriverAnswers`: what the driver was asked, by
the verb and by the reviver, it answers some time. What they then say is of the
code: no verb awaits a reviver that has ended, and no last page is lost without
somebody asking for another. Without `DriverAnswers` both are false.

`Hasty = FALSE` says that the browser answers a `new_page` before anything
happens to that page. With `Hasty = TRUE` (a run that is not kept)
`GoTellsWhereItWent` is violated: the last page closes while a `page_new` is
unanswered, and the blank page of the reviver that queued behind it replaces the
one a following `go` was sent to. So is `RetryOnAFreshPage`: the fresh page closes
before it is adopted. So is `PageComesBack`: the replacement closes before its
`new_page` is answered, and the guard against two revivers swallows the request
for another. `RefsActOnTheirMap` holds with either value, as proved.

Other disagreements met while modelling: a recovery always opens a page
(`server.py:832,837` force it) though `browser.py:206-209` prefers one that is
open; `on_new_page` switches whatever asked for the page (`browser.py:428-429`
says otherwise); the close of any page moves `session.page`, also from one that
is still open; page_switch, page_new, page_close and popups keep the snapshot and
the frame, `reload` keeps the frame, a revived page keeps the handles; a read
that is run again on the blank page of a recovery answers ok; a `go` may load
its address twice; back and forward swallow crashes. Hence the condition
`snapshot.tab = verb.on.tab` in `RefsActOnTheirMap`: refs of a page that is not
driven are looked up on another one.

### Proofs

`SessionPages_proofs.tla` proves, for any bounds and any verbs,
`RefsAreCurrent` (`RefsActOnTheirMap`, with either `Hasty`), `GoesAreTold`
(`GoTellsWhereItWent`) and `RetriesAreFresh` (`RetryOnAFreshPage`), the last two
for `~Hasty`, without which they are false (see above).

For refs the invariant is `MapsHeld`: only open pages are mapped, and a snapshot
of a mapped page is of the document it shows. It survives the closing up of
places (`ClosesHeld`), which is where it could fail.

For the other two it is `PagesKept`. A reviver that was asked for works because
no page was left, and until its page has been answered that page is the only
one, blank and driven (`ReviverCalm`); a page that a verb or its recovery has
made is there, and no reviver is at work (`FreshHeld`): so neither takes over
from the other. The pages that had crashed never include the one the recovery
made, and there are none if the verb waits for the reviver (`BadKnown`); a `go`
during which no page moved drives the session's page (`GoOnItsPage`). Page events
are shown once to preserve what concerns the verb (`EventVerb`), and so are the
steps that change nothing but the verb (`VerbGoesOn`).

`PagesAreTyped` proves `TypeOK`, again for `~Hasty`: a verb or its recovery adds
one page at most to the `MaxTabs` that clients and pages may open (`FewPages`),
so that with `MaxTab` above `MaxTabs` the page events leave no page out.

`AwaitedIsAtWork` proves, with either `Hasty`, that the reviver a crashed verb
awaits is at work (`AwaitsAtWork`): the end of its task wakes the verb, and a burst
of closes leaves the one task running. This is what `EveryVerbAnswers` rests on. It
does not say that the page comes back: with `Hasty` the guard may swallow the request
for one (see above), and the verb then opens a page itself (`Woken`, `HealOpens`).

## 7. DaemonSingleton

`DaemonSingleton.tla` models `run`, `_acquire_singleton_lock`, the probe,
`_check_paths` and the shutdown of `daemon/server.py`. Files are inodes: a
`flock` and a listening socket stay with theirs when the path is removed. State:
what the three paths name, who locks and who listens on each inode, and per
process `_lock_fd`, `_server`, `_sock_id`, `_unbindable_sock_id` and what its
watchdog saw. `Start` is `run` (`Acquire` `Probe` `ConcedesByPidfile`
`Supersede` `Bind` `BindDone` `BindFails`), `Watchdog` is `_check_paths`
(`CheckPid` `CheckSocket` `SocketAnswers` `SocketRefuses` `Rebind` `RebindDone`
`RebindFails` `Displaced`), `Down` is shutdown and crash; `Tamper` removes or
replaces a file, `OldEnds` ends a daemon of a version without the lock.

Run `daemon` (two daemons, nine inodes, two tamperings, an old daemon that may
serve at first): `NoOrphan`, a running daemon is the one clients reach as long
as nobody touches socket or lock file; `OneDaemon`; `SparesLiveSockets`, nobody
removes or replaces the socket of another; `SocketComesBack`, under `WF` of the
watchdog, a periodic task. Two tamperings are what it takes to remove a socket
and then what replaced it. Nine inodes never run out: the guard `Room` never
bites (checked in a run that is not kept; with eight it does).

Two remarks. `_sock_id` is read after the await of `start_unix_server`; two
daemons that bind at once (after the lock file was removed) may each remember
the other's, which `SocketComesBack` and `SparesLiveSockets` exempt. A client
that spawned a daemon which left because another runs goes on to poll the
socket, which is right (`client.py`).

`DaemonSingleton_proofs.tla`, for any daemons, inodes and tamperings:
`Inductive`, `AtMostOneRuns` (`OneDaemon`), `NeverOrphaned` (`NoOrphan`),
`LiveSocketsSpared` (`SparesLiveSockets`). The invariant says that whoever is
past its start holds the lock of the file at the path (`LockHeld`), which
sockets it listens on and knows (`SocketsKnown`), that undisturbed the path
names its own (`PathIsOwn`), and that who is about to bind knows nobody listens
there (`PathIsFree`). Liveness is only model-checked.

## 8. FileChooser

`FileChooser.tla` models `daemon/file_chooser.py`: `Arm` is `upload_next`;
`ChooserOpens`, `ChooserIgnored`, `ChooserTakes`, `ChooserFills`,
`ChooserRefused`, `ChooserFilled`, `ChooserFails` are `_on_chooser` await by
await; `Expire` is the timer; `PageOpens`, `PageCloses`, `PageCrashes` the
hooks; `RelaunchBegins`, `BrowserGone`, `RelaunchEnds`, `SessionCloses` what
abandons an arm. `armed`, `current`, `last`, `installed` are the fields of the
state dict; `timer` and `watch` say for which arm the timer and the hooks are
set; `given` and `filled` are history.

Run `chooser` (three arms, one with several files, two pages, two choosers at
once): files are given once (`GivenOnce`), `upload_status` tells the truth
(`OutcomeIsTrue`), a late outcome of an older arm is dropped
(`OnlyTheNewestReports`), interception ends (`InterceptionEnds`). Three arms: one
being filled, one that replaces it, one that finds what the two left. Fairness:
the timer fires, handlers run and `set_files` has a time-out. `owner_frame`
(`file_chooser.py:112`) has none: a page that never answers it keeps the arm taken
and interception on, so `InterceptionEnds` is stated for pages that answer it
(`OwnersAnswer`), and no step out of "taken" is fair. The system may
stop when its arms are used up, so that deadlock is not checked.

`OutcomeIsTrue` says nothing of `abandoned`: a relaunch during a fill reports
"abandoned before a chooser opened" although the page may have the files.

`FileChooser_proofs.tla`, for any arms, pages and choosers: `Inductive`,
`FilesGivenOnce`, `ReportsAreTrue`, `NewestReports`, `InterceptionHasAnEnd`. The
last is the safety half of `InterceptionEnds`: interception is for an arm that is
not settled, and its own timer or the one chooser that took it will settle it
(`SomebodySettles`). The invariant accounts for
every arm (armed, in the hands of one chooser, or never again: `ArmsAccounted`)
and ties listeners, timer and hooks to the armed one (`ArmedIsWatched`,
`ListensEverywhere`).

## 9. Ambient

`Ambient.tla` models the protocol between the ambient mover
(`daemon/ambient.py`) and the dispatcher: `verb_begin`, `settle`, `verb_end`,
`enable`, `disable`, `reap`, the burst. `Tasks` run one verb of each kind the
code tells apart. State: the registered `_State` and its fields (`busy`,
`pinned`, `parked`, `lastWheel`), the burst of every state object, also of those
replaced, the lock and count it asks about; `looked`, `parkedByAgent` and `tail`
(the page still scrolls) say what an agent relies on.

Run `ambient` (two requests, two movers, two entries, symmetry):
`CountedVerbsUndisturbed`, no input while a verb drives the page;
`LookStaysTrue` and `ParkedStays`, what was seen stays in view and a parked
pointer stays put until a verb acts; `CoordinatesOnStillPage`, no verb of
`COORDINATE_VERBS` runs while a notch sent before it still scrolls. Two requests
are one that drives and one that begins or ends meanwhile; the second mover is
the one `humanize_ambient on` makes.

`map`, `map_compact` and `diff_map` pin the viewport but are not in
`COORDINATE_VERBS` (`ambient.py:149-152`): they do not settle, and may read
positions that the end of a notch still moves. `CoordinatesOnStillPage` says
nothing of them, and `LookStaysTrue` promises them only that no new notch is
sent.

`MoverYields` without the exemption `muddled` is violated: `humanize_ambient on`
makes a new `_State` while an unlocked plugin verb is in flight
(`server.py:554-575`), and nothing counts that verb for the new mover. So it is
with a `go` that started its own session (`server.py:651-653`): it drives a page
whose mover, if one is switched on meanwhile, never counted it.

`Ambient_proofs.tla`, for any requests, movers and entries: `Inductive`,
`VerbsUndisturbed`, `LooksHold`, `PointerHolds`, `CoordinatesAreStill`. The
invariant: only the registered mover runs (`MoverIsRegistered`), its count is
that of the verbs in flight unless muddled (`Counts`), and it knows what the
agent relies on (`Respects`).

## 10. LiveView

`LiveView.tla` models `liveview.py`, the verbs `liveview_start` and
`liveview_stop` (`daemon/handlers_extra.py`), and of the rest what they touch:
sessions that start, close and park, and `entry.lock`, here one queue whose
head holds it.

| State | Code |
|---|---|
| `up`, `life`, `parked`, `lock` | sessions running, their present entry, frozen ones, `entry.lock` |
| `server`, `site`, `keys` | `daemon._liveview`; the stages of a server; the names of its table of clients |
| `viewer` | a WebSocket: its stage, whether it is in the table, shut, stalled |
| `loops` | the frame loops: at which await, whom the frame goes to |
| `req` | a verb under way |

`Ask` `Granted` `Verb` `VerbEnds` `StartAgain` `Start` `StartFails` `StartEnds`
`StopAgain` `Stop` `StopBreaks` `StopEnds` are the verbs; `Connect` `Join`
`JoinFails` `Greeted` `Input` `InputEnds` `Leave` are `_handle_ws` and
`_handle_takeover`; `LoopEnds` `Shoot` `Shot` `ShotFails` `Sent` `SendFails` are
`_frame_loop`; `Shut` and `Stall` are the peers.

Run `liveview` (two sessions, of which one is started, closed and parked; two
viewers, one that drives, one that may stop reading; one verb at a time; one
server object, one entry object per name): `LoopsFollowViewers`, one loop per
session and none of a stopped server, and whoever has joined a session not closed
since is on its list and streamed by that loop; `FramesKeepComing`, who watches goes on
seeing frames; `VerbsAnswered`, verbs are answered while pages answer. Two viewers are what it takes to join while
another leaves; the second session is the one a viewer joins while a server
stops.

Fairness: `WF` of each loop, of a handler that reads, and of a verb but where it
drives a page (the loop of the daemon runs what is ready, locks are FIFO, a
screenshot times out), and `SF` of a screenshot, as a page that can be driven does
not fail every one of them. Nothing is assumed of what waits for a page without a
timeout: a verb (`title()`, `count()`, `evaluate`: `handlers.py:2662`, 215, 333),
a takeover input (`liveview.py:550-568`), a hello. Such a call on a wedged page
holds `entry.lock` for the daemon's life, as `handlers_extra.py:1857` says of
another one. `VerbsAnswered` says so in its hypothesis: while no page that is not
parked leaves a call without an answer for ever (`PagesAnswer`), verbs are
answered. A viewer that stops reading blocks its loop, which `Watches` exempts.

What the exemptions name, and what else came up:

* `Wedged`: a takeover input takes the lock of a parked session without thawing
  it (`liveview.py:545`); the verbs that would are queued behind it, and
  `server.py:1054` "The next verb on a session thaws it in the dispatcher" does
  not come true. A parked session streams nothing either.
* `lost`: a viewer connected while its session is closed and started again gets
  no frames until another one joins.
* two `liveview_start` on different sessions both find no server; the one that
  comes up first is hidden, and nobody can stop it (`handlers_extra.py:2059`
  "One server per daemon"). With one verb at a time the run has no such case.
* `stop()` walks its table across awaits: a viewer that joins another session
  meanwhile makes it fail with the site up and the server not running, which
  later starts take for a server (`StopBreaks`); and a second stop that ends
  late forgets a newer server.
* `liveview_start` and `liveview_stop` are session verbs: they need a running
  session and queue behind its verbs.

`LiveView_proofs.tla` proves `Inductive`, `WantedStreams` (`StreamsAreWanted`)
and `LoopsFollow` (`LoopsFollowViewers`) for any sessions, viewers, verbs and
servers, concurrent starts and stops included. The invariant keeps loops to one
per server and name and their servers running, as `Greeted` looks and starts in
one turn of the loop. `LoopsFollow` adds what holds of a connection (`Seated`):
its server has not been forgotten, its session is up unless it was told
otherwise, it is on the list from its hello on until it is closed, and from then
on a loop streams its session; a loop looks at its list and ends in one turn.
The type of `lock` is not part of the invariant (the library has no facts about
`SelectSeq`); the other types are (`Typed`). Liveness is only model-checked.

## 11. What is not modelled

* Of the modelled components: `close_all` (shutdown, `session_close_all`) and the self-shutdown of
  an idle daemon; the goal-caps gate and the safety scan of the dispatcher;
  notifiers, artifacts, event payloads, spend and wall arithmetic and database
  errors of goals; allowlist parsing; launch flags, cookies and storage; live view
  tokens and HTML pages. None of them shares state with what the properties
  speak of, but for `close_all` and database errors, which are listed as hazards
  or named in section 2.
* Most page verbs (fill, type, select, screenshot, storage and the like) are one
  call on a page under `entry.lock`: to the daemon they are the verb `click` or
  `text` of SessionPages and the verb of SessionDispatch.
* The captures and rules of a session (`network_*`, `console_*`, `har_*`,
  `dialog_policy`, `download_arm`, `route_add`, `route_clear` in
  `daemon/handlers_extra.py`) attach listeners to its pages or context and keep
  what they collect on the session. Each is written by one locked verb and read
  by another, and no other component looks at it; a relaunch starts a session
  without them.
* The other half of the goal wall in a relaunch: `relaunch` awaits
  `ensure_nav_guard` before it puts the new session in the entry
  (`registry.py:1041-1046`), so a goal that takes or leaves the session in that
  window pins or clears the old one, and the new one keeps the old wall.
* Secrets, observation ranking, vision spend, extraction, search, the safety
  patterns and the oracle are text or image processing inside one verb.
* Plugin reload and skill matching have no await.
* The command line, the SDK, the MCP server, REST, the fleet check and set-up are
  clients of the daemon, one socket call per operation.
* Launch overrides, capabilities and the file policy are predicates over
  arguments and files without state of their own.

These take up most of the lines of the repository; what is modelled is where
its concurrency is.

TLAPS does not do liveness under fairness: `VerbsAnswered` and `ClosesAnswered`
of SessionRegistry, `InterceptionEnds`, `SocketComesBack`, `EveryVerbAnswers`,
`PageComesBack`, `FramesKeepComing` and `VerbsAnswered` of LiveView are
model-checked only. What they rest on is proved where a theorem can say it:
`EverybodyIsServed` twice, `AwaitedIsAtWork`, `InterceptionHasAnEnd`, `LoopsFollow`
say that whoever waits has somebody at work for it; that this somebody goes on is
the fairness, and for what no time-out bounds a hypothesis of the property
(sections 3, 6, 8 and 10). `SnapshotsAreOwn` and `GuardGoesWithGoal` of GoalEngine,
which speak of clients that wait their turn, are model-checked only. Every other
property that a passing run checks, the refinement of GoalLifecycle included, is
also a theorem or a lemma, for every value of the constants that its hypotheses
allow. Hazards without a property are in
`PROJECT.json` with the reason.
