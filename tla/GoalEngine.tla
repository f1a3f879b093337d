----------------------------- MODULE GoalEngine -----------------------------
(***************************************************************************)
(* The goal engine (goals/engine.py) over its SQLite store and the daemon  *)
(* callbacks that pin a goal's limits on a session (goals/handlers.py).    *)
(*                                                                         *)
(* Every store call runs in a worker thread: `_db` submits one statement   *)
(* and awaits it.  A step of this model is either the execution of such a  *)
(* statement, or the loop code that acts on memory after one; loop code    *)
(* that only submits the next statement belongs to the step before it.     *)
(* Goal rows survive a crash of the daemon, everything else does not.      *)
(***************************************************************************)
EXTENDS Naturals

CONSTANTS
  Goals,      \* goal ids
  Sessions,   \* session names goals are bound to
  Requests,   \* goal verbs being served
  Tokens,     \* client_tokens of steps
  Gated,      \* the goals that carry caps and a domain allowlist
  Verbs,      \* the verbs the clients use
  MaxSteps,   \* budget max_steps of every goal
  MaxEvents,  \* bound: no step is sent to a goal with so many step_done events
  MaxCharges, \* bound: nor to one with so many charged steps
  Orderly,    \* clients keep to Heeds, below
  Early,      \* goal verbs may arrive while the engine recovers
  NoGoal, NoSession, NoToken

AllVerbs == {"new", "next", "step", "ask", "answer", "done", "fail", "cancel",
             "pause", "resume"}

ASSUME VerbsKnown == Verbs \subseteq AllVerbs
ASSUME BoundsAreNat == {MaxSteps, MaxEvents, MaxCharges} \subseteq Nat
ASSUME FlagsAreBoolean == {Orderly, Early} \subseteq BOOLEAN
ASSUME GatedAreGoals == Gated \subseteq Goals
ASSUME AbsentValues ==
  NoGoal \notin Goals /\ NoSession \notin Sessions /\ NoToken \notin Tokens

VARIABLES
  rows,     \* the goals table
  served,   \* goal_events: number of step_done events of each goal
  engine,   \* daemon._goal_engine: none, published and recovering, or up
  owner,    \* _session_owner
  live,     \* sessions with a live Chrome
  gate,     \* the goal whose caps and allowlist are pinned on the session
  guard,    \* sessions with _nav_guard_installed
  orphans,  \* sessions with a guard route that nobody will unroute
  pc, job   \* the requests

memory == <<owner, gate, guard, orphans>>
vars == <<rows, served, engine, live, memory, pc, job>>

Terminal == {"done", "failed", "cancelled"}
Statuses == {"absent", "pending", "running", "paused", "needs_input"} \cup Terminal

Rows == [status : Statuses, session : Sessions \cup {NoSession}, steps : Nat,
         tokens : SUBSET Tokens]
NoRow == [status |-> "absent", session |-> NoSession, steps |-> 0, tokens |-> {}]

PCs == {"idle", "recList", "recFlip", "insert", "listPaused", "pickPaused",
        "listPending", "pickPending", "pinning", "startWrite", "restore",
        "stepRead", "checkpoint", "stepEvent", "stepFail", "read", "write",
        "release", "unpinning", "resumeCheck", "resumeWrite", "resumeGet",
        "resumeClaim"}

\* read: the rows this request got from its last query, NoRow for the others.
Jobs == [verb : AllVerbs \cup {"none"}, goal : Goals \cup {NoGoal},
         token : Tokens \cup {NoToken}, read : [Goals -> Rows],
         route : {"none", "install", "remove"}]
NothingRead == [g \in Goals |-> NoRow]
NoJob == [verb |-> "none", goal |-> NoGoal, token |-> NoToken,
          read |-> NothingRead, route |-> "none"]

TypeOK ==
  /\ rows \in [Goals -> Rows]
  /\ served \in [Goals -> Nat]
  /\ engine \in {"none", "recovering", "up"}
  /\ owner \in [Sessions -> Goals \cup {NoGoal}]
  /\ live \subseteq Sessions
  /\ gate \in [Sessions -> Goals \cup {NoGoal}]
  /\ guard \subseteq Sessions
  /\ orphans \subseteq Sessions
  /\ pc \in [Requests -> PCs]
  /\ job \in [Requests -> Jobs]

Init ==
  /\ rows = [g \in Goals |-> NoRow]
  /\ served = [g \in Goals |-> 0]
  /\ engine = "none"
  /\ owner = [s \in Sessions |-> NoGoal]
  /\ live = {}
  /\ gate = [s \in Sessions |-> NoGoal]
  /\ guard = {}
  /\ orphans = {}
  /\ pc = [t \in Requests |-> "idle"]
  /\ job = [t \in Requests |-> NoJob]

Status(g) == rows[g].status
Goal(t) == job[t].goal
InFlight(verbs) == \E u \in Requests : job[u].verb \in verbs

Move(t, stage) == pc' = [pc EXCEPT ![t] = stage] /\ UNCHANGED job
End(t) == pc' = [pc EXCEPT ![t] = "idle"] /\ job' = [job EXCEPT ![t] = NoJob]
Query(t, found, stage) ==
  /\ pc' = [pc EXCEPT ![t] = stage]
  /\ job' = [job EXCEPT ![t].read =
                [g \in Goals |-> IF g \in found THEN rows[g] ELSE NoRow]]
Update(g, row) == rows' = [rows EXCEPT ![g] = row] /\ UNCHANGED served

WithStatus(st) == {g \in Goals : Status(g) = st}
SetStatus(g, st) == Update(g, [rows[g] EXCEPT !.status = st])

------------------------------------------------------------------------------
(* Requests.                                                                 *)

FirstStage(v) == CASE v = "next" -> "listPaused"
                   [] v = "new" -> "insert"
                   [] v = "step" -> "stepRead"
                   [] OTHER -> "read"

(* What orderly clients heed: one request at a time about a goal; goals are *)
(* started, paused and cancelled one after the other; only the driver of a  *)
(* running goal steps or ends it; an answer follows a question.             *)
Heeds(v, g) ==
  /\ g # NoGoal => \A u \in Requests : Goal(u) # g
  /\ v \in {"next", "resume"} => ~InFlight({"next", "resume", "pause", "cancel"})
  /\ v \in {"pause", "cancel"} => ~InFlight({"next", "resume"})
  /\ v \in {"step", "ask", "done", "fail"} => Status(g) = "running" /\ engine = "up"
  /\ v = "answer" => Status(g) = "needs_input"

\* The first goal verb after a daemon start publishes the engine, then recovers.
Arrive(t, v, g, k) ==
  /\ pc[t] = "idle"
  /\ (v = "next") <=> (g = NoGoal)
  /\ g # NoGoal => ((v = "new") <=> (Status(g) = "absent"))
  /\ v = "new" => \A u \in Requests : Goal(u) # g      \* a new ULID
  /\ k # NoToken => v = "step"
  /\ v = "step" => served[g] < MaxEvents /\ rows[g].steps < MaxCharges
  /\ engine = "recovering" => Early
  /\ Orderly => Heeds(v, g)
  /\ engine' = IF engine = "none" THEN "recovering" ELSE engine
  /\ pc' = [pc EXCEPT ![t] = IF engine = "none" THEN "recList" ELSE FirstStage(v)]
  /\ job' = [job EXCEPT ![t] = [NoJob EXCEPT !.verb = v, !.goal = g, !.token = k]]
  /\ UNCHANGED <<rows, served, live, memory>>

------------------------------------------------------------------------------
(* on_daemon_restart: one running goal after the other, then the owners.     *)

RecoverList(t) ==
  /\ pc[t] = "recList"
  /\ Query(t, WithStatus("running"), "recFlip")
  /\ UNCHANGED <<rows, served, engine, live, memory>>

RecoverFlip(t, g) ==
  /\ pc[t] = "recFlip" /\ job[t].read[g] # NoRow
  /\ SetStatus(g, "paused")
  /\ job' = [job EXCEPT ![t].read[g] = NoRow]
  /\ UNCHANGED <<engine, live, memory, pc>>

RecoverClear(t) ==
  /\ pc[t] = "recFlip" /\ job[t].read = NothingRead
  /\ owner' = [s \in Sessions |-> NoGoal]
  /\ engine' = "up"
  /\ Move(t, FirstStage(job[t].verb))
  /\ UNCHANGED <<rows, served, live, gate, guard, orphans>>

------------------------------------------------------------------------------
(* create, spawn.                                                            *)

Insert(t, s) ==
  /\ pc[t] = "insert"
  /\ Update(Goal(t), [NoRow EXCEPT !.status = "pending", !.session = s])
  /\ End(t)
  /\ UNCHANGED <<engine, live, memory>>

------------------------------------------------------------------------------
(* next, _start.                                                             *)

List(t) ==
  /\ \/ pc[t] = "listPaused" /\ Query(t, WithStatus("paused"), "pickPaused")
     \/ pc[t] = "listPending" /\ Query(t, WithStatus("pending"), "pickPending")
  /\ UNCHANGED <<rows, served, engine, live, memory>>

\* Mutant: the guard lingers after the goal, as it once did.
RouteChangeLingers(s, pinned) ==
  IF s \in live /\ pinned /\ s \notin guard THEN "install" ELSE "none"

\* domains_cb acts on the session object it found: flags now, the route later.
RouteChange(s, pinned) ==
  CASE s \in live /\ pinned /\ s \notin guard -> "install"
    [] s \in live /\ ~pinned /\ s \in guard -> "remove"
    [] OTHER -> "none"

\* Mutant: caps_cb and domains_cb do not unpin.
PinSticky(t, g, s, stage) ==
  LET change == RouteChange(s, g \in Gated)
  IN /\ gate' = IF s \in live /\ g \in Gated THEN [gate EXCEPT ![s] = g] ELSE gate
     /\ guard' = IF change = "remove" THEN guard \ {s} ELSE guard
     /\ pc' = [pc EXCEPT ![t] = stage]
     /\ UNCHANGED orphans

Pin(t, g, s, stage) ==
  LET change == RouteChange(s, g \in Gated)
  IN /\ gate' = [gate EXCEPT ![s] = IF s \in live /\ g \in Gated THEN g ELSE NoGoal]
     /\ guard' = IF change = "remove" THEN guard \ {s} ELSE guard
     /\ pc' = [pc EXCEPT ![t] = stage]
     /\ UNCHANGED orphans

\* Mutant: _start pins the limits but does not record the owner.
ClaimUnowned(t, g) ==
  LET s == job[t].read[g].session
  IN /\ Pin(t, g, s, "pinning")
     /\ job' = [job EXCEPT ![t].goal = g,
                           ![t].route = RouteChange(s, g \in Gated)]
     /\ UNCHANGED <<rows, served, engine, live, owner>>

\* _start up to its first await.
Claim(t, g) ==
  LET s == job[t].read[g].session
  IN /\ owner' = [owner EXCEPT ![s] = g]
     /\ Pin(t, g, s, "pinning")
     /\ job' = [job EXCEPT ![t].goal = g,
                           ![t].route = RouteChange(s, g \in Gated)]
     /\ UNCHANGED <<rows, served, engine, live>>

\* Mutant: `next` does not look whether the session is busy.
CandidatesBusy(t) == {g \in Goals : job[t].read[g] # NoRow}

\* Goals of the list just read whose session is free, or already their own.
Candidates(t) == {g \in Goals : /\ job[t].read[g] # NoRow
                                /\ owner[job[t].read[g].session] \in {NoGoal, g}}

Pick(t, g) ==
  /\ pc[t] \in {"pickPaused", "pickPending"} /\ g \in Candidates(t)
  /\ Claim(t, g)

PickNone(t) ==
  /\ Candidates(t) = {}
  /\ \/ pc[t] = "pickPaused" /\ Query(t, {}, "listPending")
     \/ pc[t] = "pickPending" /\ End(t)
  /\ UNCHANGED <<rows, served, engine, live, memory>>

\* The browser answers (a session closed meanwhile took its routes with it). Of
\* two guards installed at once only the last one's handler is remembered.
Routed(t) ==
  LET s == rows[Goal(t)].session
      install == job[t].route = "install"
  IN /\ guard' = IF install THEN guard \cup {s} ELSE guard
     /\ orphans' = IF install /\ s \in guard THEN orphans \cup {s} ELSE orphans
     /\ UNCHANGED <<rows, served, engine, live, owner, gate>>

Pinned(t) ==
  /\ pc[t] = "pinning"
  /\ Routed(t)
  /\ pc' = [pc EXCEPT ![t] = "startWrite"]
  /\ job' = [job EXCEPT ![t].route = "none"]

\* status and consumed, the latter as it was when the goal was listed.
StartWrite(t) ==
  /\ pc[t] = "startWrite"
  /\ LET g == Goal(t)
     IN Update(g, [rows[g] EXCEPT !.status = "running",
                                  !.steps = job[t].read[g].steps])
  /\ Query(t, {}, "restore")
  /\ UNCHANGED <<engine, live, memory>>

Restored(t) ==
  /\ pc[t] = "restore"
  /\ End(t)
  /\ UNCHANGED <<rows, served, engine, live, memory>>

------------------------------------------------------------------------------
(* step.                                                                     *)

StepRefused(t) ==
  /\ pc[t] = "stepRead"
  /\ Status(Goal(t)) # "running" \/ job[t].token \in rows[Goal(t)].tokens
  /\ End(t)
  /\ UNCHANGED <<rows, served, engine, live, memory>>

\* The spend and wall budgets may be exceeded at any step.
StepRead(t) ==
  /\ pc[t] = "stepRead"
  /\ Status(Goal(t)) = "running" /\ job[t].token \notin rows[Goal(t)].tokens
  /\ \/ Query(t, {Goal(t)}, "stepFail")
     \/ rows[Goal(t)].steps + 1 <= MaxSteps /\ Query(t, {Goal(t)}, "checkpoint")
  /\ UNCHANGED <<rows, served, engine, live, memory>>

\* Mutant: a step is recorded but not counted.
ChargedNothing(t, st) ==
  LET g == Goal(t) read == job[t].read[g]
  IN Update(g, [rows[g] EXCEPT !.status = st, !.steps = read.steps,
                               !.tokens = read.tokens \cup ({job[t].token} \ {NoToken})])

\* What a step writes, from the row it read at its beginning.
Charged(t, st) ==
  LET g == Goal(t) read == job[t].read[g]
  IN Update(g, [rows[g] EXCEPT !.status = st, !.steps = read.steps + 1,
                               !.tokens = read.tokens \cup ({job[t].token} \ {NoToken})])

StepFail(t) ==
  /\ pc[t] = "stepFail"
  /\ Charged(t, "failed")
  /\ Query(t, {}, "release")
  /\ UNCHANGED <<engine, live, memory>>

StepWrite(t) ==
  /\ pc[t] = "checkpoint"
  /\ Charged(t, Status(Goal(t)))
  /\ Query(t, {}, "stepEvent")
  /\ UNCHANGED <<engine, live, memory>>

StepEvent(t) ==
  /\ pc[t] = "stepEvent"
  /\ served' = [served EXCEPT ![Goal(t)] = @ + 1]
  /\ End(t)
  /\ UNCHANGED <<rows, engine, live, memory>>

------------------------------------------------------------------------------
(* ask, answer, done, fail, cancel, pause, resume.                           *)

\* Mutant: cancel does not ask whether the goal is over.
AcceptsOver(v) == CASE v = "ask" -> {"running", "paused"}
                    [] v = "answer" -> {"needs_input"}
                    [] v = "pause" -> {"running"}
                    [] v = "resume" -> {"paused", "needs_input"}
                    [] OTHER -> Statuses

Accepts(v) == CASE v = "ask" -> {"running", "paused"}
                [] v = "answer" -> {"needs_input"}
                [] v = "pause" -> {"running"}
                [] v = "resume" -> {"paused", "needs_input"}
                [] v = "cancel" -> Statuses \ Terminal
                [] OTHER -> Statuses

Result(v) == CASE v = "ask" -> "needs_input"
               [] v = "done" -> "done"
               [] v = "fail" -> "failed"
               [] v = "cancel" -> "cancelled"
               [] OTHER -> "paused"

Read(t) ==
  /\ pc[t] = "read"
  /\ IF Status(Goal(t)) \notin Accepts(job[t].verb) THEN End(t)
     ELSE IF job[t].verb = "resume" THEN Query(t, {Goal(t)}, "resumeCheck")
     ELSE Move(t, "write")
  /\ UNCHANGED <<rows, served, engine, live, memory>>

\* answer only writes; the others give the session back.
Write(t) ==
  /\ pc[t] = "write"
  /\ SetStatus(Goal(t), Result(job[t].verb))
  /\ IF job[t].verb = "answer" THEN End(t) ELSE Move(t, "release")
  /\ UNCHANGED <<engine, live, memory>>

Owned(t) == owner[rows[Goal(t)].session] = Goal(t)

\* Mutant: _release unpins the limits but forgets the owner.
ReleaseKeeps(t) ==
  /\ pc[t] = "release" /\ Owned(t)
  /\ LET s == rows[Goal(t)].session
     IN /\ Pin(t, NoGoal, s, "unpinning")
        /\ job' = [job EXCEPT ![t].route = RouteChange(s, FALSE)]
  /\ UNCHANGED <<rows, served, engine, live, owner>>

\* _release: nothing to do for a goal that does not own its session.
Release(t) ==
  /\ pc[t] = "release" /\ Owned(t)
  /\ LET s == rows[Goal(t)].session
     IN /\ owner' = [owner EXCEPT ![s] = NoGoal]
        /\ Pin(t, NoGoal, s, "unpinning")
        /\ job' = [job EXCEPT ![t].route = RouteChange(s, FALSE)]
  /\ UNCHANGED <<rows, served, engine, live>>

ReleaseNone(t) ==
  /\ pc[t] = "release" /\ ~Owned(t)
  /\ End(t)
  /\ UNCHANGED <<rows, served, engine, live, memory>>

Unpinned(t) ==
  /\ pc[t] = "unpinning"
  /\ Routed(t)
  /\ End(t)

ResumeCheck(t) ==
  /\ pc[t] = "resumeCheck"
  /\ LET g == Goal(t) read == job[t].read[g]
     IN \/ /\ owner[read.session] \notin {NoGoal, g}
           /\ End(t)
           /\ UNCHANGED <<rows, served, engine, live, memory>>
        \/ /\ owner[read.session] \in {NoGoal, g} /\ read.status = "needs_input"
           /\ Move(t, "resumeWrite")
           /\ UNCHANGED <<rows, served, engine, live, memory>>
        \/ /\ owner[read.session] \in {NoGoal, g} /\ read.status = "paused"
           /\ Claim(t, g)

ResumeWrite(t) ==
  /\ pc[t] = "resumeWrite"
  /\ SetStatus(Goal(t), "paused")
  /\ Query(t, {}, "resumeGet")
  /\ UNCHANGED <<engine, live, memory>>

ResumeGet(t) ==
  /\ pc[t] = "resumeGet"
  /\ Query(t, {Goal(t)}, "resumeClaim")
  /\ UNCHANGED <<rows, served, engine, live, memory>>

ResumeClaim(t) ==
  /\ pc[t] = "resumeClaim"
  /\ Claim(t, Goal(t))

------------------------------------------------------------------------------
(* The registry starts and closes sessions; the daemon may die.              *)

SessionUp(s) ==
  /\ s \notin live
  /\ live' = live \cup {s}
  /\ UNCHANGED <<rows, served, engine, memory, pc, job>>

SessionDown(s) ==
  /\ s \in live
  /\ live' = live \ {s}
  /\ gate' = [gate EXCEPT ![s] = NoGoal]
  /\ guard' = guard \ {s}
  /\ orphans' = orphans \ {s}
  /\ job' = [t \in Requests |->
               IF Goal(t) # NoGoal /\ rows[Goal(t)].session = s
               THEN [job[t] EXCEPT !.route = "none"] ELSE job[t]]
  /\ UNCHANGED <<rows, served, engine, owner, pc>>

Crash ==
  /\ engine # "none"
  /\ engine' = "none"
  /\ owner' = [s \in Sessions |-> NoGoal]
  /\ live' = {}
  /\ gate' = [s \in Sessions |-> NoGoal]
  /\ guard' = {}
  /\ orphans' = {}
  /\ pc' = [t \in Requests |-> "idle"]
  /\ job' = [t \in Requests |-> NoJob]
  /\ UNCHANGED <<rows, served>>

Serve(t) ==
  \/ RecoverList(t) \/ RecoverClear(t)
  \/ \E g \in Goals : RecoverFlip(t, g) \/ Pick(t, g)
  \/ \E s \in Sessions : Insert(t, s)
  \/ List(t) \/ PickNone(t) \/ Pinned(t) \/ StartWrite(t) \/ Restored(t)
  \/ StepRefused(t) \/ StepRead(t) \/ StepFail(t) \/ StepWrite(t) \/ StepEvent(t)
  \/ Read(t) \/ Write(t) \/ Release(t) \/ ReleaseNone(t) \/ Unpinned(t)
  \/ ResumeCheck(t) \/ ResumeWrite(t) \/ ResumeGet(t) \/ ResumeClaim(t)

Next ==
  \/ \E t \in Requests, v \in Verbs, g \in Goals \cup {NoGoal},
        k \in Tokens \cup {NoToken} : Arrive(t, v, g, k)
  \/ \E t \in Requests : Serve(t)
  \/ \E s \in Sessions : SessionUp(s) \/ SessionDown(s)
  \/ Crash

Spec == Init /\ [][Next]_vars

------------------------------------------------------------------------------
(* Properties of every client.                                               *)

\* Requests that will still give back, or run, the goal they address.
OwesRelease(t) == pc[t] \in {"release", "pinning", "startWrite"}

\* A goal that is done, failed or cancelled does not keep its session: whoever
\* ended it is about to release it, or somebody is just starting it
\* (_start, _release; engine.py:174-186, 422-427).
FinishedGoalsLetGo ==
  \A s \in Sessions : LET g == owner[s] IN
    g # NoGoal /\ Status(g) \in Terminal =>
      \E t \in Requests : Goal(t) = g /\ OwesRelease(t)

\* The caps and allowlist pinned on a session are those of the goal that owns
\* it: none stay behind when a goal gives its session back (_apply_caps,
\* _apply_domains at each change of owner).
GatesFollowOwner ==
  \A s \in Sessions : gate[s] # NoGoal => gate[s] = owner[s]

\* Only `resume` of a goal that waited for an answer may take a session from
\* the goal that owns it: `next` never does (engine.py:168-171).
OnlyResumeTakesSessions ==
  [][\A s \in Sessions :
       owner[s] # NoGoal /\ owner'[s] \notin {NoGoal, owner[s]} =>
         \E t \in Requests : pc[t] = "resumeClaim" /\ pc'[t] = "pinning"]_vars

------------------------------------------------------------------------------
(* Properties of orderly clients.                                            *)

\* Two running goals never share a session, not even through a crash and the
\* recovery that follows (engine.py:11-12).
Exclusive ==
  \A g, h \in WithStatus("running") : rows[g].session = rows[h].session => g = h

\* A running goal owns its session in the engine that runs it.
RunningOwns ==
  engine = "up" => \A g \in WithStatus("running") : owner[rows[g].session] = g

\* Every step that was answered is charged: no charge is lost to a concurrent
\* write of the row (engine.py:18).
EveryStepCharged == \A g \in Goals : served[g] <= rows[g].steps

\* A checkpoint is taken or restored only in a session its goal still owns.
SnapshotsAreOwn ==
  \A t \in Requests : pc[t] \in {"checkpoint", "restore"} => Owned(t)

\* The guard's route is gone once no goal owns the session and no route call is
\* pending (CHANGELOG.md:785, "the nav guard no longer outlives the goal").
GuardGoesWithGoal ==
  \A s \in Sessions :
    owner[s] = NoGoal /\ (\A t \in Requests : job[t].route = "none") =>
      s \notin guard \cup orphans

\* The goals go through the life cycle of the module's documentation.
Lifecycle == INSTANCE GoalLifecycle
  WITH status <- [g \in Goals |-> rows[g].status],
       session <- [g \in Goals |-> rows[g].session]
ImplementsLifecycle == Lifecycle!Spec

------------------------------------------------------------------------------
(* What holds in every reachable state of every client: the inductive part   *)
(* behind FinishedGoalsLetGo.                                                *)

Searching == {"recList", "recFlip", "listPaused", "pickPaused", "listPending",
              "pickPending"}
Starting == {"pinning", "startWrite"}
Resuming == {"resumeCheck", "resumeWrite", "resumeGet", "resumeClaim"}
Stages(v) ==
  CASE v = "none" -> {"idle"}
    [] v = "next" -> Searching \cup Starting \cup {"restore"}
    [] v = "new" -> {"recList", "recFlip", "insert"}
    [] v = "step" -> {"recList", "recFlip", "stepRead", "checkpoint", "stepEvent",
                      "stepFail", "release", "unpinning"}
    [] v = "answer" -> {"recList", "recFlip", "read", "write"}
    [] v = "resume" -> {"recList", "recFlip", "read", "restore"} \cup Resuming \cup Starting
    [] OTHER -> {"recList", "recFlip", "read", "write", "release", "unpinning"}

StageOfVerb ==
  \A t \in Requests :
    /\ pc[t] \in Stages(job[t].verb)
    /\ Goal(t) = NoGoal <=> \/ job[t].verb = "none"
                            \/ job[t].verb = "next" /\ pc[t] \in Searching

\* Rows name a session; a session is owned by a goal bound to it.
RowsBound == \A g \in Goals : IF Status(g) = "absent" THEN rows[g] = NoRow
                              ELSE rows[g].session \in Sessions
OwnersBound ==
  \A s \in Sessions : owner[s] # NoGoal => rows[owner[s]].session = s

\* Requests know goals that exist, a new one alone knows its goal.
GoalsKnown ==
  \A t \in Requests : Goal(t) # NoGoal =>
    IF job[t].verb = "new"
    THEN Status(Goal(t)) = "absent" /\ \A u \in Requests \ {t} : Goal(u) # Goal(t)
    ELSE Status(Goal(t)) # "absent"
ReadsBound ==
  \A t \in Requests, g \in Goals :
    /\ job[t].read[g] # NoRow =>
         job[t].read[g].session = rows[g].session /\ Status(g) # "absent"
    /\ pc[t] \in {"resumeCheck", "resumeClaim"} /\ Goal(t) = g =>
         job[t].read[g] # NoRow

BaseInv ==
  TypeOK /\ StageOfVerb /\ RowsBound /\ OwnersBound /\ GoalsKnown /\ ReadsBound
         /\ FinishedGoalsLetGo

------------------------------------------------------------------------------
(* What orderly clients add.                                                 *)

Alone == \A t, u \in Requests : Goal(t) # NoGoal /\ Goal(t) = Goal(u) => t = u
OneStarter ==
  \A t, u \in Requests :
    job[t].verb \in {"next", "resume"}
      /\ job[u].verb \in {"next", "resume", "pause", "cancel"} => t = u

\* Nothing is owned before the recovery is over; it finds every running goal.
RecoveryAlone ==
  /\ engine = "none" => \A t \in Requests : pc[t] = "idle"
  /\ engine # "up" => \A s \in Sessions : owner[s] = NoGoal
  /\ engine = "recovering" =>
       \A t, u \in Requests : pc[t] # "idle" /\ pc[u] # "idle" => t = u
  /\ \A t \in Requests : pc[t] # "idle" =>
       (engine = "recovering" <=> pc[t] \in {"recList", "recFlip"})
  /\ \A t \in Requests : pc[t] = "recFlip" =>
       \A g \in Goals : Status(g) = "running" <=> job[t].read[g] # NoRow

\* What a request read of a goal is still what the row says, and it has read
\* only what it is about to use.
Choosing == {"recFlip", "pickPaused", "pickPending"} \cup Starting
Knowing == {"resumeCheck", "resumeWrite", "resumeClaim", "stepFail", "checkpoint"}
ReadsAreFresh(t) ==
  \A g \in Goals :
    /\ job[t].read[g] # NoRow =>
         /\ job[t].read[g] = rows[g]
         /\ pc[t] \in Choosing \/ (pc[t] \in Knowing /\ Goal(t) = g)
         /\ pc[t] \in {"pickPaused", "pickPending", "resumeClaim"} \cup Starting =>
              Status(g) \in {"paused", "pending"}
    /\ pc[t] \in Starting \cup (Knowing \ {"resumeWrite"}) /\ Goal(t) = g =>
         job[t].read[g] # NoRow
ReadsFresh == \A t \in Requests : ReadsAreFresh(t)

\* The row a request is about to write, or works for, or has written.
RowReady(t) ==
  LET v == job[t].verb st == Status(Goal(t)) IN
    /\ v \in {"step", "ask", "done", "fail"} => pc[t] \notin {"recList", "recFlip"}
    /\ pc[t] \in {"stepRead", "checkpoint", "stepEvent", "stepFail", "restore"} =>
         st = "running"
    /\ pc[t] \in {"read", "write"} /\ v \in {"ask", "done", "fail"} => st = "running"
    /\ v = "answer" => st = "needs_input"
    /\ pc[t] = "write" => (v = "pause" => st = "running") /\ (v = "cancel" => st \notin Terminal)
    /\ pc[t] = "resumeCheck" => st \in {"paused", "needs_input"}
    /\ pc[t] = "resumeWrite" => st = "needs_input"
    /\ pc[t] \in {"resumeGet", "resumeClaim"} => st = "paused"
    /\ pc[t] \in {"release", "unpinning"} => st = IF v = "step" THEN "failed" ELSE Result(v)
    /\ pc[t] = "stepEvent" => served[Goal(t)] < rows[Goal(t)].steps
GoalReady == \A t \in Requests : RowReady(t)

\* Nobody else takes the session of a goal that is being started or resumed.
MayStart(t) ==
  /\ pc[t] \in Starting => Owned(t)
  /\ pc[t] \in {"resumeWrite", "resumeGet", "resumeClaim"} =>
       owner[rows[Goal(t)].session] \in {NoGoal, Goal(t)}
StartersOwn == \A t \in Requests : MayStart(t)

OwnersBusy ==
  \A s \in Sessions : LET g == owner[s] IN
    g # NoGoal => Status(g) = "running"
                    \/ \E t \in Requests : Goal(t) = g /\ OwesRelease(t)

\* A guard is looked after by the goal that owns its session, and it is
\* installed once.
GuardsOwned ==
  /\ orphans = {} /\ guard \subseteq live
  /\ \A s \in guard : owner[s] # NoGoal
  /\ \A t \in Requests : job[t].route = "install" =>
       pc[t] = "pinning" /\ rows[Goal(t)].session \in live \ guard

OrderlyInv ==
  /\ BaseInv /\ Alone /\ OneStarter /\ RecoveryAlone /\ ReadsFresh /\ GoalReady
  /\ StartersOwn /\ OwnersBusy /\ RunningOwns /\ Exclusive /\ EveryStepCharged
  /\ GuardsOwned

==============================================================================
