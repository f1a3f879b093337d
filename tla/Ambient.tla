------------------------------- MODULE Ambient -------------------------------
(***************************************************************************)
(* The ambient mover of one session (daemon/ambient.py): between verbs it  *)
(* moves the pointer and scrolls, and it must keep still as soon as a verb *)
(* begins.  verb_begin and verb_end, called by the dispatcher, find the    *)
(* mover by the session's name; `humanize_ambient on` makes a new _State.  *)
(*                                                                         *)
(* A step is the code between two awaits.  The mover may always decline to *)
(* move: its other reasons (horizon, frozen renderer, takeover, held       *)
(* button, unsafe target) and its random choices are left out.             *)
(***************************************************************************)
EXTENDS Naturals, FiniteSets

CONSTANTS
  Tasks,     \* requests being served
  States,    \* _State objects
  Entries,   \* SessionEntry objects
  NoState, NoEntry, Nobody

ASSUME AbsentDiffer ==
  NoState \notin States /\ NoEntry \notin Entries /\ Nobody \notin Tasks
ASSUME TasksFinite == IsFiniteSet(Tasks)

VARIABLES
  entry,     \* registry._entries[name]
  st,        \* manager._st[name]
  of,        \* state -> its entry
  stopped,   \* states stopped or not yet made
  busy, pinned, parked,  \* st's busy, scroll_pinned, pointer_parked;
  lastWheel,             \* its last_wheel_at is less than WHEEL_SETTLE_S ago
  burst,     \* state -> what its burst is at
  holder,    \* entry -> who holds entry.lock
  inflight,  \* entry -> entry.inflight
  pc, job,   \* the requests
  out,       \* the input the last step sent to the page
  tail,      \* the page is still scrolling
  looked, parkedByAgent,  \* history: what the agent relies on
  muddled    \* history: a verb is in flight that another mover counted

mover == <<st, of, stopped, burst>>
marks == <<busy, pinned, parked>>
past == <<looked, parkedByAgent>>
vars == <<entry, mover, marks, lastWheel, holder, inflight, pc, job, out, tail, past, muddled>>

\* One verb of each kind: act for navigation and input, click for vision_click and
\* vision_type, look for screenshot and its like, map for map and diff_map, point
\* and tap for mouse with and without action=move, hover for
\* POINTER_PARKING_VERBS, read for the rest of READ_ONLY_VERBS, wait for
\* PAGE_WAIT_VERBS, plugin for unlocked plugin verbs, start for a `go` whose session
\* is not running; on and off are humanize_ambient.
ReadOnly == {"look", "map", "read", "wait", "on", "off"}
Pinning == {"look", "map", "point", "tap"}
Coordinate == {"click", "look", "point", "tap"}
Parking == {"hover", "point"}
Locked == {"act", "click", "look", "map", "point", "tap", "hover", "read", "on", "off"}
Unlocked == {"wait", "plugin", "start"}
Verbs == Locked \cup Unlocked
InFlight == {"settling", "queued", "driving"}
NoJob == [verb |-> "none", entry |-> NoEntry]

TypeOK ==
  /\ entry \in Entries \cup {NoEntry}
  /\ st \in States \cup {NoState}
  /\ of \in [States -> Entries \cup {NoEntry}]
  /\ stopped \subseteq States
  /\ busy \in Nat
  /\ pinned \in BOOLEAN /\ parked \in BOOLEAN /\ lastWheel \in BOOLEAN
  /\ burst \in [States -> {"none", "probing", "moving", "scrolling"}]
  /\ holder \in [Entries -> Tasks \cup {Nobody}]
  /\ inflight \in [Entries -> Nat]
  /\ pc \in [Tasks -> InFlight \cup {"idle"}]
  /\ job \in [Tasks -> [verb : Verbs \cup {"none"}, entry : Entries \cup {NoEntry}]]
  /\ out \in {"none", "move", "wheel"}
  /\ tail \in BOOLEAN /\ looked \in BOOLEAN /\ parkedByAgent \in BOOLEAN
  /\ muddled \in BOOLEAN

Init ==
  /\ entry = NoEntry /\ st = NoState
  /\ of = [s \in States |-> NoEntry]
  /\ stopped = States
  /\ busy = 0 /\ pinned = FALSE /\ parked = FALSE /\ lastWheel = FALSE
  /\ burst = [s \in States |-> "none"]
  /\ holder = [e \in Entries |-> Nobody]
  /\ inflight = [e \in Entries |-> 0]
  /\ pc = [t \in Tasks |-> "idle"]
  /\ job = [t \in Tasks |-> NoJob]
  /\ out = "none" /\ tail = FALSE
  /\ looked = FALSE /\ parkedByAgent = FALSE /\ muddled = FALSE

Goto(t, stage) == pc' = [pc EXCEPT ![t] = stage]
Others(t) == {u \in Tasks \ {t} : pc[u] # "idle"}
Acts(v) == v \notin ReadOnly

------------------------------------------------------------------------------
(* What the dispatcher calls.                                                *)

\* The agent relies on what it saw, and on where it left the pointer, until a
\* verb acts.
BeginHistory(v) ==
  /\ looked' = (looked /\ ~Acts(v))
  /\ parkedByAgent' = (parkedByAgent /\ ~Acts(v))

Cancel(s) == IF s = NoState THEN burst ELSE [burst EXCEPT ![s] = "none"]

\* Mutants of VerbBegin: the burst under way goes on; the verb is not counted.
BeginGently(v) ==
  /\ busy' = IF st = NoState THEN busy ELSE busy + 1
  /\ UNCHANGED burst
  /\ BeginHistory(v)

BeginUncounted(v) == burst' = Cancel(st) /\ UNCHANGED busy /\ BeginHistory(v)

\* verb_begin: count the verb, cancel the burst.
VerbBegin(v) ==
  /\ busy' = IF st = NoState THEN busy ELSE busy + 1
  /\ burst' = Cancel(st)
  /\ BeginHistory(v)

EndHistory(v) ==
  /\ looked' = IF v \in Pinning THEN st # NoState /\ ~muddled ELSE looked /\ ~Acts(v)
  /\ parkedByAgent' = IF v \in Parking THEN st # NoState /\ ~muddled
                     ELSE parkedByAgent /\ ~Acts(v)

\* A mutant of VerbEnd: every verb that does not pin gives the viewport back.
VerbEndUnpins(v) ==
  /\ IF st = NoState
     THEN UNCHANGED marks
     ELSE /\ busy' = IF busy = 0 THEN 0 ELSE busy - 1
          /\ pinned' = (v \in Pinning)
          /\ parked' = (v \in Parking)
  /\ EndHistory(v)

\* verb_end, on the state that is registered now.
VerbEnd(v) ==
  /\ IF st = NoState
     THEN UNCHANGED marks
     ELSE /\ busy' = IF busy = 0 THEN 0 ELSE busy - 1
          /\ pinned' = (v \in Pinning \/ (pinned /\ ~Acts(v)))
          /\ parked' = (v \in Parking \/ (parked /\ ~Acts(v)))
  /\ EndHistory(v)

\* _stop_state: the tasks are cancelled.
Stopping(s) ==
  /\ stopped' = IF s = NoState THEN stopped ELSE stopped \cup {s}
  /\ burst' = Cancel(s)

Quiet == out' = "none"

------------------------------------------------------------------------------
(* Verbs.                                                                    *)

\* A mutant of MustSettle: only a burst under way is waited for.
MustSettleBurst(v) == v \in Coordinate /\ st # NoState /\ burst[st] = "scrolling"

\* settle: a verb that reads or uses coordinates first lets a notch that was just
\* sent finish; map and diff_map, which pin the viewport too, do not.
MustSettle(v) == v \in Coordinate /\ st # NoState /\ lastWheel

\* Past the gates.
LockedBegin(t, v) ==
  /\ pc[t] = "idle" /\ v \in Locked /\ entry # NoEntry
  /\ VerbBegin(v)
  /\ Goto(t, IF MustSettle(v) THEN "settling" ELSE "queued")
  /\ job' = [job EXCEPT ![t] = [verb |-> v, entry |-> entry]]
  /\ Quiet
  /\ UNCHANGED <<entry, st, of, stopped, pinned, parked, lastWheel, holder, inflight,
                 tail, muddled>>

LockedRun(t) ==
  /\ pc[t] = "queued" /\ holder[job[t].entry] = Nobody
  /\ holder' = [holder EXCEPT ![job[t].entry] = t]
  /\ Goto(t, "driving")
  /\ Quiet
  /\ UNCHANGED <<entry, mover, marks, lastWheel, inflight, job, tail, past, muddled>>

Unlock(t) == holder' = [holder EXCEPT ![job[t].entry] = Nobody]
Finish(t) == Goto(t, "idle") /\ job' = [job EXCEPT ![t] = NoJob]
StillMuddled(t) == muddled' = (muddled /\ (Others(t) # {} \/ tail))

LockedEnd(t) ==
  /\ pc[t] = "driving" /\ job[t].verb \in Locked
  /\ job[t].verb \in {"on", "off"} => job[t].entry # entry
  /\ Unlock(t)
  /\ VerbEnd(job[t].verb)
  /\ Finish(t) /\ StillMuddled(t)
  /\ Quiet
  /\ UNCHANGED <<entry, mover, lastWheel, inflight, tail>>

\* A page wait is counted in flight, a plugin verb nowhere but in busy.  A `go` whose
\* session is not running is counted by whatever mover the last one left.
UnlockedBegin(t, v) ==
  /\ pc[t] = "idle" /\ v \in Unlocked /\ (entry = NoEntry <=> v = "start")
  /\ VerbBegin(v)
  /\ inflight' = IF v = "wait" THEN [inflight EXCEPT ![entry] = @ + 1] ELSE inflight
  /\ Goto(t, "driving")
  /\ job' = [job EXCEPT ![t] = [verb |-> v, entry |-> entry]]
  /\ Quiet
  /\ UNCHANGED <<entry, st, of, stopped, pinned, parked, lastWheel, holder, tail, muddled>>

\* That go drives the session that runs once its start has returned.
StartDrives(t) ==
  /\ pc[t] = "driving" /\ job[t] = [verb |-> "start", entry |-> NoEntry]
  /\ entry # NoEntry
  /\ job' = [job EXCEPT ![t].entry = entry]
  /\ Quiet
  /\ UNCHANGED <<entry, mover, marks, lastWheel, holder, inflight, pc, tail, past, muddled>>

UnlockedEnd(t) ==
  /\ pc[t] = "driving" /\ job[t].verb \in Unlocked
  /\ inflight' = IF job[t].verb = "wait" THEN [inflight EXCEPT ![job[t].entry] = @ - 1]
                 ELSE inflight
  /\ VerbEnd(job[t].verb)
  /\ Finish(t) /\ StillMuddled(t)
  /\ Quiet
  /\ UNCHANGED <<entry, mover, lastWheel, holder, tail>>

Replace(s) ==
  /\ stopped' = (stopped \cup ({st} \ {NoState})) \ {s}
  /\ burst' = Cancel(st)

\* enable() makes a new state; the end of the verb finds it with nothing to
\* count down.
On(t) ==
  /\ pc[t] = "driving" /\ job[t].verb = "on" /\ job[t].entry = entry
  /\ Unlock(t) /\ Finish(t)
  /\ \E s \in stopped \ {st} :
       /\ Replace(s)
       /\ st' = s /\ of' = [of EXCEPT ![s] = entry]
  /\ busy' = 0 /\ pinned' = FALSE /\ parked' = FALSE /\ lastWheel' = FALSE
  /\ muddled' = (Others(t) # {} \/ tail)
  /\ looked' = FALSE /\ parkedByAgent' = FALSE
  /\ Quiet
  /\ UNCHANGED <<entry, inflight, tail>>

Off(t) ==
  /\ pc[t] = "driving" /\ job[t].verb = "off" /\ job[t].entry = entry
  /\ Unlock(t) /\ Finish(t)
  /\ st' = NoState /\ Stopping(st)
  /\ muddled' = (Others(t) # {} \/ tail)
  /\ looked' = FALSE /\ parkedByAgent' = FALSE
  /\ Quiet
  /\ UNCHANGED <<entry, of, marks, lastWheel, inflight, tail>>

------------------------------------------------------------------------------
(* The session comes and goes.                                               *)

FreshEntry(e) ==
  /\ holder[e] = Nobody /\ inflight[e] = 0
  /\ \A t \in Tasks : job[t].entry # e
  /\ \A s \in States : of[s] = e => s \in stopped

SessionStarts ==
  /\ entry = NoEntry
  /\ \E e \in Entries : FreshEntry(e) /\ entry' = e
  /\ tail' = FALSE /\ Quiet
  /\ UNCHANGED <<mover, marks, lastWheel, holder, inflight, pc, job, past, muddled>>

\* A close verb ends with reap(); other closes leave that to the mover's loop.
SessionCloses(reaped) ==
  /\ entry # NoEntry
  /\ entry' = NoEntry
  /\ IF reaped /\ st # NoState
     THEN st' = NoState /\ Stopping(st)
     ELSE UNCHANGED <<st, stopped, burst>>
  /\ muddled' = (muddled \/ \E t \in Tasks : pc[t] # "idle")
  /\ looked' = FALSE /\ parkedByAgent' = FALSE
  /\ Quiet
  /\ UNCHANGED <<of, marks, lastWheel, holder, inflight, pc, job, tail>>

------------------------------------------------------------------------------
(* The mover.                                                                *)

Blocked(s) ==
  \/ s \in stopped \/ entry # of[s]
  \/ busy > 0 \/ holder[entry] # Nobody \/ inflight[entry] > 0
  \/ parked

Stage(s, stage) == burst' = [burst EXCEPT ![s] = stage]
Still == UNCHANGED <<entry, st, of, stopped, marks, holder, inflight, pc, job, past, muddled>>

BurstStart(s) ==
  /\ burst[s] = "none" /\ ~Blocked(s)
  /\ Stage(s, "probing") /\ Quiet
  /\ Still /\ UNCHANGED <<lastWheel, tail>>

\* Scrolling is decided once, when the burst has looked at the page.
BurstPlan(s) ==
  /\ burst[s] = "probing"
  /\ \/ Stage(s, "moving")
     \/ ~pinned /\ Stage(s, "scrolling")
  /\ Quiet
  /\ Still /\ UNCHANGED <<lastWheel, tail>>

Move(s) ==
  /\ burst[s] \in {"moving", "scrolling"} /\ ~Blocked(s)
  /\ out' = "move"
  /\ Still /\ UNCHANGED <<burst, lastWheel, tail>>

Wheel(s) ==
  /\ burst[s] = "scrolling" /\ ~Blocked(s)
  /\ out' = "wheel" /\ tail' = TRUE
  /\ lastWheel' = TRUE
  /\ Still /\ UNCHANGED burst

BurstEnd(s) ==
  /\ burst[s] # "none"
  /\ Stage(s, "none") /\ Quiet
  /\ Still /\ UNCHANGED <<lastWheel, tail>>

\* The loop finds its session closed or replaced and takes itself off the table.
LoopEnds(s) ==
  /\ s \notin stopped /\ entry # of[s] /\ burst[s] = "none"
  /\ st' = NoState
  /\ stopped' = stopped \cup {s}
  /\ Quiet
  /\ UNCHANGED <<entry, of, burst, marks, lastWheel, holder, inflight, pc, job, tail, past,
                 muddled>>

\* WHEEL_SETTLE_S pass: scrolling ends and settle() returns.
Settle ==
  /\ tail \/ lastWheel
  /\ tail' = FALSE /\ lastWheel' = FALSE
  /\ pc' = [t \in Tasks |-> IF pc[t] = "settling" THEN "queued" ELSE pc[t]]
  /\ muddled' = (muddled /\ \E t \in Tasks : pc[t] # "idle")
  /\ Quiet
  /\ UNCHANGED <<entry, mover, marks, holder, inflight, job, past>>

Next ==
  \/ \E t \in Tasks :
       \/ \E v \in Locked : LockedBegin(t, v)
       \/ \E v \in Unlocked : UnlockedBegin(t, v)
       \/ LockedRun(t) \/ LockedEnd(t) \/ StartDrives(t) \/ UnlockedEnd(t) \/ On(t) \/ Off(t)
  \/ SessionStarts \/ \E reaped \in BOOLEAN : SessionCloses(reaped)
  \/ \E s \in States :
       BurstStart(s) \/ BurstPlan(s) \/ Move(s) \/ Wheel(s) \/ BurstEnd(s) \/ LoopEnds(s)
  \/ Settle

Spec == Init /\ [][Next]_vars

------------------------------------------------------------------------------
(* Properties.                                                               *)

Drives(t) == pc[t] = "driving" /\ entry # NoEntry /\ job[t].entry = entry

\* The mover sends no input while a verb drives the session's page.
MoverYields == out # "none" => \A t \in Tasks : ~Drives(t)

\* The same unless the mover was switched, or the session changed, while verbs
\* were in flight: verb_end then counts down a state that never counted them up.
\* A go that started its own session is such a verb.
CountedVerbsUndisturbed == muddled \/ MoverYields

\* What an agent saw with a look stays where it was until a verb acts: the mover
\* does not scroll, whatever reads, waits and bursts lie in between.
LookStaysTrue == out = "wheel" => ~looked

\* A pointer the agent parked stays where it is until a verb acts.
ParkedStays == out # "none" => ~parkedByAgent

\* A verb that reads or uses viewport coordinates (COORDINATE_VERBS) never runs while
\* a notch sent before it still scrolls the page.
CoordinatesOnStillPage ==
  muddled \/ \A t \in Tasks : Drives(t) /\ job[t].verb \in Coordinate => ~tail

\* A mover that was not stopped is the registered one: verbs and `off` reach it.
MoverIsRegistered == \A s \in States : s \notin stopped => s = st

------------------------------------------------------------------------------
(* What every step keeps, and the properties rest on.                        *)

Begun == {t \in Tasks : pc[t] # "idle"}
Waits(e) == {t \in Begun : job[t].verb = "wait" /\ job[t].entry = e}

JobsNamed ==
  \A t \in Tasks :
    IF pc[t] = "idle" THEN job[t] = NoJob
    ELSE /\ job[t].verb \in Verbs
         /\ job[t].verb # "start" => job[t].entry \in Entries
         /\ pc[t] # "driving" => job[t].verb \in Locked

\* A state never counts more verbs than are in flight, and all of them unless it
\* came between their begin and their end; those in flight cancelled its burst.
Counts ==
  /\ \A e \in Entries : inflight[e] = Cardinality(Waits(e))
  /\ st # NoState => busy <= Cardinality(Begun)
  /\ ~muddled /\ st # NoState =>
       busy = Cardinality(Begun) /\ (Begun # {} => burst[st] = "none")

\* What the mover still running must respect, and how a verb knows of a scroll.
Respects ==
  /\ \A s \in stopped : burst[s] = "none"
  /\ looked => \A s \in States \ stopped : pinned /\ burst[s] # "scrolling"
  /\ parkedByAgent => \A s \in States \ stopped : parked
  /\ ~muddled /\ tail /\ entry # NoEntry => lastWheel /\ st # NoState /\ of[st] = entry
  /\ ~muddled => \A t \in Begun :
       job[t].verb \in Coordinate /\ job[t].entry = entry /\ pc[t] # "settling" => ~tail

\* Only the registered mover runs, it knows what the agent relies on, and it has
\* counted the verbs in flight (_State, verb_begin, verb_end).
IndInv ==
  /\ TypeOK /\ MoverIsRegistered /\ JobsNamed /\ Counts /\ Respects
  /\ CountedVerbsUndisturbed /\ LookStaysTrue /\ ParkedStays

==============================================================================
