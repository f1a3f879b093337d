-------------------------- MODULE GoalEngine_proofs --------------------------
(***************************************************************************)
(* Proofs about GoalEngine, for any goals, sessions, requests and tokens.  *)
(*                                                                         *)
(* First what holds for every client: the types and BaseInv, that a        *)
(* finished goal lets go of its session, that limits follow the owner, and *)
(* who may take a session. Then what orderly clients may rely on: Effect   *)
(* says what a step of a request may do, OrderlyFacts what the invariant   *)
(* says of one request; OrderlyInv follows, and with it that running goals *)
(* exclude each other, and that guards and snapshots are their owner's.    *)
(* Last the refinement of GoalLifecycle.                                   *)
(***************************************************************************)
EXTENDS GoalEngine, TLAPS

(* A request keeps its place in the code, and what it knows, well typed.     *)
RequestsTyped == pc \in [Requests -> PCs] /\ job \in [Requests -> Jobs]
MemoryTyped ==
  /\ owner \in [Sessions -> Goals \cup {NoGoal}]
  /\ gate \in [Sessions -> Goals \cup {NoGoal}]
  /\ guard \subseteq Sessions
  /\ orphans \subseteq Sessions
TableTyped == rows \in [Goals -> Rows] /\ served \in [Goals -> Nat]

LEMMA TypeParts ==
  TypeOK <=> /\ TableTyped /\ MemoryTyped /\ RequestsTyped
             /\ engine \in {"none", "recovering", "up"} /\ live \subseteq Sessions
BY DEF TypeOK, TableTyped, MemoryTyped, RequestsTyped

\* The same of the next state; what a step leaves alone stays typed.
LEMMA TypedNext ==
  ASSUME TypeOK,
         TableTyped' \/ UNCHANGED <<rows, served>>,
         MemoryTyped' \/ UNCHANGED memory,
         RequestsTyped',
         engine' \in {"none", "recovering", "up"},
         live' = live
  PROVE  TypeOK'
<1>1. TableTyped'
  BY DEF TypeOK, TableTyped
<1>2. MemoryTyped'
  BY DEF TypeOK, MemoryTyped, memory
<1> QED
  BY <1>1, <1>2 DEF TypeOK, TableTyped, MemoryTyped, RequestsTyped

LEMMA Constants ==
  /\ NoRow \in [status : Statuses, session : Sessions \cup {NoSession}, steps : Nat,
                tokens : SUBSET Tokens]
  /\ NoRow \in Rows
  /\ NothingRead \in [Goals -> Rows]
  /\ NoJob \in Jobs
<1>1. NoRow \in Rows
  BY DEF NoRow, Rows, Statuses
<1>2. NothingRead \in [Goals -> Rows]
  BY <1>1 DEF NothingRead
<1> QED
  BY <1>1, <1>2 DEF NoJob, Jobs, Rows

LEMMA MoveTyped ==
  ASSUME RequestsTyped, NEW t \in Requests, NEW stage \in PCs, Move(t, stage)
  PROVE  RequestsTyped'
BY DEF RequestsTyped, Move

LEMMA EndTyped ==
  ASSUME RequestsTyped, NEW t \in Requests, End(t)
  PROVE  RequestsTyped'
BY Constants DEF RequestsTyped, End, PCs

LEMMA QueryTyped ==
  ASSUME RequestsTyped, TableTyped, NEW t \in Requests, NEW found, NEW stage \in PCs,
         Query(t, found, stage)
  PROVE  RequestsTyped'
<1> DEFINE result == [g \in Goals |-> IF g \in found THEN rows[g] ELSE NoRow]
<1>1. result \in [Goals -> Rows]
  BY Constants DEF TableTyped
<1>2. [job[t] EXCEPT !.read = result] \in Jobs
  BY <1>1 DEF RequestsTyped, Jobs
<1>3. job' = [job EXCEPT ![t] = [job[t] EXCEPT !.read = result]]
  BY DEF Query, RequestsTyped
<1> QED
  BY <1>2, <1>3 DEF Query, RequestsTyped

LEMMA UpdateTyped ==
  ASSUME TableTyped, NEW g, NEW row, g \in Goals => row \in Rows, Update(g, row)
  PROVE  TableTyped'
BY DEF TableTyped, Update

LEMMA SetStatusTyped ==
  ASSUME TableTyped, NEW g, NEW st \in Statuses, SetStatus(g, st)
  PROVE  TableTyped'
<1>1. g \in Goals => [rows[g] EXCEPT !.status = st] \in Rows
  BY DEF TableTyped, Rows
<1> QED
  BY <1>1, UpdateTyped DEF SetStatus

------------------------------------------------------------------------------
(* What one step of a request may do, whatever the action.                   *)

\* The request ends, or goes on with its verb, its goal and older reads.
Proceeds(t) ==
  /\ \A u \in Requests \ {t} : pc'[u] = pc[u] /\ job'[u] = job[u]
  /\ \/ pc'[t] = "idle" /\ job'[t] = NoJob
     \/ /\ job'[t].verb = job[t].verb
        /\ pc'[t] \in Stages(job[t].verb)
        /\ \/ /\ job'[t].goal = job[t].goal
              /\ job[t].verb = "next" => (pc'[t] \in Searching <=> pc[t] \in Searching)
           \/ /\ job[t].verb = "next" /\ pc'[t] = "pinning"
              /\ job'[t].goal \in Goals /\ job[t].read[job'[t].goal] # NoRow
        /\ \A g \in Goals : job'[t].read[g] \in {NoRow, job[t].read[g], rows[g]}
        /\ pc'[t] \in {"resumeCheck", "resumeClaim"} =>
             job'[t].read[job'[t].goal] = rows[job'[t].goal]

\* It inserts the row of its new goal, or writes that of a goal there is.
WritesRow(g) ==
  /\ rows' = [rows EXCEPT ![g] = rows'[g]]
  /\ rows'[g].session = rows[g].session
  /\ rows'[g].status # "absent"
  /\ Status(g) # "absent"
Inserts(t) ==
  /\ job[t].verb = "new" /\ job'[t] = NoJob
  /\ \E s \in Sessions :
       rows' = [rows EXCEPT ![Goal(t)] = [NoRow EXCEPT !.status = "pending", !.session = s]]
Tables(t) == rows' = rows \/ Inserts(t) \/ \E g \in Goals : WritesRow(g)

\* It takes the session of a goal it read, or gives sessions back.
Takes(t) ==
  \A s \in Sessions :
    \/ owner'[s] \in {owner[s], NoGoal}
    \/ LET g == job'[t].goal
       IN /\ owner'[s] = g /\ pc'[t] = "pinning"
          /\ g \in Goals /\ job[t].read[g] # NoRow /\ job[t].read[g].session = s

\* It ends a goal only to release it, and pays what it owes.
Ends(t) ==
  \A g \in Goals :
    /\ rows'[g].status \in Terminal =>
         Status(g) \in Terminal \/ (job'[t].goal = g /\ pc'[t] = "release")
    /\ Goal(t) = g /\ OwesRelease(t) =>
         \/ job'[t].goal = g /\ OwesRelease(t)'
         \/ owner'[rows[g].session] # g
         \/ rows'[g].status \notin Terminal

Effect(t) == Proceeds(t) /\ Tables(t) /\ Takes(t) /\ Ends(t)

LEMMA VerbCases ==
  /\ \A v \in AllVerbs \cup {"none"} : "idle" \in Stages(v) <=> v = "none"
  /\ \A v \in AllVerbs : {"recList", "recFlip", FirstStage(v)} \subseteq Stages(v)
  /\ \A v \in AllVerbs \cup {"none"} : Stages(v) \subseteq PCs
BY DEF Stages, FirstStage, AllVerbs, PCs, Searching, Starting, Resuming

LEMMA StageSets ==
  /\ Stages("none") = {"idle"}
  /\ Stages("next") = {"recList", "recFlip", "listPaused", "pickPaused", "listPending",
                       "pickPending", "pinning", "startWrite", "restore"}
  /\ Stages("new") = {"recList", "recFlip", "insert"}
  /\ Stages("step") = {"recList", "recFlip", "stepRead", "checkpoint", "stepEvent",
                       "stepFail", "release", "unpinning"}
  /\ Stages("answer") = {"recList", "recFlip", "read", "write"}
  /\ Stages("resume") = {"recList", "recFlip", "read", "restore", "resumeCheck",
                         "resumeWrite", "resumeGet", "resumeClaim", "pinning", "startWrite"}
  /\ \A v \in {"ask", "done", "fail", "cancel", "pause"} :
       Stages(v) = {"recList", "recFlip", "read", "write", "release", "unpinning"}
BY DEF Stages, Searching, Starting, Resuming

\* Where a request is tells its verb, and that it has a goal.
At(t) ==
  /\ job[t].verb \in AllVerbs \cup {"none"}
  /\ pc[t] \in Stages(job[t].verb)
  /\ (pc[t] = "idle" <=> job[t].verb = "none")
  /\ pc[t] \notin Searching \cup {"idle"} => Goal(t) \in Goals
  /\ job[t].verb \notin {"next", "none"} => Goal(t) \in Goals
  /\ pc[t] \in {"listPaused", "pickPaused", "listPending", "pickPending"} =>
       job[t].verb = "next"
  /\ pc[t] = "insert" => job[t].verb = "new"
  /\ pc[t] \in {"pinning", "startWrite", "restore"} => job[t].verb \in {"next", "resume"}
  /\ pc[t] \in {"stepRead", "checkpoint", "stepEvent", "stepFail"} => job[t].verb = "step"
  /\ pc[t] = "read" =>
       job[t].verb \in {"ask", "answer", "done", "fail", "cancel", "pause", "resume"}
  /\ pc[t] = "write" =>
       job[t].verb \in {"ask", "answer", "done", "fail", "cancel", "pause"}
  /\ pc[t] \in {"release", "unpinning"} =>
       job[t].verb \in {"step", "ask", "done", "fail", "cancel", "pause"}
  /\ pc[t] \in {"resumeCheck", "resumeWrite", "resumeGet", "resumeClaim"} =>
       job[t].verb = "resume"

LEMMA Whereabouts ==
  ASSUME TypeOK, StageOfVerb, NEW t \in Requests
  PROVE  At(t)
<1>1. job[t].verb \in AllVerbs \cup {"none"} /\ Goal(t) \in Goals \cup {NoGoal}
  BY DEF TypeOK, Jobs, Goal
<1>2. pc[t] \in Stages(job[t].verb)
  BY DEF StageOfVerb
<1>3. Goal(t) = NoGoal <=> \/ job[t].verb = "none"
                           \/ job[t].verb = "next" /\ pc[t] \in Searching
  BY DEF StageOfVerb
<1> QED
  BY <1>1, <1>2, <1>3, StageSets DEF At, AllVerbs, Searching

LEMMA UpdateTables ==
  ASSUME TableTyped, NEW t, NEW g \in Goals, NEW row \in Rows, Update(g, row),
         Status(g) # "absent", row.session = rows[g].session, row.status # "absent"
  PROVE  Tables(t)
<1>1. rows' = [rows EXCEPT ![g] = rows'[g]] /\ rows'[g] = row
  BY DEF TableTyped, Update
<1> QED
  BY <1>1 DEF Tables, WritesRow

LEMMA ServeEffect ==
  ASSUME BaseInv, NEW t \in Requests, Serve(t)
  PROVE  Effect(t)
<1>0. /\ RequestsTyped /\ TableTyped /\ MemoryTyped
      /\ pc[t] \in PCs /\ job[t] \in Jobs
      /\ At(t)
      /\ \A g \in Goals : job[t].read[g] # NoRow => Status(g) # "absent"
  BY TypeParts, Whereabouts DEF BaseInv, RequestsTyped, ReadsBound
<1>a. Goal(t) \in Goals /\ job[t].verb # "new" =>
        Status(Goal(t)) # "absent" /\ rows[Goal(t)].session \in Sessions
  BY AbsentValues DEF BaseInv, GoalsKnown, RowsBound
<1>b. Goal(t) \in Goals /\ pc[t] \in {"resumeCheck", "resumeClaim"} =>
        job[t].read[Goal(t)] # NoRow
  BY DEF BaseInv, ReadsBound
<1>1. CASE RecoverList(t)
  <2>1. Proceeds(t)
    BY <1>0, <1>1, VerbCases DEF RecoverList, Proceeds, At, RequestsTyped, Query, Searching,
       Jobs
  <2>2. Tables(t)
    BY <1>0, <1>1 DEF RecoverList, Tables
  <2>3. Takes(t)
    BY <1>0, <1>1 DEF RecoverList, Takes, At, MemoryTyped, RequestsTyped, Jobs, Goal,
       Status, memory
  <2>4. Ends(t)
    BY <1>0, <1>1 DEF RecoverList, Ends, OwesRelease, Status
  <2> QED
    BY <2>1, <2>2, <2>3, <2>4 DEF Effect
<1>2. CASE RecoverClear(t)
  <2>1. Proceeds(t)
    BY <1>0, <1>2, VerbCases DEF RecoverClear, Proceeds, At, RequestsTyped, Move, Searching,
       FirstStage
  <2>2. Tables(t)
    BY <1>0, <1>2 DEF RecoverClear, Tables
  <2>3. Takes(t)
    BY <1>0, <1>2 DEF RecoverClear, Takes
  <2>4. Ends(t)
    BY <1>0, <1>2 DEF RecoverClear, Ends, OwesRelease, Status
  <2> QED
    BY <2>1, <2>2, <2>3, <2>4 DEF Effect
<1>3. CASE List(t)
  <2>1. Proceeds(t)
    BY <1>0, <1>3, StageSets DEF List, Proceeds, At, RequestsTyped, Jobs, Searching, Query
  <2>2. Tables(t)
    BY <1>0, <1>3 DEF List, Tables
  <2>3. Takes(t)
    BY <1>0, <1>3 DEF List, Takes, At, MemoryTyped, RequestsTyped, Jobs, Goal,
       Status, memory
  <2>4. Ends(t)
    BY <1>0, <1>3 DEF List, Ends, OwesRelease, Status
  <2> QED
    BY <2>1, <2>2, <2>3, <2>4 DEF Effect
<1>4. CASE PickNone(t)
  <2>1. Proceeds(t)
    BY <1>0, <1>4, StageSets
       DEF PickNone, Proceeds, At, RequestsTyped, Jobs, Searching, Query, End
  <2>2. Tables(t)
    BY <1>0, <1>4 DEF PickNone, Tables
  <2>3. Takes(t)
    BY <1>0, <1>4 DEF PickNone, Takes, memory
  <2>4. Ends(t)
    BY <1>0, <1>4 DEF PickNone, Ends, OwesRelease, Status
  <2> QED
    BY <2>1, <2>2, <2>3, <2>4 DEF Effect
<1>5. CASE Pinned(t)
  <2>1. Proceeds(t)
    BY <1>0, <1>5, StageSets DEF Pinned, Proceeds, At, Searching
  <2>2. Tables(t)
    BY <1>0, <1>5 DEF Pinned, Tables, Routed
  <2>3. Takes(t)
    BY <1>0, <1>5 DEF Pinned, Takes, Routed
  <2>4. Ends(t)
    BY <1>0, <1>5 DEF Pinned, Ends, OwesRelease, Goal, Status, Routed
  <2> QED
    BY <2>1, <2>2, <2>3, <2>4 DEF Effect
<1>6. CASE StartWrite(t)
  <2>1. Proceeds(t)
    BY <1>0, <1>6, StageSets DEF StartWrite, Proceeds, At, Searching, Query
  <2>2. Tables(t)
    <3> DEFINE row == [rows[Goal(t)] EXCEPT !.status = "running", !.steps = job[t].read[Goal(t)].steps]
    <3>1. Goal(t) \in Goals /\ Status(Goal(t)) # "absent"
      BY <1>0, <1>a, <1>6 DEF At, StartWrite, Searching
    <3>2. row \in Rows /\ row.session = rows[Goal(t)].session /\ row.status # "absent"
      BY <1>0, <3>1, ZenonT(30) DEF TableTyped, Rows, Statuses, Terminal, Status, Jobs
    <3>3. Update(Goal(t), row)
      BY <1>6 DEF StartWrite
    <3> QED
      BY <1>0, <3>1, <3>2, <3>3, UpdateTables
  <2>3. Takes(t)
    BY <1>0, <1>6 DEF StartWrite, Takes, memory
  <2>4. Ends(t)
    BY <1>0, <1>6 DEF StartWrite, Ends, TableTyped, Status, Terminal, Update
  <2> QED
    BY <2>1, <2>2, <2>3, <2>4 DEF Effect
<1>7. CASE Restored(t)
  <2>1. Proceeds(t)
    BY <1>0, <1>7 DEF Restored, Proceeds, RequestsTyped, End
  <2>2. Tables(t)
    BY <1>0, <1>7 DEF Restored, Tables
  <2>3. Takes(t)
    BY <1>0, <1>7 DEF Restored, Takes, At, MemoryTyped, RequestsTyped, Jobs, Goal,
       Status, memory
  <2>4. Ends(t)
    BY <1>0, <1>7 DEF Restored, Ends, OwesRelease, Status
  <2> QED
    BY <2>1, <2>2, <2>3, <2>4 DEF Effect
<1>8. CASE StepRefused(t)
  <2>1. Proceeds(t)
    BY <1>0, <1>8 DEF StepRefused, Proceeds, RequestsTyped, End
  <2>2. Tables(t)
    BY <1>0, <1>8 DEF StepRefused, Tables
  <2>3. Takes(t)
    BY <1>0, <1>8 DEF StepRefused, Takes, At, MemoryTyped, RequestsTyped, Jobs, Goal,
       Status, memory
  <2>4. Ends(t)
    BY <1>0, <1>8 DEF StepRefused, Ends, OwesRelease, Status
  <2> QED
    BY <2>1, <2>2, <2>3, <2>4 DEF Effect
<1>9. CASE StepRead(t)
  <2>1. Proceeds(t)
    BY <1>0, <1>9, StageSets DEF StepRead, Proceeds, At, RequestsTyped, Jobs, Goal,
       Searching, Query, Move, End, memory, NoJob, NothingRead
  <2>2. Tables(t)
    BY <1>0, <1>9 DEF StepRead, Tables
  <2>3. Takes(t)
    BY <1>0, <1>9 DEF StepRead, Takes, At, MemoryTyped, RequestsTyped, Jobs, Goal,
       Status, memory
  <2>4. Ends(t)
    BY <1>0, <1>9 DEF StepRead, Ends, Status, Terminal
  <2> QED
    BY <2>1, <2>2, <2>3, <2>4 DEF Effect
<1>10. CASE StepFail(t)
  <2>1. Proceeds(t)
    BY <1>0, <1>10, StageSets DEF StepFail, Proceeds, At, Query
  <2>2. Tables(t)
    <3> DEFINE row == [rows[Goal(t)] EXCEPT !.status = "failed", !.steps = job[t].read[Goal(t)].steps + 1, !.tokens = job[t].read[Goal(t)].tokens \cup ({job[t].token} \ {NoToken})]
    <3>1. Goal(t) \in Goals /\ Status(Goal(t)) # "absent"
      BY <1>0, <1>a, <1>10 DEF At, StepFail, Searching
    <3>t. /\ job[t].read[Goal(t)].tokens \cup ({job[t].token} \ {NoToken}) \in SUBSET Tokens
          /\ job[t].read[Goal(t)].steps + 1 \in Nat
      BY <1>0, <3>1 DEF Jobs, Rows
    <3>2. row \in Rows /\ row.session = rows[Goal(t)].session /\ row.status # "absent"
      BY <1>0, <3>1, <3>t, ZenonT(30) DEF TableTyped, Rows, Statuses, Terminal, Status, Jobs
    <3>3. Update(Goal(t), row)
      BY <1>10 DEF StepFail, Charged
    <3> QED
      BY <1>0, <3>1, <3>2, <3>3, UpdateTables
  <2>3. Takes(t)
    BY <1>0, <1>10 DEF StepFail, Takes, memory
  <2>4. Ends(t)
    BY <1>0, <1>10
       DEF StepFail, Ends, OwesRelease, RequestsTyped, Goal, Status, Query, Charged, Update
  <2> QED
    BY <2>1, <2>2, <2>3, <2>4 DEF Effect
<1>11. CASE StepWrite(t)
  <2>1. Proceeds(t)
    BY <1>0, <1>11, StageSets DEF StepWrite, Proceeds, At, Query
  <2>2. Tables(t)
    <3> DEFINE row == [rows[Goal(t)] EXCEPT !.status = Status(Goal(t)), !.steps = job[t].read[Goal(t)].steps + 1, !.tokens = job[t].read[Goal(t)].tokens \cup ({job[t].token} \ {NoToken})]
    <3>1. Goal(t) \in Goals /\ Status(Goal(t)) # "absent"
      BY <1>0, <1>a, <1>11 DEF At, StepWrite, Searching
    <3>t. /\ job[t].read[Goal(t)].tokens \cup ({job[t].token} \ {NoToken}) \in SUBSET Tokens
          /\ job[t].read[Goal(t)].steps + 1 \in Nat
      BY <1>0, <3>1 DEF Jobs, Rows
    <3>2. row \in Rows /\ row.session = rows[Goal(t)].session /\ row.status # "absent"
      BY <1>0, <3>1, <3>t, ZenonT(30) DEF TableTyped, Rows, Statuses, Terminal, Status, Jobs
    <3>3. Update(Goal(t), row)
      BY <1>11 DEF StepWrite, Charged
    <3> QED
      BY <1>0, <3>1, <3>2, <3>3, UpdateTables
  <2>3. Takes(t)
    BY <1>0, <1>11 DEF StepWrite, Takes, memory
  <2>4. Ends(t)
    BY <1>0, <1>11 DEF StepWrite, Ends, OwesRelease, Status, Charged, Update
  <2> QED
    BY <2>1, <2>2, <2>3, <2>4 DEF Effect
<1>12. CASE StepEvent(t)
  <2>1. Proceeds(t)
    BY <1>0, <1>12 DEF StepEvent, Proceeds, RequestsTyped, End
  <2>2. Tables(t)
    BY <1>0, <1>12 DEF StepEvent, Tables
  <2>3. Takes(t)
    BY <1>0, <1>12 DEF StepEvent, Takes, At, MemoryTyped, RequestsTyped, Jobs, Goal,
       Status, memory
  <2>4. Ends(t)
    BY <1>0, <1>12 DEF StepEvent, Ends, OwesRelease, Status
  <2> QED
    BY <2>1, <2>2, <2>3, <2>4 DEF Effect
<1>13. CASE Read(t)
  <2>1. Proceeds(t)
    BY <1>0, <1>13, StageSets
       DEF Read, Proceeds, At, RequestsTyped, Jobs, Goal, Query, Move, End
  <2>2. Tables(t)
    BY <1>0, <1>13 DEF Read, Tables
  <2>3. Takes(t)
    BY <1>0, <1>13 DEF Read, Takes, At, MemoryTyped, RequestsTyped, Jobs, Goal,
       Status, memory
  <2>4. Ends(t)
    BY <1>0, <1>13 DEF Read, Ends, OwesRelease, Status
  <2> QED
    BY <2>1, <2>2, <2>3, <2>4 DEF Effect
<1>14. CASE Write(t)
  <2>1. Proceeds(t)
    BY <1>0, <1>14, StageSets DEF Write, Proceeds, At, RequestsTyped, Move, End
  <2>2. Tables(t)
    <3> DEFINE row == [rows[Goal(t)] EXCEPT !.status = Result(job[t].verb)]
    <3>1. Goal(t) \in Goals /\ Status(Goal(t)) # "absent"
      BY <1>0, <1>a, <1>14 DEF At, Write, Searching
    <3>2. row \in Rows /\ row.session = rows[Goal(t)].session /\ row.status # "absent"
      BY <1>0, <3>1 DEF TableTyped, Rows, Statuses, Terminal, Status, Result
    <3>3. Update(Goal(t), row)
      BY <1>14 DEF Write, SetStatus
    <3> QED
      BY <1>0, <3>1, <3>2, <3>3, UpdateTables
  <2>3. Takes(t)
    BY <1>0, <1>14 DEF Write, Takes, memory
  <2>4. Ends(t)
    BY <1>0, <1>14
       DEF Write, Ends, OwesRelease, RequestsTyped, Goal, Status, Terminal, Move, SetStatus,
           Update, Result
  <2> QED
    BY <2>1, <2>2, <2>3, <2>4 DEF Effect
<1>15. CASE Release(t)
  <2>1. Proceeds(t)
    BY <1>0, <1>15, StageSets DEF Release, Proceeds, At, NoJob, Pin
  <2>2. Tables(t)
    BY <1>0, <1>15 DEF Release, Tables
  <2>3. Takes(t)
    BY <1>0, <1>15 DEF Release, Takes
  <2>4. Ends(t)
    BY <1>0, <1>15, <1>a, AbsentValues DEF Release, Ends, At, MemoryTyped, Status
  <2> QED
    BY <2>1, <2>2, <2>3, <2>4 DEF Effect
<1>16. CASE ReleaseNone(t)
  <2>1. Proceeds(t)
    BY <1>0, <1>16 DEF ReleaseNone, Proceeds, RequestsTyped, End
  <2>2. Tables(t)
    BY <1>0, <1>16 DEF ReleaseNone, Tables
  <2>3. Takes(t)
    BY <1>0, <1>16 DEF ReleaseNone, Takes, memory
  <2>4. Ends(t)
    BY <1>0, <1>16 DEF ReleaseNone, Ends, Status, memory, Owned
  <2> QED
    BY <2>1, <2>2, <2>3, <2>4 DEF Effect
<1>17. CASE Unpinned(t)
  <2>1. Proceeds(t)
    BY <1>0, <1>17 DEF Unpinned, Proceeds, RequestsTyped, End
  <2>2. Tables(t)
    BY <1>0, <1>17 DEF Unpinned, Tables, Routed
  <2>3. Takes(t)
    BY <1>0, <1>17 DEF Unpinned, Takes, Routed
  <2>4. Ends(t)
    BY <1>0, <1>17 DEF Unpinned, Ends, OwesRelease, Status, Routed
  <2> QED
    BY <2>1, <2>2, <2>3, <2>4 DEF Effect
<1>18. CASE ResumeCheck(t)
  <2>1. Proceeds(t)
    <3>1. CASE End(t)
      BY <1>0, <3>1 DEF Proceeds, End, RequestsTyped
    <3>2. CASE Move(t, "resumeWrite")
      BY <1>0, <1>18, <3>2, StageSets DEF ResumeCheck, Proceeds, Move, RequestsTyped, At
    <3>3. CASE Claim(t, Goal(t))
      <4>1. /\ job'[t].verb = job[t].verb /\ job'[t].goal = job[t].goal
            /\ job'[t].read = job[t].read
            /\ pc'[t] = "pinning"
            /\ \A u \in Requests \ {t} : pc'[u] = pc[u] /\ job'[u] = job[u]
        BY <1>0, <3>3 DEF Claim, Pin, RequestsTyped, Jobs, Goal
      <4>2. job[t].verb = "resume" /\ "pinning" \in Stages("resume")
        BY <1>0, <1>18, StageSets DEF ResumeCheck, At
      <4> QED
        BY <4>1, <4>2 DEF Proceeds
    <3> QED
      BY <1>18, <3>1, <3>2, <3>3 DEF ResumeCheck
  <2>2. Tables(t)
    BY <1>0, <1>18 DEF ResumeCheck, Tables, Claim
  <2>3. Takes(t)
    <3>1. CASE owner' = owner
      BY <3>1 DEF Takes
    <3>2. CASE Claim(t, Goal(t))
      BY <1>0, <1>18, <1>b, <3>2 DEF ResumeCheck, Takes, Claim, Pin, At, MemoryTyped,
         RequestsTyped, Jobs, Goal
    <3> QED
      BY <1>18, <3>1, <3>2 DEF ResumeCheck, memory
  <2>4. Ends(t)
    BY <1>0, <1>18 DEF ResumeCheck, Ends, OwesRelease, Status, Claim
  <2> QED
    BY <2>1, <2>2, <2>3, <2>4 DEF Effect
<1>19. CASE ResumeWrite(t)
  <2>1. Proceeds(t)
    BY <1>0, <1>19, StageSets DEF ResumeWrite, Proceeds, At, Query
  <2>2. Tables(t)
    <3> DEFINE row == [rows[Goal(t)] EXCEPT !.status = "paused"]
    <3>1. Goal(t) \in Goals /\ Status(Goal(t)) # "absent"
      BY <1>0, <1>a, <1>19 DEF At, ResumeWrite, Searching
    <3>2. row \in Rows /\ row.session = rows[Goal(t)].session /\ row.status # "absent"
      BY <1>0, <3>1 DEF TableTyped, Rows, Statuses, Terminal, Status
    <3>3. Update(Goal(t), row)
      BY <1>19 DEF ResumeWrite, SetStatus
    <3> QED
      BY <1>0, <3>1, <3>2, <3>3, UpdateTables
  <2>3. Takes(t)
    BY <1>0, <1>19, <1>b DEF ResumeWrite, Takes, memory
  <2>4. Ends(t)
    BY <1>0, <1>19 DEF ResumeWrite, Ends, OwesRelease, Status, Terminal, SetStatus, Update
  <2> QED
    BY <2>1, <2>2, <2>3, <2>4 DEF Effect
<1>20. CASE ResumeGet(t)
  <2>1. Proceeds(t)
    BY <1>0, <1>20, StageSets DEF ResumeGet, Proceeds, At, RequestsTyped, Goal, Query
  <2>2. Tables(t)
    BY <1>0, <1>20 DEF ResumeGet, Tables
  <2>3. Takes(t)
    BY <1>0, <1>20, <1>b DEF ResumeGet, Takes, At, MemoryTyped, RequestsTyped, Jobs,
       Goal, Status, memory
  <2>4. Ends(t)
    BY <1>0, <1>20 DEF ResumeGet, Ends, OwesRelease, Status
  <2> QED
    BY <2>1, <2>2, <2>3, <2>4 DEF Effect
<1>21. CASE ResumeClaim(t)
  <2>1. Proceeds(t)
    BY <1>0, <1>21, StageSets DEF ResumeClaim, Proceeds, At, RequestsTyped, Jobs,
       Goal, Searching, Query, Move, End, memory, NoJob, NothingRead, Claim, Pin
  <2>2. Tables(t)
    BY <1>0, <1>21 DEF ResumeClaim, Tables, Claim
  <2>3. Takes(t)
    BY <1>0, <1>21, <1>b DEF ResumeClaim, Takes, At, RequestsTyped, Claim, Pin
  <2>4. Ends(t)
    BY <1>0, <1>21 DEF ResumeClaim, Ends, OwesRelease, Status, Claim
  <2> QED
    BY <2>1, <2>2, <2>3, <2>4 DEF Effect
<1>22. ASSUME NEW g \in Goals, RecoverFlip(t, g) PROVE Effect(t)
  <2>1. Proceeds(t)
    BY <1>0, <1>22 DEF RecoverFlip, Proceeds, At
  <2>2. Tables(t)
    BY <1>0, <1>22, ZenonT(30)
       DEF RecoverFlip, Tables, WritesRow, TableTyped, Rows, SetStatus, Update
  <2>3. Takes(t)
    BY <1>0, <1>22 DEF RecoverFlip, Takes, memory
  <2>4. Ends(t)
    BY <1>0, <1>22 DEF RecoverFlip, Ends, OwesRelease, Status, Terminal, SetStatus, Update
  <2> QED
    BY <2>1, <2>2, <2>3, <2>4 DEF Effect
<1>23. ASSUME NEW g \in Goals, Pick(t, g) PROVE Effect(t)
  <2>1. Proceeds(t)
    BY <1>0, <1>23, StageSets DEF Pick, Proceeds, At, RequestsTyped, Claim, Pin, Candidates
  <2>2. Tables(t)
    BY <1>0, <1>23 DEF Pick, Tables, Claim
  <2>3. Takes(t)
    BY <1>0, <1>23 DEF Pick, Takes, RequestsTyped, Claim, Pin, Candidates
  <2>4. Ends(t)
    BY <1>0, <1>23 DEF Pick, Ends, OwesRelease, Status, Claim
  <2> QED
    BY <2>1, <2>2, <2>3, <2>4 DEF Effect
<1>24. ASSUME NEW s \in Sessions, Insert(t, s) PROVE Effect(t)
  <2>1. Proceeds(t)
    BY <1>0, <1>24 DEF Insert, Proceeds, RequestsTyped, End
  <2>2. Tables(t)
    BY <1>0, <1>24 DEF Insert, Tables, Inserts, At, RequestsTyped, End, Update
  <2>3. Takes(t)
    BY <1>0, <1>24 DEF Insert, Takes, memory
  <2>4. Ends(t)
    BY <1>0, <1>24 DEF Insert, Ends, OwesRelease, Status, Terminal, Update
  <2> QED
    BY <2>1, <2>2, <2>3, <2>4 DEF Effect
<1> QED
  BY <1>1, <1>2, <1>3, <1>4, <1>5, <1>6, <1>7, <1>8, <1>9, <1>10, <1>11, <1>12, <1>13,
     <1>14, <1>15, <1>16, <1>17, <1>18, <1>19, <1>20, <1>21, <1>22, <1>23, <1>24
     DEF Serve

------------------------------------------------------------------------------
(* The parts of BaseInv are kept by a step of a request.                     *)

LEMMA ServeTypes ==
  ASSUME BaseInv, NEW t \in Requests, Serve(t)
  PROVE  TypeOK'
<1>0. /\ TypeOK /\ RequestsTyped /\ TableTyped /\ MemoryTyped /\ At(t)
      /\ engine \in {"none", "recovering", "up"} /\ live \subseteq Sessions
      /\ job[t] \in Jobs /\ pc[t] \in PCs
  BY TypeParts, Whereabouts DEF BaseInv, RequestsTyped
<1>a. Goal(t) \in Goals /\ job[t].verb # "new" => rows[Goal(t)].session \in Sessions
  BY AbsentValues DEF BaseInv, GoalsKnown, RowsBound
<1> USE DEF memory
<1>1. CASE RecoverList(t)
  BY <1>0, <1>1, TypedNext, QueryTyped, EndTyped DEF RecoverList, TableTyped, MemoryTyped, PCs
<1>2. CASE List(t)
  BY <1>0, <1>2, TypedNext, QueryTyped, EndTyped DEF List, TableTyped, MemoryTyped, PCs
<1>3. CASE PickNone(t)
  BY <1>0, <1>3, TypedNext, QueryTyped, EndTyped DEF PickNone, TableTyped, MemoryTyped, PCs
<1>4. CASE StepRead(t)
  BY <1>0, <1>4, TypedNext, QueryTyped, EndTyped DEF StepRead, TableTyped, MemoryTyped, PCs
<1>5. CASE ResumeGet(t)
  BY <1>0, <1>5, TypedNext, QueryTyped, EndTyped DEF ResumeGet, TableTyped, MemoryTyped, PCs
<1>6. CASE Restored(t)
  BY <1>0, <1>6, TypedNext, EndTyped DEF Restored, TableTyped, MemoryTyped
<1>7. CASE StepRefused(t)
  BY <1>0, <1>7, TypedNext, EndTyped DEF StepRefused, TableTyped, MemoryTyped
<1>8. CASE ReleaseNone(t)
  BY <1>0, <1>8, TypedNext, EndTyped DEF ReleaseNone, TableTyped, MemoryTyped
<1>9. CASE Read(t)
  BY <1>0, <1>9, TypedNext, QueryTyped, EndTyped, MoveTyped DEF Read, TableTyped, MemoryTyped, PCs
<1>10. CASE Write(t)
  BY <1>0, <1>10, TypedNext, SetStatusTyped, EndTyped, MoveTyped DEF Write, TableTyped, MemoryTyped, PCs,
     Result, Statuses, Terminal
<1>11. CASE ResumeWrite(t)
  BY <1>0, <1>11, TypedNext, SetStatusTyped, QueryTyped DEF ResumeWrite, TableTyped, MemoryTyped, PCs,
     Statuses
<1>12. CASE RecoverClear(t)
  <2>1. FirstStage(job[t].verb) \in PCs
    BY <1>0, VerbCases DEF FirstStage, PCs
  <2> QED
    BY <1>0, <1>12, <2>1, TypedNext, MoveTyped DEF RecoverClear, TableTyped, MemoryTyped
<1>13. ASSUME NEW g \in Goals, RecoverFlip(t, g) PROVE TypeOK'
  <2>1. TableTyped'
    BY <1>0, <1>13, SetStatusTyped DEF RecoverFlip, Statuses
  <2>2. [job[t].read EXCEPT ![g] = NoRow] \in [Goals -> Rows]
    BY <1>0, Constants DEF Jobs
  <2>3. RequestsTyped'
    BY <1>0, <1>13, <2>2 DEF RecoverFlip, RequestsTyped, Jobs
  <2> QED
    BY <1>0, <1>13, <2>1, <2>3, TypedNext DEF RecoverFlip, MemoryTyped
<1>14. ASSUME NEW s \in Sessions, Insert(t, s) PROVE TypeOK'
  <2>1. [NoRow EXCEPT !.status = "pending", !.session = s] \in Rows
    BY DEF NoRow, Rows, Statuses
  <2> QED
    BY <1>0, <1>14, <2>1, TypedNext, UpdateTyped, EndTyped DEF Insert, MemoryTyped
<1>15. CASE StartWrite(t)
  <2> DEFINE row == [rows[Goal(t)] EXCEPT !.status = "running",
                            !.steps = job[t].read[Goal(t)].steps]
  <2>1. Goal(t) \in Goals
    BY <1>0, <1>15 DEF At, StartWrite, Searching
  <2>2. job[t].read[Goal(t)].steps \in Nat
    BY <1>0, <2>1 DEF Jobs, Rows
  <2>3. row \in Rows
    BY <1>0, <2>1, <2>2 DEF TableTyped, Rows, Statuses, Terminal, Status
  <2>4. Update(Goal(t), row)
    BY <1>15 DEF StartWrite
  <2>5. TableTyped'
    BY <1>0, <2>3, <2>4, UpdateTyped
  <2>6. RequestsTyped'
    BY <1>0, <1>15, QueryTyped DEF StartWrite, PCs
  <2> QED
    BY <1>0, <1>15, <2>5, <2>6, TypedNext DEF StartWrite, MemoryTyped
<1>16. CASE StepFail(t)
  <2> DEFINE row == [rows[Goal(t)] EXCEPT !.status = "failed",
                            !.steps = job[t].read[Goal(t)].steps + 1,
                            !.tokens = job[t].read[Goal(t)].tokens \cup ({job[t].token} \ {NoToken})]
  <2>1. Goal(t) \in Goals
    BY <1>0, <1>16 DEF At, StepFail, Searching
  <2>2. /\ job[t].read[Goal(t)].tokens \cup ({job[t].token} \ {NoToken}) \in SUBSET Tokens
        /\ job[t].read[Goal(t)].steps + 1 \in Nat
    BY <1>0, <2>1 DEF Jobs, Rows
  <2>3. row \in Rows
    BY <1>0, <2>1, <2>2 DEF TableTyped, Rows, Statuses, Terminal, Status
  <2>4. Update(Goal(t), row)
    BY <1>16 DEF StepFail, Charged
  <2>5. TableTyped'
    BY <1>0, <2>3, <2>4, UpdateTyped
  <2>6. RequestsTyped'
    BY <1>0, <1>16, QueryTyped DEF StepFail, PCs
  <2> QED
    BY <1>0, <1>16, <2>5, <2>6, TypedNext DEF StepFail, MemoryTyped
<1>17. CASE StepWrite(t)
  <2> DEFINE row == [rows[Goal(t)] EXCEPT !.status = Status(Goal(t)),
                            !.steps = job[t].read[Goal(t)].steps + 1,
                            !.tokens = job[t].read[Goal(t)].tokens \cup ({job[t].token} \ {NoToken})]
  <2>1. Goal(t) \in Goals
    BY <1>0, <1>17 DEF At, StepWrite, Searching
  <2>2. /\ job[t].read[Goal(t)].tokens \cup ({job[t].token} \ {NoToken}) \in SUBSET Tokens
        /\ job[t].read[Goal(t)].steps + 1 \in Nat
    BY <1>0, <2>1 DEF Jobs, Rows
  <2>3. row \in Rows
    BY <1>0, <2>1, <2>2 DEF TableTyped, Rows, Statuses, Terminal, Status
  <2>4. Update(Goal(t), row)
    BY <1>17 DEF StepWrite, Charged
  <2>5. TableTyped'
    BY <1>0, <2>3, <2>4, UpdateTyped
  <2>6. RequestsTyped'
    BY <1>0, <1>17, QueryTyped DEF StepWrite, PCs
  <2> QED
    BY <1>0, <1>17, <2>5, <2>6, TypedNext DEF StepWrite, MemoryTyped
<1>18. CASE StepEvent(t)
  BY <1>0, <1>18, TypedNext, EndTyped DEF StepEvent, TableTyped, MemoryTyped
<1>19. ASSUME NEW g \in Goals, Claim(t, g) PROVE TypeOK'
  <2>1. RequestsTyped'
    BY <1>0, <1>19 DEF Claim, Pin, RequestsTyped, Jobs, RouteChange, PCs
  <2>2. MemoryTyped'
    BY <1>0, <1>19 DEF Claim, Pin, MemoryTyped
  <2> QED
    BY <1>0, <1>19, <2>1, <2>2, TypedNext DEF Claim, TableTyped
<1>20. ASSUME NEW g \in Goals, Pick(t, g) PROVE TypeOK'
  BY <1>20, <1>19 DEF Pick
<1>21. CASE ResumeClaim(t)
  BY <1>0, <1>21, <1>19 DEF ResumeClaim, At, Searching
<1>22. CASE ResumeCheck(t)
  <2>1. Goal(t) \in Goals
    BY <1>0, <1>22 DEF ResumeCheck, At, Searching
  <2>2. CASE UNCHANGED <<rows, served, engine, live, memory>> /\ (End(t) \/ Move(t, "resumeWrite"))
    BY <1>0, <2>2, TypedNext, EndTyped, MoveTyped DEF TableTyped, MemoryTyped, PCs
  <2> QED
    BY <1>22, <1>19, <2>1, <2>2 DEF ResumeCheck
<1>23. CASE Release(t)
  <2>1. RequestsTyped'
    BY <1>0, <1>23 DEF Release, Pin, RequestsTyped, Jobs, RouteChange, PCs
  <2>2. MemoryTyped'
    BY <1>0, <1>23 DEF Release, Pin, MemoryTyped
  <2> QED
    BY <1>0, <1>23, <2>1, <2>2, TypedNext DEF Release, TableTyped
<1>24. CASE Pinned(t)
  <2>1. Goal(t) \in Goals /\ job[t].verb # "new"
    BY <1>0, <1>24 DEF Pinned, At, Searching
  <2>2. MemoryTyped'
    BY <1>0, <1>a, <1>24, <2>1 DEF Pinned, Routed, MemoryTyped
  <2>3. RequestsTyped'
    BY <1>0, <1>24, EndTyped DEF Pinned, RequestsTyped, Jobs, PCs
  <2> QED
    BY <1>0, <1>24, <2>2, <2>3, TypedNext DEF Pinned, Routed, TableTyped
<1>25. CASE Unpinned(t)
  <2>1. Goal(t) \in Goals /\ job[t].verb # "new"
    BY <1>0, <1>25 DEF Unpinned, At, Searching
  <2>2. MemoryTyped'
    BY <1>0, <1>a, <1>25, <2>1 DEF Unpinned, Routed, MemoryTyped
  <2>3. RequestsTyped'
    BY <1>0, <1>25, EndTyped DEF Unpinned, RequestsTyped, Jobs, PCs
  <2> QED
    BY <1>0, <1>25, <2>2, <2>3, TypedNext DEF Unpinned, Routed, TableTyped
<1> QED
  BY <1>1, <1>2, <1>3, <1>4, <1>5, <1>6, <1>7, <1>8, <1>9, <1>10, <1>11, <1>12, <1>13,
     <1>14, <1>15, <1>16, <1>17, <1>18, <1>19, <1>20, <1>21, <1>22, <1>23, <1>24, <1>25
     DEF Serve

LEMMA SessionsStay ==
  ASSUME BaseInv, NEW t \in Requests, Tables(t), NEW g \in Goals
  PROVE  /\ Status(g) # "absent" =>
              rows'[g].session = rows[g].session /\ rows'[g].status # "absent"
         /\ Status(g) = "absent" => \/ rows'[g] = rows[g]
                                    \/ Inserts(t) /\ g = Goal(t)
<1>0. rows \in [Goals -> Rows] /\ At(t)
  BY Whereabouts DEF BaseInv, TypeOK
<1>1. CASE rows' = rows
  BY <1>1 DEF Status
<1>2. CASE Inserts(t)
  <2>1. Status(Goal(t)) = "absent" /\ Goal(t) \in Goals
    BY <1>0, <1>2, AbsentValues DEF BaseInv, GoalsKnown, Inserts, At
  <2> QED
    BY <1>0, <1>2, <2>1 DEF Inserts, Status
<1>3. CASE \E h \in Goals : WritesRow(h)
  BY <1>0, <1>3 DEF WritesRow, Status
<1> QED
  BY <1>1, <1>2, <1>3 DEF Tables

LEMMA ServeBase ==
  ASSUME BaseInv, NEW t \in Requests, Serve(t)
  PROVE  BaseInv'
<1>1. Effect(t) /\ TypeOK' /\ TypeOK
  BY ServeEffect, ServeTypes DEF BaseInv
<1>2. /\ \A u \in Requests \ {t} : pc'[u] = pc[u] /\ job'[u] = job[u]
      /\ \A u \in Requests : At(u)
      /\ rows \in [Goals -> Rows] /\ rows' \in [Goals -> Rows]
      /\ NoJob.goal = NoGoal /\ NoJob.verb = "none" /\ \A g \in Goals : NoJob.read[g] = NoRow
  BY <1>1, Whereabouts DEF Effect, Proceeds, BaseInv, TypeOK, NoJob, NothingRead
<1>3. \A g \in Goals :
        /\ Status(g) # "absent" =>
             rows'[g].session = rows[g].session /\ rows'[g].status # "absent"
        /\ Status(g) = "absent" => \/ rows'[g] = rows[g]
                                   \/ Inserts(t) /\ g = Goal(t)
  BY <1>1, SessionsStay DEF Effect
<1>4. StageOfVerb'
  <2> SUFFICES ASSUME NEW u \in Requests
               PROVE  /\ pc'[u] \in Stages(job'[u].verb)
                      /\ job'[u].goal = NoGoal <=>
                           \/ job'[u].verb = "none"
                           \/ job'[u].verb = "next" /\ pc'[u] \in Searching
    BY DEF StageOfVerb, Goal
  <2>1. CASE u # t
    BY <1>2, <2>1 DEF BaseInv, StageOfVerb, Goal
  <2>2. CASE u = t /\ pc'[t] = "idle" /\ job'[t] = NoJob
    BY <1>2, <2>2, StageSets
  <2>3. CASE u = t /\ ~(pc'[t] = "idle" /\ job'[t] = NoJob)
    <3>1. /\ job'[t].verb = job[t].verb
          /\ pc'[t] \in Stages(job[t].verb)
          /\ \/ /\ job'[t].goal = job[t].goal
                /\ job[t].verb = "next" => (pc'[t] \in Searching <=> pc[t] \in Searching)
             \/ /\ job[t].verb = "next" /\ pc'[t] = "pinning"
                /\ job'[t].goal \in Goals /\ job[t].read[job'[t].goal] # NoRow
      BY <1>1, <2>3 DEF Effect, Proceeds
    <3>2. Goal(t) = NoGoal <=> \/ job[t].verb = "none"
                               \/ job[t].verb = "next" /\ pc[t] \in Searching
      BY DEF BaseInv, StageOfVerb
    <3> QED
      BY <2>3, <3>1, <3>2, AbsentValues DEF Goal, Searching
  <2> QED
    BY <2>1, <2>2, <2>3
<1>5. RowsBound'
  <2> SUFFICES ASSUME NEW g \in Goals
               PROVE  IF rows'[g].status = "absent" THEN rows'[g] = NoRow
                      ELSE rows'[g].session \in Sessions
    BY DEF RowsBound, Status
  <2>1. CASE Inserts(t) /\ g = Goal(t)
    BY <1>2, <2>1 DEF Inserts, NoRow, Rows
  <2>2. CASE ~(Inserts(t) /\ g = Goal(t))
    BY <1>3, <2>2 DEF BaseInv, RowsBound, Status
  <2> QED
    BY <2>1, <2>2
<1>6. OwnersBound'
  <2> SUFFICES ASSUME NEW s \in Sessions, owner'[s] # NoGoal
               PROVE  rows'[owner'[s]].session = s
    BY DEF OwnersBound
  <2>1. CASE owner'[s] = owner[s]
    <3>1. rows[owner[s]].session = s /\ owner[s] \in Goals
      BY <1>1, <2>1 DEF BaseInv, OwnersBound, TypeOK
    <3>2. Status(owner[s]) # "absent"
      BY <3>1, AbsentValues DEF BaseInv, RowsBound, NoRow
    <3> QED
      BY <1>3, <2>1, <3>1, <3>2
  <2>2. CASE owner'[s] # owner[s]
    <3> DEFINE g == job'[t].goal
    <3>1. owner'[s] = g /\ g \in Goals /\ job[t].read[g] # NoRow /\ job[t].read[g].session = s
      BY <1>1, <2>2 DEF Effect, Takes
    <3>2. rows[g].session = s /\ Status(g) # "absent"
      BY <3>1 DEF BaseInv, ReadsBound
    <3> QED
      BY <1>3, <3>1, <3>2
  <2> QED
    BY <2>1, <2>2
<1>7. GoalsKnown'
  <2> SUFFICES ASSUME NEW u \in Requests, job'[u].goal # NoGoal
               PROVE  IF job'[u].verb = "new"
                      THEN /\ rows'[job'[u].goal].status = "absent"
                           /\ \A w \in Requests \ {u} : job'[w].goal # job'[u].goal
                      ELSE rows'[job'[u].goal].status # "absent"
    BY DEF GoalsKnown, Goal, Status
  <2>1. job'[t].goal \notin {NoGoal, job[t].goal} => Status(job'[t].goal) # "absent"
                                                      /\ job'[t].verb = "next"
    BY <1>1, <1>2 DEF Effect, Proceeds, BaseInv, ReadsBound
  <2>2. CASE u # t
    <3>1. job'[u] = job[u] /\ Goal(u) # NoGoal /\ Goal(u) \in Goals
      BY <1>1, <1>2, <2>2 DEF Goal, TypeOK, Jobs
    <3>2. CASE job[u].verb = "new"
      <4>1. Status(Goal(u)) = "absent" /\ \A w \in Requests \ {u} : Goal(w) # Goal(u)
        BY <3>1, <3>2 DEF BaseInv, GoalsKnown
      <4>2. rows'[Goal(u)] = rows[Goal(u)]
        BY <1>3, <2>2, <3>1, <4>1
      <4>3. job'[t].goal # Goal(u)
        BY <2>1, <2>2, <3>1, <4>1 DEF Goal
      <4> QED
        BY <1>2, <3>1, <3>2, <4>1, <4>2, <4>3 DEF Goal, Status
    <3>3. CASE job[u].verb # "new"
      BY <1>3, <3>1, <3>3 DEF BaseInv, GoalsKnown, Goal
    <3> QED
      BY <3>2, <3>3
  <2>3. CASE u = t
    <3>1. job'[t].verb = job[t].verb /\ job'[t].goal \in Goals
      BY <1>1, <1>2, <2>3 DEF Effect, Proceeds, TypeOK, Jobs
    <3>2. CASE job[t].verb = "new"
      <4>1. job'[t].goal = Goal(t)
        BY <2>1, <2>3, <3>1, <3>2 DEF Goal
      <4>2. Status(Goal(t)) = "absent" /\ \A w \in Requests \ {t} : Goal(w) # Goal(t)
        BY <2>3, <3>1, <3>2, <4>1, AbsentValues DEF BaseInv, GoalsKnown
      <4>3. ~Inserts(t)
        BY <1>2, <2>3 DEF Inserts
      <4> QED
        BY <1>2, <1>3, <2>3, <3>1, <3>2, <4>1, <4>2, <4>3 DEF Goal, Status
    <3>3. CASE job[t].verb # "new"
      <4>1. Status(job'[t].goal) # "absent"
        BY <2>1, <2>3, <3>1, <3>3, AbsentValues DEF BaseInv, GoalsKnown, Goal
      <4> QED
        BY <1>3, <2>3, <3>1, <3>3, <4>1
    <3> QED
      BY <3>2, <3>3
  <2> QED
    BY <2>2, <2>3
<1>8. ReadsBound'
  <2> SUFFICES ASSUME NEW u \in Requests, NEW g \in Goals
               PROVE  /\ job'[u].read[g] # NoRow =>
                           /\ job'[u].read[g].session = rows'[g].session
                           /\ rows'[g].status # "absent"
                      /\ pc'[u] \in {"resumeCheck", "resumeClaim"} /\ job'[u].goal = g =>
                           job'[u].read[g] # NoRow
    BY DEF ReadsBound, Goal, Status
  <2>1. rows[g] # NoRow => Status(g) # "absent"
    BY DEF BaseInv, RowsBound
  <2>2. job[u].read[g] # NoRow =>
          job[u].read[g].session = rows[g].session /\ Status(g) # "absent"
    BY DEF BaseInv, ReadsBound
  <2>3. CASE u # t
    BY <1>2, <1>3, <2>2, <2>3 DEF BaseInv, ReadsBound, Goal
  <2>4. CASE u = t
    <3>1. job'[t].read[g] \in {NoRow, job[t].read[g], rows[g]}
      BY <1>1, <1>2 DEF Effect, Proceeds
    <3>2. pc'[t] \in {"resumeCheck", "resumeClaim"} /\ job'[t].goal = g =>
            job'[t].read[g] # NoRow
      <4> SUFFICES ASSUME pc'[t] \in {"resumeCheck", "resumeClaim"}, job'[t].goal = g
                   PROVE  job'[t].read[g] # NoRow
        OBVIOUS
      <4>1. /\ job'[t].verb = job[t].verb /\ pc'[t] \in Stages(job[t].verb)
            /\ job'[t].read[g] = rows[g]
            /\ job'[t].goal = job[t].goal
        BY <1>1 DEF Effect, Proceeds
      <4>2. job[t].verb # "new"
        BY <4>1, StageSets
      <4> QED
        BY <1>2, <4>1, <4>2, AbsentValues DEF BaseInv, GoalsKnown, Goal, Status, NoRow
    <3> QED
      BY <1>3, <2>1, <2>2, <2>4, <3>1, <3>2
  <2> QED
    BY <2>3, <2>4
<1>9. FinishedGoalsLetGo'
  <2> SUFFICES ASSUME NEW s \in Sessions, owner'[s] # NoGoal,
                      rows'[owner'[s]].status \in Terminal
               PROVE  \E u \in Requests : job'[u].goal = owner'[s] /\ OwesRelease(u)'
    BY DEF FinishedGoalsLetGo, Goal, Status
  <2>1. CASE owner'[s] # owner[s]
    BY <1>1, <2>1 DEF Effect, Takes, OwesRelease
  <2>2. CASE owner'[s] = owner[s]
    <3> DEFINE g == owner[s]
    <3>1. g \in Goals /\ rows[g].session = s
      BY <1>1, <2>2 DEF BaseInv, OwnersBound, TypeOK
    <3>2. CASE Status(g) \notin Terminal
      BY <1>1, <2>2, <3>1, <3>2 DEF Effect, Ends, OwesRelease
    <3>3. CASE Status(g) \in Terminal
      <4>1. PICK u \in Requests : Goal(u) = g /\ OwesRelease(u)
        BY <2>2, <3>3 DEF BaseInv, FinishedGoalsLetGo
      <4>2. CASE u = t
        BY <1>1, <2>2, <3>1, <4>1, <4>2 DEF Effect, Ends
      <4>3. CASE u # t
        BY <1>2, <2>2, <4>1, <4>3 DEF OwesRelease, Goal
      <4> QED
        BY <4>2, <4>3
    <3> QED
      BY <3>2, <3>3
  <2> QED
    BY <2>1, <2>2
<1> QED
  BY <1>1, <1>4, <1>5, <1>6, <1>7, <1>8, <1>9 DEF BaseInv

------------------------------------------------------------------------------
(* The other steps: an arrival, a session, a crash.                          *)

LEMMA ArriveBase ==
  ASSUME BaseInv, NEW t \in Requests, NEW v \in Verbs, NEW g \in Goals \cup {NoGoal},
         NEW k \in Tokens \cup {NoToken}, Arrive(t, v, g, k)
  PROVE  BaseInv'
<1> DEFINE new == [NoJob EXCEPT !.verb = v, !.goal = g, !.token = k]
<1>1. /\ TypeOK /\ RequestsTyped /\ v \in AllVerbs
      /\ UNCHANGED <<rows, served, live, memory>>
      /\ pc[t] = "idle" /\ job[t].verb = "none" /\ Goal(t) = NoGoal
  BY TypeParts, Whereabouts, VerbsKnown DEF BaseInv, Arrive, At, StageOfVerb
<1>2. new \in Jobs /\ new.verb = v /\ new.goal = g /\ new.read = NothingRead
  BY <1>1, Constants DEF NoJob, Jobs
<1>3. /\ pc'[t] \in {"recList", FirstStage(v)}
      /\ pc' = [pc EXCEPT ![t] = pc'[t]]
      /\ job' = [job EXCEPT ![t] = new] /\ job'[t] = new
      /\ \A u \in Requests \ {t} : pc'[u] = pc[u] /\ job'[u] = job[u]
  BY <1>1 DEF Arrive, RequestsTyped
<1>4. pc'[t] \in Stages(v) /\ Stages(v) \subseteq PCs
  BY <1>1, <1>3, VerbCases
<1>5. TypeOK'
  <2>1. RequestsTyped'
    BY <1>1, <1>2, <1>3, <1>4 DEF RequestsTyped
  <2>2. engine' \in {"none", "recovering", "up"}
    BY <1>1 DEF Arrive, TypeOK
  <2> QED
    BY <1>1, <2>1, <2>2, TypedNext
<1>6. StageOfVerb'
  <2>1. g = NoGoal <=> v = "next"
    BY DEF Arrive
  <2>2. v = "next" => pc'[t] \in Searching
    BY <1>3 DEF FirstStage, Searching
  <2>3. ASSUME NEW u \in Requests \ {t}
        PROVE  /\ pc'[u] \in Stages(job'[u].verb)
               /\ job'[u].goal = NoGoal <=> \/ job'[u].verb = "none"
                                            \/ job'[u].verb = "next" /\ pc'[u] \in Searching
    BY <1>3 DEF BaseInv, StageOfVerb, Goal
  <2>4. v # "none"
    BY <1>1 DEF AllVerbs
  <2> QED
    BY <1>2, <1>3, <1>4, <2>1, <2>2, <2>3, <2>4, ZenonT(30) DEF StageOfVerb, Goal
<1>7. RowsBound' /\ OwnersBound'
  BY <1>1 DEF BaseInv, RowsBound, OwnersBound, Status, memory
<1>8. GoalsKnown'
  <2> SUFFICES ASSUME NEW u \in Requests, job'[u].goal # NoGoal
               PROVE  IF job'[u].verb = "new"
                      THEN /\ Status(job'[u].goal) = "absent"
                           /\ \A w \in Requests \ {u} : job'[w].goal # job'[u].goal
                      ELSE Status(job'[u].goal) # "absent"
    BY <1>1 DEF GoalsKnown, Goal, Status
  <2>1. /\ g # NoGoal => ((v = "new") <=> (Status(g) = "absent"))
        /\ v = "new" => \A w \in Requests : Goal(w) # g
    BY DEF Arrive
  <2>2. job'[t].goal = g /\ job'[t].verb = v
    BY <1>2, <1>3
  <2> HIDE DEF new
  <2>3. CASE u = t
    BY <1>3, <2>1, <2>2, <2>3 DEF Goal
  <2>4. CASE u # t
    <3>1. job'[u] = job[u] /\ Goal(u) # NoGoal
      BY <1>3, <2>4 DEF Goal
    <3>2. CASE job[u].verb = "new"
      <4>1. Status(Goal(u)) = "absent" /\ \A w \in Requests \ {u} : Goal(w) # Goal(u)
        BY <3>1, <3>2 DEF BaseInv, GoalsKnown
      <4>2. g # Goal(u)
        BY <2>1, <3>1, <4>1
      <4> QED
        BY <1>3, <2>2, <3>1, <3>2, <4>1, <4>2 DEF Goal
    <3>3. CASE job[u].verb # "new"
      BY <3>1, <3>3 DEF BaseInv, GoalsKnown, Goal
    <3> QED
      BY <3>2, <3>3
  <2> QED
    BY <2>3, <2>4
<1>9. ReadsBound'
  <2>1. pc'[t] \notin {"resumeCheck", "resumeClaim"}
    BY <1>3 DEF FirstStage
  <2>2. job'[t].read = NothingRead
    BY <1>2, <1>3
  <2>3. \A h \in Goals : job'[t].read[h] = NoRow
    BY <2>2 DEF NothingRead
  <2> HIDE DEF new
  <2> QED
    BY <1>1, <1>3, <2>1, <2>3 DEF BaseInv, ReadsBound, Goal, Status
<1>10. FinishedGoalsLetGo'
  <2>1. \A u \in Requests : OwesRelease(u) => u # t
    BY <1>1 DEF OwesRelease
  <2>2. \A u \in Requests \ {t} : Goal(u)' = Goal(u) /\ (OwesRelease(u)' <=> OwesRelease(u))
    BY <1>3 DEF Goal, OwesRelease
  <2> QED
    BY <1>1, <2>1, <2>2 DEF BaseInv, FinishedGoalsLetGo, Status, memory
<1> QED
  BY <1>5, <1>6, <1>7, <1>8, <1>9, <1>10 DEF BaseInv

LEMMA OtherBase ==
  ASSUME BaseInv,
         (\E s \in Sessions : SessionUp(s) \/ SessionDown(s)) \/ UNCHANGED vars
  PROVE  BaseInv'
<1>1. /\ UNCHANGED <<rows, served, engine, owner, pc>>
      /\ \A u \in Requests : /\ job'[u].verb = job[u].verb
                             /\ job'[u].goal = job[u].goal
                             /\ job'[u].read = job[u].read
  <2>1. \A u \in Requests : job[u] \in Jobs
    BY DEF BaseInv, TypeOK
  <2>2. CASE UNCHANGED vars \/ \E s \in Sessions : SessionUp(s)
    BY <2>2 DEF SessionUp, vars, memory
  <2>3. CASE \E s \in Sessions : SessionDown(s)
    BY <2>1, <2>3 DEF SessionDown, Jobs
  <2> QED
    BY <2>2, <2>3
<1>2. TypeOK'
  <2>1. CASE UNCHANGED vars
    BY <2>1 DEF BaseInv, TypeOK, vars, memory
  <2>2. ASSUME NEW s \in Sessions, SessionUp(s) PROVE TypeOK'
    BY <2>2 DEF BaseInv, TypeOK, SessionUp, memory
  <2>3. ASSUME NEW s \in Sessions, SessionDown(s) PROVE TypeOK'
    <3>1. \A u \in Requests : [job[u] EXCEPT !.route = "none"] \in Jobs
      BY DEF BaseInv, TypeOK, Jobs
    <3>2. job' \in [Requests -> Jobs]
      BY <2>3, <3>1 DEF BaseInv, TypeOK, SessionDown
    <3> QED
      BY <2>3, <3>2 DEF BaseInv, TypeOK, SessionDown
  <2> QED
    BY <2>1, <2>2, <2>3
<1>3. StageOfVerb' /\ GoalsKnown' /\ ReadsBound'
  BY <1>1 DEF BaseInv, StageOfVerb, GoalsKnown, ReadsBound, Goal, Status
<1>4. RowsBound' /\ OwnersBound'
  BY <1>1 DEF BaseInv, RowsBound, OwnersBound, Status
<1>5. FinishedGoalsLetGo'
  BY <1>1 DEF BaseInv, FinishedGoalsLetGo, Status, Goal, OwesRelease
<1> QED
  BY <1>2, <1>3, <1>4, <1>5 DEF BaseInv

\* Without requests and owners, little is left to say.
LEMMA EmptyBase ==
  ASSUME TableTyped, RowsBound, engine = "none", live = {}, guard = {}, orphans = {},
         owner = [s \in Sessions |-> NoGoal], gate = [s \in Sessions |-> NoGoal],
         pc = [t \in Requests |-> "idle"], job = [t \in Requests |-> NoJob]
  PROVE  BaseInv
<1>1. NoJob.goal = NoGoal /\ NoJob.verb = "none" /\ \A g \in Goals : NoJob.read[g] = NoRow
  BY DEF NoJob, NothingRead
<1>2. TypeOK
  BY TypeParts, Constants DEF MemoryTyped, RequestsTyped, PCs
<1> QED
  BY <1>1, <1>2, StageSets DEF BaseInv, StageOfVerb, OwnersBound, GoalsKnown, ReadsBound,
     FinishedGoalsLetGo, Goal

LEMMA CrashBase ==
  ASSUME BaseInv, Crash
  PROVE  BaseInv'
<1>1. NoJob.goal = NoGoal /\ NoJob.verb = "none" /\ \A g \in Goals : NoJob.read[g] = NoRow
  BY DEF NoJob, NothingRead
<1>2. /\ UNCHANGED <<rows, served>> /\ engine' = "none" /\ live' = {}
      /\ guard' = {} /\ orphans' = {}
      /\ owner' = [s \in Sessions |-> NoGoal] /\ gate' = [s \in Sessions |-> NoGoal]
      /\ pc' = [t \in Requests |-> "idle"] /\ job' = [t \in Requests |-> NoJob]
  BY DEF Crash
<1>3. TypeOK'
  BY <1>2, Constants DEF BaseInv, TypeOK, PCs
<1>4. RowsBound'
  BY <1>2 DEF BaseInv, RowsBound, Status
<1>5. OwnersBound' /\ FinishedGoalsLetGo'
  BY <1>2 DEF OwnersBound, FinishedGoalsLetGo
<1>6. StageOfVerb' /\ GoalsKnown' /\ ReadsBound'
  BY <1>1, <1>2, StageSets DEF StageOfVerb, GoalsKnown, ReadsBound, Goal
<1> QED
  BY <1>3, <1>4, <1>5, <1>6 DEF BaseInv

LEMMA InitBase == Init => BaseInv
<1> SUFFICES ASSUME Init PROVE BaseInv
  OBVIOUS
<1>1. TableTyped /\ RowsBound
  BY Constants DEF Init, TableTyped, RowsBound, Status, NoRow
<1> QED
  BY <1>1, EmptyBase DEF Init

\* The inductive invariant of every client.
THEOREM BaseInductive == Spec => []BaseInv
<1>1. BaseInv /\ [Next]_vars => BaseInv'
  BY ServeBase, ArriveBase, OtherBase, CrashBase DEF Next
<1> QED
  BY InitBase, <1>1, PTL DEF Spec

\* Every variable keeps its type, in every instance (TypeOK).
THEOREM GoalTypes == Spec => []TypeOK
BY BaseInductive, PTL DEF BaseInv

\* A goal that is over lets go of its session, whatever the clients do and
\* however often the daemon dies (FinishedGoalsLetGo).
THEOREM FinishedLetGo == Spec => []FinishedGoalsLetGo
BY BaseInductive, PTL DEF BaseInv

------------------------------------------------------------------------------
(* Every client: the recovery has the engine to itself.                      *)

Recovering(t) == pc[t] \in {"recList", "recFlip"}

Basics(t) ==
  /\ TableTyped /\ MemoryTyped /\ RequestsTyped
  /\ At(t) /\ job[t] \in Jobs /\ pc[t] \in PCs

LEMMA BasicsHold ==
  ASSUME BaseInv, NEW t \in Requests
  PROVE  Basics(t)
BY TypeParts, Whereabouts DEF BaseInv, RequestsTyped, Basics

LEMMA Queried ==
  ASSUME RequestsTyped, NEW t \in Requests, NEW found, NEW stage, Query(t, found, stage)
  PROVE  /\ pc'[t] = stage /\ job'[t].verb = job[t].verb /\ job'[t].goal = job[t].goal
         /\ \A g \in Goals : job'[t].read[g] = IF g \in found THEN rows[g] ELSE NoRow
BY DEF RequestsTyped, Jobs, Query

\* The engine comes up when the recovery is over, and only then.
LEMMA ServeEngine ==
  ASSUME BaseInv, NEW t \in Requests, Serve(t)
  PROVE  /\ pc[t] # "idle"
         /\ RecoverClear(t) \/ (engine' = engine /\ (Recovering(t)' <=> Recovering(t)))
<1>0. Basics(t)
  BY BasicsHold
<1> USE <1>0 DEF memory, Basics, RequestsTyped, Recovering, Query, Move, End, PCs
<1>1. CASE RecoverList(t) \/ \E g \in Goals : RecoverFlip(t, g)
  BY <1>1 DEF RecoverList, RecoverFlip
<1>a. CASE RecoverClear(t)
  BY <1>a DEF RecoverClear
<1>2. CASE (\E g \in Goals : Pick(t, g)) \/ ResumeClaim(t)
  BY <1>2 DEF Pick, ResumeClaim, Claim, Pin
<1>b. CASE ResumeCheck(t)
  BY <1>b DEF ResumeCheck, Claim, Pin
<1>3. CASE (\E s \in Sessions : Insert(t, s)) \/ List(t) \/ PickNone(t) \/ Pinned(t)
  BY <1>3 DEF Insert, List, PickNone, Pinned, Routed
<1>4. CASE StartWrite(t) \/ Restored(t) \/ StepRefused(t) \/ StepRead(t) \/ StepFail(t)
  BY <1>4 DEF StartWrite, Restored, StepRefused, StepRead, StepFail
<1>5. CASE StepWrite(t) \/ StepEvent(t) \/ Read(t) \/ Write(t)
  BY <1>5 DEF StepWrite, StepEvent, Read, Write
<1>6. CASE Release(t) \/ ReleaseNone(t) \/ Unpinned(t) \/ ResumeWrite(t) \/ ResumeGet(t)
  BY <1>6 DEF Release, ReleaseNone, Unpinned, Routed, ResumeWrite, ResumeGet, Pin, Owned
<1> QED
  BY <1>1, <1>2, <1>3, <1>4, <1>5, <1>6, <1>a, <1>b DEF Serve

LEMMA ServeRecovery ==
  ASSUME BaseInv, RecoveryAlone, NEW t \in Requests, Serve(t)
  PROVE  RecoveryAlone'
<1>0. /\ Basics(t) /\ pc[t] # "idle"
      /\ RecoverClear(t) \/ (engine' = engine /\ (Recovering(t)' <=> Recovering(t)))
      /\ \A u \in Requests \ {t} : pc'[u] = pc[u]
  BY BasicsHold, ServeEngine, ServeEffect DEF Effect, Proceeds
<1>1. engine \in {"recovering", "up"} /\ (engine = "recovering" <=> Recovering(t))
  BY <1>0 DEF RecoveryAlone, Recovering, BaseInv, TypeOK
<1>2. CASE engine = "recovering"
  <2>1. \A u \in Requests \ {t} : pc'[u] = "idle"
    BY <1>0, <1>2 DEF RecoveryAlone
  <2>2. CASE RecoverClear(t)
    <3>1. engine' = "up" /\ pc'[t] = FirstStage(job[t].verb)
      BY <1>0, <2>2 DEF RecoverClear, Move, Basics, RequestsTyped
    <3>2. pc'[t] \notin {"recList", "recFlip"}
      BY <3>1 DEF FirstStage
    <3> QED
      BY <2>1, <3>1, <3>2 DEF RecoveryAlone
  <2>3. CASE RecoverList(t) \/ \E g \in Goals : RecoverFlip(t, g)
    <3>1. engine' = engine /\ owner' = owner /\ pc'[t] = "recFlip"
      BY <1>0, <2>3 DEF RecoverList, RecoverFlip, memory, Query, Basics, RequestsTyped
    <3>2. \A g \in Goals : rows'[g].status = "running" <=> job'[t].read[g] # NoRow
      <4>1. CASE RecoverList(t)
        <5>1. \A g \in Goals : /\ rows'[g] = rows[g]
                               /\ job'[t].read[g] = IF Status(g) = "running" THEN rows[g] ELSE NoRow
          BY <1>0, <4>1, Queried DEF RecoverList, WithStatus, Basics
        <5>2. \A g \in Goals : Status(g) = "running" => rows[g] # NoRow
          BY DEF Status, NoRow
        <5> QED
          BY <5>1, <5>2 DEF Status
      <4>2. CASE \E g \in Goals : RecoverFlip(t, g)
        <5>1. \A g \in Goals : Status(g) = "running" <=> job[t].read[g] # NoRow
          BY <4>2 DEF RecoveryAlone, RecoverFlip
        <5>2. PICK g \in Goals : RecoverFlip(t, g)
          BY <4>2
        <5>3. /\ rows'[g].status = "paused" /\ job'[t].read[g] = NoRow
              /\ \A h \in Goals \ {g} : rows'[h] = rows[h] /\ job'[t].read[h] = job[t].read[h]
          BY <1>0, <5>2 DEF RecoverFlip, SetStatus, Update, Basics, TableTyped,
             RequestsTyped, Jobs, Rows
        <5> QED
          BY <5>1, <5>3 DEF Status
      <4> QED
        BY <2>3, <4>1, <4>2
    <3> QED
      BY <1>2, <2>1, <3>1, <3>2 DEF RecoveryAlone, Status
  <2> QED
    <3>1. pc[t] \in {"recList", "recFlip"}
      BY <1>1, <1>2 DEF Recovering
    <3>2. RecoverList(t) \/ RecoverClear(t) \/ \E g \in Goals : RecoverFlip(t, g)
      BY <3>1
         DEF Serve, Insert, List, PickNone, Pick, Pinned, StartWrite, Restored, StepRefused,
             StepRead, StepFail, StepWrite, StepEvent, Read, Write, Release, ReleaseNone,
             Unpinned, ResumeCheck, ResumeWrite, ResumeGet, ResumeClaim
    <3> QED
      BY <2>2, <2>3, <3>2
<1>3. CASE engine = "up"
  <2>1. engine' = "up" /\ ~Recovering(t)'
    BY <1>0, <1>1, <1>3 DEF RecoverClear, Recovering
  <2>2. \A u \in Requests \ {t} : pc'[u] \notin {"recList", "recFlip"}
    BY <1>0, <1>3 DEF RecoveryAlone
  <2> QED
    BY <2>1, <2>2 DEF RecoveryAlone, Recovering
<1> QED
  BY <1>1, <1>2, <1>3

LEMMA ArriveRecovery ==
  ASSUME ~Early, BaseInv, RecoveryAlone, NEW t \in Requests, NEW v \in Verbs,
         NEW g \in Goals \cup {NoGoal}, NEW k \in Tokens \cup {NoToken}, Arrive(t, v, g, k)
  PROVE  RecoveryAlone'
<1>1. /\ Basics(t) /\ v \in AllVerbs /\ pc[t] = "idle"
      /\ UNCHANGED <<rows, owner>>
  BY BasicsHold, VerbsKnown DEF Arrive, memory
<1>2. /\ pc'[t] = IF engine = "none" THEN "recList" ELSE FirstStage(v)
      /\ \A u \in Requests \ {t} : pc'[u] = pc[u] /\ job'[u] = job[u]
  BY <1>1 DEF Arrive, Basics, RequestsTyped
<1>3. engine \in {"none", "up"} /\ FirstStage(v) \notin {"recList", "recFlip", "idle"}
  BY <1>1 DEF Arrive, FirstStage, BaseInv, TypeOK
<1>4. CASE engine = "none"
  <2>1. engine' = "recovering" /\ pc'[t] = "recList" /\ \A u \in Requests \ {t} : pc'[u] = "idle"
    BY <1>2, <1>4 DEF Arrive, RecoveryAlone
  <2> QED
    BY <1>1, <1>4, <2>1 DEF RecoveryAlone
<1>5. CASE engine = "up"
  <2>1. engine' = "up" /\ pc'[t] = FirstStage(v)
    BY <1>2, <1>5 DEF Arrive
  <2> QED
    BY <1>1, <1>2, <1>3, <1>5, <2>1 DEF RecoveryAlone, Status
<1> QED
  BY <1>3, <1>4, <1>5

LEMMA OtherRecovery ==
  ASSUME BaseInv, RecoveryAlone,
         (\E s \in Sessions : SessionUp(s) \/ SessionDown(s)) \/ UNCHANGED vars
  PROVE  RecoveryAlone'
<1>1. /\ UNCHANGED <<rows, engine, owner, pc>>
      /\ \A u \in Requests : job'[u].read = job[u].read
  <2>1. \A u \in Requests : job[u] \in Jobs
    BY DEF BaseInv, TypeOK
  <2>2. CASE UNCHANGED vars \/ \E s \in Sessions : SessionUp(s)
    BY <2>2 DEF SessionUp, vars, memory
  <2>3. CASE \E s \in Sessions : SessionDown(s)
    BY <2>1, <2>3 DEF SessionDown, Jobs
  <2> QED
    BY <2>2, <2>3
<1> QED
  BY <1>1 DEF RecoveryAlone, Status

LEMMA CrashRecovery == Crash => RecoveryAlone'
BY DEF Crash, RecoveryAlone

LEMMA RecoveryStep ==
  ASSUME ~Early, BaseInv, RecoveryAlone, [Next]_vars
  PROVE  RecoveryAlone'
BY ServeRecovery, ArriveRecovery, OtherRecovery, CrashRecovery DEF Next

------------------------------------------------------------------------------
(* Every client: the limits on a session are its owner's.                    *)

GatesInv == BaseInv /\ RecoveryAlone /\ GatesFollowOwner

\* What a request does to owners and limits, at once.
Pins(t) ==
  \E s \in Sessions, g \in Goals \cup {NoGoal} :
    /\ owner' = [owner EXCEPT ![s] = g]
    /\ \E h \in {g, NoGoal} : gate' = [gate EXCEPT ![s] = h]
    /\ g # NoGoal /\ owner[s] \notin {NoGoal, g} => pc[t] = "resumeClaim" /\ pc'[t] = "pinning"

LEMMA ClaimPins ==
  ASSUME BaseInv, NEW t \in Requests, NEW g \in Goals, Claim(t, g), job[t].read[g] # NoRow,
         owner[job[t].read[g].session] \in {NoGoal, g} \/ pc[t] = "resumeClaim"
  PROVE  Pins(t)
<1>1. Basics(t)
  BY BasicsHold
<1>2. job[t].read[g].session \in Sessions
  BY DEF BaseInv, ReadsBound, RowsBound
<1> QED
  BY <1>1, <1>2 DEF Claim, Pin, Pins, Basics, RequestsTyped

LEMMA ServePins ==
  ASSUME BaseInv, NEW t \in Requests, Serve(t)
  PROVE  \/ UNCHANGED <<owner, gate>>
         \/ RecoverClear(t)
         \/ Pins(t)
<1>0. Basics(t)
  BY BasicsHold
<1>1. ASSUME NEW g \in Goals, Pick(t, g) PROVE Pins(t)
  BY <1>1, ClaimPins DEF Pick, Candidates
<1>2. CASE ResumeClaim(t)
  <2>1. Goal(t) \in Goals /\ job[t].read[Goal(t)] # NoRow
    BY <1>0, <1>2 DEF ResumeClaim, Basics, At, Searching, BaseInv, ReadsBound
  <2> QED
    BY <1>2, <2>1, ClaimPins DEF ResumeClaim
<1>3. CASE ResumeCheck(t)
  <2>1. Goal(t) \in Goals /\ job[t].read[Goal(t)] # NoRow
    BY <1>0, <1>3 DEF ResumeCheck, Basics, At, Searching, BaseInv, ReadsBound
  <2>2. CASE Claim(t, Goal(t)) /\ owner[job[t].read[Goal(t)].session] \in {NoGoal, Goal(t)}
    BY <2>1, <2>2, ClaimPins
  <2> QED
    BY <1>3, <2>2 DEF ResumeCheck, memory
<1>4. CASE Release(t)
  <2>1. Goal(t) \in Goals /\ rows[Goal(t)].session \in Sessions
    BY <1>0, <1>4, AbsentValues
       DEF Release, Basics, At, Searching, BaseInv, GoalsKnown, RowsBound
  <2> QED
    BY <1>4, <2>1 DEF Release, Pin, Pins
<1> QED
  BY <1>1, <1>2, <1>3, <1>4
     DEF Serve, memory, RecoverList, RecoverFlip, Insert, List, PickNone, Pinned, Routed,
         StartWrite, Restored, StepRefused, StepRead, StepFail, StepWrite, StepEvent, Read,
         Write, ReleaseNone, Unpinned, ResumeWrite, ResumeGet

\* The limits pinned on a session are those of the goal that owns it, for every
\* client of a daemon whose goal verbs wait for the recovery (GatesFollowOwner).
THEOREM GatesFollow ==
  ASSUME ~Early
  PROVE  Spec => []GatesFollowOwner
<1>1. Init => GatesInv
  BY InitBase DEF Init, GatesInv, RecoveryAlone, GatesFollowOwner
<1>2. ASSUME GatesInv, [Next]_vars PROVE GatesInv'
  <2>1. BaseInv' /\ RecoveryAlone' /\ MemoryTyped
    BY <1>2, RecoveryStep, ServeBase, ArriveBase, OtherBase, CrashBase, TypeParts
       DEF Next, GatesInv, BaseInv
  <2>2. ASSUME NEW t \in Requests, Serve(t) PROVE GatesFollowOwner'
    <3>1. CASE UNCHANGED <<owner, gate>>
      BY <1>2, <3>1 DEF GatesInv, GatesFollowOwner
    <3>2. CASE RecoverClear(t)
      <4>1. \A s \in Sessions : owner[s] = NoGoal
        BY <1>2, <3>2 DEF RecoverClear, GatesInv, RecoveryAlone
      <4> QED
        BY <1>2, <3>2, <4>1 DEF RecoverClear, GatesInv, GatesFollowOwner
    <3>3. CASE Pins(t)
      BY <1>2, <2>1, <3>3 DEF Pins, GatesInv, GatesFollowOwner, MemoryTyped
    <3> QED
      BY <1>2, <2>2, <3>1, <3>2, <3>3, ServePins DEF GatesInv
  <2>3. ASSUME ~ \E t \in Requests : Serve(t) PROVE GatesFollowOwner'
    BY <1>2, <2>1, <2>3
       DEF Next, vars, memory, Arrive, SessionUp, SessionDown, Crash, GatesInv,
       GatesFollowOwner, MemoryTyped
  <2> QED
    BY <2>1, <2>2, <2>3 DEF GatesInv
<1> QED
  BY <1>1, <1>2, PTL DEF Spec, GatesInv

\* A session changes hands only through the resume of a goal that had waited for
\* an answer, for every client (OnlyResumeTakesSessions).
THEOREM OnlyResumeTakes == Spec => OnlyResumeTakesSessions
<1>1. ASSUME BaseInv, [Next]_vars
      PROVE  [\A s \in Sessions :
               owner[s] # NoGoal /\ owner'[s] \notin {NoGoal, owner[s]} =>
                 \E t \in Requests : pc[t] = "resumeClaim" /\ pc'[t] = "pinning"]_vars
  <2>1. MemoryTyped
    BY <1>1, TypeParts DEF BaseInv
  <2>2. CASE \E t \in Requests : Serve(t)
    BY <1>1, <2>1, <2>2, ServePins DEF RecoverClear, Pins, MemoryTyped
  <2>3. CASE ~ \E t \in Requests : Serve(t)
    BY <1>1, <2>3, ZenonT(30) DEF Next, vars, memory, Arrive, SessionUp, SessionDown, Crash
  <2> QED
    BY <2>2, <2>3
<1> QED
  BY BaseInductive, <1>1, PTL DEF Spec, OnlyResumeTakesSessions

------------------------------------------------------------------------------
(* Orderly clients.  What one step of a request may do besides Effect.       *)

\* Only the recovery writes rows of other goals than its own, one at a time.
Flips(t) ==
  /\ pc[t] = "recFlip" /\ pc' = pc
  /\ UNCHANGED <<served, engine, owner>>
  /\ \E g \in Goals :
       /\ rows' = [rows EXCEPT ![g] = [rows[g] EXCEPT !.status = "paused"]]
       /\ job' = [job EXCEPT ![t] = [job[t] EXCEPT
                    !.read = [job[t].read EXCEPT ![g] = NoRow]]]
       /\ job[t].read[g] # NoRow
WritesOwn(t) ==
  /\ \A g \in Goals : g # Goal(t) => rows'[g] = rows[g] /\ served'[g] = served[g]
  /\ rows' # rows => \/ job[t].verb \in {"next", "resume", "pause", "cancel"}
                     \/ Status(Goal(t)) \in {"absent", "running", "needs_input"}

\* It takes a session nobody owns, or gives back that of a goal that does not run.
Gives(t) ==
  /\ pc[t] = "release"
  /\ \A s \in Sessions :
       owner'[s] = IF s = rows[Goal(t)].session /\ owner[s] = Goal(t)
                   THEN NoGoal ELSE owner[s]
TakesFree(t) ==
  /\ job[t].verb \in {"next", "resume"} /\ pc'[t] = "pinning"
  /\ rows' = rows /\ job'[t].goal \in Goals /\ rows[job'[t].goal].session \in Sessions
  /\ owner' = [owner EXCEPT ![rows[job'[t].goal].session] = job'[t].goal]
  /\ owner[rows[job'[t].goal].session] \in {NoGoal, job'[t].goal}
  /\ Goal(t) \in {NoGoal, job'[t].goal}

OrderlyFacts(t) ==
  /\ TableTyped /\ MemoryTyped /\ RequestsTyped /\ At(t)
  /\ job[t] \in Jobs /\ pc[t] \in PCs
  /\ ReadsAreFresh(t) /\ RowReady(t) /\ MayStart(t)
  /\ pc[t] # "idle" => (engine = "recovering" <=> Recovering(t)) /\ engine # "none"
  /\ Goal(t) \in Goals /\ job[t].verb # "new" =>
       Status(Goal(t)) # "absent" /\ rows[Goal(t)].session \in Sessions
  /\ pc[t] = "insert" => rows[Goal(t)] = NoRow
  /\ \A g \in Goals : rows[g] # NoRow => rows[g].session \in Sessions
  /\ pc[t] \in {"pickPaused", "pickPending"} => Goal(t) = NoGoal

LEMMA Orderliness ==
  ASSUME OrderlyInv, NEW t \in Requests
  PROVE  OrderlyFacts(t)
<1>1. TypeOK /\ TableTyped /\ MemoryTyped /\ RequestsTyped /\ At(t)
      /\ job[t] \in Jobs /\ pc[t] \in PCs
  BY TypeParts, Whereabouts DEF OrderlyInv, BaseInv, RequestsTyped
<1>2. ReadsAreFresh(t) /\ RowReady(t) /\ MayStart(t)
  BY DEF OrderlyInv, ReadsFresh, GoalReady, StartersOwn
<1>3. pc[t] # "idle" => (engine = "recovering" <=> Recovering(t)) /\ engine # "none"
  BY DEF OrderlyInv, RecoveryAlone, Recovering
<1>4. Goal(t) \in Goals /\ job[t].verb # "new" =>
        Status(Goal(t)) # "absent" /\ rows[Goal(t)].session \in Sessions
  BY AbsentValues DEF OrderlyInv, BaseInv, GoalsKnown, RowsBound
<1>5. pc[t] = "insert" => rows[Goal(t)] = NoRow
  BY <1>1, AbsentValues DEF OrderlyInv, BaseInv, GoalsKnown, RowsBound, At, Searching
<1>6. \A g \in Goals : rows[g] # NoRow => rows[g].session \in Sessions
  BY DEF OrderlyInv, BaseInv, RowsBound
<1>7. pc[t] \in {"pickPaused", "pickPending"} => Goal(t) = NoGoal
  BY <1>1 DEF OrderlyInv, BaseInv, StageOfVerb, At, Searching
<1> QED
  BY <1>1, <1>2, <1>3, <1>4, <1>5, <1>6, <1>7 DEF OrderlyFacts

LEMMA ServeWrites ==
  ASSUME OrderlyInv, NEW t \in Requests, Serve(t)
  PROVE  Flips(t) \/ WritesOwn(t)
<1>0. OrderlyFacts(t)
  BY Orderliness
<1> USE DEF memory, TableTyped, Goal, Status
<1>1. CASE \E g \in Goals : RecoverFlip(t, g)
  BY <1>0, <1>1 DEF OrderlyFacts, RecoverFlip, Flips, SetStatus, Update, RequestsTyped, Jobs
<1>2. CASE rows' = rows /\ UNCHANGED served
  BY <1>2 DEF WritesOwn
<1>3. CASE \E s \in Sessions : Insert(t, s)
  BY <1>0, <1>3 DEF OrderlyFacts, Insert, Update, WritesOwn, NoRow
<1>4. CASE StartWrite(t)
  BY <1>0, <1>4 DEF OrderlyFacts, At, StartWrite, Update, WritesOwn
<1>5. CASE StepFail(t) \/ StepWrite(t)
  BY <1>0, <1>5 DEF OrderlyFacts, RowReady, StepFail, StepWrite, Charged, Update, WritesOwn
<1>6. CASE StepEvent(t)
  BY <1>0, <1>6 DEF OrderlyFacts, StepEvent, WritesOwn
<1>7. CASE Write(t)
  BY <1>0, <1>7 DEF OrderlyFacts, At, RowReady, Write, SetStatus, Update, WritesOwn
<1>8. CASE ResumeWrite(t)
  BY <1>0, <1>8 DEF OrderlyFacts, At, ResumeWrite, SetStatus, Update, WritesOwn
<1> QED
  BY <1>1, <1>2, <1>3, <1>4, <1>5, <1>6, <1>7, <1>8
     DEF Serve, RecoverList, RecoverClear, Pick, Claim, List, PickNone, Pinned, Routed,
         Restored, StepRefused, StepRead, Read, Release, ReleaseNone, Unpinned, ResumeCheck,
         ResumeGet, ResumeClaim

LEMMA ServeOwners ==
  ASSUME OrderlyInv, NEW t \in Requests, Serve(t)
  PROVE  /\ owner' = owner \/ RecoverClear(t) \/ Gives(t) \/ TakesFree(t)
         /\ \/ \E g \in Goals : Pick(t, g)
            \/ ResumeClaim(t) \/ (ResumeCheck(t) /\ Claim(t, Goal(t)))
            => TakesFree(t)
<1>0. OrderlyFacts(t)
  BY Orderliness
<1> USE DEF memory, Goal, Status
<1>2. ASSUME NEW g \in Goals, Pick(t, g)
      PROVE  TakesFree(t)
  <2>1. job'[t].goal = g /\ job[t].read[g] = rows[g] /\ rows' = rows /\ pc'[t] = "pinning"
    BY <1>0, <1>2 DEF OrderlyFacts, ReadsAreFresh, Pick, Candidates, Claim, Pin,
       RequestsTyped, Jobs
  <2> QED
    BY <1>0, <1>2, <2>1 DEF OrderlyFacts, At, TakesFree, Pick, Candidates, Claim
<1>3. ASSUME Claim(t, Goal(t)), pc[t] \in {"resumeCheck", "resumeClaim"},
             owner[rows[Goal(t)].session] \in {NoGoal, Goal(t)}
      PROVE  TakesFree(t)
  <2>1. /\ Goal(t) \in Goals /\ job'[t].goal = Goal(t) /\ pc'[t] = "pinning"
        /\ job[t].read[Goal(t)] = rows[Goal(t)] /\ rows' = rows
    BY <1>0, <1>3 DEF OrderlyFacts, At, ReadsAreFresh, Knowing, Searching, Claim, Pin,
       RequestsTyped, Jobs
  <2> QED
    BY <1>0, <1>3, <2>1 DEF OrderlyFacts, At, TakesFree, Claim
<1>4. ASSUME ResumeCheck(t), Claim(t, Goal(t))
      PROVE  TakesFree(t)
  <2>1. Goal(t) \in Goals /\ job[t].read[Goal(t)] = rows[Goal(t)]
    BY <1>0, <1>4 DEF OrderlyFacts, At, ReadsAreFresh, Knowing, Searching, ResumeCheck
  <2>2. owner[rows[Goal(t)].session] \in {NoGoal, Goal(t)}
    BY <1>0, <1>4, <2>1 DEF OrderlyFacts, ResumeCheck, Claim, Pin, Move, End, RequestsTyped
  <2> QED
    BY <1>3, <1>4, <2>2 DEF ResumeCheck
<1>5. ASSUME ResumeClaim(t)
      PROVE  TakesFree(t)
  BY <1>0, <1>3, <1>5 DEF OrderlyFacts, MayStart, ResumeClaim
<1>6. ASSUME Release(t)
      PROVE  Gives(t)
  BY <1>0, <1>6 DEF OrderlyFacts, MemoryTyped, Gives, Release, Owned
<1>7. \/ owner' = owner \/ RecoverClear(t) \/ Release(t) \/ ResumeClaim(t)
      \/ (ResumeCheck(t) /\ Claim(t, Goal(t))) \/ \E g \in Goals : Pick(t, g)
  BY DEF Serve, RecoverList, RecoverFlip, Insert, List, PickNone, Pinned, Routed,
         StartWrite, Restored, StepRefused, StepRead, StepFail, StepWrite, StepEvent, Read,
         Write, ReleaseNone, Unpinned, ResumeCheck, ResumeWrite, ResumeGet
<1> QED
  BY <1>2, <1>4, <1>5, <1>6, <1>7

------------------------------------------------------------------------------
(* What a request knows stays right through its own steps.                   *)

LEMMA NothingLeft ==
  ASSUME OrderlyInv, NEW t \in Requests, End(t)
  PROVE  pc'[t] = "idle" /\ job'[t] = NoJob /\ NoJob.goal = NoGoal /\ NoJob.verb = "none"
         /\ \A g \in Goals : NoJob.read[g] = NoRow
<1>1. RequestsTyped
  BY Orderliness DEF OrderlyFacts
<1> QED
  BY <1>1 DEF End, RequestsTyped, NoJob, NothingRead

LEMMA EndIsRight ==
  ASSUME OrderlyInv, NEW t \in Requests, End(t)
  PROVE  ReadsAreFresh(t)' /\ RowReady(t)' /\ MayStart(t)'
<1>1. pc'[t] = "idle" /\ job'[t].verb = "none" /\ \A g \in Goals : job'[t].read[g] = NoRow
  BY NothingLeft
<1> QED
  BY <1>1 DEF ReadsAreFresh, RowReady, MayStart, Starting, Knowing, Choosing

LEMMA ServeReads ==
  ASSUME OrderlyInv, NEW t \in Requests, Serve(t)
  PROVE  ReadsAreFresh(t)'
<1>0. OrderlyFacts(t)
  BY Orderliness
<1> USE <1>0, EndIsRight
    DEF memory, OrderlyFacts, RequestsTyped, TableTyped, Jobs, Goal, Status, Query, Move,
        ReadsAreFresh, Choosing, Knowing, Starting
<1>1. CASE RecoverList(t)
  BY <1>1 DEF RecoverList
<1>2. CASE \E g \in Goals : RecoverFlip(t, g)
  BY <1>2 DEF RecoverFlip, SetStatus, Update
<1>3. CASE RecoverClear(t)
  <2>1. \A g \in Goals : job[t].read[g] = NoRow
    BY <1>3 DEF RecoverClear, NothingRead
  <2>2. pc'[t] = FirstStage(job[t].verb) /\ job' = job
    BY <1>3 DEF RecoverClear
  <2> QED
    BY <2>1, <2>2 DEF FirstStage
<1>4. CASE \E s \in Sessions : Insert(t, s)
  BY <1>4 DEF Insert
<1>5. CASE List(t)
  BY <1>5 DEF List, WithStatus
<1>6. CASE PickNone(t)
  BY <1>6 DEF PickNone
<1>7. CASE \E g \in Goals : Pick(t, g)
  BY <1>7 DEF Pick, Candidates, Claim, Pin
<1>8. CASE Pinned(t)
  BY <1>8 DEF Pinned, Routed
<1>9. CASE StartWrite(t)
  BY <1>9 DEF StartWrite
<1>10. CASE Restored(t) \/ StepRefused(t) \/ StepEvent(t)
  BY <1>10 DEF Restored, StepRefused, StepEvent
<1>11. CASE StepRead(t)
  <2>1. /\ Goal(t) \in Goals /\ rows' = rows /\ pc'[t] \in {"stepFail", "checkpoint"}
        /\ job'[t].goal = Goal(t)
        /\ \A g \in Goals : job'[t].read[g] = IF g = Goal(t) THEN rows[g] ELSE NoRow
    BY <1>11, Queried DEF StepRead, At, Searching
  <2>2. rows[Goal(t)] # NoRow
    BY <2>1, <1>11 DEF StepRead, NoRow
  <2> QED
    BY <2>1, <2>2
<1>12. CASE StepFail(t) \/ StepWrite(t) \/ ResumeWrite(t)
  BY <1>12 DEF StepFail, StepWrite, ResumeWrite
<1>13. CASE Read(t)
  <2>1. Goal(t) \in Goals /\ \A g \in Goals : job[t].read[g] = NoRow
    BY <1>13 DEF Read, At, Searching
  <2>2. CASE End(t)
    BY <2>2
  <2>3. CASE Move(t, "write")
    BY <2>1, <2>3
  <2>4. CASE job[t].verb = "resume" /\ Query(t, {Goal(t)}, "resumeCheck")
    <3>1. /\ pc'[t] = "resumeCheck" /\ rows' = rows /\ job'[t].goal = Goal(t)
          /\ \A g \in Goals : job'[t].read[g] = IF g = Goal(t) THEN rows[g] ELSE NoRow
      BY <1>13, <2>4, Queried DEF Read
    <3>2. rows[Goal(t)] # NoRow
      BY <1>13, <2>1, <2>4, At(t) DEF At, NoRow
    <3> QED
      BY <2>1, <3>1, <3>2
  <2> QED
    BY <1>13, <2>2, <2>3, <2>4 DEF Read
<1>14. CASE Write(t)
  BY <1>14 DEF Write
<1>15. CASE Release(t)
  BY <1>15 DEF Release, Pin
<1>16. CASE ReleaseNone(t) \/ Unpinned(t)
  BY <1>16 DEF ReleaseNone, Unpinned
<1>17. CASE ResumeCheck(t)
  <2>1. /\ Goal(t) \in Goals /\ job[t].read[Goal(t)] = rows[Goal(t)] /\ rows' = rows
        /\ \A g \in Goals : g # Goal(t) => job[t].read[g] = NoRow
        /\ job[t].read[Goal(t)] # NoRow
    BY <1>17, ZenonT(30) DEF ResumeCheck, At, Searching, Claim
  <2>2. CASE End(t)
    BY <2>2
  <2>3. CASE Move(t, "resumeWrite")
    BY <2>1, <2>3
  <2>4. CASE Status(Goal(t)) = "paused" /\ Claim(t, Goal(t))
    <3>1. pc'[t] = "pinning" /\ job'[t].goal = Goal(t) /\ job'[t].read = job[t].read
      BY <2>4, SMTT(30) DEF Claim, Pin
    <3> QED
      BY <2>1, <2>4, <3>1
  <2> QED
    BY <1>17, <2>1, <2>2, <2>3, <2>4 DEF ResumeCheck
<1>18. CASE ResumeGet(t)
  <2>1. /\ Goal(t) \in Goals /\ rows' = rows /\ pc'[t] = "resumeClaim"
        /\ job'[t].goal = Goal(t)
        /\ \A g \in Goals : job'[t].read[g] = IF g = Goal(t) THEN rows[g] ELSE NoRow
    BY <1>18, Queried DEF ResumeGet, At, Searching
  <2>2. Status(Goal(t)) = "paused" /\ rows[Goal(t)] # NoRow
    BY <1>18 DEF ResumeGet, RowReady, NoRow
  <2> QED
    BY <2>1, <2>2
<1>19. CASE ResumeClaim(t)
  BY <1>19, SMTT(30) DEF ResumeClaim, Claim, Pin
<1> QED
  BY <1>1, <1>2, <1>3, <1>4, <1>5, <1>6, <1>7, <1>8, <1>9, <1>10, <1>11, <1>12, <1>13,
     <1>14, <1>15, <1>16, <1>17, <1>18, <1>19 DEF Serve

LEMMA ServeReady ==
  ASSUME OrderlyInv, NEW t \in Requests, Serve(t)
  PROVE  RowReady(t)'
<1>0. OrderlyFacts(t)
  BY Orderliness
<1> USE <1>0, EndIsRight
    DEF memory, OrderlyFacts, RequestsTyped, TableTyped, Jobs, Goal, Status, Query, Move,
        RowReady, At
<1>1. CASE RecoverList(t)
  BY <1>1 DEF RecoverList
<1>2. CASE \E g \in Goals : RecoverFlip(t, g)
  <2>1. PICK g \in Goals : RecoverFlip(t, g)
    BY <1>2
  <2>2. /\ pc'[t] = "recFlip" /\ job'[t].verb = job[t].verb /\ job'[t].goal = Goal(t)
        /\ g # Goal(t) => rows'[Goal(t)] = rows[Goal(t)]
        /\ Status(g) = "running"
    BY <2>1 DEF RecoverFlip, SetStatus, Update, OrderlyInv, RecoveryAlone
  <2>3. job[t].verb = "answer" => Goal(t) \in Goals /\ Status(Goal(t)) = "needs_input"
    OBVIOUS
  <2> QED
    BY <2>1, <2>2, <2>3 DEF RecoverFlip
<1>3. CASE RecoverClear(t)
  BY <1>3 DEF RecoverClear, FirstStage
<1>4. CASE \E s \in Sessions : Insert(t, s)
  BY <1>4 DEF Insert
<1>5. CASE List(t) \/ PickNone(t)
  BY <1>5 DEF List, PickNone
<1>7. CASE \E g \in Goals : Pick(t, g)
  <2> HIDE DEF RowReady, At
  <2>1. PICK g \in Goals : Pick(t, g)
    BY <1>7
  <2>2. job[t].verb = "next"
    BY <2>1 DEF Pick, At
  <2>3. job'[t].verb = "next" /\ pc'[t] = "pinning"
    BY <2>1, <2>2 DEF Pick, Claim, Pin
  <2> QED
    BY <2>3 DEF RowReady
<1>8. CASE Pinned(t)
  BY <1>8 DEF Pinned, Routed
<1>9. CASE StartWrite(t)
  BY <1>9, SMTT(30) DEF StartWrite, Update, Searching
<1>10. CASE Restored(t) \/ StepRefused(t) \/ StepEvent(t)
  BY <1>10 DEF Restored, StepRefused, StepEvent
<1>11. CASE StepRead(t)
  BY <1>11 DEF StepRead
<1>12. CASE StepFail(t)
  <2> HIDE DEF RowReady, At
  <2>1. Goal(t) \in Goals /\ job[t].verb = "step"
    BY <1>12 DEF StepFail, At, Searching
  <2>2. rows'[Goal(t)].status = "failed"
    BY <1>12, <2>1 DEF StepFail, Charged, Update, Rows
  <2>3. pc'[t] = "release" /\ job'[t].verb = "step" /\ job'[t].goal = Goal(t)
    BY <1>12, <2>1 DEF StepFail
  <2> QED
    BY <2>2, <2>3 DEF RowReady
<1>13. CASE Read(t)
  <2>1. Goal(t) \in Goals /\ rows' = rows
    BY <1>13 DEF Read, Searching
  <2>2. CASE End(t)
    BY <2>2
  <2>3. CASE Status(Goal(t)) \in Accepts(job[t].verb) /\ Move(t, "write")
    <3>1. pc'[t] = "write" /\ job' = job
      BY <2>3
    <3> QED
      BY <1>13, <2>1, <2>3, <3>1 DEF Read, Accepts
  <2>4. CASE /\ Status(Goal(t)) \in Accepts("resume") /\ job[t].verb = "resume"
             /\ Query(t, {Goal(t)}, "resumeCheck")
    <3>1. pc'[t] = "resumeCheck" /\ job'[t].verb = "resume" /\ job'[t].goal = Goal(t)
      BY <2>4, Queried
    <3> QED
      BY <2>1, <2>4, <3>1 DEF Accepts
  <2> QED
    BY <1>13, <2>2, <2>3, <2>4 DEF Read
<1>14. CASE Write(t)
  BY <1>14, SMTT(30) DEF Write, SetStatus, Update, Result
<1>15. CASE Release(t)
  BY <1>15, ZenonT(30) DEF Release, Pin
<1>16. CASE ReleaseNone(t) \/ Unpinned(t)
  BY <1>16 DEF ReleaseNone, Unpinned
<1>17. CASE ResumeCheck(t)
  <2>1. /\ Goal(t) \in Goals /\ job[t].read[Goal(t)] = rows[Goal(t)] /\ rows' = rows
    BY <1>17 DEF ResumeCheck, Searching, Claim, ReadsAreFresh, Knowing
  <2>2. CASE End(t)
    BY <2>2
  <2>3. CASE Status(Goal(t)) = "needs_input" /\ Move(t, "resumeWrite")
    <3>1. pc'[t] = "resumeWrite" /\ job' = job
      BY <2>3
    <3> QED
      BY <1>17, <2>1, <2>3, <3>1 DEF ResumeCheck
  <2>4. CASE Claim(t, Goal(t))
    <3>1. pc'[t] = "pinning" /\ job'[t].goal = Goal(t) /\ job'[t].verb = job[t].verb
      BY <2>4 DEF Claim, Pin
    <3> QED
      BY <1>17, <2>1, <3>1 DEF ResumeCheck
  <2> QED
    BY <1>17, <2>1, <2>2, <2>3, <2>4 DEF ResumeCheck
<1>18. CASE ResumeGet(t)
  BY <1>18 DEF ResumeGet
<1>19. CASE ResumeClaim(t)
  BY <1>19 DEF ResumeClaim, Claim, Pin
<1>20. CASE ResumeWrite(t)
  BY <1>20 DEF ResumeWrite, SetStatus, Update
<1>21. CASE StepWrite(t)
  <2>1. Goal(t) \in Goals /\ job[t].read[Goal(t)] = rows[Goal(t)]
    BY <1>21 DEF StepWrite, ReadsAreFresh, Knowing, Searching
  <2>2. served[Goal(t)] <= rows[Goal(t)].steps
    BY <2>1 DEF OrderlyInv, EveryStepCharged
  <2> QED
    <3> HIDE DEF RowReady, At
    <3>1. job[t].verb = "step" /\ Status(Goal(t)) = "running"
      BY <1>21 DEF StepWrite, At, RowReady
    <3>2. rows'[Goal(t)].status = "running" /\ rows'[Goal(t)].steps = rows[Goal(t)].steps + 1
      BY <1>21, <2>1, <3>1 DEF StepWrite, Charged, Update, Rows
    <3>3. /\ pc'[t] = "stepEvent" /\ job'[t].verb = "step" /\ job'[t].goal = Goal(t)
          /\ served' = served
      BY <1>21, <3>1 DEF StepWrite, Charged, Update
    <3>4. served[Goal(t)] \in Nat /\ rows[Goal(t)].steps \in Nat
      BY <2>1 DEF Rows
    <3> QED
      BY <2>2, <3>2, <3>3, <3>4 DEF RowReady
<1> QED
  BY <1>1, <1>2, <1>3, <1>4, <1>5, <1>7, <1>8, <1>9, <1>10, <1>11, <1>12, <1>13,
     <1>14, <1>15, <1>16, <1>17, <1>18, <1>19, <1>20, <1>21 DEF Serve

LEMMA ServeStarts ==
  ASSUME OrderlyInv, NEW t \in Requests, Serve(t)
  PROVE  MayStart(t)'
<1>0. OrderlyFacts(t)
  BY Orderliness
<1> USE <1>0, EndIsRight, Queried
    DEF memory, OrderlyFacts, Goal, Status, Move, MayStart, Starting
<1>1. CASE RecoverList(t) \/ List(t) \/ PickNone(t) \/ StepRead(t)
  BY <1>1 DEF RecoverList, List, PickNone, StepRead
<1>2. CASE \E g \in Goals : RecoverFlip(t, g)
  BY <1>2 DEF RecoverFlip
<1>3. CASE RecoverClear(t)
  BY <1>3 DEF RecoverClear, FirstStage, RequestsTyped
<1>4. CASE (\E s \in Sessions : Insert(t, s)) \/ Restored(t) \/ StepRefused(t)
           \/ StepEvent(t) \/ ReleaseNone(t) \/ Unpinned(t)
  BY <1>4 DEF Insert, Restored, StepRefused, StepEvent, ReleaseNone, Unpinned
<1>5. CASE TakesFree(t)
  <2>1. Owned(t)'
    BY <1>5 DEF TakesFree, MemoryTyped, Owned
  <2> QED
    BY <1>5, <2>1 DEF TakesFree
<1>6. CASE Pinned(t)
  <2>1. pc'[t] = "startWrite" /\ job'[t].goal = Goal(t) /\ UNCHANGED <<rows, owner>>
    BY <1>6 DEF Pinned, Routed, RequestsTyped, Jobs
  <2> QED
    BY <1>6, <2>1 DEF Pinned, Owned
<1>7. CASE StartWrite(t) \/ StepFail(t) \/ StepWrite(t)
  BY <1>7 DEF StartWrite, StepFail, StepWrite
<1>8. CASE Read(t)
  BY <1>8 DEF Read, RequestsTyped
<1>9. CASE Write(t)
  BY <1>9 DEF Write, RequestsTyped
<1>10. CASE Release(t)
  BY <1>10 DEF Release, Pin, RequestsTyped
<1>11. CASE ResumeCheck(t)
  <2>1. Goal(t) \in Goals /\ job[t].read[Goal(t)] = rows[Goal(t)]
    BY <1>11 DEF ResumeCheck, At, Searching, ReadsAreFresh, Knowing
  <2>2. CASE End(t)
    BY <2>2
  <2>3. CASE /\ Move(t, "resumeWrite") /\ UNCHANGED <<rows, owner>>
             /\ owner[rows[Goal(t)].session] \in {NoGoal, Goal(t)}
    <3>1. pc'[t] = "resumeWrite" /\ job' = job
      BY <2>3 DEF RequestsTyped
    <3> QED
      BY <2>3, <3>1
  <2>4. CASE Claim(t, Goal(t))
    <3>1. /\ pc'[t] = "pinning" /\ job'[t].goal = Goal(t) /\ rows' = rows
          /\ owner'[rows[Goal(t)].session] = Goal(t)
      BY <1>11, <2>1, <2>4 DEF Claim, Pin, RequestsTyped, Jobs, MemoryTyped, ResumeCheck, At
    <3> QED
      BY <3>1 DEF Owned
  <2> QED
    BY <1>11, <2>1, <2>2, <2>3, <2>4 DEF ResumeCheck
<1>12. CASE ResumeWrite(t)
  <2>1. /\ pc'[t] = "resumeGet" /\ job'[t].goal = Goal(t) /\ owner' = owner
        /\ Goal(t) \in Goals
    BY <1>12 DEF ResumeWrite, At, Searching
  <2>2. rows'[Goal(t)].session = rows[Goal(t)].session
    BY <1>12, <2>1 DEF ResumeWrite, SetStatus, Update, TableTyped, Rows
  <2> QED
    BY <1>12, <2>1, <2>2 DEF ResumeWrite
<1>13. CASE ResumeGet(t)
  BY <1>13 DEF ResumeGet
<1>14. CASE (\E g \in Goals : Pick(t, g)) \/ ResumeClaim(t)
  BY <1>5, <1>14, ServeOwners
<1> QED
  BY <1>1, <1>2, <1>3, <1>4, <1>5, <1>6, <1>7, <1>8, <1>9, <1>10, <1>11, <1>12, <1>13,
     <1>14 DEF Serve

------------------------------------------------------------------------------
(* The steps of a request leave the others in peace.                         *)

LEMMA OthersKeep ==
  ASSUME OrderlyInv, NEW t \in Requests, Serve(t), NEW u \in Requests \ {t}
  PROVE  /\ pc'[u] = pc[u] /\ job'[u] = job[u]
         /\ ReadsAreFresh(u)' /\ RowReady(u)' /\ MayStart(u)'
<1>0. OrderlyFacts(t) /\ OrderlyFacts(u)
  BY Orderliness
<1>1. pc'[u] = pc[u] /\ job'[u] = job[u]
  BY ServeEffect DEF OrderlyInv, Effect, Proceeds
<1>2. CASE pc[u] = "idle"
  <2>1. job[u].verb = "none" /\ \A g \in Goals : job[u].read[g] = NoRow
    BY <1>0, <1>2 DEF OrderlyFacts, At, ReadsAreFresh, Choosing, Knowing, Starting
  <2> QED
    BY <1>1, <1>2, <2>1 DEF ReadsAreFresh, RowReady, MayStart, Choosing, Knowing, Starting
<1>3. CASE pc[u] # "idle"
  <2>1. pc[t] # "idle" /\ ~Recovering(t) /\ ~Recovering(u)
    <3>1. pc[t] # "idle"
      BY ServeEngine DEF OrderlyInv
    <3>2. engine # "recovering"
      BY <1>3, <3>1 DEF OrderlyInv, RecoveryAlone
    <3> QED
      BY <1>0, <1>3, <3>1, <3>2 DEF OrderlyFacts
  <2>2. WritesOwn(t)
    BY <2>1, ServeWrites DEF Flips, Recovering
  <2>3. owner' = owner \/ Gives(t) \/ TakesFree(t)
    BY <2>1, ServeOwners DEF RecoverClear, Recovering
  <2>4. Goal(u) \in Goals => Goal(t) # Goal(u)
    BY AbsentValues DEF OrderlyInv, Alone
  <2>5. job[u].verb \in {"next", "resume"} => job[t].verb \notin {"next", "resume", "pause", "cancel"}
    BY DEF OrderlyInv, OneStarter
  <2>6. Goal(u) \in Goals =>
          rows'[Goal(u)] = rows[Goal(u)] /\ served'[Goal(u)] = served[Goal(u)]
    BY <2>2, <2>4 DEF WritesOwn
  <2>7. ReadsAreFresh(u)'
    <3> SUFFICES ASSUME NEW g \in Goals, job[u].read[g] # NoRow
                 PROVE  rows'[g] = rows[g]
      BY <1>0, <1>1 DEF OrderlyFacts, ReadsAreFresh, Goal, Status
    <3>1. CASE g # Goal(t)
      BY <2>2, <3>1 DEF WritesOwn
    <3>2. CASE g = Goal(t)
      <4>1. pc[u] \in {"pickPaused", "pickPending"} \cup Starting
        BY <1>0, <2>1, <2>4, <3>2 DEF OrderlyFacts, ReadsAreFresh, Choosing, Recovering
      <4>2. Status(Goal(t)) \in {"paused", "pending"} /\ job[u].verb \in {"next", "resume"}
        BY <1>0, <3>2, <4>1 DEF OrderlyFacts, ReadsAreFresh, At, Starting
      <4> QED
        BY <2>2, <2>5, <3>2, <4>2 DEF WritesOwn
    <3> QED
      BY <3>1, <3>2
  <2>8. RowReady(u)'
    BY <1>0, <1>1, <2>6 DEF OrderlyFacts, RowReady, At, Goal, Status, Searching
  <2>9. MayStart(u)'
    <3>1. CASE pc[u] \in Starting \cup {"resumeWrite", "resumeGet", "resumeClaim"}
      <4>1. Goal(u) \in Goals /\ job[u].verb \in {"next", "resume"}
        BY <1>0, <3>1 DEF OrderlyFacts, At, Starting, Searching
      <4>2. rows[Goal(u)].session \in Sessions
        BY <1>0, <4>1 DEF OrderlyFacts
      <4>3. owner' = owner \/ Gives(t)
        BY <2>3, <2>5, <4>1 DEF TakesFree
      <4>4. owner'[rows[Goal(u)].session] \in {NoGoal, Goal(u)}
        BY <1>0, <4>2, <4>3, <3>1 DEF OrderlyFacts, MayStart, Owned, Gives
      <4>5. pc[u] \in Starting => owner'[rows[Goal(u)].session] = Goal(u)
        BY <1>0, <2>4, <4>1, <4>2, <4>3 DEF OrderlyFacts, MayStart, Owned, Gives
      <4> QED
        BY <1>1, <2>6, <4>1, <4>4, <4>5 DEF MayStart, Owned, Goal
    <3> QED
      BY <1>1, <3>1 DEF MayStart
  <2> QED
    BY <1>1, <2>7, <2>8, <2>9
<1> QED
  BY <1>2, <1>3

LEMMA ServeRequests ==
  ASSUME OrderlyInv, NEW t \in Requests, Serve(t)
  PROVE  ReadsFresh' /\ GoalReady' /\ StartersOwn'
BY ServeReads, ServeReady, ServeStarts, OthersKeep DEF ReadsFresh, GoalReady, StartersOwn

\* A request keeps its verb; only `next` finds a goal on its way, one nobody
\* else serves.
LEMMA ServeAlone ==
  ASSUME OrderlyInv, NEW t \in Requests, Serve(t)
  PROVE  Alone' /\ OneStarter'
<1>0. OrderlyFacts(t) /\ NoJob.goal = NoGoal /\ NoJob.verb = "none"
  BY Orderliness DEF NoJob
<1>1. \A u \in Requests \ {t} : job'[u] = job[u]
  BY OthersKeep
<1>2. job'[t].verb \in {"none", job[t].verb}
  BY <1>0, ServeEffect DEF OrderlyInv, Effect, Proceeds
<1>3. OneStarter'
  BY <1>1, <1>2 DEF OrderlyInv, OneStarter
<1>4. CASE job'[t].goal \in {NoGoal, Goal(t)}
  <2>1. Alone'
    BY <1>1, <1>4 DEF OrderlyInv, Alone, Goal
  <2> QED
    BY <1>3, <2>1
<1>5. CASE job'[t].goal \notin {NoGoal, Goal(t)}
  <2> DEFINE g == job'[t].goal
  <2>1. job[t].verb = "next" /\ g \in Goals /\ job[t].read[g] # NoRow /\ pc'[t] = "pinning"
    BY <1>0, <1>5, ServeEffect DEF OrderlyInv, Effect, Proceeds, Goal
  <2>2. ~Recovering(t)
    BY <1>0, <2>1, ServeEngine
       DEF OrderlyInv, Recovering, RecoverClear, FirstStage, OrderlyFacts,
       RequestsTyped, Move
  <2>3. g \in Goals /\ Status(g) \in {"paused", "pending"}
    BY <1>0, <2>1, <2>2 DEF OrderlyFacts, ReadsAreFresh, At, Recovering, Choosing, Knowing
  <2> HIDE DEF g
  <2>4. ASSUME NEW u \in Requests \ {t}, Goal(u) = g
        PROVE  FALSE
    <3>1. OrderlyFacts(u) /\ job[u].verb \notin {"next", "resume", "pause", "cancel"}
      BY <2>1, Orderliness DEF OrderlyInv, OneStarter
    <3>2. job[u].verb # "new"
      BY <2>3, <2>4, AbsentValues DEF OrderlyInv, BaseInv, GoalsKnown
    <3>3. job[u].verb \in {"step", "ask", "answer", "done", "fail"}
      BY <2>3, <2>4, <3>1, <3>2, AbsentValues DEF OrderlyFacts, At, AllVerbs, OrderlyInv, BaseInv,
         StageOfVerb
    <3>4. /\ job[u].verb \in {"step", "ask", "done", "fail"} => ~Recovering(u)
          /\ job[u].verb = "answer" => Status(g) = "needs_input"
      BY <2>4, <3>1 DEF OrderlyFacts, RowReady, Recovering
    <3>5. pc[u] \in {"stepRead", "checkpoint", "stepEvent", "stepFail", "read", "write",
                     "release", "unpinning"} /\ job[u].verb # "answer"
      BY <2>3, <3>1, <3>3, <3>4, StageSets DEF OrderlyFacts, At, Recovering
    <3>6. CASE pc[u] \in {"release", "unpinning"}
      <4>1. Status(Goal(u)) = IF job[u].verb = "step" THEN "failed" ELSE Result(job[u].verb)
        BY <3>1, <3>6 DEF OrderlyFacts, RowReady
      <4>2. Status(Goal(u)) \in {"failed", "needs_input", "done"}
        BY <3>3, <3>5, <4>1 DEF Result
      <4> QED
        BY <2>3, <2>4, <4>2
    <3>7. CASE pc[u] \notin {"release", "unpinning"}
      <4>1. Status(Goal(u)) = "running"
        BY <3>1, <3>3, <3>5, <3>7 DEF OrderlyFacts, RowReady, At
      <4> QED
        BY <2>3, <2>4, <4>1
    <3> QED
      BY <3>6, <3>7
  <2>5. Alone'
    <3>1. job'[t].goal = g
      BY DEF g
    <3> QED
      BY <1>1, <2>4, <3>1 DEF OrderlyInv, Alone, Goal
  <2> QED
    BY <1>3, <2>5
<1> QED
  BY <1>4, <1>5

------------------------------------------------------------------------------
(* The recovery, and who owns what.                                          *)

\* A step of a goal verb that is not part of the recovery: the engine is up.
LEMMA UpNow ==
  ASSUME OrderlyInv, NEW t \in Requests, pc[t] # "idle", ~Recovering(t)
  PROVE  engine = "up" /\ \A u \in Requests : ~Recovering(u)
BY Orderliness DEF OrderlyFacts, OrderlyInv, BaseInv, TypeOK, RecoveryAlone, Recovering

\* Goals start running one by one, in a session they own.
Starts(t) ==
  /\ pc[t] = "startWrite" /\ owner' = owner /\ engine' = engine
  /\ rows' = [rows EXCEPT ![Goal(t)] = [rows[Goal(t)] EXCEPT !.status = "running"]]

LEMMA ServeRuns ==
  ASSUME OrderlyInv, NEW t \in Requests, Serve(t), NEW g \in Goals,
         rows'[g].status = "running"
  PROVE  Status(g) = "running" \/ (Starts(t) /\ g = Goal(t))
<1>0. OrderlyFacts(t)
  BY Orderliness
<1> USE <1>0 DEF memory, OrderlyFacts, TableTyped, Goal, Status, Update, SetStatus
<1>1. CASE rows' = rows
  BY <1>1
<1>2. CASE \E h \in Goals : RecoverFlip(t, h)
  BY <1>2 DEF RecoverFlip
<1>3. CASE \E s \in Sessions : Insert(t, s)
  BY <1>3 DEF Insert
<1>4. CASE StartWrite(t)
  <2>1. job[t].read[Goal(t)] = rows[Goal(t)] /\ Goal(t) \in Goals
    BY <1>4 DEF StartWrite, ReadsAreFresh, Starting, Searching, At
  <2>2. [rows[Goal(t)] EXCEPT !.status = "running", !.steps = job[t].read[Goal(t)].steps]
           = [rows[Goal(t)] EXCEPT !.status = "running"]
    BY <2>1 DEF Rows
  <2>3. Starts(t)
    BY <1>4, <2>2 DEF StartWrite, Starts
  <2> QED
    BY <2>1, <2>3 DEF Starts
<1>5. CASE StepFail(t)
  BY <1>5 DEF StepFail, Charged
<1>8. CASE StepWrite(t)
  BY <1>8 DEF StepWrite, Charged
<1>6. CASE Write(t)
  <2>1. Result(job[t].verb) # "running"
    BY <1>6 DEF Result
  <2> QED
    BY <1>6, <2>1 DEF Write
<1>7. CASE ResumeWrite(t)
  BY <1>7 DEF ResumeWrite
<1> QED
  BY <1>1, <1>2, <1>3, <1>4, <1>5, <1>6, <1>7, <1>8
     DEF Serve, RecoverList, RecoverClear, Pick, Claim, List, PickNone, Pinned, Routed,
         Restored, StepRefused, StepRead, StepEvent, Read, Release, ReleaseNone, Unpinned,
         ResumeCheck, ResumeGet, ResumeClaim

LEMMA ServeOwnership ==
  ASSUME OrderlyInv, NEW t \in Requests, Serve(t)
  PROVE  RunningOwns' /\ Exclusive'
<1>0. OrderlyFacts(t) /\ RunningOwns /\ Exclusive /\ pc[t] # "idle"
  BY Orderliness, ServeEngine DEF OrderlyInv
<1>1. \A g \in Goals : rows[g].status = "running" =>
        rows'[g].session = rows[g].session /\ rows[g].session \in Sessions
  <2>1. \A g \in Goals : Status(g) # "absent" => rows'[g].session = rows[g].session
    BY ServeEffect, SessionsStay DEF OrderlyInv, Effect
  <2>2. \A g \in Goals : Status(g) = "running" => rows[g] # NoRow
    BY DEF Status, NoRow
  <2> QED
    BY <1>0, <2>1, <2>2 DEF OrderlyFacts, Status
<1>2. CASE Starts(t)
  <2>1. /\ engine' = "up" /\ engine = "up" /\ owner' = owner /\ Goal(t) \in Goals
        /\ rows'[Goal(t)].session = rows[Goal(t)].session
        /\ owner[rows[Goal(t)].session] = Goal(t)
        /\ \A h \in Goals \ {Goal(t)} : rows'[h] = rows[h]
    BY <1>0, <1>2, UpNow
       DEF Starts, Recovering, OrderlyFacts, At, Searching, MayStart, Starting, Owned
  <2>2. \A g \in Goals : rows'[g].status = "running" => owner'[rows'[g].session] = g
    BY <1>0, <1>1, <2>1 DEF RunningOwns, WithStatus, Status
  <2>3. Exclusive'
    BY <2>1, <2>2 DEF Exclusive, WithStatus, Status
  <2> QED
    BY <2>2, <2>3 DEF RunningOwns, WithStatus, Status
<1>3. CASE ~Starts(t)
  <2>1. \A g \in Goals : rows'[g].status = "running" =>
          Status(g) = "running" /\ rows'[g].session = rows[g].session
    BY <1>1, <1>3, ServeRuns DEF Status
  <2>2. Exclusive'
    BY <1>0, <2>1 DEF Exclusive, WithStatus, Status
  <2>3. RunningOwns'
    <3> SUFFICES ASSUME engine' = "up", NEW g \in Goals, rows'[g].status = "running"
                 PROVE  owner'[rows'[g].session] = g
      BY DEF RunningOwns, WithStatus, Status
    <3>1. CASE RecoverClear(t)
      <4>1. \A h \in Goals : Status(h) # "running"
        BY <3>1 DEF RecoverClear, OrderlyInv, RecoveryAlone, NothingRead
      <4> QED
        BY <2>1, <4>1
    <3>2. CASE ~RecoverClear(t)
      <4>1. engine = "up"
        BY <3>2, ServeEngine DEF OrderlyInv
      <4>2. owner[rows[g].session] = g /\ rows[g].session \in Sessions
        BY <1>0, <1>1, <2>1, <4>1 DEF RunningOwns, WithStatus, Status
      <4>3. CASE owner' = owner
        BY <2>1, <4>2, <4>3
      <4>4. CASE Gives(t)
        <5>1. Status(Goal(t)) # "running"
          BY <1>0, <4>4 DEF Gives, OrderlyFacts, RowReady, Result, At
        <5> QED
          BY <2>1, <4>2, <4>4, <5>1 DEF Gives
      <4>5. CASE TakesFree(t)
        BY <1>0, <2>1, <4>2, <4>5, AbsentValues DEF TakesFree, OrderlyFacts, MemoryTyped
      <4> QED
        BY <3>2, <4>3, <4>4, <4>5, ServeOwners
    <3> QED
      BY <3>1, <3>2
  <2> QED
    BY <2>2, <2>3
<1> QED
  BY <1>2, <1>3

LEMMA ServeCharges ==
  ASSUME OrderlyInv, NEW t \in Requests, Serve(t)
  PROVE  EveryStepCharged'
<1>0. OrderlyFacts(t) /\ \A g \in Goals : served[g] <= rows[g].steps /\ rows[g] \in Rows
  BY Orderliness DEF OrderlyInv, EveryStepCharged, OrderlyFacts, TableTyped
<1> USE <1>0 DEF memory, OrderlyFacts, TableTyped, Goal, Status, Update, SetStatus,
                 EveryStepCharged, Rows
<1>1. CASE rows' = rows /\ served' = served
  BY <1>1
<1>2. CASE \E h \in Goals : RecoverFlip(t, h)
  BY <1>2 DEF RecoverFlip
<1>3. CASE \E s \in Sessions : Insert(t, s)
  <2>1. Goal(t) \in Goals /\ served[Goal(t)] <= 0
    BY <1>3 DEF Insert, At, NoRow, Searching
  <2> QED
    BY <1>3, <2>1 DEF Insert, NoRow
<1>4. CASE StartWrite(t)
  BY <1>4 DEF StartWrite, ReadsAreFresh, Starting, Searching, At
<1>5. CASE StepFail(t) \/ StepWrite(t)
  <2>1. Goal(t) \in Goals /\ job[t].read[Goal(t)] = rows[Goal(t)]
    BY <1>5 DEF StepFail, StepWrite, ReadsAreFresh, Knowing, At, Searching
  <2>2. \E st : Charged(t, st)
    BY <1>5 DEF StepFail, StepWrite
  <2>3. /\ served' = served
        /\ rows'[Goal(t)].steps = rows[Goal(t)].steps + 1
        /\ \A g \in Goals \ {Goal(t)} : rows'[g] = rows[g]
    BY <2>1, <2>2 DEF Charged
  <2> QED
    BY <2>1, <2>3
<1>6. CASE StepEvent(t)
  BY <1>6 DEF StepEvent, RowReady
<1>7. CASE Write(t)
  BY <1>7 DEF Write
<1>8. CASE ResumeWrite(t)
  BY <1>8 DEF ResumeWrite
<1> QED
  BY <1>1, <1>2, <1>3, <1>4, <1>5, <1>6, <1>7, <1>8
     DEF Serve, RecoverList, RecoverClear, Pick, Claim, List, PickNone, Pinned, Routed,
         Restored, StepRefused, StepRead, Read, Release, ReleaseNone, Unpinned, ResumeCheck,
         ResumeGet, ResumeClaim

\* The goal a request works for keeps its session while it runs or is owed.
Settles(t) ==
  \A s \in Sessions :
    owner'[s] # NoGoal /\ owner'[s] = Goal(t) =>
      rows'[Goal(t)].status = "running" \/ (job'[t].goal = Goal(t) /\ OwesRelease(t)')

LEMMA ServeSettles ==
  ASSUME OrderlyInv, NEW t \in Requests, Serve(t), Goal(t) \in Goals, owner' = owner,
         pc[t] # "release", ~TakesFree(t),
         \A s \in Sessions : owner[s] = Goal(t) => Status(Goal(t)) = "running" \/ OwesRelease(t)
  PROVE  Settles(t)
<1>0. OrderlyFacts(t) /\ \A s \in Sessions : owner[s] = Goal(t) => rows[Goal(t)] # NoRow
  BY Orderliness, AbsentValues DEF OrderlyInv, BaseInv, OwnersBound, NoRow
<1> USE <1>0, Queried DEF memory, OrderlyFacts, TableTyped, RequestsTyped, Goal, Status, Update,
        SetStatus, Settles, OwesRelease, Move
<1>2. CASE Pinned(t)
  BY <1>2 DEF Pinned, Routed, Jobs
<1>3. CASE StartWrite(t)
  BY <1>3 DEF StartWrite
<1>4. CASE StepFail(t)
  BY <1>4 DEF StepFail, Charged
<1>5. CASE StepWrite(t)
  BY <1>5 DEF StepWrite, Charged
<1>6. CASE Write(t)
  BY <1>6 DEF Write, RowReady
<1>7. CASE ResumeWrite(t)
  BY <1>7 DEF ResumeWrite, RowReady
<1>8. CASE \E s \in Sessions : Insert(t, s)
  BY <1>8 DEF Insert
<1>9. CASE \E g \in Goals : RecoverFlip(t, g)
  BY <1>9, AbsentValues DEF RecoverFlip, OrderlyInv, RecoveryAlone, Recovering
<1>10. CASE rows' = rows /\ ~OwesRelease(t)
  BY <1>10
<1> HIDE DEF OrderlyFacts, TableTyped, RequestsTyped, Goal, Status, Update,
         SetStatus, Settles, Move, memory
<1>11. CASE RecoverList(t) \/ RecoverClear(t) \/ List(t) \/ PickNone(t) \/ Restored(t)
            \/ StepRefused(t) \/ StepRead(t) \/ StepEvent(t)
  BY <1>10, <1>11 DEF RecoverList, RecoverClear, List, PickNone, Restored, StepRefused,
     StepRead, StepEvent
<1>12. CASE Read(t) \/ Unpinned(t) \/ ResumeGet(t) \/ (ResumeCheck(t) /\ ~Claim(t, Goal(t)))
  BY <1>10, <1>12 DEF Read, Unpinned, Routed, ResumeGet, ResumeCheck
<1>13. ~Release(t) /\ ~ReleaseNone(t)
  BY DEF Release, ReleaseNone
<1> QED
  BY <1>2, <1>3, <1>4, <1>5, <1>6, <1>7, <1>8, <1>9, <1>11, <1>12, <1>13, ServeOwners
     DEF Serve

LEMMA ServeBusy ==
  ASSUME OrderlyInv, NEW t \in Requests, Serve(t)
  PROVE  OwnersBusy'
<1>0. OrderlyFacts(t) /\ OwnersBusy /\ pc[t] # "idle"
      /\ \A u \in Requests \ {t} : pc'[u] = pc[u] /\ job'[u] = job[u]
      /\ \A s \in Sessions : owner[s] \in Goals \cup {NoGoal}
  BY Orderliness, ServeEngine, OthersKeep DEF OrderlyInv, OrderlyFacts, MemoryTyped
<1>1. CASE Recovering(t)
  <2>1. \A s \in Sessions : owner'[s] = NoGoal
    <3>1. \A s \in Sessions : owner[s] = NoGoal
      BY <1>0, <1>1 DEF OrderlyFacts, OrderlyInv, RecoveryAlone
    <3>2. \/ RecoverClear(t) \/ owner' = owner
      BY <1>1, ServeOwners, ServeEngine DEF OrderlyInv, Gives, TakesFree, Recovering
    <3> QED
      BY <3>1, <3>2 DEF RecoverClear
  <2> QED
    BY <2>1 DEF OwnersBusy
<1>2. CASE ~Recovering(t)
  <2> SUFFICES ASSUME NEW s \in Sessions, NEW g \in Goals, owner'[s] = g
               PROVE  rows'[g].status = "running"
                        \/ \E u \in Requests : job'[u].goal = g /\ OwesRelease(u)'
    <3>1. TypeOK'
      BY ServeBase DEF OrderlyInv, BaseInv
    <3> QED
      BY <3>1 DEF OwnersBusy, Status, Goal, TypeOK
  <2>1. CASE TakesFree(t) /\ g = job'[t].goal
    BY <2>1 DEF TakesFree, OwesRelease
  <2>2. CASE Gives(t) /\ g = Goal(t)
    BY <1>0, <2>2, AbsentValues DEF Gives, OrderlyInv, BaseInv, OwnersBound
  <2>3. CASE g = Goal(t) /\ owner' = owner /\ pc[t] # "release" /\ ~TakesFree(t)
    <3>1. \A x \in Sessions : owner[x] = g => Status(g) = "running" \/ OwesRelease(t)
      BY <1>0, <2>3, AbsentValues DEF OwnersBusy, OrderlyInv, Alone
    <3> QED
      BY <2>3, <3>1, ServeSettles, AbsentValues DEF Settles, Goal
  <2>4. CASE ~(TakesFree(t) /\ g = job'[t].goal) /\ g # Goal(t)
    <3>1. owner[s] = g
      BY <1>0, <1>2, <2>4, ServeOwners, AbsentValues, ZenonT(30)
         DEF TakesFree, Gives, OrderlyFacts, MemoryTyped, RecoverClear, Recovering
    <3>2. rows'[g] = rows[g]
      BY <1>2, <2>4, ServeWrites DEF Flips, WritesOwn, Recovering
    <3>3. CASE Status(g) = "running"
      BY <3>2, <3>3 DEF Status
    <3>4. CASE \E u \in Requests : Goal(u) = g /\ OwesRelease(u)
      BY <1>0, <2>4, <3>4 DEF OwesRelease, Goal
    <3> QED
      BY <1>0, <3>1, <3>3, <3>4, AbsentValues DEF OwnersBusy
  <2>5. CASE TakesFree(t) /\ g # job'[t].goal /\ g = Goal(t)
    BY <2>5, AbsentValues DEF TakesFree
  <2>6. CASE pc[t] = "release" /\ g = Goal(t) /\ owner' = owner
    <3>1. ~Owned(t)
      BY <2>6, <1>0, AbsentValues
         DEF Serve, Release, ReleaseNone, Owned, RecoverList, RecoverFlip, RecoverClear,
             Insert, List, PickNone, Pick, Pinned, StartWrite, Restored, StepRefused,
             StepRead, StepFail, StepWrite, StepEvent, Read, Write, Unpinned, ResumeCheck,
             ResumeWrite, ResumeGet, ResumeClaim, OrderlyFacts, MemoryTyped, At
    <3> QED
      BY <2>6, <3>1, AbsentValues DEF Owned, OrderlyInv, BaseInv, OwnersBound
  <2> QED
    BY <1>2, <2>1, <2>2, <2>3, <2>4, <2>5, <2>6, ServeOwners DEF RecoverClear, Recovering
<1> QED
  BY <1>1, <1>2

\* What a request does with guards besides the other steps.
LEMMA ServeQuiet ==
  ASSUME OrderlyInv, NEW t \in Requests, Serve(t),
         UNCHANGED <<live, owner, guard, orphans>>,
         job'[t].route = "install" => pc[t] # "pinning" /\ job[t].route = "install"
  PROVE  GuardsOwned'
<1>1. \A u \in Requests \ {t} : pc'[u] = pc[u] /\ job'[u] = job[u]
  BY OthersKeep
<1>2. job'[t].route # "install"
  BY DEF OrderlyInv, GuardsOwned
<1>3. ASSUME NEW u \in Requests, pc[u] = "pinning"
      PROVE  rows'[Goal(u)].session = rows[Goal(u)].session
  <2>1. Goal(u) \in Goals /\ Status(Goal(u)) # "absent"
    BY <1>3, Orderliness DEF OrderlyFacts, At, Searching
  <2> QED
    BY <2>1, ServeEffect, SessionsStay DEF OrderlyInv, Effect
<1> QED
  BY <1>1, <1>2, <1>3 DEF OrderlyInv, GuardsOwned, Goal

LEMMA ClaimGuards ==
  ASSUME OrderlyInv, NEW t \in Requests, NEW g \in Goals, Claim(t, g), TakesFree(t),
         job[t].read[g] = rows[g]
  PROVE  GuardsOwned'
<1>1. OrderlyFacts(t) /\ rows' = rows /\ live' = live /\ orphans' = orphans
  BY Orderliness DEF Claim, Pin, OrderlyFacts
<1>2. job'[t].goal = g /\ job'[t].route = RouteChange(rows[g].session, g \in Gated)
  BY <1>1 DEF Claim, OrderlyFacts, RequestsTyped, Jobs
<1>3. /\ pc'[t] = "pinning"
      /\ \A u \in Requests \ {t} : pc'[u] = pc[u] /\ job'[u] = job[u]
  BY <1>1 DEF Claim, Pin, OrderlyFacts, RequestsTyped
<1>4. /\ guard' \subseteq guard
      /\ job'[t].route = "install" => rows[g].session \in live \ guard
  BY <1>2 DEF Claim, Pin, RouteChange
<1>5. \A s \in guard : owner'[s] # NoGoal
  BY <1>1, <1>2, AbsentValues
     DEF TakesFree, OrderlyFacts, MemoryTyped, OrderlyInv, GuardsOwned
<1> QED
  BY <1>1, <1>2, <1>3, <1>4, <1>5 DEF OrderlyInv, GuardsOwned, Goal

LEMMA ServeGuards ==
  ASSUME OrderlyInv, NEW t \in Requests, Serve(t)
  PROVE  GuardsOwned'
<1>0. /\ OrderlyFacts(t)
      /\ \A u \in Requests \ {t} : pc'[u] = pc[u] /\ job'[u] = job[u]
  BY Orderliness, OthersKeep
<1> USE DEF memory
<1>1. CASE RecoverList(t) \/ List(t) \/ PickNone(t) \/ StartWrite(t) \/ Restored(t)
  BY <1>0, <1>1, ServeQuiet
     DEF RecoverList, List, PickNone, StartWrite, Restored, Query, End, NoJob, OrderlyFacts,
         RequestsTyped, Jobs
<1>2. CASE \/ (\E g \in Goals : RecoverFlip(t, g)) \/ \E s \in Sessions : Insert(t, s)
  <2>1. ASSUME NEW g \in Goals, RecoverFlip(t, g) PROVE GuardsOwned'
    BY <1>0, <2>1, ServeQuiet DEF RecoverFlip, OrderlyFacts, RequestsTyped, Jobs
  <2>2. ASSUME NEW s \in Sessions, Insert(t, s) PROVE GuardsOwned'
    BY <1>0, <2>2, ServeQuiet DEF Insert, End, NoJob, OrderlyFacts, RequestsTyped
  <2> QED
    BY <1>2, <2>1, <2>2
<1>3. CASE StepRefused(t) \/ StepRead(t) \/ StepFail(t) \/ StepWrite(t) \/ StepEvent(t)
  BY <1>0, <1>3, ServeQuiet
     DEF StepRefused, StepRead, StepFail, StepWrite, StepEvent, Query, End, NoJob,
         OrderlyFacts, RequestsTyped, Jobs
<1>4. CASE Read(t) \/ Write(t) \/ ReleaseNone(t) \/ ResumeWrite(t) \/ ResumeGet(t)
  BY <1>0, <1>4, ServeQuiet
     DEF Read, Write, ReleaseNone, ResumeWrite, ResumeGet, Query, End, Move, NoJob,
         OrderlyFacts, RequestsTyped, Jobs
<1>5. CASE RecoverClear(t)
  <2>1. guard = {} /\ orphans = {}
    <3>1. engine = "recovering" /\ guard \subseteq Sessions
      BY <1>0, <1>5 DEF RecoverClear, OrderlyFacts, Recovering, MemoryTyped
    <3>2. \A s \in Sessions : owner[s] = NoGoal
      BY <3>1 DEF OrderlyInv, RecoveryAlone
    <3> QED
      BY <3>1, <3>2 DEF OrderlyInv, GuardsOwned
  <2>2. \A u \in Requests : job'[u] = job[u] /\ (u # t => pc'[u] = pc[u])
    BY <1>0, <1>5 DEF RecoverClear, Move
  <2>3. \A u \in Requests \ {t} : pc[u] = "idle"
    BY <1>0, <1>5 DEF RecoverClear, OrderlyFacts, Recovering, OrderlyInv, RecoveryAlone
  <2> QED
    BY <1>5, <2>1, <2>2, <2>3 DEF RecoverClear, OrderlyInv, GuardsOwned
<1>6. ASSUME NEW g \in Goals, Pick(t, g) PROVE GuardsOwned'
  <2>1. job[t].read[g] = rows[g]
    BY <1>0, <1>6 DEF Pick, Candidates, OrderlyFacts, ReadsAreFresh
  <2> QED
    BY <1>6, <2>1, ServeOwners, ClaimGuards DEF Pick
<1>7. CASE ResumeClaim(t)
  <2>1. Goal(t) \in Goals /\ job[t].read[Goal(t)] = rows[Goal(t)]
    BY <1>0, <1>7 DEF OrderlyFacts, At, ReadsAreFresh, Knowing, Searching, ResumeClaim
  <2>2. PICK g \in Goals : g = Goal(t)
    BY <2>1
  <2> QED
    BY <1>7, <2>1, <2>2, ServeOwners, ClaimGuards DEF ResumeClaim
<1>8. CASE ResumeCheck(t)
  <2>1. Goal(t) \in Goals /\ job[t].read[Goal(t)] = rows[Goal(t)]
    BY <1>0, <1>8 DEF OrderlyFacts, At, ReadsAreFresh, Knowing, Searching, ResumeCheck
  <2>2. PICK g \in Goals : g = Goal(t)
    BY <2>1
  <2>3. CASE Claim(t, Goal(t))
    BY <1>8, <2>1, <2>2, <2>3, ServeOwners, ClaimGuards
  <2>4. CASE ~Claim(t, Goal(t))
    BY <1>0, <1>8, <2>4, ServeQuiet
       DEF ResumeCheck, End, Move, NoJob, OrderlyFacts, RequestsTyped, Jobs
  <2> QED
    BY <2>3, <2>4
<1>9. CASE Release(t)
  <2> DEFINE s == rows[Goal(t)].session
  <2>1. s \in Sessions
    BY <1>0, <1>9 DEF Release, OrderlyFacts, At, Searching
  <2>2. /\ live' = live /\ orphans' = orphans /\ rows' = rows
        /\ guard' = guard \ {s}
        /\ owner' = [owner EXCEPT ![s] = NoGoal]
    BY <1>9, GatedAreGoals, AbsentValues DEF Release, Pin, RouteChange, OrderlyInv, GuardsOwned
  <2>3. job'[t].route # "install"
    BY <1>0, <1>9 DEF Release, RouteChange, OrderlyFacts, RequestsTyped, Jobs
  <2> QED
    BY <1>0, <2>1, <2>2, <2>3 DEF OrderlyFacts, MemoryTyped, OrderlyInv, GuardsOwned, Goal
<1>10. CASE Pinned(t)
  <2> DEFINE s == rows[Goal(t)].session
  <2>1. /\ job'[t].route = "none" /\ rows' = rows /\ live' = live /\ owner' = owner
    BY <1>0, <1>10 DEF Pinned, Routed, OrderlyFacts, RequestsTyped, Jobs
  <2>2. CASE job[t].route = "install"
    <3>1. \A u \in Requests \ {t} : job[u].route # "install"
      <4>1. \A u \in Requests : pc[u] = "pinning" => job[u].verb \in {"next", "resume"}
        BY Orderliness DEF OrderlyFacts, At
      <4> QED
        BY <1>10, <4>1 DEF Pinned, OrderlyInv, GuardsOwned, OneStarter
    <3>2. s \in live \ guard
      BY <2>2 DEF OrderlyInv, GuardsOwned
    <3>3. owner[s] # NoGoal
      BY <1>0, <1>10, AbsentValues
         DEF Pinned, OrderlyFacts, MayStart, Owned, Starting, At, Searching
    <3>4. guard' = guard \cup {s} /\ orphans' = orphans
      BY <1>10, <2>2, <3>2 DEF Pinned, Routed
    <3> QED
      BY <1>0, <2>1, <3>1, <3>2, <3>3, <3>4 DEF OrderlyInv, GuardsOwned
  <2>3. CASE job[t].route # "install"
    BY <1>10, <2>1, <2>3, ServeQuiet DEF Pinned, Routed
  <2> QED
    BY <2>2, <2>3
<1>11. CASE Unpinned(t)
  <2>1. job[t].route # "install"
    BY <1>11 DEF Unpinned, OrderlyInv, GuardsOwned
  <2> QED
    BY <1>0, <1>11, <2>1, ServeQuiet
       DEF Unpinned, Routed, End, NoJob, OrderlyFacts, RequestsTyped
<1> QED
  BY <1>1, <1>2, <1>3, <1>4, <1>5, <1>6, <1>7, <1>8, <1>9, <1>10, <1>11 DEF Serve

LEMMA ServeOrderly ==
  ASSUME OrderlyInv, NEW t \in Requests, Serve(t)
  PROVE  OrderlyInv'
BY ServeBase, ServeAlone, ServeRecovery, ServeRequests, ServeBusy, ServeOwnership,
   ServeCharges, ServeGuards DEF OrderlyInv

------------------------------------------------------------------------------
(* The other steps.                                                          *)

LEMMA ArriveOrderly ==
  ASSUME Orderly, ~Early, OrderlyInv, NEW t \in Requests, NEW v \in Verbs,
         NEW g \in Goals \cup {NoGoal}, NEW k \in Tokens \cup {NoToken}, Arrive(t, v, g, k)
  PROVE  OrderlyInv'
<1> DEFINE new == [NoJob EXCEPT !.verb = v, !.goal = g, !.token = k]
<1>1. /\ OrderlyFacts(t) /\ v \in AllVerbs /\ Heeds(v, g)
      /\ UNCHANGED <<rows, served, live, owner>>
      /\ pc[t] = "idle" /\ job[t].verb = "none"
  BY Orderliness, VerbsKnown DEF Arrive, memory, OrderlyFacts, At
<1>2. new.verb = v /\ new.goal = g /\ \A h \in Goals : new.read[h] = NoRow
  BY DEF NoJob, NothingRead
<1>3. /\ pc'[t] = IF engine = "none" THEN "recList" ELSE FirstStage(v)
      /\ job'[t] = new
      /\ \A u \in Requests \ {t} : pc'[u] = pc[u] /\ job'[u] = job[u]
  BY <1>1 DEF Arrive, OrderlyFacts, RequestsTyped
<1> HIDE DEF new
<1>4. BaseInv'
  BY ArriveBase DEF OrderlyInv
<1>5. Alone'
  <2>1. g # NoGoal => \A u \in Requests : Goal(u) # g
    BY <1>1 DEF Heeds
  <2> QED
    BY <1>2, <1>3, <2>1 DEF OrderlyInv, Alone, Goal
<1>6. OneStarter'
  <2>1. /\ v \in {"next", "resume"} =>
             \A u \in Requests : job[u].verb \notin {"next", "resume", "pause", "cancel"}
        /\ v \in {"pause", "cancel"} =>
             \A u \in Requests : job[u].verb \notin {"next", "resume"}
    BY <1>1 DEF Heeds, InFlight
  <2> QED
    BY <1>2, <1>3, <2>1 DEF OrderlyInv, OneStarter
<1>7. engine \in {"none", "up"}
  BY <1>1 DEF Arrive, OrderlyInv, BaseInv, TypeOK
<1>8. RecoveryAlone'
  BY ArriveRecovery DEF OrderlyInv
<1>9. ReadsAreFresh(t)' /\ RowReady(t)' /\ MayStart(t)'
  <2>1. /\ pc'[t] \notin Starting \cup Knowing \cup {"resumeGet", "release", "unpinning", "write"}
        /\ pc'[t] \notin {"checkpoint", "stepEvent", "stepFail", "restore"}
    BY <1>3 DEF FirstStage, Starting, Knowing
  <2>2. ReadsAreFresh(t)'
    BY <1>2, <1>3, <2>1 DEF ReadsAreFresh
  <2>3. MayStart(t)'
    BY <2>1 DEF MayStart, Knowing
  <2>4. /\ v \in {"step", "ask", "done", "fail"} => Status(g) = "running" /\ pc'[t] = FirstStage(v)
        /\ v = "answer" => Status(g) = "needs_input"
    BY <1>1, <1>3 DEF Heeds
  <2>5. /\ v \in {"step", "ask", "done", "fail"} => pc'[t] \notin {"recList", "recFlip"}
        /\ pc'[t] = "stepRead" => v = "step"
    BY <1>1, <1>3, <2>4 DEF FirstStage
  <2>6. RowReady(t)'
    BY <1>1, <1>2, <1>3, <2>1, <2>4, <2>5 DEF RowReady, Status, Goal, Knowing
  <2> QED
    BY <2>2, <2>3, <2>6
<1>10. \A u \in Requests \ {t} : ReadsAreFresh(u)' /\ RowReady(u)' /\ MayStart(u)'
  BY <1>1, <1>3 DEF OrderlyInv, ReadsFresh, GoalReady, StartersOwn, ReadsAreFresh, RowReady,
     MayStart, Owned, Status, Goal
<1>11. OwnersBusy'
  <2>1. \A u \in Requests : OwesRelease(u) => u # t
    BY <1>1 DEF OwesRelease
  <2> QED
    BY <1>1, <1>3, <2>1 DEF OrderlyInv, OwnersBusy, OwesRelease, Status, Goal
<1>12. RunningOwns'
  BY <1>1, <1>7 DEF Arrive, OrderlyInv, RunningOwns, WithStatus, Status
<1>13. Exclusive' /\ EveryStepCharged'
  BY <1>1 DEF OrderlyInv, Exclusive, EveryStepCharged, WithStatus, Status
<1>14. GuardsOwned'
  <2>1. UNCHANGED <<live, owner, guard, orphans, rows>> /\ new.route = "none"
    BY DEF Arrive, memory, new, NoJob
  <2> QED
    BY <1>1, <1>3, <2>1 DEF OrderlyInv, GuardsOwned, Goal
<1> QED
  BY <1>4, <1>5, <1>6, <1>8, <1>9, <1>10, <1>11, <1>12, <1>13, <1>14
     DEF OrderlyInv, ReadsFresh, GoalReady, StartersOwn

LEMMA OtherOrderly ==
  ASSUME OrderlyInv,
         (\E s \in Sessions : SessionUp(s) \/ SessionDown(s)) \/ UNCHANGED vars
  PROVE  OrderlyInv'
<1>1. /\ UNCHANGED <<rows, served, engine, owner, pc>>
      /\ \A u \in Requests : /\ job'[u].verb = job[u].verb
                             /\ job'[u].goal = job[u].goal
                             /\ job'[u].read = job[u].read
  <2>1. \A u \in Requests : job[u] \in Jobs
    BY DEF OrderlyInv, BaseInv, TypeOK
  <2>2. CASE UNCHANGED vars \/ \E s \in Sessions : SessionUp(s)
    BY <2>2 DEF SessionUp, vars, memory
  <2>3. CASE \E s \in Sessions : SessionDown(s)
    BY <2>1, <2>3 DEF SessionDown, Jobs
  <2> QED
    BY <2>2, <2>3
<1>2. BaseInv'
  BY OtherBase DEF OrderlyInv
<1>3. Alone' /\ OneStarter' /\ RecoveryAlone'
  BY <1>1, OtherRecovery DEF OrderlyInv, Alone, OneStarter, Goal
<1>4. ReadsFresh' /\ StartersOwn'
  BY <1>1 DEF OrderlyInv, ReadsFresh, ReadsAreFresh, StartersOwn, MayStart, Owned, Goal, Status
<1>5. GoalReady'
  BY <1>1 DEF OrderlyInv, GoalReady, RowReady, Goal, Status
<1>6. OwnersBusy' /\ RunningOwns' /\ Exclusive' /\ EveryStepCharged'
  BY <1>1 DEF OrderlyInv, OwnersBusy, OwesRelease, RunningOwns, Exclusive, EveryStepCharged,
     WithStatus, Goal, Status
<1>7. GuardsOwned'
  <2>1. CASE UNCHANGED vars \/ \E s \in Sessions : SessionUp(s)
    BY <2>1 DEF SessionUp, vars, memory, OrderlyInv, GuardsOwned, Goal
  <2>2. ASSUME NEW s \in Sessions, SessionDown(s) PROVE GuardsOwned'
    <3>1. /\ live' = live \ {s} /\ guard' = guard \ {s} /\ orphans' = orphans \ {s}
      BY <2>2 DEF SessionDown
    <3>2. ASSUME NEW u \in Requests, job'[u].route = "install"
          PROVE  job[u].route = "install" /\ rows[Goal(u)].session # s
      <4>1. job[u] \in Jobs
        BY DEF OrderlyInv, BaseInv, TypeOK
      <4>2. job[u].route = "install"
        BY <2>2, <3>2, <4>1 DEF SessionDown, Jobs
      <4>3. Goal(u) # NoGoal
        BY <4>2, Orderliness, AbsentValues
           DEF OrderlyFacts, At, Searching, OrderlyInv, GuardsOwned
      <4> QED
        BY <2>2, <3>2, <4>1, <4>2, <4>3 DEF SessionDown, Jobs
    <3> QED
      BY <1>1, <3>1, <3>2 DEF OrderlyInv, GuardsOwned, Goal
  <2> QED
    BY <2>1, <2>2
<1> QED
  BY <1>2, <1>3, <1>4, <1>5, <1>6, <1>7 DEF OrderlyInv

\* With no request and no owner, the rows alone have something to say.
Empty ==
  /\ BaseInv /\ Exclusive /\ EveryStepCharged /\ engine = "none"
  /\ owner = [s \in Sessions |-> NoGoal]
  /\ pc = [t \in Requests |-> "idle"] /\ job = [t \in Requests |-> NoJob]
  /\ guard = {} /\ orphans = {}

LEMMA EmptyOrderly == Empty => OrderlyInv
<1> SUFFICES ASSUME Empty PROVE OrderlyInv
  OBVIOUS
<1> USE DEF Empty
<1>1. NoJob.goal = NoGoal /\ NoJob.verb = "none" /\ \A g \in Goals : NoJob.read[g] = NoRow
  BY DEF NoJob, NothingRead
<1>2. Alone /\ OneStarter /\ RecoveryAlone
  BY <1>1 DEF Alone, OneStarter, RecoveryAlone, Goal
<1>3. ReadsFresh /\ StartersOwn
  BY <1>1 DEF ReadsFresh, ReadsAreFresh, StartersOwn, MayStart, Starting, Knowing
<1>4. GoalReady
  BY <1>1 DEF GoalReady, RowReady
<1>5. OwnersBusy /\ RunningOwns
  BY DEF OwnersBusy, RunningOwns
<1>6. GuardsOwned
  BY DEF GuardsOwned, NoJob
<1> QED
  BY <1>2, <1>3, <1>4, <1>5, <1>6 DEF OrderlyInv

LEMMA CrashOrderly ==
  ASSUME OrderlyInv, Crash
  PROVE  OrderlyInv'
<1>1. /\ UNCHANGED <<rows, served>> /\ engine' = "none"
      /\ owner' = [s \in Sessions |-> NoGoal]
      /\ pc' = [t \in Requests |-> "idle"] /\ job' = [t \in Requests |-> NoJob]
      /\ guard' = {} /\ orphans' = {}
  BY DEF Crash
<1>2. BaseInv' /\ Exclusive' /\ EveryStepCharged'
  BY <1>1, CrashBase DEF OrderlyInv, Exclusive, EveryStepCharged, WithStatus, Status
<1>3. Empty'
  BY <1>1, <1>2 DEF Empty
<1> QED
  BY <1>3, EmptyOrderly, PTL

LEMMA InitOrderly == Init => OrderlyInv
<1> SUFFICES ASSUME Init PROVE OrderlyInv
  OBVIOUS
<1>1. Exclusive /\ EveryStepCharged
  BY DEF Init, Exclusive, EveryStepCharged, WithStatus, Status, NoRow
<1> QED
  BY <1>1, InitBase, EmptyOrderly DEF Init, Empty

------------------------------------------------------------------------------
(* What orderly clients may rely on.                                         *)

\* The inductive invariant of orderly clients, of a daemon whose goal verbs wait
\* for the recovery (OrderlyInv).
LEMMA OrderlyInductive ==
  ASSUME Orderly, ~Early
  PROVE  Spec => []OrderlyInv
<1>1. OrderlyInv /\ [Next]_vars => OrderlyInv'
  BY ServeOrderly, ArriveOrderly, OtherOrderly, CrashOrderly DEF Next
<1> QED
  BY InitOrderly, <1>1, PTL DEF Spec

\* Two running goals never share a session, crashes and recoveries included
\* (Exclusive).
THEOREM RunsExclude ==
  ASSUME Orderly, ~Early
  PROVE  Spec => []Exclusive
<1>1. OrderlyInv => Exclusive
  BY DEF OrderlyInv
<1> QED
  BY OrderlyInductive, <1>1, PTL

------------------------------------------------------------------------------
(* The engine implements the life cycle.                                     *)

StatusTable == [g \in Goals |-> rows[g].status]
Bindings == [g \in Goals |-> rows[g].session]

\* The changes of one row that the life cycle has a step for, or does not see.
Allowed(g, st) ==
  \/ st = Status(g)
  \/ st = "running" /\ Status(g) \in {"pending", "paused"}
       /\ \A h \in Goals : Status(h) = "running" => rows[h].session # rows[g].session
  \/ st = "paused" /\ Status(g) \in {"running", "needs_input"}
  \/ st = "needs_input" /\ Status(g) \in {"running", "paused"}
  \/ st \in Terminal /\ Status(g) \in {"pending", "running", "paused", "needs_input"}
Turns(g, row) ==
  /\ rows' = [rows EXCEPT ![g] = row]
  /\ row.session = rows[g].session
  /\ Allowed(g, row.status)
Adds(g) ==
  /\ rows[g] = NoRow
  /\ \E s \in Sessions :
       rows' = [rows EXCEPT ![g] = [NoRow EXCEPT !.status = "pending", !.session = s]]

LEMMA TurnsMap ==
  ASSUME TableTyped, NEW g \in Goals, NEW row, Turns(g, row)
  PROVE  UNCHANGED <<StatusTable, Bindings>> \/ Lifecycle!Next
<1>1. /\ StatusTable' = [StatusTable EXCEPT ![g] = row.status]
      /\ UNCHANGED Bindings
      /\ Status(g) = row.status => UNCHANGED StatusTable
  BY DEF Turns, TableTyped, StatusTable, Bindings, Status
<1>2. Lifecycle!Become(g, row.status)
  BY <1>1 DEF Lifecycle!Become, StatusTable, Bindings
<1>3. CASE row.status = Status(g)
  BY <1>1, <1>3
<1>4. CASE row.status = "running" /\ row.status # Status(g)
  <2>1. Lifecycle!Start(g)
    BY <1>2, <1>4 DEF Turns, Allowed, Lifecycle!Start, Status, Terminal
  <2> QED
    BY <2>1 DEF Lifecycle!Next
<1>5. CASE row.status = "paused" /\ row.status # Status(g)
  <2>1. Lifecycle!Pause(g)
    BY <1>2, <1>5 DEF Turns, Allowed, Lifecycle!Pause, Status, Terminal
  <2> QED
    BY <2>1 DEF Lifecycle!Next
<1>6. CASE row.status = "needs_input" /\ row.status # Status(g)
  <2>1. Lifecycle!Ask(g)
    BY <1>2, <1>6 DEF Turns, Allowed, Lifecycle!Ask, Status, Terminal
  <2> QED
    BY <2>1 DEF Lifecycle!Next
<1>7. CASE row.status \in Terminal /\ row.status # Status(g)
  <2>1. /\ row.status \in Lifecycle!Over
        /\ Lifecycle!Finish(g, row.status)
    BY <1>2, <1>7 DEF Turns, Allowed, Lifecycle!Finish, Lifecycle!Over, Lifecycle!Alive,
       Status, Terminal
  <2> QED
    BY <2>1 DEF Lifecycle!Next
<1> QED
  BY <1>3, <1>4, <1>5, <1>6, <1>7 DEF Turns, Allowed

LEMMA AddsMap ==
  ASSUME TableTyped, NEW g \in Goals, Adds(g)
  PROVE  Lifecycle!Next
<1>1. PICK s \in Sessions :
        rows' = [rows EXCEPT ![g] = [NoRow EXCEPT !.status = "pending", !.session = s]]
  BY DEF Adds
<1>2. /\ StatusTable' = [StatusTable EXCEPT ![g] = "pending"]
      /\ Bindings' = [Bindings EXCEPT ![g] = s]
  BY <1>1 DEF TableTyped, StatusTable, Bindings, NoRow
<1>3. StatusTable[g] = "absent"
  BY DEF StatusTable, Adds, NoRow
<1>4. \E r \in Sessions : Bindings' = [Bindings EXCEPT ![g] = r]
  BY <1>2
<1>5. Lifecycle!Create(g)
  BY <1>2, <1>3, <1>4 DEF Lifecycle!Create, StatusTable, Bindings
<1> QED
  BY <1>5 DEF Lifecycle!Next

LEMMA InitMaps == Init => Lifecycle!Init
BY DEF Init, Lifecycle!Init, NoRow

LEMMA OnlyServeWrites ==
  ASSUME [Next]_vars
  PROVE  UNCHANGED rows \/ \E t \in Requests : Serve(t)
BY DEF Next, vars, Arrive, SessionUp, SessionDown, Crash

\* Every write of a request is one of them.
LEMMA ServeTurns ==
  ASSUME OrderlyInv, NEW t \in Requests, Serve(t)
  PROVE  UNCHANGED rows \/ \E g \in Goals : Adds(g) \/ \E row : Turns(g, row)
<1>0. /\ OrderlyFacts(t) /\ TableTyped /\ At(t)
  BY Orderliness DEF OrderlyFacts
<1> DEFINE g == Goal(t)
<1>1. ASSUME NEW s \in Sessions, Insert(t, s) PROVE g \in Goals /\ Adds(g)
  BY <1>0, <1>1 DEF Insert, OrderlyFacts, At, Update, Adds, Searching
<1>2. ASSUME NEW h \in Goals, RecoverFlip(t, h) PROVE \E row : Turns(h, row)
  <2>1. Status(h) = "running"
    BY <1>2 DEF RecoverFlip, OrderlyInv, RecoveryAlone
  <2>2. Turns(h, [rows[h] EXCEPT !.status = "paused"])
    BY <1>0, <1>2, <2>1 DEF RecoverFlip, SetStatus, Update, TableTyped, Rows, Turns, Allowed
  <2> QED
    BY <2>2
<1>3. CASE StartWrite(t)
  <2>1. g \in Goals /\ Status(g) \in {"paused", "pending"}
    BY <1>0, <1>3 DEF StartWrite, OrderlyFacts, ReadsAreFresh, At, Starting, Searching
  <2>2. engine = "up" /\ Owned(t)
    BY <1>0, <1>3, UpNow DEF StartWrite, Recovering, OrderlyFacts, MayStart, Starting
  <2>3. \A h \in Goals : Status(h) = "running" => rows[h].session # rows[g].session
    BY <2>1, <2>2 DEF OrderlyInv, RunningOwns, WithStatus, Owned
  <2>4. Turns(g, [rows[g] EXCEPT !.status = "running", !.steps = job[t].read[g].steps])
    BY <1>0, <1>3, <2>1, <2>3 DEF StartWrite, Update, TableTyped, Rows, Turns, Allowed
  <2> QED
    BY <2>1, <2>4
<1>4. CASE StepFail(t)
  <2>1. g \in Goals /\ Status(g) = "running"
    BY <1>0, <1>4 DEF StepFail, OrderlyFacts, RowReady, At, Searching
  <2> DEFINE row == [rows[g] EXCEPT !.status = "failed", !.steps = job[t].read[g].steps + 1,
                       !.tokens = job[t].read[g].tokens \cup ({job[t].token} \ {NoToken})]
  <2>2. Turns(g, row)
    BY <1>0, <1>4, <2>1
       DEF StepFail, Charged, Update, TableTyped, Rows, Turns, Allowed, Terminal
  <2> QED
    BY <2>1, <2>2
<1>5. CASE StepWrite(t)
  <2>1. g \in Goals
    BY <1>0, <1>5 DEF StepWrite, At, Searching
  <2> DEFINE row == [rows[g] EXCEPT !.status = Status(g), !.steps = job[t].read[g].steps + 1,
                       !.tokens = job[t].read[g].tokens \cup ({job[t].token} \ {NoToken})]
  <2>2. Turns(g, row)
    BY <1>0, <1>5, <2>1 DEF StepWrite, Charged, Update, TableTyped, Rows, Turns, Allowed, Status
  <2> QED
    BY <2>1, <2>2
<1>6. CASE Write(t)
  <2>1. g \in Goals
    BY <1>0, <1>6 DEF Write, At, Searching
  <2>2. /\ job[t].verb \in {"ask", "answer", "done", "fail", "cancel", "pause"}
        /\ Status(g) \in Statuses \ {"absent"}
    BY <1>0, <1>6, <2>1 DEF Write, At, OrderlyFacts, TableTyped, Rows, Status
  <2>3. Allowed(g, Result(job[t].verb))
    BY <1>0, <1>6, <2>2 DEF Write, OrderlyFacts, RowReady, Result, Allowed, Statuses, Terminal
  <2>4. Turns(g, [rows[g] EXCEPT !.status = Result(job[t].verb)])
    BY <1>0, <1>6, <2>1, <2>3 DEF Write, SetStatus, Update, TableTyped, Rows, Turns
  <2> QED
    BY <2>1, <2>4
<1>7. CASE ResumeWrite(t)
  <2>1. g \in Goals /\ Status(g) = "needs_input"
    BY <1>0, <1>7 DEF ResumeWrite, OrderlyFacts, RowReady, At, Searching
  <2>2. Turns(g, [rows[g] EXCEPT !.status = "paused"])
    BY <1>0, <1>7, <2>1 DEF ResumeWrite, SetStatus, Update, TableTyped, Rows, Turns, Allowed
  <2> QED
    BY <2>1, <2>2
<1>8. CASE \/ RecoverList(t) \/ RecoverClear(t) \/ List(t) \/ PickNone(t)
           \/ (\E h \in Goals : Pick(t, h)) \/ Pinned(t) \/ Restored(t)
           \/ StepRefused(t) \/ StepRead(t) \/ StepEvent(t) \/ Read(t) \/ Release(t)
           \/ ReleaseNone(t) \/ Unpinned(t) \/ ResumeCheck(t) \/ ResumeGet(t)
           \/ ResumeClaim(t)
  BY <1>8
     DEF RecoverList, RecoverClear, List, PickNone, Pick, Claim, Pinned, Routed, Restored,
         StepRefused, StepRead, StepEvent, Read, Release, ReleaseNone, Unpinned,
         ResumeCheck, ResumeGet, ResumeClaim
<1> QED
  BY <1>1, <1>2, <1>3, <1>4, <1>5, <1>6, <1>7, <1>8 DEF Serve

\* What the engine does to the rows is what the documented life cycle allows: a
\* goal starts in a session no running goal uses, and one that is over stays so
\* (ImplementsLifecycle).
THEOREM EngineImplementsLifecycle ==
  ASSUME Orderly, ~Early
  PROVE  Spec => ImplementsLifecycle
<1>1. OrderlyInv /\ [Next]_vars => [Lifecycle!Next]_<<StatusTable, Bindings>>
  <2> SUFFICES ASSUME OrderlyInv, [Next]_vars
               PROVE  Lifecycle!Next \/ UNCHANGED <<StatusTable, Bindings>>
    OBVIOUS
  <2>1. CASE UNCHANGED rows
    BY <2>1 DEF StatusTable, Bindings
  <2>2. CASE \E t \in Requests : Serve(t)
    <3>1. TableTyped
      BY TypeParts DEF OrderlyInv, BaseInv
    <3> QED
      BY <2>2, <3>1, ServeTurns, TurnsMap, AddsMap DEF StatusTable, Bindings
  <2> QED
    BY <2>1, <2>2, OnlyServeWrites
<1> QED
  BY OrderlyInductive, InitMaps, <1>1, PTL
     DEF Spec, ImplementsLifecycle, Lifecycle!Spec, StatusTable, Bindings

==============================================================================
