------------------------ MODULE SessionDispatch_proofs ------------------------
(***************************************************************************)
(* IndInv of SessionDispatch is inductive, for any requests, clients,      *)
(* entries and Chromes, and with it what the dispatcher, the freezer and   *)
(* the reaper promise each other.  Each action has a lemma: the conjuncts  *)
(* of IndInv follow one by one.                                            *)
(***************************************************************************)
EXTENDS SessionDispatch, FiniteSetTheorems, SequenceTheorems, TLAPS

\* The sets that are counted are finite.
LEMMA Finite == \A e : IsFiniteSet(Waits(e)) /\ Cardinality(Waits(e)) \in Nat
  <1>1. \A e : IsFiniteSet(Waits(e))
    BY TasksFinite, FS_Subset DEF Waits
  <1> QED BY <1>1, FS_CardinalityType

\* One page wait more.
LEMMA OneMore ==
  ASSUME NEW e, NEW t, t \notin Waits(e), Waits(e)' = Waits(e) \cup {t}
  PROVE  Cardinality(Waits(e)') = Cardinality(Waits(e)) + 1
  BY Finite, FS_AddElement

\* One page wait less.
LEMMA OneLess ==
  ASSUME NEW e, NEW t, t \in Waits(e), Waits(e)' = Waits(e) \ {t}
  PROVE  Cardinality(Waits(e)') = Cardinality(Waits(e)) - 1 /\ Cardinality(Waits(e)) # 0
  BY Finite, FS_RemoveElement, FS_EmptySet

\* Steps of one actor that is no page wait, before and after.
LEMMA SameWaits ==
  ASSUME NEW a, pc[a] \notin Counting, pc'[a] \notin Counting,
         \A u \in Tasks \ {a} : pc'[u] = pc[u] /\ Entry(u)' = Entry(u)
  PROVE  \A e : Waits(e)' = Waits(e)
  BY DEF Waits

\* The records that the actions make of a job are jobs.
LEMMA JobEdits ==
  ASSUME NEW j \in Jobs, NEW v \in Verbs, NEW c \in Clients \cup {Nobody},
         NEW e \in Entries \cup {NoEntry}, NEW p \in Chromes \cup {NoChrome}
  PROVE  /\ [j EXCEPT !.verb = v] \in Jobs
         /\ [j EXCEPT !.page = p] \in Jobs
         /\ [j EXCEPT !.target = e] \in Jobs
         /\ [j EXCEPT !.entry = e] \in Jobs
         /\ [j EXCEPT !.verb = v, !.page = p] \in Jobs
         /\ [j EXCEPT !.verb = v, !.entry = e] \in Jobs
         /\ [j EXCEPT !.verb = v, !.client = c] \in Jobs
         /\ [j EXCEPT !.verb = v, !.client = c, !.entry = e] \in Jobs
         /\ [j EXCEPT !.verb = v, !.entry = e, !.page = p] \in Jobs
  BY ZenonT(30) DEF Jobs

\* The parts they are made of.
LEMMA JobParts ==
  ASSUME TypeOK
  PROVE  /\ NoJob \in Jobs /\ Page \in Chromes \cup {NoChrome}
         /\ \A a \in Actors : job[a] \in Jobs
         /\ Tasks \subseteq Actors /\ Freezer \in Actors
         /\ {"wait", "checkpoint", "close", "start", "go"} \subseteq Verbs /\ LockedVerbs \subseteq Verbs
  <1>1. NoJob \in Jobs
    BY DEF NoJob, Jobs, Verbs
  <1>2. Page \in Chromes \cup {NoChrome}
    BY DEF TypeOK, Page
  <1> QED BY <1>1, <1>2 DEF TypeOK, Actors, Verbs

\* Activity is stamped.
LEMMA Stamps ==
  ASSUME TypeOK
  PROVE  Touched \in [Entries -> 0..2]
  BY DEF TypeOK, Touched

\* Joining a queue.
LEMMA Joins ==
  ASSUME TypeOK, NEW e, NEW a \in Actors
  PROVE  [waiters EXCEPT ![e] = Append(@, a)] \in [Entries -> Seq(Actors)]
  <1>1. e \in Entries => Append(waiters[e], a) \in Seq(Actors)
    BY AppendProperties DEF TypeOK
  <1> QED BY <1>1 DEF TypeOK

\* Leaving it.
LEMMA Leaves ==
  ASSUME TypeOK, NEW e, NEW a, MyTurn(a, e)
  PROVE  [waiters EXCEPT ![e] = Tail(@)] \in [Entries -> Seq(Actors)]
  <1>1. e \in Entries => Tail(waiters[e]) \in Seq(Actors)
    BY HeadTailProperties DEF TypeOK, MyTurn
  <1> QED BY <1>1 DEF TypeOK

\* What a recovery may do to its request.
LEMMA Retries ==
  ASSUME TypeOK, NEW t \in Tasks, NEW p \in Chromes \cup {NoChrome}, RetryOrReport(t, p),
         pc[t] \in Locking
  PROVE  \E x \in {"driving", "idle"}, j \in Jobs :
           /\ pc' = [pc EXCEPT ![t] = x] /\ job' = [job EXCEPT ![t] = j]
           /\ x = "driving" =>
                /\ j.verb \in RetrySafe /\ j.retried /\ j.page = p
                /\ j.entry = Entry(t) /\ j.applied = job[t].applied
                /\ holder' = holder
           /\ x = "idle" => holder' = [holder EXCEPT ![Entry(t)] = Nobody]
  <1>1. CASE job[t].verb \in RetrySafe
    <2> DEFINE j == [job[t] EXCEPT !.retried = TRUE, !.page = p, !.target = NoEntry]
    <2>1. job[t] \in Jobs
      BY DEF TypeOK, Actors
    <2>2. j \in Jobs /\ j.retried /\ j.page = p /\ j.verb = job[t].verb /\ j.entry = job[t].entry
          /\ j.applied = job[t].applied
      BY <2>1 DEF Jobs
    <2>3. pc' = [pc EXCEPT ![t] = "driving"] /\ job' = [job EXCEPT ![t] = j] /\ holder' = holder
      BY <1>1 DEF RetryOrReport, Goto
    <2> QED BY <1>1, <2>2, <2>3 DEF Entry
  <1>2. CASE job[t].verb \notin RetrySafe
    <2>1. NoJob \in Jobs
      BY DEF NoJob, Jobs, Verbs
    <2>2. pc' = [pc EXCEPT ![t] = "idle"] /\ job' = [job EXCEPT ![t] = NoJob]
          /\ holder' = [holder EXCEPT ![Entry(t)] = Nobody]
      BY <1>2 DEF RetryOrReport, Goto, End, Unlock
    <2> QED BY <2>1, <2>2
  <1> QED BY <1>1, <1>2

\* Nobody is inside the lock of an entry that is free, or counted in a count of 0.
LEMMA NobodyInside ==
  ASSUME HoldersHold, UsersCurrent, NEW e \in Entries, holder[e] = Nobody, NEW t \in Tasks,
         pc[t] \in Locking
  PROVE  Entry(t) # e
  BY ActorsDiffer DEF HoldersHold

\* An entry whose count is 0 has no page wait.
LEMMA NobodyWaits ==
  ASSUME WaitsCounted, NEW e \in Entries, inflight[e] = 0, NEW t \in Tasks, pc[t] \in Counting
  PROVE  Entry(t) # e
  <1>1. Waits(e) = {}
    BY Finite, FS_EmptySet DEF WaitsCounted
  <1> QED BY <1>1 DEF Waits

\* A verb arrives at the registered entry.
LEMMA VerbArriveKeeps ==
  ASSUME IndInv, NEW t \in Tasks, NEW v \in LockedVerbs, NEW c \in Clients, VerbArrive(t, v, c)
  PROVE  IndInv'
  <1>0. \A e : Waits(e)' = Waits(e)
    BY SameWaits DEF VerbArrive, Goto, Counting, Entry
  <1>1. TypeOK'
    <2>1. job' \in [Actors -> Jobs]
      BY JobEdits, JobParts DEF IndInv, TypeOK, VerbArrive
    <2>2. waiters' \in [Entries -> Seq(Actors)]
      BY DEF IndInv, TypeOK, VerbArrive, locks
    <2>3. /\ inflight' \in [Entries -> Nat]
          /\ holder' \in [Entries -> Actors \cup {Nobody}]
          /\ mutate' \in Actors \cup {Nobody}
      BY DEF IndInv, TypeOK, VerbArrive, locks
    <2>4. /\ current' \in Entries \cup {NoEntry}
          /\ age' \in [Entries -> 0..2]
          /\ sess' \in [Entries -> Chromes \cup {NoChrome}]
          /\ pc' \in [Actors -> PCs]
      BY DEF IndInv, TypeOK, Actors, PCs, VerbArrive, Goto, Touched
    <2>5. /\ alive' \subseteq Chromes
          /\ stopped' \subseteq Chromes
          /\ record' \in [Entries -> SUBSET Chromes]
      BY DEF IndInv, TypeOK, VerbArrive, freeze
    <2>6. agent' \in BOOLEAN /\ lease' \in Clients \cup {Nobody} /\ overtaken' \in BOOLEAN
      BY DEF IndInv, TypeOK, VerbArrive, books
    <2> QED BY <2>1, <2>2, <2>3, <2>4, <2>5, <2>6 DEF TypeOK
  <1>2. HoldersHold'
    BY DEF IndInv, HoldersHold, VerbArrive, Goto, locks, Locking, Entry
  <1>3. WaitsCounted'
    BY <1>0 DEF IndInv, WaitsCounted, VerbArrive, locks
  <1>4. UsersCurrent'
    BY DEF IndInv, TypeOK, UsersCurrent, VerbArrive, Goto, Entry
  <1>5. RegistryHeld'
    BY DEF IndInv, RegistryHeld, VerbArrive, Goto
  <1>6. AttemptsKnown'
    BY DEF IndInv, TypeOK, AttemptsKnown, VerbArrive, Goto, NoJob
  <1>7. (stopped \subseteq alive)'
    BY DEF IndInv, VerbArrive, freeze
  <1>8. FrozenIsRecorded'
    BY DEF IndInv, FrozenIsRecorded, VerbArrive, freeze
  <1>9. VerbNeverStopped'
    BY DEF IndInv, VerbNeverStopped, NeverStopped, VerbArrive, Goto, freeze
  <1> QED BY <1>1, <1>2, <1>3, <1>4, <1>5, <1>6, <1>7, <1>8, <1>9 DEF IndInv

\* It queues.
LEMMA VerbQueueKeeps ==
  ASSUME IndInv, NEW t \in Tasks, VerbQueue(t)
  PROVE  IndInv'
  <1>0. \A e : Waits(e)' = Waits(e)
    BY SameWaits DEF VerbQueue, Goto, Counting, Entry
  <1>1. TypeOK'
    <2>1. job' \in [Actors -> Jobs]
      BY DEF IndInv, TypeOK, VerbQueue
    <2>2. waiters' \in [Entries -> Seq(Actors)]
      BY Joins, AbsentObjects DEF IndInv, TypeOK, Actors, VerbQueue, Goto, freeze, books, Entry
    <2>3. /\ inflight' \in [Entries -> Nat]
          /\ holder' \in [Entries -> Actors \cup {Nobody}]
          /\ mutate' \in Actors \cup {Nobody}
      BY ActorsDiffer, AbsentObjects DEF IndInv, TypeOK, Actors, VerbQueue, Goto, freeze, books,
         Entry
    <2>4. /\ current' \in Entries \cup {NoEntry}
          /\ age' \in [Entries -> 0..2]
          /\ sess' \in [Entries -> Chromes \cup {NoChrome}]
          /\ pc' \in [Actors -> PCs]
      BY ActorsDiffer, AbsentObjects DEF IndInv, TypeOK, Actors, PCs, VerbQueue, Goto, freeze,
         books, Entry
    <2>5. /\ alive' \subseteq Chromes
          /\ stopped' \subseteq Chromes
          /\ record' \in [Entries -> SUBSET Chromes]
      BY ActorsDiffer, AbsentObjects DEF IndInv, TypeOK, Actors, VerbQueue, Goto, freeze, books,
         Entry
    <2>6. agent' \in BOOLEAN /\ lease' \in Clients \cup {Nobody} /\ overtaken' \in BOOLEAN
      BY ActorsDiffer, AbsentObjects DEF IndInv, TypeOK, Actors, VerbQueue, Goto, freeze, books,
         Entry
    <2> QED BY <2>1, <2>2, <2>3, <2>4, <2>5, <2>6 DEF TypeOK
  <1>2. HoldersHold'
    BY DEF IndInv, HoldersHold, VerbQueue, Goto, Locking, Entry
  <1>3. WaitsCounted'
    BY <1>0 DEF IndInv, WaitsCounted, VerbQueue
  <1>4. UsersCurrent'
    BY DEF IndInv, UsersCurrent, VerbQueue, Goto, Users, Entry
  <1>5. RegistryHeld'
    BY DEF IndInv, RegistryHeld, VerbQueue, Goto
  <1>6. AttemptsKnown'
    BY DEF IndInv, AttemptsKnown, VerbQueue, Goto
  <1>7. (stopped \subseteq alive)'
    BY DEF IndInv, TypeOK, VerbQueue, Goto, Free, freeze, books, Entry
  <1>8. FrozenIsRecorded'
    BY DEF IndInv, FrozenIsRecorded, VerbQueue, freeze
  <1>9. VerbNeverStopped'
    BY DEF IndInv, VerbNeverStopped, NeverStopped, VerbQueue, Goto, freeze
  <1> QED BY <1>1, <1>2, <1>3, <1>4, <1>5, <1>6, <1>7, <1>8, <1>9 DEF IndInv

\* It gets the lock and thaws the session.
LEMMA VerbRunKeeps ==
  ASSUME IndInv, NEW t \in Tasks, VerbRun(t)
  PROVE  IndInv'
  <1>0. \A e : Waits(e)' = Waits(e)
    <2>1. CASE pc[t] = "gated"
      BY <2>1, SameWaits DEF VerbRun, Goto, Handle, Counting, Entry
    <2>2. CASE ~(pc[t] = "gated")
      BY <2>2, SameWaits DEF VerbRun, Goto, Handle, Counting, Entry
    <2> QED BY <2>1, <2>2
  <1>1. TypeOK'
    <2>1. job' \in [Actors -> Jobs]
      BY JobEdits, JobParts DEF IndInv, TypeOK, VerbRun, Handle
    <2>2. waiters' \in [Entries -> Seq(Actors)]
      <3>1. CASE pc[t] = "gated"
        BY <3>1 DEF IndInv, TypeOK, VerbRun
      <3>2. CASE MyTurn(t, Entry(t)) /\ waiters' = [waiters EXCEPT ![Entry(t)] = Tail(@)]
        BY <3>2, Leaves DEF IndInv
      <3> QED BY <3>1, <3>2 DEF VerbRun
    <2>3. /\ inflight' \in [Entries -> Nat]
          /\ holder' \in [Entries -> Actors \cup {Nobody}]
          /\ mutate' \in Actors \cup {Nobody}
      <3>1. CASE pc[t] = "gated"
        BY <3>1 DEF IndInv, TypeOK, Actors, VerbRun
      <3>2. CASE ~(pc[t] = "gated")
        BY <3>2 DEF IndInv, TypeOK, Actors, VerbRun
      <3> QED BY <3>1, <3>2
    <2>4. /\ current' \in Entries \cup {NoEntry}
          /\ age' \in [Entries -> 0..2]
          /\ sess' \in [Entries -> Chromes \cup {NoChrome}]
          /\ pc' \in [Actors -> PCs]
      <3>1. CASE pc[t] = "gated"
        BY <3>1 DEF IndInv, TypeOK, Actors, PCs, VerbRun, Goto, Touched, Handle
      <3>2. CASE ~(pc[t] = "gated")
        BY <3>2 DEF IndInv, TypeOK, Actors, PCs, VerbRun, Goto, Touched, Handle
      <3> QED BY <3>1, <3>2
    <2>5. /\ alive' \subseteq Chromes
          /\ stopped' \subseteq Chromes
          /\ record' \in [Entries -> SUBSET Chromes]
      <3>1. CASE pc[t] = "gated"
        BY <3>1 DEF IndInv, TypeOK, VerbRun, Lift, Handle
      <3>2. CASE ~(pc[t] = "gated")
        BY <3>2 DEF IndInv, TypeOK, VerbRun, Lift, Handle
      <3> QED BY <3>1, <3>2
    <2>6. agent' \in BOOLEAN /\ lease' \in Clients \cup {Nobody} /\ overtaken' \in BOOLEAN
      <3>1. CASE pc[t] = "gated"
        BY <3>1 DEF IndInv, TypeOK, VerbRun, books
      <3>2. CASE ~(pc[t] = "gated")
        BY <3>2 DEF IndInv, TypeOK, VerbRun, books
      <3> QED BY <3>1, <3>2
    <2> QED BY <2>1, <2>2, <2>3, <2>4, <2>5, <2>6 DEF TypeOK
  <1>2. HoldersHold'
    <2>1. CASE pc[t] = "gated"
      BY <2>1, ActorsDiffer
         DEF IndInv, TypeOK, Actors, HoldersHold, UsersCurrent, VerbRun, Goto, Handle, Free,
             Locking, Users, Entry
    <2>2. CASE ~(pc[t] = "gated")
      BY <2>2, ActorsDiffer
         DEF IndInv, TypeOK, HoldersHold, UsersCurrent, VerbRun, Goto, Handle, MyTurn,
             Locking, Counting, Users, Entry
    <2> QED BY <2>1, <2>2
  <1>3. WaitsCounted'
    <2>1. CASE pc[t] = "gated"
      BY <2>1, <1>0 DEF IndInv, WaitsCounted, VerbRun
    <2>2. CASE ~(pc[t] = "gated")
      BY <2>2, <1>0 DEF IndInv, WaitsCounted, VerbRun
    <2> QED BY <2>1, <2>2
  <1>4. UsersCurrent'
    <2>1. CASE pc[t] = "gated"
      BY <2>1 DEF IndInv, UsersCurrent, VerbRun, Goto, Handle, Users, Entry
    <2>2. CASE ~(pc[t] = "gated")
      BY <2>2 DEF IndInv, UsersCurrent, VerbRun, Goto, Handle, Users, Entry
    <2> QED BY <2>1, <2>2
  <1>5. RegistryHeld'
    <2>1. CASE pc[t] = "gated"
      BY <2>1 DEF IndInv, RegistryHeld, VerbRun, Goto, Handle
    <2>2. CASE ~(pc[t] = "gated")
      BY <2>2 DEF IndInv, RegistryHeld, VerbRun, Goto, Handle
    <2> QED BY <2>1, <2>2
  <1>6. AttemptsKnown'
    <2>1. CASE pc[t] = "gated"
      BY <2>1 DEF IndInv, AttemptsKnown, VerbRun, Goto, Handle
    <2>2. CASE ~(pc[t] = "gated")
      BY <2>2 DEF IndInv, AttemptsKnown, VerbRun, Goto, Handle
    <2> QED BY <2>1, <2>2
  <1>7. (stopped \subseteq alive)'
    <2>1. CASE pc[t] = "gated"
      BY <2>1 DEF IndInv, VerbRun, Lift, Handle
    <2>2. CASE ~(pc[t] = "gated")
      BY <2>2 DEF IndInv, VerbRun, Lift, Handle
    <2> QED BY <2>1, <2>2
  <1>8. FrozenIsRecorded'
    <2>1. CASE pc[t] = "gated"
      BY <2>1 DEF IndInv, FrozenIsRecorded, VerbRun, Lift, Handle
    <2>2. CASE ~(pc[t] = "gated")
      BY <2>2 DEF IndInv, FrozenIsRecorded, VerbRun, Lift, Handle
    <2> QED BY <2>1, <2>2
  <1>9. VerbNeverStopped'
    <2>1. CASE pc[t] = "gated"
      BY <2>1
         DEF IndInv, Actors, VerbNeverStopped, NeverStopped, FrozenIsRecorded, UsersCurrent,
             VerbRun, Lift, Handle, Users
    <2>2. CASE ~(pc[t] = "gated")
      BY <2>2
         DEF IndInv, Actors, VerbNeverStopped, NeverStopped, FrozenIsRecorded, UsersCurrent,
             VerbRun, Lift, Handle, Users
    <2> QED BY <2>1, <2>2
  <1> QED BY <1>1, <1>2, <1>3, <1>4, <1>5, <1>6, <1>7, <1>8, <1>9 DEF IndInv

\* It answers.
LEMMA VerbReturnsKeeps ==
  ASSUME IndInv, NEW t \in Tasks, VerbReturns(t)
  PROVE  IndInv'
  <1>0. \A e : Waits(e)' = Waits(e)
    BY SameWaits DEF VerbReturns, Goto, End, Counting, Entry
  <1>1. TypeOK'
    <2>1. job' \in [Actors -> Jobs]
      BY DEF IndInv, TypeOK, Actors, Jobs, Verbs, VerbReturns, End, NoJob
    <2>2. waiters' \in [Entries -> Seq(Actors)]
      BY DEF IndInv, TypeOK, VerbReturns
    <2>3. /\ inflight' \in [Entries -> Nat]
          /\ holder' \in [Entries -> Actors \cup {Nobody}]
          /\ mutate' \in Actors \cup {Nobody}
      BY DEF IndInv, TypeOK, VerbReturns, Unlock
    <2>4. /\ current' \in Entries \cup {NoEntry}
          /\ age' \in [Entries -> 0..2]
          /\ sess' \in [Entries -> Chromes \cup {NoChrome}]
          /\ pc' \in [Actors -> PCs]
      BY DEF IndInv, TypeOK, Actors, PCs, VerbReturns, Goto, End, Touched
    <2>5. /\ alive' \subseteq Chromes
          /\ stopped' \subseteq Chromes
          /\ record' \in [Entries -> SUBSET Chromes]
      BY DEF IndInv, TypeOK, VerbReturns, freeze
    <2>6. agent' \in BOOLEAN /\ lease' \in Clients \cup {Nobody} /\ overtaken' \in BOOLEAN
      BY DEF IndInv, TypeOK, VerbReturns, books
    <2> QED BY <2>1, <2>2, <2>3, <2>4, <2>5, <2>6 DEF TypeOK
  <1>2. HoldersHold'
    BY DEF IndInv, TypeOK, HoldersHold, VerbReturns, Goto, End, Unlock, Locking, Entry
  <1>3. WaitsCounted'
    BY <1>0 DEF IndInv, WaitsCounted, VerbReturns
  <1>4. UsersCurrent'
    BY DEF IndInv, TypeOK, UsersCurrent, VerbReturns, Goto, End, Locking, Counting, Users,
           Entry
  <1>5. RegistryHeld'
    BY DEF IndInv, RegistryHeld, VerbReturns, Goto, End
  <1>6. AttemptsKnown'
    BY DEF IndInv, AttemptsKnown, VerbReturns, Goto, End, NoJob, Locking
  <1>7. (stopped \subseteq alive)'
    BY DEF IndInv, VerbReturns, freeze
  <1>8. FrozenIsRecorded'
    BY DEF IndInv, FrozenIsRecorded, VerbReturns, freeze
  <1>9. VerbNeverStopped'
    BY DEF IndInv, TypeOK, VerbNeverStopped, NeverStopped, VerbReturns, Goto, End, freeze
  <1> QED BY <1>1, <1>2, <1>3, <1>4, <1>5, <1>6, <1>7, <1>8, <1>9 DEF IndInv

\* It fails.
LEMMA VerbRaisesKeeps ==
  ASSUME IndInv, NEW t \in Tasks, VerbRaises(t)
  PROVE  IndInv'
  <1>0. \A e : Waits(e)' = Waits(e)
    BY SameWaits DEF VerbRaises, Goto, End, Counting, Entry
  <1>1. TypeOK'
    <2>1. job' \in [Actors -> Jobs]
      BY DEF IndInv, TypeOK, Actors, Jobs, Verbs, VerbRaises, End, NoJob
    <2>2. waiters' \in [Entries -> Seq(Actors)]
      BY DEF IndInv, TypeOK, VerbRaises
    <2>3. /\ inflight' \in [Entries -> Nat]
          /\ holder' \in [Entries -> Actors \cup {Nobody}]
          /\ mutate' \in Actors \cup {Nobody}
      BY DEF IndInv, TypeOK, VerbRaises, Unlock
    <2>4. /\ current' \in Entries \cup {NoEntry}
          /\ age' \in [Entries -> 0..2]
          /\ sess' \in [Entries -> Chromes \cup {NoChrome}]
          /\ pc' \in [Actors -> PCs]
      BY DEF IndInv, TypeOK, PCs, VerbRaises, Goto, End
    <2>5. /\ alive' \subseteq Chromes
          /\ stopped' \subseteq Chromes
          /\ record' \in [Entries -> SUBSET Chromes]
      BY DEF IndInv, TypeOK, VerbRaises, freeze
    <2>6. agent' \in BOOLEAN /\ lease' \in Clients \cup {Nobody} /\ overtaken' \in BOOLEAN
      BY DEF IndInv, TypeOK, VerbRaises, books
    <2> QED BY <2>1, <2>2, <2>3, <2>4, <2>5, <2>6 DEF TypeOK
  <1>2. HoldersHold'
    BY DEF IndInv, TypeOK, HoldersHold, VerbRaises, Goto, End, Unlock, Locking, Entry
  <1>3. WaitsCounted'
    BY <1>0 DEF IndInv, WaitsCounted, VerbRaises
  <1>4. UsersCurrent'
    BY DEF IndInv, TypeOK, UsersCurrent, VerbRaises, Goto, End, Locking, Counting, Users,
           Entry
  <1>5. RegistryHeld'
    BY DEF IndInv, RegistryHeld, VerbRaises, Goto, End
  <1>6. AttemptsKnown'
    BY DEF IndInv, TypeOK, AttemptsKnown, VerbRaises, Goto, End, Locking
  <1>7. (stopped \subseteq alive)'
    BY DEF IndInv, VerbRaises, freeze
  <1>8. FrozenIsRecorded'
    BY DEF IndInv, FrozenIsRecorded, VerbRaises, freeze
  <1>9. VerbNeverStopped'
    BY DEF IndInv, TypeOK, VerbNeverStopped, NeverStopped, VerbRaises, Goto, End, freeze
  <1> QED BY <1>1, <1>2, <1>3, <1>4, <1>5, <1>6, <1>7, <1>8, <1>9 DEF IndInv

\* Its Chrome crashes.
LEMMA VerbCrashesKeeps ==
  ASSUME IndInv, NEW t \in Tasks, VerbCrashes(t)
  PROVE  IndInv'
  <1>0. \A e : Waits(e)' = Waits(e)
    BY SameWaits DEF VerbCrashes, Goto, Counting, Entry
  <1>1. TypeOK'
    <2>1. job' \in [Actors -> Jobs]
      <3>1. PICK acted \in {0, 1} :
              job' = [job EXCEPT ![t] = [job[t] EXCEPT !.applied = job[t].applied + acted, !.page = NoChrome]]
        BY DEF VerbCrashes
      <3>2. job[t] \in Jobs /\ job[t].applied \in 0..1
        BY DEF IndInv, TypeOK, AttemptsKnown, Actors, Jobs, Locking, VerbCrashes
      <3>4. job[t].applied + acted \in 0..2
        BY <3>1, <3>2
      <3>3. [job[t] EXCEPT !.applied = job[t].applied + acted, !.page = NoChrome] \in Jobs
        BY <3>2, <3>4 DEF Jobs
      <3> QED BY <3>1, <3>3, JobParts DEF IndInv, TypeOK, Actors
    <2>2. waiters' \in [Entries -> Seq(Actors)]
      BY ActorsDiffer, AbsentObjects DEF IndInv, TypeOK, Actors, VerbCrashes, Goto, freeze, books,
         locks, Entry
    <2>3. /\ inflight' \in [Entries -> Nat]
          /\ holder' \in [Entries -> Actors \cup {Nobody}]
          /\ mutate' \in Actors \cup {Nobody}
      BY ActorsDiffer, AbsentObjects DEF IndInv, TypeOK, Actors, VerbCrashes, Goto, freeze, books,
         locks, Entry
    <2>4. /\ current' \in Entries \cup {NoEntry}
          /\ age' \in [Entries -> 0..2]
          /\ sess' \in [Entries -> Chromes \cup {NoChrome}]
          /\ pc' \in [Actors -> PCs]
      BY DEF IndInv, TypeOK, PCs, VerbCrashes, Goto
    <2>5. /\ alive' \subseteq Chromes
          /\ stopped' \subseteq Chromes
          /\ record' \in [Entries -> SUBSET Chromes]
      BY ActorsDiffer, AbsentObjects DEF IndInv, TypeOK, Actors, VerbCrashes, Goto, freeze, books,
         locks, Entry
    <2>6. agent' \in BOOLEAN /\ lease' \in Clients \cup {Nobody} /\ overtaken' \in BOOLEAN
      BY ActorsDiffer, AbsentObjects DEF IndInv, TypeOK, Actors, VerbCrashes, Goto, freeze, books,
         locks, Entry
    <2> QED BY <2>1, <2>2, <2>3, <2>4, <2>5, <2>6 DEF TypeOK
  <1>2. HoldersHold'
    BY DEF IndInv, HoldersHold, VerbCrashes, Goto, locks, Locking, Entry
  <1>3. WaitsCounted'
    BY <1>0 DEF IndInv, WaitsCounted, VerbCrashes, locks
  <1>4. UsersCurrent'
    BY DEF IndInv, UsersCurrent, VerbCrashes, Goto, Locking, Users, Entry
  <1>5. RegistryHeld'
    BY DEF IndInv, RegistryHeld, VerbCrashes, Goto
  <1>6. AttemptsKnown'
    <2>1. PICK acted \in {0, 1} :
            job' = [job EXCEPT ![t] = [job[t] EXCEPT !.applied = job[t].applied + acted, !.page = NoChrome]]
      BY DEF VerbCrashes
    <2>2. job[t] \in Jobs /\ job[t].applied = 0 /\ ~job[t].retried
      BY DEF IndInv, TypeOK, AttemptsKnown, Actors, Jobs, VerbCrashes
    <2>3. job'[t].applied \in 0..1 /\ pc'[t] = "healing"
          /\ \A u \in Tasks \ {t} : pc'[u] = pc[u] /\ job'[u] = job[u]
      <3>1. job'[t].applied = acted
        <4>1. job'[t] = [job[t] EXCEPT !.applied = job[t].applied + acted, !.page = NoChrome]
          BY <2>1 DEF IndInv, TypeOK, Actors
        <4>2. job'[t].applied = job[t].applied + acted
          BY <4>1, <2>2 DEF Jobs
        <4> QED BY <4>2, <2>1, <2>2
      <3> QED BY <2>1, <3>1 DEF IndInv, TypeOK, Actors, VerbCrashes, Goto
    <2> QED BY <2>3 DEF IndInv, AttemptsKnown, Locking
  <1>7. (stopped \subseteq alive)'
    BY DEF IndInv, TypeOK, VerbCrashes, Goto, locks, freeze, books, Entry
  <1>8. FrozenIsRecorded'
    BY DEF IndInv, FrozenIsRecorded, VerbCrashes, freeze
  <1>9. VerbNeverStopped'
    BY DEF IndInv, TypeOK, VerbNeverStopped, NeverStopped, VerbCrashes, Goto, freeze
  <1> QED BY <1>1, <1>2, <1>3, <1>4, <1>5, <1>6, <1>7, <1>8, <1>9 DEF IndInv

\* The page is revived.
LEMMA ReviveKeeps ==
  ASSUME IndInv, NEW t \in Tasks, Revive(t)
  PROVE  IndInv'
  <1>a. PICK x \in {"driving", "idle"}, j \in Jobs :
        /\ pc' = [pc EXCEPT ![t] = x] /\ job' = [job EXCEPT ![t] = j]
        /\ x = "driving" =>
             /\ j.verb \in RetrySafe /\ j.retried /\ j.page = Page
             /\ j.entry = Entry(t) /\ j.applied = job[t].applied
             /\ holder' = holder
        /\ x = "idle" => holder' = [holder EXCEPT ![Entry(t)] = Nobody]
    BY Retries, JobParts DEF IndInv, Revive, Locking
  <1>b. pc[t] \in Locking /\ pc[t] \notin Counting /\ x \notin Counting /\ TypeOK
    BY <1>a DEF Revive, IndInv, Locking, Counting
  <1>0. \A e : Waits(e)' = Waits(e)
    BY <1>a, <1>b, SameWaits DEF TypeOK, Actors, Entry
  <1>1. TypeOK'
    <2>1. job' \in [Actors -> Jobs]
      BY <1>a, <1>b DEF TypeOK
    <2>2. waiters' \in [Entries -> Seq(Actors)]
      BY <1>a, <1>b DEF TypeOK, Revive
    <2>3. /\ inflight' \in [Entries -> Nat]
          /\ holder' \in [Entries -> Actors \cup {Nobody}]
          /\ mutate' \in Actors \cup {Nobody}
      BY <1>a, <1>b DEF TypeOK, Revive
    <2>4. /\ current' \in Entries \cup {NoEntry}
          /\ age' \in [Entries -> 0..2]
          /\ sess' \in [Entries -> Chromes \cup {NoChrome}]
          /\ pc' \in [Actors -> PCs]
      BY <1>a, <1>b DEF TypeOK, Actors, PCs, Revive, Touched
    <2>5. /\ alive' \subseteq Chromes
          /\ stopped' \subseteq Chromes
          /\ record' \in [Entries -> SUBSET Chromes]
      BY <1>a, <1>b DEF TypeOK, Revive, freeze
    <2>6. agent' \in BOOLEAN /\ lease' \in Clients \cup {Nobody} /\ overtaken' \in BOOLEAN
      BY <1>a, <1>b DEF TypeOK, Revive, books
    <2> QED BY <2>1, <2>2, <2>3, <2>4, <2>5, <2>6 DEF TypeOK
  <1>2. HoldersHold'
    <2>1. CASE x = "driving"
      BY <1>a, <1>b, <2>1, ActorsDiffer DEF IndInv, TypeOK, Actors, HoldersHold, UsersCurrent,
         Locking, Users, Entry
    <2>2. CASE x = "idle"
      <3>1. holder[Entry(t)] = t
        BY <1>b DEF IndInv, HoldersHold
      <3>2. \A u \in Tasks \ {t} : pc'[u] = pc[u] /\ Entry(u)' = Entry(u)
        BY <1>a, <1>b DEF TypeOK, Entry
      <3>3. pc'[t] \notin Locking /\ holder' = [holder EXCEPT ![Entry(t)] = Nobody]
        BY <1>a, <1>b, <2>2 DEF TypeOK, Actors, Locking
      <3>4. \A u \in Tasks : pc[u] \in Locking => Entry(u) \in Entries
        BY DEF IndInv, UsersCurrent, Actors, Users
      <3>5. ASSUME NEW u \in Tasks, pc'[u] \in Locking PROVE holder'[Entry(u)'] = u
        <4>1. u # t /\ pc[u] \in Locking /\ Entry(u)' = Entry(u)
          BY <3>2, <3>3, <3>5
        <4>2. Entry(u) \in Entries /\ holder[Entry(u)] = u
          BY <4>1, <3>4 DEF IndInv, HoldersHold
        <4>3. Entry(u) # Entry(t)
          BY <4>1, <4>2, <3>1
        <4>4. holder'[Entry(u)] = u
          BY <4>2, <4>3, <3>3 DEF IndInv, TypeOK
        <4> QED BY <4>1, <4>4
      <3>6. ASSUME NEW e \in Entries, holder'[e] # Nobody
            PROVE  holder'[e] \in Tasks /\ pc'[holder'[e]] \in Locking /\ Entry(holder[e])' = e
        <4>1. e # Entry(t) /\ holder'[e] = holder[e]
          BY <3>3, <3>6, <1>b DEF TypeOK
        <4>2. holder[e] \in Tasks /\ pc[holder[e]] \in Locking /\ Entry(holder[e]) = e
          BY <4>1, <3>6 DEF IndInv, HoldersHold
        <4>3. holder[e] # t
          BY <4>1, <4>2
        <4>4. pc'[holder[e]] \in Locking /\ job'[holder[e]].entry = e
          BY <4>2, <4>3, <3>2 DEF Entry
        <4> QED BY <4>1, <4>2, <4>4 DEF Entry
      <3> QED BY <3>5, <3>6 DEF HoldersHold
    <2> QED BY <1>a, <2>1, <2>2
  <1>3. WaitsCounted'
    BY <1>a, <1>b, <1>0 DEF IndInv, WaitsCounted, Revive
  <1>4. UsersCurrent'
    BY <1>a, <1>b DEF IndInv, TypeOK, UsersCurrent, Revive, Locking, Users, Entry
  <1>5. RegistryHeld'
    BY <1>a, <1>b DEF IndInv, RegistryHeld, Revive
  <1>6. AttemptsKnown'
    BY <1>a, <1>b DEF IndInv, TypeOK, AttemptsKnown, Locking
  <1>7. (stopped \subseteq alive)'
    BY <1>a, <1>b DEF IndInv, Revive, freeze
  <1>8. FrozenIsRecorded'
    BY <1>a, <1>b DEF IndInv, FrozenIsRecorded, Revive, freeze
  <1>9. VerbNeverStopped'
    BY <1>a, <1>b, AbsentObjects
       DEF IndInv, TypeOK, VerbNeverStopped, NeverStopped, UsersCurrent, Revive, Page,
           Responds, freeze, Users
  <1> QED BY <1>1, <1>2, <1>3, <1>4, <1>5, <1>6, <1>7, <1>8, <1>9 DEF IndInv

\* The recovery fails.
LEMMA HealFailsKeeps ==
  ASSUME IndInv, NEW t \in Tasks, HealFails(t)
  PROVE  IndInv'
  <1>0. \A e : Waits(e)' = Waits(e)
    BY SameWaits DEF HealFails, Goto, End, Counting, Entry
  <1>1. TypeOK'
    <2>1. job' \in [Actors -> Jobs]
      BY DEF IndInv, TypeOK, Actors, Jobs, Verbs, HealFails, End, NoJob
    <2>2. waiters' \in [Entries -> Seq(Actors)]
      BY DEF IndInv, TypeOK, HealFails
    <2>3. /\ inflight' \in [Entries -> Nat]
          /\ holder' \in [Entries -> Actors \cup {Nobody}]
          /\ mutate' \in Actors \cup {Nobody}
      BY DEF IndInv, TypeOK, HealFails, Unlock
    <2>4. /\ current' \in Entries \cup {NoEntry}
          /\ age' \in [Entries -> 0..2]
          /\ sess' \in [Entries -> Chromes \cup {NoChrome}]
          /\ pc' \in [Actors -> PCs]
      BY DEF IndInv, TypeOK, PCs, HealFails, Goto, End
    <2>5. /\ alive' \subseteq Chromes
          /\ stopped' \subseteq Chromes
          /\ record' \in [Entries -> SUBSET Chromes]
      BY DEF IndInv, TypeOK, HealFails, freeze
    <2>6. agent' \in BOOLEAN /\ lease' \in Clients \cup {Nobody} /\ overtaken' \in BOOLEAN
      BY DEF IndInv, TypeOK, HealFails, books
    <2> QED BY <2>1, <2>2, <2>3, <2>4, <2>5, <2>6 DEF TypeOK
  <1>2. HoldersHold'
    BY DEF IndInv, TypeOK, HoldersHold, HealFails, Goto, End, Unlock, Locking, Entry
  <1>3. WaitsCounted'
    BY <1>0 DEF IndInv, WaitsCounted, HealFails
  <1>4. UsersCurrent'
    BY DEF IndInv, TypeOK, UsersCurrent, HealFails, Goto, End, Locking, Counting, Users,
           Entry
  <1>5. RegistryHeld'
    BY DEF IndInv, RegistryHeld, HealFails, Goto, End
  <1>6. AttemptsKnown'
    BY DEF IndInv, TypeOK, AttemptsKnown, HealFails, Goto, End, Locking
  <1>7. (stopped \subseteq alive)'
    BY DEF IndInv, HealFails, freeze
  <1>8. FrozenIsRecorded'
    BY DEF IndInv, FrozenIsRecorded, HealFails, freeze
  <1>9. VerbNeverStopped'
    BY DEF IndInv, VerbNeverStopped, NeverStopped, HealFails, Goto, End, freeze
  <1> QED BY <1>1, <1>2, <1>3, <1>4, <1>5, <1>6, <1>7, <1>8, <1>9 DEF IndInv

\* The recovery closes the Chrome.
LEMMA RelaunchDownKeeps ==
  ASSUME IndInv, NEW t \in Tasks, RelaunchDown(t)
  PROVE  IndInv'
  <1>0. \A e : Waits(e)' = Waits(e)
    BY SameWaits DEF RelaunchDown, Goto, Counting, Entry
  <1>1. TypeOK'
    <2>1. job' \in [Actors -> Jobs]
      BY JobEdits, JobParts DEF IndInv, TypeOK, RelaunchDown
    <2>2. waiters' \in [Entries -> Seq(Actors)]
      BY ActorsDiffer, AbsentObjects DEF IndInv, TypeOK, Actors, RelaunchDown, Goto, books, locks,
         Entry
    <2>3. /\ inflight' \in [Entries -> Nat]
          /\ holder' \in [Entries -> Actors \cup {Nobody}]
          /\ mutate' \in Actors \cup {Nobody}
      BY ActorsDiffer, AbsentObjects DEF IndInv, TypeOK, Actors, RelaunchDown, Goto, books, locks,
         Entry
    <2>4. /\ current' \in Entries \cup {NoEntry}
          /\ age' \in [Entries -> 0..2]
          /\ sess' \in [Entries -> Chromes \cup {NoChrome}]
          /\ pc' \in [Actors -> PCs]
      BY ActorsDiffer, AbsentObjects DEF IndInv, TypeOK, Actors, PCs, RelaunchDown, Goto, books,
         locks, Entry
    <2>5. /\ alive' \subseteq Chromes
          /\ stopped' \subseteq Chromes
          /\ record' \in [Entries -> SUBSET Chromes]
      BY ActorsDiffer, AbsentObjects DEF IndInv, TypeOK, Actors, RelaunchDown, Goto, books, locks,
         Entry
    <2>6. agent' \in BOOLEAN /\ lease' \in Clients \cup {Nobody} /\ overtaken' \in BOOLEAN
      BY ActorsDiffer, AbsentObjects DEF IndInv, TypeOK, Actors, RelaunchDown, Goto, books, locks,
         Entry
    <2> QED BY <2>1, <2>2, <2>3, <2>4, <2>5, <2>6 DEF TypeOK
  <1>2. HoldersHold'
    BY DEF IndInv, HoldersHold, RelaunchDown, Goto, locks, Locking, Entry
  <1>3. WaitsCounted'
    BY <1>0 DEF IndInv, WaitsCounted, RelaunchDown, locks
  <1>4. UsersCurrent'
    BY DEF IndInv, UsersCurrent, RelaunchDown, Goto, Locking, Users, Entry
  <1>5. RegistryHeld'
    BY DEF IndInv, RegistryHeld, RelaunchDown, Goto
  <1>6. AttemptsKnown'
    BY DEF IndInv, AttemptsKnown, RelaunchDown, Goto, Locking
  <1>7. (stopped \subseteq alive)'
    BY DEF IndInv, TypeOK, RelaunchDown, Goto, locks, books, Entry
  <1>8. FrozenIsRecorded'
    BY DEF IndInv, FrozenIsRecorded, RelaunchDown
  <1>9. VerbNeverStopped'
    BY DEF IndInv, VerbNeverStopped, NeverStopped, RelaunchDown, Goto
  <1> QED BY <1>1, <1>2, <1>3, <1>4, <1>5, <1>6, <1>7, <1>8, <1>9 DEF IndInv

\* The recovery launched another.
LEMMA RelaunchUpKeeps ==
  ASSUME IndInv, NEW t \in Tasks, RelaunchUp(t)
  PROVE  IndInv'
  <1>c. PICK c \in Chromes : /\ FreshChrome(c) /\ alive' = {c}
                              /\ sess' = [sess EXCEPT ![current] = c] /\ RetryOrReport(t, c)
    BY DEF RelaunchUp
  <1>a. PICK x \in {"driving", "idle"}, j \in Jobs :
        /\ pc' = [pc EXCEPT ![t] = x] /\ job' = [job EXCEPT ![t] = j]
        /\ x = "driving" =>
             /\ j.verb \in RetrySafe /\ j.retried /\ j.page = c
             /\ j.entry = Entry(t) /\ j.applied = job[t].applied
             /\ holder' = holder
        /\ x = "idle" => holder' = [holder EXCEPT ![Entry(t)] = Nobody]
    BY <1>c, Retries DEF IndInv, RelaunchUp, Locking
  <1>b. pc[t] \in Locking /\ pc[t] \notin Counting /\ x \notin Counting /\ TypeOK
    BY <1>a DEF RelaunchUp, IndInv, Locking, Counting
  <1>0. \A e : Waits(e)' = Waits(e)
    BY <1>a, <1>b, SameWaits DEF TypeOK, Actors, Entry
  <1>1. TypeOK'
    <2>1. job' \in [Actors -> Jobs]
      BY <1>a, <1>b, <1>c DEF TypeOK
    <2>2. waiters' \in [Entries -> Seq(Actors)]
      BY <1>a, <1>b, <1>c DEF TypeOK, RelaunchUp
    <2>3. /\ inflight' \in [Entries -> Nat]
          /\ holder' \in [Entries -> Actors \cup {Nobody}]
          /\ mutate' \in Actors \cup {Nobody}
      BY <1>a, <1>b, <1>c, ActorsDiffer, AbsentObjects, ZenonT(30) DEF IndInv, TypeOK, Actors, RelaunchUp,
         FreshChrome, Goto, End, Touched, Unlock, books, NoJob, Entry
    <2>4. /\ current' \in Entries \cup {NoEntry}
          /\ age' \in [Entries -> 0..2]
          /\ sess' \in [Entries -> Chromes \cup {NoChrome}]
          /\ pc' \in [Actors -> PCs]
      BY <1>a, <1>c, Stamps DEF IndInv, TypeOK, RelaunchUp, PCs
    <2>5. /\ alive' \subseteq Chromes
          /\ stopped' \subseteq Chromes
          /\ record' \in [Entries -> SUBSET Chromes]
      BY <1>a, <1>b, <1>c DEF TypeOK, RelaunchUp
    <2>6. agent' \in BOOLEAN /\ lease' \in Clients \cup {Nobody} /\ overtaken' \in BOOLEAN
      BY <1>a, <1>b, <1>c DEF TypeOK, RelaunchUp, books
    <2> QED BY <2>1, <2>2, <2>3, <2>4, <2>5, <2>6 DEF TypeOK
  <1>2. HoldersHold'
    <2>1. CASE x = "driving"
      BY <1>a, <1>b, <2>1, ActorsDiffer DEF IndInv, TypeOK, Actors, HoldersHold, UsersCurrent,
         Locking, Users, Entry
    <2>2. CASE x = "idle"
      <3>1. holder[Entry(t)] = t
        BY <1>b DEF IndInv, HoldersHold
      <3>2. \A u \in Tasks \ {t} : pc'[u] = pc[u] /\ Entry(u)' = Entry(u)
        BY <1>a, <1>b DEF TypeOK, Entry
      <3>3. pc'[t] \notin Locking /\ holder' = [holder EXCEPT ![Entry(t)] = Nobody]
        BY <1>a, <1>b, <2>2 DEF TypeOK, Actors, Locking
      <3>4. \A u \in Tasks : pc[u] \in Locking => Entry(u) \in Entries
        BY DEF IndInv, UsersCurrent, Actors, Users
      <3>5. ASSUME NEW u \in Tasks, pc'[u] \in Locking PROVE holder'[Entry(u)'] = u
        <4>1. u # t /\ pc[u] \in Locking /\ Entry(u)' = Entry(u)
          BY <3>2, <3>3, <3>5
        <4>2. Entry(u) \in Entries /\ holder[Entry(u)] = u
          BY <4>1, <3>4 DEF IndInv, HoldersHold
        <4>3. Entry(u) # Entry(t)
          BY <4>1, <4>2, <3>1
        <4>4. holder'[Entry(u)] = u
          BY <4>2, <4>3, <3>3 DEF IndInv, TypeOK
        <4> QED BY <4>1, <4>4
      <3>6. ASSUME NEW e \in Entries, holder'[e] # Nobody
            PROVE  holder'[e] \in Tasks /\ pc'[holder'[e]] \in Locking /\ Entry(holder[e])' = e
        <4>1. e # Entry(t) /\ holder'[e] = holder[e]
          BY <3>3, <3>6, <1>b DEF TypeOK
        <4>2. holder[e] \in Tasks /\ pc[holder[e]] \in Locking /\ Entry(holder[e]) = e
          BY <4>1, <3>6 DEF IndInv, HoldersHold
        <4>3. holder[e] # t
          BY <4>1, <4>2
        <4>4. pc'[holder[e]] \in Locking /\ job'[holder[e]].entry = e
          BY <4>2, <4>3, <3>2 DEF Entry
        <4> QED BY <4>1, <4>2, <4>4 DEF Entry
      <3> QED BY <3>5, <3>6 DEF HoldersHold
    <2> QED BY <1>a, <2>1, <2>2
  <1>3. WaitsCounted'
    BY <1>a, <1>b, <1>c, <1>0 DEF IndInv, WaitsCounted, RelaunchUp
  <1>4. UsersCurrent'
    BY <1>a, <1>b, <1>c DEF IndInv, TypeOK, UsersCurrent, RelaunchUp, Locking, Users, Entry
  <1>5. RegistryHeld'
    BY <1>a, <1>b, <1>c DEF IndInv, RegistryHeld, RelaunchUp
  <1>6. AttemptsKnown'
    BY <1>a, <1>b, <1>c DEF IndInv, TypeOK, AttemptsKnown, Locking
  <1>7. (stopped \subseteq alive)'
    BY <1>a, <1>b, <1>c DEF IndInv, RelaunchUp
  <1>8. FrozenIsRecorded'
    BY <1>a, <1>b, <1>c DEF IndInv, FrozenIsRecorded, RelaunchUp
  <1>9. VerbNeverStopped'
    BY <1>a, <1>b, <1>c DEF IndInv, VerbNeverStopped, NeverStopped, RelaunchUp
  <1> QED BY <1>1, <1>2, <1>3, <1>4, <1>5, <1>6, <1>7, <1>8, <1>9 DEF IndInv

\* A page wait arrives and is counted.
LEMMA WaitBeginsKeeps ==
  ASSUME IndInv, NEW t \in Tasks, WaitBegins(t)
  PROVE  IndInv'
  <1>a. /\ pc[t] = "idle" /\ current \in Entries
        /\ pc'[t] \in Counting /\ Entry(t)' = current
        /\ \A u \in Tasks \ {t} : pc'[u] = pc[u] /\ Entry(u)' = Entry(u)
    BY DEF IndInv, TypeOK, Actors, WaitBegins, WaitArrives, Goto, Entry, Counting, NoJob
  <1>b. \A e : /\ e = current => t \notin Waits(e) /\ Waits(e)' = Waits(e) \cup {t}
               /\ e # current => Waits(e)' = Waits(e)
    BY <1>a DEF Waits, Counting
  <1>0. \A e : /\ e = current => Cardinality(Waits(e)') = Cardinality(Waits(e)) + 1
               /\ e # current => Waits(e)' = Waits(e)
    BY <1>b, OneMore
  <1>1. TypeOK'
    <2>1. job' \in [Actors -> Jobs]
      BY JobEdits, JobParts DEF IndInv, TypeOK, WaitBegins, WaitArrives
    <2>2. waiters' \in [Entries -> Seq(Actors)]
      BY DEF IndInv, TypeOK, WaitBegins
    <2>3. /\ inflight' \in [Entries -> Nat]
          /\ holder' \in [Entries -> Actors \cup {Nobody}]
          /\ mutate' \in Actors \cup {Nobody}
      BY DEF IndInv, TypeOK, WaitBegins, WaitArrives
    <2>4. /\ current' \in Entries \cup {NoEntry}
          /\ age' \in [Entries -> 0..2]
          /\ sess' \in [Entries -> Chromes \cup {NoChrome}]
          /\ pc' \in [Actors -> PCs]
      BY DEF IndInv, TypeOK, Actors, PCs, WaitBegins, WaitArrives, Goto, Touched
    <2>5. /\ alive' \subseteq Chromes
          /\ stopped' \subseteq Chromes
          /\ record' \in [Entries -> SUBSET Chromes]
      BY DEF IndInv, TypeOK, WaitBegins, WaitArrives, Lift
    <2>6. agent' \in BOOLEAN /\ lease' \in Clients \cup {Nobody} /\ overtaken' \in BOOLEAN
      BY DEF IndInv, TypeOK, WaitBegins, WaitArrives, books
    <2> QED BY <2>1, <2>2, <2>3, <2>4, <2>5, <2>6 DEF TypeOK
  <1>2. HoldersHold'
    BY DEF IndInv, HoldersHold, WaitBegins, WaitArrives, Goto, Locking, Entry
  <1>3. WaitsCounted'
    BY <1>0 DEF IndInv, TypeOK, WaitsCounted, WaitBegins, WaitArrives
  <1>4. UsersCurrent'
    BY DEF IndInv, TypeOK, UsersCurrent, WaitBegins, WaitArrives, Goto, Entry
  <1>5. RegistryHeld'
    BY DEF IndInv, RegistryHeld, WaitBegins, WaitArrives, Goto
  <1>6. AttemptsKnown'
    BY DEF IndInv, AttemptsKnown, WaitBegins, WaitArrives, Goto, Locking
  <1>7. (stopped \subseteq alive)'
    BY DEF IndInv, WaitBegins, WaitArrives, Lift
  <1>8. FrozenIsRecorded'
    BY DEF IndInv, FrozenIsRecorded, WaitBegins, WaitArrives, Lift
  <1>9. VerbNeverStopped'
    BY DEF IndInv, VerbNeverStopped, NeverStopped, FrozenIsRecorded, WaitBegins,
           WaitArrives, Lift
  <1> QED BY <1>1, <1>2, <1>3, <1>4, <1>5, <1>6, <1>7, <1>8, <1>9 DEF IndInv

\* It has to wait for the lock first.
LEMMA WaitQueuesKeeps ==
  ASSUME IndInv, NEW t \in Tasks, WaitQueues(t)
  PROVE  IndInv'
  <1>a. /\ pc[t] = "idle" /\ current \in Entries
        /\ pc'[t] \in Counting /\ Entry(t)' = current
        /\ \A u \in Tasks \ {t} : pc'[u] = pc[u] /\ Entry(u)' = Entry(u)
    BY DEF IndInv, TypeOK, Actors, WaitQueues, WaitArrives, Goto, Entry, Counting, NoJob
  <1>b. \A e : /\ e = current => t \notin Waits(e) /\ Waits(e)' = Waits(e) \cup {t}
               /\ e # current => Waits(e)' = Waits(e)
    BY <1>a DEF Waits, Counting
  <1>0. \A e : /\ e = current => Cardinality(Waits(e)') = Cardinality(Waits(e)) + 1
               /\ e # current => Waits(e)' = Waits(e)
    BY <1>b, OneMore
  <1>1. TypeOK'
    <2>1. job' \in [Actors -> Jobs]
      BY JobEdits, JobParts DEF IndInv, TypeOK, WaitQueues, WaitArrives
    <2>2. waiters' \in [Entries -> Seq(Actors)]
      BY Joins, AbsentObjects DEF IndInv, Actors
    <2>3. /\ inflight' \in [Entries -> Nat]
          /\ holder' \in [Entries -> Actors \cup {Nobody}]
          /\ mutate' \in Actors \cup {Nobody}
      BY DEF IndInv, TypeOK, WaitQueues, WaitArrives
    <2>4. /\ current' \in Entries \cup {NoEntry}
          /\ age' \in [Entries -> 0..2]
          /\ sess' \in [Entries -> Chromes \cup {NoChrome}]
          /\ pc' \in [Actors -> PCs]
      BY DEF IndInv, TypeOK, Actors, PCs, WaitQueues, WaitArrives, Goto, Touched
    <2>5. /\ alive' \subseteq Chromes
          /\ stopped' \subseteq Chromes
          /\ record' \in [Entries -> SUBSET Chromes]
      BY DEF IndInv, TypeOK, WaitQueues, WaitArrives, freeze
    <2>6. agent' \in BOOLEAN /\ lease' \in Clients \cup {Nobody} /\ overtaken' \in BOOLEAN
      BY DEF IndInv, TypeOK, WaitQueues, WaitArrives, books
    <2> QED BY <2>1, <2>2, <2>3, <2>4, <2>5, <2>6 DEF TypeOK
  <1>2. HoldersHold'
    BY DEF IndInv, HoldersHold, WaitQueues, WaitArrives, Goto, Locking, Entry
  <1>3. WaitsCounted'
    BY <1>0 DEF IndInv, TypeOK, WaitsCounted, WaitQueues, WaitArrives
  <1>4. UsersCurrent'
    BY DEF IndInv, TypeOK, UsersCurrent, WaitQueues, WaitArrives, Goto, Entry
  <1>5. RegistryHeld'
    BY DEF IndInv, RegistryHeld, WaitQueues, WaitArrives, Goto
  <1>6. AttemptsKnown'
    BY DEF IndInv, AttemptsKnown, WaitQueues, WaitArrives, Goto, Locking
  <1>7. (stopped \subseteq alive)'
    BY DEF IndInv, WaitQueues, WaitArrives, freeze
  <1>8. FrozenIsRecorded'
    BY DEF IndInv, FrozenIsRecorded, WaitQueues, WaitArrives, freeze
  <1>9. VerbNeverStopped'
    BY DEF IndInv, VerbNeverStopped, NeverStopped, WaitQueues, WaitArrives, Goto, freeze
  <1> QED BY <1>1, <1>2, <1>3, <1>4, <1>5, <1>6, <1>7, <1>8, <1>9 DEF IndInv

\* It thawed the session.
LEMMA WaitThawedKeeps ==
  ASSUME IndInv, NEW t \in Tasks, WaitThawed(t)
  PROVE  IndInv'
  <1>0. \A e : Waits(e)' = Waits(e)
    BY DEF IndInv, TypeOK, Actors, WaitThawed, Goto, Entry, Counting, Waits
  <1>1. TypeOK'
    <2>1. job' \in [Actors -> Jobs]
      BY JobEdits, JobParts DEF IndInv, TypeOK, WaitThawed
    <2>2. waiters' \in [Entries -> Seq(Actors)]
      BY Leaves DEF IndInv, WaitThawed
    <2>3. /\ inflight' \in [Entries -> Nat]
          /\ holder' \in [Entries -> Actors \cup {Nobody}]
          /\ mutate' \in Actors \cup {Nobody}
      BY DEF IndInv, TypeOK, WaitThawed
    <2>4. /\ current' \in Entries \cup {NoEntry}
          /\ age' \in [Entries -> 0..2]
          /\ sess' \in [Entries -> Chromes \cup {NoChrome}]
          /\ pc' \in [Actors -> PCs]
      BY DEF IndInv, TypeOK, Actors, PCs, WaitThawed, Goto, Touched
    <2>5. /\ alive' \subseteq Chromes
          /\ stopped' \subseteq Chromes
          /\ record' \in [Entries -> SUBSET Chromes]
      BY DEF IndInv, TypeOK, WaitThawed, Lift
    <2>6. agent' \in BOOLEAN /\ lease' \in Clients \cup {Nobody} /\ overtaken' \in BOOLEAN
      BY DEF IndInv, TypeOK, WaitThawed, books
    <2> QED BY <2>1, <2>2, <2>3, <2>4, <2>5, <2>6 DEF TypeOK
  <1>2. HoldersHold'
    BY DEF IndInv, HoldersHold, WaitThawed, Goto, Locking, Entry
  <1>3. WaitsCounted'
    BY <1>0 DEF IndInv, WaitsCounted, WaitThawed
  <1>4. UsersCurrent'
    BY DEF IndInv, UsersCurrent, WaitThawed, Goto, Counting, Users, Entry
  <1>5. RegistryHeld'
    BY DEF IndInv, RegistryHeld, WaitThawed, Goto
  <1>6. AttemptsKnown'
    BY DEF IndInv, AttemptsKnown, WaitThawed, Goto, Locking
  <1>7. (stopped \subseteq alive)'
    BY DEF IndInv, WaitThawed, Lift
  <1>8. FrozenIsRecorded'
    BY DEF IndInv, FrozenIsRecorded, WaitThawed, Lift
  <1>9. VerbNeverStopped'
    BY DEF IndInv, Actors, VerbNeverStopped, NeverStopped, FrozenIsRecorded, UsersCurrent,
           WaitThawed, Lift, Counting, Users
  <1> QED BY <1>1, <1>2, <1>3, <1>4, <1>5, <1>6, <1>7, <1>8, <1>9 DEF IndInv

\* It ends and is no longer counted.
LEMMA WaitEndsKeeps ==
  ASSUME IndInv, NEW t \in Tasks, WaitEnds(t)
  PROVE  IndInv'
  <1>a. /\ Entry(t) \in Entries /\ pc[t] \in Counting /\ pc'[t] \notin Counting
        /\ \A u \in Tasks \ {t} : pc'[u] = pc[u] /\ Entry(u)' = Entry(u)
    BY DEF IndInv, TypeOK, Actors, UsersCurrent, WaitEnds, Goto, End, Entry, Counting, Users
  <1>b. t \in Waits(Entry(t)) /\ (\A e : e = Entry(t) => Waits(e)' = Waits(e) \ {t})
        /\ \A e : e # Entry(t) => Waits(e)' = Waits(e)
    BY <1>a DEF Waits
  <1>0. \A e : /\ e = Entry(t) => /\ Cardinality(Waits(e)') = Cardinality(Waits(e)) - 1
                                 /\ Cardinality(Waits(e)) # 0
               /\ e # Entry(t) => Waits(e)' = Waits(e)
    BY <1>b, OneLess
  <1>1. TypeOK'
    <2>1. job' \in [Actors -> Jobs]
      BY DEF IndInv, TypeOK, Actors, Jobs, Verbs, WaitEnds, End, NoJob
    <2>2. waiters' \in [Entries -> Seq(Actors)]
      BY DEF IndInv, TypeOK, WaitEnds
    <2>3. /\ inflight' \in [Entries -> Nat]
          /\ holder' \in [Entries -> Actors \cup {Nobody}]
          /\ mutate' \in Actors \cup {Nobody}
      <3>1. inflight[Entry(t)] # 0 /\ inflight[Entry(t)] \in Nat
        BY <1>0, <1>a DEF IndInv, TypeOK, WaitsCounted
      <3>2. /\ inflight' = [inflight EXCEPT ![Entry(t)] = @ - 1]
            /\ holder' = holder
            /\ mutate' = mutate
        BY DEF WaitEnds
      <3>3. inflight[Entry(t)] - 1 \in Nat
        BY <3>1
      <3> QED BY <3>2, <3>3 DEF IndInv, TypeOK
    <2>4. /\ current' \in Entries \cup {NoEntry}
          /\ age' \in [Entries -> 0..2]
          /\ sess' \in [Entries -> Chromes \cup {NoChrome}]
          /\ pc' \in [Actors -> PCs]
      <3>1. pc' \in [Actors -> PCs]
        BY DEF IndInv, TypeOK, PCs, WaitEnds, Goto, End
      <3>2. age' \in [Entries -> 0..2]
        BY Stamps DEF IndInv, TypeOK, WaitEnds
      <3> QED BY <3>1, <3>2 DEF IndInv, TypeOK, WaitEnds
    <2>5. /\ alive' \subseteq Chromes
          /\ stopped' \subseteq Chromes
          /\ record' \in [Entries -> SUBSET Chromes]
      BY DEF IndInv, TypeOK, WaitEnds, freeze
    <2>6. agent' \in BOOLEAN /\ lease' \in Clients \cup {Nobody} /\ overtaken' \in BOOLEAN
      BY DEF IndInv, TypeOK, WaitEnds, books
    <2> QED BY <2>1, <2>2, <2>3, <2>4, <2>5, <2>6 DEF TypeOK
  <1>2. HoldersHold'
    BY DEF IndInv, HoldersHold, WaitEnds, Goto, End, Locking, Entry
  <1>3. WaitsCounted'
    BY <1>0 DEF IndInv, TypeOK, WaitsCounted, WaitEnds
  <1>4. UsersCurrent'
    BY DEF IndInv, TypeOK, UsersCurrent, WaitEnds, Goto, End, Locking, Counting, Users,
           Entry
  <1>5. RegistryHeld'
    BY DEF IndInv, RegistryHeld, WaitEnds, Goto, End
  <1>6. AttemptsKnown'
    BY DEF IndInv, AttemptsKnown, WaitEnds, Goto, End, Locking
  <1>7. (stopped \subseteq alive)'
    BY DEF IndInv, WaitEnds, freeze
  <1>8. FrozenIsRecorded'
    BY DEF IndInv, FrozenIsRecorded, WaitEnds, freeze
  <1>9. VerbNeverStopped'
    BY DEF IndInv, TypeOK, VerbNeverStopped, NeverStopped, WaitEnds, Goto, End, freeze
  <1> QED BY <1>1, <1>2, <1>3, <1>4, <1>5, <1>6, <1>7, <1>8, <1>9 DEF IndInv

\* A goal saves a checkpoint.
LEMMA CheckpointBeginsKeeps ==
  ASSUME IndInv, NEW t \in Tasks, CheckpointBegins(t)
  PROVE  IndInv'
  <1>0. \A e : Waits(e)' = Waits(e)
    BY SameWaits DEF CheckpointBegins, Goto, Counting, Entry
  <1>1. TypeOK'
    <2>1. job' \in [Actors -> Jobs]
      BY JobEdits, JobParts DEF IndInv, TypeOK, CheckpointBegins
    <2>2. waiters' \in [Entries -> Seq(Actors)]
      BY DEF IndInv, TypeOK, CheckpointBegins, locks
    <2>3. /\ inflight' \in [Entries -> Nat]
          /\ holder' \in [Entries -> Actors \cup {Nobody}]
          /\ mutate' \in Actors \cup {Nobody}
      BY DEF IndInv, TypeOK, CheckpointBegins, locks
    <2>4. /\ current' \in Entries \cup {NoEntry}
          /\ age' \in [Entries -> 0..2]
          /\ sess' \in [Entries -> Chromes \cup {NoChrome}]
          /\ pc' \in [Actors -> PCs]
      BY DEF IndInv, TypeOK, Actors, PCs, CheckpointBegins, Goto, Touched
    <2>5. /\ alive' \subseteq Chromes
          /\ stopped' \subseteq Chromes
          /\ record' \in [Entries -> SUBSET Chromes]
      BY DEF IndInv, TypeOK, CheckpointBegins, freeze
    <2>6. agent' \in BOOLEAN /\ lease' \in Clients \cup {Nobody} /\ overtaken' \in BOOLEAN
      BY DEF IndInv, TypeOK, CheckpointBegins, books
    <2> QED BY <2>1, <2>2, <2>3, <2>4, <2>5, <2>6 DEF TypeOK
  <1>2. HoldersHold'
    BY DEF IndInv, HoldersHold, CheckpointBegins, Goto, locks, Locking, Entry
  <1>3. WaitsCounted'
    BY <1>0 DEF IndInv, WaitsCounted, CheckpointBegins, locks
  <1>4. UsersCurrent'
    BY DEF IndInv, UsersCurrent, CheckpointBegins, Goto, Locking, Counting, Users, Entry
  <1>5. RegistryHeld'
    BY DEF IndInv, RegistryHeld, CheckpointBegins, Goto
  <1>6. AttemptsKnown'
    BY DEF IndInv, AttemptsKnown, CheckpointBegins, Goto, Locking
  <1>7. (stopped \subseteq alive)'
    BY DEF IndInv, CheckpointBegins, freeze
  <1>8. FrozenIsRecorded'
    BY DEF IndInv, FrozenIsRecorded, CheckpointBegins, freeze
  <1>9. VerbNeverStopped'
    BY DEF IndInv, VerbNeverStopped, NeverStopped, CheckpointBegins, Goto, freeze
  <1> QED BY <1>1, <1>2, <1>3, <1>4, <1>5, <1>6, <1>7, <1>8, <1>9 DEF IndInv

\* It saved it.
LEMMA CheckpointEndsKeeps ==
  ASSUME IndInv, NEW t \in Tasks, CheckpointEnds(t)
  PROVE  IndInv'
  <1>0. \A e : Waits(e)' = Waits(e)
    BY SameWaits DEF CheckpointEnds, Goto, End, Counting, Entry
  <1>1. TypeOK'
    <2>1. job' \in [Actors -> Jobs]
      BY DEF IndInv, TypeOK, Actors, Jobs, Verbs, CheckpointEnds, End, NoJob
    <2>2. waiters' \in [Entries -> Seq(Actors)]
      BY DEF IndInv, TypeOK, CheckpointEnds, locks
    <2>3. /\ inflight' \in [Entries -> Nat]
          /\ holder' \in [Entries -> Actors \cup {Nobody}]
          /\ mutate' \in Actors \cup {Nobody}
      BY DEF IndInv, TypeOK, CheckpointEnds, locks
    <2>4. /\ current' \in Entries \cup {NoEntry}
          /\ age' \in [Entries -> 0..2]
          /\ sess' \in [Entries -> Chromes \cup {NoChrome}]
          /\ pc' \in [Actors -> PCs]
      BY DEF IndInv, TypeOK, PCs, CheckpointEnds, Goto, End
    <2>5. /\ alive' \subseteq Chromes
          /\ stopped' \subseteq Chromes
          /\ record' \in [Entries -> SUBSET Chromes]
      BY DEF IndInv, TypeOK, CheckpointEnds, freeze
    <2>6. agent' \in BOOLEAN /\ lease' \in Clients \cup {Nobody} /\ overtaken' \in BOOLEAN
      BY DEF IndInv, TypeOK, CheckpointEnds, books
    <2> QED BY <2>1, <2>2, <2>3, <2>4, <2>5, <2>6 DEF TypeOK
  <1>2. HoldersHold'
    BY DEF IndInv, HoldersHold, CheckpointEnds, Goto, End, locks, Locking, Entry
  <1>3. WaitsCounted'
    BY <1>0 DEF IndInv, WaitsCounted, CheckpointEnds, locks
  <1>4. UsersCurrent'
    BY DEF IndInv, UsersCurrent, CheckpointEnds, Goto, End, Locking, Counting, Users, Entry
  <1>5. RegistryHeld'
    BY DEF IndInv, RegistryHeld, CheckpointEnds, Goto, End
  <1>6. AttemptsKnown'
    BY DEF IndInv, AttemptsKnown, CheckpointEnds, Goto, End, Locking
  <1>7. (stopped \subseteq alive)'
    BY DEF IndInv, CheckpointEnds, freeze
  <1>8. FrozenIsRecorded'
    BY DEF IndInv, FrozenIsRecorded, CheckpointEnds, freeze
  <1>9. VerbNeverStopped'
    BY DEF IndInv, VerbNeverStopped, NeverStopped, CheckpointEnds, Goto, End, freeze
  <1> QED BY <1>1, <1>2, <1>3, <1>4, <1>5, <1>6, <1>7, <1>8, <1>9 DEF IndInv

\* A close arrives.
LEMMA CloseArriveKeeps ==
  ASSUME IndInv, NEW t \in Tasks, NEW c \in Clients, CloseArrive(t, c)
  PROVE  IndInv'
  <1>0. \A e : Waits(e)' = Waits(e)
    BY SameWaits DEF CloseArrive, Goto, Counting, Entry
  <1>1. TypeOK'
    <2>1. job' \in [Actors -> Jobs]
      BY JobEdits, JobParts DEF IndInv, TypeOK, CloseArrive
    <2>2. waiters' \in [Entries -> Seq(Actors)]
      BY DEF IndInv, TypeOK, CloseArrive, locks
    <2>3. /\ inflight' \in [Entries -> Nat]
          /\ holder' \in [Entries -> Actors \cup {Nobody}]
          /\ mutate' \in Actors \cup {Nobody}
      BY DEF IndInv, TypeOK, CloseArrive, locks
    <2>4. /\ current' \in Entries \cup {NoEntry}
          /\ age' \in [Entries -> 0..2]
          /\ sess' \in [Entries -> Chromes \cup {NoChrome}]
          /\ pc' \in [Actors -> PCs]
      BY DEF IndInv, TypeOK, Actors, PCs, CloseArrive, Goto, Touched
    <2>5. /\ alive' \subseteq Chromes
          /\ stopped' \subseteq Chromes
          /\ record' \in [Entries -> SUBSET Chromes]
      BY DEF IndInv, TypeOK, CloseArrive, freeze
    <2>6. agent' \in BOOLEAN /\ lease' \in Clients \cup {Nobody} /\ overtaken' \in BOOLEAN
      BY DEF IndInv, TypeOK, CloseArrive, books
    <2> QED BY <2>1, <2>2, <2>3, <2>4, <2>5, <2>6 DEF TypeOK
  <1>2. HoldersHold'
    BY DEF IndInv, HoldersHold, CloseArrive, Goto, locks, Locking, Entry
  <1>3. WaitsCounted'
    BY <1>0 DEF IndInv, WaitsCounted, CloseArrive, locks
  <1>4. UsersCurrent'
    BY DEF IndInv, UsersCurrent, CloseArrive, Goto, Locking, Counting, Users, Entry
  <1>5. RegistryHeld'
    BY DEF IndInv, RegistryHeld, CloseArrive, Goto
  <1>6. AttemptsKnown'
    BY DEF IndInv, AttemptsKnown, CloseArrive, Goto, Locking
  <1>7. (stopped \subseteq alive)'
    BY DEF IndInv, CloseArrive, freeze
  <1>8. FrozenIsRecorded'
    BY DEF IndInv, FrozenIsRecorded, CloseArrive, freeze
  <1>9. VerbNeverStopped'
    BY DEF IndInv, VerbNeverStopped, NeverStopped, CloseArrive, Goto, freeze
  <1> QED BY <1>1, <1>2, <1>3, <1>4, <1>5, <1>6, <1>7, <1>8, <1>9 DEF IndInv

\* A close takes the session out of the registry.
LEMMA PopKeeps ==
  ASSUME IndInv, NEW t \in Actors, pc[t] = "closeQueued", mutate = Nobody, current # NoEntry, PopSession(t), UNCHANGED <<sess, alive, age, locks>>
  PROVE  IndInv'
  <1>0. \A e : Waits(e)' = Waits(e)
    BY SameWaits DEF PopSession, Goto, Counting, Entry
  <1>1. TypeOK'
    <2>1. job' \in [Actors -> Jobs]
      BY JobEdits, JobParts DEF IndInv, TypeOK, PopSession
    <2>2. waiters' \in [Entries -> Seq(Actors)]
      BY ActorsDiffer, AbsentObjects DEF IndInv, TypeOK, Actors, PopSession, Goto, Lift, locks,
         Entry
    <2>3. /\ inflight' \in [Entries -> Nat]
          /\ holder' \in [Entries -> Actors \cup {Nobody}]
          /\ mutate' \in Actors \cup {Nobody}
      BY ActorsDiffer, AbsentObjects DEF IndInv, TypeOK, Actors, PopSession, Goto, Lift, locks,
         Entry
    <2>4. /\ current' \in Entries \cup {NoEntry}
          /\ age' \in [Entries -> 0..2]
          /\ sess' \in [Entries -> Chromes \cup {NoChrome}]
          /\ pc' \in [Actors -> PCs]
      BY ActorsDiffer, AbsentObjects DEF IndInv, TypeOK, Actors, PCs, PopSession, Goto, Lift,
         locks, Entry
    <2>5. /\ alive' \subseteq Chromes
          /\ stopped' \subseteq Chromes
          /\ record' \in [Entries -> SUBSET Chromes]
      BY ActorsDiffer, AbsentObjects DEF IndInv, TypeOK, Actors, PopSession, Goto, Lift, locks,
         Entry
    <2>6. agent' \in BOOLEAN /\ lease' \in Clients \cup {Nobody} /\ overtaken' \in BOOLEAN
      BY ActorsDiffer, AbsentObjects DEF IndInv, TypeOK, Actors, PopSession, Goto, Lift, locks,
         Entry
    <2> QED BY <2>1, <2>2, <2>3, <2>4, <2>5, <2>6 DEF TypeOK
  <1>2. HoldersHold'
    BY DEF IndInv, HoldersHold, PopSession, Goto, locks, Locking, Entry
  <1>3. WaitsCounted'
    BY <1>0 DEF IndInv, WaitsCounted, locks
  <1>4. UsersCurrent'
    BY DEF IndInv, TypeOK, UsersCurrent, Using, PopSession, Goto, Locking, Counting, Users,
           Entry
  <1>5. RegistryHeld'
    BY ActorsDiffer DEF IndInv, Actors, RegistryHeld, PopSession, Goto
  <1>6. AttemptsKnown'
    BY DEF IndInv, AttemptsKnown, PopSession, Goto, Locking
  <1>7. (stopped \subseteq alive)'
    BY DEF IndInv, TypeOK, PopSession, Goto, Lift, locks, Entry
  <1>8. FrozenIsRecorded'
    BY DEF IndInv, FrozenIsRecorded, PopSession, Lift
  <1>9. VerbNeverStopped'
    BY DEF IndInv, TypeOK, VerbNeverStopped, NeverStopped, PopSession, Goto, Lift
  <1> QED BY <1>1, <1>2, <1>3, <1>4, <1>5, <1>6, <1>7, <1>8, <1>9 DEF IndInv

\* A close finds nothing to close.
LEMMA GiveUpKeeps ==
  ASSUME IndInv, NEW t \in Actors, pc[t] = "closeQueued", End(t), UNCHANGED <<current, sess, alive, freeze, age, books, locks, mutate, overtaken>>
  PROVE  IndInv'
  <1>0. \A e : Waits(e)' = Waits(e)
    BY SameWaits DEF Goto, End, Counting, Entry
  <1>1. TypeOK'
    <2>1. job' \in [Actors -> Jobs]
      BY DEF IndInv, TypeOK, Jobs, Verbs, End, NoJob
    <2>2. waiters' \in [Entries -> Seq(Actors)]
      BY DEF IndInv, TypeOK, locks
    <2>3. /\ inflight' \in [Entries -> Nat]
          /\ holder' \in [Entries -> Actors \cup {Nobody}]
          /\ mutate' \in Actors \cup {Nobody}
      BY DEF IndInv, TypeOK, locks
    <2>4. /\ current' \in Entries \cup {NoEntry}
          /\ age' \in [Entries -> 0..2]
          /\ sess' \in [Entries -> Chromes \cup {NoChrome}]
          /\ pc' \in [Actors -> PCs]
      BY DEF IndInv, TypeOK, PCs, Goto, End
    <2>5. /\ alive' \subseteq Chromes
          /\ stopped' \subseteq Chromes
          /\ record' \in [Entries -> SUBSET Chromes]
      BY DEF IndInv, TypeOK, freeze
    <2>6. agent' \in BOOLEAN /\ lease' \in Clients \cup {Nobody} /\ overtaken' \in BOOLEAN
      BY DEF IndInv, TypeOK, books
    <2> QED BY <2>1, <2>2, <2>3, <2>4, <2>5, <2>6 DEF TypeOK
  <1>2. HoldersHold'
    BY DEF IndInv, HoldersHold, Goto, End, locks, Locking, Entry
  <1>3. WaitsCounted'
    BY <1>0 DEF IndInv, WaitsCounted, locks
  <1>4. UsersCurrent'
    BY DEF IndInv, UsersCurrent, Goto, End, Locking, Counting, Users, Entry
  <1>5. RegistryHeld'
    BY DEF IndInv, RegistryHeld, Goto, End
  <1>6. AttemptsKnown'
    BY DEF IndInv, AttemptsKnown, Goto, End, Locking
  <1>7. (stopped \subseteq alive)'
    BY DEF IndInv, TypeOK, Goto, End, locks, freeze, books, NoJob, Entry
  <1>8. FrozenIsRecorded'
    BY DEF IndInv, FrozenIsRecorded, freeze
  <1>9. VerbNeverStopped'
    BY DEF IndInv, VerbNeverStopped, NeverStopped, Goto, End, freeze
  <1> QED BY <1>1, <1>2, <1>3, <1>4, <1>5, <1>6, <1>7, <1>8, <1>9 DEF IndInv

\* Its Chrome ended.
LEMMA CloseEndsKeeps ==
  ASSUME IndInv, NEW t \in Actors, CloseEnds(t)
  PROVE  IndInv'
  <1>0. \A e : Waits(e)' = Waits(e)
    BY SameWaits DEF CloseEnds, Goto, End, Counting, Entry
  <1>1. TypeOK'
    <2>1. job' \in [Actors -> Jobs]
      BY DEF IndInv, TypeOK, Jobs, Verbs, CloseEnds, End, NoJob
    <2>2. waiters' \in [Entries -> Seq(Actors)]
      BY DEF IndInv, TypeOK, CloseEnds, locks
    <2>3. /\ inflight' \in [Entries -> Nat]
          /\ holder' \in [Entries -> Actors \cup {Nobody}]
          /\ mutate' \in Actors \cup {Nobody}
      BY DEF IndInv, TypeOK, CloseEnds, locks
    <2>4. /\ current' \in Entries \cup {NoEntry}
          /\ age' \in [Entries -> 0..2]
          /\ sess' \in [Entries -> Chromes \cup {NoChrome}]
          /\ pc' \in [Actors -> PCs]
      BY DEF IndInv, TypeOK, PCs, CloseEnds, Goto, End
    <2>5. /\ alive' \subseteq Chromes
          /\ stopped' \subseteq Chromes
          /\ record' \in [Entries -> SUBSET Chromes]
      BY DEF IndInv, TypeOK, CloseEnds
    <2>6. agent' \in BOOLEAN /\ lease' \in Clients \cup {Nobody} /\ overtaken' \in BOOLEAN
      BY DEF IndInv, TypeOK, CloseEnds, books
    <2> QED BY <2>1, <2>2, <2>3, <2>4, <2>5, <2>6 DEF TypeOK
  <1>2. HoldersHold'
    BY DEF IndInv, HoldersHold, CloseEnds, Goto, End, locks, Locking, Entry
  <1>3. WaitsCounted'
    BY <1>0 DEF IndInv, WaitsCounted, CloseEnds, locks
  <1>4. UsersCurrent'
    BY DEF IndInv, UsersCurrent, CloseEnds, Goto, End, Locking, Counting, Users, Entry
  <1>5. RegistryHeld'
    BY DEF IndInv, TypeOK, RegistryHeld, CloseEnds, Goto, End
  <1>6. AttemptsKnown'
    BY DEF IndInv, AttemptsKnown, CloseEnds, Goto, End, Locking
  <1>7. (stopped \subseteq alive)'
    BY DEF IndInv, TypeOK, CloseEnds, Goto, End, locks, books, NoJob, Entry
  <1>8. FrozenIsRecorded'
    BY DEF IndInv, FrozenIsRecorded, CloseEnds
  <1>9. VerbNeverStopped'
    BY DEF IndInv, VerbNeverStopped, NeverStopped, CloseEnds, Goto, End
  <1> QED BY <1>1, <1>2, <1>3, <1>4, <1>5, <1>6, <1>7, <1>8, <1>9 DEF IndInv

\* A start takes mutate_lock.
LEMMA TakeMutateKeeps ==
  ASSUME IndInv, NEW t \in Tasks, pc[t] \in {"idle", "goQueued"}, mutate = Nobody,
         current = NoEntry, NEW j \in Jobs,
         mutate' = t, pc' = [pc EXCEPT ![t] = "starting"], job' = [job EXCEPT ![t] = j],
         UNCHANGED <<current, sess, alive, freeze, age, books, locks, overtaken>>
  PROVE  IndInv'
  <1>0. \A e : Waits(e)' = Waits(e)
    BY SameWaits DEF Counting, Entry
  <1>1. TypeOK'
    <2>1. job' \in [Actors -> Jobs]
      BY DEF IndInv, TypeOK
    <2>2. waiters' \in [Entries -> Seq(Actors)]
      BY ActorsDiffer, AbsentObjects DEF IndInv, TypeOK, Actors, freeze, books,
         locks, Entry
    <2>3. /\ inflight' \in [Entries -> Nat]
          /\ holder' \in [Entries -> Actors \cup {Nobody}]
          /\ mutate' \in Actors \cup {Nobody}
      BY ActorsDiffer, AbsentObjects DEF IndInv, TypeOK, Actors, freeze, books,
         locks, Entry
    <2>4. /\ current' \in Entries \cup {NoEntry}
          /\ age' \in [Entries -> 0..2]
          /\ sess' \in [Entries -> Chromes \cup {NoChrome}]
          /\ pc' \in [Actors -> PCs]
      BY DEF IndInv, TypeOK, PCs
    <2>5. /\ alive' \subseteq Chromes
          /\ stopped' \subseteq Chromes
          /\ record' \in [Entries -> SUBSET Chromes]
      BY ActorsDiffer, AbsentObjects DEF IndInv, TypeOK, Actors, freeze, books,
         locks, Entry
    <2>6. agent' \in BOOLEAN /\ lease' \in Clients \cup {Nobody} /\ overtaken' \in BOOLEAN
      BY ActorsDiffer, AbsentObjects DEF IndInv, TypeOK, Actors, freeze, books,
         locks, Entry
    <2> QED BY <2>1, <2>2, <2>3, <2>4, <2>5, <2>6 DEF TypeOK
  <1>2. HoldersHold'
    BY DEF IndInv, HoldersHold, locks, Locking, Entry
  <1>3. WaitsCounted'
    BY <1>0 DEF IndInv, WaitsCounted, locks
  <1>4. UsersCurrent'
    BY DEF IndInv, UsersCurrent, Locking, Counting, Users, Entry
  <1>5. RegistryHeld'
    BY ActorsDiffer DEF IndInv, Actors, RegistryHeld
  <1>6. AttemptsKnown'
    BY DEF IndInv, AttemptsKnown, Locking
  <1>7. (stopped \subseteq alive)'
    BY DEF IndInv, TypeOK, locks, freeze, books, Entry
  <1>8. FrozenIsRecorded'
    BY DEF IndInv, FrozenIsRecorded, freeze
  <1>9. VerbNeverStopped'
    BY DEF IndInv, VerbNeverStopped, NeverStopped, FrozenIsRecorded, freeze
  <1> QED BY <1>1, <1>2, <1>3, <1>4, <1>5, <1>6, <1>7, <1>8, <1>9 DEF IndInv

LEMMA StartRunKeeps ==
  ASSUME IndInv, NEW t \in Tasks, StartRun(t)
  PROVE  IndInv'
  <1>1. PICK j \in Jobs : job' = [job EXCEPT ![t] = j]
    BY JobEdits, JobParts DEF IndInv, StartRun
  <1> QED BY <1>1, TakeMutateKeeps DEF StartRun, Goto

\* A go that starts its own session: nobody's lock or count changes.
LEMMA AsideKeeps ==
  ASSUME IndInv, NEW t \in Tasks, pc[t] \in {"idle", "goQueued", "going"},
         NEW x \in {"idle", "goQueued", "going"}, NEW j \in Jobs,
         pc' = [pc EXCEPT ![t] = x], job' = [job EXCEPT ![t] = j],
         age' \in [Entries -> 0..2],
         UNCHANGED <<current, sess, alive, freeze, books, locks, mutate, overtaken>>
  PROVE  IndInv'
  <1>0. \A e : Waits(e)' = Waits(e)
    BY SameWaits DEF Counting, Entry
  <1>1. TypeOK'
    BY DEF IndInv, TypeOK, PCs, locks, freeze, books
  <1>2. HoldersHold'
    BY DEF IndInv, HoldersHold, locks, Locking, Entry
  <1>3. WaitsCounted'
    BY <1>0 DEF IndInv, WaitsCounted, locks
  <1>4. UsersCurrent'
    BY DEF IndInv, UsersCurrent, Locking, Counting, Users, Entry
  <1>5. RegistryHeld'
    BY DEF IndInv, RegistryHeld
  <1>6. AttemptsKnown'
    BY DEF IndInv, AttemptsKnown, Locking
  <1>7. (stopped \subseteq alive)'
    BY DEF IndInv, freeze
  <1>8. FrozenIsRecorded' /\ VerbNeverStopped'
    BY DEF IndInv, TypeOK, FrozenIsRecorded, VerbNeverStopped, NeverStopped, freeze
  <1> QED BY <1>1, <1>2, <1>3, <1>4, <1>5, <1>6, <1>7, <1>8 DEF IndInv

LEMMA GoArriveKeeps ==
  ASSUME IndInv, NEW t \in Tasks, GoArrive(t)
  PROVE  IndInv'
  <1>1. [NoJob EXCEPT !.verb = "go"] \in Jobs /\ age \in [Entries -> 0..2]
    BY JobEdits, JobParts DEF IndInv, TypeOK
  <1> QED BY <1>1, AsideKeeps DEF GoArrive, Goto

\* It starts the session, or finds it running.
LEMMA GoRunKeeps ==
  ASSUME IndInv, NEW t \in Tasks, GoRun(t)
  PROVE  IndInv'
  <1>1. /\ job[t] \in Jobs /\ [job[t] EXCEPT !.page = Page] \in Jobs
        /\ Touched \in [Entries -> 0..2]
    BY JobEdits, JobParts, Stamps DEF IndInv
  <1>2. CASE current = NoEntry
    <2>1. job' = [job EXCEPT ![t] = job[t]] /\ age' = age
      BY <1>2 DEF GoRun, IndInv, TypeOK, Touched
    <2> QED BY <1>1, <1>2, <2>1, TakeMutateKeeps DEF GoRun, Goto
  <1>3. CASE current # NoEntry
    BY <1>1, <1>3, AsideKeeps DEF GoRun, Goto
  <1> QED BY <1>2, <1>3

LEMMA GoEndsKeeps ==
  ASSUME IndInv, NEW t \in Tasks, GoEnds(t)
  PROVE  IndInv'
  <1>1. NoJob \in Jobs /\ age' \in [Entries -> 0..2]
    BY JobParts, Stamps DEF IndInv, TypeOK, GoEnds
  <1> QED BY <1>1, AsideKeeps DEF GoEnds, End, Goto

\* The end of a start leaves its task idle, or at the page if it is a go.
LEMMA StartEndsShape ==
  ASSUME TypeOK, NEW t \in Tasks, StartEnds(t)
  PROVE  \E x \in {"idle", "going"}, j \in Jobs :
           pc' = [pc EXCEPT ![t] = x] /\ job' = [job EXCEPT ![t] = j]
  <1>1. NoJob \in Jobs /\ \A c \in Chromes : [job[t] EXCEPT !.page = c] \in Jobs
    BY JobEdits, JobParts
  <1>2. CASE End(t)
    BY <1>1, <1>2 DEF End, Goto
  <1>3. ASSUME NEW c \in Chromes, Goto(t, "going"),
               job' = [job EXCEPT ![t] = [@ EXCEPT !.page = c]]
        PROVE  pc' = [pc EXCEPT ![t] = "going"]
               /\ job' = [job EXCEPT ![t] = [job[t] EXCEPT !.page = c]]
    BY <1>3 DEF Goto
  <1> QED BY <1>1, <1>2, <1>3 DEF StartEnds

\* It registers the session, or failed.
LEMMA StartEndsKeeps ==
  ASSUME IndInv, NEW t \in Tasks, StartEnds(t)
  PROVE  IndInv'
  <1>s. PICK x \in {"idle", "going"}, j \in Jobs :
          pc[t] = "starting" /\ pc' = [pc EXCEPT ![t] = x] /\ job' = [job EXCEPT ![t] = j]
    BY StartEndsShape DEF IndInv, StartEnds
  <1>0. \A e : Waits(e)' = Waits(e)
    BY <1>s, SameWaits DEF Counting, Entry
  <1>1. TypeOK'
    <2>1. job' \in [Actors -> Jobs]
      BY <1>s DEF IndInv, TypeOK
    <2>2. waiters' \in [Entries -> Seq(Actors)]
      BY DEF IndInv, TypeOK, StartEnds, locks
    <2>3. /\ inflight' \in [Entries -> Nat]
          /\ holder' \in [Entries -> Actors \cup {Nobody}]
          /\ mutate' \in Actors \cup {Nobody}
      BY DEF IndInv, TypeOK, StartEnds, locks
    <2>4. /\ current' \in Entries \cup {NoEntry}
          /\ age' \in [Entries -> 0..2]
          /\ sess' \in [Entries -> Chromes \cup {NoChrome}]
          /\ pc' \in [Actors -> PCs]
      <3>1. age' = age \/ \E e \in Entries : age' = [age EXCEPT ![e] = 0]
        BY DEF StartEnds
      <3>2. sess' = sess \/ \E e \in Entries, c \in Chromes : sess' = [sess EXCEPT ![e] = c]
        BY DEF StartEnds
      <3>3. current' = current \/ current' \in Entries
        BY DEF StartEnds
      <3>4. age' \in [Entries -> 0..2]
        <4>1. age \in [Entries -> 0..2] /\ 0 \in 0..2
          BY DEF IndInv, TypeOK
        <4> QED BY <3>1, <4>1
      <3>5. sess' \in [Entries -> Chromes \cup {NoChrome}]
        BY <3>2 DEF IndInv, TypeOK
      <3>6. pc' \in [Actors -> PCs]
        BY <1>s DEF IndInv, TypeOK, PCs
      <3> QED BY <3>3, <3>4, <3>5, <3>6 DEF IndInv, TypeOK
    <2>5. /\ alive' \subseteq Chromes
          /\ stopped' \subseteq Chromes
          /\ record' \in [Entries -> SUBSET Chromes]
      BY DEF IndInv, TypeOK, StartEnds
    <2>6. agent' \in BOOLEAN /\ lease' \in Clients \cup {Nobody} /\ overtaken' \in BOOLEAN
      BY DEF IndInv, TypeOK, StartEnds, books
    <2> QED BY <2>1, <2>2, <2>3, <2>4, <2>5, <2>6 DEF TypeOK
  <1>2. HoldersHold'
    BY <1>s DEF IndInv, HoldersHold, StartEnds, locks, Locking, Entry
  <1>3. WaitsCounted'
    BY <1>0 DEF IndInv, WaitsCounted, StartEnds, locks
  <1>4. UsersCurrent'
    BY <1>s, AbsentObjects
       DEF IndInv, Actors, UsersCurrent, RegistryHeld, StartEnds, Locking, Counting, Users,
           Entry
  <1>5. RegistryHeld'
    BY <1>s DEF IndInv, TypeOK, Actors, RegistryHeld, StartEnds
  <1>6. AttemptsKnown'
    BY <1>s DEF IndInv, AttemptsKnown, Locking
  <1>7. (stopped \subseteq alive)'
    BY DEF IndInv, StartEnds
  <1>8. FrozenIsRecorded'
    BY DEF IndInv, FrozenIsRecorded, StartEnds
  <1>9. VerbNeverStopped'
    BY <1>s
       DEF IndInv, Actors, VerbNeverStopped, NeverStopped, FrozenIsRecorded, RegistryHeld,
           StartEnds
  <1> QED BY <1>1, <1>2, <1>3, <1>4, <1>5, <1>6, <1>7, <1>8, <1>9 DEF IndInv

\* The freezer looks and finds the lock free.
LEMMA FreezePollKeeps ==
  ASSUME IndInv, FreezePoll
  PROVE  IndInv'
  <1>0. \A e : Waits(e)' = Waits(e)
    BY DEF Waits, Entry, FreezePoll
  <1>1. TypeOK'
    <2>1. job' \in [Actors -> Jobs]
      BY DEF IndInv, TypeOK, FreezePoll
    <2>2. waiters' \in [Entries -> Seq(Actors)]
      BY ActorsDiffer, AbsentObjects DEF IndInv, TypeOK, Actors, FreezePoll, StillIdle, Apply,
         books, locks, Entry
    <2>3. /\ inflight' \in [Entries -> Nat]
          /\ holder' \in [Entries -> Actors \cup {Nobody}]
          /\ mutate' \in Actors \cup {Nobody}
      BY ActorsDiffer, AbsentObjects DEF IndInv, TypeOK, Actors, FreezePoll, StillIdle, Apply,
         books, locks, Entry
    <2>4. /\ current' \in Entries \cup {NoEntry}
          /\ age' \in [Entries -> 0..2]
          /\ sess' \in [Entries -> Chromes \cup {NoChrome}]
          /\ pc' \in [Actors -> PCs]
      BY DEF IndInv, TypeOK, FreezePoll
    <2>5. /\ alive' \subseteq Chromes
          /\ stopped' \subseteq Chromes
          /\ record' \in [Entries -> SUBSET Chromes]
      BY ActorsDiffer, AbsentObjects DEF IndInv, TypeOK, Actors, FreezePoll, StillIdle, Apply,
         books, locks, Entry
    <2>6. agent' \in BOOLEAN /\ lease' \in Clients \cup {Nobody} /\ overtaken' \in BOOLEAN
      BY ActorsDiffer, AbsentObjects DEF IndInv, TypeOK, Actors, FreezePoll, StillIdle, Apply,
         books, locks, Entry
    <2> QED BY <2>1, <2>2, <2>3, <2>4, <2>5, <2>6 DEF TypeOK
  <1>2. HoldersHold'
    BY DEF IndInv, HoldersHold, FreezePoll, locks, Entry
  <1>3. WaitsCounted'
    BY <1>0 DEF IndInv, WaitsCounted, FreezePoll, locks
  <1>4. UsersCurrent'
    BY DEF IndInv, UsersCurrent, FreezePoll, Entry
  <1>5. RegistryHeld'
    BY DEF IndInv, RegistryHeld, FreezePoll
  <1>6. AttemptsKnown'
    BY DEF IndInv, AttemptsKnown, FreezePoll
  <1>7. (stopped \subseteq alive)'
    BY DEF IndInv, TypeOK, FreezePoll, StillIdle, Apply, Free, locks, books, Entry
  <1>8. FrozenIsRecorded'
    BY DEF IndInv, TypeOK, FrozenIsRecorded, FreezePoll, Apply
  <1>9. VerbNeverStopped'
    BY NobodyInside, NobodyWaits
       DEF IndInv, Actors, VerbNeverStopped, NeverStopped, UsersCurrent, FreezePoll,
           StillIdle, Free, Locking, Counting, Users
  <1> QED BY <1>1, <1>2, <1>3, <1>4, <1>5, <1>6, <1>7, <1>8, <1>9 DEF IndInv

\* It queues.
LEMMA FreezeQueuesKeeps ==
  ASSUME IndInv, FreezeQueues
  PROVE  IndInv'
  <1>0. \A e : Waits(e)' = Waits(e)
    BY SameWaits DEF FreezeQueues, Goto, Counting, Entry
  <1>1. TypeOK'
    <2>1. job' \in [Actors -> Jobs]
      BY JobEdits, JobParts DEF IndInv, TypeOK, FreezeQueues
    <2>2. waiters' \in [Entries -> Seq(Actors)]
      BY Joins, AbsentObjects DEF IndInv, TypeOK, Actors, FreezeQueues, StillIdle, Goto, freeze,
         books, Entry
    <2>3. /\ inflight' \in [Entries -> Nat]
          /\ holder' \in [Entries -> Actors \cup {Nobody}]
          /\ mutate' \in Actors \cup {Nobody}
      BY ActorsDiffer, AbsentObjects DEF IndInv, TypeOK, Actors, FreezeQueues, StillIdle, Goto,
         freeze, books, Entry
    <2>4. /\ current' \in Entries \cup {NoEntry}
          /\ age' \in [Entries -> 0..2]
          /\ sess' \in [Entries -> Chromes \cup {NoChrome}]
          /\ pc' \in [Actors -> PCs]
      BY DEF IndInv, TypeOK, PCs, FreezeQueues, Goto
    <2>5. /\ alive' \subseteq Chromes
          /\ stopped' \subseteq Chromes
          /\ record' \in [Entries -> SUBSET Chromes]
      BY ActorsDiffer, AbsentObjects DEF IndInv, TypeOK, Actors, FreezeQueues, StillIdle, Goto,
         freeze, books, Entry
    <2>6. agent' \in BOOLEAN /\ lease' \in Clients \cup {Nobody} /\ overtaken' \in BOOLEAN
      BY ActorsDiffer, AbsentObjects DEF IndInv, TypeOK, Actors, FreezeQueues, StillIdle, Goto,
         freeze, books, Entry
    <2> QED BY <2>1, <2>2, <2>3, <2>4, <2>5, <2>6 DEF TypeOK
  <1>2. HoldersHold'
    BY ActorsDiffer DEF IndInv, HoldersHold, FreezeQueues, Goto, Entry
  <1>3. WaitsCounted'
    BY <1>0 DEF IndInv, WaitsCounted, FreezeQueues
  <1>4. UsersCurrent'
    BY DEF IndInv, TypeOK, UsersCurrent, FreezeQueues, Goto, Entry
  <1>5. RegistryHeld'
    BY DEF IndInv, RegistryHeld, FreezeQueues, Goto
  <1>6. AttemptsKnown'
    BY ActorsDiffer DEF IndInv, AttemptsKnown, FreezeQueues, Goto
  <1>7. (stopped \subseteq alive)'
    BY DEF IndInv, TypeOK, FreezeQueues, StillIdle, Goto, Free, freeze, books, Entry
  <1>8. FrozenIsRecorded'
    BY DEF IndInv, FrozenIsRecorded, FreezeQueues, freeze
  <1>9. VerbNeverStopped'
    BY DEF IndInv, VerbNeverStopped, NeverStopped, FreezeQueues, Goto, freeze
  <1> QED BY <1>1, <1>2, <1>3, <1>4, <1>5, <1>6, <1>7, <1>8, <1>9 DEF IndInv

\* It has the lock.
LEMMA FreezeRunKeeps ==
  ASSUME IndInv, FreezeRun
  PROVE  IndInv'
  <1>0. \A e : Waits(e)' = Waits(e)
    BY SameWaits DEF FreezeRun, Goto, End, Counting, Entry
  <1>1. TypeOK'
    <2>1. job' \in [Actors -> Jobs]
      BY DEF IndInv, TypeOK, Actors, Jobs, Verbs, FreezeRun, End, NoJob
    <2>2. waiters' \in [Entries -> Seq(Actors)]
      BY Leaves DEF IndInv, FreezeRun
    <2>3. /\ inflight' \in [Entries -> Nat]
          /\ holder' \in [Entries -> Actors \cup {Nobody}]
          /\ mutate' \in Actors \cup {Nobody}
      BY DEF IndInv, TypeOK, FreezeRun
    <2>4. /\ current' \in Entries \cup {NoEntry}
          /\ age' \in [Entries -> 0..2]
          /\ sess' \in [Entries -> Chromes \cup {NoChrome}]
          /\ pc' \in [Actors -> PCs]
      BY DEF IndInv, TypeOK, PCs, FreezeRun, Goto, End
    <2>5. /\ alive' \subseteq Chromes
          /\ stopped' \subseteq Chromes
          /\ record' \in [Entries -> SUBSET Chromes]
      <3>1. CASE StillIdle(Entry(Freezer))
        BY ZenonT(40), <3>1 DEF IndInv, TypeOK, FreezeRun, Apply
      <3>2. CASE ~StillIdle(Entry(Freezer))
        BY ZenonT(40), <3>2 DEF IndInv, TypeOK, FreezeRun, freeze
      <3> QED BY <3>1, <3>2
    <2>6. agent' \in BOOLEAN /\ lease' \in Clients \cup {Nobody} /\ overtaken' \in BOOLEAN
      BY DEF IndInv, TypeOK, FreezeRun, books
    <2> QED BY <2>1, <2>2, <2>3, <2>4, <2>5, <2>6 DEF TypeOK
  <1>2. HoldersHold'
    BY ActorsDiffer DEF IndInv, HoldersHold, FreezeRun, Goto, End, Entry
  <1>3. WaitsCounted'
    BY <1>0 DEF IndInv, WaitsCounted, FreezeRun
  <1>4. UsersCurrent'
    BY DEF IndInv, TypeOK, UsersCurrent, FreezeRun, Goto, End, Locking, Counting, Users,
           Entry
  <1>5. RegistryHeld'
    BY DEF IndInv, RegistryHeld, FreezeRun, Goto, End
  <1>6. AttemptsKnown'
    BY ActorsDiffer DEF IndInv, AttemptsKnown, FreezeRun, Goto, End
  <1>7. (stopped \subseteq alive)'
    BY DEF IndInv, FreezeRun, Apply, freeze
  <1>8. FrozenIsRecorded'
    BY AbsentObjects
       DEF IndInv, TypeOK, Actors, FrozenIsRecorded, UsersCurrent, FreezeRun, Apply, freeze,
           Users
  <1>9. VerbNeverStopped'
    BY ZenonT(40), NobodyInside, NobodyWaits
       DEF IndInv, TypeOK, Actors, VerbNeverStopped, NeverStopped, UsersCurrent, FreezeRun,
           StillIdle, Goto, End, MyTurn, freeze, Locking, Counting, Users
  <1> QED BY <1>1, <1>2, <1>3, <1>4, <1>5, <1>6, <1>7, <1>8, <1>9 DEF IndInv

\* The reaper looks.
LEMMA ReapPollKeeps ==
  ASSUME IndInv, ReapPoll
  PROVE  IndInv'
  <1>0. \A e : Waits(e)' = Waits(e)
    BY SameWaits DEF ReapPoll, Goto, Counting, Entry
  <1>1. TypeOK'
    <2>1. job' \in [Actors -> Jobs]
      BY DEF IndInv, TypeOK, ReapPoll
    <2>2. waiters' \in [Entries -> Seq(Actors)]
      BY DEF IndInv, TypeOK, ReapPoll, locks
    <2>3. /\ inflight' \in [Entries -> Nat]
          /\ holder' \in [Entries -> Actors \cup {Nobody}]
          /\ mutate' \in Actors \cup {Nobody}
      BY DEF IndInv, TypeOK, ReapPoll, locks
    <2>4. /\ current' \in Entries \cup {NoEntry}
          /\ age' \in [Entries -> 0..2]
          /\ sess' \in [Entries -> Chromes \cup {NoChrome}]
          /\ pc' \in [Actors -> PCs]
      BY DEF IndInv, TypeOK, PCs, ReapPoll, Goto
    <2>5. /\ alive' \subseteq Chromes
          /\ stopped' \subseteq Chromes
          /\ record' \in [Entries -> SUBSET Chromes]
      BY DEF IndInv, TypeOK, ReapPoll, freeze
    <2>6. agent' \in BOOLEAN /\ lease' \in Clients \cup {Nobody} /\ overtaken' \in BOOLEAN
      BY DEF IndInv, TypeOK, ReapPoll, books
    <2> QED BY <2>1, <2>2, <2>3, <2>4, <2>5, <2>6 DEF TypeOK
  <1>2. HoldersHold'
    BY ActorsDiffer DEF IndInv, HoldersHold, ReapPoll, Goto, locks, Entry
  <1>3. WaitsCounted'
    BY <1>0 DEF IndInv, WaitsCounted, ReapPoll, locks
  <1>4. UsersCurrent'
    BY DEF IndInv, UsersCurrent, ReapPoll, Goto, Locking, Counting, Users, Entry
  <1>5. RegistryHeld'
    BY DEF IndInv, RegistryHeld, ReapPoll, Goto
  <1>6. AttemptsKnown'
    BY ActorsDiffer DEF IndInv, AttemptsKnown, ReapPoll, Goto
  <1>7. (stopped \subseteq alive)'
    BY DEF IndInv, TypeOK, ReapPoll, Abandoned, Goto, locks, freeze, books, Entry
  <1>8. FrozenIsRecorded'
    BY DEF IndInv, FrozenIsRecorded, ReapPoll, freeze
  <1>9. VerbNeverStopped'
    BY DEF IndInv, VerbNeverStopped, NeverStopped, ReapPoll, Goto, freeze
  <1> QED BY <1>1, <1>2, <1>3, <1>4, <1>5, <1>6, <1>7, <1>8, <1>9 DEF IndInv

\* A client leases the session.
LEMMA LeaseKeeps ==
  ASSUME IndInv, NEW c \in Clients, Lease(c)
  PROVE  IndInv'
  <1>0. \A e : Waits(e)' = Waits(e)
    BY DEF Waits, Entry, Lease
  <1>1. TypeOK'
    <2>1. job' \in [Actors -> Jobs]
      BY DEF IndInv, TypeOK, Lease
    <2>2. waiters' \in [Entries -> Seq(Actors)]
      BY ActorsDiffer, AbsentObjects DEF IndInv, TypeOK, Actors, Lease, Touched, freeze, locks,
         Entry
    <2>3. /\ inflight' \in [Entries -> Nat]
          /\ holder' \in [Entries -> Actors \cup {Nobody}]
          /\ mutate' \in Actors \cup {Nobody}
      BY ActorsDiffer, AbsentObjects DEF IndInv, TypeOK, Actors, Lease, Touched, freeze, locks,
         Entry
    <2>4. /\ current' \in Entries \cup {NoEntry}
          /\ age' \in [Entries -> 0..2]
          /\ sess' \in [Entries -> Chromes \cup {NoChrome}]
          /\ pc' \in [Actors -> PCs]
      BY ActorsDiffer, AbsentObjects DEF IndInv, TypeOK, Actors, PCs, Lease, Touched, freeze,
         locks, Entry
    <2>5. /\ alive' \subseteq Chromes
          /\ stopped' \subseteq Chromes
          /\ record' \in [Entries -> SUBSET Chromes]
      BY ActorsDiffer, AbsentObjects DEF IndInv, TypeOK, Actors, Lease, Touched, freeze, locks,
         Entry
    <2>6. agent' \in BOOLEAN /\ lease' \in Clients \cup {Nobody} /\ overtaken' \in BOOLEAN
      BY ActorsDiffer, AbsentObjects DEF IndInv, TypeOK, Actors, Lease, Touched, freeze, locks,
         Entry
    <2> QED BY <2>1, <2>2, <2>3, <2>4, <2>5, <2>6 DEF TypeOK
  <1>2. HoldersHold'
    BY DEF IndInv, HoldersHold, Lease, locks, Entry
  <1>3. WaitsCounted'
    BY <1>0 DEF IndInv, WaitsCounted, Lease, locks
  <1>4. UsersCurrent'
    BY DEF IndInv, UsersCurrent, Lease, Entry
  <1>5. RegistryHeld'
    BY DEF IndInv, RegistryHeld, Lease
  <1>6. AttemptsKnown'
    BY DEF IndInv, AttemptsKnown, Lease
  <1>7. (stopped \subseteq alive)'
    BY DEF IndInv, TypeOK, Lease, Touched, locks, freeze, Entry
  <1>8. FrozenIsRecorded'
    BY DEF IndInv, FrozenIsRecorded, Lease, freeze
  <1>9. VerbNeverStopped'
    BY DEF IndInv, VerbNeverStopped, NeverStopped, Lease, freeze
  <1> QED BY <1>1, <1>2, <1>3, <1>4, <1>5, <1>6, <1>7, <1>8, <1>9 DEF IndInv

\* It gives the lease back.
LEMMA UnleaseKeeps ==
  ASSUME IndInv, Unlease
  PROVE  IndInv'
  <1>0. \A e : Waits(e)' = Waits(e)
    BY DEF Waits, Entry, Unlease
  <1>1. TypeOK'
    <2>1. job' \in [Actors -> Jobs]
      BY DEF IndInv, TypeOK, Unlease
    <2>2. waiters' \in [Entries -> Seq(Actors)]
      BY ActorsDiffer, AbsentObjects DEF IndInv, TypeOK, Actors, Unlease, Touched, freeze, locks,
         Entry
    <2>3. /\ inflight' \in [Entries -> Nat]
          /\ holder' \in [Entries -> Actors \cup {Nobody}]
          /\ mutate' \in Actors \cup {Nobody}
      BY ActorsDiffer, AbsentObjects DEF IndInv, TypeOK, Actors, Unlease, Touched, freeze, locks,
         Entry
    <2>4. /\ current' \in Entries \cup {NoEntry}
          /\ age' \in [Entries -> 0..2]
          /\ sess' \in [Entries -> Chromes \cup {NoChrome}]
          /\ pc' \in [Actors -> PCs]
      BY ActorsDiffer, AbsentObjects DEF IndInv, TypeOK, Actors, PCs, Unlease, Touched, freeze,
         locks, Entry
    <2>5. /\ alive' \subseteq Chromes
          /\ stopped' \subseteq Chromes
          /\ record' \in [Entries -> SUBSET Chromes]
      BY ActorsDiffer, AbsentObjects DEF IndInv, TypeOK, Actors, Unlease, Touched, freeze, locks,
         Entry
    <2>6. agent' \in BOOLEAN /\ lease' \in Clients \cup {Nobody} /\ overtaken' \in BOOLEAN
      BY ActorsDiffer, AbsentObjects DEF IndInv, TypeOK, Actors, Unlease, Touched, freeze, locks,
         Entry
    <2> QED BY <2>1, <2>2, <2>3, <2>4, <2>5, <2>6 DEF TypeOK
  <1>2. HoldersHold'
    BY DEF IndInv, HoldersHold, Unlease, locks, Entry
  <1>3. WaitsCounted'
    BY <1>0 DEF IndInv, WaitsCounted, Unlease, locks
  <1>4. UsersCurrent'
    BY DEF IndInv, UsersCurrent, Unlease, Entry
  <1>5. RegistryHeld'
    BY DEF IndInv, RegistryHeld, Unlease
  <1>6. AttemptsKnown'
    BY DEF IndInv, AttemptsKnown, Unlease
  <1>7. (stopped \subseteq alive)'
    BY DEF IndInv, TypeOK, Unlease, Touched, locks, freeze, Entry
  <1>8. FrozenIsRecorded'
    BY DEF IndInv, FrozenIsRecorded, Unlease, freeze
  <1>9. VerbNeverStopped'
    BY DEF IndInv, VerbNeverStopped, NeverStopped, Unlease, freeze
  <1> QED BY <1>1, <1>2, <1>3, <1>4, <1>5, <1>6, <1>7, <1>8, <1>9 DEF IndInv

\* The lease expires.
LEMMA LeaseExpiresKeeps ==
  ASSUME IndInv, LeaseExpires
  PROVE  IndInv'
  <1>0. \A e : Waits(e)' = Waits(e)
    BY DEF Waits, Entry, LeaseExpires
  <1>1. TypeOK'
    <2>1. job' \in [Actors -> Jobs]
      BY DEF IndInv, TypeOK, LeaseExpires
    <2>2. waiters' \in [Entries -> Seq(Actors)]
      BY ActorsDiffer, AbsentObjects DEF IndInv, TypeOK, Actors, LeaseExpires, freeze, locks, Entry
    <2>3. /\ inflight' \in [Entries -> Nat]
          /\ holder' \in [Entries -> Actors \cup {Nobody}]
          /\ mutate' \in Actors \cup {Nobody}
      BY ActorsDiffer, AbsentObjects DEF IndInv, TypeOK, Actors, LeaseExpires, freeze, locks, Entry
    <2>4. /\ current' \in Entries \cup {NoEntry}
          /\ age' \in [Entries -> 0..2]
          /\ sess' \in [Entries -> Chromes \cup {NoChrome}]
          /\ pc' \in [Actors -> PCs]
      BY ActorsDiffer, AbsentObjects DEF IndInv, TypeOK, Actors, PCs, LeaseExpires, freeze, locks,
         Entry
    <2>5. /\ alive' \subseteq Chromes
          /\ stopped' \subseteq Chromes
          /\ record' \in [Entries -> SUBSET Chromes]
      BY ActorsDiffer, AbsentObjects DEF IndInv, TypeOK, Actors, LeaseExpires, freeze, locks, Entry
    <2>6. agent' \in BOOLEAN /\ lease' \in Clients \cup {Nobody} /\ overtaken' \in BOOLEAN
      BY ActorsDiffer, AbsentObjects DEF IndInv, TypeOK, Actors, LeaseExpires, freeze, locks, Entry
    <2> QED BY <2>1, <2>2, <2>3, <2>4, <2>5, <2>6 DEF TypeOK
  <1>2. HoldersHold'
    BY DEF IndInv, HoldersHold, LeaseExpires, locks, Entry
  <1>3. WaitsCounted'
    BY <1>0 DEF IndInv, WaitsCounted, LeaseExpires, locks
  <1>4. UsersCurrent'
    BY DEF IndInv, UsersCurrent, LeaseExpires, Entry
  <1>5. RegistryHeld'
    BY DEF IndInv, RegistryHeld, LeaseExpires
  <1>6. AttemptsKnown'
    BY DEF IndInv, AttemptsKnown, LeaseExpires
  <1>7. (stopped \subseteq alive)'
    BY DEF IndInv, TypeOK, LeaseExpires, locks, freeze, Entry
  <1>8. FrozenIsRecorded'
    BY DEF IndInv, FrozenIsRecorded, LeaseExpires, freeze
  <1>9. VerbNeverStopped'
    BY DEF IndInv, VerbNeverStopped, NeverStopped, LeaseExpires, freeze
  <1> QED BY <1>1, <1>2, <1>3, <1>4, <1>5, <1>6, <1>7, <1>8, <1>9 DEF IndInv

\* Time passes.
LEMMA TickKeeps ==
  ASSUME IndInv, Tick
  PROVE  IndInv'
  <1>0. \A e : Waits(e)' = Waits(e)
    BY DEF Waits, Entry, Tick
  <1>1. TypeOK'
    <2>1. job' \in [Actors -> Jobs]
      BY DEF IndInv, TypeOK, Tick
    <2>2. waiters' \in [Entries -> Seq(Actors)]
      BY ActorsDiffer, AbsentObjects DEF IndInv, TypeOK, Actors, Tick, freeze, books, locks, Entry
    <2>3. /\ inflight' \in [Entries -> Nat]
          /\ holder' \in [Entries -> Actors \cup {Nobody}]
          /\ mutate' \in Actors \cup {Nobody}
      BY ActorsDiffer, AbsentObjects DEF IndInv, TypeOK, Actors, Tick, freeze, books, locks, Entry
    <2>4. /\ current' \in Entries \cup {NoEntry}
          /\ age' \in [Entries -> 0..2]
          /\ sess' \in [Entries -> Chromes \cup {NoChrome}]
          /\ pc' \in [Actors -> PCs]
      <3>1. age \in [Entries -> 0..2] /\ current \in Entries /\ age[current] < 2
        BY DEF IndInv, TypeOK, Tick
      <3>2. age[current] + 1 \in 0..2
        BY <3>1
      <3>3. age' \in [Entries -> 0..2]
        BY <3>1, <3>2 DEF Tick
      <3> QED BY <3>3 DEF IndInv, TypeOK, Tick
    <2>5. /\ alive' \subseteq Chromes
          /\ stopped' \subseteq Chromes
          /\ record' \in [Entries -> SUBSET Chromes]
      BY ActorsDiffer, AbsentObjects DEF IndInv, TypeOK, Actors, Tick, freeze, books, locks, Entry
    <2>6. agent' \in BOOLEAN /\ lease' \in Clients \cup {Nobody} /\ overtaken' \in BOOLEAN
      BY ActorsDiffer, AbsentObjects DEF IndInv, TypeOK, Actors, Tick, freeze, books, locks, Entry
    <2> QED BY <2>1, <2>2, <2>3, <2>4, <2>5, <2>6 DEF TypeOK
  <1>2. HoldersHold'
    BY DEF IndInv, HoldersHold, Tick, locks, Entry
  <1>3. WaitsCounted'
    BY <1>0 DEF IndInv, WaitsCounted, Tick, locks
  <1>4. UsersCurrent'
    BY DEF IndInv, UsersCurrent, Tick, Entry
  <1>5. RegistryHeld'
    BY DEF IndInv, RegistryHeld, Tick
  <1>6. AttemptsKnown'
    BY DEF IndInv, AttemptsKnown, Tick
  <1>7. (stopped \subseteq alive)'
    BY DEF IndInv, TypeOK, Tick, locks, freeze, books, Entry
  <1>8. FrozenIsRecorded'
    BY DEF IndInv, FrozenIsRecorded, Tick, freeze
  <1>9. VerbNeverStopped'
    BY DEF IndInv, VerbNeverStopped, NeverStopped, Tick, freeze
  <1> QED BY <1>1, <1>2, <1>3, <1>4, <1>5, <1>6, <1>7, <1>8, <1>9 DEF IndInv

\* A Chrome dies.
LEMMA ChromeDiesKeeps ==
  ASSUME IndInv, NEW c \in Chromes, ChromeDies(c)
  PROVE  IndInv'
  <1>0. \A e : Waits(e)' = Waits(e)
    BY DEF Waits, Entry, ChromeDies
  <1>1. TypeOK'
    <2>1. job' \in [Actors -> Jobs]
      BY DEF IndInv, TypeOK, ChromeDies
    <2>2. waiters' \in [Entries -> Seq(Actors)]
      BY ActorsDiffer, AbsentObjects DEF IndInv, TypeOK, Actors, ChromeDies, books, locks, Entry
    <2>3. /\ inflight' \in [Entries -> Nat]
          /\ holder' \in [Entries -> Actors \cup {Nobody}]
          /\ mutate' \in Actors \cup {Nobody}
      BY ActorsDiffer, AbsentObjects DEF IndInv, TypeOK, Actors, ChromeDies, books, locks, Entry
    <2>4. /\ current' \in Entries \cup {NoEntry}
          /\ age' \in [Entries -> 0..2]
          /\ sess' \in [Entries -> Chromes \cup {NoChrome}]
          /\ pc' \in [Actors -> PCs]
      BY ActorsDiffer, AbsentObjects DEF IndInv, TypeOK, Actors, PCs, ChromeDies, books, locks,
         Entry
    <2>5. /\ alive' \subseteq Chromes
          /\ stopped' \subseteq Chromes
          /\ record' \in [Entries -> SUBSET Chromes]
      BY ActorsDiffer, AbsentObjects DEF IndInv, TypeOK, Actors, ChromeDies, books, locks, Entry
    <2>6. agent' \in BOOLEAN /\ lease' \in Clients \cup {Nobody} /\ overtaken' \in BOOLEAN
      BY ActorsDiffer, AbsentObjects DEF IndInv, TypeOK, Actors, ChromeDies, books, locks, Entry
    <2> QED BY <2>1, <2>2, <2>3, <2>4, <2>5, <2>6 DEF TypeOK
  <1>2. HoldersHold'
    BY DEF IndInv, HoldersHold, ChromeDies, locks, Entry
  <1>3. WaitsCounted'
    BY <1>0 DEF IndInv, WaitsCounted, ChromeDies, locks
  <1>4. UsersCurrent'
    BY DEF IndInv, UsersCurrent, ChromeDies, Entry
  <1>5. RegistryHeld'
    BY DEF IndInv, RegistryHeld, ChromeDies
  <1>6. AttemptsKnown'
    BY DEF IndInv, AttemptsKnown, ChromeDies
  <1>7. (stopped \subseteq alive)'
    BY DEF IndInv, TypeOK, ChromeDies, locks, books, Entry
  <1>8. FrozenIsRecorded'
    BY DEF IndInv, FrozenIsRecorded, ChromeDies
  <1>9. VerbNeverStopped'
    BY DEF IndInv, VerbNeverStopped, NeverStopped, ChromeDies
  <1> QED BY <1>1, <1>2, <1>3, <1>4, <1>5, <1>6, <1>7, <1>8, <1>9 DEF IndInv

\* Steps after which every variable is what it was.
LEMMA StutterKeeps ==
  ASSUME IndInv, UNCHANGED vars
  PROVE  IndInv'
  <1>1. \A e : Waits(e)' = Waits(e)
    BY DEF Waits, Entry, vars
  <1>2. WaitsCounted'
    BY <1>1 DEF IndInv, WaitsCounted, vars, locks
  <1> QED
    BY <1>2
       DEF IndInv, vars, locks, freeze, books, TypeOK, HoldersHold, UsersCurrent,
           RegistryHeld, AttemptsKnown, FrozenIsRecorded, VerbNeverStopped, NeverStopped,
           Entry

\* A close or the reaper takes its turn at mutate_lock.
LEMMA CloseRunKeeps ==
  ASSUME IndInv, NEW t \in Tasks, CloseRun(t)
  PROVE  IndInv'
  <1>1. CASE current = NoEntry
    BY <1>1, GiveUpKeeps DEF CloseRun, Actors, locks, freeze, books
  <1>2. CASE current # NoEntry
    BY <1>2, PopKeeps DEF CloseRun, Actors
  <1> QED BY <1>1, <1>2

\* The reaper looks again first.
LEMMA ReapRunKeeps ==
  ASSUME IndInv, ReapRun
  PROVE  IndInv'
  <1>1. CASE ~Abandoned(current)
    BY <1>1, GiveUpKeeps DEF ReapRun, Actors, locks, freeze, books
  <1>2. CASE Abandoned(current)
    BY <1>2, PopKeeps DEF ReapRun, Actors, Abandoned
  <1> QED BY <1>1, <1>2

\* Every step keeps IndInv.
LEMMA StepKeeps == IndInv /\ [Next]_vars => IndInv'
  <1> SUFFICES ASSUME IndInv, [Next]_vars PROVE IndInv'
    OBVIOUS
  <1>1. CASE UNCHANGED vars
    BY <1>1, StutterKeeps
  <1>2. ASSUME NEW t \in Tasks, VerbStep(t) PROVE IndInv'
    BY <1>2, VerbArriveKeeps, VerbQueueKeeps, VerbRunKeeps, VerbReturnsKeeps, VerbRaisesKeeps,
       VerbCrashesKeeps, ReviveKeeps, HealFailsKeeps, RelaunchDownKeeps, RelaunchUpKeeps DEF VerbStep
  <1>3. ASSUME NEW t \in Tasks, WaitStep(t) PROVE IndInv'
    BY <1>3, WaitBeginsKeeps, WaitQueuesKeeps, WaitThawedKeeps, WaitEndsKeeps,
       CheckpointBeginsKeeps, CheckpointEndsKeeps DEF WaitStep
  <1>4. ASSUME NEW t \in Tasks, RegistryStep(t) PROVE IndInv'
    BY <1>4, CloseArriveKeeps, CloseRunKeeps, CloseEndsKeeps, StartRunKeeps, StartEndsKeeps,
       GoArriveKeeps, GoRunKeeps, GoEndsKeeps
       DEF RegistryStep, Actors
  <1>5. CASE CloseEnds(Reaper)
    BY <1>5, CloseEndsKeeps DEF Actors
  <1> QED BY <1>1, <1>2, <1>3, <1>4, <1>5, FreezePollKeeps, FreezeQueuesKeeps, FreezeRunKeeps,
       ReapPollKeeps, ReapRunKeeps, LeaseKeeps, UnleaseKeeps, LeaseExpiresKeeps, TickKeeps,
       ChromeDiesKeeps DEF Next

\* Nobody is served and nothing runs at first.
LEMMA InitHolds == Init => IndInv
  <1> SUFFICES ASSUME Init PROVE IndInv
    OBVIOUS
  <1>1. TypeOK
    <2>1. NoJob \in Jobs
      BY DEF NoJob, Jobs, Verbs
    <2>2. <<>> \in Seq(Actors)
      BY EmptySeq
    <2>3. job \in [Actors -> Jobs] /\ waiters \in [Entries -> Seq(Actors)]
      BY <2>1, <2>2 DEF Init
    <2>4. age \in [Entries -> 0..2] /\ inflight \in [Entries -> Nat]
      BY DEF Init
    <2>5. pc \in [Actors -> PCs]
      BY DEF Init, PCs
    <2> QED BY <2>3, <2>4, <2>5 DEF Init, TypeOK
  <1>2. WaitsCounted
    <2>1. \A e : Waits(e) = {}
      BY DEF Init, Waits, Counting, Actors
    <2> QED BY <2>1, FS_EmptySet DEF Init, WaitsCounted
  <1>3. HoldersHold /\ UsersCurrent /\ RegistryHeld /\ AttemptsKnown
    BY DEF Init, HoldersHold, UsersCurrent, RegistryHeld, AttemptsKnown, Actors, Users, Locking,
       Counting
  <1>4. stopped \subseteq alive /\ FrozenIsRecorded /\ VerbNeverStopped
    BY DEF Init, FrozenIsRecorded, VerbNeverStopped, NeverStopped, Actors
  <1> QED BY <1>1, <1>2, <1>3, <1>4 DEF IndInv

\* Locks, counts, entries and attempts stay in step, a stopped Chrome is on the
\* record of its session, and the Chrome of a verb is not stopped.
THEOREM Inductive == Spec => []IndInv
  BY InitHolds, StepKeeps, PTL DEF Spec

\* The freezer never stops a Chrome under a verb or a page wait, unless a close
\* took the session away from them.
THEOREM VerbsRun == Spec => []VerbNeverStopped
  <1>1. IndInv => VerbNeverStopped
    BY DEF IndInv
  <1> QED BY <1>1, Inductive, PTL

\* Locked verbs drive a Chrome one at a time, under the same condition.
THEOREM OneAtATime == Spec => []OneVerbPerPage
  <1>1. IndInv => OneVerbPerPage
    BY DEF IndInv, OneVerbPerPage, SessionLockExcludes, HoldersHold, UsersCurrent, Locking, Users,
       Actors
  <1> QED BY <1>1, Inductive, PTL

\* A verb that is not retry-safe acts at most once.
THEOREM AtMostOnce == Spec => []ActsOnce
  <1>1. IndInv => ActsOnce
    BY DEF IndInv, AttemptsKnown, ActsOnce, RetrySafe
  <1> QED BY <1>1, Inductive, PTL

\* A step of a request leaves the reaper where it is.
LEMMA ReaperStays ==
  ASSUME TypeOK, NEW t \in Tasks, VerbStep(t) \/ WaitStep(t) \/ RegistryStep(t)
  PROVE  pc'[Reaper] = pc[Reaper]
  <1>1. \A x : Goto(t, x) => pc'[Reaper] = pc[Reaper]
    BY ActorsDiffer DEF TypeOK, Actors, Goto
  <1>2. End(t) => pc'[Reaper] = pc[Reaper]
    BY <1>1 DEF End
  <1>3. \A p : RetryOrReport(t, p) => pc'[Reaper] = pc[Reaper]
    BY <1>1, <1>2 DEF RetryOrReport
  <1>4. CASE VerbStep(t)
    BY <1>1, <1>2, <1>3, <1>4
       DEF VerbStep, VerbArrive, VerbQueue, VerbRun, Handle, VerbReturns, VerbRaises,
           VerbCrashes, Revive, HealFails, RelaunchDown, RelaunchUp
  <1>5. CASE WaitStep(t)
    BY <1>1, <1>2, <1>5 DEF WaitStep, WaitBegins, WaitQueues, WaitThawed, WaitEnds,
       CheckpointBegins, CheckpointEnds
  <1>6. CASE RegistryStep(t)
    BY <1>1, <1>2, <1>6 DEF RegistryStep, CloseArrive, CloseRun, PopSession, CloseEnds, StartRun,
       StartEnds, GoArrive, GoRun, GoEnds
  <1> QED BY <1>4, <1>5, <1>6

\* The reaper closes no session that is leased or in use.
THEOREM BusyAreSpared == Spec => ReaperSparesTheBusy
  <1>1. IndInv /\ [Next]_vars => SparesTheBusy
    <2> SUFFICES ASSUME IndInv, [Next]_vars, pc[Reaper] = "closeQueued", pc'[Reaper] = "closing"
                 PROVE  SparesTheBusy
      BY DEF SparesTheBusy
    <2>1. ReapRun
      <3>1. ~UNCHANGED pc
        BY DEF IndInv
      <3>2. \A t \in Tasks : ~(VerbStep(t) \/ WaitStep(t) \/ RegistryStep(t))
        BY ReaperStays DEF IndInv
      <3>3. ~FreezeQueues /\ ~FreezeRun
        BY ActorsDiffer DEF IndInv, TypeOK, Actors, FreezeQueues, FreezeRun, Goto, End
      <3>4. ~ReapPoll /\ ~CloseEnds(Reaper)
        BY DEF ReapPoll, CloseEnds
      <3> QED
        BY <3>1, <3>2, <3>3, <3>4
           DEF Next, vars, FreezePoll, Lease, Unlease, LeaseExpires, Tick, ChromeDies
    <2>2. Abandoned(current)
      BY <2>1, ActorsDiffer DEF IndInv, TypeOK, Actors, ReapRun, End, Goto
    <2>3. lease = Nobody /\ current \in Entries /\ holder[current] = Nobody /\ inflight[current] = 0
      BY <2>2 DEF Abandoned, IndInv, TypeOK
    <2>4. \A t \in Tasks : Using(t, current) => pc[t] \notin Locking \cup Counting
      BY <2>3, NobodyInside, NobodyWaits DEF IndInv, Using
    <2> QED BY <2>3, <2>4 DEF SparesTheBusy, Using, Users
  <1> QED BY <1>1, Inductive, PTL DEF Spec, ReaperSparesTheBusy

------------------------------------------------------------------------------
(* Nobody is forgotten in a queue, and no lock is left taken.                *)

Ending == {"closing", "starting"}
Served == WaitersKnown /\ MutateHeld

\* The queues are of actors.
LEMMA QueuesOfActors ==
  ASSUME TypeOK, NEW e \in Entries, NEW i \in DOMAIN waiters[e]
  PROVE  waiters[e][i] \in Actors
  <1>1. waiters[e] \in Seq(Actors)
    BY DEF TypeOK
  <1> QED BY <1>1, ElementOfSeq

\* Steps of those who neither wait nor have mutate_lock.
LEMMA OthersServed ==
  ASSUME TypeOK, Served, UNCHANGED <<waiters, mutate>>, NEW a \in Actors,
         pc[a] \notin Waiting \cup Ending, pc'[a] \notin Waiting,
         \A b \in Actors \ {a} : pc'[b] = pc[b] /\ Entry(b)' = Entry(b)
  PROVE  Served'
  <1>1. WaitersKnown'
    BY QueuesOfActors DEF Served, WaitersKnown, Place, Entry
  <1>2. MutateHeld'
    BY DEF TypeOK, Served, MutateHeld, Ending
  <1> QED BY <1>1, <1>2 DEF Served

\* mutate_lock is taken or given back.
LEMMA LockMoves ==
  ASSUME TypeOK, Served, UNCHANGED waiters, NEW a \in Actors,
         pc[a] \notin Waiting, pc'[a] \notin Waiting,
         mutate' = Nobody \/ (mutate' = a /\ pc'[a] \in Ending),
         \A b \in Actors \ {a} : pc'[b] = pc[b] /\ Entry(b)' = Entry(b)
  PROVE  Served'
  <1>1. WaitersKnown'
    BY QueuesOfActors DEF Served, WaitersKnown, Place, Entry
  <1>2. MutateHeld'
    BY DEF MutateHeld, Ending
  <1> QED BY <1>1, <1>2 DEF Served

\* Somebody who did not wait joins the queue of an entry.
LEMMA JoinServed ==
  ASSUME TypeOK, Served, UNCHANGED mutate, NEW a \in Actors, NEW e \in Entries,
         pc[a] \notin Waiting \cup Ending, pc'[a] \in Waiting, Entry(a)' = e,
         waiters' = [waiters EXCEPT ![e] = Append(@, a)],
         \A b \in Actors \ {a} : pc'[b] = pc[b] /\ Entry(b)' = Entry(b)
  PROVE  Served'
  <1>1. /\ waiters[e] \in Seq(Actors) /\ waiters'[e] = Append(waiters[e], a)
        /\ \A f \in Entries \ {e} : waiters'[f] = waiters[f]
    BY DEF TypeOK
  <1>2. /\ DOMAIN waiters[e] = 1..Len(waiters[e]) /\ Len(waiters[e]) \in Nat
        /\ DOMAIN waiters'[e] = 1..(Len(waiters[e]) + 1)
        /\ \A i \in 1..Len(waiters[e]) : waiters'[e][i] = waiters[e][i]
        /\ waiters'[e][Len(waiters[e]) + 1] = a
    BY <1>1, AppendProperties, LenProperties
  <1>3. \A f \in Entries : \A i \in DOMAIN waiters[f] : waiters[f][i] \in Actors \ {a}
    BY QueuesOfActors DEF Served, WaitersKnown
  <1>4. \A f \in Entries : \A i \in DOMAIN waiters'[f] :
          pc'[waiters'[f][i]] \in Waiting /\ job'[waiters'[f][i]].entry = f
    <2> SUFFICES ASSUME NEW f \in Entries, NEW i \in DOMAIN waiters'[f]
                 PROVE  pc'[waiters'[f][i]] \in Waiting /\ job'[waiters'[f][i]].entry = f
      OBVIOUS
    <2>1. CASE f = e /\ i = Len(waiters[e]) + 1
      BY <1>2, <2>1 DEF Entry
    <2>2. CASE i \in DOMAIN waiters[f] /\ waiters'[f][i] = waiters[f][i]
      <3>1. pc[waiters[f][i]] \in Waiting /\ Entry(waiters[f][i]) = f
        BY <2>2 DEF Served, WaitersKnown
      <3>2. waiters[f][i] \in Actors \ {a}
        BY <1>3, <2>2
      <3> QED BY <2>2, <3>1, <3>2 DEF Entry
    <2> QED BY <1>1, <1>2, <2>1, <2>2
  <1>5. \A f \in Entries : \A i, j \in DOMAIN waiters'[f] :
          waiters'[f][i] = waiters'[f][j] => i = j
    <2>1. \A i, j \in DOMAIN waiters'[e] : waiters'[e][i] = waiters'[e][j] => i = j
      <3> SUFFICES ASSUME NEW i \in DOMAIN waiters'[e], NEW j \in DOMAIN waiters'[e],
                          waiters'[e][i] = waiters'[e][j]
                   PROVE  i = j
        OBVIOUS
      <3>1. CASE i \in DOMAIN waiters[e] /\ j \in DOMAIN waiters[e]
        BY <1>2, <3>1 DEF Served, WaitersKnown
      <3>2. CASE i \notin DOMAIN waiters[e] /\ j \notin DOMAIN waiters[e]
        BY <1>2, <3>2
      <3>3. CASE i \in DOMAIN waiters[e] /\ j \notin DOMAIN waiters[e]
        BY <1>2, <1>3, <3>3
      <3>4. CASE i \notin DOMAIN waiters[e] /\ j \in DOMAIN waiters[e]
        BY <1>2, <1>3, <3>4
      <3> QED BY <3>1, <3>2, <3>3, <3>4
    <2> QED BY <1>1, <2>1 DEF Served, WaitersKnown
  <1>6. \A b \in Actors : pc'[b] \in Waiting => Place(b, Entry(b))' # {}
    <2>1. Place(a, e)' # {}
      BY <1>2 DEF Place
    <2>2. ASSUME NEW b \in Actors \ {a}, pc[b] \in Waiting  PROVE Place(b, Entry(b))' # {}
      <3>1. PICK i \in DOMAIN waiters[Entry(b)] : waiters[Entry(b)][i] = b
        BY <2>2 DEF Served, WaitersKnown, Place, Entry
      <3>2. i \in DOMAIN waiters'[Entry(b)] /\ waiters'[Entry(b)][i] = b
        <4>1. CASE Entry(b) = e
          BY <1>2, <3>1, <4>1
        <4>2. CASE Entry(b) # e
          BY <3>1, <4>2 DEF TypeOK
        <4> QED BY <4>1, <4>2
      <3> QED BY <3>2 DEF Place
    <2> QED BY <2>1, <2>2
  <1>7. MutateHeld'
    BY DEF TypeOK, Served, MutateHeld, Ending
  <1> QED BY <1>4, <1>5, <1>6, <1>7 DEF Served, WaitersKnown, Entry

\* A queue without its head.
LEMMA QueueWithoutHead ==
  ASSUME NEW s \in Seq(Actors), s # <<>>
  PROVE  /\ Len(s) \in Nat \ {0} /\ DOMAIN s = 1..Len(s) /\ s[1] = Head(s)
         /\ DOMAIN Tail(s) = 1..(Len(s) - 1)
         /\ \A i \in 1..(Len(s) - 1) : Tail(s)[i] = s[i + 1]
  <1>1. /\ Tail(s) \in Seq(Actors) /\ Len(Tail(s)) = Len(s) - 1
        /\ \A i \in 1..Len(Tail(s)) : Tail(s)[i] = s[i + 1]
    BY HeadTailProperties
  <1>2. Len(s) \in Nat /\ DOMAIN s = 1..Len(s) /\ DOMAIN Tail(s) = 1..(Len(s) - 1)
    BY <1>1, LenProperties
  <1>3. Len(s) # 0 /\ s[1] = Head(s)
    BY <1>2, EmptySeq
  <1> QED BY <1>1, <1>2, <1>3

\* The first of a queue has its turn.
LEMMA TurnServed ==
  ASSUME TypeOK, Served, UNCHANGED mutate, NEW a \in Actors, NEW e \in Entries,
         MyTurn(a, e), pc[a] \in Waiting, pc'[a] \notin Waiting,
         waiters' = [waiters EXCEPT ![e] = Tail(@)],
         \A b \in Actors \ {a} : pc'[b] = pc[b] /\ Entry(b)' = Entry(b)
  PROVE  Served'
  <1>1. /\ waiters[e] \in Seq(Actors) /\ waiters[e] # <<>> /\ Head(waiters[e]) = a
        /\ waiters'[e] = Tail(waiters[e])
        /\ \A f \in Entries \ {e} : waiters'[f] = waiters[f]
    BY DEF TypeOK, MyTurn
  <1> DEFINE n == Len(waiters[e])
  <1>2. /\ n \in Nat \ {0} /\ DOMAIN waiters[e] = 1..n /\ waiters[e][1] = a
        /\ DOMAIN waiters'[e] = 1..(n - 1)
        /\ \A i \in 1..(n - 1) : waiters'[e][i] = waiters[e][i + 1]
    BY <1>1, QueueWithoutHead
  <1> HIDE DEF n
  <1>3. \A f \in Entries : \A i \in DOMAIN waiters[f] :
          waiters[f][i] \in Actors /\ pc[waiters[f][i]] \in Waiting /\ Entry(waiters[f][i]) = f
    BY QueuesOfActors DEF Served, WaitersKnown
  <1>4. \A i \in 1..(n - 1) : waiters[e][i + 1] # a
    BY <1>2 DEF Served, WaitersKnown
  <1>5. \A f \in Entries \ {e} : \A i \in DOMAIN waiters[f] : waiters[f][i] # a
    BY <1>2, <1>3
  <1>6. \A f \in Entries : \A i \in DOMAIN waiters'[f] :
          pc'[waiters'[f][i]] \in Waiting /\ job'[waiters'[f][i]].entry = f
    <2> SUFFICES ASSUME NEW f \in Entries, NEW i \in DOMAIN waiters'[f]
                 PROVE  pc'[waiters'[f][i]] \in Waiting /\ job'[waiters'[f][i]].entry = f
      OBVIOUS
    <2>1. CASE f = e
      <3>1. i \in 1..(n - 1) /\ i + 1 \in DOMAIN waiters[e]
        BY <1>2, <2>1
      <3> DEFINE b == waiters[e][i + 1]
      <3>2. b \in Actors /\ pc[b] \in Waiting /\ Entry(b) = e
        BY <1>3, <3>1
      <3>3. b # a /\ waiters'[f][i] = b
        BY <1>2, <1>4, <2>1, <3>1
      <3> HIDE DEF b
      <3> QED BY <2>1, <3>2, <3>3 DEF Entry
    <2>2. CASE f # e
      BY <1>1, <1>3, <1>5, <2>2 DEF Entry
    <2> QED BY <2>1, <2>2
  <1>7. \A f \in Entries : \A i, j \in DOMAIN waiters'[f] :
          waiters'[f][i] = waiters'[f][j] => i = j
    <2>1. \A i, j \in DOMAIN waiters'[e] : waiters'[e][i] = waiters'[e][j] => i = j
      <3> SUFFICES ASSUME NEW i \in 1..(n - 1), NEW j \in 1..(n - 1),
                          waiters[e][i + 1] = waiters[e][j + 1]
                   PROVE  i = j
        <4>1. \A i \in DOMAIN waiters'[e] : i \in 1..(n - 1) /\ waiters'[e][i] = waiters[e][i + 1]
          BY <1>2
        <4> QED BY <4>1
      <3>1. i + 1 \in DOMAIN waiters[e] /\ j + 1 \in DOMAIN waiters[e]
        BY <1>2
      <3>2. i + 1 = j + 1
        BY <3>1 DEF Served, WaitersKnown
      <3> QED BY <1>2, <3>2
    <2> QED BY <1>1, <2>1 DEF Served, WaitersKnown
  <1>8. \A b \in Actors : pc'[b] \in Waiting => Place(b, Entry(b))' # {}
    <2> SUFFICES ASSUME NEW b \in Actors \ {a}, pc[b] \in Waiting
                 PROVE  Place(b, Entry(b))' # {}
      OBVIOUS
    <2>1. PICK i \in DOMAIN waiters[Entry(b)] : waiters[Entry(b)][i] = b
      BY DEF Served, WaitersKnown, Place, Entry
    <2>2. CASE Entry(b) = e
      <3>1. i \in 1..n /\ i # 1
        BY <1>2, <2>1, <2>2
      <3>2. i - 1 \in 1..(n - 1) /\ (i - 1) + 1 = i
        BY <1>2, <3>1
      <3>3. i - 1 \in DOMAIN waiters'[e] /\ waiters'[e][i - 1] = b
        BY <1>2, <2>1, <2>2, <3>2
      <3> QED BY <2>2, <3>3 DEF Place
    <2>3. CASE Entry(b) # e
      <3>1. waiters'[Entry(b)] = waiters[Entry(b)]
        BY <2>3 DEF TypeOK
      <3> QED BY <2>1, <3>1 DEF Place
    <2> QED BY <2>2, <2>3
  <1>9. MutateHeld'
    <2>1. mutate # Nobody => mutate # a
      BY DEF Served, MutateHeld, Waiting
    <2> QED BY <2>1 DEF TypeOK, Served, MutateHeld
  <1> QED BY <1>6, <1>7, <1>8, <1>9 DEF Served, WaitersKnown, Entry

\* One actor moves, and nobody else.
Moves(a) ==
  \E x, j : pc' = [pc EXCEPT ![a] = x] /\ job' = [job EXCEPT ![a] = j]

LEMMA OneMoves ==
  ASSUME TypeOK, NEW a \in Actors, Moves(a)
  PROVE  \A b \in Actors \ {a} : pc'[b] = pc[b] /\ Entry(b)' = Entry(b)
  BY DEF Moves, TypeOK, Entry

\* The steps of a verb of the session.
LEMMA VerbServed ==
  ASSUME IndInv, Served, NEW t \in Tasks, VerbStep(t)
  PROVE  Served'
  <1>0. TypeOK /\ t \in Actors /\ Waiting \cup Ending = {"queued", "thawing", "closing", "starting"}
    BY DEF IndInv, Actors, Waiting, Ending
  <1>1. CASE \E v \in LockedVerbs, c \in Clients : VerbArrive(t, v, c)
    <2>1. PICK v \in LockedVerbs, c \in Clients : VerbArrive(t, v, c)
      BY <1>1
    <2>2. Moves(t) /\ UNCHANGED <<waiters, mutate>> /\ pc[t] = "idle" /\ pc'[t] = "gated"
      BY <1>0, <2>1 DEF VerbArrive, Goto, Moves, locks, TypeOK
    <2> QED BY <1>0, <2>2, OneMoves, OthersServed DEF Waiting
  <1>2. CASE VerbQueue(t)
    <2>1. Entry(t) \in Entries
      BY <1>0, <1>2 DEF VerbQueue, IndInv, UsersCurrent, Users
    <2>2. /\ pc[t] = "gated" /\ pc'[t] = "queued" /\ UNCHANGED <<mutate, job>>
          /\ pc' = [pc EXCEPT ![t] = "queued"]
          /\ waiters' = [waiters EXCEPT ![Entry(t)] = Append(@, t)]
      BY <1>0, <1>2 DEF VerbQueue, Goto, TypeOK
    <2>3. /\ \A b \in Actors \ {t} : pc'[b] = pc[b] /\ Entry(b)' = Entry(b)
          /\ Entry(t)' = Entry(t)
      BY <2>2 DEF Entry, TypeOK
    <2> QED BY <1>0, <2>1, <2>2, <2>3, JoinServed DEF Waiting
  <1>3. CASE VerbRun(t)
    <2>1. /\ Moves(t) /\ UNCHANGED mutate /\ pc'[t] = "driving"
      BY <1>0, <1>3 DEF VerbRun, Handle, Goto, Moves, TypeOK
    <2>2. CASE pc[t] = "gated" /\ UNCHANGED waiters
      BY <1>0, <2>1, <2>2, OneMoves, OthersServed DEF Waiting
    <2>3. CASE pc[t] = "queued" /\ MyTurn(t, Entry(t))
               /\ waiters' = [waiters EXCEPT ![Entry(t)] = Tail(@)]
      <3>1. Entry(t) \in Entries
        BY <1>0, <2>3 DEF IndInv, UsersCurrent, Users
      <3> QED BY <1>0, <2>1, <2>3, <3>1, OneMoves, TurnServed DEF Waiting
    <2> QED BY <1>3, <2>2, <2>3 DEF VerbRun
  <1>4. CASE VerbReturns(t) \/ VerbRaises(t) \/ VerbCrashes(t) \/ HealFails(t) \/ RelaunchDown(t)
    <2>1. /\ Moves(t) /\ UNCHANGED <<waiters, mutate>> /\ pc[t] \in Locking
          /\ pc'[t] \in {"idle", "healing", "relaunching"}
      BY <1>0, <1>4 DEF VerbReturns, VerbRaises, VerbCrashes, HealFails, RelaunchDown, Goto, End,
                        Moves, TypeOK, locks, Locking
    <2> QED BY <1>0, <2>1, OneMoves, OthersServed DEF Waiting, Locking
  <1>5. CASE Revive(t) \/ RelaunchUp(t)
    <2>1. PICK page : RetryOrReport(t, page)
      BY <1>5 DEF Revive, RelaunchUp
    <2>2. Moves(t) /\ pc'[t] \in {"idle", "driving"}
      BY <1>0, <2>1 DEF RetryOrReport, Goto, End, Moves, TypeOK
    <2>3. UNCHANGED <<waiters, mutate>> /\ pc[t] \in Locking
      BY <1>5 DEF Revive, RelaunchUp, Locking
    <2> QED BY <1>0, <2>2, <2>3, OneMoves, OthersServed DEF Waiting, Locking
  <1> QED BY <1>1, <1>2, <1>3, <1>4, <1>5 DEF VerbStep

\* The steps of a page wait or a checkpoint.
LEMMA WaitServed ==
  ASSUME IndInv, Served, NEW t \in Tasks, WaitStep(t)
  PROVE  Served'
  <1>0. TypeOK /\ t \in Actors /\ Waiting \cup Ending = {"queued", "thawing", "closing", "starting"}
    BY DEF IndInv, Actors, Waiting, Ending
  <1>1. CASE WaitBegins(t) \/ WaitEnds(t) \/ CheckpointBegins(t) \/ CheckpointEnds(t)
    <2>1. /\ Moves(t) /\ UNCHANGED <<waiters, mutate>> /\ pc[t] \in {"idle", "waiting", "saving"}
          /\ pc'[t] \in {"idle", "waiting", "saving"}
      BY <1>0, <1>1 DEF WaitBegins, WaitArrives, WaitEnds, CheckpointBegins, CheckpointEnds, Goto,
                        End, Moves, TypeOK, locks
    <2> QED BY <1>0, <2>1, OneMoves, OthersServed DEF Waiting
  <1>2. CASE WaitQueues(t)
    <2>1. current \in Entries
      BY <1>0, <1>2 DEF WaitQueues, WaitArrives, TypeOK
    <2>2. /\ Moves(t) /\ pc[t] = "idle" /\ pc'[t] = "thawing" /\ UNCHANGED mutate
          /\ Entry(t)' = current
          /\ waiters' = [waiters EXCEPT ![current] = Append(@, t)]
      BY <1>0, <1>2 DEF WaitQueues, WaitArrives, Goto, Moves, TypeOK, Entry, NoJob
    <2> QED BY <1>0, <2>1, <2>2, OneMoves, JoinServed DEF Waiting
  <1>3. CASE WaitThawed(t)
    <2>1. Entry(t) \in Entries
      BY <1>0, <1>3 DEF WaitThawed, IndInv, UsersCurrent, Users, Counting
    <2>2. /\ Moves(t) /\ pc[t] = "thawing" /\ pc'[t] = "waiting" /\ UNCHANGED mutate
          /\ MyTurn(t, Entry(t)) /\ waiters' = [waiters EXCEPT ![Entry(t)] = Tail(@)]
      BY <1>0, <1>3 DEF WaitThawed, Goto, Moves, TypeOK
    <2> QED BY <1>0, <2>1, <2>2, OneMoves, TurnServed DEF Waiting
  <1> QED BY <1>1, <1>2, <1>3 DEF WaitStep

\* mutate_lock passes from one to the next.
LEMMA CloseServed ==
  ASSUME IndInv, Served, NEW a \in Actors, pc[a] = "closeQueued",
         \/ mutate = Nobody /\ PopSession(a)
         \/ End(a) /\ UNCHANGED mutate,
         UNCHANGED waiters
  PROVE  Served'
  <1>0. TypeOK
    BY DEF IndInv
  <1>1. CASE PopSession(a)
    <2>1. Moves(a) /\ mutate' = a /\ pc'[a] = "closing"
      BY <1>0, <1>1 DEF PopSession, Goto, Moves, TypeOK
    <2> QED BY <1>0, <2>1, OneMoves, LockMoves DEF Waiting, Ending
  <1>2. CASE End(a) /\ UNCHANGED mutate
    <2>1. Moves(a) /\ pc'[a] = "idle"
      BY <1>0, <1>2 DEF End, Goto, Moves, TypeOK
    <2> QED BY <1>0, <1>2, <2>1, OneMoves, OthersServed DEF Waiting, Ending
  <1> QED BY <1>1, <1>2

LEMMA CloseEndsServed ==
  ASSUME IndInv, Served, NEW a \in Actors, CloseEnds(a)
  PROVE  Served'
  <1>1. TypeOK /\ Moves(a) /\ UNCHANGED waiters /\ mutate' = Nobody
        /\ pc[a] = "closing" /\ pc'[a] = "idle"
    BY DEF IndInv, CloseEnds, End, Goto, Moves, TypeOK, locks
  <1> QED BY <1>1, OneMoves, LockMoves DEF Waiting

LEMMA RegistryServed ==
  ASSUME IndInv, Served, NEW t \in Tasks, RegistryStep(t)
  PROVE  Served'
  <1>0. TypeOK /\ t \in Actors
    BY DEF IndInv, Actors
  <1>1. CASE \E c \in Clients : CloseArrive(t, c)
    <2>1. /\ Moves(t) /\ UNCHANGED <<waiters, mutate>> /\ pc[t] = "idle"
          /\ pc'[t] = "closeQueued"
      BY <1>0, <1>1 DEF CloseArrive, Goto, Moves, TypeOK, locks
    <2> QED BY <1>0, <2>1, OneMoves, OthersServed DEF Waiting, Ending
  <1>2. CASE CloseRun(t)
    BY <1>0, <1>2, CloseServed DEF CloseRun, locks
  <1>3. CASE CloseEnds(t)
    BY <1>0, <1>3, CloseEndsServed
  <1>4. CASE StartRun(t)
    <2>1. Moves(t) /\ UNCHANGED waiters /\ mutate' = t /\ pc[t] = "idle" /\ pc'[t] = "starting"
      BY <1>0, <1>4 DEF StartRun, Goto, Moves, TypeOK, locks
    <2> QED BY <1>0, <2>1, OneMoves, LockMoves DEF Waiting, Ending
  <1>5. CASE StartEnds(t)
    <2>1. PICK x \in {"idle", "going"}, j \in Jobs :
            pc' = [pc EXCEPT ![t] = x] /\ job' = [job EXCEPT ![t] = j]
      BY <1>0, <1>5, StartEndsShape
    <2>2. Moves(t) /\ UNCHANGED waiters /\ mutate' = Nobody /\ pc[t] = "starting"
          /\ pc'[t] \in {"idle", "going"}
      BY <1>0, <1>5, <2>1 DEF StartEnds, Moves, TypeOK, locks
    <2> QED BY <1>0, <2>2, OneMoves, LockMoves DEF Waiting, Ending
  <1>6. CASE GoRun(t) /\ current = NoEntry
    <2>1. Moves(t) /\ UNCHANGED waiters /\ mutate' = t /\ pc[t] = "goQueued"
          /\ pc'[t] = "starting"
      BY <1>0, <1>6 DEF GoRun, Goto, Moves, TypeOK, locks
    <2> QED BY <1>0, <2>1, OneMoves, LockMoves DEF Waiting, Ending
  <1>7. CASE GoArrive(t) \/ GoEnds(t) \/ (GoRun(t) /\ current # NoEntry)
    <2>1. /\ Moves(t) /\ UNCHANGED <<waiters, mutate>>
          /\ pc[t] \in {"idle", "goQueued", "going"} /\ pc'[t] \in {"idle", "goQueued", "going"}
      BY <1>0, <1>7 DEF GoArrive, GoEnds, GoRun, End, Goto, Moves, TypeOK, locks
    <2> QED BY <1>0, <2>1, OneMoves, OthersServed DEF Waiting, Ending
  <1> QED BY <1>1, <1>2, <1>3, <1>4, <1>5, <1>6, <1>7 DEF RegistryStep

\* The freezer and the reaper.
LEMMA LoopsServed ==
  ASSUME IndInv, Served, FreezeQueues \/ FreezeRun \/ ReapPoll \/ ReapRun \/ CloseEnds(Reaper)
  PROVE  Served'
  <1>0. TypeOK /\ Freezer \in Actors /\ Reaper \in Actors
    BY DEF IndInv, Actors
  <1>1. CASE FreezeQueues
    <2>1. current \in Entries
      BY <1>0, <1>1 DEF FreezeQueues, TypeOK
    <2>2. job[Freezer] \in Jobs
      BY <1>0 DEF TypeOK
    <2>3. [job[Freezer] EXCEPT !.entry = current].entry = current
      BY <2>2 DEF Jobs
    <2>4. /\ Moves(Freezer) /\ pc[Freezer] = "idle" /\ pc'[Freezer] = "queued"
          /\ UNCHANGED mutate /\ Entry(Freezer)' = current
          /\ waiters' = [waiters EXCEPT ![current] = Append(@, Freezer)]
      BY <1>0, <1>1, <2>3 DEF FreezeQueues, Goto, Moves, TypeOK, Entry
    <2> QED BY <1>0, <2>1, <2>4, OneMoves, JoinServed DEF Waiting, Ending
  <1>2. CASE FreezeRun
    <2>1. Entry(Freezer) \in Entries
      BY <1>0, <1>2 DEF FreezeRun, IndInv, UsersCurrent, Users
    <2>2. /\ Moves(Freezer) /\ pc[Freezer] = "queued" /\ pc'[Freezer] = "idle"
          /\ UNCHANGED mutate /\ MyTurn(Freezer, Entry(Freezer))
          /\ waiters' = [waiters EXCEPT ![Entry(Freezer)] = Tail(@)]
      BY <1>0, <1>2 DEF FreezeRun, End, Goto, Moves, TypeOK
    <2> QED BY <1>0, <2>1, <2>2, OneMoves, TurnServed DEF Waiting
  <1>3. CASE ReapPoll
    <2>1. /\ pc[Reaper] = "idle" /\ pc'[Reaper] = "closeQueued" /\ UNCHANGED <<waiters, mutate>>
          /\ \A b \in Actors \ {Reaper} : pc'[b] = pc[b] /\ Entry(b)' = Entry(b)
      BY <1>0, <1>3 DEF ReapPoll, Goto, TypeOK, Entry, locks
    <2> QED BY <1>0, <2>1, OthersServed DEF Waiting, Ending
  <1>4. CASE ReapRun
    BY <1>0, <1>4, CloseServed DEF ReapRun, locks
  <1>5. CASE CloseEnds(Reaper)
    BY <1>0, <1>5, CloseEndsServed
  <1> QED BY <1>1, <1>2, <1>3, <1>4, <1>5

LEMMA AllServed == IndInv /\ Served /\ [Next]_vars => Served'
  <1> SUFFICES ASSUME IndInv, Served, [Next]_vars  PROVE Served'
    OBVIOUS
  <1>1. CASE \E t \in Tasks : VerbStep(t) \/ WaitStep(t) \/ RegistryStep(t)
    BY <1>1, VerbServed, WaitServed, RegistryServed
  <1>2. CASE FreezeQueues \/ FreezeRun \/ ReapPoll \/ ReapRun \/ CloseEnds(Reaper)
    BY <1>2, LoopsServed
  <1>3. ASSUME UNCHANGED <<waiters, mutate, pc, job>>  PROVE Served'
    BY <1>3 DEF Served, WaitersKnown, MutateHeld, Place, Entry
  <1>4. CASE \/ FreezePoll \/ Unlease \/ LeaseExpires \/ Tick \/ UNCHANGED vars
             \/ \E c \in Clients : Lease(c)
             \/ \E c \in Chromes : ChromeDies(c)
    BY <1>3, <1>4 DEF FreezePoll, Unlease, LeaseExpires, Tick, vars, Lease, ChromeDies, locks
  <1> QED BY <1>1, <1>2, <1>4 DEF Next

\* Who waits for entry.lock is in its queue, and in no other, and a lock that is
\* taken has somebody running inside it who waits for none: nobody waits for
\* what nobody gives, for any number of requests, entries and Chromes, closes
\* that take the entry away and Chromes that die included.
THEOREM EverybodyIsServed == Spec => []NobodyIsForgotten
  <1>1. Init => Served
    BY DEF Init, Served, WaitersKnown, MutateHeld, Waiting
  <1>2. IndInv /\ Served => NobodyIsForgotten
    BY DEF IndInv, HoldersHold, Served, NobodyIsForgotten
  <1> QED BY <1>1, <1>2, Inductive, AllServed, PTL DEF Spec

==============================================================================
