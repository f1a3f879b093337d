--------------------------- MODULE Ambient_proofs ---------------------------
(***************************************************************************)
(* IndInv of Ambient is inductive, for any requests, states and entries.   *)
(* The verbs in flight are counted with the theorems on finite sets.       *)
(***************************************************************************)
EXTENDS Ambient, FiniteSetTheorems, TLAPS

\* The sets that are counted are finite.
LEMMA Finite ==
  /\ IsFiniteSet(Begun) /\ Cardinality(Begun) \in Nat
  /\ \A e : IsFiniteSet(Waits(e)) /\ Cardinality(Waits(e)) \in Nat
  <1>1. IsFiniteSet(Begun)
    BY TasksFinite, FS_Subset DEF Begun
  <1>2. \A e : IsFiniteSet(Waits(e))
    BY <1>1, FS_Subset DEF Waits
  <1> QED BY <1>1, <1>2, FS_CardinalityType

\* A verb begins: one more is in flight, one more wait if it is one.
LEMMA BeginCounts ==
  ASSUME TypeOK, NEW t \in Tasks, pc[t] = "idle", NEW x, x # "idle", NEW j,
         pc' = [pc EXCEPT ![t] = x], job' = [job EXCEPT ![t] = j]
  PROVE  /\ t \notin Begun /\ Begun' = Begun \cup {t} /\ Cardinality(Begun') = Cardinality(Begun) + 1
         /\ \A e : /\ j.verb = "wait" /\ j.entry = e =>
                        Cardinality(Waits(e)') = Cardinality(Waits(e)) + 1
                   /\ ~(j.verb = "wait" /\ j.entry = e) => Waits(e)' = Waits(e)
  <1>1. t \notin Begun /\ Begun' = Begun \cup {t}
    BY DEF TypeOK, Begun
  <1>2. ASSUME NEW e
        PROVE  /\ t \notin Waits(e)
               /\ j.verb = "wait" /\ j.entry = e => Waits(e)' = Waits(e) \cup {t}
               /\ ~(j.verb = "wait" /\ j.entry = e) => Waits(e)' = Waits(e)
    BY <1>1 DEF TypeOK, Begun, Waits
  <1>3. Cardinality(Begun') = Cardinality(Begun) + 1
    BY <1>1, Finite, FS_AddElement
  <1>4. ASSUME NEW e, Waits(e)' = Waits(e) \cup {t}
        PROVE  Cardinality(Waits(e)') = Cardinality(Waits(e)) + 1
    BY <1>2, <1>4, Finite, FS_AddElement, ZenonT(30)
  <1> QED BY <1>1, <1>2, <1>3, <1>4

\* A verb ends.
LEMMA EndCounts ==
  ASSUME TypeOK, NEW t \in Tasks, pc[t] # "idle",
         pc' = [pc EXCEPT ![t] = "idle"], job' = [job EXCEPT ![t] = NoJob]
  PROVE  /\ t \in Begun /\ Begun' = Begun \ {t}
         /\ Cardinality(Begun') = Cardinality(Begun) - 1 /\ Cardinality(Begun) # 0
         /\ \A e : /\ job[t].verb = "wait" /\ job[t].entry = e =>
                        /\ Cardinality(Waits(e)') = Cardinality(Waits(e)) - 1
                        /\ Cardinality(Waits(e)) # 0
                   /\ ~(job[t].verb = "wait" /\ job[t].entry = e) => Waits(e)' = Waits(e)
  <1>1. t \in Begun /\ Begun' = Begun \ {t}
    BY DEF TypeOK, Begun
  <1>2. ASSUME NEW e
        PROVE  /\ job[t].verb = "wait" /\ job[t].entry = e =>
                    t \in Waits(e) /\ Waits(e)' = Waits(e) \ {t}
               /\ ~(job[t].verb = "wait" /\ job[t].entry = e) => Waits(e)' = Waits(e)
    BY <1>1 DEF TypeOK, Begun, Waits
  <1>3. Cardinality(Begun') = Cardinality(Begun) - 1 /\ Cardinality(Begun) # 0
    BY <1>1, Finite, FS_RemoveElement, FS_EmptySet
  <1>4. ASSUME NEW e, t \in Waits(e), Waits(e)' = Waits(e) \ {t}
        PROVE  /\ Cardinality(Waits(e)') = Cardinality(Waits(e)) - 1
               /\ Cardinality(Waits(e)) # 0
    BY <1>4, Finite, FS_RemoveElement, FS_EmptySet
  <1> QED BY <1>1, <1>2, <1>3, <1>4

\* Steps in which no verb begins or ends.
LEMMA SameCounts ==
  ASSUME \A u \in Tasks : pc'[u] = "idle" <=> pc[u] = "idle", job' = job
  PROVE  Begun' = Begun /\ \A e : Waits(e)' = Waits(e)
  BY DEF Begun, Waits

\* What verb_end leaves is well typed.
LEMMA EndTypes ==
  ASSUME TypeOK, NEW v, VerbEnd(v)
  PROVE  /\ busy' \in Nat /\ pinned' \in BOOLEAN /\ parked' \in BOOLEAN
         /\ looked' \in BOOLEAN /\ parkedByAgent' \in BOOLEAN
  <1>1. busy' \in Nat
    BY DEF TypeOK, VerbEnd, marks
  <1>2. pinned' \in BOOLEAN /\ parked' \in BOOLEAN
    BY Zenon DEF TypeOK, VerbEnd, marks
  <1>3. looked' \in BOOLEAN /\ parkedByAgent' \in BOOLEAN
    BY Zenon DEF TypeOK, VerbEnd, EndHistory
  <1> QED BY <1>1, <1>2, <1>3

\* A locked verb is counted and cancels the burst; a look waits for a notch.
LEMMA LockedBeginKeeps ==
  ASSUME IndInv, NEW t \in Tasks, NEW v \in Locked, LockedBegin(t, v)
  PROVE  IndInv'
  <1> DEFINE x == IF MustSettle(v) THEN "settling" ELSE "queued"
             j == [verb |-> v, entry |-> entry]
  <1>b. /\ TypeOK /\ pc[t] = "idle" /\ x # "idle" /\ j.verb = v /\ j.entry = entry
        /\ pc' = [pc EXCEPT ![t] = x] /\ job' = [job EXCEPT ![t] = j]
    BY DEF IndInv, LockedBegin, Goto
  <1> HIDE DEF x, j
  <1>0. /\ t \notin Begun /\ Begun' = Begun \cup {t} /\ Cardinality(Begun') = Cardinality(Begun) + 1
        /\ \A e : /\ v = "wait" /\ entry = e =>
                       Cardinality(Waits(e)') = Cardinality(Waits(e)) + 1
                  /\ ~(v = "wait" /\ entry = e) => Waits(e)' = Waits(e)
    BY <1>b, BeginCounts
  <1>1. TypeOK'
    BY <1>0
       DEF IndInv, TypeOK, LockedBegin, VerbBegin, Cancel, BeginHistory, Quiet, Goto, Verbs,
           InFlight
  <1>2. MoverIsRegistered'
    BY <1>0 DEF IndInv, MoverIsRegistered, LockedBegin
  <1>3. JobsNamed'
    BY <1>0 DEF IndInv, TypeOK, JobsNamed, LockedBegin, Goto, Verbs
  <1>4. Counts'
    BY <1>0, Finite DEF IndInv, TypeOK, Counts, LockedBegin, VerbBegin, Cancel, Locked
  <1>5. Respects'
    BY <1>0
       DEF IndInv, TypeOK, Respects, LockedBegin, VerbBegin, MustSettle, Cancel,
           BeginHistory, Goto
  <1>6. CountedVerbsUndisturbed' /\ LookStaysTrue' /\ ParkedStays'
    BY <1>0
       DEF CountedVerbsUndisturbed, MoverYields, LookStaysTrue, ParkedStays, LockedBegin,
           Quiet
  <1> QED BY <1>1, <1>2, <1>3, <1>4, <1>5, <1>6 DEF IndInv

\* A verb gets the lock.
LEMMA LockedRunKeeps ==
  ASSUME IndInv, NEW t \in Tasks, LockedRun(t)
  PROVE  IndInv'
  <1>0. Begun' = Begun /\ \A e : Waits(e)' = Waits(e)
    BY SameCounts DEF IndInv, TypeOK, LockedRun, Goto, mover, marks
  <1>1. TypeOK'
    BY <1>0 DEF IndInv, TypeOK, LockedRun, mover, marks, past, Quiet, Goto, InFlight
  <1>2. MoverIsRegistered'
    BY <1>0 DEF IndInv, MoverIsRegistered, LockedRun, mover
  <1>3. JobsNamed'
    BY <1>0 DEF IndInv, JobsNamed, LockedRun, Goto
  <1>4. Counts'
    BY <1>0 DEF IndInv, Counts, LockedRun, mover, marks
  <1>5. Respects'
    BY <1>0 DEF IndInv, Respects, LockedRun, mover, marks, past, Goto
  <1>6. CountedVerbsUndisturbed' /\ LookStaysTrue' /\ ParkedStays'
    BY <1>0
       DEF CountedVerbsUndisturbed, MoverYields, LookStaysTrue, ParkedStays, LockedRun,
           Quiet
  <1> QED BY <1>1, <1>2, <1>3, <1>4, <1>5, <1>6 DEF IndInv

\* A locked verb ends on the state that is registered now.
LEMMA LockedEndKeeps ==
  ASSUME IndInv, NEW t \in Tasks, LockedEnd(t)
  PROVE  IndInv'
  <1>0. /\ t \in Begun /\ Begun' = Begun \ {t}
        /\ Cardinality(Begun') = Cardinality(Begun) - 1 /\ Cardinality(Begun) # 0
        /\ \A e : /\ job[t].verb = "wait" /\ job[t].entry = e =>
                       /\ Cardinality(Waits(e)') = Cardinality(Waits(e)) - 1
                       /\ Cardinality(Waits(e)) # 0
                  /\ ~(job[t].verb = "wait" /\ job[t].entry = e) => Waits(e)' = Waits(e)
    BY EndCounts DEF IndInv, LockedEnd, Finish, Goto
  <1>a. busy' \in Nat /\ pinned' \in BOOLEAN /\ parked' \in BOOLEAN
        /\ looked' \in BOOLEAN /\ parkedByAgent' \in BOOLEAN
    BY EndTypes DEF IndInv, LockedEnd
  <1>b. UNCHANGED <<st, burst>> /\ (st # NoState => busy' = IF busy = 0 THEN 0 ELSE busy - 1)
    BY DEF LockedEnd, mover, VerbEnd
  <1>1. TypeOK'
    <2>1. entry' \in Entries \cup {NoEntry} /\ st' \in States \cup {NoState} /\ of' \in [States -> Entries \cup {NoEntry}]
          /\ stopped' \subseteq States /\ lastWheel' \in BOOLEAN /\ out' \in {"none", "move", "wheel"}
          /\ burst' \in [States -> {"none", "probing", "moving", "scrolling"}] /\ tail' \in BOOLEAN
      BY DEF IndInv, TypeOK, LockedEnd, mover, Quiet
    <2>2. /\ holder' \in [Entries -> Tasks \cup {Nobody}]
          /\ pc' \in [Tasks -> InFlight \cup {"idle"}]
          /\ job' \in [Tasks -> [verb : Verbs \cup {"none"}, entry : Entries \cup {NoEntry}]]
      BY DEF IndInv, TypeOK, LockedEnd, Unlock, Finish, Goto, NoJob
    <2>3. inflight' \in [Entries -> Nat]
      <3>1. job[t].verb = "wait" => job[t].entry \in Entries /\ inflight[job[t].entry] # 0
        BY <1>0 DEF IndInv, JobsNamed, Counts, NoJob
      <3> QED BY <3>1 DEF IndInv, TypeOK, LockedEnd
    <2>4. muddled' \in BOOLEAN
      BY DEF IndInv, TypeOK, LockedEnd, StillMuddled
    <2> QED BY <1>a, <2>1, <2>2, <2>3, <2>4 DEF TypeOK
  <1>2. MoverIsRegistered'
    BY <1>0 DEF IndInv, MoverIsRegistered, LockedEnd, mover
  <1>3. JobsNamed'
    BY <1>0 DEF IndInv, TypeOK, JobsNamed, LockedEnd, Finish, Goto
  <1>4. Counts'
    <2>1. \A e \in Entries : inflight'[e] = Cardinality(Waits(e)')
      BY <1>0, Finite DEF IndInv, TypeOK, JobsNamed, Counts, LockedEnd, Locked, Unlocked
    <2>2. st' # NoState => busy' <= Cardinality(Begun')
      <3>1. /\ busy \in Nat /\ Cardinality(Begun) \in Nat /\ Cardinality(Begun) # 0
            /\ Cardinality(Begun') = Cardinality(Begun) - 1
            /\ st # NoState => busy <= Cardinality(Begun)
        BY <1>0, Finite DEF IndInv, TypeOK, Counts
      <3> QED BY <1>b, <3>1
    <2>3. ~muddled' /\ st' # NoState =>
            busy' = Cardinality(Begun') /\ (Begun' # {} => burst'[st'] = "none")
      <3>1. CASE ~muddled
        BY <1>0, <1>b, <3>1, Finite DEF IndInv, TypeOK, Counts
      <3>2. CASE muddled
        <4>1. ~muddled' => Begun' = {} /\ Cardinality(Begun') = 0
          BY <1>0, <3>2, FS_EmptySet DEF LockedEnd, StillMuddled, Others, Begun
        <4> QED BY <1>0, <1>b, <2>2, <4>1, Finite DEF IndInv, TypeOK
      <3> QED BY <3>1, <3>2
    <2> QED BY <2>1, <2>2, <2>3 DEF Counts
  <1>5. Respects'
    BY <1>0, AbsentDiffer
       DEF IndInv, TypeOK, MoverIsRegistered, Counts, Respects, LockedEnd, VerbEnd, Finish,
           StillMuddled, EndHistory, mover, Goto
  <1>6. CountedVerbsUndisturbed' /\ LookStaysTrue' /\ ParkedStays'
    BY <1>0
       DEF CountedVerbsUndisturbed, MoverYields, LookStaysTrue, ParkedStays, LockedEnd,
           Quiet
  <1> QED BY <1>1, <1>2, <1>3, <1>4, <1>5, <1>6 DEF IndInv

\* A page wait or plugin verb is counted and cancels the burst.
LEMMA UnlockedBeginKeeps ==
  ASSUME IndInv, NEW t \in Tasks, NEW v \in Unlocked, UnlockedBegin(t, v)
  PROVE  IndInv'
  <1> DEFINE x == "driving"
             j == [verb |-> v, entry |-> entry]
  <1>b. /\ TypeOK /\ pc[t] = "idle" /\ x # "idle" /\ j.verb = v /\ j.entry = entry
        /\ pc' = [pc EXCEPT ![t] = x] /\ job' = [job EXCEPT ![t] = j]
    BY DEF IndInv, UnlockedBegin, Goto
  <1> HIDE DEF x, j
  <1>0. /\ t \notin Begun /\ Begun' = Begun \cup {t} /\ Cardinality(Begun') = Cardinality(Begun) + 1
        /\ \A e : /\ v = "wait" /\ entry = e =>
                       Cardinality(Waits(e)') = Cardinality(Waits(e)) + 1
                  /\ ~(v = "wait" /\ entry = e) => Waits(e)' = Waits(e)
    BY <1>b, BeginCounts
  <1>1. TypeOK'
    BY <1>0
       DEF IndInv, TypeOK, UnlockedBegin, VerbBegin, Cancel, BeginHistory, Quiet, Goto,
           Verbs, InFlight
  <1>2. MoverIsRegistered'
    BY <1>0 DEF IndInv, MoverIsRegistered, UnlockedBegin
  <1>3. JobsNamed'
    BY <1>0 DEF IndInv, TypeOK, JobsNamed, UnlockedBegin, Goto, Verbs
  <1>4. Counts'
    BY <1>0, Finite DEF IndInv, TypeOK, Counts, UnlockedBegin, VerbBegin, Cancel
  <1>5. Respects'
    BY <1>0
       DEF IndInv, TypeOK, Respects, UnlockedBegin, VerbBegin, Cancel, BeginHistory, Goto,
           Unlocked, Coordinate
  <1>6. CountedVerbsUndisturbed' /\ LookStaysTrue' /\ ParkedStays'
    BY <1>0
       DEF CountedVerbsUndisturbed, MoverYields, LookStaysTrue, ParkedStays, UnlockedBegin,
           Quiet
  <1> QED BY <1>1, <1>2, <1>3, <1>4, <1>5, <1>6 DEF IndInv

\* The session of a go runs: no mover moves unless the go is muddled.
LEMMA StartDrivesKeeps ==
  ASSUME IndInv, NEW t \in Tasks, StartDrives(t)
  PROVE  IndInv'
  <1>0. /\ \A u \in Tasks : job'[u].verb = job[u].verb
        /\ \A u \in Tasks \ {t} : job'[u] = job[u]
        /\ job[t].verb = "start" /\ pc[t] # "idle" /\ UNCHANGED pc
    BY DEF IndInv, TypeOK, StartDrives
  <1>a. Begun' = Begun /\ \A e : Waits(e)' = Waits(e)
    BY <1>0 DEF Begun, Waits
  <1>1. TypeOK'
    BY DEF IndInv, TypeOK, StartDrives, mover, marks, past, Quiet
  <1>2. MoverIsRegistered'
    BY DEF IndInv, MoverIsRegistered, StartDrives, mover
  <1>3. JobsNamed'
    BY <1>0 DEF IndInv, TypeOK, JobsNamed, StartDrives
  <1>4. Counts'
    BY <1>a DEF IndInv, Counts, StartDrives, mover, marks
  <1>5. Respects'
    BY <1>0, <1>a
       DEF IndInv, Respects, StartDrives, mover, marks, past, Coordinate, Begun
  <1>6. CountedVerbsUndisturbed' /\ LookStaysTrue' /\ ParkedStays'
    BY DEF CountedVerbsUndisturbed, MoverYields, LookStaysTrue, ParkedStays, StartDrives,
           Quiet
  <1> QED BY <1>1, <1>2, <1>3, <1>4, <1>5, <1>6 DEF IndInv

\* A page wait or plugin verb ends.
LEMMA UnlockedEndKeeps ==
  ASSUME IndInv, NEW t \in Tasks, UnlockedEnd(t)
  PROVE  IndInv'
  <1>0. /\ t \in Begun /\ Begun' = Begun \ {t}
        /\ Cardinality(Begun') = Cardinality(Begun) - 1 /\ Cardinality(Begun) # 0
        /\ \A e : /\ job[t].verb = "wait" /\ job[t].entry = e =>
                       /\ Cardinality(Waits(e)') = Cardinality(Waits(e)) - 1
                       /\ Cardinality(Waits(e)) # 0
                  /\ ~(job[t].verb = "wait" /\ job[t].entry = e) => Waits(e)' = Waits(e)
    BY EndCounts DEF IndInv, UnlockedEnd, Finish, Goto
  <1>a. busy' \in Nat /\ pinned' \in BOOLEAN /\ parked' \in BOOLEAN
        /\ looked' \in BOOLEAN /\ parkedByAgent' \in BOOLEAN
    BY EndTypes DEF IndInv, UnlockedEnd
  <1>b. UNCHANGED <<st, burst>> /\ (st # NoState => busy' = IF busy = 0 THEN 0 ELSE busy - 1)
    BY DEF UnlockedEnd, mover, VerbEnd
  <1>1. TypeOK'
    <2>1. entry' \in Entries \cup {NoEntry} /\ st' \in States \cup {NoState} /\ of' \in [States -> Entries \cup {NoEntry}]
          /\ stopped' \subseteq States /\ lastWheel' \in BOOLEAN /\ out' \in {"none", "move", "wheel"}
          /\ burst' \in [States -> {"none", "probing", "moving", "scrolling"}] /\ tail' \in BOOLEAN
      BY DEF IndInv, TypeOK, UnlockedEnd, mover, Quiet
    <2>2. /\ holder' \in [Entries -> Tasks \cup {Nobody}]
          /\ pc' \in [Tasks -> InFlight \cup {"idle"}]
          /\ job' \in [Tasks -> [verb : Verbs \cup {"none"}, entry : Entries \cup {NoEntry}]]
      BY DEF IndInv, TypeOK, UnlockedEnd, Unlock, Finish, Goto, NoJob
    <2>3. inflight' \in [Entries -> Nat]
      <3>1. job[t].verb = "wait" => job[t].entry \in Entries /\ inflight[job[t].entry] # 0
        BY <1>0 DEF IndInv, JobsNamed, Counts, NoJob
      <3>2. job[t].verb = "wait" => inflight[job[t].entry] - 1 \in Nat
        BY <3>1 DEF IndInv, TypeOK
      <3>3. CASE job[t].verb = "wait"
        BY <3>2, <3>3 DEF IndInv, TypeOK, UnlockedEnd
      <3>4. CASE job[t].verb # "wait"
        BY <3>4 DEF IndInv, TypeOK, UnlockedEnd
      <3> QED BY <3>3, <3>4
    <2>4. muddled' \in BOOLEAN
      BY DEF IndInv, TypeOK, UnlockedEnd, StillMuddled
    <2> QED BY <1>a, <2>1, <2>2, <2>3, <2>4 DEF TypeOK
  <1>2. MoverIsRegistered'
    BY <1>0 DEF IndInv, MoverIsRegistered, UnlockedEnd, mover
  <1>3. JobsNamed'
    BY <1>0 DEF IndInv, TypeOK, JobsNamed, UnlockedEnd, Finish, Goto
  <1>4. Counts'
    <2>1. \A e \in Entries : inflight'[e] = Cardinality(Waits(e)')
      BY <1>0, Finite DEF IndInv, TypeOK, JobsNamed, Counts, UnlockedEnd, Locked, Unlocked
    <2>2. st' # NoState => busy' <= Cardinality(Begun')
      <3>1. /\ busy \in Nat /\ Cardinality(Begun) \in Nat /\ Cardinality(Begun) # 0
            /\ Cardinality(Begun') = Cardinality(Begun) - 1
            /\ st # NoState => busy <= Cardinality(Begun)
        BY <1>0, Finite DEF IndInv, TypeOK, Counts
      <3> QED BY <1>b, <3>1
    <2>3. ~muddled' /\ st' # NoState =>
            busy' = Cardinality(Begun') /\ (Begun' # {} => burst'[st'] = "none")
      <3>1. CASE ~muddled
        BY <1>0, <1>b, <3>1, Finite DEF IndInv, TypeOK, Counts
      <3>2. CASE muddled
        <4>1. ~muddled' => Begun' = {} /\ Cardinality(Begun') = 0
          BY <1>0, <3>2, FS_EmptySet DEF UnlockedEnd, StillMuddled, Others, Begun
        <4> QED BY <1>0, <1>b, <2>2, <4>1, Finite DEF IndInv, TypeOK
      <3> QED BY <3>1, <3>2
    <2> QED BY <2>1, <2>2, <2>3 DEF Counts
  <1>5. Respects'
    BY <1>0, AbsentDiffer
       DEF IndInv, TypeOK, MoverIsRegistered, Counts, Respects, UnlockedEnd, VerbEnd,
           Finish, StillMuddled, EndHistory, mover, Goto
  <1>6. CountedVerbsUndisturbed' /\ LookStaysTrue' /\ ParkedStays'
    BY <1>0
       DEF CountedVerbsUndisturbed, MoverYields, LookStaysTrue, ParkedStays, UnlockedEnd,
           Quiet
  <1> QED BY <1>1, <1>2, <1>3, <1>4, <1>5, <1>6 DEF IndInv

\* A new state counts no verb; the verbs in flight muddle it.
LEMMA OnKeeps ==
  ASSUME IndInv, NEW t \in Tasks, On(t)
  PROVE  IndInv'
  <1>0. /\ t \in Begun /\ Begun' = Begun \ {t}
        /\ Cardinality(Begun') = Cardinality(Begun) - 1 /\ Cardinality(Begun) # 0
        /\ \A e : /\ job[t].verb = "wait" /\ job[t].entry = e =>
                       /\ Cardinality(Waits(e)') = Cardinality(Waits(e)) - 1
                       /\ Cardinality(Waits(e)) # 0
                  /\ ~(job[t].verb = "wait" /\ job[t].entry = e) => Waits(e)' = Waits(e)
    BY EndCounts DEF IndInv, On, Finish, Goto
  <1>1. TypeOK'
    BY <1>0 DEF IndInv, TypeOK, On, Replace, Cancel, Unlock, Finish, Quiet, Goto, NoJob
  <1>2. MoverIsRegistered'
    BY <1>0, AbsentDiffer DEF IndInv, MoverIsRegistered, TypeOK, On, Replace
  <1>3. JobsNamed'
    BY <1>0 DEF IndInv, TypeOK, JobsNamed, On, Finish, Goto
  <1>4. Counts'
    <2>1. \A e \in Entries : inflight'[e] = Cardinality(Waits(e)')
      BY <1>0, Finite DEF IndInv, TypeOK, JobsNamed, Counts, On
    <2>2. busy' = 0 /\ Cardinality(Begun') \in Nat
      BY <1>0, Finite DEF On
    <2>3. ~muddled' => Begun' = {} /\ Cardinality(Begun') = 0
      BY <1>0, FS_EmptySet DEF On, Others, Begun
    <2> QED BY <2>1, <2>2, <2>3 DEF Counts
  <1>5. Respects'
    BY <1>0 DEF IndInv, TypeOK, Respects, On, Replace, Cancel
  <1>6. CountedVerbsUndisturbed' /\ LookStaysTrue' /\ ParkedStays'
    BY <1>0 DEF CountedVerbsUndisturbed, MoverYields, LookStaysTrue, ParkedStays, On, Quiet
  <1> QED BY <1>1, <1>2, <1>3, <1>4, <1>5, <1>6 DEF IndInv

\* The registered state is stopped.
LEMMA OffKeeps ==
  ASSUME IndInv, NEW t \in Tasks, Off(t)
  PROVE  IndInv'
  <1>0. /\ t \in Begun /\ Begun' = Begun \ {t}
        /\ Cardinality(Begun') = Cardinality(Begun) - 1 /\ Cardinality(Begun) # 0
        /\ \A e : /\ job[t].verb = "wait" /\ job[t].entry = e =>
                       /\ Cardinality(Waits(e)') = Cardinality(Waits(e)) - 1
                       /\ Cardinality(Waits(e)) # 0
                  /\ ~(job[t].verb = "wait" /\ job[t].entry = e) => Waits(e)' = Waits(e)
    BY EndCounts DEF IndInv, Off, Finish, Goto
  <1>1. TypeOK'
    BY <1>0
       DEF IndInv, TypeOK, Off, Stopping, Cancel, Unlock, Finish, marks, Quiet, Goto, NoJob
  <1>2. MoverIsRegistered'
    BY <1>0 DEF IndInv, MoverIsRegistered, Off, Stopping
  <1>3. JobsNamed'
    BY <1>0 DEF IndInv, TypeOK, JobsNamed, Off, Finish, Goto
  <1>4. Counts'
    BY <1>0 DEF IndInv, Counts, Off
  <1>5. Respects'
    BY <1>0 DEF IndInv, TypeOK, Respects, Off, Stopping, Cancel
  <1>6. CountedVerbsUndisturbed' /\ LookStaysTrue' /\ ParkedStays'
    BY <1>0 DEF CountedVerbsUndisturbed, MoverYields, LookStaysTrue, ParkedStays, Off, Quiet
  <1> QED BY <1>1, <1>2, <1>3, <1>4, <1>5, <1>6 DEF IndInv

\* A new page does not scroll.
LEMMA SessionStartsKeeps ==
  ASSUME IndInv, SessionStarts
  PROVE  IndInv'
  <1>0. Begun' = Begun /\ \A e : Waits(e)' = Waits(e)
    BY SameCounts DEF IndInv, TypeOK, SessionStarts, Goto, mover, marks
  <1>1. TypeOK'
    BY <1>0 DEF IndInv, TypeOK, SessionStarts, mover, marks, past, Quiet
  <1>2. MoverIsRegistered'
    BY <1>0 DEF IndInv, MoverIsRegistered, SessionStarts, mover
  <1>3. JobsNamed'
    BY <1>0 DEF IndInv, JobsNamed, SessionStarts
  <1>4. Counts'
    BY <1>0 DEF IndInv, Counts, SessionStarts, mover, marks
  <1>5. Respects'
    BY <1>0 DEF IndInv, Respects, SessionStarts, mover, marks, past
  <1>6. CountedVerbsUndisturbed' /\ LookStaysTrue' /\ ParkedStays'
    BY <1>0
       DEF CountedVerbsUndisturbed, MoverYields, LookStaysTrue, ParkedStays, SessionStarts,
           Quiet
  <1> QED BY <1>1, <1>2, <1>3, <1>4, <1>5, <1>6 DEF IndInv

\* The verbs in flight are muddled, and the agent relies on nothing.
LEMMA SessionClosesKeeps ==
  ASSUME IndInv, NEW reaped \in BOOLEAN, SessionCloses(reaped)
  PROVE  IndInv'
  <1>0. Begun' = Begun /\ \A e : Waits(e)' = Waits(e)
    BY SameCounts DEF IndInv, TypeOK, SessionCloses, Goto, mover, marks
  <1>1. TypeOK'
    BY <1>0 DEF IndInv, TypeOK, SessionCloses, Stopping, Cancel, marks, Quiet
  <1>2. MoverIsRegistered'
    BY <1>0 DEF IndInv, MoverIsRegistered, SessionCloses, Stopping
  <1>3. JobsNamed'
    BY <1>0 DEF IndInv, JobsNamed, SessionCloses
  <1>4. Counts'
    BY <1>0 DEF IndInv, Counts, SessionCloses, marks
  <1>5. Respects'
    <2>1. \A s \in stopped' : burst'[s] = "none"
      BY DEF IndInv, TypeOK, Respects, SessionCloses, Stopping, Cancel
    <2>2. looked' = FALSE /\ parkedByAgent' = FALSE /\ entry' = NoEntry
      BY DEF SessionCloses
    <2>3. \A t \in Begun' : job'[t].verb \in Coordinate => job'[t].entry # entry'
      BY <1>0, <2>2, AbsentDiffer DEF IndInv, JobsNamed, SessionCloses, Begun, Coordinate
    <2> QED BY <2>1, <2>2, <2>3 DEF Respects
  <1>6. CountedVerbsUndisturbed' /\ LookStaysTrue' /\ ParkedStays'
    BY <1>0
       DEF CountedVerbsUndisturbed, MoverYields, LookStaysTrue, ParkedStays, SessionCloses,
           Quiet
  <1> QED BY <1>1, <1>2, <1>3, <1>4, <1>5, <1>6 DEF IndInv

\* A burst begins only while no verb is counted.
LEMMA BurstStartKeeps ==
  ASSUME IndInv, NEW s \in States, BurstStart(s)
  PROVE  IndInv'
  <1>0. Begun' = Begun /\ \A e : Waits(e)' = Waits(e)
    BY SameCounts DEF IndInv, TypeOK, BurstStart, Still, Stage, Goto, mover, marks
  <1>1. TypeOK'
    BY <1>0 DEF IndInv, TypeOK, BurstStart, Still, Stage, marks, past, Quiet
  <1>2. MoverIsRegistered'
    BY <1>0 DEF IndInv, MoverIsRegistered, BurstStart, Still
  <1>3. JobsNamed'
    BY <1>0 DEF IndInv, JobsNamed, BurstStart, Still
  <1>4. Counts'
    <2>1. ~muddled => Begun = {}
      BY Finite, FS_EmptySet, AbsentDiffer DEF IndInv, TypeOK, Counts, MoverIsRegistered, BurstStart, Blocked
    <2> QED BY <1>0, <2>1 DEF IndInv, Counts, TypeOK, BurstStart, Still, Stage, marks
  <1>5. Respects'
    BY <1>0 DEF IndInv, Respects, BurstStart, Still, Stage, Blocked, marks, past
  <1>6. CountedVerbsUndisturbed' /\ LookStaysTrue' /\ ParkedStays'
    BY <1>0
       DEF CountedVerbsUndisturbed, MoverYields, LookStaysTrue, ParkedStays, BurstStart,
           Quiet
  <1> QED BY <1>1, <1>2, <1>3, <1>4, <1>5, <1>6 DEF IndInv

\* It is to scroll only if the viewport is not pinned.
LEMMA BurstPlanKeeps ==
  ASSUME IndInv, NEW s \in States, BurstPlan(s)
  PROVE  IndInv'
  <1>0. Begun' = Begun /\ \A e : Waits(e)' = Waits(e)
    BY SameCounts DEF IndInv, TypeOK, BurstPlan, Still, Stage, Goto, mover, marks
  <1>1. TypeOK'
    BY <1>0 DEF IndInv, TypeOK, BurstPlan, Still, Stage, marks, past, Quiet
  <1>2. MoverIsRegistered'
    BY <1>0 DEF IndInv, MoverIsRegistered, BurstPlan, Still
  <1>3. JobsNamed'
    BY <1>0 DEF IndInv, JobsNamed, BurstPlan, Still
  <1>4. Counts'
    BY <1>0 DEF IndInv, TypeOK, Counts, BurstPlan, Still, Stage, marks
  <1>5. Respects'
    BY <1>0 DEF IndInv, TypeOK, Respects, BurstPlan, Still, Stage, marks, past
  <1>6. CountedVerbsUndisturbed' /\ LookStaysTrue' /\ ParkedStays'
    BY <1>0
       DEF CountedVerbsUndisturbed, MoverYields, LookStaysTrue, ParkedStays, BurstPlan,
           Quiet
  <1> QED BY <1>1, <1>2, <1>3, <1>4, <1>5, <1>6 DEF IndInv

\* A burst ends.
LEMMA BurstEndKeeps ==
  ASSUME IndInv, NEW s \in States, BurstEnd(s)
  PROVE  IndInv'
  <1>0. Begun' = Begun /\ \A e : Waits(e)' = Waits(e)
    BY SameCounts DEF IndInv, TypeOK, BurstEnd, Still, Stage, Goto, mover, marks
  <1>1. TypeOK'
    BY <1>0 DEF IndInv, TypeOK, BurstEnd, Still, Stage, marks, past, Quiet
  <1>2. MoverIsRegistered'
    BY <1>0 DEF IndInv, MoverIsRegistered, BurstEnd, Still
  <1>3. JobsNamed'
    BY <1>0 DEF IndInv, JobsNamed, BurstEnd, Still
  <1>4. Counts'
    BY <1>0 DEF IndInv, Counts, BurstEnd, Still, Stage, marks
  <1>5. Respects'
    BY <1>0 DEF IndInv, Respects, BurstEnd, Still, Stage, marks, past
  <1>6. CountedVerbsUndisturbed' /\ LookStaysTrue' /\ ParkedStays'
    BY <1>0
       DEF CountedVerbsUndisturbed, MoverYields, LookStaysTrue, ParkedStays, BurstEnd, Quiet
  <1> QED BY <1>1, <1>2, <1>3, <1>4, <1>5, <1>6 DEF IndInv

\* The mover sends input only while no verb is counted.
LEMMA MoveKeeps ==
  ASSUME IndInv, NEW s \in States, Move(s)
  PROVE  IndInv'
  <1>0. Begun' = Begun /\ \A e : Waits(e)' = Waits(e)
    BY SameCounts DEF IndInv, TypeOK, Move, Still, Goto, mover, marks
  <1>1. TypeOK'
    BY <1>0 DEF IndInv, TypeOK, Move, Still, marks, past
  <1>2. MoverIsRegistered'
    BY <1>0 DEF IndInv, MoverIsRegistered, Move, Still
  <1>3. JobsNamed'
    BY <1>0 DEF IndInv, JobsNamed, Move, Still
  <1>4. Counts'
    BY <1>0 DEF IndInv, Counts, Move, Still, marks
  <1>5. Respects'
    BY <1>0 DEF IndInv, Respects, Move, Still, marks, past
  <1>6. CountedVerbsUndisturbed' /\ LookStaysTrue' /\ ParkedStays'
    BY <1>0, AbsentDiffer
       DEF IndInv, MoverIsRegistered, Counts, Respects, CountedVerbsUndisturbed,
           MoverYields, Drives, Begun, LookStaysTrue, ParkedStays, Move, Still, Blocked,
           past
  <1> QED BY <1>1, <1>2, <1>3, <1>4, <1>5, <1>6 DEF IndInv

\* The mover sends input only while no verb is counted.
LEMMA WheelKeeps ==
  ASSUME IndInv, NEW s \in States, Wheel(s)
  PROVE  IndInv'
  <1>0. Begun' = Begun /\ \A e : Waits(e)' = Waits(e)
    BY SameCounts DEF IndInv, TypeOK, Wheel, Still, Goto, mover, marks
  <1>1. TypeOK'
    BY <1>0 DEF IndInv, TypeOK, Wheel, Still, marks, past
  <1>2. MoverIsRegistered'
    BY <1>0 DEF IndInv, MoverIsRegistered, Wheel, Still
  <1>3. JobsNamed'
    BY <1>0 DEF IndInv, JobsNamed, Wheel, Still
  <1>4. Counts'
    BY <1>0 DEF IndInv, Counts, Wheel, Still, marks
  <1>5. Respects'
    BY <1>0, AbsentDiffer
       DEF IndInv, MoverIsRegistered, Counts, Respects, Wheel, Still, Blocked, past
  <1>6. CountedVerbsUndisturbed' /\ LookStaysTrue' /\ ParkedStays'
    BY <1>0, AbsentDiffer
       DEF IndInv, MoverIsRegistered, Counts, Respects, CountedVerbsUndisturbed,
           MoverYields, Drives, Begun, LookStaysTrue, ParkedStays, Wheel, Still, Blocked,
           past
  <1> QED BY <1>1, <1>2, <1>3, <1>4, <1>5, <1>6 DEF IndInv

\* The mover of a session that is gone takes itself off the table.
LEMMA LoopEndsKeeps ==
  ASSUME IndInv, NEW s \in States, LoopEnds(s)
  PROVE  IndInv'
  <1>0. Begun' = Begun /\ \A e : Waits(e)' = Waits(e)
    BY SameCounts DEF IndInv, TypeOK, LoopEnds, Goto, mover, marks
  <1>1. TypeOK'
    BY <1>0 DEF IndInv, TypeOK, LoopEnds, marks, past, Quiet
  <1>2. MoverIsRegistered'
    BY <1>0 DEF IndInv, MoverIsRegistered, LoopEnds
  <1>3. JobsNamed'
    BY <1>0 DEF IndInv, JobsNamed, LoopEnds
  <1>4. Counts'
    BY <1>0 DEF IndInv, Counts, LoopEnds
  <1>5. Respects'
    BY <1>0 DEF IndInv, MoverIsRegistered, Respects, LoopEnds
  <1>6. CountedVerbsUndisturbed' /\ LookStaysTrue' /\ ParkedStays'
    BY <1>0
       DEF CountedVerbsUndisturbed, MoverYields, LookStaysTrue, ParkedStays, LoopEnds, Quiet
  <1> QED BY <1>1, <1>2, <1>3, <1>4, <1>5, <1>6 DEF IndInv

\* Scrolling comes to rest.
LEMMA SettleKeeps ==
  ASSUME IndInv, Settle
  PROVE  IndInv'
  <1>0. Begun' = Begun /\ \A e : Waits(e)' = Waits(e)
    BY SameCounts DEF IndInv, TypeOK, Settle, Goto, mover, marks
  <1>1. TypeOK'
    BY <1>0 DEF IndInv, TypeOK, Settle, mover, marks, past, Quiet, InFlight
  <1>2. MoverIsRegistered'
    BY <1>0 DEF IndInv, MoverIsRegistered, Settle, mover
  <1>3. JobsNamed'
    BY <1>0 DEF IndInv, JobsNamed, Settle
  <1>4. Counts'
    <2>1. muddled /\ ~muddled' => Begun = {} /\ Cardinality(Begun) = 0
      BY FS_EmptySet DEF Settle, Begun
    <2>2. UNCHANGED <<st, burst, busy, inflight>> /\ (~muddled' \/ muddled' = muddled)
      BY DEF Settle, mover, marks, IndInv, TypeOK
    <2> QED BY <1>0, <2>1, <2>2, Finite DEF IndInv, TypeOK, Counts
  <1>5. Respects'
    BY <1>0 DEF IndInv, Respects, Settle, mover, marks, past
  <1>6. CountedVerbsUndisturbed' /\ LookStaysTrue' /\ ParkedStays'
    BY <1>0
       DEF CountedVerbsUndisturbed, MoverYields, LookStaysTrue, ParkedStays, Settle, Quiet
  <1> QED BY <1>1, <1>2, <1>3, <1>4, <1>5, <1>6 DEF IndInv

\* Every step keeps IndInv.
LEMMA StepKeeps == IndInv /\ [Next]_vars => IndInv'
  <1> SUFFICES ASSUME IndInv, [Next]_vars PROVE IndInv'
    OBVIOUS
  <1>1. CASE UNCHANGED vars
    BY <1>1
       DEF vars, mover, marks, past, IndInv, TypeOK, MoverIsRegistered, JobsNamed, Counts,
           Respects, CountedVerbsUndisturbed, MoverYields, Drives, LookStaysTrue,
           ParkedStays, Begun, Waits
  <1>2. CASE Next
    BY <1>2, LockedBeginKeeps, UnlockedBeginKeeps, LockedRunKeeps, LockedEndKeeps, StartDrivesKeeps, UnlockedEndKeeps,
       OnKeeps, OffKeeps, SessionStartsKeeps, SessionClosesKeeps, BurstStartKeeps, BurstPlanKeeps,
       MoveKeeps, WheelKeeps, BurstEndKeeps, LoopEndsKeeps, SettleKeeps DEF Next
  <1> QED BY <1>1, <1>2

\* Nothing moves and nothing is relied on before the session starts.
LEMMA InitHolds == Init => IndInv
  <1> SUFFICES ASSUME Init PROVE IndInv
    OBVIOUS
  <1>1. Begun = {} /\ (\A e : Waits(e) = {}) /\ Cardinality({}) = 0
    BY FS_EmptySet DEF Init, Begun, Waits
  <1>2. TypeOK
    BY DEF Init, TypeOK, InFlight, NoJob
  <1>3. MoverIsRegistered /\ JobsNamed
    BY DEF Init, MoverIsRegistered, JobsNamed
  <1>4. Counts /\ Respects
    BY <1>1 DEF Init, Counts, Respects
  <1>5. CountedVerbsUndisturbed /\ LookStaysTrue /\ ParkedStays
    BY DEF Init, CountedVerbsUndisturbed, MoverYields, LookStaysTrue, ParkedStays
  <1> QED BY <1>2, <1>3, <1>4, <1>5 DEF IndInv

\* Only the registered mover runs, it knows what the agent relies on, and it has
\* counted the verbs in flight.
THEOREM Inductive == Spec => []IndInv
  BY InitHolds, StepKeeps, PTL DEF Spec

\* The mover keeps still while a verb drives the page, unless it was switched, or
\* the session changed, with verbs in flight.
THEOREM VerbsUndisturbed == Spec => []CountedVerbsUndisturbed
  <1>1. IndInv => CountedVerbsUndisturbed
    BY DEF IndInv
  <1> QED BY <1>1, Inductive, PTL

\* It never scrolls away what an agent saw, until a verb acts.
THEOREM LooksHold == Spec => []LookStaysTrue
  <1>1. IndInv => LookStaysTrue
    BY DEF IndInv
  <1> QED BY <1>1, Inductive, PTL

\* It leaves the pointer where the agent parked it, until a verb acts.
THEOREM PointerHolds == Spec => []ParkedStays
  <1>1. IndInv => ParkedStays
    BY DEF IndInv
  <1> QED BY <1>1, Inductive, PTL

\* No verb that reads or uses viewport coordinates runs while a notch the mover sent
\* still scrolls the page.
THEOREM CoordinatesAreStill == Spec => []CoordinatesOnStillPage
  <1>1. IndInv => CoordinatesOnStillPage
    BY DEF IndInv, Respects, CoordinatesOnStillPage, Drives, Begun
  <1> QED BY <1>1, Inductive, PTL

=============================================================================
