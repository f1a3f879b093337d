------------------------- MODULE FileChooser_proofs -------------------------
(***************************************************************************)
(* IndInv of FileChooser is inductive, for any arms, pages and choosers,   *)
(* and only the newest arm reports.  Settle either changes nothing or ends *)
(* every interception (SettleCases), so each action has few cases.         *)
(***************************************************************************)
EXTENDS FileChooser, TLAPS

\* Nothing is armed, intercepted or handled when a session begins.
LEMMA InitHolds == Init => IndInv
  <1> SUFFICES ASSUME Init PROVE IndInv
    OBVIOUS
  <1>1. TypeOK
    BY DEF Init, TypeOK, NoTask, NoOutcome
  <1>2. InterceptsForAnArm /\ ArmedIsWatched /\ ListensEverywhere
    BY DEF Init, InterceptsForAnArm, ArmedIsWatched, ListensEverywhere
  <1>3. ArmsAccounted
    BY AbsentDiffer DEF Init, ArmsAccounted, Has, Untouched, NoTask, NoOutcome
  <1>4. GivenOnce /\ OutcomeIsTrue
    BY DEF Init, GivenOnce, OutcomeIsTrue, NoOutcome
  <1> QED BY <1>1, <1>2, <1>3, <1>4 DEF IndInv

\* An arm was settled: nothing is armed or intercepted any more.
Settled(a, what) ==
  /\ current = a
  /\ armed' = NoArm /\ current' = NoArm /\ timer' = NoArm /\ watch' = NoArm
  /\ last' = [arm |-> a, what |-> what]
  /\ installed' = FALSE /\ listening' = {}

\* An arm that is not the current one changes nothing (_settle).
LEMMA SettleCases ==
  ASSUME ArmedIsWatched, NEW a, NEW what, Settle(a, what)
  PROVE  UNCHANGED state \/ Settled(a, what)
  BY DEF ArmedIsWatched, Settle, Settled, Uninstall, state

\* Steps that leave the arms and choosers alone, and give no files.
LEMMA SameHands ==
  ASSUME UNCHANGED <<task, given>>
  PROVE  /\ \A c, a : Has(c, a)' <=> Has(c, a)
         /\ \A a : Untouched(a)' <=> Untouched(a)
  BY DEF Has, Untouched

\* A chooser that lets go of its arm touches no arm.
LEMMA LetsGo ==
  ASSUME TypeOK, NEW c \in Choosers, task' = [task EXCEPT ![c] = NoTask], given' = given
  PROVE  /\ \A d \in Choosers : task'[d] = task[d] \/ task'[d] = NoTask
         /\ task' \in [Choosers -> [at : {"none", "opened", "taken", "filling"},
                                    page : Pages \cup {NoPage}, arm : Arms \cup {NoArm}]]
  BY DEF TypeOK, Has, Untouched, NoTask


Hands == task \in [Choosers -> [at : {"none", "opened", "taken", "filling"},
                               page : Pages \cup {NoPage}, arm : Arms \cup {NoArm}]]

\* Whatever settles an arm keeps the invariant, given what it reports of it.
LEMMA SettlingKeeps ==
  ASSUME IndInv, NEW a \in Arms, NEW what \in Outcomes,
         UNCHANGED <<state, pages, life>> \/ Settled(a, what),
         Hands', \A d \in Choosers : task'[d] = task[d] \/ task'[d] = NoTask,
         UNCHANGED <<on, given>>, filled \subseteq filled', filled' \subseteq Arms,
         pages' \subseteq Pages, life' \in {"up", "abandoned", "down", "closed"},
         what = "consumed" => a \in filled',
         what \in {"expired", "gone"} => Untouched(a)
  PROVE  IndInv'
  <1>1. TypeOK'
    <2>1. {armed, current, timer, watch}' \subseteq Arms \cup {NoArm} /\ installed' \in BOOLEAN
          /\ listening' \subseteq pages'
      BY DEF IndInv, TypeOK, Settled, state
    <2>2. last' \in [arm : Arms, what : Outcomes] \cup {NoOutcome}
      BY DEF IndInv, TypeOK, Settled, state
    <2>3. on' \in [Arms -> Pages \cup {NoPage}] /\ given' \in [Arms -> Nat]
      BY DEF IndInv, TypeOK
    <2> QED BY <2>1, <2>2, <2>3 DEF TypeOK, Hands
  <1>2. InterceptsForAnArm' /\ ArmedIsWatched' /\ ListensEverywhere'
    BY DEF IndInv, TypeOK, InterceptsForAnArm, ArmedIsWatched, ListensEverywhere, Settled, state
  <1>3. \A b \in Arms : Untouched(b) => Untouched(b)'
    BY DEF Untouched, Has, NoTask
  <1>4. ArmsAccounted'
    <2>1. \A b \in Arms : on'[b] = NoPage => b \notin {armed', current'} /\ Untouched(b)'
      BY <1>3, AbsentDiffer DEF IndInv, TypeOK, ArmsAccounted, Settled, state
    <2>2. armed' # NoArm => Untouched(armed)'
      <3> SUFFICES ASSUME armed' # NoArm PROVE Untouched(armed)'
        OBVIOUS
      <3>1. armed' = armed /\ armed \in Arms /\ Untouched(armed)
        BY DEF IndInv, TypeOK, ArmsAccounted, Settled, state
      <3> QED BY <3>1 DEF Untouched, Has, NoTask
    <2>3. ASSUME NEW c \in Choosers
          PROVE  /\ task'[c].at # "none" => task'[c].page \in Pages
                 /\ task'[c].at = "taken" => task'[c].arm \in Arms /\ given'[task'[c].arm] = 0
                 /\ task'[c].at = "filling" => task'[c].arm \in Arms
                 /\ \A d \in Choosers \ {c}, b \in Arms : ~(Has(c, b)' /\ Has(d, b)')
      BY DEF IndInv, ArmsAccounted, Has, NoTask
    <2>4. last'.what \in {"expired", "gone"} => last'.arm # armed' /\ Untouched(last.arm)'
      <3> SUFFICES ASSUME last'.what \in {"expired", "gone"}
                   PROVE  last'.arm # armed' /\ Untouched(last.arm)'
        OBVIOUS
      <3>1. CASE UNCHANGED <<state, pages, life>>
        <4>1. last' = last /\ last.arm # armed /\ Untouched(last.arm)
          BY <3>1 DEF IndInv, ArmsAccounted, state
        <4> QED BY <4>1, <3>1 DEF Untouched, Has, NoTask, state
      <3>2. CASE Settled(a, what)
        <4>1. last'.arm = a /\ armed' = NoArm /\ Untouched(a)
          BY <3>2 DEF Settled
        <4> QED BY <4>1, AbsentDiffer DEF Untouched, Has, NoTask
      <3> QED BY <3>1, <3>2
    <2> QED BY <2>1, <2>2, <2>3, <2>4 DEF ArmsAccounted
  <1>5. GivenOnce'
    BY DEF IndInv, GivenOnce
  <1>6. OutcomeIsTrue'
    BY DEF IndInv, OutcomeIsTrue, Settled, state, Untouched
  <1> QED BY <1>1, <1>2, <1>4, <1>5, <1>6 DEF IndInv

\* A new arm replaces any other; its page is one of the open ones.
LEMMA ArmKeeps ==
  ASSUME IndInv, NEW a \in Arms, Arm(a)
  PROVE  IndInv'
  <1>1. TypeOK'
    BY AbsentDiffer, SameHands DEF IndInv, TypeOK, Outcomes, Arm, Hooks, history, NoOutcome
  <1>2. InterceptsForAnArm' /\ ArmedIsWatched' /\ ListensEverywhere'
    BY AbsentDiffer
       DEF IndInv, TypeOK, InterceptsForAnArm, ArmedIsWatched, ListensEverywhere, Arm, Hooks
  <1>3. ArmsAccounted'
    BY AbsentDiffer, SameHands DEF IndInv, TypeOK, ArmsAccounted, Arm, history, NoOutcome
  <1>4. GivenOnce' /\ OutcomeIsTrue'
    BY DEF IndInv, GivenOnce, OutcomeIsTrue, Arm, history, NoOutcome
  <1> QED BY <1>1, <1>2, <1>3, <1>4 DEF IndInv

\* A chooser opens on a page that is listened to.
LEMMA OpensKeeps ==
  ASSUME IndInv, NEW c \in Choosers, ChooserOpens(c)
  PROVE  IndInv'
  <1>1. TypeOK'
    BY AbsentDiffer DEF IndInv, TypeOK, Outcomes, ChooserOpens, state, history
  <1>2. InterceptsForAnArm' /\ ArmedIsWatched' /\ ListensEverywhere'
    BY DEF IndInv, InterceptsForAnArm, ArmedIsWatched, ListensEverywhere, ChooserOpens,
           state
  <1>3. ArmsAccounted'
    BY DEF IndInv, TypeOK, ArmsAccounted, Has, Untouched, ChooserOpens, state, history
  <1>4. GivenOnce' /\ OutcomeIsTrue'
    BY DEF IndInv, GivenOnce, OutcomeIsTrue, ChooserOpens, state, history
  <1> QED BY <1>1, <1>2, <1>3, <1>4 DEF IndInv

\* A chooser with no arm of its page is dropped.
LEMMA IgnoredKeeps ==
  ASSUME IndInv, NEW c \in Choosers, ChooserIgnored(c)
  PROVE  IndInv'
  <1>1. TypeOK'
    BY AbsentDiffer, LetsGo DEF IndInv, TypeOK, Outcomes, ChooserIgnored, state, history, NoTask
  <1>2. InterceptsForAnArm' /\ ArmedIsWatched' /\ ListensEverywhere'
    BY DEF IndInv, InterceptsForAnArm, ArmedIsWatched, ListensEverywhere, ChooserIgnored,
           state
  <1>3. ArmsAccounted'
    BY DEF IndInv, ArmsAccounted, Has, Untouched, ChooserIgnored, state, history, NoTask
  <1>4. GivenOnce' /\ OutcomeIsTrue'
    BY DEF IndInv, GivenOnce, OutcomeIsTrue, ChooserIgnored, state, history
  <1> QED BY <1>1, <1>2, <1>3, <1>4 DEF IndInv

\* A chooser takes the armed files: nobody else has them.
LEMMA TakesKeeps ==
  ASSUME IndInv, NEW c \in Choosers, ChooserTakes(c)
  PROVE  IndInv'
  <1> DEFINE j == [task[c] EXCEPT !.at = "taken", !.arm = armed]
  <1>1. /\ armed \in Arms /\ task[c].at = "opened" /\ task[c].page \in Pages /\ Untouched(armed)
        /\ on[armed] # NoPage
    BY AbsentDiffer DEF IndInv, TypeOK, ArmsAccounted, ChooserTakes, TakesArm
  <1>2. /\ armed' = NoArm /\ task' = [task EXCEPT ![c] = j]
        /\ UNCHANGED <<current, timer, watch, last, installed, listening, pages, on, life,
                       given, filled>>
    BY DEF ChooserTakes, Disarm, history, TypeOK, IndInv
  <1>3. /\ j.at = "taken" /\ j.arm = armed /\ j.page \in Pages
        /\ j \in [at : {"none", "opened", "taken", "filling"},
                  page : Pages \cup {NoPage}, arm : Arms \cup {NoArm}]
    BY <1>1 DEF IndInv, TypeOK
  <1> HIDE DEF j
  <1>4. /\ task'[c] = j /\ \A d \in Choosers \ {c} : task'[d] = task[d]
    BY <1>2 DEF IndInv, TypeOK
  <1>5. TypeOK'
    BY <1>2, <1>3 DEF IndInv, TypeOK
  <1>6. InterceptsForAnArm' /\ ArmedIsWatched' /\ ListensEverywhere'
    BY <1>2 DEF IndInv, InterceptsForAnArm, ArmedIsWatched, ListensEverywhere
  <1>7. \A b \in Arms \ {armed} : Untouched(b) => Untouched(b)'
    BY <1>2, <1>3, <1>4 DEF Untouched, Has
  <1>8. ArmsAccounted'
    <2>1. \A b \in Arms : on'[b] = NoPage => b \notin {armed', current'} /\ Untouched(b)'
      BY <1>1, <1>2, <1>7, AbsentDiffer DEF IndInv, ArmsAccounted
    <2>2. ASSUME NEW e \in Choosers
          PROVE  /\ task'[e].at # "none" => task'[e].page \in Pages
                 /\ task'[e].at = "taken" => task'[e].arm \in Arms /\ given'[task'[e].arm] = 0
                 /\ task'[e].at = "filling" => task'[e].arm \in Arms
      BY <1>1, <1>2, <1>3, <1>4 DEF IndInv, ArmsAccounted, Untouched
    <2>3. ASSUME NEW e \in Choosers, NEW d \in Choosers \ {e}, NEW b \in Arms
          PROVE  ~(Has(e, b)' /\ Has(d, b)')
      BY <1>1, <1>2, <1>3, <1>4 DEF IndInv, ArmsAccounted, Untouched, Has
    <2>4. last'.what \in {"expired", "gone"} => last'.arm # armed' /\ Untouched(last.arm)'
      BY <1>2, <1>7, AbsentDiffer DEF IndInv, ArmsAccounted, TypeOK, NoOutcome
    <2> QED BY <2>1, <2>2, <2>3, <2>4, <1>2 DEF ArmsAccounted
  <1>9. GivenOnce' /\ OutcomeIsTrue'
    BY <1>2 DEF IndInv, GivenOnce, OutcomeIsTrue
  <1> QED BY <1>5, <1>6, <1>8, <1>9 DEF IndInv

\* The files a chooser took are given for the first time.
LEMMA FillsKeeps ==
  ASSUME IndInv, NEW c \in Choosers, ChooserFills(c)
  PROVE  IndInv'
  <1> DEFINE x == task[c].arm
             j == [task[c] EXCEPT !.at = "filling"]
  <1>1. /\ x \in Arms /\ given[x] = 0 /\ task[c].page \in Pages
        /\ on[x] # NoPage /\ x # armed /\ Has(c, x)
    BY AbsentDiffer DEF IndInv, ArmsAccounted, Untouched, Has, ChooserFills
  <1>2. /\ task' = [task EXCEPT ![c] = j] /\ given' = [given EXCEPT ![x] = 1]
        /\ UNCHANGED <<armed, current, timer, watch, last, installed, listening, pages, on,
                       life, filled>>
    BY <1>1 DEF ChooserFills, state, TypeOK, IndInv
  <1>3. /\ j.at = "filling" /\ j.arm = x /\ j.page \in Pages
        /\ j \in [at : {"none", "opened", "taken", "filling"},
                  page : Pages \cup {NoPage}, arm : Arms \cup {NoArm}]
    BY <1>1 DEF IndInv, TypeOK
  <1>4. x = task[c].arm
    OBVIOUS
  <1> HIDE DEF j, x
  <1>5. /\ task'[c] = j /\ \A d \in Choosers \ {c} : task'[d] = task[d]
        /\ given'[x] = 1 /\ \A b \in Arms \ {x} : given'[b] = given[b]
    BY <1>1, <1>2 DEF IndInv, TypeOK
  <1>6. TypeOK'
    BY <1>2, <1>3 DEF IndInv, TypeOK
  <1>7. InterceptsForAnArm' /\ ArmedIsWatched' /\ ListensEverywhere'
    BY <1>2 DEF IndInv, InterceptsForAnArm, ArmedIsWatched, ListensEverywhere
  <1>8. \A b \in Arms : Untouched(b) => b # x /\ Untouched(b)'
    BY <1>1, <1>3, <1>5 DEF Untouched, Has
  <1>9. ArmsAccounted'
    <2>1. \A b \in Arms : on'[b] = NoPage => b \notin {armed', current'} /\ Untouched(b)'
      BY <1>2, <1>8 DEF IndInv, ArmsAccounted
    <2>2. ASSUME NEW e \in Choosers
          PROVE  /\ task'[e].at # "none" => task'[e].page \in Pages
                 /\ task'[e].at = "taken" => task'[e].arm \in Arms /\ given'[task'[e].arm] = 0
                 /\ task'[e].at = "filling" => task'[e].arm \in Arms
      BY <1>1, <1>3, <1>4, <1>5 DEF IndInv, ArmsAccounted, Has
    <2>3. ASSUME NEW e \in Choosers, NEW d \in Choosers \ {e}, NEW b \in Arms
          PROVE  ~(Has(e, b)' /\ Has(d, b)')
      BY <1>1, <1>3, <1>4, <1>5 DEF IndInv, ArmsAccounted, Has
    <2>4. last'.what \in {"expired", "gone"} => last'.arm # armed' /\ Untouched(last.arm)'
      BY <1>2, <1>8, AbsentDiffer DEF IndInv, ArmsAccounted, TypeOK, NoOutcome
    <2>5. armed' # NoArm => Untouched(armed)'
      BY <1>2, <1>8 DEF IndInv, ArmsAccounted, TypeOK
    <2> QED BY <2>1, <2>2, <2>3, <2>4, <2>5 DEF ArmsAccounted
  <1>10. GivenOnce'
    BY <1>5 DEF IndInv, GivenOnce
  <1>11. OutcomeIsTrue'
    <2>1. last'.what \in {"expired", "gone"} => given'[last'.arm] = 0
      BY <1>2, <1>8, AbsentDiffer DEF IndInv, ArmsAccounted, Untouched, TypeOK, NoOutcome
    <2> QED BY <1>2, <2>1 DEF IndInv, OutcomeIsTrue
  <1> QED BY <1>6, <1>7, <1>9, <1>10, <1>11 DEF IndInv

\* One chooser refuses several files; they are its own.
LEMMA RefusedKeeps ==
  ASSUME IndInv, NEW c \in Choosers, ChooserRefused(c)
  PROVE  IndInv'
  <1>1. task[c].arm \in Arms /\ TypeOK /\ ArmedIsWatched /\ UNCHANGED <<pages, on, life, given>>
    BY DEF IndInv, ArmsAccounted, ChooserRefused, history
  <1>2. UNCHANGED state \/ Settled(task[c].arm, "refused")
    BY <1>1, SettleCases DEF ChooserRefused
  <1>3. Hands' /\ \A d \in Choosers : task'[d] = task[d] \/ task'[d] = NoTask
    BY <1>1, LetsGo DEF ChooserRefused, Hands
  <1>4. filled \subseteq filled' /\ filled' \subseteq Arms
        /\ ("refused" = "consumed" => task[c].arm \in filled') /\ life' \in {"up", "abandoned", "down", "closed"}
        /\ pages' \subseteq Pages
    BY <1>1 DEF ChooserRefused, TypeOK, history
  <1>5. "refused" \in Outcomes
    BY DEF Outcomes
  <1> QED BY <1>1, <1>2, <1>3, <1>4, <1>5, SettlingKeeps

\* Files that were given are reported as such.
LEMMA FilledKeeps ==
  ASSUME IndInv, NEW c \in Choosers, ChooserFilled(c)
  PROVE  IndInv'
  <1>1. task[c].arm \in Arms /\ TypeOK /\ ArmedIsWatched /\ UNCHANGED <<pages, on, life, given>>
    BY DEF IndInv, ArmsAccounted, ChooserFilled, history
  <1>2. UNCHANGED state \/ Settled(task[c].arm, "consumed")
    BY <1>1, SettleCases DEF ChooserFilled
  <1>3. Hands' /\ \A d \in Choosers : task'[d] = task[d] \/ task'[d] = NoTask
    BY <1>1, LetsGo DEF ChooserFilled, Hands
  <1>4. filled \subseteq filled' /\ filled' \subseteq Arms
        /\ ("consumed" = "consumed" => task[c].arm \in filled') /\ life' \in {"up", "abandoned", "down", "closed"}
        /\ pages' \subseteq Pages
    BY <1>1 DEF ChooserFilled, TypeOK, history
  <1>5. "consumed" \in Outcomes
    BY DEF Outcomes
  <1> QED BY <1>1, <1>2, <1>3, <1>4, <1>5, SettlingKeeps

\* set_files raised: the arm is over.
LEMMA FailsKeeps ==
  ASSUME IndInv, NEW c \in Choosers, ChooserFails(c)
  PROVE  IndInv'
  <1>1. task[c].arm \in Arms /\ TypeOK /\ ArmedIsWatched /\ UNCHANGED <<pages, on, life, given>>
    BY DEF IndInv, ArmsAccounted, ChooserFails, history
  <1>2. UNCHANGED state \/ Settled(task[c].arm, "failed")
    BY <1>1, SettleCases DEF ChooserFails
  <1>3. Hands' /\ \A d \in Choosers : task'[d] = task[d] \/ task'[d] = NoTask
    BY <1>1, LetsGo DEF ChooserFails, Hands
  <1>4. filled \subseteq filled' /\ filled' \subseteq Arms
        /\ ("failed" = "consumed" => task[c].arm \in filled') /\ life' \in {"up", "abandoned", "down", "closed"}
        /\ pages' \subseteq Pages
    BY <1>1 DEF ChooserFails, TypeOK, history
  <1>5. "failed" \in Outcomes
    BY DEF Outcomes
  <1> QED BY <1>1, <1>2, <1>3, <1>4, <1>5, SettlingKeeps

\* An arm expires only while no chooser has it.
LEMMA ExpireKeeps ==
  ASSUME IndInv, Expire
  PROVE  IndInv'
  <1>1. timer = armed /\ armed \in Arms /\ TypeOK /\ ArmedIsWatched /\ Untouched(armed)
    BY DEF IndInv, TypeOK, ArmsAccounted, Expire
  <1>2. UNCHANGED state \/ Settled(armed, "expired")
    BY <1>1, SettleCases DEF Expire
  <1>3. UNCHANGED <<pages, on, task, life, given, filled>> /\ "expired" \in Outcomes
    BY DEF Expire, history, Outcomes
  <1>4. Hands' /\ filled' \subseteq Arms /\ pages' \subseteq Pages
        /\ life' \in {"up", "abandoned", "down", "closed"}
    BY <1>1, <1>3 DEF TypeOK, Hands
  <1> QED BY <1>1, <1>2, <1>3, <1>4, SettlingKeeps

\* The page of the armed files crashes.
LEMMA PageCrashesKeeps ==
  ASSUME IndInv, NEW p \in Pages, PageCrashes(p)
  PROVE  IndInv'
  <1>1. watch = armed /\ armed \in Arms /\ TypeOK /\ ArmedIsWatched /\ Untouched(armed)
    BY DEF IndInv, TypeOK, ArmsAccounted, PageCrashes
  <1>2. UNCHANGED state \/ Settled(armed, "gone")
    BY <1>1, SettleCases DEF PageCrashes
  <1>3. UNCHANGED <<pages, on, task, life, given, filled>> /\ "gone" \in Outcomes
    BY DEF PageCrashes, history, Outcomes
  <1>4. Hands' /\ filled' \subseteq Arms /\ pages' \subseteq Pages
        /\ life' \in {"up", "abandoned", "down", "closed"}
    BY <1>1, <1>3 DEF TypeOK, Hands
  <1> QED BY <1>1, <1>2, <1>3, <1>4, SettlingKeeps

\* A new page is listened to like the others.
LEMMA PageOpensKeeps ==
  ASSUME IndInv, PageOpens
  PROVE  IndInv'
  <1>1. TypeOK'
    BY AbsentDiffer, SameHands DEF IndInv, TypeOK, Outcomes, PageOpens, history
  <1>2. InterceptsForAnArm' /\ ArmedIsWatched' /\ ListensEverywhere'
    BY DEF IndInv, InterceptsForAnArm, ArmedIsWatched, ListensEverywhere, PageOpens
  <1>3. ArmsAccounted'
    BY SameHands DEF IndInv, ArmsAccounted, PageOpens, history
  <1>4. GivenOnce' /\ OutcomeIsTrue'
    BY DEF IndInv, GivenOnce, OutcomeIsTrue, PageOpens, history
  <1> QED BY <1>1, <1>2, <1>3, <1>4 DEF IndInv

\* The page of the armed files goes, and they with it; or another page.
LEMMA PageClosesKeeps ==
  ASSUME IndInv, NEW p \in Pages, PageCloses(p)
  PROVE  IndInv'
  <1>1. /\ TypeOK
        /\ ArmedIsWatched
        /\ UNCHANGED <<on, task, life, given, filled>>
        /\ pages' = pages \ {p}
        /\ Hook(p)
    BY DEF IndInv, PageCloses, history
  <1>2. CASE watch # NoArm /\ armed = watch /\ on[watch] = p
    <2>1. armed \in Arms /\ current = armed /\ Untouched(armed)
      BY <1>1, <1>2 DEF IndInv, TypeOK, ArmsAccounted, ArmedIsWatched
    <2>2. Settle(armed, "gone")
      BY <1>1, <1>2 DEF Hook
    <2>3. Settled(armed, "gone") /\ "gone" \in Outcomes
      BY <2>1, <2>2 DEF Settle, Settled, Uninstall, Outcomes
    <2>4. Hands' /\ filled' \subseteq Arms /\ pages' \subseteq Pages
          /\ life' \in {"up", "abandoned", "down", "closed"}
      BY <1>1 DEF TypeOK, Hands
    <2> QED BY <1>1, <2>1, <2>3, <2>4, SettlingKeeps
  <1>3. CASE ~(watch # NoArm /\ armed = watch /\ on[watch] = p)
    <2>1. /\ UNCHANGED <<armed, current, timer, watch, last, installed>>
          /\ listening' = listening \ {p}
      BY <1>1, <1>3 DEF Hook
    <2>2. TypeOK'
      BY <1>1, <2>1 DEF TypeOK
    <2>3. InterceptsForAnArm' /\ ArmedIsWatched' /\ ListensEverywhere'
      BY <1>1, <1>3, <2>1 DEF IndInv, InterceptsForAnArm, ArmedIsWatched, ListensEverywhere
    <2>4. ArmsAccounted' /\ GivenOnce' /\ OutcomeIsTrue'
      BY <1>1, <2>1 DEF IndInv, ArmsAccounted, GivenOnce, OutcomeIsTrue, Has, Untouched
    <2> QED BY <2>2, <2>3, <2>4 DEF IndInv
  <1> QED BY <1>2, <1>3

\* A relaunch abandons the current arm before it tears anything down.
LEMMA BeginsKeeps ==
  ASSUME IndInv, RelaunchBegins
  PROVE  IndInv'
  <1>1. TypeOK /\ ArmedIsWatched /\ UNCHANGED <<pages, on, task, given, filled>> /\ Abandon
    BY DEF IndInv, RelaunchBegins, history
  <1>2. Hands' /\ filled' \subseteq Arms /\ pages' \subseteq Pages
        /\ life' \in {"up", "abandoned", "down", "closed"}
    BY <1>1 DEF TypeOK, Hands, RelaunchBegins
  <1>3. CASE current # NoArm
    <2>1. current \in Arms /\ Settle(current, "abandoned") /\ "abandoned" \in Outcomes
      BY <1>1, <1>3 DEF Abandon, TypeOK, Outcomes
    <2>2. Settled(current, "abandoned")
      BY <1>1, <2>1 DEF Settle, Settled, Uninstall, ArmedIsWatched
    <2> QED BY <1>1, <1>2, <2>1, <2>2, SettlingKeeps
  <1>4. CASE current = NoArm
    <2>1. Uninstall /\ UNCHANGED <<armed, current, last>>
      BY <1>1, <1>4 DEF Abandon
    <2>2. TypeOK'
      BY <1>1, <1>2, <2>1 DEF TypeOK, Uninstall, Hands
    <2>3. InterceptsForAnArm' /\ ArmedIsWatched' /\ ListensEverywhere'
      BY <1>1, <1>4, <2>1 DEF ArmedIsWatched, InterceptsForAnArm, ListensEverywhere, Uninstall
    <2>4. ArmsAccounted' /\ GivenOnce' /\ OutcomeIsTrue'
      BY <1>1, <2>1 DEF IndInv, ArmsAccounted, GivenOnce, OutcomeIsTrue, Has, Untouched
    <2> QED BY <2>2, <2>3, <2>4 DEF IndInv
  <1> QED BY <1>3, <1>4

\* So does the close of the session.
LEMMA ClosesKeeps ==
  ASSUME IndInv, SessionCloses
  PROVE  IndInv'
  <1>1. TypeOK /\ ArmedIsWatched /\ UNCHANGED <<pages, on, task, given, filled>> /\ Abandon
    BY DEF IndInv, SessionCloses, history
  <1>2. Hands' /\ filled' \subseteq Arms /\ pages' \subseteq Pages
        /\ life' \in {"up", "abandoned", "down", "closed"}
    BY <1>1 DEF TypeOK, Hands, SessionCloses
  <1>3. CASE current # NoArm
    <2>1. current \in Arms /\ Settle(current, "abandoned") /\ "abandoned" \in Outcomes
      BY <1>1, <1>3 DEF Abandon, TypeOK, Outcomes
    <2>2. Settled(current, "abandoned")
      BY <1>1, <2>1 DEF Settle, Settled, Uninstall, ArmedIsWatched
    <2> QED BY <1>1, <1>2, <2>1, <2>2, SettlingKeeps
  <1>4. CASE current = NoArm
    <2>1. Uninstall /\ UNCHANGED <<armed, current, last>>
      BY <1>1, <1>4 DEF Abandon
    <2>2. TypeOK'
      BY <1>1, <1>2, <2>1 DEF TypeOK, Uninstall, Hands
    <2>3. InterceptsForAnArm' /\ ArmedIsWatched' /\ ListensEverywhere'
      BY <1>1, <1>4, <2>1 DEF ArmedIsWatched, InterceptsForAnArm, ListensEverywhere, Uninstall
    <2>4. ArmsAccounted' /\ GivenOnce' /\ OutcomeIsTrue'
      BY <1>1, <2>1 DEF IndInv, ArmsAccounted, GivenOnce, OutcomeIsTrue, Has, Untouched
    <2> QED BY <2>2, <2>3, <2>4 DEF IndInv
  <1> QED BY <1>3, <1>4

\* Nothing is intercepted while the browser is replaced.
LEMMA RelaunchKeeps ==
  ASSUME IndInv, BrowserGone \/ RelaunchEnds
  PROVE  IndInv'
  <1>1. UNCHANGED <<state, on, task, history>> /\ ~installed /\ listening = {} /\ armed = NoArm
    BY DEF IndInv, ListensEverywhere, ArmedIsWatched, BrowserGone, RelaunchEnds
  <1>2. pages' \subseteq Pages /\ life' \in {"up", "abandoned", "down", "closed"}
    BY DEF BrowserGone, RelaunchEnds
  <1>3. TypeOK'
    BY <1>1, <1>2 DEF IndInv, TypeOK, state, history
  <1>4. InterceptsForAnArm' /\ ArmedIsWatched' /\ ListensEverywhere'
    BY <1>1 DEF InterceptsForAnArm, ArmedIsWatched, ListensEverywhere, state
  <1>5. ArmsAccounted' /\ GivenOnce' /\ OutcomeIsTrue'
    BY <1>1 DEF IndInv, ArmsAccounted, GivenOnce, OutcomeIsTrue, Has, Untouched, state, history
  <1> QED BY <1>3, <1>4, <1>5 DEF IndInv

\* Every step keeps IndInv.
LEMMA StepKeeps == IndInv /\ [Next]_vars => IndInv'
  <1> SUFFICES ASSUME IndInv, [Next]_vars PROVE IndInv'
    OBVIOUS
  <1>1. CASE UNCHANGED vars
    BY <1>1
       DEF vars, state, history, IndInv, TypeOK, InterceptsForAnArm, ArmedIsWatched,
           ListensEverywhere, ArmsAccounted, GivenOnce, OutcomeIsTrue, Has, Untouched
  <1>2. ASSUME NEW c \in Choosers, ChooserOpens(c) \/ ChooserStep(c) PROVE IndInv'
    BY <1>2, OpensKeeps, IgnoredKeeps, TakesKeeps, FillsKeeps, RefusedKeeps, FilledKeeps,
       FailsKeeps DEF ChooserStep
  <1>3. CASE Next
    BY <1>2, <1>3, ArmKeeps, ExpireKeeps, PageOpensKeeps, PageClosesKeeps, PageCrashesKeeps,
       BeginsKeeps, RelaunchKeeps, ClosesKeeps DEF Next
  <1> QED BY <1>1, <1>3

\* Interception is for an arm that is not settled, the armed one is watched with
\* its own hooks, and every arm is accounted for: for any arms, pages, choosers.
THEOREM Inductive == Spec => []IndInv
  BY InitHolds, StepKeeps, PTL DEF Spec

\* No arm's files are given to two choosers (_on_chooser takes the arm before its
\* first await).
THEOREM FilesGivenOnce == Spec => []GivenOnce
  <1>1. IndInv => GivenOnce
    BY DEF IndInv
  <1> QED BY <1>1, Inductive, PTL

\* What upload_status reports is what happened to the files.
THEOREM ReportsAreTrue == Spec => []OutcomeIsTrue
  <1>1. IndInv => OutcomeIsTrue
    BY DEF IndInv
  <1> QED BY <1>1, Inductive, PTL

\* An outcome is only ever reported of the newest arm.
THEOREM NewestReports == Spec => OnlyTheNewestReports
  <1> DEFINE Late == last' # last /\ last'.arm # NoArm => last'.arm = current
  <1>1. ASSUME IndInv, NEW a, NEW what, Settle(a, what) PROVE Late
    BY <1>1 DEF Settle, state
  <1>2. ASSUME NEW c \in Choosers, ChooserStep(c), IndInv PROVE Late
    BY <1>1, <1>2 DEF ChooserStep, ChooserIgnored, ChooserTakes, ChooserFills, ChooserRefused,
       ChooserFilled, ChooserFails, state
  <1>3. ASSUME IndInv, Next PROVE Late
    <2>1. CASE \E a \in Arms : Arm(a)
      BY <2>1 DEF Arm, NoOutcome
    <2>2. CASE \E c \in Choosers : ChooserOpens(c) \/ ChooserStep(c)
      BY <1>2, <1>3, <2>2 DEF ChooserOpens, state
    <2>3. CASE Expire \/ \E p \in Pages : PageCrashes(p)
      BY <1>1, <1>3, <2>3 DEF Expire, PageCrashes
    <2>4. CASE \E p \in Pages : PageCloses(p)
      BY <1>1, <1>3, <2>4 DEF PageCloses, Hook
    <2>5. CASE PageOpens
      BY <2>5 DEF PageOpens
    <2>6. CASE BrowserGone \/ RelaunchEnds
      BY <2>6 DEF BrowserGone, RelaunchEnds, state
    <2>7. CASE RelaunchBegins \/ SessionCloses
      BY <1>1, <1>3, <2>7 DEF RelaunchBegins, SessionCloses, Abandon
    <2> QED BY <1>3, <2>1, <2>2, <2>3, <2>4, <2>5, <2>6, <2>7 DEF Next
  <1>4. IndInv /\ [Next]_vars => [Late]_vars
    BY <1>3
  <1> QED BY <1>4, Inductive, PTL DEF Spec, OnlyTheNewestReports

\* Interception never outlives what will end it: the timer of the arm, or the
\* chooser that took it, whatever was armed, replaced or abandoned before.
THEOREM InterceptionHasAnEnd == Spec => [](InterceptsForAnArm /\ SomebodySettles)
  <1>1. Init => SomebodySettles
    BY DEF Init, SomebodySettles
  <1>2. ASSUME IndInv, SomebodySettles, [Next]_vars PROVE SomebodySettles'
    <2>1. ASSUME NEW c \in Choosers, ChooserOpens(c) \/ ChooserIgnored(c) PROVE SomebodySettles'
      <3>1. task[c].at \in {"none", "opened"} /\ UNCHANGED state
            /\ \A d \in Choosers \ {c} : task'[d] = task[d]
        BY <1>2, <2>1 DEF ChooserOpens, ChooserIgnored, IndInv, TypeOK
      <3> QED BY <1>2, <3>1 DEF SomebodySettles, Has, state
    <2>2. ASSUME NEW c \in Choosers, ChooserTakes(c) PROVE SomebodySettles'
      <3>1. armed = current /\ current' = current /\ current \in Arms
        BY <1>2, <2>2 DEF ChooserTakes, TakesArm, IndInv, TypeOK, ArmedIsWatched
      <3>2. task'[c].at = "taken" /\ task'[c].arm = armed
        BY <1>2, <2>2 DEF ChooserTakes, IndInv, TypeOK
      <3> QED BY <3>1, <3>2 DEF SomebodySettles, Has
    <2>3. ASSUME NEW c \in Choosers, ChooserFills(c) PROVE SomebodySettles'
      <3>1. task'[c].at = "filling" /\ task'[c].arm = task[c].arm /\ task[c].at = "taken"
            /\ \A d \in Choosers \ {c} : task'[d] = task[d]
        BY <1>2, <2>3 DEF ChooserFills, IndInv, TypeOK
      <3> QED BY <1>2, <2>3, <3>1 DEF ChooserFills, SomebodySettles, Has, state
    <2>4. ASSUME NEW c \in Choosers, ChooserRefused(c) \/ ChooserFilled(c) \/ ChooserFails(c)
          PROVE SomebodySettles'
      <3>1. task'[c] = NoTask /\ (\A d \in Choosers \ {c} : task'[d] = task[d])
            /\ task[c].at \in {"taken", "filling"}
        BY <1>2, <2>4 DEF ChooserRefused, ChooserFilled, ChooserFails, IndInv, TypeOK
      <3>2. current' = NoArm \/ (UNCHANGED state /\ current # task[c].arm)
        BY <2>4 DEF ChooserRefused, ChooserFilled, ChooserFails, Settle, state
      <3> QED BY <1>2, <3>1, <3>2 DEF SomebodySettles, Has, state
    <2>5. ASSUME UNCHANGED task, current' = NoArm \/ UNCHANGED <<current, armed, timer>>
          PROVE  SomebodySettles'
      BY <1>2, <2>5 DEF SomebodySettles, Has
    <2>6. CASE \/ \E p \in Pages : PageCloses(p) \/ PageCrashes(p)
               \/ Expire \/ PageOpens \/ BrowserGone \/ RelaunchEnds \/ UNCHANGED vars
      BY <2>5, <2>6 DEF PageCloses, PageCrashes, Expire, PageOpens, BrowserGone, RelaunchEnds,
                        Hook, Settle, state, vars
    <2>7. CASE RelaunchBegins \/ SessionCloses
      <3>1. current' = NoArm
        BY <2>7 DEF RelaunchBegins, SessionCloses, Abandon, Settle
      <3> QED BY <2>5, <2>7, <3>1 DEF RelaunchBegins, SessionCloses
    <2>8. CASE \E a \in Arms : Arm(a)
      BY <2>8 DEF Arm, Hooks, SomebodySettles
    <2> QED BY <1>2, <2>1, <2>2, <2>3, <2>4, <2>6, <2>7, <2>8 DEF Next, ChooserStep
  <1>3. IndInv => InterceptsForAnArm
    BY DEF IndInv
  <1> QED BY <1>1, <1>2, <1>3, Inductive, PTL DEF Spec

==============================================================================
