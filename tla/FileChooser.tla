----------------------------- MODULE FileChooser -----------------------------
(***************************************************************************)
(* The armed upload of one session (daemon/file_chooser.py): upload_next   *)
(* arms the next file chooser of the active page; the page's choosers are  *)
(* intercepted until the arm is settled: filled, refused, failed, expired, *)
(* its page gone, or abandoned when the browser is relaunched or closed.   *)
(*                                                                         *)
(* A step is the code between two awaits.  upload_next and the relaunch    *)
(* run under the session's lock; choosers, timer, page events and the      *)
(* close of the session come at any time.                                  *)
(***************************************************************************)
EXTENDS Naturals, FiniteSets

CONSTANTS
  Arms,      \* the arms made, each with its files
  Several,   \* those that hold more than one file
  Pages,     \* pages of the session's browser
  Choosers,  \* choosers being handled at once
  NoArm, NoPage

ASSUME AbsentDiffer == NoArm \notin Arms /\ NoPage \notin Pages /\ Several \subseteq Arms

VARIABLES
  armed, current,  \* state["armed"], state["_current"]
  timer, watch,    \* the arm whose expiry timer, close and crash hooks are set
  last,            \* state["last"]
  installed,       \* state["installed"]
  listening,       \* pages with the filechooser listener
  pages,           \* session.context.pages
  on,              \* arm -> the page it is bound to
  task,            \* chooser -> the _on_chooser that handles it
  life,            \* the browser: up, in a relaunch, or closed
  given, filled    \* history: times set_files was called for an arm; it succeeded

state == <<armed, current, timer, watch, last, installed, listening>>
history == <<given, filled>>
vars == <<state, pages, on, task, life, history>>

Outcomes == {"consumed", "refused", "failed", "expired", "gone", "abandoned"}
NoTask == [at |-> "none", page |-> NoPage, arm |-> NoArm]
NoOutcome == [arm |-> NoArm, what |-> "none"]

TypeOK ==
  /\ {armed, current, timer, watch} \subseteq Arms \cup {NoArm}
  /\ last \in [arm : Arms, what : Outcomes] \cup {NoOutcome}
  /\ installed \in BOOLEAN
  /\ listening \subseteq pages /\ pages \subseteq Pages
  /\ on \in [Arms -> Pages \cup {NoPage}]
  /\ task \in [Choosers -> [at : {"none", "opened", "taken", "filling"},
                            page : Pages \cup {NoPage}, arm : Arms \cup {NoArm}]]
  /\ life \in {"up", "abandoned", "down", "closed"}
  /\ given \in [Arms -> Nat] /\ filled \subseteq Arms

Init ==
  /\ armed = NoArm /\ current = NoArm /\ timer = NoArm /\ watch = NoArm
  /\ last = NoOutcome
  /\ installed = FALSE /\ listening = {}
  /\ pages \in {{p} : p \in Pages}
  /\ on = [a \in Arms |-> NoPage]
  /\ task = [c \in Choosers |-> NoTask]
  /\ life = "up"
  /\ given = [a \in Arms |-> 0] /\ filled = {}

------------------------------------------------------------------------------
(* _settle and what it calls.                                                *)

Uninstall ==
  /\ timer' = NoArm /\ watch' = NoArm
  /\ installed' = FALSE /\ listening' = {}

\* Mutants of Settle: the outcome of a replaced arm counts too; the arm that
\* was being filled stays the current one.
SettleAny(a, what) ==
  /\ current' = NoArm /\ armed' = NoArm
  /\ last' = [arm |-> a, what |-> what]
  /\ Uninstall

SettleForgets(a, what) ==
  IF current # a
  THEN UNCHANGED state
  ELSE /\ armed' = NoArm /\ UNCHANGED current
       /\ last' = [arm |-> a, what |-> what]
       /\ timer' = NoArm /\ watch' = NoArm /\ UNCHANGED <<installed, listening>>

Settle(a, what) ==
  IF current # a
  THEN UNCHANGED state
  ELSE /\ current' = NoArm
       /\ armed' = IF armed = a THEN NoArm ELSE armed
       /\ last' = [arm |-> a, what |-> what]
       /\ Uninstall

------------------------------------------------------------------------------
(* upload_next.                                                              *)

\* The hooks of an earlier arm are dropped for the new arm's.
Hooks(a) == timer' = a /\ watch' = a

\* Replaces any earlier arm, also one that is being filled.
Arm(a) ==
  /\ life = "up" /\ on[a] = NoPage
  /\ \E p \in pages : on' = [on EXCEPT ![a] = p]
  /\ armed' = a /\ current' = a /\ last' = NoOutcome
  /\ Hooks(a)
  /\ installed' = TRUE
  /\ listening' = IF installed THEN listening ELSE pages
  /\ UNCHANGED <<pages, task, life, history>>

------------------------------------------------------------------------------
(* _on_chooser.                                                              *)

\* A page opens a chooser; the listener schedules its handling.
ChooserOpens(c) ==
  /\ task[c].at = "none"
  /\ \E p \in listening : task' = [task EXCEPT ![c] = [at |-> "opened", page |-> p, arm |-> NoArm]]
  /\ UNCHANGED <<state, pages, on, life, history>>

TakesArm(c) == task[c].at = "opened" /\ armed # NoArm /\ on[armed] = task[c].page

\* No arm to give, or one bound to another page: swallowed, or foreign.
ChooserIgnored(c) ==
  /\ task[c].at = "opened" /\ ~TakesArm(c)
  /\ task' = [task EXCEPT ![c] = NoTask]
  /\ UNCHANGED <<state, pages, on, life, history>>

\* A mutant of Disarm: the arm is given back only when the files are set.
DisarmLate == UNCHANGED armed

Disarm == armed' = NoArm

\* Takes the arm before the first await (owner_frame).
ChooserTakes(c) ==
  /\ TakesArm(c)
  /\ Disarm
  /\ task' = [task EXCEPT ![c].at = "taken", ![c].arm = armed]
  /\ UNCHANGED <<current, timer, watch, last, installed, listening, pages, on, life, history>>

\* The chooser takes several files, or one is all there is.
ChooserFills(c) ==
  /\ task[c].at = "taken"
  /\ task' = [task EXCEPT ![c].at = "filling"]
  /\ given' = [given EXCEPT ![task[c].arm] = @ + 1]
  /\ UNCHANGED <<state, pages, on, life, filled>>

ChooserRefused(c) ==
  /\ task[c].at = "taken" /\ task[c].arm \in Several
  /\ Settle(task[c].arm, "refused")
  /\ task' = [task EXCEPT ![c] = NoTask]
  /\ UNCHANGED <<pages, on, life, history>>

ChooserFilled(c) ==
  /\ task[c].at = "filling" /\ task[c].page \in pages
  /\ Settle(task[c].arm, "consumed")
  /\ filled' = filled \cup {task[c].arm}
  /\ task' = [task EXCEPT ![c] = NoTask]
  /\ UNCHANGED <<pages, on, life, given>>

ChooserFails(c) ==
  /\ task[c].at = "filling"
  /\ Settle(task[c].arm, "failed")
  /\ task' = [task EXCEPT ![c] = NoTask]
  /\ UNCHANGED <<pages, on, life, history>>

------------------------------------------------------------------------------
(* Timer and pages.                                                          *)

\* A mutant of Expire: an arm that a chooser has taken expires too.
ExpireTaken ==
  /\ timer # NoArm
  /\ Settle(timer, "expired")
  /\ UNCHANGED <<pages, on, task, life, history>>

\* _expire: nothing happens to an arm that a chooser has taken.
Expire ==
  /\ timer # NoArm /\ armed = timer
  /\ Settle(timer, "expired")
  /\ UNCHANGED <<pages, on, task, life, history>>

PageOpens ==
  /\ life = "up"
  /\ \E p \in Pages \ pages :
       /\ \A c \in Choosers : task[c].page # p
       /\ \A a \in Arms : on[a] = p => a \notin {armed, current, watch}
       /\ pages' = pages \cup {p}
       /\ listening' = IF installed THEN listening \cup {p} ELSE listening
  /\ UNCHANGED <<armed, current, timer, watch, last, installed, on, task, life, history>>

\* on_gone, when the page the hooks watch has gone.
Hook(p) ==
  IF watch # NoArm /\ armed = watch /\ on[watch] = p
  THEN Settle(watch, "gone")
  ELSE UNCHANGED <<armed, current, timer, watch, last, installed>> /\ listening' = listening \ {p}

PageCloses(p) ==
  /\ life = "up" /\ p \in pages
  /\ pages' = pages \ {p}
  /\ Hook(p)
  /\ UNCHANGED <<on, task, life, history>>

PageCrashes(p) ==
  /\ life = "up" /\ p \in pages
  /\ watch # NoArm /\ armed = watch /\ on[watch] = p
  /\ Settle(watch, "gone")
  /\ UNCHANGED <<pages, on, task, life, history>>

------------------------------------------------------------------------------
(* Relaunch and close.                                                       *)

Abandon == IF current # NoArm THEN Settle(current, "abandoned") ELSE Uninstall /\ UNCHANGED <<armed, current, last>>

RelaunchBegins ==
  /\ life = "up"
  /\ Abandon
  /\ life' = "abandoned"
  /\ UNCHANGED <<pages, on, task, history>>

\* The old browser is torn down; what it was filling fails.
BrowserGone ==
  /\ life = "abandoned"
  /\ life' = "down" /\ pages' = {}
  /\ UNCHANGED <<state, on, task, history>>

\* The new session is handed the old one's state.
RelaunchEnds ==
  /\ life = "down"
  /\ life' = "up"
  /\ \E p \in Pages :
       /\ \A c \in Choosers : task[c].page # p
       /\ pages' = {p}
  /\ UNCHANGED <<state, on, task, history>>

SessionCloses ==
  /\ life # "closed"
  /\ Abandon
  /\ life' = "closed"
  /\ UNCHANGED <<pages, on, task, history>>

ChooserStep(c) ==
  ChooserIgnored(c) \/ ChooserTakes(c) \/ ChooserFills(c) \/ ChooserRefused(c)
  \/ ChooserFilled(c) \/ ChooserFails(c)

Next ==
  \/ \E a \in Arms : Arm(a)
  \/ \E c \in Choosers : ChooserOpens(c) \/ ChooserStep(c)
  \/ Expire \/ PageOpens
  \/ \E p \in Pages : PageCloses(p) \/ PageCrashes(p)
  \/ RelaunchBegins \/ BrowserGone \/ RelaunchEnds \/ SessionCloses

\* Timers fire, handlers run, and set_files has a timeout of its own; owner_frame,
\* which a chooser that has taken the arm awaits, has none.
Fairness ==
  WF_vars(Expire) /\ \A c \in Choosers : WF_vars(task[c].at # "taken" /\ ChooserStep(c))

Spec == Init /\ [][Next]_vars /\ Fairness

------------------------------------------------------------------------------
(* Properties.                                                               *)

\* The files of an arm are given to one chooser at most, whatever choosers the
\* page opens while the first is being filled.
GivenOnce == \A a \in Arms : given[a] <= 1

\* Pages are intercepted only for an arm that is not settled.
InterceptsForAnArm == installed \/ listening # {} => current # NoArm

\* An arm no chooser has taken is listened for on every page, and its own timer
\* and its own page's hooks are set: nothing of an older arm disarmed them.
ArmedIsWatched ==
  armed # NoArm =>
    /\ current = armed /\ timer = armed /\ watch = armed
    /\ installed /\ listening = pages /\ on[armed] \in pages

\* upload_status tells the truth: "consumed" only of files a page got, and
\* "expired" or "page gone before a chooser opened" only of files none was given.
OutcomeIsTrue ==
  /\ last.what = "consumed" => last.arm \in filled
  /\ last.what \in {"expired", "gone"} => given[last.arm] = 0

\* Who has an arm: nobody before it is made; then it is armed, or one chooser has
\* it, or none will.
Has(c, a) == task[c].at \in {"taken", "filling"} /\ task[c].arm = a
Untouched(a) == given[a] = 0 /\ \A c \in Choosers : ~Has(c, a)
ArmsAccounted ==
  /\ \A a \in Arms : on[a] = NoPage => a \notin {armed, current} /\ Untouched(a)
  /\ armed # NoArm => Untouched(armed)
  /\ \A c \in Choosers :
       /\ task[c].at # "none" => task[c].page \in Pages
       /\ task[c].at = "taken" => task[c].arm \in Arms /\ given[task[c].arm] = 0
       /\ task[c].at = "filling" => task[c].arm \in Arms
       /\ \A d \in Choosers \ {c}, a \in Arms : ~(Has(c, a) /\ Has(d, a))
  /\ last.what \in {"expired", "gone"} => last.arm # armed /\ Untouched(last.arm)

\* An arm that is not settled has its timer running, or a chooser is at work that
\* will settle it: InterceptionEnds never waits for something nobody will do.
SomebodySettles ==
  current # NoArm =>
    (armed = current /\ timer = current) \/ \E c \in Choosers : Has(c, current)

\* Every page is listened to, or none; and none while the browser is replaced.
ListensEverywhere ==
  /\ IF installed THEN listening = pages ELSE listening = {}
  /\ life # "up" => ~installed

\* What every step keeps: interception is for an arm that is not settled, the
\* armed one is watched with its own hooks, each arm is given to one chooser at
\* most, and upload_status tells the truth.
IndInv ==
  /\ TypeOK /\ InterceptsForAnArm /\ ArmedIsWatched /\ ListensEverywhere
  /\ ArmsAccounted /\ GivenOnce /\ OutcomeIsTrue

\* The outcome reported is of the newest arm: an older one's that comes late
\* is dropped.
OnlyTheNewestReports == [][last' # last /\ last'.arm # NoArm => last'.arm = current]_vars

\* If the pages answer owner_frame, interception does not outlive the arm, and the
\* arm does not outlive its timer or the chooser that took it.
OwnersAnswer == \A c \in Choosers : []<>(task[c].at # "taken")
InterceptionEnds == OwnersAnswer => (installed ~> ~installed)

==============================================================================
