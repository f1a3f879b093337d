----------------------------- MODULE SessionPages -----------------------------
(***************************************************************************)
(* The pages of one session: which page the verbs drive (session.page,     *)
(* session.frame_ref), the map and the handles clients refer to, the       *)
(* tracking of page events (daemon/browser.py, _wire_page_tracking and the *)
(* reviver) and the recovery of a crashed verb (daemon/server.py,          *)
(* _run_session_verb_with_recovery).                                       *)
(*                                                                         *)
(* A step is the code between two awaits.  Verbs hold entry.lock, so there *)
(* is one at a time; pages open, close, crash and navigate on their own    *)
(* between any two steps.                                                  *)
(*                                                                         *)
(* A page is its place in context.pages, the oldest first; the places      *)
(* close up when a page closes, and what referred to it refers to NoTab.   *)
(* What belongs to a document is "now" or, once its page has loaded        *)
(* another one, "old".                                                     *)
(***************************************************************************)
EXTENDS Naturals, FiniteSets

CONSTANTS
  MaxTab,     \* pages open at once
  MaxTabs,    \* clients and pages go on while no more than so many are open
  MaxHandles, \* JS handles held at once
  Verbs,      \* the verbs clients send
  Hasty       \* pages may close or crash while a verb waits for new_page, and
              \* a page may load, close or crash before its new_page answers

ASSUME BoundsNatural ==
  {MaxTab, MaxTabs} \subseteq Nat \ {0} /\ MaxHandles \in Nat /\ Hasty \in BOOLEAN

VARIABLES
  alive,     \* the browser context answers
  tabs,      \* how many pages are open: context.pages is 1..tabs
  loaded,    \* pages that show a document, not the blank one
  crashed,   \* pages whose renderer died; they are not closed
  mapped,    \* pages whose aria refs are of the document they show
  active,    \* session.page
  frame,     \* session.frame_ref
  snapshot,  \* entry.snapshot
  handles,   \* entry.handles
  reviver,   \* session._revive_task
  verb       \* the verb that holds entry.lock

browser == <<alive, tabs, loaded, crashed, mapped>>
refs == <<frame, snapshot, handles>>
vars == <<browser, active, refs, reviver, verb>>

Tab == 1..MaxTab
NoTab == 0

\* What a call drives or a client refers to: a page, or something of a document.
Surface == [tab : Tab \cup {NoTab}, doc : {"any", "now", "old"}]
Page(t) == [tab |-> t, doc |-> "any"]
Within(t) == [tab |-> t, doc |-> "now"]
None == [tab |-> NoTab, doc |-> "none"]

NoReviver == [at |-> "none", tab |-> NoTab]
Idle == [name |-> "none", at |-> "idle", on |-> None, tries |-> 0, fresh |-> NoTab,
         went |-> None, bad |-> {}, moved |-> FALSE]

Open == 1..tabs

TypeOK ==
  /\ alive \in BOOLEAN /\ tabs \in 0..MaxTab
  /\ loaded \subseteq Open /\ crashed \subseteq Open /\ mapped \subseteq Open
  /\ active \in Open \cup {NoTab}
  /\ {frame, snapshot} \subseteq Surface \cup {None} /\ handles \subseteq Surface
  /\ \A s \in {frame, snapshot, verb.on, verb.went} \cup handles : s.tab \in Open \cup {NoTab}
  /\ reviver \in [at : {"none", "asked", "queued", "opened"}, tab : Open \cup {NoTab}]
  /\ verb = Idle \/ (verb.name \in Verbs /\ verb.tries \in 1..2 /\ verb.bad \subseteq Open)

Init ==
  /\ alive = TRUE /\ tabs = 1 /\ loaded = {} /\ crashed = {} /\ mapped = {}
  /\ active = 1 /\ frame = None /\ snapshot = None /\ handles = {}
  /\ reviver = NoReviver /\ verb = Idle

------------------------------------------------------------------------------
(* The browser.                                                              *)

\* The driver's error is a crash signature when the page is gone (is_crash_error);
\* what belonged to an earlier document of a live page fails otherwise.
Gone(s) == ~alive \/ s.tab \notin Open \/ s.tab \in crashed
Works(s) == ~Gone(s) /\ s.doc \in {"any", "now"}

FreshTab == tabs + 1

Opens ==
  /\ tabs' = FreshTab
  /\ UNCHANGED <<alive, loaded, crashed, mapped>>

\* Page t loads another document: what was of the one before is old.
Older(s, t) == IF s = Within(t) THEN [s EXCEPT !.doc = "old"] ELSE s
VerbOlder(t) == [verb EXCEPT !.on = Older(@, t), !.went = Older(@, t)]

Loads(t) ==
  /\ loaded' = loaded \cup {t} /\ mapped' = mapped \ {t}
  /\ frame' = Older(frame, t) /\ snapshot' = Older(snapshot, t)
  /\ handles' = {Older(h, t) : h \in handles}
  /\ UNCHANGED <<alive, tabs, crashed>>

\* Page t is closed: the later ones move up, what was of it is of no page.
Place(u, t) == IF u = t THEN NoTab ELSE IF u > t THEN u - 1 ELSE u
Lost(s, t) == [s EXCEPT !.tab = Place(@, t)]
Places(S, t) == {Place(u, t) : u \in S \ {t}}
VerbLost(t) ==
  [verb EXCEPT !.on = Lost(@, t), !.went = Lost(@, t), !.bad = Places(@, t),
               !.fresh = Place(@, t)]

Closes(t) ==
  /\ tabs' = tabs - 1
  /\ loaded' = Places(loaded, t) /\ crashed' = Places(crashed, t) /\ mapped' = Places(mapped, t)
  /\ frame' = Lost(frame, t) /\ snapshot' = Lost(snapshot, t)
  /\ handles' = {Lost(h, t) : h \in handles}
  /\ UNCHANGED alive

------------------------------------------------------------------------------
(* _wire_page_tracking.                                                      *)

\* on_new_page: the newest page is the one to drive.
OnNewPage == active' = FreshTab

\* The driver makes pages in the order they were asked for.
VerbAsked == verb.at \in {"new", "heal"}

\* _schedule_revive: one task, however many pages close.
ScheduleRevive ==
  reviver' = IF reviver.at # "none" THEN [reviver EXCEPT !.tab = NoTab]
             ELSE [at |-> IF VerbAsked THEN "queued" ELSE "asked", tab |-> NoTab]

\* Mutant: with a verb running the page is left to the recovery of that verb.
OnCloseIdle(t) ==
  IF tabs > 1
  THEN active' = tabs - 1 /\ reviver' = [reviver EXCEPT !.tab = Place(@, t)]
  ELSE /\ active' = NoTab
       /\ IF verb = Idle THEN ScheduleRevive ELSE UNCHANGED reviver

\* on_close, of any page: fall back to the newest one, or ask for a page.
OnClose(t) ==
  IF tabs > 1
  THEN active' = tabs - 1 /\ reviver' = [reviver EXCEPT !.tab = Place(@, t)]
  ELSE active' = NoTab /\ ScheduleRevive

\* Unless Hasty, new_page answers before anything happens to its page.
Answered(t) == Hasty \/ t \notin {reviver.tab, verb.fresh}
MayEnd(t) == Answered(t) /\ (Hasty \/ ~VerbAsked)

\* The pages moved, perhaps while a `go` was running.
Moved(v) == verb' = [v EXCEPT !.moved = (verb.name = "go")]

\* A blank page has no script; the others may open pages and move on.
Scripted == loaded \ crashed

Popup ==
  /\ Scripted # {} /\ tabs < MaxTabs
  /\ Opens /\ OnNewPage /\ Moved(verb)
  /\ UNCHANGED <<refs, reviver>>

PageNavigates(t) ==
  /\ t \in Scripted
  /\ Loads(t) /\ Moved(VerbOlder(t))
  /\ UNCHANGED <<active, reviver>>

PageCloses(t) ==
  /\ t \in Open /\ MayEnd(t)
  /\ Closes(t) /\ OnClose(t) /\ Moved(VerbLost(t))

RendererCrashes(t) ==
  /\ t \in Open \ crashed /\ MayEnd(t)
  /\ crashed' = crashed \cup {t} /\ Moved(verb)
  /\ UNCHANGED <<alive, tabs, loaded, mapped, active, refs, reviver>>

\* Every page closes, and no other one can be had.
BrowserDies ==
  LET lost(s) == [s EXCEPT !.tab = NoTab] IN
  /\ alive /\ alive' = FALSE
  /\ tabs' = 0 /\ loaded' = {} /\ crashed' = {} /\ mapped' = {} /\ active' = NoTab
  /\ frame' = lost(frame) /\ snapshot' = lost(snapshot) /\ handles' = {lost(h) : h \in handles}
  /\ IF tabs = 0 THEN UNCHANGED reviver ELSE ScheduleRevive
  /\ Moved([verb EXCEPT !.on = lost(@), !.went = lost(@), !.bad = {}, !.fresh = NoTab])

\* The reviver's new_page: the page event comes before its answer.  A browser
\* that lives always has a page to give.
ReviverOpens ==
  /\ reviver.at = "asked" \/ (reviver.at = "queued" /\ ~VerbAsked)
  /\ alive
  /\ Opens /\ OnNewPage
  /\ reviver' = [at |-> "opened", tab |-> FreshTab]
  /\ UNCHANGED <<refs, verb>>

\* Mutant: a verb waits for the page, not for the end of the task.
ReviverEndsWithPage ==
  /\ \/ reviver.at # "none" /\ ~alive /\ UNCHANGED <<active, frame, verb>>
     \/ /\ reviver.at = "opened" /\ active' = reviver.tab /\ frame' = None
        /\ verb' = IF verb.at = "await" THEN [verb EXCEPT !.at = "woken"] ELSE verb
  /\ reviver' = NoReviver
  /\ UNCHANGED <<browser, snapshot, handles>>

\* The task ends; a verb that awaits it goes on.
ReviverEnds ==
  /\ \/ reviver.at # "none" /\ ~alive /\ UNCHANGED <<active, frame>>
     \/ reviver.at = "opened" /\ active' = reviver.tab /\ frame' = None
  /\ reviver' = NoReviver
  /\ verb' = IF verb.at = "await" THEN [verb EXCEPT !.at = "woken"] ELSE verb
  /\ UNCHANGED <<browser, snapshot, handles>>

------------------------------------------------------------------------------
(* The verbs.                                                                *)

\* Verbs that ask for the session through _need_session, which repairs a page
\* that is gone, and those that may be run again (RETRY_SAFE_VERBS).
Repairing ==
  {"go", "back", "reload", "text", "map", "click", "click_ref",
   "page_new", "page_switch", "page_close"}
RetrySafe == {"go", "back", "reload", "text", "map"}

Repaired(t, open) == IF t = NoTab THEN open ELSE t

\* What the handler's first call may drive (BrowserSession.target, the page, a
\* handle).
Drives(name, t) ==
  CASE name \in {"text", "map", "click"} -> {IF frame # None THEN frame ELSE Page(t)}
    [] name = "handle_eval" -> handles
    [] name = "page_switch" -> {Page(u) : u \in Open}
    [] OTHER -> {Page(t)}

Answer == verb' = Idle

Begin(name) ==
  LET t == IF name \in Repairing THEN Repaired(active, tabs) ELSE active IN
  /\ verb = Idle /\ tabs <= MaxTabs
  /\ name # "frame" /\ (name = "eval_handle" => Cardinality(handles) < MaxHandles)
  /\ \E s \in Drives(name, t) :
       /\ active' = IF name = "page_switch" THEN s.tab ELSE t
       /\ verb' = IF name = "click_ref" /\ snapshot = None THEN Idle
                  ELSE [Idle EXCEPT !.name = name, !.on = s, !.tries = 1,
                                    !.at = IF name = "page_new" THEN "new" ELSE "call"]
  /\ UNCHANGED <<browser, refs, reviver>>

\* `frame` has no await: the child frame of the active page's document, or none.
Frame ==
  /\ "frame" \in Verbs /\ verb = Idle
  /\ frame' \in {None} \cup {Within(t) : t \in {active} \cap loaded}
  /\ UNCHANGED <<browser, active, snapshot, handles, reviver, verb>>

At(name, stage) == verb.name = name /\ verb.at = stage
CallWorks == verb.at = "call" /\ Works(verb.on)

\* goto, go_back and reload commit a document; then the page, as it is now, is
\* left to settle.  go_back may find nothing to go back to, and its errors,
\* crashes included, are swallowed.
ToSettle(went) == verb' = [verb EXCEPT !.at = "settle", !.on = Page(active), !.went = went]

Navigated ==
  /\ CallWorks /\ verb.name \in {"go", "back", "reload"} /\ Answered(verb.on.tab)
  /\ Loads(verb.on.tab)
  /\ ToSettle(IF verb.name = "go" THEN Within(verb.on.tab) ELSE None)
  /\ UNCHANGED <<active, reviver>>

\* Mutant: a failed goto is swallowed like a failed go_back.
GoNowhere ==
  /\ verb.at = "call" /\ verb.name \in {"go", "back"} /\ ToSettle(None)
  /\ UNCHANGED <<browser, active, refs, reviver>>

BackNowhere ==
  /\ At("back", "call") /\ ToSettle(None)
  /\ UNCHANGED <<browser, active, refs, reviver>>

\* _invalidate_snapshot; reload keeps the frame, go asks for the title.
Settled ==
  /\ verb.at = "settle"
  /\ snapshot' = None /\ handles' = {}
  /\ frame' = IF verb.name = "reload" THEN frame ELSE None
  /\ verb' = IF verb.name = "go" THEN [verb EXCEPT !.at = "title", !.on = Page(active)] ELSE Idle
  /\ UNCHANGED <<browser, active, reviver>>

Titled ==
  /\ verb.at = "title" /\ Works(verb.on) /\ Answer
  /\ UNCHANGED <<browser, active, refs, reviver>>

\* text, click, handle_eval and page_switch leave the session as it is.
Done ==
  /\ CallWorks /\ verb.name \in {"text", "click", "handle_eval", "page_switch"} /\ Answer
  /\ UNCHANGED <<browser, active, refs, reviver>>

\* A ref resolves in the page's last map, of the document it shows.
ClickedRef ==
  /\ CallWorks /\ verb.name = "click_ref" /\ verb.on.tab \in mapped /\ Answer
  /\ UNCHANGED <<browser, active, refs, reviver>>

\* Mutant: map_compact answers from its snapshot and does not keep it.
MappedInPassing ==
  /\ CallWorks /\ verb.name \in {"map", "map_compact"}
  /\ mapped' = mapped \cup {verb.on.tab}
  /\ snapshot' = IF verb.name = "map" THEN Within(verb.on.tab) ELSE snapshot
  /\ Answer
  /\ UNCHANGED <<alive, tabs, loaded, crashed, active, frame, handles, reviver>>

\* take_snapshot: of the frame or the page (map), of the page (map_compact).
Mapped ==
  /\ CallWorks /\ verb.name \in {"map", "map_compact"}
  /\ mapped' = mapped \cup {verb.on.tab}
  /\ snapshot' = Within(verb.on.tab) /\ Answer
  /\ UNCHANGED <<alive, tabs, loaded, crashed, active, frame, handles, reviver>>

Evaluated ==
  /\ CallWorks /\ verb.name = "eval_handle"
  /\ handles' = handles \cup {Within(verb.on.tab)} /\ Answer
  /\ UNCHANGED <<browser, active, frame, snapshot, reviver>>

\* page_close: the close event, then the first page is driven.
Closed ==
  LET t == verb.on.tab IN
  /\ At("page_close", "call") /\ alive /\ t \in Open /\ MayEnd(t)
  /\ Closes(t) /\ OnClose(t)
  /\ verb' = [VerbLost(t) EXCEPT !.at = "closed"]

CloseAnswers ==
  /\ verb.at = "closed" /\ Answer
  /\ active' = IF tabs # 0 THEN 1 ELSE active
  /\ UNCHANGED <<browser, refs, reviver>>

\* page_new: the page event, then the answer.
NewOpens ==
  /\ At("page_new", "new") /\ alive /\ reviver.at \in {"none", "queued"}
  /\ Opens /\ OnNewPage
  /\ verb' = [verb EXCEPT !.at = "made", !.fresh = FreshTab]
  /\ UNCHANGED <<refs, reviver>>

NewAnswers ==
  /\ verb.at = "made" /\ Answer /\ active' = verb.fresh
  /\ UNCHANGED <<browser, refs, reviver>>

\* An error that is no crash (a timeout, a detached frame, an unknown ref).
Fails ==
  /\ verb.at \in {"call", "new", "title"} /\ verb.name # "back" /\ Answer
  /\ UNCHANGED <<browser, active, refs, reviver>>

------------------------------------------------------------------------------
(* _run_session_verb_with_recovery.                                          *)

\* The first crash is recovered from, by the reviver's page if it is at work;
\* the second one is the answer.
CrashSeen ==
  /\ \/ verb.at \in {"call", "title"} /\ verb.name # "back" /\ Gone(verb.on)
     \/ verb.at \in {"new", "made"} /\ ~alive
  /\ verb' = IF verb.tries = 2 THEN Idle
             ELSE [verb EXCEPT !.bad = crashed, !.went = None, !.on = None, !.fresh = NoTab,
                               !.at = IF reviver.at = "none" THEN "heal" ELSE "await"]
  /\ UNCHANGED <<browser, active, refs, reviver>>

\* The page is there: the map is dropped, a read or navigation is run again.
Heal(t, open) ==
  LET u == Repaired(t, open) IN
  /\ frame' = None /\ snapshot' = None
  /\ IF verb.name \in RetrySafe
     THEN /\ active' = u
          /\ verb' = [verb EXCEPT !.at = "call", !.on = Page(u), !.tries = 2, !.fresh = NoTab]
     ELSE active' = t /\ Answer

\* The reviver is done: its page, or whichever is newest, or a page of our own.
Woken ==
  /\ verb.at = "woken"
  /\ IF tabs # 0 THEN Heal(tabs, tabs)
     ELSE /\ verb' = [verb EXCEPT !.at = "heal"] /\ UNCHANGED <<active, frame, snapshot>>
  /\ UNCHANGED <<browser, handles, reviver>>

\* Mutant: revive_page() takes a page that is still open.
HealReuses ==
  /\ verb.at = "heal" /\ alive /\ reviver.at \in {"none", "queued"}
  /\ IF tabs # 0 THEN Heal(tabs, tabs) /\ UNCHANGED <<browser, handles>>
     ELSE /\ Opens /\ OnNewPage
          /\ verb' = [verb EXCEPT !.at = "adopt", !.fresh = FreshTab]
          /\ UNCHANGED refs
  /\ UNCHANGED reviver

\* revive_page(force_new=True).
HealOpens ==
  /\ verb.at = "heal" /\ alive /\ reviver.at \in {"none", "queued"}
  /\ Opens /\ OnNewPage
  /\ verb' = [verb EXCEPT !.at = "adopt", !.fresh = FreshTab]
  /\ UNCHANGED <<refs, reviver>>

HealAdopts ==
  /\ verb.at = "adopt" /\ Heal(verb.fresh, tabs)
  /\ UNCHANGED <<browser, handles, reviver>>

\* The context is dead: a new browser, whose session has no reviver, or an error.
Relaunch ==
  /\ verb.at \in {"heal", "adopt"} /\ ~alive
  /\ alive' = TRUE /\ tabs' = 1 /\ UNCHANGED <<loaded, crashed, mapped>>
  /\ Heal(1, 1) /\ reviver' = NoReviver /\ handles' = {}

RelaunchFails ==
  /\ verb.at \in {"heal", "adopt"} /\ ~alive /\ Answer
  /\ UNCHANGED <<browser, active, refs, reviver>>

------------------------------------------------------------------------------

Step ==
  \/ Navigated \/ BackNowhere \/ Settled \/ Titled \/ Done \/ ClickedRef \/ Mapped
  \/ Evaluated \/ Closed \/ CloseAnswers \/ NewOpens \/ NewAnswers \/ Fails
  \/ CrashSeen \/ Woken \/ HealOpens \/ HealAdopts \/ Relaunch \/ RelaunchFails

Revival == ReviverOpens \/ ReviverEnds

PageEvent ==
  \/ Popup \/ BrowserDies
  \/ \E t \in Tab : PageCloses(t) \/ PageNavigates(t) \/ RendererCrashes(t)

Request == Frame \/ \E name \in Verbs : Begin(name)

Next == Request \/ Step \/ Revival \/ PageEvent

\* The calls that have a time-out or none to make: the page is left to settle
\* (wait_settled), and what awaited the reviver's task is resumed.  The others
\* may take for ever: evaluate, count, title, close and new_page have no time-out.
Timed == {"settle", "woken"}

\* The loop runs what is ready; nothing makes clients send verbs, pages do
\* anything, or a page or the browser answer.
Spec == Init /\ [][Next]_vars
FairSpec == Spec /\ WF_vars(verb.at \in Timed /\ Step)

------------------------------------------------------------------------------
(* Correctness.                                                              *)

\* A `go` that is answered with ok tells of the document it loaded, and leaves
\* the session on it, unless pages moved by themselves meanwhile: no page of a
\* recovery or of the reviver takes the place of the one the client asked for.
GoTellsWhereItWent ==
  [][Titled /\ ~verb.moved => verb.went = Within(active)]_vars

\* What is run again after a crash does not drive a page that had crashed.
RetryOnAFreshPage ==
  [][verb.tries = 1 /\ verb'.tries = 2 => verb'.on.tab \notin verb.bad]_vars

\* A ref acts on the document of the last map, as long as the page that was
\* mapped is the one that is driven.
RefsActOnTheirMap ==
  [][ClickedRef /\ snapshot.tab = verb.on.tab => snapshot.doc = "now"]_vars

\* The driver answers every call in the end, the verb's and the reviver's: what
\* the code itself does not see to.
DriverAnswers ==
  /\ []<>(verb.at \in Timed \cup {"idle", "await"})
  /\ []<>(reviver.at = "none")

\* If the driver answers, every verb is answered: by its handler, its second run,
\* or an error.  None awaits a reviver that has ended.
EveryVerbAnswers == DriverAnswers => (verb # Idle ~> verb = Idle)

\* If the driver answers, a session whose last page is gone gets one without being
\* asked, as long as its browser lives.
PageComesBack == DriverAnswers => (tabs = 0 ~> (tabs # 0 \/ ~alive))

\* The reviver that a crashed verb awaits, with entry.lock held, is at work.
AwaitsAtWork == verb.at = "await" => reviver.at # "none"

==============================================================================
