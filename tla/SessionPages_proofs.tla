-------------------------- MODULE SessionPages_proofs --------------------------
(* Proofs about SessionPages, for any number of pages and handles and any      *)
(* verbs.  The snapshot of a page whose refs are current is of the document it *)
(* shows, also with Hasty.  Without it, a `go` tells of the page it drives and *)
(* what is run again after a crash drives no page that had crashed; and the    *)
(* types, with how many pages there can be.                                    *)
EXTENDS SessionPages, TLAPS

Docs == {"none", "any", "now", "old"}

Numbered ==
  /\ tabs \in Nat /\ mapped \subseteq Open /\ loaded \subseteq Open
  /\ ~alive => tabs = 0
  /\ snapshot \in [tab : Nat, doc : Docs]

RefsCurrent == snapshot.tab \in mapped => snapshot.doc = "now"

MapsHeld == Numbered /\ RefsCurrent

\* Initially one page is open and nothing is mapped.
LEMMA InitHeld == Init => MapsHeld
BY DEF Init, MapsHeld, Numbered, RefsCurrent, Open, None, NoTab, Docs

\* Another page is open.
LEMMA OpensHeld ==
  ASSUME MapsHeld, alive, Opens, UNCHANGED snapshot
  PROVE  MapsHeld'
BY DEF MapsHeld, Numbered, RefsCurrent, Open, Opens, FreshTab

\* A page loads a document: it has no map, and its last snapshot is old.
LEMMA LoadsHeld ==
  ASSUME MapsHeld, NEW t \in Open, Loads(t)
  PROVE  MapsHeld'
<1>1. /\ snapshot' = IF snapshot = Within(t) THEN [snapshot EXCEPT !.doc = "old"] ELSE snapshot
      /\ mapped' = mapped \ {t} /\ loaded' = loaded \cup {t} /\ UNCHANGED <<alive, tabs>>
  BY DEF Loads, Older
<1>2. CASE snapshot = Within(t)
  BY <1>1, <1>2 DEF MapsHeld, Numbered, RefsCurrent, Open, Within, Docs
<1>3. CASE snapshot # Within(t)
  BY <1>1, <1>3 DEF MapsHeld, Numbered, RefsCurrent, Open
<1>4. QED  BY <1>2, <1>3

\* A page closes: the places of the others keep them apart.
LEMMA ClosesHeld ==
  ASSUME MapsHeld, NEW t \in Open, Closes(t)
  PROVE  MapsHeld'
<1>1. /\ tabs' = tabs - 1 /\ mapped' = Places(mapped, t) /\ loaded' = Places(loaded, t)
      /\ snapshot' = [snapshot EXCEPT !.tab = Place(snapshot.tab, t)] /\ UNCHANGED alive
  BY DEF Closes, Lost
<1>2. t \in Nat \ {0} /\ tabs \in Nat \ {0} /\ snapshot.tab \in Nat
  BY DEF MapsHeld, Numbered, Open
<1>3. \A u \in Nat : Place(u, t) \in Nat /\ (u \in Open \ {t} => Place(u, t) \in Open')
  BY <1>1, <1>2 DEF Place, Open, NoTab
<1>4. \A u \in Nat, w \in Open \ {t} : Place(u, t) = Place(w, t) => u = w
  BY <1>2 DEF Place, Open, NoTab
<1>5. mapped \subseteq Open /\ loaded \subseteq Open
  BY DEF MapsHeld, Numbered
<1>6. mapped' \subseteq Open' /\ loaded' \subseteq Open'
  BY <1>1, <1>3, <1>5 DEF Places, Open
<1>7. snapshot'.tab \in mapped' => snapshot.tab \in mapped
  <2>1. snapshot'.tab = Place(snapshot.tab, t)
    BY <1>1 DEF MapsHeld, Numbered
  <2>2. QED  BY <1>1, <1>2, <1>4, <1>5, <2>1 DEF Places
<1>8. snapshot' \in [tab : Nat, doc : Docs] /\ snapshot'.doc = snapshot.doc
  BY <1>1, <1>2, <1>3 DEF MapsHeld, Numbered
<1>9. QED
  BY <1>1, <1>2, <1>6, <1>7, <1>8 DEF MapsHeld, Numbered, RefsCurrent

\* The snapshot is taken, dropped, or left alone, and the pages stay.
LEMMA SnapshotHeld ==
  ASSUME MapsHeld, UNCHANGED <<alive, tabs, loaded>>,
         \/ UNCHANGED <<mapped, snapshot>>
         \/ UNCHANGED mapped /\ snapshot' = None
         \/ \E t \in Open : mapped' = mapped \cup {t} /\ snapshot' = Within(t)
  PROVE  MapsHeld'
<1>1. CASE UNCHANGED <<mapped, snapshot>>
  BY <1>1 DEF MapsHeld, Numbered, RefsCurrent, Open
<1>2. CASE UNCHANGED mapped /\ snapshot' = None
  BY <1>2 DEF MapsHeld, Numbered, RefsCurrent, Open, None, NoTab, Docs
<1>3. ASSUME NEW t \in Open, mapped' = mapped \cup {t}, snapshot' = Within(t)
      PROVE  MapsHeld'
  <2>1. t \in Nat /\ Within(t) \in [tab : Nat, doc : Docs] /\ Within(t).doc = "now"
    BY DEF MapsHeld, Numbered, Open, Within, Docs
  <2>2. QED  BY <1>3, <2>1 DEF MapsHeld, Numbered, RefsCurrent, Open
<1>4. QED  BY <1>1, <1>2, <1>3

\* What recovers drops the snapshot, or keeps it.
LEMMA HealHeld ==
  ASSUME NEW t, NEW open, Heal(t, open)
  PROVE  snapshot' = None
BY DEF Heal

\* A verb, at any of its stages.
LEMMA StepHeld ==
  ASSUME MapsHeld, Step
  PROVE  MapsHeld'
<1>1. CASE Navigated
  <2>1. verb.on.tab \in Open
    BY <1>1 DEF Navigated, CallWorks, Works, Gone
  <2>2. QED  BY <1>1, <2>1, LoadsHeld DEF Navigated
<1>2. CASE BackNowhere \/ Titled \/ Done \/ ClickedRef \/ Evaluated \/ CloseAnswers \/ NewAnswers
           \/ Fails \/ CrashSeen \/ RelaunchFails
  <2>1. UNCHANGED <<browser, snapshot>>
    BY <1>2 DEF BackNowhere, Titled, Done, ClickedRef, Evaluated, CloseAnswers, NewAnswers, Fails,
                CrashSeen, RelaunchFails, refs
  <2>2. QED  BY <2>1, SnapshotHeld DEF browser
<1>3. CASE Settled
  BY <1>3, SnapshotHeld DEF Settled, browser
<1>4. CASE Mapped
  <2>1. verb.on.tab \in Open
    BY <1>4 DEF Mapped, CallWorks, Works, Gone
  <2>2. QED  BY <1>4, <2>1, SnapshotHeld DEF Mapped
<1>5. CASE Closed
  BY <1>5, ClosesHeld DEF Closed
<1>6. CASE NewOpens \/ HealOpens
  BY <1>6, OpensHeld DEF NewOpens, HealOpens, refs
<1>7. CASE Woken \/ HealAdopts
  <2>1. UNCHANGED browser /\ (snapshot' = None \/ UNCHANGED snapshot)
    BY <1>7, HealHeld DEF Woken, HealAdopts
  <2>2. QED  BY <2>1, SnapshotHeld DEF browser
<1>8. CASE Relaunch
  <2>1. snapshot' = None /\ tabs' = 1 /\ alive' = TRUE /\ UNCHANGED <<loaded, mapped>> /\ ~alive
    BY <1>8, HealHeld DEF Relaunch
  <2>2. QED  BY <2>1 DEF MapsHeld, Numbered, RefsCurrent, Open, None, NoTab, Docs
<1>9. QED  BY <1>1, <1>2, <1>3, <1>4, <1>5, <1>6, <1>7, <1>8 DEF Step

\* Every step keeps the maps of open pages and the age of the snapshot.
LEMMA NextHeld == MapsHeld /\ [Next]_vars => MapsHeld'
<1> SUFFICES ASSUME MapsHeld, [Next]_vars  PROVE MapsHeld'
  OBVIOUS
<1>1. CASE Request
  <2>1. UNCHANGED <<browser, snapshot>>
    BY <1>1 DEF Request, Frame, Begin, refs
  <2>2. QED  BY <2>1, SnapshotHeld DEF browser
<1>2. CASE Revival
  BY <1>2, OpensHeld, SnapshotHeld DEF Revival, ReviverOpens, ReviverEnds, refs, browser
<1>3. CASE PageEvent
  <2>1. CASE Popup
    <3>1. alive
      <4>1. PICK t \in loaded : TRUE
        BY <2>1 DEF Popup, Scripted
      <4>2. t \in 1..tabs /\ tabs \in Nat
        BY <4>1 DEF MapsHeld, Numbered, Open
      <4>3. tabs # 0
        BY <4>2
      <4>4. QED  BY <4>3 DEF MapsHeld, Numbered
    <3>2. QED  BY <2>1, <3>1, OpensHeld DEF Popup, refs
  <2>2. CASE BrowserDies
    BY <2>2 DEF BrowserDies, MapsHeld, Numbered, RefsCurrent, Open, NoTab
  <2>3. ASSUME NEW t \in Tab, PageCloses(t)  PROVE MapsHeld'
    BY <2>3, ClosesHeld DEF PageCloses
  <2>4. ASSUME NEW t \in Tab, PageNavigates(t)  PROVE MapsHeld'
    BY <2>4, LoadsHeld DEF PageNavigates, Scripted, MapsHeld, Numbered
  <2>5. ASSUME NEW t \in Tab, RendererCrashes(t)  PROVE MapsHeld'
    BY <2>5, SnapshotHeld DEF RendererCrashes, refs
  <2>6. QED  BY <1>3, <2>1, <2>2, <2>3, <2>4, <2>5 DEF PageEvent
<1>4. CASE UNCHANGED vars
  BY <1>4, SnapshotHeld DEF vars, browser, refs
<1>5. QED  BY <1>1, <1>2, <1>3, <1>4, StepHeld DEF Next

\* A ref that is clicked acts on the document the last map described, as long as
\* the mapped page is still the one that is driven: for any pages, handles and
\* verbs, whatever closes, crashes or navigates in between.
THEOREM RefsAreCurrent == Spec => RefsActOnTheirMap
<1>1. MapsHeld => [ClickedRef /\ snapshot.tab = verb.on.tab => snapshot.doc = "now"]_vars
  BY DEF MapsHeld, RefsCurrent, ClickedRef
<1>2. QED  BY <1>1, InitHeld, NextHeld, PTL DEF Spec, RefsActOnTheirMap

-----------------------------------------------------------------------------
(* What a `go` tells, and what is run again: when new_page answers before      *)
(* anything happens to its page.  With Hasty neither holds.                    *)

IsVerb(v) ==
  v = [name |-> v.name, at |-> v.at, on |-> v.on, tries |-> v.tries, fresh |-> v.fresh,
       went |-> v.went, bad |-> v.bad, moved |-> v.moved]

Counted ==
  /\ tabs \in Nat /\ alive \in BOOLEAN /\ loaded \subseteq Open /\ crashed \subseteq Open
  /\ ~alive => tabs = 0
  /\ active \in Open \cup {NoTab}

VerbSound == IsVerb(verb) /\ verb.bad \subseteq Open /\ verb.fresh \in Open \cup {NoTab}

\* The reviver was asked for because no page was left; while its own page has
\* not been answered, that page is the only one, blank and driven.
ReviverCalm ==
  /\ reviver = [at |-> reviver.at, tab |-> reviver.tab]
  /\ reviver.at \in {"none", "asked", "queued", "opened"}
  /\ reviver.at # "opened" => reviver.tab = NoTab
  /\ reviver.at \in {"asked", "queued"} => tabs = 0
  /\ reviver.at = "queued" => ~alive
  /\ reviver.at = "opened" =>
       IF alive THEN tabs = 1 /\ reviver.tab = 1 /\ active = 1 /\ loaded = {} /\ crashed = {}
       ELSE reviver.tab = NoTab

\* The page a verb has made is there, and no reviver is at work.
FreshHeld ==
  verb.at \in {"made", "adopt"} /\ alive => verb.fresh \in Open /\ reviver.at = "none"

\* The pages that had crashed: none if the reviver is awaited, and never the
\* page the recovery has made.
BadKnown ==
  /\ verb.at \in {"await", "woken"} => verb.bad = {}
  /\ verb.at = "adopt" => verb.fresh \notin verb.bad

\* A `go` during which no page moved drives the session's page.
GoOnItsPage ==
  /\ verb.at = "title" => verb.name = "go"
  /\ verb.name = "go" /\ ~verb.moved =>
       /\ verb.at = "call" => verb.on.tab \in {active, NoTab}
       /\ verb.at \in {"settle", "title"} => active \in Open /\ verb.went = Within(active)

PagesKept == Counted /\ VerbSound /\ ReviverCalm /\ FreshHeld /\ BadKnown /\ GoOnItsPage

LEMMA InitKept == Init => PagesKept
BY DEF Init, PagesKept, Counted, VerbSound, IsVerb, ReviverCalm, FreshHeld, BadKnown,
       GoOnItsPage, Open, Idle, NoReviver, NoTab, None

LEMMA IdleVerb ==
  /\ IsVerb(Idle) /\ Idle.name = "none" /\ Idle.at = "idle" /\ Idle.bad = {} /\ Idle.fresh = NoTab
  /\ Idle.tries = 0
BY DEF Idle, IsVerb

\* A verb goes on, and the pages, the session and the reviver stay as they are.
LEMMA VerbGoesOn ==
  ASSUME PagesKept, UNCHANGED <<alive, tabs, loaded, crashed, active, reviver>>,
         IsVerb(verb'), verb'.bad \subseteq Open, verb'.fresh \in Open \cup {NoTab},
         verb'.at \notin {"made", "adopt"},
         verb'.at \in {"await", "woken"} => verb'.bad = {},
         verb'.at = "title" => verb'.name = "go",
         verb'.name = "go" /\ ~verb'.moved =>
           /\ verb'.at = "call" => verb'.on.tab \in {active, NoTab}
           /\ verb'.at \in {"settle", "title"} => active \in Open /\ verb'.went = Within(active)
  PROVE  PagesKept'
BY DEF PagesKept, Counted, VerbSound, ReviverCalm, FreshHeld, BadKnown, GoOnItsPage, Open

LEMMA AnswerKept ==
  ASSUME PagesKept, UNCHANGED <<alive, tabs, loaded, crashed, active, reviver>>, Answer
  PROVE  PagesKept'
BY VerbGoesOn, IdleVerb DEF Answer

\* The last page of the session is driven instead, and then the verb answers.
LEMMA AnswerOnAPage ==
  ASSUME PagesKept, UNCHANGED <<alive, tabs, loaded, crashed, reviver>>, Answer,
         active' \in Open \cup {NoTab}, reviver.at = "opened" /\ alive => active' = active
  PROVE  PagesKept'
BY IdleVerb DEF Answer, PagesKept, Counted, VerbSound, ReviverCalm, FreshHeld, BadKnown,
                GoOnItsPage, Open

\* A page event finds a `go` moved; of the verb nothing else but its pages changes.
LEMMA EventVerb ==
  ASSUME PagesKept, IsVerb(verb'),
         verb'.name = verb.name, verb'.at = verb.at, verb'.moved = (verb.name = "go"),
         verb'.bad \subseteq Open', verb'.fresh \in Open' \cup {NoTab},
         verb.at \in {"await", "woken"} => verb'.bad = {},
         verb.at = "adopt" => verb'.fresh \notin verb'.bad,
         verb.at \in {"made", "adopt"} /\ alive' => verb'.fresh \in Open' /\ reviver'.at = "none",
         Counted', ReviverCalm'
  PROVE  PagesKept'
<1>1. VerbSound' /\ FreshHeld' /\ BadKnown'
  BY DEF VerbSound, FreshHeld, BadKnown
<1>2. GoOnItsPage'
  BY DEF GoOnItsPage, PagesKept
<1>3. QED  BY <1>1, <1>2 DEF PagesKept

LEMMA MovedVerb ==
  ASSUME IsVerb(verb), Moved(verb)
  PROVE  /\ IsVerb(verb') /\ verb'.name = verb.name /\ verb'.at = verb.at
         /\ verb'.moved = (verb.name = "go") /\ verb'.bad = verb.bad /\ verb'.fresh = verb.fresh
BY DEF IsVerb, Moved

\* While a page shows a document or a page crashes, its reviver is no longer at work.
LEMMA PagesWithoutReviver ==
  ASSUME PagesKept, NEW t \in Open
  PROVE  alive /\ tabs \in Nat \ {0} /\ t \in Nat \ {0} /\ t <= tabs
         /\ reviver.at \in {"none", "opened"}
         /\ (reviver.at = "opened" => tabs = 1 /\ t = 1 /\ reviver.tab = 1 /\ loaded = {}
                                      /\ crashed = {} /\ active = 1)
BY DEF PagesKept, Counted, ReviverCalm, Open

LEMMA PopupKept ==
  ASSUME PagesKept, Popup
  PROVE  PagesKept'
<1>1. /\ tabs' = tabs + 1 /\ active' = tabs + 1 /\ UNCHANGED <<alive, loaded, crashed, reviver>>
      /\ Moved(verb) /\ Scripted # {}
  BY DEF Popup, Opens, OnNewPage, FreshTab
<1>2. PICK t \in loaded : t \in Open
  BY <1>1 DEF Scripted, PagesKept, Counted
<1>3. alive /\ tabs \in Nat /\ reviver.at = "none"
  BY <1>2, PagesWithoutReviver
<1>4. \A u \in Open : u \in Open'
  BY <1>1, <1>3 DEF Open
<1>5. Counted'
  BY <1>1, <1>3, <1>4 DEF PagesKept, Counted, Open
<1>6. ReviverCalm'
  BY <1>1, <1>3 DEF PagesKept, ReviverCalm
<1>7. verb'.bad \subseteq Open' /\ verb'.fresh \in Open' \cup {NoTab}
  BY <1>1, <1>4, MovedVerb DEF PagesKept, VerbSound
<1>8. verb.at \in {"made", "adopt"} /\ alive' => verb'.fresh \in Open' /\ reviver'.at = "none"
  BY <1>1, <1>3, <1>4, MovedVerb DEF PagesKept, FreshHeld, VerbSound
<1>9. QED
  BY <1>1, <1>5, <1>6, <1>7, <1>8, MovedVerb, EventVerb DEF PagesKept, BadKnown, VerbSound

LEMMA NavigatesKept ==
  ASSUME PagesKept, NEW t \in Tab, PageNavigates(t)
  PROVE  PagesKept'
<1>1. /\ UNCHANGED <<alive, tabs, crashed, active, reviver>> /\ loaded' = loaded \cup {t}
      /\ t \in loaded /\ Moved(VerbOlder(t))
  BY DEF PageNavigates, Loads, Scripted
<1>2. /\ IsVerb(verb') /\ verb'.name = verb.name /\ verb'.at = verb.at
      /\ verb'.moved = (verb.name = "go") /\ verb'.bad = verb.bad /\ verb'.fresh = verb.fresh
  BY <1>1 DEF Moved, VerbOlder, IsVerb, PagesKept, VerbSound
<1>3. Counted' /\ ReviverCalm' /\ Open' = Open /\ loaded' = loaded
  BY <1>1 DEF PagesKept, Counted, ReviverCalm, Open
<1>4. QED
  BY <1>1, <1>2, <1>3, EventVerb DEF PagesKept, VerbSound, BadKnown, FreshHeld

LEMMA CrashesKept ==
  ASSUME PagesKept, ~Hasty, NEW t \in Tab, RendererCrashes(t)
  PROVE  PagesKept'
<1>1. /\ UNCHANGED <<alive, tabs, loaded, active, reviver>> /\ crashed' = crashed \cup {t}
      /\ t \in Open /\ Moved(verb) /\ t # reviver.tab
  BY DEF RendererCrashes, MayEnd, Answered
<1>2. reviver.at = "none" /\ alive
  BY <1>1, PagesWithoutReviver
<1>3. Counted' /\ ReviverCalm' /\ Open' = Open
  BY <1>1, <1>2 DEF PagesKept, Counted, ReviverCalm, Open
<1>4. QED
  BY <1>1, <1>3, MovedVerb, EventVerb DEF PagesKept, VerbSound, BadKnown, FreshHeld

\* Where the pages are once page t has closed.
LEMMA PlacesAfter ==
  ASSUME PagesKept, NEW t \in Open, Closes(t)
  PROVE  /\ tabs' = tabs - 1 /\ tabs' \in Nat /\ UNCHANGED alive
         /\ \A u \in Open \ {t} : Place(u, t) \in Open'
         /\ \A u \in Open, w \in Open \ {t} : Place(u, t) = Place(w, t) => u = w
         /\ \A S : S \subseteq Open => Places(S, t) \subseteq Open'
         /\ Places({}, t) = {} /\ Place(NoTab, t) = NoTab /\ Place(t, t) = NoTab
<1>1. tabs \in Nat \ {0} /\ t \in Nat \ {0} /\ t <= tabs
  BY PagesWithoutReviver
<1>2. tabs' = tabs - 1 /\ UNCHANGED alive
  BY DEF Closes
<1>3. \A u \in Open \ {t} : Place(u, t) \in Open'
  BY <1>1, <1>2 DEF Place, Open
<1>4. \A u \in Open, w \in Open \ {t} : Place(u, t) = Place(w, t) => u = w
  BY <1>1 DEF Place, Open, NoTab
<1>5. \A S : S \subseteq Open => Places(S, t) \subseteq Open'
  BY <1>3 DEF Places
<1>6. Places({}, t) = {}
  BY DEF Places
<1>7. Place(NoTab, t) = NoTab /\ Place(t, t) = NoTab
  BY <1>1 DEF Place, NoTab
<1>8. QED  BY <1>1, <1>2, <1>3, <1>4, <1>5, <1>6, <1>7

\* A page closes, of itself or by page_close.
LEMMA CloseCounted ==
  ASSUME PagesKept, ~Hasty, NEW t \in Open, MayEnd(t), Closes(t), OnClose(t)
  PROVE  /\ Counted' /\ ReviverCalm'
         /\ t # verb.fresh /\ (tabs > 1 => reviver' = reviver /\ reviver.at = "none")
<1>1. t \notin {reviver.tab, verb.fresh} /\ ~VerbAsked
  BY DEF MayEnd, Answered
<1>2. reviver.at = "none" /\ alive /\ tabs \in Nat \ {0} /\ reviver.tab = NoTab
  BY <1>1, PagesWithoutReviver DEF PagesKept, ReviverCalm
<1>3. loaded' \subseteq Open' /\ crashed' \subseteq Open'
  <2>1. loaded' = Places(loaded, t) /\ crashed' = Places(crashed, t)
    BY DEF Closes
  <2>2. QED  BY <2>1, PlacesAfter DEF PagesKept, Counted
<1>4. CASE tabs > 1
  <2>1. active' = tabs - 1 /\ reviver' = [reviver EXCEPT !.tab = Place(reviver.tab, t)]
    BY <1>4 DEF OnClose
  <2>2. reviver' = reviver
    BY <2>1, <1>2, PlacesAfter DEF PagesKept, ReviverCalm
  <2>3. active' \in Open'
    <3>1. tabs' = tabs - 1
      BY DEF Closes
    <3>2. QED  BY <1>2, <1>4, <2>1, <3>1 DEF Open
  <2>4. QED
    BY <1>1, <1>2, <1>3, <2>2, <2>3, PlacesAfter DEF PagesKept, Counted, ReviverCalm
<1>5. CASE ~(tabs > 1)
  <2>1. active' = NoTab /\ reviver' = [at |-> "asked", tab |-> NoTab]
    BY <1>1, <1>2, <1>5 DEF OnClose, ScheduleRevive
  <2>2. tabs' = 0
    BY <1>2, <1>5 DEF Closes
  <2>3. Counted'
    BY <1>2, <1>3, <2>1, <2>2, PlacesAfter DEF PagesKept, Counted
  <2>4. ReviverCalm'
    BY <2>1, <2>2 DEF ReviverCalm
  <2>5. QED  BY <1>1, <1>5, <2>3, <2>4
<1>6. QED  BY <1>4, <1>5

LEMMA ClosesKept ==
  ASSUME PagesKept, ~Hasty, NEW t \in Tab, PageCloses(t)
  PROVE  PagesKept'
<1>1. t \in Open /\ MayEnd(t) /\ Closes(t) /\ OnClose(t) /\ Moved(VerbLost(t))
  BY DEF PageCloses
<1>2. /\ IsVerb(verb') /\ verb'.name = verb.name /\ verb'.at = verb.at
      /\ verb'.moved = (verb.name = "go") /\ verb'.bad = Places(verb.bad, t)
      /\ verb'.fresh = Place(verb.fresh, t)
  BY <1>1 DEF Moved, VerbLost, IsVerb, PagesKept, VerbSound
<1>3. Counted' /\ ReviverCalm' /\ t # verb.fresh
  BY <1>1, CloseCounted
<1>4. verb'.bad \subseteq Open' /\ verb'.fresh \in Open' \cup {NoTab}
  BY <1>1, <1>2, <1>3, PlacesAfter DEF PagesKept, VerbSound
<1>5. verb.at \in {"await", "woken"} => verb'.bad = {}
  BY <1>1, <1>2, PlacesAfter DEF PagesKept, BadKnown
<1>6. alive
  BY <1>1, PagesWithoutReviver
<1>7. ASSUME verb.at \in {"made", "adopt"}
      PROVE  verb.fresh \in Open \ {t} /\ verb'.fresh \in Open' /\ reviver'.at = "none"
  <2>1. verb.fresh \in Open \ {t}
    BY <1>3, <1>6, <1>7 DEF PagesKept, FreshHeld
  <2>2. tabs > 1
    BY <2>1, <1>1, PagesWithoutReviver DEF Open
  <2>3. QED  BY <1>1, <1>2, <2>1, <2>2, PlacesAfter, CloseCounted
<1>8. ASSUME verb.at = "adopt"  PROVE verb'.fresh \notin verb'.bad
  <2>1. verb.fresh \in Open \ {t} /\ verb.fresh \notin verb.bad /\ verb.bad \subseteq Open
    BY <1>7, <1>8 DEF PagesKept, BadKnown, VerbSound
  <2>2. ASSUME NEW u \in verb.bad, Place(u, t) = Place(verb.fresh, t)  PROVE FALSE
    BY <1>1, <2>1, <2>2, PlacesAfter
  <2>3. QED  BY <1>2, <2>2 DEF Places
<1>9. QED  BY <1>2, <1>3, <1>4, <1>5, <1>7, <1>8, EventVerb

LEMMA DiesKept ==
  ASSUME PagesKept, BrowserDies
  PROVE  PagesKept'
<1>1. /\ alive /\ alive' = FALSE /\ tabs' = 0 /\ loaded' = {} /\ crashed' = {} /\ active' = NoTab
      /\ IF tabs = 0 THEN UNCHANGED reviver ELSE ScheduleRevive
  BY DEF BrowserDies
<1>2. /\ IsVerb(verb') /\ verb'.name = verb.name /\ verb'.at = verb.at
      /\ verb'.moved = (verb.name = "go") /\ verb'.bad = {} /\ verb'.fresh = NoTab
  BY DEF BrowserDies, Moved, IsVerb, PagesKept, VerbSound
<1>3. Counted'
  BY <1>1 DEF Counted
<1>4. ReviverCalm'
  <2>1. CASE tabs = 0
    BY <1>1, <2>1 DEF PagesKept, ReviverCalm
  <2>2. CASE tabs # 0 /\ reviver.at = "none"
    BY <1>1, <2>2 DEF ScheduleRevive, ReviverCalm
  <2>3. CASE tabs # 0 /\ reviver.at # "none"
    <3>1. reviver' = [reviver EXCEPT !.tab = NoTab]
      BY <1>1, <2>3 DEF ScheduleRevive
    <3>2. reviver'.at = reviver.at /\ reviver'.tab = NoTab
          /\ reviver' = [at |-> reviver'.at, tab |-> reviver'.tab]
      BY <3>1 DEF PagesKept, ReviverCalm
    <3>3. QED  BY <1>1, <3>2 DEF PagesKept, ReviverCalm
  <2>4. QED  BY <2>1, <2>2, <2>3
<1>5. QED  BY <1>1, <1>2, <1>3, <1>4, EventVerb DEF NoTab

LEMMA RevivalKept ==
  ASSUME PagesKept, Revival
  PROVE  PagesKept'
<1>1. CASE ReviverOpens
  <2>1. /\ tabs' = tabs + 1 /\ active' = tabs + 1 /\ UNCHANGED <<alive, loaded, crashed, verb>>
        /\ reviver' = [at |-> "opened", tab |-> tabs + 1]
        /\ alive /\ reviver.at \in {"asked", "queued"}
    BY <1>1 DEF ReviverOpens, Opens, OnNewPage, FreshTab
  <2>2. tabs = 0 /\ reviver.at = "asked"
    BY <2>1 DEF PagesKept, ReviverCalm
  <2>3. Open = {} /\ Open' = {1} /\ loaded = {} /\ crashed = {} /\ active = NoTab
    BY <2>1, <2>2 DEF PagesKept, Counted, Open
  <2>4. Counted' /\ ReviverCalm'
    BY <2>1, <2>2, <2>3 DEF PagesKept, Counted, ReviverCalm
  <2>5. VerbSound' /\ FreshHeld' /\ BadKnown'
    BY <2>1, <2>2, <2>3 DEF PagesKept, VerbSound, FreshHeld, BadKnown
  <2>6. GoOnItsPage'
    BY <2>1, <2>2, <2>3 DEF PagesKept, GoOnItsPage, VerbSound, NoTab
  <2>7. QED  BY <2>4, <2>5, <2>6 DEF PagesKept
<1>2. CASE ReviverEnds
  <2>1. /\ UNCHANGED <<alive, tabs, loaded, crashed>> /\ reviver' = NoReviver
        /\ verb' = IF verb.at = "await" THEN [verb EXCEPT !.at = "woken"] ELSE verb
        /\ active' = active \/ (reviver.at = "opened" /\ active' = reviver.tab)
    BY <1>2 DEF ReviverEnds, browser
  <2>2. active' = active
    BY <2>1 DEF PagesKept, ReviverCalm, Counted, Open, NoTab
  <2>3. Counted' /\ ReviverCalm' /\ Open' = Open
    BY <2>1, <2>2 DEF PagesKept, Counted, ReviverCalm, Open, NoReviver, NoTab
  <2>4. /\ IsVerb(verb') /\ verb'.name = verb.name /\ verb'.moved = verb.moved
        /\ verb'.bad = verb.bad /\ verb'.fresh = verb.fresh /\ verb'.on = verb.on
        /\ verb'.went = verb.went
        /\ (verb'.at = verb.at \/ (verb.at = "await" /\ verb'.at = "woken"))
    BY <2>1 DEF PagesKept, VerbSound, IsVerb
  <2>5. VerbSound' /\ FreshHeld' /\ BadKnown'
    BY <2>1, <2>3, <2>4 DEF PagesKept, VerbSound, FreshHeld, BadKnown, NoReviver
  <2>6. GoOnItsPage'
    BY <2>2, <2>3, <2>4 DEF PagesKept, GoOnItsPage
  <2>7. QED  BY <2>3, <2>5, <2>6 DEF PagesKept
<1>3. QED  BY <1>1, <1>2 DEF Revival

LEMMA RequestKept ==
  ASSUME PagesKept, Request
  PROVE  PagesKept'
<1>1. CASE Frame
  BY <1>1 DEF Frame, browser, PagesKept, Counted, VerbSound, ReviverCalm, FreshHeld, BadKnown,
              GoOnItsPage, Open
<1>2. ASSUME NEW name \in Verbs, Begin(name)  PROVE PagesKept'
  <2> DEFINE t == IF name \in Repairing THEN Repaired(active, tabs) ELSE active
  <2>1. /\ UNCHANGED <<alive, tabs, loaded, crashed, reviver>> /\ verb = Idle
        /\ \E s \in Drives(name, t) :
             /\ active' = IF name = "page_switch" THEN s.tab ELSE t
             /\ verb' = IF name = "click_ref" /\ snapshot = None THEN Idle
                        ELSE [Idle EXCEPT !.name = name, !.on = s, !.tries = 1,
                                          !.at = IF name = "page_new" THEN "new" ELSE "call"]
    BY <1>2 DEF Begin, browser
  <2>2. t \in Open \cup {NoTab} /\ (reviver.at = "opened" /\ alive => t = active)
    BY DEF PagesKept, Counted, ReviverCalm, Repaired, Open, NoTab
  <2>3. name = "page_switch" => \A s \in Drives(name, t) : s.tab \in Open
    BY DEF Drives, Page
  <2>4. name = "go" => \A s \in Drives(name, t) : s.tab = t
    BY DEF Drives, Page
  <2> HIDE DEF t
  <2>5. Open' = Open /\ active' \in Open \cup {NoTab}
        /\ (reviver.at = "opened" /\ alive => active' = active)
    <3>1. CASE name = "page_switch"
      BY <2>1, <2>3, <3>1 DEF PagesKept, Counted, ReviverCalm, Open
    <3>2. CASE name # "page_switch"
      BY <2>1, <2>2, <3>2 DEF Open
    <3>3. QED  BY <3>1, <3>2
  <2>6. /\ IsVerb(verb') /\ verb'.bad = {} /\ verb'.fresh = NoTab
        /\ verb'.at \in {"idle", "new", "call"}
        /\ verb'.name = "go" => verb'.at = "idle" \/ verb'.on.tab \in {active', NoTab}
    <3>1. PICK s \in Drives(name, t) :
             /\ active' = IF name = "page_switch" THEN s.tab ELSE t
             /\ verb' = IF name = "click_ref" /\ snapshot = None THEN Idle
                        ELSE [Idle EXCEPT !.name = name, !.on = s, !.tries = 1,
                                          !.at = IF name = "page_new" THEN "new" ELSE "call"]
      BY <2>1
    <3>2. CASE verb' = Idle
      BY <3>2, IdleVerb
    <3>3. CASE verb' = [Idle EXCEPT !.name = name, !.on = s, !.tries = 1,
                                    !.at = IF name = "page_new" THEN "new" ELSE "call"]
      <4>1. /\ IsVerb(verb') /\ verb'.bad = {} /\ verb'.fresh = NoTab /\ verb'.name = name
            /\ verb'.at \in {"new", "call"} /\ verb'.on = s
        BY <3>3 DEF IsVerb, Idle
      <4>2. name = "go" => verb'.on.tab = active'
        BY <4>1, <3>1, <2>4
      <4>3. QED  BY <4>1, <4>2
    <3>4. QED  BY <3>1, <3>2, <3>3
  <2>7. Counted' /\ ReviverCalm'
    BY <2>1, <2>5 DEF PagesKept, Counted, ReviverCalm
  <2>8. VerbSound' /\ FreshHeld' /\ BadKnown' /\ GoOnItsPage'
    BY <2>6 DEF VerbSound, FreshHeld, BadKnown, GoOnItsPage
  <2>9. QED  BY <2>7, <2>8 DEF PagesKept
<1>3. QED  BY <1>1, <1>2 DEF Request

\* goto, go_back and reload: the page they loaded had been answered.
LEMMA NavigatedKept ==
  ASSUME PagesKept, ~Hasty, Navigated
  PROVE  PagesKept'
<1>1. /\ UNCHANGED <<alive, tabs, crashed, active, reviver>> /\ loaded' = loaded \cup {verb.on.tab}
      /\ verb.on.tab \in Open /\ verb.on.tab # reviver.tab
      /\ verb.at = "call"
      /\ ToSettle(IF verb.name = "go" THEN Within(verb.on.tab) ELSE None)
  BY DEF Navigated, Loads, CallWorks, Works, Gone, Answered
<1>2. /\ IsVerb(verb') /\ verb'.name = verb.name /\ verb'.at = "settle"
      /\ verb'.moved = verb.moved /\ verb'.bad = verb.bad /\ verb'.fresh = verb.fresh
      /\ (verb.name = "go" => verb'.went = Within(verb.on.tab))
  BY <1>1 DEF ToSettle, IsVerb, PagesKept, VerbSound
<1>3. reviver.at = "none" /\ alive /\ verb.on.tab # NoTab
  BY <1>1, PagesWithoutReviver DEF NoTab
<1>4. Counted' /\ ReviverCalm' /\ Open' = Open
  BY <1>1, <1>3 DEF PagesKept, Counted, ReviverCalm, Open
<1>5. VerbSound' /\ FreshHeld' /\ BadKnown'
  BY <1>2, <1>4 DEF PagesKept, VerbSound, FreshHeld, BadKnown
<1>6. GoOnItsPage'
  BY <1>1, <1>2, <1>3, <1>4 DEF PagesKept, GoOnItsPage
<1>7. QED  BY <1>4, <1>5, <1>6 DEF PagesKept

\* page_close closes its page and is on its way to the first one.
LEMMA ClosedKept ==
  ASSUME PagesKept, ~Hasty, Closed
  PROVE  PagesKept'
<1>1. PICK t \in Open : /\ MayEnd(t) /\ Closes(t) /\ OnClose(t) /\ verb.name = "page_close"
                        /\ verb' = [VerbLost(t) EXCEPT !.at = "closed"]
  BY DEF Closed, At
<1>2. /\ IsVerb(verb') /\ verb'.name = "page_close" /\ verb'.at = "closed"
      /\ verb'.bad = Places(verb.bad, t) /\ verb'.fresh = Place(verb.fresh, t)
  BY <1>1 DEF VerbLost, IsVerb, PagesKept, VerbSound
<1>3. Counted' /\ ReviverCalm' /\ t # verb.fresh
  BY <1>1, CloseCounted
<1>4. verb'.bad \subseteq Open' /\ verb'.fresh \in Open' \cup {NoTab}
  BY <1>1, <1>2, <1>3, PlacesAfter DEF PagesKept, VerbSound
<1>5. QED
  BY <1>2, <1>3, <1>4 DEF PagesKept, VerbSound, FreshHeld, BadKnown, GoOnItsPage

\* new_page, for page_new or for the recovery, comes while no reviver is at work.
LEMMA OwnPageKept ==
  ASSUME PagesKept, NewOpens \/ HealOpens
  PROVE  PagesKept'
<1>1. /\ tabs' = tabs + 1 /\ active' = tabs + 1 /\ UNCHANGED <<alive, loaded, crashed, reviver>>
      /\ alive /\ reviver.at \in {"none", "queued"}
      /\ \/ verb.name = "page_new" /\ verb' = [verb EXCEPT !.at = "made", !.fresh = tabs + 1]
         \/ verb' = [verb EXCEPT !.at = "adopt", !.fresh = tabs + 1]
  BY DEF NewOpens, HealOpens, Opens, OnNewPage, FreshTab, At, refs
<1>2. reviver.at = "none" /\ tabs \in Nat
  BY <1>1 DEF PagesKept, ReviverCalm, Counted
<1>3. /\ IsVerb(verb') /\ verb'.name = verb.name /\ verb'.at \in {"made", "adopt"}
      /\ verb'.fresh = tabs + 1 /\ verb'.bad = verb.bad
  BY <1>1 DEF PagesKept, VerbSound, IsVerb
<1>4. Open \subseteq Open' /\ tabs + 1 \in Open' /\ tabs + 1 \notin Open
  BY <1>1, <1>2 DEF Open
<1>5. Counted'
  BY <1>1, <1>2, <1>4 DEF PagesKept, Counted
<1>6. ReviverCalm'
  BY <1>1, <1>2 DEF PagesKept, ReviverCalm
<1>7. VerbSound' /\ FreshHeld' /\ BadKnown'
  BY <1>1, <1>2, <1>3, <1>4 DEF PagesKept, VerbSound, FreshHeld, BadKnown
<1>8. GoOnItsPage'
  BY <1>3 DEF GoOnItsPage
<1>9. QED  BY <1>5, <1>6, <1>7, <1>8 DEF PagesKept

\* The first crash is remembered with the pages that had crashed.
LEMMA CrashSeenKept ==
  ASSUME PagesKept, CrashSeen
  PROVE  PagesKept'
<1>1. UNCHANGED <<alive, tabs, loaded, crashed, active, reviver>>
  BY DEF CrashSeen, browser
<1>2. CASE verb' = Idle
  BY <1>1, <1>2, AnswerKept DEF Answer
<1>3. CASE verb' # Idle
  <2>1. verb' = [verb EXCEPT !.bad = crashed, !.went = None, !.on = None, !.fresh = NoTab,
                             !.at = IF reviver.at = "none" THEN "heal" ELSE "await"]
    BY <1>3 DEF CrashSeen
  <2>2. /\ IsVerb(verb') /\ verb'.bad = crashed /\ verb'.fresh = NoTab
        /\ verb'.at = IF reviver.at = "none" THEN "heal" ELSE "await"
    BY <2>1 DEF PagesKept, VerbSound, IsVerb
  <2>3. reviver.at # "none" => crashed = {}
    BY DEF PagesKept, Counted, ReviverCalm, Open
  <2>4. QED
    BY <1>1, <2>2, <2>3, VerbGoesOn DEF PagesKept, Counted
<1>4. QED  BY <1>2, <1>3

\* A verb whose page is repaired runs again on the page that is driven, or answers.
LEMMA HealedVerb ==
  ASSUME IsVerb(verb), NEW t, NEW open, Heal(t, open)
  PROVE  \/ verb' = Idle /\ active' = t
         \/ /\ active' = Repaired(t, open)
            /\ IsVerb(verb') /\ verb'.at = "call" /\ verb'.on.tab = active' /\ verb'.tries = 2
            /\ verb'.fresh = NoTab /\ verb'.bad = verb.bad /\ verb'.name = verb.name
<1>1. CASE verb.name \in RetrySafe
  <2>1. /\ active' = Repaired(t, open)
        /\ verb' = [verb EXCEPT !.at = "call", !.on = Page(Repaired(t, open)), !.tries = 2,
                                !.fresh = NoTab]
    BY <1>1 DEF Heal
  <2>2. /\ IsVerb(verb') /\ verb'.at = "call" /\ verb'.on = Page(active') /\ verb'.tries = 2
        /\ verb'.fresh = NoTab /\ verb'.bad = verb.bad /\ verb'.name = verb.name
    BY <2>1 DEF IsVerb
  <2>3. QED  BY <2>1, <2>2 DEF Page
<1>2. CASE verb.name \notin RetrySafe
  BY <1>2 DEF Heal, Answer
<1>3. QED  BY <1>1, <1>2

LEMMA HealKept ==
  ASSUME PagesKept, NEW t \in Open \cup {NoTab},
         UNCHANGED <<alive, tabs, loaded, crashed, reviver>>,
         Heal(t, tabs), reviver.at = "opened" /\ alive => t = 1
  PROVE  PagesKept'
<1>1. t \in Nat /\ Repaired(t, tabs) \in Open \cup {NoTab} /\ (t # NoTab => Repaired(t, tabs) = t)
  BY DEF PagesKept, Counted, Repaired, Open, NoTab
<1>2. active' \in Open \cup {NoTab} /\ (reviver.at = "opened" /\ alive => active' = active)
  BY <1>1, HealedVerb DEF PagesKept, VerbSound, ReviverCalm, NoTab
<1>3. Counted' /\ ReviverCalm' /\ Open' = Open
  BY <1>2 DEF PagesKept, Counted, ReviverCalm, Open
<1>4. VerbSound' /\ FreshHeld' /\ BadKnown' /\ GoOnItsPage'
  <2>1. CASE verb' = Idle
    BY <1>3, <2>1, IdleVerb DEF VerbSound, FreshHeld, BadKnown, GoOnItsPage
  <2>2. CASE verb' # Idle
    BY <1>3, <2>2, HealedVerb DEF PagesKept, VerbSound, FreshHeld, BadKnown, GoOnItsPage
  <2>3. QED  BY <2>1, <2>2
<1>5. QED  BY <1>3, <1>4 DEF PagesKept

\* The session of a new browser has one page, and nothing is known of the old ones.
LEMMA RelaunchKept ==
  ASSUME PagesKept, Relaunch
  PROVE  PagesKept'
<1>1. /\ ~alive /\ alive' = TRUE /\ tabs' = 1 /\ UNCHANGED <<loaded, crashed>>
      /\ Heal(1, 1) /\ reviver' = NoReviver
  BY DEF Relaunch
<1>2. Open = {} /\ loaded = {} /\ crashed = {} /\ verb.bad = {}
  BY <1>1 DEF PagesKept, Counted, VerbSound, Open
<1>3. active' = 1 /\ Open' = {1}
  BY <1>1, HealedVerb DEF PagesKept, VerbSound, Repaired, NoTab, Open
<1>4. Counted' /\ ReviverCalm'
  BY <1>1, <1>2, <1>3 DEF Counted, ReviverCalm, NoReviver, NoTab
<1>5. VerbSound' /\ FreshHeld' /\ BadKnown' /\ GoOnItsPage'
  <2>1. CASE verb' = Idle
    BY <2>1, IdleVerb DEF VerbSound, FreshHeld, BadKnown, GoOnItsPage
  <2>2. CASE verb' # Idle
    BY <1>1, <1>2, <2>2, HealedVerb DEF PagesKept, VerbSound, FreshHeld, BadKnown, GoOnItsPage
  <2>3. QED  BY <2>1, <2>2
<1>6. QED  BY <1>4, <1>5 DEF PagesKept

LEMMA StepKept ==
  ASSUME PagesKept, ~Hasty, Step
  PROVE  PagesKept'
<1>1. CASE Navigated
  BY <1>1, NavigatedKept
<1>2. CASE BackNowhere
  <2>1. /\ UNCHANGED <<alive, tabs, loaded, crashed, active, reviver>>
        /\ verb.name = "back" /\ ToSettle(None)
    BY <1>2 DEF BackNowhere, At, browser
  <2>2. /\ IsVerb(verb') /\ verb'.name = "back" /\ verb'.at = "settle" /\ verb'.bad = verb.bad
        /\ verb'.fresh = verb.fresh
    BY <2>1 DEF ToSettle, PagesKept, VerbSound, IsVerb
  <2>3. QED  BY <2>1, <2>2, VerbGoesOn DEF PagesKept, VerbSound
<1>3. CASE Settled
  <2>1. UNCHANGED <<alive, tabs, loaded, crashed, active, reviver>> /\ verb.at = "settle"
    BY <1>3 DEF Settled, browser
  <2>2. CASE verb.name = "go"
    <3>1. verb' = [verb EXCEPT !.at = "title", !.on = Page(active)]
      BY <1>3, <2>2 DEF Settled
    <3>2. /\ IsVerb(verb') /\ verb'.name = "go" /\ verb'.at = "title" /\ verb'.bad = verb.bad
          /\ verb'.fresh = verb.fresh /\ verb'.went = verb.went /\ verb'.moved = verb.moved
      BY <2>2, <3>1 DEF PagesKept, VerbSound, IsVerb
    <3>3. QED  BY <2>1, <2>2, <3>2, VerbGoesOn DEF PagesKept, VerbSound, GoOnItsPage
  <2>3. CASE verb.name # "go"
    BY <1>3, <2>1, <2>3, AnswerKept DEF Settled, Answer
  <2>4. QED  BY <2>2, <2>3
<1>4. CASE Titled \/ Done \/ ClickedRef \/ Mapped \/ Evaluated \/ Fails \/ RelaunchFails
  BY <1>4, AnswerKept DEF Titled, Done, ClickedRef, Mapped, Evaluated, Fails, RelaunchFails, browser
<1>5. CASE Closed
  BY <1>5, ClosedKept
<1>6. CASE CloseAnswers
  <2>1. /\ UNCHANGED <<alive, tabs, loaded, crashed, reviver>> /\ Answer
        /\ active' = IF tabs # 0 THEN 1 ELSE active
    BY <1>6 DEF CloseAnswers, browser
  <2>2. active' \in Open \cup {NoTab} /\ (reviver.at = "opened" /\ alive => active' = active)
    BY <2>1 DEF PagesKept, Counted, ReviverCalm, Open
  <2>3. QED  BY <2>1, <2>2, AnswerOnAPage
<1>7. CASE NewOpens \/ HealOpens
  BY <1>7, OwnPageKept
<1>8. CASE NewAnswers
  <2>1. /\ UNCHANGED <<alive, tabs, loaded, crashed, reviver>> /\ Answer
        /\ active' = verb.fresh /\ verb.at = "made"
    BY <1>8 DEF NewAnswers, browser
  <2>2. active' \in Open \cup {NoTab} /\ (reviver.at = "opened" => ~alive)
    BY <2>1 DEF PagesKept, VerbSound, FreshHeld
  <2>3. QED  BY <2>1, <2>2, AnswerOnAPage
<1>9. CASE CrashSeen
  BY <1>9, CrashSeenKept
<1>10. CASE Woken
  <2>1. UNCHANGED <<alive, tabs, loaded, crashed, reviver>> /\ verb.at = "woken"
    BY <1>10 DEF Woken, browser
  <2>2. CASE tabs # 0
    <3>1. Heal(tabs, tabs) /\ tabs \in Open \cup {NoTab}
          /\ (reviver.at = "opened" /\ alive => tabs = 1)
      BY <1>10, <2>2 DEF Woken, PagesKept, Counted, ReviverCalm, Open
    <3>2. QED  BY <2>1, <3>1, HealKept
  <2>3. CASE tabs = 0
    <3>1. verb' = [verb EXCEPT !.at = "heal"] /\ UNCHANGED active
      BY <1>10, <2>3 DEF Woken
    <3>2. /\ IsVerb(verb') /\ verb'.at = "heal" /\ verb'.bad = verb.bad
          /\ verb'.fresh = verb.fresh
      BY <3>1 DEF PagesKept, VerbSound, IsVerb
    <3>3. QED  BY <2>1, <3>1, <3>2, VerbGoesOn DEF PagesKept, VerbSound
  <2>4. QED  BY <2>2, <2>3
<1>11. CASE HealAdopts
  <2>1. /\ UNCHANGED <<alive, tabs, loaded, crashed, reviver>> /\ verb.at = "adopt"
        /\ Heal(verb.fresh, tabs)
    BY <1>11 DEF HealAdopts, browser
  <2>2. verb.fresh \in Open \cup {NoTab} /\ (reviver.at = "opened" => ~alive)
    BY <2>1 DEF PagesKept, VerbSound, FreshHeld
  <2>3. QED  BY <2>1, <2>2, HealKept
<1>12. CASE Relaunch
  BY <1>12, RelaunchKept
<1>13. QED
  BY <1>1, <1>2, <1>3, <1>4, <1>5, <1>6, <1>7, <1>8, <1>9, <1>10, <1>11, <1>12 DEF Step

\* Every step keeps where the pages, the reviver and the verb stand.
LEMMA NextKept == ~Hasty /\ PagesKept /\ [Next]_vars => PagesKept'
<1> SUFFICES ASSUME ~Hasty, PagesKept, [Next]_vars  PROVE PagesKept'
  OBVIOUS
<1>1. CASE PageEvent
  BY <1>1, PopupKept, DiesKept, ClosesKept, NavigatesKept, CrashesKept DEF PageEvent
<1>2. CASE UNCHANGED vars
  BY <1>2 DEF vars, browser, refs, PagesKept, Counted, VerbSound, ReviverCalm, FreshHeld, BadKnown,
              GoOnItsPage, Open
<1>3. QED  BY <1>1, <1>2, RequestKept, RevivalKept, StepKept DEF Next

\* A `go` that is answered with ok drives the document it tells of, unless pages
\* moved by themselves meanwhile: no page of a recovery or of the reviver has
\* taken its place.  For any number of pages, handles and verbs, whatever
\* crashes or closes once new_page has answered.
THEOREM GoesAreTold == ASSUME ~Hasty  PROVE Spec => GoTellsWhereItWent
<1>1. PagesKept => [Titled /\ ~verb.moved => verb.went = Within(active)]_vars
  BY DEF PagesKept, GoOnItsPage, Titled
<1>2. PagesKept /\ [Next]_vars => PagesKept'
  BY NextKept
<1>3. QED  BY <1>1, <1>2, InitKept, PTL DEF Spec, GoTellsWhereItWent

\* Only the recovery runs a verb a second time.
LEMMA RunsAgain ==
  ASSUME PagesKept, Next, verb.tries = 1, verb'.tries = 2
  PROVE  \/ verb.at = "woken" /\ tabs # 0 /\ Heal(tabs, tabs)
         \/ verb.at = "adopt" /\ Heal(verb.fresh, tabs)
         \/ ~alive
<1>1. IsVerb(verb) /\ verb # Idle /\ verb' # verb /\ verb' # Idle
  BY IdleVerb DEF PagesKept, VerbSound
<1>2. CASE Request
  BY <1>1, <1>2 DEF Request, Frame, Begin
<1>3. CASE Revival
  BY <1>1, <1>3 DEF Revival, ReviverOpens, ReviverEnds, IsVerb
<1>4. CASE PageEvent
  <2>1. CASE Popup
    BY <1>1, <2>1 DEF Popup, Moved, IsVerb
  <2>2. CASE BrowserDies
    BY <1>1, <2>2 DEF BrowserDies, Moved, IsVerb
  <2>3. ASSUME NEW t \in Tab, PageCloses(t)  PROVE FALSE
    BY <1>1, <2>3 DEF PageCloses, Moved, VerbLost, IsVerb
  <2>4. ASSUME NEW t \in Tab, PageNavigates(t)  PROVE FALSE
    BY <1>1, <2>4 DEF PageNavigates, Moved, VerbOlder, IsVerb
  <2>5. ASSUME NEW t \in Tab, RendererCrashes(t)  PROVE FALSE
    BY <1>1, <2>5 DEF RendererCrashes, Moved, IsVerb
  <2>6. QED  BY <1>4, <2>1, <2>2, <2>3, <2>4, <2>5 DEF PageEvent
<1>5. CASE Step
  <2>1. CASE Navigated \/ BackNowhere
    <3>1. PICK w : ToSettle(w)
      BY <2>1 DEF Navigated, BackNowhere
    <3>2. QED  BY <1>1, <3>1 DEF ToSettle, IsVerb
  <2>2. CASE Settled
    BY <1>1, <2>2 DEF Settled, IsVerb
  <2>3. CASE Titled \/ Done \/ ClickedRef \/ Mapped \/ Evaluated \/ Fails \/ RelaunchFails
             \/ CloseAnswers \/ NewAnswers
    BY <1>1, <2>3 DEF Titled, Done, ClickedRef, Mapped, Evaluated, Fails, RelaunchFails,
                      CloseAnswers, NewAnswers, Answer
  <2>4. CASE Closed
    BY <1>1, <2>4 DEF Closed, VerbLost, IsVerb
  <2>5. CASE NewOpens \/ HealOpens
    <3>1. PICK a, f : verb' = [verb EXCEPT !.at = a, !.fresh = f]
      BY <2>5 DEF NewOpens, HealOpens
    <3>2. QED  BY <1>1, <3>1 DEF IsVerb
  <2>6. CASE CrashSeen
    BY <1>1, <2>6 DEF CrashSeen, IsVerb
  <2>7. CASE Woken
    BY <1>1, <2>7 DEF Woken, IsVerb
  <2>8. CASE HealAdopts
    BY <2>8 DEF HealAdopts
  <2>9. CASE Relaunch
    BY <2>9 DEF Relaunch
  <2>10. QED
    BY <1>5, <2>1, <2>2, <2>3, <2>4, <2>5, <2>6, <2>7, <2>8, <2>9 DEF Step
<1>6. QED  BY <1>2, <1>3, <1>4, <1>5 DEF Next

\* A verb that is run again after a crash drives none of the pages that had
\* crashed by then, whoever opened the page it gets: the reviver, the recovery
\* or a new browser.
THEOREM RetriesAreFresh == ASSUME ~Hasty  PROVE Spec => RetryOnAFreshPage
<1>1. ASSUME PagesKept, Next, verb.tries = 1, verb'.tries = 2
      PROVE  verb'.on.tab \notin verb.bad
  <2>1. CASE verb.at = "woken"
    BY <1>1, <2>1 DEF PagesKept, BadKnown
  <2>2. CASE ~alive
    BY <1>1, <2>2 DEF PagesKept, Counted, VerbSound, Open
  <2>3. CASE alive /\ verb.at = "adopt" /\ Heal(verb.fresh, tabs)
    <3>1. verb.fresh # NoTab /\ verb.fresh \notin verb.bad
      BY <1>1, <2>3 DEF PagesKept, FreshHeld, BadKnown, Counted, Open, NoTab
    <3>2. verb'.on.tab = verb.fresh
      BY <1>1, <2>3, <3>1, HealedVerb, IdleVerb DEF PagesKept, VerbSound, Repaired
    <3>3. QED  BY <3>1, <3>2
  <2>4. QED  BY <1>1, <2>1, <2>2, <2>3, RunsAgain
<1>2. PagesKept =>
        [Next => (verb.tries = 1 /\ verb'.tries = 2 => verb'.on.tab \notin verb.bad)]_vars
  BY <1>1
<1>3. PagesKept /\ [Next]_vars => PagesKept'
  BY NextKept
<1>4. QED  BY <1>2, <1>3, InitKept, PTL DEF Spec, RetryOnAFreshPage

-----------------------------------------------------------------------------
(* No verb waits for a reviver that has ended, whatever pages do (either Hasty). *)

\* The verb, the reviver and what is awaited are records of the kind that is meant.
ReviverAwaited == IsVerb(verb) /\ reviver = [at |-> reviver.at, tab |-> reviver.tab] /\ AwaitsAtWork

LEMMA StillAwaited ==
  ASSUME ReviverAwaited, IsVerb(verb'), UNCHANGED reviver, verb'.at \in {verb.at} \/ verb'.at # "await"
  PROVE  ReviverAwaited'
BY DEF ReviverAwaited, AwaitsAtWork

\* Asking again leaves the reviver at work.
LEMMA AskedIsAtWork ==
  ASSUME reviver = [at |-> reviver.at, tab |-> reviver.tab], ScheduleRevive
  PROVE  reviver' = [at |-> reviver'.at, tab |-> reviver'.tab] /\ reviver'.at # "none"
BY DEF ScheduleRevive

LEMMA CloseAwaited ==
  ASSUME ReviverAwaited, NEW t, OnClose(t), IsVerb(verb'),
         verb'.at = verb.at \/ verb'.at # "await"
  PROVE  ReviverAwaited'
<1>1. CASE tabs > 1
  <2>1. reviver' = [reviver EXCEPT !.tab = Place(reviver.tab, t)]
    BY <1>1 DEF OnClose
  <2>2. reviver' = [at |-> reviver'.at, tab |-> reviver'.tab] /\ reviver'.at = reviver.at
    BY <2>1 DEF ReviverAwaited
  <2>3. QED  BY <2>2 DEF ReviverAwaited, AwaitsAtWork
<1>2. CASE ~(tabs > 1)
  BY <1>2, AskedIsAtWork DEF OnClose, ReviverAwaited, AwaitsAtWork
<1>3. QED  BY <1>1, <1>2

LEMMA EventAwaited ==
  ASSUME ReviverAwaited, PageEvent
  PROVE  ReviverAwaited'
<1>1. IsVerb(verb)
  BY DEF ReviverAwaited
<1>2. CASE Popup
  <2>1. IsVerb(verb') /\ verb'.at = verb.at /\ UNCHANGED reviver
    BY <1>1, <1>2 DEF Popup, Moved, IsVerb
  <2>2. QED  BY <2>1, StillAwaited
<1>3. CASE BrowserDies
  <2>1. IsVerb(verb') /\ verb'.at = verb.at
    BY <1>1, <1>3 DEF BrowserDies, Moved, IsVerb
  <2>2. CASE tabs = 0
    BY <1>3, <2>1, <2>2, StillAwaited DEF BrowserDies
  <2>3. CASE tabs # 0
    BY <1>3, <2>1, <2>3, AskedIsAtWork DEF BrowserDies, ReviverAwaited, AwaitsAtWork
  <2>4. QED  BY <2>2, <2>3
<1>4. ASSUME NEW t \in Tab, PageCloses(t)  PROVE ReviverAwaited'
  <2>1. IsVerb(verb') /\ verb'.at = verb.at /\ OnClose(t)
    BY <1>1, <1>4 DEF PageCloses, Moved, VerbLost, IsVerb
  <2>2. QED  BY <2>1, CloseAwaited
<1>5. ASSUME NEW t \in Tab, PageNavigates(t)  PROVE ReviverAwaited'
  <2>1. IsVerb(verb') /\ verb'.at = verb.at /\ UNCHANGED reviver
    BY <1>1, <1>5 DEF PageNavigates, Moved, VerbOlder, IsVerb
  <2>2. QED  BY <2>1, StillAwaited
<1>6. ASSUME NEW t \in Tab, RendererCrashes(t)  PROVE ReviverAwaited'
  <2>1. IsVerb(verb') /\ verb'.at = verb.at /\ UNCHANGED reviver
    BY <1>1, <1>6 DEF RendererCrashes, Moved, IsVerb
  <2>2. QED  BY <2>1, StillAwaited
<1>7. QED  BY <1>2, <1>3, <1>4, <1>5, <1>6 DEF PageEvent

\* The end of the reviver wakes the verb; until then it is at work.
LEMMA RevivalAwaited ==
  ASSUME ReviverAwaited, Revival
  PROVE  ReviverAwaited'
<1>1. IsVerb(verb)
  BY DEF ReviverAwaited
<1>2. CASE ReviverOpens
  BY <1>1, <1>2 DEF ReviverOpens, ReviverAwaited, AwaitsAtWork
<1>3. CASE ReviverEnds
  <2>1. reviver' = NoReviver /\ IsVerb(verb') /\ verb'.at # "await"
    BY <1>1, <1>3 DEF ReviverEnds, IsVerb
  <2>2. QED  BY <2>1 DEF NoReviver, ReviverAwaited, AwaitsAtWork
<1>4. QED  BY <1>2, <1>3 DEF Revival

\* What heals a verb does not make it wait.
LEMMA HealAwaits ==
  ASSUME IsVerb(verb), NEW t, NEW open, Heal(t, open)
  PROVE  IsVerb(verb') /\ verb'.at # "await"
BY HealedVerb, IdleVerb

LEMMA StepAwaited ==
  ASSUME ReviverAwaited, Step
  PROVE  ReviverAwaited'
<1>1. IsVerb(verb)
  BY DEF ReviverAwaited
<1>2. CASE Navigated \/ BackNowhere
  <2>1. UNCHANGED reviver /\ \E w : ToSettle(w)
    BY <1>2 DEF Navigated, BackNowhere
  <2>2. IsVerb(verb') /\ verb'.at = "settle"
    BY <1>1, <2>1 DEF ToSettle, IsVerb
  <2>3. QED  BY <2>1, <2>2, StillAwaited
<1>3. CASE Settled
  <2>1. UNCHANGED reviver /\ IsVerb(verb') /\ verb'.at \in {"title", "idle"}
    BY <1>1, <1>3, IdleVerb DEF Settled, IsVerb
  <2>2. QED  BY <2>1, StillAwaited
<1>4. CASE Titled \/ Done \/ ClickedRef \/ Mapped \/ Evaluated \/ Fails \/ RelaunchFails
           \/ CloseAnswers \/ NewAnswers
  <2>1. UNCHANGED reviver /\ verb' = Idle
    BY <1>4 DEF Titled, Done, ClickedRef, Mapped, Evaluated, Fails, RelaunchFails, CloseAnswers,
                NewAnswers, Answer
  <2>2. QED  BY <2>1, IdleVerb, StillAwaited
<1>5. CASE Closed
  <2>1. PICK t \in Open : OnClose(t) /\ verb' = [VerbLost(t) EXCEPT !.at = "closed"]
    BY <1>5 DEF Closed
  <2>2. IsVerb(verb') /\ verb'.at = "closed"
    BY <1>1, <2>1 DEF VerbLost, IsVerb
  <2>3. QED  BY <2>1, <2>2, CloseAwaited
<1>6. CASE NewOpens \/ HealOpens
  <2>1. UNCHANGED reviver /\ IsVerb(verb') /\ verb'.at \in {"made", "adopt"}
    BY <1>1, <1>6 DEF NewOpens, HealOpens, IsVerb
  <2>2. QED  BY <2>1, StillAwaited
<1>7. CASE CrashSeen
  <2>1. UNCHANGED reviver /\ IsVerb(verb') /\ (verb'.at = "await" => reviver.at # "none")
    BY <1>1, <1>7, IdleVerb DEF CrashSeen, IsVerb
  <2>2. QED  BY <2>1 DEF ReviverAwaited, AwaitsAtWork
<1>8. CASE Woken
  <2>1. UNCHANGED reviver
    BY <1>8 DEF Woken
  <2>2. IsVerb(verb') /\ verb'.at # "await"
    <3>1. CASE tabs # 0
      BY <1>1, <1>8, <3>1, HealAwaits DEF Woken
    <3>2. CASE tabs = 0
      BY <1>1, <1>8, <3>2 DEF Woken, IsVerb
    <3>3. QED  BY <3>1, <3>2
  <2>3. QED  BY <2>1, <2>2, StillAwaited
<1>9. CASE HealAdopts
  BY <1>1, <1>9, HealAwaits, StillAwaited DEF HealAdopts
<1>10. CASE Relaunch
  <2>1. reviver' = NoReviver /\ IsVerb(verb') /\ verb'.at # "await"
    BY <1>1, <1>10, HealAwaits DEF Relaunch
  <2>2. QED  BY <2>1 DEF NoReviver, ReviverAwaited, AwaitsAtWork
<1>11. QED
  BY <1>2, <1>3, <1>4, <1>5, <1>6, <1>7, <1>8, <1>9, <1>10 DEF Step

LEMMA RequestAwaited ==
  ASSUME ReviverAwaited, Request
  PROVE  ReviverAwaited'
<1>1. CASE Frame
  BY <1>1, StillAwaited DEF Frame, ReviverAwaited
<1>2. ASSUME NEW name \in Verbs, Begin(name)  PROVE ReviverAwaited'
  <2>1. UNCHANGED reviver /\ IsVerb(verb') /\ verb'.at # "await"
    BY <1>2, IdleVerb DEF Begin, Idle, IsVerb
  <2>2. QED  BY <2>1, StillAwaited
<1>3. QED  BY <1>1, <1>2 DEF Request

\* The reviver that a crashed verb awaits with entry.lock held is at work, whatever
\* pages close, crash or load meanwhile: an ended task leaves no verb behind.  The
\* safety core of EveryVerbAnswers, for any pages, handles and verbs, either Hasty.
THEOREM AwaitedIsAtWork == Spec => []AwaitsAtWork
<1>1. Init => ReviverAwaited
  BY IdleVerb DEF Init, ReviverAwaited, AwaitsAtWork, NoReviver
<1>2. ReviverAwaited /\ [Next]_vars => ReviverAwaited'
  <2>1. ReviverAwaited /\ Next => ReviverAwaited'
    BY EventAwaited, RevivalAwaited, StepAwaited, RequestAwaited DEF Next
  <2>2. ReviverAwaited /\ UNCHANGED vars => ReviverAwaited'
    BY DEF vars, ReviverAwaited, AwaitsAtWork, IsVerb
  <2>3. QED  BY <2>1, <2>2
<1>3. ReviverAwaited => AwaitsAtWork
  BY DEF ReviverAwaited
<1>4. QED  BY <1>1, <1>2, <1>3, PTL DEF Spec

-----------------------------------------------------------------------------
(* The types, and that no page is opened beyond MaxTab: a verb or its recovery *)
(* adds one page at most to those that clients and pages may open.             *)

Ref == [tab : Open \cup {NoTab}, doc : {"any", "now", "old"}]

RefsTyped ==
  /\ mapped \subseteq Open
  /\ frame \in Ref \cup {None} /\ snapshot \in Ref \cup {None} /\ handles \subseteq Ref
  /\ verb.on \in Ref \cup {None} /\ verb.went \in Ref \cup {None}

VerbNamed ==
  verb = Idle \/ (verb.name \in Verbs /\ verb.tries \in 1..2 /\ verb.at # "idle")

\* Who may still ask for a page asks while there are no more than MaxTabs.
FewPages ==
  /\ tabs <= MaxTabs + 1
  /\ tabs > MaxTabs =>
       /\ verb.at \notin {"new", "heal"}
       /\ verb.at \in {"call", "settle", "title"} => verb.tries = 2

PagesTyped == PagesKept /\ RefsTyped /\ VerbNamed /\ FewPages

LEMMA TypesFollow ==
  ASSUME PagesTyped, MaxTabs < MaxTab
  PROVE  TypeOK
<1>1. MaxTabs \in Nat \ {0} /\ MaxTab \in Nat \ {0} /\ tabs \in Nat
  BY BoundsNatural DEF PagesTyped, PagesKept, Counted
<1>2. tabs \in 0..MaxTab /\ Open \subseteq Tab
  BY <1>1 DEF PagesTyped, FewPages, Open, Tab
<1>3. Ref \subseteq Surface /\ \A s \in Ref \cup {None} : s.tab \in Open \cup {NoTab}
  BY <1>2 DEF Ref, Surface, None
<1>4. reviver.tab \in Open \cup {NoTab}
  BY DEF PagesTyped, PagesKept, ReviverCalm, Open
<1>5. reviver \in [at : {"none", "asked", "queued", "opened"}, tab : Open \cup {NoTab}]
  BY <1>4 DEF PagesTyped, PagesKept, ReviverCalm
<1>6. verb = Idle \/ (verb.name \in Verbs /\ verb.tries \in 1..2 /\ verb.bad \subseteq Open)
  BY DEF PagesTyped, VerbNamed, PagesKept, VerbSound
<1>7. \A s \in {frame, snapshot, verb.on, verb.went} \cup handles : s.tab \in Open \cup {NoTab}
  BY <1>3 DEF PagesTyped, RefsTyped
<1>8. {frame, snapshot} \subseteq Surface \cup {None} /\ handles \subseteq Surface
  BY <1>3 DEF PagesTyped, RefsTyped
<1>9. /\ alive \in BOOLEAN /\ loaded \subseteq Open /\ crashed \subseteq Open
      /\ mapped \subseteq Open /\ active \in Open \cup {NoTab}
  BY DEF PagesTyped, PagesKept, Counted, RefsTyped
<1>10. QED  BY <1>2, <1>5, <1>6, <1>7, <1>8, <1>9, Zenon DEF TypeOK

LEMMA InitTyped == Init => PagesTyped
<1> SUFFICES ASSUME Init  PROVE PagesTyped
  OBVIOUS
<1>1. RefsTyped
  BY DEF Init, RefsTyped, Idle
<1>2. VerbNamed
  BY DEF Init, VerbNamed
<1>3. FewPages
  BY BoundsNatural DEF Init, FewPages
<1>4. QED  BY <1>1, <1>2, <1>3, InitKept DEF PagesTyped

(* What a reference becomes.                                                 *)

LEMMA OlderTyped ==
  ASSUME NEW t, NEW s
  PROVE  /\ s \in Ref => Older(s, t) \in Ref
         /\ s \in Ref \cup {None} => Older(s, t) \in Ref \cup {None}
BY DEF Older, Ref, Within, None

LEMMA LostTyped ==
  ASSUME PagesKept, NEW t \in Open, Closes(t), NEW s
  PROVE  /\ s \in Ref => Lost(s, t) \in Ref'
         /\ s \in Ref \cup {None} => Lost(s, t) \in Ref' \cup {None}
<1>1. \A u \in Open \cup {NoTab} : Place(u, t) \in Open' \cup {NoTab}
  BY PlacesAfter
<1>2. Place(NoTab, t) = NoTab
  BY PlacesAfter
<1>3. s \in Ref => Lost(s, t) \in Ref'
  BY <1>1 DEF Lost, Ref
<1>4. Lost(None, t) = None
  BY <1>2 DEF Lost, None
<1>5. QED  BY <1>3, <1>4

\* More pages: what referred to one still does.
LEMMA RefGrows ==
  ASSUME Open \subseteq Open'
  PROVE  Ref \subseteq Ref'
BY DEF Ref

LEMMA PageTyped == \A t \in Open \cup {NoTab} : Page(t) \in Ref /\ Within(t) \in Ref
BY DEF Page, Within, Ref

(* A verb, at any of its stages.                                             *)

Names(v) == v.name \in Verbs /\ v.tries \in 1..2 /\ v.at # "idle"
Refers(v) == v.on \in Ref' \cup {None} /\ v.went \in Ref' \cup {None}

\* The verb goes on: it keeps its name, and runs for the first or second time.
GoesOn == verb' = Idle \/ (Names(verb') /\ Refers(verb'))

LEMMA GoingOn ==
  ASSUME GoesOn
  PROVE  VerbNamed' /\ verb'.on \in Ref' \cup {None} /\ verb'.went \in Ref' \cup {None}
BY DEF GoesOn, VerbNamed, Names, Refers, Idle

LEMMA NotIdle ==
  ASSUME VerbNamed, verb.at # "idle"
  PROVE  Names(verb)
BY DEF VerbNamed, Names, Idle

\* What the recovery leaves of the verb.
LEMMA HealGoesOn ==
  ASSUME PagesKept, VerbNamed, RefsTyped, verb.at # "idle", Open \subseteq Open',
         NEW t, NEW open, Heal(t, open), Repaired(t, open) \in Open' \cup {NoTab}
  PROVE  GoesOn
<1>1. CASE verb.name \in RetrySafe
  <2>1. verb' = [verb EXCEPT !.at = "call", !.on = Page(Repaired(t, open)), !.tries = 2,
                             !.fresh = NoTab]
    BY <1>1 DEF Heal
  <2>2. /\ verb'.name = verb.name /\ verb'.at = "call" /\ verb'.tries = 2
        /\ verb'.on = Page(Repaired(t, open)) /\ verb'.went = verb.went
    BY <2>1 DEF PagesKept, VerbSound, IsVerb
  <2>3. Page(Repaired(t, open)) \in Ref'
    BY DEF Page, Ref
  <2>4. QED  BY <2>2, <2>3, NotIdle, RefGrows DEF GoesOn, Names, Refers, RefsTyped
<1>2. CASE verb.name \notin RetrySafe
  BY <1>2 DEF Heal, Answer, GoesOn
<1>3. QED  BY <1>1, <1>2

LEMMA StepGoesOn ==
  ASSUME PagesKept, RefsTyped, VerbNamed, Step
  PROVE  GoesOn
<1>k. IsVerb(verb) /\ tabs \in Nat /\ active \in Open \cup {NoTab}
  BY DEF PagesKept, VerbSound, Counted
<1>1. CASE Navigated \/ BackNowhere
  <2>1. PICK w : /\ ToSettle(w) /\ verb.at = "call" /\ UNCHANGED tabs
                 /\ (w = None \/ (w = Within(verb.on.tab) /\ verb.on.tab \in Open))
    BY <1>1 DEF Navigated, BackNowhere, CallWorks, Works, Gone, Loads, At, browser
  <2>2. /\ verb'.name = verb.name /\ verb'.tries = verb.tries /\ verb'.at = "settle"
        /\ verb'.on = Page(active) /\ verb'.went = w
    BY <1>k, <2>1 DEF ToSettle, IsVerb
  <2>3. Ref' = Ref
    BY <2>1 DEF Ref, Open
  <2>4. QED  BY <1>k, <2>1, <2>2, <2>3, NotIdle, PageTyped DEF GoesOn, Names, Refers
<1>2. CASE Settled
  <2>1. CASE verb.name = "go"
    <3>1. verb' = [verb EXCEPT !.at = "title", !.on = Page(active)] /\ UNCHANGED tabs
          /\ verb.at = "settle"
      BY <1>2, <2>1 DEF Settled, browser
    <3>2. /\ verb'.name = verb.name /\ verb'.tries = verb.tries /\ verb'.at = "title"
          /\ verb'.on = Page(active) /\ verb'.went = verb.went
      BY <1>k, <3>1 DEF IsVerb
    <3>3. Ref' = Ref
      BY <3>1 DEF Ref, Open
    <3>4. QED
      BY <1>k, <3>1, <3>2, <3>3, NotIdle, PageTyped DEF GoesOn, Names, Refers, RefsTyped
  <2>2. CASE verb.name # "go"
    BY <1>2, <2>2 DEF Settled, GoesOn
  <2>3. QED  BY <2>1, <2>2
<1>3. CASE Titled \/ Done \/ ClickedRef \/ Mapped \/ Evaluated \/ Fails \/ RelaunchFails
           \/ CloseAnswers \/ NewAnswers
  BY <1>3 DEF Titled, Done, ClickedRef, Mapped, Evaluated, Fails, RelaunchFails, CloseAnswers,
              NewAnswers, Answer, GoesOn
<1>4. CASE Closed
  <2>1. PICK t \in Open : Closes(t) /\ verb' = [VerbLost(t) EXCEPT !.at = "closed"]
                          /\ verb.at = "call"
    BY <1>4 DEF Closed, At
  <2>2. /\ verb'.name = verb.name /\ verb'.tries = verb.tries /\ verb'.at = "closed"
        /\ verb'.on = Lost(verb.on, t) /\ verb'.went = Lost(verb.went, t)
    BY <1>k, <2>1 DEF VerbLost, IsVerb
  <2>3. QED  BY <2>1, <2>2, NotIdle, LostTyped DEF GoesOn, Names, Refers, RefsTyped
<1>5. CASE NewOpens \/ HealOpens
  <2>1. PICK a \in {"made", "adopt"} : verb' = [verb EXCEPT !.at = a, !.fresh = FreshTab]
    BY <1>5 DEF NewOpens, HealOpens
  <2>2. tabs' = tabs + 1 /\ verb.at # "idle"
    BY <1>5 DEF NewOpens, HealOpens, Opens, FreshTab, At
  <2>3. /\ verb'.name = verb.name /\ verb'.tries = verb.tries /\ verb'.at = a
        /\ verb'.on = verb.on /\ verb'.went = verb.went
    BY <1>k, <2>1 DEF IsVerb
  <2>4. Open \subseteq Open'
    BY <1>k, <2>2 DEF Open
  <2>5. QED  BY <2>1, <2>2, <2>3, <2>4, NotIdle, RefGrows DEF GoesOn, Names, Refers, RefsTyped
<1>6. CASE CrashSeen
  <2>1. CASE verb' = Idle
    BY <2>1 DEF GoesOn
  <2>2. CASE verb' # Idle
    <3>1. /\ verb' = [verb EXCEPT !.bad = crashed, !.went = None, !.on = None, !.fresh = NoTab,
                                  !.at = IF reviver.at = "none" THEN "heal" ELSE "await"]
          /\ verb.at # "idle"
      BY <1>6, <2>2 DEF CrashSeen
    <3>2. /\ verb'.name = verb.name /\ verb'.tries = verb.tries
          /\ verb'.at = IF reviver.at = "none" THEN "heal" ELSE "await"
          /\ verb'.on = None /\ verb'.went = None
      BY <1>k, <3>1 DEF IsVerb
    <3>3. QED  BY <3>1, <3>2, NotIdle DEF GoesOn, Names, Refers
  <2>3. QED  BY <2>1, <2>2
<1>7. CASE Woken
  <2>1. verb.at = "woken" /\ UNCHANGED tabs /\ Open' = Open
    BY <1>7 DEF Woken, browser, Open
  <2>2. CASE tabs # 0
    <3>1. Heal(tabs, tabs) /\ Repaired(tabs, tabs) \in Open
      BY <1>k, <1>7, <2>2 DEF Woken, Repaired, Open
    <3>2. QED  BY <2>1, <3>1, HealGoesOn
  <2>3. CASE tabs = 0
    <3>1. verb' = [verb EXCEPT !.at = "heal"]
      BY <1>7, <2>3 DEF Woken
    <3>2. /\ verb'.name = verb.name /\ verb'.tries = verb.tries /\ verb'.at = "heal"
          /\ verb'.on = verb.on /\ verb'.went = verb.went
      BY <1>k, <3>1 DEF IsVerb
    <3>3. Ref' = Ref
      BY <2>1 DEF Ref
    <3>4. QED  BY <2>1, <3>2, <3>3, NotIdle DEF GoesOn, Names, Refers, RefsTyped
  <2>4. QED  BY <2>2, <2>3
<1>8. CASE HealAdopts
  <2>1. verb.at = "adopt" /\ Open' = Open /\ Heal(verb.fresh, tabs)
    BY <1>8 DEF HealAdopts, browser, Open
  <2>2. Repaired(verb.fresh, tabs) \in Open \cup {NoTab}
    BY <1>k DEF PagesKept, VerbSound, Repaired, Open, NoTab
  <2>3. QED  BY <2>1, <2>2, HealGoesOn
<1>9. CASE Relaunch
  <2>1. verb.at # "idle" /\ ~alive /\ tabs' = 1 /\ Heal(1, 1)
    BY <1>9 DEF Relaunch
  <2>2. Open = {} /\ Open' = {1}
    BY <2>1 DEF PagesKept, Counted, Open
  <2>3. Repaired(1, 1) \in Open'
    BY <2>2 DEF Repaired
  <2>4. QED  BY <2>1, <2>2, <2>3, HealGoesOn
<1>10. QED
  BY <1>1, <1>2, <1>3, <1>4, <1>5, <1>6, <1>7, <1>8, <1>9 DEF Step

\* How many pages there are, and who may still ask for one.
LEMMA StepFew ==
  ASSUME PagesKept, FewPages, Step
  PROVE  FewPages'
<1>k. IsVerb(verb) /\ tabs \in Nat /\ MaxTabs \in Nat \ {0} /\ (~alive => tabs = 0)
  BY BoundsNatural DEF PagesKept, VerbSound, Counted
<1>1. CASE Navigated \/ BackNowhere
  <2>1. PICK w : ToSettle(w) /\ verb.at = "call" /\ UNCHANGED tabs
    BY <1>1 DEF Navigated, BackNowhere, CallWorks, Loads, At, browser
  <2>2. verb'.tries = verb.tries /\ verb'.at = "settle"
    BY <1>k, <2>1 DEF ToSettle, IsVerb
  <2>3. QED  BY <1>k, <2>1, <2>2 DEF FewPages
<1>2. CASE Settled
  <2>1. UNCHANGED tabs /\ verb.at = "settle"
        /\ (verb' = Idle \/ verb' = [verb EXCEPT !.at = "title", !.on = Page(active)])
    BY <1>2 DEF Settled, browser
  <2>2. CASE verb' = Idle
    BY <1>k, <2>1, <2>2, IdleVerb DEF FewPages
  <2>3. CASE verb' = [verb EXCEPT !.at = "title", !.on = Page(active)]
    <3>1. verb'.tries = verb.tries /\ verb'.at = "title"
      BY <1>k, <2>3 DEF IsVerb
    <3>2. QED  BY <1>k, <2>1, <3>1 DEF FewPages
  <2>4. QED  BY <2>1, <2>2, <2>3
<1>3. CASE Titled \/ Done \/ ClickedRef \/ Mapped \/ Evaluated \/ Fails \/ RelaunchFails
           \/ CloseAnswers \/ NewAnswers
  <2>1. verb' = Idle /\ UNCHANGED tabs
    BY <1>3 DEF Titled, Done, ClickedRef, Mapped, Evaluated, Fails, RelaunchFails, CloseAnswers,
                NewAnswers, Answer, browser
  <2>2. QED  BY <1>k, <2>1, IdleVerb DEF FewPages
<1>4. CASE Closed
  <2>1. PICK t \in Open : Closes(t) /\ verb' = [VerbLost(t) EXCEPT !.at = "closed"]
    BY <1>4 DEF Closed
  <2>2. verb'.at = "closed" /\ tabs' = tabs - 1
    BY <1>k, <2>1 DEF VerbLost, IsVerb, Closes
  <2>3. QED  BY <1>k, <2>2 DEF FewPages
<1>5. CASE NewOpens \/ HealOpens
  <2>1. PICK a \in {"made", "adopt"} : verb' = [verb EXCEPT !.at = a, !.fresh = FreshTab]
    BY <1>5 DEF NewOpens, HealOpens
  <2>2. tabs' = tabs + 1 /\ verb.at \in {"new", "heal"}
    BY <1>5 DEF NewOpens, HealOpens, Opens, FreshTab, At
  <2>3. verb'.at \in {"made", "adopt"}
    BY <1>k, <2>1 DEF IsVerb
  <2>4. QED  BY <1>k, <2>2, <2>3 DEF FewPages
<1>6. CASE CrashSeen
  <2>1. UNCHANGED tabs
    BY <1>6 DEF CrashSeen, browser
  <2>2. CASE verb' = Idle
    BY <1>k, <2>1, <2>2, IdleVerb DEF FewPages
  <2>3. CASE verb' # Idle
    <3>1. tabs <= MaxTabs
      BY <1>k, <1>6, <2>3 DEF CrashSeen, FewPages
    <3>2. QED  BY <1>k, <2>1, <3>1 DEF FewPages
  <2>4. QED  BY <2>2, <2>3
<1>7. CASE Woken /\ tabs = 0
  BY <1>k, <1>7 DEF Woken, browser, FewPages
<1>8. CASE (Woken /\ tabs # 0) \/ HealAdopts
  <2>1. PICK t, open : Heal(t, open) /\ UNCHANGED tabs
    BY <1>8 DEF Woken, HealAdopts, browser
  <2>2. verb' = Idle \/ (verb'.at = "call" /\ verb'.tries = 2)
    BY <1>k, <2>1, HealedVerb
  <2>3. QED  BY <1>k, <2>1, <2>2, IdleVerb DEF FewPages
<1>9. CASE Relaunch
  BY <1>k, <1>9 DEF Relaunch, FewPages
<1>10. QED
  BY <1>1, <1>2, <1>3, <1>4, <1>5, <1>6, <1>7, <1>8, <1>9 DEF Step

(* What the session and its clients refer to.                                *)

Referred ==
  /\ mapped \subseteq Open
  /\ frame \in Ref \cup {None} /\ snapshot \in Ref \cup {None} /\ handles \subseteq Ref

LEMMA ReferredStays ==
  ASSUME Referred, Open \subseteq Open', mapped' \subseteq Open',
         frame' \in {frame, None}, snapshot' \in {snapshot, None}, handles' \subseteq handles
  PROVE  Referred'
BY RefGrows DEF Referred

LEMMA LoadsReferred ==
  ASSUME Referred, NEW t, Loads(t)
  PROVE  Referred'
<1>1. /\ UNCHANGED tabs /\ mapped' \subseteq mapped
      /\ frame' = Older(frame, t) /\ snapshot' = Older(snapshot, t)
      /\ handles' = {Older(h, t) : h \in handles}
  BY DEF Loads
<1>2. Open' = Open /\ Ref' = Ref
  BY <1>1 DEF Open, Ref
<1>3. QED  BY <1>1, <1>2, OlderTyped DEF Referred

LEMMA ClosesReferred ==
  ASSUME PagesKept, Referred, NEW t \in Open, Closes(t)
  PROVE  Referred'
<1>1. /\ mapped' = Places(mapped, t) /\ frame' = Lost(frame, t) /\ snapshot' = Lost(snapshot, t)
      /\ handles' = {Lost(h, t) : h \in handles}
  BY DEF Closes
<1>2. mapped' \subseteq Open'
  BY <1>1, PlacesAfter DEF Referred
<1>3. frame' \in Ref' \cup {None} /\ snapshot' \in Ref' \cup {None}
  BY <1>1, LostTyped DEF Referred
<1>4. \A h \in handles : Lost(h, t) \in Ref'
  BY LostTyped DEF Referred
<1>5. None' = None
  BY DEF None, NoTab
<1>6. QED  BY <1>1, <1>2, <1>3, <1>4 DEF Referred

LEMMA StepReferred ==
  ASSUME PagesKept, Referred, Step
  PROVE  Referred'
<1>k. tabs \in Nat /\ mapped \subseteq Open /\ handles \subseteq handles /\ {} \subseteq handles
  BY DEF PagesKept, Counted, Referred
<1>1. CASE Navigated
  BY <1>1, LoadsReferred DEF Navigated
<1>2. CASE \/ BackNowhere \/ Titled \/ Done \/ ClickedRef \/ CloseAnswers \/ NewAnswers
           \/ Fails \/ CrashSeen \/ RelaunchFails \/ Settled \/ Woken \/ HealAdopts
  <2>1. /\ UNCHANGED <<tabs, mapped>> /\ frame' \in {frame, None} /\ snapshot' \in {snapshot, None}
        /\ handles' \in {handles, {}}
    BY <1>2 DEF BackNowhere, Titled, Done, ClickedRef, CloseAnswers, NewAnswers, Fails, CrashSeen,
                RelaunchFails, Settled, Woken, HealAdopts, Heal, refs, browser
  <2>2. Open' = Open
    BY <2>1 DEF Open
  <2>3. QED  BY <1>k, <2>1, <2>2, ReferredStays
<1>3. CASE Mapped \/ Evaluated
  <2>1. /\ UNCHANGED <<tabs, frame>> /\ verb.on.tab \in Open
        /\ mapped' \subseteq mapped \cup {verb.on.tab}
        /\ snapshot' \in {snapshot, Within(verb.on.tab)}
        /\ handles' \subseteq handles \cup {Within(verb.on.tab)}
    BY <1>3 DEF Mapped, Evaluated, CallWorks, Works, Gone, browser
  <2>2. Open' = Open /\ Ref' = Ref /\ Within(verb.on.tab) \in Ref
    BY <2>1, PageTyped DEF Open, Ref
  <2>3. QED  BY <2>1, <2>2 DEF Referred
<1>4. CASE Closed
  BY <1>4, ClosesReferred DEF Closed
<1>5. CASE NewOpens \/ HealOpens
  <2>1. tabs' = tabs + 1 /\ UNCHANGED <<mapped, frame, snapshot, handles>>
    BY <1>5 DEF NewOpens, HealOpens, Opens, FreshTab, refs
  <2>2. Open \subseteq Open'
    BY <1>k, <2>1 DEF Open
  <2>3. QED  BY <1>k, <2>1, <2>2, ReferredStays
<1>6. CASE Relaunch
  <2>1. /\ ~alive /\ tabs' = 1 /\ UNCHANGED mapped /\ frame' = None /\ snapshot' = None
        /\ handles' = {}
    BY <1>6 DEF Relaunch, Heal
  <2>2. Open = {}
    BY <2>1 DEF PagesKept, Counted, Open
  <2>3. Open \subseteq Open'
    BY <2>2
  <2>4. QED  BY <1>k, <2>1, <2>3, ReferredStays
<1>7. QED
  BY <1>1, <1>2, <1>3, <1>4, <1>5, <1>6 DEF Step

(* The pages move by themselves.                                             *)

\* A page event leaves a verb its name, stage and attempt, and Idle as it was.
LEMMA EventNamed ==
  ASSUME PagesKept, VerbNamed, NEW v, Moved(v), IsVerb(v), v.name = verb.name, v.at = verb.at,
         v.tries = verb.tries, verb = Idle => v = Idle
  PROVE  /\ VerbNamed' /\ verb'.at = verb.at /\ verb'.tries = verb.tries
         /\ verb'.on = v.on /\ verb'.went = v.went
<1>1. /\ IsVerb(verb') /\ verb'.name = v.name /\ verb'.at = v.at /\ verb'.tries = v.tries
      /\ verb'.on = v.on /\ verb'.went = v.went /\ verb'.fresh = v.fresh /\ verb'.bad = v.bad
      /\ verb'.moved = (verb.name = "go")
  BY DEF Moved, IsVerb
<1>2. CASE verb = Idle
  <2>1. verb'.moved = FALSE
    BY <1>1, <1>2, IdleVerb
  <2>2. verb' = Idle
    BY <1>1, <1>2, <2>1 DEF IsVerb, Idle
  <2>3. QED  BY <1>1, <2>2 DEF VerbNamed
<1>3. CASE verb # Idle
  BY <1>1, <1>3 DEF VerbNamed
<1>4. QED  BY <1>2, <1>3

\* Pages close, or stay as many.
LEMMA FewerPages ==
  ASSUME PagesKept, FewPages, tabs' \in Nat, tabs' <= tabs, verb'.at = verb.at,
         verb'.tries = verb.tries
  PROVE  FewPages'
BY BoundsNatural DEF FewPages, PagesKept, Counted

\* The verb drives or tells of something else, and knows other pages.
Driving(o, w) == [verb EXCEPT !.on = o, !.went = w]
Knowing(o, w, b, f) == [verb EXCEPT !.on = o, !.went = w, !.bad = b, !.fresh = f]

LEMMA Replaced ==
  ASSUME IsVerb(verb), NEW o, NEW w, NEW b, NEW f, NEW v,
         \/ v = Knowing(o, w, b, f)
         \/ v = Driving(o, w) /\ b = verb.bad /\ f = verb.fresh
  PROVE  /\ IsVerb(v) /\ v.name = verb.name /\ v.at = verb.at /\ v.tries = verb.tries
         /\ v.on = o /\ v.went = w
         /\ verb = Idle /\ o = None /\ w = None /\ b = {} /\ f = NoTab => v = Idle
<1>1. v = [name |-> verb.name, at |-> verb.at, on |-> o, tries |-> verb.tries, fresh |-> f,
           went |-> w, bad |-> b, moved |-> verb.moved]
  BY DEF IsVerb, Driving, Knowing
<1>2. IsVerb(v) /\ v.name = verb.name /\ v.at = verb.at /\ v.tries = verb.tries
      /\ v.on = o /\ v.went = w
  BY <1>1 DEF IsVerb
<1>3. verb = Idle /\ o = None /\ w = None /\ b = {} /\ f = NoTab => v = Idle
  BY <1>1 DEF Idle
<1>4. QED  BY <1>2, <1>3

LEMMA EventTyped ==
  ASSUME PagesTyped, PageEvent
  PROVE  RefsTyped' /\ VerbNamed' /\ FewPages'
<1>k. /\ PagesKept /\ IsVerb(verb) /\ Referred /\ VerbNamed /\ FewPages /\ RefsTyped /\ tabs \in Nat
      /\ verb.on \in Ref \cup {None} /\ verb.went \in Ref \cup {None}
  BY DEF PagesTyped, RefsTyped, Referred, PagesKept, VerbSound, Counted
<1>1. CASE Popup
  <2>1. tabs' = tabs + 1 /\ tabs < MaxTabs /\ UNCHANGED <<mapped, frame, snapshot, handles>>
        /\ Moved(verb)
    BY <1>1 DEF Popup, Opens, FreshTab, refs
  <2>2. Open \subseteq Open'
    BY <1>k, <2>1 DEF Open
  <2>3. Referred'
    BY <1>k, <2>1, <2>2, ReferredStays DEF Referred
  <2>4. VerbNamed' /\ verb'.on = verb.on /\ verb'.went = verb.went
    BY <1>k, <2>1, EventNamed
  <2>5. FewPages'
    BY <1>k, <2>1, BoundsNatural DEF FewPages
  <2>6. QED  BY <1>k, <2>2, <2>3, <2>4, <2>5, RefGrows DEF RefsTyped, Referred
<1>2. CASE BrowserDies
  <2> DEFINE lost(s) == [s EXCEPT !.tab = NoTab]
             v == Knowing(lost(verb.on), lost(verb.went), {}, NoTab)
  <2>1. /\ tabs' = 0 /\ mapped' = {} /\ Moved(v)
        /\ frame' = lost(frame) /\ snapshot' = lost(snapshot)
        /\ handles' = {lost(h) : h \in handles}
    BY <1>2 DEF BrowserDies, Knowing
  <2>2. \A s : /\ s \in Ref => lost(s) \in Ref'
               /\ s \in Ref \cup {None} => lost(s) \in Ref' \cup {None}
    BY DEF Ref, None
  <2>3. /\ IsVerb(v) /\ v.name = verb.name /\ v.at = verb.at /\ v.tries = verb.tries
        /\ v.on = lost(verb.on) /\ v.went = lost(verb.went)
    BY <1>k, Replaced
  <2>4. verb = Idle => v = Idle
    <3>1. verb = Idle => lost(verb.on) = None /\ lost(verb.went) = None
      BY DEF Idle, None
    <3>2. QED  BY <1>k, <3>1, Replaced
  <2> HIDE DEF v, lost
  <2>5. /\ VerbNamed' /\ verb'.at = verb.at /\ verb'.tries = verb.tries
        /\ verb'.on = lost(verb.on) /\ verb'.went = lost(verb.went)
    BY <1>k, <2>1, <2>3, <2>4, EventNamed
  <2>6. FewPages'
    BY <1>k, <2>1, <2>5, FewerPages
  <2>7. RefsTyped'
    BY <1>k, <2>1, <2>2, <2>5 DEF RefsTyped, Referred
  <2>8. QED  BY <2>5, <2>6, <2>7
<1>3. ASSUME NEW t \in Tab, PageCloses(t)  PROVE RefsTyped' /\ VerbNamed' /\ FewPages'
  <2>1. t \in Open /\ Closes(t) /\ Moved(VerbLost(t))
    BY <1>3 DEF PageCloses
  <2>2. Referred'
    BY <1>k, <2>1, ClosesReferred
  <2>a. VerbLost(t) = Knowing(Lost(verb.on, t), Lost(verb.went, t), Places(verb.bad, t),
                              Place(verb.fresh, t))
    BY DEF VerbLost, Knowing
  <2>3. /\ IsVerb(VerbLost(t)) /\ VerbLost(t).name = verb.name /\ VerbLost(t).at = verb.at
        /\ VerbLost(t).tries = verb.tries
        /\ VerbLost(t).on = Lost(verb.on, t) /\ VerbLost(t).went = Lost(verb.went, t)
    BY <1>k, <2>a, Replaced
  <2>4. verb = Idle => VerbLost(t) = Idle
    <3>1. Lost(None, t) = None /\ Places({}, t) = {} /\ Place(NoTab, t) = NoTab
      BY <1>k, <2>1, PlacesAfter DEF Lost, None
    <3>2. SUFFICES ASSUME verb = Idle  PROVE VerbLost(t) = Idle
      OBVIOUS
    <3>3. /\ Lost(verb.on, t) = None /\ Lost(verb.went, t) = None
          /\ Places(verb.bad, t) = {} /\ Place(verb.fresh, t) = NoTab
      BY <3>1, <3>2 DEF Idle
    <3>4. VerbLost(t) = Knowing(None, None, {}, NoTab)
      BY <2>a, <3>3
    <3>5. QED  BY <1>k, <3>2, <3>4, Replaced
  <2>5. /\ VerbNamed' /\ verb'.at = verb.at /\ verb'.tries = verb.tries
        /\ verb'.on = Lost(verb.on, t) /\ verb'.went = Lost(verb.went, t)
    BY <1>k, <2>1, <2>3, <2>4, EventNamed
  <2>6. tabs' = tabs - 1 /\ tabs' \in Nat
    BY <1>k, <2>1, PlacesAfter
  <2>7. FewPages'
    BY <1>k, <2>5, <2>6, FewerPages
  <2>8. QED  BY <1>k, <2>1, <2>2, <2>5, <2>7, LostTyped DEF RefsTyped, Referred
<1>4. ASSUME NEW t \in Tab, PageNavigates(t)  PROVE RefsTyped' /\ VerbNamed' /\ FewPages'
  <2>1. Loads(t) /\ Moved(VerbOlder(t)) /\ UNCHANGED tabs
    BY <1>4 DEF PageNavigates, Loads
  <2>2. Referred'
    BY <1>k, <2>1, LoadsReferred
  <2>a. VerbOlder(t) = Driving(Older(verb.on, t), Older(verb.went, t))
    BY DEF VerbOlder, Driving
  <2>3. /\ IsVerb(VerbOlder(t)) /\ VerbOlder(t).name = verb.name /\ VerbOlder(t).at = verb.at
        /\ VerbOlder(t).tries = verb.tries
        /\ VerbOlder(t).on = Older(verb.on, t) /\ VerbOlder(t).went = Older(verb.went, t)
    BY <1>k, <2>a, Replaced
  <2>4. verb = Idle => VerbOlder(t) = Idle
    <3>1. verb = Idle => /\ Older(verb.on, t) = None /\ Older(verb.went, t) = None
                         /\ verb.bad = {} /\ verb.fresh = NoTab
      BY DEF Older, None, Within, Idle
    <3>2. QED  BY <1>k, <2>a, <3>1, Replaced
  <2>5. /\ VerbNamed' /\ verb'.at = verb.at /\ verb'.tries = verb.tries
        /\ verb'.on = Older(verb.on, t) /\ verb'.went = Older(verb.went, t)
    BY <1>k, <2>1, <2>3, <2>4, EventNamed
  <2>6. FewPages'
    BY <1>k, <2>1, <2>5, FewerPages
  <2>7. Ref' = Ref
    BY <2>1 DEF Ref, Open
  <2>8. QED  BY <1>k, <2>2, <2>5, <2>6, <2>7, OlderTyped DEF RefsTyped, Referred
<1>5. ASSUME NEW t \in Tab, RendererCrashes(t)  PROVE RefsTyped' /\ VerbNamed' /\ FewPages'
  <2>1. UNCHANGED <<tabs, mapped, frame, snapshot, handles>> /\ Moved(verb)
    BY <1>5 DEF RendererCrashes, refs
  <2>2. /\ VerbNamed' /\ verb'.at = verb.at /\ verb'.tries = verb.tries
        /\ verb'.on = verb.on /\ verb'.went = verb.went
    BY <1>k, <2>1, EventNamed
  <2>3. FewPages'
    BY <1>k, <2>1, <2>2, FewerPages
  <2>4. QED  BY <1>k, <2>1, <2>2, <2>3 DEF RefsTyped, Ref, Open
<1>6. QED  BY <1>1, <1>2, <1>3, <1>4, <1>5 DEF PageEvent

\* A request begins: its verb drives what the session or the client refers to.
LEMMA RequestTyped ==
  ASSUME PagesTyped, Request
  PROVE  RefsTyped' /\ VerbNamed' /\ FewPages'
<1>k. /\ RefsTyped /\ VerbNamed /\ FewPages /\ tabs \in Nat /\ MaxTabs \in Nat
      /\ active \in Open \cup {NoTab}
  BY BoundsNatural DEF PagesTyped, PagesKept, Counted
<1>1. CASE Frame
  <2>1. /\ UNCHANGED <<tabs, mapped, snapshot, handles, verb>>
        /\ frame' \in {None} \cup {Within(t) : t \in {active} \cap loaded}
    BY <1>1 DEF Frame, browser
  <2>2. frame' \in Ref \cup {None} /\ Ref' = Ref /\ Open' = Open
    BY <1>k, <2>1, PageTyped DEF Ref, Open
  <2>3. QED  BY <1>k, <2>1, <2>2 DEF RefsTyped, VerbNamed, FewPages
<1>2. ASSUME NEW name \in Verbs, Begin(name)
      PROVE  RefsTyped' /\ VerbNamed' /\ FewPages'
  <2> DEFINE t == IF name \in Repairing THEN Repaired(active, tabs) ELSE active
  <2>1. t \in Open \cup {NoTab}
    BY <1>k DEF Repaired, Open, NoTab
  <2>2. Drives(name, t) \subseteq Ref
    <3> HIDE DEF t
    <3>1. Page(t) \in Ref /\ {Page(u) : u \in Open} \subseteq Ref /\ handles \subseteq Ref
          /\ (frame # None => frame \in Ref)
      BY <1>k, <2>1, PageTyped DEF RefsTyped
    <3>2. QED  BY <3>1 DEF Drives
  <2>3. /\ UNCHANGED <<tabs, mapped, frame, snapshot, handles>> /\ tabs <= MaxTabs
        /\ \E s \in Drives(name, t) :
             verb' = IF name = "click_ref" /\ snapshot = None THEN Idle
                     ELSE [Idle EXCEPT !.name = name, !.on = s, !.tries = 1,
                                       !.at = IF name = "page_new" THEN "new" ELSE "call"]
    BY <1>2 DEF Begin, browser, refs
  <2> HIDE DEF t
  <2>4. Ref' = Ref /\ Open' = Open
    BY <2>3 DEF Ref, Open
  <2>5. GoesOn
    <3>1. CASE verb' = Idle
      BY <3>1 DEF GoesOn
    <3>2. CASE verb' # Idle
      <4>1. PICK s \in Drives(name, t) :
               verb' = [Idle EXCEPT !.name = name, !.on = s, !.tries = 1,
                                    !.at = IF name = "page_new" THEN "new" ELSE "call"]
        BY <2>3, <3>2
      <4>2. /\ verb'.name = name /\ verb'.tries = 1 /\ verb'.at \in {"new", "call"}
            /\ verb'.on = s /\ verb'.went = None
        BY <4>1 DEF Idle
      <4>3. QED  BY <2>2, <2>4, <4>2 DEF GoesOn, Names, Refers
    <3>3. QED  BY <3>1, <3>2
  <2>6. QED  BY <1>k, <2>3, <2>4, <2>5, GoingOn DEF RefsTyped, FewPages
<1>3. QED  BY <1>1, <1>2 DEF Request

\* The reviver opens a page when there is none, and ends.
LEMMA RevivalTyped ==
  ASSUME PagesTyped, Revival
  PROVE  RefsTyped' /\ VerbNamed' /\ FewPages'
<1>k. /\ RefsTyped /\ VerbNamed /\ FewPages /\ tabs \in Nat /\ MaxTabs \in Nat \ {0} /\ IsVerb(verb)
      /\ ReviverCalm
  BY BoundsNatural DEF PagesTyped, PagesKept, Counted, VerbSound
<1>1. CASE ReviverOpens
  <2>1. /\ tabs' = tabs + 1 /\ UNCHANGED <<mapped, frame, snapshot, handles, verb>>
        /\ reviver.at \in {"asked", "queued"}
    BY <1>1 DEF ReviverOpens, Opens, FreshTab, refs
  <2>2. tabs = 0 /\ Open \subseteq Open'
    BY <1>k, <2>1 DEF ReviverCalm, Open
  <2>3. QED  BY <1>k, <2>1, <2>2, RefGrows DEF RefsTyped, VerbNamed, FewPages
<1>2. CASE ReviverEnds
  <2>1. /\ UNCHANGED <<tabs, mapped, snapshot, handles>> /\ frame' \in {frame, None}
        /\ verb' = IF verb.at = "await" THEN [verb EXCEPT !.at = "woken"] ELSE verb
    BY <1>2 DEF ReviverEnds, browser
  <2>2. Ref' = Ref /\ Open' = Open
    BY <2>1 DEF Ref, Open
  <2>3. CASE verb' = verb
    BY <1>k, <2>1, <2>2, <2>3 DEF RefsTyped, VerbNamed, FewPages
  <2>4. CASE verb.at = "await" /\ verb' = [verb EXCEPT !.at = "woken"]
    <3>1. /\ verb'.at = "woken" /\ verb'.name = verb.name /\ verb'.tries = verb.tries
          /\ verb'.on = verb.on /\ verb'.went = verb.went
      BY <1>k, <2>4 DEF IsVerb
    <3>2. Names(verb)
      BY <1>k, <2>4, NotIdle
    <3>3. QED  BY <1>k, <2>1, <2>2, <3>1, <3>2 DEF RefsTyped, VerbNamed, FewPages, Names
  <2>5. QED  BY <2>1, <2>3, <2>4
<1>3. QED  BY <1>1, <1>2 DEF Revival

LEMMA NextTyped == ~Hasty /\ PagesTyped /\ [Next]_vars => PagesTyped'
<1> SUFFICES ASSUME ~Hasty, PagesTyped, [Next]_vars  PROVE PagesTyped'
  OBVIOUS
<1>1. PagesKept' /\ PagesKept /\ RefsTyped /\ VerbNamed /\ FewPages
  BY NextKept DEF PagesTyped
<1>2. CASE Step
  <2>1. Referred' /\ GoesOn /\ FewPages'
    BY <1>1, <1>2, StepReferred, StepGoesOn, StepFew DEF Referred, RefsTyped
  <2>2. QED  BY <1>1, <2>1, GoingOn DEF PagesTyped, Referred, RefsTyped
<1>3. CASE UNCHANGED vars
  BY <1>1, <1>3 DEF vars, browser, refs, PagesTyped, RefsTyped, VerbNamed, FewPages, Ref, Open
<1>4. QED
  BY <1>1, <1>2, <1>3, RequestTyped, RevivalTyped, EventTyped DEF Next, PagesTyped

\* Every variable keeps its type, and with MaxTab above MaxTabs no page is ever
\* opened that the page events leave out: for any bounds, handles and verbs.
THEOREM PagesAreTyped ==
  ASSUME ~Hasty, MaxTabs < MaxTab
  PROVE  Spec => []TypeOK
<1>1. PagesTyped /\ [Next]_vars => PagesTyped'
  BY NextTyped
<1>2. PagesTyped => TypeOK
  BY TypesFollow
<1>3. QED  BY <1>1, <1>2, InitTyped, PTL DEF Spec

==============================================================================
