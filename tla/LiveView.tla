------------------------------ MODULE LiveView --------------------------------
(***************************************************************************)
(* The live view (liveview.py): servers that stream the frames of a session *)
(* to whoever watches it, one loop per session, and take over its mouse and *)
(* keyboard, together with what they share with the dispatcher: the verbs   *)
(* liveview_start and liveview_stop (daemon/handlers_extra.py), which hold  *)
(* the entry.lock of the session they name as any verb does, that lock, and *)
(* the freezer.                                                             *)
(*                                                                          *)
(* A step is the code between two awaits.  A cancelled task does nothing    *)
(* more, so it is gone at once, and so is a loop started on a server that   *)
(* does not run: its first step is its last.                                *)
(***************************************************************************)
EXTENDS Naturals, Sequences, FiniteSets

CONSTANTS
  Names,     \* sessions
  Served,    \* those that verbs and inputs are sent to, that close, start and are
             \* parked; the others are there to be watched
  Viewers,   \* WebSocket connections
  Drivers,   \* those with the control token
  Slow,      \* those that may stop reading
  Requests,  \* clients of the daemon
  MaxServer, \* servers that are not forgotten yet
  MaxLife,   \* entries of a session that are not forgotten yet
  NoViewer   \* stands for no viewer

ASSUME SetsSound ==
  /\ Served \subseteq Names /\ Drivers \cup Slow \subseteq Viewers /\ NoViewer \notin Viewers /\ Viewers \cap Requests = {}
  /\ MaxServer \in Nat \ {0} /\ MaxLife \in Nat \ {0}

VARIABLES
  up,      \* sessions in the registry
  life,    \* <<n, life[n]>> is the entry of session n
  parked,  \* sessions whose renderers the freezer has stopped
  lock,    \* entry.lock: the holder, then who waits for it
  server,  \* _liveview_server of the daemon
  site,    \* what each server is doing
  keys,    \* the names server._clients has a set for
  viewer,  \* each connection and its handler, _handle_ws
  loops,   \* the frame loops that have not ended
  req      \* the verb each client waits for

sessions == <<up, life, parked>>
servers == <<server, site, keys>>
vars == <<sessions, lock, servers, viewer, loops, req>>

Servers == 1..MaxServer
NoServer == 0
Entries == Names \X (1..MaxLife)
Entry(n) == <<n, life[n]>>
Current(e) == e[1] \in up /\ e = Entry(e[1])
Stopped(e) == Current(e) /\ e[1] \in parked

Out == [at |-> "out"]
Idle == [at |-> "idle"]

Running(s) == site[s] = "up"
Present == {v \in Viewers : viewer[v].at # "out"}
Clients(s, n) ==
  {v \in Present : viewer[v].srv = s /\ viewer[v].name = n /\ viewer[v].listed}
LoopsOf(s, n) == {l \in loops : l.srv = s /\ l.name = n}

SessionsTyped == up \subseteq Names /\ parked \subseteq up /\ life \in [Names -> 1..MaxLife]

ServersTyped ==
  /\ server \in Servers \cup {NoServer}
  /\ site \in [Servers -> {"off", "starting", "up", "closing", "broken"}]
  /\ keys \in [Servers -> SUBSET Names]

Connection ==
  [at : {"joining", "hello", "reading", "input"}, srv : Servers, name : Names,
   listed : BOOLEAN, shut : BOOLEAN, stalled : BOOLEAN, lost : BOOLEAN]

Loop ==
  [srv : Servers, name : Names, nr : Nat, at : {"idle", "shot", "send"}, live : BOOLEAN,
   cur : Viewers \cup {NoViewer}, to : SUBSET Viewers]

Call ==
  [at : {"queued", "run", "starting", "closing"}, op : {"verb", "start", "stop"},
   entry : Entries, srv : Servers \cup {NoServer}, keys : SUBSET Names, busy : BOOLEAN]

TypeOK ==
  /\ SessionsTyped /\ ServersTyped
  /\ lock \in [Entries -> Seq(Viewers \cup Requests)]
  /\ viewer \in [Viewers -> {Out} \cup Connection]
  /\ loops \subseteq Loop
  /\ req \in [Requests -> {Idle} \cup Call]

Init ==
  /\ up = Names /\ life = [n \in Names |-> 1] /\ parked = {}
  /\ lock = [e \in Entries |-> <<>>]
  /\ server = NoServer /\ site = [s \in Servers |-> "off"] /\ keys = [s \in Servers |-> {}]
  /\ viewer = [v \in Viewers |-> Out] /\ loops = {} /\ req = [q \in Requests |-> Idle]

------------------------------------------------------------------------------
(* The sessions, as far as a live view sees them.                            *)

\* session_close and stop take no entry.lock.
SessionCloses(n) ==
  /\ n \in up /\ up' = up \ {n} /\ parked' = parked \ {n}
  /\ viewer' = [v \in Viewers |->
       IF v \in Present /\ viewer[v].name = n /\ ~viewer[v].shut
       THEN [viewer[v] EXCEPT !.lost = TRUE] ELSE viewer[v]]
  /\ loops' = {IF l.name = n THEN [l EXCEPT !.live = FALSE] ELSE l : l \in loops}
  /\ UNCHANGED <<life, lock, servers, req>>

SessionStarts(n) ==
  /\ n \notin up /\ up' = up \cup {n}
  /\ \E k \in 1..MaxLife : lock[<<n, k>>] = <<>> /\ life' = [life EXCEPT ![n] = k]
  /\ UNCHANGED <<parked, lock, servers, viewer, loops, req>>

\* A loop stamps activity before every frame, and does not while it sends.
Stamped(n) == \E l \in loops : l.name = n /\ l.at # "send"

\* _freeze_if_idle.
Park(n) ==
  /\ n \in up \ parked /\ lock[Entry(n)] = <<>> /\ ~Stamped(n)
  /\ parked' = parked \cup {n}
  /\ UNCHANGED <<up, life, lock, servers, viewer, loops, req>>

------------------------------------------------------------------------------
(* The verbs.                                                                *)

Queue(e, u) == lock' = [lock EXCEPT ![e] = Append(@, u)]
Free(e) == lock' = [lock EXCEPT ![e] = Tail(@)]
Holds(u, e) == lock[e] # <<>> /\ Head(lock[e]) = u

Ask(q, op, n) ==
  /\ req[q] = Idle /\ n \in up
  /\ req' = [req EXCEPT ![q] = [at |-> "queued", op |-> op, entry |-> Entry(n),
                                srv |-> NoServer, keys |-> {}, busy |-> FALSE]]
  /\ Queue(Entry(n), q)
  /\ UNCHANGED <<sessions, servers, viewer, loops>>

\* Mutant: the verb runs on the session as it is.
GrantedFrozen(q) ==
  /\ req[q].at = "queued" /\ Holds(q, req[q].entry)
  /\ UNCHANGED sessions

\* The lock is held and the session thawed.
Granted(q) ==
  /\ req[q].at = "queued" /\ Holds(q, req[q].entry)
  /\ parked' = IF Current(req[q].entry) THEN parked \ {req[q].entry[1]} ELSE parked
  /\ UNCHANGED <<up, life>>

Answered(q) == req' = [req EXCEPT ![q] = Idle] /\ Free(req[q].entry)

Verb(q) ==
  /\ Granted(q) /\ req[q].op = "verb"
  /\ req' = [req EXCEPT ![q].at = "run"]
  /\ UNCHANGED <<lock, servers, viewer, loops>>

\* What drives a page with stopped renderers gets no answer.
VerbEnds(q) ==
  /\ req[q].at = "run" /\ ~Stopped(req[q].entry)
  /\ Answered(q)
  /\ UNCHANGED <<sessions, servers, viewer, loops>>

Unused(s) ==
  /\ site[s] = "off" /\ \A p \in Requests : req[p] # Idle => req[p].srv # s

\* liveview_start: there is a server, or a new one comes up (or not: the port is
\* taken, or the address is refused at once) and only then is the server of the
\* daemon.
StartAgain(q) ==
  /\ Granted(q) /\ req[q].op = "start" /\ server # NoServer
  /\ Answered(q)
  /\ UNCHANGED <<servers, viewer, loops>>

Start(q) ==
  /\ Granted(q) /\ req[q].op = "start" /\ server = NoServer
  /\ \E s \in Servers :
       /\ Unused(s) /\ \A t \in Servers : t < s => ~Unused(t)
       /\ site' = [site EXCEPT ![s] = "starting"]
       /\ req' = [req EXCEPT ![q].at = "starting", ![q].srv = s]
  /\ UNCHANGED <<lock, server, keys, viewer, loops>>

StartFails(q) ==
  /\ \/ /\ req[q].at = "starting" /\ site' = [site EXCEPT ![req[q].srv] = "off"]
        /\ UNCHANGED sessions
     \/ /\ Granted(q) /\ req[q].op = "start" /\ server = NoServer
        /\ UNCHANGED site
  /\ Answered(q)
  /\ UNCHANGED <<server, keys, viewer, loops>>

StartEnds(q) ==
  /\ req[q].at = "starting"
  /\ site' = [site EXCEPT ![req[q].srv] = "up"] /\ server' = req[q].srv
  /\ Answered(q)
  /\ UNCHANGED <<sessions, keys, viewer, loops>>

\* liveview_stop: the loops are cancelled, then the connections are closed one
\* by one, over a table of names that must not grow meanwhile.
StopAgain(q) ==
  /\ Granted(q) /\ req[q].op = "stop" /\ server = NoServer
  /\ Answered(q)
  /\ UNCHANGED <<servers, viewer, loops>>

Stop(q) ==
  LET s == server IN
  /\ Granted(q) /\ req[q].op = "stop" /\ s # NoServer
  /\ site' = [site EXCEPT ![s] = IF @ = "off" THEN "off" ELSE "closing"]
  /\ loops' = {l \in loops : l.srv # s}
  /\ req' = [req EXCEPT ![q].at = "closing", ![q].srv = s, ![q].keys = keys[s],
                        ![q].busy = \E n \in Names : Clients(s, n) # {}]
  /\ UNCHANGED <<lock, server, keys, viewer>>

\* The table grew: the verb fails, the server stays and does not run.
StopBreaks(q) ==
  LET s == req[q].srv IN
  /\ req[q].at = "closing" /\ req[q].busy /\ ~(keys[s] \subseteq req[q].keys)
  /\ \E S \in SUBSET {v \in Present : viewer[v].srv = s /\ viewer[v].listed} :
       viewer' = [v \in Viewers |->
         IF v \in S THEN [viewer[v] EXCEPT !.shut = TRUE, !.stalled = FALSE, !.lost = FALSE]
         ELSE viewer[v]]
  /\ site' = [site EXCEPT ![s] = IF @ = "off" THEN "off" ELSE "broken"]
  /\ Answered(q)
  /\ UNCHANGED <<sessions, server, keys, loops>>

\* The site is closed and its handlers with it, those that wait for a lock
\* included.
StopEnds(q) ==
  LET s == req[q].srv
      gone == {v \in Present : viewer[v].srv = s} IN
  /\ req[q].at = "closing" /\ (keys[s] \subseteq req[q].keys \/ ~req[q].busy)
  /\ site' = [site EXCEPT ![s] = "off"] /\ keys' = [keys EXCEPT ![s] = {}]
  /\ server' = NoServer
  /\ viewer' = [v \in Viewers |-> IF v \in gone THEN Out ELSE viewer[v]]
  /\ lock' = [e \in Entries |-> SelectSeq(IF e = req[q].entry THEN Tail(lock[e]) ELSE lock[e],
                                          LAMBDA u : u \notin gone)]
  /\ req' = [req EXCEPT ![q] = Idle]
  /\ UNCHANGED <<sessions, loops>>

------------------------------------------------------------------------------
(* The connections: _handle_ws.                                              *)

\* The session is there; the handshake is awaited.
Connect(v, s, n) ==
  /\ v \notin Present /\ site[s] \in {"up", "closing", "broken"} /\ n \in up
  /\ viewer' = [viewer EXCEPT ![v] =
       [at |-> "joining", srv |-> s, name |-> n, listed |-> FALSE,
        shut |-> FALSE, stalled |-> FALSE, lost |-> FALSE]]
  /\ UNCHANGED <<sessions, lock, servers, loops, req>>

JoinFails(v) ==
  /\ v \in Present /\ viewer[v].at = "joining"
  /\ viewer' = [viewer EXCEPT ![v] = Out]
  /\ UNCHANGED <<sessions, lock, servers, loops, req>>

\* The hello is on its way.
Join(v) ==
  LET s == viewer[v].srv IN
  /\ v \in Present /\ viewer[v].at = "joining"
  /\ viewer' = [viewer EXCEPT ![v].at = "hello", ![v].listed = TRUE]
  /\ keys' = [keys EXCEPT ![s] = @ \cup {viewer[v].name}]
  /\ UNCHANGED <<sessions, lock, server, site, loops, req>>

NewLoop(s, n, nr) ==
  [srv |-> s, name |-> n, nr |-> nr, at |-> "idle", live |-> FALSE, cur |-> NoViewer,
   to |-> {}]

\* Mutant: a loop for every viewer.
GreetedAnew(v) ==
  LET s == viewer[v].srv
      n == viewer[v].name IN
  /\ v \in Present /\ viewer[v].at = "hello"
  /\ viewer' = [viewer EXCEPT ![v].at = "reading"]
  /\ loops' = IF Running(s) THEN loops \cup {NewLoop(s, n, Cardinality(LoopsOf(s, n)) + 1)}
              ELSE loops
  /\ UNCHANGED <<sessions, lock, servers, req>>

\* The hello is out, or was not to be had; a loop is started unless one runs.
Greeted(v) ==
  LET s == viewer[v].srv
      n == viewer[v].name IN
  /\ v \in Present /\ viewer[v].at = "hello"
  /\ viewer' = [viewer EXCEPT ![v].at = "reading"]
  /\ loops' = IF LoopsOf(s, n) = {} /\ Running(s) THEN loops \cup {NewLoop(s, n, 1)}
              ELSE loops
  /\ UNCHANGED <<sessions, lock, servers, req>>

\* _handle_takeover, up to the lock; what holds it drives the page.
Input(v) ==
  /\ v \in Present \cap Drivers /\ viewer[v].at = "reading" /\ ~viewer[v].shut
  /\ viewer[v].name \in up \cap Served
  /\ viewer' = [viewer EXCEPT ![v].at = "input"]
  /\ Queue(Entry(viewer[v].name), v)
  /\ UNCHANGED <<sessions, servers, loops, req>>

InputEnds(v) ==
  /\ v \in Present /\ viewer[v].at = "input"
  /\ \E e \in Entries : Holds(v, e) /\ ~Stopped(e) /\ Free(e)
  /\ viewer' = [viewer EXCEPT ![v].at = "reading"]
  /\ UNCHANGED <<sessions, servers, loops, req>>

\* The peer goes, or stays and reads no more.
Shut(v) ==
  /\ v \in Present /\ viewer[v].at # "joining" /\ ~viewer[v].shut
  /\ viewer' = [viewer EXCEPT ![v].shut = TRUE, ![v].stalled = FALSE, ![v].lost = FALSE]
  /\ UNCHANGED <<sessions, lock, servers, loops, req>>

Stall(v) ==
  /\ v \in Present \cap Slow /\ viewer[v].at = "reading" /\ ~viewer[v].stalled /\ ~viewer[v].shut
  /\ viewer' = [viewer EXCEPT ![v].stalled = TRUE]
  /\ UNCHANGED <<sessions, lock, servers, loops, req>>

\* What was being sent to v fails, what was going to be sent is skipped.
Forget(L, v) ==
  {[l EXCEPT !.cur = IF @ = v THEN NoViewer ELSE @, !.to = @ \ {v}] : l \in L}

\* Mutant: whoever leaves stops the loop.
LeaveCancels(v) ==
  LET s == viewer[v].srv
      n == viewer[v].name IN
  /\ v \in Present /\ viewer[v].at = "reading" /\ viewer[v].shut
  /\ viewer' = [viewer EXCEPT ![v] = Out]
  /\ keys' = [keys EXCEPT ![s] = @ \cup {n}]
  /\ loops' = Forget(loops \ LoopsOf(s, n), v)
  /\ UNCHANGED <<sessions, lock, server, site, req>>

\* The read loop ends; the last viewer stops the frame loop.
Leave(v) ==
  LET s == viewer[v].srv
      n == viewer[v].name IN
  /\ v \in Present /\ viewer[v].at = "reading" /\ viewer[v].shut
  /\ viewer' = [viewer EXCEPT ![v] = Out]
  /\ keys' = [keys EXCEPT ![s] = @ \cup {n}]
  /\ loops' = Forget(IF Clients(s, n) \subseteq {v} THEN loops \ LoopsOf(s, n) ELSE loops, v)
  /\ UNCHANGED <<sessions, lock, server, site, req>>

------------------------------------------------------------------------------
(* The loops: _frame_loop.                                                   *)

Becomes(l, m) == loops' = (loops \ {l}) \cup {m}

\* No server, no session or no viewers: the loop returns.  Or a screenshot.
LoopEnds(l) ==
  /\ l.at = "idle"
  /\ ~Running(l.srv) \/ l.name \notin up \/ Clients(l.srv, l.name) = {}
  /\ loops' = loops \ {l}
  /\ UNCHANGED <<sessions, lock, servers, viewer, req>>

Shoot(l) ==
  /\ l.at = "idle"
  /\ Running(l.srv) /\ l.name \in up /\ Clients(l.srv, l.name) # {}
  /\ Becomes(l, [l EXCEPT !.at = "shot", !.live = TRUE])
  /\ UNCHANGED <<sessions, lock, servers, viewer, req>>

\* The frame goes to the next of S; closed connections are taken off the list.
SendNext(l, S) ==
  LET open == {v \in S : ~viewer[v].shut} IN
  /\ viewer' = [v \in Viewers |->
       IF v \in (S \cup {l.cur}) \ open /\ v \in Present /\ viewer[v].shut
       THEN [viewer[v] EXCEPT !.listed = FALSE] ELSE viewer[v]]
  /\ \/ open = {} /\ Becomes(l, [l EXCEPT !.at = "idle", !.live = FALSE, !.cur = NoViewer, !.to = {}])
     \/ \E v \in open : Becomes(l, [l EXCEPT !.at = "send", !.live = FALSE, !.cur = v, !.to = open \ {v}])

Shot(l) ==
  /\ l.at = "shot" /\ l.live /\ l.name \notin parked
  /\ SendNext(l, Clients(l.srv, l.name))
  /\ UNCHANGED <<sessions, lock, servers, req>>

\* The page navigates or is gone, or a stopped renderer runs out the timeout.
ShotFails(l) ==
  /\ l.at = "shot"
  /\ Becomes(l, [l EXCEPT !.at = "idle", !.live = FALSE])
  /\ UNCHANGED <<sessions, lock, servers, viewer, req>>

\* A frame reaches a viewer that reads; a connection that closes fails.
Sent(l) ==
  /\ l.at = "send" /\ l.cur # NoViewer /\ ~viewer[l.cur].stalled /\ ~viewer[l.cur].shut
  /\ SendNext(l, l.to)
  /\ UNCHANGED <<sessions, lock, servers, req>>

SendFails(l) ==
  /\ l.at = "send" /\ (l.cur # NoViewer => viewer[l.cur].shut)
  /\ SendNext(l, l.to)
  /\ UNCHANGED <<sessions, lock, servers, req>>

------------------------------------------------------------------------------

RequestStep(q) ==
  /\ req[q] # Idle
  /\ \/ Verb(q) \/ VerbEnds(q) \/ StartAgain(q) \/ Start(q) \/ StartFails(q) \/ StartEnds(q)
     \/ StopAgain(q) \/ Stop(q) \/ StopBreaks(q) \/ StopEnds(q)

Handler(v) == Join(v) \/ JoinFails(v) \/ Greeted(v) \/ InputEnds(v) \/ Leave(v)

LoopStep(s, n) ==
  \E l \in LoopsOf(s, n) :
    LoopEnds(l) \/ Shoot(l) \/ Shot(l) \/ ShotFails(l) \/ Sent(l) \/ SendFails(l)

Environment ==
  \/ \E n \in Served : SessionCloses(n) \/ SessionStarts(n) \/ Park(n)
  \/ \E q \in Requests, op \in {"verb", "start", "stop"}, n \in Served : Ask(q, op, n)
  \/ \E v \in Viewers : Input(v) \/ Shut(v) \/ Stall(v)
  \/ \E v \in Viewers, s \in Servers, n \in Names : Connect(v, s, n)

Next ==
  \/ Environment
  \/ \E q \in Requests : RequestStep(q)
  \/ \E v \in Viewers : Handler(v)
  \/ \E s \in Servers, n \in Names : LoopStep(s, n)

Spec == Init /\ [][Next]_vars

\* What a verb and an input ask of a page, and the hello (liveview.py:453-468), is
\* awaited without a timeout: title(), count() and evaluate (handlers.py:2662, 215,
\* 333), mouse and keyboard (liveview.py:550-568).
AtPage(q) == req[q] # Idle /\ req[q].at = "run"
ReadLoop(v) == v \in Present /\ viewer[v].at = "reading"

\* The loop of the daemon runs what is ready, locks are FIFO, and starting and
\* stopping a server come to an end; so do the screenshot, by its timeout, and what
\* is sent to a peer that reads.  A page that can be driven does not fail every
\* screenshot.  Nothing is promised of what waits for a page or a handshake.
FairSpec ==
  /\ Spec
  /\ \A q \in Requests : WF_vars(~AtPage(q) /\ RequestStep(q))
  /\ \A v \in Viewers : WF_vars(ReadLoop(v) /\ Handler(v))
  /\ \A s \in Servers, n \in Names :
       /\ WF_vars(LoopStep(s, n))
       /\ SF_vars(\E l \in LoopsOf(s, n) : Shot(l))

------------------------------------------------------------------------------
(* Correctness.                                                              *)

\* One loop streams a session, however many watch it, and none is left of a
\* server that was told to stop: what is past its first step was wanted.
StreamsAreWanted ==
  /\ \A k, l \in loops : k.srv = l.srv /\ k.name = l.name => k = l
  /\ \A l \in loops : Running(l.srv)

\* v has been greeted, and neither it nor its session has been closed since.
Joined(v) ==
  /\ v \in Present /\ viewer[v].at \in {"reading", "input"}
  /\ ~viewer[v].shut /\ ~viewer[v].lost

\* Whoever has joined is on the list of its session and, as long as the server
\* runs, a loop streams it: none ended because another viewer left, failed or was
\* greeted, or the server stopped another time.
JoinedAreStreamed ==
  \A v \in Viewers : Joined(v) =>
    LET s == viewer[v].srv
        n == viewer[v].name IN
    /\ n \in up /\ v \in Clients(s, n)
    /\ Running(s) => LoopsOf(s, n) # {}

\* The loops are those that viewers need: one each, no more and no less.
LoopsFollowViewers == StreamsAreWanted /\ JoinedAreStreamed

\* v watches a session that has not been closed since it connected, is not
\* parked, and has no other viewer that reads no more.
Watches(v) ==
  /\ v \in Present /\ viewer[v].at = "reading" /\ viewer[v].listed
  /\ ~viewer[v].shut /\ ~viewer[v].lost /\ viewer[v].name \notin parked
  /\ Running(viewer[v].srv)
  /\ \A w \in Clients(viewer[v].srv, viewer[v].name) : ~viewer[w].stalled /\ ~viewer[w].shut

FrameTo(v) == \E l \in loops : l.cur = v /\ Sent(l)

\* Who watches goes on seeing frames, whoever else joins or leaves.
FramesKeepComing == \A v \in Viewers : <>[]Watches(v) => []<><<FrameTo(v)>>_vars

\* A takeover input holds the lock of a parked session: it does not thaw it, and
\* the verbs that would are queued behind it.
Wedged(e) == \E v \in Viewers : Holds(v, e) /\ Stopped(e)

\* No page that is not parked leaves a verb or an input without an answer for ever.
\* The code does not see to that: a page whose main thread is wedged holds
\* entry.lock for the daemon's life (handlers_extra.py:1857-1858).
PagesAnswer ==
  /\ \A q \in Requests : []<>~(AtPage(q) /\ ~Stopped(req[q].entry))
  /\ \A v \in Viewers : []<>~(\E e \in Entries : Holds(v, e) /\ ~Stopped(e))

\* While pages answer, every verb is answered, behind any number of takeover inputs
\* and whoever starts, stops and parks meanwhile, as long as no input hits a parked
\* session: the lock is passed on, and a verb thaws the page it needs.
VerbsAnswered ==
  PagesAnswer =>
    \A q \in Requests : req[q] # Idle ~> (req[q] = Idle \/ Wedged(req[q].entry))

==============================================================================
