---------------------------- MODULE LiveView_proofs ----------------------------
(* Proofs about LiveView, for any sessions, viewers, clients and servers: one  *)
(* loop streams a session, and only a server that runs has loops.  A step      *)
(* either serves a request, or changes the loops of one session, or neither;   *)
(* each lemma <Step>Keeps says that it keeps the inductive invariant.          *)
EXTENDS LiveView, TLAPS

Typed ==
  /\ SessionsTyped /\ ServersTyped
  /\ viewer \in [Viewers -> {Out} \cup Connection]
  /\ loops \subseteq Loop
  /\ req \in [Requests -> {Idle} \cup Call]

\* The server of the daemon has come up, a server that is starting has one
\* client, and one that was told to stop does not run until it is forgotten.
SitesHeld ==
  /\ server # NoServer => site[server] \in {"up", "closing", "broken"}
  /\ \A q \in Requests : req[q].at = "starting" =>
       /\ req[q].srv \in Servers /\ site[req[q].srv] = "starting"
       /\ \A p \in Requests \ {q} : req[p] # Idle => req[p].srv # req[q].srv
  /\ \A q \in Requests : req[q].at = "closing" =>
       req[q].srv \in Servers /\ site[req[q].srv] \in {"closing", "broken", "off"}

IndInv == Typed /\ SitesHeld /\ StreamsAreWanted

\* Initially there is no server, no viewer and no loop.
LEMMA InitInv == Init => IndInv
BY SetsSound
   DEF Init, IndInv, Typed, SessionsTyped, ServersTyped, SitesHeld, StreamsAreWanted, Idle, Out,
       NoServer, Running

------------------------------------------------------------------------------
(* Sessions and connections.                                                   *)

\* The entry of a session is one.
LEMMA EntryTyped ==
  ASSUME SessionsTyped, NEW n \in Names
  PROVE  Entry(n) \in Entries
BY DEF SessionsTyped, Entry, Entries

\* A connection that is there has all its fields.
LEMMA PresentTyped ==
  ASSUME Typed, NEW v \in Present
  PROVE  v \in Viewers /\ viewer[v] \in Connection
BY DEF Typed, Present, Out

\* A close marks the frames under way of the session, and keeps their loops.
LEMMA SessionClosesKeeps ==
  ASSUME IndInv, NEW n \in Names, SessionCloses(n)
  PROVE  IndInv'
<1>1. loops' \subseteq Loop
  BY DEF IndInv, Typed, SessionCloses, Loop
<1>2. \A k \in loops' : \E l \in loops : k.srv = l.srv /\ k.name = l.name
                          /\ k = IF l.name = n THEN [l EXCEPT !.live = FALSE] ELSE l
  BY DEF IndInv, Typed, SessionCloses, Loop
<1>3. StreamsAreWanted'
  <2>1. UNCHANGED <<server, site, keys, req>>
    BY DEF SessionCloses, servers
  <2>2. ASSUME NEW k \in loops', NEW l \in loops', k.srv = l.srv, k.name = l.name
        PROVE  k = l
    <3>1. PICK k0 \in loops : k0.srv = k.srv /\ k0.name = k.name
                             /\ k = IF k0.name = n THEN [k0 EXCEPT !.live = FALSE] ELSE k0
      BY <1>2
    <3>2. PICK l0 \in loops : l0.srv = l.srv /\ l0.name = l.name
                             /\ l = IF l0.name = n THEN [l0 EXCEPT !.live = FALSE] ELSE l0
      BY <1>2
    <3>3. k0 = l0
      BY <2>2, <3>1, <3>2 DEF IndInv, StreamsAreWanted
    <3>4. QED  BY <3>1, <3>2, <3>3
  <2>3. \A l \in loops' : Running(l.srv)'
    BY <1>2, <2>1 DEF IndInv, StreamsAreWanted, Running
  <2>4. QED  BY <2>2, <2>3 DEF StreamsAreWanted
<1>4. viewer' \in [Viewers -> {Out} \cup Connection]
  <2>1. viewer' = [v \in Viewers |->
                    IF v \in Present /\ viewer[v].name = n /\ ~viewer[v].shut
                    THEN [viewer[v] EXCEPT !.lost = TRUE] ELSE viewer[v]]
    BY DEF SessionCloses
  <2>2. ASSUME NEW v \in Present
        PROVE  [viewer[v] EXCEPT !.lost = TRUE] \in Connection
    <3>1. viewer[v] \in Connection
      BY PresentTyped DEF IndInv
    <3>2. QED  BY <3>1 DEF Connection
  <2>3. \A v \in Viewers : viewer[v] \in {Out} \cup Connection
    BY DEF IndInv, Typed
  <2>4. QED  BY <2>1, <2>2, <2>3
<1>5. QED
  BY <1>1, <1>3, <1>4
     DEF IndInv, Typed, SessionsTyped, ServersTyped, SitesHeld, SessionCloses, servers

\* The other steps of sessions, and what connections do with no loop involved.
LEMMA QuietKeeps ==
  ASSUME IndInv,
         \/ \E n \in Names : SessionStarts(n) \/ Park(n)
         \/ \E v \in Viewers : Input(v) \/ Shut(v) \/ Stall(v) \/ Join(v) \/ JoinFails(v)
                               \/ InputEnds(v)
         \/ \E v \in Viewers, s \in Servers, n \in Names : Connect(v, s, n)
  PROVE  IndInv'
<1>1. UNCHANGED <<server, site, loops, req>>
  BY DEF SessionStarts, Park, Input, Shut, Stall, Join, JoinFails, InputEnds, Connect, servers
<1>2. SessionsTyped'
  BY ZenonT(40), SetsSound
     DEF IndInv, Typed, SessionsTyped, SessionStarts, Park, Input, Shut, Stall, Join, JoinFails,
         InputEnds, Connect, sessions
<1>3. ServersTyped'
  <2>1. ASSUME NEW v \in Viewers, Join(v)  PROVE ServersTyped'
    <3>1. v \in Present  BY <2>1 DEF Join
    <3>2. viewer[v].srv \in Servers /\ viewer[v].name \in Names
      BY <3>1, PresentTyped DEF IndInv, Connection
    <3>3. QED  BY <2>1, <3>2 DEF Join, IndInv, Typed, ServersTyped
  <2>2. CASE UNCHANGED servers
    BY <2>2 DEF IndInv, Typed, ServersTyped, servers
  <2>3. QED
    BY <2>1, <2>2 DEF SessionStarts, Park, Input, Shut, Stall, JoinFails, InputEnds, Connect
<1>4. viewer' \in [Viewers -> {Out} \cup Connection]
  <2>1. viewer \in [Viewers -> {Out} \cup Connection]
    BY DEF IndInv, Typed
  <2>2. ASSUME NEW v \in Viewers,
               \/ viewer' = viewer
               \/ \E c \in {Out} \cup Connection : viewer' = [viewer EXCEPT ![v] = c]
        PROVE  viewer' \in [Viewers -> {Out} \cup Connection]
    BY <2>1, <2>2
  <2>3. ASSUME NEW v \in Viewers, Input(v) \/ Shut(v) \/ Stall(v) \/ Join(v) \/ InputEnds(v)
        PROVE  \E c \in Connection : viewer' = [viewer EXCEPT ![v] = c]
    <3>1. v \in Present  BY <2>3 DEF Input, Shut, Stall, Join, InputEnds
    <3>2. viewer[v] \in Connection  BY <3>1, PresentTyped DEF IndInv
    <3>3. /\ [viewer[v] EXCEPT !.at = "input"] \in Connection
          /\ [viewer[v] EXCEPT !.at = "reading"] \in Connection
          /\ [viewer[v] EXCEPT !.stalled = TRUE] \in Connection
          /\ [viewer[v] EXCEPT !.shut = TRUE, !.stalled = FALSE, !.lost = FALSE] \in Connection
          /\ [viewer[v] EXCEPT !.at = "hello", !.listed = TRUE] \in Connection
      BY <3>2 DEF Connection
    <3>4. QED  BY <2>1, <2>3, <3>3 DEF Input, Shut, Stall, Join, InputEnds
  <2>4. ASSUME NEW v \in Viewers, NEW s \in Servers, NEW n \in Names, Connect(v, s, n)
        PROVE  \E c \in Connection : viewer' = [viewer EXCEPT ![v] = c]
    BY <2>4 DEF Connect, Connection
  <2>5. ASSUME NEW v \in Viewers, JoinFails(v)  PROVE viewer' = [viewer EXCEPT ![v] = Out]
    BY <2>5 DEF JoinFails
  <2>6. ASSUME NEW n \in Names, SessionStarts(n) \/ Park(n)  PROVE viewer' = viewer
    BY <2>6 DEF SessionStarts, Park
  <2>7. QED  BY <2>1, <2>2, <2>3, <2>4, <2>5, <2>6
<1>5. QED
  BY <1>1, <1>2, <1>3, <1>4 DEF IndInv, Typed, SitesHeld, StreamsAreWanted, Running

------------------------------------------------------------------------------
(* Loops.                                                                      *)

\* Adding a loop to a session that has none, where the server runs.
LEMMA GreetedKeeps ==
  ASSUME IndInv, NEW v \in Viewers, Greeted(v)
  PROVE  IndInv'
<1> DEFINE s == viewer[v].srv
           n == viewer[v].name
<1>1. v \in Present /\ viewer[v] \in Connection
  BY PresentTyped DEF Greeted, IndInv
<1>2. s \in Servers /\ n \in Names
  BY <1>1 DEF Connection
<1>3. NewLoop(s, n, 1) \in Loop /\ NewLoop(s, n, 1).srv = s /\ NewLoop(s, n, 1).name = n
  BY <1>2 DEF NewLoop, Loop
<1>4. loops' = loops \/ (/\ LoopsOf(s, n) = {} /\ Running(s)
                         /\ loops' = loops \cup {NewLoop(s, n, 1)})
  BY DEF Greeted
<1>5. UNCHANGED <<up, life, parked, server, site, keys, req>>
  BY DEF Greeted, sessions, servers
<1>6. viewer' \in [Viewers -> {Out} \cup Connection]
  <2>1. [viewer[v] EXCEPT !.at = "reading"] \in Connection
    BY <1>1 DEF Connection
  <2>2. QED  BY <2>1 DEF Greeted, IndInv, Typed
<1>7. StreamsAreWanted'
  <2>1. \A l \in loops : ~(l.srv = s /\ l.name = n) \/ LoopsOf(s, n) # {}
    BY DEF LoopsOf
  <2> HIDE DEF s, n
  <2>2. QED  BY <1>3, <1>4, <1>5, <2>1 DEF IndInv, StreamsAreWanted, Running
<1>8. QED
  <2> HIDE DEF s, n
  <2>1. QED
    BY <1>3, <1>4, <1>5, <1>6, <1>7
       DEF IndInv, Typed, SessionsTyped, ServersTyped, SitesHeld

\* What is left of some loops once v is forgotten.
LEMMA ForgetKeeps ==
  ASSUME NEW v, NEW L \in SUBSET loops, loops \subseteq Loop, StreamsAreWanted
  PROVE  /\ Forget(L, v) \subseteq Loop
         /\ \A k, l \in Forget(L, v) : k.srv = l.srv /\ k.name = l.name => k = l
         /\ \A l \in Forget(L, v) : Running(l.srv)
<1> DEFINE F(l) == [l EXCEPT !.cur = IF @ = v THEN NoViewer ELSE @, !.to = @ \ {v}]
<1>1. \A l \in Loop : F(l) \in Loop /\ F(l).srv = l.srv /\ F(l).name = l.name
  BY DEF Loop
<1>2. Forget(L, v) = {F(l) : l \in L}
  BY DEF Forget
<1> HIDE DEF F
<1>3. QED  BY <1>1, <1>2 DEF StreamsAreWanted

\* Leaving stops some loops and is forgotten by the others.
LEMMA LeaveKeeps ==
  ASSUME IndInv, NEW v \in Viewers, Leave(v)
  PROVE  IndInv'
<1>1. v \in Present /\ viewer[v] \in Connection
  BY PresentTyped DEF Leave, IndInv
<1>2. viewer[v].srv \in Servers /\ viewer[v].name \in Names
  BY <1>1 DEF Connection
<1>3. ServersTyped' /\ viewer' \in [Viewers -> {Out} \cup Connection]
  BY <1>2 DEF Leave, IndInv, Typed, ServersTyped
<1>4. PICK L \in SUBSET loops : loops' = Forget(L, v)
  BY DEF Leave
<1>5. UNCHANGED <<up, life, parked, server, site, req>>
  BY DEF Leave, sessions
<1>6. /\ loops' \subseteq Loop
      /\ \A k, l \in loops' : k.srv = l.srv /\ k.name = l.name => k = l
      /\ \A l \in loops' : Running(l.srv)
  BY <1>4, ForgetKeeps DEF IndInv, Typed
<1>7. QED
  BY <1>3, <1>5, <1>6 DEF IndInv, Typed, SessionsTyped, SitesHeld, StreamsAreWanted, Running

\* A loop that goes on stays the loop of its session.
LEMMA BecomesKeeps ==
  ASSUME IndInv, NEW l \in loops, NEW m \in Loop, m.srv = l.srv, m.name = l.name, Becomes(l, m),
         UNCHANGED <<sessions, servers, req>>,
         viewer' \in [Viewers -> {Out} \cup Connection]
  PROVE  IndInv'
<1>1. loops' = (loops \ {l}) \cup {m}
  BY DEF Becomes
<1>2. StreamsAreWanted'
  BY <1>1 DEF IndInv, StreamsAreWanted, Running, servers
<1>3. QED
  BY <1>1, <1>2 DEF IndInv, Typed, SessionsTyped, ServersTyped, SitesHeld, sessions, servers

\* The connections once a frame went to the next of S are connections.
LEMMA SendNextTyped ==
  ASSUME Typed, NEW l, NEW S, SendNext(l, S)
  PROVE  viewer' \in [Viewers -> {Out} \cup Connection]
<1>1. \A v \in Viewers : viewer[v] \in {Out} \cup Connection
  BY DEF Typed
<1>2. ASSUME NEW v \in Present  PROVE [viewer[v] EXCEPT !.listed = FALSE] \in Connection
  <2>1. viewer[v] \in Connection  BY PresentTyped
  <2>2. QED  BY <2>1 DEF Connection
<1>3. QED  BY <1>1, <1>2 DEF SendNext

\* A loop at any of its steps.
LEMMA LoopStepKeeps ==
  ASSUME IndInv, NEW l \in loops,
         LoopEnds(l) \/ Shoot(l) \/ Shot(l) \/ ShotFails(l) \/ Sent(l) \/ SendFails(l)
  PROVE  IndInv'
<1>1. l \in Loop /\ Typed
  BY DEF IndInv, Typed
<1>2. CASE LoopEnds(l)
  BY <1>2
     DEF LoopEnds, IndInv, Typed, SessionsTyped, ServersTyped, SitesHeld, StreamsAreWanted, Running,
         sessions, servers
<1>3. CASE Shoot(l)
  <2>1. [l EXCEPT !.at = "shot", !.live = TRUE] \in Loop
    BY <1>1 DEF Loop
  <2>2. /\ [l EXCEPT !.at = "shot", !.live = TRUE].srv = l.srv
        /\ [l EXCEPT !.at = "shot", !.live = TRUE].name = l.name
    BY <1>1 DEF Loop
  <2>3. Becomes(l, [l EXCEPT !.at = "shot", !.live = TRUE])
        /\ UNCHANGED <<sessions, servers, viewer, req>>
    BY <1>3 DEF Shoot
  <2>4. QED  BY <1>1, <2>1, <2>2, <2>3, BecomesKeeps DEF Typed
<1>4. CASE ShotFails(l)
  <2>1. [l EXCEPT !.at = "idle", !.live = FALSE] \in Loop
    BY <1>1 DEF Loop
  <2>2. /\ [l EXCEPT !.at = "idle", !.live = FALSE].srv = l.srv
        /\ [l EXCEPT !.at = "idle", !.live = FALSE].name = l.name
    BY <1>1 DEF Loop
  <2>3. Becomes(l, [l EXCEPT !.at = "idle", !.live = FALSE])
        /\ UNCHANGED <<sessions, servers, viewer, req>>
    BY <1>4 DEF ShotFails
  <2>4. QED  BY <1>1, <2>1, <2>2, <2>3, BecomesKeeps DEF Typed
<1>5. ASSUME NEW S \in SUBSET Viewers, SendNext(l, S), UNCHANGED <<sessions, servers, req>>
      PROVE  IndInv'
  <2>1. viewer' \in [Viewers -> {Out} \cup Connection]
    BY <1>1, <1>5, SendNextTyped
  <2>2. PICK m \in Loop : m.srv = l.srv /\ m.name = l.name /\ Becomes(l, m)
    <3>1. [l EXCEPT !.at = "idle", !.live = FALSE, !.cur = NoViewer, !.to = {}] \in Loop
      BY <1>1 DEF Loop
    <3>2. \A v \in S, T \in SUBSET S :
            [l EXCEPT !.at = "send", !.live = FALSE, !.cur = v, !.to = T] \in Loop
      BY <1>1 DEF Loop
    <3>3. CASE Becomes(l, [l EXCEPT !.at = "idle", !.live = FALSE, !.cur = NoViewer, !.to = {}])
      BY <1>1, <3>1, <3>3 DEF Loop
    <3>4. ASSUME NEW v \in S, NEW T \in SUBSET S,
                 Becomes(l, [l EXCEPT !.at = "send", !.live = FALSE, !.cur = v, !.to = T])
          PROVE  \E m \in Loop : m.srv = l.srv /\ m.name = l.name /\ Becomes(l, m)
      BY <1>1, <3>2, <3>4 DEF Loop
    <3>5. QED  BY ZenonT(40), <1>5, <3>3, <3>4 DEF SendNext
  <2>3. QED  BY <1>5, <2>1, <2>2, BecomesKeeps
<1>6. CASE Shot(l)
  <2>1. Clients(l.srv, l.name) \in SUBSET Viewers
    BY DEF Clients, Present
  <2>2. QED  BY <1>5, <1>6, <2>1 DEF Shot
<1>7. CASE Sent(l) \/ SendFails(l)
  <2>1. l.to \in SUBSET Viewers
    BY <1>1 DEF Loop
  <2>2. QED  BY <1>5, <1>7, <2>1 DEF Sent, SendFails
<1>8. QED  BY <1>2, <1>3, <1>4, <1>6, <1>7

------------------------------------------------------------------------------
(* Requests.                                                                   *)

\* A call that is there has all its fields.
LEMMA CallTyped ==
  ASSUME Typed, NEW q \in Requests, req[q] # Idle
  PROVE  req[q] \in Call
BY DEF Typed

\* Taking the lock thaws, and changes nothing else of the sessions.
LEMMA GrantedTyped ==
  ASSUME Typed, NEW q, Granted(q)
  PROVE  SessionsTyped'
BY DEF Typed, SessionsTyped, Granted

\* Streams stay wanted when none is added and the servers that stop have none.
LEMMA FewerStreams ==
  ASSUME StreamsAreWanted, loops' \subseteq loops,
         \A l \in loops' : site'[l.srv] = site[l.srv]
  PROVE  StreamsAreWanted'
BY DEF StreamsAreWanted, Running

\* A verb is asked, runs and is answered; a start finds a server, a stop finds none.
LEMMA VerbKeeps ==
  ASSUME IndInv, NEW q \in Requests,
         \/ \E op \in {"verb", "start", "stop"}, n \in Names : Ask(q, op, n)
         \/ Verb(q) \/ VerbEnds(q) \/ StartAgain(q) \/ StopAgain(q)
  PROVE  IndInv'
<1>1. UNCHANGED <<server, site, keys, viewer, loops>>
  BY DEF Ask, Verb, VerbEnds, StartAgain, StopAgain, servers
<1>2. SessionsTyped'
  BY GrantedTyped DEF IndInv, Typed, SessionsTyped, Ask, Verb, VerbEnds, StartAgain, StopAgain, sessions
<1>3. \E c : /\ req' = [req EXCEPT ![q] = c]
             /\ c \in {Idle} \cup Call /\ c.at \notin {"starting", "closing"}
             /\ c = Idle \/ c.srv = NoServer \/ (req[q] # Idle /\ c.srv = req[q].srv)
  <2>1. ASSUME NEW op \in {"verb", "start", "stop"}, NEW n \in Names, Ask(q, op, n)
        PROVE  <1>3!:
    <3> DEFINE c == [at |-> "queued", op |-> op, entry |-> Entry(n),
                     srv |-> NoServer, keys |-> {}, busy |-> FALSE]
    <3>1. Entry(n) \in Entries
      BY EntryTyped DEF IndInv, Typed
    <3>2. c \in Call /\ c.at = "queued" /\ c.srv = NoServer
      BY <3>1 DEF Call
    <3>3. req' = [req EXCEPT ![q] = c]
      BY <2>1 DEF Ask
    <3> HIDE DEF c
    <3>4. QED  BY <3>2, <3>3
  <2>2. CASE Verb(q)
    <3>1. req[q] # Idle
      BY <2>2 DEF Verb, Granted, Idle
    <3>2. req[q] \in Call
      BY <3>1, CallTyped DEF IndInv
    <3>3. /\ [req[q] EXCEPT !.at = "run"] \in Call
          /\ [req[q] EXCEPT !.at = "run"].at = "run"
          /\ [req[q] EXCEPT !.at = "run"].srv = req[q].srv
      BY <3>2 DEF Call
    <3>4. req' = [req EXCEPT ![q] = [req[q] EXCEPT !.at = "run"]]
      BY <2>2 DEF Verb, IndInv, Typed
    <3>5. QED  BY <3>1, <3>3, <3>4
  <2>3. CASE VerbEnds(q) \/ StartAgain(q) \/ StopAgain(q)
    <3>1. req' = [req EXCEPT ![q] = Idle] /\ Idle.at = "idle"
      BY <2>3 DEF VerbEnds, StartAgain, StopAgain, Answered, Idle
    <3>2. QED  BY <3>1
  <2>4. QED  BY <2>1, <2>2, <2>3
<1>4. PICK c : /\ req' = [req EXCEPT ![q] = c]
               /\ c \in {Idle} \cup Call /\ c.at \notin {"starting", "closing"}
               /\ c = Idle \/ c.srv = NoServer \/ (req[q] # Idle /\ c.srv = req[q].srv)
  BY <1>3
<1>5. req' \in [Requests -> {Idle} \cup Call]
  BY <1>4 DEF IndInv, Typed
<1>6. SitesHeld'
  <2>1. \A p \in Requests : req'[p] = IF p = q THEN c ELSE req[p]
    BY <1>4 DEF IndInv, Typed
  <2>2. QED  BY <1>1, <1>4, <2>1 DEF IndInv, SitesHeld, Servers, NoServer
<1>7. StreamsAreWanted'
  BY <1>1, FewerStreams DEF IndInv
<1>8. QED  BY <1>1, <1>2, <1>5, <1>6, <1>7 DEF IndInv, Typed, ServersTyped

\* One call of q for another, and the servers that are up stay up: the fields
\* are typed and streams wanted.
LEMMA ServeTyped ==
  ASSUME IndInv, NEW q \in Requests, NEW c \in {Idle} \cup Call, req' = [req EXCEPT ![q] = c],
         SessionsTyped', ServersTyped', viewer' \in [Viewers -> {Out} \cup Connection],
         loops' \subseteq loops, \A l \in loops' : site'[l.srv] = site[l.srv]
  PROVE  /\ Typed' /\ StreamsAreWanted'
         /\ \A p \in Requests : req'[p] = IF p = q THEN c ELSE req[p]
<1>1. StreamsAreWanted'
  BY FewerStreams DEF IndInv
<1>2. QED  BY <1>1 DEF IndInv, Typed

\* A server is made, of its own.
LEMMA StartKeeps ==
  ASSUME IndInv, NEW q \in Requests, Start(q)
  PROVE  IndInv'
<1>1. PICK s \in Servers : /\ Unused(s) /\ site' = [site EXCEPT ![s] = "starting"]
                           /\ req' = [req EXCEPT ![q].at = "starting", ![q].srv = s]
  BY DEF Start
<1>2. req[q] # Idle /\ req[q] \in Call
  BY CallTyped DEF IndInv, Start, Granted, Idle
<1> DEFINE c == [req[q] EXCEPT !.at = "starting", !.srv = s]
<1>3. c \in Call /\ c.at = "starting" /\ c.srv = s /\ req' = [req EXCEPT ![q] = c]
  BY <1>1, <1>2 DEF Call, IndInv, Typed
<1>4. SessionsTyped'
  BY GrantedTyped DEF Start, IndInv
<1>5. ServersTyped' /\ UNCHANGED <<server, viewer, loops>>
  BY <1>1 DEF Start, IndInv, Typed, ServersTyped
<1>6. \A l \in loops : l.srv \in Servers /\ site[l.srv] = "up"
  BY DEF IndInv, Typed, Loop, StreamsAreWanted, Running
<1>7. site[s] = "off" /\ \A p \in Requests : req[p] # Idle => req[p].srv # s
  BY <1>1 DEF Unused
<1> HIDE DEF c
<1>8. \A t \in Servers : site'[t] = IF t = s THEN "starting" ELSE site[t]
  BY <1>1 DEF IndInv, Typed, ServersTyped
<1>9. /\ Typed' /\ StreamsAreWanted'
      /\ \A p \in Requests : req'[p] = IF p = q THEN c ELSE req[p]
  <2>1. viewer' \in [Viewers -> {Out} \cup Connection]
    BY <1>5 DEF IndInv, Typed
  <2>2. loops' \subseteq loops /\ \A l \in loops' : site'[l.srv] = site[l.srv]
    BY <1>5, <1>6, <1>7, <1>8
  <2>3. QED  BY ZenonT(40), <1>3, <1>4, <1>5, <2>1, <2>2, ServeTyped
<1>10. SitesHeld'
  <2>1. server' # NoServer => site'[server'] \in {"up", "closing", "broken"}
    BY <1>5, <1>7, <1>8 DEF IndInv, Typed, ServersTyped, SitesHeld
  <2>2. ASSUME NEW p \in Requests, req'[p].at = "starting"
        PROVE  /\ req'[p].srv \in Servers /\ site'[req'[p].srv] = "starting"
               /\ \A r \in Requests \ {p} : req'[r] # Idle => req'[r].srv # req'[p].srv
    <3>1. CASE p = q
      BY <1>3, <1>7, <1>8, <1>9, <3>1
    <3>2. CASE p # q
      <4>1. req[p].at = "starting" /\ req[p] # Idle
        BY <1>9, <2>2, <3>2 DEF Idle
      <4>2. req[p].srv # s
        BY <1>7, <4>1
      <4>3. QED  BY <1>2, <1>3, <1>8, <1>9, <3>2, <4>1, <4>2 DEF IndInv, SitesHeld
    <3>3. QED  BY <3>1, <3>2
  <2>3. ASSUME NEW p \in Requests, req'[p].at = "closing"
        PROVE  req'[p].srv \in Servers /\ site'[req'[p].srv] \in {"closing", "broken", "off"}
    <3>1. p # q /\ req[p].at = "closing" /\ req[p] # Idle
      BY <1>3, <1>9, <2>3 DEF Idle
    <3>2. req[p].srv # s
      BY <1>7, <3>1
    <3>3. QED  BY <1>8, <1>9, <3>1, <3>2 DEF IndInv, SitesHeld
  <2>4. QED  BY <2>1, <2>2, <2>3 DEF SitesHeld
<1>11. QED  BY <1>9, <1>10 DEF IndInv

\* The server comes up, or does not: the call is answered.
LEMMA StartedKeeps ==
  ASSUME IndInv, NEW q \in Requests, StartFails(q) \/ StartEnds(q)
  PROVE  IndInv'
<1>1. /\ req' = [req EXCEPT ![q] = Idle] /\ UNCHANGED <<keys, viewer, loops>>
      /\ Idle.at = "idle"
  BY DEF StartFails, StartEnds, Answered, Idle
<1>2. SessionsTyped'
  BY GrantedTyped DEF StartFails, StartEnds, IndInv, Typed, SessionsTyped, sessions
<1>3. PICK t : \/ site' = site /\ server' = server
               \/ /\ req[q].at = "starting" /\ req[q].srv = t
                  /\ \/ site' = [site EXCEPT ![t] = "off"] /\ server' = server
                     \/ site' = [site EXCEPT ![t] = "up"] /\ server' = t
  BY DEF StartFails, StartEnds
<1>4. req[q].at = "starting" /\ req[q].srv = t => t \in Servers /\ site[t] = "starting"
  BY DEF IndInv, SitesHeld
<1>5. /\ \A x \in Servers : \/ site'[x] = site[x]
                            \/ site[x] = "starting" /\ req[q].at = "starting" /\ x = req[q].srv
      /\ ServersTyped' /\ (server' # NoServer => site'[server'] \in {"up", "closing", "broken"})
  BY <1>1, <1>3, <1>4 DEF IndInv, Typed, ServersTyped, SitesHeld, NoServer
<1>6. /\ Typed' /\ StreamsAreWanted'
      /\ \A p \in Requests : req'[p] = IF p = q THEN Idle ELSE req[p]
  <2>1. viewer' \in [Viewers -> {Out} \cup Connection]
    BY <1>1 DEF IndInv, Typed
  <2>2. \A l \in loops : l.srv \in Servers /\ site[l.srv] = "up"
    BY DEF IndInv, Typed, Loop, StreamsAreWanted, Running
  <2>3. loops' \subseteq loops /\ \A l \in loops' : site'[l.srv] = site[l.srv]
    BY <1>1, <1>5, <2>2
  <2>4. ServersTyped' /\ Idle \in {Idle} \cup Call /\ req' = [req EXCEPT ![q] = Idle]
    BY <1>1, <1>5
  <2>5. QED  BY <1>2, <2>1, <2>3, <2>4, ServeTyped
<1>7. ASSUME NEW p \in Requests, req'[p].at = "starting"
      PROVE  /\ req'[p].srv \in Servers /\ site'[req'[p].srv] = "starting"
             /\ \A r \in Requests \ {p} : req'[r] # Idle => req'[r].srv # req'[p].srv
  <2>1. p # q /\ req'[p] = req[p] /\ req[p].at = "starting" /\ req[p] # Idle
    BY <1>1, <1>6, <1>7
  <2>2. /\ req[p].srv \in Servers /\ site[req[p].srv] = "starting"
        /\ \A r \in Requests \ {p} : req[r] # Idle => req[r].srv # req[p].srv
    BY <2>1 DEF IndInv, SitesHeld
  <2>3. req[q].at = "starting" => req[q].srv # req[p].srv
    BY <1>1, <2>1, <2>2
  <2>4. QED  BY <1>5, <1>6, <2>1, <2>2, <2>3
<1>8. ASSUME NEW p \in Requests, req'[p].at = "closing"
      PROVE  req'[p].srv \in Servers /\ site'[req'[p].srv] \in {"closing", "broken", "off"}
  <2>1. req'[p] = req[p] /\ req[p].at = "closing"
    BY <1>1, <1>6, <1>8
  <2>2. QED  BY <1>5, <2>1 DEF IndInv, SitesHeld
<1>9. QED  BY <1>5, <1>6, <1>7, <1>8 DEF IndInv, SitesHeld

\* The server stops: what it was doing, and its loops, end.
LEMMA StopKeeps ==
  ASSUME IndInv, NEW q \in Requests, Stop(q)
  PROVE  IndInv'
<1> DEFINE busy == \E n \in Names : Clients(server, n) # {}
           c == [req[q] EXCEPT !.at = "closing", !.srv = server, !.keys = keys[server],
                               !.busy = busy]
<1>1. /\ server \in Servers /\ site[server] \in {"up", "closing", "broken"}
  BY DEF Stop, IndInv, Typed, ServersTyped, SitesHeld
<1>2. req[q] # Idle /\ req[q] \in Call
  BY CallTyped DEF IndInv, Stop, Granted, Idle
<1>3. req' = [req EXCEPT ![q] = c]
  BY DEF Stop, IndInv, Typed
<1>4. busy \in BOOLEAN
  OBVIOUS
<1> HIDE DEF busy
<1>5. keys[server] \in SUBSET Names
  BY <1>1 DEF IndInv, Typed, ServersTyped
<1>6. c \in Call /\ c.at = "closing" /\ c.srv = server
  BY <1>1, <1>2, <1>4, <1>5 DEF Call
<1> HIDE DEF c
<1>7. /\ site' = [site EXCEPT ![server] = "closing"]
      /\ loops' = {l \in loops : l.srv # server}
      /\ UNCHANGED <<server, keys, viewer>>
  BY <1>1 DEF Stop
<1>8. SessionsTyped' /\ ServersTyped'
  BY <1>7, GrantedTyped DEF Stop, IndInv, Typed, ServersTyped
<1>9. \A t \in Servers : site'[t] = IF t = server THEN "closing" ELSE site[t]
  BY <1>7 DEF IndInv, Typed, ServersTyped
<1>10. /\ Typed' /\ StreamsAreWanted'
       /\ \A p \in Requests : req'[p] = IF p = q THEN c ELSE req[p]
  <2>1. viewer' \in [Viewers -> {Out} \cup Connection]
    BY <1>7 DEF IndInv, Typed
  <2>2. loops' \subseteq loops /\ \A l \in loops' : site'[l.srv] = site[l.srv]
    BY <1>7, <1>9 DEF IndInv, Typed, Loop
  <2>3. c \in {Idle} \cup Call
    BY <1>6
  <2>4. QED  BY <1>3, <1>8, <2>1, <2>2, <2>3, ServeTyped
<1>11. ASSUME NEW p \in Requests, req'[p].at = "starting"
       PROVE  /\ req'[p].srv \in Servers /\ site'[req'[p].srv] = "starting"
              /\ \A r \in Requests \ {p} : req'[r] # Idle => req'[r].srv # req'[p].srv
  <2>1. p # q /\ req'[p] = req[p]
    BY <1>6, <1>10, <1>11
  <2>2. /\ req[p].srv \in Servers /\ site[req[p].srv] = "starting"
        /\ \A r \in Requests \ {p} : req[r] # Idle => req[r].srv # req[p].srv
    BY <1>11, <2>1 DEF IndInv, SitesHeld
  <2>3. req[p].srv # server
    BY <1>1, <2>2
  <2>4. QED  BY <1>6, <1>9, <1>10, <2>1, <2>2, <2>3
<1>12. ASSUME NEW p \in Requests, req'[p].at = "closing"
       PROVE  req'[p].srv \in Servers /\ site'[req'[p].srv] \in {"closing", "broken", "off"}
  <2>1. CASE p = q
    BY <1>1, <1>6, <1>9, <1>10, <2>1
  <2>2. CASE p # q
    <3>1. req[p].srv \in Servers /\ site[req[p].srv] \in {"closing", "broken", "off"}
      BY <1>10, <1>12, <2>2 DEF IndInv, SitesHeld
    <3>2. QED  BY <1>9, <1>10, <2>2, <3>1
  <2>3. QED  BY <2>1, <2>2
<1>13. QED  BY <1>1, <1>7, <1>9, <1>10, <1>11, <1>12 DEF IndInv, SitesHeld

\* The stop ends, or breaks on the table that grew: the call is answered.
LEMMA StoppedKeeps ==
  ASSUME IndInv, NEW q \in Requests, StopBreaks(q) \/ StopEnds(q)
  PROVE  IndInv'
<1> DEFINE s == req[q].srv
<1>1. s \in Servers /\ site[s] \in {"closing", "broken", "off"}
  BY DEF StopBreaks, StopEnds, IndInv, SitesHeld
<1>2. /\ req' = [req EXCEPT ![q] = Idle] /\ loops' = loops /\ Idle.at = "idle"
      /\ UNCHANGED <<up, life, parked>>
  BY DEF StopBreaks, StopEnds, Answered, Idle, sessions
<1>3. /\ \A t \in Servers \ {s} : site'[t] = site[t]
      /\ site'[s] \in {"broken", "off"} /\ (site'[s] = "off" => server' = NoServer \/ site[s] = "off")
      /\ server' \in {server, NoServer}
      /\ ServersTyped'
  <2>1. CASE StopBreaks(q)
    BY <1>1, <2>1 DEF StopBreaks, IndInv, Typed, ServersTyped
  <2>2. CASE StopEnds(q)
    BY <1>1, <2>2 DEF StopEnds, IndInv, Typed, ServersTyped
  <2>3. QED  BY <2>1, <2>2
<1>4. viewer' \in [Viewers -> {Out} \cup Connection]
  <2>1. \A v \in Viewers : viewer[v] \in {Out} \cup Connection
    BY DEF IndInv, Typed
  <2>2. \A v \in Present :
          [viewer[v] EXCEPT !.shut = TRUE, !.stalled = FALSE, !.lost = FALSE] \in Connection
    <3>1. \A v \in Present : viewer[v] \in Connection
      BY PresentTyped DEF IndInv
    <3>2. QED  BY <3>1 DEF Connection
  <2>3. CASE StopBreaks(q)
    <3>1. PICK S \in SUBSET Present :
            viewer' = [v \in Viewers |->
              IF v \in S THEN [viewer[v] EXCEPT !.shut = TRUE, !.stalled = FALSE, !.lost = FALSE]
              ELSE viewer[v]]
      BY <2>3 DEF StopBreaks
    <3>2. QED  BY <2>1, <2>2, <3>1
  <2>4. CASE StopEnds(q)
    BY <2>1, <2>4 DEF StopEnds
  <2>5. QED  BY <2>3, <2>4
<1> HIDE DEF s
<1>5. /\ Typed' /\ StreamsAreWanted'
      /\ \A p \in Requests : req'[p] = IF p = q THEN Idle ELSE req[p]
  <2>1. SessionsTyped'
    BY <1>2 DEF IndInv, Typed, SessionsTyped
  <2>2. \A l \in loops : l.srv \in Servers /\ site[l.srv] = "up"
    BY DEF IndInv, Typed, Loop, StreamsAreWanted, Running
  <2>3. loops' \subseteq loops /\ \A l \in loops' : site'[l.srv] = site[l.srv]
    BY <1>1, <1>2, <1>3, <2>2
  <2>4. QED  BY <1>2, <1>3, <1>4, <2>1, <2>3, ServeTyped
<1>6. ASSUME NEW p \in Requests, req'[p].at = "starting"
      PROVE  /\ req'[p].srv \in Servers /\ site'[req'[p].srv] = "starting"
             /\ \A r \in Requests \ {p} : req'[r] # Idle => req'[r].srv # req'[p].srv
  <2>1. p # q /\ req'[p] = req[p]
    BY <1>2, <1>5, <1>6
  <2>2. /\ req[p].srv \in Servers /\ site[req[p].srv] = "starting"
        /\ \A r \in Requests \ {p} : req[r] # Idle => req[r].srv # req[p].srv
    BY <1>6, <2>1 DEF IndInv, SitesHeld
  <2>3. req[p].srv # s
    BY <1>1, <2>2
  <2>4. QED  BY <1>2, <1>3, <1>5, <2>1, <2>2, <2>3
<1>7. ASSUME NEW p \in Requests, req'[p].at = "closing"
      PROVE  req'[p].srv \in Servers /\ site'[req'[p].srv] \in {"closing", "broken", "off"}
  <2>1. req'[p] = req[p] /\ req[p].at = "closing"
    BY <1>2, <1>5, <1>7
  <2>2. req[p].srv \in Servers /\ site[req[p].srv] \in {"closing", "broken", "off"}
    BY <2>1 DEF IndInv, SitesHeld
  <2>3. QED  BY <1>3, <2>1, <2>2
<1>8. server' # NoServer => site'[server'] \in {"up", "closing", "broken"}
  BY <1>1, <1>3 DEF IndInv, SitesHeld, Typed, ServersTyped
<1>9. QED  BY <1>5, <1>6, <1>7, <1>8 DEF IndInv, SitesHeld

------------------------------------------------------------------------------
(* Viewers: who has joined is streamed.                                        *)

\* What holds of a connection: its server has not been forgotten; its session is
\* up unless it was told otherwise; it is on the list from its hello on until it
\* is closed; and from then on a loop streams its session.
Seated(v) ==
  LET s == viewer[v].srv
      n == viewer[v].name IN
  v \in Present =>
    /\ site[s] \in {"up", "closing", "broken"}
    /\ ~viewer[v].shut /\ ~viewer[v].lost => n \in up
    /\ viewer[v].at # "joining" /\ ~viewer[v].shut => viewer[v].listed
    /\ Joined(v) /\ Running(s) => LoopsOf(s, n) # {}

AllSeated == \A v \in Viewers : Seated(v)

\* A connection that goes on with its session, its list and its loop.
GoesOn(v) ==
  LET s == viewer[v].srv
      n == viewer[v].name IN
  /\ v \in Present /\ viewer'[v].srv = s /\ viewer'[v].name = n
  /\ site'[s] = site[s]
  /\ ~viewer'[v].shut => /\ ~viewer[v].shut
                         /\ viewer'[v].at # "joining" => viewer'[v].listed
  /\ ~viewer'[v].shut /\ ~viewer'[v].lost => ~viewer[v].lost /\ (n \in up => n \in up')
  /\ viewer'[v].at \in {"reading", "input"} => viewer[v].at \in {"reading", "input"}
  /\ Joined(v)' /\ Running(s) /\ LoopsOf(s, n) # {} => LoopsOf(s, n)' # {}

LEMMA GoesOnSeated ==
  ASSUME NEW v \in Viewers, Seated(v), GoesOn(v)
  PROVE  Seated(v)'
<1>1. Joined(v)' => Joined(v)
  BY DEF Joined, GoesOn
<1>2. QED  BY <1>1 DEF GoesOn, Seated, Running

\* A connection that is as it was, on servers and loops as they were.
LEMMA SameSeated ==
  ASSUME AllSeated, NEW v \in Viewers, viewer'[v] = viewer[v],
         v \in Present => site'[viewer[v].srv] = site[viewer[v].srv],
         up \subseteq up', loops' = loops
  PROVE  Seated(v)'
<1>1. CASE v \notin Present
  BY <1>1 DEF Seated, Present
<1>2. CASE v \in Present
  <2>1. Seated(v)
    BY DEF AllSeated
  <2>2. LoopsOf(viewer[v].srv, viewer[v].name)' = LoopsOf(viewer'[v].srv, viewer'[v].name)
    BY DEF LoopsOf
  <2>3. v \in Present' /\ (Joined(v)' <=> Joined(v))
    BY <1>2 DEF Present, Joined
  <2>4. QED  BY <1>2, <2>1, <2>2, <2>3 DEF Seated, Running
<1>3. QED  BY <1>1, <1>2

\* What starts a session or parks one, and the requests but for the stops: no
\* server that somebody is connected to changes.
LEMMA SitesSeated ==
  ASSUME IndInv, AllSeated,
         \/ \E n \in Names : SessionStarts(n) \/ Park(n)
         \/ \E q \in Requests :
              \/ \E op \in {"verb", "start", "stop"}, n \in Names : Ask(q, op, n)
              \/ Verb(q) \/ VerbEnds(q) \/ StartAgain(q) \/ StopAgain(q)
              \/ Start(q) \/ StartFails(q) \/ StartEnds(q)
  PROVE  AllSeated'
<1>1. UNCHANGED <<viewer, loops>>
  BY DEF SessionStarts, Park, Ask, Verb, VerbEnds, StartAgain, StopAgain, Start, StartFails, StartEnds
<1>2. up \subseteq up'
  BY DEF SessionStarts, Park, Ask, Verb, VerbEnds, StartAgain, StopAgain, Start, StartFails,
         StartEnds, Granted, sessions
<1>3. ASSUME NEW s \in Servers, site[s] \in {"up", "closing", "broken"}
      PROVE  site'[s] = site[s]
  <2>1. CASE UNCHANGED site
    BY <2>1
  <2>2. ASSUME NEW q \in Requests, Start(q)  PROVE site'[s] = site[s]
    BY <1>3, <2>2 DEF Start, Unused, IndInv, Typed, ServersTyped
  <2>3. ASSUME NEW q \in Requests, StartFails(q) \/ StartEnds(q)  PROVE site'[s] = site[s]
    <3>1. req[q].at = "starting" => site[req[q].srv] = "starting"
      BY DEF IndInv, SitesHeld
    <3>2. QED  BY <1>3, <2>3, <3>1 DEF StartFails, StartEnds, IndInv, Typed, ServersTyped
  <2>4. QED
    BY <2>1, <2>2, <2>3
       DEF SessionStarts, Park, Ask, Verb, VerbEnds, StartAgain, StopAgain, servers
<1>4. ASSUME NEW v \in Viewers  PROVE Seated(v)'
  <2>1. v \in Present => viewer[v].srv \in Servers
    BY PresentTyped DEF IndInv, Connection
  <2>2. v \in Present => site'[viewer[v].srv] = site[viewer[v].srv]
    BY <1>3, <2>1 DEF AllSeated, Seated
  <2>3. QED  BY <1>1, <1>2, <2>2, SameSeated
<1>5. QED  BY <1>4 DEF AllSeated

\* A close tells the connections that it concerns.
LEMMA SessionClosesSeated ==
  ASSUME IndInv, AllSeated, NEW n \in Names, SessionCloses(n)
  PROVE  AllSeated'
<1> SUFFICES ASSUME NEW v \in Viewers, v \in Present'  PROVE Seated(v)'
  BY DEF AllSeated, Seated
<1>1. UNCHANGED site /\ up' = up \ {n}
  BY DEF SessionCloses, servers
<1>2. viewer'[v] = IF v \in Present /\ viewer[v].name = n /\ ~viewer[v].shut
                   THEN [viewer[v] EXCEPT !.lost = TRUE] ELSE viewer[v]
  BY DEF SessionCloses
<1>3. v \in Present
  BY <1>2 DEF Present
<1>4. viewer[v] \in Connection
  BY <1>3, PresentTyped DEF IndInv
<1>5. \A s, m : LoopsOf(s, m) # {} => LoopsOf(s, m)' # {}
  <2>1. ASSUME NEW l \in loops
        PROVE  \E k \in loops' : k.srv = l.srv /\ k.name = l.name
    <3>1. (IF l.name = n THEN [l EXCEPT !.live = FALSE] ELSE l) \in loops'
      BY DEF SessionCloses
    <3>2. l \in Loop
      BY DEF IndInv, Typed
    <3>3. QED  BY <3>1, <3>2 DEF Loop
  <2>2. QED  BY <2>1 DEF LoopsOf
<1>6. GoesOn(v)
  <2>1. /\ viewer'[v].srv = viewer[v].srv /\ viewer'[v].name = viewer[v].name
        /\ viewer'[v].at = viewer[v].at /\ viewer'[v].shut = viewer[v].shut
        /\ viewer'[v].listed = viewer[v].listed /\ (~viewer'[v].lost => ~viewer[v].lost)
        /\ ~viewer'[v].shut /\ ~viewer'[v].lost => viewer[v].name # n
    BY <1>2, <1>3, <1>4 DEF Connection
  <2>2. LoopsOf(viewer'[v].srv, viewer'[v].name) # {} => LoopsOf(viewer[v].srv, viewer[v].name)' # {}
    BY <1>5
  <2>3. viewer[v].at # "joining" /\ ~viewer[v].shut => viewer[v].listed
    BY <1>3 DEF AllSeated, Seated
  <2>4. QED  BY <1>1, <1>3, <2>1, <2>2, <2>3 DEF GoesOn
<1>7. QED  BY <1>6, GoesOnSeated DEF AllSeated

\* One connection comes, goes or does something, and no loop is concerned.
LEMMA ViewerSeated ==
  ASSUME IndInv, AllSeated, NEW v \in Viewers,
         \/ Join(v) \/ JoinFails(v) \/ Input(v) \/ InputEnds(v) \/ Shut(v) \/ Stall(v)
         \/ \E s \in Servers, n \in Names : Connect(v, s, n)
  PROVE  AllSeated'
<1>1. UNCHANGED <<up, site, loops>>
  BY DEF Join, JoinFails, Input, InputEnds, Shut, Stall, Connect, sessions, servers
<1>2. \A w \in Viewers \ {v} : viewer'[w] = viewer[w]
  BY DEF Join, JoinFails, Input, InputEnds, Shut, Stall, Connect, IndInv, Typed
<1>3. Seated(v)'
  <2>1. CASE JoinFails(v)
    BY <2>1 DEF JoinFails, Seated, Present, IndInv, Typed, Out
  <2>2. ASSUME NEW s \in Servers, NEW n \in Names, Connect(v, s, n)  PROVE Seated(v)'
    <3>1. viewer'[v] = [at |-> "joining", srv |-> s, name |-> n, listed |-> FALSE,
                        shut |-> FALSE, stalled |-> FALSE, lost |-> FALSE]
      BY <2>2 DEF Connect, IndInv, Typed
    <3>2. QED  BY <1>1, <2>2, <3>1 DEF Connect, Seated, Joined
  <2>3. CASE Join(v) \/ Input(v) \/ InputEnds(v) \/ Shut(v) \/ Stall(v)
    <3>1. v \in Present
      BY <2>3 DEF Join, Input, InputEnds, Shut, Stall
    <3>2. viewer[v] \in Connection
      BY <3>1, PresentTyped DEF IndInv
    <3>3. \/ /\ viewer[v].at = "joining"
             /\ viewer'[v] = [viewer[v] EXCEPT !.at = "hello", !.listed = TRUE]
          \/ /\ viewer[v].at \in {"reading", "input"}
             /\ \E at : viewer'[v] = [viewer[v] EXCEPT !.at = at]
          \/ viewer'[v] = [viewer[v] EXCEPT !.shut = TRUE, !.stalled = FALSE, !.lost = FALSE]
          \/ viewer'[v] = [viewer[v] EXCEPT !.stalled = TRUE]
      BY <2>3 DEF Join, Input, InputEnds, Shut, Stall, IndInv, Typed
    <3>4. Seated(v)
      BY DEF AllSeated
    <3>5. \A s, n : LoopsOf(s, n)' = LoopsOf(s, n)
      BY <1>1 DEF LoopsOf
    <3>6. GoesOn(v)
      BY <1>1, <3>1, <3>2, <3>3, <3>4, <3>5 DEF GoesOn, Connection, Seated
    <3>7. QED  BY <3>4, <3>6, GoesOnSeated
  <2>4. QED  BY <2>1, <2>2, <2>3
<1>4. QED  BY <1>1, <1>2, <1>3, SameSeated DEF AllSeated

\* A server is stopped, and nothing is said of loops for its connections any more.
LEMMA StopSeated ==
  ASSUME IndInv, AllSeated, NEW q \in Requests, Stop(q)
  PROVE  AllSeated'
<1>1. server \in Servers /\ site[server] \in {"up", "closing", "broken"}
  BY DEF Stop, IndInv, Typed, ServersTyped, SitesHeld
<1>2. /\ site' = [site EXCEPT ![server] = "closing"]
      /\ loops' = {l \in loops : l.srv # server}
      /\ UNCHANGED <<up, viewer>>
  BY <1>1 DEF Stop, Granted
<1>3. \A t \in Servers : site'[t] = IF t = server THEN "closing" ELSE site[t]
  BY <1>2 DEF IndInv, Typed, ServersTyped
<1>4. ASSUME NEW v \in Viewers, v \in Present'  PROVE Seated(v)'
  <2>1. v \in Present /\ Seated(v)
    BY <1>2, <1>4 DEF Present, AllSeated
  <2>2. viewer[v].srv \in Servers
    BY <2>1, PresentTyped DEF IndInv, Connection
  <2>3. viewer[v].srv # server =>
          LoopsOf(viewer[v].srv, viewer[v].name)' = LoopsOf(viewer[v].srv, viewer[v].name)
    BY <1>2 DEF LoopsOf
  <2>4. Joined(v)' <=> Joined(v)
    BY <1>2 DEF Joined, Present
  <2>5. QED  BY <1>2, <1>3, <2>1, <2>2, <2>3, <2>4 DEF Seated, Running
<1>5. QED  BY <1>4 DEF AllSeated, Seated

\* The stop ends, or breaks: its server did not run, and its connections go or
\* some of them are closed.
LEMMA StoppedSeated ==
  ASSUME IndInv, AllSeated, NEW q \in Requests, StopBreaks(q) \/ StopEnds(q)
  PROVE  AllSeated'
<1> DEFINE s == req[q].srv
<1>1. s \in Servers /\ site[s] \in {"closing", "broken", "off"}
  BY DEF StopBreaks, StopEnds, IndInv, SitesHeld
<1>2. UNCHANGED <<up, loops>>
  BY DEF StopBreaks, StopEnds, sessions
<1>3. ASSUME NEW v \in Viewers, v \in Present'  PROVE Seated(v)'
  <2>1. CASE StopBreaks(q)
    <3>1. PICK S \in SUBSET Present :
            viewer' = [w \in Viewers |->
              IF w \in S THEN [viewer[w] EXCEPT !.shut = TRUE, !.stalled = FALSE, !.lost = FALSE]
              ELSE viewer[w]]
      BY <2>1 DEF StopBreaks
    <3>2. v \in Present /\ Seated(v)
      BY <1>3, <3>1 DEF Present, AllSeated
    <3>3. viewer[v] \in Connection
      BY <3>2, PresentTyped DEF IndInv
    <3>4. \A t \in Servers : /\ t # s => site'[t] = site[t]
                             /\ t = s => site'[t] = IF site[t] = "off" THEN "off" ELSE "broken"
      BY <1>1, <2>1 DEF StopBreaks, IndInv, Typed, ServersTyped
    <3>5. /\ viewer'[v].srv = viewer[v].srv /\ viewer'[v].name = viewer[v].name
          /\ viewer'[v].at = viewer[v].at /\ viewer'[v].listed = viewer[v].listed
          /\ viewer'[v].shut \/ viewer'[v] = viewer[v]
      BY <3>1, <3>3 DEF Connection
    <3>6. LoopsOf(viewer[v].srv, viewer[v].name)' = LoopsOf(viewer[v].srv, viewer[v].name)
      BY <1>2, <3>5 DEF LoopsOf
    <3>7. viewer[v].srv \in Servers
      BY <3>3 DEF Connection
    <3>8. Running(viewer[v].srv)' => Running(viewer[v].srv)
      BY <1>1, <3>4, <3>5, <3>7 DEF Running
    <3> HIDE DEF s
    <3>9. site'[viewer[v].srv] \in {"up", "closing", "broken"}
      BY <3>2, <3>4, <3>7 DEF Seated
    <3>10. QED  BY <1>2, <3>2, <3>5, <3>6, <3>8, <3>9 DEF Seated, Joined
  <2>2. CASE StopEnds(q)
    <3>1. v \in Present /\ viewer'[v] = viewer[v] /\ viewer[v].srv # s
      BY <1>3, <2>2 DEF StopEnds, Present, Out
    <3>2. viewer[v].srv \in Servers
      BY <3>1, PresentTyped DEF IndInv, Connection
    <3>3. site'[viewer[v].srv] = site[viewer[v].srv]
      BY <1>1, <2>2, <3>1, <3>2 DEF StopEnds, IndInv, Typed, ServersTyped
    <3>4. QED  BY <1>2, <3>1, <3>3, SameSeated
  <2>3. QED  BY <2>1, <2>2
<1>4. QED  BY <1>3 DEF AllSeated, Seated

\* Who has been greeted finds a loop or starts one.
LEMMA GreetedSeated ==
  ASSUME IndInv, AllSeated, NEW v \in Viewers, Greeted(v)
  PROVE  AllSeated'
<1>1. v \in Present /\ viewer[v] \in Connection /\ viewer[v].at = "hello" /\ Seated(v)
  BY PresentTyped DEF Greeted, IndInv, AllSeated
<1>2. UNCHANGED <<up, site>> /\ viewer' = [viewer EXCEPT ![v].at = "reading"]
  BY DEF Greeted, sessions, servers
<1>3. loops \subseteq loops'
  BY DEF Greeted
<1>4. Running(viewer[v].srv) =>
        \E l \in loops' : l.srv = viewer[v].srv /\ l.name = viewer[v].name
  <2>1. CASE LoopsOf(viewer[v].srv, viewer[v].name) # {}
    BY <1>3, <2>1 DEF LoopsOf
  <2>2. CASE LoopsOf(viewer[v].srv, viewer[v].name) = {} /\ Running(viewer[v].srv)
    <3>1. NewLoop(viewer[v].srv, viewer[v].name, 1) \in loops'
      BY <2>2 DEF Greeted
    <3>2. /\ NewLoop(viewer[v].srv, viewer[v].name, 1).srv = viewer[v].srv
          /\ NewLoop(viewer[v].srv, viewer[v].name, 1).name = viewer[v].name
      BY DEF NewLoop
    <3>3. QED  BY <3>1, <3>2
  <2>3. QED  BY <2>1, <2>2
<1>5. ASSUME NEW w \in Viewers, w \in Present'  PROVE Seated(w)'
  <2>1. CASE w = v
    <3>1. viewer'[v] = [viewer[v] EXCEPT !.at = "reading"]
      BY <1>2 DEF IndInv, Typed
    <3>2. /\ viewer'[v].srv = viewer[v].srv /\ viewer'[v].name = viewer[v].name
          /\ viewer'[v].at = "reading" /\ viewer'[v].shut = viewer[v].shut
          /\ viewer'[v].listed = viewer[v].listed /\ viewer'[v].lost = viewer[v].lost
      BY <1>1, <3>1 DEF Connection
    <3>3. Running(viewer[v].srv)' => LoopsOf(viewer[v].srv, viewer[v].name)' # {}
      BY <1>2, <1>4, <3>2 DEF Running, LoopsOf
    <3>4. QED  BY <1>1, <1>2, <2>1, <3>2, <3>3 DEF Seated
  <2>2. CASE w # v
    <3>1. viewer'[w] = viewer[w] /\ w \in Present /\ Seated(w)
      BY <1>2, <1>5, <2>2 DEF IndInv, Typed, Present, AllSeated
    <3>2. LoopsOf(viewer[w].srv, viewer[w].name) \subseteq LoopsOf(viewer[w].srv, viewer[w].name)'
      BY <1>3, <3>1 DEF LoopsOf
    <3>3. GoesOn(w)
      BY <1>2, <3>1, <3>2 DEF GoesOn, Seated
    <3>4. QED  BY <3>1, <3>3, GoesOnSeated
  <2>3. QED  BY <2>1, <2>2
<1>6. QED  BY <1>5 DEF AllSeated, Seated

\* Who leaves stops the loop only when nobody else is on the list.
LEMMA LeaveSeated ==
  ASSUME IndInv, AllSeated, NEW v \in Viewers, Leave(v)
  PROVE  AllSeated'
<1>1. UNCHANGED <<up, site>> /\ viewer' = [viewer EXCEPT ![v] = Out]
  BY DEF Leave, sessions
<1>2. \A w \in Viewers : viewer'[w] = IF w = v THEN Out ELSE viewer[w]
  BY <1>1 DEF IndInv, Typed
<1>3. ASSUME NEW w \in Viewers, w \in Present'  PROVE Seated(w)'
  <2>1. w # v /\ viewer'[w] = viewer[w] /\ w \in Present /\ Seated(w)
    BY <1>2, <1>3 DEF Present, Out, AllSeated
  <2>2. ASSUME Joined(w), NEW l \in loops, l.srv = viewer[w].srv, l.name = viewer[w].name
        PROVE  \E k \in loops' : k.srv = l.srv /\ k.name = l.name
    <3>1. w \in Clients(l.srv, l.name)
      BY <2>1, <2>2 DEF Joined, Seated, Clients
    <3>2. l \in IF Clients(viewer[v].srv, viewer[v].name) \subseteq {v}
                THEN loops \ LoopsOf(viewer[v].srv, viewer[v].name) ELSE loops
      BY <2>1, <2>2, <3>1 DEF LoopsOf
    <3>3. [l EXCEPT !.cur = IF @ = v THEN NoViewer ELSE @, !.to = @ \ {v}] \in loops'
      BY <3>2 DEF Leave, Forget
    <3>4. l \in Loop
      BY DEF IndInv, Typed
    <3>5. QED  BY <3>3, <3>4 DEF Loop
  <2>3. LoopsOf(viewer[w].srv, viewer[w].name) # {} /\ Joined(w)
          => LoopsOf(viewer[w].srv, viewer[w].name)' # {}
    BY <2>1, <2>2 DEF LoopsOf
  <2>4. Joined(w)' <=> Joined(w)
    BY <1>3, <2>1 DEF Joined
  <2>5. GoesOn(w)
    BY <1>1, <2>1, <2>3, <2>4 DEF GoesOn, Seated
  <2>6. QED  BY <2>1, <2>5, GoesOnSeated
<1>4. QED  BY <1>3 DEF AllSeated, Seated

\* A loop that goes on is still there; the connections it takes off the list are
\* closed.
LEMMA BecomesSeated ==
  ASSUME IndInv, AllSeated, NEW l \in loops, NEW m \in Loop, m.srv = l.srv, m.name = l.name,
         Becomes(l, m), UNCHANGED <<up, site>>,
         \A v \in Viewers : \/ viewer'[v] = viewer[v]
                            \/ /\ v \in Present /\ viewer[v].shut
                               /\ viewer'[v] = [viewer[v] EXCEPT !.listed = FALSE]
  PROVE  AllSeated'
<1>1. \A k \in loops : \E j \in loops' : j.srv = k.srv /\ j.name = k.name
  BY DEF Becomes
<1>2. ASSUME NEW v \in Viewers, v \in Present'  PROVE Seated(v)'
  <2>1. v \in Present /\ Seated(v)
    BY <1>2 DEF Present, AllSeated
  <2>2. viewer[v] \in Connection
    BY <2>1, PresentTyped DEF IndInv
  <2>3. /\ viewer'[v].srv = viewer[v].srv /\ viewer'[v].name = viewer[v].name
        /\ viewer'[v].at = viewer[v].at /\ viewer'[v].shut = viewer[v].shut
        /\ viewer'[v].lost = viewer[v].lost
        /\ viewer'[v].shut \/ viewer'[v].listed = viewer[v].listed
    BY <2>2 DEF Connection
  <2>4. LoopsOf(viewer[v].srv, viewer[v].name) # {} => LoopsOf(viewer[v].srv, viewer[v].name)' # {}
    BY <1>1, <2>3 DEF LoopsOf
  <2>5. GoesOn(v)
    BY <2>1, <2>3, <2>4 DEF GoesOn, Seated
  <2>6. QED  BY <2>1, <2>5, GoesOnSeated
<1>3. QED  BY <1>2 DEF AllSeated, Seated

\* A loop ends by itself where nobody has joined.
LEMMA LoopEndsSeated ==
  ASSUME IndInv, AllSeated, NEW l \in loops, LoopEnds(l)
  PROVE  AllSeated'
<1>1. UNCHANGED <<up, site, viewer>> /\ loops' = loops \ {l}
  BY DEF LoopEnds, sessions, servers
<1>2. ASSUME NEW v \in Viewers, v \in Present'  PROVE Seated(v)'
  <2>1. v \in Present /\ Seated(v) /\ (Joined(v)' <=> Joined(v))
    BY <1>1, <1>2 DEF Present, AllSeated, Joined
  <2>2. Joined(v) /\ Running(viewer[v].srv) => l.srv # viewer[v].srv \/ l.name # viewer[v].name
    <3>1. Joined(v) => v \in Clients(viewer[v].srv, viewer[v].name) /\ viewer[v].name \in up
      BY <2>1 DEF Joined, Seated, Clients
    <3>2. QED  BY <3>1 DEF LoopEnds
  <2>3. Joined(v) /\ Running(viewer[v].srv) =>
          LoopsOf(viewer[v].srv, viewer[v].name)' = LoopsOf(viewer[v].srv, viewer[v].name)
    BY <1>1, <2>2 DEF LoopsOf
  <2>4. GoesOn(v)
    BY <1>1, <2>1, <2>3 DEF GoesOn, Seated
  <2>5. QED  BY <2>1, <2>4, GoesOnSeated
<1>3. QED  BY <1>2 DEF AllSeated, Seated

\* A loop at any of its steps.
LEMMA LoopStepSeated ==
  ASSUME IndInv, AllSeated, NEW l \in loops,
         LoopEnds(l) \/ Shoot(l) \/ Shot(l) \/ ShotFails(l) \/ Sent(l) \/ SendFails(l)
  PROVE  AllSeated'
<1>1. l \in Loop
  BY DEF IndInv, Typed
<1>2. CASE LoopEnds(l)
  BY <1>2, LoopEndsSeated
<1>3. CASE Shoot(l) \/ ShotFails(l)
  <2>1. PICK m \in {[l EXCEPT !.at = "shot", !.live = TRUE], [l EXCEPT !.at = "idle", !.live = FALSE]} :
          Becomes(l, m)
    BY <1>3 DEF Shoot, ShotFails
  <2>2. m \in Loop /\ m.srv = l.srv /\ m.name = l.name
    BY <1>1, <2>1 DEF Loop
  <2>3. UNCHANGED <<up, site, viewer>>
    BY <1>3 DEF Shoot, ShotFails, sessions, servers
  <2>4. QED  BY <2>1, <2>2, <2>3, BecomesSeated
<1>4. ASSUME NEW S \in SUBSET Viewers, SendNext(l, S), UNCHANGED <<up, site>>
      PROVE  AllSeated'
  <2>1. \A v \in Viewers : \/ viewer'[v] = viewer[v]
                           \/ /\ v \in Present /\ viewer[v].shut
                              /\ viewer'[v] = [viewer[v] EXCEPT !.listed = FALSE]
    BY <1>4 DEF SendNext
  <2>2. CASE Becomes(l, [l EXCEPT !.at = "idle", !.live = FALSE, !.cur = NoViewer, !.to = {}])
    <3> DEFINE m == [l EXCEPT !.at = "idle", !.live = FALSE, !.cur = NoViewer, !.to = {}]
    <3>1. m \in Loop /\ m.srv = l.srv /\ m.name = l.name
      BY <1>1 DEF Loop
    <3> HIDE DEF m
    <3>2. QED  BY <1>4, <2>1, <2>2, <3>1, BecomesSeated DEF m
  <2>3. ASSUME NEW v \in S, NEW T \in SUBSET S,
               Becomes(l, [l EXCEPT !.at = "send", !.live = FALSE, !.cur = v, !.to = T])
        PROVE  AllSeated'
    <3> DEFINE m == [l EXCEPT !.at = "send", !.live = FALSE, !.cur = v, !.to = T]
    <3>1. m \in Loop /\ m.srv = l.srv /\ m.name = l.name
      BY <1>1 DEF Loop
    <3> HIDE DEF m
    <3>2. QED  BY <1>4, <2>1, <2>3, <3>1, BecomesSeated DEF m
  <2>4. QED  BY ZenonT(40), <1>4, <2>2, <2>3 DEF SendNext
<1>5. CASE Shot(l)
  BY <1>4, <1>5 DEF Shot, Clients, Present, sessions, servers
<1>6. CASE Sent(l) \/ SendFails(l)
  BY <1>1, <1>4, <1>6 DEF Sent, SendFails, Loop, sessions, servers
<1>7. QED  BY <1>2, <1>3, <1>5, <1>6

------------------------------------------------------------------------------

\* Every step keeps the inductive invariant.
LEMMA NextKeeps == IndInv /\ [Next]_vars => IndInv'
<1> SUFFICES ASSUME IndInv, [Next]_vars  PROVE IndInv'
  OBVIOUS
<1>1. CASE Environment
  <2>1. ASSUME NEW n \in Names, SessionCloses(n) \/ SessionStarts(n) \/ Park(n)  PROVE IndInv'
    BY <2>1, SessionClosesKeeps, QuietKeeps
  <2>2. ASSUME NEW q \in Requests, NEW op \in {"verb", "start", "stop"}, NEW n \in Names,
               Ask(q, op, n)
        PROVE  IndInv'
    BY <2>2, VerbKeeps
  <2>3. ASSUME NEW v \in Viewers, Input(v) \/ Shut(v) \/ Stall(v)  PROVE IndInv'
    BY <2>3, QuietKeeps
  <2>4. ASSUME NEW v \in Viewers, NEW s \in Servers, NEW n \in Names, Connect(v, s, n)
        PROVE  IndInv'
    BY <2>4, QuietKeeps
  <2>5. QED  BY <1>1, <2>1, <2>2, <2>3, <2>4, SetsSound DEF Environment
<1>2. ASSUME NEW q \in Requests, RequestStep(q)  PROVE IndInv'
  BY <1>2, VerbKeeps, StartKeeps, StartedKeeps, StopKeeps, StoppedKeeps DEF RequestStep
<1>3. ASSUME NEW v \in Viewers, Handler(v)  PROVE IndInv'
  BY <1>3, QuietKeeps, GreetedKeeps, LeaveKeeps DEF Handler
<1>4. ASSUME NEW s \in Servers, NEW n \in Names, LoopStep(s, n)  PROVE IndInv'
  BY <1>4, LoopStepKeeps DEF LoopStep, LoopsOf
<1>5. CASE UNCHANGED vars
  BY <1>5 DEF vars, sessions, servers, IndInv, Typed, SessionsTyped, ServersTyped, SitesHeld,
              StreamsAreWanted, Running
<1>6. QED  BY <1>1, <1>2, <1>3, <1>4, <1>5 DEF Next

\* The inductive invariant holds for any sessions, viewers, clients and servers:
\* a server that a liveview_start awaits belongs to it, and one that a
\* liveview_stop has begun to stop never runs again.
THEOREM Inductive == Spec => []IndInv
<1>1. Init => IndInv
  BY InitInv
<1>2. IndInv /\ [Next]_vars => IndInv'
  BY NextKeeps
<1>3. QED  BY <1>1, <1>2, PTL DEF Spec

\* One frame loop per session however many watch it, and none on a server that
\* was told to stop, whatever joins, leaves or is stopped in between.
THEOREM WantedStreams == Spec => []StreamsAreWanted
<1>1. IndInv => StreamsAreWanted
  BY DEF IndInv
<1>2. QED  BY <1>1, Inductive, PTL

\* Every step keeps connections and their loops together.
LEMMA NextSeated == IndInv /\ AllSeated /\ [Next]_vars => AllSeated'
<1> SUFFICES ASSUME IndInv, AllSeated, [Next]_vars  PROVE AllSeated'
  OBVIOUS
<1>1. CASE Environment
  <2>1. ASSUME NEW n \in Names, SessionCloses(n) \/ SessionStarts(n) \/ Park(n)  PROVE AllSeated'
    BY <2>1, SessionClosesSeated, SitesSeated
  <2>2. ASSUME NEW q \in Requests, NEW op \in {"verb", "start", "stop"}, NEW n \in Names,
               Ask(q, op, n)
        PROVE  AllSeated'
    BY <2>2, SitesSeated
  <2>3. ASSUME NEW v \in Viewers,
               \/ Input(v) \/ Shut(v) \/ Stall(v)
               \/ \E s \in Servers, n \in Names : Connect(v, s, n)
        PROVE  AllSeated'
    BY <2>3, ViewerSeated
  <2>4. QED  BY <1>1, <2>1, <2>2, <2>3, SetsSound DEF Environment
<1>2. ASSUME NEW q \in Requests, RequestStep(q)  PROVE AllSeated'
  BY <1>2, SitesSeated, StopSeated, StoppedSeated DEF RequestStep
<1>3. ASSUME NEW v \in Viewers, Handler(v)  PROVE AllSeated'
  BY <1>3, ViewerSeated, GreetedSeated, LeaveSeated DEF Handler
<1>4. ASSUME NEW s \in Servers, NEW n \in Names, LoopStep(s, n)  PROVE AllSeated'
  BY <1>4, LoopStepSeated DEF LoopStep, LoopsOf
<1>5. CASE UNCHANGED vars
  BY <1>5, SameSeated DEF vars, sessions, servers, AllSeated
<1>6. QED  BY <1>1, <1>2, <1>3, <1>4, <1>5 DEF Next

\* The loops are those that viewers need: whoever has joined a session that has
\* not been closed since is on its list and streamed by its one loop as long as
\* the server runs, whoever else joins, leaves, fails or is closed.
THEOREM LoopsFollow == Spec => []LoopsFollowViewers
<1>1. Init => AllSeated
  BY DEF Init, AllSeated, Seated, Present, Out
<1>2. IndInv /\ AllSeated /\ [Next]_vars => AllSeated'
  BY NextSeated
<1>3. AllSeated => JoinedAreStreamed
  BY DEF AllSeated, Seated, JoinedAreStreamed, Joined, Clients
<1>4. AllSeated /\ StreamsAreWanted => LoopsFollowViewers
  BY <1>3 DEF LoopsFollowViewers
<1>5. QED  BY <1>1, <1>2, <1>4, Inductive, WantedStreams, PTL DEF Spec

==============================================================================
