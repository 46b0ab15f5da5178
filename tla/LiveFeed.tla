------------------------------ MODULE LiveFeed ------------------------------
(***************************************************************************)
(* The live feed of the web API: LiveState takes the records of module     *)
(* Telemetry on the MQTT threads, schedules a broadcast for each on the    *)
(* event loop, and the broadcasts go round the WebSockets of the station,  *)
(* one send and one await at a time.  Browsers join, switch stations, lose *)
(* their connections and come back.                                        *)
(***************************************************************************)
EXTENDS Telemetry, FiniteSets

CONSTANTS
  Browsers,
  Switching, \* the browsers whose user looks at other stations, too
  Sockets    \* bound: the sockets <<browser, number>> at one time; a browser that reconnects
             \* may leave one behind that the server still holds

ASSUME FeedAssumption ==
  /\ \A ws \in Sockets : ws[1] \in Browsers
  /\ Switching \subseteq Browsers

VARIABLES
  latest,     \* latest[st]: the record in latest_telemetry, 0 if none
  members,    \* members[st]: the set StationLiveState.sockets
  handler,    \* handler[ws]: the station that the coroutine station_feed serves, "none" if it does not run
  joined,     \* the sockets whose coroutine has accepted
  open,       \* the sockets that the browser has open
  broadcasts, \* the broadcasts that run, with the loop over the set that each is in
  selected,   \* selected[b]: the station browser b looks at
  shown,      \* shown[b]: the record the page shows, 0 if none
  cut         \* the records whose broadcast ended in an exception or met a changed set, for the properties

feedVars == <<latest, members, handler, joined, open, broadcasts, selected, shown, cut>>
vars == <<telemetryVars, feedVars>>

NoStation == "none"

ASSUME NoStationAssumption == NoStation \notin Stations

InitFeed ==
  /\ latest = [st \in Stations |-> 0]
  /\ members = [st \in Stations |-> {}]
  /\ handler = [ws \in Sockets |-> NoStation]
  /\ joined = {} /\ open = {} /\ broadcasts = {} /\ cut = {}
  /\ \E st \in Stations : selected = [b \in Browsers |-> st]
  /\ shown = [b \in Browsers |-> 0]

Init == InitTelemetry /\ InitFeed

-----------------------------------------------------------------------------
(***************************************************************************)
(* LiveState.                                                              *)
(***************************************************************************)
\* LiveState.on_telemetry, and the broadcast it schedules.
OnTelemetry ==
  /\ transit["web"] # <<>>
  /\ LET id == Arriving("web")
         st == records[id].station
     IN  /\ latest' = [latest EXCEPT ![st] = id]
         /\ broadcasts' = broadcasts \union {[id |-> id, started |-> FALSE, over |-> {}, visited |-> {}, dead |-> {}]}
  /\ TakeFrom("web")
  /\ UNCHANGED <<running, records, link, bridge, row, rows, crashes>>
  /\ UNCHANGED <<members, handler, joined, open, selected, shown, cut>>

\* The broadcasts that may be the next to run: tasks start in the order in which they
\* were scheduled.
Runnable == {t \in broadcasts : t.started \/ \A u \in broadcasts : u.started \/ t.id <= u.id}

Station(t) == records[t.id].station

\* The set as the loop over it found it; the iterator is made with the first turn.
Over(t) == IF t.started THEN t.over ELSE members[Station(t)]

Unchanged(t) == Cardinality(members[Station(t)]) = Cardinality(Over(t))

\* The iterator sees another size than it began with, and the broadcast is over:
\* RuntimeError, which nobody awaits.
Break(t) ==
  /\ ~Unchanged(t)
  /\ broadcasts' = broadcasts \ {t}
  /\ cut' = cut \union {t.id}
  /\ UNCHANGED <<telemetryVars, latest, members, handler, joined, open, selected, shown>>

\* Outside the code: the event loop and the transport serve the sends to one socket in the
\* order in which they were asked for, so a broadcast stays behind those before it.
InSendOrder(t, ws) == \A u \in broadcasts : Station(u) = Station(t) /\ u.id < t.id => ws \in u.visited

MaySend(t, ws) == ws \in members[Station(t)] \ t.visited /\ InSendOrder(t, ws)

\* One turn of the loop: a send to a socket not yet visited.  It reaches the browser,
\* or raises and the socket counts as dead.
Send(t, ws) ==
  /\ Unchanged(t)
  /\ MaySend(t, ws)
  /\ broadcasts' = (broadcasts \ {t}) \union
       {[t EXCEPT !.started = TRUE, !.over = Over(t), !.visited = @ \union {ws},
                  !.dead = IF ws \in open THEN @ ELSE @ \union {ws}]}
  /\ shown' = IF ws \in open THEN [shown EXCEPT ![ws[1]] = t.id] ELSE shown
  /\ UNCHANGED <<telemetryVars, latest, members, handler, joined, open, selected, cut>>

\* The loop is over, and the dead leave the set.  Members that took the places of others
\* in the meantime may have been passed over.
Prune(t) ==
  /\ Unchanged(t)
  /\ members[Station(t)] \subseteq t.visited \/ members[Station(t)] # Over(t)
  /\ members' = [members EXCEPT ![Station(t)] = @ \ t.dead]
  /\ broadcasts' = broadcasts \ {t}
  /\ cut' = IF members[Station(t)] = Over(t) THEN cut ELSE cut \union {t.id}
  /\ UNCHANGED <<telemetryVars, latest, handler, joined, open, selected, shown>>

Broadcast == \E t \in Runnable : Break(t) \/ Prune(t) \/ \E ws \in Sockets : Send(t, ws)

-----------------------------------------------------------------------------
(***************************************************************************)
(* station_feed, the coroutine of one WebSocket, and the browser's hook    *)
(* useLiveStation at its other end.                                        *)
(***************************************************************************)
\* connect(): a page without a socket opens one.
OpenSocket(b) ==
  /\ "web" \in running
  /\ \A ws \in open : ws[1] # b
  /\ \E ws \in Sockets :
       /\ ws[1] = b /\ handler[ws] = NoStation
       /\ \A t \in broadcasts : ws \notin t.over \union t.visited \* it is a new object
       /\ open' = open \union {ws}
       /\ handler' = [handler EXCEPT ![ws] = selected[b]]
  /\ UNCHANGED <<telemetryVars, latest, members, joined, broadcasts, selected, shown, cut>>

\* Mutant: the snapshot goes out first, and the socket joins the set after that await.
AcceptLate(ws) ==
  \/ /\ handler[ws] # NoStation /\ ws \notin joined
     /\ joined' = joined \union {ws}
     /\ shown' = IF ws \in open /\ latest[handler[ws]] # 0 THEN [shown EXCEPT ![ws[1]] = latest[handler[ws]]] ELSE shown
     /\ UNCHANGED <<telemetryVars, latest, members, handler, open, broadcasts, selected, cut>>
  \/ /\ ws \in joined /\ ws \notin members[handler[ws]]
     /\ members' = [members EXCEPT ![handler[ws]] = @ \union {ws}]
     /\ UNCHANGED <<telemetryVars, latest, handler, joined, open, broadcasts, selected, shown, cut>>

\* The socket joins the set, and the snapshot goes out before anything else can.
Accept(ws) ==
  /\ handler[ws] # NoStation /\ ws \notin joined
  /\ joined' = joined \union {ws}
  /\ members' = [members EXCEPT ![handler[ws]] = @ \union {ws}]
  /\ shown' = IF ws \in open /\ latest[handler[ws]] # 0 THEN [shown EXCEPT ![ws[1]] = latest[handler[ws]]] ELSE shown
  /\ UNCHANGED <<telemetryVars, latest, handler, open, broadcasts, selected, cut>>

\* The connection breaks, or the page is closed: the browser knows at once, the
\* server when it next looks.
Lose(ws) ==
  /\ ws \in open
  /\ open' = open \ {ws}
  /\ UNCHANGED <<telemetryVars, latest, members, handler, joined, broadcasts, selected, shown, cut>>

\* Mutant: the socket is left for a broadcast to find.
LeaveMember(ws) ==
  /\ ws \in joined /\ ws \notin open
  /\ handler' = [handler EXCEPT ![ws] = NoStation]
  /\ joined' = joined \ {ws}
  /\ UNCHANGED <<telemetryVars, latest, members, open, broadcasts, selected, shown, cut>>

\* receive_text raises, and the finally clause discards the socket.
Leave(ws) ==
  /\ ws \in joined /\ ws \notin open
  /\ members' = [members EXCEPT ![handler[ws]] = @ \ {ws}]
  /\ handler' = [handler EXCEPT ![ws] = NoStation]
  /\ joined' = joined \ {ws}
  /\ UNCHANGED <<telemetryVars, latest, open, broadcasts, selected, shown, cut>>

\* Another station is selected: the effect's cleanup closes the socket; the state of the
\* page stays.
Switch(b, st) ==
  /\ st # selected[b]
  /\ selected' = [selected EXCEPT ![b] = st]
  /\ open' = {ws \in open : ws[1] # b}
  /\ UNCHANGED <<telemetryVars, latest, members, handler, joined, broadcasts, shown, cut>>

-----------------------------------------------------------------------------
Feed ==
  \/ OnTelemetry \/ Broadcast
  \/ \E b \in Browsers : OpenSocket(b)
  \/ \E b \in Switching, st \in Stations : Switch(b, st)
  \/ \E ws \in Sockets : Accept(ws) \/ Lose(ws) \/ Leave(ws)

Next ==
  \/ \E st \in Stations, kind \in {"good", "odd", "text"} : Publish(st, kind) /\ UNCHANGED feedVars
  \/ \E s \in Subscribers : (Disconnect(s) \/ Connect(s)) /\ UNCHANGED feedVars
  \/ Bridge /\ UNCHANGED feedVars
  \/ Feed

Spec == Init /\ [][Next]_vars

\* The event loop runs the coroutines that are ready.
FairSpec == Spec /\ WF_vars(Broadcast) /\ \A ws \in Sockets : WF_vars(Accept(ws)) /\ WF_vars(Leave(ws))

-----------------------------------------------------------------------------
\* Once the broadcasts have run, a connected page shows the newest record of its station,
\* unless the set of sockets changed while that record, or the one shown, was on its way
\* round.
PageIsCurrent ==
  broadcasts = {} => \A ws \in joined \intersect open :
    latest[handler[ws]] \in {0, shown[ws[1]]} \union cut \/ shown[ws[1]] \in cut

\* A socket whose browser is gone leaves the set of its station, whether a broadcast
\* finds it dead or not.
SocketsLeave == \A ws \in Sockets : ws \in joined \ open ~> ws \notin joined \union UNION {members[st] : st \in Stations}

\* A page never shows a record of a station other than the selected one once the socket has
\* brought the snapshot.  Does not hold in the code: the reducer keeps the old records when
\* the station is switched.
PageIsOwn == \A ws \in joined \intersect open :
  LET b == ws[1] IN shown[b] = 0 \/ records[shown[b]].station = selected[b]
=============================================================================
