----------------------------- MODULE Telemetry ------------------------------
(***************************************************************************)
(* Telemetry from the stations to their subscribers over MQTT.  A station  *)
(* service publishes one record per simulated step, at QoS 0; the broker   *)
(* passes it to whoever is connected and subscribed at that moment; a      *)
(* subscriber's network thread decodes it and calls back.                  *)
(*                                                                         *)
(* One subscriber is the bridge to TimescaleDB, which inserts a row per    *)
(* record on one connection with autocommit off.  The other one is the web *)
(* API's, whose callback is module LiveFeed.                               *)
(***************************************************************************)
EXTENDS Integers, Sequences

CONSTANTS
  Stations,
  Deployments, \* which subscribers run: they share nothing but the records, so a behaviour may have one of them
  MaxRecords,  \* bound: records published in a behaviour
  MaxCrashes   \* bound: times the bridge is killed and started again

Subscribers == {"bridge", "web"}

VARIABLES
  running, \* the subscribers that run
  records, \* the records published: of which station, and whether the database will take them
  link,    \* link[s]: subscriber s is connected and subscribed
  transit, \* transit[s]: the records on their way to it
  bridge,  \* the bridge's process: its callback, its connection, its counters
  row,     \* the record its network thread is inserting, 0 if none
  rows,    \* the telemetry table
  crashes

telemetryVars == <<running, records, link, transit, bridge, row, rows, crashes>>

Ids == 1..MaxRecords

\* A fresh process.  base is the number of rows it found, for the properties.
Started(base) == [registered |-> FALSE, tx |-> "idle", received |-> 0, malformed |-> 0, early |-> 0,
                  written |-> 0, failed |-> 0, base |-> base]

InitTelemetry ==
  /\ running \in Deployments
  /\ records = <<>>
  /\ link = [s \in Subscribers |-> FALSE]
  /\ transit = [s \in Subscribers |-> <<>>]
  /\ bridge = Started(0)
  /\ row = 0 /\ rows = <<>>
  /\ crashes = 0

-----------------------------------------------------------------------------
\* TelemetryPublisher.publish_telemetry: at QoS 0 the record is on its way to whoever is
\* there, and is not kept for the others.
Delivered(id) == [s \in Subscribers |-> IF link[s] THEN Append(transit[s], id) ELSE transit[s]]

\* The service of a station steps its plant and publishes.  A record is odd if the
\* database refuses a value of it; one with a text for its battery_soc fails earlier, in
\* telemetry_to_row.  Only the bridge tells them apart.
Publish(st, kind) ==
  /\ Len(records) < MaxRecords
  /\ kind = "good" \/ "bridge" \in running
  /\ records' = Append(records, [station |-> st, kind |-> kind])
  /\ transit' = Delivered(Len(records) + 1)
  /\ UNCHANGED <<running, link, bridge, row, rows, crashes>>

\* The broker or the satellite link fails.
Disconnect(s) ==
  /\ link[s]
  /\ link' = [link EXCEPT ![s] = FALSE]
  /\ transit' = [transit EXCEPT ![s] = <<>>]
  /\ UNCHANGED <<running, records, bridge, row, rows, crashes>>

\* on_connect subscribes, again after each reconnection; the session is a new one.
Connect(s) ==
  /\ s \in running /\ ~link[s]
  /\ link' = [link EXCEPT ![s] = TRUE]
  /\ UNCHANGED <<running, records, transit, bridge, row, rows, crashes>>

\* The record that subscriber s receives next.
Arriving(s) == Head(transit[s])

TakeFrom(s) == transit' = [transit EXCEPT ![s] = Tail(@)]

-----------------------------------------------------------------------------
(***************************************************************************)
(* TelemetrySubscriber and TimescaleBridge.                                *)
(***************************************************************************)
\* A payload cut short on the way is dropped and counted.
DropMalformed ==
  /\ transit["bridge"] # <<>> /\ row = 0
  /\ TakeFrom("bridge")
  /\ bridge' = [bridge EXCEPT !.malformed = @ + 1]
  /\ UNCHANGED <<running, records, link, row, rows, crashes>>

\* A record is received and handed to the callbacks.  The network thread runs before the
\* bridge has registered its own.
Receive ==
  /\ transit["bridge"] # <<>> /\ row = 0
  /\ TakeFrom("bridge")
  /\ bridge' = [bridge EXCEPT !.received = @ + 1, !.early = IF bridge.registered THEN @ ELSE @ + 1]
  /\ row' = IF bridge.registered THEN Arriving("bridge") ELSE 0
  /\ UNCHANGED <<running, records, link, rows, crashes>>

\* TimescaleBridge.__init__.
Register ==
  /\ "bridge" \in running /\ ~bridge.registered
  /\ bridge' = [bridge EXCEPT !.registered = TRUE]
  /\ UNCHANGED <<running, records, link, transit, row, rows, crashes>>

\* Mutant: the exception handler loses count of a row refused by a poisoned transaction.
FailedOnce(tx) == [bridge EXCEPT !.failed = IF bridge.tx = "aborted" THEN @ ELSE @ + 1, !.tx = tx]

\* except Exception: the row is counted and forgotten.  Nothing rolls back.
Failed(tx) == [bridge EXCEPT !.failed = @ + 1, !.tx = tx]

\* The row is refused: as a Python object, by the database, or because an earlier
\* one was and its transaction is still open.  The connection may also break.
Refuse ==
  /\ row # 0 /\ bridge.tx # "open"
  /\ \/ records[row].kind = "text" /\ bridge' = Failed(bridge.tx)
     \/ records[row].kind = "odd" /\ bridge.tx = "idle" /\ bridge' = Failed("aborted")
     \/ records[row].kind # "text" /\ bridge.tx \in {"aborted", "broken"} /\ bridge' = Failed(bridge.tx)
     \/ records[row].kind # "text" /\ bridge' = Failed("broken")
  /\ row' = 0
  /\ UNCHANGED <<running, records, link, transit, rows, crashes>>

\* cursor.execute ...
Insert ==
  /\ row # 0 /\ bridge.tx = "idle" /\ records[row].kind = "good"
  /\ bridge' = [bridge EXCEPT !.tx = "open"]
  /\ UNCHANGED <<running, records, link, transit, row, rows, crashes>>

\* ... and connection.commit.
Commit ==
  /\ bridge.tx = "open"
  /\ rows' = Append(rows, row) /\ row' = 0
  /\ bridge' = [bridge EXCEPT !.tx = "idle", !.written = @ + 1]
  /\ UNCHANGED <<running, records, link, transit, crashes>>

\* Mutant: a row whose commit failed is inserted again over a new connection.
CommitRetried ==
  /\ bridge.tx = "open"
  /\ rows' \in {rows, Append(rows, row)}
  /\ bridge' = [bridge EXCEPT !.tx = "idle"]
  /\ UNCHANGED <<running, records, link, transit, row, crashes>>

\* The connection breaks during the commit: the row may have been stored or not.
CommitFails ==
  /\ bridge.tx = "open"
  /\ rows' \in {rows, Append(rows, row)} /\ row' = 0
  /\ bridge' = Failed("broken")
  /\ UNCHANGED <<running, records, link, transit, crashes>>

\* The process is killed and started again; what it had not committed is gone.  Of a row
\* whose commit was on its way nobody knows.
Restart ==
  /\ "bridge" \in running
  /\ crashes < MaxCrashes
  /\ crashes' = crashes + 1
  /\ rows' \in {rows} \union (IF bridge.tx = "open" THEN {Append(rows, row)} ELSE {})
  /\ bridge' = Started(Len(rows')) /\ row' = 0
  /\ link' = [link EXCEPT !["bridge"] = FALSE]
  /\ transit' = [transit EXCEPT !["bridge"] = <<>>]
  /\ UNCHANGED <<running, records>>

Bridge == DropMalformed \/ Receive \/ Register \/ Refuse \/ Insert \/ Commit \/ CommitFails \/ Restart

-----------------------------------------------------------------------------
\* The bridge's books balance: every record that reached it is written, failed, in
\* hand, or came before the callback was there; and a row counted as written is in the table.
\* One that is not counted may be there after all, when the connection broke in the commit.
BridgeAccounts ==
  LET stored == Len(rows) - bridge.base
  IN  /\ bridge.received = bridge.written + bridge.failed + bridge.early + (IF row = 0 THEN 0 ELSE 1)
      /\ stored = bridge.written \/ (bridge.tx = "broken" /\ stored = bridge.written + 1)

\* The table holds good records only, each at most once and in the order of their publication,
\* across crashes of the bridge and breaks of every link.
RowsInOrder ==
  /\ \A i \in DOMAIN rows : records[rows[i]].kind = "good"
  /\ \A i, j \in DOMAIN rows : i < j => rows[i] < rows[j]

\* "A single bad row must not take the bridge down": a good row fails only if the
\* connection does.  Does not hold in the code, which rolls nothing back.
BadRowsStayAlone ==
  [][bridge'.failed > bridge.failed => records[row].kind # "good" \/ bridge'.tx = "broken"]_telemetryVars
=============================================================================
