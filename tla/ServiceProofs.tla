--------------------------- MODULE ServiceProofs ---------------------------
(***************************************************************************)
(* Theorems of the services around the plant: the telemetry bridge and the *)
(* table (module Telemetry), the pages of the live feed, the worker pool   *)
(* of the control plane, and the rate limiter of the web API, for any      *)
(* number of stations, records, restarts, browsers, sockets, calls,        *)
(* workers, slots, clients and requests.                                   *)
(***************************************************************************)
EXTENDS LiveFeed, ControlPlane, RateLimiter, SumLemmas, SequenceTheorems, FiniteSetTheorems, TLAPS

-----------------------------------------------------------------------------
(***************************************************************************)
(* The bridge and the table: what the bridge counts, and what it stores.   *)
(***************************************************************************)
Kinds == {"good", "odd", "text"}

BridgeTypes == [registered : BOOLEAN, tx : {"idle", "open", "aborted", "broken"},
                received : Nat, malformed : Nat, early : Nat, written : Nat, failed : Nat, base : Nat]

\* The records on their way to the bridge.
Coming == transit["bridge"]

TypesOK ==
  /\ records \in Seq([station : Stations, kind : Kinds])
  /\ transit \in [Subscribers -> Seq(Nat)]
  /\ bridge \in BridgeTypes /\ row \in Nat /\ rows \in Seq(Nat)

\* What is stored, in hand and on its way are records that were published.
Published ==
  /\ \A i \in 1..Len(rows) : rows[i] \in 1..Len(records) /\ records[rows[i]].kind = "good"
  /\ row <= Len(records)
  /\ \A j \in 1..Len(Coming) : Coming[j] \in 1..Len(records)

\* They follow each other in the order of their publication.
Ordered ==
  /\ \A i, j \in 1..Len(rows) : i < j => rows[i] < rows[j]
  /\ row # 0 => \A i \in 1..Len(rows) : rows[i] < row
  /\ row # 0 => \A j \in 1..Len(Coming) : row < Coming[j]
  /\ \A i \in 1..Len(rows), j \in 1..Len(Coming) : rows[i] < Coming[j]
  /\ \A i, j \in 1..Len(Coming) : i < j => Coming[i] < Coming[j]

\* A transaction that is open holds the record in hand.
OpenHolds == bridge.tx = "open" => row # 0 /\ records[row].kind = "good"

Books ==
  /\ bridge.received = bridge.written + bridge.failed + bridge.early + (IF row = 0 THEN 0 ELSE 1)
  /\ \/ Len(rows) = bridge.base + bridge.written
     \/ bridge.tx = "broken" /\ Len(rows) = bridge.base + bridge.written + 1

Line == TypesOK /\ Published /\ Ordered

LineInv == Line /\ OpenHolds /\ Books

-----------------------------------------------------------------------------
(***************************************************************************)
(* What the actions do to the sequences.                                   *)
(***************************************************************************)
LEMMA TailOf ==
  ASSUME NEW S, NEW s \in Seq(S), s # <<>>
  PROVE  /\ Tail(s) \in Seq(S) /\ Len(Tail(s)) = Len(s) - 1 /\ Len(s) >= 1
         /\ \A j \in 1..Len(Tail(s)) : Tail(s)[j] = s[j + 1]
         /\ Head(s) = s[1] /\ s[1] \in S
OBVIOUS

LEMMA AppendOf ==
  ASSUME NEW S, NEW s \in Seq(S), NEW e \in S
  PROVE  /\ Append(s, e) \in Seq(S) /\ Len(Append(s, e)) = Len(s) + 1
         /\ \A j \in 1..Len(s) : Append(s, e)[j] = s[j]
         /\ Append(s, e)[Len(s) + 1] = e
OBVIOUS

\* A record is published.
LEMMA PublishLine ==
  ASSUME Line, NEW st \in Stations, NEW kind \in Kinds, Publish(st, kind)
  PROVE  Line' /\ Len(records') = Len(records) + 1 /\ \A k \in 1..Len(records) : records'[k] = records[k]
<1> DEFINE new == [station |-> st, kind |-> kind]
           R == [station : Stations, kind : Kinds]
           id == Len(records) + 1
<1>1. /\ records' = Append(records, new) /\ transit' = Delivered(id)
      /\ UNCHANGED <<bridge, row, rows>>
  BY DEF Publish
<1>2. new \in R /\ records \in Seq(R) /\ id \in Nat /\ Len(records) \in Nat
  BY DEF Line, TypesOK
<1> HIDE DEF new, R
<1>3. /\ records' \in Seq(R) /\ Len(records') = id
      /\ \A k \in 1..Len(records) : records'[k] = records[k]
  BY <1>1, <1>2, AppendOf
<1>4. transit' = [s \in Subscribers |-> IF link[s] THEN Append(transit[s], id) ELSE transit[s]]
  BY <1>1 DEF Delivered
<1>5. transit' \in [Subscribers -> Seq(Nat)]
  BY <1>2, <1>4, AppendOf DEF Line, TypesOK
<1>6. Coming \in Seq(Nat) /\ (Coming' = Coming \/ Coming' = Append(Coming, id))
  BY <1>4 DEF Coming, Line, TypesOK, Subscribers
<1>7. TypesOK'
  BY <1>1, <1>3, <1>5 DEF Line, TypesOK, R
<1> HIDE DEF id
<1>8. CASE Coming' = Coming
  <2>1. Published'
    <3>1. /\ \A i \in 1..Len(rows) : rows[i] \in 1..Len(records) /\ records[rows[i]].kind = "good"
          /\ row <= Len(records) /\ row \in Nat
          /\ \A j \in 1..Len(Coming) : Coming[j] \in 1..Len(records)
      BY DEF Line, TypesOK, Published
    <3>2. Len(records') = Len(records) + 1
      BY <1>3 DEF id
    <3>3. rows' = rows /\ row' = row
      BY <1>1
    <3>4. \A i \in 1..Len(rows) : rows[i] \in 1..Len(records') /\ records'[rows[i]].kind = "good"
      BY <1>2, <1>3, <3>1, <3>2
    <3>5. row <= Len(records') /\ \A j \in 1..Len(Coming) : Coming[j] \in 1..Len(records')
      BY <1>2, <3>1, <3>2
    <3> QED BY <1>8, <3>3, <3>4, <3>5 DEF Published
  <2>2. Ordered'
    BY <1>1, <1>8 DEF Line, Ordered
  <2> QED BY <1>3, <1>7, <2>1, <2>2 DEF Line, id
<1>9. CASE Coming' = Append(Coming, id)
  <2>1. /\ Len(Coming') = Len(Coming) + 1 /\ Len(Coming) \in Nat
        /\ \A j \in 1..Len(Coming) : Coming'[j] = Coming[j] /\ Coming'[j] \in 1..Len(records)
        /\ Coming'[Len(Coming) + 1] = id
    BY <1>2, <1>6, <1>9, AppendOf DEF Line, Published
  <2>2. Published'
    BY <1>1, <1>2, <1>3, <2>1 DEF Line, TypesOK, Published, id
  <2>3. Ordered'
    <3>1. \A i \in 1..Len(rows) : rows[i] < id
      BY <1>2 DEF Line, Published, id
    <3>2. row < id /\ row \in Nat
      BY <1>2 DEF Line, TypesOK, Published, id
    <3>3. \A i, j \in 1..Len(Coming') : i < j => Coming'[i] < Coming'[j]
      <4> SUFFICES ASSUME NEW i \in 1..Len(Coming'), NEW j \in 1..Len(Coming'), i < j
                   PROVE  Coming'[i] < Coming'[j]
        OBVIOUS
      <4>1. CASE j = Len(Coming) + 1
        BY <1>2, <2>1, <4>1 DEF id
      <4>2. CASE j \in 1..Len(Coming)
        BY <1>2, <2>1, <4>2 DEF Line, Ordered
      <4> QED BY <2>1, <4>1, <4>2
    <3>4. \A i \in 1..Len(rows), j \in 1..Len(Coming') : rows[i] < Coming'[j]
      BY <2>1, <3>1 DEF Line, Ordered
    <3>5. row # 0 => \A j \in 1..Len(Coming') : row < Coming'[j]
      BY <2>1, <3>2 DEF Line, Ordered
    <3> QED BY <1>1, <3>3, <3>4, <3>5 DEF Line, Ordered
  <2> QED BY <1>3, <1>7, <2>2, <2>3 DEF Line, id
<1> QED BY <1>6, <1>8, <1>9

\* The line of records to the bridge may lose its first or all of its records.
LEMMA QuietLine ==
  ASSUME Line, UNCHANGED <<records, row, rows>>, bridge' \in BridgeTypes,
         transit' \in [Subscribers -> Seq(Nat)],
         Coming' \in {Coming, <<>>} \/ (Coming # <<>> /\ Coming' = Tail(Coming))
  PROVE  Line'
<1>1. Coming \in Seq(Nat) /\ TypesOK' /\ Len(Coming) \in Nat
  BY DEF Line, TypesOK, Coming, Subscribers
<1>2. CASE Coming' = Coming
  BY <1>1, <1>2 DEF Line, Published, Ordered
<1>3. CASE Coming' = <<>>
  <2>1. Len(Coming') = 0
    BY <1>3
  <2> QED BY <1>1, <2>1 DEF Line, Published, Ordered
<1>4. CASE Coming # <<>> /\ Coming' = Tail(Coming)
  <2>1. /\ Len(Coming') = Len(Coming) - 1
        /\ \A j \in 1..Len(Coming') : Coming'[j] = Coming[j + 1] /\ j + 1 \in 1..Len(Coming)
    BY <1>1, <1>4, TailOf
  <2>2. Published'
    BY <1>1, <2>1 DEF Line, Published
  <2>3. \A i, j \in 1..Len(Coming') : i < j => Coming'[i] < Coming'[j]
    <3> SUFFICES ASSUME NEW i \in 1..Len(Coming'), NEW j \in 1..Len(Coming'), i < j
                 PROVE  Coming'[i] < Coming'[j]
      OBVIOUS
    <3>1. i + 1 \in 1..Len(Coming) /\ j + 1 \in 1..Len(Coming) /\ i + 1 < j + 1
      BY <2>1
    <3> QED BY <2>1, <3>1 DEF Line, Ordered
  <2>4. Ordered'
    BY <1>1, <2>1, <2>3 DEF Line, Ordered
  <2> QED BY <1>1, <2>2, <2>4 DEF Line
<1> QED BY <1>2, <1>3, <1>4

\* The record in hand is let go, and may be stored as it is.
LEMMA LetGo ==
  ASSUME Line, row' = 0, UNCHANGED <<records, transit>>, bridge' \in BridgeTypes,
         rows' = rows \/ (rows' = Append(rows, row) /\ row # 0 /\ records[row].kind = "good")
  PROVE  Line'
<1>1. Coming' = Coming /\ rows \in Seq(Nat) /\ row \in Nat /\ Len(rows) \in Nat /\ Len(records) \in Nat
  BY DEF Coming, Line, TypesOK
<1>2. CASE rows' = rows
  BY <1>1, <1>2 DEF Line, TypesOK, Published, Ordered
<1>3. CASE rows' = Append(rows, row) /\ row # 0 /\ records[row].kind = "good"
  <2>1. /\ rows' \in Seq(Nat) /\ Len(rows') = Len(rows) + 1
        /\ \A i \in 1..Len(rows) : rows'[i] = rows[i]
        /\ rows'[Len(rows) + 1] = row
    BY <1>1, <1>3, AppendOf
  <2>2. TypesOK'
    BY <2>1 DEF Line, TypesOK
  <2>3. Published'
    BY <1>1, <1>3, <2>1 DEF Line, Published
  <2>4. Ordered'
    BY <1>1, <1>3, <2>1 DEF Line, Ordered
  <2> QED BY <2>2, <2>3, <2>4 DEF Line
<1> QED BY <1>2, <1>3

\* The first record on its way is taken in hand.
LEMMA TakeLine ==
  ASSUME Line, row = 0, Coming # <<>>, row' = Head(Coming), UNCHANGED <<records, rows>>,
         bridge' \in BridgeTypes, transit' \in [Subscribers -> Seq(Nat)], Coming' = Tail(Coming)
  PROVE  Line' /\ row' # 0
<1>1. Coming \in Seq(Nat) /\ Len(Coming) \in Nat /\ Len(records) \in Nat /\ Len(rows) \in Nat
  BY DEF Line, TypesOK, Coming, Subscribers
<1>2. /\ Len(Coming') = Len(Coming) - 1 /\ 1 \in 1..Len(Coming)
      /\ \A j \in 1..Len(Coming') : Coming'[j] = Coming[j + 1] /\ j + 1 \in 1..Len(Coming)
      /\ row' = Coming[1]
  BY <1>1, TailOf
<1>3. row' \in 1..Len(records) /\ TypesOK'
  BY <1>1, <1>2 DEF Line, TypesOK, Published
<1>4. Published'
  <2>1. \A j \in 1..Len(Coming') : Coming'[j] \in 1..Len(records)
    BY <1>2 DEF Line, Published
  <2> QED BY <1>1, <1>3, <2>1 DEF Line, Published
<1>5. Ordered'
  BY <1>1, <1>2, <1>3 DEF Line, TypesOK, Published, Ordered
<1> QED BY <1>3, <1>4, <1>5 DEF Line

-----------------------------------------------------------------------------
(***************************************************************************)
(* What the actions do to the bridge's counters.                           *)
(***************************************************************************)
\* A row that failed is counted, and the record in hand let go.
LEMMA FailBooks ==
  ASSUME LineInv, row # 0, row' = 0, NEW tx \in {"idle", "aborted", "broken"}, bridge' = Failed(tx),
         \/ rows' = rows /\ (bridge.tx = "broken" => tx = "broken")
         \/ rows' = Append(rows, row) /\ tx = "broken" /\ bridge.tx = "open"
  PROVE  bridge' \in BridgeTypes /\ OpenHolds' /\ Books'
<1>1. bridge \in BridgeTypes /\ Len(rows) \in Nat
  BY DEF LineInv, Line, TypesOK
<1> DEFINE counted == [bridge EXCEPT !.failed = @ + 1]
<1>2. /\ counted \in BridgeTypes /\ counted.received = bridge.received /\ counted.early = bridge.early
      /\ counted.written = bridge.written /\ counted.base = bridge.base
      /\ counted.failed = bridge.failed + 1
  BY <1>1 DEF BridgeTypes
<1>3. bridge' = [counted EXCEPT !.tx = tx]
  BY <1>1 DEF BridgeTypes, Failed
<1> HIDE DEF counted
<1>4. /\ bridge' \in BridgeTypes /\ bridge'.tx = tx
      /\ bridge'.received = bridge.received /\ bridge'.early = bridge.early
      /\ bridge'.written = bridge.written /\ bridge'.base = bridge.base
      /\ bridge'.failed = bridge.failed + 1
  BY <1>2, <1>3 DEF BridgeTypes
<1>5. /\ bridge.received \in Nat /\ bridge.early \in Nat /\ bridge.written \in Nat
      /\ bridge.base \in Nat /\ bridge.failed \in Nat
  BY <1>1 DEF BridgeTypes
<1>6. \/ Len(rows') = Len(rows) /\ (bridge.tx = "broken" => tx = "broken")
      \/ Len(rows') = Len(rows) + 1 /\ tx = "broken" /\ bridge.tx = "open"
  BY AppendOf DEF LineInv, Line, TypesOK
<1>7. OpenHolds'
  BY <1>4 DEF OpenHolds
<1>8. bridge'.received = bridge'.written + bridge'.failed + bridge'.early + (IF row' = 0 THEN 0 ELSE 1)
  <2>1. bridge.received = bridge.written + bridge.failed + bridge.early + 1
    BY DEF LineInv, Books
  <2>2. bridge'.received = bridge'.written + bridge'.failed + bridge'.early + 0
    BY <1>4, <1>5, <2>1
  <2> QED BY <2>2
<1>9. \/ Len(rows') = bridge'.base + bridge'.written
      \/ bridge'.tx = "broken" /\ Len(rows') = bridge'.base + bridge'.written + 1
  <2>1. CASE Len(rows) = bridge.base + bridge.written
    BY <1>4, <1>5, <1>6, <2>1
  <2>2. CASE bridge.tx = "broken" /\ Len(rows) = bridge.base + bridge.written + 1
    BY <1>4, <1>5, <1>6, <2>2
  <2> QED BY <2>1, <2>2 DEF LineInv, Books
<1> QED BY <1>4, <1>7, <1>8, <1>9 DEF Books

LEMMA StartedType ==
  ASSUME NEW base \in Nat
  PROVE  /\ Started(base) \in BridgeTypes /\ Started(base).base = base /\ Started(base).tx = "idle"
         /\ Started(base).received = 0 /\ Started(base).early = 0
         /\ Started(base).written = 0 /\ Started(base).failed = 0
BY DEF Started, BridgeTypes

-----------------------------------------------------------------------------
(***************************************************************************)
(* One lemma for each step of the bridge.                                  *)
(***************************************************************************)
LEMMA TakenFrom ==
  ASSUME LineInv, NEW s \in Subscribers, transit[s] # <<>>, TakeFrom(s)
  PROVE  /\ transit' \in [Subscribers -> Seq(Nat)]
         /\ s = "bridge" => Coming # <<>> /\ Coming' = Tail(Coming)
         /\ s # "bridge" => Coming' = Coming
<1>1. transit \in [Subscribers -> Seq(Nat)] /\ transit[s] \in Seq(Nat)
  BY DEF LineInv, Line, TypesOK
<1>2. Tail(transit[s]) \in Seq(Nat)
  BY <1>1, TailOf
<1> QED BY <1>1, <1>2 DEF TakeFrom, Coming, Subscribers

LEMMA DropStep == ASSUME LineInv, DropMalformed PROVE LineInv'
<1>1. /\ bridge \in BridgeTypes /\ bridge' = [bridge EXCEPT !.malformed = @ + 1]
      /\ UNCHANGED <<records, row, rows>>
  BY DEF DropMalformed, LineInv, Line, TypesOK
<1>2. /\ bridge' \in BridgeTypes /\ bridge'.tx = bridge.tx
      /\ bridge'.received = bridge.received /\ bridge'.early = bridge.early
      /\ bridge'.written = bridge.written /\ bridge'.base = bridge.base
      /\ bridge'.failed = bridge.failed
  BY <1>1 DEF BridgeTypes
<1>3. transit' \in [Subscribers -> Seq(Nat)] /\ Coming # <<>> /\ Coming' = Tail(Coming)
  BY TakenFrom DEF DropMalformed, Subscribers
<1>4. Line'
  BY <1>1, <1>2, <1>3, QuietLine DEF LineInv
<1> QED BY <1>1, <1>2, <1>4 DEF LineInv, OpenHolds, Books

LEMMA ReceiveStep == ASSUME LineInv, Receive PROVE LineInv'
<1>1. /\ bridge \in BridgeTypes /\ row = 0
      /\ bridge' = [bridge EXCEPT !.received = @ + 1, !.early = IF bridge.registered THEN @ ELSE @ + 1]
      /\ row' = (IF bridge.registered THEN Head(Coming) ELSE 0)
      /\ UNCHANGED <<records, rows>>
  BY DEF Receive, Arriving, Coming, LineInv, Line, TypesOK
<1> DEFINE early == IF bridge.registered THEN bridge.early ELSE bridge.early + 1
           counted == [bridge EXCEPT !.received = @ + 1]
<1>2. /\ counted \in BridgeTypes /\ counted.received = bridge.received + 1 /\ counted.tx = bridge.tx
      /\ counted.written = bridge.written /\ counted.base = bridge.base
      /\ counted.failed = bridge.failed /\ counted.early = bridge.early
      /\ early \in Nat /\ bridge.early \in Nat
  BY <1>1 DEF BridgeTypes
<1>3. bridge' = [counted EXCEPT !.early = early]
  BY <1>1 DEF BridgeTypes
<1> HIDE DEF counted, early
<1>4. /\ bridge' \in BridgeTypes /\ bridge'.tx = bridge.tx
      /\ bridge'.received = bridge.received + 1 /\ bridge'.early = early
      /\ bridge'.written = bridge.written /\ bridge'.base = bridge.base
      /\ bridge'.failed = bridge.failed
  BY <1>2, <1>3 DEF BridgeTypes
<1>5. /\ bridge.received \in Nat /\ bridge.written \in Nat /\ bridge.failed \in Nat
  BY <1>1 DEF BridgeTypes
<1>6. transit' \in [Subscribers -> Seq(Nat)] /\ Coming # <<>> /\ Coming' = Tail(Coming)
  BY TakenFrom DEF Receive, Subscribers
<1>7. CASE bridge.registered
  <2>1. Line' /\ row' # 0 /\ early = bridge.early
    BY <1>1, <1>4, <1>6, <1>7, TakeLine DEF LineInv, early
  <2>2. bridge'.tx # "open"
    BY <1>1, <1>4 DEF LineInv, OpenHolds
  <2> QED BY <1>1, <1>2, <1>4, <1>5, <2>1, <2>2 DEF LineInv, OpenHolds, Books
<1>8. CASE ~bridge.registered
  <2>1. early = bridge.early + 1 /\ row' = 0 /\ row' = row
    BY <1>1, <1>8 DEF early
  <2>2. Line'
    BY <1>1, <1>4, <1>6, <2>1, QuietLine DEF LineInv
  <2>3. bridge'.tx # "open"
    BY <1>1, <1>4 DEF LineInv, OpenHolds
  <2> QED BY <1>1, <1>2, <1>4, <1>5, <2>1, <2>2, <2>3 DEF LineInv, OpenHolds, Books
<1> QED BY <1>7, <1>8

LEMMA RegisterStep == ASSUME LineInv, Register PROVE LineInv'
<1>1. /\ bridge \in BridgeTypes /\ bridge' = [bridge EXCEPT !.registered = TRUE]
      /\ UNCHANGED <<records, transit, row, rows>>
  BY DEF Register, LineInv, Line, TypesOK
<1>2. /\ bridge' \in BridgeTypes /\ bridge'.tx = bridge.tx
      /\ bridge'.received = bridge.received /\ bridge'.early = bridge.early
      /\ bridge'.written = bridge.written /\ bridge'.base = bridge.base
      /\ bridge'.failed = bridge.failed
  BY <1>1 DEF BridgeTypes
<1>3. Line'
  BY <1>1, <1>2, QuietLine DEF LineInv, Line, TypesOK, Coming
<1> QED BY <1>1, <1>2, <1>3 DEF LineInv, OpenHolds, Books

LEMMA RefuseStep == ASSUME LineInv, Refuse PROVE LineInv'
<1>1. row # 0 /\ row' = 0 /\ bridge.tx # "open" /\ UNCHANGED <<records, transit, rows>>
  BY DEF Refuse
<1>2. PICK tx \in {"idle", "aborted", "broken"} :
        bridge' = Failed(tx) /\ (bridge.tx # "broken" \/ tx = "broken" \/ tx = bridge.tx)
  BY DEF Refuse, LineInv, Line, TypesOK, BridgeTypes
<1>3. bridge.tx = "broken" => tx = "broken"
  BY <1>2
<1>4. bridge' \in BridgeTypes /\ OpenHolds' /\ Books'
  BY <1>1, <1>2, <1>3, FailBooks
<1>5. Line'
  BY <1>1, <1>4, LetGo DEF LineInv
<1> QED BY <1>4, <1>5 DEF LineInv

LEMMA InsertStep == ASSUME LineInv, Insert PROVE LineInv'
<1>1. /\ bridge \in BridgeTypes /\ bridge' = [bridge EXCEPT !.tx = "open"] /\ bridge.tx = "idle"
      /\ row # 0 /\ records[row].kind = "good"
      /\ UNCHANGED <<records, transit, row, rows>>
  BY DEF Insert, LineInv, Line, TypesOK
<1>2. /\ bridge' \in BridgeTypes /\ bridge'.tx = "open"
      /\ bridge'.received = bridge.received /\ bridge'.early = bridge.early
      /\ bridge'.written = bridge.written /\ bridge'.base = bridge.base
      /\ bridge'.failed = bridge.failed
  BY <1>1 DEF BridgeTypes
<1>3. Line'
  BY <1>1, <1>2, QuietLine DEF LineInv, Line, TypesOK, Coming
<1> QED BY <1>1, <1>2, <1>3 DEF LineInv, OpenHolds, Books

LEMMA CommitStep == ASSUME LineInv, Commit PROVE LineInv'
<1>1. /\ bridge \in BridgeTypes /\ bridge.tx = "open" /\ row # 0 /\ records[row].kind = "good"
      /\ rows' = Append(rows, row) /\ row' = 0 /\ UNCHANGED <<records, transit>>
      /\ bridge' = [bridge EXCEPT !.tx = "idle", !.written = @ + 1]
  BY DEF Commit, LineInv, Line, TypesOK, OpenHolds
<1> DEFINE counted == [bridge EXCEPT !.tx = "idle"]
<1>2. /\ counted \in BridgeTypes /\ counted.received = bridge.received /\ counted.tx = "idle"
      /\ counted.written = bridge.written /\ counted.base = bridge.base
      /\ counted.failed = bridge.failed /\ counted.early = bridge.early
  BY <1>1 DEF BridgeTypes
<1>3. bridge' = [counted EXCEPT !.written = @ + 1]
  BY <1>1 DEF BridgeTypes
<1> HIDE DEF counted
<1>4. /\ bridge' \in BridgeTypes /\ bridge'.tx = "idle"
      /\ bridge'.received = bridge.received /\ bridge'.early = bridge.early
      /\ bridge'.written = bridge.written + 1 /\ bridge'.base = bridge.base
      /\ bridge'.failed = bridge.failed
  BY <1>2, <1>3 DEF BridgeTypes
<1>5. /\ bridge.received \in Nat /\ bridge.early \in Nat /\ bridge.written \in Nat
      /\ bridge.base \in Nat /\ bridge.failed \in Nat
  BY <1>1 DEF BridgeTypes
<1>6. rows \in Seq(Nat) /\ row \in Nat
  BY DEF LineInv, Line, TypesOK
<1>7. Len(rows') = Len(rows) + 1 /\ Len(rows) \in Nat
  BY <1>1, <1>6, AppendOf
<1>8. Line'
  BY <1>1, <1>4, LetGo DEF LineInv
<1>9. Len(rows) = bridge.base + bridge.written
  BY <1>1 DEF LineInv, Books
<1>10. bridge.received = bridge.written + bridge.failed + bridge.early + 1
  BY <1>1 DEF LineInv, Books
<1>11. bridge'.received = bridge'.written + bridge'.failed + bridge'.early + 0
  BY <1>4, <1>5, <1>10
<1>12. Len(rows') = bridge'.base + bridge'.written
  BY <1>4, <1>5, <1>7, <1>9
<1>13. Books'
  BY <1>1, <1>11, <1>12 DEF Books
<1> QED BY <1>4, <1>8, <1>13 DEF LineInv, OpenHolds

LEMMA CommitFailsStep == ASSUME LineInv, CommitFails PROVE LineInv'
<1>1. /\ bridge.tx = "open" /\ row # 0 /\ records[row].kind = "good"
      /\ rows' \in {rows, Append(rows, row)} /\ row' = 0 /\ UNCHANGED <<records, transit>>
      /\ bridge' = Failed("broken")
  BY DEF CommitFails, LineInv, OpenHolds
<1>2. bridge' \in BridgeTypes /\ OpenHolds' /\ Books'
  BY <1>1, FailBooks
<1>3. Line'
  BY <1>1, <1>2, LetGo DEF LineInv
<1> QED BY <1>2, <1>3 DEF LineInv

\* A killed process leaves nothing on its way, and the row of an open transaction may be stored.
LEMMA RestartStep == ASSUME LineInv, Restart PROVE LineInv'
<1>1. /\ bridge' = Started(Len(rows')) /\ row' = 0 /\ UNCHANGED records
      /\ transit' = [transit EXCEPT !["bridge"] = <<>>]
      /\ rows' = rows \/ (rows' = Append(rows, row) /\ row # 0 /\ records[row].kind = "good")
  BY DEF Restart, LineInv, OpenHolds
<1>2. rows \in Seq(Nat) /\ row \in Nat /\ transit \in [Subscribers -> Seq(Nat)] /\ Len(records) \in Nat
  BY DEF LineInv, Line, TypesOK
<1>3. rows' \in Seq(Nat) /\ Len(rows') \in Nat
  <2>1. Append(rows, row) \in Seq(Nat)
    BY <1>2, AppendOf
  <2>2. rows' \in Seq(Nat)
    BY <1>1, <1>2, <2>1
  <2> QED BY <2>2
<1>4. /\ bridge' \in BridgeTypes /\ bridge'.base = Len(rows') /\ bridge'.tx = "idle"
      /\ bridge'.received = 0 /\ bridge'.early = 0 /\ bridge'.written = 0 /\ bridge'.failed = 0
  BY <1>1, <1>3, StartedType
<1>5. transit' \in [Subscribers -> Seq(Nat)] /\ Coming' = <<>> /\ Len(Coming') = 0
  BY <1>1, <1>2 DEF Coming, Subscribers
<1>6. TypesOK'
  BY <1>1, <1>3, <1>4, <1>5 DEF LineInv, Line, TypesOK
<1>7. /\ \A i \in 1..Len(rows') : rows'[i] \in 1..Len(records) /\ records[rows'[i]].kind = "good"
      /\ \A i, j \in 1..Len(rows') : i < j => rows'[i] < rows'[j]
  <2>1. CASE rows' = rows
    BY <2>1 DEF LineInv, Line, Published, Ordered
  <2>2. CASE rows' = Append(rows, row) /\ row # 0 /\ records[row].kind = "good"
    <3>1. /\ Len(rows') = Len(rows) + 1 /\ Len(rows) \in Nat
          /\ \A i \in 1..Len(rows) : rows'[i] = rows[i]
          /\ rows'[Len(rows) + 1] = row
      BY <1>2, <2>2, AppendOf
    <3> QED BY <1>2, <2>2, <3>1 DEF LineInv, Line, Published, Ordered
  <2> QED BY <1>1, <2>1, <2>2
<1>8. Line'
  BY <1>1, <1>2, <1>5, <1>6, <1>7 DEF Line, Published, Ordered
<1> QED BY <1>1, <1>3, <1>4, <1>8 DEF LineInv, OpenHolds, Books

-----------------------------------------------------------------------------
\* A step that leaves the bridge as it is.
LEMMA ElsewhereStep ==
  ASSUME LineInv, UNCHANGED <<records, bridge, row, rows>>, transit' \in [Subscribers -> Seq(Nat)],
         Coming' \in {Coming, <<>>}
  PROVE  LineInv'
<1>1. Line'
  BY QuietLine DEF LineInv, Line, TypesOK
<1> QED BY <1>1 DEF LineInv, OpenHolds, Books

LEMMA PublishStep ==
  ASSUME LineInv, NEW st \in Stations, NEW kind \in Kinds, Publish(st, kind)
  PROVE  LineInv'
<1>1. /\ Line' /\ \A k \in 1..Len(records) : records'[k] = records[k]
      /\ UNCHANGED <<bridge, row, rows>>
  BY PublishLine DEF Publish, LineInv
<1>2. row # 0 => row \in 1..Len(records)
  BY DEF LineInv, Line, TypesOK, Published
<1>3. OpenHolds' /\ Books'
  BY <1>1, <1>2 DEF LineInv, OpenHolds, Books
<1> QED BY <1>1, <1>3 DEF LineInv

LEMMA LinkStep ==
  ASSUME LineInv, NEW s \in Subscribers, Disconnect(s) \/ Connect(s)
  PROVE  LineInv'
<1>1. transit \in [Subscribers -> Seq(Nat)]
  BY DEF LineInv, Line, TypesOK
<1>2. transit' \in [Subscribers -> Seq(Nat)] /\ Coming' \in {Coming, <<>>}
  <2>1. CASE Connect(s)
    BY <1>1, <2>1 DEF Connect, Coming
  <2>2. CASE Disconnect(s)
    <3>1. transit' = [transit EXCEPT ![s] = <<>>] /\ <<>> \in Seq(Nat)
      BY <2>2 DEF Disconnect
    <3> QED BY <1>1, <3>1 DEF Coming, Subscribers
  <2> QED BY <2>1, <2>2
<1> QED BY <1>2, ElsewhereStep DEF Disconnect, Connect

LEMMA FeedStep == ASSUME LineInv, Feed PROVE LineInv'
<1>1. CASE OnTelemetry
  <2>1. transit' \in [Subscribers -> Seq(Nat)] /\ Coming' = Coming
    BY <1>1, TakenFrom DEF OnTelemetry, Subscribers
  <2> QED BY <1>1, <2>1, ElsewhereStep DEF OnTelemetry
<1>2. CASE UNCHANGED telemetryVars
  <2>1. UNCHANGED <<records, transit, bridge, row, rows>>
    BY <1>2 DEF telemetryVars
  <2> QED BY <2>1, ElsewhereStep DEF LineInv, Line, TypesOK, Coming
<1>3. OnTelemetry \/ UNCHANGED telemetryVars
  BY DEF Feed, Broadcast, Break, Send, Prune, OpenSocket, Accept, Lose, Leave, Switch
<1> QED BY <1>1, <1>2, <1>3

LEMMA LineInvariant == Spec => []LineInv
<1>1. Init => LineInv
  <2> SUFFICES ASSUME Init PROVE LineInv
    OBVIOUS
  <2>1. /\ records = <<>> /\ rows = <<>> /\ row = 0 /\ bridge = Started(0)
        /\ transit = [s \in Subscribers |-> <<>>]
    BY DEF Init, InitTelemetry
  <2>2. TypesOK /\ Len(records) = 0 /\ Len(rows) = 0 /\ Len(Coming) = 0
    BY <2>1, StartedType DEF TypesOK, Coming, Subscribers
  <2>3. OpenHolds /\ Books
    BY <2>1, <2>2, StartedType DEF OpenHolds, Books
  <2> QED BY <2>1, <2>2, <2>3 DEF LineInv, Line, Published, Ordered
<1>2. LineInv /\ [Next]_vars => LineInv'
  <2> SUFFICES ASSUME LineInv, [Next]_vars PROVE LineInv'
    OBVIOUS
  <2>1. ASSUME NEW st \in Stations, NEW kind \in Kinds, Publish(st, kind) PROVE LineInv'
    BY <2>1, PublishStep
  <2>2. ASSUME NEW s \in Subscribers, Disconnect(s) \/ Connect(s) PROVE LineInv'
    BY <2>2, LinkStep
  <2>3. CASE Bridge
    BY <2>3, DropStep, ReceiveStep, RegisterStep, RefuseStep, InsertStep, CommitStep,
       CommitFailsStep, RestartStep DEF Bridge
  <2>4. CASE Feed
    BY <2>4, FeedStep
  <2>5. CASE UNCHANGED vars
    <3>1. UNCHANGED <<records, transit, bridge, row, rows>>
      BY <2>5 DEF vars, telemetryVars
    <3> QED BY <3>1, ElsewhereStep DEF LineInv, Line, TypesOK, Coming
  <2> QED BY <2>1, <2>2, <2>3, <2>4, <2>5 DEF Next, Kinds
<1> QED BY <1>1, <1>2, PTL DEF Spec

\* However many records, restarts and broken links there are, the bridge's counters add
\* up to what it received, and to what it found and stored.
THEOREM AccountsBalance == Spec => []BridgeAccounts
<1>1. LineInv => BridgeAccounts
  <2> SUFFICES ASSUME LineInv PROVE BridgeAccounts
    OBVIOUS
  <2>1. /\ Len(rows) \in Nat /\ bridge.base \in Nat /\ bridge.written \in Nat
    BY DEF LineInv, Line, TypesOK, BridgeTypes
  <2> QED BY <2>1 DEF LineInv, Books, BridgeAccounts
<1> QED BY LineInvariant, <1>1, PTL

\* The table is a subsequence of the good records, in the order of their publication.
THEOREM TableInOrder == Spec => []RowsInOrder
<1>1. LineInv => RowsInOrder
  <2> SUFFICES ASSUME LineInv PROVE RowsInOrder
    OBVIOUS
  <2>1. DOMAIN rows = 1..Len(rows)
    BY DEF LineInv, Line, TypesOK
  <2> QED BY <2>1 DEF LineInv, Line, Published, Ordered, RowsInOrder
<1> QED BY LineInvariant, <1>1, PTL

-----------------------------------------------------------------------------
(***************************************************************************)
(* The live feed: what a page shows of what was published, while sockets   *)
(* come and go under the broadcasts.                                       *)
(***************************************************************************)
Broadcasts == [id : Nat, started : BOOLEAN, over : SUBSET Sockets, visited : SUBSET Sockets, dead : SUBSET Sockets]

FeedTypes ==
  /\ latest \in [Stations -> Nat] /\ members \in [Stations -> SUBSET Sockets]
  /\ handler \in [Sockets -> Stations \union {NoStation}]
  /\ joined \subseteq Sockets /\ open \subseteq Sockets /\ broadcasts \subseteq Broadcasts
  /\ selected \in [Browsers -> Stations] /\ shown \in [Browsers -> Nat]

\* The records on their way to the web API.
Inbox == transit["web"]

\* Records arrive in the order of their publication.
InboxInOrder ==
  /\ \A j \in 1..Len(Inbox) : Inbox[j] \in 1..Len(records)
  /\ \A i, j \in 1..Len(Inbox) : i < j => Inbox[i] < Inbox[j]
  /\ \A j \in 1..Len(Inbox) : (\A t \in broadcasts : t.id < Inbox[j]) /\ \A st \in Stations : latest[st] < Inbox[j]
  /\ \A t \in broadcasts : t.id \in 1..Len(records) /\ t.id <= latest[Station(t)]
  /\ \A st \in Stations : latest[st] <= Len(records)

\* A broadcast that has begun is behind those before it.
Loops ==
  /\ \A t \in broadcasts : ~t.started => t.over = {} /\ t.visited = {} /\ t.dead = {}
  /\ \A t \in broadcasts : t.dead \subseteq t.visited /\ t.dead \intersect open = {}
  /\ \A t, u \in broadcasts : Station(t) = Station(u) /\ u.id < t.id => t.visited \subseteq u.visited
  /\ \A t \in broadcasts, st \in Stations :
       ~t.started /\ t.id < latest[st] => \E u \in broadcasts : u.id = latest[st] /\ Station(u) = st /\ ~u.started

\* Who is a member of which set.
Membership ==
  /\ \A ws \in joined : handler[ws] # NoStation
  /\ \A st \in Stations : \A ws \in members[st] : ws \in joined /\ handler[ws] = st
  /\ \A ws \in joined \intersect open : ws \in members[handler[ws]]
  /\ \A ws, other \in open : ws[1] = other[1] => ws = other
  /\ \A t \in broadcasts : \A ws \in t.over \union t.visited : handler[ws] = NoStation \/ ws \in joined

Newest(ws) == latest[handler[ws]]

\* The page has the newest record of its station, or that is on its way; or the set of sockets has
\* changed under a broadcast that the page depends on.
Informed(ws) ==
  \/ Newest(ws) \in {0, shown[ws[1]]} \union cut
  \/ shown[ws[1]] \in cut
  \/ \E t \in broadcasts : t.id = Newest(ws) /\ Station(t) = handler[ws] /\ ws \notin t.visited
  \/ \E u \in broadcasts : u.id = shown[ws[1]] /\ Station(u) = handler[ws] /\ u.started /\ ws \notin u.over

\* An older record can still reach the page only before the newest one does.
Overtaken(ws) ==
  \A v \in broadcasts :
    Station(v) = handler[ws] /\ v.id < Newest(ws) /\ ws \notin v.visited /\ ws \in Over(v)
      => Newest(ws) \in cut \/ \E t \in broadcasts : t.id = Newest(ws) /\ Station(t) = handler[ws]

PagesInv == \A ws \in joined \intersect open : Informed(ws) /\ Overtaken(ws)

FeedInv == FeedTypes /\ InboxInOrder /\ Loops /\ Membership /\ PagesInv

LEMMA ElementOf == ASSUME NEW S, NEW s \in Seq(S), NEW i \in 1..Len(s) PROVE s[i] \in S
OBVIOUS

-----------------------------------------------------------------------------
\* A record that was published stays what it is.
LEMMA StationKept ==
  ASSUME FeedInv, \A k \in 1..Len(records) : records'[k] = records[k], NEW t \in broadcasts
  PROVE  Station(t)' = Station(t) /\ t \in Broadcasts /\ t.id \in 1..Len(records)
BY DEF FeedInv, FeedTypes, InboxInOrder, Station

\* Nothing moves but the records and those on their way.
LEMMA PlainStep ==
  ASSUME FeedInv, UNCHANGED feedVars, \A k \in 1..Len(records) : records'[k] = records[k], InboxInOrder'
  PROVE  FeedInv'
<1> USE DEF feedVars
<1>1. \A t \in broadcasts : Station(t)' = Station(t)
  BY StationKept
<1>2. FeedTypes'
  BY DEF FeedInv, FeedTypes
<1>3. Loops'
  BY <1>1 DEF FeedInv, Loops
<1>4. Membership'
  BY DEF FeedInv, Membership
<1>5. PagesInv'
  <2> SUFFICES ASSUME NEW ws \in joined \intersect open PROVE Informed(ws)' /\ Overtaken(ws)'
    BY DEF PagesInv
  <2>1. Informed(ws) /\ Overtaken(ws)
    BY DEF FeedInv, PagesInv
  <2>2. Newest(ws)' = Newest(ws) /\ \A t \in broadcasts : Over(t)' = Over(t)
    BY <1>1 DEF Newest, Over
  <2>3. Informed(ws)'
    BY <1>1, <2>1, <2>2 DEF Informed
  <2>4. Overtaken(ws)'
    BY <1>1, <2>1, <2>2 DEF Overtaken
  <2> QED BY <2>3, <2>4
<1> QED BY <1>2, <1>3, <1>4, <1>5 DEF FeedInv

\* A record is published, and may be put in the inbox.
LEMMA PublishPages ==
  ASSUME LineInv, FeedInv, NEW st \in Stations, NEW kind \in Kinds, Publish(st, kind), UNCHANGED feedVars
  PROVE  FeedInv'
<1> DEFINE n == Len(records)
<1>1. Len(records') = n + 1 /\ n \in Nat /\ \A k \in 1..n : records'[k] = records[k]
  BY PublishLine DEF LineInv, Line, TypesOK
<1>2. Inbox \in Seq(Nat) /\ Len(Inbox) \in Nat
  BY DEF LineInv, Line, TypesOK, Inbox, Subscribers
<1>3. Inbox' = Inbox \/ Inbox' = Append(Inbox, n + 1)
  BY DEF Publish, Delivered, Inbox, LineInv, Line, TypesOK, Subscribers
<1>4. \A t \in broadcasts : Station(t)' = Station(t) /\ t.id \in 1..n /\ t.id \in Nat
  <2>1. \A t \in broadcasts : Station(t)' = Station(t) /\ t \in Broadcasts /\ t.id \in 1..Len(records)
    BY <1>1, StationKept
  <2> QED BY <2>1 DEF Broadcasts
<1> HIDE DEF n
<1>5. \A s \in Stations : latest[s] \in Nat /\ latest[s] <= n
  BY DEF FeedInv, FeedTypes, InboxInOrder, n
<1>6. /\ \A j \in 1..Len(Inbox) : Inbox[j] \in 1..n
      /\ \A i, j \in 1..Len(Inbox) : i < j => Inbox[i] < Inbox[j]
      /\ \A j \in 1..Len(Inbox) : (\A t \in broadcasts : t.id < Inbox[j]) /\ \A s \in Stations : latest[s] < Inbox[j]
      /\ \A t \in broadcasts : t.id <= latest[Station(t)]
  BY DEF FeedInv, InboxInOrder, n
<1>7. UNCHANGED <<broadcasts, latest>>
  BY DEF feedVars
<1>8. InboxInOrder'
  <2>1. CASE Inbox' = Inbox
    BY <1>1, <1>2, <1>4, <1>5, <1>6, <1>7, <2>1 DEF InboxInOrder
  <2>2. CASE Inbox' = Append(Inbox, n + 1)
    <3>1. /\ Len(Inbox') = Len(Inbox) + 1
          /\ \A j \in 1..Len(Inbox) : Inbox'[j] = Inbox[j]
          /\ Inbox'[Len(Inbox) + 1] = n + 1
      BY <1>1, <1>2, <2>2, AppendOf
    <3>2. ASSUME NEW j \in 1..Len(Inbox')
          PROVE  /\ Inbox'[j] \in 1..n + 1
                 /\ \A t \in broadcasts : t.id < Inbox'[j]
                 /\ \A s \in Stations : latest[s] < Inbox'[j]
                 /\ \A i \in 1..Len(Inbox') : i < j => Inbox'[i] < Inbox'[j]
      <4>1. CASE j = Len(Inbox) + 1
        <5>1. \A i \in 1..Len(Inbox') : i < j => i \in 1..Len(Inbox) /\ Inbox'[i] = Inbox[i] /\ Inbox[i] \in 1..n
          BY <1>2, <1>6, <3>1, <4>1
        <5>2. Inbox'[j] = n + 1
          BY <3>1, <4>1
        <5> QED BY <1>1, <1>4, <1>5, <5>1, <5>2
      <4>2. CASE j # Len(Inbox) + 1
        <5>1. j \in 1..Len(Inbox) /\ \A i \in 1..Len(Inbox') : i < j => i \in 1..Len(Inbox)
          BY <1>2, <3>1, <4>2
        <5> QED BY <1>1, <1>6, <3>1, <5>1
      <4> QED BY <4>1, <4>2
    <3>3. ASSUME NEW t \in broadcasts PROVE t.id \in 1..n + 1 /\ t.id <= latest[Station(t)']
      BY <1>1, <1>4, <1>6
    <3>4. ASSUME NEW s \in Stations PROVE latest[s] <= n + 1
      BY <1>1, <1>5
    <3> QED BY <1>1, <1>7, <3>2, <3>3, <3>4 DEF InboxInOrder
  <2> QED BY <1>3, <2>1, <2>2
<1> QED BY <1>1, <1>8, PlainStep DEF n

\* A link, or the bridge, does something.
LEMMA QuietPages ==
  ASSUME LineInv, FeedInv, UNCHANGED feedVars, UNCHANGED records, Inbox' \in {Inbox, <<>>}
  PROVE  FeedInv'
<1>1. \A t \in broadcasts : Station(t)' = Station(t)
  BY StationKept
<1>2. InboxInOrder'
  <2>1. CASE Inbox' = Inbox
    BY <1>1, <2>1 DEF FeedInv, InboxInOrder, feedVars
  <2>2. CASE Inbox' = <<>>
    <3>1. Len(Inbox') = 0
      BY <2>2
    <3> QED BY <1>1, <3>1 DEF FeedInv, InboxInOrder, feedVars
  <2> QED BY <2>1, <2>2
<1> QED BY <1>2, PlainStep

-----------------------------------------------------------------------------
\* A record is taken, and a broadcast scheduled.
LEMMA TakePages == ASSUME LineInv, FeedInv, OnTelemetry PROVE FeedInv'
<1> DEFINE id == Inbox[1]
           st == records[id].station
           new == [id |-> id, started |-> FALSE, over |-> {}, visited |-> {}, dead |-> {}]
<1>1. Inbox \in Seq(Nat) /\ Inbox # <<>> /\ records \in Seq([station : Stations, kind : Kinds])
  BY DEF OnTelemetry, LineInv, Line, TypesOK, Inbox, Subscribers
<1>2. /\ Inbox' = Tail(Inbox) /\ records' = records
      /\ latest' = [latest EXCEPT ![st] = id] /\ broadcasts' = broadcasts \union {new}
      /\ UNCHANGED <<members, handler, joined, open, selected, shown, cut>>
  BY <1>1 DEF OnTelemetry, TakeFrom, Inbox, Arriving, LineInv, Line, TypesOK, Subscribers
<1>3. /\ Len(Inbox') = Len(Inbox) - 1 /\ Len(Inbox) >= 1 /\ Len(Inbox) \in Nat
      /\ \A j \in 1..Len(Inbox') : Inbox'[j] = Inbox[j + 1] /\ j + 1 \in 1..Len(Inbox)
  BY <1>1, <1>2, TailOf
<1>4. /\ id \in 1..Len(records) /\ id \in Nat /\ st \in Stations
      /\ \A t \in broadcasts : t.id < id
      /\ \A s \in Stations : latest[s] < id
      /\ \A j \in 1..Len(Inbox') : id < Inbox'[j]
  <2>1. 1 \in 1..Len(Inbox) /\ Len(records) \in Nat
    BY <1>1, <1>3
  <2>2. id \in 1..Len(records) /\ id \in Nat
    BY <1>1, <2>1 DEF FeedInv, InboxInOrder
  <2>3. records[id] \in [station : Stations, kind : Kinds]
    BY <1>1, <2>2, ElementOf
  <2>4. \A j \in 1..Len(Inbox') : j + 1 \in 1..Len(Inbox) /\ 1 < j + 1 /\ Inbox'[j] = Inbox[j + 1]
    BY <1>3
  <2> QED BY <2>1, <2>2, <2>3, <2>4 DEF FeedInv, InboxInOrder
<1>5. /\ new \in Broadcasts /\ new.id = id /\ ~new.started
      /\ new.over = {} /\ new.visited = {} /\ new.dead = {}
  BY <1>4 DEF Broadcasts
<1>6. Station(new) = st /\ \A t : Station(t)' = Station(t)
  BY <1>2 DEF Station
<1> HIDE DEF new, id, st
<1>7. /\ latest \in [Stations -> Nat] /\ latest'[st] = id
      /\ \A s \in Stations : s # st => latest'[s] = latest[s]
  BY <1>2, <1>4 DEF FeedInv, FeedTypes
<1>8. /\ \A t \in broadcasts : t \in Broadcasts /\ t.id \in Nat /\ t.id < id
      /\ \A t \in broadcasts' : t \in broadcasts \/ t = new
  BY <1>2, <1>4 DEF FeedInv, FeedTypes, Broadcasts
<1>9. FeedTypes'
  BY <1>2, <1>4, <1>5 DEF FeedInv, FeedTypes
<1>10. InboxInOrder'
  <2>1. ASSUME NEW j \in 1..Len(Inbox')
        PROVE  /\ Inbox'[j] \in 1..Len(records)
               /\ \A t \in broadcasts' : t.id < Inbox'[j]
               /\ \A s \in Stations : latest'[s] < Inbox'[j]
               /\ \A i \in 1..Len(Inbox') : i < j => Inbox'[i] < Inbox'[j]
    <3>1. j + 1 \in 1..Len(Inbox) /\ Inbox'[j] = Inbox[j + 1]
      BY <1>3
    <3>2. \A i \in 1..Len(Inbox') : i + 1 \in 1..Len(Inbox) /\ Inbox'[i] = Inbox[i + 1] /\ (i < j => i + 1 < j + 1)
      BY <1>3
    <3>3. id < Inbox'[j]
      BY <1>4
    <3>4. \A t \in broadcasts' : t.id < Inbox'[j]
      BY <1>5, <1>8, <3>1, <3>3 DEF FeedInv, InboxInOrder
    <3>5. \A s \in Stations : latest'[s] < Inbox'[j]
      BY <1>7, <3>1, <3>3 DEF FeedInv, InboxInOrder
    <3> QED BY <3>1, <3>2, <3>4, <3>5 DEF FeedInv, InboxInOrder
  <2>2. ASSUME NEW t \in broadcasts' PROVE t.id \in 1..Len(records) /\ t.id <= latest'[Station(t)]
    <3>1. CASE t = new
      BY <1>4, <1>5, <1>6, <1>7, <3>1
    <3>2. CASE t \in broadcasts
      <4>1. t.id \in 1..Len(records) /\ t.id <= latest[Station(t)]
        BY <3>2 DEF FeedInv, InboxInOrder
      <4>2. Station(t) \in Stations
        <5>1. records[t.id] \in [station : Stations, kind : Kinds]
          BY <1>1, <4>1, ElementOf
        <5> QED BY <5>1 DEF Station
      <4>3. CASE Station(t) = st
        BY <1>4, <1>7, <1>8, <3>2, <4>1, <4>3
      <4>4. CASE Station(t) # st
        BY <1>7, <4>1, <4>2, <4>4
      <4> QED BY <4>3, <4>4
    <3> QED BY <1>8, <3>1, <3>2
  <2>3. ASSUME NEW s \in Stations PROVE latest'[s] <= Len(records)
    BY <1>4, <1>7 DEF FeedInv, InboxInOrder
  <2> QED BY <1>2, <1>6, <2>1, <2>2, <2>3 DEF InboxInOrder
<1>11. Loops'
  <2>1. \A t \in broadcasts' : ~t.started => t.over = {} /\ t.visited = {} /\ t.dead = {}
    BY <1>5, <1>8 DEF FeedInv, Loops
  <2>2. \A t \in broadcasts' : t.dead \subseteq t.visited /\ t.dead \intersect open = {}
    BY <1>5, <1>8 DEF FeedInv, Loops
  <2>3. ASSUME NEW t \in broadcasts', NEW u \in broadcasts', Station(t) = Station(u), u.id < t.id
        PROVE  t.visited \subseteq u.visited
    <3>1. t = new \/ (t \in broadcasts /\ u \in broadcasts)
      <4>1. ~(u = new /\ t \in broadcasts)
        BY <1>4, <1>5, <1>8, <2>3
      <4> QED BY <1>8, <4>1
    <3> QED BY <1>5, <2>3, <3>1 DEF FeedInv, Loops
  <2>4. ASSUME NEW t \in broadcasts', NEW s \in Stations, ~t.started, t.id < latest'[s]
        PROVE  \E u \in broadcasts' : u.id = latest'[s] /\ Station(u) = s /\ ~u.started
    <3>1. CASE s = st
      BY <1>2, <1>5, <1>6, <1>7, <3>1
    <3>2. CASE s # st
      <4>1. latest'[s] = latest[s] /\ latest[s] < id /\ latest[s] \in Nat
        BY <1>4, <1>7, <3>2
      <4>2. t \in broadcasts
        BY <1>4, <1>5, <1>8, <2>4, <4>1
      <4> QED BY <1>2, <2>4, <4>1, <4>2 DEF FeedInv, Loops
    <3> QED BY <3>1, <3>2
  <2> QED BY <1>2, <1>6, <2>1, <2>2, <2>3, <2>4 DEF Loops
<1>12. Membership'
  <2>1. \A t \in broadcasts' : \A ws \in t.over \union t.visited : handler[ws] = NoStation \/ ws \in joined
    BY <1>5, <1>8 DEF FeedInv, Membership
  <2> QED BY <1>2, <2>1 DEF FeedInv, Membership
<1>13. PagesInv'
  <2> SUFFICES ASSUME NEW ws \in joined \intersect open PROVE Informed(ws)' /\ Overtaken(ws)'
    BY <1>2 DEF PagesInv
  <2>1. Informed(ws) /\ Overtaken(ws) /\ handler[ws] \in Stations
    BY DEF FeedInv, FeedTypes, Membership, PagesInv
  <2>2. \A t : Over(t)' = Over(t)
    BY <1>2, <1>6 DEF Over
  <2>3. new \in broadcasts' /\ \A t \in broadcasts : t \in broadcasts'
    BY <1>2
  <2>4. CASE handler[ws] = st
    <3>1. Newest(ws)' = id
      BY <1>2, <1>7, <2>4 DEF Newest
    <3>2. Informed(ws)'
      BY <1>2, <1>5, <1>6, <2>3, <2>4, <3>1 DEF Informed
    <3>3. Overtaken(ws)'
      BY <1>2, <1>5, <1>6, <2>3, <2>4, <3>1 DEF Overtaken
    <3> QED BY <3>2, <3>3
  <2>5. CASE handler[ws] # st
    <3>1. Newest(ws)' = Newest(ws)
      BY <1>2, <1>7, <2>1, <2>5 DEF Newest
    <3>2. Informed(ws)'
      BY <1>2, <1>6, <2>1, <2>3, <3>1 DEF Informed
    <3>3. Overtaken(ws)'
      <4> SUFFICES ASSUME NEW v \in broadcasts', Station(v) = handler[ws], v.id < Newest(ws),
                          ws \notin v.visited, ws \in Over(v)
                   PROVE  Newest(ws) \in cut \/ \E t \in broadcasts' : t.id = Newest(ws) /\ Station(t) = handler[ws]
        BY <1>2, <1>6, <2>2, <3>1 DEF Overtaken
      <4>1. v \in broadcasts
        BY <1>6, <1>8, <2>5
      <4> QED BY <2>1, <2>3, <4>1 DEF Overtaken
    <3> QED BY <3>2, <3>3
  <2> QED BY <2>4, <2>5
<1> QED BY <1>9, <1>10, <1>11, <1>12, <1>13 DEF FeedInv

-----------------------------------------------------------------------------
\* A broadcast that may run now was scheduled before all that have not begun.
LEMMA StartsInOrder ==
  ASSUME FeedInv, NEW t \in Runnable, NEW v \in broadcasts, ~v.started, v.id < t.id
  PROVE  t.started
<1>1. t \in Broadcasts /\ v \in Broadcasts /\ t \in broadcasts
  BY DEF FeedInv, FeedTypes, Runnable
<1>2. t.id \in Nat /\ v.id \in Nat
  BY <1>1 DEF Broadcasts
<1>3. ~(t.id <= v.id)
  BY <1>2
<1> QED BY <1>3 DEF Runnable

\* A page that still depends on a broadcast when it ends finds it cut.
LEMMA DependedIsCut ==
  ASSUME FeedInv, NEW t \in Runnable, Break(t) \/ Prune(t), NEW ws \in joined \intersect open,
         Station(t) = handler[ws], ws \notin t.visited \/ (t.started /\ ws \notin t.over)
  PROVE  t.id \in cut'
<1>1. ws \in members[Station(t)]
  BY DEF FeedInv, Membership
<1>2. CASE Break(t)
  BY <1>2 DEF Break
<1>3. CASE Prune(t)
  <2>1. members[Station(t)] # Over(t)
    BY <1>1, <1>3 DEF Prune, Over
  <2> QED BY <1>3, <2>1 DEF Prune
<1> QED BY <1>2, <1>3

\* A broadcast ends.
LEMMA EndPages == ASSUME FeedInv, NEW t \in Runnable, Break(t) \/ Prune(t) PROVE FeedInv'
<1>1. /\ broadcasts' = broadcasts \ {t} /\ cut \subseteq cut' /\ t \in broadcasts
      /\ UNCHANGED <<records, transit, latest, handler, joined, open, selected, shown>>
      /\ members' = members \/ members' = [members EXCEPT ![Station(t)] = @ \ t.dead]
  BY DEF Break, Prune, telemetryVars, Runnable
<1>2. \A u : Station(u)' = Station(u)
  BY <1>1 DEF Station
<1>3. /\ members \in [Stations -> SUBSET Sockets] /\ t \in Broadcasts
      /\ members' \in [Stations -> SUBSET Sockets]
      /\ \A s \in Stations : members'[s] \subseteq members[s] /\ members[s] \ t.dead \subseteq members'[s]
  <2>1. members \in [Stations -> SUBSET Sockets] /\ t \in Broadcasts
    BY <1>1 DEF FeedInv, FeedTypes
  <2> QED BY <1>1, <2>1
<1>4. FeedTypes'
  BY <1>1, <1>3 DEF FeedInv, FeedTypes
<1>5. InboxInOrder'
  BY <1>1, <1>2 DEF FeedInv, InboxInOrder, Inbox
<1>6. Loops'
  <2>1. ASSUME NEW v \in broadcasts', NEW s \in Stations, ~v.started, v.id < latest[s]
        PROVE  \E u \in broadcasts' : u.id = latest[s] /\ Station(u) = s /\ ~u.started
    <3>1. PICK u \in broadcasts : u.id = latest[s] /\ Station(u) = s /\ ~u.started
      BY <1>1, <2>1 DEF FeedInv, Loops
    <3>2. u # t
      BY <1>1, <2>1, <3>1, StartsInOrder
    <3> QED BY <1>1, <3>1, <3>2
  <2>2. /\ \A v \in broadcasts' : ~v.started => v.over = {} /\ v.visited = {} /\ v.dead = {}
        /\ \A v \in broadcasts' : v.dead \subseteq v.visited /\ v.dead \intersect open = {}
        /\ \A v, u \in broadcasts' : Station(v) = Station(u) /\ u.id < v.id => v.visited \subseteq u.visited
    BY <1>1 DEF FeedInv, Loops
  <2> QED BY <1>1, <1>2, <2>1, <2>2 DEF Loops
<1>7. Membership'
  <2>1. \A s \in Stations : \A ws \in members'[s] : ws \in joined /\ handler[ws] = s
    BY <1>3 DEF FeedInv, Membership
  <2>2. ASSUME NEW ws \in joined \intersect open PROVE ws \in members'[handler[ws]]
    <3>1. ws \in members[handler[ws]] /\ handler[ws] \in Stations
      BY DEF FeedInv, FeedTypes, Membership
    <3>2. ws \notin t.dead
      BY <1>1 DEF FeedInv, Loops
    <3> QED BY <1>3, <3>1, <3>2
  <2> QED BY <1>1, <2>1, <2>2 DEF FeedInv, Membership
<1>8. PagesInv'
  <2> SUFFICES ASSUME NEW ws \in joined \intersect open PROVE Informed(ws)' /\ Overtaken(ws)'
    BY <1>1 DEF PagesInv
  <2>1. Informed(ws) /\ Overtaken(ws) /\ handler[ws] \in Stations
    BY DEF FeedInv, FeedTypes, Membership, PagesInv
  <2>2. Newest(ws)' = Newest(ws) /\ shown'[ws[1]] = shown[ws[1]] /\ handler'[ws] = handler[ws]
    BY <1>1 DEF Newest
  <2>3. Informed(ws)'
    <3>1. CASE Newest(ws) \in {0, shown[ws[1]]} \union cut \/ shown[ws[1]] \in cut
      BY <1>1, <2>2, <3>1 DEF Informed
    <3>2. ASSUME NEW u \in broadcasts, u.id = Newest(ws), Station(u) = handler[ws], ws \notin u.visited
          PROVE  Informed(ws)'
      <4>1. CASE u = t
        BY <1>1, <2>2, <3>2, <4>1, DependedIsCut DEF Informed
      <4>2. CASE u # t
        BY <1>1, <1>2, <2>2, <3>2, <4>2 DEF Informed
      <4> QED BY <4>1, <4>2
    <3>3. ASSUME NEW u \in broadcasts, u.id = shown[ws[1]], Station(u) = handler[ws], u.started, ws \notin u.over
          PROVE  Informed(ws)'
      <4>1. CASE u = t
        BY <1>1, <2>2, <3>3, <4>1, DependedIsCut DEF Informed
      <4>2. CASE u # t
        BY <1>1, <1>2, <2>2, <3>3, <4>2 DEF Informed
      <4> QED BY <4>1, <4>2
    <3> QED BY <2>1, <3>1, <3>2, <3>3 DEF Informed
  <2>4. Overtaken(ws)'
    <3> SUFFICES ASSUME NEW v \in broadcasts', Station(v) = handler[ws], v.id < Newest(ws),
                        ws \notin v.visited, ws \in Over(v)'
                 PROVE  Newest(ws) \in cut' \/ \E u \in broadcasts' : u.id = Newest(ws) /\ Station(u) = handler[ws]
      BY <1>2, <2>2 DEF Overtaken
    <3>1. ws \in Over(v) /\ v \in broadcasts
      <4>1. v \in broadcasts /\ Station(v) \in Stations
        BY <1>1, <2>1
      <4> QED BY <1>2, <1>3, <4>1 DEF Over
    <3>2. CASE Newest(ws) \in cut
      BY <1>1, <3>2
    <3>3. ASSUME NEW u \in broadcasts, u.id = Newest(ws), Station(u) = handler[ws]
          PROVE  Newest(ws) \in cut' \/ \E w \in broadcasts' : w.id = Newest(ws) /\ Station(w) = handler[ws]
      <4>1. CASE u = t
        <5>1. ws \notin t.visited
          BY <3>1, <3>3, <4>1 DEF FeedInv, Loops
        <5> QED BY <3>3, <4>1, <5>1, DependedIsCut
      <4>2. CASE u # t
        BY <1>1, <3>3, <4>2
      <4> QED BY <4>1, <4>2
    <3> QED BY <2>1, <3>1, <3>2, <3>3 DEF Overtaken
  <2> QED BY <2>3, <2>4
<1> QED BY <1>4, <1>5, <1>6, <1>7, <1>8 DEF FeedInv

-----------------------------------------------------------------------------
\* A broadcast sends to one socket.
LEMMA SendPages == ASSUME LineInv, FeedInv, NEW t \in Runnable, NEW w \in Sockets, Send(t, w) PROVE FeedInv'
<1> DEFINE next == [t EXCEPT !.started = TRUE, !.over = Over(t), !.visited = @ \union {w},
                             !.dead = IF w \in open THEN @ ELSE @ \union {w}]
           st == Station(t)
<1>1. /\ broadcasts' = (broadcasts \ {t}) \union {next} /\ t \in broadcasts
      /\ shown' = IF w \in open THEN [shown EXCEPT ![w[1]] = t.id] ELSE shown
      /\ w \in members[st] \ t.visited
      /\ \A u \in broadcasts : Station(u) = st /\ u.id < t.id => w \in u.visited
      /\ UNCHANGED <<records, transit, latest, members, handler, joined, open, selected, cut>>
  BY DEF Send, MaySend, InSendOrder, telemetryVars, Runnable
<1>2. t \in Broadcasts /\ members \in [Stations -> SUBSET Sockets] /\ shown \in [Browsers -> Nat]
      /\ t.id \in 1..Len(records) /\ t.id <= latest[st] /\ t.id \in Nat
  BY <1>1 DEF FeedInv, FeedTypes, InboxInOrder, Broadcasts
<1>3. st \in Stations
  <2>1. records[t.id] \in [station : Stations, kind : Kinds]
    BY <1>2, ElementOf DEF LineInv, Line, TypesOK
  <2> QED BY <2>1 DEF Station
<1>4. Over(t) \subseteq Sockets
  BY <1>2, <1>3 DEF Over, Broadcasts
<1>5. /\ next \in Broadcasts /\ next.id = t.id /\ next.started /\ next.over = Over(t)
      /\ next.visited = t.visited \union {w}
      /\ next.dead = IF w \in open THEN t.dead ELSE t.dead \union {w}
  BY <1>2, <1>4 DEF Broadcasts
<1>6. /\ \A u : Station(u)' = Station(u)
      /\ Station(next) = st
  BY <1>1, <1>5 DEF Station
<1> HIDE DEF next
<1>7. /\ \A u \in broadcasts' : u = next \/ (u \in broadcasts /\ u # t)
      /\ \A u \in broadcasts : u = t \/ u \in broadcasts'
      /\ next \in broadcasts'
  BY <1>1
<1>8. FeedTypes'
  <2>1. shown' \in [Browsers -> Nat]
    BY <1>1, <1>2
  <2> QED BY <1>1, <1>5, <2>1 DEF FeedInv, FeedTypes
<1>9. InboxInOrder'
  BY <1>1, <1>5, <1>6, <1>7 DEF FeedInv, InboxInOrder, Inbox
<1>10. w \in joined /\ handler[w] = st
  BY <1>1, <1>3 DEF FeedInv, Membership
<1>11. Loops'
  <2>1. \A u \in broadcasts' : ~u.started => u.over = {} /\ u.visited = {} /\ u.dead = {}
    BY <1>5, <1>7 DEF FeedInv, Loops
  <2>2. \A u \in broadcasts' : u.dead \subseteq u.visited /\ u.dead \intersect open = {}
    BY <1>1, <1>5, <1>7 DEF FeedInv, Loops
  <2>3. ASSUME NEW a \in broadcasts', NEW b \in broadcasts', Station(a) = Station(b), b.id < a.id
        PROVE  a.visited \subseteq b.visited
    <3>1. CASE a = next /\ b = next
      BY <1>2, <1>5, <2>3, <3>1
    <3>2. CASE a = next /\ b # next
      <4>1. b \in broadcasts /\ b.id < t.id /\ Station(b) = st
        BY <1>5, <1>6, <1>7, <2>3, <3>2
      <4>2. t.visited \subseteq b.visited /\ w \in b.visited
        BY <1>1, <4>1 DEF FeedInv, Loops
      <4> QED BY <1>5, <3>2, <4>2
    <3>3. CASE a # next /\ b = next
      <4>1. a \in broadcasts /\ t.id < a.id /\ Station(a) = st
        BY <1>5, <1>6, <1>7, <2>3, <3>3
      <4>2. a.visited \subseteq t.visited
        BY <1>1, <4>1 DEF FeedInv, Loops
      <4> QED BY <1>5, <3>3, <4>2
    <3>4. CASE a # next /\ b # next
      BY <1>7, <2>3, <3>4 DEF FeedInv, Loops
    <3> QED BY <3>1, <3>2, <3>3, <3>4
  <2>4. ASSUME NEW v \in broadcasts', NEW s \in Stations, ~v.started, v.id < latest[s]
        PROVE  \E u \in broadcasts' : u.id = latest[s] /\ Station(u) = s /\ ~u.started
    <3>1. v \in broadcasts
      BY <1>5, <1>7, <2>4
    <3>2. PICK u \in broadcasts : u.id = latest[s] /\ Station(u) = s /\ ~u.started
      BY <2>4, <3>1 DEF FeedInv, Loops
    <3>3. u # t
      BY <2>4, <3>1, <3>2, StartsInOrder
    <3> QED BY <1>7, <3>2, <3>3
  <2> QED BY <1>1, <1>6, <2>1, <2>2, <2>3, <2>4 DEF Loops
<1>12. Membership'
  <2>1. \A ws \in Over(t) : handler[ws] = NoStation \/ ws \in joined
    BY <1>1, <1>3 DEF Over, FeedInv, Membership
  <2>2. \A u \in broadcasts' : \A ws \in u.over \union u.visited : handler[ws] = NoStation \/ ws \in joined
    BY <1>1, <1>5, <1>7, <1>10, <2>1 DEF FeedInv, Membership
  <2> QED BY <1>1, <2>2 DEF FeedInv, Membership
<1>13. PagesInv'
  <2> SUFFICES ASSUME NEW ws \in joined \intersect open PROVE Informed(ws)' /\ Overtaken(ws)'
    BY <1>1 DEF PagesInv
  <2>1. Informed(ws) /\ Overtaken(ws) /\ handler[ws] \in Stations
    BY DEF FeedInv, FeedTypes, Membership, PagesInv
  <2>2. Newest(ws)' = Newest(ws) /\ handler'[ws] = handler[ws]
    BY <1>1 DEF Newest
  <2>3. Overtaken(ws)'
    <3> SUFFICES ASSUME NEW v \in broadcasts', Station(v) = handler[ws], v.id < Newest(ws),
                        ws \notin v.visited, ws \in Over(v)'
                 PROVE  Newest(ws) \in cut \/ \E u \in broadcasts' : u.id = Newest(ws) /\ Station(u) = handler[ws]
      BY <1>1, <1>6, <2>2 DEF Overtaken
    <3>1. PICK o \in broadcasts : /\ Station(o) = handler[ws] /\ o.id < Newest(ws)
                                  /\ ws \notin o.visited /\ ws \in Over(o)
      <4>1. CASE v = next
        <5>1. ws \in Over(t)
          BY <1>5, <4>1 DEF Over
        <5> QED BY <1>1, <1>5, <1>6, <4>1, <5>1
      <4>2. CASE v # next
        <5>1. Over(v)' = Over(v)
          BY <1>1, <1>6 DEF Over
        <5> QED BY <1>7, <4>2, <5>1
      <4> QED BY <4>1, <4>2
    <3>2. Newest(ws) \in cut \/ \E u \in broadcasts : u.id = Newest(ws) /\ Station(u) = handler[ws]
      BY <2>1, <3>1 DEF Overtaken
    <3> QED BY <1>5, <1>6, <1>7, <3>2
  <2>4. CASE ws # w
    <3>1. shown'[ws[1]] = shown[ws[1]]
      BY <1>1, <1>2, <2>4, FeedAssumption DEF FeedInv, FeedTypes, Membership
    <3>2. CASE Newest(ws) \in {0, shown[ws[1]]} \union cut \/ shown[ws[1]] \in cut
      BY <1>1, <2>2, <2>3, <3>1, <3>2 DEF Informed
    <3>3. CASE \E u \in broadcasts : u.id = Newest(ws) /\ Station(u) = handler[ws] /\ ws \notin u.visited
      <4>1. \E u \in broadcasts' : u.id = Newest(ws) /\ Station(u) = handler[ws] /\ ws \notin u.visited
        BY <1>5, <1>6, <1>7, <2>4, <3>3
      <4> QED BY <1>6, <2>2, <2>3, <4>1 DEF Informed
    <3>4. CASE \E u \in broadcasts : u.id = shown[ws[1]] /\ Station(u) = handler[ws] /\ u.started /\ ws \notin u.over
      <4>1. \E u \in broadcasts' : u.id = shown[ws[1]] /\ Station(u) = handler[ws] /\ u.started /\ ws \notin u.over
        BY <1>5, <1>6, <1>7, <3>4 DEF Over
      <4> QED BY <1>6, <2>2, <2>3, <3>1, <4>1 DEF Informed
    <3> QED BY <2>1, <3>2, <3>3, <3>4 DEF Informed
  <2>5. CASE ws = w
    <3>1. shown'[ws[1]] = t.id
      BY <1>1, <1>2, <2>5, FeedAssumption
    <3>2. handler[ws] = st /\ Newest(ws) = latest[st]
      BY <1>10, <2>5 DEF Newest
    <3>3. CASE t.id = Newest(ws)
      BY <2>2, <2>3, <3>1, <3>3 DEF Informed
    <3>4. CASE t.id # Newest(ws) /\ ws \in Over(t)
      <4>1. t.id < Newest(ws)
        <5>1. latest[st] \in Nat
          BY <1>3 DEF FeedInv, FeedTypes
        <5> QED BY <1>2, <3>2, <3>4, <5>1
      <4>2. Newest(ws) \in cut \/ \E u \in broadcasts : u.id = Newest(ws) /\ Station(u) = st
        BY <1>1, <2>1, <2>5, <3>2, <3>4, <4>1 DEF Overtaken
      <4>3. ASSUME NEW u \in broadcasts, u.id = Newest(ws), Station(u) = st PROVE u \in broadcasts' /\ ws \notin u.visited
        BY <1>1, <1>7, <2>5, <3>4, <4>1, <4>3 DEF FeedInv, Loops
      <4>4. Newest(ws) \in cut \/ \E u \in broadcasts' : u.id = Newest(ws) /\ Station(u) = st /\ ws \notin u.visited
        BY <4>2, <4>3
      <4> QED BY <1>1, <1>6, <2>2, <2>3, <3>2, <4>4 DEF Informed
    <3>5. CASE ws \notin Over(t)
      <4>1. next.id = shown'[ws[1]] /\ Station(next) = handler[ws] /\ next.started /\ ws \notin next.over
        BY <1>5, <1>6, <3>1, <3>2, <3>5
      <4> QED BY <1>6, <1>7, <2>2, <2>3, <4>1 DEF Informed
    <3> QED BY <3>3, <3>4, <3>5
  <2> QED BY <2>4, <2>5
<1> QED BY <1>8, <1>9, <1>11, <1>12, <1>13 DEF FeedInv

-----------------------------------------------------------------------------
\* A browser opens a socket that no broadcast knows.
LEMMA OpenPages == ASSUME FeedInv, NEW b \in Browsers, OpenSocket(b) PROVE FeedInv'
<1>1. PICK w \in Sockets :
        /\ w[1] = b /\ handler[w] = NoStation
        /\ \A t \in broadcasts : w \notin t.over \union t.visited
        /\ open' = open \union {w}
        /\ handler' = [handler EXCEPT ![w] = selected[b]]
  BY DEF OpenSocket
<1>2. /\ UNCHANGED <<records, transit, latest, members, joined, broadcasts, selected, shown, cut>>
      /\ \A ws \in open : ws[1] # b
  BY DEF OpenSocket, telemetryVars
<1>3. \A u : Station(u)' = Station(u) /\ Over(u)' = Over(u)
  BY <1>2 DEF Station, Over
<1>4. /\ handler \in [Sockets -> Stations \union {NoStation}] /\ selected[b] \in Stations
      /\ w \notin joined /\ joined \subseteq Sockets
  BY <1>1 DEF FeedInv, FeedTypes, Membership
<1>5. handler'[w] = selected[b] /\ \A ws \in Sockets : ws # w => handler'[ws] = handler[ws]
  BY <1>1, <1>4
<1>6. FeedTypes'
  BY <1>1, <1>2, <1>4 DEF FeedInv, FeedTypes
<1>7. InboxInOrder'
  BY <1>2, <1>3 DEF FeedInv, InboxInOrder, Inbox
<1>8. Loops'
  <2>1. \A t \in broadcasts : t.dead \subseteq t.visited /\ t.dead \intersect open' = {}
    BY <1>1 DEF FeedInv, Loops
  <2> QED BY <1>2, <1>3, <2>1 DEF FeedInv, Loops
<1>9. Membership'
  <2>1. \A ws \in joined : ws # w /\ handler'[ws] = handler[ws]
    BY <1>4, <1>5
  <2>2. \A s \in Stations : \A ws \in members[s] : ws \in joined /\ handler'[ws] = s
    BY <2>1 DEF FeedInv, Membership
  <2>3. \A ws \in joined \intersect open' : ws \in members[handler'[ws]]
    BY <1>1, <2>1 DEF FeedInv, Membership
  <2>4. \A ws, other \in open' : ws[1] = other[1] => ws = other
    BY <1>1, <1>2 DEF FeedInv, Membership
  <2>5. \A t \in broadcasts : \A ws \in t.over \union t.visited : handler'[ws] = NoStation \/ ws \in joined
    <3> SUFFICES ASSUME NEW t \in broadcasts, NEW ws \in t.over \union t.visited
                 PROVE  handler'[ws] = NoStation \/ ws \in joined
      OBVIOUS
    <3>1. ws # w /\ ws \in Sockets
      BY <1>1 DEF FeedInv, FeedTypes, Broadcasts
    <3> QED BY <1>5, <3>1 DEF FeedInv, Membership
  <2>6. \A ws \in joined : handler'[ws] # NoStation
    BY <2>1 DEF FeedInv, Membership
  <2> QED BY <1>2, <2>2, <2>3, <2>4, <2>5, <2>6 DEF Membership
<1>10. PagesInv'
  <2> SUFFICES ASSUME NEW ws \in joined \intersect open' PROVE Informed(ws)' /\ Overtaken(ws)'
    BY <1>2 DEF PagesInv
  <2>1. ws \in open /\ handler'[ws] = handler[ws]
    BY <1>1, <1>4, <1>5
  <2>2. Informed(ws) /\ Overtaken(ws) /\ Newest(ws)' = Newest(ws)
    BY <1>2, <2>1 DEF FeedInv, PagesInv, Newest
  <2>3. Informed(ws)'
    BY <1>2, <1>3, <2>1, <2>2 DEF Informed
  <2>4. Overtaken(ws)'
    BY <1>2, <1>3, <2>1, <2>2 DEF Overtaken
  <2> QED BY <2>3, <2>4
<1> QED BY <1>6, <1>7, <1>8, <1>9, <1>10 DEF FeedInv

\* A socket joins the set, and its page is told.
LEMMA AcceptPages == ASSUME FeedInv, NEW w \in Sockets, Accept(w) PROVE FeedInv'
<1> DEFINE st == handler[w]
<1>1. /\ st # NoStation /\ w \notin joined
      /\ joined' = joined \union {w}
      /\ members' = [members EXCEPT ![st] = @ \union {w}]
      /\ shown' = IF w \in open /\ latest[st] # 0 THEN [shown EXCEPT ![w[1]] = latest[st]] ELSE shown
      /\ UNCHANGED <<records, transit, latest, handler, open, broadcasts, selected, cut>>
  BY DEF Accept, telemetryVars
<1>2. /\ st \in Stations /\ members \in [Stations -> SUBSET Sockets]
      /\ shown \in [Browsers -> Nat] /\ latest[st] \in Nat
  BY <1>1 DEF FeedInv, FeedTypes
<1>3. /\ \A u : Station(u)' = Station(u)
      /\ members'[st] = members[st] \union {w}
      /\ \A s \in Stations : s # st => members'[s] = members[s]
  BY <1>1, <1>2 DEF Station
<1>4. FeedTypes'
  <2>1. shown' \in [Browsers -> Nat] /\ members' \in [Stations -> SUBSET Sockets]
    BY <1>1, <1>2
  <2> QED BY <1>1, <2>1 DEF FeedInv, FeedTypes
<1>5. InboxInOrder'
  BY <1>1, <1>3 DEF FeedInv, InboxInOrder, Inbox
<1>6. Loops'
  BY <1>1, <1>3 DEF FeedInv, Loops
<1>7. Membership'
  <2>1. \A s \in Stations : \A ws \in members'[s] : ws \in joined' /\ handler[ws] = s
    BY <1>1, <1>3 DEF FeedInv, Membership
  <2>2. \A ws \in joined' \intersect open : ws \in members'[handler[ws]]
    <3> SUFFICES ASSUME NEW ws \in joined' \intersect open PROVE ws \in members'[handler[ws]]
      OBVIOUS
    <3>1. CASE ws = w
      BY <1>3, <3>1
    <3>2. CASE ws # w
      <4>1. ws \in members[handler[ws]] /\ handler[ws] \in Stations
        BY <1>1, <3>2 DEF FeedInv, FeedTypes, Membership
      <4> QED BY <1>3, <4>1
    <3> QED BY <3>1, <3>2
  <2> QED BY <1>1, <2>1, <2>2 DEF FeedInv, Membership
<1>8. PagesInv'
  <2> SUFFICES ASSUME NEW ws \in joined' \intersect open PROVE Informed(ws)' /\ Overtaken(ws)'
    BY <1>1 DEF PagesInv
  <2>1. Newest(ws)' = Newest(ws) /\ handler'[ws] = handler[ws]
    BY <1>1 DEF Newest
  <2>2. CASE ws = w
    <3>1. Newest(ws) = latest[st] /\ (latest[st] # 0 => shown'[ws[1]] = latest[st])
      BY <1>1, <1>2, <2>2, FeedAssumption DEF Newest
    <3>2. Informed(ws)'
      BY <2>1, <3>1 DEF Informed
    <3>3. Overtaken(ws)'
      <4> SUFFICES ASSUME NEW v \in broadcasts, v.id < Newest(ws), ws \in Over(v)'
                   PROVE  \E u \in broadcasts : u.id = Newest(ws) /\ Station(u) = handler[ws]
        BY <1>1, <1>3, <2>1 DEF Overtaken
      <4>1. ~v.started
        <5>1. ws \notin v.over
          BY <1>1, <2>2 DEF FeedInv, Membership
        <5> QED BY <5>1 DEF Over
      <4> QED BY <1>2, <2>2, <3>1, <4>1 DEF FeedInv, Loops
    <3> QED BY <3>2, <3>3
  <2>3. CASE ws # w
    <3>1. ws \in joined \intersect open
      BY <1>1, <2>3
    <3>2. shown'[ws[1]] = shown[ws[1]]
      BY <1>1, <1>2, <2>3, <3>1 DEF FeedInv, FeedTypes, Membership
    <3>3. Informed(ws) /\ Overtaken(ws) /\ handler[ws] \in Stations
      BY <3>1 DEF FeedInv, FeedTypes, Membership, PagesInv
    <3>4. Informed(ws)'
      BY <1>1, <1>3, <2>1, <3>2, <3>3 DEF Informed
    <3>5. Overtaken(ws)'
      <4> SUFFICES ASSUME NEW v \in broadcasts, Station(v) = handler[ws], v.id < Newest(ws),
                          ws \notin v.visited, ws \in Over(v)'
                   PROVE  Newest(ws) \in cut \/ \E u \in broadcasts : u.id = Newest(ws) /\ Station(u) = handler[ws]
        BY <1>1, <1>3, <2>1 DEF Overtaken
      <4>1. ws \in Over(v)
        BY <1>3, <2>3, <3>3 DEF Over
      <4> QED BY <3>3, <4>1 DEF Overtaken
    <3> QED BY <3>4, <3>5
  <2> QED BY <2>2, <2>3
<1> QED BY <1>4, <1>5, <1>6, <1>7, <1>8 DEF FeedInv

\* Sockets are lost, and their coroutines end: there are fewer to speak of.
LEMMA FewerPages ==
  ASSUME FeedInv, open' \subseteq open, joined' \subseteq joined,
         UNCHANGED <<records, transit, latest, broadcasts, shown, cut>>,
         selected' \in [Browsers -> Stations],
         handler' \in [Sockets -> Stations \union {NoStation}],
         members' \in [Stations -> SUBSET Sockets],
         \A ws \in joined' : handler'[ws] = handler[ws],
         \A ws \in joined \ joined' : handler'[ws] = NoStation,
         \A ws \in Sockets \ joined : handler'[ws] = handler[ws],
         \A s \in Stations : members'[s] = members[s] \intersect joined'
  PROVE  FeedInv'
<1>1. \A u : Station(u)' = Station(u)
  BY DEF Station
<1>2. FeedTypes'
  BY DEF FeedInv, FeedTypes
<1>3. InboxInOrder'
  BY <1>1 DEF FeedInv, InboxInOrder, Inbox
<1>4. Loops'
  <2>1. \A t \in broadcasts : t.dead \subseteq t.visited /\ t.dead \intersect open' = {}
    BY DEF FeedInv, Loops
  <2> QED BY <1>1, <2>1 DEF FeedInv, Loops
<1>5. Membership'
  <2>1. \A ws \in joined' : ws \in joined /\ handler'[ws] = handler[ws]
    OBVIOUS
  <2>2. \A s \in Stations : \A ws \in members'[s] : ws \in joined' /\ handler'[ws] = s
    BY <2>1 DEF FeedInv, Membership
  <2>3. \A ws \in joined' \intersect open' : ws \in members'[handler'[ws]]
    <3> SUFFICES ASSUME NEW ws \in joined' \intersect open' PROVE ws \in members'[handler'[ws]]
      OBVIOUS
    <3>1. ws \in members[handler[ws]] /\ handler[ws] \in Stations
      BY <2>1 DEF FeedInv, FeedTypes, Membership
    <3> QED BY <2>1, <3>1
  <2>4. \A t \in broadcasts : \A ws \in t.over \union t.visited : handler'[ws] = NoStation \/ ws \in joined'
    <3> SUFFICES ASSUME NEW t \in broadcasts, NEW ws \in t.over \union t.visited
                 PROVE  handler'[ws] = NoStation \/ ws \in joined'
      OBVIOUS
    <3>1. ws \in Sockets /\ (handler[ws] = NoStation \/ ws \in joined)
      BY DEF FeedInv, FeedTypes, Broadcasts, Membership
    <3>2. CASE ws \in joined
      BY <3>2
    <3>3. CASE ws \notin joined
      BY <3>1, <3>3
    <3> QED BY <3>2, <3>3
  <2>5. \A ws \in joined' : handler'[ws] # NoStation
    BY <2>1 DEF FeedInv, Membership
  <2>6. \A ws, other \in open' : ws[1] = other[1] => ws = other
    BY DEF FeedInv, Membership
  <2> QED BY <2>2, <2>3, <2>4, <2>5, <2>6 DEF Membership
<1>6. PagesInv'
  <2> SUFFICES ASSUME NEW ws \in joined' \intersect open' PROVE Informed(ws)' /\ Overtaken(ws)'
    BY DEF PagesInv
  <2>1. ws \in joined \intersect open /\ handler'[ws] = handler[ws]
    OBVIOUS
  <2>2. Informed(ws) /\ Overtaken(ws) /\ Newest(ws)' = Newest(ws) /\ handler[ws] \in Stations
    BY <2>1 DEF FeedInv, FeedTypes, Membership, PagesInv, Newest
  <2>3. Informed(ws)'
    BY <1>1, <2>1, <2>2 DEF Informed
  <2>4. Overtaken(ws)'
    <3> SUFFICES ASSUME NEW v \in broadcasts, Station(v) = handler[ws], v.id < Newest(ws),
                        ws \notin v.visited, ws \in Over(v)'
                 PROVE  Newest(ws) \in cut \/ \E u \in broadcasts : u.id = Newest(ws) /\ Station(u) = handler[ws]
      BY <1>1, <2>1, <2>2 DEF Overtaken
    <3>1. ws \in Over(v)
      BY <1>1, <2>2 DEF Over
    <3> QED BY <2>2, <3>1 DEF Overtaken
  <2> QED BY <2>3, <2>4
<1> QED BY <1>2, <1>3, <1>4, <1>5, <1>6 DEF FeedInv

LEMMA MembersJoined ==
  ASSUME FeedInv
  PROVE  /\ \A s \in Stations : members[s] = members[s] \intersect joined
         /\ handler \in [Sockets -> Stations \union {NoStation}]
         /\ members \in [Stations -> SUBSET Sockets] /\ selected \in [Browsers -> Stations]
BY DEF FeedInv, FeedTypes, Membership

LEMMA LosePages == ASSUME FeedInv, NEW w \in Sockets, Lose(w) PROVE FeedInv'
<1>1. /\ open' \subseteq open
      /\ UNCHANGED <<records, transit, latest, members, handler, joined, broadcasts, selected, shown, cut>>
  BY DEF Lose, telemetryVars
<1> QED BY <1>1, MembersJoined, FewerPages

LEMMA SwitchPages == ASSUME FeedInv, NEW b \in Browsers, NEW st \in Stations, Switch(b, st) PROVE FeedInv'
<1>1. /\ open' \subseteq open /\ selected' = [selected EXCEPT ![b] = st]
      /\ UNCHANGED <<records, transit, latest, members, handler, joined, broadcasts, shown, cut>>
  BY DEF Switch, telemetryVars
<1>2. selected' \in [Browsers -> Stations]
  BY <1>1, MembersJoined
<1> QED BY <1>1, <1>2, MembersJoined, FewerPages

LEMMA LeavePages == ASSUME FeedInv, NEW w \in Sockets, Leave(w) PROVE FeedInv'
<1>1. /\ w \in joined /\ joined' = joined \ {w}
      /\ members' = [members EXCEPT ![handler[w]] = @ \ {w}]
      /\ handler' = [handler EXCEPT ![w] = NoStation]
      /\ UNCHANGED <<records, transit, latest, open, broadcasts, selected, shown, cut>>
  BY DEF Leave, telemetryVars
<1>2. handler[w] \in Stations /\ joined \subseteq Sockets
  BY <1>1 DEF FeedInv, FeedTypes, Membership
<1>3. /\ handler' \in [Sockets -> Stations \union {NoStation}] /\ handler'[w] = NoStation
      /\ \A ws \in Sockets : ws # w => handler'[ws] = handler[ws]
  BY <1>1, MembersJoined
<1>4. members' \in [Stations -> SUBSET Sockets] /\ \A s \in Stations : members'[s] = members[s] \intersect joined'
  <2>1. ASSUME NEW s \in Stations PROVE members'[s] = members[s] \intersect joined'
    <3>1. CASE s = handler[w]
      BY <1>1, <3>1, MembersJoined
    <3>2. CASE s # handler[w]
      <4>1. members'[s] = members[s] /\ members[s] \subseteq joined
        BY <1>1, <3>2, MembersJoined
      <4>2. w \notin members[s]
        BY <3>2 DEF FeedInv, Membership
      <4> QED BY <1>1, <4>1, <4>2
    <3> QED BY <3>1, <3>2
  <2>2. members' \in [Stations -> SUBSET Sockets]
    BY <1>1, <1>2, MembersJoined
  <2> QED BY <2>1, <2>2
<1>5. selected' \in [Browsers -> Stations]
  BY <1>1, MembersJoined
<1> QED BY <1>1, <1>2, <1>3, <1>4, <1>5, FewerPages

-----------------------------------------------------------------------------
LEMMA FeedStart == Init => FeedInv
<1> SUFFICES ASSUME Init PROVE FeedInv
  OBVIOUS
<1>1. records = <<>> /\ transit = [s \in Subscribers |-> <<>>] /\ InitFeed
  BY DEF Init, InitTelemetry
<1>2. Inbox = <<>> /\ Len(Inbox) = 0 /\ Len(records) = 0
  BY <1>1 DEF Inbox, Subscribers
<1>3. FeedTypes
  BY <1>1 DEF InitFeed, FeedTypes
<1>4. InboxInOrder
  BY <1>1, <1>2 DEF InitFeed, InboxInOrder
<1>5. Loops /\ Membership /\ PagesInv
  BY <1>1 DEF InitFeed, Loops, Membership, PagesInv
<1> QED BY <1>3, <1>4, <1>5 DEF FeedInv

\* The bridge and its link leave the inbox alone.
LEMMA InboxAlone == ASSUME LineInv, Bridge PROVE UNCHANGED records /\ Inbox' = Inbox
<1>1. transit \in [Subscribers -> Seq(Nat)] /\ "web" \in Subscribers
  BY DEF LineInv, Line, TypesOK, Subscribers
<1>2. records' = records
  BY DEF Bridge, DropMalformed, Receive, Register, Refuse, Insert, Commit, CommitFails, Restart
<1>3. transit' = transit \/ \E q : transit' = [transit EXCEPT !["bridge"] = q]
  BY DEF Bridge, DropMalformed, Receive, Register, Refuse, Insert, Commit, CommitFails, Restart, TakeFrom
<1> QED BY <1>1, <1>2, <1>3 DEF Inbox

LEMMA InboxCut ==
  ASSUME LineInv, NEW s \in Subscribers, Disconnect(s) \/ Connect(s)
  PROVE  UNCHANGED records /\ Inbox' \in {Inbox, <<>>}
<1>1. transit \in [Subscribers -> Seq(Nat)] /\ "web" \in Subscribers
  BY DEF LineInv, Line, TypesOK, Subscribers
<1> QED BY <1>1 DEF Disconnect, Connect, Inbox

LEMMA FeedKept == ASSUME LineInv, FeedInv, [Next]_vars PROVE FeedInv'
<1>1. ASSUME NEW st \in Stations, NEW kind \in Kinds, Publish(st, kind), UNCHANGED feedVars PROVE FeedInv'
  BY <1>1, PublishPages
<1>2. ASSUME NEW s \in Subscribers, Disconnect(s) \/ Connect(s), UNCHANGED feedVars PROVE FeedInv'
  BY <1>2, InboxCut, QuietPages
<1>3. CASE Bridge /\ UNCHANGED feedVars
  BY <1>3, InboxAlone, QuietPages
<1>4. CASE OnTelemetry
  BY <1>4, TakePages
<1>5. CASE Broadcast
  BY <1>5, EndPages, SendPages DEF Broadcast
<1>6. ASSUME NEW b \in Browsers, OpenSocket(b) PROVE FeedInv'
  BY <1>6, OpenPages
<1>7. ASSUME NEW b \in Switching, NEW st \in Stations, Switch(b, st) PROVE FeedInv'
  BY <1>7, SwitchPages, FeedAssumption
<1>8. ASSUME NEW ws \in Sockets, Accept(ws) \/ Lose(ws) \/ Leave(ws) PROVE FeedInv'
  BY <1>8, AcceptPages, LosePages, LeavePages
<1>9. CASE UNCHANGED vars
  <2>1. UNCHANGED feedVars /\ UNCHANGED records /\ Inbox' = Inbox
    BY <1>9 DEF vars, telemetryVars, Inbox
  <2> QED BY <2>1, QuietPages
<1> QED BY <1>1, <1>2, <1>3, <1>4, <1>5, <1>6, <1>7, <1>8, <1>9 DEF Next, Feed, Kinds

\* With every broadcast done, a connected page shows the newest record of its station, or one of
\* the two went round a set of sockets that changed.
THEOREM PagesCurrent == Spec => []PageIsCurrent
<1>1. FeedInv => PageIsCurrent
  <2> SUFFICES ASSUME FeedInv, broadcasts = {}, NEW ws \in joined \intersect open
               PROVE  latest[handler[ws]] \in {0, shown[ws[1]]} \union cut \/ shown[ws[1]] \in cut
    BY DEF PageIsCurrent
  <2>1. Informed(ws)
    BY DEF FeedInv, PagesInv
  <2> QED BY <2>1 DEF Informed, Newest
<1> QED BY <1>1, LineInvariant, FeedStart, FeedKept, PTL DEF Spec

-----------------------------------------------------------------------------
(***************************************************************************)
(* The bounded semaphore of module ControlPlane.                           *)
(*                                                                         *)
(* That slots are conserved is inductive only together with where the      *)
(* calls are: a worker takes a call from the queue, and a call that waits  *)
(* there must hold no slot yet and must not wait twice.                    *)
(***************************************************************************)
Places == Served \union {"absent", "queued"}

\* The shape of the state.
PoolTypes ==
  /\ queue \in Seq(Calls)
  /\ at \in [Calls -> Places]
  /\ slots \in Nat

\* A call in the queue is nowhere else, and there once.
QueuedOnce ==
  /\ \A i \in 1..Len(queue) : at[queue[i]] = "queued"
  /\ \A i, j \in 1..Len(queue) : i # j => queue[i] # queue[j]

PoolInv == PoolTypes /\ QueuedOnce /\ SlotsConserved

-----------------------------------------------------------------------------
LEMMA HoldingFinite == IsFiniteSet(Holding) /\ Cardinality(Holding) \in Nat
<1>1. Holding \subseteq Streams
  BY DEF Holding
<1> QED BY <1>1, PoolAssumption, FS_Subset, FS_CardinalityType

\* A call that goes from one place to another, and neither begins nor ends to
\* hold a slot, leaves the holders as they are.
LEMMA HoldingKept ==
  ASSUME PoolTypes, NEW c \in Calls, NEW place \in Places, Go(c, place),
         c \in Holding <=> (c \in Streams /\ place \in {"looping", "counted", "sleeping", "closing"})
  PROVE  Holding' = Holding
BY DEF PoolTypes, Holding, Go, Calls

\* A call outside the queue may go anywhere but into it.
LEMMA QueueKept ==
  ASSUME PoolTypes, QueuedOnce, UNCHANGED queue,
         NEW c \in Calls, at[c] # "queued", NEW place \in Places, Go(c, place)
  PROVE  QueuedOnce' /\ queue' \in Seq(Calls) /\ at' \in [Calls -> Places]
BY DEF PoolTypes, QueuedOnce, Go

-----------------------------------------------------------------------------
LEMMA CallKeeps == ASSUME PoolInv, NEW c \in Calls, Call(c) PROVE PoolInv'
<1> USE DEF PoolInv
<1>1. at' \in [Calls -> Places] /\ queue' \in Seq(Calls)
  BY DEF PoolTypes, Call, Go, Places, Served
<1>2. QueuedOnce'
  <2>1. Len(queue') = Len(queue) + 1 /\ queue'[Len(queue) + 1] = c
    BY DEF PoolTypes, Call
  <2>2. \A i \in 1..Len(queue) : queue'[i] = queue[i] /\ queue[i] \in Calls
    BY DEF PoolTypes, Call
  <2>3. \A i \in 1..Len(queue) : queue[i] # c
    BY DEF Call, QueuedOnce
  <2>4. at'[c] = "queued" /\ \A d \in Calls : d # c => at'[d] = at[d]
    BY DEF Call, Go, PoolTypes
  <2>5. Len(queue) \in Nat /\ 1..Len(queue') = (1..Len(queue)) \union {Len(queue) + 1}
    BY <2>1 DEF PoolTypes
  <2> QED BY <2>1, <2>2, <2>3, <2>4, <2>5 DEF QueuedOnce
<1>3. Holding' = Holding
  BY HoldingKept DEF Call, Places, Served, Holding
<1> QED BY <1>1, <1>2, <1>3 DEF PoolTypes, SlotsConserved, Call

LEMMA TakeKeeps == ASSUME PoolInv, Take PROVE PoolInv'
<1> USE DEF PoolInv
<1> DEFINE c == Head(queue)
<1>1. c \in Calls /\ c = queue[1] /\ Len(queue) \in Nat /\ Len(queue) >= 1
  BY DEF PoolTypes, Take
<1>2. at[c] = "queued"
  BY <1>1 DEF QueuedOnce
<1>3. at' \in [Calls -> Places] /\ queue' \in Seq(Calls)
  BY <1>1 DEF PoolTypes, Take, Go, Places, Served
<1>4. Len(queue') = Len(queue) - 1 /\ \A i \in 1..Len(queue') : queue'[i] = queue[i + 1]
  BY <1>1 DEF PoolTypes, Take
<1>5. QueuedOnce'
  <2>1. \A i \in 1..Len(queue') : i + 1 \in 1..Len(queue) /\ i + 1 # 1
    BY <1>1, <1>4
  <2>2. \A i \in 1..Len(queue') : queue[i + 1] # c /\ queue[i + 1] \in Calls
    BY <1>1, <2>1 DEF QueuedOnce, PoolTypes
  <2>3. \A i \in 1..Len(queue') : at'[queue[i + 1]] = "queued"
    BY <2>1, <2>2 DEF Take, Go, PoolTypes, QueuedOnce
  <2>4. \A i, j \in 1..Len(queue') : i # j => i + 1 # j + 1
    BY <1>1, <1>4
  <2> QED BY <1>4, <2>1, <2>3, <2>4 DEF QueuedOnce
<1>6. Holding' = Holding
  BY <1>1, <1>2, HoldingKept DEF Take, Places, Served, Holding
<1> QED BY <1>3, <1>5, <1>6 DEF PoolTypes, SlotsConserved, Take

\* What a worker does for a call, other than taking or giving back a slot.
LEMMA PlainStepKeeps ==
  ASSUME PoolInv, NEW c \in Calls,
         \/ AnswerAtOnce(c) \/ Count(c)
         \/ c \in Unaries /\ Answer(c)
         \/ c \in Streams /\ (Exhausted(c) \/ Yield(c) \/ Wake(c) \/ LeaveLoop(c))
  PROVE  PoolInv'
<1> USE DEF PoolInv
<1>1. PICK place \in Places : Go(c, place) /\ (c \in Holding <=> (c \in Streams /\ place \in {"looping", "counted", "sleeping", "closing"}))
  <2> USE DEF Places, Served, Holding, End
  <2>1. CASE AnswerAtOnce(c)
    BY <2>1 DEF AnswerAtOnce
  <2>2. CASE Count(c)
    <3>1. c \in Streams => at[c] = "looping"
      BY <2>2, PoolAssumption DEF Count
    <3> QED BY <2>2, <3>1 DEF Count
  <2>3. CASE c \in Unaries /\ Answer(c)
    BY <2>3, PoolAssumption DEF Answer, Emit
  <2>4. CASE c \in Streams /\ Exhausted(c)
    BY <2>4 DEF Exhausted
  <2>5. CASE c \in Streams /\ Yield(c)
    BY <2>5 DEF Yield, Emit
  <2>6. CASE c \in Streams /\ Wake(c)
    BY <2>6 DEF Wake
  <2>7. CASE c \in Streams /\ LeaveLoop(c)
    BY <2>7 DEF LeaveLoop
  <2> QED BY <2>1, <2>2, <2>3, <2>4, <2>5, <2>6, <2>7
<1>2. at[c] # "queued" /\ UNCHANGED <<queue, slots>>
  BY DEF AnswerAtOnce, Count, Answer, Emit, Exhausted, Yield, Wake, LeaveLoop
<1>3. QueuedOnce' /\ queue' \in Seq(Calls) /\ at' \in [Calls -> Places]
  BY <1>1, <1>2, QueueKept
<1>4. Holding' = Holding
  BY <1>1, HoldingKept
<1> QED BY <1>2, <1>3, <1>4 DEF PoolTypes, SlotsConserved

\* A stream that takes a slot becomes one holder more.
LEMMA AdmitKeeps == ASSUME PoolInv, NEW s \in Streams, Admit(s) PROVE PoolInv'
<1> USE DEF PoolInv
<1>1. s \in Calls /\ Go(s, "looping") /\ at[s] # "queued" /\ "looping" \in Places /\ UNCHANGED queue
  BY DEF Admit, Calls, Places, Served
<1>2. QueuedOnce' /\ queue' \in Seq(Calls) /\ at' \in [Calls -> Places]
  BY <1>1, QueueKept
<1>3. Holding' = Holding \union {s} /\ s \notin Holding
  BY <1>1 DEF Admit, Holding, Go, PoolTypes, Calls
<1>4. Cardinality(Holding') = Cardinality(Holding) + 1
  BY <1>3, HoldingFinite, FS_AddElement
<1> QED BY <1>2, <1>4, HoldingFinite DEF PoolTypes, SlotsConserved, Admit

\* A stream that gives its slot back was a holder.
LEMMA ReleaseKeeps == ASSUME PoolInv, NEW s \in Streams, Release(s) PROVE PoolInv'
<1> USE DEF PoolInv
<1>1. s \in Calls /\ Go(s, "absent") /\ at[s] # "queued" /\ "absent" \in Places /\ UNCHANGED queue
  BY DEF Release, End, Calls, Places
<1>2. QueuedOnce' /\ queue' \in Seq(Calls) /\ at' \in [Calls -> Places]
  BY <1>1, QueueKept
<1>3. Holding' = Holding \ {s} /\ s \in Holding
  BY <1>1 DEF Release, Holding, Go, PoolTypes, Calls
<1>4. Cardinality(Holding') = Cardinality(Holding) - 1
  BY <1>3, HoldingFinite, FS_RemoveElement
<1> QED BY <1>2, <1>4, HoldingFinite DEF PoolTypes, SlotsConserved, Release

-----------------------------------------------------------------------------
LEMMA PoolInitially == InitPool => PoolInv
<1> SUFFICES ASSUME InitPool PROVE PoolInv
  OBVIOUS
<1>1. PoolTypes
  BY PoolAssumption DEF InitPool, PoolTypes, Places
<1>2. QueuedOnce
  BY DEF InitPool, QueuedOnce
<1>3. Holding = {}
  BY DEF InitPool, Holding, Calls
<1>4. SlotsConserved
  BY <1>3, FS_EmptySet, PoolAssumption DEF InitPool, SlotsConserved
<1> QED BY <1>1, <1>2, <1>4 DEF PoolInv

LEMMA PoolInductive == PoolInv /\ [PoolNext]_poolVars => PoolInv'
<1> SUFFICES ASSUME PoolInv, [PoolNext]_poolVars PROVE PoolInv'
  OBVIOUS
<1>1. CASE Take
  BY <1>1, TakeKeeps
<1>2. ASSUME NEW c \in Calls, Call(c) PROVE PoolInv'
  BY <1>2, CallKeeps
<1>3. ASSUME NEW c \in Calls, Abandon(c) PROVE PoolInv'
  BY <1>3 DEF Abandon, PoolInv, PoolTypes, QueuedOnce, SlotsConserved, Holding
<1>4. ASSUME NEW c \in Calls, Work(c) PROVE PoolInv'
  BY <1>4, PlainStepKeeps, AdmitKeeps, ReleaseKeeps DEF Work
<1>5. CASE UNCHANGED poolVars
  BY <1>5 DEF poolVars, PoolInv, PoolTypes, QueuedOnce, SlotsConserved, Holding
<1> QED BY <1>1, <1>2, <1>3, <1>4, <1>5 DEF PoolNext

\* For every number of calls, workers and slots, and however streams end, each
\* slot is free or held by one stream: the semaphore is never released once too
\* often, and never left short.
THEOREM NoSlotLost == PoolSpec => []SlotsConserved
<1>1. PoolInv => SlotsConserved
  BY DEF PoolInv
<1> QED BY PoolInitially, PoolInductive, <1>1, PTL DEF PoolSpec

\* Streams never occupy the whole pool: a worker is left for the other calls.
THEOREM WorkerLeft == PoolSpec => [](Cardinality(Holding) < Workers)
<1>1. PoolInv => Cardinality(Holding) < Workers
  BY PoolAssumption, HoldingFinite DEF PoolInv, SlotsConserved, PoolTypes
<1> QED BY PoolInitially, PoolInductive, <1>1, PTL DEF PoolSpec

-----------------------------------------------------------------------------
(***************************************************************************)
(* The sliding window of module RateLimiter.                               *)
(*                                                                         *)
(* The deque of a client is the tail of what was let through (HitsAreLast),*)
(* so a request is let through only if the one MaxRequests before it has   *)
(* left the window (Sparse); that bounds every window, wherever it lies.   *)
(***************************************************************************)
LimiterTypes ==
  /\ now \in Nat
  /\ hits \in [Clients -> Seq(Nat)]
  /\ allowed \in [Clients -> Seq(Nat)]

\* A client's hits are the last of its requests that were let through, and those before
\* them have left the window for good.
HitsAreLast(c, k) ==
  /\ Len(hits[c]) = Len(allowed[c]) - k
  /\ \A i \in 1..Len(hits[c]) : hits[c][i] = allowed[c][k + i]
  /\ \A i \in 1..k : now - allowed[c][i] > WindowS

\* Requests were let through one after the other, none later than now.
InTime(c) ==
  /\ \A i \in 1..Len(allowed[c]) : allowed[c][i] <= now
  /\ \A i, j \in 1..Len(allowed[c]) : i <= j => allowed[c][i] <= allowed[c][j]

\* Two that are MaxRequests apart have more than a window between them.
Sparse(c) ==
  \A i, j \in 1..Len(allowed[c]) :
    i + MaxRequests <= j => allowed[c][j] - allowed[c][i] > WindowS

Refusals == answer # <<>> /\ ~answer.ok => Cardinality(InWindow(answer.client, now)) = MaxRequests

LInv ==
  /\ LimiterTypes
  /\ \A c \in Clients : (\E k \in 0..Len(allowed[c]) : HitsAreLast(c, k)) /\ InTime(c) /\ Sparse(c)
  /\ Refusals

\* The loop that pops hits ends, and what it leaves begins with one in the window.
LEMMA PopsEnd ==
  ASSUME LimiterTypes, NEW c \in Clients
  PROVE  \E k \in 0..Len(hits[c]) :
           /\ Pruned(c) = SubSeq(hits[c], k + 1, Len(hits[c]))
           /\ \A i \in 1..k : now - hits[c][i] > WindowS
           /\ k < Len(hits[c]) => now - hits[c][k + 1] <= WindowS
<1> DEFINE n == Len(hits[c])
           old(i) == now - hits[c][i] > WindowS
           K == {k \in 0..n : k < n => ~old(k + 1)}
<1>1. n \in Nat /\ n \in K /\ K \subseteq Nat
  BY DEF LimiterTypes
<1> HIDE DEF K
<1>2. PICK m \in K : \A k \in K : m <= k
  BY <1>1, LeastOf
<1>3. m \in 0..n /\ (m < n => ~old(m + 1))
  BY DEF K
<1>4. \A i \in 1..m : old(i)
  <2> SUFFICES ASSUME NEW i \in 1..m, ~old(i) PROVE FALSE
    OBVIOUS
  <2>1. i - 1 \in 0..n /\ (i - 1) + 1 = i
    BY <1>1, <1>3
  <2>2. i - 1 \in K
    BY <2>1 DEF K
  <2> QED BY <1>1, <1>2, <1>3, <2>2
<1> DEFINE ends(k) == (\A i \in 1..k : old(i)) /\ (k < n => ~old(k + 1))
<1>5. \E k \in 0..n : ends(k)
  BY <1>3, <1>4
<1> DEFINE p == CHOOSE k \in 0..n : ends(k)
<1>6. Pruned(c) = SubSeq(hits[c], p + 1, n)
  BY DEF Pruned
<1> HIDE DEF ends
<1>7. p \in 0..n /\ ends(p)
  BY <1>5
<1> HIDE DEF p
<1>8. (\A i \in 1..p : old(i)) /\ (p < n => ~old(p + 1))
  BY <1>7 DEF ends
<1>9. now - hits[c][p + 1] > WindowS \/ now - hits[c][p + 1] <= WindowS \/ ~(p < n)
  BY <1>1, <1>7, LimiterAssumption DEF LimiterTypes
<1> QED BY <1>6, <1>7, <1>8, <1>9

\* Numbers no two of which are MaxRequests apart are at most MaxRequests many.
LEMMA Narrow ==
  ASSUME NEW n \in Nat, NEW S \in SUBSET (1..n), \A i, j \in S : j < i + MaxRequests
  PROVE  IsFiniteSet(S) /\ Cardinality(S) \in Nat /\ Cardinality(S) <= MaxRequests
<1>1. IsFiniteSet(S) /\ Cardinality(S) \in Nat
  <2>1. IsFiniteSet(1..n)
    BY FS_Interval
  <2> QED BY <2>1, FS_Subset, FS_CardinalityType
<1>2. CASE S = {}
  BY <1>1, <1>2, FS_EmptySet, LimiterAssumption
<1>3. CASE S # {}
  <2>1. PICK m \in S : \A k \in S : m <= k
    <3>1. S \subseteq Nat
      OBVIOUS
    <3> QED BY <1>3, <3>1, LeastOf
  <2>2. m \in Nat /\ \A k \in S : k \in Nat /\ k >= m /\ k < m + MaxRequests
    BY <2>1
  <2>3. S \subseteq m..m + MaxRequests - 1
    BY <2>2, LimiterAssumption
  <2>4. Cardinality(m..m + MaxRequests - 1) = MaxRequests
    BY <2>2, FS_Interval, LimiterAssumption
  <2>5. IsFiniteSet(m..m + MaxRequests - 1)
    BY <2>2, FS_Interval, LimiterAssumption
  <2> QED BY <2>3, <2>4, <2>5, <1>1, FS_Subset
<1> QED BY <1>2, <1>3

\* No window holds more than MaxRequests.
LEMMA WindowBounded ==
  ASSUME LimiterTypes, NEW c \in Clients, Sparse(c), NEW t \in Nat
  PROVE  /\ IsFiniteSet(InWindow(c, t)) /\ Cardinality(InWindow(c, t)) \in Nat
         /\ Cardinality(InWindow(c, t)) <= MaxRequests
<1> DEFINE n == Len(allowed[c])
           S == InWindow(c, t)
<1>1. n \in Nat /\ \A i \in 1..n : allowed[c][i] \in Nat
  BY DEF LimiterTypes
<1>2. S \in SUBSET (1..n)
  BY DEF InWindow
<1>3. ASSUME NEW i \in S, NEW j \in S PROVE j < i + MaxRequests
  <2>1. i \in 1..n /\ j \in 1..n /\ t - WindowS <= allowed[c][i] /\ allowed[c][j] <= t
    BY DEF InWindow
  <2>2. ~(allowed[c][j] - allowed[c][i] > WindowS)
    BY <1>1, <2>1, LimiterAssumption
  <2>3. ~(i + MaxRequests <= j)
    BY <2>1, <2>2 DEF Sparse
  <2>4. i \in Int /\ j \in Int /\ MaxRequests \in Int
    BY <2>1, LimiterAssumption
  <2> QED BY <2>3, <2>4
<1> HIDE DEF n, S
<1> QED BY <1>1, <1>2, <1>3, Narrow DEF S

\* What is left of a client's hits are still the last of its requests.
LEMMA PrunedAreLast ==
  ASSUME LInv, NEW c \in Clients
  PROVE  \E k \in 0..Len(allowed[c]) :
           /\ Pruned(c) \in Seq(Nat) /\ Len(Pruned(c)) = Len(allowed[c]) - k
           /\ \A i \in 1..Len(Pruned(c)) : Pruned(c)[i] = allowed[c][k + i]
           /\ \A i \in 1..k : now - allowed[c][i] > WindowS
           /\ k < Len(allowed[c]) => now - allowed[c][k + 1] <= WindowS
<1> DEFINE A == allowed[c]
           H == hits[c]
           n == Len(A)
<1>1. A \in Seq(Nat) /\ H \in Seq(Nat) /\ n \in Nat /\ Len(H) \in Nat
  BY DEF LInv, LimiterTypes
<1>2. PICK k \in 0..n : HitsAreLast(c, k)
  BY DEF LInv
<1>3. PICK p \in 0..Len(H) : /\ Pruned(c) = SubSeq(H, p + 1, Len(H))
                             /\ \A i \in 1..p : now - H[i] > WindowS
                             /\ p < Len(H) => now - H[p + 1] <= WindowS
  BY PopsEnd DEF LInv
<1>4. /\ Len(H) = n - k
      /\ \A i \in 1..Len(H) : H[i] = A[k + i]
      /\ \A i \in 1..k : now - A[i] > WindowS
  BY <1>2 DEF HitsAreLast
<1> HIDE DEF A, H, n
<1>5. /\ Pruned(c) \in Seq(Nat) /\ Len(Pruned(c)) = Len(H) - p
      /\ \A i \in 1..Len(H) - p : Pruned(c)[i] = H[p + i]
  BY <1>1, <1>3, SubSeqProperties
<1>6. k + p \in 0..n /\ Len(Pruned(c)) = n - (k + p)
  BY <1>1, <1>4, <1>5
<1>7. \A i \in 1..Len(Pruned(c)) : Pruned(c)[i] = A[(k + p) + i]
  <2> SUFFICES ASSUME NEW i \in 1..Len(Pruned(c)) PROVE Pruned(c)[i] = A[(k + p) + i]
    OBVIOUS
  <2>1. i \in 1..Len(H) - p /\ p + i \in 1..Len(H) /\ k + (p + i) = (k + p) + i
    BY <1>1, <1>5
  <2> QED BY <1>4, <1>5, <2>1
<1>8. \A i \in 1..k + p : now - A[i] > WindowS
  <2> SUFFICES ASSUME NEW i \in 1..k + p, i > k PROVE now - A[i] > WindowS
    BY <1>4
  <2>1. i - k \in 1..p /\ i - k \in 1..Len(H) /\ k + (i - k) = i
    BY <1>1
  <2> QED BY <1>3, <1>4, <2>1
<1>9. k + p < n => now - A[(k + p) + 1] <= WindowS
  <2> SUFFICES ASSUME k + p < n PROVE now - A[(k + p) + 1] <= WindowS
    OBVIOUS
  <2>1. p < Len(H) /\ p + 1 \in 1..Len(H) /\ k + (p + 1) = (k + p) + 1
    BY <1>1, <1>4
  <2> QED BY <1>3, <1>4, <2>1
<1> QED BY <1>5, <1>6, <1>7, <1>8, <1>9 DEF A, n

\* A request that is let through is a window later than the one MaxRequests before it.
LEMMA AllowedKeeps ==
  ASSUME LInv, NEW c \in Clients, Request(c), Len(Pruned(c)) < MaxRequests
  PROVE  LInv'
<1> DEFINE A == allowed[c]
           P == Pruned(c)
           n == Len(A)
<1>1. PICK k \in 0..n :
        /\ P \in Seq(Nat) /\ Len(P) = n - k
        /\ \A i \in 1..Len(P) : P[i] = A[k + i]
        /\ \A i \in 1..k : now - A[i] > WindowS
  BY PrunedAreLast
<1>2. /\ now' = now /\ now \in Nat /\ A \in Seq(Nat) /\ n \in Nat
      /\ hits \in [Clients -> Seq(Nat)] /\ allowed \in [Clients -> Seq(Nat)]
  BY DEF Request, LInv, LimiterTypes
<1>3. hits' = [hits EXCEPT ![c] = Append(P, now)] /\ allowed' = [allowed EXCEPT ![c] = Append(A, now)]
  BY DEF Request
<1>4. answer'.ok
  BY DEF Request
<1>5. /\ hits'[c] = Append(P, now) /\ allowed'[c] = Append(A, now)
      /\ \A d \in Clients : d # c => hits'[d] = hits[d] /\ allowed'[d] = allowed[d]
  BY <1>2, <1>3
<1>6. InTime(c) /\ Sparse(c)
  BY DEF LInv
<1>7. ASSUME NEW d \in Clients, d # c
      PROVE  ((\E j \in 0..Len(allowed[d]) : HitsAreLast(d, j)) /\ InTime(d) /\ Sparse(d))'
  <2>1. now' = now /\ hits'[d] = hits[d] /\ allowed'[d] = allowed[d]
    BY <1>2, <1>5, <1>7
  <2>2. PICK j \in 0..Len(allowed[d]) : HitsAreLast(d, j)
    BY DEF LInv
  <2>3. HitsAreLast(d, j)'
    BY <2>1, <2>2 DEF HitsAreLast
  <2>4. InTime(d)' /\ Sparse(d)'
    BY <2>1 DEF LInv, InTime, Sparse
  <2> QED BY <2>1, <2>3, <2>4
<1> HIDE DEF A, P
<1>8. /\ Len(Append(A, now)) = n + 1 /\ Append(A, now)[n + 1] = now
      /\ \A i \in 1..n : Append(A, now)[i] = A[i] /\ A[i] \in Nat
      /\ Append(A, now) \in Seq(Nat)
  BY <1>2, AppendProperties, ElementOfSeq DEF n
<1>9. /\ Len(Append(P, now)) = (n - k) + 1 /\ Append(P, now)[(n - k) + 1] = now
      /\ \A i \in 1..n - k : Append(P, now)[i] = P[i]
      /\ Append(P, now) \in Seq(Nat)
  BY <1>1, <1>2, AppendProperties
<1> HIDE DEF n
<1>10. HitsAreLast(c, k)'
  <2>1. ASSUME NEW i \in 1..(n - k) + 1 PROVE Append(P, now)[i] = Append(A, now)[k + i]
    <3>1. CASE i = (n - k) + 1
      <4>1. k + i = n + 1
        BY <1>2, <3>1
      <4> QED BY <1>8, <1>9, <3>1, <4>1
    <3>2. CASE i # (n - k) + 1
      <4>1. i \in 1..n - k /\ i \in 1..Len(P) /\ k + i \in 1..n
        BY <1>1, <1>2, <3>2
      <4> QED BY <1>1, <1>8, <1>9, <4>1
    <3> QED BY <3>1, <3>2
  <2>2. ASSUME NEW i \in 1..k PROVE now - Append(A, now)[i] > WindowS
    <3>1. i \in 1..n
      BY <1>2
    <3> QED BY <1>1, <1>8, <3>1
  <2>3. (n - k) + 1 = (n + 1) - k
    BY <1>2
  <2> QED BY <1>2, <1>5, <1>8, <1>9, <2>1, <2>2, <2>3 DEF HitsAreLast
<1>11. InTime(c)'
  <2>1. \A i, j \in 1..n : A[i] <= now /\ (i <= j => A[i] <= A[j])
    BY <1>6 DEF InTime, A, n
  <2>2. ASSUME NEW i \in 1..n + 1 PROVE Append(A, now)[i] <= now
    <3>1. i \in 1..n \/ i = n + 1
      BY <1>2
    <3> QED BY <1>2, <1>8, <2>1, <3>1
  <2>3. ASSUME NEW i \in 1..n + 1, NEW j \in 1..n + 1, i <= j
        PROVE  Append(A, now)[i] <= Append(A, now)[j]
    <3>1. j = n + 1 \/ (i \in 1..n /\ j \in 1..n)
      BY <1>2, <2>3
    <3> QED BY <1>8, <2>1, <2>2, <2>3, <3>1
  <2> QED BY <1>2, <1>5, <1>8, <2>2, <2>3 DEF InTime
<1>12. Sparse(c)'
  <2>1. \A i, j \in 1..n : i + MaxRequests <= j => A[j] - A[i] > WindowS
    BY <1>6 DEF Sparse, A, n
  <2>2. ASSUME NEW i \in 1..n + 1, NEW j \in 1..n + 1, i + MaxRequests <= j
        PROVE  Append(A, now)[j] - Append(A, now)[i] > WindowS
    <3>1. CASE j = n + 1
      <4>1. i \in 1..k /\ i \in 1..n
        BY <1>1, <1>2, <2>2, <3>1, LimiterAssumption DEF P
      <4> QED BY <1>1, <1>8, <3>1, <4>1
    <3>2. CASE j # n + 1
      <4>1. i \in 1..n /\ j \in 1..n
        BY <1>2, <2>2, <3>2, LimiterAssumption
      <4> QED BY <1>8, <2>1, <2>2, <4>1
    <3> QED BY <3>1, <3>2
  <2> QED BY <1>5, <1>8, <2>2 DEF Sparse
<1>13. LimiterTypes'
  BY <1>2, <1>3, <1>8, <1>9 DEF LimiterTypes
<1>14. Refusals'
  BY <1>4 DEF Refusals
<1>15. k \in (0..Len(allowed[c]))'
  BY <1>2, <1>5, <1>8
<1> QED BY <1>7, <1>10, <1>11, <1>12, <1>13, <1>14, <1>15 DEF LInv

\* A request that is refused finds the window full.
LEMMA RefusedKeeps ==
  ASSUME LInv, NEW c \in Clients, Request(c), ~(Len(Pruned(c)) < MaxRequests)
  PROVE  LInv'
<1> DEFINE A == allowed[c]
           n == Len(A)
<1>1. PICK k \in 0..n :
        /\ Pruned(c) \in Seq(Nat) /\ Len(Pruned(c)) = n - k
        /\ \A i \in 1..Len(Pruned(c)) : Pruned(c)[i] = A[k + i]
        /\ \A i \in 1..k : now - A[i] > WindowS
        /\ k < n => now - A[k + 1] <= WindowS
  BY PrunedAreLast
<1>2. /\ now \in Nat /\ n \in Nat /\ \A i \in 1..n : A[i] \in Nat
      /\ hits \in [Clients -> Seq(Nat)] /\ allowed \in [Clients -> Seq(Nat)]
  BY DEF LInv, LimiterTypes
<1>3. /\ now' = now /\ allowed' = allowed
      /\ hits' = [hits EXCEPT ![c] = Pruned(c)] /\ answer'.client = c
  BY DEF Request
<1>4. hits'[c] = Pruned(c) /\ \A d \in Clients : d # c => hits'[d] = hits[d]
  BY <1>2, <1>3
<1>5. InTime(c) /\ Sparse(c)
  BY DEF LInv
<1>6. ASSUME NEW d \in Clients, d # c
      PROVE  ((\E j \in 0..Len(allowed[d]) : HitsAreLast(d, j)) /\ InTime(d) /\ Sparse(d))'
  <2>1. now' = now /\ hits'[d] = hits[d] /\ allowed'[d] = allowed[d]
    BY <1>3, <1>4, <1>6
  <2>2. PICK j \in 0..Len(allowed[d]) : HitsAreLast(d, j)
    BY DEF LInv
  <2>3. HitsAreLast(d, j)'
    BY <2>1, <2>2 DEF HitsAreLast
  <2>4. InTime(d)' /\ Sparse(d)'
    BY <2>1 DEF LInv, InTime, Sparse
  <2> QED BY <2>1, <2>3, <2>4
<1>7. HitsAreLast(c, k)' /\ InTime(c)' /\ Sparse(c)'
  BY <1>1, <1>3, <1>4, <1>5 DEF HitsAreLast, InTime, Sparse
<1>8. LimiterTypes'
  BY <1>1, <1>2, <1>3 DEF LimiterTypes
<1>9. Cardinality(InWindow(c, now)) = MaxRequests
  <2>1. /\ IsFiniteSet(InWindow(c, now)) /\ Cardinality(InWindow(c, now)) \in Nat
        /\ Cardinality(InWindow(c, now)) <= MaxRequests
    BY <1>2, <1>5, WindowBounded DEF LInv
  <2>2. k + 1 <= n /\ n - k >= MaxRequests /\ k + 1 \in 1..n
    BY <1>1, <1>2, LimiterAssumption
  <2>3. (k + 1)..n \subseteq InWindow(c, now)
    <3> SUFFICES ASSUME NEW i \in (k + 1)..n PROVE i \in InWindow(c, now)
      OBVIOUS
    <3>1. i \in 1..n /\ k + 1 <= i
      BY <1>2
    <3>2. A[k + 1] <= A[i] /\ A[i] <= now
      BY <1>5, <2>2, <3>1 DEF InTime
    <3>3. now - WindowS <= A[i]
      <4>1. k < n /\ A[k + 1] \in Nat /\ A[i] \in Nat
        BY <1>2, <2>2, <3>1
      <4>2. now - A[k + 1] <= WindowS
        BY <1>1, <4>1
      <4>3. now \in Int /\ WindowS \in Int
        BY LimiterAssumption DEF LInv, LimiterTypes
      <4> QED BY <3>2, <4>1, <4>2, <4>3
    <3> QED BY <3>1, <3>2, <3>3 DEF InWindow
  <2>4. IsFiniteSet((k + 1)..n) /\ Cardinality((k + 1)..n) = n - k
    BY <1>2, <2>2, FS_Interval
  <2>5. Cardinality((k + 1)..n) <= Cardinality(InWindow(c, now))
    BY <2>1, <2>3, FS_Subset
  <2> QED BY <1>2, <2>1, <2>2, <2>4, <2>5, LimiterAssumption
<1>10. Refusals'
  BY <1>3, <1>9 DEF Refusals, InWindow
<1>11. k \in (0..Len(allowed[c]))'
  BY <1>3
<1> QED BY <1>6, <1>7, <1>8, <1>10, <1>11 DEF LInv

LEMMA TickKeeps == ASSUME LInv, Tick PROVE LInv'
<1>1. now' = now + 1 /\ UNCHANGED <<hits, allowed>> /\ answer' = <<>> /\ now \in Nat
  BY DEF Tick, LInv, LimiterTypes
<1>2. LimiterTypes'
  BY <1>1 DEF LInv, LimiterTypes
<1>3. Refusals'
  BY <1>1 DEF Refusals
<1>4. ASSUME NEW c \in Clients PROVE ((\E k \in 0..Len(allowed[c]) : HitsAreLast(c, k)) /\ InTime(c) /\ Sparse(c))'
  <2>1. \A i \in 1..Len(allowed[c]) : allowed[c][i] \in Nat
    BY DEF LInv, LimiterTypes
  <2>2. PICK k \in 0..Len(allowed[c]) : HitsAreLast(c, k)
    BY DEF LInv
  <2>3. \A i \in 1..k : i \in 1..Len(allowed[c])
    BY DEF LInv, LimiterTypes
  <2>4. HitsAreLast(c, k)'
    <3>1. hits'[c] = hits[c] /\ allowed'[c] = allowed[c] /\ now' = now + 1
      BY <1>1
    <3>2. ASSUME NEW i \in 1..k PROVE now' - allowed'[c][i] > WindowS
      <4>1. now - allowed[c][i] > WindowS
        BY <2>2 DEF HitsAreLast
      <4>2. allowed[c][i] \in Nat /\ now \in Nat /\ WindowS \in Int
        BY <1>1, <2>1, <2>3, LimiterAssumption
      <4> QED BY <3>1, <4>1, <4>2
    <3>3. /\ Len(hits[c]) = Len(allowed[c]) - k
          /\ \A i \in 1..Len(hits[c]) : hits[c][i] = allowed[c][k + i]
      BY <2>2 DEF HitsAreLast
    <3>4. /\ Len(hits'[c]) = Len(allowed'[c]) - k
          /\ \A i \in 1..Len(hits'[c]) : hits'[c][i] = allowed'[c][k + i]
      BY <3>1, <3>3
    <3> QED BY <3>2, <3>4 DEF HitsAreLast
  <2>5. InTime(c) /\ Sparse(c)
    BY DEF LInv
  <2>6. InTime(c)' /\ Sparse(c)'
    <3>1. InTime(c)'
      <4>1. \A i \in 1..Len(allowed[c]) : allowed[c][i] <= now'
        BY <1>1, <2>1, <2>5 DEF InTime
      <4> QED BY <1>1, <2>5, <4>1 DEF InTime
    <3>2. Sparse(c)'
      BY <1>1, <2>5 DEF Sparse
    <3> QED BY <3>1, <3>2
  <2> QED BY <1>1, <2>4, <2>6
<1> QED BY <1>2, <1>3, <1>4 DEF LInv

LEMMA LimiterInvariant == LimiterSpec => []LInv
<1>1. InitLimiter => LInv
  <2> SUFFICES ASSUME InitLimiter PROVE LInv
    OBVIOUS
  <2>1. \A c \in Clients : HitsAreLast(c, 0) /\ InTime(c) /\ Sparse(c)
    BY EmptySeq DEF InitLimiter, HitsAreLast, InTime, Sparse
  <2>2. \A c \in Clients : 0 \in 0..Len(allowed[c])
    BY EmptySeq DEF InitLimiter
  <2> QED BY <2>1, <2>2, EmptySeq DEF InitLimiter, LInv, LimiterTypes, Refusals
<1>2. LInv /\ [Serve]_limiterVars => LInv'
  <2> SUFFICES ASSUME LInv, [Serve]_limiterVars PROVE LInv'
    OBVIOUS
  <2>1. CASE UNCHANGED limiterVars
    BY <2>1 DEF limiterVars, LInv, LimiterTypes, HitsAreLast, InTime, Sparse, Refusals, InWindow
  <2> QED BY <2>1, TickKeeps, AllowedKeeps, RefusedKeeps DEF Serve
<1> QED BY <1>1, <1>2, PTL DEF LimiterSpec

\* For every limit and every window, and whatever a client has been refused before.
THEOREM LimitIsExact == LimiterSpec => []LimiterExact
<1>1. LInv => LimiterExact
  BY WindowBounded DEF LInv, LimiterTypes, Refusals, LimiterExact
<1> QED BY <1>1, LimiterInvariant, PTL
=============================================================================
