---------------------------- MODULE Storage_proofs ----------------------------
(***************************************************************************)
(* Proofs about Storage, for any gateways, limits and clock: what retention *)
(* deletes and what it keeps.                                              *)
(***************************************************************************)
EXTENDS Storage, FiniteSetTheorems, FunctionTheorems, TLAPS

StoredRow == [id : Nat \ {0}, ts_ms : Nat, content : BOOLEAN]

Logs  == tables["runtime_logs"]
Left  == Logs \ fresh              \* the rows that the last deletion has left
LogId == last_id["runtime_logs"]
Ids(rows) == {r.id : r \in rows}

Types ==
  /\ last_id \in [Table -> Nat] /\ tables \in [Table -> SUBSET StoredRow]
  /\ dropped \subseteq StoredRow /\ fresh \subseteq Logs
  /\ log \in [Gateway -> [step : {"idle", "insert", "delete"}, ts_ms : Nat]]
  /\ clock \in Nat /\ in_order \in BOOLEAN

(***************************************************************************)
(* The inductive invariant.                                                *)
(*  - Numbered: a log row, kept or deleted, has a number of its own, and   *)
(*    every number that was given out is one's.                            *)
(*  - Full: a deletion leaves at most KeptLogs rows, and once a row was    *)
(*    deleted exactly as many.  So the rows that the next deletion leaves  *)
(*    have no earlier one among them than those that it finds, and with    *)
(*    them are later than every row deleted before.                        *)
(*  - Ordered: as long as rows were stored in the order of their times, a  *)
(*    later row has a higher number, and a deleted one KeptLogs rows above *)
(*    it.                                                                  *)
(***************************************************************************)
Numbered ==
  /\ \A r \in Logs \cup dropped : r.id <= LogId
  /\ \A r, s \in Logs \cup dropped : r.id = s.id => r = s
  /\ \A i \in 1..LogId : \E r \in Logs \cup dropped : r.id = i

Full ==
  /\ IsFiniteSet(Logs) /\ Cardinality(Left) <= KeptLogs
  /\ dropped # {} => Cardinality(Left) = KeptLogs

Ordered ==
  in_order =>
    /\ \A r, s \in Logs \cup dropped : r.id < s.id => r.ts_ms <= s.ts_ms
    /\ \A d \in dropped : d.id <= LogId - KeptLogs

StorageInv == Types /\ Numbered /\ Full /\ Ordered /\ DroppedAreOldest

USE DEF vars, history
-----------------------------------------------------------------------------
\* Later is a strict total order on rows whose numbers differ.
LEMMA LaterOrder ==
  ASSUME NEW r \in StoredRow, NEW s \in StoredRow
  PROVE  /\ ~ (Later(r, s) /\ Later(s, r))
         /\ r.id # s.id => Later(r, s) \/ Later(s, r)
         /\ \A q \in StoredRow : Later(r, s) /\ Later(s, q) => Later(r, q)
BY DEF Later, StoredRow

\* Every set of numbers that is not empty has a least one.
LEMMA LeastNumber ==
  ASSUME NEW T \in SUBSET Nat, T # {}
  PROVE  \E x \in T : \A y \in T : x <= y
<1>. DEFINE R == OpToRel(<, Nat)
<1>1. IsWellFoundedOn(R, Nat)
  BY NatLessThanWellFounded
<1>2. \A x, y \in Nat : x < y => <<x, y>> \in R
  BY DEF R, OpToRel
<1>. HIDE DEF R
<1>3. T \subseteq Nat
  OBVIOUS
<1>4. PICK x \in T : \A y \in T : ~ (<<y, x>> \in R)
  BY <1>1, <1>3, WFMin
<1>5. ASSUME NEW y \in T PROVE x <= y
  <2>1. x \in Nat /\ y \in Nat /\ ~ (y < x)
    BY <1>2, <1>4
  <2>. QED
    BY <2>1
<1>. QED
  BY <1>5

\* So a set of rows that is not empty has an oldest one: the least number among
\* those of the least time.
LEMMA OldestRow ==
  ASSUME NEW rows \in SUBSET StoredRow, rows # {},
         \A r, s \in rows : r.id = s.id => r = s
  PROVE  \E m \in rows : \A s \in rows \ {m} : Later(s, m)
<1>1. PICK t \in {r.ts_ms : r \in rows} : \A u \in {r.ts_ms : r \in rows} : t <= u
  <2>1. {r.ts_ms : r \in rows} \in SUBSET Nat /\ {r.ts_ms : r \in rows} # {}
    BY DEF StoredRow
  <2>. QED
    BY <2>1, LeastNumber
<1>. DEFINE first == {r \in rows : r.ts_ms = t}
<1>2. PICK n \in {r.id : r \in first} : \A k \in {r.id : r \in first} : n <= k
  <2>1. {r.id : r \in first} \in SUBSET Nat /\ {r.id : r \in first} # {}
    BY <1>1 DEF StoredRow
  <2>. QED
    BY <2>1, LeastNumber
<1>3. PICK m \in first : m.id = n
  BY <1>2
<1>4. ASSUME NEW s \in rows \ {m} PROVE Later(s, m)
  <2>1. s.ts_ms \in Nat /\ s.id \in Nat /\ m.ts_ms = t /\ t \in Nat /\ n \in Nat
    BY <1>3 DEF StoredRow
  <2>2. CASE s.ts_ms = t
    <3>1. n <= s.id
      BY <1>2, <2>2
    <3>2. s.id # m.id
      BY <1>3
    <3>. QED
      BY <1>3, <2>1, <2>2, <3>1, <3>2 DEF Later
  <2>3. CASE s.ts_ms # t
    <3>1. t <= s.ts_ms
      BY <1>1
    <3>. QED
      BY <2>1, <2>3, <3>1 DEF Later
  <2>. QED
    BY <2>2, <2>3
<1>. QED
  BY <1>3, <1>4

-----------------------------------------------------------------------------
\* ORDER BY ts_ms DESC LIMIT n, of finitely many rows with numbers of their own.
Numbers(rows) == \A r, s \in rows : r.id = s.id => r = s
Above(rows, r) == {s \in rows : Later(s, r)}

LEMMA AboveFinite ==
  ASSUME NEW rows \in SUBSET StoredRow, IsFiniteSet(rows), NEW r \in rows
  PROVE  IsFiniteSet(Above(rows, r)) /\ Cardinality(Above(rows, r)) \in Nat
BY FS_Subset, FS_CardinalityType DEF Above

\* A later row has fewer rows above it.
LEMMA FewerAbove ==
  ASSUME NEW rows \in SUBSET StoredRow, IsFiniteSet(rows),
         NEW r \in rows, NEW s \in rows, Later(s, r)
  PROVE  Cardinality(Above(rows, s)) < Cardinality(Above(rows, r))
<1>1. Above(rows, s) \in SUBSET (Above(rows, r) \ {s})
  <2>1. \A q \in rows : Later(q, s) => Later(q, r) /\ q # s
    BY LaterOrder
  <2>. QED
    BY <2>1 DEF Above
<1>2. s \in Above(rows, r) /\ IsFiniteSet(Above(rows, r))
      /\ Cardinality(Above(rows, r)) \in Nat
  BY AboveFinite DEF Above
<1>3. /\ IsFiniteSet(Above(rows, r) \ {s})
      /\ Cardinality(Above(rows, r) \ {s}) = Cardinality(Above(rows, r)) - 1
  BY <1>2, FS_RemoveElement
<1>4. /\ Cardinality(Above(rows, s)) <= Cardinality(Above(rows, r) \ {s})
      /\ Cardinality(Above(rows, s)) \in Nat
  BY <1>1, <1>3, FS_Subset, FS_CardinalityType
<1>. QED
  BY <1>2, <1>3, <1>4

LEMMA LatestAbove ==
  ASSUME NEW rows, NEW n, NEW r \in rows
  PROVE  r \in Latest(rows, n) <=> Cardinality(Above(rows, r)) < n
BY DEF Latest, Above

\* Every row that is left is later than every row that is not.
LEMMA LatestAreLater ==
  ASSUME NEW rows \in SUBSET StoredRow, IsFiniteSet(rows), Numbers(rows), NEW n \in Nat,
         NEW r \in Latest(rows, n), NEW d \in rows \ Latest(rows, n)
  PROVE  Later(r, d)
<1>1. r \in rows /\ d \in rows /\ r \in StoredRow /\ d \in StoredRow /\ r # d
  BY DEF Latest
<1>2. CASE Later(d, r)
  <2>1. /\ Cardinality(Above(rows, d)) < Cardinality(Above(rows, r))
        /\ Cardinality(Above(rows, r)) < n
        /\ ~(Cardinality(Above(rows, d)) < n)
    BY <1>1, <1>2, FewerAbove, LatestAbove
  <2>2. Cardinality(Above(rows, d)) \in Nat /\ Cardinality(Above(rows, r)) \in Nat
    BY <1>1, AboveFinite
  <2>. QED
    BY <2>1, <2>2
<1>3. r.id # d.id
  BY <1>1 DEF Numbers
<1>. QED
  BY <1>1, <1>2, <1>3, LaterOrder

\* At most n rows are left.
LEMMA LatestAtMost ==
  ASSUME NEW rows \in SUBSET StoredRow, IsFiniteSet(rows), Numbers(rows), NEW n \in Nat
  PROVE  /\ IsFiniteSet(Latest(rows, n)) /\ Cardinality(Latest(rows, n)) \in Nat
         /\ Cardinality(Latest(rows, n)) <= n
<1>. DEFINE kept == Latest(rows, n)
<1>1. kept \in SUBSET rows
  BY DEF Latest
<1>2. IsFiniteSet(kept) /\ Cardinality(kept) \in Nat
  BY <1>1, FS_Subset, FS_CardinalityType
<1>3. CASE kept = {}
  BY <1>3, FS_EmptySet
<1>4. CASE kept # {}
  <2>1. PICK m \in kept : \A s \in kept \ {m} : Later(s, m)
    <3>1. kept \in SUBSET StoredRow /\ \A r, s \in kept : r.id = s.id => r = s
      BY <1>1 DEF Numbers
    <3>. QED
      BY <1>4, <3>1, OldestRow
  <2>2. kept \ {m} \in SUBSET Above(rows, m)
    BY <1>1, <2>1 DEF Above
  <2>3. /\ Cardinality(Above(rows, m)) < n /\ IsFiniteSet(Above(rows, m))
        /\ Cardinality(Above(rows, m)) \in Nat
    BY <1>1, <2>1, AboveFinite, LatestAbove
  <2>4. Cardinality(kept \ {m}) <= Cardinality(Above(rows, m))
    BY <2>2, <2>3, FS_Subset
  <2>5. Cardinality(kept \ {m}) = Cardinality(kept) - 1
    BY <1>2, <2>1, FS_RemoveElement
  <2>. QED
    BY <1>2, <2>3, <2>4, <2>5
<1>. QED
  BY <1>2, <1>3, <1>4

\* If a row is not left, then n are: those above the latest of such rows.
LEMMA LatestAtLeast ==
  ASSUME NEW rows \in SUBSET StoredRow, IsFiniteSet(rows), Numbers(rows), NEW n \in Nat,
         Latest(rows, n) # rows
  PROVE  Cardinality(Latest(rows, n)) = n
<1>. DEFINE lost == rows \ Latest(rows, n)
<1>. DEFINE above == {Cardinality(Above(rows, r)) : r \in lost}
<1>1. lost # {} /\ lost \in SUBSET rows
  BY DEF Latest
<1>2. above \in SUBSET Nat /\ above # {}
  BY <1>1, AboveFinite
<1>. HIDE DEF above
<1>3. PICK k \in above : \A j \in above : k <= j
  BY <1>2, LeastNumber
<1>4. PICK m \in lost : k = Cardinality(Above(rows, m))
  BY <1>3 DEF above
<1>5. Above(rows, m) \in SUBSET Latest(rows, n)
  <2>. SUFFICES ASSUME NEW s \in rows, Later(s, m), s \in lost PROVE FALSE
    BY DEF Above
  <2>1. Cardinality(Above(rows, s)) \in above
    BY DEF above
  <2>2. Cardinality(Above(rows, s)) < k
    BY <1>4, FewerAbove
  <2>3. k <= Cardinality(Above(rows, s))
    BY <1>3, <2>1
  <2>4. k \in Nat /\ Cardinality(Above(rows, s)) \in Nat
    BY <1>2, <1>3, AboveFinite
  <2>. QED
    BY <2>2, <2>3, <2>4
<1>6. ~(Cardinality(Above(rows, m)) < n) /\ Cardinality(Above(rows, m)) \in Nat
  BY <1>4, AboveFinite, LatestAbove
<1>7. /\ IsFiniteSet(Latest(rows, n)) /\ Cardinality(Latest(rows, n)) \in Nat
      /\ Cardinality(Latest(rows, n)) <= n
  BY LatestAtMost
<1>8. Cardinality(Above(rows, m)) <= Cardinality(Latest(rows, n))
  BY <1>5, <1>7, FS_Subset
<1>. QED
  BY <1>6, <1>7, <1>8

\* As many numbers as rows.
LEMMA IdsCardinality ==
  ASSUME NEW rows, IsFiniteSet(rows), Numbers(rows)
  PROVE  IsFiniteSet(Ids(rows)) /\ Cardinality(Ids(rows)) = Cardinality(rows)
<1>. DEFINE f == [r \in rows |-> r.id]
<1>1. f \in Bijection(rows, Ids(rows))
  <2>1. f \in [rows -> Ids(rows)] /\ \A r \in rows : f[r] = r.id
    BY DEF Ids
  <2>2. \A r, s \in rows : f[r] = f[s] => r = s
    BY <2>1 DEF Numbers
  <2>3. \A n \in Ids(rows) : \E r \in rows : f[r] = n
    BY <2>1 DEF Ids
  <2>. HIDE DEF f
  <2>. QED
    BY <2>1, <2>2, <2>3, Fun_IsBij
<1>2. ExistsBijection(rows, Ids(rows))
  BY <1>1 DEF ExistsBijection
<1>. QED
  BY <1>2, FS_Bijection

-----------------------------------------------------------------------------
\* What a step does to the log rows: nothing; an INSERT adds one that is stamped
\* with some time of the past; or a DELETE leaves the latest of them.
LogRow(ts_ms) == [id |-> LogId + 1, ts_ms |-> ts_ms, content |-> FALSE]

Same == UNCHANGED <<Logs, LogId, dropped, fresh, in_order>>

Added(row) ==
  /\ LogId' = LogId + 1 /\ Logs' = Logs \cup {row}
  /\ fresh' = fresh \cup {row} /\ UNCHANGED dropped
  /\ in_order' = (in_order /\ \A r \in Logs \cup dropped : r.ts_ms <= row.ts_ms)

Deleted ==
  /\ Logs' = Latest(Logs, KeptLogs) /\ fresh' = {}
  /\ dropped' = dropped \cup (Logs \ Latest(Logs, KeptLogs))
  /\ UNCHANGED <<LogId, in_order>>

LEMMA KeptLogsIsNat == KeptLogs \in Nat /\ KeptLogs > 0
BY LimitAssumption

LEMMA LogTypes ==
  ASSUME Types
  PROVE  Logs \in SUBSET StoredRow /\ LogId \in Nat /\ "runtime_logs" \in Table
BY DEF Types, Logs, LogId, Table

LEMMA LogRowType ==
  ASSUME Types, NEW ts \in Nat
  PROVE  /\ LogRow(ts) \in StoredRow /\ LogRow(ts).id = LogId + 1 /\ LogRow(ts).ts_ms = ts
BY LogTypes DEF LogRow, StoredRow

\* An INSERT into a table stores a row of its type and leaves the other tables.
LEMMA InsertStep ==
  ASSUME Types, NEW t \in Table, NEW ts \in Nat, NEW content \in BOOLEAN,
         Insert(t, NewRow(t, ts, content))
  PROVE  /\ last_id' \in [Table -> Nat] /\ tables' \in [Table -> SUBSET StoredRow]
         /\ \A u \in Table : tables[u] \subseteq tables'[u]
         /\ t # "runtime_logs" => UNCHANGED <<Logs, LogId>>
<1>1. NewRow(t, ts, content) \in StoredRow
  BY DEF NewRow, StoredRow, Types
<1>. QED
  BY <1>1 DEF Insert, Types, Logs, LogId, Table

LEMMA InsertLogStep ==
  ASSUME Types, NEW g \in Gateway, InsertLog(g)
  PROVE  /\ Same \/ \E ts \in Nat : Added(LogRow(ts))
         /\ last_id' \in [Table -> Nat] /\ tables' \in [Table -> SUBSET StoredRow]
         /\ \A u \in Table : tables[u] \subseteq tables'[u]
         /\ log' \in [Gateway -> [step : {"idle", "insert", "delete"}, ts_ms : Nat]]
<1>. DEFINE ts == log[g].ts_ms
<1>. DEFINE row == NewRow("runtime_logs", ts, FALSE)
<1>1. ts \in Nat /\ row = LogRow(ts)
  BY DEF NewRow, LogRow, LogId, Types
<1>2. log' \in [Gateway -> [step : {"idle", "insert", "delete"}, ts_ms : Nat]]
  <2>1. log' \in {[log EXCEPT ![g].step = "delete"], [log EXCEPT ![g] = Idle]}
    BY DEF InsertLog
  <2>2. Idle \in [step : {"idle", "insert", "delete"}, ts_ms : Nat]
    BY DEF Idle
  <2>3. [log[g] EXCEPT !.step = "delete"] \in [step : {"idle", "insert", "delete"}, ts_ms : Nat]
    BY DEF Types
  <2>. QED
    BY <2>1, <2>2, <2>3 DEF Types
<1>3. UNCHANGED dropped
  BY DEF InsertLog
<1>4. CASE /\ Insert("runtime_logs", row) /\ fresh' = fresh \cup {row}
           /\ in_order' = (in_order /\ \A r \in tables["runtime_logs"] \cup dropped :
                                          r.ts_ms <= row.ts_ms)
  <2>1. /\ last_id' \in [Table -> Nat] /\ tables' \in [Table -> SUBSET StoredRow]
        /\ \A u \in Table : tables[u] \subseteq tables'[u]
    BY <1>1, <1>4, InsertStep, LogTypes
  <2>2. Logs' = Logs \cup {row} /\ LogId' = LogId + 1
    BY <1>4, LogTypes DEF Insert, Logs, LogId, Types
  <2>3. Added(LogRow(ts))
    BY <1>1, <1>3, <1>4, <2>2 DEF Added, Logs
  <2>. QED
    BY <1>1, <1>2, <2>1, <2>3
<1>5. CASE UNCHANGED <<tables, last_id, fresh, in_order>>
  BY <1>2, <1>3, <1>5 DEF Same, Logs, LogId, Types
<1>. QED
  BY <1>4, <1>5 DEF InsertLog

LEMMA DeleteLogsStep ==
  ASSUME Types, NEW g \in Gateway, DeleteLogs(g)
  PROVE  /\ Same \/ Deleted
         /\ last_id' \in [Table -> Nat] /\ tables' \in [Table -> SUBSET StoredRow]
         /\ \A u \in Table \ {"runtime_logs"} : tables[u] \subseteq tables'[u]
         /\ log' \in [Gateway -> [step : {"idle", "insert", "delete"}, ts_ms : Nat]]
<1>1. log' \in [Gateway -> [step : {"idle", "insert", "delete"}, ts_ms : Nat]]
  BY DEF DeleteLogs, Types, Idle
<1>2. UNCHANGED <<last_id, in_order>>
  BY DEF DeleteLogs
<1>3. CASE Keep(Latest(tables["runtime_logs"], KeptLogs))
  <2>1. tables' = [tables EXCEPT !["runtime_logs"] = Latest(Logs, KeptLogs)]
        /\ dropped' = dropped \cup (Logs \ Latest(Logs, KeptLogs)) /\ fresh' = {}
    BY <1>3 DEF Keep, Logs
  <2>2. Latest(Logs, KeptLogs) \in SUBSET StoredRow
    BY LogTypes DEF Latest
  <2>3. Logs' = Latest(Logs, KeptLogs)
    BY <2>1, LogTypes DEF Logs, Types
  <2>4. /\ tables' \in [Table -> SUBSET StoredRow]
        /\ \A u \in Table \ {"runtime_logs"} : tables[u] \subseteq tables'[u]
    BY <2>1, <2>2 DEF Types
  <2>. QED
    BY <1>1, <1>2, <2>1, <2>3, <2>4 DEF Deleted, LogId, Types
<1>4. CASE UNCHANGED <<tables, dropped, fresh>>
  BY <1>1, <1>2, <1>4 DEF Same, Logs, LogId, Types
<1>. QED
  BY <1>3, <1>4 DEF DeleteLogs

\* The other steps leave the log rows alone.
Harmless ==
  /\ Same
  /\ last_id' \in [Table -> Nat] /\ tables' \in [Table -> SUBSET StoredRow]
  /\ \A u \in Table : tables[u] \subseteq tables'[u]
  /\ log' \in [Gateway -> [step : {"idle", "insert", "delete"}, ts_ms : Nat]]
  /\ clock' \in Nat

LEMMA OtherSteps ==
  ASSUME Types, [Next]_vars, ~ \E g \in Gateway : InsertLog(g) \/ DeleteLogs(g)
  PROVE  Harmless
<1>1. ASSUME NEW g \in Gateway, NEW t \in Table, Record(g, t)
      PROVE  /\ Same
             /\ last_id' \in [Table -> Nat] /\ tables' \in [Table -> SUBSET StoredRow]
             /\ \A u \in Table : tables[u] \subseteq tables'[u]
             /\ UNCHANGED <<log, clock>>
  <2>1. PICK content \in BOOLEAN : Insert(t, NewRow(t, clock, content))
    BY <1>1 DEF Record
  <2>2. clock \in Nat /\ t # "runtime_logs" /\ UNCHANGED <<history, log, clock>>
    BY <1>1 DEF Record, Types
  <2>. QED
    BY <2>1, <2>2, InsertStep DEF Same
<1>2. ASSUME UNCHANGED <<tables, last_id, history>>
      PROVE  /\ Same
             /\ last_id' \in [Table -> Nat] /\ tables' \in [Table -> SUBSET StoredRow]
             /\ \A u \in Table : tables[u] \subseteq tables'[u]
  BY <1>2 DEF Same, Logs, LogId, Types
<1>3. ASSUME NEW g \in Gateway, RecordLog(g)
      PROVE  log' \in [Gateway -> [step : {"idle", "insert", "delete"}, ts_ms : Nat]]
  BY <1>3 DEF RecordLog, Types
<1>4. ASSUME NEW g \in Gateway, Crash(g)
      PROVE  log' \in [Gateway -> [step : {"idle", "insert", "delete"}, ts_ms : Nat]]
  BY <1>4 DEF Crash, Types, Idle
<1>5. CASE \E g \in Gateway : RecordLog(g) \/ Crash(g)
  <2>1. UNCHANGED <<tables, last_id, clock, history>>
    BY <1>5 DEF RecordLog, Crash
  <2>. QED
    BY <1>2, <1>3, <1>4, <1>5, <2>1 DEF Types, Harmless
<1>6. CASE Tick \/ SetBack
  <2>1. UNCHANGED <<tables, last_id, log, history>> /\ clock' \in Nat
    BY <1>6 DEF Tick, SetBack, Types
  <2>. QED
    BY <1>2, <2>1 DEF Types, Harmless
<1>7. CASE \/ \E g \in Gateway, t \in Table, n \in Limits \cup {NoQuery} : GetRecent(g, t, n)
           \/ \E g \in Gateway, n \in Limits \cup {NoQuery} : GetMediaContent(g, n)
           \/ UNCHANGED vars
  <2>1. UNCHANGED <<tables, last_id, log, clock, history>>
    BY <1>7 DEF GetRecent, GetMediaContent
  <2>. QED
    BY <1>2, <2>1 DEF Types, Harmless
<1>8. CASE \E g \in Gateway, t \in Table : Record(g, t)
  <2>1. clock \in Nat /\ log \in [Gateway -> [step : {"idle", "insert", "delete"}, ts_ms : Nat]]
    BY DEF Types
  <2>. QED
    BY <1>1, <1>8, <2>1 DEF Harmless
<1>. QED
  <2>1. \/ \E g \in Gateway, t \in Table : Record(g, t)
        \/ \E g \in Gateway : RecordLog(g) \/ Crash(g)
        \/ \E g \in Gateway, t \in Table, n \in Limits \cup {NoQuery} : GetRecent(g, t, n)
        \/ \E g \in Gateway, n \in Limits \cup {NoQuery} : GetMediaContent(g, n)
        \/ Tick \/ SetBack \/ UNCHANGED vars
    BY Zenon DEF Next
  <2>. QED
    BY <1>5, <1>6, <1>7, <1>8, <2>1

LEMMA StepCases ==
  ASSUME Types, [Next]_vars
  PROVE  \/ Same
         \/ \E ts \in Nat : Added(LogRow(ts))
         \/ Deleted
BY InsertLogStep, DeleteLogsStep, OtherSteps DEF Harmless

-----------------------------------------------------------------------------
LEMMA TypesStep ==
  ASSUME Types, [Next]_vars
  PROVE  Types'
<1>1. /\ last_id' \in [Table -> Nat] /\ tables' \in [Table -> SUBSET StoredRow]
      /\ log' \in [Gateway -> [step : {"idle", "insert", "delete"}, ts_ms : Nat]]
  BY InsertLogStep, DeleteLogsStep, OtherSteps DEF Harmless
<1>2. clock' \in Nat
  <2>1. CASE \E g \in Gateway : InsertLog(g) \/ DeleteLogs(g)
    BY <2>1 DEF InsertLog, DeleteLogs, Types
  <2>. QED
    BY <2>1, OtherSteps DEF Harmless
<1>3. dropped' \subseteq StoredRow /\ fresh' \subseteq Logs' /\ in_order' \in BOOLEAN
  <2>1. dropped \subseteq StoredRow /\ fresh \subseteq Logs /\ in_order \in BOOLEAN
    BY DEF Types
  <2>2. CASE Same
    BY <2>1, <2>2 DEF Same
  <2>3. ASSUME NEW ts \in Nat, Added(LogRow(ts)) 
        PROVE  dropped' \subseteq StoredRow /\ fresh' \subseteq Logs' /\ in_order' \in BOOLEAN
    BY <2>1, <2>3 DEF Added
  <2>4. CASE Deleted
    BY <2>1, <2>4, LogTypes DEF Deleted
  <2>. QED
    BY <2>2, <2>3, <2>4, StepCases
<1>. QED
  BY <1>1, <1>2, <1>3 DEF Types

LEMMA LogNumbers ==
  ASSUME Types, Numbered, NEW ts \in Nat
  PROVE  /\ Numbers(Logs) /\ LogRow(ts) \notin Logs \cup dropped
         /\ \A r \in Logs \cup dropped : r.id \in Nat /\ r.ts_ms \in Nat /\ r.id < LogRow(ts).id
<1>1. \A r \in Logs \cup dropped : r.id \in Nat /\ r.ts_ms \in Nat /\ r.id < LogRow(ts).id
  BY LogTypes, LogRowType DEF Types, StoredRow, Numbered
<1>2. LogRow(ts) \notin Logs \cup dropped
  BY <1>1
<1>. QED
  BY <1>1, <1>2 DEF Numbers, Numbered

\* A deletion moves rows from the table to the deleted ones.
LEMMA DeletedMoves ==
  ASSUME Deleted
  PROVE  /\ Logs' \subseteq Logs /\ dropped \subseteq dropped'
         /\ Logs' \cup dropped' = Logs \cup dropped
BY DEF Deleted, Latest

LEMMA NumberedStep ==
  ASSUME Types, Numbered, [Next]_vars
  PROVE  Numbered'
<1>1. CASE Same
  BY <1>1 DEF Same, Numbered
<1>2. ASSUME NEW ts \in Nat, Added(LogRow(ts)) PROVE Numbered'
  <2>1. /\ (Logs \cup dropped)' = (Logs \cup dropped) \cup {LogRow(ts)}
        /\ LogId' = LogId + 1 /\ LogId \in Nat /\ LogRow(ts).id = LogId + 1
    BY <1>2, LogTypes, LogRowType DEF Added
  <2>2. \A r \in (Logs \cup dropped)' : r.id <= LogId'
    BY <2>1, LogNumbers
  <2>3. \A r, s \in (Logs \cup dropped)' : r.id = s.id => r = s
    BY <2>1, LogNumbers DEF Numbered
  <2>4. ASSUME NEW i \in 1..LogId' PROVE \E r \in (Logs \cup dropped)' : r.id = i
    <3>1. CASE i = LogId + 1
      BY <2>1, <3>1
    <3>2. CASE i # LogId + 1
      <4>1. i \in 1..LogId
        BY <2>1, <3>2
      <4>. QED
        BY <2>1, <4>1 DEF Numbered
    <3>. QED
      BY <3>1, <3>2
  <2>. QED
    BY <2>2, <2>3, <2>4 DEF Numbered
<1>3. CASE Deleted
  <2>1. (Logs \cup dropped)' = Logs \cup dropped /\ LogId' = LogId
    BY <1>3, DeletedMoves DEF Deleted
  <2>. QED
    BY <2>1 DEF Numbered
<1>. QED
  BY <1>1, <1>2, <1>3, StepCases

LEMMA FullStep ==
  ASSUME Types, Numbered, Full, [Next]_vars
  PROVE  Full'
<1>1. CASE Same
  BY <1>1 DEF Same, Full, Left
<1>2. ASSUME NEW ts \in Nat, Added(LogRow(ts)) PROVE Full'
  <2>1. IsFiniteSet(Logs') /\ dropped' = dropped
    BY <1>2, FS_AddElement DEF Full, Added
  <2>2. Left' = Left
    BY <1>2, LogNumbers DEF Left, Added
  <2>. QED
    BY <2>1, <2>2 DEF Full
<1>3. CASE Deleted
  <2>1. Left' = Logs' /\ Logs' = Latest(Logs, KeptLogs)
    BY <1>3 DEF Left, Deleted
  <2>2. Numbers(Logs) /\ Logs \in SUBSET StoredRow /\ IsFiniteSet(Logs)
    BY LogNumbers, LogTypes DEF Full
  <2>3. /\ IsFiniteSet(Logs') /\ Cardinality(Logs') \in Nat
        /\ Cardinality(Logs') <= KeptLogs
    BY <2>1, <2>2, KeptLogsIsNat, LatestAtMost
  <2>4. CASE Latest(Logs, KeptLogs) = Logs
    <3>1. dropped' = dropped
      BY <1>3, <2>4 DEF Deleted
    <3>2. Left \in SUBSET Logs' /\ Cardinality(Left) <= Cardinality(Logs')
      <4>1. Left \in SUBSET Logs'
        BY <2>1, <2>4 DEF Left
      <4>. QED
        BY <2>3, <4>1, FS_Subset
    <3>3. Cardinality(Left) \in Nat
      BY <2>3, <3>2, FS_Subset, FS_CardinalityType
    <3>4. dropped # {} => Cardinality(Logs') = KeptLogs
      BY <2>3, <3>2, <3>3, KeptLogsIsNat DEF Full
    <3>. QED
      BY <2>1, <2>3, <3>1, <3>4 DEF Full
  <2>5. CASE Latest(Logs, KeptLogs) # Logs
    <3>1. Cardinality(Logs') = KeptLogs
      BY <2>1, <2>2, <2>5, KeptLogsIsNat, LatestAtLeast
    <3>. QED
      BY <2>1, <2>3, <3>1 DEF Full
  <2>. QED
    BY <2>4, <2>5
<1>. QED
  BY <1>1, <1>2, <1>3, StepCases

LEMMA DroppedStep ==
  ASSUME Types, Numbered, Full, DroppedAreOldest, [Next]_vars
  PROVE  DroppedAreOldest'
<1>. SUFFICES ASSUME NEW r \in Left', NEW d \in dropped' PROVE Later(r, d)
  BY DEF DroppedAreOldest, Left, Logs
<1>1. \A x \in Left, y \in dropped : Later(x, y)
  BY DEF DroppedAreOldest, Left, Logs
<1>2. CASE Same
  BY <1>1, <1>2 DEF Same, Left
<1>3. ASSUME NEW ts \in Nat, Added(LogRow(ts)) PROVE Later(r, d)
  BY <1>1, <1>3 DEF Added, Left
<1>4. CASE Deleted
  <2>1. r \in Latest(Logs, KeptLogs) /\ r \in Logs
    BY <1>4 DEF Left, Deleted, Latest
  <2>2. Numbers(Logs) /\ Logs \in SUBSET StoredRow /\ IsFiniteSet(Logs)
    BY LogNumbers, LogTypes DEF Full
  <2>3. CASE d \in Logs \ Latest(Logs, KeptLogs)
    BY <2>1, <2>2, <2>3, KeptLogsIsNat, LatestAreLater
  <2>4. CASE d \in dropped /\ ~Later(r, d)
    <3>1. r \in StoredRow /\ d \in StoredRow /\ Left \in SUBSET StoredRow
      BY <2>1, <2>2, <2>4 DEF Types, Left
    <3>2. Later(d, r) \/ r.id = d.id
      BY <2>4, <3>1, LaterOrder
    <3>3. Left \in SUBSET Above(Logs, r)
      <4>1. CASE Later(d, r)
        <5>1. \A s \in Left : Later(s, r)
          BY <1>1, <2>4, <3>1, <4>1, LaterOrder
        <5>. QED
          BY <5>1 DEF Above, Left
      <4>2. CASE r.id = d.id
        <5>1. r = d
          BY <2>1, <2>4, <4>2 DEF Numbered
        <5>. QED
          BY <1>1, <2>4, <5>1 DEF Above, Left
      <4>. QED
        BY <3>2, <4>1, <4>2
    <3>4. Cardinality(Left) = KeptLogs
      BY <2>4 DEF Full
    <3>5. /\ IsFiniteSet(Above(Logs, r)) /\ Cardinality(Above(Logs, r)) \in Nat
          /\ Cardinality(Above(Logs, r)) < KeptLogs
      BY <2>1, <2>2, AboveFinite, LatestAbove
    <3>6. Cardinality(Left) <= Cardinality(Above(Logs, r))
      BY <3>3, <3>5, FS_Subset
    <3>. QED
      BY <3>4, <3>5, <3>6, KeptLogsIsNat
  <2>5. d \in dropped \/ d \in Logs \ Latest(Logs, KeptLogs)
    BY <1>4 DEF Deleted
  <2>. QED
    BY <2>3, <2>4, <2>5
<1>. QED
  BY <1>2, <1>3, <1>4, StepCases

-----------------------------------------------------------------------------
LEMMA NumbersAbove ==
  ASSUME NEW k \in Nat, NEW n \in Nat, k <= n
  PROVE  IsFiniteSet((k + 1)..n) /\ Cardinality((k + 1)..n) = n - k
<1>1. k + 1 \in Int /\ n \in Int /\ (IF k + 1 > n THEN 0 ELSE n - (k + 1) + 1) = n - k
  OBVIOUS
<1>. QED
  BY <1>1, FS_Interval

\* As long as rows were stored in the order of their times, a row that is not
\* left has KeptLogs rows with higher numbers.
LEMMA DroppedIsFarBack ==
  ASSUME Types, Numbered, Full, Ordered, in_order, NEW d \in Logs \ Latest(Logs, KeptLogs)
  PROVE  d.id <= LogId - KeptLogs
<1>. DEFINE above == Above(Logs, d)
<1>1. Numbers(Logs) /\ Logs \in SUBSET StoredRow /\ IsFiniteSet(Logs) /\ LogId \in Nat
      /\ d.id \in Nat /\ d.id <= LogId
  BY LogNumbers, LogTypes DEF Full, StoredRow, Numbered
<1>2. /\ IsFiniteSet(above) /\ Cardinality(above) \in Nat /\ Cardinality(above) >= KeptLogs
  BY <1>1, AboveFinite, LatestAbove, KeptLogsIsNat
<1>3. ASSUME NEW s \in above PROVE s.id \in (d.id + 1)..LogId
  <2>1. s \in Logs /\ Later(s, d) /\ s \in StoredRow /\ d \in StoredRow
    BY <1>1 DEF Above
  <2>2. s.id \in Nat /\ s.ts_ms \in Nat /\ d.ts_ms \in Nat /\ s.id <= LogId
    BY <2>1 DEF StoredRow, Numbered
  <2>3. s.id < d.id => s.ts_ms <= d.ts_ms
    BY <2>1 DEF Ordered
  <2>4. s.id # d.id
    <3>1. s = d => ~Later(s, d)
      BY <2>1, LaterOrder
    <3>. QED
      BY <1>1, <2>1, <3>1 DEF Numbers
  <2>5. ~(s.id < d.id)
    BY <1>1, <2>1, <2>2, <2>3 DEF Later
  <2>. QED
    BY <1>1, <2>2, <2>4, <2>5
<1>4. Ids(above) \in SUBSET ((d.id + 1)..LogId)
  BY <1>3 DEF Ids
<1>5. Numbers(above)
  BY <1>1 DEF Numbers, Above
<1>. HIDE DEF above
<1>6. Cardinality(Ids(above)) = Cardinality(above)
  BY <1>2, <1>5, IdsCardinality
<1>7. IsFiniteSet((d.id + 1)..LogId) /\ Cardinality((d.id + 1)..LogId) = LogId - d.id
  BY <1>1, NumbersAbove
<1>8. Cardinality(Ids(above)) <= LogId - d.id
  BY <1>4, <1>7, FS_Subset
<1>. QED
  BY <1>1, <1>2, <1>6, <1>8, KeptLogsIsNat

LEMMA OrderedStep ==
  ASSUME Types, Numbered, Full, Ordered, [Next]_vars
  PROVE  Ordered'
<1>1. CASE Same
  BY <1>1 DEF Same, Ordered
<1>2. ASSUME NEW ts \in Nat, Added(LogRow(ts)), in_order'
      PROVE  /\ \A r, s \in (Logs \cup dropped)' : r.id < s.id => r.ts_ms <= s.ts_ms
             /\ \A d \in dropped' : d.id <= LogId' - KeptLogs
  <2>1. /\ in_order /\ \A r \in Logs \cup dropped : r.ts_ms <= LogRow(ts).ts_ms
        /\ (Logs \cup dropped)' = (Logs \cup dropped) \cup {LogRow(ts)} /\ dropped' = dropped
        /\ LogId' = LogId + 1 /\ LogId \in Nat /\ LogRow(ts).id = LogId + 1
    BY <1>2, LogTypes, LogRowType DEF Added
  <2>2. ASSUME NEW r \in Logs \cup dropped, NEW s \in Logs \cup dropped, r.id < s.id
        PROVE  r.ts_ms <= s.ts_ms
    BY <2>1, <2>2 DEF Ordered
  <2>3. ASSUME NEW r \in (Logs \cup dropped)', NEW s \in (Logs \cup dropped)', r.id < s.id
        PROVE  r.ts_ms <= s.ts_ms
    <3>1. CASE r = LogRow(ts)
      <4>1. s \in Logs \cup dropped => s.id \in Nat /\ s.id < r.id
        BY <3>1, LogNumbers
      <4>2. s = LogRow(ts) => s.id = r.id
        BY <3>1
      <4>. QED
        BY <2>1, <2>3, <3>1, <4>1, <4>2
    <3>2. CASE r \in Logs \cup dropped
      BY <2>1, <2>2, <2>3, <3>2
    <3>. QED
      BY <2>1, <3>1, <3>2
  <2>4. ASSUME NEW d \in dropped' PROVE d.id <= LogId' - KeptLogs
    <3>1. d.id \in Nat /\ d.id <= LogId - KeptLogs
      BY <2>1, LogNumbers DEF Ordered
    <3>. QED
      BY <2>1, <3>1, KeptLogsIsNat
  <2>. QED
    BY <2>3, <2>4
<1>3. ASSUME Deleted, in_order'
      PROVE  /\ \A r, s \in (Logs \cup dropped)' : r.id < s.id => r.ts_ms <= s.ts_ms
             /\ \A d \in dropped' : d.id <= LogId' - KeptLogs
  <2>1. in_order /\ LogId' = LogId /\ (Logs \cup dropped)' = Logs \cup dropped
        /\ dropped' = dropped \cup (Logs \ Latest(Logs, KeptLogs))
    BY <1>3, DeletedMoves DEF Deleted
  <2>. QED
    BY <2>1, DroppedIsFarBack DEF Ordered
<1>. QED
  BY <1>1, <1>2, <1>3, StepCases DEF Ordered

-----------------------------------------------------------------------------
LEMMA StorageInvHolds == Spec => []StorageInv
<1>1. Init => StorageInv
  <2>. SUFFICES ASSUME Init PROVE StorageInv
    OBVIOUS
  <2>1. Logs = {} /\ LogId = 0 /\ dropped = {} /\ fresh = {}
    BY DEF Init, Logs, LogId, Table
  <2>2. Types
    BY <2>1 DEF Init, Types, Idle
  <2>3. Numbered
    BY <2>1 DEF Numbered
  <2>4. Full
    BY <2>1, KeptLogsIsNat, FS_EmptySet DEF Full, Left
  <2>5. Ordered /\ DroppedAreOldest
    BY <2>1 DEF Ordered, DroppedAreOldest
  <2>. QED
    BY <2>2, <2>3, <2>4, <2>5 DEF StorageInv
<1>2. StorageInv /\ [Next]_vars => StorageInv'
  BY TypesStep, NumberedStep, FullStep, OrderedStep, DroppedStep DEF StorageInv
<1>. QED
  BY <1>1, <1>2, PTL DEF Spec

\* No row that retention deleted is later than one that a deletion has left,
\* however the clock was set, whichever statements failed or were cut off, and
\* however two gateways overlap.
THEOREM OldestAreDropped == Spec => []DroppedAreOldest
BY StorageInvHolds, PTL DEF StorageInv

\* A deletion that succeeds brings the log table down to its limit, and as long as
\* rows were stored in the order of their times none of the last rows recorded is
\* missing.
THEOREM RecentLogsAreKept == Spec => []LogsAreRecent
<1>1. StorageInv => LogsAreRecent
  <2>. SUFFICES ASSUME StorageInv PROVE LogsAreRecent
    OBVIOUS
  <2>1. Cardinality(Left) <= KeptLogs
    BY DEF StorageInv, Full
  <2>2. ASSUME in_order, NEW i \in 1..LogId, i > LogId - KeptLogs
        PROVE  \E r \in Logs : r.id = i
    <3>1. PICK r \in Logs \cup dropped : r.id = i
      BY DEF StorageInv, Numbered
    <3>2. r \notin dropped
      <4>1. LogId \in Nat
        BY LogTypes DEF StorageInv
      <4>2. \A d \in dropped : d.id <= LogId - KeptLogs
        BY <2>2 DEF StorageInv, Ordered
      <4>. QED
        BY <2>2, <3>1, <4>1, <4>2, KeptLogsIsNat
    <3>. QED
      BY <3>1, <3>2
  <2>. QED
    BY <2>1, <2>2 DEF LogsAreRecent, Left, Logs, LogId
<1>. QED
  BY <1>1, StorageInvHolds, PTL

\* No step deletes a sample, a command or a medium.
THEOREM OtherTablesOnlyGrow == Spec => OnlyLogsAreDropped
<1>. DEFINE Grows == \A t \in Table \ {"runtime_logs"} : tables[t] \subseteq tables'[t]
<1>1. StorageInv /\ [Next]_vars => [Grows]_vars
  BY InsertLogStep, DeleteLogsStep, OtherSteps DEF Harmless, StorageInv
<1>. QED
  BY <1>1, StorageInvHolds, PTL DEF Spec, OnlyLogsAreDropped
=============================================================================
