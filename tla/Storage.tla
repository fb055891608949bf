------------------------------- MODULE Storage -------------------------------
(***************************************************************************)
(* The SQLite database (database_service.cpp) and its HTTP interface       *)
(* (database_api.cpp): four tables, the retention of runtime_logs, and the *)
(* queries for recent rows and for the content of a media file.            *)
(*                                                                         *)
(* Rows are stamped with the system clock, which may be set back, and      *)
(* numbered by AUTOINCREMENT.  ORDER BY ts_ms DESC walks an index on ts_ms *)
(* backwards: rows of one millisecond come newest number first.            *)
(*                                                                         *)
(* Every statement is a transaction of its own, may fail, and nobody looks *)
(* at the result.  A gateway that starts while another one runs opens the  *)
(* same file (GatewayLifecycle), so their statements interleave, and a     *)
(* crash may come between any two.  A gateway that could not open the file *)
(* stores nothing and answers every query with no rows.                    *)
(***************************************************************************)
EXTENDS Integers, FiniteSets

CONSTANTS
  Gateway,       \* the gateway processes
  KeptLogs,      \* 2000: the rows of runtime_logs that are kept
  DefaultLimit,  \* 50: rows of a reply, if the request does not say
  MaxLimit,      \* 500: rows of a reply at most
  NoQuery,       \* a request without a query string
  Limits,        \* the numbers that requests ask for
  MaxClock,      \* bound: the clock
  MaxId          \* bound: rows ever stored, per table

Table == {"sensor_samples", "media_files", "actuator_commands", "runtime_logs"}

ASSUME LimitAssumption ==
  /\ {KeptLogs, DefaultLimit, MaxLimit} \subseteq Nat \ {0} /\ DefaultLimit <= MaxLimit
  /\ Limits \subseteq Int /\ NoQuery \notin Int
ASSUME BoundAssumption == MaxClock \in Nat /\ MaxId \in [Table -> Nat]

NoRequest == [of |-> "none", number |-> NoQuery, there |-> FALSE]
NoReply   == [status |-> 0, rows |-> {}]

VARIABLES
  db,        \* per gateway: db_ # nullptr
  log,       \* per gateway: its RecordLog under way, at which statement, for what time
  tables,    \* the rows of each table
  last_id,   \* the last number AUTOINCREMENT gave, per table
  clock,     \* NowUnixMs
  dropped,   \* history: the log rows that were deleted
  fresh,     \* history: the log rows stored since a deletion last succeeded
  in_order,  \* history: no log row was stored after one with a later time
  request,   \* the request just answered: its table, or "content" of a media file,
             \* its number, and whether that content was there to be read
  reply      \* and the reply: the status and the rows

history == <<dropped, fresh, in_order>>
vars    == <<db, log, tables, last_id, clock, history, request, reply>>

Idle == [step |-> "idle", ts_ms |-> 0]

Init ==
  /\ db \in [Gateway -> BOOLEAN] /\ log = [g \in Gateway |-> Idle]
  /\ tables = [t \in Table |-> {}] /\ last_id = [t \in Table |-> 0]
  /\ clock = 0 /\ dropped = {} /\ fresh = {} /\ in_order = TRUE
  /\ request = NoRequest /\ reply = NoReply
-----------------------------------------------------------------------------
\* ORDER BY ts_ms DESC LIMIT n.
\* (A name with a suffix is the code with a slip, kept to test the properties.)
Later(r, s) == r.ts_ms > s.ts_ms \/ (r.ts_ms = s.ts_ms /\ r.id > s.id)

Latest_Ascending(rows, n) == {r \in rows : Cardinality({s \in rows : Later(r, s)}) < n}

Latest(rows, n) == {r \in rows : Cardinality({s \in rows : Later(s, r)}) < n}

NoAnswer == request' = NoRequest /\ reply' = NoReply

\* INSERT.
NewRow(t, ts_ms, content) == [id |-> last_id[t] + 1, ts_ms |-> ts_ms, content |-> content]

Insert(t, row) ==
  /\ last_id[t] < MaxId[t] /\ last_id' = [last_id EXCEPT ![t] = @ + 1]
  /\ tables' = [tables EXCEPT ![t] = @ \cup {row}]

\* RecordSensorValue, RecordCommand, RecordMedia and RecordMediaFile: only the
\* last stores content, if it could read the file.
Record(g, t) ==
  /\ db[g] /\ log[g] = Idle /\ t # "runtime_logs"
  /\ \E content \in BOOLEAN :
       (content => t = "media_files") /\ Insert(t, NewRow(t, clock, content))
  /\ UNCHANGED <<db, log, clock, history>> /\ NoAnswer

\* RecordLog takes the time, waits for the lock, and executes two statements.
\* It returns before the second if the first cannot be prepared.
RecordLog(g) ==
  /\ db[g] /\ log[g] = Idle
  /\ log' = [log EXCEPT ![g] = [step |-> "insert", ts_ms |-> clock]]
  /\ UNCHANGED <<db, tables, last_id, clock, history>> /\ NoAnswer

InsertLog(g) ==
  LET row == NewRow("runtime_logs", log[g].ts_ms, FALSE)
      At(step) == log' = [log EXCEPT ![g].step = step]
  IN
  /\ log[g].step = "insert"
  /\ \/ /\ Insert("runtime_logs", row) /\ At("delete")
        /\ fresh' = fresh \cup {row}
        /\ in_order' = (in_order /\ \A r \in tables["runtime_logs"] \cup dropped :
                                       r.ts_ms <= row.ts_ms)
     \/ At("delete") /\ UNCHANGED <<tables, last_id, fresh, in_order>>
     \/ log' = [log EXCEPT ![g] = Idle] /\ UNCHANGED <<tables, last_id, fresh, in_order>>
  /\ UNCHANGED <<db, clock, dropped>> /\ NoAnswer

\* DELETE all but the latest rows.
Keep(kept) ==
  /\ tables' = [tables EXCEPT !["runtime_logs"] = kept]
  /\ dropped' = dropped \cup (tables["runtime_logs"] \ kept) /\ fresh' = {}

DeleteLogs_ById(g) ==
  /\ log[g].step = "delete" /\ log' = [log EXCEPT ![g] = Idle]
  /\ \/ Keep({r \in tables["runtime_logs"] : r.id > last_id["runtime_logs"] - KeptLogs})
     \/ UNCHANGED <<tables, dropped, fresh>>
  /\ UNCHANGED <<db, last_id, clock, in_order>> /\ NoAnswer

DeleteLogs_AllTables(g) ==
  /\ log[g].step = "delete" /\ log' = [log EXCEPT ![g] = Idle]
  /\ \/ /\ tables' = [t \in Table |-> Latest(tables[t], KeptLogs)]
        /\ dropped' = dropped \cup (tables["runtime_logs"] \ tables'["runtime_logs"])
        /\ fresh' = {}
     \/ UNCHANGED <<tables, dropped, fresh>>
  /\ UNCHANGED <<db, last_id, clock, in_order>> /\ NoAnswer

DeleteLogs(g) ==
  /\ log[g].step = "delete" /\ log' = [log EXCEPT ![g] = Idle]
  /\ \/ Keep(Latest(tables["runtime_logs"], KeptLogs))
     \/ UNCHANGED <<tables, dropped, fresh>>
  /\ UNCHANGED <<db, last_id, clock, in_order>> /\ NoAnswer

\* The process ends, between any two statements, and starts again.
Crash(g) ==
  /\ log' = [log EXCEPT ![g] = Idle]
  /\ \E open \in BOOLEAN : db' = [db EXCEPT ![g] = open]
  /\ UNCHANGED <<tables, last_id, clock, history>> /\ NoAnswer
-----------------------------------------------------------------------------
\* MongooseServer::Handle passes on hm->uri, the path without its query string.
Uri(number) == NoQuery

LimitFromPath(number) == IF number = NoQuery THEN DefaultLimit ELSE number

ClampLimit(limit) ==
  IF limit <= 0 THEN DefaultLimit ELSE IF limit > MaxLimit THEN MaxLimit ELSE limit

\* GET /api/db/sensors, media, commands and logs.
Rows(g, t) == IF db[g] THEN tables[t] ELSE {}

GetRecent(g, t, number) ==
  /\ log[g] = Idle
  /\ request' = [of |-> t, number |-> number, there |-> FALSE]
  /\ reply' = [status |-> 200,
               rows |-> Latest(Rows(g, t), ClampLimit(LimitFromPath(Uri(number))))]
  /\ UNCHANGED <<db, log, tables, last_id, clock, history>>

\* GET /api/db/media_content?id=<number>.  The 404 of a row that is missing or
\* without content falls through DispatchApi to the 404 of an unknown path.
GetMediaContent(g, number) ==
  LET Content(id) == {r \in Rows(g, "media_files") : r.id = id /\ r.content} IN
  /\ log[g] = Idle
  /\ request' = [of |-> "content", number |-> number, there |-> Content(number) # {}]
  /\ reply' = [status |-> IF Uri(number) = NoQuery THEN 400
                          ELSE IF Content(Uri(number)) = {} THEN 404 ELSE 200,
               rows |-> Content(Uri(number))]
  /\ UNCHANGED <<db, log, tables, last_id, clock, history>>

\* Time passes, or the clock is set back.
Tick == /\ clock < MaxClock /\ clock' = clock + 1
        /\ UNCHANGED <<db, log, tables, last_id, history>> /\ NoAnswer

SetBack == /\ \E c \in 0..MaxClock : c < clock /\ clock' = c
           /\ UNCHANGED <<db, log, tables, last_id, history>> /\ NoAnswer

Next ==
  \/ \E g \in Gateway :
       \/ \E t \in Table : Record(g, t)
       \/ RecordLog(g) \/ InsertLog(g) \/ DeleteLogs(g) \/ Crash(g)
       \/ \E t \in Table, n \in Limits \cup {NoQuery} : GetRecent(g, t, n)
       \/ \E n \in Limits \cup {NoQuery} : GetMediaContent(g, n)
  \/ Tick \/ SetBack

Spec == Init /\ [][Next]_vars
-----------------------------------------------------------------------------
\* Retention is by time: no row that was deleted is later than one that a
\* deletion has left, however the clock was set, whichever statements failed or
\* were cut off, and however two gateways overlap.  Only the rows stored since
\* then may be earlier than a deleted one; the next deletion that succeeds sees
\* to them.
DroppedAreOldest ==
  \A r \in tables["runtime_logs"] \ fresh, d \in dropped : Later(r, d)

\* Only log rows are ever deleted.
OnlyLogsAreDropped ==
  [][ \A t \in Table \ {"runtime_logs"} : tables[t] \subseteq tables'[t] ]_vars

\* The log table exceeds its limit only by rows stored since a deletion last
\* succeeded; and as long as rows were stored in the order of their times, with
\* no setback and no gateway overtaken by another, none of the last rows recorded
\* is missing (sqlite-database-usage.md: only the most recent 2000 are kept).
\* After that a full table may delete every new row at once.
LogsAreRecent ==
  /\ Cardinality(tables["runtime_logs"] \ fresh) <= KeptLogs
  /\ in_order =>
       {i \in 1..last_id["runtime_logs"] : i > last_id["runtime_logs"] - KeptLogs}
         \subseteq {r.id : r \in tables["runtime_logs"]}

\* The content of a media row is read from the database through media_content,
\* as the dashboard does.  Every such request is refused, the content being there.
MediaIsReadable == request.there => reply.status = 200
=============================================================================
