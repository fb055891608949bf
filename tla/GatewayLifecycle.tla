-------------------------- MODULE GatewayLifecycle --------------------------
(***************************************************************************)
(* Start-up and shut-down: GatewayCore::Run from the signal handlers to    *)
(* the last destructor, and the init script S90iotgw that starts and stops *)
(* gateways without waiting for them to end.  Invocations of the script    *)
(* may overlap: a start waits up to 20 s for the broker.                   *)
(*                                                                         *)
(* Several gateways may be alive at once.  They meet at what the machine   *)
(* has one of: the HTTP port, the serial port, the broker's session, the   *)
(* database file, the camera and its pid file.  A process may crash at any *)
(* step; the kernel then closes its descriptors, and nothing else.         *)
(*                                                                         *)
(* A pid names one process: that it may be another's by the time a pid     *)
(* file is read, so that a start gives up or a kill hits a stranger, is    *)
(* left out.  Commands of a shell that follow each other without a wait    *)
(* are one step.                                                           *)
(***************************************************************************)
EXTENDS Integers, Sequences, Functions

CONSTANTS
  Tables,       \* the CREATE TABLE statements of PrepareSchema, in order
  Columns,      \* the columns it adds to a media_files table that lacks them
  MaxGateways,  \* bound: gateways ever started
  None          \* no process

ASSUME GatewaysAssumption == MaxGateways \in Nat /\ None \notin Nat
ASSUME StatementsAssumption ==
  /\ Tables \in Seq(STRING) /\ Columns \in Seq(STRING)
  /\ \A i \in DOMAIN Tables, j \in DOMAIN Columns : Tables[i] # Columns[j]

Gateway == 1..MaxGateways

VARIABLES
  at,           \* where each gateway is in Run
  g_running,    \* the flag the signal handler clears
  asked,        \* gateways whose flag a signal cleared after Run had set it
  signalled,    \* gateways that any signal reached
  logger_,      \* gateways whose DatabaseService has a logger
  db_,          \* gateways whose DatabaseService is open
  next,         \* the statement of PrepareSchema each gateway executes next
  disk,         \* what the database file holds
  port,         \* the gateway that listens
  serial,       \* gateways with the serial port open
  session,      \* gateways with an MQTT connection
  streaming_,   \* gateways whose CameraManager has streaming_ set
  gst,          \* gst-launch processes that run: "named" is the one of the pid file
                \* StreamPidPath, "other" stands for any others
  pid_file,     \* the init script's PID_FILE
  irregular     \* history: gateways that were started by hand, or in a start
                \* during which another start or a stop was invoked

process == <<g_running, asked, signalled>>
storage == <<logger_, db_, next, disk>>
devices == <<port, serial, session>>
camera  == <<streaming_, gst>>
scripts == <<pid_file, irregular>>
vars    == <<at, process, storage, devices, camera, scripts>>

Statements == Tables \o Columns
Schema == Range(Statements)

Ended == {"absent", "wait", "ended"}
Alive == {g \in Gateway : at[g] \notin Ended}

Starting  == {g \in Gateway : at[g] = "wait"}
Unchecked == Starting \cup irregular      \* the pid file need not stand for these

\* The file is new, or an older version's, without the media columns.
Init ==
  /\ at = [g \in Gateway |-> "absent"] /\ g_running = [g \in Gateway |-> 1]
  /\ asked = {} /\ signalled = {} /\ logger_ = {} /\ db_ = {}
  /\ next = [g \in Gateway |-> 1] /\ disk \in {{}, Range(Tables)}
  /\ port = None /\ serial = {} /\ session = {}
  /\ streaming_ = {} /\ gst = {}
  /\ pid_file = None /\ irregular = {}

\* The gateways are numbered in the order they are started.
New(g) == at[g] = "absent" /\ \A h \in Gateway : h < g => at[h] # "absent"
-----------------------------------------------------------------------------
\* S90iotgw start: unless the pid file names a live process, an invocation waits
\* for the broker, then launches start.sh and enters its pid, or cannot.
\* (A name with a suffix is the code with a slip, kept to test the properties.)
Start_IgnoresPidFile(g) ==
  /\ New(g) /\ at' = [at EXCEPT ![g] = "wait"]
  /\ irregular' = IF Starting = {} THEN irregular ELSE irregular \cup Starting \cup {g}
  /\ UNCHANGED <<process, storage, devices, camera, pid_file>>

Start(g) ==
  /\ pid_file \notin Alive /\ New(g) /\ at' = [at EXCEPT ![g] = "wait"]
  /\ irregular' = IF Starting = {} THEN irregular ELSE irregular \cup Starting \cup {g}
  /\ UNCHANGED <<process, storage, devices, camera, pid_file>>

Launch(g) ==
  /\ at[g] = "wait"
  /\ \/ at' = [at EXCEPT ![g] = "start.sh"] /\ pid_file' = g
     \/ at' = [at EXCEPT ![g] = "ended"] /\ UNCHANGED pid_file
  /\ UNCHANGED <<process, storage, devices, camera, irregular>>

\* start.sh, run by hand: no check, and no pid file.
RunByHand(g) ==
  /\ New(g) /\ at' = [at EXCEPT ![g] = "start.sh"] /\ irregular' = irregular \cup {g}
  /\ UNCHANGED <<process, storage, devices, camera, pid_file>>

\* SIGTERM: fatal until the handlers are installed, then it clears the flag.
Signal(G) ==
  LET Young == {g \in G : at[g] \in {"start.sh", "exec"}} IN
  /\ at' = [g \in Gateway |-> IF g \in Young THEN "ended" ELSE at[g]]
  /\ g_running' = [g \in Gateway |-> IF g \in G \ Young THEN 0 ELSE g_running[g]]
  /\ asked' = asked \cup {g \in G \ Young : at[g] # "handlers"}
  /\ signalled' = signalled \cup (G \ Young)
  /\ UNCHANGED <<storage, devices, camera>>

\* S90iotgw stop: the process of the pid file is signalled and the file removed;
\* then, or by hand at any time, every gateway that is no longer start.sh, and
\* every gst-launch.  A restart is a stop, a second, and a start.
StopByPid ==
  /\ Signal({pid_file} \cap Alive) /\ pid_file' = None
  /\ irregular' = irregular \cup Starting

KillGateways == Signal({g \in Alive : at[g] # "start.sh"}) /\ UNCHANGED scripts

KillStreams ==
  /\ gst' = {}
  /\ UNCHANGED <<at, process, storage, devices, streaming_, scripts>>
-----------------------------------------------------------------------------
Goes(g, from, to) == at[g] = from /\ at' = [at EXCEPT ![g] = to]

\* The process ends, from any step: its memory is gone and the kernel closes its
\* descriptors.  Files and child processes stay.
Ends(g) ==
  /\ at' = [at EXCEPT ![g] = "ended"]
  /\ g_running' = [g_running EXCEPT ![g] = 1] /\ next' = [next EXCEPT ![g] = 1]
  /\ asked' = asked \ {g} /\ signalled' = signalled \ {g}
  /\ logger_' = logger_ \ {g} /\ db_' = db_ \ {g}
  /\ serial' = serial \ {g} /\ session' = session \ {g}
  /\ port' = IF port = g THEN None ELSE port
  /\ streaming_' = streaming_ \ {g}
  /\ UNCHANGED <<disk, gst, scripts>>

\* start.sh becomes the gateway.
Exec(g) ==
  /\ Goes(g, "start.sh", "exec")
  /\ UNCHANGED <<process, storage, devices, camera, scripts>>

\* std::signal twice, then g_running = 1: a signal in between is forgotten.
InstallHandlers(g) ==
  /\ Goes(g, "exec", "handlers")
  /\ UNCHANGED <<process, storage, devices, camera, scripts>>

SetRunning(g) ==
  /\ Goes(g, "handlers", "config") /\ g_running' = [g_running EXCEPT ![g] = 1]
  /\ UNCHANGED <<asked, signalled, storage, devices, camera, scripts>>

LoadConfig_LogsFirst(g) ==
  /\ Goes(g, "config", "schema") /\ logger_' = logger_ \cup {g}
  /\ UNCHANGED <<process, db_, next, disk, devices, camera, scripts>>

LoadConfig(g) ==
  \/ /\ Goes(g, "config", "schema")
     /\ UNCHANGED <<process, storage, devices, camera, scripts>>
  \/ at[g] = "config" /\ Ends(g)

\* DatabaseService::Open holds mu_ throughout.  A failure is logged, if there is
\* a logger, and its database sink calls IsOpen, which takes mu_ again.
OpenFails(g) ==
  /\ at[g] \in {"schema", "alter"}
  /\ at' = [at EXCEPT ![g] = IF g \in logger_ THEN "locked" ELSE "logger"]
  /\ UNCHANGED <<process, storage, devices, camera, scripts>>

\* PrepareSchema, one statement at a time; each is committed by itself.
CreateTable(g) ==
  /\ at[g] = "schema" /\ next[g] \in DOMAIN Statements /\ Statements[next[g]] \in Range(Tables)
  /\ disk' = disk \cup {Statements[next[g]]}
       \cup (IF Statements[next[g]] = "media_files" /\ "media_files" \notin disk
               THEN Range(Columns) ELSE {})
  /\ next' = [next EXCEPT ![g] = @ + 1]
  /\ UNCHANGED <<at, process, logger_, db_, devices, camera, scripts>>

ColumnExists(g) ==
  /\ at[g] = "schema" /\ next[g] \in DOMAIN Statements /\ Statements[next[g]] \in Range(Columns)
  /\ \/ Statements[next[g]] \in disk /\ next' = [next EXCEPT ![g] = @ + 1] /\ UNCHANGED at
     \/ Statements[next[g]] \notin disk /\ Goes(g, "schema", "alter") /\ UNCHANGED next
  /\ UNCHANGED <<process, logger_, db_, disk, devices, camera, scripts>>

\* A column that another gateway has added meanwhile makes ALTER TABLE fail
\* (OpenFails).
AddColumn_GoesOn(g) ==
  /\ Goes(g, "alter", "schema")
  /\ disk' \in {disk, disk \cup {Statements[next[g]]}}
  /\ next' = [next EXCEPT ![g] = @ + 1]
  /\ UNCHANGED <<process, logger_, db_, devices, camera, scripts>>

AddColumn(g) ==
  /\ Goes(g, "alter", "schema") /\ Statements[next[g]] \notin disk
  /\ disk' = disk \cup {Statements[next[g]]} /\ next' = [next EXCEPT ![g] = @ + 1]
  /\ UNCHANGED <<process, logger_, db_, devices, camera, scripts>>

Opened(g) ==
  /\ next[g] \notin DOMAIN Statements /\ Goes(g, "schema", "logger") /\ db_' = db_ \cup {g}
  /\ UNCHANGED <<process, logger_, next, disk, devices, camera, scripts>>

\* BuildLoggerWithDatabase and SetLogger; registry, rules and camera are local.
SetLogger(g) ==
  /\ Goes(g, "logger", "listen") /\ logger_' = logger_ \cup {g}
  /\ UNCHANGED <<process, db_, next, disk, devices, camera, scripts>>

\* server.Start: the port is exclusive, and without it Run returns 3.
Listen_GoesOn(g) ==
  /\ Goes(g, "listen", "zigbee") /\ port' = IF port = None THEN g ELSE port
  /\ UNCHANGED <<process, storage, serial, session, camera, scripts>>

Listen(g) ==
  \/ /\ port = None /\ Goes(g, "listen", "zigbee") /\ port' = g
     /\ UNCHANGED <<process, storage, serial, session, camera, scripts>>
  \/ at[g] = "listen" /\ port # None /\ Ends(g)

\* zigbee.Open and mqtt.Connect, both enabled and both successful: a gateway with
\* less has less to close.
OpenZigbee(g) ==
  /\ Goes(g, "zigbee", "mqtt") /\ serial' = serial \cup {g}
  /\ UNCHANGED <<process, storage, port, session, camera, scripts>>

ConnectMqtt_SetsRunning(g) ==
  /\ Goes(g, "mqtt", "loop") /\ session' = session \cup {g}
  /\ g_running' = [g_running EXCEPT ![g] = 1]
  /\ UNCHANGED <<asked, signalled, storage, port, serial, camera, scripts>>

ConnectMqtt(g) ==
  /\ Goes(g, "mqtt", "loop") /\ session' = session \cup {g}
  /\ UNCHANGED <<process, storage, port, serial, camera, scripts>>
-----------------------------------------------------------------------------
\* The loop, as far as the camera goes.  start_stream launches gst, and its pid
\* is written to the pid file, or not: gst runs all the same, the file is as it
\* was or empty, and streaming_ stays false.
StartStream(g) ==
  /\ at[g] = "loop" /\ g \notin streaming_
  /\ \/ /\ streaming_' = streaming_ \cup {g}
        /\ gst' = {"named"} \cup (IF gst = {} THEN {} ELSE {"other"})
     \/ UNCHANGED streaming_ /\ gst' \in {gst \cup {"other"}, {"other"}}
  /\ UNCHANGED <<at, process, storage, devices, scripts>>

\* StopStream, from the handler and from the destructor: the process of the pid
\* file is interrupted, and after a second the one named then is killed.
Interrupt(g, from, to) ==
  /\ g \in streaming_ /\ Goes(g, from, to) /\ gst' = gst \ {"named"}
  /\ UNCHANGED <<process, storage, devices, streaming_, scripts>>

Kill(g, from, to) ==
  /\ Goes(g, from, to) /\ gst' = gst \ {"named"} /\ streaming_' = streaming_ \ {g}
  /\ UNCHANGED <<process, storage, devices, scripts>>

StopStream(g) == Interrupt(g, "loop", "sleep")
StopStreamReturns(g) == Kill(g, "sleep", "loop")

\* A stream ends by itself: the device is busy, or fails.
StreamEnds(p) ==
  /\ p \in gst /\ gst' = gst \ {p}
  /\ UNCHANGED <<at, process, storage, devices, streaming_, scripts>>

\* while (g_running)
Leave(g) ==
  /\ g_running[g] = 0 /\ Goes(g, "loop", "~zigbee")
  /\ UNCHANGED <<process, storage, devices, camera, scripts>>
-----------------------------------------------------------------------------
\* The destructors, in the reverse order of construction.
CloseZigbee(g) ==
  /\ Goes(g, "~zigbee", "~server") /\ serial' = serial \ {g}
  /\ UNCHANGED <<process, storage, port, session, camera, scripts>>

\* mg_mgr_free closes the MQTT connection, then the listener.  The close event
\* goes to an MqttClient that is destroyed already: whatever happens, happens.
FreeServer(g) ==
  \/ /\ Goes(g, "~server", "~camera")
     /\ port' = (IF port = g THEN None ELSE port) /\ session' = session \ {g}
     /\ UNCHANGED <<process, storage, serial, camera, scripts>>
  \/ at[g] = "~server" /\ g \in session /\ Ends(g)

CloseCamera_LeavesStream(g) ==
  /\ Goes(g, "~camera", "~database")
  /\ UNCHANGED <<process, storage, devices, camera, scripts>>

CloseCamera(g) ==
  \/ Interrupt(g, "~camera", "~sleep")
  \/ Kill(g, "~sleep", "~database")
  \/ /\ g \notin streaming_ /\ Goes(g, "~camera", "~database")
     /\ UNCHANGED <<process, storage, devices, camera, scripts>>

CloseDatabase(g) == at[g] = "~database" /\ Ends(g)

\* A crash, kill -9: nothing of the above is run.
Crash(g) == g \in Alive /\ Ends(g)

Step(g) ==
  \/ Exec(g) \/ InstallHandlers(g) \/ SetRunning(g) \/ LoadConfig(g)
  \/ CreateTable(g) \/ ColumnExists(g) \/ AddColumn(g) \/ Opened(g) \/ OpenFails(g)
  \/ SetLogger(g) \/ Listen(g) \/ OpenZigbee(g) \/ ConnectMqtt(g) \/ StopStreamReturns(g)
  \/ CloseZigbee(g) \/ FreeServer(g) \/ CloseCamera(g) \/ CloseDatabase(g)

Next ==
  \/ \E g \in Gateway : \/ Step(g) \/ Leave(g) \/ Crash(g)
                        \/ StartStream(g) \/ StopStream(g) \/ RunByHand(g)
                        \/ Start(g) \/ Launch(g)
  \/ \E p \in gst : StreamEnds(p)
  \/ StopByPid \/ KillGateways \/ KillStreams

Spec == Init /\ [][Next]_vars

\* A gateway keeps executing; the loop's condition is evaluated after each poll,
\* whatever the requests; commands of the shell end.
Fairness == \A g \in Gateway : WF_vars(Step(g)) /\ SF_vars(Leave(g))

FairSpec == Spec /\ Fairness
-----------------------------------------------------------------------------
\* Only the gateway that has the HTTP port ever has the serial port or an MQTT
\* session: however starts, stops and crashes overlap, no two gateways read the
\* same lines or answer to the same client id.
OneOpensTheDevices == serial \cup session \subseteq {port}

\* A gateway that nobody told to stop, and that the script started, finds the
\* port taken only by one that was told to stop, or that the script did not start
\* or started while it was invoked again: an overlapping restart, a start by hand
\* and overlapping invocations, and nothing else, leave no gateway or the wrong one.
RefusedByThePredecessor ==
  \A g \in Gateway \ (signalled \cup Unchecked) :
     at[g] = "listen" => port \in {None} \cup signalled \cup Unchecked

\* A database that is open has all tables and columns, whatever crash or second
\* gateway came between two statements of the migration.
SchemaIsWhole == db_ # {} => Schema \subseteq disk

Controlled == gst \subseteq {"named"} /\ (gst # {} => streaming_ # {})

\* A gst-launch can be stopped if the pid file names it and a gateway that is
\* alive streams.  That is lost by a start that fails after the launch, by a
\* gateway that ends before it has closed its camera, and by a start while another
\* gateway is still closing its own, and in no other way.
StreamsAreControlled ==
  [][ Controlled => \/ Controlled'
                    \/ \E g \in Gateway : /\ StartStream(g)
                                          /\ g \notin streaming_' \/ streaming_ # {}
                    \/ \E g \in streaming_ : at[g] # "~database" /\ at'[g] \in Ended
    ]_vars

\* A start comes to an end: a gateway reaches its loop or exits.
StartEnds == \A g \in Gateway : at[g] = "start.sh" ~> at[g] \in Ended \cup {"loop"}

\* A signal that comes after g_running = 1 ends the gateway, at whatever step of
\* the start-up or of a handler it comes.
StopIsHonoured == \A g \in Gateway : g \in asked ~> at[g] \in Ended
=============================================================================
