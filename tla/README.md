# Verification of the IoT edge gateway

TLA+ models of the gateway in this repository, model-checked with TLC and, where
it matters most, proved with TLAPS. Paths are relative to `src/` of the
repository (`src/gateway/gateway_core.cpp` is `src/src/gateway/gateway_core.cpp` in
`PROJECT.json`). The models are translated from the code; the documents under
`docs/` are quoted only where the code does something else.

## 1. The system

One process, one thread. `GatewayCore::Run` (gateway_core.cpp:290-522) reads the
configuration, opens the database, builds the logger, the device registry, the
rule engine, the camera manager, the HTTP server, the MQTT client and the serial
adapter, and then loops (506-517):

    while (g_running) { server.Poll(50); mqtt.Poll(); zigbee.Poll(); heartbeat every 10 s }

All code runs on this loop: HTTP handlers and MQTT events are callbacks of
`mg_mgr_poll`. There is no preemption; a handler is atomic with respect to the
other handlers. What interleaves is the *environment*: the broker, the network,
the clients' requests, the board at the end of MQTT and ZigBee, the gst-launch
and ffmpeg processes behind the camera, the wall clock, and restarts.

| Component | State | Operations | Talks to |
|---|---|---|---|
| MQTT link (`mqtt_client.cpp`) | `conn_`, `open_`, `reconnect_enabled_`, `next_reconnect_ms_`, `subscriptions_` | Connect, Subscribe, Publish, Poll, MG_EV_MQTT_OPEN / MSG / CLOSE | mongoose, the broker; ingest and the HTTP handlers call it |
| Device registry (`device_registry.cpp`) | `by_id_`, topic indices | Register, UpdateFromTelemetryTopic, UpsertMqttDeviceFromTopic, GetCommandTopic | written by ingest, read by the HTTP handlers and rules |
| Ingest (`gateway_core.cpp:352-409`) | none of its own | one handler for the messages of MQTT, ZigBee, WebSocket clients and POST /api/control | registry, database, rules, WebSocket |
| Start-up and shut-down (`gateway_core.cpp:290-522`, `S90iotgw`) | `g_running`, the order of Run's steps and of the destructors; the pid file of the init script | start, stop, restart, crash | everything the machine has one of: the port, the serial line, the broker's session, the database file, the camera |
| Rule engine (`rule_engine.hpp`, `rule_api.cpp`) | `rules_` with their `enabled` flags | load, reload, enable, disable, OnSensorValue | its callback publishes through the MQTT link |
| Actuator commands (`device_api.cpp`, `zigbee_api.cpp`) | `ControlState` (`rest_api.hpp`) | set one (MQTT), set one (ZigBee), set all | registry, MQTT link, serial adapter, database |
| ZigBee serial adapter (`zigbee_serial_adapter.cpp`) | `fd_`, `line_buffer_` | Open, Poll, HandleIncomingByte, SendLine, Close | the tty; hands lines to ingest |
| Camera (`camera_manager.cpp`, `camera_api.cpp`) | flags, current file, sequence number, pid files, media directory | start/stop stream, snapshot, start/stop record | shell, gst-launch, ffmpeg, database |
| Storage (`database_service.cpp`, `database_api.cpp`) | four SQLite tables | Record*, Recent*, media content | everything that records; the logger |
| HTTP and WebSocket (`websocket_server.hpp`, `rest_api.hpp`) | client list | Handle, dispatch to six handlers in turn, broadcast | all handlers |
| Logging (`common/logger`) | sinks | Log | console, file, `runtime_logs` |
| Configuration and rule files (`config_manager.hpp`, `gateway_core.cpp:126-245`) | the parsers' fields from line to line | one line at a time | everybody at start-up; the rules again on reload |
| JSON and time helpers (`common/utils`) | none | GetJsonString, GetJsonNumber, NowMs | everybody |

### What is hard about it

* **Reconnection.** The MQTT link is dialled again from `Poll` after 3 s, with a
  deadline in wall-clock time; the broker keeps no session, so every subscription
  has to be made again; events carry only the address of a connection.
* **Loss.** QoS is 0. Whatever is under way when the link closes is gone, and
  `Publish` has long returned true. Rules are level-triggered, so the next reading
  repeats their command: that, and nothing else, makes the control loop work.
* **Two copies of one truth.** `ControlState`, the history in
  `actuator_commands`, and the board itself are updated at different moments and
  by different paths (two channels, bulk requests, rules).
* **Bytes and lines.** Lines arrive in arbitrary pieces and leave in partial
  writes; there is no acknowledgement.
* **Processes behind flags.** The camera knows its processes by booleans and pid
  files; they end by themselves, survive a crash, and take time to stop.
* **One handler, four origins.** A message may come from the broker, the serial
  line, any WebSocket client or POST /api/control; its topic alone decides which
  device, row, rule and frame it becomes.
* **Overlapping gateways.** The init script does not wait for a gateway to end, its
  invocations may overlap (a start waits up to 20 s for the broker), and `start.sh` may be
  run by hand: gateways meet at the port, the database and the camera's pid file.
* **Failures nobody is told of.** The result of an insert, of the deletion after it and of
  ffmpeg is not looked at; half a line stays on the serial line; a start that is
  reported as failed may have left its program running.
* **Parsers with memory.** The file parsers carry fields from line to line, and a
  field that is not reset turns up in the next device, rule or section.
* **Time.** Retention, recent rows, media names and the back-off depend on the wall
  clock, which a board without a battery sets back at boot and NTP steps forward later.

### What makes each component correct

* MQTT link: one connection at a time, never a dangling one; no subscription
  lost; commands in order, none twice; the back-off honoured and bounded; the link
  comes back and topics are served again.
* Registry: a message is attributed to the device its topic names, for ever;
  nothing dangles; the command topic of an actuator survives its own telemetry.
* Actuator commands: the dashboard, the history and the board agree on an actuator
  after a complete command, whatever was lost or glued before; the history never has a
  command as sent that was not, and loses one only with its row.
* ZigBee: framing is independent of how bytes are cut; a command reported as
  failed is not executed later; memory is bounded.
* Camera: a process is out of control only after a failed start or the end of its
  gateway; rows and files match; finished media are overwritten only where the clock
  repeats a second.
* Rules: a disabled rule is silent; enabled rules regulate in spite of losses.
* Ingest: the history, the status and the live view say the same of a device, and
  rules stop with the actuator's command topic.
* Start-up and shut-down: only one gateway drives the devices; a migration is whole
  or the database is not open; a start ends, a stop is obeyed.
* File parsers: every value ends up where the text has it, but for the carry-overs of section 6.
* Storage: retention deletes logs only, oldest first, and keeps the newest, whichever
  statements fail or are cut off.

`PROJECT.json` lists the hazards with the line where each one bites and the
properties that watch it; a hazard without a property says why.

## 2. Modules

`X.tla` models a component, `MCX.tla` names its small instances for TLC, `*.cfg`
is one run, `X_proofs.tla` holds theorems: `Gateway_proofs` about DeviceRegistry and
Gateway, `GatewayCore_proofs` about GatewayLifecycle and RuleLoop, the others about the
module they are named after. No module declares a RECURSIVE operator:
a loop of the code is a recursive function, a set or a fold, so every module can be
proved about. Where a property looks into a queue, a table or a stream of bytes it
speaks of positions, which a proof can follow from step to step. Definitions whose name carries a suffix (`OnClose_KeepsOpen`) are the
code with one plausible slip. They are never part of a specification; each is there
to show that a property notices the slip.

### MqttLink
`conn_`, `open_`, `reconnect_enabled_`, `subscriptions_` are the members of
`MqttClient`; `due` is `next_reconnect_ms_` minus the clock, the only form in which
the code uses either. `live`, `out`, `session` and `arrived` are mongoose's
connections and send buffers, the broker's sessions and the commands it has
received. `rest` is the real time since the link went down, `ahead` by how much the wall
clock was stepped forward meanwhile, and both are histories. Connect, Subscribe, Publish
and Poll are the calls of the application; OnOpen and OnClose are the event handler;
Transmit, Tick, SetBack and StepForward are the environment. A refused CONNACK is OnClose: mongoose reports it and closes in the
same iteration of its loop. QoS is 0 and retain false throughout the program, so
neither is a variable. Publish returning false changes nothing and is no action.

### CommandLink
The abstract link: what the code that publishes may rely on. Commands are taken only
while the link is open, delivered in order and at most once, and all those under way
are lost when it closes. `MqttLink` implements it (`ImplementsLink`): `open` is `open_`,
`sent` the number of successful calls of Publish, `pending` the publishes in the send
buffer of the live connection, `delivered` what the broker has received. It is also the
channel that ActuatorControl and RuleLoop assume for MQTT.

### DeviceRegistry
`by_id_` and `telemetry_topic_to_id_` as in the code. A topic is the sequence of
its segments, so the searches for `/` become positions, an empty last segment is a
trailing slash, and the rest of a name does not matter. Upsert is the whole of
`UpsertMqttDeviceFromTopic`: the update of a known device, or the registration of
a new entity, which replaces one of the same id. The initial state is what the two
device files load. The command-topic index is written and never read, and left out.

### Gateway
The data path, composed: it EXTENDS DeviceRegistry, and every step of it is a step of
that module or leaves the registry alone. `Ingest` is the `ingest` lambda in full:
the filter on the topic, Upsert with the last payload, the row in `sensor_samples`, the
rules and their callback (which asks the registry for the command topic *after* the
update, hence the prime in RuleCommands), and the frame to the clients. The four
origins are MqttMessage, ZigbeeLine, WsMessage and Simulate, each with the topics
that it can bring: the broker those of the subscription, the serial line those that
the prefix and a line's id make, the other two any. Upgrade, Sent and Disconnect
are the WebSocket clients. A payload is what the two number parsers make of it: an
object with a number, a bare number, or neither. `sample` is the last row handed over
for a device; that the insert may fail is Storage's subject. The rules are the
enabled ones; RuleLoop has them switched. The link opens and closes at any time and a
command is under way or not: their order is MqttLink's.

### GatewayLifecycle
Several gateways on one machine, each somewhere in `GatewayCore::Run` (`at`), from the
signal handlers to the last destructor, and the init script. An invocation of `start`
gives up if the pid file names a gateway that lives (Start), waits for the broker, up to
20 s in which anything may happen, and then launches `start.sh` and writes its pid, or
fails (Launch). `stop` is three steps: kill the process of the pid file and remove the
file, kill by name every gateway that is no longer `start.sh`, kill every gst-launch; it
waits for nothing, and invocations overlap. RunByHand is `start.sh` without the script.
Commands that follow each other without a wait are one step, and a pid is never another
process's.

The port, the serial line, the MQTT session, the statements of the migration (one commit
each) and the camera are shared. Of the gst-launch processes `gst` has whether the one
that the pid file names runs, and whether any other does: the code can tell no more apart.
StartStream may fail after the launch, with the program running and `streaming_` false
(camera_manager.cpp:76-79). Ends is the kernel at the end of a process: descriptors
are closed, files and children stay. Crash may come at any step. OpenFails has the
mutex that Open holds and a log entry inside Open would take again. FreeServer delivers
the close event to an MqttClient that is destroyed already (gateway_core.cpp:350): the
call is undefined, so the process goes on or ends there. `asked` and `signalled` are the
gateways a signal reached; `irregular` those that were started by hand, or while the
script was invoked once more.

### ConfigFiles
The three line-by-line parsers: ConfigManager (sections by indentation),
LoadDevicesFromFile and LoadRulesFile. A line is its indentation, its key and
whether it has a value; the value is the line's number, so that a misplaced value is
always seen. One step reads one line. Open pops the sections that the line's indentation
closes from the innermost outwards, and Put is the assignment `values_[path] = value`.
The keys `id` and `type` stand for the `- id` and `- type` that the code looks for. Comments
after a value are removed in environments only (RemoveComment); in the other two kinds
of file they are part of a value, and a line is what the search for its key finds. A
path is a list of keys, which the code joins with dots. The properties compare the parser's fields, at every moment, with a declarative reading of
the whole text so far, which speaks of the lines by their numbers: the last id line
before this one, the first type line after that one.

### ActuatorControl
`control` is `ControlState`, `rows` the calls of RecordCommand, each with whether its
insert succeeded, `queue` what is under way on each channel, `board` the actuators.
SetMqtt, SetZigbee and Bulk are the HTTP handlers in full, RuleCommand the rule callback;
Open, Close and Execute are the channels and the board, LoseTopic is DeviceRegistry's
replacement of an entity, Restart a new process with an empty ControlState beside old
rows and a board that did not notice.

A number in a request is its whole part and what its fraction does: ControlState
truncates it (`Updated`), the command prints it with six digits (`Printed`), which may
make it the next whole number, the buzzer's "on" is a bool on one channel and a number
on the other (`NormalizeMqtt`, `Normalize`), and the board reads whole numbers
(`Obeyed`). `torn` is the part of a line that a failed write left on the serial line: the
next command is glued to it and reported as sent, and the board may make nothing of it.
A rule's command has the key "on" for the motor and "value" for the others, which
the board does not read: it takes the defaults. A row is lost when the database is closed
or the insert fails, and nobody is told. Brightness, or speed and direction, is one
setting per actuator.

`known` is a history: the actuators of which the dashboard can be right, because the last
thing that happened to them was a complete command, on an intact line, with numbers that
all three read alike, and with nothing under way on another channel. Targets is the loop
of the bulk request that collects each actuator once, as a recursive function over the
actuators' topics.

### ZigbeeSerial
Receiving: bytes arrive in `tty`, Poll reads up to its limit and HandleBytes is its
loop of HandleIncomingByte over them; `received` and `delivered` are histories. Sending:
SendLine writes any prefix of the line and reports success only for the whole.
PollError closes the port for good, as the code does: nothing opens it again, so
the model may stop and deadlock is not checked.

### CameraRecording
The manager's members and pid files, the processes, the media directory and the
`media_files` rows. The five HTTP handlers with their branches; processes that
write and end; failed starts, in which the shell has launched the program and then
could not write the pid file; inserts that fail. Restart is a clean end and a new process:
the destructor stops the stream, not the recording (camera_manager.cpp:18-22). Crash
stops neither. The `killall ffmpeg` of the init script is one of the ways a process ends
at any time. Names are made of the local time, which goes on or is set back at any moment,
and of a number that starts again with the gateway. `stray` has the processes that a failed
start or an earlier gateway left, `seconds` those seconds that this gateway, earlier ones,
and two gateways have lived through. Deadlock is not checked because the bounds on clock,
starts and rows exhaust the model.

### RuleLoop
The rule engine in its loop: a sensor reports a temperature over either channel,
Ingest evaluates all rules and publishes, the board switches the motor, the
temperature follows. SetEnabled and Reload are the HTTP handlers, a reload in which
any file may be unreadable included. Open and Close of the link lose what is under
way. The rules of the instance are the shipped ones (`config/rules/`) on a
temperature scale of four values. Commanding keeps the actions that command
something. DisabledIsQuiet counts the commands of each value under way. The
specification is called LoopSpec because one proof module extends this one together
with GatewayLifecycle.

### Storage
The tables as sets of rows with number, time and, for media, content, shared by the
gateways that have the file open. Record covers the four plain inserts. A log entry takes
three steps of its gateway: RecordLog reads the clock, InsertLog and DeleteLogs are two
statements that commit separately (database_service.cpp:386-391), each of which may fail
without anybody noticing; between any two of them another gateway's may come, or a Crash.
GetRecent and GetMediaContent are the HTTP queries, given the URI that `Handle` passes on.
Tick and SetBack are the clock. `dropped`, `fresh` and `in_order` are histories: the log
rows deleted, those stored since a deletion last succeeded, and whether every log row so
far was stored with a time not before the others'.

## 3. Runs

| Run | Properties | Bounds, and what happens within them |
|---|---|---|
| mqtt_link | TypeOK, ConnectionOwned, SubscriptionsCarried, CommandsInOrder, WaitBounded, NoEarlyRetry, ImplementsLink, LinkRecovers, TopicsServed | two addresses, so that a new connection can or cannot reuse the old one's; back-off of 3 units, setbacks of 2 in all, forward steps of up to 5, which end any wait at once, any number of times; two subscriptions, three commands. No symmetry, which is unsound with liveness |
| gateway | GatewayTypeOK, IndexAgrees, DevicesAreIndexed, CommandableIffAlone, AttributionIsStable, StatusIsTheLastRow, RowsStayAttributed, FeedIsCurrent, RulesFallSilent | a sensor, an actuator with its own and a foreign telemetry topic, a device of another environment, a topic without an id and one that is no telemetry; one value that triggers the rule and one that does not; one client with two frames under way (clients do not touch each other) |
| actuators | TypeOK, DashboardIsRight, HistoryIsComplete | both channels; full, partial and bulk requests, numbers that are not 0 or 1, not whole, or printed as the next one; rules; restarts; torn lines; two calls of RecordCommand, by two clients or one bulk request, each of which may lose its row |
| zigbee_lines | FramingIsExact, FailedNeverExecuted | lines of up to 2 characters, polls of 3 bytes, 6 bytes in, 2 commands out: a line over the limit, one cut by a poll, carriage returns, partial writes of every length |
| zigbee_glued | SentIsOneLine (violated) | see section 6 |
| camera_processes | ProcessesOwned, RowsInOrder, MediaIsKept | three processes, two names per gateway, two seconds, two rows; any number of restarts, crashes and setbacks, at any moment. Two names and two seconds are what a repeated name takes, and it is there that the properties make their exception |
| camera_stored | RecordingsAreStored (violated) | see section 6 |
| rules | DisabledIsQuiet, Regulates | three rules in two files, both channels, one reading under way per channel, two commands |
| storage_retention | DroppedAreOldest, LogsAreRecent, OnlyLogsAreDropped | two gateways; two log rows kept of five, beside three commands (more than retention keeps); two clock values, any number of setbacks; any insert or deletion may fail, any gateway crash between two statements |
| storage_media | MediaIsReadable (violated) | see section 6 |
| lifecycle | OneOpensTheDevices, SchemaIsWhole, StreamsAreControlled, RefusedByThePredecessor, StartEnds, StopIsHonoured | two gateways, in every overlap of their starts, by the script or by hand, their runs and their ends: a third would meet the second as the second met the first. A new or an older database; one table and one added column, which are enough for a migration that is cut off or overtaken between any two of its steps; the other tables and columns are the same statements again |
| config_files | ConfigIsExact, DevicesAreExact, RulesAreExact | every text of up to 5 lines with three indentations, 6 lines of a device file, 7 of a rule file: two rules, or one with two actions, with keys before, between and after them |

Every property of a passing run has a mutant in `PROJECT.json`: the code with one
slip, which makes TLC find that property violated under the same configuration.
`GatewayLifecycle`, `ConfigFiles`, `CameraRecording` and `ZigbeeSerial` may stop (gateways,
lines, clock and bytes are bounded, and a closed serial port stays closed), so their runs
do not check deadlock.

What the properties say:

* **ConnectionOwned**: the client's pointer is exactly the connection mongoose
  has. Late events of an older connection would be taken for the new one's, and
  `open_` left up without a connection would stop `Poll` from ever dialling.
* **SubscriptionsCarried**: on an open link each topic ever asked for, while
  offline too, is in the broker's session or on its way.
* **CommandsInOrder**: an old "on" never arrives after a newer "off".
* **ImplementsLink**: the refinement of CommandLink; no command is taken before the
  link is open, and none of an old connection turns up on a new one.
* **WaitBounded / NoEarlyRetry**: a wait never exceeds 3 s plus what the clock was
  set back by, and is never shorter than 3 s less what it was stepped forward by
  meanwhile: 3 s of real time if nobody touched the clock or it was only set back.
* **IndexAgrees, DevicesAreIndexed, AttributionIsStable, CommandableIffAlone**: the
  index survives entities being overwritten; an actuator has a command topic
  exactly as long as no telemetry but its own named it.
* **StatusIsTheLastRow, RowsStayAttributed, FeedIsCurrent**: the three places where a
  reading ends up, `/api/status`, `sensor_samples` and the live feed, agree on every device,
  whatever topics the four origins bring in whatever order.
* **RulesFallSilent**: the composition of two components' behaviour: a telemetry
  message that costs an actuator its command topic also ends its rules.
* **DashboardIsRight, HistoryIsComplete**: of a known actuator, ControlState is what the
  last accepted command says and what the board does or will do, so one complete command
  mends whatever was torn, lost or rounded before it; the clients' commands under way are
  the last accepted rows in the same order, but for those whose row was not written.
* **FramingIsExact**: compared with a reference that looks only at the positions of the
  newlines and characters in the whole byte stream: what a line consists of, and where
  lines end, the limit included. It holds for every way of cutting the stream into polls.
* **FailedNeverExecuted**: a command answered with 503 is not executed later.
* **ProcessesOwned**: a gst-launch or a recorder that is not where the flags and pid files
  say was left by a failed start or by an earlier gateway.
* **RowsInOrder, MediaIsKept**: a recording's rows are in order and no finished file is
  written over, across restarts, crashes and setbacks, but for names of a second that
  two gateways have lived through: the code has no guard there, only luck.
* **DisabledIsQuiet, Regulates**: no reading makes disabled rules publish; enabled
  ones never leave the temperature hot nor the motor running for good.
* **DroppedAreOldest, LogsAreRecent, OnlyLogsAreDropped**: of the rows that a deletion has
  left none is earlier than one ever deleted, whatever the clock does and whichever
  statements fail; the table is over its limit only by rows stored since a deletion last
  succeeded; none of the last rows is missing as long as rows are stored in the order of
  their times.
* **OneOpensTheDevices, RefusedByThePredecessor**: the port is the lock that nobody
  called one: it is bound before the serial line is opened and the broker dialled, so two
  gateways never read the same lines; and it turns away a gateway that the script alone
  started, and nobody told to stop, only in favour of one that was told to, or that
  was started by hand or in overlapping invocations. So it says exactly which uses of the
  script are safe.
* **SchemaIsWhole**: whatever cut a migration off, an open database has every table and column.
* **StreamsAreControlled**: the only gst-launch is the one that the pid file names and
  a live gateway would stop; this is lost by a start that fails after the launch, a
  gateway that ends before closing its camera, or a start while another gateway still
  closes its own, and by no other step.
* **StartEnds, StopIsHonoured**: no start hangs, in the database's mutex for one; a
  signal after `g_running = 1` ends the gateway from any step.
* **ConfigIsExact, DevicesAreExact, RulesAreExact**: no value under another section, no
  field of one device, rule or action in another, except the carry-overs that
  section 6 lists and the properties state exactly: a `protocol` without a device goes to
  the next one, and an `actuator_id` of a rule without a type line to the next action.

### Fairness

* **MqttLink**: weak for Tick, Poll and Transmit: the loop never stops and time
  passes. Strong for a dial that succeeds and for OnOpen: attempts go on, and
  neither the resolver nor the broker fails for ever. Nothing is assumed about how
  long a connection lasts, and TopicsServed only speaks of a link that stays open.
* **RuleLoop**: weak for the link's opening (LinkRecovers) and for the physics.
  Strong for Report and Ingest while the link is up, and for Execute: the sensor
  reports every second (`docs/mcu-mqtt-protocol.md:254`), so on a link that is open
  again and again a reading, its ingestion and a command get through now and then.
  Readings and commands may still be lost any number of times.
* **GatewayLifecycle**: weak for each gateway's next step of start-up and shut-down, the
  end of StopStream's sleep among them (`Step`): a process that lives keeps executing. Strong for
  leaving the loop: `while (g_running)` is evaluated after each round, so a gateway
  whose flag is cleared and that is again and again between two handlers leaves. Nothing
  is assumed of the init script, of signals or of the camera.
* The other modules state safety only.

## 4. Proofs

Proved by TLAPS for every value of the constants, from the named assumptions in
the modules and nothing else:

* `MqttLink_proofs`: TypeCorrect, ClientOwnsItsConnection, SubscriptionsSurvive,
  BackoffIsBounded, BackoffIsHonoured. ConnectionOwned is inductive by itself given
  the types, since a dial needs `conn_` empty and a close clears it. SubscriptionsCarried
  needs BuffersFresh: an address that mongoose has not handed out has neither packets
  nor a session, so nothing of an old connection is taken for the new one's.
  NoEarlyRetry needs WaitingOut: while the link is down, the deadline is at least what
  is left of the three seconds after the real time that has passed and the forward steps
  since; a setback only makes it later, and this is where `due` being a difference pays.
  OrderIsKept and LinkIsImplemented need two more facts: every number in a buffer or at
  the broker has been given out (Numbered), so that the next one is later than all, and
  a connection that is not open has sent nothing (Quiet), so that opening it adds
  subscriptions to an empty buffer. With these, each step of MqttLink is a step of
  CommandLink or a stutter: a close while the link is not open, for instance, loses
  nothing because of Quiet, and the packet that leaves first is the smallest number
  pending because of the order.
* `Gateway_proofs`, about DeviceRegistry: TypeCorrect, IndexNeverDangles,
  DevicesStayIndexed, AttributionNeverChanges, CommandTopicsKept. The first three are
  inductive together:
  an index entry is always its topic's last segment, so overwriting the entity of
  that id neither orphans nor redirects it. CommandTopicsKept adds that the actuators'
  own topics stay in the index, so that a topic which is not there is a foreign one.
  About Gateway: RegistryIsImplemented first: every step of the gateway is one of
  DeviceRegistry or a stutter, so the theorems above hold of GatewaySpec without being
  proved again. With them, for any topics, values, rules and clients: GatewayTypeCorrect;
  RowsAreAttributed (an index entry is never removed or redirected, TopicsKept);
  StatusIsStored (row and status are written by the same step under the same id, and a
  payload without a number shows none); RulesAreSilenced (from CommandableIffAlone
  after the step); FeedStaysCurrent, whose strengthening FeedInv says that nobody but
  the WebSocket clients has frames under way, and whose steps are the appending of a
  message's frames (NewPayloadStep, NoDeviceStep) and the leaving of the first (SentStep).
  A frame without a device does no harm because no device has the empty id.
* `GatewayCore_proofs`, about GatewayLifecycle for any number of gateways: DevicesHaveOneOwner (PortInv: who
  is between bind and free has the port, and the serial line only before
  the server is freed); OnlyPredecessorsRefuse (PidInv: the pid file names every regular
  gateway, one that is alive, not told to stop and not irregular, so there is at most one;
  there is none while a start waits, since that start found no live pid and any start or
  stop that comes in between makes it irregular; so the port's owner, being another, is
  one of the exceptions); OpenIsMigrated (SchemaInv: the statements a gateway
  has passed are in the file, whoever wrote them); StreamsKeepTheirOwner (StreamInv: a
  gateway has `streaming_` only from its loop to the end of the camera's destructor, so
  every step that could lose the stream is one of the exceptions).
  About RuleLoop, for any rule files and any rules: DisabledStaysQuiet. Only Ingest adds
  commands; what it adds are actions of enabled rules that hold (FiredAreQuiet,
  CommandingIsQuiet, from the lemma that lists over a set are flattened into a list
  over it), so none has a value that only disabled rules command. Every
  other step keeps the queue, drops its first command or empties it (TailHasNoMore,
  OthersAddNone), and the number of commands of that value cannot grow.

* `ActuatorControl_proofs`: NothingMissingGetsThrough, DashboardStaysRight and
  HistoryStaysComplete, inductive together. The single requests of both channels and the
  bulk request are one kind of step (Requested): rows and commands are appended, one of
  each per target, and ControlState is merged where they were accepted. That a
  bulk request reaches each commandable actuator exactly once is TargetsHas.
  DashboardIsRight survives a step either because nothing of the actuator changed
  (RightStays) or because its last command is now a complete one on its only channel
  (RightBecomes), whose numbers come out the same truncated, printed and read
  (ProperIsObeyed). The history is an order-keeping map from the commands under way to
  accepted rows, of the commands whose row was written; a request extends the map, an
  execution shifts it.
* `ZigbeeSerial_proofs`: FramingStaysExact and FailedIsNeverExecuted. ReceivedInv says that
  the lines so far are those of the bytes read so far, and that the buffer is what is
  left of the current one as long as the port is open; it is carried over one byte
  (ByteHandled) and, by induction over a poll's bytes, over a whole poll (BytesHandled).
  SentInv says that before each newline on the wire there stands a command reported as
  sent, which a partial write cannot break because it never includes the newline.
* `CameraRecording_proofs`: ProcessesStayOwned, RowsStayInOrder and FinishedMediaIsKept.
  CameraInv adds what the names rest on: what this gateway's seconds have in common with
  earlier ones' is in `seconds.twice` (TimeKnown); every name in use is of an earlier
  gateway's second, or of one of this gateway's with a number already given (Used), so
  that the next one is new or of a second lived through twice; a recorder that has not
  begun finds no file of its name (Unbegun); and the file being recorded has no final row
  (NotFinal).
* `Storage_proofs`: OldestAreDropped, RecentLogsAreKept and OtherTablesOnlyGrow. The
  order Later is total on rows, so Latest has KeptLogs rows or all there are
  (LatestAtMost, LatestAtLeast), none earlier than one it leaves out (LatestAreLater). A
  deletion leaves at most KeptLogs rows, and exactly as many once one was deleted
  (Full): so what the next one leaves, however many rows were stored in between by however
  many gateways, is not earlier than what it found, and later than all that was dropped
  before. While rows were stored in the order of their times, numbers and times are
  in the same order and a dropped row has KeptLogs rows above it (Ordered).
* `ConfigFiles_proofs`: ConfigStaysExact, DevicesStayExact and RulesStayExact, for texts of
  any length over any lines. Each parser's fields are what the text says of the part
  that is still open, and what is finished is out of reach of later lines; each reference
  definition is therefore followed over one more line (Grows) by how the first and
  the last of a set of lines change. DeviceInv: the open device is the last id line's, and the
  waiting protocol is the last one that has not been used. ConfigInv: the stack is
  the sections of the last line, innermost last (StackNext); every section has a
  path, which a later line does not change (PathsExist, PathsStay); the map has for each
  path the last line that gives it a value. RuleInv: the open rule has the fields of its block, its
  condition's value from above the first type line, its finished actions (with an actuator
  that an earlier rule without a type line left), and the open
  action or the actuator waiting for one (CurrentRight); a rule with a rule after it,
  or an action with an action after it, keeps what it has (RuleStays, ActionStays),
  so the list stays right (FinishedRight).

The installed provers cannot instantiate the library's induction rules, whose parameter
is an operator. Where a loop over data has to be followed, the proofs use induction as a
fact about sets of numbers instead (NumbersByInduction, from the well-foundedness of `<`
on the naturals): a recursive function is shown to exist length by
length, and what it computes is then an induction over its argument. So it is for
Targets, HandleBytes' fold, FlattenSeq and the sections' paths.

Model-checked only: LinkRecovers, TopicsServed, Regulates, StartEnds and StopIsHonoured:
liveness under fairness needs ENABLED, which is out of the prover's reach. Every invariant
and every action property of the passing runs is stated by a theorem; the runs that expect a
violation are counterexamples and stay with TLC.

## 5. Not modelled

* The routing of HTTP requests and the bodies of replies. The six handlers run in turn;
  a handler's own 404 falls through to the ones after it, and its body is replaced
  by the last one's (rest_api.hpp:82). No state changes, so no property would say more
  than the line itself.
* The text of JSON and YAML: quoting, comments, the search for a key anywhere in a body.
  The modules begin where a key has been found or not. The SQL text is modelled by what
  the statement does.
* The answer to a reload, which is success even when a rule file could not be read and its
  rules are gone (gateway_core.cpp:244). The reload itself, with any file unreadable, is
  RuleLoop's.
* Growth of `sensor_samples`, which has no retention (database_service.cpp:286): its bound
  is the disk's. A recording without data is recorded as a row all the same (camera_api.cpp:86).
* Signals other than SIGTERM, and a second SIGTERM, which is the first again.
* The reuse of a pid while a pid file still names it, which would make `kill -0` see a
  gateway that is not there or a kill hit a stranger (S90iotgw:25, 45).
* A loss of power that takes SQLite's last commits with it (WAL with synchronous NORMAL,
  database_service.cpp:152-153): a crash of the model loses the process, and the file keeps what was committed.
* Durations inside a handler. `SendLine` retries for up to 50 ms, a stop of the
  stream or a snapshot for seconds, and the loop stands still meanwhile. The effect on
  the link is a drop by the broker, which MqttLink has at any time.
* The console and file sinks of the logger; `config_validator.cpp` and `adapter_base.hpp`, which nothing uses.
* `www/index.html`, except as the source of requests.
* ActuatorControl on top of CommandLink. The abstract link numbers its commands without
  bound and knows nothing of their contents, so an instance of it would have to carry
  a second, parallel queue; ActuatorControl's MQTT channel takes, delivers in order and
  loses at a close exactly as CommandLink does, and is kept by itself.
* mongoose, SQLite, gst-launch and ffmpeg, except as the environment.

## 6. Where code and documents disagree

Shown by a run:

* **zigbee_glued**: after a partial write `SendLine` leaves half a line on the wire;
  the next command, reported as sent, is glued to it and lost
  (zigbee_serial_adapter.cpp:139-150).
* **camera_stored**: stop_record stores the file at once, while ffmpeg is still
  writing it; the row keeps part of a recording (camera_manager.cpp:160,
  camera_api.cpp:89).
* **storage_media**: mongoose hands on the path without its query, so
  `media_content?id=` is always answered with 400 and `limit=` is ignored
  (websocket_server.hpp:84).

Met while modelling, visible in the modules' actions, not yet runs:

* `ok` = 1 in `actuator_commands` is documented as published
  (docs/sqlite-database-usage.md:96) and only means buffered (mqtt_client.cpp:86).
* One telemetry message on another topic ending in an actuator's id costs it its
  command topic (device_registry.cpp:19, 91). CommandableIffAlone states it exactly.
* A rule's command changes neither `ControlState` nor the history
  (gateway_core.cpp:388); the tutorial says `ControlState` is the current state. For other
  actuators than the motor it carries `value` (gateway_core.cpp:382-387), a key that
  nothing else in the gateway sends or reads for them.
* `ControlState` truncates a number, the command prints it with six digits, and the
  buzzer's `on` is a bool over MQTT and a number over ZigBee (device_api.cpp:72-106), so an
  odd request shows something else than it sends. Ranges are not checked.
* A command's row may be missing, and the client is told `ok` all the same
  (database_service.cpp:359-375). HistoryIsComplete states the exception.
* POST /api/control sends a missing key as its default and keeps it in
  `ControlState` (device_api.cpp:158-179), and updates `ControlState` even when
  nothing could be published.
* The tail of an overlong line is handled as a line, although the message says
  dropped (zigbee_serial_adapter.cpp:247). FramingIsExact states which tail.
* After the clock was set back, a full `runtime_logs` deletes each new row at once
  (database_service.cpp:390), hence the premise of LogsAreRecent. While deletions fail or
  are cut off the table grows over its limit, until one succeeds.
* A recorder outlives a clean end of its gateway (camera_manager.cpp:18-22): a Ctrl-C, or
  the documented `killall iotgw_gateway; ./start.sh` (docs/sqlite-database-usage.md:275-279),
  leaves an ffmpeg that nothing will stop but the init script's `killall ffmpeg`
  (S90iotgw:50).
* Media names recur when a gateway starts in the second in which the last one ended, or in
  one that the clock was set back to, and ffmpeg's `-y` then overwrites finished media
  (camera_manager.cpp:142, 186). RowsInOrder and MediaIsKept state the exception.
* `start_stream` reports a failure when the pid file could not be written, and gst-launch
  runs on with the camera (camera_manager.cpp:76-79).
* A bare number as a payload is stored and evaluated by ingest (gateway_core.cpp:252)
  and shown as "--" by `/api/status`, which looks for an object (device_registry.cpp:156-178).
  StatusIsTheLastRow is about the numbers that are shown.
* The acknowledgement of a WebSocket message, and the error for one without a topic, go
  to all clients and not to its sender (gateway_core.cpp:499, 503).
* SIGTERM between `std::signal` and `g_running = 1` is forgotten (gateway_core.cpp:291-293);
  StopIsHonoured begins after it.
* At shut-down the MQTT client is destroyed before the server that owns its connection;
  the close event is delivered to the destroyed client (gateway_core.cpp:350, 411).
  If the process ends there, the camera's stream runs on.
* A restart one second after a stop may find the port taken and exit with 3, while the
  old gateway goes on to end (S90iotgw:63). Two starts that wait for the broker at the same
  time both pass the pid check (S90iotgw:25-39), and the second to bind exits while the pid
  file may name it; a `start.sh` by hand leaves no pid at all. RefusedByThePredecessor
  states that nothing else turns a gateway away.
* A `protocol` above the first device, or under an empty id, is taken for the next
  device; keys above the first rule are the first rule's; keys between two actions are
  the later one's; the `actuator_id` of a rule without a type line is the next rule's
  action's, because flush_action returns before it resets the action
  (gateway_core.cpp:134-233, 184-189). A list item closes sections as a key does.
  DevicesAreExact and RulesAreExact state it.

## 7. Plan

Done, in this order: MqttLink with its proofs and CommandLink, DeviceRegistry with its
proofs, ActuatorControl, ZigbeeSerial, CameraRecording, RuleLoop, Storage,
GatewayLifecycle, ConfigFiles, Gateway with its proofs, GatewayLifecycle's proofs, the
proofs of CameraRecording, Storage, ActuatorControl, ZigbeeSerial and ConfigFiles, and
RuleLoop's DisabledIsQuiet.
To come:

1. The safety that the liveness properties rest on, as invariants of MqttLink, RuleLoop and
   GatewayLifecycle: from which states a stopped gateway can still end, what a link that
   is down still has scheduled.
2. An abstract specification of Storage's retention (a window over the recorded rows) and
   of RuleLoop's switching, with the step-by-step refinement as a theorem.
