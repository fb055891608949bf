------------------------------- MODULE Gateway -------------------------------
(***************************************************************************)
(* The gateway's data path (gateway_core.cpp): messages of four origins    *)
(* meet in one handler, ingest, which updates the device registry, stores  *)
(* a sample, evaluates the rules and broadcasts a frame to the WebSocket   *)
(* clients (websocket_server.hpp).  /api/status is made from the registry. *)
(*                                                                         *)
(* The registry is DeviceRegistry's.  The rules are those that are         *)
(* enabled; RuleLoop has them switched.                                    *)
(***************************************************************************)
EXTENDS DeviceRegistry

CONSTANTS
  Hot,          \* the value above which a rule holds
  Rules,        \* the enabled rules that command: records of sensor and actuator
  Values,       \* the values sensors report
  Client,       \* HTTP connections
  MaxFrames     \* bound: frames under way to a client

\* A payload as the two number parsers see it: an object with a numeric "value",
\* a bare number, or neither.
Payload == [form : {"object", "number"}, value : Values] \cup [form : {"text"}, value : {0}]
None == [form |-> "none", value |-> 0]

ASSUME ValueAssumption == Values \subseteq Int /\ Hot \in Int
ASSUME RuleAssumption == Rules \subseteq [sensor : Segment, actuator : Segment]
ASSUME BoundAssumption == MaxFrames \in Nat

VARIABLES
  last_payload,  \* DeviceStatus::last_payload of each device
  db_,           \* the database is open
  sample,        \* the last row that sensor_samples was given of each device
  open_,         \* the MQTT link is open
  commands,      \* the actuators with a rule's command under way on it
  conns,         \* clients whose connection is a WebSocket
  frames         \* frames under way to each client

registry    == vars
gatewayVars == <<registry, last_payload, db_, sample, open_, commands, conns, frames>>

GatewayInit ==
  /\ Init /\ last_payload = [id \in ConfigIds |-> None]
  /\ db_ \in BOOLEAN /\ sample = <<>> /\ open_ = FALSE /\ commands = {}
  /\ conns = {} /\ frames = [c \in Client |-> <<>>]
-----------------------------------------------------------------------------
\* BroadcastText: to the connections that are WebSockets now.
Broadcast(frame) ==
  frames' = [c \in Client |-> IF c \in conns THEN frames[c] \o frame ELSE frames[c]]

\* GetJsonNumber finds a number under "value"; TryParseSensorValue takes a bare
\* number as well.
JsonNumber(payload) == payload.form = "object"
Numeric(payload) == JsonNumber(payload) \/ payload.form = "number"

\* OnSensorValue and its callback, after the registry was updated: each rule that
\* holds commands its actuator, if that has a command topic and the link is open.
Holding(id, payload) ==
  {r.actuator : r \in {r \in Rules : r.sensor = id /\ Numeric(payload) /\ payload.value > Hot}}

\* (A name with a suffix is the code with a slip, kept to test the properties.)
RuleCommands_Configured(id, payload) ==
  IF open_ THEN Holding(id, payload) \cap ActuatorIds ELSE {}

RuleCommands(id, payload) ==
  IF open_ THEN {a \in Holding(id, payload) : Commandable(a)'} ELSE {}

\* UpsertMqttDeviceFromTopic's device_id: "" when the topic names none.
DeviceId(t) == IF Known(t) THEN telemetry_topic_to_id_[t] ELSE ExtractId(t)

Sampled(id, topic, payload) ==
  IF db_ /\ Numeric(payload)
    THEN Put(sample, id, [topic |-> topic, value |-> payload.value]) ELSE sample

Receive_KeepsNumber(id, topic, payload) ==
  /\ Upsert(topic)
  /\ last_payload' = IF Known(topic) /\ payload.form # "object" THEN last_payload
                     ELSE Put(last_payload, id, payload)
  /\ sample' = Sampled(id, topic, payload)
  /\ commands' = commands \cup RuleCommands(id, payload)

\* ingest, for a message of an origin that broadcasts some more frames itself.
\* A topic that names no device changes nothing and is broadcast all the same.
Receive(id, topic, payload) ==
  /\ Upsert(topic) /\ last_payload' = Put(last_payload, id, payload)
  /\ sample' = Sampled(id, topic, payload)
  /\ commands' = commands \cup RuleCommands(id, payload)

Frame(id, payload) == [device |-> id, payload |-> payload]

Ingest_NumbersOnly(topic, payload, more) ==
  IF ~IsTelemetryTopic(topic)
    THEN Broadcast(more) /\ UNCHANGED <<registry, last_payload, sample, commands>>
    ELSE LET id == DeviceId(topic) IN
      /\ IF id # "" THEN Receive(id, topic, payload)
         ELSE UNCHANGED <<registry, last_payload, sample, commands>>
      /\ Broadcast((IF Numeric(payload) THEN <<Frame(id, payload)>> ELSE <<>>) \o more)

Ingest(topic, payload, more) ==
  IF ~IsTelemetryTopic(topic)
    THEN Broadcast(more) /\ UNCHANGED <<registry, last_payload, sample, commands>>
    ELSE LET id == DeviceId(topic) IN
      /\ IF id # "" THEN Receive(id, topic, payload)
         ELSE UNCHANGED <<registry, last_payload, sample, commands>>
      /\ Broadcast(<<Frame(id, payload)>> \o more)

Room(n) == \A c \in conns : Len(frames[c]) + n <= MaxFrames

\* A message from the broker: any topic the subscription to telemetry/# matches.
MqttMessage(topic, payload) ==
  /\ open_ /\ Room(1) /\ Len(topic) > Len(Prefix)
  /\ SubSeq(topic, 1, Len(Prefix) + 1) = Prefix \o <<"telemetry">>
  /\ Ingest(topic, payload, <<>>) /\ UNCHANGED <<db_, open_, conns>>

\* A line from the serial port: TryParseZigbeeTelemetry makes the topic from the
\* prefix and the line's id, which may contain '/'; other lines are ignored.
ZigbeeLine(topic, value) ==
  /\ Room(1) /\ Len(topic) > Len(Prefix) + 1 /\ topic # Prefix \o <<"telemetry", "">>
  /\ SubSeq(topic, 1, Len(Prefix) + 1) = Prefix \o <<"telemetry">>
  /\ Ingest(topic, [form |-> "object", value |-> value], <<>>)
  /\ UNCHANGED <<db_, open_, conns>>

\* POST /api/control with a topic: a simulated message on any topic.
Simulate(topic, payload) ==
  /\ Room(1) /\ Ingest(topic, payload, <<>>) /\ UNCHANGED <<db_, open_, conns>>

\* A WebSocket message: without a topic an error goes to all clients; with one it
\* is ingested and acknowledged, to all clients as well, whatever became of it.
Notice == <<[device |-> "", payload |-> None]>>

WsMessage(c, topic, payload) ==
  /\ c \in conns /\ Room(2) /\ Ingest(topic, payload, Notice)
  /\ UNCHANGED <<db_, open_, conns>>

WsBadMessage(c) ==
  /\ c \in conns /\ Room(1) /\ Broadcast(Notice)
  /\ UNCHANGED <<registry, last_payload, db_, sample, open_, commands, conns>>
-----------------------------------------------------------------------------
\* The clients: an upgrade on the ws path, a frame that leaves, a close.
Upgrade(c) ==
  /\ c \notin conns /\ conns' = conns \cup {c}
  /\ UNCHANGED <<registry, last_payload, db_, sample, open_, commands, frames>>

Sent(c) ==
  /\ frames[c] # <<>> /\ frames' = [frames EXCEPT ![c] = Tail(@)]
  /\ UNCHANGED <<registry, last_payload, db_, sample, open_, commands, conns>>

Disconnect(c) ==
  /\ c \in conns /\ conns' = conns \ {c} /\ frames' = [frames EXCEPT ![c] = <<>>]
  /\ UNCHANGED <<registry, last_payload, db_, sample, open_, commands>>

\* The MQTT link (MqttLink): it opens, delivers, and drops with what is under way.
LinkOpens ==
  /\ ~open_ /\ open_' = TRUE
  /\ UNCHANGED <<registry, last_payload, db_, sample, commands, conns, frames>>

LinkCloses ==
  /\ open_ /\ open_' = FALSE /\ commands' = {}
  /\ UNCHANGED <<registry, last_payload, db_, sample, conns, frames>>

CommandArrives ==
  /\ \E a \in commands : commands' = commands \ {a}
  /\ UNCHANGED <<registry, last_payload, db_, sample, open_, conns, frames>>

Message ==
  \E t \in Topics, p \in Payload :
    MqttMessage(t, p) \/ Simulate(t, p) \/ \E c \in Client : WsMessage(c, t, p)

GatewayNext ==
  \/ Message
  \/ \E t \in Topics, v \in Values : ZigbeeLine(t, v)
  \/ \E c \in Client : WsBadMessage(c) \/ Upgrade(c) \/ Sent(c) \/ Disconnect(c)
  \/ LinkOpens \/ LinkCloses \/ CommandArrives

GatewaySpec == GatewayInit /\ [][GatewayNext]_gatewayVars
-----------------------------------------------------------------------------
\* The registry's types; every device has a last payload; rows and frames are of
\* devices and readings.
GatewayTypeOK ==
  /\ TypeOK
  /\ DOMAIN last_payload = DOMAIN by_id_ /\ DOMAIN sample \subseteq DOMAIN by_id_
  /\ \A id \in DOMAIN last_payload : last_payload[id] \in Payload \cup {None}
  /\ \A id \in DOMAIN sample : sample[id] \in [topic : Seq(Segment), value : Values]
  /\ db_ \in BOOLEAN /\ open_ \in BOOLEAN /\ commands \subseteq Segment
  /\ conns \subseteq Client
  /\ frames \in [Client -> Seq([device : Segment, payload : Payload \cup {None}])]

\* DashboardStatusJson shows the number in the last payload, if that is an object.
Shown == {id \in DOMAIN last_payload : JsonNumber(last_payload[id])}

\* What /api/status shows of a device is the last row stored of it, whichever
\* origins its messages came from and whatever came before the number.
StatusIsTheLastRow ==
  db_ => \A id \in Shown :
           id \in DOMAIN sample /\ sample[id].value = last_payload[id].value

\* A row stays with the device that its topic names in the registry: no later
\* message redirects the history of one device to another.
RowsStayAttributed ==
  \A id \in DOMAIN sample :
    /\ sample[id].topic \in DOMAIN telemetry_topic_to_id_
    /\ telemetry_topic_to_id_[sample[id].topic] = id

\* The live feed and /api/status agree: the newest frame under way for a device
\* carries the payload the status is made from.
FeedIsCurrent ==
  \A c \in Client : \A i \in DOMAIN frames[c] :
    LET id == frames[c][i].device IN
    id \in DOMAIN last_payload =>
      \/ frames[c][i].payload = last_payload[id]
      \/ \E j \in i+1..Len(frames[c]) : frames[c][j].device = id

\* Once telemetry on another topic has named an actuator, no rule commands it
\* any more, from whatever origin the readings come.
RulesFallSilent ==
  [][ \A a \in ActuatorIds :
        (\E t \in DOMAIN telemetry_topic_to_id_ : ExtractId(t) = a /\ t # TelemetryOf(a))
          => (a \in commands' => a \in commands) ]_gatewayVars
=============================================================================
