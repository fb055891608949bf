---------------------------- MODULE DeviceRegistry ----------------------------
(***************************************************************************)
(* The gateway's table of devices (device_registry.cpp): the entities by   *)
(* id, the index from telemetry topics to ids, and what telemetry does to  *)
(* both.  The command-topic index is never read and is left out.           *)
(*                                                                         *)
(* A topic is the sequence of its '/'-separated segments, so the code's    *)
(* searches for '/' become positions in the sequence; an empty segment     *)
(* stands for a trailing '/'.                                              *)
(***************************************************************************)
EXTENDS Integers, Sequences

CONSTANTS
  Segment,       \* the segments of topics, strings without '/'
  SensorIds,     \* ids of config/devices/sensors.yaml
  ActuatorIds,   \* ids of config/devices/actuators.yaml
  Prefix,        \* mqtt.topic_prefix, e.g. <<"iotgw", "dev">>
  Topics         \* topics on which messages may arrive, from any source

ConfigIds == SensorIds \cup ActuatorIds

ASSUME SegmentAssumption == {"telemetry", "command", ""} \subseteq Segment
ASSUME IdAssumption == ConfigIds \subseteq Segment \ {""}
ASSUME TopicAssumption == /\ Prefix \in Seq(Segment)
                          /\ Topics \subseteq Seq(Segment) \ {<<>>}

VARIABLES
  by_id_,                  \* id -> entity
  telemetry_topic_to_id_   \* telemetry topic -> id

vars == <<by_id_, telemetry_topic_to_id_>>

NoTopic == <<>>

\* ExtractIdFromTopic: what follows the last '/', the whole topic without one.
ExtractId(t) == t[Len(t)]

\* IsTelemetryTopic: the topic contains "/telemetry/".
IsTelemetryTopic(t) == \E i \in 2..(Len(t) - 1) : t[i] = "telemetry"

TelemetryOf(id) == Prefix \o <<"telemetry", id>>
CommandOf(id)   == Prefix \o <<"command", id>>

Entity(kind, telemetry, command, online, last_topic) ==
  [kind |-> kind, telemetry_topic |-> telemetry, command_topic |-> command,
   online |-> online, last_topic |-> last_topic]

\* LoadDevicesFromFile: sensors first, then actuators, so that an id of both
\* files is an actuator.
Configured(id) ==
  IF id \in ActuatorIds
    THEN Entity("actuator", TelemetryOf(id), CommandOf(id), FALSE, NoTopic)
    ELSE Entity("sensor", TelemetryOf(id), NoTopic, FALSE, NoTopic)

Init ==
  /\ by_id_ = [id \in ConfigIds |-> Configured(id)]
  /\ telemetry_topic_to_id_ =
       [t \in {TelemetryOf(id) : id \in ConfigIds} |-> ExtractId(t)]
-----------------------------------------------------------------------------
Put(f, x, y) == [z \in DOMAIN f \cup {x} |-> IF z = x THEN y ELSE f[z]]

\* UpdateFromTelemetryTopic succeeds.
Known(t) == /\ t \in DOMAIN telemetry_topic_to_id_
            /\ telemetry_topic_to_id_[t] \in DOMAIN by_id_

Update(t) ==
  /\ by_id_' = [by_id_ EXCEPT ![telemetry_topic_to_id_[t]] =
                  [@ EXCEPT !.online = TRUE, !.last_topic = t]]
  /\ UNCHANGED telemetry_topic_to_id_

\* Register of the entity that UpsertMqttDeviceFromTopic builds for an unknown
\* topic: it replaces an entity of the same id, and with it the command topic;
\* ReindexLocked adds the new topic and removes nothing.
Discovered(t) ==
  Entity(IF \E i \in DOMAIN t : t[i] = "telemetry" THEN "sensor" ELSE "unknown",
         t, NoTopic, TRUE, t)

\* (A name with a suffix, as in Discover_NoReindex, is the code with a slip,
\* kept to see that a property notices it; it is not part of Spec.)
Discover_IndexOnly(t) ==
  /\ ExtractId(t) # ""
  /\ telemetry_topic_to_id_' = Put(telemetry_topic_to_id_, t, ExtractId(t))
  /\ UNCHANGED by_id_

Discover_NoReindex(t) ==
  /\ ExtractId(t) # ""
  /\ by_id_' = Put(by_id_, ExtractId(t), Discovered(t))
  /\ UNCHANGED telemetry_topic_to_id_

Discover_DropsOldTopic(t) ==
  /\ ExtractId(t) # ""
  /\ by_id_' = Put(by_id_, ExtractId(t), Discovered(t))
  /\ telemetry_topic_to_id_' =
       Put([u \in {u \in DOMAIN telemetry_topic_to_id_ :
                     telemetry_topic_to_id_[u] # ExtractId(t)}
              |-> telemetry_topic_to_id_[u]], t, ExtractId(t))

Discover(t) ==
  /\ ExtractId(t) # ""
  /\ by_id_' = Put(by_id_, ExtractId(t), Discovered(t))
  /\ telemetry_topic_to_id_' = Put(telemetry_topic_to_id_, t, ExtractId(t))

\* UpsertMqttDeviceFromTopic on a message that ingest lets through.
Upsert_AlwaysRegisters(t) == IsTelemetryTopic(t) /\ Discover(t)

Upsert(t) ==
  /\ IsTelemetryTopic(t)
  /\ \/ Known(t) /\ Update(t)
     \/ ~Known(t) /\ Discover(t)

Next == \E t \in Topics : Upsert(t)

Spec == Init /\ [][Next]_vars

\* GetCommandTopic finds one.
Commandable(id) == id \in DOMAIN by_id_ /\ by_id_[id].command_topic # NoTopic
-----------------------------------------------------------------------------
\* Ids are non-empty strings, entities well-formed.
EntityType ==
  [kind : {"sensor", "actuator", "unknown"},
   telemetry_topic : Seq(Segment) \ {<<>>}, command_topic : Seq(Segment),
   online : BOOLEAN, last_topic : Seq(Segment)]

TypeOK ==
  /\ \A id \in DOMAIN by_id_ : id \in Segment \ {""} /\ by_id_[id] \in EntityType
  /\ \A t \in DOMAIN telemetry_topic_to_id_ : t \in Seq(Segment) \ {<<>>}

\* The index never dangles and agrees with the topics: a message on an indexed
\* topic is stored under the device that the topic names, also after entities
\* were replaced and topics left in the index.
IndexAgrees ==
  \A t \in DOMAIN telemetry_topic_to_id_ :
    /\ telemetry_topic_to_id_[t] = ExtractId(t)
    /\ telemetry_topic_to_id_[t] \in DOMAIN by_id_

\* The topic under which a device is listed leads back to that device, and the
\* last topic it was heard on names it.
DevicesAreIndexed ==
  \A id \in DOMAIN by_id_ :
    /\ by_id_[id].telemetry_topic \in DOMAIN telemetry_topic_to_id_
    /\ telemetry_topic_to_id_[by_id_[id].telemetry_topic] = id
    /\ by_id_[id].online => by_id_[id].last_topic \in DOMAIN telemetry_topic_to_id_
                             /\ telemetry_topic_to_id_[by_id_[id].last_topic] = id

\* A topic once attributed to a device is never attributed to another, and no
\* device disappears.
AttributionIsStable ==
  [][ /\ DOMAIN by_id_ \subseteq DOMAIN by_id_'
      /\ \A t \in DOMAIN telemetry_topic_to_id_ :
           /\ t \in DOMAIN telemetry_topic_to_id_'
           /\ telemetry_topic_to_id_'[t] = telemetry_topic_to_id_[t] ]_vars

\* A configured actuator has a command topic exactly as long as no telemetry
\* topic but its own named it: its own telemetry never costs it the topic, and
\* the first message on another one does, for good (mcu-mqtt-protocol.md has all
\* of them listed with theirs).
CommandableIffAlone ==
  \A id \in ActuatorIds :
    Commandable(id) <=> \A t \in DOMAIN telemetry_topic_to_id_ :
                          ExtractId(t) = id => t = TelemetryOf(id)
=============================================================================
