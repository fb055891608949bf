--------------------------- MODULE Gateway_proofs ---------------------------
(***************************************************************************)
(* Proofs about DeviceRegistry and about Gateway, which is built on it,    *)
(* for any devices, topics, rules, values and clients.                     *)
(*                                                                         *)
(* The registry first, for every behaviour of DeviceRegistry's Spec.       *)
(* TypeOK, IndexAgrees and DevicesAreIndexed are inductive together: the   *)
(* index only ever maps a topic to its last segment, so replacing an       *)
(* entity can neither redirect nor orphan a topic.  On top of them CInv    *)
(* follows the command topics of the actuators.                            *)
(*                                                                         *)
(* Then the gateway: every step of it is a step of DeviceRegistry or       *)
(* leaves the registry alone, so the registry's invariants carry over;     *)
(* with them the rows, the status and the feed are shown to stay with the  *)
(* devices that their messages named.                                      *)
(***************************************************************************)
EXTENDS Gateway, SequenceTheorems, TLAPS

LEMMA TelemetryOfProperties ==
  ASSUME NEW id \in Segment
  PROVE  /\ TelemetryOf(id) \in Seq(Segment) \ {<<>>}
         /\ ExtractId(TelemetryOf(id)) = id
         /\ CommandOf(id) \in Seq(Segment)
<1>1. /\ <<"telemetry", id>> \in Seq(Segment) /\ <<"command", id>> \in Seq(Segment)
      /\ Len(<<"telemetry", id>>) = 2 /\ Len(<<"command", id>>) = 2
      /\ <<"telemetry", id>>[2] = id
  <2>1. "telemetry" \in Segment /\ "command" \in Segment
    BY SegmentAssumption
  <2>2. ASSUME NEW s \in Segment
        PROVE  <<s, id>> \in Seq(Segment) /\ Len(<<s, id>>) = 2 /\ <<s, id>>[2] = id
    OBVIOUS
  <2>. QED
    BY <2>1, <2>2
<1>2. TelemetryOf(id) \in Seq(Segment) /\ CommandOf(id) \in Seq(Segment)
      /\ Len(TelemetryOf(id)) = Len(Prefix) + 2 /\ Len(Prefix) \in Nat
  BY <1>1, ConcatProperties, LenProperties, TopicAssumption DEF TelemetryOf, CommandOf
<1>3. TelemetryOf(id)[Len(Prefix) + 2] = <<"telemetry", id>>[2]
  BY <1>1, <1>2, ConcatProperties, TopicAssumption DEF TelemetryOf
<1>. QED
  BY <1>1, <1>2, <1>3, EmptySeq DEF ExtractId

LEMMA TopicProperties ==
  ASSUME NEW t \in Topics
  PROVE  t \in Seq(Segment) \ {<<>>} /\ ExtractId(t) \in Segment
BY TopicAssumption, EmptySeq, ElementOfSeq DEF ExtractId

LEMMA EntityTypes ==
  /\ \A id \in ConfigIds : Configured(id) \in EntityType
                           /\ Configured(id).telemetry_topic = TelemetryOf(id)
                           /\ Configured(id).online = FALSE
  /\ \A t \in Topics : Discovered(t) \in EntityType
                       /\ Discovered(t).telemetry_topic = t
                       /\ Discovered(t).last_topic = t
BY IdAssumption, TelemetryOfProperties, TopicProperties, EmptySeq
   DEF Configured, Discovered, Entity, EntityType, NoTopic, ConfigIds

-----------------------------------------------------------------------------
IInv == TypeOK /\ IndexAgrees /\ DevicesAreIndexed

LEMMA InvInit == Init => IInv
<1> SUFFICES ASSUME Init PROVE IInv
  OBVIOUS
<1>1. \A id \in ConfigIds : id \in Segment \ {""}
  BY IdAssumption
<1>2. DOMAIN by_id_ = ConfigIds /\ \A id \in ConfigIds : by_id_[id] = Configured(id)
  BY DEF Init
<1>3. /\ DOMAIN telemetry_topic_to_id_ = {TelemetryOf(id) : id \in ConfigIds}
      /\ \A id \in ConfigIds : telemetry_topic_to_id_[TelemetryOf(id)] = id
  BY <1>1, TelemetryOfProperties DEF Init
<1>4. \A id \in ConfigIds : ExtractId(TelemetryOf(id)) = id
                            /\ TelemetryOf(id) \in Seq(Segment) \ {<<>>}
  BY <1>1, TelemetryOfProperties
<1>5. TypeOK
  <2>1. \A id \in DOMAIN by_id_ : id \in Segment \ {""} /\ by_id_[id] \in EntityType
    BY <1>1, <1>2, EntityTypes
  <2>2. \A t \in DOMAIN telemetry_topic_to_id_ : t \in Seq(Segment) \ {<<>>}
    BY <1>3, <1>4
  <2>. QED
    BY <2>1, <2>2 DEF TypeOK
<1>6. IndexAgrees
  BY <1>2, <1>3, <1>4 DEF IndexAgrees
<1>7. DevicesAreIndexed
  BY <1>2, <1>3, EntityTypes DEF DevicesAreIndexed
<1>. QED
  BY <1>5, <1>6, <1>7 DEF IInv

LEMMA UpdateStep == ASSUME IInv, NEW t \in Topics, Known(t), Update(t) PROVE IInv'
<1> DEFINE d == telemetry_topic_to_id_[t]
<1> USE DEF IInv, Known, Update
<1>1. t \in DOMAIN telemetry_topic_to_id_ /\ d \in DOMAIN by_id_
      /\ t \in Seq(Segment) /\ by_id_[d] \in EntityType
  BY TopicProperties DEF TypeOK
<1>2. by_id_' = [by_id_ EXCEPT ![d] = [by_id_[d] EXCEPT !.online = TRUE, !.last_topic = t]]
      /\ telemetry_topic_to_id_' = telemetry_topic_to_id_
  OBVIOUS
<1>3. /\ by_id_'[d] \in EntityType
      /\ by_id_'[d].telemetry_topic = by_id_[d].telemetry_topic
      /\ by_id_'[d].last_topic = t
  <2>1. by_id_'[d] = [by_id_[d] EXCEPT !.online = TRUE, !.last_topic = t]
    BY <1>1, <1>2
  <2>. QED
    BY <1>1, <2>1 DEF EntityType
<1>4. DOMAIN by_id_' = DOMAIN by_id_
      /\ \A id \in DOMAIN by_id_ : id # d => by_id_'[id] = by_id_[id]
  BY <1>2
<1>5. TypeOK'
  BY <1>2, <1>3, <1>4 DEF TypeOK
<1>6. IndexAgrees'
  BY <1>2, <1>4 DEF IndexAgrees
<1>7. DevicesAreIndexed'
  BY <1>1, <1>2, <1>3, <1>4 DEF DevicesAreIndexed
<1>. QED
  BY <1>5, <1>6, <1>7

LEMMA DiscoverStep == ASSUME IInv, NEW t \in Topics, Discover(t) PROVE IInv'
<1> DEFINE d == ExtractId(t)
<1> USE DEF IInv
<1>1. t \in Seq(Segment) \ {<<>>} /\ d \in Segment \ {""}
  BY TopicProperties DEF Discover
<1>2. /\ DOMAIN by_id_' = DOMAIN by_id_ \cup {d}
      /\ by_id_'[d] = Discovered(t)
      /\ \A id \in DOMAIN by_id_ : id # d => by_id_'[id] = by_id_[id]
  <2>1. by_id_' = Put(by_id_, d, Discovered(t))
    BY DEF Discover
  <2>. QED
    BY <2>1 DEF Put
<1>3. /\ DOMAIN telemetry_topic_to_id_' = DOMAIN telemetry_topic_to_id_ \cup {t}
      /\ telemetry_topic_to_id_'[t] = d
      /\ \A u \in DOMAIN telemetry_topic_to_id_ : u # t =>
           telemetry_topic_to_id_'[u] = telemetry_topic_to_id_[u]
  <2>1. telemetry_topic_to_id_' = Put(telemetry_topic_to_id_, t, d)
    BY DEF Discover
  <2>. QED
    BY <2>1 DEF Put
<1>4. \A u \in DOMAIN telemetry_topic_to_id_ :
        telemetry_topic_to_id_'[u] = telemetry_topic_to_id_[u]
  BY <1>3 DEF IndexAgrees
<1>5. TypeOK'
  BY <1>1, <1>2, <1>3, EntityTypes DEF TypeOK
<1>6. IndexAgrees'
  BY <1>2, <1>3, <1>4 DEF IndexAgrees
<1>7. DevicesAreIndexed'
  <2>1. ASSUME NEW id \in DOMAIN by_id_, id # d
        PROVE  /\ by_id_'[id].telemetry_topic \in DOMAIN telemetry_topic_to_id_'
               /\ telemetry_topic_to_id_'[by_id_'[id].telemetry_topic] = id
               /\ by_id_'[id].online =>
                    /\ by_id_'[id].last_topic \in DOMAIN telemetry_topic_to_id_'
                    /\ telemetry_topic_to_id_'[by_id_'[id].last_topic] = id
    BY <1>2, <1>3, <1>4, <2>1 DEF DevicesAreIndexed
  <2>2. /\ by_id_'[d].telemetry_topic = t /\ by_id_'[d].last_topic = t
    BY <1>2, EntityTypes
  <2>. QED
    BY <1>2, <1>3, <2>1, <2>2 DEF DevicesAreIndexed
<1>. QED
  BY <1>5, <1>6, <1>7

LEMMA InvStep == IInv /\ [Next]_vars => IInv'
<1>1. ASSUME IInv, UNCHANGED vars PROVE IInv'
  BY <1>1 DEF vars, IInv, TypeOK, IndexAgrees, DevicesAreIndexed
<1>. QED
  BY <1>1, UpdateStep, DiscoverStep DEF Next, Upsert

LEMMA InvHolds == Spec => []IInv
BY InvInit, InvStep, PTL DEF Spec

\* Ids are non-empty and entities well-formed.
THEOREM TypeCorrect == Spec => []TypeOK
BY InvHolds, PTL DEF IInv

\* UpdateFromTelemetryTopic never finds an index entry without an entity, and
\* every entry names the topic's last segment.
THEOREM IndexNeverDangles == Spec => []IndexAgrees
BY InvHolds, PTL DEF IInv

\* Every device stays reachable under the topic it is listed with, although
\* Register overwrites entities and ReindexLocked never removes a topic.
THEOREM DevicesStayIndexed == Spec => []DevicesAreIndexed
BY InvHolds, PTL DEF IInv

\* No message can redirect a topic to another device, nor remove a device.
THEOREM AttributionNeverChanges == Spec => AttributionIsStable
<1> DEFINE A == /\ DOMAIN by_id_ \subseteq DOMAIN by_id_'
                /\ \A t \in DOMAIN telemetry_topic_to_id_ :
                     /\ t \in DOMAIN telemetry_topic_to_id_'
                     /\ telemetry_topic_to_id_'[t] = telemetry_topic_to_id_[t]
<1>1. ASSUME IInv, NEW t \in Topics, Known(t), Update(t) PROVE A
  BY <1>1 DEF Update
<1>2. ASSUME IInv, NEW t \in Topics, Discover(t) PROVE A
  <2>1. /\ by_id_' = Put(by_id_, ExtractId(t), Discovered(t))
        /\ telemetry_topic_to_id_' = Put(telemetry_topic_to_id_, t, ExtractId(t))
    BY <1>2 DEF Discover
  <2>2. \A u \in DOMAIN telemetry_topic_to_id_ : telemetry_topic_to_id_[u] = ExtractId(u)
    BY <1>2 DEF IInv, IndexAgrees
  <2>. QED
    BY <2>1, <2>2 DEF Put
<1>3. IInv /\ [Next]_vars => [A]_vars
  BY <1>1, <1>2 DEF Next, Upsert
<1>. QED
  BY <1>3, InvHolds, PTL DEF Spec, AttributionIsStable
-----------------------------------------------------------------------------
\* CommandableIffAlone is inductive once the actuators' own topics are known to
\* stay in the index: a topic that is not in it is then a foreign one.
CInv ==
  /\ \A id \in ActuatorIds : TelemetryOf(id) \in DOMAIN telemetry_topic_to_id_
  /\ CommandableIffAlone

LEMMA ActuatorIdProperties ==
  ASSUME NEW id \in ActuatorIds
  PROVE  /\ id \in ConfigIds /\ ExtractId(TelemetryOf(id)) = id
         /\ Configured(id).command_topic # NoTopic
<1>1. id \in ConfigIds /\ id \in Segment
  BY IdAssumption DEF ConfigIds
<1>2. <<"command", id>> \in Seq(Segment) /\ Len(<<"command", id>>) = 2
  <2>1. ASSUME NEW s \in Segment PROVE <<s, id>> \in Seq(Segment) /\ Len(<<s, id>>) = 2
    BY <1>1
  <2>. QED
    BY <2>1, SegmentAssumption
<1>3. Len(CommandOf(id)) = Len(Prefix) + 2 /\ Len(Prefix) \in Nat
  BY <1>2, ConcatProperties, LenProperties, TopicAssumption DEF CommandOf
<1>4. CommandOf(id) # <<>>
  BY <1>3
<1>. QED
  BY <1>1, <1>4, TelemetryOfProperties DEF Configured, Entity, NoTopic

LEMMA CommandInit == Init => CInv
<1> SUFFICES ASSUME Init, NEW id \in ActuatorIds
             PROVE  /\ TelemetryOf(id) \in DOMAIN telemetry_topic_to_id_
                    /\ Commandable(id)
                    /\ \A t \in DOMAIN telemetry_topic_to_id_ :
                         ExtractId(t) = id => t = TelemetryOf(id)
  BY DEF CInv, CommandableIffAlone
<1>1. DOMAIN telemetry_topic_to_id_ = {TelemetryOf(i) : i \in ConfigIds}
  BY DEF Init
<1>2. \A i \in ConfigIds : ExtractId(TelemetryOf(i)) = i
  BY IdAssumption, TelemetryOfProperties
<1>. QED
  BY <1>1, <1>2, ActuatorIdProperties DEF Init, Commandable

LEMMA CommandStep == IInv /\ CInv /\ [Next]_vars => CInv'
<1> SUFFICES ASSUME IInv, CInv, [Next]_vars PROVE CInv'
  OBVIOUS
<1>1. CASE UNCHANGED vars
  BY <1>1 DEF vars, CInv, CommandableIffAlone, Commandable
<1>2. ASSUME NEW t \in Topics, Known(t), Update(t) PROVE CInv'
  <2>1. \A id \in DOMAIN by_id_ : by_id_[id] \in EntityType
    BY DEF IInv, TypeOK
  <2>2. /\ DOMAIN by_id_' = DOMAIN by_id_
        /\ \A id \in DOMAIN by_id_ : by_id_'[id].command_topic = by_id_[id].command_topic
    BY <1>2, <2>1 DEF Update, Known, EntityType
  <2>3. \A id \in ActuatorIds : Commandable(id)' <=> Commandable(id)
    BY <2>2 DEF Commandable
  <2>. QED
    BY <1>2, <2>3 DEF Update, CInv, CommandableIffAlone
<1>3. ASSUME NEW t \in Topics, ~Known(t), Discover(t) PROVE CInv'
  <2>1. t \notin DOMAIN telemetry_topic_to_id_
    BY <1>3 DEF Known, IInv, IndexAgrees
  <2>2. DOMAIN telemetry_topic_to_id_' = DOMAIN telemetry_topic_to_id_ \cup {t}
        /\ by_id_' = Put(by_id_, ExtractId(t), Discovered(t))
    BY <1>3 DEF Discover, Put
  <2>3. ASSUME NEW id \in ActuatorIds
        PROVE  Commandable(id)' <=> \A u \in DOMAIN telemetry_topic_to_id_' :
                                      ExtractId(u) = id => u = TelemetryOf(id)
    <3>1. CASE ExtractId(t) = id
      <4>1. t # TelemetryOf(id)
        BY <2>1 DEF CInv
      <4>2. ~Commandable(id)'
        BY <2>2, <3>1 DEF Put, Discovered, Entity, Commandable
      <4>. QED
        BY <2>2, <3>1, <4>1, <4>2
    <3>2. CASE ExtractId(t) # id
      <4>1. Commandable(id)' <=> Commandable(id)
        BY <2>2, <3>2 DEF Put, Commandable
      <4>. QED
        BY <2>2, <3>2, <4>1 DEF CInv, CommandableIffAlone
    <3>. QED
      BY <3>1, <3>2
  <2>. QED
    BY <2>2, <2>3 DEF CInv, CommandableIffAlone
<1>. QED
  BY <1>1, <1>2, <1>3 DEF Next, Upsert

\* An actuator is commandable exactly as long as no telemetry but its own named
\* it (GetCommandTopic, Register).
THEOREM CommandTopicsKept == Spec => []CommandableIffAlone
<1>1. CInv => CommandableIffAlone
  BY DEF CInv
<1>. QED
  BY <1>1, CommandInit, CommandStep, InvHolds, PTL DEF Spec
-----------------------------------------------------------------------------
(***************************************************************************)
(* The gateway.                                                            *)
(***************************************************************************)
Record == [device : Segment, payload : Payload \cup {None}]

\* What one message does, whatever its origin.
Data(t, p, more) == Ingest(t, p, more) /\ UNCHANGED <<db_, open_, conns>>

\* All other steps, which leave registry, status and rows alone.
Other ==
  /\ UNCHANGED <<registry, last_payload, db_, sample>> /\ commands' \subseteq commands
  /\ \/ UNCHANGED <<conns, frames>>
     \/ Broadcast(Notice) /\ UNCHANGED conns
     \/ \E c \in Client : c \notin conns /\ conns' = conns \cup {c} /\ UNCHANGED frames
     \/ \E c \in Client : frames[c] # <<>> /\ UNCHANGED conns
                          /\ frames' = [frames EXCEPT ![c] = Tail(@)]
     \/ \E c \in Client : conns' = conns \ {c} /\ frames' = [frames EXCEPT ![c] = <<>>]

LEMMA NoticeType == Notice \in Seq(Record) /\ <<>> \in Seq(Record)
<1>1. [device |-> "", payload |-> None] \in Record
  BY SegmentAssumption DEF Record
<1>2. ASSUME NEW r \in Record PROVE <<r>> \in Seq(Record)
  OBVIOUS
<1>. QED
  BY <1>1, <1>2, EmptySeq DEF Notice

LEMMA NoticeFrames == Len(Notice) = 1 /\ \A j \in 1..Len(Notice) : Notice[j].device = ""
<1>1. ASSUME NEW r PROVE Len(<<r>>) = 1 /\ <<r>>[1] = r
  OBVIOUS
<1>2. PICK r : r = [device |-> "", payload |-> None]
  OBVIOUS
<1>3. Notice = <<r>>
  BY <1>2 DEF Notice
<1>4. Len(Notice) = 1 /\ Notice[1] = r
  BY <1>1, <1>3
<1>5. r.device = ""
  BY <1>2
<1>6. ASSUME NEW j \in 1..Len(Notice) PROVE Notice[j].device = ""
  <2>1. j = 1
    BY <1>4
  <2>. QED
    BY <1>4, <1>5, <2>1
<1>. QED
  BY <1>4, <1>6

LEMMA StepCases ==
  ASSUME GatewayNext, open_ \in BOOLEAN
  PROVE  \/ \E t \in Topics, p \in Payload, more \in {<<>>, Notice} : Data(t, p, more)
         \/ Other /\ open_' \in BOOLEAN
<1>1. CASE Message
  <2>1. PICK t \in Topics, p \in Payload :
          MqttMessage(t, p) \/ Simulate(t, p) \/ \E c \in Client : WsMessage(c, t, p)
    BY <1>1 DEF Message
  <2>. QED
    BY <2>1 DEF MqttMessage, Simulate, WsMessage, Data
<1>2. CASE \E t \in Topics, v \in Values : ZigbeeLine(t, v)
  <2>1. PICK t \in Topics, v \in Values : ZigbeeLine(t, v)
    BY <1>2
  <2>2. [form |-> "object", value |-> v] \in Payload
    BY DEF Payload
  <2>. QED
    BY <2>1, <2>2 DEF ZigbeeLine, Data
<1>3. CASE \E c \in Client : WsBadMessage(c) \/ Upgrade(c) \/ Sent(c) \/ Disconnect(c)
  BY <1>3 DEF WsBadMessage, Upgrade, Sent, Disconnect, Other
<1>4. CASE LinkOpens \/ LinkCloses \/ CommandArrives
  BY <1>4 DEF LinkOpens, LinkCloses, CommandArrives, Other
<1>. QED
  BY <1>1, <1>2, <1>3, <1>4 DEF GatewayNext

\* A message either reaches the device it names, or is only broadcast.
Reaches(t, p, more) ==
  /\ DeviceId(t) # "" /\ Receive(DeviceId(t), t, p)
  /\ Broadcast(<<Frame(DeviceId(t), p)>> \o more)

Passes(p, more) ==
  /\ UNCHANGED <<registry, last_payload, sample, commands>>
  /\ Broadcast(more) \/ Broadcast(<<Frame("", p)>> \o more)

LEMMA DataCases ==
  ASSUME NEW t, NEW p, NEW more, Data(t, p, more)
  PROVE  Reaches(t, p, more) \/ Passes(p, more)
BY DEF Data, Ingest, Reaches, Passes

LEMMA RegistryStep ==
  ASSUME GatewayNext, open_ \in BOOLEAN PROVE [Next]_vars
<1>1. ASSUME NEW t \in Topics, NEW p \in Payload, NEW more, Data(t, p, more)
      PROVE  [Next]_vars
  BY <1>1, DataCases DEF Reaches, Passes, Receive, Next, registry, vars
<1>2. CASE Other
  BY <1>2 DEF Other, registry, vars
<1>. QED
  BY <1>1, <1>2, StepCases

\* The message's device is registered, and the index has the topic for it.
LEMMA ReachedDevice ==
  ASSUME IInv, NEW t \in Topics, Upsert(t), DeviceId(t) # ""
  PROVE  /\ DOMAIN by_id_' = DOMAIN by_id_ \cup {DeviceId(t)}
         /\ t \in DOMAIN telemetry_topic_to_id_'
         /\ telemetry_topic_to_id_'[t] = DeviceId(t)
         /\ DeviceId(t) \in Segment
<1>1. CASE Known(t) /\ Update(t)
  BY <1>1 DEF Known, Update, DeviceId, IInv, TypeOK
<1>2. CASE ~Known(t) /\ Discover(t)
  BY <1>2, TopicProperties DEF Discover, Put, DeviceId
<1>. QED
  BY <1>1, <1>2 DEF Upsert
-----------------------------------------------------------------------------
\* The types of what the gateway adds to the registry.
Types ==
  /\ DOMAIN last_payload = DOMAIN by_id_ /\ DOMAIN sample \subseteq DOMAIN by_id_
  /\ \A id \in DOMAIN last_payload : last_payload[id] \in Payload \cup {None}
  /\ \A id \in DOMAIN sample : sample[id] \in [topic : Seq(Segment), value : Values]
  /\ db_ \in BOOLEAN /\ open_ \in BOOLEAN /\ commands \subseteq Segment
  /\ conns \subseteq Client
  /\ frames \in [Client -> Seq(Record)]

LEMMA TypesInit == GatewayInit => Types
<1> SUFFICES ASSUME GatewayInit PROVE Types
  OBVIOUS
<1>1. DOMAIN last_payload = DOMAIN by_id_
  BY DEF GatewayInit, Init
<1>2. \A id \in DOMAIN last_payload : last_payload[id] = None
  BY DEF GatewayInit
<1>3. DOMAIN sample = {}
  BY DEF GatewayInit
<1>4. frames \in [Client -> Seq(Record)]
  BY NoticeType DEF GatewayInit
<1>. QED
  BY <1>1, <1>2, <1>3, <1>4 DEF GatewayInit, Types

LEMMA FrameType ==
  ASSUME NEW id \in Segment, NEW p \in Payload, NEW more \in Seq(Record)
  PROVE  /\ <<Frame(id, p)>> \o more \in Seq(Record)
         /\ Len(<<Frame(id, p)>> \o more) = 1 + Len(more)
         /\ (<<Frame(id, p)>> \o more)[1] = Frame(id, p)
         /\ \A j \in 1..Len(more) : (<<Frame(id, p)>> \o more)[j + 1] = more[j]
<1>1. Frame(id, p) \in Record
  BY DEF Frame, Record
<1>2. ASSUME NEW r \in Record
      PROVE  <<r>> \in Seq(Record) /\ Len(<<r>>) = 1 /\ <<r>>[1] = r
  OBVIOUS
<1>3. /\ <<Frame(id, p)>> \in Seq(Record) /\ Len(<<Frame(id, p)>>) = 1
      /\ <<Frame(id, p)>>[1] = Frame(id, p)
  BY <1>1, <1>2
<1>. QED
  BY <1>3, ConcatProperties, LenProperties

LEMMA BroadcastType ==
  ASSUME Types, NEW s \in Seq(Record), Broadcast(s)
  PROVE  frames' \in [Client -> Seq(Record)]
<1>1. \A c \in Client : frames[c] \o s \in Seq(Record) /\ frames[c] \in Seq(Record)
  BY ConcatProperties DEF Types
<1>. QED
  BY <1>1 DEF Broadcast

\* What Receive puts where.
LEMMA ReceiveEffect ==
  ASSUME IInv, Types, NEW t \in Topics, NEW p \in Payload,
         DeviceId(t) # "", Receive(DeviceId(t), t, p)
  PROVE  /\ DOMAIN last_payload' = DOMAIN by_id_'
         /\ DOMAIN by_id_' = DOMAIN by_id_ \cup {DeviceId(t)}
         /\ last_payload'[DeviceId(t)] = p
         /\ \A id \in DOMAIN last_payload : id # DeviceId(t) => last_payload'[id] = last_payload[id]
         /\ \/ ~(db_ /\ Numeric(p)) /\ sample' = sample
            \/ /\ db_ /\ Numeric(p) /\ DOMAIN sample' = DOMAIN sample \cup {DeviceId(t)}
               /\ sample'[DeviceId(t)] = [topic |-> t, value |-> p.value]
               /\ \A id \in DOMAIN sample : id # DeviceId(t) => sample'[id] = sample[id]
         /\ commands' \subseteq commands \cup {r.actuator : r \in Rules}
<1>1. DOMAIN by_id_' = DOMAIN by_id_ \cup {DeviceId(t)}
  BY ReachedDevice DEF Receive
<1>2. last_payload' = Put(last_payload, DeviceId(t), p) /\ sample' = Sampled(DeviceId(t), t, p)
  BY DEF Receive
<1>3. commands' \subseteq commands \cup {r.actuator : r \in Rules}
  BY DEF Receive, RuleCommands, Holding
<1>4. db_ \in BOOLEAN /\ Numeric(p) \in BOOLEAN
  BY DEF Types, Numeric, JsonNumber
<1>5. CASE db_ /\ Numeric(p)
  <2>1. sample' = Put(sample, DeviceId(t), [topic |-> t, value |-> p.value])
    BY <1>2, <1>5 DEF Sampled
  <2>. QED
    BY <1>1, <1>2, <1>3, <1>5, <2>1 DEF Put, Types
<1>6. CASE ~(db_ /\ Numeric(p))
  <2>1. sample' = sample
    BY <1>2, <1>6 DEF Sampled
  <2>. QED
    BY <1>1, <1>2, <1>3, <1>6, <2>1 DEF Put, Types
<1>. QED
  BY <1>5, <1>6

LEMMA TypesStep ==
  ASSUME IInv, Types, [GatewayNext]_gatewayVars PROVE Types'
<1>1. CASE UNCHANGED gatewayVars
  BY <1>1 DEF gatewayVars, registry, vars, Types
<1>2. ASSUME NEW t \in Topics, NEW p \in Payload, NEW more \in {<<>>, Notice},
             Data(t, p, more), Reaches(t, p, more)
      PROVE  Types'
  <2>1. Receive(DeviceId(t), t, p) /\ DeviceId(t) # ""
    BY <1>2 DEF Reaches
  <2>2. DeviceId(t) \in Segment /\ t \in Seq(Segment)
    BY <2>1, ReachedDevice, TopicProperties DEF Receive
  <2>3. frames' \in [Client -> Seq(Record)]
    BY <1>2, <2>2, FrameType, NoticeType, BroadcastType DEF Reaches
  <2>4. Numeric(p) => p.value \in Values
    BY DEF Numeric, JsonNumber, Payload
  <2>5. \A id \in DOMAIN last_payload' : last_payload'[id] \in Payload \cup {None}
    BY <2>1, ReceiveEffect DEF Types
  <2>6. /\ DOMAIN sample' \subseteq DOMAIN by_id_'
        /\ \A id \in DOMAIN sample' : sample'[id] \in [topic : Seq(Segment), value : Values]
    <3>1. DOMAIN sample \subseteq DOMAIN by_id_' /\ DeviceId(t) \in DOMAIN by_id_'
      BY <2>1, ReceiveEffect DEF Types
    <3>2. \A id \in DOMAIN sample : sample[id] \in [topic : Seq(Segment), value : Values]
      BY DEF Types
    <3>3. CASE sample' = sample
      BY <3>1, <3>2, <3>3
    <3>4. CASE Numeric(p) /\ sample' # sample
      <4>1. [topic |-> t, value |-> p.value] \in [topic : Seq(Segment), value : Values]
        BY <2>2, <2>4, <3>4
      <4>2. /\ DOMAIN sample' = DOMAIN sample \cup {DeviceId(t)}
            /\ sample'[DeviceId(t)] = [topic |-> t, value |-> p.value]
            /\ \A id \in DOMAIN sample : id # DeviceId(t) => sample'[id] = sample[id]
        BY <2>1, <3>4, ReceiveEffect
      <4>. QED
        BY <3>1, <3>2, <4>1, <4>2
    <3>. QED
      BY <2>1, <3>3, <3>4, ReceiveEffect
  <2>7. commands' \subseteq Segment
    <3>1. \A r \in Rules : r.actuator \in Segment
      BY RuleAssumption
    <3>2. commands' \subseteq commands \cup {r.actuator : r \in Rules}
      BY <2>1, ReceiveEffect
    <3>. QED
      BY <3>1, <3>2 DEF Types
  <2>8. DOMAIN last_payload' = DOMAIN by_id_'
    BY <2>1, ReceiveEffect
  <2>. QED
    BY <1>2, <2>3, <2>5, <2>6, <2>7, <2>8 DEF Data, Types
<1>3. ASSUME NEW t \in Topics, NEW p \in Payload, NEW more \in {<<>>, Notice},
             Data(t, p, more), Passes(p, more)
      PROVE  Types'
  <2>1. frames' \in [Client -> Seq(Record)]
    BY <1>3, FrameType, NoticeType, BroadcastType, SegmentAssumption DEF Passes
  <2>. QED
    BY <1>3, <2>1 DEF Data, Passes, Types, registry, vars
<1>4. CASE Other /\ open_' \in BOOLEAN
  <2>1. frames' \in [Client -> Seq(Record)] /\ conns' \subseteq Client
    <3>1. CASE UNCHANGED <<conns, frames>>
      BY <3>1 DEF Types
    <3>2. CASE Broadcast(Notice) /\ UNCHANGED conns
      BY <3>2, NoticeType, BroadcastType DEF Types
    <3>3. CASE \E c \in Client : c \notin conns /\ conns' = conns \cup {c} /\ UNCHANGED frames
      BY <3>3 DEF Types
    <3>4. CASE \E c \in Client : frames[c] # <<>> /\ UNCHANGED conns
                                 /\ frames' = [frames EXCEPT ![c] = Tail(@)]
      BY <3>4, HeadTailProperties DEF Types
    <3>5. CASE \E c \in Client : conns' = conns \ {c} /\ frames' = [frames EXCEPT ![c] = <<>>]
      BY <3>5, NoticeType DEF Types
    <3>. QED
      BY <1>4, <3>1, <3>2, <3>3, <3>4, <3>5 DEF Other
  <2>. QED
    BY <1>4, <2>1 DEF Other, Types, registry, vars
<1>. QED
  BY <1>1, <1>2, <1>3, <1>4, StepCases, DataCases DEF Types
-----------------------------------------------------------------------------
\* The type that RegistryStep needs, by itself: Types needs the registry's.
Flag == open_ \in BOOLEAN

\* Whatever the origin of the messages, ingest does to the registry only what
\* UpsertMqttDeviceFromTopic does, so all that is proved of DeviceRegistry holds
\* of the gateway.
THEOREM RegistryIsImplemented == GatewaySpec => Spec
<1>1. GatewayInit => Init /\ Flag
  BY DEF GatewayInit, Flag
<1>2. Flag /\ [GatewayNext]_gatewayVars => Flag'
  BY StepCases DEF Data, gatewayVars, Flag
<1>3. Flag /\ [GatewayNext]_gatewayVars => [Next]_vars
  <2>1. UNCHANGED gatewayVars => UNCHANGED vars
    BY DEF gatewayVars, registry, vars
  <2>. QED
    BY <2>1, RegistryStep DEF Flag
<1>. QED
  BY <1>1, <1>2, <1>3, PTL DEF GatewaySpec, Spec

LEMMA RegistryInvariants == GatewaySpec => [](IInv /\ CommandableIffAlone)
BY RegistryIsImplemented, InvHolds, CommandTopicsKept, PTL

LEMMA TypesHold == GatewaySpec => []Types
BY TypesInit, TypesStep, RegistryInvariants, PTL DEF GatewaySpec

\* Every variable of the gateway keeps its type, and every device of the registry
\* has a status.
THEOREM GatewayTypeCorrect == GatewaySpec => []GatewayTypeOK
<1>1. IInv /\ Types => GatewayTypeOK
  BY DEF IInv, Types, GatewayTypeOK, Record
<1>. QED
  BY <1>1, RegistryInvariants, TypesHold, PTL
-----------------------------------------------------------------------------
\* No topic leaves the index or changes its device.
LEMMA TopicsKept ==
  ASSUME IInv, NEW t \in Topics, Upsert(t), NEW u \in DOMAIN telemetry_topic_to_id_
  PROVE  /\ u \in DOMAIN telemetry_topic_to_id_'
         /\ telemetry_topic_to_id_'[u] = telemetry_topic_to_id_[u]
<1>1. CASE Update(t)
  BY <1>1 DEF Update
<1>2. CASE ~Known(t) /\ Discover(t)
  <2>1. u # t
    BY <1>2 DEF Known, IInv, IndexAgrees
  <2>. QED
    BY <1>2, <2>1 DEF Discover, Put
<1>. QED
  BY <1>1, <1>2 DEF Upsert

LEMMA RowsStep ==
  ASSUME IInv, Types, RowsStayAttributed, [GatewayNext]_gatewayVars
  PROVE  RowsStayAttributed'
<1>1. ASSUME UNCHANGED <<registry, sample>> PROVE RowsStayAttributed'
  BY <1>1 DEF registry, vars, RowsStayAttributed
<1>2. ASSUME NEW t \in Topics, NEW p \in Payload, DeviceId(t) # "", Receive(DeviceId(t), t, p)
      PROVE  RowsStayAttributed'
  <2>1. /\ t \in DOMAIN telemetry_topic_to_id_'
        /\ telemetry_topic_to_id_'[t] = DeviceId(t)
        /\ \A u \in DOMAIN telemetry_topic_to_id_ :
             /\ u \in DOMAIN telemetry_topic_to_id_'
             /\ telemetry_topic_to_id_'[u] = telemetry_topic_to_id_[u]
    BY <1>2, ReachedDevice, TopicsKept DEF Receive
  <2>2. CASE sample' = sample
    BY <2>1, <2>2 DEF RowsStayAttributed
  <2>3. CASE sample' # sample
    <3>1. /\ DOMAIN sample' = DOMAIN sample \cup {DeviceId(t)}
          /\ sample'[DeviceId(t)] = [topic |-> t, value |-> p.value]
          /\ \A id \in DOMAIN sample : id # DeviceId(t) => sample'[id] = sample[id]
      BY <1>2, <2>3, ReceiveEffect
    <3>2. sample'[DeviceId(t)].topic = t
      BY <3>1
    <3>. QED
      BY <2>1, <3>1, <3>2 DEF RowsStayAttributed
  <2>. QED
    BY <2>2, <2>3
<1>3. ASSUME NEW t \in Topics, NEW p \in Payload, NEW more, Data(t, p, more)
      PROVE  RowsStayAttributed'
  BY <1>1, <1>2, <1>3, DataCases DEF Reaches, Passes
<1>. QED
  BY <1>1, <1>3, StepCases DEF Types, Other, gatewayVars

\* A stored row stays with the device that its topic names, whatever later
\* messages register.
THEOREM RowsAreAttributed == GatewaySpec => []RowsStayAttributed
<1>1. GatewayInit => RowsStayAttributed
  BY DEF GatewayInit, RowsStayAttributed
<1>. QED
  BY <1>1, RowsStep, RegistryInvariants, TypesHold, PTL DEF GatewaySpec

LEMMA StatusStep ==
  ASSUME IInv, Types, StatusIsTheLastRow, [GatewayNext]_gatewayVars
  PROVE  StatusIsTheLastRow'
<1>1. ASSUME UNCHANGED <<last_payload, sample, db_>> PROVE StatusIsTheLastRow'
  BY <1>1 DEF StatusIsTheLastRow, Shown
<1>2. ASSUME NEW t \in Topics, NEW p \in Payload, DeviceId(t) # "",
             Receive(DeviceId(t), t, p), db_' = db_
      PROVE  StatusIsTheLastRow'
  <2> SUFFICES ASSUME db_, NEW id \in DOMAIN last_payload', JsonNumber(last_payload'[id])
               PROVE  id \in DOMAIN sample' /\ sample'[id].value = last_payload'[id].value
    BY <1>2 DEF StatusIsTheLastRow, Shown
  <2>1. DOMAIN last_payload' = DOMAIN last_payload \cup {DeviceId(t)}
    BY <1>2, ReceiveEffect DEF Types
  <2>2. CASE id = DeviceId(t)
    <3>1. last_payload'[id] = p
      BY <1>2, <2>2, ReceiveEffect
    <3>2. Numeric(p)
      BY <3>1 DEF Numeric
    <3>3. id \in DOMAIN sample' /\ sample'[id] = [topic |-> t, value |-> p.value]
      BY <1>2, <2>2, <3>2, ReceiveEffect
    <3>. QED
      BY <3>1, <3>3
  <2>3. CASE id # DeviceId(t)
    <3>1. id \in DOMAIN last_payload /\ last_payload'[id] = last_payload[id]
      BY <1>2, <2>1, <2>3, ReceiveEffect
    <3>2. id \in DOMAIN sample /\ sample[id].value = last_payload[id].value
      BY <3>1 DEF StatusIsTheLastRow, Shown
    <3>3. id \in DOMAIN sample' /\ sample'[id] = sample[id]
      BY <1>2, <2>3, <3>2, ReceiveEffect
    <3>. QED
      BY <3>1, <3>2, <3>3
  <2>. QED
    BY <2>2, <2>3
<1>3. ASSUME NEW t \in Topics, NEW p \in Payload, NEW more, Data(t, p, more)
      PROVE  StatusIsTheLastRow'
  BY <1>1, <1>2, <1>3, DataCases DEF Reaches, Passes, Data
<1>. QED
  BY <1>1, <1>3, StepCases DEF Types, Other, gatewayVars

\* The number that /api/status shows of a device is that of its last row.
THEOREM StatusIsStored == GatewaySpec => []StatusIsTheLastRow
<1>1. GatewayInit => StatusIsTheLastRow
  BY DEF GatewayInit, StatusIsTheLastRow, Shown, JsonNumber, None
<1>. QED
  BY <1>1, StatusStep, RegistryInvariants, TypesHold, PTL DEF GatewaySpec
-----------------------------------------------------------------------------
LEMMA SilenceStep ==
  ASSUME IInv, Types, CommandableIffAlone', [GatewayNext]_gatewayVars,
         NEW a \in ActuatorIds, NEW u \in DOMAIN telemetry_topic_to_id_,
         ExtractId(u) = a, u # TelemetryOf(a), a \in commands'
  PROVE  a \in commands
<1>1. ASSUME NEW t \in Topics, NEW p \in Payload, DeviceId(t) # "", Receive(DeviceId(t), t, p)
      PROVE  a \in commands
  <2>1. u \in DOMAIN telemetry_topic_to_id_'
    BY <1>1, TopicsKept DEF Receive
  <2>2. ~Commandable(a)'
    BY <2>1 DEF CommandableIffAlone
  <2>3. a \notin RuleCommands(DeviceId(t), p)
    BY <2>2 DEF RuleCommands
  <2>. QED
    BY <1>1, <2>3 DEF Receive
<1>2. ASSUME NEW t \in Topics, NEW p \in Payload, NEW more, Data(t, p, more)
      PROVE  a \in commands
  BY <1>1, <1>2, DataCases DEF Reaches, Passes
<1>. QED
  BY <1>2, StepCases DEF Types, Other, gatewayVars

\* Once a foreign topic has named an actuator no rule commands it any more.
THEOREM RulesAreSilenced == GatewaySpec => RulesFallSilent
<1> DEFINE A == \A a \in ActuatorIds :
                  (\E t \in DOMAIN telemetry_topic_to_id_ :
                     ExtractId(t) = a /\ t # TelemetryOf(a))
                    => (a \in commands' => a \in commands)
<1>1. IInv /\ Types /\ CommandableIffAlone' /\ [GatewayNext]_gatewayVars => [A]_gatewayVars
  BY SilenceStep
<1>. QED
  BY <1>1, RegistryInvariants, TypesHold, PTL DEF GatewaySpec, RulesFallSilent
-----------------------------------------------------------------------------
\* No frame is under way to a connection that is no WebSocket.
FeedInv == FeedIsCurrent /\ \A c \in Client \ conns : frames[c] = <<>>

LEMMA Appended ==
  ASSUME Types, NEW s \in Seq(Record), Broadcast(s), NEW c \in conns
  PROVE  /\ frames'[c] \in Seq(Record) /\ frames[c] \in Seq(Record)
         /\ Len(frames[c]) \in Nat /\ Len(s) \in Nat
         /\ Len(frames'[c]) = Len(frames[c]) + Len(s)
         /\ \A i \in 1..Len(frames[c]) : frames'[c][i] = frames[c][i]
         /\ \A j \in 1..Len(s) : frames'[c][Len(frames[c]) + j] = s[j]
<1>1. c \in Client /\ frames[c] \in Seq(Record)
  BY DEF Types
<1>2. frames'[c] = frames[c] \o s
  BY <1>1 DEF Broadcast
<1>. QED
  BY <1>1, <1>2, ConcatProperties, LenProperties

\* Frames that name no device leave the feed current.
LEMMA NoDeviceStep ==
  ASSUME Types, FeedInv, NEW s \in Seq(Record), Broadcast(s),
         \A j \in 1..Len(s) : s[j].device \notin DOMAIN last_payload,
         UNCHANGED <<last_payload, conns>>
  PROVE  FeedInv'
<1>1. \A c \in Client \ conns' : frames'[c] = <<>>
  BY DEF FeedInv, Broadcast
<1>2. ASSUME NEW c \in Client, NEW i \in DOMAIN frames'[c],
             frames'[c][i].device \in DOMAIN last_payload'
      PROVE  \/ frames'[c][i].payload = last_payload'[frames'[c][i].device]
             \/ \E j \in i+1..Len(frames'[c]) : frames'[c][j].device = frames'[c][i].device
  <2>1. c \in conns
    BY <1>1, <1>2, EmptySeq
  <2>2. DOMAIN frames'[c] = 1..Len(frames'[c]) /\ DOMAIN frames[c] = 1..Len(frames[c])
    BY <2>1, Appended, LenProperties
  <2>3. i \in 1..Len(frames[c])
    <3> SUFFICES ASSUME i \notin 1..Len(frames[c]) PROVE FALSE
      OBVIOUS
    <3>1. i - Len(frames[c]) \in 1..Len(s) /\ i = Len(frames[c]) + (i - Len(frames[c]))
      BY <2>1, <2>2, Appended
    <3>2. frames'[c][i] = s[i - Len(frames[c])]
      BY <2>1, <3>1, Appended
    <3>. QED
      BY <1>2, <3>1, <3>2
  <2>4. frames'[c][i] = frames[c][i]
    BY <2>1, <2>3, Appended
  <2>5. CASE frames[c][i].payload = last_payload[frames[c][i].device]
    BY <2>4, <2>5
  <2>6. CASE \E j \in i+1..Len(frames[c]) : frames[c][j].device = frames[c][i].device
    <3>1. PICK j \in i+1..Len(frames[c]) : frames[c][j].device = frames[c][i].device
      BY <2>6
    <3>2. j \in 1..Len(frames[c]) /\ j \in i+1..Len(frames'[c])
      BY <2>1, <2>3, Appended
    <3>. QED
      BY <2>1, <2>4, <3>1, <3>2, Appended
  <2>. QED
    BY <1>2, <2>2, <2>3, <2>4, <2>5, <2>6 DEF FeedInv, FeedIsCurrent
<1>. QED
  BY <1>1, <1>2 DEF FeedInv, FeedIsCurrent

\* A device's new payload, sent before frames that name none, leaves it current.
LEMMA NewPayloadStep ==
  ASSUME Types, FeedInv, NEW d, NEW p, NEW s \in Seq(Record), Broadcast(s),
         UNCHANGED conns, 1 \in 1..Len(s), s[1].device = d, s[1].payload = p,
         \A j \in 1..Len(s) : j # 1 => s[j].device \notin DOMAIN last_payload',
         last_payload'[d] = p,
         \A id \in DOMAIN last_payload' :
           id # d => id \in DOMAIN last_payload /\ last_payload'[id] = last_payload[id]
  PROVE  FeedInv'
<1>1. \A c \in Client \ conns' : frames'[c] = <<>>
  BY DEF FeedInv, Broadcast
<1>2. ASSUME NEW c \in Client, NEW i \in DOMAIN frames'[c],
             frames'[c][i].device \in DOMAIN last_payload'
      PROVE  \/ frames'[c][i].payload = last_payload'[frames'[c][i].device]
             \/ \E j \in i+1..Len(frames'[c]) : frames'[c][j].device = frames'[c][i].device
  <2>1. c \in conns
    BY <1>1, <1>2, EmptySeq
  <2>2. /\ DOMAIN frames'[c] = 1..Len(frames'[c]) /\ DOMAIN frames[c] = 1..Len(frames[c])
        /\ frames'[c][Len(frames[c]) + 1] = s[1]
        /\ Len(frames'[c]) = Len(frames[c]) + Len(s) /\ Len(frames[c]) \in Nat /\ Len(s) \in Nat
    BY <2>1, Appended, LenProperties
  <2>3. CASE i \in 1..Len(frames[c])
    <3>1. frames'[c][i] = frames[c][i]
      BY <2>1, <2>3, Appended
    <3>2. CASE frames[c][i].device = d
      <4>1. Len(frames[c]) + 1 \in i+1..Len(frames'[c])
        BY <2>2, <2>3
      <4>. QED
        BY <2>2, <3>1, <3>2, <4>1
    <3>3. CASE frames[c][i].device # d
      <4>1. /\ frames[c][i].device \in DOMAIN last_payload
            /\ last_payload'[frames[c][i].device] = last_payload[frames[c][i].device]
        BY <1>2, <3>1, <3>3
      <4>2. CASE frames[c][i].payload = last_payload[frames[c][i].device]
        BY <3>1, <4>1, <4>2
      <4>3. CASE \E j \in i+1..Len(frames[c]) : frames[c][j].device = frames[c][i].device
        <5>1. PICK j \in i+1..Len(frames[c]) : frames[c][j].device = frames[c][i].device
          BY <4>3
        <5>2. j \in 1..Len(frames[c]) /\ j \in i+1..Len(frames'[c])
          BY <2>2, <2>3
        <5>3. frames'[c][j] = frames[c][j]
          BY <2>1, <5>2, Appended
        <5>. QED
          BY <3>1, <5>1, <5>2, <5>3
      <4>. QED
        BY <2>2, <2>3, <4>1, <4>2, <4>3 DEF FeedInv, FeedIsCurrent
    <3>. QED
      BY <3>2, <3>3
  <2>4. CASE i = Len(frames[c]) + 1
    BY <2>2, <2>4
  <2>5. CASE i > Len(frames[c]) + 1
    <3>1. /\ i - Len(frames[c]) \in 1..Len(s) /\ i = Len(frames[c]) + (i - Len(frames[c]))
          /\ i - Len(frames[c]) # 1
      BY <2>2, <2>5
    <3>2. frames'[c][i] = s[i - Len(frames[c])]
      BY <2>1, <3>1, Appended
    <3>. QED
      BY <1>2, <3>1, <3>2
  <2>. QED
    BY <2>2, <2>3, <2>4, <2>5
<1>. QED
  BY <1>1, <1>2 DEF FeedInv, FeedIsCurrent

\* The frames of a message: its own first, then those of its origin, of no device.
Sequence(id, p, more) == <<Frame(id, p)>> \o more

\* A sequence that a device's payload leads.
Leads(id, p, s) ==
  /\ s \in Seq(Record) /\ 1 \in 1..Len(s) /\ s[1].device = id /\ s[1].payload = p
  /\ \A j \in 1..Len(s) : j # 1 => s[j].device = ""

LEMMA OriginFrames ==
  ASSUME NEW more \in {<<>>, Notice}
  PROVE  more \in Seq(Record) /\ \A j \in 1..Len(more) : more[j].device = ""
<1>1. CASE more = <<>>
  BY <1>1, NoticeType, EmptySeq
<1>2. CASE more = Notice
  BY <1>2, NoticeType, NoticeFrames
<1>. QED
  BY <1>1, <1>2

LEMMA MessageFrames ==
  ASSUME NEW id \in Segment, NEW p \in Payload, NEW more \in {<<>>, Notice}
  PROVE  Leads(id, p, Sequence(id, p, more))
<1>1. Len(more) \in Nat
  BY OriginFrames, LenProperties
<1>2. /\ Sequence(id, p, more) \in Seq(Record)
      /\ Len(Sequence(id, p, more)) = 1 + Len(more)
      /\ Sequence(id, p, more)[1] = Frame(id, p)
      /\ \A j \in 1..Len(more) : Sequence(id, p, more)[j + 1] = more[j]
  BY OriginFrames, FrameType DEF Sequence
<1>3. ASSUME NEW j \in 1..Len(Sequence(id, p, more)), j # 1
      PROVE  Sequence(id, p, more)[j].device = ""
  <2>1. j - 1 \in 1..Len(more) /\ (j - 1) + 1 = j
    BY <1>1, <1>2, <1>3
  <2>. QED
    BY <1>2, <2>1, OriginFrames
<1>4. Frame(id, p).device = id /\ Frame(id, p).payload = p
  BY DEF Frame
<1>5. 1 \in 1..Len(Sequence(id, p, more))
  BY <1>1, <1>2
<1>. QED
  BY <1>2, <1>3, <1>4, <1>5 DEF Leads

LEMMA ReachesStep ==
  ASSUME IInv, IInv', Types, FeedInv, NEW t \in Topics, NEW p \in Payload,
         NEW more \in {<<>>, Notice}, Reaches(t, p, more), UNCHANGED conns
  PROVE  FeedInv'
<1>1. /\ DeviceId(t) \in Segment /\ Receive(DeviceId(t), t, p)
      /\ Broadcast(<<Frame(DeviceId(t), p)>> \o more)
  BY ReachedDevice DEF Reaches, Receive
<1>2. Broadcast(Sequence(DeviceId(t), p, more))
  BY <1>1 DEF Sequence
<1>3. last_payload' = Put(last_payload, DeviceId(t), p)
  BY <1>1 DEF Receive
<1>4. DOMAIN last_payload' = DOMAIN by_id_'
  BY <1>1, <1>3, ReachedDevice DEF Reaches, Receive, Put, Types
<1>5. "" \notin DOMAIN last_payload'
  BY <1>4 DEF IInv, TypeOK
<1>6. /\ last_payload'[DeviceId(t)] = p
      /\ \A id \in DOMAIN last_payload' : id # DeviceId(t) =>
           id \in DOMAIN last_payload /\ last_payload'[id] = last_payload[id]
  BY <1>3 DEF Put
<1>7. PICK s : s = Sequence(DeviceId(t), p, more)
  OBVIOUS
<1>8. Leads(DeviceId(t), p, s)
  BY <1>1, <1>7, MessageFrames
<1>9. \A j \in 1..Len(s) : j # 1 => s[j].device \notin DOMAIN last_payload'
  BY <1>5, <1>8 DEF Leads
<1>. QED
  BY <1>2, <1>6, <1>7, <1>8, <1>9, NewPayloadStep DEF Leads

LEMMA PassesStep ==
  ASSUME IInv, Types, FeedInv, NEW p \in Payload, NEW more \in {<<>>, Notice},
         Passes(p, more), UNCHANGED conns
  PROVE  FeedInv'
<1>1. "" \notin DOMAIN last_payload
  BY DEF IInv, TypeOK, Types
<1>2. CASE Broadcast(more)
  BY <1>1, <1>2, OriginFrames, NoDeviceStep DEF Passes
<1>3. CASE Broadcast(<<Frame("", p)>> \o more)
  <2>1. Broadcast(Sequence("", p, more))
    BY <1>3 DEF Sequence
  <2>2. "" \in Segment
    BY SegmentAssumption
  <2>3. PICK s : s = Sequence("", p, more)
    OBVIOUS
  <2>4. Leads("", p, s)
    BY <2>2, <2>3, MessageFrames
  <2>. QED
    BY <1>1, <2>1, <2>3, <2>4, NoDeviceStep DEF Passes, Leads
<1>. QED
  BY <1>2, <1>3 DEF Passes

\* A frame that leaves takes nothing from what follows it.
LEMMA SentStep ==
  ASSUME Types, FeedInv, NEW k \in Client, frames[k] # <<>>,
         frames' = [frames EXCEPT ![k] = Tail(@)], UNCHANGED <<conns, last_payload>>
  PROVE  FeedInv'
<1>1. \A c \in Client \ {k} : frames'[c] = frames[c]
  BY DEF Types
<1>2. frames[k] \in Seq(Record) /\ frames'[k] = Tail(frames[k])
  BY DEF Types
<1>3. /\ Len(frames[k]) \in Nat /\ Len(frames'[k]) = Len(frames[k]) - 1
      /\ DOMAIN frames'[k] = 1..Len(frames'[k]) /\ DOMAIN frames[k] = 1..Len(frames[k])
      /\ \A j \in 1..Len(frames'[k]) : frames'[k][j] = frames[k][j + 1]
  BY <1>2, HeadTailProperties, LenProperties
<1>4. k \in conns
  BY DEF FeedInv
<1>5. ASSUME NEW i \in DOMAIN frames'[k], frames'[k][i].device \in DOMAIN last_payload
      PROVE  \/ frames'[k][i].payload = last_payload[frames'[k][i].device]
             \/ \E j \in i+1..Len(frames'[k]) : frames'[k][j].device = frames'[k][i].device
  <2>1. i \in 1..Len(frames'[k]) /\ i + 1 \in DOMAIN frames[k] /\ frames'[k][i] = frames[k][i + 1]
    BY <1>3
  <2>2. CASE frames[k][i + 1].payload = last_payload[frames[k][i + 1].device]
    BY <2>1, <2>2
  <2>3. CASE \E j \in i+1+1..Len(frames[k]) : frames[k][j].device = frames[k][i + 1].device
    <3>1. PICK j \in i+1+1..Len(frames[k]) : frames[k][j].device = frames[k][i + 1].device
      BY <2>3
    <3>2. j - 1 \in i+1..Len(frames'[k]) /\ j - 1 \in 1..Len(frames'[k]) /\ (j - 1) + 1 = j
      BY <1>3, <2>1
    <3>3. frames'[k][j - 1] = frames[k][j]
      BY <1>3, <3>2
    <3>. QED
      BY <2>1, <3>1, <3>2, <3>3
  <2>. QED
    BY <1>5, <2>1, <2>2, <2>3 DEF FeedInv, FeedIsCurrent
<1>6. FeedIsCurrent'
  BY <1>1, <1>5 DEF FeedInv, FeedIsCurrent
<1>. QED
  BY <1>1, <1>4, <1>6 DEF FeedInv

LEMMA FeedStep ==
  ASSUME IInv, IInv', Types, FeedInv, [GatewayNext]_gatewayVars PROVE FeedInv'
<1>1. CASE UNCHANGED gatewayVars
  BY <1>1 DEF FeedInv, FeedIsCurrent, gatewayVars
<1>2. ASSUME NEW t \in Topics, NEW p \in Payload, NEW more \in {<<>>, Notice}, Data(t, p, more)
      PROVE  FeedInv'
  BY <1>2, DataCases, ReachesStep, PassesStep DEF Data
<1>3. CASE Other
  <2>1. UNCHANGED last_payload
    BY <1>3 DEF Other
  <2>2. CASE UNCHANGED <<conns, frames>>
    BY <2>1, <2>2 DEF FeedInv, FeedIsCurrent
  <2>3. CASE Broadcast(Notice) /\ UNCHANGED conns
    <3>1. "" \notin DOMAIN last_payload
      BY DEF IInv, TypeOK, Types
    <3>. QED
      BY <2>1, <2>3, <3>1, NoticeType, NoticeFrames, NoDeviceStep
  <2>4. CASE \E c \in Client : c \notin conns /\ conns' = conns \cup {c} /\ UNCHANGED frames
    BY <2>1, <2>4 DEF FeedInv, FeedIsCurrent
  <2>5. CASE \E c \in Client : frames[c] # <<>> /\ UNCHANGED conns
                               /\ frames' = [frames EXCEPT ![c] = Tail(@)]
    BY <2>1, <2>5, SentStep
  <2>6. CASE \E c \in Client : conns' = conns \ {c} /\ frames' = [frames EXCEPT ![c] = <<>>]
    <3>1. PICK k \in Client : conns' = conns \ {k} /\ frames' = [frames EXCEPT ![k] = <<>>]
      BY <2>6
    <3>2. frames'[k] = <<>> /\ \A c \in Client \ {k} : frames'[c] = frames[c]
      BY <3>1 DEF Types
    <3>3. DOMAIN frames'[k] = {}
      BY <3>2, EmptySeq
    <3>. QED
      BY <2>1, <3>1, <3>2, <3>3 DEF FeedInv, FeedIsCurrent
  <2>. QED
    BY <1>3, <2>2, <2>3, <2>4, <2>5, <2>6 DEF Other
<1>. QED
  BY <1>1, <1>2, <1>3, StepCases DEF Types

\* The newest frame under way for a device carries the payload that the status
\* of the device is made from, for every client.
THEOREM FeedStaysCurrent == GatewaySpec => []FeedIsCurrent
<1>1. GatewayInit => FeedInv
  <2>1. ASSUME GatewayInit, NEW c \in Client PROVE frames[c] = <<>> /\ DOMAIN frames[c] = {}
    BY <2>1, EmptySeq DEF GatewayInit
  <2>. QED
    BY <2>1 DEF FeedInv, FeedIsCurrent
<1>2. IInv /\ IInv' /\ Types /\ FeedInv /\ [GatewayNext]_gatewayVars => FeedInv'
  BY FeedStep
<1>3. FeedInv => FeedIsCurrent
  BY DEF FeedInv
<1>. QED
  BY <1>1, <1>2, <1>3, RegistryInvariants, TypesHold, PTL DEF GatewaySpec
=============================================================================
