--------------------------- MODULE ActuatorControl ---------------------------
(***************************************************************************)
(* Commands to the actuators: the three ways a command leaves the gateway  *)
(* (POST /api/actuators/<id>/set and POST /api/control in device_api.cpp,  *)
(* POST /api/zigbee/actuators/<id>/set in zigbee_api.cpp, and the          *)
(* actuator_set actions of rules in gateway_core.cpp), the ControlState    *)
(* the dashboard shows, the actuator_commands rows, and the board.         *)
(*                                                                         *)
(* One action is one handler: the event loop runs it without a break.      *)
(* Between handlers a command may be under way on a channel, or lost with  *)
(* the channel.                                                            *)
(*                                                                         *)
(* Every actuator has "on" and the settings that go with it: brightness,   *)
(* or speed and direction, as one value; the buzzer has "on" alone.  A     *)
(* request may leave out either.  A number of a request is its whole part  *)
(* and what its fraction does when it is printed; true is 1, false 0.      *)
(***************************************************************************)
EXTENDS Integers, Sequences, SequencesExt

CONSTANTS
  Actuators,      \* led, motor, buzzer, in the order of POST /api/control
  Switches,       \* those without settings: buzzer
  Motor,          \* the one whose rule commands carry "on", others "value"
  RuleActuators,  \* actuators that rules command
  DefaultSetting, \* br 50, or sp 30 and dir 0
  None,           \* a key missing from a request
  Channels,       \* the channels in use, out of "mqtt" and "zigbee"
  Requests,       \* the bodies that clients send: records of on and setting
  BulkRequests,   \* bodies of POST /api/control: a record for each actuator
  MaxRows         \* bound: calls of RecordCommand

\* "almost": so near the next whole number that six digits show that one.
Fractions == {"none", "some", "almost"}
Number    == [int : Nat, frac : Fractions]
Whole(n)  == [int |-> n, frac |-> "none"]

Ids     == Range(Actuators)
State   == [on : Nat, setting : Nat]
Payload == [on : Number, setting : Number]
Body    == [on : [int : 0..999, frac : Fractions] \cup {None}, setting : Number \cup {None}]

ASSUME ActuatorAssumption == Actuators \in Seq(Ids)
ASSUME ValueAssumption == DefaultSetting \in Nat /\ None \notin Number
ASSUME RequestAssumption == /\ Requests \subseteq Body
                            /\ BulkRequests \subseteq [Ids -> Body]
                            /\ RuleActuators \subseteq Ids

VARIABLES
  control,      \* ControlState, per actuator
  board,        \* the state of the actuators themselves
  queue,        \* commands under way, per channel
  torn,         \* the serial line ends in the part of a line that a failed write left
  up,           \* MqttClient open, serial port open
  rows,         \* calls of RecordCommand; actuator_commands has those written
  known,        \* history: actuators of which ControlState can be right (below)
  commandable   \* actuators for which GetCommandTopic finds a topic

vars == <<control, board, queue, torn, up, rows, known, commandable>>

Idle == [on |-> 0, setting |-> DefaultSetting]

Init ==
  /\ control = [a \in Ids |-> Idle] /\ board = [a \in Ids |-> Idle]
  /\ queue = [ch \in Channels |-> <<>>] /\ up = [ch \in Channels |-> FALSE]
  /\ torn = FALSE /\ rows = <<>> /\ known = Ids /\ commandable = Ids
-----------------------------------------------------------------------------
\* json::Number prints six digits.
Printed(n) == IF n.frac = "almost" THEN Whole(n.int + 1) ELSE n

\* GetJsonBool takes a number that begins with the digit 1 for true.
ToBool(n) == IF n.int \in {1} \cup (10..19) \cup (100..199) THEN 1 ELSE 0

\* NormalizeZigbeePayload and the commands of POST /api/control: a missing key
\* is sent as its default.
Normalize(a, body) ==
  [on |-> IF body.on = None THEN Whole(0) ELSE Printed(body.on),
   setting |-> IF a \in Switches \/ body.setting = None
                 THEN Whole(DefaultSetting) ELSE Printed(body.setting)]

\* NormalizeActuatorPayload reads the buzzer's "on" as a bool.
NormalizeMqtt(a, body) ==
  IF a \in Switches /\ body.on # None
    THEN [Normalize(a, body) EXCEPT !.on = Whole(ToBool(body.on))]
    ELSE Normalize(a, body)

\* The board reads whole numbers, and a missing key as its default.
Obeyed(data) ==
  [on |-> IF data.on = None THEN 0 ELSE data.on.int,
   setting |-> IF data.setting = None THEN DefaultSetting ELSE data.setting.int]

\* UpdateActuatorControlState and UpdateControlState: numbers are cut to whole
\* ones, and a missing key keeps the state.  (A name with a suffix is the code
\* with a slip, kept to test the properties.)
Updated_TakesMissing(a, state, body) ==
  [on |-> IF body.on = None THEN None ELSE body.on.int,
   setting |-> IF a \in Switches \/ body.setting = None THEN state.setting ELSE body.setting.int]

Updated(a, state, body) ==
  [on |-> IF body.on = None THEN state.on ELSE body.on.int,
   setting |-> IF a \in Switches \/ body.setting = None THEN state.setting ELSE body.setting.int]

Command(a, data, by, intact, recorded) ==
  [device |-> a, data |-> data, by |-> by, intact |-> intact, recorded |-> recorded]

\* RecordCommand: the row is not written when the database is not open, or the
\* statement cannot be prepared or fails; the caller is not told.
Row(a, data, ch, ok, written) ==
  [device |-> a, data |-> data, channel |-> ch, ok |-> ok, written |-> written]

\* Where a queue or the rows speak of actuator a.
ForDevice(s, a) == {i \in DOMAIN s : s[i].device = a}

\* known is what an observer of the whole system can say.  A request with every
\* key and numbers in use makes the actuator known if its line is intact and no
\* command is under way for the actuator on another channel; any other command
\* that is taken unmakes it, a loss of the last command too, and a restart.
Proper(a, body) ==
  /\ body.on # None /\ body.on.frac # "almost" /\ (a \in Switches => body.on.int \in {0, 1})
  /\ a \in Switches \/ (body.setting # None /\ body.setting.frac # "almost")

Settles(ch, a, body) ==
  /\ Proper(a, body)
  /\ \A other \in Channels \ {ch} : ForDevice(queue[other], a) = {}

\* One command through ch, on a channel that takes it or does not: the handler
\* records it either way, and touches ControlState only when it was taken.
Sent(ch, a, data, intact, written) ==
  queue' = [queue EXCEPT ![ch] = Append(@, Command(a, data, "web", intact, written))]

SendOne_RecordsFailuresOnly(ch, a, body, data, sent, intact) ==
  \E written \in BOOLEAN :
    /\ rows' = IF sent THEN rows ELSE Append(rows, Row(a, data, ch, sent, written))
    /\ IF sent
         THEN /\ Sent(ch, a, data, intact, written)
              /\ control' = [control EXCEPT ![a] = Updated(a, @, body)]
              /\ known' = IF intact /\ Settles(ch, a, body) THEN known \cup {a} ELSE known \ {a}
         ELSE UNCHANGED <<queue, control, known>>

SendOne_UpdatesFirst(ch, a, body, data, sent, intact) ==
  \E written \in BOOLEAN :
    /\ rows' = Append(rows, Row(a, data, ch, sent, written))
    /\ control' = [control EXCEPT ![a] = Updated(a, @, body)]
    /\ IF sent
         THEN /\ Sent(ch, a, data, intact, written)
              /\ known' = IF intact /\ Settles(ch, a, body) THEN known \cup {a} ELSE known \ {a}
         ELSE UNCHANGED <<queue, known>>

SendOne(ch, a, body, data, sent, intact) ==
  \E written \in BOOLEAN :
    /\ rows' = Append(rows, Row(a, data, ch, sent, written))
    /\ IF sent
         THEN /\ Sent(ch, a, data, intact, written)
              /\ control' = [control EXCEPT ![a] = Updated(a, @, body)]
              /\ known' = IF intact /\ Settles(ch, a, body) THEN known \cup {a} ELSE known \ {a}
         ELSE UNCHANGED <<queue, control, known>>

\* POST /api/actuators/<a>/set, past the 404 for an unknown command topic.
SetMqtt(a, body) ==
  /\ "mqtt" \in Channels /\ a \in commandable /\ Len(rows) < MaxRows
  /\ SendOne("mqtt", a, body, NormalizeMqtt(a, body), up["mqtt"], TRUE)
  /\ UNCHANGED <<board, torn, up, commandable>>

\* POST /api/zigbee/actuators/<a>/set: SendLine may fail on an open port, before
\* or after a part of the line; the next line is glued to that part.
SetZigbee(a, body) ==
  /\ "zigbee" \in Channels /\ Len(rows) < MaxRows
  /\ \E sent \in {up["zigbee"], FALSE}, cut \in {up["zigbee"], FALSE} :
       /\ SendOne("zigbee", a, body, Normalize(a, body), sent, ~torn)
       /\ torn' = (~sent /\ (torn \/ cut))
  /\ UNCHANGED <<board, up, commandable>>

\* POST /api/control with type "control": ControlState takes the request first,
\* then every actuator with a command topic is sent its part, missing keys as
\* defaults.
Targets(topics) ==
  LET sent[n \in 0..Len(Actuators)] ==
        IF n = 0 THEN <<>>
        ELSE IF Actuators[n] \in topics THEN Append(sent[n - 1], Actuators[n])
        ELSE sent[n - 1]
  IN sent[Len(Actuators)]

Bulk(body) ==
  LET targets == Targets(commandable)
      data(i) == Normalize(targets[i], body[targets[i]])
  IN
  /\ "mqtt" \in Channels /\ Len(rows) + Len(targets) <= MaxRows
  /\ control' = [a \in Ids |-> Updated(a, control[a], body[a])]
  /\ \E written \in [DOMAIN targets -> BOOLEAN] :
       /\ rows' = rows \o [i \in DOMAIN targets |->
                             Row(targets[i], data(i), "mqtt", up["mqtt"], written[i])]
       /\ queue' = IF up["mqtt"]
            THEN [queue EXCEPT ![ "mqtt" ] = @ \o
                    [i \in DOMAIN targets |->
                       Command(targets[i], data(i), "web", TRUE, written[i])]]
            ELSE queue
  /\ known' = {a \in Ids : IF up["mqtt"] /\ a \in commandable
                            THEN Settles("mqtt", a, body[a])
                            ELSE a \in known /\ control'[a] = control[a]}
  /\ UNCHANGED <<board, torn, up, commandable>>

\* An actuator_set action of a rule: published when the link is up, with "on"
\* for the motor and with "value", which the others do not read; neither
\* recorded nor shown.
RuleCommand(a, on) ==
  LET data == [on |-> IF a = Motor THEN Whole(on) ELSE None, setting |-> None] IN
  /\ "mqtt" \in Channels /\ a \in commandable /\ up["mqtt"]
  /\ Len(queue["mqtt"]) < MaxRows
  /\ queue' = [queue EXCEPT ![ "mqtt" ] = Append(@, Command(a, data, "rule", TRUE, FALSE))]
  /\ known' = known \ {a}
  /\ UNCHANGED <<control, board, torn, up, rows, commandable>>
-----------------------------------------------------------------------------
\* The board executes the next command of a channel; of a line that is glued
\* to a part of another it may make nothing.
Execute(ch) ==
  /\ queue[ch] # <<>>
  /\ \/ board' = [board EXCEPT ![Head(queue[ch]).device] = Obeyed(Head(queue[ch]).data)]
     \/ ~Head(queue[ch]).intact /\ board' = board
  /\ queue' = [queue EXCEPT ![ch] = Tail(@)]
  /\ UNCHANGED <<control, torn, up, rows, known, commandable>>

\* A channel opens, or closes and loses what was under way on it.
Open(ch) == /\ ~up[ch] /\ up' = [up EXCEPT ![ch] = TRUE]
            /\ UNCHANGED <<control, board, queue, torn, rows, known, commandable>>

Close(ch) ==
  /\ up[ch] /\ up' = [up EXCEPT ![ch] = FALSE]
  /\ known' = known \ {queue[ch][i].device : i \in DOMAIN queue[ch]}
  /\ queue' = [queue EXCEPT ![ch] = <<>>]
  /\ UNCHANGED <<control, board, torn, rows, commandable>>

\* Telemetry replaces the registry's entity of an actuator (DeviceRegistry).
LoseTopic(a) == /\ a \in commandable /\ commandable' = commandable \ {a}
                /\ UNCHANGED <<control, board, queue, torn, up, rows, known>>

\* The gateway is started again: ControlState has its initial values, the
\* devices are those of the files, the rows stay, and the board notices nothing.
Restart ==
  /\ control' = [a \in Ids |-> Idle] /\ commandable' = Ids
  /\ queue' = [ch \in Channels |-> <<>>] /\ up' = [ch \in Channels |-> FALSE]
  /\ known' = {}
  /\ UNCHANGED <<board, torn, rows>>

Next ==
  \/ Restart
  \/ \E a \in Ids, body \in Requests : SetMqtt(a, body) \/ SetZigbee(a, body)
  \/ \E body \in BulkRequests : Bulk(body)
  \/ \E a \in RuleActuators, on \in {0, 1} : RuleCommand(a, on)
  \/ \E ch \in Channels : Execute(ch) \/ Open(ch) \/ Close(ch)
  \/ \E a \in Ids : LoseTopic(a)

Spec == Init /\ [][Next]_vars
-----------------------------------------------------------------------------
\* Types: nothing that a request leaves out gets into ControlState, a client's
\* command or a row.
TypeOK ==
  /\ control \in [Ids -> State] /\ board \in [Ids -> State] /\ torn \in BOOLEAN
  /\ \A ch \in Channels : queue[ch] \in Seq(
       [device : Ids, data : Payload, by : {"web"}, intact : BOOLEAN, recorded : BOOLEAN] \cup
       [device : Ids, data : Body, by : {"rule"}, intact : {TRUE}, recorded : {FALSE}])
  /\ up \in [Channels -> BOOLEAN]
  /\ rows \in Seq([device : Ids, data : Payload, channel : Channels, ok : BOOLEAN,
                    written : BOOLEAN])
  /\ known \subseteq Ids /\ commandable \subseteq Ids

\* Dashboard, history and board agree on every actuator that is known: what
\* ControlState shows is what the last command taken says, so the last row with
\* ok = 1 if that one was written, and what the board does, or will do once the
\* commands under way have arrived.  One complete command brings that about
\* again, whatever happened before.
LastSays(s, places, state) ==
  \A i \in places : (\A j \in places : j <= i) => Obeyed(s[i].data) = state

DashboardIsRight ==
  \A a \in known :
    LET accepted == {i \in ForDevice(rows, a) : rows[i].ok} IN
      /\ IF accepted = {} THEN control[a] = Idle ELSE LastSays(rows, accepted, control[a])
      /\ (\A ch \in Channels : ForDevice(queue[ch], a) = {}) => control[a] = board[a]
      /\ \A ch \in Channels : LastSays(queue[ch], ForDevice(queue[ch], a), control[a])

\* The commands of clients under way on a channel are, but for those whose row
\* could not be written, the last rows with ok = 1 of that channel: the same
\* commands in the same order.  The history never has a command as sent that
\* was not, and never reorders what the board will execute.
Accepted(ch)   == {i \in DOMAIN rows : rows[i].channel = ch /\ rows[i].ok /\ rows[i].written}
FromClient(ch) == {i \in DOMAIN queue[ch] : queue[ch][i].by = "web" /\ queue[ch][i].recorded}

Recorded(ch, row) ==
  /\ \A i \in FromClient(ch) :
       rows[row[i]].device = queue[ch][i].device /\ rows[row[i]].data = queue[ch][i].data
  /\ \A i, j \in FromClient(ch) : i < j => row[i] < row[j]
  /\ \A i \in FromClient(ch), r \in Accepted(ch) :
       row[i] < r => \E j \in FromClient(ch) : row[j] = r

HistoryIsComplete ==
  \A ch \in Channels : \E row \in [FromClient(ch) -> Accepted(ch)] : Recorded(ch, row)
=============================================================================
