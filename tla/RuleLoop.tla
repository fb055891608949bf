------------------------------ MODULE RuleLoop ------------------------------
(***************************************************************************)
(* The automation rules as a control loop: a sensor reports a temperature, *)
(* the ingest handler of gateway_core.cpp evaluates the rules of           *)
(* rule_engine.hpp on it, and their commands switch a cooling motor.       *)
(* rule_api.cpp enables, disables and reloads rules meanwhile.             *)
(*                                                                         *)
(* Rules are level-triggered: every reading that satisfies a rule repeats  *)
(* its command.  Publish loses a command silently while the link is down,  *)
(* and a link that drops loses the readings and commands under way.        *)
(***************************************************************************)
EXTENDS Integers, Sequences, SequencesExt, FiniteSets

CONSTANTS
  RuleFiles,    \* the rule files, in the order they are loaded: sequences of
                \* records of id, enabled, sensor, op, value and then
  Sensor,       \* the sensor's id
  Motor,        \* the actuator's id
  Channels,     \* how readings arrive: "mqtt", on the link, or "zigbee"
  MaxTemp,      \* the temperature is in 0..MaxTemp
  Hot,          \* the temperature the rules keep
  MaxReadings,  \* bound: readings under way on a channel
  MaxCommands   \* bound: commands under way

\* LoadRulesFromConfig: a file that cannot be opened has no rules.
LoadRulesFromConfig(readable) ==
  FlattenSeq([i \in DOMAIN RuleFiles |-> IF i \in readable THEN RuleFiles[i] ELSE <<>>])

Loaded == LoadRulesFromConfig(DOMAIN RuleFiles)
Action == [type : {"actuator_set", "log"}, actuator : {Motor}, value : {0, 1}]
Rule   == [id : {Loaded[i].id : i \in DOMAIN Loaded}, enabled : BOOLEAN,
           sensor : {Loaded[i].sensor : i \in DOMAIN Loaded},
           op : {">", ">=", "<", "<=", "==", "!="}, value : 0..MaxTemp, then : Seq(Action)]

ASSUME RuleAssumption ==
  /\ RuleFiles \in Seq(Seq(Rule))
  /\ \A i, j \in DOMAIN Loaded : Loaded[i].id = Loaded[j].id => i = j
ASSUME BoundAssumption == {MaxTemp, Hot, MaxReadings, MaxCommands} \subseteq Nat

VARIABLES
  rules,        \* RuleEngine::rules_
  up,           \* the MQTT link is open
  readings,     \* readings under way, per channel
  commands,     \* motor commands under way
  motor,        \* the motor's state
  temp          \* the temperature

loopVars == <<rules, up, readings, commands, motor, temp>>

LoopInit ==
  /\ \E readable \in SUBSET DOMAIN RuleFiles : rules = LoadRulesFromConfig(readable)
  /\ up = FALSE /\ commands = <<>>
  /\ readings = [ch \in Channels |-> <<>>]
  /\ motor \in {0, 1} /\ temp \in 0..MaxTemp
-----------------------------------------------------------------------------
Eval(rule, actual) ==
  \/ rule.op = ">"  /\ actual > rule.value
  \/ rule.op = ">=" /\ actual >= rule.value
  \/ rule.op = "<"  /\ actual < rule.value
  \/ rule.op = "<=" /\ actual <= rule.value
  \/ rule.op = "==" /\ actual = rule.value
  \/ rule.op = "!=" /\ actual # rule.value

\* An action of type "log" commands nothing.
Commanding(actions) ==
  FlattenSeq([k \in DOMAIN actions |->
    IF actions[k].type = "actuator_set" THEN <<actions[k]>> ELSE <<>>])

\* OnSensorValue: the actions of all enabled rules that hold, in their order.
\* (A name with a suffix is the code with a slip, kept to test the properties.)
OnSensorValue_IgnoresEnabled(sensor, value) ==
  FlattenSeq([i \in DOMAIN rules |->
    IF rules[i].sensor = sensor /\ Eval(rules[i], value)
      THEN rules[i].then ELSE <<>>])

OnSensorValue_StopsEarly(sensor, value) ==
  FlattenSeq([i \in DOMAIN rules |->
    IF \A k \in 1..i : rules[k].enabled /\ rules[k].sensor = sensor /\ Eval(rules[k], value)
      THEN rules[i].then ELSE <<>>])

OnSensorValue(sensor, value) ==
  FlattenSeq([i \in DOMAIN rules |->
    IF rules[i].enabled /\ rules[i].sensor = sensor /\ Eval(rules[i], value)
      THEN rules[i].then ELSE <<>>])

\* ingest: a reading is taken from a channel and its commands are published, if
\* the link is open.
Ingest(ch) ==
  /\ readings[ch] # <<>>
  /\ LET cmds == Commanding(OnSensorValue(Sensor, Head(readings[ch])))
     IN /\ commands' = IF up THEN commands \o cmds ELSE commands
        /\ Len(commands') <= MaxCommands
  /\ readings' = [readings EXCEPT ![ch] = Tail(@)]
  /\ UNCHANGED <<rules, up, motor, temp>>

\* POST /api/rules/<id>/enable and .../disable: the first rule of that name, if
\* there is one.
FirstNamed(id) == SelectInSeq(rules, LAMBDA r : r.id = id)

SetEnabled(id, enabled) ==
  /\ FirstNamed(id) # 0
  /\ rules' = [rules EXCEPT ![FirstNamed(id)].enabled = enabled]
  /\ UNCHANGED <<up, readings, commands, motor, temp>>

\* POST /api/rules/reload: the rules are replaced, what was enabled or disabled
\* by hand is forgotten, and the reload succeeds whatever could be read.
Reload ==
  /\ \E readable \in SUBSET DOMAIN RuleFiles : rules' = LoadRulesFromConfig(readable)
  /\ UNCHANGED <<up, readings, commands, motor, temp>>
-----------------------------------------------------------------------------
\* The sensor reports, over the link if that is its channel.
Report(ch) ==
  /\ ch = "mqtt" => up
  /\ Len(readings[ch]) < MaxReadings
  /\ readings' = [readings EXCEPT ![ch] = Append(@, temp)]
  /\ UNCHANGED <<rules, up, commands, motor, temp>>

\* The board executes a command.
Execute ==
  /\ commands # <<>> /\ motor' = Head(commands).value /\ commands' = Tail(commands)
  /\ UNCHANGED <<rules, up, readings, temp>>

\* The link opens (MqttLink!LinkRecovers), and drops with what is under way.
Open  == /\ ~up /\ up' = TRUE /\ UNCHANGED <<rules, readings, commands, motor, temp>>
Close == /\ up /\ up' = FALSE /\ commands' = <<>>
         /\ readings' = [ch \in Channels |-> IF ch = "mqtt" THEN <<>> ELSE readings[ch]]
         /\ UNCHANGED <<rules, motor, temp>>

\* The temperature falls while the motor runs and rises while it does not.
Cool == /\ motor = 1 /\ temp > 0 /\ temp' = temp - 1
        /\ UNCHANGED <<rules, up, readings, commands, motor>>
Heat == /\ motor = 0 /\ temp < MaxTemp /\ temp' = temp + 1
        /\ UNCHANGED <<rules, up, readings, commands, motor>>

LoopNext ==
  \/ \E ch \in Channels : Ingest(ch) \/ Report(ch)
  \/ \E i \in DOMAIN Loaded, e \in BOOLEAN : SetEnabled(Loaded[i].id, e)
  \/ Reload \/ Execute \/ Open \/ Close \/ Cool \/ Heat

LoopSpec == LoopInit /\ [][LoopNext]_loopVars

\* The sensor reports every second.  The link comes back, and stays open long
\* enough, time and again, for a report, for its ingestion and for a command.
LoopFairness ==
  /\ WF_loopVars(Open) /\ WF_loopVars(Cool) /\ WF_loopVars(Heat) /\ SF_loopVars(Execute)
  /\ \A ch \in Channels : SF_loopVars(up /\ Report(ch)) /\ SF_loopVars(up /\ Ingest(ch))

LoopFairSpec == LoopSpec /\ LoopFairness
-----------------------------------------------------------------------------
\* While no rule that commands the motor is enabled, none of its commands is
\* published, and once those under way have arrived the motor is the user's.
Enabled(value) == {i \in DOMAIN rules : rules[i].enabled /\
                     \E k \in DOMAIN rules[i].then :
                       rules[i].then[k].type = "actuator_set" /\ rules[i].then[k].value = value}

UnderWay(value) == {k \in DOMAIN commands : commands[k].value = value}

DisabledIsQuiet ==
  [][ \A v \in {0, 1} : Enabled(v) = {} =>
        Cardinality(UnderWay(v)') <= Cardinality(UnderWay(v)) ]_loopVars

\* With the rules enabled for good the loop regulates, whatever readings and
\* commands are lost or late: it never stays hot, and never stays cold with the
\* motor on.
AllEnabled == Len(rules) = Len(Loaded) /\ \A i \in DOMAIN rules : rules[i].enabled

Regulates ==
  <>[]AllEnabled => /\ []<>(temp <= Hot)
                    /\ []<>(motor = 0 \/ temp > 0)
=============================================================================
