---------------------------- MODULE ConfigFiles ----------------------------
(***************************************************************************)
(* The three hand-written parsers of files: ConfigManager (the YAML of the *)
(* environment), LoadDevicesFromFile and LoadRulesFile (gateway_core.cpp). *)
(* Each reads line by line into a few flags and fields, and each is        *)
(* compared here with what the whole text says, for every text.            *)
(*                                                                         *)
(* A line is what is left of it after Trim and StripQuotes, and, in an     *)
(* environment only, RemoveComment (the other two parsers take a comment   *)
(* after a value for a part of it): its indentation, its key and whether   *)
(* it has a value.  The value of a line is the line's number, so that no   *)
(* two lines say the same.  A path is a list of keys; the code joins them  *)
(* with dots, which is the same as long as no key is empty or has a dot.   *)
(***************************************************************************)
EXTENDS Integers, Sequences, SequencesExt

CONSTANTS
  ConfigLines,  \* lines of an environment: [indent, key, kind]
  DeviceLines,  \* lines of a device file:  [key, kind]
  RuleLines,    \* lines of a rule file:    [key, kind]
  MaxLines      \* bound: lines of a file, for each kind of file

\* A "pair" has a value, a "bare" key has none; "other" is a line without a key,
\* a list item included.  The lines of a device or a rule file are those that
\* the code looks for ("id" is "- id", and "type" is "- type"): all others are
\* passed over.
ASSUME LinesAssumption ==
  /\ \A l \in ConfigLines : l.indent \in Nat /\ l.kind \in {"pair", "bare", "other"}
  /\ \A l \in DeviceLines \cup RuleLines : l.kind \in {"pair", "bare"}
  /\ \A l \in DeviceLines : l.key \in {"id", "protocol"}
  /\ \A l \in RuleLines : l.key \in {"id", "enabled", "sensor_id", "value",
                                    "type", "actuator_id"}
  /\ MaxLines \in [{"config", "devices", "rules"} -> Nat]

VARIABLES
  file,         \* the kind of file being read
  text,         \* the lines read so far
  stack,        \* ParseLine: the lines of the sections that are open
  values_,      \* ConfigManager::values_: for each path, the line of its value
  devices,      \* the devices registered: [id, protocol], each a line or 0
  current_id, protocol,
  rules,        \* the rules read
  current, action, in_rule, in_action

config == <<stack, values_>>
device == <<devices, current_id, protocol>>
rule   == <<rules, current, action, in_rule, in_action>>
vars   == <<file, text, config, device, rule>>

\* A field that no line has set is 0: the default (mqtt, enabled, 0.0, "").
NoAction == [type |-> 0, actuator_id |-> 0, value |-> 0]
NoRule   == [id |-> 0, enabled |-> 0, sensor_id |-> 0, value |-> 0, then |-> <<>>]

Init ==
  /\ file \in DOMAIN MaxLines /\ text = <<>>
  /\ stack = <<>> /\ values_ = <<>>
  /\ devices = <<>> /\ current_id = 0 /\ protocol = 0
  /\ rules = <<>> /\ current = NoRule /\ action = NoAction
  /\ in_rule = FALSE /\ in_action = FALSE

Now == Len(text) + 1            \* the number of the line being read
Value(line) == IF line.kind = "bare" THEN 0 ELSE Now

\* The last of a set of lines or places, or 0; and the first, or another.
LastOf(lines) == IF lines = {} THEN 0 ELSE CHOOSE i \in lines : \A j \in lines : j <= i
FirstOf(lines, otherwise) ==
  IF lines = {} THEN otherwise ELSE CHOOSE i \in lines : \A j \in lines : i <= j
-----------------------------------------------------------------------------
\* ConfigManager::ParseLine.  Sections at the line's indentation or deeper are
\* closed, from the innermost one, by any line that is not blank.
\* (A name with a suffix is the code with a slip, kept to test the properties.)
Open(line) ==
  SubSeq(stack, 1, LastOf({n \in DOMAIN stack : text[stack[n]].indent < line.indent}))

Put(values, path, line) ==
  [p \in DOMAIN values \cup {path} |-> IF p = path THEN line ELSE values[p]]

Path(lines) == [i \in DOMAIN lines |-> text[lines[i]].key]

ParseLine_ItemsFirst(line) ==
  /\ IF line.kind = "other" THEN UNCHANGED config
     ELSE IF line.kind = "bare"
       THEN stack' = Append(Open(line), Now) /\ UNCHANGED values_
       ELSE /\ stack' = Open(line)
            /\ values_' = Put(values_, Append(Path(Open(line)), line.key), Now)
  /\ UNCHANGED <<device, rule>>

ParseLine(line) ==
  /\ stack' = IF line.kind = "bare" THEN Append(Open(line), Now) ELSE Open(line)
  /\ values_' = IF line.kind = "pair"
       THEN Put(values_, Append(Path(Open(line)), line.key), Now) ELSE values_
  /\ UNCHANGED <<device, rule>>

\* LoadDevicesFromFile: flush keeps the protocol while there is no id.
FlushedDevices ==
  IF current_id = 0 THEN devices
  ELSE Append(devices, [id |-> current_id, protocol |-> protocol])

DeviceLine_KeepsProtocol(line) ==
  /\ IF line.key = "id"
       THEN /\ devices' = FlushedDevices /\ current_id' = Value(line) /\ UNCHANGED protocol
       ELSE /\ protocol' = Value(line) /\ UNCHANGED <<devices, current_id>>
  /\ UNCHANGED <<config, rule>>

DeviceLine(line) ==
  /\ IF line.key = "id"
       THEN /\ devices' = FlushedDevices /\ current_id' = Value(line)
            /\ protocol' = IF current_id = 0 THEN protocol ELSE 0
       ELSE /\ protocol' = Value(line) /\ UNCHANGED <<devices, current_id>>
  /\ UNCHANGED <<config, rule>>

\* LoadRulesFile: flush_action and flush_rule.
FlushedRule ==
  IF in_action THEN [current EXCEPT !.then = Append(@, action)] ELSE current

FlushedRules ==
  IF in_rule /\ current.id # 0 THEN Append(rules, FlushedRule) ELSE rules

StartRule(line) ==
  /\ rules' = FlushedRules
  /\ current' = [(IF in_rule THEN NoRule ELSE current) EXCEPT !.id = Value(line)]
  /\ in_rule' = TRUE
  /\ IF in_rule /\ in_action THEN action' = NoAction /\ in_action' = FALSE
     ELSE UNCHANGED <<action, in_action>>

StartAction(line) ==
  /\ current' = FlushedRule /\ in_action' = TRUE
  /\ action' = [(IF in_action THEN NoAction ELSE action) EXCEPT !.type = Value(line)]
  /\ UNCHANGED <<rules, in_rule>>

SetField(line) ==
  /\ IF line.key = "actuator_id" \/ (line.key = "value" /\ in_action)
       THEN action' = [action EXCEPT ![line.key] = Value(line)] /\ UNCHANGED current
       ELSE current' = [current EXCEPT ![line.key] = Value(line)] /\ UNCHANGED action
  /\ UNCHANGED <<rules, in_rule, in_action>>

RuleLine_ValueIsConditions(line) ==
  /\ \/ line.key = "id" /\ StartRule(line)
     \/ line.key = "type" /\ StartAction(line)
     \/ line.key = "value" /\ current' = [current EXCEPT !.value = Value(line)]
          /\ UNCHANGED <<action, rules, in_rule, in_action>>
     \/ line.key \notin {"id", "type", "value"} /\ SetField(line)
  /\ UNCHANGED <<config, device>>

RuleLine(line) ==
  /\ \/ line.key = "id" /\ StartRule(line)
     \/ line.key = "type" /\ StartAction(line)
     \/ line.key \notin {"id", "type"} /\ SetField(line)
  /\ UNCHANGED <<config, device>>

Read(line) == Len(text) < MaxLines[file] /\ text' = Append(text, line) /\ UNCHANGED file

Next ==
  \/ file = "config" /\ \E line \in ConfigLines : Read(line) /\ ParseLine(line)
  \/ file = "devices" /\ \E line \in DeviceLines : Read(line) /\ DeviceLine(line)
  \/ file = "rules" /\ \E line \in RuleLines : Read(line) /\ RuleLine(line)

Spec == Init /\ [][Next]_vars
-----------------------------------------------------------------------------
\* The environment s as its indentation has it: the section of a line is the last
\* key without a value, less indented, with every line in between more indented
\* than it.  A key that is given twice has its last value.
SectionOf(s, i) ==
  LastOf({j \in 1..i-1 : /\ s[j].kind = "bare"
                       /\ \A k \in j+1..i : s[k].indent > s[j].indent})

PathsOf(s) ==
  LET path[i \in 0..Len(s)] ==
        IF i = 0 THEN <<>> ELSE Append(path[SectionOf(s, i)], s[i].key)
  IN  path

\* What the gateway is configured with is what the indentation says: no value is
\* lost or put under another section, however sections, lists and duplicates
\* follow each other.
ConfigIsExact ==
  file = "config" =>
    LET pairs == {i \in DOMAIN text : text[i].kind = "pair"}
        path  == PathsOf(text)
    IN  /\ DOMAIN values_ = {path[i] : i \in pairs}
        /\ \A i \in pairs : values_[path[i]] = LastOf({j \in pairs : path[j] = path[i]})

\* What a device or a rule file s says, by the places of its lines.
Keyed(s, key, lines) == {i \in lines : s[i].key = key}
ValueOf(s, i) == IF i = 0 THEN 0 ELSE IF s[i].kind = "bare" THEN 0 ELSE i
FieldOf(s, key, lines) == ValueOf(s, LastOf(Keyed(s, key, lines)))

IdLines(s) == Keyed(s, "id", DOMAIN s)
Named(s)   == {i \in IdLines(s) : s[i].kind = "pair"}

After(i, lines)  == {j \in lines : j > i}
Before(i, lines) == {j \in lines : j < i}
NextOf(s, i, lines) == FirstOf(After(i, lines), Len(s) + 1)

ListsTheNamed(s, list) ==
  /\ {list[n].id : n \in DOMAIN list} = Named(s)
  /\ \A m, n \in DOMAIN list : m < n => list[m].id < list[n].id

\* The devices are the ids that are not empty, in their order.  A device has the
\* last protocol between the device before it and the one after, so a protocol
\* above the first id, or under an empty one, is the next device's unless it has
\* its own.
BlockStart(s, i) ==
  LET previous == LastOf(Before(i, Named(s)))
  IN  IF previous = 0 THEN 1 ELSE NextOf(s, previous, IdLines(s))

ProtocolOf(s, i) == FieldOf(s, "protocol", BlockStart(s, i)..NextOf(s, i, IdLines(s))-1)

DevicesAreExact ==
  file = "devices" =>
    /\ ListsTheNamed(text, FlushedDevices)
    /\ \A n \in DOMAIN FlushedDevices :
         FlushedDevices[n].protocol = ProtocolOf(text, FlushedDevices[n].id)

\* The rules: everything up to the second id is the first rule's block, and then
\* each id starts one.  An action reaches from its type line to the next type or
\* the end of its block.  An actuator_id that stands in no action, in a block that
\* has no type line yet or none at all, is the next action's, be it another rule's:
\* flush_action resets nothing when there is no action.
Bounds(s) == {i \in IdLines(s) : Before(i, IdLines(s)) # {}}
BlockOf(s, i) == (IF i \in Bounds(s) THEN i ELSE 1)..NextOf(s, i, Bounds(s))-1
TypeLines(s) == Keyed(s, "type", DOMAIN s)

ActionEnd(s, t) == NextOf(s, t, Bounds(s) \cup TypeLines(s)) - 1
ActionAt(s, t) ==
  LET previous == LastOf(Before(t, TypeLines(s)))
      first == IF previous = 0 THEN 1 ELSE ActionEnd(s, previous) + 1
  IN  [type |-> ValueOf(s, t),
       actuator_id |-> FieldOf(s, "actuator_id", first..ActionEnd(s, t)),
       value |-> FieldOf(s, "value", t..ActionEnd(s, t))]

\* A rule's actions are those of the type lines in its block, in their order.
HasActions(s, then, types) ==
  \E at \in [DOMAIN then -> types] :
    /\ types = {at[n] : n \in DOMAIN then}
    /\ \A m, n \in DOMAIN then : m < n => at[m] < at[n]
    /\ \A n \in DOMAIN then : then[n] = ActionAt(s, at[n])

IsRule(s, r, block) ==
  LET types == TypeLines(s) \cap block
  IN  /\ r.enabled = FieldOf(s, "enabled", block)
      /\ r.sensor_id = FieldOf(s, "sensor_id", block)
      /\ r.value = FieldOf(s, "value", {k \in block : \A t \in types : k < t})
      /\ HasActions(s, r.then, types)

\* No rule takes its name, switch, condition or the type and value of an action
\* from another's lines, and no threshold becomes an action's value nor the reverse.
\* One field does move: an actuator_id in a rule without a type line is that of the
\* next rule's first action, unless that action has its own; and nothing else is.
RulesAreExact ==
  file = "rules" =>
    /\ ListsTheNamed(text, FlushedRules)
    /\ \A n \in DOMAIN FlushedRules :
         IsRule(text, FlushedRules[n], BlockOf(text, FlushedRules[n].id))
=============================================================================
