---------------------------- MODULE MCConfigFiles ----------------------------
(* Three indentations, two keys; every key that a device or a rule has,       *)
(* one for those that are read alike (op as sensor_id, level and message as   *)
(* actuator_id).                                                              *)
EXTENDS ConfigFiles

MCConfigLines ==
  [indent : 0..2, key : {"a", "b"}, kind : {"bare"}]
    \cup [indent : 0..2, key : {"a"}, kind : {"pair"}]
    \cup [indent : 0..2, key : {"-"}, kind : {"other"}]
MCDeviceLines == [key : {"id", "protocol"}, kind : {"pair", "bare"}]
MCRuleLines   == [key : {"enabled", "sensor_id", "value", "type", "actuator_id"}, kind : {"pair"}]
                   \cup [key : {"id"}, kind : {"pair", "bare"}]
MCMaxLines    == [config |-> 5, devices |-> 6, rules |-> 7]
=============================================================================
