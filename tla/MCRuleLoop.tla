----------------------------- MODULE MCRuleLoop -----------------------------
(* The shipped rules on a scale of 0..3: cooling_on above 2, cooling_off     *)
(* below 1, and the alarm on the same reading as cooling_on.                 *)
EXTENDS RuleLoop

Set(v) == <<[type |-> "actuator_set", actuator |-> Motor, value |-> v]>>
Log    == <<[type |-> "log", actuator |-> Motor, value |-> 0]>>

MCRule(id, on, op, v, then) ==
  [id |-> id, enabled |-> on, sensor |-> Sensor, op |-> op, value |-> v, then |-> then]

MCRuleFiles ==
  << <<MCRule("cooling_on", FALSE, ">", 2, Set(1)),
       MCRule("cooling_off", FALSE, "<", 1, Set(0))>>,
     <<MCRule("high_temp", TRUE, ">", 2, Log)>> >>

MCBoth == {"mqtt", "zigbee"}
MCMqtt == {"mqtt"}
=============================================================================
