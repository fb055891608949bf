------------------------------ MODULE MCGateway ------------------------------
(* A sensor and an actuator of the shipped configuration: topics of their own, *)
(* one on another path that names the actuator, one of a device that is not    *)
(* configured, one without an id, and one that is not telemetry.               *)
EXTENDS Gateway

MCSensorIds   == {"temp"}
MCActuatorIds == {"motor"}
MCPrefix      == <<"iotgw", "dev">>
MCSegment     == {"iotgw", "dev", "prod", "telemetry", "command", "hall", "temp", "motor", "co2", ""}
Named(path)   == <<"iotgw", "dev", "telemetry">> \o path
MCTopics      == {Named(<<"temp">>), Named(<<"motor">>), Named(<<"hall", "motor">>),
                  Named(<<"">>), <<"iotgw", "dev", "command", "motor">>,
                  <<"iotgw", "prod", "telemetry", "co2">>}
MCRules       == {[sensor |-> "temp", actuator |-> "motor"]}
MCValues      == {1, 2}
=============================================================================
