----------------------------- MODULE MCMqttLink -----------------------------
(* Small instances of MqttLink: two connection addresses, so that a freed   *)
(* one and a new one can differ, and two topics.                            *)
EXTENDS MqttLink

CONSTANTS c1, c2, t1, t2

MCConn  == {c1, c2}
MCTopic == {t1, t2}
=============================================================================
