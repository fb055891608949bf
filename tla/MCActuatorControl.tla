------------------------- MODULE MCActuatorControl -------------------------
(* A motor and a buzzer.  Some requests carry every key, as the dashboard's *)
(* do; others leave one out, as the API allows, or carry a number that is   *)
(* not 0 or 1, or not whole.                                                *)
EXTENDS ActuatorControl

CONSTANTS motor, buzzer

MCActuators == <<motor, buzzer>>
MCSwitches  == {buzzer}
MCRules     == {motor, buzzer}
MCAsked(on, setting) == [on |-> on, setting |-> setting]
MCFull      == MCAsked(Whole(1), Whole(7))
MCNone      == MCAsked(None, None)
MCRequests  == {MCFull, MCAsked(Whole(2), None),
                MCAsked([int |-> 0, frac |-> "almost"], [int |-> 5, frac |-> "some"])}
MCBulk      == {[a \in {motor, buzzer} |-> IF a = full THEN MCFull ELSE MCNone] :
                  full \in {motor, buzzer}}
MCBoth      == {"mqtt", "zigbee"}
=============================================================================
