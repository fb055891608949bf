--------------------------- MODULE MCZigbeeSerial ---------------------------
(* Lines of at most two characters; two distinct commands of two and three  *)
(* characters.                                                              *)
EXTENDS ZigbeeSerial

CONSTANTS a, b

MCChars    == {a, b}
MCCommands == {<<a, b>>, <<b, b, a>>}
=============================================================================
