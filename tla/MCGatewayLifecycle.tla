-------------------------- MODULE MCGatewayLifecycle --------------------------
(* A gateway and its successor, and every overlap of the two.  The tables and  *)
(* the column that are left out are created in the same way.                   *)
EXTENDS GatewayLifecycle

MCTables  == <<"media_files">>
MCColumns == <<"content">>
=============================================================================
