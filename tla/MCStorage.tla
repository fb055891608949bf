------------------------------ MODULE MCStorage ------------------------------
(* Two log rows are kept; a reply has two rows by default and at most three. *)
(* Requests ask for nothing, too few, and more rows than allowed.            *)
EXTENDS Storage

CONSTANTS g1, g2
MCOne == {g1}
MCTwo == {g1, g2}

MCLimits == {-1, 1, 4}
MCNone   == {}

\* More log rows and more commands than are kept of log rows; or media rows
\* only.
MCLogs   == [t \in Table |-> CASE t = "runtime_logs" -> 5
                            [] t = "actuator_commands" -> 3 [] OTHER -> 0]
MCMedia  == [t \in Table |-> IF t = "media_files" THEN 2 ELSE 0]
=============================================================================
