----------------------------- MODULE CommandLink -----------------------------
(***************************************************************************)
(* What the gateway may rely on when it publishes a command: a link that   *)
(* is open or closed, takes numbered commands while it is open, delivers   *)
(* them in order and at most once, and loses those under way when it       *)
(* closes.  Nothing is promised of a command once it was taken.            *)
(***************************************************************************)
EXTENDS Integers, Sequences

VARIABLES
  open,       \* commands are taken
  sent,       \* the number of the last command taken
  pending,    \* commands taken and still under way
  delivered   \* commands delivered, in order of arrival

linkVars == <<open, sent, pending, delivered>>

Init == open = FALSE /\ sent = 0 /\ pending = {} /\ delivered = <<>>

Open  == ~open /\ open' = TRUE /\ UNCHANGED <<sent, pending, delivered>>

Close == open /\ open' = FALSE /\ pending' = {} /\ UNCHANGED <<sent, delivered>>

Send == /\ open
        /\ sent' = sent + 1 /\ pending' = pending \cup {sent + 1}
        /\ UNCHANGED <<open, delivered>>

Deliver(n) ==
  /\ open /\ n \in pending /\ \A m \in pending : n <= m
  /\ delivered' = Append(delivered, n) /\ pending' = pending \ {n}
  /\ UNCHANGED <<open, sent>>

Next == Open \/ Close \/ Send \/ \E n \in pending : Deliver(n)

Spec == Init /\ [][Next]_linkVars
=============================================================================
