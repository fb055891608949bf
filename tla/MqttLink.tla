------------------------------- MODULE MqttLink -------------------------------
(***************************************************************************)
(* The MQTT link of the gateway: MqttClient (mqtt_client.cpp), the         *)
(* mongoose connection it owns and the broker at the other end.            *)
(*                                                                         *)
(* Everything runs on the event loop thread, so one action is one call     *)
(* into MqttClient: Connect, Subscribe, Publish and Poll from the          *)
(* application, the MG_EV_* callbacks from mg_mgr_poll.  The broker, the   *)
(* network and the wall clock are the environment.                         *)
(*                                                                         *)
(* Time.  The code compares next_reconnect_ms_ with the wall clock and     *)
(* does nothing else with either, so the state keeps their difference,     *)
(*     due = next_reconnect_ms_ - NowUnixMs(),  never below -Horizon,      *)
(* in units of which RetryDelay make the 3000 ms of the code.  A deadline  *)
(* of 0 ("at once") is -Horizon.  The wall clock may be set back, by       *)
(* MaxSetback units in all, and stepped forward, any number of times.      *)
(***************************************************************************)
EXTENDS Integers, Sequences, FiniteSets

CONSTANTS
  Conn,         \* addresses mongoose gives to connections (reused once freed)
  NoConn,       \* nullptr
  Topic,        \* topic filters the application may subscribe to
  RetryDelay,   \* the 3000 ms between attempts
  Horizon,      \* how long ago a deadline is still told from "long ago"
  MaxSetback,   \* bound: sum of the backward steps of the wall clock
  MaxForward,   \* bound: a single forward step of the wall clock
  MaxSubs,      \* bound: calls of Subscribe
  MaxPublish    \* bound: calls of Publish that return true

ASSUME ConnAssumption == NoConn \notin Conn
ASSUME TimeAssumption == /\ RetryDelay \in Nat \ {0} /\ MaxSetback \in Nat
                         /\ MaxForward \in Nat /\ Horizon \in Nat /\ Horizon >= MaxSetback
ASSUME BoundAssumption == MaxSubs \in Nat /\ MaxPublish \in Nat

VARIABLES
  conn_,               \* MqttClient: the connection, or NoConn
  open_,               \* MqttClient: MG_EV_MQTT_OPEN seen on it
  reconnect_enabled_,  \* MqttClient: Connect has been called
  due,                 \* MqttClient: next_reconnect_ms_ relative to the clock
  subscriptions_,      \* MqttClient: topics subscribed, in call order
  live,                \* mongoose: the connections on mgr->conns
  out,                 \* mongoose: the send buffer of each connection
  session,             \* broker: topics subscribed on each connection
  accepted,            \* number of Publish calls that returned true
  arrived,             \* broker: commands received, in order of arrival
  rest,                \* real time since the last close or failed attempt
  ahead,               \* by how much the wall clock was stepped forward since
  setback              \* by how much the wall clock has been set back

client == <<conn_, open_, reconnect_enabled_, due, subscriptions_>>
wire   == <<live, out, session>>
stats  == <<accepted, arrived>>
clock  == <<rest, ahead, setback>>
vars   == <<client, wire, stats, clock>>

Sub(t) == [kind |-> "subscribe", topic |-> t]
Pub(n) == [kind |-> "publish", number |-> n]
Packet == [kind : {"subscribe"}, topic : Topic]
            \cup [kind : {"publish"}, number : 1..MaxPublish]

LongAgo == -Horizon
Max2(a, b) == IF a >= b THEN a ELSE b
Min2(a, b) == IF a <= b THEN a ELSE b
Elems(s) == {s[i] : i \in DOMAIN s}
-----------------------------------------------------------------------------
Init ==
  /\ conn_ = NoConn /\ open_ = FALSE /\ reconnect_enabled_ = FALSE
  /\ due = LongAgo /\ subscriptions_ = <<>>
  /\ live = {} /\ out = [c \in Conn |-> <<>>] /\ session = [c \in Conn |-> {}]
  /\ accepted = 0 /\ arrived = <<>>
  /\ rest = RetryDelay /\ ahead = 0 /\ setback = 0

(***************************************************************************)
(* A definition whose name is another's with a suffix, as in               *)
(* Poll_IgnoresDeadline, is not part of the specification: it is the code  *)
(* with one plausible slip, kept to see that a property notices the slip.  *)
(***************************************************************************)

\* mg_mqtt_connect: a fresh connection, or nullptr when mongoose cannot make
\* one, and then Connect arms the 3 s retry.
DialOk ==
  \E c \in Conn \ live :
    /\ conn_' = c /\ live' = live \cup {c} /\ due' = LongAgo
    /\ UNCHANGED <<out, session, rest, ahead>>

DialFailed == due' = RetryDelay /\ rest' = 0 /\ ahead' = 0 /\ UNCHANGED <<conn_, wire>>

\* Connect: enables reconnection; with a connection at hand it only clears the
\* deadline.
ConnectCall ==
  /\ reconnect_enabled_' = TRUE
  /\ \/ /\ conn_ # NoConn \/ open_
        /\ due' = LongAgo /\ UNCHANGED <<conn_, wire, rest, ahead>>
     \/ /\ conn_ = NoConn /\ ~open_
        /\ DialOk \/ DialFailed
  /\ UNCHANGED <<open_, subscriptions_, stats, setback>>

\* The application's call.  GatewayCore::Run makes it once, before its loop; a
\* second call is allowed here while a connection is at hand.
Connect == (reconnect_enabled_ => conn_ # NoConn) /\ ConnectCall

\* Poll: Connect again once the deadline has passed.  The deadline that Poll
\* itself sets is always overwritten by Connect.
Poll_IgnoresDeadline ==
  reconnect_enabled_ /\ conn_ = NoConn /\ ~open_ /\ ConnectCall

Poll ==
  /\ reconnect_enabled_ /\ conn_ = NoConn /\ ~open_ /\ due <= 0
  /\ ConnectCall

\* Subscribe: remembered in every case, sent at once only on an open link.
Subscribe_NeverSends(t) ==
  /\ Len(subscriptions_) < MaxSubs
  /\ subscriptions_' = Append(subscriptions_, t)
  /\ UNCHANGED <<conn_, open_, reconnect_enabled_, due, wire, stats, clock>>

Subscribe(t) ==
  /\ Len(subscriptions_) < MaxSubs
  /\ subscriptions_' = Append(subscriptions_, t)
  /\ out' = IF conn_ # NoConn /\ open_ THEN [out EXCEPT ![conn_] = Append(@, Sub(t))] ELSE out
  /\ UNCHANGED <<conn_, open_, reconnect_enabled_, due, live, session, stats, clock>>

\* Publish, when it returns true: the command is in mongoose's send buffer.
Publish_Urgent ==
  /\ accepted < MaxPublish /\ conn_ # NoConn /\ open_
  /\ accepted' = accepted + 1
  /\ out' = [out EXCEPT ![conn_] = <<Pub(accepted + 1)>> \o @]
  /\ UNCHANGED <<client, live, session, arrived, clock>>

Publish_BeforeOpen ==
  /\ accepted < MaxPublish /\ conn_ # NoConn
  /\ accepted' = accepted + 1
  /\ out' = [out EXCEPT ![conn_] = Append(@, Pub(accepted + 1))]
  /\ UNCHANGED <<client, live, session, arrived, clock>>

Publish ==
  /\ accepted < MaxPublish /\ conn_ # NoConn /\ open_
  /\ accepted' = accepted + 1
  /\ out' = [out EXCEPT ![conn_] = Append(@, Pub(accepted + 1))]
  /\ UNCHANGED <<client, live, session, arrived, clock>>
-----------------------------------------------------------------------------
\* MG_EV_MQTT_OPEN on a CONNACK that accepts: every remembered topic is
\* subscribed again, since the broker starts a clean session.
Resubscriptions == [i \in DOMAIN subscriptions_ |-> Sub(subscriptions_[i])]

OnOpen_NoResubscribe(c) ==
  /\ c \in live /\ ~open_ /\ open_' = TRUE
  /\ UNCHANGED <<conn_, reconnect_enabled_, due, subscriptions_, wire, stats, clock>>

OnOpen(c) ==
  /\ c \in live /\ ~open_ /\ open_' = TRUE
  /\ out' = [out EXCEPT ![conn_] = @ \o Resubscriptions]
  /\ UNCHANGED <<conn_, reconnect_enabled_, due, subscriptions_, live, session,
                 stats, clock>>

\* MG_EV_CLOSE: mongoose frees c, and with it the packets not yet taken; the
\* client forgets c and arms the retry.  A CONNACK that refuses is this step
\* too: mongoose reports MG_EV_MQTT_OPEN and closes in the same iteration, so
\* open_ is up and down again before any other code runs.
OnClose_KeepsOpen(c) ==
  /\ c \in live /\ live' = live \ {c}
  /\ out' = [out EXCEPT ![c] = <<>>] /\ session' = [session EXCEPT ![c] = {}]
  /\ conn_' = NoConn /\ due' = RetryDelay /\ rest' = 0 /\ ahead' = 0
  /\ UNCHANGED <<open_, reconnect_enabled_, subscriptions_, stats, setback>>

OnClose_SignSlip(c) ==
  /\ c \in live /\ live' = live \ {c}
  /\ out' = [out EXCEPT ![c] = <<>>] /\ session' = [session EXCEPT ![c] = {}]
  /\ conn_' = NoConn /\ open_' = FALSE /\ due' = -RetryDelay
  /\ rest' = 0 /\ ahead' = 0
  /\ UNCHANGED <<reconnect_enabled_, subscriptions_, stats, setback>>

OnClose_KeepsConn(c) ==
  /\ c \in live /\ live' = live \ {c}
  /\ out' = [out EXCEPT ![c] = <<>>] /\ session' = [session EXCEPT ![c] = {}]
  /\ open_' = FALSE /\ due' = RetryDelay /\ rest' = 0 /\ ahead' = 0
  /\ UNCHANGED <<conn_, reconnect_enabled_, subscriptions_, stats, setback>>

OnClose_BacksOffTwice(c) ==
  /\ c \in live /\ live' = live \ {c}
  /\ out' = [out EXCEPT ![c] = <<>>] /\ session' = [session EXCEPT ![c] = {}]
  /\ conn_' = NoConn /\ open_' = FALSE /\ rest' = 0 /\ ahead' = 0
  /\ due' = Max2(due, 0) + RetryDelay + 1
  /\ UNCHANGED <<reconnect_enabled_, subscriptions_, stats, setback>>

OnClose(c) ==
  /\ c \in live /\ live' = live \ {c}
  /\ out' = [out EXCEPT ![c] = <<>>] /\ session' = [session EXCEPT ![c] = {}]
  /\ IF c = conn_
       THEN /\ conn_' = NoConn /\ open_' = FALSE /\ due' = RetryDelay
            /\ rest' = 0 /\ ahead' = 0
       ELSE UNCHANGED <<conn_, open_, due, rest, ahead>>
  /\ UNCHANGED <<reconnect_enabled_, subscriptions_, stats, setback>>

\* The broker takes the next packet of c.
Transmit(c) ==
  /\ c \in live /\ out[c] # <<>>
  /\ out' = [out EXCEPT ![c] = Tail(@)]
  /\ LET p == Head(out[c]) IN
       IF p.kind = "publish"
         THEN arrived' = Append(arrived, p.number) /\ UNCHANGED session
         ELSE session' = [session EXCEPT ![c] = @ \cup {p.topic}] /\ UNCHANGED arrived
  /\ UNCHANGED <<client, live, accepted, clock>>

\* The wall clock advances with real time, is set back by d, or is stepped
\* forward by d: NTP, on a board that boots without a battery.
Tick ==
  /\ due' = Max2(due - 1, LongAgo) /\ rest' = Min2(rest + 1, RetryDelay)
  /\ UNCHANGED <<conn_, open_, reconnect_enabled_, subscriptions_, wire, stats,
                 ahead, setback>>

SetBack(d) ==
  /\ setback + d <= MaxSetback
  /\ setback' = setback + d /\ due' = due + d
  /\ UNCHANGED <<conn_, open_, reconnect_enabled_, subscriptions_, wire, stats,
                 rest, ahead>>

StepForward(d) ==
  /\ due' = Max2(due - d, LongAgo) /\ ahead' = Min2(ahead + d, RetryDelay)
  /\ UNCHANGED <<conn_, open_, reconnect_enabled_, subscriptions_, wire, stats,
                 rest, setback>>

Next ==
  \/ Connect \/ Poll \/ Publish \/ Tick
  \/ \E t \in Topic : Subscribe(t)
  \/ \E c \in Conn : OnOpen(c) \/ OnClose(c) \/ Transmit(c)
  \/ \E d \in 1..MaxSetback : SetBack(d)
  \/ \E d \in 1..MaxForward : StepForward(d)

Spec == Init /\ [][Next]_vars

(***************************************************************************)
(* Fairness.  The loop calls Poll and mg_mgr_poll for ever and time        *)
(* passes; mg_mqtt_connect does not fail for ever, nor does the broker     *)
(* refuse for ever, while attempts go on.  Nothing is assumed about how    *)
(* long a connection lasts, nor that the application calls anything.       *)
(***************************************************************************)
Fairness ==
  /\ WF_vars(Tick) /\ WF_vars(Poll) /\ SF_vars(Poll /\ conn_' # NoConn)
  /\ \A c \in Conn : SF_vars(OnOpen(c)) /\ WF_vars(Transmit(c))

FairSpec == Spec /\ Fairness
-----------------------------------------------------------------------------
\* Types of the variables.
TypeOK ==
  /\ conn_ \in Conn \cup {NoConn} /\ open_ \in BOOLEAN
  /\ reconnect_enabled_ \in BOOLEAN
  /\ due \in Int /\ due >= LongAgo
  /\ subscriptions_ \in Seq(Topic)
  /\ live \in SUBSET Conn /\ out \in [Conn -> Seq(Packet)]
  /\ session \in [Conn -> SUBSET Topic]
  /\ accepted \in 0..MaxPublish /\ arrived \in Seq(1..MaxPublish)
  /\ rest \in 0..RetryDelay /\ ahead \in 0..RetryDelay /\ setback \in 0..MaxSetback

\* The client always holds exactly the connection mongoose keeps for it: conn_
\* never dangles after MG_EV_CLOSE, a retry never leaks an older connection
\* whose late events would be taken for the new one's, and open_ is never left
\* up without a connection (Poll would then never dial again).
ConnectionOwned ==
  /\ live = {conn_} \ {NoConn}
  /\ open_ => conn_ # NoConn

\* On an open link every topic ever subscribed, before, during or after the
\* outage, is subscribed in the broker's session or on its way there.
SubscriptionsCarried ==
  open_ => \A t \in Elems(subscriptions_) :
             t \in session[conn_] \/ Sub(t) \in Elems(out[conn_])

\* Commands reach the broker in the order Publish accepted them, whatever
\* reconnections come between, and none twice: there is no retry that could
\* apply an old "on" after a newer "off".
CommandsInOrder ==
  /\ \A i, j \in DOMAIN arrived : i < j => arrived[i] < arrived[j]
  /\ \A c \in live : \A j \in DOMAIN out[c] : out[c][j].kind = "publish" =>
       /\ \A i \in DOMAIN arrived : arrived[i] < out[c][j].number
       /\ \A i \in 1..(j-1) : out[c][i].kind = "publish" =>
                                out[c][i].number < out[c][j].number

\* The link waits at most the 3 s of the code plus what the wall clock was set
\* back by; back-offs never add up.
WaitBounded == due <= RetryDelay + setback

\* After a close or a failed attempt Poll leaves the broker alone for 3 s, of
\* real time where the wall clock was not touched or set back meanwhile: it
\* tries earlier by no more than the clock was stepped forward since then.
NoEarlyRetry ==
  [][ reconnect_enabled_ /\ conn_ = NoConn
        /\ (conn_' # NoConn \/ rest' + ahead' < rest + ahead)
        => rest + ahead >= RetryDelay ]_vars

\* Once Connect was called the link is open again and again, however often it
\* is dropped.
LinkRecovers == reconnect_enabled_ ~> open_

\* On a link that stays open the broker ends up serving every topic.
TopicsServed ==
  \A t \in Topic : open_ /\ t \in Elems(subscriptions_)
                     ~> ~open_ \/ t \in session[conn_]

\* The link is the one that CommandLink promises to the code that publishes:
\* commands are taken only while it is open, leave in order and at most once, and
\* those under way are lost together when it closes, none of them turning up on a
\* later connection.
Pending == {n \in 1..accepted : conn_ # NoConn /\ Pub(n) \in Elems(out[conn_])}

Link == INSTANCE CommandLink WITH open <- open_, sent <- accepted,
                                  pending <- Pending, delivered <- arrived

ImplementsLink == Link!Spec
=============================================================================
