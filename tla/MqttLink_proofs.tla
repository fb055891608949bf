--------------------------- MODULE MqttLink_proofs ---------------------------
(***************************************************************************)
(* Proofs about MqttLink, for any sets of connections and topics and any   *)
(* value of the bounds.                                                    *)
(***************************************************************************)
EXTENDS MqttLink, SequenceTheorems, TLAPS

(***************************************************************************)
(* The strengthening of the safety invariants.                             *)
(*  - BuffersFresh: a connection mongoose has not handed out has neither   *)
(*    packets nor a session, so a reused address starts clean.             *)
(*  - WaitingOut: while the link is down, what is left of the deadline is  *)
(*    at least what is left of the 3 s, less what the wall clock was       *)
(*    stepped forward.                                                     *)
(***************************************************************************)
BuffersFresh == \A c \in Conn \ live : out[c] = <<>> /\ session[c] = {}

WaitingOut ==
  reconnect_enabled_ /\ conn_ = NoConn /\ rest + ahead < RetryDelay
     => due >= RetryDelay - (rest + ahead)

\* What the clocks do by themselves.
ClockStep == Tick \/ (\E d \in 1..MaxSetback : SetBack(d))
                  \/ (\E d \in 1..MaxForward : StepForward(d))

LinkInv == ConnectionOwned /\ BuffersFresh /\ WaitingOut /\ WaitBounded

USE DEF client, wire, stats, clock, vars

LEMMA PacketType ==
  /\ \A t \in Topic : Sub(t) \in Packet
  /\ \A n \in 1..MaxPublish : Pub(n) \in Packet
BY DEF Sub, Pub, Packet

LEMMA ResubscriptionsType ==
  ASSUME subscriptions_ \in Seq(Topic)
  PROVE  /\ Resubscriptions \in Seq(Packet)
         /\ Len(Resubscriptions) = Len(subscriptions_)
         /\ \A i \in 1..Len(subscriptions_) :
              Resubscriptions[i] = Sub(subscriptions_[i])
<1>1. DOMAIN subscriptions_ = 1..Len(subscriptions_) /\ Len(subscriptions_) \in Nat
  BY LenProperties
<1>2. \A i \in 1..Len(subscriptions_) : Sub(subscriptions_[i]) \in Packet
  BY PacketType, ElementOfSeq
<1>3. Resubscriptions \in [1..Len(subscriptions_) -> Packet]
  BY <1>1, <1>2 DEF Resubscriptions
<1>. QED
  BY <1>1, <1>3 DEF Resubscriptions

\* A step that replaces one buffer by a sequence of packets keeps their type.
LEMMA BufferType ==
  ASSUME out \in [Conn -> Seq(Packet)], NEW c \in Conn, NEW s \in Seq(Packet),
         out' = [out EXCEPT ![c] = s]
  PROVE  out' \in [Conn -> Seq(Packet)]
OBVIOUS

LEMMA SessionType ==
  ASSUME session \in [Conn -> SUBSET Topic], NEW c \in Conn, NEW S \in SUBSET Topic,
         session' = [session EXCEPT ![c] = S]
  PROVE  session' \in [Conn -> SUBSET Topic]
OBVIOUS

-----------------------------------------------------------------------------
LEMMA TypeInit == Init => TypeOK
<1>1. <<>> \in Seq(Packet) /\ <<>> \in Seq(Topic) /\ <<>> \in Seq(1..MaxPublish)
  BY EmptySeq
<1>2. ASSUME Init PROVE out \in [Conn -> Seq(Packet)] /\ session \in [Conn -> SUBSET Topic]
  <2>1. out \in [Conn -> Seq(Packet)]
    BY <1>1, <1>2 DEF Init
  <2>2. {} \in SUBSET Topic
    OBVIOUS
  <2>3. session \in [Conn -> SUBSET Topic]
    BY <1>2, <2>2, Zenon DEF Init
  <2>. QED
    BY <2>1, <2>3
<1>3. ASSUME Init
      PROVE  /\ due \in Int /\ due >= LongAgo
             /\ accepted \in 0..MaxPublish /\ rest \in 0..RetryDelay /\ ahead \in 0..RetryDelay
             /\ setback \in 0..MaxSetback
  BY <1>3, TimeAssumption, BoundAssumption DEF Init, LongAgo
<1>4. ASSUME Init
      PROVE  /\ conn_ \in Conn \cup {NoConn} /\ open_ \in BOOLEAN
             /\ reconnect_enabled_ \in BOOLEAN /\ live \in SUBSET Conn
             /\ subscriptions_ \in Seq(Topic) /\ arrived \in Seq(1..MaxPublish)
  BY <1>1, <1>4 DEF Init
<1>. QED
  BY <1>2, <1>3, <1>4 DEF TypeOK

LEMMA OwnedStep == TypeOK /\ ConnectionOwned /\ [Next]_vars => ConnectionOwned'
BY ConnAssumption DEF TypeOK, ConnectionOwned, Next, Connect, Poll, ConnectCall,
   DialOk, DialFailed, Publish, Tick, Subscribe, OnOpen, OnClose, Transmit, SetBack,
   StepForward

LEMMA TypeStep == TypeOK /\ ConnectionOwned /\ [Next]_vars => TypeOK'
<1> SUFFICES ASSUME TypeOK, ConnectionOwned, [Next]_vars PROVE TypeOK'
  OBVIOUS
<1> USE ConnAssumption, TimeAssumption, BoundAssumption DEF TypeOK, LongAgo
<1>1. ASSUME ConnectCall PROVE TypeOK'
  BY <1>1 DEF ConnectCall, DialOk, DialFailed
<1>2. CASE Connect
  BY <1>1, <1>2 DEF Connect
<1>3. CASE Poll
  BY <1>1, <1>3 DEF Poll
<1>4. CASE Publish
  <2>1. Pub(accepted + 1) \in Packet
    BY <1>4, PacketType DEF Publish
  <2>2. conn_ \in Conn
    BY <1>4 DEF Publish
  <2>3. out' \in [Conn -> Seq(Packet)]
    <3>1. Append(out[conn_], Pub(accepted + 1)) \in Seq(Packet)
      BY <2>1, <2>2, AppendProperties
    <3>. QED
      BY <1>4, <2>2, <3>1, BufferType DEF Publish
  <2>. QED
    BY <1>4, <2>3 DEF Publish
<1>5. CASE Tick
  BY <1>5 DEF Tick, Max2, Min2
<1>6. ASSUME NEW t \in Topic, Subscribe(t) PROVE TypeOK'
  <2>1. CASE conn_ # NoConn /\ open_
    <3>1. Append(out[conn_], Sub(t)) \in Seq(Packet)
      BY <2>1, PacketType, AppendProperties
    <3>2. out' \in [Conn -> Seq(Packet)]
      BY <1>6, <2>1, <3>1, BufferType DEF Subscribe
    <3>. QED
      BY <1>6, <3>2 DEF Subscribe
  <2>2. CASE ~(conn_ # NoConn /\ open_)
    BY <1>6, <2>2 DEF Subscribe
  <2>. QED
    BY <2>1, <2>2
<1>7. ASSUME NEW c \in Conn, OnOpen(c) PROVE TypeOK'
  <2>1. c = conn_ /\ c \in Conn
    BY <1>7 DEF OnOpen, ConnectionOwned
  <2>2. out[c] \o Resubscriptions \in Seq(Packet)
    BY <2>1, ResubscriptionsType, ConcatProperties
  <2>3. out' \in [Conn -> Seq(Packet)]
    BY <1>7, <2>1, <2>2, BufferType DEF OnOpen
  <2>. QED
    BY <1>7, <2>3 DEF OnOpen
<1>8. ASSUME NEW c \in Conn, OnClose(c) PROVE TypeOK'
  <2>1. out' \in [Conn -> Seq(Packet)]
    BY <1>8, EmptySeq, BufferType DEF OnClose
  <2>2. session' \in [Conn -> SUBSET Topic]
    BY <1>8, SessionType DEF OnClose
  <2>3. c = conn_
    BY <1>8 DEF OnClose, ConnectionOwned
  <2>4. conn_' = NoConn /\ open_' = FALSE /\ due' = RetryDelay /\ rest' = 0 /\ ahead' = 0
    BY <1>8, <2>3 DEF OnClose
  <2>5. /\ live' \in SUBSET Conn
        /\ UNCHANGED <<reconnect_enabled_, subscriptions_, accepted, arrived, setback>>
    BY <1>8 DEF OnClose
  <2>6. /\ due' \in Int /\ due' >= LongAgo
        /\ rest' \in 0..RetryDelay /\ ahead' \in 0..RetryDelay
    BY <2>4
  <2>. QED
    BY <2>1, <2>2, <2>4, <2>5, <2>6
<1>9. ASSUME NEW c \in Conn, Transmit(c) PROVE TypeOK'
  <2>1. /\ Head(out[c]) \in Packet
        /\ Tail(out[c]) \in Seq(Packet)
    BY <1>9, HeadTailProperties DEF Transmit
  <2>2. out' \in [Conn -> Seq(Packet)]
    BY <1>9, <2>1, BufferType DEF Transmit
  <2>3. arrived' \in Seq(1..MaxPublish) /\ session' \in [Conn -> SUBSET Topic]
    <3>1. CASE Head(out[c]).kind = "publish"
      <4>1. Head(out[c]).number \in 1..MaxPublish
        BY <2>1, <3>1 DEF Packet
      <4>. QED
        <5>1. Append(arrived, Head(out[c]).number) \in Seq(1..MaxPublish)
          BY <4>1, AppendProperties
        <5>. QED
          BY <1>9, <3>1, <5>1 DEF Transmit
    <3>2. CASE Head(out[c]).kind # "publish"
      <4>1. Head(out[c]).topic \in Topic
        BY <2>1, <3>2 DEF Packet
      <4>. QED
        <5>1. session[c] \cup {Head(out[c]).topic} \in SUBSET Topic
          BY <4>1
        <5>. QED
          BY <1>9, <3>2, <5>1, SessionType DEF Transmit
    <3>. QED
      BY <3>1, <3>2
  <2>. QED
    BY <1>9, <2>2, <2>3 DEF Transmit
<1>10. ASSUME NEW d \in 1..MaxSetback, SetBack(d) PROVE TypeOK'
  BY <1>10 DEF SetBack
<1>11. ASSUME NEW d \in 1..MaxForward, StepForward(d) PROVE TypeOK'
  BY <1>11 DEF StepForward, Max2, Min2
<1>12. CASE UNCHANGED vars
  BY <1>12
<1>. QED
  BY <1>2, <1>3, <1>4, <1>5, <1>6, <1>7, <1>8, <1>9, <1>10, <1>11, <1>12 DEF Next

-----------------------------------------------------------------------------
LEMMA FreshStep == TypeOK /\ ConnectionOwned /\ BuffersFresh /\ [Next]_vars => BuffersFresh'
<1> SUFFICES ASSUME TypeOK, ConnectionOwned, BuffersFresh, [Next]_vars PROVE BuffersFresh'
  OBVIOUS
<1> USE ConnAssumption DEF BuffersFresh
<1>1. ASSUME ConnectCall PROVE BuffersFresh'
  BY <1>1 DEF ConnectCall, DialOk, DialFailed
<1>2. CASE Connect \/ Poll
  BY <1>1, <1>2 DEF Connect, Poll
<1>3. CASE Publish
  BY <1>3 DEF Publish, ConnectionOwned, TypeOK
<1>4. ASSUME NEW t \in Topic, Subscribe(t) PROVE BuffersFresh'
  BY <1>4 DEF Subscribe, ConnectionOwned, TypeOK
<1>5. ASSUME NEW c \in Conn, OnOpen(c) PROVE BuffersFresh'
  BY <1>5 DEF OnOpen, ConnectionOwned, TypeOK
<1>6. ASSUME NEW c \in Conn, OnClose(c) PROVE BuffersFresh'
  BY <1>6 DEF OnClose, TypeOK
<1>7. ASSUME NEW c \in Conn, Transmit(c) PROVE BuffersFresh'
  BY <1>7 DEF Transmit, TypeOK
<1>8. CASE ClockStep \/ UNCHANGED vars
  BY <1>8 DEF ClockStep, Tick, SetBack, StepForward
<1>. QED
  BY <1>2, <1>3, <1>4, <1>5, <1>6, <1>7, <1>8 DEF Next, ClockStep

LEMMA WaitStep == TypeOK /\ ConnectionOwned /\ WaitingOut /\ WaitBounded /\ [Next]_vars
                    => WaitingOut' /\ WaitBounded'
<1> SUFFICES ASSUME TypeOK, ConnectionOwned, WaitingOut, WaitBounded, [Next]_vars
             PROVE  WaitingOut' /\ WaitBounded'
  OBVIOUS
<1> USE ConnAssumption, TimeAssumption DEF TypeOK, WaitingOut, WaitBounded, LongAgo
<1>1. ASSUME ConnectCall PROVE WaitingOut' /\ WaitBounded'
  <2>1. CASE conn_ # NoConn \/ open_
    BY <1>1, <2>1 DEF ConnectCall, ConnectionOwned
  <2>2. CASE DialOk
    BY <1>1, <2>2 DEF ConnectCall, DialOk
  <2>3. CASE DialFailed
    BY <1>1, <2>3 DEF ConnectCall, DialFailed
  <2>. QED
    BY <1>1, <2>1, <2>2, <2>3 DEF ConnectCall
<1>2. CASE Connect \/ Poll
  BY <1>1, <1>2 DEF Connect, Poll
<1>3. CASE Publish \/ \E t \in Topic : Subscribe(t)
  BY <1>3 DEF Publish, Subscribe
<1>4. CASE Tick
  BY <1>4 DEF Tick, Max2, Min2
<1>5. ASSUME NEW c \in Conn, OnOpen(c) \/ Transmit(c) PROVE WaitingOut' /\ WaitBounded'
  BY <1>5 DEF OnOpen, Transmit
<1>6. ASSUME NEW c \in Conn, OnClose(c) PROVE WaitingOut' /\ WaitBounded'
  BY <1>6 DEF OnClose
<1>7. ASSUME NEW d \in 1..MaxSetback, SetBack(d) PROVE WaitingOut' /\ WaitBounded'
  BY <1>7 DEF SetBack
<1>8. ASSUME NEW d \in 1..MaxForward, StepForward(d) PROVE WaitingOut' /\ WaitBounded'
  BY <1>8 DEF StepForward, Max2, Min2
<1>9. CASE UNCHANGED vars
  BY <1>9
<1>. QED
  BY <1>2, <1>3, <1>4, <1>5, <1>6, <1>7, <1>8, <1>9 DEF Next

\* What reaches the elements of a sequence when it grows or loses its head.
LEMMA ElemsAppend ==
  ASSUME NEW S, NEW s \in Seq(S), NEW e \in S
  PROVE  Elems(Append(s, e)) = Elems(s) \cup {e}
BY AppendProperties, LenProperties DEF Elems

LEMMA ElemsConcat ==
  ASSUME NEW S, NEW s \in Seq(S), NEW t \in Seq(S)
  PROVE  Elems(s) \subseteq Elems(s \o t) /\ Elems(t) \subseteq Elems(s \o t)
<1>1. /\ DOMAIN s = 1..Len(s) /\ DOMAIN t = 1..Len(t)
      /\ s \o t \in Seq(S) /\ Len(s \o t) = Len(s) + Len(t)
      /\ DOMAIN (s \o t) = 1..(Len(s) + Len(t))
      /\ Len(s) \in Nat /\ Len(t) \in Nat
  BY ConcatProperties, LenProperties
<1>2. ASSUME NEW i \in 1..Len(s) PROVE s[i] \in Elems(s \o t)
  BY <1>1, ConcatProperties DEF Elems
<1>3. ASSUME NEW i \in 1..Len(t) PROVE t[i] \in Elems(s \o t)
  <2>1. (s \o t)[Len(s) + i] = t[i]
    BY <1>1, ConcatProperties
  <2>. QED
    BY <1>1, <2>1 DEF Elems
<1>. QED
  BY <1>1, <1>2, <1>3 DEF Elems

LEMMA ElemsTail ==
  ASSUME NEW S, NEW s \in Seq(S), s # <<>>
  PROVE  Elems(s) = {Head(s)} \cup Elems(Tail(s))
<1>1. /\ DOMAIN s = 1..Len(s) /\ Len(s) \in Nat \ {0} /\ Head(s) = s[1]
      /\ DOMAIN Tail(s) = 1..(Len(s) - 1)
      /\ \A i \in 1..(Len(s) - 1) : Tail(s)[i] = s[i + 1]
  BY HeadTailProperties, LenProperties, EmptySeq
<1>2. ASSUME NEW i \in 1..Len(s) PROVE s[i] \in {Head(s)} \cup Elems(Tail(s))
  <2>1. CASE i = 1
    BY <1>1, <2>1
  <2>2. CASE i # 1
    <3>1. i - 1 \in 1..(Len(s) - 1) /\ Tail(s)[i - 1] = s[i]
      BY <1>1, <2>2
    <3>. QED
      BY <1>1, <3>1 DEF Elems
  <2>. QED
    BY <2>1, <2>2
<1>3. Elems(Tail(s)) \subseteq Elems(s)
  BY <1>1 DEF Elems
<1>. QED
  BY <1>1, <1>2, <1>3 DEF Elems

LEMMA CarriedStep ==
  TypeOK /\ ConnectionOwned /\ SubscriptionsCarried /\ [Next]_vars
    => SubscriptionsCarried'
<1> SUFFICES ASSUME TypeOK, ConnectionOwned, SubscriptionsCarried, [Next]_vars, open_',
                    NEW t \in Elems(subscriptions_')
             PROVE  t \in session'[conn_'] \/ Sub(t) \in Elems(out'[conn_'])
  BY DEF SubscriptionsCarried
<1> DEFINE Goal == t \in session'[conn_'] \/ Sub(t) \in Elems(out'[conn_'])
<1>1. ASSUME UNCHANGED <<conn_, subscriptions_, out, session>>, open_
      PROVE  Goal
  BY <1>1 DEF SubscriptionsCarried
<1>2. ASSUME ConnectCall PROVE Goal
  <2>1. open_ /\ conn_ # NoConn
    BY <1>2 DEF ConnectCall, ConnectionOwned
  <2>. QED
    BY <1>1, <1>2, <2>1 DEF ConnectCall
<1>3. CASE Connect \/ Poll
  BY <1>2, <1>3 DEF Connect, Poll
<1>4. CASE ClockStep \/ UNCHANGED vars
  BY <1>1, <1>4 DEF ClockStep, Tick, SetBack, StepForward
<1>5. CASE Publish
  <2>1. conn_ \in Conn /\ Pub(accepted + 1) \in Packet /\ out[conn_] \in Seq(Packet)
    BY <1>5, BoundAssumption, PacketType DEF Publish, TypeOK
  <2>2. out'[conn_] = Append(out[conn_], Pub(accepted + 1))
    BY <1>5, <2>1 DEF Publish, TypeOK
  <2>3. Elems(out[conn_]) \subseteq Elems(out'[conn_])
    BY <2>1, <2>2, ElemsAppend
  <2>. QED
    BY <1>5, <2>3 DEF Publish, SubscriptionsCarried
<1>6. ASSUME NEW u \in Topic, Subscribe(u) PROVE Goal
  <2>1. conn_ \in Conn /\ open_ /\ out[conn_] \in Seq(Packet) /\ Sub(u) \in Packet
    BY <1>6, PacketType DEF Subscribe, TypeOK, ConnectionOwned
  <2>2. conn_ # NoConn /\ out'[conn_] = Append(out[conn_], Sub(u))
    BY <1>6, <2>1, ConnAssumption DEF Subscribe, TypeOK
  <2>3. Elems(out'[conn_]) = Elems(out[conn_]) \cup {Sub(u)}
    BY <2>1, <2>2, ElemsAppend
  <2>4. t \in Elems(subscriptions_) \/ t = u
    BY <1>6, ElemsAppend DEF Subscribe, TypeOK
  <2>. QED
    BY <1>6, <2>1, <2>3, <2>4 DEF Subscribe, SubscriptionsCarried
<1>7. ASSUME NEW c \in Conn, OnOpen(c) PROVE Goal
  <2>1. c = conn_ /\ out[c] \in Seq(Packet) /\ subscriptions_ \in Seq(Topic)
    BY <1>7 DEF OnOpen, ConnectionOwned, TypeOK
  <2>2. out'[c] = out[c] \o Resubscriptions /\ conn_' = c
        /\ subscriptions_' = subscriptions_
    BY <1>7, <2>1 DEF OnOpen, TypeOK
  <2>3. Resubscriptions \in Seq(Packet)
    BY <2>1, ResubscriptionsType
  <2>4. PICK i \in 1..Len(subscriptions_) : t = subscriptions_[i]
    BY <2>1, <2>2, LenProperties DEF Elems
  <2>5. Resubscriptions[i] = Sub(t) /\ i \in DOMAIN Resubscriptions
    BY <2>1, <2>3, <2>4, ResubscriptionsType, LenProperties
  <2>6. Sub(t) \in Elems(Resubscriptions)
    BY <2>5 DEF Elems
  <2>. QED
    BY <2>1, <2>2, <2>3, <2>6, ElemsConcat
<1>8. ASSUME NEW c \in Conn, OnClose(c) PROVE Goal
  BY <1>8 DEF OnClose, ConnectionOwned
<1>9. ASSUME NEW c \in Conn, Transmit(c) PROVE Goal
  <2>1. c = conn_ /\ out[c] \in Seq(Packet) /\ out[c] # <<>> /\ open_
        /\ conn_' = c /\ subscriptions_' = subscriptions_
    BY <1>9 DEF Transmit, ConnectionOwned, TypeOK
  <2>2. out'[c] = Tail(out[c]) /\ session[c] \subseteq session'[c]
    BY <1>9, <2>1 DEF Transmit, TypeOK
  <2>3. Elems(out[c]) = {Head(out[c])} \cup Elems(Tail(out[c]))
    BY <2>1, ElemsTail
  <2>4. CASE t \in session[c] \/ Sub(t) \in Elems(Tail(out[c]))
    BY <2>1, <2>2, <2>4
  <2>5. CASE Sub(t) = Head(out[c])
    <3>1. Head(out[c]).kind = "subscribe" /\ Head(out[c]).topic = t
      BY <2>5 DEF Sub
    <3>. QED
      BY <1>9, <2>1, <3>1 DEF Transmit, TypeOK
  <2>6. t \in session[c] \/ Sub(t) \in Elems(out[c])
    BY <2>1 DEF SubscriptionsCarried
  <2>. QED
    BY <2>3, <2>4, <2>5, <2>6
<1>. QED
  BY <1>3, <1>4, <1>5, <1>6, <1>7, <1>8, <1>9 DEF Next, ClockStep

-----------------------------------------------------------------------------
IInv == TypeOK /\ LinkInv /\ SubscriptionsCarried

LEMMA InvInit == Init => IInv
<1> SUFFICES ASSUME Init PROVE IInv
  OBVIOUS
<1>1. TypeOK
  BY TypeInit
<1>2. ConnectionOwned /\ BuffersFresh /\ SubscriptionsCarried
  BY DEF Init, ConnectionOwned, BuffersFresh, SubscriptionsCarried
<1>3. WaitingOut /\ WaitBounded
  BY TimeAssumption DEF Init, WaitingOut, WaitBounded, LongAgo
<1>. QED
  BY <1>1, <1>2, <1>3 DEF IInv, LinkInv

LEMMA InvStep == IInv /\ [Next]_vars => IInv'
BY TypeStep, OwnedStep, FreshStep, WaitStep, CarriedStep DEF IInv, LinkInv

LEMMA InvHolds == Spec => []IInv
BY InvInit, InvStep, PTL DEF Spec

\* Every variable keeps its type: the buffers hold well-formed packets, the
\* clocks stay within their bounds.
THEOREM TypeCorrect == Spec => []TypeOK
BY InvHolds, PTL DEF IInv

\* conn_ is exactly the connection mongoose keeps (MqttClient::Connect and the
\* MG_EV_CLOSE branch of OnMongooseEvent), and open_ implies that there is one.
THEOREM ClientOwnsItsConnection == Spec => []ConnectionOwned
BY InvHolds, PTL DEF IInv, LinkInv

\* No topic is forgotten by a reconnection (subscriptions_ and the loop over it
\* in OnMongooseEvent).
THEOREM SubscriptionsSurvive == Spec => []SubscriptionsCarried
BY InvHolds, PTL DEF IInv

\* The wait of Poll is bounded by 3 s and the setbacks of the clock.
THEOREM BackoffIsBounded == Spec => []WaitBounded
BY InvHolds, PTL DEF IInv, LinkInv

\* Poll never dials before 3 s have passed since the last close or failed attempt,
\* counted in real time and what the wall clock was stepped forward.
THEOREM BackoffIsHonoured == Spec => NoEarlyRetry
<1> DEFINE A == reconnect_enabled_ /\ conn_ = NoConn
                  /\ (conn_' # NoConn \/ rest' + ahead' < rest + ahead)
                  => rest + ahead >= RetryDelay
<1>1. ASSUME IInv, [Next]_vars, reconnect_enabled_, conn_ = NoConn,
             conn_' # NoConn \/ rest' + ahead' < rest + ahead
      PROVE  rest + ahead >= RetryDelay
  <2>1. /\ rest \in Int /\ ahead \in Int /\ RetryDelay \in Int /\ due \in Int
        /\ rest <= RetryDelay /\ ahead <= RetryDelay
    BY <1>1, TimeAssumption DEF IInv, TypeOK
  <2>2. live = {} /\ ~open_ /\ conn_ \notin live
    BY <1>1 DEF IInv, LinkInv, ConnectionOwned
  <2>3. CASE Poll
    BY <1>1, <2>1, <2>3 DEF Poll, IInv, LinkInv, WaitingOut
  <2>4. ~Connect
    BY <1>1 DEF Connect
  <2>5. ASSUME NEW c \in Conn PROVE ~OnOpen(c) /\ ~OnClose(c) /\ ~Transmit(c)
    BY <2>2 DEF OnOpen, OnClose, Transmit
  <2>6. ~Publish
    BY <1>1 DEF Publish
  <2>7. ClockStep => conn_' = conn_ /\ rest' + ahead' >= rest + ahead
    BY <2>1 DEF ClockStep, Tick, SetBack, StepForward, Min2
  <2>8. (\E t \in Topic : Subscribe(t)) \/ UNCHANGED vars
          => conn_' = conn_ /\ rest' + ahead' >= rest + ahead
    BY <2>1 DEF Subscribe
  <2>9. ~(conn_' = conn_ /\ rest' + ahead' >= rest + ahead)
    <3>1. rest' \in Int /\ ahead' \in Int
      <4>1. TypeOK'
        BY <1>1, TypeStep DEF IInv, LinkInv
      <4>. QED
        BY <4>1, TimeAssumption DEF TypeOK
    <3>2. \A a, b \in Int : ~ (a < b /\ a >= b)
      OBVIOUS
    <3>3. rest + ahead \in Int /\ rest' + ahead' \in Int
      BY <2>1, <3>1
    <3>. QED
      BY <1>1, <3>2, <3>3
  <2>. QED
    BY <1>1, <2>3, <2>4, <2>5, <2>6, <2>7, <2>8, <2>9 DEF Next, ClockStep
<1>2. IInv /\ [Next]_vars => [A]_vars
  BY <1>1
<1>. QED
  BY <1>2, InvHolds, PTL DEF Spec, NoEarlyRetry
-----------------------------------------------------------------------------
(***************************************************************************)
(* The order of commands, and that the link is the one of CommandLink.     *)
(* CommandsInOrder is not inductive: it needs that a command under way has *)
(* a number given out already, so that the next one is later than all      *)
(* (Numbered), and that nothing is sent before the link is open, so that   *)
(* the subscriptions made on opening come first (Quiet).                   *)
(***************************************************************************)
Increasing(a) == \A i, j \in DOMAIN a : i < j => a[i] < a[j]

\* The commands in buffer s are in order and later than those that arrived.
Ordered(a, s) ==
  \A j \in DOMAIN s : s[j].kind = "publish" =>
    /\ \A i \in DOMAIN a : a[i] < s[j].number
    /\ \A i \in 1..(j-1) : s[i].kind = "publish" => s[i].number < s[j].number

Numbered ==
  /\ \A i \in DOMAIN arrived : arrived[i] <= accepted
  /\ \A c \in live : \A i \in DOMAIN out[c] :
       out[c][i].kind = "publish" => out[c][i].number <= accepted

Quiet == ~open_ => \A c \in live : out[c] = <<>>

OInv == CommandsInOrder /\ Numbered /\ Quiet

LEMMA OrderMeans ==
  CommandsInOrder <=> Increasing(arrived) /\ \A c \in live : Ordered(arrived, out[c])
BY DEF CommandsInOrder, Increasing, Ordered

LEMMA PacketNumber ==
  ASSUME NEW p \in Packet
  PROVE  /\ p.kind = "publish" => p.number \in Nat /\ p = Pub(p.number)
         /\ p.kind \in {"publish", "subscribe"}
<1>1. CASE p \in [kind : {"subscribe"}, topic : Topic]
  BY <1>1
<1>2. CASE p \in [kind : {"publish"}, number : 1..MaxPublish]
  <2>1. p.kind = "publish" /\ p.number \in Nat
    BY <1>2, BoundAssumption
  <2>2. p = [kind |-> "publish", number |-> p.number]
    BY <1>2
  <2>. QED
    BY <2>1, <2>2 DEF Pub
<1>. QED
  BY <1>1, <1>2 DEF Packet

LEMMA OrderedAppend ==
  ASSUME NEW a, NEW s \in Seq(Packet), NEW p \in Packet, Ordered(a, s),
         p.kind = "publish" =>
           /\ \A i \in DOMAIN a : a[i] < p.number
           /\ \A i \in DOMAIN s : s[i].kind = "publish" => s[i].number < p.number
  PROVE  Ordered(a, Append(s, p))
<1>1. /\ Len(s) \in Nat /\ DOMAIN s = 1..Len(s) /\ DOMAIN Append(s, p) = 1..(Len(s) + 1)
      /\ Append(s, p)[Len(s) + 1] = p
      /\ \A i \in 1..Len(s) : Append(s, p)[i] = s[i]
  BY AppendProperties, LenProperties
<1>2. ASSUME NEW j \in 1..Len(s), s[j].kind = "publish"
      PROVE  /\ \A i \in DOMAIN a : a[i] < s[j].number
             /\ \A i \in 1..(j-1) : Append(s, p)[i].kind = "publish" =>
                                      Append(s, p)[i].number < s[j].number
  BY <1>1, <1>2 DEF Ordered
<1>3. ASSUME p.kind = "publish"
      PROVE  /\ \A i \in DOMAIN a : a[i] < p.number
             /\ \A i \in 1..Len(s) : Append(s, p)[i].kind = "publish" =>
                                       Append(s, p)[i].number < p.number
  BY <1>1, <1>3
<1>4. ASSUME NEW j \in DOMAIN Append(s, p), Append(s, p)[j].kind = "publish"
      PROVE  /\ \A i \in DOMAIN a : a[i] < Append(s, p)[j].number
             /\ \A i \in 1..(j-1) : Append(s, p)[i].kind = "publish" =>
                                      Append(s, p)[i].number < Append(s, p)[j].number
  <2>1. CASE j \in 1..Len(s)
    BY <1>1, <1>2, <1>4, <2>1
  <2>2. CASE j = Len(s) + 1
    <3>1. j - 1 = Len(s) /\ Append(s, p)[j] = p
      BY <1>1, <2>2
    <3>. QED
      BY <1>3, <1>4, <3>1
  <2>. QED
    BY <1>1, <2>1, <2>2
<1>. QED
  BY <1>4 DEF Ordered

\* The head leaves for a, if it is a command.
LEMMA OrderedTail ==
  ASSUME NEW a \in Seq(1..MaxPublish), NEW s \in Seq(Packet), s # <<>>, Ordered(a, s)
  PROVE  /\ Ordered(a, Tail(s))
         /\ Head(s).kind = "publish" => Ordered(Append(a, Head(s).number), Tail(s))
<1>1. /\ Len(s) \in Nat \ {0} /\ DOMAIN s = 1..Len(s) /\ Head(s) = s[1]
      /\ DOMAIN Tail(s) = 1..(Len(s) - 1)
      /\ \A i \in 1..(Len(s) - 1) : Tail(s)[i] = s[i + 1]
  BY HeadTailProperties, LenProperties, EmptySeq
<1>2. ASSUME NEW j \in 1..(Len(s) - 1), Tail(s)[j].kind = "publish"
      PROVE  /\ \A i \in DOMAIN a : a[i] < Tail(s)[j].number
             /\ \A i \in 1..(j-1) : Tail(s)[i].kind = "publish" =>
                                      Tail(s)[i].number < Tail(s)[j].number
             /\ Head(s).kind = "publish" => Head(s).number < Tail(s)[j].number
  <2>1. j + 1 \in 1..Len(s) /\ Tail(s)[j] = s[j + 1]
    BY <1>1
  <2>2. ASSUME NEW i \in 1..(j-1)
        PROVE  i + 1 \in 1..((j + 1) - 1) /\ Tail(s)[i] = s[i + 1]
    BY <1>1
  <2>3. 1 \in 1..((j + 1) - 1)
    OBVIOUS
  <2>. QED
    BY <1>1, <1>2, <2>1, <2>2, <2>3 DEF Ordered
<1>3. ASSUME Head(s).kind = "publish"
      PROVE  Ordered(Append(a, Head(s).number), Tail(s))
  <2>1. Head(s).number \in 1..MaxPublish
    <3>1. Head(s) \in Packet
      BY HeadTailProperties
    <3>. QED
      BY <1>3, <3>1 DEF Packet
  <2>2. /\ Len(a) \in Nat /\ DOMAIN a = 1..Len(a)
        /\ DOMAIN Append(a, Head(s).number) = 1..(Len(a) + 1)
        /\ Append(a, Head(s).number)[Len(a) + 1] = Head(s).number
        /\ \A i \in 1..Len(a) : Append(a, Head(s).number)[i] = a[i]
    BY <2>1, AppendProperties, LenProperties
  <2>3. ASSUME NEW j \in 1..(Len(s) - 1), Tail(s)[j].kind = "publish",
               NEW i \in DOMAIN Append(a, Head(s).number)
        PROVE  Append(a, Head(s).number)[i] < Tail(s)[j].number
    <3>1. CASE i \in 1..Len(a)
      BY <1>2, <2>2, <2>3, <3>1
    <3>2. CASE i = Len(a) + 1
      BY <1>2, <1>3, <2>2, <2>3, <3>2
    <3>. QED
      BY <2>2, <3>1, <3>2
  <2>. QED
    BY <1>1, <1>2, <2>3 DEF Ordered
<1>. QED
  BY <1>1, <1>2, <1>3 DEF Ordered

-----------------------------------------------------------------------------
\* Facts about the live connection that most steps need.
LEMMA BufferFacts ==
  ASSUME IInv, OInv, NEW c \in live
  PROVE  /\ c = conn_ /\ c \in Conn /\ live = {c} /\ c # NoConn
         /\ out[c] \in Seq(Packet) /\ DOMAIN out[c] = 1..Len(out[c])
         /\ Ordered(arrived, out[c])
BY LenProperties, OrderMeans, ConnAssumption
   DEF IInv, LinkInv, TypeOK, ConnectionOwned, OInv

LEMMA OrderInit == Init => OInv
BY DEF Init, OInv, CommandsInOrder, Numbered, Quiet

\* A command taken is later than all before it.
LEMMA PublishStep == ASSUME IInv, OInv, Publish PROVE OInv'
<1> DEFINE p == Pub(accepted + 1)
<1>1. conn_ \in live /\ accepted \in Nat /\ accepted + 1 \in 1..MaxPublish
  BY BoundAssumption DEF IInv, LinkInv, ConnectionOwned, TypeOK, Publish
<1>2. p \in Packet /\ p.kind = "publish" /\ p.number = accepted + 1
  BY <1>1, PacketType DEF Pub
<1>3. /\ UNCHANGED <<arrived, live, conn_, open_>> /\ accepted' = accepted + 1 /\ open_
      /\ out' = [out EXCEPT ![conn_] = Append(@, p)]
  BY DEF Publish
<1>4. out'[conn_] = Append(out[conn_], p)
  BY <1>1, <1>3 DEF IInv, TypeOK
<1>5. \A i \in DOMAIN arrived : arrived[i] \in Nat /\ arrived[i] <= accepted
  <2>1. arrived \in Seq(1..MaxPublish) /\ DOMAIN arrived = 1..Len(arrived)
    BY LenProperties DEF IInv, TypeOK
  <2>2. \A i \in DOMAIN arrived : arrived[i] \in 1..MaxPublish
    BY <2>1, ElementOfSeq
  <2>. QED
    BY <2>2 DEF OInv, Numbered
<1>6. \A i \in DOMAIN out[conn_] : out[conn_][i].kind = "publish" =>
        out[conn_][i].number \in Nat /\ out[conn_][i].number <= accepted
  <2>1. out[conn_] \in Seq(Packet) /\ DOMAIN out[conn_] = 1..Len(out[conn_])
    BY <1>1, BufferFacts
  <2>2. \A i \in DOMAIN out[conn_] : out[conn_][i] \in Packet
    BY <2>1, ElementOfSeq
  <2>. QED
    BY <1>1, <2>2, PacketNumber DEF OInv, Numbered
<1>7. Ordered(arrived, out'[conn_])
  <2>1. \A i \in DOMAIN arrived : arrived[i] < accepted + 1
    BY <1>1, <1>5
  <2>2. \A i \in DOMAIN out[conn_] : out[conn_][i].kind = "publish" =>
          out[conn_][i].number < accepted + 1
    BY <1>1, <1>6
  <2>. QED
    BY <1>1, <1>2, <1>4, <2>1, <2>2, BufferFacts, OrderedAppend
<1>8. CommandsInOrder'
  <2>1. \A c \in live : c = conn_
    BY <1>1, BufferFacts
  <2>2. Increasing(arrived)
    BY OrderMeans DEF OInv
  <2>. QED
    BY <1>3, <1>7, <2>1, <2>2 DEF CommandsInOrder, Increasing, Ordered
<1>9. Numbered'
  <2>1. \A i \in DOMAIN arrived : arrived[i] <= accepted + 1
    BY <1>1, <1>5
  <2>2. /\ DOMAIN out'[conn_] = 1..(Len(out[conn_]) + 1)
        /\ DOMAIN out[conn_] = 1..Len(out[conn_]) /\ Len(out[conn_]) \in Nat
        /\ out'[conn_][Len(out[conn_]) + 1] = p
        /\ \A i \in 1..Len(out[conn_]) : out'[conn_][i] = out[conn_][i]
    BY <1>1, <1>2, <1>4, BufferFacts, AppendProperties, LenProperties
  <2>3. ASSUME NEW i \in DOMAIN out'[conn_], out'[conn_][i].kind = "publish"
        PROVE  out'[conn_][i].number <= accepted + 1
    <3>1. CASE i = Len(out[conn_]) + 1
      BY <1>1, <1>2, <2>2, <3>1
    <3>2. CASE i \in 1..Len(out[conn_])
      BY <1>1, <1>6, <2>2, <2>3, <3>2
    <3>. QED
      BY <2>2, <3>1, <3>2
  <2>4. \A c \in live : c = conn_
    BY <1>1, BufferFacts
  <2>. QED
    BY <1>3, <2>1, <2>3, <2>4 DEF Numbered
<1>. QED
  BY <1>3, <1>8, <1>9 DEF OInv, Quiet

\* A topic added to the buffer disturbs no command.
LEMMA SubscribeStep == ASSUME IInv, OInv, NEW t \in Topic, Subscribe(t) PROVE OInv'
<1>1. UNCHANGED <<arrived, accepted, live, conn_, open_>>
  BY DEF Subscribe
<1>2. CASE conn_ # NoConn /\ open_
  <2>1. conn_ \in live /\ Sub(t) \in Packet /\ Sub(t).kind # "publish"
    BY <1>2, PacketType DEF IInv, LinkInv, ConnectionOwned, Sub
  <2>2. out'[conn_] = Append(out[conn_], Sub(t))
    BY <1>2, <2>1 DEF Subscribe, IInv, TypeOK
  <2>3. Ordered(arrived, out'[conn_])
    BY <2>1, <2>2, BufferFacts, OrderedAppend
  <2>4. /\ DOMAIN out'[conn_] = 1..(Len(out[conn_]) + 1)
        /\ DOMAIN out[conn_] = 1..Len(out[conn_]) /\ Len(out[conn_]) \in Nat
        /\ out'[conn_][Len(out[conn_]) + 1] = Sub(t)
        /\ \A i \in 1..Len(out[conn_]) : out'[conn_][i] = out[conn_][i]
    BY <2>1, <2>2, BufferFacts, AppendProperties, LenProperties
  <2>5. \A i \in DOMAIN out'[conn_] : out'[conn_][i].kind = "publish" =>
          out'[conn_][i].number <= accepted
    BY <2>1, <2>4 DEF OInv, Numbered
  <2>6. \A c \in live : c = conn_
    BY <2>1, BufferFacts
  <2>. QED
    BY <1>1, <1>2, <2>3, <2>5, <2>6, OrderMeans
    DEF OInv, CommandsInOrder, Increasing, Ordered, Numbered, Quiet
<1>3. CASE ~(conn_ # NoConn /\ open_)
  BY <1>1, <1>3 DEF Subscribe, OInv, CommandsInOrder, Numbered, Quiet
<1>. QED
  BY <1>2, <1>3

\* A new connection starts with an empty buffer; opening puts subscriptions
\* into it and nothing else; closing leaves no buffer.
LEMMA DialStep == ASSUME IInv, OInv, ConnectCall PROVE OInv'
<1>1. UNCHANGED <<arrived, accepted, out, open_>>
  BY DEF ConnectCall, DialOk, DialFailed
<1>2. CASE UNCHANGED live
  BY <1>1, <1>2 DEF OInv, CommandsInOrder, Numbered, Quiet
<1>3. ASSUME NEW c \in Conn \ live, live' = live \cup {c} PROVE OInv'
  <2>1. out[c] = <<>>
    BY DEF IInv, LinkInv, BuffersFresh
  <2>. QED
    BY <1>1, <1>3, <2>1 DEF OInv, CommandsInOrder, Numbered, Quiet
<1>. QED
  BY <1>2, <1>3 DEF ConnectCall, DialOk, DialFailed

LEMMA OpenStep == ASSUME IInv, OInv, NEW c \in Conn, OnOpen(c) PROVE OInv'
<1>1. c \in live /\ ~open_ /\ open_' /\ UNCHANGED <<arrived, accepted, live>>
  BY DEF OnOpen
<1>2. out[c] = <<>> /\ c = conn_ /\ live = {c}
  BY <1>1, BufferFacts DEF OInv, Quiet
<1>3. out'[c] = <<>> \o Resubscriptions /\ Resubscriptions \in Seq(Packet)
  BY <1>1, <1>2, ResubscriptionsType DEF OnOpen, IInv, TypeOK
<1>4. out'[c] = Resubscriptions
  BY <1>3
<1>5. \A i \in DOMAIN Resubscriptions : Resubscriptions[i].kind # "publish"
  BY DEF Resubscriptions, Sub
<1>. QED
  BY <1>1, <1>2, <1>4, <1>5 DEF OInv, CommandsInOrder, Numbered, Quiet

LEMMA CloseStep == ASSUME IInv, OInv, NEW c \in Conn, OnClose(c) PROVE OInv'
<1>1. c \in live /\ live' = live \ {c} /\ UNCHANGED <<arrived, accepted>>
  BY DEF OnClose
<1>2. live' = {}
  BY <1>1, BufferFacts
<1>. QED
  BY <1>1, <1>2 DEF OInv, CommandsInOrder, Numbered, Quiet

\* The head of the buffer arrives, and is earlier than what is left.
LEMMA TransmitStep == ASSUME IInv, OInv, NEW c \in Conn, Transmit(c) PROVE OInv'
<1> DEFINE p == Head(out[c])
<1>1. /\ c \in live /\ out[c] # <<>> /\ out'[c] = Tail(out[c])
      /\ UNCHANGED <<live, accepted, open_>>
  BY DEF Transmit, IInv, TypeOK
<1>2. live = {c} /\ out[c] \in Seq(Packet) /\ Ordered(arrived, out[c])
      /\ arrived \in Seq(1..MaxPublish)
  BY <1>1, BufferFacts DEF IInv, TypeOK
<1>3. /\ Len(out[c]) \in Nat \ {0} /\ DOMAIN out[c] = 1..Len(out[c]) /\ p = out[c][1]
      /\ DOMAIN Tail(out[c]) = 1..(Len(out[c]) - 1)
      /\ \A i \in 1..(Len(out[c]) - 1) : Tail(out[c])[i] = out[c][i + 1]
  BY <1>1, <1>2, HeadTailProperties, LenProperties, EmptySeq
<1>4. \A i \in DOMAIN out'[c] : out'[c][i].kind = "publish" => out'[c][i].number <= accepted
  <2>1. ASSUME NEW i \in 1..(Len(out[c]) - 1)
        PROVE  i + 1 \in DOMAIN out[c] /\ out'[c][i] = out[c][i + 1]
    BY <1>1, <1>3
  <2>. QED
    BY <1>1, <1>3, <2>1 DEF OInv, Numbered
<1>5. Quiet'
  BY <1>1 DEF OInv, Quiet
<1>6. CASE p.kind # "publish"
  <2>1. arrived' = arrived
    BY <1>6 DEF Transmit
  <2>2. Ordered(arrived, out'[c])
    BY <1>1, <1>2, OrderedTail
  <2>. QED
    BY <1>1, <1>2, <1>4, <1>5, <2>1, <2>2, OrderMeans
    DEF OInv, CommandsInOrder, Increasing, Ordered, Numbered
<1>7. CASE p.kind = "publish"
  <2>1. arrived' = Append(arrived, p.number) /\ p.number \in 1..MaxPublish
    <3>1. p \in Packet
      BY <1>1, <1>2, HeadTailProperties
    <3>. QED
      BY <1>7, <3>1 DEF Transmit, Packet
  <2>2. Ordered(arrived', out'[c])
    BY <1>1, <1>2, <1>7, <2>1, OrderedTail
  <2>3. /\ DOMAIN arrived' = 1..(Len(arrived) + 1) /\ DOMAIN arrived = 1..Len(arrived)
        /\ Len(arrived) \in Nat /\ arrived'[Len(arrived) + 1] = p.number
        /\ \A i \in 1..Len(arrived) : arrived'[i] = arrived[i]
    BY <1>2, <2>1, AppendProperties, LenProperties
  <2>4. \A i \in DOMAIN arrived : arrived[i] < p.number
    BY <1>2, <1>3, <1>7 DEF Ordered
  <2>5. Increasing(arrived')
    BY <2>3, <2>4, OrderMeans DEF OInv, Increasing
  <2>6. \A i \in DOMAIN arrived' : arrived'[i] <= accepted
    <3>1. p.number <= accepted
      BY <1>1, <1>3, <1>7 DEF OInv, Numbered
    <3>. QED
      BY <2>3, <3>1 DEF OInv, Numbered
  <2>. QED
    BY <1>1, <1>2, <1>4, <1>5, <2>2, <2>5, <2>6
    DEF OInv, CommandsInOrder, Increasing, Ordered, Numbered
<1>. QED
  BY <1>6, <1>7

LEMMA OrderStep == IInv /\ OInv /\ [Next]_vars => OInv'
<1>1. ASSUME IInv, OInv, UNCHANGED <<live, out, arrived, accepted, open_>> PROVE OInv'
  BY <1>1 DEF OInv, CommandsInOrder, Numbered, Quiet
<1>2. ASSUME IInv, OInv, ClockStep \/ UNCHANGED vars
      PROVE  OInv'
  BY <1>1, <1>2 DEF ClockStep, Tick, SetBack, StepForward
<1>. QED
  BY <1>2, DialStep, PublishStep, SubscribeStep, OpenStep, CloseStep, TransmitStep
  DEF Next, ClockStep, Connect, Poll

LEMMA OrderHolds == Spec => [](IInv /\ OInv)
BY InvInit, InvStep, OrderInit, OrderStep, PTL DEF Spec

\* Commands reach the broker in the order Publish took them and none twice, over
\* any number of reconnections.
THEOREM OrderIsKept == Spec => []CommandsInOrder
<1>1. OInv => CommandsInOrder
  BY DEF OInv
<1>. QED
  BY <1>1, OrderHolds, PTL

-----------------------------------------------------------------------------
(***************************************************************************)
(* The refinement.  Pending are the commands in the live connection's      *)
(* buffer; each step of MqttLink is one of CommandLink or leaves Pending,  *)
(* open_, accepted and arrived as they are.                                *)
(***************************************************************************)
LinkStep == [Link!Next]_(Link!linkVars)

LEMMA Stutter ==
  ASSUME UNCHANGED <<open_, accepted, arrived>>, Pending' = Pending
  PROVE  LinkStep
BY DEF LinkStep, Link!linkVars

LEMMA PubIs == \A n : Pub(n).kind = "publish" /\ Pub(n).number = n
BY DEF Pub

LEMMA DialMaps == ASSUME IInv, ConnectCall PROVE LinkStep
<1>1. UNCHANGED <<open_, accepted, arrived, out>>
  BY DEF ConnectCall, DialOk, DialFailed
<1>2. CASE UNCHANGED conn_
  BY <1>1, <1>2, Stutter DEF Pending
<1>3. ASSUME NEW c \in Conn \ live, conn_ = NoConn, conn_' = c PROVE LinkStep
  <2>1. out[c] = <<>>
    BY DEF IInv, LinkInv, BuffersFresh
  <2>2. Elems(out'[c]) = {}
    BY <1>1, <2>1 DEF Elems
  <2>. QED
    BY <1>1, <1>3, <2>2, Stutter DEF Pending
<1>. QED
  BY <1>2, <1>3 DEF ConnectCall, DialOk, DialFailed

LEMMA PublishMaps == ASSUME IInv, OInv, Publish PROVE LinkStep
<1>1. conn_ \in live /\ conn_ # NoConn /\ accepted \in Nat /\ accepted + 1 \in 1..MaxPublish
  BY BoundAssumption DEF IInv, LinkInv, ConnectionOwned, TypeOK, Publish
<1>2. UNCHANGED <<arrived, conn_, open_>> /\ accepted' = accepted + 1 /\ open_
      /\ out'[conn_] = Append(out[conn_], Pub(accepted + 1))
  BY <1>1 DEF Publish, IInv, TypeOK
<1>3. Elems(out'[conn_]) = Elems(out[conn_]) \cup {Pub(accepted + 1)}
  BY <1>1, <1>2, BufferFacts, PacketType, ElemsAppend
<1>4. \A n : Pub(n) = Pub(accepted + 1) => n = accepted + 1
  BY PubIs
<1>5. Pending' = Pending \cup {accepted + 1}
  <2>1. Pub(accepted + 1) \in Elems(out'[conn_]) /\ accepted + 1 \in 1..(accepted + 1)
    BY <1>1, <1>3
  <2>2. ASSUME NEW n \in 1..accepted
        PROVE  n \in 1..(accepted + 1) /\ (Pub(n) \in Elems(out'[conn_])
                                            <=> Pub(n) \in Elems(out[conn_]))
    BY <1>1, <1>3, <1>4
  <2>3. \A n \in 1..(accepted + 1) : n \in 1..accepted \/ n = accepted + 1
    BY <1>1
  <2>. QED
    BY <1>1, <1>2, <2>1, <2>2, <2>3 DEF Pending
<1>. QED
  BY <1>2, <1>5 DEF LinkStep, Link!Next, Link!Send

LEMMA SubscribeMaps == ASSUME IInv, OInv, NEW t \in Topic, Subscribe(t) PROVE LinkStep
<1>1. UNCHANGED <<open_, accepted, arrived, conn_>>
  BY DEF Subscribe
<1>2. CASE conn_ # NoConn /\ open_
  <2>1. conn_ \in live /\ out'[conn_] = Append(out[conn_], Sub(t))
    BY <1>2 DEF Subscribe, IInv, LinkInv, ConnectionOwned, TypeOK
  <2>2. Elems(out'[conn_]) = Elems(out[conn_]) \cup {Sub(t)}
    BY <2>1, BufferFacts, PacketType, ElemsAppend
  <2>3. \A n : Pub(n) # Sub(t)
    <3>1. Sub(t).kind = "subscribe"
      BY DEF Sub
    <3>. QED
      BY <3>1, PubIs
  <2>. QED
    BY <1>1, <2>2, <2>3, Stutter DEF Pending
<1>3. CASE ~(conn_ # NoConn /\ open_)
  BY <1>1, <1>3, Stutter DEF Subscribe, Pending
<1>. QED
  BY <1>2, <1>3

LEMMA OpenMaps == ASSUME IInv, OInv, NEW c \in Conn, OnOpen(c) PROVE LinkStep
<1>1. c \in live /\ ~open_ /\ open_' = TRUE /\ UNCHANGED <<arrived, accepted, conn_>>
  BY DEF OnOpen
<1>2. out[c] = <<>> /\ c = conn_
  BY <1>1, BufferFacts DEF OInv, Quiet
<1>3. out'[c] = Resubscriptions
  <2>1. out'[c] = <<>> \o Resubscriptions /\ Resubscriptions \in Seq(Packet)
    BY <1>1, <1>2, ResubscriptionsType DEF OnOpen, IInv, TypeOK
  <2>. QED
    BY <2>1
<1>4. \A n : Pub(n) \notin Elems(out'[c])
  <2>1. \A i \in DOMAIN Resubscriptions : Resubscriptions[i].kind = "subscribe"
    BY DEF Resubscriptions, Sub
  <2>. QED
    BY <1>3, <2>1, PubIs DEF Elems
<1>5. Elems(out[c]) = {}
  BY <1>2 DEF Elems
<1>6. Pending' = Pending
  BY <1>1, <1>2, <1>4, <1>5 DEF Pending
<1>. QED
  BY <1>1, <1>6 DEF LinkStep, Link!Next, Link!Open

LEMMA CloseMaps == ASSUME IInv, OInv, NEW c \in Conn, OnClose(c) PROVE LinkStep
<1>1. c \in live /\ c = conn_
  BY BufferFacts DEF OnClose
<1>2. conn_' = NoConn /\ open_' = FALSE /\ UNCHANGED <<arrived, accepted>>
  BY <1>1 DEF OnClose
<1>3. Pending' = {}
  BY <1>2 DEF Pending
<1>4. CASE open_
  BY <1>2, <1>3, <1>4 DEF LinkStep, Link!Next, Link!Close
<1>5. CASE ~open_
  <2>1. Elems(out[c]) = {}
    BY <1>1, <1>5 DEF OInv, Quiet, Elems
  <2>2. Pending = {}
    BY <1>1, <2>1 DEF Pending
  <2>3. open_ = FALSE
    BY <1>5 DEF IInv, TypeOK
  <2>. QED
    BY <1>2, <1>3, <2>2, <2>3, Stutter
<1>. QED
  BY <1>4, <1>5

LEMMA TransmitMaps == ASSUME IInv, OInv, NEW c \in Conn, Transmit(c) PROVE LinkStep
<1> DEFINE p == Head(out[c])
<1>1. /\ c \in live /\ out[c] # <<>> /\ out'[c] = Tail(out[c])
      /\ UNCHANGED <<conn_, accepted, open_>>
  BY DEF Transmit, IInv, TypeOK
<1>2. c = conn_ /\ c # NoConn /\ out[c] \in Seq(Packet) /\ Ordered(arrived, out[c])
  BY <1>1, BufferFacts
<1>3. Elems(out[c]) = {p} \cup Elems(out'[c])
  BY <1>1, <1>2, ElemsTail
<1>4. p \in Packet
  BY <1>1, <1>2, HeadTailProperties
<1>5. CASE p.kind # "publish"
  <2>1. \A n : Pub(n) # p
    BY <1>5, PubIs
  <2>2. Pending' = Pending
    BY <1>1, <1>2, <1>3, <2>1 DEF Pending
  <2>3. UNCHANGED arrived
    BY <1>5 DEF Transmit
  <2>. QED
    BY <1>1, <2>2, <2>3, Stutter
<1>6. CASE p.kind = "publish"
  <2>1. arrived' = Append(arrived, p.number) /\ p = Pub(p.number) /\ open_
    BY <1>1, <1>4, <1>6, PacketNumber DEF Transmit, OInv, Quiet
  <2>2. /\ Len(out[c]) \in Nat \ {0} /\ DOMAIN out[c] = 1..Len(out[c]) /\ p = out[c][1]
        /\ DOMAIN Tail(out[c]) = 1..(Len(out[c]) - 1)
        /\ \A i \in 1..(Len(out[c]) - 1) : Tail(out[c])[i] = out[c][i + 1]
    BY <1>1, <1>2, HeadTailProperties, LenProperties, EmptySeq
  <2>3. p.number \in 1..accepted
    <3>1. p.number <= accepted
      BY <1>1, <1>6, <2>2 DEF OInv, Numbered
    <3>2. p.number \in 1..MaxPublish /\ accepted \in Nat
      BY <1>4, <1>6, BoundAssumption DEF Packet, IInv, TypeOK
    <3>. QED
      BY <3>1, <3>2
  <2>4. p.number \in Pending
    BY <1>2, <1>3, <2>1, <2>3 DEF Pending
  <2>5. ASSUME NEW m \in 1..accepted, Pub(m) \in Elems(out'[c]) PROVE p.number < m
    <3>1. PICK i \in 1..(Len(out[c]) - 1) : out[c][i + 1] = Pub(m)
      BY <1>1, <2>2, <2>5 DEF Elems
    <3>2. i + 1 \in DOMAIN out[c] /\ 1 \in 1..((i + 1) - 1)
      BY <2>2
    <3>. QED
      BY <1>2, <1>6, <2>2, <3>1, <3>2, PubIs DEF Ordered
  <2>6. \A m \in Pending : p.number <= m
    <3>1. ASSUME NEW m \in Pending PROVE p.number <= m
      <4>1. m \in 1..accepted /\ (Pub(m) = p \/ Pub(m) \in Elems(out'[c]))
        BY <1>2, <1>3 DEF Pending
      <4>2. CASE Pub(m) = p
        <5>1. m = p.number
          BY <4>2, PubIs
        <5>. QED
          BY <4>1, <5>1
      <4>3. CASE Pub(m) \in Elems(out'[c])
        BY <2>3, <2>5, <4>1, <4>3
      <4>. QED
        BY <4>1, <4>2, <4>3
    <3>. QED
      BY <3>1
  <2>7. Pending' = Pending \ {p.number}
    <3>1. ASSUME NEW m \in 1..accepted
          PROVE  Pub(m) \in Elems(out'[c]) <=> Pub(m) \in Elems(out[c]) /\ m # p.number
      <4>1. Pub(m) \in Elems(out'[c]) => m # p.number
        BY <2>3, <2>5
      <4>2. Pub(m) = p => m = p.number
        BY PubIs
      <4>. QED
        BY <1>3, <4>1, <4>2
    <3>. QED
      BY <1>1, <1>2, <3>1 DEF Pending
  <2>8. Link!Deliver(p.number)
    BY <1>1, <2>1, <2>4, <2>6, <2>7 DEF Link!Deliver
  <2>. QED
    BY <2>4, <2>8 DEF LinkStep, Link!Next
<1>. QED
  BY <1>5, <1>6

LEMMA StepMaps == IInv /\ OInv /\ [Next]_vars => LinkStep
<1>1. ASSUME ClockStep \/ UNCHANGED vars PROVE LinkStep
  <2>1. UNCHANGED <<open_, accepted, arrived, conn_, out>>
    BY <1>1 DEF ClockStep, Tick, SetBack, StepForward
  <2>. QED
    BY <2>1, Stutter DEF Pending
<1>. QED
  BY <1>1, DialMaps, PublishMaps, SubscribeMaps, OpenMaps, CloseMaps, TransmitMaps
  DEF Next, ClockStep, Connect, Poll

LEMMA InitMaps == Init => Link!Init
BY DEF Init, Link!Init, Pending

\* MqttClient, mongoose and the broker together keep what CommandLink promises to
\* the handlers that publish.
THEOREM LinkIsImplemented == Spec => ImplementsLink
<1>1. IInv /\ OInv /\ [Next]_vars => [Link!Next]_(Link!linkVars)
  BY StepMaps DEF LinkStep
<1>. QED
  BY <1>1, InitMaps, OrderHolds, PTL DEF Spec, ImplementsLink, Link!Spec
=============================================================================
