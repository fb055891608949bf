------------------------ MODULE ActuatorControl_proofs ------------------------
(***************************************************************************)
(* Proofs about ActuatorControl, for any actuators, settings, channels and *)
(* requests.                                                               *)
(***************************************************************************)
EXTENDS ActuatorControl, SequenceTheorems, WellFoundedInduction, TLAPS

WebType  == [device : Ids, data : Payload, by : {"web"}, intact : BOOLEAN, recorded : BOOLEAN]
RuleType == [device : Ids, data : Body, by : {"rule"}, intact : {TRUE}, recorded : {FALSE}]
CommandType == WebType \cup RuleType
RowType == [device : Ids, data : Payload, channel : Channels, ok : BOOLEAN, written : BOOLEAN]

\* A switch has no setting to be changed.
Types == /\ TypeOK /\ DOMAIN queue = Channels
         /\ \A a \in Ids \cap Switches : control[a].setting = DefaultSetting

USE DEF vars
-----------------------------------------------------------------------------
(***************************************************************************)
(* The loop of POST /api/control, by induction over the commands handled   *)
(* so far.  Induction is used in the form of a fact about sets of numbers: *)
(* a set that has 0 and the successor of each of its members has all.      *)
(***************************************************************************)
LEMMA NumbersByInduction ==
  ASSUME NEW S, 0 \in S, \A n \in Nat : n \in S => n + 1 \in S
  PROVE  Nat \subseteq S
<1>. DEFINE R == OpToRel(<, Nat)
            missing == Nat \ S
<1>. SUFFICES ASSUME missing # {} PROVE FALSE
  OBVIOUS
<1>1. IsWellFoundedOn(R, Nat)
  BY NatLessThanWellFounded
<1>2. \A x, y \in Nat : x < y => <<x, y>> \in R
  BY DEF R, OpToRel
<1>3. missing \subseteq Nat
  OBVIOUS
<1>. HIDE DEF R, missing
<1>4. PICK x \in missing : \A y \in missing : ~ (<<y, x>> \in R)
  BY <1>1, <1>3, WFMin
<1>5. x \in Nat /\ x # 0 /\ x - 1 \in Nat /\ x - 1 < x
  BY <1>4 DEF missing
<1>6. x - 1 \notin S
  BY <1>4, <1>5 DEF missing
<1>. QED
  BY <1>2, <1>4, <1>5, <1>6 DEF missing

\* f is the list of the loop after 0, 1, ... k commands.
SentList(f, topics, k) ==
  f = [n \in 0..k |-> IF n = 0 THEN <<>>
                     ELSE IF Actuators[n] \in topics THEN Append(f[n - 1], Actuators[n])
                     ELSE f[n - 1]]

LEMMA ActuatorsLength ==
  /\ Len(Actuators) \in Nat /\ DOMAIN Actuators = 1..Len(Actuators)
  /\ \A n \in 1..Len(Actuators) : Actuators[n] \in Ids
  /\ \A a \in Ids : \E n \in 1..Len(Actuators) : Actuators[n] = a
<1>1. Len(Actuators) \in Nat /\ DOMAIN Actuators = 1..Len(Actuators)
  BY ActuatorAssumption, LenProperties
<1>. QED
  BY <1>1 DEF Ids, Range

LEMMA SentListExists ==
  ASSUME NEW topics
  PROVE  \A k \in Nat : \E f : SentList(f, topics, k)
<1>. DEFINE S == {k \in Nat : \E f : SentList(f, topics, k)}
<1>1. 0 \in S
  <2>. DEFINE f == [n \in 0..0 |-> <<>>]
  <2>1. SentList(f, topics, 0)
    BY DEF SentList
  <2>. QED
    BY <2>1
<1>2. ASSUME NEW k \in Nat, k \in S PROVE k + 1 \in S
  <2>1. PICK f : SentList(f, topics, k)
    BY <1>2
  <2>. DEFINE last == IF Actuators[k + 1] \in topics THEN Append(f[k], Actuators[k + 1])
                                                  ELSE f[k]
              g == [n \in 0..(k + 1) |-> IF n = k + 1 THEN last ELSE f[n]]
              step(n) == IF n = 0 THEN <<>>
                         ELSE IF Actuators[n] \in topics THEN Append(g[n - 1], Actuators[n])
                         ELSE g[n - 1]
  <2>2. \A n \in 0..k : g[n] = f[n]
    OBVIOUS
  <2>3. g[k + 1] = last /\ g[k] = f[k]
    OBVIOUS
  <2>4. g = [n \in 0..(k + 1) |-> g[n]]
    OBVIOUS
  <2>. HIDE DEF g
  <2>5. ASSUME NEW n \in 0..(k + 1) PROVE g[n] = step(n)
    <3>1. CASE n = k + 1
      <4>1. n # 0 /\ n - 1 = k
        BY <3>1
      <4>2. step(n) = last
        BY <2>3, <3>1, <4>1
      <4>. QED
        BY <2>3, <3>1, <4>2
    <3>2. CASE n \in 0..k
      <4>1. f[n] = IF n = 0 THEN <<>>
                   ELSE IF Actuators[n] \in topics THEN Append(f[n - 1], Actuators[n])
                   ELSE f[n - 1]
        <5>. HIDE DEF last
        <5>. QED
          BY <2>1, <3>2 DEF SentList
      <4>2. n = 0 \/ n - 1 \in 0..k
        BY <3>2
      <4>. QED
        BY <2>2, <3>2, <4>1, <4>2
    <3>. QED
      BY <3>1, <3>2
  <2>6. [n \in 0..(k + 1) |-> g[n]] = [n \in 0..(k + 1) |-> step(n)]
    BY <2>5
  <2>7. SentList(g, topics, k + 1)
    BY <2>4, <2>6 DEF SentList
  <2>. QED
    BY <2>7
<1>. HIDE DEF S
<1>3. Nat \subseteq S
  BY <1>1, <1>2, NumbersByInduction
<1>. QED
  BY <1>3 DEF S

\* After k commands the list has actuators with a topic, each of the first k.
HasFirst(list, topics, k) ==
  /\ list \in Seq(Ids \cap topics)
  /\ \A n \in 1..k : Actuators[n] \in topics => \E i \in DOMAIN list : list[i] = Actuators[n]

LEMMA SentListHas ==
  ASSUME NEW topics, NEW f, SentList(f, topics, Len(Actuators))
  PROVE  HasFirst(f[Len(Actuators)], topics, Len(Actuators))
<1>. USE DEF HasFirst
<1>. DEFINE Has(k) == HasFirst(f[k], topics, k)
            S == {k \in Nat : k <= Len(Actuators) => Has(k)}
<1>1. ASSUME NEW k \in 0..Len(Actuators)
      PROVE  f[k] = IF k = 0 THEN <<>>
                    ELSE IF Actuators[k] \in topics THEN Append(f[k - 1], Actuators[k])
                    ELSE f[k - 1]
  BY <1>1 DEF SentList
<1>2. 0 \in S
  <2>1. f[0] = <<>>
    BY <1>1, ActuatorsLength
  <2>2. f[0] \in Seq(Ids \cap topics)
    BY <2>1, EmptySeq
  <2>3. Has(0)
    BY <2>2
  <2>. HIDE DEF Has
  <2>. QED
    BY <2>3
<1>3. ASSUME NEW k \in Nat, k \in S PROVE k + 1 \in S
  <2>. SUFFICES ASSUME k + 1 <= Len(Actuators) PROVE Has(k + 1)
    OBVIOUS
  <2>1. Has(k)
    BY <1>3, ActuatorsLength
  <2>2. Actuators[k + 1] \in Ids
    BY ActuatorsLength
  <2>3. f[k + 1] = IF Actuators[k + 1] \in topics THEN Append(f[k], Actuators[k + 1]) ELSE f[k]
    BY <1>1, ActuatorsLength
  <2>4. CASE Actuators[k + 1] \in topics
    <3>. DEFINE T == Ids \cap topics
                e == Actuators[k + 1]
    <3>1. /\ f[k] \in Seq(T) /\ e \in T
          /\ f[k + 1] = Append(f[k], e)
      BY <2>1, <2>2, <2>3, <2>4
    <3>. HIDE DEF T
    <3>2. /\ f[k + 1] \in Seq(T) /\ DOMAIN f[k] \subseteq DOMAIN f[k + 1]
          /\ \A i \in DOMAIN f[k] : f[k + 1][i] = f[k][i]
          /\ Len(f[k]) + 1 \in DOMAIN f[k + 1] /\ f[k + 1][Len(f[k]) + 1] = e
      BY <3>1, AppendProperties
    <3>3. ASSUME NEW n \in 1..(k + 1), Actuators[n] \in topics
          PROVE  \E i \in DOMAIN f[k + 1] : f[k + 1][i] = Actuators[n]
      <4>1. CASE n = k + 1
        BY <3>2, <4>1
      <4>2. CASE n \in 1..k
        BY <2>1, <3>2, <3>3, <4>2
      <4>. QED
        BY <4>1, <4>2
    <3>. QED
      BY <3>2, <3>3 DEF T
  <2>5. CASE Actuators[k + 1] \notin topics
    <3>1. f[k + 1] = f[k]
      BY <2>3, <2>5
    <3>2. ASSUME NEW n \in 1..(k + 1), Actuators[n] \in topics PROVE n \in 1..k
      BY <2>5, <3>2
    <3>. QED
      BY <2>1, <3>1, <3>2
  <2>. QED
    BY <2>4, <2>5
<1>. HIDE DEF S
<1>4. Nat \subseteq S
  BY <1>2, <1>3, NumbersByInduction
<1>5. Len(Actuators) \in S
  BY <1>4, ActuatorsLength
<1>. HIDE DEF HasFirst
<1>. QED
  BY <1>5, ActuatorsLength DEF S

\* POST /api/control sends to actuators with a command topic, and to all of them.
LEMMA TargetsHas ==
  ASSUME NEW topics
  PROVE  /\ Targets(topics) \in Seq(Ids \cap topics)
         /\ \A a \in Ids \cap topics : \E i \in DOMAIN Targets(topics) : Targets(topics)[i] = a
<1>1. \E f : SentList(f, topics, Len(Actuators))
  BY SentListExists, ActuatorsLength
<1>2. \E f : SentList(f, topics, Len(Actuators)) /\ Targets(topics) = f[Len(Actuators)]
  BY <1>1 DEF Targets, SentList
<1>3. PICK f : SentList(f, topics, Len(Actuators)) /\ Targets(topics) = f[Len(Actuators)]
  BY <1>2
<1>4. HasFirst(Targets(topics), topics, Len(Actuators))
  BY <1>3, SentListHas
<1>. QED
  BY <1>4, ActuatorsLength DEF HasFirst
-----------------------------------------------------------------------------
(***************************************************************************)
(* What a step does.  A request, single or bulk, adds rows for a list of   *)
(* actuators; if the channel takes it, the same commands to the channel.   *)
(* An actuator stays known if the request does not touch it, and becomes   *)
(* known if its part is taken, is what ControlState now shows, and finds   *)
(* the other channels empty.                                               *)
(***************************************************************************)
GrowsBy(new, old, items) ==
  /\ Len(new) = Len(old) + Len(items)
  /\ \A i \in DOMAIN old : new[i] = old[i]
  /\ \A i \in DOMAIN items : new[Len(old) + i] = items[i]

NewRows(ch, list, data, sent, written) ==
  [i \in DOMAIN list |-> Row(list[i], data[i], ch, sent, written[i])]

NewCommands(list, data, intact, written) ==
  [i \in DOMAIN list |-> Command(list[i], data[i], "web", intact, written[i])]

Requested(ch, list, data, sent, intact, written) ==
  /\ list \in Seq(Ids) /\ rows' \in Seq(RowType)
  /\ \A i \in DOMAIN list : data[i] \in Payload /\ written[i] \in BOOLEAN
  /\ GrowsBy(rows', rows, NewRows(ch, list, data, sent, written))
  /\ \A c \in Channels : (c = ch /\ sent) \/ queue'[c] = queue[c]
  /\ sent => /\ queue'[ch] \in Seq(CommandType)
             /\ GrowsBy(queue'[ch], queue[ch], NewCommands(list, data, intact, written))
  /\ control' \in [Ids -> State] /\ known' \subseteq Ids /\ DOMAIN queue' = Channels
  /\ \A a \in Ids \cap Switches : control'[a].setting = control[a].setting
  /\ \A b \in known' :
       \/ /\ b \in known /\ control'[b] = control[b]
          /\ sent => \A i \in DOMAIN list : list[i] # b
       \/ /\ sent /\ intact /\ \E i \in DOMAIN list : list[i] = b
          /\ \A i \in DOMAIN list : list[i] = b => Obeyed(data[i]) = control'[b]
          /\ \A c \in Channels \ {ch} : ForDevice(queue[c], b) = {}
  /\ UNCHANGED <<board, up>> /\ commandable' = commandable

LEMMA NumberTypes ==
  /\ \A n \in Nat : Whole(n) \in Number /\ Whole(n).int = n
  /\ \A n \in Number : Printed(n) \in Number
  /\ \A n \in Number : n.frac # "almost" => Printed(n).int = n.int
  /\ \A n : ToBool(n) \in {0, 1} /\ (n.int \in {0, 1} => ToBool(n) = n.int)
  /\ \A n \in [int : 0..999, frac : Fractions] : n \in Number
BY DEF Whole, Number, Fractions, Printed, ToBool

LEMMA NormalizeType ==
  ASSUME NEW a, NEW body \in Body
  PROVE  Normalize(a, body) \in Payload /\ NormalizeMqtt(a, body) \in Payload
<1>1. /\ body.on = None \/ body.on \in Number
      /\ body.setting = None \/ body.setting \in Number
  BY NumberTypes DEF Body
<1>2. Normalize(a, body) \in Payload
  <2>1. Normalize(a, body).on \in Number /\ Normalize(a, body).setting \in Number
    BY <1>1, NumberTypes, ValueAssumption DEF Normalize
  <2>. QED
    BY <2>1 DEF Normalize, Payload
<1>3. Whole(ToBool(body.on)) \in Number
  BY NumberTypes
<1>. QED
  BY <1>2, <1>3 DEF NormalizeMqtt, Payload

LEMMA ObeyedType ==
  ASSUME NEW data \in Payload \cup Body
  PROVE  Obeyed(data) \in State
<1>1. /\ data.on = None \/ data.on.int \in Nat
      /\ data.setting = None \/ data.setting.int \in Nat
  BY NumberTypes DEF Payload, Body, Number
<1>. QED
  BY <1>1, ValueAssumption DEF Obeyed, State

LEMMA UpdatedType ==
  ASSUME NEW a, NEW body \in Body, NEW state \in State
  PROVE  /\ Updated(a, state, body) \in State
         /\ a \in Switches => Updated(a, state, body).setting = state.setting
<1>1. /\ body.on = None \/ body.on.int \in Nat
      /\ body.setting = None \/ body.setting.int \in Nat
  BY NumberTypes DEF Body, Number
<1>. QED
  BY <1>1 DEF Updated, State

\* A proper request makes the board do what ControlState then shows.
LEMMA ProperIsObeyed ==
  ASSUME Types, NEW a \in Ids, NEW body \in Body, Proper(a, body)
  PROVE  /\ Obeyed(Normalize(a, body)) = Updated(a, control[a], body)
         /\ Obeyed(NormalizeMqtt(a, body)) = Updated(a, control[a], body)
<1>1. /\ body.on # None /\ body.on \in Number /\ body.on.frac # "almost"
      /\ a \in Switches => body.on.int \in {0, 1} /\ control[a].setting = DefaultSetting
      /\ a \notin Switches => /\ body.setting # None /\ body.setting \in Number
                              /\ body.setting.frac # "almost"
  BY NumberTypes DEF Proper, Body, Types
<1>2. /\ Normalize(a, body).on = Printed(body.on) /\ Printed(body.on) # None
      /\ Printed(body.on).int = body.on.int
  BY <1>1, NumberTypes, ValueAssumption DEF Normalize
<1>3. /\ Normalize(a, body).setting # None
      /\ Normalize(a, body).setting.int
           = IF a \in Switches THEN control[a].setting ELSE body.setting.int
  BY <1>1, NumberTypes, ValueAssumption DEF Normalize
<1>4. Obeyed(Normalize(a, body)) = Updated(a, control[a], body)
  BY <1>1, <1>2, <1>3 DEF Obeyed, Updated
<1>5. CASE a \in Switches
  <2>. DEFINE b == Whole(ToBool(body.on))
  <2>1. b.int = body.on.int /\ b # None
    BY <1>1, <1>5, NumberTypes, ValueAssumption
  <2>2. /\ NormalizeMqtt(a, body).on = b
        /\ NormalizeMqtt(a, body).setting = Normalize(a, body).setting
    BY <1>1, <1>5 DEF NormalizeMqtt, Normalize
  <2>. HIDE DEF b
  <2>3. Obeyed(NormalizeMqtt(a, body)) = Updated(a, control[a], body)
    BY <1>1, <1>3, <1>5, <2>1, <2>2 DEF Obeyed, Updated
  <2>. QED
    BY <1>4, <2>3
<1>6. CASE a \notin Switches
  BY <1>4, <1>6 DEF NormalizeMqtt
<1>. QED
  BY <1>5, <1>6

LEMMA NewItemsType ==
  ASSUME NEW ch \in Channels, NEW list \in Seq(Ids), NEW data, NEW sent \in BOOLEAN,
         NEW intact \in BOOLEAN, NEW written,
         \A i \in DOMAIN list : data[i] \in Payload /\ written[i] \in BOOLEAN
  PROVE  /\ NewRows(ch, list, data, sent, written) \in Seq(RowType)
         /\ Len(NewRows(ch, list, data, sent, written)) = Len(list)
         /\ NewCommands(list, data, intact, written) \in Seq(CommandType)
         /\ Len(NewCommands(list, data, intact, written)) = Len(list)
<1>1. Len(list) \in Nat /\ DOMAIN list = 1..Len(list) /\ \A i \in DOMAIN list : list[i] \in Ids
  BY LenProperties, ElementOfSeq
<1>2. ASSUME NEW i \in DOMAIN list
      PROVE  /\ Row(list[i], data[i], ch, sent, written[i]) \in RowType
             /\ Command(list[i], data[i], "web", intact, written[i]) \in CommandType
  BY <1>1 DEF Row, Command, RowType, CommandType, WebType
<1>. QED
  BY <1>1, <1>2 DEF NewRows, NewCommands

LEMMA ConcatGrows ==
  ASSUME NEW T, NEW s \in Seq(T), NEW t \in Seq(T)
  PROVE  s \o t \in Seq(T) /\ GrowsBy(s \o t, s, t)
BY ConcatProperties, LenProperties DEF GrowsBy

LEMMA AppendGrows ==
  ASSUME NEW T, NEW s \in Seq(T), NEW e \in T, NEW t \in Seq(T), Len(t) = 1, t[1] = e
  PROVE  Append(s, e) \in Seq(T) /\ GrowsBy(Append(s, e), s, t)
BY AppendProperties, LenProperties DEF GrowsBy

\* A single request.
LEMMA SendOneSends ==
  ASSUME Types, NEW ch \in Channels, NEW a \in Ids, NEW body \in Body, NEW data \in Payload,
         NEW sent \in BOOLEAN, NEW intact \in BOOLEAN,
         Proper(a, body) => Obeyed(data) = Updated(a, control[a], body),
         SendOne(ch, a, body, data, sent, intact), UNCHANGED <<board, up, commandable>>
  PROVE  \E written : Requested(ch, <<a>>, <<data>>, sent, intact, written)
<1>1. PICK w \in BOOLEAN :
        /\ rows' = Append(rows, Row(a, data, ch, sent, w))
        /\ IF sent
             THEN /\ Sent(ch, a, data, intact, w)
                  /\ control' = [control EXCEPT ![a] = Updated(a, @, body)]
                  /\ known' = IF intact /\ Settles(ch, a, body) THEN known \cup {a}
                             ELSE known \ {a}
             ELSE UNCHANGED <<queue, control, known>>
  BY DEF SendOne
<1>. DEFINE list    == <<a>>
            datas   == <<data>>
            written == <<w>>
<1>2. /\ list \in Seq(Ids) /\ Len(list) = 1 /\ DOMAIN list = {1} /\ list[1] = a
      /\ datas[1] = data /\ written[1] = w
  OBVIOUS
<1>. SUFFICES Requested(ch, list, datas, sent, intact, written)
  BY Zenon
<1>. HIDE DEF list, datas, written
<1>3. \A i \in DOMAIN list : datas[i] \in Payload /\ written[i] \in BOOLEAN
  BY <1>2
<1>4. /\ rows \in Seq(RowType) /\ \A c \in Channels : queue[c] \in Seq(CommandType)
      /\ control \in [Ids -> State] /\ known \subseteq Ids /\ DOMAIN queue = Channels
  BY DEF Types, TypeOK, RowType, CommandType, WebType, RuleType
<1>5. /\ Row(a, data, ch, sent, w) \in RowType
      /\ Command(a, data, "web", intact, w) \in CommandType
  BY DEF Row, Command, RowType, CommandType, WebType
<1>6. /\ NewRows(ch, list, datas, sent, written)[1] = Row(a, data, ch, sent, w)
      /\ NewCommands(list, datas, intact, written)[1] = Command(a, data, "web", intact, w)
  BY <1>2 DEF NewRows, NewCommands
<1>7. rows' \in Seq(RowType) /\ GrowsBy(rows', rows, NewRows(ch, list, datas, sent, written))
  <2>. DEFINE new == NewRows(ch, list, datas, sent, written)
  <2>1. new \in Seq(RowType) /\ Len(new) = 1 /\ new[1] = Row(a, data, ch, sent, w)
    BY <1>2, <1>3, <1>6, NewItemsType
  <2>. HIDE DEF new
  <2>2. GrowsBy(Append(rows, Row(a, data, ch, sent, w)), rows, new)
    BY <1>4, <1>5, <2>1, AppendGrows
  <2>3. Append(rows, Row(a, data, ch, sent, w)) \in Seq(RowType)
    BY <1>4, <1>5, AppendProperties
  <2>4. rows' = Append(rows, Row(a, data, ch, sent, w))
    BY <1>1
  <2>5. GrowsBy(rows', rows, new)
    BY <2>2, <2>4
  <2>. QED
    BY <2>3, <2>4, <2>5 DEF new
<1>8. CASE ~ sent
  <2>1. queue' = queue /\ control' = control /\ known' = known
    BY <1>1, <1>8
  <2>. QED
    BY <1>2, <1>3, <1>4, <1>7, <1>8, <2>1 DEF Requested
<1>9. CASE sent
  <2>1. /\ queue' = [queue EXCEPT ![ch] = Append(@, Command(a, data, "web", intact, w))]
        /\ control' = [control EXCEPT ![a] = Updated(a, @, body)]
        /\ known' = IF intact /\ Settles(ch, a, body) THEN known \cup {a} ELSE known \ {a}
    BY <1>1, <1>9 DEF Sent
  <2>2. /\ DOMAIN queue' = Channels
        /\ queue'[ch] = Append(queue[ch], Command(a, data, "web", intact, w))
        /\ \A c \in Channels : c = ch \/ queue'[c] = queue[c]
    BY <1>4, <2>1
  <2>3. /\ queue'[ch] \in Seq(CommandType)
        /\ GrowsBy(queue'[ch], queue[ch], NewCommands(list, datas, intact, written))
    <3>. DEFINE new == NewCommands(list, datas, intact, written)
                old == queue[ch]
                last == Command(a, data, "web", intact, w)
    <3>1. new \in Seq(CommandType) /\ Len(new) = 1 /\ new[1] = last
      BY <1>2, <1>3, <1>6, NewItemsType
    <3>2. old \in Seq(CommandType) /\ last \in CommandType /\ queue'[ch] = Append(old, last)
      BY <1>4, <1>5, <2>2
    <3>. HIDE DEF new, old, last
    <3>3. GrowsBy(Append(old, last), old, new) /\ Append(old, last) \in Seq(CommandType)
      BY <3>1, <3>2, AppendGrows, AppendProperties
    <3>4. GrowsBy(queue'[ch], old, new) /\ queue'[ch] \in Seq(CommandType)
      BY <3>2, <3>3
    <3>. QED
      BY <3>4 DEF new, old
  <2>4. /\ control' \in [Ids -> State] /\ known' \subseteq Ids
        /\ \A b \in Ids \cap Switches : control'[b].setting = control[b].setting
    <3>. DEFINE value == Updated(a, control[a], body)
    <3>1. value \in State /\ (a \in Switches => value.setting = control[a].setting)
      BY <1>4, UpdatedType
    <3>2. control' = [control EXCEPT ![a] = value]
      BY <2>1
    <3>. HIDE DEF value
    <3>3. control' \in [Ids -> State] /\ known' \subseteq Ids
      BY <1>4, <2>1, <3>1, <3>2
    <3>. QED
      BY <1>4, <3>1, <3>2, <3>3
  <2>5. ASSUME NEW b \in known'
        PROVE  \/ /\ b \in known /\ control'[b] = control[b]
                  /\ \A i \in DOMAIN list : list[i] # b
               \/ /\ intact /\ \E i \in DOMAIN list : list[i] = b
                  /\ \A i \in DOMAIN list : list[i] = b => Obeyed(datas[i]) = control'[b]
                  /\ \A c \in Channels \ {ch} : ForDevice(queue[c], b) = {}
    <3>1. CASE b # a
      BY <1>2, <1>4, <2>1, <3>1
    <3>2. CASE b = a
      <4>1. intact /\ Settles(ch, a, body)
        BY <2>1, <3>2
      <4>2. control'[a] = Obeyed(data)
        BY <1>4, <2>1, <4>1 DEF Settles
      <4>. QED
        BY <1>2, <3>2, <4>1, <4>2 DEF Settles
    <3>. QED
      BY <3>1, <3>2
  <2>. QED
    BY <1>2, <1>3, <1>7, <1>9, <2>2, <2>3, <2>4, <2>5 DEF Requested
<1>. QED
  BY <1>8, <1>9

\* POST /api/control.
LEMMA BulkSends ==
  ASSUME Types, NEW body \in BulkRequests, Bulk(body)
  PROVE  \E data, written :
           Requested("mqtt", Targets(commandable), data, up["mqtt"], TRUE, written)
<1>. DEFINE list == Targets(commandable)
            sent == up["mqtt"]
            data == [i \in DOMAIN list |-> Normalize(list[i], body[list[i]])]
<1>. HIDE DEF list, sent
<1>1. /\ list \in Seq(Ids) /\ DOMAIN list = 1..Len(list) /\ Len(list) \in Nat
      /\ \A i \in DOMAIN list : list[i] \in Ids \cap commandable
      /\ \A a \in Ids \cap commandable : \E i \in DOMAIN list : list[i] = a
  <2>1. /\ list \in Seq(Ids \cap commandable)
        /\ \A a \in Ids \cap commandable : \E i \in DOMAIN list : list[i] = a
    BY TargetsHas DEF list
  <2>2. list \in Seq(Ids)
    BY <2>1
  <2>. QED
    BY <2>1, <2>2, LenProperties, ElementOfSeq
<1>2. "mqtt" \in Channels /\ sent \in BOOLEAN /\ body \in [Ids -> Body]
  BY RequestAssumption DEF Bulk, Types, TypeOK, sent
<1>3. /\ rows \in Seq(RowType) /\ \A c \in Channels : queue[c] \in Seq(CommandType)
      /\ control \in [Ids -> State] /\ known \subseteq Ids /\ DOMAIN queue = Channels
  BY DEF Types, TypeOK, RowType, CommandType, WebType, RuleType
<1>4. /\ control' = [a \in Ids |-> Updated(a, control[a], body[a])]
      /\ known' = {a \in Ids : IF sent /\ a \in commandable THEN Settles("mqtt", a, body[a])
                                ELSE a \in known /\ control'[a] = control[a]}
      /\ UNCHANGED <<board, up, commandable>>
  BY DEF Bulk, sent
<1>5. PICK written \in [DOMAIN list -> BOOLEAN] :
        /\ rows' = rows \o [i \in DOMAIN list |->
                    Row(list[i], Normalize(list[i], body[list[i]]), "mqtt", sent, written[i])]
        /\ queue' = IF sent
             THEN [queue EXCEPT ![ "mqtt" ] = @ \o
                     [i \in DOMAIN list |->
                        Command(list[i], Normalize(list[i], body[list[i]]), "web", TRUE,
                                written[i])]]
             ELSE queue
  BY DEF Bulk, list, sent
<1>6. /\ \A i \in DOMAIN list : data[i] = Normalize(list[i], body[list[i]])
      /\ \A i \in DOMAIN list : data[i] \in Payload /\ written[i] \in BOOLEAN
  BY <1>1, <1>2, <1>5, NormalizeType
<1>7. /\ rows' = rows \o NewRows("mqtt", list, data, sent, written)
      /\ queue' = IF sent
           THEN [queue EXCEPT ![ "mqtt" ] = @ \o NewCommands(list, data, TRUE, written)]
           ELSE queue
  BY <1>5, <1>6 DEF NewRows, NewCommands
<1>. HIDE DEF data
<1>8. SUFFICES Requested("mqtt", list, data, sent, TRUE, written)
  BY DEF list, sent
<1>9. /\ NewRows("mqtt", list, data, sent, written) \in Seq(RowType)
      /\ NewCommands(list, data, TRUE, written) \in Seq(CommandType)
  BY <1>1, <1>2, <1>6, NewItemsType
<1>10. rows' \in Seq(RowType) /\ GrowsBy(rows', rows, NewRows("mqtt", list, data, sent, written))
  BY <1>3, <1>7, <1>9, ConcatGrows
<1>11. /\ control' \in [Ids -> State] /\ known' \subseteq Ids
       /\ \A a \in Ids \cap Switches : control'[a].setting = control[a].setting
  <2>1. ASSUME NEW a \in Ids
        PROVE  /\ Updated(a, control[a], body[a]) \in State
               /\ a \in Switches => Updated(a, control[a], body[a]).setting = control[a].setting
    <3>1. control[a] \in State /\ body[a] \in Body
      BY <1>2, <1>3
    <3>. QED
      BY <3>1, UpdatedType
  <2>2. control' \in [Ids -> State] /\ known' \subseteq Ids
    BY <1>4, <2>1
  <2>3. \A a \in Ids : control'[a] = Updated(a, control[a], body[a])
    BY <1>4
  <2>. QED
    BY <2>1, <2>2, <2>3
<1>12. CASE ~ sent
  <2>1. queue' = queue /\ \A b \in known' : b \in known /\ control'[b] = control[b]
    BY <1>4, <1>7, <1>12
  <2>. QED
    BY <1>1, <1>3, <1>4, <1>6, <1>10, <1>11, <1>12, <2>1 DEF Requested
<1>13. CASE sent
  <2>2. /\ DOMAIN queue' = Channels
        /\ queue'["mqtt"] = queue["mqtt"] \o NewCommands(list, data, TRUE, written)
        /\ \A c \in Channels : c = "mqtt" \/ queue'[c] = queue[c]
    BY <1>2, <1>3, <1>7, <1>13
  <2>3. /\ queue'["mqtt"] \in Seq(CommandType)
        /\ GrowsBy(queue'["mqtt"], queue["mqtt"], NewCommands(list, data, TRUE, written))
    <3>1. queue["mqtt"] \in Seq(CommandType)
      BY <1>2, <1>3
    <3>. QED
      BY <1>9, <2>2, <3>1, ConcatGrows
  <2>4. ASSUME NEW b \in known'
        PROVE  \/ /\ b \in known /\ control'[b] = control[b]
                  /\ \A i \in DOMAIN list : list[i] # b
               \/ /\ \E i \in DOMAIN list : list[i] = b
                  /\ \A i \in DOMAIN list : list[i] = b => Obeyed(data[i]) = control'[b]
                  /\ \A c \in Channels \ {"mqtt"} : ForDevice(queue[c], b) = {}
    <3>1. CASE b \notin commandable
      BY <1>1, <1>4, <3>1
    <3>2. CASE b \in commandable
      <4>1. Settles("mqtt", b, body[b]) /\ b \in Ids
        BY <1>4, <1>13, <3>2
      <4>2. control'[b] = Updated(b, control[b], body[b]) /\ body[b] \in Body
        BY <1>2, <1>4, <4>1
      <4>3. control'[b] = Obeyed(Normalize(b, body[b]))
        BY <4>1, <4>2, ProperIsObeyed DEF Settles
      <4>. QED
        BY <1>1, <1>6, <3>2, <4>1, <4>3 DEF Settles
    <3>. QED
      BY <3>1, <3>2
  <2>. QED
    BY <1>1, <1>4, <1>6, <1>10, <1>11, <1>13, <2>2, <2>3, <2>4 DEF Requested
<1>. QED
  BY <1>12, <1>13

\* The steps, requests as one kind.
SomeRequest ==
  \E data, written : \E ch \in Channels, list \in Seq(Ids), sent \in BOOLEAN, intact \in BOOLEAN :
    Requested(ch, list, data, sent, intact, written)

LEMMA StepCases ==
  ASSUME Types, [Next]_vars
  PROVE  \/ UNCHANGED vars
         \/ Restart
         \/ SomeRequest /\ torn' \in BOOLEAN
         \/ \E a \in Ids, on \in {0, 1} : RuleCommand(a, on)
         \/ \E ch \in Channels : Execute(ch) \/ Open(ch) \/ Close(ch)
         \/ \E a \in Ids : LoseTopic(a)
<1>1. ASSUME NEW a \in Ids, NEW body \in Requests, SetMqtt(a, body)
      PROVE  SomeRequest /\ torn' \in BOOLEAN
  <2>. DEFINE data == NormalizeMqtt(a, body)
  <2>1. /\ "mqtt" \in Channels /\ up["mqtt"] \in BOOLEAN /\ body \in Body
        /\ SendOne("mqtt", a, body, data, up["mqtt"], TRUE)
        /\ UNCHANGED <<board, up, commandable>> /\ torn' \in BOOLEAN
    BY <1>1, RequestAssumption DEF SetMqtt, Types, TypeOK
  <2>2. data \in Payload /\ (Proper(a, body) => Obeyed(data) = Updated(a, control[a], body))
    BY <2>1, NormalizeType, ProperIsObeyed
  <2>. HIDE DEF data
  <2>3. PICK written : Requested("mqtt", <<a>>, <<data>>, up["mqtt"], TRUE, written)
    BY <2>1, <2>2, SendOneSends
  <2>4. <<a>> \in Seq(Ids)
    OBVIOUS
  <2>. QED
    BY <2>1, <2>3, <2>4, Zenon DEF SomeRequest
<1>2. ASSUME NEW a \in Ids, NEW body \in Requests, SetZigbee(a, body)
      PROVE  SomeRequest /\ torn' \in BOOLEAN
  <2>. DEFINE data == Normalize(a, body)
              intact == ~torn
  <2>1. PICK sent \in {up["zigbee"], FALSE}, part \in {up["zigbee"], FALSE} :
          /\ SendOne("zigbee", a, body, data, sent, intact)
          /\ torn' = (~sent /\ (torn \/ part))
    BY <1>2 DEF SetZigbee
  <2>2. /\ "zigbee" \in Channels /\ sent \in BOOLEAN /\ body \in Body
        /\ UNCHANGED <<board, up, commandable>> /\ torn' \in BOOLEAN
    BY <1>2, <2>1, RequestAssumption DEF SetZigbee, Types, TypeOK
  <2>3. data \in Payload /\ (Proper(a, body) => Obeyed(data) = Updated(a, control[a], body))
    BY <2>2, NormalizeType, ProperIsObeyed
  <2>4. intact \in BOOLEAN
    OBVIOUS
  <2>. HIDE DEF data, intact
  <2>5. PICK written : Requested("zigbee", <<a>>, <<data>>, sent, intact, written)
    BY <2>1, <2>2, <2>3, <2>4, SendOneSends
  <2>6. <<a>> \in Seq(Ids)
    OBVIOUS
  <2>. QED
    BY <2>2, <2>4, <2>5, <2>6, Zenon DEF SomeRequest
<1>3. ASSUME NEW body \in BulkRequests, Bulk(body)
      PROVE  SomeRequest /\ torn' \in BOOLEAN
  <2>1. "mqtt" \in Channels /\ up["mqtt"] \in BOOLEAN /\ torn' \in BOOLEAN
    BY <1>3 DEF Bulk, Types, TypeOK
  <2>2. PICK data, written :
          Requested("mqtt", Targets(commandable), data, up["mqtt"], TRUE, written)
    BY <1>3, BulkSends
  <2>3. Targets(commandable) \in Seq(Ids)
    BY <2>2 DEF Requested
  <2>. QED
    BY <2>1, <2>2, <2>3 DEF SomeRequest
<1>4. RuleActuators \subseteq Ids
  BY RequestAssumption
<1>. QED
  BY <1>1, <1>2, <1>3, <1>4 DEF Next
-----------------------------------------------------------------------------
\* A rule adds one command that no client sent and no row has.
LEMMA RuleAdds ==
  ASSUME NEW a \in Ids, NEW on \in {0, 1}, RuleCommand(a, on)
  PROVE  \E sent \in RuleType : /\ queue' = [queue EXCEPT ![ "mqtt" ] = Append(@, sent)]
                               /\ sent.device = a
<1>. DEFINE data == [on |-> IF a = Motor THEN Whole(on) ELSE None, setting |-> None]
            sent == Command(a, data, "rule", TRUE, FALSE)
<1>1. data \in Body
  BY DEF Body, Whole, Fractions
<1>2. queue' = [queue EXCEPT ![ "mqtt" ] = Append(@, sent)]
  BY DEF RuleCommand
<1>. HIDE DEF data
<1>3. sent \in RuleType /\ sent.device = a
  BY <1>1 DEF Command, RuleType
<1>. HIDE DEF sent
<1>. QED
  BY <1>2, <1>3

\* The part of the types that a step has to keep.
TypesBut ==
  /\ control \in [Ids -> State] /\ board \in [Ids -> State] /\ torn \in BOOLEAN
  /\ up \in [Channels -> BOOLEAN] /\ rows \in Seq(RowType)
  /\ known \subseteq Ids /\ commandable \subseteq Ids /\ DOMAIN queue = Channels
  /\ \A a \in Ids \cap Switches : control[a].setting = DefaultSetting

QueuesTyped == \A c \in Channels : queue[c] \in Seq(CommandType)

LEMMA TypesParts == Types <=> TypesBut /\ QueuesTyped
BY DEF Types, TypeOK, TypesBut, QueuesTyped, CommandType, WebType, RuleType, RowType

\* Types.  The board and ControlState get values from commands and requests only.
LEMMA TypesInit == Init => Types
<1>. SUFFICES ASSUME Init PROVE Types
  OBVIOUS
<1>1. Idle \in State
  BY ValueAssumption DEF Idle, State
<1>2. TypesBut
  BY <1>1, EmptySeq DEF Init, TypesBut, Idle
<1>3. QueuesTyped
  BY EmptySeq DEF Init, QueuesTyped
<1>. QED
  BY <1>2, <1>3, TypesParts

LEMMA TypesStep ==
  ASSUME Types, [Next]_vars
  PROVE  Types'
<1>1. TypesBut /\ QueuesTyped
  BY TypesParts
<1>2. SUFFICES TypesBut' /\ QueuesTyped'
  BY DEF Types, TypeOK, TypesBut, QueuesTyped, CommandType, WebType, RuleType, RowType
<1>3. CASE UNCHANGED vars
  BY <1>1, <1>3 DEF TypesBut, QueuesTyped
<1>4. CASE Restart
  <2>1. Idle \in State /\ Idle.setting = DefaultSetting
    BY ValueAssumption DEF Idle, State
  <2>2. TypesBut'
    BY <1>1, <1>4, <2>1 DEF Restart, TypesBut
  <2>. QED
    BY <1>4, <2>2 DEF Restart, QueuesTyped
<1>5. ASSUME NEW ch \in Channels, NEW list \in Seq(Ids), NEW data, NEW sent \in BOOLEAN,
             NEW intact \in BOOLEAN, NEW written,
             Requested(ch, list, data, sent, intact, written), torn' \in BOOLEAN
      PROVE  TypesBut' /\ QueuesTyped'
  <2>1. TypesBut'
    BY <1>1, <1>5 DEF Requested, TypesBut
  <2>2. ASSUME NEW c \in Channels PROVE queue'[c] \in Seq(CommandType)
    <3>1. queue'[c] = queue[c] \/ queue'[c] \in Seq(CommandType)
      BY <1>5 DEF Requested
    <3>. QED
      BY <1>1, <3>1 DEF QueuesTyped
  <2>. QED
    BY <2>1, <2>2 DEF QueuesTyped
<1>6. ASSUME NEW a \in Ids, NEW on \in {0, 1}, RuleCommand(a, on)
      PROVE  TypesBut' /\ QueuesTyped'
  <2>1. PICK sent \in RuleType : queue' = [queue EXCEPT ![ "mqtt" ] = Append(@, sent)]
    BY <1>6, RuleAdds
  <2>2. QueuesTyped'
    <3>1. sent \in CommandType
      BY DEF CommandType
    <3>. QED
      BY <1>1, <2>1, <3>1, AppendProperties DEF QueuesTyped, TypesBut
  <2>3. TypesBut'
    BY <1>1, <1>6 DEF RuleCommand, TypesBut
  <2>. QED
    BY <2>2, <2>3
<1>7. ASSUME NEW ch \in Channels, Execute(ch)
      PROVE  TypesBut' /\ QueuesTyped'
  <2>1. /\ Head(queue[ch]) \in CommandType /\ Tail(queue[ch]) \in Seq(CommandType)
        /\ queue' = [queue EXCEPT ![ch] = Tail(queue[ch])]
    BY <1>1, <1>7, HeadTailProperties DEF Execute, QueuesTyped
  <2>2. QueuesTyped'
    BY <1>1, <2>1 DEF QueuesTyped, TypesBut
  <2>3. Head(queue[ch]).device \in Ids /\ Obeyed(Head(queue[ch]).data) \in State
    <3>1. Head(queue[ch]).device \in Ids /\ Head(queue[ch]).data \in Payload \cup Body
      BY <2>1 DEF CommandType, WebType, RuleType
    <3>. QED
      BY <3>1, ObeyedType
  <2>. DEFINE made == Obeyed(Head(queue[ch]).data)
  <2>4. board' = [board EXCEPT ![Head(queue[ch]).device] = made] \/ board' = board
    BY <1>7 DEF Execute
  <2>. HIDE DEF made
  <2>5. board' \in [Ids -> State]
    <3>1. made \in State /\ board \in [Ids -> State]
      BY <1>1, <2>3 DEF made, TypesBut
    <3>. QED
      BY <2>3, <2>4, <3>1
  <2>6. TypesBut'
    BY <1>1, <1>7, <2>1, <2>5 DEF Execute, TypesBut
  <2>. QED
    BY <2>2, <2>6
<1>8. ASSUME NEW ch \in Channels, Open(ch) \/ Close(ch)
      PROVE  TypesBut' /\ QueuesTyped'
  <2>1. <<>> \in Seq(CommandType)
    BY EmptySeq
  <2>. QED
    BY <1>1, <1>8, <2>1 DEF Open, Close, TypesBut, QueuesTyped
<1>9. ASSUME NEW a \in Ids, LoseTopic(a)
      PROVE  TypesBut' /\ QueuesTyped'
  BY <1>1, <1>9 DEF LoseTopic, TypesBut, QueuesTyped
<1>. QED
  BY StepCases, <1>3, <1>4, <1>5, <1>6, <1>7, <1>8, <1>9 DEF SomeRequest
-----------------------------------------------------------------------------
(***************************************************************************)
(* What is right for one actuator.  It stays right when nothing about the  *)
(* actuator changes, and becomes right when a command for it is the last   *)
(* in the rows and on its channel and the only one under way elsewhere.    *)
(***************************************************************************)
AcceptedFor(a) == {i \in ForDevice(rows, a) : rows[i].ok}

\* The board does the last command: its line is not glued to another.
LastIntact(s, places) ==
  \A i \in places : (\A j \in places : j <= i) => s[i].intact

RightFor(a) ==
  /\ IF AcceptedFor(a) = {} THEN control[a] = Idle
     ELSE LastSays(rows, AcceptedFor(a), control[a])
  /\ (\A ch \in Channels : ForDevice(queue[ch], a) = {}) => control[a] = board[a]
  /\ \A ch \in Channels : LastSays(queue[ch], ForDevice(queue[ch], a), control[a])
  /\ \A ch \in Channels : LastIntact(queue[ch], ForDevice(queue[ch], a))

AllRight == \A a \in known : RightFor(a)

LEMMA RightForAll == AllRight => DashboardIsRight
BY DEF AllRight, DashboardIsRight, RightFor, AcceptedFor

LEMMA SameLast ==
  ASSUME NEW s, NEW t, NEW places, NEW data, \A i \in places : t[i] = s[i]
  PROVE  /\ LastSays(s, places, data) => LastSays(t, places, data)
         /\ LastIntact(s, places) => LastIntact(t, places)
BY DEF LastSays, LastIntact

LEMMA RightStays ==
  ASSUME NEW a, RightFor(a), control'[a] = control[a], board'[a] = board[a],
         AcceptedFor(a)' = AcceptedFor(a),
         \A i \in AcceptedFor(a) : rows'[i] = rows[i],
         \A c \in Channels :
           /\ ForDevice(queue'[c], a) = ForDevice(queue[c], a)
           /\ \A i \in ForDevice(queue[c], a) : queue'[c][i] = queue[c][i]
  PROVE  RightFor(a)'
<1>1. AcceptedFor(a) # {} => LastSays(rows', AcceptedFor(a)', control'[a])
  BY SameLast DEF RightFor
<1>2. ASSUME NEW c \in Channels
      PROVE  /\ LastSays(queue'[c], ForDevice(queue'[c], a), control'[a])
             /\ LastIntact(queue'[c], ForDevice(queue'[c], a))
  BY SameLast DEF RightFor
<1>. QED
  BY <1>1, <1>2 DEF RightFor

LEMMA RightBecomes ==
  ASSUME NEW a, NEW ch \in Channels,
         NEW n \in AcceptedFor(a)', AcceptedFor(a)' \subseteq Nat,
         \A i \in AcceptedFor(a)' : i >= n => Obeyed(rows'[i].data) = control'[a],
         NEW m \in ForDevice(queue'[ch], a), ForDevice(queue'[ch], a) \subseteq Nat,
         \A i \in ForDevice(queue'[ch], a) : i >= m =>
            Obeyed(queue'[ch][i].data) = control'[a] /\ queue'[ch][i].intact,
         \A c \in Channels \ {ch} : ForDevice(queue'[c], a) = {}
  PROVE  RightFor(a)'
<1>1. LastSays(rows', AcceptedFor(a)', control'[a])
  BY DEF LastSays
<1>2. ASSUME NEW c \in Channels
      PROVE  /\ LastSays(queue'[c], ForDevice(queue'[c], a), control'[a])
             /\ LastIntact(queue'[c], ForDevice(queue'[c], a))
  BY DEF LastSays, LastIntact
<1>3. AcceptedFor(a)' # {} /\ ~ (\A c \in Channels : ForDevice(queue'[c], a) = {})
  OBVIOUS
<1>. QED
  BY <1>1, <1>2, <1>3 DEF RightFor

Places(ch, list, data, sent, intact, written) ==
  /\ Len(rows) \in Nat /\ DOMAIN rows = 1..Len(rows)
  /\ DOMAIN rows' = 1..(Len(rows) + Len(list)) /\ Len(list) \in Nat
  /\ DOMAIN list = 1..Len(list) /\ \A i \in DOMAIN list : list[i] \in Ids
  /\ \A i \in DOMAIN rows : rows'[i] = rows[i]
  /\ \A i \in DOMAIN list :
       rows'[Len(rows) + i] = Row(list[i], data[i], ch, sent, written[i])
  /\ \A c \in Channels : (c = ch /\ sent) \/ queue'[c] = queue[c]
  /\ Len(queue[ch]) \in Nat /\ DOMAIN queue[ch] = 1..Len(queue[ch])
  /\ sent => /\ DOMAIN queue'[ch] = 1..(Len(queue[ch]) + Len(list))
             /\ \A i \in DOMAIN queue[ch] : queue'[ch][i] = queue[ch][i]
             /\ \A i \in DOMAIN list : queue'[ch][Len(queue[ch]) + i]
                                     = Command(list[i], data[i], "web", intact, written[i])

\* A request: the actuators it is not for keep their places in the rows and on
\* the channels, those it is taken for have a new last place in both.
LEMMA RequestKeepsPlaces ==
  ASSUME Types, NEW ch \in Channels, NEW list \in Seq(Ids), NEW data, NEW sent \in BOOLEAN,
         NEW intact \in BOOLEAN, NEW written, Requested(ch, list, data, sent, intact, written)
  PROVE  Places(ch, list, data, sent, intact, written)
<1>1. /\ Len(list) \in Nat /\ DOMAIN list = 1..Len(list)
      /\ \A i \in DOMAIN list : list[i] \in Ids
  BY LenProperties, ElementOfSeq
<1>2. /\ Len(NewRows(ch, list, data, sent, written)) = Len(list)
      /\ Len(NewCommands(list, data, intact, written)) = Len(list)
      /\ DOMAIN NewRows(ch, list, data, sent, written) = DOMAIN list
      /\ DOMAIN NewCommands(list, data, intact, written) = DOMAIN list
  <2>1. \A i \in DOMAIN list : data[i] \in Payload /\ written[i] \in BOOLEAN
    BY DEF Requested
  <2>. QED
    BY <2>1, NewItemsType DEF NewRows, NewCommands
<1>3. /\ Len(rows) \in Nat /\ DOMAIN rows = 1..Len(rows)
      /\ Len(queue[ch]) \in Nat /\ DOMAIN queue[ch] = 1..Len(queue[ch])
  BY LenProperties DEF Types, TypeOK
<1>4. /\ DOMAIN rows' = 1..(Len(rows) + Len(list))
      /\ \A i \in DOMAIN rows : rows'[i] = rows[i]
      /\ \A i \in DOMAIN list : rows'[Len(rows) + i] = NewRows(ch, list, data, sent, written)[i]
  <2>1. rows' \in Seq(RowType) /\ GrowsBy(rows', rows, NewRows(ch, list, data, sent, written))
    BY DEF Requested
  <2>. QED
    BY <1>2, <2>1, LenProperties DEF GrowsBy
<1>5. ASSUME sent
      PROVE  /\ DOMAIN queue'[ch] = 1..(Len(queue[ch]) + Len(list))
             /\ \A i \in DOMAIN queue[ch] : queue'[ch][i] = queue[ch][i]
             /\ \A i \in DOMAIN list : queue'[ch][Len(queue[ch]) + i]
                                       = NewCommands(list, data, intact, written)[i]
  <2>1. /\ queue'[ch] \in Seq(CommandType)
        /\ GrowsBy(queue'[ch], queue[ch], NewCommands(list, data, intact, written))
    BY <1>5 DEF Requested
  <2>. QED
    BY <1>2, <2>1, LenProperties DEF GrowsBy
<1>6. \A i \in DOMAIN list :
        /\ NewRows(ch, list, data, sent, written)[i] = Row(list[i], data[i], ch, sent, written[i])
        /\ NewCommands(list, data, intact, written)[i]
           = Command(list[i], data[i], "web", intact, written[i])
  BY DEF NewRows, NewCommands
<1>7. \A c \in Channels : (c = ch /\ sent) \/ queue'[c] = queue[c]
  BY DEF Requested
<1>. QED
  BY <1>1, <1>3, <1>4, <1>5, <1>6, <1>7 DEF Places

LEMMA RequestDashboard ==
  ASSUME Types, NEW ch \in Channels, NEW list \in Seq(Ids), NEW data, NEW sent \in BOOLEAN,
         NEW intact \in BOOLEAN, NEW written, Requested(ch, list, data, sent, intact, written),
         NEW b \in known', b \in known => RightFor(b)
  PROVE  RightFor(b)'
<1>0. Places(ch, list, data, sent, intact, written)
  BY RequestKeepsPlaces
<1>. DEFINE R == Len(rows)
            Q == Len(queue[ch])
            L == Len(list)
<1>1. /\ R \in Nat /\ L \in Nat /\ Q \in Nat
      /\ DOMAIN rows = 1..R /\ DOMAIN rows' = 1..(R + L)
      /\ DOMAIN queue[ch] = 1..Q /\ DOMAIN list = 1..L
  BY <1>0 DEF Places
<1>2. \A i \in 1..R : rows'[i] = rows[i]
  BY <1>0 DEF Places
<1>3. ASSUME NEW i \in 1..L
      PROVE  /\ rows'[R + i].device = list[i] /\ (rows'[R + i].ok <=> sent)
             /\ rows'[R + i].data = data[i]
  <2>1. rows'[R + i] = Row(list[i], data[i], ch, sent, written[i])
    BY <1>0 DEF Places
  <2>. HIDE DEF R, L
  <2>. QED
    BY <2>1 DEF Row
<1>4. \A c \in Channels : (c = ch /\ sent) \/ queue'[c] = queue[c]
  BY <1>0 DEF Places
<1>5. ASSUME sent
      PROVE  /\ DOMAIN queue'[ch] = 1..(Q + L)
             /\ \A i \in 1..Q : queue'[ch][i] = queue[ch][i]
             /\ \A i \in 1..L : /\ queue'[ch][Q + i].device = list[i]
                                /\ queue'[ch][Q + i].data = data[i]
                                /\ (queue'[ch][Q + i].intact <=> intact)
  <2>1. DOMAIN queue'[ch] = 1..(Q + L) /\ \A i \in 1..Q : queue'[ch][i] = queue[ch][i]
    BY <1>0, <1>5 DEF Places
  <2>2. \A i \in 1..L : queue'[ch][Q + i] = Command(list[i], data[i], "web", intact, written[i])
    BY <1>0, <1>1, <1>5 DEF Places
  <2>3. ASSUME NEW i \in 1..L
        PROVE  /\ queue'[ch][Q + i].device = list[i]
               /\ queue'[ch][Q + i].data = data[i]
               /\ (queue'[ch][Q + i].intact <=> intact)
    <3>1. queue'[ch][Q + i] = Command(list[i], data[i], "web", intact, written[i])
      BY <2>2
    <3>2. \A a, d, k, r : /\ Command(a, d, "web", k, r).device = a
                          /\ Command(a, d, "web", k, r).data = d
                          /\ Command(a, d, "web", k, r).intact = k
      BY DEF Command
    <3>. HIDE DEF Q, L
    <3>. QED
      BY <3>1, <3>2
  <2>. HIDE DEF Q, L
  <2>. QED
    BY <2>1, <2>3
<1>6. board' = board
  BY DEF Requested
<1>7. \/ /\ b \in known /\ control'[b] = control[b]
         /\ sent => \A i \in DOMAIN list : list[i] # b
      \/ /\ sent /\ intact /\ \E i \in DOMAIN list : list[i] = b
         /\ \A i \in DOMAIN list : list[i] = b => Obeyed(data[i]) = control'[b]
         /\ \A c \in Channels \ {ch} : ForDevice(queue[c], b) = {}
  BY DEF Requested
<1>. HIDE DEF R, Q, L
<1>8. \A i \in 1..(R + L) : i \in 1..R \/ (i - R \in 1..L /\ i = R + (i - R))
  BY <1>1
<1>9. \A i \in 1..(Q + L) : i \in 1..Q \/ (i - Q \in 1..L /\ i = Q + (i - Q))
  BY <1>1
<1>10. CASE /\ b \in known /\ control'[b] = control[b]
            /\ sent => \A i \in DOMAIN list : list[i] # b
  <2>1. AcceptedFor(b)' = AcceptedFor(b)
    <3>1. ASSUME NEW i \in AcceptedFor(b)' PROVE i \in AcceptedFor(b)
      <4>1. i \in 1..(R + L) /\ rows'[i].device = b /\ rows'[i].ok
        BY <1>1 DEF AcceptedFor, ForDevice
      <4>2. i \in 1..R
        BY <1>1, <1>3, <1>8, <1>10, <4>1
      <4>. QED
        BY <1>1, <1>2, <4>1, <4>2 DEF AcceptedFor, ForDevice
    <3>2. ASSUME NEW i \in AcceptedFor(b) PROVE i \in AcceptedFor(b)'
      BY <1>1, <1>2 DEF AcceptedFor, ForDevice
    <3>. QED
      BY <3>1, <3>2
  <2>2. \A i \in AcceptedFor(b) : rows'[i] = rows[i]
    BY <1>1, <1>2 DEF AcceptedFor, ForDevice
  <2>3. ASSUME NEW c \in Channels
        PROVE  /\ ForDevice(queue'[c], b) = ForDevice(queue[c], b)
               /\ \A i \in ForDevice(queue[c], b) : queue'[c][i] = queue[c][i]
    <3>1. CASE queue'[c] = queue[c]
      BY <3>1
    <3>2. CASE c = ch /\ sent
      <4>1. \A i \in ForDevice(queue'[ch], b) : i \in 1..Q
        <5>1. ASSUME NEW i \in ForDevice(queue'[ch], b), i \notin 1..Q PROVE FALSE
          <6>1. i \in 1..(Q + L) /\ queue'[ch][i].device = b
            BY <1>5, <3>2 DEF ForDevice
          <6>2. i - Q \in 1..L /\ i = Q + (i - Q)
            BY <1>9, <5>1, <6>1
          <6>3. queue'[ch][Q + (i - Q)].device = list[i - Q]
            BY <1>5, <3>2, <6>2
          <6>. QED
            BY <1>1, <1>10, <3>2, <6>1, <6>2, <6>3
        <5>. QED
          BY <5>1
      <4>. QED
        BY <1>1, <1>5, <3>2, <4>1 DEF ForDevice
    <3>. QED
      BY <1>4, <3>1, <3>2
  <2>. QED
    BY <1>6, <1>10, <2>1, <2>2, <2>3, RightStays
<1>11. CASE /\ sent /\ intact /\ \E i \in DOMAIN list : list[i] = b
            /\ \A i \in DOMAIN list : list[i] = b => Obeyed(data[i]) = control'[b]
            /\ \A c \in Channels \ {ch} : ForDevice(queue[c], b) = {}
  <2>1. PICK p \in 1..L : list[p] = b
    BY <1>1, <1>11
  <2>2. R + p \in AcceptedFor(b)' /\ AcceptedFor(b)' \subseteq Nat
    BY <1>1, <1>3, <1>11, <2>1 DEF AcceptedFor, ForDevice
  <2>3. ASSUME NEW i \in AcceptedFor(b)', i >= R + p
        PROVE  Obeyed(rows'[i].data) = control'[b]
    <3>1. i \in 1..(R + L) /\ rows'[i].device = b
      BY <1>1 DEF AcceptedFor, ForDevice
    <3>2. i - R \in 1..L /\ i = R + (i - R)
      BY <1>1, <2>3, <3>1
    <3>3. rows'[R + (i - R)].data = data[i - R] /\ list[i - R] = b
      BY <1>3, <3>1, <3>2
    <3>. QED
      BY <1>1, <1>11, <3>2, <3>3
  <2>4. Q + p \in ForDevice(queue'[ch], b) /\ ForDevice(queue'[ch], b) \subseteq Nat
    BY <1>1, <1>5, <1>11, <2>1 DEF ForDevice
  <2>5. ASSUME NEW i \in ForDevice(queue'[ch], b), i >= Q + p
        PROVE  Obeyed(queue'[ch][i].data) = control'[b] /\ queue'[ch][i].intact
    <3>1. i \in 1..(Q + L) /\ queue'[ch][i].device = b
      BY <1>5, <1>11 DEF ForDevice
    <3>2. i - Q \in 1..L /\ i = Q + (i - Q)
      BY <1>1, <2>5, <3>1
    <3>3. /\ queue'[ch][Q + (i - Q)].data = data[i - Q] /\ list[i - Q] = b
          /\ queue'[ch][Q + (i - Q)].intact
      BY <1>5, <1>11, <3>1, <3>2
    <3>. QED
      BY <1>1, <1>11, <3>2, <3>3
  <2>6. \A c \in Channels \ {ch} : ForDevice(queue'[c], b) = {}
    BY <1>4, <1>11
  <2>. QED
    BY <2>2, <2>3, <2>4, <2>5, <2>6, RightBecomes
<1>. QED
  BY <1>7, <1>10, <1>11

\* The board takes the first command of a channel.  If it was the last one for
\* its actuator, it was what ControlState shows.
LEMMA ExecuteShifts ==
  ASSUME Types, NEW ch \in Channels, Execute(ch)
  PROVE  /\ Len(queue[ch]) \in Nat \ {0} /\ DOMAIN queue[ch] = 1..Len(queue[ch])
         /\ DOMAIN queue'[ch] = 1..(Len(queue[ch]) - 1)
         /\ \A i \in 1..(Len(queue[ch]) - 1) : queue'[ch][i] = queue[ch][i + 1]
         /\ \A c \in Channels \ {ch} : queue'[c] = queue[c]
         /\ \/ board' = [board EXCEPT ![queue[ch][1].device] = Obeyed(queue[ch][1].data)]
            \/ ~queue[ch][1].intact /\ board' = board
         /\ queue[ch][1].device \in Ids /\ control' = control /\ rows' = rows
<1>1. queue[ch] \in Seq(CommandType) /\ queue[ch] # <<>> /\ DOMAIN queue = Channels
  BY TypesParts DEF QueuesTyped, TypesBut, Execute
<1>2. /\ Len(queue[ch]) \in Nat \ {0} /\ DOMAIN queue[ch] = 1..Len(queue[ch])
      /\ Head(queue[ch]) = queue[ch][1] /\ queue[ch][1] \in CommandType
  BY <1>1, EmptySeq, LenProperties, HeadTailProperties, ElementOfSeq
<1>3. queue'[ch] = Tail(queue[ch]) /\ \A c \in Channels \ {ch} : queue'[c] = queue[c]
  BY <1>1 DEF Execute
<1>4. /\ DOMAIN queue'[ch] = 1..(Len(queue[ch]) - 1)
      /\ \A i \in 1..(Len(queue[ch]) - 1) : queue'[ch][i] = queue[ch][i + 1]
  BY <1>1, <1>2, <1>3, HeadTailProperties, LenProperties
<1>5. queue[ch][1].device \in Ids
  BY <1>2 DEF CommandType, WebType, RuleType
<1>. QED
  BY <1>2, <1>3, <1>4, <1>5 DEF Execute

LEMMA ExecuteDashboard ==
  ASSUME Types, NEW ch \in Channels, Execute(ch), NEW b \in Ids, RightFor(b)
  PROVE  RightFor(b)'
<1>. DEFINE Q == Len(queue[ch])
            first == queue[ch][1]
<1>1. /\ Q \in Nat \ {0} /\ DOMAIN queue[ch] = 1..Q /\ DOMAIN queue'[ch] = 1..(Q - 1)
      /\ \A i \in 1..(Q - 1) : queue'[ch][i] = queue[ch][i + 1]
      /\ \A c \in Channels \ {ch} : queue'[c] = queue[c]
      /\ \/ board' = [board EXCEPT ![first.device] = Obeyed(first.data)]
         \/ ~first.intact /\ board' = board
      /\ first.device \in Ids /\ control' = control /\ rows' = rows
  BY ExecuteShifts
<1>2. board \in [Ids -> State]
  BY DEF Types, TypeOK
<1>. HIDE DEF Q
<1>3. ASSUME NEW c \in Channels
      PROVE  /\ LastSays(queue'[c], ForDevice(queue'[c], b), control'[b])
             /\ LastIntact(queue'[c], ForDevice(queue'[c], b))
  <2>1. /\ LastSays(queue[c], ForDevice(queue[c], b), control[b])
        /\ LastIntact(queue[c], ForDevice(queue[c], b))
    BY DEF RightFor
  <2>2. CASE c # ch
    BY <1>1, <2>1, <2>2
  <2>3. CASE c = ch
    <3>1. ASSUME NEW i \in ForDevice(queue'[ch], b),
                 \A j \in ForDevice(queue'[ch], b) : j <= i
          PROVE  Obeyed(queue'[ch][i].data) = control[b] /\ queue'[ch][i].intact
      <4>1. i \in 1..(Q - 1) /\ i + 1 \in ForDevice(queue[ch], b)
        BY <1>1 DEF ForDevice
      <4>2. ASSUME NEW j \in ForDevice(queue[ch], b) PROVE j <= i + 1
        <5>1. j \in 1..Q /\ queue[ch][j].device = b
          BY <1>1 DEF ForDevice
        <5>2. CASE j = 1
          BY <4>1, <5>2
        <5>3. CASE j # 1
          <6>1. j - 1 \in 1..(Q - 1) /\ (j - 1) + 1 = j
            BY <1>1, <5>1, <5>3
          <6>2. j - 1 \in ForDevice(queue'[ch], b)
            BY <1>1, <5>1, <6>1 DEF ForDevice
          <6>3. j - 1 <= i
            BY <3>1, <6>2
          <6>. QED
            BY <4>1, <5>1, <6>3
        <5>. QED
          BY <5>2, <5>3
      <4>3. Obeyed(queue[ch][i + 1].data) = control[b] /\ queue[ch][i + 1].intact
        BY <2>1, <2>3, <4>1, <4>2 DEF LastSays, LastIntact
      <4>. QED
        BY <1>1, <4>1, <4>3
    <3>. QED
      BY <1>1, <2>3, <3>1 DEF LastSays, LastIntact
  <2>. QED
    BY <2>2, <2>3
<1>4. ASSUME \A c \in Channels : ForDevice(queue'[c], b) = {}
      PROVE  control'[b] = board'[b]
  <2>1. ASSUME NEW j \in ForDevice(queue[ch], b) PROVE j = 1
    <3>1. j \in 1..Q /\ queue[ch][j].device = b
      BY <1>1 DEF ForDevice
    <3>2. ASSUME j # 1 PROVE FALSE
      <4>1. j - 1 \in 1..(Q - 1) /\ (j - 1) + 1 = j
        BY <1>1, <3>1, <3>2
      <4>2. j - 1 \in ForDevice(queue'[ch], b)
        BY <1>1, <3>1, <4>1 DEF ForDevice
      <4>. QED
        BY <1>4, <4>2
    <3>. QED
      BY <3>2
  <2>2. CASE first.device = b
    <3>1. 1 \in ForDevice(queue[ch], b)
      BY <1>1, <2>2 DEF ForDevice
    <3>2. Obeyed(first.data) = control[b] /\ first.intact
      BY <2>1, <3>1 DEF RightFor, LastSays, LastIntact
    <3>. QED
      BY <1>1, <1>2, <2>2, <3>2
  <2>3. CASE first.device # b
    <3>1. ForDevice(queue[ch], b) = {}
      BY <2>1, <2>3 DEF ForDevice
    <3>2. \A c \in Channels : ForDevice(queue[c], b) = {}
      BY <1>1, <1>4, <3>1
    <3>. QED
      BY <1>1, <1>2, <2>3, <3>2 DEF RightFor
  <2>. QED
    BY <2>2, <2>3
<1>5. IF AcceptedFor(b)' = {} THEN control'[b] = Idle
      ELSE LastSays(rows', AcceptedFor(b)', control'[b])
  BY <1>1 DEF RightFor, AcceptedFor
<1>. QED
  BY <1>3, <1>4, <1>5 DEF RightFor

\* A command of a rule leaves the actuators other than its own as they are.
LEMMA RuleDashboard ==
  ASSUME Types, NEW a \in Ids, NEW on \in {0, 1}, RuleCommand(a, on),
         NEW b \in known', RightFor(b)
  PROVE  RightFor(b)'
<1>1. b # a /\ "mqtt" \in Channels /\ control' = control /\ board' = board /\ rows' = rows
  BY DEF RuleCommand
<1>2. PICK sent \in RuleType : /\ queue' = [queue EXCEPT ![ "mqtt" ] = Append(@, sent)]
                             /\ sent.device = a
  BY RuleAdds
<1>3. queue["mqtt"] \in Seq(CommandType) /\ sent \in CommandType /\ DOMAIN queue = Channels
  BY <1>1, TypesParts DEF QueuesTyped, TypesBut, CommandType
<1>4. ASSUME NEW c \in Channels
      PROVE  /\ ForDevice(queue'[c], b) = ForDevice(queue[c], b)
             /\ \A i \in ForDevice(queue[c], b) : queue'[c][i] = queue[c][i]
  <2>1. CASE c # "mqtt"
    BY <1>2, <1>3, <2>1
  <2>2. CASE c = "mqtt"
    <3>1. queue'["mqtt"] = Append(queue["mqtt"], sent)
      BY <1>1, <1>2, <1>3
    <3>2. /\ Len(queue["mqtt"]) \in Nat /\ DOMAIN queue["mqtt"] = 1..Len(queue["mqtt"])
          /\ DOMAIN queue'["mqtt"] = 1..(Len(queue["mqtt"]) + 1)
          /\ \A i \in 1..Len(queue["mqtt"]) : queue'["mqtt"][i] = queue["mqtt"][i]
          /\ queue'["mqtt"][Len(queue["mqtt"]) + 1] = sent
      BY <1>3, <3>1, LenProperties
    <3>3. \A i \in DOMAIN queue'["mqtt"] :
             i \in DOMAIN queue["mqtt"] \/ i = Len(queue["mqtt"]) + 1
      BY <3>2
    <3>4. DOMAIN queue["mqtt"] \subseteq DOMAIN queue'["mqtt"]
      BY <3>2
    <3>. QED
      BY <1>1, <1>2, <2>2, <3>2, <3>3, <3>4 DEF ForDevice
  <2>. QED
    BY <2>1, <2>2
<1>. QED
  BY <1>1, <1>4, RightStays DEF AcceptedFor

\* A channel that closes takes with it what was known of the actuators it had
\* commands for.
LEMMA CloseDashboard ==
  ASSUME Types, NEW ch \in Channels, Close(ch), NEW b \in known', RightFor(b)
  PROVE  RightFor(b)'
<1>1. /\ \A i \in DOMAIN queue[ch] : queue[ch][i].device # b
      /\ control' = control /\ board' = board /\ rows' = rows
      /\ queue'[ch] = <<>> /\ \A c \in Channels \ {ch} : queue'[c] = queue[c]
  BY DEF Close, Types
<1>2. ForDevice(queue[ch], b) = {} /\ ForDevice(queue'[ch], b) = {}
  BY <1>1 DEF ForDevice
<1>3. ASSUME NEW c \in Channels
      PROVE  /\ ForDevice(queue'[c], b) = ForDevice(queue[c], b)
             /\ \A i \in ForDevice(queue[c], b) : queue'[c][i] = queue[c][i]
  BY <1>1, <1>2
<1>. QED
  BY <1>1, <1>3, RightStays DEF AcceptedFor

LEMMA DashboardInit == Init => AllRight
<1>. SUFFICES ASSUME Init, NEW a \in known PROVE RightFor(a)
  BY DEF AllRight
<1>1. AcceptedFor(a) = {} /\ \A ch \in Channels : ForDevice(queue[ch], a) = {}
  BY DEF Init, AcceptedFor, ForDevice
<1>. QED
  BY <1>1 DEF Init, RightFor, LastSays, LastIntact

LEMMA DashboardStep ==
  ASSUME Types, AllRight, [Next]_vars
  PROVE  AllRight'
<1>1. \A a \in known : RightFor(a)
  BY DEF AllRight
<1>2. known \subseteq Ids
  BY DEF Types, TypeOK
<1>. SUFFICES ASSUME NEW b \in known' PROVE RightFor(b)'
  BY DEF AllRight
<1>3. ASSUME b \in known, control' = control, board' = board, queue' = queue, rows' = rows
      PROVE  RightFor(b)'
  BY <1>1, <1>3 DEF RightFor, AcceptedFor
<1>4. CASE UNCHANGED vars
  BY <1>3, <1>4
<1>5. CASE Restart
  BY <1>5 DEF Restart
<1>6. CASE SomeRequest
  BY <1>1, <1>6, RequestDashboard DEF SomeRequest
<1>7. CASE \E a \in Ids, on \in {0, 1} : RuleCommand(a, on)
  <2>1. PICK a \in Ids, on \in {0, 1} : RuleCommand(a, on)
    BY <1>7
  <2>2. b \in known
    BY <2>1 DEF RuleCommand
  <2>. QED
    BY <1>1, <2>1, <2>2, RuleDashboard
<1>8. ASSUME NEW ch \in Channels, Execute(ch)
      PROVE  RightFor(b)'
  <2>1. b \in known
    BY <1>8 DEF Execute
  <2>. QED
    BY <1>1, <1>2, <1>8, <2>1, ExecuteDashboard
<1>9. ASSUME NEW ch \in Channels, Open(ch)
      PROVE  RightFor(b)'
  BY <1>3, <1>9 DEF Open
<1>10. ASSUME NEW ch \in Channels, Close(ch)
       PROVE  RightFor(b)'
  <2>1. b \in known
    BY <1>10 DEF Close
  <2>. QED
    BY <1>1, <1>10, <2>1, CloseDashboard
<1>11. ASSUME NEW a \in Ids, LoseTopic(a)
       PROVE  RightFor(b)'
  BY <1>3, <1>11 DEF LoseTopic
<1>. QED
  BY StepCases, <1>4, <1>5, <1>6, <1>7, <1>8, <1>9, <1>10, <1>11
-----------------------------------------------------------------------------
(***************************************************************************)
(* The history.  A request that is taken adds the same commands, in the    *)
(* same order, to the end of the rows and to the end of the channel; the   *)
(* board takes them off the channel's other end; a lost channel has none.  *)
(***************************************************************************)
SentRows(ch)    == {i \in DOMAIN rows : rows[i].channel = ch /\ rows[i].ok}
WebCommands(ch) == {i \in DOMAIN queue[ch] : queue[ch][i].by = "web"}

\* Each command of a client has its call of RecordCommand, whether that wrote a
\* row or not.
Followed(ch, row) ==
  /\ \A i \in WebCommands(ch) :
       /\ rows[row[i]].device = queue[ch][i].device /\ rows[row[i]].data = queue[ch][i].data
       /\ rows[row[i]].written <=> queue[ch][i].recorded
  /\ \A i, j \in WebCommands(ch) : i < j => row[i] < row[j]
  /\ \A i \in WebCommands(ch), r \in SentRows(ch) :
       row[i] < r => \E j \in WebCommands(ch) : row[j] = r

HistoryFor(ch) == \E row \in [WebCommands(ch) -> SentRows(ch)] : Followed(ch, row)

CallsFollowed == \A ch \in Channels : HistoryFor(ch)

LEMMA FollowedIsComplete == CallsFollowed => HistoryIsComplete
<1>. SUFFICES ASSUME CallsFollowed, NEW ch \in Channels
              PROVE  \E row \in [FromClient(ch) -> Accepted(ch)] : Recorded(ch, row)
  BY DEF HistoryIsComplete
<1>1. PICK row \in [WebCommands(ch) -> SentRows(ch)] : Followed(ch, row)
  BY DEF CallsFollowed, HistoryFor
<1>. DEFINE part == [i \in FromClient(ch) |-> row[i]]
<1>2. ASSUME NEW i \in FromClient(ch)
      PROVE  i \in WebCommands(ch) /\ row[i] \in Accepted(ch) /\ part[i] = row[i]
  <2>1. i \in WebCommands(ch) /\ queue[ch][i].recorded
    BY DEF FromClient, WebCommands
  <2>2. row[i] \in SentRows(ch) /\ rows[row[i]].written
    BY <1>1, <2>1 DEF Followed
  <2>. QED
    BY <2>1, <2>2 DEF SentRows, Accepted
<1>3. part \in [FromClient(ch) -> Accepted(ch)]
  BY <1>2
<1>. HIDE DEF part
<1>4. \A i \in FromClient(ch) :
        rows[part[i]].device = queue[ch][i].device /\ rows[part[i]].data = queue[ch][i].data
  BY <1>1, <1>2 DEF Followed
<1>5. \A i, j \in FromClient(ch) : i < j => part[i] < part[j]
  BY <1>1, <1>2 DEF Followed
<1>6. ASSUME NEW i \in FromClient(ch), NEW r \in Accepted(ch), part[i] < r
      PROVE  \E j \in FromClient(ch) : part[j] = r
  <2>1. r \in SentRows(ch) /\ rows[r].written
    BY DEF SentRows, Accepted
  <2>2. PICK j \in WebCommands(ch) : row[j] = r
    BY <1>1, <1>2, <1>6, <2>1 DEF Followed
  <2>3. j \in FromClient(ch)
    BY <1>1, <2>1, <2>2 DEF Followed, WebCommands, FromClient
  <2>. QED
    BY <1>2, <2>2, <2>3
<1>. QED
  BY <1>3, <1>4, <1>5, <1>6, Zenon DEF Recorded

LEMMA HistoryStays ==
  ASSUME NEW ch \in Channels, HistoryFor(ch),
         WebCommands(ch)' = WebCommands(ch), SentRows(ch)' = SentRows(ch),
         \A i \in WebCommands(ch) : queue'[ch][i] = queue[ch][i],
         \A i \in SentRows(ch) : rows'[i] = rows[i]
  PROVE  HistoryFor(ch)'
<1>1. PICK row \in [WebCommands(ch) -> SentRows(ch)] : Followed(ch, row)
  BY DEF HistoryFor
<1>2. row \in [WebCommands(ch)' -> SentRows(ch)']
  BY <1>1
<1>3. /\ \A i \in WebCommands(ch)' :
           /\ rows'[row[i]].device = queue'[ch][i].device
           /\ rows'[row[i]].data = queue'[ch][i].data
           /\ rows'[row[i]].written <=> queue'[ch][i].recorded
      /\ \A i, j \in WebCommands(ch)' : i < j => row[i] < row[j]
      /\ \A i \in WebCommands(ch)', r \in SentRows(ch)' :
           row[i] < r => \E j \in WebCommands(ch)' : row[j] = r
  BY <1>1 DEF Followed
<1>. QED
  BY <1>2, <1>3 DEF HistoryFor, Followed

LEMMA HistoryEmpty ==
  ASSUME NEW ch \in Channels, WebCommands(ch)' = {}
  PROVE  HistoryFor(ch)'
<1>. DEFINE row == [i \in {} |-> 0]
<1>1. row \in [WebCommands(ch)' -> SentRows(ch)']
  OBVIOUS
<1>. QED
  BY <1>1 DEF HistoryFor, Followed

LEMMA RequestHistory ==
  ASSUME Types, NEW ch \in Channels, NEW list \in Seq(Ids), NEW data, NEW sent \in BOOLEAN,
         NEW intact \in BOOLEAN, NEW written, Requested(ch, list, data, sent, intact, written),
         NEW c \in Channels, HistoryFor(c)
  PROVE  HistoryFor(c)'
<1>0. Places(ch, list, data, sent, intact, written)
  BY RequestKeepsPlaces
<1>. DEFINE R == Len(rows)
            Q == Len(queue[ch])
            L == Len(list)
<1>1. /\ R \in Nat /\ L \in Nat /\ Q \in Nat
      /\ DOMAIN rows = 1..R /\ DOMAIN rows' = 1..(R + L)
      /\ DOMAIN queue[ch] = 1..Q /\ DOMAIN list = 1..L
  BY <1>0 DEF Places
<1>2. \A i \in 1..R : rows'[i] = rows[i]
  BY <1>0 DEF Places
<1>3. ASSUME NEW i \in 1..L
      PROVE  /\ rows'[R + i].device = list[i] /\ (rows'[R + i].ok <=> sent)
             /\ rows'[R + i].data = data[i] /\ rows'[R + i].channel = ch
             /\ (rows'[R + i].written <=> written[i])
  <2>1. rows'[R + i] = Row(list[i], data[i], ch, sent, written[i])
    BY <1>0 DEF Places
  <2>. HIDE DEF R, L
  <2>. QED
    BY <2>1 DEF Row
<1>4. \A k \in Channels : (k = ch /\ sent) \/ queue'[k] = queue[k]
  BY <1>0 DEF Places
<1>5. ASSUME sent
      PROVE  /\ DOMAIN queue'[ch] = 1..(Q + L) /\ \A i \in 1..Q : queue'[ch][i] = queue[ch][i]
             /\ \A i \in 1..L :
                  queue'[ch][Q + i] = Command(list[i], data[i], "web", intact, written[i])
  <2>1. DOMAIN queue'[ch] = 1..(Q + L) /\ \A i \in 1..Q : queue'[ch][i] = queue[ch][i]
    BY <1>0, <1>5 DEF Places
  <2>2. \A i \in 1..L : queue'[ch][Q + i] = Command(list[i], data[i], "web", intact, written[i])
    BY <1>0, <1>1, <1>5 DEF Places
  <2>. HIDE DEF R, Q, L
  <2>. QED
    BY <2>1, <2>2
<1>. HIDE DEF R, Q, L
<1>6. \A i \in 1..(R + L) : i \in 1..R \/ (i - R \in 1..L /\ i = R + (i - R))
  BY <1>1
<1>7. \A i \in 1..(Q + L) : i \in 1..Q \/ (i - Q \in 1..L /\ i = Q + (i - Q))
  BY <1>1
<1>8. CASE ~ (c = ch /\ sent)
  <2>1. queue'[c] = queue[c] /\ WebCommands(c)' = WebCommands(c)
    BY <1>4, <1>8 DEF WebCommands
  <2>2. SentRows(c)' = SentRows(c)
    <3>1. ASSUME NEW i \in SentRows(c)' PROVE i \in SentRows(c)
      <4>1. i \in 1..(R + L) /\ rows'[i].channel = c /\ rows'[i].ok
        BY <1>1 DEF SentRows
      <4>2. i \in 1..R
        BY <1>3, <1>6, <1>8, <4>1
      <4>. QED
        BY <1>1, <1>2, <4>1, <4>2 DEF SentRows
    <3>2. ASSUME NEW i \in SentRows(c) PROVE i \in SentRows(c)'
      BY <1>1, <1>2 DEF SentRows
    <3>. QED
      BY <3>1, <3>2
  <2>3. \A i \in SentRows(c) : rows'[i] = rows[i]
    BY <1>1, <1>2 DEF SentRows
  <2>. QED
    BY <2>1, <2>2, <2>3, HistoryStays
<1>9. CASE c = ch /\ sent
  <2>1. /\ DOMAIN queue'[ch] = 1..(Q + L) /\ \A i \in 1..Q : queue'[ch][i] = queue[ch][i]
        /\ \A i \in 1..L :
             queue'[ch][Q + i] = Command(list[i], data[i], "web", intact, written[i])
    BY <1>5, <1>9
  <2>2. ASSUME NEW i \in 1..L
        PROVE  /\ queue'[ch][Q + i].device = list[i] /\ queue'[ch][Q + i].by = "web"
               /\ queue'[ch][Q + i].data = data[i]
               /\ (queue'[ch][Q + i].recorded <=> written[i])
    <3>1. queue'[ch][Q + i] = Command(list[i], data[i], "web", intact, written[i])
      BY <2>1
    <3>2. \A a, d, k, r : /\ Command(a, d, "web", k, r).device = a
                          /\ Command(a, d, "web", k, r).data = d
                          /\ Command(a, d, "web", k, r).by = "web"
                          /\ Command(a, d, "web", k, r).recorded = r
      BY DEF Command
    <3>. QED
      BY <3>1, <3>2
  <2>3. PICK row \in [WebCommands(ch) -> SentRows(ch)] : Followed(ch, row)
    BY <1>9 DEF HistoryFor
  <2>. DEFINE new == [i \in WebCommands(ch)' |-> IF i \in 1..Q THEN row[i] ELSE R + (i - Q)]
  <2>4. ASSUME NEW i \in WebCommands(ch)'
        PROVE  \/ i \in 1..Q /\ i \in WebCommands(ch) /\ row[i] \in SentRows(ch)
                  /\ row[i] \in 1..R /\ new[i] = row[i]
               \/ i \notin 1..Q /\ i - Q \in 1..L /\ i = Q + (i - Q)
                  /\ new[i] = R + (i - Q)
    <3>1. i \in 1..(Q + L) /\ queue'[ch][i].by = "web"
      BY <2>1 DEF WebCommands
    <3>2. CASE i \in 1..Q
      <4>1. i \in WebCommands(ch)
        BY <1>1, <2>1, <3>1, <3>2 DEF WebCommands
      <4>2. row[i] \in SentRows(ch)
        BY <2>3, <4>1
      <4>3. row[i] \in 1..R
        BY <1>1, <4>2 DEF SentRows
      <4>. QED
        BY <3>2, <4>1, <4>2, <4>3
    <3>3. CASE i \notin 1..Q
      BY <1>7, <3>1, <3>3
    <3>. QED
      BY <3>2, <3>3
  <2>5. ASSUME NEW i \in WebCommands(ch) PROVE i \in WebCommands(ch)' /\ new[i] = row[i]
    <3>1. i \in 1..Q /\ queue[ch][i].by = "web" /\ i \in 1..(Q + L)
      BY <1>1 DEF WebCommands
    <3>2. i \in WebCommands(ch)'
      BY <2>1, <3>1 DEF WebCommands
    <3>. QED
      BY <3>1, <3>2
  <2>6. ASSUME NEW p \in 1..L PROVE Q + p \in WebCommands(ch)' /\ new[Q + p] = R + p
    <3>1. Q + p \in 1..(Q + L) /\ Q + p \notin 1..Q /\ (Q + p) - Q = p
      BY <1>1
    <3>2. Q + p \in WebCommands(ch)'
      BY <2>1, <2>2, <3>1 DEF WebCommands
    <3>. QED
      BY <3>1, <3>2
  <2>7. \A i \in SentRows(ch) : i \in SentRows(ch)' /\ i \in 1..R
    BY <1>1, <1>2 DEF SentRows
  <2>8. ASSUME NEW p \in 1..L PROVE R + p \in SentRows(ch)'
    <3>1. R + p \in 1..(R + L)
      BY <1>1
    <3>2. rows'[R + p].channel = ch
      BY <1>3
    <3>3. rows'[R + p].ok
      BY <1>3, <1>9
    <3>. QED
      BY <1>1, <3>1, <3>2, <3>3 DEF SentRows
  <2>9. new \in [WebCommands(ch)' -> SentRows(ch)']
    <3>1. \A i \in WebCommands(ch)' : new[i] \in SentRows(ch)'
      BY <2>4, <2>7, <2>8
    <3>. QED
      BY <3>1
  <2>. HIDE DEF new
  <2>10. ASSUME NEW i \in WebCommands(ch)'
         PROVE  /\ rows'[new[i]].device = queue'[ch][i].device
                /\ rows'[new[i]].data = queue'[ch][i].data
                /\ rows'[new[i]].written <=> queue'[ch][i].recorded
    <3>1. CASE i \in 1..Q
      <4>1. i \in WebCommands(ch) /\ row[i] \in 1..R /\ new[i] = row[i]
        BY <2>4, <3>1
      <4>2. /\ rows[row[i]].device = queue[ch][i].device /\ rows[row[i]].data = queue[ch][i].data
            /\ rows[row[i]].written <=> queue[ch][i].recorded
        BY <2>3, <4>1 DEF Followed
      <4>. QED
        BY <1>2, <2>1, <3>1, <4>1, <4>2
    <3>2. CASE i \notin 1..Q
      <4>1. i - Q \in 1..L /\ i = Q + (i - Q) /\ new[i] = R + (i - Q)
        BY <2>4, <3>2
      <4>2. /\ rows'[R + (i - Q)].device = queue'[ch][Q + (i - Q)].device
            /\ rows'[R + (i - Q)].data = queue'[ch][Q + (i - Q)].data
            /\ rows'[R + (i - Q)].written <=> queue'[ch][Q + (i - Q)].recorded
        BY <1>3, <2>2, <4>1
      <4>. QED
        BY <4>1, <4>2
    <3>. QED
      BY <3>1, <3>2
  <2>11. ASSUME NEW i \in WebCommands(ch)', NEW j \in WebCommands(ch)', i < j
         PROVE  new[i] < new[j]
    <3>1. i \in 1..(Q + L) /\ j \in 1..(Q + L)
      BY <2>1 DEF WebCommands
    <3>2. CASE i \in 1..Q /\ j \in 1..Q
      BY <2>3, <2>4, <2>11, <3>2 DEF Followed
    <3>3. CASE i \in 1..Q /\ j \notin 1..Q
      <4>1. new[i] \in 1..R /\ j - Q \in 1..L /\ new[j] = R + (j - Q)
        BY <2>4, <3>3
      <4>. QED
        BY <1>1, <4>1
    <3>4. CASE i \notin 1..Q
      <4>1. j \notin 1..Q
        BY <1>1, <2>11, <3>1, <3>4
      <4>2. new[i] = R + (i - Q) /\ new[j] = R + (j - Q)
        BY <2>4, <3>4, <4>1
      <4>. QED
        BY <1>1, <2>11, <3>1, <4>2
    <3>. QED
      BY <3>2, <3>3, <3>4
  <2>12. ASSUME NEW i \in WebCommands(ch)', NEW r \in SentRows(ch)', new[i] < r
         PROVE  \E j \in WebCommands(ch)' : new[j] = r
    <3>1. r \in 1..(R + L) /\ rows'[r].channel = ch /\ rows'[r].ok
      BY <1>1 DEF SentRows
    <3>2. CASE r \in 1..R
      <4>1. r \in SentRows(ch)
        BY <1>1, <1>2, <3>1, <3>2 DEF SentRows
      <4>2. i \in WebCommands(ch) /\ new[i] = row[i]
        <5>1. ASSUME i \notin 1..Q PROVE FALSE
          <6>1. new[i] = R + (i - Q) /\ i - Q \in 1..L
            BY <2>4, <5>1
          <6>. QED
            BY <1>1, <2>12, <3>2, <6>1
        <5>. QED
          BY <2>4, <5>1
      <4>3. PICK j \in WebCommands(ch) : row[j] = r
        BY <2>3, <2>12, <4>1, <4>2 DEF Followed
      <4>. QED
        BY <2>5, <4>3
    <3>3. CASE r \notin 1..R
      <4>1. r - R \in 1..L /\ r = R + (r - R)
        BY <1>6, <3>1, <3>3
      <4>. QED
        BY <2>6, <4>1
    <3>. QED
      BY <3>2, <3>3
  <2>. QED
    BY <1>9, <2>9, <2>10, <2>11, <2>12 DEF HistoryFor, Followed
<1>. QED
  BY <1>8, <1>9

LEMMA ExecuteHistory ==
  ASSUME Types, NEW ch \in Channels, Execute(ch), NEW c \in Channels, HistoryFor(c)
  PROVE  HistoryFor(c)'
<1>. DEFINE Q == Len(queue[ch])
<1>1. /\ Q \in Nat \ {0} /\ DOMAIN queue[ch] = 1..Q /\ DOMAIN queue'[ch] = 1..(Q - 1)
      /\ \A i \in 1..(Q - 1) : queue'[ch][i] = queue[ch][i + 1]
      /\ \A k \in Channels \ {ch} : queue'[k] = queue[k]
      /\ rows' = rows
  BY ExecuteShifts
<1>. HIDE DEF Q
<1>2. \A k \in Channels : SentRows(k)' = SentRows(k)
  BY <1>1 DEF SentRows
<1>3. CASE c # ch
  <2>1. queue'[c] = queue[c] /\ WebCommands(c)' = WebCommands(c)
    BY <1>1, <1>3 DEF WebCommands
  <2>. QED
    BY <1>1, <1>2, <2>1, HistoryStays
<1>4. CASE c = ch
  <2>1. PICK row \in [WebCommands(ch) -> SentRows(ch)] : Followed(ch, row)
    BY <1>4 DEF HistoryFor
  <2>. DEFINE new == [i \in WebCommands(ch)' |-> row[i + 1]]
  <2>2. ASSUME NEW i \in WebCommands(ch)'
        PROVE  i \in 1..(Q - 1) /\ i + 1 \in WebCommands(ch) /\ row[i + 1] \in SentRows(ch)
    <3>1. i \in 1..(Q - 1) /\ queue'[ch][i].by = "web"
      BY <1>1 DEF WebCommands
    <3>2. i + 1 \in WebCommands(ch)
      BY <1>1, <3>1 DEF WebCommands
    <3>. QED
      BY <2>1, <3>1, <3>2
  <2>3. /\ new \in [WebCommands(ch)' -> SentRows(ch)']
        /\ \A i \in WebCommands(ch)' : new[i] = row[i + 1]
    BY <1>2, <2>2
  <2>. HIDE DEF new
  <2>4. \A i \in WebCommands(ch)' :
          /\ rows'[new[i]].device = queue'[ch][i].device
          /\ rows'[new[i]].data = queue'[ch][i].data
          /\ rows'[new[i]].written <=> queue'[ch][i].recorded
    BY <1>1, <2>1, <2>2, <2>3 DEF Followed
  <2>5. ASSUME NEW i \in WebCommands(ch)', NEW j \in WebCommands(ch)', i < j
        PROVE  new[i] < new[j]
    <3>1. i + 1 < j + 1
      BY <1>1, <2>2, <2>5
    <3>. QED
      BY <2>1, <2>2, <2>3, <3>1 DEF Followed
  <2>6. ASSUME NEW i \in WebCommands(ch)', NEW r \in SentRows(ch)', new[i] < r
        PROVE  \E j \in WebCommands(ch)' : new[j] = r
    <3>1. PICK j \in WebCommands(ch) : row[j] = r
      BY <1>2, <2>1, <2>2, <2>3, <2>6 DEF Followed
    <3>2. j \in 1..Q /\ queue[ch][j].by = "web"
      BY <1>1 DEF WebCommands
    <3>3. j # 1
      <4>1. ASSUME j = 1 PROVE FALSE
        <5>1. j < i + 1 /\ i + 1 \in WebCommands(ch)
          BY <1>1, <2>2, <4>1
        <5>2. row[j] < row[i + 1]
          BY <2>1, <5>1 DEF Followed
        <5>3. r \in Int /\ new[i] \in Int
          BY <1>2, <2>2, <2>3 DEF SentRows, Types, TypeOK
        <5>. QED
          BY <2>3, <2>6, <3>1, <5>2, <5>3
      <4>. QED
        BY <4>1
    <3>4. j - 1 \in 1..(Q - 1) /\ (j - 1) + 1 = j
      BY <1>1, <3>2, <3>3
    <3>5. j - 1 \in WebCommands(ch)'
      BY <1>1, <3>2, <3>4 DEF WebCommands
    <3>. QED
      BY <2>3, <3>1, <3>4, <3>5
  <2>7. \A i, j \in WebCommands(ch)' : i < j => new[i] < new[j]
    BY <2>5
  <2>8. \A i \in WebCommands(ch)', r \in SentRows(ch)' :
          new[i] < r => \E j \in WebCommands(ch)' : new[j] = r
    BY <2>6
  <2>9. new \in [WebCommands(ch)' -> SentRows(ch)']
    BY <2>3
  <2>. QED
    BY <1>4, <2>4, <2>7, <2>8, <2>9 DEF HistoryFor, Followed
<1>. QED
  BY <1>3, <1>4

LEMMA RuleHistory ==
  ASSUME Types, NEW a \in Ids, NEW on \in {0, 1}, RuleCommand(a, on),
         NEW c \in Channels, HistoryFor(c)
  PROVE  HistoryFor(c)'
<1>1. "mqtt" \in Channels /\ rows' = rows
  BY DEF RuleCommand
<1>2. PICK sent \in RuleType : queue' = [queue EXCEPT ![ "mqtt" ] = Append(@, sent)]
  BY RuleAdds
<1>3. /\ queue["mqtt"] \in Seq(CommandType) /\ DOMAIN queue = Channels
      /\ sent \in CommandType /\ sent.by = "rule"
  BY <1>1, TypesParts DEF QueuesTyped, TypesBut, CommandType, RuleType
<1>4. /\ WebCommands(c)' = WebCommands(c)
      /\ \A i \in WebCommands(c) : queue'[c][i] = queue[c][i]
  <2>1. CASE c # "mqtt"
    BY <1>2, <1>3, <2>1 DEF WebCommands
  <2>2. CASE c = "mqtt"
    <3>1. queue'["mqtt"] = Append(queue["mqtt"], sent)
      BY <1>1, <1>2, <1>3
    <3>2. /\ Len(queue["mqtt"]) \in Nat /\ DOMAIN queue["mqtt"] = 1..Len(queue["mqtt"])
          /\ DOMAIN queue'["mqtt"] = 1..(Len(queue["mqtt"]) + 1)
          /\ \A i \in 1..Len(queue["mqtt"]) : queue'["mqtt"][i] = queue["mqtt"][i]
          /\ queue'["mqtt"][Len(queue["mqtt"]) + 1] = sent
      BY <1>3, <3>1, LenProperties
    <3>3. \A i \in DOMAIN queue'["mqtt"] :
             i \in DOMAIN queue["mqtt"] \/ i = Len(queue["mqtt"]) + 1
      BY <3>2
    <3>4. DOMAIN queue["mqtt"] \subseteq DOMAIN queue'["mqtt"]
      BY <3>2
    <3>. QED
      BY <1>3, <2>2, <3>2, <3>3, <3>4 DEF WebCommands
  <2>. QED
    BY <2>1, <2>2
<1>5. SentRows(c)' = SentRows(c)
  BY <1>1 DEF SentRows
<1>. QED
  BY <1>1, <1>4, <1>5, HistoryStays

LEMMA HistoryInit == Init => CallsFollowed
<1>. SUFFICES ASSUME Init, NEW ch \in Channels PROVE HistoryFor(ch)
  BY DEF CallsFollowed
<1>. DEFINE row == [i \in {} |-> 0]
<1>1. WebCommands(ch) = {}
  BY DEF Init, WebCommands
<1>2. row \in [WebCommands(ch) -> SentRows(ch)]
  BY <1>1
<1>. QED
  BY <1>1, <1>2 DEF HistoryFor, Followed

LEMMA HistoryStep ==
  ASSUME Types, CallsFollowed, [Next]_vars
  PROVE  CallsFollowed'
<1>. SUFFICES ASSUME NEW c \in Channels PROVE HistoryFor(c)'
  BY DEF CallsFollowed
<1>1. HistoryFor(c)
  BY DEF CallsFollowed
<1>2. ASSUME queue' = queue, rows' = rows PROVE HistoryFor(c)'
  <2>1. WebCommands(c)' = WebCommands(c) /\ SentRows(c)' = SentRows(c)
    BY <1>2 DEF WebCommands, SentRows
  <2>. QED
    BY <1>1, <1>2, <2>1, HistoryStays
<1>3. ASSUME queue'[c] = <<>> PROVE HistoryFor(c)'
  <2>1. WebCommands(c)' = {}
    BY <1>3 DEF WebCommands
  <2>. QED
    BY <2>1, HistoryEmpty
<1>4. CASE UNCHANGED vars
  BY <1>2, <1>4
<1>5. CASE Restart
  BY <1>3, <1>5 DEF Restart
<1>6. CASE SomeRequest
  BY <1>1, <1>6, RequestHistory DEF SomeRequest
<1>7. CASE \E a \in Ids, on \in {0, 1} : RuleCommand(a, on)
  BY <1>1, <1>7, RuleHistory
<1>8. ASSUME NEW ch \in Channels, Execute(ch) PROVE HistoryFor(c)'
  BY <1>1, <1>8, ExecuteHistory
<1>9. ASSUME NEW ch \in Channels, Open(ch) PROVE HistoryFor(c)'
  BY <1>2, <1>9 DEF Open
<1>10. ASSUME NEW ch \in Channels, Close(ch) PROVE HistoryFor(c)'
  <2>1. queue' = [queue EXCEPT ![ch] = <<>>] /\ rows' = rows /\ DOMAIN queue = Channels
    BY <1>10 DEF Close, Types
  <2>2. CASE c = ch
    BY <1>3, <2>1, <2>2
  <2>3. CASE c # ch
    <3>1. queue'[c] = queue[c]
      BY <2>1, <2>3
    <3>2. WebCommands(c)' = WebCommands(c) /\ SentRows(c)' = SentRows(c)
      BY <2>1, <3>1 DEF WebCommands, SentRows
    <3>. QED
      BY <1>1, <2>1, <3>1, <3>2, HistoryStays
  <2>. QED
    BY <2>2, <2>3
<1>11. ASSUME NEW a \in Ids, LoseTopic(a) PROVE HistoryFor(c)'
  BY <1>2, <1>11 DEF LoseTopic
<1>. QED
  BY StepCases, <1>4, <1>5, <1>6, <1>7, <1>8, <1>9, <1>10, <1>11
-----------------------------------------------------------------------------
ControlInv == Types /\ AllRight /\ CallsFollowed

LEMMA InvHolds == Spec => []ControlInv
<1>1. Init => ControlInv
  BY TypesInit, DashboardInit, HistoryInit DEF ControlInv
<1>2. ControlInv /\ [Next]_vars => ControlInv'
  BY TypesStep, DashboardStep, HistoryStep DEF ControlInv
<1>. QED
  BY <1>1, <1>2, PTL DEF Spec

\* Nothing that a request leaves out gets into ControlState, a client's command
\* or a row, whatever the requests, the bulk requests and the rules are.
THEOREM NothingMissingGetsThrough == Spec => []TypeOK
<1>1. ControlInv => TypeOK
  BY DEF ControlInv, Types
<1>. QED
  BY <1>1, InvHolds, PTL

\* What ControlState shows of a known actuator is what the last command taken
\* says, and what the board does once the commands under way have arrived: with
\* numbers that ControlState cuts and json::Number rounds, rows that are not
\* written, and lines glued to what a failed write left.
THEOREM DashboardStaysRight == Spec => []DashboardIsRight
<1>1. ControlInv => DashboardIsRight
  BY RightForAll DEF ControlInv
<1>. QED
  BY <1>1, InvHolds, PTL

\* The commands of clients under way are the last accepted rows of their channel,
\* but for those whose row could not be written.
THEOREM HistoryStaysComplete == Spec => []HistoryIsComplete
<1>1. ControlInv => HistoryIsComplete
  BY FollowedIsComplete DEF ControlInv
<1>. QED
  BY <1>1, InvHolds, PTL
=============================================================================
