------------------------- MODULE GatewayCore_proofs -------------------------
(***************************************************************************)
(* Proofs about the two modules that model what gateway_core.cpp does      *)
(* beside its data path: GatewayLifecycle, for any number of gateways that *)
(* are started, stopped and crash in any order, and any tables and         *)
(* columns; and RuleLoop, for any rule files, channels and temperatures.   *)
(***************************************************************************)
EXTENDS GatewayLifecycle, RuleLoop, SequenceTheorems, FiniteSetTheorems,
        NaturalsInduction, WellFoundedInduction, TLAPS

\* Where a gateway has the port, and where it may have a stream.
Held    == {"zigbee", "mqtt", "loop", "sleep", "~zigbee", "~server"}
Streams == {"loop", "sleep", "~zigbee", "~server", "~camera", "~sleep"}

Typed ==
  /\ DOMAIN at = Gateway /\ DOMAIN next = Gateway /\ \A g \in Gateway : next[g] \in Nat \ {0}
  /\ serial \subseteq Gateway /\ session \subseteq Gateway
  /\ streaming_ \subseteq Gateway

\* The init script at work on one gateway.
Begins(g) == Start(g) \/ Launch(g) \/ RunByHand(g)

\* The steps that move one gateway and leave port, serial line and session alone.
Moves(g) ==
  \/ Exec(g) \/ InstallHandlers(g) \/ SetRunning(g) \/ CreateTable(g) \/ ColumnExists(g)
  \/ AddColumn(g) \/ Opened(g) \/ OpenFails(g) \/ SetLogger(g)
  \/ StartStream(g) \/ StopStream(g) \/ StopStreamReturns(g) \/ Leave(g) \/ CloseCamera(g)
  \/ Goes(g, "config", "schema") /\ UNCHANGED <<process, storage, devices, camera, scripts>>

Exits(g) == at[g] \notin Ended /\ Ends(g)

Binds(g) ==
  /\ port = None /\ Goes(g, "listen", "zigbee") /\ port' = g
  /\ UNCHANGED <<process, storage, serial, session, camera, scripts>>

Frees(g) ==
  /\ Goes(g, "~server", "~camera")
  /\ port' = (IF port = g THEN None ELSE port) /\ session' = session \ {g}
  /\ UNCHANGED <<process, storage, serial, camera, scripts>>

\* The steps that concern no gateway but its streams.
StreamsGo ==
  /\ gst' \subseteq gst /\ UNCHANGED <<at, process, storage, devices, streaming_, scripts>>

LEMMA StepCases ==
  ASSUME Next
  PROVE  \/ \E g \in Gateway : \/ Begins(g) \/ Moves(g) \/ Exits(g) \/ Binds(g) \/ Frees(g)
                               \/ OpenZigbee(g) \/ ConnectMqtt(g) \/ CloseZigbee(g)
         \/ StopByPid \/ KillGateways \/ StreamsGo
<1>1. ASSUME NEW g \in Gateway, LoadConfig(g) PROVE Moves(g) \/ Exits(g)
  BY <1>1 DEF LoadConfig, Moves, Exits, Ended
<1>2. ASSUME NEW g \in Gateway, Listen(g) PROVE Binds(g) \/ Exits(g)
  BY <1>2 DEF Listen, Binds, Exits, Ended
<1>3. ASSUME NEW g \in Gateway, FreeServer(g) PROVE Frees(g) \/ Exits(g)
  BY <1>3 DEF FreeServer, Frees, Exits, Ended
<1>4. ASSUME NEW g \in Gateway, CloseDatabase(g) \/ Crash(g) PROVE Exits(g)
  BY <1>4 DEF CloseDatabase, Crash, Exits, Alive, Ended
<1>5. KillStreams => StreamsGo
  BY DEF KillStreams, StreamsGo
<1>6. ASSUME NEW p \in gst, StreamEnds(p) PROVE StreamsGo
  BY <1>6 DEF StreamEnds, StreamsGo
<1>7. ASSUME NEW g \in Gateway, Step(g)
      PROVE  \/ Moves(g) \/ Exits(g) \/ Binds(g) \/ Frees(g)
             \/ OpenZigbee(g) \/ ConnectMqtt(g) \/ CloseZigbee(g)
  BY <1>1, <1>2, <1>3, <1>4, <1>7 DEF Step, Moves
<1>. QED
  BY <1>4, <1>5, <1>6, <1>7 DEF Next, Moves, Begins

\* What each kind of step does to the places of the gateways.
LEMMA BeginsMoves ==
  ASSUME Typed, NEW g \in Gateway, Begins(g)
  PROVE  /\ DOMAIN at' = Gateway /\ \A h \in Gateway \ {g} : at'[h] = at[h]
         /\ at[g] \in {"absent", "wait"} /\ at'[g] \in {"wait", "start.sh", "ended"}
         /\ UNCHANGED <<process, storage, devices, camera>>
BY DEF Begins, Start, Launch, RunByHand, New, Typed

LEMMA MovesMove ==
  ASSUME Typed, NEW g \in Gateway, Moves(g)
  PROVE  /\ DOMAIN at' = Gateway /\ \A h \in Gateway \ {g} : at'[h] = at[h]
         /\ at[g] \notin Ended /\ at'[g] \notin Ended
         /\ \/ at'[g] = at[g]
            \/ (at'[g] \in Held <=> at[g] \in Held) /\ at'[g] # "~server"
         /\ UNCHANGED <<devices, signalled, scripts>>
<1>1. DOMAIN at' = Gateway /\ \A h \in Gateway \ {g} : at'[h] = at[h]
  BY DEF Moves, InstallHandlers, SetRunning, CreateTable, ColumnExists, AddColumn,
         Opened, OpenFails, SetLogger, StartStream, StopStream, StopStreamReturns,
         Leave, CloseCamera, Interrupt, Kill, Exec, Goes, Typed
<1>2. UNCHANGED <<devices, signalled, scripts>>
  BY DEF Moves, InstallHandlers, SetRunning, CreateTable, ColumnExists, AddColumn,
         Opened, OpenFails, SetLogger, StartStream, StopStream, StopStreamReturns,
         Leave, CloseCamera, Interrupt, Kill, Exec, process
<1>3. at[g] \notin Ended /\ at'[g] \notin Ended
  BY DEF Moves, InstallHandlers, SetRunning, CreateTable, ColumnExists, AddColumn,
         Opened, OpenFails, SetLogger, StartStream, StopStream, StopStreamReturns,
         Leave, CloseCamera, Interrupt, Kill, Exec, Goes, Typed, Ended
<1>4. \/ at'[g] = at[g]
      \/ (at'[g] \in Held <=> at[g] \in Held) /\ at'[g] # "~server"
  BY DEF Moves, InstallHandlers, SetRunning, CreateTable, ColumnExists, AddColumn,
         Opened, OpenFails, SetLogger, StartStream, StopStream, StopStreamReturns,
         Leave, CloseCamera, Interrupt, Kill, Exec, Goes, Typed, Held
<1>. QED
  BY <1>1, <1>2, <1>3, <1>4

LEMMA ExitsEnds ==
  ASSUME Typed, NEW g \in Gateway, Exits(g)
  PROVE  /\ DOMAIN at' = Gateway /\ \A h \in Gateway \ {g} : at'[h] = at[h]
         /\ at[g] \notin Ended /\ at'[g] = "ended"
BY DEF Exits, Ends, Typed

Turns(g) == Binds(g) \/ Frees(g) \/ OpenZigbee(g) \/ ConnectMqtt(g) \/ CloseZigbee(g)

LEMMA TurnsMove ==
  ASSUME Typed, NEW g \in Gateway, Turns(g)
  PROVE  /\ DOMAIN at' = Gateway /\ \A h \in Gateway \ {g} : at'[h] = at[h]
         /\ at[g] \notin Ended /\ at'[g] \notin Ended
         /\ at[g] \in Streams => at'[g] \in Streams
         /\ UNCHANGED <<process, storage, camera, scripts>>
BY DEF Turns, Binds, Frees, OpenZigbee, ConnectMqtt, CloseZigbee, Goes, Typed, Ended, Streams

LEMMA SignalMoves ==
  ASSUME Typed, NEW G, Signal(G), NEW g \in Gateway
  PROVE  /\ DOMAIN at' = Gateway
         /\ \/ at'[g] = at[g] /\ (g \in signalled' <=> g \in signalled \cup G)
            \/ at[g] \in {"start.sh", "exec"} /\ at'[g] = "ended" /\ g \in G
<1>1. DOMAIN at' = Gateway
  BY DEF Signal, Typed
<1>2. CASE g \in G /\ at[g] \in {"start.sh", "exec"}
  <2>1. at'[g] = "ended"
    BY <1>2 DEF Signal
  <2>. QED
    BY <1>1, <1>2, <2>1
<1>3. CASE ~(g \in G /\ at[g] \in {"start.sh", "exec"})
  <2>1. at'[g] = at[g]
    BY <1>3 DEF Signal
  <2>2. g \in signalled' <=> g \in signalled \cup G
    BY <1>3 DEF Signal
  <2>. QED
    BY <1>1, <2>1, <2>2
<1>. QED
  BY <1>2, <1>3
-----------------------------------------------------------------------------
LEMMA TypedStep == ASSUME Typed, [Next]_vars PROVE Typed'
<1>1. CASE UNCHANGED vars
  BY <1>1 DEF Typed, vars, storage, devices, camera
<1>2. ASSUME NEW g \in Gateway, Moves(g) PROVE Typed'
  <2>1. DOMAIN at' = Gateway /\ UNCHANGED <<serial, session>>
    BY <1>2, MovesMove DEF devices
  <2>2. UNCHANGED next \/ next' = [next EXCEPT ![g] = @ + 1]
    BY <1>2 DEF Moves, InstallHandlers, SetRunning, CreateTable, ColumnExists, AddColumn,
                Opened, OpenFails, SetLogger, StartStream, StopStream, StopStreamReturns,
                Leave, CloseCamera, Interrupt, Kill, Exec, storage
  <2>3. streaming_' \subseteq Gateway
    BY <1>2 DEF Moves, InstallHandlers, SetRunning, CreateTable, ColumnExists, AddColumn,
                Opened, OpenFails, SetLogger, StartStream, StopStream, StopStreamReturns,
                Leave, CloseCamera, Interrupt, Kill, Exec, Typed, camera
  <2>4. DOMAIN next' = Gateway /\ \A h \in Gateway : next'[h] \in Nat \ {0}
    BY <2>2 DEF Typed
  <2>. QED
    BY <2>1, <2>3, <2>4 DEF Typed
<1>3. ASSUME NEW g \in Gateway, Exits(g) PROVE Typed'
  <2>1. DOMAIN next' = Gateway /\ \A h \in Gateway : next'[h] \in Nat \ {0}
    BY <1>3 DEF Exits, Ends, Typed
  <2>. QED
    BY <1>3, <2>1 DEF Exits, Ends, Typed
<1>4. ASSUME NEW g \in Gateway, Begins(g) \/ Turns(g) PROVE Typed'
  <2>1. DOMAIN at' = Gateway /\ UNCHANGED <<next, streaming_>>
    BY <1>4, BeginsMoves, TurnsMove DEF storage, camera
  <2>2. serial' \subseteq Gateway /\ session' \subseteq Gateway
    BY <1>4, BeginsMoves DEF Turns, Binds, Frees, OpenZigbee, ConnectMqtt, CloseZigbee, Typed,
                             devices
  <2>. QED
    BY <2>1, <2>2 DEF Typed
<1>5. CASE StopByPid \/ KillGateways \/ StreamsGo
  <2>1. DOMAIN at' = Gateway /\ UNCHANGED <<next, serial, session, streaming_>>
    BY <1>5 DEF StopByPid, KillGateways, StreamsGo, Signal, Typed, storage, devices, camera
  <2>. QED
    BY <2>1 DEF Typed
<1>. QED
  BY <1>1, <1>2, <1>3, <1>4, <1>5, StepCases DEF Turns
-----------------------------------------------------------------------------
\* The port belongs to the gateway that is between binding and freeing it, and
\* serial line and session to that gateway.
PortInv ==
  /\ \A g \in Gateway : at[g] \in Held => port = g
  /\ port # None => port \in Gateway /\ at[port] \in Held
  /\ serial \cup session \subseteq {port}
  /\ \A g \in serial : at[g] # "~server"

LEMMA PortStep == ASSUME Typed, PortInv, [Next]_vars PROVE PortInv'
<1>1. CASE UNCHANGED vars
  BY <1>1 DEF PortInv, vars, devices
<1>2. ASSUME NEW g \in Gateway, Moves(g) PROVE PortInv'
  BY <1>2, MovesMove DEF PortInv, Typed, devices
<1>3. ASSUME NEW g \in Gateway, Exits(g) PROVE PortInv'
  <2>1. /\ at'[g] = "ended" /\ \A h \in Gateway \ {g} : at'[h] = at[h]
        /\ serial' = serial \ {g} /\ session' = session \ {g}
        /\ port' = IF port = g THEN None ELSE port
    BY <1>3, ExitsEnds DEF Exits, Ends
  <2>. QED
    BY <2>1, GatewaysAssumption DEF PortInv, Typed, Gateway, Held
<1>4. ASSUME NEW g \in Gateway, Begins(g) PROVE PortInv'
  <2>1. at[g] \notin Held /\ at'[g] \notin Held \cup {"~server"}
    BY <1>4, BeginsMoves DEF Held
  <2>. QED
    BY <1>4, <2>1, BeginsMoves DEF PortInv, Typed, devices
<1>5. ASSUME NEW g \in Gateway, Binds(g) PROVE PortInv'
  <2>1. serial = {} /\ session = {}
    BY <1>5, GatewaysAssumption DEF Binds, PortInv, Typed, Gateway
  <2>2. \A h \in Gateway : at[h] \notin Held
    BY <1>5, GatewaysAssumption DEF Binds, PortInv, Gateway
  <2>3. at'[g] = "zigbee" /\ port' = g /\ \A h \in Gateway \ {g} : at'[h] = at[h]
    BY <1>5 DEF Binds, Goes, Typed
  <2>4. serial' = {} /\ session' = {}
    BY <1>5, <2>1 DEF Binds
  <2>. QED
    BY <2>2, <2>3, <2>4 DEF PortInv, Held
<1>6. ASSUME NEW g \in Gateway, Frees(g) PROVE PortInv'
  <2>1. port = g /\ session' = {} /\ serial = {}
    BY <1>6 DEF Frees, Goes, PortInv, Held
  <2>2. port' = None
    BY <1>6, <2>1 DEF Frees
  <2>3. at'[g] = "~camera" /\ \A h \in Gateway \ {g} : at'[h] = at[h]
    BY <1>6 DEF Frees, Goes, Typed
  <2>. QED
    BY <1>6, <2>1, <2>2, <2>3 DEF Frees, PortInv, Held
<1>7. ASSUME NEW g \in Gateway, OpenZigbee(g) \/ ConnectMqtt(g) \/ CloseZigbee(g)
      PROVE  PortInv'
  BY <1>7 DEF OpenZigbee, ConnectMqtt, CloseZigbee, Goes, Typed, PortInv, devices, Held
<1>8. CASE StopByPid \/ KillGateways
  BY <1>8 DEF StopByPid, KillGateways, Signal, Typed, PortInv, devices, Held
<1>9. CASE StreamsGo
  BY <1>9 DEF StreamsGo, PortInv, devices
<1>. QED
  BY <1>1, <1>2, <1>3, <1>4, <1>5, <1>6, <1>7, <1>8, <1>9, StepCases

LEMMA InitInv == Init => Typed /\ PortInv
<1>1. Init => Typed
  BY DEF Init, Typed
<1>2. Init => PortInv
  BY DEF Init, PortInv, Held
<1>. QED
  BY <1>1, <1>2

\* Whatever starts, stops and crashes overlap, the serial line and the broker's
\* session are used by the gateway that has the HTTP port, and by no other.
THEOREM DevicesHaveOneOwner == Spec => []OneOpensTheDevices
<1>2. PortInv => OneOpensTheDevices
  BY DEF PortInv, OneOpensTheDevices
<1>. QED
  BY <1>2, InitInv, TypedStep, PortStep, PTL DEF Spec
-----------------------------------------------------------------------------
\* The pid file names every gateway that the script alone started and nobody has
\* told to stop, so there is at most one; and there is none while a start waits,
\* and no other start without leaving its mark.
Regular == Alive \ (signalled \cup irregular)

PidInv ==
  /\ \A g \in Regular : pid_file = g
  /\ Starting # {} => Regular = {}
  /\ \A g \in Starting, h \in Starting : g # h => g \in irregular

LEMMA PidStep == ASSUME Typed, PidInv, [Next]_vars PROVE PidInv'
<1>1. CASE UNCHANGED vars
  BY <1>1 DEF PidInv, Regular, Alive, Starting, vars, process, scripts
<1>2. ASSUME NEW g \in Gateway, at[g] \notin Ended, at'[g] # "wait",
             at'[g] = "ended" \/ UNCHANGED signalled,
             signalled \ {g} \subseteq signalled', UNCHANGED scripts,
             \A h \in Gateway \ {g} : at'[h] = at[h]
      PROVE  PidInv'
  <2>1. Regular' \subseteq Regular
    BY <1>2 DEF Regular, Alive, Ended, scripts
  <2>2. Starting' = Starting
    BY <1>2 DEF Starting, Ended
  <2>. QED
    BY <1>2, <2>1, <2>2 DEF PidInv, scripts
<1>3. ASSUME NEW g \in Gateway, Moves(g) \/ Turns(g) PROVE PidInv'
  BY <1>2, <1>3, MovesMove, TurnsMove DEF process, Ended
<1>4. ASSUME NEW g \in Gateway, Exits(g) PROVE PidInv'
  <2>1. signalled' = signalled \ {g} /\ UNCHANGED scripts
    BY <1>4 DEF Exits, Ends
  <2>. QED
    BY <1>2, <1>4, <2>1, ExitsEnds
<1>5. ASSUME NEW g \in Gateway, Start(g) PROVE PidInv'
  <2>1. /\ UNCHANGED <<pid_file, signalled>> /\ pid_file \notin Alive
        /\ at[g] = "absent" /\ at'[g] = "wait" /\ \A h \in Gateway \ {g} : at'[h] = at[h]
        /\ irregular' = IF Starting = {} THEN irregular ELSE irregular \cup Starting \cup {g}
    BY <1>5 DEF Start, New, process, Typed
  <2>2. Regular = {}
    BY <2>1 DEF PidInv, Regular
  <2>3. Regular' = {}
    BY <2>1, <2>2 DEF Regular, Alive, Ended
  <2>4. Starting' = Starting \cup {g}
    BY <2>1 DEF Starting
  <2>. QED
    BY <2>1, <2>3, <2>4 DEF PidInv
<1>6. ASSUME NEW g \in Gateway, Launch(g) PROVE PidInv'
  <2>1. /\ UNCHANGED <<irregular, signalled>> /\ at[g] = "wait" /\ at'[g] # "wait"
        /\ at'[g] = "ended" \/ pid_file' = g
    BY <1>6 DEF Launch, process, Typed
  <2>2. \A h \in Gateway \ {g} : at'[h] = at[h]
    BY <1>6 DEF Launch, Typed
  <2>3. g \in Starting /\ Starting' = Starting \ {g}
    BY <2>1, <2>2 DEF Starting
  <2>4. Regular = {}
    BY <2>3 DEF PidInv
  <2>5. Regular' \subseteq {g} /\ (at'[g] = "ended" \/ g \in irregular => Regular' = {})
    BY <2>1, <2>2, <2>4 DEF Regular, Alive, Ended
  <2>6. Starting' # {} => g \in irregular
    BY <2>3 DEF PidInv
  <2>. QED
    BY <2>1, <2>3, <2>5, <2>6 DEF PidInv
<1>7. ASSUME NEW g \in Gateway, RunByHand(g) PROVE PidInv'
  <2>1. /\ UNCHANGED <<pid_file, signalled>> /\ irregular' = irregular \cup {g}
        /\ at[g] = "absent" /\ at'[g] = "start.sh" /\ \A h \in Gateway \ {g} : at'[h] = at[h]
    BY <1>7 DEF RunByHand, New, process, Typed
  <2>2. Regular' \subseteq Regular /\ Starting' = Starting
    BY <2>1 DEF Regular, Alive, Starting, Ended
  <2>. QED
    BY <2>1, <2>2 DEF PidInv
<1>8. ASSUME NEW G, Signal(G), irregular \subseteq irregular' PROVE
        /\ Regular' \subseteq Regular \ G /\ Starting' = Starting
  <2>1. ASSUME NEW g \in Regular' PROVE g \in Regular \ G
    <3>1. g \in Gateway /\ at'[g] \notin Ended /\ g \notin signalled' /\ g \notin irregular
      BY <1>8, <2>1 DEF Regular, Alive
    <3>2. at'[g] = at[g] /\ g \notin signalled \cup G
      BY <1>8, <3>1, SignalMoves DEF Ended
    <3>. QED
      BY <3>1, <3>2 DEF Regular, Alive
  <2>2. \A g \in Gateway : at'[g] = "wait" <=> at[g] = "wait"
    BY <1>8, SignalMoves
  <2>. QED
    BY <2>1, <2>2 DEF Starting
<1>9. CASE StopByPid
  <2>1. /\ Regular' \subseteq Regular \ ({pid_file} \cap Alive) /\ Starting' = Starting
        /\ irregular' = irregular \cup Starting
    BY <1>8, <1>9 DEF StopByPid
  <2>2. Regular' = {}
    BY <2>1 DEF PidInv, Regular
  <2>. QED
    BY <2>1, <2>2 DEF PidInv
<1>10. CASE KillGateways
  <2>1. Regular' \subseteq Regular /\ Starting' = Starting /\ UNCHANGED scripts
    BY <1>8, <1>10 DEF KillGateways, scripts
  <2>. QED
    BY <2>1 DEF PidInv, scripts
<1>11. CASE StreamsGo
  BY <1>11 DEF StreamsGo, PidInv, Regular, Alive, Starting, process, scripts
<1>. QED
  BY <1>1, <1>3, <1>4, <1>5, <1>6, <1>7, <1>9, <1>10, <1>11, StepCases DEF Begins, Turns

\* A gateway that the script started and nobody told to stop finds the port taken
\* only by one that was told to stop, or that was started by hand or by a start
\* that another invocation of the script overlapped.
THEOREM OnlyPredecessorsRefuse == Spec => []RefusedByThePredecessor
<1>1. Init => PidInv
  BY DEF Init, PidInv, Regular, Alive, Starting, Ended
<1>2. PortInv /\ PidInv => RefusedByThePredecessor
  <2> SUFFICES ASSUME PortInv, PidInv, NEW g \in Gateway \ (signalled \cup Unchecked),
                      at[g] = "listen", port # None, port \notin signalled \cup Unchecked
               PROVE  FALSE
    BY DEF RefusedByThePredecessor
  <2>1. port \in Gateway /\ at[port] \in Held
    BY DEF PortInv
  <2>2. port \in Regular /\ g \in Regular
    BY <2>1 DEF Regular, Alive, Ended, Held, Unchecked
  <2>3. port = g
    BY <2>2 DEF PidInv
  <2>. QED
    BY <2>1, <2>3 DEF Held
<1>. QED
  BY <1>1, <1>2, InitInv, TypedStep, PortStep, PidStep, PTL DEF Spec
-----------------------------------------------------------------------------
LEMMA StatementsAreSeq ==
  /\ DOMAIN Statements = 1..Len(Statements) /\ Len(Statements) \in Nat
  /\ Schema = {Statements[i] : i \in 1..Len(Statements)}
<1>1. Statements \in Seq(STRING)
  BY StatementsAssumption, ConcatProperties DEF Statements
<1>2. DOMAIN Statements = 1..Len(Statements) /\ Len(Statements) \in Nat
  BY <1>1, LenProperties
<1>. QED
  BY <1>2 DEF Schema, Range

\* What a gateway has executed is in the file, whoever wrote it.
SchemaInv ==
  /\ db_ \subseteq Gateway
  /\ \A g \in Gateway, i \in DOMAIN Statements : i < next[g] => Statements[i] \in disk
  /\ SchemaIsWhole

LEMMA SchemaStep == ASSUME Typed, SchemaInv, [Next]_vars PROVE SchemaInv'
<1>1. ASSUME UNCHANGED <<next, db_, disk>> PROVE SchemaInv'
  BY <1>1 DEF SchemaInv, SchemaIsWhole
<1>2. ASSUME NEW g \in Gateway, CreateTable(g) \/ ColumnExists(g) \/ AddColumn(g)
      PROVE  SchemaInv'
  <2>1. disk \subseteq disk' /\ UNCHANGED db_
    BY <1>2 DEF CreateTable, ColumnExists, AddColumn
  <2>2. \/ UNCHANGED next
        \/ next' = [next EXCEPT ![g] = @ + 1] /\ Statements[next[g]] \in disk'
    BY <1>2 DEF CreateTable, ColumnExists, AddColumn
  <2>3. ASSUME NEW h \in Gateway, NEW i \in DOMAIN Statements, i < next'[h]
        PROVE  Statements[i] \in disk'
    <3>1. i \in Nat /\ next[h] \in Nat
      BY StatementsAreSeq DEF Typed
    <3>2. i < next[h] \/ (i = next[h] /\ h = g /\ Statements[next[g]] \in disk')
      BY <2>2, <2>3, <3>1 DEF Typed
    <3>. QED
      BY <2>1, <3>2 DEF SchemaInv
  <2>. QED
    BY <2>1, <2>3 DEF SchemaInv, SchemaIsWhole
<1>3. ASSUME NEW g \in Gateway, Opened(g) PROVE SchemaInv'
  <2>1. UNCHANGED <<next, disk>> /\ db_' = db_ \cup {g} /\ next[g] \notin DOMAIN Statements
    BY <1>3 DEF Opened
  <2>2. \A i \in DOMAIN Statements : Statements[i] \in disk
    <3>1. \A i \in DOMAIN Statements : i < next[g]
      BY <2>1, StatementsAreSeq DEF Typed
    <3>. QED
      BY <3>1 DEF SchemaInv
  <2>3. Schema \subseteq disk
    BY <2>2, StatementsAreSeq
  <2>. QED
    BY <2>1, <2>3 DEF SchemaInv, SchemaIsWhole
<1>4. ASSUME NEW g \in Gateway, Exits(g) PROVE SchemaInv'
  <2>1. next' = [next EXCEPT ![g] = 1] /\ db_' = db_ \ {g} /\ UNCHANGED disk
    BY <1>4 DEF Exits, Ends
  <2>2. \A i \in DOMAIN Statements : ~(i < 1)
    BY StatementsAreSeq
  <2>. QED
    BY <2>1, <2>2 DEF SchemaInv, SchemaIsWhole, Typed
<1>5. CASE UNCHANGED vars
  BY <1>1, <1>5 DEF vars, storage
<1>6. ASSUME NEW g \in Gateway, Moves(g),
             ~(CreateTable(g) \/ ColumnExists(g) \/ AddColumn(g) \/ Opened(g))
      PROVE  UNCHANGED <<next, db_, disk>>
  BY <1>6 DEF Moves, Exec, InstallHandlers, SetRunning, OpenFails, SetLogger, StartStream,
              StopStream, StopStreamReturns, Leave, CloseCamera, Interrupt, Kill, storage
<1>7. ASSUME NEW g \in Gateway, Begins(g) \/ Turns(g) PROVE UNCHANGED <<next, db_, disk>>
  BY <1>7, BeginsMoves, TurnsMove DEF storage
<1>8. StopByPid \/ KillGateways \/ StreamsGo => UNCHANGED <<next, db_, disk>>
  BY DEF StopByPid, KillGateways, StreamsGo, Signal, storage
<1>. QED
  BY <1>1, <1>2, <1>3, <1>4, <1>5, <1>6, <1>7, <1>8, StepCases DEF Turns

\* An open database has the whole schema, wherever the migrations of any number of
\* gateways were cut off or overtook each other.
THEOREM OpenIsMigrated == Spec => []SchemaIsWhole
<1>1. Init => SchemaInv
  <2>1. \A i \in DOMAIN Statements : ~(i < 1)
    BY StatementsAreSeq
  <2>. QED
    BY <2>1 DEF Init, SchemaInv, SchemaIsWhole
<1>2. SchemaInv => SchemaIsWhole
  BY DEF SchemaInv
<1>. QED
  BY <1>1, <1>2, InitInv, TypedStep, SchemaStep, PTL DEF Spec
-----------------------------------------------------------------------------
\* A gateway streams only between start-up and the end of ~CameraManager.
StreamInv == \A g \in streaming_ : at[g] \in Streams

LEMMA StreamStep == ASSUME Typed, StreamInv, [Next]_vars PROVE StreamInv'
<1>1. CASE UNCHANGED vars
  BY <1>1 DEF StreamInv, vars, camera
<1>2. ASSUME NEW g \in Gateway, \A h \in Gateway \ {g} : at'[h] = at[h],
             \/ streaming_' \subseteq streaming_ /\ (at[g] \in Streams => at'[g] \in Streams)
             \/ streaming_' \subseteq streaming_ \ {g}
             \/ streaming_' \subseteq streaming_ \cup {g} /\ at'[g] \in Streams
      PROVE  StreamInv'
  BY <1>2 DEF StreamInv, Typed
<1>3. ASSUME NEW g \in Gateway, Moves(g) PROVE StreamInv'
  <2>1. \A h \in Gateway \ {g} : at'[h] = at[h]
    BY <1>3, MovesMove
  <2>2. CASE StartStream(g)
    BY <1>2, <2>1, <2>2 DEF StartStream, Streams
  <2>3. CASE StopStream(g) \/ StopStreamReturns(g) \/ CloseCamera(g)
    <3>1. CASE \E from, to \in Streams : Interrupt(g, from, to)
      BY <1>2, <2>1, <3>1 DEF Interrupt, Goes, Typed
    <3>2. CASE \E from, to : Kill(g, from, to)
      BY <1>2, <2>1, <3>2 DEF Kill
    <3>3. CASE g \notin streaming_ /\ UNCHANGED camera
      BY <1>2, <2>1, <3>3 DEF camera
    <3>. QED
      BY <2>3, <3>1, <3>2, <3>3 DEF StopStream, StopStreamReturns, CloseCamera, Streams
  <2>4. ASSUME ~StartStream(g), ~StopStream(g), ~StopStreamReturns(g), ~CloseCamera(g)
        PROVE  UNCHANGED streaming_ /\ (at[g] \in Streams => at'[g] \in Streams)
    BY <1>3, <2>4 DEF Moves, Exec, InstallHandlers, SetRunning, CreateTable, ColumnExists,
          AddColumn, Opened, OpenFails, SetLogger, Leave, Goes, Typed, Streams, camera
  <2>. QED
    BY <1>2, <2>1, <2>2, <2>3, <2>4
<1>4. ASSUME NEW g \in Gateway, Exits(g) PROVE StreamInv'
  <2>1. streaming_' = streaming_ \ {g}
    BY <1>4 DEF Exits, Ends
  <2>. QED
    BY <1>2, <1>4, <2>1, ExitsEnds
<1>5. ASSUME NEW g \in Gateway, Turns(g) PROVE StreamInv'
  BY <1>2, <1>5, TurnsMove DEF camera
<1>6. ASSUME NEW g \in Gateway, Begins(g) PROVE StreamInv'
  <2>1. at[g] \notin Streams
    BY <1>6, BeginsMoves DEF Streams
  <2>. QED
    BY <1>2, <1>6, <2>1, BeginsMoves DEF camera
<1>7. ASSUME NEW G, Signal(G) PROVE StreamInv'
  <2>1. \A g \in Gateway : at[g] \in Streams => at'[g] = at[g]
    BY <1>7, SignalMoves DEF Streams
  <2>. QED
    BY <1>7, <2>1 DEF StreamInv, Signal, camera, Typed
<1>8. CASE StopByPid \/ KillGateways \/ StreamsGo
  BY <1>7, <1>8 DEF StopByPid, KillGateways, StreamsGo, StreamInv
<1>. QED
  BY <1>1, <1>3, <1>4, <1>5, <1>6, <1>8, StepCases DEF Turns

\* A gst-launch gets out of control only by a start that fails after the launch,
\* by a gateway that ends before its camera is closed, and by a start while another
\* gateway still closes its own.
THEOREM StreamsKeepTheirOwner == Spec => StreamsAreControlled
<1> DEFINE A == Controlled =>
                  \/ Controlled'
                  \/ \E g \in Gateway : /\ StartStream(g)
                                        /\ g \notin streaming_' \/ streaming_ # {}
                  \/ \E g \in streaming_ : at[g] # "~database" /\ at'[g] \in Ended
<1>1. Init => StreamInv
  BY DEF Init, StreamInv
<1>2. Typed /\ StreamInv /\ [Next]_vars => [A]_vars
  <2> SUFFICES ASSUME Typed, StreamInv, Next, Controlled PROVE A
    BY DEF A
  <2>1. ASSUME gst' \subseteq gst, UNCHANGED streaming_ PROVE A
    BY <2>1 DEF Controlled
  <2>2. ASSUME gst' = {} PROVE A
    BY <2>2 DEF Controlled
  <2>3. ASSUME NEW g \in Gateway, StartStream(g) PROVE A
    <3>1. CASE g \in streaming_' /\ streaming_ = {}
      BY <2>3, <3>1 DEF StartStream, Controlled
    <3>. QED
      BY <2>3, <3>1
  <2>4. ASSUME NEW g \in Gateway, Exits(g) PROVE A
    <3>1. CASE g \in streaming_
      <4>1. at[g] # "~database" /\ at'[g] \in Ended
        BY <2>4, <3>1, ExitsEnds DEF StreamInv, Streams, Ended
      <4>. QED
        BY <3>1, <4>1
    <3>2. CASE g \notin streaming_
      BY <2>1, <2>4, <3>2 DEF Exits, Ends
    <3>. QED
      BY <3>1, <3>2
  <2>5. ASSUME NEW g \in Gateway, Moves(g), ~StartStream(g) PROVE A
    <3>1. CASE \E from, to : Interrupt(g, from, to) \/ Kill(g, from, to)
      BY <2>2, <3>1 DEF Interrupt, Kill, Controlled
    <3>2. CASE UNCHANGED camera
      BY <2>1, <3>2 DEF camera
    <3>. QED
      BY <2>5, <3>1, <3>2 DEF Moves, Exec, InstallHandlers, SetRunning, CreateTable,
            ColumnExists, AddColumn, Opened, OpenFails, SetLogger, StopStream,
            StopStreamReturns, CloseCamera, Leave
  <2>6. ASSUME NEW g \in Gateway, Begins(g) \/ Turns(g) PROVE A
    BY <2>1, <2>6, BeginsMoves, TurnsMove DEF camera
  <2>7. CASE StopByPid \/ KillGateways \/ StreamsGo
    BY <2>1, <2>7 DEF StopByPid, KillGateways, StreamsGo, Signal, camera
  <2>. HIDE DEF A
  <2>. QED
    BY <2>3, <2>4, <2>5, <2>6, <2>7, StepCases DEF Turns
<1>. QED
  BY <1>1, <1>2, InitInv, TypedStep, StreamStep, PTL DEF Spec, StreamsAreControlled
-----------------------------------------------------------------------------
(***************************************************************************)
(* RuleLoop.  What the rules command is put together of lists, so the      *)
(* lists that FlattenSeq puts together come first.                         *)
(***************************************************************************)
LEMMA LeastNumber ==
  ASSUME NEW S, S \subseteq Nat, S # {}
  PROVE  \E x \in S : \A y \in S : x <= y
<1>. DEFINE R == OpToRel(<, Nat)
<1>1. IsWellFoundedOn(R, Nat)
  BY NatLessThanWellFounded
<1>2. \A x, y \in Nat : x < y => <<x, y>> \in R
  BY DEF R, OpToRel
<1>. HIDE DEF R
<1>3. PICK x \in S : \A y \in S : ~ (<<y, x>> \in R)
  BY <1>1, WFMin
<1>4. \A y \in S : ~ (y < x)
  BY <1>2, <1>3
<1>5. \A y \in S : x <= y
  BY <1>4
<1>. QED
  BY <1>5

\* The prefixes of a list of lists, put together.
Flattened(f, seqs, n) ==
  f = [i \in 1..n |-> IF i = 1 THEN seqs[i] ELSE f[i - 1] \o seqs[i]]

LEMMA FlattenedExist ==
  ASSUME NEW seqs
  PROVE  \A n \in Nat \ {0} : \E f : Flattened(f, seqs, n)
<1>. DEFINE missing == {n \in Nat \ {0} : ~ \E f : Flattened(f, seqs, n)}
<1>1. ASSUME missing # {} PROVE FALSE
  <2>1. missing \subseteq Nat
    OBVIOUS
  <2>2. PICK n \in missing : \A j \in missing : n <= j
    <3>. HIDE DEF missing
    <3>. QED
      BY <1>1, <2>1, LeastNumber
  <2>3. n # 1
    <3>1. SUFFICES ASSUME n = 1 PROVE FALSE
      OBVIOUS
    <3>. DEFINE f == [i \in 1..1 |-> seqs[1]]
    <3>2. \A i \in 1..1 : i = 1
      OBVIOUS
    <3>3. Flattened(f, seqs, 1)
      BY <3>2 DEF Flattened
    <3>. QED
      BY <2>2, <3>1, <3>3
  <2>4. n - 1 \in Nat \ {0} /\ ~ (n <= n - 1) /\ n \in Nat \ {0}
    BY <2>2, <2>3
  <2>5. PICK f : Flattened(f, seqs, n - 1)
    BY <2>2, <2>4
  <2>12. PICK whole : whole = f[n - 1] \o seqs[n]
    OBVIOUS
  <2>. DEFINE g == [i \in 1..n |-> IF i = n THEN whole ELSE f[i]]
              step(i) == IF i = 1 THEN seqs[i] ELSE g[i - 1] \o seqs[i]
  <2>6. \A i \in 1..(n - 1) : i \in 1..n /\ g[i] = f[i]
    BY <2>4
  <2>7. g[n] = f[n - 1] \o seqs[n]
    <3>1. n \in 1..n
      BY <2>4
    <3>2. g[n] = whole
      BY <3>1
    <3>. HIDE DEF g
    <3>. QED
      BY <2>12, <3>2
  <2>8. g = [i \in 1..n |-> g[i]]
    OBVIOUS
  <2>. HIDE DEF g
  <2>9. ASSUME NEW i \in 1..n PROVE g[i] = step(i)
    <3>1. CASE i = n
      <4>1. n - 1 \in 1..(n - 1)
        BY <2>4
      <4>. QED
        BY <2>3, <2>6, <2>7, <3>1, <4>1
    <3>2. CASE i # n
      <4>1. i \in 1..(n - 1)
        BY <2>4, <3>2
      <4>2. f[i] = IF i = 1 THEN seqs[i] ELSE f[i - 1] \o seqs[i]
        BY <2>5, <4>1 DEF Flattened
      <4>3. CASE i = 1
        BY <2>6, <4>1, <4>2, <4>3
      <4>4. CASE i # 1
        <5>1. i - 1 \in 1..(n - 1)
          BY <2>4, <4>1, <4>4
        <5>. QED
          BY <2>6, <4>1, <4>2, <4>4, <5>1
      <4>. QED
        BY <4>3, <4>4
    <3>. QED
      BY <3>1, <3>2
  <2>10. [i \in 1..n |-> g[i]] = [i \in 1..n |-> step(i)]
    BY <2>9
  <2>11. Flattened(g, seqs, n)
    BY <2>8, <2>10 DEF Flattened
  <2>. QED
    BY <2>2, <2>11
<1>. QED
  BY <1>1

\* A list that is put together of lists over a set is a list over it.
LEMMA FlattenSeqType ==
  ASSUME NEW X, NEW seqs, NEW n \in Nat, Len(seqs) = n, n = 0 => seqs = <<>>,
         \A i \in 1..n : seqs[i] \in Seq(X)
  PROVE  FlattenSeq(seqs) \in Seq(X)
<1>1. CASE n = 0
  BY <1>1 DEF FlattenSeq
<1>2. CASE n # 0
  <2>1. PICK f : f = CHOOSE h : h = [i \in 1..n |-> IF i = 1 THEN seqs[i]
                                                   ELSE h[i - 1] \o seqs[i]]
    OBVIOUS
  <2>2. \E g : Flattened(g, seqs, n)
    BY <1>2, FlattenedExist
  <2>3. Flattened(f, seqs, n)
    BY <2>1, <2>2 DEF Flattened
  <2>4. FlattenSeq(seqs) = f[n]
    BY <1>2, <2>1 DEF FlattenSeq
  <2>5. \A i \in 1..n : f[i] = IF i = 1 THEN seqs[i] ELSE f[i - 1] \o seqs[i]
    BY <2>3 DEF Flattened
  <2>. DEFINE bad == {i \in 1..n : f[i] \notin Seq(X)}
  <2>6. ASSUME bad # {} PROVE FALSE
    <3>1. bad \subseteq Nat
      OBVIOUS
    <3>2. PICK i \in bad : \A j \in bad : i <= j
      <4>. HIDE DEF bad
      <4>. QED
        BY <2>6, <3>1, LeastNumber
    <3>3. i \in 1..n /\ seqs[i] \in Seq(X)
      BY <3>2
    <3>4. i # 1
      BY <2>5, <3>2, <3>3
    <3>5. i - 1 \in 1..n /\ ~ (i <= i - 1)
      BY <3>3, <3>4
    <3>6. f[i - 1] \in Seq(X)
      BY <3>2, <3>5
    <3>7. f[i] = f[i - 1] \o seqs[i]
      BY <2>5, <3>3, <3>4
    <3>8. f[i - 1] \o seqs[i] \in Seq(X)
      BY <3>3, <3>6, ConcatProperties
    <3>. QED
      BY <3>2, <3>7, <3>8
  <2>7. n \in 1..n
    BY <1>2
  <2>. QED
    BY <2>4, <2>6, <2>7
<1>. QED
  BY <1>1, <1>2

-----------------------------------------------------------------------------
LoopTypeOK == rules \in Seq(Rule) /\ commands \in Seq(Action)

LEMMA LoadedAreRules ==
  ASSUME NEW readable
  PROVE  LoadRulesFromConfig(readable) \in Seq(Rule)
<1>. DEFINE seqs == [i \in DOMAIN RuleFiles |-> IF i \in readable THEN RuleFiles[i] ELSE <<>>]
<1>1. RuleFiles \in Seq(Seq(Rule))
  BY RuleAssumption
<1>2. PICK n : n = Len(RuleFiles)
  OBVIOUS
<1>3. n \in Nat /\ DOMAIN RuleFiles = 1..n /\ \A i \in 1..n : RuleFiles[i] \in Seq(Rule)
  BY <1>1, <1>2, LenProperties, ElementOfSeq
<1>4. <<>> \in Seq(Rule)
  OBVIOUS
<1>5. \A i \in 1..n : seqs[i] \in Seq(Rule)
  BY <1>3, <1>4
<1>6. seqs \in Seq(Seq(Rule)) /\ DOMAIN seqs = 1..n
  BY <1>3, <1>5
<1>7. Len(seqs) = n /\ (n = 0 => seqs = <<>>)
  BY <1>3, <1>6, LenProperties, EmptySeq
<1>8. LoadRulesFromConfig(readable) = FlattenSeq(seqs)
  BY DEF LoadRulesFromConfig
<1>. HIDE DEF seqs
<1>. QED
  BY <1>3, <1>5, <1>7, <1>8, FlattenSeqType

\* What a rule engine without an enabled rule for v commands is never v.
Quiet(v) == {a \in Action : ~ (a.type = "actuator_set" /\ a.value = v)}

LEMMA FiredAreQuiet ==
  ASSUME LoopTypeOK, NEW v, Enabled(v) = {}, NEW sensor, NEW value
  PROVE  OnSensorValue(sensor, value) \in Seq(Quiet(v))
<1>. DEFINE fires(i) == rules[i].enabled /\ rules[i].sensor = sensor /\ Eval(rules[i], value)
            seqs == [i \in DOMAIN rules |-> IF fires(i) THEN rules[i].then ELSE <<>>]
<1>1. PICK n : n = Len(rules)
  OBVIOUS
<1>2. n \in Nat /\ DOMAIN rules = 1..n /\ \A i \in 1..n : rules[i] \in Rule
  BY <1>1, LenProperties, ElementOfSeq DEF LoopTypeOK
<1>3. ASSUME NEW i \in 1..n, rules[i].enabled PROVE rules[i].then \in Seq(Quiet(v))
  <2>1. PICK then : then = rules[i].then
    OBVIOUS
  <2>2. then \in Seq(Action)
    BY <1>2, <2>1 DEF Rule
  <2>3. \A k \in DOMAIN then : ~ (then[k].type = "actuator_set" /\ then[k].value = v)
    BY <1>2, <1>3, <2>1 DEF Enabled
  <2>4. Len(then) \in Nat /\ DOMAIN then = 1..Len(then)
        /\ then = [k \in 1..Len(then) |-> then[k]]
    BY <2>2, LenProperties
  <2>5. \A k \in 1..Len(then) : then[k] \in Quiet(v)
    BY <2>2, <2>3, <2>4, ElementOfSeq DEF Quiet
  <2>6. then \in Seq(Quiet(v))
    BY <2>2, <2>4, <2>5
  <2>. QED
    BY <2>1, <2>6
<1>4. <<>> \in Seq(Quiet(v))
  OBVIOUS
<1>5. \A i \in 1..n : fires(i) => rules[i].then \in Seq(Quiet(v))
  BY <1>3
<1>6. DOMAIN seqs = 1..n /\ \A i \in 1..n : seqs[i] \in Seq(Quiet(v))
  <2>. HIDE DEF fires
  <2>. QED
    BY <1>2, <1>4, <1>5
<1>7. seqs \in Seq(Seq(Quiet(v)))
  <2>. HIDE DEF fires
  <2>. QED
    BY <1>2, <1>6
<1>8. OnSensorValue(sensor, value) = FlattenSeq(seqs)
  BY DEF OnSensorValue
<1>. HIDE DEF seqs
<1>9. Len(seqs) = n /\ (n = 0 => seqs = <<>>)
  BY <1>2, <1>6, <1>7, LenProperties, EmptySeq
<1>. QED
  BY <1>2, <1>6, <1>8, <1>9, FlattenSeqType

LEMMA CommandingIsQuiet ==
  ASSUME NEW v, NEW actions \in Seq(Quiet(v))
  PROVE  Commanding(actions) \in Seq({a \in Action : a.value # v})
<1>. DEFINE X == {a \in Action : a.value # v}
            seqs == [k \in DOMAIN actions |->
                       IF actions[k].type = "actuator_set" THEN <<actions[k]>> ELSE <<>>]
<1>1. PICK n : n = Len(actions)
  OBVIOUS
<1>2. n \in Nat /\ DOMAIN actions = 1..n /\ \A i \in 1..n : actions[i] \in Quiet(v)
  BY <1>1, LenProperties, ElementOfSeq
<1>3. \A i \in 1..n : actions[i].type = "actuator_set" => actions[i] \in X
  BY <1>2 DEF Quiet
<1>4. Commanding(actions) = FlattenSeq(seqs)
  BY DEF Commanding
<1>. HIDE DEF X
<1>5. \A x \in X : <<x>> \in Seq(X)
  OBVIOUS
<1>6. <<>> \in Seq(X)
  OBVIOUS
<1>7. DOMAIN seqs = 1..n /\ \A i \in 1..n : seqs[i] \in Seq(X)
  BY <1>2, <1>3, <1>5, <1>6
<1>8. seqs \in Seq(Seq(X))
  BY <1>2, <1>7
<1>. HIDE DEF seqs
<1>9. Len(seqs) = n /\ (n = 0 => seqs = <<>>)
  BY <1>2, <1>7, <1>8, LenProperties, EmptySeq
<1>10. FlattenSeq(seqs) \in Seq(X)
  BY <1>2, <1>7, <1>9, FlattenSeqType
<1>. QED
  BY <1>4, <1>10 DEF X

\* Commands of a value in a list; the first ones leave it, others join it.
Valued(list, v) == {k \in DOMAIN list : list[k].value = v}

LEMMA TailHasNoMore ==
  ASSUME NEW list \in Seq(Action), list # <<>>, NEW v
  PROVE  Cardinality(Valued(Tail(list), v)) <= Cardinality(Valued(list, v))
<1>1. PICK n, rest : n = Len(list) /\ rest = Tail(list)
  OBVIOUS
<1>2. /\ n \in Nat \ {0} /\ DOMAIN list = 1..n /\ DOMAIN rest = 1..(n - 1)
      /\ \A k \in 1..(n - 1) : rest[k] = list[k + 1]
  BY <1>1, EmptySeq, LenProperties, HeadTailProperties
<1>3. PICK S, T, L : S = Valued(list, v) /\ T = Valued(rest, v) /\ L = {k \in S : k > 1}
  OBVIOUS
<1>4. /\ \A k : k \in S <=> k \in 1..n /\ list[k].value = v
      /\ \A k : k \in T <=> k \in 1..(n - 1) /\ list[k + 1].value = v
  BY <1>2, <1>3 DEF Valued
<1>5. IsFiniteSet(S) /\ IsFiniteSet(L) /\ Cardinality(L) <= Cardinality(S)
  <2>1. IsFiniteSet(1..n)
    BY <1>2, FS_Interval
  <2>2. S \in SUBSET (1..n) /\ L \in SUBSET S
    BY <1>3, <1>4
  <2>3. IsFiniteSet(S)
    BY <2>1, <2>2, FS_Subset
  <2>. QED
    BY <2>2, <2>3, FS_Subset
<1>6. PICK f : f = [k \in L |-> k - 1]
  OBVIOUS
<1>7. f \in Surjection(L, T)
  <2>1. ASSUME NEW k \in L PROVE k - 1 \in T
    <3>1. k \in 1..n /\ k > 1 /\ list[k].value = v
      BY <1>3, <1>4, <2>1
    <3>2. k - 1 \in 1..(n - 1) /\ (k - 1) + 1 = k
      BY <1>2, <3>1
    <3>. QED
      BY <1>4, <3>1, <3>2
  <2>2. ASSUME NEW j \in T PROVE j + 1 \in L /\ f[j + 1] = j
    <3>1. j \in 1..(n - 1) /\ list[j + 1].value = v
      BY <1>4, <2>2
    <3>2. j + 1 \in 1..n /\ j + 1 > 1 /\ (j + 1) - 1 = j
      BY <1>2, <3>1
    <3>3. j + 1 \in L
      BY <1>3, <1>4, <3>1, <3>2
    <3>. QED
      BY <1>6, <3>2, <3>3
  <2>3. f \in [L -> T]
    BY <1>6, <2>1
  <2>. QED
    BY <2>2, <2>3 DEF Surjection
<1>8. IsFiniteSet(T) /\ Cardinality(T) <= Cardinality(L)
  BY <1>5, <1>7, FS_Surjection
<1>9. Cardinality(S) \in Nat /\ Cardinality(L) \in Nat /\ Cardinality(T) \in Nat
  BY <1>5, <1>8, FS_CardinalityType
<1>. QED
  BY <1>1, <1>3, <1>5, <1>8, <1>9

LEMMA OthersAddNone ==
  ASSUME NEW list \in Seq(Action), NEW v, NEW more \in Seq({a \in Action : a.value # v})
  PROVE  Valued(list \o more, v) = Valued(list, v)
<1>1. PICK n, m, all : n = Len(list) /\ m = Len(more) /\ all = list \o more
  OBVIOUS
<1>2. /\ n \in Nat /\ m \in Nat /\ DOMAIN list = 1..n /\ DOMAIN more = 1..m
      /\ \A k \in 1..m : more[k].value # v
  BY <1>1, LenProperties, ElementOfSeq
<1>3. DOMAIN all = 1..(n + m) /\ \A k \in 1..(n + m) : all[k] = IF k <= n THEN list[k] ELSE more[k - n]
  BY <1>1, <1>2, ConcatProperties, LenProperties
<1>4. \A k \in 1..(n + m) : k \in 1..n \/ (~ (k <= n) /\ k - n \in 1..m)
  BY <1>2
<1>5. \A k \in 1..n : k \in 1..(n + m) /\ k <= n
  BY <1>2
<1>6. \A k : k \in Valued(all, v) <=> k \in Valued(list, v)
  BY <1>2, <1>3, <1>4, <1>5 DEF Valued
<1>7. Valued(all, v) = Valued(list, v)
  BY <1>6
<1>. QED
  BY <1>1, <1>7

LEMMA LoopTypeStep == LoopTypeOK /\ [LoopNext]_loopVars => LoopTypeOK'
<1> SUFFICES ASSUME LoopTypeOK, [LoopNext]_loopVars PROVE LoopTypeOK'
  OBVIOUS
<1>. USE DEF LoopTypeOK
<1>1. CASE UNCHANGED loopVars
  BY <1>1 DEF loopVars
<1>2. ASSUME NEW ch \in Channels, Ingest(ch) PROVE LoopTypeOK'
  <2>1. PICK fired : fired = OnSensorValue(Sensor, Head(readings[ch]))
    OBVIOUS
  <2>2. Enabled(2) = {}
    <3>1. \A i \in DOMAIN rules : rules[i].then \in Seq(Action)
      <4>1. \A i \in DOMAIN rules : rules[i] \in Rule
        BY ElementOfSeq
      <4>. QED
        BY <4>1 DEF Rule
    <3>2. ASSUME NEW i \in DOMAIN rules, NEW k \in DOMAIN rules[i].then
          PROVE  rules[i].then[k].value # 2
      <4>1. rules[i].then[k] \in Action
        BY <3>1, ElementOfSeq
      <4>. QED
        BY <4>1 DEF Action
    <3>. QED
      BY <3>2 DEF Enabled
  <2>3. fired \in Seq(Quiet(2))
    BY <2>1, <2>2, FiredAreQuiet
  <2>4. Commanding(fired) \in Seq({a \in Action : a.value # 2})
    BY <2>3, CommandingIsQuiet
  <2>5. Commanding(fired) \in Seq(Action)
    BY <2>4
  <2>6. commands \o Commanding(fired) \in Seq(Action)
    BY <2>5, ConcatProperties
  <2>. QED
    BY <1>2, <2>1, <2>6 DEF Ingest
<1>3. ASSUME NEW id, NEW e \in BOOLEAN, SetEnabled(id, e) PROVE LoopTypeOK'
  <2>1. PICK k : k = FirstNamed(id)
    OBVIOUS
  <2>2. rules' = [rules EXCEPT ![k].enabled = e] /\ commands' = commands
    BY <1>3, <2>1 DEF SetEnabled
  <2>3. CASE k \in DOMAIN rules
    <3>1. rules[k] \in Rule
      BY <2>3, ElementOfSeq
    <3>2. [rules[k] EXCEPT !.enabled = e] \in Rule
      BY <3>1 DEF Rule
    <3>3. rules' = [rules EXCEPT ![k] = [rules[k] EXCEPT !.enabled = e]]
      BY <2>2
    <3>4. rules' \in Seq(Rule)
      BY <2>3, <3>2, <3>3
    <3>. QED
      BY <2>2, <3>4
  <2>4. CASE k \notin DOMAIN rules
    <3>1. rules' = [i \in DOMAIN rules |-> rules[i]]
      BY <2>2, <2>4
    <3>2. rules = [i \in DOMAIN rules |-> rules[i]]
      OBVIOUS
    <3>. QED
      BY <2>2, <3>1, <3>2
  <2>. QED
    BY <2>3, <2>4
<1>4. CASE Reload
  BY <1>4, LoadedAreRules DEF Reload
<1>5. CASE Execute
  BY <1>5 DEF Execute
<1>6. CASE Close
  BY <1>6 DEF Close
<1>7. CASE (\E ch \in Channels : Report(ch)) \/ Open \/ Cool \/ Heat
  BY <1>7 DEF Report, Open, Cool, Heat
<1>. QED
  BY <1>1, <1>2, <1>3, <1>4, <1>5, <1>6, <1>7 DEF LoopNext

\* While no enabled rule commands the motor to be v, no step of the gateway, the
\* link, the room or the user puts such a command under way.
LEMMA QuietStep ==
  ASSUME LoopTypeOK, [LoopNext]_loopVars, NEW v, Enabled(v) = {}
  PROVE  Cardinality(UnderWay(v)') <= Cardinality(UnderWay(v))
<1>1. UnderWay(v) = Valued(commands, v) /\ UnderWay(v)' = Valued(commands', v)
  BY DEF UnderWay, Valued
<1>2. commands \in Seq(Action)
  BY DEF LoopTypeOK
<1>3. Cardinality(Valued(commands, v)) \in Nat
  <2>1. PICK n : n = Len(commands) /\ n \in Nat /\ DOMAIN commands = 1..n
    BY <1>2, LenProperties
  <2>2. IsFiniteSet(1..n) /\ Valued(commands, v) \in SUBSET (1..n)
    BY <2>1, FS_Interval DEF Valued
  <2>3. IsFiniteSet(Valued(commands, v))
    BY <2>2, FS_Subset
  <2>. QED
    BY <2>3, FS_CardinalityType
<1>4. CASE commands' = commands
  BY <1>1, <1>3, <1>4
<1>5. ASSUME NEW ch \in Channels, Ingest(ch)
      PROVE  Cardinality(UnderWay(v)') <= Cardinality(UnderWay(v))
  <2>1. PICK fired : fired = OnSensorValue(Sensor, Head(readings[ch]))
    OBVIOUS
  <2>2. Commanding(fired) \in Seq({a \in Action : a.value # v})
    BY <2>1, FiredAreQuiet, CommandingIsQuiet
  <2>3. Valued(commands \o Commanding(fired), v) = Valued(commands, v)
    BY <1>2, <2>2, OthersAddNone
  <2>4. commands' = commands \o Commanding(fired) \/ commands' = commands
    BY <1>5, <2>1 DEF Ingest
  <2>5. Valued(commands', v) = Valued(commands, v)
    <3>1. PICK all : all = commands \o Commanding(fired)
      OBVIOUS
    <3>. QED
      BY <2>3, <2>4, <3>1
  <2>. QED
    BY <1>1, <1>3, <2>5
<1>6. CASE Execute
  <2>1. commands # <<>> /\ commands' = Tail(commands)
    BY <1>6 DEF Execute
  <2>2. Cardinality(Valued(Tail(commands), v)) <= Cardinality(Valued(commands, v))
    BY <1>2, <2>1, TailHasNoMore
  <2>3. PICK rest : rest = Tail(commands)
    OBVIOUS
  <2>4. Valued(commands', v) = Valued(rest, v)
    BY <2>1, <2>3
  <2>. QED
    BY <1>1, <2>2, <2>3, <2>4
<1>7. CASE Close
  <2>1. commands' = <<>>
    BY <1>7 DEF Close
  <2>2. Valued(commands', v) = {}
    BY <2>1 DEF Valued
  <2>3. Cardinality(Valued(commands', v)) = 0
    BY <2>2, FS_EmptySet
  <2>. QED
    BY <1>1, <1>3, <2>3
<1>. QED
  BY <1>4, <1>5, <1>6, <1>7
  DEF LoopNext, loopVars, SetEnabled, Reload, Report, Open, Cool, Heat

\* Disabled rules command nothing, whatever was loaded, however readings and
\* commands are lost, and whenever the rules were disabled.
THEOREM DisabledStaysQuiet == LoopSpec => DisabledIsQuiet
<1>1. LoopInit => LoopTypeOK
  BY LoadedAreRules DEF LoopInit, LoopTypeOK
<1>2. LoopTypeOK /\ [LoopNext]_loopVars =>
        [\A v \in {0, 1} : Enabled(v) = {} =>
           Cardinality(UnderWay(v)') <= Cardinality(UnderWay(v))]_loopVars
  BY QuietStep
<1>. QED
  BY <1>1, <1>2, LoopTypeStep, PTL DEF LoopSpec, DisabledIsQuiet
=============================================================================
