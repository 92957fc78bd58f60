---------------------------- MODULE StartupProofs ----------------------------
(***************************************************************************)
(* Theorems about Startup, for every set of events and any number of them. *)
(* What is handled is what its loop let through, and the filters of the    *)
(* two loops exclude each other.  A handler misses nothing when the steps  *)
(* that it depends on come before the one that spawns its loop: that is a  *)
(* fact about the order of the steps in each of the two kinds of gateway.  *)
(***************************************************************************)
EXTENDS Startup, SequenceTheorems, TLAPS

-----------------------------------------------------------------------------
(***************************************************************************)
(* The events.                                                             *)
(***************************************************************************)
Queued ==
  /\ received \in Seq(Events)
  /\ channel \in [Loops -> Seq(1 .. Len(received))]

\* What a loop lets through, whatever else it asks for.
Let(l, e) == e.info /\ e.crc /\ e.kind = (IF l = "event" THEN "lora" ELSE "mesh")

LetThrough ==
  \A l \in Loops : \A n : <<l, n>> \in handled =>
    n \in 1 .. Len(received) /\ Let(l, received[n])

EventInv == Queued /\ LetThrough

LEMMA PublishKeeps ==
  ASSUME EventInv, NEW e \in Events, NEW loops, Receive(e, loops)
  PROVE  EventInv'
<1>1. received \in Seq(Events) /\ Len(received) \in Nat /\ received' = Append(received, e)
  BY LenProperties DEF EventInv, Queued, Receive
<1>2. /\ received' \in Seq(Events) /\ Len(received') = Len(received) + 1
      /\ \A n \in 1 .. Len(received) : received'[n] = received[n]
  BY <1>1, AppendProperties
<1>3. \A s \in Seq(1 .. Len(received)) : /\ s \in Seq(1 .. Len(received'))
                                         /\ Append(s, Len(received) + 1) \in Seq(1 .. Len(received'))
  <2> SUFFICES ASSUME NEW s \in Seq(1 .. Len(received))
               PROVE  /\ s \in Seq(1 .. Len(received'))
                      /\ Append(s, Len(received) + 1) \in Seq(1 .. Len(received'))
    OBVIOUS
  <2>1. 1 .. Len(received) \subseteq 1 .. Len(received') /\ Len(received) + 1 \in 1 .. Len(received')
    BY <1>1, <1>2
  <2>2. s \in Seq(1 .. Len(received'))
    BY <2>1, SeqMonotonic, Zenon
  <2> QED BY <2>1, <2>2, AppendProperties
<1>4. Queued'
  BY <1>2, <1>3 DEF EventInv, Queued, Receive
<1>5. LetThrough'
  BY <1>1, <1>2 DEF EventInv, LetThrough, Let, Receive
<1> QED BY <1>4, <1>5 DEF EventInv

LEMMA TakeKeeps ==
  ASSUME EventInv, NEW l \in Loops, Takes(l), received' = received,
         \A p \in handled' : p \in handled \/ (p = <<l, Head(channel[l])>> /\ Let(l, Taken(l)))
  PROVE  EventInv'
<1>1. channel[l] \in Seq(1 .. Len(received)) /\ channel[l] # <<>>
  BY DEF EventInv, Queued, Takes
<1>2. Head(channel[l]) \in 1 .. Len(received) /\ Tail(channel[l]) \in Seq(1 .. Len(received))
  BY <1>1, HeadTailProperties
<1>3. Queued'
  BY <1>2 DEF EventInv, Queued, Takes
<1>4. LetThrough'
  BY <1>2 DEF EventInv, LetThrough, Let, Taken
<1> QED BY <1>3, <1>4 DEF EventInv

LEMMA EventStep == EventInv /\ [StartNext]_startAllVars => EventInv'
<1> SUFFICES ASSUME EventInv, [StartNext]_startAllVars PROVE EventInv'
  OBVIOUS
<1>1. ASSUME UNCHANGED vars PROVE EventInv'
  BY <1>1 DEF vars, EventInv, Queued, LetThrough, Let
<1>2. CASE Advance \/ Fail \/ Signal \/ FinishCommand \/ TakeRequest \/ TakeReport
           \/ UNCHANGED startAllVars
  BY <1>1, <1>2 DEF Advance, Fail, Signal, FinishCommand, TakeRequest, TakeReport, startAllVars
<1>3. ASSUME NEW e \in Events, Publish(e) PROVE EventInv'
  BY <1>3, PublishKeeps DEF Publish
<1>4. CASE TakeEvent
  <2>1. /\ Takes("event") /\ received' = received
        /\ handled' = IF ForUplink(Taken("event"))
                      THEN handled \cup {<<"event", Head(channel["event"])>>} ELSE handled
    BY <1>4 DEF TakeEvent, HandleEvent
  <2>2. ForUplink(Taken("event")) => Let("event", Taken("event"))
    BY DEF ForUplink, Let
  <2>3. \A p \in handled' : p \in handled \/
          (p = <<"event", Head(channel["event"])>> /\ Let("event", Taken("event")))
    BY <2>1, <2>2
  <2> QED BY <2>1, <2>3, TakeKeeps DEF Loops
<1>5. CASE TakeMeshEvent
  <2>1. /\ Takes("mesh") /\ received' = received
        /\ handled' = IF ForMesh(Taken("mesh"))
                      THEN handled \cup {<<"mesh", Head(channel["mesh"])>>} ELSE handled
    BY <1>5 DEF TakeMeshEvent, HandleMeshEvent
  <2>2. ForMesh(Taken("mesh")) => Let("mesh", Taken("mesh"))
    BY DEF ForMesh, Formats, Let
  <2>3. \A p \in handled' : p \in handled \/
          (p = <<"mesh", Head(channel["mesh"])>> /\ Let("mesh", Taken("mesh")))
    BY <2>1, <2>2
  <2> QED BY <2>1, <2>3, TakeKeeps DEF Loops
<1> QED BY <1>2, <1>3, <1>4, <1>5 DEF StartNext

LEMMA EventStart == StartInit => EventInv
<1> SUFFICES ASSUME StartInit PROVE EventInv
  OBVIOUS
<1>1. received = <<>> /\ channel = [l \in Loops |-> <<>>] /\ handled = {}
  BY DEF StartInit, Init
<1> QED BY <1>1, EmptySeq DEF EventInv, Queued, LetThrough

LEMMA EventInvariant == StartSpec => []EventInv
  BY EventStart, EventStep, PTL DEF StartSpec

(***************************************************************************)
(* No frame is handled by both loops, wherever they are subscribed and     *)
(* whenever in the start they began to run (backend.rs:287, 339).          *)
(***************************************************************************)
THEOREM HandledByOneLoop == StartSpec => []NeverBoth
<1>1. EventInv => NeverBoth
  BY DEF EventInv, LetThrough, Let, NeverBoth, Loops
<1> QED BY <1>1, EventInvariant, PTL

(***************************************************************************)
(* Only frames whose CRC was found right are handled, those without        *)
(* reception information by neither loop (backend.rs:275, 327-340).        *)
(***************************************************************************)
THEOREM HandledIsIntact == StartSpec => []OnlyIntact
<1>1. EventInv => OnlyIntact
  BY DEF EventInv, LetThrough, Let, OnlyIntact, Handled, Loops
<1> QED BY <1>1, EventInvariant, PTL

-----------------------------------------------------------------------------
(***************************************************************************)
(* The order of the steps.                                                 *)
(***************************************************************************)
BorderSteps ==
  <<"configuration", "log_level", "logging", "EVENT_CHAN", "command_loop",
    "GATEWAY_ID", "CONCENTRATORD_CMD_CHAN", "subscribed", "event_loop",
    "RELAY_ID", "MESH_CONCENTRATORD_CMD_CHAN", "mesh_subscribed", "mesh_event_loop">>

RelaySteps ==
  <<"configuration", "log_level", "logging",
    "GATEWAY_ID", "CONCENTRATORD_CMD_CHAN", "subscribed", "event_loop",
    "RELAY_ID", "MESH_CONCENTRATORD_CMD_CHAN", "mesh_subscribed", "mesh_event_loop",
    "event_commands", "report_loops", "COMMANDS">>

StepNames ==
  {"configuration", "log_level", "logging", "EVENT_CHAN", "command_loop",
   "GATEWAY_ID", "CONCENTRATORD_CMD_CHAN", "subscribed", "event_loop",
   "RELAY_ID", "MESH_CONCENTRATORD_CMD_CHAN", "mesh_subscribed", "mesh_event_loop",
   "event_commands", "report_loops", "COMMANDS"}

LEMMA Joined ==
  ASSUME NEW S, NEW s \in Seq(S), NEW t \in Seq(S), NEW u \in Seq(S),
         Len(u) = Len(s) + Len(t),
         \A i \in 1 .. Len(s) : u[i] = s[i],
         \A i \in 1 .. Len(t) : u[Len(s) + i] = t[i]
  PROVE  s \o t = u
<1>1. Len(s) \in Nat /\ Len(t) \in Nat
  BY LenProperties
<1>2. s \o t \in Seq(S) /\ Len(s \o t) = Len(s) + Len(t)
  BY ConcatProperties
<1>3. ASSUME NEW i \in 1 .. Len(u) PROVE (s \o t)[i] = u[i]
  <2>1. CASE i <= Len(s)
    BY <1>1, <2>1, ConcatProperties
  <2>2. CASE i > Len(s)
    <3>1. i - Len(s) \in 1 .. Len(t) /\ Len(s) + (i - Len(s)) = i
      BY <1>1, <2>2
    <3>2. u[i] = t[i - Len(s)]
      BY <3>1
    <3> QED BY <1>1, <2>2, <3>1, <3>2, ConcatProperties
  <2> QED BY <1>1, <2>1, <2>2
<1> QED BY <1>2, <1>3, SeqEqual

\* The steps of each kind of gateway, and how far its parts have brought it.
BorderProxy ==
  <<"configuration", "log_level", "logging", "EVENT_CHAN", "command_loop">>
BorderUplink ==
  <<"configuration", "log_level", "logging", "EVENT_CHAN", "command_loop",
    "GATEWAY_ID", "CONCENTRATORD_CMD_CHAN", "subscribed", "event_loop">>
RelayUplink ==
  <<"configuration", "log_level", "logging", "GATEWAY_ID",
    "CONCENTRATORD_CMD_CHAN", "subscribed", "event_loop">>
RelayMesh ==
  <<"configuration", "log_level", "logging", "GATEWAY_ID",
    "CONCENTRATORD_CMD_CHAN", "subscribed", "event_loop", "RELAY_ID",
    "MESH_CONCENTRATORD_CMD_CHAN", "mesh_subscribed", "mesh_event_loop">>
RelayEvents ==
  <<"configuration", "log_level", "logging", "GATEWAY_ID",
    "CONCENTRATORD_CMD_CHAN", "subscribed", "event_loop", "RELAY_ID",
    "MESH_CONCENTRATORD_CMD_CHAN", "mesh_subscribed", "mesh_event_loop",
    "event_commands", "report_loops">>

LEMMA BorderWithProxy == conf.border => MainSteps \o ProxySteps = BorderProxy
<1> SUFFICES ASSUME conf.border PROVE MainSteps \o ProxySteps = BorderProxy
  OBVIOUS
<1>1. MainSteps \in Seq(StepNames) /\ ProxySteps \in Seq(StepNames) /\ BorderProxy \in Seq(StepNames)
  BY DEF MainSteps, ProxySteps, BorderProxy, StepNames
<1>2. Len(MainSteps) = 3 /\ Len(ProxySteps) = 2 /\ Len(BorderProxy) = 5
  BY DEF MainSteps, ProxySteps, BorderProxy
<1>3. /\ BorderProxy[1] = MainSteps[1] /\ BorderProxy[2] = MainSteps[2]
      /\ BorderProxy[3] = MainSteps[3]
  BY DEF MainSteps, BorderProxy
<1>4. /\ BorderProxy[4] = ProxySteps[1] /\ BorderProxy[5] = ProxySteps[2]
  BY DEF ProxySteps, BorderProxy
<1>5. \A i \in 1 .. Len(MainSteps) : BorderProxy[i] = MainSteps[i]
  BY <1>2, <1>3
<1>6. \A i \in 1 .. Len(ProxySteps) : BorderProxy[Len(MainSteps) + i] = ProxySteps[i]
  BY <1>2, <1>4
<1>7. Len(BorderProxy) = Len(MainSteps) + Len(ProxySteps)
  BY <1>2
<1> QED BY <1>1, <1>5, <1>6, <1>7, Joined, Zenon

LEMMA BorderWithUplink == BorderProxy \o ConcentratordSteps = BorderUplink
<1>1. BorderProxy \in Seq(StepNames) /\ ConcentratordSteps \in Seq(StepNames) /\ BorderUplink \in Seq(StepNames)
  BY DEF BorderProxy, ConcentratordSteps, BorderUplink, StepNames
<1>2. Len(BorderProxy) = 5 /\ Len(ConcentratordSteps) = 4 /\ Len(BorderUplink) = 9
  BY DEF BorderProxy, ConcentratordSteps, BorderUplink
<1>3. /\ BorderUplink[1] = BorderProxy[1] /\ BorderUplink[2] = BorderProxy[2]
      /\ BorderUplink[3] = BorderProxy[3] /\ BorderUplink[4] = BorderProxy[4]
      /\ BorderUplink[5] = BorderProxy[5]
  BY DEF BorderProxy, BorderUplink
<1>4. /\ BorderUplink[6] = ConcentratordSteps[1]
      /\ BorderUplink[7] = ConcentratordSteps[2]
      /\ BorderUplink[8] = ConcentratordSteps[3]
      /\ BorderUplink[9] = ConcentratordSteps[4]
  BY DEF ConcentratordSteps, BorderUplink
<1>5. \A i \in 1 .. Len(BorderProxy) : BorderUplink[i] = BorderProxy[i]
  BY <1>2, <1>3
<1>6. \A i \in 1 .. Len(ConcentratordSteps) : BorderUplink[Len(BorderProxy) + i] = ConcentratordSteps[i]
  BY <1>2, <1>4
<1>7. Len(BorderUplink) = Len(BorderProxy) + Len(ConcentratordSteps)
  BY <1>2
<1> QED BY <1>1, <1>5, <1>6, <1>7, Joined, Zenon

LEMMA BorderWithMesh == BorderUplink \o MeshSteps = BorderSteps
<1>1. BorderUplink \in Seq(StepNames) /\ MeshSteps \in Seq(StepNames) /\ BorderSteps \in Seq(StepNames)
  BY DEF BorderUplink, MeshSteps, BorderSteps, StepNames
<1>2. Len(BorderUplink) = 9 /\ Len(MeshSteps) = 4 /\ Len(BorderSteps) = 13
  BY DEF BorderUplink, MeshSteps, BorderSteps
<1>3. /\ BorderSteps[1] = BorderUplink[1] /\ BorderSteps[2] = BorderUplink[2]
      /\ BorderSteps[3] = BorderUplink[3] /\ BorderSteps[4] = BorderUplink[4]
      /\ BorderSteps[5] = BorderUplink[5] /\ BorderSteps[6] = BorderUplink[6]
      /\ BorderSteps[7] = BorderUplink[7] /\ BorderSteps[8] = BorderUplink[8]
      /\ BorderSteps[9] = BorderUplink[9]
  BY DEF BorderUplink, BorderSteps
<1>4. /\ BorderSteps[10] = MeshSteps[1] /\ BorderSteps[11] = MeshSteps[2]
      /\ BorderSteps[12] = MeshSteps[3] /\ BorderSteps[13] = MeshSteps[4]
  BY DEF MeshSteps, BorderSteps
<1>5. \A i \in 1 .. Len(BorderUplink) : BorderSteps[i] = BorderUplink[i]
  BY <1>2, <1>3
<1>6. \A i \in 1 .. Len(MeshSteps) : BorderSteps[Len(BorderUplink) + i] = MeshSteps[i]
  BY <1>2, <1>4
<1>7. Len(BorderSteps) = Len(BorderUplink) + Len(MeshSteps)
  BY <1>2
<1> QED BY <1>1, <1>5, <1>6, <1>7, Joined, Zenon

LEMMA RelayWithUplink == MainSteps \o ConcentratordSteps = RelayUplink
<1>1. MainSteps \in Seq(StepNames) /\ ConcentratordSteps \in Seq(StepNames) /\ RelayUplink \in Seq(StepNames)
  BY DEF MainSteps, ConcentratordSteps, RelayUplink, StepNames
<1>2. Len(MainSteps) = 3 /\ Len(ConcentratordSteps) = 4 /\ Len(RelayUplink) = 7
  BY DEF MainSteps, ConcentratordSteps, RelayUplink
<1>3. /\ RelayUplink[1] = MainSteps[1] /\ RelayUplink[2] = MainSteps[2]
      /\ RelayUplink[3] = MainSteps[3]
  BY DEF MainSteps, RelayUplink
<1>4. /\ RelayUplink[4] = ConcentratordSteps[1]
      /\ RelayUplink[5] = ConcentratordSteps[2]
      /\ RelayUplink[6] = ConcentratordSteps[3]
      /\ RelayUplink[7] = ConcentratordSteps[4]
  BY DEF ConcentratordSteps, RelayUplink
<1>5. \A i \in 1 .. Len(MainSteps) : RelayUplink[i] = MainSteps[i]
  BY <1>2, <1>3
<1>6. \A i \in 1 .. Len(ConcentratordSteps) : RelayUplink[Len(MainSteps) + i] = ConcentratordSteps[i]
  BY <1>2, <1>4
<1>7. Len(RelayUplink) = Len(MainSteps) + Len(ConcentratordSteps)
  BY <1>2
<1> QED BY <1>1, <1>5, <1>6, <1>7, Joined, Zenon

LEMMA RelayWithMesh == RelayUplink \o MeshSteps = RelayMesh
<1>1. RelayUplink \in Seq(StepNames) /\ MeshSteps \in Seq(StepNames) /\ RelayMesh \in Seq(StepNames)
  BY DEF RelayUplink, MeshSteps, RelayMesh, StepNames
<1>2. Len(RelayUplink) = 7 /\ Len(MeshSteps) = 4 /\ Len(RelayMesh) = 11
  BY DEF RelayUplink, MeshSteps, RelayMesh
<1>3. /\ RelayMesh[1] = RelayUplink[1] /\ RelayMesh[2] = RelayUplink[2]
      /\ RelayMesh[3] = RelayUplink[3] /\ RelayMesh[4] = RelayUplink[4]
      /\ RelayMesh[5] = RelayUplink[5] /\ RelayMesh[6] = RelayUplink[6]
      /\ RelayMesh[7] = RelayUplink[7]
  BY DEF RelayUplink, RelayMesh
<1>4. /\ RelayMesh[8] = MeshSteps[1] /\ RelayMesh[9] = MeshSteps[2]
      /\ RelayMesh[10] = MeshSteps[3] /\ RelayMesh[11] = MeshSteps[4]
  BY DEF MeshSteps, RelayMesh
<1>5. \A i \in 1 .. Len(RelayUplink) : RelayMesh[i] = RelayUplink[i]
  BY <1>2, <1>3
<1>6. \A i \in 1 .. Len(MeshSteps) : RelayMesh[Len(RelayUplink) + i] = MeshSteps[i]
  BY <1>2, <1>4
<1>7. Len(RelayMesh) = Len(RelayUplink) + Len(MeshSteps)
  BY <1>2
<1> QED BY <1>1, <1>5, <1>6, <1>7, Joined, Zenon

LEMMA RelayWithEvents == ~ conf.border => RelayMesh \o EventsSteps = RelayEvents
<1> SUFFICES ASSUME ~ conf.border PROVE RelayMesh \o EventsSteps = RelayEvents
  OBVIOUS
<1>1. RelayMesh \in Seq(StepNames) /\ EventsSteps \in Seq(StepNames) /\ RelayEvents \in Seq(StepNames)
  BY DEF RelayMesh, EventsSteps, RelayEvents, StepNames
<1>2. Len(RelayMesh) = 11 /\ Len(EventsSteps) = 2 /\ Len(RelayEvents) = 13
  BY DEF RelayMesh, EventsSteps, RelayEvents
<1>3. /\ RelayEvents[1] = RelayMesh[1] /\ RelayEvents[2] = RelayMesh[2]
      /\ RelayEvents[3] = RelayMesh[3] /\ RelayEvents[4] = RelayMesh[4]
      /\ RelayEvents[5] = RelayMesh[5] /\ RelayEvents[6] = RelayMesh[6]
      /\ RelayEvents[7] = RelayMesh[7] /\ RelayEvents[8] = RelayMesh[8]
      /\ RelayEvents[9] = RelayMesh[9] /\ RelayEvents[10] = RelayMesh[10]
      /\ RelayEvents[11] = RelayMesh[11]
  BY DEF RelayMesh, RelayEvents
<1>4. /\ RelayEvents[12] = EventsSteps[1] /\ RelayEvents[13] = EventsSteps[2]
  BY DEF EventsSteps, RelayEvents
<1>5. \A i \in 1 .. Len(RelayMesh) : RelayEvents[i] = RelayMesh[i]
  BY <1>2, <1>3
<1>6. \A i \in 1 .. Len(EventsSteps) : RelayEvents[Len(RelayMesh) + i] = EventsSteps[i]
  BY <1>2, <1>4
<1>7. Len(RelayEvents) = Len(RelayMesh) + Len(EventsSteps)
  BY <1>2
<1> QED BY <1>1, <1>5, <1>6, <1>7, Joined, Zenon

LEMMA RelayWithCommands == ~ conf.border => RelayEvents \o CommandsSteps = RelaySteps
<1> SUFFICES ASSUME ~ conf.border PROVE RelayEvents \o CommandsSteps = RelaySteps
  OBVIOUS
<1>1. RelayEvents \in Seq(StepNames) /\ CommandsSteps \in Seq(StepNames) /\ RelaySteps \in Seq(StepNames)
  BY DEF RelayEvents, CommandsSteps, RelaySteps, StepNames
<1>2. Len(RelayEvents) = 13 /\ Len(CommandsSteps) = 1 /\ Len(RelaySteps) = 14
  BY DEF RelayEvents, CommandsSteps, RelaySteps
<1>3. /\ RelaySteps[1] = RelayEvents[1] /\ RelaySteps[2] = RelayEvents[2]
      /\ RelaySteps[3] = RelayEvents[3] /\ RelaySteps[4] = RelayEvents[4]
      /\ RelaySteps[5] = RelayEvents[5] /\ RelaySteps[6] = RelayEvents[6]
      /\ RelaySteps[7] = RelayEvents[7] /\ RelaySteps[8] = RelayEvents[8]
      /\ RelaySteps[9] = RelayEvents[9] /\ RelaySteps[10] = RelayEvents[10]
      /\ RelaySteps[11] = RelayEvents[11] /\ RelaySteps[12] = RelayEvents[12]
      /\ RelaySteps[13] = RelayEvents[13]
  BY DEF RelayEvents, RelaySteps
<1>4. /\ RelaySteps[14] = CommandsSteps[1]
  BY DEF CommandsSteps, RelaySteps
<1>5. \A i \in 1 .. Len(RelayEvents) : RelaySteps[i] = RelayEvents[i]
  BY <1>2, <1>3
<1>6. \A i \in 1 .. Len(CommandsSteps) : RelaySteps[Len(RelayEvents) + i] = CommandsSteps[i]
  BY <1>2, <1>4
<1>7. Len(RelaySteps) = Len(RelayEvents) + Len(CommandsSteps)
  BY <1>2
<1> QED BY <1>1, <1>5, <1>6, <1>7, Joined, Zenon

LEMMA StepsOfBorder == conf.border => Steps = BorderSteps
<1>1. BorderSteps \in Seq(StepNames) /\ BorderSteps \o <<>> = BorderSteps
  <2>1. BorderSteps \in Seq(StepNames)
    BY DEF BorderSteps, StepNames
  <2> QED BY <2>1, ConcatEmptySeq
<1>2. conf.border => EventsSteps = <<>> /\ CommandsSteps = <<>>
  BY DEF EventsSteps, CommandsSteps
<1> QED BY <1>1, <1>2, BorderWithProxy, BorderWithUplink, BorderWithMesh DEF Steps

LEMMA StepsOfRelay == ~ conf.border => Steps = RelaySteps
<1>1. MainSteps \o <<>> = MainSteps
  <2>1. MainSteps \in Seq(StepNames)
    BY DEF MainSteps, StepNames
  <2> QED BY <2>1, ConcatEmptySeq
<1>2. ~ conf.border => ProxySteps = <<>>
  BY DEF ProxySteps
<1> QED BY <1>1, <1>2, RelayWithUplink, RelayWithMesh, RelayWithEvents, RelayWithCommands
        DEF Steps

\* conf never changes, so that the steps are those of one gateway.
Typed == conf \in Configurations /\ done \in 0 .. Len(Steps)

LEMMA StepsAreSteps ==
  ASSUME Typed
  PROVE  /\ Steps \in Seq(StepNames)
         /\ Len(Steps) = (IF conf.border THEN 13 ELSE 14)
         /\ done \in Nat
<1>1. BorderSteps \in Seq(StepNames) /\ Len(BorderSteps) = 13
  BY DEF BorderSteps, StepNames
<1>2. RelaySteps \in Seq(StepNames) /\ Len(RelaySteps) = 14
  BY DEF RelaySteps, StepNames
<1> QED BY <1>1, <1>2, StepsOfBorder, StepsOfRelay DEF Typed

LEMMA MadeIs ==
  ASSUME Typed, NEW step
  PROVE  Made(step) <=> \E i \in 1 .. done : Steps[i] = step
<1> DEFINE first == SubSeq(Steps, 1, done)
<1>1. Steps \in Seq(StepNames) /\ done \in 0 .. Len(Steps) /\ Len(Steps) \in Nat
  BY StepsAreSteps, LenProperties DEF Typed
<1>2. \A i \in 1 .. done : Steps[i] \in StepNames
  BY <1>1, ElementOfSeq
<1>3. /\ first \in Seq(StepNames) /\ Len(first) = done
      /\ \A i \in 1 .. done : first[i] = Steps[i]
  BY <1>1, <1>2, SubSeqProperties
<1>4. DOMAIN first = 1 .. done
  BY <1>3, LenProperties
<1> QED BY <1>3, <1>4 DEF Made, ToSet

\* What a border gateway has when its loops run, and when all is set up.
LEMMA OrderOfBorder ==
  ASSUME Typed, conf.border
  PROVE  /\ Made("event_loop") => Made("EVENT_CHAN")
         /\ Made("mesh_event_loop") => Made("EVENT_CHAN") /\ Made("GATEWAY_ID")
         /\ ~ Made("report_loops")
         /\ Started => \A n \in {"EVENT_CHAN", "GATEWAY_ID", "CONCENTRATORD_CMD_CHAN",
                                 "MESH_CONCENTRATORD_CMD_CHAN"} : Made(n)
<1>1. /\ \A i \in 1 .. Len(BorderSteps) : BorderSteps[i] = "event_loop" => i = 9
      /\ \A i \in 1 .. Len(BorderSteps) : BorderSteps[i] = "mesh_event_loop" => i = 13
      /\ \A i \in 1 .. Len(BorderSteps) : BorderSteps[i] # "report_loops"
      /\ BorderSteps[4] = "EVENT_CHAN" /\ BorderSteps[6] = "GATEWAY_ID"
      /\ BorderSteps[7] = "CONCENTRATORD_CMD_CHAN"
      /\ BorderSteps[11] = "MESH_CONCENTRATORD_CMD_CHAN"
  <2>1. /\ BorderSteps[1] = "configuration" /\ BorderSteps[2] = "log_level"
        /\ BorderSteps[3] = "logging" /\ BorderSteps[4] = "EVENT_CHAN"
        /\ BorderSteps[5] = "command_loop" /\ BorderSteps[6] = "GATEWAY_ID"
        /\ BorderSteps[7] = "CONCENTRATORD_CMD_CHAN"
        /\ BorderSteps[8] = "subscribed" /\ BorderSteps[9] = "event_loop"
        /\ BorderSteps[10] = "RELAY_ID"
        /\ BorderSteps[11] = "MESH_CONCENTRATORD_CMD_CHAN"
        /\ BorderSteps[12] = "mesh_subscribed"
        /\ BorderSteps[13] = "mesh_event_loop"
    BY DEF BorderSteps
  <2>2. Len(BorderSteps) = 13
    BY DEF BorderSteps
  <2>3. \A i \in 1 .. Len(BorderSteps) : BorderSteps[i] = "event_loop" => i = 9
    BY <2>1, <2>2
  <2>4. \A i \in 1 .. Len(BorderSteps) : BorderSteps[i] = "mesh_event_loop" => i = 13
    BY <2>1, <2>2
  <2>5. \A i \in 1 .. Len(BorderSteps) : BorderSteps[i] # "report_loops"
    BY <2>1, <2>2
  <2> QED BY <2>1, <2>3, <2>4, <2>5
<1>2. Steps = BorderSteps /\ done \in 0 .. Len(BorderSteps) /\ Len(BorderSteps) = 13
  BY StepsOfBorder, StepsAreSteps DEF Typed
<1>3. Made("event_loop") => done >= 9
  BY <1>1, <1>2, MadeIs
<1>4. Made("mesh_event_loop") => done = 13
  BY <1>1, <1>2, MadeIs
<1>5. ~ Made("report_loops")
  BY <1>1, <1>2, MadeIs
<1>6. Started => done = 13
  BY <1>2, StepsAreSteps DEF Started
<1>7. \A k \in 1 .. done : Made(Steps[k])
  BY MadeIs
<1>8. /\ done >= 9 => Made("EVENT_CHAN") /\ Made("GATEWAY_ID") /\ Made("CONCENTRATORD_CMD_CHAN")
      /\ done = 13 => Made("MESH_CONCENTRATORD_CMD_CHAN")
  BY <1>1, <1>2, <1>7
<1> QED BY <1>3, <1>4, <1>5, <1>6, <1>8

\* And a relay.
LEMMA OrderOfRelay ==
  ASSUME Typed, ~ conf.border
  PROVE  /\ Made("mesh_event_loop") =>
              \A n \in RelayNeeds["mesh"] \cup RelayNeeds["unwrap"] : Made(n)
         /\ Made("report_loops") => \A n \in RelayNeeds["report"] : Made(n)
         /\ ~ Made("command_loop")
         /\ Started => \A n \in RelayNeeds["uplink"] \cup RelayNeeds["command"] : Made(n)
<1>1. /\ \A i \in 1 .. Len(RelaySteps) : RelaySteps[i] = "mesh_event_loop" => i = 11
      /\ \A i \in 1 .. Len(RelaySteps) : RelaySteps[i] = "report_loops" => i = 13
      /\ \A i \in 1 .. Len(RelaySteps) : RelaySteps[i] # "command_loop"
      /\ RelaySteps[4] = "GATEWAY_ID" /\ RelaySteps[5] = "CONCENTRATORD_CMD_CHAN"
      /\ RelaySteps[8] = "RELAY_ID" /\ RelaySteps[9] = "MESH_CONCENTRATORD_CMD_CHAN"
      /\ RelaySteps[12] = "event_commands" /\ RelaySteps[14] = "COMMANDS"
  <2>1. /\ RelaySteps[1] = "configuration" /\ RelaySteps[2] = "log_level"
        /\ RelaySteps[3] = "logging" /\ RelaySteps[4] = "GATEWAY_ID"
        /\ RelaySteps[5] = "CONCENTRATORD_CMD_CHAN" /\ RelaySteps[6] = "subscribed"
        /\ RelaySteps[7] = "event_loop" /\ RelaySteps[8] = "RELAY_ID"
        /\ RelaySteps[9] = "MESH_CONCENTRATORD_CMD_CHAN"
        /\ RelaySteps[10] = "mesh_subscribed" /\ RelaySteps[11] = "mesh_event_loop"
        /\ RelaySteps[12] = "event_commands" /\ RelaySteps[13] = "report_loops"
        /\ RelaySteps[14] = "COMMANDS"
    BY DEF RelaySteps
  <2>2. Len(RelaySteps) = 14
    BY DEF RelaySteps
  <2>3. \A i \in 1 .. Len(RelaySteps) : RelaySteps[i] = "mesh_event_loop" => i = 11
    BY <2>1, <2>2
  <2>4. \A i \in 1 .. Len(RelaySteps) : RelaySteps[i] = "report_loops" => i = 13
    BY <2>1, <2>2
  <2>5. \A i \in 1 .. Len(RelaySteps) : RelaySteps[i] # "command_loop"
    BY <2>1, <2>2
  <2> QED BY <2>1, <2>3, <2>4, <2>5
<1>2. Steps = RelaySteps /\ done \in 0 .. Len(RelaySteps) /\ Len(RelaySteps) = 14
  BY StepsOfRelay, StepsAreSteps DEF Typed
<1>3. Made("mesh_event_loop") => done >= 11
  BY <1>1, <1>2, MadeIs
<1>4. Made("report_loops") => done >= 13
  BY <1>1, <1>2, MadeIs
<1>5. ~ Made("command_loop")
  BY <1>1, <1>2, MadeIs
<1>6. Started => done = 14
  BY <1>2, StepsAreSteps DEF Started
<1>7. \A k \in 1 .. done : Made(Steps[k])
  BY MadeIs
<1>8. /\ done >= 11 => /\ Made("GATEWAY_ID") /\ Made("CONCENTRATORD_CMD_CHAN")
                       /\ Made("RELAY_ID") /\ Made("MESH_CONCENTRATORD_CMD_CHAN")
      /\ done >= 13 => Made("event_commands")
      /\ done = 14 => Made("COMMANDS")
  BY <1>1, <1>2, <1>7
<1>9. /\ RelayNeeds["mesh"] \cup RelayNeeds["unwrap"] =
           {"GATEWAY_ID", "CONCENTRATORD_CMD_CHAN", "RELAY_ID", "MESH_CONCENTRATORD_CMD_CHAN"}
      /\ RelayNeeds["report"] =
           {"RELAY_ID", "MESH_CONCENTRATORD_CMD_CHAN", "event_commands"}
      /\ RelayNeeds["uplink"] \cup RelayNeeds["command"] =
           {"RELAY_ID", "MESH_CONCENTRATORD_CMD_CHAN", "COMMANDS"}
  BY DEF RelayNeeds
<1>10. Made("mesh_event_loop") =>
         \A n \in RelayNeeds["mesh"] \cup RelayNeeds["unwrap"] : Made(n)
  BY <1>3, <1>8, <1>9
<1>11. Made("report_loops") => \A n \in RelayNeeds["report"] : Made(n)
  BY <1>2, <1>4, <1>8, <1>9
<1>12. Started => \A n \in RelayNeeds["uplink"] \cup RelayNeeds["command"] : Made(n)
  BY <1>2, <1>6, <1>8, <1>9
<1> QED BY <1>5, <1>10, <1>11, <1>12

-----------------------------------------------------------------------------
(***************************************************************************)
(* What fails, fails early.                                                *)
(***************************************************************************)
Early == IF conf.border THEN AtProxy ELSE {"uplink", "command"}

StartInv == Typed /\ OnlyEarlyFails

LEMMA RunsKeeps ==
  ASSUME OnlyEarlyFails, conf' = conf, NEW what, Runs(what),
         \/ what \in Early /\ (Started => \A n \in Needs(what) : Made(n))
         \/ \A n \in Needs(what) : Made(n)
  PROVE  OnlyEarlyFails'
<1>1. CASE \A n \in Needs(what) : Made(n)
  BY <1>1 DEF Runs, HasAll, OnlyEarlyFails
<1>2. CASE ~ \A n \in Needs(what) : Made(n)
  <2>1. failed' = [what |-> what, started |-> Started]
    BY <1>2 DEF Runs, HasAll
  <2>2. what \in Early /\ ~ Started
    BY <1>2
  <2>3. failed'.what = what
    BY <2>1
  <2>4. failed'.started = Started
    BY <2>1
  <2>5. ~ failed'.started /\ failed'.what \in Early
    BY <2>2, <2>3, <2>4
  <2> QED BY <2>5 DEF OnlyEarlyFails, Early, AtProxy
<1> QED BY <1>1, <1>2

LEMMA StartStep == StartInv /\ [StartNext]_startAllVars => StartInv'
<1> SUFFICES ASSUME StartInv, [StartNext]_startAllVars PROVE StartInv'
  OBVIOUS
<1>1. conf' = conf
  BY DEF StartNext, startAllVars, vars, Advance, Fail, Signal, Publish, Receive, TakeEvent,
         HandleEvent, TakeMeshEvent, HandleMeshEvent, FinishCommand, TakeRequest, TakeReport
<1>2. Steps' = Steps
  BY <1>1 DEF Steps, MainSteps, ProxySteps, ConcentratordSteps, MeshSteps, EventsSteps,
              CommandsSteps
<1>3. Typed'
  <2>1. done' = done \/ (done' = done + 1 /\ done # Len(Steps))
    BY DEF StartNext, startAllVars, startVars, Advance, Fail, Signal, Publish, TakeEvent,
           TakeMeshEvent, FinishCommand, TakeRequest, TakeReport, Started
  <2>2. Typed /\ Len(Steps) \in Nat
    BY StepsAreSteps, LenProperties DEF StartInv
  <2> QED BY <1>1, <1>2, <2>1, <2>2 DEF Typed
<1>4. Typed /\ OnlyEarlyFails
  BY DEF StartInv
<1>5. ASSUME UNCHANGED failed PROVE OnlyEarlyFails'
  BY <1>1, <1>4, <1>5 DEF OnlyEarlyFails
<1>6. ASSUME TakeEvent PROVE OnlyEarlyFails'
  <2>1. Made("event_loop") /\ (UNCHANGED failed \/ Runs("uplink") \/ (Runs("stats") /\ conf.border))
    BY <1>6 DEF TakeEvent, HandleEvent
  <2>2. ASSUME conf.border PROVE \A n \in Needs("uplink") \cup Needs("stats") : Made(n)
    BY <1>4, <2>1, <2>2, OrderOfBorder DEF Needs, BorderNeeds
  <2>3. ASSUME ~ conf.border
        PROVE  "uplink" \in Early /\ (Started => \A n \in Needs("uplink") : Made(n))
    BY <1>4, <2>3, OrderOfRelay DEF Needs, Early
  <2> QED BY <1>1, <1>4, <1>5, <2>1, <2>2, <2>3, RunsKeeps
<1>7. ASSUME TakeMeshEvent PROVE OnlyEarlyFails'
  <2>1. Made("mesh_event_loop") /\ (UNCHANGED failed \/ \E what \in OnMesh : Runs(what))
    BY <1>7 DEF TakeMeshEvent
  <2>2. ASSUME NEW what \in OnMesh
        PROVE  \/ what \in Early /\ (Started => \A n \in Needs(what) : Made(n))
               \/ \A n \in Needs(what) : Made(n)
    <3>1. CASE conf.border
      BY <1>4, <2>1, <3>1, OrderOfBorder DEF OnMesh, Needs, BorderNeeds
    <3>2. CASE ~ conf.border
      BY <1>4, <2>1, <3>2, OrderOfRelay DEF OnMesh, Needs, Early
    <3> QED BY <3>1, <3>2
  <2> QED BY <1>1, <1>4, <1>5, <2>1, <2>2, RunsKeeps
<1>8. ASSUME TakeRequest PROVE OnlyEarlyFails'
  <2>1. Made("command_loop") /\ \E what \in AtProxy : Runs(what)
    BY <1>8 DEF TakeRequest
  <2>2. conf.border
    BY <1>4, <2>1, OrderOfRelay
  <2>3. ASSUME NEW what \in AtProxy
        PROVE  what \in Early /\ (Started => \A n \in Needs(what) : Made(n))
    BY <1>4, <2>2, OrderOfBorder DEF AtProxy, Early, Needs, BorderNeeds
  <2> QED BY <1>1, <1>4, <2>1, <2>3, RunsKeeps
<1>9. ASSUME TakeReport PROVE OnlyEarlyFails'
  <2>1. Made("report_loops") /\ Runs("report")
    BY <1>9 DEF TakeReport
  <2>2. ~ conf.border
    BY <1>4, <2>1, OrderOfBorder
  <2>3. \A n \in Needs("report") : Made(n)
    BY <1>4, <2>1, <2>2, OrderOfRelay DEF Needs
  <2> QED BY <1>1, <1>4, <2>1, <2>3, RunsKeeps
<1>10. \/ UNCHANGED failed \/ TakeEvent \/ TakeMeshEvent \/ TakeRequest \/ TakeReport
  BY DEF StartNext, startAllVars, startVars, Advance, Fail, Signal, Publish, FinishCommand
<1> QED BY <1>3, <1>5, <1>6, <1>7, <1>8, <1>9, <1>10 DEF StartInv

LEMMA StartStart == StartInit => StartInv
<1> SUFFICES ASSUME StartInit PROVE StartInv
  OBVIOUS
<1>1. conf \in Configurations /\ done = 0 /\ failed.what = "nothing"
  BY DEF StartInit, Init
<1>2. Len(Steps) \in Nat
  <2>1. Len(BorderSteps) = 13 /\ Len(RelaySteps) = 14
    BY DEF BorderSteps, RelaySteps
  <2> QED BY <2>1, StepsOfBorder, StepsOfRelay
<1> QED BY <1>1, <1>2 DEF StartInv, Typed, OnlyEarlyFails

(***************************************************************************)
(* Once the start is over nothing fails for what it left out; before, only *)
(* requests of the server and, on a relay, frames of its devices and       *)
(* commands can come too early (backend.rs:97, 148, root.rs:10-13).        *)
(***************************************************************************)
THEOREM OnlyEarlyOnesFail == StartSpec => []OnlyEarlyFails
<1>1. StartInv => OnlyEarlyFails
  BY DEF StartInv
<1> QED BY <1>1, StartStart, StartStep, PTL DEF StartSpec
=============================================================================
