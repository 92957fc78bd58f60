-------------------------------- MODULE Mesh --------------------------------
(***************************************************************************)
(* A network of gateways that run mesh.rs, events.rs and commands.rs.  A   *)
(* border gateway publishes what reaches it to the server and sends the    *)
(* server's downlinks and commands into the mesh; a relay gateway wraps    *)
(* what end-devices send, unwraps what is addressed to it, and re-relays   *)
(* the rest.  Every gateway handles the frames its mesh concentratord      *)
(* receives one at a time, in order (mesh_event_loop, backend.rs:256).     *)
(*                                                                         *)
(* Two things are assumed of the gateways of one network: that they share  *)
(* the signing key and the root key, or neither, so that one Key stands    *)
(* for both and what verifies can be decrypted; and that their clocks      *)
(* agree and do not go back, so that one clock stands for all.             *)
(***************************************************************************)
EXTENDS MeshPacket, Cache

CONSTANTS
  Borders,       \* the gateways with conf.mesh.border_gateway
  Neighbours,    \* who hears a gateway's mesh transmissions
  Key,           \* mesh.signing_key and mesh.root_key of each gateway, as one
  MaxHopCount,   \* conf.mesh.max_hop_count
  CacheSize,     \* 64 in mesh.rs:30
  MaxUplinkId,   \* 4095 in mesh.rs:647
  NumFrequencies,\* conf.mesh.frequencies.len()
  NoContext,     \* UPLINK_CONTEXT has no entry
  Idle,          \* no command is being executed
  Wrappable,     \* <<relay, uplink>>: the relay can wrap it, see RelayUplinkLora
  Unwrappable,   \* <<border, relay, uplink>>: the border can unwrap it, see Unwraps
  Lossy,         \* whether a transmission may miss neighbours, or fail
  HeardBy,       \* bound: the gateways that hear each uplink of a device
  ReportedBy,    \* bound: the reports each relay sends, once each
  MaxTime,       \* bound: the last second of the clock
  MaxRestarts    \* bound: how often each gateway restarts

Relays == Gateways \ Borders

ASSUME BordersAreGateways == Borders \subseteq Gateways
ASSUME NeighboursAreOthers ==
  /\ Neighbours \in [Gateways -> SUBSET Gateways]
  /\ \A g \in Gateways : g \notin Neighbours[g]
ASSUME KeyType == Key \in [Gateways -> Keys]
ASSUME NumbersType ==
  /\ MaxHopCount \in Nat /\ MaxUplinkId \in Nat
  /\ CacheSize \in Nat \ {0} /\ NumFrequencies \in Nat \ {0}
ASSUME NoContextIsNoUplink == NoContext \notin Uplinks
ASSUME IdleIsNoCommand == Idle \notin Commands
ASSUME InputsType ==
  /\ HeardBy \in [Uplinks -> SUBSET Gateways]
  /\ ReportedBy \in [Relays -> SUBSET (EventSets \cup Heartbeats)]

VARIABLES
  \* the statics of the program, one of each per gateway; lost by a restart
  uplinkId,      \* UPLINK_ID
  uplinkContext, \* UPLINK_CONTEXT
  payloadCache,  \* PAYLOAD_CACHE
  lastTimestamp, \* LAST_TIMESTAMP, 0 for None
  meshChannel,   \* MESH_CHANNEL
  inbox,         \* the channel the mesh event loop reads
  executing,     \* the command the mesh event loop waits for, or Idle
  retrying,      \* the downlink whose next item the command loop is to try
  \* the world
  now,           \* SystemTime::now(), in seconds
  boot,          \* restarts of a gateway so far
  \* histories
  heard,         \* <<gateway, uplink>>: LoRa frames received from devices
  stored,        \* per gateway: uplinks whose context was stored since boot
  seen,          \* per gateway: cache keys accepted since boot
  published,     \* what border gateways sent to the server
  unmapped,      \* the uplinks border gateways accepted and could not unwrap
  answered,      \* the published uplinks the server has answered
  radioed,       \* downlinks handed to a concentratord, for a device
  issued,        \* commands sent by border gateways
  executed,      \* commands a relay started to execute
  reported       \* <<relay, report>>: events of the event loops

\* The variables by the part of the program they belong to.
contexts == <<uplinkId, uplinkContext, stored>>
dedup == <<payloadCache, seen>>
commanding == <<lastTimestamp, executing, executed>>
serving == <<retrying, answered, issued>>
air == <<inbox, meshChannel>>
world == <<now, boot, heard, reported>>
output == <<published, unmapped, radioed>>
vars == <<contexts, dedup, commanding, serving, air, world, output>>

Init ==
  /\ uplinkId = [g \in Gateways |-> 0]
  /\ uplinkContext = [g \in Gateways |-> [id \in 0 .. MaxUplinkId |-> NoContext]]
  /\ payloadCache = [g \in Gateways |-> <<>>]
  /\ lastTimestamp = [g \in Gateways |-> 0]
  /\ meshChannel = [g \in Gateways |-> 0]
  /\ inbox = [g \in Gateways |-> <<>>]
  /\ executing = [g \in Gateways |-> Idle]
  /\ retrying = [g \in Gateways |-> {}]
  /\ now = 1
  /\ boot = [g \in Gateways |-> 0]
  /\ heard = {} /\ published = {} /\ unmapped = {} /\ answered = {} /\ radioed = {}
  /\ issued = {} /\ executed = {} /\ reported = {}
  /\ stored = [g \in Gateways |-> <<>>]
  /\ seen = [g \in Gateways |-> <<>>]

-----------------------------------------------------------------------------
(***************************************************************************)
(* Transmissions.  The frame goes to the inbox of every neighbour that     *)
(* receives it: to none of them when backend::mesh fails.                  *)
(***************************************************************************)
\* A slip: the index runs past the last frequency.
NextChannelNoWrap(c) == IF c + 1 > NumFrequencies THEN 0 ELSE c + 1

\* get_mesh_frequency: the configured frequencies in turn.
NextChannel(c) == IF c + 1 >= NumFrequencies THEN 0 ELSE c + 1

Reached(g) == IF Lossy THEN SUBSET Neighbours[g] ELSE {Neighbours[g]}

Deliver(box, f, receivers) ==
  [h \in Gateways |-> IF h \in receivers THEN Append(box[h], f) ELSE box[h]]

\* encrypt, set_mic, get_mesh_frequency, backend::mesh; box is the inboxes before.
Transmit(g, box, p) ==
  /\ \E receivers \in Reached(g) :
       inbox' = Deliver(box, Seal(p, Key[g]), receivers)
  /\ meshChannel' = [meshChannel EXCEPT ![g] = NextChannel(@)]

-----------------------------------------------------------------------------
(***************************************************************************)
(* LoRa uplinks of end-devices (handle_uplink).                            *)
(***************************************************************************)
\* A slip of get_uplink_id: the counter sticks at the last value.
NextUplinkIdSticks(id) == IF id + 1 > MaxUplinkId THEN MaxUplinkId ELSE id + 1

NextUplinkId(id) == IF id + 1 > MaxUplinkId THEN 0 ELSE id + 1

\* What the server sees of a packet: who published it, and as which one.
Publication(g, p, pos) == [at |-> g, boot |-> boot[g], pos |-> pos, packet |-> p]

Hear(g, u) ==
  /\ g \in HeardBy[u]
  /\ <<g, u>> \notin heard
  /\ heard' = heard \cup {<<g, u>>}

(***************************************************************************)
(* proxy_uplink_lora_packet: the border publishes the frame, with itself   *)
(* as the gateway and the context of its own concentratord.                *)
(***************************************************************************)
ProxyUplinkLora(g, u) ==
  /\ g \in Borders
  /\ Hear(g, u)
  /\ published' = published \cup {Publication(g, NewPacket("Uplink", g, 0, u), 0)}
  /\ UNCHANGED <<contexts, dedup, commanding, serving, air, now, boot, reported,
                 unmapped, radioed>>

(***************************************************************************)
(* relay_uplink_lora_packet: the context is stored under a fresh uplink ID *)
(* before the frame is wrapped.  Wrapping fails when the data-rate or the  *)
(* frequency is not in the relay's mappings, or when the header has no     *)
(* room for the RSSI or the SNR (set_mic): the frame has then consumed an  *)
(* ID, and nothing is sent.                                                *)
(***************************************************************************)
RelayUplinkLora(g, u) ==
  LET id == NextUplinkId(uplinkId[g])
  IN  /\ g \in Relays
      /\ Hear(g, u)
      /\ uplinkId' = [uplinkId EXCEPT ![g] = id]
      /\ uplinkContext' = [uplinkContext EXCEPT ![g][id] = u]
      /\ stored' = [stored EXCEPT ![g] = Append(@, u)]
      /\ IF <<g, u>> \in Wrappable THEN Transmit(g, inbox, NewPacket("Uplink", g, id, u))
                                   ELSE UNCHANGED <<inbox, meshChannel>>
      /\ UNCHANGED <<dedup, commanding, serving, now, boot, reported, output>>

-----------------------------------------------------------------------------
(***************************************************************************)
(* Mesh frames (handle_mesh).  The loop takes the next frame when it is    *)
(* not waiting for a command.                                              *)
(***************************************************************************)
Frame(g) == Head(inbox[g])

Arrived(g) == executing[g] = Idle /\ inbox[g] # <<>>

Taken(g) == [inbox EXCEPT ![g] = Tail(@)]

DropInvalidMic(g) ==
  /\ Arrived(g)
  /\ ~ ValidMic(Frame(g), Key[g])
  /\ inbox' = Taken(g)
  /\ UNCHANGED <<contexts, dedup, commanding, serving, meshChannel, world,
                 output>>

Verified(g) == Arrived(g) /\ ValidMic(Frame(g), Key[g])

\* A slip of the early return: the refused frame stays in the queue.
DropSeenKeepsFrame(g) ==
  /\ Verified(g)
  /\ CacheHas(payloadCache[g], CacheKey(Frame(g).packet))
  /\ UNCHANGED vars

\* The packet is refused by the cache: "it means we have already seen" it.
DropSeen(g) ==
  /\ Verified(g)
  /\ CacheHas(payloadCache[g], CacheKey(Frame(g).packet))
  /\ inbox' = Taken(g)
  /\ UNCHANGED <<contexts, dedup, commanding, serving, meshChannel, world,
                 output>>

\* The packet is added to the cache, before anything else is done with it.
Accept(g) ==
  LET key == CacheKey(Frame(g).packet)
  IN  /\ Verified(g)
      /\ ~ CacheHas(payloadCache[g], key)
      /\ payloadCache' = [payloadCache EXCEPT ![g] = CacheAdd(@, key, CacheSize)]
      /\ seen' = [seen EXCEPT ![g] = Append(@, key)]

\* The accepted packet, decrypted, and its place in the history seen.
Packet(g) == Decrypt(Frame(g).packet, Key[g])
Position(g) == Len(seen[g]) + 1

\* A slip: what is addressed to another relay is taken for this one's.
ForThisRelayAny(g, p) == TRUE

\* The relay ID in the packet is this relay's.
ForThisRelay(g, p) == p.relay = g

(***************************************************************************)
(* A border gateway: proxy_uplink_mesh_packet and proxy_event_mesh_packet  *)
(* publish, any other type is accepted and ignored.  The relay has put     *)
(* places in its own mappings for the frequency and the data-rate of an    *)
(* uplink; where those of the border end before, nothing is published, but *)
(* the packet stays in the cache.                                          *)
(***************************************************************************)
Unwraps(g, p) == p.type = "Uplink" => <<g, p.relay, p.body>> \in Unwrappable

ProxyMesh(g) ==
  /\ g \in Borders
  /\ Accept(g)
  /\ Packet(g).type \in {"Uplink", "Event"}
  /\ Unwraps(g, Packet(g))
  /\ published' = published \cup {Publication(g, Packet(g), Position(g))}
  /\ inbox' = Taken(g)
  /\ UNCHANGED <<contexts, commanding, serving, meshChannel, world, unmapped, radioed>>

ProxyMeshFails(g) ==
  /\ g \in Borders
  /\ Accept(g)
  /\ Packet(g).type = "Uplink"
  /\ ~ Unwraps(g, Packet(g))
  /\ unmapped' = unmapped \cup {Publication(g, Packet(g), Position(g))}
  /\ inbox' = Taken(g)
  /\ UNCHANGED <<contexts, commanding, serving, meshChannel, world, published, radioed>>

BorderIgnores(g) ==
  /\ g \in Borders
  /\ Accept(g)
  /\ Packet(g).type \in {"Downlink", "Command"}
  /\ inbox' = Taken(g)
  /\ UNCHANGED <<contexts, commanding, serving, meshChannel, world, output>>

-----------------------------------------------------------------------------
(***************************************************************************)
(* A relay gateway (relay_mesh_packet).  What it sent itself it drops,     *)
(* what is addressed to it it handles, the rest it re-relays.              *)
(***************************************************************************)
DropOwn(g) ==
  /\ g \in Relays
  /\ Accept(g)
  /\ Packet(g).type \in {"Uplink", "Event"}
  /\ ForThisRelay(g, Packet(g))
  /\ inbox' = Taken(g)
  /\ UNCHANGED <<contexts, commanding, serving, meshChannel, world, output>>

\* The uplinks that are among the last, one per ID, that were stored.
InWindow(g, u) ==
  \E k \in DOMAIN stored[g] : stored[g][k] = u /\ Len(stored[g]) - k <= MaxUplinkId

\* What a concentratord is given to send to a device.
Radio(g, p, pos, ctx) ==
  [at |-> g, boot |-> boot[g], pos |-> pos, packet |-> p, ctx |-> ctx,
   recent |-> InWindow(g, p.body)]

(***************************************************************************)
(* A downlink for this relay goes to its own concentratord, with the       *)
(* context that was stored for the uplink.  Without a context it is lost,  *)
(* and so it is when the power or the data-rate that the border has put in *)
(* is not in the mappings of this relay.                                   *)
(***************************************************************************)
UnwrapDownlink(g) ==
  LET p == Packet(g)
      ctx == uplinkContext[g][p.id]
  IN  /\ g \in Relays
      /\ Accept(g)
      /\ p.type = "Downlink"
      /\ ForThisRelay(g, p)
      /\ \/ UNCHANGED radioed
         \/ /\ ctx # NoContext
            /\ radioed' = radioed \cup {Radio(g, p, Position(g), ctx)}
      /\ inbox' = Taken(g)
      /\ UNCHANGED <<contexts, commanding, serving, meshChannel, world, published,
                     unmapped>>

(***************************************************************************)
(* A command for this relay (execute_commands).  Its timestamp must exceed *)
(* the last one, which is stored before the command is executed; the mesh  *)
(* event loop then waits for the command.                                  *)
(***************************************************************************)
\* Slips: a command of the same second is let through, or the next second refused.
TimestampStaleStrict(last, ts) == last > ts

TimestampStaleMargin(last, ts) == last # 0 /\ last + 1 >= ts

TimestampStale(last, ts) == last # 0 /\ last >= ts

ExecuteCommands(g) ==
  LET p == Packet(g)
  IN  /\ g \in Relays
      /\ Accept(g)
      /\ p.type = "Command"
      /\ ForThisRelay(g, p)
      /\ ~ TimestampStale(lastTimestamp[g], p.id)
      /\ lastTimestamp' = [lastTimestamp EXCEPT ![g] = p.id]
      /\ executing' = [executing EXCEPT ![g] = p.body]
      /\ executed' = executed \cup {[at |-> g, boot |-> boot[g], pos |-> Position(g),
                                     ts |-> p.id, body |-> p.body]}
      /\ inbox' = Taken(g)
      /\ UNCHANGED <<contexts, serving, meshChannel, world, output>>

RejectCommands(g) ==
  LET p == Packet(g)
  IN  /\ g \in Relays
      /\ Accept(g)
      /\ p.type = "Command"
      /\ ForThisRelay(g, p)
      /\ TimestampStale(lastTimestamp[g], p.id)
      /\ inbox' = Taken(g)
      /\ UNCHANGED <<contexts, commanding, serving, meshChannel, world, output>>

(***************************************************************************)
(* Any other packet is re-transmitted with one hop more, a heartbeat with  *)
(* this relay added to its path.  Nothing is sent when the header cannot   *)
(* hold the hop count or the path cannot hold the RSSI or the SNR at which *)
(* this relay received the heartbeat (set_mic fails), or when the maximum  *)
(* is exceeded.                                                            *)
(***************************************************************************)
\* Slips: the limit is off by one, either way.
HopExceededLate(hop) == hop > MaxHopCount + 1
HopExceededEarly(hop) == hop >= MaxHopCount

HopExceeded(hop) == hop > MaxHopCount

\* A slip: the relay does not add itself to the path.
RelayedForgetsPath(p, g) == [p EXCEPT !.hop = @ + 1]

Relayed(p, g) ==
  [p EXCEPT !.hop = @ + 1,
            !.path = IF p.body \in Heartbeats THEN Append(@, g) ELSE @]

RelayMesh(g) ==
  LET p == Relayed(Packet(g), g)
  IN  /\ g \in Relays
      /\ Accept(g)
      /\ ~ ForThisRelay(g, p)
      /\ \/ HeaderFits(p.hop) /\ ~ HopExceeded(p.hop) /\ Transmit(g, Taken(g), p)
         \/ /\ ~ HeaderFits(p.hop) \/ HopExceeded(p.hop) \/ (Lossy /\ p.body \in Heartbeats)
            /\ inbox' = Taken(g) /\ UNCHANGED meshChannel
      /\ UNCHANGED <<contexts, commanding, serving, world, output>>

\* One turn of the mesh event loop.
HandleMesh(g) ==
  \/ DropInvalidMic(g) \/ DropSeen(g)
  \/ ProxyMesh(g) \/ ProxyMeshFails(g) \/ BorderIgnores(g)
  \/ DropOwn(g) \/ UnwrapDownlink(g) \/ ExecuteCommands(g) \/ RejectCommands(g)
  \/ RelayMesh(g)

(***************************************************************************)
(* The command ends: its response, if it has one, is sent as an event that *)
(* is stamped with the time at which it is sent.                           *)
(***************************************************************************)
FinishCommands(g) ==
  /\ executing[g] # Idle
  /\ executing' = [executing EXCEPT ![g] = Idle]
  /\ \/ Transmit(g, inbox, NewPacket("Event", g, now, executing[g]))
     \/ UNCHANGED <<inbox, meshChannel>>
  /\ UNCHANGED <<contexts, dedup, lastTimestamp, executed, serving, world,
                 output>>

-----------------------------------------------------------------------------
(***************************************************************************)
(* The server answers an uplink it was sent (handle_downlink).  The        *)
(* context of a relayed uplink holds the relay and the uplink ID.          *)
(***************************************************************************)
IsUplink(e) == e.packet.type = "Uplink"
\* A slip: the prefix of a relayed uplink's context is not recognised.
HasMeshContextNever(e) == FALSE

HasMeshContext(e) == e.packet.relay # e.at

\* The proxy's command loop handles one request of the server at a time.
CommandLoopFree(g) == retrying[g] = {}

\* proxy_downlink_lora_packet: the border heard the uplink itself.
ProxyDownlink(e) ==
  /\ e \in published \ answered
  /\ IsUplink(e) /\ ~ HasMeshContext(e)
  /\ CommandLoopFree(e.at)
  /\ answered' = answered \cup {e}
  /\ radioed' = radioed \cup {Radio(e.at, e.packet, 0, e.packet.body)}
  /\ UNCHANGED <<contexts, dedup, commanding, retrying, issued, air, world, published,
                 unmapped>>

DownlinkFor(e) == NewPacket("Downlink", e.packet.relay, e.packet.id, e.packet.body)

(***************************************************************************)
(* relay_downlink_lora_packet: the items of the frame (one per receive     *)
(* window) are tried until one is sent.  An item that cannot be encoded    *)
(* ends the attempt; after one whose transmission is reported as failed,   *)
(* though it may have reached some of the neighbours, the next is tried.   *)
(***************************************************************************)
RelayDownlink(e) ==
  /\ e \in published \ answered
  /\ IsUplink(e) /\ HasMeshContext(e)
  /\ CommandLoopFree(e.at)
  /\ answered' = answered \cup {e}
  /\ \/ UNCHANGED <<inbox, meshChannel, retrying>>
     \/ Transmit(e.at, inbox, DownlinkFor(e)) /\ UNCHANGED retrying
     \/ /\ Lossy
        /\ Transmit(e.at, inbox, DownlinkFor(e))
        /\ retrying' = [retrying EXCEPT ![e.at] = {e}]
  /\ UNCHANGED <<contexts, dedup, commanding, issued, world, output>>

\* The item for the second receive window.
RetryDownlink(g) ==
  /\ \E e \in retrying[g] :
       \/ UNCHANGED <<inbox, meshChannel>>
       \/ Transmit(g, inbox, DownlinkFor(e))
  /\ retrying' = [retrying EXCEPT ![g] = {}]
  /\ UNCHANGED <<contexts, dedup, commanding, answered, issued, world, output>>

\* send_mesh_command: the border stamps the command with its clock.
SendMeshCommand(g, r, c) ==
  /\ g \in Borders /\ r \in Relays
  /\ CommandLoopFree(g)
  /\ \A i \in issued : i.body # c
  /\ issued' = issued \cup {[by |-> g, relay |-> r, ts |-> now, body |-> c]}
  /\ Transmit(g, inbox, NewPacket("Command", r, now, c))
  /\ UNCHANGED <<contexts, dedup, commanding, retrying, answered, world,
                 output>>

\* report_heartbeat and report_events, each in a task of its own.
SendEvents(g, e) ==
  /\ g \in Relays
  /\ e \in ReportedBy[g]
  /\ <<g, e>> \notin reported
  /\ reported' = reported \cup {<<g, e>>}
  /\ Transmit(g, inbox, NewPacket("Event", g, now, e))
  /\ UNCHANGED <<contexts, dedup, commanding, serving, now, boot, heard,
                 output>>

-----------------------------------------------------------------------------
\* One clock stands for those of all gateways, and it never goes back.
Tick ==
  /\ now < MaxTime
  /\ now' = now + 1
  /\ UNCHANGED <<contexts, dedup, commanding, serving, air, boot, heard,
                 reported, output>>

\* The process of a gateway restarts: its statics are initialised again.
Restart(g) ==
  /\ boot[g] < MaxRestarts[g]
  /\ boot' = [boot EXCEPT ![g] = @ + 1]
  /\ uplinkId' = [uplinkId EXCEPT ![g] = 0]
  /\ uplinkContext' = [uplinkContext EXCEPT ![g] = [id \in 0 .. MaxUplinkId |-> NoContext]]
  /\ payloadCache' = [payloadCache EXCEPT ![g] = <<>>]
  /\ lastTimestamp' = [lastTimestamp EXCEPT ![g] = 0]
  /\ meshChannel' = [meshChannel EXCEPT ![g] = 0]
  /\ inbox' = [inbox EXCEPT ![g] = <<>>]
  /\ executing' = [executing EXCEPT ![g] = Idle]
  /\ retrying' = [retrying EXCEPT ![g] = {}]
  /\ stored' = [stored EXCEPT ![g] = <<>>]
  /\ seen' = [seen EXCEPT ![g] = <<>>]
  /\ UNCHANGED <<executed, answered, issued, now, heard, reported, output>>

Next ==
  \/ \E g \in Gateways, u \in Uplinks : ProxyUplinkLora(g, u) \/ RelayUplinkLora(g, u)
  \/ \E g \in Gateways : HandleMesh(g) \/ FinishCommands(g)
  \/ \E e \in published : ProxyDownlink(e) \/ RelayDownlink(e)
  \/ \E g \in Borders : RetryDownlink(g)
  \/ \E g \in Borders, r \in Relays, c \in Commands : SendMeshCommand(g, r, c)
  \/ \E g \in Relays, e \in EventSets \cup Heartbeats : SendEvents(g, e)
  \/ Tick
  \/ \E g \in Gateways : Restart(g)

Spec == Init /\ [][Next]_vars

\* The mesh event loop keeps running, and commands end.
FairSpec ==
  Spec /\ \A g \in Gateways : WF_vars(HandleMesh(g)) /\ WF_vars(FinishCommands(g))

-----------------------------------------------------------------------------
(***************************************************************************)
(* The types of the variables.                                             *)
(***************************************************************************)
Publications == [at : Gateways, boot : Nat, pos : Nat, packet : Packets]

TypeOK ==
  /\ uplinkId \in [Gateways -> 0 .. MaxUplinkId]
  /\ uplinkContext \in [Gateways -> [0 .. MaxUplinkId -> Uplinks \cup {NoContext}]]
  /\ payloadCache \in [Gateways -> Seq(CacheKeys)]
  /\ lastTimestamp \in [Gateways -> Nat]
  /\ meshChannel \in [Gateways -> 0 .. NumFrequencies - 1]
  /\ inbox \in [Gateways -> Seq(Frames)]
  /\ executing \in [Gateways -> Commands \cup {Idle}]
  /\ retrying \in [Gateways -> SUBSET published]
  /\ now \in Nat \ {0}
  /\ boot \in [Gateways -> Nat]
  /\ heard \subseteq Gateways \X Uplinks
  /\ stored \in [Gateways -> Seq(Uplinks)]
  /\ seen \in [Gateways -> Seq(CacheKeys)]
  /\ published \subseteq Publications /\ unmapped \subseteq Publications
  /\ answered \subseteq published
  /\ radioed \subseteq [at : Gateways, boot : Nat, pos : Nat, packet : Packets,
                       ctx : Uplinks, recent : BOOLEAN]
  /\ issued \subseteq [by : Borders, relay : Relays, ts : Nat, body : Commands]
  /\ executed \subseteq [at : Relays, boot : Nat, pos : Nat, ts : Nat, body : Commands]
  /\ reported \subseteq Relays \X (EventSets \cup Heartbeats)

-----------------------------------------------------------------------------
(***************************************************************************)
(* Safety.                                                                 *)
(***************************************************************************)
InFlight == {f.packet : f \in UNION {{inbox[g][i] : i \in DOMAIN inbox[g]} : g \in Gateways}}

(***************************************************************************)
(* No packet on the air has made more hops than max_hop_count (the sender  *)
(* makes the first one whatever the maximum is), or than the header of     *)
(* three bits can say: the check comes after the increment and the MIC     *)
(* (mesh.rs:390-405).                                                      *)
(***************************************************************************)
HopBound ==
  \A p \in InFlight : p.hop \in 1 .. 8 /\ (p.hop > 1 => p.hop <= MaxHopCount)

(***************************************************************************)
(* A frame on the air verifies at the gateways of its network, however     *)
(* often it was modified and signed again on its way (mesh.rs:389-401),    *)
(* and events and commands are never on the air in clear.                  *)
(***************************************************************************)
AirVerifies ==
  \A g \in Gateways : \A i \in DOMAIN inbox[g] :
    LET f == inbox[g][i]
    IN  /\ ValidMic(f, f.mic.key)
        /\ f.packet.enc = IF IsEncrypted(f.packet.type) THEN f.mic.key ELSE Clear

(***************************************************************************)
(* The relay path of a heartbeat tells the way it took: as many relays as  *)
(* re-transmissions, each in reach of the one before it, and never the     *)
(* relay that sent the heartbeat (mesh.rs:351-369).                        *)
(***************************************************************************)
PathTellsTheWay ==
  \A p \in InFlight \cup {e.packet : e \in published} :
    LET way == <<p.relay>> \o p.path
    IN  IF p.body \in Heartbeats
        THEN /\ Len(p.path) = p.hop - 1
             /\ \A i \in 1 .. Len(p.path) :
                  way[i + 1] \in Neighbours[way[i]] /\ way[i + 1] # p.relay
        ELSE p.path = <<>>

\* Nothing was restarted, and no cache has lost a key.
NothingForgotten == \A g \in Gateways : boot[g] = 0 /\ Len(seen[g]) <= CacheSize

(***************************************************************************)
(* As long as no cache forgets, a heartbeat passes a relay at most once:   *)
(* the cache, not only the hop count, keeps packets from circling.         *)
(***************************************************************************)
PathHasNoLoop ==
  NothingForgotten =>
    \A p \in InFlight \cup {e.packet : e \in published} :
      \A i, j \in DOMAIN p.path : p.path[i] = p.path[j] => i = j

(***************************************************************************)
(* What a border gateway publishes was sent by a relay of its own network: *)
(* an uplink was heard by the relay it names, an event was reported by it  *)
(* or responds to a command that it executed.  Holds across restarts.      *)
(***************************************************************************)
PublishedWasSent ==
  \A e \in published :
    LET p == e.packet
    IN  /\ Key[p.relay] = Key[e.at]
        /\ p.type = "Uplink" => <<p.relay, p.body>> \in heard
        /\ p.type = "Event" =>
             \/ <<p.relay, p.body>> \in reported
             \/ \E x \in executed : x.at = p.relay /\ x.body = p.body /\ x.ts <= p.id

(***************************************************************************)
(* A downlink is sent to the device by the gateway that heard the uplink   *)
(* it answers, whichever gateways carried it in between.                   *)
(***************************************************************************)
DownlinkGoesBack ==
  \A d \in radioed : <<d.at, d.packet.body>> \in heard

(***************************************************************************)
(* A downlink carries the concentratord context of the very uplink that it *)
(* answers, unless so many uplinks came after that its ID was used again,  *)
(* or the relay restarted in between (mesh.rs:643-667).                    *)
(***************************************************************************)
DownlinkUsesItsContext ==
  \A d \in radioed : d.recent => d.ctx = d.packet.body

(***************************************************************************)
(* A gateway remembers exactly the last CacheSize packets that it accepted *)
(* since it started (cache.rs:16-27).                                      *)
(***************************************************************************)
RemembersTheLast == \A g \in Gateways : payloadCache[g] = LastOf(seen[g], CacheSize)

(***************************************************************************)
(* A packet is published, and a downlink given to the device, once: twice  *)
(* only when the cache has accepted CacheSize other packets in between     *)
(* (mesh.rs:53-61).  A downlink that was sent for both receive windows     *)
(* because the first was reported as failed is one packet.                 *)
(***************************************************************************)
HandledOnce ==
  \A S \in {published, radioed} : \A d, e \in S :
    (/\ d.at = e.at /\ d.boot = e.boot /\ 0 < d.pos /\ d.pos < e.pos
     /\ CacheKey(d.packet) = CacheKey(e.packet)) => e.pos - d.pos > CacheSize

(***************************************************************************)
(* A relay executes only commands that a border gateway of its network     *)
(* sent to it, and between two restarts each of them once and in the order *)
(* of their timestamps, whatever the mesh re-orders (commands.rs:38-49).   *)
(***************************************************************************)
CommandsInOrder ==
  /\ \A x \in executed : \E i \in issued :
       i.relay = x.at /\ i.ts = x.ts /\ i.body = x.body /\ Key[i.by] = Key[x.at]
  /\ \A x, y \in executed :
       x.at = y.at /\ x.boot = y.boot /\ x.pos < y.pos => x.ts < y.ts

(***************************************************************************)
(* The same across restarts: a relay never executes a command twice.       *)
(* execute_commands means to "validate that the command timestamp did      *)
(* increment, compared to previous command payload" (commands.rs:38), but  *)
(* the last timestamp and the cache are lost by a restart.                 *)
(***************************************************************************)
CommandsOnceEver ==
  \A x, y \in executed : x.at = y.at /\ x.body = y.body => x = y

(***************************************************************************)
(* An uplink that a border gateway refuses as already seen (mesh.rs:53) is *)
(* one that it published among the last CacheSize packets it accepted, or  *)
(* that its mappings made it drop then (mesh.rs:226-227), or shares its ID *)
(* with one of these: only since its relay has restarted, or has given out *)
(* a whole round of IDs (mesh.rs:643-652).  Whatever is lost, repeated or  *)
(* re-ordered, the cache costs no other uplink: none where all gateways    *)
(* have the same mappings and no ID is in use twice.                       *)
(***************************************************************************)
\* What the border that accepted it still has in its cache.
Remembered(e) == e.boot = boot[e.at] /\ Len(seen[e.at]) - e.pos < CacheSize

ReusesId(relay, u, v) ==
  \/ boot[relay] > 0
  \/ \E j, k \in DOMAIN stored[relay] :
       /\ stored[relay][j] = u /\ stored[relay][k] = v
       /\ j - k > MaxUplinkId \/ k - j > MaxUplinkId

RefusedUplinkWasHandled ==
  [][\A g \in Borders :
       DropSeen(g) /\ Packet(g).type = "Uplink" =>
         \E e \in published \cup unmapped :
           /\ e.at = g /\ CacheKey(e.packet) = CacheKey(Packet(g)) /\ Remembered(e)
           /\ e \in published \/ ~ Unwraps(g, e.packet)
           /\ \/ e.packet.body = Packet(g).body
              \/ ReusesId(Packet(g).relay, e.packet.body, Packet(g).body)]_vars

(***************************************************************************)
(* A border gateway that refuses an event as already seen has published    *)
(* it ("it means we have already seen the packet", mesh.rs:53).            *)
(***************************************************************************)
WasPublished(g, p) ==
  \E e \in published : e.at = g /\ e.packet.relay = p.relay /\ e.packet.body = p.body

RefusedEventWasPublished ==
  [][\A g \in Borders :
       DropSeen(g) /\ Packet(g).type = "Event" => WasPublished(g, Packet(g))]_vars

(***************************************************************************)
(* The mesh implements MeshService, whatever it loses, repeats, re-orders  *)
(* or forgets by restarts: in particular a device gets a downlink only     *)
(* when the server has answered its uplink, from where it was heard.       *)
(***************************************************************************)
Service ==
  INSTANCE MeshService WITH
    Reports <- EventSets \cup Heartbeats,
    issued <- {<<i.by, i.relay, i.body>> : i \in issued},
    executed <- {<<x.at, x.body>> : x \in executed},
    published <- {<<e.at, e.packet.relay, e.packet.body>> : e \in published},
    answered <- {<<e.at, e.packet.relay, e.packet.body>> : e \in answered},
    sent <- {<<d.at, d.packet.body>> : d \in radioed}

ServiceSpec == Service!Spec

-----------------------------------------------------------------------------
(***************************************************************************)
(* Liveness.                                                               *)
(***************************************************************************)
\* The flood that a packet starts ends: the mesh does not talk to itself.
FloodEnds == <>[](\A g \in Gateways : inbox[g] = <<>>)

(***************************************************************************)
(* Without loss, an uplink that a relay heard and could wrap is published  *)
(* by some border gateway, if its mappings let them unwrap it: uplinks of  *)
(* which that is not true hold up no other one.                            *)
(***************************************************************************)
UplinkArrives ==
  \A g \in Relays, u \in Uplinks :
    (<<g, u>> \in Wrappable /\ \A b \in Borders : <<b, g, u>> \in Unwrappable) =>
      (<<g, u>> \in heard ~> \E e \in published : e.packet.relay = g /\ e.packet.body = u)

(***************************************************************************)
(* Without loss, commands overtake each other nowhere in the mesh: every   *)
(* one is executed, unless another was sent to the relay in its second.    *)
(***************************************************************************)
CommandArrives ==
  \A c \in Commands :
    (\E i \in issued : i.body = c)
      ~> \/ \E x \in executed : x.body = c
         \/ \E i, j \in issued :
              i # j /\ i.body = c /\ j.relay = i.relay /\ j.ts = i.ts
=============================================================================
