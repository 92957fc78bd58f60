----------------------------- MODULE MeshProofs -----------------------------
(***************************************************************************)
(* Invariants of the mesh, for every network of gateways, every maximum    *)
(* hop count, cache size and range of uplink IDs.                          *)
(***************************************************************************)
EXTENDS Mesh, CacheLemmas

(***************************************************************************)
(* Packets and frames.  P[k] stands for the clear packets that may travel  *)
(* under the key k, FramesOf(P) for what they look like on the air.        *)
(***************************************************************************)
HopOK(p) == p.hop \in 1 .. 8 /\ (p.hop > 1 => p.hop <= MaxHopCount)

ClearPackets == {p \in Packets : p.enc = Clear /\ HopOK(p)}

FramesOf(P) == UNION {{Seal(p, k) : p \in P[k]} : k \in Keys}

LEMMA SealShape ==
  ASSUME NEW p \in Packets, NEW k \in Keys
  PROVE  /\ Encrypt(p, k) \in Packets
         /\ Seal(p, k) = [packet |-> Encrypt(p, k),
                          mic |-> [key |-> k, over |-> Encrypt(p, k)]]
         /\ Seal(p, k) \in Frames
<1>1. Encrypt(p, k) \in Packets
  BY DEF Encrypt, Packets
<1> QED BY <1>1 DEF Seal, SetMic, Frames

\* What a gateway signs is a frame of its network.
LEMMA SealIn ==
  ASSUME NEW P, NEW k \in Keys, NEW p \in P[k]
  PROVE  Seal(p, k) \in FramesOf(P)
  BY DEF FramesOf

LEMMA FramesTyped ==
  ASSUME NEW P \in [Keys -> SUBSET ClearPackets]
  PROVE  FramesOf(P) \subseteq Frames
<1> SUFFICES ASSUME NEW k \in Keys, NEW p \in P[k] PROVE Seal(p, k) \in Frames
  BY DEF FramesOf
<1> QED BY SealShape DEF ClearPackets

LEMMA FramesGrow ==
  ASSUME NEW P, NEW Q, \A k \in Keys : P[k] \subseteq Q[k]
  PROVE  FramesOf(P) \subseteq FramesOf(Q)
  BY DEF FramesOf

\* Encrypting and decrypting leave the fields alone that identify a packet.
LEMMA Fields ==
  ASSUME NEW p \in Packets, NEW k \in Keys
  PROVE  /\ Decrypt(Encrypt(p, k), k) = [p EXCEPT !.enc = IF IsEncrypted(p.type) THEN Clear ELSE @]
         /\ CacheKey(Encrypt(p, k)) = CacheKey(p)
         /\ Encrypt(p, k).type = p.type /\ Encrypt(p, k).hop = p.hop
         /\ Encrypt(p, k).enc = IF IsEncrypted(p.type) THEN k ELSE p.enc
         /\ CacheKey(p) \in CacheKeys
  BY DEF Encrypt, Decrypt, Packets, CacheKey, CacheKeys

(***************************************************************************)
(* A frame that verifies opens to the packet that was sealed, and the      *)
(* cache key can be read from it before it is decrypted.                   *)
(***************************************************************************)
LEMMA Opens ==
  ASSUME NEW P \in [Keys -> SUBSET ClearPackets], NEW f \in FramesOf(P),
         NEW k \in Keys, ValidMic(f, k)
  PROVE  /\ Decrypt(f.packet, k) \in P[k]
         /\ CacheKey(Decrypt(f.packet, k)) = CacheKey(f.packet)
         /\ CacheKey(f.packet) \in CacheKeys
<1>0. PICK j \in Keys : \E p \in P[j] : f = Seal(p, j)
  BY DEF FramesOf
<1>1. PICK p \in P[j] : f = Seal(p, j)
  BY <1>0
<1>2. p \in Packets /\ p.enc = Clear
  BY DEF ClearPackets
<1>3. j = k /\ f.packet = Encrypt(p, k)
  BY <1>1, <1>2, SealShape DEF ValidMic
<1>4. Decrypt(f.packet, k) = p
  BY <1>2, <1>3, Fields DEF Packets
<1> QED BY <1>2, <1>3, <1>4, Fields

-----------------------------------------------------------------------------
(***************************************************************************)
(* Inboxes.                                                                *)
(***************************************************************************)
LEMMA DeliverTyped ==
  ASSUME NEW S, NEW box \in [Gateways -> Seq(S)], NEW f \in S, NEW receivers
  PROVE  Deliver(box, f, receivers) \in [Gateways -> Seq(S)]
  BY AppendProperties DEF Deliver

LEMMA TakenTyped ==
  ASSUME NEW S, inbox \in [Gateways -> Seq(S)], NEW g \in Gateways, Arrived(g)
  PROVE  Frame(g) \in S /\ Taken(g) \in [Gateways -> Seq(S)]
  BY HeadTailProperties DEF Arrived, Frame, Taken

LEMMA NextChannelTyped ==
  ASSUME NEW c \in 0 .. NumFrequencies - 1
  PROVE  NextChannel(c) \in 0 .. NumFrequencies - 1
  BY NumbersType DEF NextChannel

LEMMA NextUplinkIdTyped ==
  ASSUME NEW id \in 0 .. MaxUplinkId
  PROVE  NextUplinkId(id) \in 0 .. MaxUplinkId
  BY NumbersType DEF NextUplinkId

\* What Transmit does to the types of the inboxes and the channel.
LEMMA TransmitTyped ==
  ASSUME NEW S, NEW g \in Gateways, NEW box \in [Gateways -> Seq(S)], NEW p,
         Seal(p, Key[g]) \in S, Transmit(g, box, p),
         meshChannel \in [Gateways -> 0 .. NumFrequencies - 1]
  PROVE  /\ inbox' \in [Gateways -> Seq(S)]
         /\ meshChannel' \in [Gateways -> 0 .. NumFrequencies - 1]
<1>1. PICK receivers : inbox' = Deliver(box, Seal(p, Key[g]), receivers)
  BY DEF Transmit
<1>2. inbox' \in [Gateways -> Seq(S)]
  BY <1>1, DeliverTyped
<1>3. NextChannel(meshChannel[g]) \in 0 .. NumFrequencies - 1
  BY NextChannelTyped
<1> QED BY <1>2, <1>3 DEF Transmit

LEMMA InboxGrows ==
  ASSUME NEW S, NEW T, S \subseteq T, NEW box \in [Gateways -> Seq(S)]
  PROVE  box \in [Gateways -> Seq(T)]
<1>1. Seq(S) \subseteq Seq(T)
  BY SeqDef
<1> QED BY <1>1

-----------------------------------------------------------------------------
(***************************************************************************)
(* The first invariant: types, and where everything on the air comes from. *)
(***************************************************************************)
\* What a packet that travels under the key k tells happened.
Genuine(p, k) ==
  /\ p.type \in {"Uplink", "Downlink"} =>
       /\ Key[p.relay] = k /\ p.id \in 0 .. MaxUplinkId /\ p.body \in Uplinks
       /\ <<p.relay, p.body>> \in heard
  /\ p.type = "Event" =>
       /\ Key[p.relay] = k
       /\ \/ <<p.relay, p.body>> \in reported
          \/ \E x \in executed : x.at = p.relay /\ x.body = p.body /\ x.ts <= p.id
  /\ p.type = "Command" =>
       \E i \in issued : i.relay = p.relay /\ i.ts = p.id /\ i.body = p.body /\ Key[i.by] = k

Good == [k \in Keys |-> {p \in ClearPackets : Genuine(p, k)}]

AirIsGood == inbox \in [Gateways -> Seq(FramesOf(Good))]

PublishedIsGood ==
  \A e \in published :
    /\ e \in Publications
    /\ e.packet \in Good[Key[e.at]]
    /\ e.packet.type \in {"Uplink", "Event"}

Types ==
  /\ uplinkId \in [Gateways -> 0 .. MaxUplinkId]
  /\ uplinkContext \in [Gateways -> [0 .. MaxUplinkId -> Uplinks \cup {NoContext}]]
  /\ payloadCache \in [Gateways -> Seq(CacheKeys)]
  /\ lastTimestamp \in [Gateways -> Nat]
  /\ meshChannel \in [Gateways -> 0 .. NumFrequencies - 1]
  /\ executing \in [Gateways -> Commands \cup {Idle}]
  /\ retrying \in [Gateways -> SUBSET published]
  /\ now \in Nat \ {0}
  /\ boot \in [Gateways -> Nat]
  /\ heard \subseteq Gateways \X Uplinks
  /\ stored \in [Gateways -> Seq(Uplinks)]
  /\ seen \in [Gateways -> Seq(CacheKeys)]
  /\ answered \subseteq published
  /\ issued \subseteq [by : Borders, relay : Relays, ts : Nat, body : Commands]
  /\ executed \subseteq [at : Relays, boot : Nat, pos : Nat, ts : Nat, body : Commands]
  /\ reported \subseteq Relays \X (EventSets \cup Heartbeats)

RadioedType ==
  radioed \subseteq [at : Gateways, boot : Nat, pos : Nat, packet : Packets,
                     ctx : Uplinks, recent : BOOLEAN]

\* Commands come from the past, and what a relay executes is one of them.
CommandsPast ==
  /\ \A i \in issued : i.ts \in 1 .. now
  /\ \A x \in executed : x.ts \in 1 .. now
  /\ \A g \in Gateways : executing[g] # Idle =>
       \E x \in executed : x.at = g /\ x.body = executing[g]

\* A gateway retries its own answers to uplinks.
RetriesTyped ==
  \A g \in Gateways : \A e \in retrying[g] : e \in answered /\ IsUplink(e) /\ e.at = g

AirInv == Types /\ AirIsGood /\ PublishedIsGood /\ CommandsPast /\ RetriesTyped

LEMMA GoodTyped == Good \in [Keys -> SUBSET ClearPackets]
  BY DEF Good

(***************************************************************************)
(* Which actions change what.                                              *)
(***************************************************************************)
LEMMA HistoriesGrow ==
  ASSUME [Next]_vars
  PROVE  /\ heard \subseteq heard' /\ reported \subseteq reported'
         /\ executed \subseteq executed' /\ issued \subseteq issued'
         /\ published \subseteq published' /\ answered \subseteq answered'
         /\ unmapped \subseteq unmapped'
  BY DEF Next, vars, contexts, dedup, commanding, serving, air, world, output,
         ProxyUplinkLora, Hear, RelayUplinkLora, HandleMesh, DropInvalidMic, DropSeen,
         ProxyMesh, ProxyMeshFails, BorderIgnores, DropOwn, UnwrapDownlink, ExecuteCommands,
         RejectCommands, RelayMesh, FinishCommands, ProxyDownlink, RelayDownlink,
         RetryDownlink, SendMeshCommand, SendEvents, Tick, Restart

LEMMA GoodGrows ==
  ASSUME [Next]_vars
  PROVE  /\ \A k \in Keys : Good[k] \subseteq (Good')[k]
         /\ FramesOf(Good) \subseteq FramesOf(Good')
<1>1. ASSUME NEW k \in Keys PROVE Good[k] \subseteq (Good')[k]
  BY HistoriesGrow DEF Good, Genuine
<1> QED BY <1>1, FramesGrow

LEMMA NewPacketTyped ==
  ASSUME NEW type \in PayloadType, NEW g \in Gateways, NEW id \in Nat,
         NEW body \in Bodies
  PROVE  /\ NewPacket(type, g, id, body) \in ClearPackets
         /\ NewPacket(type, g, id, body).type = type
         /\ NewPacket(type, g, id, body).relay = g
         /\ NewPacket(type, g, id, body).id = id
         /\ NewPacket(type, g, id, body).body = body
<1>1. <<>> \in Seq(Gateways) /\ 1 \in 1 .. 8 /\ 1 \in Nat /\ ~ (1 > 1)
  BY EmptySeq
<1> QED BY <1>1 DEF NewPacket, ClearPackets, Packets, HopOK

\* The frame at the head of an inbox, when it verifies and is not refused.
LEMMA AcceptFacts ==
  ASSUME AirInv, NEW g \in Gateways, Accept(g)
  PROVE  /\ Packet(g) \in Good[Key[g]]
         /\ CacheKey(Packet(g)) = CacheKey(Frame(g).packet)
         /\ CacheKey(Packet(g)) \in CacheKeys
         /\ Taken(g) \in [Gateways -> Seq(FramesOf(Good))]
         /\ ~ CacheHas(payloadCache[g], CacheKey(Packet(g)))
         /\ payloadCache' = [payloadCache EXCEPT ![g] =
                               CacheAdd(@, CacheKey(Packet(g)), CacheSize)]
         /\ seen' = [seen EXCEPT ![g] = Append(@, CacheKey(Packet(g)))]
<1>1. /\ Arrived(g) /\ ValidMic(Frame(g), Key[g]) /\ Key[g] \in Keys
      /\ ~ CacheHas(payloadCache[g], CacheKey(Frame(g).packet))
      /\ payloadCache' = [payloadCache EXCEPT ![g] =
                            CacheAdd(@, CacheKey(Frame(g).packet), CacheSize)]
      /\ seen' = [seen EXCEPT ![g] = Append(@, CacheKey(Frame(g).packet))]
  BY KeyType DEF Accept, Verified
<1>2. Frame(g) \in FramesOf(Good) /\ Taken(g) \in [Gateways -> Seq(FramesOf(Good))]
  BY <1>1, TakenTyped DEF AirInv, AirIsGood
<1>3. /\ Packet(g) \in Good[Key[g]]
      /\ CacheKey(Packet(g)) = CacheKey(Frame(g).packet)
      /\ CacheKey(Frame(g).packet) \in CacheKeys
  BY <1>1, <1>2, GoodTyped, Opens DEF Packet
<1> QED BY <1>1, <1>2, <1>3

\* The fields of the accepted packet.
LEMMA GoodFields ==
  ASSUME NEW k \in Keys, NEW p \in Good[k]
  PROVE  /\ p \in Packets /\ p.enc = Clear /\ HopOK(p) /\ Genuine(p, k)
         /\ p.type \in PayloadType /\ p.hop \in Nat /\ p.relay \in Gateways
         /\ p.id \in Nat /\ p.body \in Bodies /\ p.path \in Seq(Gateways)
  BY DEF Good, ClearPackets, Packets

(***************************************************************************)
(* The packets that a gateway hands to Transmit are good.                  *)
(***************************************************************************)
LEMMA RelayedGood ==
  ASSUME NEW k \in Keys, NEW p \in Good[k], NEW g \in Gateways,
         HeaderFits(Relayed(p, g).hop), ~ HopExceeded(Relayed(p, g).hop)
  PROVE  Relayed(p, g) \in Good[k]
<1> DEFINE q == Relayed(p, g)
<1> DEFINE path == IF p.body \in Heartbeats THEN Append(p.path, g) ELSE p.path
<1>1. path \in Seq(Gateways)
  BY GoodFields, AppendProperties
<1> HIDE DEF path
<1>2. q = [p EXCEPT !.hop = p.hop + 1, !.path = path]
  BY DEF Relayed, path
<1>3. /\ q \in Packets /\ q.enc = Clear /\ q.type = p.type /\ q.relay = p.relay
      /\ q.id = p.id /\ q.body = p.body /\ q.hop = p.hop + 1 /\ p.hop + 1 \in Nat
  <2>1. p \in Packets /\ p.enc = Clear /\ p.hop \in Nat
    BY GoodFields
  <2>2. p.hop + 1 \in Nat
    BY <2>1
  <2> HIDE DEF q
  <2>3. q \in Packets
    BY <1>1, <1>2, <2>1, <2>2 DEF Packets
  <2>4. /\ q.enc = p.enc /\ q.type = p.type /\ q.relay = p.relay
        /\ q.id = p.id /\ q.body = p.body /\ q.hop = p.hop + 1
    BY <1>2, <2>1 DEF Packets
  <2> QED BY <2>1, <2>2, <2>3, <2>4
<1> HIDE DEF q
<1>4. q.hop \in 1 .. 8 /\ q.hop <= MaxHopCount
  BY <1>3, NumbersType DEF HeaderFits, HopExceeded, q
<1>5. HopOK(q)
  BY <1>4 DEF HopOK
<1>6. Genuine(q, k)
  BY <1>3, GoodFields DEF Genuine
<1> QED BY <1>3, <1>5, <1>6 DEF Good, ClearPackets, q

LEMMA DownlinkGood ==
  ASSUME AirInv, NEW e \in published, IsUplink(e)
  PROVE  e.at \in Gateways /\ DownlinkFor(e) \in Good[Key[e.at]]
<1>1. /\ e.at \in Gateways /\ Key[e.at] \in Keys
      /\ e.packet \in Good[Key[e.at]] /\ e.packet.type = "Uplink"
  BY KeyType DEF AirInv, PublishedIsGood, Publications, IsUplink
<1>2. /\ Genuine(e.packet, Key[e.at]) /\ e.packet.relay \in Gateways
      /\ e.packet.id \in Nat /\ e.packet.body \in Bodies
  BY <1>1, GoodFields
<1>3. /\ DownlinkFor(e) \in ClearPackets
      /\ DownlinkFor(e).type = "Downlink" /\ DownlinkFor(e).relay = e.packet.relay
      /\ DownlinkFor(e).id = e.packet.id /\ DownlinkFor(e).body = e.packet.body
  BY <1>2, NewPacketTyped DEF DownlinkFor, PayloadType
<1> QED BY <1>1, <1>2, <1>3 DEF Good, Genuine

\* The inboxes after a step that takes a frame, sends a packet, or both.
Channels == [Gateways -> 0 .. NumFrequencies - 1]

LEMMA AirAfterTransmit ==
  ASSUME AirInv, [Next]_vars, NEW g \in Gateways,
         NEW box \in [Gateways -> Seq(FramesOf(Good))],
         NEW p \in (Good')[Key[g]], Transmit(g, box, p)
  PROVE  AirIsGood' /\ meshChannel' \in Channels
<1>1. box \in [Gateways -> Seq(FramesOf(Good'))]
  BY GoodGrows, InboxGrows
<1>2. Seal(p, Key[g]) \in FramesOf(Good')
  BY KeyType, SealIn
<1>3. meshChannel \in [Gateways -> 0 .. NumFrequencies - 1]
  BY DEF AirInv, Types
<1> QED BY <1>1, <1>2, <1>3, TransmitTyped DEF AirIsGood, Channels

LEMMA AirWithoutTransmit ==
  ASSUME AirInv, [Next]_vars,
         inbox' \in [Gateways -> Seq(FramesOf(Good))], UNCHANGED meshChannel
  PROVE  AirIsGood' /\ meshChannel' \in Channels
<1>1. inbox' \in [Gateways -> Seq(FramesOf(Good'))]
  BY GoodGrows, InboxGrows
<1> QED BY <1>1 DEF AirIsGood, AirInv, Types, Channels

(***************************************************************************)
(* Every frame on the air after a step is good.                            *)
(***************************************************************************)
LEMMA AirNext ==
  ASSUME AirInv, [Next]_vars
  PROVE  AirIsGood' /\ meshChannel' \in Channels
<1> DEFINE Safe == [Gateways -> Seq(FramesOf(Good))]
<1>a. inbox \in Safe /\ Types /\ CommandsPast /\ RetriesTyped
  BY DEF AirInv, AirIsGood
<1> HIDE DEF Safe
<1>b. ASSUME UNCHANGED air PROVE AirIsGood' /\ meshChannel' \in Channels
  BY <1>a, <1>b, AirWithoutTransmit DEF air, Safe
<1>c. ASSUME NEW g \in Gateways, Arrived(g), inbox' = Taken(g), UNCHANGED meshChannel
      PROVE  AirIsGood' /\ meshChannel' \in Channels
  <2>1. Taken(g) \in Safe
    BY <1>a, <1>c, TakenTyped DEF Safe
  <2> QED BY <1>c, <2>1, AirWithoutTransmit DEF Safe
<1>d. ASSUME NEW k \in Keys, NEW p \in Good[k] PROVE p \in (Good')[k]
  BY <1>d, GoodGrows
<1>1. CASE UNCHANGED vars
  BY <1>1, <1>b DEF vars
<1>2. ASSUME NEW g \in Gateways, NEW u \in Uplinks, ProxyUplinkLora(g, u)
      PROVE  AirIsGood' /\ meshChannel' \in Channels
  BY <1>2, <1>b DEF ProxyUplinkLora
<1>3. ASSUME NEW g \in Gateways, NEW u \in Uplinks, RelayUplinkLora(g, u)
      PROVE  AirIsGood' /\ meshChannel' \in Channels
  <2> DEFINE id == NextUplinkId(uplinkId[g])
  <2>1. id \in 0 .. MaxUplinkId /\ id \in Nat
    BY <1>a, NextUplinkIdTyped, NumbersType DEF Types
  <2> HIDE DEF id
  <2>2. <<g, u>> \in heard'
    BY <1>3 DEF RelayUplinkLora, Hear
  <2>3. NewPacket("Uplink", g, id, u) \in (Good')[Key[g]]
    BY <2>1, <2>2, KeyType, NewPacketTyped DEF Good, Genuine, PayloadType, Bodies
  <2>4. CASE Transmit(g, inbox, NewPacket("Uplink", g, id, u))
    BY <1>a, <2>3, <2>4, AirAfterTransmit DEF Safe
  <2> QED BY <1>3, <1>b, <2>4 DEF RelayUplinkLora, id, air
<1>4. ASSUME NEW g \in Gateways, HandleMesh(g)
      PROVE  AirIsGood' /\ meshChannel' \in Channels
  <2>1. Arrived(g)
    BY <1>4 DEF HandleMesh, DropInvalidMic, DropSeen, Verified, ProxyMesh, ProxyMeshFails,
                BorderIgnores, DropOwn, UnwrapDownlink, ExecuteCommands, RejectCommands, RelayMesh, Accept
  <2>2. CASE inbox' = Taken(g) /\ UNCHANGED meshChannel
    BY <1>c, <2>1, <2>2
  <2>3. CASE RelayMesh(g) /\ ~ (inbox' = Taken(g) /\ UNCHANGED meshChannel)
    <3> DEFINE p == Relayed(Packet(g), g)
    <3>1. Packet(g) \in Good[Key[g]] /\ Taken(g) \in Safe /\ Key[g] \in Keys
      BY <2>3, AcceptFacts, KeyType DEF RelayMesh, Safe
    <3>2. HeaderFits(p.hop) /\ ~ HopExceeded(p.hop) /\ Transmit(g, Taken(g), p)
      BY <2>3 DEF RelayMesh
    <3>3. p \in Good[Key[g]]
      BY <3>1, <3>2, RelayedGood
    <3> HIDE DEF p
    <3> QED BY <1>d, <3>1, <3>2, <3>3, AirAfterTransmit DEF Safe
  <2> QED BY <1>4, <2>2, <2>3
          DEF HandleMesh, DropInvalidMic, DropSeen, ProxyMesh, ProxyMeshFails,
              BorderIgnores, DropOwn, UnwrapDownlink, ExecuteCommands, RejectCommands, RelayMesh, air
<1>5. ASSUME NEW g \in Gateways, FinishCommands(g)
      PROVE  AirIsGood' /\ meshChannel' \in Channels
  <2> DEFINE p == NewPacket("Event", g, now, executing[g])
  <2>1. executing[g] \in Commands /\ now \in Nat
    BY <1>a, <1>5 DEF Types, FinishCommands
  <2>2. PICK x \in executed : x.at = g /\ x.body = executing[g] /\ x.ts \in 1 .. now
    BY <1>a, <1>5 DEF CommandsPast, FinishCommands
  <2>3. /\ p \in ClearPackets /\ p.type = "Event" /\ p.relay = g /\ p.id = now
        /\ p.body = executing[g]
    BY <2>1, NewPacketTyped DEF PayloadType, Bodies
  <2>4. x.ts <= now
    BY <2>1, <2>2
  <2> HIDE DEF p
  <2>5. p \in (Good')[Key[g]]
    BY <1>d, <2>2, <2>3, <2>4, KeyType DEF Good, Genuine
  <2>6. CASE Transmit(g, inbox, p)
    BY <1>a, <2>5, <2>6, AirAfterTransmit DEF Safe
  <2> QED BY <1>5, <1>b, <2>6 DEF FinishCommands, air, p
<1>6. ASSUME NEW e \in published, ProxyDownlink(e)
      PROVE  AirIsGood' /\ meshChannel' \in Channels
  BY <1>6, <1>b DEF ProxyDownlink
<1>7. ASSUME NEW e \in published, RelayDownlink(e)
      PROVE  AirIsGood' /\ meshChannel' \in Channels
  <2>1. e.at \in Gateways /\ DownlinkFor(e) \in (Good')[Key[e.at]]
    BY <1>7, <1>d, DownlinkGood, KeyType DEF RelayDownlink
  <2>2. CASE Transmit(e.at, inbox, DownlinkFor(e))
    BY <1>a, <2>1, <2>2, AirAfterTransmit DEF Safe
  <2> QED BY <1>7, <1>b, <2>2 DEF RelayDownlink, air
<1>8. ASSUME NEW g \in Borders, RetryDownlink(g)
      PROVE  AirIsGood' /\ meshChannel' \in Channels
  <2>1. g \in Gateways
    BY BordersAreGateways
  <2>2. PICK e \in retrying[g] : UNCHANGED air \/ Transmit(g, inbox, DownlinkFor(e))
    BY <1>8 DEF RetryDownlink, air
  <2>3. e \in published /\ IsUplink(e) /\ e.at = g
    BY <1>a, <2>1, <2>2 DEF RetriesTyped, Types
  <2>4. DownlinkFor(e) \in (Good')[Key[g]]
    BY <1>d, <2>1, <2>3, DownlinkGood, KeyType
  <2>5. CASE Transmit(g, inbox, DownlinkFor(e))
    BY <1>a, <2>1, <2>4, <2>5, AirAfterTransmit DEF Safe
  <2> QED BY <1>b, <2>2, <2>5
<1>9. ASSUME NEW g \in Borders, NEW r \in Relays, NEW c \in Commands,
             SendMeshCommand(g, r, c)
      PROVE  AirIsGood' /\ meshChannel' \in Channels
  <2> DEFINE p == NewPacket("Command", r, now, c)
  <2>1. g \in Gateways /\ r \in Gateways /\ now \in Nat
    BY <1>a, BordersAreGateways DEF Relays, Types
  <2>2. /\ p \in ClearPackets /\ p.type = "Command" /\ p.relay = r /\ p.id = now
        /\ p.body = c
    BY <2>1, NewPacketTyped DEF PayloadType, Bodies
  <2>3. [by |-> g, relay |-> r, ts |-> now, body |-> c] \in issued'
    BY <1>9 DEF SendMeshCommand
  <2>4. Transmit(g, inbox, p)
    BY <1>9 DEF SendMeshCommand
  <2> HIDE DEF p
  <2>5. p \in (Good')[Key[g]]
    BY <2>1, <2>2, <2>3, KeyType DEF Good, Genuine
  <2> QED BY <1>a, <2>1, <2>4, <2>5, AirAfterTransmit DEF Safe
<1>10. ASSUME NEW g \in Relays, NEW e \in EventSets \cup Heartbeats, SendEvents(g, e)
       PROVE  AirIsGood' /\ meshChannel' \in Channels
  <2> DEFINE p == NewPacket("Event", g, now, e)
  <2>1. g \in Gateways /\ now \in Nat /\ <<g, e>> \in reported'
    BY <1>a, <1>10 DEF Relays, Types, SendEvents
  <2>2. /\ p \in ClearPackets /\ p.type = "Event" /\ p.relay = g /\ p.id = now
        /\ p.body = e
    BY <2>1, NewPacketTyped DEF PayloadType, Bodies
  <2>3. Transmit(g, inbox, p)
    BY <1>10 DEF SendEvents
  <2> HIDE DEF p
  <2>4. p \in (Good')[Key[g]]
    BY <2>1, <2>2, KeyType DEF Good, Genuine
  <2> QED BY <1>a, <2>1, <2>3, <2>4, AirAfterTransmit DEF Safe
<1>11. CASE Tick
  BY <1>11, <1>b DEF Tick
<1>12. ASSUME NEW g \in Gateways, Restart(g)
       PROVE  AirIsGood' /\ meshChannel' \in Channels
  <2>1. inbox' = [inbox EXCEPT ![g] = <<>>] /\ meshChannel' = [meshChannel EXCEPT ![g] = 0]
    BY <1>12 DEF Restart
  <2>2. inbox' \in Safe
    BY <1>a, <2>1, EmptySeq DEF Safe
  <2>3. inbox' \in [Gateways -> Seq(FramesOf(Good'))]
    BY <2>2, GoodGrows, InboxGrows DEF Safe
  <2>4. meshChannel' \in Channels
    BY <1>a, <2>1, NumbersType DEF Types, Channels
  <2> QED BY <2>3, <2>4 DEF AirIsGood
<1> QED BY <1>1, <1>2, <1>3, <1>4, <1>5, <1>6, <1>7, <1>8, <1>9, <1>10, <1>11, <1>12
        DEF Next

(***************************************************************************)
(* What is published after a step is good.                                 *)
(***************************************************************************)
LEMMA PublicationGood ==
  ASSUME NEW g \in Gateways, NEW p, NEW pos \in Nat, Types, p \in Packets
  PROVE  /\ Publication(g, p, pos) \in Publications
         /\ Publication(g, p, pos).at = g /\ Publication(g, p, pos).packet = p
  BY DEF Publication, Publications, Types

LEMMA PublishedNext ==
  ASSUME AirInv, [Next]_vars
  PROVE  PublishedIsGood'
<1>a. Types /\ PublishedIsGood
  BY DEF AirInv
<1>b. ASSUME NEW p, NEW g \in Gateways, NEW pos \in Nat,
             published' = published \cup {Publication(g, p, pos)},
             p \in (Good')[Key[g]], p.type \in {"Uplink", "Event"}
      PROVE  PublishedIsGood'
  <2>1. p \in Packets
    BY <1>b, KeyType DEF Good, ClearPackets
  <2>2. \A k \in Keys : Good[k] \subseteq (Good')[k]
    BY GoodGrows
  <2>3. /\ Publication(g, p, pos) \in Publications
        /\ Publication(g, p, pos).at = g /\ Publication(g, p, pos).packet = p
    BY <1>a, <2>1, PublicationGood
  <2>4. \A e \in published : e \in Publications /\ Key[e.at] \in Keys
    BY <1>a, KeyType DEF PublishedIsGood, Publications
  <2> QED BY <1>a, <1>b, <2>2, <2>3, <2>4 DEF PublishedIsGood
<1>c. ASSUME UNCHANGED published PROVE PublishedIsGood'
  <2>1. \A k \in Keys : Good[k] \subseteq (Good')[k]
    BY GoodGrows
  <2>2. \A e \in published : Key[e.at] \in Keys
    BY <1>a, KeyType DEF PublishedIsGood, Publications
  <2> QED BY <1>a, <1>c, <2>1, <2>2 DEF PublishedIsGood
<1>1. ASSUME NEW g \in Gateways, NEW u \in Uplinks, ProxyUplinkLora(g, u)
      PROVE  PublishedIsGood'
  <2>1. /\ published' = published \cup {Publication(g, NewPacket("Uplink", g, 0, u), 0)}
        /\ <<g, u>> \in heard'
    BY <1>1 DEF ProxyUplinkLora, Hear
  <2>2. NewPacket("Uplink", g, 0, u) \in (Good')[Key[g]]
    BY <2>1, KeyType, NumbersType, NewPacketTyped DEF Good, Genuine, PayloadType, Bodies
  <2>3. NewPacket("Uplink", g, 0, u).type = "Uplink"
    BY DEF NewPacket
  <2> QED BY <1>b, <2>1, <2>2, <2>3
<1>2. ASSUME NEW g \in Gateways, ProxyMesh(g)
      PROVE  PublishedIsGood'
  <2>1. /\ Accept(g) /\ Packet(g).type \in {"Uplink", "Event"}
        /\ published' = published \cup {Publication(g, Packet(g), Position(g))}
    BY <1>2 DEF ProxyMesh
  <2>2. Packet(g) \in (Good')[Key[g]]
    BY <2>1, AcceptFacts, GoodGrows, KeyType
  <2>3. Position(g) \in Nat
    BY <1>a, LenProperties DEF Position, Types
  <2> QED BY <1>b, <2>1, <2>2, <2>3
<1> QED BY <1>c, <1>1, <1>2
        DEF Next, vars, contexts, dedup, commanding, serving, air, world, output,
            RelayUplinkLora, HandleMesh, DropInvalidMic, DropSeen, ProxyMeshFails,
            BorderIgnores, DropOwn, UnwrapDownlink, ExecuteCommands, RejectCommands, RelayMesh, FinishCommands,
            ProxyDownlink, RelayDownlink, RetryDownlink, SendMeshCommand, SendEvents,
            Tick, Restart

(***************************************************************************)
(* Retries are answers to what was published.                              *)
(***************************************************************************)
LEMMA RetriesNext ==
  ASSUME AirInv, [Next]_vars
  PROVE  RetriesTyped' /\ retrying' \in [Gateways -> SUBSET published']
<1>a. /\ RetriesTyped /\ retrying \in [Gateways -> SUBSET published]
      /\ published \subseteq published' /\ answered \subseteq answered'
  BY HistoriesGrow DEF AirInv, Types
<1>b. ASSUME UNCHANGED retrying PROVE RetriesTyped' /\ retrying' \in [Gateways -> SUBSET published']
  BY <1>a, <1>b DEF RetriesTyped, IsUplink
<1>c. ASSUME NEW g, retrying' = [retrying EXCEPT ![g] = {}]
      PROVE  RetriesTyped' /\ retrying' \in [Gateways -> SUBSET published']
  BY <1>a, <1>c DEF RetriesTyped, IsUplink
<1>1. ASSUME NEW e \in published, RelayDownlink(e)
      PROVE  RetriesTyped' /\ retrying' \in [Gateways -> SUBSET published']
  <2>1. CASE UNCHANGED retrying
    BY <1>b, <2>1
  <2>2. CASE retrying' = [retrying EXCEPT ![e.at] = {e}]
    <3>1. IsUplink(e) /\ e \in answered'
      BY <1>1 DEF RelayDownlink
    <3> QED BY <1>a, <2>2, <3>1 DEF RetriesTyped, IsUplink
  <2> QED BY <1>1, <2>1, <2>2 DEF RelayDownlink
<1>2. ASSUME NEW g \in Borders, RetryDownlink(g)
      PROVE  RetriesTyped' /\ retrying' \in [Gateways -> SUBSET published']
  BY <1>2, <1>c DEF RetryDownlink
<1>3. ASSUME NEW g \in Gateways, Restart(g)
      PROVE  RetriesTyped' /\ retrying' \in [Gateways -> SUBSET published']
  BY <1>3, <1>c DEF Restart
<1> QED BY <1>b, <1>1, <1>2, <1>3
        DEF Next, vars, contexts, dedup, commanding, serving, air, world, output,
            ProxyUplinkLora, RelayUplinkLora, HandleMesh, DropInvalidMic, DropSeen,
            ProxyMesh, ProxyMeshFails, BorderIgnores, DropOwn, UnwrapDownlink, ExecuteCommands,
            RejectCommands, RelayMesh, FinishCommands, ProxyDownlink, SendMeshCommand,
            SendEvents, Tick

\* What a relay has just accepted as a command for it is one that was sent to it.
LEMMA CommandFacts ==
  ASSUME AirInv, NEW g \in Gateways, Accept(g), Packet(g).type = "Command",
         ForThisRelay(g, Packet(g))
  PROVE  \E i \in issued : /\ i.relay = g /\ i.ts = Packet(g).id
                           /\ i.body = Packet(g).body /\ Key[i.by] = Key[g]
                           /\ i.ts \in 1 .. now /\ i.body \in Commands
<1>1. Packet(g) \in Good[Key[g]] /\ Key[g] \in Keys /\ Packet(g).relay = g
  BY AcceptFacts, KeyType DEF ForThisRelay
<1>2. Genuine(Packet(g), Key[g])
  BY <1>1, GoodFields
<1> QED BY <1>1, <1>2 DEF Genuine, AirInv, Types, CommandsPast

(***************************************************************************)
(* Commands still come from the past.                                      *)
(***************************************************************************)
LEMMA CommandsPastNext ==
  ASSUME AirInv, [Next]_vars
  PROVE  CommandsPast'
<1>a. CommandsPast /\ Types /\ now \in Nat
  BY DEF AirInv, Types
<1>b. ASSUME UNCHANGED <<issued, executed, executing, now>> PROVE CommandsPast'
  BY <1>a, <1>b DEF CommandsPast
<1>1. ASSUME NEW g \in Gateways, ExecuteCommands(g) PROVE CommandsPast'
  <2> DEFINE x == [at |-> g, boot |-> boot[g], pos |-> Position(g),
                   ts |-> Packet(g).id, body |-> Packet(g).body]
  <2>1. /\ executed' = executed \cup {x}
        /\ executing' = [executing EXCEPT ![g] = Packet(g).body]
        /\ UNCHANGED <<issued, now>>
    BY <1>1 DEF ExecuteCommands, serving, world
  <2>2. Packet(g).id \in 1 .. now
    BY <1>1, CommandFacts DEF ExecuteCommands
  <2>3. x.at = g /\ x.body = Packet(g).body /\ x.ts \in 1 .. now /\ x \in executed'
    BY <2>1, <2>2
  <2> HIDE DEF x
  <2>4. \A y \in executed' : y.ts \in 1 .. now'
    BY <1>a, <2>1, <2>3 DEF CommandsPast
  <2>5. ASSUME NEW h \in Gateways, executing'[h] # Idle
        PROVE  \E y \in executed' : y.at = h /\ y.body = executing'[h]
    <3>1. CASE h = g
      BY <1>a, <2>1, <2>3, <3>1 DEF Types
    <3>2. CASE h # g
      BY <1>a, <2>1, <2>5, <3>2 DEF Types, CommandsPast
    <3> QED BY <3>1, <3>2
  <2> QED BY <1>a, <2>1, <2>4, <2>5 DEF CommandsPast
<1>2. ASSUME NEW g \in Gateways, executing' = [executing EXCEPT ![g] = Idle],
             UNCHANGED <<issued, executed, now>>
      PROVE  CommandsPast'
  BY <1>a, <1>2 DEF CommandsPast, Types
<1>3. ASSUME NEW g \in Borders, NEW r \in Relays, NEW c \in Commands,
             SendMeshCommand(g, r, c)
      PROVE  CommandsPast'
  <2>1. /\ issued' = issued \cup {[by |-> g, relay |-> r, ts |-> now, body |-> c]}
        /\ UNCHANGED <<executed, executing, now>>
    BY <1>3 DEF SendMeshCommand, commanding, world
  <2>2. now \in 1 .. now
    BY <1>a DEF Types
  <2> QED BY <1>a, <2>1, <2>2 DEF CommandsPast
<1>4. CASE Tick
  <2>1. now' = now + 1 /\ UNCHANGED <<issued, executed, executing>>
    BY <1>4 DEF Tick, commanding, serving
  <2>2. \A t \in 1 .. now : t \in 1 .. now'
    BY <1>a, <2>1
  <2> QED BY <1>a, <2>1, <2>2 DEF CommandsPast
<1> QED BY <1>b, <1>1, <1>2, <1>3, <1>4
        DEF Next, vars, contexts, dedup, commanding, serving, air, world, output,
            ProxyUplinkLora, RelayUplinkLora, HandleMesh, DropInvalidMic, DropSeen,
            ProxyMesh, ProxyMeshFails, BorderIgnores, DropOwn, UnwrapDownlink, RejectCommands,
            RelayMesh, FinishCommands, ProxyDownlink, RelayDownlink, RetryDownlink,
            SendEvents, Restart

(***************************************************************************)
(* The types of the other variables.                                       *)
(***************************************************************************)
CacheTypes ==
  payloadCache \in [Gateways -> Seq(CacheKeys)] /\ seen \in [Gateways -> Seq(CacheKeys)]

LEMMA CacheAddTyped ==
  ASSUME NEW S, NEW q \in Seq(S), NEW v \in S, NEW n \in Nat \ {0}
  PROVE  CacheAdd(q, v, n) \in Seq(S)
<1>1. CASE Len(q) = n
  <2>1. q # <<>>
    BY <1>1, EmptySeq
  <2>2. Tail(q) \in Seq(S)
    BY <2>1, HeadTailProperties
  <2> QED BY <1>1, <2>2, AppendProperties DEF CacheAdd
<1> QED BY <1>1, AppendProperties DEF CacheAdd

LEMMA CacheTypesNext ==
  ASSUME AirInv, [Next]_vars
  PROVE  CacheTypes'
<1>a. CacheTypes
  BY DEF AirInv, Types, CacheTypes
<1>b. ASSUME UNCHANGED dedup PROVE CacheTypes'
  BY <1>a, <1>b DEF CacheTypes, dedup
<1>1. ASSUME NEW g \in Gateways, Accept(g) PROVE CacheTypes'
  <2> DEFINE key == CacheKey(Packet(g))
  <2>1. /\ key \in CacheKeys
        /\ payloadCache' = [payloadCache EXCEPT ![g] = CacheAdd(@, key, CacheSize)]
        /\ seen' = [seen EXCEPT ![g] = Append(@, key)]
    BY <1>1, AcceptFacts
  <2> HIDE DEF key
  <2>2. CacheAdd(payloadCache[g], key, CacheSize) \in Seq(CacheKeys)
    BY <1>a, <2>1, NumbersType, CacheAddTyped DEF CacheTypes
  <2>3. Append(seen[g], key) \in Seq(CacheKeys)
    BY <1>a, <2>1, AppendProperties DEF CacheTypes
  <2> QED BY <1>a, <2>1, <2>2, <2>3 DEF CacheTypes
<1>2. ASSUME NEW g \in Gateways, Restart(g) PROVE CacheTypes'
  <2>1. /\ payloadCache' = [payloadCache EXCEPT ![g] = <<>>]
        /\ seen' = [seen EXCEPT ![g] = <<>>]
    BY <1>2 DEF Restart
  <2> QED BY <1>a, <2>1, EmptySeq DEF CacheTypes
<1> QED BY <1>b, <1>1, <1>2
        DEF Next, vars, contexts, dedup, commanding, serving, air, world, output,
            ProxyUplinkLora, RelayUplinkLora, HandleMesh, DropInvalidMic, DropSeen,
            ProxyMesh, ProxyMeshFails, BorderIgnores, DropOwn, UnwrapDownlink, ExecuteCommands,
            RejectCommands, RelayMesh, FinishCommands, ProxyDownlink, RelayDownlink,
            RetryDownlink, SendMeshCommand, SendEvents, Tick

OtherTypes ==
  /\ uplinkId \in [Gateways -> 0 .. MaxUplinkId]
  /\ uplinkContext \in [Gateways -> [0 .. MaxUplinkId -> Uplinks \cup {NoContext}]]
  /\ stored \in [Gateways -> Seq(Uplinks)]
  /\ lastTimestamp \in [Gateways -> Nat]
  /\ executing \in [Gateways -> Commands \cup {Idle}]
  /\ now \in Nat \ {0}
  /\ boot \in [Gateways -> Nat]

HistoryTypes ==
  /\ heard \subseteq Gateways \X Uplinks
  /\ answered \subseteq published
  /\ issued \subseteq [by : Borders, relay : Relays, ts : Nat, body : Commands]
  /\ executed \subseteq [at : Relays, boot : Nat, pos : Nat, ts : Nat, body : Commands]
  /\ reported \subseteq Relays \X (EventSets \cup Heartbeats)

LEMMA OtherTypesNext ==
  ASSUME AirInv, [Next]_vars
  PROVE  OtherTypes'
<1>a. OtherTypes
  BY DEF AirInv, Types, OtherTypes
<1>b. ASSUME UNCHANGED <<uplinkId, uplinkContext, stored, lastTimestamp, executing,
                         now, boot>>
      PROVE  OtherTypes'
  BY <1>a, <1>b DEF OtherTypes
<1>1. ASSUME NEW g \in Gateways, NEW u \in Uplinks, RelayUplinkLora(g, u)
      PROVE  OtherTypes'
  <2> DEFINE id == NextUplinkId(uplinkId[g])
  <2>1. /\ uplinkId' = [uplinkId EXCEPT ![g] = id]
        /\ uplinkContext' = [uplinkContext EXCEPT ![g][id] = u]
        /\ stored' = [stored EXCEPT ![g] = Append(@, u)]
        /\ UNCHANGED <<lastTimestamp, executing, now, boot>>
    BY <1>1 DEF RelayUplinkLora, commanding
  <2>2. id \in 0 .. MaxUplinkId
    BY <1>a, NextUplinkIdTyped DEF OtherTypes
  <2> HIDE DEF id
  <2>3. Append(stored[g], u) \in Seq(Uplinks)
    BY <1>a, AppendProperties DEF OtherTypes
  <2>4. [uplinkContext[g] EXCEPT ![id] = u] \in [0 .. MaxUplinkId -> Uplinks \cup {NoContext}]
    BY <1>a, <2>2 DEF OtherTypes
  <2> QED BY <1>a, <2>1, <2>2, <2>3, <2>4 DEF OtherTypes
<1>2. ASSUME NEW g \in Gateways, ExecuteCommands(g) PROVE OtherTypes'
  <2>1. /\ lastTimestamp' = [lastTimestamp EXCEPT ![g] = Packet(g).id]
        /\ executing' = [executing EXCEPT ![g] = Packet(g).body]
        /\ UNCHANGED <<uplinkId, uplinkContext, stored, now, boot>>
    BY <1>2 DEF ExecuteCommands, contexts, world
  <2>2. PICK i \in issued : i.ts = Packet(g).id /\ i.body = Packet(g).body
                            /\ i.ts \in 1 .. now /\ i.body \in Commands
    BY <1>2, CommandFacts DEF ExecuteCommands
  <2>3. Packet(g).id \in Nat /\ Packet(g).body \in Commands
    BY <1>a, <2>2 DEF OtherTypes
  <2> QED BY <1>a, <2>1, <2>3 DEF OtherTypes
<1>3. ASSUME NEW g \in Gateways, FinishCommands(g) PROVE OtherTypes'
  <2>1. /\ executing' = [executing EXCEPT ![g] = Idle]
        /\ UNCHANGED <<uplinkId, uplinkContext, stored, lastTimestamp, now, boot>>
    BY <1>3 DEF FinishCommands, contexts, world
  <2> QED BY <1>a, <2>1 DEF OtherTypes
<1>4. CASE Tick
  <2>1. now' = now + 1 /\ UNCHANGED <<uplinkId, uplinkContext, stored, lastTimestamp,
                                      executing, boot>>
    BY <1>4 DEF Tick, contexts, commanding
  <2> QED BY <1>a, <2>1 DEF OtherTypes
<1>5. ASSUME NEW g \in Gateways, Restart(g) PROVE OtherTypes'
  <2> DEFINE none == [id \in 0 .. MaxUplinkId |-> NoContext]
  <2>1. /\ boot' = [boot EXCEPT ![g] = @ + 1]
        /\ uplinkId' = [uplinkId EXCEPT ![g] = 0]
        /\ uplinkContext' = [uplinkContext EXCEPT ![g] = none]
        /\ lastTimestamp' = [lastTimestamp EXCEPT ![g] = 0]
        /\ executing' = [executing EXCEPT ![g] = Idle]
        /\ stored' = [stored EXCEPT ![g] = <<>>]
        /\ UNCHANGED now
    BY <1>5 DEF Restart
  <2>2. none \in [0 .. MaxUplinkId -> Uplinks \cup {NoContext}]
    OBVIOUS
  <2> HIDE DEF none
  <2>3. /\ 0 \in 0 .. MaxUplinkId /\ <<>> \in Seq(Uplinks)
        /\ \A h \in Gateways : boot[h] + 1 \in Nat
    BY <1>a, NumbersType, EmptySeq DEF OtherTypes
  <2>4. uplinkId' \in [Gateways -> 0 .. MaxUplinkId] /\ boot' \in [Gateways -> Nat]
    BY <1>a, <2>1, <2>3 DEF OtherTypes
  <2>5. uplinkContext' \in [Gateways -> [0 .. MaxUplinkId -> Uplinks \cup {NoContext}]]
    BY <1>a, <2>1, <2>2 DEF OtherTypes
  <2>6. /\ stored' \in [Gateways -> Seq(Uplinks)] /\ lastTimestamp' \in [Gateways -> Nat]
        /\ executing' \in [Gateways -> Commands \cup {Idle}] /\ now' \in Nat \ {0}
    BY <1>a, <2>1, <2>3 DEF OtherTypes
  <2> QED BY <2>4, <2>5, <2>6 DEF OtherTypes
<1> QED BY <1>b, <1>1, <1>2, <1>3, <1>4, <1>5
        DEF Next, vars, contexts, dedup, commanding, serving, air, world, output,
            ProxyUplinkLora, HandleMesh, DropInvalidMic, DropSeen, ProxyMesh, ProxyMeshFails,
            BorderIgnores, DropOwn, UnwrapDownlink, RejectCommands, RelayMesh,
            ProxyDownlink, RelayDownlink, RetryDownlink, SendMeshCommand, SendEvents

LEMMA HistoryTypesNext ==
  ASSUME AirInv, [Next]_vars
  PROVE  HistoryTypes'
<1>a. HistoryTypes /\ published \subseteq published' /\ now \in Nat
  BY HistoriesGrow DEF AirInv, Types, HistoryTypes
<1>b. ASSUME UNCHANGED <<heard, answered, issued, executed, reported>> PROVE HistoryTypes'
  BY <1>a, <1>b DEF HistoryTypes
<1>1. ASSUME NEW g \in Gateways, NEW u \in Uplinks, Hear(g, u),
             UNCHANGED <<answered, issued, executed, reported>>
      PROVE  HistoryTypes'
  BY <1>a, <1>1 DEF HistoryTypes, Hear
<1>2. ASSUME NEW e \in published, answered' = answered \cup {e},
             UNCHANGED <<heard, issued, executed, reported>>
      PROVE  HistoryTypes'
  BY <1>a, <1>2 DEF HistoryTypes
<1>3. ASSUME NEW g \in Gateways, ExecuteCommands(g) PROVE HistoryTypes'
  <2> DEFINE x == [at |-> g, boot |-> boot[g], pos |-> Position(g),
                   ts |-> Packet(g).id, body |-> Packet(g).body]
  <2>1. /\ executed' = executed \cup {x} /\ g \in Relays
        /\ UNCHANGED <<heard, answered, issued, reported>>
    BY <1>3 DEF ExecuteCommands, serving, world
  <2>2. PICK i \in issued : i.ts = Packet(g).id /\ i.body = Packet(g).body
                            /\ i.ts \in 1 .. now /\ i.body \in Commands
    BY <1>3, CommandFacts DEF ExecuteCommands
  <2>3. Packet(g).id \in Nat /\ Packet(g).body \in Commands
    BY <1>a, <2>2
  <2>4. boot[g] \in Nat /\ Position(g) \in Nat
    BY LenProperties DEF Position, AirInv, Types
  <2>5. x \in [at : Relays, boot : Nat, pos : Nat, ts : Nat, body : Commands]
    BY <2>1, <2>3, <2>4
  <2> HIDE DEF x
  <2> QED BY <1>a, <2>1, <2>5 DEF HistoryTypes
<1>4. ASSUME NEW g \in Borders, NEW r \in Relays, NEW c \in Commands,
             SendMeshCommand(g, r, c)
      PROVE  HistoryTypes'
  <2>1. /\ issued' = issued \cup {[by |-> g, relay |-> r, ts |-> now, body |-> c]}
        /\ UNCHANGED <<heard, answered, executed, reported>>
    BY <1>4 DEF SendMeshCommand, commanding, world
  <2> QED BY <1>a, <2>1 DEF HistoryTypes
<1>5. ASSUME NEW g \in Relays, NEW e \in EventSets \cup Heartbeats, SendEvents(g, e)
      PROVE  HistoryTypes'
  <2>1. /\ reported' = reported \cup {<<g, e>>}
        /\ UNCHANGED <<heard, answered, issued, executed>>
    BY <1>5 DEF SendEvents, commanding, serving
  <2> QED BY <1>a, <2>1 DEF HistoryTypes
<1> QED BY <1>b, <1>1, <1>2, <1>3, <1>4, <1>5
        DEF Next, vars, contexts, dedup, commanding, serving, air, world, output,
            ProxyUplinkLora, RelayUplinkLora, HandleMesh, DropInvalidMic, DropSeen,
            ProxyMesh, ProxyMeshFails, BorderIgnores, DropOwn, UnwrapDownlink,
            RejectCommands, RelayMesh,
            FinishCommands, ProxyDownlink, RelayDownlink, RetryDownlink, Tick, Restart

LEMMA AirInvInit == Init => AirInv
<1> SUFFICES ASSUME Init PROVE AirInv
  OBVIOUS
<1>1. \A S : <<>> \in Seq(S)
  BY EmptySeq
<1>2. 0 \in 0 .. MaxUplinkId /\ 0 \in 0 .. NumFrequencies - 1
  BY NumbersType
<1>3. Types
  BY <1>1, <1>2 DEF Init, Types
<1>4. AirIsGood
  BY <1>1 DEF Init, AirIsGood
<1>5. PublishedIsGood /\ CommandsPast /\ RetriesTyped
  BY DEF Init, PublishedIsGood, CommandsPast, RetriesTyped
<1> QED BY <1>3, <1>4, <1>5 DEF AirInv

LEMMA AirInvNext == AirInv /\ [Next]_vars => AirInv'
<1> SUFFICES ASSUME AirInv, [Next]_vars PROVE AirInv'
  OBVIOUS
<1>1. AirIsGood' /\ meshChannel' \in Channels /\ PublishedIsGood' /\ CommandsPast'
  BY AirNext, PublishedNext, CommandsPastNext
<1>2. RetriesTyped' /\ retrying' \in [Gateways -> SUBSET published']
  BY RetriesNext
<1>3. CacheTypes' /\ OtherTypes' /\ HistoryTypes'
  BY CacheTypesNext, OtherTypesNext, HistoryTypesNext
<1>4. Types'
  BY <1>1, <1>2, <1>3 DEF Types, Channels, CacheTypes, OtherTypes, HistoryTypes
<1> QED BY <1>1, <1>2, <1>4 DEF AirInv

LEMMA AirInvAlways == Spec => []AirInv
  BY AirInvInit, AirInvNext, PTL DEF Spec

-----------------------------------------------------------------------------
(***************************************************************************)
(* What is on the air.                                                     *)
(***************************************************************************)
LEMMA FrameFacts ==
  ASSUME AirInv, NEW f \in FramesOf(Good)
  PROVE  /\ f \in Frames /\ f.mic.key \in Keys /\ ValidMic(f, f.mic.key)
         /\ f.packet.enc = IF IsEncrypted(f.packet.type) THEN f.mic.key ELSE Clear
         /\ HopOK(f.packet)
<1>1. PICK k \in Keys : \E p \in Good[k] : f = Seal(p, k)
  BY DEF FramesOf
<1>2. PICK p \in Good[k] : f = Seal(p, k)
  BY <1>1
<1>3. p \in Packets /\ p.enc = Clear /\ HopOK(p)
  BY GoodFields
<1>4. /\ f = [packet |-> Encrypt(p, k), mic |-> [key |-> k, over |-> Encrypt(p, k)]]
      /\ f \in Frames
  BY <1>2, <1>3, SealShape
<1>5. /\ Encrypt(p, k).type = p.type /\ Encrypt(p, k).hop = p.hop
      /\ Encrypt(p, k).enc = IF IsEncrypted(p.type) THEN k ELSE p.enc
  BY <1>3, Fields
<1>6. f.packet = Encrypt(p, k) /\ f.mic.key = k /\ ValidMic(f, k)
  BY <1>4 DEF ValidMic
<1> QED BY <1>3, <1>4, <1>5, <1>6 DEF HopOK

LEMMA InboxFrames ==
  ASSUME AirInv, NEW g \in Gateways, NEW i \in DOMAIN inbox[g]
  PROVE  inbox[g][i] \in FramesOf(Good)
<1>1. inbox[g] \in Seq(FramesOf(Good))
  BY DEF AirInv, AirIsGood
<1>2. DOMAIN inbox[g] = 1 .. Len(inbox[g])
  BY <1>1, LenProperties
<1> QED BY <1>1, <1>2, ElementOfSeq

(***************************************************************************)
(* However a packet is relayed, its hop count stays within max_hop_count   *)
(* and the three bits of the header (mesh.rs:386-405).                     *)
(***************************************************************************)
THEOREM HopCountsBounded == Spec => []HopBound
<1>1. ASSUME AirInv PROVE HopBound
  <2> SUFFICES ASSUME NEW g \in Gateways, NEW i \in DOMAIN inbox[g]
               PROVE  HopOK(inbox[g][i].packet)
    BY DEF HopBound, InFlight, HopOK
  <2> QED BY <1>1, InboxFrames, FrameFacts
<1> QED BY <1>1, AirInvAlways, PTL

(***************************************************************************)
(* Every frame on the air verifies under the key of its network, and       *)
(* events and commands are encrypted under it (mesh.rs:392-401).           *)
(***************************************************************************)
THEOREM FramesVerify == Spec => []AirVerifies
<1>1. ASSUME AirInv PROVE AirVerifies
  BY <1>1, InboxFrames, FrameFacts DEF AirVerifies
<1> QED BY <1>1, AirInvAlways, PTL

(***************************************************************************)
(* A border gateway publishes only what a relay of its network sent.       *)
(***************************************************************************)
THEOREM PublishedIsAuthentic == Spec => []PublishedWasSent
<1>1. ASSUME AirInv PROVE PublishedWasSent
  <2> SUFFICES ASSUME NEW e \in published
               PROVE  /\ Key[e.packet.relay] = Key[e.at]
                      /\ e.packet.type = "Uplink" => <<e.packet.relay, e.packet.body>> \in heard
                      /\ e.packet.type = "Event" =>
                           \/ <<e.packet.relay, e.packet.body>> \in reported
                           \/ \E x \in executed : /\ x.at = e.packet.relay
                                                  /\ x.body = e.packet.body
                                                  /\ x.ts <= e.packet.id
    BY DEF PublishedWasSent
  <2>1. /\ e.packet \in Good[Key[e.at]] /\ Key[e.at] \in Keys
        /\ e.packet.type \in {"Uplink", "Event"}
    BY <1>1, KeyType DEF AirInv, PublishedIsGood, Publications
  <2>2. Genuine(e.packet, Key[e.at])
    BY <2>1, GoodFields
  <2> QED BY <2>1, <2>2 DEF Genuine
<1> QED BY <1>1, AirInvAlways, PTL

-----------------------------------------------------------------------------
(***************************************************************************)
(* Downlinks for devices.                                                  *)
(***************************************************************************)
RadioInv == RadioedType /\ DownlinkGoesBack

LEMMA RadioTyped ==
  ASSUME AirInv, NEW g \in Gateways, NEW p \in Packets, NEW pos \in Nat,
         NEW ctx \in Uplinks
  PROVE  /\ Radio(g, p, pos, ctx) \in [at : Gateways, boot : Nat, pos : Nat,
                                       packet : Packets, ctx : Uplinks, recent : BOOLEAN]
         /\ Radio(g, p, pos, ctx).at = g /\ Radio(g, p, pos, ctx).boot = boot[g]
         /\ Radio(g, p, pos, ctx).pos = pos /\ Radio(g, p, pos, ctx).packet = p
<1>1. InWindow(g, p.body) \in BOOLEAN
  BY DEF InWindow
<1>2. boot[g] \in Nat
  BY DEF AirInv, Types
<1> QED BY <1>1, <1>2 DEF Radio

\* Which packets are handed to a concentratord for a device.
LEMMA RadioStep ==
  ASSUME AirInv, [Next]_vars
  PROVE  \/ radioed' = radioed
         \/ \E g \in Gateways, ctx \in Uplinks :
              /\ UnwrapDownlink(g)
              /\ radioed' = radioed \cup {Radio(g, Packet(g), Position(g), ctx)}
         \/ \E e \in published :
              /\ ProxyDownlink(e)
              /\ radioed' = radioed \cup {Radio(e.at, e.packet, 0, e.packet.body)}
<1>1. ASSUME NEW g \in Gateways, UnwrapDownlink(g), radioed' # radioed
      PROVE  \E ctx \in Uplinks :
               radioed' = radioed \cup {Radio(g, Packet(g), Position(g), ctx)}
  <2> DEFINE ctx == uplinkContext[g][Packet(g).id]
  <2>1. Accept(g) /\ Packet(g).type = "Downlink"
    BY <1>1 DEF UnwrapDownlink
  <2>2. Packet(g) \in Good[Key[g]] /\ Key[g] \in Keys
    BY <2>1, AcceptFacts, KeyType
  <2>3. Packet(g).id \in 0 .. MaxUplinkId
    BY <2>1, <2>2, GoodFields DEF Genuine
  <2>4. ctx \in Uplinks \cup {NoContext}
    <3>1. uplinkContext[g] \in [0 .. MaxUplinkId -> Uplinks \cup {NoContext}]
      BY DEF AirInv, Types
    <3> QED BY <2>3, <3>1
  <2>5. ctx # NoContext /\ radioed' = radioed \cup {Radio(g, Packet(g), Position(g), ctx)}
    BY <1>1 DEF UnwrapDownlink
  <2> QED BY <2>4, <2>5
<1>2. ASSUME NEW e \in published, ProxyDownlink(e)
      PROVE  radioed' = radioed \cup {Radio(e.at, e.packet, 0, e.packet.body)}
  BY <1>2 DEF ProxyDownlink
<1> QED BY <1>1, <1>2
        DEF Next, vars, contexts, dedup, commanding, serving, air, world, output,
            ProxyUplinkLora, RelayUplinkLora, HandleMesh, DropInvalidMic, DropSeen,
            ProxyMesh, ProxyMeshFails, BorderIgnores, DropOwn, ExecuteCommands,
            RejectCommands, RelayMesh,
            FinishCommands, RelayDownlink, RetryDownlink, SendMeshCommand, SendEvents,
            Tick, Restart

LEMMA RadioNext == AirInv /\ RadioInv /\ [Next]_vars => RadioInv'
<1> SUFFICES ASSUME AirInv, RadioInv, [Next]_vars PROVE RadioInv'
  OBVIOUS
<1>a. heard \subseteq heard' /\ RadioedType /\ DownlinkGoesBack
  BY HistoriesGrow DEF RadioInv
<1>b. ASSUME NEW g \in Gateways, NEW p \in Packets, NEW pos \in Nat, NEW ctx \in Uplinks,
             <<g, p.body>> \in heard, radioed' = radioed \cup {Radio(g, p, pos, ctx)}
      PROVE  RadioInv'
  <2>1. /\ Radio(g, p, pos, ctx) \in [at : Gateways, boot : Nat, pos : Nat,
                                      packet : Packets, ctx : Uplinks, recent : BOOLEAN]
        /\ Radio(g, p, pos, ctx).at = g /\ Radio(g, p, pos, ctx).packet = p
    BY RadioTyped
  <2> QED BY <1>a, <1>b, <2>1 DEF RadioInv, RadioedType, DownlinkGoesBack
<1>1. CASE radioed' = radioed
  BY <1>a, <1>1 DEF RadioInv, RadioedType, DownlinkGoesBack
<1>2. ASSUME NEW g \in Gateways, NEW ctx \in Uplinks, UnwrapDownlink(g),
             radioed' = radioed \cup {Radio(g, Packet(g), Position(g), ctx)}
      PROVE  RadioInv'
  <2>1. Accept(g) /\ Packet(g).type = "Downlink" /\ Packet(g).relay = g
    BY <1>2 DEF UnwrapDownlink, ForThisRelay
  <2>2. Packet(g) \in Good[Key[g]] /\ Key[g] \in Keys
    BY <2>1, AcceptFacts, KeyType
  <2>3. Packet(g) \in Packets /\ <<g, Packet(g).body>> \in heard
    BY <2>1, <2>2, GoodFields DEF Genuine
  <2>4. Position(g) \in Nat
    BY LenProperties DEF Position, AirInv, Types
  <2> QED BY <1>b, <1>2, <2>3, <2>4
<1>3. ASSUME NEW e \in published, ProxyDownlink(e),
             radioed' = radioed \cup {Radio(e.at, e.packet, 0, e.packet.body)}
      PROVE  RadioInv'
  <2>1. e.packet.type = "Uplink" /\ e.packet.relay = e.at
    BY <1>3 DEF ProxyDownlink, IsUplink, HasMeshContext
  <2>2. e.at \in Gateways /\ e.packet \in Good[Key[e.at]] /\ Key[e.at] \in Keys
    BY KeyType DEF AirInv, PublishedIsGood, Publications
  <2>3. e.packet \in Packets /\ e.packet.body \in Uplinks /\ <<e.at, e.packet.body>> \in heard
    BY <2>1, <2>2, GoodFields DEF Genuine
  <2> QED BY <1>b, <1>3, <2>2, <2>3
<1> QED BY <1>1, <1>2, <1>3, RadioStep

LEMMA RadioInvAlways == Spec => []RadioInv
<1>1. Init => RadioInv
  BY DEF Init, RadioInv, RadioedType, DownlinkGoesBack
<1> QED BY <1>1, RadioNext, AirInvAlways, PTL DEF Spec

(***************************************************************************)
(* The device is answered by the gateway that heard it, whatever the       *)
(* gateways in between lost, repeated, re-ordered or forgot.               *)
(***************************************************************************)
THEOREM DownlinksGoBack == Spec => []DownlinkGoesBack
<1>1. RadioInv => DownlinkGoesBack
  BY DEF RadioInv
<1> QED BY <1>1, RadioInvAlways, PTL

(***************************************************************************)
(* What border gateways accept and cannot unwrap.                          *)
(***************************************************************************)
UnmappedInv ==
  \A e \in unmapped : /\ e \in Publications /\ e.packet.type = "Uplink"
                      /\ ~ Unwraps(e.at, e.packet)

LEMMA UnmappedStep ==
  ASSUME [Next]_vars
  PROVE  \/ unmapped' = unmapped
         \/ \E g \in Gateways :
              /\ ProxyMeshFails(g)
              /\ unmapped' = unmapped \cup {Publication(g, Packet(g), Position(g))}
<1>1. ASSUME NEW g \in Gateways, HandleMesh(g), ~ ProxyMeshFails(g)
      PROVE  unmapped' = unmapped
  BY <1>1 DEF output, HandleMesh, DropInvalidMic, DropSeen, ProxyMesh, BorderIgnores, DropOwn,
              UnwrapDownlink, ExecuteCommands, RejectCommands, RelayMesh
<1>2. ASSUME NEW g \in Gateways, ProxyMeshFails(g)
      PROVE  unmapped' = unmapped \cup {Publication(g, Packet(g), Position(g))}
  BY <1>2 DEF ProxyMeshFails
<1> QED BY <1>1, <1>2
        DEF Next, vars, output, ProxyUplinkLora, RelayUplinkLora, FinishCommands,
            ProxyDownlink, RelayDownlink, RetryDownlink, SendMeshCommand, SendEvents, Tick,
            Restart

LEMMA UnmappedNext == AirInv /\ UnmappedInv /\ [Next]_vars => UnmappedInv'
<1> SUFFICES ASSUME AirInv, UnmappedInv, [Next]_vars PROVE UnmappedInv'
  OBVIOUS
<1>1. CASE unmapped' = unmapped
  BY <1>1 DEF UnmappedInv, Unwraps
<1>2. ASSUME NEW g \in Gateways, ProxyMeshFails(g),
             unmapped' = unmapped \cup {Publication(g, Packet(g), Position(g))}
      PROVE  UnmappedInv'
  <2> DEFINE e == Publication(g, Packet(g), Position(g))
  <2>1. Accept(g) /\ Packet(g).type = "Uplink" /\ ~ Unwraps(g, Packet(g))
    BY <1>2 DEF ProxyMeshFails
  <2>2. Packet(g) \in Packets
    BY <2>1, AcceptFacts, GoodFields, KeyType
  <2>3. Position(g) \in Nat /\ Types
    BY LenProperties DEF Position, AirInv, Types
  <2>4. e \in Publications /\ e.at = g /\ e.packet = Packet(g)
    BY <2>2, <2>3, PublicationGood
  <2>5. PICK p : p = Packet(g)
    OBVIOUS
  <2> HIDE DEF e
  <2>6. e \in Publications /\ e.packet.type = "Uplink" /\ ~ Unwraps(e.at, e.packet)
    BY <2>1, <2>4
  <2>7. PICK d : d = e
    OBVIOUS
  <2>8. \A c \in unmapped' : c \in unmapped \/ c = d
    BY <1>2, <2>7 DEF e
  <2>9. \A c \in unmapped' : /\ c \in Publications /\ c.packet.type = "Uplink"
                             /\ ~ Unwraps(c.at, c.packet)
    BY <2>6, <2>7, <2>8 DEF UnmappedInv
  <2> QED BY <2>9 DEF UnmappedInv, Unwraps
<1> QED BY <1>1, <1>2, UnmappedStep

LEMMA UnmappedInvAlways == Spec => []UnmappedInv
<1>1. Init => UnmappedInv
  BY DEF Init, UnmappedInv
<1> QED BY <1>1, UnmappedNext, AirInvAlways, PTL DEF Spec

(***************************************************************************)
(* The variables keep their types.                                         *)
(***************************************************************************)
THEOREM TypesCorrect == Spec => []TypeOK
<1>1. ASSUME AirInv, RadioInv, UnmappedInv PROVE TypeOK
  <2>1. Seq(FramesOf(Good)) \subseteq Seq(Frames)
    BY GoodTyped, FramesTyped, SeqDef
  <2>2. inbox \in [Gateways -> Seq(Frames)]
    BY <1>1, <2>1 DEF AirInv, AirIsGood
  <2>3. published \subseteq Publications /\ unmapped \subseteq Publications
    BY <1>1 DEF AirInv, PublishedIsGood, UnmappedInv
  <2> QED BY <1>1, <2>2, <2>3 DEF AirInv, Types, RadioInv, RadioedType, TypeOK
<1> QED BY <1>1, AirInvAlways, RadioInvAlways, UnmappedInvAlways, PTL

-----------------------------------------------------------------------------
(***************************************************************************)
(* The caches.                                                             *)
(***************************************************************************)
CacheInv ==
  \A g \in Gateways : /\ payloadCache[g] = LastOf(seen[g], CacheSize)
                      /\ Spaced(seen[g], CacheSize)

\* Caches, and the numbers of restarts, change by an accepted packet or a restart.
LEMMA CacheStep ==
  ASSUME [Next]_vars
  PROVE  \/ UNCHANGED <<payloadCache, seen, boot, lastTimestamp>>
         \/ \E g \in Gateways :
              Accept(g) /\ boot' = boot /\ (ExecuteCommands(g) \/ UNCHANGED lastTimestamp)
         \/ \E g \in Gateways : Restart(g)
<1>1. ASSUME NEW g \in Gateways, HandleMesh(g), UNCHANGED payloadCache, UNCHANGED seen
      PROVE  UNCHANGED <<boot, lastTimestamp>> \/ Accept(g)
  BY <1>1 DEF commanding, world, HandleMesh, DropInvalidMic, DropSeen, ProxyMesh,
              ProxyMeshFails, BorderIgnores, DropOwn, UnwrapDownlink, ExecuteCommands,
              RejectCommands, RelayMesh
<1>2. ASSUME NEW g \in Gateways, HandleMesh(g)
      PROVE  \/ UNCHANGED <<payloadCache, seen>>
             \/ Accept(g)
  BY <1>2 DEF dedup, HandleMesh, DropInvalidMic, DropSeen, ProxyMesh, ProxyMeshFails,
              BorderIgnores, DropOwn, UnwrapDownlink, ExecuteCommands, RejectCommands,
              RelayMesh
<1>3. ASSUME NEW g \in Gateways, HandleMesh(g)
      PROVE  boot' = boot /\ (ExecuteCommands(g) \/ UNCHANGED lastTimestamp)
  BY <1>3 DEF commanding, world, HandleMesh, DropInvalidMic, DropSeen, ProxyMesh,
              ProxyMeshFails, BorderIgnores, DropOwn, UnwrapDownlink, ExecuteCommands,
              RejectCommands, RelayMesh
<1> QED BY <1>1, <1>2, <1>3
        DEF Next, vars, dedup, commanding, world, ProxyUplinkLora, RelayUplinkLora,
            FinishCommands, ProxyDownlink, RelayDownlink, RetryDownlink, SendMeshCommand,
            SendEvents, Tick, Restart

LEMMA CacheNext == AirInv /\ CacheInv /\ [Next]_vars => CacheInv'
<1> SUFFICES ASSUME AirInv, CacheInv, [Next]_vars PROVE CacheInv'
  OBVIOUS
<1>a. /\ CacheInv /\ CacheSize \in Nat \ {0}
      /\ payloadCache \in [Gateways -> Seq(CacheKeys)]
      /\ seen \in [Gateways -> Seq(CacheKeys)]
  BY NumbersType DEF AirInv, Types
<1>1. CASE UNCHANGED <<payloadCache, seen, boot, lastTimestamp>>
  BY <1>a, <1>1 DEF CacheInv
<1>2. ASSUME NEW g \in Gateways, Accept(g)
      PROVE  CacheInv'
  <2> DEFINE key == CacheKey(Packet(g))
  <2>1. /\ key \in CacheKeys /\ ~ CacheHas(payloadCache[g], key)
        /\ payloadCache' = [payloadCache EXCEPT ![g] = CacheAdd(@, key, CacheSize)]
        /\ seen' = [seen EXCEPT ![g] = Append(@, key)]
    BY <1>2, AcceptFacts
  <2> HIDE DEF key
  <2>2. payloadCache[g] = LastOf(seen[g], CacheSize) /\ Spaced(seen[g], CacheSize)
    BY <1>a DEF CacheInv
  <2>3. seen[g] \in Seq(CacheKeys)
    BY <1>a
  <2>4. CacheAdd(payloadCache[g], key, CacheSize) = LastOf(Append(seen[g], key), CacheSize)
    BY <1>a, <2>1, <2>2, <2>3, AddKeepsLast
  <2>5. Spaced(Append(seen[g], key), CacheSize)
    BY <1>a, <2>1, <2>2, <2>3, AddKeepsSpaced
  <2> QED BY <1>a, <2>1, <2>4, <2>5 DEF CacheInv
<1>3. ASSUME NEW g \in Gateways, Restart(g)
      PROVE  CacheInv'
  <2>1. /\ payloadCache' = [payloadCache EXCEPT ![g] = <<>>]
        /\ seen' = [seen EXCEPT ![g] = <<>>]
    BY <1>3 DEF Restart
  <2> QED BY <1>a, <2>1, EmptyCache DEF CacheInv
<1> QED BY <1>1, <1>2, <1>3, CacheStep

LEMMA CacheInvAlways == Spec => []CacheInv
<1>1. Init => CacheInv
  BY EmptyCache, NumbersType DEF Init, CacheInv
<1> QED BY <1>1, CacheNext, AirInvAlways, PTL DEF Spec

(***************************************************************************)
(* A cache holds the last CacheSize packets that were accepted, neither    *)
(* more nor less: FIFO eviction costs exactly the oldest one.              *)
(***************************************************************************)
THEOREM CachesRemember == Spec => []RemembersTheLast
<1>1. CacheInv => RemembersTheLast
  BY DEF CacheInv, RemembersTheLast
<1> QED BY <1>1, CacheInvAlways, PTL

-----------------------------------------------------------------------------
(***************************************************************************)
(* What was published, or given to a device, and its place in the history  *)
(* of the cache.                                                           *)
(***************************************************************************)
\* The records of S refer to the past: of an earlier boot, or a place in sn.
PlacedIn(S, bt, sn) ==
  \A d \in S :
    /\ d.boot <= bt[d.at]
    /\ d.pos > 0 /\ d.boot = bt[d.at] =>
         d.pos <= Len(sn[d.at]) /\ sn[d.at][d.pos] = CacheKey(d.packet)

OnceIn(S) ==
  \A d, e \in S :
    (/\ d.at = e.at /\ d.boot = e.boot /\ 0 < d.pos /\ d.pos < e.pos
     /\ CacheKey(d.packet) = CacheKey(e.packet)) => e.pos - d.pos > CacheSize

RecordsOK(S) == \A d \in S : d.at \in Gateways /\ d.boot \in Nat /\ d.pos \in Nat

HandledInv ==
  /\ PlacedIn(published, boot, seen) /\ OnceIn(published)
  /\ PlacedIn(radioed, boot, seen) /\ OnceIn(radioed)

\* The past stays the past.
LEMMA PlacedStays ==
  ASSUME AirInv, [Next]_vars, NEW S, RecordsOK(S), PlacedIn(S, boot, seen)
  PROVE  PlacedIn(S, boot', seen')
<1>a. /\ boot \in [Gateways -> Nat]
      /\ seen \in [Gateways -> Seq(CacheKeys)]
      /\ \A d \in S : d.at \in Gateways /\ d.boot \in Nat /\ d.pos \in Nat
      /\ \A g \in Gateways : Len(seen[g]) \in Nat
  BY LenProperties DEF AirInv, Types, RecordsOK
<1>1. CASE UNCHANGED <<payloadCache, seen, boot, lastTimestamp>>
  BY <1>1 DEF PlacedIn
<1>2. ASSUME NEW g \in Gateways, Accept(g), boot' = boot
      PROVE  PlacedIn(S, boot', seen')
  <2>1. PICK key \in CacheKeys : seen' = [seen EXCEPT ![g] = Append(@, key)]
    BY <1>2, AcceptFacts
  <2>2. /\ Len(Append(seen[g], key)) = Len(seen[g]) + 1
        /\ \A i \in 1 .. Len(seen[g]) : Append(seen[g], key)[i] = seen[g][i]
    BY <1>a, AppendProperties
  <2>3. ASSUME NEW d \in S, d.pos > 0, d.boot = boot[d.at]
        PROVE  d.pos <= Len(seen'[d.at]) /\ seen'[d.at][d.pos] = CacheKey(d.packet)
    <3>1. d.pos <= Len(seen[d.at]) /\ seen[d.at][d.pos] = CacheKey(d.packet)
      BY <2>3 DEF PlacedIn
    <3>2. d.at \in Gateways /\ d.pos \in 1 .. Len(seen[d.at])
      BY <1>a, <2>3, <3>1
    <3>3. CASE d.at = g
      BY <1>a, <2>1, <2>2, <3>1, <3>2, <3>3
    <3>4. CASE d.at # g
      BY <1>a, <2>1, <3>1, <3>2, <3>4
    <3> QED BY <3>3, <3>4
  <2> QED BY <1>2, <2>3 DEF PlacedIn
<1>3. ASSUME NEW g \in Gateways, Restart(g)
      PROVE  PlacedIn(S, boot', seen')
  <2>1. /\ boot' = [boot EXCEPT ![g] = @ + 1]
        /\ seen' = [seen EXCEPT ![g] = <<>>]
    BY <1>3 DEF Restart
  <2>2. ASSUME NEW d \in S, d.at = g
        PROVE  d.boot <= boot'[d.at] /\ d.boot # boot'[d.at]
    <3>1. d.boot <= boot[g] /\ boot'[g] = boot[g] + 1
      BY <1>a, <2>1, <2>2 DEF PlacedIn
    <3> QED BY <1>a, <2>2, <3>1
  <2>3. ASSUME NEW d \in S, d.at # g
        PROVE  boot'[d.at] = boot[d.at] /\ seen'[d.at] = seen[d.at]
    BY <1>a, <2>1, <2>3
  <2> QED BY <2>2, <2>3 DEF PlacedIn
<1> QED BY <1>1, <1>2, <1>3, CacheStep

\* Whether the packet of r came from the LoRa side, or was accepted just now.
FreshIn(r, bt, sn, sn2) ==
  /\ r.boot = bt[r.at]
  /\ \/ r.pos = 0
     \/ /\ r.pos = Len(sn[r.at]) + 1
        /\ sn2[r.at] = Append(sn[r.at], CacheKey(r.packet))

\* A fresh record is placed, and repeats none that is close.
LEMMA FreshRecord ==
  ASSUME AirInv, [Next]_vars, CacheInv', boot' = boot, NEW S, RecordsOK(S),
         PlacedIn(S, boot, seen), OnceIn(S),
         NEW r, r.at \in Gateways, r.pos \in Nat, CacheKey(r.packet) \in CacheKeys,
         FreshIn(r, boot, seen, seen')
  PROVE  PlacedIn(S \cup {r}, boot', seen') /\ OnceIn(S \cup {r})
<1> DEFINE k == CacheKey(r.packet)
<1>a. /\ boot[r.at] \in Nat /\ r.boot = boot[r.at]
      /\ seen[r.at] \in Seq(CacheKeys) /\ Len(seen[r.at]) \in Nat
      /\ \A d \in S : d.at \in Gateways /\ d.boot \in Nat /\ d.pos \in Nat
      /\ k \in CacheKeys
  BY LenProperties DEF AirInv, Types, RecordsOK, FreshIn
<1>b. PlacedIn(S, boot', seen')
  BY PlacedStays
<1>c. CASE r.pos = 0
  <2>1. PlacedIn(S \cup {r}, boot', seen')
    BY <1>a, <1>b, <1>c DEF PlacedIn
  <2>2. OnceIn(S \cup {r})
    BY <1>a, <1>c DEF OnceIn
  <2> QED BY <2>1, <2>2
<1>d. CASE r.pos = Len(seen[r.at]) + 1 /\ seen'[r.at] = Append(seen[r.at], k)
  <2>1. Len(seen'[r.at]) = r.pos /\ seen'[r.at][r.pos] = k
    BY <1>a, <1>d, AppendProperties
  <2>2. PlacedIn(S \cup {r}, boot', seen')
    BY <1>a, <1>b, <2>1 DEF PlacedIn
  <2>3. ASSUME NEW d \in S, d.at = r.at, d.boot = r.boot, 0 < d.pos
        PROVE  d.pos < r.pos
    BY <1>a, <1>d, <2>3 DEF PlacedIn
  <2>4. ASSUME NEW d \in S, d.at = r.at, d.boot = r.boot, 0 < d.pos,
               CacheKey(d.packet) = k
        PROVE  r.pos - d.pos > CacheSize
    <3>1. seen'[r.at][d.pos] = k /\ d.pos <= Len(seen'[r.at])
      BY <1>a, <1>b, <2>4 DEF PlacedIn
    <3>2. d.pos \in 1 .. Len(seen'[r.at]) /\ r.pos \in 1 .. Len(seen'[r.at])
      BY <1>a, <1>d, <2>1, <2>4, <3>1
    <3>3. Spaced(seen'[r.at], CacheSize)
      BY DEF CacheInv
    <3>4. DOMAIN seen'[r.at] = 1 .. Len(seen'[r.at])
      BY <1>a, <1>d, AppendProperties, LenProperties
    <3> QED BY <2>1, <2>3, <2>4, <3>1, <3>2, <3>3, <3>4 DEF Spaced
  <2>5. r.pos \in Nat /\ \A d \in S : d.pos \in Nat
    BY <1>a
  <2> HIDE DEF k
  <2>6. OnceIn(S \cup {r})
    <3> SUFFICES ASSUME NEW d \in S \cup {r}, NEW e \in S \cup {r}, d.at = e.at,
                        d.boot = e.boot, 0 < d.pos, d.pos < e.pos,
                        CacheKey(d.packet) = CacheKey(e.packet)
                 PROVE  e.pos - d.pos > CacheSize
      BY DEF OnceIn
    <3>1. CASE d \in S /\ e \in S
      BY <3>1 DEF OnceIn
    <3>2. CASE d \in S /\ e = r
      BY <2>4, <3>2 DEF k
    <3>3. CASE d = r /\ e \in S
      BY <2>3, <2>5, <3>3
    <3>4. CASE d = r /\ e = r
      BY <2>5, <3>4
    <3> QED BY <3>1, <3>2, <3>3, <3>4
  <2> QED BY <2>2, <2>6
<1> QED BY <1>c, <1>d DEF FreshIn

\* What is published is placed at the front of its gateway's history.
LEMMA PublishedStep ==
  ASSUME AirInv, [Next]_vars
  PROVE  \/ published' = published
         \/ \E g \in Gateways, u \in Uplinks :
              /\ ProxyUplinkLora(g, u)
              /\ published' =
                   published \cup {Publication(g, NewPacket("Uplink", g, 0, u), 0)}
         \/ \E g \in Gateways :
              /\ ProxyMesh(g)
              /\ published' = published \cup {Publication(g, Packet(g), Position(g))}
  BY DEF Next, vars, contexts, dedup, commanding, serving, air, world, output,
         ProxyUplinkLora, RelayUplinkLora, HandleMesh, DropInvalidMic, DropSeen,
         ProxyMesh, ProxyMeshFails, BorderIgnores, DropOwn, UnwrapDownlink, ExecuteCommands,
         RejectCommands, RelayMesh, FinishCommands, ProxyDownlink, RelayDownlink,
         RetryDownlink, SendMeshCommand, SendEvents, Tick, Restart

LEMMA PublishedOnceNext ==
  ASSUME AirInv, [Next]_vars, CacheInv', PlacedIn(published, boot, seen),
         OnceIn(published)
  PROVE  PlacedIn(published', boot', seen') /\ OnceIn(published')
<1>a. RecordsOK(published) /\ Types
  BY DEF AirInv, PublishedIsGood, Publications, RecordsOK
<1>1. CASE published' = published
  BY <1>a, <1>1, PlacedStays
<1>2. ASSUME NEW g \in Gateways, NEW u \in Uplinks, ProxyUplinkLora(g, u),
             published' = published \cup {Publication(g, NewPacket("Uplink", g, 0, u), 0)}
      PROVE  PlacedIn(published', boot', seen') /\ OnceIn(published')
  <2> DEFINE r == Publication(g, NewPacket("Uplink", g, 0, u), 0)
  <2>1. r.at = g /\ r.boot = boot[g] /\ r.pos = 0 /\ r.packet = NewPacket("Uplink", g, 0, u)
    BY DEF Publication
  <2>2. boot' = boot
    BY <1>2 DEF ProxyUplinkLora
  <2>3. CacheKey(r.packet) \in CacheKeys
    <3>1. "Uplink" \in PayloadType /\ u \in Bodies /\ 0 \in Nat /\ Key[g] \in Keys
      BY KeyType DEF PayloadType, Bodies
    <3>2. NewPacket("Uplink", g, 0, u) \in Packets
      BY <3>1, NewPacketTyped DEF ClearPackets
    <3> QED BY <2>1, <3>1, <3>2, Fields
  <2>4. FreshIn(r, boot, seen, seen')
    BY <2>1 DEF FreshIn
  <2> HIDE DEF r
  <2> QED BY <1>a, <1>2, <2>1, <2>2, <2>3, <2>4, FreshRecord DEF r
<1>3. ASSUME NEW g \in Gateways, ProxyMesh(g),
             published' = published \cup {Publication(g, Packet(g), Position(g))}
      PROVE  PlacedIn(published', boot', seen') /\ OnceIn(published')
  <2> DEFINE r == Publication(g, Packet(g), Position(g))
  <2>1. r.at = g /\ r.boot = boot[g] /\ r.pos = Position(g) /\ r.packet = Packet(g)
    BY DEF Publication
  <2>2. boot' = boot /\ Accept(g)
    BY <1>3 DEF ProxyMesh, world
  <2>3. /\ CacheKey(r.packet) \in CacheKeys
        /\ seen' = [seen EXCEPT ![g] = Append(@, CacheKey(Packet(g)))]
    BY <2>1, <2>2, AcceptFacts
  <2>4. FreshIn(r, boot, seen, seen')
    BY <1>a, <2>1, <2>3 DEF FreshIn, Position, Types
  <2>5. r.pos \in Nat
    BY <1>a, <2>1, LenProperties DEF Position, Types
  <2> HIDE DEF r
  <2> QED BY <1>a, <1>3, <2>1, <2>2, <2>3, <2>4, <2>5, FreshRecord DEF r
<1> QED BY <1>1, <1>2, <1>3, PublishedStep

LEMMA RadioedOnceNext ==
  ASSUME AirInv, RadioInv, [Next]_vars, CacheInv', PlacedIn(radioed, boot, seen),
         OnceIn(radioed)
  PROVE  PlacedIn(radioed', boot', seen') /\ OnceIn(radioed')
<1>a. RecordsOK(radioed) /\ Types
  BY DEF AirInv, RadioInv, RadioedType, RecordsOK
<1>1. CASE radioed' = radioed
  BY <1>a, <1>1, PlacedStays
<1>2. ASSUME NEW g \in Gateways, NEW ctx \in Uplinks, UnwrapDownlink(g),
             radioed' = radioed \cup {Radio(g, Packet(g), Position(g), ctx)}
      PROVE  PlacedIn(radioed', boot', seen') /\ OnceIn(radioed')
  <2> DEFINE r == Radio(g, Packet(g), Position(g), ctx)
  <2>1. r.at = g /\ r.boot = boot[g] /\ r.pos = Position(g) /\ r.packet = Packet(g)
    BY DEF Radio
  <2>2. boot' = boot /\ Accept(g)
    BY <1>2 DEF UnwrapDownlink, world
  <2>3. /\ CacheKey(r.packet) \in CacheKeys
        /\ seen' = [seen EXCEPT ![g] = Append(@, CacheKey(Packet(g)))]
    BY <2>1, <2>2, AcceptFacts
  <2>4. FreshIn(r, boot, seen, seen')
    BY <1>a, <2>1, <2>3 DEF FreshIn, Position, Types
  <2>5. r.pos \in Nat
    BY <1>a, <2>1, LenProperties DEF Position, Types
  <2> HIDE DEF r
  <2> QED BY <1>a, <1>2, <2>1, <2>2, <2>3, <2>4, <2>5, FreshRecord DEF r
<1>3. ASSUME NEW e \in published, ProxyDownlink(e),
             radioed' = radioed \cup {Radio(e.at, e.packet, 0, e.packet.body)}
      PROVE  PlacedIn(radioed', boot', seen') /\ OnceIn(radioed')
  <2> DEFINE r == Radio(e.at, e.packet, 0, e.packet.body)
  <2>1. r.at = e.at /\ r.boot = boot[e.at] /\ r.pos = 0 /\ r.packet = e.packet
    BY DEF Radio
  <2>2. boot' = boot
    BY <1>3 DEF ProxyDownlink, world
  <2>3. e.at \in Gateways /\ e.packet \in Packets
    BY DEF AirInv, PublishedIsGood, Publications
  <2>4. CacheKey(r.packet) \in CacheKeys
    BY <2>1, <2>3, Fields, KeyType
  <2>5. FreshIn(r, boot, seen, seen')
    BY <2>1 DEF FreshIn
  <2> HIDE DEF r
  <2> QED BY <1>a, <1>3, <2>1, <2>2, <2>3, <2>4, <2>5, FreshRecord DEF r
<1> QED BY <1>1, <1>2, <1>3, RadioStep

LEMMA HandledInvAlways == Spec => []HandledInv
<1>1. Init => HandledInv
  BY DEF Init, HandledInv, PlacedIn, OnceIn
<1>2. AirInv /\ RadioInv /\ CacheInv /\ HandledInv /\ [Next]_vars => HandledInv'
  <2> SUFFICES ASSUME AirInv, RadioInv, CacheInv, HandledInv, [Next]_vars
               PROVE  HandledInv'
    OBVIOUS
  <2>1. CacheInv'
    BY CacheNext
  <2>2. /\ PlacedIn(published', boot', seen') /\ OnceIn(published')
        /\ PlacedIn(radioed', boot', seen') /\ OnceIn(radioed')
    BY <2>1, PublishedOnceNext, RadioedOnceNext DEF HandledInv
  <2> QED BY <2>2 DEF HandledInv
<1> QED BY <1>1, <1>2, AirInvAlways, RadioInvAlways, CacheInvAlways, PTL DEF Spec

(***************************************************************************)
(* No gateway publishes a packet, or gives it to a device, a second time   *)
(* before it has accepted CacheSize others: for every network, every way   *)
(* of losing and re-ordering copies, and every pattern of restarts.        *)
(***************************************************************************)
THEOREM NothingHandledTwice == Spec => []HandledOnce
<1>1. HandledInv => HandledOnce
  BY DEF HandledInv, OnceIn, HandledOnce
<1> QED BY <1>1, HandledInvAlways, PTL

-----------------------------------------------------------------------------
(***************************************************************************)
(* Commands.                                                               *)
(***************************************************************************)
\* What was executed refers to the past, and was sent by a border gateway.
ExecutedInv ==
  /\ \A x \in executed :
       /\ x.boot <= boot[x.at]
       /\ x.boot = boot[x.at] => x.pos <= Len(seen[x.at]) /\ x.ts <= lastTimestamp[x.at]
  /\ CommandsInOrder

\* Which actions matter to the commands of a relay.
LEMMA ExecutedStep ==
  ASSUME [Next]_vars
  PROVE  \/ UNCHANGED <<executed, seen, boot, lastTimestamp>>
         \/ \E g \in Gateways : Accept(g) /\ UNCHANGED <<executed, boot, lastTimestamp>>
         \/ \E g \in Gateways : ExecuteCommands(g)
         \/ \E g \in Gateways : Restart(g)
  BY DEF Next, vars, contexts, dedup, commanding, serving, air, world, output,
         ProxyUplinkLora, RelayUplinkLora, HandleMesh, DropInvalidMic, DropSeen,
         ProxyMesh, ProxyMeshFails, BorderIgnores, DropOwn, UnwrapDownlink,
            RejectCommands, RelayMesh,
         FinishCommands, ProxyDownlink, RelayDownlink, RetryDownlink,
         SendMeshCommand, SendEvents, Tick

LEMMA ExecutedNext == AirInv /\ ExecutedInv /\ [Next]_vars => ExecutedInv'
<1> SUFFICES ASSUME AirInv, ExecutedInv, [Next]_vars PROVE ExecutedInv'
  OBVIOUS
<1>a. /\ boot \in [Gateways -> Nat]
      /\ lastTimestamp \in [Gateways -> Nat]
      /\ seen \in [Gateways -> Seq(CacheKeys)]
      /\ issued \subseteq issued'
      /\ \A g \in Gateways : Len(seen[g]) \in Nat
      /\ \A x \in executed : /\ x.at \in Gateways /\ x.boot \in Nat /\ x.pos \in Nat
                             /\ x.ts \in Nat /\ x.ts # 0
  BY HistoriesGrow, LenProperties DEF AirInv, Types, CommandsPast, Relays
<1>b. /\ \A x \in executed :
           /\ x.boot <= boot[x.at]
           /\ x.boot = boot[x.at] => x.pos <= Len(seen[x.at]) /\ x.ts <= lastTimestamp[x.at]
      /\ \A x \in executed : \E i \in issued :
           i.relay = x.at /\ i.ts = x.ts /\ i.body = x.body /\ Key[i.by] = Key[x.at]
      /\ \A x, y \in executed :
           x.at = y.at /\ x.boot = y.boot /\ x.pos < y.pos => x.ts < y.ts
  BY DEF ExecutedInv, CommandsInOrder
<1>1. CASE UNCHANGED <<executed, seen, boot, lastTimestamp>>
  BY <1>a, <1>b, <1>1 DEF ExecutedInv, CommandsInOrder
<1>2. ASSUME NEW g \in Gateways, Accept(g), UNCHANGED <<executed, boot, lastTimestamp>>
      PROVE  ExecutedInv'
  <2>1. PICK key \in CacheKeys : seen' = [seen EXCEPT ![g] = Append(@, key)]
    BY <1>2, AcceptFacts
  <2>2. \A h \in Gateways : Len(seen'[h]) >= Len(seen[h]) /\ Len(seen'[h]) \in Nat
    BY <1>a, <2>1, AppendProperties
  <2>3. \A x \in executed : x.boot = boot[x.at] =>
          x.pos <= Len(seen'[x.at]) /\ x.ts <= lastTimestamp[x.at]
    BY <1>a, <1>b, <2>2
  <2> QED BY <1>a, <1>b, <1>2, <2>3 DEF ExecutedInv, CommandsInOrder
<1>3. ASSUME NEW g \in Gateways, ExecuteCommands(g)
      PROVE  ExecutedInv'
  <2> DEFINE x == [at |-> g, boot |-> boot[g], pos |-> Position(g),
                   ts |-> Packet(g).id, body |-> Packet(g).body]
  <2>1. /\ executed' = executed \cup {x}
        /\ lastTimestamp' = [lastTimestamp EXCEPT ![g] = Packet(g).id]
        /\ boot' = boot /\ issued' = issued
        /\ Accept(g) /\ Packet(g).type = "Command" /\ ForThisRelay(g, Packet(g))
        /\ ~ TimestampStale(lastTimestamp[g], Packet(g).id)
    BY <1>3 DEF ExecuteCommands, serving, world
  <2>2. PICK i \in issued : /\ i.relay = g /\ i.ts = Packet(g).id
                            /\ i.body = Packet(g).body /\ Key[i.by] = Key[g]
                            /\ i.ts \in 1 .. now
    BY <2>1, CommandFacts
  <2>3. PICK key \in CacheKeys : seen' = [seen EXCEPT ![g] = Append(@, key)]
    BY <2>1, AcceptFacts
  <2>4. /\ x.at = g /\ x.boot = boot[g] /\ x.pos = Len(seen[g]) + 1
        /\ x.ts = i.ts /\ x.body = i.body /\ x.ts \in Nat
    BY <2>2 DEF Position, AirInv, Types
  <2>5. lastTimestamp' = [lastTimestamp EXCEPT ![g] = x.ts]
    BY <2>1, <2>2, <2>4
  <2>6. lastTimestamp[g] < x.ts
    BY <1>a, <2>1, <2>2, <2>4 DEF TimestampStale, AirInv, Types
  <2> HIDE DEF x
  <2>7. Len(seen'[g]) = x.pos /\ \A h \in Gateways \ {g} : seen'[h] = seen[h]
    BY <1>a, <2>3, <2>4, AppendProperties
  <2>8. ASSUME NEW y \in executed, y.at = g, y.boot = boot[g]
        PROVE  y.pos < x.pos /\ y.ts < x.ts
    BY <1>a, <1>b, <2>4, <2>6, <2>8
  <2>9. ASSUME NEW y \in executed'
        PROVE  /\ y.boot <= boot'[y.at]
               /\ y.boot = boot'[y.at] =>
                    y.pos <= Len(seen'[y.at]) /\ y.ts <= lastTimestamp'[y.at]
    <3>1. CASE y = x
      BY <1>a, <2>1, <2>4, <2>5, <2>7, <3>1
    <3>2. CASE y \in executed /\ y.at = g
      BY <1>a, <1>b, <2>1, <2>4, <2>5, <2>7, <2>8, <3>2
    <3>3. CASE y \in executed /\ y.at # g
      BY <1>a, <1>b, <2>1, <2>5, <2>7, <3>3
    <3> QED BY <2>1, <3>1, <3>2, <3>3
  <2>10. \A y \in executed' : \E j \in issued' :
           j.relay = y.at /\ j.ts = y.ts /\ j.body = y.body /\ Key[j.by] = Key[y.at]
    BY <1>b, <2>1, <2>2, <2>4
  <2>11. ASSUME NEW y \in executed', NEW z \in executed',
                y.at = z.at, y.boot = z.boot, y.pos < z.pos
         PROVE  y.ts < z.ts
    <3>1. CASE y \in executed /\ z \in executed
      BY <1>b, <2>11, <3>1
    <3>2. CASE y \in executed /\ z = x
      BY <2>4, <2>8, <2>11, <3>2
    <3>3. CASE y = x /\ z \in executed
      BY <1>a, <2>4, <2>8, <2>11, <3>3
    <3>4. CASE y = x /\ z = x
      BY <1>a, <2>4, <2>11, <3>4
    <3> QED BY <2>1, <3>1, <3>2, <3>3, <3>4
  <2> QED BY <2>9, <2>10, <2>11 DEF ExecutedInv, CommandsInOrder
<1>4. ASSUME NEW g \in Gateways, Restart(g)
      PROVE  ExecutedInv'
  <2>1. /\ boot' = [boot EXCEPT ![g] = @ + 1]
        /\ seen' = [seen EXCEPT ![g] = <<>>]
        /\ lastTimestamp' = [lastTimestamp EXCEPT ![g] = 0]
        /\ executed' = executed
    BY <1>4 DEF Restart
  <2>2. ASSUME NEW x \in executed, x.at = g
        PROVE  x.boot <= boot'[x.at] /\ x.boot # boot'[x.at]
    <3>1. x.boot <= boot[g] /\ boot'[g] = boot[g] + 1
      BY <1>a, <1>b, <2>1, <2>2
    <3> QED BY <1>a, <2>2, <3>1
  <2>3. ASSUME NEW x \in executed, x.at # g
        PROVE  /\ boot'[x.at] = boot[x.at] /\ seen'[x.at] = seen[x.at]
               /\ lastTimestamp'[x.at] = lastTimestamp[x.at]
    BY <1>a, <2>1, <2>3
  <2> QED BY <1>a, <1>b, <2>1, <2>2, <2>3 DEF ExecutedInv, CommandsInOrder
<1> QED BY <1>1, <1>2, <1>3, <1>4, ExecutedStep

(***************************************************************************)
(* A relay executes only commands that its network's border gateways sent  *)
(* to it, each once between two restarts and in the order of their         *)
(* timestamps: for every network, cache size and order of arrival.         *)
(***************************************************************************)
THEOREM CommandsExecuteInOrder == Spec => []CommandsInOrder
<1>1. Init => ExecutedInv
  BY DEF Init, ExecutedInv, CommandsInOrder
<1>2. ExecutedInv => CommandsInOrder
  BY DEF ExecutedInv
<1> QED BY <1>1, <1>2, ExecutedNext, AirInvAlways, PTL DEF Spec

-----------------------------------------------------------------------------
(***************************************************************************)
(* What a step puts on the air: a frame in an inbox was there before, or   *)
(* was sent in this step by a gateway that reaches the receiver.           *)
(***************************************************************************)
WasIn(h, f) == \E j \in DOMAIN inbox[h] : inbox[h][j] = f

Sends(g, p) ==
  \/ \E u \in Uplinks : /\ RelayUplinkLora(g, u)
                        /\ p = NewPacket("Uplink", g, NextUplinkId(uplinkId[g]), u)
  \/ \E e \in published : /\ IsUplink(e) /\ e.at = g /\ e \in answered'
                          /\ p = DownlinkFor(e)
  \/ \E r \in Relays, c \in Commands : p = NewPacket("Command", r, now, c)
  \/ \E e \in Bodies : p = NewPacket("Event", g, now, e)
  \/ RelayMesh(g) /\ p = Relayed(Packet(g), g)

\* Each frame of a gateway's inbox after the step, by where it comes from.
Moved(h) ==
  \A i \in DOMAIN inbox'[h] :
    \/ WasIn(h, inbox'[h][i])
    \/ \E g \in Gateways : h \in Neighbours[g] /\
         \E p \in ClearPackets : Sends(g, p) /\ inbox'[h][i] = Seal(p, Key[g])

LEMMA TakenWasIn ==
  ASSUME AirInv, NEW g \in Gateways, Arrived(g), NEW h \in Gateways
  PROVE  \A i \in DOMAIN Taken(g)[h] : WasIn(h, Taken(g)[h][i])
<1>a. inbox \in [Gateways -> Seq(FramesOf(Good))]
  BY DEF AirInv, AirIsGood
<1>1. CASE h = g
  <2>1. /\ Tail(inbox[g]) \in Seq(FramesOf(Good))
        /\ Len(Tail(inbox[g])) = Len(inbox[g]) - 1
        /\ \A i \in 1 .. Len(Tail(inbox[g])) : Tail(inbox[g])[i] = inbox[g][i + 1]
    BY <1>a, HeadTailProperties DEF Arrived
  <2>2. /\ DOMAIN Tail(inbox[g]) = 1 .. Len(Tail(inbox[g]))
        /\ DOMAIN inbox[g] = 1 .. Len(inbox[g]) /\ Len(inbox[g]) \in Nat
    BY <1>a, <2>1, LenProperties
  <2>3. Taken(g)[h] = Tail(inbox[g])
    BY <1>a, <1>1 DEF Taken
  <2>4. \A i \in 1 .. Len(Tail(inbox[g])) : i + 1 \in DOMAIN inbox[g]
    BY <2>1, <2>2
  <2> QED BY <1>1, <2>1, <2>2, <2>3, <2>4 DEF WasIn
<1>2. CASE h # g
  <2>1. Taken(g)[h] = inbox[h]
    BY <1>a, <1>2 DEF Taken
  <2> QED BY <2>1 DEF WasIn
<1> QED BY <1>1, <1>2

LEMMA TransmitMoves ==
  ASSUME NEW S, NEW g \in Gateways, NEW box \in [Gateways -> Seq(S)], NEW p,
         Transmit(g, box, p), Seal(p, Key[g]) \in S, NEW h \in Gateways,
         NEW i \in DOMAIN inbox'[h]
  PROVE  \/ \E j \in DOMAIN box[h] : inbox'[h][i] = box[h][j]
         \/ h \in Neighbours[g] /\ inbox'[h][i] = Seal(p, Key[g])
<1>1. PICK receivers \in Reached(g) : inbox' = Deliver(box, Seal(p, Key[g]), receivers)
  BY DEF Transmit
<1>2. receivers \subseteq Neighbours[g]
  BY <1>1 DEF Reached
<1> DEFINE f == Seal(p, Key[g])
<1> HIDE DEF f
<1>3. CASE h \in receivers
  <2>1. inbox'[h] = Append(box[h], f)
    BY <1>1, <1>3 DEF Deliver, f
  <2>2. /\ Len(Append(box[h], f)) = Len(box[h]) + 1
        /\ \A j \in 1 .. Len(box[h]) : Append(box[h], f)[j] = box[h][j]
        /\ Append(box[h], f)[Len(box[h]) + 1] = f
        /\ Append(box[h], f) \in Seq(S)
    BY AppendProperties DEF f
  <2>3. /\ DOMAIN inbox'[h] = 1 .. Len(box[h]) + 1
        /\ DOMAIN box[h] = 1 .. Len(box[h]) /\ Len(box[h]) \in Nat
    BY <2>1, <2>2, LenProperties
  <2>4. i \in 1 .. Len(box[h]) \/ i = Len(box[h]) + 1
    BY <2>3
  <2> QED BY <1>2, <1>3, <2>1, <2>2, <2>3, <2>4 DEF f
<1>4. CASE h \notin receivers
  BY <1>1, <1>4 DEF Deliver
<1> QED BY <1>3, <1>4

\* A gateway that hands a packet to Transmit, and possibly took a frame first.
LEMMA MovedByTransmit ==
  ASSUME AirInv, NEW g \in Gateways, NEW p \in ClearPackets, Sends(g, p),
         NEW box \in [Gateways -> Seq(FramesOf(Good))],
         \A h \in Gateways : \A j \in DOMAIN box[h] : WasIn(h, box[h][j]),
         Transmit(g, box, p)
  PROVE  \A h \in Gateways : Moved(h)
<1> DEFINE S == FramesOf(Good) \cup {Seal(p, Key[g])}
<1>1. box \in [Gateways -> Seq(S)] /\ Seal(p, Key[g]) \in S
  BY InboxGrows
<1> SUFFICES ASSUME NEW h \in Gateways, NEW i \in DOMAIN inbox'[h]
             PROVE  \/ WasIn(h, inbox'[h][i])
                    \/ h \in Neighbours[g] /\ inbox'[h][i] = Seal(p, Key[g])
  BY DEF Moved
<1> HIDE DEF S
<1>2. \/ \E j \in DOMAIN box[h] : inbox'[h][i] = box[h][j]
      \/ h \in Neighbours[g] /\ inbox'[h][i] = Seal(p, Key[g])
  BY <1>1, TransmitMoves
<1> QED BY <1>2

(***************************************************************************)
(* No frame is on the air after a step that no gateway sent.               *)
(***************************************************************************)
LEMMA Moves ==
  ASSUME AirInv, [Next]_vars
  PROVE  \A h \in Gateways : Moved(h)
<1> DEFINE Safe == [Gateways -> Seq(FramesOf(Good))]
<1>a. /\ inbox \in Safe /\ Types /\ CommandsPast /\ RetriesTyped /\ now \in Nat
      /\ \A h \in Gateways : \A j \in DOMAIN inbox[h] : WasIn(h, inbox[h][j])
  BY DEF AirInv, AirIsGood, Types, WasIn
<1> HIDE DEF Safe
<1>b. ASSUME UNCHANGED inbox PROVE \A h \in Gateways : Moved(h)
  BY <1>a, <1>b DEF Moved
<1>c. ASSUME NEW g \in Gateways, Arrived(g), inbox' = Taken(g)
      PROVE  \A h \in Gateways : Moved(h)
  BY <1>c, TakenWasIn DEF Moved
<1>d. ASSUME NEW g \in Gateways, NEW p \in ClearPackets, Sends(g, p),
             Transmit(g, inbox, p)
      PROVE  \A h \in Gateways : Moved(h)
  BY <1>a, <1>d, MovedByTransmit DEF Safe
<1>e. ASSUME NEW e \in published, IsUplink(e), e \in answered',
             Transmit(e.at, inbox, DownlinkFor(e))
      PROVE  \A h \in Gateways : Moved(h)
  <2>1. /\ e.at \in Gateways /\ DownlinkFor(e) \in ClearPackets
    BY <1>e, DownlinkGood, KeyType DEF Good
  <2>2. Sends(e.at, DownlinkFor(e))
    BY <1>e DEF Sends
  <2> QED BY <1>d, <1>e, <2>1, <2>2
<1>1. ASSUME NEW g \in Gateways, NEW u \in Uplinks, RelayUplinkLora(g, u)
      PROVE  \A h \in Gateways : Moved(h)
  <2> DEFINE p == NewPacket("Uplink", g, NextUplinkId(uplinkId[g]), u)
  <2>1. NextUplinkId(uplinkId[g]) \in Nat
    BY <1>a, NextUplinkIdTyped, NumbersType DEF Types
  <2>2. p \in ClearPackets
    BY <2>1, NewPacketTyped DEF PayloadType, Bodies
  <2>3. Sends(g, p)
    BY <1>1 DEF Sends
  <2>4. inbox' = inbox \/ Transmit(g, inbox, p)
    BY <1>1 DEF RelayUplinkLora
  <2> HIDE DEF p
  <2> QED BY <1>b, <1>d, <2>2, <2>3, <2>4
<1>2. ASSUME NEW g \in Gateways, HandleMesh(g)
      PROVE  \A h \in Gateways : Moved(h)
  <2>1. Arrived(g)
    BY <1>2 DEF HandleMesh, DropInvalidMic, DropSeen, Verified, ProxyMesh, ProxyMeshFails,
                BorderIgnores, DropOwn, UnwrapDownlink, ExecuteCommands, RejectCommands, RelayMesh, Accept
  <2>2. CASE inbox' = Taken(g)
    BY <1>c, <2>1, <2>2
  <2>3. CASE RelayMesh(g) /\ inbox' # Taken(g)
    <3> DEFINE p == Relayed(Packet(g), g)
    <3>1. /\ Packet(g) \in Good[Key[g]] /\ Taken(g) \in Safe /\ Key[g] \in Keys
          /\ \A h \in Gateways : \A j \in DOMAIN Taken(g)[h] : WasIn(h, Taken(g)[h][j])
      BY <2>1, <2>3, AcceptFacts, TakenWasIn, KeyType DEF RelayMesh, Safe
    <3>2. HeaderFits(p.hop) /\ ~ HopExceeded(p.hop) /\ Transmit(g, Taken(g), p)
      BY <2>3 DEF RelayMesh
    <3>3. p \in ClearPackets
      BY <3>1, <3>2, RelayedGood DEF Good
    <3>4. Sends(g, p)
      BY <2>3 DEF Sends
    <3> HIDE DEF p
    <3> QED BY <3>1, <3>2, <3>3, <3>4, MovedByTransmit DEF Safe
  <2> QED BY <1>2, <2>2, <2>3
          DEF HandleMesh, DropInvalidMic, DropSeen, ProxyMesh, ProxyMeshFails,
              BorderIgnores, DropOwn, UnwrapDownlink, ExecuteCommands, RejectCommands
<1>3. ASSUME NEW g \in Gateways, NEW e \in Bodies,
             Transmit(g, inbox, NewPacket("Event", g, now, e))
      PROVE  \A h \in Gateways : Moved(h)
  <2>1. NewPacket("Event", g, now, e) \in ClearPackets
    BY <1>a, NewPacketTyped DEF PayloadType
  <2>2. Sends(g, NewPacket("Event", g, now, e))
    BY DEF Sends
  <2> QED BY <1>d, <1>3, <2>1, <2>2
<1>4. ASSUME NEW g \in Gateways, FinishCommands(g)
      PROVE  \A h \in Gateways : Moved(h)
  <2>1. executing[g] \in Bodies
    BY <1>a, <1>4 DEF Types, FinishCommands, Bodies
  <2> QED BY <1>b, <1>3, <1>4, <2>1 DEF FinishCommands
<1>5. ASSUME NEW e \in published, RelayDownlink(e)
      PROVE  \A h \in Gateways : Moved(h)
  BY <1>b, <1>e, <1>5 DEF RelayDownlink
<1>6. ASSUME NEW g \in Borders, RetryDownlink(g)
      PROVE  \A h \in Gateways : Moved(h)
  <2>1. g \in Gateways
    BY BordersAreGateways
  <2>2. PICK e \in retrying[g] : UNCHANGED inbox \/ Transmit(g, inbox, DownlinkFor(e))
    BY <1>6 DEF RetryDownlink
  <2>3. e \in published /\ IsUplink(e) /\ e \in answered' /\ e.at = g
    BY <1>a, <2>1, <2>2, HistoriesGrow DEF RetriesTyped, Types
  <2> QED BY <1>b, <1>e, <2>2, <2>3
<1>7. ASSUME NEW g \in Borders, NEW r \in Relays, NEW c \in Commands,
             SendMeshCommand(g, r, c)
      PROVE  \A h \in Gateways : Moved(h)
  <2>1. g \in Gateways /\ r \in Gateways
    BY BordersAreGateways DEF Relays
  <2>2. NewPacket("Command", r, now, c) \in ClearPackets
    BY <1>a, <2>1, NewPacketTyped DEF PayloadType, Bodies
  <2>3. Sends(g, NewPacket("Command", r, now, c))
    BY DEF Sends
  <2> QED BY <1>d, <1>7, <2>1, <2>2, <2>3 DEF SendMeshCommand
<1>8. ASSUME NEW g \in Relays, NEW e \in EventSets \cup Heartbeats, SendEvents(g, e)
      PROVE  \A h \in Gateways : Moved(h)
  BY <1>3, <1>8 DEF SendEvents, Relays, Bodies
<1>9. ASSUME NEW g \in Gateways, Restart(g)
      PROVE  \A h \in Gateways : Moved(h)
  <2>1. inbox' = [inbox EXCEPT ![g] = <<>>]
    BY <1>9 DEF Restart
  <2>2. \A h \in Gateways : inbox'[h] = inbox[h] \/ inbox'[h] = <<>>
    BY <1>a, <2>1 DEF Safe
  <2>3. DOMAIN <<>> = {}
    OBVIOUS
  <2> QED BY <1>a, <2>2, <2>3 DEF Moved
<1> QED BY <1>b, <1>1, <1>2, <1>4, <1>5, <1>6, <1>7, <1>8, <1>9
        DEF Next, vars, contexts, dedup, commanding, serving, air, world, output,
            ProxyUplinkLora, ProxyDownlink, Tick

\* A frame that a gateway accepts was in its inbox, and says what the packet says.
LEMMA AcceptedWasIn ==
  ASSUME AirInv, NEW g \in Gateways, Accept(g)
  PROVE  /\ Frame(g).packet \in Packets /\ WasIn(g, Frame(g))
         /\ Packet(g) \in Packets
         /\ Packet(g) = [Frame(g).packet EXCEPT !.enc = Packet(g).enc]
<1>1. inbox[g] \in Seq(FramesOf(Good)) /\ inbox[g] # <<>>
  BY DEF AirInv, AirIsGood, Accept, Verified, Arrived
<1>2. Frame(g) = inbox[g][1] /\ 1 \in DOMAIN inbox[g]
  <2>1. DOMAIN inbox[g] = 1 .. Len(inbox[g]) /\ Len(inbox[g]) \in Nat /\ Len(inbox[g]) # 0
    BY <1>1, LenProperties, EmptySeq
  <2>2. Frame(g) = inbox[g][1]
    BY <1>1 DEF Frame
  <2> QED BY <2>1, <2>2
<1>3. WasIn(g, Frame(g)) /\ Frame(g) \in Frames
  BY <1>2, InboxFrames, FrameFacts DEF WasIn
<1>4. Frame(g).packet \in Packets
  BY <1>3 DEF Frames
<1>5. Packet(g) = [Frame(g).packet EXCEPT !.enc = Packet(g).enc]
  BY <1>4 DEF Packet, Decrypt, Packets
<1>6. Packet(g) \in Packets
  BY AcceptFacts, KeyType, GoodFields
<1> QED BY <1>3, <1>4, <1>5, <1>6

\* What a sealed packet shows without the key, and what a relay changes.
LEMMA SealedFields ==
  ASSUME NEW p \in Packets, NEW k \in Keys
  PROVE  /\ Seal(p, k).packet \in Packets
         /\ Seal(p, k).packet = [p EXCEPT !.enc = Seal(p, k).packet.enc]
<1>1. Seal(p, k).packet = Encrypt(p, k) /\ Encrypt(p, k) \in Packets
  BY SealShape
<1>2. Encrypt(p, k) = [p EXCEPT !.enc = Encrypt(p, k).enc]
  BY DEF Encrypt, Packets
<1> QED BY <1>1, <1>2

LEMMA RelayedFields ==
  ASSUME NEW p \in Packets, NEW g \in Gateways
  PROVE  /\ Relayed(p, g).relay = p.relay /\ Relayed(p, g).body = p.body
         /\ Relayed(p, g).type = p.type /\ Relayed(p, g).id = p.id
         /\ Relayed(p, g).hop = p.hop + 1
         /\ Relayed(p, g).path = IF p.body \in Heartbeats THEN Append(p.path, g) ELSE p.path
  BY DEF Relayed, Packets

-----------------------------------------------------------------------------
(***************************************************************************)
(* The way of a heartbeat.  Its stops are the relay that sent it, and the  *)
(* relays on its path.                                                     *)
(***************************************************************************)
Stop(p, i) == IF i = 0 THEN p.relay ELSE p.path[i]

Tells(p) ==
  IF p.body \in Heartbeats
  THEN /\ Len(p.path) = p.hop - 1
       /\ \A i \in 1 .. Len(p.path) :
            p.path[i] \in Neighbours[Stop(p, i - 1)] /\ p.path[i] # p.relay
  ELSE p.path = <<>>

\* Whoever has received it is in reach of its last stop.
Reaches(p, h) == p.body \in Heartbeats => h \in Neighbours[Stop(p, Len(p.path))]

PathInv ==
  /\ \A h \in Gateways : \A f : WasIn(h, f) => Tells(f.packet) /\ Reaches(f.packet, h)
  /\ \A e \in published : Tells(e.packet)

\* The encryption is no part of it.
LEMMA TellsWhateverEnc ==
  ASSUME NEW p \in Packets, NEW q \in Packets, q = [p EXCEPT !.enc = q.enc], NEW h
  PROVE  (Tells(p) <=> Tells(q)) /\ (Reaches(p, h) <=> Reaches(q, h))
<1>1. q.body = p.body /\ q.path = p.path /\ q.hop = p.hop /\ q.relay = p.relay
  BY DEF Packets
<1>2. \A i : Stop(q, i) = Stop(p, i)
  BY <1>1 DEF Stop
<1> QED BY <1>1, <1>2 DEF Tells, Reaches

LEMMA NewTells ==
  ASSUME NEW type, NEW relay, NEW id, NEW body
  PROVE  /\ Tells(NewPacket(type, relay, id, body))
         /\ \A h \in Neighbours[relay] : Reaches(NewPacket(type, relay, id, body), h)
         /\ body \notin Heartbeats => \A h : Reaches(NewPacket(type, relay, id, body), h)
<1> DEFINE p == NewPacket(type, relay, id, body)
<1>1. p.path = <<>> /\ p.hop = 1 /\ p.relay = relay /\ p.body = body
  BY DEF NewPacket
<1>2. Len(<<>>) = 0
  BY EmptySeq
<1> HIDE DEF p
<1>3. Len(p.path) = p.hop - 1 /\ 1 .. Len(p.path) = {} /\ Stop(p, Len(p.path)) = relay
  BY <1>1, <1>2 DEF Stop
<1> QED BY <1>1, <1>3 DEF Tells, Reaches, p

\* A relay in reach of the last stop becomes the last stop.
LEMMA RelayedTells ==
  ASSUME NEW p \in Packets, Tells(p), NEW g \in Gateways, Reaches(p, g), g # p.relay
  PROVE  /\ Tells(Relayed(p, g))
         /\ \A h \in Neighbours[g] : Reaches(Relayed(p, g), h)
<1> DEFINE q == Relayed(p, g)
<1> DEFINE n == Len(p.path)
<1>1. /\ q.relay = p.relay /\ q.body = p.body /\ q.hop = p.hop + 1
      /\ q.path = IF p.body \in Heartbeats THEN Append(p.path, g) ELSE p.path
      /\ p.path \in Seq(Gateways) /\ p.hop \in Nat
  BY RelayedFields DEF Packets
<1>2. CASE p.body \notin Heartbeats
  BY <1>1, <1>2 DEF Tells, Reaches
<1>3. CASE p.body \in Heartbeats
  <2>1. /\ Len(q.path) = n + 1 /\ n \in Nat
        /\ \A i \in 1 .. n : q.path[i] = p.path[i]
        /\ q.path[n + 1] = g
    BY <1>1, <1>3, AppendProperties, LenProperties
  <2> HIDE DEF q
  <2>2. n = p.hop - 1 /\ \A i \in 1 .. n : p.path[i] \in Neighbours[Stop(p, i - 1)] /\ p.path[i] # p.relay
    BY <1>3 DEF Tells
  <2>3. g \in Neighbours[Stop(p, n)]
    BY <1>3 DEF Reaches
  <2> HIDE DEF n
  <2>4. \A i \in 0 .. n : Stop(q, i) = Stop(p, i)
    BY <1>1, <2>1 DEF Stop
  <2>5. Stop(q, n + 1) = g
    BY <2>1 DEF Stop
  <2>6. Len(q.path) = q.hop - 1
    BY <1>1, <2>1, <2>2
  <2>7. ASSUME NEW i \in 1 .. n + 1
        PROVE  q.path[i] \in Neighbours[Stop(q, i - 1)] /\ q.path[i] # q.relay
    <3>1. CASE i = n + 1
      <4>1. i - 1 = n /\ n \in 0 .. n
        BY <2>1, <3>1
      <4> QED BY <1>1, <2>1, <2>3, <2>4, <3>1, <4>1
    <3>2. CASE i \in 1 .. n
      <4>1. i - 1 \in 0 .. n
        BY <2>1, <3>2
      <4> QED BY <1>1, <2>1, <2>2, <2>4, <3>2, <4>1
    <3> QED BY <2>1, <3>1, <3>2
  <2> QED BY <1>1, <1>3, <2>1, <2>5, <2>6, <2>7 DEF Tells, Reaches, q
<1> QED BY <1>2, <1>3

LEMMA AcceptedTells ==
  ASSUME AirInv, PathInv, NEW g \in Gateways, Accept(g)
  PROVE  Tells(Packet(g)) /\ Reaches(Packet(g), g)
<1>1. Tells(Frame(g).packet) /\ Reaches(Frame(g).packet, g)
  BY AcceptedWasIn DEF PathInv
<1> QED BY <1>1, AcceptedWasIn, TellsWhateverEnc

LEMMA SentTells ==
  ASSUME AirInv, PathInv, NEW g \in Gateways, NEW p, Sends(g, p), NEW h \in Neighbours[g]
  PROVE  Tells(p) /\ Reaches(p, h)
<1>1. \A u \in Uplinks \cup Commands : u \notin Heartbeats
  BY HeartbeatsAreReports
<1>2. ASSUME NEW e \in published, IsUplink(e), p = DownlinkFor(e)
      PROVE  Tells(p) /\ Reaches(p, h)
  <2>1. e.packet \in Good[Key[e.at]] /\ Key[e.at] \in Keys /\ e.packet.type = "Uplink"
    BY <1>2, KeyType DEF AirInv, PublishedIsGood, Publications, IsUplink
  <2>2. e.packet.body \in Uplinks
    BY <2>1, GoodFields DEF Genuine
  <2> QED BY <1>1, <1>2, <2>2, NewTells DEF DownlinkFor
<1>3. CASE RelayMesh(g) /\ p = Relayed(Packet(g), g)
  <2>1. Accept(g) /\ g # Relayed(Packet(g), g).relay /\ Packet(g) \in Packets
    BY <1>3, AcceptedWasIn DEF RelayMesh, ForThisRelay
  <2>2. g # Packet(g).relay
    BY <2>1, RelayedFields
  <2> QED BY <1>3, <2>1, <2>2, AcceptedTells, RelayedTells
<1> QED BY <1>1, <1>2, <1>3, NewTells DEF Sends

LEMMA PathInvNext == AirInv /\ PathInv /\ [Next]_vars => PathInv'
<1> SUFFICES ASSUME AirInv, PathInv, [Next]_vars PROVE PathInv'
  OBVIOUS
<1>1. ASSUME NEW h \in Gateways, NEW i \in DOMAIN inbox'[h]
      PROVE  Tells(inbox'[h][i].packet) /\ Reaches(inbox'[h][i].packet, h)
  <2>1. CASE WasIn(h, inbox'[h][i])
    BY <2>1 DEF PathInv
  <2>2. ASSUME NEW g \in Gateways, h \in Neighbours[g], NEW p \in ClearPackets,
               Sends(g, p), inbox'[h][i] = Seal(p, Key[g])
        PROVE  Tells(inbox'[h][i].packet) /\ Reaches(inbox'[h][i].packet, h)
    <3>1. Tells(p) /\ Reaches(p, h) /\ p \in Packets /\ Key[g] \in Keys
      BY <2>2, SentTells, KeyType DEF ClearPackets
    <3>2. /\ Seal(p, Key[g]).packet \in Packets
          /\ Seal(p, Key[g]).packet = [p EXCEPT !.enc = Seal(p, Key[g]).packet.enc]
      BY <3>1, SealedFields
    <3> QED BY <2>2, <3>1, <3>2, TellsWhateverEnc
  <2> QED BY <2>1, <2>2, Moves DEF Moved
<1>2. ASSUME NEW e \in published' PROVE Tells(e.packet)
  <2>1. CASE e \in published
    BY <2>1 DEF PathInv
  <2>2. ASSUME NEW g \in Gateways, NEW u \in Uplinks,
               e = Publication(g, NewPacket("Uplink", g, 0, u), 0)
        PROVE  Tells(e.packet)
    BY <2>2, NewTells DEF Publication
  <2>3. ASSUME NEW g \in Gateways, ProxyMesh(g), e = Publication(g, Packet(g), Position(g))
        PROVE  Tells(e.packet)
    BY <2>3, AcceptedTells DEF Publication, ProxyMesh
  <2> QED BY <2>1, <2>2, <2>3, PublishedStep
<1> QED BY <1>1, <1>2 DEF PathInv, WasIn

LEMMA PathInvAlways == Spec => []PathInv
<1>1. Init => PathInv
  <2> SUFFICES ASSUME Init PROVE PathInv
    OBVIOUS
  <2>1. \A h \in Gateways : DOMAIN inbox[h] = {}
    BY DEF Init
  <2> QED BY <2>1 DEF PathInv, WasIn, Init
<1> QED BY <1>1, PathInvNext, AirInvAlways, PTL DEF Spec

(***************************************************************************)
(* The path of a heartbeat, on its way or published, is the way it took:   *)
(* for every topology, wherever the copies meet and whatever is lost.      *)
(***************************************************************************)
THEOREM PathsTellTheWay == Spec => []PathTellsTheWay
<1>1. ASSUME NEW p \in Packets, Tells(p)
      PROVE  LET way == <<p.relay>> \o p.path
             IN  IF p.body \in Heartbeats
                 THEN /\ Len(p.path) = p.hop - 1
                      /\ \A i \in 1 .. Len(p.path) :
                           way[i + 1] \in Neighbours[way[i]] /\ way[i + 1] # p.relay
                 ELSE p.path = <<>>
  <2> DEFINE way == <<p.relay>> \o p.path
  <2>1. p.relay \in Gateways /\ p.path \in Seq(Gateways) /\ Len(p.path) \in Nat
    BY LenProperties DEF Packets
  <2>2. /\ <<p.relay>> \in Seq(Gateways) /\ Len(<<p.relay>>) = 1
        /\ <<p.relay>>[1] = p.relay
    BY <2>1
  <2>3. \A i \in 1 .. 1 + Len(p.path) :
          way[i] = IF i <= 1 THEN <<p.relay>>[i] ELSE p.path[i - 1]
    BY <2>1, <2>2, ConcatProperties
  <2> HIDE DEF way
  <2>4. \A i \in 0 .. Len(p.path) : way[i + 1] = Stop(p, i)
    BY <2>1, <2>2, <2>3 DEF Stop
  <2>5. ASSUME NEW i \in 1 .. Len(p.path)
        PROVE  way[i + 1] = p.path[i] /\ way[i] = Stop(p, i - 1)
    <3>1. i \in 0 .. Len(p.path) /\ i - 1 \in 0 .. Len(p.path) /\ i # 0 /\ (i - 1) + 1 = i
      BY <2>1
    <3>2. way[i + 1] = Stop(p, i) /\ way[(i - 1) + 1] = Stop(p, i - 1)
      BY <2>4, <3>1
    <3> QED BY <3>1, <3>2 DEF Stop
  <2> QED BY <1>1, <2>5 DEF Tells, way
<1>2. ASSUME AirInv, PathInv, NEW p \in InFlight \cup {e.packet : e \in published}
      PROVE  p \in Packets /\ Tells(p)
  <2>1. ASSUME NEW h \in Gateways, NEW i \in DOMAIN inbox[h]
        PROVE  inbox[h][i].packet \in Packets /\ Tells(inbox[h][i].packet)
    BY <1>2, InboxFrames, FrameFacts DEF Frames, PathInv, WasIn
  <2>2. ASSUME NEW e \in published PROVE e.packet \in Packets /\ Tells(e.packet)
    BY <1>2 DEF AirInv, PublishedIsGood, Publications, PathInv
  <2> QED BY <2>1, <2>2 DEF InFlight
<1>3. AirInv /\ PathInv => PathTellsTheWay
  BY <1>1, <1>2 DEF PathTellsTheWay
<1> QED BY <1>3, AirInvAlways, PathInvAlways, PTL

-----------------------------------------------------------------------------
(***************************************************************************)
(* No loops.  As long as nothing is forgotten, every relay on a path has   *)
(* the packet in its history, and so takes no other copy.                  *)
(***************************************************************************)
HasSeen(g, key) == \E j \in DOMAIN seen[g] : seen[g][j] = key

Straight(p) ==
  /\ \A i \in DOMAIN p.path : HasSeen(p.path[i], CacheKey(p))
  /\ \A i, j \in DOMAIN p.path : p.path[i] = p.path[j] => i = j

LoopInv ==
  NothingForgotten =>
    /\ \A h \in Gateways : \A f : WasIn(h, f) => Straight(f.packet)
    /\ \A e \in published : Straight(e.packet)

\* What is forgotten stays forgotten; until then the histories grow.
LEMMA ForgottenForGood ==
  ASSUME AirInv, [Next]_vars, NothingForgotten'
  PROVE  /\ NothingForgotten
         /\ \A g \in Gateways : \A key : HasSeen(g, key) => HasSeen(g, key)'
<1>a. /\ seen \in [Gateways -> Seq(CacheKeys)] /\ boot \in [Gateways -> Nat]
      /\ \A g \in Gateways : DOMAIN seen[g] = 1 .. Len(seen[g]) /\ Len(seen[g]) \in Nat
      /\ CacheSize \in Nat
  BY LenProperties, NumbersType DEF AirInv, Types
<1>1. CASE UNCHANGED <<payloadCache, seen, boot, lastTimestamp>>
  BY <1>1 DEF NothingForgotten, HasSeen
<1>2. ASSUME NEW g \in Gateways, Accept(g), boot' = boot
      PROVE  /\ NothingForgotten
             /\ \A h \in Gateways : \A key : HasSeen(h, key) => HasSeen(h, key)'
  <2>1. PICK new \in CacheKeys : seen' = [seen EXCEPT ![g] = Append(@, new)]
    BY <1>2, AcceptFacts
  <2>2. /\ Len(seen'[g]) = Len(seen[g]) + 1 /\ DOMAIN seen'[g] = 1 .. Len(seen[g]) + 1
        /\ \A i \in 1 .. Len(seen[g]) : seen'[g][i] = seen[g][i]
        /\ \A h \in Gateways \ {g} : seen'[h] = seen[h]
    BY <1>a, <2>1, AppendProperties, LenProperties
  <2>3. NothingForgotten
    BY <1>a, <1>2, <2>2 DEF NothingForgotten
  <2>4. ASSUME NEW h \in Gateways, NEW key, HasSeen(h, key)
        PROVE  HasSeen(h, key)'
    <3>1. PICK j \in 1 .. Len(seen[h]) : seen[h][j] = key
      BY <1>a, <2>4 DEF HasSeen
    <3>2. j \in DOMAIN seen'[h] /\ seen'[h][j] = key
      BY <1>a, <2>2, <3>1
    <3> QED BY <3>2 DEF HasSeen
  <2> QED BY <2>3, <2>4
<1>3. ASSUME NEW g \in Gateways, Restart(g)
      PROVE  FALSE
  <2>1. boot'[g] = boot[g] + 1
    BY <1>a, <1>3 DEF Restart
  <2> QED BY <1>a, <2>1 DEF NothingForgotten
<1> QED BY <1>1, <1>2, <1>3, CacheStep

\* Until something is forgotten, a cache refuses all that its gateway has seen.
LEMMA AcceptedIsNew ==
  ASSUME AirInv, CacheInv, NothingForgotten, NEW g \in Gateways, Accept(g)
  PROVE  ~ HasSeen(g, CacheKey(Packet(g)))
<1>1. /\ seen[g] \in Seq(CacheKeys) /\ CacheSize \in Nat \ {0}
      /\ Len(seen[g]) <= CacheSize
      /\ payloadCache[g] = LastOf(seen[g], CacheSize)
      /\ DOMAIN seen[g] = 1 .. Len(seen[g])
  BY LenProperties, NumbersType DEF AirInv, Types, CacheInv, NothingForgotten
<1>2. ~ CacheHas(payloadCache[g], CacheKey(Packet(g)))
  BY AcceptFacts
<1>3. Before(seen[g], CacheSize) = 0
  BY <1>1, BeforeProperties
<1>4. 0 + 1 = 1
  OBVIOUS
<1> QED BY <1>1, <1>2, <1>3, <1>4, HasIsRecent DEF HasSeen

LEMMA StraightWhateverEnc ==
  ASSUME NEW p \in Packets, NEW q \in Packets, q = [p EXCEPT !.enc = q.enc]
  PROVE  Straight(p) <=> Straight(q)
<1>1. q.path = p.path /\ CacheKey(q) = CacheKey(p)
  BY DEF Packets, CacheKey
<1> QED BY <1>1 DEF Straight

LEMMA StaysStraight ==
  ASSUME AirInv, [Next]_vars, NothingForgotten', NEW p \in Packets, Straight(p)
  PROVE  Straight(p)'
<1>1. \A i \in DOMAIN p.path : p.path[i] \in Gateways
  BY LenProperties, ElementOfSeq DEF Packets
<1> QED BY <1>1, ForgottenForGood DEF Straight

LEMMA NewStraight ==
  ASSUME NEW type, NEW relay, NEW id, NEW body
  PROVE  Straight(NewPacket(type, relay, id, body))'
<1>1. NewPacket(type, relay, id, body).path = <<>> /\ DOMAIN <<>> = {}
  BY DEF NewPacket
<1> QED BY <1>1 DEF Straight

LEMMA AcceptedStraight ==
  ASSUME AirInv, LoopInv, NothingForgotten, NEW g \in Gateways, Accept(g)
  PROVE  Straight(Packet(g))
<1>1. Straight(Frame(g).packet)
  BY AcceptedWasIn DEF LoopInv
<1> QED BY <1>1, AcceptedWasIn, StraightWhateverEnc

LEMMA RelayedStraight ==
  ASSUME AirInv, CacheInv, LoopInv, [Next]_vars, NothingForgotten',
         NEW g \in Gateways, Accept(g), NEW p, p = Packet(g)
  PROVE  Straight(Relayed(p, g))'
<1> DEFINE q == Relayed(p, g)
<1> DEFINE n == Len(p.path)
<1>1. /\ NothingForgotten /\ p \in Packets /\ Straight(p)
      /\ ~ HasSeen(g, CacheKey(p))
  BY ForgottenForGood, AcceptedWasIn, AcceptedStraight, AcceptedIsNew
<1>2. Straight(p)'
  BY <1>1, StaysStraight
<1>3. CacheKey(q) = CacheKey(p) /\ p.path \in Seq(Gateways) /\ CacheKey(p) \in CacheKeys
  BY <1>1, RelayedFields DEF CacheKey, CacheKeys, Packets
<1>4. CASE p.body \notin Heartbeats
  BY <1>1, <1>2, <1>3, <1>4, RelayedFields DEF Straight
<1>5. CASE p.body \in Heartbeats
  <2>1. /\ DOMAIN q.path = 1 .. n + 1 /\ DOMAIN p.path = 1 .. n /\ n \in Nat
        /\ \A i \in 1 .. n : q.path[i] = p.path[i]
        /\ q.path[n + 1] = g
    <3>1. q.path = Append(p.path, g)
      BY <1>1, <1>5, RelayedFields
    <3> HIDE DEF q
    <3> QED BY <1>3, <3>1, AppendProperties, LenProperties
  <2> HIDE DEF q, n
  <2>2. HasSeen(g, CacheKey(p))'
    <3>1. seen' = [seen EXCEPT ![g] = Append(@, CacheKey(p))] /\ seen[g] \in Seq(CacheKeys)
          /\ seen \in [Gateways -> Seq(CacheKeys)]
      BY AcceptFacts DEF AirInv, Types
    <3>2. /\ seen'[g] = Append(seen[g], CacheKey(p))
          /\ DOMAIN seen'[g] = 1 .. Len(seen[g]) + 1
          /\ seen'[g][Len(seen[g]) + 1] = CacheKey(p) /\ Len(seen[g]) \in Nat
      BY <1>3, <3>1, AppendProperties, LenProperties
    <3>3. Len(seen[g]) + 1 \in DOMAIN seen'[g]
      BY <3>2
    <3> QED BY <3>2, <3>3 DEF HasSeen
  <2>3. ASSUME NEW i \in 1 .. n + 1 PROVE HasSeen(q.path[i], CacheKey(q))'
    <3>1. i = n + 1 \/ i \in 1 .. n
      BY <2>1
    <3> QED BY <1>2, <1>3, <2>1, <2>2, <3>1 DEF Straight
  <2>4. \A i \in 1 .. n : p.path[i] # g
    BY <1>1, <2>1 DEF Straight
  <2>5. ASSUME NEW i \in 1 .. n + 1, NEW j \in 1 .. n + 1, q.path[i] = q.path[j]
        PROVE  i = j
    <3>1. (i = n + 1 \/ i \in 1 .. n) /\ (j = n + 1 \/ j \in 1 .. n)
      BY <2>1
    <3>2. CASE i \in 1 .. n /\ j \in 1 .. n
      BY <1>1, <2>1, <2>5, <3>2 DEF Straight
    <3> QED BY <2>1, <2>4, <2>5, <3>1, <3>2
  <2> QED BY <2>1, <2>3, <2>5 DEF Straight, q
<1> QED BY <1>4, <1>5

LEMMA LoopInvNext == AirInv /\ CacheInv /\ LoopInv /\ [Next]_vars => LoopInv'
<1> SUFFICES ASSUME AirInv, CacheInv, LoopInv, [Next]_vars, NothingForgotten'
             PROVE  /\ \A h \in Gateways : \A f : WasIn(h, f)' => Straight(f.packet)'
                    /\ \A e \in published' : Straight(e.packet)'
  BY DEF LoopInv
<1>a. NothingForgotten
  BY ForgottenForGood
<1>1. ASSUME NEW h \in Gateways, NEW f, NEW i \in DOMAIN inbox'[h], f = inbox'[h][i]
      PROVE  Straight(f.packet)'
  <2>1. CASE WasIn(h, f)
    <3>1. f.packet \in Packets
      BY <2>1, InboxFrames, FrameFacts DEF Frames, WasIn
    <3> QED BY <1>a, <2>1, <3>1, StaysStraight DEF LoopInv
  <2>2. ASSUME NEW g \in Gateways, NEW p \in ClearPackets, Sends(g, p), f = Seal(p, Key[g])
        PROVE  Straight(f.packet)'
    <3>1. Straight(p)'
      <4>1. CASE RelayMesh(g) /\ p = Relayed(Packet(g), g)
        BY <4>1, RelayedStraight DEF RelayMesh
      <4> QED BY <2>2, <4>1, NewStraight DEF Sends, DownlinkFor
    <3>2. /\ p \in Packets /\ f.packet \in Packets
          /\ f.packet = [p EXCEPT !.enc = f.packet.enc]
      BY <2>2, SealedFields, KeyType DEF ClearPackets
    <3>3. f.packet.path = p.path /\ CacheKey(f.packet) = CacheKey(p)
      BY <3>2 DEF Packets, CacheKey
    <3> QED BY <3>1, <3>3 DEF Straight
  <2> QED BY <1>1, <2>1, <2>2, Moves DEF Moved
<1>2. ASSUME NEW e \in published' PROVE Straight(e.packet)'
  <2>1. CASE e \in published
    <3>1. e.packet \in Packets
      BY <2>1 DEF AirInv, PublishedIsGood, Publications
    <3> QED BY <1>a, <2>1, <3>1, StaysStraight DEF LoopInv
  <2>2. ASSUME NEW g \in Gateways, NEW u \in Uplinks,
               e = Publication(g, NewPacket("Uplink", g, 0, u), 0)
        PROVE  Straight(e.packet)'
    BY <2>2, NewStraight DEF Publication
  <2>3. ASSUME NEW g \in Gateways, ProxyMesh(g), e = Publication(g, Packet(g), Position(g))
        PROVE  Straight(e.packet)'
    <3>1. e.packet = Packet(g) /\ Accept(g)
      BY <2>3 DEF Publication, ProxyMesh
    <3>2. e.packet \in Packets /\ Straight(e.packet)
      BY <1>a, <3>1, AcceptedWasIn, AcceptedStraight
    <3> QED BY <3>2, StaysStraight
  <2> QED BY <2>1, <2>2, <2>3, PublishedStep
<1> QED BY <1>1, <1>2 DEF WasIn

LEMMA LoopInvAlways == Spec => []LoopInv
<1>1. Init => LoopInv
  <2> SUFFICES ASSUME Init PROVE LoopInv
    OBVIOUS
  <2>1. \A h \in Gateways : DOMAIN inbox[h] = {}
    BY DEF Init
  <2> QED BY <2>1 DEF LoopInv, WasIn, Init
<1> QED BY <1>1, LoopInvNext, AirInvAlways, CacheInvAlways, PTL DEF Spec

(***************************************************************************)
(* No relay puts itself twice on the path of a heartbeat while no cache    *)
(* has evicted a key: the caches alone break every loop of the network.    *)
(***************************************************************************)
THEOREM PathsHaveNoLoop == Spec => []PathHasNoLoop
<1>1. LoopInv => PathHasNoLoop
  BY DEF LoopInv, PathHasNoLoop, InFlight, WasIn, Straight
<1> QED BY <1>1, LoopInvAlways, PTL

-----------------------------------------------------------------------------
(***************************************************************************)
(* The contexts of uplinks.  IdAt(c, d) is the ID that was given d uplinks *)
(* before the ID c: it is used again only after MaxUplinkId + 1 uplinks.   *)
(***************************************************************************)
IdAt(c, d) == IF d <= c THEN c - d ELSE c - d + MaxUplinkId + 1

\* The stored uplink number k of gateway g is among the last, one per ID.
Recent(g, k) == k \in DOMAIN stored[g] /\ Len(stored[g]) - k <= MaxUplinkId

IdOf(g, k) == IdAt(uplinkId[g], Len(stored[g]) - k)

\* Every recent uplink has its own ID, and its context under that ID.
ContextsKept ==
  \A g \in Gateways :
    /\ \A k \in DOMAIN stored[g] : <<g, stored[g][k]>> \in heard
    /\ \A j, k \in DOMAIN stored[g] : stored[g][j] = stored[g][k] => j = k
    /\ \A k : Recent(g, k) => uplinkContext[g][IdOf(g, k)] = stored[g][k]

\* A packet about a recent uplink of a relay names its ID.
NamesItsId(p) ==
  (p.type \in {"Uplink", "Downlink"} /\ p.relay \in Relays) =>
    /\ <<p.relay, p.body>> \in heard
    /\ \A k : Recent(p.relay, k) /\ stored[p.relay][k] = p.body
                => p.id = IdOf(p.relay, k)

ContextInv ==
  /\ ContextsKept
  /\ \A h \in Gateways : \A f : WasIn(h, f) => NamesItsId(f.packet)
  /\ \A e \in published : NamesItsId(e.packet)

LEMMA IdAtStep ==
  ASSUME NEW c \in 0 .. MaxUplinkId
  PROVE  /\ IdAt(c, 0) = c
         /\ \A d \in 0 .. MaxUplinkId : IdAt(c, d) \in 0 .. MaxUplinkId
         /\ \A d \in 1 .. MaxUplinkId : IdAt(c, d) # c
         /\ \A d \in 0 .. MaxUplinkId - 1 : IdAt(NextUplinkId(c), d + 1) = IdAt(c, d)
  BY NumbersType DEF IdAt, NextUplinkId

\* What one more uplink, heard for the first time, does to the uplinks of its relay.
LEMMA StoreNext ==
  ASSUME AirInv, ContextsKept, NEW g \in Gateways, NEW u \in Uplinks, RelayUplinkLora(g, u)
  PROVE  /\ ContextsKept'
         /\ \A k : Recent(g, k)' =>
              \/ Recent(g, k) /\ stored'[g][k] = stored[g][k] /\ IdOf(g, k)' = IdOf(g, k)
              \/ stored'[g][k] = u /\ IdOf(g, k)' = NextUplinkId(uplinkId[g])
         /\ \A h \in Gateways \ {g} : \A k :
              /\ Recent(h, k)' <=> Recent(h, k)
              /\ IdOf(h, k)' = IdOf(h, k) /\ stored'[h] = stored[h]
<1> DEFINE n == Len(stored[g])
<1> DEFINE id == NextUplinkId(uplinkId[g])
<1>a. /\ stored \in [Gateways -> Seq(Uplinks)]
      /\ uplinkId \in [Gateways -> 0 .. MaxUplinkId]
      /\ uplinkContext \in [Gateways -> [0 .. MaxUplinkId -> Uplinks \cup {NoContext}]]
      /\ MaxUplinkId \in Nat /\ n \in Nat /\ DOMAIN stored[g] = 1 .. n
  BY LenProperties, NumbersType DEF AirInv, Types
<1>b. /\ uplinkId' = [uplinkId EXCEPT ![g] = id]
      /\ uplinkContext' = [uplinkContext EXCEPT ![g][id] = u]
      /\ stored' = [stored EXCEPT ![g] = Append(@, u)]
      /\ <<g, u>> \notin heard /\ heard' = heard \cup {<<g, u>>}
  BY DEF RelayUplinkLora, Hear
<1>c. /\ id \in 0 .. MaxUplinkId /\ IdAt(id, 0) = id
      /\ \A d \in 1 .. MaxUplinkId : IdAt(id, d) # id
      /\ \A d \in 0 .. MaxUplinkId - 1 : IdAt(id, d + 1) = IdAt(uplinkId[g], d)
  BY <1>a, NextUplinkIdTyped, IdAtStep
<1>d. /\ stored'[g] = Append(stored[g], u)
      /\ Len(stored'[g]) = n + 1 /\ DOMAIN stored'[g] = 1 .. n + 1
      /\ \A k \in 1 .. n : stored'[g][k] = stored[g][k]
      /\ stored'[g][n + 1] = u
  BY <1>a, <1>b, AppendProperties, LenProperties
<1>e. uplinkId'[g] = id
  BY <1>a, <1>b
<1>f. \A h \in Gateways \ {g} : /\ stored'[h] = stored[h] /\ uplinkId'[h] = uplinkId[h]
                                /\ uplinkContext'[h] = uplinkContext[h]
  BY <1>a, <1>b
<1> HIDE DEF n, id
<1>1. ASSUME NEW k, Recent(g, k)'
      PROVE  \/ k \in 1 .. n /\ Recent(g, k) /\ IdOf(g, k)' = IdOf(g, k) /\ IdOf(g, k)' # id
             \/ k = n + 1 /\ IdOf(g, k)' = id
  <2>1. k \in 1 .. n + 1 /\ n + 1 - k <= MaxUplinkId /\ IdOf(g, k)' = IdAt(id, n + 1 - k)
    <3>1. k \in DOMAIN stored'[g] /\ Len(stored'[g]) - k <= MaxUplinkId
      BY <1>1 DEF Recent
    <3>2. IdOf(g, k)' = IdAt(uplinkId'[g], Len(stored'[g]) - k)
      BY DEF IdOf, IdAt
    <3>3. k \in 1 .. n + 1 /\ n + 1 - k <= MaxUplinkId
      BY <1>a, <1>d, <3>1
    <3>4. IdOf(g, k)' = IdAt(id, n + 1 - k)
      BY <1>a, <1>d, <1>e, <3>2, <3>3
    <3> QED BY <3>3, <3>4
  <2>2. CASE k = n + 1
    <3>1. n + 1 - k = 0
      BY <1>a, <2>2
    <3> QED BY <1>c, <2>1, <2>2, <3>1
  <2>3. CASE k \in 1 .. n
    <3>1. /\ n - k \in 0 .. MaxUplinkId - 1 /\ n + 1 - k = (n - k) + 1
          /\ n + 1 - k \in 1 .. MaxUplinkId /\ n - k <= MaxUplinkId
      BY <1>a, <2>1, <2>3
    <3>2. IdAt(id, (n - k) + 1) = IdAt(uplinkId[g], n - k) /\ IdAt(id, n + 1 - k) # id
      BY <1>c, <3>1
    <3> QED BY <1>a, <2>1, <2>3, <3>1, <3>2 DEF Recent, IdOf, n
  <2> QED BY <1>a, <2>1, <2>2, <2>3
<1>2. ASSUME NEW h \in Gateways \ {g}, NEW k
      PROVE  (Recent(h, k)' <=> Recent(h, k)) /\ IdOf(h, k)' = IdOf(h, k)
  BY <1>f DEF Recent, IdOf
<1>3. ASSUME NEW k \in DOMAIN stored'[g] PROVE <<g, stored'[g][k]>> \in heard'
  <2>1. k = n + 1 \/ k \in 1 .. n
    BY <1>a, <1>d
  <2> QED BY <1>a, <1>b, <1>d, <2>1 DEF ContextsKept
<1>4. ASSUME NEW j \in DOMAIN stored'[g], NEW k \in DOMAIN stored'[g],
             stored'[g][j] = stored'[g][k]
      PROVE  j = k
  <2>1. (j = n + 1 \/ j \in 1 .. n) /\ (k = n + 1 \/ k \in 1 .. n)
    BY <1>a, <1>d
  <2>2. \A i \in 1 .. n : stored[g][i] # u
    BY <1>a, <1>b DEF ContextsKept
  <2>3. \A i, l \in 1 .. n : stored[g][i] = stored[g][l] => i = l
    BY <1>a DEF ContextsKept
  <2>4. CASE j \in 1 .. n /\ k \in 1 .. n
    BY <1>4, <1>d, <2>3, <2>4
  <2>5. CASE j = n + 1 /\ k \in 1 .. n
    BY <1>4, <1>d, <2>2, <2>5
  <2>6. CASE j \in 1 .. n /\ k = n + 1
    BY <1>4, <1>d, <2>2, <2>6
  <2> QED BY <2>1, <2>4, <2>5, <2>6
<1>5. ASSUME NEW k, Recent(g, k)'
      PROVE  uplinkContext'[g][IdOf(g, k)'] = stored'[g][k]
  <2>1. CASE k \in 1 .. n /\ Recent(g, k) /\ IdOf(g, k)' = IdOf(g, k) /\ IdOf(g, k)' # id
    <3>1. uplinkContext[g][IdOf(g, k)] = stored[g][k]
      BY <2>1 DEF ContextsKept
    <3>2. uplinkContext'[g][IdOf(g, k)'] = uplinkContext[g][IdOf(g, k)']
      BY <1>a, <1>b, <2>1
    <3> QED BY <1>d, <2>1, <3>1, <3>2
  <2>2. CASE k = n + 1 /\ IdOf(g, k)' = id
    BY <1>a, <1>b, <1>c, <1>d, <2>2
  <2> QED BY <1>1, <1>5, <2>1, <2>2
<1>6. ContextsKept'
  <2> SUFFICES ASSUME NEW h \in Gateways
               PROVE  /\ \A k \in DOMAIN stored'[h] : <<h, stored'[h][k]>> \in heard'
                      /\ \A j, k \in DOMAIN stored'[h] : stored'[h][j] = stored'[h][k] => j = k
                      /\ \A k : Recent(h, k)' => uplinkContext'[h][IdOf(h, k)'] = stored'[h][k]
    BY DEF ContextsKept
  <2>1. CASE h = g
    BY <1>3, <1>4, <1>5, <2>1
  <2>2. CASE h # g
    BY <1>b, <1>f, <1>2, <2>2 DEF ContextsKept
  <2> QED BY <2>1, <2>2
<1> QED BY <1>1, <1>2, <1>6, <1>d, <1>f DEF id

\* The steps by what they do to the contexts.
LEMMA ContextStep ==
  ASSUME [Next]_vars
  PROVE  \/ \E g \in Gateways, u \in Uplinks : RelayUplinkLora(g, u)
         \/ \E g \in Gateways : Restart(g)
         \/ UNCHANGED <<uplinkId, uplinkContext, stored>>
  BY DEF Next, vars, contexts, dedup, commanding, serving, air, world, output,
         ProxyUplinkLora, HandleMesh, DropInvalidMic, DropSeen, ProxyMesh,
         ProxyMeshFails, BorderIgnores,
         DropOwn, UnwrapDownlink, ExecuteCommands, RejectCommands, RelayMesh,
         FinishCommands, ProxyDownlink, RelayDownlink, RetryDownlink,
         SendMeshCommand, SendEvents, Tick

LEMMA ContextsNext == AirInv /\ ContextsKept /\ [Next]_vars => ContextsKept'
<1> SUFFICES ASSUME AirInv, ContextsKept, [Next]_vars PROVE ContextsKept'
  OBVIOUS
<1>1. CASE UNCHANGED <<uplinkId, uplinkContext, stored>>
  BY <1>1, HistoriesGrow DEF ContextsKept, Recent, IdOf
<1>2. ASSUME NEW g \in Gateways, Restart(g) PROVE ContextsKept'
  <2>1. /\ stored \in [Gateways -> Seq(Uplinks)]
        /\ uplinkId \in [Gateways -> 0 .. MaxUplinkId]
        /\ uplinkContext \in [Gateways -> [0 .. MaxUplinkId -> Uplinks \cup {NoContext}]]
    BY DEF AirInv, Types
  <2>2. \A h \in Gateways \ {g} : /\ stored'[h] = stored[h] /\ uplinkId'[h] = uplinkId[h]
                                  /\ uplinkContext'[h] = uplinkContext[h]
    BY <1>2, <2>1 DEF Restart
  <2>3. DOMAIN stored'[g] = {}
    BY <1>2, <2>1 DEF Restart
  <2>4. ASSUME NEW h \in Gateways \ {g}, NEW k
        PROVE  (Recent(h, k)' <=> Recent(h, k)) /\ IdOf(h, k)' = IdOf(h, k)
    BY <2>2 DEF Recent, IdOf
  <2>5. \A k : ~ Recent(g, k)'
    BY <2>3 DEF Recent
  <2> QED BY <2>2, <2>3, <2>4, <2>5, HistoriesGrow DEF ContextsKept
<1> QED BY <1>1, <1>2, StoreNext, ContextStep

LEMMA NamesDependOn ==
  ASSUME NEW p, NEW q, q.relay = p.relay, q.body = p.body, q.id = p.id,
         NamesItsId(p), p.type \in {"Uplink", "Downlink"} \/ q.type = p.type
  PROVE  NamesItsId(q)
  BY DEF NamesItsId

\* An uplink that is stored was not heard before, so no packet is about it yet.
LEMMA NamesStay ==
  ASSUME AirInv, ContextsKept, [Next]_vars, NEW p, NamesItsId(p)
  PROVE  NamesItsId(p)'
<1> SUFFICES ASSUME p.type \in {"Uplink", "Downlink"}, p.relay \in Relays
             PROVE  /\ <<p.relay, p.body>> \in heard'
                    /\ \A k : Recent(p.relay, k)' /\ stored'[p.relay][k] = p.body
                                => p.id = IdOf(p.relay, k)'
  BY DEF NamesItsId
<1>a. /\ <<p.relay, p.body>> \in heard /\ p.relay \in Gateways
      /\ \A k : Recent(p.relay, k) /\ stored[p.relay][k] = p.body => p.id = IdOf(p.relay, k)
  BY DEF NamesItsId, Relays
<1>1. <<p.relay, p.body>> \in heard'
  BY <1>a, HistoriesGrow
<1>2. CASE UNCHANGED <<uplinkId, uplinkContext, stored>>
  BY <1>1, <1>2, <1>a DEF Recent, IdOf
<1>3. ASSUME NEW g \in Gateways, Restart(g)
      PROVE  \A k : Recent(p.relay, k)' /\ stored'[p.relay][k] = p.body
                      => p.id = IdOf(p.relay, k)'
  <2>1. /\ stored' = [stored EXCEPT ![g] = <<>>] /\ uplinkId' = [uplinkId EXCEPT ![g] = 0]
        /\ stored \in [Gateways -> Seq(Uplinks)]
        /\ uplinkId \in [Gateways -> 0 .. MaxUplinkId]
    BY <1>3 DEF Restart, AirInv, Types
  <2>2. CASE p.relay = g
    <3>1. DOMAIN stored'[g] = {}
      BY <2>1
    <3> QED BY <2>2, <3>1 DEF Recent
  <2>3. CASE p.relay # g
    <3>1. stored'[p.relay] = stored[p.relay] /\ uplinkId'[p.relay] = uplinkId[p.relay]
      BY <1>a, <2>1, <2>3
    <3> QED BY <1>a, <3>1 DEF Recent, IdOf
  <2> QED BY <2>2, <2>3
<1>4. ASSUME NEW g \in Gateways, NEW u \in Uplinks, RelayUplinkLora(g, u)
      PROVE  \A k : Recent(p.relay, k)' /\ stored'[p.relay][k] = p.body
                      => p.id = IdOf(p.relay, k)'
  <2>1. CASE p.relay = g
    <3>1. p.body # u
      BY <1>4, <1>a, <2>1 DEF RelayUplinkLora, Hear
    <3> QED BY <1>4, <1>a, <2>1, <3>1, StoreNext
  <2>2. CASE p.relay # g
    BY <1>4, <1>a, <2>2, StoreNext
  <2> QED BY <2>1, <2>2
<1> QED BY <1>1, <1>2, <1>3, <1>4, ContextStep

LEMMA NewNames ==
  ASSUME AirInv, ContextsKept, NEW g \in Gateways, NEW u \in Uplinks, RelayUplinkLora(g, u),
         NEW p, p = NewPacket("Uplink", g, NextUplinkId(uplinkId[g]), u)
  PROVE  NamesItsId(p)'
<1>1. /\ p.type = "Uplink" /\ p.relay = g /\ p.id = NextUplinkId(uplinkId[g]) /\ p.body = u
  BY DEF NewPacket
<1>2. <<g, u>> \notin heard /\ <<g, u>> \in heard'
  BY DEF RelayUplinkLora, Hear
<1>3. \A k : ~ (Recent(g, k) /\ stored[g][k] = u)
  BY <1>2 DEF ContextsKept, Recent
<1>4. \A k : Recent(g, k)' /\ stored'[g][k] = u => IdOf(g, k)' = NextUplinkId(uplinkId[g])
  BY <1>3, StoreNext
<1> QED BY <1>1, <1>2, <1>4 DEF NamesItsId

LEMMA AcceptedNames ==
  ASSUME AirInv, ContextInv, NEW g \in Gateways, Accept(g)
  PROVE  NamesItsId(Packet(g))
<1>1. NamesItsId(Frame(g).packet)
  BY AcceptedWasIn DEF ContextInv
<1>2. /\ Packet(g).relay = Frame(g).packet.relay /\ Packet(g).body = Frame(g).packet.body
      /\ Packet(g).id = Frame(g).packet.id /\ Packet(g).type = Frame(g).packet.type
  BY AcceptedWasIn DEF Packets
<1> QED BY <1>1, <1>2, NamesDependOn

LEMMA SentNames ==
  ASSUME AirInv, ContextInv, [Next]_vars, NEW g \in Gateways, NEW p, Sends(g, p)
  PROVE  NamesItsId(p)'
<1>a. ContextsKept
  BY DEF ContextInv
<1>1. ASSUME NEW e \in published, IsUplink(e), p = DownlinkFor(e)
      PROVE  NamesItsId(p)
  <2>1. /\ p.relay = e.packet.relay /\ p.body = e.packet.body /\ p.id = e.packet.id
        /\ e.packet.type = "Uplink" /\ NamesItsId(e.packet)
    BY <1>1 DEF DownlinkFor, NewPacket, IsUplink, ContextInv
  <2> QED BY <2>1, NamesDependOn
<1>2. ASSUME NEW q, p = Relayed(q, g), q = Packet(g), RelayMesh(g)
      PROVE  NamesItsId(p)
  <2>1. q \in Packets /\ NamesItsId(q)
    BY <1>2, AcceptedWasIn, AcceptedNames DEF RelayMesh
  <2> QED BY <1>2, <2>1, RelayedFields, NamesDependOn
<1>3. ASSUME NEW type \in {"Command", "Event"}, NEW relay, NEW id, NEW body,
             p = NewPacket(type, relay, id, body)
      PROVE  NamesItsId(p)
  BY <1>3 DEF NewPacket, NamesItsId
<1> QED BY <1>a, <1>1, <1>2, <1>3, NewNames, NamesStay DEF Sends

LEMMA ContextInvNext == AirInv /\ ContextInv /\ [Next]_vars => ContextInv'
<1> SUFFICES ASSUME AirInv, ContextInv, [Next]_vars PROVE ContextInv'
  OBVIOUS
<1>a. ContextsKept /\ ContextsKept'
  BY ContextsNext DEF ContextInv
<1>1. ASSUME NEW h \in Gateways, NEW f, NEW i \in DOMAIN inbox'[h], f = inbox'[h][i]
      PROVE  NamesItsId(f.packet)'
  <2>1. CASE WasIn(h, f)
    BY <1>a, <2>1, NamesStay DEF ContextInv
  <2>2. ASSUME NEW g \in Gateways, NEW p \in ClearPackets, Sends(g, p), f = Seal(p, Key[g])
        PROVE  NamesItsId(f.packet)'
    <3>1. NamesItsId(p)'
      BY <2>2, SentNames
    <3>2. /\ p \in Packets /\ f.packet \in Packets
          /\ f.packet = [p EXCEPT !.enc = f.packet.enc]
      BY <2>2, SealedFields, KeyType DEF ClearPackets
    <3>3. /\ f.packet.relay = p.relay /\ f.packet.body = p.body
          /\ f.packet.id = p.id /\ f.packet.type = p.type
      BY <3>2 DEF Packets
    <3> QED BY <3>1, <3>3 DEF NamesItsId
  <2> QED BY <1>1, <2>1, <2>2, Moves DEF Moved
<1>2. ASSUME NEW e \in published' PROVE NamesItsId(e.packet)'
  <2>1. CASE e \in published
    BY <1>a, <2>1, NamesStay DEF ContextInv
  <2>2. ASSUME NEW g \in Gateways, NEW u \in Uplinks, ProxyUplinkLora(g, u),
               e = Publication(g, NewPacket("Uplink", g, 0, u), 0)
        PROVE  NamesItsId(e.packet)'
    <3>1. e.packet.relay = g /\ g \notin Relays
      BY <2>2 DEF Publication, NewPacket, ProxyUplinkLora, Relays
    <3> QED BY <3>1 DEF NamesItsId
  <2>3. ASSUME NEW g \in Gateways, ProxyMesh(g), e = Publication(g, Packet(g), Position(g))
        PROVE  NamesItsId(e.packet)'
    <3>1. e.packet = Packet(g) /\ Accept(g)
      BY <2>3 DEF Publication, ProxyMesh
    <3>2. NamesItsId(e.packet)
      BY <3>1, AcceptedNames
    <3> QED BY <1>a, <3>2, NamesStay
  <2> QED BY <2>1, <2>2, <2>3, PublishedStep
<1> QED BY <1>a, <1>1, <1>2 DEF ContextInv, WasIn

LEMMA ContextInvAlways == Spec => []ContextInv
<1>1. Init => ContextInv
  <2> SUFFICES ASSUME Init PROVE ContextInv
    OBVIOUS
  <2>1. \A h \in Gateways : DOMAIN inbox[h] = {} /\ DOMAIN stored[h] = {}
    BY DEF Init
  <2> QED BY <2>1 DEF ContextInv, ContextsKept, Recent, WasIn, Init
<1> QED BY <1>1, ContextInvNext, AirInvAlways, PTL DEF Spec

LEMMA ContextUsedNext ==
  AirInv /\ ContextInv /\ DownlinkUsesItsContext /\ [Next]_vars => DownlinkUsesItsContext'
<1> SUFFICES ASSUME AirInv, ContextInv, DownlinkUsesItsContext, [Next]_vars
             PROVE  DownlinkUsesItsContext'
  OBVIOUS
<1>1. CASE radioed' = radioed
  BY <1>1 DEF DownlinkUsesItsContext
<1>2. ASSUME NEW g \in Gateways, UnwrapDownlink(g), radioed' # radioed
      PROVE  DownlinkUsesItsContext'
  <2> DEFINE p == Packet(g)
  <2> DEFINE ctx == uplinkContext[g][p.id]
  <2>1. /\ Accept(g) /\ g \in Relays /\ p.type = "Downlink" /\ p.relay = g
        /\ radioed' = radioed \cup {Radio(g, p, Position(g), ctx)}
    BY <1>2 DEF UnwrapDownlink, ForThisRelay
  <2>2. NamesItsId(p) /\ ContextsKept
    BY <2>1, AcceptedNames DEF ContextInv
  <2>3. ASSUME InWindow(g, p.body) PROVE ctx = p.body
    <3>1. PICK k : Recent(g, k) /\ stored[g][k] = p.body
      BY <2>3 DEF InWindow, Recent
    <3>2. p.id = IdOf(g, k)
      BY <2>1, <2>2, <3>1 DEF NamesItsId
    <3> QED BY <2>2, <3>1, <3>2 DEF ContextsKept
  <2> HIDE DEF p, ctx
  <2>4. LET r == Radio(g, p, Position(g), ctx)
        IN  r.recent = InWindow(g, p.body) /\ r.ctx = ctx /\ r.packet = p
    BY DEF Radio
  <2> QED BY <2>1, <2>3, <2>4 DEF DownlinkUsesItsContext
<1>3. ASSUME NEW e \in published, ProxyDownlink(e),
             radioed' = radioed \cup {Radio(e.at, e.packet, 0, e.packet.body)}
      PROVE  DownlinkUsesItsContext'
  BY <1>3 DEF Radio, DownlinkUsesItsContext
<1> QED BY <1>1, <1>2, <1>3, RadioStep

(***************************************************************************)
(* A downlink is sent with the context of the uplink it answers, however   *)
(* late it comes and whatever was stored since, as long as the relay has   *)
(* not used the uplink's ID again: for every number of uplink IDs.         *)
(***************************************************************************)
THEOREM DownlinksUseTheirContext == Spec => []DownlinkUsesItsContext
<1>1. Init => DownlinkUsesItsContext
  BY DEF Init, DownlinkUsesItsContext
<1> QED BY <1>1, ContextUsedNext, AirInvAlways, ContextInvAlways, PTL DEF Spec

-----------------------------------------------------------------------------
(***************************************************************************)
(* The service.  A downlink on the air answers what the server answered.   *)
(***************************************************************************)
WasAnswered(p) ==
  p.type = "Downlink" =>
    \E e \in answered : e.packet.relay = p.relay /\ e.packet.body = p.body

AnsweredInv == \A h \in Gateways : \A f : WasIn(h, f) => WasAnswered(f.packet)

LEMMA AcceptedAnswered ==
  ASSUME AirInv, AnsweredInv, NEW g \in Gateways, Accept(g)
  PROVE  WasAnswered(Packet(g))
<1>1. WasAnswered(Frame(g).packet)
  BY AcceptedWasIn DEF AnsweredInv
<1>2. /\ Packet(g).relay = Frame(g).packet.relay /\ Packet(g).body = Frame(g).packet.body
      /\ Packet(g).type = Frame(g).packet.type
  BY AcceptedWasIn DEF Packets
<1> QED BY <1>1, <1>2 DEF WasAnswered

LEMMA SentAnswered ==
  ASSUME AirInv, AnsweredInv, [Next]_vars, NEW g \in Gateways, NEW p, Sends(g, p)
  PROVE  WasAnswered(p)'
<1>1. ASSUME NEW e \in answered', p = DownlinkFor(e)
      PROVE  WasAnswered(p)'
  BY <1>1 DEF DownlinkFor, NewPacket, WasAnswered
<1>2. ASSUME NEW q, p = Relayed(q, g), q = Packet(g), RelayMesh(g)
      PROVE  WasAnswered(p)'
  <2>1. q \in Packets /\ WasAnswered(q)
    BY <1>2, AcceptedWasIn, AcceptedAnswered DEF RelayMesh
  <2> QED BY <1>2, <2>1, RelayedFields, HistoriesGrow DEF WasAnswered
<1>3. ASSUME NEW type \in {"Uplink", "Command", "Event"}, NEW relay, NEW id, NEW body,
             p = NewPacket(type, relay, id, body)
      PROVE  WasAnswered(p)'
  BY <1>3 DEF NewPacket, WasAnswered
<1> QED BY <1>1, <1>2, <1>3 DEF Sends

LEMMA AnsweredInvNext == AirInv /\ AnsweredInv /\ [Next]_vars => AnsweredInv'
<1> SUFFICES ASSUME AirInv, AnsweredInv, [Next]_vars PROVE AnsweredInv'
  OBVIOUS
<1>1. ASSUME NEW h \in Gateways, NEW f, NEW i \in DOMAIN inbox'[h], f = inbox'[h][i]
      PROVE  WasAnswered(f.packet)'
  <2>1. CASE WasIn(h, f)
    BY <2>1, HistoriesGrow DEF AnsweredInv, WasAnswered
  <2>2. ASSUME NEW g \in Gateways, NEW p \in ClearPackets, Sends(g, p), f = Seal(p, Key[g])
        PROVE  WasAnswered(f.packet)'
    <3>1. WasAnswered(p)'
      BY <2>2, SentAnswered
    <3>2. /\ p \in Packets /\ f.packet \in Packets
          /\ f.packet = [p EXCEPT !.enc = f.packet.enc]
      BY <2>2, SealedFields, KeyType DEF ClearPackets
    <3>3. f.packet.relay = p.relay /\ f.packet.body = p.body /\ f.packet.type = p.type
      BY <3>2 DEF Packets
    <3> QED BY <3>1, <3>3 DEF WasAnswered
  <2> QED BY <1>1, <2>1, <2>2, Moves DEF Moved
<1> QED BY <1>1 DEF AnsweredInv, WasIn

LEMMA AnsweredInvAlways == Spec => []AnsweredInv
<1>1. Init => AnsweredInv
  <2> SUFFICES ASSUME Init PROVE AnsweredInv
    OBVIOUS
  <2>1. \A h \in Gateways : DOMAIN inbox[h] = {}
    BY DEF Init
  <2> QED BY <2>1 DEF AnsweredInv, WasIn
<1> QED BY <1>1, AnsweredInvNext, AirInvAlways, PTL DEF Spec

(***************************************************************************)
(* The refinement mapping, part by part.                                   *)
(***************************************************************************)
About(e) == <<e.at, e.packet.relay, e.packet.body>>

LEMMA OneMoreAbout ==
  ASSUME NEW S, NEW r
  PROVE  {<<e.at, e.packet.relay, e.packet.body>> : e \in S \cup {r}}
           = {<<e.at, e.packet.relay, e.packet.body>> : e \in S} \cup {About(r)}
  BY DEF About

LEMMA ServiceStutters ==
  ASSUME UNCHANGED <<heard, reported, issued, executed, published, answered, radioed>>
  PROVE  UNCHANGED Service!vars
  BY DEF Service!vars

LEMMA ServiceInit == Init => Service!Init
  BY DEF Init, Service!Init

\* What the server was told, and what it answers, is in place.
LEMMA PublishedFacts ==
  ASSUME AirInv, NEW e \in published
  PROVE  /\ e.at \in Gateways /\ e.packet.relay \in Gateways
         /\ Key[e.packet.relay] = Key[e.at]
         /\ IsUplink(e) => /\ e.packet.body \in Uplinks
                           /\ <<e.packet.relay, e.packet.body>> \in heard
<1>1. /\ e.packet \in Good[Key[e.at]] /\ Key[e.at] \in Keys /\ e.at \in Gateways
      /\ e.packet.type \in {"Uplink", "Event"}
  BY KeyType DEF AirInv, PublishedIsGood, Publications
<1>2. Genuine(e.packet, Key[e.at]) /\ e.packet.relay \in Gateways
  BY <1>1, GoodFields
<1> QED BY <1>1, <1>2 DEF Genuine, IsUplink

(***************************************************************************)
(* Every step of the mesh is a step of the service, or none.               *)
(***************************************************************************)
LEMMA ServiceNext ==
  ASSUME AirInv, AnsweredInv, [Next]_vars
  PROVE  [Service!Next]_(Service!vars)
<1> DEFINE Goal == Service!Next \/ UNCHANGED Service!vars
<1> SUFFICES Goal
  OBVIOUS
<1>a. ASSUME UNCHANGED <<heard, reported, issued, executed, published, answered, radioed>>
      PROVE  Goal
  BY <1>a, ServiceStutters
<1>b. ASSUME NEW h \in Gateways, NEW g \in Gateways, NEW u \in Uplinks,
             Service!Send(h, g, u)
      PROVE  Goal
  BY <1>b DEF Service!Next
<1>c. ASSUME NEW h \in Gateways, NEW g \in Gateways,
             NEW y \in Uplinks \cup (EventSets \cup Heartbeats) \cup Commands,
             Service!Publish(h, g, y)
      PROVE  Goal
  BY <1>c DEF Service!Next
<1>1. ASSUME NEW g \in Gateways, NEW u \in Uplinks, ProxyUplinkLora(g, u) PROVE Goal
  <2> DEFINE e == Publication(g, NewPacket("Uplink", g, 0, u), 0)
  <2>1. /\ g \in Borders /\ heard' = heard \cup {<<g, u>>} /\ published' = published \cup {e}
        /\ UNCHANGED <<reported, issued, executed, answered, radioed>>
    BY <1>1 DEF ProxyUplinkLora, Hear, commanding, serving
  <2>2. About(e) = <<g, g, u>>
    BY DEF About, Publication, NewPacket
  <2> HIDE DEF e
  <2>3. Service!HearAtBorder(g, u)
    BY <2>1, <2>2, OneMoreAbout DEF Service!HearAtBorder
  <2> QED BY <2>3 DEF Service!Next
<1>2. ASSUME NEW g \in Gateways, NEW u \in Uplinks, RelayUplinkLora(g, u) PROVE Goal
  <2>1. /\ g \notin Borders /\ heard' = heard \cup {<<g, u>>}
        /\ UNCHANGED <<reported, issued, executed, published, answered, radioed>>
    BY <1>2 DEF RelayUplinkLora, Hear, Relays, commanding, serving, output
  <2>2. Service!HearAtRelay(g, u)
    BY <2>1 DEF Service!HearAtRelay
  <2> QED BY <2>2 DEF Service!Next
<1>3. ASSUME NEW g \in Gateways, ProxyMesh(g) PROVE Goal
  <2> DEFINE p == Packet(g)
  <2> DEFINE e == Publication(g, p, Position(g))
  <2>1. /\ g \in Borders /\ Accept(g) /\ p.type \in {"Uplink", "Event"}
        /\ published' = published \cup {e}
        /\ UNCHANGED <<heard, reported, issued, executed, answered, radioed>>
    BY <1>3 DEF ProxyMesh, commanding, serving, world
  <2>2. /\ p \in Good[Key[g]] /\ Key[g] \in Keys
    BY <2>1, AcceptFacts, KeyType
  <2>3. Genuine(p, Key[g]) /\ p.relay \in Gateways
    BY <2>2, GoodFields
  <2>4. About(e) = <<g, p.relay, p.body>>
    BY DEF About, Publication
  <2> HIDE DEF p, e
  <2>5. /\ Key[p.relay] = Key[g]
        /\ \/ <<p.relay, p.body>> \in heard /\ p.body \in Uplinks
           \/ <<p.relay, p.body>> \in reported
           \/ \E x \in executed : x.at = p.relay /\ x.body = p.body
    BY <2>1, <2>3 DEF Genuine
  <2>6. /\ <<p.relay, p.body>> \in heard \cup reported \cup {<<x.at, x.body>> : x \in executed}
        /\ p.body \in Uplinks \cup (EventSets \cup Heartbeats) \cup Commands
    BY <2>5 DEF AirInv, Types
  <2>7. PICK r, y : r = p.relay /\ y = p.body
    OBVIOUS
  <2>8. Service!Publish(g, r, y)
    BY <2>1, <2>4, <2>5, <2>6, <2>7, OneMoreAbout DEF Service!Publish, Service!SameNetwork
  <2> HIDE DEF Goal
  <2> QED BY <2>3, <2>6, <2>7, <2>8, <1>c
<1>4. ASSUME NEW g \in Gateways, UnwrapDownlink(g) PROVE Goal
  <2> DEFINE p == Packet(g)
  <2>1. /\ Accept(g) /\ p.type = "Downlink" /\ p.relay = g
        /\ UNCHANGED <<heard, reported, issued, executed, published, answered>>
    BY <1>4 DEF UnwrapDownlink, ForThisRelay, commanding, serving, world
  <2>2. CASE radioed' = radioed
    BY <1>a, <2>1, <2>2
  <2>3. ASSUME NEW r, radioed' = radioed \cup {r}, r.at = g, r.packet = p PROVE Goal
    <3>1. PICK e \in answered : e.packet.relay = g /\ e.packet.body = p.body
      BY <2>1, AcceptedAnswered DEF WasAnswered
    <3>2. e \in published
      BY DEF AirInv, Types
    <3>3. p.type = "Downlink" /\ p \in Good[Key[g]] /\ Key[g] \in Keys
      BY <2>1, AcceptFacts, KeyType
    <3>4. p.body \in Uplinks
      BY <3>3, GoodFields DEF Genuine
    <3>5. e.at \in Gateways /\ Key[g] = Key[e.at]
      BY <3>1, <3>2, PublishedFacts
    <3> HIDE DEF p
    <3>6. {<<d.at, d.packet.body>> : d \in radioed'}
            = {<<d.at, d.packet.body>> : d \in radioed} \cup {<<g, p.body>>}
      BY <2>3
    <3>7. <<e.at, g, p.body>> \in {<<d.at, d.packet.relay, d.packet.body>> : d \in answered}
      BY <3>1
    <3>8. PICK h, u : h = e.at /\ u = p.body
      OBVIOUS
    <3>9. Service!Send(h, g, u)
      BY <2>1, <3>5, <3>6, <3>7, <3>8 DEF Service!Send, Service!SameNetwork
    <3> HIDE DEF Goal
    <3> QED BY <3>4, <3>5, <3>8, <3>9, <1>b
  <2>4. \/ radioed' = radioed
        \/ radioed' = radioed \cup {Radio(g, p, Position(g), uplinkContext[g][p.id])}
    BY <1>4 DEF UnwrapDownlink
  <2> QED BY <2>2, <2>3, <2>4 DEF Radio
<1>5. ASSUME NEW g \in Gateways, ExecuteCommands(g) PROVE Goal
  <2> DEFINE x == [at |-> g, boot |-> boot[g], pos |-> Position(g),
                   ts |-> Packet(g).id, body |-> Packet(g).body]
  <2>1. /\ executed' = executed \cup {x} /\ Accept(g) /\ Packet(g).type = "Command"
        /\ ForThisRelay(g, Packet(g))
        /\ UNCHANGED <<heard, reported, issued, published, answered, radioed>>
    BY <1>5 DEF ExecuteCommands, serving, world, output
  <2>2. PICK i \in issued : /\ i.relay = g /\ i.body = Packet(g).body
                            /\ Key[i.by] = Key[g] /\ i.body \in Commands
    BY <2>1, CommandFacts
  <2>3. x.at = g /\ x.body = i.body /\ i.by \in Gateways
    BY <2>2, BordersAreGateways DEF AirInv, Types
  <2> HIDE DEF x
  <2>4. {<<y.at, y.body>> : y \in executed'}
          = {<<y.at, y.body>> : y \in executed} \cup {<<g, i.body>>}
    BY <2>1, <2>3
  <2>5. <<i.by, g, i.body>> \in {<<j.by, j.relay, j.body>> : j \in issued}
    BY <2>2
  <2>6. Service!Execute(i.by, g, i.body)
    BY <2>1, <2>2, <2>4, <2>5 DEF Service!Execute, Service!SameNetwork
  <2> QED BY <2>2, <2>3, <2>6 DEF Service!Next
<1>6. ASSUME NEW e \in published, ProxyDownlink(e) PROVE Goal
  <2> DEFINE r == Radio(e.at, e.packet, 0, e.packet.body)
  <2>1. /\ e.packet.relay = e.at /\ IsUplink(e)
        /\ answered' = answered \cup {e} /\ radioed' = radioed \cup {r}
        /\ UNCHANGED <<heard, reported, issued, executed, published>>
    BY <1>6 DEF ProxyDownlink, HasMeshContext, commanding, world
  <2>2. r.at = e.at /\ r.packet = e.packet
    BY DEF Radio
  <2> HIDE DEF r
  <2>3. {<<d.at, d.packet.body>> : d \in radioed'}
          = {<<d.at, d.packet.body>> : d \in radioed} \cup {<<e.at, e.packet.body>>}
    BY <2>1, <2>2
  <2>4. /\ e.at \in Gateways /\ e.packet.body \in Uplinks
        /\ <<e.at, e.packet.body>> \in heard
    BY <2>1, PublishedFacts
  <2>5. About(e) = <<e.at, e.at, e.packet.body>>
    BY <2>1 DEF About
  <2>6. <<e.at, e.at, e.packet.body>> \in {<<d.at, d.packet.relay, d.packet.body>> : d \in published}
    BY <2>1
  <2>7. Service!Answer(e.at, e.at, e.packet.body)
    BY <2>1, <2>3, <2>4, <2>5, <2>6, OneMoreAbout DEF Service!Answer
  <2> QED BY <2>4, <2>7 DEF Service!Next
<1>7. ASSUME NEW e \in published, RelayDownlink(e) PROVE Goal
  <2>1. /\ e.packet.relay # e.at /\ IsUplink(e)
        /\ answered' = answered \cup {e}
        /\ UNCHANGED <<heard, reported, issued, executed, published, radioed>>
    BY <1>7 DEF RelayDownlink, HasMeshContext, commanding, world, output
  <2>2. /\ e.at \in Gateways /\ e.packet.relay \in Gateways /\ e.packet.body \in Uplinks
        /\ <<e.packet.relay, e.packet.body>> \in heard
    BY <2>1, PublishedFacts
  <2>3. About(e) = <<e.at, e.packet.relay, e.packet.body>>
    BY DEF About
  <2>4. <<e.at, e.packet.relay, e.packet.body>>
          \in {<<d.at, d.packet.relay, d.packet.body>> : d \in published}
    OBVIOUS
  <2>5. Service!Answer(e.at, e.packet.relay, e.packet.body)
    BY <2>1, <2>2, <2>3, <2>4, OneMoreAbout DEF Service!Answer
  <2> QED BY <2>2, <2>5 DEF Service!Next
<1>8. ASSUME NEW g \in Borders, NEW r \in Relays, NEW c \in Commands,
             SendMeshCommand(g, r, c)
      PROVE  Goal
  <2> DEFINE j == [by |-> g, relay |-> r, ts |-> now, body |-> c]
  <2>1. /\ issued' = issued \cup {j} /\ j.by = g /\ j.relay = r /\ j.body = c
        /\ UNCHANGED <<heard, reported, executed, published, answered, radioed>>
    BY <1>8 DEF SendMeshCommand, commanding, world, output
  <2> HIDE DEF j
  <2>2. {<<i.by, i.relay, i.body>> : i \in issued'}
          = {<<i.by, i.relay, i.body>> : i \in issued} \cup {<<g, r, c>>}
    BY <2>1
  <2>3. g \in Gateways /\ r \in Gateways /\ r \notin Borders
    BY BordersAreGateways DEF Relays
  <2>4. Service!Issue(g, r, c)
    BY <2>1, <2>2, <2>3 DEF Service!Issue
  <2> QED BY <2>3, <2>4 DEF Service!Next
<1>9. ASSUME NEW g \in Relays, NEW e \in EventSets \cup Heartbeats, SendEvents(g, e)
      PROVE  Goal
  <2>1. /\ reported' = reported \cup {<<g, e>>} /\ g \in Gateways /\ g \notin Borders
        /\ UNCHANGED <<heard, issued, executed, published, answered, radioed>>
    BY <1>9 DEF SendEvents, Relays, commanding, serving, output
  <2>2. Service!Report(g, e)
    BY <2>1 DEF Service!Report
  <2> QED BY <2>1, <2>2 DEF Service!Next
<1> HIDE DEF Goal
<1> QED BY <1>a, <1>1, <1>2, <1>3, <1>4, <1>5, <1>6, <1>7, <1>8, <1>9
        DEF Next, vars, contexts, dedup, commanding, serving, air, world, output,
            HandleMesh, DropInvalidMic, DropSeen, ProxyMeshFails, BorderIgnores, DropOwn,
            RejectCommands, RelayMesh, FinishCommands, RetryDownlink, Tick, Restart

(***************************************************************************)
(* The mesh keeps its promises from end to end: a detail of the mesh that  *)
(* is not in MeshService can cost a packet or repeat it, never change what *)
(* is said, by whom or to whom.                                            *)
(***************************************************************************)
THEOREM MeshImplementsService == Spec => ServiceSpec
  BY ServiceInit, ServiceNext, AirInvAlways, AnsweredInvAlways, PTL
     DEF Spec, ServiceSpec, Service!Spec

-----------------------------------------------------------------------------
(***************************************************************************)
(* The packets that a border gateway refuses.  First, the rests of numbers *)
(* by which IDs are given out.                                             *)
(***************************************************************************)
LEMMA SameRest ==
  ASSUME NEW n \in Nat \ {0}, NEW j \in Nat, NEW k \in Nat, j < k, j % n = k % n
  PROVE  k - j >= n
<1> DEFINE a == j \div n
<1> DEFINE b == k \div n
<1>1. j = n * a + (j % n) /\ k = n * b + (k % n) /\ a \in Nat /\ b \in Nat /\ j % n \in Nat
  BY SMT
<1>2. k - j = n * b - n * a
  BY <1>1
<1> HIDE DEF a, b
<1>3. n * b - n * a = n * (b - a)
  BY <1>1, SMT
<1>4. b - a > 0
  BY <1>1, <1>2, <1>3, SMT
<1>5. n * (b - a) >= n
  BY <1>1, <1>4, SMT
<1> QED BY <1>2, <1>3, <1>5

LEMMA NextRest ==
  ASSUME NEW n \in Nat \ {0}, NEW k \in Nat
  PROVE  /\ (k + 1) % n = IF k % n = n - 1 THEN 0 ELSE (k % n) + 1
         /\ k % n \in 0 .. n - 1
<1> DEFINE a == k \div n
<1>1. k = n * a + (k % n) /\ a \in Nat /\ k % n \in 0 .. n - 1
  BY SMT
<1> HIDE DEF a
<1>2. ASSUME NEW q \in Nat, NEW r \in 0 .. n - 1 PROVE (n * q + r) % n = r
  BY SMT
<1>3. CASE k % n = n - 1
  <2>1. k + 1 = n * (a + 1) + 0
    BY <1>1, <1>3, SMT
  <2>2. (n * (a + 1) + 0) % n = 0
    BY <1>1, <1>2
  <2> QED BY <1>1, <1>3, <2>1, <2>2, Zenon
<1>4. CASE k % n # n - 1
  <2>1. k + 1 = n * a + ((k % n) + 1) /\ (k % n) + 1 \in 0 .. n - 1
    BY <1>1, <1>4, SMT
  <2>2. (n * a + ((k % n) + 1)) % n = (k % n) + 1
    BY <1>1, <1>2, <2>1
  <2> QED BY <1>1, <1>4, <2>1, <2>2, Zenon
<1> QED BY <1>3, <1>4

\* Behind every key it has accepted there is the packet that it published for it, or
\* could not unwrap.
SeenHandled ==
  \A g \in Borders : \A j \in DOMAIN seen[g] :
    seen[g][j].type \in {"Uplink", "Event"} =>
      \E e \in published \cup unmapped :
        e.at = g /\ e.boot = boot[g] /\ e.pos = j /\ CacheKey(e.packet) = seen[g][j]

\* The steps by what they do to the caches of border gateways.
LEMMA BorderStep ==
  ASSUME [Next]_vars
  PROVE  \/ UNCHANGED <<seen, boot>>
         \/ \E g \in Gateways :
              ProxyMesh(g) \/ ProxyMeshFails(g) \/ BorderIgnores(g) \/ Restart(g)
         \/ \E g \in Relays : Accept(g) /\ boot' = boot
<1>1. ASSUME NEW g \in Gateways, HandleMesh(g)
      PROVE  \/ UNCHANGED <<seen, boot>>
             \/ ProxyMesh(g) \/ ProxyMeshFails(g) \/ BorderIgnores(g)
             \/ g \in Relays /\ Accept(g) /\ boot' = boot
  <2>1. CASE DropInvalidMic(g) \/ DropSeen(g)
    BY <2>1 DEF DropInvalidMic, DropSeen, dedup, world
  <2>2. CASE DropOwn(g) \/ UnwrapDownlink(g) \/ RelayMesh(g)
    BY <2>2 DEF DropOwn, UnwrapDownlink, RelayMesh, world
  <2>3. CASE ExecuteCommands(g) \/ RejectCommands(g)
    BY <2>3 DEF ExecuteCommands, RejectCommands, world
  <2> QED BY <1>1, <2>1, <2>2, <2>3 DEF HandleMesh
<1>2. ASSUME NEW g \in Gateways, NEW u \in Uplinks,
             ProxyUplinkLora(g, u) \/ RelayUplinkLora(g, u)
      PROVE  UNCHANGED <<seen, boot>>
  BY <1>2 DEF ProxyUplinkLora, RelayUplinkLora, dedup
<1>3. ASSUME NEW g \in Gateways, FinishCommands(g) PROVE UNCHANGED <<seen, boot>>
  BY <1>3 DEF FinishCommands, dedup, world
<1>4. ASSUME NEW e \in published, ProxyDownlink(e) \/ RelayDownlink(e)
      PROVE  UNCHANGED <<seen, boot>>
  BY <1>4 DEF ProxyDownlink, RelayDownlink, dedup, world
<1>5. ASSUME NEW g \in Borders, RetryDownlink(g) PROVE UNCHANGED <<seen, boot>>
  BY <1>5 DEF RetryDownlink, dedup, world
<1>6. ASSUME NEW g \in Borders, NEW r \in Relays, NEW c \in Commands, SendMeshCommand(g, r, c)
      PROVE  UNCHANGED <<seen, boot>>
  BY <1>6 DEF SendMeshCommand, dedup, world
<1>7. ASSUME NEW g \in Relays, NEW e \in EventSets \cup Heartbeats, SendEvents(g, e)
      PROVE  UNCHANGED <<seen, boot>>
  BY <1>7 DEF SendEvents, dedup
<1>8. CASE Tick \/ UNCHANGED vars
  BY <1>8 DEF Tick, vars, dedup, world
<1> QED BY <1>1, <1>2, <1>3, <1>4, <1>5, <1>6, <1>7, <1>8 DEF Next

LEMMA SeenHandledNext == AirInv /\ SeenHandled /\ [Next]_vars => SeenHandled'
<1> SUFFICES ASSUME AirInv, SeenHandled, [Next]_vars PROVE SeenHandled'
  OBVIOUS
<1>a. /\ seen \in [Gateways -> Seq(CacheKeys)] /\ boot \in [Gateways -> Nat]
      /\ published \cup unmapped \subseteq published' \cup unmapped'
      /\ Borders \subseteq Gateways
  BY HistoriesGrow, BordersAreGateways DEF AirInv, Types
<1>1. CASE UNCHANGED <<seen, boot>>
  BY <1>a, <1>1 DEF SeenHandled
<1>2. ASSUME NEW g \in Gateways, Restart(g) PROVE SeenHandled'
  <2>1. seen' = [seen EXCEPT ![g] = <<>>] /\ boot' = [boot EXCEPT ![g] = @ + 1]
    BY <1>2 DEF Restart
  <2>2. /\ DOMAIN seen'[g] = {}
        /\ \A h \in Gateways \ {g} : seen'[h] = seen[h] /\ boot'[h] = boot[h]
    BY <1>a, <2>1
  <2> SUFFICES ASSUME NEW h \in Borders, h # g
               PROVE  \A j \in DOMAIN seen'[h] :
                        seen'[h][j].type \in {"Uplink", "Event"} =>
                          \E e \in published' \cup unmapped' :
                            /\ e.at = h /\ e.boot = boot'[h] /\ e.pos = j
                            /\ CacheKey(e.packet) = seen'[h][j]
    BY <2>2 DEF SeenHandled
  <2>3. seen'[h] = seen[h] /\ boot'[h] = boot[h]
    BY <1>a, <2>2
  <2> QED BY <1>a, <2>3 DEF SeenHandled
<1>3. ASSUME NEW g \in Gateways, Accept(g), boot' = boot,
             ProxyMesh(g) \/ ProxyMeshFails(g) \/ BorderIgnores(g) \/ g \in Relays
      PROVE  SeenHandled'
  <2> DEFINE key == CacheKey(Packet(g))
  <2>1. /\ key \in CacheKeys /\ key.type = Packet(g).type
        /\ seen' = [seen EXCEPT ![g] = Append(@, key)]
    BY <1>3, AcceptFacts DEF CacheKey
  <2>2. /\ DOMAIN seen'[g] = 1 .. Len(seen[g]) + 1 /\ DOMAIN seen[g] = 1 .. Len(seen[g])
        /\ \A j \in 1 .. Len(seen[g]) : seen'[g][j] = seen[g][j]
        /\ seen'[g][Len(seen[g]) + 1] = key /\ Len(seen[g]) \in Nat
    BY <1>a, <2>1, AppendProperties, LenProperties
  <2>3. \A h \in Gateways \ {g} : seen'[h] = seen[h]
    BY <1>a, <2>1
  <2>4. ASSUME g \in Borders, key.type \in {"Uplink", "Event"}
        PROVE  \E e \in published' \cup unmapped' : /\ e.at = g /\ e.boot = boot[g]
                                     /\ e.pos = Len(seen[g]) + 1 /\ CacheKey(e.packet) = key
    <3>1. ProxyMesh(g) \/ ProxyMeshFails(g)
      BY <1>3, <2>1, <2>4 DEF Relays, BorderIgnores
    <3>2. Publication(g, Packet(g), Position(g)) \in published' \cup unmapped'
      BY <3>1 DEF ProxyMesh, ProxyMeshFails
    <3> QED BY <3>2 DEF Publication, Position
  <2> HIDE DEF key
  <2>5. ASSUME NEW h \in Borders, NEW j \in DOMAIN seen'[h],
               seen'[h][j].type \in {"Uplink", "Event"}
        PROVE  \E e \in published' \cup unmapped' :
                 /\ e.at = h /\ e.boot = boot'[h] /\ e.pos = j
                 /\ CacheKey(e.packet) = seen'[h][j]
    <3>1. CASE h # g
      BY <1>3, <1>a, <2>3, <2>5, <3>1 DEF SeenHandled
    <3>2. CASE h = g /\ j \in 1 .. Len(seen[g])
      <4>1. seen'[h][j] = seen[h][j] /\ j \in DOMAIN seen[h] /\ boot'[h] = boot[h]
        BY <1>3, <2>2, <3>2
      <4>2. PICK e \in published \cup unmapped :
              e.at = h /\ e.boot = boot[h] /\ e.pos = j /\ CacheKey(e.packet) = seen[h][j]
        BY <2>5, <4>1 DEF SeenHandled
      <4> QED BY <1>a, <4>1, <4>2
    <3>3. CASE h = g /\ j = Len(seen[g]) + 1
      BY <1>3, <2>2, <2>4, <2>5, <3>3
    <3> QED BY <2>2, <3>1, <3>2, <3>3
  <2> QED BY <2>5 DEF SeenHandled
<1>4. ASSUME NEW g \in Gateways, ProxyMesh(g) \/ ProxyMeshFails(g) \/ BorderIgnores(g)
      PROVE  Accept(g) /\ boot' = boot
  BY <1>4 DEF ProxyMesh, ProxyMeshFails, BorderIgnores, world
<1>5. Relays \subseteq Gateways
  BY DEF Relays
<1> QED BY <1>1, <1>2, <1>3, <1>4, <1>5, BorderStep

LEMMA SeenHandledAlways == Spec => []SeenHandled
<1>1. Init => SeenHandled
  BY BordersAreGateways DEF Init, SeenHandled
<1> QED BY <1>1, SeenHandledNext, AirInvAlways, PTL DEF Spec

(***************************************************************************)
(* Until its relay restarts, the ID of an uplink is its number among the   *)
(* uplinks of the relay, up to whole rounds of IDs.                        *)
(***************************************************************************)
CountsUp ==
  \A g \in Relays : boot[g] = 0 => uplinkId[g] = Len(stored[g]) % (MaxUplinkId + 1)

Numbered(p) ==
  p.type = "Uplink" =>
    /\ p.relay \in Relays
    /\ boot[p.relay] = 0 =>
         \E k \in DOMAIN stored[p.relay] :
           stored[p.relay][k] = p.body /\ p.id = k % (MaxUplinkId + 1)

NumberInv ==
  /\ CountsUp
  /\ \A h \in Gateways : \A f : WasIn(h, f) => Numbered(f.packet)
  /\ \A e \in published \cup unmapped : e.packet.relay \in Relays => Numbered(e.packet)

\* What one more uplink adds to the uplinks of its relay.
LEMMA StoreAppends ==
  ASSUME AirInv, NEW g \in Gateways, NEW u \in Uplinks, RelayUplinkLora(g, u)
  PROVE  /\ boot' = boot /\ uplinkId'[g] = NextUplinkId(uplinkId[g])
         /\ Len(stored[g]) \in Nat /\ Len(stored'[g]) = Len(stored[g]) + 1
         /\ DOMAIN stored[g] = 1 .. Len(stored[g])
         /\ DOMAIN stored'[g] = 1 .. Len(stored[g]) + 1
         /\ stored'[g][Len(stored[g]) + 1] = u
         /\ \A k \in DOMAIN stored[g] : stored'[g][k] = stored[g][k]
         /\ \A h \in Gateways \ {g} : stored'[h] = stored[h] /\ uplinkId'[h] = uplinkId[h]
<1>1. /\ stored \in [Gateways -> Seq(Uplinks)]
      /\ uplinkId \in [Gateways -> 0 .. MaxUplinkId]
  BY DEF AirInv, Types
<1>2. /\ uplinkId' = [uplinkId EXCEPT ![g] = NextUplinkId(uplinkId[g])]
      /\ stored' = [stored EXCEPT ![g] = Append(@, u)] /\ boot' = boot
  BY DEF RelayUplinkLora
<1> QED BY <1>1, <1>2, AppendProperties, LenProperties

\* The uplinks of a relay that has not restarted are never forgotten.
LEMMA StoredStays ==
  ASSUME AirInv, [Next]_vars, NEW r \in Gateways, boot'[r] = 0
  PROVE  /\ boot[r] = 0 /\ DOMAIN stored[r] \subseteq DOMAIN stored'[r]
         /\ \A k \in DOMAIN stored[r] : stored'[r][k] = stored[r][k]
<1>a. /\ boot \in [Gateways -> Nat] /\ stored \in [Gateways -> Seq(Uplinks)]
  BY DEF AirInv, Types
<1>1. ASSUME NEW g \in Gateways, Restart(g)
      PROVE  g # r /\ boot'[r] = boot[r] /\ stored'[r] = stored[r]
  <2>1. boot' = [boot EXCEPT ![g] = @ + 1] /\ stored' = [stored EXCEPT ![g] = <<>>]
    BY <1>1 DEF Restart
  <2>2. boot[g] \in Nat /\ boot'[g] = boot[g] + 1
    BY <1>a, <2>1
  <2> QED BY <1>a, <2>1, <2>2
<1>2. boot'[r] = boot[r]
  BY <1>1, CacheStep
<1>3. ASSUME NEW g \in Gateways, NEW u \in Uplinks, RelayUplinkLora(g, u)
      PROVE  /\ DOMAIN stored[r] \subseteq DOMAIN stored'[r]
             /\ \A k \in DOMAIN stored[r] : stored'[r][k] = stored[r][k]
  <2>1. CASE g = r
    BY <1>3, <2>1, StoreAppends
  <2>2. CASE g # r
    BY <1>3, <2>2, StoreAppends
  <2> QED BY <2>1, <2>2
<1> QED BY <1>1, <1>2, <1>3, ContextStep

LEMMA CountsUpNext == AirInv /\ CountsUp /\ [Next]_vars => CountsUp'
<1> SUFFICES ASSUME AirInv, CountsUp, [Next]_vars, NEW r \in Relays, boot'[r] = 0
             PROVE  uplinkId'[r] = Len(stored'[r]) % (MaxUplinkId + 1)
  BY DEF CountsUp
<1>a. /\ r \in Gateways /\ boot[r] = 0 /\ MaxUplinkId + 1 \in Nat \ {0} /\ MaxUplinkId \in Nat
      /\ uplinkId[r] = Len(stored[r]) % (MaxUplinkId + 1)
  BY StoredStays, NumbersType DEF CountsUp, Relays
<1>1. CASE UNCHANGED <<uplinkId, uplinkContext, stored>>
  BY <1>1, <1>a
<1>2. ASSUME NEW g \in Gateways, Restart(g)
      PROVE  uplinkId'[r] = uplinkId[r] /\ stored'[r] = stored[r]
  <2>1. /\ boot' = [boot EXCEPT ![g] = @ + 1] /\ stored' = [stored EXCEPT ![g] = <<>>]
        /\ uplinkId' = [uplinkId EXCEPT ![g] = 0]
        /\ boot \in [Gateways -> Nat] /\ stored \in [Gateways -> Seq(Uplinks)]
        /\ uplinkId \in [Gateways -> 0 .. MaxUplinkId]
    BY <1>2 DEF Restart, AirInv, Types
  <2>2. g # r
    <3>1. boot'[g] = boot[g] + 1 /\ boot[g] \in Nat
      BY <2>1
    <3> QED BY <3>1
  <2> QED BY <1>a, <2>1, <2>2
<1>3. ASSUME NEW g \in Gateways, NEW u \in Uplinks, RelayUplinkLora(g, u)
      PROVE  uplinkId'[r] = Len(stored'[r]) % (MaxUplinkId + 1)
  <2>1. CASE g = r
    <3> DEFINE n == Len(stored[r])
    <3>1. /\ uplinkId'[r] = NextUplinkId(uplinkId[r]) /\ n \in Nat /\ Len(stored'[r]) = n + 1
      BY <1>3, <2>1, StoreAppends
    <3>2. /\ (n + 1) % (MaxUplinkId + 1)
               = IF n % (MaxUplinkId + 1) = (MaxUplinkId + 1) - 1
                 THEN 0 ELSE (n % (MaxUplinkId + 1)) + 1
          /\ n % (MaxUplinkId + 1) \in 0 .. (MaxUplinkId + 1) - 1
      BY <1>a, <3>1, NextRest
    <3> HIDE DEF n
    <3>3. NextUplinkId(n % (MaxUplinkId + 1)) = (n + 1) % (MaxUplinkId + 1)
      BY <1>a, <3>2 DEF NextUplinkId
    <3> QED BY <1>a, <3>1, <3>3 DEF n
  <2>2. CASE g # r
    BY <1>3, <1>a, <2>2, StoreAppends
  <2> QED BY <2>1, <2>2
<1> QED BY <1>1, <1>2, <1>3, <1>a, ContextStep

LEMMA NumberedStays ==
  ASSUME AirInv, [Next]_vars, NEW p, Numbered(p)
  PROVE  Numbered(p)'
<1> SUFFICES ASSUME p.type = "Uplink", p.relay \in Relays, boot'[p.relay] = 0
             PROVE  \E k \in DOMAIN stored'[p.relay] :
                      stored'[p.relay][k] = p.body /\ p.id = k % (MaxUplinkId + 1)
  BY DEF Numbered
<1> DEFINE r == p.relay
<1>1. r \in Gateways
  BY DEF Relays
<1> HIDE DEF r
<1>2. /\ boot[r] = 0 /\ DOMAIN stored[r] \subseteq DOMAIN stored'[r]
      /\ \A k \in DOMAIN stored[r] : stored'[r][k] = stored[r][k]
  BY <1>1, StoredStays DEF r
<1> QED BY <1>2 DEF Numbered, r

LEMMA NumberedDependsOn ==
  ASSUME NEW p, NEW q, q.relay = p.relay, q.body = p.body, q.id = p.id, q.type = p.type,
         Numbered(p)
  PROVE  Numbered(q)
  BY DEF Numbered

LEMMA NewNumbered ==
  ASSUME AirInv, CountsUp, [Next]_vars, NEW g \in Gateways, NEW u \in Uplinks,
         RelayUplinkLora(g, u), NEW p, p = NewPacket("Uplink", g, NextUplinkId(uplinkId[g]), u)
  PROVE  Numbered(p)'
<1>1. /\ p.relay = g /\ p.id = NextUplinkId(uplinkId[g]) /\ p.body = u /\ g \in Relays
  BY DEF NewPacket, RelayUplinkLora
<1>2. /\ uplinkId'[g] = NextUplinkId(uplinkId[g])
      /\ Len(stored'[g]) \in DOMAIN stored'[g] /\ stored'[g][Len(stored'[g])] = u
  BY StoreAppends
<1>3. boot'[g] = 0 => uplinkId'[g] = Len(stored'[g]) % (MaxUplinkId + 1)
  BY <1>1, CountsUpNext DEF CountsUp
<1> QED BY <1>1, <1>2, <1>3 DEF Numbered

\* The frame that a gateway takes, and what it says when it is decrypted.
LEMMA TakenSays ==
  ASSUME AirInv, NEW g \in Gateways, Arrived(g)
  PROVE  /\ WasIn(g, Frame(g)) /\ Packet(g).type = Frame(g).packet.type
         /\ Packet(g).relay = Frame(g).packet.relay /\ Packet(g).id = Frame(g).packet.id
         /\ Packet(g).body = Frame(g).packet.body
         /\ CacheKey(Packet(g)) = CacheKey(Frame(g).packet)
<1>1. inbox[g] \in Seq(FramesOf(Good)) /\ inbox[g] # <<>>
  BY DEF AirInv, AirIsGood, Arrived
<1>2. Frame(g) = inbox[g][1] /\ 1 \in DOMAIN inbox[g]
  <2>1. DOMAIN inbox[g] = 1 .. Len(inbox[g]) /\ Len(inbox[g]) \in Nat /\ Len(inbox[g]) # 0
    BY <1>1, LenProperties, EmptySeq
  <2>2. Frame(g) = inbox[g][1]
    BY <1>1 DEF Frame
  <2> QED BY <2>1, <2>2
<1>3. WasIn(g, Frame(g)) /\ Frame(g) \in Frames
  BY <1>2, InboxFrames, FrameFacts DEF WasIn
<1>4. Frame(g).packet \in Packets
  BY <1>3 DEF Frames
<1> QED BY <1>3, <1>4 DEF Packet, Decrypt, Packets, CacheKey

LEMMA AcceptedNumbered ==
  ASSUME AirInv, NumberInv, NEW g \in Gateways, Arrived(g)
  PROVE  Numbered(Packet(g))
  BY TakenSays, NumberedDependsOn DEF NumberInv

LEMMA SentNumbered ==
  ASSUME AirInv, NumberInv, [Next]_vars, NEW g \in Gateways, NEW p, Sends(g, p)
  PROVE  Numbered(p)'
<1>a. CountsUp
  BY DEF NumberInv
<1>1. ASSUME NEW type \in {"Downlink", "Command", "Event"}, NEW relay, NEW id, NEW body,
             p = NewPacket(type, relay, id, body)
      PROVE  Numbered(p)'
  BY <1>1 DEF NewPacket, Numbered
<1>2. ASSUME NEW e \in published, p = DownlinkFor(e) PROVE Numbered(p)'
  BY <1>1, <1>2 DEF DownlinkFor
<1>3. ASSUME NEW q, p = Relayed(q, g), q = Packet(g), RelayMesh(g)
      PROVE  Numbered(p)
  <2>1. Accept(g) /\ Arrived(g)
    BY <1>3 DEF RelayMesh, Accept, Verified
  <2>2. q \in Packets /\ Numbered(q)
    BY <1>3, <2>1, AcceptedWasIn, AcceptedNumbered
  <2> QED BY <1>3, <2>2, RelayedFields, NumberedDependsOn
<1> QED BY <1>a, <1>1, <1>2, <1>3, NewNumbered, NumberedStays DEF Sends

LEMMA NumberInvNext == AirInv /\ NumberInv /\ [Next]_vars => NumberInv'
<1> SUFFICES ASSUME AirInv, NumberInv, [Next]_vars PROVE NumberInv'
  OBVIOUS
<1>a. CountsUp'
  BY CountsUpNext DEF NumberInv
<1>1. ASSUME NEW h \in Gateways, NEW f, NEW i \in DOMAIN inbox'[h], f = inbox'[h][i]
      PROVE  Numbered(f.packet)'
  <2>1. CASE WasIn(h, f)
    BY <2>1, NumberedStays DEF NumberInv
  <2>2. ASSUME NEW g \in Gateways, NEW p \in ClearPackets, Sends(g, p), f = Seal(p, Key[g])
        PROVE  Numbered(f.packet)'
    <3>1. Numbered(p)'
      BY <2>2, SentNumbered
    <3>2. /\ p \in Packets /\ f.packet \in Packets
          /\ f.packet = [p EXCEPT !.enc = f.packet.enc]
      BY <2>2, SealedFields, KeyType DEF ClearPackets
    <3>3. /\ f.packet.relay = p.relay /\ f.packet.body = p.body
          /\ f.packet.id = p.id /\ f.packet.type = p.type
      BY <3>2 DEF Packets
    <3> QED BY <3>1, <3>3 DEF Numbered
  <2> QED BY <1>1, <2>1, <2>2, Moves DEF Moved
<1>2. ASSUME NEW e \in published' \cup unmapped', e.packet.relay \in Relays
      PROVE  Numbered(e.packet)'
  <2>1. CASE e \in published \cup unmapped
    BY <1>2, <2>1, NumberedStays DEF NumberInv
  <2>2. ASSUME NEW g \in Gateways, NEW u \in Uplinks, ProxyUplinkLora(g, u),
               e = Publication(g, NewPacket("Uplink", g, 0, u), 0)
        PROVE  FALSE
    BY <1>2, <2>2 DEF Publication, NewPacket, ProxyUplinkLora, Relays
  <2>3. ASSUME NEW g \in Gateways, ProxyMesh(g) \/ ProxyMeshFails(g),
               e = Publication(g, Packet(g), Position(g))
        PROVE  Numbered(e.packet)'
    <3>1. e.packet = Packet(g) /\ Arrived(g)
      BY <2>3 DEF Publication, ProxyMesh, ProxyMeshFails, Accept, Verified
    <3>2. Numbered(e.packet)
      BY <3>1, AcceptedNumbered
    <3> QED BY <3>2, NumberedStays
  <2> QED BY <2>1, <2>2, <2>3, PublishedStep, UnmappedStep
<1> QED BY <1>a, <1>1, <1>2 DEF NumberInv, WasIn

LEMMA NumberInvAlways == Spec => []NumberInv
<1>1. Init => NumberInv
  <2> SUFFICES ASSUME Init PROVE NumberInv
    OBVIOUS
  <2>1. /\ \A h \in Gateways : DOMAIN inbox[h] = {}
        /\ published = {} /\ unmapped = {}
    BY DEF Init
  <2>2. CountsUp
    <3>1. \A g \in Relays : uplinkId[g] = 0 /\ stored[g] = <<>>
      BY DEF Init, Relays
    <3>2. 0 % (MaxUplinkId + 1) = 0
      BY NumbersType
    <3>3. Len(<<>>) = 0
      BY EmptySeq
    <3> QED BY <3>1, <3>2, <3>3 DEF CountsUp
  <2> QED BY <2>1, <2>2 DEF NumberInv, WasIn
<1> QED BY <1>1, NumberInvNext, AirInvAlways, PTL DEF Spec

(***************************************************************************)
(* A refused packet has the key of one of the last CacheSize packets.      *)
(***************************************************************************)
LEMMA RefusedIsRemembered ==
  ASSUME AirInv, CacheInv, SeenHandled, NEW g \in Borders, DropSeen(g),
         Packet(g).type \in {"Uplink", "Event"}
  PROVE  \E e \in published \cup unmapped :
           e.at = g /\ CacheKey(e.packet) = CacheKey(Packet(g)) /\ Remembered(e)
<1> DEFINE key == CacheKey(Packet(g))
<1>a. /\ g \in Gateways /\ seen[g] \in Seq(CacheKeys) /\ CacheSize \in Nat \ {0}
      /\ payloadCache[g] = LastOf(seen[g], CacheSize)
  BY BordersAreGateways, NumbersType DEF AirInv, Types, CacheInv
<1>1. Arrived(g) /\ CacheHas(payloadCache[g], key) /\ key.type = Packet(g).type
  BY <1>a, TakenSays DEF DropSeen, Verified, CacheKey
<1> HIDE DEF key
<1>2. PICK j \in Before(seen[g], CacheSize) + 1 .. Len(seen[g]) : seen[g][j] = key
  BY <1>a, <1>1, HasIsRecent
<1>3. /\ DOMAIN seen[g] = 1 .. Len(seen[g]) /\ Len(seen[g]) \in Nat
      /\ Before(seen[g], CacheSize) \in Nat
      /\ Len(seen[g]) <= CacheSize => Before(seen[g], CacheSize) = 0
      /\ Len(seen[g]) >= CacheSize => Before(seen[g], CacheSize) = Len(seen[g]) - CacheSize
  BY <1>a, BeforeProperties, LenProperties
<1>4. j \in DOMAIN seen[g] /\ Len(seen[g]) - j < CacheSize
  BY <1>a, <1>2, <1>3
<1>5. PICK e \in published \cup unmapped : e.at = g /\ e.boot = boot[g] /\ e.pos = j
                             /\ CacheKey(e.packet) = seen[g][j]
  BY <1>1, <1>2, <1>4 DEF SeenHandled
<1> QED BY <1>2, <1>4, <1>5 DEF Remembered, key

LEMMA RefusedStep ==
  AirInv /\ CacheInv /\ SeenHandled /\ NumberInv /\ UnmappedInv
    => [\A g \in Borders :
          DropSeen(g) /\ Packet(g).type = "Uplink" =>
            \E e \in published \cup unmapped :
              /\ e.at = g /\ CacheKey(e.packet) = CacheKey(Packet(g)) /\ Remembered(e)
              /\ e \in published \/ ~ Unwraps(g, e.packet)
              /\ \/ e.packet.body = Packet(g).body
                 \/ ReusesId(Packet(g).relay, e.packet.body, Packet(g).body)]_vars
<1> SUFFICES ASSUME AirInv, CacheInv, SeenHandled, NumberInv, UnmappedInv,
                    NEW g \in Borders, DropSeen(g), Packet(g).type = "Uplink"
             PROVE  \E e \in published \cup unmapped :
                      /\ e.at = g /\ CacheKey(e.packet) = CacheKey(Packet(g)) /\ Remembered(e)
                      /\ e \in published \/ ~ Unwraps(g, e.packet)
                      /\ \/ e.packet.body = Packet(g).body
                         \/ ReusesId(Packet(g).relay, e.packet.body, Packet(g).body)
  OBVIOUS
<1>1. PICK e \in published \cup unmapped :
        e.at = g /\ CacheKey(e.packet) = CacheKey(Packet(g)) /\ Remembered(e)
  BY RefusedIsRemembered
<1> DEFINE p == Packet(g)
<1> DEFINE r == p.relay
<1>2. Numbered(p) /\ r \in Relays /\ r \in Gateways
  BY AcceptedNumbered, BordersAreGateways DEF DropSeen, Verified, Numbered, Relays
<1>3. e.packet.type = "Uplink" /\ e.packet.relay = r /\ e.packet.id = p.id
  BY <1>1 DEF CacheKey
<1>4. Numbered(e.packet)
  BY <1>2, <1>3 DEF NumberInv
<1> HIDE DEF p, r
<1>5. ASSUME e.packet.body # p.body, ~ (boot[r] > 0)
      PROVE  ReusesId(r, e.packet.body, p.body)
  <2>1. boot[r] = 0
    BY <1>2, <1>5 DEF AirInv, Types
  <2>2. PICK j \in DOMAIN stored[r] :
          stored[r][j] = e.packet.body /\ e.packet.id = j % (MaxUplinkId + 1)
    BY <1>3, <1>4, <2>1 DEF Numbered
  <2>3. PICK k \in DOMAIN stored[r] : stored[r][k] = p.body /\ p.id = k % (MaxUplinkId + 1)
    BY <1>2, <2>1 DEF Numbered, p, r
  <2>4. /\ j \in Nat /\ k \in Nat /\ j # k
        /\ MaxUplinkId + 1 \in Nat \ {0} /\ MaxUplinkId \in Nat
    <3>1. stored[r] \in Seq(Uplinks)
      BY <1>2 DEF AirInv, Types, r
    <3>2. DOMAIN stored[r] = 1 .. Len(stored[r]) /\ Len(stored[r]) \in Nat
      BY <3>1, LenProperties
    <3>3. j \in Nat /\ k \in Nat
      BY <3>2
    <3> QED BY <1>5, <2>2, <2>3, <3>3, NumbersType
  <2>5. j - k > MaxUplinkId \/ k - j > MaxUplinkId
    <3> DEFINE n == MaxUplinkId + 1
    <3>a. j % n = k % n /\ n \in Nat \ {0} /\ n > MaxUplinkId
      <4>1. j % n = k % n
        BY <1>3, <2>2, <2>3, Zenon
      <4> QED BY <2>4, <4>1
    <3> HIDE DEF n
    <3>1. CASE j < k
      <4>1. k - j >= n
        BY <2>4, <3>a, <3>1, SameRest
      <4> QED BY <2>4, <3>a, <4>1
    <3>2. CASE k < j
      <4>1. j - k >= n
        BY <2>4, <3>a, <3>2, SameRest
      <4> QED BY <2>4, <3>a, <4>1
    <3> QED BY <2>4, <3>1, <3>2
  <2> QED BY <2>2, <2>3, <2>5 DEF ReusesId
<1>6. e \in published \/ ~ Unwraps(g, e.packet)
  BY <1>1 DEF UnmappedInv
<1> QED BY <1>1, <1>5, <1>6 DEF ReusesId, p, r

(***************************************************************************)
(* The cache of a border gateway costs an uplink only when its ID is in    *)
(* use a second time while the gateway remembers the first one; any other  *)
(* that it refuses it has published, or could not unwrap.                  *)
(***************************************************************************)
THEOREM RefusedUplinksAreHandled == Spec => RefusedUplinkWasHandled
  BY RefusedStep, AirInvAlways, CacheInvAlways, SeenHandledAlways, NumberInvAlways,
     UnmappedInvAlways, PTL
     DEF RefusedUplinkWasHandled

(***************************************************************************)
(* Of uplinks and events alike: what a border gateway refuses has the type,*)
(* the relay and the uplink ID, or the second, of a packet that it         *)
(* accepted itself since it started, among the last CacheSize of them      *)
(* ("it means we have already seen the packet", mesh.rs:53), and that one  *)
(* was published, or it was an uplink that its mappings could not unwrap   *)
(* (mesh.rs:226-227): what is refused reached the server, but for these.   *)
(***************************************************************************)
RefusedSharesItsKey ==
  [][\A g \in Borders :
       DropSeen(g) /\ Packet(g).type \in {"Uplink", "Event"} =>
         \E e \in published \cup unmapped :
           /\ e.at = g /\ CacheKey(e.packet) = CacheKey(Packet(g)) /\ Remembered(e)
           /\ e \in published \/ (Packet(g).type = "Uplink" /\ ~ Unwraps(g, e.packet))]_vars

THEOREM RefusedPacketsShareTheirKey == Spec => RefusedSharesItsKey
<1>1. ASSUME AirInv, CacheInv, SeenHandled, UnmappedInv, NEW g \in Borders, DropSeen(g),
             Packet(g).type \in {"Uplink", "Event"}
      PROVE  \E e \in published \cup unmapped :
               /\ e.at = g /\ CacheKey(e.packet) = CacheKey(Packet(g)) /\ Remembered(e)
               /\ e \in published \/ (Packet(g).type = "Uplink" /\ ~ Unwraps(g, e.packet))
  <2>1. PICK e \in published \cup unmapped :
          e.at = g /\ CacheKey(e.packet) = CacheKey(Packet(g)) /\ Remembered(e)
    BY <1>1, RefusedIsRemembered
  <2>2. e.packet.type = Packet(g).type
    BY <2>1 DEF CacheKey
  <2>3. e \in unmapped => e.packet.type = "Uplink" /\ ~ Unwraps(g, e.packet)
    BY <1>1, <2>1 DEF UnmappedInv
  <2> QED BY <2>1, <2>2, <2>3
<1>2. AirInv /\ CacheInv /\ SeenHandled /\ UnmappedInv =>
        [\A g \in Borders :
           DropSeen(g) /\ Packet(g).type \in {"Uplink", "Event"} =>
             \E e \in published \cup unmapped :
               /\ e.at = g /\ CacheKey(e.packet) = CacheKey(Packet(g)) /\ Remembered(e)
               /\ e \in published
                  \/ (Packet(g).type = "Uplink" /\ ~ Unwraps(g, e.packet))]_vars
  BY <1>1
<1> QED BY <1>2, AirInvAlways, CacheInvAlways, SeenHandledAlways, UnmappedInvAlways, PTL
        DEF RefusedSharesItsKey
=============================================================================
