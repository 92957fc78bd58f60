------------------------------ MODULE AirProofs ------------------------------
(***************************************************************************)
(* Theorems about Air.  The bytes on the air are always those of the       *)
(* packet of the first gateway, with some hop count: that is the invariant *)
(* the others follow from, and it needs of the codec that a packet read    *)
(* and written anew has the same bytes (CodecProofs), and of the search of *)
(* the TX power that the index is one of the table (TxPowerProofs).  For   *)
(* the reports the invariant and its steps are in CodecProofs.             *)
(***************************************************************************)
EXTENDS Air, CodecProofs, TxPowerProofs

-----------------------------------------------------------------------------
(***************************************************************************)
(* The mappings.  An index is found in a list that has the entry, and it   *)
(* is an entry again, unless the index was cut to its eight bits.          *)
(***************************************************************************)
LEMMA FirstIndex ==
  ASSUME NEW S, NEW list \in Seq(S), NEW x, IsListed(list, x)
  PROVE  IndexOf(list, x) \in 1 .. Len(list) /\ list[IndexOf(list, x)] = x
<1> DEFINE T == {k \in 1 .. Len(list) : list[k] = x}
<1>1. Len(list) \in Nat /\ DOMAIN list = 1 .. Len(list)
  BY LenProperties
<1>2. T # {} /\ T \subseteq Nat
  BY <1>1 DEF IsListed
<1>3. PICK k \in T : \A j \in T : ~ (<<j, k>> \in OpToRel(<, Nat))
  BY <1>2, NatLessThanWellFounded, WFMin
<1>4. \A j \in T : ~ (j < k)
  BY <1>2, <1>3 DEF OpToRel
<1>5. \A j \in 1 .. k - 1 : list[j] # x
  BY <1>1, <1>4
<1> QED BY <1>1, <1>3, <1>5 DEF IndexOf

LEMMA EntryAtIndex ==
  ASSUME NEW S, NEW list \in Seq(S), NEW x, IsListed(list, x)
  PROVE  /\ (IndexOf(list, x) - 1) % 256 \in Byte
         /\ Entry(list, (IndexOf(list, x) - 1) % 256) = x \/ IndexOf(list, x) > 256
<1> DEFINE k == IndexOf(list, x)
<1>1. k \in 1 .. Len(list) /\ list[k] = x /\ Len(list) \in Nat
  BY FirstIndex, LenProperties
<1> HIDE DEF k
<1>2. (k - 1) % 256 \in 0 .. 255 /\ (k <= 256 => (k - 1) % 256 = k - 1)
  BY <1>1, SMT
<1>3. k <= 256 => Entry(list, (k - 1) % 256) = x
  BY <1>1, <1>2 DEF Entry
<1> QED BY <1>1, <1>2, <1>3 DEF Byte, k

-----------------------------------------------------------------------------
LEMMA DrIndex ==
  ASSUME NEW m, HasDr(m)
  PROVE  /\ ModulationToDr(m) \in Nat
         /\ Entry(DataRates, ModulationToDr(m)) = m \/ IndexOf(DataRates, m) > 256
<1>1. DataRates \in Seq(Modulations) /\ IsListed(DataRates, m)
  BY MappingsAreLists DEF HasDr
<1>2. /\ ModulationToDr(m) \in Byte
      /\ Entry(DataRates, ModulationToDr(m)) = m \/ IndexOf(DataRates, m) > 256
  BY <1>1, EntryAtIndex DEF ModulationToDr
<1> QED BY <1>2 DEF Byte

LEMMA ChanIndex ==
  ASSUME NEW f, IsListed(Channels, f)
  PROVE  /\ FrequencyToChan(f) \in Byte
         /\ Entry(Channels, FrequencyToChan(f)) = f \/ IndexOf(Channels, f) > 256
  BY MappingsAreLists, EntryAtIndex DEF FrequencyToChan

-----------------------------------------------------------------------------
\* The casts.
LEMMA CutTo16 ==
  \A k \in Int : k % 65536 \in Int /\ (0 <= k /\ k < 65536 => k % 65536 = k)
  BY SMT

LEMMA RssiIsInt == \A n \in Int : AsI16(n) \in Int
  BY CutTo16, SMT DEF AsI16

LEMMA RssiCast ==
  ASSUME NEW n \in Int, -32768 <= n, n <= 32767
  PROVE  AsI16(n) = n
<1>1. n + 32768 \in Int /\ 0 <= n + 32768 /\ n + 32768 < 65536
  BY SMT
<1>2. (n + 32768) % 65536 = n + 32768
  BY <1>1, CutTo16, SMT
<1> QED BY <1>2, SMT DEF AsI16

LEMMA SnrIsInt == \A q \in Int : SnrAsI8(q) \in Int
  BY SMT DEF SnrAsI8

LEMMA SnrCast ==
  ASSUME NEW q \in Int
  PROVE  SnrFits(SnrAsI8(q)) => 4 * SnrAsI8(q) - q \in -3 .. 3
  BY SMT DEF SnrAsI8, SnrFits

LEMMA SecondsCast ==
  ASSUME NEW n \in Nat
  PROVE  /\ SecondsAsU8(n) \in Nat
         /\ SecondsAsU8(n) \in 1 .. 16 => SecondsAsU8(n) = n \/ n >= 257
  BY SMT DEF SecondsAsU8

LEMMA UplinkPacketType ==
  ASSUME NEW u \in Heard, HasDr(u.modulation), IsListed(Channels, u.frequency)
  PROVE  UplinkPacket(u) \in UplinkPackets
<1>1. u.uplink_id \in Nat /\ u.rssi \in Int /\ u.snr \in Int
  BY HeardAreUplinks
<1>2. ModulationToDr(u.modulation) \in Nat /\ FrequencyToChan(u.frequency) \in Byte
  BY DrIndex, ChanIndex
<1>3. AsI16(u.rssi) \in Int /\ SnrAsI8(u.snr) \in Int
  BY <1>1, RssiIsInt, SnrIsInt
<1> QED BY <1>1, <1>2, <1>3 DEF UplinkPacket, UplinkPackets, UplinkMetadata

LEMMA DownlinkPacketType ==
  ASSUME NEW d \in Asked, HasDr(d.modulation), out \in Nat, out # None
  PROVE  DownlinkPacket(d) \in DownlinkPackets
<1>1. d.uplink_id \in Nat /\ d.seconds \in Nat /\ d.frequency \in Frequency
  BY AskedAreDownlinks
<1>2. ModulationToDr(d.modulation) \in Nat
  BY DrIndex
<1>3. out - 1 \in Nat /\ SecondsAsU8(d.seconds) \in Nat
  BY <1>1, SecondsCast DEF None
<1> QED BY <1>1, <1>2, <1>3 DEF DownlinkPacket, DownlinkPackets, DownlinkMetadata
-----------------------------------------------------------------------------
(***************************************************************************)
(* The invariant: what is on the air is what the first gateway wrote, with *)
(* some hop count.                                                         *)
(***************************************************************************)
OnAir(p) == PacketFits(p) /\ \E h \in 1 .. 8 : frame = Written([p EXCEPT !.hop = h])

UplinkOnAir ==
  trip = "uplink" /\ frame # Nothing =>
    /\ asked \in Heard /\ HasDr(asked.modulation) /\ IsListed(Channels, asked.frequency)
    /\ OnAir(UplinkPacket(asked))

DownlinkOnAir ==
  trip = "downlink" /\ frame # Nothing =>
    /\ asked \in Asked /\ HasDr(asked.modulation) /\ Done /\ out # None
    /\ OnAir(DownlinkPacket(asked))

Asking ==
  /\ trip \in {"uplink", "downlink", "report"}
  /\ asked = Nothing => frame = Nothing /\ got = Nothing
  /\ trip = "report" => frame = Nothing
  /\ trip = "downlink" => IInv /\ (asked # Nothing => Done)

Results == UplinkAsHeard /\ DownlinkAsAsked /\ WindowAsAsked /\ FrequencyAsAsked

AirInv == Asking /\ UplinkOnAir /\ DownlinkOnAir /\ Results

LEMMA HopTwice ==
  ASSUME NEW p \in Packets, NEW k, NEW h
  PROVE  [[p EXCEPT !.hop = k] EXCEPT !.hop = h] = [p EXCEPT !.hop = h]
<1>1. p = [type |-> p.type, hop |-> p.hop, metadata |-> p.metadata]
  BY DEF Packets, UplinkPackets, DownlinkPackets
<1>2. \A t, m, n, l : [[type |-> t, hop |-> n, metadata |-> m] EXCEPT !.hop = l]
                      = [type |-> t, hop |-> l, metadata |-> m]
  BY SMT
<1> DEFINE t == p.type
           m == p.metadata
           n == p.hop
<1> HIDE DEF t, m, n
<1>3. p = [type |-> t, hop |-> n, metadata |-> m]
  BY <1>1 DEF t, m, n
<1>4. [p EXCEPT !.hop = k] = [type |-> t, hop |-> k, metadata |-> m]
  BY <1>2, <1>3
<1>5. [p EXCEPT !.hop = h] = [type |-> t, hop |-> h, metadata |-> m]
  BY <1>2, <1>3
<1> QED BY <1>2, <1>4, <1>5

LEMMA OnAirRead ==
  ASSUME NEW p \in Packets, OnAir(p), NEW q, q = PacketFromSlice(frame.bytes)
  PROVE  /\ PacketToVec(q) = frame.mic
         /\ q.hop \in 1 .. 8
         /\ \A h \in 1 .. 8 : Written([q EXCEPT !.hop = h]) = Written([p EXCEPT !.hop = h])
         /\ p \in UplinkPackets => q.metadata = p.metadata
         /\ p \in DownlinkPackets => q.metadata = AsRead(p.metadata)
<1>1. PICK k \in 1 .. 8 : frame = Written([p EXCEPT !.hop = k])
  BY DEF OnAir
<1> DEFINE r == [p EXCEPT !.hop = k]
<1>2. PacketFits(p)
  BY DEF OnAir
<1>3. /\ r \in Packets /\ PacketFits(r) /\ r.type = p.type /\ r.hop = k
      /\ r.metadata = p.metadata
  BY <1>2, OtherHop, Zenon
<1>4. \A h \in 1 .. 8 : [r EXCEPT !.hop = h] = [p EXCEPT !.hop = h]
  BY HopTwice, Zenon
<1>5. frame.bytes = PacketToVec(r) /\ frame.mic = PacketToVec(r)
  BY <1>1, Zenon DEF Written
<1>6. p \in UplinkPackets => r \in UplinkPackets
  BY SMT DEF UplinkPackets
<1>7. p \in DownlinkPackets => r \in DownlinkPackets
  BY SMT DEF DownlinkPackets
<1> HIDE DEF r
<1>8. /\ q.hop = k /\ PacketToVec(q) = frame.mic
      /\ \A h \in 1 .. 8 : PacketToVec([q EXCEPT !.hop = h]) = PacketToVec([r EXCEPT !.hop = h])
  <2>1. q = PacketFromSlice(PacketToVec(r))
    BY <1>5
  <2> QED BY <1>3, <1>5, <2>1, ReadAgain
<1>9. \A h \in 1 .. 8 : Written([q EXCEPT !.hop = h]) = Written([p EXCEPT !.hop = h])
  BY <1>4, <1>8, Zenon DEF Written
<1>10. r \in UplinkPackets => q = r
  BY <1>3, <1>5, UplinkPacketRead
<1>11. r \in DownlinkPackets => q.metadata = AsRead(r.metadata)
  <2> SUFFICES ASSUME r \in DownlinkPackets PROVE q.metadata = AsRead(r.metadata)
    OBVIOUS
  <2>1. q = [r EXCEPT !.metadata = AsRead(r.metadata)]
    BY <1>3, <1>5, DownlinkPacketRead
  <2> QED BY <2>1, SMT DEF DownlinkPackets
<1> QED BY <1>3, <1>6, <1>7, <1>8, <1>9, <1>10, <1>11

\* A relay that passes the packet on leaves it as it was, but for the hop count.
LEMMA OnAirForward ==
  ASSUME NEW p \in Packets, OnAir(p), Forward
  PROVE  \E h \in 1 .. 8 : frame' = Written([p EXCEPT !.hop = h])
<1> DEFINE q == PacketFromSlice(frame.bytes)
<1>1. q.hop \in 1 .. 8 /\ \A h \in 1 .. 8 : Written([q EXCEPT !.hop = h]) = Written([p EXCEPT !.hop = h])
  BY OnAirRead
<1>2. q.hop < MaxHops /\ frame' = Written([q EXCEPT !.hop = q.hop + 1])
  BY DEF Forward
<1> HIDE DEF q
<1>3. q.hop + 1 \in 1 .. 8
  BY <1>1, <1>2, MaxHopsFits
<1> QED BY <1>1, <1>2, <1>3

LEMMA UplinkOnAirIsPacket ==
  ASSUME AirInv, trip = "uplink", frame # Nothing
  PROVE  /\ UplinkPacket(asked) \in UplinkPackets /\ UplinkPacket(asked) \in Packets
         /\ OnAir(UplinkPacket(asked))
  BY UplinkPacketType DEF AirInv, UplinkOnAir, Packets

LEMMA DownlinkOnAirIsPacket ==
  ASSUME AirInv, trip = "downlink", frame # Nothing
  PROVE  /\ DownlinkPacket(asked) \in DownlinkPackets /\ DownlinkPacket(asked) \in Packets
         /\ OnAir(DownlinkPacket(asked))
<1>1. out \in Nat
  BY DEF AirInv, Asking, IInv, TypeOK
<1> QED BY <1>1, DownlinkPacketType DEF AirInv, DownlinkOnAir, Packets

(***************************************************************************)
(* Every gateway accepts what the one before it sent (packets.rs:98-108):  *)
(* whatever the fields are, as long as they can be written at all.         *)
(***************************************************************************)
LEMMA MicOfAir == AirInv => MicSurvives
<1> SUFFICES ASSUME AirInv, trip # "report", frame # Nothing PROVE MicValid
  BY DEF MicSurvives
<1>1. CASE trip = "uplink"
  BY <1>1, UplinkOnAirIsPacket, OnAirRead DEF MicValid
<1>2. CASE trip = "downlink"
  BY <1>2, DownlinkOnAirIsPacket, OnAirRead DEF MicValid
<1> QED BY <1>1, <1>2 DEF AirInv, Asking
-----------------------------------------------------------------------------
LEMMA AirStart == AirInit => AirInv
<1> SUFFICES ASSUME AirInit PROVE AirInv
  OBVIOUS
<1>1. /\ trip \in {"uplink", "downlink", "report"}
      /\ asked = Nothing /\ frame = Nothing /\ got = Nothing
  BY DEF AirInit
<1>2. IInv
  BY SearchInit DEF AirInit
<1>3. Results
  BY <1>1, SMT DEF Results, UplinkAsHeard, DownlinkAsAsked, WindowAsAsked, FrequencyAsAsked
<1> QED BY <1>1, <1>2, <1>3 DEF AirInv, Asking, UplinkOnAir, DownlinkOnAir

\* The results say something only of what has arrived, and only once.
LEMMA NoResult ==
  ASSUME got' \in {Nothing, Refused}
  PROVE  Results'
  BY SMT DEF Results, UplinkAsHeard, DownlinkAsAsked, WindowAsAsked, FrequencyAsAsked

LEMMA SameResult ==
  ASSUME Results, UNCHANGED <<trip, asked, got, table, txPower>>
  PROVE  Results'
<1>1. /\ trip' = trip /\ asked' = asked /\ got' = got /\ txPower' = txPower
      /\ Listed' = Listed
  BY DEF Listed
<1>2. UplinkAsHeard'
  BY <1>1, SMT DEF Results, UplinkAsHeard
<1>3. DownlinkAsAsked'
  BY <1>1, SMT DEF Results, DownlinkAsAsked
<1>4. WindowAsAsked' /\ FrequencyAsAsked'
  BY <1>1, SMT DEF Results, WindowAsAsked, FrequencyAsAsked
<1> QED BY <1>2, <1>3, <1>4, Zenon DEF Results

LEMMA WrapUplinkStep ==
  ASSUME AirInv, NEW u \in Heard, WrapUplink(u)
  PROVE  AirInv'
<1>1. /\ trip = "uplink" /\ trip' = "uplink" /\ asked' = u /\ u # Nothing
      /\ frame = Nothing /\ got = Nothing
  BY NothingIsNone DEF WrapUplink, AirInv, Asking
<1>2. frame' = Nothing \/ (frame' # Nothing /\ HasDr(u.modulation) /\ IsListed(Channels, u.frequency)
                            /\ PacketFits(UplinkPacket(u)) /\ frame' = Written(UplinkPacket(u)))
  BY <1>1, Zenon DEF WrapUplink, Send, SendNothing
<1>3. got' \in {Nothing, Refused}
  BY <1>1, Zenon DEF WrapUplink, Send, SendNothing
<1>4. frame' # Nothing => \E h \in 1 .. 8 : frame' = Written([UplinkPacket(u) EXCEPT !.hop = h])
  <2>1. [UplinkPacket(u) EXCEPT !.hop = 1] = UplinkPacket(u)
    BY SMT DEF UplinkPacket
  <2> QED BY <1>2, <2>1, SMT
<1>5. UplinkOnAir'
  BY <1>1, <1>2, <1>4, Zenon DEF UplinkOnAir, OnAir, UplinkPacket
<1>6. Asking' /\ DownlinkOnAir'
  BY <1>1 DEF Asking, DownlinkOnAir
<1> QED BY <1>3, <1>5, <1>6, NoResult DEF AirInv

LEMMA WrapDownlinkStep ==
  ASSUME AirInv, NEW d \in Asked, WrapDownlink(d)
  PROVE  AirInv'
<1>1. /\ trip = "downlink" /\ trip' = "downlink" /\ asked' = d /\ d # Nothing
      /\ frame = Nothing /\ got = Nothing
      /\ Done /\ IInv /\ UNCHANGED vars
  BY NothingIsNone DEF WrapDownlink, AirInv, Asking
<1>2. frame' = Nothing \/ (frame' # Nothing /\ HasDr(d.modulation) /\ out # None
                            /\ PacketFits(DownlinkPacket(d)) /\ frame' = Written(DownlinkPacket(d)))
  BY <1>1, Zenon DEF WrapDownlink, Send, SendNothing
<1>3. got' \in {Nothing, Refused}
  BY <1>1, Zenon DEF WrapDownlink, Send, SendNothing
<1>4. frame' # Nothing => \E h \in 1 .. 8 : frame' = Written([DownlinkPacket(d) EXCEPT !.hop = h])
  <2>1. [DownlinkPacket(d) EXCEPT !.hop = 1] = DownlinkPacket(d)
    BY SMT DEF DownlinkPacket
  <2> QED BY <1>2, <2>1, SMT
<1>5. DownlinkPacket(asked)' = DownlinkPacket(d)
  BY <1>1, Zenon DEF DownlinkPacket, vars
<1>6. Done' /\ IInv'
  BY <1>1, SearchNext DEF Done, vars
<1>7. out' = out
  BY <1>1 DEF vars
<1>8. DownlinkOnAir'
  BY <1>1, <1>2, <1>4, <1>5, <1>6, <1>7, Zenon DEF DownlinkOnAir, OnAir
<1>9. Asking' /\ UplinkOnAir'
  BY <1>1, <1>6 DEF Asking, UplinkOnAir
<1> QED BY <1>3, <1>8, <1>9, NoResult DEF AirInv

LEMMA SearchIdle ==
  ASSUME UNCHANGED vars, IInv
  PROVE  IInv' /\ (Done => Done') /\ UNCHANGED <<table, txPower>>
  BY SearchNext DEF Done, vars

LEMMA ForwardStep ==
  ASSUME AirInv, Forward
  PROVE  AirInv'
<1>1. /\ frame # Nothing /\ got = Nothing
      /\ UNCHANGED vars /\ UNCHANGED <<trip, asked, got>>
  BY DEF Forward, OnTheAir
<1>2. /\ DownlinkPacket(asked)' = DownlinkPacket(asked)
      /\ UplinkPacket(asked)' = UplinkPacket(asked)
      /\ Done' = Done /\ out' = out
  BY <1>1, Zenon DEF DownlinkPacket, UplinkPacket, Done, vars
<1>3. UplinkOnAir'
  BY <1>1, <1>2, UplinkOnAirIsPacket, OnAirForward, Zenon DEF AirInv, UplinkOnAir, OnAir
<1>4. DownlinkOnAir'
  BY <1>1, <1>2, DownlinkOnAirIsPacket, OnAirForward, Zenon DEF AirInv, DownlinkOnAir, OnAir
<1>5. Asking'
  BY <1>1, SearchIdle DEF AirInv, Asking
<1> QED BY <1>1, <1>3, <1>4, <1>5, NoResult DEF AirInv

\* What the border gateway makes of an uplink is told by what the relay heard.
LEMMA UnwrapUplinkStep ==
  ASSUME AirInv, UnwrapUplink
  PROVE  AirInv'
<1> DEFINE P == UplinkPacket(asked)
           m == PacketFromSlice(frame.bytes).metadata
<1>1. /\ trip = "uplink" /\ frame # Nothing /\ got = Nothing
      /\ UNCHANGED vars /\ UNCHANGED <<trip, asked, frame>>
  BY DEF UnwrapUplink, OnTheAir
<1>2. asked \in Heard /\ HasDr(asked.modulation) /\ IsListed(Channels, asked.frequency)
  BY <1>1 DEF AirInv, UplinkOnAir
<1>3. asked.rssi \in Int /\ asked.snr \in Int
  BY <1>2, HeardAreUplinks
<1>4. m = P.metadata /\ P.type = "Uplink" /\ PacketFits(P)
  BY <1>1, UplinkOnAirIsPacket, OnAirRead DEF UplinkPackets, OnAir
<1>5. /\ P.metadata.uplink_id = asked.uplink_id
      /\ P.metadata.dr = ModulationToDr(asked.modulation)
      /\ P.metadata.rssi = AsI16(asked.rssi) /\ P.metadata.snr = SnrAsI8(asked.snr)
      /\ P.metadata.channel = FrequencyToChan(asked.frequency)
  BY DEF UplinkPacket
<1> HIDE DEF P
<1>6. SnrFits(SnrAsI8(asked.snr))
  BY <1>4, <1>5 DEF PacketFits, UplinkFits
<1>7. \/ got' = Refused
      \/ got' = [uplink_id |-> m.uplink_id, rssi |-> m.rssi, snr |-> m.snr,
                frequency |-> Entry(Channels, m.channel), modulation |-> Entry(DataRates, m.dr)]
  BY <1>1, Zenon DEF UnwrapUplink
<1> HIDE DEF m
<1>8. UplinkAsHeard'
  <2>1. CASE got' = Refused
    BY <2>1, SMT DEF UplinkAsHeard
  <2>2. CASE got' # Refused
    <3>1. /\ got'.uplink_id = m.uplink_id /\ got'.rssi = m.rssi /\ got'.snr = m.snr
          /\ got'.frequency = Entry(Channels, m.channel)
          /\ got'.modulation = Entry(DataRates, m.dr)
      BY <1>7, <2>2, SMT
    <3>2. got'.frequency = asked.frequency \/ IndexOf(Channels, asked.frequency) > 256
      BY <1>2, <1>4, <1>5, <3>1, ChanIndex
    <3>3. got'.modulation = asked.modulation \/ IndexOf(DataRates, asked.modulation) > 256
      BY <1>2, <1>4, <1>5, <3>1, DrIndex
    <3>4. got'.rssi = asked.rssi \/ asked.rssi < -32768 \/ asked.rssi > 32767
      BY <1>3, <1>4, <1>5, <3>1, RssiCast, SMT
    <3>5. 4 * got'.snr - asked.snr \in -3 .. 3
      BY <1>3, <1>4, <1>5, <1>6, <3>1, SnrCast
    <3> QED BY <1>1, <1>4, <1>5, <3>1, <3>2, <3>3, <3>4, <3>5, SMT DEF UplinkAsHeard
  <2> QED BY <2>1, <2>2
<1>9. Results'
  BY <1>1, <1>8, SMT DEF Results, DownlinkAsAsked, WindowAsAsked, FrequencyAsAsked
<1>10. UplinkOnAir'
  BY <1>1, Zenon DEF AirInv, UplinkOnAir, OnAir
<1>11. DownlinkOnAir' /\ Asking'
  BY <1>1, <1>2, NothingIsNone DEF AirInv, DownlinkOnAir, Asking
<1> QED BY <1>9, <1>10, <1>11 DEF AirInv

\* What the relay makes of a downlink is told by what the server asked for.
LEMMA UnwrapDownlinkStep ==
  ASSUME AirInv, UnwrapDownlink
  PROVE  AirInv'
<1> DEFINE P == DownlinkPacket(asked)
           m == PacketFromSlice(frame.bytes).metadata
<1>1. /\ trip = "downlink" /\ frame # Nothing /\ got = Nothing
      /\ UNCHANGED vars /\ UNCHANGED <<trip, asked, frame>>
  BY DEF UnwrapDownlink, OnTheAir
<1>2. asked \in Asked /\ HasDr(asked.modulation) /\ Done /\ out # None /\ IInv
  BY <1>1 DEF AirInv, DownlinkOnAir, Asking
<1>3. asked.frequency \in Frequency /\ asked.seconds \in Nat
  BY <1>2, AskedAreDownlinks
<1>4. /\ m = AsRead(P.metadata) /\ P.type # "Uplink" /\ PacketFits(P)
      /\ P.metadata \in DownlinkMetadata
  BY <1>1, DownlinkOnAirIsPacket, OnAirRead DEF DownlinkPackets, OnAir
<1>5. /\ P.metadata.uplink_id = asked.uplink_id
      /\ P.metadata.dr = ModulationToDr(asked.modulation)
      /\ P.metadata.frequency = asked.frequency
      /\ P.metadata.tx_power = out - 1
      /\ P.metadata.delay = SecondsAsU8(asked.seconds)
  BY DEF DownlinkPacket
<1> HIDE DEF P
<1>6. FreqFits(asked.frequency) /\ SecondsAsU8(asked.seconds) \in 1 .. 16
  BY <1>4, <1>5, SMT DEF PacketFits, DownlinkFits, DelayFits
<1>7. \/ got' = Refused
      \/ got' = [uplink_id |-> m.uplink_id, frequency |-> m.frequency,
                power |-> Entry(table, m.tx_power), modulation |-> Entry(DataRates, m.dr),
                seconds |-> m.delay]
  BY <1>1, Zenon DEF UnwrapDownlink
<1> HIDE DEF m
<1>8. /\ m.uplink_id = asked.uplink_id /\ m.dr = ModulationToDr(asked.modulation)
      /\ m.frequency = DecodeFreq(EncodeFreq(asked.frequency))
      /\ m.tx_power = out - 1 /\ m.delay = SecondsAsU8(asked.seconds)
  BY <1>4, <1>5, SMT DEF AsRead, DownlinkMetadata
<1>9. Results'
  <2>1. CASE got' = Refused
    BY <2>1, NoResult
  <2>2. CASE got' # Refused
    <3>1. /\ got'.uplink_id = m.uplink_id /\ got'.frequency = m.frequency
          /\ got'.power = Entry(table, m.tx_power)
          /\ got'.modulation = Entry(DataRates, m.dr) /\ got'.seconds = m.delay
      BY <1>7, <2>2, SMT
    <3>2. got'.modulation = asked.modulation \/ IndexOf(DataRates, asked.modulation) > 256
      BY <1>2, <1>8, <3>1, DrIndex
    <3>3. got'.power = table[out]
      <4>1. out \in Int /\ out - 1 + 1 = out
        BY <1>2 DEF IInv, TypeOK
      <4> QED BY <1>8, <3>1, <4>1 DEF Entry
    <3>4. NeverMore /\ ExactIfListed
      BY <1>2, DoneConsidered
         DEF IInv, NoneFits, FoundFits, ExactKept, NeverMore, ExactIfListed, Listed, None
    <3>5. DownlinkAsAsked'
      <4>1. txPower' = txPower /\ Listed' = Listed
        BY <1>1 DEF vars, Listed
      <4>2. table[out] <= txPower /\ (txPower \in Listed => table[out] = txPower)
        BY <1>2, <3>4 DEF NeverMore, ExactIfListed
      <4> QED BY <1>1, <1>8, <3>1, <3>2, <3>3, <4>1, <4>2, SMT DEF DownlinkAsAsked
    <3>6. WindowAsAsked'
      BY <1>1, <1>3, <1>6, <1>8, <3>1, SecondsCast, SMT DEF WindowAsAsked
    <3>7. FrequencyAsAsked'
      <4>1. \/ asked.frequency.h < 12000000
            \/ asked.frequency.h >= 24000000
            \/ asked.frequency.h >= 12000000 /\ asked.frequency.h < 16777216
        BY <1>3, <1>6, SMT DEF FreqFits, Steps, Frequency
      <4>2. asked.frequency.h < 12000000 => m.frequency = asked.frequency
        BY <1>3, <1>6, <1>8, FreqRoundTrip, SMT
      <4>3. asked.frequency.h >= 24000000 =>
              /\ m.frequency = [asked.frequency EXCEPT !.z = 0]
              /\ asked.frequency.z = 1 \/ m.frequency = asked.frequency
        <5>1. asked.frequency.z = 0 => [asked.frequency EXCEPT !.z = 0] = asked.frequency
          BY <1>3, SMT DEF Frequency
        <5> QED BY <1>3, <1>6, <1>8, <5>1, FreqRoundTrip, SMT
      <4> QED BY <1>1, <3>1, <4>1, <4>2, <4>3, SMT DEF FrequencyAsAsked
    <3>8. UplinkAsHeard'
      BY <1>1, SMT DEF UplinkAsHeard
    <3> QED BY <3>5, <3>6, <3>7, <3>8, Zenon DEF Results
  <2> QED BY <2>1, <2>2
<1>10. DownlinkPacket(asked)' = DownlinkPacket(asked) /\ Done' = Done /\ out' = out
  BY <1>1, Zenon DEF DownlinkPacket, Done, vars
<1>11. DownlinkOnAir'
  BY <1>1, <1>10, Zenon DEF AirInv, DownlinkOnAir, OnAir
<1>12. UplinkOnAir' /\ Asking'
  BY <1>1, <1>2, SearchIdle, NothingIsNone DEF AirInv, UplinkOnAir, Asking
<1> QED BY <1>9, <1>11, <1>12 DEF AirInv

-----------------------------------------------------------------------------
LEMMA Searching ==
  ASSUME IInv, Consider
  PROVE  ~ Done
  BY LenProperties DEF IInv, TypeOK, Consider, Done

LEMMA AirStep == AirInv /\ [AirNext]_allVars => AirInv'
<1> SUFFICES ASSUME AirInv, [AirNext]_allVars PROVE AirInv'
  OBVIOUS
\* Steps that leave what is on the air alone.
<1>1. ASSUME UNCHANGED airVars, UNCHANGED <<table, txPower>>, IInv => IInv',
             \/ UNCHANGED vars
             \/ asked = Nothing
             \/ trip = "report"
      PROVE  AirInv'
  <2>1. UNCHANGED <<trip, asked, frame, got>>
    BY <1>1 DEF airVars
  <2>2. Results'
    BY <1>1, <2>1, SameResult DEF AirInv
  <2>3. UplinkOnAir'
    BY <2>1, Zenon DEF AirInv, UplinkOnAir, OnAir, UplinkPacket
  <2>4. CASE UNCHANGED vars
    <3>1. DownlinkOnAir'
      BY <2>1, <2>4, Zenon DEF AirInv, DownlinkOnAir, OnAir, DownlinkPacket, Done, vars
    <3>2. Asking'
      BY <1>1, <2>1, <2>4, SearchIdle DEF AirInv, Asking
    <3> QED BY <2>2, <2>3, <3>1, <3>2 DEF AirInv
  <2>5. CASE asked = Nothing \/ trip = "report"
    <3>1. asked' = asked /\ frame' = Nothing /\ trip' = trip
      BY <2>1, <2>5 DEF AirInv, Asking
    <3>2. DownlinkOnAir'
      BY <3>1 DEF DownlinkOnAir
    <3>3. Asking'
      BY <1>1, <2>1, <2>5, <3>1 DEF AirInv, Asking
    <3> QED BY <2>2, <2>3, <3>2, <3>3 DEF AirInv
  <2> QED BY <1>1, <2>4, <2>5
<1>2. UNCHANGED vars => UNCHANGED <<table, txPower>> /\ (IInv => IInv')
  BY SearchIdle DEF vars
<1>3. CASE UNCHANGED allVars
  BY <1>1, <1>2, <1>3 DEF allVars
<1>4. CASE SearchPower
  <2>1. trip = "downlink" /\ Consider /\ UNCHANGED airVars
    BY <1>4 DEF SearchPower
  <2>2. asked = Nothing
    BY <2>1, Searching DEF AirInv, Asking
  <2>3. UNCHANGED <<table, txPower>> /\ (IInv => IInv')
    BY <2>1, SearchNext DEF Consider, Next
  <2> QED BY <1>1, <2>1, <2>2, <2>3
<1>5. CASE ReadReport
  BY <1>1, <1>2, <1>5 DEF ReadReport
<1>6. ASSUME NEW r \in Receptions, PassReport(r) PROVE AirInv'
  BY <1>1, <1>2, <1>6 DEF PassReport
<1>7. ASSUME NEW u \in Heard, WrapUplink(u) PROVE AirInv'
  BY <1>7, WrapUplinkStep
<1>8. ASSUME NEW d \in Asked, WrapDownlink(d) PROVE AirInv'
  BY <1>8, WrapDownlinkStep
<1>9. CASE Forward
  BY <1>9, ForwardStep
<1>10. CASE UnwrapUplink
  BY <1>10, UnwrapUplinkStep
<1>11. CASE UnwrapDownlink
  BY <1>11, UnwrapDownlinkStep
<1> QED BY <1>3, <1>4, <1>5, <1>6, <1>7, <1>8, <1>9, <1>10, <1>11 DEF AirNext

(***************************************************************************)
(* The MIC of an uplink or a downlink is valid at every gateway it comes   *)
(* to, whatever its fields are: reading a packet and writing it anew loses *)
(* nothing (packets.rs:98-108, 133-157).                                   *)
(***************************************************************************)
THEOREM AirMic == AirSpec => []MicSurvives
  BY AirStart, AirStep, MicOfAir, PTL DEF AirSpec

(***************************************************************************)
(* The server is told what a relay heard (mesh.rs:182-252, 437-471), for   *)
(* all mappings; what is cut on the way is what the property says.         *)
(***************************************************************************)
THEOREM AirUplink == AirSpec => []UplinkAsHeard
<1>1. AirInv => UplinkAsHeard
  BY DEF AirInv, Results
<1> QED BY AirStart, AirStep, <1>1, PTL DEF AirSpec

(***************************************************************************)
(* A relay answers the uplink that was meant, with no more power than was  *)
(* asked for (mesh.rs:508-571, 312-350), for all mappings.                 *)
(***************************************************************************)
THEOREM AirDownlink == AirSpec => []DownlinkAsAsked
<1>1. AirInv => DownlinkAsAsked
  BY DEF AirInv, Results
<1> QED BY AirStart, AirStep, <1>1, PTL DEF AirSpec

(***************************************************************************)
(* A delay that does not fit its four bits is refused and never becomes    *)
(* another one, below 257 seconds (mesh.rs:536, packets.rs:439).           *)
(***************************************************************************)
THEOREM AirWindow == AirSpec => []WindowAsAsked
<1>1. AirInv => WindowAsAsked
  BY DEF AirInv, Results
<1> QED BY AirStart, AirStep, <1>1, PTL DEF AirSpec

(***************************************************************************)
(* Which frequencies the three bytes carry unchanged (packets.rs:874-911). *)
(***************************************************************************)
THEOREM AirFrequency == AirSpec => []FrequencyAsAsked
<1>1. AirInv => FrequencyAsAsked
  BY DEF AirInv, Results
<1> QED BY AirStart, AirStep, <1>1, PTL DEF AirSpec

-----------------------------------------------------------------------------
(***************************************************************************)
(* What is refused.                                                        *)
(***************************************************************************)
\* Why a downlink that could be mapped was not written.
LEMMA Unwritten ==
  ASSUME NEW d \in Asked, HasDr(d.modulation), out \in Nat, out # None,
         ~ PacketFits(DownlinkPacket(d))
  PROVE  \/ IndexOf(DataRates, d.modulation) > 16 \/ out > 16
         \/ d.seconds \notin 1 .. 16 \/ d.uplink_id > 4095
         \/ d.frequency.z # 0 \/ d.frequency.h >= 16777216
<1> DEFINE m == DownlinkPacket(d).metadata
           k == IndexOf(DataRates, d.modulation)
<1>1. /\ m.uplink_id = d.uplink_id /\ m.dr = ModulationToDr(d.modulation)
      /\ m.frequency = d.frequency /\ m.tx_power = out - 1
      /\ m.delay = SecondsAsU8(d.seconds)
  BY DEF DownlinkPacket
<1>2. d.uplink_id \in Nat /\ d.seconds \in Nat /\ d.frequency \in Frequency
  BY AskedAreDownlinks
<1>3. ~ DownlinkFits(m)
  <2>1. DownlinkPacket(d).type # "Uplink" /\ DownlinkPacket(d).hop = 1
    BY DEF DownlinkPacket
  <2> QED BY <2>1 DEF PacketFits, MhdrFits
<1>4. k \in Nat \ {0} /\ m.dr = (k - 1) % 256
  <2>1. DataRates \in Seq(Modulations) /\ IsListed(DataRates, d.modulation)
    BY MappingsAreLists DEF HasDr
  <2>2. k \in 1 .. Len(DataRates) /\ Len(DataRates) \in Nat
    BY <2>1, FirstIndex, LenProperties
  <2> QED BY <1>1, <2>2 DEF ModulationToDr
<1> HIDE DEF m, k
<1>5. k <= 16 => m.dr \in 0 .. 15
  BY <1>4, SMT
<1>6. d.seconds \in 1 .. 16 => DelayFits(m.delay)
  BY <1>1, <1>2, SMT DEF SecondsAsU8, DelayFits
<1>7. d.frequency.z = 0 /\ d.frequency.h < 16777216 => FreqFits(m.frequency)
  BY <1>1, <1>2, SMT DEF FreqFits, Steps, Frequency
<1>8. out <= 16 => m.tx_power \in 0 .. 15
  BY <1>1 DEF None
<1>9. d.uplink_id <= 4095 => m.uplink_id \in 0 .. 4095
  <2> DEFINE n == d.uplink_id
  <2>1. n \in Nat /\ m.uplink_id = n
    BY <1>1, <1>2, SMT
  <2> HIDE DEF n
  <2>2. n <= 4095 => m.uplink_id \in 0 .. 4095
    BY <2>1, SMT
  <2> QED BY <2>2 DEF n
<1>10. d.frequency.h \in Nat
  BY <1>2 DEF Frequency
<1> QED BY <1>2, <1>3, <1>4, <1>5, <1>6, <1>7, <1>8, <1>9, <1>10, SMT DEF DownlinkFits, k

LEMMA RefusedByBorder ==
  ASSUME AirInv, NEW d \in Asked, WrapDownlink(d)
  PROVE  LegalIsSent'
<1>1. /\ asked' = d /\ got # Refused /\ Done /\ IInv /\ UNCHANGED vars
  BY NothingIsNone DEF WrapDownlink, AirInv, Asking
<1>2. out \in Nat /\ NeverMore
  BY <1>1, DoneConsidered DEF IInv, TypeOK, NoneFits, FoundFits, NeverMore, Listed, None
<1>3. ASSUME got' = Refused
      PROVE  \/ ~ HasDr(d.modulation) \/ out = None \/ ~ PacketFits(DownlinkPacket(d))
  BY <1>1, <1>3, Zenon DEF WrapDownlink, Send, SendNothing
<1>4. out = None => \A p \in Listed : p > txPower
  BY <1>1, <1>2 DEF NeverMore
<1>5. out' = out /\ txPower' = txPower /\ Listed' = Listed
  BY <1>1 DEF vars, Listed
<1>6. got' = Refused =>
        \/ ~ HasDr(d.modulation) \/ IndexOf(DataRates, d.modulation) > 16
        \/ (\A p \in Listed : p > txPower) \/ out > 16
        \/ d.seconds \notin 1 .. 16 \/ d.uplink_id > 4095
        \/ d.frequency.z # 0 \/ d.frequency.h >= 16777216
  BY <1>2, <1>3, <1>4, Unwritten, SMT
<1> QED BY <1>1, <1>5, <1>6, SMT DEF LegalIsSent

\* A relay has an entry for every index that it is sent.
LEMMA NotRefusedByRelay ==
  ASSUME AirInv, UnwrapDownlink
  PROVE  got' # Refused
<1> DEFINE P == DownlinkPacket(asked)
           m == PacketFromSlice(frame.bytes).metadata
           k == IndexOf(DataRates, asked.modulation)
<1>1. trip = "downlink" /\ frame # Nothing
  BY DEF UnwrapDownlink, OnTheAir
<1>2. asked \in Asked /\ HasDr(asked.modulation) /\ Done /\ out # None /\ IInv
  BY <1>1 DEF AirInv, DownlinkOnAir, Asking
<1>3. asked.frequency \in Frequency /\ asked.seconds \in Nat /\ asked.uplink_id \in Nat
  BY <1>2, AskedAreDownlinks
<1>4. /\ m = AsRead(P.metadata) /\ P.type # "Uplink" /\ PacketFits(P)
      /\ P.metadata \in DownlinkMetadata
  BY <1>1, DownlinkOnAirIsPacket, OnAirRead DEF DownlinkPackets, OnAir
<1>5. m \in DownlinkMetadata
  BY <1>4, ReadDownlinkFits DEF PacketFits
<1>6. P.metadata.dr = ModulationToDr(asked.modulation) /\ P.metadata.tx_power = out - 1
  BY DEF DownlinkPacket
<1> HIDE DEF P
<1>7. got' = IF HasEntry(table, m.tx_power) /\ HasEntry(DataRates, m.dr)
             THEN [uplink_id |-> m.uplink_id, frequency |-> m.frequency,
                   power |-> Entry(table, m.tx_power),
                   modulation |-> Entry(DataRates, m.dr), seconds |-> m.delay]
             ELSE Refused
  BY DEF UnwrapDownlink
<1> HIDE DEF m
<1>8. m.dr = (k - 1) % 256 /\ m.tx_power = out - 1
  BY <1>4, <1>6, SMT DEF AsRead, DownlinkMetadata, ModulationToDr
<1>9. HasEntry(table, m.tx_power) /\ Entry(table, m.tx_power) \in Powers
  <2>1. /\ table \in Seq(Powers) /\ i \in 1 .. Len(table) + 1 /\ out \in 0 .. i - 1
        /\ i = Len(table) + 1 /\ out # 0
    BY <1>2 DEF IInv, TypeOK, Done, None
  <2>2. Len(table) \in Nat /\ DOMAIN table = 1 .. Len(table)
    BY <2>1, LenProperties
  <2>3. out \in 1 .. Len(table) /\ m.tx_power + 1 = out
    BY <1>8, <2>1, <2>2
  <2>4. table[out] \in Powers
    BY <2>1, <2>3, ElementOfSeq
  <2> QED BY <2>2, <2>3, <2>4 DEF HasEntry, Entry
<1>10. HasEntry(DataRates, m.dr) /\ Entry(DataRates, m.dr) \in Modulations
  <2>1. DataRates \in Seq(Modulations) /\ IsListed(DataRates, asked.modulation)
    BY <1>2, MappingsAreLists DEF HasDr
  <2>2. k \in 1 .. Len(DataRates) /\ Len(DataRates) \in Nat /\ DOMAIN DataRates = 1 .. Len(DataRates)
    BY <2>1, FirstIndex, LenProperties
  <2> HIDE DEF k
  <2>3. m.dr + 1 \in 1 .. Len(DataRates)
    BY <1>8, <2>2, SMT
  <2>4. DataRates[m.dr + 1] \in Modulations
    BY <2>1, <2>3, ElementOfSeq
  <2> QED BY <2>2, <2>3, <2>4 DEF HasEntry, Entry
<1>11. got' \in [uplink_id : Nat, frequency : Frequency, power : Powers,
                 modulation : Modulations, seconds : Nat]
  <2>1. m.uplink_id \in Nat /\ m.frequency \in Frequency /\ m.delay \in Nat
    BY <1>5 DEF DownlinkMetadata
  <2> QED BY <1>7, <1>9, <1>10, <2>1
<1> QED BY <1>11, RefusedIsNoDownlink

LEMMA LegalStep == AirInv /\ LegalIsSent /\ [AirNext]_allVars => LegalIsSent'
<1> SUFFICES ASSUME AirInv, LegalIsSent, [AirNext]_allVars PROVE LegalIsSent'
  OBVIOUS
<1>1. ASSUME UNCHANGED airVars, UNCHANGED vars PROVE LegalIsSent'
  <2>1. /\ trip' = trip /\ got' = got /\ asked' = asked /\ out' = out /\ txPower' = txPower
        /\ Listed' = Listed
    BY <1>1 DEF airVars, vars, Listed
  <2> QED BY <2>1, SMT DEF LegalIsSent
<1>2. ASSUME trip' # "downlink" \/ got' # Refused PROVE LegalIsSent'
  BY <1>2, SMT DEF LegalIsSent
<1>3. CASE SearchPower
  <2>1. trip = "downlink" /\ Consider /\ UNCHANGED airVars
    BY <1>3 DEF SearchPower
  <2>2. got' = Nothing
    BY <2>1, Searching DEF AirInv, Asking, airVars
  <2> QED BY <1>2, <2>2, NothingIsNone
<1>4. CASE ReadReport
  BY <1>1, <1>4 DEF ReadReport
<1>5. ASSUME NEW r \in Receptions, PassReport(r) PROVE LegalIsSent'
  BY <1>1, <1>5 DEF PassReport
<1>6. ASSUME NEW u \in Heard, WrapUplink(u) PROVE LegalIsSent'
  BY <1>2, <1>6 DEF WrapUplink
<1>7. ASSUME NEW d \in Asked, WrapDownlink(d) PROVE LegalIsSent'
  BY <1>7, RefusedByBorder
<1>8. CASE Forward
  BY <1>2, <1>8, NothingIsNone DEF Forward, OnTheAir
<1>9. CASE UnwrapUplink
  BY <1>2, <1>9 DEF UnwrapUplink
<1>10. CASE UnwrapDownlink
  BY <1>2, <1>10, NotRefusedByRelay
<1>11. CASE UNCHANGED allVars
  BY <1>1, <1>11 DEF allVars
<1> QED BY <1>3, <1>4, <1>5, <1>6, <1>7, <1>8, <1>9, <1>10, <1>11 DEF AirNext

(***************************************************************************)
(* No downlink is refused that the mesh packet has the bits for, whatever  *)
(* the mappings are; and one that is sent is never refused by its relay.   *)
(***************************************************************************)
THEOREM AirLegal == AirSpec => []LegalIsSent
<1>1. AirInit => LegalIsSent
  BY NothingIsNone, SMT DEF AirInit, LegalIsSent
<1> QED BY AirStart, AirStep, LegalStep, <1>1, PTL DEF AirSpec

-----------------------------------------------------------------------------
LEMMA ReportStep == ReportInv /\ [AirNext]_allVars => ReportInv'
<1> SUFFICES ASSUME ReportInv, [AirNext]_allVars PROVE ReportInv'
  OBVIOUS
<1>1. CASE UNCHANGED reportVars
  <2>1. /\ report' = report /\ payload' = payload /\ pos' = pos /\ decoded' = decoded
        /\ way' = way
    BY <1>1 DEF reportVars
  <2>2. PICK sent, off : Sending(sent) /\ Ends(off, sent) /\ (Aligned(off, sent) \/ Past)
    BY DEF ReportInv
  <2>3. Sending(sent)' /\ Ends(off, sent)'
    BY <2>1, <2>2, SameSending
  <2>4. (Aligned(off, sent) => Aligned(off, sent)') /\ (Past => Past')
    BY <2>1, Zenon DEF Aligned, Past, CleanUpTo, Arrives
  <2>5. ReportTypes'
    BY <2>1, Zenon DEF ReportInv, ReportTypes
  <2> QED BY <2>2, <2>3, <2>4, <2>5, Zenon DEF ReportInv
<1>2. CASE ReadReport
  BY <1>2, DecodeStep, DecodeFailsStep DEF ReadReport
<1>3. ASSUME NEW r \in Receptions, PassReport(r) PROVE ReportInv'
  BY <1>3, RelayStep DEF PassReport
<1>4. CASE SearchPower
  BY <1>1, <1>4 DEF SearchPower
<1>5. ASSUME NEW u \in Heard, WrapUplink(u) PROVE ReportInv'
  BY <1>1, <1>5 DEF WrapUplink
<1>6. ASSUME NEW d \in Asked, WrapDownlink(d) PROVE ReportInv'
  BY <1>1, <1>6 DEF WrapDownlink
<1>7. CASE Forward
  BY <1>1, <1>7 DEF Forward
<1>8. CASE UnwrapUplink
  BY <1>1, <1>8 DEF UnwrapUplink
<1>9. CASE UnwrapDownlink
  BY <1>1, <1>9 DEF UnwrapDownlink
<1>10. CASE UNCHANGED allVars
  BY <1>1, <1>10 DEF allVars
<1> QED BY <1>2, <1>3, <1>4, <1>5, <1>6, <1>7, <1>8, <1>9, <1>10 DEF AirNext


(***************************************************************************)
(* However many relays a report passes, whatever it holds and whatever its *)
(* bytes are read as, its items arrive as they were sent and in order, up  *)
(* to the first one that does not fit its bytes, with the relays passed in *)
(* the path of every heartbeat (packets.rs:588-640, 838-866,               *)
(* mesh.rs:352-375).                                                       *)
(***************************************************************************)
THEOREM AirItems == AirSpec => []ItemsSurvive
<1>1. AirInit => ReportInv
  BY ReportStart DEF AirInit
<1> QED BY <1>1, ReportStep, ItemsOfReport, PTL DEF AirSpec

(***************************************************************************)
(* Whatever the bytes are, every step of the loop that reads them leaves   *)
(* fewer to read, and the cursor never passes their end: the loop ends     *)
(* after at most as many steps as there are bytes (packets.rs:540-550).    *)
(***************************************************************************)
LessToRead == ReadReport => LeftToRead' < LeftToRead /\ LeftToRead' \in Nat

THEOREM AirReading == AirSpec => [][LessToRead]_allVars
<1>1. ASSUME ReportInv, ReadReport PROVE LeftToRead' < LeftToRead /\ LeftToRead' \in Nat
  <2>1. /\ payload \in Seq(Byte) /\ Len(payload) \in Nat /\ pos \in Nat
        /\ payload' = payload /\ LeftToRead > 0
    BY <1>1, LenProperties DEF ReportInv, ReportTypes, ReadReport, Decode, DecodeFails
  <2>2. CASE DecodeFails
    <3>1. pos' = Len(payload)
      BY <2>2 DEF DecodeFails, CursorAfterError
    <3> QED BY <2>1, <3>1 DEF LeftToRead
  <2>3. CASE Decode
    <3> DEFINE length == payload[pos + 2]
    <3>1. Len(payload) - pos >= 2 /\ Len(payload) - pos - 2 >= length /\ pos' = pos + 2 + length
      BY <2>3 DEF Decode, Readable, LeftToRead
    <3>2. length \in Nat
      <4>1. pos + 2 \in 1 .. Len(payload)
        BY <2>1, <3>1
      <4>2. length \in Byte
        BY <2>1, <4>1, ElementOfSeq
      <4> QED BY <4>2 DEF Byte
    <3> HIDE DEF length
    <3> QED BY <2>1, <3>1, <3>2 DEF LeftToRead
  <2> QED BY <1>1, <2>2, <2>3 DEF ReadReport
<1>2. ASSUME ReportInv, [AirNext]_allVars PROVE [LessToRead]_allVars
  BY <1>1, <1>2 DEF LessToRead
<1>3. AirInit => ReportInv
  BY ReportStart DEF AirInit
<1> QED BY <1>2, <1>3, ReportStep, PTL DEF AirSpec
=============================================================================
