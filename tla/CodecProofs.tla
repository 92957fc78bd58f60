---------------------------- MODULE CodecProofs ----------------------------
(***************************************************************************)
(* What the codec reads back is what it wrote, and what it writes anew of  *)
(* what it read are the same bytes: lemmas for AirProofs, for every value  *)
(* a field may have.  First the packets (Codec), then the reports (Report) *)
(* with their lists of items, each step of which keeps ReportInv.          *)
(***************************************************************************)
EXTENDS Report, SequenceTheorems, WellFoundedInduction, TLAPS

LEMMA SnrRoundTrip ==
  ASSUME NEW snr \in Int, SnrFits(snr)
  PROVE  SnrToByte(snr) \in 0 .. 63 /\ ByteToSnr(SnrToByte(snr)) = snr
  BY DEF SnrFits, SnrToByte, ByteToSnr

(***************************************************************************)
(* Division by 16, by names of their own: the provers are given the laws   *)
(* they need of them instead of their definitions.                         *)
(***************************************************************************)
High(n) == n \div 16
Low(n) == n % 16

LEMMA Nibbles ==
  \A h \in Nat, l \in 0 .. 15 : High(h * 16 + l) = h /\ Low(h * 16 + l) = l
  BY DEF High, Low

LEMMA HighLow ==
  \A n \in Nat : High(n) \in Nat /\ Low(n) \in 0 .. 15 /\ High(n) * 16 + Low(n) = n
  BY DEF High, Low

LEMMA HighBound == \A n \in Nat : n < 4096 => High(n) < 256
  BY DEF High

\* Twelve bits and four in two bytes.
LEMMA TwelveAndFour ==
  ASSUME NEW id \in Nat, NEW d \in 0 .. 15
  PROVE  /\ High(id) * 16 + High(Low(id) * 16 + d) = id
         /\ Low(Low(id) * 16 + d) = d
<1>1. Low(id) \in 0 .. 15 /\ Low(id) \in Nat /\ High(id) * 16 + Low(id) = id
  BY HighLow
<1>2. High(Low(id) * 16 + d) = Low(id) /\ Low(Low(id) * 16 + d) = d
  BY <1>1, Nibbles
<1> QED BY <1>1, <1>2

UplinkMetadata ==
  [uplink_id : Nat, dr : Nat, rssi : Int, snr : Int, channel : Byte]

LEMMA UplinkRoundTrip ==
  ASSUME NEW m \in UplinkMetadata, UplinkFits(m)
  PROVE  UplinkFromBytes(UplinkToBytes(m)) = m
<1> DEFINE b == <<High(m.uplink_id), Low(m.uplink_id) * 16 + m.dr, - m.rssi,
                  SnrToByte(m.snr), m.channel>>
<1>1. UplinkToBytes(m) = b
  BY Zenon DEF UplinkToBytes, High, Low
<1>2. UplinkFromBytes(b) = [uplink_id |-> b[1] * 16 + High(b[2]), dr |-> Low(b[2]),
                            rssi |-> - b[3], snr |-> ByteToSnr(b[4]), channel |-> b[5]]
  BY Zenon DEF UplinkFromBytes, High, Low
<1>3. /\ b[1] = High(m.uplink_id) /\ b[2] = Low(m.uplink_id) * 16 + m.dr
      /\ b[3] = - m.rssi /\ b[4] = SnrToByte(m.snr) /\ b[5] = m.channel
  OBVIOUS
<1>4. m.uplink_id \in Nat /\ m.dr \in 0 .. 15 /\ m.rssi \in Int /\ m.snr \in Int
  BY DEF UplinkFits, UplinkMetadata
<1>5. ByteToSnr(SnrToByte(m.snr)) = m.snr
  BY <1>4, SnrRoundTrip DEF UplinkFits
<1> HIDE DEF b
<1>6. b[1] * 16 + High(b[2]) = m.uplink_id /\ Low(b[2]) = m.dr
  BY <1>3, <1>4, TwelveAndFour
<1>7. - b[3] = m.rssi
  BY <1>3, <1>4
<1>8. m = [uplink_id |-> m.uplink_id, dr |-> m.dr, rssi |-> m.rssi, snr |-> m.snr,
           channel |-> m.channel]
  BY DEF UplinkMetadata
<1> QED BY <1>1, <1>2, <1>3, <1>5, <1>6, <1>7, <1>8, Zenon
-----------------------------------------------------------------------------
(***************************************************************************)
(* Frequencies: what is written is the number of steps, and that number is *)
(* what every gateway reads and writes again.                              *)
(***************************************************************************)
LEMMA ThreeBytes == \A n \in Nat : n < 16777216 => FromBytes(ToBytes(n)) = n
  BY SMT DEF FromBytes, ToBytes

LEMMA FreqDecoded ==
  ASSUME NEW f \in Frequency, FreqFits(f), NEW n \in Nat, n = Steps(f).h
  PROVE  DecodeFreq(EncodeFreq(f)) = [h |-> IF n >= 12000000 THEN 2 * n ELSE n, z |-> 0]
<1>1. n < 16777216
  BY SMT DEF FreqFits
<1>2. FromBytes(EncodeFreq(f)) = n
  BY <1>1, ThreeBytes, SMT DEF EncodeFreq
<1> QED BY <1>2, SMT DEF DecodeFreq

LEMMA StepsOf ==
  ASSUME NEW f \in Frequency
  PROVE  /\ Steps(f).h \in Nat
         /\ f.h < 24000000 => Steps(f) = f
         /\ f.h >= 24000000 /\ Steps(f).z = 0 =>
              2 * Steps(f).h = f.h /\ Steps(f).h >= 12000000 /\ f.z \in {0, 1}
<1>1. PICK h \in Nat, z \in 0 .. 99 : f = [h |-> h, z |-> z]
  BY SMT DEF Frequency
<1>2. /\ h \div 2 \in Nat
      /\ ((h % 2) * 100 + z) \div 2 = 0 => 2 * (h \div 2) = h /\ z \in {0, 1}
      /\ h >= 24000000 => h \div 2 >= 12000000
  <2>1. h % 2 = 0 \/ h % 2 = 1
    BY SMT
  <2>2. h % 2 = 1 => ((h % 2) * 100 + z) \div 2 # 0
    BY SMT
  <2>3. h % 2 = 0 => ((h % 2) * 100 + z) \div 2 = z \div 2
    BY SMT
  <2> QED BY <2>1, <2>2, <2>3, SMT
<1>3. Halved(f) = [h |-> h \div 2, z |-> ((h % 2) * 100 + z) \div 2]
  BY <1>1, SMT DEF Halved
<1> QED BY <1>1, <1>2, <1>3, SMT DEF Steps

LEMMA FreqRoundTrip ==
  ASSUME NEW f \in Frequency, FreqFits(f)
  PROVE  LET g == DecodeFreq(EncodeFreq(f)) IN
           /\ g \in Frequency /\ FreqFits(g)
           /\ EncodeFreq(g) = EncodeFreq(f)
           /\ f.h < 12000000 => g = f
           /\ f.h >= 24000000 => g = [f EXCEPT !.z = 0] /\ f.z \in {0, 1}
<1> DEFINE n == Steps(f).h
           g == DecodeFreq(EncodeFreq(f))
<1>1. n \in Nat /\ n < 16777216
  BY StepsOf, SMT DEF FreqFits
<1>2. g = [h |-> IF n >= 12000000 THEN 2 * n ELSE n, z |-> 0]
  BY <1>1, FreqDecoded, SMT
<1> HIDE DEF n, g
<1>3. g \in Frequency
  BY <1>1, <1>2, SMT DEF Frequency
<1>4. Steps(g) = [h |-> n, z |-> 0]
  BY <1>1, <1>2, SMT DEF Steps, Halved
<1>5. FreqFits(g)
  BY <1>1, <1>4, SMT DEF FreqFits
<1>6. EncodeFreq(g) = EncodeFreq(f)
  <2>1. Steps(g).h = Steps(f).h
    BY <1>4, SMT DEF n
  <2> QED BY <2>1 DEF EncodeFreq
<1>7. f.h < 12000000 => g = f
  BY <1>1, <1>2, StepsOf, SMT DEF n, FreqFits, Frequency
<1>8. f.h >= 24000000 => g = [f EXCEPT !.z = 0] /\ f.z \in {0, 1}
  BY <1>1, <1>2, StepsOf, SMT DEF n, FreqFits, Frequency
<1> QED BY <1>3, <1>5, <1>6, <1>7, <1>8, SMT DEF g

LEMMA FreqReadAgain ==
  ASSUME NEW f \in Frequency, FreqFits(f)
  PROVE  /\ DecodeFreq(EncodeFreq(f)) \in Frequency
         /\ FreqFits(DecodeFreq(EncodeFreq(f)))
         /\ EncodeFreq(DecodeFreq(EncodeFreq(f))) = EncodeFreq(f)
  BY FreqRoundTrip, SMT
-----------------------------------------------------------------------------
(***************************************************************************)
(* Downlinks: all but the frequency is read as it was written.             *)
(***************************************************************************)
DownlinkMetadata ==
  [uplink_id : Nat, dr : Nat, frequency : Frequency, tx_power : Nat, delay : Nat]

AsRead(m) == [m EXCEPT !.frequency = DecodeFreq(EncodeFreq(m.frequency))]

LEMMA DownlinkRoundTrip ==
  ASSUME NEW m \in DownlinkMetadata, DownlinkFits(m)
  PROVE  DownlinkFromBytes(DownlinkToBytes(m)) = AsRead(m)
<1> DEFINE f == EncodeFreq(m.frequency)
           b == <<High(m.uplink_id), Low(m.uplink_id) * 16 + m.dr, f[1], f[2], f[3],
                  m.tx_power * 16 + (m.delay - 1)>>
<1>2. DownlinkToBytes(m) = b
  BY Zenon DEF DownlinkToBytes, High, Low
<1>3. <<b[3], b[4], b[5]>> = f
  BY SMT DEF EncodeFreq, ToBytes
<1>4. /\ b[1] = High(m.uplink_id) /\ b[2] = Low(m.uplink_id) * 16 + m.dr
      /\ b[6] = m.tx_power * 16 + (m.delay - 1)
  BY SMT
<1> HIDE DEF b
<1>5. DownlinkFromBytes(b) =
        [uplink_id |-> b[1] * 16 + High(b[2]), dr |-> Low(b[2]),
         frequency |-> DecodeFreq(<<b[3], b[4], b[5]>>),
         tx_power |-> High(b[6]), delay |-> Low(b[6]) + 1]
  BY Zenon DEF DownlinkFromBytes, High, Low
<1>6. m.uplink_id \in Nat /\ m.dr \in 0 .. 15 /\ m.tx_power \in Nat /\ m.delay \in Nat
      /\ m.delay - 1 \in 0 .. 15
  BY SMT DEF DownlinkFits, DelayFits, DownlinkMetadata
<1>7. b[1] * 16 + High(b[2]) = m.uplink_id /\ Low(b[2]) = m.dr
  BY <1>4, <1>6, TwelveAndFour, SMT
<1>8. High(b[6]) = m.tx_power /\ Low(b[6]) + 1 = m.delay
  <2> DEFINE l == m.delay - 1
  <2>1. l \in 0 .. 15 /\ l + 1 = m.delay
    BY <1>6, SMT
  <2>2. b[6] = m.tx_power * 16 + l
    BY <1>4
  <2> HIDE DEF l
  <2>3. High(b[6]) = m.tx_power /\ Low(b[6]) = l
    BY <1>6, <2>1, <2>2, Nibbles
  <2> QED BY <2>1, <2>3, Zenon
<1>9. AsRead(m) = [uplink_id |-> m.uplink_id, dr |-> m.dr, frequency |-> DecodeFreq(f),
                   tx_power |-> m.tx_power, delay |-> m.delay]
  BY SMT DEF AsRead, DownlinkMetadata
<1> HIDE DEF f
<1> QED BY <1>2, <1>3, <1>5, <1>7, <1>8, <1>9, Zenon
-----------------------------------------------------------------------------
(***************************************************************************)
(* Packets: what a gateway reads of an uplink is what was sent; what it    *)
(* reads of a downlink is, but for the frequency.                          *)
(***************************************************************************)
Types == {"Uplink", "Downlink"}

LEMMA TypeRead ==
  \A t \in Types : PayloadTypeToByte[t] \in {0, 1} /\ PayloadTypeFromByte(PayloadTypeToByte[t]) = t
<1>1. DOMAIN PayloadTypeToByte = {"Uplink", "Downlink", "Event", "Command"}
  BY DEF PayloadTypeToByte
<1>2. \A s, t \in DOMAIN PayloadTypeToByte :
        PayloadTypeToByte[s] = PayloadTypeToByte[t] => s = t
  BY DEF PayloadTypeToByte
<1>3. \A t \in DOMAIN PayloadTypeToByte : PayloadTypeFromByte(PayloadTypeToByte[t]) = t
  BY <1>2 DEF PayloadTypeFromByte
<1>4. \A t \in Types : PayloadTypeToByte[t] \in {0, 1}
  BY DEF PayloadTypeToByte, Types
<1> QED BY <1>1, <1>3, <1>4 DEF Types

LEMMA MhdrRead ==
  ASSUME NEW p, p.type \in Types, p.hop \in 1 .. 8
  PROVE  /\ PayloadTypeFromByte((MhdrToByte(p) \div 8) % 4) = p.type
         /\ (MhdrToByte(p) % 8) + 1 = p.hop
<1> DEFINE t == PayloadTypeToByte[p.type]
           h == p.hop - 1
<1>1. t \in {0, 1} /\ PayloadTypeFromByte(t) = p.type
  BY TypeRead
<1>2. h \in 0 .. 7 /\ h + 1 = p.hop
  OBVIOUS
<1>3. MhdrToByte(p) = 224 + 8 * t + h
  BY <1>1 DEF MhdrToByte
<1> HIDE DEF t, h
<1>4. ((224 + 8 * t + h) \div 8) % 4 = t /\ (224 + 8 * t + h) % 8 = h
  BY <1>1, <1>2, SMT
<1> QED BY <1>1, <1>2, <1>3, <1>4, Zenon

UplinkPackets == [type : {"Uplink"}, hop : Nat, metadata : UplinkMetadata]
DownlinkPackets == [type : {"Downlink"}, hop : Nat, metadata : DownlinkMetadata]

LEMMA UplinkPacketRead ==
  ASSUME NEW p \in UplinkPackets, PacketFits(p)
  PROVE  PacketFromSlice(PacketToVec(p)) = p
<1>1. /\ p.type = "Uplink" /\ p.type \in Types /\ p.hop \in 1 .. 8
      /\ p.metadata \in UplinkMetadata /\ UplinkFits(p.metadata)
      /\ p = [type |-> p.type, hop |-> p.hop, metadata |-> p.metadata]
  BY DEF UplinkPackets, Types, PacketFits, MhdrFits
<1>2. PacketToVec(p) = [mhdr |-> MhdrToByte(p), metadata |-> UplinkToBytes(p.metadata)]
  BY <1>1 DEF PacketToVec
<1>3. /\ PayloadTypeFromByte((MhdrToByte(p) \div 8) % 4) = p.type
      /\ (MhdrToByte(p) % 8) + 1 = p.hop
  BY <1>1, MhdrRead
<1>4. UplinkFromBytes(UplinkToBytes(p.metadata)) = p.metadata
  BY <1>1, UplinkRoundTrip
<1> DEFINE b == PacketToVec(p)
<1>5. PayloadTypeFromByte((b.mhdr \div 8) % 4) = p.type /\ (b.mhdr % 8) + 1 = p.hop
  BY <1>2, <1>3
<1>6. UplinkFromBytes(b.metadata) = p.metadata
  BY <1>2, <1>4
<1> HIDE DEF b
<1>7. PacketFromSlice(b) = [type |-> p.type, hop |-> p.hop, metadata |-> p.metadata]
  BY <1>1, <1>5, <1>6, Zenon DEF PacketFromSlice
<1> QED BY <1>1, <1>7 DEF b

LEMMA DownlinkPacketRead ==
  ASSUME NEW p \in DownlinkPackets, PacketFits(p)
  PROVE  PacketFromSlice(PacketToVec(p)) = [p EXCEPT !.metadata = AsRead(p.metadata)]
<1>1. /\ p.type # "Uplink" /\ p.type \in Types /\ p.hop \in 1 .. 8
      /\ p.metadata \in DownlinkMetadata /\ DownlinkFits(p.metadata)
      /\ [p EXCEPT !.metadata = AsRead(p.metadata)]
           = [type |-> p.type, hop |-> p.hop, metadata |-> AsRead(p.metadata)]
  BY DEF DownlinkPackets, Types, PacketFits, MhdrFits
<1>2. PacketToVec(p) = [mhdr |-> MhdrToByte(p), metadata |-> DownlinkToBytes(p.metadata)]
  BY <1>1 DEF PacketToVec
<1>3. /\ PayloadTypeFromByte((MhdrToByte(p) \div 8) % 4) = p.type
      /\ (MhdrToByte(p) % 8) + 1 = p.hop
  BY <1>1, MhdrRead
<1>4. DownlinkFromBytes(DownlinkToBytes(p.metadata)) = AsRead(p.metadata)
  BY <1>1, DownlinkRoundTrip
<1> DEFINE b == PacketToVec(p)
<1>5. PayloadTypeFromByte((b.mhdr \div 8) % 4) = p.type /\ (b.mhdr % 8) + 1 = p.hop
  BY <1>2, <1>3
<1>6. DownlinkFromBytes(b.metadata) = AsRead(p.metadata)
  BY <1>2, <1>4
<1> HIDE DEF b
<1>7. PacketFromSlice(b) = [type |-> p.type, hop |-> p.hop, metadata |-> AsRead(p.metadata)]
  BY <1>1, <1>5, <1>6, Zenon DEF PacketFromSlice
<1> QED BY <1>1, <1>7 DEF b

\* A downlink that has been read once fits, and loses nothing when it is read again.
LEMMA ReadDownlinkFits ==
  ASSUME NEW m \in DownlinkMetadata, DownlinkFits(m)
  PROVE  /\ AsRead(m) \in DownlinkMetadata /\ DownlinkFits(AsRead(m))
         /\ DownlinkToBytes(AsRead(m)) = DownlinkToBytes(m)
<1> DEFINE g == DecodeFreq(EncodeFreq(m.frequency))
<1>1. m.frequency \in Frequency /\ FreqFits(m.frequency)
  BY SMT DEF DownlinkMetadata, DownlinkFits
<1>2. g \in Frequency /\ FreqFits(g) /\ EncodeFreq(g) = EncodeFreq(m.frequency)
  BY <1>1, FreqReadAgain, Zenon
<1> HIDE DEF g
<1>3. /\ AsRead(m) \in DownlinkMetadata
      /\ AsRead(m).uplink_id = m.uplink_id /\ AsRead(m).dr = m.dr
      /\ AsRead(m).frequency = g
      /\ AsRead(m).tx_power = m.tx_power /\ AsRead(m).delay = m.delay
  BY <1>2, SMT DEF AsRead, DownlinkMetadata, g
<1>4. DownlinkFits(AsRead(m))
  BY <1>2, <1>3, SMT DEF DownlinkFits
<1>5. DownlinkToBytes(AsRead(m)) = DownlinkToBytes(m)
  BY <1>2, <1>3, Zenon DEF DownlinkToBytes
<1> QED BY <1>3, <1>4, <1>5

Packets == UplinkPackets \cup DownlinkPackets

LEMMA OtherHop ==
  ASSUME NEW p \in Packets, PacketFits(p), NEW h \in 1 .. 8
  PROVE  /\ [p EXCEPT !.hop = h] \in Packets
         /\ PacketFits([p EXCEPT !.hop = h])
         /\ [p EXCEPT !.hop = h].type = p.type /\ [p EXCEPT !.hop = h].hop = h
         /\ [p EXCEPT !.hop = h].metadata = p.metadata
<1> DEFINE q == [p EXCEPT !.hop = h]
<1>1. q.type = p.type /\ q.metadata = p.metadata /\ q.hop = h /\ q \in Packets
  BY SMT DEF Packets, UplinkPackets, DownlinkPackets
<1> HIDE DEF q
<1>2. PacketFits(q)
  BY <1>1, Zenon DEF PacketFits, MhdrFits
<1> QED BY <1>1, <1>2 DEF q

\* A relay that reads a packet and writes it anew, with any hop count, writes what
\* the one before it would have written.
LEMMA ReadAgain ==
  ASSUME NEW p \in Packets, PacketFits(p),
         NEW q, q = PacketFromSlice(PacketToVec(p))
  PROVE  /\ q \in Packets /\ q.hop = p.hop /\ PacketToVec(q) = PacketToVec(p)
         /\ \A h \in 1 .. 8 : PacketToVec([q EXCEPT !.hop = h]) = PacketToVec([p EXCEPT !.hop = h])
<1>1. CASE p \in UplinkPackets
  BY <1>1, UplinkPacketRead DEF Packets
<1>2. CASE p \in DownlinkPackets
  <2>1. /\ p.metadata \in DownlinkMetadata /\ DownlinkFits(p.metadata) /\ p.hop \in 1 .. 8
        /\ p.type # "Uplink"
    BY <1>2 DEF DownlinkPackets, PacketFits, MhdrFits
  <2>2. /\ AsRead(p.metadata) \in DownlinkMetadata /\ DownlinkFits(AsRead(p.metadata))
        /\ DownlinkToBytes(AsRead(p.metadata)) = DownlinkToBytes(p.metadata)
    BY <2>1, ReadDownlinkFits
  <2>3. q = [p EXCEPT !.metadata = AsRead(p.metadata)]
    BY <1>2, DownlinkPacketRead
  <2>4. /\ q \in DownlinkPackets /\ q.type = p.type /\ q.hop = p.hop
        /\ q.metadata = AsRead(p.metadata)
    BY <1>2, <2>2, <2>3, SMT DEF DownlinkPackets
  <2>5. PacketFits(q)
    BY <2>1, <2>2, <2>4 DEF PacketFits, MhdrFits
  <2>6. \A r, s : r.type = s.type /\ r.type # "Uplink" /\ r.hop = s.hop
                   /\ DownlinkToBytes(r.metadata) = DownlinkToBytes(s.metadata)
                     => PacketToVec(r) = PacketToVec(s)
    BY Zenon DEF PacketToVec, MhdrToByte
  <2>7. PacketToVec(q) = PacketToVec(p)
    BY <2>1, <2>2, <2>4, <2>6
  <2>8. \A h \in 1 .. 8 : PacketToVec([q EXCEPT !.hop = h]) = PacketToVec([p EXCEPT !.hop = h])
    <3> SUFFICES ASSUME NEW h \in 1 .. 8
                 PROVE  PacketToVec([q EXCEPT !.hop = h]) = PacketToVec([p EXCEPT !.hop = h])
      OBVIOUS
    <3> DEFINE r == [q EXCEPT !.hop = h]
               s == [p EXCEPT !.hop = h]
    <3>1. r.type = q.type /\ r.hop = h /\ r.metadata = q.metadata
      <4>1. q \in Packets
        BY <2>4 DEF Packets
      <4> QED BY <2>5, <4>1, OtherHop, Zenon
    <3>2. s.type = p.type /\ s.hop = h /\ s.metadata = p.metadata
      BY OtherHop, Zenon
    <3> HIDE DEF r, s
    <3>3. PacketToVec(r) = PacketToVec(s)
      BY <2>1, <2>2, <2>4, <2>6, <3>1, <3>2
    <3> QED BY <3>3 DEF r, s
  <2> QED BY <2>4, <2>7, <2>8 DEF Packets
<1> QED BY <1>1, <1>2 DEF Packets

-----------------------------------------------------------------------------
(***************************************************************************)
(* FlattenSeq: where the sequences it joins are in the result.  It is a    *)
(* fold, so this takes induction, over a set instead of a predicate: the   *)
(* library's rules of induction have a predicate as a parameter.           *)
(***************************************************************************)
LEMMA NatSetInduction ==
  ASSUME NEW S, 0 \in S, \A n \in Nat : n \in S => n + 1 \in S
  PROVE  Nat \subseteq S
<1> SUFFICES ASSUME Nat \ S # {} PROVE FALSE
  OBVIOUS
<1>1. PICK n \in Nat \ S : \A m \in Nat \ S : ~ (<<m, n>> \in OpToRel(<, Nat))
  BY NatLessThanWellFounded, WFMin
<1>2. n - 1 \in Nat /\ n - 1 < n
  BY SMT
<1>3. n - 1 \in S
  BY <1>1, <1>2 DEF OpToRel
<1> QED BY <1>2, <1>3, SMT

\* f holds the concatenation of the first i sequences at i.
Joins(f, seqs, n) ==
  f = [i \in 1 .. n |-> IF i = 1 THEN seqs[i] ELSE f[i - 1] \o seqs[i]]

LEMMA JoinExists ==
  ASSUME NEW seqs
  PROVE  \A n \in Nat : \E f : Joins(f, seqs, n)
<1> DEFINE T == {n \in Nat : \E f : Joins(f, seqs, n)}
<1>1. 0 \in T
  <2>1. Joins([i \in 1 .. 0 |-> {}], seqs, 0)
    BY DEF Joins
  <2> QED BY <2>1
<1>2. ASSUME NEW n \in Nat, n \in T PROVE n + 1 \in T
  <2>1. PICK f : Joins(f, seqs, n)
    BY <1>2
  <2> DEFINE g == [i \in 1 .. n + 1 |-> IF i = n + 1 THEN (IF i = 1 THEN seqs[i] ELSE f[n] \o seqs[i]) ELSE f[i]]
  <2>2. \A i \in 1 .. n : f[i] = IF i = 1 THEN seqs[i] ELSE f[i - 1] \o seqs[i]
    BY <2>1 DEF Joins
  <2>3. ASSUME NEW i \in 1 .. n + 1
        PROVE  g[i] = IF i = 1 THEN seqs[i] ELSE g[i - 1] \o seqs[i]
    <3>1. CASE i = n + 1
      <4>1. i # 1 => i - 1 \in 1 .. n + 1 /\ i - 1 # n + 1 /\ i - 1 = n
        BY <3>1
      <4>2. i # 1 => g[i - 1] = f[n]
        BY <4>1, Zenon
      <4> QED BY <3>1, <4>2, Zenon
    <3>2. CASE i # n + 1
      <4>1. i \in 1 .. n /\ (i # 1 => i - 1 \in 1 .. n + 1 /\ i - 1 # n + 1)
        BY <3>2
      <4>2. i # 1 => g[i - 1] = f[i - 1]
        BY <4>1, Zenon
      <4> QED BY <3>2, <4>1, <4>2, <2>2, Zenon
    <3> QED BY <3>1, <3>2
  <2>4. Joins(g, seqs, n + 1)
    <3> DEFINE h == [i \in 1 .. n + 1 |-> IF i = 1 THEN seqs[i] ELSE g[i - 1] \o seqs[i]]
    <3>1. DOMAIN g = 1 .. n + 1 /\ DOMAIN h = 1 .. n + 1
      OBVIOUS
    <3>2. \A i \in 1 .. n + 1 : h[i] = g[i]
      BY <2>3, Zenon
    <3> DEFINE D == 1 .. n + 1
               R == {g[i] : i \in D}
    <3>3. g \in [D -> R] /\ \A i \in D : h[i] \in R
      BY <3>2
    <3>4. h \in [D -> R]
      BY <3>3
    <3>5. h = g
      <4> HIDE DEF h, g, D, R
      <4> QED BY <3>2, <3>3, <3>4 DEF D
    <3> QED BY <3>5, Zenon DEF Joins
  <2> QED BY <2>4
<1> HIDE DEF T
<1>3. Nat \subseteq T
  BY <1>1, <1>2, NatSetInduction
<1> QED BY <1>3 DEF T

LEMMA FlattenJoins ==
  ASSUME NEW seqs, Len(seqs) \in Nat, Len(seqs) # 0
  PROVE  \E f : Joins(f, seqs, Len(seqs)) /\ FlattenSeq(seqs) = f[Len(seqs)]
<1> DEFINE f == CHOOSE f : f = [i \in 1 .. Len(seqs) |-> IF i = 1 THEN seqs[i] ELSE f[i - 1] \o seqs[i]]
<1>1. FlattenSeq(seqs) = f[Len(seqs)]
  BY DEF FlattenSeq
<1>2. \E g : g = [i \in 1 .. Len(seqs) |-> IF i = 1 THEN seqs[i] ELSE g[i - 1] \o seqs[i]]
  BY JoinExists DEF Joins
<1>3. f = [i \in 1 .. Len(seqs) |-> IF i = 1 THEN seqs[i] ELSE f[i - 1] \o seqs[i]]
  BY <1>2
<1> QED BY <1>1, <1>3 DEF Joins

\* off tells where in bytes each of the first n sequences ends.
Cuts(off, bytes, seqs, n) ==
  /\ off \in [0 .. n -> Nat] /\ off[0] = 0 /\ off[n] = Len(bytes)
  /\ \A i \in 1 .. n : /\ off[i] = off[i - 1] + Len(seqs[i]) /\ off[i] <= Len(bytes)
                       /\ \A m \in 1 .. Len(seqs[i]) : bytes[off[i - 1] + m] = seqs[i][m]

LEMMA CutsNothing == \A seqs : \E off : Cuts(off, <<>>, seqs, 0)
<1> SUFFICES ASSUME NEW seqs PROVE Cuts([i \in 0 .. 0 |-> 0], <<>>, seqs, 0)
  OBVIOUS
<1>1. Len(<<>>) = 0
  BY EmptySeq
<1> QED BY <1>1 DEF Cuts

LEMMA CutsOneMore ==
  ASSUME NEW S, NEW bytes \in Seq(S), NEW seqs, NEW n \in Nat, seqs[n + 1] \in Seq(S),
         \E off : Cuts(off, bytes, seqs, n)
  PROVE  \E off : Cuts(off, bytes \o seqs[n + 1], seqs, n + 1)
<1> DEFINE s == seqs[n + 1]
           b == bytes \o s
<1>1. PICK off : Cuts(off, bytes, seqs, n)
  OBVIOUS
<1> DEFINE off2 == [i \in 0 .. n + 1 |-> IF i = n + 1 THEN Len(b) ELSE off[i]]
<1>2. /\ Len(b) = Len(bytes) + Len(s) /\ Len(bytes) \in Nat /\ Len(s) \in Nat
      /\ \A j \in 1 .. Len(bytes) + Len(s) :
           b[j] = IF j <= Len(bytes) THEN bytes[j] ELSE s[j - Len(bytes)]
  BY ConcatProperties, LenProperties
<1>3. s = seqs[n + 1]
  OBVIOUS
<1> HIDE DEF s, b
<1>4. /\ off \in [0 .. n -> Nat] /\ off[0] = 0 /\ off[n] = Len(bytes)
      /\ \A i \in 1 .. n : /\ off[i] = off[i - 1] + Len(seqs[i]) /\ off[i] <= Len(bytes)
                           /\ \A m \in 1 .. Len(seqs[i]) : bytes[off[i - 1] + m] = seqs[i][m]
  BY <1>1 DEF Cuts
<1>5. /\ off2 \in [0 .. n + 1 -> Nat] /\ off2[n + 1] = Len(b) /\ 0 \in 0 .. n
      /\ \A i \in 0 .. n : off2[i] = off[i] /\ off2[i] \in Nat
  BY <1>2, <1>4
<1> HIDE DEF off2
<1>6. ASSUME NEW i \in 1 .. n + 1
      PROVE  /\ off2[i] = off2[i - 1] + Len(seqs[i]) /\ off2[i] <= Len(b)
             /\ \A m \in 1 .. Len(seqs[i]) : b[off2[i - 1] + m] = seqs[i][m]
  <2>1. CASE i = n + 1
    <3>1. i - 1 = n /\ n \in 0 .. n /\ off2[i - 1] = Len(bytes) /\ seqs[i] = s
      BY <1>4, <1>5, <1>3, <2>1
    <3>2. ASSUME NEW m \in 1 .. Len(s) PROVE b[Len(bytes) + m] = s[m]
      <4>1. /\ Len(bytes) + m \in 1 .. Len(bytes) + Len(s) /\ ~ (Len(bytes) + m <= Len(bytes))
            /\ Len(bytes) + m - Len(bytes) = m
        BY <1>2
      <4> QED BY <1>2, <4>1
    <3>3. off2[i] = off2[i - 1] + Len(s) /\ off2[i] <= Len(b)
      BY <1>2, <1>5, <2>1, <3>1
    <3> QED BY <3>1, <3>2, <3>3, Zenon
  <2>2. CASE i \in 1 .. n
    <3>1. i \in 0 .. n /\ i - 1 \in 0 .. n /\ off[i - 1] \in Nat
      BY <1>4, <2>2
    <3>2. off2[i] = off[i] /\ off2[i - 1] = off[i - 1]
      BY <1>5, <3>1
    <3>3. off[i] = off[i - 1] + Len(seqs[i]) /\ off[i] <= Len(bytes) /\ off[i] \in Nat
      BY <1>4, <2>2, <3>1
    <3>4. off[i] <= Len(b)
      BY <1>2, <3>3
    <3>5. ASSUME NEW m \in 1 .. Len(seqs[i]) PROVE b[off[i - 1] + m] = seqs[i][m]
      <4>1. bytes[off[i - 1] + m] = seqs[i][m]
        BY <1>4, <2>2
      <4>2. \A l, x, y : l = y - x /\ x \in Nat /\ y \in Nat /\ y <= Len(bytes) /\ m \in 1 .. l
               => x + m \in 1 .. Len(bytes)
        BY <1>2
      <4>3. Len(seqs[i]) = off[i] - off[i - 1]
        <5>1. \A l : off[i] = off[i - 1] + l => TRUE
          OBVIOUS
        <5> QED BY <3>1, <3>3
      <4>4. off[i - 1] + m \in 1 .. Len(bytes)
        BY <3>1, <3>3, <4>2, <4>3
      <4> QED BY <1>2, <4>1, <4>4
    <3> QED BY <3>2, <3>3, <3>4, <3>5
  <2> QED BY <2>1, <2>2
<1>7. off2[0] = 0
  BY <1>4, <1>5
<1>8. Cuts(off2, b, seqs, n + 1)
  BY <1>5, <1>6, <1>7, Zenon DEF Cuts
<1> QED BY <1>8 DEF b, s

LEMMA Pieces ==
  ASSUME NEW S, NEW seqs \in Seq(Seq(S))
  PROVE  /\ FlattenSeq(seqs) \in Seq(S)
         /\ \E off : Cuts(off, FlattenSeq(seqs), seqs, Len(seqs))
<1> DEFINE n == Len(seqs)
<1>1. n \in Nat /\ \A i \in 1 .. n : seqs[i] \in Seq(S)
  BY LenProperties, ElementOfSeq
<1>2. CASE n = 0
  <2>1. seqs = <<>> /\ FlattenSeq(seqs) = <<>> /\ <<>> \in Seq(S)
    BY <1>2, EmptySeq DEF FlattenSeq
  <2> QED BY <1>2, <2>1, CutsNothing
<1>3. CASE n # 0
  <2>1. PICK f : Joins(f, seqs, n) /\ FlattenSeq(seqs) = f[n]
    BY <1>1, <1>3, FlattenJoins
  <2> DEFINE first(k) == IF k = 0 THEN <<>> ELSE f[k]
             T == {k \in Nat : k <= n => /\ first(k) \in Seq(S)
                                         /\ \E off : Cuts(off, first(k), seqs, k)}
  <2>2. 0 \in T
    <3>1. first(0) = <<>> /\ <<>> \in Seq(S)
      BY EmptySeq
    <3> QED BY <3>1, CutsNothing
  <2>3. ASSUME NEW k \in Nat, k \in T PROVE k + 1 \in T
    <3>1. CASE k + 1 <= n
      <4>1. first(k) \in Seq(S) /\ \E off : Cuts(off, first(k), seqs, k)
        BY <1>1, <2>3, <3>1
      <4>2. f[k + 1] = IF k + 1 = 1 THEN seqs[k + 1] ELSE f[k] \o seqs[k + 1]
        <5>1. k + 1 \in 1 .. n /\ k + 1 - 1 = k
          BY <1>1, <3>1
        <5>2. \A i \in 1 .. n : f[i] = IF i = 1 THEN seqs[i] ELSE f[i - 1] \o seqs[i]
          <6> HIDE DEF n
          <6> QED BY <2>1 DEF Joins
        <5> QED BY <5>1, <5>2
      <4>3. seqs[k + 1] \in Seq(S)
        BY <1>1, <3>1
      <4>4. first(k + 1) = first(k) \o seqs[k + 1]
        <5>1. k + 1 # 0 /\ (k + 1 = 1 <=> k = 0)
          OBVIOUS
        <5>2. <<>> \o seqs[k + 1] = seqs[k + 1]
          BY <4>3, ConcatEmptySeq
        <5> QED BY <4>2, <5>1, <5>2
      <4> HIDE DEF first
      <4>5. first(k + 1) \in Seq(S) /\ \E off : Cuts(off, first(k + 1), seqs, k + 1)
        <5>1. first(k) \o seqs[k + 1] \in Seq(S)
          BY <4>1, <4>3, ConcatProperties
        <5> QED BY <4>1, <4>3, <4>4, <5>1, CutsOneMore
      <4> QED BY <4>5
    <3>2. CASE ~ (k + 1 <= n)
      BY <3>2
    <3> QED BY <3>1, <3>2
  <2>4. n \in T
    <3> HIDE DEF T
    <3> QED BY <1>1, <2>2, <2>3, NatSetInduction
  <2>5. first(n) = f[n] /\ n <= n
    BY <1>1, <1>3
  <2> QED BY <2>1, <2>4, <2>5
<1> QED BY <1>2, <1>3

-----------------------------------------------------------------------------
(***************************************************************************)
(* The path of a heartbeat, six bytes an entry.                            *)
(***************************************************************************)
PathEntries == [relay : Byte, rssi : Int, snr : Int]

\* Six bytes, and the entry back from any six bytes that equal them.
LEMMA EntryRead ==
  ASSUME NEW e \in PathEntries, PathEntryFits(e)
  PROVE  /\ PathEntryToBytes(e) \in Seq(Byte) /\ Len(PathEntryToBytes(e)) = 6
         /\ \A b : (\A m \in 1 .. 6 : b[m] = PathEntryToBytes(e)[m]) => PathEntryFromBytes(b) = e
<1>1. e.relay \in Byte /\ e.rssi \in -255 .. 0 /\ e.snr \in Int /\ SnrFits(e.snr)
  BY DEF PathEntries, PathEntryFits, RssiFits
<1>2. SnrToByte(e.snr) \in 0 .. 63 /\ ByteToSnr(SnrToByte(e.snr)) = e.snr
  BY <1>1, SnrRoundTrip
<1> DEFINE s == SnrToByte(e.snr)
<1>3. 0 \in Byte /\ - e.rssi \in Byte /\ s \in Byte
  BY <1>1, <1>2 DEF Byte
<1>4. PathEntryToBytes(e) = <<0, 0, 0, e.relay, - e.rssi, s>>
  BY DEF PathEntryToBytes
<1> HIDE DEF s
<1>5. PathEntryToBytes(e) \in Seq(Byte) /\ Len(PathEntryToBytes(e)) = 6
  BY <1>1, <1>3, <1>4
<1>6. ASSUME NEW b, \A m \in 1 .. 6 : b[m] = PathEntryToBytes(e)[m]
      PROVE  PathEntryFromBytes(b) = e
  <2>1. b[4] = e.relay /\ b[5] = - e.rssi /\ b[6] = s
    BY <1>4, <1>6
  <2>2. - b[5] = e.rssi /\ ByteToSnr(b[6]) = e.snr
    BY <1>1, <1>2, <2>1 DEF s
  <2>3. PathEntryFromBytes(b) = [relay |-> e.relay, rssi |-> e.rssi, snr |-> e.snr]
    BY <2>1, <2>2, Zenon DEF PathEntryFromBytes
  <2> QED BY <2>3 DEF PathEntries
<1> QED BY <1>5, <1>6

\* Entry i of a path starts after 6 * (i - 1) bytes.
LEMMA PathRead ==
  ASSUME NEW path \in Seq(PathEntries), \A k \in DOMAIN path : PathEntryFits(path[k])
  PROVE  /\ HeartbeatToVec(path) \in Seq(Byte)
         /\ Len(HeartbeatToVec(path)) = 6 * Len(path)
         /\ HeartbeatFromSlice(HeartbeatToVec(path)) = path
<1> DEFINE n == Len(path)
           seqs == [k \in DOMAIN path |-> PathEntryToBytes(path[k])]
           vec == HeartbeatToVec(path)
<1>1. n \in Nat /\ DOMAIN path = 1 .. n /\ \A k \in 1 .. n : path[k] \in PathEntries
  BY LenProperties, ElementOfSeq
<1>2. \A k \in 1 .. n : /\ seqs[k] = PathEntryToBytes(path[k])
                        /\ seqs[k] \in Seq(Byte) /\ Len(seqs[k]) = 6
  BY <1>1, EntryRead
<1>3. seqs \in Seq(Seq(Byte)) /\ Len(seqs) = n
  <2> DEFINE t == [k \in 1 .. n |-> PathEntryToBytes(path[k])]
  <2>1. seqs = t
    BY <1>1, Zenon
  <2>2. \A k \in 1 .. n : PathEntryToBytes(path[k]) \in Seq(Byte)
    BY <1>2
  <2>3. t \in Seq(Seq(Byte)) /\ Len(t) = n
    <3> HIDE DEF n
    <3> QED BY <1>1, <2>2
  <2> QED BY <2>1, <2>3
<1>4. vec = FlattenSeq(seqs)
  BY Zenon DEF HeartbeatToVec
<1>5. vec \in Seq(Byte) /\ \E off : Cuts(off, vec, seqs, n)
  <2> HIDE DEF seqs, vec, n
  <2> QED BY <1>3, <1>4, Pieces, Zenon
<1>6. PICK off : Cuts(off, vec, seqs, n)
  BY <1>5
<1> HIDE DEF seqs, vec, n
<1>7. /\ off \in [0 .. n -> Nat] /\ off[0] = 0 /\ off[n] = Len(vec)
      /\ \A i \in 1 .. n : /\ off[i] = off[i - 1] + Len(seqs[i]) /\ off[i] <= Len(vec)
                           /\ \A m \in 1 .. Len(seqs[i]) : vec[off[i - 1] + m] = seqs[i][m]
  BY <1>6 DEF Cuts
<1>8. \A i \in 0 .. n : off[i] = 6 * i
  <2> DEFINE T == {i \in Nat : i <= n => off[i] = 6 * i}
  <2>1. \A i \in 1 .. n : off[i] = off[i - 1] + 6
    <3> TAKE i \in 1 .. n
    <3>1. off[i] = off[i - 1] + Len(seqs[i])
      BY <1>7
    <3>2. Len(seqs[i]) = 6
      BY <1>2
    <3> QED BY <3>1, <3>2
  <2>2. 0 \in T
    BY <1>7
  <2>3. ASSUME NEW i \in Nat, i \in T PROVE i + 1 \in T
    <3>1. CASE i + 1 <= n
      <4>1. i + 1 \in 1 .. n /\ i + 1 - 1 = i /\ i <= n
        BY <1>1, <3>1
      <4>2. off[i + 1] = off[i] + 6
        BY <2>1, <4>1
      <4>3. off[i + 1] = 6 * (i + 1)
        BY <2>3, <4>1, <4>2
      <4> QED BY <4>3
    <3>2. CASE ~ (i + 1 <= n)
      BY <3>2
    <3> QED BY <3>1, <3>2
  <2> HIDE DEF T
  <2>4. Nat \subseteq T
    BY <2>2, <2>3, NatSetInduction
  <2> QED BY <1>1, <2>4 DEF T
<1>9. Len(vec) = 6 * n /\ Len(vec) \div 6 = n
  BY <1>1, <1>7, <1>8
<1>10. ASSUME NEW k \in 1 .. n
       PROVE  PathEntryFromBytes(SubSeq(vec, 6 * k - 5, 6 * k)) = path[k]
  <2> DEFINE b == SubSeq(vec, 6 * k - 5, 6 * k)
  <2>1. k - 1 \in 0 .. n /\ off[k - 1] = 6 * (k - 1) /\ Len(seqs[k]) = 6
    BY <1>1, <1>2, <1>8
  <2>2. ASSUME NEW m \in 1 .. 6 PROVE b[m] = PathEntryToBytes(path[k])[m]
    <3>1. b[m] = vec[6 * (k - 1) + m]
      <4>1. /\ 6 * k - 5 \in 1 .. Len(vec) /\ 6 * k \in 6 * k - 5 .. Len(vec)
            /\ m \in 1 .. 6 * k - (6 * k - 5) + 1 /\ 6 * k - 5 + m - 1 = 6 * (k - 1) + m
        BY <1>1, <1>9
      <4> QED BY <1>5, <4>1, SubSeqProperties
    <3>2. vec[6 * (k - 1) + m] = seqs[k][m]
      BY <1>7, <2>1
    <3> QED BY <1>2, <3>1, <3>2
  <2> HIDE DEF b
  <2>3. PathEntryFromBytes(b) = path[k]
    BY <1>1, <2>2, EntryRead
  <2> QED BY <2>3 DEF b
<1>11. HeartbeatFromSlice(vec) = [k \in 1 .. n |-> path[k]]
  <2>1. HeartbeatFromSlice(vec)
          = [k \in 1 .. n |-> PathEntryFromBytes(SubSeq(vec, 6 * k - 5, 6 * k))]
    BY <1>9, Zenon DEF HeartbeatFromSlice
  <2> QED BY <1>10, <2>1, Zenon
<1>12. path = [k \in 1 .. n |-> path[k]]
  BY <1>1, SMT
<1> QED BY <1>5, <1>9, <1>11, <1>12 DEF n, vec

-----------------------------------------------------------------------------
(***************************************************************************)
(* One item, and a list of them.                                           *)
(***************************************************************************)
Items ==
  [kind : {"heartbeat", "proprietary"}, type : Byte, value : Seq(Byte), path : Seq(PathEntries)]

BodyOf(item) == IF item.kind = "heartbeat" THEN HeartbeatToVec(item.path) ELSE item.value

\* An item in bytes: its type, its length cut to a byte, its value.
LEMMA EncodedItem ==
  ASSUME NEW item \in Items, EncodeFits(item)
  PROVE  /\ Encode(item) \in Seq(Byte) /\ BodyOf(item) \in Seq(Byte)
         /\ Len(Encode(item)) = Len(BodyOf(item)) + 2
         /\ Encode(item)[1] = item.type /\ Encode(item)[2] = Len(BodyOf(item)) % 256
         /\ \A m \in 1 .. Len(BodyOf(item)) : Encode(item)[2 + m] = BodyOf(item)[m]
<1> DEFINE b == BodyOf(item)
           h == <<item.type, Len(b) % 256>>
<1>1. item.type \in Byte /\ item.value \in Seq(Byte) /\ item.path \in Seq(PathEntries)
  BY DEF Items
<1>2. b \in Seq(Byte)
  <2>1. HeartbeatToVec(item.path) \in Seq(Byte)
    BY <1>1, PathRead DEF EncodeFits
  <2> QED BY <1>1, <2>1, Zenon DEF BodyOf
<1>3. Encode(item) = h \o b
  BY Zenon DEF Encode, BodyOf, LengthByte
<1> HIDE DEF b
<1>4. Len(b) \in Nat /\ Len(b) % 256 \in Byte
  <2>1. Len(b) \in Nat
    BY <1>2, LenProperties
  <2>2. \A l \in Nat : l % 256 \in Byte
    BY DEF Byte
  <2> QED BY <2>1, <2>2, Zenon
<1>5. h \in Seq(Byte) /\ Len(h) = 2 /\ h[1] = item.type /\ h[2] = Len(b) % 256
  BY <1>1, <1>4
<1> HIDE DEF h
<1>6. /\ h \o b \in Seq(Byte) /\ Len(h \o b) = Len(h) + Len(b)
      /\ \A i \in 1 .. Len(h) + Len(b) :
           (h \o b)[i] = IF i <= Len(h) THEN h[i] ELSE b[i - Len(h)]
  BY <1>2, <1>5, ConcatProperties
<1>7. \A i \in 1 .. 2 + Len(b) : (h \o b)[i] = IF i <= 2 THEN h[i] ELSE b[i - 2]
  BY <1>5, <1>6, Zenon
<1>8. (h \o b)[1] = h[1] /\ (h \o b)[2] = h[2]
  <2>1. 1 \in 1 .. 2 + Len(b) /\ 2 \in 1 .. 2 + Len(b) /\ 1 <= 2 /\ 2 <= 2
    BY <1>4
  <2> QED BY <1>7, <2>1, Zenon
<1>9. \A m \in 1 .. Len(b) : (h \o b)[2 + m] = b[m]
  <2> TAKE m \in 1 .. Len(b)
  <2>1. PICK i : i = 2 + m
    OBVIOUS
  <2>2. i \in 1 .. 2 + Len(b) /\ ~ (i <= 2) /\ i - 2 = m
    BY <1>4, <2>1
  <2> QED BY <1>7, <2>1, <2>2, Zenon
<1>10. Len(h \o b) = Len(b) + 2
  BY <1>4, <1>5, <1>6
<1> QED BY <1>2, <1>3, <1>5, <1>6, <1>8, <1>9, <1>10, Zenon DEF b

LEMMA EncodedAll ==
  ASSUME NEW items \in Seq(Items), \A k \in DOMAIN items : EncodeFits(items[k])
  PROVE  /\ EncodeAll(items) \in Seq(Byte)
         /\ \E off : Cuts(off, EncodeAll(items), [k \in DOMAIN items |-> Encode(items[k])],
                          Len(items))
<1> DEFINE n == Len(items)
           seqs == [k \in DOMAIN items |-> Encode(items[k])]
           t == [k \in 1 .. n |-> Encode(items[k])]
<1>1. n \in Nat /\ DOMAIN items = 1 .. n /\ \A k \in 1 .. n : items[k] \in Items
  BY LenProperties, ElementOfSeq
<1>2. \A k \in 1 .. n : Encode(items[k]) \in Seq(Byte)
  BY <1>1, EncodedItem
<1>3. seqs = t
  BY <1>1, Zenon
<1>4. t \in Seq(Seq(Byte)) /\ Len(t) = n
  <2> HIDE DEF n
  <2> QED BY <1>1, <1>2
<1>5. EncodeAll(items) = FlattenSeq(seqs)
  BY Zenon DEF EncodeAll
<1>6. seqs \in Seq(Seq(Byte)) /\ Len(seqs) = n
  BY <1>3, <1>4, Zenon
<1> HIDE DEF seqs, t, n
<1>7. FlattenSeq(seqs) \in Seq(Byte) /\ \E off : Cuts(off, FlattenSeq(seqs), seqs, n)
  BY <1>6, Pieces, Zenon
<1> QED BY <1>5, <1>7, Zenon DEF seqs, n

LEMMA PathFromBytes ==
  ASSUME NEW b \in Seq(Byte), Len(b) % 6 = 0
  PROVE  HeartbeatFromSlice(b) \in Seq(PathEntries)
<1> DEFINE n == Len(b) \div 6
           piece(k) == SubSeq(b, 6 * k - 5, 6 * k)
<1>1. Len(b) \in Nat /\ n \in Nat /\ 6 * n = Len(b)
  BY LenProperties
<1> HIDE DEF n
<1>2. ASSUME NEW k \in 1 .. n PROVE PathEntryFromBytes(piece(k)) \in PathEntries
  <2>1. \A m \in 1 .. 6 : piece(k)[m] \in Byte
    <3> DEFINE lo == 6 * k - 5
               hi == 6 * k
    <3>1. /\ lo \in Int /\ hi \in Int /\ hi - lo + 1 = 6
          /\ lo >= 1 /\ hi <= Len(b)
      BY <1>1
    <3>2. piece(k) = SubSeq(b, lo, hi)
      OBVIOUS
    <3> HIDE DEF lo, hi, piece
    <3>3. \A i \in lo .. hi : b[i] \in Byte
      <4>1. \A i \in 1 .. Len(b) : b[i] \in Byte
        BY ElementOfSeq
      <4> QED BY <1>1, <3>1, <4>1
    <3>4. \A m \in 1 .. hi - lo + 1 : piece(k)[m] = b[lo + m - 1]
      BY <3>1, <3>2, <3>3, SubSeqProperties
    <3>5. \A m \in 1 .. 6 : lo + m - 1 \in lo .. hi
      BY <3>1
    <3> QED BY <3>1, <3>3, <3>4, <3>5
  <2> HIDE DEF piece
  <2>2. piece(k)[4] \in Byte /\ piece(k)[5] \in Byte /\ piece(k)[6] \in Byte
    BY <2>1
  <2>3. - piece(k)[5] \in Int /\ ByteToSnr(piece(k)[6]) \in Int
    <3>1. \A x \in Byte : - x \in Int /\ ByteToSnr(x) \in Int
      BY DEF Byte, ByteToSnr
    <3> QED BY <2>2, <3>1, Zenon
  <2> QED BY <2>2, <2>3 DEF PathEntryFromBytes, PathEntries
<1>3. HeartbeatFromSlice(b) = [k \in 1 .. n |-> PathEntryFromBytes(piece(k))]
  BY Zenon DEF HeartbeatFromSlice, n
<1> HIDE DEF piece
<1> QED BY <1>1, <1>2, <1>3

\* Whatever the bytes say, what is read is an item or nothing.
LEMMA DecodedIsItem ==
  ASSUME NEW type \in Byte, NEW value \in Seq(Byte)
  PROVE  DecodeItem(type, value) \in Seq(Items)
<1>1. CASE report.kind = "Event" /\ type = 0
  <2>1. CASE Len(value) % 6 = 0
    <3> DEFINE p == HeartbeatFromSlice(value)
    <3>1. p \in Seq(PathEntries)
      BY <2>1, PathFromBytes
    <3>2. DecodeItem(type, value) = <<Heartbeat(p)>>
      BY <1>1, <2>1, Zenon DEF DecodeItem
    <3> HIDE DEF p
    <3>3. 0 \in Byte /\ <<>> \in Seq(Byte)
      BY EmptySeq DEF Byte
    <3>4. Heartbeat(p) \in Items
      BY <3>1, <3>3 DEF Heartbeat, Items
    <3> QED BY <3>2, <3>4
  <2>2. CASE ~ (Len(value) % 6 = 0)
    <3>1. DecodeItem(type, value) = <<>>
      BY <1>1, <2>2, Zenon DEF DecodeItem
    <3> QED BY <3>1, EmptySeq
  <2> QED BY <2>1, <2>2
<1>2. CASE ~ (report.kind = "Event" /\ type = 0)
  <2>1. DecodeItem(type, value) = <<Proprietary(type, value)>>
    BY <1>2, Zenon DEF DecodeItem
  <2>2. <<>> \in Seq(PathEntries)
    BY EmptySeq
  <2>3. Proprietary(type, value) \in Items
    BY <2>2 DEF Proprietary, Items
  <2> QED BY <2>1, <2>3
<1> QED BY <1>1, <1>2

\* An item that can be told from its bytes is read as it was written.
Told(item) ==
  \/ report.kind = "Event" /\ item = Heartbeat(item.path)
  \/ item = Proprietary(item.type, item.value) /\ ~ (report.kind = "Event" /\ item.type = 0)

LEMMA DecodedAsSent ==
  ASSUME NEW item \in Items, EncodeFits(item), Told(item)
  PROVE  DecodeItem(item.type, BodyOf(item)) = <<item>>
<1>1. CASE report.kind = "Event" /\ item = Heartbeat(item.path)
  <2>1. item.type = 0 /\ item.kind = "heartbeat"
    BY <1>1 DEF Heartbeat
  <2>2. item.path \in Seq(PathEntries) /\ \A k \in DOMAIN item.path : PathEntryFits(item.path[k])
    BY DEF Items, EncodeFits
  <2>3. /\ Len(HeartbeatToVec(item.path)) = 6 * Len(item.path)
        /\ HeartbeatFromSlice(HeartbeatToVec(item.path)) = item.path
    BY <2>2, PathRead
  <2>4. Len(item.path) \in Nat
    BY <2>2, LenProperties
  <2>5. (6 * Len(item.path)) % 6 = 0
    <3>1. \A l \in Nat : (6 * l) % 6 = 0
      OBVIOUS
    <3> QED BY <2>4, <3>1, Zenon
  <2>6. BodyOf(item) = HeartbeatToVec(item.path)
    BY <2>1, Zenon DEF BodyOf
  <2>7. Len(BodyOf(item)) % 6 = 0
    BY <2>3, <2>5, <2>6, Zenon
  <2>8. DecodeItem(item.type, BodyOf(item)) = <<Heartbeat(HeartbeatFromSlice(BodyOf(item)))>>
    BY <1>1, <2>1, <2>7, Zenon DEF DecodeItem
  <2> QED BY <1>1, <2>3, <2>6, <2>8, Zenon
<1>2. CASE /\ item = Proprietary(item.type, item.value)
           /\ ~ (report.kind = "Event" /\ item.type = 0)
  <2>1. item.kind = "proprietary"
    BY <1>2 DEF Proprietary
  <2>2. item.kind # "heartbeat"
    BY <2>1
  <2>3. BodyOf(item) = item.value
    BY <2>2, Zenon DEF BodyOf
  <2>4. DecodeItem(item.type, item.value) = <<Proprietary(item.type, item.value)>>
    BY <1>2, Zenon DEF DecodeItem
  <2> QED BY <1>2, <2>3, <2>4, Zenon
<1> QED BY <1>1, <1>2 DEF Told

-----------------------------------------------------------------------------
(***************************************************************************)
(* The invariant: while the receiver reads, its cursor is at the start of  *)
(* one of the items its sender wrote, and all items before it were clean   *)
(* and are read as they were written; or all clean items are read, and it  *)
(* does not matter where in the bytes the cursor is.                       *)
(***************************************************************************)
CleanUpTo(k) == \A j \in 1 .. k : Clean(report, report.items[j])

\* What the last sender wrote: the clean items at their places, as they are to arrive.
Sending(sent) ==
  /\ sent \in Seq(Items) /\ \A k \in DOMAIN sent : EncodeFits(sent[k])
  /\ payload = EncodeAll(sent)
  /\ \A k \in DOMAIN report.items :
       CleanUpTo(k) => k \in DOMAIN sent /\ sent[k] = Arrives(report.items[k])

Ends(off, sent) ==
  Cuts(off, payload, [k \in DOMAIN sent |-> Encode(sent[k])], Len(sent))

\* The cursor is at the start of an item, and those before it were clean.
Aligned(off, sent) ==
  /\ Len(decoded) <= Len(sent) /\ pos = off[Len(decoded)]
  /\ \A j \in 1 .. Len(decoded) :
       j \in DOMAIN report.items /\ CleanUpTo(j) /\ decoded[j] = sent[j]

\* The clean items are read; what comes after them does not matter.
Past ==
  \A k \in DOMAIN report.items :
    CleanUpTo(k) => k \in DOMAIN decoded /\ decoded[k] = Arrives(report.items[k])

ReportTypes ==
  /\ report \in Reports
  /\ way \in Seq(PathEntries) /\ Len(way) <= MaxRelays
  /\ payload \in Seq(Byte) /\ pos \in 0 .. Len(payload)
  /\ decoded \in Seq(Items)

ReportInv ==
  /\ ReportTypes
  /\ \E sent, off : Sending(sent) /\ Ends(off, sent) /\ (Aligned(off, sent) \/ Past)

\* An item as its sender was given it.
LEMMA ItemGiven ==
  ASSUME ReportTypes, NEW k \in DOMAIN report.items
  PROVE  LET item == report.items[k] IN
           \/ report.kind = "Event" /\ item = Heartbeat(<<>>) /\ item.kind = "heartbeat"
           \/ /\ item.kind = "proprietary" /\ item.kind # "heartbeat"
              /\ item = Proprietary(item.type, item.value)
              /\ item.type \in Nat /\ item.value \in Seq(Byte) /\ item.path = <<>>
              /\ report.kind = "Event" => item.type \in Byte
<1> DEFINE item == report.items[k]
<1>1. \/ report \in [kind : {"Event"}, items : Seq({Heartbeat(<<>>)} \cup Proprietaries(Byte))]
      \/ report \in [kind : {"Command"}, items : Seq(Proprietaries(Nat))]
  BY ReportsAreItems DEF ReportTypes
<1>2. \/ report.kind = "Event" /\ item \in {Heartbeat(<<>>)} \cup Proprietaries(Byte)
      \/ report.kind = "Command" /\ item \in Proprietaries(Nat)
  <2>1. CASE report \in [kind : {"Event"}, items : Seq({Heartbeat(<<>>)} \cup Proprietaries(Byte))]
    <3>1. report.kind = "Event" /\ report.items \in Seq({Heartbeat(<<>>)} \cup Proprietaries(Byte))
      BY <2>1
    <3> QED BY <3>1, LenProperties, ElementOfSeq
  <2>2. CASE report \in [kind : {"Command"}, items : Seq(Proprietaries(Nat))]
    <3>1. report.kind = "Command" /\ report.items \in Seq(Proprietaries(Nat))
      BY <2>2
    <3> QED BY <3>1, LenProperties, ElementOfSeq
  <2> QED BY <1>1, <2>1, <2>2
<1> HIDE DEF item
<1>3. Heartbeat(<<>>).kind = "heartbeat"
  BY DEF Heartbeat
<1>4. \A types : item \in Proprietaries(types) =>
        /\ item.kind = "proprietary" /\ item.type \in types /\ item.value \in Seq(Byte)
        /\ item.path = <<>> /\ item = Proprietary(item.type, item.value)
  BY DEF Proprietaries, Proprietary
<1>5. Byte \subseteq Nat
  BY DEF Byte
<1>6. "heartbeat" # "proprietary" /\ "Event" # "Command"
  OBVIOUS
<1>7. CASE report.kind = "Event" /\ item \in {Heartbeat(<<>>)} \cup Proprietaries(Byte)
  BY <1>3, <1>4, <1>5, <1>6, <1>7 DEF item
<1>8. CASE report.kind = "Command" /\ item \in Proprietaries(Nat)
  BY <1>4, <1>6, <1>8 DEF item
<1> QED BY <1>2, <1>7, <1>8

LEMMA ItemsListed ==
  ASSUME ReportTypes
  PROVE  Len(report.items) \in Nat /\ DOMAIN report.items = 1 .. Len(report.items)
<1>1. \/ report \in [kind : {"Event"}, items : Seq({Heartbeat(<<>>)} \cup Proprietaries(Byte))]
      \/ report \in [kind : {"Command"}, items : Seq(Proprietaries(Nat))]
  BY ReportsAreItems DEF ReportTypes
<1> QED BY <1>1, LenProperties

\* As it arrives, a clean item can be told from its bytes.
LEMMA CleanIsTold ==
  ASSUME ReportTypes, NEW k \in DOMAIN report.items, Clean(report, report.items[k]),
         NEW item \in Items, EncodeFits(item), item = Arrives(report.items[k])
  PROVE  Told(item) /\ Len(BodyOf(item)) \in 0 .. 255
<1> DEFINE given == report.items[k]
<1>1. way \in Seq(PathEntries) /\ Len(way) \in 0 .. 7
  <2>1. way \in Seq(PathEntries) /\ Len(way) <= MaxRelays /\ MaxRelays \in 0 .. 7
    BY MaxRelaysFits, Zenon DEF ReportTypes, MaxRelaysFits
  <2>2. Len(way) \in Nat
    BY <2>1, LenProperties
  <2>3. \A l \in Nat, r \in 0 .. 7 : l <= r => l \in 0 .. 7
    OBVIOUS
  <2> QED BY <2>1, <2>2, <2>3, Zenon
<1>2. CASE report.kind = "Event" /\ given.kind = "heartbeat"
  <2>1. item = Heartbeat(way)
    BY <1>2, Zenon DEF Arrives
  <2>2. item.path = way /\ item.kind = "heartbeat"
    BY <2>1 DEF Heartbeat
  <2>3. BodyOf(item) = HeartbeatToVec(way)
    BY <2>2, Zenon DEF BodyOf
  <2>4. Len(HeartbeatToVec(way)) = 6 * Len(way)
    BY <1>1, <2>2, PathRead DEF EncodeFits
  <2>5. Len(BodyOf(item)) \in 0 .. 255
    <3>1. \A l \in 0 .. 7 : 6 * l \in 0 .. 255
      OBVIOUS
    <3> QED BY <1>1, <2>3, <2>4, <3>1, Zenon
  <2> QED BY <1>2, <2>1, <2>2, <2>5, Zenon DEF Told
<1>3. CASE /\ given.kind # "heartbeat" /\ given = Proprietary(given.type, given.value)
           /\ given.value \in Seq(Byte)
  <2>1. item = given
    BY <1>3, Zenon DEF Arrives
  <2>2. /\ Len(given.value) < 256
        /\ given.type \in (IF report.kind = "Event" THEN 1 .. 255 ELSE Byte)
    BY <1>3, Zenon DEF Clean
  <2>3. ~ (report.kind = "Event" /\ given.type = 0)
    <3>1. 0 \notin 1 .. 255
      OBVIOUS
    <3> QED BY <2>2, <3>1, Zenon
  <2>4. BodyOf(item) = given.value
    BY <1>3, <2>1, Zenon DEF BodyOf
  <2>5. Len(given.value) \in 0 .. 255
    <3>1. Len(given.value) \in Nat
      BY <1>3, LenProperties
    <3>2. \A l \in Nat : l < 256 => l \in 0 .. 255
      OBVIOUS
    <3> QED BY <2>2, <3>1, <3>2, Zenon
  <2>6. Told(item)
    BY <1>3, <2>1, <2>3, Zenon DEF Told
  <2> QED BY <2>4, <2>5, <2>6, Zenon
<1> QED BY <1>2, <1>3, ItemGiven, Zenon

\* The item is in the bytes between start and end.
ItemAt(item, start, end) ==
  LET b == BodyOf(item) IN
    /\ start \in Nat /\ end = start + Len(b) + 2 /\ end <= Len(payload)
    /\ payload[start + 1] = item.type /\ payload[start + 2] = Len(b) % 256
    /\ \A m \in 1 .. Len(b) : payload[start + 2 + m] = b[m]

LEMMA ItemsInBytes ==
  ASSUME NEW sent, NEW off, Sending(sent), Ends(off, sent)
  PROVE  /\ Len(sent) \in Nat /\ DOMAIN sent = 1 .. Len(sent)
         /\ off \in [0 .. Len(sent) -> Nat] /\ off[0] = 0 /\ off[Len(sent)] = Len(payload)
         /\ \A i \in 1 .. Len(sent) :
              sent[i] \in Items /\ EncodeFits(sent[i]) /\ ItemAt(sent[i], off[i - 1], off[i])
<1> DEFINE n == Len(sent)
           seqs == [k \in DOMAIN sent |-> Encode(sent[k])]
<1>1. n \in Nat /\ DOMAIN sent = 1 .. n /\ \A k \in 1 .. n : sent[k] \in Items /\ EncodeFits(sent[k])
  BY LenProperties, ElementOfSeq DEF Sending
<1>2. \A k \in 1 .. n : seqs[k] = Encode(sent[k])
  BY <1>1
<1>3. Cuts(off, payload, seqs, n)
  BY DEF Ends
<1> HIDE DEF seqs, n
<1>4. /\ off \in [0 .. n -> Nat] /\ off[0] = 0 /\ off[n] = Len(payload)
      /\ \A i \in 1 .. n : /\ off[i] = off[i - 1] + Len(seqs[i]) /\ off[i] <= Len(payload)
                           /\ \A m \in 1 .. Len(seqs[i]) : payload[off[i - 1] + m] = seqs[i][m]
  BY <1>3 DEF Cuts
<1>5. ASSUME NEW i \in 1 .. n
      PROVE  ItemAt(sent[i], off[i - 1], off[i])
  <2> DEFINE b == BodyOf(sent[i])
             e == seqs[i]
             o == off[i - 1]
  <2>1. e = Encode(sent[i]) /\ sent[i] \in Items /\ EncodeFits(sent[i])
    BY <1>1, <1>2
  <2>2. /\ Len(e) = Len(b) + 2 /\ b \in Seq(Byte)
        /\ e[1] = sent[i].type /\ e[2] = Len(b) % 256 /\ \A m \in 1 .. Len(b) : e[2 + m] = b[m]
    BY <2>1, EncodedItem
  <2>3. Len(b) \in Nat
    BY <2>2, LenProperties
  <2>4. i - 1 \in 0 .. n /\ i \in 0 .. n
    BY <1>1
  <2>5. o \in Nat /\ off[i] \in Nat
    BY <1>4, <2>4
  <2>6. off[i] = o + Len(e) /\ off[i] <= Len(payload)
    BY <1>4
  <2>7. \A m \in 1 .. Len(e) : payload[o + m] = e[m]
    BY <1>4
  <2> HIDE DEF b, e, o
  <2>8. off[i] = o + Len(b) + 2
    BY <2>2, <2>3, <2>5, <2>6
  <2>9. payload[o + 1] = e[1] /\ payload[o + 2] = e[2]
    <3>1. 1 \in 1 .. Len(e) /\ 2 \in 1 .. Len(e)
      BY <2>2, <2>3
    <3> QED BY <2>7, <3>1, Zenon
  <2>10. ASSUME NEW m \in 1 .. Len(b) PROVE payload[o + 2 + m] = b[m]
    <3>1. PICK j : j = 2 + m
      OBVIOUS
    <3>2. j \in 1 .. Len(e) /\ o + j = o + 2 + m
      BY <2>2, <2>3, <2>5, <3>1
    <3>3. payload[o + j] = e[j] /\ e[2 + m] = b[m]
      BY <2>2, <2>7, <3>2, Zenon
    <3> QED BY <3>1, <3>2, <3>3, Zenon
  <2> QED BY <2>2, <2>5, <2>6, <2>8, <2>9, <2>10, Zenon DEF ItemAt, b, o
<1> QED BY <1>1, <1>4, <1>5, Zenon DEF n

LEMMA NextRead ==
  ASSUME ReportTypes, NEW sent, NEW off, Sending(sent), Ends(off, sent), Aligned(off, sent),
         NEW d, d = Len(decoded), d + 1 \in DOMAIN report.items, CleanUpTo(d + 1)
  PROVE  /\ d + 1 \in 1 .. Len(sent) /\ Readable
         /\ pos + 2 + payload[pos + 2] = off[d + 1] /\ off[d + 1] \in 0 .. Len(payload)
         /\ DecodeItem(payload[pos + 1], SubSeq(payload, pos + 3, pos + 2 + payload[pos + 2]))
              = <<sent[d + 1]>>
<1> DEFINE item == sent[d + 1]
           b == BodyOf(item)
           l == Len(b)
<1>1. d \in Nat /\ pos \in Nat /\ payload \in Seq(Byte) /\ pos = off[d]
  <2>1. decoded \in Seq(Items) /\ payload \in Seq(Byte) /\ pos \in 0 .. Len(payload)
    BY DEF ReportTypes
  <2>2. pos = off[d]
    BY DEF Aligned
  <2>3. pos \in Nat
    BY <2>1
  <2> QED BY <2>1, <2>2, <2>3, LenProperties
<1>2. d + 1 \in DOMAIN sent /\ item = Arrives(report.items[d + 1])
  BY Zenon DEF Sending
<1>3. d + 1 \in 1 .. Len(sent) /\ d + 1 - 1 = d
  BY <1>1, <1>2, ItemsInBytes
<1>4. item \in Items /\ EncodeFits(item) /\ ItemAt(item, pos, off[d + 1])
  <2>1. \A i \in 1 .. Len(sent) :
          sent[i] \in Items /\ EncodeFits(sent[i]) /\ ItemAt(sent[i], off[i - 1], off[i])
    BY ItemsInBytes
  <2>2. PICK i : i = d + 1
    OBVIOUS
  <2>3. i \in 1 .. Len(sent) /\ i - 1 = d
    BY <1>1, <1>3, <2>2
  <2>4. sent[i] \in Items /\ EncodeFits(sent[i]) /\ ItemAt(sent[i], off[d], off[i])
    BY <2>1, <2>3, Zenon
  <2> QED BY <1>1, <2>2, <2>4, Zenon
<1>5. off[d + 1] = pos + l + 2 /\ off[d + 1] <= Len(payload)
  BY <1>4, Zenon DEF ItemAt
<1>6. /\ payload[pos + 1] = item.type /\ payload[pos + 2] = l % 256
      /\ \A m \in 1 .. l : payload[pos + 2 + m] = b[m]
  BY <1>4, Zenon DEF ItemAt
<1>7. Clean(report, report.items[d + 1])
  <2>1. d + 1 \in 1 .. d + 1
    BY <1>1
  <2> QED BY <2>1, Zenon DEF CleanUpTo
<1>8. Told(item) /\ l \in 0 .. 255
  BY <1>2, <1>4, <1>7, CleanIsTold
<1>9. b \in Seq(Byte)
  BY <1>4, EncodedItem
<1> HIDE DEF item, b
<1>10. DecodeItem(item.type, b) = <<item>>
  BY <1>4, <1>8, DecodedAsSent DEF b
<1>11. l \in Nat
  BY <1>9, LenProperties DEF l
<1>12. l % 256 = l
  <2>1. \A x \in 0 .. 255 : x % 256 = x
    OBVIOUS
  <2> QED BY <1>8, <2>1, Zenon
<1>13. l = Len(b)
  OBVIOUS
<1> HIDE DEF l
<1>14. payload[pos + 2] = l
  BY <1>6, <1>12, Zenon
<1>15. Len(payload) \in Nat
  BY <1>1, LenProperties
<1>16. Readable
  <2>1. Len(payload) - pos >= 2 /\ Len(payload) - pos - 2 >= l
    BY <1>1, <1>5, <1>11, <1>15
  <2> QED BY <1>14, <2>1, Zenon DEF Readable, LeftToRead
<1>17. SubSeq(payload, pos + 3, pos + 2 + l) = b
  <2> DEFINE lo == pos + 3
             hi == pos + 2 + l
             s == SubSeq(payload, lo, hi)
  <2>1. \A i \in lo .. hi : payload[i] \in Byte
    <3> TAKE i \in lo .. hi
    <3>1. i \in 1 .. Len(payload)
      BY <1>1, <1>5, <1>11, <1>15
    <3> QED BY <1>1, <3>1, ElementOfSeq
  <2>2. lo \in Int /\ hi \in Int /\ hi - lo + 1 = l /\ (l = 0 \/ lo <= hi)
    BY <1>1, <1>11
  <2>3. /\ s \in Seq(Byte) /\ Len(s) = IF lo <= hi THEN hi - lo + 1 ELSE 0
        /\ \A i \in 1 .. hi - lo + 1 : s[i] = payload[lo + i - 1]
    <3> HIDE DEF lo, hi
    <3> QED BY <2>1, <2>2, SubSeqProperties
  <2> HIDE DEF s
  <2>4. Len(s) = l
    BY <1>11, <2>2, <2>3
  <2>5. ASSUME NEW i \in 1 .. l PROVE s[i] = b[i]
    <3>1. s[i] = payload[lo + i - 1]
      BY <2>2, <2>3, Zenon
    <3>2. lo + i - 1 = pos + 2 + i
      BY <1>1, <1>11
    <3> QED BY <1>6, <3>1, <3>2, Zenon
  <2> QED BY <1>9, <1>13, <2>3, <2>4, <2>5, SeqEqual DEF s
<1>18. pos + 2 + l = off[d + 1] /\ off[d + 1] \in 0 .. Len(payload)
  BY <1>1, <1>5, <1>11, <1>15
<1>19. DecodeItem(payload[pos + 1], SubSeq(payload, pos + 3, pos + 2 + l)) = <<item>>
  BY <1>6, <1>10, <1>17, Zenon
<1> QED BY <1>3, <1>14, <1>16, <1>18, <1>19, Zenon DEF item

NextIsClean == LET k == Len(decoded) + 1 IN k \in DOMAIN report.items /\ CleanUpTo(k)

LEMMA NotCleanIsPast ==
  ASSUME ReportTypes, NEW sent, NEW off, Sending(sent), Aligned(off, sent), ~ NextIsClean
  PROVE  Past
<1> DEFINE d == Len(decoded)
           items == report.items
<1>1. /\ d \in Nat /\ DOMAIN decoded = 1 .. d
      /\ Len(items) \in Nat /\ DOMAIN items = 1 .. Len(items)
  <2>1. decoded \in Seq(Items)
    BY DEF ReportTypes
  <2> QED BY <2>1, LenProperties, ItemsListed
<1>2. /\ \A j \in 1 .. d : decoded[j] = sent[j]
      /\ \A k \in DOMAIN items : CleanUpTo(k) => sent[k] = Arrives(items[k])
  BY Zenon DEF Aligned, Sending
<1>3. ~ (d + 1 \in DOMAIN items /\ CleanUpTo(d + 1))
  BY Zenon DEF NextIsClean
<1>4. \A k : CleanUpTo(k) <=> \A j \in 1 .. k : Clean(report, items[j])
  BY Zenon DEF CleanUpTo
<1> HIDE DEF d, items
<1>5. ASSUME NEW k \in DOMAIN items, CleanUpTo(k)
      PROVE  k \in DOMAIN decoded /\ decoded[k] = Arrives(items[k])
  <2>1. k \in 1 .. Len(items)
    BY <1>1
  <2>2. CASE k <= d
    <3>1. k \in 1 .. d
      BY <1>1, <2>1, <2>2
    <3> QED BY <1>1, <1>2, <1>5, <3>1, Zenon
  <2>3. CASE ~ (k <= d)
    <3>1. d + 1 \in 1 .. Len(items) /\ \A j \in 1 .. d + 1 : j \in 1 .. k
      BY <1>1, <2>1, <2>3
    <3>2. CleanUpTo(d + 1)
      BY <1>5, <1>4, <3>1, Zenon
    <3> QED BY <1>1, <1>3, <3>1, <3>2, Zenon
  <2> QED BY <2>2, <2>3
<1> QED BY <1>5, Zenon DEF Past, items

\* When everything is read, the clean items are.
LEMMA AllRead == ReportInv /\ LeftToRead = 0 => Past
<1> SUFFICES ASSUME ReportInv, LeftToRead = 0 PROVE Past
  OBVIOUS
<1>1. PICK sent, off : Sending(sent) /\ Ends(off, sent) /\ (Aligned(off, sent) \/ Past)
  BY DEF ReportInv
<1>2. ReportTypes
  BY DEF ReportInv
<1>3. CASE Aligned(off, sent) /\ NextIsClean
  <2>1. Readable
    BY <1>1, <1>2, <1>3, NextRead DEF NextIsClean
  <2> QED BY <2>1 DEF Readable
<1>4. CASE Aligned(off, sent) /\ ~ NextIsClean
  BY <1>1, <1>2, <1>4, NotCleanIsPast
<1> QED BY <1>1, <1>3, <1>4

LEMMA PastGrows ==
  ASSUME Past, decoded \in Seq(Items), NEW more \in Seq(Items),
         decoded' = decoded \o more, UNCHANGED <<report, way>>
  PROVE  Past'
<1>1. /\ Len(decoded) \in Nat /\ DOMAIN decoded = 1 .. Len(decoded)
      /\ Len(more) \in Nat
      /\ decoded' \in Seq(Items) /\ Len(decoded') = Len(decoded) + Len(more)
      /\ \A i \in 1 .. Len(decoded) + Len(more) :
           decoded'[i] = IF i <= Len(decoded) THEN decoded[i] ELSE more[i - Len(decoded)]
  BY LenProperties, ConcatProperties
<1>2. DOMAIN decoded' = 1 .. Len(decoded')
  BY <1>1, LenProperties
<1>3. ASSUME NEW k \in DOMAIN decoded
      PROVE  k \in DOMAIN decoded' /\ decoded'[k] = decoded[k]
  <2>1. k \in 1 .. Len(decoded) + Len(more) /\ k <= Len(decoded)
    BY <1>1
  <2> QED BY <1>1, <1>2, <2>1
<1>4. report' = report /\ way' = way
  OBVIOUS
<1> QED BY <1>3, <1>4, Zenon DEF Past, CleanUpTo, Arrives

LEMMA DecodeTypes ==
  ASSUME ReportTypes, Decode
  PROVE  /\ ReportTypes'
         /\ \E more \in Seq(Items) : decoded' = decoded \o more
<1> DEFINE len == payload[pos + 2]
           s == SubSeq(payload, pos + 3, pos + 2 + len)
           more == DecodeItem(payload[pos + 1], s)
<1>1. /\ decoded \in Seq(Items) /\ payload \in Seq(Byte) /\ pos \in 0 .. Len(payload)
      /\ Readable /\ pos' = pos + 2 + len /\ decoded' = decoded \o more
      /\ report' = report /\ payload' = payload /\ way' = way
  BY DEF ReportTypes, Decode
<1>2. /\ Len(payload) \in Nat /\ pos \in Nat
      /\ Len(payload) - pos >= 2 /\ Len(payload) - pos - 2 >= len
  BY <1>1, LenProperties DEF Readable, LeftToRead
<1>3. \A i \in 1 .. Len(payload) : payload[i] \in Byte
  BY <1>1, ElementOfSeq
<1>4. pos + 1 \in 1 .. Len(payload) /\ pos + 2 \in 1 .. Len(payload)
  BY <1>2
<1>5. payload[pos + 1] \in Byte /\ len \in Byte
  BY <1>3, <1>4
<1>6. len \in Nat
  BY <1>5 DEF Byte
<1> DEFINE lo == pos + 3
           hi == pos + 2 + len
<1>7. s \in Seq(Byte)
  <2>1. lo \in Int /\ hi \in Int /\ hi <= Len(payload) /\ lo >= 1
    <3> HIDE DEF len
    <3> QED BY <1>2, <1>6
  <2>2. \A i \in lo .. hi : payload[i] \in Byte
    <3> HIDE DEF lo, hi
    <3> QED BY <1>2, <1>3, <2>1
  <2>3. s = SubSeq(payload, lo, hi)
    OBVIOUS
  <2> HIDE DEF lo, hi, s
  <2> QED BY <2>1, <2>2, <2>3, SubSeqProperties
<1>8. more \in Seq(Items)
  <2> HIDE DEF s, len
  <2> QED BY <1>5, <1>7, DecodedIsItem
<1> HIDE DEF more, len, s
<1>9. decoded' \in Seq(Items)
  BY <1>1, <1>8, ConcatProperties
<1>10. pos' \in 0 .. Len(payload')
  BY <1>1, <1>2, <1>6
<1> QED BY <1>1, <1>8, <1>9, <1>10 DEF ReportTypes

LEMMA SameSending ==
  ASSUME UNCHANGED <<report, payload, way>>
  PROVE  \A sent, off : /\ Sending(sent) => Sending(sent)'
                        /\ Ends(off, sent) => Ends(off, sent)'
<1>1. report' = report /\ payload' = payload /\ way' = way
  OBVIOUS
<1> QED BY <1>1, Zenon DEF Sending, Ends, CleanUpTo, Arrives

-----------------------------------------------------------------------------
\* The steps, and the initial state.
LEMMA DecodeStep == ReportInv /\ Decode => ReportInv'
<1> SUFFICES ASSUME ReportInv, Decode PROVE ReportInv'
  OBVIOUS
<1> DEFINE d == Len(decoded)
<1>1. PICK sent, off : Sending(sent) /\ Ends(off, sent) /\ (Aligned(off, sent) \/ Past)
  BY DEF ReportInv
<1>2. ReportTypes /\ ReportTypes' /\ UNCHANGED <<report, payload, way>>
  BY DecodeTypes DEF ReportInv, Decode
<1>3. PICK more \in Seq(Items) : decoded' = decoded \o more
  BY <1>2, DecodeTypes
<1>4. Sending(sent)' /\ Ends(off, sent)'
  BY <1>1, <1>2, SameSending
<1>5. decoded \in Seq(Items) /\ d \in Nat
  BY <1>2, LenProperties DEF ReportTypes
<1>6. Past => Past'
  BY <1>2, <1>3, <1>5, PastGrows
<1>7. CASE Aligned(off, sent) /\ NextIsClean
  <2>1. /\ d + 1 \in 1 .. Len(sent)
        /\ pos + 2 + payload[pos + 2] = off[d + 1]
        /\ DecodeItem(payload[pos + 1], SubSeq(payload, pos + 3, pos + 2 + payload[pos + 2]))
              = <<sent[d + 1]>>
    BY <1>1, <1>2, <1>7, NextRead DEF NextIsClean
  <2>2. /\ pos' = pos + 2 + payload[pos + 2]
        /\ decoded' = decoded \o
             DecodeItem(payload[pos + 1], SubSeq(payload, pos + 3, pos + 2 + payload[pos + 2]))
    BY Zenon DEF Decode
  <2>3. pos' = off[d + 1] /\ decoded' = decoded \o <<sent[d + 1]>>
    BY <2>1, <2>2, Zenon
  <2>4. sent[d + 1] \in Items /\ Len(sent) \in Nat
    BY <1>1, <2>1, ItemsInBytes
  <2> DEFINE one == <<sent[d + 1]>>
  <2>5. one \in Seq(Items) /\ Len(one) = 1 /\ one[1] = sent[d + 1]
    BY <2>4
  <2>6. decoded' = decoded \o one
    BY <2>3
  <2> HIDE DEF one
  <2>7. /\ Len(decoded') = d + 1
        /\ \A i \in 1 .. d + 1 : decoded'[i] = IF i <= d THEN decoded[i] ELSE one[i - d]
    <3>1. /\ Len(decoded \o one) = d + Len(one)
          /\ \A i \in 1 .. d + Len(one) :
               (decoded \o one)[i] = IF i <= d THEN decoded[i] ELSE one[i - d]
      BY <1>5, <2>5, ConcatProperties, Zenon
    <3> HIDE DEF d
    <3> QED BY <2>6, <2>5, <3>1, Zenon
  <2>8. \A j \in 1 .. d : j \in DOMAIN report.items /\ CleanUpTo(j) /\ decoded[j] = sent[j]
    BY <1>7 DEF Aligned
  <2>9. ASSUME NEW j \in 1 .. d + 1
        PROVE  j \in DOMAIN report.items /\ CleanUpTo(j) /\ decoded'[j] = sent[j]
    <3>1. CASE j = d + 1
      <4>1. ~ (j <= d) /\ j - d = 1
        BY <1>5, <3>1
      <4>2. decoded'[j] = one[j - d]
        BY <2>7, <4>1, Zenon
      <4> QED BY <1>7, <2>5, <3>1, <4>1, <4>2, Zenon DEF NextIsClean
    <3>2. CASE j # d + 1
      <4>1. j \in 1 .. d /\ j <= d
        BY <1>5, <3>2
      <4>2. decoded'[j] = decoded[j]
        BY <2>7, <4>1, Zenon
      <4> QED BY <2>8, <4>1, <4>2, Zenon
    <3> QED BY <3>1, <3>2
  <2>10. d + 1 <= Len(sent)
    BY <1>5, <2>1, <2>4
  <2>11. Aligned(off, sent)'
    <3>1. report' = report /\ CleanUpTo(0) = CleanUpTo(0)
      BY <1>2
    <3>2. \A j : CleanUpTo(j)' <=> CleanUpTo(j)
      BY <3>1, Zenon DEF CleanUpTo
    <3> HIDE DEF d
    <3> QED BY <2>3, <2>7, <2>9, <2>10, <3>1, <3>2, Zenon DEF Aligned
  <2> QED BY <1>2, <1>4, <2>11, Zenon DEF ReportInv
<1>8. CASE Aligned(off, sent) /\ ~ NextIsClean
  <2>1. Past
    BY <1>1, <1>2, <1>8, NotCleanIsPast
  <2> QED BY <1>2, <1>4, <1>6, <2>1, Zenon DEF ReportInv
<1>9. CASE Past
  BY <1>2, <1>4, <1>6, <1>9, Zenon DEF ReportInv
<1> QED BY <1>1, <1>7, <1>8, <1>9

LEMMA DecodeFailsStep == ReportInv /\ DecodeFails => ReportInv'
<1> SUFFICES ASSUME ReportInv, DecodeFails PROVE ReportInv'
  OBVIOUS
<1>1. PICK sent, off : Sending(sent) /\ Ends(off, sent) /\ (Aligned(off, sent) \/ Past)
  BY DEF ReportInv
<1>2. /\ ReportTypes /\ ~ Readable /\ pos' = Len(payload)
      /\ report' = report /\ payload' = payload /\ decoded' = decoded /\ way' = way
  BY DEF ReportInv, DecodeFails, CursorAfterError
<1>3. Len(payload) \in Nat
  BY <1>2, LenProperties DEF ReportTypes
<1>4. ReportTypes'
  <2>1. Len(payload) \in 0 .. Len(payload)
    BY <1>3
  <2> QED BY <1>2, <2>1, Zenon DEF ReportTypes
<1>5. Sending(sent)' /\ Ends(off, sent)'
  BY <1>1, <1>2, SameSending
<1>6. Past
  <2>1. CASE Aligned(off, sent) /\ NextIsClean
    BY <1>1, <1>2, <2>1, NextRead DEF NextIsClean
  <2>2. CASE Aligned(off, sent) /\ ~ NextIsClean
    BY <1>1, <1>2, <2>2, NotCleanIsPast
  <2> QED BY <1>1, <2>1, <2>2
<1>7. Past'
  BY <1>2, <1>6, Zenon DEF Past, CleanUpTo, Arrives
<1> QED BY <1>4, <1>5, <1>7, Zenon DEF ReportInv

LEMMA RelayStep ==
  ASSUME ReportInv, NEW r \in Receptions, Relay(r)
  PROVE  ReportInv'
<1> DEFINE entry == [relay |-> Len(way) + 1, rssi |-> r.rssi, snr |-> r.snr]
           sent == [k \in DOMAIN decoded |-> OnTheWay(decoded[k], entry)]
           n == Len(decoded)
<1>1. /\ LeftToRead = 0 /\ Len(way) < MaxRelays
      /\ \A k \in DOMAIN sent : EncodeFits(sent[k])
      /\ payload' = EncodeAll(sent) /\ way' = Append(way, entry)
      /\ pos' = 0 /\ decoded' = <<>> /\ report' = report
  BY Zenon DEF Relay
<1>2. /\ report \in Reports /\ way \in Seq(PathEntries) /\ decoded \in Seq(Items)
      /\ n \in Nat /\ DOMAIN decoded = 1 .. n /\ Len(way) \in Nat
      /\ \A k \in 1 .. n : decoded[k] \in Items
  BY LenProperties, ElementOfSeq DEF ReportInv, ReportTypes
<1>3. Past
  BY <1>1, AllRead
<1>4. entry \in PathEntries
  <2>1. Len(way) + 1 \in Byte
    <3>1. \A l \in Nat, m \in 0 .. 7 : l < m => l + 1 \in Byte
      BY DEF Byte
    <3> QED BY <1>1, <1>2, <3>1, MaxRelaysFits, Zenon DEF MaxRelaysFits
  <2>2. r.rssi \in Int /\ r.snr \in Int
    BY ReceptionsType DEF ReceptionsType
  <2> QED BY <2>1, <2>2 DEF PathEntries
<1> HIDE DEF entry
<1>5. \A k \in 1 .. n : OnTheWay(decoded[k], entry) \in Items
  <2> TAKE k \in 1 .. n
  <2> DEFINE item == decoded[k]
  <2>1. /\ item.kind \in {"heartbeat", "proprietary"} /\ item.type \in Byte
        /\ item.value \in Seq(Byte) /\ item.path \in Seq(PathEntries) /\ item \in Items
    BY <1>2 DEF Items
  <2> HIDE DEF item
  <2>2. Append(item.path, entry) \in Seq(PathEntries)
    BY <1>4, <2>1, AppendProperties
  <2>3. [item EXCEPT !.path = Append(@, entry)] \in Items
    BY <2>1, <2>2 DEF Items
  <2> QED BY <2>1, <2>3, Zenon DEF OnTheWay, item
<1>6. sent \in Seq(Items) /\ DOMAIN sent = 1 .. n /\ Len(sent) = n
  <2> DEFINE t == [k \in 1 .. n |-> OnTheWay(decoded[k], entry)]
  <2>1. sent = t
    BY <1>2, Zenon
  <2>2. t \in Seq(Items) /\ Len(t) = n /\ DOMAIN t = 1 .. n
    <3> HIDE DEF n
    <3> QED BY <1>2, <1>5
  <2> QED BY <2>1, <2>2, Zenon
<1>7. PICK off : Cuts(off, EncodeAll(sent), [k \in DOMAIN sent |-> Encode(sent[k])], Len(sent))
  <2> HIDE DEF sent
  <2> QED BY <1>1, <1>6, EncodedAll
<1>8. EncodeAll(sent) \in Seq(Byte)
  <2> HIDE DEF sent
  <2> QED BY <1>1, <1>6, EncodedAll
<1>9. ASSUME NEW k \in DOMAIN report.items, CleanUpTo(k)
      PROVE  k \in 1 .. n /\ sent[k] = Arrives(report.items[k])'
  <2> DEFINE given == report.items[k]
  <2>1. k \in 1 .. n /\ decoded[k] = Arrives(given)
    BY <1>2, <1>3, <1>9, Zenon DEF Past
  <2>2. sent[k] = OnTheWay(Arrives(given), entry)
    BY <1>2, <2>1, Zenon
  <2>3. OnTheWay(Heartbeat(way), entry) = Heartbeat(Append(way, entry))
    BY DEF OnTheWay, Heartbeat
  <2>4. CASE given.kind = "heartbeat"
    BY <1>1, <2>1, <2>2, <2>3, <2>4, Zenon DEF Arrives
  <2>5. CASE given.kind # "heartbeat"
    BY <1>1, <2>1, <2>2, <2>5, Zenon DEF Arrives, OnTheWay
  <2> QED BY <2>4, <2>5
<1>10. PICK s : s = sent
  OBVIOUS
<1> HIDE DEF sent
<1>11. Sending(s)'
  BY <1>1, <1>6, <1>9, <1>10, Zenon DEF Sending, CleanUpTo
<1>12. Ends(off, s)'
  BY <1>1, <1>7, <1>10, Zenon DEF Ends
<1>13. Aligned(off, s)'
  <2>1. Len(decoded') = 0 /\ Len(decoded') <= Len(sent)
    BY <1>1, <1>2, <1>6, EmptySeq
  <2>2. \A j \in 1 .. 0 : FALSE
    OBVIOUS
  <2>3. off[0] = 0
    BY <1>7, Zenon DEF Cuts
  <2> QED BY <1>1, <1>10, <2>1, <2>2, <2>3, Zenon DEF Aligned
<1>14. ReportTypes'
  <2>1. way' \in Seq(PathEntries) /\ Len(way') = Len(way) + 1
    BY <1>1, <1>2, <1>4, AppendProperties
  <2>2. Len(way') <= MaxRelays
    BY <1>1, <1>2, <2>1, MaxRelaysFits DEF MaxRelaysFits
  <2>3. pos' \in 0 .. Len(payload') /\ payload' \in Seq(Byte)
    BY <1>1, <1>8, LenProperties
  <2>4. decoded' \in Seq(Items)
    BY <1>1, EmptySeq
  <2> QED BY <1>1, <1>2, <2>1, <2>2, <2>3, <2>4, Zenon DEF ReportTypes
<1> QED BY <1>11, <1>12, <1>13, <1>14, Zenon DEF ReportInv

LEMMA ReportStart == ReportInit => ReportInv
<1> SUFFICES ASSUME ReportInit PROVE ReportInv
  OBVIOUS
<1> DEFINE items == report.items
           sent == Sent(report)
           n == Len(items)
<1>1. /\ report \in Reports /\ payload = EncodeAll(sent)
      /\ pos = 0 /\ decoded = <<>> /\ way = <<>>
  BY Zenon DEF ReportInit
<1>2. \/ report.kind = "Event" /\ items \in Seq({Heartbeat(<<>>)} \cup Proprietaries(Byte))
      \/ report.kind = "Command" /\ items \in Seq(Proprietaries(Nat))
  <2>1. \/ report \in [kind : {"Event"}, items : Seq({Heartbeat(<<>>)} \cup Proprietaries(Byte))]
        \/ report \in [kind : {"Command"}, items : Seq(Proprietaries(Nat))]
    BY <1>1, ReportsAreItems DEF ReportsAreItems
  <2> QED BY <2>1
<1>3. <<>> \in Seq(Byte) /\ <<>> \in Seq(PathEntries) /\ DOMAIN <<>> = {} /\ Len(<<>>) = 0
  BY EmptySeq
<1>4. ASSUME NEW x \in Proprietaries(Nat)
      PROVE  LET y == [x EXCEPT !.type = @ % 256] IN
               /\ y \in Items /\ y.path = <<>> /\ x.kind # "heartbeat"
               /\ x.type \in Byte => y = x
  <2>1. x.kind = "proprietary" /\ x.type \in Nat /\ x.value \in Seq(Byte) /\ x.path = <<>>
    BY DEF Proprietaries
  <2>2. \A t \in Nat : t % 256 \in Byte
    BY DEF Byte
  <2>3. \A t \in Byte : t % 256 = t
    BY DEF Byte
  <2> DEFINE y == [x EXCEPT !.type = @ % 256]
  <2>4. y = [kind |-> x.kind, type |-> x.type % 256, value |-> x.value, path |-> x.path]
    BY DEF Proprietaries
  <2>5. x = [kind |-> x.kind, type |-> x.type, value |-> x.value, path |-> x.path]
    BY DEF Proprietaries
  <2>6. x.type \in Byte => y = x
    BY <2>3, <2>4, <2>5, Zenon
  <2> HIDE DEF y
  <2>7. x.type % 256 \in Byte
    BY <2>1, <2>2, Zenon
  <2> DEFINE c == x.type % 256
  <2>8. c \in Byte /\ y = [kind |-> x.kind, type |-> c, value |-> x.value, path |-> x.path]
    BY <2>4, <2>7
  <2> HIDE DEF c
  <2>9. y \in Items /\ y.path = <<>>
    BY <1>3, <2>1, <2>8 DEF Items
  <2> QED BY <2>1, <2>6, <2>9 DEF y
<1>5. \A x \in {Heartbeat(<<>>)} \cup Proprietaries(Byte) : x \in Items /\ x.path = <<>>
  <2>1. 0 \in Byte
    BY DEF Byte
  <2>2. Heartbeat(<<>>) \in Items /\ Heartbeat(<<>>).path = <<>>
    BY <1>3, <2>1 DEF Items, Heartbeat
  <2>3. \A x \in Proprietaries(Byte) : x \in Items /\ x.path = <<>>
    BY <1>3 DEF Items, Proprietaries
  <2> QED BY <2>2, <2>3, Zenon
<1>6. /\ sent \in Seq(Items) /\ DOMAIN sent = DOMAIN items
      /\ \A k \in DOMAIN sent : sent[k].path = <<>>
      /\ \A k \in DOMAIN items : Clean(report, items[k]) => sent[k] = Arrives(items[k])
  <2>1. CASE report.kind = "Event" /\ items \in Seq({Heartbeat(<<>>)} \cup Proprietaries(Byte))
    <3>1. sent = items
      <4>1. report.kind # "Command"
        BY <2>1
      <4> QED BY <4>1, Zenon DEF Sent
    <3> HIDE DEF items, sent
    <3>2. n \in Nat /\ DOMAIN items = 1 .. n
          /\ \A k \in 1 .. n : items[k] \in {Heartbeat(<<>>)} \cup Proprietaries(Byte)
      BY <2>1, LenProperties, ElementOfSeq
    <3>3. \A k \in 1 .. n : items[k] \in Items /\ items[k].path = <<>>
      BY <1>5, <3>2, Zenon
    <3>4. items \in Seq(Items)
      <4> DEFINE t == [k \in 1 .. n |-> items[k]]
      <4>1. items = t
        BY <2>1, <3>2
      <4>2. t \in Seq(Items)
        <5> HIDE DEF n
        <5> QED BY <3>2, <3>3
      <4> QED BY <4>1, <4>2, Zenon
    <3>5. \A k \in DOMAIN items : items[k] = Arrives(items[k])
      <4>1. \A x \in {Heartbeat(<<>>)} \cup Proprietaries(Byte) :
              x.kind = "heartbeat" => x = Heartbeat(<<>>)
        BY DEF Proprietaries
      <4> QED BY <1>1, <3>2, <4>1, Zenon DEF Arrives
    <3> QED BY <3>1, <3>2, <3>3, <3>4, <3>5, Zenon
  <2>2. CASE report.kind = "Command" /\ items \in Seq(Proprietaries(Nat))
    <3>1. sent = [k \in DOMAIN items |-> [items[k] EXCEPT !.type = @ % 256]]
      BY <2>2, Zenon DEF Sent
    <3> HIDE DEF items, sent
    <3>2. n \in Nat /\ DOMAIN items = 1 .. n /\ \A k \in 1 .. n : items[k] \in Proprietaries(Nat)
      BY <2>2, LenProperties, ElementOfSeq
    <3>3. \A k \in 1 .. n : /\ sent[k] = [items[k] EXCEPT !.type = @ % 256]
                            /\ sent[k] \in Items /\ sent[k].path = <<>>
                            /\ items[k].kind # "heartbeat"
                            /\ items[k].type \in Byte => sent[k] = items[k]
      BY <1>4, <3>1, <3>2, Zenon
    <3>4. DOMAIN sent = 1 .. n
      BY <3>1, <3>2, Zenon
    <3>5. sent \in Seq(Items)
      <4> DEFINE t == [k \in 1 .. n |-> sent[k]]
      <4>1. sent = t
        BY <3>1, <3>2, SMT DEF t
      <4>2. \A k \in 1 .. n : sent[k] \in Items
        BY <3>3, Zenon
      <4>3. t \in Seq(Items)
        <5> HIDE DEF n
        <5> QED BY <3>2, <4>2
      <4> QED BY <4>1, <4>3, Zenon
    <3>6. ASSUME NEW k \in DOMAIN items, Clean(report, items[k])
          PROVE  sent[k] = Arrives(items[k])
      <4>1. items[k].type \in Byte
        <5>1. report.kind # "Event"
          BY <2>2
        <5> QED BY <3>2, <3>3, <3>6, <5>1, Zenon DEF Clean
      <4> QED BY <3>2, <3>3, <4>1, Zenon DEF Arrives
    <3> QED BY <3>2, <3>3, <3>4, <3>5, <3>6, Zenon
  <2> QED BY <1>2, <2>1, <2>2
<1>7. DOMAIN items = 1 .. n /\ n \in Nat
  BY <1>2, LenProperties
<1> HIDE DEF sent, items
<1>8. \A k \in DOMAIN sent : EncodeFits(sent[k])
  BY <1>3, <1>6, Zenon DEF EncodeFits
<1>9. /\ EncodeAll(sent) \in Seq(Byte)
      /\ \E off : Cuts(off, EncodeAll(sent), [k \in DOMAIN sent |-> Encode(sent[k])], Len(sent))
  BY <1>6, <1>8, EncodedAll, Zenon
<1>10. PICK off : Ends(off, sent)
  BY <1>1, <1>9, Zenon DEF Ends
<1>11. Sending(sent)
  <2>1. \A k \in DOMAIN items : CleanUpTo(k) => Clean(report, items[k])
    <3>1. \A k \in DOMAIN items : k \in 1 .. k
      BY <1>7
    <3> QED BY <3>1, Zenon DEF CleanUpTo, items
  <2> QED BY <1>1, <1>6, <1>8, <2>1, Zenon DEF Sending, items
<1>12. Aligned(off, sent)
  <2>1. Len(sent) \in Nat /\ Len(decoded) = 0
    BY <1>1, <1>3, <1>6, LenProperties
  <2>2. \A j \in 1 .. 0 : FALSE
    OBVIOUS
  <2>3. off[0] = 0
    BY <1>10, Zenon DEF Ends, Cuts
  <2>4. Len(decoded) <= Len(sent)
    BY <2>1
  <2> QED BY <1>1, <2>1, <2>2, <2>3, <2>4, Zenon DEF Aligned
<1>13. ReportTypes
  <2>1. Len(way) <= MaxRelays
    BY <1>1, <1>3, MaxRelaysFits DEF MaxRelaysFits
  <2>2. pos \in 0 .. Len(payload)
    BY <1>1, <1>9, LenProperties
  <2>3. decoded \in Seq(Items)
    BY <1>1, EmptySeq
  <2> QED BY <1>1, <1>3, <1>9, <2>1, <2>2, <2>3, Zenon DEF ReportTypes
<1> QED BY <1>10, <1>11, <1>12, <1>13, Zenon DEF ReportInv


LEMMA ItemsOfReport == ReportInv => ItemsSurvive
<1> SUFFICES ASSUME ReportInv, LeftToRead = 0,
                    NEW k \in DOMAIN report.items, CleanUpTo(k)
             PROVE  k <= Len(decoded) /\ decoded[k] = Arrives(report.items[k])
  BY Zenon DEF ItemsSurvive, CleanUpTo
<1>1. k \in DOMAIN decoded /\ decoded[k] = Arrives(report.items[k])
  BY AllRead, Zenon DEF Past
<1>2. decoded \in Seq(Items)
  BY DEF ReportInv, ReportTypes
<1>3. Len(decoded) \in Nat /\ DOMAIN decoded = 1 .. Len(decoded)
  BY <1>2, LenProperties
<1> QED BY <1>1, <1>3
=============================================================================
