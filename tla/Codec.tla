------------------------------- MODULE Codec -------------------------------
(***************************************************************************)
(* How mesh packets are written as bytes (packets.rs:192-910).  A byte is  *)
(* a number; what is copied through unchanged, the relay ID and the        *)
(* LoRaWAN frame, is left out.  Every to_bytes of the code refuses some    *)
(* values: ...Fits says which ones it takes, ...ToBytes what it makes of   *)
(* them.                                                                   *)
(***************************************************************************)
EXTENDS Integers, Sequences

Byte == 0 .. 255

-----------------------------------------------------------------------------
(***************************************************************************)
(* RSSI and SNR, in the metadata of an uplink and in every entry of the    *)
(* relay path of a heartbeat: the SNR takes 6 bits, in two's complement.   *)
(***************************************************************************)
RssiFits(rssi) == rssi \in -255 .. 0
SnrFits(snr) == snr \in -32 .. 31

SnrToByte(snr) == IF snr < 0 THEN snr + 64 ELSE snr

\* A slip: the six bits are read as an unsigned number.
ByteToSnrUnsigned(b) == b % 64

ByteToSnr(b) == LET s == b % 64 IN IF s > 31 THEN s - 64 ELSE s

\* RelayPath, the relay ID apart.
PathEntryFits(e) == RssiFits(e.rssi) /\ SnrFits(e.snr)

-----------------------------------------------------------------------------
(***************************************************************************)
(* Frequencies are u32 numbers of Hz, beyond TLC's integers: one is        *)
(* written as 100 * h + z.  Three bytes hold steps of 100 Hz or, from      *)
(* 2.4 GHz on, of 200 Hz; a number of steps from 12000000 on is read back  *)
(* as steps of 200 Hz.                                                     *)
(***************************************************************************)
Frequency == [h : Nat, z : 0 .. 99]

Halved(f) == [h |-> f.h \div 2, z |-> ((f.h % 2) * 100 + f.z) \div 2]

\* encode_freq, before it checks what it can take.
Steps(f) == IF f.h >= 24000000 THEN Halved(f) ELSE f

FreqFits(f) == Steps(f).h < 16777216 /\ Steps(f).z = 0

\* to_be_bytes and from_be_bytes, without the first of four bytes.
ToBytes(n) == <<n \div 65536, (n \div 256) % 256, n % 256>>
FromBytes(b) == b[1] * 65536 + b[2] * 256 + b[3]

EncodeFreq(f) == ToBytes(Steps(f).h)

\* A slip: the step is chosen at the frequency, not at the number of steps.
DecodeFreqAtFrequency(b) ==
  LET n == FromBytes(b) IN [h |-> IF n >= 24000000 THEN 2 * n ELSE n, z |-> 0]

DecodeFreq(b) ==
  LET n == FromBytes(b) IN [h |-> IF n >= 12000000 THEN 2 * n ELSE n, z |-> 0]

-----------------------------------------------------------------------------
\* MHDR: three bits of 1, two for the type, three for the hop count.
PayloadTypeToByte == [Uplink |-> 0, Downlink |-> 1, Event |-> 2, Command |-> 3]

PayloadTypeFromByte(b) ==
  CHOOSE t \in DOMAIN PayloadTypeToByte : PayloadTypeToByte[t] = b

MhdrFits(p) == p.hop \in 1 .. 8

MhdrToByte(p) == 224 + 8 * PayloadTypeToByte[p.type] + p.hop - 1

-----------------------------------------------------------------------------
\* UplinkMetadata: 12 bits of uplink ID and 4 of data-rate, RSSI, SNR, channel.
UplinkFits(m) ==
  m.uplink_id \in 0 .. 4095 /\ m.dr \in 0 .. 15 /\ RssiFits(m.rssi) /\ SnrFits(m.snr)

UplinkToBytes(m) ==
  <<m.uplink_id \div 16, (m.uplink_id % 16) * 16 + m.dr, - m.rssi, SnrToByte(m.snr),
    m.channel>>

UplinkFromBytes(b) ==
  [uplink_id |-> b[1] * 16 + b[2] \div 16, dr |-> b[2] % 16,
   rssi |-> - b[3], snr |-> ByteToSnr(b[4]), channel |-> b[5]]

(***************************************************************************)
(* DownlinkMetadata: uplink ID and data-rate as above, frequency, 4 bits   *)
(* of TX power index, 4 bits of delay, which counts from 1.                *)
(***************************************************************************)
\* Two slips: the delay is checked as the four bits it takes, or not at all.
DelayFitsFourBits(delay) == delay \in 1 .. 15
DelayFitsUnchecked(delay) == delay >= 1

DelayFits(delay) == delay \in 1 .. 16

DownlinkFits(m) ==
  /\ m.uplink_id \in 0 .. 4095 /\ m.dr \in 0 .. 15
  /\ DelayFits(m.delay) /\ m.tx_power \in 0 .. 15
  /\ FreqFits(m.frequency)

DownlinkToBytes(m) ==
  LET freq == EncodeFreq(m.frequency)
  IN <<m.uplink_id \div 16, (m.uplink_id % 16) * 16 + m.dr, freq[1], freq[2], freq[3],
       m.tx_power * 16 + (m.delay - 1)>>

\* A slip: the delay is read as it is written, from 0.
DownlinkFromBytesZero(b) ==
  [uplink_id |-> b[1] * 16 + b[2] \div 16, dr |-> b[2] % 16,
   frequency |-> DecodeFreq(<<b[3], b[4], b[5]>>),
   tx_power |-> b[6] \div 16, delay |-> b[6] % 16]

DownlinkFromBytes(b) ==
  [uplink_id |-> b[1] * 16 + b[2] \div 16, dr |-> b[2] % 16,
   frequency |-> DecodeFreq(<<b[3], b[4], b[5]>>),
   tx_power |-> b[6] \div 16, delay |-> (b[6] % 16) + 1]

-----------------------------------------------------------------------------
(***************************************************************************)
(* MeshPacket, of an uplink or a downlink: the first byte and the          *)
(* metadata.  The MIC is computed over these bytes, by the sender over     *)
(* those it sends, by the receiver over those it writes again from what it *)
(* has read (mic_bytes).                                                   *)
(***************************************************************************)
PacketFits(p) ==
  /\ MhdrFits(p)
  /\ IF p.type = "Uplink" THEN UplinkFits(p.metadata) ELSE DownlinkFits(p.metadata)

PacketToVec(p) ==
  [mhdr     |-> MhdrToByte(p),
   metadata |-> IF p.type = "Uplink" THEN UplinkToBytes(p.metadata)
                                     ELSE DownlinkToBytes(p.metadata)]

PacketFromSlice(b) ==
  LET type == PayloadTypeFromByte((b.mhdr \div 8) % 4)
  IN [type |-> type, hop |-> (b.mhdr % 8) + 1,
      metadata |-> IF type = "Uplink" THEN UplinkFromBytes(b.metadata)
                                      ELSE DownlinkFromBytes(b.metadata)]
=============================================================================
