------------------------------- MODULE MCAir -------------------------------
(***************************************************************************)
(* Boundary values of every field, for TLC.                                *)
(***************************************************************************)
EXTENDS Air, TLC

Hz(h, z) == [h |-> h, z |-> z]

\* 868.1 MHz, listed twice as a careless configuration may, 868.3 MHz, and a last
\* channel that is the first one in eight bits.
MCChannels == [n \in 1 .. 257 |-> IF n <= 2 THEN Hz(8681000, 0)
                                  ELSE IF n = 257 THEN Hz(8689000, 0) ELSE Hz(8683000, 0)]

\* The index of FSK takes five bits, that of GFSK nine.
MCDataRates == [n \in 1 .. 258 |-> CASE n = 1 -> "SF12" [] n = 16 -> "SF7" [] n = 17 -> "FSK"
                                     [] n = 258 -> "GFSK" [] OTHER -> "others"]

MCUnmapped == {"LR-FHSS"}
MCModulations == {"SF12", "SF7", "FSK", "GFSK", "others", "LR-FHSS", "unlisted"}

Uplink(f, m, r, s, id) ==
  [frequency |-> f, modulation |-> m, rssi |-> r, snr |-> s, uplink_id |-> id]

\* SNRs in quarters of a dB.
MCHeard ==
  {Uplink(f, m, -100, 20, 7) :
     f \in {Hz(8681000, 0), Hz(8683000, 0), Hz(8685000, 0), Hz(8689000, 0)},
     m \in MCModulations}
  \cup {Uplink(Hz(8683000, 0), "SF7", r, 20, id) :
          r \in {-256, -255, -128, -1, 0, 1, 65436}, id \in {0, 1, 15, 16, 255, 4095}}
  \cup {Uplink(Hz(8681000, 0), "SF12", -1, s, 1) :
          s \in {-600, -132, -131, -128, -127, -5, -4, -1, 0, 1, 5, 127, 128, 600}}

Downlink(f, m, s, id) == [frequency |-> f, modulation |-> m, seconds |-> s, uplink_id |-> id]

\* Around what encode_freq and decode_freq compare with.
MCFrequencies ==
  {Hz(8681000, 0), Hz(8681000, 50), Hz(11999999, 0), Hz(12000000, 0), Hz(16777215, 0),
   Hz(16777216, 0), Hz(23999999, 0), Hz(24000000, 0), Hz(24000000, 1), Hz(24000001, 0),
   Hz(24000002, 0), Hz(33554430, 0), Hz(33554432, 0), Hz(42949672, 95)}

MCAsked ==
  {Downlink(f, "SF12", 1, 1) : f \in MCFrequencies}
  \cup {Downlink(Hz(8681000, 0), "SF7", s, id) :
          s \in {0, 1, 5, 15, 16, 17, 255, 256, 257, 272, 273}, id \in {0, 4095, 4096}}
  \cup {Downlink(Hz(8681000, 0), m, 1, 1) : m \in MCModulations}

Fill(n, byte) == [k \in 1 .. n |-> byte]

\* Values whose length is around 256, and what can be taken for a heartbeat.
Values == {Fill(0, 0), Fill(1, 0), Fill(6, 200), Fill(255, 9), Fill(256, 85), Fill(257, 255),
           Fill(262, 128)}

MCReports ==
  [kind : {"Event"},
   items : {<<Heartbeat(<<>>)>>, <<Proprietary(128, Fill(2, 7)), Heartbeat(<<>>)>>,
            <<Heartbeat(<<>>), Proprietary(255, <<>>), Heartbeat(<<>>)>>}
           \cup {<<Heartbeat(<<>>), Proprietary(t, v)>> : t \in {0, 128}, v \in Values}]
  \cup [kind : {"Command"},
        items : {<<>>} \cup {<<Proprietary(t, Fill(3, 2)), Proprietary(u, v)>> :
                               t \in {129}, u \in {0, 128, 384}, v \in Values}]

MCReceptions == {[rssi |-> -255, snr |-> -32], [rssi |-> 0, snr |-> 31], [rssi |-> 1, snr |-> 0]}
=============================================================================
