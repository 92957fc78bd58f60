-------------------------------- MODULE Air --------------------------------
(***************************************************************************)
(* What a LoRaWAN frame keeps of its radio parameters on its way through   *)
(* the mesh: an uplink from a relay to the server (mesh.rs:182-252,        *)
(* 437-471), a downlink from the server to a relay (mesh.rs:508-571,       *)
(* 312-350), and the relays between that read and write it anew.  The      *)
(* mappings of the configuration (helpers.rs) turn frequencies, modulation *)
(* and power into the few bits the mesh packet has for them; they are the  *)
(* same on all gateways.  A downlink begins with the search of TxPower.    *)
(* The reports of the relays travel as Report says.                        *)
(*                                                                         *)
(* A modulation here is what tells data-rates apart: bandwidth, spreading  *)
(* factor and code rate, or a bit rate.  The polarization and the FSK      *)
(* frequency deviation are left out: modulation_to_dr does not look at     *)
(* them, and dr_to_modulation sets them anew, the one from the direction   *)
(* (mesh.rs:227, 334), the other as half the bit rate (helpers.rs:118).    *)
(* A delay is its whole seconds: the code reads nothing else (mesh.rs:536).*)
(***************************************************************************)
EXTENDS TxPower, Report

CONSTANTS Channels,  \* conf.mappings.channels, a sequence of frequencies
          DataRates, \* conf.mappings.data_rates, a sequence of modulations
          Modulations,
          Unmapped,  \* those no data-rate stands for: LR-FHSS, no code-rate
          Heard,     \* uplinks, as a relay's concentratord reports them
          Asked,     \* downlinks, as the server asks for them
          MaxHops,   \* bound: hops of an uplink or a downlink
          Nothing,   \* not yet
          Refused    \* an error ended the handler: nothing is sent

ASSUME MappingsAreLists == Channels \in Seq(Frequency) /\ DataRates \in Seq(Modulations)
ASSUME HeardAreUplinks ==
  Heard \subseteq [frequency : Frequency, modulation : Modulations, rssi : Int, snr : Int,
                   uplink_id : Nat]
ASSUME AskedAreDownlinks ==
  Asked \subseteq [frequency : Frequency, modulation : Modulations, seconds : Nat,
                   uplink_id : Nat]
ASSUME MaxHopsFits == MaxHops \in 1 .. 8
ASSUME NothingIsNone == Nothing \notin Heard \cup Asked \cup {Refused}
\* An error is not a downlink.
ASSUME RefusedIsNoDownlink ==
  Refused \notin [uplink_id : Nat, frequency : Frequency, power : Powers,
                  modulation : Modulations, seconds : Nat]

VARIABLES trip,  \* what travels: "uplink", "downlink" or "report"
          asked, \* the uplink as it was heard, the downlink as it was asked for
          frame, \* on the air: the bytes, and the bytes its MIC was computed over
          got    \* what the last gateway makes of it

airVars == <<trip, asked, frame, got>>
allVars == <<vars, reportVars, airVars>>

-----------------------------------------------------------------------------
\* frequency_to_chan and modulation_to_dr: the first entry that is equal, from 0.
IndexOf(list, x) == CHOOSE k \in DOMAIN list :
                      list[k] = x /\ \A j \in 1 .. k - 1 : list[j] # x
IsListed(list, x) == \E k \in DOMAIN list : list[k] = x

FrequencyToChan(f) == (IndexOf(Channels, f) - 1) % 256

\* A slip: indexes count from 1 on one side only.
ModulationToDrFromOne(m) == IndexOf(DataRates, m) % 256

ModulationToDr(m) == (IndexOf(DataRates, m) - 1) % 256

HasDr(m) == m \notin Unmapped /\ IsListed(DataRates, m)

\* chan_to_frequency, dr_to_modulation, index_to_tx_power: there may be no entry.
HasEntry(list, index) == index + 1 \in DOMAIN list
Entry(list, index) == list[index + 1]

\* Casts: i32 as i16 keeps 16 bits; f32 as i8 cuts toward zero and saturates.
AsI16(n) == ((n + 32768) % 65536) - 32768

\* The SNR a concentratord reports is a number of quarters of a dB.
SnrAsI8(quarters) ==
  LET whole == IF quarters >= 0 THEN quarters \div 4 ELSE - (- quarters \div 4)
  IN IF whole > 127 THEN 127 ELSE IF whole < -128 THEN -128 ELSE whole

\* seconds as u8; the nanos beside them are dropped.
SecondsAsU8(seconds) == seconds % 256

-----------------------------------------------------------------------------
UplinkPacket(u) ==
  [type |-> "Uplink", hop |-> 1,
   metadata |-> [uplink_id |-> u.uplink_id, dr |-> ModulationToDr(u.modulation),
                 rssi |-> AsI16(u.rssi), snr |-> SnrAsI8(u.snr),
                 channel |-> FrequencyToChan(u.frequency)]]

DownlinkPacket(d) ==
  [type |-> "Downlink", hop |-> 1,
   metadata |-> [uplink_id |-> d.uplink_id, dr |-> ModulationToDr(d.modulation),
                 frequency |-> d.frequency, tx_power |-> out - 1,
                 delay |-> SecondsAsU8(d.seconds)]]

Written(p) == [bytes |-> PacketToVec(p), mic |-> PacketToVec(p)]

\* to_vec fails on what the bits do not hold: there is no frame.
Send(p) ==
  IF PacketFits(p) THEN frame' = Written(p) /\ UNCHANGED got
                   ELSE got' = Refused /\ UNCHANGED frame

SendNothing == got' = Refused /\ UNCHANGED frame

-----------------------------------------------------------------------------
\* relay_uplink_lora_packet.
WrapUplink(u) ==
  /\ trip = "uplink" /\ asked = Nothing
  /\ asked' = u
  /\ IF HasDr(u.modulation) /\ IsListed(Channels, u.frequency)
     THEN Send(UplinkPacket(u)) ELSE SendNothing
  /\ UNCHANGED <<vars, reportVars, trip>>

\* relay_downlink_lora_packet, for one item, once the TX power is looked up.
WrapDownlink(d) ==
  /\ trip = "downlink" /\ asked = Nothing /\ Done
  /\ asked' = d
  /\ IF HasDr(d.modulation) /\ out # None THEN Send(DownlinkPacket(d)) ELSE SendNothing
  /\ UNCHANGED <<vars, reportVars, trip>>

OnTheAir == frame # Nothing /\ got = Nothing

\* validate_mic.
MicValid == PacketToVec(PacketFromSlice(frame.bytes)) = frame.mic

\* relay_mesh_packet: a relay between the two.
Forward ==
  LET p == PacketFromSlice(frame.bytes) IN
    /\ OnTheAir /\ MicValid /\ p.hop < MaxHops
    /\ frame' = Written([p EXCEPT !.hop = @ + 1])
    /\ UNCHANGED <<vars, reportVars, trip, asked, got>>

\* proxy_uplink_mesh_packet, at the border gateway.
UnwrapUplink ==
  LET m == PacketFromSlice(frame.bytes).metadata IN
    /\ trip = "uplink" /\ OnTheAir /\ MicValid
    /\ got' = IF HasEntry(Channels, m.channel) /\ HasEntry(DataRates, m.dr)
              THEN [uplink_id |-> m.uplink_id, rssi |-> m.rssi, snr |-> m.snr,
                    frequency |-> Entry(Channels, m.channel),
                    modulation |-> Entry(DataRates, m.dr)]
              ELSE Refused
    /\ UNCHANGED <<vars, reportVars, trip, asked, frame>>

\* relay_mesh_packet, at the relay the downlink is for.
UnwrapDownlink ==
  LET m == PacketFromSlice(frame.bytes).metadata IN
    /\ trip = "downlink" /\ OnTheAir /\ MicValid
    /\ got' = IF HasEntry(table, m.tx_power) /\ HasEntry(DataRates, m.dr)
              THEN [uplink_id |-> m.uplink_id, frequency |-> m.frequency,
                    power |-> Entry(table, m.tx_power),
                    modulation |-> Entry(DataRates, m.dr), seconds |-> m.delay]
              ELSE Refused
    /\ UNCHANGED <<vars, reportVars, trip, asked, frame>>

-----------------------------------------------------------------------------
\* Who does not take part in a trip is idle: one state of it is enough.
AirInit ==
  /\ trip \in {"uplink", "downlink", "report"}
  /\ asked = Nothing /\ frame = Nothing /\ got = Nothing
  /\ Init /\ (trip # "downlink" => table = <<>> /\ txPower = CHOOSE p \in Powers : TRUE)
  /\ ReportInit /\ (trip # "report" => report = CHOOSE r \in Reports : TRUE)

SearchPower == trip = "downlink" /\ Consider /\ UNCHANGED <<reportVars, airVars>>

ReadReport == trip = "report" /\ (Decode \/ DecodeFails) /\ UNCHANGED <<vars, airVars>>

PassReport(r) == trip = "report" /\ Relay(r) /\ UNCHANGED <<vars, airVars>>

AirNext ==
  \/ SearchPower \/ ReadReport
  \/ \E r \in Receptions : PassReport(r)
  \/ \E u \in Heard : WrapUplink(u)
  \/ \E d \in Asked : WrapDownlink(d)
  \/ Forward \/ UnwrapUplink \/ UnwrapDownlink

AirSpec == AirInit /\ [][AirNext]_allVars

\* The loop that reads the items is not interrupted.
AirFairSpec == AirSpec /\ WF_allVars(ReadReport)

-----------------------------------------------------------------------------
(***************************************************************************)
(* Every gateway accepts what the one before it sent: the MIC is computed  *)
(* over the bytes written anew from what was read, so reading and writing  *)
(* must lose nothing (packets.rs:98-108, 133-157).                         *)
(***************************************************************************)
MicSurvives == trip # "report" /\ frame # Nothing => MicValid

(***************************************************************************)
(* The server is told what the relay heard; the fraction of the SNR is     *)
(* lost, and the number of a channel or a data-rate and the RSSI are cut   *)
(* to the bits of their types (helpers.rs:10, 69, mesh.rs:463).            *)
(***************************************************************************)
UplinkAsHeard ==
  trip = "uplink" /\ got \notin {Nothing, Refused} =>
    /\ got.uplink_id = asked.uplink_id
    /\ got.frequency = asked.frequency \/ IndexOf(Channels, asked.frequency) > 256
    /\ got.modulation = asked.modulation \/ IndexOf(DataRates, asked.modulation) > 256
    /\ got.rssi = asked.rssi \/ asked.rssi < -32768 \/ asked.rssi > 32767
    /\ 4 * got.snr - asked.snr \in -3 .. 3

(***************************************************************************)
(* The relay answers the uplink that was meant, with the modulation asked  *)
(* for and no more power, and with the power itself if the mapping lists   *)
(* it.                                                                     *)
(***************************************************************************)
DownlinkAsAsked ==
  trip = "downlink" /\ got \notin {Nothing, Refused} =>
    /\ got.uplink_id = asked.uplink_id
    /\ got.modulation = asked.modulation \/ IndexOf(DataRates, asked.modulation) > 256
    /\ got.power <= txPower
    /\ txPower \in Listed => got.power = txPower

(***************************************************************************)
(* The receive window is the one asked for, or its delay was 257 seconds   *)
(* or more: no delay from 17 to 256 seconds comes out as another one.      *)
(***************************************************************************)
WindowAsAsked ==
  trip = "downlink" /\ got \notin {Nothing, Refused} =>
    got.seconds = asked.seconds \/ asked.seconds >= 257

(***************************************************************************)
(* The relay transmits on the frequency asked for below 1.2 GHz, and, but  *)
(* for an odd Hz, from 2.4 GHz on.  Between the two nothing is refused up  *)
(* to 1677.7215 MHz, and the relay would take twice the frequency.         *)
(***************************************************************************)
FrequencyAsAsked ==
  trip = "downlink" /\ got \notin {Nothing, Refused} =>
    \/ got.frequency = asked.frequency
    \/ asked.frequency.h >= 24000000 /\ got.frequency = [asked.frequency EXCEPT !.z = 0]
                                     /\ asked.frequency.z = 1
    \/ asked.frequency.h >= 12000000 /\ asked.frequency.h < 16777216

(***************************************************************************)
(* No downlink is refused that the mesh packet has the bits for.           *)
(***************************************************************************)
LegalIsSent ==
  trip = "downlink" /\ got = Refused =>
    \/ ~ HasDr(asked.modulation) \/ IndexOf(DataRates, asked.modulation) > 16
    \/ (\A p \in Listed : p > txPower) \/ out > 16
    \/ asked.seconds \notin 1 .. 16 \/ asked.uplink_id > 4095
    \/ asked.frequency.z # 0 \/ asked.frequency.h >= 16777216

(***************************************************************************)
(* What does not fit its bytes is read as something else, but the loop     *)
(* that reads items always comes to its end.                               *)
(***************************************************************************)
DecodingEnds == trip = "report" /\ LeftToRead > 0 ~> LeftToRead = 0
=============================================================================
