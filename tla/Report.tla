------------------------------- MODULE Report -------------------------------
(***************************************************************************)
(* The items of an event or of a command on their way through the mesh     *)
(* (packets.rs:453-866).  Each is written as a type, a length and a value; *)
(* every gateway reads them in a loop that warns about what it cannot read *)
(* and goes on.  A relay adds itself to the path of every heartbeat and    *)
(* writes all items anew (mesh.rs:352-375).  Encryption, the MIC and the   *)
(* rest of the handler are in Mesh.                                        *)
(***************************************************************************)
EXTENDS Codec, SequencesExt

CONSTANTS Reports,    \* what is sent: a kind and its items
          Receptions, \* RSSI and SNR a frame is received with
          MaxRelays   \* bound: relays on the way

VARIABLES report,  \* history: the report as it was given to its sender
          payload, \* on the air, decrypted: the bytes its last sender wrote
          pos,     \* the bytes of them the receiver has read: its cursor
          decoded, \* the items it has read
          way      \* history: the relays passed, with the RSSI and SNR of the frame

reportVars == <<report, payload, pos, decoded, way>>

Heartbeat(path) == [kind |-> "heartbeat", type |-> 0, value |-> <<>>, path |-> path]

Proprietary(type, value) ==
  [kind |-> "proprietary", type |-> type, value |-> value, path |-> <<>>]

Proprietaries(types) ==
  [kind : {"proprietary"}, type : types, value : Seq(Byte), path : {<<>>}]

\* A heartbeat starts with an empty path; the type of an event is a u8, of a
\* command a u32 (send_mesh_command).
ASSUME ReportsAreItems ==
  \A r \in Reports :
    \/ r \in [kind : {"Event"}, items : Seq({Heartbeat(<<>>)} \cup Proprietaries(Byte))]
    \/ r \in [kind : {"Command"}, items : Seq(Proprietaries(Nat))]
ASSUME ReceptionsType == Receptions \subseteq [rssi : Int, snr : Int]
\* The header counts eight transmissions, the first one is the sender's.
ASSUME MaxRelaysFits == MaxRelays \in 0 .. 7

-----------------------------------------------------------------------------
\* A relay ID differs in its last byte.
PathEntryToBytes(e) == <<0, 0, 0, e.relay, - e.rssi, SnrToByte(e.snr)>>

PathEntryFromBytes(b) == [relay |-> b[4], rssi |-> - b[5], snr |-> ByteToSnr(b[6])]

HeartbeatToVec(path) == FlattenSeq([k \in DOMAIN path |-> PathEntryToBytes(path[k])])

HeartbeatFromSlice(b) ==
  [k \in 1 .. Len(b) \div 6 |-> PathEntryFromBytes(SubSeq(b, 6 * k - 5, 6 * k))]

\* The length is pushed as one byte, whatever the length is.
LengthByte(value) == Len(value) % 256

\* A slip: the length counts the type and itself.
EncodeLengthOfAll(item) ==
  LET value == IF item.kind = "heartbeat" THEN HeartbeatToVec(item.path) ELSE item.value
  IN <<item.type, LengthByte(value) + 2>> \o value

Encode(item) ==
  LET value == IF item.kind = "heartbeat" THEN HeartbeatToVec(item.path) ELSE item.value
  IN <<item.type, LengthByte(value)>> \o value

EncodeFits(item) == \A k \in DOMAIN item.path : PathEntryFits(item.path[k])

EncodeAll(items) == FlattenSeq([k \in DOMAIN items |-> Encode(items[k])])

-----------------------------------------------------------------------------
\* send_mesh_command: the type of a command is a u32 that is cut to a byte.
Sent(r) ==
  IF r.kind = "Command" THEN [k \in DOMAIN r.items |-> [r.items[k] EXCEPT !.type = @ % 256]]
  ELSE r.items

ReportInit ==
  /\ report \in Reports
  /\ payload = EncodeAll(Sent(report))
  /\ pos = 0 /\ decoded = <<>> /\ way = <<>>

LeftToRead == Len(payload) - pos

\* There is a type and a length, and as many bytes as the length says.
Readable == LeftToRead >= 2 /\ LeftToRead - 2 >= payload[pos + 2]

\* An event of type 0 is a heartbeat; its value must be whole path entries.
DecodeItem(type, value) ==
  IF report.kind = "Event" /\ type = 0
  THEN IF Len(value) % 6 = 0 THEN <<Heartbeat(HeartbeatFromSlice(value))>> ELSE <<>>
  ELSE <<Proprietary(type, value)>>

Decode ==
  /\ LeftToRead > 0 /\ Readable
  /\ LET length == payload[pos + 2] IN
       /\ pos' = pos + 2 + length
       /\ decoded' = decoded \o
            DecodeItem(payload[pos + 1], SubSeq(payload, pos + 3, pos + 2 + length))
  /\ UNCHANGED <<report, payload, way>>

\* A slip, or another version of the library: the cursor stays where it is.
CursorStays(n) == pos

\* read_exact on a cursor that has too little left moves it to the end.
CursorAfterError(n) == n

DecodeFails ==
  /\ LeftToRead > 0 /\ ~ Readable
  /\ pos' = CursorAfterError(Len(payload))
  /\ UNCHANGED <<report, payload, decoded, way>>

OnTheWay(item, entry) ==
  IF item.kind = "heartbeat" THEN [item EXCEPT !.path = Append(@, entry)] ELSE item

(***************************************************************************)
(* A relay that has read everything passes it on, unless an entry of a     *)
(* path cannot be written: then the whole report ends here.                *)
(***************************************************************************)
Relay(reception) ==
  LET entry == [relay |-> Len(way) + 1, rssi |-> reception.rssi, snr |-> reception.snr]
      out == [k \in DOMAIN decoded |-> OnTheWay(decoded[k], entry)]
  IN /\ LeftToRead = 0 /\ Len(way) < MaxRelays
     /\ \A k \in DOMAIN out : EncodeFits(out[k])
     /\ payload' = EncodeAll(out)
     /\ way' = Append(way, entry)
     /\ pos' = 0 /\ decoded' = <<>>
     /\ UNCHANGED report

-----------------------------------------------------------------------------
\* What can be told from its bytes: a byte for the type, one for the length, and
\* no event that looks like a heartbeat.
Clean(r, item) ==
  \/ item.kind = "heartbeat"
  \/ /\ item.type \in (IF r.kind = "Event" THEN 1 .. 255 ELSE Byte)
     /\ Len(item.value) < 256

(***************************************************************************)
(* However many relays a report passes, its items arrive as they were sent *)
(* and in order, up to the first one that does not fit its bytes, with the *)
(* relays passed in the path of every heartbeat.                           *)
(***************************************************************************)
Arrives(item) == IF item.kind = "heartbeat" THEN Heartbeat(way) ELSE item

ItemsSurvive ==
  LeftToRead = 0 =>
    \A k \in DOMAIN report.items :
      (\A j \in 1 .. k : Clean(report, report.items[j])) =>
        k <= Len(decoded) /\ decoded[k] = Arrives(report.items[k])
=============================================================================
