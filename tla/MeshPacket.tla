----------------------------- MODULE MeshPacket -----------------------------
(***************************************************************************)
(* The mesh packet of packets.rs, abstracted to what the gateways tell     *)
(* apart: the header (type and hop count), the relay the packet is about,  *)
(* the number that identifies it, an opaque body, the relay path of a      *)
(* heartbeat, and whether the payload is encrypted.  A frame is a packet   *)
(* with the MIC that was computed over it.                                 *)
(***************************************************************************)
EXTENDS Naturals, Sequences

CONSTANTS Gateways,   \* the gateways; a gateway's name is its relay ID
          Keys,       \* the networks' keys (root key, and the keys derived from it)
          Clear,      \* "not encrypted"
          Uplinks,    \* LoRaWAN frames of end-devices (and the answers to them)
          Commands,   \* mesh commands (and the events that respond to them)
          EventSets,  \* reports of the event-set loops
          Heartbeats  \* reports of the heartbeat loop

ASSUME ClearIsNoKey == Clear \notin Keys
\* Only an event carries a heartbeat, and no command is answered by one.
ASSUME HeartbeatsAreReports == Heartbeats \cap (Uplinks \cup Commands) = {}

\* What a packet carries; a body is opaque to the gateways on its way.
Bodies == Uplinks \cup Commands \cup EventSets \cup Heartbeats

PayloadType == {"Uplink", "Downlink", "Event", "Command"}

(***************************************************************************)
(* id is the uplink ID of an uplink or a downlink, and the timestamp, in   *)
(* whole seconds, of an event or a command: both are what goes over the    *)
(* air.  path is empty but for a heartbeat.                                *)
(***************************************************************************)
Packets == [type : PayloadType, hop : Nat, relay : Gateways, id : Nat,
            body : Bodies, path : Seq(Gateways), enc : Keys \cup {Clear}]

Frames == [packet : Packets, mic : [key : Keys, over : Packets]]

\* A packet as its sender builds it: hop count 1, nothing encrypted, no path.
NewPacket(type, relay, id, body) ==
  [type |-> type, hop |-> 1, relay |-> relay, id |-> id, body |-> body,
   path |-> <<>>, enc |-> Clear]

\* MHDR::to_byte: three bits for 1..8, anything else is an error.
HeaderFits(hop) == hop \in 1 .. 8

\* Only events and commands carry an encrypted payload.
IsEncrypted(type) == type \in {"Event", "Command"}

Encrypt(p, k) == IF IsEncrypted(p.type) THEN [p EXCEPT !.enc = k] ELSE p

Decrypt(p, k) == IF IsEncrypted(p.type) THEN [p EXCEPT !.enc = Clear] ELSE p

\* set_mic and to_vec: the packet on the air with the MIC computed over it.
SetMic(p, k) == [packet |-> p, mic |-> [key |-> k, over |-> p]]

(***************************************************************************)
(* Every sender encrypts, then signs ("If applicable, the payload must be  *)
(* encrypted first!", packets.rs:127).                                     *)
(***************************************************************************)
\* A slip of the order: the MIC covers the clear payload.
SealSignsFirst(p, k) ==
  [packet |-> Encrypt(p, k), mic |-> [key |-> k, over |-> p]]

Seal(p, k) == SetMic(Encrypt(p, k), k)

\* A slip: any MIC over the packet will do.
ValidMicAnyKey(f, k) == f.mic.over = f.packet

\* validate_mic: the MIC was computed with this key over exactly this packet.
ValidMic(f, k) == f.mic = [key |-> k, over |-> f.packet]

-----------------------------------------------------------------------------
(***************************************************************************)
(* The cache key (cache.rs:45): the fields that identify a packet.  The    *)
(* uplink ID and the timestamp exclude each other, the unused one is 0.    *)
(***************************************************************************)
\* A slip: the sender is left out of the key.
CacheKeyNoRelay(p) == [type |-> p.type, relay |-> CHOOSE g \in Gateways : TRUE,
                       id |-> p.id]

\* A slip: the hop count, which changes on the way, is part of the key.
CacheKeyWithHop(p) == [type |-> p.type, relay |-> p.relay, id |-> p.id * 9 + p.hop]

CacheKey(p) == [type |-> p.type, relay |-> p.relay, id |-> p.id]

CacheKeys == [type : PayloadType, relay : Gateways, id : Nat]
=============================================================================
