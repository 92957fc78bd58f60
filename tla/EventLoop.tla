----------------------------- MODULE EventLoop -----------------------------
(***************************************************************************)
(* What comes in from the concentratords (backend.rs:234-347).  Two loops, *)
(* each with a channel of its own, take the events of the LoRa and of the  *)
(* mesh concentratord; a gateway with one concentratord subscribes twice   *)
(* to the same events.  Which loop takes a frame is decided by its first   *)
(* byte: mesh frames are proprietary LoRaWAN frames.                       *)
(***************************************************************************)
EXTENDS Naturals, Sequences

CONSTANTS Events,   \* the events the concentratords publish
          MaxEvents \* bound: events received

\* crc: the CRC is OK; info: rx_info is set; modulated: tx_info is set and has a
\* modulation; matches: the address filters match.
ASSUME EventsAreKnown ==
  Events \subseteq [kind : {"lora", "mesh", "stats"}, crc : BOOLEAN, info : BOOLEAN,
                    modulated : BOOLEAN, matches : BOOLEAN]
ASSUME MaxEventsIsNat == MaxEvents \in Nat

\* border: conf.mesh.border_gateway; ignoreDirect: border_gateway_ignore_direct_uplinks;
\* shared: both event_urls are those of one concentratord.
Configurations == [border : BOOLEAN, ignoreDirect : BOOLEAN, shared : BOOLEAN]

Loops == {"event", "mesh"}

VARIABLES conf,     \* the configuration, which never changes
          received, \* history: the events, in the order the concentratords sent them
          channel,  \* per loop: the events, by their place in received, still to be handled
          handled,  \* <<loop, place>>: handed to handle_uplink or handle_mesh
          stats     \* <<loop, place>>: statistics forwarded to the server

vars == <<conf, received, channel, handled, stats>>

Init ==
  /\ conf \in Configurations
  /\ received = <<>>
  /\ channel = [l \in Loops |-> <<>>]
  /\ handled = {} /\ stats = {}

\* A concentratord publishes an event; the SUB sockets of its loops receive it.
Receive(e, loops) ==
  /\ Len(received) < MaxEvents
  /\ received' = Append(received, e)
  /\ channel' = [l \in Loops |-> IF l \in loops THEN Append(channel[l], Len(received) + 1)
                                               ELSE channel[l]]
  /\ UNCHANGED <<conf, handled, stats>>

Subscriptions == IF conf.shared THEN {Loops} ELSE {{"event"}, {"mesh"}}

\* A slip: the loop is left by the first frame that cannot be handled.
TakesGoodOnly(l) ==
  /\ channel[l] # <<>>
  /\ received[Head(channel[l])].info
  /\ channel' = [channel EXCEPT ![l] = Tail(@)]

\* The loop takes the next event, whatever became of the one before it.
Takes(l) ==
  /\ channel[l] # <<>>
  /\ channel' = [channel EXCEPT ![l] = Tail(@)]

Taken(l) == received[Head(channel[l])]

\* format_uplink: the line that is logged before a frame is handled, or an error.
Formats(e) == e.info /\ e.modulated

\* A slip: proprietary frames are not filtered out.
ForUplinkAnyKind(e) ==
  e.kind # "stats" /\ e.info /\ e.crc /\ ~ conf.ignoreDirect /\ Formats(e)

(***************************************************************************)
(* What reaches handle_uplink.  The address filters are evaluated and the  *)
(* result is logged, but the handler does not return.  It does when the    *)
(* line that logs the frame cannot be formatted.                           *)
(***************************************************************************)
ForUplink(e) ==
  e.kind = "lora" /\ e.info /\ e.crc /\ ~ conf.ignoreDirect /\ Formats(e)

HandleEvent ==
  /\ Takes("event")
  /\ handled' = IF ForUplink(Taken("event"))
                THEN handled \cup {<<"event", Head(channel["event"])>>} ELSE handled
  /\ stats' = IF Taken("event").kind = "stats" /\ conf.border
              THEN stats \cup {<<"event", Head(channel["event"])>>} ELSE stats
  /\ UNCHANGED <<conf, received>>

\* A slip: without rx_info the CRC is not looked at, and nothing else asks for it.
ForMeshNoInfo(e) == e.kind = "mesh" /\ (e.info => e.crc) /\ e.modulated

(***************************************************************************)
(* What reaches handle_mesh.  Without rx_info the CRC is not checked, but  *)
(* the line that logs the frame fails and ends the handler.                *)
(***************************************************************************)
ForMesh(e) == e.kind = "mesh" /\ (e.info => e.crc) /\ Formats(e)

HandleMeshEvent ==
  /\ Takes("mesh")
  /\ handled' = IF ForMesh(Taken("mesh"))
                THEN handled \cup {<<"mesh", Head(channel["mesh"])>>} ELSE handled
  /\ UNCHANGED <<conf, received, stats>>

Next ==
  \/ \E e \in Events, loops \in Subscriptions : Receive(e, loops)
  \/ HandleEvent \/ HandleMeshEvent

Spec == Init /\ [][Next]_vars

-----------------------------------------------------------------------------
Handled(n) == \E l \in Loops : <<l, n>> \in handled

(***************************************************************************)
(* On a gateway with one concentratord both loops see every frame: none is *)
(* handled by both of them.                                                *)
(***************************************************************************)
NeverBoth ==
  \A n \in 1 .. Len(received) : ~ (<<"event", n>> \in handled /\ <<"mesh", n>> \in handled)

(***************************************************************************)
(* A frame that is not known to be intact is never handled: its CRC is bad *)
(* or it has no reception information at all (backend.rs:275, 327-340).    *)
(***************************************************************************)
OnlyIntact ==
  \A n \in 1 .. Len(received) : Handled(n) => received[n].info /\ received[n].crc

(***************************************************************************)
(* "Filter uplinks based on DevAddr and JoinEUI filters", "Discarding      *)
(* uplink because of dev_addr and join_eui filters" (backend.rs:301-304).  *)
(***************************************************************************)
FilteredIsDiscarded ==
  \A n \in 1 .. Len(received) : <<"event", n>> \in handled => received[n].matches
=============================================================================
