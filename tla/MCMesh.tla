------------------------------- MODULE MCMesh -------------------------------
(***************************************************************************)
(* Small networks for TLC.                                                 *)
(***************************************************************************)
EXTENDS Mesh, TLC

CONSTANTS b, x, r1, r2, r3, \* gateways
          home, other,   \* keys of two networks
          u1, u2, u3,    \* uplinks
          c1, c2,        \* commands
          h1, e1         \* a heartbeat, an event set

\* Every gateway hears every other.
Clique == [g \in Gateways |-> Gateways \ {g}]

\* The border hears r1 only, r1 and r2 hear each other.
Line == b :> {r1} @@ r1 :> {b, r2} @@ r2 :> {r1}

\* r1 and r2 reach the border and each other, the border reaches r1 only.
Triangle == b :> {r1} @@ r1 :> {b, r2} @@ r2 :> {b, r1}

\* b - r1 - r2 - r3 - r1: a loop behind the relay at the border.
Loop == b :> {r1} @@ r1 :> {b, r2, r3} @@ r2 :> {r1, r3} @@ r3 :> {r1, r2}

\* The same, and a border gateway of another network that hears r3.
LoopAndStranger == r3 :> {r1, r2, x} @@ x :> {} @@ Loop

OneNetwork == [g \in Gateways |-> home]
TwoNetworks == [g \in Gateways |-> IF g = x THEN other ELSE home]

NoUplinks == [u \in Uplinks |-> {}]
NoReports == [g \in Relays |-> {}]

\* Which gateways hear which uplinks.
HeardByR2 == [u \in Uplinks |-> {r2}]
OneEach == [u \in Uplinks |-> IF u = u1 THEN {r1} ELSE {b, r2}]

\* Which uplinks relays can wrap, and border gateways unwrap.
AllWrapped == Relays \X Uplinks
NotU3 == Relays \X (Uplinks \ {u3})
AllUnwrapped == Borders \X Relays \X Uplinks
NotU1 == AllUnwrapped \ (Borders \X Relays \X {u1})

\* Which gateways restart.
NoRestarts == [g \in Gateways |-> 0]
R2Restarts == [g \in Gateways |-> IF g = r2 THEN 1 ELSE 0]

\* What the event loops report.
ReportsOfR2 == [g \in Relays |-> IF g = r2 THEN EventSets \cup Heartbeats ELSE {}]
=============================================================================
