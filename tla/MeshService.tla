---------------------------- MODULE MeshService ----------------------------
(***************************************************************************)
(* What the mesh promises from end to end, without packets, hops, IDs and  *)
(* caches: the server gets from a relay only what the relay heard,         *)
(* reported or answered; a device gets, from the gateway that heard it,    *)
(* only what the server answered it; a relay executes only what was sent   *)
(* to it.  Anything may be lost, and anything may arrive twice, at any     *)
(* time: the promises are about what is said, by whom and to whom.         *)
(***************************************************************************)
CONSTANTS Gateways, Borders,
          Uplinks, Commands, Reports,
          Key \* the network of each gateway

VARIABLES heard,     \* <<gateway, uplink>>
          reported,  \* <<relay, report>>
          issued,    \* <<border, relay, command>>
          executed,  \* <<relay, command>>
          published, \* <<border, gateway, what>>: told to the server
          answered,  \* <<border, gateway, uplink>>: answered by the server
          sent       \* <<gateway, uplink>>: the answer given to the device

vars == <<heard, reported, issued, executed, published, answered, sent>>

Init ==
  /\ heard = {} /\ reported = {} /\ issued = {} /\ executed = {}
  /\ published = {} /\ answered = {} /\ sent = {}

SameNetwork(g, h) == Key[g] = Key[h]

HearAtRelay(g, u) ==
  /\ g \notin Borders
  /\ heard' = heard \cup {<<g, u>>}
  /\ UNCHANGED <<reported, issued, executed, published, answered, sent>>

\* A border gateway tells the server at once.
HearAtBorder(g, u) ==
  /\ g \in Borders
  /\ heard' = heard \cup {<<g, u>>}
  /\ published' = published \cup {<<g, g, u>>}
  /\ UNCHANGED <<reported, issued, executed, answered, sent>>

Report(g, e) ==
  /\ g \notin Borders
  /\ reported' = reported \cup {<<g, e>>}
  /\ UNCHANGED <<heard, issued, executed, published, answered, sent>>

Publish(b, g, x) ==
  /\ b \in Borders /\ SameNetwork(b, g)
  /\ <<g, x>> \in heard \cup reported \cup executed
  /\ published' = published \cup {<<b, g, x>>}
  /\ UNCHANGED <<heard, reported, issued, executed, answered, sent>>

Answer(b, g, u) ==
  /\ <<b, g, u>> \in published /\ <<g, u>> \in heard
  /\ answered' = answered \cup {<<b, g, u>>}
  /\ sent' = IF b = g THEN sent \cup {<<g, u>>} ELSE sent
  /\ UNCHANGED <<heard, reported, issued, executed, published>>

Send(b, g, u) ==
  /\ <<b, g, u>> \in answered /\ SameNetwork(b, g)
  /\ sent' = sent \cup {<<g, u>>}
  /\ UNCHANGED <<heard, reported, issued, executed, published, answered>>

Issue(b, r, c) ==
  /\ b \in Borders /\ r \notin Borders
  /\ issued' = issued \cup {<<b, r, c>>}
  /\ UNCHANGED <<heard, reported, executed, published, answered, sent>>

Execute(b, r, c) ==
  /\ <<b, r, c>> \in issued /\ SameNetwork(b, r)
  /\ executed' = executed \cup {<<r, c>>}
  /\ UNCHANGED <<heard, reported, issued, published, answered, sent>>

Next ==
  \E g, h \in Gateways :
    \/ \E u \in Uplinks : \/ HearAtRelay(g, u) \/ HearAtBorder(g, u)
                          \/ Answer(g, h, u) \/ Send(g, h, u)
    \/ \E e \in Reports : Report(g, e)
    \/ \E c \in Commands : Issue(g, h, c) \/ Execute(g, h, c)
    \/ \E x \in Uplinks \cup Reports \cup Commands : Publish(g, h, x)

Spec == Init /\ [][Next]_vars
=============================================================================
