------------------------------ MODULE MCProxy ------------------------------
(***************************************************************************)
(* A border gateway that is asked for a downlink with two receive windows, *)
(* one whose second window cannot be written, a mesh command and requests  *)
(* that need no mesh concentratord.                                        *)
(***************************************************************************)
EXTENDS Proxy, TLC

CONSTANTS twice, half, command, none, config, id, garbage, proxied, strange, \* requests
          a1, a2, b1, b2, m1, f1 \* calls, f1 of another task

MCKind ==
  twice :> "relay" @@ half :> "relay" @@ none :> "relay" @@ command :> "mesh" @@
  config :> "config" @@ id :> "id" @@ garbage :> "garbage" @@ proxied :> "downlink" @@
  strange :> "unexpected"

MCItems ==
  twice :> <<a1, a2>> @@ half :> <<b1, b2>> @@ command :> <<m1>> @@
  [r \in Requests \ {twice, half, command} |-> <<>>]
=============================================================================
