----------------------------- MODULE MCStartup -----------------------------
(***************************************************************************)
(* The events of MCStartup: every one that the loops tell apart.  The CRC  *)
(* status is a field of rx_info; of statistics none of the rest is read.   *)
(***************************************************************************)
EXTENDS Startup

MCFrames ==
  [kind : {"lora", "mesh"}, crc : BOOLEAN, info : BOOLEAN, modulated : BOOLEAN, matches : {TRUE}]

MCStats ==
  [kind |-> "stats", crc |-> TRUE, info |-> TRUE, modulated |-> TRUE, matches |-> TRUE]

MCEvents == {e \in MCFrames : e.crc => e.info} \cup {MCStats}
=============================================================================
