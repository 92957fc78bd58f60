---------------------------- MODULE MCEventLoop ----------------------------
(***************************************************************************)
(* EventLoop with every event the program may receive.                     *)
(***************************************************************************)
EXTENDS EventLoop

MCEvents ==
  [kind : {"lora", "mesh", "stats"}, crc : BOOLEAN, info : BOOLEAN,
   modulated : BOOLEAN, matches : BOOLEAN]
=============================================================================
