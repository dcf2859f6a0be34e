------------------------------ MODULE MCServer ------------------------------
(* ServerSystem, with the names of its handlers, for TLC.                         *)
EXTENDS ServerSystem

MCHandlers == {"erase", "read"}
==============================================================================
