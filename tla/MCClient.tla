------------------------------ MODULE MCClient ------------------------------
(* Client, with the names of its handlers, for TLC.                         *)
EXTENDS Client

MCHandlers == {"erase", "read", "write"}
==============================================================================
