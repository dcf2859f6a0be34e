----------------------------- MODULE MCClientApp ----------------------------
(* ClientApp, with the names of its handlers, for TLC.                      *)
EXTENDS ClientApp

MCHandlers == {"erase", "read", "write"}
==============================================================================
