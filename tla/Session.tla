------------------------------ MODULE Session -------------------------------
(***************************************************************************)
(* What client_t::connect promises about its three callbacks, as one       *)
(* abstract machine per call of connect() (src/include/endpoint/client.h,  *)
(* lines 52-66): on_connect runs at most once and not after on_disconnect, *)
(* on_disconnect runs at most once and is the last, on_read_ready may run  *)
(* any number of times before it.                                          *)
(***************************************************************************)
EXTENDS Naturals

CONSTANT Sessions

VARIABLE calls      \* per session: how often each callback ran, and the last

Silent == [connects |-> 0, disconnects |-> 0, last |-> "none"]

SessionInit == calls = [s \in Sessions |-> Silent]

OnConnect(s) ==
    /\ calls[s].connects = 0
    /\ calls[s].last # "disconnect"
    /\ calls' = [calls EXCEPT ![s].connects = 1, ![s].last = "connect"]

OnRead(s) ==
    /\ calls[s].last # "disconnect"
    /\ calls' = [calls EXCEPT ![s].last = "read"]

OnDisconnect(s) ==
    /\ calls[s].disconnects = 0
    /\ calls' = [calls EXCEPT ![s].disconnects = 1, ![s].last = "disconnect"]

SessionNext == \E s \in Sessions : OnConnect(s) \/ OnRead(s) \/ OnDisconnect(s)

SessionSpec == SessionInit /\ [][SessionNext]_calls
==============================================================================
