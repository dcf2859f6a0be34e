----------------------------- MODULE MCObserver -----------------------------
(* Two pollers, two handlers; the batches mix an event of several types, an *)
(* event of one type, and the empty batch of a timeout.                     *)
EXTENDS ObserverSystem

CONSTANTS f1, f2

Data   == [fd |-> f1, type |-> {"READ_READY", "HANGUP"}]
Hangup == [fd |-> f2, type |-> {"HANGUP"}]

MCBatches == {<< >>, <<Data>>, <<Data, Hangup>>, <<Hangup, Data>>}
MCRegistrable == {"READ_READY", "HANGUP"}
==============================================================================
