----------------------------- MODULE PollEvent ------------------------------
(***************************************************************************)
(* poll_event::event (src/include/poll_event/event.h): what the poll hands *)
(* to the observer.  The type is a bit mask, so an event carries a set of  *)
(* types.                                                                  *)
(***************************************************************************)
EXTENDS Integers, Sequences, FiniteSets

CONSTANT Fds        \* file descriptors

EventType == {"READ_READY", "WRITE_READY", "EXCEPTION",
              "HANGUP", "ERROR", "PEER_CLOSED"}

Event == [fd : Fds, type : SUBSET EventType]
==============================================================================
