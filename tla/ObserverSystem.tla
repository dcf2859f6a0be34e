-------------------------- MODULE ObserverSystem ---------------------------
(***************************************************************************)
(* event_observer_t on its own: any thread may call add() and remove() at  *)
(* any time, poll any batch, and a handler may return or throw.            *)
(***************************************************************************)
EXTENDS EventObserver

CONSTANTS
    Registrable,    \* the keys that are registered and unregistered
    Batches         \* what a poll can return

ASSUME SystemAssumption ==
    /\ Registrable \subseteq Keys
    /\ Batches \subseteq Seq(Event)

Register   == \E key \in Registrable, h \in Handlers : add(key, h)
Unregister == \E key \in Registrable : remove(key)

Proceed(t) ==
    \/ \E events \in Batches : ObsPoll(t, events)
    \/ ObsStep(t)
    \/ ObsHandlerReturns(t)
    \/ ObsHandlerThrows(t)

ObsNext ==
    \/ Register
    \/ Unregister
    \/ \E t \in Threads : Proceed(t)

ObsSpec == ObsInit /\ [][ObsNext]_obsVars

\* A thread inside proceed() keeps running, and so does a handler.
InProceed(t) == ObsStep(t) \/ ObsHandlerReturns(t) \/ ObsHandlerThrows(t)

FairObsSpec == ObsSpec /\ \A t \in Threads : WF_obsVars(InProceed(t))

\* proceed() comes back to its caller whatever the handlers throw and
\* whoever registers meanwhile (event_observer.tpp:31-57).
ProceedReturns ==
    \A t \in Threads : act[t].pc = "polled" ~> act[t].pc = "done"
==============================================================================
