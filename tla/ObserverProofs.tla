--------------------------- MODULE ObserverProofs ---------------------------
(***************************************************************************)
(* The theorems of event_observer_t, for every value of the constants.     *)
(***************************************************************************)
EXTENDS ObserverSystem, EndpointLemmas

\* ObsInv is inductive: every operation of event_observer.tpp preserves it.
THEOREM ObserverInvariant == ObsSpec => []ObsInv
<1>1. ObsInit => ObsInv
  BY ObsInitInv
<1>2. ObsInv /\ [ObsNext]_obsVars => ObsInv'
  <2> SUFFICES ASSUME ObsInv, [ObsNext]_obsVars PROVE ObsInv'
    OBVIOUS
  <2>1. CASE Register
    BY <2>1, AddInv, SystemAssumption DEF Register
  <2>2. CASE Unregister
    BY <2>2, RemoveInv, SystemAssumption DEF Unregister
  <2>3. ASSUME NEW t \in Threads, NEW events \in Batches, ObsPoll(t, events)
        PROVE  ObsInv'
    BY <2>3, PollInv, SystemAssumption
  <2>4. ASSUME NEW t \in Threads, ObsStep(t) PROVE ObsInv'
    BY <2>4, StepInv
  <2>5. ASSUME NEW t \in Threads, ObsHandlerReturns(t) \/ ObsHandlerThrows(t)
        PROVE  ObsInv'
    BY <2>5, HandlerReturnsInv, HandlerThrowsInv
  <2>6. CASE UNCHANGED obsVars
    BY <2>6, ObsStutterInv
  <2> QED BY <2>1, <2>2, <2>3, <2>4, <2>5, <2>6 DEF ObsNext, Proceed
<1> QED BY <1>1, <1>2, PTL DEF ObsSpec

\* The variables keep their types (event_observer.h:65-68).
THEOREM ObserverTypes == ObsSpec => []ObsTypeOK
<1>1. ObsInv => ObsTypeOK
  BY ObsInvImplies
<1> QED BY <1>1, ObserverInvariant, PTL

\* remove() is a barrier: no thread is inside a handler that is no longer
\* registered (event_observer.tpp:23-27).
THEOREM RemoveIsBarrier == ObsSpec => []RemovedMeansQuiet
<1>1. ObsInv => RemovedMeansQuiet
  BY ObsInvImplies
<1> QED BY <1>1, ObserverInvariant, PTL

\* The unhandled callback gets exactly the events no handler completed for
\* (event_observer.tpp:39-50).
THEOREM UnhandledIsExact == ObsSpec => []UnhandledExactlyUnserved
<1>1. ObsInv => UnhandledExactlyUnserved
  BY ObsInvImplies
<1> QED BY <1>1, ObserverInvariant, PTL

\* An exception costs only the rest of its own event
\* (event_observer.tpp:41-46, 82-94).
THEOREM ExceptionIsolation == ObsSpec => []ExceptionsStayLocal
<1>1. ObsInv => ExceptionsStayLocal
  BY ObsInvImplies
<1> QED BY <1>1, ObserverInvariant, PTL

\* proceed() reports every exception and invents none
\* (event_observer.tpp:42, 50-56).
THEOREM ExceptionReport == ObsSpec => []ExceptionsReported
<1>1. ObsInv => ExceptionsReported
  BY ObsInvImplies
<1> QED BY <1>1, ObserverInvariant, PTL

\* Handlers run in the order of the batch and of handle_event, each at most
\* once (event_observer.tpp:39-41, 84-89).
THEOREM HandlerOrder == ObsSpec => []ServedInOrder
<1>1. ObsInv => ServedInOrder
  BY ObsInvImplies
<1> QED BY <1>1, ObserverInvariant, PTL
==============================================================================
