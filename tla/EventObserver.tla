--------------------------- MODULE EventObserver ---------------------------
(***************************************************************************)
(* event_observer_t (src/src/endpoint/event_observer.tpp): a table of      *)
(* handlers keyed by event type, guarded by a std::shared_mutex, and       *)
(* proceed(), which polls without the lock, serves the polled events with  *)
(* the lock held shared, and reports what nobody served once the lock is   *)
(* released.  Several threads may be inside proceed() at a time.           *)
(*                                                                         *)
(* client_t and server_t inherit from event_observer_t; their modules      *)
(* extend this one and compose its actions, named Obs...                   *)
(***************************************************************************)
EXTENDS PollEvent

CONSTANTS
    Threads,        \* the threads that call proceed()
    Handlers,       \* what can be registered (a std::function)
    NoHandler,      \* no entry in the map
    HasUnhandled    \* TRUE iff m_unhandled holds a function

\* Mutant of TypeOrder: the events that end a connection come first.
EraseFirst == <<"EXCEPTION", "HANGUP", "ERROR", "PEER_CLOSED",
                "READ_READY", "WRITE_READY">>

\* The order in which handle_event tries the types.
TypeOrder == <<"READ_READY", "WRITE_READY", "EXCEPTION",
               "HANGUP", "ERROR", "PEER_CLOSED">>

Steps == 1..6

\* The keys of the handler map that a look-up can produce: one of the types,
\* or NONE when the event does not carry the type that is being tried.
Keys == EventType \cup {"NONE"}

ASSUME ObserverAssumption ==
    /\ NoHandler \notin Handlers
    /\ HasUnhandled \in BOOLEAN

VARIABLES
    m_handlers, \* Keys -> Handlers \cup {NoHandler}
    sharers,    \* the threads that hold m_mutex shared
    act         \* per thread: its activation of proceed()

obsVars == <<m_handlers, sharers, act>>

(***************************************************************************)
(* The activation record of proceed().  k is the event being served, i the *)
(* step of handle_event (the index in TypeOrder tried next or running),    *)
(* first and unhandled and exceptions are the code's locals, the vectors   *)
(* as sets of indices of the batch; 0 in exceptions is the exception of    *)
(* the on_unhandled callback.  cur is the handler that runs.  ran and      *)
(* threw are history: the <<k, i>> whose handler returned, or threw.       *)
(***************************************************************************)
Phases == {"out", "polled", "serving", "running", "unhandled", "done"}

Outside == [pc |-> "out", events |-> << >>, k |-> 1, i |-> 1, first |-> FALSE,
            unhandled |-> {}, exceptions |-> {}, cur |-> NoHandler,
            ran |-> {}, threw |-> {}, ret |-> "none"]

ObsInit ==
    /\ m_handlers = [key \in Keys |-> NoHandler]
    /\ sharers = {}
    /\ act = [t \in Threads |-> Outside]

------------------------------------------------------------------------------
(***************************************************************************)
(* Registration.  unique_lock: no thread may hold the mutex shared; the    *)
(* map operation is one step because nothing blocks inside it.             *)
(***************************************************************************)
add(key, h) ==
    /\ sharers = {}
    /\ m_handlers' = IF m_handlers[key] = NoHandler       \* map::emplace
                       THEN [m_handlers EXCEPT ![key] = h]
                       ELSE m_handlers
    /\ UNCHANGED <<sharers, act>>

\* Mutants of remove: without the lock; and with the key left out of the map,
\* for a look-up that expects it.
RemoveUnlocked(key) ==
    /\ m_handlers' = [m_handlers EXCEPT ![key] = NoHandler]
    /\ UNCHANGED <<sharers, act>>

RemoveKey(key) ==
    /\ sharers = {}
    /\ m_handlers' = [other \in Keys \ {key} |-> m_handlers[other]]
    /\ UNCHANGED <<sharers, act>>

remove(key) ==
    /\ sharers = {}
    /\ m_handlers' = [m_handlers EXCEPT ![key] = NoHandler]
    /\ UNCHANGED <<sharers, act>>

------------------------------------------------------------------------------
\* The key handle_event(event, tp) looks up: event.type & tp.
LookupKey(e, i) == IF TypeOrder[i] \in e.type THEN TypeOrder[i] ELSE "NONE"

\* Step i of event e finds a handler in the map h.
Hit(h, e, i) == h[LookupKey(e, i)] # NoHandler

Current(t) == act[t].events[act[t].k]

\* PollTraits::proceed(m_poll, timeout) returned this batch; no lock is held.
ObsPoll(t, events) ==
    /\ act[t].pc = "out"
    /\ act' = [act EXCEPT ![t] = [Outside EXCEPT !.pc = "polled", !.events = events]]
    /\ UNCHANGED <<m_handlers, sharers>>

ObsLockShared(t) ==
    /\ act[t].pc = "polled"
    /\ act' = [act EXCEPT ![t].pc = "serving"]
    /\ sharers' = sharers \cup {t}
    /\ UNCHANGED m_handlers

\* The steps before i that find no handler change nothing and are skipped:
\* the map cannot change while the mutex is held shared.
ObsInvoke(t) ==
    /\ act[t].pc = "serving"
    /\ act[t].k <= Len(act[t].events)
    /\ \E i \in Steps :
          /\ i >= act[t].i
          /\ Hit(m_handlers, Current(t), i)
          /\ \A j \in Steps : act[t].i <= j /\ j < i => ~Hit(m_handlers, Current(t), j)
          /\ act' = [act EXCEPT ![t].pc = "running", ![t].i = i,
                         ![t].cur = m_handlers[LookupKey(Current(t), i)]]
    /\ UNCHANGED <<m_handlers, sharers>>

\* The unhandled vector after the event at k has been served.
UnhandledAfter(t) ==
    IF act[t].first THEN act[t].unhandled ELSE act[t].unhandled \cup {act[t].k}

\* Mutant of ObsHandlerReturns: the types are tried again from the first.
TriesAgain(t) ==
    /\ act[t].pc = "running"
    /\ act' = [act EXCEPT ![t].pc = "serving", ![t].i = 1, ![t].first = TRUE,
                   ![t].cur = NoHandler,
                   ![t].ran = @ \cup {<<act[t].k, act[t].i>>}]
    /\ UNCHANGED <<m_handlers, sharers>>

ObsHandlerReturns(t) ==
    /\ act[t].pc = "running"
    /\ act' = [act EXCEPT ![t].pc = "serving", ![t].i = @ + 1, ![t].first = TRUE,
                   ![t].cur = NoHandler,
                   ![t].ran = @ \cup {<<act[t].k, act[t].i>>}]
    /\ UNCHANGED <<m_handlers, sharers>>

\* Mutants of ObsHandlerThrows: the try block is around the loop; the event
\* is retried.
ThrowEndsLoop(t) ==
    /\ act[t].pc = "running"
    /\ act' = [act EXCEPT ![t].pc = "serving", ![t].k = Len(act[t].events) + 1,
                   ![t].i = 1, ![t].first = FALSE, ![t].cur = NoHandler,
                   ![t].exceptions = @ \cup {act[t].k},
                   ![t].unhandled = UnhandledAfter(t),
                   ![t].threw = @ \cup {<<act[t].k, act[t].i>>}]
    /\ UNCHANGED <<m_handlers, sharers>>

ThrowRetries(t) ==
    /\ act[t].pc = "running"
    /\ act' = [act EXCEPT ![t].pc = "serving", ![t].i = 1, ![t].cur = NoHandler,
                   ![t].exceptions = @ \cup {act[t].k},
                   ![t].threw = @ \cup {<<act[t].k, act[t].i>>}]
    /\ UNCHANGED <<m_handlers, sharers>>

\* catch (...): the event's remaining types are not tried.
ObsHandlerThrows(t) ==
    /\ act[t].pc = "running"
    /\ act' = [act EXCEPT ![t].pc = "serving", ![t].k = @ + 1, ![t].i = 1,
                   ![t].first = FALSE, ![t].cur = NoHandler,
                   ![t].exceptions = @ \cup {act[t].k},
                   ![t].unhandled = UnhandledAfter(t),
                   ![t].threw = @ \cup {<<act[t].k, act[t].i>>}]
    /\ UNCHANGED <<m_handlers, sharers>>

\* Mutant of ObsNextEvent: whether an event was handled is remembered for the
\* next one.
KeepsFirst(t) ==
    /\ act[t].pc = "serving"
    /\ act[t].k <= Len(act[t].events)
    /\ \A j \in Steps : j >= act[t].i => ~Hit(m_handlers, Current(t), j)
    /\ act' = [act EXCEPT ![t].k = @ + 1, ![t].i = 1, ![t].unhandled = UnhandledAfter(t)]
    /\ UNCHANGED <<m_handlers, sharers>>

\* No step of handle_event is left that finds a handler.
ObsNextEvent(t) ==
    /\ act[t].pc = "serving"
    /\ act[t].k <= Len(act[t].events)
    /\ \A j \in Steps : j >= act[t].i => ~Hit(m_handlers, Current(t), j)
    /\ act' = [act EXCEPT ![t].k = @ + 1, ![t].i = 1, ![t].first = FALSE,
                   ![t].unhandled = UnhandledAfter(t)]
    /\ UNCHANGED <<m_handlers, sharers>>

ObsUnlock(t) ==
    /\ act[t].pc = "serving"
    /\ act[t].k > Len(act[t].events)
    /\ act' = [act EXCEPT ![t].pc = "unhandled"]
    /\ sharers' = sharers \ {t}
    /\ UNCHANGED m_handlers

\* Mutant of ObsHandleUnhandled: its exception replaces those of the handlers.
ReplacesExceptions(t, throws) ==
    /\ act[t].pc = "unhandled"
    /\ throws => HasUnhandled
    /\ LET exc == IF throws THEN {0} ELSE act[t].exceptions
       IN  act' = [act EXCEPT ![t].pc = "done", ![t].exceptions = exc,
                       ![t].ret = CASE exc # {} -> "throw"
                                    [] exc = {} /\ act[t].events # << >> -> "true"
                                    [] OTHER -> "false"]
    /\ UNCHANGED <<m_handlers, sharers>>

\* handle_unhandled is called even when nothing is unhandled; its callback,
\* if there is one, may throw.
ObsHandleUnhandled(t, throws) ==
    /\ act[t].pc = "unhandled"
    /\ throws => HasUnhandled
    /\ LET exc == IF throws THEN act[t].exceptions \cup {0} ELSE act[t].exceptions
       IN  act' = [act EXCEPT ![t].pc = "done", ![t].exceptions = exc,
                       ![t].ret = CASE exc # {} -> "throw"
                                    [] exc = {} /\ act[t].events # << >> -> "true"
                                    [] OTHER -> "false"]
    /\ UNCHANGED <<m_handlers, sharers>>

ObsReturn(t) ==
    /\ act[t].pc = "done"
    /\ act' = [act EXCEPT ![t] = Outside]
    /\ UNCHANGED <<m_handlers, sharers>>

\* The steps of proceed() between the poll and the return, the handler's own
\* body excepted.
ObsStep(t) ==
    \/ ObsLockShared(t)
    \/ ObsInvoke(t)
    \/ ObsNextEvent(t)
    \/ ObsUnlock(t)
    \/ \E throws \in BOOLEAN : ObsHandleUnhandled(t, throws)
    \/ ObsReturn(t)

------------------------------------------------------------------------------
(***************************************************************************)
(* Invariants.                                                             *)
(***************************************************************************)
ActRecord ==
    [pc : Phases, events : Seq(Event), k : Nat, i : Nat, first : BOOLEAN,
     unhandled : SUBSET Nat, exceptions : SUBSET Nat,
     cur : Handlers \cup {NoHandler}, ran : SUBSET (Nat \X Nat),
     threw : SUBSET (Nat \X Nat), ret : {"none", "true", "false", "throw"}]

\* The variables have the types of the code's fields and locals
\* (event_observer.h:65-68, event_observer.tpp:33-35).
ObsTypeOK ==
    /\ m_handlers \in [Keys -> Handlers \cup {NoHandler}]
    /\ sharers \subseteq Threads
    /\ act \in [Threads -> ActRecord]

\* The mutex is held shared exactly by the threads that serve events.
LockDiscipline ==
    sharers = {t \in Threads : act[t].pc \in {"serving", "running"}}

\* A handler that runs is still the registered one: once remove() has
\* returned, no thread is inside the handler it removed, so its captures may
\* be destroyed (event_observer.tpp:23-27, relied upon by ~client_t and
\* ~server_t).
RemovedMeansQuiet ==
    \A t \in Threads : act[t].pc = "running" =>
        /\ act[t].cur # NoHandler
        /\ m_handlers[LookupKey(Current(t), act[t].i)] = act[t].cur

\* Of an activation record a: an event some handler completed for, one whose
\* handler threw, and the events whose turn in the loop has passed.
Served(a, n) == \E i \in Steps : <<n, i>> \in a.ran
Threw(a, n)  == \E i \in Steps : <<n, i>> \in a.threw
Over(a, n)   == n \in 1..Len(a.events) /\ n < a.k

\* When the unhandled callback is due, its argument holds exactly the events
\* no handler completed for - one whose only handler threw included - however
\* returns and exceptions were interleaved (event_observer.tpp:39-50).
UnhandledExactlyUnserved ==
    \A t \in Threads : act[t].pc \in {"unhandled", "done"} =>
        act[t].unhandled = {n \in 1..Len(act[t].events) : ~Served(act[t], n)}

\* An exception costs only the rest of its own event: every other event of
\* the batch that is over had all its registered types handled
\* (event_observer.tpp:41-46, 82-94).
ExceptionsStayLocal ==
    \A t \in Threads : act[t].pc \in {"serving", "running"} =>
        \A n \in 1..Len(act[t].events) : Over(act[t], n) /\ ~Threw(act[t], n) =>
            \A i \in Steps :
                Hit(m_handlers, act[t].events[n], i) => <<n, i>> \in act[t].ran

\* An exception is never lost and never invented: proceed() throws iff a
\* handler of the batch or the unhandled callback threw, and the exceptions
\* it carries name exactly those events (event_observer.tpp:42, 50-56).
ExceptionsReported ==
    \A t \in Threads : act[t].pc = "done" =>
        /\ act[t].exceptions \ {0} = {n \in 1..Len(act[t].events) : Threw(act[t], n)}
        /\ act[t].ret = "throw" <=> act[t].exceptions # {}

\* The handlers of a batch run at most once each and in the order of the
\* batch and of handle_event: what starts comes after all that has run
\* (event_observer.tpp:39-41, 84-89).
ServedInOrder ==
    \A t \in Threads : act[t].pc = "running" =>
        \A p \in act[t].ran \cup act[t].threw :
            \/ p[1] < act[t].k
            \/ p[1] = act[t].k /\ p[2] < act[t].i

------------------------------------------------------------------------------
(***************************************************************************)
(* The inductive invariant behind the properties above, of an activation   *)
(* record a and the handler map h: the place in the loop, and what the     *)
(* locals say of the part of the batch that is over.                       *)
(***************************************************************************)
Place(a) ==
    /\ a.pc # "out" => a.k \in 1..(Len(a.events) + 1)
    /\ a.pc \in {"polled", "serving"} => a.i \in 1..7
    /\ a.pc = "running" => a.i \in Steps /\ a.k <= Len(a.events)
    /\ a.pc \in {"unhandled", "done"} => a.k = Len(a.events) + 1
    /\ a.pc = "polled" =>
          /\ a.k = 1 /\ a.i = 1 /\ a.first = FALSE
          /\ a.unhandled = {} /\ a.exceptions = {} /\ a.ran = {} /\ a.threw = {}

\* What ran and what threw lies before the place in the loop.
History(a) ==
    /\ \A p \in a.ran : /\ p[1] > 0 /\ p[2] \in Steps
                        /\ p[1] < a.k \/ (p[1] = a.k /\ p[2] < a.i)
    /\ \A p \in a.threw : p[1] > 0 /\ p[2] \in Steps /\ p[1] < a.k

Locals(a) ==
    /\ \A n \in a.unhandled : Over(a, n) /\ ~Served(a, n)
    /\ \A n \in 1..Len(a.events) : Over(a, n) /\ ~Served(a, n) => n \in a.unhandled
    /\ \A n \in a.exceptions \ {0} : Over(a, n) /\ Threw(a, n)
    /\ \A n \in 1..Len(a.events) : Over(a, n) /\ Threw(a, n) => n \in a.exceptions
    /\ 0 \in a.exceptions => a.pc = "done"
    /\ a.first <=> Served(a, a.k)
    /\ a.pc = "done" => (a.ret = "throw" <=> a.exceptions # {})

\* The handlers of the events that are over and did not throw have run, and
\* so have those of the steps of the current event that are over.
Complete(a, h) ==
    a.pc \in {"serving", "running"} =>
        /\ \A n \in 1..Len(a.events) : Over(a, n) /\ ~Threw(a, n) =>
              \A i \in Steps : Hit(h, a.events[n], i) => <<n, i>> \in a.ran
        /\ a.k <= Len(a.events) =>
              \A i \in Steps : i < a.i /\ Hit(h, a.events[a.k], i) => <<a.k, i>> \in a.ran

\* The handler that runs is the registered one.
Running(a, h) ==
    a.pc = "running" =>
        a.cur # NoHandler /\ h[LookupKey(a.events[a.k], a.i)] = a.cur

RecordInv(a, h) ==
    /\ Place(a)
    /\ Running(a, h)
    /\ a.pc \in {"serving", "running", "unhandled", "done"} =>
          History(a) /\ Locals(a) /\ Complete(a, h)

ObsInv ==
    /\ ObsTypeOK
    /\ LockDiscipline
    /\ \A t \in Threads : RecordInv(act[t], m_handlers)
==============================================================================
