--------------------------- MODULE EndpointLemmas ---------------------------
(***************************************************************************)
(* The two parts an endpoint is built from.  Every operation of            *)
(* event_observer_t preserves ObsInv, for any number of threads,           *)
(* descriptors and handlers and for batches of any length, and what        *)
(* epoll_t::proceed returns is as it should be for any finite set of       *)
(* descriptors and any MaxEvents.  One lemma per action, so that the       *)
(* modules that compose the two can cite them.                             *)
(***************************************************************************)
EXTENDS EventObserver, KernelSocket, FiniteSetTheorems, TLAPS

------------------------------------------------------------------------------
(* The observer.                                                            *)

\* A look-up always names a key of the map (event_observer.tpp:114).
LEMMA LookupKeyType ==
    ASSUME NEW e \in Event, NEW i \in Steps
    PROVE  LookupKey(e, i) \in Keys
BY DEF LookupKey, Keys, Event

\* The other threads' records are not touched by a step of thread t that
\* leaves the map alone, so only the record of t needs an argument.
LEMMA OneRecord ==
    ASSUME ObsInv, NEW t \in Threads, NEW r \in ActRecord,
           act' = [act EXCEPT ![t] = r],
           m_handlers' = m_handlers,
           sharers' = {u \in Threads : act'[u].pc \in {"serving", "running"}},
           RecordInv(r, m_handlers)
    PROVE  ObsInv'
<1>1. act' \in [Threads -> ActRecord]
  BY DEF ObsInv, ObsTypeOK
<1>2. ObsTypeOK'
  BY <1>1 DEF ObsInv, ObsTypeOK
<1>3. LockDiscipline'
  BY DEF LockDiscipline
<1>4. ASSUME NEW u \in Threads
      PROVE  RecordInv(act'[u], m_handlers')
  <2>1. CASE u = t
    BY <2>1, act'[t] = r DEF ObsInv, ObsTypeOK
  <2>2. CASE u # t
    BY <2>2, act'[u] = act[u] DEF ObsInv, ObsTypeOK
  <2> QED BY <2>1, <2>2
<1> QED BY <1>2, <1>3, <1>4 DEF ObsInv

\* The initial state satisfies the invariant.
LEMMA ObsInitInv ==
    ObsInit => ObsInv
<1> SUFFICES ASSUME ObsInit PROVE ObsInv
  OBVIOUS
<1>1. Outside \in ActRecord
  BY DEF Outside, ActRecord, Phases
<1>2. ObsTypeOK
  BY <1>1 DEF ObsInit, ObsTypeOK
<1>3. LockDiscipline
  BY DEF ObsInit, LockDiscipline, Outside
<1>4. ASSUME NEW t \in Threads PROVE RecordInv(act[t], m_handlers)
  BY DEF ObsInit, RecordInv, Place, Running, Outside
<1> QED BY <1>2, <1>3, <1>4 DEF ObsInv

\* add() and remove() wait until no thread serves events
\* (event_observer.tpp:15-27).
LEMMA NoServerInv ==
    ASSUME ObsInv, sharers = {}, UNCHANGED <<sharers, act>>,
           m_handlers' \in [Keys -> Handlers \cup {NoHandler}]
    PROVE  ObsInv'
<1>1. \A t \in Threads : act[t].pc \notin {"serving", "running"}
  BY DEF ObsInv, LockDiscipline
<1>2. ObsTypeOK' /\ LockDiscipline'
  BY DEF ObsInv, ObsTypeOK, LockDiscipline
<1>3. ASSUME NEW t \in Threads PROVE RecordInv(act'[t], m_handlers')
  BY <1>1 DEF ObsInv, RecordInv, Running, Complete
<1> QED BY <1>2, <1>3 DEF ObsInv

\* add() preserves the invariant (event_observer.tpp:15-19).
LEMMA AddInv ==
    ASSUME ObsInv, NEW key \in Keys, NEW h \in Handlers, add(key, h)
    PROVE  ObsInv'
<1>1. m_handlers' \in [Keys -> Handlers \cup {NoHandler}]
  BY DEF ObsInv, ObsTypeOK, add
<1> QED BY <1>1, NoServerInv DEF add

\* remove() preserves the invariant (event_observer.tpp:23-27).
LEMMA RemoveInv ==
    ASSUME ObsInv, NEW key \in Keys, remove(key)
    PROVE  ObsInv'
<1>1. m_handlers' \in [Keys -> Handlers \cup {NoHandler}]
  BY DEF ObsInv, ObsTypeOK, remove
<1> QED BY <1>1, NoServerInv DEF remove

------------------------------------------------------------------------------
(* The steps of proceed().                                                  *)

\* Polling starts a new activation with empty locals
\* (event_observer.tpp:33-35).
LEMMA PollInv ==
    ASSUME ObsInv, NEW t \in Threads, NEW events \in Seq(Event), ObsPoll(t, events)
    PROVE  ObsInv'
<1> DEFINE r == [Outside EXCEPT !.pc = "polled", !.events = events]
<1>1. r \in ActRecord /\ r.pc = "polled" /\ r.events = events
      /\ r.k = 1 /\ r.i = 1 /\ r.first = FALSE /\ r.unhandled = {}
      /\ r.exceptions = {} /\ r.ran = {} /\ r.threw = {}
  BY DEF Outside, ActRecord, Phases
<1>2. Len(events) \in Nat
  OBVIOUS
<1>3. RecordInv(r, m_handlers)
  BY <1>1, <1>2 DEF RecordInv, Place, Running
<1>4. act' = [act EXCEPT ![t] = r] /\ m_handlers' = m_handlers
  BY DEF ObsPoll
<1>5. sharers' = {u \in Threads : act'[u].pc \in {"serving", "running"}}
  BY <1>1, <1>4 DEF ObsPoll, ObsInv, LockDiscipline, ObsTypeOK
<1> QED BY <1>1, <1>3, <1>4, <1>5, OneRecord

\* Taking the mutex shared (event_observer.tpp:38).
LEMMA LockSharedInv ==
    ASSUME ObsInv, NEW t \in Threads, ObsLockShared(t)
    PROVE  ObsInv'
<1> DEFINE a == act[t]
           r == [a EXCEPT !.pc = "serving"]
<1>1. a \in ActRecord /\ RecordInv(a, m_handlers) /\ a.pc = "polled"
  BY DEF ObsInv, ObsTypeOK, ObsLockShared
<1>2. /\ r \in ActRecord /\ r.pc = "serving" /\ r.events = a.events
      /\ r.k = 1 /\ r.i = 1 /\ r.first = FALSE /\ r.unhandled = {}
      /\ r.exceptions = {} /\ r.ran = {} /\ r.threw = {}
  BY <1>1 DEF ActRecord, Phases, RecordInv, Place
<1>3. Len(a.events) \in Nat
  BY <1>1 DEF ActRecord
<1>4. Place(r) /\ Running(r, m_handlers)
  BY <1>2, <1>3 DEF Place, Running
<1>5. History(r) /\ Locals(r) /\ Complete(r, m_handlers)
  BY <1>2, <1>3 DEF History, Locals, Complete, Over, Served, Threw, Steps
<1>6. RecordInv(r, m_handlers)
  BY <1>4, <1>5 DEF RecordInv
<1>7. act' = [act EXCEPT ![t] = r] /\ m_handlers' = m_handlers
  BY DEF ObsLockShared, ObsInv, ObsTypeOK
<1>8. sharers' = {u \in Threads : act'[u].pc \in {"serving", "running"}}
  BY <1>2, <1>7 DEF ObsLockShared, ObsInv, LockDiscipline, ObsTypeOK
<1> QED BY <1>2, <1>6, <1>7, <1>8, OneRecord

\* The next handler starts: the steps skipped found none
\* (event_observer.tpp:84-89, 114-121).
LEMMA InvokeInv ==
    ASSUME ObsInv, NEW t \in Threads, ObsInvoke(t)
    PROVE  ObsInv'
<1> DEFINE a == act[t]
<1>1. a \in ActRecord /\ RecordInv(a, m_handlers) /\ a.pc = "serving"
      /\ a.k <= Len(a.events) /\ Len(a.events) \in Nat
  BY DEF ObsInv, ObsTypeOK, ObsInvoke, ActRecord
<1>2. PICK i \in Steps :
          /\ i >= a.i
          /\ Hit(m_handlers, a.events[a.k], i)
          /\ \A j \in Steps : a.i <= j /\ j < i => ~Hit(m_handlers, a.events[a.k], j)
          /\ act' = [act EXCEPT ![t].pc = "running", ![t].i = i,
                         ![t].cur = m_handlers[LookupKey(a.events[a.k], i)]]
  BY DEF ObsInvoke, Current
<1> DEFINE h == m_handlers[LookupKey(a.events[a.k], i)]
<1>3. a.k \in 1..Len(a.events) /\ a.events[a.k] \in Event /\ a.i \in 1..7
  BY <1>1 DEF RecordInv, Place, ActRecord
<1>4. h \in Handlers \cup {NoHandler} /\ h # NoHandler
  BY <1>2, <1>3, LookupKeyType DEF ObsInv, ObsTypeOK, Hit
<1> HIDE DEF h, a
<1> DEFINE r == [a EXCEPT !.pc = "running", !.i = i, !.cur = h]
<1>5. /\ r \in ActRecord /\ r.pc = "running" /\ r.events = a.events
      /\ r.k = a.k /\ r.i = i /\ r.cur = h /\ r.first = a.first
      /\ r.unhandled = a.unhandled /\ r.exceptions = a.exceptions
      /\ r.ran = a.ran /\ r.threw = a.threw
  <2>1. i \in Nat
    BY DEF Steps
  <2>2. "running" \in Phases
    BY DEF Phases
  <2> QED BY <1>1, <1>4, <2>1, <2>2 DEF ActRecord
<1> HIDE DEF r
<1>6. Place(r) /\ Running(r, m_handlers)
  BY <1>1, <1>2, <1>3, <1>4, <1>5 DEF Place, Running, Steps, h
<1>7. History(r)
  BY <1>1, <1>2, <1>3, <1>5 DEF RecordInv, History, ActRecord, Steps
<1>8. Locals(r)
  BY <1>1, <1>5 DEF RecordInv, Locals, Over, Served, Threw
<1>9. Complete(r, m_handlers)
  <2>1. Complete(a, m_handlers)
    BY <1>1 DEF RecordInv
  <2>2. \A n \in 1..Len(r.events) : Over(r, n) /\ ~Threw(r, n) =>
           \A j \in Steps : Hit(m_handlers, r.events[n], j) => <<n, j>> \in r.ran
    BY <1>1, <1>5, <2>1 DEF Complete, Over, Threw
  <2>3. ASSUME NEW j \in Steps, j < r.i, Hit(m_handlers, r.events[r.k], j)
        PROVE  <<r.k, j>> \in r.ran
    <3>1. j < a.i
      BY <1>2, <1>3, <1>5, <2>3 DEF Steps
    <3> QED BY <1>1, <1>5, <2>1, <2>3, <3>1 DEF Complete
  <2> QED BY <2>2, <2>3 DEF Complete
<1>10. RecordInv(r, m_handlers)
  BY <1>6, <1>7, <1>8, <1>9 DEF RecordInv
<1>11. act' = [act EXCEPT ![t] = r] /\ m_handlers' = m_handlers
  BY <1>2 DEF ObsInvoke, ObsInv, ObsTypeOK, r, h, a
<1>12. sharers' = {u \in Threads : act'[u].pc \in {"serving", "running"}}
  BY <1>1, <1>5, <1>11 DEF ObsInvoke, ObsInv, LockDiscipline, ObsTypeOK, a
<1> QED BY <1>5, <1>10, <1>11, <1>12, OneRecord

\* A handler that returns is the event's newest completed step
\* (event_observer.tpp:84-89, 121-122).
LEMMA HandlerReturnsInv ==
    ASSUME ObsInv, NEW t \in Threads, ObsHandlerReturns(t)
    PROVE  ObsInv'
<1> DEFINE a == act[t]
<1>1. a \in ActRecord /\ RecordInv(a, m_handlers) /\ a.pc = "running"
      /\ Len(a.events) \in Nat
  BY DEF ObsInv, ObsTypeOK, ObsHandlerReturns, ActRecord
<1>2. a.k \in Nat \ {0} /\ a.k <= Len(a.events) /\ a.i \in Steps /\ a.i \in Nat
  BY <1>1 DEF RecordInv, Place, ActRecord
<1> HIDE DEF a
<1> DEFINE ran == a.ran \cup {<<a.k, a.i>>}
           r == [a EXCEPT !.pc = "serving", !.i = a.i + 1, !.first = TRUE,
                     !.cur = NoHandler, !.ran = ran]
<1>3. /\ r \in ActRecord /\ r.pc = "serving" /\ r.events = a.events
      /\ r.k = a.k /\ r.i = a.i + 1 /\ r.first = TRUE
      /\ r.unhandled = a.unhandled /\ r.exceptions = a.exceptions
      /\ r.ran = a.ran \cup {<<a.k, a.i>>} /\ r.threw = a.threw
  <2>1. "serving" \in Phases /\ ran \in SUBSET (Nat \X Nat) /\ a.i + 1 \in Nat
    BY <1>1, <1>2 DEF Phases, ActRecord
  <2> HIDE DEF ran
  <2>2. /\ r \in ActRecord /\ r.pc = "serving" /\ r.events = a.events
        /\ r.k = a.k /\ r.i = a.i + 1 /\ r.first = TRUE
        /\ r.unhandled = a.unhandled /\ r.exceptions = a.exceptions
        /\ r.ran = ran /\ r.threw = a.threw
    BY <1>1, <2>1 DEF ActRecord
  <2> QED BY <2>2 DEF ran
<1> HIDE DEF r
<1>4. Place(r) /\ Running(r, m_handlers)
  BY <1>1, <1>2, <1>3 DEF Place, Running, Steps
<1>5. History(r)
  BY <1>1, <1>2, <1>3 DEF RecordInv, History, ActRecord, Steps
<1>6. Locals(r)
  <2>1. Locals(a)
    BY <1>1 DEF RecordInv
  <2>2. \A n \in Nat : Over(r, n) => Over(a, n) /\ n # a.k
    BY <1>2, <1>3 DEF Over
  <2>3. \A n \in Nat : Over(a, n) => Over(r, n) /\ n # a.k
    BY <1>2, <1>3 DEF Over
  <2>4. \A n \in Nat : n # a.k => (Served(r, n) <=> Served(a, n))
    BY <1>3 DEF Served
  <2>5. \A n \in Nat : Threw(r, n) <=> Threw(a, n)
    BY <1>3 DEF Threw
  <2>6. Served(r, r.k)
    BY <1>2, <1>3 DEF Served
  <2>7. a.unhandled \subseteq Nat /\ a.exceptions \subseteq Nat
    BY <1>1 DEF ActRecord
  <2>8. 0 \notin a.exceptions
    BY <1>1, <2>1 DEF Locals
  <2> QED BY <1>3, <2>1, <2>2, <2>3, <2>4, <2>5, <2>6, <2>7, <2>8 DEF Locals
<1>7. Complete(r, m_handlers)
  <2>1. Complete(a, m_handlers)
    BY <1>1 DEF RecordInv
  <2>2. \A n \in 1..Len(r.events) : Over(r, n) /\ ~Threw(r, n) =>
           \A j \in Steps : Hit(m_handlers, r.events[n], j) => <<n, j>> \in r.ran
    BY <1>1, <1>3, <2>1 DEF Complete, Over, Threw
  <2>3. ASSUME NEW j \in Steps, j < r.i, Hit(m_handlers, r.events[r.k], j)
        PROVE  <<r.k, j>> \in r.ran
    <3>1. j < a.i \/ j = a.i
      BY <1>2, <1>3, <2>3 DEF Steps
    <3> QED BY <1>1, <1>2, <1>3, <2>1, <2>3, <3>1 DEF Complete
  <2> QED BY <2>2, <2>3 DEF Complete
<1>8. RecordInv(r, m_handlers)
  BY <1>4, <1>5, <1>6, <1>7 DEF RecordInv
<1>9. act' = [act EXCEPT ![t] = r] /\ m_handlers' = m_handlers
  BY DEF ObsHandlerReturns, ObsInv, ObsTypeOK, r, a
<1>10. sharers' = {u \in Threads : act'[u].pc \in {"serving", "running"}}
  BY <1>1, <1>3, <1>9 DEF ObsHandlerReturns, ObsInv, LockDiscipline, ObsTypeOK, a
<1> QED BY <1>3, <1>8, <1>9, <1>10, OneRecord

\* A handler that throws ends its event (event_observer.tpp:91-94, 42-46).
LEMMA HandlerThrowsInv ==
    ASSUME ObsInv, NEW t \in Threads, ObsHandlerThrows(t)
    PROVE  ObsInv'
<1> DEFINE a == act[t]
           un == UnhandledAfter(t)
<1>1. a \in ActRecord /\ RecordInv(a, m_handlers) /\ a.pc = "running"
      /\ Len(a.events) \in Nat
  BY DEF ObsInv, ObsTypeOK, ObsHandlerThrows, ActRecord
<1>2. a.k \in Nat \ {0} /\ a.k <= Len(a.events) /\ a.i \in Steps /\ a.i \in Nat
  BY <1>1 DEF RecordInv, Place, ActRecord
<1>3. un = IF a.first THEN a.unhandled ELSE a.unhandled \cup {a.k}
  BY DEF UnhandledAfter
<1> HIDE DEF a, un
<1> DEFINE exc == a.exceptions \cup {a.k}
           threw == a.threw \cup {<<a.k, a.i>>}
           r == [a EXCEPT !.pc = "serving", !.k = a.k + 1, !.i = 1, !.first = FALSE,
                     !.cur = NoHandler, !.exceptions = exc,
                     !.unhandled = un, !.threw = threw]
<1>4. /\ r \in ActRecord /\ r.pc = "serving" /\ r.events = a.events
      /\ r.k = a.k + 1 /\ r.i = 1 /\ r.first = FALSE
      /\ r.unhandled = un /\ r.exceptions = a.exceptions \cup {a.k}
      /\ r.ran = a.ran /\ r.threw = a.threw \cup {<<a.k, a.i>>}
  <2>1. "serving" \in Phases /\ un \in SUBSET Nat /\ exc \in SUBSET Nat
        /\ threw \in SUBSET (Nat \X Nat) /\ a.k + 1 \in Nat
    BY <1>1, <1>2, <1>3 DEF Phases, ActRecord
  <2> HIDE DEF exc, threw
  <2>2. /\ r \in ActRecord /\ r.pc = "serving" /\ r.events = a.events
        /\ r.k = a.k + 1 /\ r.i = 1 /\ r.first = FALSE
        /\ r.unhandled = un /\ r.exceptions = exc
        /\ r.ran = a.ran /\ r.threw = threw
    BY <1>1, <2>1 DEF ActRecord
  <2> QED BY <2>2 DEF exc, threw
<1> HIDE DEF r
<1>5. Place(r) /\ Running(r, m_handlers)
  BY <1>1, <1>2, <1>4 DEF Place, Running
<1>6. History(r)
  BY <1>1, <1>2, <1>4 DEF RecordInv, History, ActRecord, Steps
<1>7. Locals(r)
  <2>1. Locals(a) /\ History(a)
    BY <1>1 DEF RecordInv
  <2>2. \A n \in Nat : Over(r, n) <=> Over(a, n) \/ n = a.k
    BY <1>1, <1>2, <1>4 DEF Over
  <2>3. \A n \in Nat : Served(r, n) <=> Served(a, n)
    BY <1>4 DEF Served
  <2>4. \A n \in Nat : Threw(r, n) <=> Threw(a, n) \/ n = a.k
    BY <1>2, <1>4 DEF Threw
  <2>5. ~Served(r, r.k)
    BY <1>1, <1>2, <1>4, <1>6 DEF Served, History, Steps
  <2>6. a.unhandled \subseteq Nat /\ a.exceptions \subseteq Nat
    BY <1>1 DEF ActRecord
  <2>7. 0 \notin r.exceptions
    BY <1>1, <1>2, <1>4, <2>1 DEF Locals
  <2>8. a.first <=> Served(a, a.k)
    BY <2>1 DEF Locals
  <2>9. /\ \A n \in r.unhandled : Over(r, n) /\ ~Served(r, n)
        /\ \A n \in 1..Len(r.events) : Over(r, n) /\ ~Served(r, n) => n \in r.unhandled
    BY <1>2, <1>3, <1>4, <2>1, <2>2, <2>3, <2>6, <2>8 DEF Locals
  <2>10. /\ \A n \in r.exceptions \ {0} : Over(r, n) /\ Threw(r, n)
         /\ \A n \in 1..Len(r.events) : Over(r, n) /\ Threw(r, n) => n \in r.exceptions
    BY <1>2, <1>4, <2>1, <2>2, <2>4, <2>6 DEF Locals
  <2> QED BY <1>4, <2>5, <2>7, <2>9, <2>10 DEF Locals
<1>8. Complete(r, m_handlers)
  <2>1. Complete(a, m_handlers)
    BY <1>1 DEF RecordInv
  <2>2. ASSUME NEW n \in 1..Len(r.events), Over(r, n), ~Threw(r, n)
        PROVE  Over(a, n) /\ ~Threw(a, n)
    <3>1. Threw(r, a.k)
      BY <1>2, <1>4 DEF Threw
    <3>2. n # a.k
      BY <2>2, <3>1
    <3>3. Over(a, n)
      BY <1>1, <1>2, <1>4, <2>2, <3>2 DEF Over
    <3> QED BY <1>4, <2>2, <3>3 DEF Threw
  <2>3. \A j \in Steps : ~(j < r.i)
    BY <1>4 DEF Steps
  <2> QED BY <1>1, <1>4, <2>1, <2>2, <2>3 DEF Complete
<1>9. RecordInv(r, m_handlers)
  BY <1>5, <1>6, <1>7, <1>8 DEF RecordInv
<1>10. act' = [act EXCEPT ![t] = r] /\ m_handlers' = m_handlers
  BY DEF ObsHandlerThrows, ObsInv, ObsTypeOK, r, a, un
<1>11. sharers' = {u \in Threads : act'[u].pc \in {"serving", "running"}}
  BY <1>1, <1>4, <1>10 DEF ObsHandlerThrows, ObsInv, LockDiscipline, ObsTypeOK, a
<1> QED BY <1>4, <1>9, <1>10, <1>11, OneRecord

\* An event whose types are all tried is over (event_observer.tpp:39-46).
LEMMA NextEventInv ==
    ASSUME ObsInv, NEW t \in Threads, ObsNextEvent(t)
    PROVE  ObsInv'
<1> DEFINE a == act[t]
           un == UnhandledAfter(t)
<1>1. a \in ActRecord /\ RecordInv(a, m_handlers) /\ a.pc = "serving"
      /\ Len(a.events) \in Nat /\ a.k <= Len(a.events)
      /\ \A j \in Steps : j >= a.i => ~Hit(m_handlers, a.events[a.k], j)
  BY DEF ObsInv, ObsTypeOK, ObsNextEvent, ActRecord, Current
<1>2. a.k \in Nat \ {0} /\ a.i \in 1..7
  BY <1>1 DEF RecordInv, Place, ActRecord
<1>3. un = IF a.first THEN a.unhandled ELSE a.unhandled \cup {a.k}
  BY DEF UnhandledAfter
<1> HIDE DEF a, un
<1> DEFINE r == [a EXCEPT !.k = a.k + 1, !.i = 1, !.first = FALSE, !.unhandled = un]
<1>4. /\ r \in ActRecord /\ r.pc = "serving" /\ r.events = a.events
      /\ r.k = a.k + 1 /\ r.i = 1 /\ r.first = FALSE
      /\ r.unhandled = un /\ r.exceptions = a.exceptions
      /\ r.ran = a.ran /\ r.threw = a.threw
  <2>1. un \in SUBSET Nat /\ a.k + 1 \in Nat
    BY <1>1, <1>2, <1>3 DEF ActRecord
  <2> QED BY <1>1, <2>1 DEF ActRecord
<1> HIDE DEF r
<1>5. Place(r) /\ Running(r, m_handlers)
  BY <1>1, <1>2, <1>4 DEF Place, Running
<1>6. History(r)
  BY <1>1, <1>2, <1>4 DEF RecordInv, History, ActRecord, Steps
<1>7. Locals(r)
  <2>1. Locals(a) /\ History(a)
    BY <1>1 DEF RecordInv
  <2>2. \A n \in Nat : Over(r, n) <=> Over(a, n) \/ n = a.k
    BY <1>1, <1>2, <1>4 DEF Over
  <2>3. \A n \in Nat : (Served(r, n) <=> Served(a, n)) /\ (Threw(r, n) <=> Threw(a, n))
    BY <1>4 DEF Served, Threw
  <2>4. ~Threw(a, a.k)
    <3>1. ASSUME NEW i \in Steps, <<a.k, i>> \in a.threw PROVE FALSE
      <4>1. <<a.k, i>>[1] < a.k
        BY <2>1, <3>1 DEF History
      <4> QED BY <1>2, <4>1
    <3> QED BY <3>1 DEF Threw
  <2>5. ~Served(r, r.k)
    BY <1>1, <1>2, <1>4, <1>6 DEF Served, History, Steps
  <2>6. a.unhandled \subseteq Nat /\ a.exceptions \subseteq Nat
    BY <1>1 DEF ActRecord
  <2>7. 0 \notin r.exceptions
    BY <1>1, <1>4, <2>1 DEF Locals
  <2>8. a.first <=> Served(a, a.k)
    BY <2>1 DEF Locals
  <2>9. /\ \A n \in r.unhandled : Over(r, n) /\ ~Served(r, n)
        /\ \A n \in 1..Len(r.events) : Over(r, n) /\ ~Served(r, n) => n \in r.unhandled
    BY <1>2, <1>3, <1>4, <2>1, <2>2, <2>3, <2>6, <2>8 DEF Locals
  <2>10. /\ \A n \in r.exceptions \ {0} : Over(r, n) /\ Threw(r, n)
         /\ \A n \in 1..Len(r.events) : Over(r, n) /\ Threw(r, n) => n \in r.exceptions
    BY <1>2, <1>4, <2>1, <2>2, <2>3, <2>4, <2>6 DEF Locals
  <2> QED BY <1>4, <2>5, <2>7, <2>9, <2>10 DEF Locals
<1>8. Complete(r, m_handlers)
  <2>1. Complete(a, m_handlers)
    BY <1>1 DEF RecordInv
  <2>2. ASSUME NEW n \in 1..Len(r.events), Over(r, n), ~Threw(r, n),
               NEW j \in Steps, Hit(m_handlers, r.events[n], j)
        PROVE  <<n, j>> \in r.ran
    <3>1. CASE n = a.k
      <4>1. j < a.i
        BY <1>1, <1>2, <1>4, <2>2, <3>1 DEF Steps
      <4> QED BY <1>1, <1>4, <2>1, <2>2, <3>1, <4>1 DEF Complete
    <3>2. CASE n # a.k
      <4>1. Over(a, n) /\ ~Threw(a, n) /\ n \in 1..Len(a.events)
        <5>1. n < a.k /\ n \in 1..Len(a.events)
          BY <1>1, <1>2, <1>4, <2>2, <3>2 DEF Over
        <5> QED BY <1>4, <2>2, <5>1 DEF Over, Threw
      <4> QED BY <1>1, <1>4, <2>1, <2>2, <4>1 DEF Complete
    <3> QED BY <3>1, <3>2
  <2>3. \A j \in Steps : ~(j < r.i)
    BY <1>4 DEF Steps
  <2> QED BY <2>2, <2>3 DEF Complete
<1>9. RecordInv(r, m_handlers)
  BY <1>5, <1>6, <1>7, <1>8 DEF RecordInv
<1>10. act' = [act EXCEPT ![t] = r] /\ m_handlers' = m_handlers
  BY DEF ObsNextEvent, ObsInv, ObsTypeOK, r, a, un
<1>11. sharers' = {u \in Threads : act'[u].pc \in {"serving", "running"}}
  BY <1>1, <1>4, <1>10 DEF ObsNextEvent, ObsInv, LockDiscipline, ObsTypeOK, a
<1> QED BY <1>4, <1>9, <1>10, <1>11, OneRecord

\* Releasing the mutex after the last event (event_observer.tpp:48).
LEMMA UnlockInv ==
    ASSUME ObsInv, NEW t \in Threads, ObsUnlock(t)
    PROVE  ObsInv'
<1> DEFINE a == act[t]
<1>1. a \in ActRecord /\ RecordInv(a, m_handlers) /\ a.pc = "serving"
      /\ Len(a.events) \in Nat /\ a.k > Len(a.events)
  BY DEF ObsInv, ObsTypeOK, ObsUnlock, ActRecord
<1>2. a.k = Len(a.events) + 1
  BY <1>1 DEF RecordInv, Place, ActRecord
<1> HIDE DEF a
<1> DEFINE r == [a EXCEPT !.pc = "unhandled"]
<1>3. /\ r \in ActRecord /\ r.pc = "unhandled" /\ r.events = a.events
      /\ r.k = a.k /\ r.i = a.i /\ r.first = a.first
      /\ r.unhandled = a.unhandled /\ r.exceptions = a.exceptions
      /\ r.ran = a.ran /\ r.threw = a.threw
  <2>1. "unhandled" \in Phases
    BY DEF Phases
  <2> QED BY <1>1, <2>1 DEF ActRecord
<1> HIDE DEF r
<1>4. Place(r) /\ Running(r, m_handlers) /\ Complete(r, m_handlers)
  BY <1>1, <1>2, <1>3 DEF Place, Running, Complete
<1>5. History(r)
  BY <1>1, <1>3 DEF RecordInv, History
<1>6. Locals(r)
  BY <1>1, <1>3 DEF RecordInv, Locals, Over, Served, Threw
<1>7. RecordInv(r, m_handlers)
  BY <1>4, <1>5, <1>6 DEF RecordInv
<1>8. act' = [act EXCEPT ![t] = r] /\ m_handlers' = m_handlers
  BY DEF ObsUnlock, ObsInv, ObsTypeOK, r, a
<1>9. sharers' = {u \in Threads : act'[u].pc \in {"serving", "running"}}
  BY <1>1, <1>3, <1>8 DEF ObsUnlock, ObsInv, LockDiscipline, ObsTypeOK, a
<1> QED BY <1>3, <1>7, <1>8, <1>9, OneRecord

\* The unhandled callback and the outcome (event_observer.tpp:50-56).
LEMMA HandleUnhandledInv ==
    ASSUME ObsInv, NEW t \in Threads, NEW throws \in BOOLEAN,
           ObsHandleUnhandled(t, throws)
    PROVE  ObsInv'
<1> DEFINE a == act[t]
           exc == IF throws THEN a.exceptions \cup {0} ELSE a.exceptions
           ret == CASE exc # {} -> "throw"
                    [] exc = {} /\ a.events # << >> -> "true"
                    [] OTHER -> "false"
<1>1. a \in ActRecord /\ RecordInv(a, m_handlers) /\ a.pc = "unhandled"
      /\ Len(a.events) \in Nat
  BY DEF ObsInv, ObsTypeOK, ObsHandleUnhandled, ActRecord
<1>2. act' = [act EXCEPT ![t] = [a EXCEPT !.pc = "done", !.exceptions = exc, !.ret = ret]]
      /\ m_handlers' = m_handlers /\ sharers' = sharers
  BY DEF ObsHandleUnhandled, ObsInv, ObsTypeOK
<1>3. ret \in {"none", "true", "false", "throw"} /\ (ret = "throw" <=> exc # {})
  OBVIOUS
<1>4. exc \in SUBSET Nat /\ exc \ {0} = a.exceptions \ {0}
  BY <1>1 DEF ActRecord
<1> HIDE DEF a, exc, ret
<1> DEFINE r == [a EXCEPT !.pc = "done", !.exceptions = exc, !.ret = ret]
<1>5. /\ r \in ActRecord /\ r.pc = "done" /\ r.events = a.events
      /\ r.k = a.k /\ r.i = a.i /\ r.first = a.first
      /\ r.unhandled = a.unhandled /\ r.exceptions = exc
      /\ r.ran = a.ran /\ r.threw = a.threw /\ r.ret = ret
  <2>1. "done" \in Phases
    BY DEF Phases
  <2> QED BY <1>1, <1>3, <1>4, <2>1 DEF ActRecord
<1> HIDE DEF r
<1>6. Place(r) /\ Running(r, m_handlers) /\ Complete(r, m_handlers)
  BY <1>1, <1>5 DEF RecordInv, Place, Running, Complete
<1>7. History(r)
  BY <1>1, <1>5 DEF RecordInv, History
<1>8. Locals(r)
  <2>1. Locals(a)
    BY <1>1 DEF RecordInv
  <2>2. \A n : n \in exc \ {0} <=> n \in a.exceptions \ {0}
    BY <1>4
  <2>3. \A n : /\ Over(r, n) <=> Over(a, n)
               /\ Served(r, n) <=> Served(a, n)
               /\ Threw(r, n) <=> Threw(a, n)
    BY <1>5 DEF Over, Served, Threw
  <2>4. \A n \in r.exceptions \ {0} : Over(r, n) /\ Threw(r, n)
    BY <1>5, <2>1, <2>2, <2>3 DEF Locals
  <2>5. ASSUME NEW n \in 1..Len(r.events), Over(r, n), Threw(r, n)
        PROVE  n \in r.exceptions
    <3>1. n \in a.exceptions \ {0}
      BY <1>1, <1>5, <2>1, <2>3, <2>5 DEF Locals
    <3> QED BY <1>5, <2>2, <3>1
  <2>6. /\ \A n \in r.unhandled : Over(r, n) /\ ~Served(r, n)
        /\ \A n \in 1..Len(r.events) : Over(r, n) /\ ~Served(r, n) => n \in r.unhandled
        /\ r.first <=> Served(r, r.k)
    BY <1>5, <2>1, <2>3 DEF Locals
  <2> QED BY <1>3, <1>5, <2>4, <2>5, <2>6 DEF Locals
<1>9. RecordInv(r, m_handlers)
  BY <1>6, <1>7, <1>8 DEF RecordInv
<1>10. sharers' = {u \in Threads : act'[u].pc \in {"serving", "running"}}
  BY <1>1, <1>2, <1>5 DEF ObsInv, LockDiscipline, ObsTypeOK, a, r
<1> QED BY <1>2, <1>5, <1>9, <1>10, OneRecord DEF r

\* The caller takes the outcome.
LEMMA ReturnInv ==
    ASSUME ObsInv, NEW t \in Threads, ObsReturn(t)
    PROVE  ObsInv'
<1>1. Outside \in ActRecord /\ Outside.pc = "out"
  BY DEF Outside, ActRecord, Phases
<1>2. RecordInv(Outside, m_handlers)
  BY <1>1 DEF RecordInv, Place, Running
<1>3. act' = [act EXCEPT ![t] = Outside] /\ m_handlers' = m_handlers
  BY DEF ObsReturn
<1>4. sharers' = {u \in Threads : act'[u].pc \in {"serving", "running"}}
  BY <1>1, <1>3 DEF ObsReturn, ObsInv, LockDiscipline, ObsTypeOK
<1> QED BY <1>1, <1>2, <1>3, <1>4, OneRecord

\* Every step of proceed() outside the handlers preserves the invariant
\* (event_observer.tpp:31-57).
LEMMA StepInv ==
    ASSUME ObsInv, NEW t \in Threads, ObsStep(t)
    PROVE  ObsInv'
BY LockSharedInv, InvokeInv, NextEventInv, UnlockInv, HandleUnhandledInv, ReturnInv
   DEF ObsStep

\* Nothing happened to the observer.
LEMMA ObsStutterInv ==
    ASSUME ObsInv, UNCHANGED obsVars
    PROVE  ObsInv'
BY DEF ObsInv, obsVars, ObsTypeOK, LockDiscipline

------------------------------------------------------------------------------
(* What a step of proceed() does to the phase of a thread.                  *)

\* A step of the observer by thread t leaves the other records alone, starts
\* from outside only by polling, and leaves "running" only when the handler
\* returns or throws.
LEMMA PhaseSteps ==
    ASSUME ObsTypeOK, NEW t \in Threads
    PROVE  /\ ObsStep(t) => /\ \A u \in Threads \ {t} : act'[u] = act[u]
                            /\ act[t].pc \notin {"out", "running"}
           /\ ObsHandlerReturns(t) \/ ObsHandlerThrows(t) =>
                            /\ \A u \in Threads \ {t} : act'[u] = act[u]
                            /\ act[t].pc = "running" /\ act'[t].pc = "serving"
           /\ \A events : ObsPoll(t, events) =>
                            /\ \A u \in Threads \ {t} : act'[u] = act[u]
                            /\ act[t].pc = "out" /\ act'[t].pc = "polled"
<1>1. ObsStep(t) => /\ \A u \in Threads \ {t} : act'[u] = act[u]
                    /\ act[t].pc \notin {"out", "running"}
  BY DEF ObsTypeOK, ObsStep, ObsLockShared, ObsInvoke, ObsNextEvent, ObsUnlock,
         ObsHandleUnhandled, ObsReturn
<1>2. ObsHandlerReturns(t) \/ ObsHandlerThrows(t) =>
          /\ \A u \in Threads \ {t} : act'[u] = act[u]
          /\ act[t].pc = "running" /\ act'[t].pc = "serving"
  BY DEF ObsTypeOK, ActRecord, ObsHandlerReturns, ObsHandlerThrows
<1>3. \A events : ObsPoll(t, events) =>
          /\ \A u \in Threads \ {t} : act'[u] = act[u]
          /\ act[t].pc = "out" /\ act'[t].pc = "polled"
  BY DEF ObsTypeOK, ObsPoll, Outside
<1> QED BY <1>1, <1>2, <1>3

\* proceed() goes forward in its batch: while the activation lasts, a step of
\* thread t keeps the batch and does not go back in it (event_observer.tpp:39-48,
\* 82-94).
LEMMA ForwardSteps ==
    ASSUME ObsInv, NEW t \in Threads, ObsStep(t) \/ ObsHandlerReturns(t)
    PROVE  /\ m_handlers' = m_handlers
           /\ \A u \in Threads \ {t} : act'[u] = act[u]
           /\ act'[t].pc = "out" => act'[t].events = << >>
           /\ act'[t].pc # "out" =>
                 /\ act'[t].events = act[t].events
                 /\ \/ act'[t].k = act[t].k /\ act'[t].i >= act[t].i
                    \/ act'[t].k = act[t].k + 1 /\ act[t].pc = "serving"
                 /\ act'[t].pc \in {"polled", "serving", "running"} =>
                       act[t].pc \in {"polled", "serving", "running"}
<1>1. act \in [Threads -> ActRecord] /\ act[t] \in ActRecord
  BY DEF ObsInv, ObsTypeOK
<1>2. CASE ObsLockShared(t)
  BY <1>1, <1>2 DEF ObsLockShared, ActRecord
<1>3. CASE ObsInvoke(t)
  BY <1>1, <1>3 DEF ObsInvoke, ActRecord
<1>4. CASE ObsNextEvent(t)
  BY <1>1, <1>4 DEF ObsNextEvent, ActRecord
<1>5. CASE ObsUnlock(t)
  BY <1>1, <1>5 DEF ObsUnlock, ActRecord
<1>6. CASE \E throws \in BOOLEAN : ObsHandleUnhandled(t, throws)
  BY <1>1, <1>6 DEF ObsHandleUnhandled, ActRecord
<1>7. CASE ObsReturn(t)
  BY <1>1, <1>7 DEF ObsReturn, Outside, ActRecord
<1>8. CASE ObsHandlerReturns(t)
  BY <1>1, <1>8 DEF ObsHandlerReturns, ActRecord
<1> QED BY <1>2, <1>3, <1>4, <1>5, <1>6, <1>7, <1>8 DEF ObsStep

------------------------------------------------------------------------------
(* What the invariant says.                                                 *)

\* The inductive invariant implies each of the observer's properties.
LEMMA ObsInvImplies ==
    ObsInv => /\ ObsTypeOK
              /\ RemovedMeansQuiet
              /\ UnhandledExactlyUnserved
              /\ ExceptionsStayLocal
              /\ ExceptionsReported
              /\ ServedInOrder
<1> SUFFICES ASSUME ObsInv
    PROVE  /\ ObsTypeOK
           /\ RemovedMeansQuiet
           /\ UnhandledExactlyUnserved
           /\ ExceptionsStayLocal
           /\ ExceptionsReported
           /\ ServedInOrder
  OBVIOUS
<1>1. ObsTypeOK
  BY DEF ObsInv
<1>2. RemovedMeansQuiet
  BY DEF ObsInv, RecordInv, Running, RemovedMeansQuiet, Current
<1>3. UnhandledExactlyUnserved
  <2> SUFFICES ASSUME NEW t \in Threads, act[t].pc \in {"unhandled", "done"}
      PROVE  act[t].unhandled = {n \in 1..Len(act[t].events) : ~Served(act[t], n)}
    BY DEF UnhandledExactlyUnserved
  <2>1. Locals(act[t]) /\ act[t].k = Len(act[t].events) + 1
    BY DEF ObsInv, RecordInv, Place
  <2>2. Len(act[t].events) \in Nat
    BY DEF ObsInv, ObsTypeOK, ActRecord
  <2> QED BY <2>1, <2>2 DEF Locals, Over
<1>4. ExceptionsStayLocal
  BY DEF ObsInv, RecordInv, Complete, ExceptionsStayLocal
<1>5. ExceptionsReported
  <2> SUFFICES ASSUME NEW t \in Threads, act[t].pc = "done"
      PROVE  /\ act[t].exceptions \ {0} =
                   {n \in 1..Len(act[t].events) : Threw(act[t], n)}
             /\ act[t].ret = "throw" <=> act[t].exceptions # {}
    BY DEF ExceptionsReported
  <2>1. Locals(act[t]) /\ act[t].k = Len(act[t].events) + 1
    BY DEF ObsInv, RecordInv, Place
  <2>2. Len(act[t].events) \in Nat
    BY DEF ObsInv, ObsTypeOK, ActRecord
  <2> QED BY <2>1, <2>2 DEF Locals, Over
<1>6. ServedInOrder
  BY DEF ObsInv, RecordInv, History, ServedInOrder
<1> QED BY <1>1, <1>2, <1>3, <1>4, <1>5, <1>6

------------------------------------------------------------------------------
(* epoll_wait, and the events that proceed() makes of its flags.            *)

\* The events of one epoll_wait are well formed, name different descriptors of
\* the ready list, and carry the types of the flags reported for them
\* (epoll.cpp:116-173).
LEMMA TakenEvents ==
    ASSUME IsFiniteSet(Fds), EpollTypeOK, NEW take \in Takes(Raised),
           NEW events, events = EventsOf(take, Raised)
    PROVE  /\ events \in Seq(Event)
           /\ \A j \in 1..Len(events) :
                 /\ events[j].fd \in ready /\ events[j].fd \in Range(take)
                 /\ Reported(events[j].fd, Raised) # {}
                 /\ events[j].type = event_type_from_flags(Reported(events[j].fd, Raised))
           /\ \A i, j \in 1..Len(events) : events[i].fd = events[j].fd => i = j
           /\ \A fd \in Range(take) : \E j \in 1..Len(events) : events[j].fd = fd
<1> DEFINE due == {fd \in ready : Reported(fd, Raised) # {}}
           n   == IF Cardinality(due) < MaxEvents THEN Cardinality(due) ELSE MaxEvents
<1>1. due \subseteq Fds
  BY DEF EpollTypeOK
<1>2. Cardinality(due) \in Nat
  BY <1>1, FS_Subset, FS_CardinalityType
<1>3. n \in Nat
  BY <1>2, EpollAssumption
<1>4. PICK fds \in kSubset(n, due) : take \in SetToSeqs(fds)
  BY DEF Takes
<1>5. fds \subseteq due /\ Cardinality(fds) = n
  BY <1>4 DEF kSubset
<1>6. /\ take \in [1..n -> fds]
      /\ \A i, j \in 1..n : i # j => take[i] # take[j]
  BY <1>4, <1>5 DEF SetToSeqs
<1>7. \A j \in 1..n : /\ take[j] \in Fds /\ take[j] \in ready
                      /\ Reported(take[j], Raised) # {}
  BY <1>1, <1>5, <1>6
<1> HIDE DEF n, due
<1>8. Len(take) = n /\ DOMAIN take = 1..n
  BY <1>3, <1>6
<1>9. ASSUME NEW j \in 1..n
      PROVE  event_type_from_flags(Reported(take[j], Raised)) \in SUBSET EventType
  <2>1. ASSUME NEW f \in Flag \ {"ET"} PROVE TypeOfFlag[f] \in EventType
    BY <2>1 DEF Flag, TypeOfFlag, EventType
  <2>2. Reported(take[j], Raised) \subseteq Flag
    BY <1>7 DEF Reported, EpollTypeOK
  <2> QED BY <2>1, <2>2 DEF event_type_from_flags
<1>10. /\ events \in [1..n -> Event]
       /\ \A j \in 1..n : /\ events[j].fd = take[j]
                          /\ events[j].type = event_type_from_flags(Reported(take[j], Raised))
  BY <1>7, <1>8, <1>9 DEF EventsOf, Event
<1>11. Len(events) = n
  BY <1>3, <1>10
<1>12. \A j \in 1..n : take[j] \in Range(take)
  BY <1>8 DEF Range
<1>13. events \in Seq(Event)
  BY <1>3, <1>10
<1>14. ASSUME NEW j \in 1..n
       PROVE  /\ events[j].fd \in ready /\ events[j].fd \in Range(take)
              /\ Reported(events[j].fd, Raised) # {}
              /\ events[j].type = event_type_from_flags(Reported(events[j].fd, Raised))
  BY <1>7, <1>10, <1>12
<1>15. \A i, j \in 1..n : events[i].fd = events[j].fd => i = j
  BY <1>6, <1>10
<1>16. ASSUME NEW fd \in Range(take) PROVE \E j \in 1..n : events[j].fd = fd
  BY <1>8, <1>10 DEF Range
<1> QED BY <1>11, <1>13, <1>14, <1>15, <1>16

------------------------------------------------------------------------------
(* The interest list and the ready list, one operation at a time.           *)

\* After add_socket the descriptor is watched, nothing else changes in the
\* interest list, and only this descriptor may become ready
\* (epoll.cpp:60-63, 94-107).
LEMMA AddSocketStep ==
    ASSUME EpollTypeOK, NEW fd \in Fds, NEW sockop \in SockOp, NEW raised,
           add_socket(fd, sockop, raised)
    PROVE  /\ EpollTypeOK'
           /\ interest'[fd] # {}
           /\ \A other \in Fds \ {fd} : interest'[other] = interest[other]
           /\ ready \subseteq ready' /\ ready' \subseteq ready \cup {fd}
           /\ ready' # ready => raised \cap flags_from_op(sockop) # {}
<1> DEFINE flags == flags_from_op(sockop)
<1>1. flags \in SUBSET Flag /\ flags # {}
  <2>1. "RDHUP" \in flags
    BY DEF flags_from_op
  <2>2. flags \in SUBSET Flag
    BY DEF flags_from_op, Flag
  <2> QED BY <2>1, <2>2
<1> HIDE DEF flags
<1>2. CASE interest[fd] # {}
  BY <1>2 DEF add_socket, EpollTypeOK, epollVars
<1>3. CASE interest[fd] = {}
  <2>1. /\ interest' = [interest EXCEPT ![fd] = flags]
        /\ ready' = IF raised \cap flags # {} THEN ready \cup {fd} ELSE ready
    BY <1>3 DEF add_socket, flags
  <2>2. interest' \in [Fds -> SUBSET Flag] /\ interest'[fd] = flags
    BY <1>1, <2>1 DEF EpollTypeOK
  <2>3. \A other \in Fds \ {fd} : interest'[other] = interest[other]
    BY <2>1 DEF EpollTypeOK
  <2>4. /\ ready \subseteq ready' /\ ready' \subseteq ready \cup {fd}
        /\ ready' # ready => raised \cap flags # {}
    BY <2>1
  <2>5. EpollTypeOK'
    BY <2>2, <2>4 DEF EpollTypeOK
  <2> QED BY <1>1, <2>2, <2>3, <2>4, <2>5 DEF flags
<1> QED BY <1>2, <1>3

\* del_socket, and the removal that close() implies (epoll.cpp:110-113).
LEMMA UnwatchStep ==
    ASSUME EpollTypeOK, NEW fds, Unwatch(fds)
    PROVE  /\ EpollTypeOK'
           /\ \A fd \in Fds : interest'[fd] = IF fd \in fds THEN {} ELSE interest[fd]
           /\ ready' = ready \ fds
  BY DEF EpollTypeOK, Unwatch

\* A wake-up of the socket (external).
LEMMA WakeStep ==
    ASSUME EpollTypeOK, NEW fd \in Fds, Wake(fd)
    PROVE  EpollTypeOK' /\ interest' = interest /\ ready' \subseteq ready \cup {fd}
  BY DEF EpollTypeOK, Wake

\* proceed() takes descriptors off the ready list and watches the same ones
\* (epoll.cpp:116-173).
LEMMA ProceedStep ==
    ASSUME EpollTypeOK, NEW take, proceed(take, Raised)
    PROVE  /\ EpollTypeOK' /\ interest' = interest
           /\ ready' \subseteq ready \ Range(take)
  BY DEF EpollTypeOK, proceed

------------------------------------------------------------------------------
(* The kernel's sockets.                                                    *)

\* What a peer does to an established connection (external): it stays open,
\* and what ended has ended.
PeerActs(fd) == Arrive(fd) \/ UrgentArrives(fd) \/ PeerCloses(fd) \/ PeerResets(fd)

LEMMA PeerStep ==
    ASSUME EpollTypeOK, KernelTypeOK, NEW fd \in Fds, PeerActs(fd)
    PROVE  /\ EpollTypeOK' /\ KernelTypeOK' /\ interest' = interest
           /\ ready' \subseteq ready \cup {fd} /\ rx' \subseteq rx \cup {fd}
           /\ \A other \in Fds \ {fd} : ksock'[other] = ksock[other]
           /\ ksock[fd] \in {"est", "urgent", "fin", "udp"}
           /\ ksock[fd] = "udp" => ksock'[fd] = "udp" /\ Arrive(fd)
           /\ ksock[fd] # "udp" => ksock'[fd] \in {"est", "urgent", "fin", "reset"}
           /\ ksock[fd] \in {"urgent", "fin"} => ksock'[fd] \in {"urgent", "fin", "reset"}
<1>1. Wake(fd)
  BY DEF PeerActs, Arrive, UrgentArrives, PeerCloses, PeerResets
<1>2. KernelTypeOK' /\ rx' \subseteq rx \cup {fd}
  BY DEF PeerActs, Arrive, UrgentArrives, PeerCloses, PeerResets, KernelTypeOK, SockState
<1>3. \A other \in Fds \ {fd} : ksock'[other] = ksock[other]
  BY DEF PeerActs, Arrive, UrgentArrives, PeerCloses, PeerResets, KernelTypeOK
<1>4. /\ ksock[fd] \in {"est", "urgent", "fin", "udp"}
      /\ ksock[fd] = "udp" => ksock'[fd] = "udp" /\ Arrive(fd)
      /\ ksock[fd] # "udp" => ksock'[fd] \in {"est", "urgent", "fin", "reset"}
      /\ ksock[fd] \in {"urgent", "fin"} => ksock'[fd] \in {"urgent", "fin", "reset"}
  BY DEF PeerActs, Arrive, UrgentArrives, PeerCloses, PeerResets, KernelTypeOK
<1> QED BY <1>1, <1>2, <1>3, <1>4, WakeStep

\* No socket has urgent data if the peers send none.
Calm == ~UrgentData => \A fd \in Fds : ksock[fd] # "urgent"

LEMMA PeerCalm ==
    ASSUME KernelTypeOK, Calm, NEW fd \in Fds, PeerActs(fd)
    PROVE  Calm'
<1>1. CASE UrgentArrives(fd)
  BY <1>1 DEF UrgentArrives, Calm
<1>2. CASE Arrive(fd) \/ PeerCloses(fd) \/ PeerResets(fd)
  BY <1>2 DEF Arrive, PeerCloses, PeerResets, Calm, KernelTypeOK
<1> QED BY <1>1, <1>2 DEF PeerActs

\* The types that end a connection are reported of a socket that is down, has
\* urgent data or was never connected, and of no other (epoll.cpp:142-174).
ErasingTypes == {"PEER_CLOSED", "ERROR", "HANGUP", "EXCEPTION"}

LEMMA ErasingReported ==
    ASSUME NEW fd \in Fds,
           event_type_from_flags(Reported(fd, Raised)) \cap ErasingTypes # {}
    PROVE  ksock[fd] \in {"fresh", "urgent", "fin", "reset", "refused"}
<1>1. PICK f \in Reported(fd, Raised) \ {"ET"} : TypeOfFlag[f] \in ErasingTypes
  BY DEF event_type_from_flags
<1>2. f \in Raised[fd]
  BY <1>1 DEF Reported
<1>3. f \in {"IN", "OUT", "PRI", "HUP", "ERR", "RDHUP"}
  BY <1>2 DEF Raised
<1>4. f \notin {"IN", "OUT"}
  BY <1>1 DEF TypeOfFlag, ErasingTypes
<1> QED BY <1>2, <1>4 DEF Raised

\* READ_READY is reported of a socket with something to read, or that is down.
LEMMA ReadReported ==
    ASSUME NEW fd \in Fds,
           "READ_READY" \in event_type_from_flags(Reported(fd, Raised))
    PROVE  fd \in rx \/ ksock[fd] \in {"fin", "reset", "refused"}
<1>1. PICK f \in Reported(fd, Raised) \ {"ET"} : TypeOfFlag[f] = "READ_READY"
  BY DEF event_type_from_flags
<1>2. f \in Raised[fd]
  BY <1>1 DEF Reported
<1>3. f \in {"IN", "OUT", "PRI", "HUP", "ERR", "RDHUP"}
  BY <1>2 DEF Raised
<1>4. f = "IN"
  BY <1>1, <1>3 DEF TypeOfFlag
<1> QED BY <1>2, <1>4 DEF Raised

\* A socket that was connected and is reported closed is down, and is reported
\* readable in the same event.
ClosingTypes == {"PEER_CLOSED", "HANGUP", "ERROR"}

LEMMA ClosingReported ==
    ASSUME NEW fd \in Fds, ksock[fd] # "fresh", "IN" \in interest[fd],
           event_type_from_flags(Reported(fd, Raised)) \cap ClosingTypes # {}
    PROVE  /\ ksock[fd] \in {"fin", "reset", "refused"}
           /\ "READ_READY" \in event_type_from_flags(Reported(fd, Raised))
<1>1. PICK f \in Reported(fd, Raised) \ {"ET"} : TypeOfFlag[f] \in ClosingTypes
  BY DEF event_type_from_flags
<1>2. f \in Raised[fd]
  BY <1>1 DEF Reported
<1>3. f \in {"IN", "OUT", "PRI", "HUP", "ERR", "RDHUP"}
  BY <1>2 DEF Raised
<1>4. f \notin {"IN", "OUT", "PRI"}
  BY <1>1 DEF TypeOfFlag, ClosingTypes
<1>5. ksock[fd] \in {"fin", "reset", "refused"}
  BY <1>2, <1>4 DEF Raised
<1>6. "IN" \in Reported(fd, Raised)
  BY <1>5 DEF Reported, Raised
<1>7. TypeOfFlag["IN"] = "READ_READY" /\ "IN" # "ET"
  BY DEF TypeOfFlag
<1> QED BY <1>5, <1>6, <1>7 DEF event_type_from_flags
==============================================================================
