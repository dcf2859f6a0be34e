---------------------------- MODULE ServerProofs ----------------------------
(***************************************************************************)
(* Theorems of server_t with the application of ServerSystem, for any      *)
(* number of pollers, descriptors, peers and datagrams.                    *)
(***************************************************************************)
EXTENDS ServerSystem, EndpointLemmas

(***************************************************************************)
(* The inductive invariant.                                                *)
(***************************************************************************)
\* Only start() registers handlers, each under its type.
HandlersInv ==
    \A key \in Keys : m_handlers[key] # NoHandler =>
        \/ key = "READ_READY" /\ m_handlers[key] = "read"
        \/ key \in ErasingTypes /\ m_handlers[key] = "erase"

\* The handler that accepts holds m_mutex until it has handed the socket on.
HoldsAccepted(t) == m_mutex = t /\ act[t].pc = "running" /\ act[t].cur = "read"

\* Who holds m_mutex, and what that says of the fields it guards.
MutexInv ==
    /\ op # 0 => /\ m_mutex = Controller /\ act[Controller].pc = "out"
                 /\ state.kind = "idle"
    /\ op = 0 /\ m_mutex # NoThread => act[m_mutex].pc = "running"
    /\ state.fd \in Fds <=> state.kind = "listening" \/ op # 0
    /\ state.kind = "destroyed" => \A t \in Threads : act[t].pc = "out"
    /\ accepted # NoFd <=> \E t \in Threads : HoldsAccepted(t)

\* Before start() has finished nothing is watched, polled or held; a datagram
\* server has no connections and a stream server no references.
IdleInv ==
    /\ state.kind = "idle" =>
          /\ conns = {} /\ refs = 0 /\ ready = {}
          /\ \A fd \in Fds : interest[fd] = {}
          /\ \A t \in Threads : act[t].events = << >>
    /\ proto = "udp" => conns = {} /\ accepted = NoFd
    /\ proto = "tcp" => refs = 0

\* The descriptors: whose they are, what they are, and which epoll watches.
SocketInv ==
    /\ DescriptorsOwned
    /\ state.fd \in Fds => ksock[state.fd] = IF proto = "tcp" THEN "listen" ELSE "udp"
    /\ \A fd \in Fds : fd \in conns \/ fd = accepted =>
          ksock[fd] \in {"est", "urgent", "fin", "reset"}
    /\ \A fd \in Fds : interest[fd] # {} => fd \in conns \/ fd = state.fd
    /\ \A t \in Threads : InErase(t) => interest[Current(t).fd] = {}

\* A batch reports a descriptor once.
BatchInv ==
    \A t \in Threads : \A m, n \in 1..Len(act[t].events) :
        act[t].events[m].fd = act[t].events[n].fd => m = n

\* A thread that will still call on_conn for a datagram.
OwesRef(t) ==
    /\ act[t].pc \in {"polled", "serving", "running"}
    /\ \E n \in 1..Len(act[t].events) :
          /\ act[t].events[n].fd = state.fd
          /\ "READ_READY" \in act[t].events[n].type
          /\ n > act[t].k \/ (n = act[t].k /\ act[t].i = 1)

Owing == {t \in Threads : OwesRef(t)}

\* Every reference, given or due, has its datagram.
RefsInv ==
    proto = "udp" =>
        /\ IsFiniteSet(Owing)
        /\ refs + Cardinality(Owing) + (IF state.fd \in ready THEN 1 ELSE 0) <= peers
        /\ rx # {} => peers > 0

ServerInv ==
    /\ TypeOK /\ ObsInv /\ HandlersInv /\ MutexInv /\ IdleInv /\ SocketInv /\ BatchInv
    /\ HeldMeansWatched
    /\ RefsInv

\* With one thread: the part of the batch that is not over is not stale.
BatchFresh ==
    \A t \in Threads : act[t].pc \in {"polled", "serving", "running"} =>
        /\ \A n \in 1..Len(act[t].events) :
              /\ n > act[t].k => \/ act[t].events[n].fd \in conns
                                 \/ act[t].events[n].fd = state.fd
              /\ /\ n >= act[t].k
                 /\ act[t].events[n].type \cap ErasingTypes # {}
                 /\ act[t].events[n].fd \in conns
                 => ksock[act[t].events[n].fd] \in Down \cup {"urgent"}
        /\ HoldsAccepted(t) => Current(t).fd = state.fd

------------------------------------------------------------------------------
(* The observer and the types.                                              *)

\* The handler that runs is one of the two, for a type the event carries
\* (event_observer.tpp:82-94, server.tpp:99-131).
LEMMA RunningServer ==
    ASSUME ObsInv, HandlersInv, NEW t \in Threads, act[t].pc = "running"
    PROVE  /\ Current(t) \in Event
           /\ act[t].k \in 1..Len(act[t].events)
           /\ act[t].cur \in {"erase", "read"}
           /\ act[t].cur = "read" => act[t].i = 1 /\ "READ_READY" \in Current(t).type
           /\ act[t].cur = "erase" => Current(t).type \cap ErasingTypes # {}
<1> DEFINE e == Current(t)
           i == act[t].i
<1>1. act[t].events \in Seq(Event) /\ act[t].k \in 1..Len(act[t].events) /\ i \in Steps
  BY DEF ObsInv, ObsTypeOK, ActRecord, RecordInv, Place
<1>2. e \in Event
  BY <1>1 DEF Current
<1>3. LookupKey(e, i) \in Keys
  BY <1>1, <1>2, LookupKeyType
<1>4. act[t].cur # NoHandler /\ m_handlers[LookupKey(e, i)] = act[t].cur
  BY DEF ObsInv, RecordInv, Running, Current
<1>5. \/ LookupKey(e, i) = "READ_READY" /\ act[t].cur = "read"
      \/ LookupKey(e, i) \in ErasingTypes /\ act[t].cur = "erase"
  BY <1>3, <1>4 DEF HandlersInv
<1>6. LookupKey(e, i) # "NONE" => LookupKey(e, i) = TypeOrder[i] /\ TypeOrder[i] \in e.type
  BY DEF LookupKey
<1>7. LookupKey(e, i) = "READ_READY" => i = 1 /\ "READ_READY" \in e.type
  <2> HIDE DEF i, e
  <2>1. TypeOrder[i] = "READ_READY" => i = 1
    BY <1>1 DEF TypeOrder, Steps
  <2> QED BY <1>6, <2>1
<1>8. LookupKey(e, i) \in ErasingTypes => e.type \cap ErasingTypes # {}
  BY <1>6 DEF ErasingTypes
<1> QED BY <1>1, <1>2, <1>5, <1>7, <1>8

\* Every step of the server is a step of its observer, or none.
LEMMA ServerObsInv ==
    ASSUME TypeOK, ObsInv, [Next]_vars
    PROVE  ObsInv'
<1> USE ServerAssumption
<1>1. CASE UNCHANGED obsVars
  BY <1>1, ObsStutterInv
<1>2. CASE RegisterCb
  <2>1. RegisterOrder[op] \in Keys /\ HandlerFor(RegisterOrder[op]) \in Handlers
    BY <1>2 DEF RegisterCb, RegisterOrder, Keys, EventType, HandlerFor
  <2> QED BY <1>2, <2>1, AddInv DEF RegisterCb
<1>3. CASE Destroy
  <2>1. sharers = {} /\ UNCHANGED <<sharers, act>>
    BY <1>3 DEF Destroy, Destroys, ObsInv, LockDiscipline
  <2>2. m_handlers' \in [Keys -> Handlers \cup {NoHandler}]
    BY <1>3 DEF Destroy, Destroys, ObsInv, ObsTypeOK
  <2> QED BY <2>1, <2>2, NoServerInv
<1>4. ASSUME NEW t \in Threads, Poll(t) PROVE ObsInv'
  BY <1>4, TakenEvents, PollInv DEF Poll, TypeOK, ServerTypeOK
<1>5. ASSUME NEW t \in Threads, InProceed(t), ~UNCHANGED obsVars PROVE ObsInv'
  <2>1. ObsStep(t) \/ ObsHandlerReturns(t)
    BY <1>5 DEF InProceed, InEndpoint, Accept, HandlerIgnores, AcceptFails, HandlerErases,
                HandOver, HandsOver, HandOverRef, HandsOverRef, EraseActiveSocket, CallsErase
  <2> QED BY <2>1, StepInv, HandlerReturnsInv
<1>6. ASSUME \/ Start \/ Listen \/ Network \/ AppDropsRef \/ UNCHANGED vars
             \/ \E fd \in Fds : AppReads(fd) \/ AppDrops(fd)
      PROVE  UNCHANGED obsVars
  BY <1>6 DEF Start, Listen, Network, PeerConnects, DatagramArrives, AppDropsRef, AppReads,
              AppDrops, vars
<1> QED BY <1>1, <1>2, <1>3, <1>4, <1>5, <1>6 DEF Next, InStart

\* Only start() and the destructor change the handler map
\* (server.tpp:28, 99-131, 135-142).
LEMMA HandlersStep ==
    ASSUME TypeOK, ObsInv, HandlersInv, [Next]_vars
    PROVE  HandlersInv'
<1> USE ServerAssumption
<1>1. CASE m_handlers' = m_handlers
  BY <1>1 DEF HandlersInv
<1>2. CASE RegisterCb
  <2> DEFINE key == RegisterOrder[op]
             h == HandlerFor(key)
  <2>1. /\ key = "READ_READY" => h = "read"
        /\ key # "READ_READY" => h = "erase" /\ key \in ErasingTypes
        /\ key \in Keys
    BY <1>2 DEF RegisterCb, RegisterOrder, HandlerFor, Keys, EventType, ErasingTypes
  <2> HIDE DEF key, h
  <2>2. m_handlers' = m_handlers \/ m_handlers' = [m_handlers EXCEPT ![key] = h]
    BY <1>2 DEF RegisterCb, add, key, h
  <2>3. m_handlers \in [Keys -> Handlers \cup {NoHandler}]
    BY DEF ObsInv, ObsTypeOK
  <2> QED BY <2>1, <2>2, <2>3 DEF HandlersInv
<1>3. CASE Destroy
  <2>1. \A key \in Keys : m_handlers'[key] \in {NoHandler, m_handlers[key]}
    BY <1>3 DEF Destroy, Destroys
  <2> QED BY <2>1 DEF HandlersInv
<1>4. ASSUME NEW t \in Threads, Poll(t) \/ InProceed(t) PROVE m_handlers' = m_handlers
  <2>1. CASE ObsStep(t) \/ ObsHandlerReturns(t)
    BY <2>1, ForwardSteps
  <2>2. CASE ~(ObsStep(t) \/ ObsHandlerReturns(t))
    BY <1>4, <2>2 DEF Poll, ObsPoll, InProceed, InEndpoint, Accept, HandlerIgnores,
         AcceptFails, HandlerErases, HandOver, HandsOver, HandOverRef, HandsOverRef,
         EraseActiveSocket, CallsErase, obsVars
  <2> QED BY <2>1, <2>2
<1>5. ASSUME \/ Start \/ Listen \/ Network \/ AppDropsRef \/ UNCHANGED vars
             \/ \E fd \in Fds : AppReads(fd) \/ AppDrops(fd)
      PROVE  m_handlers' = m_handlers
  BY <1>5 DEF Start, Listen, Network, PeerConnects, DatagramArrives, AppDropsRef, AppReads,
              AppDrops, vars, obsVars
<1> QED BY <1>1, <1>2, <1>3, <1>4, <1>5 DEF Next, InStart

\* Closing descriptors (external).
LEMMA CloseStep ==
    ASSUME KernelTypeOK, NEW fds, Close(fds)
    PROVE  /\ KernelTypeOK' /\ rx' \subseteq rx
           /\ \A fd \in Fds : ksock'[fd] = IF fd \in fds THEN "free" ELSE ksock[fd]
  BY DEF KernelTypeOK, Close, SockState

\* The variables keep their types; that there are never more references than
\* datagrams is RefsInv's.
LEMMA ServerTypesStep ==
    ASSUME TypeOK, ObsInv, MutexInv, [Next]_vars
    PROVE  ServerTypeOK' /\ conns' \subseteq Fds /\ refs' \in Nat
<1> USE ServerAssumption DEF NoFd
<1>1. ObsTypeOK'
  BY ServerObsInv DEF ObsInv
<1>2. EpollTypeOK /\ KernelTypeOK /\ refs \in Nat
  BY DEF TypeOK, ServerTypeOK
<1>3. CASE Start /\ UNCHANGED holdVars
  BY <1>1, <1>3 DEF Start, TypeOK, ServerTypeOK, EpollTypeOK, KernelTypeOK, SockState,
                    epollVars, holdVars
<1>4. CASE RegisterCb /\ UNCHANGED holdVars
  BY <1>1, <1>4 DEF RegisterCb, RegisterOrder, TypeOK, ServerTypeOK, EpollTypeOK,
                    KernelTypeOK, epollVars, kernelVars, holdVars
<1>5. CASE Listen /\ UNCHANGED holdVars
  <2>1. state.fd \in Fds /\ "READ" \in SockOp
    BY <1>5 DEF Listen, RegisterOrder, MutexInv, SockOp, TypeOK, ServerTypeOK
  <2>2. EpollTypeOK'
    BY <1>2, <1>5, <2>1, AddSocketStep DEF Listen
  <2> QED BY <1>1, <1>5, <2>2 DEF Listen, TypeOK, ServerTypeOK, KernelTypeOK, kernelVars,
                                  holdVars
<1>6. CASE Destroy
  <2>1. EpollTypeOK' /\ KernelTypeOK'
    BY <1>2, <1>6, UnwatchStep, CloseStep DEF Destroy, Destroys
  <2> QED BY <1>1, <1>6, <2>1 DEF Destroy, Destroys, TypeOK, ServerTypeOK
<1>7. ASSUME NEW t \in Threads, Poll(t), UNCHANGED holdVars
      PROVE  ServerTypeOK' /\ conns' \subseteq Fds /\ refs' \in Nat
  <2>1. EpollTypeOK'
    BY <1>2, <1>7, ProceedStep DEF Poll
  <2> QED BY <1>1, <1>7, <2>1 DEF Poll, TypeOK, ServerTypeOK, KernelTypeOK, kernelVars,
                                  serverVars, holdVars
<1>8. ASSUME NEW t \in Threads, InProceed(t)
      PROVE  ServerTypeOK' /\ conns' \subseteq Fds /\ refs' \in Nat
  <2>1. CASE /\ UNCHANGED <<epollVars, kernelVars, serverVars, conns>>
             /\ refs' = refs \/ refs' = refs + 1
    BY <1>1, <1>2, <2>1 DEF TypeOK, ServerTypeOK, EpollTypeOK, KernelTypeOK, epollVars,
                            kernelVars, serverVars
  <2>2. CASE HandlerErases(t) /\ UNCHANGED holdVars
    <3>1. EpollTypeOK'
      BY <1>2, <2>2, UnwatchStep DEF HandlerErases, del_socket
    <3> QED BY <1>1, <2>2, <3>1 DEF HandlerErases, TypeOK, ServerTypeOK, KernelTypeOK,
                                    kernelVars, holdVars
  <2>3. CASE Accept(t) /\ UNCHANGED holdVars
    <3>1. KernelTypeOK' /\ accepted' \in Fds
      BY <2>3 DEF Accept, AcceptedStates, TypeOK, ServerTypeOK, KernelTypeOK, SockState
    <3>2. EpollTypeOK'
      BY <1>2, <2>3 DEF Accept, EpollTypeOK, epollVars
    <3> QED BY <1>1, <2>3, <3>1, <3>2 DEF Accept, TypeOK, ServerTypeOK, holdVars
  <2>4. CASE HandOver(t)
    <3>1. accepted \in Fds /\ "READ" \in SockOp
      BY <2>4 DEF HandOver, HandsOver, MutexInv, HoldsAccepted, TypeOK, ServerTypeOK, SockOp
    <3>2. EpollTypeOK'
      BY <1>2, <2>4, <3>1, AddSocketStep DEF HandOver, HandsOver
    <3> QED BY <1>1, <1>2, <2>4, <3>1, <3>2 DEF HandOver, HandsOver, TypeOK, ServerTypeOK,
                                          KernelTypeOK, kernelVars
  <2>5. CASE EraseActiveSocket(t)
    <3>1. KernelTypeOK'
      BY <1>2, <2>5, CloseStep DEF EraseActiveSocket
    <3>2. EpollTypeOK'
      BY <1>2, <2>5 DEF EraseActiveSocket, CallsErase, EpollTypeOK, epollVars
    <3> QED BY <1>1, <2>5, <3>1, <3>2 DEF EraseActiveSocket, CallsErase, TypeOK, ServerTypeOK
  <2> QED BY <1>8, <2>1, <2>2, <2>3, <2>4, <2>5
          DEF InProceed, InEndpoint, HandlerIgnores, AcceptFails, HandOverRef, HandsOverRef,
              holdVars
<1>9. ASSUME NEW fd \in Fds, AppReads(fd) \/ AppDrops(fd)
      PROVE  ServerTypeOK' /\ conns' \subseteq Fds /\ refs' \in Nat
  <2>1. EpollTypeOK' /\ KernelTypeOK'
    <3>1. CASE AppReads(fd)
      BY <1>2, <3>1 DEF AppReads, EpollTypeOK, KernelTypeOK, epollVars
    <3>2. CASE AppDrops(fd)
      BY <1>2, <3>2, UnwatchStep, CloseStep DEF AppDrops
    <3> QED BY <1>9, <3>1, <3>2
  <2> QED BY <1>1, <1>2, <1>9, <2>1 DEF AppReads, AppDrops, TypeOK, ServerTypeOK, serverVars,
                                  holdVars
<1>10. CASE AppDropsRef
  BY <1>1, <1>2, <1>10 DEF AppDropsRef, TypeOK, ServerTypeOK, EpollTypeOK, KernelTypeOK,
                           epollVars, kernelVars, serverVars
<1>11. CASE (PeerConnects \/ DatagramArrives) /\ UNCHANGED holdVars
  <2>1. state.fd \in Fds
    BY <1>11 DEF PeerConnects, DatagramArrives
  <2>2. EpollTypeOK'
    BY <1>2, <1>11, <2>1, WakeStep DEF PeerConnects, DatagramArrives, Arrive
  <2>3. KernelTypeOK'
    BY <1>11, <2>1 DEF PeerConnects, DatagramArrives, Arrive, TypeOK, ServerTypeOK, KernelTypeOK
  <2> QED BY <1>1, <1>2, <1>11, <2>2, <2>3
          DEF PeerConnects, DatagramArrives, TypeOK, ServerTypeOK, holdVars
<1>12. ASSUME NEW fd \in Fds, PeerActs(fd), UNCHANGED <<obsVars, serverVars, holdVars>>
       PROVE  ServerTypeOK' /\ conns' \subseteq Fds /\ refs' \in Nat
  BY <1>1, <1>2, <1>12, PeerStep DEF TypeOK, ServerTypeOK, serverVars, holdVars
<1>13. CASE UNCHANGED vars
  BY <1>1, <1>2, <1>13 DEF vars, TypeOK, ServerTypeOK, EpollTypeOK, KernelTypeOK, epollVars,
                           kernelVars, serverVars, holdVars
<1> QED BY <1>3, <1>4, <1>5, <1>6, <1>7, <1>8, <1>9, <1>10, <1>11, <1>12, <1>13
        DEF Next, InStart, Network, PeerActs

------------------------------------------------------------------------------
(* m_mutex.                                                                 *)

\* A step that leaves the fields alone and neither starts nor ends the handler
\* that holds m_mutex keeps MutexInv.
LEMMA MutexFrame ==
    ASSUME MutexInv, TypeOK, UNCHANGED <<m_mutex, op, accepted, state>>,
           act'[Controller].pc = "out" \/ op = 0,
           \A u \in Threads : u = m_mutex => act'[u].pc = act[u].pc /\ act'[u].cur = act[u].cur,
           state.kind = "destroyed" => UNCHANGED act
    PROVE  MutexInv'
<1>1. \A t \in Threads : HoldsAccepted(t)' <=> HoldsAccepted(t)
  BY DEF HoldsAccepted
<1>2. op = 0 /\ m_mutex # NoThread => act'[m_mutex].pc = "running"
  BY DEF MutexInv, TypeOK, ServerTypeOK
<1>3. op # 0 => act'[Controller].pc = "out"
  OBVIOUS
<1>4. accepted # NoFd <=> \E t \in Threads : HoldsAccepted(t)'
  BY <1>1 DEF MutexInv
<1>5. state.kind = "destroyed" => \A t \in Threads : act'[t].pc = "out"
  BY DEF MutexInv
<1> QED BY <1>2, <1>3, <1>4, <1>5 DEF MutexInv

\* Every step of the server keeps MutexInv (server.tpp:15, 55, 101, 111).
LEMMA MutexStep ==
    ASSUME TypeOK, ObsInv, HandlersInv, MutexInv, [Next]_vars
    PROVE  MutexInv'
<1> USE ServerAssumption DEF NoFd
<1>1. CASE Start
  <2>1. op = 0 /\ accepted = NoFd /\ \A t \in Threads : ~HoldsAccepted(t)
    BY <1>1 DEF Start, MutexInv, HoldsAccepted, TypeOK, ServerTypeOK
  <2>2. \A t \in Threads : ~HoldsAccepted(t)'
    BY <1>1 DEF Start, HoldsAccepted, obsVars
  <2>3. state'.fd \in Fds /\ state'.kind = "idle"
    BY <1>1 DEF Start, TypeOK, ServerTypeOK
  <2>4. op' = 1 /\ m_mutex' = Controller /\ act'[Controller].pc = "out" /\ accepted' = NoFd
    BY <1>1, <2>1 DEF Start, obsVars
  <2> QED BY <2>2, <2>3, <2>4 DEF MutexInv
<1>2. CASE RegisterCb
  <2>1. /\ op # 0 /\ op' # 0 /\ UNCHANGED <<m_mutex, state, accepted, act>>
    BY <1>2 DEF RegisterCb, RegisterOrder, add
  <2>2. \A t \in Threads : HoldsAccepted(t)' <=> HoldsAccepted(t)
    BY <2>1 DEF HoldsAccepted
  <2> QED BY <2>1, <2>2 DEF MutexInv
<1>3. CASE Listen
  <2>1. op # 0 /\ op' = 0 /\ m_mutex' = NoThread /\ UNCHANGED <<accepted, act>>
    BY <1>3 DEF Listen, RegisterOrder, obsVars
  <2>2. state'.fd = state.fd /\ state'.kind = "listening"
    BY <1>3 DEF Listen, TypeOK, ServerTypeOK
  <2>3. \A t \in Threads : ~HoldsAccepted(t) /\ ~HoldsAccepted(t)'
    BY <2>1 DEF MutexInv, HoldsAccepted
  <2> QED BY <2>1, <2>2, <2>3 DEF MutexInv
<1>4. CASE Destroy
  <2>1. /\ m_mutex = NoThread /\ UNCHANGED <<m_mutex, op, accepted, act>>
        /\ state' = [kind |-> "destroyed", fd |-> NoFd]
        /\ \A t \in Threads : act[t].pc = "out"
    BY <1>4 DEF Destroy, Destroys
  <2>2. op = 0 /\ NoFd \notin Fds
    BY <2>1 DEF MutexInv
  <2>3. \A t \in Threads : ~HoldsAccepted(t) /\ ~HoldsAccepted(t)'
    BY <2>1 DEF HoldsAccepted
  <2> QED BY <2>1, <2>2, <2>3 DEF MutexInv
<1>5. ASSUME NEW t \in Threads, Poll(t) PROVE MutexInv'
  <2>1. /\ \A u \in Threads \ {t} : act'[u] = act[u]
        /\ act[t].pc = "out"
    BY <1>5, PhaseSteps DEF Poll, ObsInv
  <2>2. UNCHANGED <<m_mutex, op, accepted, state>> /\ state.kind # "destroyed"
        /\ (t = Controller => op = 0)
    BY <1>5 DEF Poll, serverVars
  <2>3. m_mutex # t
    <3>1. CASE op = 0
      BY <2>1, <3>1 DEF MutexInv
    <3>2. CASE op # 0
      BY <2>2, <3>2 DEF MutexInv
    <3> QED BY <3>1, <3>2
  <2>4. act'[Controller].pc = "out" \/ op = 0
    BY <2>1, <2>2 DEF MutexInv
  <2> QED BY <2>1, <2>2, <2>3, <2>4, MutexFrame
<1>6. ASSUME NEW t \in Threads, ObsStep(t), UNCHANGED serverVars PROVE MutexInv'
  <2>1. /\ \A u \in Threads \ {t} : act'[u] = act[u]
        /\ act[t].pc \notin {"out", "running"}
    BY <1>6, PhaseSteps DEF ObsInv
  <2>2. UNCHANGED <<m_mutex, op, accepted, state>> /\ state.kind # "destroyed"
    BY <1>6, <2>1 DEF serverVars, MutexInv
  <2>3. m_mutex # t
    BY <2>1 DEF MutexInv
  <2>4. act'[Controller].pc = "out" \/ op = 0
    BY <2>1 DEF MutexInv
  <2> QED BY <2>1, <2>2, <2>3, <2>4, MutexFrame
<1>7. ASSUME NEW t \in Threads, ObsHandlerReturns(t), m_mutex \in {t, NoThread},
             m_mutex' = NoThread, UNCHANGED <<op, state>>, accepted' = NoFd
      PROVE  MutexInv'
  <2>1. /\ \A u \in Threads \ {t} : act'[u] = act[u]
        /\ act[t].pc = "running" /\ act'[t].pc = "serving"
    BY <1>7, PhaseSteps DEF ObsInv
  <2>2. op = 0 /\ state.kind # "destroyed"
    BY <1>7, <2>1 DEF MutexInv
  <2>3. \A u \in Threads : ~HoldsAccepted(u)'
    BY <1>7 DEF HoldsAccepted
  <2> QED BY <1>7, <2>2, <2>3 DEF MutexInv
<1>8. ASSUME NEW t \in Threads, HandlerLocks(t), m_mutex' = t, UNCHANGED <<op, state, act>>,
             act[t].cur = "read" => accepted' \in Fds,
             act[t].cur # "read" => accepted' = accepted
      PROVE  MutexInv'
  <2>1. m_mutex = NoThread /\ act[t].pc = "running"
    BY <1>8 DEF HandlerLocks
  <2>2. op = 0 /\ state.kind # "destroyed"
    BY <2>1 DEF MutexInv
  <2>3. accepted = NoFd /\ NoFd \notin Fds
    BY <2>1 DEF MutexInv, HoldsAccepted
  <2>4. \A u \in Threads : HoldsAccepted(u)' <=> u = t /\ act[t].cur = "read"
    BY <1>8, <2>1 DEF HoldsAccepted
  <2>5. accepted' # NoFd <=> \E u \in Threads : HoldsAccepted(u)'
    BY <1>8, <2>3, <2>4
  <2> QED BY <1>8, <2>1, <2>2, <2>5 DEF MutexInv
<1>9. ASSUME NEW t \in Threads, InProceed(t) PROVE MutexInv'
  <2>1. CASE ObsStep(t) /\ UNCHANGED serverVars
    BY <1>6, <2>1
  <2>2. CASE HandlerIgnores(t) \/ AcceptFails(t) \/ HandOverRef(t)
    <3>1. /\ ObsHandlerReturns(t) /\ m_mutex = NoThread
          /\ UNCHANGED <<m_mutex, op, state, accepted>>
      BY <2>2 DEF HandlerIgnores, AcceptFails, HandOverRef, HandsOverRef, HandlerLocks, serverVars
    <3>2. accepted = NoFd
      BY <3>1 DEF MutexInv, HoldsAccepted
    <3> QED BY <1>7, <3>1, <3>2
  <2>3. CASE HandlerErases(t)
    BY <1>8, <2>3 DEF HandlerErases, obsVars
  <2>4. CASE Accept(t)
    BY <1>8, <2>4 DEF Accept, ListenerReady, obsVars
  <2>5. CASE HandOver(t)
    BY <1>7, <2>5 DEF HandOver, HandsOver
  <2>6. CASE EraseActiveSocket(t)
    <3>1. /\ InErase(t) /\ ObsHandlerReturns(t) /\ m_mutex' = NoThread
          /\ UNCHANGED <<op, state, accepted>>
      BY <2>6 DEF EraseActiveSocket, CallsErase
    <3>2. accepted = NoFd
      BY <3>1 DEF InErase, MutexInv, HoldsAccepted
    <3> QED BY <1>7, <3>1, <3>2 DEF InErase
  <2> QED BY <1>9, <2>1, <2>2, <2>3, <2>4, <2>5, <2>6 DEF InProceed, InEndpoint
<1>10. ASSUME \/ Network \/ AppDropsRef \/ UNCHANGED vars
              \/ \E fd \in Fds : AppReads(fd) \/ AppDrops(fd)
       PROVE  MutexInv'
  <2>1. UNCHANGED <<m_mutex, op, accepted, state, act>>
    BY <1>10 DEF Network, PeerConnects, DatagramArrives, AppDropsRef, AppReads, AppDrops,
                 vars, obsVars, serverVars
  <2>2. act'[Controller].pc = "out" \/ op = 0
    BY <2>1 DEF MutexInv
  <2> QED BY <2>1, <2>2, MutexFrame
<1> QED BY <1>1, <1>2, <1>3, <1>4, <1>5, <1>9, <1>10 DEF Next, InStart

------------------------------------------------------------------------------
(* The batches, and the server before start().                              *)

\* What InProceed does to the observer and to proto.
LEMMA ProceedObserver ==
    ASSUME NEW t \in Threads, InProceed(t)
    PROVE  /\ UNCHANGED obsVars \/ ObsStep(t) \/ ObsHandlerReturns(t)
           /\ UNCHANGED <<proto, state>>
           /\ act[t].pc = "running" \/ (ObsStep(t) /\ UNCHANGED <<serverVars, epollVars, kernelVars,
                                                              holdVars>>)
  BY DEF InProceed, InEndpoint, Accept, HandlerIgnores, AcceptFails, HandlerErases, HandOver,
         HandsOver, HandOverRef, HandsOverRef, EraseActiveSocket, CallsErase, HandlerLocks,
         InErase, serverVars

\* epoll_wait reports a descriptor once, and nothing is added to a batch
\* (epoll.cpp:116-139).
LEMMA BatchStep ==
    ASSUME TypeOK, ObsInv, BatchInv, [Next]_vars
    PROVE  BatchInv'
<1> USE ServerAssumption
<1>1. CASE UNCHANGED act
  BY <1>1 DEF BatchInv
<1>2. ASSUME NEW t \in Threads, Poll(t) PROVE BatchInv'
  <2>1. PICK take \in Takes(Raised) : ObsPoll(t, EventsOf(take, Raised))
    BY <1>2 DEF Poll
  <2> DEFINE events == EventsOf(take, Raised)
  <2>2. \A i, j \in 1..Len(events) : events[i].fd = events[j].fd => i = j
    BY TakenEvents DEF TypeOK, ServerTypeOK
  <2> HIDE DEF events
  <2>3. act'[t].events = events /\ \A u \in Threads \ {t} : act'[u] = act[u]
    BY <2>1 DEF ObsPoll, Outside, TypeOK, ServerTypeOK, ObsTypeOK, events
  <2> QED BY <2>2, <2>3 DEF BatchInv
<1>3. ASSUME NEW t \in Threads, ObsStep(t) \/ ObsHandlerReturns(t) PROVE BatchInv'
  <2>1. /\ \A u \in Threads \ {t} : act'[u] = act[u]
        /\ act'[t].events = << >> \/ act'[t].events = act[t].events
    BY <1>3, ForwardSteps
  <2>2. Len(<< >>) = 0
    OBVIOUS
  <2> QED BY <2>1, <2>2 DEF BatchInv
<1>4. ASSUME \/ Start \/ InStart \/ Destroy \/ Network \/ AppDropsRef \/ UNCHANGED vars
             \/ \E fd \in Fds : AppReads(fd) \/ AppDrops(fd)
      PROVE  UNCHANGED act
  BY <1>4 DEF Start, InStart, RegisterCb, add, Listen, Destroy, Destroys, Network, PeerConnects,
              DatagramArrives, AppDropsRef, AppReads, AppDrops, vars, obsVars
<1> QED BY <1>1, <1>2, <1>3, <1>4, ProceedObserver DEF Next, obsVars

\* Every step keeps IdleInv (server.tpp:26-37, 64-74, 114-127).
LEMMA IdleStep ==
    ASSUME TypeOK, ObsInv, HandlersInv, MutexInv, IdleInv, [Next]_vars
    PROVE  IdleInv'
<1> USE ServerAssumption DEF NoFd
<1>1. ASSUME state.kind = "idle", NEW t \in Threads, act[t].pc = "running" PROVE FALSE
  BY <1>1, RunningServer DEF IdleInv
<1>2. CASE Start /\ UNCHANGED holdVars
  BY <1>2 DEF Start, IdleInv, obsVars, epollVars, holdVars
<1>3. CASE RegisterCb /\ UNCHANGED holdVars
  BY <1>3 DEF RegisterCb, add, IdleInv, epollVars, holdVars
<1>4. CASE Listen /\ UNCHANGED holdVars
  <2>1. state'.kind # "idle"
    BY <1>4 DEF Listen, TypeOK, ServerTypeOK
  <2> QED BY <1>4, <2>1 DEF Listen, IdleInv, holdVars
<1>5. CASE Destroy
  BY <1>5 DEF Destroy, Destroys, IdleInv
<1>6. ASSUME NEW t \in Threads, Poll(t), UNCHANGED holdVars PROVE IdleInv'
  <2>1. UNCHANGED <<proto, state, accepted, conns, refs>>
    BY <1>6 DEF Poll, serverVars, holdVars
  <2> SUFFICES ASSUME state.kind = "idle"
      PROVE  /\ ready' = {} /\ interest' = interest
             /\ \A u \in Threads : act'[u].events = << >>
    BY <2>1 DEF IdleInv
  <2>2. PICK take \in Takes(Raised) :
            proceed(take, Raised) /\ ObsPoll(t, EventsOf(take, Raised))
    BY <1>6 DEF Poll
  <2>3. ready' = {} /\ interest' = interest
    BY <2>2 DEF proceed, IdleInv
  <2> DEFINE events == EventsOf(take, Raised)
  <2>4. events \in Seq(Event) /\ \A j \in 1..Len(events) : events[j].fd \in ready
    BY TakenEvents DEF TypeOK, ServerTypeOK
  <2>5. act'[t].events = events /\ \A u \in Threads \ {t} : act'[u] = act[u]
    BY <2>2 DEF ObsPoll, Outside, TypeOK, ServerTypeOK, ObsTypeOK
  <2> HIDE DEF events
  <2>6. events = << >>
    <3>1. Len(events) \in Nat /\ ~(1 <= Len(events))
      BY <2>4 DEF IdleInv
    <3> QED BY <2>4, <3>1
  <2> QED BY <2>3, <2>5, <2>6 DEF IdleInv
<1>7. ASSUME NEW t \in Threads, ObsStep(t), UNCHANGED <<serverVars, epollVars, holdVars>>
      PROVE  IdleInv'
  <2>1. /\ \A u \in Threads \ {t} : act'[u] = act[u]
        /\ act'[t].events = << >> \/ act'[t].events = act[t].events
    BY <1>7, ForwardSteps
  <2> QED BY <1>7, <2>1 DEF IdleInv, serverVars, epollVars, holdVars
<1>8. ASSUME NEW t \in Threads, InProceed(t), act[t].pc = "running"
      PROVE  IdleInv'
  <2>1. state.kind # "idle" /\ UNCHANGED <<proto, state>>
    BY <1>1, <1>8, ProceedObserver
  <2>2. proto = "tcp" => refs' = 0
    <3> SUFFICES ASSUME proto = "tcp" PROVE refs' = 0
      OBVIOUS
    <3>1. ~HandOverRef(t) /\ refs = 0
      BY DEF HandOverRef, HandsOverRef, IdleInv
    <3> QED BY <1>8, <3>1 DEF InProceed, HandOver, EraseActiveSocket, holdVars
  <2>3. proto = "udp" => conns' = {} /\ accepted' = NoFd
    <3> SUFFICES ASSUME proto = "udp" PROVE conns' = {} /\ accepted' = NoFd
      OBVIOUS
    <3>1. conns = {} /\ accepted = NoFd
      BY DEF IdleInv
    <3>2. ~Accept(t) /\ ~HandOver(t)
      BY <3>1 DEF Accept, HandOver, HandsOver, MutexInv, HoldsAccepted
    <3> QED BY <1>8, <3>1, <3>2 DEF InProceed, InEndpoint, HandlerIgnores, AcceptFails,
         HandlerErases, HandOverRef, HandsOverRef, EraseActiveSocket, CallsErase, holdVars,
         serverVars
  <2> QED BY <2>1, <2>2, <2>3 DEF IdleInv
<1>9. ASSUME NEW fd \in Fds, AppReads(fd) \/ AppDrops(fd) PROVE IdleInv'
  <2>1. CASE AppReads(fd)
    BY <2>1 DEF AppReads, IdleInv, obsVars, epollVars, serverVars, holdVars
  <2>2. CASE AppDrops(fd)
    <3>1. UNCHANGED <<obsVars, serverVars, refs>> /\ fd \in conns /\ conns' = conns \ {fd}
      BY <2>2 DEF AppDrops
    <3> QED BY <3>1 DEF IdleInv, serverVars
  <2> QED BY <1>9, <2>1, <2>2
<1>10. CASE AppDropsRef
  <2>1. refs > 0 /\ UNCHANGED <<serverVars, conns>>
    BY <1>10 DEF AppDropsRef
  <2>2. state.kind # "idle" /\ proto # "tcp"
    BY <2>1 DEF IdleInv
  <2> QED BY <2>1, <2>2 DEF IdleInv, serverVars
<1>11. ASSUME NEW fd \in Fds, Wake(fd), UNCHANGED <<act, proto, state, accepted, conns, refs>>
       PROVE  IdleInv'
  BY <1>11 DEF Wake, IdleInv
<1>12. CASE Network
  <2>1. PICK fd \in Fds : Wake(fd)
    BY <1>12 DEF Network, PeerConnects, DatagramArrives, Arrive, UrgentArrives, PeerCloses,
                 PeerResets
  <2>2. UNCHANGED <<act, proto, state, accepted, conns, refs>>
    BY <1>12 DEF Network, PeerConnects, DatagramArrives, obsVars, serverVars, holdVars
  <2> QED BY <1>11, <2>1, <2>2
<1>13. CASE UNCHANGED vars
  BY <1>13 DEF vars, IdleInv, obsVars, epollVars, serverVars, holdVars
<1>14. ASSUME NEW t \in Threads, InProceed(t) PROVE IdleInv'
  BY <1>7, <1>8, <1>14, ProceedObserver
<1> QED BY <1>2, <1>3, <1>4, <1>5, <1>6, <1>9, <1>10, <1>12, <1>13, <1>14
        DEF Next, InStart

------------------------------------------------------------------------------
(* The descriptors.                                                         *)

\* At most one thread is in the erase handler, and only while it holds m_mutex.
LEMMA EraseSteps ==
    ASSUME TypeOK, ObsInv, MutexInv, NEW t \in Threads
    PROVE  /\ ObsStep(t) /\ UNCHANGED m_mutex =>
                 \A u \in Threads : InErase(u)' => InErase(u) /\ act'[u] = act[u]
           /\ \A events : ObsPoll(t, events) /\ UNCHANGED m_mutex =>
                 \A u \in Threads : InErase(u)' => InErase(u) /\ act'[u] = act[u]
           /\ m_mutex' = NoThread => \A u \in Threads : ~InErase(u)'
<1>1. ASSUME ObsStep(t), UNCHANGED m_mutex, NEW u \in Threads, InErase(u)'
      PROVE  InErase(u) /\ act'[u] = act[u]
  <2>1. act[t].pc \notin {"out", "running"} /\ \A v \in Threads \ {t} : act'[v] = act[v]
    BY <1>1, PhaseSteps DEF ObsInv
  <2>2. m_mutex = u /\ u # t
    BY <1>1, <2>1, ServerAssumption DEF InErase, MutexInv
  <2> QED BY <1>1, <2>1, <2>2 DEF InErase
<1>2. ASSUME NEW events, ObsPoll(t, events), UNCHANGED m_mutex, NEW u \in Threads, InErase(u)'
      PROVE  InErase(u) /\ act'[u] = act[u]
  <2>1. act'[t].pc = "polled" /\ \A v \in Threads \ {t} : act'[v] = act[v]
    BY <1>2, PhaseSteps DEF ObsInv
  <2> QED BY <1>2, <2>1 DEF InErase
<1>3. m_mutex' = NoThread => \A u \in Threads : ~InErase(u)'
  BY ServerAssumption DEF InErase
<1> QED BY <1>1, <1>2, <1>3

\* A step that changes neither owners nor sockets keeps SocketInv, if epoll
\* watches nothing new and no thread enters the erase handler.
LEMMA SocketFrame ==
    ASSUME SocketInv, UNCHANGED <<ksock, proto, state, accepted, conns>>,
           \A fd \in Fds : interest'[fd] = interest[fd],
           \A u \in Threads : InErase(u)' => InErase(u) /\ act'[u] = act[u] /\ Current(u).fd \in Fds
    PROVE  SocketInv'
<1>1. \A u \in Threads : InErase(u)' => interest'[Current(u)'.fd] = {}
  BY DEF SocketInv, Current
<1>2. DescriptorsOwned'
  BY DEF SocketInv, DescriptorsOwned
<1> QED BY <1>1, <1>2 DEF SocketInv

\* Every step keeps SocketInv (server.tpp:26-37, 64-74, 99-128, 152-160).
LEMMA SocketStep ==
    ASSUME TypeOK, TypeOK', ObsInv, HandlersInv, MutexInv, IdleInv, SocketInv, [Next]_vars
    PROVE  SocketInv'
<1> USE ServerAssumption DEF NoFd
<1> DEFINE Owned == \A fd \in Fds : ksock[fd] # "free"
                                      <=> fd \in conns \/ fd = state.fd \/ fd = accepted
<1>1. /\ Owned /\ state.fd \notin conns /\ accepted \notin conns
      /\ accepted = state.fd => accepted = NoFd
  BY DEF SocketInv, DescriptorsOwned, TypeOK, ServerTypeOK
<1>2. ASSUME Owned', state'.fd \notin conns', accepted' \notin conns',
             accepted' = state'.fd => accepted' = NoFd
      PROVE  DescriptorsOwned'
  <2>1. /\ conns' \in SUBSET Fds
        /\ state'.fd \in Fds \cup {NoFd} /\ accepted' \in Fds \cup {NoFd}
        /\ NoFd \notin Fds
    BY DEF TypeOK, ServerTypeOK
  <2> HIDE DEF NoFd
  <2>2. \A fd \in Fds : ksock'[fd] # "free"
                          <=> fd \in conns' \/ fd = state'.fd \/ fd = accepted'
    BY <1>2
  <2>3. {fd \in Fds : ksock'[fd] # "free"} = conns' \cup ({state'.fd, accepted'} \ {NoFd})
    <3>1. \A fd : fd \in conns' \cup ({state'.fd, accepted'} \ {NoFd})
                    <=> fd \in Fds /\ (fd \in conns' \/ fd = state'.fd \/ fd = accepted')
      BY <2>1
    <3>2. \A fd : fd \in {fdx \in Fds : ksock'[fdx] # "free"} <=> fd \in Fds /\ ksock'[fd] # "free"
      OBVIOUS
    <3> QED BY <2>2, <3>1, <3>2
  <2> QED BY <1>2, <2>3 DEF DescriptorsOwned
<1>3. m_mutex = NoThread => accepted = NoFd
  BY DEF MutexInv, HoldsAccepted
<1>4. \A u \in Threads : InErase(u) => Current(u).fd \in Fds
  BY RunningServer DEF InErase, Event
<1>5. CASE Start /\ UNCHANGED holdVars
  <2>1. PICK fd \in Fds : /\ ksock[fd] = "free" /\ state' = [state EXCEPT !.fd = fd]
              /\ ksock' = [ksock EXCEPT ![fd] = IF proto = "tcp" THEN "listen" ELSE "udp"]
    BY <1>5 DEF Start, IsLowestFree, FreeFds
  <2>2. /\ m_mutex = NoThread /\ m_mutex' = Controller /\ state.kind = "idle" /\ op = 0
        /\ act'[Controller].pc = "out" /\ conns' = conns /\ accepted' = accepted
        /\ interest' = interest /\ proto' = proto
    BY <1>5 DEF Start, obsVars, epollVars, holdVars, MutexInv
  <2>3. state.fd = NoFd /\ state'.fd = fd /\ conns = {} /\ accepted = NoFd
    BY <1>3, <2>1, <2>2 DEF MutexInv, IdleInv, TypeOK, ServerTypeOK
  <2>4. \A other \in Fds : ksock'[other] # "free" <=> other = fd
    BY <1>1, <2>1, <2>3 DEF TypeOK, ServerTypeOK, KernelTypeOK
  <2>5. DescriptorsOwned'
    BY <1>2, <2>2, <2>3, <2>4
  <2>6. ksock'[state'.fd] = IF proto = "tcp" THEN "listen" ELSE "udp"
    BY <2>1, <2>3 DEF TypeOK, ServerTypeOK, KernelTypeOK
  <2>7. \A u \in Threads : ~InErase(u)'
    BY <2>2 DEF InErase
  <2> QED BY <2>2, <2>3, <2>5, <2>6, <2>7 DEF SocketInv, IdleInv
<1>6. CASE RegisterCb /\ UNCHANGED holdVars
  BY <1>4, <1>6, SocketFrame DEF RegisterCb, add, epollVars, kernelVars, holdVars, InErase
<1>7. CASE Listen /\ UNCHANGED holdVars
  <2>1. state.fd \in Fds /\ "READ" \in SockOp
    BY <1>7 DEF Listen, RegisterOrder, MutexInv, SockOp, TypeOK, ServerTypeOK
  <2>2. \A other \in Fds \ {state.fd} : interest'[other] = interest[other]
    BY <1>7, <2>1, AddSocketStep DEF Listen, TypeOK, ServerTypeOK
  <2>3. /\ m_mutex' = NoThread /\ state'.fd = state.fd
        /\ UNCHANGED <<ksock, proto, accepted, conns>>
    BY <1>7 DEF Listen, kernelVars, holdVars, TypeOK, ServerTypeOK
  <2>4. DescriptorsOwned'
    BY <1>1, <1>2, <2>3
  <2>5. \A u \in Threads : ~InErase(u)'
    BY <2>3 DEF InErase
  <2> QED BY <2>2, <2>3, <2>4, <2>5 DEF SocketInv
<1>8. CASE Destroy
  <2>1. /\ m_mutex = NoThread /\ m_mutex' = m_mutex /\ UNCHANGED <<proto, accepted, conns>>
        /\ state'.fd = NoFd /\ Close({state.fd}) /\ Unwatch(Fds)
    BY <1>8 DEF Destroy, Destroys
  <2>2. \A fd \in Fds : /\ ksock'[fd] = IF fd = state.fd THEN "free" ELSE ksock[fd]
                        /\ interest'[fd] = {}
    BY <2>1, CloseStep, UnwatchStep DEF TypeOK, ServerTypeOK
  <2>3. accepted = NoFd
    BY <1>3, <2>1
  <2>4. NoFd \notin conns
    BY DEF TypeOK
  <2>5. DescriptorsOwned'
    BY <1>1, <1>2, <2>1, <2>2, <2>3, <2>4
  <2>6. \A u \in Threads : ~InErase(u)'
    BY <2>1 DEF InErase
  <2> QED BY <1>1, <2>1, <2>2, <2>3, <2>5, <2>6 DEF SocketInv
<1>9. ASSUME NEW t \in Threads, Poll(t), UNCHANGED holdVars PROVE SocketInv'
  <2>1. PICK events : ObsPoll(t, events)
    BY <1>9 DEF Poll
  <2>2. UNCHANGED <<interest, ksock, proto, state, accepted, conns, m_mutex>>
    BY <1>9 DEF Poll, proceed, kernelVars, serverVars, holdVars
  <2>3. \A u \in Threads : InErase(u)' => InErase(u) /\ act'[u] = act[u]
    BY <2>1, <2>2, EraseSteps
  <2> QED BY <1>4, <2>2, <2>3, SocketFrame
<1>10. ASSUME NEW t \in Threads, ObsStep(t), UNCHANGED <<serverVars, epollVars, kernelVars, holdVars>>
       PROVE  SocketInv'
  <2>1. UNCHANGED <<interest, ksock, proto, state, accepted, conns, m_mutex>>
    BY <1>10 DEF epollVars, kernelVars, serverVars, holdVars
  <2>2. \A u \in Threads : InErase(u)' => InErase(u) /\ act'[u] = act[u]
    BY <1>10, <2>1, EraseSteps
  <2> QED BY <1>4, <2>1, <2>2, SocketFrame
<1>11. ASSUME NEW t \in Threads, HandlerIgnores(t) \/ AcceptFails(t) \/ HandOverRef(t),
              conns' = conns
       PROVE  SocketInv'
  <2>1. /\ m_mutex' = NoThread /\ UNCHANGED <<interest, ksock, proto, state, accepted, conns>>
    BY <1>11 DEF HandlerIgnores, AcceptFails, HandOverRef, HandsOverRef, HandlerLocks,
                 epollVars, kernelVars, serverVars
  <2>2. \A u \in Threads : ~InErase(u)'
    BY <2>1 DEF InErase
  <2> QED BY <2>1, <2>2, SocketFrame
<1>12. ASSUME NEW t \in Threads, HandlerErases(t), UNCHANGED holdVars PROVE SocketInv'
  <2>1. /\ act[t].pc = "running" /\ m_mutex' = t
        /\ UNCHANGED <<act, ksock, proto, state, accepted, conns>>
        /\ Unwatch({Current(t).fd})
    BY <1>12 DEF HandlerErases, HandlerLocks, del_socket, obsVars, kernelVars, holdVars
  <2>2. Current(t).fd \in Fds
    BY <2>1, RunningServer DEF Event
  <2>3. \A fd \in Fds : interest'[fd] = IF fd = Current(t).fd THEN {} ELSE interest[fd]
    BY <2>1, UnwatchStep DEF TypeOK, ServerTypeOK
  <2>4. \A u \in Threads : InErase(u)' => u = t /\ interest'[Current(u)'.fd] = {}
    BY <2>1, <2>2, <2>3 DEF InErase, Current
  <2>5. DescriptorsOwned'
    BY <1>1, <1>2, <2>1
  <2> QED BY <2>1, <2>3, <2>4, <2>5 DEF SocketInv
<1>13. ASSUME NEW t \in Threads, Accept(t), UNCHANGED holdVars PROVE SocketInv'
  <2>1. PICK fd \in Fds, st \in {"est", "fin", "reset", "urgent"} :
              /\ ksock[fd] = "free" /\ ksock' = [ksock EXCEPT ![fd] = st] /\ accepted' = fd
    BY <1>13 DEF Accept, AcceptedStates, IsLowestFree, FreeFds
  <2>2. /\ m_mutex = NoThread /\ m_mutex' = t /\ act' = act /\ act[t].cur = "read"
        /\ UNCHANGED <<interest, proto, state, conns>>
    BY <1>13 DEF Accept, HandlerLocks, ListenerReady, obsVars, epollVars, holdVars
  <2>3. /\ ksock'[fd] = st /\ \A other \in Fds \ {fd} : ksock'[other] = ksock[other]
    BY <2>1 DEF TypeOK, ServerTypeOK, KernelTypeOK
  <2>4. accepted = NoFd /\ fd \notin conns /\ fd # state.fd
    BY <1>1, <1>3, <2>1, <2>2
  <2>5. DescriptorsOwned'
    BY <1>1, <1>2, <2>1, <2>2, <2>3, <2>4
  <2>6. \A u \in Threads : ~InErase(u)'
    BY <2>2 DEF InErase
  <2> QED BY <2>1, <2>2, <2>3, <2>4, <2>5, <2>6 DEF SocketInv
<1>14. ASSUME NEW t \in Threads, HandOver(t) PROVE SocketInv'
  <2>1. /\ HoldsAccepted(t) /\ m_mutex' = NoThread /\ conns' = conns \cup {accepted}
        /\ accepted' = NoFd /\ UNCHANGED <<ksock, proto, state>>
        /\ add_socket(accepted, "READ", Raised[accepted])
    BY <1>14 DEF HandOver, HandsOver, HoldsAccepted, kernelVars
  <2>2. accepted \in Fds /\ "READ" \in SockOp
    BY <2>1 DEF MutexInv, TypeOK, ServerTypeOK, SockOp
  <2>3. \A other \in Fds \ {accepted} : interest'[other] = interest[other]
    BY <2>1, <2>2, AddSocketStep DEF TypeOK, ServerTypeOK
  <2>4. DescriptorsOwned'
    <3>1. NoFd \notin conns'
      BY DEF TypeOK
    <3> QED BY <1>1, <1>2, <2>1, <2>2, <3>1
  <2>5. \A u \in Threads : ~InErase(u)'
    BY <2>1 DEF InErase
  <2> QED BY <2>1, <2>2, <2>3, <2>4, <2>5 DEF SocketInv
<1>15. ASSUME NEW t \in Threads, EraseActiveSocket(t) PROVE SocketInv'
  <2> DEFINE gone == Current(t).fd
  <2>1. /\ InErase(t) /\ m_mutex' = NoThread /\ conns' = conns \ {gone}
        /\ Close({gone} \cap conns) /\ UNCHANGED <<interest, proto, state, accepted>>
    BY <1>15 DEF EraseActiveSocket, CallsErase, epollVars
  <2>2. gone \in Fds /\ interest[gone] = {}
    BY <1>4, <2>1 DEF SocketInv
  <2> HIDE DEF gone
  <2>3. \A fd \in Fds : ksock'[fd] = IF fd = gone /\ fd \in conns THEN "free" ELSE ksock[fd]
    BY <2>1, CloseStep DEF TypeOK, ServerTypeOK
  <2>4. DescriptorsOwned'
    BY <1>1, <1>2, <2>1, <2>3
  <2>5. \A u \in Threads : ~InErase(u)'
    BY <2>1 DEF InErase
  <2> QED BY <1>1, <2>1, <2>2, <2>3, <2>4, <2>5 DEF SocketInv
<1>16. ASSUME NEW fd \in Fds, AppDrops(fd) PROVE SocketInv'
  <2>1. /\ m_mutex' = NoThread /\ conns' = conns \ {fd} /\ fd \in conns
        /\ Close({fd}) /\ Unwatch({fd}) /\ UNCHANGED <<proto, state, accepted>>
    BY <1>16 DEF AppDrops, AppOutside, serverVars
  <2>2. \A other \in Fds : /\ ksock'[other] = IF other = fd THEN "free" ELSE ksock[other]
                           /\ interest'[other] = IF other = fd THEN {} ELSE interest[other]
    BY <2>1, CloseStep, UnwatchStep DEF TypeOK, ServerTypeOK
  <2>3. DescriptorsOwned'
    BY <1>1, <1>2, <2>1, <2>2
  <2>4. \A u \in Threads : ~InErase(u)'
    BY <2>1 DEF InErase
  <2>5. state.fd \in Fds => ksock'[state.fd] = ksock[state.fd]
    BY <1>1, <2>1, <2>2
  <2>6. \A other \in Fds : other \in conns' \/ other = accepted => ksock'[other] = ksock[other]
    BY <1>1, <2>1, <2>2
  <2>7. \A other \in Fds : interest'[other] # {} => other \in conns' \/ other = state.fd
    BY <2>1, <2>2 DEF SocketInv
  <2> QED BY <2>1, <2>3, <2>4, <2>5, <2>6, <2>7 DEF SocketInv
<1>17. ASSUME UNCHANGED <<ksock, interest, proto, state, accepted, conns, act, m_mutex>>
       PROVE  SocketInv'
  <2>1. \A u \in Threads : InErase(u)' => InErase(u) /\ act'[u] = act[u] /\ Current(u).fd \in Fds
    BY <1>4, <1>17 DEF InErase
  <2> QED BY <1>17, <2>1, SocketFrame
<1>18. ASSUME NEW fd \in Fds, PeerActs(fd), UNCHANGED <<obsVars, serverVars, holdVars>>
       PROVE  SocketInv'
  <2>1. UNCHANGED <<interest, proto, state, accepted, conns, act, m_mutex>>
    BY <1>18, PeerStep DEF obsVars, serverVars, holdVars, TypeOK, ServerTypeOK
  <2>2. /\ \A other \in Fds \ {fd} : ksock'[other] = ksock[other]
        /\ ksock[fd] \in {"est", "urgent", "fin", "udp"}
        /\ ksock[fd] = "udp" => ksock'[fd] = "udp"
        /\ ksock[fd] # "udp" => ksock'[fd] \in {"est", "urgent", "fin", "reset"}
    BY <1>18, PeerStep DEF TypeOK, ServerTypeOK
  <2>3. Owned'
    BY <1>1, <2>1, <2>2
  <2>4. DescriptorsOwned'
    BY <1>1, <1>2, <2>1, <2>3
  <2>5. \A u \in Threads : InErase(u)' => interest'[Current(u)'.fd] = {}
    BY <2>1 DEF InErase, Current, SocketInv
  <2>6. \A other \in Fds : other \in conns \/ other = accepted =>
            ksock'[other] \in {"est", "urgent", "fin", "reset"}
    BY <2>2 DEF SocketInv
  <2>7. state.fd \in Fds => ksock'[state.fd] = ksock[state.fd]
    BY <2>2 DEF SocketInv
  <2> QED BY <2>1, <2>4, <2>5, <2>6, <2>7 DEF SocketInv
<1>19. ASSUME NEW t \in Threads, InProceed(t) PROVE SocketInv'
  BY <1>10, <1>11, <1>12, <1>13, <1>14, <1>15, <1>19
     DEF InProceed, InEndpoint, HandOverRef, holdVars, serverVars
<1>20. CASE Network
  BY <1>17, <1>18, <1>20 DEF Network, PeerConnects, DatagramArrives, Arrive, Wake, PeerActs,
     obsVars, holdVars
<1>21. ASSUME \/ AppDropsRef \/ UNCHANGED vars \/ \E fd \in Fds : AppReads(fd)
       PROVE  SocketInv'
  BY <1>17, <1>21 DEF AppDropsRef, AppReads, vars, obsVars, epollVars, kernelVars, serverVars,
     holdVars
<1> QED BY <1>5, <1>6, <1>7, <1>8, <1>9, <1>16, <1>19, <1>20, <1>21 DEF Next, InStart

\* A step that does not stop watching anything keeps HeldMeansWatched, if the
\* thread in the erase handler stays there.
LEMMA WatchedFrame ==
    ASSUME HeldMeansWatched, TypeOK, UNCHANGED state, conns' \subseteq conns,
           \A fd \in conns' : interest'[fd] = interest[fd],
           \A u \in Threads : InErase(u) => InErase(u)' /\ Current(u)' = Current(u)
    PROVE  HeldMeansWatched'
  BY DEF HeldMeansWatched

\* Every step keeps HeldMeansWatched (server.tpp:99-104, 120-126).
LEMMA WatchedStep ==
    ASSUME TypeOK, ObsInv, HandlersInv, MutexInv, IdleInv, HeldMeansWatched, [Next]_vars
    PROVE  HeldMeansWatched'
<1> USE ServerAssumption
<1>1. m_mutex = NoThread => \A u \in Threads : ~InErase(u)
  BY DEF InErase
<1>2. CASE Start \/ RegisterCb
  <2>1. state'.kind = "idle"
    BY <1>2 DEF Start, RegisterCb, RegisterOrder, MutexInv, TypeOK, ServerTypeOK
  <2> QED BY <2>1 DEF HeldMeansWatched
<1>3. CASE Listen /\ UNCHANGED holdVars
  <2>1. conns' = {}
    BY <1>3 DEF Listen, RegisterOrder, MutexInv, IdleInv, holdVars
  <2> QED BY <2>1 DEF HeldMeansWatched
<1>4. CASE Destroy
  BY <1>4 DEF Destroy, Destroys, HeldMeansWatched
<1>5. ASSUME NEW t \in Threads, \A u \in Threads \ {t} : act'[u] = act[u],
             act[t].pc # "running", UNCHANGED <<m_mutex, state, conns, interest>>
      PROVE  HeldMeansWatched'
  <2>1. \A u \in Threads : InErase(u) => InErase(u)' /\ Current(u)' = Current(u)
    BY <1>5 DEF InErase, Current
  <2> QED BY <1>5, <2>1, WatchedFrame
<1>6. ASSUME NEW t \in Threads, Poll(t), UNCHANGED holdVars PROVE HeldMeansWatched'
  <2>1. act[t].pc = "out" /\ \A u \in Threads \ {t} : act'[u] = act[u]
    BY <1>6, PhaseSteps DEF Poll, ObsInv
  <2>2. UNCHANGED <<m_mutex, state, conns, interest>>
    BY <1>6 DEF Poll, proceed, serverVars, holdVars
  <2> QED BY <1>5, <2>1, <2>2
<1>7. ASSUME NEW t \in Threads, ObsStep(t), UNCHANGED <<serverVars, epollVars, holdVars>>
      PROVE  HeldMeansWatched'
  <2>1. act[t].pc # "running" /\ \A u \in Threads \ {t} : act'[u] = act[u]
    BY <1>7, PhaseSteps DEF ObsInv
  <2> QED BY <1>5, <1>7, <2>1 DEF serverVars, epollVars, holdVars
<1>8. ASSUME m_mutex = NoThread, UNCHANGED state, conns' \subseteq conns,
             \A fd \in conns' : interest'[fd] = interest[fd]
      PROVE  HeldMeansWatched'
  BY <1>1, <1>8, WatchedFrame
<1>9. ASSUME NEW t \in Threads, HandlerErases(t), UNCHANGED holdVars PROVE HeldMeansWatched'
  <2>1. /\ m_mutex = NoThread /\ UNCHANGED <<state, conns>> /\ InErase(t)'
        /\ Current(t)' = Current(t) /\ Unwatch({Current(t).fd})
    BY <1>9 DEF HandlerErases, HandlerLocks, InErase, Current, del_socket, obsVars, holdVars
  <2>2. \A fd \in Fds : fd # Current(t).fd => interest'[fd] = interest[fd]
    BY <2>1, UnwatchStep DEF TypeOK, ServerTypeOK
  <2>3. conns \subseteq Fds
    BY DEF TypeOK
  <2> QED BY <1>1, <2>1, <2>2, <2>3 DEF HeldMeansWatched
<1>10. ASSUME NEW t \in Threads, HandOver(t) PROVE HeldMeansWatched'
  <2>1. /\ HoldsAccepted(t) /\ conns' = conns \cup {accepted} /\ UNCHANGED state
        /\ add_socket(accepted, "READ", Raised[accepted])
    BY <1>10 DEF HandOver, HandsOver, HoldsAccepted
  <2>2. accepted \in Fds /\ "READ" \in SockOp /\ conns \subseteq Fds
    BY <2>1 DEF MutexInv, TypeOK, ServerTypeOK, SockOp
  <2>3. /\ interest'[accepted] # {}
        /\ \A other \in Fds \ {accepted} : interest'[other] = interest[other]
    BY <2>1, <2>2, AddSocketStep DEF TypeOK, ServerTypeOK
  <2>4. \A u \in Threads : ~InErase(u)
    BY <2>1 DEF HoldsAccepted, InErase
  <2> QED BY <2>1, <2>2, <2>3, <2>4 DEF HeldMeansWatched
<1>11. ASSUME NEW t \in Threads, EraseActiveSocket(t) PROVE HeldMeansWatched'
  <2>1. /\ InErase(t) /\ conns' = conns \ {Current(t).fd} /\ UNCHANGED <<state, interest>>
    BY <1>11 DEF EraseActiveSocket, CallsErase, epollVars
  <2>2. \A u \in Threads : InErase(u) => u = t
    BY <2>1 DEF InErase
  <2> QED BY <2>1, <2>2 DEF HeldMeansWatched
<1>12. ASSUME NEW t \in Threads, InProceed(t) PROVE HeldMeansWatched'
  <2>1. CASE HandlerIgnores(t) \/ AcceptFails(t) \/ Accept(t) \/ HandOverRef(t)
    <3>1. m_mutex = NoThread /\ UNCHANGED <<state, conns, interest>>
      BY <1>12, <2>1 DEF InProceed, HandlerIgnores, AcceptFails, Accept, HandOverRef,
           HandsOverRef, HandlerLocks, HandOver, HandsOver, EraseActiveSocket, CallsErase,
           InErase, epollVars, serverVars, holdVars
    <3> QED BY <1>8, <3>1
  <2> QED BY <1>7, <1>9, <1>10, <1>11, <1>12, <2>1 DEF InProceed, InEndpoint
<1>13. ASSUME NEW fd \in Fds, AppDrops(fd) PROVE HeldMeansWatched'
  <2>1. m_mutex = NoThread /\ UNCHANGED state /\ conns' = conns \ {fd} /\ Unwatch({fd})
    BY <1>13 DEF AppDrops, AppOutside, serverVars
  <2>2. \A other \in Fds : other # fd => interest'[other] = interest[other]
    <3>1. EpollTypeOK
      BY DEF TypeOK, ServerTypeOK
    <3>2. \A other \in Fds : interest'[other] = IF other \in {fd} THEN {} ELSE interest[other]
      BY <2>1, <3>1, UnwatchStep
    <3> QED BY <3>2
  <2>3. conns' \subseteq conns /\ \A other \in conns' : interest'[other] = interest[other]
    BY <2>1, <2>2 DEF TypeOK
  <2>4. UNCHANGED state /\ m_mutex = NoThread
    BY <2>1
  <2> QED BY <1>8, <2>3, <2>4
<1>14. ASSUME \/ Network \/ AppDropsRef \/ UNCHANGED vars \/ \E fd \in Fds : AppReads(fd)
       PROVE  HeldMeansWatched'
  <2>1. UNCHANGED <<act, m_mutex, state, conns, interest>>
    BY <1>14 DEF Network, PeerConnects, DatagramArrives, Arrive, UrgentArrives, PeerCloses,
         PeerResets, Wake, AppDropsRef, AppReads, vars, obsVars, epollVars, serverVars, holdVars
  <2>2. \A u \in Threads : InErase(u) => InErase(u)' /\ Current(u)' = Current(u)
    BY <2>1 DEF InErase, Current
  <2> QED BY <2>1, <2>2, WatchedFrame
<1> QED BY <1>2, <1>3, <1>4, <1>6, <1>12, <1>13, <1>14 DEF Next, InStart

------------------------------------------------------------------------------
(* The references of a datagram server.                                     *)

\* Nobody new owes a reference: RefsInv is kept if the references, and the
\* ready flag, do not increase.
LEMMA RefsFrame ==
    ASSUME TypeOK, RefsInv, proto' = proto, Owing' \subseteq Owing,
           refs' \in Nat, refs' <= refs, state'.fd \in ready' => state.fd \in ready,
           peers' = peers, rx' \subseteq rx
    PROVE  RefsInv'
<1> SUFFICES ASSUME proto = "udp"
    PROVE  /\ IsFiniteSet(Owing')
           /\ refs' + Cardinality(Owing') + (IF state'.fd \in ready' THEN 1 ELSE 0) <= peers
    BY DEF RefsInv
<1>1. IsFiniteSet(Owing) /\ Cardinality(Owing) \in Nat
  BY FS_CardinalityType DEF RefsInv
<1>2. IsFiniteSet(Owing') /\ Cardinality(Owing') <= Cardinality(Owing)
  BY <1>1, FS_Subset
<1>3. Cardinality(Owing') \in Nat
  BY <1>2, FS_CardinalityType
<1>4. refs \in Nat /\ peers \in Nat
  BY ServerAssumption DEF TypeOK, ServerTypeOK
<1> QED BY <1>1, <1>2, <1>3, <1>4 DEF RefsInv

\* Going forward in a batch makes nobody owe a reference, and the return of
\* the READ_READY handler settles what its thread owed.
LEMMA OwesForward ==
    ASSUME ObsInv, HandlersInv, BatchInv, NEW t \in Threads, UNCHANGED state,
           ObsStep(t) \/ ObsHandlerReturns(t)
    PROVE  /\ Owing' \subseteq Owing
           /\ ObsHandlerReturns(t) /\ ListenerReady(t) => t \in Owing /\ t \notin Owing'
<1>1. /\ \A u \in Threads \ {t} : act'[u] = act[u]
      /\ act'[t].pc # "out" =>
            /\ act'[t].events = act[t].events
            /\ \/ act'[t].k = act[t].k /\ act'[t].i >= act[t].i
               \/ act'[t].k = act[t].k + 1 /\ act[t].pc = "serving"
            /\ act'[t].pc \in {"polled", "serving", "running"} =>
                  act[t].pc \in {"polled", "serving", "running"}
  BY ForwardSteps
<1>2. \A u \in Threads \ {t} : OwesRef(u)' <=> OwesRef(u)
  BY <1>1 DEF OwesRef
<1>3. /\ act[t] \in ActRecord /\ act[t].k \in Nat
      /\ act[t].pc \in {"polled", "serving", "running"} => act[t].i \in Nat \ {0}
  BY DEF ObsInv, ObsTypeOK, ActRecord, RecordInv, Place, Steps
<1>4. act'[t].k \in Nat /\ act'[t].i \in Nat
  BY StepInv, HandlerReturnsInv DEF ObsInv, ObsTypeOK, ActRecord
<1>5. OwesRef(t)' => OwesRef(t)
  <2> SUFFICES ASSUME OwesRef(t)' PROVE OwesRef(t)
    OBVIOUS
  <2>1. act'[t].pc \in {"polled", "serving", "running"}
    BY DEF OwesRef
  <2>2. act'[t].events = act[t].events /\ act[t].pc \in {"polled", "serving", "running"}
    BY <1>1, <2>1
  <2>3. PICK n \in 1..Len(act[t].events) :
            /\ act[t].events[n].fd = state.fd
            /\ "READ_READY" \in act[t].events[n].type
            /\ n > act'[t].k \/ (n = act'[t].k /\ act'[t].i = 1)
    BY <2>2 DEF OwesRef
  <2>4. n \in Nat
    OBVIOUS
  <2>5. n > act[t].k \/ (n = act[t].k /\ act[t].i = 1)
    BY <1>1, <1>3, <1>4, <2>1, <2>2, <2>3, <2>4
  <2> QED BY <2>2, <2>3, <2>5 DEF OwesRef
<1>6. ASSUME ObsHandlerReturns(t), ListenerReady(t) PROVE OwesRef(t) /\ ~OwesRef(t)'
  <2>1. act[t].pc = "running" /\ act[t].cur = "read" /\ Current(t).fd = state.fd
    BY <1>6 DEF ObsHandlerReturns, ListenerReady
  <2>2. /\ act[t].k \in 1..Len(act[t].events) /\ act[t].i = 1
        /\ "READ_READY" \in Current(t).type
    BY <2>1, RunningServer
  <2>3. OwesRef(t)
    BY <2>1, <2>2 DEF OwesRef, Current
  <2>4. act'[t].events = act[t].events /\ act'[t].k = act[t].k /\ act'[t].i = act[t].i + 1
    BY <1>3, <1>6 DEF ObsHandlerReturns, ObsInv, ObsTypeOK, ActRecord
  <2>5. \A n \in 1..Len(act[t].events) : act[t].events[n].fd = state.fd => n = act[t].k
    BY <2>1, <2>2 DEF BatchInv, Current
  <2>6. ~OwesRef(t)'
    BY <1>3, <2>2, <2>4, <2>5 DEF OwesRef
  <2> QED BY <2>3, <2>6
<1> QED BY <1>2, <1>5, <1>6 DEF Owing

\* Every step keeps RefsInv (server.tpp:64-74, 109-118, 152-160).
LEMMA RefsStep ==
    ASSUME TypeOK, ObsInv, HandlersInv, MutexInv, IdleInv, SocketInv, BatchInv, RefsInv,
           [Next]_vars
    PROVE  RefsInv'
<1> USE ServerAssumption DEF NoFd
<1>1. /\ refs \in Nat /\ peers \in Nat /\ refs <= refs
      /\ EpollTypeOK /\ KernelTypeOK /\ ready \subseteq Fds /\ proto \in {"tcp", "udp"}
  BY DEF TypeOK, ServerTypeOK, EpollTypeOK
<1>2. ASSUME proto' = proto, proto # "udp" PROVE RefsInv'
  BY <1>2 DEF RefsInv
<1>3. ASSUME \A t \in Threads : act'[t].events = << >> \/ act'[t].pc = "out" PROVE Owing' = {}
  <2>1. Len(<< >>) = 0
    OBVIOUS
  <2> QED BY <1>3, <2>1 DEF Owing, OwesRef
<1>4. UNCHANGED <<act, state>> => Owing' = Owing
  BY DEF Owing, OwesRef
<1>5. CASE Start /\ UNCHANGED holdVars
  <2>1. /\ state.kind = "idle" /\ UNCHANGED <<act, proto, ready, refs, peers, rx>>
    BY <1>5 DEF Start, obsVars, epollVars, holdVars
  <2>2. Owing' = {} /\ ready' = {}
    BY <1>3, <2>1 DEF IdleInv
  <2> QED BY <1>1, <2>1, <2>2, RefsFrame
<1>6. CASE RegisterCb /\ UNCHANGED holdVars
  BY <1>1, <1>4, <1>6, RefsFrame DEF RegisterCb, add, epollVars, kernelVars, holdVars
<1>7. CASE Listen /\ UNCHANGED holdVars
  <2>1. /\ UNCHANGED <<act, proto, refs, peers, rx>> /\ state'.fd = state.fd
        /\ add_socket(state.fd, "READ", Raised[state.fd])
    BY <1>7 DEF Listen, obsVars, kernelVars, holdVars, TypeOK, ServerTypeOK
  <2>2. op # 0 /\ state.kind = "idle" /\ state.fd \in Fds /\ "READ" \in SockOp
    BY <1>7 DEF Listen, RegisterOrder, MutexInv, SockOp, TypeOK, ServerTypeOK
  <2>3. Owing' = {} /\ refs = 0 /\ ready = {}
    BY <1>3, <2>1, <2>2 DEF IdleInv
  <2>4. ready' # ready => Raised[state.fd] \cap flags_from_op("READ") # {}
    BY <2>1 DEF add_socket, epollVars
  <2> SUFFICES ASSUME proto = "udp" PROVE RefsInv'
    BY <1>2, <2>1
  <2>5. ksock[state.fd] = "udp"
    BY <2>2 DEF SocketInv
  <2>6. "OUT" \notin flags_from_op("READ")
    BY DEF flags_from_op
  <2>7. Raised[state.fd] \cap flags_from_op("READ") # {} => state.fd \in rx
    <3>1. Raised[state.fd] = (IF state.fd \in rx THEN {"IN"} ELSE {}) \cup {"OUT"}
      BY <2>2, <2>5 DEF Raised
    <3> QED BY <2>6, <3>1
  <2>8. (IF state'.fd \in ready' THEN 1 ELSE 0) <= peers
    BY <1>1, <2>3, <2>4, <2>7 DEF RefsInv
  <2> QED BY <1>1, <2>1, <2>3, <2>8, FS_EmptySet DEF RefsInv
<1>8. CASE Destroy
  <2>1. /\ UNCHANGED <<proto, peers>> /\ refs' = 0 /\ state'.fd = NoFd /\ Close({state.fd})
        /\ Unwatch(Fds) /\ \A t \in Threads : act'[t].pc = "out"
    BY <1>8 DEF Destroy, Destroys
  <2>2. Owing' = {} /\ ready' = ready \ Fds /\ rx' \subseteq rx
    BY <1>1, <1>3, <2>1, UnwatchStep, CloseStep
  <2> QED BY <1>1, <2>1, <2>2, RefsFrame
<1>9. ASSUME NEW t \in Threads, Poll(t), UNCHANGED holdVars PROVE RefsInv'
  <2>1. UNCHANGED <<proto, state, refs, peers, rx>>
    BY <1>9 DEF Poll, kernelVars, serverVars, holdVars
  <2>2. PICK take \in Takes(Raised) : proceed(take, Raised) /\ ObsPoll(t, EventsOf(take, Raised))
    BY <1>9 DEF Poll
  <2> DEFINE events == EventsOf(take, Raised)
  <2>3. \A j \in 1..Len(events) : events[j].fd \in ready /\ events[j].fd \in Range(take)
    BY <1>1, TakenEvents
  <2>4. /\ act[t].pc = "out" /\ act'[t].events = events
        /\ \A u \in Threads \ {t} : act'[u] = act[u]
    BY <2>2 DEF ObsPoll, Outside, TypeOK, ServerTypeOK, ObsTypeOK
  <2> HIDE DEF events
  <2>5. ready' \subseteq ready \ Range(take)
    BY <1>1, <2>2, ProceedStep
  <2>6. t \notin Owing /\ Owing' \subseteq Owing \cup {t}
    BY <2>1, <2>4 DEF Owing, OwesRef
  <2>7. CASE t \notin Owing'
    BY <1>1, <2>1, <2>5, <2>6, <2>7, RefsFrame
  <2>8. CASE t \in Owing' /\ proto = "udp"
    <3>1. state.fd \in ready /\ state.fd \notin ready'
      BY <2>1, <2>3, <2>4, <2>5, <2>8 DEF Owing, OwesRef
    <3>2. IsFiniteSet(Owing) /\ Cardinality(Owing) \in Nat
      BY <2>8, FS_CardinalityType DEF RefsInv
    <3>3. /\ IsFiniteSet(Owing \cup {t}) /\ Cardinality(Owing \cup {t}) = Cardinality(Owing) + 1
      BY <2>6, <3>2, FS_AddElement
    <3>4. IsFiniteSet(Owing') /\ Cardinality(Owing') <= Cardinality(Owing) + 1
      BY <2>6, <3>3, FS_Subset
    <3>5. Cardinality(Owing') \in Nat
      BY <3>4, FS_CardinalityType
    <3> QED BY <1>1, <2>1, <2>8, <3>1, <3>2, <3>4, <3>5 DEF RefsInv
  <2> QED BY <1>2, <2>1, <2>7, <2>8
<1>10. ASSUME NEW t \in Threads, ObsStep(t) \/ ObsHandlerReturns(t),
              UNCHANGED <<proto, state, peers>>, refs' \in {refs, 0}, ready' \subseteq ready,
              rx' \subseteq rx
       PROVE  RefsInv'
  <2>1. Owing' \subseteq Owing
    BY <1>10, OwesForward
  <2>2. refs' \in Nat /\ refs' <= refs
    BY <1>1, <1>10
  <2> QED BY <1>10, <2>1, <2>2, RefsFrame
<1>11. ASSUME NEW t \in Threads, HandOverRef(t) PROVE RefsInv'
  <2>1. /\ ObsHandlerReturns(t) /\ ListenerReady(t) /\ proto = "udp" /\ refs' = refs + 1
        /\ UNCHANGED <<proto, state, peers, ready, rx>>
    BY <1>11 DEF HandOverRef, HandsOverRef, epollVars, kernelVars, serverVars
  <2>2. t \in Owing /\ Owing' \subseteq Owing \ {t}
    BY <2>1, OwesForward
  <2>3. IsFiniteSet(Owing) /\ Cardinality(Owing) \in Nat
    BY <2>1, FS_CardinalityType DEF RefsInv
  <2>4. IsFiniteSet(Owing \ {t}) /\ Cardinality(Owing \ {t}) = Cardinality(Owing) - 1
    BY <2>2, <2>3, FS_RemoveElement
  <2>5. IsFiniteSet(Owing') /\ Cardinality(Owing') <= Cardinality(Owing) - 1
    BY <2>2, <2>4, FS_Subset
  <2>6. Cardinality(Owing') \in Nat
    BY <2>5, FS_CardinalityType
  <2> QED BY <1>1, <2>1, <2>3, <2>5, <2>6 DEF RefsInv
<1>12. ASSUME NEW t \in Threads, InProceed(t) PROVE RefsInv'
  <2>1. CASE ObsStep(t) /\ UNCHANGED <<epollVars, kernelVars, serverVars, holdVars>>
    BY <1>10, <2>1 DEF epollVars, kernelVars, serverVars, holdVars
  <2>2. CASE (HandlerIgnores(t) \/ AcceptFails(t)) /\ UNCHANGED holdVars
    BY <1>10, <2>2 DEF HandlerIgnores, AcceptFails, epollVars, kernelVars, serverVars, holdVars
  <2>3. CASE HandlerErases(t) /\ UNCHANGED holdVars
    BY <1>1, <1>4, <2>3, RefsFrame
       DEF HandlerErases, del_socket, Unwatch, obsVars, kernelVars, holdVars
  <2>4. CASE Accept(t)
    BY <1>2, <2>4 DEF Accept
  <2>5. CASE HandOver(t)
    <3>1. HoldsAccepted(t) /\ proto' = proto
      BY <2>5 DEF HandOver, HandsOver, HoldsAccepted
    <3>2. proto # "udp"
      BY <3>1 DEF MutexInv, IdleInv
    <3> QED BY <1>2, <3>1, <3>2
  <2>6. CASE EraseActiveSocket(t)
    <3>1. /\ ObsHandlerReturns(t) /\ UNCHANGED <<proto, state, peers, ready>> /\ refs' = 0
          /\ Close({Current(t).fd} \cap conns)
      BY <2>6 DEF EraseActiveSocket, CallsErase, epollVars
    <3>2. rx' \subseteq rx
      BY <1>1, <3>1, CloseStep
    <3> QED BY <1>10, <3>1, <3>2
  <2> QED BY <1>11, <1>12, <2>1, <2>2, <2>3, <2>4, <2>5, <2>6 DEF InProceed, InEndpoint
<1>13. ASSUME NEW fd \in Fds, AppReads(fd) PROVE RefsInv'
  BY <1>1, <1>4, <1>13, RefsFrame DEF AppReads, obsVars, epollVars, serverVars, holdVars
<1>14. ASSUME NEW fd \in Fds, AppDrops(fd) PROVE RefsInv'
  BY <1>1, <1>4, <1>14, RefsFrame DEF AppDrops, Close, Unwatch, obsVars, serverVars
<1>15. CASE AppDropsRef
  BY <1>1, <1>4, <1>15, RefsFrame DEF AppDropsRef, obsVars, epollVars, kernelVars, serverVars
<1>16. CASE DatagramArrives /\ UNCHANGED holdVars
  <2>1. /\ UNCHANGED <<act, proto, state, refs>> /\ peers' = peers + 1 /\ state.fd \in Fds
        /\ Wake(state.fd)
    BY <1>16 DEF DatagramArrives, Arrive, obsVars, holdVars
  <2>2. Owing' = Owing
    BY <1>4, <2>1
  <2>3. proto = "udp" => Cardinality(Owing) \in Nat
    BY FS_CardinalityType DEF RefsInv
  <2> QED BY <1>1, <2>1, <2>2, <2>3 DEF RefsInv
<1>17. ASSUME NEW fd \in Fds, proto = "tcp" \/ UrgentArrives(fd) \/ PeerCloses(fd) \/ PeerResets(fd),
              UNCHANGED <<obsVars, serverVars, holdVars>>
       PROVE  RefsInv'
  <2>1. proto # "udp"
    <3> SUFFICES ASSUME proto = "udp", ksock[fd] \in {"est", "urgent", "fin"} PROVE FALSE
      BY <1>17 DEF UrgentArrives, PeerCloses, PeerResets
    <3>1. conns = {} /\ accepted = NoFd /\ fd # NoFd
      BY DEF IdleInv
    <3>2. fd = state.fd
      BY <3>1 DEF SocketInv, DescriptorsOwned
    <3> QED BY <3>2 DEF SocketInv
  <2> QED BY <1>2, <1>17, <2>1 DEF serverVars
<1>18. CASE Network
  BY <1>2, <1>16, <1>17, <1>18 DEF Network, PeerConnects
<1>19. CASE UNCHANGED vars
  BY <1>1, <1>4, <1>19, RefsFrame DEF vars, obsVars, epollVars, kernelVars, serverVars, holdVars
<1> QED BY <1>5, <1>6, <1>7, <1>8, <1>9, <1>12, <1>13, <1>14, <1>15, <1>18, <1>19
        DEF Next, InStart

------------------------------------------------------------------------------
(* The theorems.                                                            *)

\* The inductive invariant holds in every state (server.tpp).
THEOREM ServerInvariant == Spec => []ServerInv
<1> USE ServerAssumption
<1>1. Init => ServerInv
  <2> SUFFICES ASSUME Init PROVE ServerInv
    OBVIOUS
  <2> USE DEF Init, ServerInit, NoFd
  <2>1. ObsInv
    BY ObsInitInv
  <2>2. EpollTypeOK /\ KernelTypeOK
    BY DEF EpollInit, KernelInit, EpollTypeOK, KernelTypeOK, SockState
  <2>3. TypeOK
    BY <2>1, <2>2 DEF TypeOK, ServerTypeOK, ObsInv
  <2>4. HandlersInv
    BY DEF ObsInit, HandlersInv
  <2>5. \A t \in Threads : act[t].pc = "out" /\ act[t].events = << >>
    BY DEF ObsInit, Outside
  <2>6. MutexInv
    BY <2>5 DEF MutexInv, HoldsAccepted
  <2>7. IdleInv
    BY <2>5 DEF IdleInv, EpollInit
  <2>8. SocketInv
    BY <2>5 DEF SocketInv, DescriptorsOwned, KernelInit, EpollInit, InErase
  <2>9. BatchInv
    BY <2>5 DEF BatchInv
  <2>10. Owing = {}
    BY <2>5 DEF Owing, OwesRef
  <2>11. RefsInv
    BY <2>10, FS_EmptySet DEF RefsInv, EpollInit, KernelInit
  <2> QED BY <2>1, <2>3, <2>4, <2>6, <2>7, <2>8, <2>9, <2>11 DEF ServerInv, HeldMeansWatched
<1>2. ServerInv /\ [Next]_vars => ServerInv'
  <2> SUFFICES ASSUME ServerInv, [Next]_vars PROVE ServerInv'
    OBVIOUS
  <2> USE DEF ServerInv
  <2>1. ObsInv' /\ HandlersInv' /\ MutexInv' /\ BatchInv' /\ IdleInv'
    BY ServerObsInv, HandlersStep, MutexStep, BatchStep, IdleStep
  <2>2. HeldMeansWatched' /\ RefsInv'
    BY WatchedStep, RefsStep
  <2>3. ServerTypeOK' /\ conns' \subseteq Fds /\ refs' \in Nat
    BY ServerTypesStep
  <2>4. refs' <= MaxPeers
    <3>1. peers' \in Nat /\ peers' <= MaxPeers /\ proto' \in {"tcp", "udp"}
      BY <2>3 DEF ServerTypeOK
    <3>2. CASE proto' = "tcp"
      BY <2>1, <3>2 DEF IdleInv
    <3>3. CASE proto' = "udp"
      <4>1. IsFiniteSet(Owing') /\ Cardinality(Owing') \in Nat
        BY <2>2, <3>3, FS_CardinalityType DEF RefsInv
      <4> QED BY <2>2, <2>3, <3>1, <3>3, <4>1 DEF RefsInv
    <3> QED BY <3>1, <3>2, <3>3
  <2>5. TypeOK'
    BY <2>3, <2>4 DEF TypeOK
  <2>6. SocketInv'
    BY <2>5, SocketStep
  <2> QED BY <2>1, <2>2, <2>5, <2>6
<1> QED BY <1>1, <1>2, PTL DEF Spec

\* The fields and what the application holds keep their types; in particular
\* a datagram server never hands out more references than datagrams were sent,
\* for any number of pollers (server.h:91-93, server.tpp:114-117).
THEOREM ServerTypes == Spec => []TypeOK
<1>1. ServerInv => TypeOK
  BY DEF ServerInv
<1> QED BY <1>1, ServerInvariant, PTL

\* No descriptor leaks and none dangles, for any number of pollers,
\* descriptors and peers (server.tpp:99-128, 152-160).
THEOREM NoDescriptorLeaks == Spec => []DescriptorsOwned
<1>1. ServerInv => DescriptorsOwned
  BY DEF ServerInv, SocketInv
<1> QED BY <1>1, ServerInvariant, PTL

\* A held connection is watched until its end is being announced, for any
\* number of pollers (server.tpp:102-103, 123-126).
THEOREM HeldIsWatched == Spec => []HeldMeansWatched
<1>1. ServerInv => HeldMeansWatched
  BY DEF ServerInv
<1> QED BY <1>1, ServerInvariant, PTL

\* Every reference the application holds is to the socket of a server that is
\* listening, for any number of pollers and datagrams: a reference is handed
\* out by a running handler only, no handler runs in a destroyed server, and
\* the destructor calls on_close (server.tpp:74, 114-117, 152-160).
THEOREM RefsNeverDangle == Spec => []RefsEndWithServer
<1>1. Init => RefsEndWithServer
  BY DEF Init, RefsEndWithServer
<1>2. ServerInv /\ ServerInv' /\ RefsEndWithServer /\ [Next]_vars => RefsEndWithServer'
  <2> SUFFICES ASSUME ServerInv, ServerInv', RefsEndWithServer, [Next]_vars, refs' > 0
      PROVE  state'.kind = "listening" /\ ksock'[state'.fd] = "udp"
    BY DEF RefsEndWithServer
  <2> USE ServerAssumption DEF ServerInv
  <2>1. /\ refs \in Nat /\ proto' \in {"tcp", "udp"}
        /\ state'.kind \in {"idle", "listening", "destroyed"}
    BY DEF TypeOK, ServerTypeOK
  <2>2. state'.kind # "idle" /\ proto' = "udp"
    BY <2>1 DEF IdleInv
  <2>3. state'.kind # "destroyed"
    <3>1. CASE refs > 0 /\ UNCHANGED state
      BY <3>1 DEF RefsEndWithServer
    <3>2. CASE (Start \/ Listen) /\ UNCHANGED holdVars
      BY <3>2 DEF Start, Listen, TypeOK, ServerTypeOK
    <3>3. ~Destroy
      BY DEF Destroy
    <3>4. ASSUME NEW t \in Threads, HandOverRef(t) PROVE state'.kind # "destroyed"
      BY <3>4 DEF HandOverRef, HandsOverRef, HandlerLocks, serverVars, MutexInv
    <3>5. ASSUME NEW t \in Threads, InProceed(t), ~HandOverRef(t)
          PROVE  refs > 0 /\ UNCHANGED state
      <4>1. refs' = refs \/ refs' = 0
        BY <3>5 DEF InProceed, HandOver, EraseActiveSocket, holdVars
      <4> QED BY <2>1, <3>5, <4>1, ProceedObserver
    <3>6. ASSUME \/ RegisterCb /\ UNCHANGED holdVars
                 \/ Network \/ AppDropsRef \/ UNCHANGED vars
                 \/ \E fd \in Fds : AppReads(fd) \/ AppDrops(fd)
                 \/ \E t \in Threads : Poll(t) /\ UNCHANGED holdVars
          PROVE  refs > 0 /\ UNCHANGED state
      BY <2>1, <3>6 DEF RegisterCb, Network, PeerConnects, DatagramArrives, AppDropsRef, AppReads,
           AppDrops, Poll, vars, serverVars, holdVars
    <3> QED BY <3>1, <3>2, <3>3, <3>4, <3>5, <3>6 DEF Next, InStart
  <2>4. state'.fd \in Fds
    BY <2>1, <2>2, <2>3 DEF MutexInv
  <2> QED BY <2>1, <2>2, <2>3, <2>4 DEF SocketInv
<1> QED BY <1>1, <1>2, ServerInvariant, PTL DEF Spec

------------------------------------------------------------------------------
(***************************************************************************)
(* One poller.  With two, a batch can name a descriptor that another       *)
(* thread has closed and accepted again since; with one, nothing happens   *)
(* to the application's sockets between the poll and the last handler but  *)
(* what the handlers do.                                                   *)
(***************************************************************************)
Inside == {"polled", "serving", "running"}

\* A step keeps BatchFresh if the batch goes forward and only descriptors that
\* are over leave the application.
LEMMA FreshFrame ==
    ASSUME Threads = {Controller}, ObsInv, ObsInv', BatchFresh,
           state' = state, conns' \subseteq conns,
           act'[Controller].pc \in Inside =>
              /\ act[Controller].pc \in Inside
              /\ act'[Controller].events = act[Controller].events
              /\ act'[Controller].k >= act[Controller].k
              /\ \A n \in 1..Len(act[Controller].events) :
                    /\ n > act'[Controller].k
                    /\ act[Controller].events[n].fd \in conns
                    => act[Controller].events[n].fd \in conns',
           \A fd \in conns' : ksock[fd] \in Down \cup {"urgent"} => ksock'[fd] \in Down \cup {"urgent"},
           HoldsAccepted(Controller)' => Current(Controller)'.fd = state.fd
    PROVE  BatchFresh'
<1> DEFINE a == act[Controller]
           b == act'[Controller]
<1> SUFFICES ASSUME b.pc \in Inside
    PROVE  \A n \in 1..Len(b.events) :
              /\ n > b.k => b.events[n].fd \in conns' \/ b.events[n].fd = state'.fd
              /\ /\ n >= b.k
                 /\ b.events[n].type \cap ErasingTypes # {}
                 /\ b.events[n].fd \in conns'
                 => ksock'[b.events[n].fd] \in Down \cup {"urgent"}
  BY DEF BatchFresh, Inside
<1>1. /\ a.pc \in Inside /\ b.events = a.events /\ b.k >= a.k
      /\ \A n \in 1..Len(a.events) : n > b.k /\ a.events[n].fd \in conns => a.events[n].fd \in conns'
  OBVIOUS
<1>2. a.k \in Nat /\ b.k \in Nat
  BY DEF ObsInv, ObsTypeOK, ActRecord
<1>3. \A n \in 1..Len(a.events) :
         /\ n > a.k => a.events[n].fd \in conns \/ a.events[n].fd = state.fd
         /\ /\ n >= a.k /\ a.events[n].type \cap ErasingTypes # {} /\ a.events[n].fd \in conns
            => ksock[a.events[n].fd] \in Down \cup {"urgent"}
  BY <1>1 DEF BatchFresh, Inside
<1> HIDE DEF a, b
<1> SUFFICES ASSUME NEW n \in 1..Len(a.events)
    PROVE  /\ n > b.k => a.events[n].fd \in conns' \/ a.events[n].fd = state.fd
           /\ /\ n >= b.k /\ a.events[n].type \cap ErasingTypes # {} /\ a.events[n].fd \in conns'
              => ksock'[a.events[n].fd] \in Down \cup {"urgent"}
  BY <1>1
<1>4. n \in Nat /\ (n > b.k => n > a.k) /\ (n >= b.k => n >= a.k)
  BY <1>1, <1>2
<1> QED BY <1>1, <1>3, <1>4

\* Every step of a server with one poller keeps BatchFresh
\* (server.tpp:99-128, epoll.cpp:116-139).
LEMMA FreshStep ==
    ASSUME Threads = {Controller}, ServerInv, ServerInv', BatchFresh, [Next]_vars
    PROVE  BatchFresh'
<1> DEFINE c == Controller
<1> USE ServerAssumption DEF ServerInv, NoFd
<1>1. ASSUME act'[c].pc = "out" PROVE BatchFresh'
  BY <1>1 DEF BatchFresh
<1>2. ASSUME \/ Start \/ InStart \/ Destroy \/ AppDropsRef
             \/ \E fd \in Fds : AppReads(fd) \/ AppDrops(fd)
      PROVE  act'[c].pc = "out"
  <2>1. act' = act
    BY <1>2 DEF Start, InStart, RegisterCb, add, Listen, Destroy, Destroys, AppDropsRef, AppReads,
                AppDrops, obsVars
  <2>2. CASE InStart
    <3>1. op # 0
      BY <2>2 DEF InStart, RegisterCb, RegisterOrder, Listen, TypeOK, ServerTypeOK
    <3> QED BY <2>1, <3>1 DEF MutexInv
  <2>3. CASE ~InStart
    BY <1>2, <2>1, <2>3 DEF Start, Destroy, Destroys, AppDropsRef, AppReads, AppDrops, AppOutside
  <2> QED BY <2>2, <2>3
<1>3. ASSUME Poll(c), UNCHANGED holdVars PROVE BatchFresh'
  <2>1. PICK take \in Takes(Raised) : ObsPoll(c, EventsOf(take, Raised))
    BY <1>3 DEF Poll
  <2> DEFINE events == EventsOf(take, Raised)
  <2>2. /\ events \in Seq(Event)
        /\ \A j \in 1..Len(events) :
              /\ events[j].fd \in ready /\ Reported(events[j].fd, Raised) # {}
              /\ events[j].type = event_type_from_flags(Reported(events[j].fd, Raised))
    BY TakenEvents DEF TypeOK, ServerTypeOK
  <2>3. act'[c].events = events /\ act'[c].pc = "polled"
    BY <2>1 DEF ObsPoll, Outside, ObsInv, ObsTypeOK
  <2> HIDE DEF events
  <2>4. ready \subseteq Fds /\ UNCHANGED <<ksock, state, conns>>
    BY <1>3 DEF TypeOK, ServerTypeOK, EpollTypeOK, Poll, kernelVars, serverVars, holdVars
  <2>5. ASSUME NEW j \in 1..Len(events)
        PROVE  events[j].fd \in conns \/ events[j].fd = state.fd
    <3>1. events[j].fd \in Fds /\ interest[events[j].fd] # {}
      BY <2>2, <2>4 DEF Reported
    <3> QED BY <3>1 DEF SocketInv
  <2>6. ASSUME NEW j \in 1..Len(events), events[j].type \cap ErasingTypes # {},
               events[j].fd \in conns
        PROVE  ksock[events[j].fd] \in Down \cup {"urgent"}
    <3>1. ksock[events[j].fd] \in {"fresh", "urgent", "fin", "reset", "refused"}
      BY <2>2, <2>4, <2>6, ErasingReported
    <3>2. ksock[events[j].fd] \in {"est", "urgent", "fin", "reset"}
      BY <2>2, <2>4, <2>6 DEF SocketInv
    <3> QED BY <3>1, <3>2 DEF Down
  <2> QED BY <2>3, <2>4, <2>5, <2>6 DEF BatchFresh, HoldsAccepted
<1>4. ASSUME ObsStep(c) \/ ObsHandlerReturns(c)
      PROVE  act'[c].pc \in Inside => /\ act[c].pc \in Inside
                                      /\ act'[c].events = act[c].events
                                      /\ act'[c].k >= act[c].k
  <2>1. act[c].k \in Nat
    BY DEF ObsInv, ObsTypeOK, ActRecord
  <2> QED BY <1>4, <2>1, ForwardSteps DEF Inside
<1>5. ASSUME ObsStep(c), UNCHANGED <<serverVars, epollVars, kernelVars, holdVars>> PROVE BatchFresh'
  <2>1. act[c].pc \notin {"out", "running"} /\ UNCHANGED <<m_mutex, ksock, state, conns>>
    BY <1>5, PhaseSteps DEF ObsInv, serverVars, kernelVars, holdVars
  <2>2. m_mutex # c
    BY <2>1 DEF MutexInv
  <2> QED BY <1>4, <1>5, <2>1, <2>2, FreshFrame DEF HoldsAccepted
<1>6. ASSUME HandlerIgnores(c) \/ AcceptFails(c) \/ HandOverRef(c), conns' = conns
      PROVE  BatchFresh'
  <2>1. ObsHandlerReturns(c) /\ m_mutex' = NoThread /\ UNCHANGED <<ksock, state, conns>>
    BY <1>6 DEF HandlerIgnores, AcceptFails, HandOverRef, HandsOverRef, HandlerLocks, serverVars,
                kernelVars
  <2> QED BY <1>4, <2>1, FreshFrame DEF HoldsAccepted
<1>7. ASSUME HandlerErases(c), UNCHANGED holdVars PROVE BatchFresh'
  <2>1. act[c].cur = "erase" /\ UNCHANGED <<act, ksock, state, conns>>
    BY <1>7 DEF HandlerErases, obsVars, kernelVars, holdVars
  <2> QED BY <2>1 DEF BatchFresh, HoldsAccepted
<1>8. ASSUME Accept(c), UNCHANGED holdVars PROVE BatchFresh'
  <2>1. /\ UNCHANGED <<act, state, conns>> /\ Current(c).fd = state.fd
        /\ act[c].pc = "running"
    BY <1>8 DEF Accept, HandlerLocks, ListenerReady, obsVars, holdVars
  <2>2. \A fd \in conns : ksock'[fd] = ksock[fd]
    <3>1. PICK fd \in Fds, st \in {"est", "fin", "reset", "urgent"} :
              ksock[fd] = "free" /\ ksock' = [ksock EXCEPT ![fd] = st]
      BY <1>8 DEF Accept, AcceptedStates, IsLowestFree, FreeFds
    <3>2. fd \notin conns
      BY <3>1 DEF SocketInv
    <3> QED BY <3>1, <3>2 DEF TypeOK, ServerTypeOK, KernelTypeOK
  <2>3. act[c].k \in Nat /\ Current(c)' = Current(c)
    BY <2>1 DEF ObsInv, ObsTypeOK, ActRecord, Current
  <2> QED BY <2>1, <2>2, <2>3, FreshFrame DEF Inside
<1>9. ASSUME HandOver(c) PROVE BatchFresh'
  <2>1. /\ HoldsAccepted(c) /\ ObsHandlerReturns(c) /\ m_mutex' = NoThread
        /\ conns' = conns \cup {accepted} /\ UNCHANGED <<ksock, state>>
    BY <1>9 DEF HandOver, HandsOver, HoldsAccepted, kernelVars
  <2>2. accepted \in Fds /\ accepted # state.fd
    BY <2>1 DEF MutexInv, TypeOK, ServerTypeOK, SocketInv, DescriptorsOwned
  <2>3. act'[c].events = act[c].events /\ act'[c].k = act[c].k /\ act[c].pc \in Inside
    BY <2>1 DEF ObsHandlerReturns, ObsInv, ObsTypeOK, ActRecord, Inside
  <2>4. ASSUME NEW n \in 1..Len(act[c].events), n >= act[c].k
        PROVE  act[c].events[n].fd # accepted
    <3>1. CASE n = act[c].k
      BY <2>1, <2>2, <2>3, <3>1 DEF BatchFresh, Inside, Current
    <3>2. CASE n > act[c].k
      BY <2>2, <2>3, <3>2 DEF BatchFresh, Inside, SocketInv, DescriptorsOwned
    <3>3. act[c].k \in Nat
      BY DEF ObsInv, ObsTypeOK, ActRecord
    <3> QED BY <2>4, <3>1, <3>2, <3>3
  <2>5. ~HoldsAccepted(c)'
    BY <2>1 DEF HoldsAccepted
  <2>6. ASSUME NEW n \in 1..Len(act[c].events)
        PROVE  /\ n > act[c].k => act[c].events[n].fd \in conns' \/ act[c].events[n].fd = state'.fd
               /\ /\ n >= act[c].k
                  /\ act[c].events[n].type \cap ErasingTypes # {}
                  /\ act[c].events[n].fd \in conns'
                  => ksock'[act[c].events[n].fd] \in Down \cup {"urgent"}
    BY <2>1, <2>3, <2>4 DEF BatchFresh, Inside
  <2> QED BY <2>3, <2>5, <2>6 DEF BatchFresh
<1>10. ASSUME EraseActiveSocket(c) PROVE BatchFresh'
  <2>1. /\ act[c].pc = "running" /\ ObsHandlerReturns(c) /\ m_mutex' = NoThread
        /\ conns' = conns \ {Current(c).fd} /\ Close({Current(c).fd} \cap conns)
        /\ UNCHANGED state
    BY <1>10 DEF EraseActiveSocket, CallsErase, InErase
  <2>2. conns \subseteq Fds
    BY DEF TypeOK
  <2>3. \A fd \in conns' : ksock'[fd] = ksock[fd]
    BY <2>1, <2>2, CloseStep DEF TypeOK, ServerTypeOK
  <2>4. act'[c].k = act[c].k /\ act[c].k \in 1..Len(act[c].events)
    BY <2>1, RunningServer DEF ObsHandlerReturns, ObsInv, ObsTypeOK, ActRecord
  <2>5. ASSUME NEW n \in 1..Len(act[c].events), n > act'[c].k, act[c].events[n].fd \in conns
        PROVE  act[c].events[n].fd \in conns'
    <3>1. n # act[c].k
      BY <2>4, <2>5
    <3>2. act[c].events[n].fd # Current(c).fd
      BY <2>4, <3>1 DEF BatchInv, Current
    <3> QED BY <2>1, <2>5, <3>2
  <2>6. ~HoldsAccepted(c)'
    BY <2>1 DEF HoldsAccepted
  <2> QED BY <1>4, <2>1, <2>3, <2>5, <2>6, FreshFrame
<1>11. ASSUME InProceed(c) PROVE BatchFresh'
  BY <1>5, <1>6, <1>7, <1>8, <1>9, <1>10, <1>11
     DEF InProceed, InEndpoint, HandOverRef, holdVars, serverVars
<1>12. ASSUME UNCHANGED <<act, m_mutex, state, conns>>,
              \A fd \in conns : ksock[fd] \in Down \cup {"urgent"} => ksock'[fd] \in Down \cup {"urgent"}
       PROVE  BatchFresh'
  BY <1>12 DEF BatchFresh, HoldsAccepted, Current
<1>13. CASE Network
  <2>1. UNCHANGED <<act, m_mutex, state, conns>>
    BY <1>13 DEF Network, PeerConnects, DatagramArrives, obsVars, serverVars, holdVars
  <2>2. CASE UNCHANGED ksock
    BY <1>12, <2>1, <2>2
  <2>3. ASSUME NEW fd \in Fds, PeerActs(fd) PROVE BatchFresh'
    <3>1. /\ \A other \in Fds \ {fd} : ksock'[other] = ksock[other]
          /\ ksock[fd] \in {"est", "urgent", "fin", "udp"}
          /\ ksock[fd] \in {"urgent", "fin"} => ksock'[fd] \in {"urgent", "fin", "reset"}
      BY <2>3, PeerStep DEF TypeOK, ServerTypeOK
    <3>2. conns \subseteq Fds
      BY DEF TypeOK
    <3> QED BY <1>12, <2>1, <3>1, <3>2 DEF Down
  <2> QED BY <1>13, <2>2, <2>3 DEF Network, PeerConnects, DatagramArrives, Arrive, PeerActs
<1>14. CASE UNCHANGED vars
  BY <1>12, <1>14 DEF vars, obsVars, kernelVars, serverVars, holdVars
<1> QED BY <1>1, <1>2, <1>3, <1>11, <1>13, <1>14 DEF Next

\* Where peers send no urgent data, no socket has any: accept() finds none, and
\* no step brings any (server.tpp:120).
LEMMA CalmStep ==
    ASSUME ServerInv, Calm, [Next]_vars
    PROVE  Calm'
<1> USE ServerAssumption DEF ServerInv
<1>1. ASSUME ksock' = ksock PROVE Calm'
  BY <1>1 DEF Calm
<1>2. ASSUME NEW fds \in SUBSET Fds, Close(fds) PROVE Calm'
  BY <1>2, CloseStep DEF Calm, TypeOK, ServerTypeOK
<1>3. CASE Start
  BY <1>3 DEF Start, Calm, TypeOK, ServerTypeOK, KernelTypeOK
<1>4. CASE InStart
  BY <1>1, <1>4 DEF InStart, RegisterCb, Listen, kernelVars
<1>5. CASE Destroy
  <2>1. Close({state.fd}) /\ state.fd \in Fds
    BY <1>5 DEF Destroy, Destroys, MutexInv
  <2> QED BY <1>2, <2>1
<1>6. ASSUME NEW t \in Threads, InProceed(t) PROVE Calm'
  <2>1. CASE Accept(t)
    <3>1. PICK fd \in Fds, st \in AcceptedStates : ksock' = [ksock EXCEPT ![fd] = st]
      BY <2>1 DEF Accept
    <3>2. UrgentData \/ st # "urgent"
      BY DEF AcceptedStates
    <3> QED BY <3>1, <3>2 DEF Calm, TypeOK, ServerTypeOK, KernelTypeOK
  <2>2. CASE EraseActiveSocket(t)
    BY <1>2, <2>2 DEF EraseActiveSocket, TypeOK
  <2>3. CASE ksock' = ksock
    BY <1>1, <2>3
  <2> QED BY <1>6, <2>1, <2>2, <2>3 DEF InProceed, InEndpoint, HandlerIgnores, AcceptFails,
           HandlerErases, HandOver, HandsOver, HandOverRef, HandsOverRef, kernelVars
<1>7. ASSUME NEW fd \in Fds, AppReads(fd) \/ AppDrops(fd) PROVE Calm'
  BY <1>1, <1>2, <1>7 DEF AppReads, AppDrops
<1>8. CASE Network
  <2>1. ASSUME NEW fd \in Fds, PeerActs(fd) PROVE Calm'
    BY <2>1, PeerCalm DEF TypeOK, ServerTypeOK
  <2> QED BY <1>1, <1>8, <2>1 DEF Network, PeerConnects, DatagramArrives, Arrive, PeerActs
<1>9. CASE \/ AppDropsRef \/ UNCHANGED vars \/ \E t \in Threads : Poll(t)
  BY <1>1, <1>9 DEF AppDropsRef, Poll, vars, kernelVars
<1> QED BY <1>3, <1>4, <1>5, <1>6, <1>7, <1>8, <1>9 DEF Next

\* A server that one thread polls, and whose peers send no urgent data, calls
\* erase_active_socket for terminated connections only, for any number of
\* descriptors and peers and however the numbers are reused (server.h:30,
\* server.tpp:99-108).  The run server_pollers shows that one thread is
\* needed; urgent data would run the same handler (server.tpp:108).
THEOREM OnePollerErasesTerminated ==
    ASSUME Threads = {Controller}, ~UrgentData
    PROVE  Spec => []OnlyTerminatedErased
<1>1. Init => BatchFresh /\ Calm
  BY ServerAssumption DEF Init, ServerInit, ObsInit, Outside, BatchFresh, KernelInit, Calm
<1>2. ServerInv /\ ServerInv' /\ BatchFresh /\ Calm /\ [Next]_vars => BatchFresh' /\ Calm'
  BY FreshStep, CalmStep
<1>3. ServerInv /\ BatchFresh /\ Calm => OnlyTerminatedErased
  <2> SUFFICES ASSUME ServerInv, BatchFresh, Calm, NEW t \in Threads, InErase(t),
                      Current(t).fd \in conns
      PROVE  ksock[Current(t).fd] \in Down
    BY DEF OnlyTerminatedErased
  <2>1. /\ act[t].k \in 1..Len(act[t].events) /\ Current(t).type \cap ErasingTypes # {}
        /\ act[t].k >= act[t].k
    BY RunningServer DEF ServerInv, InErase
  <2>2. ksock[Current(t).fd] \in Down \cup {"urgent"}
    BY <2>1 DEF BatchFresh, InErase, Current
  <2>3. Current(t).fd \in Fds
    BY DEF ServerInv, TypeOK
  <2> QED BY <2>2, <2>3 DEF Calm
<1> QED BY <1>1, <1>2, <1>3, ServerInvariant, PTL DEF Spec
==============================================================================
