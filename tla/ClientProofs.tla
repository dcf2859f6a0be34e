---------------------------- MODULE ClientProofs ----------------------------
(***************************************************************************)
(* Theorems of client_t, for any number of pollers and descriptors and any *)
(* bounds on the calls.                                                    *)
(***************************************************************************)
EXTENDS Client, EndpointLemmas

\* Every step of the client is a step of its observer, or none.
LEMMA ClientObsInv ==
    ASSUME ObsInv, EpollTypeOK, KernelTypeOK, ClientTypeOK, [Next]_vars
    PROVE  ObsInv'
<1>1. CASE UNCHANGED obsVars
  BY <1>1, ObsStutterInv
<1>2. CASE RegisterCb
  <2>1. RegisterOrder[op.n] \in Keys /\ HandlerFor(RegisterOrder[op.n]) \in Handlers
    BY ClientAssumption DEF ClientTypeOK, OpTypeOK, RegisterOrder, Keys, EventType, HandlerFor
  <2> QED BY <1>2, <2>1, AddInv DEF RegisterCb
<1>3. CASE UnregisterCb
  <2>1. RegisterOrder[op.n] \in Keys
    BY DEF ClientTypeOK, OpTypeOK, RegisterOrder, Keys, EventType
  <2> QED BY <1>3, <2>1, RemoveInv DEF UnregisterCb
<1>4. ASSUME NEW t \in Pollers, Poll(t) PROVE ObsInv'
  BY <1>4, TakenEvents, PollInv, ClientAssumption DEF Poll
<1>5. ASSUME NEW t \in Pollers, InProceed(t), ~UNCHANGED obsVars PROVE ObsInv'
  <2>1. t \in Threads
    BY ClientAssumption
  <2>2. ObsStep(t) \/ ObsHandlerReturns(t) \/ ObsHandlerThrows(t)
    BY <1>5 DEF InProceed, HandlerIgnores, HandlerMatches, HandlerFindsNone,
                HandlerFindsSome, HandlerCallsEmpty, HandlerCalls, CallbackReturns,
                CallbackThrows
  <2> QED BY <2>1, <2>2, StepInv, HandlerReturnsInv, HandlerThrowsInv
<1>6. ASSUME \/ Control \/ WatchSocket \/ StoreSocket \/ MoveSocket \/ SetRemote
             \/ SetCallback \/ AssignActive \/ Network \/ UNCHANGED vars
      PROVE  UNCHANGED obsVars
  BY <1>6 DEF Control, Start, Stop, ConnectReturnsFalse, ConnectSocket, ConnectActive,
              WatchSocket, StoreSocket, MoveSocket, SetRemote, SetCallback, AssignActive,
              Network, vars
<1> QED BY <1>1, <1>2, <1>3, <1>4, <1>5, <1>6 DEF Next, InControl

------------------------------------------------------------------------------
(* Types.                                                                   *)
\* The handler a poller runs is one of the three, and has its callback.
LEMMA RunningHandler ==
    ASSUME ObsInv, NEW t \in Threads, act[t].pc = "running"
    PROVE  /\ act[t].cur \in {"erase", "read", "write"}
           /\ HandledCb(t) \in Callbacks
           /\ Current(t) \in Event
<1>1. act[t].cur \in Handlers \cup {NoHandler} /\ act[t].cur # NoHandler
  BY DEF ObsInv, ObsTypeOK, ActRecord, RecordInv, Running
<1>2. act[t].cur \in {"erase", "read", "write"}
  BY <1>1, ClientAssumption
<1>3. act[t].events \in Seq(Event) /\ act[t].k \in 1..Len(act[t].events)
  BY DEF ObsInv, ObsTypeOK, ActRecord, RecordInv, Place
<1> QED BY <1>2, <1>3 DEF HandledCb, CallbackOf, Callbacks, Current

\* Noting a call keeps the type of the history.
LEMMA NotedType ==
    ASSUME ClientTypeOK, NEW s \in Sessions, NEW c \in Callbacks
    PROVE  /\ Noted(s, c) \in [Sessions -> [connects : 0..2, disconnects : 0..2,
                                            last : Callbacks \cup {"none"}]]
           /\ \A u \in Sessions \ {s} : Noted(s, c)[u] = calls[u]
           /\ Noted(s, c)[s].connects =
                 IF c = "connect" THEN More(calls[s].connects) ELSE calls[s].connects
           /\ Noted(s, c)[s].disconnects =
                 IF c = "disconnect" THEN More(calls[s].disconnects)
                                     ELSE calls[s].disconnects
<1>1. calls[s].connects \in 0..2 /\ calls[s].disconnects \in 0..2
  BY DEF ClientTypeOK, OpTypeOK
<1>2. More(calls[s].connects) \in 0..2 /\ More(calls[s].disconnects) \in 0..2
  BY <1>1 DEF More
<1> QED BY <1>1, <1>2 DEF Noted, ClientTypeOK, OpTypeOK

\* So does taking back a call that threw.
LEMMA RetractedType ==
    ASSUME ClientTypeOK, NEW s, NEW c \in Callbacks
    PROVE  /\ Retracted(s, c) \in [Sessions -> [connects : 0..2, disconnects : 0..2,
                                                last : Callbacks \cup {"none"}]]
           /\ \A u \in Sessions \ {s} : Retracted(s, c)[u] = calls[u]
           /\ s \in Sessions =>
                 /\ Retracted(s, c)[s].connects =
                       IF c = "connect" THEN Fewer(calls[s].connects) ELSE calls[s].connects
                 /\ Retracted(s, c)[s].disconnects =
                       IF c = "disconnect" THEN Fewer(calls[s].disconnects)
                                           ELSE calls[s].disconnects
           /\ c = "read" => Retracted(s, c) = calls
<1>1. \A u \in Sessions : calls[u] \in [connects : 0..2, disconnects : 0..2,
                                        last : Callbacks \cup {"none"}]
  BY DEF ClientTypeOK, OpTypeOK
<1>2. \A u \in Sessions : Fewer(calls[u].connects) \in 0..2 /\ Fewer(calls[u].disconnects) \in 0..2
  BY <1>1 DEF Fewer
<1> QED BY <1>1, <1>2 DEF Retracted, ClientTypeOK, OpTypeOK

\* The variables of epoll, of the kernel and of the client keep their types.
LEMMA ClientTypeInv ==
    ASSUME ObsInv, EpollTypeOK, KernelTypeOK, ClientTypeOK, [Next]_vars
    PROVE  EpollTypeOK' /\ KernelTypeOK' /\ ClientTypeOK'
<1> USE ClientAssumption
<1>1. CASE \E bound \in BOOLEAN : Start(bound)
  BY <1>1 DEF Start, StartedKind, EpollTypeOK, KernelTypeOK, ClientTypeOK, OpTypeOK, epollVars,
              SockState
<1>2. CASE Stop
  BY <1>2 DEF Stop, del_socket, Unwatch, Close, NoOp, EpollTypeOK, KernelTypeOK,
              ClientTypeOK, OpTypeOK, SockState
<1>3. CASE ConnectReturnsFalse
  BY <1>3 DEF ConnectReturnsFalse, EpollTypeOK, KernelTypeOK, ClientTypeOK, OpTypeOK, epollVars,
              kernelVars
<1>4. CASE ConnectSocket
  <2>1. EpollTypeOK' /\ KernelTypeOK'
    BY <1>4 DEF ConnectSocket, EpollTypeOK, KernelTypeOK, epollVars, SockState
  <2>2. op' = [pc |-> "moving", fd |-> state.fd, kind |-> "active", n |-> 1]
    BY <1>4 DEF ConnectSocket, NoOp
  <2>3. OpTypeOK'
    BY <2>2 DEF OpTypeOK, ClientTypeOK
  <2>4. ClientTypeOK'
    BY <1>4, <2>3 DEF ConnectSocket, ClientTypeOK
  <2> QED BY <2>1, <2>4
<1>5. CASE ConnectActive
  BY <1>5 DEF ConnectActive, NoOp, EpollTypeOK, KernelTypeOK, ClientTypeOK, OpTypeOK, epollVars,
              kernelVars
<1>6. CASE RegisterCb
  BY <1>6 DEF RegisterCb, RegisterOrder, EpollTypeOK, KernelTypeOK, ClientTypeOK, OpTypeOK,
              epollVars, kernelVars
<1>7. CASE WatchSocket
  <2>1. op.fd \in Fds /\ flags_from_op("READ_WRITE") \in SUBSET Flag
    BY <1>7 DEF WatchSocket, ClientTypeOK, OpTypeOK, flags_from_op, Flag
  <2> DEFINE flags == flags_from_op("READ_WRITE")
  <2> HIDE DEF flags
  <2>2. EpollTypeOK'
    <3>1. CASE interest[op.fd] # {}
      BY <1>7, <3>1 DEF WatchSocket, add_socket, EpollTypeOK, epollVars
    <3>2. CASE interest[op.fd] = {}
      <4>1. interest' = [interest EXCEPT ![op.fd] = flags]
        BY <1>7, <3>2 DEF WatchSocket, add_socket, flags
      <4>2. ready' \subseteq ready \cup {op.fd}
        BY <1>7, <3>2 DEF WatchSocket, add_socket
      <4>3. interest' \in [Fds -> SUBSET Flag]
        BY <2>1, <4>1 DEF EpollTypeOK, flags
      <4> QED BY <2>1, <4>2, <4>3 DEF EpollTypeOK
    <3> QED BY <3>1, <3>2
  <2>3. KernelTypeOK' /\ ClientTypeOK'
    BY <1>7 DEF WatchSocket, KernelTypeOK, ClientTypeOK, OpTypeOK, kernelVars
  <2> QED BY <2>2, <2>3
<1>8. CASE StoreSocket
  <2>1. EpollTypeOK' /\ KernelTypeOK'
    BY <1>8 DEF StoreSocket, Unwatch, Close, EpollTypeOK, KernelTypeOK, SockState
  <2>2. ClientTypeOK'
    BY <1>8 DEF StoreSocket, NoOp, ClientTypeOK, OpTypeOK
  <2> QED BY <2>1, <2>2
<1>9. CASE UnregisterCb
  BY <1>9 DEF UnregisterCb, NoOp, EpollTypeOK, KernelTypeOK, ClientTypeOK, OpTypeOK, epollVars,
              kernelVars
<1>10. CASE MoveSocket \/ SetRemote \/ SetCallback
  <2>1. EpollTypeOK' /\ KernelTypeOK'
    BY <1>10 DEF MoveSocket, SetRemote, SetCallback, EpollTypeOK, KernelTypeOK, epollVars,
                 kernelVars
  <2>2. CASE MoveSocket
    <3>1. OpTypeOK'
      BY <2>2 DEF MoveSocket, OpTypeOK, ClientTypeOK
    <3> QED BY <2>1, <2>2, <3>1 DEF MoveSocket, ClientTypeOK
  <2>3. CASE SetRemote
    <3>1. OpTypeOK'
      BY <2>3 DEF SetRemote, OpTypeOK, ClientTypeOK
    <3> QED BY <2>1, <2>3, <3>1 DEF SetRemote, ClientTypeOK
  <2>4. CASE SetCallback
    <3>1. PICK s \in FieldSources : cb' = [cb EXCEPT ![FieldOrder[op.n]] = s]
      BY <2>4 DEF SetCallback
    <3>2. s \in 0..MaxConnects
      BY DEF FieldSources, ClientTypeOK, OpTypeOK
    <3>3. cb' \in [Callbacks -> 0..MaxConnects]
      BY <3>1, <3>2 DEF ClientTypeOK, OpTypeOK
    <3>4. OpTypeOK'
      BY <2>4 DEF SetCallback, NoOp, OpTypeOK, ClientTypeOK
    <3> QED BY <2>1, <2>4, <3>3, <3>4 DEF SetCallback, ClientTypeOK
  <2> QED BY <1>10, <2>1, <2>2, <2>3, <2>4
<1>11. CASE AssignActive
  BY <1>11 DEF AssignActive, NoOp, EpollTypeOK, KernelTypeOK, ClientTypeOK, OpTypeOK, epollVars,
               kernelVars
<1>12. ASSUME NEW t \in Pollers, Poll(t)
       PROVE  EpollTypeOK' /\ KernelTypeOK' /\ ClientTypeOK'
  <2>1. KernelTypeOK' /\ ClientTypeOK'
    BY <1>12 DEF Poll, KernelTypeOK, ClientTypeOK, OpTypeOK, kernelVars, clientVars
  <2>2. EpollTypeOK'
    BY <1>12 DEF Poll, proceed, EpollTypeOK
  <2> QED BY <2>1, <2>2
<1>13. ASSUME NEW t \in Pollers, InProceed(t)
       PROVE  EpollTypeOK' /\ KernelTypeOK' /\ ClientTypeOK'
  <2>1. CASE UNCHANGED <<epollVars, kernelVars, clientVars>>
    BY <2>1 DEF EpollTypeOK, KernelTypeOK, ClientTypeOK, OpTypeOK, epollVars, kernelVars, clientVars
  <2>2. CASE HandlerMatches(t)
    <3>1. KernelTypeOK' /\ ClientTypeOK'
      BY <2>2 DEF HandlerMatches, HandlerLocks, KernelTypeOK, ClientTypeOK, OpTypeOK, kernelVars
    <3>2. CASE act[t].cur = "erase"
      BY <2>2, <3>1, <3>2, UnwatchStep DEF HandlerMatches, del_socket
    <3>3. CASE act[t].cur # "erase"
      BY <2>2, <3>1, <3>3 DEF HandlerMatches, EpollTypeOK, epollVars
    <3> QED BY <3>2, <3>3
  <2>3. CASE HandlerFindsNone(t) \/ HandlerFindsSome(t) \/ HandlerCallsEmpty(t)
    BY <2>3 DEF HandlerFindsNone, HandlerFindsSome, HandlerCallsEmpty, NoHandling,
                EpollTypeOK, KernelTypeOK, ClientTypeOK, OpTypeOK, epollVars, kernelVars
  <2>4. CASE HandlerCalls(t)
    <3>1. act[t].pc = "running" /\ t \in Threads
      BY <2>4 DEF HandlerCalls, HandlerAt
    <3> DEFINE c == HandledCb(t)
    <3>2. c \in Callbacks
      BY <3>1, RunningHandler
    <3> HIDE DEF c
    <3>3. cb[c] # 0 /\ calls' = Noted(cb[c], c) /\ handling' = [pc |-> "body", s |-> cb[c]]
      BY <2>4 DEF HandlerCalls, c
    <3>4. cb[c] \in Sessions /\ cb[c] \in 0..MaxConnects
      BY <3>2, <3>3 DEF ClientTypeOK, OpTypeOK, Sessions
    <3>5. calls' \in [Sessions -> [connects : 0..2, disconnects : 0..2,
                                   last : Callbacks \cup {"none"}]]
      BY <3>2, <3>3, <3>4, NotedType
    <3>6. ClientTypeOK'
      BY <2>4, <3>3, <3>4, <3>5 DEF HandlerCalls, ClientTypeOK, OpTypeOK
    <3>7. EpollTypeOK' /\ KernelTypeOK'
      BY <2>4 DEF HandlerCalls, EpollTypeOK, KernelTypeOK, epollVars, kernelVars
    <3> QED BY <3>6, <3>7
  <2>5. CASE CallbackReturns(t)
    <3>1. cb' \in [Callbacks -> 0..MaxConnects]
      BY <2>5 DEF CallbackReturns, ClientTypeOK, OpTypeOK
    <3>2. ClientTypeOK'
      BY <2>5, <3>1 DEF CallbackReturns, NoHandling, ClientTypeOK, OpTypeOK
    <3>3. EpollTypeOK' /\ KernelTypeOK'
      BY <2>5 DEF CallbackReturns, EpollTypeOK, KernelTypeOK, epollVars
    <3> QED BY <3>2, <3>3
  <2>6. CASE CallbackThrows(t)
    <3>1. HandledCb(t) \in Callbacks
      BY <2>6, RunningHandler DEF CallbackThrows, InCallback, HandlerAt
    <3>2. calls' \in [Sessions -> [connects : 0..2, disconnects : 0..2,
                                   last : Callbacks \cup {"none"}]]
      BY <2>6, <3>1, RetractedType DEF CallbackThrows
    <3> QED BY <2>6, <3>2 DEF CallbackThrows, NoHandling, EpollTypeOK, KernelTypeOK,
                              ClientTypeOK, OpTypeOK, epollVars, kernelVars
  <2> QED BY <1>13, <2>1, <2>2, <2>3, <2>4, <2>5, <2>6 DEF InProceed, HandlerIgnores
<1>14. CASE Network
  <2>1. PICK fd \in Fds : Establish(fd) \/ Refuse(fd) \/ Arrive(fd)
                           \/ UrgentArrives(fd) \/ PeerCloses(fd) \/ PeerResets(fd)
    BY <1>14 DEF Network
  <2>2. ready' \subseteq Fds /\ interest' = interest
    BY <2>1 DEF Establish, Refuse, Arrive, UrgentArrives, PeerCloses, PeerResets, Wake, EpollTypeOK
  <2>3. KernelTypeOK'
    BY <2>1 DEF Establish, Refuse, Arrive, UrgentArrives, PeerCloses, PeerResets,
                 KernelTypeOK, SockState
  <2>4. ClientTypeOK'
    BY <1>14 DEF Network, ClientTypeOK, OpTypeOK, clientVars
  <2> QED BY <2>2, <2>3, <2>4 DEF EpollTypeOK
<1>15. CASE UNCHANGED vars
  BY <1>15 DEF vars, EpollTypeOK, KernelTypeOK, ClientTypeOK, OpTypeOK, epollVars, kernelVars,
               clientVars
<1> QED BY <1>1, <1>2, <1>3, <1>4, <1>5, <1>6, <1>7, <1>8, <1>9, <1>10, <1>11, <1>12,
           <1>13, <1>14, <1>15 DEF Next, Control, InControl

------------------------------------------------------------------------------
(* m_mutex: the handlers' test of the descriptor makes stop() a barrier.    *)

\* Every step of client_t keeps LockInv: m_mutex is held by the operation that
\* locked it or by a running handler (client.tpp:12, 29, 55, 145, 162, 170).
LEMMA LockStep ==
    ASSUME TypeOK, ObsInv, LockInv, [Next]_vars
    PROVE  LockInv'
<1> USE ClientAssumption DEF LockedPcs, NoFd
<1>1. ASSUME UNCHANGED <<act, m_mutex, handling>>,
             op'.pc \in LockedPcs <=> op.pc \in LockedPcs,
             op' # NoOp => act[Controller].pc = "out",
             state'.kind = "idle" => state.kind = "idle" /\ state'.fd = NoFd,
             op'.pc \in {"register", "watch", "store"} => op'.kind # "idle"
      PROVE  LockInv'
  BY <1>1 DEF LockInv, StopIsBarrier, InCallback, HandlerAt
<1>2. CASE \E bound \in BOOLEAN : Start(bound)
  <2>1. op.pc = "none" /\ m_mutex = NoThread /\ act[Controller].pc = "out"
    BY <1>2 DEF Start, ControllerFree, NoOp
  <2>2. /\ op'.pc = "register" /\ op'.kind # "idle" /\ m_mutex' = Controller
        /\ UNCHANGED <<act, state, handling>>
    BY <1>2 DEF Start, StartedKind, obsVars
  <2>3. handling.pc = "none"
    BY <2>1 DEF LockInv
  <2> QED BY <2>1, <2>2, <2>3 DEF LockInv, StopIsBarrier, InCallback, HandlerAt
<1>3. CASE Stop
  <2>1. op.pc = "none" /\ m_mutex = NoThread /\ act[Controller].pc = "out"
    BY <1>3 DEF Stop, ControllerFree, NoOp
  <2>2. /\ op'.pc = "unregister" /\ m_mutex' = Controller /\ state'.fd = NoFd
        /\ UNCHANGED <<act, handling>>
    BY <1>3 DEF Stop, NoOp, obsVars
  <2>3. handling.pc = "none"
    BY <2>1 DEF LockInv
  <2> QED BY <2>1, <2>2, <2>3 DEF LockInv, StopIsBarrier, InCallback, HandlerAt
<1>4. CASE ConnectReturnsFalse \/ ConnectActive \/ ConnectSocket
  <2>1. /\ act[Controller].pc = "out" /\ op.pc = "none"
        /\ UNCHANGED <<act, m_mutex, handling, state>>
        /\ op'.pc \in {"none", "moving", "remote"}
    <3>1. CASE ConnectReturnsFalse
      BY <3>1 DEF ConnectReturnsFalse, ControllerFree, NoOp, obsVars
    <3>2. CASE ConnectActive
      BY <3>2 DEF ConnectActive, ControllerFree, NoOp, obsVars
    <3>3. CASE ConnectSocket
      BY <3>3 DEF ConnectSocket, ControllerFree, NoOp, obsVars
    <3> QED BY <1>4, <3>1, <3>2, <3>3
  <2> QED BY <1>1, <2>1 DEF LockInv
<1>5. CASE RegisterCb
  BY <1>1, <1>5 DEF RegisterCb, add, NoOp, LockInv, TypeOK, ClientTypeOK, OpTypeOK
<1>6. CASE WatchSocket
  BY <1>1, <1>6 DEF WatchSocket, obsVars, NoOp, LockInv, TypeOK, ClientTypeOK, OpTypeOK
<1>7. CASE MoveSocket
  <2>1. state.kind # "idle" \/ state'.kind = "idle"
    BY <1>7 DEF MoveSocket, TypeOK, ClientTypeOK, OpTypeOK
  <2>2. /\ op.pc = "moving" /\ op'.pc = "remote" /\ UNCHANGED <<act, m_mutex, handling>>
        /\ state'.fd = NoFd /\ state'.kind = state.kind
    BY <1>7 DEF MoveSocket, obsVars, TypeOK, ClientTypeOK, OpTypeOK
  <2>3. op # NoOp
    BY <2>2 DEF NoOp
  <2> QED BY <1>1, <2>2, <2>3 DEF LockInv
<1>8. CASE SetRemote
  <2>1. /\ op.pc = "remote" /\ op'.pc = "fields" /\ UNCHANGED <<act, m_mutex, handling, state>>
    BY <1>8 DEF SetRemote, obsVars, TypeOK, ClientTypeOK, OpTypeOK
  <2>2. op # NoOp
    BY <2>1 DEF NoOp
  <2> QED BY <1>1, <2>1, <2>2 DEF LockInv
<1>9. CASE SetCallback
  <2>1. /\ op.pc = "fields" /\ op'.pc \in {"fields", "assign", "none"}
        /\ UNCHANGED <<act, m_mutex, handling, state>>
    BY <1>9 DEF SetCallback, NoOp, obsVars, TypeOK, ClientTypeOK, OpTypeOK
  <2>2. op # NoOp
    BY <2>1 DEF NoOp
  <2> QED BY <1>1, <2>1, <2>2 DEF LockInv
<1>10. CASE AssignActive
  BY <1>1, <1>10 DEF AssignActive, obsVars, NoOp, LockInv
<1>11. ASSUME op.pc \in LockedPcs, op'.pc = "none", op' = NoOp, m_mutex' = NoThread,
              UNCHANGED <<act, handling>>, state'.kind = "idle" => state'.fd = NoFd
       PROVE  LockInv'
  <2>1. handling.pc = "none"
    BY <1>11 DEF LockInv
  <2> QED BY <1>11, <2>1 DEF LockInv, NoOp, StopIsBarrier, InCallback, HandlerAt
<1>12. CASE StoreSocket
  <2>1. op.pc = "store" /\ op.kind # "idle"
    BY <1>12 DEF StoreSocket, LockInv
  <2> QED BY <1>11, <1>12, <2>1 DEF StoreSocket, obsVars, NoOp
<1>13. CASE UnregisterCb
  <2>1. /\ op.pc = "unregister" /\ UNCHANGED <<act, handling, state>>
        /\ state.kind = "idle" => state.fd = NoFd
    BY <1>13 DEF UnregisterCb, remove, LockInv
  <2>2. CASE op.n < 5
    <3>1. op'.pc = "unregister" /\ UNCHANGED m_mutex
      BY <1>13, <2>2 DEF UnregisterCb, TypeOK, ClientTypeOK, OpTypeOK
    <3>2. op # NoOp
      BY <2>1 DEF NoOp
    <3> QED BY <1>1, <2>1, <3>1, <3>2 DEF LockInv
  <2>3. CASE ~(op.n < 5)
    BY <1>11, <1>13, <2>1, <2>3 DEF UnregisterCb, NoOp
  <2> QED BY <2>2, <2>3
<1>14. ASSUME NEW t \in Pollers, Poll(t) PROVE LockInv'
  <2>1. /\ \A u \in Threads \ {t} : act'[u] = act[u]
        /\ act[t].pc = "out" /\ act'[t].pc = "polled" /\ t \in Threads
    BY <1>14, PhaseSteps DEF Poll, TypeOK
  <2>2. UNCHANGED <<m_mutex, op, state, handling>>
    BY <1>14 DEF Poll, clientVars
  <2>3. t = Controller => op = NoOp
    BY <1>14 DEF Poll
  <2>4. op.pc \in LockedPcs <=> (m_mutex = Controller /\ act'[Controller].pc = "out")
    BY <2>1, <2>3 DEF LockInv, NoOp
  <2>5. m_mutex # NoThread => op.pc \in LockedPcs \/ act'[m_mutex].pc = "running"
    BY <2>1 DEF LockInv, TypeOK, ClientTypeOK, OpTypeOK
  <2> QED BY <2>1, <2>2, <2>3, <2>4, <2>5 DEF LockInv, StopIsBarrier, InCallback, HandlerAt
<1>15. ASSUME NEW t \in Pollers, ObsStep(t), UNCHANGED clientVars PROVE LockInv'
  <2>1. /\ \A u \in Threads \ {t} : act'[u] = act[u]
        /\ act[t].pc \notin {"out", "running"} /\ t \in Threads
    BY <1>15, PhaseSteps DEF TypeOK
  <2>2. UNCHANGED <<m_mutex, op, state, handling>>
    BY <1>15 DEF clientVars
  <2>3. m_mutex # t
    BY <2>1 DEF LockInv
  <2>4. t = Controller => op = NoOp
    BY <2>1 DEF LockInv
  <2>5. op.pc \in LockedPcs <=> (m_mutex = Controller /\ act'[Controller].pc = "out")
    BY <2>1, <2>3, <2>4 DEF LockInv, NoOp
  <2>6. m_mutex # NoThread => op.pc \in LockedPcs \/ act'[m_mutex].pc = "running"
    BY <2>1, <2>3 DEF LockInv, TypeOK, ClientTypeOK, OpTypeOK
  <2> QED BY <2>1, <2>2, <2>4, <2>5, <2>6 DEF LockInv, StopIsBarrier, InCallback, HandlerAt
<1>16. ASSUME NEW t \in Pollers, act[t].pc = "running", UNCHANGED <<act, op, state>>,
              m_mutex \in {t, NoThread}, m_mutex' = t, handling'.pc # "none",
              state.kind # "idle"
       PROVE  LockInv'
  <2>1. t \in Threads /\ t # NoThread
    OBVIOUS
  <2>2. op.pc \notin LockedPcs
    BY <1>16 DEF LockInv
  <2>3. ~(m_mutex' = Controller /\ act'[Controller].pc = "out")
    BY <1>16
  <2> QED BY <1>16, <2>1, <2>2, <2>3 DEF LockInv, StopIsBarrier
<1>17. ASSUME NEW t \in Pollers, HandlerMatches(t) PROVE LockInv'
  <2>1. act[t].pc = "running" /\ m_mutex = NoThread /\ m_mutex' = t
        /\ handling'.pc \in {"call", "test"} /\ UNCHANGED <<act, op, state>>
    BY <1>17 DEF HandlerMatches, HandlerLocks, obsVars
  <2>2. Current(t).fd \in Fds
    BY <2>1, RunningHandler DEF Event
  <2>3. state.kind # "idle"
    BY <1>17, <2>2 DEF HandlerMatches, get_fd, LockInv
  <2> QED BY <1>16, <2>1, <2>3
<1>18. ASSUME NEW t \in Pollers, HandlerFindsSome(t) \/ HandlerCalls(t) PROVE LockInv'
  <2>1. /\ act[t].pc = "running" /\ m_mutex = t /\ m_mutex' = t /\ handling.pc # "none"
        /\ UNCHANGED <<act, op, state>>
    BY <1>18 DEF HandlerFindsSome, HandlerCalls, HandlerAt, obsVars
  <2>2. handling'.pc \in {"call", "body"}
    BY <1>18 DEF HandlerFindsSome, HandlerCalls, TypeOK, ClientTypeOK, OpTypeOK
  <2>3. state.kind # "idle"
    BY <2>1 DEF LockInv
  <2> QED BY <1>16, <2>1, <2>2, <2>3
<1>19. ASSUME NEW t \in Pollers, m_mutex \in {t, NoThread}, m_mutex' = NoThread,
              handling'.pc = "none",
              ObsHandlerReturns(t) \/ ObsHandlerThrows(t), UNCHANGED <<op, state>>
       PROVE  LockInv'
  <2>1. /\ \A u \in Threads \ {t} : act'[u] = act[u]
        /\ act[t].pc = "running" /\ act'[t].pc = "serving" /\ t \in Threads
    BY <1>19, PhaseSteps DEF TypeOK
  <2>2. op.pc \notin LockedPcs
    BY <1>19, <2>1 DEF LockInv
  <2>3. op # NoOp => act'[Controller].pc = "out"
    BY <2>1 DEF LockInv
  <2> QED BY <1>19, <2>2, <2>3 DEF LockInv, StopIsBarrier, InCallback, HandlerAt
<1>20. ASSUME NEW t \in Pollers, InProceed(t) PROVE LockInv'
  <2>1. CASE HandlerIgnores(t)
    <3>1. m_mutex = NoThread /\ UNCHANGED <<m_mutex, handling, op, state>>
      BY <2>1 DEF HandlerIgnores, HandlerLocks, clientVars
    <3>2. act[t].pc = "running"
      BY <2>1 DEF HandlerIgnores, HandlerLocks
    <3>3. handling.pc = "none"
      BY <3>1 DEF LockInv
    <3> QED BY <1>19, <2>1, <3>1, <3>3 DEF HandlerIgnores
  <2>2. CASE HandlerFindsNone(t) \/ HandlerCallsEmpty(t) \/ CallbackReturns(t) \/ CallbackThrows(t)
    BY <1>19, <2>2 DEF HandlerFindsNone, HandlerCallsEmpty, CallbackReturns, CallbackThrows,
                       InCallback, HandlerAt, NoHandling
  <2> QED BY <1>15, <1>17, <1>18, <1>20, <2>1, <2>2 DEF InProceed
<1>21. CASE Network \/ UNCHANGED vars
  BY <1>21 DEF Network, vars, obsVars, clientVars, LockInv, NoOp, StopIsBarrier, InCallback,
               HandlerAt
<1> QED BY <1>2, <1>3, <1>4, <1>5, <1>6, <1>7, <1>8, <1>9, <1>10, <1>12, <1>13, <1>14, <1>20,
           <1>21 DEF Next, Control, InControl

------------------------------------------------------------------------------
(* m_remote is set before the socket becomes active.                        *)

\* Every step of client_t keeps RemoteInv (client.tpp:72-91).
LEMMA RemoteStep ==
    ASSUME TypeOK, RemoteInv, [Next]_vars
    PROVE  RemoteInv'
<1>1. connects \in Nat /\ m_remote \in Nat
  BY ClientAssumption DEF TypeOK, ClientTypeOK, OpTypeOK
<1>2. CASE \E bound \in BOOLEAN : Start(bound)
  BY <1>2 DEF Start, StartedKind, RemoteInv, ActiveHasRemote, UnlockedPcs
<1>3. CASE Stop
  BY <1>3 DEF Stop, NoOp, RemoteInv, ActiveHasRemote, UnlockedPcs
<1>4. CASE ConnectReturnsFalse \/ ConnectActive
  BY <1>1, <1>4 DEF ConnectReturnsFalse, ConnectActive, ControllerFree, NoOp, RemoteInv,
                    ActiveHasRemote, UnlockedPcs
<1>5. CASE ConnectSocket
  BY <1>1, <1>5 DEF ConnectSocket, NoOp, RemoteInv, ActiveHasRemote, UnlockedPcs, TypeOK,
                    ClientTypeOK, OpTypeOK
<1>6. CASE RegisterCb \/ WatchSocket
  BY <1>6 DEF RegisterCb, WatchSocket, RemoteInv, ActiveHasRemote, UnlockedPcs, TypeOK,
                    ClientTypeOK, OpTypeOK
<1>7. CASE StoreSocket
  BY <1>7 DEF StoreSocket, NoOp, RemoteInv, ActiveHasRemote, UnlockedPcs
<1>8. CASE UnregisterCb
  BY <1>8 DEF UnregisterCb, NoOp, RemoteInv, ActiveHasRemote, UnlockedPcs, TypeOK,
                    ClientTypeOK, OpTypeOK
<1>9. CASE MoveSocket \/ SetRemote
  BY <1>1, <1>9 DEF MoveSocket, SetRemote, RemoteInv, ActiveHasRemote, UnlockedPcs, TypeOK,
                    ClientTypeOK, OpTypeOK
<1>14. CASE SetCallback
  <2>1. /\ op.pc = "fields" /\ op'.pc \in {"fields", "assign", "none"}
        /\ UNCHANGED <<proto, state, m_remote, connects>>
    BY <1>14 DEF SetCallback, NoOp, TypeOK, ClientTypeOK, OpTypeOK
  <2> QED BY <2>1 DEF RemoteInv, ActiveHasRemote, UnlockedPcs
<1>10. CASE AssignActive
  BY <1>10 DEF AssignActive, NoOp, RemoteInv, ActiveHasRemote, UnlockedPcs
<1>11. ASSUME UNCHANGED <<proto, state, m_remote, op, connects>> PROVE RemoteInv'
  BY <1>11 DEF RemoteInv, ActiveHasRemote, UnlockedPcs
<1>12. ASSUME NEW t \in Pollers, Poll(t) \/ InProceed(t)
       PROVE  UNCHANGED <<proto, state, m_remote, op, connects>>
  BY <1>12 DEF Poll, InProceed, HandlerIgnores, HandlerMatches, HandlerFindsNone,
               HandlerFindsSome, HandlerCallsEmpty, HandlerCalls, CallbackReturns,
               CallbackThrows, clientVars
<1>13. CASE Network \/ UNCHANGED vars
  BY <1>11, <1>13 DEF Network, vars, clientVars
<1> QED BY <1>2, <1>3, <1>4, <1>5, <1>6, <1>7, <1>8, <1>9, <1>10, <1>11, <1>12, <1>13, <1>14
        DEF Next, Control, InControl

------------------------------------------------------------------------------
(* The conjunction is inductive.                                            *)

\* A new client satisfies the invariants.
LEMMA ClientInit ==
    Init => ObsInv /\ TypeOK /\ LockInv /\ RemoteInv
<1> SUFFICES ASSUME Init PROVE ObsInv /\ TypeOK /\ LockInv /\ RemoteInv
  OBVIOUS
<1> USE ClientAssumption
<1>1. ObsInv
  BY ObsInitInv DEF Init
<1>2. EpollTypeOK /\ KernelTypeOK
  BY DEF Init, EpollInit, KernelInit, EpollTypeOK, KernelTypeOK, SockState
<1>3. ClientTypeOK
  BY DEF Init, NoOp, NoHandling, Silent, Callbacks, ClientTypeOK, OpTypeOK
<1>4. TypeOK
  BY <1>1, <1>2, <1>3 DEF TypeOK, ObsInv
<1>5. act[Controller].pc = "out"
  BY DEF Init, ObsInit, Outside
<1>6. LockInv
  BY <1>5 DEF Init, NoOp, NoHandling, LockedPcs, LockInv, StopIsBarrier, InCallback, HandlerAt
<1>7. RemoteInv
  BY DEF Init, NoOp, RemoteInv, ActiveHasRemote, UnlockedPcs
<1> QED BY <1>1, <1>4, <1>6, <1>7

\* Every step of the system preserves the invariants.
LEMMA ClientNext ==
    ASSUME ObsInv, TypeOK, LockInv, RemoteInv, [Next]_vars
    PROVE  ObsInv' /\ TypeOK' /\ LockInv' /\ RemoteInv'
<1>1. ObsInv'
  BY ClientObsInv DEF TypeOK
<1>2. TypeOK'
  BY <1>1, ClientTypeInv DEF TypeOK, ObsInv
<1> QED BY <1>1, <1>2, LockStep, RemoteStep

\* The invariants of the observer hold inside the client, together with the
\* client's own.
THEOREM ClientInvariant == Spec => [](ObsInv /\ TypeOK /\ LockInv /\ RemoteInv)
<1>1. Init => ObsInv /\ TypeOK /\ LockInv /\ RemoteInv
  BY ClientInit
<1>2. ObsInv /\ TypeOK /\ LockInv /\ RemoteInv /\ [Next]_vars
        => (ObsInv /\ TypeOK /\ LockInv /\ RemoteInv)'
  BY ClientNext
<1> QED BY <1>1, <1>2, PTL DEF Spec

\* The fields of the client keep their types (client.h:79-83).
THEOREM ClientTypes == Spec => []TypeOK
BY ClientInvariant, PTL

\* Once stop() has emptied the endpoint no callback runs
\* (client.tpp:53-61, 145-146, 162-163, 170-171).
THEOREM StopQuiesces == Spec => []StopIsBarrier
<1>1. LockInv => StopIsBarrier
  BY DEF LockInv
<1> QED BY <1>1, ClientInvariant, PTL

\* recv_impl never dereferences an empty m_remote (client.tpp:86-87, 228).
THEOREM RemoteIsKnown == Spec => []ActiveHasRemote
<1>1. RemoteInv => ActiveHasRemote
  BY DEF RemoteInv
<1> QED BY <1>1, ClientInvariant, PTL

------------------------------------------------------------------------------
(* on_connect and on_disconnect run at most once: the assignment of nullptr *)
(* after the call is reached before m_mutex is free, and what it discards   *)
(* may only be the function of a later connect().                           *)

\* OnceInv is kept by a step that calls and stores no callback and ends none.
LEMMA OnceFrame ==
    ASSUME OnceInv, UNCHANGED <<cb, calls>>, connects' \in Nat, connects \in Nat,
           \A c \in Callbacks : cb[c] \in Nat,
           \/ connects' = connects /\ \A c \in Callbacks : Due(c)' => Due(c)
           \/ connects' = connects + 1,
           \A c \in {"connect", "disconnect"}, s \in Nat : Executes(c, s) => Executes(c, s)'
    PROVE  OnceInv'
<1> USE DEF Callbacks
<1>1. CalledAtMostOnce'
  BY DEF OnceInv, CalledAtMostOnce
<1>2. \A c \in Callbacks : cb'[c] <= connects' /\ (Due(c)' => cb'[c] < connects')
  BY DEF OnceInv
<1>3. ASSUME NEW s \in Sessions
      PROVE  /\ s > connects' \/ (s = connects' /\ Due("connect")') => calls'[s].connects = 0
             /\ s > connects' \/ (s = connects' /\ Due("disconnect")') => calls'[s].disconnects = 0
  <2>1. s \in Nat
    BY ClientAssumption DEF Sessions
  <2> QED BY <2>1 DEF OnceInv
<1>4. /\ cb'["connect"] # 0 /\ calls'[cb'["connect"]].connects # 0 =>
            Executes("connect", cb["connect"])'
      /\ cb'["disconnect"] # 0 /\ calls'[cb'["disconnect"]].disconnects # 0 =>
            Executes("disconnect", cb["disconnect"])'
  BY DEF OnceInv
<1> QED BY <1>1, <1>2, <1>3, <1>4 DEF OnceInv

\* Every step keeps OnceInv: the callback is emptied before m_mutex is
\* released, or stays because it threw (client.tpp:74-77, 149-153, 173-177).
LEMMA OnceStep ==
    ASSUME TypeOK, ObsInv, LockInv, OnceInv, [Next]_vars
    PROVE  OnceInv'
<1> USE ClientAssumption
<1>1. connects \in Nat /\ \A c \in Callbacks : cb[c] \in Nat
  BY DEF TypeOK, ClientTypeOK
<1>2. ASSUME UNCHANGED <<act, m_mutex, handling, cb, calls, connects>>,
             \A c \in Callbacks : Due(c)' => Due(c)
      PROVE  OnceInv'
  BY <1>1, <1>2, OnceFrame DEF Executes, HandledCb
<1>3. ASSUME handling.pc # "body", UNCHANGED <<cb, calls, connects>>,
             \A c \in Callbacks : Due(c)' => Due(c)
      PROVE  OnceInv'
  BY <1>1, <1>3, OnceFrame DEF Executes
<1>4. ASSUME op'.pc \notin {"moving", "remote", "fields"}
      PROVE  \A c \in Callbacks : Due(c)' => Due(c)
  BY <1>4 DEF Due
<1>5. m_mutex = NoThread \/ op.pc \in LockedPcs => handling.pc = "none"
  BY DEF LockInv, TypeOK, ClientTypeOK
<1>6. CASE \E bound \in BOOLEAN : Start(bound)
  <2>1. m_mutex = NoThread /\ UNCHANGED <<cb, calls, connects>> /\ op'.pc = "register"
    BY <1>6 DEF Start
  <2> QED BY <1>3, <1>4, <1>5, <2>1
<1>7. CASE Stop
  <2>1. m_mutex = NoThread /\ UNCHANGED <<cb, calls, connects>> /\ op'.pc = "unregister"
    BY <1>7 DEF Stop, NoOp
  <2> QED BY <1>3, <1>4, <1>5, <2>1
<1>8. CASE ConnectReturnsFalse \/ ConnectActive \/ ConnectSocket
  <2>1. connects' = connects + 1 /\ UNCHANGED <<act, m_mutex, handling, cb, calls>>
    BY <1>8 DEF ConnectReturnsFalse, ConnectActive, ConnectSocket, obsVars
  <2> QED BY <1>1, <2>1, OnceFrame DEF Executes, HandledCb
<1>9. CASE RegisterCb
  <2>1. /\ UNCHANGED <<act, m_mutex, handling, cb, calls, connects>>
        /\ op'.pc \in {"register", "watch"}
    BY <1>9 DEF RegisterCb, add, TypeOK, ClientTypeOK, OpTypeOK
  <2> QED BY <1>2, <1>4, <2>1
<1>10. CASE WatchSocket \/ AssignActive
  <2>1. /\ UNCHANGED <<act, m_mutex, handling, cb, calls, connects>>
        /\ op'.pc \in {"store", "none"}
    BY <1>10 DEF WatchSocket, AssignActive, NoOp, obsVars, TypeOK, ClientTypeOK, OpTypeOK
  <2> QED BY <1>2, <1>4, <2>1
<1>11. CASE StoreSocket
  <2>1. op.pc = "store" /\ UNCHANGED <<cb, calls, connects>> /\ op'.pc = "none"
    BY <1>11 DEF StoreSocket, NoOp
  <2> QED BY <1>3, <1>4, <1>5, <2>1 DEF LockedPcs
<1>12. CASE UnregisterCb
  <2>1. /\ op.pc = "unregister" /\ UNCHANGED <<cb, calls, connects>>
        /\ op'.pc \in {"unregister", "none"}
    BY <1>12 DEF UnregisterCb, NoOp, TypeOK, ClientTypeOK, OpTypeOK
  <2> QED BY <1>3, <1>4, <1>5, <2>1 DEF LockedPcs
<1>13. CASE MoveSocket \/ SetRemote
  <2>1. /\ UNCHANGED <<act, m_mutex, handling, cb, calls, connects>>
        /\ op.pc \in {"moving", "remote"}
    BY <1>13 DEF MoveSocket, SetRemote, obsVars
  <2> QED BY <1>2, <2>1 DEF Due
<1>14. CASE SetCallback
  <2>1. /\ op.pc = "fields" /\ op.n \in 1..3
        /\ UNCHANGED <<act, m_mutex, handling, calls, connects>>
        /\ op' = IF op.n < 3 THEN [op EXCEPT !.n = @ + 1]
                 ELSE IF op.kind = "active" THEN [op EXCEPT !.pc = "assign"] ELSE NoOp
    BY <1>14 DEF SetCallback, obsVars, TypeOK, ClientTypeOK, OpTypeOK
  <2> DEFINE w == FieldOrder[op.n]
  <2>2. PICK s \in FieldSources : cb' = [cb EXCEPT ![w] = s]
    BY <1>14 DEF SetCallback
  <2>3. /\ w \in Callbacks /\ FieldPlace[w] = op.n
        /\ \A c \in Callbacks : FieldPlace[c] = op.n => c = w
    BY <2>1 DEF FieldOrder, FieldPlace, Callbacks
  <2>4. Due("disconnect") /\ (w = "connect" => Due("connect")) /\ Due(w)
    BY <2>1, <2>3 DEF Due, FieldPlace
  <2>5. ASSUME NEW c \in Callbacks, Due(c)' PROVE Due(c) /\ c # w
    <3>1. op.n < 3 /\ op'.n = op.n + 1
      BY <2>1, <2>5 DEF Due, NoOp, TypeOK, ClientTypeOK, OpTypeOK
    <3>2. op'.pc = "fields"
      BY <2>1, <3>1 DEF TypeOK, ClientTypeOK, OpTypeOK
    <3>3. FieldPlace[c] \in Nat
      BY DEF FieldPlace, Callbacks
    <3> QED BY <2>1, <2>3, <2>5, <3>1, <3>2, <3>3 DEF Due
  <2>6. /\ cb'[w] = s /\ s \in {connects, 0}
        /\ \A c \in Callbacks : c # w => cb'[c] = cb[c]
    BY <2>2, <2>3 DEF FieldSources, TypeOK, ClientTypeOK
  <2> HIDE DEF w
  <2>7. \A c \in Callbacks : cb'[c] <= connects /\ (Due(c)' => cb'[c] < connects)
    BY <1>1, <2>5, <2>6 DEF OnceInv
  <2>8. \A c, u : Executes(c, u) => Executes(c, u)'
    BY <2>1 DEF Executes, HandledCb
  <2>9. s # 0 => s \in Sessions
    BY <1>1, <2>6 DEF Sessions, TypeOK, ClientTypeOK
  <2>10. /\ cb'["connect"] # 0 /\ calls[cb'["connect"]].connects # 0 =>
               Executes("connect", cb'["connect"])
         /\ cb'["disconnect"] # 0 /\ calls[cb'["disconnect"]].disconnects # 0 =>
               Executes("disconnect", cb'["disconnect"])
    <3>1. s # 0 /\ w = "connect" => calls[s].connects = 0
      BY <2>4, <2>6, <2>9 DEF OnceInv
    <3>2. s # 0 /\ w = "disconnect" => calls[s].disconnects = 0
      BY <2>4, <2>6, <2>9 DEF OnceInv
    <3>3. CASE w = "connect"
      BY <2>6, <3>1, <3>3 DEF OnceInv, Callbacks
    <3>4. CASE w = "disconnect"
      BY <2>6, <3>2, <3>4 DEF OnceInv, Callbacks
    <3>5. CASE w = "read"
      BY <2>6, <3>5 DEF OnceInv, Callbacks
    <3> QED BY <2>3, <3>3, <3>4, <3>5 DEF Callbacks
  <2>11. \A u \in Sessions :
            /\ u > connects \/ (u = connects /\ Due("connect")') => calls[u].connects = 0
            /\ u > connects \/ (u = connects /\ Due("disconnect")') => calls[u].disconnects = 0
    BY <2>5 DEF OnceInv, Callbacks
  <2>12. /\ cb'["connect"] # 0 /\ calls'[cb'["connect"]].connects # 0 =>
               Executes("connect", cb["connect"])'
         /\ cb'["disconnect"] # 0 /\ calls'[cb'["disconnect"]].disconnects # 0 =>
               Executes("disconnect", cb["disconnect"])'
    BY <2>1, <2>10 DEF Executes, HandledCb
  <2> QED BY <2>1, <2>7, <2>11, <2>12 DEF OnceInv, CalledAtMostOnce
<1>15. ASSUME NEW t \in Pollers, HandlerCalls(t) PROVE OnceInv'
  <2>1. /\ act[t].pc = "running" /\ m_mutex = t /\ handling.pc = "call" /\ t \in Threads
        /\ UNCHANGED <<act, cb, op, connects, m_mutex>>
    BY <1>15 DEF HandlerCalls, HandlerAt, obsVars
  <2>2. PICK c \in Callbacks : c = HandledCb(t)
    BY <2>1, RunningHandler
  <2>3. PICK s \in Sessions : s = cb[c]
    BY <1>15, <2>2 DEF HandlerCalls, TypeOK, ClientTypeOK, Sessions
  <2>4. calls' = Noted(s, c) /\ handling' = [pc |-> "body", s |-> s] /\ s \in Nat
    BY <1>15, <2>2, <2>3 DEF HandlerCalls, Sessions
  <2>5. /\ \A u \in Sessions \ {s} : calls'[u] = calls[u]
        /\ calls'[s].connects =
              IF c = "connect" THEN More(calls[s].connects) ELSE calls[s].connects
        /\ calls'[s].disconnects =
              IF c = "disconnect" THEN More(calls[s].disconnects) ELSE calls[s].disconnects
    BY <2>4, NotedType DEF TypeOK
  <2>6. \A d, u : ~Executes(d, u)
    BY <2>1 DEF Executes
  <2>7. /\ c = "connect" => calls[s].connects = 0
        /\ c = "disconnect" => calls[s].disconnects = 0
        /\ cb["connect"] # 0 => calls[cb["connect"]].connects = 0
        /\ cb["disconnect"] # 0 => calls[cb["disconnect"]].disconnects = 0
    BY <2>3, <2>4, <2>6 DEF OnceInv, Sessions
  <2>8. Executes(c, s)'
    BY <2>1, <2>2, <2>4 DEF Executes, HandledCb
  <2>9. s <= connects /\ (Due(c) => s < connects)
    BY <2>3 DEF OnceInv
  <2>10. CalledAtMostOnce'
    <3>1. \A u \in Sessions : calls[u].connects <= 1 /\ calls[u].disconnects <= 1
      BY DEF OnceInv, CalledAtMostOnce
    <3>2. calls'[s].connects <= 1 /\ calls'[s].disconnects <= 1
      BY <2>4, <2>5, <2>7, <3>1 DEF More
    <3> QED BY <2>5, <3>1, <3>2 DEF CalledAtMostOnce
  <2>11. \A d \in Callbacks : Due(d)' <=> Due(d)
    BY <2>1 DEF Due
  <2>12. ASSUME NEW u \in Sessions
         PROVE  /\ u > connects \/ (u = connects /\ Due("connect")) => calls'[u].connects = 0
                /\ u > connects \/ (u = connects /\ Due("disconnect")) =>
                      calls'[u].disconnects = 0
    <3>1. /\ u > connects \/ (u = connects /\ Due("connect")) => calls[u].connects = 0
          /\ u > connects \/ (u = connects /\ Due("disconnect")) => calls[u].disconnects = 0
      BY DEF OnceInv
    <3>2. u > connects => u # s
      BY <1>1, <2>4, <2>9 DEF Sessions
    <3>3. u = connects /\ Due(c) => u # s
      BY <1>1, <2>4, <2>9 DEF Sessions
    <3> QED BY <2>5, <3>1, <3>2, <3>3
  <2>13. cb["connect"] # 0 /\ calls'[cb["connect"]].connects # 0 =>
             Executes("connect", cb["connect"])'
    <3>1. CASE c = "connect"
      BY <2>1, <2>3, <2>8, <3>1
    <3>2. CASE c # "connect"
      <4>1. cb["connect"] # 0 => cb["connect"] \in Sessions
        BY DEF TypeOK, ClientTypeOK, Sessions, Callbacks
      <4> QED BY <2>5, <2>7, <3>2, <4>1
    <3> QED BY <3>1, <3>2
  <2>14. cb["disconnect"] # 0 /\ calls'[cb["disconnect"]].disconnects # 0 =>
             Executes("disconnect", cb["disconnect"])'
    <3>1. CASE c = "disconnect"
      BY <2>1, <2>3, <2>8, <3>1
    <3>2. CASE c # "disconnect"
      <4>1. cb["disconnect"] # 0 => cb["disconnect"] \in Sessions
        BY DEF TypeOK, ClientTypeOK, Sessions, Callbacks
      <4> QED BY <2>5, <2>7, <3>2, <4>1
    <3> QED BY <3>1, <3>2
  <2>15. \A d \in Callbacks : cb'[d] <= connects' /\ (Due(d)' => cb'[d] < connects')
    BY <2>1, <2>11 DEF OnceInv
  <2>16. "connect" \in Callbacks /\ "disconnect" \in Callbacks
    BY DEF Callbacks
  <2> QED BY <2>1, <2>10, <2>11, <2>12, <2>13, <2>14, <2>15, <2>16 DEF OnceInv
<1>16. ASSUME NEW t \in Pollers, InCallback(t), UNCHANGED <<op, connects>>,
              \A c \in Callbacks : cb'[c] \in {cb[c], 0},
              \A u \in Sessions : /\ calls'[u].connects <= calls[u].connects
                                  /\ calls'[u].disconnects <= calls[u].disconnects
                                  /\ calls'[u].connects \in Nat /\ calls'[u].disconnects \in Nat,
              HandledCb(t) = "connect" =>
                 cb'["connect"] = 0
                   \/ (handling.s \in Sessions => calls'[handling.s].connects = 0),
              HandledCb(t) = "disconnect" =>
                 cb'["disconnect"] = 0
                   \/ (handling.s \in Sessions => calls'[handling.s].disconnects = 0)
       PROVE  OnceInv'
  <2>1. m_mutex = t
    BY <1>16 DEF InCallback, HandlerAt
  <2>2. \A u \in Sessions : calls[u].connects \in Nat /\ calls[u].disconnects \in Nat
    BY DEF TypeOK, ClientTypeOK
  <2>3. ~(cb'["connect"] # 0 /\ calls'[cb'["connect"]].connects # 0)
    <3> SUFFICES ASSUME cb'["connect"] # 0, calls'[cb'["connect"]].connects # 0 PROVE FALSE
      OBVIOUS
    <3>1. cb'["connect"] = cb["connect"] /\ cb["connect"] \in Sessions
      BY <1>16 DEF Callbacks, Sessions, TypeOK, ClientTypeOK
    <3>2. calls[cb["connect"]].connects # 0
      BY <1>16, <2>2, <3>1
    <3>3. Executes("connect", cb["connect"])
      BY <3>1, <3>2 DEF OnceInv
    <3> QED BY <1>16, <2>1, <3>1, <3>3 DEF Executes
  <2>4. ~(cb'["disconnect"] # 0 /\ calls'[cb'["disconnect"]].disconnects # 0)
    <3> SUFFICES ASSUME cb'["disconnect"] # 0, calls'[cb'["disconnect"]].disconnects # 0
        PROVE  FALSE
      OBVIOUS
    <3>1. cb'["disconnect"] = cb["disconnect"] /\ cb["disconnect"] \in Sessions
      BY <1>16 DEF Callbacks, Sessions, TypeOK, ClientTypeOK
    <3>2. calls[cb["disconnect"]].disconnects # 0
      BY <1>16, <2>2, <3>1
    <3>3. Executes("disconnect", cb["disconnect"])
      BY <3>1, <3>2 DEF OnceInv
    <3> QED BY <1>16, <2>1, <3>1, <3>3 DEF Executes
  <2>5. \A c \in Callbacks : (Due(c)' <=> Due(c))
    BY <1>16 DEF Due
  <2>6. \A c \in Callbacks : cb'[c] <= connects /\ (Due(c) => cb'[c] < connects)
    BY <1>1, <1>16 DEF OnceInv
  <2>7. CalledAtMostOnce'
    BY <1>16, <2>2 DEF OnceInv, CalledAtMostOnce
  <2>8. \A u \in Sessions :
           /\ u > connects \/ (u = connects /\ Due("connect")) => calls'[u].connects = 0
           /\ u > connects \/ (u = connects /\ Due("disconnect")) => calls'[u].disconnects = 0
    BY <1>16, <2>2 DEF OnceInv
  <2>9. "connect" \in Callbacks /\ "disconnect" \in Callbacks
    BY DEF Callbacks
  <2> QED BY <1>16, <2>3, <2>4, <2>5, <2>6, <2>7, <2>8, <2>9 DEF OnceInv
<1>17. ASSUME NEW t \in Pollers, CallbackReturns(t) PROVE OnceInv'
  <2>1. act[t].pc = "running" /\ t \in Threads /\ InCallback(t)
    BY <1>17 DEF CallbackReturns, InCallback, HandlerAt
  <2>2. /\ act[t].cur \in {"erase", "read", "write"} /\ HandledCb(t) \in Callbacks
        /\ act[t].cur = "read" <=> HandledCb(t) = "read"
    BY <2>1, RunningHandler DEF HandledCb, CallbackOf
  <2>3. /\ \A c \in Callbacks : cb'[c] \in {cb[c], 0}
        /\ HandledCb(t) # "read" => cb'[HandledCb(t)] = 0
    BY <1>17, <2>2 DEF CallbackReturns, TypeOK, ClientTypeOK
  <2>4. UNCHANGED <<calls, op, connects>>
    BY <1>17 DEF CallbackReturns
  <2>5. \A u \in Sessions : calls[u].connects \in Nat /\ calls[u].disconnects \in Nat
    BY DEF TypeOK, ClientTypeOK
  <2>6. \A u \in Sessions : /\ calls'[u].connects <= calls[u].connects
                            /\ calls'[u].disconnects <= calls[u].disconnects
                            /\ calls'[u].connects \in Nat /\ calls'[u].disconnects \in Nat
    BY <2>4, <2>5
  <2> QED BY <1>16, <2>1, <2>3, <2>4, <2>6
<1>18. ASSUME NEW t \in Pollers, CallbackThrows(t) PROVE OnceInv'
  <2> DEFINE s == handling.s
  <2>1. InCallback(t) /\ calls' = Retracted(s, HandledCb(t)) /\ UNCHANGED <<cb, op, connects>>
    BY <1>18 DEF CallbackThrows
  <2>2. HandledCb(t) \in Callbacks
    BY <2>1, RunningHandler DEF InCallback, HandlerAt
  <2> DEFINE c == HandledCb(t)
  <2>3. /\ \A u \in Sessions \ {s} : calls'[u] = calls[u]
        /\ s \in Sessions =>
              /\ calls'[s].connects =
                    IF c = "connect" THEN Fewer(calls[s].connects) ELSE calls[s].connects
              /\ calls'[s].disconnects =
                    IF c = "disconnect" THEN Fewer(calls[s].disconnects)
                                        ELSE calls[s].disconnects
    BY <2>1, <2>2, RetractedType DEF TypeOK
  <2> HIDE DEF c, s
  <2>4. \A u \in Sessions : calls[u].connects \in {0, 1} /\ calls[u].disconnects \in {0, 1}
    BY DEF OnceInv, CalledAtMostOnce, TypeOK, ClientTypeOK
  <2>5. /\ \A u \in Sessions : /\ calls'[u].connects <= calls[u].connects
                               /\ calls'[u].disconnects <= calls[u].disconnects
                               /\ calls'[u].connects \in Nat /\ calls'[u].disconnects \in Nat
        /\ c = "connect" /\ s \in Sessions => calls'[s].connects = 0
        /\ c = "disconnect" /\ s \in Sessions => calls'[s].disconnects = 0
    BY <2>3, <2>4 DEF Fewer
  <2> QED BY <1>16, <2>1, <2>5 DEF c, s
<1>19. ASSUME NEW t \in Pollers, HandlerMatches(t) \/ HandlerFindsNone(t) \/ HandlerFindsSome(t)
                                 \/ HandlerCallsEmpty(t) \/ HandlerIgnores(t)
       PROVE  OnceInv'
  <2>1. handling.pc # "body"
    BY <1>5, <1>19 DEF HandlerMatches, HandlerFindsNone, HandlerFindsSome, HandlerCallsEmpty,
                       HandlerIgnores, HandlerLocks, HandlerAt
  <2>2. UNCHANGED <<cb, calls, connects, op>>
    BY <1>19 DEF HandlerMatches, HandlerFindsNone, HandlerFindsSome, HandlerCallsEmpty,
                 HandlerIgnores, clientVars
  <2> QED BY <1>3, <2>1, <2>2 DEF Due
<1>20. ASSUME NEW t \in Pollers, Poll(t) \/ ObsStep(t), UNCHANGED clientVars PROVE OnceInv'
  <2>1. /\ t \in Threads /\ act[t].pc # "running"
        /\ \A u \in Threads \ {t} : act'[u] = act[u]
    BY <1>20, PhaseSteps DEF Poll, TypeOK
  <2>2. UNCHANGED <<m_mutex, handling, cb, calls, connects, op>>
    BY <1>20 DEF clientVars
  <2>3. \A c, s : Executes(c, s) => Executes(c, s)'
    <3> SUFFICES ASSUME NEW c, NEW s, Executes(c, s) PROVE Executes(c, s)'
      OBVIOUS
    <3>1. handling.pc = "body" /\ m_mutex # NoThread
      BY DEF Executes
    <3>2. act[m_mutex].pc = "running" /\ m_mutex \in Threads
      BY <3>1 DEF LockInv, TypeOK, ClientTypeOK
    <3> QED BY <2>1, <2>2, <3>2 DEF Executes, HandledCb
  <2> QED BY <1>1, <2>2, <2>3, OnceFrame DEF Due
<1>21. ASSUME NEW t \in Pollers, Poll(t) \/ InProceed(t) PROVE OnceInv'
  <2>1. Poll(t) => UNCHANGED clientVars
    BY DEF Poll
  <2> QED BY <1>15, <1>17, <1>18, <1>19, <1>20, <1>21, <2>1 DEF InProceed
<1>22. CASE Network \/ UNCHANGED vars
  BY <1>2, <1>22 DEF Network, vars, obsVars, clientVars, Due
<1> QED BY <1>6, <1>7, <1>8, <1>9, <1>10, <1>11, <1>12, <1>13, <1>14, <1>21, <1>22
        DEF Next, Control, InControl

\* OnceInv holds of every client.
LEMMA OnceAlways == Spec => []OnceInv
<1>1. Init => OnceInv
  BY ClientAssumption DEF Init, Silent, Sessions, Callbacks, NoOp, Due, OnceInv, CalledAtMostOnce
<1>2. TypeOK /\ ObsInv /\ LockInv /\ OnceInv /\ [Next]_vars => OnceInv'
  BY OnceStep
<1> QED BY <1>1, <1>2, ClientInvariant, PTL DEF Spec

\* on_connect and on_disconnect each run at most once per call of connect(),
\* whatever throws and wherever another connect() writes the callbacks, for any
\* number of pollers (client.tpp:74-77, 149-153, 173-177).
THEOREM AtMostOnce == Spec => []CalledAtMostOnce
<1>1. OnceInv => CalledAtMostOnce
  BY DEF OnceInv
<1> QED BY <1>1, OnceAlways, PTL

------------------------------------------------------------------------------
(***************************************************************************)
(* One thread, as in client_main: it connects, then polls, and controls    *)
(* the client between two polls.  What is true of a socket when epoll_wait *)
(* reports it stays true until the handlers of the batch have run.         *)
(***************************************************************************)
Inside == {"polled", "serving", "running"}
DownState == {"fin", "reset", "refused"}

\* Each handler is registered under its types, and the read handler whenever
\* the endpoint holds a socket; stop() has emptied the endpoint before it
\* removes handlers.
HandlersInv ==
    /\ \A key \in Keys : m_handlers[key] # NoHandler =>
          \/ key = "READ_READY" /\ m_handlers[key] = "read"
          \/ key = "WRITE_READY" /\ m_handlers[key] = "write"
          \/ key \in ErasingTypes /\ m_handlers[key] = "erase"
    /\ \/ state.kind # "idle"
       \/ op.pc \in {"watch", "store"}
       \/ op.pc = "register" /\ op.n > 5
       => m_handlers["READ_READY"] # NoHandler
    /\ op.pc = "unregister" => state.kind = "idle"
    /\ op.pc \in UnlockedPcs => state.kind # "idle"

\* An active TCP socket has been through ::connect.
ActiveInv ==
    /\ proto = "udp" => \A fd \in Fds : ksock[fd] \in {"free", "udp"}
    /\ op.pc \notin {"remote", "fields", "assign"} /\ state.kind # "idle" => state.fd \in Fds
    /\ state.kind = "active" =>
          /\ state.fd \in Fds
          /\ proto = "tcp" => ksock[state.fd] \in {"syn_sent", "est", "urgent"} \cup DownState
    /\ op.pc \in UnlockedPcs /\ op.kind = "active" =>
          op.fd \in Fds /\ ksock[op.fd] \in {"syn_sent", "est", "urgent"} \cup DownState
    /\ op.pc \in {"moving", "assign"} => op.kind = "active"
    /\ op.pc = "moving" => state.kind # "active"
    /\ op.pc \in {"remote", "fields"} => op.kind = "active" \/ state.kind = "active"
    /\ \A fd \in Fds : interest[fd] # {} => "IN" \in interest[fd]

\* A handler that holds m_mutex serves an event of the endpoint's socket, and
\* the read handler does not test its callback.
HandlerInv ==
    act[Controller].pc = "running" /\ m_mutex = Controller =>
        /\ Current(Controller).fd = state.fd
        /\ handling.pc = "test" => act[Controller].cur # "read"

\* What the rest of the batch says of the endpoint's socket is still true, and
\* once the read handler has run for a socket that is down there is nothing
\* left to read.
FreshInv ==
    LET a == act[Controller]
    IN  a.pc \in Inside =>
          /\ state.kind = "active"
          /\ \A n \in 1..Len(a.events) : n >= a.k /\ a.events[n].fd = state.fd =>
                /\ a.events[n].type \cap ErasingTypes # {} =>
                      ksock[state.fd] \in DownState \cup {"urgent"}
                /\ a.events[n].type \cap ClosingTypes # {} =>
                      /\ ksock[state.fd] \in DownState
                      /\ "READ_READY" \in a.events[n].type
                      /\ n = a.k /\ a.i > 1 => state.fd \notin rx
          /\ HandlerInv

\* The handler that runs, and the step of handle_event that found it
\* (event_observer.tpp:82-94, client.tpp:143-179).
LEMMA RunningClient ==
    ASSUME ObsInv, HandlersInv, NEW t \in Threads, act[t].pc = "running"
    PROVE  /\ act[t].k \in 1..Len(act[t].events)
           /\ act[t].cur # "read" => act[t].i > 1
           /\ act[t].cur # "erase" => act[t].i <= 2
           /\ act[t].cur = "read" => act[t].i = 1 /\ "READ_READY" \in Current(t).type
           /\ act[t].cur = "erase" => act[t].i > 2 /\ Current(t).type \cap ErasingTypes # {}
<1> DEFINE e == Current(t)
           i == act[t].i
<1>1. act[t].events \in Seq(Event) /\ act[t].k \in 1..Len(act[t].events) /\ i \in Steps
  BY DEF ObsInv, ObsTypeOK, ActRecord, RecordInv, Place
<1>2. e \in Event
  BY <1>1 DEF Current
<1>3. LookupKey(e, i) \in Keys
  BY <1>1, <1>2, LookupKeyType
<1>4. act[t].cur # NoHandler /\ m_handlers[LookupKey(e, i)] = act[t].cur
  BY DEF ObsInv, RecordInv, Running, Current
<1>5. \/ LookupKey(e, i) = "READ_READY" /\ act[t].cur = "read"
      \/ LookupKey(e, i) = "WRITE_READY" /\ act[t].cur = "write"
      \/ LookupKey(e, i) \in ErasingTypes /\ act[t].cur = "erase"
  BY <1>3, <1>4 DEF HandlersInv
<1>6. LookupKey(e, i) # "NONE" => LookupKey(e, i) = TypeOrder[i] /\ TypeOrder[i] \in e.type
  BY DEF LookupKey
<1>7. act[t].cur # "read" => i > 1
  <2> HIDE DEF i, e
  <2>1. TypeOrder[1] = "READ_READY"
    BY DEF TypeOrder
  <2>2. i = 1 => LookupKey(e, i) \in {"READ_READY", "NONE"}
    BY <1>6, <2>1
  <2>3. "READ_READY" \notin ErasingTypes /\ "NONE" \notin ErasingTypes
    BY DEF ErasingTypes
  <2> QED BY <1>1, <1>5, <2>2, <2>3 DEF Steps
<1>8. act[t].cur = "erase" => e.type \cap ErasingTypes # {}
  <2>1. "NONE" \notin ErasingTypes
    BY DEF ErasingTypes
  <2> QED BY <1>5, <1>6, <2>1
<1>9. act[t].cur = "erase" <=> i > 2
  <2> HIDE DEF i, e
  <2>0. i \in 1..6
    BY <1>1 DEF Steps
  <2>1. i = 1 => TypeOrder[i] = "READ_READY"
    BY DEF TypeOrder
  <2>2. i = 2 => TypeOrder[i] = "WRITE_READY"
    BY DEF TypeOrder
  <2>3. i \in 3..6 => TypeOrder[i] \in ErasingTypes
    BY DEF TypeOrder, ErasingTypes
  <2>4. \A key \in ErasingTypes : key \notin {"READ_READY", "WRITE_READY", "NONE"}
    BY DEF ErasingTypes
  <2>5. LookupKey(e, i) = TypeOrder[i]
    BY <1>5, <1>6, <2>4
  <2>6. CASE i \in {1, 2}
    BY <1>5, <2>1, <2>2, <2>4, <2>5, <2>6
  <2>7. CASE i \in 3..6
    BY <1>5, <2>3, <2>4, <2>5, <2>7
  <2> QED BY <2>0, <2>6, <2>7
<1>10. act[t].cur # "erase" => i <= 2
  <2> HIDE DEF i
  <2> QED BY <1>1, <1>9 DEF Steps
<1>11. act[t].cur = "read" => i = 1 /\ "READ_READY" \in e.type
  <2> HIDE DEF i, e
  <2>1. i = 2 => TypeOrder[i] = "WRITE_READY"
    BY DEF TypeOrder
  <2>2. act[t].cur = "read" => LookupKey(e, i) = "READ_READY"
    BY <1>5
  <2>3. act[t].cur = "read" => TypeOrder[i] = "READ_READY" /\ "READ_READY" \in e.type
    BY <1>6, <2>2
  <2> QED BY <1>1, <1>10, <2>1, <2>3 DEF Steps
<1> QED BY <1>1, <1>7, <1>8, <1>9, <1>10, <1>11

\* Only register_cbs and stop() change the handler map
\* (client.tpp:53-61, 94-99, 143-179).
LEMMA HandlersStep ==
    ASSUME TypeOK, ObsInv, LockInv, HandlersInv, [Next]_vars
    PROVE  HandlersInv'
<1> USE ClientAssumption
<1>1. m_handlers \in [Keys -> Handlers \cup {NoHandler}]
  BY DEF TypeOK, ObsTypeOK
<1>2. CASE RegisterCb
  <2> DEFINE key == RegisterOrder[op.n]
             h == HandlerFor(key)
  <2>1. op.n \in 1..6 /\ op.pc = "register"
    BY <1>2 DEF RegisterCb, TypeOK, ClientTypeOK, OpTypeOK
  <2>2. /\ key \in Keys
        /\ \/ key = "READ_READY" /\ h = "read"
           \/ key = "WRITE_READY" /\ h = "write"
           \/ key \in ErasingTypes /\ h = "erase"
        /\ op.n = 5 => key = "READ_READY"
    BY <2>1 DEF RegisterOrder, HandlerFor, Keys, EventType, ErasingTypes
  <2>3. h # NoHandler
    BY <2>2, ObserverAssumption
  <2>4. /\ m_handlers' = IF m_handlers[key] = NoHandler THEN [m_handlers EXCEPT ![key] = h]
                                                        ELSE m_handlers
        /\ state' = state
    BY <1>2 DEF RegisterCb, add
  <2> HIDE DEF key, h
  <2>5. \A k \in Keys : m_handlers[k] # NoHandler => m_handlers'[k] = m_handlers[k]
    BY <1>1, <2>4
  <2>6. \A k \in Keys : m_handlers'[k] # NoHandler =>
            m_handlers'[k] = m_handlers[k] \/ (k = key /\ m_handlers'[k] = h)
    BY <1>1, <2>4
  <2>7. "READ_READY" \in Keys
    BY DEF Keys, EventType
  <2>8. m_handlers'[key] # NoHandler
    BY <1>1, <2>2, <2>3, <2>4
  <2>9. /\ state.kind # "idle" \/ op.n > 5 => m_handlers["READ_READY"] # NoHandler
        /\ state'.kind # "idle" \/ op'.pc \in {"watch", "store"} \/ op'.n > 5
             => state.kind # "idle" \/ op.n >= 5
        /\ op'.pc \in {"register", "watch"}
    BY <1>2, <2>1, <2>4 DEF RegisterCb, RegisterOrder, HandlersInv, TypeOK, ClientTypeOK, OpTypeOK
  <2>10. state.kind # "idle" \/ op.n >= 5 => m_handlers'["READ_READY"] # NoHandler
    BY <2>1, <2>2, <2>5, <2>7, <2>8, <2>9
  <2>11. \A k \in Keys : m_handlers'[k] # NoHandler =>
          \/ k = "READ_READY" /\ m_handlers'[k] = "read"
          \/ k = "WRITE_READY" /\ m_handlers'[k] = "write"
          \/ k \in ErasingTypes /\ m_handlers'[k] = "erase"
    BY <2>2, <2>6 DEF HandlersInv
  <2> QED BY <2>9, <2>10, <2>11 DEF HandlersInv, UnlockedPcs
<1>3. CASE UnregisterCb
  <2>1. /\ m_handlers' = [m_handlers EXCEPT ![RegisterOrder[op.n]] = NoHandler]
        /\ op.pc = "unregister" /\ state' = state /\ op'.pc \in {"unregister", "none"}
    BY <1>3 DEF UnregisterCb, remove, NoOp, TypeOK, ClientTypeOK, OpTypeOK
  <2>2. state.kind = "idle"
    BY <2>1 DEF HandlersInv
  <2>3. \A k \in Keys : m_handlers'[k] \in {NoHandler, m_handlers[k]}
    BY <1>1, <2>1
  <2> QED BY <2>1, <2>2, <2>3 DEF HandlersInv, UnlockedPcs
<1>4. ASSUME m_handlers' = m_handlers,
             \/ state'.kind # "idle" \/ op'.pc \in {"watch", "store"}
             \/ op'.pc = "register" /\ op'.n > 5
             => \/ state.kind # "idle" \/ op.pc \in {"watch", "store"}
                \/ op.pc = "register" /\ op.n > 5,
             op'.pc = "unregister" => state'.kind = "idle",
             op'.pc \in UnlockedPcs => state'.kind # "idle"
      PROVE  HandlersInv'
  BY <1>4 DEF HandlersInv
<1>5. CASE \E bound \in BOOLEAN : Start(bound)
  BY <1>4, <1>5 DEF Start, UnlockedPcs, obsVars
<1>6. CASE Stop
  BY <1>4, <1>6 DEF Stop, NoOp, UnlockedPcs, obsVars
<1>7. CASE ConnectReturnsFalse
  BY <1>4, <1>7 DEF ConnectReturnsFalse, HandlersInv, UnlockedPcs, obsVars
<1>8. CASE ConnectSocket
  BY <1>4, <1>8 DEF ConnectSocket, NoOp, UnlockedPcs, obsVars, TypeOK, ClientTypeOK, OpTypeOK
<1>9. CASE ConnectActive
  BY <1>4, <1>9 DEF ConnectActive, NoOp, UnlockedPcs, obsVars
<1>10. CASE WatchSocket
  BY <1>4, <1>10 DEF WatchSocket, UnlockedPcs, obsVars, TypeOK, ClientTypeOK, OpTypeOK
<1>11. CASE StoreSocket
  BY <1>4, <1>11 DEF StoreSocket, NoOp, UnlockedPcs, obsVars
<1>12. CASE MoveSocket \/ SetRemote \/ SetCallback
  <2>1. /\ op.pc \in UnlockedPcs /\ op'.pc \in {"remote", "fields", "assign", "none"}
        /\ state'.kind = state.kind /\ m_handlers' = m_handlers
    BY <1>12 DEF MoveSocket, SetRemote, SetCallback, NoOp, UnlockedPcs, obsVars, TypeOK,
                 ClientTypeOK, OpTypeOK
  <2> QED BY <1>4, <2>1 DEF HandlersInv
<1>13. CASE AssignActive
  BY <1>4, <1>13 DEF AssignActive, NoOp, HandlersInv, UnlockedPcs, obsVars
<1>14. ASSUME UNCHANGED <<m_handlers, state, op>> PROVE HandlersInv'
  BY <1>14 DEF HandlersInv
<1>15. ASSUME NEW t \in Pollers, Poll(t) \/ InProceed(t) PROVE UNCHANGED <<m_handlers, state, op>>
  <2>1. UNCHANGED <<state, op>>
    BY <1>15 DEF Poll, InProceed, HandlerIgnores, HandlerMatches, HandlerFindsNone,
                 HandlerFindsSome, HandlerCallsEmpty, HandlerCalls, CallbackReturns,
                 CallbackThrows, clientVars
  <2>2. CASE ObsStep(t)
    BY <2>1, <2>2 DEF ObsStep, ObsLockShared, ObsInvoke, ObsNextEvent, ObsUnlock,
                 ObsHandleUnhandled, ObsReturn
  <2>3. CASE ~ObsStep(t)
    BY <1>15, <2>1, <2>3 DEF Poll, ObsPoll, InProceed, HandlerIgnores, HandlerMatches,
         HandlerFindsNone, HandlerFindsSome, HandlerCallsEmpty, HandlerCalls, CallbackReturns,
         CallbackThrows, ObsHandlerReturns, ObsHandlerThrows, obsVars
  <2> QED BY <2>2, <2>3
<1>16. CASE Network \/ UNCHANGED vars
  BY <1>14, <1>16 DEF Network, vars, obsVars, clientVars
<1> QED BY <1>2, <1>3, <1>5, <1>6, <1>7, <1>8, <1>9, <1>10, <1>11, <1>12, <1>13, <1>14, <1>15,
           <1>16 DEF Next, Control, InControl

\* What the network does to a socket of the client (external): a connection
\* that came up or was refused stays so, and one that ended has ended.
LEMMA NetworkStep ==
    ASSUME KernelTypeOK, Network
    PROVE  /\ \A fd \in Fds :
                 /\ ksock[fd] \in {"free", "udp"} => ksock'[fd] = ksock[fd]
                 /\ ksock[fd] \in {"syn_sent", "est", "urgent"} \cup DownState =>
                       ksock'[fd] \in {"syn_sent", "est", "urgent"} \cup DownState
                 /\ ksock[fd] \in DownState => ksock'[fd] \in DownState /\ (fd \in rx' => fd \in rx)
                 /\ ksock[fd] = "urgent" => ksock'[fd] \in DownState \cup {"urgent"}
           /\ UNCHANGED <<obsVars, clientVars, interest>>
<1>1. PICK fd \in Fds : \/ Establish(fd) \/ Refuse(fd) \/ Arrive(fd) \/ UrgentArrives(fd)
                        \/ PeerCloses(fd) \/ PeerResets(fd)
  BY DEF Network
<1>2. UNCHANGED <<obsVars, clientVars, interest>>
  BY DEF Network, Establish, Refuse, Arrive, UrgentArrives, PeerCloses, PeerResets, Wake
<1>3. /\ \A other \in Fds \ {fd} : ksock'[other] = ksock[other]
      /\ rx' \subseteq rx \cup {fd}
  BY <1>1 DEF Establish, Refuse, Arrive, UrgentArrives, PeerCloses, PeerResets, KernelTypeOK
<1>4. /\ ksock[fd] \notin {"free", "udp"} \/ ksock'[fd] = ksock[fd]
      /\ ksock[fd] \in {"syn_sent", "est", "urgent"} \cup DownState =>
            ksock'[fd] \in {"syn_sent", "est", "urgent"} \cup DownState
      /\ ksock[fd] \in DownState => ksock'[fd] \in DownState /\ rx' = rx
      /\ ksock[fd] = "urgent" => ksock'[fd] \in DownState \cup {"urgent"}
  BY <1>1 DEF Establish, Refuse, Arrive, UrgentArrives, PeerCloses, PeerResets, KernelTypeOK, DownState
<1> QED BY <1>2, <1>3, <1>4

\* Every step keeps ActiveInv (client.tpp:22-49, 53-61, 72-116, 147).
LEMMA ActiveStep ==
    ASSUME TypeOK, LockInv, RemoteInv, HandlersInv, ActiveInv, [Next]_vars
    PROVE  ActiveInv'
<1> USE ClientAssumption DEF NoFd, UnlockedPcs
<1>1. EpollTypeOK /\ KernelTypeOK /\ ClientTypeOK /\ proto \in {"tcp", "udp"}
  BY DEF TypeOK, ClientTypeOK, OpTypeOK
<1>2. ASSUME UNCHANGED <<proto, state, op>>,
             \A fd \in Fds : ksock[fd] \in {"free", "udp"} => ksock'[fd] = ksock[fd],
             \A fd \in Fds : ksock[fd] \in {"syn_sent", "est", "urgent"} \cup DownState =>
                                ksock'[fd] \in {"syn_sent", "est", "urgent"} \cup DownState,
             \A fd \in Fds : interest'[fd] \in {{}, interest[fd]}
      PROVE  ActiveInv'
  BY <1>2 DEF ActiveInv
<1>3. ASSUME NEW bound \in BOOLEAN, Start(bound) PROVE ActiveInv'
  <2>1. PICK fd \in Fds :
          /\ ksock' = [ksock EXCEPT ![fd] = IF proto = "tcp" THEN "fresh" ELSE "udp"]
          /\ op' = [pc |-> "register", fd |-> fd, kind |-> StartedKind(bound), n |-> 1]
    BY <1>3 DEF Start
  <2>2. /\ state.kind # "active" /\ op.pc = "none" /\ UNCHANGED <<proto, state, interest>>
    BY <1>3 DEF Start, idle, ControllerFree, NoOp, epollVars
  <2>3. proto = "udp" => \A other \in Fds : ksock'[other] \in {"free", "udp"}
    BY <1>1, <2>1 DEF ActiveInv, KernelTypeOK
  <2> QED BY <2>1, <2>2, <2>3 DEF ActiveInv
<1>4. ASSUME NEW fds, Close(fds)
      PROVE  proto = "udp" => \A fd \in Fds : ksock'[fd] \in {"free", "udp"}
  BY <1>4 DEF Close, ActiveInv
<1>5. ASSUME NEW fds, Unwatch(fds)
      PROVE  \A fd \in Fds : interest'[fd] # {} => "IN" \in interest'[fd]
  BY <1>5 DEF Unwatch, ActiveInv
<1>6. CASE Stop
  <2>1. state'.kind = "idle" /\ op'.pc = "unregister" /\ proto' = proto
    BY <1>6 DEF Stop, NoOp
  <2>2. /\ proto = "udp" => \A fd \in Fds : ksock'[fd] \in {"free", "udp"}
        /\ \A fd \in Fds : interest'[fd] # {} => "IN" \in interest'[fd]
    BY <1>4, <1>5, <1>6 DEF Stop, del_socket
  <2> QED BY <2>1, <2>2 DEF ActiveInv
<1>7. CASE ConnectReturnsFalse
  BY <1>2, <1>7 DEF ConnectReturnsFalse, epollVars, kernelVars
<1>8. CASE ConnectSocket
  <2>1. /\ op.pc = "none" /\ proto = "tcp" /\ state.kind \in {"socket", "binded"}
        /\ UNCHANGED <<proto, interest, state>>
        /\ ksock' = [ksock EXCEPT ![state.fd] = "syn_sent"]
        /\ op' = [pc |-> "moving", fd |-> state.fd, kind |-> "active", n |-> 1]
    BY <1>8 DEF ConnectSocket, ControllerFree, NoOp, epollVars
  <2>2. state.fd \in Fds
    BY <2>1 DEF ActiveInv
  <2>3. /\ ksock'[op'.fd] = "syn_sent" /\ op'.fd \in Fds /\ op'.pc = "moving"
        /\ op'.kind = "active" /\ state'.kind # "active"
    BY <1>1, <2>1, <2>2 DEF KernelTypeOK
  <2> QED BY <2>1, <2>2, <2>3 DEF ActiveInv
<1>9. CASE ConnectActive
  <2>1. /\ op'.pc = "remote" /\ op'.kind # "active" /\ state.kind = "active"
        /\ UNCHANGED <<proto, state, ksock, interest>>
    BY <1>9 DEF ConnectActive, NoOp, epollVars, kernelVars
  <2> QED BY <2>1 DEF ActiveInv
<1>10. CASE RegisterCb
  <2>1. /\ op'.pc \in {"register", "watch"} /\ op.pc = "register"
        /\ UNCHANGED <<proto, state, ksock, interest>>
    BY <1>10 DEF RegisterCb, epollVars, kernelVars, TypeOK, ClientTypeOK, OpTypeOK
  <2> QED BY <2>1 DEF ActiveInv
<1>11. CASE WatchSocket
  <2>1. /\ op'.pc = "store" /\ op.pc = "watch" /\ UNCHANGED <<proto, state, ksock>>
        /\ add_socket(op.fd, "READ_WRITE", Raised[op.fd])
    BY <1>11 DEF WatchSocket, kernelVars, TypeOK, ClientTypeOK, OpTypeOK
  <2>2. \A fd \in Fds : interest'[fd] \in {interest[fd], flags_from_op("READ_WRITE")}
    BY <1>1, <2>1 DEF add_socket, epollVars, EpollTypeOK, ClientTypeOK, OpTypeOK
  <2>3. "IN" \in flags_from_op("READ_WRITE")
    BY DEF flags_from_op
  <2> HIDE DEF NoFd
  <2>4. \A fd \in Fds : interest'[fd] # {} => "IN" \in interest'[fd]
    BY <2>2, <2>3 DEF ActiveInv
  <2> QED BY <2>1, <2>4 DEF ActiveInv
<1>12. CASE StoreSocket
  <2>1. /\ op.pc = "store" /\ op'.pc = "none" /\ proto' = proto
        /\ state' = [kind |-> op.kind, fd |-> op.fd] /\ op.fd \in Fds
    BY <1>1, <1>12 DEF StoreSocket, NoOp, ClientTypeOK, OpTypeOK
  <2>2. proto = "tcp" => op.kind # "active"
    BY <2>1 DEF RemoteInv
  <2>3. /\ proto = "udp" => \A fd \in Fds : ksock'[fd] \in {"free", "udp"}
        /\ \A fd \in Fds : interest'[fd] # {} => "IN" \in interest'[fd]
    BY <1>4, <1>5, <1>12 DEF StoreSocket
  <2> QED BY <2>1, <2>2, <2>3 DEF ActiveInv
<1>13. CASE UnregisterCb
  <2>1. /\ op.pc = "unregister" /\ op'.pc \in {"unregister", "none"}
        /\ UNCHANGED <<proto, state, ksock, interest>>
    BY <1>13 DEF UnregisterCb, NoOp, epollVars, kernelVars, TypeOK, ClientTypeOK, OpTypeOK
  <2> QED BY <2>1 DEF ActiveInv
<1>14. CASE MoveSocket
  <2>1. /\ op.pc = "moving" /\ op'.pc = "remote" /\ op'.kind = op.kind /\ op'.fd = op.fd
        /\ state'.kind = state.kind /\ UNCHANGED <<proto, ksock, interest>>
    BY <1>1, <1>14 DEF MoveSocket, epollVars, kernelVars, ClientTypeOK, OpTypeOK
  <2> QED BY <2>1 DEF ActiveInv
<1>19. CASE SetRemote \/ SetCallback
  <2>1. /\ op.pc \in {"remote", "fields"} /\ UNCHANGED <<proto, state, ksock, interest>>
        /\ \/ /\ op'.pc \in {"fields", "assign"} /\ op'.kind = op.kind /\ op'.fd = op.fd
              /\ op'.pc = "assign" => op.kind = "active"
           \/ op.kind # "active" /\ op'.pc = "none"
    BY <1>1, <1>19 DEF SetRemote, SetCallback, NoOp, epollVars, kernelVars, ClientTypeOK,
                       OpTypeOK
  <2>2. CASE op'.pc = "none"
    BY <2>1, <2>2 DEF ActiveInv
  <2>3. CASE op'.pc # "none"
    BY <2>1, <2>3 DEF ActiveInv
  <2> QED BY <2>2, <2>3
<1>15. CASE AssignActive
  <2>1. /\ op.pc = "assign" /\ op'.pc = "none" /\ state' = [kind |-> "active", fd |-> op.fd]
        /\ UNCHANGED <<proto, ksock, interest>>
    BY <1>15 DEF AssignActive, NoOp, epollVars, kernelVars
  <2> QED BY <2>1 DEF ActiveInv
<1>16. ASSUME NEW t \in Pollers, Poll(t) \/ InProceed(t) PROVE ActiveInv'
  <2>1. UNCHANGED <<proto, state, op, ksock>>
    BY <1>16 DEF Poll, InProceed, HandlerIgnores, HandlerMatches, HandlerFindsNone,
                 HandlerFindsSome, HandlerCallsEmpty, HandlerCalls, CallbackReturns,
                 CallbackThrows, clientVars, kernelVars
  <2>2. UNCHANGED interest \/ Unwatch({get_fd})
    BY <1>16 DEF Poll, proceed, InProceed, HandlerIgnores, HandlerMatches, HandlerFindsNone,
                 HandlerFindsSome, HandlerCallsEmpty, HandlerCalls, CallbackReturns,
                 CallbackThrows, del_socket, epollVars
  <2>3. \A fd \in Fds : interest'[fd] \in {{}, interest[fd]}
    BY <2>2 DEF Unwatch
  <2> QED BY <1>2, <2>1, <2>3
<1>17. CASE Network
  BY <1>1, <1>2, <1>17, NetworkStep DEF clientVars
<1>18. CASE UNCHANGED vars
  BY <1>2, <1>18 DEF vars, clientVars, kernelVars, epollVars
<1> QED BY <1>3, <1>6, <1>7, <1>8, <1>9, <1>10, <1>11, <1>12, <1>13, <1>14, <1>15, <1>16, <1>17,
           <1>18, <1>19 DEF Next, Control, InControl

\* A step keeps FreshInv if the batch goes forward and the endpoint's socket
\* does not come back to life.
LEMMA FreshFrame ==
    ASSUME ObsInv, ObsInv', FreshInv, state' = state,
           act'[Controller].pc \in Inside =>
              /\ act[Controller].pc \in Inside
              /\ act'[Controller].events = act[Controller].events
              /\ act'[Controller].k >= act[Controller].k
              /\ \A n \in 1..Len(act[Controller].events) :
                    /\ n = act'[Controller].k /\ act'[Controller].i > 1
                    /\ act[Controller].events[n].fd = state.fd
                    /\ act[Controller].events[n].type \cap ClosingTypes # {}
                    => state.fd \notin rx',
           ksock[state.fd] \in DownState => ksock'[state.fd] \in DownState,
           ksock[state.fd] = "urgent" => ksock'[state.fd] \in DownState \cup {"urgent"},
           HandlerInv'
    PROVE  FreshInv'
<1> DEFINE a == act[Controller]
           b == act'[Controller]
<1> SUFFICES ASSUME b.pc \in Inside
    PROVE  /\ state'.kind = "active"
           /\ \A n \in 1..Len(b.events) : n >= b.k /\ b.events[n].fd = state'.fd =>
                 /\ b.events[n].type \cap ErasingTypes # {} =>
                       ksock'[state'.fd] \in DownState \cup {"urgent"}
                 /\ b.events[n].type \cap ClosingTypes # {} =>
                       /\ ksock'[state'.fd] \in DownState
                       /\ "READ_READY" \in b.events[n].type
                       /\ n = b.k /\ b.i > 1 => state'.fd \notin rx'
  BY DEF FreshInv
<1>1. /\ a.pc \in Inside /\ b.events = a.events /\ b.k >= a.k
      /\ \A n \in 1..Len(a.events) :
            /\ n = b.k /\ b.i > 1 /\ a.events[n].fd = state.fd
            /\ a.events[n].type \cap ClosingTypes # {}
            => state.fd \notin rx'
  OBVIOUS
<1>2. a.k \in Nat /\ b.k \in Nat
  BY ClientAssumption DEF ObsInv, ObsTypeOK, ActRecord
<1>3. /\ state.kind = "active"
      /\ \A n \in 1..Len(a.events) : n >= a.k /\ a.events[n].fd = state.fd =>
            /\ a.events[n].type \cap ErasingTypes # {} => ksock[state.fd] \in DownState \cup {"urgent"}
            /\ a.events[n].type \cap ClosingTypes # {} =>
                  ksock[state.fd] \in DownState /\ "READ_READY" \in a.events[n].type
  BY <1>1 DEF FreshInv
<1> HIDE DEF a, b
<1> SUFFICES ASSUME NEW n \in 1..Len(a.events), n >= b.k, a.events[n].fd = state.fd
    PROVE  /\ a.events[n].type \cap ErasingTypes # {} => ksock'[state.fd] \in DownState \cup {"urgent"}
           /\ a.events[n].type \cap ClosingTypes # {} =>
                 /\ ksock'[state.fd] \in DownState
                 /\ "READ_READY" \in a.events[n].type
                 /\ n = b.k /\ b.i > 1 => state.fd \notin rx'
  BY <1>1, <1>3
<1>4. n >= a.k
  BY <1>1, <1>2
<1> QED BY <1>1, <1>3, <1>4

\* Every step of a client that its own thread polls keeps FreshInv
\* (event_observer.tpp:31-57, 82-94, client.tpp:143-179).
LEMMA FreshStep ==
    ASSUME Pollers = {Controller}, ConnectFirst, TypeOK, ObsInv, ObsInv', LockInv, HandlersInv,
           ActiveInv, FreshInv, [Next]_vars
    PROVE  FreshInv'
<1> DEFINE c == Controller
           a == act[c]
           b == act'[c]
<1> USE ClientAssumption
<1>1. ASSUME b.pc = "out" PROVE FreshInv'
  BY <1>1 DEF FreshInv, Inside
<1>2. ASSUME Control \/ InControl PROVE b.pc = "out"
  <2>1. a.pc = "out"
    BY <1>2 DEF Control, Start, Stop, ConnectReturnsFalse, ConnectSocket, ConnectActive,
         ControllerFree, InControl, RegisterCb, WatchSocket, StoreSocket, UnregisterCb,
         MoveSocket, SetRemote, SetCallback, AssignActive, LockInv, NoOp
  <2>2. act' = act
    BY <1>2 DEF Control, Start, Stop, ConnectReturnsFalse, ConnectSocket, ConnectActive,
         InControl, RegisterCb, WatchSocket, StoreSocket, UnregisterCb, MoveSocket, SetRemote,
         SetCallback, AssignActive, add, remove, obsVars
  <2> QED BY <2>1, <2>2
<1>3. ASSUME Poll(c) PROVE FreshInv'
  <2>1. PICK take \in Takes(Raised) : ObsPoll(c, EventsOf(take, Raised))
    BY <1>3 DEF Poll
  <2> DEFINE events == EventsOf(take, Raised)
  <2>2. \A j \in 1..Len(events) :
            /\ Reported(events[j].fd, Raised) # {}
            /\ events[j].type = event_type_from_flags(Reported(events[j].fd, Raised))
    BY TakenEvents DEF TypeOK
  <2>3. b.events = events /\ b.pc = "polled" /\ b.i = 1
    BY <2>1 DEF ObsPoll, Outside, ObsInv, ObsTypeOK
  <2> HIDE DEF events
  <2>4. state.kind = "active" /\ UNCHANGED <<ksock, rx, state, m_mutex, proto>>
    BY <1>3 DEF Poll, Connected, kernelVars, clientVars
  <2>5. state.fd \in Fds /\ ksock[state.fd] # "fresh"
    BY <2>4 DEF ActiveInv, DownState, TypeOK, ClientTypeOK, OpTypeOK
  <2>6. ASSUME NEW j \in 1..Len(events), events[j].fd = state.fd
        PROVE  /\ events[j].type \cap ErasingTypes # {} => ksock[state.fd] \in DownState \cup {"urgent"}
               /\ events[j].type \cap ClosingTypes # {} =>
                     ksock[state.fd] \in DownState /\ "READ_READY" \in events[j].type
    <3>1. "IN" \in interest[state.fd]
      BY <2>2, <2>5, <2>6 DEF Reported, ActiveInv
    <3>2. events[j].type \cap ErasingTypes # {} => ksock[state.fd] \in DownState \cup {"urgent"}
      BY <2>2, <2>5, <2>6, ErasingReported DEF DownState
    <3> QED BY <2>2, <2>5, <2>6, <3>1, <3>2, ClosingReported DEF DownState
  <2> QED BY <2>3, <2>4, <2>6 DEF FreshInv, HandlerInv
<1>4. a \in ActRecord /\ b \in ActRecord
  BY DEF ObsInv, ObsTypeOK
<1>5. ASSUME a.pc \in Inside, b.pc \in Inside, b.k = a.k, a.i > 1, NEW n \in 1..Len(a.events),
             n = b.k, a.events[n].fd = state.fd, a.events[n].type \cap ClosingTypes # {}
      PROVE  state.fd \notin rx
  BY <1>4, <1>5 DEF FreshInv, ActRecord
<1>6. ASSUME ObsStep(c), UNCHANGED <<epollVars, kernelVars, clientVars>> PROVE FreshInv'
  <2>1. a.pc \notin {"out", "running"} /\ UNCHANGED <<m_mutex, ksock, rx, state>>
    BY <1>6, PhaseSteps DEF ObsInv, clientVars, kernelVars
  <2>2. m_mutex # c
    BY <2>1 DEF LockInv
  <2>3. b.pc \in Inside => /\ a.pc \in Inside /\ b.events = a.events
                           /\ \/ b.k = a.k /\ b.i >= a.i
                              \/ b.k = a.k + 1 /\ a.pc = "serving"
    BY <1>6, ForwardSteps DEF Inside
  <2>4. b.k >= a.k \/ b.pc \notin Inside
    BY <1>4, <2>3 DEF ActRecord
  <2>5. ASSUME b.pc \in Inside, NEW n \in 1..Len(a.events), n = b.k, b.i > 1,
               a.events[n].fd = state.fd, a.events[n].type \cap ClosingTypes # {}
        PROVE  state.fd \notin rx
    <3>1. CASE ObsInvoke(c)
      <4>1. a.pc = "serving" /\ b.k = a.k
        BY <3>1, <1>4 DEF ObsInvoke, ActRecord, ObsInv, ObsTypeOK
      <4>2. Current(c) = a.events[n] /\ "READ_READY" \in Current(c).type
        BY <1>4, <2>3, <2>5, <4>1 DEF Current, FreshInv, ActRecord
      <4>3. Hit(m_handlers, Current(c), 1)
        <5>1. LookupKey(Current(c), 1) = "READ_READY"
          BY <4>2 DEF LookupKey, TypeOrder
        <5>2. state.kind # "idle"
          BY <2>3, <2>5 DEF FreshInv
        <5> QED BY <5>1, <5>2 DEF Hit, HandlersInv
      <4>4. PICK i \in Steps :
                /\ i >= a.i /\ b.i = i
                /\ \A j \in Steps : a.i <= j /\ j < i => ~Hit(m_handlers, Current(c), j)
        BY <3>1, <1>4 DEF ObsInvoke, ActRecord, ObsInv, ObsTypeOK
      <4>5. a.i > 1
        BY <1>4, <2>5, <4>3, <4>4 DEF Steps, ActRecord
      <4> QED BY <1>5, <2>3, <2>5, <4>1, <4>5
    <3>2. CASE ObsLockShared(c)
      <4>1. b.i = a.i /\ b.k = a.k
        BY <3>2, <1>4 DEF ObsLockShared, ActRecord, ObsInv, ObsTypeOK
      <4> QED BY <1>5, <2>3, <2>5, <4>1
    <3>3. CASE ObsNextEvent(c)
      <4>1. b.i = 1
        BY <3>3, <1>4 DEF ObsNextEvent, ActRecord, ObsInv, ObsTypeOK
      <4> QED BY <2>5, <4>1
    <3>4. CASE ~(ObsInvoke(c) \/ ObsLockShared(c) \/ ObsNextEvent(c))
      <4>1. act \in [Threads -> ActRecord]
        BY DEF ObsInv, ObsTypeOK
      <4>2. CASE ObsUnlock(c)
        BY <2>5, <4>1, <4>2 DEF ObsUnlock, ActRecord, Inside
      <4>3. CASE ObsReturn(c)
        BY <2>5, <4>1, <4>3 DEF ObsReturn, Outside, Inside
      <4>4. ASSUME NEW throws \in BOOLEAN, ObsHandleUnhandled(c, throws) PROVE b.pc = "done"
        BY <4>1, <4>4 DEF ObsHandleUnhandled, ActRecord
      <4> QED BY <1>6, <2>5, <3>4, <4>2, <4>3, <4>4 DEF ObsStep, Inside
    <3> QED BY <3>1, <3>2, <3>3, <3>4
  <2>6. HandlerInv'
    BY <2>1, <2>2 DEF HandlerInv
  <2> QED BY <2>1, <2>3, <2>4, <2>5, <2>6, FreshFrame
<1>7. ASSUME ObsHandlerReturns(c), m_mutex' = NoThread, UNCHANGED <<state, ksock>>,
             Current(c).fd # state.fd \/ (a.i > 1 /\ rx' = rx) \/ state.fd \notin rx'
      PROVE  FreshInv'
  <2>1. a.pc = "running" /\ b.pc = "serving" /\ b.events = a.events /\ b.k = a.k
    BY <1>4, <1>7 DEF ObsHandlerReturns, ActRecord, ObsInv, ObsTypeOK
  <2>2. a.pc \in Inside /\ b.pc \in Inside /\ b.k >= a.k
    BY <1>4, <2>1 DEF Inside, ActRecord
  <2>3. ASSUME NEW n \in 1..Len(a.events), n = b.k, b.i > 1,
               a.events[n].fd = state.fd, a.events[n].type \cap ClosingTypes # {}
        PROVE  state.fd \notin rx'
    <3>1. Current(c).fd = state.fd
      BY <2>1, <2>3 DEF Current
    <3> QED BY <1>5, <1>7, <2>1, <2>2, <2>3, <3>1
  <2>4. HandlerInv'
    BY <1>7 DEF HandlerInv
  <2> QED BY <1>7, <2>1, <2>2, <2>3, <2>4, FreshFrame
<1>8. ASSUME ObsHandlerThrows(c), m_mutex' = NoThread, UNCHANGED <<state, ksock>>
      PROVE  FreshInv'
  <2>1. a.pc = "running" /\ b.events = a.events /\ b.k = a.k + 1 /\ b.i = 1
    <3> DEFINE un == UnhandledAfter(c)
    <3> HIDE DEF un
    <3>1. act \in [Threads -> ActRecord]
      BY DEF ObsInv, ObsTypeOK
    <3> QED BY <1>8, <3>1 DEF ObsHandlerThrows, ActRecord, un
  <2>2. a.pc \in Inside /\ b.k >= a.k
    BY <1>4, <2>1 DEF Inside, ActRecord
  <2>3. HandlerInv'
    BY <1>8 DEF HandlerInv
  <2> QED BY <1>8, <2>1, <2>2, <2>3, FreshFrame
<1>9. ASSUME InProceed(c) PROVE FreshInv'
  <2>1. CASE HandlerIgnores(c)
    BY <1>7, <2>1 DEF HandlerIgnores, HandlerLocks, get_fd, kernelVars, clientVars
  <2>2. CASE HandlerFindsNone(c)
    <3>1. a.pc = "running" /\ m_mutex = c /\ handling.pc = "test" /\ ObsHandlerReturns(c)
          /\ m_mutex' = NoThread /\ UNCHANGED <<state, ksock, rx>>
      BY <2>2 DEF HandlerFindsNone, HandlerAt, kernelVars
    <3>2. a.cur # "read"
      BY <3>1 DEF FreshInv, HandlerInv, Inside
    <3>3. a.i > 1
      BY <3>1, <3>2, RunningClient
    <3> QED BY <1>7, <3>1, <3>3
  <2>3. CASE HandlerCallsEmpty(c)
    BY <1>8, <2>3 DEF HandlerCallsEmpty, kernelVars
  <2>4. CASE CallbackThrows(c)
    BY <1>8, <2>4 DEF CallbackThrows, kernelVars
  <2>5. CASE HandlerMatches(c) \/ HandlerFindsSome(c) \/ HandlerCalls(c)
    <3>1. a.pc = "running" /\ UNCHANGED <<act, state, ksock, rx>>
      BY <2>5 DEF HandlerMatches, HandlerFindsSome, HandlerCalls, HandlerLocks, HandlerAt,
                  obsVars, kernelVars
    <3>2. HandlerInv'
      <4>1. CASE HandlerMatches(c)
        BY <3>1, <4>1 DEF HandlerMatches, HandlerInv, Current, get_fd
      <4>2. CASE HandlerFindsSome(c) \/ HandlerCalls(c)
        <5>1. m_mutex = c /\ handling'.pc # "test"
          BY <4>2 DEF HandlerFindsSome, HandlerCalls, HandlerAt, TypeOK, ClientTypeOK
        <5>2. Current(c).fd = state.fd
          BY <3>1, <5>1 DEF FreshInv, HandlerInv, Inside
        <5> QED BY <3>1, <5>1, <5>2 DEF HandlerInv, Current
      <4> QED BY <2>5, <4>1, <4>2
    <3> QED BY <3>1, <3>2 DEF FreshInv
  <2>6. CASE CallbackReturns(c)
    <3>1. /\ a.pc = "running" /\ ObsHandlerReturns(c) /\ m_mutex' = NoThread
          /\ UNCHANGED <<state, ksock>>
          /\ a.cur = "read" => rx' = rx \ {Current(c).fd}
          /\ a.cur # "read" => rx' = rx
      BY <2>6 DEF CallbackReturns, InCallback, HandlerAt
    <3>2. a.cur # "read" => a.i > 1
      BY <3>1, RunningClient
    <3> QED BY <1>7, <3>1, <3>2
  <2> QED BY <1>6, <1>9, <2>1, <2>2, <2>3, <2>4, <2>5, <2>6 DEF InProceed
<1>10. CASE Network
  <2> SUFFICES ASSUME a.pc \in Inside PROVE FreshInv'
    BY <1>10 DEF Network, obsVars, FreshInv
  <2>1. UNCHANGED <<act, m_mutex, state>>
    BY <1>10 DEF Network, obsVars, clientVars
  <2>2. state.fd \in Fds
    BY DEF FreshInv, ActiveInv
  <2>3. /\ ksock[state.fd] \in DownState =>
              ksock'[state.fd] \in DownState /\ (state.fd \in rx' => state.fd \in rx)
        /\ ksock[state.fd] = "urgent" => ksock'[state.fd] \in DownState \cup {"urgent"}
    BY <1>10, <2>2, NetworkStep DEF TypeOK
  <2>4. ASSUME NEW n \in 1..Len(a.events), n = a.k, a.i > 1,
               a.events[n].fd = state.fd, a.events[n].type \cap ClosingTypes # {}
        PROVE  state.fd \notin rx'
    <3>1. n >= a.k
      BY <1>4, <2>4 DEF ActRecord
    <3> QED BY <2>3, <2>4, <3>1 DEF FreshInv
  <2>5. a.k >= a.k
    BY <1>4 DEF ActRecord
  <2>6. HandlerInv'
    BY <1>10, <2>1 DEF Network, HandlerInv, Current, FreshInv, clientVars
  <2> QED BY <2>1, <2>3, <2>4, <2>5, <2>6, FreshFrame
<1>11. CASE UNCHANGED vars
  BY <1>11 DEF vars, obsVars, kernelVars, clientVars, FreshInv, HandlerInv, Current
<1> QED BY <1>1, <1>2, <1>3, <1>9, <1>10, <1>11 DEF Next

\* The handlers and the sockets of the client, for any number of pollers.
THEOREM ActiveSockets == Spec => [](HandlersInv /\ ActiveInv)
<1>1. Init => HandlersInv /\ ActiveInv
  BY DEF Init, ObsInit, KernelInit, EpollInit, NoOp, UnlockedPcs, HandlersInv, ActiveInv
<1>2. ObsInv /\ TypeOK /\ LockInv /\ RemoteInv /\ HandlersInv /\ ActiveInv /\ [Next]_vars
        => (HandlersInv /\ ActiveInv)'
  BY HandlersStep, ActiveStep
<1> QED BY <1>1, <1>2, ClientInvariant, PTL DEF Spec

\* FreshInv holds of a client that its own thread polls once it is connected.
LEMMA FreshAlways ==
    ASSUME Pollers = {Controller}, ConnectFirst
    PROVE  Spec => []FreshInv
<1>1. Init => FreshInv
  BY ClientAssumption DEF Init, ObsInit, Outside, FreshInv, Inside
<1>2. /\ ObsInv /\ TypeOK /\ LockInv /\ RemoteInv /\ HandlersInv /\ ActiveInv /\ FreshInv
      /\ ObsInv' /\ [Next]_vars
      => FreshInv'
  BY FreshStep
<1> QED BY <1>1, <1>2, ClientInvariant, ActiveSockets, PTL DEF Spec

\* Where the server sends no urgent data no socket has any (kernel, external).
LEMMA CalmStep ==
    ASSUME KernelTypeOK, Calm, [Next]_vars
    PROVE  Calm'
<1> USE ClientAssumption
<1>1. ASSUME ksock' = ksock PROVE Calm'
  BY <1>1 DEF Calm
<1>2. ASSUME NEW fds, Close(fds) PROVE Calm'
  BY <1>2 DEF Close, Calm
<1>3. CASE (\E bound \in BOOLEAN : Start(bound)) \/ ConnectSocket
  BY <1>3 DEF Start, ConnectSocket, Calm, KernelTypeOK
<1>4. CASE Stop \/ StoreSocket
  BY <1>2, <1>4 DEF Stop, StoreSocket
<1>5. CASE Network
  <2>1. PICK fd \in Fds : Establish(fd) \/ Refuse(fd) \/ PeerActs(fd)
    BY <1>5 DEF Network, PeerActs
  <2>2. CASE Establish(fd) \/ Refuse(fd)
    BY <2>2 DEF Establish, Refuse, Calm, KernelTypeOK
  <2> QED BY <2>1, <2>2, PeerCalm
<1>6. ASSUME NEW t \in Pollers, Poll(t) \/ InProceed(t) PROVE Calm'
  BY <1>1, <1>6 DEF Poll, InProceed, HandlerIgnores, HandlerMatches, HandlerFindsNone,
     HandlerFindsSome, HandlerCallsEmpty, HandlerCalls, CallbackReturns, CallbackThrows,
     kernelVars
<1>7. CASE \/ ConnectReturnsFalse \/ ConnectActive \/ RegisterCb \/ WatchSocket
           \/ UnregisterCb \/ MoveSocket \/ SetRemote \/ SetCallback \/ AssignActive
           \/ UNCHANGED vars
  BY <1>1, <1>7 DEF ConnectReturnsFalse, ConnectActive, RegisterCb, WatchSocket, UnregisterCb,
     MoveSocket, SetRemote, SetCallback, AssignActive, vars, kernelVars
<1> QED BY <1>3, <1>4, <1>5, <1>6, <1>7 DEF Next, Control, InControl

LEMMA CalmAlways == Spec => []Calm
<1>1. Init => Calm
  BY DEF Init, KernelInit, Calm
<1>2. TypeOK /\ Calm /\ [Next]_vars => Calm'
  BY CalmStep DEF TypeOK
<1> QED BY <1>1, <1>2, ClientInvariant, PTL DEF Spec

\* Where the server sends no urgent data, on_disconnect is called for a
\* connection that has ended or was refused, and for no other, whatever the
\* callbacks throw and however often the client is stopped and connected again
\* (client.h:58, client.tpp:143-159).  The run client_urgent shows what urgent
\* data changes, and client_early_proceed what a poll before connect(): the
\* callbacks that stop() leaves in place are called for the socket the next
\* start() creates.
THEOREM DisconnectMeansDown ==
    ASSUME Pollers = {Controller}, ConnectFirst, ~UrgentData
    PROVE  Spec => []OnDisconnectMeansDown
<1>1. TypeOK /\ ObsInv /\ HandlersInv /\ FreshInv /\ Calm => OnDisconnectMeansDown
  <2> SUFFICES ASSUME TypeOK, ObsInv, HandlersInv, FreshInv, Calm, InCallback(Controller),
                      act[Controller].cur = "erase"
      PROVE  ksock[Current(Controller).fd] \in {"fin", "reset", "refused"}
    BY DEF OnDisconnectMeansDown
  <2>1. /\ act[Controller].k \in 1..Len(act[Controller].events)
        /\ Current(Controller).type \cap ErasingTypes # {} /\ act[Controller].pc = "running"
        /\ m_mutex = Controller
    BY RunningClient, ClientAssumption DEF InCallback, HandlerAt
  <2>2. act[Controller].k >= act[Controller].k
    BY <2>1
  <2>3. Current(Controller).fd = state.fd /\ Current(Controller).fd \in Fds
    BY <2>1, RunningHandler, ClientAssumption DEF FreshInv, HandlerInv, Inside, Event
  <2>4. ksock[state.fd] \in DownState \cup {"urgent"}
    BY <2>1, <2>2, <2>3 DEF FreshInv, Inside, Current
  <2> QED BY <2>3, <2>4 DEF Calm, DownState
<1> QED BY <1>1, FreshAlways, CalmAlways, ClientInvariant, ActiveSockets, PTL

\* All that the peer had sent is read before on_disconnect is called
\* (event_observer.tpp:84-89, client.tpp:143-167).
THEOREM ReadBeforeDisconnect ==
    ASSUME Pollers = {Controller}, ConnectFirst
    PROVE  Spec => []DataBeforeDisconnect
<1>1. ObsInv /\ HandlersInv /\ FreshInv => DataBeforeDisconnect
  <2> SUFFICES ASSUME ObsInv, HandlersInv, FreshInv, InCallback(Controller),
                      act[Controller].cur = "erase", Current(Controller).type \cap ClosingTypes # {}
      PROVE  Current(Controller).fd \notin rx
    BY DEF DataBeforeDisconnect, ClosingTypes
  <2>1. /\ act[Controller].k \in 1..Len(act[Controller].events)
        /\ act[Controller].i > 1 /\ act[Controller].pc = "running" /\ m_mutex = Controller
    BY RunningClient, ClientAssumption DEF InCallback, HandlerAt
  <2>2. act[Controller].k >= act[Controller].k
    BY <2>1
  <2> QED BY <2>1, <2>2 DEF FreshInv, HandlerInv, Inside, Current
<1> QED BY <1>1, FreshAlways, ClientInvariant, ActiveSockets, PTL

------------------------------------------------------------------------------
(***************************************************************************)
(* The protocol of the callbacks.  Once on_disconnect of a call of         *)
(* connect() has run, nothing is left in epoll or in the batch that could  *)
(* run another callback of that call.                                      *)
(***************************************************************************)
\* The endpoint still stores a callback of a call of connect() that is over.
CallsOver ==
    \E c \in {"connect", "read"} : cb[c] # 0 /\ calls[cb[c]].disconnects # 0

\* Nobody will run the read or the write handler for the endpoint's socket.
NotServed ==
    LET a == act[Controller]
    IN  /\ interest[state.fd] = {}
        /\ a.pc \in Inside =>
              \A n \in 1..Len(a.events) :
                  n >= a.k /\ a.events[n].fd = state.fd => n = a.k /\ a.i > 2

\* The callbacks that the connect() in progress has stored are not of a call that
\* is over.
StoredNew ==
    op.pc \in {"fields", "assign"} =>
        \A c \in {"connect", "read"} :
            ~Due(c) /\ cb[c] # 0 => calls[cb[c]].disconnects = 0

\* The erase handler has taken the socket out of epoll when it holds m_mutex.
ErasingUnwatched ==
    /\ act[Controller].pc = "running"
    /\ act[Controller].cur = "erase"
    /\ m_mutex = Controller
    => interest[state.fd] = {}

OverInv ==
    /\ \A m, n \in 1..Len(act[Controller].events) :
          act[Controller].events[m].fd = act[Controller].events[n].fd => m = n
    /\ proto = "udp" => \A s \in Sessions : calls[s].disconnects = 0
    /\ \A s \in Sessions : calls[s].last = "disconnect" => calls[s].disconnects # 0
    /\ op.pc \in {"register", "watch", "store"} => state.kind # "active"
    /\ StoredNew
    /\ ErasingUnwatched
    /\ state.kind = "active" /\ CallsOver => NotServed

\* A step keeps OverInv if the batch goes forward and nothing is watched anew.
LEMMA OverFrame ==
    ASSUME OverInv, ObsInv, ObsInv', TypeOK, UNCHANGED <<proto, calls, state>>,
           \A c \in Callbacks : cb'[c] \in {cb[c], 0},
           op'.pc \in {"register", "watch", "store"} => state.kind # "active",
           StoredNew', ErasingUnwatched',
           state.kind = "active" /\ interest[state.fd] = {} => interest'[state.fd] = {},
           act'[Controller].events \in {act[Controller].events, << >>},
           act'[Controller].pc \in Inside =>
              /\ act[Controller].pc \in Inside
              /\ act'[Controller].events = act[Controller].events
              /\ \/ /\ act'[Controller].k = act[Controller].k
                    /\ act'[Controller].i >= act[Controller].i
                 \/ act'[Controller].k = act[Controller].k + 1
    PROVE  OverInv'
<1> DEFINE a == act[Controller]
           b == act'[Controller]
<1> USE ClientAssumption
<1>1. a \in ActRecord /\ b \in ActRecord
  BY DEF ObsInv, ObsTypeOK
<1>2. CallsOver' => CallsOver
  BY DEF CallsOver, Callbacks
<1>3. \A m, n \in 1..Len(b.events) : b.events[m].fd = b.events[n].fd => m = n
  BY <1>1 DEF OverInv
<1>4. ASSUME state.kind = "active", CallsOver, b.pc \in Inside, NEW n \in 1..Len(b.events),
             n >= b.k, b.events[n].fd = state.fd
      PROVE  n = b.k /\ b.i > 2
  <2>1. /\ a.pc \in Inside /\ b.events = a.events
        /\ (b.k = a.k /\ b.i >= a.i) \/ b.k = a.k + 1
    BY <1>4
  <2>2. /\ a.k \in Nat /\ b.k \in Nat /\ a.i \in Nat /\ b.i \in Nat
    BY <1>1 DEF ActRecord, Steps
  <2>3. \A m \in 1..Len(a.events) : m >= a.k /\ a.events[m].fd = state.fd => m = a.k /\ a.i > 2
    BY <1>4, <2>1 DEF OverInv, NotServed
  <2> HIDE DEF a, b
  <2> QED BY <1>4, <2>1, <2>2, <2>3
<1>5. state.kind = "active" /\ CallsOver => NotServed'
  <2> SUFFICES ASSUME state.kind = "active", CallsOver PROVE NotServed'
    OBVIOUS
  <2>1. interest'[state.fd] = {}
    BY DEF OverInv, NotServed
  <2> QED BY <1>4, <2>1 DEF NotServed
<1> QED BY <1>2, <1>3, <1>5 DEF OverInv

\* Every step of a client that its own thread polls keeps OverInv: the erase
\* handler takes the socket out of epoll before it calls on_disconnect, and it
\* is the last of the handlers that handle_event tries (client.tpp:143-159,
\* event_observer.tpp:82-94).
LEMMA OverStep ==
    ASSUME Pollers = {Controller}, ConnectFirst, MayThrow \subseteq {"read"}, TypeOK, TypeOK', ObsInv, ObsInv', LockInv,
           RemoteInv, HandlersInv, ActiveInv, FreshInv, OnceInv, OverInv, [Next]_vars
    PROVE  OverInv'
<1> DEFINE c == Controller
           a == act[c]
           b == act'[c]
<1> USE ClientAssumption
<1>1. /\ c \in Threads /\ a \in ActRecord /\ b \in ActRecord /\ ObsTypeOK
      /\ a.k \in Nat /\ a.i \in Nat
  BY DEF ObsInv, ObsTypeOK, ActRecord
<1>2. \A f \in {"connect", "read"} : cb[f] # 0 => cb[f] \in Sessions
  BY DEF TypeOK, ClientTypeOK, OpTypeOK, Sessions, Callbacks
<1>3. proto = "udp" => ~CallsOver
  BY <1>2 DEF CallsOver, OverInv
<1>4. ASSUME UNCHANGED <<act, proto, calls, cb, state>>, StoredNew', ErasingUnwatched',
             op'.pc \in {"register", "watch", "store"} => state.kind # "active",
             state.kind = "active" /\ interest[state.fd] = {} => interest'[state.fd] = {}
      PROVE  OverInv'
  <2>1. a.i >= a.i
    BY <1>1
  <2> QED BY <1>4, <2>1, OverFrame
<1>5. ASSUME UNCHANGED <<act, proto, calls>>, ~CallsOver' \/ state'.kind # "active",
             op'.pc \notin {"register", "watch", "store"}, StoredNew', ErasingUnwatched'
      PROVE  OverInv'
  BY <1>5 DEF OverInv
<1>30. /\ op'.pc \notin {"fields", "assign"} => StoredNew'
       /\ \/ act'[c].pc # "running" \/ m_mutex' # c => ErasingUnwatched'
  BY DEF StoredNew, ErasingUnwatched
<1>31. ASSUME Control \/ InControl PROVE act[c].pc = "out" /\ act'[c].pc = "out"
  <2>1. act[c].pc = "out"
    BY <1>31 DEF Control, Start, Stop, ConnectReturnsFalse, ConnectSocket, ConnectActive,
         ControllerFree, InControl, RegisterCb, WatchSocket, StoreSocket, UnregisterCb,
         MoveSocket, SetRemote, SetCallback, AssignActive, LockInv, NoOp
  <2>2. act' = act
    BY <1>31 DEF Control, Start, Stop, ConnectReturnsFalse, ConnectSocket, ConnectActive,
         InControl, RegisterCb, WatchSocket, StoreSocket, UnregisterCb, MoveSocket, SetRemote,
         SetCallback, AssignActive, add, remove, obsVars
  <2> QED BY <2>1, <2>2
<1>32. ASSUME Control \/ InControl PROVE ErasingUnwatched'
  BY <1>30, <1>31, <1>32
<1>6. CASE \E bound \in BOOLEAN : Start(bound)
  <2>1. /\ op'.pc = "register" /\ state.kind # "active"
        /\ UNCHANGED <<act, proto, calls, cb, state, interest>>
    BY <1>6 DEF Start, idle, obsVars, epollVars
  <2>2. ErasingUnwatched'
    BY <1>6, <1>32 DEF Control
  <2>3. StoredNew'
    BY <1>30, <2>1
  <2> QED BY <1>4, <2>1, <2>2, <2>3
<1>7. CASE RegisterCb
  <2>1. op.pc = "register" /\ op'.pc \in {"register", "watch"}
    BY <1>7 DEF RegisterCb, TypeOK, ClientTypeOK, OpTypeOK
  <2> QED BY <1>4, <1>7, <1>30, <1>32, <2>1 DEF InControl, RegisterCb, add, epollVars, OverInv
<1>8. CASE WatchSocket
  <2>1. op.pc = "watch" /\ op'.pc = "store" /\ state.kind # "active"
    BY <1>8 DEF WatchSocket, TypeOK, ClientTypeOK, OpTypeOK, OverInv
  <2> QED BY <1>4, <1>8, <1>30, <1>32, <2>1 DEF InControl, WatchSocket, obsVars
<1>9. CASE StoreSocket
  <2>1. /\ UNCHANGED <<act, proto, calls, cb>> /\ state'.kind = op.kind /\ op'.pc = "none"
        /\ op.pc = "store"
    BY <1>9 DEF StoreSocket, obsVars, NoOp
  <2>2. op.kind = "active" => proto = "udp"
    BY <2>1 DEF RemoteInv, TypeOK, ClientTypeOK
  <2>3. CallsOver' => CallsOver
    BY <2>1 DEF CallsOver
  <2> QED BY <1>3, <1>5, <1>9, <1>30, <1>32, <2>1, <2>2, <2>3 DEF InControl
<1>10. CASE Stop
  <2>1. UNCHANGED <<act, proto, calls>> /\ state'.kind = "idle" /\ op'.pc = "unregister"
    BY <1>10 DEF Stop, obsVars, NoOp
  <2> QED BY <1>5, <1>10, <1>30, <1>32, <2>1 DEF Control
<1>11. CASE UnregisterCb
  <2>1. op.pc = "unregister" /\ op'.pc \in {"unregister", "none"}
    BY <1>11 DEF UnregisterCb, TypeOK, ClientTypeOK, OpTypeOK, NoOp
  <2> QED BY <1>4, <1>11, <1>30, <1>32, <2>1 DEF InControl, UnregisterCb, remove, epollVars
<1>12. CASE ConnectReturnsFalse \/ ConnectActive
  <2>1. op'.pc \in {"none", "remote"} /\ UNCHANGED <<act, proto, calls, cb, state, interest>>
    BY <1>12 DEF ConnectReturnsFalse, ConnectActive, ControllerFree, NoOp, obsVars, epollVars
  <2> QED BY <1>4, <1>12, <1>30, <1>32, <2>1 DEF Control
<1>13. CASE ConnectSocket
  <2>1. /\ UNCHANGED <<act, proto, calls>> /\ op'.pc = "moving" /\ state'.kind # "active"
    BY <1>13 DEF ConnectSocket, NoOp, obsVars, TypeOK, ClientTypeOK
  <2> QED BY <1>5, <1>13, <1>30, <1>32, <2>1 DEF Control
<1>14. CASE MoveSocket
  <2>1. /\ UNCHANGED <<act, proto, calls>> /\ op.pc = "moving" /\ op'.pc = "remote"
        /\ state'.kind = state.kind
    BY <1>14 DEF MoveSocket, obsVars, TypeOK, ClientTypeOK, OpTypeOK
  <2>2. state.kind # "active"
    BY <2>1 DEF ActiveInv
  <2> QED BY <1>5, <1>14, <1>30, <1>32, <2>1, <2>2 DEF InControl
<1>33. CASE SetRemote
  <2>1. /\ UNCHANGED <<act, proto, calls, cb, state, interest>> /\ op.pc = "remote"
        /\ op'.pc = "fields" /\ op'.n = 1
    BY <1>33 DEF SetRemote, obsVars, epollVars, TypeOK, ClientTypeOK, OpTypeOK
  <2>2. StoredNew'
    BY <2>1 DEF StoredNew, Due, FieldPlace
  <2> QED BY <1>4, <1>32, <1>33, <2>1, <2>2 DEF InControl
<1>34. CASE SetCallback
  <2>1. /\ UNCHANGED <<act, proto, calls, connects, state, interest>>
        /\ op.pc = "fields" /\ op.n \in 1..3
        /\ op'.pc \in {"fields", "assign", "none"}
        /\ op'.pc = "fields" => op'.n = op.n + 1
        /\ op'.pc # "fields" => op.n = 3
    BY <1>34 DEF SetCallback, NoOp, obsVars, epollVars, TypeOK, ClientTypeOK, OpTypeOK
  <2>2. PICK s \in FieldSources : cb' = [cb EXCEPT ![FieldOrder[op.n]] = s]
    BY <1>34 DEF SetCallback
  <2>3. connects \in Sessions /\ calls[connects].disconnects = 0 /\ s \in {connects, 0}
    BY <2>1 DEF FieldSources, FieldPlace, Due, OnceInv, RemoteInv, UnlockedPcs, Sessions,
                TypeOK, ClientTypeOK
  <2>4. ASSUME NEW f \in {"connect", "read"}
        PROVE  cb'[f] \in {cb[f], connects, 0} /\ (FieldPlace[f] = op.n => cb'[f] \in {connects, 0})
    BY <2>1, <2>2, <2>3 DEF FieldOrder, FieldPlace, Callbacks, TypeOK, ClientTypeOK
  <2>5. CallsOver' => CallsOver
    BY <2>1, <2>3, <2>4 DEF CallsOver
  <2>6. StoredNew'
    <3> SUFFICES ASSUME op'.pc \in {"fields", "assign"}, NEW f \in {"connect", "read"},
                        ~Due(f)', cb'[f] # 0
        PROVE  calls[cb'[f]].disconnects = 0
      BY <2>1 DEF StoredNew
    <3>1. FieldPlace[f] <= op.n
      BY <2>1 DEF Due, FieldPlace
    <3>2. CASE FieldPlace[f] = op.n
      BY <2>3, <2>4, <3>2
    <3>3. CASE FieldPlace[f] < op.n
      <4>1. ~Due(f)
        BY <2>1, <3>3 DEF Due, FieldPlace
      <4> QED BY <2>1, <2>3, <2>4, <4>1 DEF OverInv, StoredNew
    <3> QED BY <2>1, <3>1, <3>2, <3>3 DEF FieldPlace
  <2>7. ErasingUnwatched' /\ op'.pc \notin {"register", "watch", "store"}
    BY <1>32, <1>34, <2>1 DEF InControl
  <2>8. state.kind = "active" /\ CallsOver' => NotServed'
    BY <2>1, <2>5 DEF OverInv, NotServed
  <2> QED BY <2>1, <2>6, <2>7, <2>8 DEF OverInv
<1>15. CASE AssignActive
  <2>1. UNCHANGED <<act, proto, calls, cb>> /\ op.pc = "assign" /\ op'.pc = "none"
    BY <1>15 DEF AssignActive, NoOp, obsVars
  <2>2. ~CallsOver'
    BY <2>1 DEF OverInv, StoredNew, Due, CallsOver
  <2> QED BY <1>5, <1>15, <1>30, <1>32, <2>1, <2>2 DEF InControl
<1>16. ASSUME Poll(c) PROVE OverInv'
  <2>1. PICK take \in Takes(Raised) : /\ proceed(take, Raised)
                                      /\ ObsPoll(c, EventsOf(take, Raised))
    BY <1>16 DEF Poll
  <2> DEFINE events == EventsOf(take, Raised)
  <2>2. /\ \A j \in 1..Len(events) : Reported(events[j].fd, Raised) # {}
        /\ \A i, j \in 1..Len(events) : events[i].fd = events[j].fd => i = j
    BY TakenEvents DEF TypeOK
  <2>3. b.events = events
    BY <1>1, <2>1 DEF ObsPoll, Outside, ObsTypeOK
  <2> HIDE DEF events
  <2>4. UNCHANGED <<interest, proto, calls, cb, state, op>>
    BY <1>16, <2>1 DEF Poll, proceed, clientVars
  <2>8. ErasingUnwatched' /\ StoredNew'
    <3>1. b.pc = "polled"
      BY <1>1, <2>1, PhaseSteps
    <3> QED BY <1>30, <2>4, <3>1 DEF OverInv, StoredNew, Due
  <2>5. CallsOver' => CallsOver
    BY <2>4 DEF CallsOver
  <2>6. ASSUME state.kind = "active", CallsOver PROVE NotServed'
    <3>1. interest[state.fd] = {}
      BY <2>6 DEF OverInv, NotServed
    <3>2. \A j \in 1..Len(events) : events[j].fd # state.fd
      BY <2>2, <3>1 DEF Reported
    <3> QED BY <2>3, <2>4, <3>1, <3>2 DEF NotServed
  <2>7. \A m, n \in 1..Len(b.events) : b.events[m].fd = b.events[n].fd => m = n
    BY <2>2, <2>3
  <2> QED BY <2>4, <2>5, <2>6, <2>7, <2>8 DEF OverInv
<1>35. ASSUME UNCHANGED <<calls, op>>, \A f \in Callbacks : cb'[f] \in {cb[f], 0}
       PROVE  StoredNew'
  BY <1>35 DEF OverInv, StoredNew, Due, Callbacks
<1>17. ASSUME UNCHANGED <<proto, calls, state, op>>,
              \A f \in Callbacks : cb'[f] \in {cb[f], 0},
              state.kind = "active" /\ interest[state.fd] = {} => interest'[state.fd] = {},
              m_mutex' # c, ObsStep(c) \/ ObsHandlerReturns(c)
       PROVE  OverInv'
  <2>1. /\ b.pc = "out" => b.events = << >>
        /\ b.pc # "out" => /\ b.events = a.events
                           /\ (b.k = a.k /\ b.i >= a.i) \/ b.k = a.k + 1
                           /\ b.pc \in Inside => a.pc \in Inside
    BY <1>17, ForwardSteps DEF Inside
  <2> QED BY <1>17, <1>30, <1>35, <2>1, OverFrame DEF Inside, OverInv
<1>18. ASSUME UNCHANGED <<proto, calls, state, op, cb, interest>>, m_mutex' # c,
              ObsHandlerThrows(c)
       PROVE  OverInv'
  <2>1. a.pc = "running" /\ b.events = a.events /\ b.k = a.k + 1
    <3> DEFINE un == UnhandledAfter(c)
    <3> HIDE DEF un
    <3>1. act \in [Threads -> ActRecord]
      BY DEF ObsInv, ObsTypeOK
    <3> QED BY <1>18, <3>1 DEF ObsHandlerThrows, ActRecord, un
  <2> QED BY <1>18, <1>30, <1>35, <2>1, OverFrame DEF Inside, OverInv
<1>19. state.kind = "active" /\ del_socket(state.fd) => interest'[state.fd] = {}
  BY UnwatchStep DEF TypeOK, del_socket, ActiveInv
<1>20. CASE HandlerIgnores(c)
  BY <1>17, <1>20 DEF HandlerIgnores, HandlerLocks, epollVars, clientVars
<1>21. CASE HandlerFindsNone(c)
  BY <1>17, <1>21 DEF HandlerFindsNone, epollVars
<1>22. CASE HandlerCallsEmpty(c)
  BY <1>18, <1>22 DEF HandlerCallsEmpty, epollVars
<1>23. CASE CallbackReturns(c)
  <2>1. \A f \in Callbacks : cb'[f] \in {cb[f], 0}
    BY <1>23 DEF CallbackReturns, TypeOK, ClientTypeOK
  <2> QED BY <1>17, <1>23, <2>1 DEF CallbackReturns, epollVars
<1>24. CASE CallbackThrows(c)
  <2>1. HandledCb(c) = "read"
    BY <1>24 DEF CallbackThrows
  <2>2. calls' = calls
    BY <1>24, <2>1, RetractedType DEF CallbackThrows, Callbacks, TypeOK
  <2> QED BY <1>18, <1>24, <2>2 DEF CallbackThrows, epollVars
<1>25. ASSUME ObsStep(c), UNCHANGED <<epollVars, kernelVars, clientVars>> PROVE OverInv'
  <2>1. m_mutex # c
    BY <1>1, <1>25, PhaseSteps DEF LockInv
  <2> QED BY <1>17, <1>25, <2>1 DEF epollVars, clientVars
<1>36. CASE HandlerMatches(c)
  <2>1. /\ UNCHANGED <<act, proto, calls, cb, state, op>> /\ a.pc = "running"
        /\ IF a.cur = "erase" THEN del_socket(state.fd) ELSE UNCHANGED epollVars
    BY <1>36 DEF HandlerMatches, HandlerLocks, get_fd, obsVars
  <2>2. state.kind = "active"
    BY <2>1 DEF FreshInv, Inside
  <2>3. interest'[state.fd] = {} \/ (a.cur # "erase" /\ interest' = interest)
    BY <1>19, <2>1, <2>2 DEF epollVars
  <2>4. ErasingUnwatched'
    BY <2>1, <2>3 DEF ErasingUnwatched
  <2>5. StoredNew' /\ (op'.pc \in {"register", "watch", "store"} => state.kind # "active")
    BY <2>1 DEF OverInv, StoredNew, Due
  <2> QED BY <1>4, <2>1, <2>3, <2>4, <2>5
<1>37. CASE HandlerFindsSome(c)
  <2>1. UNCHANGED <<act, proto, calls, cb, state, op, interest, m_mutex>>
    BY <1>37 DEF HandlerFindsSome, obsVars, epollVars
  <2>2. StoredNew' /\ ErasingUnwatched' /\ (op'.pc \in {"register", "watch", "store"} => state.kind # "active")
    BY <2>1 DEF OverInv, StoredNew, ErasingUnwatched, Due
  <2> QED BY <1>4, <2>1, <2>2
<1>26. CASE HandlerCalls(c)
  <2>1. /\ UNCHANGED <<act, proto, state, op, cb, ksock, interest, m_mutex>>
        /\ a.pc = "running" /\ m_mutex = c
    BY <1>26 DEF HandlerCalls, HandlerAt, obsVars, kernelVars, epollVars
  <2>2. PICK f \in Callbacks : f = HandledCb(c)
    BY <1>1, <2>1, RunningHandler
  <2>3. f = "disconnect" <=> a.cur = "erase"
    BY <1>1, <2>1, <2>2, RunningHandler DEF HandledCb, CallbackOf
  <2>4. PICK s \in Sessions : s = cb[f] /\ s # 0
    BY <1>26, <2>2 DEF HandlerCalls, TypeOK, ClientTypeOK, Sessions
  <2>5. /\ \A u \in Sessions \ {s} : calls'[u] = calls[u]
        /\ calls'[s].disconnects =
              IF f = "disconnect" THEN More(calls[s].disconnects) ELSE calls[s].disconnects
        /\ calls'[s].last = f
    <3>1. /\ \A u \in Sessions \ {s} : Noted(s, f)[u] = calls[u]
          /\ Noted(s, f)[s].disconnects =
                IF f = "disconnect" THEN More(calls[s].disconnects) ELSE calls[s].disconnects
      BY NotedType DEF TypeOK
    <3>2. Noted(s, f)[s].last = f
      BY DEF Noted, TypeOK, ClientTypeOK
    <3>3. calls' = Noted(s, f)
      BY <1>26, <2>2, <2>4 DEF HandlerCalls
    <3> QED BY <3>1, <3>2, <3>3
  <2>6. /\ a.k \in 1..Len(a.events) /\ a.k >= a.k
        /\ a.cur = "erase" => a.i > 2 /\ Current(c).type \cap ErasingTypes # {}
    BY <1>1, <2>1, RunningClient
  <2>7. /\ a.pc \in Inside /\ state.kind = "active" /\ a.events[a.k] = Current(c)
        /\ Current(c).fd = state.fd
    BY <2>1 DEF FreshInv, HandlerInv, Inside, Current
  <2>8. calls[s].disconnects \in 0..2
    BY DEF TypeOK, ClientTypeOK
  <2>9. \A u \in Sessions : calls'[u].last = "disconnect" => calls'[u].disconnects # 0
    BY <2>5, <2>8 DEF OverInv, More
  <2>10. ASSUME proto = "udp" PROVE a.cur # "erase"
    <3>1. state.fd \in Fds /\ ksock[state.fd] \in {"free", "udp"}
      BY <2>7, <2>10 DEF ActiveInv
    <3>2. a.cur = "erase" => ksock[state.fd] \in DownState \cup {"urgent"}
      BY <2>1, <2>6, <2>7 DEF FreshInv
    <3> QED BY <3>1, <3>2 DEF DownState
  <2>11. proto = "udp" => \A u \in Sessions : calls'[u].disconnects = 0
    BY <2>3, <2>5, <2>10 DEF OverInv
  <2>12. op = NoOp
    BY <2>1 DEF LockInv
  <2>15. /\ StoredNew' /\ ErasingUnwatched'
         /\ op'.pc \notin {"register", "watch", "store"}
    BY <1>30, <2>1, <2>12 DEF NoOp, OverInv, ErasingUnwatched
  <2>13. CASE a.cur = "erase"
    <3>1. interest'[state.fd] = {}
      BY <2>1, <2>13 DEF OverInv, ErasingUnwatched
    <3>2. \A n \in 1..Len(a.events) : a.events[n].fd = state.fd => n = a.k /\ a.i > 2
      BY <2>6, <2>7, <2>13 DEF OverInv
    <3>3. NotServed'
      BY <2>1, <3>1, <3>2 DEF NotServed
    <3> QED BY <2>1, <2>9, <2>11, <2>15, <3>3 DEF OverInv
  <2>14. CASE a.cur # "erase"
    <3>1. \A u \in Sessions : calls'[u].disconnects = calls[u].disconnects
      BY <2>3, <2>5, <2>14
    <3>2. CallsOver' => CallsOver
      BY <1>2, <2>1, <3>1 DEF CallsOver
    <3>3. NotServed => NotServed'
      BY <2>1 DEF NotServed
    <3> QED BY <2>1, <2>9, <2>11, <2>15, <3>2, <3>3 DEF OverInv
  <2> QED BY <2>13, <2>14
<1>27. CASE Network
  <2>1. UNCHANGED <<act, proto, calls, cb, state, op, m_mutex>> /\ interest' = interest
    BY <1>27, NetworkStep DEF Network, obsVars, clientVars, Establish, Refuse, Arrive,
         UrgentArrives, PeerCloses, PeerResets, Wake
  <2>2. StoredNew' /\ ErasingUnwatched'
    BY <2>1 DEF OverInv, StoredNew, ErasingUnwatched, Due
  <2> QED BY <1>4, <2>1, <2>2 DEF OverInv
<1>28. CASE UNCHANGED vars
  <2>1. UNCHANGED <<act, proto, calls, cb, state, op, m_mutex, interest>>
    BY <1>28 DEF vars, obsVars, epollVars, clientVars
  <2>2. StoredNew' /\ ErasingUnwatched'
    BY <2>1 DEF OverInv, StoredNew, ErasingUnwatched, Due
  <2> QED BY <1>4, <2>1, <2>2 DEF OverInv
<1>29. ASSUME InProceed(c) PROVE OverInv'
  BY <1>20, <1>21, <1>22, <1>23, <1>24, <1>25, <1>26, <1>29, <1>36, <1>37 DEF InProceed
<1> QED BY <1>6, <1>7, <1>8, <1>9, <1>10, <1>11, <1>12, <1>13, <1>14, <1>15, <1>16, <1>27,
           <1>28, <1>29, <1>33, <1>34
        DEF Next, Control, InControl

\* OverInv holds of a client that its own thread polls once it is connected,
\* and whose on_connect and on_disconnect do not throw.
LEMMA OverAlways ==
    ASSUME Pollers = {Controller}, ConnectFirst, MayThrow \subseteq {"read"}
    PROVE  Spec => []OverInv
<1>1. Init => OverInv
  BY ClientAssumption
     DEF Init, ObsInit, Outside, NoOp, Silent, Sessions, Callbacks, OverInv, CallsOver,
         StoredNew, ErasingUnwatched
<1>2. /\ TypeOK /\ TypeOK' /\ ObsInv /\ ObsInv' /\ LockInv /\ RemoteInv /\ HandlersInv
      /\ ActiveInv /\ FreshInv /\ OnceInv /\ OverInv /\ [Next]_vars
      => OverInv'
  BY OverStep
<1> QED BY <1>1, <1>2, ClientInvariant, ActiveSockets, FreshAlways, OnceAlways, PTL DEF Spec

\* A handler calls a callback of a session only as Session allows, and no other
\* step calls one (client.tpp:143-179).
LEMMA SessionStep ==
    ASSUME Pollers = {Controller}, ConnectFirst, MayThrow \subseteq {"read"}, TypeOK, ObsInv,
           HandlersInv, FreshInv, OnceInv, OverInv, [Next]_vars
    PROVE  SessionOf!SessionNext \/ UNCHANGED calls
<1> DEFINE c == Controller
           a == act[c]
           f == HandledCb(c)
           s == cb[f]
<1> USE ClientAssumption
<1>1. CASE HandlerCalls(c)
  <2>1. /\ a.pc = "running" /\ m_mutex = c /\ handling.pc = "call"
        /\ s # 0 /\ calls' = Noted(s, f)
    BY <1>1 DEF HandlerCalls, HandlerAt
  <2>10. Current(c).fd = state.fd /\ state.kind = "active"
    BY <2>1 DEF FreshInv, HandlerInv, Inside
  <2>2. a.cur \in {"erase", "read", "write"} /\ f \in Callbacks
    BY <2>1, RunningHandler
  <2>3. s \in Sessions
    <3>1. cb \in [Callbacks -> 0..MaxConnects]
      BY DEF TypeOK, ClientTypeOK
    <3>2. cb[f] # 0 /\ f \in Callbacks
      BY <2>1, <2>2
    <3> HIDE DEF f
    <3> QED BY <3>1, <3>2 DEF Sessions
  <2>4. /\ calls \in [Sessions -> [connects : 0..2, disconnects : 0..2,
                                   last : Callbacks \cup {"none"}]]
        /\ calls[s] \in [connects : 0..2, disconnects : 0..2, last : Callbacks \cup {"none"}]
    BY <2>3 DEF TypeOK, ClientTypeOK, OpTypeOK
  <2>5. \A d, u : ~Executes(d, u)
    BY <2>1 DEF Executes
  <2>6. f \in {"connect", "read"} => calls[s].last # "disconnect"
    <3> SUFFICES ASSUME f \in {"connect", "read"}, calls[s].last = "disconnect" PROVE FALSE
      OBVIOUS
    <3>1. CallsOver
      BY <2>1, <2>3 DEF OverInv, CallsOver
    <3>2. /\ a.k \in 1..Len(a.events) /\ a.k >= a.k
          /\ a.i <= 2
      <4>1. a.cur # "erase"
        BY DEF HandledCb, CallbackOf
      <4> QED BY <2>1, <4>1, RunningClient
    <3>3. a.i > 2
      BY <2>1, <2>10, <3>1, <3>2 DEF OverInv, NotServed, Inside, Current
    <3>4. a.i \in Nat
      BY DEF ObsInv, ObsTypeOK, ActRecord
    <3> QED BY <3>2, <3>3, <3>4
  <2> HIDE DEF a
  <2>7. CASE a.cur = "write"
    <3>1. f = "connect"
      BY <2>7 DEF HandledCb, CallbackOf, a
    <3>2. calls[s].connects = 0
      BY <2>1, <2>5, <3>1 DEF OnceInv
    <3>3. calls' = [calls EXCEPT ![s].connects = 1, ![s].last = "connect"]
      <4> HIDE DEF f, s
      <4>1. calls' = [calls EXCEPT ![s] = [connects |-> 1, disconnects |-> calls[s].disconnects,
                                               last |-> "connect"]]
        BY <2>1, <2>3, <2>4, <3>1, <3>2 DEF Noted, More
      <4> QED BY <2>3, <2>4, <4>1
    <3> QED BY <2>3, <2>6, <3>1, <3>2, <3>3 DEF SessionOf!SessionNext, SessionOf!OnConnect
  <2>8. CASE a.cur = "read"
    <3>1. f = "read"
      BY <2>8 DEF HandledCb, CallbackOf, a
    <3>2. calls' = [calls EXCEPT ![s].last = "read"]
      BY <2>1, <2>3, <2>4, <3>1 DEF Noted
    <3> QED BY <2>3, <2>6, <3>1, <3>2 DEF SessionOf!SessionNext, SessionOf!OnRead
  <2>9. CASE a.cur = "erase"
    <3>1. f = "disconnect"
      BY <2>9 DEF HandledCb, CallbackOf, a
    <3>2. calls[s].disconnects = 0
      BY <2>1, <2>5, <3>1 DEF OnceInv
    <3>3. calls' = [calls EXCEPT ![s].disconnects = 1, ![s].last = "disconnect"]
      <4> HIDE DEF f, s
      <4>1. calls' = [calls EXCEPT ![s] = [connects |-> calls[s].connects, disconnects |-> 1,
                                               last |-> "disconnect"]]
        BY <2>1, <2>3, <2>4, <3>1, <3>2 DEF Noted, More
      <4> QED BY <2>3, <2>4, <4>1
    <3> QED BY <2>3, <3>2, <3>3 DEF SessionOf!SessionNext, SessionOf!OnDisconnect
  <2> QED BY <2>2, <2>7, <2>8, <2>9
<1>2. ASSUME ~HandlerCalls(c) PROVE UNCHANGED calls
  <2>1. CASE Control \/ InControl \/ Network \/ UNCHANGED vars
    BY <2>1 DEF Control, Start, Stop, ConnectReturnsFalse, ConnectActive, ConnectSocket,
       InControl, RegisterCb, WatchSocket, StoreSocket, UnregisterCb, MoveSocket, SetRemote,
       SetCallback, AssignActive, Network, vars, clientVars
  <2>2. CASE CallbackThrows(c)
    <3>1. HandledCb(c) = "read"
      BY <2>2 DEF CallbackThrows
    <3> QED BY <2>2, <3>1, RetractedType DEF CallbackThrows, Callbacks, TypeOK
  <2>3. CASE (Poll(c) \/ InProceed(c)) /\ ~CallbackThrows(c)
    BY <1>2, <2>3 DEF Poll, InProceed, HandlerIgnores, HandlerMatches, HandlerFindsNone,
       HandlerFindsSome, HandlerCallsEmpty, CallbackReturns, clientVars
  <2> QED BY <2>1, <2>2, <2>3 DEF Next
<1> QED BY <1>1, <1>2

\* The callbacks of every call of connect() obey the protocol that connect()
\* documents, for any number of starts and connects of a client whose own
\* thread polls it once it is connected: the client implements Session.  A
\* callback that throws may be on_read_ready (client.h:52-66,
\* client.tpp:143-179).
THEOREM ClientImplementsSession ==
    ASSUME Pollers = {Controller}, ConnectFirst, MayThrow \subseteq {"read"}
    PROVE  Spec => CallbackProtocol
<1>1. Init => SessionOf!SessionInit
  BY DEF Init, Silent, SessionOf!SessionInit, SessionOf!Silent
<1>2. /\ TypeOK /\ ObsInv /\ HandlersInv /\ FreshInv /\ OnceInv /\ OverInv /\ [Next]_vars
      => [SessionOf!SessionNext]_calls
  BY SessionStep
<1> QED BY <1>1, <1>2, ClientInvariant, ActiveSockets, FreshAlways, OnceAlways, OverAlways, PTL
        DEF Spec, CallbackProtocol, SessionOf!SessionSpec
==============================================================================
