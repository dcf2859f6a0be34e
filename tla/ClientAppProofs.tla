--------------------------- MODULE ClientAppProofs --------------------------
(***************************************************************************)
(* Theorems of client_main, for any descriptors, messages and lines: the   *)
(* types, and that bytes are left unread without an edge only where        *)
(* UnreadHasEdge says so.                                                  *)
(***************************************************************************)
EXTENDS ClientApp, ClientProofs, SequenceTheorems

(***************************************************************************)
(* The inductive invariant.                                                *)
(***************************************************************************)
\* Where main() is, and what that says of the client: it is inside proceed()
\* only when it is connected, a signal has come only once it was, and nothing
\* stops the client.
MainInv ==
    /\ main \in {"poll", "proceed", "getline", "send", "done", "exited", "terminated",
                 "killed"}
    /\ main = "proceed" => Connected
    /\ act[Controller].pc # "out" => main \in {"proceed", "exited"}
    /\ handling.pc # "none" => Current(Controller).fd = state.fd
    /\ handling.pc = "test" => act[Controller].cur # "read"
    /\ op.pc # "unregister"
    /\ m_remote # 0 => connects > 0
    /\ ~main_loop => op = NoOp /\ starts > 0 /\ connects > 0

\* main() starts the client once, so there is one descriptor at most: the
\* endpoint's, or the one that start() or connect() is moving.
OneSocket ==
    /\ starts = 0 => state.kind = "idle" /\ op = NoOp
    /\ op.pc \in {"register", "watch", "store"} => state.kind = "idle"
    /\ op.pc = "moving" => op.fd = state.fd
    /\ op.pc \in {"remote", "fields", "assign"} =>
          IF op.kind = "active" THEN state.fd = NoFd ELSE op.fd = NoFd
    /\ \A fd \in Fds : ksock[fd] # "free" <=> fd \in {state.fd, op.fd}
    /\ \A fd \in rx : ksock[fd] # "free"

\* What recv() returns is in the receive buffer, and what the user typed is in
\* the descriptor or in stdio.
IOInv ==
    /\ StdinTypeOK /\ pipe \in Nat /\ buffered \in Nat
    /\ errno \in {"EAGAIN", "other"} /\ failed \subseteq Fds
    /\ inbox \in [Fds -> Seq({"bytes"})]
    /\ \A fd \in Fds : fd \in rx <=> inbox[fd] # << >>

\* The batch reports the endpoint's socket readable, and its on_read_ready has
\* not come back.
ReadDue ==
    LET a == act[Controller]
    IN  /\ a.pc \in Inside
        /\ \E n \in 1..Len(a.events) :
              /\ n >= a.k
              /\ a.events[n].fd = state.fd
              /\ "READ_READY" \in a.events[n].type
              /\ n = a.k => a.i = 1

\* Who has the edge of unread bytes.
ReadEdges == \A fd \in rx : interest[fd] # {} => fd \in ready \/ cut \/ ReadDue

\* The erase handler has taken the socket out and has yet to call.
Erasing ==
    /\ m_mutex = Controller
    /\ handling.pc \in {"test", "call"}
    /\ act[Controller].cur = "erase"

\* The socket is watched, once init() has added it, until on_disconnect.
WatchedUntilErased ==
    \A fd \in Fds : ksock[fd] # "free" /\ interest[fd] = {} =>
        op.pc \in {"register", "watch"} \/ Erasing \/ calls[1].disconnects > 0

\* The erase handler takes it out and calls on_disconnect, or had called it.
ErasedIsNoted ==
    /\ m_remote # 0 /\ op.pc # "fields" /\ cb["disconnect"] = 0 => calls[1].disconnects > 0
    /\ InCallback(Controller) /\ act[Controller].cur = "erase" => calls[1].disconnects > 0

EdgeInv == ReadEdges /\ WatchedUntilErased /\ ErasedIsNoted

\* The invariants of the client, as ClientProofs has them for any application.
ClientInvs == ObsInv /\ TypeOK /\ LockInv /\ RemoteInv /\ HandlersInv /\ ActiveInv

AppInv == ClientInvs /\ MainInv /\ OneSocket /\ IOInv /\ EdgeInv

------------------------------------------------------------------------------
(* The client's own invariants.                                             *)

\* A round of the loop of on_read_ready, as the client sees it
\* (client_main.cpp:38-50).
ReadRound ==
    /\ InRead(Controller)
    /\ \/ m_mutex' = NoThread /\ handling' = NoHandling /\ ObsHandlerReturns(Controller)
       \/ UNCHANGED <<m_mutex, handling, obsVars>>
    /\ UNCHANGED <<epollVars, ksock, proto, state, m_remote, cb, op, starts, connects, calls>>
    /\ rx' \subseteq rx

\* Every step of main() is a step of the client that Client has, a round of the
\* loop of on_read_ready, or the end.
LEMMA AppSteps ==
    ASSUME Pollers = {Controller}, [AppNext]_appState
    PROVE  [Next]_vars \/ ReadRound \/ Leave
<1> DEFINE c == Controller
<1>1. ASSUME RecvResponse(c) \/ RecvNothing(c) \/ RecvEof(c) PROVE ReadRound
  <2>1. rx' \subseteq rx /\ UNCHANGED ksock
    BY <1>1 DEF RecvResponse, RecvNothing, RecvEof, ReceivesData, WouldBlock, ReceivesError,
         ReceivesEof, kernelVars
  <2> QED BY <1>1, <2>1 DEF RecvResponse, RecvNothing, RecvEof, InLoop, Finished, ReadRound
<1>2. ASSUME InClient(c) PROVE [Next]_vars \/ ReadRound
  BY <1>1, <1>2 DEF InClient, Next, InProceed
<1>3. ASSUME Environment PROVE [Next]_vars
  <2>1. CASE UNCHANGED vars
    BY <2>1
  <2>2. ASSUME NEW fd \in Fds, Peer(fd), UNCHANGED <<obsVars, clientVars>> PROVE Network
    BY <2>2 DEF Peer, Delivers, Network
  <2> QED BY <1>3, <2>1, <2>2 DEF Environment, Next
<1>4. ASSUME Booting \/ ConnectFails \/ CallProceed PROVE [Next]_vars
  BY <1>4 DEF Booting, ConnectFails, CallProceed, Next, Control
<1>5. ASSUME SendLine PROVE UNCHANGED vars
  BY <1>5 DEF SendLine, Sends, SendFails, vars
<1>6. ASSUME StartFails \/ NoInput \/ HasInput \/ GetLine \/ SendKills \/ Signal
             \/ UNCHANGED appState
      PROVE  UNCHANGED vars
  BY <1>6 DEF StartFails, NoInput, HasInput, GetLine, SendKills, Signal, appState
<1> QED BY <1>2, <1>3, <1>4, <1>5, <1>6 DEF AppNext, Main

\* No thread is inside proceed() when main() returns.
LEMMA LeaveStep ==
    ASSUME Threads = {Controller}, ClientInvs, MainInv, Leave
    PROVE  /\ ClientInvs'
           /\ \A fd \in Fds : interest'[fd] = {}
           /\ rx' = rx \ {state.fd}
           /\ \A fd \in Fds : ksock'[fd] = IF fd = state.fd THEN "free" ELSE ksock[fd]
<1> USE ClientAssumption
<1>1. /\ act[Controller].pc = "out" /\ UNCHANGED <<act, sharers, proto, m_mutex, op, cb,
                                                   m_remote, handling, starts, connects, calls>>
      /\ m_handlers' \in [Keys -> Handlers \cup {NoHandler}]
      /\ \A key \in Keys : m_handlers'[key] \in {m_handlers[key], NoHandler}
      /\ state' = [kind |-> "idle", fd |-> NoFd]
  BY DEF Leave, At, MainInv, ClientInvs, TypeOK, ObsTypeOK
<1>2. sharers = {}
  BY <1>1 DEF ClientInvs, ObsInv, ObsTypeOK, LockDiscipline
<1>3. ObsInv'
  BY <1>1, <1>2, NoServerInv DEF ClientInvs
<1>4. EpollTypeOK' /\ \A fd \in Fds : interest'[fd] = {}
  BY UnwatchStep DEF Leave, ClientInvs, TypeOK
<1>5. /\ KernelTypeOK' /\ rx' = rx \ {state.fd}
      /\ \A fd \in Fds : ksock'[fd] = IF fd = state.fd THEN "free" ELSE ksock[fd]
  BY DEF Leave, Close, get_fd, ClientInvs, TypeOK, KernelTypeOK, SockState
<1>6. ClientTypeOK'
  <2>1. OpTypeOK'
    BY <1>1 DEF ClientInvs, TypeOK, ClientTypeOK, OpTypeOK
  <2> QED BY <1>1, <2>1 DEF ClientInvs, TypeOK, ClientTypeOK
<1>7. TypeOK'
  BY <1>3, <1>4, <1>5, <1>6 DEF TypeOK, ObsInv
<1>8. op = NoOp
  BY DEF Leave, MainInv
<1>9. \A t \in Threads : ~InCallback(t) /\ ~InCallback(t)'
  BY <1>1 DEF InCallback, HandlerAt
<1>10. LockInv'
  <2>1. m_mutex = NoThread /\ handling.pc = "none"
    BY <1>1, <1>8 DEF ClientInvs, TypeOK, ClientTypeOK, LockInv, LockedPcs, NoOp
  <2> QED BY <1>1, <1>8, <1>9, <2>1 DEF LockInv, StopIsBarrier, LockedPcs, NoOp
<1>11. RemoteInv'
  BY <1>1, <1>8 DEF ClientInvs, RemoteInv, ActiveHasRemote, UnlockedPcs, NoOp
<1>12. HandlersInv'
  BY <1>1, <1>8 DEF ClientInvs, HandlersInv, UnlockedPcs, NoOp
<1>13. ActiveInv'
  BY <1>1, <1>4, <1>5, <1>8 DEF ClientInvs, ActiveInv, UnlockedPcs, NoOp
<1> QED BY <1>1, <1>3, <1>4, <1>5, <1>7, <1>10, <1>11, <1>12, <1>13 DEF ClientInvs

\* on_read_ready holds m_mutex until it is finished (client.tpp:162-166).
LEMMA ReadRoundStep ==
    ASSUME ClientInvs, ReadRound
    PROVE  ClientInvs'
<1> USE ClientAssumption
<1> DEFINE c == Controller
<1>1. /\ c \in Threads /\ act[c].pc = "running" /\ m_mutex = c
      /\ UNCHANGED <<epollVars, ksock, proto, state, m_remote, cb, op, starts, connects, calls>>
  BY DEF ReadRound, InRead, InCallback, HandlerAt
<1>2. ObsInv' /\ m_handlers' = m_handlers
  BY <1>1, HandlerReturnsInv, ObsStutterInv
     DEF ReadRound, ClientInvs, ObsHandlerReturns, obsVars
<1>3. TypeOK'
  <2>1. handling' \in {handling, NoHandling} /\ m_mutex' \in {m_mutex, NoThread}
    BY DEF ReadRound
  <2>2. OpTypeOK'
    BY <1>1 DEF ClientInvs, TypeOK, ClientTypeOK, OpTypeOK
  <2>3. ClientTypeOK'
    BY <1>1, <2>1, <2>2 DEF ClientInvs, TypeOK, ClientTypeOK, NoHandling
  <2>4. EpollTypeOK' /\ KernelTypeOK'
    BY <1>1 DEF ReadRound, ClientInvs, TypeOK, EpollTypeOK, KernelTypeOK, epollVars
  <2> QED BY <1>2, <2>3, <2>4 DEF TypeOK, ObsInv
<1>4. LockInv'
  <2>1. CASE UNCHANGED <<m_mutex, handling, obsVars>>
    BY <1>1, <2>1 DEF ClientInvs, LockInv, StopIsBarrier, InCallback, HandlerAt, obsVars
  <2>2. CASE m_mutex' = NoThread /\ handling' = NoHandling /\ ObsHandlerReturns(c)
    <3>1. op.pc \notin LockedPcs /\ op = NoOp
      BY <1>1 DEF ClientInvs, LockInv
    <3> QED BY <1>1, <2>2, <3>1 DEF ClientInvs, LockInv, StopIsBarrier, InCallback, HandlerAt,
            NoHandling
  <2> QED BY <2>1, <2>2 DEF ReadRound
<1>5. RemoteInv' /\ HandlersInv' /\ ActiveInv'
  BY <1>1, <1>2 DEF ClientInvs, RemoteInv, ActiveHasRemote, HandlersInv, ActiveInv, epollVars
<1> QED BY <1>2, <1>3, <1>4, <1>5 DEF ClientInvs

\* The client's invariants hold under client_main.
LEMMA ClientInvsStep ==
    ASSUME Pollers = {Controller}, ClientInvs, MainInv, [AppNext]_appState
    PROVE  ClientInvs'
<1>1. CASE [Next]_vars
  BY <1>1, ClientNext, HandlersStep, ActiveStep DEF ClientInvs
<1> QED BY <1>1, AppSteps, ReadRoundStep, LeaveStep, AppAssumption

------------------------------------------------------------------------------
(* main().                                                                  *)

\* No handler runs while m_mutex is free.
LEMMA FreeOfHandlers ==
    ASSUME ClientInvs, m_mutex = NoThread \/ act[Controller].pc # "running"
    PROVE  handling.pc = "none"
BY AppAssumption, ClientAssumption DEF ClientInvs, TypeOK, ClientTypeOK, LockInv, LockedPcs, NoOp

\* The thread that leads a step of the observer runs no handler.
LEMMA StepsOutside ==
    ASSUME ClientInvs, ObsStep(Controller)
    PROVE  handling.pc = "none"
<1>1. act[Controller].pc # "running"
  BY PhaseSteps, ClientAssumption DEF ClientInvs, TypeOK
<1> QED BY <1>1, FreeOfHandlers

\* What MainInv says does not depend on anything else.
LEMMA MainFrame ==
    ASSUME MainInv, UNCHANGED <<state, m_remote, op, starts, connects, main_loop>>,
           UNCHANGED main \/ main' \in {"poll", "getline", "send", "exited", "terminated",
                                       "killed"},
           act'[Controller].pc # "out" => main' \in {"proceed", "exited"},
           handling'.pc # "none" =>
               /\ handling.pc # "none" /\ (handling'.pc = "test" => handling.pc = "test")
               /\ Current(Controller)' = Current(Controller)
               /\ act'[Controller].cur = act[Controller].cur
    PROVE  MainInv'
BY DEF MainInv, Connected

\* Every step keeps MainInv (client_main.cpp:19-27, 57-112).
LEMMA MainStep ==
    ASSUME Pollers = {Controller}, ConnectFirst, MaxStarts = 1, MaxConnects = 1,
           ClientInvs, MainInv, OneSocket, [AppNext]_appState
    PROVE  MainInv'
<1> DEFINE c == Controller
           a == act[c]
           b == act'[c]
<1> USE ClientAssumption
<1>1. starts \in 0..1 /\ connects \in 0..1 /\ m_remote \in 0..1
  BY DEF ClientInvs, TypeOK, ClientTypeOK
<1>2. ASSUME a.pc = "out", UNCHANGED <<act, main_loop>>, main' # "proceed",
             main' \in {"poll", "getline", "send", "terminated", "killed", "exited"},
             op'.pc # "unregister", m_remote' # 0 => connects' > 0,
             ~main_loop => UNCHANGED <<op, starts, connects>>, UNCHANGED handling
      PROVE  MainInv'
  <2>1. handling.pc = "none"
    BY <1>2, FreeOfHandlers
  <2> QED BY <1>2, <2>1 DEF MainInv
<1>3. CASE Booting
  <2>1. a.pc = "out" /\ UNCHANGED <<main, main_loop>> /\ main = "poll"
    BY <1>3 DEF Booting, MainInv, appVars
  <2>2. CASE \E bound \in BOOLEAN : Start(bound)
    BY <1>1, <1>2, <2>1, <2>2 DEF Start, obsVars, MainInv
  <2>3. CASE InControl
    <3>1. op # NoOp /\ UNCHANGED act /\ op'.pc # "unregister"
      BY <2>3 DEF InControl, RegisterCb, WatchSocket, StoreSocket, UnregisterCb, MoveSocket,
         SetRemote, SetCallback, AssignActive, add, obsVars, NoOp, MainInv, ClientInvs, TypeOK,
         ClientTypeOK, OpTypeOK
    <3>2. (m_remote' # 0 => connects' > 0) /\ UNCHANGED handling
      BY <1>1, <2>3, <3>1 DEF InControl, RegisterCb, WatchSocket, StoreSocket, UnregisterCb,
         MoveSocket, SetRemote, SetCallback, AssignActive, MainInv, ClientInvs, RemoteInv,
         UnlockedPcs
    <3> QED BY <1>2, <2>1, <3>1, <3>2 DEF MainInv
  <2>4. CASE ConnectSocket \/ ConnectActive
    <3>1. /\ UNCHANGED <<act, handling>> /\ op'.pc \in {"moving", "remote"}
          /\ connects' = connects + 1 /\ connects < MaxConnects
      BY <2>4 DEF ConnectSocket, ConnectActive, NoOp, obsVars
    <3> QED BY <1>1, <1>2, <2>1, <3>1 DEF MainInv
  <2> QED BY <1>3, <2>2, <2>3, <2>4 DEF Booting
<1>4. CASE ConnectFails
  <2>1. a.pc = "out"
    BY <1>4 DEF ConnectFails, At, MainInv
  <2> QED BY <1>1, <1>2, <1>4, <2>1 DEF ConnectFails, At, ConnectReturnsFalse, obsVars, MainInv
<1>5. ASSUME UNCHANGED vars, UNCHANGED main_loop, UNCHANGED main \/
             (a.pc = "out" /\ main' \in {"poll", "getline", "send", "terminated", "killed"})
      PROVE  MainInv'
  <2>1. UNCHANGED <<act, handling, state, m_remote, op, starts, connects, main_loop>>
    BY <1>5 DEF vars, obsVars, clientVars
  <2>2. Current(c)' = Current(c)
    BY <2>1 DEF Current
  <2>3. b.pc # "out" => main' \in {"proceed", "exited"}
    BY <1>5, <2>1 DEF MainInv
  <2> QED BY <1>5, <2>1, <2>2, <2>3, MainFrame
<1>6. CASE StartFails \/ NoInput \/ HasInput \/ GetLine \/ SendKills \/ UNCHANGED appState
  <2>1. UNCHANGED vars /\ UNCHANGED main_loop
    BY <1>6 DEF StartFails, NoInput, HasInput, GetLine, SendKills, appState, appVars
  <2>2. UNCHANGED main \/
           (a.pc = "out" /\ main' \in {"poll", "getline", "send", "terminated", "killed"})
    BY <1>6 DEF StartFails, NoInput, HasInput, GetLine, SendKills, At, MainInv, appState, appVars
  <2> QED BY <1>5, <2>1, <2>2
<1>7. CASE SendLine
  <2>1. a.pc = "out" /\ main' = "poll" /\ UNCHANGED <<obsVars, clientVars, main_loop>>
    BY <1>7 DEF SendLine, At, MainInv
  <2> QED BY <2>1, MainFrame DEF obsVars, clientVars, Current
<1>8. CASE Signal
  <2>1. /\ UNCHANGED vars /\ main_loop' = FALSE /\ main' \in {main, "exited"} /\ Connected
    BY <1>8 DEF Signal
  <2>2. starts > 0 /\ connects > 0 /\ op = NoOp
    BY <1>1, <2>1 DEF Connected, MainInv, OneSocket
  <2> QED BY <2>1, <2>2 DEF MainInv, vars, obsVars, clientVars, Connected, Current
<1>9. CASE Leave
  <2>1. /\ a.pc = "out" /\ main' = "done"
        /\ UNCHANGED <<act, main_loop, op, m_remote, handling, starts, connects>>
    BY <1>9 DEF Leave, At, MainInv
  <2> QED BY <2>1, FreeOfHandlers DEF MainInv
<1>10. CASE CallProceed
  <2>1. /\ Connected /\ UNCHANGED <<clientVars, main_loop>> /\ main' = "proceed"
        /\ a.pc = "out"
    BY <1>10 DEF CallProceed, Poll, ObsPoll, At, ClientInvs, TypeOK
  <2> QED BY <2>1, FreeOfHandlers DEF MainInv, clientVars, Connected
<1>11. ASSUME InClient(c) PROVE MainInv'
  <2>1. main = "proceed" /\ UNCHANGED <<main, main_loop>>
    BY <1>11 DEF InClient, RecvResponse, RecvNothing, RecvEof, InLoop, appVars
  <2>2. UNCHANGED <<state, m_remote, op, starts, connects>>
    BY <1>11 DEF InClient, RecvResponse, RecvNothing, RecvEof, InLoop, clientVars,
       HandlerIgnores, HandlerMatches, HandlerFindsNone, HandlerFindsSome, HandlerCalls,
       CallbackReturns
  <2>3. CASE (ObsStep(c) \/ HandlerIgnores(c)) /\ UNCHANGED clientVars
    <3>1. handling.pc = "none"
      BY <2>3, StepsOutside, FreeOfHandlers DEF HandlerIgnores, HandlerLocks
    <3> QED BY <2>1, <2>2, <2>3, <3>1, MainFrame DEF clientVars
  <2>4. CASE handling' = NoHandling
    BY <2>1, <2>2, <2>4, MainFrame DEF NoHandling
  <2>5. CASE UNCHANGED obsVars /\ handling'.pc \in {handling.pc, "call", "body"}
             /\ handling.pc # "none"
    <3>1. UNCHANGED act /\ Current(c)' = Current(c)
      BY <2>5 DEF Current, obsVars
    <3> QED BY <2>1, <2>2, <2>5, <3>1 DEF MainInv, Connected
  <2>6. CASE HandlerMatches(c)
    <3>1. /\ Current(c).fd = state.fd /\ UNCHANGED <<act, state>>
          /\ handling'.pc = "test" => a.cur # "read"
      BY <2>6 DEF HandlerMatches, get_fd, obsVars
    <3> QED BY <2>1, <2>2, <3>1 DEF MainInv, Connected, Current
  <2>7. CASE HandlerFindsSome(c) \/ HandlerCalls(c)
    <3>1. /\ UNCHANGED obsVars /\ handling'.pc \in {"call", "body"}
          /\ handling.pc # "none"
      <4>1. handling \in [pc : {"none", "test", "call", "body"}, s : 0..MaxConnects]
        BY DEF ClientInvs, TypeOK, ClientTypeOK
      <4> QED BY <2>7, <4>1 DEF HandlerFindsSome, HandlerCalls, HandlerAt
    <3> QED BY <2>5, <3>1
  <2>8. CASE RecvResponse(c) \/ RecvNothing(c) \/ RecvEof(c)
    <3>1. handling.pc # "none"
      BY <2>8 DEF RecvResponse, RecvNothing, RecvEof, InLoop, InRead, InCallback, HandlerAt
    <3> QED BY <2>4, <2>5, <2>8, <3>1 DEF RecvResponse, RecvNothing, RecvEof, InLoop, Finished
  <2>9. CASE HandlerFindsNone(c) \/ CallbackReturns(c)
    BY <2>4, <2>9 DEF HandlerFindsNone, CallbackReturns
  <2> QED BY <1>11, <2>3, <2>6, <2>7, <2>8, <2>9 DEF InClient, HandlerIgnores
<1>12. CASE Environment
  <2>1. UNCHANGED <<obsVars, clientVars, main, main_loop>>
    BY <1>12 DEF Environment, vars, appVars
  <2> QED BY <2>1, MainFrame DEF obsVars, clientVars, Current, MainInv
<1> QED BY <1>3, <1>4, <1>6, <1>7, <1>8, <1>9, <1>10, <1>11, <1>12 DEF AppNext, Main

------------------------------------------------------------------------------
(* The socket.                                                              *)

\* A step that moves no descriptor.
LEMMA SocketFrame ==
    ASSUME OneSocket, UNCHANGED <<starts, state, op>>,
           \A fd \in Fds : ksock'[fd] = "free" <=> ksock[fd] = "free",
           \A fd \in rx' : fd \in rx \/ (fd \in Fds /\ ksock[fd] # "free"),
           rx \subseteq Fds
    PROVE  OneSocket'
BY DEF OneSocket

\* init() stores the socket in an endpoint that is empty, so nothing is closed.
LEMMA StoresInEmpty ==
    ASSUME ClientInvs, OneSocket, StoreSocket
    PROVE  /\ Destroyed \cap Fds = {}
           /\ UNCHANGED <<interest, ksock, rx>> /\ ready' = ready
           /\ op.fd \in Fds /\ state.fd = NoFd
<1>1. op.pc = "store" /\ op.fd \in Fds /\ state.fd = NoFd
  BY DEF StoreSocket, ClientInvs, TypeOK, ClientTypeOK, OpTypeOK, LockInv, OneSocket
<1>2. NoFd \notin Fds
  BY ClientAssumption DEF NoFd
<1>3. Destroyed \cap Fds = {}
  BY <1>1, <1>2 DEF Destroyed
<1> QED BY <1>1, <1>3 DEF StoreSocket, Unwatch, Close, ClientInvs, TypeOK, EpollTypeOK,
             KernelTypeOK

\* What the network does to the sockets leaves their descriptors open.
LEMMA PeerKeeps ==
    ASSUME KernelTypeOK, NEW p \in Fds,
           \/ PeerActs(p) \/ Establish(p) \/ Refuse(p)
    PROVE  /\ \A fd \in Fds : ksock'[fd] = "free" <=> ksock[fd] = "free"
           /\ interest' = interest /\ ready \subseteq ready'
           /\ rx \subseteq rx' /\ rx' \subseteq rx \cup {p}
           /\ p \in rx' \ rx /\ interest[p] # {} => p \in ready'
           /\ ksock[p] # "free"
BY DEF PeerActs, Establish, Refuse, Arrive, UrgentArrives, PeerCloses, PeerResets, Wake,
       KernelTypeOK

\* A step of the environment is the network's, on one descriptor, or the user's.
LEMMA EnvironmentStep ==
    ASSUME Environment
    PROVE  \/ UNCHANGED vars /\ UNCHANGED cut
           \/ /\ UNCHANGED <<obsVars, clientVars, cut>>
              /\ \E p \in Fds : PeerActs(p) \/ Establish(p) \/ Refuse(p)
BY DEF Environment, Peer, Delivers, PeerActs, appVars

\* Every step keeps OneSocket (client_main.cpp:57-96, client.tpp:10-95).
LEMMA OneSocketStep ==
    ASSUME Pollers = {Controller}, ConnectFirst, MaxStarts = 1, MaxConnects = 1,
           ClientInvs, MainInv, OneSocket, [AppNext]_appState
    PROVE  OneSocket'
<1> USE ClientAssumption DEF NoFd
<1> DEFINE c == Controller
<1>1. /\ starts \in 0..1 /\ connects \in 0..1 /\ state.fd \in Fds \cup {NoFd}
      /\ op.fd \in Fds \cup {NoFd} /\ ksock \in [Fds -> SockState] /\ rx \subseteq Fds
      /\ KernelTypeOK
  BY DEF ClientInvs, TypeOK, ClientTypeOK, OpTypeOK, KernelTypeOK
<1>2. ASSUME UNCHANGED <<starts, state, op, ksock>>, rx' \subseteq rx PROVE OneSocket'
  BY <1>1, <1>2, SocketFrame
<1>3. CASE \E bound \in BOOLEAN : Start(bound)
  <2>1. PICK bound \in BOOLEAN : Start(bound)
    BY <1>3
  <2>2. PICK fd \in Fds :
           /\ IsLowestFree(fd)
           /\ ksock' = [ksock EXCEPT ![fd] = IF proto = "tcp" THEN "fresh" ELSE "udp"]
           /\ op' = [pc |-> "register", fd |-> fd, kind |-> StartedKind(bound), n |-> 1]
    BY <2>1 DEF Start
  <2>3. op'.pc = "register" /\ op'.fd = fd
    BY <2>2
  <2>4. ksock'[fd] # "free" /\ \A other \in Fds \ {fd} : ksock'[other] = ksock[other]
    BY <1>1, <2>2
  <2>5. starts = 0 /\ starts' = 1 /\ UNCHANGED <<state, rx>>
    BY <1>1, <2>1 DEF Start
  <2>6. state.kind = "idle" /\ op = NoOp /\ state.fd = NoFd
    BY <2>5 DEF OneSocket, ClientInvs, LockInv
  <2>7. \A other \in Fds : ksock[other] = "free"
    BY <2>6 DEF OneSocket, NoOp
  <2> QED BY <1>1, <2>3, <2>4, <2>5, <2>6, <2>7 DEF OneSocket, NoOp
<1>4. CASE RegisterCb \/ WatchSocket
  <2>1. /\ op.pc \in {"register", "watch"} /\ op'.pc \in {"register", "watch", "store"}
        /\ op'.fd = op.fd /\ UNCHANGED <<starts, state, ksock, rx>>
    BY <1>4 DEF RegisterCb, WatchSocket, kernelVars, ClientInvs, TypeOK, ClientTypeOK, OpTypeOK
  <2> QED BY <1>1, <2>1 DEF OneSocket, NoOp
<1>5. CASE StoreSocket
  <2>1. /\ op.pc = "store" /\ op' = NoOp /\ state'.fd = op.fd /\ starts' = starts
        /\ UNCHANGED <<ksock, rx>> /\ state.fd = NoFd
    BY <1>5, StoresInEmpty DEF StoreSocket
  <2> QED BY <1>1, <2>1 DEF OneSocket, NoOp
<1>6. CASE ConnectReturnsFalse
  BY <1>2, <1>6 DEF ConnectReturnsFalse, kernelVars
<1>7. CASE ConnectSocket
  <2>1. state.kind \in {"socket", "binded"} /\ op = NoOp
    BY <1>7 DEF ConnectSocket, ControllerFree
  <2>2. state.fd \in Fds
    BY <2>1 DEF ClientInvs, ActiveInv, NoOp
  <2>3. /\ op'.pc = "moving" /\ op'.fd = state.fd /\ UNCHANGED <<starts, state, rx>>
        /\ ksock' = [ksock EXCEPT ![state.fd] = "syn_sent"]
    BY <1>7 DEF ConnectSocket, NoOp
  <2> QED BY <1>1, <2>1, <2>2, <2>3 DEF OneSocket, NoOp
<1>8. CASE ConnectActive
  <2>1. /\ state.kind = "active" /\ op = NoOp /\ op'.pc = "remote" /\ op'.kind = "idle"
        /\ op'.fd = NoFd /\ UNCHANGED <<starts, state, ksock, rx>>
    BY <1>8 DEF ConnectActive, ControllerFree, NoOp, kernelVars
  <2> QED BY <1>1, <2>1 DEF OneSocket, NoOp
<1>18. CASE MoveSocket
  <2>1. /\ op.pc = "moving" /\ op'.pc = "remote" /\ op'.fd = op.fd /\ op'.kind = "active"
        /\ state'.fd = NoFd /\ UNCHANGED <<starts, ksock, rx>>
    BY <1>18 DEF MoveSocket, kernelVars, ClientInvs, ActiveInv, TypeOK, ClientTypeOK, OpTypeOK
  <2> QED BY <1>1, <2>1 DEF OneSocket, NoOp
<1>9. CASE SetRemote \/ SetCallback
  <2>1. /\ op.pc \in {"remote", "fields"} /\ UNCHANGED <<starts, state, ksock, rx>>
        /\ \/ /\ op'.pc \in {"fields", "assign"} /\ op'.fd = op.fd /\ op'.kind = op.kind
           \/ op' = NoOp /\ op.kind # "active"
    BY <1>9 DEF SetRemote, SetCallback, kernelVars, ClientInvs, TypeOK, ClientTypeOK, OpTypeOK
  <2>2. starts > 0
    BY <1>1, <2>1 DEF OneSocket, NoOp
  <2>3. CASE op'.pc \in {"fields", "assign"} /\ op'.fd = op.fd /\ op'.kind = op.kind
    BY <2>1, <2>2, <2>3 DEF OneSocket, NoOp
  <2>4. CASE op' = NoOp /\ op.kind # "active"
    <3>1. op.fd = NoFd /\ op'.fd = NoFd /\ op'.pc = "none"
      BY <2>1, <2>4 DEF OneSocket, NoOp
    <3> QED BY <2>1, <2>2, <3>1 DEF OneSocket
  <2> QED BY <2>1, <2>3, <2>4
<1>10. CASE AssignActive
  <2>1. /\ op.pc = "assign" /\ op' = NoOp /\ state'.fd = op.fd
        /\ UNCHANGED <<starts, ksock, rx>> /\ op.kind = "active"
    BY <1>10 DEF AssignActive, kernelVars, ClientInvs, ActiveInv
  <2> QED BY <1>1, <2>1 DEF OneSocket, NoOp
<1>11. CASE UnregisterCb
  BY <1>11 DEF UnregisterCb, MainInv
<1>12. CASE Leave
  <2>1. /\ state'.kind = "idle" /\ state'.fd = NoFd /\ UNCHANGED <<starts, op>> /\ op = NoOp
    BY <1>12 DEF Leave, MainInv
  <2>2. /\ rx' = rx \ {state.fd}
        /\ \A fd \in Fds : ksock'[fd] = IF fd = state.fd THEN "free" ELSE ksock[fd]
    BY <1>12, LeaveStep, AppAssumption
  <2> QED BY <1>1, <2>1, <2>2 DEF OneSocket, NoOp
<1>13. ASSUME InClient(c) PROVE OneSocket'
  BY <1>1, <1>2, <1>13
     DEF InClient, HandlerIgnores, HandlerMatches, HandlerFindsNone, HandlerFindsSome,
         HandlerCalls, CallbackReturns, InRead, RecvResponse, RecvNothing, RecvEof, InLoop,
         ReceivesData, WouldBlock, ReceivesError, ReceivesEof, kernelVars, clientVars
<1>14. CASE CallProceed
  BY <1>2, <1>14 DEF CallProceed, Poll, kernelVars, clientVars
<1>15. CASE SendLine
  BY <1>2, <1>15 DEF SendLine, Sends, SendFails, kernelVars, clientVars
<1>16. ASSUME UNCHANGED vars PROVE OneSocket'
  BY <1>2, <1>16 DEF vars, kernelVars, clientVars
<1>17. CASE Environment
  <2>1. ASSUME NEW p \in Fds, PeerActs(p) \/ Establish(p) \/ Refuse(p),
               UNCHANGED <<obsVars, clientVars, cut>>
        PROVE  OneSocket'
    BY <1>1, <2>1, PeerKeeps, SocketFrame DEF clientVars
  <2> QED BY <1>16, <1>17, <2>1, EnvironmentStep
<1> QED BY <1>3, <1>4, <1>5, <1>6, <1>7, <1>8, <1>9, <1>10, <1>11, <1>12, <1>13, <1>14, <1>15,
           <1>16, <1>17, <1>18
        DEF AppNext, Main, Booting, InControl, StartFails, ConnectFails, NoInput, HasInput,
            GetLine, SendKills, Signal, appState

------------------------------------------------------------------------------
(* recv, send and standard input.                                           *)

\* What the user types and what getline takes are lines that were typed.
LEMMA StdinStep ==
    ASSUME StdinTypeOK, pipe \in Nat, buffered \in Nat, User \/ getline
    PROVE  StdinTypeOK' /\ pipe' \in Nat /\ buffered' \in Nat
<1> USE StdinAssumption DEF StdinTypeOK
<1>1. CASE TypeBeginning \/ TypeLine \/ CloseInput
  <2>1. eof' \in BOOLEAN
    BY <1>1 DEF TypeBeginning, TypeLine, CloseInput
  <2>2. /\ typed' \in 0..MaxLines /\ pipe' + buffered' <= typed'
        /\ partial' \in {"none", "pipe", "stdio"} /\ pipe' \in Nat /\ buffered' \in Nat
    <3>1. CASE TypeBeginning \/ CloseInput
      BY <3>1 DEF TypeBeginning, CloseInput
    <3>2. CASE TypeLine
      BY <3>2 DEF TypeLine
    <3> QED BY <1>1, <3>1, <3>2
  <2> QED BY <2>1, <2>2
<1>2. CASE GetsBuffered \/ GetsFresh \/ GetsRest
  BY <1>2 DEF GetsBuffered, GetsFresh, GetsRest
<1> QED BY <1>1, <1>2 DEF User, getline

\* The client's own steps and the sockets' leave the buffers as they are.
LEMMA IOFrame ==
    ASSUME IOInv, UNCHANGED <<ioVars, stdinVars>>, \A fd \in Fds : fd \in rx' <=> fd \in rx
    PROVE  IOInv'
BY DEF IOInv, ioVars, stdinVars, StdinTypeOK

\* Every step keeps IOInv (client_main.cpp:38-107, socket_impl.cpp:332-402).
LEMMA IOStep ==
    ASSUME Pollers = {Controller}, ClientInvs, MainInv, OneSocket, IOInv, [AppNext]_appState
    PROVE  IOInv'
<1> DEFINE c == Controller
           fd == state.fd
<1> USE ClientAssumption
<1>1. ASSUME UNCHANGED <<rx, ioVars, stdinVars>> PROVE IOInv'
  BY <1>1, IOFrame
<1>2. CASE Booting
  <2>1. CASE StoreSocket
    BY <1>2, <2>1, StoresInEmpty, IOFrame DEF Booting
  <2>2. CASE ~StoreSocket
    <3>1. UNCHANGED rx
      BY <1>2, <2>2 DEF Booting, Start, InControl, RegisterCb, WatchSocket, UnregisterCb,
         MoveSocket, SetRemote, SetCallback, AssignActive, ConnectSocket, ConnectActive,
         kernelVars
    <3> QED BY <1>1, <1>2, <3>1 DEF Booting
  <2> QED BY <2>1, <2>2
<1>3. CASE StartFails \/ ConnectFails \/ CallProceed \/ HasInput \/ SendKills \/ Signal
           \/ UNCHANGED appState
  BY <1>1, <1>3 DEF StartFails, ConnectFails, ConnectReturnsFalse, CallProceed, Poll, HasInput,
     SendKills, Signal, appState, vars, kernelVars
<1>4. CASE NoInput
  BY <1>4 DEF NoInput, IOInv, vars, kernelVars, stdinVars, StdinTypeOK
<1>5. CASE GetLine
  <2>1. UNCHANGED <<ioVars, rx>>
    BY <1>5 DEF GetLine, vars, kernelVars
  <2> QED BY <1>5, <2>1, StdinStep DEF GetLine, IOInv, ioVars
<1>6. CASE SendLine
  BY <1>6 DEF SendLine, Sends, SendFails, IOInv, kernelVars, ioVars, stdinVars, StdinTypeOK
<1>7. CASE Leave
  <2>1. rx' = rx \ {fd}
    BY <1>7, LeaveStep, AppAssumption
  <2>2. /\ inbox' = [f \in Fds |-> IF f = fd THEN << >> ELSE inbox[f]]
        /\ failed' \subseteq failed /\ UNCHANGED <<errno, stdinVars>>
    BY <1>7 DEF Leave, Forget, get_fd
  <2>3. inbox' \in [Fds -> Seq({"bytes"})] /\ \A f \in Fds : f \in rx' <=> inbox'[f] # << >>
    BY <2>1, <2>2 DEF IOInv
  <2> QED BY <2>2, <2>3 DEF IOInv, stdinVars, StdinTypeOK
<1>8. ASSUME main = "proceed" PROVE fd \in Fds
  BY <1>8 DEF MainInv, Connected, ClientInvs, ActiveInv
<1>9. ASSUME RecvResponse(c), main = "proceed" PROVE IOInv'
  <2>1. /\ inbox[fd] # << >> /\ inbox' = [inbox EXCEPT ![fd] = Tail(@)]
        /\ rx' = IF Len(inbox[fd]) = 1 THEN rx \ {fd} ELSE rx
        /\ UNCHANGED <<failed, errno, stdinVars>>
    BY <1>9 DEF RecvResponse, ReceivesData, InLoop, get_fd
  <2>2. inbox[fd] \in Seq({"bytes"}) /\ fd \in Fds
    BY <1>8, <1>9 DEF IOInv
  <2> DEFINE m == inbox[fd]
             rest == Tail(m)
  <2>3. rest \in Seq({"bytes"}) /\ (Len(m) = 1 <=> rest = << >>)
    <3>1. rest \in Seq({"bytes"}) /\ Len(rest) = Len(m) - 1
      BY <2>1, <2>2, HeadTailProperties
    <3>2. rest # << >> => Len(rest) \in Nat \ {0}
      BY <3>1, EmptySeq
    <3>3. rest = << >> => Len(rest) = 0
      BY EmptySeq
    <3>4. Len(m) \in Nat
      BY <2>2, LenProperties
    <3> HIDE DEF m, rest
    <3> QED BY <3>1, <3>2, <3>3, <3>4
  <2>4. /\ inbox' \in [Fds -> Seq({"bytes"})] /\ inbox'[fd] = rest
        /\ \A f \in Fds \ {fd} : inbox'[f] = inbox[f]
    <3> HIDE DEF rest
    <3>1. inbox' = [inbox EXCEPT ![fd] = rest]
      BY <2>1 DEF rest
    <3> QED BY <2>2, <2>3, <3>1 DEF IOInv
  <2> HIDE DEF m, rest
  <2>5. \A f \in Fds : f \in rx' <=> inbox'[f] # << >>
    BY <2>1, <2>2, <2>3, <2>4 DEF IOInv, m
  <2> QED BY <2>1, <2>4, <2>5 DEF IOInv, stdinVars, StdinTypeOK
<1>10. ASSUME RecvNothing(c) \/ RecvEof(c) PROVE IOInv'
  BY <1>10 DEF RecvNothing, RecvEof, InLoop, WouldBlock, ReceivesError, ReceivesEof, IOInv,
     kernelVars, ioVars, stdinVars, StdinTypeOK
<1>11. ASSUME InClient(c) PROVE IOInv'
  <2>1. main = "proceed"
    BY <1>11 DEF InClient
  <2>2. CASE UNCHANGED <<ioVars, stdinVars, appVars>> /\ ~InRead(c) /\ CallbackReturns(c)
    <3>1. UNCHANGED rx
      BY <2>2 DEF CallbackReturns, InRead
    <3> QED BY <1>1, <2>2, <3>1
  <2>3. ASSUME UNCHANGED kernelVars, UNCHANGED <<ioVars, stdinVars, appVars>> PROVE IOInv'
    BY <1>1, <2>3 DEF kernelVars
  <2> QED BY <1>9, <1>10, <1>11, <2>1, <2>2, <2>3
          DEF InClient, HandlerIgnores, HandlerMatches, HandlerFindsNone, HandlerFindsSome,
              HandlerCalls, kernelVars
<1>12. ASSUME NEW p \in Fds, Delivers(p, "bytes"), UNCHANGED stdinVars PROVE IOInv'
  <2>1. /\ rx' = rx \cup {p} /\ inbox' = [inbox EXCEPT ![p] = Append(@, "bytes")]
        /\ UNCHANGED <<failed, errno>>
    BY <1>12 DEF Delivers, Arrive
  <2>2. inbox[p] \in Seq({"bytes"})
    BY DEF IOInv
  <2> DEFINE more == Append(inbox[p], "bytes")
  <2>3. more \in Seq({"bytes"}) /\ more # << >>
    BY <2>2, AppendProperties
  <2> HIDE DEF more
  <2>4. inbox' = [inbox EXCEPT ![p] = more]
    BY <2>1 DEF more
  <2> QED BY <1>12, <2>1, <2>3, <2>4 DEF IOInv, stdinVars, StdinTypeOK
<1>13. CASE Environment
  <2>1. ASSUME NEW p \in Fds, Peer(p), UNCHANGED stdinVars PROVE IOInv'
    <3>1. CASE Delivers(p, "bytes")
      BY <1>12, <2>1, <3>1
    <3>2. CASE UNCHANGED ioVars /\ (Establish(p) \/ UrgentArrives(p) \/ PeerCloses(p))
      BY <1>1, <2>1, <3>2 DEF Establish, UrgentArrives, PeerCloses
    <3>3. CASE Fails(p) /\ (Refuse(p) \/ PeerResets(p))
      BY <2>1, <3>3 DEF Fails, Refuse, PeerResets, IOInv, stdinVars, StdinTypeOK
    <3> QED BY <2>1, <3>1, <3>2, <3>3 DEF Peer
  <2>2. ASSUME User, UNCHANGED <<vars, ioVars, appVars>> PROVE IOInv'
    BY <2>2, StdinStep DEF IOInv, vars, kernelVars, ioVars
  <2> QED BY <1>13, <2>1, <2>2 DEF Environment
<1> QED BY <1>2, <1>3, <1>4, <1>5, <1>6, <1>7, <1>11, <1>13 DEF AppNext, Main

------------------------------------------------------------------------------
(* The edges of unread bytes.                                               *)

\* A thread that runs no handler, or another than on_read_ready, leaves the
\* place of a read that is due (event_observer.tpp:82-94).
LEMMA DueStays ==
    ASSUME ClientInvs, ReadDue, UNCHANGED state,
           \/ ObsStep(Controller)
           \/ /\ ObsHandlerReturns(Controller)
              /\ act[Controller].cur # "read" \/ Current(Controller).fd # state.fd
    PROVE  ReadDue'
<1> USE ClientAssumption
<1> DEFINE c == Controller
           a == act[c]
           b == act'[c]
<1>1. act \in [Threads -> ActRecord] /\ a \in ActRecord /\ c \in Threads /\ a.k \in Nat
      /\ Len(a.events) \in Nat /\ a.pc \in Inside
  BY DEF ClientInvs, ObsInv, ObsTypeOK, ActRecord, ReadDue
<1>2. PICK n \in 1..Len(a.events) : /\ n >= a.k
                                    /\ a.events[n].fd = state.fd
                                    /\ "READ_READY" \in a.events[n].type
                                    /\ n = a.k => a.i = 1
  BY DEF ReadDue
<1>3. ASSUME b.pc \in Inside, b.events = a.events, n >= b.k, n = b.k => b.i = 1 PROVE ReadDue'
  BY <1>2, <1>3 DEF ReadDue
<1>4. CASE ObsLockShared(c)
  BY <1>1, <1>2, <1>3, <1>4 DEF ObsLockShared, Inside, ActRecord
<1>5. n = a.k /\ a.pc = "serving" => Hit(m_handlers, Current(c), 1)
  <2> SUFFICES ASSUME n = a.k, a.pc = "serving" PROVE Hit(m_handlers, Current(c), 1)
    OBVIOUS
  <2>1. LookupKey(Current(c), 1) = "READ_READY"
    BY <1>2 DEF LookupKey, TypeOrder, Current
  <2>2. state.kind # "idle"
    <3>1. a.events[n] \in Event
      BY <1>1 DEF ActRecord
    <3>2. state.fd \in Fds
      BY <1>2, <3>1 DEF Event
    <3> QED BY <3>2 DEF ClientInvs, LockInv, NoFd
  <2> QED BY <2>1, <2>2 DEF Hit, ClientInvs, HandlersInv
<1>6. CASE ObsInvoke(c)
  <2>1. PICK i \in Steps :
           /\ i >= a.i
           /\ \A j \in Steps : a.i <= j /\ j < i => ~Hit(m_handlers, Current(c), j)
           /\ act' = [act EXCEPT ![c].pc = "running", ![c].i = i,
                          ![c].cur = m_handlers[LookupKey(Current(c), i)]]
    BY <1>6 DEF ObsInvoke
  <2>2. b.pc = "running" /\ b.events = a.events /\ b.k = a.k /\ b.i = i
    BY <1>1, <2>1 DEF ActRecord
  <2>3. n = a.k => i = 1
    BY <1>2, <1>5, <1>6, <2>1 DEF ObsInvoke, Steps
  <2> QED BY <1>2, <1>3, <2>2, <2>3 DEF Inside
<1>7. CASE ObsNextEvent(c)
  <2>1. a.pc = "serving" /\ \A j \in Steps : j >= a.i => ~Hit(m_handlers, Current(c), j)
    BY <1>7 DEF ObsNextEvent
  <2>2. n # a.k
    BY <1>2, <1>5, <2>1 DEF Steps
  <2>3. b.pc = "serving" /\ b.events = a.events /\ b.k = a.k + 1 /\ b.i = 1
    <3> DEFINE un == UnhandledAfter(c)
    <3> HIDE DEF un
    <3> QED BY <1>1, <1>7 DEF ObsNextEvent, ActRecord, un
  <2> QED BY <1>1, <1>2, <1>3, <2>2, <2>3 DEF Inside
<1>8. CASE ObsUnlock(c)
  BY <1>1, <1>2, <1>8 DEF ObsUnlock
<1>9. CASE (\E throws \in BOOLEAN : ObsHandleUnhandled(c, throws)) \/ ObsReturn(c)
  BY <1>1, <1>9 DEF ObsHandleUnhandled, ObsReturn, Inside
<1>10. CASE ObsHandlerReturns(c) /\ (a.cur # "read" \/ Current(c).fd # state.fd)
  <2>1. a.pc = "running"
    BY <1>10 DEF ObsHandlerReturns
  <2>2. n # a.k
    <3>1. CASE a.cur # "read"
      BY <1>1, <1>2, <2>1, <3>1, RunningClient DEF ClientInvs
    <3>2. CASE Current(c).fd # state.fd
      BY <1>2, <3>2 DEF Current
    <3> QED BY <1>10, <3>1, <3>2
  <2>3. b.pc = "serving" /\ b.events = a.events /\ b.k = a.k
    BY <1>1, <1>10 DEF ObsHandlerReturns, ActRecord
  <2> QED BY <1>2, <1>3, <2>2, <2>3 DEF Inside
<1> QED BY <1>4, <1>6, <1>7, <1>8, <1>9, <1>10 DEF ObsStep

\* While on_read_ready runs, the read is due.
LEMMA ReadIsDue ==
    ASSUME ClientInvs, MainInv, InRead(Controller)
    PROVE  ReadDue
<1> USE ClientAssumption
<1> DEFINE c == Controller
           a == act[c]
<1>1. a.pc = "running" /\ a.cur = "read" /\ Current(c).fd = state.fd
  BY DEF InRead, InCallback, HandlerAt, MainInv
<1>2. a.k \in 1..Len(a.events) /\ a.i = 1 /\ "READ_READY" \in Current(c).type
  BY <1>1, RunningClient DEF ClientInvs
<1>3. a.k >= a.k
  BY <1>2
<1> QED BY <1>1, <1>2, <1>3 DEF ReadDue, Inside, Current

\* A connect() that gave callbacks is the first one: the others are emptied by
\* the erase handler only (client.tpp:143-159).
LEMMA NotedStep ==
    ASSUME Pollers = {Controller}, ConnectFirst, MaxStarts = 1, MaxConnects = 1,
           ClientInvs, MainInv, OneSocket, ErasedIsNoted, [AppNext]_appState
    PROVE  /\ ErasedIsNoted'
           /\ calls[1].disconnects > 0 => calls'[1].disconnects > 0
<1> USE ClientAssumption
<1> DEFINE c == Controller
           a == act[c]
           b == act'[c]
<1>1. /\ Sessions = {1} /\ connects \in 0..1 /\ c \in Threads
      /\ calls[1].connects \in 0..2 /\ calls[1].disconnects \in 0..2
      /\ cb \in [Callbacks -> 0..1]
  BY DEF Sessions, ClientInvs, TypeOK, ClientTypeOK
<1>2. ASSUME UNCHANGED <<m_remote, cb, calls>>, op.pc = "fields" => op'.pc = "fields",
             InCallback(c)' => InCallback(c) /\ b.cur = a.cur
      PROVE  ErasedIsNoted' /\ calls'[1] = calls[1]
  BY <1>2 DEF ErasedIsNoted
<1>3. CASE Booting \/ ConnectFails
  <2>1. a.pc = "out" /\ UNCHANGED <<act, calls>>
    BY <1>3 DEF Booting, ConnectFails, At, MainInv, Start, InControl, RegisterCb, add,
       WatchSocket, StoreSocket, UnregisterCb, MoveSocket, SetRemote, SetCallback,
       AssignActive, ConnectSocket, ConnectActive, ConnectReturnsFalse, obsVars
  <2>2. ~InCallback(c)'
    BY <2>1 DEF InCallback, HandlerAt
  <2>3. CASE SetRemote
    <3>1. op'.pc = "fields"
      BY <2>3 DEF SetRemote, ClientInvs, TypeOK, ClientTypeOK, OpTypeOK
    <3> QED BY <2>1, <2>2, <3>1 DEF ErasedIsNoted
  <2>4. CASE SetCallback
    <3>1. op.pc = "fields" /\ op.n \in 1..3 /\ connects = 1
      <4>1. op.pc = "fields"
        BY <2>4 DEF SetCallback
      <4>2. connects = 1
        BY <1>1, <4>1 DEF ClientInvs, RemoteInv, UnlockedPcs
      <4> QED BY <4>1, <4>2 DEF ClientInvs, TypeOK, ClientTypeOK, OpTypeOK
    <3>2. op.n < 3 => op'.pc = "fields"
      BY <2>4, <3>1 DEF SetCallback, ClientInvs, TypeOK, ClientTypeOK, OpTypeOK
    <3>3. op.n = 3 => cb'["disconnect"] = 1
      BY <1>1, <2>4, <3>1 DEF SetCallback, FieldSources, FieldOrder, Callbacks
    <3> QED BY <2>1, <2>2, <3>1, <3>2, <3>3 DEF ErasedIsNoted
  <2>5. CASE ~SetRemote /\ ~SetCallback
    <3>1. UNCHANGED <<m_remote, cb>> /\ op.pc # "fields"
      BY <1>3, <2>5 DEF Booting, ConnectFails, Start, InControl, RegisterCb, WatchSocket,
         StoreSocket, UnregisterCb, MoveSocket, AssignActive, ConnectSocket, ConnectActive,
         ConnectReturnsFalse, ControllerFree, NoOp
    <3> QED BY <1>2, <2>1, <2>2, <3>1
  <2> QED BY <2>3, <2>4, <2>5
<1>4. ASSUME UNCHANGED <<obsVars, clientVars>> PROVE ErasedIsNoted' /\ calls'[1] = calls[1]
  BY <1>2, <1>4 DEF obsVars, clientVars, InCallback, HandlerAt
<1>5. CASE CallProceed
  <2>1. UNCHANGED clientVars /\ a.pc = "out"
    BY <1>5 DEF CallProceed, Poll, ObsPoll, ClientInvs, TypeOK
  <2>2. ~InCallback(c)'
    BY <2>1, FreeOfHandlers DEF clientVars, InCallback, HandlerAt
  <2> QED BY <1>2, <2>1, <2>2 DEF clientVars
<1>6. CASE Leave
  BY <1>2, <1>6 DEF Leave, InCallback, HandlerAt
<1>7. CASE HandlerCalls(c)
  <2> DEFINE f == HandledCb(c)
  <2>1. /\ a.pc = "running" /\ cb[f] # 0 /\ calls' = Noted(cb[f], f)
        /\ UNCHANGED <<act, m_remote, cb, op>>
    BY <1>7 DEF HandlerCalls, HandlerAt, obsVars
  <2>2. f \in Callbacks /\ (f = "disconnect" <=> a.cur = "erase")
    BY <1>1, <2>1, RunningHandler DEF ClientInvs, HandledCb, CallbackOf
  <2> HIDE DEF f
  <2>3. cb[f] = 1
    BY <1>1, <2>1, <2>2
  <2>4. calls'[1].disconnects =
           IF f = "disconnect" THEN More(calls[1].disconnects) ELSE calls[1].disconnects
    BY <1>1, <2>1, <2>2, <2>3, NotedType DEF ClientInvs, TypeOK
  <2>5. /\ calls[1].disconnects > 0 => calls'[1].disconnects > 0
        /\ a.cur = "erase" => calls'[1].disconnects > 0
    BY <1>1, <2>2, <2>4 DEF More
  <2> QED BY <2>1, <2>5 DEF ErasedIsNoted
<1>8. CASE CallbackReturns(c)
  <2>1. /\ InCallback(c) /\ ~InCallback(c)' /\ UNCHANGED <<m_remote, calls, op>>
        /\ a.pc = "running"
    BY <1>1, <1>8 DEF CallbackReturns, InCallback, HandlerAt, NoHandling
  <2>2. a.cur # "erase" => cb'["disconnect"] = cb["disconnect"]
    <3>1. a.cur \in {"erase", "read", "write"}
      BY <1>1, <2>1, RunningHandler DEF ClientInvs
    <3>2. a.cur # "erase" => HandledCb(c) # "disconnect"
      BY <3>1 DEF HandledCb, CallbackOf
    <3> QED BY <1>1, <1>8, <3>2 DEF CallbackReturns, Callbacks
  <2> QED BY <2>1, <2>2 DEF ErasedIsNoted
<1>9. ASSUME InClient(c), ~HandlerCalls(c), ~CallbackReturns(c)
      PROVE  ErasedIsNoted' /\ calls'[1] = calls[1]
  <2>1. UNCHANGED <<m_remote, cb, calls, op>>
    BY <1>9 DEF InClient, HandlerIgnores, HandlerMatches, HandlerFindsNone, HandlerFindsSome,
       RecvResponse, RecvNothing, RecvEof, InLoop, clientVars
  <2>2. CASE (ObsStep(c) \/ HandlerIgnores(c)) /\ UNCHANGED clientVars
    <3>1. handling.pc = "none" /\ UNCHANGED handling
      BY <2>2, StepsOutside, FreeOfHandlers DEF HandlerIgnores, HandlerLocks, clientVars
    <3> QED BY <1>2, <2>1, <3>1 DEF InCallback, HandlerAt
  <2>3. CASE handling'.pc # "body"
    BY <1>1, <1>2, <2>1, <2>3 DEF InCallback, HandlerAt
  <2>4. CASE UNCHANGED <<m_mutex, handling, obsVars>>
    BY <1>2, <2>1, <2>4 DEF InCallback, HandlerAt, obsVars
  <2>5. CASE HandlerMatches(c) \/ HandlerFindsSome(c) \/ HandlerFindsNone(c)
    <3>1. handling \in [pc : {"none", "test", "call", "body"}, s : 0..MaxConnects]
      BY DEF ClientInvs, TypeOK, ClientTypeOK
    <3> QED BY <2>3, <2>5, <3>1 DEF HandlerMatches, HandlerFindsSome, HandlerFindsNone,
            NoHandling
  <2>6. CASE RecvResponse(c) \/ RecvNothing(c) \/ RecvEof(c)
    BY <2>3, <2>4, <2>6 DEF RecvResponse, RecvNothing, RecvEof, InLoop, Finished, NoHandling
  <2> QED BY <1>9, <2>2, <2>5, <2>6 DEF InClient, HandlerIgnores
<1>10. CASE SendLine \/ Environment
  <2>1. UNCHANGED <<obsVars, clientVars>>
    BY <1>10 DEF SendLine, Environment, vars
  <2> QED BY <1>4, <2>1
<1>11. CASE StartFails \/ NoInput \/ HasInput \/ GetLine \/ SendKills \/ Signal
            \/ UNCHANGED appState
  <2>1. UNCHANGED <<obsVars, clientVars>>
    BY <1>11 DEF StartFails, NoInput, HasInput, GetLine, SendKills, Signal, appState, vars
  <2> QED BY <1>4, <2>1
<1>12. CASE InClient(c)
  BY <1>7, <1>8, <1>9, <1>12
<1> QED BY <1>3, <1>5, <1>6, <1>10, <1>11, <1>12 DEF AppNext, Main

\* The socket is taken out of epoll by the erase handler, and by the end of
\* main() (client.tpp:143-159).
LEMMA WatchedStep ==
    ASSUME Pollers = {Controller}, ConnectFirst, MaxStarts = 1, MaxConnects = 1,
           ClientInvs, MainInv, OneSocket, WatchedUntilErased, ErasedIsNoted, ErasedIsNoted',
           calls[1].disconnects > 0 => calls'[1].disconnects > 0,
           [AppNext]_appState
    PROVE  WatchedUntilErased'
<1> USE ClientAssumption DEF NoFd
<1> DEFINE c == Controller
           a == act[c]
           open(fd) == ksock[fd] # "free"
<1>1. /\ c \in Threads /\ EpollTypeOK /\ KernelTypeOK /\ ksock \in [Fds -> SockState]
  BY DEF ClientInvs, TypeOK, KernelTypeOK
<1>2. ASSUME \A fd \in Fds : open(fd)' /\ interest'[fd] = {} =>
                (open(fd) /\ interest[fd] = {}) \/ Erasing' \/ calls'[1].disconnects > 0,
             Erasing => Erasing' \/ calls'[1].disconnects > 0,
             op.pc \in {"register", "watch"} =>
                op'.pc \in {"register", "watch"} \/ calls'[1].disconnects > 0
      PROVE  WatchedUntilErased'
  BY <1>2 DEF WatchedUntilErased
<1>3. CASE \E bound \in BOOLEAN : Start(bound)
  <2>1. op'.pc = "register"
    BY <1>3 DEF Start
  <2> QED BY <2>1 DEF WatchedUntilErased
<1>4. CASE RegisterCb
  <2>1. op'.pc \in {"register", "watch"}
    BY <1>4 DEF RegisterCb, ClientInvs, TypeOK, ClientTypeOK, OpTypeOK
  <2> QED BY <2>1 DEF WatchedUntilErased
<1>5. CASE WatchSocket
  <2>1. /\ op.pc = "watch" /\ op.fd \in Fds /\ add_socket(op.fd, "READ_WRITE", Raised[op.fd])
        /\ ksock' = ksock
    BY <1>5 DEF WatchSocket, kernelVars, ClientInvs, TypeOK, ClientTypeOK, OpTypeOK
  <2>2. interest'[op.fd] # {}
    BY <1>1, <2>1, AddSocketStep DEF SockOp
  <2>3. state.fd \notin Fds
    BY <2>1 DEF OneSocket, ClientInvs, LockInv
  <2> QED BY <2>1, <2>2, <2>3 DEF WatchedUntilErased, OneSocket
<1>20. op # NoOp => ~Erasing
  BY <1>1 DEF Erasing, ClientInvs, LockInv
<1>6. CASE StoreSocket
  <2>1. UNCHANGED <<interest, ksock>> /\ op.pc = "store"
    BY <1>6, StoresInEmpty DEF StoreSocket
  <2> QED BY <1>2, <1>20, <2>1 DEF NoOp
<1>7. CASE ConnectSocket
  <2>1. /\ state.kind \in {"socket", "binded"} /\ op = NoOp /\ UNCHANGED interest
        /\ ksock' = [ksock EXCEPT ![state.fd] = "syn_sent"]
    BY <1>7 DEF ConnectSocket, ControllerFree, epollVars
  <2>2. state.fd \in Fds /\ open(state.fd)
    BY <2>1 DEF ClientInvs, ActiveInv, OneSocket, NoOp
  <2>3. op' # NoOp /\ UNCHANGED <<act, m_mutex, handling>>
    BY <1>7 DEF ConnectSocket, NoOp, obsVars
  <2>4. Erasing => Erasing'
    BY <2>3 DEF Erasing
  <2> QED BY <1>1, <1>2, <2>1, <2>2, <2>4 DEF NoOp
<1>8. CASE ConnectReturnsFalse \/ ConnectActive \/ MoveSocket \/ SetRemote \/ SetCallback
           \/ AssignActive
  <2>1. /\ UNCHANGED <<interest, ksock, act, m_mutex, handling>>
        /\ UNCHANGED op \/ op.pc \notin {"register", "watch"}
    BY <1>8 DEF ConnectReturnsFalse, ConnectActive, MoveSocket, SetRemote, SetCallback,
       AssignActive, ControllerFree, NoOp, obsVars, epollVars, kernelVars
  <2>2. Erasing => Erasing'
    BY <2>1 DEF Erasing
  <2> QED BY <1>2, <2>1, <2>2
<1>9. CASE UnregisterCb
  BY <1>9 DEF UnregisterCb, MainInv
<1>10. CASE Leave
  <2>1. op = NoOp /\ \A fd \in Fds : ksock'[fd] = IF fd = state.fd THEN "free" ELSE ksock[fd]
    BY <1>10, LeaveStep, AppAssumption DEF Leave, MainInv
  <2>2. \A fd \in Fds : ksock'[fd] = "free"
    BY <2>1 DEF OneSocket, NoOp
  <2> QED BY <2>2 DEF WatchedUntilErased
<1>11. ASSUME UNCHANGED <<interest, op>>,
              \A fd \in Fds : ksock'[fd] = "free" <=> ksock[fd] = "free",
              Erasing => Erasing' \/ calls'[1].disconnects > 0
       PROVE  WatchedUntilErased'
  BY <1>2, <1>11
<1>13. CASE HandlerFindsNone(c) /\ main = "proceed"
  <2>1. /\ a.pc = "running" /\ cb[HandledCb(c)] = 0 /\ UNCHANGED <<interest, ksock, op, calls>>
    BY <1>13 DEF HandlerFindsNone, HandlerAt, epollVars, kernelVars
  <2>2. m_remote # 0 /\ op.pc # "fields"
    BY <1>13 DEF MainInv, Connected, NoOp
  <2>3. Erasing => calls'[1].disconnects > 0
    BY <2>1, <2>2 DEF Erasing, HandledCb, CallbackOf, ErasedIsNoted
  <2> QED BY <1>11, <2>1, <2>3
<1>14. CASE HandlerCalls(c)
  <2>1. InCallback(c)' /\ UNCHANGED <<act, interest, ksock, op>>
    BY <1>14 DEF HandlerCalls, HandlerAt, InCallback, obsVars, epollVars, kernelVars
  <2>2. Erasing => calls'[1].disconnects > 0
    BY <2>1 DEF Erasing, ErasedIsNoted
  <2> QED BY <1>11, <2>1, <2>2
<1>21. CASE HandlerMatches(c)
  <2>1. ~Erasing /\ UNCHANGED <<ksock, op, act>>
    BY <1>1, <1>21 DEF HandlerMatches, HandlerLocks, Erasing, obsVars,
       kernelVars
  <2>2. CASE a.cur = "erase"
    <3>1. Erasing'
      BY <1>21, <2>1, <2>2 DEF HandlerMatches, Erasing
    <3> QED BY <1>2, <2>1, <3>1
  <2>3. CASE a.cur # "erase"
    BY <1>11, <1>21, <2>1, <2>3 DEF HandlerMatches, epollVars
  <2> QED BY <2>2, <2>3
<1>15. ASSUME InClient(c), ~HandlerFindsNone(c), ~HandlerCalls(c), ~HandlerMatches(c)
       PROVE  WatchedUntilErased'
  <2>1. UNCHANGED <<interest, op, ksock>>
    BY <1>15 DEF InClient, HandlerIgnores, HandlerFindsSome, CallbackReturns, RecvResponse,
       RecvNothing, RecvEof, InLoop, ReceivesData, WouldBlock, ReceivesError, ReceivesEof,
       epollVars, kernelVars, clientVars
  <2>2. CASE HandlerFindsSome(c)
    <3>1. handling \in [pc : {"none", "test", "call", "body"}, s : 0..MaxConnects]
      BY DEF ClientInvs, TypeOK, ClientTypeOK
    <3>2. Erasing => Erasing'
      BY <2>2, <3>1 DEF HandlerFindsSome, Erasing, obsVars
    <3> QED BY <1>11, <2>1, <3>2
  <2>3. CASE ~HandlerFindsSome(c)
    <3>1. \/ ObsStep(c) \/ HandlerIgnores(c) \/ InCallback(c)
      BY <1>15, <2>3 DEF InClient, CallbackReturns, RecvResponse, RecvNothing, RecvEof, InLoop,
         InRead
    <3>2. ~Erasing
      BY <3>1, StepsOutside, FreeOfHandlers
         DEF HandlerIgnores, HandlerLocks, InCallback, HandlerAt, Erasing
    <3> QED BY <1>11, <2>1, <3>2
  <2> QED BY <2>2, <2>3
<1>16. CASE CallProceed \/ SendLine
  <2>1. UNCHANGED <<interest, op, ksock, m_mutex, handling>>
    BY <1>16 DEF CallProceed, Poll, proceed, SendLine, Sends, SendFails, epollVars, kernelVars,
       clientVars
  <2>2. Erasing => Erasing'
    <3>1. CASE CallProceed
      BY <3>1, FreeOfHandlers DEF CallProceed, Poll, ObsPoll, Erasing
    <3>2. CASE SendLine
      BY <2>1, <3>2 DEF SendLine, Erasing, obsVars
    <3> QED BY <1>16, <3>1, <3>2
  <2> QED BY <1>11, <2>1, <2>2
<1>17. ASSUME UNCHANGED vars PROVE WatchedUntilErased'
  BY <1>11, <1>17 DEF vars, obsVars, epollVars, kernelVars, clientVars, Erasing
<1>18. CASE Environment
  <2>1. ASSUME NEW p \in Fds, PeerActs(p) \/ Establish(p) \/ Refuse(p),
               UNCHANGED <<obsVars, clientVars>>
        PROVE  WatchedUntilErased'
    <3>1. Erasing => Erasing'
      BY <2>1 DEF Erasing, obsVars, clientVars
    <3> QED BY <1>1, <1>11, <2>1, <3>1, PeerKeeps DEF clientVars
  <2> QED BY <1>17, <1>18, <2>1, EnvironmentStep
<1>19. CASE InClient(c)
  BY <1>13, <1>14, <1>15, <1>19, <1>21 DEF InClient
<1> QED BY <1>3, <1>4, <1>5, <1>6, <1>7, <1>8, <1>9, <1>10, <1>16, <1>17, <1>18, <1>19
        DEF AppNext, Main, Booting, InControl, StartFails, ConnectFails, NoInput, HasInput,
            GetLine, SendKills, Signal, appState

\* What recv() left unread keeps its edge: epoll reports the socket again, the
\* batch has it, or on_read_ready comes back on an EAGAIN of its own
\* (client_main.cpp:38-50, client.tpp:160-167, epoll.cpp:116-173).
LEMMA ReadEdgesStep ==
    ASSUME Pollers = {Controller}, ConnectFirst, MaxStarts = 1, MaxConnects = 1,
           ClientInvs, MainInv, OneSocket, IOInv, ReadEdges, [AppNext]_appState
    PROVE  ReadEdges'
<1> USE ClientAssumption DEF NoFd
<1> DEFINE c == Controller
           a == act[c]
           b == act'[c]
<1>1. /\ c \in Threads /\ EpollTypeOK /\ KernelTypeOK /\ rx \subseteq Fds /\ ObsTypeOK
      /\ a.pc = "out" => ~ReadDue
  BY DEF ClientInvs, TypeOK, KernelTypeOK, ReadDue, Inside
<1>2. ASSUME UNCHANGED <<interest, cut>>, rx' \subseteq rx, ready \subseteq ready', ReadDue => ReadDue'
      PROVE  ReadEdges'
  BY <1>2 DEF ReadEdges
<1>3. CASE Booting \/ ConnectFails
  <2>1. a.pc = "out" /\ UNCHANGED cut
    BY <1>3 DEF Booting, ConnectFails, At, MainInv, appVars
  <2>2. CASE \E bound \in BOOLEAN : Start(bound)
    BY <1>1, <1>2, <2>1, <2>2 DEF Start, epollVars
  <2>3. CASE WatchSocket
    <3>1. /\ op.fd \in Fds /\ add_socket(op.fd, "READ_WRITE", Raised[op.fd])
          /\ rx' = rx
      BY <2>3 DEF WatchSocket, kernelVars, ClientInvs, TypeOK, ClientTypeOK, OpTypeOK
    <3>2. /\ ready \subseteq ready'
          /\ \A fd \in Fds \ {op.fd} : interest'[fd] = interest[fd]
      BY <1>1, <3>1, AddSocketStep DEF SockOp
    <3>3. op.fd \in rx => op.fd \in ready' \/ interest'[op.fd] = interest[op.fd]
      <4>1. op.fd \in rx => "IN" \in Raised[op.fd]
        BY <3>1 DEF Raised
      <4>2. "IN" \in flags_from_op("READ_WRITE")
        BY DEF flags_from_op
      <4>3. interest[op.fd] # {} => interest' = interest
        BY <3>1 DEF add_socket, epollVars
      <4>4. interest[op.fd] = {} /\ op.fd \in rx => op.fd \in ready'
        BY <3>1, <4>1, <4>2 DEF add_socket
      <4> QED BY <4>3, <4>4
    <3> QED BY <1>1, <2>1, <3>1, <3>2, <3>3 DEF ReadEdges
  <2>4. CASE StoreSocket
    BY <1>1, <1>2, <2>1, <2>4, StoresInEmpty
  <2>5. CASE \/ ConnectSocket \/ RegisterCb \/ UnregisterCb \/ MoveSocket \/ SetRemote
             \/ SetCallback \/ AssignActive \/ ConnectActive \/ ConnectReturnsFalse
    BY <1>1, <1>2, <2>1, <2>5 DEF ConnectSocket, RegisterCb, UnregisterCb, MoveSocket,
       SetRemote, SetCallback, AssignActive, ConnectActive, ConnectReturnsFalse, epollVars,
       kernelVars
  <2> QED BY <1>3, <2>2, <2>3, <2>4, <2>5 DEF Booting, ConnectFails, InControl
<1>4. CASE CallProceed
  <2>1. PICK take \in Takes(Raised) : /\ proceed(take, Raised)
                                      /\ ObsPoll(c, EventsOf(take, Raised))
    BY <1>4 DEF CallProceed, Poll
  <2> DEFINE events == EventsOf(take, Raised)
  <2>2. /\ UNCHANGED <<rx, state, interest, cut>> /\ Connected /\ a.pc = "out"
        /\ ready' = {fd \in ready \ Range(take) : Reported(fd, Raised) # {}}
    BY <1>4, <2>1 DEF CallProceed, Poll, proceed, kernelVars, clientVars, ObsPoll
  <2>3. /\ b.pc = "polled" /\ b.events = events /\ b.k = 1 /\ b.i = 1
    BY <1>1, <2>1 DEF ObsPoll, ObsTypeOK, Outside
  <2>4. /\ \A j \in 1..Len(events) :
              events[j].type = event_type_from_flags(Reported(events[j].fd, Raised))
        /\ \A fd \in Range(take) : \E j \in 1..Len(events) : events[j].fd = fd
    BY <1>1, TakenEvents
  <2> HIDE DEF events
  <2>5. ASSUME NEW fd \in rx, interest[fd] # {} PROVE fd \in ready' \/ cut \/ ReadDue'
    <3>1. fd \in ready \/ cut
      BY <1>1, <2>2, <2>5 DEF ReadEdges
    <3>2. fd = state.fd
      <4>1. fd \in Fds /\ ksock[fd] # "free"
        BY <1>1, <2>5 DEF OneSocket
      <4>2. fd \in {state.fd, op.fd}
        BY <4>1 DEF OneSocket
      <4>3. op.fd = NoFd
        BY <2>2 DEF Connected, NoOp
      <4>4. fd # NoFd
        BY <4>1, ClientAssumption
      <4> QED BY <4>2, <4>3, <4>4
    <3>3. "IN" \in Reported(fd, Raised)
      BY <1>1, <2>5 DEF ClientInvs, ActiveInv, Reported, Raised
    <3>4. CASE fd \in Range(take)
      <4>1. PICK j \in 1..Len(events) : events[j].fd = fd
        BY <2>4, <3>4
      <4>2. "READ_READY" \in events[j].type
        BY <2>4, <3>3, <4>1 DEF event_type_from_flags, TypeOfFlag
      <4>3. j >= 1
        OBVIOUS
      <4> QED BY <2>2, <2>3, <3>2, <4>1, <4>2, <4>3 DEF ReadDue, Inside
    <3> QED BY <2>2, <3>1, <3>3, <3>4
  <2> QED BY <2>2, <2>5 DEF ReadEdges
<1> DEFINE Stays == (HandlerMatches(c) \/ HandlerFindsSome(c) \/ HandlerCalls(c))
                    /\ UNCHANGED appVars
<1>5. CASE Stays
  <2>1. UNCHANGED <<act, state, rx, cut>> /\ (del_socket(state.fd) \/ UNCHANGED epollVars)
    BY <1>5 DEF HandlerMatches, HandlerFindsSome, HandlerCalls, get_fd, obsVars, kernelVars,
       appVars
  <2>2. ReadDue => ReadDue'
    BY <2>1 DEF ReadDue
  <2> QED BY <1>1, <1>2, <2>1, <2>2 DEF del_socket, Unwatch, epollVars, ReadEdges
<1>6. ASSUME InClient(c), ~Stays, ~InRead(c)
      PROVE  ReadEdges'
  <2>1. /\ ObsStep(c) \/ (ObsHandlerReturns(c) /\ (a.cur # "read" \/ Current(c).fd # state.fd))
        /\ UNCHANGED <<state, cut>> /\ rx' \subseteq rx
    <3>1. ASSUME CallbackReturns(c) PROVE a.cur # "read" /\ UNCHANGED <<rx, state>>
      BY <1>6, <3>1 DEF CallbackReturns, InRead
    <3>2. ASSUME HandlerFindsNone(c) PROVE a.cur # "read"
      BY <3>2 DEF HandlerFindsNone, HandlerAt, MainInv
    <3> QED BY <1>6, <3>1, <3>2 DEF InClient, HandlerIgnores, HandlerFindsNone,
         CallbackReturns, RecvResponse, RecvNothing, RecvEof, InLoop, InRead, kernelVars,
         clientVars, appVars, get_fd
  <2>2. ReadDue => ReadDue'
    BY <2>1, DueStays
  <2>3. UNCHANGED epollVars \/ del_socket(state.fd)
    BY <1>6 DEF InClient, HandlerIgnores, HandlerFindsNone, CallbackReturns, RecvResponse,
       RecvNothing, RecvEof, InLoop, get_fd
  <2> QED BY <1>1, <1>2, <2>1, <2>2, <2>3 DEF del_socket, Unwatch, epollVars, ReadEdges
<1>7. ASSUME InClient(c), ~Stays, InRead(c)
      PROVE  ReadEdges'
  <2>1. /\ a.pc = "running" /\ m_mutex = c /\ ReadDue
        /\ RecvResponse(c) \/ RecvNothing(c) \/ RecvEof(c)
    <3>1. a.pc = "running" /\ m_mutex = c /\ handling.pc = "body"
      BY <1>7 DEF InRead, InCallback, HandlerAt
    <3>2. ~ObsStep(c)
      BY <1>1, <3>1, PhaseSteps
    <3> QED BY <1>1, <1>7, <3>1, <3>2, ReadIsDue DEF InClient, HandlerIgnores,
         HandlerFindsNone, HandlerLocks, HandlerAt
  <2>2. /\ UNCHANGED <<interest, ready, state>> /\ rx' \subseteq rx
        /\ \/ UNCHANGED obsVars
           \/ again_or_would_block'
    BY <2>1 DEF RecvResponse, RecvNothing, RecvEof, InLoop, Finished, ReceivesData, WouldBlock,
       ReceivesError, ReceivesEof, epollVars, kernelVars
  <2>3. CASE UNCHANGED obsVars
    BY <2>1, <2>2, <2>3 DEF ReadEdges, ReadDue, obsVars
  <2>4. CASE again_or_would_block' /\ RecvResponse(c)
    <3>1. cut' = (again_or_would_block /\ rx' # {})
      BY <2>4 DEF RecvResponse
    <3>2. again_or_would_block
      BY <2>4 DEF RecvResponse, ReceivesData, again_or_would_block
    <3> QED BY <3>1, <3>2 DEF ReadEdges
  <2>5. CASE RecvNothing(c) \/ RecvEof(c)
    <3>1. inbox[state.fd] = << >>
      BY <2>5 DEF RecvNothing, RecvEof, WouldBlock, ReceivesError, ReceivesEof, AtEof, get_fd
    <3>2. op = NoOp
      BY <2>1 DEF ClientInvs, LockInv
    <3>3. rx = {}
      BY <1>1, <3>1, <3>2 DEF IOInv, OneSocket, NoOp
    <3> QED BY <2>2, <3>3 DEF ReadEdges
  <2> QED BY <2>1, <2>2, <2>3, <2>4, <2>5
<1>8. CASE Leave
  <2>1. /\ \A fd \in Fds : interest'[fd] = {}
        /\ rx' \subseteq rx
    BY <1>8, LeaveStep, AppAssumption
  <2> QED BY <1>1, <2>1 DEF ReadEdges
<1>9. ASSUME UNCHANGED <<obsVars, epollVars, kernelVars, clientVars, cut>> PROVE ReadEdges'
  <2>1. UNCHANGED <<act, state, interest, ready, rx>>
    BY <1>9 DEF obsVars, epollVars, kernelVars, clientVars
  <2> QED BY <1>2, <1>9, <2>1 DEF ReadDue
<1>10. CASE SendLine
  BY <1>9, <1>10 DEF SendLine, Sends, SendFails
<1>11. CASE StartFails \/ NoInput \/ HasInput \/ GetLine \/ SendKills \/ Signal
            \/ UNCHANGED appState
  <2>1. UNCHANGED vars /\ UNCHANGED cut
    BY <1>11 DEF StartFails, NoInput, HasInput, GetLine, SendKills, Signal, appState, appVars
  <2> QED BY <1>9, <2>1 DEF vars
<1>12. CASE Environment
  <2>1. ASSUME NEW p \in Fds, PeerActs(p) \/ Establish(p) \/ Refuse(p),
               UNCHANGED <<obsVars, clientVars, cut>>
        PROVE  ReadEdges'
    <3>1. ReadDue <=> ReadDue'
      BY <2>1 DEF ReadDue, obsVars, clientVars
    <3>2. /\ interest' = interest /\ ready \subseteq ready' /\ rx' \subseteq rx \cup {p}
          /\ p \in rx' \ rx /\ interest[p] # {} => p \in ready'
      BY <1>1, <2>1, PeerKeeps
    <3> QED BY <2>1, <3>1, <3>2 DEF ReadEdges
  <2> QED BY <1>9, <1>12, <2>1, EnvironmentStep DEF vars
<1>13. CASE InClient(c)
  BY <1>5, <1>6, <1>7, <1>13
<1> QED BY <1>3, <1>4, <1>8, <1>10, <1>11, <1>12, <1>13 DEF AppNext, Main

------------------------------------------------------------------------------
(* The conjunction is inductive.                                            *)

\* The program starts with nothing.
LEMMA AppInitInv ==
    AppInit => AppInv
<1> SUFFICES ASSUME AppInit PROVE AppInv
  OBVIOUS
<1> USE ClientAssumption DEF AppInit
<1>1. ObsInv /\ TypeOK /\ LockInv /\ RemoteInv
  BY ClientInit
<1>2. HandlersInv /\ ActiveInv
  BY DEF Init, ObsInit, KernelInit, EpollInit, NoOp, UnlockedPcs, HandlersInv, ActiveInv
<1>3. act[Controller].pc = "out" /\ op = NoOp /\ state = [kind |-> "idle", fd |-> NoFd]
  BY DEF Init, ObsInit, Outside
<1>4. MainInv
  BY <1>3 DEF Init, NoOp, NoHandling, MainInv
<1>5. OneSocket
  BY <1>3 DEF Init, KernelInit, NoOp, NoFd, OneSocket
<1>6. IOInv
  <2>1. StdinTypeOK /\ pipe \in Nat /\ buffered \in Nat
    <3>1. typed = 0 /\ pipe = 0 /\ buffered = 0 /\ partial = "none" /\ eof \in BOOLEAN
      BY DEF StdinInit
    <3> QED BY <3>1, StdinAssumption DEF StdinTypeOK
  <2>2. inbox \in [Fds -> Seq({"bytes"})]
    BY DEF IOInit
  <2> QED BY <2>1, <2>2 DEF Init, KernelInit, IOInit, IOInv
<1>7. EdgeInv
  BY <1>3 DEF Init, KernelInit, EdgeInv, ReadEdges, WatchedUntilErased, ErasedIsNoted,
     InCallback, HandlerAt
<1> QED BY <1>1, <1>2, <1>4, <1>5, <1>6, <1>7 DEF AppInv, ClientInvs

\* The inductive invariant holds of a program that does what main() does: its
\* only thread starts the client once, connects it once, and only then polls
\* (client_main.cpp:57-112).
LEMMA AppAlways ==
    ASSUME Pollers = {Controller}, ConnectFirst, MaxStarts = 1, MaxConnects = 1
    PROVE  AppSpec => []AppInv
<1>1. AppInv /\ [AppNext]_appState => AppInv'
  <2> SUFFICES ASSUME AppInv, [AppNext]_appState PROVE AppInv'
    OBVIOUS
  <2>1. ClientInvs /\ MainInv /\ OneSocket /\ IOInv
    BY DEF AppInv
  <2>2. ReadEdges /\ WatchedUntilErased /\ ErasedIsNoted
    BY DEF AppInv, EdgeInv
  <2>3. ClientInvs' /\ MainInv' /\ OneSocket' /\ IOInv'
    BY <2>1, ClientInvsStep, MainStep, OneSocketStep, IOStep
  <2>4. ErasedIsNoted' /\ (calls[1].disconnects > 0 => calls'[1].disconnects > 0)
    BY <2>1, <2>2, NotedStep
  <2>5. WatchedUntilErased'
    BY <2>1, <2>2, <2>4, WatchedStep
  <2>6. ReadEdges'
    BY <2>1, <2>2, ReadEdgesStep
  <2> QED BY <2>3, <2>4, <2>5, <2>6 DEF AppInv, EdgeInv
<1> QED BY <1>1, AppInitInv, PTL DEF AppSpec

------------------------------------------------------------------------------
(* The theorems.                                                            *)

\* The types of the variables of main() and of async_stdin, and that epoll's
\* view of the receive buffers is recv()'s, for any number of messages and
\* lines (client_main.cpp:17, 57-112, async_stdin.h:16).
THEOREM ClientAppTypes ==
    ASSUME Pollers = {Controller}, ConnectFirst, MaxStarts = 1, MaxConnects = 1
    PROVE  AppSpec => []AppTypeOK
<1>1. AppInv => AppTypeOK
  BY DEF AppInv, ClientInvs, MainInv, IOInv, AppTypeOK
<1> QED BY <1>1, AppAlways, PTL

\* client_main leaves bytes behind without an edge only where on_read_ready
\* came back on the EAGAIN of an earlier call, or on_disconnect was called:
\* EPOLLET loses nothing else, whatever the peer and the user do
\* (client_main.cpp:38-50, socket_impl.cpp:353-356, client.tpp:160-167).
THEOREM UnreadKeepsEdge ==
    ASSUME Pollers = {Controller}, ConnectFirst, MaxStarts = 1, MaxConnects = 1
    PROVE  AppSpec => []UnreadHasEdge
<1>1. AppInv => UnreadHasEdge
  <2> SUFFICES ASSUME AppInv, NEW fd \in rx, main = "poll", Connected
      PROVE  fd \in ready \/ cut \/ calls[m_remote].disconnects > 0
    BY DEF UnreadHasEdge
  <2>1. ~ReadDue
    BY DEF AppInv, MainInv, ReadDue, Inside
  <2>2. fd \in Fds /\ ksock[fd] # "free"
    BY DEF AppInv, ClientInvs, TypeOK, KernelTypeOK, OneSocket
  <2>3. m_remote = 1 /\ ~Erasing
    BY ClientAssumption, AppAssumption DEF Erasing, LockInv, MainInv, Connected, AppInv, ClientInvs, TypeOK, ClientTypeOK
  <2>4. CASE interest[fd] = {}
    BY <2>2, <2>3, <2>4 DEF Connected, NoOp, AppInv, EdgeInv, WatchedUntilErased
  <2>5. CASE interest[fd] # {}
    BY <2>1, <2>5 DEF AppInv, EdgeInv, ReadEdges
  <2> QED BY <2>4, <2>5
<1> QED BY <1>1, AppAlways, PTL
==============================================================================
