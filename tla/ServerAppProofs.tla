-------------------------- MODULE ServerAppProofs ---------------------------
(***************************************************************************)
(* Theorems of server_main, for any descriptors, peers, messages and       *)
(* requests: it implements the application that ServerSystem describes,    *)
(* and the only ways into undefined behaviour are those that               *)
(* UndefinedExplained names.                                               *)
(***************************************************************************)
EXTENDS ServerApp, EndpointLemmas, ServiceProofs

(***************************************************************************)
(* The inductive invariant.                                                *)
(***************************************************************************)
IsSequence(s) == s \in Seq(Range(s))

Fields == {"own", "fd", "remote", "second", "parts"}

\* The vector: its elements have different descriptors, or none, and the
\* iterator is in it where it is dereferenced.
VectorInv ==
    /\ IsSequence(active_sockets)
    /\ \A i \in Elements :
          /\ DOMAIN active_sockets[i] = Fields
          /\ active_sockets[i].own \in BOOLEAN
          /\ active_sockets[i].fd \in (IF proto = "tcp" THEN Fds ELSE {NoFd})
          /\ IsSequence(active_sockets[i].second)
    /\ proto = "tcp" => \A i, j \in Elements :
                            active_sockets[i].fd = active_sockets[j].fd => i = j
    /\ capacity \in Nat /\ Len(active_sockets) <= capacity
    /\ it \in 1..Len(active_sockets) + 1
    /\ main \in {"poll", "proceed"} => it = 1
    /\ main = "reply" => it <= Len(active_sockets)

\* The handler that accepts holds m_mutex until it has handed the socket on.
HoldsAccepted ==
    /\ m_mutex = Controller
    /\ act[Controller].pc = "running" /\ act[Controller].cur = "read"

\* Where main() is, and what that says of the server.
ControlInv ==
    /\ main \in {"poll", "proceed", "scan", "reply", "done", "exited", "crashed", "undefined"}
    /\ main \in {"poll", "scan", "reply", "done"} => act[Controller].pc = "out"
    /\ state.kind = "idle" => main = "poll" /\ active_sockets = << >>
    /\ state.kind = "destroyed" => main = "done"
    /\ op # 0 => /\ m_mutex = Controller /\ state.kind = "idle"
                 /\ act[Controller].pc = "out"
    /\ op = 0 /\ m_mutex # NoThread => act[Controller].pc = "running"
    /\ state.fd \in Fds <=> state.kind = "listening" \/ op # 0
    /\ accepted # NoFd <=> HoldsAccepted

\* The handlers: each under its type.
HandlersInv ==
    \A key \in Keys : m_handlers[key] # NoHandler =>
        \/ key = "READ_READY" /\ m_handlers[key] = "read"
        \/ key \in ErasingTypes /\ m_handlers[key] = "erase"

Connection == {"est", "urgent", "fin", "reset"}

\* The descriptors: what the vector holds is open, and so is what was accepted.
SocketInv ==
    /\ state.fd \in Fds => ksock[state.fd] = IF proto = "tcp" THEN "listen" ELSE "udp"
    /\ proto = "tcp" => \A i \in Elements : ksock[active_sockets[i].fd] \in Connection
    /\ accepted \in Fds => /\ proto = "tcp" /\ ksock[accepted] \in Connection
                           /\ \A i \in Elements : active_sockets[i].fd # accepted
    /\ proto = "udp" => \A fd \in Fds : /\ ksock[fd] = IF fd = state.fd THEN "udp" ELSE "free"
                                        /\ interest[fd] # {} => fd = state.fd
    /\ \A fd \in ready : interest[fd] # {}

\* What recv() returns is in the receive buffer.
BufferInv ==
    /\ inbox \in [Fds -> Seq(Message)]
    /\ \A fd \in Fds : inbox[fd] # << >> => fd \in rx /\ ksock[fd] \in Connection \cup {"udp"}
    /\ proto = "udp" => failed = {} /\ \A fd \in rx : inbox[fd] # << >>
    /\ errno \in {"EAGAIN", "other"} /\ failed \subseteq Fds

\* The batch of a datagram server reports its one socket, readable or writable.
BatchInv ==
    proto = "udp" =>
        /\ Len(act[Controller].events) <= 1
        /\ \A n \in 1..Len(act[Controller].events) :
              act[Controller].events[n].type \cap ErasingTypes = {}

\* The batch has a datagram whose handler has not returned.
OwesRef ==
    LET a == act[Controller]
    IN  /\ a.pc \in {"polled", "serving", "running"}
        /\ a.k = 1 /\ a.i = 1 /\ a.events # << >>
        /\ "READ_READY" \in a.events[1].type

\* As long as no datagram was empty, a reference is answered, and dropped, in
\* the scan that follows the event that brought it.
RefAlone ==
    /\ main = "poll" => active_sockets = << >>
    /\ Len(active_sockets) <= 1
    /\ it = 1
    /\ active_sockets # << >> => active_sockets[1].own /\ ~OwesRef
    /\ OwesRef => inbox[state.fd] # << >>
    /\ main = "proceed" /\ active_sockets # << >> => inbox[state.fd] # << >>
    /\ main = "scan" /\ active_sockets # << >> =>
          inbox[state.fd] # << >> \/ active_sockets[1].second # << >>

OneRef == proto = "udp" /\ ~blank /\ ~Dead => RefAlone

\* An element that was moved had another one beside it.
MovedInv ==
    /\ crowded \in BOOLEAN /\ blank \in BOOLEAN
    /\ Len(active_sockets) > 1 => crowded
    /\ (\E i \in Elements : ~active_sockets[i].own) => crowded

CrowdInv == MovedInv /\ OneRef /\ UndefinedExplained

AppInv ==
    /\ ServerTypeOK /\ ObsInv /\ HandlersInv
    /\ VectorInv /\ ControlInv /\ SocketInv /\ BufferInv /\ BatchInv

------------------------------------------------------------------------------
(* Sequences.                                                               *)

\* A sequence of anything is a sequence of its elements.
LEMMA SequenceOf ==
    ASSUME NEW S, NEW s \in Seq(S)
    PROVE  IsSequence(s) /\ Len(s) \in Nat /\ DOMAIN s = 1..Len(s)
<1>1. s \in [1..Len(s) -> Range(s)] /\ Len(s) \in Nat
  BY DEF Range
<1> QED BY <1>1 DEF IsSequence

\* A function on 1..n is a sequence of n elements.
LEMMA FunctionSequence ==
    ASSUME NEW n \in Nat, NEW s, DOMAIN s = 1..n, s = [i \in 1..n |-> s[i]]
    PROVE  IsSequence(s) /\ Len(s) = n
<1>1. s \in [1..n -> Range(s)]
  BY DEF Range
<1>2. s \in Seq(Range(s))
  BY <1>1
<1> QED BY <1>1, <1>2 DEF IsSequence

\* A request that grows by something is not empty (server_main.cpp:126).
LEMMA JoinSequences ==
    ASSUME NEW a, NEW b, IsSequence(a), IsSequence(b)
    PROVE  /\ IsSequence(Join(a, b))
           /\ Join(a, b) = << >> <=> a = << >> /\ b = << >>
<1> DEFINE g == Glue(Last(a), Head(b))
           S == Range(a) \cup Range(b) \cup {g}
<1>1. CASE a = << >> \/ b = << >>
  BY <1>1 DEF Join
<1>2. CASE a # << >> /\ b # << >>
  <2>1. a \in Seq(S) /\ b \in Seq(S) /\ g \in S
    BY DEF IsSequence
  <2>2. Join(a, b) = Front(a) \o <<g>> \o Tail(b)
    BY <1>2 DEF Join
  <2> HIDE DEF g, S
  <2>3. Front(a) \in Seq(S)
    BY <1>2, <2>1 DEF Front
  <2>4. <<g>> \in Seq(S) /\ Tail(b) \in Seq(S)
    BY <1>2, <2>1
  <2>5. /\ Front(a) \o <<g>> \in Seq(S)
        /\ Len(Front(a) \o <<g>>) = Len(Front(a)) + 1
    BY <2>3, <2>4
  <2>6. /\ Join(a, b) \in Seq(S)
        /\ Len(Join(a, b)) = Len(Front(a)) + 1 + Len(Tail(b))
    BY <2>2, <2>4, <2>5
  <2>7. Len(Join(a, b)) > 0
    BY <2>3, <2>4, <2>6
  <2> QED BY <1>2, <2>6, <2>7, SequenceOf
<1> QED BY <1>1, <1>2

------------------------------------------------------------------------------
(* The vector.                                                              *)

\* An element that is moved keeps everything but its pointer to itself
\* (base_socket.h:24-41).
LEMMA MovedElement ==
    ASSUME NEW e, DOMAIN e = Fields
    PROVE  /\ DOMAIN Moved(e) = Fields /\ Moved(e).own = FALSE
           /\ Moved(e).fd = e.fd /\ Moved(e).second = e.second
BY DEF Moved, Fields

\* What emplace_back does: the new element comes last, and the others may be
\* moved (server_main.cpp:42, 67).
LEMMA EmplaceBack ==
    ASSUME VectorInv, NEW fd, emplace_back(fd)
    PROVE  /\ IsSequence(active_sockets') /\ Len(active_sockets') = Len(active_sockets) + 1
           /\ \A i \in Elements :
                 /\ DOMAIN active_sockets'[i] = Fields
                 /\ active_sockets'[i].fd = active_sockets[i].fd
                 /\ active_sockets'[i].second = active_sockets[i].second
                 /\ active_sockets'[i].own \in {active_sockets[i].own, FALSE}
           /\ active_sockets'[Len(active_sockets) + 1] =
                 [own |-> TRUE, fd |-> fd, remote |-> 0, second |-> << >>, parts |-> << >>]
           /\ capacity' \in Nat /\ Len(active_sockets) + 1 <= capacity'
           /\ active_sockets # << >> => crowded'
           /\ crowded => crowded'
           /\ crowded' \in BOOLEAN
<1> DEFINE n == Len(active_sockets)
           grows == n = capacity
           old == IF grows THEN [i \in Elements |-> Moved(active_sockets[i])]
                           ELSE active_sockets
           e == [own |-> TRUE, fd |-> fd, remote |-> 0, second |-> << >>, parts |-> << >>]
           S == Range(old) \cup {e}
<1>1. n \in Nat /\ Elements = 1..n
  BY SequenceOf DEF VectorInv, IsSequence, Elements
<1>2. DOMAIN old = 1..n /\ old = [i \in 1..n |-> old[i]] /\ IsSequence(old) /\ Len(old) = n
  <2>1. CASE grows
    <3>1. DOMAIN old = 1..n /\ old = [i \in 1..n |-> old[i]]
      BY <1>1, <2>1
    <3> HIDE DEF old, n
    <3> QED BY <1>1, <3>1, FunctionSequence
  <2>2. CASE ~grows
    BY <1>1, <2>2 DEF VectorInv, IsSequence, Elements
  <2> QED BY <2>1, <2>2
<1>3. ASSUME NEW i \in 1..n
      PROVE  /\ DOMAIN old[i] = Fields
             /\ old[i].fd = active_sockets[i].fd
             /\ old[i].second = active_sockets[i].second
             /\ old[i].own \in {active_sockets[i].own, FALSE}
  <2>1. DOMAIN active_sockets[i] = Fields
    BY <1>1 DEF VectorInv
  <2>2. old[i] = active_sockets[i] \/ old[i] = Moved(active_sockets[i])
    BY <1>1
  <2> HIDE DEF old
  <2> QED BY <2>1, <2>2, MovedElement
<1>4. /\ active_sockets' = Append(old, e)
      /\ capacity' = IF ~grows THEN capacity ELSE IF capacity = 0 THEN 1 ELSE 2 * capacity
      /\ crowded' = (crowded \/ active_sockets # << >>)
  BY DEF emplace_back
<1>5. capacity' \in Nat /\ n + 1 <= capacity'
  BY <1>1, <1>4 DEF VectorInv
<1> HIDE DEF old, n, grows, e
<1>6. old \in Seq(S) /\ e \in S
  BY <1>2 DEF IsSequence
<1> HIDE DEF S
<1>7. /\ active_sockets' \in Seq(S) /\ Len(active_sockets') = n + 1
      /\ \A i \in 1..n : active_sockets'[i] = old[i]
      /\ active_sockets'[n + 1] = e
  BY <1>1, <1>2, <1>4, <1>6
<1>8. IsSequence(active_sockets')
  BY <1>7, SequenceOf
<1> QED BY <1>1, <1>3, <1>4, <1>5, <1>7, <1>8 DEF e, n

\* What erase does: the elements behind the erased one move up
\* (server_main.cpp:51-53, 139, 144).
LEMMA EraseElement ==
    ASSUME VectorInv, NEW i \in Elements
    PROVE  /\ IsSequence(Without(i)) /\ Len(Without(i)) = Len(active_sockets) - 1
           /\ Len(Without(i)) \in Nat /\ DOMAIN Without(i) = 1..Len(Without(i))
           /\ \A j \in 1..Len(Without(i)) :
                 LET e == active_sockets[IF j < i THEN j ELSE j + 1]
                 IN  /\ DOMAIN Without(i)[j] = Fields
                     /\ Without(i)[j].fd = e.fd /\ Without(i)[j].second = e.second
                     /\ Without(i)[j].own = IF j < i THEN e.own ELSE FALSE
<1> DEFINE n == Len(active_sockets)
           v == Without(i)
<1>1. n \in Nat /\ Elements = 1..n /\ n - 1 \in Nat /\ i \in 1..n
  BY SequenceOf DEF VectorInv, IsSequence, Elements
<1>2. DOMAIN v = 1..n - 1 /\ v = [j \in 1..n - 1 |-> v[j]]
  BY DEF Without
<1>3. IsSequence(v) /\ Len(v) = n - 1
  <2> HIDE DEF n, v
  <2> QED BY <1>1, <1>2, FunctionSequence
<1>4. ASSUME NEW j \in 1..n - 1
      PROVE  LET e == active_sockets[IF j < i THEN j ELSE j + 1]
             IN  /\ DOMAIN v[j] = Fields /\ v[j].fd = e.fd /\ v[j].second = e.second
                 /\ v[j].own = IF j < i THEN e.own ELSE FALSE
  <2> DEFINE e == active_sockets[IF j < i THEN j ELSE j + 1]
  <2>1. DOMAIN e = Fields
    BY <1>1 DEF VectorInv
  <2>2. v[j] = IF j < i THEN e ELSE Moved(e)
    BY DEF Without
  <2> HIDE DEF e
  <2> QED BY <2>1, <2>2, MovedElement DEF e
<1> QED BY <1>1, <1>2, <1>3, <1>4

------------------------------------------------------------------------------
(* The observer and the types.                                              *)

\* The steps of main() and of the world in which the observer does nothing.
Quiet ==
    \/ Booting /\ ~RegisterCb
    \/ BeginScan \/ EndScan \/ ScanUndefined \/ RecvData \/ RecvEof \/ RecvEnds
    \/ Reply \/ Signal \/ Network
    \/ EraseUndefined(Controller)
    \/ UNCHANGED vars

\* The steps of main(), of the network and of signals that leave the observer
\* alone (server_main.cpp:20-28, 117-148).
LEMMA QuietSteps ==
    ASSUME Quiet
    PROVE  UNCHANGED obsVars
BY DEF Quiet, Booting, Start, InStart, Listen, BeginScan, EndScan, ScanUndefined, RecvData,
       RecvEof, RecvEnds, Reply, ResponseThrows, Answered, ReplyFails, SendKills, Signal,
       Network, PeerConnects, Arrival, DatagramArrives, EraseUndefined, endpointVars, vars

\* The handler that runs is one of the two, for a type the event carries
\* (event_observer.tpp:82-94, server.tpp:99-131).
LEMMA RunningApp ==
    ASSUME ObsInv, HandlersInv, NEW t \in Threads, act[t].pc = "running"
    PROVE  /\ Current(t) \in Event
           /\ act[t].k \in 1..Len(act[t].events)
           /\ act[t].cur \in {"erase", "read"}
           /\ act[t].cur = "read" => act[t].i = 1 /\ "READ_READY" \in Current(t).type
           /\ act[t].cur = "erase" => Current(t).type \cap ErasingTypes # {}
<1> DEFINE e == Current(t)
           i == act[t].i
<1>1. act[t].events \in Seq(Event) /\ act[t].k \in 1..Len(act[t].events) /\ i \in Steps
  BY DEF ObsInv, ObsTypeOK, ActRecord, RecordInv, Place
<1>2. e \in Event
  BY <1>1 DEF Current
<1>3. LookupKey(e, i) \in Keys
  BY <1>1, <1>2, LookupKeyType
<1>4. act[t].cur # NoHandler /\ m_handlers[LookupKey(e, i)] = act[t].cur
  BY DEF ObsInv, RecordInv, Running, Current
<1>5. \/ LookupKey(e, i) = "READ_READY" /\ act[t].cur = "read"
      \/ LookupKey(e, i) \in ErasingTypes /\ act[t].cur = "erase"
  BY <1>3, <1>4 DEF HandlersInv
<1>6. LookupKey(e, i) # "NONE" => LookupKey(e, i) = TypeOrder[i] /\ TypeOrder[i] \in e.type
  BY DEF LookupKey
<1>7. LookupKey(e, i) = "READ_READY" => i = 1 /\ "READ_READY" \in e.type
  <2> HIDE DEF i, e
  <2>1. TypeOrder[i] = "READ_READY" => i = 1
    BY <1>1 DEF TypeOrder, Steps
  <2> QED BY <1>6, <2>1
<1>8. LookupKey(e, i) \in ErasingTypes => e.type \cap ErasingTypes # {}
  BY <1>6 DEF ErasingTypes
<1> QED BY <1>1, <1>2, <1>5, <1>7, <1>8

\* Every step is a step of the observer, or none, and only start() and the
\* destructor change the handler map (server.tpp:28, 99-131, 135-142).
LEMMA AppObserver ==
    ASSUME ServerTypeOK, ObsInv, HandlersInv, [Next]_vars
    PROVE  ObsInv' /\ HandlersInv'
<1> USE ServerAssumption, AppAssumption
<1>1. CASE Quiet
  BY <1>1, QuietSteps, ObsStutterInv DEF HandlersInv, obsVars
<1>2. CASE RegisterCb
  <2> DEFINE key == RegisterOrder[op]
             h == HandlerFor(key)
  <2>1. /\ key = "READ_READY" => h = "read"
        /\ key # "READ_READY" => h = "erase" /\ key \in ErasingTypes
        /\ key \in Keys /\ h \in Handlers
    BY <1>2 DEF RegisterCb, RegisterOrder, HandlerFor, Keys, EventType, ErasingTypes
  <2>2. add(key, h)
    BY <1>2 DEF RegisterCb
  <2> HIDE DEF key, h
  <2>3. m_handlers' = m_handlers \/ m_handlers' = [m_handlers EXCEPT ![key] = h]
    BY <2>2 DEF add
  <2>4. m_handlers \in [Keys -> Handlers \cup {NoHandler}]
    BY DEF ObsInv, ObsTypeOK
  <2>5. HandlersInv'
    BY <2>1, <2>3, <2>4 DEF HandlersInv
  <2> QED BY <2>1, <2>2, <2>5, AddInv
<1>3. CASE Leave
  <2>1. sharers = {} /\ UNCHANGED <<sharers, act>>
    BY <1>3 DEF Leave, Destroys, ObsInv, LockDiscipline
  <2>2. m_handlers' \in [Keys -> Handlers \cup {NoHandler}]
    BY <1>3 DEF Leave, Destroys, ObsInv, ObsTypeOK
  <2>3. \A key \in Keys : m_handlers'[key] \in {NoHandler, m_handlers[key]}
    BY <1>3 DEF Leave, Destroys
  <2>4. HandlersInv'
    BY <2>3 DEF HandlersInv
  <2> QED BY <2>1, <2>2, <2>4, NoServerInv
<1>4. CASE CallProceed
  <2>1. PICK take \in Takes(Raised) : ObsPoll(Controller, EventsOf(take, Raised))
    BY <1>4 DEF CallProceed, Poll
  <2>2. EventsOf(take, Raised) \in Seq(Event)
    BY TakenEvents DEF ServerTypeOK
  <2>3. ObsInv'
    BY <2>1, <2>2, PollInv
  <2> QED BY <2>1, <2>3 DEF ObsPoll, HandlersInv
<1>5. CASE InProceed(Controller) /\ ~EraseUndefined(Controller)
  <2>1. ObsStep(Controller) \/ ObsHandlerReturns(Controller) \/ UNCHANGED obsVars
    BY <1>5 DEF InProceed, InEndpoint, Accepts, Accept, HandlerIgnores, AcceptFails,
                HandlerErases, OnConn, HandsOver, OnConnUdp, HandsOverRef, EraseActiveSocket,
                CallsErase
  <2>2. CASE UNCHANGED obsVars
    BY <2>2, ObsStutterInv DEF HandlersInv, obsVars
  <2>3. CASE ObsStep(Controller) \/ ObsHandlerReturns(Controller)
    BY <2>3, StepInv, HandlerReturnsInv, ForwardSteps DEF HandlersInv
  <2> QED BY <2>1, <2>2, <2>3
<1> QED BY <1>1, <1>2, <1>3, <1>4, <1>5 DEF Next, Main, Scan, InStart, Booting, Quiet

\* Closing descriptors (external).
LEMMA CloseStep ==
    ASSUME KernelTypeOK, NEW fds, Close(fds)
    PROVE  /\ KernelTypeOK' /\ rx' = rx \ fds
           /\ \A fd \in Fds : ksock'[fd] = IF fd \in fds THEN "free" ELSE ksock[fd]
  BY DEF KernelTypeOK, Close, SockState

\* The variables of the server keep their types.
LEMMA AppServerTypes ==
    ASSUME ServerTypeOK, ObsInv, HandlersInv, VectorInv, ControlInv, [Next]_vars
    PROVE  ServerTypeOK'
<1> USE ServerAssumption, AppAssumption DEF NoFd
<1>1. ObsTypeOK'
  BY AppObserver DEF ObsInv
<1>2. EpollTypeOK /\ KernelTypeOK
  BY DEF ServerTypeOK
<1>3. CASE UNCHANGED <<epollVars, kernelVars, serverVars>>
  BY <1>1, <1>3 DEF ServerTypeOK, EpollTypeOK, KernelTypeOK, epollVars, kernelVars, serverVars
<1>4. CASE Start
  BY <1>1, <1>4 DEF Start, ServerTypeOK, EpollTypeOK, KernelTypeOK, SockState, epollVars
<1>5. CASE RegisterCb
  BY <1>1, <1>5 DEF RegisterCb, RegisterOrder, ServerTypeOK, EpollTypeOK, KernelTypeOK,
                    epollVars, kernelVars
<1>6. CASE Listen
  <2>1. state.fd \in Fds /\ "READ" \in SockOp
    BY <1>6 DEF Listen, RegisterOrder, ControlInv, SockOp, ServerTypeOK
  <2>2. EpollTypeOK'
    BY <1>2, <1>6, <2>1, AddSocketStep DEF Listen
  <2>3. /\ state' = [state EXCEPT !.kind = "listening"] /\ m_mutex' = NoThread /\ op' = 0
        /\ UNCHANGED <<kernelVars, proto, accepted, pending, peers>>
    BY <1>6 DEF Listen
  <2>4. state' \in [kind : {"idle", "listening", "destroyed"}, fd : Fds \cup {NoFd}]
    BY <2>3 DEF ServerTypeOK
  <2>5. KernelTypeOK'
    BY <2>3 DEF ServerTypeOK, KernelTypeOK, kernelVars
  <2> QED BY <1>1, <2>2, <2>3, <2>4, <2>5 DEF ServerTypeOK
<1>7. CASE Leave
  <2>1. EpollTypeOK' /\ KernelTypeOK'
    BY <1>2, <1>7, UnwatchStep, CloseStep DEF Leave, Destroys
  <2> QED BY <1>1, <1>7, <2>1 DEF Leave, Destroys, ServerTypeOK
<1>8. CASE CallProceed
  <2>1. EpollTypeOK'
    BY <1>2, <1>8, ProceedStep DEF CallProceed, Poll
  <2> QED BY <1>1, <1>8, <2>1 DEF CallProceed, Poll, ServerTypeOK, KernelTypeOK, kernelVars,
                                  serverVars
<1>9. CASE HandlerErases(Controller)
  <2>1. EpollTypeOK'
    BY <1>2, <1>9, UnwatchStep DEF HandlerErases, del_socket
  <2> QED BY <1>1, <1>9, <2>1 DEF HandlerErases, ServerTypeOK, KernelTypeOK, kernelVars
<1>10. CASE Accepts(Controller)
  <2>1. Accept(Controller)
    BY <1>10 DEF Accepts
  <2>2. KernelTypeOK' /\ accepted' \in Fds
    BY <2>1 DEF Accept, AcceptedStates, ServerTypeOK, KernelTypeOK, SockState
  <2>3. EpollTypeOK'
    BY <1>2, <2>1 DEF Accept, EpollTypeOK, epollVars
  <2> QED BY <1>1, <2>1, <2>2, <2>3 DEF Accept, ServerTypeOK
<1>11. CASE OnConn(Controller)
  <2>1. accepted \in Fds /\ "READ" \in SockOp
    BY <1>11 DEF OnConn, HandsOver, ControlInv, HoldsAccepted, ServerTypeOK, SockOp
  <2>2. EpollTypeOK'
    BY <1>2, <1>11, <2>1, AddSocketStep DEF OnConn, HandsOver
  <2> QED BY <1>1, <1>2, <1>11, <2>1, <2>2 DEF OnConn, HandsOver, ServerTypeOK, KernelTypeOK,
                                               kernelVars
<1>12. CASE EraseActiveSocket(Controller)
  <2>1. KernelTypeOK'
    BY <1>2, <1>12, CloseStep DEF EraseActiveSocket
  <2>2. EpollTypeOK'
    BY <1>2, <1>12 DEF EraseActiveSocket, CallsErase, EpollTypeOK, epollVars
  <2> QED BY <1>1, <1>12, <2>1, <2>2 DEF EraseActiveSocket, CallsErase, ServerTypeOK
<1>13. CASE RecvData
  <2>1. KernelTypeOK'
    BY <1>2, <1>13 DEF RecvData, ReceivesData, KernelTypeOK
  <2> QED BY <1>1, <1>2, <1>13, <2>1 DEF RecvData, ServerTypeOK, EpollTypeOK, epollVars,
                                         endpointVars, serverVars
<1>14. CASE ReplyFails /\ proto = "tcp"
  <2>1. EpollTypeOK' /\ KernelTypeOK'
    BY <1>2, <1>14, UnwatchStep, CloseStep DEF ReplyFails
  <2> QED BY <1>1, <1>14, <2>1 DEF ReplyFails, ServerTypeOK, endpointVars, serverVars
<1>15. CASE PeerConnects \/ DatagramArrives
  <2>1. state.fd \in Fds
    BY <1>15 DEF PeerConnects, DatagramArrives
  <2>2. EpollTypeOK'
    BY <1>2, <1>15, <2>1, WakeStep DEF PeerConnects, DatagramArrives, Arrive
  <2>3. KernelTypeOK'
    BY <1>15, <2>1 DEF PeerConnects, DatagramArrives, Arrive, ServerTypeOK, KernelTypeOK
  <2> QED BY <1>1, <1>2, <1>15, <2>2, <2>3 DEF PeerConnects, DatagramArrives, ServerTypeOK
<1>16. ASSUME NEW fd \in Fds, PeerActs(fd), UNCHANGED serverVars
       PROVE  ServerTypeOK'
  BY <1>1, <1>2, <1>16, PeerStep DEF ServerTypeOK, serverVars
<1>17. ASSUME \/ BeginScan \/ EndScan \/ ScanUndefined \/ RecvEof \/ RecvEnds
              \/ ResponseThrows \/ Answered \/ SendKills \/ Signal
              \/ ReplyFails /\ proto # "tcp"
              \/ EraseUndefined(Controller)
              \/ ObsStep(Controller) /\ UNCHANGED <<epollVars, kernelVars, serverVars>>
              \/ HandlerIgnores(Controller) \/ AcceptFails(Controller)
              \/ OnConnUdp(Controller) \/ UNCHANGED vars
       PROVE  UNCHANGED <<epollVars, kernelVars, serverVars>>
  BY <1>17 DEF BeginScan, EndScan, ScanUndefined, RecvEof, RecvEnds, ResponseThrows, Answered,
               SendKills, Signal, ReplyFails, EraseUndefined, HandlerIgnores, AcceptFails,
               OnConnUdp, HandsOverRef, ReceivesEof, WouldBlock, ReceivesError, Sends,
               endpointVars, vars
<1>18. CASE Network
  BY <1>15, <1>16, <1>18 DEF Network, Arrival, Delivers, PeerActs, endpointVars
<1> QED BY <1>3, <1>4, <1>5, <1>6, <1>7, <1>8, <1>9, <1>10, <1>11, <1>12, <1>13, <1>14, <1>17,
           <1>18
        DEF Next, Main, Booting, InStart, InProceed, InEndpoint, Scan, Reply

------------------------------------------------------------------------------
(* Where main() and the server are.                                         *)

\* A step of main() that leaves the server alone keeps ControlInv, if main()
\* stays where the server allows it to be.
LEMMA ControlFrame ==
    ASSUME ControlInv, UNCHANGED <<act, m_mutex, state, op, accepted>>,
           main' \in {"poll", "proceed", "scan", "reply", "exited", "crashed", "undefined"},
           main' \in {"poll", "scan", "reply"} => act[Controller].pc = "out",
           state.kind = "idle" => main' = "poll" /\ active_sockets' = << >>,
           state.kind = "destroyed" => UNCHANGED main
    PROVE  ControlInv'
BY DEF ControlInv, HoldsAccepted

\* Every step keeps ControlInv (server_main.cpp:34-74, 117-148,
\* server.tpp:20-31, 99-142).
LEMMA ControlStep ==
    ASSUME ServerTypeOK, ObsInv, HandlersInv, VectorInv, ControlInv, [Next]_vars
    PROVE  ControlInv'
<1> USE ServerAssumption, AppAssumption DEF NoFd
<1>1. ObsTypeOK /\ act \in [Threads -> ActRecord] /\ Controller \in Threads
  BY DEF ObsInv, ObsTypeOK
<1>2. state.fd \in Fds \cup {NoFd} /\ accepted \in Fds \cup {NoFd}
      /\ state.kind \in {"idle", "listening", "destroyed"}
  BY DEF ServerTypeOK
<1>3. NoFd \notin Fds /\ NoThread # Controller
  OBVIOUS
<1>4. CASE Start /\ Booting
  <2>1. main = "poll" /\ UNCHANGED <<main, active_sockets, act, accepted>>
    BY <1>4 DEF Start, Booting, appVars, obsVars
  <2>2. state.kind = "idle" /\ act[Controller].pc = "out"
    BY <1>4 DEF Start
  <2>3. state' = [state EXCEPT !.fd = state'.fd] /\ state'.fd \in Fds /\ state'.kind = "idle"
        /\ op' = 1 /\ m_mutex' = Controller
    BY <1>4 DEF Start, ServerTypeOK
  <2> QED BY <2>1, <2>2, <2>3 DEF ControlInv, HoldsAccepted
<1>5. CASE RegisterCb /\ Booting
  <2>1. UNCHANGED <<main, active_sockets, act, accepted, m_mutex, state>>
        /\ op # 0 /\ op' # 0
    BY <1>5 DEF RegisterCb, Booting, appVars, add, ServerTypeOK
  <2> QED BY <2>1 DEF ControlInv, HoldsAccepted
<1>6. CASE Listen /\ Booting
  <2>1. UNCHANGED <<main, active_sockets, act, accepted>> /\ main = "poll"
        /\ op # 0 /\ op' = 0 /\ m_mutex' = NoThread
    BY <1>6 DEF Listen, Booting, appVars, obsVars, RegisterOrder
  <2>2. state' = [state EXCEPT !.kind = "listening"]
    BY <1>6 DEF Listen
  <2>3. state'.kind = "listening" /\ state'.fd = state.fd
    BY <2>2 DEF ServerTypeOK
  <2> QED BY <2>1, <2>3 DEF ControlInv, HoldsAccepted
<1>7. CASE CallProceed
  <2>1. /\ main' = "proceed" /\ state.kind = "listening" /\ act[Controller].pc = "out"
        /\ op = 0 /\ UNCHANGED <<m_mutex, state, op, accepted, active_sockets>>
    BY <1>7 DEF CallProceed, At, Poll, ObsPoll, serverVars
  <2>2. m_mutex = NoThread /\ accepted = NoFd
    BY <2>1 DEF ControlInv, HoldsAccepted
  <2> QED BY <1>2, <2>1, <2>2 DEF ControlInv, HoldsAccepted
<1>8. CASE ObsStep(Controller) /\ main = "proceed" /\ UNCHANGED <<serverVars, appVars>>
  <2>1. act[Controller].pc \notin {"out", "running"}
    BY <1>1, <1>8, PhaseSteps
  <2>2. UNCHANGED <<m_mutex, state, op, accepted, main, active_sockets>>
    BY <1>8 DEF serverVars, appVars
  <2>3. op = 0 /\ m_mutex = NoThread /\ accepted = NoFd
    BY <2>1 DEF ControlInv, HoldsAccepted
  <2> QED BY <1>3, <1>8, <2>2, <2>3 DEF ControlInv, HoldsAccepted
<1>9. CASE HandlerErases(Controller) /\ main = "proceed" /\ UNCHANGED appVars
  <2>1. /\ act[Controller].pc = "running" /\ act[Controller].cur = "erase"
        /\ m_mutex = NoThread /\ m_mutex' = Controller
        /\ UNCHANGED <<act, state, op, accepted, main, active_sockets>>
    BY <1>9 DEF HandlerErases, HandlerLocks, obsVars, appVars
  <2> QED BY <1>3, <2>1 DEF ControlInv, HoldsAccepted
<1>10. CASE Accepts(Controller) /\ main = "proceed"
  <2>1. /\ act[Controller].pc = "running" /\ act[Controller].cur = "read"
        /\ m_mutex' = Controller /\ accepted' \in Fds
        /\ UNCHANGED <<act, state, op>>
    BY <1>10 DEF Accepts, Accept, HandlerLocks, ListenerReady, obsVars
  <2>2. UNCHANGED <<main, active_sockets>>
    BY <1>10 DEF Accepts, Counts, appVars
  <2> QED BY <1>3, <1>10, <2>1, <2>2 DEF ControlInv, HoldsAccepted
<1>11. ASSUME main = "proceed", ObsHandlerReturns(Controller), UNCHANGED <<state, op>>,
              m_mutex' = NoThread, accepted' = NoFd, main' = main
       PROVE  ControlInv'
  BY <1>3, <1>11 DEF ControlInv, HoldsAccepted, ObsHandlerReturns
<1>12. CASE /\ HandlerIgnores(Controller) \/ AcceptFails(Controller)
            /\ main = "proceed" /\ UNCHANGED appVars
  <2>1. m_mutex = NoThread
    BY <1>12 DEF HandlerIgnores, AcceptFails, HandlerLocks
  <2>2. accepted = NoFd
    BY <1>3, <2>1 DEF ControlInv, HoldsAccepted
  <2> QED BY <1>11, <1>12, <2>1, <2>2
          DEF HandlerIgnores, AcceptFails, serverVars, appVars
<1>13. CASE OnConn(Controller) /\ main = "proceed"
  BY <1>11, <1>13 DEF OnConn, HandsOver
<1>14. CASE OnConnUdp(Controller) /\ main = "proceed"
  <2>1. m_mutex = NoThread
    BY <1>14 DEF OnConnUdp, HandsOverRef, HandlerLocks
  <2>2. accepted = NoFd
    BY <1>3, <2>1 DEF ControlInv, HoldsAccepted
  <2> QED BY <1>11, <1>14, <2>1, <2>2 DEF OnConnUdp, HandsOverRef, serverVars
<1>15. CASE EraseActiveSocket(Controller) /\ main = "proceed"
  <2>1. InErase(Controller)
    BY <1>15 DEF EraseActiveSocket, CallsErase
  <2>2. accepted = NoFd
    BY <2>1 DEF ControlInv, HoldsAccepted, InErase
  <2> QED BY <1>11, <1>15, <2>2 DEF EraseActiveSocket, CallsErase
<1>16. CASE Leave
  <2>1. /\ main' = "done" /\ act[Controller].pc = "out" /\ state'.kind = "destroyed"
        /\ state'.fd = NoFd /\ m_mutex = NoThread /\ UNCHANGED <<act, m_mutex, op, accepted>>
    BY <1>16 DEF Leave, At, Destroys
  <2>2. op = 0 /\ accepted = NoFd
    BY <1>3, <2>1 DEF ControlInv, HoldsAccepted
  <2> QED BY <1>3, <2>1, <2>2 DEF ControlInv, HoldsAccepted
<1>17. CASE EraseUndefined(Controller) /\ main = "proceed"
  <2>1. main' = "undefined" /\ UNCHANGED <<act, m_mutex, state, op, accepted>>
    BY <1>17 DEF EraseUndefined, obsVars, serverVars
  <2>2. state.kind = "listening"
    BY <1>2, <1>17 DEF ControlInv
  <2> QED BY <2>1, <2>2, ControlFrame
<1>18. CASE Scan \/ Reply
  <2>1. /\ main \in {"proceed", "scan", "reply"}
        /\ main' \in {"poll", "scan", "reply", "crashed", "undefined"}
        /\ UNCHANGED <<act, m_mutex, state, op, accepted>>
    BY <1>18 DEF Scan, BeginScan, EndScan, ScanUndefined, RecvData, RecvEof, RecvEnds,
         Dereferences, Reply, ResponseThrows, Answered, ReplyFails, SendKills, At, endpointVars,
         obsVars, serverVars, appVars
  <2>2. act[Controller].pc = "out"
    BY <1>18, <2>1 DEF ControlInv, Scan, BeginScan, EndScan, ScanUndefined, RecvData, RecvEof,
         RecvEnds, Dereferences, Reply, ResponseThrows, Answered, ReplyFails, SendKills, At
  <2>3. state.kind = "listening"
    BY <1>2, <2>1 DEF ControlInv
  <2> QED BY <2>1, <2>2, <2>3, ControlFrame
<1>19. CASE Signal
  <2>1. /\ state.kind = "listening" /\ main' \in {main, "exited"} /\ main # "done"
        /\ UNCHANGED <<act, m_mutex, state, op, accepted>>
    BY <1>19 DEF Signal, Dead, endpointVars, obsVars, serverVars
  <2> QED BY <2>1, ControlFrame DEF ControlInv
<1>20. CASE Network \/ UNCHANGED vars
  <2>1. UNCHANGED <<act, m_mutex, state, op, accepted, main, active_sockets>>
    BY <1>20 DEF Network, PeerConnects, Arrival, DatagramArrives, Counts, endpointVars, obsVars,
         serverVars, appVars, vars
  <2> QED BY <2>1 DEF ControlInv, HoldsAccepted
<1> QED BY <1>4, <1>5, <1>6, <1>7, <1>8, <1>9, <1>10, <1>12, <1>13, <1>14, <1>15, <1>16, <1>17,
           <1>18, <1>19, <1>20
        DEF Next, Main, Booting, InStart, InProceed, InEndpoint

------------------------------------------------------------------------------
(* The vector, step by step.                                                *)

\* An element gets another request; nothing else changes.
LEMMA SetRequest ==
    ASSUME VectorInv, it \in Elements, NEW e, NEW second,
           DOMAIN e = Fields, e.own = This.own, e.fd = This.fd, e.second = second,
           active_sockets' = [active_sockets EXCEPT ![it] = e]
    PROVE  /\ IsSequence(active_sockets') /\ Len(active_sockets') = Len(active_sockets)
           /\ DOMAIN active_sockets' = Elements
           /\ \A i \in Elements :
                 /\ DOMAIN active_sockets'[i] = Fields
                 /\ active_sockets'[i].own = active_sockets[i].own
                 /\ active_sockets'[i].fd = active_sockets[i].fd
                 /\ active_sockets'[i].second = IF i = it THEN second ELSE active_sockets[i].second
<1> DEFINE n == Len(active_sockets)
<1>1. n \in Nat /\ Elements = 1..n
  BY SequenceOf DEF VectorInv, IsSequence, Elements
<1>2. /\ DOMAIN active_sockets' = 1..n
      /\ active_sockets' = [i \in 1..n |-> active_sockets'[i]]
      /\ \A i \in 1..n : active_sockets'[i] = IF i = it THEN e ELSE active_sockets[i]
  BY <1>1 DEF Elements
<1>3. IsSequence(active_sockets') /\ Len(active_sockets') = n
  <2> HIDE DEF n
  <2> QED BY <1>1, <1>2, FunctionSequence
<1> QED BY <1>1, <1>2, <1>3 DEF VectorInv, This

\* The element that recv() has filled (server_main.cpp:125-129).
LEMMA RecvElement ==
    ASSUME VectorInv, BufferInv, RecvData, FdOf(This) \in Fds
    PROVE  LET m == Head(inbox[FdOf(This)])
               e == [This EXCEPT !.remote = m.from, !.second = Join(@, m.req),
                                 !.parts = Append(@, m.from)]
           IN  /\ m \in Message /\ it \in Elements
               /\ active_sockets' = [active_sockets EXCEPT ![it] = e]
               /\ DOMAIN e = Fields /\ e.own = This.own /\ e.fd = This.fd
               /\ e.second = Join(This.second, m.req)
               /\ IsSequence(e.second)
               /\ m.req # << >> => e.second # << >>
<1> USE AppAssumption
<1> DEFINE m == Head(inbox[FdOf(This)])
           e == [This EXCEPT !.remote = m.from, !.second = Join(@, m.req),
                             !.parts = Append(@, m.from)]
<1>1. inbox[FdOf(This)] # << >> /\ inbox[FdOf(This)] \in Seq(Message)
  BY DEF RecvData, ReceivesData, BufferInv
<1>2. m \in Message
  BY <1>1
<1>3. it \in Elements
  BY SequenceOf DEF RecvData, Dereferences, VectorInv, IsSequence, Elements
<1>4. DOMAIN This = Fields /\ IsSequence(This.second)
  BY <1>3 DEF VectorInv, This
<1>5. active_sockets' = [active_sockets EXCEPT ![it] = e]
  BY <1>3, <1>4 DEF RecvData, This, Fields, Elements
<1>6. DOMAIN e = Fields /\ e.own = This.own /\ e.fd = This.fd
      /\ e.second = Join(This.second, m.req)
  BY <1>4 DEF Fields
<1>7. IsSequence(m.req)
  BY <1>2, SequenceOf DEF Message
<1>8. IsSequence(e.second) /\ (m.req # << >> => e.second # << >>)
  BY <1>4, <1>6, <1>7, JoinSequences
<1> QED BY <1>2, <1>3, <1>5, <1>6, <1>8

\* The element whose request has been answered (server_main.cpp:137).
LEMMA AnsweredElement ==
    ASSUME VectorInv, it \in Elements,
           active_sockets' = [active_sockets EXCEPT ![it].second = << >>, ![it].parts = << >>]
    PROVE  \E e : /\ DOMAIN e = Fields /\ e.own = This.own /\ e.fd = This.fd
                  /\ e.second = << >>
                  /\ active_sockets' = [active_sockets EXCEPT ![it] = e]
<1> DEFINE e == [This EXCEPT !.second = << >>, !.parts = << >>]
<1>1. DOMAIN This = Fields
  BY DEF VectorInv, This
<1>2. active_sockets' = [active_sockets EXCEPT ![it] = e]
  BY <1>1 DEF This, Fields, Elements
<1>3. DOMAIN e = Fields /\ e.own = This.own /\ e.fd = This.fd /\ e.second = << >>
  BY <1>1 DEF Fields
<1> HIDE DEF e
<1> QED BY <1>2, <1>3

\* The iterator is dereferenced inside the vector, and the descriptor that the
\* element reads and writes is one (accepted_sock_ref.h:88-128).
LEMMA Dereferenced ==
    ASSUME ServerTypeOK, VectorInv, ControlInv,
           \/ main = "reply"
           \/ main = "scan" /\ it <= Len(active_sockets)
    PROVE  /\ it \in Elements /\ FdOf(This) \in Fds /\ state.kind = "listening"
           /\ proto = "tcp" => FdOf(This) = This.fd
           /\ proto = "udp" => FdOf(This) = state.fd
<1> USE ServerAssumption
<1>1. it \in Elements
  BY SequenceOf DEF VectorInv, IsSequence, Elements
<1>2. state.kind = "listening" /\ state.fd \in Fds
  BY DEF ControlInv, ServerTypeOK
<1> QED BY <1>1, <1>2 DEF VectorInv, FdOf, This, ServerTypeOK

\* The elements of another vector that are elements of this one, apart from
\* their pointers and their requests, are as VectorInv says.
LEMMA VectorFrame ==
    ASSUME VectorInv, proto' = proto, UNCHANGED capacity,
           IsSequence(active_sockets'), Len(active_sockets') <= Len(active_sockets),
           it' \in 1..Len(active_sockets') + 1,
           main' \in {"poll", "proceed"} => it' = 1,
           main' = "reply" => it' <= Len(active_sockets'),
           NEW from,
           \A j \in 1..Len(active_sockets') :
              /\ from[j] \in Elements
              /\ DOMAIN active_sockets'[j] = Fields
              /\ active_sockets'[j].own \in BOOLEAN
              /\ active_sockets'[j].fd = active_sockets[from[j]].fd
              /\ IsSequence(active_sockets'[j].second),
           \A j, k \in 1..Len(active_sockets') : from[j] = from[k] => j = k
    PROVE  VectorInv'
<1>1. DOMAIN active_sockets' = 1..Len(active_sockets') /\ Len(active_sockets') \in Nat
      /\ Len(active_sockets) \in Nat
  BY SequenceOf DEF VectorInv, IsSequence
<1>2. Elements' = 1..Len(active_sockets')
  BY <1>1 DEF Elements
<1>3. proto = "tcp" => \A j, k \in Elements' :
                           active_sockets'[j].fd = active_sockets'[k].fd => j = k
  BY <1>2 DEF VectorInv
<1>4. \A j \in Elements' : active_sockets'[j].fd \in (IF proto' = "tcp" THEN Fds ELSE {NoFd})
  BY <1>2 DEF VectorInv
<1> QED BY <1>1, <1>2, <1>3, <1>4 DEF VectorInv, IsSequence

\* Every step keeps VectorInv: no callback changes the vector while the scan
\* is in it, and an erase in the scan leaves the iterator in range
\* (server_main.cpp:34-74, 119-148).
LEMMA VectorStep ==
    ASSUME ServerTypeOK, ObsInv, HandlersInv, VectorInv, ControlInv, SocketInv, BufferInv,
           [Next]_vars
    PROVE  VectorInv'
<1> USE ServerAssumption, AppAssumption DEF NoFd
<1> DEFINE n == Len(active_sockets)
<1>1. n \in Nat /\ Elements = 1..n /\ it \in 1..n + 1 /\ IsSequence(active_sockets)
  BY SequenceOf DEF VectorInv, IsSequence, Elements
<1>2. ASSUME UNCHANGED <<proto, active_sockets, capacity>>,
             it' \in 1..n + 1,
             main' \in {"poll", "proceed"} => it' = 1,
             main' = "reply" => it' <= n
      PROVE  VectorInv'
  BY <1>2 DEF VectorInv, Elements
<1>3. ASSUME NEW fd, emplace_back(fd), fd \in (IF proto = "tcp" THEN Fds ELSE {NoFd}),
             proto = "tcp" => \A i \in Elements : active_sockets[i].fd # fd,
             main = "proceed", UNCHANGED <<proto, main, it>>
      PROVE  VectorInv'
  <2> DEFINE v == active_sockets'
  <2>1. /\ IsSequence(v) /\ Len(v) = n + 1
        /\ \A i \in 1..n :
                 /\ DOMAIN v[i] = Fields /\ v[i].fd = active_sockets[i].fd
                 /\ v[i].second = active_sockets[i].second
                 /\ v[i].own \in {active_sockets[i].own, FALSE}
        /\ v[n + 1] = [own |-> TRUE, fd |-> fd, remote |-> 0, second |-> << >>,
                       parts |-> << >>]
        /\ capacity' \in Nat /\ n + 1 <= capacity'
    BY <1>1, <1>3, EmplaceBack
  <2>2. DOMAIN v[n + 1] = Fields /\ v[n + 1].own = TRUE /\ v[n + 1].fd = fd
        /\ v[n + 1].second = << >>
    BY <2>1 DEF Fields
  <2>3. IsSequence(<< >>)
    BY FunctionSequence DEF IsSequence
  <2> HIDE DEF v, n
  <2>4. DOMAIN v = 1..n + 1 /\ Elements' = 1..n + 1
    BY <1>1, <2>1, SequenceOf DEF IsSequence, Elements, v
  <2>5. ASSUME NEW i \in 1..n + 1
        PROVE  /\ DOMAIN v[i] = Fields /\ v[i].own \in BOOLEAN
               /\ v[i].fd \in (IF proto = "tcp" THEN Fds ELSE {NoFd})
               /\ IsSequence(v[i].second)
    <3>1. CASE i = n + 1
      BY <1>3, <2>2, <2>3, <3>1
    <3>2. CASE i \in 1..n
      BY <1>1, <2>1, <3>2 DEF VectorInv
    <3> QED BY <1>1, <3>1, <3>2
  <2>6. ASSUME proto = "tcp", NEW i \in 1..n + 1, NEW j \in 1..n + 1, v[i].fd = v[j].fd
        PROVE  i = j
    <3>1. CASE i \in 1..n /\ j \in 1..n
      BY <1>1, <2>1, <2>6, <3>1 DEF VectorInv
    <3>2. \A k \in 1..n : v[k].fd # v[n + 1].fd
      BY <1>1, <1>3, <2>1, <2>2, <2>6
    <3> QED BY <1>1, <2>6, <3>1, <3>2
  <2>7. it' = 1 /\ 1 \in 1..(n + 1) + 1 /\ main' # "reply"
    BY <1>1, <1>3 DEF VectorInv
  <2> QED BY <1>3, <2>1, <2>4, <2>5, <2>6, <2>7 DEF VectorInv, v
<1>4. ASSUME NEW i \in Elements, active_sockets' = Without(i), UNCHANGED <<proto, capacity, it>>,
             it <= n, main' \in {"poll", "proceed"} => it = 1, main' # "reply"
      PROVE  VectorInv'
  <2> DEFINE v == active_sockets'
             from == [j \in 1..n - 1 |-> IF j < i THEN j ELSE j + 1]
  <2>1. /\ IsSequence(v) /\ Len(v) = n - 1
        /\ \A j \in 1..Len(v) :
              /\ DOMAIN v[j] = Fields
              /\ v[j].fd = active_sockets[IF j < i THEN j ELSE j + 1].fd
              /\ v[j].second = active_sockets[IF j < i THEN j ELSE j + 1].second
              /\ v[j].own \in {active_sockets[IF j < i THEN j ELSE j + 1].own, FALSE}
    <3> HIDE DEF v
    <3>1. v = Without(i)
      BY <1>4 DEF v
    <3>2. /\ IsSequence(v) /\ Len(v) = Len(active_sockets) - 1
          /\ \A j \in 1..Len(v) :
                LET e == active_sockets[IF j < i THEN j ELSE j + 1]
                IN  /\ DOMAIN v[j] = Fields /\ v[j].fd = e.fd /\ v[j].second = e.second
                    /\ v[j].own = IF j < i THEN e.own ELSE FALSE
      BY <3>1, EraseElement
    <3> QED BY <3>2
  <2>2. \A j \in 1..n - 1 : from[j] \in Elements /\ from[j] = IF j < i THEN j ELSE j + 1
    BY <1>1
  <2>3. \A j, k \in 1..n - 1 : from[j] = from[k] => j = k
    BY <1>1
  <2> HIDE DEF v, from
  <2>4. ASSUME NEW j \in 1..n - 1
        PROVE  /\ v[j].own \in BOOLEAN /\ IsSequence(v[j].second)
               /\ DOMAIN v[j] = Fields /\ v[j].fd = active_sockets[from[j]].fd
    <3>1. /\ DOMAIN v[j] = Fields
          /\ v[j].fd = active_sockets[from[j]].fd
          /\ v[j].second = active_sockets[from[j]].second
          /\ v[j].own \in {active_sockets[from[j]].own, FALSE}
      BY <2>1, <2>2
    <3>2. from[j] \in Elements
      BY <2>2
    <3> QED BY <3>1, <3>2 DEF VectorInv
  <2>5. it' \in 1..(n - 1) + 1 /\ (main' \in {"poll", "proceed"} => it' = 1)
    BY <1>1, <1>4
  <2> HIDE DEF n
  <2>6. Len(v) <= n
    BY <1>1, <2>1
  <2>7. /\ \A j \in 1..Len(v) :
              /\ from[j] \in Elements
              /\ DOMAIN v[j] = Fields /\ v[j].own \in BOOLEAN
              /\ v[j].fd = active_sockets[from[j]].fd /\ IsSequence(v[j].second)
        /\ \A j, k \in 1..Len(v) : from[j] = from[k] => j = k
        /\ it' \in 1..Len(v) + 1
    BY <2>1, <2>2, <2>3, <2>4, <2>5
  <2> QED BY <1>4, <2>1, <2>5, <2>6, <2>7, VectorFrame DEF v, n
<1>5. ASSUME it \in Elements, NEW e, NEW second, DOMAIN e = Fields, e.own = This.own,
             e.fd = This.fd, e.second = second, IsSequence(second),
             active_sockets' = [active_sockets EXCEPT ![it] = e],
             UNCHANGED <<proto, capacity, it>>, main' \notin {"poll", "proceed"}
      PROVE  VectorInv'
  <2> DEFINE v == active_sockets'
             from == [j \in 1..n |-> j]
  <2>1. /\ IsSequence(v) /\ Len(v) = n
        /\ \A j \in 1..n :
              /\ DOMAIN v[j] = Fields /\ v[j].own = active_sockets[j].own
              /\ v[j].fd = active_sockets[j].fd
              /\ v[j].second = IF j = it THEN second ELSE active_sockets[j].second
    BY <1>1, <1>5, SetRequest
  <2> HIDE DEF v
  <2>2. \A j \in 1..n : v[j].own \in BOOLEAN /\ IsSequence(v[j].second)
    BY <1>1, <1>5, <2>1 DEF VectorInv
  <2>3. /\ \A j \in 1..n : from[j] = j /\ from[j] \in Elements
        /\ \A j, k \in 1..n : from[j] = from[k] => j = k
    BY <1>1
  <2> HIDE DEF from
  <2>4. it' \in 1..n + 1 /\ it' <= n
    BY <1>1, <1>5
  <2>5. Len(v) <= n
    BY <1>1, <2>1
  <2> HIDE DEF n
  <2> QED BY <1>5, <2>1, <2>2, <2>3, <2>4, <2>5, VectorFrame DEF v, n
<1> HIDE DEF n
<1>6. CASE Booting \/ CallProceed \/ Network \/ Signal \/ UNCHANGED vars
  <2>1. /\ UNCHANGED <<proto, active_sockets, capacity, it>>
        /\ main' \in {"poll", "proceed"} => main \in {"poll", "proceed"}
        /\ main' = "reply" => main = "reply"
    BY <1>6 DEF Booting, Start, InStart, RegisterCb, Listen, CallProceed, Poll, At, Network,
         PeerConnects, Arrival, DatagramArrives, Counts, Signal, endpointVars, serverVars,
         appVars, vars
  <2> QED BY <1>1, <1>2, <2>1 DEF VectorInv, n
<1>7. CASE /\ main = "proceed"
           /\ \/ InEndpoint(Controller) /\ UNCHANGED <<ioVars, appVars>>
              \/ Accepts(Controller)
              \/ EraseUndefined(Controller)
  <2>1. /\ UNCHANGED <<proto, active_sockets, capacity, it>>
        /\ main' \in {"proceed", "undefined"}
    BY <1>7 DEF InEndpoint, HandlerIgnores, AcceptFails, HandlerErases, Accepts, Accept, Counts,
         EraseUndefined, serverVars, appVars
  <2> QED BY <1>1, <1>2, <1>7, <2>1 DEF VectorInv, n
<1>8. CASE OnConn(Controller) /\ main = "proceed"
  <2>1. accepted \in Fds /\ emplace_back(accepted) /\ UNCHANGED <<proto, main, it>>
    BY <1>8 DEF OnConn, HandsOver, ControlInv, HoldsAccepted, ServerTypeOK
  <2>2. proto = "tcp" /\ \A i \in Elements : active_sockets[i].fd # accepted
    BY <2>1 DEF SocketInv
  <2> QED BY <1>3, <1>8, <2>1, <2>2
<1>9. CASE OnConnUdp(Controller) /\ main = "proceed"
  <2>1. proto = "udp" /\ emplace_back(NoFd) /\ UNCHANGED <<proto, main, it>>
    BY <1>9 DEF OnConnUdp, HandsOverRef, serverVars
  <2> QED BY <1>3, <1>9, <2>1
<1>10. CASE EraseActiveSocket(Controller) /\ main = "proceed"
  <2>1. UNCHANGED <<proto, main, capacity, it>> /\ it = 1
    BY <1>10 DEF EraseActiveSocket, CallsErase, VectorInv
  <2>2. CASE Matches(Controller) = {}
    <3>1. UNCHANGED active_sockets
      BY <1>10, <2>2 DEF EraseActiveSocket
    <3> QED BY <1>1, <1>2, <1>10, <2>1, <3>1
  <2>3. CASE Matches(Controller) # {}
    <3> DEFINE i == CHOOSE i \in Matches(Controller) : TRUE
    <3>1. i \in Elements
      BY <2>3 DEF Matches
    <3>2. active_sockets' = Without(i)
      BY <1>10, <2>3 DEF EraseActiveSocket
    <3> HIDE DEF i
    <3> QED BY <1>1, <1>4, <1>10, <2>1, <3>1, <3>2
  <2> QED BY <2>2, <2>3
<1>11. CASE BeginScan \/ EndScan \/ ScanUndefined \/ RecvEof \/ ResponseThrows \/ SendKills
  <2>1. /\ UNCHANGED <<proto, active_sockets, capacity>>
        /\ it' \in {it, 1} /\ main' # "reply"
        /\ main' \in {"poll", "proceed"} => it' = 1
    BY <1>11 DEF BeginScan, EndScan, ScanUndefined, RecvEof, ResponseThrows, SendKills, At,
         Dereferences, endpointVars, serverVars, appVars
  <2> QED BY <1>1, <1>2, <2>1
<1>12. CASE RecvData
  <2>1. main = "scan" /\ it <= Len(active_sockets) /\ UNCHANGED <<proto, main, capacity, it>>
    BY <1>12 DEF RecvData, Dereferences, endpointVars, serverVars
  <2>2. FdOf(This) \in Fds
    BY <2>1, Dereferenced
  <2>3. PICK e : /\ it \in Elements /\ DOMAIN e = Fields /\ e.own = This.own
                 /\ e.fd = This.fd /\ IsSequence(e.second)
                 /\ active_sockets' = [active_sockets EXCEPT ![it] = e]
    BY <1>12, <2>2, RecvElement
  <2> QED BY <1>5, <2>1, <2>3
<1>13. CASE RecvEnds
  <2>1. /\ main = "scan" /\ it <= n /\ UNCHANGED <<proto, active_sockets, capacity>>
        /\ \/ main' = "reply" /\ it' = it
           \/ main' = "scan" /\ it' = it + 1
    BY <1>13 DEF RecvEnds, Dereferences, endpointVars, serverVars, n
  <2> QED BY <1>1, <1>2, <2>1
<1>14. CASE Answered \/ ReplyFails
  <2>1. main = "reply" /\ main' = "scan" /\ UNCHANGED <<proto, capacity, it>>
    BY <1>14 DEF Answered, ReplyFails, At, endpointVars, serverVars
  <2>2. it \in Elements /\ it <= n
    BY <1>1, <2>1, Dereferenced
  <2>3. CASE active_sockets' = Without(it)
    BY <1>4, <2>1, <2>2, <2>3
  <2>4. CASE active_sockets' =
               [active_sockets EXCEPT ![it].second = << >>, ![it].parts = << >>]
    <3>1. PICK e : /\ DOMAIN e = Fields /\ e.own = This.own /\ e.fd = This.fd
                   /\ e.second = << >>
                   /\ active_sockets' = [active_sockets EXCEPT ![it] = e]
      BY <2>2, <2>4, AnsweredElement
    <3>2. IsSequence(<< >>)
      BY FunctionSequence DEF IsSequence
    <3> QED BY <1>5, <2>1, <2>2, <3>1, <3>2
  <2> QED BY <1>14, <2>3, <2>4 DEF Answered, ReplyFails
<1>15. CASE Leave
  <2>1. main = "poll" /\ main' = "done" /\ UNCHANGED <<proto, capacity, it>>
        /\ active_sockets' \in {active_sockets, << >>}
    BY <1>15 DEF Leave, At, Destroys
  <2>2. CASE active_sockets' = active_sockets
    BY <1>1, <1>2, <2>1, <2>2
  <2>3. CASE active_sockets' = << >>
    <3>1. DOMAIN << >> = {} /\ Len(<< >>) = 0 /\ IsSequence(<< >>)
      BY FunctionSequence DEF IsSequence
    <3> QED BY <1>1, <2>1, <2>3, <3>1 DEF VectorInv, Elements
  <2> QED BY <2>1, <2>2, <2>3
<1> QED BY <1>6, <1>7, <1>8, <1>9, <1>10, <1>11, <1>12, <1>13, <1>14, <1>15
        DEF Next, Main, InProceed, Scan, Reply

------------------------------------------------------------------------------
(* The descriptors.                                                         *)

\* Nothing is opened or closed, and the vector gets no other descriptor.
LEMMA SocketFrame ==
    ASSUME VectorInv, SocketInv, UNCHANGED <<proto, state, accepted>>,
           \A fd \in Fds : \/ ksock'[fd] = ksock[fd]
                           \/ ksock[fd] \in Connection /\ ksock'[fd] \in Connection,
           \A i \in Elements' : \E j \in Elements :
               active_sockets'[i].fd = active_sockets[j].fd,
           \A fd \in Fds : interest'[fd] # {} => interest[fd] # {} \/ fd = state.fd,
           \A fd \in ready' : interest'[fd] # {}
    PROVE  SocketInv'
<1>1. \A i \in Elements : proto = "tcp" => active_sockets[i].fd \in Fds
  BY DEF VectorInv
<1>2. proto = "tcp" => \A i \in Elements' : ksock'[active_sockets'[i].fd] \in Connection
  <2> SUFFICES ASSUME proto = "tcp", NEW i \in Elements'
               PROVE  ksock'[active_sockets'[i].fd] \in Connection
    OBVIOUS
  <2>1. PICK j \in Elements : active_sockets'[i].fd = active_sockets[j].fd
    OBVIOUS
  <2> QED BY <1>1, <2>1 DEF SocketInv
<1>3. accepted' \in Fds => /\ proto' = "tcp" /\ ksock'[accepted'] \in Connection
                           /\ \A i \in Elements' : active_sockets'[i].fd # accepted'
  BY DEF SocketInv
<1>4. state'.fd \in Fds => ksock'[state'.fd] = IF proto' = "tcp" THEN "listen" ELSE "udp"
  BY DEF SocketInv, Connection
<1>5. proto' = "udp" => \A fd \in Fds : /\ ksock'[fd] = IF fd = state'.fd THEN "udp" ELSE "free"
                                        /\ interest'[fd] # {} => fd = state'.fd
  BY DEF SocketInv, Connection
<1> QED BY <1>2, <1>3, <1>4, <1>5 DEF SocketInv

\* The descriptors of a vector with an element less are among those before.
LEMMA ErasedDescriptors ==
    ASSUME VectorInv, NEW i \in Elements, active_sockets' = Without(i)
    PROVE  /\ \A k \in Elements' : \E j \in Elements :
                 j # i /\ active_sockets'[k].fd = active_sockets[j].fd
           /\ \A j \in Elements : j # i => \E k \in Elements' :
                 active_sockets'[k].fd = active_sockets[j].fd
<1> DEFINE n == Len(active_sockets)
<1>1. n \in Nat /\ Elements = 1..n /\ i \in 1..n
  BY SequenceOf DEF VectorInv, IsSequence, Elements
<1>2. DOMAIN Without(i) = 1..n - 1
      /\ \A k \in 1..n - 1 :
            Without(i)[k].fd = active_sockets[IF k < i THEN k ELSE k + 1].fd
  BY EraseElement
<1>3. Elements' = 1..n - 1
  BY <1>2 DEF Elements
<1> HIDE DEF n
<1>4. ASSUME NEW k \in 1..n - 1
      PROVE  \E j \in 1..n : j # i /\ active_sockets'[k].fd = active_sockets[j].fd
  <2>1. CASE k < i
    BY <1>1, <1>2, <2>1
  <2>2. CASE ~(k < i)
    <3>1. k + 1 \in 1..n /\ k + 1 # i
      BY <1>1, <2>2
    <3>2. active_sockets'[k].fd = active_sockets[k + 1].fd
      BY <1>2, <2>2
    <3> QED BY <3>1, <3>2
  <2> QED BY <2>1, <2>2
<1>5. ASSUME NEW j \in 1..n, j # i
      PROVE  \E k \in 1..n - 1 : active_sockets'[k].fd = active_sockets[j].fd
  <2>1. CASE j < i
    <3>1. j \in 1..n - 1
      BY <1>1, <2>1
    <3> QED BY <1>2, <2>1, <3>1
  <2>2. CASE ~(j < i)
    <3>1. j - 1 \in 1..n - 1 /\ ~(j - 1 < i) /\ (j - 1) + 1 = j
      BY <1>1, <1>5, <2>2
    <3>2. active_sockets'[j - 1].fd = active_sockets[(j - 1) + 1].fd
      BY <1>2, <3>1
    <3> QED BY <3>1, <3>2
  <2> QED BY <2>1, <2>2
<1> QED BY <1>1, <1>3, <1>4, <1>5

\* The element that erase_active_socket removes is the one with the event's
\* descriptor; a datagram server has none (server_main.cpp:44-57).
LEMMA ErasedMatch ==
    ASSUME ServerTypeOK, ObsInv, HandlersInv, VectorInv,
           InErase(Controller), NEW i \in Matches(Controller)
    PROVE  /\ proto = "tcp" /\ Current(Controller).fd \in Fds
           /\ Matches(Controller) = {i}
           /\ {active_sockets[j].fd : j \in Matches(Controller)} = {Current(Controller).fd}
           /\ (CHOOSE j \in Matches(Controller) : TRUE) = i
<1> USE ServerAssumption DEF NoFd
<1>1. Current(Controller).fd \in Fds
  BY RunningApp DEF InErase, Event
<1>2. i \in Elements /\ active_sockets[i].fd = Current(Controller).fd
  BY DEF Matches
<1>3. proto = "tcp"
  BY <1>1, <1>2 DEF VectorInv
<1>4. \A j \in Matches(Controller) : j = i
  BY <1>2, <1>3 DEF Matches, VectorInv
<1>5. Matches(Controller) = {i}
  BY <1>4
<1> QED BY <1>1, <1>2, <1>3, <1>5

\* Every step keeps SocketInv: a descriptor leaves the vector when it is
\* closed, and its number comes back through accept only
\* (server_main.cpp:34-57, 130-147).
LEMMA SocketStep ==
    ASSUME ServerTypeOK, ObsInv, HandlersInv, VectorInv, ControlInv, SocketInv, BufferInv,
           [Next]_vars
    PROVE  SocketInv'
<1> USE ServerAssumption, AppAssumption DEF NoFd
<1>1. EpollTypeOK /\ KernelTypeOK /\ proto \in {"tcp", "udp"}
      /\ state.fd \in Fds \cup {NoFd} /\ accepted \in Fds \cup {NoFd}
      /\ NoFd \notin Fds /\ ready \subseteq Fds /\ interest \in [Fds -> SUBSET Flag]
      /\ ksock \in [Fds -> SockState]
  BY DEF ServerTypeOK, EpollTypeOK, KernelTypeOK
<1> HIDE DEF NoFd
<1>2. ASSUME UNCHANGED <<proto, state, accepted, ksock, active_sockets>>,
             \A fd \in Fds : interest'[fd] # {} => interest[fd] # {} \/ fd = state.fd,
             \A fd \in ready' : interest'[fd] # {}
      PROVE  SocketInv'
  <2>1. \A i \in Elements' : i \in Elements /\ active_sockets'[i].fd = active_sockets[i].fd
    BY <1>2 DEF Elements
  <2> QED BY <1>2, <2>1, SocketFrame
<1>3. CASE Start /\ Booting
  <2>1. PICK fd \in Fds :
            /\ IsLowestFree(fd)
            /\ ksock' = [ksock EXCEPT ![fd] = IF proto = "tcp" THEN "listen" ELSE "udp"]
            /\ state' = [state EXCEPT !.fd = fd]
    BY <1>3 DEF Start
  <2>2. /\ UNCHANGED <<proto, accepted, active_sockets, epollVars>>
        /\ state.kind = "idle" /\ m_mutex = NoThread
    BY <1>3 DEF Start, Booting, appVars
  <2>3. active_sockets = << >> /\ accepted = NoFd /\ state.fd \notin Fds
    BY <1>1, <2>2 DEF ControlInv, HoldsAccepted
  <2>4. state'.fd = fd /\ ksock'[fd] = (IF proto = "tcp" THEN "listen" ELSE "udp")
        /\ \A other \in Fds \ {fd} : ksock'[other] = ksock[other]
    BY <1>1, <2>1 DEF ServerTypeOK
  <2>5. Elements' = {}
    BY <2>2, <2>3 DEF Elements
  <2>6. proto = "udp" => \A other \in Fds : ksock[other] = "free" /\ interest[other] = {}
    BY <1>1, <2>3 DEF SocketInv
  <2>7. interest' = interest /\ ready' = ready
    BY <2>2 DEF epollVars
  <2> QED BY <1>1, <2>2, <2>3, <2>4, <2>5, <2>6, <2>7 DEF SocketInv
<1>4. CASE RegisterCb /\ Booting
  <2>1. UNCHANGED <<proto, state, accepted, ksock, active_sockets, interest, ready>>
    BY <1>4 DEF RegisterCb, Booting, appVars, epollVars, kernelVars
  <2> QED BY <1>2, <2>1 DEF SocketInv
<1>5. CASE Listen /\ Booting
  <2>1. UNCHANGED <<proto, accepted, ksock, active_sockets>> /\ op # 0
        /\ state' = [state EXCEPT !.kind = "listening"]
        /\ add_socket(state.fd, "READ", Raised[state.fd])
    BY <1>5 DEF Listen, Booting, appVars, kernelVars, RegisterOrder
  <2>2. state'.fd = state.fd
    BY <2>1 DEF ServerTypeOK
  <2>3. state.fd \in Fds /\ "READ" \in SockOp
    BY <2>1 DEF ControlInv, SockOp
  <2>4. /\ interest'[state.fd] # {}
        /\ \A other \in Fds \ {state.fd} : interest'[other] = interest[other]
        /\ ready' \subseteq ready \cup {state.fd}
    BY <1>1, <2>1, <2>3, AddSocketStep
  <2>5. \A fd \in ready' : interest'[fd] # {}
    BY <1>1, <2>3, <2>4 DEF SocketInv
  <2>6. Elements' = Elements
    BY <2>1 DEF Elements
  <2> QED BY <2>1, <2>2, <2>4, <2>5, <2>6 DEF SocketInv
<1>6. CASE CallProceed
  <2>1. UNCHANGED <<proto, state, accepted, ksock, active_sockets>>
    BY <1>6 DEF CallProceed, Poll, kernelVars, serverVars
  <2>2. interest' = interest /\ ready' \subseteq ready
    BY <1>1, <1>6, ProceedStep DEF CallProceed, Poll
  <2> QED BY <1>2, <2>1, <2>2 DEF SocketInv
<1>7. ASSUME \/ /\ \/ ObsStep(Controller) /\ UNCHANGED <<epollVars, kernelVars, serverVars>>
                   \/ HandlerIgnores(Controller) \/ AcceptFails(Controller)
                /\ UNCHANGED appVars
             \/ EraseUndefined(Controller)
             \/ BeginScan \/ EndScan \/ ScanUndefined \/ RecvEof \/ RecvEnds
             \/ ResponseThrows \/ SendKills \/ Signal \/ UNCHANGED vars
      PROVE  SocketInv'
  <2>1. UNCHANGED <<proto, state, accepted, ksock, active_sockets, interest, ready>>
    BY <1>7 DEF HandlerIgnores, AcceptFails, EraseUndefined, BeginScan, EndScan, ScanUndefined,
         RecvEof, RecvEnds, ReceivesEof, WouldBlock, ReceivesError, ResponseThrows, SendKills,
         Signal, endpointVars, epollVars, kernelVars, serverVars, appVars, vars
  <2> QED BY <1>2, <2>1 DEF SocketInv
<1>8. CASE HandlerErases(Controller) /\ UNCHANGED appVars
  <2>1. UNCHANGED <<proto, state, accepted, ksock, active_sockets>>
        /\ Unwatch({Current(Controller).fd})
    BY <1>8 DEF HandlerErases, del_socket, kernelVars, appVars
  <2>2. /\ \A fd \in Fds : interest'[fd] = IF fd = Current(Controller).fd THEN {}
                                                                        ELSE interest[fd]
        /\ ready' = ready \ {Current(Controller).fd}
    BY <1>1, <2>1, UnwatchStep
  <2> QED BY <1>1, <1>2, <2>1, <2>2 DEF SocketInv
<1>9. CASE Accepts(Controller)
  <2>1. Accept(Controller) /\ UNCHANGED active_sockets
    BY <1>9 DEF Accepts, Counts, appVars
  <2>2. PICK fd \in Fds, st \in {"est", "fin", "reset", "urgent"} :
            /\ IsLowestFree(fd) /\ accepted' = fd
            /\ ksock' = [ksock EXCEPT ![fd] = st]
    BY <2>1 DEF Accept, AcceptedStates
  <2>3. proto = "tcp" /\ UNCHANGED <<proto, state, interest, ready>>
    BY <2>1 DEF Accept, epollVars
  <2>4. ksock[fd] = "free" /\ ksock'[fd] \in Connection
        /\ \A other \in Fds \ {fd} : ksock'[other] = ksock[other]
    BY <1>1, <2>2 DEF IsLowestFree, FreeFds, Connection
  <2>5. Elements' = Elements /\ \A i \in Elements : active_sockets[i].fd \in Fds \ {fd}
    BY <2>1, <2>3, <2>4 DEF Elements, VectorInv, SocketInv, Connection
  <2>6. state.fd # fd
    BY <2>4 DEF SocketInv
  <2> QED BY <2>1, <2>2, <2>3, <2>4, <2>5, <2>6 DEF SocketInv
<1>10. CASE OnConn(Controller)
  <2>1. /\ add_socket(accepted, "READ", Raised[accepted])
        /\ accepted' = NoFd /\ UNCHANGED <<ksock, proto, state>>
        /\ emplace_back(accepted)
    BY <1>10 DEF OnConn, HandsOver, kernelVars
  <2>2. accepted \in Fds /\ "READ" \in SockOp
    BY <1>1, <1>10 DEF OnConn, HandsOver, ControlInv, HoldsAccepted, SockOp
  <2>3. proto = "tcp" /\ ksock[accepted] \in Connection
    BY <2>2 DEF SocketInv
  <2>4. /\ interest'[accepted] # {}
        /\ \A other \in Fds \ {accepted} : interest'[other] = interest[other]
        /\ ready' \subseteq ready \cup {accepted}
    BY <1>1, <2>1, <2>2, AddSocketStep
  <2>5. \A fd \in ready' : interest'[fd] # {}
    BY <1>1, <2>2, <2>4 DEF SocketInv
  <2>6. \A i \in Elements' : \/ active_sockets'[i].fd = accepted
                             \/ i \in Elements /\ active_sockets'[i].fd = active_sockets[i].fd
    <3> DEFINE n == Len(active_sockets)
    <3>1. n \in Nat /\ Elements = 1..n
      BY SequenceOf DEF VectorInv, IsSequence, Elements
    <3>2. /\ IsSequence(active_sockets') /\ Len(active_sockets') = n + 1
          /\ \A i \in 1..n : active_sockets'[i].fd = active_sockets[i].fd
          /\ active_sockets'[n + 1].fd = accepted
      <4>1. emplace_back(accepted)
        BY <2>1
      <4>2. /\ IsSequence(active_sockets') /\ Len(active_sockets') = n + 1
            /\ \A i \in Elements : active_sockets'[i].fd = active_sockets[i].fd
            /\ active_sockets'[n + 1] = [own |-> TRUE, fd |-> accepted, remote |-> 0,
                                         second |-> << >>, parts |-> << >>]
        BY <4>1, EmplaceBack
      <4> QED BY <3>1, <4>2
    <3> HIDE DEF n
    <3>3. Elements' = 1..n + 1
      BY <3>1, <3>2, SequenceOf DEF IsSequence, Elements
    <3>4. \A i \in 1..n + 1 : i \in 1..n \/ i = n + 1
      BY <3>1
    <3> QED BY <3>1, <3>2, <3>3, <3>4
  <2> QED BY <1>1, <2>1, <2>3, <2>5, <2>6 DEF SocketInv
<1>11. CASE OnConnUdp(Controller)
  <2>1. UNCHANGED <<proto, state, accepted, ksock, interest, ready>> /\ proto = "udp"
    BY <1>11 DEF OnConnUdp, HandsOverRef, epollVars, kernelVars, serverVars
  <2> QED BY <1>1, <2>1 DEF SocketInv
<1>12. CASE EraseActiveSocket(Controller)
  <2> DEFINE cur == Current(Controller).fd
             fds == {active_sockets[i].fd : i \in Matches(Controller)}
  <2>1. /\ InErase(Controller) /\ Close(fds)
        /\ UNCHANGED <<proto, state, accepted, interest, ready>>
    BY <1>12 DEF EraseActiveSocket, CallsErase, epollVars
  <2>2. accepted = NoFd
    BY <2>1 DEF ControlInv, HoldsAccepted, InErase
  <2>3. CASE Matches(Controller) = {}
    <3>1. active_sockets' = active_sockets /\ fds = {}
      BY <1>12, <2>3 DEF EraseActiveSocket
    <3> HIDE DEF fds
    <3>2. \A fd \in Fds : ksock'[fd] = ksock[fd]
      BY <1>1, <2>1, <3>1, CloseStep
    <3>3. \A i \in Elements' : i \in Elements /\ active_sockets'[i].fd = active_sockets[i].fd
      BY <3>1 DEF Elements
    <3> QED BY <2>1, <3>2, <3>3, SocketFrame DEF SocketInv
  <2>4. ASSUME NEW i \in Matches(Controller) PROVE SocketInv'
    <3>1. /\ proto = "tcp" /\ cur \in Fds /\ fds = {cur}
          /\ (CHOOSE j \in Matches(Controller) : TRUE) = i
      BY <2>1, ErasedMatch
    <3>2. i \in Elements /\ active_sockets[i].fd = cur /\ active_sockets' = Without(i)
      BY <1>12, <3>1 DEF EraseActiveSocket, Matches
    <3> HIDE DEF fds, cur
    <3>3. \A fd \in Fds : ksock'[fd] = IF fd = cur THEN "free" ELSE ksock[fd]
      BY <1>1, <2>1, <3>1, CloseStep
    <3>4. \A k \in Elements' : \E j \in Elements :
                 j # i /\ active_sockets'[k].fd = active_sockets[j].fd
      BY <3>2, ErasedDescriptors
    <3>5. \A j \in Elements : j # i => active_sockets[j].fd \in Fds \ {cur}
      BY <3>1, <3>2 DEF VectorInv
    <3>6. \A k \in Elements' : ksock'[active_sockets'[k].fd] \in Connection
      BY <3>1, <3>3, <3>4, <3>5 DEF SocketInv
    <3>7. state.fd # cur
      BY <3>1, <3>2 DEF SocketInv, Connection
    <3> QED BY <1>1, <2>1, <2>2, <3>1, <3>3, <3>6, <3>7 DEF SocketInv
  <2> QED BY <2>3, <2>4
<1>13. CASE RecvData
  <2>1. main = "scan" /\ it <= Len(active_sockets)
        /\ UNCHANGED <<proto, state, accepted, ksock, interest, ready>>
    BY <1>13 DEF RecvData, Dereferences, ReceivesData, endpointVars, serverVars, epollVars
  <2>2. FdOf(This) \in Fds
    BY <2>1, Dereferenced
  <2>3. PICK e : /\ it \in Elements /\ DOMAIN e = Fields /\ e.own = This.own
                 /\ e.fd = This.fd
                 /\ active_sockets' = [active_sockets EXCEPT ![it] = e]
    BY <1>13, <2>2, RecvElement
  <2>4. \A i \in Elements' : i \in Elements /\ active_sockets'[i].fd = active_sockets[i].fd
    BY <2>3, SetRequest DEF Elements
  <2> QED BY <2>1, <2>4, SocketFrame DEF SocketInv
<1>14. CASE Answered \/ (ReplyFails /\ proto = "udp")
  <2>1. main = "reply" /\ UNCHANGED <<proto, state, accepted, ksock, interest, ready>>
    BY <1>14 DEF Answered, Sends, ReplyFails, At, endpointVars, serverVars, epollVars,
         kernelVars
  <2>2. it \in Elements
    BY <2>1, Dereferenced
  <2>3. CASE active_sockets' = Without(it)
    <3>1. \A k \in Elements' : \E j \in Elements :
                 active_sockets'[k].fd = active_sockets[j].fd
      BY <2>2, <2>3, ErasedDescriptors
    <3> QED BY <2>1, <3>1, SocketFrame DEF SocketInv
  <2>4. CASE active_sockets' =
               [active_sockets EXCEPT ![it].second = << >>, ![it].parts = << >>]
    <3>1. PICK e : /\ DOMAIN e = Fields /\ e.own = This.own /\ e.fd = This.fd
                   /\ active_sockets' = [active_sockets EXCEPT ![it] = e]
      BY <2>2, <2>4, AnsweredElement
    <3>2. \A i \in Elements' : i \in Elements /\ active_sockets'[i].fd = active_sockets[i].fd
      BY <2>2, <3>1, SetRequest DEF Elements
    <3> QED BY <2>1, <3>2, SocketFrame DEF SocketInv
  <2> QED BY <1>14, <2>3, <2>4 DEF Answered, ReplyFails
<1>15. CASE ReplyFails /\ proto = "tcp"
  <2>1. /\ main = "reply" /\ UNCHANGED <<proto, state, accepted>>
        /\ Close({This.fd}) /\ Unwatch({This.fd}) /\ active_sockets' = Without(it)
    BY <1>15 DEF ReplyFails, At, endpointVars, serverVars
  <2>2. it \in Elements /\ This.fd \in Fds
    BY <1>15, <2>1, Dereferenced
  <2> DEFINE cur == This.fd
  <2>3. active_sockets[it].fd = cur /\ cur \in Fds
    BY <2>2 DEF This
  <2> HIDE DEF cur
  <2>4. /\ \A fd \in Fds : ksock'[fd] = IF fd = cur THEN "free" ELSE ksock[fd]
        /\ \A fd \in Fds : interest'[fd] = IF fd = cur THEN {} ELSE interest[fd]
        /\ ready' = ready \ {cur}
    BY <1>1, <2>1, CloseStep, UnwatchStep DEF cur
  <2>5. \A k \in Elements' : \E j \in Elements :
                 j # it /\ active_sockets'[k].fd = active_sockets[j].fd
    BY <2>1, <2>2, ErasedDescriptors
  <2>6. \A j \in Elements : j # it => active_sockets[j].fd \in Fds \ {cur}
    BY <1>15, <2>2, <2>3 DEF VectorInv
  <2>7. ASSUME NEW k \in Elements' PROVE ksock'[active_sockets'[k].fd] \in Connection
    <3>1. PICK j \in Elements : j # it /\ active_sockets'[k].fd = active_sockets[j].fd
      BY <2>5
    <3>2. active_sockets[j].fd \in Fds \ {cur} /\ ksock[active_sockets[j].fd] \in Connection
      BY <1>15, <2>6, <3>1 DEF SocketInv
    <3> QED BY <2>4, <3>1, <3>2
  <2>8. state.fd # cur
    BY <1>15, <2>2, <2>3 DEF SocketInv, Connection
  <2>9. accepted = NoFd
    BY <2>1 DEF ControlInv, HoldsAccepted
  <2> QED BY <1>1, <1>15, <2>1, <2>4, <2>7, <2>8, <2>9 DEF SocketInv
<1>16. CASE Leave
  <2>1. /\ state.kind = "listening" /\ m_mutex = NoThread /\ state'.fd = NoFd
        /\ Close({state.fd}) /\ Unwatch(Fds) /\ UNCHANGED <<proto, accepted>>
        /\ active_sockets' = active_sockets \/ proto = "udp"
    BY <1>16 DEF Leave, Destroys
  <2>2. accepted = NoFd /\ state.fd \in Fds
    BY <1>1, <2>1 DEF ControlInv, HoldsAccepted
  <2>3. /\ \A fd \in Fds : ksock'[fd] = IF fd = state.fd THEN "free" ELSE ksock[fd]
        /\ \A fd \in Fds : interest'[fd] = {}
        /\ ready' = {}
    <3>1. \A fd \in Fds : ksock'[fd] = IF fd \in {state.fd} THEN "free" ELSE ksock[fd]
      BY <1>1, <2>1, CloseStep
    <3>2. ready' = ready \ Fds /\ \A fd \in Fds : interest'[fd] = {}
      BY <1>1, <2>1, UnwatchStep
    <3> QED BY <1>1, <3>1, <3>2
  <2>4. ASSUME proto = "tcp", NEW i \in Elements'
        PROVE  ksock'[active_sockets'[i].fd] \in Connection
    <3>1. i \in Elements /\ active_sockets' = active_sockets
      BY <2>1, <2>4 DEF Elements
    <3>2. active_sockets[i].fd \in Fds /\ ksock[active_sockets[i].fd] \in Connection
      BY <2>4, <3>1 DEF SocketInv, VectorInv
    <3>3. active_sockets[i].fd # state.fd
      BY <2>2, <2>4, <3>2 DEF SocketInv, Connection
    <3> QED BY <2>3, <3>1, <3>2, <3>3
  <2>5. proto = "udp" => \A fd \in Fds : ksock'[fd] = "free"
    BY <2>3 DEF SocketInv
  <2> QED BY <1>1, <2>1, <2>2, <2>3, <2>4, <2>5 DEF SocketInv
<1>17. ASSUME NEW fd \in Fds, PeerActs(fd), UNCHANGED <<serverVars, active_sockets>>
       PROVE  SocketInv'
  <2>1. UNCHANGED <<proto, state, accepted, active_sockets>>
    BY <1>17 DEF serverVars
  <2>2. /\ interest' = interest
        /\ \A other \in Fds \ {fd} : ksock'[other] = ksock[other]
        /\ ksock[fd] \in {"est", "urgent", "fin", "udp"}
        /\ ksock[fd] = "udp" => ksock'[fd] = "udp"
        /\ ksock[fd] # "udp" => ksock'[fd] \in Connection
    BY <1>1, <1>17, PeerStep DEF Connection
  <2>3. Wake(fd)
    BY <1>17 DEF PeerActs, Arrive, UrgentArrives, PeerCloses, PeerResets
  <2>4. \A other \in ready' : interest'[other] # {}
    BY <2>2, <2>3 DEF Wake, SocketInv
  <2>5. \A i \in Elements' : i \in Elements /\ active_sockets'[i].fd = active_sockets[i].fd
    BY <2>1 DEF Elements
  <2> QED BY <2>1, <2>2, <2>4, <2>5, SocketFrame DEF Connection
<1>18. CASE (PeerConnects /\ UNCHANGED appVars) \/ (DatagramArrives /\ \E fd \in Fds : Counts(fd))
  <2>1. /\ UNCHANGED <<proto, state, accepted, ksock, active_sockets, interest>>
        /\ Wake(state.fd)
    BY <1>18 DEF PeerConnects, DatagramArrives, Arrive, Wake, Counts, appVars
  <2>2. \A other \in ready' : interest'[other] # {}
    BY <2>1 DEF Wake, SocketInv
  <2> QED BY <1>2, <2>1, <2>2
<1>19. CASE Network
  <2>1. \/ PeerConnects /\ UNCHANGED appVars
        \/ DatagramArrives /\ Counts(state.fd)
        \/ \E fd \in Fds : PeerActs(fd) /\ UNCHANGED <<serverVars, active_sockets>>
    BY <1>19 DEF Network, Arrival, Delivers, PeerActs, Counts, endpointVars, appVars
  <2>2. DatagramArrives => state.fd \in Fds
    BY DEF DatagramArrives
  <2> QED BY <1>17, <1>18, <2>1, <2>2
<1> QED BY <1>1, <1>3, <1>4, <1>5, <1>6, <1>7, <1>8, <1>9, <1>10, <1>11, <1>12, <1>13, <1>14,
           <1>15, <1>16, <1>19
        DEF Next, Main, Booting, InStart, InProceed, InEndpoint, Scan, Reply

------------------------------------------------------------------------------
(* The receive buffers.                                                     *)

\* Every message that recv() may return is announced by the kernel, and of a
\* datagram socket nothing else is.
LEMMA BufferStep ==
    ASSUME ServerTypeOK, ObsInv, HandlersInv, VectorInv, ControlInv, SocketInv, BufferInv,
           [Next]_vars
    PROVE  BufferInv'
<1> USE ServerAssumption, AppAssumption DEF NoFd
<1>1. EpollTypeOK /\ KernelTypeOK /\ proto \in {"tcp", "udp"}
      /\ state.fd \in Fds \cup {NoFd} /\ NoFd \notin Fds
      /\ rx \subseteq Fds /\ ksock \in [Fds -> SockState]
  BY DEF ServerTypeOK, KernelTypeOK
<1> HIDE DEF NoFd
<1>2. ASSUME UNCHANGED <<proto, ksock, rx, inbox, failed>>, errno' \in {"EAGAIN", "other"}
      PROVE  BufferInv'
  BY <1>2 DEF BufferInv
<1>3. CASE Start /\ Booting
  <2>1. PICK fd \in Fds :
            /\ IsLowestFree(fd)
            /\ ksock' = [ksock EXCEPT ![fd] = IF proto = "tcp" THEN "listen" ELSE "udp"]
    BY <1>3 DEF Start
  <2>2. UNCHANGED <<proto, rx, inbox, failed, errno>>
    BY <1>3 DEF Start, Booting, ioVars
  <2>3. inbox[fd] = << >> /\ \A other \in Fds \ {fd} : ksock'[other] = ksock[other]
    BY <1>1, <2>1 DEF IsLowestFree, FreeFds, BufferInv, Connection
  <2> QED BY <2>2, <2>3 DEF BufferInv
<1>4. ASSUME \/ (RegisterCb \/ Listen) /\ Booting
             \/ CallProceed
             \/ InEndpoint(Controller) /\ UNCHANGED <<ioVars, appVars>>
             \/ OnConn(Controller) \/ OnConnUdp(Controller) \/ EraseUndefined(Controller)
             \/ BeginScan \/ EndScan \/ ScanUndefined \/ RecvEof
             \/ ResponseThrows \/ SendKills \/ Answered \/ Signal \/ UNCHANGED vars
      PROVE  BufferInv'
  <2>1. UNCHANGED <<proto, ksock, rx, inbox, failed, errno>>
    BY <1>4 DEF RegisterCb, Listen, Booting, CallProceed, Poll, InEndpoint, HandlerIgnores,
         AcceptFails, HandlerErases, OnConn, HandsOver, OnConnUdp, HandsOverRef, EraseUndefined,
         BeginScan, EndScan, ScanUndefined, RecvEof, ReceivesEof, ResponseThrows, SendKills,
         Answered, Sends, Signal, endpointVars, kernelVars, serverVars, ioVars, vars
  <2> QED BY <1>2, <2>1 DEF BufferInv
<1>5. CASE Accepts(Controller)
  <2>1. PICK fd \in Fds, st \in {"est", "fin", "reset", "urgent"}, data \in BOOLEAN :
            /\ IsLowestFree(fd) /\ accepted' = fd
            /\ ksock' = [ksock EXCEPT ![fd] = st]
            /\ rx' = (IF pending = 1 THEN rx \ {state.fd} ELSE rx)
                        \cup (IF data THEN {fd} ELSE {})
    BY <1>5 DEF Accepts, Accept, AcceptedStates
  <2>2. proto = "tcp" /\ UNCHANGED <<proto, errno>>
    BY <1>5 DEF Accepts, Accept
  <2>3. inbox[fd] = << >> /\ ksock'[fd] \in Connection
        /\ \A other \in Fds \ {fd} : ksock'[other] = ksock[other]
    BY <1>1, <2>1 DEF IsLowestFree, FreeFds, BufferInv, Connection
  <2>4. \A other \in Fds : inbox[other] # << >> => other # state.fd
    BY <2>2 DEF SocketInv, BufferInv, Connection
  <2>5. failed' \subseteq Fds
    BY <1>5, <2>1 DEF Accepts, BufferInv
  <2>6. \/ inbox' = inbox
        \/ fd \in rx' /\ \E m \in Message : inbox' = [inbox EXCEPT ![fd] = <<m>>]
    BY <1>5, <2>1 DEF Accepts
  <2>7. inbox' \in [Fds -> Seq(Message)]
    <3>1. inbox \in [Fds -> Seq(Message)]
      BY DEF BufferInv
    <3>2. \A m \in Message : <<m>> \in Seq(Message)
      OBVIOUS
    <3> QED BY <2>6, <3>1, <3>2
  <2>8. \A other \in Fds \ {fd} : inbox'[other] = inbox[other]
    BY <2>6 DEF BufferInv
  <2>9. ASSUME NEW other \in Fds, inbox'[other] # << >>
        PROVE  other \in rx' /\ ksock'[other] \in Connection \cup {"udp"}
    <3>1. CASE other = fd
      BY <2>3, <2>6, <2>9, <3>1
    <3>2. CASE other # fd
      BY <2>1, <2>3, <2>4, <2>8, <2>9, <3>2 DEF BufferInv
    <3> QED BY <3>1, <3>2
  <2> QED BY <2>2, <2>5, <2>7, <2>9 DEF BufferInv
<1>6. ASSUME NEW fds, Close(fds), Forget(fds), UNCHANGED proto, errno' \in {"EAGAIN", "other"}
      PROVE  BufferInv'
  <2>1. /\ rx' = rx \ fds
        /\ \A fd \in Fds : ksock'[fd] = IF fd \in fds THEN "free" ELSE ksock[fd]
    BY <1>1, <1>6, CloseStep
  <2>2. /\ inbox' \in [Fds -> Seq(Message)]
        /\ \A fd \in Fds : inbox'[fd] = IF fd \in fds THEN << >> ELSE inbox[fd]
    BY <1>6 DEF Forget, BufferInv
  <2>3. failed' = failed \ fds
    BY <1>6 DEF Forget
  <2> QED BY <1>1, <1>6, <2>1, <2>2, <2>3 DEF BufferInv
<1>7. CASE EraseActiveSocket(Controller)
  BY <1>6, <1>7 DEF EraseActiveSocket, CallsErase, BufferInv
<1>8. CASE RecvData
  <2> DEFINE fd == FdOf(This)
  <2>1. main = "scan" /\ it <= Len(active_sockets)
    BY <1>8 DEF RecvData, Dereferences
  <2>2. fd \in Fds
    BY <2>1, Dereferenced
  <2>3. /\ inbox[fd] # << >> /\ inbox' = [inbox EXCEPT ![fd] = Tail(@)]
        /\ rx' = IF Len(inbox[fd]) = 1 THEN rx \ {fd} ELSE rx
        /\ UNCHANGED <<proto, ksock, failed, errno>>
    BY <1>8 DEF RecvData, ReceivesData, endpointVars, serverVars
  <2> HIDE DEF fd
  <2>4. inbox[fd] \in Seq(Message)
    BY <2>2 DEF BufferInv
  <2>5. Tail(inbox[fd]) \in Seq(Message) /\ (Tail(inbox[fd]) = << >> <=> Len(inbox[fd]) = 1)
    <3>1. \A s \in Seq(Message) : s # << >> =>
             /\ Tail(s) \in Seq(Message) /\ Len(s) \in Nat
             /\ Len(Tail(s)) = Len(s) - 1
      OBVIOUS
    <3>2. \A s \in Seq(Message) : s = << >> <=> Len(s) = 0
      OBVIOUS
    <3>3. ASSUME NEW s \in Seq(Message), s # << >>
          PROVE  Tail(s) = << >> <=> Len(s) = 1
      <4>1. Tail(s) \in Seq(Message) /\ Len(s) \in Nat /\ Len(Tail(s)) = Len(s) - 1
        BY <3>1, <3>3
      <4>2. Tail(s) = << >> <=> Len(Tail(s)) = 0
        BY <3>2, <4>1
      <4> QED BY <4>1, <4>2
    <3>4. inbox[fd] # << >>
      BY <2>3
    <3> QED BY <2>4, <3>1, <3>3, <3>4
  <2>6. /\ inbox' \in [Fds -> Seq(Message)] /\ inbox'[fd] = Tail(inbox[fd])
        /\ \A other \in Fds \ {fd} : inbox'[other] = inbox[other]
    BY <2>2, <2>3, <2>5 DEF BufferInv
  <2> QED BY <1>1, <2>2, <2>3, <2>5, <2>6 DEF BufferInv
<1>9. CASE RecvEnds
  <2>1. /\ UNCHANGED <<proto, ksock, rx, inbox>> /\ errno' \in {"EAGAIN", "other"}
        /\ failed' \subseteq failed
    BY <1>9 DEF RecvEnds, WouldBlock, ReceivesError, endpointVars, serverVars, kernelVars
  <2> QED BY <2>1 DEF BufferInv
<1>10. CASE ReplyFails
  <2>1. UNCHANGED proto /\ errno' \in {"EAGAIN", "other"}
    BY <1>10 DEF ReplyFails, endpointVars, serverVars
  <2>2. CASE proto = "tcp"
    <3>1. Close({This.fd}) /\ Forget({This.fd})
      BY <1>10, <2>2 DEF ReplyFails
    <3> QED BY <1>6, <2>1, <3>1
  <2>3. CASE proto # "tcp"
    <3>1. UNCHANGED <<ksock, rx, inbox, failed>>
      BY <1>10, <2>3 DEF ReplyFails, kernelVars
    <3> QED BY <1>2, <2>1, <3>1
  <2> QED BY <2>2, <2>3
<1>11. CASE Leave
  <2>1. Close({state.fd}) /\ Forget({state.fd}) /\ UNCHANGED <<proto, errno>>
    BY <1>11 DEF Leave, Destroys
  <2> QED BY <1>6, <2>1 DEF BufferInv
<1>12. CASE PeerConnects /\ UNCHANGED <<ioVars, appVars>>
  <2>1. proto = "tcp" /\ rx' = rx \cup {state.fd}
        /\ UNCHANGED <<proto, ksock, inbox, failed, errno>>
    BY <1>12 DEF PeerConnects, ioVars
  <2> QED BY <2>1 DEF BufferInv
<1>13. ASSUME NEW fd \in Fds, NEW m \in Message, Arrive(fd),
              inbox' = [inbox EXCEPT ![fd] = Append(@, m)], UNCHANGED <<proto, failed, errno>>
       PROVE  BufferInv'
  <2>1. /\ ksock[fd] \in {"est", "urgent", "udp"} /\ rx' = rx \cup {fd} /\ UNCHANGED ksock
    BY <1>13 DEF Arrive
  <2>2. inbox[fd] \in Seq(Message)
    BY DEF BufferInv
  <2>3. /\ inbox' \in [Fds -> Seq(Message)] /\ inbox'[fd] # << >>
        /\ \A other \in Fds \ {fd} : inbox'[other] = inbox[other]
    BY <1>13, <2>2 DEF BufferInv
  <2> QED BY <1>13, <2>1, <2>3 DEF BufferInv, Connection
<1>14. ASSUME NEW fd \in Fds,
              \/ PeerCloses(fd) /\ UNCHANGED ioVars
              \/ UrgentArrives(fd) /\ UNCHANGED ioVars
              \/ PeerResets(fd) /\ Fails(fd),
              UNCHANGED proto
       PROVE  BufferInv'
  <2>1. /\ ksock[fd] \in Connection /\ ksock'[fd] \in Connection /\ rx' = rx
        /\ \A other \in Fds \ {fd} : ksock'[other] = ksock[other]
    BY <1>1, <1>14 DEF PeerCloses, UrgentArrives, PeerResets, Connection
  <2>2. inbox' = inbox /\ errno' = errno /\ failed' \subseteq failed \cup {fd}
    BY <1>14 DEF Fails, ioVars
  <2>3. proto = "tcp"
    BY <1>1, <2>1 DEF SocketInv, Connection
  <2> QED BY <1>14, <2>1, <2>2, <2>3 DEF BufferInv
<1>15. CASE Network
  <2>1. CASE Arrival
    <3>1. PICK m \in Message :
             \/ /\ DatagramArrives
                /\ inbox' = [inbox EXCEPT ![state.fd] = Append(@, m)]
                /\ UNCHANGED <<failed, errno>>
             \/ \E fd \in Fds : Delivers(fd, m) /\ UNCHANGED endpointVars
      BY <2>1 DEF Arrival
    <3>2. CASE /\ DatagramArrives
               /\ inbox' = [inbox EXCEPT ![state.fd] = Append(@, m)]
               /\ UNCHANGED <<failed, errno>>
      <4>1. state.fd \in Fds /\ Arrive(state.fd) /\ UNCHANGED proto
        BY <3>2 DEF DatagramArrives
      <4> QED BY <1>13, <3>2, <4>1
    <3>3. ASSUME NEW fd \in Fds, Delivers(fd, m) /\ UNCHANGED endpointVars PROVE BufferInv'
      BY <1>13, <3>3 DEF Delivers, endpointVars, serverVars
    <3> QED BY <3>1, <3>2, <3>3
  <2>2. CASE \E fd \in Fds : /\ \/ PeerCloses(fd) /\ UNCHANGED ioVars
                                \/ UrgentArrives(fd) /\ UNCHANGED ioVars
                                \/ PeerResets(fd) /\ Fails(fd)
                            /\ UNCHANGED endpointVars
    <3>1. UNCHANGED proto
      BY <2>2 DEF endpointVars, serverVars
    <3> QED BY <1>14, <2>2, <3>1
  <2>3. \/ PeerConnects /\ UNCHANGED <<ioVars, appVars>>
        \/ Arrival
        \/ \E fd \in Fds : /\ \/ PeerCloses(fd) /\ UNCHANGED ioVars
                              \/ UrgentArrives(fd) /\ UNCHANGED ioVars
                              \/ PeerResets(fd) /\ Fails(fd)
                           /\ UNCHANGED endpointVars
    BY <1>15 DEF Network
  <2> QED BY <1>12, <2>1, <2>2, <2>3
<1> QED BY <1>3, <1>4, <1>5, <1>7, <1>8, <1>9, <1>10, <1>11, <1>15
        DEF Next, Main, Booting, InStart, InProceed, Scan, Reply

------------------------------------------------------------------------------
(* The batch.                                                               *)

\* A datagram socket is never reported closed, and it is the only one there is
\* (epoll.cpp:116-174).
LEMMA BatchStep ==
    ASSUME ServerTypeOK, ObsInv, HandlersInv, ControlInv, SocketInv, BatchInv, [Next]_vars
    PROVE  BatchInv'
<1> USE ServerAssumption, AppAssumption
<1>1. CASE UNCHANGED <<act, proto>>
  BY <1>1 DEF BatchInv
<1>2. CASE CallProceed
  <2>1. PICK take \in Takes(Raised) : ObsPoll(Controller, EventsOf(take, Raised))
    BY <1>2 DEF CallProceed, Poll
  <2> DEFINE events == EventsOf(take, Raised)
  <2>2. /\ events \in Seq(Event)
        /\ \A j \in 1..Len(events) :
              /\ events[j].fd \in ready
              /\ events[j].type = event_type_from_flags(Reported(events[j].fd, Raised))
        /\ \A i, j \in 1..Len(events) : events[i].fd = events[j].fd => i = j
    BY TakenEvents DEF ServerTypeOK
  <2> HIDE DEF events
  <2>3. act'[Controller].events = events /\ proto' = proto
    BY <1>2, <2>1 DEF ObsPoll, Outside, ObsInv, ObsTypeOK, CallProceed, Poll, serverVars, events
  <2>4. CASE proto = "udp"
    <3>1. ASSUME NEW j \in 1..Len(events)
          PROVE  events[j].fd = state.fd /\ events[j].type \cap ErasingTypes = {}
      <4>1. events[j].fd \in Fds /\ interest[events[j].fd] # {}
        BY <2>2 DEF SocketInv, ServerTypeOK, EpollTypeOK
      <4>2. events[j].fd = state.fd /\ ksock[events[j].fd] = "udp"
        BY <2>4, <4>1 DEF SocketInv
      <4> QED BY <2>2, <4>1, <4>2, ErasingReported
    <3>2. Len(events) \in Nat /\ Len(events) <= 1
      <4>1. Len(events) \in Nat
        BY <2>2
      <4>2. Len(events) >= 2 => 1 \in 1..Len(events) /\ 2 \in 1..Len(events)
        BY <4>1
      <4>3. ~(Len(events) >= 2)
        BY <2>2, <3>1, <4>2
      <4> QED BY <4>1, <4>3
    <3> QED BY <2>3, <3>1, <3>2 DEF BatchInv
  <2>5. CASE proto # "udp"
    BY <2>3, <2>5 DEF BatchInv
  <2> QED BY <2>4, <2>5
<1>3. ASSUME ObsStep(Controller) \/ ObsHandlerReturns(Controller), UNCHANGED proto
      PROVE  BatchInv'
  <2>1. act'[Controller].events \in {<< >>, act[Controller].events}
    BY <1>3, ForwardSteps
  <2>2. Len(<< >>) = 0
    OBVIOUS
  <2> QED BY <1>3, <2>1, <2>2 DEF BatchInv
<1>4. CASE InProceed(Controller)
  <2>1. \/ UNCHANGED <<act, proto>>
        \/ (ObsStep(Controller) \/ ObsHandlerReturns(Controller)) /\ UNCHANGED proto
    BY <1>4 DEF InProceed, InEndpoint, Accepts, Accept, HandlerIgnores, AcceptFails,
                HandlerErases, OnConn, HandsOver, OnConnUdp, HandsOverRef, EraseActiveSocket,
                CallsErase, EraseUndefined, obsVars, serverVars
  <2> QED BY <1>1, <1>3, <2>1
<1>5. CASE Booting \/ Scan \/ Reply \/ Leave \/ Signal \/ Network \/ UNCHANGED vars
  <2>1. UNCHANGED <<act, proto>>
    BY <1>5 DEF Booting, Start, InStart, RegisterCb, add, Listen, Scan, BeginScan, EndScan,
         ScanUndefined, RecvData, RecvEof, RecvEnds, Reply, ResponseThrows, Answered, ReplyFails,
         SendKills, Leave, Destroys, Signal, Network, PeerConnects, Arrival, DatagramArrives,
         endpointVars, obsVars, serverVars, vars
  <2> QED BY <1>1, <2>1
<1> QED BY <1>2, <1>4, <1>5 DEF Next, Main

------------------------------------------------------------------------------
(* Undefined behaviour.                                                     *)

\* A process that has ended does nothing.
LEMMA DeadStep ==
    ASSUME [Next]_vars, Dead
    PROVE  UNCHANGED vars
BY DEF Dead, Next, Main, Booting, CallProceed, InProceed, Scan, BeginScan, EndScan,
       ScanUndefined, RecvData, RecvEof, RecvEnds, Dereferences, Reply, ResponseThrows,
       Answered, ReplyFails, SendKills, Leave, Signal, Network, At

\* A pointer is left dangling only when the vector grows or closes up with
\* another element in it (base_socket.h:24-41).
LEMMA MovedStep ==
    ASSUME ServerTypeOK, VectorInv, ControlInv, BufferInv, MovedInv, [Next]_vars
    PROVE  MovedInv' /\ (crowded => crowded') /\ (blank => blank')
<1> DEFINE n == Len(active_sockets)
           Goal == MovedInv' /\ (crowded => crowded') /\ (blank => blank')
<1>1. n \in Nat /\ Elements = 1..n /\ (active_sockets = << >> <=> n = 0)
  BY SequenceOf DEF VectorInv, IsSequence, Elements
<1>2. ASSUME UNCHANGED <<active_sockets, crowded, blank>>
      PROVE  Goal
  BY <1>2 DEF MovedInv, Elements
<1>3. ASSUME NEW fd, emplace_back(fd), UNCHANGED blank
      PROVE  Goal
  <2>1. /\ IsSequence(active_sockets') /\ Len(active_sockets') = n + 1
        /\ \A i \in Elements : active_sockets'[i].own \in {active_sockets[i].own, FALSE}
        /\ active_sockets'[n + 1].own = TRUE
        /\ active_sockets # << >> => crowded'
        /\ crowded => crowded'
        /\ crowded' \in BOOLEAN
    <3>1. active_sockets'[n + 1] =
             [own |-> TRUE, fd |-> fd, remote |-> 0, second |-> << >>, parts |-> << >>]
      BY <1>3, EmplaceBack
    <3>2. active_sockets'[n + 1].own = TRUE
      BY <3>1
    <3> QED BY <1>3, <3>2, EmplaceBack
  <2>2. Elements' = 1..n + 1
    BY <1>1, <2>1, SequenceOf DEF IsSequence, Elements
  <2>3. n > 0 => crowded'
    BY <1>1, <2>1
  <2>4. ASSUME NEW i \in Elements', ~active_sockets'[i].own PROVE crowded'
    <3>1. i # n + 1
      BY <2>1, <2>4
    <3> QED BY <1>1, <2>2, <2>3, <2>4, <3>1
  <2> QED BY <1>1, <1>3, <2>1, <2>3, <2>4 DEF MovedInv
<1>4. ASSUME NEW i \in Elements, active_sockets' = Without(i), UNCHANGED <<crowded, blank>>
      PROVE  Goal
  <2>1. /\ Len(active_sockets') = n - 1 /\ DOMAIN active_sockets' = 1..n - 1
        /\ \A j \in 1..n - 1 : active_sockets'[j].own =
              IF j < i THEN active_sockets[j].own ELSE FALSE
    BY <1>1, <1>4, EraseElement
  <2>2. ASSUME NEW j \in Elements', ~active_sockets'[j].own PROVE crowded
    <3>1. j \in 1..n - 1
      BY <2>1 DEF Elements
    <3>2. j \in Elements /\ n > 1
      BY <1>1, <3>1
    <3> QED BY <2>1, <2>2, <3>1, <3>2 DEF MovedInv
  <2> QED BY <1>1, <1>4, <2>1, <2>2 DEF MovedInv
<1>5. ASSUME it \in Elements, NEW e, DOMAIN e = Fields, e.own = This.own, e.fd = This.fd,
             active_sockets' = [active_sockets EXCEPT ![it] = e],
             UNCHANGED crowded, blank' \in BOOLEAN, blank => blank'
      PROVE  Goal
  <2>1. Len(active_sockets') = n /\ DOMAIN active_sockets' = Elements
        /\ \A i \in Elements : active_sockets'[i].own = active_sockets[i].own
    BY <1>5, SetRequest
  <2> QED BY <1>1, <1>5, <2>1 DEF MovedInv, Elements
<1>6. CASE \/ Booting \/ CallProceed \/ Network \/ Signal \/ UNCHANGED vars
           \/ InEndpoint(Controller) /\ UNCHANGED <<ioVars, appVars>>
           \/ Accepts(Controller) \/ EraseUndefined(Controller)
           \/ BeginScan \/ EndScan \/ ScanUndefined \/ RecvEof \/ RecvEnds
           \/ ResponseThrows \/ SendKills
  <2>1. UNCHANGED <<active_sockets, crowded, blank>>
    BY <1>6 DEF Booting, CallProceed, Network, Arrival, Counts, Signal, Accepts, EraseUndefined,
         BeginScan, EndScan, ScanUndefined, RecvEof, RecvEnds, ResponseThrows, SendKills,
         appVars, vars
  <2> QED BY <1>2, <2>1
<1>7. CASE OnConn(Controller) \/ OnConnUdp(Controller)
  BY <1>3, <1>7 DEF OnConn, OnConnUdp
<1>8. CASE EraseActiveSocket(Controller)
  <2>1. UNCHANGED <<crowded, blank>>
    BY <1>8 DEF EraseActiveSocket
  <2>2. CASE Matches(Controller) = {}
    BY <1>2, <1>8, <2>1, <2>2 DEF EraseActiveSocket
  <2>3. CASE Matches(Controller) # {}
    <3> DEFINE i == CHOOSE i \in Matches(Controller) : TRUE
    <3>1. i \in Elements
      BY <2>3 DEF Matches
    <3>2. active_sockets' = Without(i)
      BY <1>8, <2>3 DEF EraseActiveSocket
    <3> HIDE DEF i
    <3> QED BY <1>4, <2>1, <3>1, <3>2
  <2> QED BY <2>2, <2>3
<1>9. CASE RecvData
  <2>1. main = "scan" /\ it <= Len(active_sockets) /\ UNCHANGED crowded
    BY <1>9 DEF RecvData, Dereferences
  <2>2. FdOf(This) \in Fds
    BY <2>1, Dereferenced
  <2>3. PICK e : /\ it \in Elements /\ DOMAIN e = Fields /\ e.own = This.own
                 /\ e.fd = This.fd
                 /\ active_sockets' = [active_sockets EXCEPT ![it] = e]
    BY <1>9, <2>2, RecvElement
  <2>4. blank' \in BOOLEAN /\ (blank => blank')
    BY <1>9 DEF RecvData, MovedInv
  <2> QED BY <1>5, <2>1, <2>3, <2>4
<1>10. CASE Answered \/ ReplyFails
  <2>1. main = "reply" /\ UNCHANGED <<crowded, blank>>
    BY <1>10 DEF Answered, ReplyFails, At
  <2>2. it \in Elements /\ (blank => blank') /\ blank' \in BOOLEAN
    BY <2>1, Dereferenced DEF MovedInv
  <2>3. CASE active_sockets' = Without(it)
    BY <1>4, <2>1, <2>2, <2>3
  <2>4. CASE active_sockets' =
               [active_sockets EXCEPT ![it].second = << >>, ![it].parts = << >>]
    <3>1. PICK e : /\ DOMAIN e = Fields /\ e.own = This.own /\ e.fd = This.fd
                   /\ active_sockets' = [active_sockets EXCEPT ![it] = e]
      BY <2>2, <2>4, AnsweredElement
    <3> QED BY <1>5, <2>1, <2>2, <3>1
  <2> QED BY <1>10, <2>3, <2>4 DEF Answered, ReplyFails
<1>11. CASE Leave
  <2>1. active_sockets' \in {active_sockets, << >>} /\ UNCHANGED <<crowded, blank>>
    BY <1>11 DEF Leave
  <2>2. CASE active_sockets' = << >>
    BY <2>1, <2>2 DEF MovedInv, Elements
  <2> QED BY <1>2, <2>1, <2>2
<1> QED BY <1>6, <1>7, <1>8, <1>9, <1>10, <1>11
        DEF Next, Main, InProceed, Scan, Reply

\* The erase handler never runs for a datagram server: its socket is never
\* reported closed.
LEMMA NoEraseOfDatagrams ==
    ASSUME ServerTypeOK, ObsInv, HandlersInv, BatchInv, InErase(Controller)
    PROVE  proto = "tcp"
<1> USE ServerAssumption, AppAssumption
<1>1. /\ act[Controller].k \in 1..Len(act[Controller].events)
      /\ Current(Controller).type \cap ErasingTypes # {}
  BY RunningApp DEF InErase
<1>2. proto \in {"tcp", "udp"}
  BY DEF ServerTypeOK
<1> QED BY <1>1, <1>2 DEF BatchInv, Current

\* Going on with the batch never makes a datagram due again
\* (event_observer.tpp:37-50).
LEMMA OwesLess ==
    ASSUME ObsInv, \/ ObsStep(Controller) \/ ObsHandlerReturns(Controller)
                   \/ act' = act,
           Controller \in Threads, OwesRef'
    PROVE  OwesRef
<1> DEFINE a == act[Controller]
           b == act'[Controller]
<1>1. CASE act' = act
  BY <1>1 DEF OwesRef
<1>2. CASE ObsStep(Controller) \/ ObsHandlerReturns(Controller)
  <2>1. b.pc \in {"polled", "serving", "running"} /\ b.k = 1 /\ b.i = 1 /\ b.events # << >>
        /\ "READ_READY" \in b.events[1].type
    BY DEF OwesRef
  <2>2. /\ b.events = a.events
        /\ (b.k = a.k /\ b.i >= a.i) \/ b.k = a.k + 1
        /\ a.pc \in {"polled", "serving", "running"}
    BY <1>2, <2>1, ForwardSteps
  <2>3. a.k \in Nat /\ a.i \in Nat /\ a.k >= 1 /\ a.i >= 1
    BY <2>2 DEF ObsInv, ObsTypeOK, ActRecord, RecordInv, Place, Steps
  <2> HIDE DEF a, b
  <2>4. a.k = 1 /\ a.i = 1
    BY <2>1, <2>2, <2>3
  <2> QED BY <2>1, <2>2, <2>4 DEF OwesRef, a
<1> QED BY <1>1, <1>2

\* As long as no datagram is empty, the vector of a UDP server holds at most
\* one reference, and never across a poll (server_main.cpp:60-67, 119-148).
LEMMA OneRefStep ==
    ASSUME ServerTypeOK, ObsInv, HandlersInv, VectorInv, ControlInv, SocketInv, BufferInv,
           BatchInv, MovedInv, OneRef, [Next]_vars
    PROVE  OneRef'
<1> USE ServerAssumption, AppAssumption
<1> SUFFICES ASSUME proto' = "udp", ~blank', ~Dead'
             PROVE  RefAlone'
  BY DEF OneRef
<1>1. ~blank /\ ~Dead
  BY MovedStep, DeadStep DEF vars, appVars, Dead
<1>2. proto = "udp"
  BY DEF Next, Main, Booting, Start, InStart, RegisterCb, Listen, CallProceed, Poll, InProceed,
         InEndpoint, HandlerIgnores, AcceptFails, HandlerErases, Accepts, Accept, OnConn,
         HandsOver, OnConnUdp, HandsOverRef, EraseActiveSocket, CallsErase, EraseUndefined, Scan,
         BeginScan, EndScan, ScanUndefined, RecvData, RecvEof, RecvEnds, Reply, ResponseThrows,
         Answered, ReplyFails, SendKills, Leave, Destroys, Signal, Network, PeerConnects, Arrival,
         DatagramArrives, endpointVars, serverVars, vars
<1>3. RefAlone
  BY <1>1, <1>2 DEF OneRef
<1>4. Len(active_sockets) \in Nat /\ (active_sockets = << >> <=> Len(active_sockets) = 0)
  BY SequenceOf DEF VectorInv, IsSequence
<1>5. main \in {"poll", "scan", "reply"} => ~OwesRef
  BY DEF ControlInv, OwesRef
<1>6. ASSUME UNCHANGED <<state, active_sockets, it>>, main' = main,
             OwesRef' => OwesRef,
             inbox[state.fd] # << >> => inbox'[state.fd] # << >>
      PROVE  RefAlone'
  BY <1>3, <1>6 DEF RefAlone
<1>7. ASSUME active_sockets' = << >>, it' = 1, ~OwesRef'
      PROVE  RefAlone'
  BY <1>7 DEF RefAlone
<1>8. CASE Booting
  <2>1. main = "poll" /\ UNCHANGED <<active_sockets, it, act>>
    BY <1>8 DEF Booting, Start, InStart, RegisterCb, add, Listen, obsVars, appVars
  <2>2. active_sockets = << >> /\ it = 1 /\ ~OwesRef
    BY <1>3, <1>5, <2>1 DEF RefAlone
  <2>3. ~OwesRef'
    BY <2>1, <2>2 DEF OwesRef
  <2> QED BY <1>7, <2>1, <2>2, <2>3
<1>9. CASE CallProceed
  <2>1. PICK take \in Takes(Raised) : ObsPoll(Controller, EventsOf(take, Raised))
    BY <1>9 DEF CallProceed, Poll
  <2> DEFINE events == EventsOf(take, Raised)
  <2>2. /\ events \in Seq(Event)
        /\ \A j \in 1..Len(events) :
              /\ events[j].fd \in ready
              /\ events[j].type = event_type_from_flags(Reported(events[j].fd, Raised))
    BY TakenEvents DEF ServerTypeOK
  <2> HIDE DEF events
  <2>3. act'[Controller].events = events
    BY <2>1 DEF ObsPoll, Outside, ObsInv, ObsTypeOK, events
  <2>4. /\ main = "poll" /\ main' = "proceed" /\ UNCHANGED <<state, inbox, active_sockets, it>>
    BY <1>9 DEF CallProceed, At, Poll, serverVars, ioVars
  <2>5. ASSUME OwesRef' PROVE inbox[state.fd] # << >>
    <3>1. events # << >> /\ "READ_READY" \in events[1].type
      BY <2>3, <2>5 DEF OwesRef
    <3>2. 1 \in 1..Len(events)
      BY <2>2, <3>1
    <3>3. events[1].fd \in Fds /\ interest[events[1].fd] # {}
      BY <2>2, <3>2 DEF SocketInv, ServerTypeOK, EpollTypeOK
    <3>4. events[1].fd = state.fd /\ ksock[events[1].fd] = "udp"
      BY <1>2, <3>3 DEF SocketInv
    <3>5. events[1].fd \in rx
      <4>1. "READ_READY" \in event_type_from_flags(Reported(events[1].fd, Raised))
        BY <2>2, <3>1, <3>2
      <4> QED BY <3>3, <3>4, <4>1, ReadReported
    <3> QED BY <1>2, <3>4, <3>5 DEF BufferInv
  <2> QED BY <1>3, <2>4, <2>5 DEF RefAlone
<1>10. CASE InEndpoint(Controller) /\ UNCHANGED <<ioVars, appVars>>
  <2>1. /\ UNCHANGED <<state, inbox, active_sockets, it, main>>
        /\ ObsStep(Controller) \/ ObsHandlerReturns(Controller) \/ act' = act
    BY <1>10 DEF InEndpoint, HandlerIgnores, AcceptFails, HandlerErases, obsVars, serverVars,
         ioVars, appVars
  <2>2. OwesRef' => OwesRef
    BY <2>1, OwesLess
  <2> QED BY <1>6, <2>1, <2>2
<1>11. ~Accepts(Controller) /\ ~OnConn(Controller) /\ ~EraseActiveSocket(Controller)
  <2>1. ~Accepts(Controller)
    BY <1>2 DEF Accepts, Accept
  <2>2. ~OnConn(Controller)
    <3> SUFFICES ASSUME OnConn(Controller) PROVE FALSE
      OBVIOUS
    <3>1. accepted # NoFd /\ accepted \in Fds \cup {NoFd}
      BY DEF OnConn, HandsOver, ControlInv, HoldsAccepted, ServerTypeOK
    <3> QED BY <1>2, <3>1 DEF SocketInv
  <2>3. ~EraseActiveSocket(Controller)
    BY <1>2, NoEraseOfDatagrams DEF EraseActiveSocket, CallsErase
  <2> QED BY <2>1, <2>2, <2>3
<1>12. CASE OnConnUdp(Controller) /\ main = "proceed"
  <2> DEFINE a == act[Controller]
  <2>1. /\ a.pc = "running" /\ a.cur = "read" /\ ObsHandlerReturns(Controller)
        /\ emplace_back(NoFd) /\ UNCHANGED <<main, it, inbox, state>>
    BY <1>12 DEF OnConnUdp, HandsOverRef, HandlerLocks, ListenerReady, serverVars, ioVars
  <2>2. a.i = 1 /\ "READ_READY" \in Current(Controller).type /\ a.k \in 1..Len(a.events)
    BY <2>1, RunningApp
  <2>3. a.k = 1 /\ a.events # << >>
    <3>1. a.events \in Seq(Event) /\ Len(a.events) <= 1
      BY <1>2 DEF BatchInv, ObsInv, ObsTypeOK, ActRecord
    <3> QED BY <2>2, <3>1
  <2>4. OwesRef
    BY <2>1, <2>2, <2>3 DEF OwesRef, Current
  <2>5. active_sockets = << >> /\ inbox[state.fd] # << >> /\ it = 1
    BY <1>3, <2>4 DEF RefAlone
  <2>6. act'[Controller].i = 2
    BY <2>1, <2>2 DEF ObsHandlerReturns, ObsInv, ObsTypeOK, ActRecord
  <2>7. ~OwesRef'
    BY <2>6 DEF OwesRef
  <2>8. Len(active_sockets') = 1 /\ active_sockets'[1].own
    <3>1. /\ Len(active_sockets') = Len(active_sockets) + 1
          /\ active_sockets'[Len(active_sockets) + 1] =
               [own |-> TRUE, fd |-> NoFd, remote |-> 0, second |-> << >>, parts |-> << >>]
      BY <2>1, EmplaceBack
    <3>2. /\ Len(active_sockets') = 1
          /\ active_sockets'[1] =
               [own |-> TRUE, fd |-> NoFd, remote |-> 0, second |-> << >>, parts |-> << >>]
      BY <1>4, <2>5, <3>1
    <3> QED BY <3>2
  <2> HIDE DEF a
  <2> QED BY <1>12, <2>1, <2>5, <2>7, <2>8 DEF RefAlone
<1>13. CASE BeginScan
  <2>1. /\ main = "proceed" /\ main' = "scan"
        /\ UNCHANGED <<state, inbox, active_sockets, it, act>>
    BY <1>13 DEF BeginScan, At, endpointVars, obsVars, serverVars, ioVars
  <2>2. OwesRef' <=> OwesRef
    BY <2>1 DEF OwesRef
  <2> QED BY <1>3, <2>1, <2>2 DEF RefAlone
<1>14. CASE EndScan
  <2>1. /\ main = "scan" /\ it' = 1 /\ it > Len(active_sockets)
        /\ UNCHANGED <<active_sockets, act>>
    BY <1>14 DEF EndScan, At, endpointVars, obsVars
  <2>2. active_sockets = << >> /\ ~OwesRef
    BY <1>3, <1>4, <1>5, <2>1 DEF RefAlone
  <2>3. ~OwesRef'
    BY <2>1, <2>2 DEF OwesRef
  <2> QED BY <1>7, <2>1, <2>2, <2>3
<1>15. CASE RecvData
  <2>1. /\ main = "scan" /\ it <= Len(active_sockets) /\ it = 1
        /\ UNCHANGED <<main, it, act>>
    BY <1>3, <1>15 DEF RecvData, Dereferences, RefAlone, endpointVars, obsVars
  <2>2. FdOf(This) \in Fds
    BY <2>1, Dereferenced
  <2> DEFINE m == Head(inbox[FdOf(This)])
  <2>3. m.req # << >>
    BY <1>15 DEF RecvData
  <2>4. PICK e : /\ it \in Elements /\ DOMAIN e = Fields /\ e.own = This.own
                 /\ e.fd = This.fd /\ e.second # << >>
                 /\ active_sockets' = [active_sockets EXCEPT ![it] = e]
    BY <1>15, <2>2, <2>3, RecvElement
  <2>5. /\ Len(active_sockets') = Len(active_sockets)
        /\ active_sockets'[1].own = active_sockets[1].own
        /\ active_sockets'[1].second = e.second
    BY <2>1, <2>4, SetRequest
  <2>6. ~OwesRef'
    BY <1>5, <2>1 DEF OwesRef
  <2>7. active_sockets # << >>
    BY <1>4, <2>1
  <2> QED BY <1>3, <2>1, <2>4, <2>5, <2>6, <2>7 DEF RefAlone
<1>16. CASE RecvEof \/ Signal
  <2>1. UNCHANGED <<state, inbox, active_sockets, it, act>> /\ main' \in {main, "exited"}
    BY <1>16 DEF RecvEof, ReceivesEof, Signal, endpointVars, obsVars, serverVars, ioVars, appVars
  <2>2. main' = main
    BY <2>1 DEF Dead
  <2> QED BY <1>6, <2>1, <2>2 DEF OwesRef
<1>17. CASE RecvEnds
  <2>1. /\ main = "scan" /\ it <= Len(active_sockets)
        /\ WouldBlock(FdOf(This)) \/ ReceivesError(FdOf(This))
        /\ UNCHANGED <<state, active_sockets, act>>
    BY <1>17 DEF RecvEnds, Dereferences, endpointVars, obsVars, serverVars
  <2>2. FdOf(This) = state.fd /\ failed = {}
    BY <1>2, <2>1, Dereferenced DEF BufferInv
  <2>3. inbox[state.fd] = << >> /\ errno' = "EAGAIN"
    BY <2>1, <2>2 DEF WouldBlock, ReceivesError
  <2>4. active_sockets # << >>
    BY <1>3, <1>4, <2>1 DEF RefAlone
  <2>5. This.second # << >>
    BY <1>3, <2>1, <2>3, <2>4 DEF RefAlone, This
  <2>6. main' = "reply" /\ it' = it
    BY <1>17, <2>3, <2>5 DEF RecvEnds, again_or_would_block
  <2>7. ~OwesRef'
    BY <1>5, <2>1 DEF OwesRef
  <2> QED BY <1>3, <2>1, <2>6, <2>7 DEF RefAlone
<1>18. CASE Answered \/ ReplyFails
  <2>1. /\ main = "reply" /\ active_sockets' = Without(it) /\ UNCHANGED <<it, act>>
    BY <1>2, <1>18 DEF Answered, ReplyFails, At, endpointVars, obsVars
  <2>2. it \in Elements
    BY <2>1, Dereferenced
  <2>3. Len(active_sockets') = Len(active_sockets) - 1 /\ IsSequence(active_sockets')
    BY <2>1, <2>2, EraseElement
  <2>4. Len(active_sockets') = 0
    BY <1>3, <1>4, <2>3, SequenceOf DEF RefAlone, IsSequence
  <2>5. active_sockets' = << >>
    BY <2>3, <2>4 DEF IsSequence
  <2>6. ~OwesRef' /\ it' = 1
    BY <1>3, <1>5, <2>1 DEF OwesRef, RefAlone
  <2> QED BY <1>7, <2>5, <2>6
<1>19. CASE Network
  <2>1. UNCHANGED <<state, active_sockets, it, act, main>>
    BY <1>19 DEF Network, PeerConnects, Arrival, DatagramArrives, Counts, endpointVars, obsVars,
         serverVars, appVars
  <2>2. inbox' = inbox \/ inbox'[state.fd] # << >>
    <3>1. CASE Arrival
      <4>1. PICK m \in Message : /\ inbox' = [inbox EXCEPT ![state.fd] = Append(@, m)]
                                 /\ state.fd \in Fds
        BY <1>2, <3>1 DEF Arrival, DatagramArrives
      <4>2. inbox[state.fd] \in Seq(Message) /\ inbox'[state.fd] = Append(inbox[state.fd], m)
        BY <4>1 DEF BufferInv
      <4> QED BY <4>2
    <3>2. CASE ~Arrival
      BY <1>19, <3>2 DEF Network, Fails, ioVars
    <3> QED BY <3>1, <3>2
  <2>3. OwesRef' => OwesRef
    BY <2>1 DEF OwesRef
  <2> QED BY <1>6, <2>1, <2>2, <2>3
<1>20. CASE UNCHANGED vars
  <2>1. UNCHANGED <<state, inbox, active_sockets, it, act, main>>
    BY <1>20 DEF vars, obsVars, serverVars, ioVars, appVars
  <2> QED BY <1>6, <2>1 DEF OwesRef
<1>21. ~Leave /\ ~EraseUndefined(Controller) /\ ~ScanUndefined /\ ~ResponseThrows /\ ~SendKills
  BY DEF Dead, Leave, EraseUndefined, ScanUndefined, ResponseThrows, SendKills, At
<1> QED BY <1>8, <1>9, <1>10, <1>11, <1>12, <1>13, <1>14, <1>15, <1>16, <1>17, <1>18, <1>19,
           <1>20, <1>21
        DEF Next, Main, InProceed, Scan, Reply

\* A dangling pointer is followed only where MovedInv has left one
\* (base_socket.h:43-54, accepted_sock_ref.h:88-128).
LEMMA UndefinedStep ==
    ASSUME ServerTypeOK, ObsInv, HandlersInv, VectorInv, ControlInv, BufferInv, BatchInv,
           MovedInv, OneRef, UndefinedExplained, [Next]_vars
    PROVE  UndefinedExplained'
<1> SUFFICES ASSUME main' = "undefined"
             PROVE  crowded' /\ (proto' = "udp" => blank')
  BY DEF UndefinedExplained
<1>1. CASE main = "undefined"
  <2>1. UNCHANGED <<crowded, proto, blank>>
    BY <1>1, DeadStep DEF Dead, vars, serverVars, appVars
  <2> QED BY <1>1, <2>1 DEF UndefinedExplained
<1>2. CASE main # "undefined"
  <2>1. EraseUndefined(Controller) \/ ScanUndefined
    BY <1>2 DEF Next, Main, Booting, CallProceed, InProceed, Accepts, Counts, OnConn, OnConnUdp,
         EraseActiveSocket, Scan, BeginScan, EndScan, RecvData, RecvEof, RecvEnds, Dereferences,
         Reply, ResponseThrows, Answered, ReplyFails, SendKills, Leave, Signal, Network, Arrival,
         At, appVars, vars
  <2>2. CASE EraseUndefined(Controller)
    <3>1. proto' = "tcp" /\ crowded' = crowded
      BY <2>2, NoEraseOfDatagrams DEF EraseUndefined, serverVars
    <3>2. \E i \in Elements : ~active_sockets[i].own
      BY <2>2 DEF EraseUndefined, Matches
    <3> QED BY <3>1, <3>2 DEF MovedInv
  <2>3. CASE ScanUndefined
    <3>1. main = "scan" /\ it <= Len(active_sockets) /\ ~This.own
          /\ UNCHANGED <<proto, crowded, blank>>
      BY <2>3 DEF ScanUndefined, At, endpointVars, serverVars
    <3>2. it \in Elements /\ Len(active_sockets) \in Nat
      BY <3>1, SequenceOf, Dereferenced DEF VectorInv, IsSequence
    <3>3. crowded
      BY <3>1, <3>2 DEF MovedInv, This
    <3>4. ASSUME proto = "udp", ~blank PROVE FALSE
      <4>1. RefAlone
        BY <3>1, <3>4 DEF OneRef, Dead
      <4>2. active_sockets # << >> /\ it = 1
        BY <3>1, <3>2, <4>1 DEF RefAlone
      <4>3. This.own
        BY <4>1, <4>2 DEF RefAlone, This
      <4> QED BY <3>1, <4>3
    <3> QED BY <3>1, <3>3, <3>4
  <2> QED BY <2>1, <2>2, <2>3
<1> QED BY <1>1, <1>2

------------------------------------------------------------------------------
(* The invariant.                                                           *)

\* The invariant holds when the program starts.
LEMMA AppInit ==
    Init => AppInv /\ CrowdInv
<1> SUFFICES ASSUME Init PROVE AppInv /\ CrowdInv
  OBVIOUS
<1> USE ServerAssumption, AppAssumption DEF NoFd
<1>1. ObsInv
  BY ObsInitInv DEF Init, ServerInit
<1>2. HandlersInv
  BY DEF Init, ServerInit, ObsInit, HandlersInv
<1>3. act[Controller].pc = "out" /\ act[Controller].events = << >>
  BY DEF Init, ServerInit, ObsInit, Outside
<1>4. ServerTypeOK
  <2>1. EpollTypeOK /\ KernelTypeOK
    BY DEF Init, ServerInit, EpollInit, KernelInit, EpollTypeOK, KernelTypeOK, SockState
  <2> QED BY <1>1, <2>1 DEF Init, ServerInit, ServerTypeOK, ObsInv
<1>5. active_sockets = << >> /\ Len(active_sockets) = 0 /\ Elements = {}
      /\ IsSequence(active_sockets)
  BY FunctionSequence DEF Init, Elements, IsSequence
<1>6. VectorInv
  BY <1>5 DEF Init, VectorInv
<1>7. ControlInv
  BY <1>3, <1>5 DEF Init, ServerInit, ControlInv, HoldsAccepted
<1>8. SocketInv
  BY <1>5 DEF Init, ServerInit, EpollInit, KernelInit, SocketInv
<1>9. BufferInv
  BY DEF Init, ServerInit, KernelInit, IOInit, BufferInv
<1>10. BatchInv
  BY <1>3 DEF BatchInv
<1>11. MovedInv /\ UndefinedExplained
  <2>1. crowded = FALSE /\ blank = FALSE /\ main = "poll"
    BY DEF Init
  <2>2. MovedInv
    <3>1. crowded \in BOOLEAN /\ blank \in BOOLEAN
      BY <2>1
    <3>2. ~(Len(active_sockets) > 1) /\ ~\E i \in Elements : ~active_sockets[i].own
      BY <1>5
    <3> QED BY <3>1, <3>2 DEF MovedInv
  <2> QED BY <2>1, <2>2 DEF UndefinedExplained
<1>12. OneRef
  BY <1>3, <1>5 DEF Init, OneRef, RefAlone, OwesRef
<1> QED BY <1>1, <1>2, <1>4, <1>6, <1>7, <1>8, <1>9, <1>10, <1>11, <1>12 DEF AppInv, CrowdInv

\* Every step keeps the invariant.
LEMMA AppStep ==
    AppInv /\ CrowdInv /\ [Next]_vars => AppInv' /\ CrowdInv'
<1> SUFFICES ASSUME AppInv, CrowdInv, [Next]_vars PROVE AppInv' /\ CrowdInv'
  OBVIOUS
<1>1. /\ ServerTypeOK /\ ObsInv /\ HandlersInv /\ VectorInv /\ ControlInv /\ SocketInv
      /\ BufferInv /\ BatchInv /\ MovedInv /\ OneRef /\ UndefinedExplained
  BY DEF AppInv, CrowdInv
<1>2. ServerTypeOK' /\ ObsInv' /\ HandlersInv'
  BY <1>1, AppObserver, AppServerTypes
<1>3. VectorInv' /\ ControlInv' /\ SocketInv' /\ BufferInv' /\ BatchInv'
  BY <1>1, VectorStep, ControlStep, SocketStep, BufferStep, BatchStep
<1>4. MovedInv' /\ OneRef' /\ UndefinedExplained'
  BY <1>1, MovedStep, OneRefStep, UndefinedStep
<1> QED BY <1>2, <1>3, <1>4 DEF AppInv, CrowdInv

\* What main() says of itself holds in every state: its vector holds distinct
\* open descriptors, its iterator is in range wherever it is dereferenced, and
\* an element was moved only beside another one (server_main.cpp:20-148,
\* base_socket.h:12-54).
THEOREM AppInvariant ==
    Spec => [](AppInv /\ CrowdInv)
BY AppInit, AppStep, PTL DEF Spec

\* The types of the loop's variables, the range of the iterator and the size
\* of the vector (server_main.cpp:20, 32, 117-122).
THEOREM AppTypes ==
    Spec => []AppTypeOK
<1>1. AppInv => AppTypeOK
  BY DEF AppInv, AppTypeOK, VectorInv, ControlInv, BufferInv
<1> QED BY <1>1, AppInvariant, PTL

\* main() reaches undefined behaviour through base_socket only with two
\* elements in the vector, and a UDP server only after an empty datagram: one
\* TCP connection at a time, and UDP requests that are not empty, are safe
\* (base_socket.h:12-54, server_main.cpp:42, 60, 67, 130-147).
THEOREM UndefinedOnlyIfCrowded ==
    Spec => []UndefinedExplained
<1>1. CrowdInv => UndefinedExplained
  BY DEF CrowdInv
<1> QED BY <1>1, AppInvariant, PTL

------------------------------------------------------------------------------
(* The messages in the requests.                                            *)

\* How many messages the elements of a vector v have read, and from whom the
\* elements with descriptor fd did: p is the protocol, s the server's socket.
Lens(v) == [i \in DOMAIN v |-> Len(v[i].parts)]

KeyOf(v, p, s, i) == IF p = "tcp" THEN v[i].fd ELSE s

Mine(v, p, s, fd) == {i \in DOMAIN v : KeyOf(v, p, s, i) = fd}

ReadIn(v, p, s, fd) == SumOver(Lens(v), Mine(v, p, s, fd))

\* The elements can be counted.
Countable(v) ==
    /\ DOMAIN v = 1..Len(v) /\ Len(v) \in Nat
    /\ \A i \in DOMAIN v : Len(v[i].parts) \in Nat

LEMMA ReadType ==
    ASSUME NEW v, Countable(v), NEW p, NEW s, NEW fd
    PROVE  /\ IsFiniteSet(Mine(v, p, s, fd)) /\ Mine(v, p, s, fd) \subseteq DOMAIN v
           /\ \A i \in DOMAIN v : Lens(v)[i] = Len(v[i].parts) /\ Lens(v)[i] \in Int
           /\ ReadIn(v, p, s, fd) \in Int
<1> DEFINE S == Mine(v, p, s, fd)
           w == Lens(v)
<1>1. IsFiniteSet(DOMAIN v)
  BY FS_Interval DEF Countable
<1>2. S \subseteq DOMAIN v
  BY DEF Mine
<1>3. IsFiniteSet(S)
  <2> HIDE DEF S
  <2> QED BY <1>1, <1>2, FS_Subset
<1>4. \A i \in DOMAIN v : w[i] = Len(v[i].parts) /\ w[i] \in Int
  BY DEF Lens, Countable
<1> HIDE DEF S, w
<1>5. SumOver(w, S) \in Int
  BY <1>2, <1>3, <1>4, SumType
<1> QED BY <1>2, <1>3, <1>4, <1>5 DEF S, w, ReadIn

\* A new element has read nothing yet.
LEMMA ReadAppend ==
    ASSUME NEW v, Countable(v), NEW u, Countable(u), Len(u) = Len(v) + 1,
           \A i \in DOMAIN v : u[i].fd = v[i].fd /\ u[i].parts = v[i].parts,
           u[Len(u)].parts = << >>, NEW p, NEW s, NEW fd
    PROVE  ReadIn(u, p, s, fd) = ReadIn(v, p, s, fd)
<1> DEFINE S == Mine(v, p, s, fd)
           T == Mine(u, p, s, fd)
           n == Len(v)
<1>1. DOMAIN v = 1..n /\ DOMAIN u = 1..n + 1 /\ n \in Nat /\ Len(u) = n + 1
  BY DEF Countable
<1>2. \A i \in 1..n : i \in S <=> i \in T
  BY <1>1 DEF Mine, KeyOf
<1>3. S \subseteq 1..n /\ T \subseteq 1..n + 1 /\ IsFiniteSet(S) /\ IsFiniteSet(T)
  BY <1>1, ReadType
<1>4. T \ {n + 1} = S
  <2> HIDE DEF S, T, n
  <2>1. n + 1 \notin 1..n /\ \A i \in 1..n + 1 : i = n + 1 \/ i \in 1..n
    BY <1>1
  <2>2. \A i \in S : i \in T /\ i # n + 1
    BY <1>2, <1>3, <2>1
  <2>3. \A i \in T : i # n + 1 => i \in S
    BY <1>2, <1>3, <2>1
  <2> QED BY <2>2, <2>3
<1>5. /\ \A i \in 1..n : Lens(v)[i] \in Int /\ Lens(u)[i] = Lens(v)[i]
      /\ \A i \in 1..n + 1 : Lens(u)[i] \in Int
      /\ Lens(u)[n + 1] = 0
  <2>1. /\ \A i \in DOMAIN v : Lens(v)[i] = Len(v[i].parts) /\ Lens(v)[i] \in Int
        /\ \A i \in DOMAIN u : Lens(u)[i] = Len(u[i].parts) /\ Lens(u)[i] \in Int
    BY ReadType
  <2>2. n + 1 \in DOMAIN u /\ Len(u[n + 1].parts) = 0 /\ \A i \in 1..n : i \in DOMAIN u
    BY <1>1
  <2> HIDE DEF n
  <2> QED BY <1>1, <2>1, <2>2
<1> DEFINE w == Lens(u)
           x == Lens(v)
<1> HIDE DEF S, T, n, w, x
<1>6. SumOver(w, S) = SumOver(x, S)
  <2>1. \A i \in S : w[i] \in Int /\ w[i] = x[i]
    BY <1>3, <1>5 DEF w, x
  <2> QED BY <1>3, <2>1, SumEqual
<1>7. SumOver(w, S) \in Int
  <2>1. \A i \in S : w[i] \in Int
    BY <1>3, <1>5 DEF w, x
  <2> QED BY <1>3, <2>1, SumType
<1>8. SumOver(w, T) = SumOver(w, S)
  <2>1. CASE n + 1 \in T
    <3>1. \A i \in T : w[i] \in Int
      BY <1>3, <1>5 DEF w
    <3>2. SumOver(w, T) = w[n + 1] + SumOver(w, T \ {n + 1})
      BY <1>3, <2>1, <3>1, SumRemove
    <3>3. w[n + 1] = 0
      BY <1>5 DEF w
    <3> DEFINE a == SumOver(w, S)
               b == SumOver(w, T)
    <3>4. a \in Int /\ b = 0 + a
      BY <1>4, <1>7, <3>2, <3>3
    <3> HIDE DEF a, b
    <3>5. a = b
      BY <3>4
    <3> QED BY <3>5 DEF a, b
  <2>2. CASE n + 1 \notin T
    BY <1>4, <2>2
  <2> QED BY <2>1, <2>2
<1> QED BY <1>6, <1>8 DEF ReadIn, S, T, w, x

\* One element has read something else.
OneChanged(v, u, i) ==
    /\ Len(u) = Len(v)
    /\ \A j \in DOMAIN v : u[j].fd = v[j].fd /\ (j # i => u[j].parts = v[j].parts)

Growth(v, u, i) == Len(u[i].parts) - Len(v[i].parts)

LEMMA ReadChange ==
    ASSUME NEW v, Countable(v), NEW u, Countable(u), NEW i \in DOMAIN v, OneChanged(v, u, i),
           NEW p, NEW s, NEW fd
    PROVE  ReadIn(u, p, s, fd) =
             IF fd = KeyOf(v, p, s, i) THEN ReadIn(v, p, s, fd) + Growth(v, u, i)
                                       ELSE ReadIn(v, p, s, fd)
<1> DEFINE S == Mine(v, p, s, fd)
           w == Lens(u)
           x == Lens(v)
           R == S \ {i}
<1>1. DOMAIN u = DOMAIN v
  BY DEF Countable, OneChanged
<1>2. Mine(u, p, s, fd) = S
  BY <1>1 DEF Mine, KeyOf, OneChanged
<1>3. IsFiniteSet(S) /\ S \subseteq DOMAIN v
  BY ReadType
<1>4. IsFiniteSet(R) /\ R \subseteq DOMAIN v
  <2> HIDE DEF S
  <2> QED BY <1>3, FS_RemoveElement
<1>5. \A j \in DOMAIN v : /\ x[j] = Len(v[j].parts) /\ x[j] \in Int
                          /\ w[j] = Len(u[j].parts) /\ w[j] \in Int
  <2>1. \A j \in DOMAIN u : w[j] = Len(u[j].parts) /\ w[j] \in Int
    BY ReadType
  <2>2. \A j \in DOMAIN v : x[j] = Len(v[j].parts) /\ x[j] \in Int
    BY ReadType
  <2> HIDE DEF w, x
  <2> QED BY <1>1, <2>1, <2>2
<1>6. i \in S <=> fd = KeyOf(v, p, s, i)
  BY DEF Mine
<1> HIDE DEF S, w, x
<1>7. SumOver(w, R) = SumOver(x, R) /\ SumOver(x, R) \in Int
  <2>1. \A j \in R : x[j] \in Int /\ x[j] = w[j]
    BY <1>4, <1>5 DEF OneChanged
  <2> HIDE DEF R
  <2>2. SumOver(x, R) = SumOver(w, R)
    BY <1>4, <2>1, SumEqual
  <2>3. SumOver(x, R) \in Int
    BY <1>4, <2>1, SumType
  <2> QED BY <2>2, <2>3
<1>8. ReadIn(u, p, s, fd) = SumOver(w, S) /\ ReadIn(v, p, s, fd) = SumOver(x, S)
  BY <1>2 DEF ReadIn, S, w, x
<1>9. CASE i \in S
  <2>1. (\A j \in S : w[j] \in Int) /\ \A j \in S : x[j] \in Int
    BY <1>3, <1>5
  <2>2. SumOver(w, S) = w[i] + SumOver(w, R)
    BY <1>3, <1>9, <2>1, SumRemove
  <2>3. SumOver(x, S) = x[i] + SumOver(x, R)
    BY <1>3, <1>9, <2>1, SumRemove
  <2>4. w[i] = Len(u[i].parts) /\ x[i] = Len(v[i].parts)
    BY <1>5
  <2> DEFINE a == w[i]
             b == x[i]
             t == SumOver(x, R)
             k == SumOver(w, S)
             l == SumOver(x, S)
  <2>5. a \in Int /\ b \in Int /\ t \in Int /\ k = a + t /\ l = b + t
    BY <1>5, <1>7, <2>2, <2>3
  <2> HIDE DEF R, a, b, t, k, l
  <2>6. SumOver(w, S) = SumOver(x, S) + Growth(v, u, i)
    <3>1. Growth(v, u, i) = a - b
      BY <2>4 DEF Growth, a, b
    <3>2. k = l + (a - b)
      BY <2>5
    <3> QED BY <3>1, <3>2 DEF k, l
  <2> QED BY <1>6, <1>8, <1>9, <2>6
<1>10. CASE i \notin S
  <2>1. R = S
    BY <1>10
  <2> QED BY <1>6, <1>7, <1>8, <1>10, <2>1
<1> QED BY <1>9, <1>10

\* An element is gone, and with it what it has read.
OneLess(u, v, i) ==
    /\ Len(u) = Len(v) + 1
    /\ \A j \in DOMAIN v :
          LET k == IF j < i THEN j ELSE j + 1
          IN  v[j].fd = u[k].fd /\ v[j].parts = u[k].parts

LEMMA ReadErase ==
    ASSUME NEW u, Countable(u), NEW v, Countable(v), NEW i \in DOMAIN u, OneLess(u, v, i),
           NEW p, NEW s, NEW fd
    PROVE  ReadIn(v, p, s, fd) =
             IF fd = KeyOf(u, p, s, i) THEN ReadIn(u, p, s, fd) - Len(u[i].parts)
                                       ELSE ReadIn(u, p, s, fd)
<1> DEFINE S == Mine(v, p, s, fd)
           T == Mine(u, p, s, fd)
           R == T \ {i}
           n == Len(v)
           f == [j \in S |-> IF j < i THEN j ELSE j + 1]
           w == Lens(u)
           x == Lens(v)
<1>1. DOMAIN v = 1..n /\ DOMAIN u = 1..n + 1 /\ n \in Nat /\ i \in 1..n + 1
  BY DEF Countable, OneLess
<1>2. IsFiniteSet(S) /\ S \subseteq 1..n /\ IsFiniteSet(T) /\ T \subseteq 1..n + 1
  BY <1>1, ReadType
<1>3. \A j \in 1..n : j \in S <=> KeyOf(u, p, s, IF j < i THEN j ELSE j + 1) = fd
  BY <1>1 DEF Mine, KeyOf, OneLess
<1>4. \A k \in 1..n + 1 : k \in T <=> KeyOf(u, p, s, k) = fd
  BY <1>1 DEF Mine
<1>5. \A j \in 1..n : x[j] \in Int /\ x[j] = w[IF j < i THEN j ELSE j + 1]
  <2>1. \A j \in DOMAIN v : x[j] = Len(v[j].parts) /\ x[j] \in Int
    BY ReadType
  <2>2. \A j \in DOMAIN u : w[j] = Len(u[j].parts) /\ w[j] \in Int
    BY ReadType
  <2>3. \A j \in DOMAIN v : (IF j < i THEN j ELSE j + 1) \in DOMAIN u
    BY <1>1
  <2> HIDE DEF w, x, n
  <2> QED BY <1>1, <2>1, <2>2, <2>3 DEF OneLess
<1>6. \A k \in 1..n + 1 : w[k] = Len(u[k].parts) /\ w[k] \in Int
  BY <1>1, ReadType
<1> HIDE DEF n, w, x, S, T
<1>7. f \in [S -> R] /\ \A j, k \in S : f[j] = f[k] => j = k
  <2>1. \A j \in S : f[j] = (IF j < i THEN j ELSE j + 1) /\ f[j] \in 1..n + 1 /\ f[j] # i
    BY <1>1, <1>2
  <2>2. \A j \in S : f[j] \in T
    BY <1>1, <1>2, <1>3, <1>4, <2>1
  <2>3. \A j, k \in S : f[j] = f[k] => j = k
    BY <1>1, <1>2, <2>1
  <2> QED BY <2>1, <2>2, <2>3
<1>8. ASSUME NEW k \in R PROVE \E j \in S : f[j] = k
  <2> DEFINE j == IF k < i THEN k ELSE k - 1
  <2>1. j \in 1..n /\ (IF j < i THEN j ELSE j + 1) = k
    BY <1>1, <1>2
  <2> HIDE DEF j
  <2>2. j \in S
    BY <1>2, <1>3, <1>4, <2>1
  <2> QED BY <2>1, <2>2
<1>9. \A j \in S : x[j] \in Int /\ x[j] = w[f[j]]
  BY <1>2, <1>5
<1>10. SumOver(x, S) = SumOver(w, R)
  <2> HIDE DEF f, R
  <2>1. /\ \A a, b \in S : f[a] = f[b] => a = b
        /\ \A k \in R : \E a \in S : f[a] = k
    BY <1>7, <1>8
  <2>2. f \in [S -> R] /\ IsFiniteSet(S)
    BY <1>2, <1>7
  <2> QED BY <1>9, <2>1, <2>2, SumRename
<1>11. ReadIn(v, p, s, fd) = SumOver(x, S) /\ ReadIn(u, p, s, fd) = SumOver(w, T)
  BY DEF ReadIn, S, T, w, x
<1>12. CASE i \in T
  <2>1. \A k \in T : w[k] \in Int
    BY <1>2, <1>6
  <2>2. SumOver(w, T) = w[i] + SumOver(w, R)
    BY <1>2, <1>12, <2>1, SumRemove
  <2>3. SumOver(x, S) \in Int
    BY <1>11, ReadType
  <2>4. w[i] = Len(u[i].parts) /\ w[i] \in Int
    BY <1>1, <1>6
  <2>5. fd = KeyOf(u, p, s, i)
    BY <1>1, <1>4, <1>12
  <2> HIDE DEF R
  <2> QED BY <1>10, <1>11, <2>2, <2>3, <2>4, <2>5
<1>13. CASE i \notin T
  <2>1. R = T
    BY <1>13
  <2>2. fd # KeyOf(u, p, s, i)
    BY <1>1, <1>4, <1>13
  <2> QED BY <1>10, <1>11, <2>1, <2>2
<1> QED BY <1>12, <1>13

\* What no element has, or only one has, read.
LEMMA ReadNone ==
    ASSUME NEW v, NEW p, NEW s, NEW fd, \A i \in DOMAIN v : KeyOf(v, p, s, i) # fd
    PROVE  ReadIn(v, p, s, fd) = 0
<1>1. Mine(v, p, s, fd) = {}
  BY DEF Mine
<1> QED BY <1>1, SumEmpty DEF ReadIn

LEMMA ReadOne ==
    ASSUME NEW v, Countable(v), NEW p, NEW s, NEW i \in DOMAIN v,
           \A j \in DOMAIN v : KeyOf(v, p, s, j) = KeyOf(v, p, s, i) => j = i
    PROVE  ReadIn(v, p, s, KeyOf(v, p, s, i)) = Len(v[i].parts)
<1> DEFINE S == {i}
           w == Lens(v)
<1>1. Mine(v, p, s, KeyOf(v, p, s, i)) = S
  BY DEF Mine
<1>2. w[i] = Len(v[i].parts) /\ w[i] \in Int
  BY DEF Lens, Countable
<1>3. IsFiniteSet(S) /\ i \in S /\ S \ {i} = {} /\ \A j \in S : w[j] \in Int
  BY <1>2, FS_Singleton
<1> HIDE DEF S, w
<1>4. SumOver(w, S) = w[i] + SumOver(w, {})
  BY <1>3, SumRemove
<1>5. SumOver(w, S) = w[i]
  BY <1>2, <1>4, SumEmpty
<1> QED BY <1>1, <1>2, <1>5 DEF ReadIn, w

------------------------------------------------------------------------------
(* The requests and the answers.                                            *)

Request == Seq(Nat \cup {Word})

\* What an element has read: nothing, or a request put together of messages
\* whose last sender is the one it answers.
RequestOf(e) ==
    /\ e.second \in Request
    /\ e.parts \in Seq(Senders)
    /\ e.parts = << >> => e.second = << >>
    /\ e.parts # << >> => e.remote = Last(e.parts)

RequestInv ==
    /\ \A i \in Elements : RequestOf(active_sockets[i])
    /\ main = "reply" => This.second # << >>

AnswerInv ==
    \/ answer = None
    \/ /\ answer.req \in Request
       /\ answer.resp = create_response(answer.req)
       /\ proto = "udp" => answer.to = Last(answer.parts)

\* An element that is moved keeps what it has read (base_socket.h:24-41).
LEMMA MovedRequest ==
    ASSUME NEW e, DOMAIN e = Fields
    PROVE  /\ Moved(e).fd = e.fd /\ Moved(e).parts = e.parts
           /\ RequestOf(e) => RequestOf(Moved(e))
<1>1. /\ Moved(e).fd = e.fd /\ Moved(e).parts = e.parts
      /\ Moved(e).second = e.second /\ Moved(e).remote = e.remote
  BY DEF Moved, Fields
<1> QED BY <1>1 DEF RequestOf

\* The elements that emplace_back leaves are as before, the new one is empty.
LEMMA EmplaceRequest ==
    ASSUME VectorInv, NEW fd, emplace_back(fd), \A i \in Elements : RequestOf(active_sockets[i])
    PROVE  /\ \A i \in Elements : /\ active_sockets'[i].fd = active_sockets[i].fd
                                  /\ active_sockets'[i].parts = active_sockets[i].parts
           /\ active_sockets'[Len(active_sockets')].parts = << >>
           /\ \A i \in DOMAIN active_sockets' : RequestOf(active_sockets'[i])
           /\ DOMAIN active_sockets' = 1..Len(active_sockets')
           /\ Len(active_sockets') = Len(active_sockets) + 1
<1> DEFINE n == Len(active_sockets)
           v == active_sockets'
           e == [own |-> TRUE, fd |-> fd, remote |-> 0, second |-> << >>, parts |-> << >>]
           grows == n = capacity
           old == IF grows THEN [i \in Elements |-> Moved(active_sockets[i])]
                           ELSE active_sockets
           S == Range(old) \cup {e}
<1>1. n \in Nat /\ Elements = 1..n
  BY SequenceOf DEF VectorInv, IsSequence, Elements
<1>2. DOMAIN old = 1..n /\ old = [i \in 1..n |-> old[i]] /\ IsSequence(old) /\ Len(old) = n
  <2>1. CASE grows
    <3>1. DOMAIN old = 1..n /\ old = [i \in 1..n |-> old[i]]
      BY <1>1, <2>1
    <3> HIDE DEF old, n
    <3> QED BY <1>1, <3>1, FunctionSequence
  <2>2. CASE ~grows
    BY <1>1, <2>2 DEF VectorInv, IsSequence, Elements
  <2> QED BY <2>1, <2>2
<1>3. v = Append(old, e)
  BY DEF emplace_back
<1>4. ASSUME NEW i \in 1..n
      PROVE  /\ old[i].fd = active_sockets[i].fd
             /\ old[i].parts = active_sockets[i].parts
             /\ RequestOf(old[i])
  <2>1. DOMAIN active_sockets[i] = Fields /\ RequestOf(active_sockets[i])
    BY <1>1 DEF VectorInv
  <2>2. old[i] = active_sockets[i] \/ old[i] = Moved(active_sockets[i])
    BY <1>1
  <2> HIDE DEF old
  <2> QED BY <2>1, <2>2, MovedRequest
<1>5. RequestOf(e) /\ e.parts = << >>
  BY DEF RequestOf, Request
<1> HIDE DEF old, e, v
<1>6. old \in Seq(S) /\ e \in S
  BY <1>2 DEF IsSequence
<1> HIDE DEF S, n
<1>7. /\ DOMAIN v = 1..n + 1 /\ Len(v) = n + 1 /\ v[n + 1] = e
      /\ \A i \in 1..n : v[i] = old[i]
  BY <1>1, <1>2, <1>3, <1>6
<1>8. \A i \in 1..n + 1 : i = n + 1 \/ i \in 1..n
  BY <1>1
<1>9. \A i \in 1..n + 1 : RequestOf(v[i])
  BY <1>4, <1>5, <1>7, <1>8
<1> QED BY <1>1, <1>4, <1>5, <1>7, <1>9 DEF v, n

\* The elements that erase leaves are as before.
LEMMA EraseRequest ==
    ASSUME VectorInv, \A i \in Elements : RequestOf(active_sockets[i]), NEW i \in Elements
    PROVE  /\ DOMAIN Without(i) = 1..Len(Without(i))
           /\ Len(active_sockets) = Len(Without(i)) + 1
           /\ \A j \in DOMAIN Without(i) :
                 LET k == IF j < i THEN j ELSE j + 1
                 IN  /\ Without(i)[j].fd = active_sockets[k].fd
                     /\ Without(i)[j].parts = active_sockets[k].parts
                     /\ RequestOf(Without(i)[j])
<1> DEFINE n == Len(active_sockets)
           v == Without(i)
<1>1. n \in Nat /\ Elements = 1..n /\ i \in 1..n
  BY SequenceOf DEF VectorInv, IsSequence, Elements
<1>2. DOMAIN v = 1..n - 1 /\ Len(v) = n - 1 /\ Len(v) \in Nat
  BY EraseElement
<1>3. ASSUME NEW j \in 1..n - 1
      PROVE  LET k == IF j < i THEN j ELSE j + 1
             IN  /\ v[j].fd = active_sockets[k].fd
                 /\ v[j].parts = active_sockets[k].parts
                 /\ RequestOf(v[j])
  <2> DEFINE k == IF j < i THEN j ELSE j + 1
  <2>1. k \in Elements
    BY <1>1
  <2>2. v[j] = active_sockets[k] \/ v[j] = Moved(active_sockets[k])
    BY DEF Without
  <2> HIDE DEF k, v
  <2>3. DOMAIN active_sockets[k] = Fields /\ RequestOf(active_sockets[k])
    BY <2>1 DEF VectorInv
  <2> QED BY <2>2, <2>3, MovedRequest DEF k
<1> HIDE DEF v, n
<1>4. n = Len(v) + 1
  BY <1>1, <1>2
<1> QED BY <1>2, <1>3, <1>4 DEF v, n

\* The element that recv() has filled holds a request of one message more.
LEMMA RecvRequest ==
    ASSUME VectorInv, RequestInv, BufferInv, RecvData, FdOf(This) \in Fds
    PROVE  /\ it \in Elements /\ DOMAIN active_sockets' = Elements
           /\ \A j \in Elements : j # it => active_sockets'[j] = active_sockets[j]
           /\ RequestOf(active_sockets'[it])
           /\ active_sockets'[it].fd = This.fd
           /\ Len(active_sockets'[it].parts) = Len(This.parts) + 1
<1> USE AppAssumption
<1> DEFINE m == Head(inbox[FdOf(This)])
           e == [This EXCEPT !.remote = m.from, !.second = Join(@, m.req),
                             !.parts = Append(@, m.from)]
<1>1. /\ m \in Message /\ it \in Elements
      /\ active_sockets' = [active_sockets EXCEPT ![it] = e]
      /\ DOMAIN e = Fields /\ e.fd = This.fd /\ e.second = Join(This.second, m.req)
  BY RecvElement
<1>2. DOMAIN This = Fields /\ RequestOf(This)
  BY <1>1 DEF VectorInv, RequestInv, This
<1>3. e.parts = Append(This.parts, m.from) /\ e.remote = m.from
  BY <1>2 DEF Fields
<1>4. m.from \in Senders /\ m.req \in Request
  BY <1>1 DEF Message, Request
<1>5. DOMAIN active_sockets' = Elements /\ active_sockets'[it] = e
      /\ \A j \in Elements : j # it => active_sockets'[j] = active_sockets[j]
  BY <1>1 DEF Elements
<1> HIDE DEF e, m
<1>6. This.second \in Request /\ This.parts \in Seq(Senders)
  BY <1>2 DEF RequestOf
<1>7. e.second \in Request
  BY <1>1, <1>4, <1>6, JoinType DEF Request
<1>8. /\ e.parts \in Seq(Senders) /\ e.parts # << >> /\ Last(e.parts) = m.from
      /\ Len(e.parts) = Len(This.parts) + 1
  <2>1. /\ Append(This.parts, m.from) \in Seq(Senders)
        /\ Len(Append(This.parts, m.from)) = Len(This.parts) + 1
        /\ Append(This.parts, m.from)[Len(This.parts) + 1] = m.from
        /\ Len(This.parts) \in Nat
    BY <1>4, <1>6
  <2>2. e.parts # << >>
    <3>1. Len(e.parts) # 0 /\ Len(<< >>) = 0
      BY <1>3, <2>1
    <3> QED BY <3>1
  <2> QED BY <1>3, <2>1, <2>2 DEF Last
<1>9. RequestOf(e)
  BY <1>3, <1>7, <1>8 DEF RequestOf
<1> QED BY <1>1, <1>5, <1>8, <1>9

\* The element that has been answered starts a new request.
LEMMA AnsweredRequest ==
    ASSUME VectorInv, it \in Elements,
           active_sockets' = [active_sockets EXCEPT ![it].second = << >>, ![it].parts = << >>]
    PROVE  /\ DOMAIN active_sockets' = Elements
           /\ \A j \in Elements : j # it => active_sockets'[j] = active_sockets[j]
           /\ RequestOf(active_sockets'[it])
           /\ active_sockets'[it].fd = This.fd
           /\ active_sockets'[it].parts = << >>
<1> DEFINE e == [This EXCEPT !.second = << >>, !.parts = << >>]
<1>1. DOMAIN This = Fields
  BY DEF VectorInv, This
<1>2. active_sockets' = [active_sockets EXCEPT ![it] = e]
  BY <1>1 DEF This, Fields, Elements
<1>3. e.fd = This.fd /\ e.second = << >> /\ e.parts = << >>
  BY <1>1 DEF Fields
<1> HIDE DEF e
<1>4. RequestOf(e)
  BY <1>3 DEF RequestOf, Request
<1>5. DOMAIN active_sockets' = Elements /\ active_sockets'[it] = e
      /\ \A j \in Elements : j # it => active_sockets'[j] = active_sockets[j]
  BY <1>2 DEF Elements
<1> QED BY <1>3, <1>4, <1>5

\* Every step keeps RequestInv (server_main.cpp:122-147).
LEMMA RequestStep ==
    ASSUME AppInv, RequestInv, [Next]_vars
    PROVE  RequestInv'
<1> USE ServerAssumption, AppAssumption
<1>1. /\ ServerTypeOK /\ ObsInv /\ HandlersInv /\ VectorInv /\ ControlInv /\ SocketInv
      /\ BufferInv
  BY DEF AppInv
<1>2. \A i \in Elements : RequestOf(active_sockets[i])
  BY DEF RequestInv
<1>3. Elements = 1..Len(active_sockets)
  BY <1>1, SequenceOf DEF VectorInv, IsSequence, Elements
<1>4. ASSUME UNCHANGED active_sockets, main' = "reply" => main = "reply" /\ UNCHANGED it
      PROVE  RequestInv'
  BY <1>4 DEF RequestInv, Elements, This
<1>5. ASSUME \A i \in DOMAIN active_sockets' : RequestOf(active_sockets'[i]), main' # "reply"
      PROVE  RequestInv'
  BY <1>5 DEF RequestInv, Elements
<1>6. ASSUME \/ Booting \/ CallProceed \/ Network \/ Signal
             \/ Leave /\ proto = "tcp"
             \/ UNCHANGED vars
             \/ InEndpoint(Controller) /\ UNCHANGED <<ioVars, appVars>>
             \/ Accepts(Controller) \/ EraseUndefined(Controller)
             \/ BeginScan \/ EndScan \/ ScanUndefined \/ RecvEof \/ ResponseThrows
             \/ SendKills
      PROVE  RequestInv'
  <2>1. UNCHANGED active_sockets /\ (main' = "reply" => main = "reply" /\ UNCHANGED it)
    BY <1>6 DEF Booting, CallProceed, At, Network, Arrival, Counts, Signal, Leave, Accepts,
         EraseUndefined, BeginScan, EndScan, ScanUndefined, RecvEof, Dereferences,
         ResponseThrows, SendKills, appVars, vars
  <2> QED BY <1>4, <2>1
<1>7. CASE OnConn(Controller) \/ OnConnUdp(Controller)
  <2>1. main' = main /\ \E fd : emplace_back(fd)
    BY <1>7 DEF OnConn, OnConnUdp
  <2>2. \A i \in DOMAIN active_sockets' : RequestOf(active_sockets'[i])
    BY <1>1, <1>2, <2>1, EmplaceRequest
  <2>3. main # "reply"
    BY <1>1, <1>7 DEF ControlInv, OnConn, HandsOver, OnConnUdp, HandsOverRef, HandlerLocks
  <2> QED BY <1>5, <2>1, <2>2, <2>3
<1>8. CASE EraseActiveSocket(Controller)
  <2>1. main' = main /\ main # "reply"
    BY <1>1, <1>8 DEF EraseActiveSocket, CallsErase, InErase, ControlInv
  <2>2. CASE Matches(Controller) = {}
    <3>1. UNCHANGED active_sockets
      BY <1>8, <2>2 DEF EraseActiveSocket
    <3> QED BY <1>4, <2>1, <3>1
  <2>3. CASE Matches(Controller) # {}
    <3> DEFINE i == CHOOSE i \in Matches(Controller) : TRUE
    <3>1. i \in Elements
      BY <2>3 DEF Matches
    <3>2. active_sockets' = Without(i)
      BY <1>8, <2>3 DEF EraseActiveSocket
    <3> HIDE DEF i
    <3>3. \A j \in DOMAIN Without(i) : RequestOf(Without(i)[j])
      BY <1>1, <1>2, <3>1, EraseRequest
    <3> QED BY <1>5, <2>1, <3>2, <3>3
  <2> QED BY <2>2, <2>3
<1>9. CASE RecvData
  <2>1. main = "scan" /\ it <= Len(active_sockets) /\ main' = main
    BY <1>9 DEF RecvData, Dereferences
  <2>2. FdOf(This) \in Fds
    BY <1>1, <2>1, Dereferenced
  <2>3. /\ it \in Elements /\ DOMAIN active_sockets' = Elements
        /\ \A j \in Elements : j # it => active_sockets'[j] = active_sockets[j]
        /\ RequestOf(active_sockets'[it])
    BY <1>1, <1>9, <2>2, RecvRequest
  <2> QED BY <1>2, <1>5, <2>1, <2>3
<1>10. CASE RecvEnds
  <2>1. UNCHANGED active_sockets /\ main = "scan"
        /\ (main' = "reply" => This.second # << >> /\ it' = it)
    BY <1>10 DEF RecvEnds, Dereferences
  <2> QED BY <2>1 DEF RequestInv, Elements, This
<1>11. CASE Answered \/ ReplyFails
  <2>1. main = "reply" /\ main' = "scan"
    BY <1>11 DEF Answered, ReplyFails, At
  <2>2. it \in Elements
    BY <1>1, <2>1, Dereferenced
  <2>3. CASE active_sockets' = Without(it)
    <3>1. \A j \in DOMAIN Without(it) : RequestOf(Without(it)[j])
      BY <1>1, <1>2, <2>2, EraseRequest
    <3> QED BY <1>5, <2>1, <2>3, <3>1
  <2>4. CASE active_sockets' =
               [active_sockets EXCEPT ![it].second = << >>, ![it].parts = << >>]
    <3>1. /\ DOMAIN active_sockets' = Elements
          /\ \A j \in Elements : j # it => active_sockets'[j] = active_sockets[j]
          /\ RequestOf(active_sockets'[it])
      BY <1>1, <2>2, <2>4, AnsweredRequest
    <3> QED BY <1>2, <1>5, <2>1, <3>1
  <2> QED BY <1>11, <2>3, <2>4 DEF Answered, ReplyFails
<1>12. CASE Leave /\ proto # "tcp"
  <2>1. main' = "done" /\ active_sockets' \in {active_sockets, << >>}
    BY <1>12 DEF Leave, At
  <2>2. CASE active_sockets' = << >>
    BY <1>5, <2>1, <2>2
  <2>3. CASE active_sockets' = active_sockets
    BY <1>4, <2>1, <2>3
  <2> QED BY <2>1, <2>2, <2>3
<1> QED BY <1>6, <1>7, <1>8, <1>9, <1>10, <1>11, <1>12
        DEF Next, Main, InProceed, Scan, Reply

\* Every step keeps AnswerInv: only an answer that was sent is recorded
\* (server_main.cpp:130-148, accepted_sock_ref.h:60-86).
LEMMA AnswerStep ==
    ASSUME AppInv, RequestInv, AnswerInv, [Next]_vars
    PROVE  AnswerInv'
<1> USE ServerAssumption, AppAssumption
<1>1. ServerTypeOK /\ VectorInv /\ ControlInv
  BY DEF AppInv
<1>2. CASE Answered
  <2>1. main = "reply" /\ answer' = Answer /\ UNCHANGED proto
    BY <1>2 DEF Answered, At, endpointVars, serverVars
  <2>2. it \in Elements
    BY <1>1, <2>1, Dereferenced
  <2>3. RequestOf(This) /\ This.second # << >>
    BY <2>1, <2>2 DEF RequestInv, This
  <2>4. This.second \in Request /\ This.remote = Last(This.parts)
    BY <2>3 DEF RequestOf
  <2>5. /\ answer'.to = This.remote /\ answer'.parts = This.parts
        /\ answer'.req = This.second /\ answer'.resp = create_response(This.second)
    BY <2>1 DEF Answer
  <2> QED BY <2>1, <2>4, <2>5 DEF AnswerInv
<1>3. CASE ~Answered
  <2>1. answer' \in {answer, None} /\ UNCHANGED proto
    BY <1>3 DEF Next, Main, Booting, Start, InStart, RegisterCb, Listen, CallProceed, Poll,
         InProceed, InEndpoint, HandlerIgnores, AcceptFails, HandlerErases, Accepts, Accept,
         Counts, OnConn, HandsOver, OnConnUdp, HandsOverRef, EraseActiveSocket, CallsErase,
         EraseUndefined, Scan, BeginScan, EndScan, ScanUndefined, RecvData, RecvEof, RecvEnds,
         Reply, ResponseThrows, ReplyFails, SendKills, Leave, Destroys, Signal, Network,
         PeerConnects, Arrival, DatagramArrives, endpointVars, serverVars, appVars, vars
  <2>2. None' = None
    BY DEF None
  <2> QED BY <2>1, <2>2 DEF AnswerInv
<1> QED BY <1>2, <1>3

\* The answer of the last request is the one the service gives: create_response
\* is right for every request, and what reply has read are whole messages.
LEMMA RightAnswer ==
    AnswerInv => AnswerIsRight
<1> SUFFICES ASSUME AnswerInv, answer # None PROVE /\ IsAnswer(answer.req, answer.resp)
                                                   /\ proto = "udp" => answer.to = Last(answer.parts)
  BY DEF AnswerIsRight
<1>1. answer.req \in Request /\ answer.resp = create_response(answer.req)
      /\ (proto = "udp" => answer.to = Last(answer.parts))
  BY DEF AnswerInv
<1>2. Word \in Int
  BY DEF Word
<1>3. Request \subseteq Seq(Int)
  BY <1>2 DEF Request
<1>4. IsAnswer(answer.req, create_response(answer.req))
  BY <1>1, <1>3, ResponseIsAnswer
<1> QED BY <1>1, <1>4

\* What a client gets is the sorted numbers of what it sent and their sum, for
\* any requests split into any messages, and over UDP only the sender of the
\* last of them gets it (service.cpp:31-52, server_main.cpp:122-148,
\* accepted_sock_ref.h:60-86).
THEOREM AnswersAreRight ==
    Spec => []AnswerIsRight
<1> DEFINE Inv == AppInv /\ CrowdInv /\ RequestInv /\ AnswerInv
<1>1. Init => Inv
  <2> SUFFICES ASSUME Init PROVE Inv
    OBVIOUS
  <2>1. active_sockets = << >> /\ main = "poll" /\ answer = None
    BY DEF Init
  <2>2. RequestInv /\ AnswerInv
    BY <2>1 DEF RequestInv, AnswerInv, Elements
  <2> QED BY <2>2, AppInit
<1>2. Inv /\ [Next]_vars => Inv'
  BY AppStep, RequestStep, AnswerStep
<1>3. Inv => AnswerIsRight
  BY RightAnswer
<1> QED BY <1>1, <1>2, <1>3, PTL DEF Spec

------------------------------------------------------------------------------
(* The messages.                                                            *)

\* AnsweredOnce, with the sum that the lemmas on ReadIn are about.
OwedInv ==
    /\ owed \in [Fds -> Int]
    /\ \A fd \in Fds :
          owed[fd] = Len(inbox[fd]) + ReadIn(active_sockets, proto, state.fd, fd)

LEMMA SameRead ==
    \A fd : InRequests(fd) = ReadIn(active_sockets, proto, state.fd, fd)
BY DEF InRequests, Read, ReadIn, SumOver, Lens, Mine, KeyOf, FdOf, Elements

LEMMA SameLength ==
    ASSUME NEW u, Countable(u), NEW v, Countable(v), DOMAIN u = DOMAIN v
    PROVE  Len(u) = Len(v)
<1> DEFINE a == Len(u)
           b == Len(v)
<1>1. a \in Nat /\ b \in Nat /\ 1..a = 1..b
  BY DEF Countable
<1> HIDE DEF a, b
<1>2. (b = 0 \/ b \in 1..a) /\ (a = 0 \/ a \in 1..b)
  BY <1>1
<1>3. a = b
  BY <1>1, <1>2
<1> QED BY <1>3, Zenon DEF a, b

\* A vector whose elements hold requests can be counted.
LEMMA RequestsCount ==
    ASSUME NEW v, IsSequence(v), \A i \in DOMAIN v : RequestOf(v[i])
    PROVE  Countable(v)
<1>1. DOMAIN v = 1..Len(v) /\ Len(v) \in Nat
  BY SequenceOf DEF IsSequence
<1>2. \A i \in DOMAIN v : Len(v[i].parts) \in Nat
  <2>1. \A i \in DOMAIN v : v[i].parts \in Seq(Senders)
    BY DEF RequestOf
  <2> QED BY <2>1
<1> QED BY <1>1, <1>2 DEF Countable

\* An element is erased: with its connection, whose messages are forgotten, or
\* without its socket, and then its messages are accounted for
\* (server_main.cpp:44-57, 130-147).
LEMMA OwedErase ==
    ASSUME BufferInv, VectorInv, RequestInv, OwedInv, VectorInv', RequestInv',
           NEW i \in Elements, active_sockets' = Without(i), UNCHANGED <<proto, state>>,
           LET fd == FdOf(active_sockets[i])
           IN  /\ fd \in Fds
               /\ \/ /\ proto = "tcp"
                     /\ Forget({fd})
                     /\ owed' = [owed EXCEPT ![fd] = 0]
                  \/ /\ inbox' = inbox
                     /\ owed' = [owed EXCEPT ![fd] = @ - Len(active_sockets[i].parts)]
    PROVE  OwedInv'
<1> DEFINE key == FdOf(active_sockets[i])
           u == active_sockets
           v == active_sockets'
           p == proto
           s == state.fd
           n == Len(active_sockets[i].parts)
<1>1. /\ \A j \in Elements : RequestOf(active_sockets[j])
      /\ \A j \in Elements' : RequestOf(active_sockets'[j])
      /\ IsSequence(active_sockets) /\ IsSequence(active_sockets')
  BY DEF RequestInv, VectorInv
<1>2. Countable(u) /\ Countable(v)
  BY <1>1, RequestsCount DEF Elements
<1>3. i \in DOMAIN u /\ OneLess(u, v, i)
  BY <1>1, EraseRequest DEF Elements, OneLess
<1>4. key = KeyOf(u, p, s, i) /\ key \in Fds
  BY DEF KeyOf, FdOf
<1>5. p = "tcp" => \A j \in DOMAIN u : KeyOf(u, p, s, j) = key => j = i
  BY <1>4 DEF VectorInv, KeyOf, Elements
<1>6. n \in Nat /\ s' = s /\ p' = p
  BY <1>2 DEF Countable, Elements
<1>7. ASSUME NEW fd \in Fds
      PROVE  /\ owed[fd] = Len(inbox[fd]) + ReadIn(u, p, s, fd) /\ owed[fd] \in Int
             /\ Len(inbox[fd]) \in Nat /\ ReadIn(u, p, s, fd) \in Int
             /\ ReadIn(v, p, s, fd) = IF fd = key THEN ReadIn(u, p, s, fd) - n
                                                  ELSE ReadIn(u, p, s, fd)
  <2>1. owed[fd] = Len(inbox[fd]) + ReadIn(u, p, s, fd) /\ owed[fd] \in Int
    BY DEF OwedInv
  <2>2. inbox[fd] \in Seq(Message)
    BY DEF BufferInv
  <2> HIDE DEF u, v, p, s, key
  <2>3. ReadIn(u, p, s, fd) \in Int
    BY <1>2, ReadType
  <2>4. ReadIn(v, p, s, fd) =
           IF fd = KeyOf(u, p, s, i) THEN ReadIn(u, p, s, fd) - Len(u[i].parts)
                                     ELSE ReadIn(u, p, s, fd)
    BY <1>2, <1>3, ReadErase
  <2> QED BY <1>4, <2>1, <2>2, <2>3, <2>4 DEF u
<1>8. ASSUME NEW fd \in Fds PROVE ReadIn(active_sockets', proto', state'.fd, fd) = ReadIn(v, p, s, fd)
  OBVIOUS
<1>9. CASE inbox' = inbox /\ owed' = [owed EXCEPT ![key] = @ - n]
  <2> HIDE DEF u, v, p, s, key, n
  <2>1. owed' \in [Fds -> Int]
    BY <1>4, <1>6, <1>9 DEF OwedInv
  <2>2. ASSUME NEW fd \in Fds PROVE owed'[fd] = Len(inbox'[fd]) + ReadIn(v, p, s, fd)
    <3>1. owed'[fd] = IF fd = key THEN owed[fd] - n ELSE owed[fd]
      BY <1>9 DEF OwedInv
    <3> QED BY <1>6, <1>7, <1>9, <3>1
  <2> QED BY <1>8, <2>1, <2>2 DEF OwedInv
<1>10. CASE p = "tcp" /\ Forget({key}) /\ owed' = [owed EXCEPT ![key] = 0]
  <2> HIDE DEF u, v, p, s, key
  <2>1. owed' \in [Fds -> Int]
    BY <1>4, <1>10 DEF OwedInv
  <2>2. ReadIn(u, p, s, key) = Len(u[i].parts)
    <3>1. \A j \in DOMAIN u : KeyOf(u, p, s, j) = KeyOf(u, p, s, i) => j = i
      BY <1>4, <1>5, <1>10
    <3>2. ReadIn(u, p, s, KeyOf(u, p, s, i)) = Len(u[i].parts)
      BY <1>2, <1>3, <3>1, ReadOne
    <3> QED BY <1>4, <3>2
  <2>3. ASSUME NEW fd \in Fds PROVE owed'[fd] = Len(inbox'[fd]) + ReadIn(v, p, s, fd)
    <3>1. owed'[fd] = IF fd = key THEN 0 ELSE owed[fd]
      BY <1>10 DEF OwedInv
    <3>2. inbox'[fd] = IF fd = key THEN << >> ELSE inbox[fd]
      BY <1>10 DEF Forget
    <3>3. n = Len(u[i].parts)
      BY DEF u
    <3> HIDE DEF n
    <3> QED BY <1>6, <1>7, <2>2, <3>1, <3>2, <3>3
  <2> QED BY <1>8, <2>1, <2>3 DEF OwedInv
<1> QED BY <1>9, <1>10

\* An element reads a message of its descriptor, or is answered and starts anew.
LEMMA OwedChange ==
    ASSUME BufferInv, VectorInv, RequestInv, OwedInv, VectorInv', RequestInv',
           NEW i \in Elements, DOMAIN active_sockets' = Elements,
           \A j \in Elements : j # i => active_sockets'[j] = active_sockets[j],
           active_sockets'[i].fd = active_sockets[i].fd, UNCHANGED <<proto, state>>,
           LET fd == FdOf(active_sockets[i])
           IN  /\ fd \in Fds
               /\ \/ /\ inbox[fd] # << >>
                     /\ inbox' = [inbox EXCEPT ![fd] = Tail(@)]
                     /\ Len(active_sockets'[i].parts) = Len(active_sockets[i].parts) + 1
                     /\ owed' = owed
                  \/ /\ inbox' = inbox
                     /\ active_sockets'[i].parts = << >>
                     /\ owed' = [owed EXCEPT ![fd] = @ - Len(active_sockets[i].parts)]
    PROVE  OwedInv'
<1> DEFINE key == FdOf(active_sockets[i])
           v == active_sockets
           u == active_sockets'
           p == proto
           s == state.fd
           n == Len(active_sockets[i].parts)
           m == Len(active_sockets'[i].parts)
<1>1. /\ \A j \in Elements : RequestOf(active_sockets[j])
      /\ \A j \in Elements' : RequestOf(active_sockets'[j])
      /\ IsSequence(active_sockets) /\ IsSequence(active_sockets')
  BY DEF RequestInv, VectorInv
<1>2. Countable(u) /\ Countable(v)
  BY <1>1, RequestsCount DEF Elements
<1>3. i \in DOMAIN v /\ OneChanged(v, u, i)
  <2>1. i \in DOMAIN v /\ DOMAIN u = DOMAIN v
    BY DEF Elements
  <2>2. Len(u) = Len(v)
    BY <1>2, <2>1, SameLength
  <2> QED BY <2>1, <2>2 DEF Elements, OneChanged
<1>4. key = KeyOf(v, p, s, i) /\ key \in Fds
  BY DEF KeyOf, FdOf
<1>5. n \in Nat /\ m \in Nat
  BY <1>2 DEF Countable, Elements
<1>6. ASSUME NEW fd \in Fds
      PROVE  /\ owed[fd] = Len(inbox[fd]) + ReadIn(v, p, s, fd) /\ owed[fd] \in Int
             /\ inbox[fd] \in Seq(Message) /\ ReadIn(v, p, s, fd) \in Int
             /\ ReadIn(u, p, s, fd) = IF fd = key THEN ReadIn(v, p, s, fd) + m - n
                                                  ELSE ReadIn(v, p, s, fd)
  <2>1. owed[fd] = Len(inbox[fd]) + ReadIn(v, p, s, fd) /\ owed[fd] \in Int
    BY DEF OwedInv
  <2>2. inbox[fd] \in Seq(Message)
    BY DEF BufferInv
  <2> HIDE DEF u, v, p, s, key
  <2>3. ReadIn(v, p, s, fd) \in Int
    BY <1>2, ReadType
  <2>4. ReadIn(u, p, s, fd) =
           IF fd = KeyOf(v, p, s, i) THEN ReadIn(v, p, s, fd) + Growth(v, u, i)
                                     ELSE ReadIn(v, p, s, fd)
    BY <1>2, <1>3, ReadChange
  <2>5. Growth(v, u, i) = m - n
    BY DEF Growth, u, v
  <2> HIDE DEF n, m
  <2>6. ReadIn(v, p, s, fd) + (m - n) = ReadIn(v, p, s, fd) + m - n
    BY <1>5, <2>3
  <2> QED BY <1>4, <2>1, <2>2, <2>3, <2>4, <2>5, <2>6
<1>7. ASSUME NEW fd \in Fds PROVE ReadIn(active_sockets', proto', state'.fd, fd) = ReadIn(u, p, s, fd)
  OBVIOUS
<1>8. CASE /\ inbox' = inbox /\ m = 0
           /\ owed' = [owed EXCEPT ![key] = @ - n]
  <2> HIDE DEF u, v, p, s, key, n, m
  <2>1. owed' \in [Fds -> Int]
    BY <1>4, <1>5, <1>8 DEF OwedInv
  <2>2. ASSUME NEW fd \in Fds PROVE owed'[fd] = Len(inbox'[fd]) + ReadIn(u, p, s, fd)
    <3>1. owed'[fd] = IF fd = key THEN owed[fd] - n ELSE owed[fd]
      BY <1>8 DEF OwedInv
    <3>2. Len(inbox[fd]) \in Nat
      BY <1>6
    <3> QED BY <1>5, <1>6, <1>8, <3>1, <3>2
  <2> QED BY <1>7, <2>1, <2>2 DEF OwedInv
<1>9. CASE /\ inbox[key] # << >> /\ inbox' = [inbox EXCEPT ![key] = Tail(@)]
           /\ m = n + 1 /\ owed' = owed
  <2> HIDE DEF u, v, p, s, key, n, m
  <2>1. ASSUME NEW fd \in Fds PROVE owed'[fd] = Len(inbox'[fd]) + ReadIn(u, p, s, fd)
    <3>1. inbox'[fd] = IF fd = key THEN Tail(inbox[fd]) ELSE inbox[fd]
      BY <1>9 DEF BufferInv
    <3>2. inbox[fd] \in Seq(Message) /\ Len(inbox[fd]) \in Nat
      BY <1>6
    <3>3. \A t \in Seq(Message) : t # << >> => Len(Tail(t)) = Len(t) - 1
      OBVIOUS
    <3>4. fd = key => Len(inbox'[fd]) = Len(inbox[fd]) - 1
      BY <1>9, <3>1, <3>2, <3>3
    <3> QED BY <1>5, <1>6, <1>9, <3>1, <3>2, <3>4
  <2> QED BY <1>7, <1>9, <2>1 DEF OwedInv
<1>10. active_sockets'[i].parts = << >> => m = 0
  OBVIOUS
<1> QED BY <1>8, <1>9, <1>10

\* Every step keeps OwedInv (server_main.cpp:44-57, 122-147).
LEMMA OwedStep ==
    ASSUME AppInv, RequestInv, OwedInv, [Next]_vars
    PROVE  OwedInv'
<1> USE ServerAssumption, AppAssumption
<1>1. /\ ServerTypeOK /\ ObsInv /\ HandlersInv /\ VectorInv /\ ControlInv /\ SocketInv
      /\ BufferInv /\ BatchInv
  BY DEF AppInv
<1>2. VectorInv' /\ RequestInv'
  BY <1>1, VectorStep, RequestStep
<1>3. /\ proto \in {"tcp", "udp"} /\ state.fd \in Fds \cup {NoFd} /\ NoFd \notin Fds
      /\ KernelTypeOK /\ inbox \in [Fds -> Seq(Message)]
  BY <1>1 DEF ServerTypeOK, BufferInv, NoFd
<1>4. ASSUME UNCHANGED <<active_sockets, proto, inbox, owed>>, state'.fd = state.fd
      PROVE  OwedInv'
  BY <1>4 DEF OwedInv
<1>5. ASSUME \/ (RegisterCb \/ Listen) /\ Booting
             \/ CallProceed
             \/ InEndpoint(Controller) /\ UNCHANGED <<ioVars, appVars>>
             \/ EraseUndefined(Controller)
             \/ BeginScan \/ EndScan \/ ScanUndefined \/ RecvEof \/ RecvEnds
             \/ ResponseThrows \/ SendKills \/ Signal \/ UNCHANGED vars
             \/ PeerConnects /\ UNCHANGED <<ioVars, appVars>>
             \/ \E fd \in Fds : /\ \/ PeerCloses(fd) /\ UNCHANGED ioVars
                                   \/ UrgentArrives(fd) /\ UNCHANGED ioVars
                                   \/ PeerResets(fd) /\ Fails(fd)
                                /\ UNCHANGED <<endpointVars, appVars>>
      PROVE  OwedInv'
  <2>1. UNCHANGED <<active_sockets, proto, inbox, owed>>
    BY <1>5 DEF RegisterCb, Listen, Booting, CallProceed, Poll, InEndpoint, ObsStep,
         HandlerIgnores, AcceptFails, HandlerErases, EraseUndefined, BeginScan, EndScan,
         ScanUndefined, RecvEof, ReceivesEof, RecvEnds, WouldBlock, ReceivesError,
         ResponseThrows, SendKills, Signal, PeerConnects, Fails, endpointVars, serverVars,
         ioVars, appVars, vars
  <2>2. state'.fd = state.fd
    <3>1. CASE Listen
      <4>1. state' = [state EXCEPT !.kind = "listening"]
        BY <3>1 DEF Listen
      <4> QED BY <1>1, <4>1 DEF ServerTypeOK
    <3>2. CASE ~Listen
      BY <1>5, <3>2 DEF RegisterCb, Booting, CallProceed, Poll, InEndpoint, ObsStep,
           HandlerIgnores, AcceptFails, HandlerErases, EraseUndefined, BeginScan, EndScan,
           ScanUndefined, RecvEof, RecvEnds, ResponseThrows, SendKills, Signal, PeerConnects,
           endpointVars, serverVars, appVars, vars
    <3> QED BY <3>1, <3>2
  <2> QED BY <1>4, <2>1, <2>2
<1>6. CASE Start /\ Booting
  <2>1. active_sockets = << >> /\ UNCHANGED <<active_sockets, proto, inbox, owed>>
    BY <1>1, <1>6 DEF Start, Booting, ControlInv, ioVars, appVars
  <2>2. \A p, s, fd : ReadIn(active_sockets, p, s, fd) = 0
    <3>1. DOMAIN active_sockets = {}
      BY <2>1
    <3> QED BY <3>1, ReadNone
  <2> QED BY <2>1, <2>2 DEF OwedInv
<1>7. CASE OnConn(Controller) \/ OnConnUdp(Controller)
  <2>1. UNCHANGED <<proto, state, inbox, owed>> /\ \E fd : emplace_back(fd)
    BY <1>7 DEF OnConn, HandsOver, OnConnUdp, HandsOverRef, ioVars, serverVars
  <2> DEFINE v == active_sockets
             u == active_sockets'
  <2>2. /\ \A i \in DOMAIN v : u[i].fd = v[i].fd /\ u[i].parts = v[i].parts
        /\ u[Len(u)].parts = << >> /\ Len(u) = Len(v) + 1
    <3>1. \A i \in Elements : RequestOf(active_sockets[i])
      BY DEF RequestInv
    <3> QED BY <1>1, <2>1, <3>1, EmplaceRequest DEF Elements
  <2>3. Countable(v) /\ Countable(u)
    BY <1>1, <1>2, RequestsCount DEF VectorInv, RequestInv, Elements
  <2> HIDE DEF u, v
  <2>4. \A fd : ReadIn(u, proto, state.fd, fd) = ReadIn(v, proto, state.fd, fd)
    BY <2>2, <2>3, ReadAppend
  <2> QED BY <2>1, <2>4 DEF OwedInv, u, v
<1>8. CASE EraseActiveSocket(Controller)
  <2> DEFINE fds == {active_sockets[i].fd : i \in Matches(Controller)}
  <2>1. InErase(Controller) /\ UNCHANGED <<proto, state>>
    BY <1>8 DEF EraseActiveSocket, CallsErase
  <2>2. Forget(fds) /\ owed' = [fd \in Fds |-> IF fd \in fds THEN 0 ELSE owed[fd]]
    BY <1>8 DEF EraseActiveSocket
  <2>3. CASE Matches(Controller) = {}
    <3>1. active_sockets' = active_sockets /\ fds = {}
      BY <1>8, <2>3 DEF EraseActiveSocket
    <3> HIDE DEF fds
    <3>2. inbox' = inbox
      BY <1>3, <2>2, <3>1 DEF Forget
    <3>3. owed' = owed
      BY <2>2, <3>1 DEF OwedInv
    <3> QED BY <1>4, <2>1, <3>1, <3>2, <3>3
  <2>4. ASSUME NEW i \in Matches(Controller) PROVE OwedInv'
    <3>1. /\ proto = "tcp" /\ Current(Controller).fd \in Fds
          /\ fds = {Current(Controller).fd}
          /\ (CHOOSE j \in Matches(Controller) : TRUE) = i
      BY <1>1, <2>1, ErasedMatch
    <3>2. /\ i \in Elements /\ active_sockets[i].fd = Current(Controller).fd
          /\ active_sockets' = Without(i)
      BY <1>8, <3>1 DEF EraseActiveSocket, Matches
    <3> DEFINE fd == FdOf(active_sockets[i])
    <3>3. fd = Current(Controller).fd
      BY <3>1, <3>2 DEF FdOf
    <3> HIDE DEF fds, fd
    <3>4. owed' = [owed EXCEPT ![fd] = 0] /\ Forget({fd}) /\ fd \in Fds
      BY <2>2, <3>1, <3>3 DEF OwedInv
    <3> QED BY <1>1, <1>2, <2>1, <3>1, <3>2, <3>4, OwedErase DEF fd
  <2> QED BY <2>3, <2>4
<1>9. CASE RecvData
  <2>1. /\ main = "scan" /\ it <= Len(active_sockets) /\ ReceivesData(FdOf(This))
        /\ UNCHANGED <<proto, state, owed>>
    BY <1>9 DEF RecvData, Dereferences, endpointVars, serverVars
  <2>2. FdOf(This) \in Fds
    BY <1>1, <2>1, Dereferenced
  <2>3. /\ it \in Elements /\ DOMAIN active_sockets' = Elements
        /\ \A j \in Elements : j # it => active_sockets'[j] = active_sockets[j]
        /\ active_sockets'[it].fd = active_sockets[it].fd
        /\ Len(active_sockets'[it].parts) = Len(active_sockets[it].parts) + 1
    BY <1>1, <1>9, <2>2, RecvRequest DEF This
  <2>4. /\ inbox[FdOf(active_sockets[it])] # << >>
        /\ inbox' = [inbox EXCEPT ![FdOf(active_sockets[it])] = Tail(@)]
    BY <2>1 DEF ReceivesData, This
  <2> QED BY <1>1, <1>2, <2>1, <2>2, <2>3, <2>4, OwedChange DEF This
<1>10. CASE Answered \/ ReplyFails
  <2>1. main = "reply" /\ UNCHANGED <<proto, state>>
    BY <1>10 DEF Answered, ReplyFails, At, endpointVars, serverVars
  <2>2. it \in Elements /\ FdOf(active_sockets[it]) \in Fds
        /\ (proto = "tcp" => FdOf(active_sockets[it]) = This.fd)
    BY <1>1, <2>1, Dereferenced DEF This
  <2>3. CASE proto = "tcp" /\ Answered
    <3>1. /\ active_sockets' = [active_sockets EXCEPT ![it].second = << >>, ![it].parts = << >>]
          /\ inbox' = inbox /\ owed' = Settled
      BY <2>3 DEF Answered, Sends, ioVars
    <3>2. /\ DOMAIN active_sockets' = Elements
          /\ \A j \in Elements : j # it => active_sockets'[j] = active_sockets[j]
          /\ active_sockets'[it].fd = active_sockets[it].fd
          /\ active_sockets'[it].parts = << >>
      BY <1>1, <2>2, <3>1, AnsweredRequest DEF This
    <3>3. owed' = [owed EXCEPT ![FdOf(active_sockets[it])] =
                                  @ - Len(active_sockets[it].parts)]
      BY <3>1 DEF Settled, This
    <3> QED BY <1>1, <1>2, <2>1, <2>2, <3>1, <3>2, <3>3, OwedChange
  <2>4. CASE proto = "udp"
    <3>1. active_sockets' = Without(it) /\ inbox' = inbox /\ owed' = Settled
      BY <1>10, <2>4 DEF Answered, Sends, ReplyFails, ioVars
    <3>2. owed' = [owed EXCEPT ![FdOf(active_sockets[it])] =
                                  @ - Len(active_sockets[it].parts)]
      BY <3>1 DEF Settled, This
    <3> QED BY <1>1, <1>2, <2>1, <2>2, <3>1, <3>2, OwedErase
  <2>5. CASE proto = "tcp" /\ ReplyFails
    <3>1. /\ active_sockets' = Without(it) /\ Forget({This.fd})
          /\ owed' = [owed EXCEPT ![This.fd] = 0]
      BY <2>5 DEF ReplyFails
    <3>2. /\ Forget({FdOf(active_sockets[it])})
          /\ owed' = [owed EXCEPT ![FdOf(active_sockets[it])] = 0]
      BY <2>2, <2>5, <3>1
    <3> QED BY <1>1, <1>2, <2>1, <2>2, <2>5, <3>1, <3>2, OwedErase
  <2> QED BY <1>3, <1>10, <2>3, <2>4, <2>5
<1>11. CASE Leave
  <2>1. /\ state.kind = "listening" /\ Forget({state.fd}) /\ UNCHANGED proto
        /\ owed' = [owed EXCEPT ![state.fd] = 0]
        /\ active_sockets' = IF proto = "udp" THEN << >> ELSE active_sockets
    BY <1>11 DEF Leave, Destroys
  <2>2. state.fd \in Fds
    BY <1>1, <2>1 DEF ControlInv
  <2>3. /\ owed' \in [Fds -> Int] /\ owed'[state.fd] = 0
        /\ \A fd \in Fds : fd # state.fd => owed'[fd] = owed[fd]
    BY <2>1, <2>2 DEF OwedInv
  <2>4. inbox'[state.fd] = << >> /\ \A fd \in Fds : fd # state.fd => inbox'[fd] = inbox[fd]
    BY <2>1, <2>2 DEF Forget
  <2>5. CASE proto = "udp"
    <3>1. DOMAIN active_sockets' = {}
      BY <2>1, <2>5
    <3>2. \A p, s, fd : ReadIn(active_sockets', p, s, fd) = 0
      BY <3>1, ReadNone
    <3>3. ASSUME NEW fd \in Fds, fd # state.fd
          PROVE  ReadIn(active_sockets, proto, state.fd, fd) = 0
      <4>1. \A i \in DOMAIN active_sockets : KeyOf(active_sockets, proto, state.fd, i) # fd
        BY <2>5, <3>3 DEF KeyOf
      <4> QED BY <4>1, ReadNone
    <3>4. ASSUME NEW fd \in Fds PROVE owed'[fd] = Len(inbox'[fd])
                                         + ReadIn(active_sockets', proto', state'.fd, fd)
      <4>1. CASE fd = state.fd
        BY <2>3, <2>4, <3>2, <4>1
      <4>2. CASE fd # state.fd
        <5>1. owed[fd] = Len(inbox[fd]) + ReadIn(active_sockets, proto, state.fd, fd)
          BY DEF OwedInv
        <5> QED BY <2>3, <2>4, <3>2, <3>3, <4>2, <5>1
      <4> QED BY <4>1, <4>2
    <3> QED BY <2>3, <3>4 DEF OwedInv
  <2>6. CASE proto = "tcp"
    <3>1. active_sockets' = active_sockets
      BY <2>1, <2>6
    <3>2. \A s, t, fd : ReadIn(active_sockets, proto, s, fd) = ReadIn(active_sockets, proto, t, fd)
      BY <2>6 DEF ReadIn, Mine, KeyOf
    <3>3. ReadIn(active_sockets, proto, state.fd, state.fd) = 0
      <4>1. \A i \in DOMAIN active_sockets :
               KeyOf(active_sockets, proto, state.fd, i) # state.fd
        BY <1>1, <2>2, <2>6 DEF KeyOf, SocketInv, Connection, Elements
      <4> QED BY <4>1, ReadNone
    <3>4. ASSUME NEW fd \in Fds PROVE owed'[fd] = Len(inbox'[fd])
                                         + ReadIn(active_sockets', proto', state'.fd, fd)
      <4>1. ReadIn(active_sockets', proto', state'.fd, fd) =
               ReadIn(active_sockets, proto, state.fd, fd)
        BY <2>1, <3>1, <3>2
      <4>2. CASE fd = state.fd
        BY <2>3, <2>4, <3>3, <4>1, <4>2
      <4>3. CASE fd # state.fd
        <5>1. owed[fd] = Len(inbox[fd]) + ReadIn(active_sockets, proto, state.fd, fd)
          BY DEF OwedInv
        <5> QED BY <2>3, <2>4, <4>1, <4>3, <5>1
      <4> QED BY <4>2, <4>3
    <3> QED BY <2>3, <3>4 DEF OwedInv
  <2> QED BY <1>3, <2>5, <2>6
<1>12. ASSUME NEW fd \in Fds, NEW m \in Message, owed' = [owed EXCEPT ![fd] = @ + 1],
              \/ inbox' = [inbox EXCEPT ![fd] = Append(@, m)]
              \/ inbox[fd] = << >> /\ inbox' = [inbox EXCEPT ![fd] = <<m>>],
              UNCHANGED <<active_sockets, proto, state>>
       PROVE  OwedInv'
  <2>1. /\ owed' \in [Fds -> Int]
        /\ \A other \in Fds : owed'[other] = IF other = fd THEN owed[other] + 1
                                                           ELSE owed[other]
    BY <1>12 DEF OwedInv
  <2>2. /\ Len(inbox'[fd]) = Len(inbox[fd]) + 1 /\ Len(inbox[fd]) \in Nat
        /\ \A other \in Fds : other # fd => inbox'[other] = inbox[other]
    <3>1. inbox[fd] \in Seq(Message)
      BY <1>3
    <3>2. \A t \in Seq(Message) : Len(Append(t, m)) = Len(t) + 1 /\ Len(t) \in Nat
      OBVIOUS
    <3>3. Len(<< >>) = 0 /\ Len(<<m>>) = 1
      OBVIOUS
    <3>4. \/ inbox'[fd] = Append(inbox[fd], m)
          \/ inbox[fd] = << >> /\ inbox'[fd] = <<m>>
      BY <1>3, <1>12
    <3>5. \A other \in Fds : other # fd => inbox'[other] = inbox[other]
      BY <1>3, <1>12
    <3>6. Len(inbox'[fd]) = Len(inbox[fd]) + 1 /\ Len(inbox[fd]) \in Nat
      <4> DEFINE s == inbox[fd]
                 t == inbox'[fd]
      <4> HIDE DEF s, t
      <4>1. s \in Seq(Message) /\ (t = Append(s, m) \/ (s = << >> /\ t = <<m>>))
        BY <3>1, <3>4 DEF s, t
      <4>2. Len(s) \in Nat
        BY <4>1
      <4>3. t = Append(s, m) => Len(t) = Len(s) + 1
        BY <4>1
      <4>4. s = << >> /\ t = <<m>> => Len(t) = Len(s) + 1
        OBVIOUS
      <4>5. Len(t) = Len(s) + 1
        BY <4>1, <4>3, <4>4
      <4> QED BY <4>2, <4>5 DEF s, t
    <3> QED BY <3>5, <3>6
  <2>3. Countable(active_sockets)
    BY <1>1, RequestsCount DEF VectorInv, RequestInv, Elements
  <2>4. ASSUME NEW other \in Fds
        PROVE  owed'[other] = Len(inbox'[other]) + ReadIn(active_sockets, proto, state.fd, other)
    <3>1. ReadIn(active_sockets, proto, state.fd, other) \in Int
      BY <2>3, ReadType
    <3>2. owed[other] = Len(inbox[other]) + ReadIn(active_sockets, proto, state.fd, other)
      BY DEF OwedInv
    <3>3. CASE other = fd
      BY <2>1, <2>2, <3>1, <3>2, <3>3
    <3>4. CASE other # fd
      <4>1. owed'[other] = owed[other] /\ inbox'[other] = inbox[other]
        BY <2>1, <2>2, <3>4
      <4> QED BY <3>2, <4>1
    <3> QED BY <3>3, <3>4
  <2> QED BY <1>12, <2>1, <2>4 DEF OwedInv
<1>13. CASE Accepts(Controller)
  <2>1. UNCHANGED <<active_sockets, proto, state>>
    BY <1>13 DEF Accepts, Accept, Counts, appVars
  <2>2. accepted' \in Fds /\ inbox[accepted'] = << >>
    <3>1. PICK fd \in Fds : IsLowestFree(fd) /\ accepted' = fd
      BY <1>13 DEF Accepts, Accept
    <3>2. inbox[fd] = << >>
      BY <1>1, <3>1 DEF IsLowestFree, FreeFds, BufferInv, Connection
    <3> QED BY <3>1, <3>2
  <2>3. CASE UNCHANGED <<inbox, appVars>>
    BY <1>4, <2>1, <2>3 DEF appVars
  <2>4. CASE Counts(accepted')
             /\ \E m \in Message : inbox' = [inbox EXCEPT ![accepted'] = <<m>>]
    <3>1. owed' = [owed EXCEPT ![accepted'] = @ + 1]
      BY <2>4 DEF Counts
    <3> QED BY <1>12, <2>1, <2>2, <2>4, <3>1
  <2> QED BY <1>13, <2>3, <2>4 DEF Accepts
<1>14. CASE Arrival
  <2>1. PICK m \in Message :
          \/ /\ DatagramArrives /\ Counts(state.fd)
             /\ inbox' = [inbox EXCEPT ![state.fd] = Append(@, m)]
          \/ \E fd \in Fds : Delivers(fd, m) /\ Counts(fd) /\ UNCHANGED endpointVars
    BY <1>14 DEF Arrival
  <2>2. \E fd \in Fds : /\ owed' = [owed EXCEPT ![fd] = @ + 1]
                        /\ inbox' = [inbox EXCEPT ![fd] = Append(@, m)]
                        /\ UNCHANGED <<active_sockets, proto, state>>
    BY <2>1 DEF DatagramArrives, Delivers, Counts, endpointVars, serverVars
  <2> QED BY <1>12, <2>2
<1>15. CASE Network
  BY <1>5, <1>14, <1>15 DEF Network
<1> QED BY <1>5, <1>6, <1>7, <1>8, <1>9, <1>10, <1>11, <1>13, <1>15
        DEF Next, Main, Booting, InStart, InProceed, Scan, Reply

\* No message is answered twice and none is lost while its connection lives:
\* each is in the receive buffer, in the one request it was appended to, or
\* accounted for, for any number of connections, messages and requests
\* (server_main.cpp:122-147).
THEOREM MessagesAnsweredOnce ==
    Spec => []AnsweredOnce
<1> DEFINE Inv == AppInv /\ CrowdInv /\ RequestInv /\ OwedInv
<1>1. Init => Inv
  <2> SUFFICES ASSUME Init PROVE Inv
    OBVIOUS
  <2>1. /\ active_sockets = << >> /\ main = "poll"
        /\ owed = [fd \in Fds |-> 0] /\ inbox = [fd \in Fds |-> << >>]
    BY DEF Init, IOInit
  <2>2. RequestInv
    BY <2>1 DEF RequestInv, Elements
  <2>3. OwedInv
    <3>1. DOMAIN active_sockets = {}
      BY <2>1
    <3>2. \A p, s, fd : ReadIn(active_sockets, p, s, fd) = 0
      BY <3>1, ReadNone
    <3> QED BY <2>1, <3>2 DEF OwedInv
  <2> QED BY <2>2, <2>3, AppInit
<1>2. Inv /\ [Next]_vars => Inv'
  BY AppStep, RequestStep, OwedStep
<1>3. Inv => AnsweredOnce
  BY SameRead DEF OwedInv, AnsweredOnce
<1> QED BY <1>1, <1>2, <1>3, PTL DEF Spec

------------------------------------------------------------------------------
(***************************************************************************)
(* The refinement.  The definitions of ServerSystem are those of Server,   *)
(* with what the application holds in the place of conns and refs.         *)
(***************************************************************************)

\* The operators of the libraries.
LEMMA SameSets ==
    /\ \A S : System!Cardinality(S) = Cardinality(S)
    /\ \A S : System!SetToSeqs(S) = SetToSeqs(S)
    /\ \A S, k : System!kSubset(k, S) = kSubset(k, S)
    /\ \A f : System!Range(f) = Range(f)
<1>1. ASSUME NEW S PROVE System!Cardinality(S) = Cardinality(S)
  BY Zenon DEF Cardinality, System!Cardinality
<1>2. ASSUME NEW S PROVE System!SetToSeqs(S) = SetToSeqs(S)
  BY <1>1 DEF SetToSeqs, System!SetToSeqs
<1>3. ASSUME NEW S, NEW k PROVE System!kSubset(k, S) = kSubset(k, S)
  BY <1>1 DEF kSubset, System!kSubset
<1>4. ASSUME NEW f PROVE System!Range(f) = Range(f)
  BY DEF Range, System!Range
<1> QED BY <1>1, <1>2, <1>3, <1>4

\* The operations of epoll.
LEMMA SameEpoll ==
    /\ System!Raised = Raised
    /\ \A fd, o, raised : System!add_socket(fd, o, raised) <=> add_socket(fd, o, raised)
    /\ \A fds : System!Unwatch(fds) <=> Unwatch(fds)
    /\ \A fd : System!Wake(fd) <=> Wake(fd)
    /\ \A raised : System!Takes(raised) = Takes(raised)
    /\ \A take, raised : System!EventsOf(take, raised) = EventsOf(take, raised)
    /\ \A take, raised : System!proceed(take, raised) <=> proceed(take, raised)
<1>1. System!Raised = Raised
  BY DEF Raised, System!Raised
<1>2. ASSUME NEW fd, NEW o, NEW raised
      PROVE  System!add_socket(fd, o, raised) <=> add_socket(fd, o, raised)
  BY DEF add_socket, System!add_socket, flags_from_op, System!flags_from_op, epollVars,
         System!epollVars
<1>3. ASSUME NEW fds PROVE System!Unwatch(fds) <=> Unwatch(fds)
  BY DEF Unwatch, System!Unwatch
<1>4. ASSUME NEW fd PROVE System!Wake(fd) <=> Wake(fd)
  BY DEF Wake, System!Wake
<1>5. ASSUME NEW fd, NEW raised PROVE System!Reported(fd, raised) = Reported(fd, raised)
  BY DEF Reported, System!Reported
<1>6. ASSUME NEW raised PROVE System!Takes(raised) = Takes(raised)
  <2> DEFINE due == {fd \in ready : Reported(fd, raised) # {}}
             n   == IF Cardinality(due) < MaxEvents THEN Cardinality(due) ELSE MaxEvents
  <2>1. {fd \in ready : System!Reported(fd, raised) # {}} = due
    BY <1>5
  <2>2. System!Takes(raised) = UNION {System!SetToSeqs(fds) : fds \in System!kSubset(n, due)}
    <3> HIDE DEF due
    <3> QED BY <2>1, SameSets DEF System!Takes
  <2>3. Takes(raised) = UNION {SetToSeqs(fds) : fds \in kSubset(n, due)}
    BY DEF Takes
  <2> HIDE DEF n, due
  <2> QED BY <2>2, <2>3, SameSets
<1>7. ASSUME NEW flags PROVE System!event_type_from_flags(flags) = event_type_from_flags(flags)
  BY DEF event_type_from_flags, System!event_type_from_flags, TypeOfFlag, System!TypeOfFlag
<1>8. ASSUME NEW take, NEW raised PROVE System!EventsOf(take, raised) = EventsOf(take, raised)
  BY <1>5, <1>7 DEF EventsOf, System!EventsOf
<1>9. ASSUME NEW take, NEW raised PROVE System!proceed(take, raised) <=> proceed(take, raised)
  BY <1>5, <1>6, SameSets DEF proceed, System!proceed
<1> QED BY <1>1, <1>2, <1>3, <1>4, <1>6, <1>8, <1>9

\* The observer's steps.
LEMMA SameObserver ==
    ASSUME NEW t
    PROVE  /\ ObsStep(t) => System!ObsStep(t)
           /\ System!ObsHandlerReturns(t) <=> ObsHandlerReturns(t)
           /\ \A events : System!ObsPoll(t, events) <=> ObsPoll(t, events)
           /\ \A key, h : System!add(key, h) <=> add(key, h)
<1>1. System!ObsLockShared(t) <=> ObsLockShared(t)
  BY DEF ObsLockShared, System!ObsLockShared
<1>2. System!Current(t) = Current(t)
  BY DEF Current, System!Current
<1>3. ASSUME NEW e, NEW i PROVE System!LookupKey(e, i) = LookupKey(e, i)
  BY DEF LookupKey, System!LookupKey, TypeOrder, System!TypeOrder
<1>4. ASSUME NEW h, NEW e, NEW i PROVE System!Hit(h, e, i) <=> Hit(h, e, i)
  BY <1>3 DEF Hit, System!Hit
<1>5. ASSUME ObsInvoke(t) PROVE System!ObsInvoke(t)
  <2>1. PICK i \in Steps :
            /\ i >= act[t].i
            /\ Hit(m_handlers, Current(t), i)
            /\ \A j \in Steps : act[t].i <= j /\ j < i => ~Hit(m_handlers, Current(t), j)
            /\ act' = [act EXCEPT ![t].pc = "running", ![t].i = i,
                           ![t].cur = m_handlers[LookupKey(Current(t), i)]]
    BY <1>5 DEF ObsInvoke
  <2>2. System!Steps = Steps
    BY DEF Steps, System!Steps
  <2>3. /\ System!Hit(m_handlers, System!Current(t), i)
        /\ \A j \in Steps : act[t].i <= j /\ j < i =>
                ~System!Hit(m_handlers, System!Current(t), j)
        /\ act' = [act EXCEPT ![t].pc = "running", ![t].i = i,
                       ![t].cur = m_handlers[System!LookupKey(System!Current(t), i)]]
    BY <1>2, <1>3, <1>4, <2>1
  <2> QED BY <1>5, <2>1, <2>2, <2>3 DEF ObsInvoke, System!ObsInvoke
<1>6. System!ObsNextEvent(t) <=> ObsNextEvent(t)
  BY <1>2, <1>4 DEF ObsNextEvent, System!ObsNextEvent, Steps, System!Steps, UnhandledAfter,
                    System!UnhandledAfter
<1>7. System!ObsUnlock(t) <=> ObsUnlock(t)
  BY DEF ObsUnlock, System!ObsUnlock
<1>8. ASSUME NEW throws
      PROVE  System!ObsHandleUnhandled(t, throws) <=> ObsHandleUnhandled(t, throws)
  BY DEF ObsHandleUnhandled, System!ObsHandleUnhandled
<1>9. System!ObsReturn(t) <=> ObsReturn(t)
  BY DEF ObsReturn, System!ObsReturn, Outside, System!Outside
<1>10. System!ObsHandlerReturns(t) <=> ObsHandlerReturns(t)
  BY DEF ObsHandlerReturns, System!ObsHandlerReturns
<1>11. ASSUME NEW events PROVE System!ObsPoll(t, events) <=> ObsPoll(t, events)
  BY DEF ObsPoll, System!ObsPoll, Outside, System!Outside
<1>12. ASSUME NEW key, NEW h PROVE System!add(key, h) <=> add(key, h)
  BY DEF add, System!add
<1>13. ObsStep(t) => System!ObsStep(t)
  BY <1>1, <1>5, <1>6, <1>7, <1>8, <1>9 DEF ObsStep, System!ObsStep
<1> QED BY <1>10, <1>11, <1>12, <1>13

\* The variables that the components leave unchanged.
LEMMA SameVariables ==
    /\ UNCHANGED System!obsVars <=> UNCHANGED obsVars
    /\ UNCHANGED System!epollVars <=> UNCHANGED epollVars
    /\ UNCHANGED System!kernelVars <=> UNCHANGED kernelVars
    /\ UNCHANGED System!serverVars <=> UNCHANGED serverVars
    /\ UNCHANGED System!holdVars <=> UNCHANGED <<Held, Refs>>
BY DEF obsVars, System!obsVars, epollVars, System!epollVars, kernelVars, System!kernelVars,
       serverVars, System!serverVars, System!holdVars

\* The server's steps outside proceed(), and the network's.
LEMMA SameServer ==
    /\ Start => System!Start
    /\ InStart => System!InStart
    /\ Destroys => System!Destroys
    /\ PeerConnects => System!PeerConnects
    /\ DatagramArrives => System!DatagramArrives
    /\ \A fds : System!Close(fds) <=> Close(fds)
    /\ \A fd : System!Arrive(fd) <=> Arrive(fd)
    /\ \A fd : System!PeerCloses(fd) <=> PeerCloses(fd)
    /\ \A fd : System!PeerResets(fd) <=> PeerResets(fd)
    /\ \A fd : System!UrgentArrives(fd) <=> UrgentArrives(fd)
<1>1. ASSUME NEW fd PROVE System!IsLowestFree(fd) <=> IsLowestFree(fd)
  BY DEF IsLowestFree, System!IsLowestFree, FreeFds, System!FreeFds
<1>2. Start => System!Start
  BY <1>1, SameVariables DEF Start, System!Start
<1>3. RegisterOrder = System!RegisterOrder
  BY DEF RegisterOrder, System!RegisterOrder
<1>4. ASSUME NEW tp PROVE HandlerFor(tp) = System!HandlerFor(tp)
  BY DEF HandlerFor, System!HandlerFor
<1>5. RegisterCb => System!RegisterCb
  BY <1>3, <1>4, SameObserver, SameVariables DEF RegisterCb, System!RegisterCb
<1>6. Listen => System!Listen
  BY <1>3, SameEpoll, SameVariables DEF Listen, System!Listen
<1>7. InStart => System!InStart
  BY <1>5, <1>6 DEF InStart, System!InStart
<1>8. ASSUME NEW fds PROVE System!Close(fds) <=> Close(fds)
  BY DEF Close, System!Close
<1>9. Keys = System!Keys /\ NoFd = System!NoFd
  BY DEF Keys, System!Keys, EventType, System!EventType, NoFd, System!NoFd
<1>10. Destroys => System!Destroys
  BY <1>3, <1>8, <1>9, SameSets, SameEpoll DEF Destroys, System!Destroys
<1>11. ASSUME NEW fd PROVE System!Arrive(fd) <=> Arrive(fd)
  BY SameEpoll DEF Arrive, System!Arrive
<1>12. ASSUME NEW fd PROVE System!PeerCloses(fd) <=> PeerCloses(fd)
  BY SameEpoll DEF PeerCloses, System!PeerCloses
<1>13. ASSUME NEW fd PROVE System!PeerResets(fd) <=> PeerResets(fd)
  BY SameEpoll DEF PeerResets, System!PeerResets
<1>14. PeerConnects => System!PeerConnects
  BY SameEpoll, SameVariables DEF PeerConnects, System!PeerConnects
<1>15. DatagramArrives => System!DatagramArrives
  BY <1>11, SameVariables DEF DatagramArrives, System!DatagramArrives
<1>16. ASSUME NEW fd PROVE System!UrgentArrives(fd) <=> UrgentArrives(fd)
  BY SameEpoll DEF UrgentArrives, System!UrgentArrives
<1> QED BY <1>2, <1>7, <1>8, <1>10, <1>11, <1>12, <1>13, <1>14, <1>15, <1>16

\* The server's steps in proceed().
LEMMA SameProceed ==
    ASSUME NEW t
    PROVE  /\ Poll(t) => System!Poll(t)
           /\ InEndpoint(t) => System!InEndpoint(t)
           /\ Accept(t) => System!Accept(t)
           /\ HandsOver(t) => System!HandsOver(t)
           /\ HandsOverRef(t) => System!HandsOverRef(t)
           /\ CallsErase(t) => System!CallsErase(t)
           /\ System!Current(t) = Current(t)
<1>1. System!Current(t) = Current(t)
  BY DEF Current, System!Current
<1>2. /\ System!ListenerReady(t) <=> ListenerReady(t)
      /\ System!HandlerLocks(t) <=> HandlerLocks(t)
      /\ System!InErase(t) <=> InErase(t)
  BY <1>1 DEF ListenerReady, System!ListenerReady, HandlerLocks, System!HandlerLocks, InErase,
              System!InErase
<1>3. /\ \A fd : System!IsLowestFree(fd) <=> IsLowestFree(fd)
      /\ System!FreeFds = FreeFds /\ System!NoFd = NoFd
  BY DEF IsLowestFree, System!IsLowestFree, FreeFds, System!FreeFds, NoFd, System!NoFd
<1>4. Poll(t) => System!Poll(t)
  BY SameVariables, SameEpoll, SameObserver DEF Poll, System!Poll
<1>5. HandlerIgnores(t) => System!HandlerIgnores(t)
  BY <1>2, SameVariables, SameObserver DEF HandlerIgnores, System!HandlerIgnores
<1>6. AcceptFails(t) => System!AcceptFails(t)
  BY <1>2, <1>3, SameVariables, SameObserver DEF AcceptFails, System!AcceptFails
<1>7. \A fd : System!del_socket(fd) <=> del_socket(fd)
  BY SameEpoll DEF del_socket, System!del_socket
<1>8. HandlerErases(t) => System!HandlerErases(t)
  BY <1>1, <1>2, <1>7, SameVariables DEF HandlerErases, System!HandlerErases
<1>9. InEndpoint(t) => System!InEndpoint(t)
  BY <1>5, <1>6, <1>8, SameVariables, SameObserver DEF InEndpoint, System!InEndpoint
<1>10. Accept(t) => System!Accept(t)
  BY <1>2, <1>3, SameVariables DEF Accept, System!Accept, AcceptedStates, System!AcceptedStates
<1>11. HandsOver(t) => System!HandsOver(t)
  BY <1>3, SameVariables, SameEpoll, SameObserver DEF HandsOver, System!HandsOver
<1>12. HandsOverRef(t) => System!HandsOverRef(t)
  BY <1>2, SameVariables, SameObserver DEF HandsOverRef, System!HandsOverRef
<1>13. CallsErase(t) => System!CallsErase(t)
  BY <1>2, SameVariables, SameObserver DEF CallsErase, System!CallsErase
<1> QED BY <1>1, <1>4, <1>9, <1>10, <1>11, <1>12, <1>13

\* The program starts with nothing in the vector, as ServerSystem does.
LEMMA SystemInit == Init => System!Init
<1> SUFFICES ASSUME Init PROVE System!Init
  OBVIOUS
<1>1. System!ObsInit
  BY DEF Init, ServerInit, ObsInit, System!ObsInit, Keys, System!Keys, EventType,
         System!EventType, Outside, System!Outside
<1>2. System!EpollInit /\ System!KernelInit
  BY DEF Init, ServerInit, EpollInit, System!EpollInit, KernelInit, System!KernelInit
<1>3. System!ServerInit
  BY <1>1, <1>2 DEF Init, ServerInit, System!ServerInit, NoFd, System!NoFd
<1>4. Held = {} /\ Refs = 0
  BY DEF Init, Held, Refs, Elements
<1> QED BY <1>3, <1>4 DEF System!Init

\* What the vector holds: descriptors, or references.
HeldInv ==
    /\ proto = "tcp" => Refs = 0 /\ Held = {active_sockets[i].fd : i \in Elements}
    /\ proto = "udp" => Held = {} /\ Refs = Len(active_sockets)
    /\ proto \in {"tcp", "udp"} /\ Len(active_sockets) \in Nat

\* What the vector holds is what the application of ServerSystem holds.
LEMMA HeldDescriptors ==
    ServerTypeOK /\ VectorInv => HeldInv
<1> SUFFICES ASSUME ServerTypeOK, VectorInv PROVE HeldInv
  OBVIOUS
<1> USE ServerAssumption DEF NoFd
<1>1. proto \in {"tcp", "udp"} /\ Len(active_sockets) \in Nat
  BY SequenceOf DEF ServerTypeOK, VectorInv, IsSequence
<1>2. ASSUME proto = "tcp" PROVE Held = {active_sockets[i].fd : i \in Elements}
  <2>1. \A i \in Elements : active_sockets[i].fd \in Fds /\ NoFd \notin Fds
    BY <1>2 DEF VectorInv
  <2> QED BY <2>1 DEF Held
<1>3. ASSUME proto = "udp" PROVE Held = {}
  <2>1. \A i \in Elements : active_sockets[i].fd = NoFd
    BY <1>3 DEF VectorInv
  <2> QED BY <2>1 DEF Held
<1> QED BY <1>1, <1>2, <1>3 DEF Refs, HeldInv

\* An element less, a descriptor less.
LEMMA ErasedHeld ==
    ASSUME VectorInv, proto = "tcp", NEW i \in Elements, active_sockets' = Without(i)
    PROVE  {active_sockets'[k].fd : k \in Elements'} =
             {active_sockets[j].fd : j \in Elements} \ {active_sockets[i].fd}
<1>1. \A j, k \in Elements : active_sockets[j].fd = active_sockets[k].fd => j = k
  BY DEF VectorInv
<1>2. /\ \A k \in Elements' : \E j \in Elements :
            j # i /\ active_sockets'[k].fd = active_sockets[j].fd
      /\ \A j \in Elements : j # i => \E k \in Elements' :
            active_sockets'[k].fd = active_sockets[j].fd
  BY ErasedDescriptors
<1>3. ASSUME NEW k \in Elements'
      PROVE  active_sockets'[k].fd \in
                {active_sockets[j].fd : j \in Elements} \ {active_sockets[i].fd}
  BY <1>1, <1>2
<1>4. ASSUME NEW j \in Elements, active_sockets[j].fd # active_sockets[i].fd
      PROVE  active_sockets[j].fd \in {active_sockets'[k].fd : k \in Elements'}
  BY <1>2, <1>4
<1> QED BY <1>3, <1>4

\* Every step of server_main is a step of the application that ServerSystem
\* describes, or changes nothing that it speaks of.
LEMMA SystemStep ==
    ASSUME AppInv, [Next]_vars
    PROVE  System!Next \/ UNCHANGED System!vars
<1> USE ServerAssumption, AppAssumption
<1>1. /\ ServerTypeOK /\ ObsInv /\ HandlersInv /\ VectorInv /\ ControlInv /\ SocketInv
      /\ BufferInv /\ BatchInv
  BY DEF AppInv
<1>2. /\ proto = "tcp" => Refs = 0 /\ Held = {active_sockets[i].fd : i \in Elements}
      /\ proto = "udp" => Held = {} /\ Refs = Len(active_sockets)
      /\ proto \in {"tcp", "udp"} /\ Len(active_sockets) \in Nat
  BY <1>1, HeldDescriptors DEF HeldInv
<1>3. ServerTypeOK' /\ VectorInv'
  BY <1>1, AppServerTypes, VectorStep
<1>4. /\ proto' = "tcp" => Refs' = 0 /\ Held' = {active_sockets'[i].fd : i \in Elements'}
      /\ proto' = "udp" => Held' = {} /\ Refs' = Len(active_sockets')
  <2>1. HeldInv'
    BY <1>3, HeldDescriptors, PTL
  <2> QED BY <2>1 DEF HeldInv
<1>5. ASSUME UNCHANGED <<active_sockets, proto>>
      PROVE  UNCHANGED <<Held, Refs>> /\ UNCHANGED System!holdVars
  <2>1. UNCHANGED <<Held, Refs>>
    BY <1>5 DEF Held, Refs, Elements
  <2> QED BY <2>1, SameVariables
<1>6. ASSUME UNCHANGED <<obsVars, epollVars, kernelVars, serverVars, Held, Refs>>
      PROVE  UNCHANGED System!vars
  <2>1. /\ UNCHANGED System!obsVars /\ UNCHANGED System!epollVars
        /\ UNCHANGED System!kernelVars /\ UNCHANGED System!serverVars
        /\ UNCHANGED System!holdVars
    BY <1>6, SameVariables
  <2> QED BY <2>1 DEF System!vars
<1>7. CASE Booting
  <2>1. (Start \/ InStart) /\ UNCHANGED <<active_sockets, proto>>
    BY <1>7 DEF Booting, Start, InStart, RegisterCb, Listen, appVars
  <2>2. (System!Start \/ System!InStart) /\ UNCHANGED System!holdVars
    BY <1>5, <2>1, SameServer
  <2> QED BY <2>2 DEF System!Next
<1>8. CASE CallProceed
  <2>1. Poll(Controller) /\ UNCHANGED <<active_sockets, proto>>
    BY <1>8 DEF CallProceed, Poll, serverVars
  <2>2. System!Poll(Controller) /\ UNCHANGED System!holdVars
    BY <1>5, <2>1, SameProceed
  <2> QED BY <2>2 DEF System!Next
<1>9. ASSUME System!InProceed(Controller) PROVE System!Next
  BY <1>9 DEF System!Next
<1>10. CASE \/ InEndpoint(Controller) /\ UNCHANGED <<ioVars, appVars>>
            \/ Accepts(Controller)
  <2>1. /\ InEndpoint(Controller) \/ Accept(Controller)
        /\ UNCHANGED <<active_sockets, proto>>
    BY <1>10 DEF Accepts, Accept, Counts, InEndpoint, HandlerIgnores, AcceptFails,
         HandlerErases, serverVars, appVars
  <2>2. /\ System!InEndpoint(Controller) \/ System!Accept(Controller)
        /\ UNCHANGED System!holdVars
    BY <1>5, <2>1, SameProceed
  <2> QED BY <1>9, <2>2 DEF System!InProceed
<1>11. CASE OnConn(Controller)
  <2>1. HandsOver(Controller) /\ emplace_back(accepted) /\ UNCHANGED proto
    BY <1>11 DEF OnConn, HandsOver
  <2>2. accepted \in Fds
    BY <1>1, <2>1 DEF HandsOver, ControlInv, HoldsAccepted, ServerTypeOK
  <2>3. proto = "tcp"
    BY <1>1, <2>2 DEF SocketInv
  <2> DEFINE n == Len(active_sockets)
  <2>4. /\ IsSequence(active_sockets') /\ Len(active_sockets') = n + 1
        /\ \A i \in Elements : active_sockets'[i].fd = active_sockets[i].fd
        /\ active_sockets'[n + 1].fd = accepted
    <3>1. active_sockets'[n + 1] =
             [own |-> TRUE, fd |-> accepted, remote |-> 0, second |-> << >>, parts |-> << >>]
      BY <1>1, <2>1, EmplaceBack
    <3>2. active_sockets'[n + 1].fd = accepted
      BY <3>1
    <3> QED BY <1>1, <2>1, <3>2, EmplaceBack
  <2>5. Elements = 1..n /\ Elements' = 1..n + 1
    BY <1>1, <2>4, SequenceOf DEF VectorInv, IsSequence, Elements
  <2>6. Held' = Held \cup {accepted}
    <3> HIDE DEF n
    <3>1. n \in Nat
      BY <1>2 DEF n
    <3>2. \A i \in 1..n + 1 : i \in 1..n \/ i = n + 1
      BY <3>1
    <3>3. 1..n \subseteq 1..n + 1 /\ n + 1 \in 1..n + 1
      BY <3>1
    <3>4. Held' = {active_sockets'[i].fd : i \in 1..n + 1}
          /\ Held = {active_sockets[i].fd : i \in 1..n}
      BY <1>2, <1>4, <2>1, <2>3, <2>5
    <3>5. ASSUME NEW fd \in Held' PROVE fd \in Held \cup {accepted}
      BY <2>4, <2>5, <3>2, <3>4
    <3>6. ASSUME NEW fd \in Held \cup {accepted} PROVE fd \in Held'
      BY <2>4, <2>5, <3>3, <3>4
    <3> QED BY <3>5, <3>6
  <2>7. Refs' = Refs
    BY <1>2, <1>4, <2>1, <2>3
  <2>8. System!HandOver(Controller)
    BY <2>1, <2>6, <2>7, SameProceed DEF System!HandOver
  <2> QED BY <1>9, <2>8 DEF System!InProceed
<1>12. CASE OnConnUdp(Controller)
  <2>1. HandsOverRef(Controller) /\ emplace_back(NoFd) /\ UNCHANGED proto /\ proto = "udp"
    BY <1>12 DEF OnConnUdp, HandsOverRef, serverVars
  <2>2. Len(active_sockets') = Len(active_sockets) + 1
    BY <1>1, <2>1, EmplaceBack
  <2>3. Refs' = Refs + 1 /\ Held' = Held
    BY <1>2, <1>4, <2>1, <2>2
  <2>4. System!HandOverRef(Controller)
    BY <2>1, <2>3, SameProceed DEF System!HandOverRef
  <2> QED BY <1>9, <2>4 DEF System!InProceed
<1>13. CASE EraseActiveSocket(Controller)
  <2> DEFINE fd == Current(Controller).fd
             fds == {active_sockets[i].fd : i \in Matches(Controller)}
  <2>1. /\ CallsErase(Controller) /\ InErase(Controller) /\ Close(fds) /\ UNCHANGED proto
        /\ active_sockets' = IF Matches(Controller) = {} THEN active_sockets
                             ELSE Without(CHOOSE i \in Matches(Controller) : TRUE)
    BY <1>13 DEF EraseActiveSocket, CallsErase
  <2>2. proto = "tcp"
    BY <1>1, <2>1, NoEraseOfDatagrams
  <2>3. fds = {fd} \cap Held
    BY <1>2, <2>2 DEF Matches
  <2>4. Held' = Held \ {fd}
    <3>1. CASE Matches(Controller) = {}
      <4>1. active_sockets' = active_sockets
        BY <2>1, <3>1
      <4>2. \A i \in Elements : active_sockets[i].fd # fd
        BY <3>1 DEF Matches
      <4> HIDE DEF fd
      <4>3. fd \notin Held
        BY <1>2, <2>2, <4>2
      <4>4. Held' = Held
        BY <1>5, <2>1, <4>1
      <4> QED BY <4>3, <4>4
    <3>2. ASSUME NEW i \in Matches(Controller) PROVE Held' = Held \ {fd}
      <4>1. (CHOOSE j \in Matches(Controller) : TRUE) = i
        BY <1>1, <2>1, ErasedMatch
      <4>2. i \in Elements /\ active_sockets[i].fd = fd /\ active_sockets' = Without(i)
        BY <2>1, <4>1 DEF Matches
      <4> HIDE DEF fd, fds
      <4> QED BY <1>1, <1>2, <1>4, <2>1, <2>2, <4>2, ErasedHeld
    <3> QED BY <3>1, <3>2
  <2> HIDE DEF fd, fds
  <2>5. Refs' = 0
    BY <1>4, <2>1, <2>2
  <2>6. System!Close({fd} \cap Held)
    BY <2>1, <2>3, SameServer
  <2>7. System!EraseActiveSocket(Controller)
    BY <2>1, <2>4, <2>5, <2>6, SameProceed DEF System!EraseActiveSocket, fd
  <2> QED BY <1>9, <2>7 DEF System!InProceed
<1>14. CASE \/ EraseUndefined(Controller) \/ BeginScan \/ EndScan \/ ScanUndefined
            \/ RecvEof \/ RecvEnds \/ ResponseThrows \/ SendKills \/ Signal \/ UNCHANGED vars
  <2>1. UNCHANGED <<obsVars, epollVars, kernelVars, serverVars, active_sockets>>
    BY <1>14 DEF EraseUndefined, BeginScan, EndScan, ScanUndefined, RecvEof, ReceivesEof,
         RecvEnds, WouldBlock, ReceivesError, ResponseThrows, SendKills, Signal, endpointVars,
         appVars, vars
  <2>2. UNCHANGED proto
    BY <2>1 DEF serverVars
  <2> QED BY <1>5, <1>6, <2>1, <2>2
<1>15. ASSUME it \in Elements, NEW e, DOMAIN e = Fields, e.own = This.own, e.fd = This.fd,
              active_sockets' = [active_sockets EXCEPT ![it] = e], UNCHANGED proto
       PROVE  UNCHANGED <<Held, Refs>>
  <2>1. /\ Len(active_sockets') = Len(active_sockets) /\ Elements' = Elements
        /\ \A i \in Elements : active_sockets'[i].fd = active_sockets[i].fd
    BY <1>1, <1>15, SetRequest DEF Elements
  <2>2. {active_sockets'[i].fd : i \in Elements'} = {active_sockets[i].fd : i \in Elements}
    BY <2>1
  <2> QED BY <1>2, <1>4, <1>15, <2>1, <2>2
<1>16. main \in {"scan", "reply"} /\ state.kind = "listening" =>
          act[Controller].pc = "out" /\ m_mutex = NoThread
  BY <1>1 DEF ControlInv, ServerTypeOK
<1>17. CASE RecvData
  <2> DEFINE fd == FdOf(This)
  <2>1. main = "scan" /\ it <= Len(active_sockets) /\ UNCHANGED <<endpointVars, epollVars, ksock>>
        /\ inbox[fd] # << >> /\ rx' = IF Len(inbox[fd]) = 1 THEN rx \ {fd} ELSE rx
    BY <1>17 DEF RecvData, ReceivesData, Dereferences
  <2>2. /\ it \in Elements /\ fd \in Fds /\ state.kind = "listening"
        /\ proto = "tcp" => fd = This.fd
        /\ proto = "udp" => fd = state.fd
    BY <1>1, <2>1, Dereferenced
  <2>3. UNCHANGED <<obsVars, serverVars, proto>>
    BY <2>1 DEF endpointVars, serverVars
  <2>4. UNCHANGED <<Held, Refs>>
    <3>1. PICK e : /\ DOMAIN e = Fields /\ e.own = This.own /\ e.fd = This.fd
                   /\ active_sockets' = [active_sockets EXCEPT ![it] = e]
      BY <1>1, <1>17, <2>2, RecvElement
    <3> QED BY <1>15, <2>2, <2>3, <3>1
  <2>5. fd \in rx
    BY <1>1, <2>1, <2>2 DEF BufferInv
  <2>6. fd \in System!Readable
    <3>1. CASE proto = "tcp"
      BY <1>2, <2>2, <3>1 DEF System!Readable, This
    <3>2. CASE proto = "udp"
      <4>1. Refs > 0
        BY <1>1, <1>2, <2>1, <3>2 DEF VectorInv
      <4> QED BY <2>2, <3>2, <4>1 DEF System!Readable
    <3> QED BY <1>2, <3>1, <3>2
  <2> HIDE DEF fd
  <2>7. CASE rx' = rx
    <3>1. UNCHANGED kernelVars
      BY <2>1, <2>7 DEF kernelVars
    <3> QED BY <1>6, <2>1, <2>3, <2>4, <3>1
  <2>8. CASE rx' = rx \ {fd}
    <3>1. System!AppOutside
      BY <1>16, <2>1, <2>2 DEF System!AppOutside
    <3>2. /\ UNCHANGED System!obsVars /\ UNCHANGED System!epollVars
          /\ UNCHANGED System!serverVars /\ UNCHANGED System!holdVars
      BY <2>1, <2>3, <2>4, SameVariables
    <3>3. System!AppReads(fd)
      BY <2>1, <2>5, <2>6, <2>8, <3>1, <3>2 DEF System!AppReads
    <3> QED BY <2>2, <3>3 DEF System!Next
  <2> QED BY <2>1, <2>7, <2>8
<1>18. CASE Answered \/ ReplyFails
  <2>1. main = "reply" /\ UNCHANGED endpointVars
    BY <1>18 DEF Answered, ReplyFails, At
  <2>2. it \in Elements /\ state.kind = "listening" /\ UNCHANGED <<obsVars, serverVars, proto>>
    BY <1>1, <2>1, Dereferenced DEF endpointVars, serverVars
  <2>3. System!AppOutside
    BY <1>16, <2>1, <2>2 DEF System!AppOutside
  <2>4. CASE proto = "udp"
    <3>1. active_sockets' = Without(it) /\ UNCHANGED <<epollVars, kernelVars>>
      BY <1>18, <2>4 DEF Answered, ReplyFails, Sends
    <3>2. Len(active_sockets') = Len(active_sockets) - 1 /\ Len(active_sockets') \in Nat
      BY <1>1, <2>2, <3>1, EraseElement
    <3>3. Held' = Held /\ Refs > 0 /\ Refs' = Refs - 1
      <4>1. /\ Held' = {} /\ Held = {}
            /\ Refs = Len(active_sockets) /\ Refs' = Len(active_sockets')
            /\ Len(active_sockets) \in Nat
        BY <1>2, <1>4, <2>2, <2>4
      <4> QED BY <3>2, <4>1
    <3>4. /\ UNCHANGED System!obsVars /\ UNCHANGED System!epollVars
          /\ UNCHANGED System!kernelVars /\ UNCHANGED System!serverVars
      BY <2>2, <3>1, SameVariables
    <3>5. System!AppDropsRef
      BY <2>3, <3>3, <3>4 DEF System!AppDropsRef
    <3> QED BY <3>5 DEF System!Next
  <2>5. CASE proto = "tcp" /\ Answered
    <3>1. /\ active_sockets' =
                [active_sockets EXCEPT ![it].second = << >>, ![it].parts = << >>]
          /\ UNCHANGED <<epollVars, kernelVars>>
      BY <2>5 DEF Answered, Sends
    <3>2. PICK e : /\ DOMAIN e = Fields /\ e.own = This.own /\ e.fd = This.fd
                   /\ active_sockets' = [active_sockets EXCEPT ![it] = e]
      BY <1>1, <2>2, <3>1, AnsweredElement
    <3>3. UNCHANGED <<Held, Refs>>
      BY <1>15, <2>2, <3>2
    <3> QED BY <1>6, <2>2, <3>1, <3>3
  <2>6. CASE proto = "tcp" /\ ReplyFails
    <3> DEFINE fd == This.fd
    <3>1. active_sockets' = Without(it) /\ Close({fd}) /\ Unwatch({fd})
      BY <2>6 DEF ReplyFails
    <3>2. fd \in Held /\ fd \in Fds /\ fd = active_sockets[it].fd
      BY <1>1, <1>2, <2>2, <2>6 DEF This, VectorInv
    <3> HIDE DEF fd
    <3>3. Held' = Held \ {fd} /\ Refs' = Refs
      BY <1>1, <1>2, <1>4, <2>2, <2>6, <3>1, <3>2, ErasedHeld
    <3>4. /\ System!Close({fd}) /\ System!Unwatch({fd})
          /\ UNCHANGED System!obsVars /\ UNCHANGED System!serverVars
      BY <2>2, <3>1, SameServer, SameEpoll, SameVariables
    <3>5. System!AppDrops(fd)
      BY <2>3, <3>2, <3>3, <3>4 DEF System!AppDrops
    <3> QED BY <3>2, <3>5 DEF System!Next
  <2> QED BY <1>2, <1>18, <2>4, <2>5, <2>6
<1>19. CASE Leave
  <2>1. Destroys /\ UNCHANGED proto
        /\ active_sockets' = IF proto = "udp" THEN << >> ELSE active_sockets
    BY <1>19 DEF Leave, Destroys
  <2>2. Held' = Held /\ Refs' = 0
    <3>1. CASE proto = "udp"
      BY <1>2, <1>4, <2>1, <3>1
    <3>2. CASE proto = "tcp"
      <4>1. active_sockets' = active_sockets
        BY <2>1, <3>2
      <4> QED BY <1>2, <1>4, <1>5, <2>1, <3>2, <4>1
    <3> QED BY <1>2, <3>1, <3>2
  <2>3. System!Destroy
    BY <2>1, <2>2, SameServer DEF System!Destroy
  <2> QED BY <2>3 DEF System!Next
<1>20. CASE Network
  <2>1. UNCHANGED <<active_sockets, proto>>
    BY <1>20 DEF Network, PeerConnects, Arrival, DatagramArrives, Counts, endpointVars,
         serverVars, appVars
  <2>2. UNCHANGED System!holdVars
    BY <1>5, <2>1
  <2>3. ASSUME NEW fd \in Fds,
               \/ proto = "tcp" /\ Arrive(fd)
               \/ PeerCloses(fd) \/ UrgentArrives(fd) \/ PeerResets(fd),
               UNCHANGED endpointVars
        PROVE  System!Network
    <3>1. UNCHANGED System!obsVars /\ UNCHANGED System!serverVars
      BY <2>3, SameVariables DEF endpointVars
    <3> QED BY <2>2, <2>3, <3>1, SameServer DEF System!Network
  <2>4. CASE PeerConnects \/ DatagramArrives
    BY <2>2, <2>4, SameServer DEF System!Network, System!Next
  <2>5. \/ PeerConnects \/ DatagramArrives
        \/ /\ UNCHANGED endpointVars
           /\ \E fd \in Fds : \/ proto = "tcp" /\ Arrive(fd)
                              \/ PeerCloses(fd) \/ UrgentArrives(fd) \/ PeerResets(fd)
    BY <1>20 DEF Network, Arrival, Delivers
  <2> QED BY <2>3, <2>4, <2>5 DEF System!Next
<1> QED BY <1>7, <1>8, <1>10, <1>11, <1>12, <1>13, <1>14, <1>17, <1>18, <1>19, <1>20
        DEF Next, Main, InProceed, Scan, Reply

\* server_main is an application as the documentation of start() asks for: each
\* of its steps, in a callback, between two polls or at the end, is one that
\* ServerSystem allows, so what is proved of ServerSystem holds of it
\* (server_main.cpp:34-74, 119-148, server.h:24-60).
THEOREM AppImplementsSystem ==
    Spec => ImplementsSystem
<1>1. AppInv /\ [Next]_vars => [System!Next]_(System!vars)
  BY SystemStep
<1> QED BY <1>1, SystemInit, AppInvariant, PTL DEF Spec, ImplementsSystem, System!Spec
==============================================================================
