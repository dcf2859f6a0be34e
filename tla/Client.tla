------------------------------- MODULE Client -------------------------------
(***************************************************************************)
(* client_t (src/src/endpoint/client.tpp) on its endpoint_t base, over the *)
(* observer, epoll and the kernel's sockets.                               *)
(*                                                                         *)
(* One thread, Controller, calls start, stop and connect; the threads in   *)
(* Pollers call proceed; Controller may be one of them, as in              *)
(* src/app/client_main.cpp.  start and stop hold m_mutex and take the      *)
(* observer's mutex inside; the handlers run with the observer's mutex     *)
(* shared and take m_mutex inside; connect takes neither.                  *)
(*                                                                         *)
(* The three callbacks of the n-th call of connect are the number n; 0 is  *)
(* an empty std::function.  connect is not locked, so each of its writes    *)
(* to a field a handler reads is a step of its own, and so is each of the  *)
(* handler's reads.  The assignment of one field is a step: what a reader  *)
(* meets in the middle of the assignment of a std::function is not         *)
(* modelled.                                                               *)
(***************************************************************************)
EXTENDS EventObserver, KernelSocket

CONSTANTS
    Protos,         \* the protocols the template is instantiated with
    Controller,     \* the thread that starts, connects and stops the client
    Pollers,        \* the threads that call proceed()
    ConnectFirst,   \* TRUE: proceed() is called only on a connected client
    MayThrow,       \* the callbacks that may throw
    NoThread,
    MaxStarts,      \* bound: calls of start()
    MaxConnects     \* bound: calls of connect()

Callbacks == {"connect", "read", "disconnect"}

ASSUME ClientAssumption ==
    /\ Fds \subseteq Nat /\ IsFiniteSet(Fds)
    /\ Protos \subseteq {"tcp", "udp"}
    /\ Controller \in Threads
    /\ Pollers \subseteq Threads
    /\ ConnectFirst \in BOOLEAN
    /\ MayThrow \subseteq Callbacks
    /\ NoThread \notin Threads
    /\ MaxStarts \in Nat
    /\ MaxConnects \in Nat
    /\ Handlers = {"erase", "read", "write"}

Sessions == 1..MaxConnects
NoFd == -1

VARIABLES
    proto,      \* the template argument Proto; never changes
    m_mutex,    \* the thread that holds client_t::m_mutex, or NoThread
    state,      \* the variant: kind "idle" is the empty optional, "socket"
                \* the engaged one, "binded" and "active"; with its descriptor
    m_remote,   \* the session whose remote is stored, 0 for nullopt
    cb,         \* m_on_connect, m_on_read_ready, m_on_disconnect
    op,         \* the control operation in progress
    handling,   \* where the handler that holds m_mutex is: about to "test" its
                \* callback, about to "call" it, in its "body", which is the
                \* callback of session s
    starts, connects,   \* calls so far
    calls       \* history: which callbacks run or have returned, per session

clientVars == <<proto, m_mutex, state, m_remote, cb, op, handling, starts, connects,
                calls>>
vars == <<obsVars, epollVars, kernelVars, clientVars>>

NoOp == [pc |-> "none", fd |-> NoFd, kind |-> "idle", n |-> 1]

NoHandling == [pc |-> "none", s |-> 0]

Silent == [connects |-> 0, disconnects |-> 0, last |-> "none"]

Init ==
    /\ ObsInit
    /\ EpollInit
    /\ KernelInit
    /\ proto \in Protos
    /\ m_mutex = NoThread
    /\ state = [kind |-> "idle", fd |-> NoFd]
    /\ m_remote = 0
    /\ cb = [c \in Callbacks |-> 0]
    /\ op = NoOp
    /\ handling = NoHandling
    /\ starts = 0
    /\ connects = 0
    /\ calls = [s \in Sessions |-> Silent]

------------------------------------------------------------------------------
(***************************************************************************)
(* endpoint_t.  idle() tests the index of the variant, which is 0 for an   *)
(* engaged optional too.                                                   *)
(***************************************************************************)
idle == state.kind \in {"idle", "socket"}

get_fd == state.fd

\* Closing descriptors: the kernel forgets them, and epoll with it.
Close(fds) ==
    /\ ksock' = [fd \in Fds |-> IF fd \in fds THEN "free" ELSE ksock[fd]]
    /\ rx' = rx \ fds

------------------------------------------------------------------------------
(***************************************************************************)
(* start().  The calls that return false - the endpoint is not idle, no    *)
(* descriptor, bad address, bind refused (the new socket is closed again)  *)
(* - leave no trace and are stuttering steps.                              *)
(***************************************************************************)
ControllerFree == op = NoOp /\ act[Controller].pc = "out"

RegisterOrder == <<"PEER_CLOSED", "ERROR", "HANGUP", "EXCEPTION",
                   "READ_READY", "WRITE_READY">>

\* Mutant of HandlerFor: the read handler is not registered.
NoReadHandler(tp) == IF tp = "WRITE_READY" THEN "write" ELSE "erase"

\* Mutant of HandlerFor: the end of the connection is left to the read handler.
NoEraseHandler(tp) == IF tp = "WRITE_READY" THEN "write" ELSE "read"

HandlerFor(tp) ==
    CASE tp = "READ_READY" -> "read"
      [] tp = "WRITE_READY" -> "write"
      [] OTHER -> "erase"

\* What start leaves in the variant: bind turns a UDP socket into an active
\* one and a TCP socket into a bound one.
StartedKind(bound) ==
    CASE ~bound -> "socket"
      [] bound /\ proto = "tcp" -> "binded"
      [] OTHER -> "active"

\* Lock m_mutex and create the socket.
Start(bound) ==
    /\ ControllerFree
    /\ m_mutex = NoThread
    /\ starts < MaxStarts
    /\ idle
    /\ m_mutex' = Controller
    /\ starts' = starts + 1
    /\ \E fd \in Fds :
          /\ IsLowestFree(fd)
          /\ ksock' = [ksock EXCEPT ![fd] = IF proto = "tcp" THEN "fresh" ELSE "udp"]
          /\ op' = [pc |-> "register", fd |-> fd, kind |-> StartedKind(bound), n |-> 1]
    /\ UNCHANGED <<proto, obsVars, epollVars, rx, state, m_remote, cb, handling,
                   connects, calls>>

\* register_cbs: six calls of add(), each taking the observer's mutex.
RegisterCb ==
    /\ op.pc = "register"
    /\ add(RegisterOrder[op.n], HandlerFor(RegisterOrder[op.n]))
    /\ op' = IF op.n < Len(RegisterOrder) THEN [op EXCEPT !.n = @ + 1]
                                          ELSE [op EXCEPT !.pc = "watch"]
    /\ UNCHANGED <<proto, epollVars, kernelVars, m_mutex, state, m_remote, cb, handling,
                   starts, connects, calls>>

\* Moving the new socket into the variant.  An alternative that changes is
\* destroyed, which closes its socket; an engaged optional that is assigned
\* keeps its object, whose move assignment overwrites the descriptor without
\* closing it.
Destroyed == IF op.kind = "socket" THEN {} ELSE {state.fd}

\* Mutant of WatchSocket: the socket is watched for reading only.
WatchForRead ==
    /\ op.pc = "watch"
    /\ add_socket(op.fd, "READ", Raised[op.fd])
    /\ op' = [op EXCEPT !.pc = "store"]
    /\ UNCHANGED <<proto, obsVars, kernelVars, m_mutex, state, m_remote, cb, handling,
                   starts, connects, calls>>

WatchSocket ==
    /\ op.pc = "watch"
    /\ add_socket(op.fd, "READ_WRITE", Raised[op.fd])
    /\ op' = [op EXCEPT !.pc = "store"]
    /\ UNCHANGED <<proto, obsVars, kernelVars, m_mutex, state, m_remote, cb, handling,
                   starts, connects, calls>>

StoreSocket ==
    /\ op.pc = "store"
    /\ Unwatch(Destroyed)
    /\ Close(Destroyed)
    /\ state' = [kind |-> op.kind, fd |-> op.fd]
    /\ m_mutex' = NoThread
    /\ op' = NoOp
    /\ UNCHANGED <<proto, obsVars, m_remote, cb, handling, starts, connects, calls>>

------------------------------------------------------------------------------
(***************************************************************************)
(* stop().  The socket is taken out of epoll and destroyed, then five of   *)
(* the six handlers are removed; the callbacks and m_remote stay.          *)
(***************************************************************************)
\* Mutant of Stop: the socket is closed before m_mutex is locked.
StopUnlocked ==
    /\ ControllerFree
    /\ del_socket(get_fd)
    /\ Close({get_fd})
    /\ state' = [kind |-> "idle", fd |-> NoFd]
    /\ op' = [NoOp EXCEPT !.pc = "unregister"]
    /\ UNCHANGED <<proto, obsVars, m_mutex, m_remote, cb, handling, starts, connects,
                   calls>>

Stop ==
    /\ ControllerFree
    /\ m_mutex = NoThread
    /\ m_mutex' = Controller
    /\ del_socket(get_fd)
    /\ Close({get_fd})
    /\ state' = [kind |-> "idle", fd |-> NoFd]
    /\ op' = [NoOp EXCEPT !.pc = "unregister"]
    /\ UNCHANGED <<proto, obsVars, m_remote, cb, handling, starts, connects, calls>>

\* Mutant of UnregisterCb: one removal too many.
UnregisterPastEnd ==
    /\ op.pc = "unregister"
    /\ remove(RegisterOrder[op.n])
    /\ IF op.n <= 6 THEN /\ op' = [op EXCEPT !.n = @ + 1]
                         /\ UNCHANGED m_mutex
                    ELSE /\ op' = NoOp
                         /\ m_mutex' = NoThread
    /\ UNCHANGED <<proto, epollVars, kernelVars, state, m_remote, cb, handling, starts,
                   connects, calls>>

\* The last removal is followed by the unlock.
UnregisterCb ==
    /\ op.pc = "unregister"
    /\ remove(RegisterOrder[op.n])
    /\ IF op.n < 5 THEN /\ op' = [op EXCEPT !.n = @ + 1]
                        /\ UNCHANGED m_mutex
                   ELSE /\ op' = NoOp
                        /\ m_mutex' = NoThread
    /\ UNCHANGED <<proto, epollVars, kernelVars, state, m_remote, cb, handling, starts,
                   connects, calls>>

------------------------------------------------------------------------------
(***************************************************************************)
(* connect(), without any lock.  It returns false, with no effect but that *)
(* its static lambdas are now bound to this call, on an empty endpoint, on *)
(* a UDP socket that is not bound, and when the address does not parse or  *)
(* ::connect fails.                                                        *)
(***************************************************************************)
ConnectReturnsFalse ==
    /\ ControllerFree
    /\ connects < MaxConnects
    /\ connects' = connects + 1
    /\ UNCHANGED <<proto, obsVars, epollVars, kernelVars, m_mutex, state, m_remote, cb,
                   op, handling, starts, calls>>

\* Mutant of ConnectSocket: the socket becomes active before the fields are set.
AssignsFirst ==
    /\ ControllerFree
    /\ connects < MaxConnects
    /\ proto = "tcp"
    /\ state.kind \in {"socket", "binded"}
    /\ connects' = connects + 1
    /\ ksock' = [ksock EXCEPT ![state.fd] = "syn_sent"]
    /\ state' = [state EXCEPT !.kind = "active"]
    /\ op' = [NoOp EXCEPT !.pc = "remote"]
    /\ UNCHANGED <<proto, obsVars, epollVars, rx, m_mutex, m_remote, cb, handling, starts,
                   calls>>

\* The socket is still in the variant when ::connect is under way.
ConnectSocket ==
    /\ ControllerFree
    /\ connects < MaxConnects
    /\ proto = "tcp"
    /\ state.kind \in {"socket", "binded"}
    /\ connects' = connects + 1
    /\ ksock' = [ksock EXCEPT ![state.fd] = "syn_sent"]
    /\ op' = [NoOp EXCEPT !.pc = "moving", !.fd = state.fd, !.kind = "active"]
    /\ UNCHANGED <<proto, obsVars, epollVars, rx, m_mutex, state, m_remote, cb, handling,
                   starts, calls>>

\* The descriptor has moved from the variant to the local active socket:
\* get_fd() is -1 until the assignment of state.
MoveSocket ==
    /\ op.pc = "moving"
    /\ state' = [state EXCEPT !.fd = NoFd]
    /\ op' = [op EXCEPT !.pc = "remote"]
    /\ UNCHANGED <<proto, obsVars, epollVars, kernelVars, m_mutex, m_remote, cb, handling,
                   starts, connects, calls>>

\* The active branch: only the fields are set; the socket is left alone.
ConnectActive ==
    /\ ControllerFree
    /\ connects < MaxConnects
    /\ state.kind = "active"
    /\ connects' = connects + 1
    /\ op' = [NoOp EXCEPT !.pc = "remote"]
    /\ UNCHANGED <<proto, obsVars, epollVars, kernelVars, m_mutex, state, m_remote, cb,
                   handling, starts, calls>>

\* set_fields: m_remote, then the callbacks one by one.
SetRemote ==
    /\ op.pc = "remote"
    /\ m_remote' = connects
    /\ op' = [op EXCEPT !.pc = "fields"]
    /\ UNCHANGED <<proto, obsVars, epollVars, kernelVars, m_mutex, state, cb, handling,
                   starts, connects, calls>>

\* set_fields is a static lambda that captured the first call's parameters by
\* reference.  In the first call they are alive; in a later one they dangle,
\* and what is moved from each is this call's function, if the stack slots
\* coincide, or an empty one.
FieldSources == IF connects = 1 THEN {connects} ELSE {connects, 0}

FieldOrder == <<"connect", "read", "disconnect">>

SetCallback ==
    /\ op.pc = "fields"
    /\ \E s \in FieldSources : cb' = [cb EXCEPT ![FieldOrder[op.n]] = s]
    /\ op' = IF op.n < 3 THEN [op EXCEPT !.n = @ + 1]
             ELSE IF op.kind = "active" THEN [op EXCEPT !.pc = "assign"] ELSE NoOp
    /\ UNCHANGED <<proto, obsVars, epollVars, kernelVars, m_mutex, state, m_remote, handling,
                   starts, connects, calls>>

AssignActive ==
    /\ op.pc = "assign"
    /\ state' = [kind |-> "active", fd |-> op.fd]
    /\ op' = NoOp
    /\ UNCHANGED <<proto, obsVars, epollVars, kernelVars, m_mutex, m_remote, cb,
                   handling, starts, connects, calls>>

------------------------------------------------------------------------------
(***************************************************************************)
(* The handlers register_cbs installs, run by a poller that holds the      *)
(* observer's mutex shared.  Each locks m_mutex and compares the event's   *)
(* descriptor with the endpoint's.  erase then takes the descriptor out of *)
(* epoll and calls m_on_disconnect, read calls m_on_read_ready without     *)
(* looking whether it is empty, write calls m_on_connect.  A connect() in  *)
(* another thread may write the callback at any point in between.          *)
(***************************************************************************)
CallbackOf == [erase |-> "disconnect", read |-> "read", write |-> "connect"]

HandlerLocks(t) == act[t].pc = "running" /\ m_mutex = NoThread

\* The handler of t holds m_mutex and is at pc; its callback is c.
HandlerAt(t, pc) == act[t].pc = "running" /\ m_mutex = t /\ handling.pc = pc
HandledCb(t) == CallbackOf[act[t].cur]

\* The event is for another descriptor than the endpoint's.
HandlerIgnores(t) ==
    /\ HandlerLocks(t)
    /\ Current(t).fd # get_fd
    /\ ObsHandlerReturns(t)
    /\ UNCHANGED <<epollVars, kernelVars, clientVars>>

\* Mutant of HandlerMatches: erase leaves the descriptor in epoll.
StaysWatched(t) ==
    /\ HandlerLocks(t)
    /\ Current(t).fd = get_fd
    /\ m_mutex' = t
    /\ handling' = [pc |-> IF act[t].cur = "read" THEN "call" ELSE "test", s |-> 0]
    /\ UNCHANGED <<proto, obsVars, epollVars, kernelVars, state, m_remote, cb, op, starts,
                   connects, calls>>

\* It is for the endpoint's: m_mutex is held from here on.
HandlerMatches(t) ==
    /\ HandlerLocks(t)
    /\ Current(t).fd = get_fd
    /\ m_mutex' = t
    /\ handling' = [pc |-> IF act[t].cur = "read" THEN "call" ELSE "test", s |-> 0]
    /\ IF act[t].cur = "erase" THEN del_socket(get_fd) ELSE UNCHANGED epollVars
    /\ UNCHANGED <<proto, obsVars, kernelVars, state, m_remote, cb, op, starts, connects,
                   calls>>

\* There is no callback to call.
HandlerFindsNone(t) ==
    /\ HandlerAt(t, "test")
    /\ cb[HandledCb(t)] = 0
    /\ m_mutex' = NoThread
    /\ handling' = NoHandling
    /\ ObsHandlerReturns(t)
    /\ UNCHANGED <<proto, epollVars, kernelVars, state, m_remote, cb, op, starts, connects,
                   calls>>

HandlerFindsSome(t) ==
    /\ HandlerAt(t, "test")
    /\ cb[HandledCb(t)] # 0
    /\ handling' = [handling EXCEPT !.pc = "call"]
    /\ UNCHANGED <<proto, obsVars, epollVars, kernelVars, m_mutex, state, m_remote, cb, op,
                   starts, connects, calls>>

\* Calling an empty std::function: bad_function_call.
HandlerCallsEmpty(t) ==
    /\ HandlerAt(t, "call")
    /\ cb[HandledCb(t)] = 0
    /\ m_mutex' = NoThread
    /\ handling' = NoHandling
    /\ ObsHandlerThrows(t)
    /\ UNCHANGED <<proto, epollVars, kernelVars, state, m_remote, cb, op, starts, connects,
                   calls>>

\* History saturates at 2: two is already one too many.
More(n) == IF n < 2 THEN n + 1 ELSE n
Fewer(n) == IF n > 0 THEN n - 1 ELSE n

Noted(s, c) ==
    [calls EXCEPT ![s] =
        [connects    |-> IF c = "connect" THEN More(@.connects) ELSE @.connects,
         disconnects |-> IF c = "disconnect" THEN More(@.disconnects) ELSE @.disconnects,
         last        |-> c]]

\* A call that threw is not counted: the callback stays, to be called again.
Retracted(s, c) ==
    [calls EXCEPT ![s] =
        [connects    |-> IF c = "connect" THEN Fewer(@.connects) ELSE @.connects,
         disconnects |-> IF c = "disconnect" THEN Fewer(@.disconnects) ELSE @.disconnects,
         last        |-> @.last]]

HandlerCalls(t) ==
    /\ HandlerAt(t, "call")
    /\ cb[HandledCb(t)] # 0
    /\ calls' = Noted(cb[HandledCb(t)], HandledCb(t))
    /\ handling' = [pc |-> "body", s |-> cb[HandledCb(t)]]
    /\ UNCHANGED <<proto, obsVars, epollVars, kernelVars, m_mutex, state, m_remote, cb, op,
                   starts, connects>>

InCallback(t) == HandlerAt(t, "body")

\* Mutant of CallbackReturns: the callback is not emptied.
KeepsCallback(t) ==
    /\ InCallback(t)
    /\ IF act[t].cur = "read" THEN rx' = rx \ {Current(t).fd} ELSE UNCHANGED rx
    /\ m_mutex' = NoThread
    /\ handling' = NoHandling
    /\ ObsHandlerReturns(t)
    /\ UNCHANGED <<proto, epollVars, ksock, cb, state, m_remote, op, starts, connects, calls>>

\* on_read_ready has read everything; the other two are called only once.
CallbackReturns(t) ==
    /\ InCallback(t)
    /\ IF act[t].cur = "read"
         THEN /\ rx' = rx \ {Current(t).fd}
              /\ UNCHANGED cb
         ELSE /\ cb' = [cb EXCEPT ![HandledCb(t)] = 0]
              /\ UNCHANGED rx
    /\ m_mutex' = NoThread
    /\ handling' = NoHandling
    /\ ObsHandlerReturns(t)
    /\ UNCHANGED <<proto, epollVars, ksock, state, m_remote, op, starts, connects, calls>>

\* The assignment of nullptr is skipped.
CallbackThrows(t) ==
    /\ InCallback(t)
    /\ HandledCb(t) \in MayThrow
    /\ m_mutex' = NoThread
    /\ handling' = NoHandling
    /\ calls' = Retracted(handling.s, HandledCb(t))
    /\ ObsHandlerThrows(t)
    /\ UNCHANGED <<proto, epollVars, kernelVars, state, m_remote, cb, op, starts, connects>>

------------------------------------------------------------------------------
(***************************************************************************)
(* proceed().                                                              *)
(***************************************************************************)
Connected == state.kind = "active" /\ m_remote # 0 /\ op = NoOp

Poll(t) ==
    /\ t \in Pollers
    /\ t = Controller => op = NoOp
    /\ ConnectFirst => Connected
    /\ \E take \in Takes(Raised) :
          /\ proceed(take, Raised)
          /\ ObsPoll(t, EventsOf(take, Raised))
    /\ UNCHANGED <<kernelVars, clientVars>>

InProceed(t) ==
    \/ ObsStep(t) /\ UNCHANGED <<epollVars, kernelVars, clientVars>>
    \/ HandlerIgnores(t)
    \/ HandlerMatches(t)
    \/ HandlerFindsNone(t)
    \/ HandlerFindsSome(t)
    \/ HandlerCallsEmpty(t)
    \/ HandlerCalls(t)
    \/ CallbackReturns(t)
    \/ CallbackThrows(t)

InControl ==
    \/ RegisterCb
    \/ WatchSocket
    \/ StoreSocket
    \/ UnregisterCb
    \/ MoveSocket
    \/ SetRemote
    \/ SetCallback
    \/ AssignActive

Control ==
    \/ \E bound \in BOOLEAN : Start(bound)
    \/ Stop
    \/ ConnectReturnsFalse
    \/ ConnectSocket
    \/ ConnectActive

Network ==
    \E fd \in Fds :
        /\ \/ Establish(fd)
           \/ Refuse(fd)
           \/ Arrive(fd)
           \/ UrgentArrives(fd)
           \/ PeerCloses(fd)
           \/ PeerResets(fd)
        /\ UNCHANGED <<obsVars, clientVars>>

Next ==
    \/ Control
    \/ InControl
    \/ \E t \in Pollers : Poll(t) \/ InProceed(t)
    \/ Network

Spec == Init /\ [][Next]_vars

(***************************************************************************)
(* Fairness.  A thread inside a call keeps running, a poller calls proceed *)
(* again and again (src/app/client_main.cpp:97-112), and the network       *)
(* settles a connection attempt one way or the other.                      *)
(***************************************************************************)
Settle(fd) == (Establish(fd) \/ Refuse(fd)) /\ UNCHANGED <<obsVars, clientVars>>

FairSpec ==
    /\ Spec
    /\ WF_vars(InControl)
    /\ \A t \in Pollers : WF_vars(InProceed(t)) /\ WF_vars(Poll(t))
    /\ \A fd \in Fds : WF_vars(Settle(fd))

------------------------------------------------------------------------------
(***************************************************************************)
(* Properties.                                                             *)
(***************************************************************************)
OpTypeOK ==
    /\ op \in [pc : {"none", "register", "watch", "store", "unregister", "moving", "remote",
                     "fields", "assign"},
               fd : Fds \cup {NoFd}, kind : {"idle", "socket", "binded", "active"},
               n : 1..6]
    /\ op.pc \in {"register", "watch", "store"} => op.fd \in Fds
    /\ op.pc \in {"moving", "remote"} => op.n = 1
    /\ op.pc = "fields" => op.n <= 3

\* The types of the fields (client.h:79-83, endpoint.h:59-60) and of the
\* operation in progress.
ClientTypeOK ==
    /\ proto \in Protos
    /\ m_mutex \in Threads \cup {NoThread}
    /\ state \in [kind : {"idle", "socket", "binded", "active"}, fd : Fds \cup {NoFd}]
    /\ m_remote \in 0..MaxConnects
    /\ cb \in [Callbacks -> 0..MaxConnects]
    /\ OpTypeOK
    /\ handling \in [pc : {"none", "test", "call", "body"}, s : 0..MaxConnects]
    /\ starts \in 0..MaxStarts
    /\ connects \in 0..MaxConnects
    /\ calls \in [Sessions -> [connects : 0..2, disconnects : 0..2,
                               last : Callbacks \cup {"none"}]]

TypeOK == ObsTypeOK /\ EpollTypeOK /\ KernelTypeOK /\ ClientTypeOK

\* The callbacks of every call of connect() obey the protocol of Session: none
\* runs twice that may run once, and none runs after on_disconnect
\* (client.tpp:143-179).
SessionOf == INSTANCE Session WITH Sessions <- Sessions, calls <- calls
CallbackProtocol == SessionOf!SessionSpec

\* on_connect and on_disconnect run at most once per call of connect(), in any
\* order of calls, however many events report the same condition to however
\* many pollers, and wherever another connect() writes the callback between the
\* test, the call and the assignment of nullptr: none begins while one of the
\* same connect() runs or after one has returned.  One that throws is not
\* counted, for it stays and is called again (client.tpp:74-77, 149-153,
\* 173-177).
CalledAtMostOnce ==
    \A s \in Sessions : calls[s].connects <= 1 /\ calls[s].disconnects <= 1

\* Once stop() has emptied the endpoint no callback is running and none
\* starts, from whichever point its handler is at: the handlers test the
\* descriptor with m_mutex held (client.tpp:53-61, 145-146, 162-163, 170-171).
StopIsBarrier ==
    state.kind = "idle" => \A t \in Threads : ~InCallback(t)

\* recv_impl dereferences m_remote of an active TCP socket without a test
\* (client.tpp:228): it is set before the socket becomes active.
ActiveHasRemote ==
    proto = "tcp" /\ state.kind = "active" => m_remote # 0

\* No thread holds one of the two mutexes and waits for the other while
\* another thread does the opposite: the control operation waits for the
\* observer's mutex with m_mutex held, the handler for m_mutex with the
\* observer's mutex held (client.tpp:12-17, 55-60 against 145, 162, 170).
NoLockCycle ==
    ~ /\ op.pc \in {"register", "unregister"}
      /\ \E t \in sharers : act[t].pc = "running" /\ m_mutex \notin {t, NoThread}

\* "on_disconnect - callback to be called on disconnection" (client.h:58): it is
\* called for a connection that is down or was refused, never for one that is
\* coming up or is up (client.tpp:143-159).
OnDisconnectMeansDown ==
    \A t \in Pollers : InCallback(t) /\ act[t].cur = "erase" =>
        ksock[Current(t).fd] \in {"fin", "reset", "refused"}

\* When an event reports that the peer is gone, on_disconnect is called after
\* everything the peer had sent was handed to on_read_ready, although both
\* come in that one event (event_observer.tpp:84-89, client.tpp:143-167).
DataBeforeDisconnect ==
    \A t \in Pollers :
        /\ InCallback(t)
        /\ act[t].cur = "erase"
        /\ Current(t).type \cap {"PEER_CLOSED", "HANGUP", "ERROR"} # {}
        => Current(t).fd \notin rx

\* An edge that epoll has reported is not lost on the way to its handler: a
\* connection that is up leads to on_connect, unless the client is stopped or
\* given other callbacks (client.tpp:168-179, epoll.cpp:66-85).
ConnectionAnnounced ==
    \A s \in Sessions :
        (Connected /\ m_remote = s /\ ksock[get_fd] \in {"est", "udp"})
          ~> (calls[s].connects > 0 \/ state.kind # "active" \/ connects > s)

\* A connection that is down, refused ones included, leads to on_disconnect,
\* under the same proviso (client.tpp:143-159).
DisconnectionAnnounced ==
    \A s \in Sessions :
        (Connected /\ m_remote = s /\ ksock[get_fd] \in {"fin", "reset", "refused"})
          ~> (calls[s].disconnects > 0 \/ state.kind # "active" \/ connects > s)

\* What arrives on the connection is read, although EPOLLET reports it once,
\* by a callback that reads everything there is (client.tpp:160-167,
\* epoll.cpp:68).
DataAnnounced ==
    \A fd \in Fds : (Connected /\ get_fd = fd /\ fd \in rx) ~> fd \notin rx

------------------------------------------------------------------------------
(***************************************************************************)
(* The inductive invariants behind the theorems.                           *)
(***************************************************************************)
LockedPcs == {"register", "watch", "store", "unregister"}
UnlockedPcs == {"moving", "remote", "fields", "assign"}

\* Who holds m_mutex, and that a thread does one thing at a time.
LockInv ==
    /\ op.pc \in LockedPcs <=> (m_mutex = Controller /\ act[Controller].pc = "out")
    /\ op # NoOp => act[Controller].pc = "out"
    /\ m_mutex # NoThread => op.pc \in LockedPcs \/ act[m_mutex].pc = "running"
    /\ handling.pc # "none" <=> (m_mutex # NoThread /\ op.pc \notin LockedPcs)
    /\ state.kind = "idle" => state.fd = NoFd /\ handling.pc = "none"
    /\ op.pc \in {"register", "watch", "store"} => op.kind # "idle"
    /\ StopIsBarrier

\* Where the remote of an active socket comes from.
RemoteInv ==
    /\ ActiveHasRemote
    /\ op.pc \in UnlockedPcs => connects > 0
    /\ op.pc \in {"fields", "assign"} => m_remote # 0
    /\ op.pc \in {"register", "watch", "store"} /\ proto = "tcp" => op.kind # "active"

\* The connect() in progress has yet to store callback c.
FieldPlace == [connect |-> 1, read |-> 2, disconnect |-> 3]
Due(c) == op.pc \in {"moving", "remote"} \/ (op.pc = "fields" /\ op.n <= FieldPlace[c])

\* Callback c of the s-th connect() is running.
Executes(c, s) ==
    /\ handling = [pc |-> "body", s |-> s]
    /\ m_mutex # NoThread
    /\ HandledCb(m_mutex) = c

\* A stored callback has not run, unless it is running now; the functions of
\* the next connect() are not stored yet.
OnceInv ==
    /\ CalledAtMostOnce
    /\ \A c \in Callbacks : /\ cb[c] <= connects
                            /\ Due(c) => cb[c] < connects
    /\ \A s \in Sessions :
          /\ s > connects \/ (s = connects /\ Due("connect")) => calls[s].connects = 0
          /\ s > connects \/ (s = connects /\ Due("disconnect")) => calls[s].disconnects = 0
    /\ cb["connect"] # 0 /\ calls[cb["connect"]].connects # 0 =>
          Executes("connect", cb["connect"])
    /\ cb["disconnect"] # 0 /\ calls[cb["disconnect"]].disconnects # 0 =>
          Executes("disconnect", cb["disconnect"])
==============================================================================
