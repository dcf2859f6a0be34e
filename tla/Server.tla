------------------------------- MODULE Server -------------------------------
(***************************************************************************)
(* server_t (src/src/endpoint/server.tpp), TCP and UDP, over the observer, *)
(* epoll and the kernel's sockets.                                         *)
(*                                                                         *)
(* start holds m_mutex to its end, so what it does to the fields is one    *)
(* step; its registrations are steps of their own because a poller may     *)
(* hold the observer's mutex.  The handlers run with the observer's mutex  *)
(* shared, lock m_mutex and call the application with it held.             *)
(*                                                                         *)
(* What the application does in a callback is left to the module that      *)
(* extends this one: HandsOver, HandsOverRef, CallsErase and Destroys are  *)
(* the server's half of a step whose other half is the application's.      *)
(***************************************************************************)
EXTENDS EventObserver, KernelSocket

CONSTANTS
    Protos,         \* the protocols the template is instantiated with
    Controller,     \* the thread that starts and destroys the server
    NoThread,
    Backlog,        \* what the kernel queues for listen(max_conns)
    MaxPeers        \* bound: connections that peers open, or datagrams

ASSUME ServerAssumption ==
    /\ Fds \subseteq Nat /\ IsFiniteSet(Fds)
    /\ Protos \subseteq {"tcp", "udp"}
    /\ Controller \in Threads
    /\ NoThread \notin Threads
    /\ Backlog \in Nat \ {0}
    /\ MaxPeers \in Nat
    /\ Handlers = {"erase", "read"}

NoFd == -1

VARIABLES
    proto,      \* the template argument Proto; never changes
    m_mutex,    \* the thread that holds server_t::m_mutex, or NoThread
    state,      \* "idle", "listening" (active, for UDP) or "destroyed", with
                \* the descriptor
    op,         \* start() in progress: the registration due, 0 for none
    accepted,   \* the local of the READ_READY handler: accepted, not handed on
    pending,    \* connections in the listener's queue
    peers       \* connections opened, or datagrams sent, so far

serverVars == <<proto, m_mutex, state, op, accepted, pending, peers>>

ServerInit ==
    /\ ObsInit
    /\ EpollInit
    /\ KernelInit
    /\ proto \in Protos
    /\ m_mutex = NoThread
    /\ state = [kind |-> "idle", fd |-> NoFd]
    /\ op = 0
    /\ accepted = NoFd
    /\ pending = 0
    /\ peers = 0

\* Closing descriptors: the kernel forgets them.
Close(fds) ==
    /\ ksock' = [fd \in Fds |-> IF fd \in fds THEN "free" ELSE ksock[fd]]
    /\ rx' = rx \ fds

------------------------------------------------------------------------------
(***************************************************************************)
(* start().  A call that returns false - not idle, a bad address, bind or  *)
(* listen refused - leaves nothing behind and is a stuttering step.        *)
(***************************************************************************)
RegisterOrder == <<"PEER_CLOSED", "ERROR", "HANGUP", "EXCEPTION", "READ_READY">>

HandlerFor(tp) == IF tp = "READ_READY" THEN "read" ELSE "erase"

Start ==
    /\ act[Controller].pc = "out"
    /\ m_mutex = NoThread
    /\ state.kind = "idle"
    /\ \E fd \in Fds :
          /\ IsLowestFree(fd)
          /\ ksock' = [ksock EXCEPT ![fd] = IF proto = "tcp" THEN "listen" ELSE "udp"]
          /\ state' = [state EXCEPT !.fd = fd]      \* the local socket
    /\ m_mutex' = Controller
    /\ op' = 1
    /\ UNCHANGED <<obsVars, epollVars, rx, proto, accepted, pending, peers>>

RegisterCb ==
    /\ op \in 1..Len(RegisterOrder)
    /\ add(RegisterOrder[op], HandlerFor(RegisterOrder[op]))
    /\ op' = op + 1
    /\ UNCHANGED <<epollVars, kernelVars, proto, m_mutex, state, accepted, pending, peers>>

\* add_socket, the assignments of state and of the callbacks, and the unlock.
Listen ==
    /\ op > Len(RegisterOrder)
    /\ add_socket(state.fd, "READ", Raised[state.fd])
    /\ state' = [state EXCEPT !.kind = "listening"]
    /\ m_mutex' = NoThread
    /\ op' = 0
    /\ UNCHANGED <<obsVars, kernelVars, proto, accepted, pending, peers>>

InStart == RegisterCb \/ Listen

\* The destructor, once no thread uses the server: it calls the application's
\* erase callback with -1, unregisters the handlers and closes the socket and
\* epoll.  The accepted sockets stay open.
Destroys ==
    /\ \A t \in Threads : act[t].pc = "out"
    /\ m_mutex = NoThread
    /\ state.kind = "listening"
    /\ m_handlers' = [key \in Keys |-> IF key \in Range(RegisterOrder) THEN NoHandler
                                                                     ELSE m_handlers[key]]
    /\ Unwatch(Fds)
    /\ Close({state.fd})
    /\ pending' = 0
    /\ state' = [kind |-> "destroyed", fd |-> NoFd]
    /\ UNCHANGED <<sharers, act, proto, m_mutex, op, accepted, peers>>

------------------------------------------------------------------------------
(***************************************************************************)
(* The handlers.                                                           *)
(***************************************************************************)
HandlerLocks(t) == act[t].pc = "running" /\ m_mutex = NoThread

ListenerReady(t) == act[t].cur = "read" /\ Current(t).fd = state.fd

\* READ_READY of another descriptor: the application reads its own sockets.
HandlerIgnores(t) ==
    /\ HandlerLocks(t)
    /\ act[t].cur = "read" /\ ~ListenerReady(t)
    /\ ObsHandlerReturns(t)
    /\ UNCHANGED <<epollVars, kernelVars, serverVars>>

\* accept() finds no connection, or no free descriptor.
AcceptFails(t) ==
    /\ HandlerLocks(t)
    /\ ListenerReady(t)
    /\ proto = "tcp"
    /\ pending = 0 \/ FreeFds = {}
    /\ ObsHandlerReturns(t)
    /\ UNCHANGED <<epollVars, kernelVars, serverVars>>

\* accept() takes one connection.  The peer may already have closed or reset
\* it, or sent something, urgent data included.
AcceptedStates == {"est", "fin", "reset"} \cup (IF UrgentData THEN {"urgent"} ELSE {})

Accept(t) ==
    /\ HandlerLocks(t)
    /\ ListenerReady(t)
    /\ proto = "tcp"
    /\ pending > 0
    /\ \E fd \in Fds, st \in AcceptedStates, data \in BOOLEAN :
          /\ IsLowestFree(fd)
          /\ ksock' = [ksock EXCEPT ![fd] = st]
          /\ rx' = (IF pending = 1 THEN rx \ {state.fd} ELSE rx)
                      \cup (IF data THEN {fd} ELSE {})
          /\ accepted' = fd
    /\ pending' = pending - 1
    /\ m_mutex' = t
    /\ UNCHANGED <<obsVars, epollVars, proto, state, op, peers>>

\* Mutant of HandsOver: the accepted socket is not added to epoll.
HandsOverOnly(t) ==
    /\ act[t].pc = "running" /\ act[t].cur = "read" /\ m_mutex = t
    /\ accepted' = NoFd
    /\ m_mutex' = NoThread
    /\ ObsHandlerReturns(t)
    /\ UNCHANGED <<epollVars, kernelVars, proto, state, op, pending, peers>>

\* add_socket and m_on_conn.
HandsOver(t) ==
    /\ act[t].pc = "running" /\ act[t].cur = "read" /\ m_mutex = t
    /\ add_socket(accepted, "READ", Raised[accepted])
    /\ accepted' = NoFd
    /\ m_mutex' = NoThread
    /\ ObsHandlerReturns(t)
    /\ UNCHANGED <<kernelVars, proto, state, op, pending, peers>>

\* A datagram server hands on a reference to its own socket.
HandsOverRef(t) ==
    /\ HandlerLocks(t)
    /\ ListenerReady(t)
    /\ proto = "udp"
    /\ ObsHandlerReturns(t)
    /\ UNCHANGED <<epollVars, kernelVars, serverVars>>

\* erase: the descriptor leaves epoll ...
HandlerErases(t) ==
    /\ HandlerLocks(t)
    /\ act[t].cur = "erase"
    /\ del_socket(Current(t).fd)
    /\ m_mutex' = t
    /\ UNCHANGED <<obsVars, kernelVars, proto, state, op, accepted, pending, peers>>

InErase(t) == act[t].pc = "running" /\ act[t].cur = "erase" /\ m_mutex = t

\* ... and m_erase_active_socket is called, which may close sockets.
CallsErase(t) ==
    /\ InErase(t)
    /\ m_mutex' = NoThread
    /\ ObsHandlerReturns(t)
    /\ UNCHANGED <<epollVars, proto, state, op, accepted, pending, peers>>

------------------------------------------------------------------------------
(* proceed(), and the network.                                              *)
Poll(t) ==
    /\ t = Controller => op = 0
    /\ state.kind # "destroyed"
    /\ \E take \in Takes(Raised) :
          /\ proceed(take, Raised)
          /\ ObsPoll(t, EventsOf(take, Raised))
    /\ UNCHANGED <<kernelVars, serverVars>>

\* The steps of proceed() that do not call the application.
InEndpoint(t) ==
    \/ ObsStep(t) /\ UNCHANGED <<epollVars, kernelVars, serverVars>>
    \/ HandlerIgnores(t)
    \/ AcceptFails(t)
    \/ HandlerErases(t)

PeerConnects ==
    /\ proto = "tcp"
    /\ peers < MaxPeers
    /\ state.fd \in Fds
    /\ pending < Backlog
    /\ peers' = peers + 1
    /\ pending' = pending + 1
    /\ rx' = rx \cup {state.fd}
    /\ Wake(state.fd)
    /\ UNCHANGED <<obsVars, ksock, proto, m_mutex, state, op, accepted>>

DatagramArrives ==
    /\ proto = "udp"
    /\ peers < MaxPeers
    /\ state.fd \in Fds
    /\ peers' = peers + 1
    /\ Arrive(state.fd)
    /\ UNCHANGED <<obsVars, proto, m_mutex, state, op, accepted, pending>>

ServerTypeOK ==
    /\ ObsTypeOK /\ EpollTypeOK /\ KernelTypeOK
    /\ proto \in Protos
    /\ m_mutex \in Threads \cup {NoThread}
    /\ state \in [kind : {"idle", "listening", "destroyed"}, fd : Fds \cup {NoFd}]
    /\ op \in 0..6
    /\ accepted \in Fds \cup {NoFd}
    /\ pending \in 0..Backlog
    /\ peers \in 0..MaxPeers
==============================================================================
