---------------------------- MODULE ServerSystem ----------------------------
(***************************************************************************)
(* The server with an application that does what the documentation of      *)
(* start() asks of it (src/include/endpoint/server.h:24-60): it keeps the  *)
(* sockets, or the references, it is given, reads and drops them between   *)
(* polls, and drops those it is told to erase.  ServerApp shows that       *)
(* server_main is such an application.                                     *)
(***************************************************************************)
EXTENDS Server

CONSTANT MayDrop    \* TRUE: the application drops sockets of its own accord

ASSUME SystemAssumption == MayDrop \in BOOLEAN

VARIABLES
    conns,      \* the accepted sockets the application holds
    refs        \* the number of references to a UDP socket that it holds

holdVars == <<conns, refs>>
vars == <<obsVars, epollVars, kernelVars, serverVars, holdVars>>

Init ==
    /\ ServerInit
    /\ conns = {}
    /\ refs = 0

------------------------------------------------------------------------------
(* The callbacks.                                                           *)
\* Mutant of HandOver: the descriptor is asked for after the socket was moved.
HandleAfterMove(t) ==
    /\ HandsOver(t)
    /\ conns' = conns \cup {accepted'}
    /\ UNCHANGED refs

HandOver(t) ==
    /\ HandsOver(t)
    /\ conns' = conns \cup {accepted}
    /\ UNCHANGED refs

HandOverRef(t) ==
    /\ HandsOverRef(t)
    /\ refs' = refs + 1
    /\ UNCHANGED conns

\* Mutant of EraseActiveSocket: the socket leaves the list without being
\* destroyed.
ForgetsSocket(t) ==
    /\ CallsErase(t)
    /\ conns' = conns \ {Current(t).fd}
    /\ UNCHANGED <<kernelVars, refs>>

\* erase_active_socket drops the socket with that descriptor, which closes it;
\* on_close drops every reference.
EraseActiveSocket(t) ==
    /\ CallsErase(t)
    /\ Close({Current(t).fd} \cap conns)
    /\ conns' = conns \ {Current(t).fd}
    /\ refs' = 0

\* Mutant of Destroy: on_close is not called.
DestroyQuietly == Destroys /\ UNCHANGED holdVars

Destroy == Destroys /\ refs' = 0 /\ UNCHANGED conns

------------------------------------------------------------------------------
(***************************************************************************)
(* The application outside the callbacks, in the thread that started the   *)
(* server: it reads a socket, or drops one.                                *)
(***************************************************************************)
AppOutside == act[Controller].pc = "out" /\ m_mutex = NoThread

Readable == IF refs > 0 THEN {state.fd} ELSE conns

AppReads(fd) ==
    /\ AppOutside
    /\ fd \in Readable \cap rx
    /\ rx' = rx \ {fd}
    /\ UNCHANGED <<obsVars, epollVars, ksock, serverVars, holdVars>>

AppDrops(fd) ==
    /\ MayDrop
    /\ AppOutside
    /\ fd \in conns
    /\ Close({fd})
    /\ Unwatch({fd})
    /\ conns' = conns \ {fd}
    /\ UNCHANGED <<obsVars, serverVars, refs>>

AppDropsRef ==
    /\ MayDrop
    /\ AppOutside
    /\ refs > 0
    /\ refs' = refs - 1
    /\ UNCHANGED <<obsVars, epollVars, kernelVars, serverVars, conns>>

------------------------------------------------------------------------------
Network ==
    \/ (PeerConnects \/ DatagramArrives) /\ UNCHANGED holdVars
    \/ \E fd \in Fds :
          /\ \/ proto = "tcp" /\ Arrive(fd)
             \/ UrgentArrives(fd)
             \/ PeerCloses(fd)
             \/ PeerResets(fd)
          /\ UNCHANGED <<obsVars, serverVars, holdVars>>

InProceed(t) ==
    \/ (InEndpoint(t) \/ Accept(t)) /\ UNCHANGED holdVars
    \/ HandOver(t)
    \/ HandOverRef(t)
    \/ EraseActiveSocket(t)

Next ==
    \/ (Start \/ InStart) /\ UNCHANGED holdVars
    \/ Destroy
    \/ \E t \in Threads : \/ Poll(t) /\ UNCHANGED holdVars
                          \/ InProceed(t)
    \/ \E fd \in Fds : AppReads(fd) \/ AppDrops(fd)
    \/ AppDropsRef
    \/ Network

Spec == Init /\ [][Next]_vars

\* A thread inside a call keeps running, and a poller calls proceed again and
\* again (src/app/server_main.cpp:119-121).
FairSpec ==
    /\ Spec
    /\ WF_vars(InStart /\ UNCHANGED holdVars)
    /\ \A t \in Threads : /\ WF_vars(InProceed(t))
                          /\ WF_vars(Poll(t) /\ UNCHANGED holdVars)

------------------------------------------------------------------------------
(***************************************************************************)
(* Properties.                                                             *)
(***************************************************************************)
Down == {"fin", "reset"}

\* The types of the fields (server.h:91-93, endpoint.h:59-60) and of what the
\* application holds.
TypeOK ==
    /\ ServerTypeOK
    /\ conns \subseteq Fds
    /\ refs \in 0..MaxPeers

\* No descriptor leaks and none dangles: what is open is the server's socket,
\* the one a handler has just accepted, or held by the application, and all of
\* these are open and distinct, however accept, erase, the application's own
\* drops and the reuse of numbers interleave (server.tpp:99-128).
DescriptorsOwned ==
    /\ {fd \in Fds : ksock[fd] # "free"} = conns \cup ({state.fd, accepted} \ {NoFd})
    /\ state.fd \notin conns
    /\ accepted \notin conns
    /\ accepted = state.fd => accepted = NoFd

\* "erase_active_socket - callback to be called on terminated connection"
\* (server.h:30): a handler that is about to call it for a socket the
\* application holds has a peer that closed or reset it (server.tpp:99-108).
OnlyTerminatedErased ==
    \A t \in Threads : InErase(t) /\ Current(t).fd \in conns =>
        ksock[Current(t).fd] \in Down

\* A connection the application holds is watched by epoll until its
\* termination is being announced (server.tpp:102-103, 123-126).
HeldMeansWatched ==
    state.kind = "listening" =>
        \A fd \in conns : \/ interest[fd] # {}
                          \/ \E t \in Threads : InErase(t) /\ Current(t).fd = fd

\* The references to the server's socket do not outlive it: on_close has told
\* the application to drop all it was ever given, and none is handed out
\* afterwards (server.h:49-52, server.tpp:74, 114-117, 152-160).
RefsEndWithServer == refs > 0 => state.kind = "listening" /\ ksock[state.fd] = "udp"

\* The application is told of every connection that terminates
\* (server.h:30, server.tpp:99-108).
TerminationAnnounced ==
    \A fd \in Fds : (fd \in conns /\ ksock[fd] \in Down /\ state.kind = "listening")
                      ~> (fd \notin conns \/ state.kind # "listening")

\* Every connection in the queue is accepted: on_conn is called on a new
\* incoming connection (server.h:29, server.tpp:109-128).
EveryPeerAccepted ==
    \A n \in 1..MaxPeers :
        (peers >= n /\ state.kind = "listening")
          ~> (peers - pending >= n \/ state.kind # "listening")
==============================================================================
