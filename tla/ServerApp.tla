----------------------------- MODULE ServerApp ------------------------------
(***************************************************************************)
(* server_main (src/app/server_main.cpp), one thread: it calls proceed()   *)
(* and then goes through active_sockets, drains each socket, answers what  *)
(* it has read and goes on, until a signal clears main_loop.               *)
(*                                                                         *)
(* An element of active_sockets owns its socket through a pointer into     *)
(* itself (src/app/base_socket.h), and moving it copies the pointer: own   *)
(* is FALSE of an element that the vector has moved.  Using or destroying  *)
(* such an element is undefined; the process is then "undefined", and      *)
(* nothing is said of it any more.                                         *)
(***************************************************************************)
EXTENDS Server, SocketIO, Service

CONSTANTS
    Senders,        \* who sends datagrams
    Requests,       \* the requests one message may hold, << >> for no byte
    MaxMessages     \* bound: messages the peers send

ASSUME AppAssumption ==
    /\ Threads = {Controller}
    /\ Senders \subseteq Nat \ {0}
    /\ Requests \subseteq Seq(Nat \cup {Word})
    /\ MaxMessages \in Nat

VARIABLES
    main,           \* where main() is: "poll", "proceed", "scan", "reply", or
                    \* how it ended: "done", "exited", "crashed", "undefined"
    main_loop,
    active_sockets,
    capacity,       \* of the vector
    it,             \* the iterator, as an index
    messages,       \* messages sent so far
    owed,           \* history, per descriptor: messages not answered yet
    answer,         \* history: the last answer sent in this scan, or None
    crowded,        \* history: the vector has held two elements at once
    blank           \* history: a datagram without a byte was received

appVars == <<main, main_loop, active_sockets, capacity, it, messages, owed, answer,
             crowded, blank>>
vars == <<obsVars, epollVars, kernelVars, serverVars, ioVars, appVars>>

None == [to |-> 0, parts |-> << >>, req |-> << >>, resp |-> create_response(<< >>)]

Init ==
    /\ ServerInit
    /\ IOInit
    /\ main = "poll"
    /\ main_loop = TRUE
    /\ active_sockets = << >>
    /\ capacity = 0
    /\ it = 1
    /\ messages = 0
    /\ owed = [fd \in Fds |-> 0]
    /\ answer = None
    /\ crowded = FALSE
    /\ blank = FALSE

Dead == main \in {"done", "exited", "crashed", "undefined"}

\* What the socket of an element reads and writes: accepted_sock has its own
\* descriptor, accepted_sock_ref that of the server.
FdOf(e) == IF proto = "tcp" THEN e.fd ELSE state.fd

Elements == DOMAIN active_sockets
This == active_sockets[it]

------------------------------------------------------------------------------
(***************************************************************************)
(* The vector of base_socket.  Growing it moves every element.             *)
(***************************************************************************)
Moved(e) == [e EXCEPT !.own = FALSE]

\* remote, second and parts are m_remote of accepted_sock_ref, the request
\* read so far, and (history) the senders of its messages.
emplace_back(fd) ==
    LET grows == Len(active_sockets) = capacity
        old   == IF grows THEN [i \in Elements |-> Moved(active_sockets[i])]
                          ELSE active_sockets
    IN  /\ active_sockets' = Append(old, [own |-> TRUE, fd |-> fd, remote |-> 0,
                                          second |-> << >>, parts |-> << >>])
        /\ capacity' = IF ~grows THEN capacity ELSE IF capacity = 0 THEN 1 ELSE 2 * capacity
        /\ crowded' = (crowded \/ active_sockets # << >>)

\* The elements behind the erased one move up.
Without(i) ==
    [j \in 1..Len(active_sockets) - 1 |->
        IF j < i THEN active_sockets[j] ELSE Moved(active_sockets[j + 1])]

------------------------------------------------------------------------------
(***************************************************************************)
(* The callbacks of init(), called by the server's handlers.               *)
(***************************************************************************)
OnConn(t) ==
    /\ HandsOver(t)
    /\ emplace_back(accepted)
    /\ UNCHANGED <<ioVars, main, main_loop, it, messages, owed, answer, blank>>

OnConnUdp(t) ==
    /\ HandsOverRef(t)
    /\ emplace_back(NoFd)
    /\ UNCHANGED <<ioVars, main, main_loop, it, messages, owed, answer, blank>>

Matches(t) == {i \in Elements : active_sockets[i].fd = Current(t).fd}

\* remove_if and erase: the socket is destroyed, which closes it.
EraseActiveSocket(t) ==
    /\ CallsErase(t)
    /\ \A i \in Matches(t) : active_sockets[i].own
    /\ LET fds == {active_sockets[i].fd : i \in Matches(t)}
       IN  /\ Close(fds)
           /\ Forget(fds)
           /\ owed' = [fd \in Fds |-> IF fd \in fds THEN 0 ELSE owed[fd]]
    /\ active_sockets' = IF Matches(t) = {} THEN active_sockets
                                            ELSE Without(CHOOSE i \in Matches(t) : TRUE)
    /\ UNCHANGED <<errno, main, main_loop, capacity, it, messages, answer, crowded, blank>>

EraseUndefined(t) ==
    /\ InErase(t)
    /\ \E i \in Matches(t) : ~active_sockets[i].own
    /\ main' = "undefined"
    /\ UNCHANGED <<obsVars, epollVars, kernelVars, serverVars, ioVars, main_loop,
                   active_sockets, capacity, it, messages, owed, answer, crowded, blank>>

------------------------------------------------------------------------------
(***************************************************************************)
(* The main loop.                                                          *)
(***************************************************************************)
At(pc, next) ==
    /\ main = pc
    /\ main' = next

\* The part of the state that only the endpoint changes.
endpointVars == <<obsVars, serverVars>>

Booting ==
    /\ main = "poll"
    /\ Start \/ InStart
    /\ UNCHANGED <<ioVars, appVars>>

\* Mutant of CallProceed: the loop does not look at main_loop.
LoopsForever ==
    /\ At("poll", "proceed")
    /\ state.kind = "listening"
    /\ Poll(Controller)
    /\ answer' = None
    /\ UNCHANGED <<ioVars, main_loop, active_sockets, capacity, it, messages, owed,
                   crowded, blank>>

CallProceed ==
    /\ At("poll", "proceed")
    /\ main_loop
    /\ state.kind = "listening"
    /\ Poll(Controller)
    /\ answer' = None
    /\ UNCHANGED <<ioVars, main_loop, active_sockets, capacity, it, messages, owed,
                   crowded, blank>>

BeginScan ==
    /\ At("proceed", "scan")
    /\ act[Controller].pc = "out"
    /\ UNCHANGED <<endpointVars, epollVars, kernelVars, ioVars, main_loop, active_sockets,
                   capacity, it, messages, owed, answer, crowded, blank>>

\* Mutant of EndScan: the iterator is not set back.
NoRestart ==
    /\ At("scan", "poll")
    /\ it > Len(active_sockets)
    /\ UNCHANGED <<endpointVars, epollVars, kernelVars, ioVars, main_loop, active_sockets,
                   capacity, it, messages, owed, answer, crowded, blank>>

EndScan ==
    /\ At("scan", "poll")
    /\ it > Len(active_sockets)
    /\ it' = 1
    /\ UNCHANGED <<endpointVars, epollVars, kernelVars, ioVars, main_loop, active_sockets,
                   capacity, messages, owed, answer, crowded, blank>>

\* it->first.socket is used.
Dereferences == main = "scan" /\ it <= Len(active_sockets) /\ This.own

ScanUndefined ==
    /\ At("scan", "undefined")
    /\ it <= Len(active_sockets)
    /\ ~This.own
    /\ UNCHANGED <<endpointVars, epollVars, kernelVars, ioVars, main_loop, active_sockets,
                   capacity, it, messages, owed, answer, crowded, blank>>

\* recv() returns bytes, which are appended to the request.
RecvData ==
    /\ Dereferences
    /\ ReceivesData(FdOf(This))
    /\ LET m == Head(inbox[FdOf(This)])
       IN  /\ active_sockets' = [active_sockets EXCEPT ![it].remote = m.from,
                ![it].second = Join(@, m.req), ![it].parts = Append(@, m.from)]
           /\ blank' = (blank \/ m.req = << >>)
    /\ UNCHANGED <<endpointVars, epollVars, main, main_loop, capacity, it, messages, owed,
                   answer, crowded>>

\* recv() returns 0 bytes: nothing is appended, and the loop goes on.
RecvEof ==
    /\ Dereferences
    /\ ReceivesEof(FdOf(This))
    /\ UNCHANGED <<endpointVars, epollVars, appVars>>

\* Mutant of RecvEnds: the test of finished_recv() is inverted.
AnswersUnfinished ==
    /\ Dereferences
    /\ WouldBlock(FdOf(This)) \/ ReceivesError(FdOf(This))
    /\ IF ~again_or_would_block' /\ This.second # << >>
         THEN main' = "reply" /\ UNCHANGED it
         ELSE it' = it + 1 /\ UNCHANGED main
    /\ UNCHANGED <<endpointVars, epollVars, main_loop, active_sockets, capacity, messages,
                   owed, answer, crowded, blank>>

\* recv() returns nullopt: finished_recv() is asked why.
RecvEnds ==
    /\ Dereferences
    /\ WouldBlock(FdOf(This)) \/ ReceivesError(FdOf(This))
    /\ IF again_or_would_block' /\ This.second # << >>
         THEN main' = "reply" /\ UNCHANGED it
         ELSE it' = it + 1 /\ UNCHANGED main
    /\ UNCHANGED <<endpointVars, epollVars, main_loop, active_sockets, capacity, messages,
                   owed, answer, crowded, blank>>

------------------------------------------------------------------------------
(* create_response and send.                                                *)
Answer == [to |-> This.remote, parts |-> This.parts, req |-> This.second,
           resp |-> create_response(This.second)]

\* The messages of the request are accounted for.
Settled == [owed EXCEPT ![FdOf(This)] = @ - Len(This.parts)]

ResponseThrows ==
    /\ At("reply", "crashed")
    /\ ParseThrows(This.second)
    /\ UNCHANGED <<endpointVars, epollVars, kernelVars, ioVars, main_loop, active_sockets,
                   capacity, it, messages, owed, answer, crowded, blank>>

\* Mutant of Answered: the request is not cleared.
AnsweredNotCleared ==
    /\ At("reply", "scan")
    /\ ~ParseThrows(This.second)
    /\ Sends(FdOf(This))
    /\ answer' = Answer
    /\ owed' = Settled
    /\ IF proto = "tcp" THEN UNCHANGED active_sockets
                        ELSE active_sockets' = Without(it)
    /\ UNCHANGED <<endpointVars, epollVars, main_loop, capacity, it, messages, crowded, blank>>

\* Mutant of Answered: the reference is kept like a TCP socket.
KeepsReference ==
    /\ At("reply", "scan")
    /\ ~ParseThrows(This.second)
    /\ Sends(FdOf(This))
    /\ answer' = Answer
    /\ owed' = Settled
    /\ active_sockets' = [active_sockets EXCEPT ![it].second = << >>, ![it].parts = << >>]
    /\ UNCHANGED <<endpointVars, epollVars, main_loop, capacity, it, messages, crowded, blank>>

\* Sent.  A TCP socket is kept, and looked at once more; a reference has
\* served its purpose.
Answered ==
    /\ At("reply", "scan")
    /\ ~ParseThrows(This.second)
    /\ Sends(FdOf(This))
    /\ answer' = Answer
    /\ owed' = Settled
    /\ active_sockets' =
          IF proto = "tcp"
            THEN [active_sockets EXCEPT ![it].second = << >>, ![it].parts = << >>]
            ELSE Without(it)
    /\ UNCHANGED <<endpointVars, epollVars, main_loop, capacity, it, messages, crowded, blank>>

\* Mutant of ReplyFails: the socket is erased without being closed.
ReplyLeaks ==
    /\ At("reply", "scan")
    /\ ~ParseThrows(This.second)
    /\ active_sockets' = Without(it)
    /\ errno' = IF Gone(FdOf(This)) THEN "other" ELSE "EAGAIN"
    /\ owed' = IF proto = "tcp" THEN [owed EXCEPT ![This.fd] = 0] ELSE Settled
    /\ UNCHANGED <<endpointVars, epollVars, kernelVars, inbox, failed, main_loop, capacity,
                   it, messages, answer, crowded, blank>>

\* Not sent: the element is erased, which closes a TCP socket.
ReplyFails ==
    /\ At("reply", "scan")
    /\ ~ParseThrows(This.second)
    /\ active_sockets' = Without(it)
    /\ errno' = IF Gone(FdOf(This)) THEN "other" ELSE "EAGAIN"
    /\ IF proto = "tcp"
         THEN /\ Close({This.fd}) /\ Unwatch({This.fd}) /\ Forget({This.fd})
              /\ owed' = [owed EXCEPT ![This.fd] = 0]
         ELSE /\ owed' = Settled
              /\ UNCHANGED <<epollVars, kernelVars, inbox, failed>>
    /\ UNCHANGED <<endpointVars, main_loop, capacity, it, messages, answer, crowded, blank>>

SendKills ==
    /\ At("reply", "crashed")
    /\ ~ParseThrows(This.second)
    /\ MayRaiseSigpipe(FdOf(This))
    /\ UNCHANGED <<endpointVars, epollVars, kernelVars, ioVars, main_loop, active_sockets,
                   capacity, it, messages, owed, answer, crowded, blank>>

------------------------------------------------------------------------------
\* SIGTERM or SIGINT: the first clears main_loop, the second calls exit().
Signal ==
    /\ ~Dead
    /\ state.kind = "listening"
    /\ main_loop' = FALSE
    /\ main' = IF main_loop THEN main ELSE "exited"
    /\ UNCHANGED <<endpointVars, epollVars, kernelVars, ioVars, active_sockets,
                   capacity, it, messages, owed, answer, crowded, blank>>

\* The loop ends and main() returns: the server is destroyed, and on_close
\* clears the vector of a UDP server.
Leave ==
    /\ At("poll", "done")
    /\ ~main_loop
    /\ Destroys
    /\ Forget({state.fd})
    /\ owed' = [owed EXCEPT ![state.fd] = 0]
    /\ active_sockets' = IF proto = "udp" THEN << >> ELSE active_sockets
    /\ UNCHANGED <<errno, main_loop, capacity, it, messages, answer, crowded, blank>>

------------------------------------------------------------------------------
(* The network.                                                             *)
Message == [from : Senders, req : Requests]

\* A stream has one sender, and only a datagram may be empty.
MayCarry(m) == proto = "tcp" => m.req # << >> /\ \A s \in Senders : m.from <= s

Counts(fd) ==
    /\ messages < MaxMessages
    /\ messages' = messages + 1
    /\ owed' = [owed EXCEPT ![fd] = @ + 1]
    /\ UNCHANGED <<main, main_loop, active_sockets, capacity, it, answer, crowded, blank>>

\* A connection is accepted with what its peer has already done to it.
Accepts(t) ==
    /\ Accept(t)
    /\ failed' = IF ksock'[accepted'] = "reset" THEN failed \cup {accepted'} ELSE failed
    /\ IF accepted' \in rx'
         THEN /\ Counts(accepted')
              /\ \E m \in Message : MayCarry(m) /\ inbox' = [inbox EXCEPT ![accepted'] = <<m>>]
         ELSE UNCHANGED <<inbox, appVars>>
    /\ UNCHANGED errno

Arrival ==
    \E m \in Message :
        /\ MayCarry(m)
        /\ \/ /\ DatagramArrives
              /\ Counts(state.fd)
              /\ inbox' = [inbox EXCEPT ![state.fd] = Append(@, m)]
              /\ UNCHANGED <<failed, errno>>
           \/ \E fd \in Fds :
              /\ proto = "tcp"
              /\ Delivers(fd, m)
              /\ Counts(fd)
              /\ UNCHANGED endpointVars

Network ==
    /\ ~Dead
    /\ \/ PeerConnects /\ UNCHANGED <<ioVars, appVars>>
       \/ Arrival
       \/ \E fd \in Fds : /\ \/ UrgentArrives(fd) /\ UNCHANGED ioVars
                             \/ PeerCloses(fd) /\ UNCHANGED ioVars
                             \/ PeerResets(fd) /\ Fails(fd)
                          /\ UNCHANGED <<endpointVars, appVars>>

------------------------------------------------------------------------------
InProceed(t) ==
    /\ main = "proceed"
    /\ \/ InEndpoint(t) /\ UNCHANGED <<ioVars, appVars>>
       \/ Accepts(t)
       \/ OnConn(t)
       \/ OnConnUdp(t)
       \/ EraseActiveSocket(t)
       \/ EraseUndefined(t)

Scan == BeginScan \/ EndScan \/ ScanUndefined \/ RecvData \/ RecvEof \/ RecvEnds

Reply == ResponseThrows \/ Answered \/ ReplyFails \/ SendKills

Main == Booting \/ CallProceed \/ InProceed(Controller) \/ Scan \/ Reply \/ Leave

Next == Main \/ Signal \/ Network

\* The only thread of the process keeps running.
Spec == Init /\ [][Next]_vars /\ WF_vars(Main)

------------------------------------------------------------------------------
(***************************************************************************)
(* Properties.                                                             *)
(***************************************************************************)
\* The types of the loop's variables (server_main.cpp:20, 32, 117-122) and of
\* base_socket (base_socket.h:43-44).
AppTypeOK ==
    /\ ServerTypeOK
    /\ errno \in {"EAGAIN", "other"}
    /\ failed \subseteq Fds
    /\ main \in {"poll", "proceed", "scan", "reply", "done", "exited",
                "crashed", "undefined"}
    /\ it \in 1..Len(active_sockets) + 1
    /\ \A i \in Elements : active_sockets[i].fd \in (IF proto = "tcp" THEN Fds ELSE {NoFd})
    /\ Len(active_sockets) <= capacity

\* server_main is the application that ServerSystem describes: seen as a set
\* of descriptors, or a number of references, its vector of self-referring
\* elements obeys the server's contract (server_main.cpp:34-74, 119-148,
\* server.h:24-60).
Held == {active_sockets[i].fd : i \in Elements} \ {NoFd}
Refs == IF proto = "udp" THEN Len(active_sockets) ELSE 0

System == INSTANCE ServerSystem WITH conns <- Held, refs <- Refs, MayDrop <- TRUE

ImplementsSystem == System!Spec

\* How many messages each element has read, and those read from one descriptor.
Read == [i \in Elements |-> Len(active_sockets[i].parts)]

InRequests(fd) ==
    MapThenSumSet(LAMBDA i : Read[i], {i \in Elements : FdOf(active_sockets[i]) = fd})

\* Every message is in the receive buffer, in the one request it was appended
\* to, or accounted for: none is answered twice and none is lost while its
\* connection lives (server_main.cpp:122-147).
AnsweredOnce ==
    \A fd \in Fds : owed[fd] = Len(inbox[fd]) + InRequests(fd)

\* The answer is the sorted numbers of the request and their sum, or the
\* request itself (service.cpp:31-52), for requests put together of several
\* messages too; a UDP server sends it to the sender of the last of them only
\* (accepted_sock_ref.h:60-86).
AnswerIsRight ==
    answer # None =>
        /\ IsAnswer(answer.req, answer.resp)
        /\ proto = "udp" => answer.to = Last(answer.parts)

\* The only ways into undefined behaviour through base_socket: two TCP
\* connections held at once, or an empty datagram, whose element stays in the
\* vector until the next one moves it (base_socket.h:12-54, server_main.cpp:42,
\* 60, 67, 130-147).
UndefinedExplained ==
    main = "undefined" => crowded /\ (proto = "udp" => blank)

\* The loop that reads until nullopt is at the end of the stream.
Hung == Dereferences /\ AtEof(FdOf(This))

\* A signal stops the server, unless it ended before or is reading a socket
\* whose peer has closed (server_main.cpp:22-30, 119, 125-129).
StopsOnSignal == (~main_loop) ~> (Dead \/ Hung)

\* What was sent to the server is read and answered, or its connection goes,
\* with the same exceptions (server_main.cpp:119-148, server.tpp:109-130).
Unserved(fd) ==
    \/ inbox[fd] # << >>
    \/ \E i \in Elements : FdOf(active_sockets[i]) = fd /\ active_sockets[i].second # << >>

RequestsServed == \A fd \in Fds : Unserved(fd) ~> (~Unserved(fd) \/ Dead \/ Hung \/ ~main_loop)
==============================================================================
