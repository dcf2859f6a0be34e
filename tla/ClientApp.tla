----------------------------- MODULE ClientApp ------------------------------
(***************************************************************************)
(* client_main (src/app/client_main.cpp), one thread: it starts the client *)
(* and connects it, then calls proceed() and sends the lines it reads from *)
(* standard input, until a signal clears main_loop.                        *)
(*                                                                         *)
(* Client takes on_read_ready for a callback that reads everything there   *)
(* is.  This one receives until finished_recv(), which looks at errno, and *)
(* a recv() that succeeds does not set errno: the loop may see the EAGAIN  *)
(* of an earlier call and leave bytes behind, or not see one and go on for *)
(* ever at the end of the stream.                                          *)
(***************************************************************************)
EXTENDS Client, SocketIO, AsyncStdin

CONSTANT MaxMessages    \* bound: what the peer sends, in calls of recv()

ASSUME AppAssumption ==
    /\ Threads = {Controller}
    /\ MaxMessages \in Nat

VARIABLES
    main,       \* where main() is: "poll", "proceed", "getline", "send", or
                \* how it ended: "done", "exited", "terminated", "killed"
    main_loop,
    messages,   \* what the peer has sent so far
    cut         \* history: on_read_ready left bytes behind on an old EAGAIN

appVars == <<main, main_loop, messages, cut>>
appState == <<vars, ioVars, stdinVars, appVars>>

AppInit ==
    /\ Init
    /\ IOInit
    /\ StdinInit
    /\ main = "poll"
    /\ main_loop = TRUE
    /\ messages = 0
    /\ cut = FALSE

Ended == main \in {"done", "exited", "terminated", "killed"}

At(pc, next) ==
    /\ main = pc
    /\ main' = next

------------------------------------------------------------------------------
(***************************************************************************)
(* init(): a TCP client is never bound, a UDP client if a port was given.  *)
(* The connect() of an unbound UDP client fails, and so may any other      *)
(* call; main() then calls std::terminate().                               *)
(***************************************************************************)
Booting ==
    /\ main = "poll"
    /\ \/ \E bound \in BOOLEAN : Start(bound) /\ (bound => proto = "udp")
       \/ InControl
       \/ ConnectSocket
       \/ ConnectActive
    /\ UNCHANGED <<ioVars, stdinVars, appVars>>

StartFails ==
    /\ At("poll", "terminated")
    /\ starts = 0
    /\ UNCHANGED <<vars, ioVars, stdinVars, main_loop, messages, cut>>

ConnectFails ==
    /\ At("poll", "terminated")
    /\ starts = 1
    /\ ConnectReturnsFalse
    /\ UNCHANGED <<ioVars, stdinVars, main_loop, messages, cut>>

------------------------------------------------------------------------------
(***************************************************************************)
(* on_read_ready.  recv_impl uses the active socket, and with errno it is  *)
(* asked, once after each call, whether the loop is finished.              *)
(***************************************************************************)
InRead(t) == InCallback(t) /\ act[t].cur = "read"

\* while (!finished_recv()): another round, or back to the handler.
Finished(t) ==
    IF again_or_would_block'
      THEN /\ m_mutex' = NoThread
           /\ handling' = NoHandling
           /\ ObsHandlerReturns(t)
      ELSE UNCHANGED <<m_mutex, handling, obsVars>>

InLoop(t) ==
    /\ InRead(t)
    /\ Finished(t)
    /\ UNCHANGED <<epollVars, proto, state, m_remote, cb, op, starts, connects, calls,
                   stdinVars, main, main_loop, messages>>

\* Mutant of RecvResponse: the loop is not a loop.
RecvOnce(t) ==
    /\ InRead(t)
    /\ ReceivesData(get_fd)
    /\ m_mutex' = NoThread
    /\ handling' = NoHandling
    /\ ObsHandlerReturns(t)
    /\ UNCHANGED <<epollVars, proto, state, m_remote, cb, op, starts, connects, calls,
                   stdinVars, main, main_loop, messages, cut>>

RecvResponse(t) ==
    /\ ReceivesData(get_fd)
    /\ InLoop(t)
    /\ cut' = (again_or_would_block /\ rx' # {})

\* nullopt, with errno set.
RecvNothing(t) ==
    /\ WouldBlock(get_fd) \/ ReceivesError(get_fd)
    /\ InLoop(t)
    /\ cut' = FALSE

\* 0 bytes, with errno as it was.
RecvEof(t) ==
    /\ ReceivesEof(get_fd)
    /\ InLoop(t)
    /\ cut' = FALSE

------------------------------------------------------------------------------
(***************************************************************************)
(* The main loop.                                                          *)
(***************************************************************************)
\* Mutant of CallProceed: the loop does not look at main_loop.
LoopsForever ==
    /\ At("poll", "proceed")
    /\ Poll(Controller)
    /\ UNCHANGED <<ioVars, stdinVars, main_loop, messages, cut>>

CallProceed ==
    /\ At("poll", "proceed")
    /\ main_loop
    /\ Poll(Controller)
    /\ UNCHANGED <<ioVars, stdinVars, main_loop, messages, cut>>

InClient(t) ==
    /\ main = "proceed"
    /\ \/ /\ \/ ObsStep(t) /\ UNCHANGED <<epollVars, kernelVars, clientVars>>
             \/ HandlerIgnores(t)
             \/ HandlerMatches(t)
             \/ HandlerFindsNone(t)
             \/ HandlerFindsSome(t)
             \/ HandlerCalls(t)
             \/ ~InRead(t) /\ CallbackReturns(t)
          /\ UNCHANGED <<ioVars, stdinVars, appVars>>
       \/ RecvResponse(t)
       \/ RecvNothing(t)
       \/ RecvEof(t)

\* read_line() finds nothing; what proceed() and poll() did to errno on the
\* way is not known.
NoInput ==
    /\ At("proceed", "poll")
    /\ act[Controller].pc = "out"
    /\ ~Readable
    /\ errno' \in {errno, "other"}
    /\ UNCHANGED <<vars, inbox, failed, stdinVars, main_loop, messages, cut>>

HasInput ==
    /\ At("proceed", "getline")
    /\ act[Controller].pc = "out"
    /\ Readable
    /\ UNCHANGED <<vars, ioVars, stdinVars, main_loop, messages, cut>>

GetLine ==
    /\ At("getline", "send")
    /\ getline
    /\ UNCHANGED <<vars, ioVars, main_loop, messages, cut>>

\* Mutant of SendLine: the client waits until the line could be sent.
SendUntilSent ==
    /\ At("send", "poll")
    /\ Sends(get_fd)
    /\ UNCHANGED <<obsVars, epollVars, clientVars, stdinVars, main_loop, messages, cut>>

\* send(): a failure is reported, or taken for a full buffer, and the line is
\* dropped either way.
SendLine ==
    /\ At("send", "poll")
    /\ \/ Sends(get_fd)
       \/ SendFails(get_fd)
    /\ UNCHANGED <<obsVars, epollVars, clientVars, stdinVars, main_loop, messages, cut>>

SendKills ==
    /\ At("send", "killed")
    /\ MayRaiseSigpipe(get_fd)
    /\ UNCHANGED <<vars, ioVars, stdinVars, main_loop, messages, cut>>

------------------------------------------------------------------------------
\* SIGTERM or SIGINT, once init() has returned: the first clears main_loop,
\* the second calls exit().
Signal ==
    /\ ~Ended
    /\ Connected
    /\ main_loop' = FALSE
    /\ main' = IF main_loop THEN main ELSE "exited"
    /\ UNCHANGED <<vars, ioVars, stdinVars, messages, cut>>

\* main() returns: ~client_t() unregisters the handlers, and the socket and
\* epoll are closed.
Leave ==
    /\ At("poll", "done")
    /\ ~main_loop
    /\ m_handlers' = [key \in Keys |-> IF key \in Range(SubSeq(RegisterOrder, 1, 5))
                                         THEN NoHandler ELSE m_handlers[key]]
    /\ Unwatch(Fds)
    /\ Close({get_fd})
    /\ Forget({get_fd})
    /\ state' = [kind |-> "idle", fd |-> NoFd]
    /\ UNCHANGED <<sharers, act, proto, m_mutex, m_remote, cb, op, handling, starts, connects,
                   calls, errno, stdinVars, main_loop, messages, cut>>

------------------------------------------------------------------------------
(* The network and the user.                                                *)
Peer(fd) ==
    \/ /\ messages < MaxMessages
       /\ messages' = messages + 1
       /\ Delivers(fd, "bytes")
    \/ /\ \/ Establish(fd) /\ UNCHANGED ioVars
          \/ UrgentArrives(fd) /\ UNCHANGED ioVars
          \/ PeerCloses(fd) /\ UNCHANGED ioVars
          \/ Refuse(fd) /\ Fails(fd)
          \/ PeerResets(fd) /\ Fails(fd)
       /\ UNCHANGED messages

Environment ==
    /\ ~Ended
    /\ \/ /\ \E fd \in Fds : Peer(fd)
          /\ UNCHANGED <<obsVars, clientVars, stdinVars, main, main_loop, cut>>
       \/ /\ User
          /\ UNCHANGED <<vars, ioVars, appVars>>

Main ==
    \/ Booting \/ StartFails \/ ConnectFails
    \/ CallProceed
    \/ InClient(Controller)
    \/ NoInput \/ HasInput \/ GetLine
    \/ SendLine \/ SendKills
    \/ Leave

AppNext == Main \/ Signal \/ Environment

\* The only thread keeps running.
AppSpec == AppInit /\ [][AppNext]_appState /\ WF_appState(Main)

------------------------------------------------------------------------------
(***************************************************************************)
(* Properties.                                                             *)
(***************************************************************************)
\* The types of the variables of main() and of async_stdin
\* (client_main.cpp:17, 57-96, async_stdin.h:16).
AppTypeOK ==
    /\ TypeOK
    /\ StdinTypeOK
    /\ errno \in {"EAGAIN", "other"}
    /\ failed \subseteq Fds
    /\ main \in {"poll", "proceed", "getline", "send", "done", "exited", "terminated",
                 "killed"}
    /\ \A fd \in Fds : fd \in rx <=> inbox[fd] # << >>

\* The loop of on_read_ready at the end of the stream, with an errno that is
\* not EAGAIN.
Spinning(t) == InRead(t) /\ AtEof(get_fd) /\ ~again_or_would_block

\* getline waits for the end of a line.
Typing == main = "getline" /\ pipe = 0 /\ buffered = 0 /\ ~eof

Stuck == Spinning(Controller) \/ Typing

\* Bytes that stay in the receive buffer between two calls of proceed() are in
\* epoll's ready list, so they will be announced, unless the loop of
\* on_read_ready left them on an old EAGAIN or on_disconnect was called
\* (client_main.cpp:38-50, socket_impl.cpp:353-356, client.tpp:160-167).
UnreadHasEdge ==
    \A fd \in rx : main = "poll" /\ Connected =>
        \/ fd \in ready
        \/ cut
        \/ calls[m_remote].disconnects > 0

\* A signal stops the client, unless it is reading a stream that has ended or
\* waiting for the rest of a line (client_main.cpp:19-27, 38-50, 97-100).
StopsOnSignal == (~main_loop) ~> (Ended \/ Stuck)

\* The end of a connection leads to on_disconnect, unless on_read_ready, which
\* the same event calls first, does not come back (client_main.cpp:38-53,
\* client.tpp:143-167).
DownIsReported ==
    (Connected /\ ksock[get_fd] \in {"fin", "reset", "refused"})
        ~> (calls[1].disconnects > 0 \/ Stuck \/ Ended)

\* What the user has typed is read and handed to send(), unless several lines
\* came at once: the ones behind the first wait in the buffer of stdio, where
\* poll() does not see them, for more input (async_stdin.cpp:12-24,
\* client_main.cpp:100-107).
Stranded == buffered > 0 /\ ~Readable

InputIsSent ==
    (Connected /\ pipe + buffered > 0) ~> (pipe + buffered = 0 \/ Stranded \/ Stuck \/ Ended)
==============================================================================
