------------------------------ MODULE SocketIO ------------------------------
(***************************************************************************)
(* recv and send on a non-blocking socket, from recv_i and send_i down to  *)
(* socket_impl (src/src/socket/socket_impl.cpp), with what the callers can *)
(* see of the result: a value, or nullopt with errno behind it.            *)
(*                                                                         *)
(* errno is the thread's: a call that succeeds leaves it as it is, and     *)
(* eagain() and would_block() read it whenever they are called.  The       *)
(* receive buffer is a sequence of what single calls of recv return; an    *)
(* empty one answers EAGAIN on a live socket, the pending error once on a  *)
(* socket that was reset or refused, and 0 bytes, which is a value, after  *)
(* that and after the peer closed.                                         *)
(***************************************************************************)
EXTENDS KernelSocket

VARIABLES
    inbox,      \* Fds -> sequence of messages, what recv has to return
    failed,     \* the descriptors with a pending error (SO_ERROR)
    errno       \* "EAGAIN", or "other" for any other value

ioVars == <<inbox, failed, errno>>

IOInit ==
    /\ inbox = [fd \in Fds |-> << >>]
    /\ failed = {}
    /\ errno = "other"

\* again() || would_block(): finished_recv() and finished_send() are both it.
again_or_would_block == errno = "EAGAIN"

------------------------------------------------------------------------------
(* recv(): a value, and errno untouched, or nullopt, and errno set.         *)
ReceivesData(fd) ==
    /\ inbox[fd] # << >>
    /\ inbox' = [inbox EXCEPT ![fd] = Tail(@)]
    /\ rx' = IF Len(inbox[fd]) = 1 THEN rx \ {fd} ELSE rx
    /\ UNCHANGED <<ksock, failed, errno>>

AtEof(fd) ==
    /\ inbox[fd] = << >>
    /\ fd \notin failed
    /\ ksock[fd] \in {"fin", "reset", "refused"}

ReceivesEof(fd) == AtEof(fd) /\ UNCHANGED <<kernelVars, ioVars>>

ReceivesError(fd) ==
    /\ inbox[fd] = << >>
    /\ fd \in failed
    /\ failed' = failed \ {fd}
    /\ errno' = "other"
    /\ UNCHANGED <<kernelVars, inbox>>

WouldBlock(fd) ==
    /\ inbox[fd] = << >>
    /\ fd \notin failed
    /\ ksock[fd] \in {"syn_sent", "est", "urgent", "udp"}
    /\ errno' = "EAGAIN"
    /\ UNCHANGED <<kernelVars, inbox, failed>>

\* send(): the buffer takes it, is full, or the connection is gone.  The peer
\* may have closed its side only, and still read.
Sends(fd) ==
    /\ ksock[fd] \in {"est", "urgent", "udp", "fin"}
    /\ UNCHANGED <<kernelVars, ioVars>>

Gone(fd) == ksock[fd] \in {"reset", "refused"}

SendFails(fd) ==
    /\ errno' = IF Gone(fd) THEN "other" ELSE "EAGAIN"
    /\ failed' = failed \ {fd}
    /\ UNCHANGED <<kernelVars, inbox>>

\* Without MSG_NOSIGNAL a send to a connection that is gone may also raise
\* SIGPIPE, which ends the process.
MayRaiseSigpipe(fd) == Gone(fd)

------------------------------------------------------------------------------
(* The network's half.                                                      *)
Delivers(fd, m) ==
    /\ Arrive(fd)
    /\ inbox' = [inbox EXCEPT ![fd] = Append(@, m)]
    /\ UNCHANGED <<failed, errno>>

Fails(fd) ==
    /\ failed' = failed \cup {fd}
    /\ UNCHANGED <<inbox, errno>>

\* What a closed descriptor leaves behind: nothing.
Forget(fds) ==
    /\ inbox' = [fd \in Fds |-> IF fd \in fds THEN << >> ELSE inbox[fd]]
    /\ failed' = failed \ fds
==============================================================================
