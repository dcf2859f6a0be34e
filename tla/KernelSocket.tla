---------------------------- MODULE KernelSocket ----------------------------
(***************************************************************************)
(* The kernel's side of a descriptor, as the code in src/ uses it          *)
(* (external): the life of a socket, the poll flags each state raises and  *)
(* the wake-ups its transitions send to epoll.                             *)
(*                                                                         *)
(*   free      no such descriptor            fresh     socket() or bind()  *)
(*   syn_sent  connect() in progress         est       established         *)
(*   fin       the peer closed               reset     the peer reset it   *)
(*   refused   connect() failed              udp       a datagram socket   *)
(*   listen    a listening socket; its receive buffer is its queue of      *)
(*             connections                                                 *)
(*   urgent    established, with urgent data not yet read                  *)
(***************************************************************************)
EXTENDS Epoll

CONSTANT UrgentData     \* TRUE: peers may send urgent data

ASSUME KernelAssumption == UrgentData \in BOOLEAN

SockState == {"free", "fresh", "syn_sent", "est", "fin", "reset", "refused", "udp",
              "listen", "urgent"}

VARIABLES
    ksock,      \* Fds -> SockState
    rx          \* the descriptors with something in the receive buffer

kernelVars == <<ksock, rx>>

KernelInit ==
    /\ ksock = [fd \in Fds |-> "free"]
    /\ rx = {}

\* The flags a socket raises.  A TCP socket that was never connected raises
\* HUP and OUT; a socket that is down raises IN, because recv() returns.
Raised ==
    [fd \in Fds |->
        (IF fd \in rx THEN {"IN"} ELSE {})
          \cup CASE ksock[fd] = "fresh" -> {"OUT", "HUP"}
                 [] ksock[fd] \in {"est", "udp"} -> {"OUT"}
                 [] ksock[fd] = "urgent" -> {"OUT", "PRI"}
                 [] ksock[fd] = "fin" -> {"IN", "OUT", "RDHUP"}
                 [] ksock[fd] \in {"reset", "refused"} ->
                        {"IN", "OUT", "ERR", "HUP", "RDHUP"}
                 [] OTHER -> {}]

\* The kernel hands out the lowest free descriptor.
FreeFds == {fd \in Fds : ksock[fd] = "free"}
IsLowestFree(fd) == fd \in FreeFds /\ \A other \in FreeFds : fd <= other

------------------------------------------------------------------------------
(* What the network does to a descriptor, each with its wake-up.            *)
Establish(fd) ==
    /\ ksock[fd] = "syn_sent"
    /\ ksock' = [ksock EXCEPT ![fd] = "est"]
    /\ Wake(fd)
    /\ UNCHANGED rx

Refuse(fd) ==
    /\ ksock[fd] = "syn_sent"
    /\ ksock' = [ksock EXCEPT ![fd] = "refused"]
    /\ Wake(fd)
    /\ UNCHANGED rx

Arrive(fd) ==
    /\ ksock[fd] \in {"est", "urgent", "udp"}
    /\ rx' = rx \cup {fd}
    /\ Wake(fd)
    /\ UNCHANGED ksock

UrgentArrives(fd) ==
    /\ UrgentData
    /\ ksock[fd] = "est"
    /\ ksock' = [ksock EXCEPT ![fd] = "urgent"]
    /\ Wake(fd)
    /\ UNCHANGED rx

PeerCloses(fd) ==
    /\ ksock[fd] \in {"est", "urgent"}
    /\ ksock' = [ksock EXCEPT ![fd] = "fin"]
    /\ Wake(fd)
    /\ UNCHANGED rx

PeerResets(fd) ==
    /\ ksock[fd] \in {"est", "urgent", "fin"}
    /\ ksock' = [ksock EXCEPT ![fd] = "reset"]
    /\ Wake(fd)
    /\ UNCHANGED rx

KernelTypeOK ==
    /\ ksock \in [Fds -> SockState]
    /\ rx \subseteq Fds
==============================================================================
