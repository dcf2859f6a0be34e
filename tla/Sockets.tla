------------------------------ MODULE Sockets -------------------------------
(***************************************************************************)
(* The typed sockets: socket_t, binded_socket_t, listening_socket_t and    *)
(* active_socket_t (src/include/socket, src/include/socket_states), the    *)
(* policies that turn one into another (src/include/policy) and            *)
(* socket_impl, the owner of the descriptor                                *)
(* (src/src/socket/socket_impl.cpp).                                       *)
(*                                                                         *)
(* Objects are the C++ objects of a program; an object of type "none" does *)
(* not exist.  fd is the optional m_fd, NoFd for the empty one of a        *)
(* moved-from object.  An operation that fails returns an empty optional   *)
(* and changes nothing: a stuttering step.  So is send or receive.         *)
(***************************************************************************)
EXTENDS Integers, FiniteSets

CONSTANTS
    Fds,        \* descriptors
    Objects,    \* socket objects of the program
    UsesMovedFrom   \* TRUE: the program may call connect on a moved-from object

ASSUME SocketsAssumption == Fds \subseteq Nat /\ UsesMovedFrom \in BOOLEAN

NoFd == -1

Types  == {"socket", "binded", "listening", "active"}
Protos == {"tcp", "udp"}

\* Of a TCP socket, and of a UDP socket before and after it is bound.  An
\* attempt to connect ends established, refused or aborted; an established
\* connection may be shut down for reading, for writing, or for both.
KernelState == {"free", "fresh", "bound", "listen", "syn_sent", "est", "refused",
                "aborted", "shut_rd", "shut_wr", "shut", "dgram", "dgram_bound"}

Directions == {"READ", "WRITE", "BOTH"}

VARIABLES
    obj,            \* the objects: type, protocol, m_impl.m_fd, m_remote
    ksock,          \* the kernel's state of each descriptor
    overwritten     \* history: descriptors a move assignment overwrote

vars == <<obj, ksock, overwritten>>

None == [type |-> "none", proto |-> "tcp", fd |-> NoFd, remote |-> FALSE]

Init ==
    /\ obj = [h \in Objects |-> None]
    /\ ksock = [fd \in Fds |-> "free"]
    /\ overwritten = {}

------------------------------------------------------------------------------
Exists(h)   == obj[h].type # "none"
Engaged(h, type) == obj[h].type = type /\ obj[h].fd # NoFd
Fresh(proto) == IF proto = "tcp" THEN "fresh" ELSE "dgram"

\* Mutant of MovedFrom: the descriptor stays in the source too.
NotReset(a) == a

\* socket_impl's move constructor and assignment: m_fd.reset() of the source.
MovedFrom(a) == [a EXCEPT !.fd = NoFd]

\* The result of an operation on h is a new object g of another type that
\* takes the descriptor over.
Becomes(h, g, type, remote) ==
    obj' = [obj EXCEPT ![h] = MovedFrom(obj[h]),
                       ![g] = [type |-> type, proto |-> obj[h].proto,
                               fd |-> obj[h].fd, remote |-> remote]]

\* socket_t::create: the socket is opened and moved into the object.
create(h, proto) ==
    /\ ~Exists(h)
    /\ \E fd \in Fds :
          /\ ksock[fd] = "free"
          /\ ksock' = [ksock EXCEPT ![fd] = Fresh(proto)]
          /\ obj' = [obj EXCEPT ![h] = [type |-> "socket", proto |-> proto,
                                        fd |-> fd, remote |-> FALSE]]
    /\ UNCHANGED overwritten

\* bind_policy: a bound TCP socket is bound, a bound UDP socket is active.
bind(h, g) ==
    /\ Engaged(h, "socket") /\ ~Exists(g)
    /\ ksock' = [ksock EXCEPT ![obj[h].fd] = IF obj[h].proto = "tcp" THEN "bound"
                                                                    ELSE "dgram_bound"]
    /\ Becomes(h, g, IF obj[h].proto = "tcp" THEN "binded" ELSE "active", FALSE)
    /\ UNCHANGED overwritten

\* listen_policy, for TCP only: there is no bound UDP socket object.
listen(h, g) ==
    /\ Engaged(h, "binded") /\ ~Exists(g)
    /\ ksock' = [ksock EXCEPT ![obj[h].fd] = "listen"]
    /\ Becomes(h, g, "listening", FALSE)
    /\ UNCHANGED overwritten

\* Mutant of connect: the source keeps its type but the result takes no
\* descriptor over.
ConnectInPlace(h, g) ==
    /\ Engaged(h, "socket") \/ Engaged(h, "binded")
    /\ obj[h].proto = "tcp"
    /\ ~Exists(g)
    /\ ksock' = [ksock EXCEPT ![obj[h].fd] = "syn_sent"]
    /\ UNCHANGED <<obj, overwritten>>

\* connect_policy, for TCP only.  EINPROGRESS counts as success: the
\* connection is established, or refused, later.
connect(h, g) ==
    /\ Engaged(h, "socket") \/ Engaged(h, "binded")
    /\ obj[h].proto = "tcp"
    /\ ~Exists(g)
    /\ ksock' = [ksock EXCEPT ![obj[h].fd] = "syn_sent"]
    /\ Becomes(h, g, "active", TRUE)
    /\ UNCHANGED overwritten

\* What connect(2) does to a descriptor in a state where it succeeds.  A
\* connected datagram socket is bound to an address of the kernel's choice.
ConnectEffect ==
    [fresh |-> "syn_sent", bound |-> "syn_sent", refused |-> "syn_sent",
     aborted |-> "syn_sent", dgram |-> "dgram_bound"]

\* connect on a moved-from object: socket_impl::connect uses *m_fd before it
\* looks whether there is one.  That is undefined: connect(2) is called with
\* whatever the storage holds, the old number if the compiler left it there,
\* and an empty optional is returned.
ConnectMovedFrom(h) ==
    /\ UsesMovedFrom
    /\ obj[h].type \in {"socket", "binded"} /\ obj[h].proto = "tcp" /\ obj[h].fd = NoFd
    /\ \E fd \in Fds :
          /\ ksock[fd] \in DOMAIN ConnectEffect
          /\ ksock' = [ksock EXCEPT ![fd] = ConnectEffect[ksock[fd]]]
    /\ UNCHANGED <<obj, overwritten>>

\* Mutant of accept: the remote address is not passed on.
AcceptAnonymous(h, g) ==
    /\ Engaged(h, "listening") /\ ~Exists(g)
    /\ \E fd \in Fds :
          /\ ksock[fd] = "free"
          /\ ksock' = [ksock EXCEPT ![fd] = "est"]
          /\ obj' = [obj EXCEPT ![g] = [type |-> "active", proto |-> "tcp",
                                        fd |-> fd, remote |-> FALSE]]
    /\ UNCHANGED overwritten

\* accept_policy: a new descriptor with the remote address; the listening
\* object stays as it is.
accept(h, g) ==
    /\ Engaged(h, "listening") /\ ~Exists(g)
    /\ \E fd \in Fds :
          /\ ksock[fd] = "free"
          /\ ksock' = [ksock EXCEPT ![fd] = "est"]
          /\ obj' = [obj EXCEPT ![g] = [type |-> "active", proto |-> "tcp",
                                        fd |-> fd, remote |-> TRUE]]
    /\ UNCHANGED overwritten

\* What shutdown(2) does where it succeeds: it aborts an attempt to connect,
\* whatever the direction, and closes that direction of a connection.
Half == [READ |-> "shut_rd", WRITE |-> "shut_wr", BOTH |-> "shut"]

ShutdownEffect(st, dir) ==
    CASE st = "syn_sent" -> "aborted"
      [] st \in {"est", Half[dir]} -> Half[dir]
      [] OTHER -> "shut"

shutdown(h, dir) ==
    /\ Engaged(h, "active")
    /\ ksock[obj[h].fd] \in {"syn_sent", "est", "shut_rd", "shut_wr", "shut"}
    /\ ksock' = [ksock EXCEPT ![obj[h].fd] = ShutdownEffect(@, dir)]
    /\ UNCHANGED <<obj, overwritten>>

------------------------------------------------------------------------------
(* The special members.                                                     *)

\* Move construction.
MoveInto(h, g) ==
    /\ Exists(h) /\ ~Exists(g)
    /\ obj' = [obj EXCEPT ![h] = MovedFrom(obj[h]), ![g] = obj[h]]
    /\ UNCHANGED <<ksock, overwritten>>

\* Mutant of MoveAssign: the target's descriptor is closed, but by number
\* after it was overwritten.
ClosesSource(h, g) ==
    /\ h # g
    /\ Exists(h) /\ obj[h].type = obj[g].type /\ obj[h].proto = obj[g].proto
    /\ obj' = [obj EXCEPT ![h] = MovedFrom(obj[h]), ![g] = obj[h]]
    /\ ksock' = [fd \in Fds |-> IF fd = obj[h].fd THEN "free" ELSE ksock[fd]]
    /\ UNCHANGED overwritten

\* Move assignment.  The target's own descriptor is overwritten: nothing
\* closes it.
MoveAssign(h, g) ==
    /\ h # g
    /\ Exists(h) /\ obj[h].type = obj[g].type /\ obj[h].proto = obj[g].proto
    /\ obj' = [obj EXCEPT ![h] = MovedFrom(obj[h]), ![g] = obj[h]]
    /\ overwritten' = overwritten \cup ({obj[g].fd} \ {NoFd})
    /\ UNCHANGED ksock

\* Mutant of Destroy: the destructor closes nothing.
DestroyKeepsOpen(h) ==
    /\ Exists(h)
    /\ obj' = [obj EXCEPT ![h] = None]
    /\ UNCHANGED <<ksock, overwritten>>

\* The destructor closes what is not empty.
Destroy(h) ==
    /\ Exists(h)
    /\ ksock' = [fd \in Fds |-> IF fd = obj[h].fd THEN "free" ELSE ksock[fd]]
    /\ obj' = [obj EXCEPT ![h] = None]
    /\ UNCHANGED overwritten

\* The network settles a connection attempt.
Settle(fd) ==
    /\ ksock[fd] = "syn_sent"
    /\ \E st \in {"est", "refused"} : ksock' = [ksock EXCEPT ![fd] = st]
    /\ UNCHANGED <<obj, overwritten>>

Next ==
    \/ \E h \in Objects :
          \/ \E proto \in Protos : create(h, proto)
          \/ \E dir \in Directions : shutdown(h, dir)
          \/ ConnectMovedFrom(h)
          \/ Destroy(h)
    \/ \E h, g \in Objects :
          \/ bind(h, g)
          \/ listen(h, g)
          \/ connect(h, g)
          \/ accept(h, g)
          \/ MoveInto(h, g)
          \/ MoveAssign(h, g)
    \/ \E fd \in Fds : Settle(fd)

Spec == Init /\ [][Next]_vars

------------------------------------------------------------------------------
(***************************************************************************)
(* Properties.                                                             *)
(***************************************************************************)
\* The types of the objects' fields (socket_impl.h:73-74,
\* active_socket.h:74-77).
TypeOK ==
    /\ obj \in [Objects -> [type : Types \cup {"none"}, proto : Protos,
                            fd : Fds \cup {NoFd}, remote : BOOLEAN]]
    /\ ksock \in [Fds -> KernelState]
    /\ overwritten \subseteq Fds

\* A descriptor has one owner, through every chain of bind, listen, connect
\* and moves: no destructor closes what another object uses
\* (socket_impl.cpp:333-350, socket.tpp:37-44).
SingleOwner ==
    \A h, g \in Objects : obj[h].fd = obj[g].fd /\ obj[h].fd # NoFd => h = g

\* The type of a socket tells what its descriptor has been through: a socket
\* was never bound, a listening one was bound and listens, and an active one
\* was connected, accepted, or bound for UDP, so the morphisms between the
\* types let no call come out of order (README.md:31-33,
\* connect_policy.h:26-44, bind_policy.h:23-34, listen_policy.h:22-30).
CallsOf(type, proto) ==
    CASE type = "socket" /\ proto = "tcp" -> {"fresh"}
      [] type = "socket" /\ proto = "udp" -> {"dgram"}
      [] type = "binded" -> {"bound"}
      [] type = "listening" -> {"listen"}
      [] type = "active" /\ proto = "tcp" -> {"syn_sent", "est", "refused", "aborted",
                                              "shut_rd", "shut_wr", "shut"}
      [] type = "active" /\ proto = "udp" -> {"dgram_bound"}

TypeTellsCalls ==
    \A h \in Objects : obj[h].fd # NoFd =>
        ksock[obj[h].fd] \in CallsOf(obj[h].type, obj[h].proto)

\* The only way to lose a descriptor is to move-assign over a socket that is
\* open: everything else that is open has an owner to close it
\* (socket_impl.cpp:341-350, socket.tpp:37-44, 54-61, 82-89, 121-128).
LeakedOnlyByAssignment ==
    \A fd \in Fds : ksock[fd] # "free" =>
        fd \in overwritten \/ \E h \in Objects : obj[h].fd = fd

\* A TCP socket that talks to a peer knows the peer: server.tpp:125 asserts
\* it of accepted sockets (connect_policy.h:31-38, accept_policy.h:31).
ActiveKnowsRemote ==
    \A h \in Objects : obj[h].type = "active" /\ obj[h].proto = "tcp" => obj[h].remote

\* What the proofs need besides: an absent object owns nothing, what is owned
\* is open, and only TCP sockets are bound or listening.
Shape ==
    \A h \in Objects :
        /\ obj[h].type = "none" => obj[h].fd = NoFd
        /\ obj[h].fd # NoFd => ksock[obj[h].fd] # "free"
        /\ obj[h].type \in {"binded", "listening"} => obj[h].proto = "tcp"

\* The inductive invariant.
SocketsInv ==
    /\ TypeOK
    /\ SingleOwner
    /\ ~UsesMovedFrom => TypeTellsCalls
    /\ LeakedOnlyByAssignment
    /\ ActiveKnowsRemote
    /\ Shape
==============================================================================
