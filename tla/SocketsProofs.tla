--------------------------- MODULE SocketsProofs ----------------------------
(***************************************************************************)
(* SocketsInv is an inductive invariant of the typed sockets, for any      *)
(* number of objects and descriptors.                                      *)
(***************************************************************************)
EXTENDS Sockets, TLAPS

\* The empty optional of a moved-from socket_impl is no descriptor.
LEMMA NoFdIsNone ==
    NoFd \notin Fds
BY SocketsAssumption DEF NoFd

\* A program starts without sockets.
LEMMA SocketsInit ==
    Init => SocketsInv
BY NoFdIsNone DEF Init, SocketsInv, TypeOK, SingleOwner, TypeTellsCalls,
   LeakedOnlyByAssignment, ActiveKnowsRemote, Shape, None, Exists, Fresh, Types, Protos, KernelState

\* Every operation of the sockets and of the policies preserves SocketsInv.
LEMMA SocketsStep ==
    SocketsInv /\ [Next]_vars => SocketsInv'
<1> SUFFICES ASSUME SocketsInv, [Next]_vars
             PROVE  SocketsInv'
  OBVIOUS
<1> USE NoFdIsNone DEF SocketsInv, TypeOK, SingleOwner, TypeTellsCalls,
   LeakedOnlyByAssignment, ActiveKnowsRemote, Shape, Exists, Engaged, Fresh,
   CallsOf, Types, Protos, KernelState
<1>1. ASSUME NEW h \in Objects, NEW proto \in Protos, create(h, proto)
      PROVE  SocketsInv'
  <2>1. TypeOK'
    BY <1>1 DEF create
  <2>2. SingleOwner'
    BY <1>1 DEF create
  <2>3. (~UsesMovedFrom => TypeTellsCalls)'
    BY <1>1 DEF create
  <2>4. LeakedOnlyByAssignment'
    BY <1>1 DEF create
  <2>5. ActiveKnowsRemote' /\ Shape'
    BY <1>1 DEF create
  <2> QED BY <2>1, <2>2, <2>3, <2>4, <2>5
<1>2. ASSUME NEW h \in Objects, NEW g \in Objects, bind(h, g)
      PROVE  SocketsInv'
  <2>1. TypeOK'
    BY <1>2 DEF bind, Becomes, MovedFrom
  <2>2. SingleOwner'
    BY <1>2 DEF bind, Becomes, MovedFrom
  <2>3. (~UsesMovedFrom => TypeTellsCalls)'
    BY <1>2 DEF bind, Becomes, MovedFrom
  <2>4. LeakedOnlyByAssignment'
    BY <1>2 DEF bind, Becomes, MovedFrom
  <2>5. ActiveKnowsRemote' /\ Shape'
    BY <1>2 DEF bind, Becomes, MovedFrom
  <2> QED BY <2>1, <2>2, <2>3, <2>4, <2>5
<1>3. ASSUME NEW h \in Objects, NEW g \in Objects, listen(h, g)
      PROVE  SocketsInv'
  <2>1. TypeOK'
    BY <1>3 DEF listen, Becomes, MovedFrom
  <2>2. SingleOwner'
    BY <1>3 DEF listen, Becomes, MovedFrom
  <2>3. (~UsesMovedFrom => TypeTellsCalls)'
    BY <1>3 DEF listen, Becomes, MovedFrom
  <2>4. LeakedOnlyByAssignment'
    BY <1>3 DEF listen, Becomes, MovedFrom
  <2>5. ActiveKnowsRemote' /\ Shape'
    BY <1>3 DEF listen, Becomes, MovedFrom
  <2> QED BY <2>1, <2>2, <2>3, <2>4, <2>5
<1>4. ASSUME NEW h \in Objects, NEW g \in Objects, connect(h, g)
      PROVE  SocketsInv'
  <2>1. TypeOK'
    BY <1>4 DEF connect, Becomes, MovedFrom
  <2>2. SingleOwner'
    BY <1>4 DEF connect, Becomes, MovedFrom
  <2>3. (~UsesMovedFrom => TypeTellsCalls)'
    BY <1>4 DEF connect, Becomes, MovedFrom
  <2>4. LeakedOnlyByAssignment'
    BY <1>4 DEF connect, Becomes, MovedFrom
  <2>5. ActiveKnowsRemote' /\ Shape'
    BY <1>4 DEF connect, Becomes, MovedFrom
  <2> QED BY <2>1, <2>2, <2>3, <2>4, <2>5
<1>5. ASSUME NEW h \in Objects, NEW g \in Objects, accept(h, g)
      PROVE  SocketsInv'
  <2>1. PICK fd \in Fds :
           /\ ksock[fd] = "free"
           /\ ksock' = [ksock EXCEPT ![fd] = "est"]
           /\ obj' = [obj EXCEPT ![g] = [type |-> "active", proto |-> "tcp",
                                         fd |-> fd, remote |-> TRUE]]
    BY <1>5 DEF accept
  <2>2. \A i \in Objects : obj[i].fd # fd
    BY <2>1
  <2>3. UNCHANGED overwritten
    BY <1>5 DEF accept
  <2>4. obj[g].type = "none"
    BY <1>5 DEF accept
  <2>5. TypeOK'
    BY <2>1, <2>3
  <2>6. SingleOwner' /\ ActiveKnowsRemote'
    BY <2>1, <2>2
  <2>7. (~UsesMovedFrom => TypeTellsCalls)'
    BY <2>1, <2>2, <2>3
  <2>8. LeakedOnlyByAssignment'
    BY <2>1, <2>2, <2>3, <2>4
  <2>9. Shape'
    BY <2>1
  <2> QED BY <2>5, <2>6, <2>7, <2>8, <2>9
<1>6. ASSUME NEW h \in Objects, NEW dir \in Directions, shutdown(h, dir)
      PROVE  SocketsInv'
  <2>1. ShutdownEffect(ksock[obj[h].fd], dir) \in {"aborted", "shut_rd", "shut_wr", "shut"}
    BY DEF ShutdownEffect, Half, Directions
  <2>2. /\ obj[h].type = "active" /\ obj[h].fd \in Fds
        /\ ksock[obj[h].fd] \in {"syn_sent", "est", "shut_rd", "shut_wr", "shut"}
        /\ ksock' = [ksock EXCEPT ![obj[h].fd] = ShutdownEffect(ksock[obj[h].fd], dir)]
        /\ UNCHANGED <<obj, overwritten>>
    BY <1>6 DEF shutdown
  <2>3. TypeOK' /\ SingleOwner' /\ ActiveKnowsRemote'
    BY <2>1, <2>2
  <2>4. Shape' /\ LeakedOnlyByAssignment'
    BY <2>1, <2>2
  <2>5. (~UsesMovedFrom => TypeTellsCalls)'
    BY <2>1, <2>2
  <2> QED BY <2>3, <2>4, <2>5
<1>7. ASSUME NEW h \in Objects, NEW g \in Objects, MoveInto(h, g)
      PROVE  SocketsInv'
  <2>1. TypeOK'
    BY <1>7 DEF MoveInto, MovedFrom
  <2>2. SingleOwner'
    BY <1>7 DEF MoveInto, MovedFrom
  <2>3. (~UsesMovedFrom => TypeTellsCalls)'
    BY <1>7 DEF MoveInto, MovedFrom
  <2>4. LeakedOnlyByAssignment'
    BY <1>7 DEF MoveInto, MovedFrom
  <2>5. ActiveKnowsRemote' /\ Shape'
    BY <1>7 DEF MoveInto, MovedFrom
  <2> QED BY <2>1, <2>2, <2>3, <2>4, <2>5
<1>8. ASSUME NEW h \in Objects, NEW g \in Objects, MoveAssign(h, g)
      PROVE  SocketsInv'
  <2>1. TypeOK'
    BY <1>8 DEF MoveAssign, MovedFrom
  <2>2. SingleOwner'
    BY <1>8 DEF MoveAssign, MovedFrom
  <2>3. (~UsesMovedFrom => TypeTellsCalls)'
    BY <1>8 DEF MoveAssign, MovedFrom
  <2>4. LeakedOnlyByAssignment'
    BY <1>8 DEF MoveAssign, MovedFrom
  <2>5. ActiveKnowsRemote' /\ Shape'
    BY <1>8 DEF MoveAssign, MovedFrom
  <2> QED BY <2>1, <2>2, <2>3, <2>4, <2>5
<1>9. ASSUME NEW h \in Objects, Destroy(h)
      PROVE  SocketsInv'
  <2>1. TypeOK'
    BY <1>9 DEF Destroy, None
  <2>2. SingleOwner'
    BY <1>9 DEF Destroy, None
  <2>3. (~UsesMovedFrom => TypeTellsCalls)'
    BY <1>9 DEF Destroy, None
  <2>4. LeakedOnlyByAssignment'
    BY <1>9 DEF Destroy, None
  <2>5. ActiveKnowsRemote' /\ Shape'
    BY <1>9 DEF Destroy, None
  <2> QED BY <2>1, <2>2, <2>3, <2>4, <2>5
<1>10. ASSUME NEW fd \in Fds, Settle(fd)
       PROVE  SocketsInv'
  BY <1>10 DEF Settle
<1>11. ASSUME NEW h \in Objects, ConnectMovedFrom(h)
       PROVE  SocketsInv'
  <2>1. PICK fd \in Fds :
           /\ ksock[fd] \in {"fresh", "bound", "refused", "aborted", "dgram"}
           /\ ksock' = [ksock EXCEPT ![fd] = ConnectEffect[ksock[fd]]]
    BY <1>11 DEF ConnectMovedFrom, ConnectEffect
  <2>2. ConnectEffect[ksock[fd]] \in {"syn_sent", "dgram_bound"}
    BY <2>1 DEF ConnectEffect
  <2>3. UNCHANGED <<obj, overwritten>> /\ UsesMovedFrom
    BY <1>11 DEF ConnectMovedFrom
  <2>4. TypeOK' /\ SingleOwner' /\ ActiveKnowsRemote' /\ Shape'
    BY <2>1, <2>2, <2>3
  <2>5. LeakedOnlyByAssignment'
    BY <2>1, <2>3
  <2> QED BY <2>3, <2>4, <2>5
<1>12. CASE UNCHANGED vars
  BY <1>12 DEF vars
<1> QED
  BY <1>1, <1>2, <1>3, <1>4, <1>5, <1>6, <1>7, <1>8, <1>9, <1>10, <1>11, <1>12 DEF Next

\* The inductive invariant holds.
THEOREM SocketsInvariant == Spec => []SocketsInv
BY SocketsInit, SocketsStep, PTL DEF Spec

\* No two objects own one descriptor, whatever the chain of policies and
\* moves (socket_impl.cpp:333-350).
THEOREM OneOwner == Spec => []SingleOwner
<1>1. SocketsInv => SingleOwner
  BY DEF SocketsInv
<1> QED BY <1>1, SocketsInvariant, PTL

\* In a program that does not connect moved-from objects, the type of a socket
\* tells which calls its descriptor has been through (README.md:31-33).
THEOREM StateByType == Spec => [](~UsesMovedFrom => TypeTellsCalls)
<1>1. SocketsInv => (~UsesMovedFrom => TypeTellsCalls)
  BY DEF SocketsInv
<1> QED BY <1>1, SocketsInvariant, PTL

\* Only the move assignment loses descriptors (socket_impl.cpp:341-350).
THEOREM OnlyAssignmentLeaks == Spec => []LeakedOnlyByAssignment
<1>1. SocketsInv => LeakedOnlyByAssignment
  BY DEF SocketsInv
<1> QED BY <1>1, SocketsInvariant, PTL

\* A TCP socket that talks to a peer knows its address (server.tpp:125).
THEOREM RemoteKnown == Spec => []ActiveKnowsRemote
<1>1. SocketsInv => ActiveKnowsRemote
  BY DEF SocketsInv
<1> QED BY <1>1, SocketsInvariant, PTL
==============================================================================
