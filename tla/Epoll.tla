------------------------------- MODULE Epoll --------------------------------
(***************************************************************************)
(* epoll_t (src/src/epoll/epoll.cpp) over one epoll instance.  The wrapper *)
(* is a translation of flags; the interest list and the ready list are the *)
(* kernel's, modelled from how the code uses them:                         *)
(*   - a descriptor is put on the ready list when it is added while a flag *)
(*     of its interest is raised, and at every wake-up of its socket;      *)
(*   - epoll_wait takes it off the list, because EPOLLET is always asked   *)
(*     for, and reports the flags raised at that moment, if any;           *)
(*   - closing a descriptor removes it.                                    *)
(***************************************************************************)
EXTENDS PollEvent, FiniteSetsExt, SequencesExt

CONSTANT MaxEvents      \* m_max_events: the most one epoll_wait reports

ASSUME EpollAssumption == MaxEvents \in Nat \ {0}

Flag == {"IN", "OUT", "PRI", "HUP", "ERR", "RDHUP", "ET"}

SockOp == {"READ", "WRITE", "READ_WRITE"}

VARIABLES
    interest,   \* Fds -> the flags asked for, {} when not in the list
    ready       \* the descriptors on the ready list

epollVars == <<interest, ready>>

EpollInit ==
    /\ interest = [fd \in Fds |-> {}]
    /\ ready = {}

\* Mutants of flags_from_op: READ_WRITE does not include WRITE, or READ; the
\* peer's half-close is not asked for.
FlagsWithoutOut(op) ==
    {"RDHUP", "ET", "PRI", "ERR", "HUP"}
      \cup (IF op \in {"READ", "READ_WRITE"} THEN {"IN"} ELSE {})
      \cup (IF op = "WRITE" THEN {"OUT"} ELSE {})

FlagsWithoutIn(op) ==
    {"RDHUP", "ET", "PRI", "ERR", "HUP"}
      \cup (IF op = "READ" THEN {"IN"} ELSE {})
      \cup (IF op \in {"WRITE", "READ_WRITE"} THEN {"OUT"} ELSE {})

FlagsWithoutRdhup(op) ==
    {"ET", "PRI", "ERR", "HUP"}
      \cup (IF op \in {"READ", "READ_WRITE"} THEN {"IN"} ELSE {})
      \cup (IF op \in {"WRITE", "READ_WRITE"} THEN {"OUT"} ELSE {})

flags_from_op(op) ==
    {"RDHUP", "ET", "PRI", "ERR", "HUP"}
      \cup (IF op \in {"READ", "READ_WRITE"} THEN {"IN"} ELSE {})
      \cup (IF op \in {"WRITE", "READ_WRITE"} THEN {"OUT"} ELSE {})

\* Mutant of TypeOfFlag: EPOLLOUT and EPOLLHUP are exchanged.
TypeOfFlagSwapped ==
    [IN |-> "READ_READY", OUT |-> "HANGUP", PRI |-> "EXCEPTION",
     HUP |-> "WRITE_READY", ERR |-> "ERROR", RDHUP |-> "PEER_CLOSED"]

TypeOfFlag ==
    [IN |-> "READ_READY", OUT |-> "WRITE_READY", PRI |-> "EXCEPTION",
     HUP |-> "HANGUP", ERR |-> "ERROR", RDHUP |-> "PEER_CLOSED"]

\* Mutant of event_type_from_flags: the mask of PEER_CLOSED includes EPOLLIN.
WideMask(flags) ==
    {TypeOfFlag[f] : f \in flags \ {"ET"}}
      \cup (IF "IN" \in flags THEN {"PEER_CLOSED"} ELSE {})

event_type_from_flags(flags) == {TypeOfFlag[f] : f \in flags \ {"ET"}}

\* EPOLL_CTL_ADD; adding a descriptor again fails (EEXIST) and no caller looks.
\* raised is the set of flags the socket raises at this moment.
add_socket(fd, op, raised) ==
    IF interest[fd] # {} THEN UNCHANGED epollVars
    ELSE /\ interest' = [interest EXCEPT ![fd] = flags_from_op(op)]
         /\ ready' = IF raised \cap flags_from_op(op) # {} THEN ready \cup {fd} ELSE ready

\* EPOLL_CTL_DEL, or the removal that close() implies; any set of descriptors,
\* those not in the list (or -1) ignored.
Unwatch(fds) ==
    /\ interest' = [fd \in Fds |-> IF fd \in fds THEN {} ELSE interest[fd]]
    /\ ready' = ready \ fds

del_socket(fd) == Unwatch({fd})

\* The socket's wake-up callback.
Wake(fd) ==
    /\ ready' = IF interest[fd] # {} THEN ready \cup {fd} ELSE ready
    /\ UNCHANGED interest

\* The flags epoll_wait would report for fd; raised maps a descriptor to the
\* flags its socket raises now.
Reported(fd, raised) == raised[fd] \cap interest[fd]

\* The descriptors one epoll_wait can report, in every order; all that have
\* something to report up to MaxEvents.
Takes(raised) ==
    LET due == {fd \in ready : Reported(fd, raised) # {}}
        n   == IF Cardinality(due) < MaxEvents THEN Cardinality(due) ELSE MaxEvents
    IN  UNION {SetToSeqs(fds) : fds \in kSubset(n, due)}

\* The events made of the descriptors taken.
EventsOf(take, raised) ==
    [n \in 1..Len(take) |->
        [fd |-> take[n], type |-> event_type_from_flags(Reported(take[n], raised))]]

\* proceed(): epoll_wait and the translation of what it returned.  What was
\* taken, and what had nothing to report, leaves the ready list.
proceed(take, raised) ==
    /\ take \in Takes(raised)
    /\ ready' = {fd \in ready \ Range(take) : Reported(fd, raised) # {}}
    /\ UNCHANGED interest

EpollTypeOK ==
    /\ interest \in [Fds -> SUBSET Flag]
    /\ ready \subseteq Fds
==============================================================================
