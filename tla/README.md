# Verification of StronglyTypedSockets

TLA+ models of the library's sockets, event observer, epoll wrapper, client and
server and of its two applications, the TLC configurations that check them, and
TLAPS proofs. Paths are
relative to the repository (`src/` below is `src/src`, `include/` is
`src/include`, `app/` is `src/app`, as `PROJECT.json` names them).

## The system

| Component | State | Operations | Talks to |
|---|---|---|---|
| `socket_impl` (socket/socket_impl.cpp) | optional descriptor `m_fd`, family | open, bind, connect, listen, accept, shutdown, close, send/receive, move | the kernel |
| typed sockets (socket/socket.tpp, include/socket, socket_states, policy) | a `socket_impl`, local and remote address; the C++ type is the state | `create`, and the policies: each returns an object of another type and takes the descriptor along | `socket_impl` |
| `epoll_t` (epoll/epoll.cpp) | an epoll instance | `add_socket`, `del_socket`, `proceed`; edge triggered | the kernel |
| `event_observer_t` (endpoint/event_observer.tpp) | map from event type to handler, a shared mutex | `add`, `remove` (exclusive), `proceed` (polls, then runs the handlers with the mutex shared) | `epoll_t`, through `poll_traits`; calls handlers |
| `endpoint_t` (endpoint/endpoint.tpp) | a variant of socket states | `idle`, `get_fd` | base of client and server |
| `client_t` (endpoint/client.tpp) | `m_remote`, three callbacks, `m_mutex` | `start`, `connect`, `stop`, `proceed`, `send`, `recv`, six handlers | observer, epoll; calls the application with `m_mutex` held |
| `server_t` (endpoint/server.tpp) | `m_on_conn`, `m_erase_active_socket`, `m_mutex` | `start`, `proceed`, the destructor, five handlers | the same |
| `accepted_sock`, `accepted_sock_ref` (include/endpoint) | a socket, or a pointer to the server's and the last sender | `send`, `recv`, `finished_recv` | `socket_impl`, errno |
| `server_main`, `base_socket`, `service` (app/) | vector of accepted sockets with the requests read so far; `main_loop` | callbacks, the scan of the vector, answers, signals | server |
| `client_main`, `async_stdin` (app/) | `main_loop`; standard input | callbacks, `read_line`, `send`, signals | client |

What is hard. `proceed()` may be called by several threads while another one
starts, connects or stops the endpoint. There are two mutexes and two orders of
taking them, `connect()` takes none, and the callbacks run with both held. Every
descriptor is watched edge triggered, so an event that is dropped does not come
back. Events name descriptors, and the kernel reuses numbers. Handlers may
throw in the middle of an event with several types. Descriptors travel through
chains of objects that are moved from. Whether a `recv` loop is finished is read
from errno, which a successful call does not set. The server application keeps
objects with pointers into themselves in a vector.

What makes each part correct: a descriptor has one owner, and its type tells
its state (sockets); a removed handler is not running, exceptions are isolated
and reported, the unhandled report is exact (observer); no edge is lost, and the
callbacks come in order and once (client); what the application holds is open
and watched, and it is told of every new and of every terminated connection
(server); every message is answered once and correctly, nothing that arrived
stays unread without an edge, and a signal stops the loop (applications). `PROJECT.json` lists the hazards at their lines.

## The modules

| Module | Models | Notes |
|---|---|---|
| `PollEvent` | poll_event/event.h | event types and events |
| `EventObserver` | event_observer.tpp | the state and the steps of `proceed()`, one step per handler call; the handler's body belongs to whoever extends the module |
| `ObserverSystem` | the observer alone | handlers that return or throw, registration by anybody |
| `Epoll` | epoll.cpp, and the kernel's interest and ready lists | the wake-up, the flags and what `epoll_wait` takes are external |
| `KernelSocket` | external | the socket states that `poll` sees, and what the network does to them |
| `Session` | client.h:52-66 | abstract: the protocol of the three callbacks of a `connect()` |
| `Client` | client.tpp, endpoint.tpp | extends `EventObserver` and `KernelSocket`; refines `Session` |
| `Server` | server.tpp, TCP and UDP | extends the same; the steps that call the application are its half of a step |
| `ServerSystem` | the contract of server.h:24-60 | the server with an abstract application: a set of sockets, a number of references |
| `SocketIO` | socket_impl.cpp, `send` to `eagain` | receive buffers, pending errors, errno |
| `Service` | service.cpp | requests as sequences of words; `IsAnswer` is the reference definition |
| `ServerApp` | server_main.cpp, base_socket.h, accepted_sock(_ref).h | extends `Server`, `SocketIO`, `Service`; refines `ServerSystem` |
| `AsyncStdin` | async_stdin.cpp | the descriptor, the buffer of stdio, the user |
| `ClientApp` | client_main.cpp, client.tpp:183-272 | extends `Client`, `SocketIO`, `AsyncStdin` |
| `Sockets` | socket_impl.cpp, socket.tpp, the policies | objects, their types, moves and destructors |
| `MC*` | | constants for TLC |
| `EndpointLemmas` | | what the operations of the observer and of epoll preserve, one lemma each |
| `ObserverProofs`, `ClientProofs`, `ClientAppProofs`, `ServerProofs`, `ServerAppProofs`, `ServiceProofs`, `SocketsProofs` | | the theorems of the component |

**EventObserver.** `act[t]` is thread t's activation of `proceed()`: the batch,
the place in it (`k` the event, `i` the type that `handle_event` tries), and the
locals. `ran` and `threw` are history. `add` and `remove` are enabled when
nobody holds the mutex shared. `m_handlers` is a map over `Keys`: a look-up
masks the event with the type and uses the result as the key, so a type that
the event lacks looks up NONE.

**Epoll and KernelSocket.** An event is the intersection of what the socket
raises at the moment of `epoll_wait` with what it was added for. A descriptor is
in the ready list from a wake-up, or from an `add_socket` that finds something
raised, until it is taken. A TCP socket that was never connected raises HUP and
OUT; a refused one IN, OUT, ERR, HUP and RDHUP. The kernel hands out the lowest
free number.

**Client.** One thread controls the client, any number poll. `start` and `stop`
hold `m_mutex`, so their assignments are one step, but each `add` or `remove`
in them waits for the observer's mutex and is a step of its own. `connect` is
unlocked: `::connect`, the move that empties the old object (`MoveSocket`),
`m_remote` (`SetRemote`), each of the three callbacks (`SetCallback`) and the
state (`AssignActive`) are a step each. A handler, too, reads the fields in steps:
`handling` says whether it is about to test its callback, about to call it, or in
the callback's body, and `connect` may write between any two of them; a function
that is empty when it is called throws (`HandlerCallsEmpty`). The callbacks of the
n-th `connect` are the number n and 0 is the empty function. A second `connect`
runs static lambdas that captured the first call's parameters by reference:
what it stores is its own callbacks or empty ones. The data race on the fields
shows as the order of these steps; what a reader meets in the middle of the
assignment of one `std::function`, or when the function that runs is destroyed, is
undefined and not modelled. `calls` counts the callbacks that run or have
returned; one that throws stays in its field and is taken off again.

`on_read_ready` is a callback that reads everything there is, which is what
edge triggering asks of it; `ClientApp` says what client_main's really does.

**Server and ServerSystem.** `Server` has the endpoint's half of every step that
calls the application (`HandsOver`, `HandsOverRef`, `CallsErase`, `Destroys`).
`ServerSystem` adds the application that the comments of `start()` describe:
`on_conn` adds to a set, `erase_active_socket` closes and removes, `on_close`
drops the references, and between polls it reads, and drops a socket
(`MayDrop`). The peers of queued connections may have sent, closed, reset or, with
`UrgentData`, sent urgent data before the accept.

**SocketIO.** A call of `recv` returns the next message of the buffer and leaves
errno alone, returns nullopt and sets errno, or, at the end of the stream,
returns 0 bytes, which is a value, and leaves errno alone.

**ServerApp.** `main` is the place in `main()`, `active_sockets` the vector with
its `capacity`. An element whose pointer refers to itself has `own`; growing the
vector and erasing an element before it move it, and `own` becomes FALSE. A use
of such an element ends the model in "undefined". A request is the `Join` of
messages: the words at the seam are glued together, as `operator+=` does.
`parts`, `owed`, `answer`, `crowded` and `blank` are history. The refinement
mapping takes the vector to the set of its descriptors, or for UDP to its length.

**ClientApp.** The steps of `Client` are the client's; only the return of
`on_read_ready` is replaced by the rounds of its loop, each one `recv` and one
look at errno. What `proceed`, `poll` and output do to errno between two rounds
of the main loop is not known, so `NoInput` may change it.

**Sockets.** An object has a type, a protocol and the optional `m_fd`.
`socket_impl::connect` dereferences `m_fd` before it tests it, so on a moved-from
object it calls connect(2) with whatever is in the optional's storage: the old
number in an unoptimised build, anything in an optimised one (a build with the
library's debug assertions aborts). `ConnectMovedFrom` chooses any descriptor
that connect(2) accepts; `UsesMovedFrom` says whether the program does such a
thing at all. `shutdown` has its three directions; on a socket that is still
connecting each of them aborts the attempt.

## The runs

| Run | Checks | Instance |
|---|---|---|
| `observer` | types; `RemovedMeansQuiet`, `UnhandledExactlyUnserved`, `ExceptionsStayLocal`, `ExceptionsReported`, `ServedInOrder`; `ProceedReturns` | two threads, one handler, batches of up to two events, one of them with two types |
| `client_ordered` | `OnDisconnectMeansDown`, `DataBeforeDisconnect`; `CallbackProtocol` (refinement of `Session`), `ConnectionAnnounced`, `DisconnectionAnnounced`, `DataAnnounced` | one thread that proceeds on a connected client only; TCP and UDP, two starts, one connect, no urgent data |
| `client_threads` | `TypeOK`, `ActiveHasRemote`, `StopIsBarrier`, `CalledAtMostOnce` | a controller and a poller, any order of calls, TCP and UDP, two starts and two connects, any callback may throw, urgent data |
| `server` | `TypeOK`, `DescriptorsOwned`, `OnlyTerminatedErased`, `HeldMeansWatched`, `RefsEndWithServer`; `TerminationAnnounced` | one thread, TCP and UDP, three descriptors (so the third peer finds none), three peers, a queue of two, no urgent data |
| `server_app` | `AppTypeOK`, `AnsweredOnce`, `AnswerIsRight`, `UndefinedExplained`; `ImplementsSystem` (refinement of `ServerSystem`), `StopsOnSignal`, `RequestsServed` | three descriptors, two connections, two messages of two senders, four requests, unsigned of 7 bits |
| `client_app` | `AppTypeOK`, `UnreadHasEdge`; `StopsOnSignal`, `DownIsReported`, `InputIsSent` | one connection, two buffers full of data, two lines of input |
| `sockets` | `SingleOwner`, `LeakedOnlyByAssignment`, `ActiveKnowsRemote` | three objects, three descriptors, no bound on the number of operations, connect on moved-from objects |
| `client_early_proceed` | violation of `ConnectionAnnounced` | `proceed` between `start` and `connect` takes the socket out of epoll for good |
| `client_locks` | violation of `NoLockCycle` | `stop` and a handler take the two mutexes in opposite orders |
| `client_urgent` | violation of `OnDisconnectMeansDown` | urgent data on a live connection runs `on_disconnect` |
| `server_accept` | violation of `EveryPeerAccepted` | one accept per edge: of two connections one stays in the queue |
| `server_pollers` | violation of `OnlyTerminatedErased` | two pollers and a reused number, without urgent data: a live connection is erased |

Why the bounds are enough. Two threads in `proceed` and one registering are the
pairs of actors whose steps can be out of order; a batch of two events with up
to two types has an event before and one after each exception. Two descriptors
let the client of one thread hold one and reuse its number; with one descriptor
the second start takes the number of the first, so an old batch meets a new socket
and the stale fields. Two connects put the writes of the second between the steps
of a handler that serves the first. The handlers exclude each other (they hold
`m_mutex`), so in `client_threads` one poller stands for several; the theorems about
its properties are for any number. Urgent data is a constant (`UrgentData`): the two
properties it refutes, `OnDisconnectMeansDown` and `OnlyTerminatedErased`, are checked
without it, and so is `DataAnnounced`, which it takes the socket away from;
`client_urgent` shows the refutation, and `client_threads` and both applications
have it. In the server three peers and
three descriptors reach a full descriptor table and the reuse of a number, and a
queue of two is what one accept per edge needs to go wrong. In `sockets` three
objects allow a source, a target and a bystander whose descriptor may be hit. In
`server_app` two connections make the vector grow, two messages of two senders
are merged or glued, and of the four requests one is empty, one has no number,
one overflows the sum with sorted input out of order, and two glued ones exceed
the largest int. In `client_app` two buffers are what an old EAGAIN needs to
leave one behind, and two lines what stdio needs to hide one. Deadlock
is not checked where the system may stop: the client with several threads (the
lock cycle is a run of its own), a destroyed server, a process that has ended, a
program that has leaked all its descriptors. `MaxStarts`, `MaxConnects`, `MaxPeers`,
`MaxMessages`, `MaxLines`, `Backlog` and `MaxEvents` are the bounds on counters and
queues.

Fairness. A thread that is inside a call keeps running (weak fairness of
`InProceed`, `InControl`, `InStart`), and `proceed` is called again and again,
which is what both main loops do (client_main.cpp:97-112,
server_main.cpp:119-148). The network settles a connection attempt one way or
the other. The applications have one thread, and it keeps running (`Main`); a
getline without a line, or a process that ended, has no step. No fairness is
assumed of signals, of the user, of `start`, `connect`, `stop`, of peers, data
or of the application's reads.

## What the proofs show

All theorems hold for every value of the constants: any number of threads,
descriptors and calls, batches of any length.

- **Observer.** `ObsInv` is inductive (`ObserverInvariant`): the mutex is held
  shared exactly by the threads that serve events, and of each activation record
  `RecordInv` says where it is in the batch (`Place`), that what ran lies before
  that place (`History`), what the locals hold of the events that are over
  (`Locals`), that no registered handler was skipped (`Complete`) and that the
  handler that runs is the registered one (`Running`). The properties speak
  of the end of `proceed`; the strengthening says what is true half way. From it
  `ObserverTypes`, `RemoveIsBarrier`, `UnhandledIsExact`, `ExceptionIsolation`,
  `ExceptionReport` and `HandlerOrder`. `EndpointLemmas` proves preservation one
  operation at a time, so that the client's proof uses the same lemmas.
- **Epoll.** `TakenEvents`: the events of one `epoll_wait` are well formed, name
  different descriptors of the ready list, and carry what the sockets raise.
  One lemma for each operation (`AddSocketStep`, `UnwatchStep`, `WakeStep`,
  `ProceedStep`, `PeerStep`), and what a reported type says of a socket
  (`ErasingReported`, `ClosingReported`, `ReadReported`).
- **Client.** `ClientInvariant`: `ObsInv`, the types, `LockInv` (who holds
  `m_mutex`) and `RemoteInv` (fields are set before the state). From it
  `ClientTypes`, `StopQuiesces` and `RemoteIsKnown`. `AtMostOnce` adds `OnceInv`: a
  stored callback has not run unless it is running now (`Executes`), and the
  functions of the `connect` in progress that are still to be stored (`Due`) have
  not run either. It has no hypothesis: a `connect` may write the field between
  the test, the call and the assignment of nullptr, and a callback that throws
  is taken off the count (`RetractedType`), for the assignment is skipped and it
  may be called again. `ActiveSockets` adds
  `HandlersInv` (which handler is registered under which type) and `ActiveInv` (an
  active TCP socket has been through ::connect), for any number of pollers.
- **Client, one thread.** Where the client's own thread is the one that polls, and
  polls once it is connected, `FreshInv` is inductive: what the rest of the batch
  says of the endpoint's socket is still true, a handler that holds `m_mutex` is
  serving the endpoint's socket (`HandlerInv`), and once the read handler has run
  for a socket that is down nothing is left to read. From it
  `ReadBeforeDisconnect` and, with `Calm` (no socket is urgent where no urgent data
  comes), `DisconnectMeansDown`. `OverInv` adds (`StoredNew`, `ErasingUnwatched`) that once
  `on_disconnect` has run for a call of `connect()`, its socket is out of epoll and
  no other handler is due for it in the batch, because the erasing types are the
  last that `handle_event` tries; a `connect()` that makes a new socket active
  has replaced the callbacks first. From it and `OnceInv`
  `ClientImplementsSession`: the client implements `Session`, step by step, for any
  number of starts and connects (`client_ordered` has one connect). The two
  hypotheses, `Pollers = {Controller}` and `ConnectFirst`, are how client_main
  calls the client; without `ConnectFirst` the callbacks that `stop()` leaves in
  place run for the socket of the next `start()`.
- **Client application.** `AppSteps`: each step of `main()` is a step of `Client`, a
  round of the loop of `on_read_ready`, or the end of the program; so the client's
  invariants hold of client_main (`ClientInvsStep`). `AppInv` adds to them where
  `main()` may be while the client serves a batch (`MainInv`), that there is one
  descriptor at most (`OneSocket`), that `recv()` and epoll agree on what is unread
  (`IOInv`), and `EdgeInv`: unread bytes of a watched socket are in the ready list,
  were left on an old EAGAIN, or are `ReadDue`, which is that the batch in hand
  reports the socket readable and its `on_read_ready` has not come back (`ReadEdges`);
  a socket that is not watched has had its `on_disconnect`, or the erase handler has
  just taken it out and has yet to call it (`WatchedUntilErased`, `Erasing`,
  `ErasedIsNoted`). A read that is due is not lost, because READ_READY is the first
  type that `handle_event` tries and its handler is registered (`DueStays`). From
  it `ClientAppTypes` and `UnreadKeepsEdge`.
- **Server.** `ServerInvariant`: `ServerInv` is `ObsInv`, the types, `HandlersInv`,
  `MutexInv` (what holding `m_mutex` says of the fields it guards, and that there is
  an accepted socket exactly while a handler hands it over), `IdleInv` (nothing
  is watched before `start()` is done), `SocketInv` (every descriptor's owner, its
  state and whether epoll watches it), `BatchInv` (a batch names a descriptor
  once, so that two threads never erase one) and `RefsInv`: the references given
  and due are no more than the datagrams, which is what bounds `refs` in the type
  invariant. From it `ServerTypes`, `NoDescriptorLeaks`, `HeldIsWatched` and
  `RefsNeverDangle`, for any number of pollers. `OnePollerErasesTerminated` is for
  one thread without urgent data and adds `BatchFresh`, the part of the batch that is
  not over is not stale, whatever numbers the kernel reuses, and `Calm`. With two
  pollers it is false, as the run `server_pollers` shows, and with urgent data, which
  runs the erase handler of a connection that is up.
- **Server application.** `AppInvariant`: `AppInv` says of the vector that its
  descriptors differ and its iterator is in it wherever it is dereferenced
  (`VectorInv`), where `main()` may be in each state of the server (`ControlInv`),
  whose the descriptors are (`SocketInv`), that what `recv()` returns was announced
  by the kernel (`BufferInv`) and that a datagram socket is never reported closed
  (`BatchInv`). From it `AppTypes`. `CrowdInv` adds `MovedInv`, an element that was
  moved had another one beside it, and `OneRef`: while no datagram is empty a UDP
  server's vector holds at most one reference, which is answered and dropped in
  the scan that follows, and never survives into the next poll. From it
  `UndefinedOnlyIfCrowded`. These use that a process that ended takes no step.
- **Server application, refinement.** `AppImplementsSystem`: the initial states map
  to initial states, and `SystemStep` shows of each action of `ServerApp` that it
  is a step of `ServerSystem` or changes nothing that it speaks of:
  `emplace_back` adds a descriptor or a reference, `erase_active_socket` removes the
  event's, an answer to a UDP request or a failed `send` drops one, the
  destructor of the vector all. The lemmas `Same...` show that each operator of
  the instance, taken at the mapped variables, is `Server`'s own. So what
  `ServerProofs` says of `ServerSystem` holds of server_main.
- **Service.** `ResponseIsAnswer`: `create_response` returns what `IsAnswer` demands,
  for every request. The folds of the library are recursive functions, so the
  module first proves that they are defined (`FoldExists`) and that a sum over a
  finite set depends neither on the order of the elements (`SumRemove`) nor on
  their names (`SumRename`). `ParseKeeps`: parsing keeps the numbers, each as often
  as it occurs. `RankIsPlace` and `SortSorts`: ranks are a permutation of the
  places, and what `sort` puts there ascends. `SumOfIsSum`: adding modulo 2^Width
  at every step is the sum modulo 2^Width. The inductions take a least
  counterexample (`Induction`, `LeastSubset`) instead of the library's
  theorems on predicates.
- **Server application, requests.** `RequestInv`: what an element has read is
  nothing, or a request put together of messages the last of whose senders is
  the one it answers; a moved element keeps it. `AnswerInv`: the last answer is
  `create_response` of the request it belongs to. With `ResponseIsAnswer` they give
  `AnswersAreRight`. `OwedInv` counts: for each descriptor, the messages that were
  delivered and not accounted for are those in the receive buffer and those in
  the elements' requests, a sum over the vector. `ReadAppend`, `ReadChange` and
  `ReadErase` say what a new element, a change of one element and an erased one
  do to the sum. From it `MessagesAnsweredOnce`. Both rest on `AppInv`.
- **Sockets.** `SocketsInvariant`: the four properties, `TypeTellsCalls` under
  `~UsesMovedFrom`, together with `Shape` are inductive. From it `OneOwner`,
  `StateByType`, `OnlyAssignmentLeaks` and `RemoteKnown`.

The assumptions are the named ASSUMEs of the modules (thread, handler and
descriptor sets of the right kind, requests that are sequences of numbers and
`Word`, the one thread of an application; `ServiceAssumption` also says that
2^Width is a positive number, because the prover knows no law of `^`), and these hypotheses that theorems state themselves:
`MayThrow` has at most "read" (`ClientImplementsSession`), `~UrgentData`
(`DisconnectMeansDown`, `OnePollerErasesTerminated`), `~UsesMovedFrom` (`StateByType`),
`Pollers = {Controller}` and `ConnectFirst` (`DisconnectMeansDown`,
`ReadBeforeDisconnect`, `ClientImplementsSession`, `ClientAppTypes`,
`UnreadKeepsEdge`), `MaxStarts = 1` and `MaxConnects = 1` (`ClientAppTypes`,
`UnreadKeepsEdge`: client_main.cpp:33-34 calls `start()` and `connect()` once each),
and `Threads = {Controller}` (`OnePollerErasesTerminated`).

Model-checked only:

- Liveness: `ProceedReturns`, the `...Announced` properties, `StopsOnSignal`,
  `RequestsServed`, `DownIsReported`, `InputIsSent`. They rest on fairness, which is
  out of the prover's reach.
- The five expected violations, which are counterexamples.

Every safety property, action property and refinement of the passing runs is
stated by a theorem.

## What the models found

Five runs end in a violation; each is a disagreement between the code and a
comment of its header (`PROJECT.json`, findings):

- `on_connect` never runs after a `proceed` between `start` and `connect`
  (`client_early_proceed`).
- `on_disconnect` runs for a connection that is up when urgent data comes, which the
  kernel reports as EPOLLPRI, epoll_t as EXCEPTION (`client_urgent`). The server
  registers its erase handler for EXCEPTION too (server.tpp:108), so urgent data
  also makes it erase a live connection, against server.h:30.
- `stop` and a handler may wait for each other for ever (`client_locks`).
- `on_conn` is not called for the second of two connections that come together
  (`server_accept`).
- `erase_active_socket` is called for a live connection when two threads poll and a
  number is reused (`server_pollers`).

These other disagreements with the documents are in the models, without a run of
their own:

- `on_connect` runs for a refused connection as well, because a refused socket
  raises EPOLLOUT with EPOLLERR and the handler looks at nothing else
  (client.tpp:173; client.h:56 says "on connection establishment").
- `connect` on an active client sets the fields and returns true, and connects to
  nothing (client.tpp:97-101, `ConnectActive`; client.h:53 says "Connect client to
  remote", client.h:59 "true if connected").
- At the end of the stream `recv` returns a value of 0 bytes, again and again, where
  recv_i.h:27 says "if nothing received returns std::nullopt" (socket_impl.cpp:265,
  `ReceivesEof`). This is what keeps the loops of both applications from ending
  (`Hung` and `Spinning` below, which the liveness properties except).
- The type of a socket does not tell its state, as README.md:31-33 has it: EINPROGRESS
  counts as success, so an active TCP socket, which can be written, may be still
  connecting, refused or aborted (socket_impl.cpp:58). What the type tells is which
  calls the descriptor has been through (`TypeTellsCalls`), and not even that in a
  program that connects a moved-from object, which may reach a descriptor that
  another object owns (socket_impl.cpp:57, `ConnectMovedFrom`).

`start()` twice leaks the first descriptor, which no document forbids
(`LeakedOnlyByAssignment` names the only way to leak). Of the applications, the
exceptions that the properties name are all reached:

- client_main spins for ever at the end of the stream when the last failing call
  did not leave EAGAIN: a refused connection, a reset, or a server that closes
  before it sent anything (`Spinning`). `on_disconnect` does not run, and a
  second signal is needed to end the process.
- An EAGAIN of an earlier call ends the loop after one buffer, and the rest stays
  unread until the next edge (`cut`).
- A line that comes together with another waits in stdio for more input
  (`Stranded`), and half a line blocks the whole client (`Typing`). At the end of
  the input a UDP client sends an empty datagram in every round.
- server_main does not stop while the peer of a socket it reads has closed
  (`Hung`): the handler that would erase it runs only
  in `proceed`.
- Two TCP connections at once, or an empty datagram and another one, move an
  element of the vector and end in undefined behaviour (`UndefinedExplained`).
- Datagrams of several senders that wait together are one request, and only the
  last sender is answered (`AnswerIsRight`).

## Not modelled

- `server_t::stop`: never instantiated, and would not compile (it assigns a
  `socket_t` made of an int).
- Callbacks that call `start` or `stop` of their own endpoint: `m_mutex` is not
  recursive, so the first such call never returns; the applications make none.
- Address parsing and printing (in_address, address_from_string, to_string, and
  `parse_addr` of socket_impl): byte layout without state; a bad address is a call
  that fails. The parsing of the command line.
- `epoll_t::mod_socket`, which has no caller; a moved `epoll_t` and the
  thread_local buffer of `proceed` (one epoll per program, as in the
  applications).
- How much of a buffer one `send` takes, and formatting of the answers.
- The tearing of one `std::function` assignment by a concurrent reader, and the
  destruction of a callable while it runs: undefined, and each assignment and each
  read is one step.
- `poll_traits`, the interfaces and the template utilities forward calls; a call
  of theirs is the call they forward to.

## Plan

1. Done: observer, epoll, client with `Session`, server with `ServerSystem`,
   sockets, `SocketIO`, both applications with `Service` and `AsyncStdin`.
2. Done: proofs of the observer, the client with its refinement of `Session`, the
   client application, the server, the server application with its refinement of
   `ServerSystem`, its answers and its messages, the service, and the sockets.
3. Left: liveness, which stays with TLC.
