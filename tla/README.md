# hex1: a TLA+ model of its client and its server

hex1 is a small client/server game in C++: one server process that serves all
clients from one thread with `pselect`, and a client program with a background
thread for the network and a thread for the user interface.  This directory
holds TLA+ modules translated from that source, the TLC configurations that
check them on small instances, and proofs, checked by TLAPS, of what holds for
every size: any number of clients, descriptors and messages, lists of any
length, maps of any dimensions.

Line numbers are those of the sources beside this directory, in `src/`.

## 1. Inventory

### 1.1 The components

| component | sources | state it keeps | operations |
|---|---|---|---|
| server loop | `gameServer.*` | the listening socket | `IncomingConnectionRequest` (a non-blocking `accept`), `server_loop`: accept one client, serve the sockets, sleep, start over; a catch-all around the body |
| sockets router | `ServerClientConnection.*`, class `ServerSocketsRouter` | `socket_map` (descriptor to connection object), `clientsocks_fds` and `clientsocks_nfds`, `select_readfds`, `select_writefds`, `select_errorfds`, `dead_list` | `CreateClientConnection`, `ReleaseClientConnection`, `OutgoingDataForClient`, `ServeClientSockets` with its error, reception and emission passes |
| server session | `ServerClientConnection.*`, class `ServerClientConnection` | `state`, `last_rejected_cause`, the user's data | one handler for each L1 message, `socketDataRead`, `socketDisconnected` |
| message socket | `MsgSocket.*`, `ServerSocket.*`, `ClientServerRequest.*` | `tx_fifo`, `tx_req_ptr` (the request under emission), `tx_length`, `tx_msg_length` (how far its message has got), `rx_fifo`, `rx_lenght`, `socket_descr` | `sendMsg`, `sendNextData` with `_sendLoop`, `recvNextData` with `_recvLoop` and `_recvBeginNewMsg`, `stop`, `discardDataBuffers`, `_determineErrorType` |
| client connection | `ClientConnection.*`, `gameClient.*` | `cnx_state`, `ext_event`, the credentials | `StartConnectionToServer`, `poll`, `_handleExtEvents`, one handler for each message of the server; for the user interface `RegistrationDataFromUserInterface` and `StopConnectionToServer` |
| client socket | `ClientSocket.*` | `sock_state`, a `MsgSocket` | `connect`, `poll` |
| file transfer request | `ClientServerFileTransferRequest.*` | the file, the position in it, the bytes sent | cuts a file into L1 messages (`buildNextL2Msg`); no caller queues one yet |
| hexagon map | `core/hexmap.*` | the dimensions of the map | `inRange`, `getHex`, `getCoordL`, `getVect`, `hexDist` |
| circular list | `util/circList.*` | `next` and `prev` of each head and element, iterators | insertions, extractions, moves, exchanges, cut and join of lists, loops |
| doubly linked list | `util/dbleList.h` | | included by no file |
| entry point and utilities | `main.cpp`, `util/ipUtilities.*`, `util/signalUtilities.*`, `util/MessageDescr.*`, `util/hex1DbgUtils.h` | none | command line, interface look-up, `waitUsec` |
| `ww2navalwg/mp.cc` | | | an unrelated sample |

### 1.2 How they interact

* A client and its session on the server exchange L1 messages over one TCP
  connection: `CONNECTION_REQ` with a version, then `REGISTRATION_REQ`, each
  answered by a `_CNF` or a `_REJ`, and `DISCONNECTION_REQ` answered by
  `DISCONNECTION_CNF`.
* On the server everything is a call in one thread: `server_loop` calls the
  router, the router calls the sessions of the sockets `pselect` reported, a
  session calls its `MsgSocket` to queue a reply and calls the router back
  (`OutgoingDataForClient`) to have the socket's write bit set.  The concurrency
  is with the kernel and the clients: between any two system calls a client may
  connect, send, close, be reset, or stop reading.
* On the client the background thread polls the socket, reads the external
  events the user interface has left, and handles the messages of the server.
  The two threads share `cnx_state`, `ext_event`, the credentials and the queues
  of the socket; some of these accesses hold a mutex and some do not.
* An error is an exception.  `socket_disconnection` is meant for the connection
  alone; any other goes up to `server_loop`'s catch-all, or ends the client's
  background thread.  No build defines `NDEBUG`: a failed `assert` ends the process.

### 1.3 What is hard, and what makes each component correct

* **Router.**  The map, the bitmap, the highest descriptor and the number of
  connections are updated by hand on each creation and each release.  A
  descriptor is closed by `stop()` in the middle of a cycle, its object leaves the
  map only at the end of one, and an exception may come in between; the
  kernel gives the number to the next client.  `select_writefds` is at once the
  permanent set of pending replies and an in-out argument of `pselect`.
  *Correct when* these four pieces agree at every step, a live object owns its
  client's descriptor, `dead_list` names each fallen connection once, a pending
  reply is scheduled, and what `pselect` counted is what a cycle serves.
* **Session.**  Clients may repeat or reorder their requests.  *Correct when* no
  order of requests lets a refused client in or registers a client twice.
* **Server as a whole.**  *Correct when* each client's messages are handled once
  and in order, each reply goes to the client that asked and to no other one, a
  question is answered, and a waiting client is accepted.
* **Client.**  Two threads write `cnx_state`; `setState` checks and then assigns;
  a lock of `_handleExtEvents` is a temporary that is released at once.  *Correct
  when* both ends agree on how far the connection has got, no assertion of the server fails
  because of the client, a client left alone registers, and a stopped one leaves.
* **Message socket.**  The sockets do not block, so that a message is sent and received
  over several calls, its two-part header included, while another thread may empty
  the queues.  *Correct when* the receiver is given the messages that were built, whole, in order
  and each once, no assertion fails for want of a byte, and what was asked for arrives.
* **File transfer.**  Two structures with their own room for the payload, and a position in the
  file kept apart from the count of bytes.  *Correct when* the blocks follow each other in the file,
  hold the bytes of the place they announce, and are all sent before another message is.
* **Circular list.**  Each operation is a few assignments through pointers that may be the same.
  *Correct when* the pointers are always rings, an element is in one list, each operation does to the
  sequence of elements what its comment says, and a loop whose body takes elements away misses none.
* **Hexagon map.**  Everything depends on the parity of the line.  *Correct when* the two tables
  of neighbours fit together, and the closed formula of the distance is the length of a shortest
  path that stays in the map.

Section 5 gives what these turned out to be; the full list of hazards,
each at its line with the properties that would notice it, is in `PROJECT.json`.

## 2. The modules

```
the server and the client, in whole messages
  ServerSession ──┬── ServerRouter ── ServerRefinement ── MCServerRouter        (TLC)
                  ├── SessionService (abstract; INSTANCE of ServerRefinement)
                  └── ClientConnection                                          (TLC)
  ServerRouterProofs, SessionServiceProofs, ServerRefinementProofs,
  ClientConnectionProofs                                                        (TLAPS)

one connection, byte by byte
  ClientServerRequest ──┬── MsgSocket ── MCMsgSocket                            (TLC)
                        └── MsgChannel (abstract; INSTANCE of MsgSocket)
  MsgSocketProofs                                                               (TLAPS)

the libraries
  CircList ── CircListRefinement ──┐        Lists (abstract; INSTANCE of CircListRefinement)
  Hexmap ──────────────────────────┴── MCCore                                   (TLC)
  CircListRingLemmas ── CircListProofs, HexmapProofs                            (TLAPS)
```

### 2.1 The server

**`ServerSession`** has no variables.  Each message handler of
`ServerClientConnection` is an operator from a session and a message to the
session after the call, the replies queued, and whether an `assert` failed.
The two programs' modules share it, so the client is checked against the same
handlers as the server.  The data base look-ups are the constants the source returns.

**`ServerRouter`** is the server process with the kernel and the clients around it.

| variables | code |
|---|---|
| `pc`, `work` | where `server_loop` is; what is left of the `SocketList` being served |
| `clientsocks_fds`, `clientsocks_nfds`, `select_readfds`, `select_writefds`, `dead_list`, `nb_client_connections` | the fields of the same name |
| `socket_map`, `cnx` | the keys of the map, and the `ServerClientConnection` and `MsgSocket` of each |
| `nb_act` | the local of `ServeClientSockets` |
| `link`, `full`, `inbound`, `received`, `backlog`, `fdtab` | the kernel's: state of each TCP connection, buffers, listen queue, descriptor table |
| `crash` | why the process ended |

| actions | code |
|---|---|
| `NoPendingConnection`, `AcceptError`, `AcceptConnection` | `accept` and `CreateClientConnection` |
| `Select` | the set-up of the bitmaps and `pselect` |
| `HandleSocketError` | one iteration of `_handleSocketErrors` |
| `ServeReception`, `HandleMessage`, `EndReception` | one iteration of `_serveSocketReceptions`: the `recv` calls, then one step for each message `socketDataRead` handles |
| `EmissionOutOfRange`, `EmissionDone`, `EmissionSend`, `EmissionBlocked`, `EmissionAfterBlocked`, `EmissionDisconnected` | the ways one iteration of `_serveSocketEmissions` goes |
| `StartReceptions`, `StartEmissions`, `EndEmissions`, `CheckCount`, `Release`, `EndCycle` | the rest of `ServeClientSockets` |
| `Connect`, `Send`, `Close`, `Reset`, `AnswerRst`, `Fail`, `Fill` | the clients and the network (external) |

A step is one system call with what the thread does up to the next one, or the
handling of one message.  The network moves only while the thread is at a system
call: elsewhere its steps commute with the thread's.

**`SessionService`** is what the server promises, with no socket, descriptor or
`pselect` in it: a session for each client, its messages handled in order, each
reply delivered once to the client that called for it, a session given up only
when its connection broke.  **`ServerRefinement`** gives the mapping: a client's
session and queues are those of the open object in the map that has its address.

### 2.2 The client

**`ClientConnection`** is the client program with one session of the server at
the other end.  The server's end is `SessionService` seen by one client: messages
handled in order, replies in order.

| variables | code |
|---|---|
| `cnx_state`, `ext_event`, `user`, `tx_fifo`, `rx_fifo`, `sock_state` | the fields the two threads share |
| `pc`, `store` | where the background thread is; the value `setState` has checked and not assigned yet |
| `ui`, `ui_todo` | where the thread of the user interface is, and what it may still call |
| `sent_credentials` | the user data of each `REGISTRATION_REQ` |
| `link`, `to_server`, `inbound`, `session`, `server_ok` | the connection and the server |

Each action is at most one access to shared state, or one system call: `setState`
is two steps (its `assert`, then `Store`), `_handleExtEvents` four, the pop of a message
is separate from the test that found one.  The user interface of this commit is a
loop that sleeps; what it may call is the interface `ClientConnection.h:109-133`
offers its thread, and `UiCalls` says which calls are made.

### 2.3 The byte stream

The server and the client move whole messages.  **`MsgSocket`** shows when they may: it is one
direction of a connection, from the queue of one end to the queue of the other, in units of the stream.

| variables | code |
|---|---|
| `tx_fifo`, `tx_req_ptr`, `tx_state`, `tx_length`, `tx_msg_length` | the fields of the emitting socket |
| `tx_pc`, `tx_msg` | where `_sendLoop` is; which message is in `tx_msg_header` and `tx_msg_body` |
| `rx_pc`, `rx_lenght`, `rx_msg` | where `_recvLoop` is; `rx_lenght`; the message under reception, by the units received |
| `wire`, `inbuf`, `link` | the kernel's: units on their way, units that can be received, how the connection ended |
| `built`, `delivered`, `nb_req`, `short` | histories: messages built, messages queued by the receiver, and the bounded counts |

A message built is its id, the place in the file it announces and the one it was read from, the number of its bytes and the
size of the whole request.

A unit is `<<m, i>>`: the i-th of the m-th message built.  The receiver does not look at it except
to read a length (`Announced`) and to know what it has got (`Contents`), so
that a message put together from the wrong units is seen as garbage.

| actions | code |
|---|---|
| `sendMsg`, `discardDataBuffers`, `stop` | the functions of the same name; the first two from any thread at any moment |
| `Killed` | the emitting process is killed between any two system calls; `tx_pc` is `"torn"` if that was between the header and the body of a message (`MsgSocket.cpp:199` and `210`) |
| `sendNextData`, `EndOfSendLoop`, `NextRequest`, `BuildMessage`, `ResumeMessage` | `sendNextData` and the turns of `_sendLoop` without a call |
| `SendHeader`, `SendHeaderRefused`, `SendBody`, `SendBodyRefused`, `SendDisconnected` | the two `send` calls: whole, partly, refused, broken |
| `recvNextData`, `_recvBeginNewMsg`, `ReceiveRest`, `NothingToReceive`, `MessageReceived`, `ReceiveDisconnected` | `recvNextData`, the peek at a length, and the turns of `_recvLoop` |
| `Arrive`, `Reset` | the network |

The two programs do not call an emitting socket on the same condition, hence the constant `Emitter` and the guard
`WriteAsked` of `sendNextData`.  The server keeps the socket's write bit while `sendNextData` says that a request is under way
(`ServerClientConnection.cpp:743-748`); the client asks `poll` for writability only while requests are
queued (`ClientSocket.cpp:353`, as `ClientConnection!WantsToSend` has it) and never goes on with the one under way alone.

**`ClientServerRequest`** has the requests, and how a file is cut into blocks.
**`MsgChannel`** is the abstract channel: requests served in turn, whole messages delivered in order.
It is what `ServerRouter` and `ClientConnection` take for granted of a connection.

### 2.4 The libraries

**`CircList`**: `links` has the pointers of every node, `it` the iterator of the loop in progress.
An operator for each function of `circList.h` gives the pointers after it from those before, with
the assignments in their order, and an action for each calls it as its comments require.
**`Lists`** is the abstract specification: each head is a sequence.  **`CircListRefinement`** reads
the list of a head along `next` and states that each operation of `CircList` is the operation on
sequences its comment describes.

**`Hexmap`** has the limits of the map, the vectors of the directions and `hexDist` of `hexmap.cpp` as operators,
and a walk that brings its properties to every hexagon.  `getCoordL` and the `getHex` that calls it return the opposite
of what `hexmap.h` says of them (section 5) and are left out.

### What is abstracted

* In the server and the client a message is its L1 id and the one field the code looks at.
  In `MsgSocket` it is a length and an identity; sizes are scaled down, with their order
  kept (`LenSize` < `HeaderSize` < `EWOULDBLOCK` < `L2Header`, as 2 < 3 < 11 < 16).
* Sets of descriptors are sets of numbers, not words of an `fd_set`: the copying
  and scanning of words, wrong from 64 descriptors on
  (`ServerClientConnection.cpp:629`), is left out.
* The kernel is that of Linux where it matters: `accept` gives the lowest free
  descriptor; `pselect` fails with `EBADF` on a closed one and leaves the sets as
  they were; `recv` and `send` report an error once; `send` after the peer's RST
  raises `SIGPIPE`; a TCP error is not reported in the third set of `pselect`, unless
  `ErrorFdsReported` says so.
* A reset discards what was sent and has not been read.
* `waitUsec`, the output, and the addresses of the clients are left out.
* A server never sends `DISCONNECTION_REQ`, because `sendDisconnectionReq` has no
  caller; the client's handler for it is therefore not reached.
* A list element has no payload: the lists do not look at it.

## 3. The runs

All are run on the modules as they are; every `.cfg` only gives constants their values.

| run | instance | shows |
|---|---|---|
| `ServerThreeClients` | 3 clients, descriptors for them and one to spare, a connection request or a message without answer from each; close, reset, other errors; 839 thousand states | `TypeOK`, `RouterConsistent`, `WriteBitsAreConnections`, `DeadListSound`, `DescriptorIsClients`, `PendingIsScheduled`, `NoRouterBug`, and the refinement `ServiceSpec` |
| `ServerFdReuse` | 2 clients for 2 descriptors, `accept` failing while both are in use, any 2 requests of a session, reset, errors, full send buffers, errors reported by `pselect`, `select_writefds` starting from any of three values; 2.2 million states | `AdmissionIsOrdered`, `RouterConsistent`, `DeadListSound`, `DescriptorIsClients`, `ReportedIsServed`, `ServiceSpec` where a descriptor changes hands while its old object is still mapped |
| `ServerLiveness` | 2 clients with any 2 questions, in either version, no fault, a descriptor to spare, `FairSpec`; 0.7 million states | `Answered`, `PendingIsAccepted` |
| `ClientWithServer` | every call of the user interface, every fault, `FairSpec`; 122 thousand states | `TypeOK`, `ServerUnharmed`, `AgreesWithServer`, `NeverRejected`, `Registers`, `StopEnds` |
| `ByteStream` | the server emits 2 requests among a message of 1 unit, one of 5 and a file of 5 units (3 blocks); one send refused or cut; `stop`, a kill and reset at any moment; `FairSpec`; 431 thousand states | `TypeOK`, `Fifo`, `AbortNeedsHalfMessage`, `BlocksAreContiguous`, `EverythingArrives`, and the refinement `ChannelSpec` |
| `Core` | 2 heads and 4 elements; a map of 6 by 5 | `TypeOK`, `Rings`, `ListsArePartition`, `LoopVisitsAll`, the refinement `ListsSpec`, `OperationsKeepTheirPromise`; `DirectionsAreOpposite`, `DistanceIsSymmetric`, `HexDistIsShortestPath` |
| `ViolCount`, `ViolWriteBits`, `ViolSend`, `ViolClosure` | one or two clients, the one fault each needs | the server does not do what its own text says: section 5 |
| `ViolCredentials` | the client with one call of the user interface | the same for the client |
| `ViolHeaderCut` | one message, its header cut | the same for the message socket |

**The bounds, and why they are enough.**

* *Clients and descriptors* (`Clients`, `LastFd`).  A connection meets another one
  in the router's lists, in the highest descriptor and through a reused number.  Three clients give each order
  of two or three sockets in a list, and a number used again while others are alive.  Two clients for two descriptors
  give the reuse under every fault at once, and the full table.  Since `accept` takes a descriptor before it looks for a
  client (`FreeDescriptor`), the server serves nobody once its table is full: a descriptor
  to spare is what keeps the other instances serving.  The properties of the router and the refinement
  are proved for every number (section 4).
* *Messages* (`MaxMsgs`, `ClientMsgs`).  Two requests (`ServerFdReuse`, `ServerLiveness`) suffice for a reply
  pending while another message is handled, and for each pair of requests, repeated or out of order; in `ServerThreeClients`,
  which is about the sockets, one from each client fills every pass.  A client registered
  twice would need three; `AnswersAreAlwaysOrdered` proves it for any number.  The runs leave out the other messages whose
  handling is that of `POLL_REQ` (nothing) and `DISCONNECTION_CNF`, which no client program sends
  before a `DISCONNECTION_REQ` and which fails `assert(state == DISCONNECTING)`.
* *`InitWriteFds`*: the values the uninitialised `select_writefds` may have: zeroed
  memory, or one bit, of a descriptor no client has or of the first client.
  Each is a case of its own in `pselect` and in `_serveSocketEmissions`.
* *`SelectTimeout`*: the value of the never assigned `select_timeout`; zero in the runs
  (the one `ServerSocketsRouter` is allocated once, and a fresh page is zeroed).
  The proofs cover all three values.
* *`UiCalls`*: each call of the user interface once: one in flight already meets each
  step of the background thread, and a stop may follow a stop with a flush.
* *Requests and sizes of the stream* (`MaxRequests`, `Requests`, `MaxBlocks`, `MaxShort`).  Two requests give a message that
  ends and one that begins in the same arrival, and a request that waits when the queues are emptied.  The
  message of 5 units is longer than `EWOULDBLOCK`, so that a part of it may be as long; the file has a first block,
  a full block and a last one that is not.  `MaxBlocks` is never reached: two files have six blocks.
  A second refusal or cut adds nothing to the state but `short`, since a call that was
  refused or cut starts over from the variables the first left.
* *How the connection ends* (`Ends`).  `stop` between two calls of `sendNextData`, a kill between any two system calls, a reset
  anywhere: each alone, since there is nothing after the first.
* *Lists* (`Heads`, `Elts`, `N`).  An operation touches a node, its neighbours and one other place: with four elements
  the neighbours of two places are different nodes, and with fewer of them linked they coincide in every way.
* *The map* (`nbLines`, `nbColumns`).  Lines of both parities at each border, and paths longer than the threshold of
  columns in both directions.  The proofs cover every map.

**Fairness.**  `ServerRouter!FairSpec` is `WF_vars(Server)`: the one thread runs
whenever it is not blocked in `pselect`.  Nothing is assumed of clients or the
network.  `ClientConnection!FairSpec` is weak fairness of the background thread,
which polls for ever; of a call the user interface has *begun* (`ui # "idle"`), as the
calls do not block; and of the server's answer to a message that reached it, which is
what `ServerLiveness` shows of the server.  Not even the establishment of the
connection is fair: `Registers` is about a client that got as far as its first poll.
`MsgSocket!FairSpec` is weak fairness of the receiving thread, of the arrival of what was sent, and
of the emitting thread as long as no send was refused or cut; not of `stop`, of a kill, of a reset, nor of the upper level.
The emission is only as willing as its program: in `ByteStream` the server's loop, whose write bit is set by each
answer and kept while `sendNextData` returns that a request is under way.  Nothing is promised after a refusal, because `pselect`
clears the write bit of a full socket (`ViolWriteBits`), and nothing is promised for the client: with `Emitter = "client"` the same
run violates `EverythingArrives`, the rest of a file waiting in `tx_req_ptr` for ever once the queue is empty.

**Symmetry** of the clients is used in `ServerThreeClients` and `ServerFdReuse`, and of the heads and of the elements in
`Core`: they check invariants and step-by-step refinements, and no run with a liveness property uses it.

**Deadlock** is checked in every run but those of `MsgSocket`, where everything may be sent, received and stopped.
With a timeout of zero `pselect` returns at once and the server thread
always has a step, as the client's background thread has when it polls; a process that has ended stutters
explicitly (`Aborted`, `Ended`).

## 4. The proofs

TLAPS proves each of these for every value of the constants.

| module | theorem | statement |
|---|---|---|
| `ServerRouterProofs` | `TypeCorrect` | `Spec => []TypeOK` |
| | `RouterIsConsistent` | `Spec => []RouterConsistent`: the map, the bitmap, the count and the highest descriptor agree |
| | `DescriptorsAreClients` | `Spec => []DescriptorIsClients` |
| | `DeadListIsSound` | `Spec => []DeadListSound` |
| | `ReportedIsAlwaysServed` | `Spec => []ReportedIsServed`: a cycle serves no fewer descriptors than `pselect` counted |
| | `RouterNeverLosesASocket` | `InitWriteFds = {{}}` implies `Spec => []NoRouterBug` |
| | `WriteBitsAlwaysConnections` | `InitWriteFds = {{}}` implies `Spec => []WriteBitsAreConnections` |
| | `PendingIsAlwaysScheduled` | `InitWriteFds = {{}}` and no full buffer imply `Spec => []PendingIsScheduled` |
| `SessionServiceProofs` | `AdmissionAlwaysOrdered` | the abstract service's `Spec => []AdmissionIsOrdered` |
| `ServerRefinementProofs` | `ServerImplementsService` | `Spec => ServiceSpec`: the server implements the service |
| | `AnswersAreAlwaysOrdered` | `Spec => []AdmissionIsOrdered`, from the two before |
| `ClientConnectionProofs` | `ClientTypeCorrect`, `ServerNeverHarmed`, `BothEndsAlwaysAgree`, `NoRequestIsRefused` | `TypeOK`, `ServerUnharmed`, `AgreesWithServer`, `NeverRejected` for any set of calls and faults |
| `MsgSocketProofs` | `StreamTypeCorrect` | `Spec => []TypeOK` |
| | `MessagesArriveInOrder` | `Spec => [](Undamaged => Fifo)`: see below for `Undamaged` |
| | `NoAbortBeforeHalfMessage` | `Spec => []AbortNeedsHalfMessage` |
| | `StreamImplementsChannel` | only harmless faults imply `Spec => ChannelSpec`: the bytes implement whole messages |
| | `BlocksAlwaysContiguous` | files read from their start imply `Spec => []BlocksAreContiguous` |
| `CircListProofs` | `TypesAlways`, `RingsAlways`, `PartitionAlways` | `TypeOK`, `Rings`, `ListsArePartition` for any number of heads and elements |
| | `LoopsVisitAll` | `Spec => []LoopVisitsAll`: a loop is not disturbed by what its body takes away |
| | `RingsImplementLists` | `Spec => ListsSpec`: the rings of pointers implement the sequences of `Lists` |
| | `PromisesKept` | `Spec => OperationsKeepTheirPromise`: each operation does to the sequences what its comment says |
| `HexmapProofs` | `DirectionsAlwaysOpposite`, `DistanceAlwaysSymmetric`, `HexDistAlwaysShortestPath` | the three properties of `Hexmap` for a map of any size |

They rest on the assumptions the modules name: `ConstantsAssumption` (`ServerRouter`: types, and room for one
descriptor), `ClientAssumption`, `SizesAssumption`, `StreamAssumption` and `RequestsAssumption` (sizes of the
structures and of the headers, requests as their constructors leave them, no message body of exactly `EWOULDBLOCK` bytes), `NodesAssumption` (heads are not elements), `BoundAssumption`
(there are at most `N` elements: `N` bounds the walk that reads a list, and nothing else),
`MapAssumption` (dimensions that fit an `mIndex`).  TLC evaluates each in the runs.

**The router.**  The first four theorems come from one inductive invariant,

```
IInv == TypeOK /\ MapIsBitmap /\ CountIsSize /\ NfdsIsHighest
        /\ OwnersAreClients /\ DescriptorIsClients /\ ListsAreKnown /\ DeadListSound
        /\ crash # "assert_erase"
```

* `CountIsSize` is not inductive alone: a creation adds one to the count and a descriptor to the
  map, which are the same only because the descriptor is tested against the
  *bitmap* (hence `MapIsBitmap`) and a release decrements only when the map had it
  (hence `DeadListSound`, which keeps the released descriptor in the map, once).
* `NfdsIsHighest` needs the scan of `ReleaseClientConnection` to find the next highest
  bit: lemma `HighestBelowIsHighest`, from the existence of a greatest element of
  a set of descriptors (by well-foundedness of `<` on the distances to `LastFd`, without induction over an operator).
* `DescriptorIsClients` needs `OwnersAreClients`, for the kernel's table has `NoClient` for a closed
  descriptor and an open object must not match it, and the fact that only a closed descriptor is given out.
* `DeadListSound` needs `ListsAreKnown`: `_serveSocketReceptions` pushes a descriptor of the list it serves,
  which was copied from the map before the passes began; nothing leaves the map until the end of the
  cycle.  Two entries are never the same since the pass lists only open sockets and stops them.

`ReportedIsServed` rests on `CInv`: `nb_act` is at most the cardinality of what the remaining passes will serve, the list of
the current one and the sets of the next.  The error pass is the step that needs care: it clears the failed descriptor from
the other two sets and must count each bit it cleared.  A reception may add a bit to `select_writefds`, which only makes
the sum larger; so the assertion on `nb_act` that `ViolCount` breaks can fail in
one direction only, by serving too much, unless `pselect` itself failed.

The write bits (`WInv`) and the replies that wait (`PInv`) come on top of it.  Their hypotheses are
needed: the source never initialises `select_writefds`, and with a bit of garbage below the
highest descriptor the emission pass ends in `out_of_range`; and a full send buffer is the one way
to lose the bit of a reply (`ViolWriteBits`): the theorem shows that there is no other.

**The service.**  `ServerRefinementProofs` adds to `IInv` that a client is at one place only: waiting in the
listen queue, or owner of one descriptor, never twice in either (`QueueSound`, `TableSound`, `OnePlace`), and that a stopped
object has nothing queued (`StoppedIsEmpty`).  Without it the mapping from a client to its
session would not be a function.  Each action of the router is then one step of the service or
a stutter.  `SessionServiceProofs` relates the state of a session to every answer given or queued (an answer of each kind
once, none after a refusal, a confirmation before a registration), which makes `AdmissionIsOrdered` inductive; the refinement brings it to the server.

**The client.**  An answer may be at any of five places (a queue of either end, the network, a message just popped, the
state it led to).  The invariant says that wherever there is evidence that the
connection was confirmed, no `CONNECTION_REQ` is pending and the server's session has got at least that far (`OneConnection`,
`ConfirmedByServer`), and that a client nobody has stopped keeps one registration in flight (`Orderly`).

**The lists.**  `Rings` alone is not inductive: joining two heads of one ring would break it, so the
invariant must know that they are in different ones.  `Placed` (`CircListRingLemmas`) gives each linked node a *place*: the
head that owns it (`own`), its position behind that head (`pos`), one more than that of the node before it until the
list's length (`len`), and no place to two nodes.  `Spells` says that a function `q` from heads to
sequences has each node at its place, and the inductive invariant is

```
IInv == stale \subseteq Heads /\ Good(links, Live) /\ Ordered(links, Live, list)
```

where `Good` is the rings, and `Ordered(l, S, q)` that there are places under which the pointers `l` of the
nodes `S` spell `q`.  Each operation has three lemmas: it keeps the rings; it keeps places, other ones,
given explicitly (`OutPos` closes the gap an element leaves, `CutOwn` gives the beginning of a list to
the other head, `JoinPos` shifts the list that goes behind...); and under the new places the new pointers
spell what the operation of `Lists` gives.

What makes this a refinement is `ReadIsSpelled`: pointers that spell `q` are read back as `q` by the walk along `next`
that defines `list`, so that whatever the operation was shown to spell *is* `list'`.  This
needs no induction over an operator: the positions where the walk would leave the sequence are a set of numbers, which has
a least element (`Smallest`, by well-foundedness), and there is no such least one, because one step before it
the walk is at the place the sequence says, whose next is the next place (`NextPlace`).  That the walk is long enough
(`ListIsBounded`) is that a list has no more elements than there are, since positions are injective.

A loop adds `LoopInv`: with `k` elements visited, the iterator is at the `k+1`-st of the list as it was
at the beginning, the pointer it cached is at the one after, and every later element is still linked to its successor:
what the body takes away is the current element only, and it is none of the later ones nor the successor of one.
The elements already passed may be anywhere, the current one too.

**The map.**  `HexDistIsShortestPath` is by one step further and one step closer: a neighbour's distance differs by at most
one, and a hexagon at a distance of n + 1 has a neighbour in the map at n.  The second
needs the parities and sides case by case, and that the neighbour chosen does not leave the map.

**The byte stream.**  `BasicInv` is what holds whatever the kernel does: the types, and that the positions of the
emission are those of the last message built.  The order of the messages holds only while the stream is
`Undamaged`: no send was refused or cut yet, or the only faults the kernel may inject are the `Harmless` ones, after
which `_sendLoop` does not go on in the middle of a message (`ViolHeaderCut` is what another fault does).  Then
`StreamInv` holds: each message that is not delivered has a *place* in what is on its way, `start[m]`, negative for the
message partly received; the unit at position `i` of message `m`'s place is its unit `i - start[m]`; the places touch, each as
long as the length announced in its header; and the emission is at the end of the last place, or inside it by
`tx_length`.  The mapping `start` is existentially quantified: each step either leaves it as it is (a send fills the last place, an arrival
moves units from `wire` to `inbuf`), shifts it (the receiver takes units from the front), or extends it by one place
(a message is built).  An emitting end that was killed between a header and its body (`"torn"`) leaves the last place half
filled; every other end leaves the stream at the end of a place, so that the receiver never waits for the rest of a
message.  `Fifo` and the absence of aborts are read off it, and with them
every step of the bytes is a step of `MsgChannel` or a stutter.  Blocks (`BlocksInv`): a file's request keeps the position in the file equal
to the count of bytes sent, and the last message built is its last block; a block that does not complete its file is the last
message built only while its request is under way, since a request gives way only when it is served, whatever was
refused, cut, discarded or stopped in between.  `FromStart` excludes the files smaller than the buffer of
stdio, whose descriptor the constructor leaves at the end (section 5).

**Only model-checked:** the liveness properties (`Answered`, `PendingIsAccepted`, `Registers`, `StopEnds`,
`EverythingArrives`), which are out of the prover's reach.  Every invariant, step property and refinement that a passing
run checks has a theorem.  The properties of the `Viol` runs are false, each under
the instance of its run; `Fifo` and `PendingIsScheduled` are both: false there, and proved where
the theorem's hypothesis excludes the cause.

## 5. Where the code departs from its own text

Each of these has a run of its own, whose counterexample is the scenario.

1. `ViolCount`.  A reply queued during the receptions sets its bit in the very set `pselect` has filled
   in and counted.  Two clients that say hello are enough to serve one emission too many: `assert(nb_act == 0)` (`ServerClientConnection.cpp:832`).
2. `ViolWriteBits`.  `pselect` clears the bit of a socket whose send buffer is full, and the
   pending reply is scheduled again only when that client sends something (`ServerClientConnection.h:141`).
3. `ViolSend`.  A disconnection noticed by `send` is not contained: a client that closes with replies
   pending ends the server with `SIGPIPE` (`MsgSocket.cpp:125`), and where it is reported as an error it is handled through the outer
   `client_cnx_ptr`, which is null: the one assigned is local to the `try` block (`ServerClientConnection.cpp:754`).
4. `ViolClosure`.  `recv` returning 0 is taken for data that has not arrived: a client that
   leaves properly is never released (`MsgSocket.cpp:340`, `ServerClientConnection.cpp:381`).
5. `ViolCredentials`.  The lock of `_handleExtEvents` is a temporary: credentials given while an earlier event is handled are wiped out by `clear()` (`ClientConnection.cpp:477`).
6. `ViolHeaderCut`.  When `send` takes a part of a header, the next call sends the body from its start and
   the rest of the header never leaves (`MsgSocket.cpp:209-211`).

Met while modelling, and not the subject of a run:

* `select_timeout` is never assigned (the time computed at `ServerClientConnection.cpp:787-791` goes nowhere) and
  `select_writefds` is not initialised; a long timeout delays `accept`, a garbage bit reaches `assert(0)`.
* With no descriptor left `accept` fails with `EMFILE` and throws at each turn, whether or not a client waits, before the clients
  are served (`gameServer.cpp:122`): none of them is served again, and so none is released.
* The client forgets a request under way: `ClientSocket.cpp:353` asks for writability only while something is queued, so that
  the rest of a file waits until another request is made, and so does a message whose header was refused (`ByteStream.cfg` with
  `Emitter = "client"` violates `EverythingArrives`).  No text of the source speaks of it.
* A process killed between the header and the body of a message leaves the receiver in the middle of one, with `recv` returning 0:
  `assert(errno == EWOULDBLOCK)` reads an `errno` no call has set (`MsgSocket.cpp:382`).
* `_handleSocketErrors` stops a connection and does not list it for release.
* An exception of `recv` or `send` other than a disconnection skips the release of `dead_list`.
* The constructor of `ClientSocket` connects, and `StartConnectionToServer` connects again
  (`ClientConnection.cpp:50`): `EALREADY`, `assert(0)` (`ClientSocket.cpp:201`).
* On the client: `StopConnectionToServer` with an answer on its way fails an assertion of its handler (`StopEnds` and
  `AgreesWithServer` allow the client to abort); credentials may be read half written; the queues are
  emptied without their mutex (`MsgSocket.cpp:85`, against 154); a disconnection reported by `POLLHUP` leaves messages
  in the queue; the end of the server's stream is not noticed; after `DISCONNECTION_CNF` the client stays `CLOSING`.
* A refused body makes `_sendLoop` add `-EWOULDBLOCK` to `tx_length`, because the number of bytes is compared with
  `EWOULDBLOCK` (`MsgSocket.cpp:211`).  At the next turn a request that has nothing more to build (every single message, the last
  block of a file) fails `assert(tx_length == 0)`; a file with blocks left sends its body again with a count 11 bytes too
  large, and reads past the body.  A part of a body that happens to be 11 bytes long is taken for a refusal and sent again.
* A file shorter than the buffer of stdio is never sent: the descriptor is at its end after
  `file_size()` (`ClientServerFileTransferRequest.cpp:52`), and empty blocks follow one another for ever.
  The second structure's size is used for the length of a block (line 176), and `transfer_id` is never assigned.
* `getCoordL` returns the coordinates of a neighbour that is *outside* the map and null for one inside, and `getHex` makes of the former the
  address of a hexagon outside the array (`hexmap.cpp:146`, `162-165`), where `hexmap.h:99-101` and `109-111` promise null outside and the hexagon
  inside.  Every call shows it: it needs no model.  The destructor of the map frees `nbColumns` lines (`hexmap.cpp:89`).
* `append` leaves the head that was emptied pointing into the other list (`circList.h:532`).

## 6. What is not modelled, and why

* The words of bitmaps, and the contents of messages the code does not look at: see "what is abstracted".
* A file that changes while it is sent, and `ClientServerMsgTransferRequest`, whose constructor and destructor have no definition.
* `transferFile` is an empty stub, `MsgSocket::shutdown` has no definition, and the `SIGIO` code at the end of `MsgSocket.cpp` is dead.
* Backward iteration over a list, and `replace_by` between elements, which its assertion allows only within one owner.
* The arrays of the map (terrain, units, wind): never read.  `getVect`: no caller.  `getCoordL` and `getHex(Hexagon, Direction)`: their
  condition is inverted (section 5), and there is nothing to state of them until it is not.
* The doubly linked list: included by no file.
* `main.cpp`, `ipUtilities`, `signalUtilities`, `MessageDescr`: no state, or I/O only.
* `ww2navalwg/mp.cc`: not part of the game.

## 7. What could come next

* A connection with both directions of `MsgSocket` in one instance: they share the socket's descriptor and `stop()`.
* The words of `fd_set`, for a server with 64 clients or more.
