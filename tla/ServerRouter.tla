----------------------------- MODULE ServerRouter -----------------------------
(***************************************************************************)
(* The game server: GameServer::server_loop, the ServerSocketsRouter that  *)
(* multiplexes the client sockets with pselect(), one                      *)
(* ServerClientConnection and one MsgSocket per client, and around them    *)
(* the kernel and the clients' ends of the TCP connections.                *)
(*                                                                         *)
(* The server is one thread.  A step of the model is one system call with  *)
(* what the thread does until the next one (accept, pselect, the recv      *)
(* calls on one socket, the send calls on one socket), or the handling of  *)
(* one message; the network acts between any two steps.  A MsgSocket moves *)
(* whole messages here: their bytes are not modelled.                      *)
(***************************************************************************)
EXTENDS ServerSession, Integers, FiniteSets

CONSTANTS
  Clients,          \* the TCP connections clients may open, one per element
  NoClient,
  LastFd,           \* highest descriptor the process may own (RLIMIT_NOFILE - 1)
  ClientMsgs,       \* the messages clients send, a subset of Request
  MaxMsgs,          \* bound: messages one client sends
  Faults,           \* subset of {"close", "reset", "fail", "full"}
  ErrorFdsReported, \* does pselect report a TCP error in its third set?  FALSE on Linux
  InitWriteFds,     \* the values the uninitialised select_writefds may have
  SelectTimeout     \* the value of the uninitialised select_timeout: "zero", "long", "invalid"

(* Descriptors 0-2 are the console and 3 is the listening socket.          *)
FirstFd == 4
Fds == FirstFd .. LastFd

ASSUME ConstantsAssumption ==
  /\ NoClient \notin Clients
  /\ LastFd \in Nat /\ LastFd >= FirstFd
  /\ ClientMsgs \subseteq Request
  /\ MaxMsgs \in Nat
  /\ Faults \subseteq {"close", "reset", "fail", "full"}
  /\ ErrorFdsReported \in BOOLEAN
  /\ InitWriteFds \subseteq SUBSET (0 .. LastFd)
  /\ SelectTimeout \in {"zero", "long", "invalid"}

VARIABLES
  (* the kernel and the clients *)
  link,       \* link[c]: the TCP connection of client c, see Links
  full,       \* full[c]: the send buffer towards c is full
  inbound,    \* inbound[c]: messages of c in the receive buffer of its socket
  received,   \* received[c]: every message the kernel has taken for c, in order
  nb_req,     \* nb_req[c]: messages c has sent
  backlog,    \* the queue of the listening socket
  fdtab,      \* fdtab[fd]: the client whose socket the descriptor is
  (* the server *)
  pc,         \* where server_loop is
  work,       \* descriptors of the current list still to be served
  clientsocks_fds, clientsocks_nfds,
  select_readfds, select_writefds,
  nb_act,     \* what is left of the count pselect returned
  dead_list,
  socket_map, \* the keys of the map ...
  cnx,        \* ... and the connection object of each
  nb_client_connections,
  crash       \* why the process ended, "no" while it runs

net    == <<link, full, inbound, received, nb_req, backlog, fdtab>>
sets   == <<clientsocks_fds, clientsocks_nfds, select_readfds, select_writefds>>
router == <<dead_list, socket_map, nb_client_connections>>
vars   == <<net, pc, work, sets, nb_act, router, cnx, crash>>

(* idle: not opened.  open: established.  fin: the client closed it.       *)
(* finsent: closed, and the server has sent since.  finrst: closed, and    *)
(* that data came back as a RST (recv reports the end of the stream, send  *)
(* raises SIGPIPE).  rst: reset or timed out.  fail: any other error       *)
(* (EHOSTUNREACH...).  gone: the server has closed its socket.             *)
Links == {"idle", "open", "fin", "finsent", "finrst", "rst", "fail", "gone"}

(* tx_req_ptr: no request; a request wholly built and sent; or the message *)
(* that was built and could not be sent.                                   *)
NoReq == [id |-> "no_request", arg |-> "none"]
Served == [id |-> "served", arg |-> "none"]

(* A connection object: ServerClientConnection and its MsgSocket.          *)
Connection == [addr : Clients \cup {NoClient}, session : Session, sock_open : BOOLEAN,
               tx_fifo : Seq(Reply), tx_req : Reply \cup {NoReq, Served}, rx_fifo : Seq(Request)]

NewConnection(c) == [addr |-> c, session |-> NewSession, sock_open |-> TRUE,
                     tx_fifo |-> <<>>, tx_req |-> NoReq, rx_fifo |-> <<>>]

Init ==
  /\ link = [c \in Clients |-> "idle"]
  /\ full = [c \in Clients |-> FALSE]
  /\ inbound = [c \in Clients |-> <<>>]
  /\ received = [c \in Clients |-> <<>>]
  /\ nb_req = [c \in Clients |-> 0]
  /\ backlog = <<>>
  /\ fdtab = [fd \in Fds |-> NoClient]
  /\ pc = "accept" /\ work = {} /\ nb_act = 0
  /\ clientsocks_fds = {} /\ clientsocks_nfds = 0
  /\ select_readfds = {}
  /\ select_writefds \in InitWriteFds
  /\ dead_list = <<>> /\ socket_map = {} /\ nb_client_connections = 0
  /\ cnx = [fd \in Fds |-> NewConnection(NoClient)]
  /\ crash = "no"

-----------------------------------------------------------------------------
(* The clients and the network.                                            *)

Connect(c) ==
  /\ link[c] = "idle"
  /\ link' = [link EXCEPT ![c] = "open"]
  /\ backlog' = Append(backlog, c)
  /\ UNCHANGED <<full, inbound, received, nb_req, fdtab>>

Send(c, m) ==
  /\ link[c] = "open" /\ nb_req[c] < MaxMsgs
  /\ inbound' = [inbound EXCEPT ![c] = Append(@, m)]
  /\ nb_req' = [nb_req EXCEPT ![c] = @ + 1]
  /\ UNCHANGED <<link, full, received, backlog, fdtab>>

(* The client exits, its connection is reset, or the RST that answers data *)
(* sent after its exit arrives; an error other than a reset needs data in  *)
(* flight to be noticed.                                                   *)
Break(c, from, to) ==
  /\ link[c] = from
  /\ link' = [link EXCEPT ![c] = to]
  /\ UNCHANGED <<full, inbound, received, nb_req, backlog, fdtab>>

Close(c) == "close" \in Faults /\ Break(c, "open", "fin")
Reset(c) == "reset" \in Faults /\ Break(c, "open", "rst")
AnswerRst(c) == Break(c, "finsent", "finrst")
Fail(c) == "fail" \in Faults /\ received[c] # <<>> /\ Break(c, "open", "fail")

(* The client stops reading, then reads again.                             *)
Fill(c) ==
  /\ "full" \in Faults /\ link[c] = "open" /\ received[c] # <<>>
  /\ full' = [full EXCEPT ![c] = ~@]
  /\ UNCHANGED <<link, inbound, received, nb_req, backlog, fdtab>>

(* The thread is at a system call; between two of them it touches nothing  *)
(* of the network, so that its steps commute with the network's.           *)
AtSystemCall ==
  \/ pc \in {"accept", "select"}
  \/ pc \in {"errors", "receptions", "emissions"} /\ work # {}

Network ==
  /\ AtSystemCall
  /\ \E c \in Clients :
       \/ Connect(c) \/ Close(c) \/ Reset(c) \/ AnswerRst(c) \/ Fail(c) \/ Fill(c)
       \/ \E m \in ClientMsgs : Send(c, m)
  /\ UNCHANGED <<pc, work, sets, nb_act, router, cnx, crash>>

-----------------------------------------------------------------------------
(* How the process leaves its loop: an exception is caught by server_loop, *)
(* which starts over; a failed assertion, a null pointer or SIGPIPE ends   *)
(* the process.                                                            *)
Throw == pc' = "accept" /\ work' = {} /\ nb_act' = 0 /\ UNCHANGED crash
Abort(why) == pc' = "aborted" /\ work' = {} /\ nb_act' = 0 /\ crash' = why

-----------------------------------------------------------------------------
(* server_loop: accept one client, serve the sockets, start over.          *)

FreeDescriptor == \E fd \in Fds : fdtab[fd] = NoClient

NoPendingConnection ==
  /\ pc = "accept" /\ FreeDescriptor /\ backlog = <<>>
  /\ pc' = "select"
  /\ UNCHANGED <<net, work, sets, nb_act, router, cnx, crash>>

(* accept() takes a descriptor before it looks at the backlog, and fails   *)
(* (EMFILE) if there is none: the exception skips ServeClientSockets.      *)
AcceptError ==
  /\ pc = "accept" /\ ~FreeDescriptor
  /\ Throw
  /\ UNCHANGED <<net, sets, router, cnx>>

CreateClientConnection(fd, c) ==
  IF fd \in clientsocks_fds
  THEN Throw /\ UNCHANGED <<sets, router, cnx>>   \* and the accepted socket leaks
  ELSE /\ clientsocks_nfds' = IF fd >= clientsocks_nfds THEN fd + 1 ELSE clientsocks_nfds
       /\ clientsocks_fds' = clientsocks_fds \cup {fd}
       /\ cnx' = [cnx EXCEPT ![fd] = NewConnection(c)]
       /\ socket_map' = socket_map \cup {fd}
       /\ nb_client_connections' = nb_client_connections + 1
       /\ pc' = "select"
       /\ UNCHANGED <<work, select_readfds, select_writefds, nb_act,
                      dead_list, crash>>

(* The kernel gives the lowest free descriptor.                            *)
AcceptConnection ==
  /\ pc = "accept" /\ backlog # <<>>
  /\ \E fd \in Fds :
       /\ fdtab[fd] = NoClient
       /\ \A lower \in FirstFd .. (fd - 1) : fdtab[lower] # NoClient
       /\ fdtab' = [fdtab EXCEPT ![fd] = Head(backlog)]
       /\ CreateClientConnection(fd, Head(backlog))
  /\ backlog' = Tail(backlog)
  /\ UNCHANGED <<link, full, inbound, received, nb_req>>

-----------------------------------------------------------------------------
(* ServeClientSockets: pselect, then errors, receptions, emissions.        *)

Readable(c) == inbound[c] # <<>> \/ link[c] \notin {"idle", "open", "gone"}
Writable(c) == ~full[c] \/ link[c] \in {"finrst", "rst", "fail"}

(* The kernel looks at the bits below clientsocks_nfds.  The listening     *)
(* socket is never writable, the console always is.                        *)
Polled(set) == {fd \in set : fd < clientsocks_nfds}
ClosedFd(fd) == fd \in Fds /\ fdtab[fd] = NoClient
ReadyForWrite(fd) == IF fd \in Fds THEN Writable(fdtab[fd]) ELSE fd < 3

(* pselect() is passed select_writefds itself, and overwrites it with the  *)
(* sockets that can be written.  With no descriptor to look at it writes   *)
(* nothing; when it fails it leaves the sets as they are.                  *)
Select ==
  /\ pc = "select"
  /\ pc' = "errors"
  /\ IF SelectTimeout = "invalid" \/ \E fd \in Polled(clientsocks_fds \cup select_writefds) : ClosedFd(fd)
     THEN /\ nb_act' = -1 /\ work' = {}
          /\ select_readfds' = clientsocks_fds
          /\ UNCHANGED select_writefds
     ELSE LET reads  == {fd \in Polled(clientsocks_fds) : Readable(fdtab[fd])}
              writes == {fd \in Polled(select_writefds) : ReadyForWrite(fd)}
              errors == {fd \in Polled(clientsocks_fds) : ErrorFdsReported /\ link[fdtab[fd]] \in {"rst", "fail"}}
          IN /\ SelectTimeout = "zero" \/ reads \cup writes \cup errors # {}
             /\ select_readfds' = reads
             /\ select_writefds' = IF clientsocks_nfds = 0 THEN select_writefds ELSE writes
             /\ nb_act' = Cardinality(reads) + Cardinality(writes) + Cardinality(errors)
             /\ work' = errors                       \* the list of select_errorfds
  /\ UNCHANGED <<net, clientsocks_fds, clientsocks_nfds, router, cnx, crash>>

(* The lists are in increasing order.                                      *)
IsNext(fd) == fd \in work /\ \A other \in work : fd <= other

(* A list is built from its set when its turn comes, if descriptors are    *)
(* left to serve; the counts a list returns are subtracted as it goes.     *)
NextList(this, next, set) ==
  /\ pc = this /\ work = {}
  /\ pc' = next
  /\ work' = IF nb_act > 0 THEN set ELSE {}
  /\ UNCHANGED <<net, sets, nb_act, router, cnx, crash>>

StartReceptions == NextList("errors", "receptions", select_readfds)
StartEmissions  == NextList("receptions", "emissions", select_writefds)
EndEmissions    == NextList("emissions", "end", {})

(* MsgSocket::stop: the queues are cleared, the descriptor closed.         *)
StoppedM1(conn, state) ==           \* mutant: socket_descr keeps its value
  [conn EXCEPT !.session.state = state, !.tx_fifo = <<>>, !.rx_fifo = <<>>]

Stopped(conn, state) ==
  [conn EXCEPT !.session.state = state, !.sock_open = FALSE, !.tx_fifo = <<>>, !.rx_fifo = <<>>,
               !.tx_req = IF @ = NoReq THEN NoReq ELSE Served]

socketDisconnected(fd) ==
  /\ cnx' = [cnx EXCEPT ![fd] = Stopped(@, "DISCONNECTED")]
  /\ link' = [link EXCEPT ![fdtab[fd]] = "gone"]
  /\ inbound' = [inbound EXCEPT ![fdtab[fd]] = <<>>]
  /\ fdtab' = [fdtab EXCEPT ![fd] = NoClient]
  /\ UNCHANGED <<full, received, nb_req, backlog>>

(* An error is reported once: recv then sees the end of the stream.        *)
ConsumeError(c) ==
  /\ link' = [link EXCEPT ![c] = "finrst"]
  /\ UNCHANGED <<full, received, nb_req, backlog, fdtab>>

(* _determineErrorType peeks at the socket, whose descriptor is -1 once    *)
(* stopped; an unknown socket is an exception too.                         *)
ErrorOf(fd) ==
  IF fd \notin socket_map \/ ~cnx[fd].sock_open THEN "exception"
  ELSE IF inbound[fdtab[fd]] # <<>> THEN "none" ELSE link[fdtab[fd]]

(* A stopped socket is not put in dead_list.                               *)
HandleSocketError(fd) ==
  /\ pc = "errors" /\ IsNext(fd)
  /\ CASE ErrorOf(fd) = "rst" ->
            /\ socketDisconnected(fd)
            /\ select_readfds' = select_readfds \ {fd}
            /\ select_writefds' = select_writefds \ {fd}
            /\ nb_act' = nb_act - 1 - Cardinality({fd} \cap select_readfds)
                                    - Cardinality({fd} \cap select_writefds)
            /\ work' = work \ {fd}
            /\ UNCHANGED <<pc, crash>>
       [] ErrorOf(fd) \in {"exception", "fail"} ->
            /\ Throw
            /\ IF ErrorOf(fd) = "fail" THEN ConsumeError(fdtab[fd]) /\ UNCHANGED inbound
                                       ELSE UNCHANGED net
            /\ UNCHANGED <<cnx, select_readfds, select_writefds>>
       [] OTHER ->
            /\ nb_act' = nb_act - 1 /\ work' = work \ {fd}
            /\ UNCHANGED <<net, pc, crash, cnx, select_readfds, select_writefds>>
  /\ UNCHANGED <<clientsocks_fds, clientsocks_nfds, router>>

(* recvNextData: read all there is into rx_fifo.  On a disconnection the   *)
(* messages read are discarded with the connection; on another error the   *)
(* exception leaves them in rx_fifo.                                       *)
ReadAllM1(fd) ==                    \* mutant: MSG_PEEK is not followed by the reading
  /\ cnx' = [cnx EXCEPT ![fd].rx_fifo = @ \o inbound[fdtab[fd]]]
  /\ UNCHANGED inbound

ReadAll(fd) ==
  /\ cnx' = [cnx EXCEPT ![fd].rx_fifo = @ \o inbound[fdtab[fd]]]
  /\ inbound' = [inbound EXCEPT ![fdtab[fd]] = <<>>]

PushDeadM1(fd) == dead_list \o <<fd, fd>>    \* mutant: pushed by the handler and by the loop
PushDead(fd) == Append(dead_list, fd)

ServeReception(fd) ==
  /\ pc = "receptions" /\ IsNext(fd)
  /\ IF fd \notin socket_map \/ ~cnx[fd].sock_open THEN Throw /\ UNCHANGED <<net, cnx, dead_list>>
     ELSE CASE link[fdtab[fd]] = "rst" ->
                 /\ socketDisconnected(fd)
                 /\ dead_list' = PushDead(fd)
                 /\ nb_act' = nb_act - 1 /\ work' = work \ {fd}
                 /\ UNCHANGED <<pc, crash>>
            [] link[fdtab[fd]] = "fail" ->
                 ReadAll(fd) /\ ConsumeError(fdtab[fd]) /\ Throw /\ UNCHANGED dead_list
            [] OTHER ->
                 /\ ReadAll(fd)
                 /\ pc' = "handle"
                 /\ UNCHANGED <<link, full, received, nb_req, backlog, fdtab,
                                work, nb_act, crash, dead_list>>
  /\ UNCHANGED <<sets, socket_map, nb_client_connections>>

OutgoingDataForClientM1(fd) == select_writefds \cup {clientsocks_nfds}   \* mutant: the wrong bit
OutgoingDataForClientM2(fd) == select_writefds                           \* mutant: no FD_SET
OutgoingDataForClient(fd) == select_writefds \cup {fd}

(* One iteration of socketDataRead: handle_client_message, whose replies   *)
(* sendMsgToClient queues after it has flagged the socket.                 *)
HandleMessage(fd) ==
  /\ pc = "handle" /\ IsNext(fd) /\ cnx[fd].rx_fifo # <<>>
  /\ LET out == handle_client_message(cnx[fd].session, Head(cnx[fd].rx_fifo))
     IN /\ cnx' = [cnx EXCEPT ![fd].session = out.session,
                              ![fd].tx_fifo = @ \o out.sent,
                              ![fd].rx_fifo = Tail(@)]
        /\ select_writefds' = IF out.sent = <<>> THEN select_writefds ELSE OutgoingDataForClient(fd)
        /\ IF out.ok THEN UNCHANGED <<pc, work, nb_act, crash>> ELSE Abort("assert_message")
  /\ UNCHANGED <<net, clientsocks_fds, clientsocks_nfds, select_readfds, router>>

EndReceptionM1(fd) ==               \* mutant: the descriptor served is not counted
  /\ pc = "handle" /\ IsNext(fd) /\ cnx[fd].rx_fifo = <<>>
  /\ pc' = "receptions" /\ work' = work \ {fd} /\ UNCHANGED nb_act
  /\ UNCHANGED <<net, sets, router, cnx, crash>>

EndReception(fd) ==
  /\ pc = "handle" /\ IsNext(fd) /\ cnx[fd].rx_fifo = <<>>
  /\ pc' = "receptions" /\ work' = work \ {fd} /\ nb_act' = nb_act - 1
  /\ UNCHANGED <<net, sets, router, cnx, crash>>

(* _serveSocketEmissions.  A bit of select_writefds that is no connection: *)
(* out_of_range, then assert(0).                                           *)
EmissionOutOfRange(fd) ==
  /\ pc = "emissions" /\ IsNext(fd) /\ fd \notin socket_map
  /\ Abort("out_of_range")
  /\ UNCHANGED <<net, sets, router, cnx>>

(* Nothing to send any more: sendNextData returns 0.                       *)
EmissionDone(fd) ==
  /\ pc = "emissions" /\ IsNext(fd) /\ fd \in socket_map
  /\ cnx[fd].tx_req \notin Reply /\ cnx[fd].tx_fifo = <<>>
  /\ cnx' = [cnx EXCEPT ![fd].tx_req = NoReq]
  /\ select_writefds' = select_writefds \ {fd}
  /\ nb_act' = nb_act - 1 /\ work' = work \ {fd}
  /\ UNCHANGED <<net, pc, clientsocks_fds, clientsocks_nfds, select_readfds,
                 router, crash>>

(* sendNextData sends the head of tx_fifo, one message per call, and       *)
(* returns 1: the write bit stays.                                         *)
Sending(fd) ==
  /\ pc = "emissions" /\ IsNext(fd) /\ fd \in socket_map
  /\ cnx[fd].tx_req \notin Reply /\ cnx[fd].tx_fifo # <<>>
  /\ UNCHANGED <<sets, router>>

Popped(fd, req) ==
  /\ cnx' = [cnx EXCEPT ![fd].tx_req = req, ![fd].tx_fifo = Tail(@)]
  /\ nb_act' = nb_act - 1 /\ work' = work \ {fd}
  /\ UNCHANGED <<pc, crash>>

EmissionSend(fd) ==
  LET c == fdtab[fd]
  IN /\ Sending(fd) /\ cnx[fd].sock_open
     /\ link[c] \in {"fin", "finsent"} \/ (link[c] = "open" /\ ~full[c])
     /\ received' = [received EXCEPT ![c] = Append(@, Head(cnx[fd].tx_fifo))]
     /\ link' = [link EXCEPT ![c] = IF @ = "fin" THEN "finsent" ELSE @]
     /\ Popped(fd, Served)
     /\ UNCHANGED <<full, inbound, nb_req, backlog, fdtab>>

(* send fails with an errno that is no disconnection (EWOULDBLOCK, EBADF,  *)
(* EHOSTUNREACH...): the message stays built in the MsgSocket.             *)
EmissionBlocked(fd) ==
  LET c == fdtab[fd]
  IN /\ Sending(fd)
     /\ Popped(fd, Head(cnx[fd].tx_fifo))
     /\ IF cnx[fd].sock_open /\ link[c] = "fail"
        THEN ConsumeError(c) /\ UNCHANGED inbound
        ELSE (~cnx[fd].sock_open \/ (link[c] = "open" /\ full[c])) /\ UNCHANGED net

(* The request counts as sent since its message was built, and the message *)
(* was not: assert(tx_msg_length == 0) in _sendLoop.                       *)
EmissionAfterBlocked(fd) ==
  /\ pc = "emissions" /\ IsNext(fd) /\ fd \in socket_map
  /\ cnx[fd].tx_req \in Reply
  /\ Abort("assert_tx")
  /\ UNCHANGED <<net, sets, router, cnx>>

(* send reports a disconnection: the catch block goes through the outer    *)
(* client_cnx_ptr, which the inner one hides and which is null.  When the  *)
(* client has closed and answered with a RST, send raises SIGPIPE instead; *)
(* the RST may answer the header and kill the sending of the body.         *)
EmissionDisconnected(fd) ==
  LET c == fdtab[fd]
  IN /\ Sending(fd) /\ cnx[fd].sock_open
     /\ \/ link[c] = "rst" /\ Abort("null_pointer")
        \/ link[c] \in {"fin", "finsent", "finrst"} /\ Abort("sigpipe")
     /\ UNCHANGED <<net, cnx>>

-----------------------------------------------------------------------------
(* The end of ServeClientSockets.                                          *)

CheckCount ==
  /\ pc = "end"
  /\ IF nb_act = 0 THEN pc' = "release" /\ UNCHANGED <<work, nb_act, crash>>
                   ELSE Abort("assert_nb_act")
  /\ UNCHANGED <<net, sets, router, cnx>>

(* The bits are scanned downwards: one more than the highest descriptor    *)
(* below fd that is set, 0 if there is none.                               *)
HighestBelowM1(fd, set) ==          \* mutant: 0 is not stored when no bit is left
  LET lower == {s \in set : s > 0 /\ s < fd}
  IN IF lower = {} THEN fd + 1 ELSE (CHOOSE s \in lower : \A t \in lower : t <= s) + 1

HighestBelow(fd, set) ==
  LET lower == {s \in set : s > 0 /\ s < fd}
  IN IF lower = {} THEN 0 ELSE (CHOOSE s \in lower : \A t \in lower : t <= s) + 1

ReleaseClientConnection(fd) ==
  /\ clientsocks_fds' = clientsocks_fds \ {fd}
  /\ select_writefds' = select_writefds \ {fd}
  /\ clientsocks_nfds' = IF fd + 1 = clientsocks_nfds THEN HighestBelow(fd, clientsocks_fds \ {fd})
                         ELSE clientsocks_nfds
  /\ socket_map' = socket_map \ {fd}
  /\ cnx' = [cnx EXCEPT ![fd] = NewConnection(NoClient)]
  /\ UNCHANGED <<select_readfds>>
  /\ IF fd \in socket_map
     THEN nb_client_connections' = nb_client_connections - 1 /\ UNCHANGED <<pc, work, nb_act, crash>>
     ELSE Abort("assert_erase") /\ UNCHANGED nb_client_connections

Release ==
  /\ pc = "release" /\ dead_list # <<>>
  /\ ReleaseClientConnection(Head(dead_list))
  /\ dead_list' = Tail(dead_list)
  /\ UNCHANGED net

EndCycleM1 ==                       \* mutant: the loop waits for no client any more
  /\ pc = "release" /\ dead_list = <<>>
  /\ pc' = "select"
  /\ UNCHANGED <<net, work, sets, nb_act, router, cnx, crash>>

EndCycle ==
  /\ pc = "release" /\ dead_list = <<>>
  /\ pc' = "accept"
  /\ UNCHANGED <<net, work, sets, nb_act, router, cnx, crash>>

-----------------------------------------------------------------------------
ServeSocket(fd) ==
  \/ HandleSocketError(fd)
  \/ ServeReception(fd) \/ HandleMessage(fd) \/ EndReception(fd)
  \/ EmissionOutOfRange(fd) \/ EmissionDone(fd) \/ EmissionSend(fd) \/ EmissionBlocked(fd)
  \/ EmissionAfterBlocked(fd) \/ EmissionDisconnected(fd)

Server ==
  \/ NoPendingConnection \/ AcceptError \/ AcceptConnection
  \/ Select \/ StartReceptions \/ StartEmissions \/ EndEmissions
  \/ \E fd \in 0 .. LastFd : ServeSocket(fd)
  \/ CheckCount \/ Release \/ EndCycle

(* The process is gone.                                                    *)
Aborted == pc = "aborted" /\ UNCHANGED vars

Next == Network \/ Server \/ Aborted

Spec == Init /\ [][Next]_vars

(* The thread runs as long as it is not blocked in pselect.                *)
FairSpec == Spec /\ WF_vars(Server)
-----------------------------------------------------------------------------
(* Properties.                                                             *)

(* Every variable has its type; the counts and the queues are bounded by   *)
(* nothing here.                                                           *)
TypeOK ==
  /\ link \in [Clients -> Links]
  /\ full \in [Clients -> BOOLEAN]
  /\ inbound \in [Clients -> Seq(Request)]
  /\ received \in [Clients -> Seq(Reply)]
  /\ nb_req \in [Clients -> Nat]
  /\ backlog \in Seq(Clients)
  /\ fdtab \in [Fds -> Clients \cup {NoClient}]
  /\ pc \in {"accept", "select", "errors", "receptions", "handle", "emissions", "end",
             "release", "aborted"}
  /\ work \subseteq 0 .. LastFd
  /\ clientsocks_fds \subseteq Fds /\ clientsocks_nfds \in 0 .. (LastFd + 1)
  /\ select_readfds \subseteq Fds /\ select_writefds \subseteq 0 .. LastFd
  /\ nb_act \in Int
  /\ dead_list \in Seq(Fds) /\ socket_map \subseteq Fds
  /\ nb_client_connections \in Int
  /\ cnx \in [Fds -> Connection]
  /\ crash \in {"no", "out_of_range", "null_pointer", "sigpipe", "assert_tx",
                "assert_message", "assert_nb_act", "assert_erase"}

(* The bitmap, the map, the count and the first argument of pselect tell   *)
(* the same story whatever is accepted, lost, released and reused in the   *)
(* meantime: CreateClientConnection and ReleaseClientConnection each       *)
(* update the four by hand.                                                *)
MapIsBitmap == socket_map = clientsocks_fds
CountIsSize == nb_client_connections = Cardinality(socket_map)
NfdsIsHighest ==
  /\ \A fd \in clientsocks_fds : fd < clientsocks_nfds
  /\ clientsocks_nfds # 0 => clientsocks_nfds - 1 \in clientsocks_fds
RouterConsistent == MapIsBitmap /\ CountIsSize /\ NfdsIsHighest

(* select_writefds is a subset of clientsocks_fds at every step, so that a *)
(* new connection that gets the descriptor of a released one does not      *)
(* inherit its write bit and no emission is routed to an unknown socket    *)
(* (the comment of the field).                                             *)
WriteBitsAreConnections == select_writefds \subseteq clientsocks_fds

(* A descriptor waits once in dead_list, is still in the map and its       *)
(* socket is stopped: releasing the list never fails assert(nb == 1) and   *)
(* never takes a live connection away.                                     *)
DeadListSound ==
  /\ \A i \in 1 .. Len(dead_list) : dead_list[i] \in socket_map /\ ~cnx[dead_list[i]].sock_open
  /\ \A i, j \in 1 .. Len(dead_list) : i # j => dead_list[i] # dead_list[j]

(* A connection object that believes its socket is open owns it: the       *)
(* kernel's descriptor is that of the very client it was created for.  The *)
(* descriptor numbers are reused as soon as stop() closes one, before the  *)
(* old object leaves the map.                                              *)
DescriptorIsClients ==
  \A fd \in socket_map : cnx[fd].sock_open => fdtab[fd] = cnx[fd].addr

(* A reply waiting in tx_fifo between two cycles has its write bit set:    *)
(* it cannot be forgotten (the comment of select_writefds).                *)
PendingIsScheduled ==
  pc = "accept" => \A fd \in socket_map : cnx[fd].tx_fifo # <<>> => fd \in select_writefds

(* The assertions of the router that guard its own bookkeeping hold: no    *)
(* list names an unknown socket, every release finds its connection.       *)
NoRouterBug == crash \notin {"out_of_range", "assert_erase"}

(* Whatever pselect has counted is served in the cycle, the readings and   *)
(* writings that an error makes pointless included ("this one counts as a  *)
(* treated descriptor"): no event is left for a later cycle.               *)
ReportedIsServed == pc = "end" => nb_act <= 0

(* What pselect counted is exactly what a cycle serves: assert(nb_act == 0).*)
CountIsServed == crash # "assert_nb_act"

(* A disconnection noticed while sending, a broken pipe included, is the   *)
(* business of its connection and does not propagate (the comment of the   *)
(* catch block): the other clients keep their server.                      *)
SendDisconnectionContained == crash \notin {"null_pointer", "sigpipe"}

(* A client whose connection stays open gets an answer to everything it    *)
(* asked, or the server has crashed.                                       *)
Answered ==
  \A c \in Clients :
    [](nb_req[c] > 0 => <>(\/ Len(received[c]) >= nb_req[c]
                           \/ link[c] # "open" \/ pc = "aborted"))

(* A client waiting in the listen queue is accepted in the end.            *)
PendingIsAccepted == (backlog # <<>>) ~> (backlog = <<>> \/ pc = "aborted")

(* After DISCONNECTION_CNF the session waits for the closure of the socket *)
(* and goes away with it.                                                  *)
Leaving(fd) == fd \in socket_map /\ cnx[fd].session.state = "CLOSING"
               /\ link[cnx[fd].addr] \in {"fin", "finsent"}
ClosureIsSeen == \A fd \in Fds : Leaving(fd) ~> (fd \notin socket_map \/ pc = "aborted")
=============================================================================
