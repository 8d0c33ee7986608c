--------------------------- MODULE ClientConnection ---------------------------
(***************************************************************************)
(* The client program: class ClientConnection with its ClientSocket, the   *)
(* background thread that polls it, the thread of the user interface, and  *)
(* at the other end of the connection one session of the server.           *)
(*                                                                         *)
(* The server is SessionService, which ServerRouter implements, seen by    *)
(* one client: it handles what it is sent in order and answers in order.   *)
(*                                                                         *)
(* The user interface of the source is a loop that sleeps.  What it may    *)
(* call is what ClientConnection.h offers it ("Interface to the user       *)
(* interface thread"): UiCalls is empty for the program as it is.          *)
(*                                                                         *)
(* The two threads share cnx_state, ext_event, the credentials and the two *)
(* queues of the socket.  A step is at most one access to one of these, or *)
(* one system call; a step that makes several stands for a section the     *)
(* other thread does not enter.                                            *)
(***************************************************************************)
EXTENDS ServerSession, Naturals

CONSTANTS
  UiCalls,    \* what the user interface calls, once each: subset of {"credentials", "stop", "flush"}
  Faults      \* subset of {"unreachable", "refuse", "fin", "rst"}

ASSUME ClientAssumption ==
  /\ UiCalls \subseteq {"credentials", "stop", "flush"}
  /\ Faults \subseteq {"unreachable", "refuse", "fin", "rst"}

VARIABLES
  (* the network and the server *)
  link,       \* see ClientLinks
  to_server,  \* messages sent and not handled by the server
  inbound,    \* messages in the receive buffer of the client's socket
  session,    \* the server's session
  server_ok,  \* no assertion of the server has failed
  (* the background thread *)
  pc,
  store,      \* the value setState has checked and not assigned yet, or "none"
  sent_credentials, \* the user data of each REGISTRATION_REQ, in order
  (* shared by the two threads *)
  cnx_state, ext_event, user, tx_fifo, rx_fifo, sock_state,
  (* the thread of the user interface *)
  ui,         \* where it is
  ui_todo,    \* the calls it may still make
  crash       \* why the process ended, "no" while it runs

network == <<link, to_server, inbound, session, server_ok>>
shared  == <<cnx_state, ext_event, user, tx_fifo, rx_fifo, sock_state>>
thread  == <<pc, store, sent_credentials>>
vars    == <<network, thread, shared, ui, ui_todo, crash>>

(* The states that CnxState > NO_CONNECTION selects, and the others.       *)
Live == {"CONNECTING", "CONNECTED_NO_CREDENTIALS", "CONNECTED", "REGISTERING", "REGISTERED",
         "DISCONNECTING", "CLOSING", "CNX_REJECTED", "AUTH_REJECTED"}
CnxState == Live \cup {"NO_SOCKET", "CNX_ERROR", "NO_CONNECTION"}

(* syn_sent: connecting.  refused: no one listens.  open.  fin: the server *)
(* process has ended.  finsent: and data was sent to it since.  rst: reset *)
(* after the establishment, broken: reset after the end of the stream      *)
(* (send raises SIGPIPE).  gone: the client closed.                        *)
ClientLinks == {"none", "syn_sent", "refused", "open", "fin", "finsent", "rst", "broken", "gone"}

(* The user data of one call of RegistrationDataFromUserInterface.         *)
Credentials(from) == [name |-> from, passwd |-> from]

Init ==
  /\ link = "none" /\ to_server = <<>> /\ inbound = <<>>
  /\ session = NewSession /\ server_ok = TRUE
  /\ pc = "configure" /\ store = "none" /\ sent_credentials = <<>>
  /\ cnx_state = "NO_SOCKET" /\ sock_state = "SOCK_NULL"
  /\ ext_event = {} /\ user = Credentials("none")
  /\ tx_fifo = <<>> /\ rx_fifo = <<>>
  /\ ui = "idle" /\ ui_todo = UiCalls
  /\ crash = "no"

-----------------------------------------------------------------------------
(* The network and the server.                                             *)

LinkStep(from, to) ==
  /\ link = from /\ link' = to
  /\ UNCHANGED <<to_server, inbound, session, server_ok>>

(* The server process ends, the connection is reset, or the RST            *)
(* that answers data sent to a process that ended arrives.                 *)
Establish == LinkStep("syn_sent", "open")
Refuse    == "refuse" \in Faults /\ LinkStep("syn_sent", "refused")
ServerEnds == "fin" \in Faults /\ LinkStep("open", "fin")
Reset     == "rst" \in Faults /\ LinkStep("open", "rst")
AnswerRst == LinkStep("finsent", "broken")

ServerHandles ==
  /\ link \in {"open", "gone"} /\ server_ok /\ to_server # <<>>
  /\ LET out == handle_client_message(session, Head(to_server))
     IN /\ session' = out.session
        /\ inbound' = IF link = "open" THEN inbound \o out.sent ELSE inbound
        /\ server_ok' = out.ok
  /\ to_server' = Tail(to_server)
  /\ UNCHANGED link

Network ==
  /\ pc # "aborted"
  /\ Establish \/ Refuse \/ ServerEnds \/ Reset \/ AnswerRst \/ ServerHandles
  /\ UNCHANGED <<thread, shared, ui, ui_todo, crash>>

-----------------------------------------------------------------------------
(* How the background thread goes on: at `where', after setState has       *)
(* stored a new state, at the end of client_background_main (an exception  *)
(* that is not a socket_disconnection), or not at all.                     *)
Goto(where) == pc' = where /\ UNCHANGED <<store, crash>>
Abort(why) == pc' = "aborted" /\ crash' = why /\ UNCHANGED store
Throw == Goto("ended")

(* setState: its assertion, then its assignment.                           *)
Expected(new_state) ==
  CASE new_state = "CONNECTING"               -> {"NO_SOCKET"}
    [] new_state = "CONNECTED_NO_CREDENTIALS" -> {"CONNECTING", "REGISTERING"}
    [] new_state = "CONNECTED"                -> {"CONNECTED_NO_CREDENTIALS"}
    [] new_state = "REGISTERING"              -> {"CONNECTED"}
    [] new_state \in {"REGISTERED", "AUTH_REJECTED"} -> {"REGISTERING"}
    [] OTHER                                  -> CnxState

setState(new_state, where) ==
  IF cnx_state \in Expected(new_state)
  THEN store' = new_state /\ pc' = where /\ UNCHANGED crash
  ELSE Abort("assert_state")

(* The thread runs the code at pc once it has made the assignment.         *)
At(where) == pc = where /\ store = "none"

Store ==
  /\ store # "none" /\ pc # "aborted"
  /\ cnx_state' = store /\ store' = "none"
  /\ UNCHANGED <<network, pc, sent_credentials, ext_event, user, tx_fifo, rx_fifo,
                 sock_state, ui, ui_todo, crash>>

-----------------------------------------------------------------------------
(* The start of the connection.                                            *)

(* ClientSocket::connect: EINPROGRESS, an error that is thrown, or, on a   *)
(* socket that is already connecting, EALREADY and assert(0).  On Linux a  *)
(* second connect() on a connection established in the meantime returns 0. *)
ConfigureSocket ==
  /\ At("configure")
  /\ sock_state' = "SOCK_CONNECTING"
  /\ \/ link' = "syn_sent" /\ Goto("start")
     \/ "unreachable" \in Faults /\ link' = "none" /\ Throw
  /\ UNCHANGED <<to_server, inbound, session, server_ok, sent_credentials,
                 cnx_state, ext_event, user, tx_fifo, rx_fifo, ui, ui_todo>>

StartConnectionToServer ==
  /\ At("start")
  /\ setState("CONNECTING", "connect")
  /\ UNCHANGED <<network, sent_credentials, shared, ui, ui_todo>>

ConnectAgain ==
  /\ At("connect")
  /\ sock_state' = "SOCK_CONNECTING"
  /\ IF link = "syn_sent" THEN Abort("assert_connect")
     ELSE IF link \in {"refused", "rst"} THEN Throw
     ELSE Goto("connection_req")
  /\ UNCHANGED <<network, sent_credentials, cnx_state, ext_event, user, tx_fifo, rx_fifo,
                 ui, ui_todo>>

(* sendMsg: the queue is protected by tx_fifo_mutex.                       *)
ConnectionReqM1 ==                  \* mutant: one request for each connect()
  <<Msg("CONNECTION_REQ", "same_version"), Msg("CONNECTION_REQ", "same_version")>>
ConnectionReq == <<Msg("CONNECTION_REQ", "same_version")>>

SendConnectionReq ==
  /\ At("connection_req")
  /\ tx_fifo' = tx_fifo \o ConnectionReq
  /\ Goto("poll")
  /\ UNCHANGED <<network, sent_credentials, cnx_state, ext_event, user, rx_fifo, sock_state,
                 ui, ui_todo>>

-----------------------------------------------------------------------------
(* ClientConnection::poll, which client_bg_loop calls for ever.            *)

BeginPoll ==
  /\ At("poll")
  /\ Goto(IF cnx_state \notin Live THEN "poll" ELSE IF ext_event = {} THEN "socket" ELSE "event")
  /\ UNCHANGED <<network, sent_credentials, shared, ui, ui_todo>>

(* _handleExtEvents.  Its lock is a temporary, released at once: the user  *)
(* interface may act between any two of the following steps.               *)
EventConnected ==
  /\ At("event")
  /\ setState("CONNECTED", "registration_req")
  /\ UNCHANGED <<network, sent_credentials, shared, ui, ui_todo>>

SendRegistrationReq ==
  /\ At("registration_req")
  /\ sent_credentials' = Append(sent_credentials, user)
  /\ tx_fifo' = Append(tx_fifo, Msg("REGISTRATION_REQ", "none"))
  /\ Goto("registering")
  /\ UNCHANGED <<network, cnx_state, ext_event, user, rx_fifo, sock_state, ui, ui_todo>>

EventRegistering ==
  /\ At("registering")
  /\ setState("REGISTERING", "clear")
  /\ UNCHANGED <<network, sent_credentials, shared, ui, ui_todo>>

ClearEvents ==
  /\ At("clear")
  /\ ext_event' = {}
  /\ Goto("socket")
  /\ UNCHANGED <<network, sent_credentials, cnx_state, user, tx_fifo, rx_fifo, sock_state,
                 ui, ui_todo>>

(* ClientSocket::poll.  A connection the kernel has given up is POLLHUP; a *)
(* TCP error closes the connection, so that POLLERR never comes alone.     *)
WantsToSendM1 == sock_state = "SOCK_CONNECTING"    \* mutant: the queue is not looked at
WantsToSend == tx_fifo # <<>> \/ sock_state = "SOCK_CONNECTING"

SocketPoll ==
  /\ At("socket")
  /\ IF link \in {"refused", "rst", "broken"}
     THEN sock_state' = "SOCK_DISCONNECTED" /\ Goto("disconnected")
     ELSE LET readable == inbound # <<>> \/ link \in {"fin", "finsent"}
              writable == WantsToSend /\ link \in {"open", "fin", "finsent"}
          IN Goto(IF readable THEN (IF writable THEN "recv_send" ELSE "recv")
                  ELSE (IF writable THEN "send" ELSE "poll"))
             /\ UNCHANGED sock_state
  /\ UNCHANGED <<network, sent_credentials, cnx_state, ext_event, user, tx_fifo, rx_fifo,
                 ui, ui_todo>>

(* recvNextData.  At the end of the stream recv returns 0, which is taken  *)
(* for a message that has not arrived yet.                                 *)
Receive ==
  /\ pc \in {"recv", "recv_send"} /\ store = "none"
  /\ IF link = "rst"
     THEN tx_fifo' = <<>> /\ rx_fifo' = <<>> /\ Goto("disconnected")
     ELSE /\ rx_fifo' = rx_fifo \o inbound
          /\ Goto(IF pc = "recv" THEN "messages" ELSE "send")
          /\ UNCHANGED tx_fifo
  /\ inbound' = <<>>
  /\ UNCHANGED <<link, to_server, session, server_ok, sent_credentials, cnx_state, ext_event,
                 user, sock_state, ui, ui_todo>>

(* sendNextData: _txPopNextRequest finds the queue empty or not, holding   *)
(* tx_fifo_mutex until it has popped.                                      *)
BeginSend ==
  /\ At("send")
  /\ sock_state' = IF sock_state = "SOCK_CONNECTING" THEN "SOCK_CONNECTED" ELSE sock_state
  /\ Goto(IF tx_fifo = <<>> THEN "messages" ELSE "pop")
  /\ UNCHANGED <<network, sent_credentials, cnx_state, ext_event, user, tx_fifo, rx_fifo,
                 ui, ui_todo>>

(* The user interface empties the queue without the mutex: front() of an   *)
(* empty deque is undefined.  One message is sent, wholly: the socket was  *)
(* reported writable.                                                      *)
PopAndSend ==
  /\ At("pop")
  /\ \/ /\ tx_fifo = <<>>
        /\ Abort("undefined_front")
        /\ UNCHANGED <<network, tx_fifo, rx_fifo>>
     \/ /\ tx_fifo # <<>> /\ link = "open"
        /\ to_server' = Append(to_server, Head(tx_fifo)) /\ tx_fifo' = Tail(tx_fifo)
        /\ Goto("messages")
        /\ UNCHANGED <<link, inbound, session, server_ok, rx_fifo>>
     \/ /\ tx_fifo # <<>> /\ link \in {"fin", "finsent"}
        /\ link' = "finsent" /\ tx_fifo' = Tail(tx_fifo)
        /\ Goto("messages")
        /\ UNCHANGED <<to_server, inbound, session, server_ok, rx_fifo>>
     \/ /\ tx_fifo # <<>> /\ link = "rst"
        /\ tx_fifo' = <<>> /\ rx_fifo' = <<>> /\ Goto("disconnected")
        /\ UNCHANGED network
     \/ /\ tx_fifo # <<>> /\ link = "broken"
        /\ Abort("sigpipe")
        /\ UNCHANGED <<network, tx_fifo, rx_fifo>>
  /\ UNCHANGED <<sent_credentials, cnx_state, ext_event, user, sock_state, ui, ui_todo>>

SocketDisconnected ==
  /\ At("disconnected")
  /\ setState("NO_CONNECTION", "poll")
  /\ UNCHANGED <<network, sent_credentials, shared, ui, ui_todo>>

-----------------------------------------------------------------------------
(* The messages received, one after the other.                             *)

NextMessage ==
  /\ At("messages")
  /\ Goto(IF rx_fifo = <<>> THEN "poll" ELSE "take")
  /\ UNCHANGED <<network, sent_credentials, shared, ui, ui_todo>>

(* handle_server_message: the state each message calls for.  A server      *)
(* never sends DISCONNECTION_REQ: its sendDisconnectionReq has no caller.  *)
handle_server_message(m) ==
  CASE m.id = "CONNECTION_CNF"    -> IF cnx_state = "CONNECTING"
                                     THEN setState("CONNECTED_NO_CREDENTIALS", "own_credentials")
                                     ELSE Abort("assert_message")
    [] m.id \in {"REGISTRATION_CNF", "USER_LOGGING_CNF"} -> setState("REGISTERED", "messages")
    [] m.id = "REGISTRATION_REJ"  -> setState("CONNECTED_NO_CREDENTIALS", "messages")
    [] m.id = "USER_LOGGING_REJ"  -> setState("AUTH_REJECTED", "messages")
    [] m.id = "DISCONNECTION_CNF" -> IF cnx_state = "DISCONNECTING"
                                     THEN setState("CLOSING", "messages")
                                     ELSE Abort("assert_message")
    [] OTHER                      -> Goto("messages")

(* getNextReceivedMsg takes no lock: the queue may have been emptied since *)
(* it was tested.  DISCONNECTION_CNF stops the socket.                     *)
HandleMessage ==
  /\ At("take")
  /\ \/ /\ rx_fifo = <<>>
        /\ Abort("undefined_front")
        /\ UNCHANGED <<link, inbound, tx_fifo, rx_fifo, sock_state>>
     \/ /\ rx_fifo # <<>>
        /\ handle_server_message(Head(rx_fifo))
        /\ IF Head(rx_fifo).id = "DISCONNECTION_CNF" /\ cnx_state = "DISCONNECTING"
           THEN link' = "gone" /\ inbound' = <<>> /\ tx_fifo' = <<>> /\ rx_fifo' = <<>>
                /\ sock_state' = "SOCK_NULL"
           ELSE rx_fifo' = Tail(rx_fifo) /\ UNCHANGED <<link, inbound, tx_fifo, sock_state>>
  /\ UNCHANGED <<to_server, session, server_ok, sent_credentials, cnx_state, ext_event, user,
                 ui, ui_todo>>

(* handleConnectionCnf goes on with credentials of its own, through the    *)
(* function meant for the user interface, which takes registration_mutext. *)
OwnCredentialsM1 ==                 \* mutant: the event is noted, the data are not
  /\ At("own_credentials") /\ ui \notin {"passwd", "event"}
  /\ ext_event' = ext_event \cup {"NEW_CREDENTIALS"}
  /\ Goto("messages")
  /\ UNCHANGED <<network, sent_credentials, cnx_state, user, tx_fifo, rx_fifo, sock_state,
                 ui, ui_todo>>

OwnCredentials ==
  /\ At("own_credentials") /\ ui \notin {"passwd", "event"}
  /\ user' = Credentials("builtin")
  /\ ext_event' = ext_event \cup {"NEW_CREDENTIALS"}
  /\ Goto("messages")
  /\ UNCHANGED <<network, sent_credentials, cnx_state, tx_fifo, rx_fifo, sock_state,
                 ui, ui_todo>>

BackgroundThread ==
  \/ Store \/ ConfigureSocket \/ StartConnectionToServer \/ ConnectAgain \/ SendConnectionReq
  \/ BeginPoll \/ EventConnected \/ SendRegistrationReq \/ EventRegistering \/ ClearEvents
  \/ SocketPoll \/ Receive \/ BeginSend \/ PopAndSend \/ SocketDisconnected
  \/ NextMessage \/ HandleMessage \/ OwnCredentials

-----------------------------------------------------------------------------
(* The thread of the user interface.                                       *)

(* The connection object exists, and the thread makes the next call.       *)
UiCall(calls) ==
  /\ ui = "idle" /\ link # "none" /\ calls \subseteq ui_todo
  /\ ui_todo' = ui_todo \ calls

(* RegistrationDataFromUserInterface, which holds registration_mutext.     *)
UiName ==
  /\ UiCall({"credentials"})
  /\ user' = [user EXCEPT !.name = "ui"]
  /\ ui' = "passwd"
  /\ UNCHANGED <<cnx_state, ext_event, tx_fifo, rx_fifo, sock_state>>

UiPasswd ==
  /\ ui = "passwd"
  /\ user' = [user EXCEPT !.passwd = "ui"]
  /\ ui' = "event"
  /\ UNCHANGED <<cnx_state, ext_event, tx_fifo, rx_fifo, sock_state, ui_todo>>

UiEvent ==
  /\ ui = "event"
  /\ ext_event' = ext_event \cup {"NEW_CREDENTIALS"}
  /\ ui' = "idle"
  /\ UNCHANGED <<cnx_state, user, tx_fifo, rx_fifo, sock_state, ui_todo>>

(* StopConnectionToServer(flush).                                          *)
UiStop(call, next) ==
  /\ UiCall({call})
  /\ cnx_state' = "DISCONNECTING"
  /\ ui' = next
  /\ UNCHANGED <<ext_event, user, tx_fifo, rx_fifo, sock_state>>

UiDiscard ==
  /\ ui = "discard"
  /\ tx_fifo' = <<>> /\ rx_fifo' = <<>>
  /\ ui' = "disconnection_req"
  /\ UNCHANGED <<cnx_state, ext_event, user, sock_state, ui_todo>>

DisconnectionCauseM1 == "SERVER_SHUTDOWN"  \* mutant: the cause the server gives
DisconnectionCause == "USER_SHUTDOWN"

UiDisconnectionReq ==
  /\ ui = "disconnection_req" /\ pc # "pop"
  /\ tx_fifo' = Append(tx_fifo, Msg("DISCONNECTION_REQ", DisconnectionCause))
  /\ ui' = "idle"
  /\ UNCHANGED <<cnx_state, ext_event, user, rx_fifo, sock_state, ui_todo>>

UiThread ==
  /\ pc # "aborted"
  /\ \/ UiName \/ UiPasswd \/ UiEvent
     \/ UiStop("stop", "disconnection_req") \/ UiStop("flush", "discard")
     \/ UiDiscard \/ UiDisconnectionReq
  /\ UNCHANGED <<network, thread, crash>>

(* The process is gone, or only the user interface is left.                *)
Ended == pc \in {"aborted", "ended"} /\ UNCHANGED vars

Next == Network \/ BackgroundThread \/ UiThread \/ Ended

Spec == Init /\ [][Next]_vars

(* Both threads run; the server answers what reaches it.  The calls of the *)
(* user interface are its own affair, but those it makes end.              *)
FairSpec ==
  /\ Spec
  /\ WF_vars(BackgroundThread)
  /\ WF_vars(UiThread /\ ui # "idle")
  /\ WF_vars(Network /\ ServerHandles)

-----------------------------------------------------------------------------
(* Properties.                                                             *)

(* Every variable has its type; a registration holds a name and a password. *)
TypeOK ==
  /\ link \in ClientLinks
  /\ to_server \in Seq(Request) /\ inbound \in Seq(Reply)
  /\ session \in Session /\ server_ok \in BOOLEAN
  /\ pc \in {"configure", "start", "connect", "connection_req", "poll", "event",
             "registration_req", "registering", "clear", "socket", "recv", "recv_send",
             "send", "pop", "disconnected", "messages", "take", "own_credentials",
             "ended", "aborted"}
  /\ store \in CnxState \cup {"none"}
  /\ sent_credentials \in Seq([name : {"builtin", "ui"}, passwd : {"builtin", "ui"}])
  /\ cnx_state \in CnxState
  /\ sock_state \in {"SOCK_NULL", "SOCK_CONNECTING", "SOCK_CONNECTED", "SOCK_DISCONNECTED"}
  /\ ext_event \subseteq {"NEW_CREDENTIALS"}
  /\ user \in [name : {"none", "builtin", "ui"}, passwd : {"none", "builtin", "ui"}]
  /\ tx_fifo \in Seq(Request) /\ rx_fifo \in Seq(Reply)
  /\ ui \in {"idle", "passwd", "event", "discard", "disconnection_req"}
  /\ ui_todo \subseteq UiCalls
  /\ crash \in {"no", "assert_connect", "assert_state", "assert_message", "undefined_front",
                "sigpipe"}

(* Whatever the user does and wherever the two threads are, the client     *)
(* never sends what makes an assertion of the server fail.                 *)
ServerUnharmed == server_ok

(* The states of the two ends agree although they change on messages that  *)
(* cross and under two threads: the client believes it is registered only  *)
(* when the server has registered it, and has credentials to give only     *)
(* when the server has accepted its connection; CLOSING comes when the     *)
(* user has left.                                                          *)
AgreesWithServer ==
  /\ cnx_state = "REGISTERED" => session.state \in {"REGISTERED", "CLOSING"}
  /\ cnx_state \in {"CONNECTED_NO_CREDENTIALS", "CONNECTED", "REGISTERING"} =>
       session.state \in {"REGISTERING", "REGISTERED", "CLOSING"}
  /\ session.state = "CLOSING" => ui_todo # UiCalls

(* Until its user stops it the client keeps to the order the server wants: *)
(* no request of its is refused, although a thread other than the one that *)
(* handles the answers may start a registration.                           *)
StopCalled == ~(UiCalls \cap {"stop", "flush"} \subseteq ui_todo)
Rejection == {m \in Reply : m.id \in {"CONNECTION_REJ", "REGISTRATION_REJ", "USER_LOGGING_REJ"}}
NeverRejected ==
  ~StopCalled => \A m \in Rejection, queue \in {inbound, rx_fifo} :
                   \A i \in 1 .. Len(queue) : queue[i] # m

(* A client left alone by its user and by the network registers.           *)
Registers ==
  pc = "poll" ~> (cnx_state = "REGISTERED" \/ link # "open" \/ ui_todo # UiCalls)

(* A client whose user stops it closes its connection, unless it aborts.   *)
StopEnds == StopCalled ~> (link # "open" \/ pc = "aborted")

(* Credentials the user has given are in a REGISTRATION_REQ, or noted for  *)
(* the next poll (the comment on RegistrationDataFromUserInterface).       *)
CredentialsAreKept ==
  (pc = "poll" /\ ui = "idle" /\ user.name = "ui") =>
     \/ ext_event # {}
     \/ \E i \in 1 .. Len(sent_credentials) : sent_credentials[i].name = "ui"
=============================================================================
