------------------------ MODULE ClientConnectionProofs ------------------------
(***************************************************************************)
(* The safety of the client's end, whatever its user interface calls and   *)
(* whatever happens to the network: theorems of ClientConnection.          *)
(***************************************************************************)
EXTENDS ClientConnection, TLAPS

(* What this client sends, and the confirmations it waits for.             *)
ConnReq == Msg("CONNECTION_REQ", "same_version")
RegReq  == Msg("REGISTRATION_REQ", "none")
DiscReq == Msg("DISCONNECTION_REQ", "USER_SHUTDOWN")
ConnCnf == Msg("CONNECTION_CNF", "none")
RegCnf  == Msg("REGISTRATION_CNF", "none")
DiscCnf == Msg("DISCONNECTION_CNF", "none")
Sent == {ConnReq, RegReq, DiscReq}

(* A message is in a queue; it is there once at most.                      *)
Has(q, m)  == \E i \in 1 .. Len(q) : q[i] = m
Once(q, m) == \A i, j \in 1 .. Len(q) : q[i] = m /\ q[j] = m => i = j

Pending(m) == Has(tx_fifo, m) \/ Has(to_server, m)
Replied(m) == Has(inbound, m) \/ Has(rx_fifo, m)
OncePending(m) ==
  Once(tx_fifo, m) /\ Once(to_server, m) /\ ~(Has(tx_fifo, m) /\ Has(to_server, m))

-----------------------------------------------------------------------------
(* The inductive invariant.                                                *)

(* An event is noted once the credentials are complete.                    *)
CredentialsAreThere ==
  /\ pc \in {"event", "registration_req"} => ext_event # {}
  /\ ext_event # {} => user.name # "none" /\ user.passwd # "none"
  /\ ui \in {"passwd", "event"} => user.name # "none"
  /\ ui = "event" => user.passwd # "none"

OnlySent == tx_fifo \in Seq(Sent) /\ to_server \in Seq(Sent) /\ server_ok

(* The request for a connection has not been handled; it was, and accepted. *)
Early   == pc \in {"configure", "start", "connect", "connection_req"}
Waiting == Early \/ Pending(ConnReq)
Past    == {"CONNECTED_NO_CREDENTIALS", "CONNECTED", "REGISTERING", "REGISTERED"}
RegConfirmed == Replied(RegCnf) \/ cnx_state = "REGISTERED" \/ store = "REGISTERED"
RegRejection == {m \in Rejection : m.id = "REGISTRATION_REJ"}
Confirmed ==
  \/ session.state \in {"REGISTERING", "REGISTERED"}
  \/ Replied(ConnCnf) \/ Pending(RegReq) \/ RegConfirmed
  \/ \E m \in RegRejection : Replied(m)
  \/ cnx_state \in Past \/ store \in Past \/ pc = "registration_req"

OneConnection == OncePending(ConnReq) /\ (Early => ~Pending(ConnReq))

ConfirmedByServer ==
  /\ Confirmed => ~Waiting /\ session.state \in {"REGISTERING", "REGISTERED", "CLOSING"}
  /\ RegConfirmed => session.state \in {"REGISTERED", "CLOSING"}

(* Only a call of the user interface makes the client leave.               *)
LeavesWhenStopped ==
  \/ session.state = "CLOSING" \/ Pending(DiscReq) \/ ui \in {"discard", "disconnection_req"}
  => StopCalled

(* As long as it is not stopped, the client asks for one registration, and *)
(* not before its connection is accepted.                                  *)
NotAsked ==
  \/ cnx_state \in {"NO_SOCKET", "CONNECTING", "CONNECTED_NO_CREDENTIALS"}
  \/ cnx_state = "CONNECTED" /\ pc = "registration_req"

StoreFollowsState ==
  /\ store # "NO_SOCKET"
  /\ store = "CONNECTING" => cnx_state = "NO_SOCKET"
  /\ store = "CONNECTED_NO_CREDENTIALS" => cnx_state = "CONNECTING"
  /\ store = "CONNECTED" => cnx_state = "CONNECTED_NO_CREDENTIALS" /\ pc = "registration_req"
  /\ pc = "registration_req" => store = "CONNECTED" \/ (store = "none" /\ cnx_state = "CONNECTED")

Orderly ==
  /\ Waiting => session.state = "EMPTY"
  /\ NotAsked => ~Pending(RegReq) /\ ~Replied(RegCnf) /\ session.state # "REGISTERED"
  /\ OncePending(RegReq) /\ (Pending(RegReq) => session.state = "REGISTERING")
  /\ StoreFollowsState
  /\ \A m \in Rejection : ~Replied(m)

IInv == /\ TypeOK /\ CredentialsAreThere /\ OnlySent /\ OneConnection /\ ConfirmedByServer
        /\ LeavesWhenStopped /\ (~StopCalled => Orderly)

-----------------------------------------------------------------------------
(* Queues.                                                                 *)
LEMMA EmptyQueue == ASSUME NEW m PROVE ~Has(<<>>, m) /\ Once(<<>>, m)
BY DEF Has, Once

LEMMA AppendToQueue ==
  ASSUME NEW S, NEW q \in Seq(S), NEW x \in S, NEW m
  PROVE  /\ Append(q, x) \in Seq(S)
         /\ Has(Append(q, x), m) <=> Has(q, m) \/ x = m
         /\ Once(q, m) /\ (x = m => ~Has(q, m)) => Once(Append(q, x), m)
<1>1. /\ Append(q, x) \in Seq(S) /\ Len(Append(q, x)) = Len(q) + 1 /\ Len(q) \in Nat
      /\ \A i \in 1 .. Len(q) : Append(q, x)[i] = q[i]
      /\ Append(q, x)[Len(q) + 1] = x
  OBVIOUS
<1>2. 1 .. Len(Append(q, x)) = (1 .. Len(q)) \cup {Len(q) + 1}
  BY <1>1
<1>3. Has(Append(q, x), m) <=> Has(q, m) \/ x = m
  BY <1>1, <1>2 DEF Has
<1>4. Once(q, m) /\ (x = m => ~Has(q, m)) => Once(Append(q, x), m)
  BY <1>1, <1>2 DEF Has, Once
<1> QED BY <1>1, <1>3, <1>4

LEMMA JoinQueues ==
  ASSUME NEW S, NEW q \in Seq(S), NEW r \in Seq(S), NEW m
  PROVE  q \o r \in Seq(S) /\ (Has(q \o r, m) <=> Has(q, m) \/ Has(r, m))
<1>1. /\ q \o r \in Seq(S) /\ Len(q \o r) = Len(q) + Len(r) /\ Len(q) \in Nat /\ Len(r) \in Nat
      /\ \A i \in 1 .. Len(q) : (q \o r)[i] = q[i]
      /\ \A i \in 1 .. Len(r) : (q \o r)[Len(q) + i] = r[i]
  OBVIOUS
<1>2. ASSUME NEW i \in 1 .. Len(q \o r), (q \o r)[i] = m PROVE Has(q, m) \/ Has(r, m)
  <2>1. CASE i \in 1 .. Len(q) BY <1>1, <1>2, <2>1 DEF Has
  <2>2. CASE i \notin 1 .. Len(q)
    <3>1. i - Len(q) \in 1 .. Len(r) /\ Len(q) + (i - Len(q)) = i
      BY <1>1, <2>2
    <3> QED BY <1>1, <1>2, <3>1 DEF Has
  <2> QED BY <2>1, <2>2
<1>3. ASSUME NEW i \in 1 .. Len(q), q[i] = m PROVE Has(q \o r, m)
  BY <1>1, <1>3 DEF Has
<1>4. ASSUME NEW i \in 1 .. Len(r), r[i] = m PROVE Has(q \o r, m)
  <2>1. Len(q) + i \in 1 .. Len(q \o r) BY <1>1
  <2> QED BY <1>1, <1>4, <2>1 DEF Has
<1> QED BY <1>1, <1>2, <1>3, <1>4 DEF Has

LEMMA OneInQueue == ASSUME NEW x, NEW m PROVE Has(<<x>>, m) <=> x = m
BY DEF Has

LEMMA RestOfQueue ==
  ASSUME NEW S, NEW q \in Seq(S), q # <<>>, NEW m
  PROVE  /\ Tail(q) \in Seq(S) /\ Head(q) \in S
         /\ Has(q, Head(q))
         /\ Has(Tail(q), m) => Has(q, m)
         /\ Once(q, m) => Once(Tail(q), m)
         /\ Once(q, m) /\ Head(q) = m => ~Has(Tail(q), m)
<1>1. /\ Tail(q) \in Seq(S) /\ Head(q) \in S /\ Len(q) \in Nat /\ Len(q) > 0
      /\ Len(Tail(q)) = Len(q) - 1 /\ Head(q) = q[1]
      /\ \A i \in 1 .. Len(Tail(q)) : i + 1 \in 1 .. Len(q) /\ Tail(q)[i] = q[i + 1]
  OBVIOUS
<1>2. Has(q, Head(q)) BY <1>1 DEF Has
<1>3. Has(Tail(q), m) => Has(q, m) BY <1>1 DEF Has
<1>4. Once(q, m) => Once(Tail(q), m)
  <2> SUFFICES ASSUME Once(q, m), NEW i \in 1 .. Len(Tail(q)), NEW j \in 1 .. Len(Tail(q)),
                      Tail(q)[i] = m, Tail(q)[j] = m
               PROVE  i = j
    BY DEF Once
  <2>1. i + 1 = j + 1 BY <1>1 DEF Once
  <2> QED BY <1>1, <2>1
<1>5. Once(q, m) /\ Head(q) = m => ~Has(Tail(q), m)
  <2> SUFFICES ASSUME Once(q, m), Head(q) = m, NEW i \in 1 .. Len(Tail(q)), Tail(q)[i] = m
               PROVE  FALSE
    BY DEF Has
  <2>1. i + 1 = 1 BY <1>1 DEF Once
  <2> QED BY <1>1, <2>1
<1> QED BY <1>1, <1>2, <1>3, <1>4, <1>5

-----------------------------------------------------------------------------
(* Messages, and what the server does with those this client sends.        *)
LEMMA Names ==
  /\ Sent \subseteq Request /\ {ConnCnf, RegCnf, DiscCnf} \subseteq Reply
  /\ ConnReq # RegReq /\ ConnReq # DiscReq /\ RegReq # DiscReq
  /\ ConnCnf # RegCnf /\ ConnCnf # DiscCnf /\ RegCnf # DiscCnf
  /\ {ConnCnf, RegCnf, DiscCnf} \cap Rejection = {} /\ RegRejection \subseteq Rejection
BY DEF Sent, ConnReq, RegReq, DiscReq, ConnCnf, RegCnf, DiscCnf, Msg, Request, Reply, Rejection,
       RegRejection

LEMMA AnswersOfServer ==
  ASSUME NEW s \in Session
  PROVE  /\ LET out == handle_client_message(s, ConnReq)
            IN /\ out.ok /\ out.session \in Session
               /\ s.state = "EMPTY" =>
                    out.session.state = "REGISTERING" /\ out.sent = <<ConnCnf>>
               /\ s.state # "EMPTY" =>
                    /\ out.session.state = "CONN_REJECTED"
                    /\ \E m \in Rejection \ RegRejection : out.sent = <<m>>
         /\ LET out == handle_client_message(s, RegReq)
            IN /\ out.ok /\ out.session \in Session
               /\ s.state = "REGISTERING" =>
                    out.session.state = "REGISTERED" /\ out.sent = <<RegCnf>>
               /\ s.state # "REGISTERING" =>
                    out.session = s /\ \E m \in RegRejection : out.sent = <<m>>
         /\ LET out == handle_client_message(s, DiscReq)
            IN /\ out.ok /\ out.session \in Session
               /\ out.session.state = "CLOSING" /\ out.sent = <<DiscCnf>>
<1> USE DEF handle_client_message, Outcome, Answer, Session, State
<1>1. LET out == handle_client_message(s, ConnReq)
      IN /\ out.ok /\ out.session \in Session
         /\ s.state = "EMPTY" => out.session.state = "REGISTERING" /\ out.sent = <<ConnCnf>>
         /\ s.state # "EMPTY" => /\ out.session.state = "CONN_REJECTED"
                                 /\ \E m \in Rejection \ RegRejection : out.sent = <<m>>
  <2> DEFINE cause == IF s.state = "EMPTY" THEN "BAD_CLIENT_VERSION"
                      ELSE IF s.state = "CONN_REJECTED" THEN s.last_rejected_cause
                      ELSE "UNEXPECTED_CONN_REQ"
  <2>1. cause \in RejCause BY DEF RejCause
  <2>2. Msg("CONNECTION_REJ", cause) \in Rejection \ RegRejection
    BY <2>1 DEF Rejection, RegRejection, Reply, Msg
  <2>3. handle_client_message(s, ConnReq) =
          IF s.state = "EMPTY" THEN Outcome([s EXCEPT !.state = "REGISTERING"], <<ConnCnf>>, TRUE)
          ELSE Outcome([state |-> "CONN_REJECTED", last_rejected_cause |-> cause],
                       <<Msg("CONNECTION_REJ", cause)>>, TRUE)
    BY DEF handleConnectionReq, ConnReq, ConnCnf, Msg
  <2> QED BY <2>1, <2>2, <2>3
<1>2. LET out == handle_client_message(s, RegReq)
      IN /\ out.ok /\ out.session \in Session
         /\ s.state = "REGISTERING" => out.session.state = "REGISTERED" /\ out.sent = <<RegCnf>>
         /\ s.state # "REGISTERING" => out.session = s /\ \E m \in RegRejection : out.sent = <<m>>
  <2>1. Msg("REGISTRATION_REJ", "UNEXPECTED_REGISTRATION") \in RegRejection
    BY DEF Rejection, RegRejection, Reply, Msg
  <2>2. handle_client_message(s, RegReq) =
          IF s.state = "REGISTERING"
          THEN Outcome([s EXCEPT !.state = "REGISTERED"], <<RegCnf>>, TRUE)
          ELSE Outcome(s, <<Msg("REGISTRATION_REJ", "UNEXPECTED_REGISTRATION")>>, TRUE)
    BY DEF handleRegistrationReq, known_user, correct_email, RegReq, RegCnf, Msg
  <2> QED BY <2>1, <2>2
<1>3. LET out == handle_client_message(s, DiscReq)
      IN /\ out.ok /\ out.session \in Session
         /\ out.session.state = "CLOSING" /\ out.sent = <<DiscCnf>>
  BY DEF handleDisconnectionReq, DiscReq, DiscCnf, Msg
<1> QED BY <1>1, <1>2, <1>3

-----------------------------------------------------------------------------
(* Every step keeps the invariant.                                         *)

(* What is asked of the control of a step that queues no message; such a   *)
(* step may take some away.                                                *)
ControlKept ==
  /\ Early' => Early
  /\ cnx_state' \in Past \/ store' \in Past \/ pc' = "registration_req" => Confirmed
  /\ cnx_state' = "REGISTERED" \/ store' = "REGISTERED" => RegConfirmed
  /\ ~StopCalled => (NotAsked' => NotAsked) /\ StoreFollowsState'

LEMMA FewerInv ==
  ASSUME IInv, TypeOK', CredentialsAreThere', ControlKept,
         tx_fifo' \in Seq(Sent), to_server' \in Seq(Sent),
         \A x : /\ Pending(x)' => Pending(x)
                /\ Replied(x)' => Replied(x)
                /\ OncePending(x) => OncePending(x)',
         UNCHANGED <<session, server_ok, ui, ui_todo>>
  PROVE  IInv'
<1> USE DEF IInv
<1>1. StopCalled' = StopCalled
  BY DEF StopCalled
<1>2. OnlySent' /\ LeavesWhenStopped'
  BY <1>1 DEF OnlySent, LeavesWhenStopped
<1>3. OneConnection' /\ (Waiting' => Waiting)
  BY DEF OneConnection, Waiting, ControlKept
<1>4. (Confirmed' => Confirmed) /\ (RegConfirmed' => RegConfirmed)
  BY DEF ControlKept, Confirmed, RegConfirmed
<1>5. ConfirmedByServer'
  BY <1>3, <1>4 DEF ConfirmedByServer
<1>6. ~StopCalled' => Orderly'
  BY <1>1, <1>3 DEF ControlKept, Orderly
<1> QED BY <1>2, <1>3, <1>5, <1>6

LEMMA ControlInv ==
  ASSUME IInv, TypeOK', CredentialsAreThere', ControlKept,
         UNCHANGED <<to_server, inbound, session, server_ok, tx_fifo, rx_fifo, ui, ui_todo>>
  PROVE  IInv'
<1>1. \A x : /\ Pending(x)' = Pending(x) /\ Replied(x)' = Replied(x)
            /\ OncePending(x)' = OncePending(x)
  BY DEF Pending, Replied, OncePending
<1> QED BY <1>1, FewerInv DEF IInv, OnlySent

LEMMA ControlStep ==
  ASSUME IInv,
         \/ Store \/ ConfigureSocket \/ StartConnectionToServer \/ ConnectAgain
         \/ BeginPoll \/ EventConnected \/ EventRegistering \/ ClearEvents
         \/ SocketPoll \/ BeginSend \/ SocketDisconnected \/ NextMessage \/ OwnCredentials
  PROVE  IInv'
<1> USE DEF shared, network, At, Goto, Abort, Throw, setState
<1>1. UNCHANGED <<to_server, inbound, session, server_ok, tx_fifo, rx_fifo, ui, ui_todo>>
  BY DEF Store, ConfigureSocket, StartConnectionToServer, ConnectAgain, BeginPoll, EventConnected,
         EventRegistering, ClearEvents, SocketPoll, BeginSend, SocketDisconnected, NextMessage,
         OwnCredentials
<1>2. TypeOK' /\ CredentialsAreThere'
  <2> USE DEF IInv, TypeOK, CredentialsAreThere
  <2>1. CASE Store BY <2>1 DEF Store
  <2>2. CASE ConfigureSocket BY <2>2 DEF ConfigureSocket, ClientLinks
  <2>3. CASE StartConnectionToServer BY <2>3 DEF StartConnectionToServer, CnxState, Live
  <2>4. CASE ConnectAgain BY <2>4 DEF ConnectAgain
  <2>5. CASE BeginPoll BY <2>5 DEF BeginPoll
  <2>6. CASE EventConnected BY <2>6 DEF EventConnected, CnxState, Live
  <2>7. CASE EventRegistering BY <2>7 DEF EventRegistering, CnxState, Live
  <2>8. CASE ClearEvents BY <2>8 DEF ClearEvents
  <2>9. CASE SocketPoll BY <2>9 DEF SocketPoll
  <2>10. CASE BeginSend BY <2>10 DEF BeginSend
  <2>11. CASE SocketDisconnected BY <2>11 DEF SocketDisconnected, CnxState
  <2>12. CASE NextMessage BY <2>12 DEF NextMessage
  <2>13. CASE OwnCredentials BY <2>13 DEF OwnCredentials, Credentials
  <2> QED BY <2>1, <2>2, <2>3, <2>4, <2>5, <2>6, <2>7, <2>8, <2>9, <2>10, <2>11, <2>12, <2>13
<1>3. ControlKept
  <2> USE DEF ControlKept, Early, Past, NotAsked, StoreFollowsState
  <2>0. /\ ~StopCalled => StoreFollowsState
        /\ cnx_state \in Past \/ store \in Past \/ pc = "registration_req" => Confirmed
        /\ cnx_state = "REGISTERED" \/ store = "REGISTERED" => RegConfirmed
    BY DEF IInv, Orderly, Confirmed, RegConfirmed
  <2>1. CASE Store BY <2>0, <2>1 DEF Store
  <2>2. CASE ConfigureSocket BY <2>0, <2>2 DEF ConfigureSocket
  <2>3. CASE StartConnectionToServer BY <2>0, <2>3 DEF StartConnectionToServer, Expected
  <2>4. CASE ConnectAgain BY <2>0, <2>4 DEF ConnectAgain
  <2>5. CASE BeginPoll BY <2>0, <2>5 DEF BeginPoll
  <2>6. CASE EventConnected BY <2>0, <2>6 DEF EventConnected, Expected
  <2>7. CASE EventRegistering BY <2>0, <2>7 DEF EventRegistering, Expected
  <2>8. CASE ClearEvents BY <2>0, <2>8 DEF ClearEvents
  <2>9. CASE SocketPoll BY <2>0, <2>9 DEF SocketPoll
  <2>10. CASE BeginSend BY <2>0, <2>10 DEF BeginSend
  <2>11. CASE SocketDisconnected BY <2>0, <2>11 DEF SocketDisconnected, Expected
  <2>12. CASE NextMessage BY <2>0, <2>12 DEF NextMessage
  <2>13. CASE OwnCredentials BY <2>0, <2>13 DEF OwnCredentials
  <2> QED BY <2>1, <2>2, <2>3, <2>4, <2>5, <2>6, <2>7, <2>8, <2>9, <2>10, <2>11, <2>12, <2>13
<1> QED BY <1>1, <1>2, <1>3, ControlInv

(* The steps that queue, send or take messages. *)
LEMMA NetworkInv == ASSUME IInv, Network PROVE IInv'
<1> USE DEF Network, thread, shared
<1>1. CASE ServerHandles
  <2> DEFINE m == Head(to_server)
             out == handle_client_message(session, m)
  <2> USE <1>1 DEF ServerHandles
  <2>1. /\ to_server \in Seq(Sent) /\ to_server # <<>> /\ session \in Session
        /\ inbound \in Seq(Reply) /\ tx_fifo \in Seq(Sent)
    BY DEF IInv, TypeOK, OnlySent
  <2>2. /\ to_server' = Tail(to_server) /\ to_server' \in Seq(Sent) /\ m \in Sent
        /\ Has(to_server, m)
        /\ \A x : /\ Has(to_server', x) => Has(to_server, x)
                  /\ Once(to_server, x) => Once(to_server', x)
                  /\ Once(to_server, x) /\ m = x => ~Has(to_server', x)
    BY <2>1, RestOfQueue
  <2>3. /\ session' = out.session /\ server_ok' = out.ok
        /\ inbound' = inbound \/ inbound' = inbound \o out.sent
    OBVIOUS
  <2>4. PICK r \in Reply :
          /\ out.ok /\ out.session \in Session /\ out.sent = <<r>>
          /\ m = ConnReq /\ session.state = "EMPTY" =>
               out.session.state = "REGISTERING" /\ r = ConnCnf
          /\ m = ConnReq /\ session.state # "EMPTY" =>
               out.session.state = "CONN_REJECTED" /\ r \in Rejection \ RegRejection
          /\ m = RegReq /\ session.state = "REGISTERING" =>
               out.session.state = "REGISTERED" /\ r = RegCnf
          /\ m = RegReq /\ session.state # "REGISTERING" =>
               out.session = session /\ r \in RegRejection
          /\ m = DiscReq => out.session.state = "CLOSING" /\ r = DiscCnf
    <3>1. Rejection \subseteq Reply BY DEF Rejection
    <3>2. CASE m = ConnReq BY <2>1, <3>1, <3>2, AnswersOfServer, Names
    <3>3. CASE m = RegReq BY <2>1, <3>1, <3>3, AnswersOfServer, Names
    <3>4. CASE m = DiscReq BY <2>1, <3>1, <3>4, AnswersOfServer, Names
    <3> QED BY <2>2, <3>2, <3>3, <3>4 DEF Sent
  <2>5. inbound' \in Seq(Reply) /\ \A x : Has(inbound', x) => Has(inbound, x) \/ x = r
    <3>1. <<r>> \in Seq(Reply) OBVIOUS
    <3>2. \A x : Has(<<r>>, x) <=> r = x BY OneInQueue
    <3>3. /\ inbound \o <<r>> \in Seq(Reply)
          /\ \A x : Has(inbound \o <<r>>, x) <=> Has(inbound, x) \/ Has(<<r>>, x)
      BY <2>1, <3>1, JoinQueues
    <3> QED BY <2>1, <2>3, <2>4, <3>2, <3>3
  <2>6. UNCHANGED <<pc, store, sent_credentials, cnx_state, ext_event, user, tx_fifo, rx_fifo,
                    sock_state, ui, ui_todo, link, crash>>
    OBVIOUS
  <2> HIDE <1>1 DEF ServerHandles, out
  <2>7. /\ \A x : /\ Pending(x)' => Pending(x)
                  /\ Replied(x)' => Replied(x) \/ x = r
                  /\ OncePending(x) => OncePending(x)'
                  /\ OncePending(x) /\ m = x => ~Pending(x)'
        /\ Pending(m)
    BY <2>2, <2>5, <2>6 DEF Pending, Replied, OncePending
  <2>8. OnlySent' /\ CredentialsAreThere' /\ TypeOK'
    <3>1. OnlySent' BY <2>1, <2>2, <2>3, <2>4, <2>6 DEF OnlySent
    <3>2. CredentialsAreThere' BY <2>6 DEF IInv, CredentialsAreThere
    <3>3. TypeOK'
      <4>1. to_server' \in Seq(Request) BY <2>2, Names
      <4> QED BY <2>3, <2>4, <2>5, <2>6, <4>1 DEF IInv, TypeOK
    <3> QED BY <3>1, <3>2, <3>3
  <2>9. /\ OneConnection' /\ (Waiting' => Waiting) /\ (m = ConnReq => ~Waiting')
        /\ (NotAsked' => NotAsked) /\ StopCalled' = StopCalled
        /\ (StoreFollowsState => StoreFollowsState')
        /\ (RegConfirmed' => RegConfirmed \/ r = RegCnf)
        /\ (Confirmed' => \/ Confirmed \/ r \in {ConnCnf, RegCnf} \cup RegRejection
                          \/ session'.state \in {"REGISTERING", "REGISTERED"})
    BY <2>6, <2>7 DEF IInv, OneConnection, Waiting, Early, NotAsked, StopCalled, StoreFollowsState,
       RegConfirmed, Confirmed
  <2>10. /\ RegConfirmed \/ Pending(RegReq) => Confirmed
         /\ Pending(ConnReq) => Waiting
         /\ Confirmed => ~Waiting /\ session.state \in {"REGISTERING", "REGISTERED", "CLOSING"}
         /\ RegConfirmed => session.state \in {"REGISTERED", "CLOSING"}
    BY DEF IInv, Confirmed, Waiting, ConfirmedByServer
  <2>11. ConfirmedByServer'
    <3>1. CASE m = ConnReq
      BY <2>3, <2>4, <2>7, <2>9, <2>10, <3>1, Names DEF ConfirmedByServer
    <3>2. CASE m = RegReq
      BY <2>3, <2>4, <2>7, <2>9, <2>10, <3>2, Names DEF ConfirmedByServer
    <3>3. CASE m = DiscReq
      BY <2>3, <2>4, <2>7, <2>9, <2>10, <3>3, Names DEF ConfirmedByServer
    <3> QED BY <2>2, <3>1, <3>2, <3>3 DEF Sent
  <2>12. LeavesWhenStopped'
    <3>1. session'.state = "CLOSING" => session.state = "CLOSING" \/ Pending(DiscReq)
      BY <2>2, <2>3, <2>4, <2>7 DEF Sent
    <3> QED BY <2>6, <2>7, <2>9, <3>1 DEF IInv, LeavesWhenStopped
  <2>13. ASSUME ~StopCalled' PROVE Orderly'
    <3>1. ~StopCalled /\ Orderly /\ m # DiscReq
      BY <2>7, <2>9, <2>13 DEF IInv, LeavesWhenStopped
    <3>2. CASE m = ConnReq
      BY <2>3, <2>4, <2>7, <2>9, <2>10, <3>1, <3>2, Names DEF Orderly
    <3>3. CASE m = RegReq
      BY <2>3, <2>4, <2>7, <2>9, <2>10, <3>1, <3>3, Names DEF Orderly
    <3> QED BY <2>2, <3>1, <3>2, <3>3 DEF Sent
  <2> QED BY <2>8, <2>9, <2>11, <2>12, <2>13 DEF IInv
<1>2. CASE ~ServerHandles
  <2>1. UNCHANGED <<to_server, inbound, session, server_ok, tx_fifo, rx_fifo, ui, ui_todo>>
    BY <1>2 DEF Establish, Refuse, ServerEnds, Reset, AnswerRst, LinkStep
  <2>2. UNCHANGED <<pc, store, cnx_state, ext_event, user>>
    OBVIOUS
  <2>3. TypeOK' /\ CredentialsAreThere'
    BY <1>2, <2>1, <2>2 DEF Establish, Refuse, ServerEnds, Reset, AnswerRst, LinkStep, IInv, TypeOK,
       ClientLinks, CredentialsAreThere
  <2>4. ControlKept
    BY <2>2 DEF ControlKept, IInv, Orderly, Early, Confirmed, RegConfirmed, NotAsked,
       StoreFollowsState
  <2> QED BY <2>1, <2>3, <2>4, ControlInv
<1> QED BY <1>1, <1>2

(* The background thread queues a request. *)
LEMMA SendConnectionReqInv == ASSUME IInv, SendConnectionReq PROVE IInv'
<1> USE DEF SendConnectionReq, At, Goto
<1>1. /\ pc = "connection_req" /\ pc' = "poll" /\ tx_fifo \in Seq(Sent) /\ ConnReq \in Sent
      /\ UNCHANGED <<network, store, sent_credentials, cnx_state, ext_event, user, rx_fifo,
                     sock_state, ui, ui_todo, crash>>
  BY DEF IInv, OnlySent, Sent
<1>2. tx_fifo' = Append(tx_fifo, ConnReq)
  BY <1>1 DEF ConnectionReq, ConnReq
<1>3. /\ tx_fifo' \in Seq(Sent)
      /\ \A x : /\ Has(tx_fifo', x) <=> Has(tx_fifo, x) \/ x = ConnReq
                /\ Once(tx_fifo, x) /\ (x = ConnReq => ~Has(tx_fifo, x)) => Once(tx_fifo', x)
  BY <1>1, <1>2, AppendToQueue
<1> HIDE DEF SendConnectionReq
<1>4. /\ \A x : /\ Pending(x)' => Pending(x) \/ x = ConnReq
                /\ Replied(x)' = Replied(x)
                /\ x # ConnReq => (OncePending(x) => OncePending(x)')
      /\ OncePending(ConnReq) /\ ~Pending(ConnReq) => OncePending(ConnReq)'
  BY <1>1, <1>3 DEF Pending, Replied, OncePending, network
<1>5. OnlySent' /\ CredentialsAreThere' /\ TypeOK'
  <2>1. OnlySent' /\ CredentialsAreThere'
    BY <1>1, <1>3 DEF IInv, OnlySent, CredentialsAreThere, network
  <2>2. tx_fifo' \in Seq(Request) BY <1>3, Names
  <2> QED BY <1>1, <2>1, <2>2 DEF IInv, TypeOK, network
<1>6. OneConnection' /\ Early /\ Waiting /\ StopCalled' = StopCalled /\ (NotAsked' => NotAsked)
  BY <1>1, <1>4 DEF IInv, OneConnection, Early, Waiting, StopCalled, NotAsked
<1>7. ~Confirmed /\ ~Confirmed' /\ ~RegConfirmed'
  BY <1>1, <1>4, <1>6, Names DEF IInv, ConfirmedByServer, Confirmed, RegConfirmed, network
<1>8. ConfirmedByServer' /\ LeavesWhenStopped'
  BY <1>1, <1>4, <1>6, <1>7, Names DEF IInv, ConfirmedByServer, LeavesWhenStopped, network
<1>9. ASSUME ~StopCalled' PROVE Orderly'
  BY <1>1, <1>4, <1>6, <1>9, Names DEF IInv, Orderly, StoreFollowsState, network
<1> QED BY <1>5, <1>6, <1>8, <1>9 DEF IInv

LEMMA SendRegistrationReqInv == ASSUME IInv, SendRegistrationReq PROVE IInv'
<1> USE DEF SendRegistrationReq, At, Goto
<1>1. /\ pc = "registration_req" /\ store = "none" /\ pc' = "registering"
      /\ tx_fifo \in Seq(Sent) /\ RegReq \in Sent
      /\ tx_fifo' = Append(tx_fifo, RegReq)
      /\ sent_credentials' = Append(sent_credentials, user)
      /\ UNCHANGED <<network, store, cnx_state, ext_event, user, rx_fifo,
                     sock_state, ui, ui_todo, crash>>
  BY DEF IInv, OnlySent, Sent, RegReq
<1>2. /\ tx_fifo' \in Seq(Sent)
      /\ \A x : /\ Has(tx_fifo', x) <=> Has(tx_fifo, x) \/ x = RegReq
                /\ Once(tx_fifo, x) /\ (x = RegReq => ~Has(tx_fifo, x)) => Once(tx_fifo', x)
  BY <1>1, AppendToQueue
<1> HIDE DEF SendRegistrationReq
<1>3. /\ \A x : /\ Pending(x)' => Pending(x) \/ x = RegReq
                /\ Replied(x)' = Replied(x)
                /\ x # RegReq => (OncePending(x) => OncePending(x)')
      /\ OncePending(RegReq) /\ ~Pending(RegReq) => OncePending(RegReq)'
  BY <1>1, <1>2 DEF Pending, Replied, OncePending, network
<1>4. OnlySent' /\ CredentialsAreThere' /\ TypeOK'
  <2>1. OnlySent' /\ CredentialsAreThere'
    BY <1>1, <1>2 DEF IInv, OnlySent, CredentialsAreThere, network
  <2>2. tx_fifo' \in Seq(Request) BY <1>2, Names
  <2>3. user \in [name : {"builtin", "ui"}, passwd : {"builtin", "ui"}]
    BY <1>1 DEF IInv, TypeOK, CredentialsAreThere
  <2>4. sent_credentials' \in Seq([name : {"builtin", "ui"}, passwd : {"builtin", "ui"}])
    BY <1>1, <2>3 DEF IInv, TypeOK
  <2> QED BY <1>1, <2>1, <2>2, <2>4 DEF IInv, TypeOK, network
<1>5. /\ OneConnection' /\ ~Early' /\ StopCalled' = StopCalled
      /\ Waiting' = Waiting /\ Confirmed /\ RegConfirmed' = RegConfirmed
  BY <1>1, <1>3, <1>2, Names DEF IInv, OneConnection, Early, Waiting, StopCalled, Confirmed,
     RegConfirmed, Pending, network
<1>6. ConfirmedByServer' /\ LeavesWhenStopped'
  BY <1>1, <1>3, <1>5, Names DEF IInv, ConfirmedByServer, LeavesWhenStopped, network
<1>7. ASSUME ~StopCalled' PROVE Orderly'
  <2>1. Orderly /\ NotAsked /\ ~NotAsked'
    BY <1>1, <1>5, <1>7 DEF IInv, Orderly, NotAsked, StoreFollowsState
  <2>2. session.state = "REGISTERING"
    BY <1>5, <1>7, <2>1 DEF IInv, ConfirmedByServer, LeavesWhenStopped, Orderly
  <2> QED
    BY <1>1, <1>3, <1>5, <2>1, <2>2, Names DEF Orderly, StoreFollowsState, network
<1> QED BY <1>4, <1>5, <1>6, <1>7 DEF IInv

(* The background thread moves messages, and handles those of the server.  *)
LEMMA ReceiveInv == ASSUME IInv, Receive PROVE IInv'
<1> USE DEF Receive, Goto
<1>1. /\ tx_fifo \in Seq(Sent) /\ rx_fifo \in Seq(Reply) /\ inbound \in Seq(Reply)
      /\ \A x : ~Has(<<>>, x) /\ Once(<<>>, x)
  BY EmptyQueue DEF IInv, OnlySent, TypeOK
<1>2. /\ inbound' = <<>>
      /\ \/ rx_fifo' = <<>> /\ tx_fifo' = <<>>
         \/ rx_fifo' = rx_fifo \o inbound /\ UNCHANGED tx_fifo
      /\ pc \in {"recv", "recv_send"} /\ pc' \in {"disconnected", "messages", "send"}
      /\ UNCHANGED <<link, to_server, session, server_ok, store, sent_credentials, cnx_state,
                     ext_event, user, sock_state, ui, ui_todo, crash>>
  OBVIOUS
<1>3. /\ rx_fifo' \in Seq(Reply) /\ tx_fifo' \in Seq(Sent) /\ inbound' \in Seq(Reply)
      /\ \A x : Has(rx_fifo', x) => Has(rx_fifo, x) \/ Has(inbound, x)
      /\ \A x : Has(tx_fifo', x) => Has(tx_fifo, x)
      /\ \A x : Once(tx_fifo, x) => Once(tx_fifo', x)
  <2>1. /\ rx_fifo \o inbound \in Seq(Reply)
        /\ \A x : Has(rx_fifo \o inbound, x) <=> Has(rx_fifo, x) \/ Has(inbound, x)
    BY <1>1, JoinQueues
  <2>2. <<>> \in Seq(Reply) /\ <<>> \in Seq(Sent) OBVIOUS
  <2> HIDE DEF Receive
  <2>3. CASE rx_fifo' = <<>> /\ tx_fifo' = <<>> BY <1>1, <1>2, <2>2, <2>3
  <2>4. CASE rx_fifo' = rx_fifo \o inbound /\ UNCHANGED tx_fifo BY <1>1, <1>2, <2>1, <2>2, <2>4
  <2> QED BY <1>2, <2>3, <2>4
<1>4. \A x : /\ Pending(x)' => Pending(x)
             /\ Replied(x)' => Replied(x)
             /\ OncePending(x) => OncePending(x)'
  BY <1>1, <1>2, <1>3 DEF Pending, Replied, OncePending
<1>5. tx_fifo' \in Seq(Request) BY <1>3, Names
<1> HIDE DEF Receive
<1>6. TypeOK' /\ CredentialsAreThere' BY <1>2, <1>3, <1>5 DEF IInv, TypeOK, CredentialsAreThere
<1>7. ControlKept
  BY <1>2 DEF IInv, Orderly, ControlKept, Early, Confirmed, RegConfirmed, NotAsked, StoreFollowsState
<1> QED BY <1>2, <1>3, <1>4, <1>6, <1>7, FewerInv DEF IInv, OnlySent

LEMMA PopAndSendInv == ASSUME IInv, PopAndSend PROVE IInv'
<1> USE DEF PopAndSend, Goto, Abort, At, network
<1>1. /\ tx_fifo \in Seq(Sent) /\ rx_fifo \in Seq(Reply) /\ to_server \in Seq(Sent)
      /\ \A x : ~Has(<<>>, x) /\ Once(<<>>, x)
      /\ pc = "pop" /\ pc' \in {"aborted", "messages", "disconnected"}
      /\ crash' \in {crash, "undefined_front", "sigpipe"}
      /\ link' \in {link, "finsent"}
      /\ UNCHANGED <<inbound, session, server_ok, store, sent_credentials, cnx_state,
                     ext_event, user, sock_state, ui, ui_todo>>
  BY EmptyQueue DEF IInv, OnlySent, TypeOK
<1>2. tx_fifo # <<>> =>
        /\ Tail(tx_fifo) \in Seq(Sent) /\ Head(tx_fifo) \in Sent /\ Has(tx_fifo, Head(tx_fifo))
        /\ Append(to_server, Head(tx_fifo)) \in Seq(Sent)
        /\ \A x : /\ Has(Tail(tx_fifo), x) => Has(tx_fifo, x)
                  /\ Once(tx_fifo, x) => Once(Tail(tx_fifo), x)
                  /\ Once(tx_fifo, x) /\ Head(tx_fifo) = x => ~Has(Tail(tx_fifo), x)
                  /\ Has(Append(to_server, Head(tx_fifo)), x) <=>
                       Has(to_server, x) \/ Head(tx_fifo) = x
                  /\ Once(to_server, x) /\ (Head(tx_fifo) = x => ~Has(to_server, x)) =>
                       Once(Append(to_server, Head(tx_fifo)), x)
  <2> SUFFICES ASSUME tx_fifo # <<>>
               PROVE  /\ Tail(tx_fifo) \in Seq(Sent) /\ Head(tx_fifo) \in Sent
                      /\ Has(tx_fifo, Head(tx_fifo))
                      /\ Append(to_server, Head(tx_fifo)) \in Seq(Sent)
                      /\ \A x : /\ Has(Tail(tx_fifo), x) => Has(tx_fifo, x)
                                /\ Once(tx_fifo, x) => Once(Tail(tx_fifo), x)
                                /\ Once(tx_fifo, x) /\ Head(tx_fifo) = x =>
                                     ~Has(Tail(tx_fifo), x)
                                /\ Has(Append(to_server, Head(tx_fifo)), x) <=>
                                     Has(to_server, x) \/ Head(tx_fifo) = x
                                /\ Once(to_server, x) /\ (Head(tx_fifo) = x => ~Has(to_server, x))
                                     => Once(Append(to_server, Head(tx_fifo)), x)
    OBVIOUS
  <2>1. /\ Tail(tx_fifo) \in Seq(Sent) /\ Head(tx_fifo) \in Sent
        /\ Has(tx_fifo, Head(tx_fifo))
        /\ \A x : /\ Has(Tail(tx_fifo), x) => Has(tx_fifo, x)
                  /\ Once(tx_fifo, x) => Once(Tail(tx_fifo), x)
                  /\ Once(tx_fifo, x) /\ Head(tx_fifo) = x => ~Has(Tail(tx_fifo), x)
    BY <1>1, RestOfQueue
  <2>2. /\ Append(to_server, Head(tx_fifo)) \in Seq(Sent)
        /\ \A x : /\ Has(Append(to_server, Head(tx_fifo)), x) <=>
                       Has(to_server, x) \/ Head(tx_fifo) = x
                  /\ Once(to_server, x) /\ (Head(tx_fifo) = x => ~Has(to_server, x))
                       => Once(Append(to_server, Head(tx_fifo)), x)
    BY <1>1, <2>1, AppendToQueue
  <2> QED BY <2>1, <2>2
<1>3. \/ UNCHANGED <<tx_fifo, rx_fifo, to_server>>
      \/ tx_fifo # <<>> /\ tx_fifo' = Tail(tx_fifo) /\ UNCHANGED rx_fifo
         /\ to_server' \in {to_server, Append(to_server, Head(tx_fifo))}
      \/ tx_fifo' = <<>> /\ rx_fifo' = <<>> /\ UNCHANGED to_server
  OBVIOUS
<1> HIDE DEF PopAndSend
<1>4. tx_fifo' \in Seq(Sent) /\ to_server' \in Seq(Sent) /\ rx_fifo' \in Seq(Reply)
  <2>1. <<>> \in Seq(Sent) /\ <<>> \in Seq(Reply) OBVIOUS
  <2> QED BY <1>1, <1>2, <1>3, <2>1
<1>5. \A x : /\ Pending(x)' => Pending(x)
             /\ Replied(x)' => Replied(x)
             /\ OncePending(x) => OncePending(x)'
  <2>1. CASE UNCHANGED <<tx_fifo, rx_fifo, to_server>>
    BY <1>1, <2>1 DEF Pending, Replied, OncePending
  <2>2. CASE tx_fifo # <<>> /\ tx_fifo' = Tail(tx_fifo) /\ UNCHANGED <<rx_fifo, to_server>>
    BY <1>1, <1>2, <2>2 DEF Pending, Replied, OncePending
  <2>3. CASE /\ tx_fifo # <<>> /\ tx_fifo' = Tail(tx_fifo) /\ UNCHANGED rx_fifo
             /\ to_server' = Append(to_server, Head(tx_fifo))
    <3> SUFFICES ASSUME NEW x
                 PROVE  /\ Pending(x)' => Pending(x)
                        /\ Replied(x)' => Replied(x)
                        /\ OncePending(x) => OncePending(x)'
      OBVIOUS
    <3>1. (Pending(x)' => Pending(x)) /\ (Replied(x)' => Replied(x))
      BY <1>1, <1>2, <2>3 DEF Pending, Replied
    <3>2. /\ Has(Tail(tx_fifo), x) => Has(tx_fifo, x)
          /\ Once(tx_fifo, x) => Once(Tail(tx_fifo), x)
          /\ Once(tx_fifo, x) /\ Head(tx_fifo) = x => ~Has(Tail(tx_fifo), x)
          /\ Has(Append(to_server, Head(tx_fifo)), x) <=> Has(to_server, x) \/ Head(tx_fifo) = x
          /\ Once(to_server, x) /\ (Head(tx_fifo) = x => ~Has(to_server, x)) =>
               Once(Append(to_server, Head(tx_fifo)), x)
      BY <1>2, <2>3
    <3>3. CASE Head(tx_fifo) = x BY <1>2, <2>3, <3>2, <3>1, <3>3 DEF OncePending
    <3>4. CASE Head(tx_fifo) # x BY <2>3, <3>2, <3>1, <3>4 DEF OncePending
    <3> QED BY <3>1, <3>3, <3>4
  <2>4. CASE tx_fifo' = <<>> /\ rx_fifo' = <<>> /\ UNCHANGED to_server
    BY <1>1, <2>4 DEF Pending, Replied, OncePending
  <2> QED BY <1>3, <2>1, <2>2, <2>3, <2>4
<1>6. tx_fifo' \in Seq(Request) /\ to_server' \in Seq(Request) BY <1>4, Names
<1>7. TypeOK' /\ CredentialsAreThere'
  BY <1>1, <1>4, <1>6 DEF IInv, TypeOK, CredentialsAreThere, ClientLinks
<1>8. ControlKept
  BY <1>1 DEF IInv, Orderly, ControlKept, Early, Confirmed, RegConfirmed, NotAsked, StoreFollowsState
<1> QED BY <1>1, <1>4, <1>5, <1>7, <1>8, FewerInv

LEMMA HandleMessageInv == ASSUME IInv, HandleMessage PROVE IInv'
<1> USE DEF HandleMessage, At
<1>1. /\ tx_fifo \in Seq(Sent) /\ rx_fifo \in Seq(Reply) /\ to_server \in Seq(Sent)
      /\ inbound \in Seq(Reply) /\ inbound' \in {inbound, <<>>}
      /\ \A x : ~Has(<<>>, x) /\ Once(<<>>, x)
      /\ UNCHANGED <<to_server, session, server_ok, sent_credentials, cnx_state, ext_event, user,
                     ui, ui_todo>>
      /\ tx_fifo' \in {tx_fifo, <<>>} /\ link' \in {link, "gone"}
      /\ rx_fifo' \in {rx_fifo, <<>>} \/ (rx_fifo # <<>> /\ rx_fifo' = Tail(rx_fifo))
      /\ sock_state' \in {sock_state, "SOCK_NULL"}
      /\ pc = "take" /\ store = "none"
  BY EmptyQueue DEF IInv, OnlySent, TypeOK
<1>2. /\ rx_fifo' \in Seq(Reply) /\ tx_fifo' \in Seq(Sent) /\ inbound' \in Seq(Reply)
      /\ \A x : /\ Has(rx_fifo', x) => Has(rx_fifo, x)
                /\ Has(inbound', x) => Has(inbound, x)
                /\ Has(tx_fifo', x) => Has(tx_fifo, x)
                /\ Once(tx_fifo, x) => Once(tx_fifo', x)
  <2>1. <<>> \in Seq(Sent) /\ <<>> \in Seq(Reply) OBVIOUS
  <2>2. rx_fifo # <<>> => /\ Tail(rx_fifo) \in Seq(Reply)
                          /\ \A x : Has(Tail(rx_fifo), x) => Has(rx_fifo, x)
    BY <1>1, RestOfQueue
  <2> HIDE DEF HandleMessage
  <2> QED BY <1>1, <2>1, <2>2
<1>3. \A x : /\ Pending(x)' => Pending(x)
             /\ Replied(x)' => Replied(x)
             /\ OncePending(x) => OncePending(x)'
  <2> HIDE DEF HandleMessage
  <2> QED BY <1>1, <1>2 DEF Pending, Replied, OncePending
<1>4. tx_fifo' \in Seq(Request) BY <1>2, Names
<1>5. CASE rx_fifo = <<>>
  <2>1. /\ pc' = "aborted" /\ crash' = "undefined_front" /\ store' = store
    BY <1>5 DEF Abort
  <2> HIDE DEF HandleMessage
  <2>2. TypeOK' /\ CredentialsAreThere'
    BY <1>1, <1>2, <1>4, <2>1 DEF IInv, TypeOK, CredentialsAreThere, ClientLinks
  <2>3. ControlKept
    BY <1>1, <2>1 DEF IInv, Orderly, ControlKept, Early, Confirmed, RegConfirmed, NotAsked,
       StoreFollowsState
  <2> QED BY <1>1, <1>2, <1>3, <2>2, <2>3, FewerInv
<1>6. CASE rx_fifo # <<>>
  <2> DEFINE m == Head(rx_fifo)
  <2>1. m \in Reply /\ Has(rx_fifo, m) /\ handle_server_message(m)
    BY <1>1, <1>6, RestOfQueue
  <2> HIDE DEF HandleMessage, m
  <2>2. /\ pc' \in {"own_credentials", "messages", "aborted"}
        /\ crash' \in {crash, "assert_message", "assert_state"}
        /\ \/ store' = store
           \/ /\ m = ConnCnf /\ cnx_state = "CONNECTING"
              /\ store' = "CONNECTED_NO_CREDENTIALS"
           \/ m = RegCnf /\ cnx_state = "REGISTERING" /\ store' = "REGISTERED"
           \/ m \in RegRejection /\ store' = "CONNECTED_NO_CREDENTIALS"
           \/ m \in Rejection /\ store' = "AUTH_REJECTED"
           \/ m = DiscCnf /\ store' = "CLOSING"
    <3> USE DEF handle_server_message, setState, Expected, Abort, Goto
    <3>1. CASE m = ConnCnf BY <2>1, <3>1 DEF ConnCnf, Msg
    <3>2. CASE m = RegCnf BY <2>1, <3>2 DEF RegCnf, Msg
    <3>3. CASE m = DiscCnf BY <2>1, <3>3 DEF DiscCnf, Msg
    <3>4. CASE m \in Rejection BY <2>1, <3>4 DEF Rejection, RegRejection
    <3>5. m \in Rejection \cup {ConnCnf, RegCnf, DiscCnf}
      BY <2>1 DEF Reply, Rejection, Msg, ConnCnf, RegCnf, DiscCnf
    <3> QED BY <3>1, <3>2, <3>3, <3>4, <3>5
  <2>3. TypeOK' /\ CredentialsAreThere'
    <3>1. store' \in CnxState \cup {"none"}
      BY <2>2 DEF IInv, TypeOK, CnxState, Live, Past
    <3> QED BY <1>1, <1>2, <1>4, <2>2, <3>1 DEF IInv, TypeOK, CredentialsAreThere, ClientLinks
  <2>4. /\ m = RegCnf => RegConfirmed
        /\ m = ConnCnf \/ m \in RegRejection => Confirmed
        /\ RegConfirmed => Confirmed
        /\ cnx_state \in Past => Confirmed
        /\ ~StopCalled => m \notin Rejection
    BY <2>1 DEF RegConfirmed, Confirmed, Replied, IInv, Orderly
  <2>5. ControlKept
    <3>1. /\ cnx_state = "REGISTERED" => RegConfirmed
          /\ ~StopCalled => StoreFollowsState
      BY DEF RegConfirmed, IInv, Orderly
    <3> QED
      BY <1>1, <2>2, <2>4, <3>1, Names DEF ControlKept, Early, NotAsked, StoreFollowsState, Past
  <2> QED BY <1>1, <1>2, <1>3, <2>3, <2>5, FewerInv
<1> QED BY <1>5, <1>6

(* The thread of the user interface. *)
LEMMA UiInv == ASSUME IInv, UiThread PROVE IInv'
<1> USE DEF UiThread, UiCall, network, thread
<1>1. /\ pc # "aborted"
      /\ UNCHANGED <<link, to_server, inbound, session, server_ok, pc, store, sent_credentials,
                     crash>>
      /\ tx_fifo \in Seq(Sent) /\ to_server \in Seq(Sent)
      /\ \A x : ~Has(<<>>, x) /\ Once(<<>>, x)
      /\ ui_todo \subseteq UiCalls
  BY EmptyQueue DEF IInv, OnlySent, TypeOK
<1>2. CASE UiName \/ UiPasswd \/ UiEvent
  <2> USE <1>2 DEF UiName, UiPasswd, UiEvent
  <2>1. /\ UNCHANGED <<cnx_state, tx_fifo, rx_fifo, sock_state>>
        /\ ui' \in {"idle", "passwd", "event"}
        /\ ui_todo' = ui_todo \/ ui_todo' = ui_todo \ {"credentials"}
    OBVIOUS
  <2>2. TypeOK' /\ CredentialsAreThere'
    BY <1>1 DEF IInv, TypeOK, CredentialsAreThere
  <2> HIDE <1>2 DEF UiName, UiPasswd, UiEvent
  <2>3. StopCalled' = StopCalled
    BY <2>1 DEF StopCalled
  <2>4. \A x : /\ Pending(x)' = Pending(x) /\ Replied(x)' = Replied(x)
              /\ OncePending(x)' = OncePending(x)
    BY <1>1, <2>1 DEF Pending, Replied, OncePending
  <2>5. /\ Waiting' = Waiting /\ Early' = Early /\ NotAsked' = NotAsked
        /\ RegConfirmed' = RegConfirmed /\ Confirmed' = Confirmed
        /\ StoreFollowsState' = StoreFollowsState
    BY <1>1, <2>1, <2>4 DEF Waiting, Early, NotAsked, RegConfirmed, Confirmed, StoreFollowsState
  <2>6. OnlySent' /\ OneConnection' /\ ConfirmedByServer' /\ LeavesWhenStopped'
    BY <1>1, <2>1, <2>3, <2>4, <2>5
       DEF IInv, OnlySent, OneConnection, ConfirmedByServer, LeavesWhenStopped
  <2>7. ~StopCalled' => Orderly'
    BY <1>1, <2>3, <2>4, <2>5 DEF IInv, Orderly
  <2> QED BY <2>2, <2>6, <2>7 DEF IInv
<1>3. CASE UiStop("stop", "disconnection_req") \/ UiStop("flush", "discard")
  <2> USE <1>3 DEF UiStop
  <2>1. /\ UNCHANGED <<ext_event, user, tx_fifo, rx_fifo, sock_state>>
        /\ cnx_state' = "DISCONNECTING" /\ ui' \in {"discard", "disconnection_req"}
        /\ \E call \in {"stop", "flush"} :
             call \in ui_todo /\ ui_todo' = ui_todo \ {call}
    OBVIOUS
  <2> HIDE <1>3 DEF UiStop
  <2>2. TypeOK' /\ CredentialsAreThere'
    BY <1>1, <2>1 DEF IInv, TypeOK, CredentialsAreThere, CnxState, Live
  <2>3. StopCalled'
    BY <1>1, <2>1 DEF StopCalled
  <2>4. \A x : /\ Pending(x)' = Pending(x) /\ Replied(x)' = Replied(x)
              /\ OncePending(x)' = OncePending(x)
    BY <1>1, <2>1 DEF Pending, Replied, OncePending
  <2>5. /\ Waiting' = Waiting /\ Early' = Early
        /\ (RegConfirmed' => RegConfirmed) /\ (Confirmed' => Confirmed)
    BY <1>1, <2>1, <2>4 DEF Waiting, Early, RegConfirmed, Confirmed, Past
  <2>6. OnlySent' /\ OneConnection' /\ ConfirmedByServer' /\ LeavesWhenStopped'
    BY <1>1, <2>1, <2>3, <2>4, <2>5
       DEF IInv, OnlySent, OneConnection, ConfirmedByServer, LeavesWhenStopped
  <2> QED BY <2>2, <2>3, <2>6 DEF IInv
<1>4. CASE UiDiscard
  <2> USE <1>4 DEF UiDiscard
  <2>1. /\ tx_fifo' = <<>> /\ rx_fifo' = <<>> /\ ui = "discard" /\ ui' = "disconnection_req"
        /\ UNCHANGED <<cnx_state, ext_event, user, sock_state, ui_todo>>
    OBVIOUS
  <2> HIDE <1>4 DEF UiDiscard
  <2>2. StopCalled /\ StopCalled'
    BY <2>1 DEF IInv, LeavesWhenStopped, StopCalled
  <2>3. \A x : /\ Pending(x)' => Pending(x)
               /\ Replied(x)' => Replied(x)
               /\ OncePending(x) => OncePending(x)'
    BY <1>1, <2>1 DEF Pending, Replied, OncePending
  <2>4. TypeOK' /\ CredentialsAreThere'
    <3>1. <<>> \in Seq(Request) /\ <<>> \in Seq(Reply) OBVIOUS
    <3> QED BY <1>1, <2>1, <3>1 DEF IInv, TypeOK, CredentialsAreThere
  <2>5. /\ (Waiting' => Waiting) /\ Early' = Early
        /\ (RegConfirmed' => RegConfirmed) /\ (Confirmed' => Confirmed)
    BY <1>1, <2>1, <2>3 DEF Waiting, Early, RegConfirmed, Confirmed
  <2>6. OnlySent'
    <3>1. <<>> \in Seq(Sent) OBVIOUS
    <3> QED BY <1>1, <2>1, <3>1 DEF IInv, OnlySent
  <2>7. OneConnection' /\ ConfirmedByServer' /\ LeavesWhenStopped'
    BY <1>1, <2>1, <2>2, <2>3, <2>5 DEF IInv, OneConnection, ConfirmedByServer, LeavesWhenStopped
  <2> QED BY <2>2, <2>4, <2>6, <2>7 DEF IInv
<1>5. CASE UiDisconnectionReq
  <2> USE <1>5 DEF UiDisconnectionReq
  <2>1. /\ tx_fifo' = Append(tx_fifo, DiscReq) /\ ui = "disconnection_req" /\ ui' = "idle"
        /\ UNCHANGED <<cnx_state, ext_event, user, rx_fifo, sock_state, ui_todo>>
    BY DEF DisconnectionCause, DiscReq
  <2> HIDE <1>5 DEF UiDisconnectionReq
  <2>2. StopCalled /\ StopCalled'
    BY <2>1 DEF IInv, LeavesWhenStopped, StopCalled
  <2>3. /\ tx_fifo' \in Seq(Sent)
        /\ \A x : /\ Has(tx_fifo', x) <=> Has(tx_fifo, x) \/ x = DiscReq
                  /\ x # DiscReq => (Once(tx_fifo, x) => Once(tx_fifo', x))
    <3>1. DiscReq \in Sent BY DEF Sent
    <3> QED BY <1>1, <2>1, <3>1, AppendToQueue
  <2>4. \A x : x # DiscReq => /\ Pending(x)' = Pending(x)
                              /\ OncePending(x) => OncePending(x)'
    BY <1>1, <2>3 DEF Pending, OncePending
  <2>5. \A x : Replied(x)' = Replied(x)
    BY <1>1, <2>1 DEF Replied
  <2>6. TypeOK' /\ CredentialsAreThere' /\ OnlySent'
    <3>1. tx_fifo' \in Seq(Request) BY <2>3, Names
    <3> QED BY <1>1, <2>1, <2>3, <3>1 DEF IInv, TypeOK, CredentialsAreThere, OnlySent
  <2>7. /\ Waiting' = Waiting /\ Early' = Early
        /\ RegConfirmed' = RegConfirmed /\ Confirmed' = Confirmed
    BY <1>1, <2>1, <2>4, <2>5, Names DEF Waiting, Early, RegConfirmed, Confirmed
  <2>8. OneConnection' /\ ConfirmedByServer' /\ LeavesWhenStopped'
    BY <1>1, <2>1, <2>2, <2>4, <2>7, Names
       DEF IInv, OneConnection, ConfirmedByServer, LeavesWhenStopped
  <2> QED BY <2>2, <2>6, <2>8 DEF IInv
<1> QED BY <1>2, <1>3, <1>4, <1>5

LEMMA InitInv == Init => IInv
<1> SUFFICES ASSUME Init PROVE IInv
  OBVIOUS
<1> USE DEF Init
<1>1. \A x : ~Has(<<>>, x) /\ Once(<<>>, x) BY EmptyQueue
<1>2. TypeOK
  BY DEF TypeOK, Credentials, ClientLinks, CnxState, Session, NewSession, State, RejCause
<1>3. CredentialsAreThere BY DEF CredentialsAreThere
<1>4. OnlySent BY DEF OnlySent
<1>5. \A x : ~Pending(x) /\ ~Replied(x) /\ OncePending(x)
  BY <1>1 DEF Pending, Replied, OncePending
<1>6. ~Confirmed /\ ~RegConfirmed /\ session.state = "EMPTY"
  BY <1>5 DEF Confirmed, RegConfirmed, Past, NewSession
<1>7. OneConnection /\ ConfirmedByServer /\ LeavesWhenStopped
  BY <1>5, <1>6 DEF OneConnection, ConfirmedByServer, LeavesWhenStopped
<1>8. Orderly
  BY <1>5, <1>6 DEF Orderly, StoreFollowsState
<1> QED BY <1>2, <1>3, <1>4, <1>7, <1>8 DEF IInv

LEMMA NextInv == IInv /\ [Next]_vars => IInv'
<1> SUFFICES ASSUME IInv, [Next]_vars PROVE IInv'
  OBVIOUS
<1>1. CASE Network BY <1>1, NetworkInv
<1>2. CASE BackgroundThread
  BY <1>2, ControlStep, SendConnectionReqInv, SendRegistrationReqInv, ReceiveInv, PopAndSendInv,
     HandleMessageInv DEF BackgroundThread
<1>3. CASE UiThread BY <1>3, UiInv
<1>4. CASE UNCHANGED vars
  <2> USE <1>4 DEF vars, network, thread, shared
  <2>1. TypeOK' /\ CredentialsAreThere' BY DEF IInv, TypeOK, CredentialsAreThere
  <2>2. ControlKept
    BY DEF IInv, Orderly, ControlKept, Early, Confirmed, RegConfirmed, NotAsked,
         StoreFollowsState
  <2> QED BY <2>1, <2>2, ControlInv
<1> QED BY <1>1, <1>2, <1>3, <1>4 DEF Next, Ended

LEMMA InvariantHolds == Spec => []IInv
<1> QED BY InitInv, NextInv, PTL DEF Spec

-----------------------------------------------------------------------------
(* The theorems.                                                           *)

(* Every variable of the two threads keeps its type, and no registration   *)
(* goes out without a name and a password (sendRegistrationReq).           *)
THEOREM ClientTypeCorrect == Spec => []TypeOK
<1>1. IInv => TypeOK BY DEF IInv
<1> QED BY <1>1, InvariantHolds, PTL

(* No interleaving of the two threads makes an assertion of the server     *)
(* fail: handle_client_message of what the client sends.                   *)
THEOREM ServerNeverHarmed == Spec => []ServerUnharmed
<1>1. IInv => ServerUnharmed BY DEF IInv, OnlySent, ServerUnharmed
<1> QED BY <1>1, InvariantHolds, PTL

(* The states of the two ends always agree (setState against the handlers  *)
(* of ServerClientConnection), with messages that cross in any way.        *)
THEOREM BothEndsAlwaysAgree == Spec => []AgreesWithServer
<1>1. IInv => AgreesWithServer
  <2> SUFFICES ASSUME IInv PROVE AgreesWithServer
    OBVIOUS
  <2>1. StopCalled => ui_todo # UiCalls BY DEF StopCalled
  <2> QED BY <2>1 DEF IInv, AgreesWithServer, ConfirmedByServer, RegConfirmed, Confirmed, Past,
             LeavesWhenStopped
<1> QED BY <1>1, InvariantHolds, PTL

(* A client its user has not stopped never has a request refused: it asks  *)
(* once for a connection, and once for a registration after it has it.     *)
THEOREM NoRequestIsRefused == Spec => []NeverRejected
<1>1. IInv => NeverRejected
  BY DEF IInv, NeverRejected, Orderly, Replied, Has
<1> QED BY <1>1, InvariantHolds, PTL
=============================================================================
