----------------------- MODULE ServerRefinementProofs -----------------------
(***************************************************************************)
(* ServerRouter implements SessionService, for any clients, descriptors,   *)
(* messages and faults, and with any garbage in the uninitialised fields.  *)
(***************************************************************************)
EXTENDS ServerRefinement, ServerRouterProofs, SequenceTheorems

Promise == INSTANCE SessionServiceProofs WITH
  phase   <- [c \in Clients |-> Phase(c)],
  broken  <- [c \in Clients |-> Broken(c)],
  inbox   <- [c \in Clients |-> Inbox(c)],
  session <- [c \in Clients |-> SessionOf(c)],
  outbox  <- [c \in Clients |-> Outbox(c)]

-----------------------------------------------------------------------------
(* What the mapping needs of the kernel: a client is at one place only, in *)
(* the listen queue or behind one descriptor, and its connection is then   *)
(* neither to come nor over; a stopped object holds no message.            *)
Alive(c) == link[c] \notin {"idle", "gone"}

QueueSound ==
  /\ \A i \in 1 .. Len(backlog) : Alive(backlog[i])
  /\ \A i, j \in 1 .. Len(backlog) : backlog[i] = backlog[j] => i = j
TableSound ==
  /\ \A fd \in Fds : fdtab[fd] # NoClient => Alive(fdtab[fd])
  /\ \A fd, other \in Fds : fdtab[fd] = fdtab[other] => fdtab[fd] = NoClient \/ fd = other
OnePlace == \A i \in 1 .. Len(backlog), fd \in Fds : fdtab[fd] # backlog[i]
StoppedIsEmpty == \A fd \in socket_map : cnx[fd].rx_fifo # <<>> => cnx[fd].sock_open

KInv == QueueSound /\ TableSound /\ OnePlace /\ StoppedIsEmpty

LEMMA QueueTyped ==
  ASSUME IInv
  PROVE  /\ backlog \in Seq(Clients) /\ \A i \in 1 .. Len(backlog) : backlog[i] \in Clients
         /\ fdtab \in [Fds -> Clients \cup {NoClient}] /\ NoClient \notin Clients
         /\ socket_map \subseteq Fds /\ cnx \in [Fds -> Connection]
         /\ inbound \in [Clients -> Seq(Request)] /\ link \in [Clients -> Links]
BY ConstantsAssumption DEF IInv, TypeOK

(* Most steps give no descriptor and take none, and end no connection.     *)
LEMMA KeptKInv ==
  ASSUME IInv, KInv, UNCHANGED <<backlog, fdtab, socket_map>>,
         \A c \in Clients : Alive(c) => Alive(c)',
         \A fd \in socket_map : cnx'[fd].rx_fifo # <<>> => cnx'[fd].sock_open
  PROVE  KInv'
<1>1. QueueSound'
  BY QueueTyped DEF KInv, QueueSound
<1>2. TableSound'
  BY QueueTyped DEF KInv, TableSound
<1>3. OnePlace' /\ StoppedIsEmpty'
  BY DEF KInv, OnePlace, StoppedIsEmpty
<1> QED BY <1>1, <1>2, <1>3 DEF KInv

(* A step of the thread that neither reads, handles nor sends.             *)
Quiet == UNCHANGED <<link, inbound, received, nb_req, backlog, fdtab, socket_map, cnx>>

LEMMA QuietKInv == ASSUME IInv, KInv, Quiet PROVE KInv'
BY KeptKInv DEF Quiet, Alive, KInv, StoppedIsEmpty

LEMMA QuietSteps ==
  ASSUME \/ NoPendingConnection \/ AcceptError \/ Select \/ StartReceptions \/ StartEmissions
         \/ EndEmissions \/ CheckCount \/ EndCycle \/ Aborted
         \/ \E fd \in 0 .. LastFd : \/ EndReception(fd) \/ EmissionOutOfRange(fd)
                                    \/ EmissionAfterBlocked(fd) \/ EmissionDisconnected(fd)
  PROVE  Quiet
<1>1. CASE NoPendingConnection \/ AcceptError \/ Select \/ CheckCount \/ EndCycle \/ Aborted
  BY <1>1 DEF NoPendingConnection, AcceptError, Select, CheckCount, EndCycle, Aborted, vars,
     Quiet, net, router
<1>2. CASE StartReceptions \/ StartEmissions \/ EndEmissions
  BY <1>2 DEF StartReceptions, StartEmissions, EndEmissions, NextList, Quiet, net, router
<1>3. ASSUME NEW fd \in 0 .. LastFd,
             \/ EndReception(fd) \/ EmissionOutOfRange(fd)
             \/ EmissionAfterBlocked(fd) \/ EmissionDisconnected(fd)
      PROVE  Quiet
  BY <1>3 DEF EndReception, EmissionOutOfRange, EmissionAfterBlocked, EmissionDisconnected, Sending,
     Quiet, net, router
<1> QED BY <1>1, <1>2, <1>3

-----------------------------------------------------------------------------
(* The mapping, seen from one client.                                      *)
View(c) == <<Phase(c), Broken(c), Inbox(c), SessionOf(c), Outbox(c)>>

(* A client has one open object at most, which is the one chosen.          *)
OneCnx ==
  \A c \in Clients, fd \in Fds :
     IsCnxOf(fd, c) => HasCnx(c) /\ CnxOf(c) = cnx[fd] /\ fdtab[fd] = c /\ Alive(c)

LEMMA OneCnxHolds == IInv /\ KInv => OneCnx
<1> SUFFICES ASSUME IInv, KInv, NEW c \in Clients, NEW fd \in Fds, IsCnxOf(fd, c)
             PROVE  HasCnx(c) /\ CnxOf(c) = cnx[fd] /\ fdtab[fd] = c /\ Alive(c)
  BY DEF OneCnx
<1>1. \A other \in Fds : IsCnxOf(other, c) => fdtab[other] = c
  BY DEF IsCnxOf, IInv, DescriptorIsClients
<1>2. \A other \in Fds : IsCnxOf(other, c) => other = fd
  BY <1>1, QueueTyped DEF KInv, TableSound
<1>3. (CHOOSE other \in Fds : IsCnxOf(other, c)) = fd
  BY <1>2
<1>4. fdtab[fd] = c /\ Alive(c)
  BY <1>1, QueueTyped DEF KInv, TableSound
<1> QED BY <1>3, <1>4 DEF HasCnx, CnxOf

(* What the service shows of a client with an open object, and without.    *)
ViewOfOpen ==
  \A c \in Clients, fd \in Fds :
     IsCnxOf(fd, c) => /\ Phase(c) = "open" /\ SessionOf(c) = cnx[fd].session
                       /\ Inbox(c) = cnx[fd].rx_fifo \o inbound[c] /\ Outbox(c) = Unsent(cnx[fd])
ViewOfNone ==
  \A c \in Clients :
     (\A fd \in Fds : ~IsCnxOf(fd, c)) =>
        /\ Phase(c) = IF link[c] = "gone" THEN "lost" ELSE "waiting"
        /\ SessionOf(c) = NewSession /\ Inbox(c) = inbound[c] /\ Outbox(c) = <<>>

LEMMA Views == IInv /\ KInv => ViewOfOpen /\ ViewOfNone
<1> SUFFICES ASSUME IInv, KInv PROVE ViewOfOpen /\ ViewOfNone
  OBVIOUS
<1>1. ViewOfOpen
  BY OneCnxHolds DEF ViewOfOpen, OneCnx, Phase, Inbox, SessionOf, Outbox
<1>2. ViewOfNone
  <2> SUFFICES ASSUME NEW c \in Clients, \A fd \in Fds : ~IsCnxOf(fd, c)
               PROVE  /\ Phase(c) = IF link[c] = "gone" THEN "lost" ELSE "waiting"
                      /\ SessionOf(c) = NewSession /\ Inbox(c) = inbound[c] /\ Outbox(c) = <<>>
    BY DEF ViewOfNone
  <2>1. ~HasCnx(c)
    BY DEF HasCnx
  <2>2. <<>> \o inbound[c] = inbound[c]
    BY QueueTyped
  <2> QED BY <2>1, <2>2 DEF Phase, Inbox, SessionOf, Outbox
<1> QED BY <1>1, <1>2

LEMMA ViewsNext == (IInv /\ KInv)' => ViewOfOpen' /\ ViewOfNone' /\ OneCnx'
BY Views, OneCnxHolds, PTL

(* The view of a client depends on its open object and its connection.     *)
LEMMA SameView ==
  ASSUME IInv, KInv, IInv', KInv', NEW c \in Clients,
         Broken(c)' = Broken(c), (link'[c] = "gone") = (link[c] = "gone"), inbound'[c] = inbound[c],
         \A fd \in Fds : IsCnxOf(fd, c)' = IsCnxOf(fd, c),
         \A fd \in Fds : IsCnxOf(fd, c) => /\ cnx'[fd].session = cnx[fd].session
                                           /\ cnx'[fd].rx_fifo = cnx[fd].rx_fifo
                                           /\ Unsent(cnx'[fd]) = Unsent(cnx[fd])
  PROVE  View(c)' = View(c)
<1>1. CASE \E fd \in Fds : IsCnxOf(fd, c)
  <2>1. PICK fd \in Fds : IsCnxOf(fd, c) /\ IsCnxOf(fd, c)'
    BY <1>1
  <2>2. /\ Phase(c)' = "open" /\ SessionOf(c)' = cnx'[fd].session
        /\ Inbox(c)' = cnx'[fd].rx_fifo \o inbound'[c] /\ Outbox(c)' = Unsent(cnx'[fd])
    BY <2>1, ViewsNext DEF ViewOfOpen, Unsent
  <2> QED BY <2>1, <2>2, Views DEF View, ViewOfOpen
<1>2. CASE \A fd \in Fds : ~IsCnxOf(fd, c)
  <2>1. /\ Phase(c)' = IF link'[c] = "gone" THEN "lost" ELSE "waiting"
        /\ SessionOf(c)' = NewSession
        /\ Inbox(c)' = inbound'[c] /\ Outbox(c)' = <<>>
    BY <1>2, ViewsNext DEF ViewOfNone
  <2> QED BY <1>2, <2>1, Views DEF View, ViewOfNone
<1> QED BY <1>1, <1>2

-----------------------------------------------------------------------------
(* The handlers of the service are those of the server.                    *)
LEMMA SameHandlers ==
  /\ Promise!NewSession = NewSession /\ Service!NewSession = NewSession
  /\ \A s, m : /\ Promise!handle_client_message(s, m) = handle_client_message(s, m)
              /\ Service!handle_client_message(s, m) = handle_client_message(s, m)
<1>1. Promise!NewSession = NewSession /\ Service!NewSession = NewSession
  BY DEF Promise!NewSession, Service!NewSession, NewSession
<1> USE DEF Outcome, Answer, Msg
<1>2. ASSUME NEW s, NEW m
      PROVE  Promise!handle_client_message(s, m) = handle_client_message(s, m)
  <2> USE DEF Promise!Outcome, Promise!Answer, Promise!Msg
  <2>1. Promise!handleConnectionReq(s, m) = handleConnectionReq(s, m)
    BY DEF Promise!handleConnectionReq, handleConnectionReq
  <2>2. Promise!handleRegistrationReq(s) = handleRegistrationReq(s)
    BY DEF Promise!handleRegistrationReq, handleRegistrationReq, Promise!known_user, known_user,
       Promise!correct_email, correct_email
  <2>3. Promise!handleUserLoginReq(s) = handleUserLoginReq(s)
    BY DEF Promise!handleUserLoginReq, handleUserLoginReq, Promise!known_user, known_user,
       Promise!passwd_ok, passwd_ok
  <2>4. /\ Promise!handleDisconnectionReq(s, m) = handleDisconnectionReq(s, m)
        /\ Promise!handleDisconnectionCnf(s) = handleDisconnectionCnf(s)
    BY DEF Promise!handleDisconnectionReq, handleDisconnectionReq,
       Promise!handleDisconnectionCnf, handleDisconnectionCnf
  <2> QED BY <2>1, <2>2, <2>3, <2>4 DEF Promise!handle_client_message, handle_client_message
<1>3. ASSUME NEW s, NEW m
      PROVE  Service!handle_client_message(s, m) = handle_client_message(s, m)
  <2> USE DEF Service!Outcome, Service!Answer, Service!Msg
  <2>1. Service!handleConnectionReq(s, m) = handleConnectionReq(s, m)
    BY DEF Service!handleConnectionReq, handleConnectionReq
  <2>2. Service!handleRegistrationReq(s) = handleRegistrationReq(s)
    BY DEF Service!handleRegistrationReq, handleRegistrationReq, Service!known_user, known_user,
       Service!correct_email, correct_email
  <2>3. Service!handleUserLoginReq(s) = handleUserLoginReq(s)
    BY DEF Service!handleUserLoginReq, handleUserLoginReq, Service!known_user, known_user,
       Service!passwd_ok, passwd_ok
  <2>4. /\ Service!handleDisconnectionReq(s, m) = handleDisconnectionReq(s, m)
        /\ Service!handleDisconnectionCnf(s) = handleDisconnectionCnf(s)
    BY DEF Service!handleDisconnectionReq, handleDisconnectionReq,
       Service!handleDisconnectionCnf, handleDisconnectionCnf
  <2> QED BY <2>1, <2>2, <2>3, <2>4 DEF Service!handle_client_message, handle_client_message
<1> QED BY <1>1, <1>2, <1>3

-----------------------------------------------------------------------------
(* The steps of the service, told from the views of the clients.           *)
OthersSame(c) == \A d \in Clients \ {c} : View(d)' = View(d)

LEMMA MapsToStutter ==
  ASSUME \A c \in Clients : View(c)' = View(c), UNCHANGED <<received, nb_req>>
  PROVE  UNCHANGED Promise!vars
BY DEF View, Promise!vars

LEMMA MapsToOpen ==
  ASSUME NEW c \in Clients, OthersSame(c), UNCHANGED <<received, nb_req>>,
         Phase(c) = "waiting", Phase(c)' = "open", Broken(c)' = Broken(c), Inbox(c)' = Inbox(c),
         SessionOf(c)' = SessionOf(c), Outbox(c)' = Outbox(c)
  PROVE  Promise!Open(c)
BY DEF OthersSame, View, Promise!Open

LEMMA MapsToAsk ==
  ASSUME NEW c \in Clients, NEW m \in ClientMsgs, OthersSame(c), UNCHANGED received,
         nb_req' = [nb_req EXCEPT ![c] = @ + 1],
         ~Broken(c), Broken(c)' = Broken(c), Inbox(c)' = Append(Inbox(c), m),
         Phase(c)' = Phase(c), SessionOf(c)' = SessionOf(c), Outbox(c)' = Outbox(c)
  PROVE  Promise!Ask(c, m)
BY DEF OthersSame, View, Promise!Ask

LEMMA MapsToHandle ==
  ASSUME NEW c \in Clients, OthersSame(c), UNCHANGED <<received, nb_req>>,
         Phase(c) = "open", Phase(c)' = "open", Broken(c)' = Broken(c),
         Inbox(c) # <<>>, Inbox(c)' = Tail(Inbox(c)),
         SessionOf(c)' = handle_client_message(SessionOf(c), Head(Inbox(c))).session,
         Outbox(c)' = Outbox(c) \o handle_client_message(SessionOf(c), Head(Inbox(c))).sent
  PROVE  Promise!Handle(c)
BY SameHandlers DEF OthersSame, View, Promise!Handle

LEMMA MapsToDeliver ==
  ASSUME NEW c \in Clients, OthersSame(c), UNCHANGED nb_req,
         received' = [received EXCEPT ![c] = Append(@, Head(Outbox(c)))],
         Phase(c) = "open", Phase(c)' = "open", Broken(c)' = Broken(c),
         Outbox(c) # <<>>, Outbox(c)' = Tail(Outbox(c)),
         Inbox(c)' = Inbox(c), SessionOf(c)' = SessionOf(c)
  PROVE  Promise!Deliver(c)
BY DEF OthersSame, View, Promise!Deliver

LEMMA MapsToBreak ==
  ASSUME NEW c \in Clients, OthersSame(c), UNCHANGED <<received, nb_req>>,
         ~Broken(c), Broken(c)', Phase(c)' = Phase(c), Inbox(c)' = Inbox(c),
         SessionOf(c)' = SessionOf(c), Outbox(c)' = Outbox(c)
  PROVE  Promise!Break(c)
BY DEF OthersSame, View, Promise!Break, Broken

LEMMA MapsToLose ==
  ASSUME NEW c \in Clients, OthersSame(c), UNCHANGED <<received, nb_req>>,
         Phase(c) = "open", Broken(c), Broken(c)' = Broken(c), Phase(c)' = "lost",
         Inbox(c)' = <<>>, SessionOf(c)' = NewSession, Outbox(c)' = <<>>
  PROVE  Promise!Lose(c)
BY SameHandlers DEF OthersSame, View, Promise!Lose

ServiceStep == [Promise!Next]_(Promise!vars)

LEMMA ServiceSteps ==
  ASSUME NEW c \in Clients,
         \/ Promise!Open(c) \/ Promise!Handle(c) \/ Promise!Deliver(c) \/ Promise!Break(c)
         \/ Promise!Lose(c) \/ \E m \in ClientMsgs : Promise!Ask(c, m)
  PROVE  ServiceStep
BY DEF ServiceStep, Promise!Next

-----------------------------------------------------------------------------
(* The steps of the server that the service does not notice.               *)
LEMMA QuietStep == ASSUME IInv, KInv, IInv', Quiet PROVE KInv' /\ ServiceStep
<1>1. KInv'
  BY QuietKInv
<1>2. \A c \in Clients : View(c)' = View(c)
  BY <1>1, SameView DEF Quiet, Broken, IsCnxOf
<1> QED BY <1>1, <1>2, MapsToStutter DEF Quiet, ServiceStep

(* The owner of a descriptor in the map whose object is open.              *)
LEMMA OwnerOf ==
  ASSUME IInv, KInv, NEW fd \in socket_map, cnx[fd].sock_open
  PROVE  /\ fd \in Fds /\ fdtab[fd] \in Clients /\ IsCnxOf(fd, fdtab[fd]) /\ Alive(fdtab[fd])
         /\ \A c \in Clients, other \in Fds : IsCnxOf(other, c) => (other = fd <=> c = fdtab[fd])
<1>1. fd \in Fds /\ fdtab[fd] \in Clients /\ IsCnxOf(fd, fdtab[fd])
  BY QueueTyped DEF IInv, OwnersAreClients, DescriptorIsClients, IsCnxOf
<1>2. Alive(fdtab[fd])
  BY <1>1, OneCnxHolds DEF OneCnx
<1>3. \A c \in Clients, other \in Fds : IsCnxOf(other, c) => fdtab[other] = c
  BY OneCnxHolds DEF OneCnx
<1> QED BY <1>1, <1>2, <1>3, QueueTyped DEF KInv, TableSound

(* Only the object of one descriptor changes, and no connection.           *)
LEMMA OneObject ==
  ASSUME IInv, KInv, IInv', UNCHANGED <<backlog, fdtab, socket_map>>, NEW fd \in socket_map,
         \A s \in Fds \ {fd} : cnx'[s] = cnx[s],
         cnx'[fd].addr = cnx[fd].addr, cnx'[fd].sock_open = cnx[fd].sock_open,
         cnx'[fd].rx_fifo # <<>> => cnx[fd].sock_open,
         \A c \in Clients : (Alive(c) <=> Alive(c)') /\ (link'[c] = "gone" <=> link[c] = "gone")
  PROVE  /\ KInv'
         /\ \A c \in Clients : c # fdtab[fd] /\ inbound'[c] = inbound[c] /\ Broken(c)' = Broken(c)
                                  => View(c)' = View(c)
         /\ ~cnx[fd].sock_open => \A c \in Clients : inbound'[c] = inbound[c] /\ Broken(c)' = Broken(c)
                                  => View(c)' = View(c)
<1>1. fd \in Fds /\ socket_map \subseteq Fds
  BY QueueTyped
<1>2. KInv'
  <2>1. \A s \in socket_map : cnx'[s].rx_fifo # <<>> => cnx'[s].sock_open
    BY <1>1 DEF KInv, StoppedIsEmpty
  <2> QED BY <2>1, KeptKInv
<1>3. \A c \in Clients, s \in Fds : IsCnxOf(s, c)' = IsCnxOf(s, c)
  BY <1>1 DEF IsCnxOf
<1>4. \A c \in Clients, s \in Fds : IsCnxOf(s, c) => fdtab[s] = c
  BY OneCnxHolds DEF OneCnx
<1>5. ASSUME NEW c \in Clients, inbound'[c] = inbound[c], Broken(c)' = Broken(c),
             c # fdtab[fd] \/ ~cnx[fd].sock_open
      PROVE  View(c)' = View(c)
  <2>1. \A s \in Fds : IsCnxOf(s, c) => cnx'[s] = cnx[s]
    BY <1>4, <1>5 DEF IsCnxOf
  <2> QED BY <1>2, <1>3, <1>5, <2>1, SameView
<1> QED BY <1>2, <1>5

(* The client of the object, when it is open.                              *)
LEMMA OwnView ==
  ASSUME IInv, KInv, IInv', KInv', NEW fd \in Fds, NEW c \in Clients, IsCnxOf(fd, c), IsCnxOf(fd, c)'
  PROVE  /\ Phase(c) = "open" /\ SessionOf(c) = cnx[fd].session
         /\ Inbox(c) = cnx[fd].rx_fifo \o inbound[c] /\ Outbox(c) = Unsent(cnx[fd])
         /\ Phase(c)' = "open" /\ SessionOf(c)' = cnx'[fd].session
         /\ Inbox(c)' = cnx'[fd].rx_fifo \o inbound'[c] /\ Outbox(c)' = Unsent(cnx'[fd])
<1>1. Unsent(cnx[fd])' = Unsent(cnx'[fd])
  BY DEF Unsent
<1> QED BY <1>1, Views, ViewsNext DEF ViewOfOpen

-----------------------------------------------------------------------------
(* The clients and the network.                                            *)
LEMMA NetworkStep == ASSUME IInv, KInv, IInv', Network PROVE KInv' /\ ServiceStep
<1>1. /\ UNCHANGED <<socket_map, cnx, received, fdtab>>
      /\ \A c \in Clients, fd \in Fds : IsCnxOf(fd, c)' = IsCnxOf(fd, c)
  BY DEF Network, router, IsCnxOf, Connect, Close, Reset, AnswerRst, Fail, Break, Fill, Send
<1>2. \A fd \in socket_map : cnx'[fd].rx_fifo # <<>> => cnx'[fd].sock_open
  BY <1>1 DEF KInv, StoppedIsEmpty
<1>3. ASSUME KInv', NEW d \in Clients, Broken(d)' = Broken(d),
             (link'[d] = "gone") = (link[d] = "gone"), inbound'[d] = inbound[d]
      PROVE  View(d)' = View(d)
  BY <1>1, <1>3, SameView
<1>4. ASSUME NEW c \in Clients, Connect(c) PROVE KInv' /\ ServiceStep
  <2>1. /\ link[c] = "idle" /\ link' = [link EXCEPT ![c] = "open"] /\ backlog' = Append(backlog, c)
        /\ UNCHANGED <<inbound, nb_req, fdtab>>
    BY <1>4 DEF Connect
  <2>2. \A d \in Clients : (Alive(d) => Alive(d)') /\ (link'[d] = "gone") = (link[d] = "gone")
                           /\ Broken(d)' = Broken(d)
    BY <2>1, QueueTyped DEF Alive, Broken
  <2>3. Alive(c)' /\ ~Alive(c)
    BY <2>1, QueueTyped DEF Alive
  <2>4. \A i \in 1 .. Len(backlog') : (i \in 1 .. Len(backlog) /\ backlog'[i] = backlog[i])
                                      \/ (i = Len(backlog) + 1 /\ backlog'[i] = c)
    BY <2>1, QueueTyped
  <2>5. Len(backlog) \in Nat /\ \A i \in 1 .. Len(backlog) : backlog[i] # c /\ Alive(backlog[i])
    BY <2>3, QueueTyped DEF KInv, QueueSound
  <2>6. QueueSound'
    <3>1. \A i \in 1 .. Len(backlog') : link'[backlog'[i]] \notin {"idle", "gone"}
      BY <2>2, <2>3, <2>4, <2>5, QueueTyped DEF Alive
    <3>2. \A i, j \in 1 .. Len(backlog') : backlog'[i] = backlog'[j] => i = j
      BY <2>4, <2>5 DEF KInv, QueueSound
    <3> QED BY <3>1, <3>2 DEF QueueSound, Alive
  <2>7. TableSound'
    BY <2>1, <2>2, QueueTyped DEF KInv, TableSound
  <2>8. OnePlace'
    <3>1. \A fd \in Fds : fdtab[fd] # c
      BY <2>3, QueueTyped DEF KInv, TableSound
    <3> QED BY <2>1, <2>4, <3>1 DEF KInv, OnePlace
  <2>9. KInv'
    BY <1>1, <2>6, <2>7, <2>8 DEF KInv, StoppedIsEmpty
  <2> QED BY <1>1, <1>3, <2>1, <2>2, <2>9, MapsToStutter DEF ServiceStep
<1>5. ASSUME NEW c \in Clients, NEW m \in ClientMsgs, Send(c, m) PROVE KInv' /\ ServiceStep
  <2>1. /\ link[c] = "open" /\ inbound' = [inbound EXCEPT ![c] = Append(@, m)]
        /\ nb_req' = [nb_req EXCEPT ![c] = @ + 1] /\ UNCHANGED <<link, backlog>>
    BY <1>5 DEF Send
  <2>2. KInv'
    BY <1>1, <1>2, <2>1, KeptKInv DEF Alive
  <2>3. OthersSame(c)
    BY <1>3, <2>1, <2>2, QueueTyped DEF OthersSame, Broken
  <2>4. m \in Request /\ inbound[c] \in Seq(Request) /\ inbound'[c] = Append(inbound[c], m)
    BY <2>1, QueueTyped, ConstantsAssumption
  <2>5. ~Broken(c) /\ Broken(c)' = Broken(c)
    BY <2>1 DEF Broken
  <2>6. CASE \E fd \in Fds : IsCnxOf(fd, c)
    <3>1. PICK fd \in Fds : IsCnxOf(fd, c) /\ IsCnxOf(fd, c)'
      BY <1>1, <2>6
    <3>2. cnx'[fd] = cnx[fd] /\ cnx[fd].rx_fifo \in Seq(Request)
      BY <1>1, QueueTyped DEF Connection
    <3>3. cnx[fd].rx_fifo \o Append(inbound[c], m) = Append(cnx[fd].rx_fifo \o inbound[c], m)
      <4>1. \A a, b \in Seq(Request), r \in Request : a \o Append(b, r) = Append(a \o b, r)
        OBVIOUS
      <4> QED BY <2>4, <3>2, <4>1, Zenon
    <3> QED BY <1>1, <2>1, <2>2, <2>3, <2>4, <2>5, <3>1, <3>2, <3>3, OwnView, MapsToAsk, ServiceSteps
  <2>7. CASE \A fd \in Fds : ~IsCnxOf(fd, c)
    BY <1>1, <2>1, <2>2, <2>3, <2>4, <2>5, <2>7, Views, ViewsNext, MapsToAsk, ServiceSteps
       DEF ViewOfNone
  <2> QED BY <2>6, <2>7
<1>6. ASSUME NEW c \in Clients, Close(c) \/ AnswerRst(c) \/ Fail(c) \/ Fill(c)
      PROVE  KInv' /\ ServiceStep
  <2>1. UNCHANGED <<backlog, nb_req, inbound>>
    BY <1>6 DEF Close, AnswerRst, Fail, Break, Fill
  <2>2. \A d \in Clients : (Alive(d) => Alive(d)') /\ (link'[d] = "gone") = (link[d] = "gone")
                           /\ Broken(d)' = Broken(d)
    BY <1>6, QueueTyped DEF Close, AnswerRst, Fail, Break, Fill, Alive, Broken
  <2>3. KInv'
    BY <1>1, <1>2, <2>1, <2>2, KeptKInv
  <2> QED BY <1>1, <1>3, <2>1, <2>2, <2>3, MapsToStutter DEF ServiceStep
<1>7. ASSUME NEW c \in Clients, Reset(c) PROVE KInv' /\ ServiceStep
  <2>1. /\ link[c] = "open" /\ link' = [link EXCEPT ![c] = "rst"]
        /\ UNCHANGED <<backlog, nb_req, inbound>>
    BY <1>7 DEF Reset, Break
  <2>2. \A d \in Clients : (Alive(d) => Alive(d)') /\ (link'[d] = "gone") = (link[d] = "gone")
                           /\ (d # c => Broken(d)' = Broken(d))
    BY <2>1, QueueTyped DEF Alive, Broken
  <2>3. KInv'
    BY <1>1, <1>2, <2>1, <2>2, KeptKInv
  <2>4. OthersSame(c)
    BY <1>3, <2>1, <2>2, <2>3 DEF OthersSame
  <2>5. ~Broken(c) /\ Broken(c)'
    BY <2>1, QueueTyped DEF Broken
  <2>6. Phase(c)' = Phase(c) /\ Inbox(c)' = Inbox(c) /\ SessionOf(c)' = SessionOf(c) /\ Outbox(c)' = Outbox(c)
    <3>1. CASE \E fd \in Fds : IsCnxOf(fd, c)
      BY <1>1, <2>1, <2>3, <3>1, OwnView
    <3>2. CASE \A fd \in Fds : ~IsCnxOf(fd, c)
      BY <1>1, <2>1, <2>2, <2>3, <3>2, Views, ViewsNext DEF ViewOfNone
    <3> QED BY <3>1, <3>2
  <2> QED BY <1>1, <2>1, <2>3, <2>4, <2>5, <2>6, MapsToBreak, ServiceSteps
<1> QED BY <1>4, <1>5, <1>6, <1>7 DEF Network

(* A client is accepted: its object is the only one with its address.      *)
LEMMA AcceptStep == ASSUME IInv, KInv, IInv', AcceptConnection PROVE KInv' /\ ServiceStep
<1>0. PICK c \in Clients : c = Head(backlog)
  BY QueueTyped DEF AcceptConnection
<1>1. PICK fd \in Fds : /\ fdtab[fd] = NoClient
                        /\ fdtab' = [fdtab EXCEPT ![fd] = c]
                        /\ CreateClientConnection(fd, c)
  BY <1>0 DEF AcceptConnection
<1>2. /\ backlog # <<>> /\ backlog' = Tail(backlog)
      /\ UNCHANGED <<link, inbound, received, nb_req>>
  BY DEF AcceptConnection
<1>3. /\ c = backlog[1] /\ Len(backlog) \in Nat /\ Len(backlog) >= 1
      /\ \A i \in 1 .. Len(backlog') : i + 1 \in 1 .. Len(backlog) /\ backlog'[i] = backlog[i + 1]
  BY <1>0, <1>2, QueueTyped
<1>4. Alive(c) /\ (\A s \in Fds : fdtab[s] # c) /\ (\A i \in 1 .. Len(backlog') : backlog'[i] # c)
  BY <1>3 DEF KInv, QueueSound, OnePlace
<1>5. /\ \A d \in Clients : Alive(d)' = Alive(d) /\ Broken(d)' = Broken(d)
      /\ fdtab'[fd] = c /\ \A s \in Fds : s # fd => fdtab'[s] = fdtab[s]
  BY <1>1, <1>2, QueueTyped DEF Alive, Broken
<1>6. QueueSound' /\ TableSound' /\ OnePlace'
  <2>1. QueueSound'
    <3>1. \A i \in 1 .. Len(backlog') : link[backlog'[i]] \notin {"idle", "gone"}
      BY <1>3 DEF KInv, QueueSound, Alive
    <3>2. ASSUME NEW i \in 1 .. Len(backlog'), NEW j \in 1 .. Len(backlog'),
                 backlog'[i] = backlog'[j]
          PROVE  i = j
      <4>1. /\ i + 1 \in 1 .. Len(backlog) /\ backlog'[i] = backlog[i + 1]
            /\ j + 1 \in 1 .. Len(backlog) /\ backlog'[j] = backlog[j + 1]
        BY <1>3
      <4>2. i + 1 = j + 1
        BY <3>2, <4>1 DEF KInv, QueueSound
      <4>3. i \in Int /\ j \in Int
        OBVIOUS
      <4> QED BY <4>2, <4>3
    <3>3. link' = link
      BY <1>2
    <3> QED BY <3>1, <3>2, <3>3 DEF QueueSound, Alive
  <2>2. TableSound'
    <3>1. /\ \A s \in Fds : fdtab[s] # NoClient => link[fdtab[s]] \notin {"idle", "gone"}
          /\ \A s, t \in Fds : fdtab[s] = fdtab[t] => fdtab[s] = NoClient \/ s = t
      BY DEF KInv, TableSound, Alive
    <3>2. link' = link /\ link[c] \notin {"idle", "gone"}
      BY <1>2, <1>4 DEF Alive
    <3> QED BY <1>4, <1>5, <3>1, <3>2 DEF TableSound, Alive
  <2>3. OnePlace'
    BY <1>3, <1>4, <1>5 DEF KInv, OnePlace
  <2> QED BY <2>1, <2>2, <2>3
<1>7. CASE fd \in clientsocks_fds
  <2>1. UNCHANGED <<socket_map, cnx>>
    BY <1>1, <1>7 DEF CreateClientConnection, router
  <2>2. KInv'
    BY <1>6, <2>1 DEF KInv, StoppedIsEmpty
  <2>3. \A d \in Clients : View(d)' = View(d)
    BY <1>2, <1>5, <2>1, <2>2, SameView DEF IsCnxOf
  <2> QED BY <1>2, <2>2, <2>3, MapsToStutter DEF ServiceStep
<1>8. CASE fd \notin clientsocks_fds
  <2>1. cnx' = [cnx EXCEPT ![fd] = NewConnection(c)] /\ socket_map' = socket_map \cup {fd}
    BY <1>1, <1>8 DEF CreateClientConnection
  <2>2. /\ cnx'[fd] = NewConnection(c) /\ fd \notin socket_map
        /\ \A s \in Fds : s # fd => cnx'[s] = cnx[s]
    BY <1>8, <2>1, QueueTyped DEF IInv, MapIsBitmap
  <2>3. cnx'[fd].addr = c /\ cnx'[fd].sock_open /\ cnx'[fd].session = NewSession
        /\ cnx'[fd].rx_fifo = <<>> /\ Unsent(cnx'[fd]) = <<>>
    <3>1. NoReq \notin Reply
      BY DEF NoReq, Reply, Msg
    <3> QED BY <2>2, <3>1 DEF NewConnection, Unsent
  <2>4. KInv'
    BY <1>6, <2>1, <2>2, <2>3, QueueTyped DEF KInv, StoppedIsEmpty
  <2>5. \A d \in Clients, s \in Fds :
           IsCnxOf(s, d)' <=> IF s = fd THEN d = c ELSE IsCnxOf(s, d)
    BY <2>1, <2>2, <2>3 DEF IsCnxOf
  <2>6. OthersSame(c)
    <3>1. \A d \in Clients \ {c}, s \in Fds : IsCnxOf(s, d)' = IsCnxOf(s, d)
      BY <2>2, <2>5 DEF IsCnxOf
    <3>2. \A d \in Clients \ {c}, s \in Fds : IsCnxOf(s, d) => cnx'[s] = cnx[s]
      BY <2>2 DEF IsCnxOf
    <3> QED BY <1>2, <1>5, <2>4, <3>1, <3>2, SameView DEF OthersSame
  <2>7. \A s \in Fds : ~IsCnxOf(s, c)
    BY <1>3, <1>4, OneCnxHolds DEF OneCnx
  <2>8. /\ Phase(c) = "waiting" /\ SessionOf(c) = NewSession /\ Inbox(c) = inbound[c]
        /\ Outbox(c) = <<>>
    BY <1>3, <1>4, <2>7, Views DEF ViewOfNone, Alive
  <2>9. /\ Phase(c)' = "open" /\ SessionOf(c)' = NewSession /\ Inbox(c)' = inbound[c]
        /\ Outbox(c)' = <<>>
    <3>1. IsCnxOf(fd, c)'
      BY <1>3, <2>5
    <3>2. <<>> \o inbound[c] = inbound[c]
      BY <1>3, QueueTyped
    <3>3. Unsent(cnx[fd])' = Unsent(cnx'[fd])
      BY DEF Unsent
    <3> QED BY <1>2, <1>3, <2>3, <2>4, <3>1, <3>2, <3>3, ViewsNext DEF ViewOfOpen
  <2> QED BY <1>2, <1>3, <1>5, <2>4, <2>6, <2>8, <2>9, MapsToOpen, ServiceSteps
<1> QED BY <1>7, <1>8

-----------------------------------------------------------------------------
(* The errors and the receptions.                                          *)
LEMMA LoseStep ==
  ASSUME IInv, KInv, IInv', NEW fd \in socket_map, cnx[fd].sock_open, link[fdtab[fd]] = "rst",
         socketDisconnected(fd), UNCHANGED socket_map
  PROVE  KInv' /\ ServiceStep
<1>0. PICK c \in Clients : c = fdtab[fd]
  BY OwnerOf
<1>1. /\ fd \in Fds /\ IsCnxOf(fd, c) /\ Alive(c) /\ link[c] = "rst"
      /\ \A d \in Clients, s \in Fds : IsCnxOf(s, d) => (s = fd <=> d = c)
  BY <1>0, OwnerOf
<1>2. /\ cnx' = [cnx EXCEPT ![fd] = Stopped(@, "DISCONNECTED")]
      /\ link' = [link EXCEPT ![c] = "gone"]
      /\ inbound' = [inbound EXCEPT ![c] = <<>>]
      /\ fdtab' = [fdtab EXCEPT ![fd] = NoClient]
      /\ UNCHANGED <<received, nb_req, backlog, socket_map>>
  BY <1>0 DEF socketDisconnected
<1>3. cnx'[fd].rx_fifo = <<>> /\ ~cnx'[fd].sock_open
  <2>1. cnx[fd] \in Connection /\ cnx'[fd] = Stopped(cnx[fd], "DISCONNECTED")
    BY <1>1, <1>2, QueueTyped
  <2> QED BY <2>1 DEF Stopped, Connection
<1>4. /\ link'[c] = "gone" /\ inbound'[c] = <<>> /\ fdtab'[fd] = NoClient
      /\ \A d \in Clients : d # c => link'[d] = link[d] /\ inbound'[d] = inbound[d]
      /\ \A s \in Fds : s # fd => fdtab'[s] = fdtab[s] /\ cnx'[s] = cnx[s]
  BY <1>1, <1>2, QueueTyped
<1>5. KInv'
  <2>1. \A i \in 1 .. Len(backlog) : backlog[i] # c
    BY <1>0, <1>1 DEF KInv, OnePlace
  <2>2. QueueSound'
    BY <1>2, <1>4, <2>1, QueueTyped DEF KInv, QueueSound, Alive
  <2>3. TableSound'
    <3>1. \A s \in Fds : s # fd => fdtab[s] # c
      BY <1>0, <1>1, QueueTyped DEF KInv, TableSound
    <3>2. /\ \A s \in Fds : fdtab[s] # NoClient => link[fdtab[s]] \notin {"idle", "gone"}
          /\ \A s, t \in Fds : fdtab[s] = fdtab[t] => fdtab[s] = NoClient \/ s = t
      BY DEF KInv, TableSound, Alive
    <3>3. \A s \in Fds : s # fd /\ fdtab[s] # NoClient => fdtab[s] \in Clients /\ fdtab'[s] = fdtab[s]
                                                       /\ link'[fdtab[s]] = link[fdtab[s]]
      BY <1>4, <3>1, QueueTyped
    <3>4. \A s \in Fds : fdtab'[s] # NoClient => link'[fdtab'[s]] \notin {"idle", "gone"}
      BY <1>4, <3>2, <3>3
    <3>5. \A s, t \in Fds : fdtab'[s] = fdtab'[t] => fdtab'[s] = NoClient \/ s = t
      BY <1>4, <3>2
    <3> QED BY <3>4, <3>5 DEF TableSound, Alive
  <2>4. OnePlace'
    BY <1>2, <1>4, QueueTyped DEF KInv, OnePlace
  <2>5. StoppedIsEmpty'
    BY <1>2, <1>3, <1>4, QueueTyped DEF KInv, StoppedIsEmpty
  <2> QED BY <2>2, <2>3, <2>4, <2>5 DEF KInv
<1>6. \A d \in Clients, s \in Fds : IsCnxOf(s, d)' <=> (s # fd /\ IsCnxOf(s, d))
  BY <1>2, <1>3, <1>4 DEF IsCnxOf
<1>7. OthersSame(c)
  <2>1. \A d \in Clients \ {c}, s \in Fds : IsCnxOf(s, d)' = IsCnxOf(s, d)
    BY <1>1, <1>6 DEF IsCnxOf
  <2>2. \A d \in Clients \ {c}, s \in Fds : IsCnxOf(s, d) => cnx'[s] = cnx[s]
    BY <1>1, <1>4
  <2> QED BY <1>4, <1>5, <2>1, <2>2, SameView DEF OthersSame, Broken
<1>8. \A s \in Fds : ~IsCnxOf(s, c)'
  BY <1>1, <1>6
<1>9. Phase(c)' = "lost" /\ Inbox(c)' = <<>> /\ SessionOf(c)' = NewSession /\ Outbox(c)' = <<>>
  BY <1>4, <1>5, <1>8, ViewsNext DEF ViewOfNone
<1>10. Phase(c) = "open" /\ Broken(c) /\ Broken(c)' = Broken(c)
  <2>1. Phase(c) = "open"
    BY <1>1, Views DEF ViewOfOpen
  <2>2. link[c] = "rst" /\ link'[c] = "gone"
    BY <1>1, <1>4
  <2> QED BY <2>1, <2>2 DEF Broken
<1> QED BY <1>2, <1>5, <1>7, <1>9, <1>10, MapsToLose, ServiceSteps

(* ConsumeError: the connection of the client does not end.                *)
LEMMA ConsumeKept ==
  ASSUME IInv, NEW c \in Clients, link[c] = "fail", ConsumeError(c)
  PROVE  \A d \in Clients : /\ (Alive(d) <=> Alive(d)') /\ (link'[d] = "gone" <=> link[d] = "gone")
                            /\ Broken(d)' = Broken(d)
BY QueueTyped DEF ConsumeError, Alive, Broken

LEMMA ErrorStep ==
  ASSUME IInv, KInv, IInv', NEW fd \in 0 .. LastFd, HandleSocketError(fd)
  PROVE  KInv' /\ ServiceStep
<1>1. fd \in socket_map /\ UNCHANGED socket_map
  BY DEF HandleSocketError, IsNext, IInv, ListsAreKnown, router
<1>2. CASE ErrorOf(fd) = "rst"
  <2>1. cnx[fd].sock_open /\ link[fdtab[fd]] = "rst" /\ socketDisconnected(fd)
    BY <1>1, <1>2 DEF HandleSocketError, ErrorOf
  <2> QED BY <1>1, <2>1, LoseStep
<1>3. CASE ErrorOf(fd) = "fail"
  <2>1. cnx[fd].sock_open /\ link[fdtab[fd]] = "fail"
    BY <1>1, <1>3 DEF ErrorOf
  <2>2. ConsumeError(fdtab[fd]) /\ UNCHANGED <<inbound, cnx, received, nb_req, backlog, fdtab>>
    BY <1>3 DEF HandleSocketError, ConsumeError
  <2>3. \A d \in Clients : /\ (Alive(d) <=> Alive(d)') /\ (link'[d] = "gone" <=> link[d] = "gone")
                           /\ Broken(d)' = Broken(d)
    BY <1>1, <2>1, <2>2, OwnerOf, ConsumeKept
  <2>4. KInv'
    BY <1>1, <2>2, <2>3, KeptKInv DEF KInv, StoppedIsEmpty
  <2>5. \A d \in Clients : View(d)' = View(d)
    BY <1>1, <2>2, <2>3, <2>4, SameView DEF IsCnxOf
  <2> QED BY <2>2, <2>4, <2>5, MapsToStutter DEF ServiceStep
<1>4. CASE ErrorOf(fd) \notin {"rst", "fail"}
  <2>1. Quiet
    BY <1>1, <1>4 DEF HandleSocketError, Quiet, net
  <2> QED BY <2>1, QuietStep
<1> QED BY <1>2, <1>3, <1>4

(* What was read is in rx_fifo, no longer in the kernel.                   *)
LEMMA ReadStep ==
  ASSUME IInv, KInv, IInv', NEW fd \in socket_map, cnx[fd].sock_open, ReadAll(fd),
         UNCHANGED <<received, nb_req, backlog, fdtab, socket_map>>,
         \A d \in Clients : /\ (Alive(d) <=> Alive(d)') /\ (link'[d] = "gone" <=> link[d] = "gone")
                            /\ Broken(d)' = Broken(d)
  PROVE  KInv' /\ ServiceStep
<1>0. PICK c \in Clients : c = fdtab[fd]
  BY OwnerOf
<1>1. /\ fd \in Fds /\ IsCnxOf(fd, c) /\ cnx[fd] \in Connection
      /\ cnx[fd].rx_fifo \in Seq(Request) /\ inbound[c] \in Seq(Request)
  BY <1>0, OwnerOf, QueueTyped DEF Connection
<1>2. /\ cnx' = [cnx EXCEPT ![fd].rx_fifo = @ \o inbound[c]]
      /\ inbound' = [inbound EXCEPT ![c] = <<>>]
  BY <1>0 DEF ReadAll
<1>3. /\ cnx'[fd].rx_fifo = cnx[fd].rx_fifo \o inbound[c] /\ inbound'[c] = <<>>
      /\ cnx'[fd].addr = cnx[fd].addr /\ cnx'[fd].sock_open = cnx[fd].sock_open
      /\ cnx'[fd].session = cnx[fd].session /\ Unsent(cnx'[fd]) = Unsent(cnx[fd])
      /\ \A s \in Fds \ {fd} : cnx'[s] = cnx[s]
      /\ \A d \in Clients \ {c} : inbound'[d] = inbound[d]
  <2>1. cnx'[fd] = [cnx[fd] EXCEPT !.rx_fifo = cnx[fd].rx_fifo \o inbound[c]]
    BY <1>1, <1>2, QueueTyped
  <2>3. /\ cnx'[fd].session = cnx[fd].session
        /\ cnx'[fd].rx_fifo = cnx[fd].rx_fifo \o inbound[c]
        /\ cnx'[fd].addr = cnx[fd].addr /\ cnx'[fd].sock_open = cnx[fd].sock_open
        /\ cnx'[fd].tx_fifo = cnx[fd].tx_fifo /\ cnx'[fd].tx_req = cnx[fd].tx_req
    <3> DEFINE q == cnx[fd].rx_fifo \o inbound[c]
    <3>1. cnx'[fd] = [cnx[fd] EXCEPT !.rx_fifo = q]
      BY <2>1
    <3> HIDE DEF q
    <3>2. /\ cnx'[fd].session = cnx[fd].session /\ cnx'[fd].rx_fifo = q
          /\ cnx'[fd].addr = cnx[fd].addr /\ cnx'[fd].sock_open = cnx[fd].sock_open
          /\ cnx'[fd].tx_fifo = cnx[fd].tx_fifo /\ cnx'[fd].tx_req = cnx[fd].tx_req
      <4>1. cnx[fd] \in Connection
        BY <1>1
      <4> DEFINE k == cnx[fd]
                 j == cnx'[fd]
      <4>2. j = [k EXCEPT !.rx_fifo = q] /\ k \in Connection
        BY <3>1, <4>1
      <4> HIDE DEF j, k
      <4>3. /\ j.session = k.session /\ j.rx_fifo = q /\ j.addr = k.addr
            /\ j.sock_open = k.sock_open /\ j.tx_fifo = k.tx_fifo /\ j.tx_req = k.tx_req
        BY <4>2 DEF Connection
      <4> QED BY <4>3 DEF j, k
    <3> QED BY <3>2 DEF q
  <2>4. Unsent(cnx'[fd]) = Unsent(cnx[fd])
    BY <2>3, Zenon DEF Unsent
  <2>5. inbound'[c] = <<>> /\ \A d \in Clients \ {c} : inbound'[d] = inbound[d]
    BY <1>1, <1>2, QueueTyped
  <2>6. \A s \in Fds \ {fd} : cnx'[s] = cnx[s]
    BY <1>1, <1>2, QueueTyped
  <2> QED BY <2>3, <2>4, <2>5, <2>6, Zenon
<1>4. /\ KInv'
      /\ \A d \in Clients : d # c /\ inbound'[d] = inbound[d] /\ Broken(d)' = Broken(d)
                                  => View(d)' = View(d)
  BY <1>0, <1>3, OneObject
<1>5. View(c)' = View(c)
  <2>1. IsCnxOf(fd, c)'
    BY <1>1, <1>3 DEF IsCnxOf
  <2>2. (cnx[fd].rx_fifo \o inbound[c]) \o <<>> = cnx[fd].rx_fifo \o inbound[c]
    <3>1. \A a \in Seq(Request) : a \o <<>> = a
      OBVIOUS
    <3>2. \A a, b \in Seq(Request) : a \o b \in Seq(Request)
      OBVIOUS
    <3> QED BY <1>1, <3>1, <3>2, Zenon
  <2>3. Inbox(c)' = Inbox(c) /\ Outbox(c)' = Outbox(c)
    <3>1. /\ Inbox(c) = cnx[fd].rx_fifo \o inbound[c] /\ Outbox(c) = Unsent(cnx[fd])
          /\ Inbox(c)' = cnx'[fd].rx_fifo \o inbound'[c] /\ Outbox(c)' = Unsent(cnx'[fd])
      BY <1>1, <1>4, <2>1, OwnView
    <3> QED BY <1>3, <2>2, <3>1, Zenon
  <2>4. Phase(c)' = Phase(c) /\ SessionOf(c)' = SessionOf(c)
    <3>1. /\ Phase(c) = "open" /\ SessionOf(c) = cnx[fd].session
          /\ Phase(c)' = "open" /\ SessionOf(c)' = cnx'[fd].session
      BY <1>1, <1>4, <2>1, OwnView
    <3> QED BY <1>3, <3>1, Zenon
  <2> QED BY <2>3, <2>4 DEF View
<1> QED BY <1>3, <1>4, <1>5, MapsToStutter DEF ServiceStep

LEMMA ReceptionStep ==
  ASSUME IInv, KInv, IInv', NEW fd \in 0 .. LastFd, ServeReception(fd)
  PROVE  KInv' /\ ServiceStep
<1>1. fd \in socket_map /\ UNCHANGED socket_map
  BY DEF ServeReception, IsNext, IInv, ListsAreKnown
<1>2. CASE ~cnx[fd].sock_open
  <2>1. Quiet
    BY <1>1, <1>2 DEF ServeReception, Quiet, net
  <2> QED BY <2>1, QuietStep
<1>3. CASE cnx[fd].sock_open /\ link[fdtab[fd]] = "rst"
  <2>1. socketDisconnected(fd)
    BY <1>1, <1>3 DEF ServeReception
  <2> QED BY <1>1, <1>3, <2>1, LoseStep
<1>4. CASE cnx[fd].sock_open /\ link[fdtab[fd]] = "fail"
  <2>1. ReadAll(fd) /\ ConsumeError(fdtab[fd]) /\ UNCHANGED <<received, nb_req, backlog, fdtab>>
    BY <1>1, <1>4 DEF ServeReception, ConsumeError
  <2> QED BY <1>1, <1>4, <2>1, OwnerOf, ConsumeKept, ReadStep
<1>5. CASE cnx[fd].sock_open /\ link[fdtab[fd]] \notin {"rst", "fail"}
  <2>1. ReadAll(fd) /\ UNCHANGED <<link, received, nb_req, backlog, fdtab>>
    BY <1>1, <1>5 DEF ServeReception
  <2> QED BY <1>1, <1>5, <2>1, ReadStep DEF Alive, Broken
<1> QED BY <1>2, <1>3, <1>4, <1>5

-----------------------------------------------------------------------------
(* The messages and the replies.                                           *)
LEMMA HandleStep ==
  ASSUME IInv, KInv, IInv', NEW fd \in 0 .. LastFd, HandleMessage(fd)
  PROVE  KInv' /\ ServiceStep
<1>1. fd \in socket_map /\ cnx[fd].rx_fifo # <<>>
  BY DEF HandleMessage, IsNext, IInv, ListsAreKnown
<1>2. cnx[fd].sock_open
  BY <1>1 DEF KInv, StoppedIsEmpty
<1>0. PICK c \in Clients : c = fdtab[fd]
  BY <1>1, <1>2, OwnerOf
<1>3. /\ fd \in Fds /\ IsCnxOf(fd, c) /\ cnx[fd] \in Connection
      /\ cnx[fd].rx_fifo \in Seq(Request) /\ inbound[c] \in Seq(Request)
      /\ cnx[fd].tx_fifo \in Seq(Reply) /\ cnx[fd].session \in Session
  BY <1>0, <1>1, <1>2, OwnerOf, QueueTyped DEF Connection
<1> DEFINE out == handle_client_message(cnx[fd].session, Head(cnx[fd].rx_fifo))
<1>4. out.sent \in Seq(Reply)
  <2>1. Head(cnx[fd].rx_fifo) \in Request
    BY <1>1, <1>3
  <2> QED BY <1>3, <2>1, HandlersTyped
<1>5. /\ cnx' = [cnx EXCEPT ![fd].session = out.session, ![fd].tx_fifo = @ \o out.sent,
                            ![fd].rx_fifo = Tail(@)]
      /\ UNCHANGED <<link, inbound, received, nb_req, backlog, fdtab, socket_map>>
  BY DEF HandleMessage, net, router
<1> HIDE DEF out
<1>6. /\ cnx'[fd].session = out.session /\ cnx'[fd].rx_fifo = Tail(cnx[fd].rx_fifo)
      /\ cnx'[fd].tx_fifo = cnx[fd].tx_fifo \o out.sent /\ cnx'[fd].tx_req = cnx[fd].tx_req
      /\ cnx'[fd].addr = cnx[fd].addr /\ cnx'[fd].sock_open = cnx[fd].sock_open
      /\ \A s \in Fds \ {fd} : cnx'[s] = cnx[s]
  <2>1. cnx'[fd] = [cnx[fd] EXCEPT !.session = out.session, !.tx_fifo = @ \o out.sent,
                                   !.rx_fifo = Tail(@)]
    BY <1>3, <1>5, QueueTyped
  <2>2. \A s \in Fds \ {fd} : cnx'[s] = cnx[s]
    BY <1>5, QueueTyped
  <2> QED BY <1>3, <2>1, <2>2 DEF Connection
<1>7. KInv' /\ OthersSame(c)
  <2>1. /\ KInv'
        /\ \A d \in Clients : d # c /\ inbound'[d] = inbound[d] /\ Broken(d)' = Broken(d)
                                    => View(d)' = View(d)
    BY <1>0, <1>1, <1>2, <1>5, <1>6, OneObject DEF Alive
  <2> QED BY <1>5, <2>1 DEF OthersSame, Broken
<1>8. IsCnxOf(fd, c)'
  BY <1>3, <1>5, <1>6 DEF IsCnxOf
<1>9. /\ Phase(c) = "open" /\ Phase(c)' = "open"
      /\ SessionOf(c) = cnx[fd].session /\ SessionOf(c)' = out.session
      /\ Inbox(c) = cnx[fd].rx_fifo \o inbound[c] /\ Inbox(c)' = cnx'[fd].rx_fifo \o inbound[c]
      /\ Outbox(c) = Unsent(cnx[fd]) /\ Outbox(c)' = Unsent(cnx'[fd])
  <2>1. /\ Phase(c) = "open" /\ SessionOf(c) = cnx[fd].session
        /\ Inbox(c) = cnx[fd].rx_fifo \o inbound[c] /\ Outbox(c) = Unsent(cnx[fd])
        /\ Phase(c)' = "open" /\ SessionOf(c)' = cnx'[fd].session
        /\ Inbox(c)' = cnx'[fd].rx_fifo \o inbound'[c] /\ Outbox(c)' = Unsent(cnx'[fd])
    BY <1>3, <1>7, <1>8, OwnView
  <2> QED BY <1>5, <1>6, <2>1, Zenon
<1>10. /\ Inbox(c) # <<>> /\ Head(Inbox(c)) = Head(cnx[fd].rx_fifo)
       /\ Inbox(c)' = Tail(Inbox(c))
  <2>1. ASSUME NEW a \in Seq(Request), NEW b \in Seq(Request), a # <<>>
        PROVE  a \o b # <<>> /\ Head(a \o b) = Head(a) /\ Tail(a) \o b = Tail(a \o b)
    BY <2>1
  <2> QED BY <1>1, <1>3, <1>6, <1>9, <2>1, Zenon
<1>11. Outbox(c)' = Outbox(c) \o out.sent
  <2>1. \A r \in Reply : <<r>> \in Seq(Reply)
    OBVIOUS
  <2>2. ASSUME NEW a \in Seq(Reply), NEW b \in Seq(Reply), NEW t \in Seq(Reply)
        PROVE  a \o (b \o t) = (a \o b) \o t
    <3>1. (a \o b) \o t = a \o (b \o t)
      BY ConcatAssociative
    <3> QED BY <3>1, Zenon
  <2>3. <<>> \in Seq(Reply)
    OBVIOUS
  <2> DEFINE first == IF cnx[fd].tx_req \in Reply THEN <<cnx[fd].tx_req>> ELSE <<>>
  <2>4. first \in Seq(Reply)
    BY <2>1, <2>3
  <2>5. Outbox(c) = first \o cnx[fd].tx_fifo
    BY <1>9 DEF Unsent
  <2>6. Outbox(c)' = first \o (cnx[fd].tx_fifo \o out.sent)
    BY <1>6, <1>9 DEF Unsent
  <2> HIDE DEF first
  <2>7. first \o (cnx[fd].tx_fifo \o out.sent) = (first \o cnx[fd].tx_fifo) \o out.sent
    <3>1. cnx[fd].tx_fifo \in Seq(Reply)
      BY <1>3
    <3> QED BY <1>4, <2>2, <2>4, <3>1, Zenon
  <2> QED BY <2>5, <2>6, <2>7, Zenon
<1>12. Broken(c)' = Broken(c)
  BY <1>5 DEF Broken
<1>13. Promise!Handle(c)
  BY <1>5, <1>7, <1>9, <1>10, <1>11, <1>12, MapsToHandle DEF out
<1> QED BY <1>7, <1>13, ServiceSteps

LEMMA DoneStep ==
  ASSUME IInv, KInv, IInv', NEW fd \in 0 .. LastFd, EmissionDone(fd)
  PROVE  KInv' /\ ServiceStep
<1>1. /\ fd \in socket_map /\ cnx[fd].tx_req \notin Reply
      /\ cnx' = [cnx EXCEPT ![fd].tx_req = NoReq]
      /\ UNCHANGED <<link, inbound, received, nb_req, backlog, fdtab, socket_map>>
  BY DEF EmissionDone, net, router
<1>2. fd \in Fds /\ cnx[fd] \in Connection
  BY <1>1, QueueTyped
<1>3. /\ cnx'[fd] = [cnx[fd] EXCEPT !.tx_req = NoReq] /\ \A s \in Fds \ {fd} : cnx'[s] = cnx[s]
  BY <1>1, <1>2, QueueTyped
<1>4. /\ cnx'[fd].session = cnx[fd].session /\ cnx'[fd].rx_fifo = cnx[fd].rx_fifo
      /\ cnx'[fd].addr = cnx[fd].addr /\ cnx'[fd].sock_open = cnx[fd].sock_open
      /\ Unsent(cnx'[fd]) = Unsent(cnx[fd])
  <2>1. NoReq \notin Reply
    BY DEF NoReq, Reply, Msg
  <2>2. ASSUME NEW k \in Connection, NEW j, j = [k EXCEPT !.tx_req = NoReq]
        PROVE  /\ j.session = k.session /\ j.rx_fifo = k.rx_fifo /\ j.addr = k.addr
               /\ j.sock_open = k.sock_open /\ j.tx_fifo = k.tx_fifo /\ j.tx_req = NoReq
    BY <2>2 DEF Connection
  <2>3. /\ cnx'[fd].session = cnx[fd].session /\ cnx'[fd].rx_fifo = cnx[fd].rx_fifo
        /\ cnx'[fd].addr = cnx[fd].addr /\ cnx'[fd].sock_open = cnx[fd].sock_open
        /\ cnx'[fd].tx_fifo = cnx[fd].tx_fifo /\ cnx'[fd].tx_req = NoReq
    BY <1>2, <1>3, <2>2, Zenon
  <2>4. Unsent(cnx'[fd]) = Unsent(cnx[fd])
    BY <1>1, <2>1, <2>3, Zenon DEF Unsent
  <2> QED BY <2>3, <2>4, Zenon
<1>5. KInv'
  BY <1>1, <1>3, <1>4, OneObject DEF Alive, KInv, StoppedIsEmpty
<1>6. \A c \in Clients : View(c)' = View(c)
  <2>1. \A c \in Clients, s \in Fds : IsCnxOf(s, c)' = IsCnxOf(s, c)
    BY <1>1, <1>3, <1>4 DEF IsCnxOf
  <2> QED BY <1>1, <1>3, <1>4, <1>5, <2>1, SameView DEF Broken
<1> QED BY <1>1, <1>5, <1>6, MapsToStutter DEF ServiceStep

(* A reply taken from tx_fifo: what the object becomes.                    *)
LEMMA PoppedObject ==
  ASSUME IInv, NEW fd \in socket_map, Sending(fd), NEW req, Popped(fd, req)
  PROVE  /\ fd \in Fds /\ cnx[fd] \in Connection /\ UNCHANGED socket_map
         /\ cnx[fd].tx_fifo # <<>> /\ cnx[fd].tx_fifo \in Seq(Reply) /\ Unsent(cnx[fd]) = cnx[fd].tx_fifo
         /\ cnx'[fd].session = cnx[fd].session /\ cnx'[fd].rx_fifo = cnx[fd].rx_fifo
         /\ cnx'[fd].addr = cnx[fd].addr /\ cnx'[fd].sock_open = cnx[fd].sock_open
         /\ cnx'[fd].tx_fifo = Tail(cnx[fd].tx_fifo) /\ cnx'[fd].tx_req = req
         /\ \A s \in Fds \ {fd} : cnx'[s] = cnx[s]
<1>1. /\ fd \in Fds /\ cnx[fd] \in Connection /\ UNCHANGED socket_map
      /\ cnx[fd].tx_req \notin Reply /\ cnx[fd].tx_fifo # <<>> /\ cnx[fd].tx_fifo \in Seq(Reply)
  BY QueueTyped DEF Sending, router, Connection
<1>2. Unsent(cnx[fd]) = cnx[fd].tx_fifo
  <2>1. <<>> \o cnx[fd].tx_fifo = cnx[fd].tx_fifo
    BY <1>1
  <2> QED BY <1>1, <2>1 DEF Unsent
<1>3. /\ cnx'[fd] = [cnx[fd] EXCEPT !.tx_req = req, !.tx_fifo = Tail(@)]
      /\ \A s \in Fds \ {fd} : cnx'[s] = cnx[s]
  BY <1>1, QueueTyped DEF Popped
<1> QED BY <1>1, <1>2, <1>3 DEF Connection

LEMMA BlockedStep ==
  ASSUME IInv, KInv, IInv', NEW fd \in 0 .. LastFd, EmissionBlocked(fd)
  PROVE  KInv' /\ ServiceStep
<1> DEFINE reply == Head(cnx[fd].tx_fifo)
<1>1. fd \in socket_map /\ Sending(fd) /\ Popped(fd, reply)
  BY DEF EmissionBlocked, Sending
<1>2. /\ UNCHANGED <<inbound, received, nb_req, backlog, fdtab>>
      /\ \A d \in Clients : /\ (Alive(d) <=> Alive(d)') /\ (link'[d] = "gone" <=> link[d] = "gone")
                            /\ Broken(d)' = Broken(d)
  <2>1. CASE cnx[fd].sock_open /\ link[fdtab[fd]] = "fail"
    <3>1. ConsumeError(fdtab[fd]) /\ UNCHANGED inbound
      BY <2>1 DEF EmissionBlocked
    <3>2. UNCHANGED <<received, nb_req, backlog, fdtab>>
      BY <3>1 DEF ConsumeError
    <3> QED BY <1>1, <2>1, <3>1, <3>2, OwnerOf, ConsumeKept
  <2>2. CASE ~(cnx[fd].sock_open /\ link[fdtab[fd]] = "fail")
    BY <2>2 DEF EmissionBlocked, net, Alive, Broken
  <2> QED BY <2>1, <2>2
<1>3. Unsent(cnx'[fd]) = Unsent(cnx[fd])
  <2>1. ASSUME NEW a \in Seq(Reply), a # <<>> PROVE <<Head(a)>> \o Tail(a) = a /\ Head(a) \in Reply
    BY <2>1
  <2>2. /\ cnx[fd].tx_fifo # <<>> /\ cnx[fd].tx_fifo \in Seq(Reply)
        /\ Unsent(cnx[fd]) = cnx[fd].tx_fifo
        /\ cnx'[fd].tx_fifo = Tail(cnx[fd].tx_fifo) /\ cnx'[fd].tx_req = reply
    BY <1>1, PoppedObject
  <2>3. <<reply>> \o Tail(cnx[fd].tx_fifo) = cnx[fd].tx_fifo /\ reply \in Reply
    BY <2>1, <2>2
  <2> QED BY <2>2, <2>3, Zenon DEF Unsent
<1> HIDE DEF reply
<1>4. KInv'
  BY <1>1, <1>2, PoppedObject, OneObject DEF KInv, StoppedIsEmpty
<1>5. \A c \in Clients : View(c)' = View(c)
  <2>1. \A c \in Clients, s \in Fds : IsCnxOf(s, c)' = IsCnxOf(s, c)
    BY <1>1, PoppedObject DEF IsCnxOf
  <2> QED BY <1>1, <1>2, <1>3, <1>4, <2>1, PoppedObject, SameView
<1> QED BY <1>2, <1>4, <1>5, MapsToStutter DEF ServiceStep

LEMMA DeliverStep ==
  ASSUME IInv, KInv, IInv', NEW fd \in 0 .. LastFd, EmissionSend(fd)
  PROVE  KInv' /\ ServiceStep
<1>1. fd \in socket_map /\ Sending(fd) /\ Popped(fd, Served) /\ cnx[fd].sock_open
  BY DEF EmissionSend, Sending
<1>0. PICK c \in Clients : c = fdtab[fd]
  BY <1>1, OwnerOf
<1>2. /\ link[c] \in {"fin", "finsent", "open"}
      /\ received' = [received EXCEPT ![c] = Append(@, Head(cnx[fd].tx_fifo))]
      /\ link' = [link EXCEPT ![c] = IF @ = "fin" THEN "finsent" ELSE @]
      /\ UNCHANGED <<inbound, nb_req, backlog, fdtab>>
  BY <1>0 DEF EmissionSend
<1>3. \A d \in Clients : /\ (Alive(d) <=> Alive(d)') /\ (link'[d] = "gone" <=> link[d] = "gone")
                         /\ Broken(d)' = Broken(d)
  BY <1>2, QueueTyped DEF Alive, Broken
<1>4. KInv' /\ OthersSame(c)
  <2>1. /\ KInv'
        /\ \A d \in Clients : d # c /\ inbound'[d] = inbound[d] /\ Broken(d)' = Broken(d)
                                    => View(d)' = View(d)
    BY <1>0, <1>1, <1>2, <1>3, PoppedObject, OneObject
  <2> QED BY <1>2, <1>3, <2>1 DEF OthersSame
<1>5. IsCnxOf(fd, c) /\ IsCnxOf(fd, c)' /\ fd \in Fds
  BY <1>0, <1>1, OwnerOf, PoppedObject DEF IsCnxOf
<1>6. Unsent(cnx'[fd]) = Tail(cnx[fd].tx_fifo)
  <2>1. Served \notin Reply
    BY DEF Served, Reply, Msg
  <2>2. ASSUME NEW a \in Seq(Reply), a # <<>> PROVE <<>> \o Tail(a) = Tail(a)
    BY <2>2
  <2>3. /\ cnx[fd].tx_fifo # <<>> /\ cnx[fd].tx_fifo \in Seq(Reply)
        /\ cnx'[fd].tx_fifo = Tail(cnx[fd].tx_fifo) /\ cnx'[fd].tx_req = Served
    BY <1>1, PoppedObject
  <2>4. <<>> \o Tail(cnx[fd].tx_fifo) = Tail(cnx[fd].tx_fifo)
    BY <2>2, <2>3
  <2> QED BY <2>1, <2>3, <2>4, Zenon DEF Unsent
<1>7. /\ Phase(c) = "open" /\ Phase(c)' = "open" /\ SessionOf(c)' = SessionOf(c)
      /\ Inbox(c)' = Inbox(c) /\ Outbox(c) = cnx[fd].tx_fifo /\ Outbox(c)' = Tail(cnx[fd].tx_fifo)
      /\ Outbox(c) # <<>>
  <2>1. /\ cnx'[fd].session = cnx[fd].session /\ cnx'[fd].rx_fifo = cnx[fd].rx_fifo
        /\ Unsent(cnx[fd]) = cnx[fd].tx_fifo /\ cnx[fd].tx_fifo # <<>>
    BY <1>1, PoppedObject
  <2>2. /\ Phase(c) = "open" /\ SessionOf(c) = cnx[fd].session
        /\ Inbox(c) = cnx[fd].rx_fifo \o inbound[c] /\ Outbox(c) = Unsent(cnx[fd])
        /\ Phase(c)' = "open" /\ SessionOf(c)' = cnx'[fd].session
        /\ Inbox(c)' = cnx'[fd].rx_fifo \o inbound'[c] /\ Outbox(c)' = Unsent(cnx'[fd])
    BY <1>4, <1>5, OwnView
  <2>3. inbound' = inbound
    BY <1>2
  <2> QED BY <1>6, <2>1, <2>2, <2>3, Zenon
<1> QED BY <1>2, <1>3, <1>4, <1>7, MapsToDeliver, ServiceSteps

(* The object of a stopped connection leaves the map.                      *)
LEMMA ReleaseStep == ASSUME IInv, KInv, IInv', Release PROVE KInv' /\ ServiceStep
<1>0. PICK fd \in Fds : fd = Head(dead_list) /\ fd \in socket_map /\ ~cnx[fd].sock_open
  BY DEF Release, IInv, TypeOK, DeadListSound
<1>1. /\ socket_map' = socket_map \ {fd} /\ cnx' = [cnx EXCEPT ![fd] = NewConnection(NoClient)]
      /\ UNCHANGED <<link, inbound, received, nb_req, backlog, fdtab>>
  BY <1>0 DEF Release, ReleaseClientConnection, net
<1>2. \A s \in Fds : s # fd => cnx'[s] = cnx[s]
  BY <1>1, QueueTyped
<1>3. KInv'
  <2>1. QueueSound' /\ TableSound' /\ OnePlace'
    BY <1>1 DEF KInv, QueueSound, TableSound, OnePlace, Alive
  <2>2. StoppedIsEmpty'
    BY <1>1, <1>2, QueueTyped DEF KInv, StoppedIsEmpty
  <2> QED BY <2>1, <2>2 DEF KInv
<1>4. \A c \in Clients : View(c)' = View(c)
  <2>1. \A c \in Clients, s \in Fds : IsCnxOf(s, c)' = IsCnxOf(s, c)
    BY <1>0, <1>1, <1>2 DEF IsCnxOf
  <2>2. \A c \in Clients, s \in Fds : IsCnxOf(s, c) => cnx'[s] = cnx[s]
    BY <1>0, <1>2 DEF IsCnxOf
  <2> QED BY <1>1, <1>3, <2>1, <2>2, SameView DEF Broken
<1> QED BY <1>1, <1>3, <1>4, MapsToStutter DEF ServiceStep

-----------------------------------------------------------------------------
LEMMA InitStep == Init => KInv /\ Promise!Init
<1> SUFFICES ASSUME Init PROVE KInv /\ Promise!Init
  OBVIOUS
<1>1. backlog = <<>> /\ socket_map = {} /\ fdtab = [fd \in Fds |-> NoClient]
  BY DEF Init
<1>2. KInv
  BY <1>1 DEF KInv, QueueSound, TableSound, OnePlace, StoppedIsEmpty
<1>3. \A c \in Clients : /\ Phase(c) = "waiting" /\ Broken(c) = FALSE /\ Inbox(c) = <<>>
                         /\ SessionOf(c) = NewSession /\ Outbox(c) = <<>>
  <2>1. IInv
    BY InitInv
  <2>2. \A c \in Clients, fd \in Fds : ~IsCnxOf(fd, c)
    BY <1>1 DEF IsCnxOf
  <2>3. \A c \in Clients : link[c] = "idle" /\ inbound[c] = <<>>
    BY DEF Init
  <2>4. \A c \in Clients : ~Broken(c)
    BY <2>3 DEF Broken
  <2> QED BY <1>2, <2>1, <2>2, <2>3, <2>4, Views DEF ViewOfNone, Broken
<1>4. Promise!Init
  BY <1>3, SameHandlers DEF Promise!Init, Init
<1> QED BY <1>2, <1>4

LEMMA NextStep == IInv /\ KInv /\ IInv' /\ [Next]_vars => KInv' /\ ServiceStep
<1> SUFFICES ASSUME IInv, KInv, IInv', [Next]_vars PROVE KInv' /\ ServiceStep
  OBVIOUS
<1>1. CASE UNCHANGED vars
  <2>1. Quiet
    BY <1>1 DEF vars, net, router, Quiet
  <2> QED BY <2>1, QuietStep
<1>2. CASE Network
  BY <1>2, NetworkStep
<1>3. CASE \/ NoPendingConnection \/ AcceptError \/ Select \/ StartReceptions \/ StartEmissions
           \/ EndEmissions \/ CheckCount \/ EndCycle \/ Aborted
  BY <1>3, QuietSteps, QuietStep
<1>4. CASE AcceptConnection
  BY <1>4, AcceptStep
<1>5. CASE Release
  BY <1>5, ReleaseStep
<1>6. ASSUME NEW fd \in 0 .. LastFd, ServeSocket(fd) PROVE KInv' /\ ServiceStep
  <2>1. CASE \/ EndReception(fd) \/ EmissionOutOfRange(fd) \/ EmissionAfterBlocked(fd)
             \/ EmissionDisconnected(fd)
    BY <2>1, QuietSteps, QuietStep
  <2>2. CASE HandleSocketError(fd) \/ ServeReception(fd) \/ HandleMessage(fd)
    BY <2>2, ErrorStep, ReceptionStep, HandleStep
  <2>3. CASE EmissionDone(fd) \/ EmissionBlocked(fd) \/ EmissionSend(fd)
    BY <2>3, DoneStep, BlockedStep, DeliverStep
  <2> QED BY <1>6, <2>1, <2>2, <2>3 DEF ServeSocket
<1> QED BY <1>1, <1>2, <1>3, <1>4, <1>5, <1>6 DEF Next, Server

(* Every behaviour of the server, of its clients and of the kernel is one  *)
(* the service promises.                                                   *)
LEMMA KeepsPromise == Spec => Promise!Spec
<1>1. Init => KInv /\ Promise!Init
  BY InitStep
<1>2. IInv /\ KInv /\ IInv' /\ [Next]_vars => KInv' /\ [Promise!Next]_(Promise!vars)
  BY NextStep DEF ServiceStep
<1> QED BY <1>1, <1>2, Invariance, PTL DEF Spec, Promise!Spec

(* ServeClientSockets loses, duplicates or reorders no message, handles    *)
(* none for the wrong client, and sends no reply to the wrong one, for     *)
(* any number of clients, descriptors and messages and any of the faults,  *)
(* although descriptors are reused while old objects are still mapped.     *)
THEOREM ServerImplementsService == Spec => ServiceSpec
<1>1. Promise!Init => Service!Init
  BY SameHandlers DEF Promise!Init, Service!Init
<1>2. [Promise!Next]_(Promise!vars) => [Service!Next]_(Service!vars)
  <2>1. ASSUME NEW c \in Clients PROVE Promise!Handle(c) => Service!Handle(c)
    BY SameHandlers DEF Promise!Handle, Service!Handle
  <2>2. ASSUME NEW c \in Clients PROVE Promise!Lose(c) => Service!Lose(c)
    BY SameHandlers DEF Promise!Lose, Service!Lose
  <2>3. ASSUME NEW c \in Clients
        PROVE  /\ Promise!Open(c) => Service!Open(c)
               /\ Promise!Deliver(c) => Service!Deliver(c)
               /\ Promise!Break(c) => Service!Break(c)
               /\ \A m \in ClientMsgs : Promise!Ask(c, m) => Service!Ask(c, m)
    BY DEF Promise!Open, Service!Open, Promise!Deliver, Service!Deliver, Promise!Break,
       Service!Break, Promise!Ask, Service!Ask
  <2>4. UNCHANGED Promise!vars => UNCHANGED Service!vars
    BY DEF Promise!vars, Service!vars
  <2> QED BY <2>1, <2>2, <2>3, <2>4 DEF Promise!Next, Service!Next
<1> QED BY <1>1, <1>2, KeepsPromise, PTL DEF ServiceSpec, Service!Spec, Promise!Spec

(* Whatever the order of the requests of a client, and whatever happens to *)
(* the others, its answers are in an order the protocol allows.            *)
THEOREM AnswersAreAlwaysOrdered == Spec => []AdmissionIsOrdered
<1>1. Promise!AdmissionIsOrdered => AdmissionIsOrdered
  BY DEF Promise!AdmissionIsOrdered, AdmissionIsOrdered, Service!AdmissionIsOrdered,
     Promise!Ordered, Service!Ordered, Promise!RepliesTo, Service!RepliesTo
<1> QED BY <1>1, KeepsPromise, Promise!AdmissionAlwaysOrdered, PTL
=============================================================================
