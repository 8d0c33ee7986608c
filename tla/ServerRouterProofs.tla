-------------------------- MODULE ServerRouterProofs --------------------------
(***************************************************************************)
(* What holds of ServerRouter for every number of clients, of descriptors  *)
(* and of messages, for every choice of faults, on Linux and elsewhere.    *)
(***************************************************************************)
EXTENDS ServerRouter, FiniteSetTheorems, WellFoundedInduction, TLAPS

(* A connection object of the map belongs to a client, and owns its        *)
(* client's descriptor until it is stopped.                                *)
OwnersAreClients == \A fd \in socket_map : cnx[fd].addr \in Clients

(* The lists served before the emissions name sockets of the map.          *)
ListsAreKnown ==
  pc \in {"errors", "receptions", "handle"} => work \subseteq socket_map /\ select_readfds \subseteq socket_map

(* The inductive invariant.                                                *)
IInv == /\ TypeOK /\ MapIsBitmap /\ CountIsSize /\ NfdsIsHighest
        /\ OwnersAreClients /\ DescriptorIsClients /\ ListsAreKnown /\ DeadListSound
        /\ crash # "assert_erase"

-----------------------------------------------------------------------------
(* A handler given a session and a message returns a session and replies.  *)
LEMMA HandlersTyped ==
  ASSUME NEW s \in Session, NEW m \in Request
  PROVE  /\ handle_client_message(s, m).session \in Session
         /\ handle_client_message(s, m).sent \in Seq(Reply)
         /\ handle_client_message(s, m).ok \in BOOLEAN
<1> DEFINE Typed(o) == o.session \in Session /\ o.sent \in Seq(Reply) /\ o.ok \in BOOLEAN
<1>1. ASSUME NEW t \in Session, NEW r \in Reply PROVE Typed(Answer(t, r))
  BY <1>1 DEF Answer, Outcome
<1>2. ASSUME NEW t \in Session, NEW b \in BOOLEAN PROVE Typed(Outcome(t, <<>>, b))
  BY <1>2 DEF Outcome
<1>3. \A st \in State : [s EXCEPT !.state = st] \in Session
  BY DEF Session
<1>4. Typed(handleConnectionReq(s, m))
  <2>1. \A c \in RejCause : [state |-> "CONN_REJECTED", last_rejected_cause |-> c] \in Session
    BY DEF Session, State
  <2>2. \A c \in RejCause : Msg("CONNECTION_REJ", c) \in Reply
    BY DEF Reply
  <2>3. Msg("CONNECTION_CNF", "none") \in Reply /\ [s EXCEPT !.state = "REGISTERING"] \in Session
    BY <1>3 DEF Reply, State
  <2>4. (IF s.state = "EMPTY" THEN "BAD_CLIENT_VERSION"
         ELSE IF s.state = "CONN_REJECTED" THEN s.last_rejected_cause
         ELSE "UNEXPECTED_CONN_REQ") \in RejCause
    BY DEF Session, RejCause
  <2> QED BY <1>1, <2>1, <2>2, <2>3, <2>4 DEF handleConnectionReq
<1>5. Typed(handleRegistrationReq(s))
  <2>1. \A c \in {"USER_ALREADY_EXISTING", "INCORRECT_EMAIL", "UNEXPECTED_REGISTRATION"} :
          Msg("REGISTRATION_REJ", c) \in Reply
    BY DEF Reply
  <2>2. Msg("REGISTRATION_CNF", "none") \in Reply /\ [s EXCEPT !.state = "REGISTERED"] \in Session
    BY <1>3 DEF Reply, State
  <2> QED BY <1>1, <2>1, <2>2 DEF handleRegistrationReq
<1>6. Typed(handleUserLoginReq(s))
  <2>1. \A c \in {"USER_UNKNOWN", "WRONG_PASSWORD", "UNEXPECTED_LOGIN_PROC"} :
          Msg("USER_LOGGING_REJ", c) \in Reply
    BY DEF Reply
  <2>2. Msg("REGISTRATION_CNF", "none") \in Reply /\ [s EXCEPT !.state = "REGISTERED"] \in Session
    BY <1>3 DEF Reply, State
  <2> QED BY <1>1, <2>1, <2>2 DEF handleUserLoginReq
<1>7. Typed(handleDisconnectionReq(s, m))
  <2>1. Msg("DISCONNECTION_CNF", "none") \in Reply /\ [s EXCEPT !.state = "CLOSING"] \in Session
    BY <1>3 DEF Reply, State
  <2> QED BY <1>1, <1>2, <2>1 DEF handleDisconnectionReq
<1>8. Typed(handleDisconnectionCnf(s))
  BY <1>2, <1>3 DEF handleDisconnectionCnf, State
<1> QED
  BY <1>2, <1>4, <1>5, <1>6, <1>7, <1>8 DEF handle_client_message

-----------------------------------------------------------------------------
(* A set of descriptors has a highest one.                                 *)
LEMMA HighestExists ==
  ASSUME NEW set \in SUBSET Fds, set # {}
  PROVE  \E s \in set : \A t \in set : t <= s
<1>0. LastFd \in Nat BY ConstantsAssumption
<1> DEFINE down == {LastFd - s : s \in set}
<1>1. down \subseteq Nat /\ down # {}
  <2>1. \A s \in set : LastFd - s \in Nat
    BY <1>0 DEF Fds, FirstFd
  <2> QED BY <2>1
<1> DEFINE less == {ss \in Nat \X Nat : ss[1] < ss[2]}
<1>a. IsWellFoundedOn(less, Nat)
  BY NatLessThanWellFounded, Zenon DEF OpToRel
<1> HIDE DEF less, down
<1>2. PICK x \in down : \A y \in down : ~(<<y, x>> \in less)
  BY <1>1, <1>a, WFMin
<1> USE DEF down, less
<1>3. PICK s \in set : x = LastFd - s
  BY <1>2
<1>4. \A t \in set : t <= s
  <2>1. ASSUME NEW t \in set PROVE ~(LastFd - t < LastFd - s)
    <3>1. LastFd - t \in down /\ LastFd - t \in Nat /\ x \in Nat
      BY <1>1, <1>2
    <3> QED BY <3>1, <1>2, <1>3 
  <2>2. \A t \in set : t \in Int
    BY <1>0 DEF Fds, FirstFd
  <2> HIDE DEF down, less
  <2> QED BY <1>0, <1>3, <2>1, <2>2
<1> QED BY <1>4

(* The set of the map is finite.                                           *)
LEMMA MapIsFinite == ASSUME TypeOK PROVE IsFiniteSet(socket_map)
<1>1. IsFiniteSet(Fds)
  BY ConstantsAssumption, FS_Interval DEF Fds, FirstFd
<1> QED BY <1>1, FS_Subset DEF TypeOK

LEMMA FdsAreNumbers == /\ LastFd \in Nat /\ LastFd >= 4
                       /\ \A fd \in Fds : fd \in Nat /\ fd >= 4 /\ fd <= LastFd
  BY ConstantsAssumption DEF Fds, FirstFd

-----------------------------------------------------------------------------
(* Most steps keep the map, the bitmap and dead_list, and change neither   *)
(* the owner nor the openness of a connection object.                      *)
Kept == /\ UNCHANGED <<clientsocks_fds, clientsocks_nfds, socket_map, nb_client_connections,
                       dead_list, fdtab>>
        /\ \A fd \in Fds : cnx'[fd].addr = cnx[fd].addr /\ cnx'[fd].sock_open = cnx[fd].sock_open

LEMMA KeptInv ==
  ASSUME IInv, Kept
  PROVE  /\ MapIsBitmap' /\ CountIsSize' /\ NfdsIsHighest'
         /\ OwnersAreClients' /\ DescriptorIsClients' /\ DeadListSound'
<1> USE DEF IInv, Kept
<1>1. MapIsBitmap' /\ CountIsSize' /\ NfdsIsHighest'
  BY DEF MapIsBitmap, CountIsSize, NfdsIsHighest
<1>2. OwnersAreClients' /\ DescriptorIsClients'
  BY DEF OwnersAreClients, DescriptorIsClients, TypeOK
<1>3. DeadListSound'
  <2>1. \A i \in 1 .. Len(dead_list) : dead_list[i] \in Fds
    BY DEF TypeOK
  <2> QED BY <2>1 DEF DeadListSound
<1> QED BY <1>1, <1>2, <1>3

LEMMA InitInv == Init => IInv
<1> SUFFICES ASSUME Init PROVE IInv
  OBVIOUS
<1> USE DEF Init
<1>1. TypeOK
  <2>1. \A c \in Clients \cup {NoClient} : NewConnection(c) \in Connection
    BY DEF NewConnection, Connection, NewSession, Session, State, RejCause
  <2>2. 0 \in 0 .. (LastFd + 1)
    BY FdsAreNumbers
  <2>3. select_writefds \subseteq 0 .. LastFd
    BY ConstantsAssumption
  <2> QED BY <2>1, <2>2, <2>3 DEF TypeOK, Links
<1>2. MapIsBitmap /\ CountIsSize /\ NfdsIsHighest
  BY FS_EmptySet DEF MapIsBitmap, CountIsSize, NfdsIsHighest
<1>3. OwnersAreClients /\ DescriptorIsClients /\ ListsAreKnown /\ DeadListSound
  BY DEF OwnersAreClients, DescriptorIsClients, ListsAreKnown, DeadListSound
<1> QED BY <1>1, <1>2, <1>3 DEF IInv

LEMMA NetworkInv == IInv /\ Network => IInv'
<1> SUFFICES ASSUME IInv, Network PROVE IInv'
  OBVIOUS
<1> USE DEF IInv
<1>1. UNCHANGED <<pc, work, sets, nb_act, router, cnx, crash>>
  BY DEF Network
<1>2. /\ link' \in [Clients -> Links] /\ full' \in [Clients -> BOOLEAN]
      /\ inbound' \in [Clients -> Seq(Request)] /\ received' = received
      /\ nb_req' \in [Clients -> Nat] /\ backlog' \in Seq(Clients) /\ fdtab' = fdtab
  <2>1. PICK c \in Clients : \/ Connect(c) \/ Close(c) \/ Reset(c) \/ AnswerRst(c) \/ Fail(c)
                             \/ Fill(c) \/ \E m \in ClientMsgs : Send(c, m)
    BY DEF Network
  <2>2. CASE Connect(c)
    BY <2>2 DEF Connect, TypeOK, Links
  <2>3. CASE Close(c) \/ Reset(c) \/ AnswerRst(c) \/ Fail(c)
    BY <2>3 DEF Close, Reset, AnswerRst, Fail, Break, TypeOK, Links
  <2>4. CASE Fill(c)
    BY <2>4 DEF Fill, TypeOK
  <2>5. CASE \E m \in ClientMsgs : Send(c, m)
    BY <2>5, ConstantsAssumption DEF Send, TypeOK
  <2> QED BY <2>1, <2>2, <2>3, <2>4, <2>5
<1>3. TypeOK'
  BY <1>1, <1>2 DEF TypeOK, sets, router
<1>4. Kept
  BY <1>1, <1>2 DEF Kept, sets, router
<1>5. ListsAreKnown' /\ crash' # "assert_erase"
  BY <1>1 DEF ListsAreKnown, sets, router
<1> QED BY <1>3, <1>4, <1>5, KeptInv

-----------------------------------------------------------------------------
(* The steps of server_loop that leave the map and the connections alone.  *)
LEMMA LoopInv ==
  IInv /\ (NoPendingConnection \/ AcceptError \/ StartReceptions \/ StartEmissions \/ EndEmissions
           \/ EndCycle \/ Aborted) => IInv'
<1> SUFFICES ASSUME IInv,
                    NoPendingConnection \/ AcceptError \/ StartReceptions \/ StartEmissions
                    \/ EndEmissions \/ EndCycle \/ Aborted
             PROVE  IInv'
  OBVIOUS
<1> USE DEF IInv
<1>1. UNCHANGED <<net, sets, router, cnx, crash>>
  BY DEF NoPendingConnection, AcceptError, StartReceptions, StartEmissions, EndEmissions, NextList,
         EndCycle, Aborted, Throw, vars
<1>2. Kept
  BY <1>1 DEF Kept, net, sets, router
<1>3. /\ work' \subseteq 0 .. LastFd /\ nb_act' \in Int
      /\ pc' \in {"accept", "select", "receptions", "emissions", "end", "aborted"}
      /\ pc' \in {"errors", "receptions", "handle"} => work' \subseteq socket_map /\ select_readfds \subseteq socket_map
  <2>1. select_readfds \subseteq 0 .. LastFd
    BY FdsAreNumbers DEF TypeOK
  <2>2. CASE NoPendingConnection \/ EndCycle
    BY <2>2 DEF NoPendingConnection, EndCycle, TypeOK
  <2>6. CASE AcceptError
    BY <2>6 DEF AcceptError, Throw
  <2>3. CASE StartReceptions
    BY <2>1, <2>3 DEF StartReceptions, NextList, TypeOK, ListsAreKnown
  <2>4. CASE StartEmissions \/ EndEmissions
    BY <2>4 DEF StartEmissions, EndEmissions, NextList, TypeOK
  <2>5. CASE Aborted
    BY <2>5 DEF Aborted, vars, TypeOK
  <2> QED BY <2>2, <2>3, <2>4, <2>5, <2>6
<1>4. TypeOK'
  BY <1>1, <1>3 DEF TypeOK, net, sets, router
<1>5. ListsAreKnown' /\ crash' # "assert_erase"
  BY <1>1, <1>3 DEF ListsAreKnown, sets, router
<1> QED BY <1>2, <1>4, <1>5, KeptInv

(* A client is accepted: the new descriptor was not in the map, or the     *)
(* exception of CreateClientConnection leaves the router as it is.         *)
LEMMA AcceptInv == IInv /\ AcceptConnection => IInv'
<1> SUFFICES ASSUME IInv, AcceptConnection PROVE IInv'
  OBVIOUS
<1> USE DEF IInv
<1> DEFINE c == Head(backlog)
<1>1. PICK fd \in Fds : /\ fdtab[fd] = NoClient
                        /\ fdtab' = [fdtab EXCEPT ![fd] = c]
                        /\ CreateClientConnection(fd, c)
  BY DEF AcceptConnection
<1>2. /\ c \in Clients /\ backlog' \in Seq(Clients) /\ pc = "accept"
      /\ UNCHANGED <<link, full, inbound, received, nb_req>>
  BY DEF AcceptConnection, TypeOK
<1>3. fdtab' \in [Fds -> Clients \cup {NoClient}]
  BY <1>1, <1>2 DEF TypeOK
<1>4. \A s \in socket_map : cnx[s].sock_open => s # fd
  <2>1. NoClient \notin Clients
    BY ConstantsAssumption
  <2> QED BY <1>1, <2>1 DEF OwnersAreClients, DescriptorIsClients
<1>5. \A s \in Fds : s # fd => fdtab'[s] = fdtab[s]
  BY <1>1 DEF TypeOK
<1> HIDE DEF c
<1>6. CASE fd \in clientsocks_fds
  <2>1. Throw /\ UNCHANGED <<sets, router, cnx>>
    BY <1>1, <1>6 DEF CreateClientConnection
  <2>2. TypeOK'
    BY <1>2, <1>3, <2>1 DEF TypeOK, Throw, sets, router
  <2>3. DescriptorIsClients'
    BY <1>4, <1>5, <2>1 DEF DescriptorIsClients, router, TypeOK
  <2> QED
    BY <2>1, <2>2, <2>3 DEF MapIsBitmap, CountIsSize, NfdsIsHighest, OwnersAreClients,
       ListsAreKnown, DeadListSound, Throw, sets, router
<1>7. CASE fd \notin clientsocks_fds
  <2>1. /\ clientsocks_nfds' = IF fd >= clientsocks_nfds THEN fd + 1 ELSE clientsocks_nfds
        /\ clientsocks_fds' = clientsocks_fds \cup {fd}
        /\ cnx' = [cnx EXCEPT ![fd] = NewConnection(c)]
        /\ socket_map' = socket_map \cup {fd}
        /\ nb_client_connections' = nb_client_connections + 1
        /\ pc' = "select"
        /\ UNCHANGED <<work, select_readfds, select_writefds, nb_act, dead_list, crash>>
    BY <1>1, <1>7 DEF CreateClientConnection
  <2>2. NewConnection(c) \in Connection
    BY <1>2 DEF NewConnection, Connection, NewSession, Session, State, RejCause
  <2>3. clientsocks_nfds' \in 0 .. (LastFd + 1)
    BY <2>1, FdsAreNumbers DEF TypeOK
  <2>4. TypeOK'
    BY <1>2, <1>3, <2>1, <2>2, <2>3 DEF TypeOK
  <2>5. fd \notin socket_map
    BY <1>7 DEF MapIsBitmap
  <2>6. MapIsBitmap' /\ NfdsIsHighest'
    BY <2>1, FdsAreNumbers DEF MapIsBitmap, NfdsIsHighest, TypeOK
  <2>7. CountIsSize'
    BY <2>1, <2>5, MapIsFinite, FS_AddElement, FS_CardinalityType DEF CountIsSize
  <2>8. \A s \in Fds : s # fd => cnx'[s] = cnx[s]
    BY <2>1 DEF TypeOK
  <2>9. cnx'[fd].addr = c /\ fdtab'[fd] = c
    BY <1>1, <2>1 DEF TypeOK, NewConnection
  <2>10. OwnersAreClients' /\ DescriptorIsClients'
    BY <1>2, <1>5, <2>1, <2>8, <2>9 DEF OwnersAreClients, DescriptorIsClients, TypeOK
  <2>11. DeadListSound'
    <3>1. \A i \in 1 .. Len(dead_list) : dead_list[i] \in Fds /\ dead_list[i] # fd
      BY <2>5 DEF DeadListSound, TypeOK
    <3> QED BY <2>1, <2>8, <3>1 DEF DeadListSound
  <2>12. ListsAreKnown'
    BY <2>1 DEF ListsAreKnown
  <2> QED BY <2>1, <2>4, <2>6, <2>7, <2>10, <2>11, <2>12
<1> QED BY <1>6, <1>7

(* pselect returns subsets of what it was passed.                          *)
LEMMA SelectInv == IInv /\ Select => IInv'
<1> SUFFICES ASSUME IInv, Select PROVE IInv'
  OBVIOUS
<1> USE DEF IInv
<1>1. UNCHANGED <<net, clientsocks_fds, clientsocks_nfds, router, cnx, crash>> /\ pc' = "errors"
  BY DEF Select
<1>2. Kept
  BY <1>1 DEF Kept, net, router
<1>3. /\ work' \subseteq clientsocks_fds /\ select_readfds' \subseteq clientsocks_fds
      /\ select_writefds' \subseteq select_writefds
  BY DEF Select, Polled
<1>4. nb_act' \in Int
  <2> DEFINE reads  == {fd \in Polled(clientsocks_fds) : Readable(fdtab[fd])}
             writes == {fd \in Polled(select_writefds) : ReadyForWrite(fd)}
             errors == {fd \in Polled(clientsocks_fds) : ErrorFdsReported /\ link[fdtab[fd]] \in {"rst", "fail"}}
  <2>1. reads \subseteq 0 .. LastFd /\ writes \subseteq 0 .. LastFd /\ errors \subseteq 0 .. LastFd
    <3>1. Fds \subseteq 0 .. LastFd
      BY FdsAreNumbers
    <3>2. reads \subseteq clientsocks_fds /\ writes \subseteq select_writefds /\ errors \subseteq clientsocks_fds
      BY DEF Polled
    <3> QED BY <3>1, <3>2 DEF TypeOK
  <2>2. IsFiniteSet(0 .. LastFd)
    BY FdsAreNumbers, FS_Interval
  <2>3. Cardinality(reads) \in Nat /\ Cardinality(writes) \in Nat /\ Cardinality(errors) \in Nat
    BY <2>1, <2>2, FS_Subset, FS_CardinalityType
  <2>4. nb_act' = -1 \/ nb_act' = Cardinality(reads) + Cardinality(writes) + Cardinality(errors)
    BY DEF Select
  <2> HIDE DEF reads, writes, errors
  <2> QED BY <2>3, <2>4
<1>5. TypeOK'
  BY <1>1, <1>3, <1>4, FdsAreNumbers DEF TypeOK, net, router
<1>6. ListsAreKnown' /\ crash' # "assert_erase"
  BY <1>1, <1>3 DEF ListsAreKnown, MapIsBitmap, router
<1> QED BY <1>2, <1>5, <1>6, KeptInv

-----------------------------------------------------------------------------
(* The steps on one socket.                                                *)

(* stop() on the open socket of a connection of the map.                   *)
LEMMA Disconnection ==
  ASSUME IInv, NEW fd \in socket_map, cnx[fd].sock_open, socketDisconnected(fd),
         UNCHANGED <<clientsocks_fds, clientsocks_nfds, socket_map, nb_client_connections>>
  PROVE  /\ link' \in [Clients -> Links] /\ inbound' \in [Clients -> Seq(Request)]
         /\ fdtab' \in [Fds -> Clients \cup {NoClient}] /\ cnx' \in [Fds -> Connection]
         /\ MapIsBitmap' /\ CountIsSize' /\ NfdsIsHighest'
         /\ OwnersAreClients' /\ DescriptorIsClients'
         /\ ~cnx'[fd].sock_open /\ \A s \in Fds : s # fd => cnx'[s] = cnx[s]
<1> USE DEF IInv
<1>1. fd \in Fds /\ cnx[fd] \in Connection
  BY DEF TypeOK
<1> DEFINE down == Stopped(cnx[fd], "DISCONNECTED")
<1>2. down \in Connection /\ down.addr = cnx[fd].addr /\ ~down.sock_open
  <2>1. [cnx[fd].session EXCEPT !.state = "DISCONNECTED"] \in Session
    BY <1>1 DEF Connection, Session, State
  <2>2. <<>> \in Seq(Reply) /\ <<>> \in Seq(Request)
    OBVIOUS
  <2>3. (IF cnx[fd].tx_req = NoReq THEN NoReq ELSE Served) \in Reply \cup {NoReq, Served}
    OBVIOUS
  <2> QED BY <1>1, <2>1, <2>2, <2>3 DEF Stopped, Connection
<1>3. cnx' = [cnx EXCEPT ![fd] = down]
  BY <1>1 DEF socketDisconnected, TypeOK
<1> HIDE DEF down
<1>4. link' \in [Clients -> Links] /\ inbound' \in [Clients -> Seq(Request)]
  <2>1. "gone" \in Links /\ <<>> \in Seq(Request)
    BY DEF Links
  <2> QED BY <2>1 DEF socketDisconnected, TypeOK
<1>5. fdtab' \in [Fds -> Clients \cup {NoClient}] /\ \A s \in Fds : s # fd => fdtab'[s] = fdtab[s]
  BY DEF socketDisconnected, TypeOK
<1>6. cnx' \in [Fds -> Connection] /\ cnx'[fd] = down /\ \A s \in Fds : s # fd => cnx'[s] = cnx[s]
  BY <1>1, <1>2, <1>3 DEF TypeOK
<1>7. MapIsBitmap' /\ CountIsSize' /\ NfdsIsHighest'
  BY DEF MapIsBitmap, CountIsSize, NfdsIsHighest
<1>8. OwnersAreClients' /\ DescriptorIsClients'
  BY <1>2, <1>5, <1>6 DEF OwnersAreClients, DescriptorIsClients, TypeOK
<1> QED BY <1>2, <1>4, <1>5, <1>6, <1>7, <1>8

LEMMA ErrorInv == ASSUME IInv, NEW fd \in 0 .. LastFd, HandleSocketError(fd) PROVE IInv'
<1> USE DEF IInv
<1>1. /\ pc = "errors" /\ fd \in work /\ fd \in socket_map /\ work \subseteq socket_map
      /\ select_readfds \subseteq socket_map
      /\ UNCHANGED <<clientsocks_fds, clientsocks_nfds, router>>
  BY DEF HandleSocketError, IsNext, ListsAreKnown
<1>2. CASE ErrorOf(fd) = "rst"
  <2>1. /\ socketDisconnected(fd)
        /\ select_readfds' = select_readfds \ {fd} /\ select_writefds' = select_writefds \ {fd}
        /\ nb_act' = nb_act - 1 - Cardinality({fd} \cap select_readfds)
                                - Cardinality({fd} \cap select_writefds)
        /\ work' = work \ {fd} /\ UNCHANGED <<pc, crash>>
    BY <1>2 DEF HandleSocketError
  <2>2. cnx[fd].sock_open
    BY <1>2, <1>1 DEF ErrorOf, TypeOK, Connection
  <2>3. nb_act' \in Int
    <3>1. \A set : Cardinality({fd} \cap set) \in Nat
      BY FS_Singleton, FS_Subset, FS_CardinalityType
    <3>2. nb_act \in Int
      BY DEF TypeOK
    <3> QED BY <2>1, <3>1, <3>2
  <2>4. DeadListSound'
    <3>1. \A i \in 1 .. Len(dead_list) : dead_list[i] \in Fds /\ dead_list[i] # fd
      BY <2>2 DEF DeadListSound, TypeOK
    <3> QED BY <1>1, <2>1, <2>2, <3>1, Disconnection DEF DeadListSound, router
  <2>5. TypeOK'
    BY <1>1, <2>1, <2>2, <2>3, Disconnection DEF TypeOK, router, socketDisconnected
  <2>6. ListsAreKnown'
    BY <1>1, <2>1 DEF ListsAreKnown, router
  <2> QED BY <1>1, <2>1, <2>2, <2>4, <2>5, <2>6, Disconnection DEF router
<1>3. CASE ErrorOf(fd) # "rst"
  <2>1. /\ UNCHANGED <<cnx, fdtab, full, inbound, received, nb_req, backlog, select_readfds,
                       select_writefds, crash>>
        /\ link' \in [Clients -> Links] /\ nb_act' \in Int /\ work' \subseteq work
        /\ pc' \in {"accept", "errors"}
    <3>1. CASE ErrorOf(fd) = "exception"
      BY <1>3, <3>1 DEF HandleSocketError, Throw, TypeOK, net
    <3>2. CASE ErrorOf(fd) = "fail"
      <4>1. link' \in [Clients -> Links]
        BY <3>2 DEF HandleSocketError, ConsumeError, TypeOK, Links
      <4> QED BY <3>2, <4>1 DEF HandleSocketError, Throw, ConsumeError
    <3>3. CASE ErrorOf(fd) \notin {"rst", "exception", "fail"}
      BY <1>1, <3>3 DEF HandleSocketError, TypeOK, net
    <3> QED BY <1>3, <3>1, <3>2, <3>3
  <2>2. TypeOK'
    BY <1>1, <2>1 DEF TypeOK, router
  <2>3. Kept
    BY <1>1, <2>1 DEF Kept, router
  <2>4. ListsAreKnown'
    BY <1>1, <2>1 DEF ListsAreKnown, router
  <2> QED BY <2>1, <2>2, <2>3, <2>4, KeptInv
<1> QED BY <1>2, <1>3

(* recvNextData appends what it reads to rx_fifo.                          *)
LEMMA ReadAllTyped ==
  ASSUME IInv, NEW fd \in socket_map, cnx[fd].sock_open, ReadAll(fd)
  PROVE  /\ cnx' \in [Fds -> Connection] /\ inbound' \in [Clients -> Seq(Request)]
         /\ \A s \in Fds : cnx'[s].addr = cnx[s].addr /\ cnx'[s].sock_open = cnx[s].sock_open
<1> USE DEF IInv
<1>1. fd \in Fds /\ cnx[fd] \in Connection /\ fdtab[fd] \in Clients
  BY DEF TypeOK, OwnersAreClients, DescriptorIsClients
<1>2. cnx[fd].rx_fifo \o inbound[fdtab[fd]] \in Seq(Request)
  BY <1>1 DEF TypeOK, Connection
<1> DEFINE read == [cnx[fd] EXCEPT !.rx_fifo = @ \o inbound[fdtab[fd]]]
<1>3. read \in Connection /\ read.addr = cnx[fd].addr /\ read.sock_open = cnx[fd].sock_open
  BY <1>1, <1>2 DEF Connection
<1>4. cnx' = [cnx EXCEPT ![fd] = read]
  BY DEF ReadAll
<1>5. inbound' \in [Clients -> Seq(Request)]
  <2>1. <<>> \in Seq(Request)
    OBVIOUS
  <2> QED BY <2>1 DEF ReadAll, TypeOK
<1> HIDE DEF read
<1> QED BY <1>1, <1>3, <1>4, <1>5 DEF TypeOK

LEMMA ReceptionInv == ASSUME IInv, NEW fd \in 0 .. LastFd, ServeReception(fd) PROVE IInv'
<1> USE DEF IInv
<1>1. /\ pc = "receptions" /\ fd \in work /\ fd \in socket_map /\ work \subseteq socket_map
      /\ select_readfds \subseteq socket_map
      /\ UNCHANGED <<sets, socket_map, nb_client_connections>>
  BY DEF ServeReception, IsNext, ListsAreKnown
<1>2. CASE cnx[fd].sock_open /\ link[fdtab[fd]] = "rst"
  <2>1. /\ socketDisconnected(fd) /\ dead_list' = Append(dead_list, fd)
        /\ nb_act' = nb_act - 1 /\ work' = work \ {fd} /\ UNCHANGED <<pc, crash>>
    BY <1>1, <1>2 DEF ServeReception, PushDead
  <2>2. DeadListSound'
    <3>1. \A i \in 1 .. Len(dead_list) : dead_list[i] \in Fds /\ dead_list[i] # fd
      BY <1>2 DEF DeadListSound, TypeOK
    <3>2. /\ Len(dead_list') = Len(dead_list) + 1 /\ dead_list'[Len(dead_list) + 1] = fd
          /\ \A i \in 1 .. Len(dead_list) : dead_list'[i] = dead_list[i]
          /\ Len(dead_list) \in Nat
      BY <1>1, <2>1 DEF TypeOK
    <3>3. ~cnx'[fd].sock_open /\ \A s \in Fds : s # fd => cnx'[s] = cnx[s]
      BY <1>1, <1>2, <2>1, Disconnection DEF sets
    <3>4. \A i \in 1 .. Len(dead_list') : i \in 1 .. Len(dead_list) \/ i = Len(dead_list) + 1
      BY <3>2
    <3> QED BY <1>1, <3>1, <3>2, <3>3, <3>4 DEF DeadListSound
  <2>3. TypeOK'
    <3>1. dead_list' \in Seq(Fds) /\ nb_act' \in Int /\ work' \subseteq 0 .. LastFd
      BY <1>1, <2>1 DEF TypeOK
    <3>2. /\ link' \in [Clients -> Links] /\ inbound' \in [Clients -> Seq(Request)]
          /\ fdtab' \in [Fds -> Clients \cup {NoClient}] /\ cnx' \in [Fds -> Connection]
      BY <1>1, <1>2, <2>1, Disconnection DEF sets
    <3> QED BY <1>1, <2>1, <3>1, <3>2 DEF TypeOK, sets, socketDisconnected
  <2>4. ListsAreKnown'
    BY <1>1, <2>1 DEF ListsAreKnown, sets
  <2> QED BY <1>1, <1>2, <2>1, <2>2, <2>3, <2>4, Disconnection DEF sets
<1>3. CASE ~(cnx[fd].sock_open /\ link[fdtab[fd]] = "rst")
  <2>1. /\ UNCHANGED <<fdtab, full, received, nb_req, backlog, crash, dead_list>>
        /\ link' \in [Clients -> Links] /\ inbound' \in [Clients -> Seq(Request)]
        /\ cnx' \in [Fds -> Connection]
        /\ \A s \in Fds : cnx'[s].addr = cnx[s].addr /\ cnx'[s].sock_open = cnx[s].sock_open
        /\ nb_act' \in Int /\ work' \subseteq work /\ pc' \in {"accept", "handle"}
    <3>1. CASE ~cnx[fd].sock_open
      BY <1>1, <3>1 DEF ServeReception, Throw, TypeOK, net
    <3>2. CASE cnx[fd].sock_open /\ link[fdtab[fd]] = "fail"
      <4>1. ReadAll(fd) /\ ConsumeError(fdtab[fd]) /\ Throw /\ UNCHANGED dead_list
        BY <1>1, <3>2 DEF ServeReception
      <4>2. link' \in [Clients -> Links]
        BY <4>1 DEF ConsumeError, TypeOK, Links
      <4> QED BY <1>1, <3>2, <4>1, <4>2, ReadAllTyped DEF ConsumeError, Throw
    <3>3. CASE cnx[fd].sock_open /\ link[fdtab[fd]] \notin {"rst", "fail"}
      <4>1. /\ ReadAll(fd) /\ pc' = "handle"
            /\ UNCHANGED <<link, full, received, nb_req, backlog, fdtab, work, nb_act, crash, dead_list>>
        BY <1>1, <3>3 DEF ServeReception
      <4> QED BY <1>1, <3>3, <4>1, ReadAllTyped DEF TypeOK
    <3> QED BY <1>3, <3>1, <3>2, <3>3
  <2>2. TypeOK'
    BY <1>1, <2>1 DEF TypeOK, sets
  <2>3. Kept
    BY <1>1, <2>1 DEF Kept, sets
  <2>4. ListsAreKnown'
    BY <1>1, <2>1 DEF ListsAreKnown, sets
  <2> QED BY <2>1, <2>2, <2>3, <2>4, KeptInv
<1> QED BY <1>2, <1>3

LEMMA MessageInv == ASSUME IInv, NEW fd \in 0 .. LastFd, HandleMessage(fd) PROVE IInv'
<1> USE DEF IInv
<1>1. /\ pc = "handle" /\ fd \in socket_map /\ fd \in Fds
      /\ UNCHANGED <<net, clientsocks_fds, clientsocks_nfds, select_readfds, router>>
  BY DEF HandleMessage, IsNext, ListsAreKnown, TypeOK
<1> DEFINE conn == cnx[fd]
           out  == handle_client_message(conn.session, Head(conn.rx_fifo))
           done == [conn EXCEPT !.session = out.session, !.tx_fifo = @ \o out.sent, !.rx_fifo = Tail(@)]
<1>2. conn \in Connection /\ conn.rx_fifo # <<>>
  BY <1>1 DEF HandleMessage, TypeOK
<1>3. /\ conn.session \in Session /\ Head(conn.rx_fifo) \in Request
      /\ Tail(conn.rx_fifo) \in Seq(Request) /\ conn.tx_fifo \in Seq(Reply)
  BY <1>2 DEF Connection
<1>4. out.session \in Session /\ out.sent \in Seq(Reply)
  BY <1>3, HandlersTyped
<1>5. cnx' = [cnx EXCEPT ![fd] = done]
  BY DEF HandleMessage
<1>6. done \in Connection /\ done.addr = conn.addr /\ done.sock_open = conn.sock_open
  <2> HIDE DEF out, conn
  <2> DEFINE sent == conn.tx_fifo \o out.sent
             rest == Tail(conn.rx_fifo)
  <2>1. sent \in Seq(Reply) /\ rest \in Seq(Request)
    BY <1>2, <1>3, <1>4 DEF Connection
  <2>2. done = [conn EXCEPT !.session = out.session, !.tx_fifo = sent, !.rx_fifo = rest]
    BY DEF Connection
  <2> HIDE DEF done, sent, rest
  <2> QED BY <1>2, <1>3, <1>4, <2>1, <2>2 DEF Connection
<1>7. /\ select_writefds' \subseteq 0 .. LastFd
      /\ pc' \in {"handle", "aborted"} /\ work' \subseteq work /\ nb_act' \in Int
      /\ crash' \in {crash, "assert_message"}
  <2>1. /\ select_writefds' \in {select_writefds, OutgoingDataForClient(fd)}
        /\ UNCHANGED <<pc, work, nb_act, crash>> \/ Abort("assert_message")
    BY DEF HandleMessage
  <2>2. select_writefds \subseteq 0 .. LastFd /\ nb_act \in Int
    BY DEF TypeOK
  <2> QED BY <1>1, <2>1, <2>2 DEF OutgoingDataForClient, Abort
<1> HIDE DEF done, out
<1>8. /\ cnx' \in [Fds -> Connection]
      /\ \A s \in Fds : cnx'[s].addr = cnx[s].addr /\ cnx'[s].sock_open = cnx[s].sock_open
  BY <1>1, <1>5, <1>6 DEF TypeOK
<1>9. TypeOK'
  BY <1>1, <1>7, <1>8 DEF TypeOK, net, router
<1>10. Kept
  BY <1>1, <1>8 DEF Kept, net, router
<1>11. ListsAreKnown'
  BY <1>1, <1>7 DEF ListsAreKnown, router
<1> QED BY <1>7, <1>9, <1>10, <1>11, KeptInv

LEMMA EndReceptionInv == ASSUME IInv, NEW fd \in 0 .. LastFd, EndReception(fd) PROVE IInv'
<1> USE DEF IInv
<1>1. /\ pc = "handle" /\ pc' = "receptions" /\ work' \subseteq work /\ nb_act' = nb_act - 1
      /\ UNCHANGED <<net, sets, router, cnx, crash>>
  BY DEF EndReception
<1>2. TypeOK'
  BY <1>1 DEF TypeOK, net, sets, router
<1>3. Kept
  BY <1>1 DEF Kept, net, sets, router
<1>4. ListsAreKnown'
  BY <1>1 DEF ListsAreKnown, sets, router
<1> QED BY <1>1, <1>2, <1>3, <1>4, KeptInv

(* Sending moves the head of tx_fifo, or marks the request served.         *)
LEMMA PoppedTyped ==
  ASSUME IInv, NEW fd \in socket_map, cnx[fd].tx_fifo # <<>>,
         NEW req \in Reply \cup {NoReq, Served}, Popped(fd, req)
  PROVE  /\ cnx' \in [Fds -> Connection] /\ nb_act' \in Int /\ work' \subseteq work /\ pc' = pc
         /\ crash' = crash
         /\ \A s \in Fds : cnx'[s].addr = cnx[s].addr /\ cnx'[s].sock_open = cnx[s].sock_open
<1> USE DEF IInv
<1>1. fd \in Fds /\ cnx[fd] \in Connection
  BY DEF TypeOK
<1> DEFINE pop == [cnx[fd] EXCEPT !.tx_req = req, !.tx_fifo = Tail(@)]
<1>2. pop \in Connection /\ pop.addr = cnx[fd].addr /\ pop.sock_open = cnx[fd].sock_open
  <2>1. Tail(cnx[fd].tx_fifo) \in Seq(Reply)
    BY <1>1 DEF Connection
  <2> QED BY <1>1, <2>1 DEF Connection
<1>3. cnx' = [cnx EXCEPT ![fd] = pop]
  BY DEF Popped
<1> HIDE DEF pop
<1>4. cnx' \in [Fds -> Connection]
      /\ \A s \in Fds : cnx'[s].addr = cnx[s].addr /\ cnx'[s].sock_open = cnx[s].sock_open
  BY <1>1, <1>2, <1>3 DEF TypeOK
<1>5. nb_act \in Int
  BY DEF TypeOK
<1> QED BY <1>4, <1>5 DEF Popped

LEMMA EmissionInv ==
  ASSUME IInv, NEW fd \in 0 .. LastFd,
         \/ EmissionOutOfRange(fd) \/ EmissionDone(fd) \/ EmissionSend(fd) \/ EmissionBlocked(fd)
         \/ EmissionAfterBlocked(fd) \/ EmissionDisconnected(fd)
  PROVE  IInv'
<1> USE DEF IInv
<1>1. /\ UNCHANGED <<clientsocks_fds, clientsocks_nfds, select_readfds, router, fdtab, full, nb_req, backlog>>
      /\ pc = "emissions"
  BY DEF EmissionOutOfRange, EmissionDone, EmissionSend, EmissionBlocked, EmissionAfterBlocked,
     EmissionDisconnected, Sending, ConsumeError, net, sets
<1> DEFINE Typed == /\ link' \in [Clients -> Links] /\ inbound' \in [Clients -> Seq(Request)]
                    /\ received' \in [Clients -> Seq(Reply)]
                    /\ cnx' \in [Fds -> Connection]
                    /\ select_writefds' \subseteq 0 .. LastFd
                    /\ nb_act' \in Int /\ work' \subseteq 0 .. LastFd
                    /\ pc' \in {"emissions", "aborted"}
                    /\ crash' \in {crash, "out_of_range", "assert_tx", "null_pointer", "sigpipe"}
           Same == \A s \in Fds : cnx'[s].addr = cnx[s].addr /\ cnx'[s].sock_open = cnx[s].sock_open
<1>2. ASSUME EmissionOutOfRange(fd) \/ EmissionAfterBlocked(fd) \/ EmissionDisconnected(fd)
      PROVE  Typed /\ Same
  <2>1. UNCHANGED <<net, sets, cnx>> /\ work' = {} /\ nb_act' = 0 /\ pc' = "aborted"
        /\ crash' \in {"out_of_range", "assert_tx", "null_pointer", "sigpipe"}
    BY <1>2 DEF EmissionOutOfRange, EmissionAfterBlocked, EmissionDisconnected, Sending, Abort
  <2> QED BY <2>1 DEF TypeOK, net, sets
<1>3. ASSUME EmissionDone(fd)
      PROVE  Typed /\ Same
  <2>1. fd \in Fds /\ cnx[fd] \in Connection
    BY <1>3 DEF EmissionDone, TypeOK
  <2> DEFINE idle == [cnx[fd] EXCEPT !.tx_req = NoReq]
  <2>2. idle \in Connection /\ idle.addr = cnx[fd].addr /\ idle.sock_open = cnx[fd].sock_open
    BY <2>1 DEF Connection
  <2>3. cnx' = [cnx EXCEPT ![fd] = idle]
    BY <1>3 DEF EmissionDone
  <2> HIDE DEF idle
  <2>4. cnx' \in [Fds -> Connection] /\ Same
    BY <2>1, <2>2, <2>3 DEF TypeOK
  <2> QED BY <1>3, <2>4 DEF EmissionDone, TypeOK, net
<1>4. ASSUME EmissionSend(fd)
      PROVE  Typed /\ Same
  <2>1. fd \in socket_map /\ cnx[fd].tx_fifo # <<>> /\ Popped(fd, Served) /\ select_writefds' = select_writefds
    BY <1>4 DEF EmissionSend, Sending, sets
  <2>2. cnx[fd] \in Connection
    BY <2>1 DEF TypeOK
  <2>3. Head(cnx[fd].tx_fifo) \in Reply
    BY <2>1, <2>2 DEF Connection
  <2>4. received' \in [Clients -> Seq(Reply)]
    <3>1. fdtab[fd] \in Clients
      BY <1>4, <2>1 DEF EmissionSend, OwnersAreClients, DescriptorIsClients
    <3>2. Append(received[fdtab[fd]], Head(cnx[fd].tx_fifo)) \in Seq(Reply)
      BY <2>3, <3>1 DEF TypeOK
    <3>3. received' = [received EXCEPT ![fdtab[fd]] = Append(@, Head(cnx[fd].tx_fifo))]
      BY <1>4 DEF EmissionSend
    <3> QED BY <3>1, <3>2, <3>3 DEF TypeOK
  <2>5. link' \in [Clients -> Links] /\ inbound' = inbound
    BY <1>4 DEF EmissionSend, TypeOK, Links
  <2> QED BY <1>1, <2>1, <2>4, <2>5, PoppedTyped DEF TypeOK
<1>5. ASSUME EmissionBlocked(fd)
      PROVE  Typed /\ Same
  <2>1. /\ fd \in socket_map /\ cnx[fd].tx_fifo # <<>> /\ Popped(fd, Head(cnx[fd].tx_fifo))
        /\ select_writefds' = select_writefds
    BY <1>5 DEF EmissionBlocked, Sending, sets
  <2>2. cnx[fd] \in Connection
    BY <2>1 DEF TypeOK
  <2>3. Head(cnx[fd].tx_fifo) \in Reply
    BY <2>1, <2>2 DEF Connection
  <2>4. link' \in [Clients -> Links] /\ inbound' = inbound /\ received' = received
    BY <1>5 DEF EmissionBlocked, ConsumeError, TypeOK, Links, net
  <2> QED BY <1>1, <2>1, <2>3, <2>4, PoppedTyped DEF TypeOK
<1>6. Typed /\ Same
  <2> HIDE DEF Typed, Same
  <2> QED BY <1>2, <1>3, <1>4, <1>5
<1>7. TypeOK'
  BY <1>1, <1>6 DEF TypeOK, router
<1>8. Kept
  BY <1>1, <1>6 DEF Kept, router
<1>9. ListsAreKnown'
  BY <1>6 DEF ListsAreKnown
<1> QED BY <1>6, <1>7, <1>8, <1>9, KeptInv

-----------------------------------------------------------------------------
(* The end of a cycle.                                                     *)
LEMMA CheckInv == IInv /\ CheckCount => IInv'
<1> SUFFICES ASSUME IInv, CheckCount PROVE IInv'
  OBVIOUS
<1> USE DEF IInv
<1>1. /\ UNCHANGED <<net, sets, router, cnx>> /\ pc' \in {"release", "aborted"}
      /\ work' \subseteq 0 .. LastFd /\ nb_act' \in Int /\ crash' \in {crash, "assert_nb_act"}
  <2>1. CASE nb_act = 0
    BY <2>1 DEF CheckCount, TypeOK
  <2>2. CASE nb_act # 0
    BY <2>2 DEF CheckCount, Abort
  <2> QED BY <2>1, <2>2
<1>2. TypeOK'
  BY <1>1 DEF TypeOK, net, sets, router
<1>3. Kept
  BY <1>1 DEF Kept, net, sets, router
<1>4. ListsAreKnown'
  BY <1>1 DEF ListsAreKnown
<1> QED BY <1>1, <1>2, <1>3, <1>4, KeptInv

(* The highest descriptor is found again when the highest one is released. *)
LEMMA HighestBelowIsHighest ==
  ASSUME NEW fd \in Fds, NEW set \in SUBSET Fds, \A s \in set : s < fd
  PROVE  /\ HighestBelow(fd, set) \in 0 .. (LastFd + 1)
         /\ \A s \in set : s < HighestBelow(fd, set)
         /\ HighestBelow(fd, set) # 0 => HighestBelow(fd, set) - 1 \in set
<1> DEFINE lower == {s \in set : s > 0 /\ s < fd}
           top == CHOOSE s \in lower : \A t \in lower : t <= s
<1>1. lower = set
  BY FdsAreNumbers
<1>2. HighestBelow(fd, set) = IF lower = {} THEN 0 ELSE top + 1
  BY DEF HighestBelow
<1>3. CASE lower = {}
  BY <1>1, <1>2, <1>3, FdsAreNumbers
<1>4. CASE lower # {}
  <2>1. \E s \in lower : \A t \in lower : t <= s
    BY <1>1, <1>4, HighestExists
  <2>2. top \in lower /\ \A t \in lower : t <= top
    BY <2>1
  <2> HIDE DEF top, lower
  <2> QED BY <1>1, <1>2, <1>4, <2>2, FdsAreNumbers
<1> QED BY <1>3, <1>4

(* Releasing the head of dead_list finds it in the map, and leaves the map,*)
(* the bitmap, the count and the highest descriptor in agreement.          *)
LEMMA ReleaseInv == IInv /\ Release => IInv'
<1> SUFFICES ASSUME IInv, Release PROVE IInv'
  OBVIOUS
<1> USE DEF IInv
<1> DEFINE fd == Head(dead_list)
<1>1. /\ pc = "release" /\ dead_list # <<>> /\ ReleaseClientConnection(fd)
      /\ dead_list' = Tail(dead_list) /\ UNCHANGED net
  BY DEF Release
<1>2. /\ dead_list \in Seq(Fds) /\ Len(dead_list) \in Nat /\ Len(dead_list) >= 1 /\ fd = dead_list[1]
  BY <1>1 DEF TypeOK
<1>3. fd \in socket_map /\ fd \in Fds /\ fd \in Nat
  BY <1>2, FdsAreNumbers DEF DeadListSound, TypeOK
<1> HIDE DEF fd
<1>4. /\ clientsocks_fds' = clientsocks_fds \ {fd} /\ select_writefds' = select_writefds \ {fd}
      /\ clientsocks_nfds' = IF fd + 1 = clientsocks_nfds
                             THEN HighestBelow(fd, clientsocks_fds \ {fd}) ELSE clientsocks_nfds
      /\ socket_map' = socket_map \ {fd} /\ cnx' = [cnx EXCEPT ![fd] = NewConnection(NoClient)]
      /\ nb_client_connections' = nb_client_connections - 1
      /\ UNCHANGED <<select_readfds, pc, work, nb_act, crash>>
  BY <1>1, <1>3 DEF ReleaseClientConnection
<1>5. NfdsIsHighest' /\ clientsocks_nfds' \in 0 .. (LastFd + 1)
  <2>1. CASE fd + 1 = clientsocks_nfds
    <3>1. \A s \in clientsocks_fds \ {fd} : s < fd
      BY <1>3, <2>1, FdsAreNumbers DEF NfdsIsHighest, TypeOK
    <3>2. clientsocks_fds \ {fd} \in SUBSET Fds
      BY DEF TypeOK
    <3> QED BY <1>3, <1>4, <2>1, <3>1, <3>2, HighestBelowIsHighest DEF NfdsIsHighest
  <2>2. CASE fd + 1 # clientsocks_nfds
    BY <1>3, <1>4, <2>2 DEF NfdsIsHighest, TypeOK
  <2> QED BY <2>1, <2>2
<1>6. TypeOK'
  <2>1. NewConnection(NoClient) \in Connection
    BY DEF NewConnection, Connection, NewSession, Session, State, RejCause
  <2>2. Tail(dead_list) \in Seq(Fds)
    BY <1>1, <1>2
  <2>3. cnx' \in [Fds -> Connection] /\ dead_list' \in Seq(Fds)
    BY <1>1, <1>4, <2>1, <2>2 DEF TypeOK
  <2>4. nb_client_connections' \in Int /\ UNCHANGED <<select_readfds, pc, work, nb_act, crash>>
    BY <1>4 DEF TypeOK
  <2>5. /\ clientsocks_fds' \subseteq Fds /\ socket_map' \subseteq Fds
        /\ select_writefds' \subseteq 0 .. LastFd
    BY <1>4 DEF TypeOK
  <2> QED BY <1>1, <1>5, <2>3, <2>4, <2>5 DEF TypeOK, net
<1>7. MapIsBitmap'
  BY <1>4 DEF MapIsBitmap
<1>8. CountIsSize'
  BY <1>3, <1>4, MapIsFinite, FS_RemoveElement, FS_CardinalityType DEF CountIsSize
<1>9. \A s \in Fds : s # fd => cnx'[s] = cnx[s]
  BY <1>4 DEF TypeOK
<1>10. OwnersAreClients' /\ DescriptorIsClients'
  BY <1>1, <1>4, <1>9 DEF OwnersAreClients, DescriptorIsClients, TypeOK, net
<1>11. DeadListSound'
  <2>1. /\ Len(dead_list') = Len(dead_list) - 1
        /\ \A i \in 1 .. Len(dead_list') : dead_list'[i] = dead_list[i + 1]
    BY <1>1, <1>2
  <2>2. \A i \in 1 .. Len(dead_list') :
          i + 1 \in 1 .. Len(dead_list) /\ 1 \in 1 .. Len(dead_list) /\ i + 1 # 1
    BY <1>2, <2>1
  <2>0. /\ \A i \in 1 .. Len(dead_list) : dead_list[i] \in socket_map /\ ~cnx[dead_list[i]].sock_open
        /\ \A i, j \in 1 .. Len(dead_list) : i # j => dead_list[i] # dead_list[j]
    BY DEF DeadListSound
  <2>3. \A i \in 1 .. Len(dead_list') : dead_list'[i] \in socket_map /\ dead_list'[i] # fd
                                        /\ ~cnx[dead_list'[i]].sock_open
    BY <1>2, <2>0, <2>1, <2>2
  <2>5. socket_map \subseteq Fds
    BY DEF TypeOK
  <2>4. \A i, j \in 1 .. Len(dead_list') : i # j => dead_list'[i] # dead_list'[j]
    <3>1. \A i, j \in 1 .. Len(dead_list') : i # j => i + 1 # j + 1
      BY <1>2, <2>1
    <3> QED BY <2>0, <2>1, <2>2, <3>1
  <2> QED BY <1>4, <1>9, <2>3, <2>4, <2>5 DEF DeadListSound
<1>12. ListsAreKnown'
  BY <1>1, <1>4 DEF ListsAreKnown
<1> QED BY <1>4, <1>5, <1>6, <1>7, <1>8, <1>10, <1>11, <1>12

-----------------------------------------------------------------------------
LEMMA NextInv == IInv /\ [Next]_vars => IInv'
<1> SUFFICES ASSUME IInv, [Next]_vars PROVE IInv'
  OBVIOUS
<1>1. CASE UNCHANGED vars
  BY <1>1, LoopInv DEF vars, net, sets, router, IInv, TypeOK, MapIsBitmap, CountIsSize, NfdsIsHighest,
     OwnersAreClients, DescriptorIsClients, ListsAreKnown, DeadListSound
<1>2. CASE Network
  BY <1>2, NetworkInv
<1>3. CASE Aborted
  BY <1>3, LoopInv
<1>4. CASE Server
  <2>1. CASE \E fd \in 0 .. LastFd : ServeSocket(fd)
    BY <2>1, ErrorInv, ReceptionInv, MessageInv, EndReceptionInv, EmissionInv DEF ServeSocket
  <2>2. CASE AcceptConnection \/ Select
    BY <2>2, AcceptInv, SelectInv
  <2>3. CASE CheckCount \/ Release
    BY <2>3, CheckInv, ReleaseInv
  <2> QED BY <1>4, <2>1, <2>2, <2>3, LoopInv DEF Server
<1> QED BY <1>1, <1>2, <1>3, <1>4 DEF Next

LEMMA Invariance == Spec => []IInv
<1>1. Init => IInv
  BY InitInv
<1>2. IInv /\ [Next]_vars => IInv'
  BY NextInv
<1> QED BY <1>1, <1>2, PTL DEF Spec

(* Type correctness, for every value of the constants.                     *)
THEOREM TypeCorrect == Spec => []TypeOK
BY Invariance, PTL DEF IInv

(* The bitmap, the map, the count of connections and the first argument of *)
(* pselect always agree (CreateClientConnection, ReleaseClientConnection). *)
THEOREM RouterIsConsistent == Spec => []RouterConsistent
<1>1. IInv => RouterConsistent
  BY DEF IInv, RouterConsistent
<1> QED BY <1>1, Invariance, PTL

(* An open connection object owns its client's descriptor, however the     *)
(* kernel reuses the numbers: no message and no reply goes to another      *)
(* client's socket.                                                        *)
THEOREM DescriptorsAreClients == Spec => []DescriptorIsClients
BY Invariance, PTL DEF IInv

(* dead_list names each fallen connection once, in the map and stopped.    *)
THEOREM DeadListIsSound == Spec => []DeadListSound
BY Invariance, PTL DEF IInv

-----------------------------------------------------------------------------
(* When the memory of select_writefds happens to be zeroed, no list ever   *)
(* names an unknown socket.                                                *)
WInv == /\ WriteBitsAreConnections
        /\ pc = "emissions" => work \subseteq socket_map
        /\ crash # "out_of_range"

LEMMA WriteBitsStep == IInv /\ WInv /\ [Next]_vars => WInv'
<1> SUFFICES ASSUME IInv, WInv, [Next]_vars PROVE WInv'
  OBVIOUS
<1> USE DEF WInv, WriteBitsAreConnections
<1>0. MapIsBitmap /\ ListsAreKnown
  BY DEF IInv
<1>1. CASE UNCHANGED vars
  BY <1>1 DEF vars, sets, router
<1>2. CASE Network
  BY <1>2 DEF Network, AtSystemCall, sets, router
<1>3. CASE Aborted
  BY <1>3 DEF Aborted, vars, sets, router
<1>4. CASE NoPendingConnection \/ AcceptError \/ EndCycle
  BY <1>4 DEF NoPendingConnection, AcceptError, EndCycle, Throw, sets
<1>5. CASE AcceptConnection
  <2>1. PICK fd \in Fds : CreateClientConnection(fd, Head(backlog))
    BY <1>5 DEF AcceptConnection
  <2> QED BY <2>1 DEF CreateClientConnection, Throw, sets, router
<1>6. CASE StartReceptions \/ StartEmissions \/ EndEmissions
  BY <1>0, <1>6 DEF StartReceptions, StartEmissions, EndEmissions, NextList, MapIsBitmap, sets, router
<1>7. CASE Select
  BY <1>7 DEF Select, Polled
<1>8. CASE CheckCount
  BY <1>8 DEF CheckCount, Abort, sets, router
<1>9. CASE Release
  <2>1. ReleaseClientConnection(Head(dead_list)) /\ pc = "release"
    BY <1>9 DEF Release
  <2>2. /\ clientsocks_fds' = clientsocks_fds \ {Head(dead_list)}
        /\ select_writefds' = select_writefds \ {Head(dead_list)}
        /\ pc' \in {"release", "aborted"} /\ crash' \in {crash, "assert_erase"}
    BY <2>1 DEF ReleaseClientConnection, Abort
  <2> QED BY <2>2
<1>10. ASSUME NEW fd \in 0 .. LastFd, ServeSocket(fd) PROVE WInv'
  <2>1. CASE HandleSocketError(fd)
    <3>1. /\ select_writefds' \subseteq select_writefds /\ UNCHANGED <<clientsocks_fds, crash>>
          /\ pc' \in {"accept", "errors"}
      BY <2>1 DEF HandleSocketError, Throw
    <3> QED BY <3>1
  <2>2. CASE ServeReception(fd)
    <3>1. UNCHANGED <<select_writefds, clientsocks_fds, crash>> /\ pc' # "emissions"
      BY <2>2 DEF ServeReception, Throw, sets
    <3> QED BY <3>1
  <2>3. CASE HandleMessage(fd)
    <3>1. fd \in clientsocks_fds
      BY <1>0, <2>3 DEF HandleMessage, IsNext, ListsAreKnown, MapIsBitmap
    <3>2. /\ select_writefds' \subseteq select_writefds \cup {fd} /\ UNCHANGED clientsocks_fds
          /\ pc' \in {"handle", "aborted"} /\ crash' \in {crash, "assert_message"}
      BY <2>3 DEF HandleMessage, OutgoingDataForClient, Abort
    <3> QED BY <3>1, <3>2
  <2>4. CASE EndReception(fd)
    BY <2>4 DEF EndReception, sets
  <2>5. CASE EmissionOutOfRange(fd)
    BY <2>5 DEF EmissionOutOfRange, IsNext
  <2>6. CASE EmissionDone(fd)
    BY <2>6 DEF EmissionDone, router
  <2>7. CASE EmissionSend(fd) \/ EmissionBlocked(fd)
    BY <2>7 DEF EmissionSend, EmissionBlocked, Sending, Popped, sets, router
  <2>8. CASE EmissionAfterBlocked(fd) \/ EmissionDisconnected(fd)
    BY <2>8 DEF EmissionAfterBlocked, EmissionDisconnected, Sending, Abort, sets, router
  <2> QED BY <1>10, <2>1, <2>2, <2>3, <2>4, <2>5, <2>6, <2>7, <2>8 DEF ServeSocket
<1> QED BY <1>1, <1>2, <1>3, <1>4, <1>5, <1>6, <1>7, <1>8, <1>9, <1>10 DEF Next, Server

LEMMA WriteBitsInvariance ==
  ASSUME InitWriteFds = {{}}
  PROVE  Spec => []WInv
<1>1. Init => WInv
  BY DEF Init, WInv, WriteBitsAreConnections
<1>2. IInv /\ WInv /\ [Next]_vars => WInv'
  BY WriteBitsStep
<1> QED BY <1>1, <1>2, Invariance, PTL DEF Spec

(* The write bits are those of connections at every step, on one           *)
(* condition: that the uninitialised select_writefds starts empty.         *)
THEOREM WriteBitsAlwaysConnections ==
  ASSUME InitWriteFds = {{}}
  PROVE  Spec => []WriteBitsAreConnections
<1>1. WInv => WriteBitsAreConnections
  BY DEF WInv
<1> QED BY <1>1, WriteBitsInvariance, PTL

(* On the same condition no assertion of the router about its map          *)
(* (out_of_range, erase) ever fails.                                       *)
THEOREM RouterNeverLosesASocket ==
  ASSUME InitWriteFds = {{}}
  PROVE  Spec => []NoRouterBug
<1>1. IInv /\ WInv => NoRouterBug
  BY DEF IInv, WInv, NoRouterBug
<1> QED BY <1>1, Invariance, WriteBitsInvariance, PTL

-----------------------------------------------------------------------------
(* As long as no send buffer fills up, pselect hands every write bit back. *)
PInv == /\ full = [c \in Clients |-> FALSE]
        /\ \A fd \in socket_map : cnx[fd].tx_fifo # <<>> => fd \in select_writefds

LEMMA ScheduledStep ==
  ASSUME "full" \notin Faults, IInv, WInv, PInv, [Next]_vars
  PROVE  PInv'
<1> USE DEF PInv
<1>0. /\ socket_map \subseteq Fds /\ cnx \in [Fds -> Connection]
      /\ fdtab \in [Fds -> Clients \cup {NoClient}]
      /\ socket_map = clientsocks_fds /\ NfdsIsHighest /\ select_writefds \subseteq clientsocks_fds
      /\ pc = "handle" => work \subseteq socket_map
  BY DEF IInv, WInv, TypeOK, MapIsBitmap, WriteBitsAreConnections, ListsAreKnown
<1>1. CASE UNCHANGED vars \/ Aborted
  BY <1>1 DEF vars, net, sets, router, Aborted
<1>2. CASE Network
  BY <1>2 DEF Network, Connect, Close, Reset, AnswerRst, Fail, Fill, Send, Break, sets, router
<1>3. CASE \/ NoPendingConnection \/ AcceptError \/ EndCycle \/ StartReceptions \/ StartEmissions
           \/ EndEmissions \/ CheckCount
  BY <1>3 DEF NoPendingConnection, AcceptError, EndCycle, StartReceptions, StartEmissions,
     EndEmissions, NextList, CheckCount, net, sets, router
<1>4. CASE AcceptConnection
  <2>1. PICK fd \in Fds : CreateClientConnection(fd, Head(backlog)) /\ UNCHANGED full
    BY <1>4 DEF AcceptConnection
  <2>2. CASE fd \in clientsocks_fds
    BY <2>1, <2>2 DEF CreateClientConnection, sets, router
  <2>3. CASE fd \notin clientsocks_fds
    <3>1. /\ cnx' = [cnx EXCEPT ![fd] = NewConnection(Head(backlog))]
          /\ socket_map' = socket_map \cup {fd} /\ UNCHANGED <<select_writefds, full>>
      BY <2>1, <2>3 DEF CreateClientConnection
    <3>2. cnx'[fd].tx_fifo = <<>> /\ \A other \in socket_map : other # fd => cnx'[other] = cnx[other]
      BY <1>0, <3>1 DEF NewConnection
    <3> QED BY <1>0, <3>1, <3>2
  <2> QED BY <2>2, <2>3
<1>5. CASE Select
  <2>1. UNCHANGED <<full, socket_map, cnx>>
    BY <1>5 DEF Select, net, router
  <2>2. select_writefds \subseteq select_writefds'
    <3>1. CASE UNCHANGED select_writefds BY <3>1
    <3>2. CASE /\ ~ \E fd \in Polled(clientsocks_fds \cup select_writefds) : ClosedFd(fd)
               /\ select_writefds' = {fd \in Polled(select_writefds) : ReadyForWrite(fd)}
      <4> SUFFICES ASSUME NEW fd \in select_writefds PROVE fd \in select_writefds'
        OBVIOUS
      <4>1. fd \in Fds /\ fd < clientsocks_nfds
        BY <1>0 DEF NfdsIsHighest
      <4>2. fdtab[fd] \in Clients
        BY <1>0, <3>2, <4>1 DEF Polled, ClosedFd
      <4>3. ReadyForWrite(fd)
        BY <4>1, <4>2 DEF ReadyForWrite, Writable
      <4> QED BY <3>2, <4>1, <4>3 DEF Polled
    <3> QED BY <1>5, <3>1, <3>2 DEF Select
  <2> QED BY <2>1, <2>2
<1>6. CASE Release
  <2> DEFINE fd == Head(dead_list)
  <2>1. /\ cnx' = [cnx EXCEPT ![fd] = NewConnection(NoClient)]
        /\ socket_map' = socket_map \ {fd} /\ select_writefds' = select_writefds \ {fd}
        /\ UNCHANGED full
    BY <1>6 DEF Release, ReleaseClientConnection, net
  <2>2. \A other \in socket_map : other # fd => cnx'[other] = cnx[other]
    BY <1>0, <2>1
  <2> QED BY <2>1, <2>2
<1>7. ASSUME NEW fd \in 0 .. LastFd, ServeSocket(fd) PROVE PInv'
  <2>1. UNCHANGED <<full, socket_map>>
    BY <1>7 DEF ServeSocket, HandleSocketError, socketDisconnected, ConsumeError, ServeReception,
       ReadAll, HandleMessage, EndReception, EmissionOutOfRange, EmissionDone, EmissionSend,
       EmissionBlocked, Sending, EmissionAfterBlocked, EmissionDisconnected, net, router
  <2>2. /\ \A other \in socket_map : other # fd =>
             /\ cnx'[other].tx_fifo = cnx[other].tx_fifo
             /\ other \in select_writefds => other \in select_writefds'
        /\ fd \in socket_map /\ cnx'[fd].tx_fifo # <<>> => fd \in select_writefds'
    <3>1. CASE HandleSocketError(fd)
      <4>1. CASE ErrorOf(fd) = "rst"
        <5>1. /\ cnx' = [cnx EXCEPT ![fd] = Stopped(cnx[fd], "DISCONNECTED")]
              /\ select_writefds' = select_writefds \ {fd}
          BY <3>1, <4>1 DEF HandleSocketError, socketDisconnected
        <5>2. Stopped(cnx[fd], "DISCONNECTED").tx_fifo = <<>>
          BY <1>0 DEF Stopped, Connection
        <5> QED BY <1>0, <5>1, <5>2
      <4>2. CASE ErrorOf(fd) # "rst"
        BY <3>1, <4>2 DEF HandleSocketError
      <4> QED BY <4>1, <4>2
    <3>2. CASE ServeReception(fd)
      <4>1. /\ UNCHANGED select_writefds
            /\ \/ UNCHANGED cnx
               \/ cnx' = [cnx EXCEPT ![fd] = Stopped(cnx[fd], "DISCONNECTED")]
               \/ cnx' = [cnx EXCEPT ![fd].rx_fifo = @ \o inbound[fdtab[fd]]]
        BY <3>2 DEF ServeReception, socketDisconnected, ReadAll, sets
      <4>2. Stopped(cnx[fd], "DISCONNECTED").tx_fifo = <<>>
        BY <1>0 DEF Stopped, Connection
      <4>3. CASE cnx' = [cnx EXCEPT ![fd].rx_fifo = @ \o inbound[fdtab[fd]]]
        BY <1>0, <4>1, <4>3 DEF Connection
      <4>4. CASE cnx' = [cnx EXCEPT ![fd] = Stopped(cnx[fd], "DISCONNECTED")]
        BY <1>0, <4>1, <4>2, <4>4
      <4> QED BY <4>1, <4>3, <4>4
    <3>3. CASE HandleMessage(fd)
      <4> DEFINE out == handle_client_message(cnx[fd].session, Head(cnx[fd].rx_fifo))
      <4>1. /\ cnx' = [cnx EXCEPT ![fd].session = out.session,
                                  ![fd].tx_fifo = @ \o out.sent,
                                  ![fd].rx_fifo = Tail(@)]
            /\ select_writefds' = IF out.sent = <<>> THEN select_writefds
                                  ELSE OutgoingDataForClient(fd)
            /\ fd \in socket_map
        BY <1>0, <3>3 DEF HandleMessage, IsNext
      <4> HIDE DEF out
      <4>2. /\ cnx'[fd].tx_fifo = cnx[fd].tx_fifo \o out.sent
            /\ \A other \in socket_map : other # fd => cnx'[other] = cnx[other]
        BY <1>0, <4>1 DEF Connection
      <4>3. out.sent = <<>> => cnx'[fd].tx_fifo = cnx[fd].tx_fifo
        BY <1>0, <4>1, <4>2 DEF Connection
      <4> QED BY <4>1, <4>2, <4>3 DEF OutgoingDataForClient
    <3>4. CASE EndReception(fd)
      BY <3>4 DEF EndReception, sets
    <3>5. CASE \/ EmissionOutOfRange(fd) \/ EmissionAfterBlocked(fd) \/ EmissionDisconnected(fd)
      BY <3>5 DEF EmissionOutOfRange, EmissionAfterBlocked, EmissionDisconnected, Sending, sets
    <3>6. CASE EmissionDone(fd)
      <4>1. /\ cnx[fd].tx_fifo = <<>> /\ cnx' = [cnx EXCEPT ![fd].tx_req = NoReq]
            /\ select_writefds' = select_writefds \ {fd}
        BY <3>6 DEF EmissionDone
      <4> QED BY <1>0, <4>1 DEF Connection
    <3>7. CASE EmissionSend(fd) \/ EmissionBlocked(fd)
      <4>1. /\ UNCHANGED select_writefds /\ cnx[fd].tx_fifo # <<>> /\ fd \in socket_map
            /\ \E req : cnx' = [cnx EXCEPT ![fd].tx_req = req, ![fd].tx_fifo = Tail(@)]
        BY <3>7 DEF EmissionSend, EmissionBlocked, Sending, Popped, sets
      <4>2. \A other \in socket_map : other # fd => cnx'[other] = cnx[other]
        BY <1>0, <4>1
      <4> QED BY <4>1, <4>2
    <3> QED BY <1>7, <3>1, <3>2, <3>3, <3>4, <3>5, <3>6, <3>7 DEF ServeSocket
  <2> QED BY <2>1, <2>2
<1> QED BY <1>1, <1>2, <1>3, <1>4, <1>5, <1>6, <1>7 DEF Next, Server

(* As long as no client lets its send buffer fill up, a reply that waits   *)
(* between two cycles always has its write bit: a full buffer is the only  *)
(* way to lose one (ServeClientSockets, OutgoingDataForClient).            *)
THEOREM PendingIsAlwaysScheduled ==
  ASSUME InitWriteFds = {{}}, "full" \notin Faults
  PROVE  Spec => []PendingIsScheduled
<1>1. Init => PInv
  BY DEF Init, PInv
<1>2. IInv /\ WInv /\ PInv /\ [Next]_vars => PInv'
  BY ScheduledStep
<1>3. PInv => PendingIsScheduled
  BY DEF PInv, PendingIsScheduled
<1> QED BY <1>1, <1>2, <1>3, Invariance, WriteBitsInvariance, PTL DEF Spec

-----------------------------------------------------------------------------
(* The count that pselect returned is that of the sets the passes serve.   *)
CInv ==
  /\ pc = "errors" =>
       nb_act <= Cardinality(work) + Cardinality(select_readfds) + Cardinality(select_writefds)
  /\ pc \in {"receptions", "handle"} => nb_act <= Cardinality(work) + Cardinality(select_writefds)
  /\ pc = "emissions" => nb_act <= Cardinality(work)
  /\ pc = "end" => nb_act <= 0

LEMMA Counts ==
  ASSUME NEW T \in SUBSET (0 .. LastFd)
  PROVE  /\ Cardinality(T) \in Nat
         /\ \A x \in T : Cardinality(T \ {x}) = Cardinality(T) - 1 /\ Cardinality({x} \cap T) = 1
         /\ \A x : x \notin T => Cardinality(T \ {x}) = Cardinality(T) /\ Cardinality({x} \cap T) = 0
         /\ \A x : Cardinality(T) <= Cardinality(T \cup {x})
         /\ Cardinality({}) = 0
<1>1. IsFiniteSet(T) /\ Cardinality(T) \in Nat
  <2>1. 0 \in Int /\ LastFd \in Int
    BY FdsAreNumbers
  <2>2. IsFiniteSet(0 .. LastFd)
    BY <2>1, FS_Interval
  <2> QED BY <2>2, FS_Subset, FS_CardinalityType
<1>2. ASSUME NEW x \in T
      PROVE  Cardinality(T \ {x}) = Cardinality(T) - 1 /\ Cardinality({x} \cap T) = 1
  <2>1. {x} \cap T = {x}
    OBVIOUS
  <2> QED BY <1>1, <2>1, FS_RemoveElement, FS_Singleton
<1>3. ASSUME NEW x, x \notin T
      PROVE  Cardinality(T \ {x}) = Cardinality(T) /\ Cardinality({x} \cap T) = 0
  <2>1. {x} \cap T = {} /\ T \ {x} = T
    BY <1>3
  <2> QED BY <2>1, FS_EmptySet
<1>4. ASSUME NEW x PROVE Cardinality(T) <= Cardinality(T \cup {x})
  <2>1. IsFiniteSet(T \cup {x}) /\ T \subseteq T \cup {x}
    BY <1>1, FS_AddElement
  <2> QED BY <2>1, FS_Subset
<1> QED BY <1>1, <1>2, <1>3, <1>4, FS_EmptySet

Taken(T, x) == /\ Cardinality(T \ {x}) = Cardinality(T) - Cardinality({x} \cap T)
               /\ Cardinality({x} \cap T) \in Nat

LEMMA TakenCounts == ASSUME NEW T \in SUBSET (0 .. LastFd), NEW x PROVE Taken(T, x)
<1>1. CASE x \in T
  BY <1>1, Counts DEF Taken
<1>2. CASE x \notin T
  BY <1>2, Counts DEF Taken
<1> QED BY <1>1, <1>2

LEMMA CountStep == IInv /\ CInv /\ [Next]_vars => CInv'
<1> SUFFICES ASSUME IInv, CInv, [Next]_vars PROVE CInv'
  OBVIOUS
<1>0. /\ work \subseteq 0 .. LastFd /\ select_readfds \subseteq 0 .. LastFd
      /\ select_writefds \subseteq 0 .. LastFd /\ nb_act \in Int
      /\ pc \in {"accept", "select", "errors", "receptions", "handle", "emissions", "end",
                 "release", "aborted"}
  BY FdsAreNumbers DEF IInv, TypeOK
<1>9. /\ Cardinality(work) \in Nat /\ Cardinality(select_readfds) \in Nat
       /\ Cardinality(select_writefds) \in Nat /\ Cardinality({}) = 0
  BY <1>0, Counts
<1>1. ASSUME pc' \in {"accept", "select", "release", "aborted"} PROVE CInv'
  BY <1>1 DEF CInv
<1>2. CASE UNCHANGED vars \/ Aborted \/ Network
  BY <1>2 DEF CInv, vars, sets, Aborted, Network
<1>3. CASE \/ NoPendingConnection \/ AcceptError \/ AcceptConnection \/ CheckCount \/ Release \/ EndCycle
  <2>1. pc' \in {"accept", "select", "release", "aborted"}
    BY <1>3 DEF NoPendingConnection, AcceptError, AcceptConnection, CreateClientConnection, CheckCount,
       Release, ReleaseClientConnection, EndCycle, Throw, Abort
  <2> QED BY <1>1, <2>1
<1>4. CASE StartReceptions
  <2>1. /\ pc = "errors" /\ work = {} /\ pc' = "receptions" /\ nb_act' = nb_act
        /\ select_writefds' = select_writefds
        /\ work' = IF nb_act > 0 THEN select_readfds ELSE {}
    BY <1>4 DEF StartReceptions, NextList, sets
  <2>2. nb_act <= Cardinality(select_readfds) + Cardinality(select_writefds)
    BY <1>0, <1>9, <2>1 DEF CInv
  <2>3. nb_act' <= Cardinality(work') + Cardinality(select_writefds')
    <3>1. CASE nb_act > 0 BY <2>1, <2>2, <3>1
    <3>2. CASE ~ (nb_act > 0) BY <1>0, <1>9, <2>1, <3>2
    <3> QED BY <3>1, <3>2
  <2> QED BY <2>1, <2>3 DEF CInv
<1>5. CASE StartEmissions
  <2>1. /\ pc = "receptions" /\ work = {} /\ pc' = "emissions" /\ nb_act' = nb_act
        /\ work' = IF nb_act > 0 THEN select_writefds ELSE {}
    BY <1>5 DEF StartEmissions, NextList
  <2>2. nb_act <= Cardinality(select_writefds)
    BY <1>0, <1>9, <2>1 DEF CInv
  <2>3. nb_act' <= Cardinality(work')
    <3>1. CASE nb_act > 0 BY <2>1, <2>2, <3>1
    <3>2. CASE ~ (nb_act > 0) BY <1>0, <1>9, <2>1, <3>2
    <3> QED BY <3>1, <3>2
  <2> QED BY <2>1, <2>3 DEF CInv
<1>6. CASE EndEmissions
  <2>1. pc = "emissions" /\ work = {} /\ pc' = "end" /\ nb_act' = nb_act
    BY <1>6 DEF EndEmissions, NextList
  <2>2. nb_act <= 0
    BY <1>0, <1>9, <2>1 DEF CInv
  <2> QED BY <2>1, <2>2 DEF CInv
<1>7. CASE Select
  <2>1. pc' = "errors"
    BY <1>7 DEF Select
  <2>2. work' \subseteq 0 .. LastFd /\ select_readfds' \subseteq 0 .. LastFd
        /\ select_writefds' \subseteq 0 .. LastFd
    BY <1>7, SelectInv, FdsAreNumbers DEF IInv, TypeOK
  <2>3. /\ Cardinality(work') \in Nat /\ Cardinality(select_readfds') \in Nat
        /\ Cardinality(select_writefds') \in Nat
    BY <2>2, Counts
  <2>4. CASE nb_act' = -1
    BY <2>1, <2>3, <2>4 DEF CInv
  <2>5. CASE \E reads, writes, errors :
               /\ select_readfds' = reads /\ work' = errors
               /\ nb_act' = Cardinality(reads) + Cardinality(writes) + Cardinality(errors)
               /\ writes = Polled(select_writefds) \cap {fd \in 0 .. LastFd : ReadyForWrite(fd)}
               /\ select_writefds' = IF clientsocks_nfds = 0 THEN select_writefds ELSE writes
    <3>1. PICK reads, writes, errors :
               /\ select_readfds' = reads /\ work' = errors
               /\ nb_act' = Cardinality(reads) + Cardinality(writes) + Cardinality(errors)
               /\ writes = Polled(select_writefds) \cap {fd \in 0 .. LastFd : ReadyForWrite(fd)}
               /\ select_writefds' = IF clientsocks_nfds = 0 THEN select_writefds ELSE writes
      BY <2>5
    <3>2. clientsocks_nfds = 0 => writes = {}
      BY <1>0, <3>1, FdsAreNumbers DEF Polled
    <3>3. writes = {} \/ writes = select_writefds'
      BY <3>1, <3>2
    <3>4. Cardinality(writes) \in Nat /\ Cardinality(writes) <= Cardinality(select_writefds')
      BY <1>9, <2>3, <3>3
    <3>5. nb_act' <= Cardinality(work') + Cardinality(select_readfds') + Cardinality(select_writefds')
      BY <2>3, <3>1, <3>3, <3>4
    <3> QED BY <2>1, <3>5 DEF CInv
  <2>6. \/ nb_act' = -1
        \/ LET reads  == {fd \in Polled(clientsocks_fds) : Readable(fdtab[fd])}
               writes == {fd \in Polled(select_writefds) : ReadyForWrite(fd)}
               errors == {fd \in Polled(clientsocks_fds) : ErrorFdsReported /\ link[fdtab[fd]] \in {"rst", "fail"}}
           IN /\ select_readfds' = reads /\ work' = errors
              /\ nb_act' = Cardinality(reads) + Cardinality(writes) + Cardinality(errors)
              /\ select_writefds' = IF clientsocks_nfds = 0 THEN select_writefds ELSE writes
    BY <1>7 DEF Select
  <2>7. {fd \in Polled(select_writefds) : ReadyForWrite(fd)}
          = Polled(select_writefds) \cap {fd \in 0 .. LastFd : ReadyForWrite(fd)}
    BY <1>0 DEF Polled
  <2> QED BY <2>4, <2>5, <2>6, <2>7
<1>8. ASSUME NEW fd \in 0 .. LastFd, ServeSocket(fd) PROVE CInv'
  <2>1. CASE HandleSocketError(fd)
    <3>1. CASE pc' = "accept"
      BY <1>1, <3>1
    <3>2. CASE pc' # "accept"
      <4>1. pc = "errors" /\ fd \in work /\ work' = work \ {fd} /\ pc' = pc
        BY <2>1, <3>2 DEF HandleSocketError, IsNext, Throw
      <4>2. \/ /\ nb_act' = nb_act - 1
               /\ UNCHANGED <<select_readfds, select_writefds>>
            \/ /\ select_readfds' = select_readfds \ {fd} /\ select_writefds' = select_writefds \ {fd}
               /\ nb_act' = nb_act - 1 - Cardinality({fd} \cap select_readfds)
                                       - Cardinality({fd} \cap select_writefds)
        BY <2>1, <3>2 DEF HandleSocketError, Throw
      <4>3. Cardinality(work') = Cardinality(work) - 1
        BY <1>0, <4>1, Counts
      <4>4. /\ Taken(select_readfds, fd) /\ Taken(select_writefds, fd)
        BY <1>0, TakenCounts
      <4>5. nb_act <= Cardinality(work) + Cardinality(select_readfds) + Cardinality(select_writefds)
        BY <4>1 DEF CInv
      <4>6. nb_act' <= Cardinality(work') + Cardinality(select_readfds') + Cardinality(select_writefds')
        <5>1. CASE nb_act' = nb_act - 1 /\ UNCHANGED <<select_readfds, select_writefds>>
          BY <1>0, <1>9, <4>3, <4>5, <5>1
        <5>2. CASE /\ select_readfds' = select_readfds \ {fd} /\ select_writefds' = select_writefds \ {fd}
                   /\ nb_act' = nb_act - 1 - Cardinality({fd} \cap select_readfds)
                                           - Cardinality({fd} \cap select_writefds)
          <6>1. /\ Cardinality(select_readfds')
                     = Cardinality(select_readfds) - Cardinality({fd} \cap select_readfds)
                /\ Cardinality({fd} \cap select_readfds) \in Nat
            BY <4>4, <5>2 DEF Taken
          <6>2. /\ Cardinality(select_writefds')
                     = Cardinality(select_writefds) - Cardinality({fd} \cap select_writefds)
                /\ Cardinality({fd} \cap select_writefds) \in Nat
            BY <4>4, <5>2 DEF Taken
          <6> QED BY <1>0, <1>9, <4>3, <4>5, <5>2, <6>1, <6>2
        <5> QED BY <4>2, <5>1, <5>2
      <4> QED BY <4>1, <4>6 DEF CInv
    <3> QED BY <3>1, <3>2
  <2>2. CASE ServeReception(fd)
    <3>1. CASE pc' = "accept"
      BY <1>1, <3>1
    <3>2. CASE pc' # "accept"
      <4>1. /\ pc = "receptions" /\ fd \in work /\ select_writefds' = select_writefds
            /\ \/ pc' = "handle" /\ nb_act' = nb_act /\ work' = work
               \/ pc' = "receptions" /\ nb_act' = nb_act - 1 /\ work' = work \ {fd}
        BY <2>2, <3>2 DEF ServeReception, IsNext, Throw, sets
      <4>2. Cardinality(work \ {fd}) = Cardinality(work) - 1
        BY <1>0, <4>1, Counts
      <4>3. nb_act <= Cardinality(work) + Cardinality(select_writefds)
        BY <4>1 DEF CInv
      <4>4. nb_act' <= Cardinality(work') + Cardinality(select_writefds')
        <5>1. CASE nb_act' = nb_act /\ work' = work
          BY <4>1, <4>3, <5>1
        <5>2. CASE nb_act' = nb_act - 1 /\ work' = work \ {fd}
          BY <1>0, <1>9, <4>1, <4>2, <4>3, <5>2
        <5> QED BY <4>1, <5>1, <5>2
      <4> QED BY <4>1, <4>4 DEF CInv
    <3> QED BY <3>1, <3>2
  <2>3. CASE HandleMessage(fd)
    <3>1. CASE pc' = "aborted"
      BY <1>1, <3>1
    <3>2. CASE pc' # "aborted"
      <4>1. /\ pc = "handle" /\ pc' = "handle" /\ work' = work /\ nb_act' = nb_act
            /\ select_writefds' = select_writefds \/ select_writefds' = select_writefds \cup {fd}
        BY <2>3, <3>2 DEF HandleMessage, OutgoingDataForClient, Abort
      <4>2. Cardinality(select_writefds) <= Cardinality(select_writefds \cup {fd})
        BY <1>0, Counts
      <4>3. Cardinality(select_writefds \cup {fd}) \in Nat
        BY <1>0, <1>8, Counts
      <4>4. nb_act <= Cardinality(work) + Cardinality(select_writefds)
        BY <4>1 DEF CInv
      <4>5. nb_act' <= Cardinality(work') + Cardinality(select_writefds')
        BY <1>0, <1>9, <4>1, <4>2, <4>3, <4>4
      <4> QED BY <4>1, <4>5 DEF CInv
    <3> QED BY <3>1, <3>2
  <2>4. CASE EndReception(fd)
    <3>1. /\ pc = "handle" /\ pc' = "receptions" /\ fd \in work /\ work' = work \ {fd}
          /\ nb_act' = nb_act - 1 /\ select_writefds' = select_writefds
      BY <2>4 DEF EndReception, IsNext, sets
    <3>2. Cardinality(work \ {fd}) = Cardinality(work) - 1
      BY <1>0, <3>1, Counts
    <3>3. nb_act <= Cardinality(work) + Cardinality(select_writefds)
      BY <3>1 DEF CInv
    <3>4. nb_act' <= Cardinality(work') + Cardinality(select_writefds')
      BY <1>0, <1>9, <3>1, <3>2, <3>3
    <3> QED BY <3>1, <3>4 DEF CInv
  <2>5. CASE EmissionOutOfRange(fd) \/ EmissionAfterBlocked(fd) \/ EmissionDisconnected(fd)
    <3>1. pc' = "aborted"
      BY <2>5 DEF EmissionOutOfRange, EmissionAfterBlocked, EmissionDisconnected, Abort
    <3> QED BY <1>1, <3>1
  <2>6. CASE EmissionDone(fd) \/ EmissionSend(fd) \/ EmissionBlocked(fd)
    <3>1. /\ pc = "emissions" /\ pc' = "emissions" /\ fd \in work /\ work' = work \ {fd}
          /\ nb_act' = nb_act - 1
      BY <2>6 DEF EmissionDone, EmissionSend, EmissionBlocked, Sending, Popped, IsNext
    <3>2. Cardinality(work \ {fd}) = Cardinality(work) - 1
      BY <1>0, <3>1, Counts
    <3>3. nb_act <= Cardinality(work)
      BY <3>1 DEF CInv
    <3>4. nb_act' <= Cardinality(work')
      BY <1>0, <1>9, <3>1, <3>2, <3>3
    <3> QED BY <3>1, <3>4 DEF CInv
  <2> QED BY <1>8, <2>1, <2>2, <2>3, <2>4, <2>5, <2>6 DEF ServeSocket
<1> QED BY <1>2, <1>3, <1>4, <1>5, <1>6, <1>7, <1>8 DEF Next, Server

(* A cycle serves all that pselect has counted, whatever is received,      *)
(* refused, disconnected or reported in error in the meantime: the         *)
(* assertion at the end of ServeClientSockets can only fail because more   *)
(* was served, or because pselect failed.                                  *)
THEOREM ReportedIsAlwaysServed == Spec => []ReportedIsServed
<1>1. Init => CInv
  BY DEF Init, CInv
<1>2. IInv /\ CInv /\ [Next]_vars => CInv'
  BY CountStep
<1>3. CInv => ReportedIsServed
  BY DEF CInv, ReportedIsServed
<1> QED BY <1>1, <1>2, <1>3, Invariance, PTL DEF Spec
=============================================================================
