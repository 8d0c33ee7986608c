-------------------------- MODULE ServerRefinement --------------------------
(***************************************************************************)
(* The refinement mapping from ServerRouter to SessionService.             *)
(***************************************************************************)
EXTENDS ServerRouter

(* The descriptor of the live connection object of a client.               *)
IsCnxOf(fd, c) == fd \in socket_map /\ cnx[fd].addr = c /\ cnx[fd].sock_open
HasCnx(c) == \E fd \in Fds : IsCnxOf(fd, c)
CnxOf(c) == cnx[CHOOSE fd \in Fds : IsCnxOf(fd, c)]

(* A reply that was built and blocked is still before those of tx_fifo.    *)
Unsent(conn) == (IF conn.tx_req \in Reply THEN <<conn.tx_req>> ELSE <<>>) \o conn.tx_fifo

(* What SessionService sees of one client.                                 *)
Phase(c)  == IF HasCnx(c) THEN "open" ELSE IF link[c] = "gone" THEN "lost" ELSE "waiting"
Broken(c) == link[c] \in {"rst", "gone"}
Inbox(c)  == (IF HasCnx(c) THEN CnxOf(c).rx_fifo ELSE <<>>) \o inbound[c]
SessionOf(c) == IF HasCnx(c) THEN CnxOf(c).session ELSE NewSession
Outbox(c) == IF HasCnx(c) THEN Unsent(CnxOf(c)) ELSE <<>>

Service == INSTANCE SessionService WITH
  phase   <- [c \in Clients |-> Phase(c)],
  broken  <- [c \in Clients |-> Broken(c)],
  inbox   <- [c \in Clients |-> Inbox(c)],
  session <- [c \in Clients |-> SessionOf(c)],
  outbox  <- [c \in Clients |-> Outbox(c)]

(* The server gives each client the service of SessionService: no message  *)
(* is lost, duplicated, reordered or handled for another client, and no    *)
(* reply goes to the wrong one, although descriptors are closed and reused *)
(* while replies, write bits and dead_list entries are pending.            *)
ServiceSpec == Service!Spec

(* The answers the clients get are therefore in an order the protocol      *)
(* allows: no refused client is accepted later, none is registered twice.  *)
AdmissionIsOrdered == Service!AdmissionIsOrdered
=============================================================================
