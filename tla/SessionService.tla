--------------------------- MODULE SessionService ---------------------------
(***************************************************************************)
(* What the game server promises its clients, without sockets,             *)
(* descriptors, pselect or queues of bytes: each client has a session of   *)
(* its own; its messages are handled one at a time in the order it sent    *)
(* them; each reply goes to the client whose message called for it, once,  *)
(* in order; and a session is given up only when its connection broke.     *)
(* ServerRouter implements it (ServerRefinement).                          *)
(***************************************************************************)
EXTENDS ServerSession, Naturals

CONSTANTS Clients, ClientMsgs

VARIABLES
  phase,    \* "waiting" for the server, "open", or "lost"
  broken,   \* the connection was reset
  nb_req,   \* messages the client sent
  inbox,    \* messages the client sent that the server has not handled
  session,
  outbox,   \* replies the client has not been sent yet
  received

vars == <<phase, broken, nb_req, inbox, session, outbox, received>>

Init ==
  /\ phase = [c \in Clients |-> "waiting"]
  /\ broken = [c \in Clients |-> FALSE]
  /\ nb_req = [c \in Clients |-> 0]
  /\ inbox = [c \in Clients |-> <<>>]
  /\ session = [c \in Clients |-> NewSession]
  /\ outbox = [c \in Clients |-> <<>>]
  /\ received = [c \in Clients |-> <<>>]

Open(c) ==
  /\ phase[c] = "waiting"
  /\ phase' = [phase EXCEPT ![c] = "open"]
  /\ UNCHANGED <<broken, nb_req, inbox, session, outbox, received>>

Ask(c, m) ==
  /\ ~broken[c]
  /\ nb_req' = [nb_req EXCEPT ![c] = @ + 1]
  /\ inbox' = [inbox EXCEPT ![c] = Append(@, m)]
  /\ UNCHANGED <<phase, broken, session, outbox, received>>

Handle(c) ==
  /\ phase[c] = "open" /\ inbox[c] # <<>>
  /\ LET out == handle_client_message(session[c], Head(inbox[c]))
     IN /\ session' = [session EXCEPT ![c] = out.session]
        /\ outbox' = [outbox EXCEPT ![c] = @ \o out.sent]
  /\ inbox' = [inbox EXCEPT ![c] = Tail(@)]
  /\ UNCHANGED <<phase, broken, nb_req, received>>

Deliver(c) ==
  /\ phase[c] = "open" /\ outbox[c] # <<>>
  /\ received' = [received EXCEPT ![c] = Append(@, Head(outbox[c]))]
  /\ outbox' = [outbox EXCEPT ![c] = Tail(@)]
  /\ UNCHANGED <<phase, broken, nb_req, inbox, session>>

Break(c) ==
  /\ ~broken[c]
  /\ broken' = [broken EXCEPT ![c] = TRUE]
  /\ UNCHANGED <<phase, nb_req, inbox, session, outbox, received>>

(* What was asked and not handled, or answered and not sent, is lost with  *)
(* the connection.                                                         *)
Lose(c) ==
  /\ phase[c] = "open" /\ broken[c]
  /\ phase' = [phase EXCEPT ![c] = "lost"]
  /\ inbox' = [inbox EXCEPT ![c] = <<>>]
  /\ outbox' = [outbox EXCEPT ![c] = <<>>]
  /\ session' = [session EXCEPT ![c] = NewSession]
  /\ UNCHANGED <<broken, nb_req, received>>

Next ==
  \E c \in Clients :
    \/ Open(c) \/ Handle(c) \/ Deliver(c) \/ Break(c) \/ Lose(c)
    \/ \E m \in ClientMsgs : Ask(c, m)

Spec == Init /\ [][Next]_vars

-----------------------------------------------------------------------------
(* A client that was once refused by CONNECTION_REJ is never accepted      *)
(* later on the same connection, and it is told it is registered only      *)
(* after CONNECTION_CNF, once: whatever the order its requests come in     *)
(* (the conditions on state of the handlers of ServerClientConnection).    *)
RepliesTo(answers, id) == {i \in 1 .. Len(answers) : answers[i].id = id}
Ordered(answers) ==
  /\ \A i \in RepliesTo(answers, "CONNECTION_CNF") \cup RepliesTo(answers, "REGISTRATION_CNF") :
        \A j \in RepliesTo(answers, "CONNECTION_REJ") : i < j
  /\ \A i \in RepliesTo(answers, "REGISTRATION_CNF") :
        /\ \A j \in RepliesTo(answers, "REGISTRATION_CNF") : i = j
        /\ \E j \in RepliesTo(answers, "CONNECTION_CNF") : j < i
AdmissionIsOrdered == \A c \in Clients : Ordered(received[c])
=============================================================================
