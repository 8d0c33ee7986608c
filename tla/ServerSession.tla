---------------------------- MODULE ServerSession ----------------------------
(***************************************************************************)
(* The session state machine of class ServerClientConnection: what the     *)
(* server does with one message of a client.  A handler is an operator:    *)
(* it takes the session and the message and returns the session after the  *)
(* call, the replies it passed to sendMsgToClient and whether one of its   *)
(* assertions failed (no NDEBUG anywhere: a failed assert() aborts the     *)
(* server process).  Names are the source's; a message is its L1 id and    *)
(* the one field of its body that the code looks at or chooses.            *)
(***************************************************************************)
EXTENDS Sequences

(* The states of a session.  DISCONNECTING and REJECTED are declared and never assigned.  *)
State == {"EMPTY", "CNX_ERROR", "DISCONNECTED", "CONN_REJECTED", "REGISTERING",
          "REJECTED", "REGISTERED", "DISCONNECTING", "CLOSING"}

(* An L1 message: the id of its header and what matters of its body:       *)
(* the version of a CONNECTION_REQ, the cause of a _REJ or of a            *)
(* DISCONNECTION_REQ, "none" for the others.                               *)
Msg(id, arg) == [id |-> id, arg |-> arg]

(* What a client program sends to the server.                              *)
Request == {Msg("CONNECTION_REQ", "same_version"), Msg("CONNECTION_REQ", "other_version"),
            Msg("REGISTRATION_REQ", "none"), Msg("USER_LOGGING_REQ", "none"),
            Msg("DISCONNECTION_REQ", "USER_SHUTDOWN"), Msg("DISCONNECTION_CNF", "none"),
            Msg("POLL_REQ", "none"), Msg("POLL_CNF", "none"), Msg("DATA_TRANSFER_REQ", "none"),
            Msg("TRANSFER_DATA_BLK", "none"), Msg("FILE_TRANSFER_REQ", "none")}

RejCause == {"NO_CAUSE", "BAD_CLIENT_VERSION", "UNEXPECTED_CONN_REQ"}

(* What the server sends to a client.                                      *)
Reply == {Msg("CONNECTION_CNF", "none"), Msg("REGISTRATION_CNF", "none"),
          Msg("DISCONNECTION_CNF", "none")}
         \cup {Msg("CONNECTION_REJ", c) : c \in RejCause}
         \cup {Msg("REGISTRATION_REJ", c) :
                  c \in {"USER_ALREADY_EXISTING", "INCORRECT_EMAIL", "UNEXPECTED_REGISTRATION"}}
         \cup {Msg("USER_LOGGING_REJ", c) :
                  c \in {"USER_UNKNOWN", "WRONG_PASSWORD", "UNEXPECTED_LOGIN_PROC"}}

Session == [state : State, last_rejected_cause : RejCause]

(* The constructor.                                                        *)
NewSessionM1 ==                     \* mutant: last_rejected_cause is not initialised
  [state |-> "EMPTY", last_rejected_cause |-> "indeterminate"]

NewSession == [state |-> "EMPTY", last_rejected_cause |-> "NO_CAUSE"]

(* The data base look-ups, still stubs in the source.                      *)
passwd_ok     == TRUE
known_user    == FALSE
correct_email == FALSE

-----------------------------------------------------------------------------
(* What a handler does: the session it leaves, what it sends, its asserts. *)
Outcome(s, sent, ok) == [session |-> s, sent |-> sent, ok |-> ok]
Answer(s, m) == Outcome(s, <<m>>, TRUE)

handleConnectionReqM1(s, m) ==      \* mutant: a connected session accepts a second CONNECTION_REQ
  IF m.arg = "same_version"
  THEN Answer([s EXCEPT !.state = "REGISTERING"], Msg("CONNECTION_CNF", "none"))
  ELSE Answer([state |-> "CONN_REJECTED", last_rejected_cause |-> "BAD_CLIENT_VERSION"],
              Msg("CONNECTION_REJ", "BAD_CLIENT_VERSION"))

handleConnectionReq(s, m) ==
  LET cause == IF s.state = "EMPTY" THEN "BAD_CLIENT_VERSION"
               ELSE IF s.state = "CONN_REJECTED" THEN s.last_rejected_cause
               ELSE "UNEXPECTED_CONN_REQ"
  IN IF s.state = "EMPTY" /\ m.arg = "same_version"
     THEN Answer([s EXCEPT !.state = "REGISTERING"], Msg("CONNECTION_CNF", "none"))
     ELSE Answer([state |-> "CONN_REJECTED", last_rejected_cause |-> cause],
                 Msg("CONNECTION_REJ", cause))

handleRegistrationReqM1(s) ==       \* mutant: the confirmation is sent, the state stays
  IF s.state = "REGISTERING" THEN Answer(s, Msg("REGISTRATION_CNF", "none"))
  ELSE Answer(s, Msg("REGISTRATION_REJ", "UNEXPECTED_REGISTRATION"))

handleRegistrationReq(s) ==
  LET cause == IF s.state # "REGISTERING" THEN "UNEXPECTED_REGISTRATION"
               ELSE IF known_user THEN "USER_ALREADY_EXISTING"
               ELSE "INCORRECT_EMAIL"
  IN IF s.state = "REGISTERING" /\ ~known_user /\ ~correct_email
     THEN Answer([s EXCEPT !.state = "REGISTERED"], Msg("REGISTRATION_CNF", "none"))
     ELSE Answer(s, Msg("REGISTRATION_REJ", cause))

(* A successful login is answered by sendRegistrationCnf(), as in the code. *)
handleUserLoginReq(s) ==
  LET cause == IF s.state # "REGISTERING" THEN "UNEXPECTED_LOGIN_PROC"
               ELSE IF ~known_user THEN "USER_UNKNOWN"
               ELSE "WRONG_PASSWORD"
  IN IF s.state = "REGISTERING" /\ known_user /\ passwd_ok
     THEN Answer([s EXCEPT !.state = "REGISTERED"], Msg("REGISTRATION_CNF", "none"))
     ELSE Answer(s, Msg("USER_LOGGING_REJ", cause))

handleDisconnectionReq(s, m) ==
  IF m.arg = "USER_SHUTDOWN"
  THEN Answer([s EXCEPT !.state = "CLOSING"], Msg("DISCONNECTION_CNF", "none"))
  ELSE Outcome(s, <<>>, FALSE)

(* assert(state == DISCONNECTING), and no code assigns DISCONNECTING: the  *)
(* stop() that follows the assertion is never reached.                     *)
handleDisconnectionCnf(s) == Outcome([s EXCEPT !.state = "CLOSING"], <<>>, s.state = "DISCONNECTING")

handle_client_message(s, m) ==
  CASE m.id = "CONNECTION_REQ"    -> handleConnectionReq(s, m)
    [] m.id = "USER_LOGGING_REQ"  -> handleUserLoginReq(s)
    [] m.id = "REGISTRATION_REQ"  -> handleRegistrationReq(s)
    [] m.id = "DISCONNECTION_REQ" -> handleDisconnectionReq(s, m)
    [] m.id = "DISCONNECTION_CNF" -> handleDisconnectionCnf(s)
    [] m.id \in {"POLL_REQ", "POLL_CNF", "DATA_TRANSFER_REQ", "TRANSFER_DATA_BLK",
                 "FILE_TRANSFER_REQ"} -> Outcome(s, <<>>, TRUE)
    [] OTHER -> Outcome(s, <<>>, FALSE)
=============================================================================
