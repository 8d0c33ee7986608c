------------------------ MODULE SessionServiceProofs ------------------------
(***************************************************************************)
(* What the service promised to each client implies about the answers it   *)
(* gets, for any number of clients and of messages.                        *)
(***************************************************************************)
EXTENDS SessionService, SequenceTheorems, TLAPS

(* Everything the service has answered, delivered or not.                  *)
Answers(c) == received[c] \o outbox[c]

Silent(answers, id) == RepliesTo(answers, id) = {}

(* The state of a session remembers what matters of its answers.           *)
Remembers(state, answers) ==
  /\ state = "EMPTY" => /\ Silent(answers, "CONNECTION_CNF") /\ Silent(answers, "REGISTRATION_CNF")
                        /\ Silent(answers, "CONNECTION_REJ")
  /\ state = "REGISTERING" => /\ ~Silent(answers, "CONNECTION_CNF")
                              /\ Silent(answers, "REGISTRATION_CNF")
                              /\ Silent(answers, "CONNECTION_REJ")

(* The inductive invariant.                                                *)
TypeInv ==
  /\ phase \in [Clients -> {"waiting", "open", "lost"}]
  /\ session \in [Clients -> Session]
  /\ outbox \in [Clients -> Seq(Reply)] /\ received \in [Clients -> Seq(Reply)]
  /\ inbox \in [Clients -> Seq(ClientMsgs)]

ClientInv(c) ==
  /\ Ordered(Answers(c))
  /\ phase[c] = "waiting" => Answers(c) = <<>> /\ session[c] = NewSession
  /\ phase[c] = "open" => Remembers(session[c].state, Answers(c))

IInv == TypeInv /\ \A c \in Clients : ClientInv(c)

-----------------------------------------------------------------------------
(* One more answer: where each kind of answer is.                          *)
LEMMA RepliesOfAppend ==
  ASSUME NEW answers \in Seq(Reply), NEW m \in Reply, NEW id
  PROVE  RepliesTo(Append(answers, m), id) =
           RepliesTo(answers, id) \cup (IF m.id = id THEN {Len(answers) + 1} ELSE {})
BY DEF RepliesTo

LEMMA RepliesAreIndices ==
  ASSUME NEW answers \in Seq(Reply), NEW id
  PROVE  \A i \in RepliesTo(answers, id) : i \in Nat /\ i < Len(answers) + 1
BY DEF RepliesTo

(* The handlers keep the answers in order, and the state up to date.       *)
LEMMA AnswerKeepsOrder ==
  ASSUME NEW answers \in Seq(Reply), NEW m \in Reply, Ordered(answers),
         m.id = "CONNECTION_CNF" => Silent(answers, "CONNECTION_REJ"),
         m.id = "REGISTRATION_CNF" => /\ Silent(answers, "CONNECTION_REJ")
                                      /\ Silent(answers, "REGISTRATION_CNF")
                                      /\ ~Silent(answers, "CONNECTION_CNF")
  PROVE  Ordered(Append(answers, m))
<1> DEFINE longer == Append(answers, m)
           At(id) == RepliesTo(answers, id)
           AtLonger(id) == RepliesTo(longer, id)
           last == Len(answers) + 1
<1>1. \A id : AtLonger(id) = At(id) \cup (IF m.id = id THEN {last} ELSE {})
  BY RepliesOfAppend
<1>2. last \in Nat /\ \A id : \A i \in At(id) : i \in Nat /\ i < last
  BY RepliesAreIndices
<1>3. /\ \A i \in At("CONNECTION_CNF") \cup At("REGISTRATION_CNF") : \A j \in At("CONNECTION_REJ") : i < j
      /\ \A i \in At("REGISTRATION_CNF") : /\ \A j \in At("REGISTRATION_CNF") : i = j
                                           /\ \E j \in At("CONNECTION_CNF") : j < i
  BY DEF Ordered
<1> HIDE DEF At, AtLonger, last
<1>4. /\ m.id = "CONNECTION_CNF" => At("CONNECTION_REJ") = {}
      /\ m.id = "REGISTRATION_CNF" => /\ At("CONNECTION_REJ") = {} /\ At("REGISTRATION_CNF") = {}
                                      /\ At("CONNECTION_CNF") # {}
  BY DEF At, Silent
<1>5. \A i \in AtLonger("CONNECTION_CNF") \cup AtLonger("REGISTRATION_CNF") :
         \A j \in AtLonger("CONNECTION_REJ") : i < j
  BY <1>1, <1>2, <1>3, <1>4
<1>6. \A i \in AtLonger("REGISTRATION_CNF") :
         /\ \A j \in AtLonger("REGISTRATION_CNF") : i = j
         /\ \E j \in AtLonger("CONNECTION_CNF") : j < i
  BY <1>1, <1>2, <1>3, <1>4
<1> QED BY <1>5, <1>6 DEF Ordered, AtLonger

LEMMA HandlerKeepsOrder ==
  ASSUME NEW s \in Session, NEW m, NEW answers \in Seq(Reply),
         Ordered(answers), Remembers(s.state, answers)
  PROVE  LET out == handle_client_message(s, m)
         IN /\ out.session \in Session /\ out.sent \in Seq(Reply)
            /\ Ordered(answers \o out.sent)
            /\ Remembers(out.session.state, answers \o out.sent)
<1> DEFINE Good(out) == /\ out.session \in Session /\ out.sent \in Seq(Reply)
                        /\ Ordered(answers \o out.sent)
                        /\ Remembers(out.session.state, answers \o out.sent)
<1>0. \A r \in Reply : <<r>> \in Seq(Reply) /\ answers \o <<r>> = Append(answers, r)
  OBVIOUS
<1>1. ASSUME NEW t \in Session, t.state \notin {"EMPTY", "REGISTERING"} \/ t.state = s.state, NEW b
      PROVE  Good(Outcome(t, <<>>, b))
  <2>1. answers \o <<>> = answers
    OBVIOUS
  <2> QED BY <1>1, <2>1 DEF Outcome, Remembers
<1>2. ASSUME NEW t \in Session, NEW r \in Reply,
             r.id \notin {"CONNECTION_CNF", "REGISTRATION_CNF", "CONNECTION_REJ"}, 
             t.state \notin {"EMPTY", "REGISTERING"} \/ t.state = s.state
      PROVE  Good(Answer(t, r))
  <2>1. Ordered(Append(answers, r))
    BY <1>2, AnswerKeepsOrder
  <2>2. Remembers(t.state, Append(answers, r))
    BY <1>2, RepliesOfAppend DEF Remembers, Silent
  <2> QED BY <1>0, <2>1, <2>2 DEF Answer, Outcome
<1>3. Good(handleConnectionReq(s, m))
  <2> DEFINE cause == IF s.state = "EMPTY" THEN "BAD_CLIENT_VERSION"
                      ELSE IF s.state = "CONN_REJECTED" THEN s.last_rejected_cause
                      ELSE "UNEXPECTED_CONN_REQ"
             rej == Msg("CONNECTION_REJ", cause)
             cnf == Msg("CONNECTION_CNF", "none")
             refused == [state |-> "CONN_REJECTED", last_rejected_cause |-> cause]
             accepted == [s EXCEPT !.state = "REGISTERING"]
  <2>1. rej \in Reply /\ refused \in Session /\ cnf \in Reply /\ accepted \in Session
    <3>1. cause \in RejCause
      BY DEF Session, RejCause
    <3> QED BY <3>1 DEF Reply, Session, State
  <2>2. rej.id = "CONNECTION_REJ" /\ cnf.id = "CONNECTION_CNF"
        /\ refused.state = "CONN_REJECTED" /\ accepted.state = "REGISTERING"
    BY DEF Msg, Session
  <2> HIDE DEF cause, rej, cnf, refused, accepted
  <2>3. Good(Answer(refused, rej))
    <3>1. Ordered(Append(answers, rej))
      BY <2>1, <2>2, AnswerKeepsOrder
    <3>2. Remembers(refused.state, Append(answers, rej))
      BY <2>2 DEF Remembers
    <3> QED BY <1>0, <2>1, <3>1, <3>2 DEF Answer, Outcome
  <2>4. ASSUME s.state = "EMPTY" PROVE Good(Answer(accepted, cnf))
    <3>1. Ordered(Append(answers, cnf))
      BY <2>1, <2>2, <2>4, AnswerKeepsOrder DEF Remembers
    <3>2. Remembers(accepted.state, Append(answers, cnf))
      BY <2>1, <2>2, <2>4, RepliesOfAppend DEF Remembers, Silent
    <3> QED BY <1>0, <2>1, <3>1, <3>2 DEF Answer, Outcome
  <2> HIDE DEF Good
  <2> QED BY <2>3, <2>4 DEF handleConnectionReq, cause, rej, cnf, refused, accepted
<1>4. ASSUME s.state = "REGISTERING"
      PROVE  Good(Answer([s EXCEPT !.state = "REGISTERED"], Msg("REGISTRATION_CNF", "none")))
  <2> DEFINE cnf == Msg("REGISTRATION_CNF", "none")
             t == [s EXCEPT !.state = "REGISTERED"]
  <2>1. t \in Session /\ cnf \in Reply /\ cnf.id = "REGISTRATION_CNF" /\ t.state = "REGISTERED"
    BY DEF Session, State, Reply, Msg
  <2> HIDE DEF cnf, t
  <2>2. Ordered(Append(answers, cnf))
    BY <1>4, <2>1, AnswerKeepsOrder DEF Remembers
  <2>3. Remembers(t.state, Append(answers, cnf))
    BY <2>1 DEF Remembers
  <2>4. Good(Answer(t, cnf))
    BY <1>0, <2>1, <2>2, <2>3 DEF Answer, Outcome
  <2> QED BY <2>4 DEF t, cnf
<1>5. Good(handleRegistrationReq(s))
  <2>1. \A c \in {"USER_ALREADY_EXISTING", "INCORRECT_EMAIL", "UNEXPECTED_REGISTRATION"} :
          Msg("REGISTRATION_REJ", c) \in Reply /\ Msg("REGISTRATION_REJ", c).id = "REGISTRATION_REJ"
    BY DEF Reply, Msg
  <2> HIDE DEF Good
  <2> QED BY <1>2, <1>4, <2>1 DEF handleRegistrationReq
<1>6. Good(handleUserLoginReq(s))
  <2>1. \A c \in {"USER_UNKNOWN", "WRONG_PASSWORD", "UNEXPECTED_LOGIN_PROC"} :
          Msg("USER_LOGGING_REJ", c) \in Reply /\ Msg("USER_LOGGING_REJ", c).id = "USER_LOGGING_REJ"
    BY DEF Reply, Msg
  <2> HIDE DEF Good
  <2> QED BY <1>2, <1>4, <2>1 DEF handleUserLoginReq
<1>7. Good(handleDisconnectionReq(s, m)) /\ Good(handleDisconnectionCnf(s))
  <2>1. Msg("DISCONNECTION_CNF", "none") \in Reply
        /\ Msg("DISCONNECTION_CNF", "none").id = "DISCONNECTION_CNF"
        /\ [s EXCEPT !.state = "CLOSING"] \in Session
        /\ [s EXCEPT !.state = "CLOSING"].state = "CLOSING"
    BY DEF Reply, Msg, Session, State
  <2> HIDE DEF Good
  <2> QED BY <1>1, <1>2, <2>1 DEF handleDisconnectionReq, handleDisconnectionCnf
<1>8. Good(Outcome(s, <<>>, TRUE)) /\ Good(Outcome(s, <<>>, FALSE))
  BY <1>1
<1>9. Good(handle_client_message(s, m))
  <2> HIDE DEF Good
  <2> QED BY <1>3, <1>5, <1>6, <1>7, <1>8 DEF handle_client_message
<1> QED BY <1>9

-----------------------------------------------------------------------------
(* The steps.                                                              *)
LEMMA InitInv == Init => IInv
<1> SUFFICES ASSUME Init PROVE IInv
  OBVIOUS
<1>1. TypeInv
  BY DEF Init, TypeInv, NewSession, Session, State, RejCause
<1>2. ASSUME NEW c \in Clients PROVE ClientInv(c)
  <2>1. Answers(c) = <<>> /\ phase[c] = "waiting" /\ session[c] = NewSession
    BY DEF Init, Answers
  <2>2. Ordered(<<>>)
    BY DEF Ordered, RepliesTo
  <2> QED BY <2>1, <2>2 DEF ClientInv
<1> QED BY <1>1, <1>2 DEF IInv

(* A client that a step leaves alone.                                      *)
LEMMA SameClient ==
  ASSUME NEW c \in Clients, ClientInv(c), Answers(c)' = Answers(c),
         phase'[c] = phase[c], session'[c] = session[c]
  PROVE  ClientInv(c)'
BY DEF ClientInv

LEMMA OpenInv == ASSUME IInv, NEW c \in Clients, Open(c) PROVE IInv'
<1> USE DEF Open
<1>1. TypeInv'
  BY DEF IInv, TypeInv
<1>2. ASSUME NEW d \in Clients PROVE ClientInv(d)'
  <2>1. Answers(d)' = Answers(d) /\ session'[d] = session[d]
    BY DEF Answers
  <2>2. CASE d # c
    BY <2>1, <2>2, SameClient DEF IInv, TypeInv
  <2>3. CASE d = c
    <3>1. Answers(c) = <<>> /\ session[c].state = "EMPTY" /\ phase'[c] = "open"
      BY DEF IInv, TypeInv, ClientInv, NewSession
    <3>2. Remembers("EMPTY", <<>>) /\ Ordered(<<>>)
      BY DEF Remembers, Silent, RepliesTo, Ordered
    <3> QED BY <2>1, <2>3, <3>1, <3>2 DEF ClientInv
  <2> QED BY <2>2, <2>3
<1> QED BY <1>1, <1>2 DEF IInv

LEMMA HandleInv == ASSUME IInv, NEW c \in Clients, Handle(c) PROVE IInv'
<1> DEFINE out == handle_client_message(session[c], Head(inbox[c]))
<1>0. /\ session[c] \in Session /\ outbox[c] \in Seq(Reply) /\ received[c] \in Seq(Reply)
      /\ Answers(c) \in Seq(Reply)
  BY DEF IInv, TypeInv, Answers
<1>1. /\ out.session \in Session /\ out.sent \in Seq(Reply)
      /\ Ordered(Answers(c) \o out.sent)
      /\ Remembers(out.session.state, Answers(c) \o out.sent)
  <2>1. Ordered(Answers(c)) /\ Remembers(session[c].state, Answers(c))
    BY DEF IInv, ClientInv, Handle
  <2> QED BY <1>0, <2>1, HandlerKeepsOrder
<1>2. /\ session' = [session EXCEPT ![c] = out.session]
      /\ outbox' = [outbox EXCEPT ![c] = @ \o out.sent]
      /\ inbox' = [inbox EXCEPT ![c] = Tail(@)] /\ inbox[c] # <<>>
      /\ phase[c] = "open" /\ UNCHANGED <<phase, received>>
  BY DEF Handle
<1> HIDE DEF out
<1>3. TypeInv'
  <2>1. Tail(inbox[c]) \in Seq(ClientMsgs)
    BY <1>2 DEF IInv, TypeInv
  <2>2. outbox[c] \o out.sent \in Seq(Reply)
    BY <1>0, <1>1
  <2> QED BY <1>1, <1>2, <2>1, <2>2 DEF IInv, TypeInv
<1>4. ASSUME NEW d \in Clients PROVE ClientInv(d)'
  <2>1. CASE d # c
    BY <1>2, <2>1, SameClient DEF IInv, TypeInv, Answers
  <2>2. CASE d = c
    <3>1. outbox'[c] = outbox[c] \o out.sent /\ session'[c] = out.session
      BY <1>2 DEF IInv, TypeInv
    <3>2. Answers(c)' = Answers(c) \o out.sent
      <4>1. Answers(c)' = received'[c] \o outbox'[c] /\ Answers(c) = received[c] \o outbox[c]
        BY DEF Answers
      <4>2. (received[c] \o outbox[c]) \o out.sent = received[c] \o (outbox[c] \o out.sent)
        <5>1. \A a, b, t \in Seq(Reply) : (a \o b) \o t = a \o (b \o t)
          BY ConcatAssociative
        <5> QED BY <1>0, <1>1, <5>1, Zenon
      <4>3. received' = received
        BY <1>2
      <4> QED BY <3>1, <4>1, <4>2, <4>3
    <3> QED BY <1>1, <1>2, <2>2, <3>1, <3>2 DEF ClientInv
  <2> QED BY <2>1, <2>2
<1> QED BY <1>3, <1>4 DEF IInv

LEMMA MoveHead ==
  ASSUME NEW answers \in Seq(Reply), NEW rest \in Seq(Reply), rest # <<>>
  PROVE  Append(answers, Head(rest)) \o Tail(rest) = answers \o rest
<1>1. rest = <<Head(rest)>> \o Tail(rest)
  OBVIOUS
<1>2. Append(answers, Head(rest)) = answers \o <<Head(rest)>>
  OBVIOUS
<1>3. <<Head(rest)>> \in Seq(Reply) /\ Tail(rest) \in Seq(Reply)
  OBVIOUS
<1>4. (answers \o <<Head(rest)>>) \o Tail(rest) = answers \o (<<Head(rest)>> \o Tail(rest))
  BY <1>3, ConcatAssociative
<1> QED BY <1>1, <1>2, <1>4

LEMMA DeliverInv == ASSUME IInv, NEW c \in Clients, Deliver(c) PROVE IInv'
<1> USE DEF Deliver
<1>0. outbox[c] \in Seq(Reply) /\ received[c] \in Seq(Reply) /\ outbox[c] # <<>>
  BY DEF IInv, TypeInv
<1>1. TypeInv'
  <2>1. Append(received[c], Head(outbox[c])) \in Seq(Reply) /\ Tail(outbox[c]) \in Seq(Reply)
    BY <1>0
  <2> QED BY <2>1 DEF IInv, TypeInv
<1>2. ASSUME NEW d \in Clients PROVE ClientInv(d)'
  <2>1. CASE d # c
    BY <2>1, SameClient DEF IInv, TypeInv, Answers
  <2>2. CASE d = c
    <3>1. outbox'[c] = Tail(outbox[c]) /\ received'[c] = Append(received[c], Head(outbox[c]))
      BY DEF IInv, TypeInv
    <3>2. Answers(c)' = Answers(c)
      <4>1. Answers(c)' = received'[c] \o outbox'[c] /\ Answers(c) = received[c] \o outbox[c]
        BY DEF Answers
      <4> QED BY <1>0, <3>1, <4>1, MoveHead
    <3> QED BY <2>2, <3>2, SameClient DEF IInv
  <2> QED BY <2>1, <2>2
<1> QED BY <1>1, <1>2 DEF IInv

(* What a client has received is the beginning of its answers.             *)
LEMMA BeginningIsOrdered ==
  ASSUME NEW answers \in Seq(Reply), NEW rest \in Seq(Reply), Ordered(answers \o rest)
  PROVE  Ordered(answers)
<1>1. \A id : /\ RepliesTo(answers, id) \subseteq RepliesTo(answers \o rest, id)
              /\ \A i \in RepliesTo(answers \o rest, id) :
                    i <= Len(answers) => i \in RepliesTo(answers, id)
  BY DEF RepliesTo
<1>2. \A id : \A i \in RepliesTo(answers, id) : i \in Nat /\ i <= Len(answers)
  BY DEF RepliesTo
<1>3. \A id : \A i \in RepliesTo(answers \o rest, id) : i \in Nat
  BY DEF RepliesTo
<1>4. Len(answers) \in Nat
  OBVIOUS
<1> QED BY <1>1, <1>2, <1>3, <1>4, SMTT(30) DEF Ordered

LEMMA LoseInv == ASSUME IInv, NEW c \in Clients, Lose(c) PROVE IInv'
<1> USE DEF Lose
<1>0. outbox[c] \in Seq(Reply) /\ received[c] \in Seq(Reply)
  BY DEF IInv, TypeInv
<1>1. TypeInv'
  BY DEF IInv, TypeInv, NewSession, Session, State, RejCause
<1>2. ASSUME NEW d \in Clients PROVE ClientInv(d)'
  <2>1. CASE d # c
    BY <2>1, SameClient DEF IInv, TypeInv, Answers
  <2>2. CASE d = c
    <3>1. phase'[c] = "lost" /\ outbox'[c] = <<>> /\ received'[c] = received[c]
      BY DEF IInv, TypeInv
    <3>2. Answers(c)' = received[c]
      <4>1. Answers(c)' = received'[c] \o outbox'[c]
        BY DEF Answers
      <4>2. received[c] \o <<>> = received[c]
        BY <1>0
      <4> QED BY <3>1, <4>1, <4>2
    <3>3. Ordered(received[c])
      BY <1>0, BeginningIsOrdered DEF IInv, ClientInv, Answers
    <3> QED BY <2>2, <3>1, <3>2, <3>3 DEF ClientInv
  <2> QED BY <2>1, <2>2
<1> QED BY <1>1, <1>2 DEF IInv

(* The client asks, or its connection breaks: nothing is answered.         *)
LEMMA ClientStepInv ==
  ASSUME IInv, NEW c \in Clients, Break(c) \/ \E m \in ClientMsgs : Ask(c, m)
  PROVE  IInv'
<1>1. UNCHANGED <<phase, session, outbox, received>>
  BY DEF Break, Ask
<1>2. TypeInv'
  <2>1. inbox' \in [Clients -> Seq(ClientMsgs)]
    <3>1. CASE Break(c)
      BY <3>1 DEF Break, IInv, TypeInv
    <3>2. ASSUME NEW m \in ClientMsgs, Ask(c, m) PROVE inbox' \in [Clients -> Seq(ClientMsgs)]
      BY <3>2 DEF Ask, IInv, TypeInv
    <3> QED BY <3>1, <3>2
  <2> QED BY <1>1, <2>1 DEF IInv, TypeInv
<1>3. ASSUME NEW d \in Clients PROVE ClientInv(d)'
  BY <1>1, SameClient DEF IInv, Answers
<1> QED BY <1>2, <1>3 DEF IInv

LEMMA NextInv == IInv /\ [Next]_vars => IInv'
<1> SUFFICES ASSUME IInv, [Next]_vars PROVE IInv'
  OBVIOUS
<1>1. CASE UNCHANGED vars
  BY <1>1 DEF vars, IInv, TypeInv, ClientInv, Answers
<1>2. ASSUME NEW c \in Clients,
             \/ Open(c) \/ Handle(c) \/ Deliver(c) \/ Break(c) \/ Lose(c)
             \/ \E m \in ClientMsgs : Ask(c, m)
      PROVE  IInv'
  BY <1>2, OpenInv, HandleInv, DeliverInv, LoseInv, ClientStepInv
<1> QED BY <1>1, <1>2 DEF Next

(* No order of requests gets a refused client in, registers a client       *)
(* twice, or registers one that was not accepted first.                    *)
THEOREM AdmissionAlwaysOrdered == Spec => []AdmissionIsOrdered
<1>1. IInv => AdmissionIsOrdered
  <2> SUFFICES ASSUME IInv, NEW c \in Clients PROVE Ordered(received[c])
    BY DEF AdmissionIsOrdered
  <2>1. Ordered(received[c] \o outbox[c]) /\ received[c] \in Seq(Reply) /\ outbox[c] \in Seq(Reply)
    BY DEF IInv, TypeInv, ClientInv, Answers
  <2> QED BY <2>1, BeginningIsOrdered
<1> QED BY <1>1, InitInv, NextInv, PTL DEF Spec
=============================================================================
