------------------------------ MODULE MsgSocket ------------------------------
(***************************************************************************)
(* Two connected MsgSockets, byte by byte, in one direction: the emission  *)
(* of one end (_sendLoop, sendNextData, sendMsg, discardDataBuffers,       *)
(* stop), called by the loop of the server or of the client, the stream    *)
(* between them, and the reception of the other end (_recvLoop,            *)
(* _recvBeginNewMsg, recvNextData).                                        *)
(*                                                                         *)
(* A step is one system call with what the thread does up to the next one, *)
(* or one turn of a loop that makes no call.  Sizes are scaled down: a     *)
(* unit of the stream stands for some bytes.  Both sockets are             *)
(* non-blocking, so send() may take a part of what it is given, or nothing *)
(* (EWOULDBLOCK), and recv() returns what has arrived.                     *)
(***************************************************************************)
EXTENDS ClientServerRequest, Sequences

CONSTANTS
  Emitter,        \* the program whose loop calls the emitting end: "server" or "client"
  LenSize,        \* size of the field "lenght" of an L1 header
  HeaderSize,     \* sizeof(ClientServerL1MsgHeader)
  EWOULDBLOCK,    \* its value, 11 bytes on the scale of the sizes
  GarbageLengths, \* what the receiver may read where there is no length
  Requests,       \* the requests the upper level makes
  MaxRequests,    \* bound: how many it makes
  MaxBlocks,      \* bound: messages built
  ShortSends,     \* what the kernel may do: pairs <<kind of request, fault of a send>>
  MaxShort,       \* bound: how often it does
  Ends            \* subset of {"stop", "kill", "reset"}: how the connection may end

ASSUME StreamAssumption ==
  /\ Emitter \in {"server", "client"}
  /\ LenSize \in Nat \ {0} /\ HeaderSize \in Nat /\ HeaderSize > LenSize
  /\ EWOULDBLOCK \in Nat /\ EWOULDBLOCK > HeaderSize
  /\ GarbageLengths \subseteq Nat
  /\ Requests \subseteq ClientServerRequest
  /\ MaxRequests \in Nat /\ MaxBlocks \in Nat /\ MaxShort \in Nat
  /\ ShortSends \subseteq {"msg", "file"} \X
                          {"header_refused", "header_cut", "body_refused", "body_cut"}
  /\ Ends \subseteq {"stop", "kill", "reset"}

(* Requests are as their constructors leave them.  No body is exactly as   *)
(* long as EWOULDBLOCK: no structure of the protocol is, and the headers   *)
(* of the blocks are longer.                                               *)
ASSUME RequestsAssumption ==
  /\ L2Header > EWOULDBLOCK
  /\ \A req \in Requests :
       /\ req.nb_payload_bytes_sent = 0 /\ req.offset <= req.l2_payload_length
       /\ req.kind = "msg" => req.l2_payload_length > 0 /\ req.l2_payload_length # EWOULDBLOCK

VARIABLES
  (* the emitting end *)
  tx_pc,        \* where _sendLoop is, or how the process ended
  tx_fifo, tx_req_ptr, tx_state, tx_length, tx_msg_length,
  tx_msg,       \* the message under emission: its place in built, 0 if there is none
  (* the connection *)
  link,         \* "open", "fin": the emitting end is closed, "rst": reset
  wire, inbuf,  \* units on their way, units in the receive buffer
  (* the receiving end *)
  rx_pc, rx_lenght,
  rx_msg,       \* the announced length and the units received of the current message
  (* histories *)
  built,        \* every message built, with its length on the wire
  delivered,    \* every message pushed in rx_fifo
  nb_req,       \* requests made
  short         \* sends that were refused or cut

tx   == <<tx_pc, tx_fifo, tx_req_ptr, tx_state, tx_length, tx_msg_length, tx_msg>>
rx   == <<rx_pc, rx_lenght, rx_msg>>
vars == <<tx, link, wire, inbuf, rx, built, delivered, nb_req, short>>

NoReq == [kind |-> "none", l2_payload_length |-> 0, nb_payload_bytes_sent |-> 0, offset |-> 0]
NoMsg == [lenght |-> 0, units |-> <<>>]

Init ==
  /\ tx_pc = "idle" /\ tx_fifo = <<>> /\ tx_req_ptr = NoReq
  /\ tx_state = "TX_INIT" /\ tx_length = 0 /\ tx_msg_length = 0 /\ tx_msg = 0
  /\ link = "open" /\ wire = <<>> /\ inbuf = <<>>
  /\ rx_pc = "idle" /\ rx_lenght = 0 /\ rx_msg = NoMsg
  /\ built = <<>> /\ delivered = <<>> /\ nb_req = 0 /\ short = 0

-----------------------------------------------------------------------------
(* The calls of the upper level.                                           *)

TxOver == tx_pc \in {"gone", "torn", "aborted"}

sendMsg(req) ==
  /\ ~TxOver /\ nb_req < MaxRequests
  /\ tx_fifo' = Append(tx_fifo, req)
  /\ nb_req' = nb_req + 1
  /\ UNCHANGED <<tx_pc, tx_req_ptr, tx_state, tx_length, tx_msg_length, tx_msg,
                 link, wire, inbuf, rx, built, delivered, short>>

(* The queues are emptied, by another thread if need be; the message under *)
(* emission is left alone.                                                 *)
KeepCurrentMessageM1 == tx_length' = 0 /\ tx_msg_length' = 0 /\ tx_msg' = 0  \* mutant: _txReset as well
KeepCurrentMessage == UNCHANGED <<tx_length, tx_msg_length, tx_msg>>

discardDataBuffers ==
  /\ ~TxOver
  /\ tx_fifo' = <<>>
  /\ KeepCurrentMessage
  /\ UNCHANGED <<tx_pc, tx_req_ptr, tx_state, link, wire, inbuf, rx, built, delivered,
                 nb_req, short>>

(* stop(): the queues and the current message are dropped, and the         *)
(* descriptor is closed.  tx_req_ptr is not reset.                         *)
TxDropped ==
  /\ tx_fifo' = <<>> /\ tx_state' = "TX_INIT"
  /\ tx_length' = 0 /\ tx_msg_length' = 0 /\ tx_msg' = 0
  /\ UNCHANGED tx_req_ptr

Closed == link' = IF link = "open" THEN "fin" ELSE link

stop ==
  /\ "stop" \in Ends /\ tx_pc = "idle"
  /\ tx_pc' = "gone" /\ TxDropped /\ Closed
  /\ UNCHANGED <<wire, inbuf, rx, built, delivered, nb_req, short>>

(* The process is killed, and the kernel closes the descriptor, wherever   *)
(* _sendLoop was: between the header and the body of a message, half of it *)
(* has left.                                                               *)
Killed ==
  /\ "kill" \in Ends /\ ~TxOver
  /\ tx_pc' = IF tx_pc = "body" THEN "torn" ELSE "gone"
  /\ TxDropped /\ Closed
  /\ UNCHANGED <<wire, inbuf, rx, built, delivered, nb_req, short>>

-----------------------------------------------------------------------------
(* The emission.                                                           *)

_txPopNextRequest ==
  IF tx_fifo = <<>> THEN tx_req_ptr' = NoReq /\ UNCHANGED tx_fifo
  ELSE tx_req_ptr' = Head(tx_fifo) /\ tx_fifo' = Tail(tx_fifo)

(* When a loop calls the socket.  The server's write bit is set with each  *)
(* answer and stays as long as sendNextData returns that a request is      *)
(* under way; the client asks poll() for writability only when requests    *)
(* are queued, and forgets the one under way.                              *)
WriteAskedM1 == tx_fifo # <<>> \/ (Emitter = "server" /\ tx_msg # 0)  \* mutant: that a message is under way
WriteAsked == tx_fifo # <<>> \/ (Emitter = "server" /\ tx_req_ptr # NoReq)

sendNextData ==
  /\ tx_pc = "idle" /\ WriteAsked
  /\ tx_pc' = "loop" /\ tx_state' = "TX_READY"
  /\ IF tx_req_ptr = NoReq THEN _txPopNextRequest ELSE UNCHANGED <<tx_req_ptr, tx_fifo>>
  /\ UNCHANGED <<tx_length, tx_msg_length, tx_msg, link, wire, inbuf, rx, built, delivered,
                 nb_req, short>>

InLoop == tx_pc = "loop" /\ tx_state = "TX_READY" /\ tx_req_ptr # NoReq

(* One message at most is completed by a call: _txReset leaves TX_READY.   *)
EndOfSendLoop ==
  /\ tx_pc = "loop" /\ (tx_state # "TX_READY" \/ tx_req_ptr = NoReq)
  /\ tx_pc' = "idle"
  /\ UNCHANGED <<tx_fifo, tx_req_ptr, tx_state, tx_length, tx_msg_length, tx_msg,
                 link, wire, inbuf, rx, built, delivered, nb_req, short>>

(* The request is served: the two assertions, and the next one.  A process *)
(* that aborts closes its end of the connection.                           *)
NextRequest ==
  /\ InLoop /\ ~someDataToSend(tx_req_ptr)
  /\ IF tx_length = 0 /\ tx_msg_length = 0
     THEN _txPopNextRequest /\ UNCHANGED <<tx_pc, link>>
     ELSE tx_pc' = "aborted" /\ Closed /\ UNCHANGED <<tx_req_ptr, tx_fifo>>
  /\ UNCHANGED <<tx_state, tx_length, tx_msg_length, tx_msg, wire, inbuf, rx, built,
                 delivered, nb_req, short>>

(* The next message is built unless one is under emission, then its header *)
(* is sent if nothing of it was.                                           *)
BuildMessage ==
  /\ InLoop /\ someDataToSend(tx_req_ptr) /\ tx_msg = 0 /\ Len(built) < MaxBlocks
  /\ LET next == buildNextL2Msg(tx_req_ptr)
         length == next.length + HeaderSize
     IN /\ tx_req_ptr' = next.req
        /\ built' = Append(built, [body |-> next.body, length |-> length])
        /\ tx_msg' = Len(built) + 1 /\ tx_msg_length' = length
  /\ tx_pc' = IF tx_length = 0 THEN "header" ELSE "body"
  /\ UNCHANGED <<tx_fifo, tx_state, tx_length, link, wire, inbuf, rx, delivered, nb_req, short>>

ResumeMessage ==
  /\ InLoop /\ someDataToSend(tx_req_ptr) /\ tx_msg # 0
  /\ tx_pc' = IF tx_length = 0 THEN "header" ELSE "body"
  /\ UNCHANGED <<tx_fifo, tx_req_ptr, tx_state, tx_length, tx_msg_length, tx_msg,
                 link, wire, inbuf, rx, built, delivered, nb_req, short>>

(* send(): n units of the message are taken, starting after the first      *)
(* "from" of them.                                                         *)
Take(from, n) == wire' = wire \o [i \in 1 .. n |-> <<tx_msg, from + i>>]

MayFail(fault) ==
  link = "open" /\ short < MaxShort /\ <<tx_req_ptr.kind, fault>> \in ShortSends

(* The header: all of it, a part of it, or nothing.  The loop goes on with *)
(* the body in the first two cases, and ends in the third.                 *)
SendHeader ==
  /\ tx_pc = "header" /\ link = "open"
  /\ \E n \in 1 .. HeaderSize :
       /\ n < HeaderSize => MayFail("header_cut")
       /\ Take(0, n)
       /\ tx_length' = tx_length + n
       /\ tx_pc' = "body"
       /\ short' = IF n < HeaderSize THEN short + 1 ELSE short
  /\ UNCHANGED <<tx_fifo, tx_req_ptr, tx_state, tx_msg_length, tx_msg, link, inbuf, rx,
                 built, delivered, nb_req>>

SendHeaderRefused ==
  /\ tx_pc = "header" /\ MayFail("header_refused")
  /\ tx_state' = "TX_BUSY" /\ tx_pc' = "idle" /\ short' = short + 1
  /\ UNCHANGED <<tx_fifo, tx_req_ptr, tx_length, tx_msg_length, tx_msg, link, wire, inbuf, rx,
                 built, delivered, nb_req>>

(* The rest of the message, from the beginning of its body.  A number of   *)
(* bytes that happens to be EWOULDBLOCK is taken for a refusal, and is not *)
(* counted.                                                                *)
MessageSentM1(length) ==            \* mutant: the reset leaves tx_msg_length as it is
  IF length = tx_msg_length
  THEN /\ tx_state' = "TX_INIT" /\ tx_length' = 0 /\ tx_msg' = 0 /\ UNCHANGED tx_msg_length
       /\ tx_pc' = "loop"
  ELSE /\ tx_length' = length /\ tx_pc' = "loop"
       /\ UNCHANGED <<tx_state, tx_msg_length, tx_msg>>

MessageSent(length) ==
  IF length = tx_msg_length
  THEN /\ tx_state' = "TX_INIT" /\ tx_length' = 0 /\ tx_msg_length' = 0 /\ tx_msg' = 0
       /\ tx_pc' = "loop"
  ELSE /\ tx_length' = length /\ tx_pc' = "loop"
       /\ UNCHANGED <<tx_state, tx_msg_length, tx_msg>>

BodyOffsetM1 == 0                   \* mutant: the body is sent from the header's buffer
BodyOffset == HeaderSize

SendBody ==
  /\ tx_pc = "body" /\ link = "open"
  /\ LET count == tx_msg_length - tx_length
     IN \E n \in 1 .. count :
          /\ n < count => MayFail("body_cut")
          /\ Take(BodyOffset, n)
          /\ IF n = EWOULDBLOCK
             THEN tx_state' = "TX_BUSY" /\ tx_pc' = "idle"
                  /\ UNCHANGED <<tx_length, tx_msg_length, tx_msg>>
             ELSE MessageSent(tx_length + n)
          /\ short' = IF n < count THEN short + 1 ELSE short
  /\ UNCHANGED <<tx_fifo, tx_req_ptr, link, inbuf, rx, built, delivered, nb_req>>

(* A refused send returns -EWOULDBLOCK, which is added to tx_length.       *)
SendBodyRefused ==
  /\ tx_pc = "body" /\ MayFail("body_refused")
  /\ tx_state' = "TX_BUSY" /\ tx_pc' = "loop" /\ tx_length' = tx_length - EWOULDBLOCK
  /\ short' = short + 1
  /\ UNCHANGED <<tx_fifo, tx_req_ptr, tx_msg_length, tx_msg, link, wire, inbuf, rx, built,
                 delivered, nb_req>>

(* socket_disconnection: everything is reset, and the exception leaves     *)
(* sendNextData; its caller stops the socket.                              *)
SendDisconnected ==
  /\ tx_pc \in {"header", "body"} /\ link = "rst"
  /\ tx_pc' = "gone" /\ TxDropped
  /\ UNCHANGED <<link, wire, inbuf, rx, built, delivered, nb_req, short>>

-----------------------------------------------------------------------------
(* The stream.                                                             *)

Arrive ==
  \E n \in 1 .. Len(wire) :
    /\ inbuf' = inbuf \o SubSeq(wire, 1, n)
    /\ wire' = SubSeq(wire, n + 1, Len(wire))
    /\ UNCHANGED <<tx, link, rx, built, delivered, nb_req, short>>

Reset ==
  /\ "reset" \in Ends /\ link = "open"
  /\ link' = "rst" /\ wire' = <<>> /\ inbuf' = <<>>
  /\ UNCHANGED <<tx, rx, built, delivered, nb_req, short>>

-----------------------------------------------------------------------------
(* The reception.                                                          *)

EndOfStream == link = "fin" /\ wire = <<>> /\ inbuf = <<>>

(* The socket is readable.                                                 *)
recvNextData ==
  /\ rx_pc = "idle" /\ (inbuf # <<>> \/ EndOfStream \/ link = "rst")
  /\ rx_pc' = "loop"
  /\ UNCHANGED <<tx, link, wire, inbuf, rx_lenght, rx_msg, built, delivered, nb_req, short>>

EndOfRecvLoop ==
  /\ rx_pc' = "idle"
  /\ UNCHANGED <<tx, link, wire, inbuf, rx_lenght, rx_msg, built, delivered, nb_req, short>>

(* What the receiver reads as a length.                                    *)
Announced(units) ==
  LET m == units[1][1]
  IN IF units = [i \in 1 .. LenSize |-> <<m, i>>] THEN {built[m].length} ELSE GarbageLengths

(* The length of the next message is peeked at, then consumed, when it has *)
(* arrived whole; the end of the stream looks like missing data.           *)
Peeked == Len(inbuf) >= LenSize

_recvBeginNewMsg ==
  /\ rx_pc = "loop" /\ link # "rst" /\ rx_lenght = 0
  /\ IF Peeked
     THEN /\ LET units == SubSeq(inbuf, 1, LenSize)
             IN \E lenght \in Announced(units) : rx_msg' = [lenght |-> lenght, units |-> units]
          /\ rx_lenght' = LenSize
          /\ inbuf' = SubSeq(inbuf, LenSize + 1, Len(inbuf))
          /\ UNCHANGED <<tx, link, wire, rx_pc, built, delivered, nb_req, short>>
     ELSE EndOfRecvLoop

MissingM1 == rx_msg.lenght - rx_lenght - 1   \* mutant: the padding byte is not counted
Missing == rx_msg.lenght - rx_lenght

ReceiveRest ==
  /\ rx_pc = "loop" /\ link # "rst" /\ rx_lenght # 0 /\ Missing > 0 /\ inbuf # <<>>
  /\ LET n == IF Len(inbuf) < Missing THEN Len(inbuf) ELSE Missing
     IN /\ rx_msg' = [rx_msg EXCEPT !.units = @ \o SubSeq(inbuf, 1, n)]
        /\ rx_lenght' = rx_lenght + n
        /\ inbuf' = SubSeq(inbuf, n + 1, Len(inbuf))
  /\ UNCHANGED <<tx, link, wire, rx_pc, built, delivered, nb_req, short>>

(* Nothing has arrived.  recv() returns 0 at the end of the stream and     *)
(* leaves errno as an earlier call set it: the assertion on errno may hold *)
(* or fail.                                                                *)
NothingToReceive ==
  /\ rx_pc = "loop" /\ link # "rst" /\ rx_lenght # 0 /\ Missing > 0 /\ inbuf = <<>>
  /\ rx_pc' \in IF EndOfStream THEN {"idle", "aborted"} ELSE {"idle"}
  /\ UNCHANGED <<tx, link, wire, inbuf, rx_lenght, rx_msg, built, delivered, nb_req, short>>

(* The whole message is there: it is queued, whatever it contains.         *)
Garbage == [id |-> "garbage", at |-> 0, read |-> 0, nb |-> 0, size |-> 0]
Contents(units) ==
  LET m == units[1][1]
  IN IF units = [i \in 1 .. built[m].length |-> <<m, i>>] THEN built[m].body ELSE Garbage

(* assert(nb == 0) fails for a length below the size of its own field.     *)
MessageReceived ==
  /\ rx_pc = "loop" /\ link # "rst" /\ rx_lenght # 0 /\ Missing <= 0
  /\ IF Missing = 0
     THEN /\ delivered' = Append(delivered, Contents(rx_msg.units))
          /\ rx_lenght' = 0 /\ rx_msg' = NoMsg
          /\ UNCHANGED rx_pc
     ELSE rx_pc' = "aborted" /\ UNCHANGED <<delivered, rx_lenght, rx_msg>>
  /\ UNCHANGED <<tx, link, wire, inbuf, built, nb_req, short>>

(* socket_disconnection: the current message is dropped with the socket.   *)
ReceiveDisconnected ==
  /\ rx_pc = "loop" /\ link = "rst"
  /\ rx_pc' = "gone" /\ rx_lenght' = 0 /\ rx_msg' = NoMsg
  /\ UNCHANGED <<tx, link, wire, inbuf, built, delivered, nb_req, short>>

-----------------------------------------------------------------------------
Emission ==
  \/ sendNextData \/ EndOfSendLoop \/ NextRequest \/ BuildMessage \/ ResumeMessage
  \/ SendHeader \/ SendHeaderRefused \/ SendBody \/ SendBodyRefused \/ SendDisconnected

Reception ==
  \/ recvNextData \/ _recvBeginNewMsg \/ ReceiveRest \/ NothingToReceive
  \/ MessageReceived \/ ReceiveDisconnected

Next ==
  \/ \E req \in Requests : sendMsg(req)
  \/ discardDataBuffers \/ stop \/ Killed \/ Emission \/ Arrive \/ Reset \/ Reception

Spec == Init /\ [][Next]_vars

(* Each thread calls its socket when select or poll says so, and what was  *)
(* sent arrives.  Nothing is promised of the emission once a send has been *)
(* refused or cut: pselect() then clears the write bit of a full socket,   *)
(* and nothing sets it again before the next answer.                       *)
FairSpec ==
  Spec /\ WF_vars(short = 0 /\ Emission) /\ WF_vars(Reception) /\ WF_vars(Arrive)

-----------------------------------------------------------------------------
(* Properties.                                                             *)

(* Every variable has its type.                                            *)
Units == (1 .. MaxBlocks) \X (Nat \ {0})
TypeOK ==
  /\ tx_pc \in {"idle", "loop", "header", "body", "gone", "torn", "aborted"}
  /\ tx_fifo \in Seq(ClientServerRequest)
  /\ tx_req_ptr \in ClientServerRequest \cup {NoReq}
  /\ tx_state \in {"TX_INIT", "TX_READY", "TX_BUSY"}
  /\ tx_length \in Int /\ tx_msg_length \in Nat /\ tx_msg \in 0 .. MaxBlocks
  /\ link \in {"open", "fin", "rst"}
  /\ wire \in Seq(Units) /\ inbuf \in Seq(Units)
  /\ rx_pc \in {"idle", "loop", "gone", "aborted"}
  /\ rx_lenght \in Nat /\ rx_msg \in [lenght : Nat, units : Seq(Units)]
  /\ built \in Seq([body : MsgBody, length : Nat])
  /\ delivered \in Seq(MsgBody \cup {Garbage})
  /\ nb_req \in 0 .. MaxRequests /\ short \in 0 .. MaxShort

(* The receiver is given the very messages that were built, whole, in      *)
(* order and each once, however the stream is cut on arrival, whenever the *)
(* queues are emptied and wherever the connection ends (the comments of    *)
(* discardDataBuffers and "send the rest of the message").                 *)
Fifo ==
  /\ Len(delivered) <= Len(built)
  /\ \A i \in 1 .. Len(delivered) : delivered[i] = built[i].body

(* As long as the kernel takes each send whole and the emitting process is *)
(* not killed between the two sends of a message, no assertion of          *)
(* _sendLoop or _recvLoop can fail on either side: arrival in pieces, an   *)
(* emptied queue, a stop or a kill elsewhere never leave half a message on *)
(* the wire.                                                               *)
AbortNeedsHalfMessage == "aborted" \in {tx_pc, rx_pc} => short > 0 \/ tx_pc = "torn"

(* The blocks of a transfer follow each other in the file without a gap or *)
(* an overlap, each holds the bytes of the place it announces and none is  *)
(* empty; another message than the next block, the first block of another  *)
(* file included, comes only when the file is complete.                    *)
IsBlock(body) == body.id \in {"FILE_TRANSFER_REQ", "TRANSFER_DATA_BLK"}
Continues(body, previous) ==
  IsBlock(previous) /\ body.size = previous.size /\ body.at = previous.at + previous.nb
Completes(previous) == IsBlock(previous) => previous.at + previous.nb = previous.size
BlocksAreContiguous ==
  \A i \in 1 .. Len(built) :
    LET body == built[i].body
    IN /\ body.nb > 0 /\ (IsBlock(body) => body.read = body.at)
       /\ IF body.id = "TRANSFER_DATA_BLK"
          THEN i > 1 /\ Continues(body, built[i - 1].body)
          ELSE i > 1 => Completes(built[i - 1].body)

(* If the connection lasts and its buffers never fill, everything asked    *)
(* for is sent and received: sendNextData ends after one message, and the  *)
(* rest of a file depends on the loop calling it again.  The client's loop *)
(* does not.                                                               *)
Settled ==
  /\ tx_fifo = <<>> /\ ~someDataToSend(tx_req_ptr)
  /\ Len(delivered) = Len(built)
EverythingArrives == <>[](Settled \/ link # "open" \/ short > 0)

(* The stream of bytes implements a channel of whole messages.             *)
Channel == INSTANCE MsgChannel WITH
  queue <- tx_fifo,
  req <- IF tx_req_ptr = NoReq THEN <<>> ELSE <<tx_req_ptr>>,
  transit <- [i \in 1 .. (Len(built) - Len(delivered)) |-> built[Len(delivered) + i].body],
  ended <- link # "open"
ChannelSpec == Channel!Spec
=============================================================================
