--------------------------- MODULE MsgSocketProofs ---------------------------
(***************************************************************************)
(* What a pair of MsgSockets guarantees for messages and files of any      *)
(* number and size, cut in any way on arrival: theorems of MsgSocket.      *)
(***************************************************************************)
EXTENDS MsgSocket, SequenceTheorems, TLAPS

(* The faults of a send after which the stream holds nothing wrong: a      *)
(* message of its own that is refused or whose body is cut is never gone   *)
(* on with, and a refused header of a block is sent later.                 *)
Harmless == ({"msg"} \X {"header_refused", "body_refused", "body_cut"})
              \cup {<<"file", "header_refused">>}
Undamaged == short = 0 \/ ShortSends \subseteq Harmless

-----------------------------------------------------------------------------
(* What holds whatever the kernel does.                                    *)

(* A request under way: a message is sent in one go.                       *)
Begun(req) ==
  /\ req \in ClientServerRequest /\ req.offset <= req.l2_payload_length
  /\ req.kind = "msg" => /\ req.l2_payload_length > 0 /\ req.l2_payload_length # EWOULDBLOCK
                         /\ req.nb_payload_bytes_sent \in {0, req.l2_payload_length}

BuiltOK ==
  /\ Len(built) <= MaxBlocks
  /\ \A m \in 1 .. Len(built) : /\ built[m].length > HeaderSize
                                /\ built[m].length # HeaderSize + EWOULDBLOCK

(* The positions are those of the message under emission, the last built.  *)
TxOK ==
  /\ tx_fifo \in Seq(Requests)
  /\ tx_req_ptr = NoReq \/ Begun(tx_req_ptr)
  /\ tx_msg = 0 => tx_length = 0 /\ tx_msg_length = 0 /\ tx_pc \notin {"header", "body"}
  /\ tx_msg # 0 => /\ tx_msg = Len(built) /\ tx_msg_length = built[tx_msg].length
                   /\ tx_req_ptr # NoReq
                   /\ tx_req_ptr.kind = "msg" => ~someDataToSend(tx_req_ptr)
  /\ tx_pc = "header" => tx_length = 0
  /\ link = "fin" => tx_pc \in {"gone", "torn", "aborted"}

(* Only units of messages that were built are in the stream.               *)
BuiltUnits == (1 .. Len(built)) \X (Nat \ {0})
RxOK ==
  /\ wire \in Seq(BuiltUnits) /\ inbuf \in Seq(BuiltUnits) /\ rx_msg.units \in Seq(BuiltUnits)
  /\ Len(rx_msg.units) = rx_lenght

(* The two halves of TypeOK.                                               *)
TxTyped ==
  /\ tx_pc \in {"idle", "loop", "header", "body", "gone", "torn", "aborted"}
  /\ tx_fifo \in Seq(ClientServerRequest)
  /\ tx_req_ptr \in ClientServerRequest \cup {NoReq}
  /\ tx_state \in {"TX_INIT", "TX_READY", "TX_BUSY"}
  /\ tx_length \in Int /\ tx_msg_length \in Nat /\ tx_msg \in 0 .. MaxBlocks
  /\ nb_req \in 0 .. MaxRequests /\ short \in 0 .. MaxShort
RxTyped ==
  /\ link \in {"open", "fin", "rst"}
  /\ wire \in Seq(Units) /\ inbuf \in Seq(Units)
  /\ rx_pc \in {"idle", "loop", "gone", "aborted"}
  /\ rx_lenght \in Nat /\ rx_msg \in [lenght : Nat, units : Seq(Units)]
  /\ built \in Seq([body : MsgBody, length : Nat])
  /\ delivered \in Seq(MsgBody \cup {Garbage})

BasicInv == TypeOK /\ BuiltOK /\ TxOK /\ RxOK

-----------------------------------------------------------------------------
(* The stream, as long as it is undamaged.  Message m takes the places      *)
(* after start[m] and up to start[m + 1] in what is on its way; start[m]   *)
(* is negative when a part of the message has been received.  d messages   *)
(* are delivered, "got" units of the next one are received.                *)
Placed(start, v, n, last, d, got) ==
  /\ start[d + 1] = 0 - got
  /\ \A m, k \in Nat : d < m /\ m <= k /\ k <= last + 1 => start[m] <= start[k]
  /\ \A m, i \in Nat :
       /\ d < m /\ m <= last /\ 1 <= i /\ i <= n
       /\ start[m] < i /\ i <= start[m + 1]
       => v[i] = <<m, i - start[m]>>
  /\ n <= start[last + 1]

Stream == inbuf \o wire
OnWay == Len(inbuf) + Len(wire)
Last == Len(built)
Done == Len(delivered)

Sized(start, b, last, d) ==
  \A m \in Nat : d < m /\ m <= last => start[m + 1] = start[m] + b[m].length

(* The message under emission will be gone on with.                        *)
Sending ==
  /\ tx_msg # 0 /\ tx_pc \notin {"gone", "torn", "aborted"}
  /\ tx_pc \in {"header", "body"} \/ someDataToSend(tx_req_ptr)

TxPlace(start) ==
  /\ tx_msg = 0 /\ tx_pc \notin {"gone", "torn", "aborted"} => OnWay = start[Last + 1]
  /\ Sending => Done < Last /\ OnWay = start[Last] + tx_length
  /\ link = "fin" /\ short = 0 /\ tx_pc # "torn" => OnWay \in {start[Last], start[Last + 1]}

Streamed ==
  link # "rst" =>
    \E start \in [Nat -> Int] :
      /\ Placed(start, Stream, OnWay, Last, Done, rx_lenght)
      /\ Sized(start, built, Last, Done) /\ TxPlace(start)

(* A refused message is sent again from its header or not at all.          *)
Resumable ==
  /\ tx_pc = "body" => tx_length = HeaderSize
  /\ tx_msg # 0 /\ tx_pc \in {"idle", "loop"} =>
       short > 0 /\ (someDataToSend(tx_req_ptr) => tx_length = 0)

(* The message under reception is the next one to deliver.                 *)
Receiving ==
  rx_lenght # 0 =>
    /\ Done < Last
    /\ rx_msg.lenght = built[Done + 1].length /\ rx_lenght <= rx_msg.lenght
    /\ \A i \in 1 .. rx_lenght : rx_msg.units[i] = <<Done + 1, i>>

StreamInv == Streamed /\ Resumable /\ Receiving /\ Fifo /\ AbortNeedsHalfMessage

IInv == BasicInv /\ (Undamaged => StreamInv)

-----------------------------------------------------------------------------
LEMMA BlockTaken ==
  ASSUME NEW req \in ClientServerRequest, NEW nb \in Nat
  PROVE  LET left == [req EXCEPT !.nb_payload_bytes_sent = @ + nb, !.offset = @ + nb]
         IN /\ left \in ClientServerRequest /\ left.kind = req.kind
            /\ left.l2_payload_length = req.l2_payload_length
            /\ left.nb_payload_bytes_sent = req.nb_payload_bytes_sent + nb
            /\ left.offset = req.offset + nb
<1>1. req.nb_payload_bytes_sent + nb \in Nat /\ req.offset + nb \in Nat
  BY DEF ClientServerRequest
<1>2. ASSUME NEW sent \in Nat, NEW offset \in Nat
      PROVE  [req EXCEPT !.nb_payload_bytes_sent = sent, !.offset = offset] \in ClientServerRequest
  BY DEF ClientServerRequest
<1>3. [req EXCEPT !.nb_payload_bytes_sent = @ + nb, !.offset = @ + nb] \in ClientServerRequest
  BY <1>1, <1>2
<1> QED BY <1>3 DEF ClientServerRequest

(* The next block of a request: what it is, and what is left.              *)
LEMMA NextMessage ==
  ASSUME NEW req, Begun(req), someDataToSend(req)
  PROVE  LET next == buildNextL2Msg(req)
         IN /\ Begun(next.req) /\ next.req.kind = req.kind
            /\ next.req.kind = "msg" => ~someDataToSend(next.req)
            /\ next.body \in MsgBody
            /\ next.length \in Nat /\ next.length > 0 /\ next.length # EWOULDBLOCK
<1> USE SizesAssumption, StreamAssumption, RequestsAssumption DEF Begun, ClientServerRequest
<1>1. CASE req.kind = "msg"
  BY <1>1 DEF buildNextL2Msg, BodyOf, MsgBody, someDataToSend
<1>2. CASE req.kind = "file"
  <2>1. ASSUME NEW room \in Nat \ {0}, NEW id \in {"FILE_TRANSFER_REQ", "TRANSFER_DATA_BLK"}
        PROVE  LET next == NextBlock(req, id, room)
               IN /\ Begun(next.req) /\ next.req.kind = "file"
                  /\ next.body \in MsgBody
                  /\ next.length \in Nat /\ next.length > 0 /\ next.length # EWOULDBLOCK
    <3> DEFINE nb == file_read_data(req, room)
    <3> DEFINE left == [req EXCEPT !.nb_payload_bytes_sent = @ + nb, !.offset = @ + nb]
    <3>1. nb \in Nat /\ nb <= req.l2_payload_length - req.offset
      BY DEF file_read_data
    <3>2. NextBlock(req, id, room) =
            [req |-> left, length |-> nb + L2Header,
             body |-> BodyOf(req, id, nb)]
      BY DEF NextBlock
    <3> HIDE DEF nb
    <3>3. /\ left \in ClientServerRequest /\ left.kind = "file"
          /\ left.l2_payload_length = req.l2_payload_length
          /\ left.offset = req.offset + nb
      BY <1>2, <3>1, BlockTaken
    <3> HIDE DEF left
    <3>4. Begun(left) /\ left.kind = "file"
      BY <3>1, <3>3
    <3>5. BodyOf(req, id, nb) \in MsgBody
      BY <3>1 DEF MsgBody, BodyOf
    <3>6. nb + L2Header \in Nat /\ nb + L2Header > 0 /\ nb + L2Header # EWOULDBLOCK
      BY <3>1
    <3> QED BY <3>2, <3>3, <3>4, <3>5, <3>6
  <2> QED BY <1>2, <2>1 DEF buildNextL2Msg
<1> QED BY <1>1, <1>2

LEMMA FreshRequest == ASSUME NEW req \in Requests PROVE Begun(req) /\ req # NoReq
BY StreamAssumption, RequestsAssumption DEF Begun, NoReq, ClientServerRequest

LEMMA TypesSplit == (TypeOK <=> TxTyped /\ RxTyped) /\ (TypeOK' <=> TxTyped' /\ RxTyped')
BY DEF TypeOK, TxTyped, RxTyped

(* Units stay units of built messages when one more is built.              *)
LEMMA UnitsTyped ==
  ASSUME BasicInv, NEW s \in Seq(BuiltUnits)
  PROVE  /\ s \in Seq(Units)
         /\ Len(built)' \in Nat /\ Len(built)' >= Len(built) => s \in Seq(BuiltUnits')
<1> USE StreamAssumption DEF BasicInv, BuiltOK, TypeOK
<1>1. BuiltUnits \subseteq Units
  BY DEF BuiltUnits, Units
<1>2. ASSUME Len(built)' \in Nat, Len(built)' >= Len(built) PROVE BuiltUnits \subseteq BuiltUnits'
  BY <1>2 DEF BuiltUnits
<1> QED BY <1>1, <1>2, SeqMonotonic

(* An emission that only moves the positions.                              *)
LEMMA StreamKept ==
  ASSUME BasicInv, UNCHANGED <<wire, inbuf, rx, built>>
  PROVE  RxOK' /\ BuiltOK'
BY DEF BasicInv, RxOK, BuiltOK, BuiltUnits, rx

LEMMA BasicInit == Init => BasicInv
<1> SUFFICES ASSUME Init PROVE BasicInv
  OBVIOUS
<1> USE StreamAssumption DEF Init
<1>1. TypeOK
  BY DEF TypeOK, NoMsg
<1>2. BuiltOK /\ TxOK /\ RxOK
  BY DEF BuiltOK, TxOK, RxOK, NoMsg
<1> QED BY <1>1, <1>2 DEF BasicInv

LEMMA UpperLevelBasic ==
  ASSUME BasicInv, (\E req \in Requests : sendMsg(req)) \/ discardDataBuffers \/ stop \/ Killed
  PROVE  BasicInv'
<1> USE DEF BasicInv, rx
<1>1. ASSUME NEW req \in Requests, sendMsg(req) PROVE BasicInv'
  <2> USE <1>1 DEF sendMsg
  <2>1. req \in ClientServerRequest BY StreamAssumption
  <2>2. TypeOK'
    <3>1. TxTyped' BY <2>1, StreamAssumption, TypesSplit DEF TxTyped
    <3>2. RxTyped' BY <2>1, StreamAssumption, TypesSplit DEF RxTyped
    <3> QED BY <3>1, <3>2, TypesSplit
  <2>3. TxOK' BY DEF TxOK
  <2> QED BY <2>2, <2>3, StreamKept
<1>2. CASE discardDataBuffers
  <2> USE <1>2 DEF discardDataBuffers, KeepCurrentMessage
  <2>1. TypeOK'
    <3>1. TxTyped' BY TypesSplit DEF TxTyped
    <3>2. RxTyped' BY TypesSplit DEF RxTyped
    <3> QED BY <3>1, <3>2, TypesSplit
  <2>2. TxOK' BY DEF TxOK
  <2> QED BY <2>1, <2>2, StreamKept
<1>3. CASE stop \/ Killed
  <2>1. /\ tx_pc' \in {"gone", "torn"} /\ tx_fifo' = <<>> /\ tx_state' = "TX_INIT"
        /\ tx_length' = 0 /\ tx_msg_length' = 0 /\ tx_msg' = 0
        /\ UNCHANGED <<tx_req_ptr, wire, inbuf, rx, built, delivered, nb_req, short>>
    BY <1>3 DEF stop, Killed, TxDropped
  <2>2. link' \in {"open", "fin", "rst"}
    BY <1>3, TypesSplit DEF stop, Killed, Closed, RxTyped
  <2>3. TypeOK'
    <3>1. tx_fifo' \in Seq(ClientServerRequest)
      BY <2>1
    <3>2. 0 \in Nat /\ 0 \in Int /\ 0 \in 0 .. MaxBlocks
      BY StreamAssumption
    <3>3. TxTyped' BY <2>1, <3>1, <3>2, TypesSplit DEF TxTyped
    <3>4. RxTyped' BY <2>1, <2>2, TypesSplit DEF RxTyped
    <3> QED BY <3>3, <3>4, TypesSplit
  <2>4. TxOK'
    <3>1. tx_fifo' \in Seq(Requests)
      BY <2>1
    <3> QED BY <2>1, <3>1 DEF TxOK
  <2> QED BY <2>1, <2>3, <2>4, StreamKept
<1> QED BY <1>1, <1>2, <1>3

(* The next request is one the upper level made.                           *)
LEMMA PopBasic ==
  ASSUME BasicInv, _txPopNextRequest
  PROVE  /\ tx_fifo' \in Seq(Requests) /\ tx_fifo' \in Seq(ClientServerRequest)
         /\ tx_req_ptr' = NoReq \/ (tx_req_ptr' \in Requests /\ Begun(tx_req_ptr'))
<1>1. tx_fifo \in Seq(Requests) BY DEF BasicInv, TxOK
<1>2. tx_fifo' \in Seq(Requests) /\ (tx_req_ptr' = NoReq \/ tx_req_ptr' \in Requests)
  BY <1>1 DEF _txPopNextRequest
<1>3. tx_fifo' \in Seq(ClientServerRequest)
  BY <1>2, SeqMonotonic, StreamAssumption
<1> QED BY <1>2, <1>3, FreshRequest

LEMMA LoopBasic ==
  ASSUME BasicInv, sendNextData \/ EndOfSendLoop \/ NextRequest \/ ResumeMessage
  PROVE  BasicInv'
<1> USE DEF BasicInv, rx
<1>1. CASE sendNextData
  <2> USE <1>1 DEF sendNextData
  <2>1. /\ tx_fifo' \in Seq(Requests) /\ tx_fifo' \in Seq(ClientServerRequest)
        /\ tx_req_ptr' = NoReq \/ Begun(tx_req_ptr')
        /\ tx_req_ptr # NoReq => tx_req_ptr' = tx_req_ptr
    BY PopBasic DEF TypeOK, TxOK
  <2>2. tx_req_ptr' \in ClientServerRequest \cup {NoReq}
    BY <2>1 DEF Begun
  <2>3. TypeOK'
    <3>1. TxTyped' BY <2>1, <2>2, TypesSplit DEF TxTyped
    <3>2. RxTyped' BY <2>1, <2>2, TypesSplit DEF RxTyped
    <3> QED BY <3>1, <3>2, TypesSplit
  <2>4. TxOK' BY <2>1 DEF TxOK
  <2> QED BY <2>3, <2>4, StreamKept
<1>2. CASE EndOfSendLoop
  <2> USE <1>2 DEF EndOfSendLoop
  <2>1. TypeOK'
    <3>1. TxTyped' BY TypesSplit DEF TxTyped
    <3>2. RxTyped' BY TypesSplit DEF RxTyped
    <3> QED BY <3>1, <3>2, TypesSplit
  <2>2. TxOK' BY DEF TxOK
  <2> QED BY <2>1, <2>2, StreamKept
<1>3. CASE NextRequest
  <2> USE <1>3 DEF NextRequest, InLoop, Closed
  <2>1. CASE tx_length = 0 /\ tx_msg_length = 0
    <3>1. /\ tx_fifo' \in Seq(Requests) /\ tx_fifo' \in Seq(ClientServerRequest)
          /\ tx_req_ptr' = NoReq \/ Begun(tx_req_ptr')
      BY <2>1, PopBasic
    <3>2. tx_msg = 0
      <4> SUFFICES ASSUME tx_msg # 0 PROVE FALSE
        OBVIOUS
      <4>1. tx_msg \in 1 .. Len(built) BY DEF TypeOK, TxOK
      <4> QED BY <2>1, <4>1, StreamAssumption DEF TxOK, BuiltOK
    <3>3. TypeOK'
      <4>1. TxTyped' BY <2>1, <3>1, TypesSplit DEF TxTyped, Begun
      <4>2. RxTyped' BY <2>1, <3>1, TypesSplit DEF RxTyped, Begun
      <4> QED BY <4>1, <4>2, TypesSplit
    <3>4. TxOK' BY <2>1, <3>1, <3>2 DEF TxOK
    <3> QED BY <3>3, <3>4, StreamKept
  <2>2. CASE ~(tx_length = 0 /\ tx_msg_length = 0)
    <3>1. TypeOK'
      <4>1. TxTyped' BY <2>2, TypesSplit DEF TxTyped
      <4>2. RxTyped' BY <2>2, TypesSplit DEF RxTyped
      <4> QED BY <4>1, <4>2, TypesSplit
    <3>2. TxOK' BY <2>2 DEF TxOK, TypeOK
    <3> QED BY <3>1, <3>2, StreamKept
  <2> QED BY <2>1, <2>2
<1>4. CASE ResumeMessage
  <2> USE <1>4 DEF ResumeMessage, InLoop
  <2>1. TypeOK'
    <3>1. TxTyped' BY TypesSplit DEF TxTyped
    <3>2. RxTyped' BY TypesSplit DEF RxTyped
    <3> QED BY <3>1, <3>2, TypesSplit
  <2>2. TxOK' BY DEF TxOK
  <2> QED BY <2>1, <2>2, StreamKept
<1> QED BY <1>1, <1>2, <1>3, <1>4

LEMMA BuildBasic ==
  ASSUME BasicInv, BuildMessage
  PROVE  BasicInv'
<1> USE DEF BasicInv
<1> DEFINE next == buildNextL2Msg(tx_req_ptr)
           msg == [body |-> next.body, length |-> next.length + HeaderSize]
<1>1. /\ tx_req_ptr' = next.req /\ built' = Append(built, msg)
      /\ tx_msg' = Len(built) + 1 /\ tx_msg_length' = next.length + HeaderSize
      /\ tx_pc' \in {"header", "body"} /\ (tx_length = 0 => tx_pc' = "header")
      /\ tx_length = 0 /\ tx_length' = 0 /\ Len(built) < MaxBlocks
      /\ tx_pc = "loop" /\ tx_fifo' = tx_fifo /\ tx_state' = tx_state
      /\ UNCHANGED <<link, wire, inbuf, rx, delivered, nb_req, short>>
  BY DEF BuildMessage, InLoop, TxOK
<1>2. /\ Begun(next.req) /\ next.req.kind = tx_req_ptr.kind
      /\ next.req.kind = "msg" => ~someDataToSend(next.req)
      /\ next.body \in MsgBody
      /\ next.length \in Nat /\ next.length > 0 /\ next.length # EWOULDBLOCK
  BY NextMessage DEF BuildMessage, InLoop, TxOK
<1> HIDE DEF next
<1>3. /\ msg \in [body : MsgBody, length : Nat] /\ msg.length = next.length + HeaderSize
      /\ msg.length > HeaderSize /\ msg.length # HeaderSize + EWOULDBLOCK
  BY <1>2, StreamAssumption
<1> HIDE DEF msg
<1>4. /\ built' \in Seq([body : MsgBody, length : Nat]) /\ Len(built)' = Len(built) + 1
      /\ built'[Len(built) + 1] = msg /\ Len(built) \in Nat
      /\ \A m \in 1 .. Len(built) : built'[m] = built[m]
  BY <1>1, <1>3, AppendProperties DEF TypeOK
<1>5. BuiltOK'
  BY <1>1, <1>3, <1>4, StreamAssumption DEF BuiltOK
<1>6. TypeOK'
  <2>0. /\ tx_req_ptr' \in ClientServerRequest /\ tx_msg' \in 0 .. MaxBlocks
        /\ tx_msg_length' \in Nat /\ tx_pc' \in {"header", "body"}
    BY <1>1, <1>2, <1>3, <1>4, StreamAssumption DEF Begun
  <2>1. TxTyped' BY <1>1, <2>0, TypesSplit DEF TxTyped
  <2>2. RxTyped' BY <1>1, <1>4, TypesSplit DEF RxTyped, rx
  <2> QED BY <2>1, <2>2, TypesSplit
<1>7. next.req # NoReq
  BY <1>2 DEF Begun, ClientServerRequest, NoReq
<1>8. TxOK'
  BY <1>1, <1>2, <1>3, <1>4, <1>7 DEF TxOK
<1>9. RxOK'
  <2>1. Len(built)' \in Nat /\ Len(built)' >= Len(built)
    BY <1>4
  <2>2. \A s \in Seq(BuiltUnits) : s \in Seq(BuiltUnits')
    BY <2>1, UnitsTyped
  <2>3. wire' \in Seq(BuiltUnits) /\ inbuf' \in Seq(BuiltUnits) /\ rx_msg.units' \in Seq(BuiltUnits)
    BY <1>1 DEF RxOK, rx
  <2>4. Len(rx_msg.units)' = rx_lenght'
    BY <1>1 DEF RxOK, rx
  <2> QED BY <2>2, <2>3, <2>4 DEF RxOK
<1> QED BY <1>5, <1>6, <1>8, <1>9

(* What a send takes of the message under emission is made of its units.   *)
LEMMA TakeBasic ==
  ASSUME BasicInv, tx_pc \in {"header", "body"}, NEW from \in Nat, NEW n \in Nat, Take(from, n)
  PROVE  wire' \in Seq(BuiltUnits) /\ wire' \in Seq(Units)
<1>1. tx_msg \in 1 .. Len(built)
  BY DEF BasicInv, TypeOK, TxOK
<1>2. \A i \in 1 .. n : <<tx_msg, from + i>> \in BuiltUnits
  BY <1>1 DEF BuiltUnits
<1>3. [i \in 1 .. n |-> <<tx_msg, from + i>>] \in Seq(BuiltUnits)
  BY <1>2
<1>4. wire \in Seq(BuiltUnits) /\ wire' = wire \o [i \in 1 .. n |-> <<tx_msg, from + i>>]
  BY DEF Take, BasicInv, RxOK
<1>5. wire' \in Seq(BuiltUnits)
  BY <1>3, <1>4, ConcatProperties
<1> QED BY <1>5, UnitsTyped

(* The kernel fails a bounded number of times.                             *)
LEMMA FailBasic ==
  ASSUME BasicInv, NEW fault, MayFail(fault)
  PROVE  short + 1 \in 0 .. MaxShort
BY StreamAssumption DEF MayFail, BasicInv, TypeOK

LEMMA SendBasic ==
  ASSUME BasicInv,
         SendHeader \/ SendHeaderRefused \/ SendBody \/ SendBodyRefused \/ SendDisconnected
  PROVE  BasicInv'
<1> USE DEF BasicInv, rx
<1>1. CASE SendHeader
  <2>1. PICK n \in 1 .. HeaderSize :
          /\ n < HeaderSize => MayFail("header_cut")
          /\ Take(0, n) /\ tx_length' = tx_length + n /\ tx_pc' = "body"
          /\ short' = IF n < HeaderSize THEN short + 1 ELSE short
    BY <1>1 DEF SendHeader
  <2>2. /\ tx_pc = "header" /\ link = "open" /\ n \in Nat
        /\ UNCHANGED <<tx_fifo, tx_req_ptr, tx_state, tx_msg_length, tx_msg, link, inbuf, rx,
                       built, delivered, nb_req>>
    BY <1>1, StreamAssumption DEF SendHeader
  <2>3. wire' \in Seq(BuiltUnits) /\ wire' \in Seq(Units)
    BY <2>1, <2>2, TakeBasic
  <2>4. short' \in 0 .. MaxShort
    BY <2>1, FailBasic DEF TypeOK
  <2>5. TypeOK'
    <3>1. TxTyped' BY <2>1, <2>2, <2>3, <2>4, TypesSplit DEF TxTyped
    <3>2. RxTyped' BY <2>1, <2>2, <2>3, <2>4, TypesSplit DEF RxTyped
    <3> QED BY <3>1, <3>2, TypesSplit
  <2>6. TxOK' BY <2>1, <2>2 DEF TxOK
  <2>7. RxOK' /\ BuiltOK' BY <2>2, <2>3 DEF RxOK, BuiltOK, BuiltUnits
  <2> QED BY <2>5, <2>6, <2>7
<1>2. CASE SendHeaderRefused
  <2> USE <1>2 DEF SendHeaderRefused
  <2>1. TypeOK'
    <3>1. TxTyped' BY FailBasic, TypesSplit DEF TxTyped
    <3>2. RxTyped' BY FailBasic, TypesSplit DEF RxTyped
    <3> QED BY <3>1, <3>2, TypesSplit
  <2>2. TxOK' BY DEF TxOK
  <2> QED BY <2>1, <2>2, StreamKept
<1>3. CASE SendBody
  <2> DEFINE count == tx_msg_length - tx_length
  <2>1. PICK n \in 1 .. count :
          /\ n < count => MayFail("body_cut")
          /\ Take(BodyOffset, n)
          /\ IF n = EWOULDBLOCK
             THEN tx_state' = "TX_BUSY" /\ tx_pc' = "idle"
                  /\ UNCHANGED <<tx_length, tx_msg_length, tx_msg>>
             ELSE MessageSent(tx_length + n)
          /\ short' = IF n < count THEN short + 1 ELSE short
    BY <1>3 DEF SendBody
  <2>2. /\ tx_pc = "body" /\ link = "open" /\ n \in Nat /\ tx_length + n \in Int
        /\ UNCHANGED <<tx_fifo, tx_req_ptr, link, inbuf, rx, built, delivered, nb_req>>
    BY <1>3 DEF SendBody, TypeOK
  <2>3. wire' \in Seq(BuiltUnits) /\ wire' \in Seq(Units)
    BY <2>1, <2>2, TakeBasic, StreamAssumption DEF BodyOffset
  <2>4. short' \in 0 .. MaxShort
    BY <2>1, FailBasic DEF TypeOK
  <2>5. /\ tx_state' \in {"TX_INIT", "TX_READY", "TX_BUSY"} /\ tx_pc' \in {"idle", "loop"}
        /\ tx_length' \in Int
        /\ \/ UNCHANGED <<tx_msg_length, tx_msg>>
           \/ tx_length' = 0 /\ tx_msg_length' = 0 /\ tx_msg' = 0
    <3>1. CASE n = EWOULDBLOCK BY <2>1, <3>1 DEF TypeOK
    <3>2. CASE n # EWOULDBLOCK BY <2>1, <2>2, <3>2 DEF TypeOK, MessageSent
    <3> QED BY <3>1, <3>2
  <2>6. TypeOK'
    <3>0. tx_msg_length' \in Nat /\ tx_msg' \in 0 .. MaxBlocks
      BY <2>5, StreamAssumption DEF TypeOK
    <3>1. TxTyped' BY <2>2, <2>4, <2>5, <3>0, TypesSplit DEF TxTyped
    <3>2. RxTyped' BY <2>2, <2>3, <2>4, <2>5, TypesSplit DEF RxTyped
    <3> QED BY <3>1, <3>2, TypesSplit
  <2>7. TxOK' BY <2>2, <2>5 DEF TxOK
  <2>8. RxOK' /\ BuiltOK' BY <2>2, <2>3 DEF RxOK, BuiltOK, BuiltUnits
  <2> QED BY <2>6, <2>7, <2>8
<1>4. CASE SendBodyRefused
  <2> USE <1>4 DEF SendBodyRefused
  <2>1. TypeOK'
    <3>1. TxTyped' BY FailBasic, StreamAssumption, TypesSplit DEF TxTyped
    <3>2. RxTyped' BY FailBasic, StreamAssumption, TypesSplit DEF RxTyped
    <3> QED BY <3>1, <3>2, TypesSplit
  <2>2. TxOK' BY DEF TxOK, MayFail
  <2> QED BY <2>1, <2>2, StreamKept
<1>5. CASE SendDisconnected
  <2> USE <1>5 DEF SendDisconnected, TxDropped
  <2>1. TypeOK'
    <3>1. TxTyped' BY StreamAssumption, TypesSplit DEF TxTyped
    <3>2. RxTyped' BY TypesSplit DEF RxTyped
    <3> QED BY <3>1, <3>2, TypesSplit
  <2>2. TxOK' BY DEF TxOK
  <2> QED BY <2>1, <2>2, StreamKept
<1> QED BY <1>1, <1>2, <1>3, <1>4, <1>5

(* A piece of a sequence of units.                                         *)
LEMMA PieceTyped ==
  ASSUME NEW S, NEW s \in Seq(S), NEW n \in 0 .. Len(s)
  PROVE  /\ SubSeq(s, 1, n) \in Seq(S) /\ Len(SubSeq(s, 1, n)) = n
         /\ \A i \in 1 .. n : SubSeq(s, 1, n)[i] = s[i]
         /\ SubSeq(s, n + 1, Len(s)) \in Seq(S) /\ Len(SubSeq(s, n + 1, Len(s))) = Len(s) - n
         /\ \A i \in 1 .. Len(s) - n : SubSeq(s, n + 1, Len(s))[i] = s[n + i]
OBVIOUS

LEMMA NetworkBasic ==
  ASSUME BasicInv, Arrive \/ Reset
  PROVE  BasicInv'
<1> USE DEF BasicInv, tx, rx
<1>1. CASE Arrive
  <2>1. PICK n \in 1 .. Len(wire) : /\ inbuf' = inbuf \o SubSeq(wire, 1, n)
                                    /\ wire' = SubSeq(wire, n + 1, Len(wire))
    BY <1>1 DEF Arrive
  <2>2. UNCHANGED <<tx, link, rx, built, delivered, nb_req, short>>
    BY <1>1 DEF Arrive
  <2>3. n \in 0 .. Len(wire)
    OBVIOUS
  <2>4. inbuf' \in Seq(BuiltUnits) /\ wire' \in Seq(BuiltUnits)
    BY <2>1, <2>3, PieceTyped DEF RxOK
  <2>5. inbuf' \in Seq(Units) /\ wire' \in Seq(Units)
    BY <2>4, UnitsTyped
  <2>6. TypeOK'
    <3>1. TxTyped' BY <2>2, <2>5, TypesSplit DEF TxTyped
    <3>2. RxTyped' BY <2>2, <2>5, TypesSplit DEF RxTyped
    <3> QED BY <3>1, <3>2, TypesSplit
  <2>7. TxOK' /\ BuiltOK' BY <2>2 DEF TxOK, BuiltOK
  <2>8. RxOK' BY <2>2, <2>4 DEF RxOK, BuiltUnits
  <2> QED BY <2>6, <2>7, <2>8
<1>2. CASE Reset
  <2> USE <1>2 DEF Reset
  <2>1. TypeOK'
    <3>1. TxTyped' BY TypesSplit DEF TxTyped
    <3>2. RxTyped' BY TypesSplit DEF RxTyped
    <3> QED BY <3>1, <3>2, TypesSplit
  <2>2. TxOK' /\ BuiltOK' BY DEF TxOK, BuiltOK
  <2>3. RxOK' BY DEF RxOK, BuiltUnits
  <2> QED BY <2>1, <2>2, <2>3
<1> QED BY <1>1, <1>2

LEMMA FirstUnit ==
  ASSUME BasicInv, NEW units \in Seq(BuiltUnits), Len(units) > 0
  PROVE  units[1][1] \in 1 .. Len(built) /\ built[units[1][1]] \in [body : MsgBody, length : Nat]
<1>1. units[1] \in BuiltUnits
  OBVIOUS
<1>2. units[1][1] \in 1 .. Len(built)
  BY <1>1 DEF BuiltUnits
<1>3. built \in Seq([body : MsgBody, length : Nat])
  BY DEF BasicInv, TypeOK
<1> QED BY <1>2, <1>3, ElementOfSeq

(* A reception that leaves the emitting end, the wire and the messages     *)
(* built alone.                                                            *)
LEMMA ReceptionTyped ==
  ASSUME BasicInv, UNCHANGED <<tx, link, wire, built, nb_req, short>>,
         rx_pc' \in {"idle", "loop", "gone", "aborted"}, inbuf' \in Seq(BuiltUnits),
         rx_lenght' \in Nat, rx_msg' \in [lenght : Nat, units : Seq(BuiltUnits)],
         Len(rx_msg.units)' = rx_lenght', delivered' \in Seq(MsgBody \cup {Garbage})
  PROVE  BasicInv'
<1> USE DEF BasicInv, tx
<1>1. TxTyped' BY TypesSplit DEF TxTyped
<1>2. inbuf' \in Seq(Units) /\ rx_msg' \in [lenght : Nat, units : Seq(Units)]
  <2>1. inbuf' \in Seq(Units) BY UnitsTyped
  <2>2. rx_msg.units' \in Seq(BuiltUnits)
    OBVIOUS
  <2>3. rx_msg.units' \in Seq(Units) BY <2>2, UnitsTyped
  <2> QED BY <2>1, <2>3
<1>3. RxTyped' BY <1>2, TypesSplit DEF RxTyped
<1>4. TxOK' /\ BuiltOK' BY DEF TxOK, BuiltOK
<1>5. RxOK' BY DEF RxOK, BuiltUnits
<1> QED BY <1>1, <1>3, <1>4, <1>5, TypesSplit

LEMMA ReceptionBasic ==
  ASSUME BasicInv, Reception
  PROVE  BasicInv'
<1>0. /\ inbuf \in Seq(BuiltUnits) /\ rx_lenght \in Nat
      /\ rx_msg \in [lenght : Nat, units : Seq(BuiltUnits)] /\ Len(rx_msg.units) = rx_lenght
      /\ delivered \in Seq(MsgBody \cup {Garbage}) /\ rx_pc \in {"idle", "loop", "gone", "aborted"}
      /\ LenSize \in Nat \ {0}
  BY StreamAssumption DEF BasicInv, TypeOK, RxOK
<1>1. CASE recvNextData
  BY <1>0, <1>1, ReceptionTyped DEF recvNextData
<1>2. CASE _recvBeginNewMsg
  <2>1. CASE ~Peeked
    BY <1>0, <1>2, <2>1, ReceptionTyped DEF _recvBeginNewMsg, EndOfRecvLoop
  <2>2. CASE Peeked
    <3> DEFINE units == SubSeq(inbuf, 1, LenSize)
    <3>1. PICK lenght \in Announced(units) : rx_msg' = [lenght |-> lenght, units |-> units]
      BY <1>2, <2>2 DEF _recvBeginNewMsg
    <3>2. /\ rx_lenght' = LenSize /\ inbuf' = SubSeq(inbuf, LenSize + 1, Len(inbuf))
          /\ UNCHANGED <<tx, link, wire, rx_pc, built, delivered, nb_req, short>>
      BY <1>2, <2>2 DEF _recvBeginNewMsg
    <3>3. LenSize \in 0 .. Len(inbuf)
      BY <1>0, <2>2 DEF Peeked
    <3>4. units \in Seq(BuiltUnits) /\ Len(units) = LenSize /\ inbuf' \in Seq(BuiltUnits)
      BY <1>0, <3>2, <3>3, PieceTyped
    <3> HIDE DEF units
    <3>5. lenght \in Nat
      <4>1. Len(units) > 0 BY <1>0, <3>4
      <4>2. built[units[1][1]] \in [body : MsgBody, length : Nat]
        BY <3>4, <4>1, FirstUnit
      <4>3. built[units[1][1]].length \in Nat BY <4>2
      <4> HIDE DEF TypeOK
      <4>4. Announced(units) \subseteq Nat BY <4>3, StreamAssumption DEF Announced
      <4> QED BY <3>1, <4>4
    <3> QED BY <1>0, <3>1, <3>2, <3>4, <3>5, ReceptionTyped
  <2> QED BY <2>1, <2>2
<1>3. CASE ReceiveRest
  <2> DEFINE n == IF Len(inbuf) < Missing THEN Len(inbuf) ELSE Missing
  <2>1. /\ rx_msg' = [rx_msg EXCEPT !.units = @ \o SubSeq(inbuf, 1, n)]
        /\ rx_lenght' = rx_lenght + n /\ inbuf' = SubSeq(inbuf, n + 1, Len(inbuf))
        /\ UNCHANGED <<tx, link, wire, rx_pc, built, delivered, nb_req, short>>
    BY <1>3 DEF ReceiveRest
  <2>2. n \in 0 .. Len(inbuf)
    <3>1. Missing > 0 BY <1>3 DEF ReceiveRest
    <3>2. Missing \in Int
      <4>1. rx_msg.lenght \in Nat BY <1>0
      <4> QED BY <1>0, <4>1 DEF Missing
    <3>3. Len(inbuf) \in Nat BY <1>0, LenProperties
    <3> QED BY <3>1, <3>2, <3>3
  <2> HIDE DEF n
  <2>3. /\ SubSeq(inbuf, 1, n) \in Seq(BuiltUnits) /\ Len(SubSeq(inbuf, 1, n)) = n
        /\ inbuf' \in Seq(BuiltUnits)
    BY <1>0, <2>1, <2>2, PieceTyped
  <2>4. /\ rx_msg.units \o SubSeq(inbuf, 1, n) \in Seq(BuiltUnits)
        /\ Len(rx_msg.units \o SubSeq(inbuf, 1, n)) = rx_lenght + n
    BY <1>0, <2>3, ConcatProperties
  <2>5. rx_msg' \in [lenght : Nat, units : Seq(BuiltUnits)] /\ Len(rx_msg.units)' = rx_lenght'
    BY <1>0, <2>1, <2>4
  <2> QED BY <1>0, <2>1, <2>2, <2>3, <2>5, ReceptionTyped
<1>4. CASE NothingToReceive
  BY <1>0, <1>4, ReceptionTyped DEF NothingToReceive
<1>5. CASE MessageReceived
  <2>1. CASE Missing = 0
    <3>1. Contents(rx_msg.units) \in MsgBody \cup {Garbage}
      <4>1. rx_msg.units \in Seq(BuiltUnits) /\ Len(rx_msg.units) > 0
        BY <1>0, <1>5 DEF MessageReceived
      <4>2. built[rx_msg.units[1][1]].body \in MsgBody
        BY <4>1, FirstUnit
      <4> QED BY <4>2, Zenon DEF Contents
    <3>2. /\ delivered' \in Seq(MsgBody \cup {Garbage}) /\ rx_lenght' = 0 /\ rx_msg' = NoMsg
          /\ UNCHANGED <<rx_pc, tx, link, wire, inbuf, built, nb_req, short>>
      <4>1. /\ delivered' = Append(delivered, Contents(rx_msg.units))
            /\ rx_lenght' = 0 /\ rx_msg' = NoMsg
            /\ UNCHANGED <<rx_pc, tx, link, wire, inbuf, built, nb_req, short>>
        BY <1>5, <2>1 DEF MessageReceived
      <4>2. Append(delivered, Contents(rx_msg.units)) \in Seq(MsgBody \cup {Garbage})
        BY <1>0, <3>1, AppendProperties
      <4> QED BY <4>1, <4>2
    <3>3. NoMsg \in [lenght : Nat, units : Seq(BuiltUnits)] /\ Len(NoMsg.units) = 0
      BY DEF NoMsg
    <3> QED BY <1>0, <3>2, <3>3, ReceptionTyped
  <2>2. CASE Missing # 0
    BY <1>0, <1>5, <2>2, ReceptionTyped DEF MessageReceived
  <2> QED BY <2>1, <2>2
<1>6. CASE ReceiveDisconnected
  <2>1. NoMsg \in [lenght : Nat, units : Seq(BuiltUnits)] /\ Len(NoMsg.units) = 0
    BY DEF NoMsg
  <2> QED BY <1>0, <1>6, <2>1, ReceptionTyped DEF ReceiveDisconnected
<1> QED BY <1>1, <1>2, <1>3, <1>4, <1>5, <1>6 DEF Reception

LEMMA NextBasic == BasicInv /\ [Next]_vars => BasicInv'
<1> SUFFICES ASSUME BasicInv, [Next]_vars PROVE BasicInv'
  OBVIOUS
<1>1. CASE UNCHANGED vars
  <2> USE <1>1 DEF vars, tx, rx, BasicInv
  <2>1. TypeOK' BY DEF TypeOK
  <2>2. BuiltOK' /\ TxOK' /\ RxOK' BY DEF BuiltOK, TxOK, RxOK, BuiltUnits
  <2> QED BY <2>1, <2>2
<1> QED
  BY <1>1, UpperLevelBasic, LoopBasic, BuildBasic, SendBasic, NetworkBasic, ReceptionBasic
  DEF Next, Emission

LEMMA BasicInvariance == Spec => []BasicInv
<1> QED BY BasicInit, NextBasic, PTL DEF Spec

-----------------------------------------------------------------------------
(* Lemmas about the places of the messages in the stream.                  *)
Rest(w, v, l, n) == \A i \in Nat : 1 <= i /\ i <= l - n => w[i] = v[n + i]
Extended(w, v, l, m, from, n) ==
  /\ \A i \in Nat : 1 <= i /\ i <= l => w[i] = v[i]
  /\ \A i \in Nat : 1 <= i /\ i <= n => w[l + i] = <<m, from + i>>

(* Sequences put end to end, place by place.                               *)
LEMMA Joined ==
  ASSUME NEW S, NEW s \in Seq(S), NEW t \in Seq(S)
  PROVE  /\ Len(s) \in Nat /\ Len(t) \in Nat /\ s \o t \in Seq(S) /\ Len(s \o t) = Len(s) + Len(t)
         /\ \A i \in Nat : 1 <= i /\ i <= Len(s) => (s \o t)[i] = s[i]
         /\ \A i \in Nat : Len(s) < i /\ i <= Len(s) + Len(t) => (s \o t)[i] = t[i - Len(s)]
OBVIOUS

(* A piece of the second of two sequences is moved to the first.           *)
LEMMA Moved ==
  ASSUME NEW S, NEW s \in Seq(S), NEW t \in Seq(S), NEW n \in 0 .. Len(t)
  PROVE  /\ (s \o SubSeq(t, 1, n)) \o SubSeq(t, n + 1, Len(t)) = s \o t
         /\ Len(s \o SubSeq(t, 1, n)) + Len(SubSeq(t, n + 1, Len(t))) = Len(s) + Len(t)
<1> DEFINE front == SubSeq(t, 1, n)
           back == SubSeq(t, n + 1, Len(t))
<1>0. \A i \in 1 .. Len(t) - n : back[i] = t[n + i]
  BY PieceTyped
<1>1. /\ front \in Seq(S) /\ Len(front) = n /\ \A i \in 1 .. n : front[i] = t[i]
      /\ back \in Seq(S) /\ Len(back) = Len(t) - n
  <2>1. front \in Seq(S) /\ Len(front) = n /\ \A i \in 1 .. n : front[i] = t[i]
    BY PieceTyped
  <2>2. back \in Seq(S) /\ Len(back) = Len(t) - n
    BY PieceTyped
  <2> QED BY <2>1, <2>2
<1> HIDE DEF front, back
<1>2. Len(s \o front) + Len(back) = Len(s) + Len(t)
  <2>1. Len(s \o front) = Len(s) + n /\ Len(s) \in Nat /\ Len(t) \in Nat /\ n \in Nat
    BY <1>1, Joined
  <2> QED BY <1>1, <2>1
<1>3. front \o back = t
  <2>1. front \o back \in Seq(S) /\ Len(front \o back) = Len(t)
    BY <1>1, Joined
  <2>2. ASSUME NEW i \in 1 .. Len(t) PROVE (front \o back)[i] = t[i]
    <3>1. i \in Nat /\ 1 <= i /\ i <= n + (Len(t) - n) /\ n \in Nat /\ Len(t) \in Nat
      OBVIOUS
    <3>2. CASE i <= n
      <4>1. (front \o back)[i] = front[i] BY <1>1, <3>1, <3>2, Joined
      <4> QED BY <1>1, <3>1, <3>2, <4>1
    <3>3. CASE i > n
      <4>1. (front \o back)[i] = back[i - n] BY <1>1, <3>1, <3>3, Joined
      <4>2. i - n \in 1 .. Len(t) - n /\ n + (i - n) = i BY <3>1, <3>3
      <4>3. back[i - n] = t[n + (i - n)] BY <1>0, <4>2
      <4>4. n + (i - n) = i BY <3>1
      <4> QED BY <4>1, <4>3, <4>4, Zenon
    <3>4. i <= n \/ i > n BY <3>1
    <3> QED BY <3>2, <3>3, <3>4, Zenon
  <2> QED BY <2>1, <2>2, SeqEqual
<1>4. (s \o front) \o back = s \o (front \o back)
  <2>1. s \in Seq(S) /\ front \in Seq(S) /\ back \in Seq(S)
    BY <1>1
  <2> QED BY <2>1, ConcatAssociative, SMTT(30)
<1>5. (s \o front) \o back = s \o t /\ Len(s \o front) + Len(back) = Len(s) + Len(t)
  BY <1>2, <1>3, <1>4, Zenon
<1> QED BY <1>5, Zenon DEF front, back

(* A piece is taken from the front.                                        *)
LEMMA Fronted ==
  ASSUME NEW S, NEW s \in Seq(S), NEW t \in Seq(S), NEW n \in 0 .. Len(s)
  PROVE  /\ Rest(SubSeq(s, n + 1, Len(s)) \o t, s \o t, Len(s) + Len(t), n)
         /\ Len(SubSeq(s, n + 1, Len(s))) + Len(t) = (Len(s) + Len(t)) - n
         /\ \A i \in 1 .. n : SubSeq(s, 1, n)[i] = (s \o t)[i]
BY DEF Rest

(* Units are consumed.                                                     *)
LEMMA Consume ==
  ASSUME NEW start \in [Nat -> Int], NEW v, NEW l \in Nat, NEW last \in Nat, NEW d \in Nat,
         NEW got \in Nat, Placed(start, v, l, last, d, got), d <= last,
         NEW n \in Nat, n <= l, NEW w, Rest(w, v, l, n),
         NEW b, Sized(start, b, last, d),
         \A m \in Nat : d < m /\ m <= last => b[m].length \in Nat
  PROVE  \E begin \in [Nat -> Int] :
           /\ \A m \in Nat : begin[m] = start[m] - n
           /\ Placed(begin, w, l - n, last, d, got + n) /\ Sized(begin, b, last, d)
<1>0. [m \in Nat |-> start[m] - n] \in [Nat -> Int]
  OBVIOUS
<1>1. PICK begin \in [Nat -> Int] : \A m \in Nat : begin[m] = start[m] - n
  BY <1>0
<1>2. begin[d + 1] = 0 - (got + n)
  BY <1>1 DEF Placed
<1>3. ASSUME NEW m \in Nat, NEW k \in Nat, d < m, m <= k, k <= last + 1
      PROVE  begin[m] <= begin[k]
  <2>1. start[m] <= start[k] BY <1>3 DEF Placed
  <2> QED BY <1>1, <2>1
<1>4. ASSUME NEW m \in Nat, NEW i \in Nat, d < m, m <= last, 1 <= i, i <= l - n,
             begin[m] < i, i <= begin[m + 1]
      PROVE  w[i] = <<m, i - begin[m]>>
  <2>1. /\ begin[m] = start[m] - n /\ start[m] \in Int
        /\ begin[m + 1] = start[m + 1] - n /\ start[m + 1] \in Int
    BY <1>1
  <2>2. /\ n + i \in Nat /\ 1 <= n + i /\ n + i <= l
        /\ start[m] < n + i /\ n + i <= start[m + 1] /\ (n + i) - start[m] = i - begin[m]
    BY <1>4, <2>1
  <2>3. v[n + i] = <<m, (n + i) - start[m]>>
    BY <1>4, <2>2 DEF Placed
  <2>4. w[i] = v[n + i]
    BY <1>4 DEF Rest
  <2> QED BY <2>2, <2>3, <2>4
<1>5. l - n <= begin[last + 1]
  <2>1. l <= start[last + 1] BY DEF Placed
  <2>2. begin[last + 1] = start[last + 1] - n /\ start[last + 1] \in Int BY <1>1
  <2> QED BY <2>1, <2>2
<1>6. Sized(begin, b, last, d)
  <2> SUFFICES ASSUME NEW m \in Nat, d < m, m <= last
               PROVE  begin[m + 1] = begin[m] + b[m].length
    BY DEF Sized
  <2>1. start[m + 1] = start[m] + b[m].length /\ b[m].length \in Nat BY DEF Sized
  <2>2. /\ begin[m] = start[m] - n /\ begin[m + 1] = start[m + 1] - n
        /\ start[m] \in Int /\ start[m + 1] \in Int
    BY <1>1
  <2> QED BY <2>1, <2>2
<1>7. Placed(begin, w, l - n, last, d, got + n)
  BY <1>2, <1>3, <1>4, <1>5 DEF Placed
<1> QED BY <1>1, <1>6, <1>7

(* Units of the last message are appended.                                 *)
LEMMA Extend ==
  ASSUME NEW start \in [Nat -> Int], NEW v, NEW l \in Nat, NEW last \in Nat, NEW d \in Nat,
         NEW got \in Nat, Placed(start, v, l, last, d, got), d < last,
         NEW from \in Nat, NEW n \in Nat, l = start[last] + from,
         l + n <= start[last + 1], NEW w, Extended(w, v, l, last, from, n)
  PROVE  Placed(start, w, l + n, last, d, got)
<1>1. ASSUME NEW m \in Nat, NEW i \in Nat, d < m, m <= last, 1 <= i, i <= l + n,
             start[m] < i, i <= start[m + 1]
      PROVE  w[i] = <<m, i - start[m]>>
  <2>1. CASE i <= l
    <3>1. v[i] = <<m, i - start[m]>> BY <1>1, <2>1 DEF Placed
    <3>2. w[i] = v[i] BY <1>1, <2>1 DEF Extended
    <3> QED BY <3>1, <3>2
  <2>2. CASE i > l
    <3>1. m = last
      <4> SUFFICES ASSUME m # last PROVE FALSE
        OBVIOUS
      <4>1. m + 1 \in Nat /\ d < m + 1 /\ m + 1 <= last /\ last <= last + 1 BY <1>1
      <4>2. start[m + 1] <= start[last] BY <4>1 DEF Placed
      <4>3. start[m + 1] \in Int /\ start[last] \in Int BY <4>1
      <4> QED BY <1>1, <2>2, <4>2, <4>3
    <3>2. /\ i - l \in Nat /\ 1 <= i - l /\ i - l <= n /\ i = l + (i - l)
          /\ from + (i - l) = i - start[m]
      BY <1>1, <2>2, <3>1
    <3>3. w[l + (i - l)] = <<last, from + (i - l)>> BY <3>2 DEF Extended
    <3> QED BY <3>1, <3>2, <3>3
  <2> QED BY <2>1, <2>2
<1>2. /\ start[d + 1] = 0 - got
      /\ \A m, k \in Nat : d < m /\ m <= k /\ k <= last + 1 => start[m] <= start[k]
  BY DEF Placed
<1> QED BY <1>1, <1>2 DEF Placed

LEMMA OneMorePlace ==
  ASSUME NEW start \in [Nat -> Int], NEW last \in Nat, NEW length \in Nat
  PROVE  \E begin \in [Nat -> Int] :
           /\ begin[last + 2] = start[last + 1] + length
           /\ \A m \in Nat : m < last + 2 => begin[m] = start[m]
<1>1. start[last + 1] + length \in Int
  OBVIOUS
<1> WITNESS [start EXCEPT ![last + 2] = start[last + 1] + length] \in [Nat -> Int]
<1> QED OBVIOUS

(* A message is built after the end of the stream.                         *)
LEMMA Build ==
  ASSUME NEW start \in [Nat -> Int], NEW v, NEW l \in Nat, NEW last \in Nat, NEW d \in Nat,
         NEW got \in Nat, Placed(start, v, l, last, d, got), d <= last,
         l = start[last + 1], NEW length \in Nat,
         NEW begin \in [Nat -> Int], begin[last + 2] = start[last + 1] + length,
         \A m \in Nat : m < last + 2 => begin[m] = start[m]
  PROVE  l = begin[last + 1] + 0 /\ Placed(begin, v, l, last + 1, d, got)
<1>1. /\ begin[last + 2] = start[last + 1] + length
      /\ \A m \in Nat : m < last + 2 => begin[m] = start[m]
  OBVIOUS
<1>2. begin[d + 1] = 0 - got
  BY <1>1 DEF Placed
<1>3. ASSUME NEW m \in Nat, NEW k \in Nat, d < m, m <= k, k <= (last + 1) + 1
      PROVE  begin[m] <= begin[k]
  <2>1. CASE k < last + 2
    <3>1. start[m] <= start[k] /\ m < last + 2 BY <1>3, <2>1 DEF Placed
    <3> QED BY <1>1, <2>1, <3>1
  <2>2. CASE k = last + 2 /\ m < last + 2
    <3>1. start[m] <= start[last + 1] BY <1>3, <2>2 DEF Placed
    <3>2. /\ begin[m] = start[m] /\ begin[k] = start[last + 1] + length
          /\ start[m] \in Int /\ start[last + 1] \in Int
      BY <1>1, <2>2
    <3> QED BY <3>1, <3>2
  <2>3. CASE m = k
    BY <1>1, <2>3
  <2> QED BY <1>3, <2>1, <2>2, <2>3
<1>4. ASSUME NEW m \in Nat, NEW i \in Nat, d < m, m <= last + 1, 1 <= i, i <= l,
             begin[m] < i, i <= begin[m + 1]
      PROVE  v[i] = <<m, i - begin[m]>>
  <2>1. m # last + 1 BY <1>1, <1>4
  <2>2. m <= last /\ m < last + 2 /\ m + 1 < last + 2 BY <1>4, <2>1
  <2>3. begin[m] = start[m] /\ begin[m + 1] = start[m + 1] BY <1>1, <2>2
  <2> QED BY <1>4, <2>2, <2>3 DEF Placed
<1>5. l <= begin[(last + 1) + 1] /\ l = begin[last + 1] + 0
  BY <1>1
<1> QED BY <1>2, <1>3, <1>4, <1>5 DEF Placed

LEMMA BuildSized ==
  ASSUME NEW start \in [Nat -> Int], NEW last \in Nat, NEW d \in Nat,
         NEW b, Sized(start, b, last, d),
         NEW c, \A m \in Nat : 1 <= m /\ m <= last => c[m] = b[m],
         NEW begin \in [Nat -> Int], begin[last + 2] = start[last + 1] + c[last + 1].length,
         \A m \in Nat : m < last + 2 => begin[m] = start[m]
  PROVE  Sized(begin, c, last + 1, d)
<1> SUFFICES ASSUME NEW m \in Nat, d < m, m <= last + 1
             PROVE  begin[m + 1] = begin[m] + c[m].length
  BY DEF Sized
<1>1. CASE m = last + 1
  <2>1. begin[m] = start[m]
    BY <1>1
  <2> QED BY <1>1, <2>1
<1>2. CASE m <= last
  <2>1. start[m + 1] = start[m] + b[m].length BY <1>2 DEF Sized
  <2>2. c[m] = b[m] BY <1>2
  <2>3. m < last + 2 /\ m + 1 < last + 2 BY <1>2
  <2>4. begin[m] = start[m] /\ begin[m + 1] = start[m + 1] BY <2>3
  <2> QED BY <2>1, <2>2, <2>4
<1> QED BY <1>1, <1>2

(* A message is delivered: the next one is the first of the stream.        *)
LEMMA Complete ==
  ASSUME NEW start \in [Nat -> Int], NEW v, NEW l \in Nat, NEW last \in Nat, NEW d \in Nat,
         NEW got \in Nat, Placed(start, v, l, last, d, got), d < last,
         NEW b, Sized(start, b, last, d), b[d + 1].length = got
  PROVE  /\ Placed(start, v, l, last, d + 1, 0) /\ Sized(start, b, last, d + 1)
         /\ start[d + 1] = 0 - got
<1>0. start[d + 1] = 0 - got
  BY DEF Placed
<1>1. start[(d + 1) + 1] = 0 - 0
  <2>1. d + 1 \in Nat /\ d < d + 1 /\ d + 1 <= last OBVIOUS
  <2>2. start[(d + 1) + 1] = start[d + 1] + b[d + 1].length BY <2>1 DEF Sized
  <2> QED BY <1>0, <2>2
<1>2. ASSUME NEW m \in Nat, NEW k \in Nat, d + 1 < m, m <= k, k <= last + 1
      PROVE  start[m] <= start[k]
  BY <1>2 DEF Placed
<1>3. ASSUME NEW m \in Nat, NEW i \in Nat, d + 1 < m, m <= last, 1 <= i, i <= l,
             start[m] < i, i <= start[m + 1]
      PROVE  v[i] = <<m, i - start[m]>>
  <2>1. d < m BY <1>3
  <2> QED BY <1>3, <2>1 DEF Placed
<1>4. l <= start[last + 1]
  BY DEF Placed
<1>5. Placed(start, v, l, last, d + 1, 0)
  BY <1>1, <1>2, <1>3, <1>4 DEF Placed
<1>6. Sized(start, b, last, d + 1)
  <2> SUFFICES ASSUME NEW m \in Nat, d + 1 < m, m <= last
               PROVE  start[m + 1] = start[m] + b[m].length
    BY DEF Sized
  <2>1. d < m OBVIOUS
  <2> QED BY <2>1 DEF Sized
<1> QED BY <1>0, <1>5, <1>6

-----------------------------------------------------------------------------
(* The stream stays undamaged.  First the steps that move no unit.         *)
LEMMA Sizes ==
  ASSUME BasicInv
  PROVE  /\ Last \in Nat /\ Done \in Nat /\ OnWay \in Nat /\ rx_lenght \in Nat
         /\ Len(inbuf) \in Nat /\ Len(wire) \in Nat
         /\ LenSize \in Nat /\ LenSize > 0 /\ HeaderSize \in Nat /\ HeaderSize > LenSize
         /\ EWOULDBLOCK \in Nat
         /\ tx_length \in Int /\ tx_msg_length \in Nat /\ short \in Nat /\ tx_msg \in Nat
BY StreamAssumption DEF BasicInv, TypeOK, Last, Done, OnWay

LEMMA BuiltSizes ==
  ASSUME BasicInv, NEW m \in Nat, m >= 1, m <= Last
  PROVE  /\ built[m] \in [body : MsgBody, length : Nat] /\ built[m].length \in Nat
         /\ built[m].length > HeaderSize /\ built[m].length # HeaderSize + EWOULDBLOCK
<1>1. m \in 1 .. Len(built) BY Sizes DEF Last
<1>2. built \in Seq([body : MsgBody, length : Nat]) BY DEF BasicInv, TypeOK
<1>3. built[m] \in [body : MsgBody, length : Nat] BY <1>1, <1>2, ElementOfSeq
<1> QED BY <1>1, <1>3 DEF BasicInv, BuiltOK

LEMMA EmissionKept ==
  ASSUME StreamInv, UNCHANGED <<wire, inbuf, rx, built, delivered>>,
         link' # "rst" => link # "rst", Resumable', AbortNeedsHalfMessage',
         ASSUME NEW start \in [Nat -> Int], link # "rst", TxPlace(start) PROVE TxPlace(start)'
  PROVE  StreamInv'
<1>1. UNCHANGED <<wire, inbuf, rx_lenght, rx_msg, Stream, OnWay, Last, Done, built, delivered>>
  BY DEF rx, Stream, OnWay, Last, Done
<1>2. Streamed'
  <2> SUFFICES ASSUME link' # "rst" PROVE Streamed'
    BY DEF Streamed
  <2>1. PICK start \in [Nat -> Int] :
          /\ Placed(start, Stream, OnWay, Last, Done, rx_lenght)
          /\ Sized(start, built, Last, Done) /\ TxPlace(start)
    BY DEF StreamInv, Streamed
  <2>2. Placed(start, Stream', OnWay', Last', Done', rx_lenght')
    BY <1>1, <2>1
  <2>3. Sized(start, built', Last', Done')
    BY <1>1, <2>1
  <2>4. TxPlace(start)'
    BY <2>1
  <2> QED BY <2>2, <2>3, <2>4 DEF Streamed
<1>3. Receiving' /\ Fifo'
  BY <1>1 DEF StreamInv, Receiving, Fifo
<1> QED BY <1>2, <1>3 DEF StreamInv

LEMMA UpperLevelStream ==
  ASSUME BasicInv, StreamInv, (\E req \in Requests : sendMsg(req)) \/ discardDataBuffers
  PROVE  StreamInv'
<1>1. /\ UNCHANGED <<wire, inbuf, rx, built, delivered>>
      /\ UNCHANGED <<tx_pc, tx_msg, tx_length, tx_req_ptr, link, short, rx_pc>>
  BY DEF sendMsg, discardDataBuffers, KeepCurrentMessage, rx
<1>2. UNCHANGED <<OnWay, Last, Done>>
  BY <1>1 DEF OnWay, Last, Done
<1>3. ASSUME NEW start \in [Nat -> Int], TxPlace(start) PROVE TxPlace(start)'
  BY <1>1, <1>2, <1>3 DEF TxPlace, Sending
<1>4. Resumable' /\ AbortNeedsHalfMessage'
  BY <1>1 DEF StreamInv, Resumable, AbortNeedsHalfMessage
<1> QED BY <1>1, <1>3, <1>4, EmissionKept

LEMMA StopStream ==
  ASSUME BasicInv, StreamInv, stop \/ Killed \/ SendDisconnected
  PROVE  StreamInv'
<1>1. /\ UNCHANGED <<wire, inbuf, rx, built, delivered, short>>
      /\ tx_pc' \in {"gone", "torn"} /\ tx_msg' = 0 /\ rx_pc' = rx_pc
  BY DEF stop, Killed, SendDisconnected, TxDropped, rx
<1>2. UNCHANGED <<OnWay, Last, Done>>
  BY <1>1 DEF OnWay, Last, Done
<1>3. /\ link' # "rst" <=> link # "rst"
      /\ link # "rst" => /\ link' = "fin"
                         /\ tx_pc' # "torn" => tx_pc \in {"idle", "loop", "header"}
  <2>1. CASE stop
    BY <2>1, TypesSplit DEF stop, Closed, BasicInv, RxTyped
  <2>2. CASE Killed
    BY <2>2, TypesSplit DEF Killed, TxOver, Closed, BasicInv, RxTyped, TxTyped
  <2>3. CASE SendDisconnected
    BY <2>3 DEF SendDisconnected
  <2> QED BY <2>1, <2>2, <2>3
<1>4. ASSUME NEW start \in [Nat -> Int], link # "rst", TxPlace(start) PROVE TxPlace(start)'
  <2>1. ASSUME short = 0, link' = "fin", tx_pc' # "torn"
        PROVE  OnWay \in {start[Last], start[Last + 1]}
    <3>1. CASE tx_pc = "header"
      <4>1. Sending /\ tx_length = 0
        BY <3>1 DEF Sending, BasicInv, TxOK
      <4>2. OnWay = start[Last] + 0
        BY <1>4, <4>1 DEF TxPlace
      <4>3. start[Last] + 0 = start[Last]
        <5>1. Last \in Nat BY Sizes
        <5> QED BY <5>1
      <4> QED BY <4>2, <4>3
    <3>2. CASE tx_pc \in {"idle", "loop"}
      <4>1. tx_msg = 0
        BY <2>1, <3>2 DEF StreamInv, Resumable
      <4> QED BY <1>4, <3>2, <4>1 DEF TxPlace
    <3> QED BY <1>3, <1>4, <2>1, <3>1, <3>2
  <2> QED BY <1>1, <1>2, <2>1 DEF TxPlace, Sending
<1>5. Resumable' /\ AbortNeedsHalfMessage'
  <2>1. tx_pc # "torn" /\ tx_pc # "aborted"
    BY DEF stop, Killed, TxOver, SendDisconnected
  <2> QED BY <1>1, <2>1 DEF StreamInv, Resumable, AbortNeedsHalfMessage
<1> QED BY <1>1, <1>3, <1>4, <1>5, EmissionKept

LEMMA LoopStream ==
  ASSUME BasicInv, StreamInv, sendNextData \/ EndOfSendLoop \/ NextRequest \/ ResumeMessage
  PROVE  StreamInv'
<1>1. /\ UNCHANGED <<wire, inbuf, rx, built, delivered, short, tx_msg, tx_length, rx_pc>>
  BY DEF sendNextData, EndOfSendLoop, NextRequest, ResumeMessage, rx
<1>2. UNCHANGED <<OnWay, Last, Done>>
  BY <1>1 DEF OnWay, Last, Done
<1>3. CASE sendNextData
  <2>1. /\ tx_pc = "idle" /\ tx_pc' = "loop" /\ link' = link
        /\ tx_msg # 0 => tx_req_ptr' = tx_req_ptr
    BY <1>3 DEF sendNextData, BasicInv, TxOK
  <2>2. ASSUME NEW start \in [Nat -> Int], TxPlace(start) PROVE TxPlace(start)'
    BY <1>1, <1>2, <2>1, <2>2 DEF TxPlace, Sending
  <2>3. Resumable' /\ AbortNeedsHalfMessage'
    BY <1>1, <2>1 DEF StreamInv, Resumable, AbortNeedsHalfMessage
  <2> QED BY <1>1, <2>1, <2>2, <2>3, EmissionKept
<1>4. CASE EndOfSendLoop
  <2>1. tx_pc = "loop" /\ tx_pc' = "idle" /\ link' = link /\ tx_req_ptr' = tx_req_ptr
    BY <1>4 DEF EndOfSendLoop
  <2>2. ASSUME NEW start \in [Nat -> Int], TxPlace(start) PROVE TxPlace(start)'
    BY <1>1, <1>2, <2>1, <2>2 DEF TxPlace, Sending
  <2>3. Resumable' /\ AbortNeedsHalfMessage'
    BY <1>1, <2>1 DEF StreamInv, Resumable, AbortNeedsHalfMessage
  <2> QED BY <1>1, <2>1, <2>2, <2>3, EmissionKept
<1>5. CASE NextRequest
  <2>1. tx_pc = "loop"
    BY <1>5 DEF NextRequest, InLoop
  <2>2. CASE tx_length = 0 /\ tx_msg_length = 0
    <3>1. tx_pc' = tx_pc /\ link' = link
      BY <1>5, <2>2 DEF NextRequest
    <3>2. tx_msg = 0
      <4> SUFFICES ASSUME tx_msg # 0 PROVE FALSE
        OBVIOUS
      <4>1. tx_msg = Last /\ tx_msg_length = built[tx_msg].length
        BY DEF BasicInv, TxOK, Last
      <4>2. tx_msg \in Nat /\ tx_msg >= 1 /\ HeaderSize \in Nat
        BY Sizes
      <4> QED BY <2>2, <4>1, <4>2, BuiltSizes
    <3>3. ASSUME NEW start \in [Nat -> Int], TxPlace(start) PROVE TxPlace(start)'
      BY <1>1, <1>2, <3>1, <3>2, <3>3 DEF TxPlace, Sending
    <3>4. Resumable' /\ AbortNeedsHalfMessage'
      BY <1>1, <2>1, <3>1, <3>2 DEF StreamInv, Resumable, AbortNeedsHalfMessage
    <3> QED BY <1>1, <3>1, <3>3, <3>4, EmissionKept
  <2>3. CASE ~(tx_length = 0 /\ tx_msg_length = 0)
    <3>1. tx_pc' = "aborted" /\ (link' # "rst" => link # "rst")
      BY <1>5, <2>3 DEF NextRequest, Closed
    <3>2. short > 0
      BY <2>1, <2>3 DEF BasicInv, TxOK, StreamInv, Resumable
    <3>3. ASSUME NEW start \in [Nat -> Int], TxPlace(start) PROVE TxPlace(start)'
      BY <1>1, <1>2, <3>1, <3>2, Sizes DEF TxPlace, Sending
    <3>4. Resumable' /\ AbortNeedsHalfMessage'
      BY <1>1, <3>1, <3>2 DEF Resumable, AbortNeedsHalfMessage
    <3> QED BY <1>1, <3>1, <3>3, <3>4, EmissionKept
  <2> QED BY <2>2, <2>3
<1>6. CASE ResumeMessage
  <2>1. /\ tx_pc = "loop" /\ tx_pc' = "header" /\ link' = link /\ tx_req_ptr' = tx_req_ptr
        /\ someDataToSend(tx_req_ptr) /\ tx_msg # 0
    BY <1>6 DEF ResumeMessage, InLoop, StreamInv, Resumable
  <2>2. ASSUME NEW start \in [Nat -> Int], TxPlace(start) PROVE TxPlace(start)'
    BY <1>1, <1>2, <2>1, <2>2 DEF TxPlace, Sending
  <2>3. Resumable' /\ AbortNeedsHalfMessage'
    BY <1>1, <2>1 DEF StreamInv, Resumable, AbortNeedsHalfMessage
  <2> QED BY <1>1, <2>1, <2>2, <2>3, EmissionKept
<1> QED BY <1>3, <1>4, <1>5, <1>6

(* The only faults are harmless ones.                                      *)
LEMMA OnlyHarmless ==
  ASSUME BasicInv, Undamaged', NEW fault, MayFail(fault), short' = short + 1
  PROVE  /\ tx_req_ptr.kind = "msg" \/ fault = "header_refused"
         /\ fault # "header_cut"
<1>1. ShortSends \subseteq Harmless
  BY Sizes DEF Undamaged
<1>2. <<tx_req_ptr.kind, fault>> \in Harmless
  BY <1>1 DEF MayFail
<1> QED BY <1>2 DEF Harmless

(* A message of its own that has been begun is never gone on with.         *)
LEMMA MessageNotResumed ==
  ASSUME BasicInv, tx_msg # 0, tx_req_ptr.kind = "msg"
  PROVE  ~someDataToSend(tx_req_ptr)
BY DEF BasicInv, TxOK

LEMMA RefusedStream ==
  ASSUME BasicInv, StreamInv, Undamaged', SendHeaderRefused \/ SendBodyRefused
  PROVE  StreamInv'
<1>1. /\ UNCHANGED <<wire, inbuf, rx, built, delivered, link, tx_msg, tx_req_ptr, rx_pc>>
      /\ link = "open" /\ tx_pc \in {"header", "body"} /\ tx_pc' \in {"idle", "loop"}
      /\ short' = short + 1
  BY DEF SendHeaderRefused, SendBodyRefused, MayFail, rx
<1>2. UNCHANGED <<OnWay, Last, Done>> /\ tx_msg # 0 /\ short' > 0
  BY <1>1, Sizes DEF OnWay, Last, Done, BasicInv, TxOK
<1>3. someDataToSend(tx_req_ptr) => tx_length' = tx_length /\ tx_length = 0
  <2>1. CASE SendHeaderRefused
    BY <2>1 DEF SendHeaderRefused, BasicInv, TxOK
  <2>2. CASE SendBodyRefused
    BY <1>1, <1>2, <2>2, OnlyHarmless, MessageNotResumed DEF SendBodyRefused
  <2> QED BY <2>1, <2>2
<1>4. ASSUME NEW start \in [Nat -> Int], TxPlace(start) PROVE TxPlace(start)'
  BY <1>1, <1>2, <1>3, <1>4 DEF TxPlace, Sending
<1>5. Resumable' /\ AbortNeedsHalfMessage'
  BY <1>1, <1>2, <1>3 DEF Resumable, AbortNeedsHalfMessage
<1> QED BY <1>1, <1>4, <1>5, EmissionKept

-----------------------------------------------------------------------------
(* The steps that build a message and put units of it on the wire.         *)
LEMMA BuildStream ==
  ASSUME BasicInv, BasicInv', StreamInv, BuildMessage
  PROVE  StreamInv'
<1>1. PICK msg : built' = Append(built, msg)
  BY DEF BuildMessage
<1>2. /\ UNCHANGED <<wire, inbuf, rx, delivered, link, tx_length, short, rx_pc>>
      /\ tx_pc = "loop" /\ tx_msg = 0 /\ tx_length = 0 /\ tx_pc' = "header"
      /\ tx_msg' = Last + 1
  BY DEF BuildMessage, InLoop, BasicInv, TxOK, rx, Last
<1>3. /\ built \in Seq([body : MsgBody, length : Nat])
      /\ built' \in Seq([body : MsgBody, length : Nat])
  BY DEF BasicInv, TypeOK
<1>4. Last' = Last + 1 /\ \A m \in 1 .. Last : built'[m] = built[m]
  BY <1>1, <1>3, AppendProperties DEF Last
<1>5. \A m \in Nat : 1 <= m /\ m <= Last => built'[m] = built[m]
  BY <1>4, Sizes
<1>6. UNCHANGED <<rx_lenght, rx_msg, Stream, OnWay, Done>>
  BY <1>2 DEF rx, Stream, OnWay, Done
<1>7. Done <= Last
  BY DEF StreamInv, Fifo, Done, Last
<1>8. Streamed'
  <2> SUFFICES ASSUME link # "rst" PROVE Streamed'
    BY <1>2 DEF Streamed
  <2>1. PICK start \in [Nat -> Int] :
          /\ Placed(start, Stream, OnWay, Last, Done, rx_lenght)
          /\ Sized(start, built, Last, Done) /\ TxPlace(start)
    BY DEF StreamInv, Streamed
  <2>2. PICK length \in Nat : built'[Last + 1].length = length
    <3>1. Last + 1 \in 1 .. Len(built') BY <1>4, Sizes DEF Last
    <3>2. built'[Last + 1] \in [body : MsgBody, length : Nat] BY <1>3, <3>1, ElementOfSeq
    <3> QED BY <3>2
  <2>3. OnWay = start[Last + 1]
    BY <1>2, <2>1 DEF TxPlace
  <2>0. Last \in Nat /\ Done \in Nat /\ OnWay \in Nat /\ rx_lenght \in Nat
    BY Sizes
  <2>7. PICK begin \in [Nat -> Int] :
          /\ begin[Last + 2] = start[Last + 1] + length
          /\ \A m \in Nat : m < Last + 2 => begin[m] = start[m]
    BY <2>0, OneMorePlace
  <2>4. OnWay = begin[Last + 1] + 0 /\ Placed(begin, Stream, OnWay, Last + 1, Done, rx_lenght)
    BY <1>7, <2>0, <2>1, <2>2, <2>3, <2>7, Build
  <2>8. Sized(begin, built', Last + 1, Done)
    <3>1. begin[Last + 2] = start[Last + 1] + built'[Last + 1].length
      BY <2>2, <2>7
    <3>2. Sized(start, built, Last, Done)
      BY <2>1
    <3> QED BY <1>5, <2>0, <2>7, <3>1, <3>2, BuildSized
  <2>5. Done < Last + 1 /\ tx_msg' # 0 /\ link' # "fin"
    <3>1. Done < Last + 1 /\ Last + 1 # 0
      BY <1>7, <2>0
    <3>2. TxOK
      BY DEF BasicInv
    <3>3. link # "fin"
      BY <1>2, <3>2 DEF TxOK
    <3> QED BY <1>2, <3>1, <3>3
  <2>6. TxPlace(begin)'
    BY <1>2, <1>4, <1>6, <2>4, <2>5 DEF TxPlace
  <2> QED BY <1>4, <1>6, <2>4, <2>6, <2>8 DEF Streamed
<1>9. Receiving'
  <2> SUFFICES ASSUME rx_lenght # 0 PROVE Receiving'
    BY <1>6 DEF Receiving
  <2>1. /\ Done < Last /\ rx_msg.lenght = built[Done + 1].length /\ rx_lenght <= rx_msg.lenght
        /\ \A i \in 1 .. rx_lenght : rx_msg.units[i] = <<Done + 1, i>>
    BY DEF StreamInv, Receiving
  <2>2. built'[Done + 1] = built[Done + 1] /\ Done < Last + 1
    <3>1. Done + 1 \in Nat /\ 1 <= Done + 1 /\ Done + 1 <= Last /\ Done < Last + 1
      BY <2>1, Sizes
    <3> QED BY <1>5, <3>1, Zenon
  <2> QED BY <1>4, <1>6, <2>1, <2>2 DEF Receiving
<1>10. Fifo'
  <2>1. delivered' = delivered /\ Done <= Last + 1
    BY <1>2, <1>7, Sizes
  <2>2. ASSUME NEW i \in 1 .. Done PROVE delivered[i] = built'[i].body
    <3>1. delivered[i] = built[i].body BY DEF StreamInv, Fifo, Done
    <3>2. i \in Nat /\ 1 <= i /\ i <= Last BY <1>7, Sizes
    <3> QED BY <1>5, <3>1, <3>2
  <2> QED BY <1>4, <2>1, <2>2 DEF Fifo, Last, Done
<1>11. Resumable' /\ AbortNeedsHalfMessage'
  BY <1>2 DEF StreamInv, Resumable, AbortNeedsHalfMessage
<1> QED BY <1>8, <1>9, <1>10, <1>11 DEF StreamInv

(* A send puts units of the last message after those that are on their     *)
(* way.                                                                    *)
LEMMA TakeExtends ==
  ASSUME BasicInv, tx_pc \in {"header", "body"}, NEW from \in Nat, NEW n \in Nat, Take(from, n),
         inbuf' = inbuf
  PROVE  Extended(Stream', Stream, OnWay, Last, from, n) /\ OnWay' = OnWay + n
<1> DEFINE piece == [i \in 1 .. n |-> <<tx_msg, from + i>>]
<1>1. tx_msg \in 1 .. Len(built) /\ tx_msg = Last
  BY DEF BasicInv, TypeOK, TxOK, Last
<1>2. /\ piece \in Seq(BuiltUnits) /\ Len(piece) = n
      /\ \A i \in Nat : 1 <= i /\ i <= n => piece[i] = <<Last, from + i>>
  <2>1. \A i \in 1 .. n : <<tx_msg, from + i>> \in BuiltUnits
    BY <1>1 DEF BuiltUnits
  <2> QED BY <1>1, <2>1
<1>3. wire \in Seq(BuiltUnits) /\ inbuf \in Seq(BuiltUnits) /\ wire' = wire \o piece
  BY DEF Take, BasicInv, RxOK
<1> HIDE DEF piece
<1>4. /\ Len(wire \o piece) = Len(wire) + Len(piece)
      /\ \A i \in Nat : 1 <= i /\ i <= OnWay =>
           (inbuf \o (wire \o piece))[i] = (inbuf \o wire)[i]
      /\ \A i \in Nat : 1 <= i /\ i <= Len(piece) =>
           (inbuf \o (wire \o piece))[OnWay + i] = piece[i]
  <2>1. OnWay \in Nat /\ OnWay = Len(inbuf) + Len(wire) BY Sizes DEF OnWay
  <2>2. piece \in Seq(BuiltUnits) /\ wire \in Seq(BuiltUnits) /\ inbuf \in Seq(BuiltUnits)
    BY <1>2, <1>3
  <2> QED BY <2>1, <2>2
<1>5. Extended(Stream', Stream, OnWay, Last, from, n)
  BY <1>2, <1>3, <1>4 DEF Extended, Stream
<1>6. OnWay' = OnWay + n
  <2>1. Len(wire') = Len(wire) + n /\ Len(inbuf') = Len(inbuf) BY <1>2, <1>3, <1>4
  <2>2. Len(wire) \in Nat /\ Len(inbuf) \in Nat BY Sizes
  <2> QED BY <2>1, <2>2 DEF OnWay
<1> QED BY <1>5, <1>6

(* A send of the next units of the message under emission, which takes all *)
(* that it should or ends the message.                                     *)
LEMMA TakeStream ==
  ASSUME BasicInv, StreamInv, tx_pc \in {"header", "body"}, link = "open",
         UNCHANGED <<link, inbuf, rx, built, delivered>>,
         NEW n \in Nat, Take(tx_length, n), tx_length \in Nat, tx_length + n <= tx_msg_length,
         Resumable', AbortNeedsHalfMessage',
         Sending' => tx_length' = tx_length + n,
         tx_msg' = 0 => tx_length + n = tx_msg_length
  PROVE  StreamInv'
<1>1. UNCHANGED <<rx_lenght, rx_msg, Last, Done, built, delivered>>
  BY DEF rx, Last, Done
<1>2. tx_msg = Last /\ tx_msg_length = built[Last].length /\ Last \in Nat /\ Last >= 1
  <2>1. tx_msg # 0 /\ tx_msg = Last /\ tx_msg_length = built[Last].length
    BY DEF BasicInv, TxOK, Last
  <2>2. Last \in Nat BY Sizes
  <2> QED BY <2>1, <2>2
<1>3. Extended(Stream', Stream, OnWay, Last, tx_length, n) /\ OnWay' = OnWay + n
  BY TakeExtends
<1>4. PICK start \in [Nat -> Int] :
        /\ Placed(start, Stream, OnWay, Last, Done, rx_lenght)
        /\ Sized(start, built, Last, Done) /\ TxPlace(start)
  BY DEF StreamInv, Streamed
<1>5. Done < Last /\ OnWay = start[Last] + tx_length
  <2>1. Sending BY <1>2 DEF Sending
  <2> QED BY <1>4, <2>1 DEF TxPlace
<1>6. start[Last + 1] = start[Last] + tx_msg_length
  BY <1>2, <1>4, <1>5 DEF Sized
<1>0. /\ OnWay \in Nat /\ Last \in Nat /\ Done \in Nat /\ rx_lenght \in Nat
      /\ tx_msg_length \in Nat /\ start[Last] \in Int
  BY Sizes
<1>7. OnWay + n <= start[Last + 1]
  BY <1>0, <1>5, <1>6
<1>8. Placed(start, Stream', OnWay + n, Last, Done, rx_lenght)
  BY <1>0, <1>3, <1>4, <1>5, <1>7, Extend
<1>9. TxPlace(start)'
  <2>1. Sending' => OnWay' = start[Last] + tx_length'
    BY <1>0, <1>3, <1>5
  <2>2. tx_msg' = 0 => OnWay' = start[Last + 1]
    BY <1>0, <1>3, <1>5, <1>6
  <2> QED BY <1>1, <1>5, <2>1, <2>2 DEF TxPlace
<1>10. Streamed'
  BY <1>1, <1>3, <1>4, <1>8, <1>9 DEF Streamed
<1>11. Receiving' /\ Fifo'
  BY <1>1 DEF StreamInv, Receiving, Fifo
<1> QED BY <1>10, <1>11 DEF StreamInv

LEMMA SendHeaderStream ==
  ASSUME BasicInv, StreamInv, Undamaged', SendHeader
  PROVE  StreamInv'
<1>1. PICK n \in 1 .. HeaderSize :
        /\ n < HeaderSize => MayFail("header_cut")
        /\ Take(0, n) /\ tx_length' = tx_length + n /\ tx_pc' = "body"
        /\ short' = IF n < HeaderSize THEN short + 1 ELSE short
  BY DEF SendHeader
<1>2. /\ tx_pc = "header" /\ link = "open" /\ tx_length = 0 /\ rx_pc' = rx_pc
      /\ UNCHANGED <<tx_msg, link, inbuf, rx, built, delivered>>
  BY DEF SendHeader, BasicInv, TxOK, rx
<1>3. n = HeaderSize /\ n \in Nat /\ short' = short
  <2>1. ~(n < HeaderSize) BY <1>1, <1>2, OnlyHarmless
  <2> QED BY <1>1, <2>1, Sizes
<1>4. tx_msg # 0 /\ tx_msg = Last /\ tx_msg_length = built[Last].length
  BY <1>2 DEF BasicInv, TxOK, Last
<1>5. 0 + n <= tx_msg_length
  <2>1. Last \in Nat /\ Last >= 1 BY <1>4, Sizes
  <2> QED BY <1>3, <1>4, <2>1, Sizes, BuiltSizes
<1>6. Resumable' /\ AbortNeedsHalfMessage'
  BY <1>1, <1>2, <1>3 DEF Resumable, AbortNeedsHalfMessage, StreamInv
<1> QED BY <1>1, <1>2, <1>3, <1>4, <1>5, <1>6, TakeStream

LEMMA SendBodyStream ==
  ASSUME BasicInv, StreamInv, Undamaged', SendBody
  PROVE  StreamInv'
<1> DEFINE count == tx_msg_length - tx_length
<1>1. PICK n \in 1 .. count :
        /\ n < count => MayFail("body_cut")
        /\ Take(BodyOffset, n)
        /\ IF n = EWOULDBLOCK
           THEN tx_state' = "TX_BUSY" /\ tx_pc' = "idle"
                /\ UNCHANGED <<tx_length, tx_msg_length, tx_msg>>
           ELSE MessageSent(tx_length + n)
        /\ short' = IF n < count THEN short + 1 ELSE short
  BY DEF SendBody
<1>2. /\ tx_pc = "body" /\ link = "open" /\ tx_length = HeaderSize /\ rx_pc' = rx_pc
      /\ tx_msg_length = built[Last].length /\ tx_msg # 0 /\ tx_msg = Last
      /\ UNCHANGED <<link, inbuf, rx, built, delivered, tx_req_ptr>>
  BY DEF SendBody, BasicInv, TxOK, rx, StreamInv, Resumable, Last
<1>3. /\ tx_msg_length \in Nat /\ HeaderSize \in Nat /\ count # EWOULDBLOCK
      /\ short \in Nat /\ EWOULDBLOCK \in Nat
  <2>1. Last \in Nat /\ Last >= 1 BY <1>2, Sizes
  <2>2. /\ built[Last].length \in Nat /\ built[Last].length > HeaderSize
        /\ built[Last].length # HeaderSize + EWOULDBLOCK
    BY <2>1, BuiltSizes
  <2>3. HeaderSize \in Nat /\ short \in Nat /\ EWOULDBLOCK \in Nat
    BY Sizes
  <2> QED BY <1>2, <2>2, <2>3
<1>4. n \in Nat /\ n <= count /\ count = tx_msg_length - HeaderSize
  BY <1>2, <1>3
<1>5. Take(tx_length, n) /\ tx_length \in Nat /\ tx_length + n <= tx_msg_length
  BY <1>1, <1>2, <1>3, <1>4 DEF BodyOffset
<1>6. CASE n = count
  <2>1. tx_msg' = 0 /\ tx_pc' = "loop" /\ tx_length + n = tx_msg_length
    BY <1>1, <1>2, <1>3, <1>4, <1>6 DEF MessageSent
  <2>2. Resumable' /\ AbortNeedsHalfMessage' /\ ~Sending'
    BY <1>1, <1>2, <1>3, <1>6, <2>1 DEF Resumable, AbortNeedsHalfMessage, StreamInv, Sending
  <2> QED BY <1>2, <1>4, <1>5, <2>1, <2>2, TakeStream
<1>7. CASE n < count
  <2>1. ~someDataToSend(tx_req_ptr) /\ short' = short + 1
    BY <1>1, <1>2, <1>7, OnlyHarmless, MessageNotResumed
  <2>2. tx_msg' = tx_msg /\ tx_pc' \in {"idle", "loop"}
    <3>1. CASE n = EWOULDBLOCK BY <1>1, <3>1
    <3>2. CASE n # EWOULDBLOCK BY <1>1, <1>2, <1>3, <1>4, <1>7, <3>2 DEF MessageSent
    <3> QED BY <3>1, <3>2
  <2>3. Resumable' /\ AbortNeedsHalfMessage' /\ ~Sending'
    BY <1>2, <1>3, <2>1, <2>2 DEF Resumable, AbortNeedsHalfMessage, Sending
  <2> QED BY <1>2, <1>4, <1>5, <2>2, <2>3, TakeStream
<1> QED BY <1>3, <1>4, <1>6, <1>7

-----------------------------------------------------------------------------
(* The network and the receiving end.                                      *)
LEMMA NetworkStream ==
  ASSUME BasicInv, StreamInv, Arrive \/ Reset
  PROVE  StreamInv'
<1>1. CASE Arrive
  <2>1. PICK n \in 1 .. Len(wire) : /\ inbuf' = inbuf \o SubSeq(wire, 1, n)
                                    /\ wire' = SubSeq(wire, n + 1, Len(wire))
    BY <1>1 DEF Arrive
  <2>2. UNCHANGED <<tx, link, rx, built, delivered, nb_req, short>>
    BY <1>1 DEF Arrive
  <2>3. UNCHANGED <<tx_pc, tx_req_ptr, tx_length, tx_msg, rx_pc, rx_lenght, rx_msg, Last, Done>>
    BY <2>2 DEF tx, rx, Last, Done
  <2>4. n \in 0 .. Len(wire) /\ inbuf \in Seq(BuiltUnits) /\ wire \in Seq(BuiltUnits)
    BY DEF BasicInv, RxOK
  <2>5. Stream' = Stream /\ OnWay' = OnWay
    <3>1. /\ inbuf' \o wire' = inbuf \o wire
          /\ Len(inbuf') + Len(wire') = Len(inbuf) + Len(wire)
      BY <2>1, <2>4, Moved
    <3> QED BY <3>1 DEF Stream, OnWay
  <2>6. Streamed'
    BY <2>2, <2>3, <2>5 DEF StreamInv, Streamed, TxPlace, Sending
  <2>7. Resumable' /\ Receiving' /\ Fifo' /\ AbortNeedsHalfMessage'
    BY <2>2, <2>3 DEF StreamInv, Resumable, Receiving, Fifo, AbortNeedsHalfMessage
  <2> QED BY <2>6, <2>7 DEF StreamInv
<1>2. CASE Reset
  <2>1. UNCHANGED <<tx, rx, built, delivered, short>> /\ link' = "rst"
    BY <1>2 DEF Reset
  <2>2. UNCHANGED <<tx_pc, tx_req_ptr, tx_length, tx_msg, rx_pc, rx_lenght, rx_msg, Last, Done>>
    BY <2>1 DEF tx, rx, Last, Done
  <2>3. Resumable' /\ Receiving' /\ Fifo' /\ AbortNeedsHalfMessage'
    BY <2>1, <2>2 DEF StreamInv, Resumable, Receiving, Fifo, AbortNeedsHalfMessage
  <2> QED BY <2>1, <2>3 DEF StreamInv, Streamed
<1> QED BY <1>1, <1>2

(* Units of the message under reception are taken from the stream.         *)
Consumes(n) == n <= Len(inbuf) /\ inbuf' = SubSeq(inbuf, n + 1, Len(inbuf))

LEMMA UnitsReceived ==
  ASSUME BasicInv, StreamInv, link # "rst", UNCHANGED <<tx, link, wire, built, delivered, short>>,
         NEW n \in Nat, Consumes(n),
         rx_lenght' = rx_lenght + n, Done < Last, rx_lenght + n <= built[Done + 1].length
  PROVE  /\ Streamed'
         /\ \A i \in 1 .. n : SubSeq(inbuf, 1, n)[i] = <<Done + 1, rx_lenght + i>>
<1>1. UNCHANGED <<tx_pc, tx_req_ptr, tx_length, tx_msg, link, short, built, Last, Done>>
  BY DEF tx, Last, Done
<1>2. PICK start \in [Nat -> Int] :
        /\ Placed(start, Stream, OnWay, Last, Done, rx_lenght)
        /\ Sized(start, built, Last, Done) /\ TxPlace(start)
  BY DEF StreamInv, Streamed
<1>3. /\ Last \in Nat /\ Done \in Nat /\ OnWay \in Nat /\ rx_lenght \in Nat
      /\ Done + 1 \in Nat /\ Done + 1 >= 1 /\ Done + 1 <= Last /\ Done <= Last
  <2>1. Last \in Nat /\ Done \in Nat /\ OnWay \in Nat /\ rx_lenght \in Nat
    BY Sizes
  <2> QED BY <2>1
<1>4. built[Done + 1].length \in Nat
  BY <1>3, BuiltSizes
<1>5. /\ inbuf \in Seq(BuiltUnits) /\ wire \in Seq(BuiltUnits) /\ n \in 0 .. Len(inbuf)
      /\ Len(inbuf) \in Nat /\ Len(wire) \in Nat
  BY DEF BasicInv, RxOK, Consumes
<1>6. /\ Rest(Stream', Stream, OnWay, n) /\ OnWay' = OnWay - n
      /\ \A i \in 1 .. n : SubSeq(inbuf, 1, n)[i] = Stream[i]
  BY <1>5, Fronted DEF Stream, OnWay, tx, Consumes
<1>7. n <= OnWay
  BY <1>5 DEF OnWay
<1>8. ASSUME NEW i \in 1 .. n PROVE Stream[i] = <<Done + 1, rx_lenght + i>>
  <2>1. i \in Nat /\ 1 <= i /\ i <= OnWay /\ rx_lenght + i <= built[Done + 1].length
    BY <1>3, <1>4, <1>7
  <2>2. start[(Done + 1) + 1] = start[Done + 1] + built[Done + 1].length
    BY <1>2, <1>3 DEF Sized
  <2>3. start[Done + 1] = 0 - rx_lenght
    BY <1>2 DEF Placed
  <2>4. start[Done + 1] < i /\ i <= start[(Done + 1) + 1] /\ i - start[Done + 1] = rx_lenght + i
    BY <1>3, <1>4, <2>1, <2>2, <2>3
  <2>5. Stream[i] = <<Done + 1, i - start[Done + 1]>>
    BY <1>2, <1>3, <2>1, <2>4 DEF Placed
  <2> QED BY <2>4, <2>5
<1>9. \A m \in Nat : Done < m /\ m <= Last => built[m].length \in Nat
  BY <1>3, BuiltSizes
<1>10. PICK begin \in [Nat -> Int] :
         /\ \A m \in Nat : begin[m] = start[m] - n
         /\ Placed(begin, Stream', OnWay - n, Last, Done, rx_lenght + n)
         /\ Sized(begin, built, Last, Done)
  BY <1>2, <1>3, <1>6, <1>7, <1>9, Consume
<1>11. TxPlace(begin)'
  <2>1. begin[Last + 1] = start[Last + 1] - n /\ begin[Last] = start[Last] - n
    BY <1>3, <1>10
  <2>0. tx_length \in Int
    BY Sizes
  <2>2. tx_length \in Int /\ start[Last] \in Int /\ start[Last + 1] \in Int
    BY <1>3, <2>0
  <2>3. /\ OnWay = start[Last + 1] => OnWay - n = begin[Last + 1]
        /\ OnWay = start[Last] => OnWay - n = begin[Last]
    BY <1>3, <2>1, <2>2
  <2>4. OnWay = start[Last] + tx_length => OnWay - n = begin[Last] + tx_length
    BY <1>3, <2>1, <2>2
  <2> QED BY <1>1, <1>2, <1>6, <2>3, <2>4 DEF TxPlace, Sending
<1>12. Streamed'
  BY <1>1, <1>6, <1>10, <1>11 DEF Streamed
<1> QED BY <1>6, <1>8, <1>12

(* A reception that takes no unit and delivers nothing.                    *)
LEMMA ReceptionKept ==
  ASSUME StreamInv, UNCHANGED <<tx, wire, inbuf, built, delivered, link, short>>,
         UNCHANGED <<rx_lenght, rx_msg>> \/ (rx_lenght' = 0 /\ link = "rst"),
         rx_pc' = "aborted" => short > 0 \/ tx_pc = "torn"
  PROVE  StreamInv'
<1>1. UNCHANGED <<tx_pc, tx_req_ptr, tx_length, tx_msg, Stream, OnWay, Last, Done>>
  BY DEF tx, Stream, OnWay, Last, Done
<1>2. Streamed' /\ Receiving'
  <2>1. CASE UNCHANGED <<rx_lenght, rx_msg>>
    BY <1>1, <2>1 DEF StreamInv, Streamed, TxPlace, Sending, Receiving
  <2>2. CASE rx_lenght' = 0 /\ link = "rst"
    BY <2>2 DEF Streamed, Receiving
  <2> QED BY <2>1, <2>2
<1>3. Resumable' /\ Fifo' /\ AbortNeedsHalfMessage'
  BY <1>1 DEF StreamInv, Resumable, Fifo, AbortNeedsHalfMessage
<1> QED BY <1>2, <1>3 DEF StreamInv

(* As long as no send is cut and the process is not killed between the two *)
(* of a message, the stream ends after a whole message.                    *)
LEMMA NoHalfMessage ==
  ASSUME BasicInv, StreamInv, EndOfStream, rx_lenght # 0, Missing > 0
  PROVE  short > 0 \/ tx_pc = "torn"
<1> SUFFICES ASSUME short = 0, tx_pc # "torn" PROVE FALSE
  BY Sizes
<1>1. link = "fin" /\ OnWay = 0
  BY DEF EndOfStream, OnWay
<1>2. PICK start \in [Nat -> Int] :
        /\ Placed(start, Stream, OnWay, Last, Done, rx_lenght)
        /\ Sized(start, built, Last, Done) /\ TxPlace(start)
  BY <1>1 DEF StreamInv, Streamed
<1>3. 0 \in {start[Last], start[Last + 1]}
  BY <1>1, <1>2 DEF TxPlace
<1>4. Done < Last /\ Missing = built[Done + 1].length - rx_lenght
  BY DEF StreamInv, Receiving, Missing
<1>5. Last \in Nat /\ Done \in Nat /\ rx_lenght \in Nat
  BY Sizes
<1>6. Done + 1 \in Nat /\ Done < Done + 1 /\ Done + 1 >= 1 /\ Done + 1 <= Last
  BY <1>4, <1>5
<1>7. /\ start[(Done + 1) + 1] = start[Done + 1] + built[Done + 1].length
      /\ start[Done + 1] = 0 - rx_lenght /\ built[Done + 1].length \in Nat
  BY <1>2, <1>6, BuiltSizes DEF Sized, Placed
<1>8. start[(Done + 1) + 1] \in Int /\ start[(Done + 1) + 1] > 0 /\ start[Done + 1] < 0
  BY <1>4, <1>5, <1>7
<1>9. ASSUME NEW m \in Nat, Done < m, m <= Last + 1, start[m] = 0 PROVE FALSE
  <2>1. m = Done + 1 \/ (Done + 1) + 1 <= m
    BY <1>5, <1>9
  <2>2. CASE (Done + 1) + 1 <= m
    <3>1. (Done + 1) + 1 \in Nat /\ Done < (Done + 1) + 1
      BY <1>5
    <3>2. start[(Done + 1) + 1] <= start[m]
      BY <1>2, <1>9, <2>2, <3>1 DEF Placed
    <3> QED BY <1>8, <1>9, <3>2
  <2> QED BY <1>8, <1>9, <2>1, <2>2
<1>10. Last + 1 \in Nat /\ Done < Last + 1 /\ Last <= Last + 1
  BY <1>4, <1>5
<1> QED BY <1>3, <1>4, <1>5, <1>9, <1>10

LEMMA IdleReceptionStream ==
  ASSUME BasicInv, StreamInv, recvNextData \/ NothingToReceive \/ ReceiveDisconnected
  PROVE  StreamInv'
<1>1. CASE recvNextData
  BY <1>1, ReceptionKept DEF recvNextData
<1>2. CASE NothingToReceive
  <2>1. rx_pc' = "aborted" => short > 0 \/ tx_pc = "torn"
    BY <1>2, NoHalfMessage DEF NothingToReceive
  <2> QED BY <1>2, <2>1, ReceptionKept DEF NothingToReceive
<1>3. CASE ReceiveDisconnected
  BY <1>3, ReceptionKept DEF ReceiveDisconnected
<1> QED BY <1>1, <1>2, <1>3

(* The first units of a message, in order.                                 *)
LEMMA SameUnits ==
  ASSUME NEW S, NEW units \in Seq(S), NEW n, Len(units) = n, NEW m,
         \A i \in 1 .. n : units[i] = <<m, i>>
  PROVE  units = [i \in 1 .. n |-> <<m, i>>]
<1>1. DOMAIN units = 1 .. n /\ units = [i \in DOMAIN units |-> units[i]]
  BY LenProperties
<1>2. units = [i \in 1 .. n |-> units[i]]
  BY <1>1
<1> QED BY <1>2

LEMMA BeginStream ==
  ASSUME BasicInv, StreamInv, _recvBeginNewMsg
  PROVE  StreamInv'
<1>1. CASE ~Peeked
  BY <1>1, ReceptionKept DEF _recvBeginNewMsg, EndOfRecvLoop
<1>2. CASE Peeked
  <2> DEFINE units == SubSeq(inbuf, 1, LenSize)
  <2>1. PICK lenght \in Announced(units) : rx_msg' = [lenght |-> lenght, units |-> units]
    BY <1>2 DEF _recvBeginNewMsg
  <2>2. /\ rx_lenght = 0 /\ rx_lenght' = LenSize /\ link # "rst" /\ rx_pc' = rx_pc
        /\ UNCHANGED <<tx, link, wire, built, delivered, short>>
    BY <1>2 DEF _recvBeginNewMsg
  <2>3. Consumes(LenSize) /\ LenSize \in 0 .. Len(inbuf)
    BY <1>2, Sizes DEF _recvBeginNewMsg, Peeked, Consumes
  <2>4. Len(units) = LenSize /\ units \in Seq(BuiltUnits)
    BY <2>3, PieceTyped DEF BasicInv, RxOK
  <2>5. Done < Last
    <3>1. PICK start \in [Nat -> Int] :
            Placed(start, Stream, OnWay, Last, Done, rx_lenght)
      BY <2>2 DEF StreamInv, Streamed
    <3>2. OnWay <= start[Last + 1] /\ start[Done + 1] = 0
      BY <2>2, <3>1 DEF Placed
    <3>3. LenSize <= Len(inbuf) /\ LenSize > 0
      BY <2>3, Sizes DEF Consumes
    <3>4. OnWay > 0
      BY <3>3, Sizes DEF OnWay
    <3>5. OnWay \in Nat /\ Last \in Nat /\ Done \in Nat
      BY Sizes
    <3>6. Done # Last
      BY <3>2, <3>4, <3>5
    <3>7. Done <= Last
      BY DEF StreamInv, Fifo, Done, Last
    <3> QED BY <3>5, <3>6, <3>7
  <2> HIDE DEF units
  <2>6. /\ built[Done + 1].length \in Nat /\ built[Done + 1].length > LenSize
        /\ Done + 1 \in Nat
    <3>1. Last \in Nat /\ Done \in Nat BY Sizes
    <3>2. Done + 1 \in Nat /\ Done + 1 >= 1 /\ Done + 1 <= Last BY <2>5, <3>1
    <3>3. built[Done + 1].length \in Nat /\ built[Done + 1].length > HeaderSize
      BY <3>2, BuiltSizes
    <3>4. LenSize \in Nat /\ HeaderSize \in Nat /\ HeaderSize > LenSize BY Sizes
    <3> QED BY <3>2, <3>3, <3>4
  <2>7. LenSize \in Nat /\ LenSize > 0 /\ 0 + LenSize = LenSize
    BY Sizes
  <2>8. Streamed' /\ \A i \in 1 .. LenSize : units[i] = <<Done + 1, 0 + i>>
    BY <2>2, <2>3, <2>5, <2>6, <2>7, UnitsReceived DEF units
  <2>9. \A i \in 1 .. LenSize : units[i] = <<Done + 1, i>>
    BY <2>7, <2>8
  <2>10. units[1][1] = Done + 1
    BY <2>7, <2>9
  <2>11. units = [i \in 1 .. LenSize |-> <<Done + 1, i>>]
    BY <2>4, <2>9, SameUnits
  <2>12. lenght = built[Done + 1].length
    BY <2>1, <2>10, <2>11 DEF Announced
  <2>13. UNCHANGED <<Last, Done, tx_pc, tx_req_ptr, tx_length, tx_msg>>
    BY <2>2 DEF Last, Done, tx
  <2>14. rx_msg'.lenght = lenght /\ rx_msg'.units = units
    BY <2>1
  <2>15. Receiving'
    BY <2>2, <2>5, <2>6, <2>7, <2>9, <2>12, <2>13, <2>14 DEF Receiving
  <2>16. Resumable' /\ Fifo' /\ AbortNeedsHalfMessage'
    BY <2>2, <2>13 DEF StreamInv, Resumable, Fifo, AbortNeedsHalfMessage
  <2> QED BY <2>8, <2>15, <2>16 DEF StreamInv
<1> QED BY <1>1, <1>2

LEMMA RestStream ==
  ASSUME BasicInv, StreamInv, ReceiveRest
  PROVE  StreamInv'
<1> DEFINE n == IF Len(inbuf) < Missing THEN Len(inbuf) ELSE Missing
           piece == SubSeq(inbuf, 1, n)
<1>1. /\ rx_msg' = [rx_msg EXCEPT !.units = @ \o piece]
      /\ rx_lenght' = rx_lenght + n /\ inbuf' = SubSeq(inbuf, n + 1, Len(inbuf))
      /\ rx_lenght # 0 /\ link # "rst" /\ Missing > 0 /\ rx_pc' = rx_pc
      /\ UNCHANGED <<tx, link, wire, built, delivered, short>>
  BY DEF ReceiveRest
<1>2. /\ Done < Last /\ rx_msg.lenght = built[Done + 1].length
      /\ \A i \in 1 .. rx_lenght : rx_msg.units[i] = <<Done + 1, i>>
      /\ Missing = built[Done + 1].length - rx_lenght
  BY <1>1 DEF StreamInv, Receiving, Missing
<1>3. built[Done + 1].length \in Nat /\ rx_lenght \in Nat /\ Len(inbuf) \in Nat
  <2>1. Last \in Nat /\ Done \in Nat /\ rx_lenght \in Nat /\ Len(inbuf) \in Nat
    BY Sizes
  <2>2. Done + 1 \in Nat /\ Done + 1 >= 1 /\ Done + 1 <= Last
    BY <1>2, <2>1
  <2> QED BY <2>1, <2>2, BuiltSizes
<1>4. n \in Nat /\ n <= Len(inbuf) /\ rx_lenght + n <= built[Done + 1].length
  BY <1>1, <1>2, <1>3
<1>5. n \in 0 .. Len(inbuf)
  BY <1>3, <1>4
<1>6. /\ piece \in Seq(BuiltUnits) /\ Len(piece) = n
      /\ rx_msg.units \in Seq(BuiltUnits) /\ Len(rx_msg.units) = rx_lenght
  BY <1>5, PieceTyped DEF BasicInv, RxOK
<1> HIDE DEF n
<1>7. Streamed' /\ \A i \in 1 .. n : piece[i] = <<Done + 1, rx_lenght + i>>
  <2>1. Consumes(n) BY <1>1, <1>4 DEF Consumes
  <2> QED BY <1>1, <1>2, <1>4, <2>1, UnitsReceived
<1> HIDE DEF piece
<1>8. UNCHANGED <<Last, Done, tx_pc, tx_req_ptr, tx_length, tx_msg>>
  BY <1>1 DEF Last, Done, tx
<1>9. rx_msg \in [lenght : Nat, units : Seq(BuiltUnits)]
  BY <1>6 DEF BasicInv, TypeOK
<1>10. rx_msg'.lenght = rx_msg.lenght /\ rx_msg'.units = rx_msg.units \o piece
  BY <1>1, <1>9
<1>11. ASSUME NEW i \in 1 .. rx_lenght + n
       PROVE  (rx_msg.units \o piece)[i] = <<Done + 1, i>>
  <2>1. i \in Nat /\ 1 <= i /\ i <= rx_lenght + n
    BY <1>3, <1>4
  <2>2. CASE i <= rx_lenght
    <3>1. (rx_msg.units \o piece)[i] = rx_msg.units[i]
      BY <1>6, <2>1, <2>2, Joined
    <3>2. i \in 1 .. rx_lenght
      BY <1>3, <2>1, <2>2
    <3> QED BY <1>2, <3>1, <3>2
  <2>3. CASE i > rx_lenght
    <3>1. (rx_msg.units \o piece)[i] = piece[i - rx_lenght]
      BY <1>6, <2>1, <2>3, Joined
    <3>2. i - rx_lenght \in 1 .. n
      BY <1>3, <1>4, <2>1, <2>3
    <3>3. rx_lenght + (i - rx_lenght) = i
      BY <1>3, <2>1
    <3>4. piece[i - rx_lenght] = <<Done + 1, rx_lenght + (i - rx_lenght)>>
      BY <1>7, <3>2
    <3> QED BY <3>1, <3>3, <3>4, Zenon
  <2>4. i <= rx_lenght \/ i > rx_lenght
    BY <1>3, <2>1
  <2> QED BY <2>2, <2>3, <2>4, Zenon
<1>12. Receiving'
  <2>1. \A i \in 1 .. rx_lenght' : rx_msg'.units[i] = <<Done' + 1, i>>
    BY <1>1, <1>8, <1>10, <1>11, Zenon
  <2>2. rx_lenght' <= rx_msg'.lenght /\ rx_msg'.lenght = built'[Done' + 1].length /\ Done' < Last'
    BY <1>1, <1>2, <1>4, <1>8, <1>10
  <2> QED BY <2>1, <2>2 DEF Receiving
<1>13. Resumable' /\ Fifo' /\ AbortNeedsHalfMessage'
  BY <1>1, <1>8 DEF StreamInv, Resumable, Fifo, AbortNeedsHalfMessage
<1> QED BY <1>7, <1>12, <1>13 DEF StreamInv

(* The next message to deliver is the one that was built in its turn, and  *)
(* a message under emission is not complete.                               *)
LEMMA DeliverStream ==
  ASSUME BasicInv, StreamInv, MessageReceived
  PROVE  StreamInv'
<1>1. rx_lenght # 0 /\ Missing <= 0 /\ link # "rst"
  BY DEF MessageReceived
<1>2. /\ Done < Last /\ rx_msg.lenght = built[Done + 1].length /\ rx_lenght <= rx_msg.lenght
      /\ \A i \in 1 .. rx_lenght : rx_msg.units[i] = <<Done + 1, i>>
  BY <1>1 DEF StreamInv, Receiving
<1>3. Last \in Nat /\ Done \in Nat /\ rx_lenght \in Nat /\ HeaderSize \in Nat /\ OnWay \in Nat
  BY Sizes
<1>4. Done + 1 \in Nat /\ Done + 1 >= 1 /\ Done + 1 <= Last
  BY <1>2, <1>3
<1>5. built[Done + 1].length \in Nat /\ built[Done + 1].length > HeaderSize
  BY <1>4, BuiltSizes
<1>6. Missing = 0 /\ built[Done + 1].length = rx_lenght
  BY <1>1, <1>2, <1>3, <1>5 DEF Missing
<1>7. /\ delivered' = Append(delivered, Contents(rx_msg.units))
      /\ rx_lenght' = 0 /\ rx_pc' = rx_pc
      /\ UNCHANGED <<tx, link, wire, inbuf, built, short>>
  BY <1>6 DEF MessageReceived
<1>8. Contents(rx_msg.units) = built[Done + 1].body
  <2>1. rx_msg.units \in Seq(BuiltUnits) /\ Len(rx_msg.units) = rx_lenght
    BY DEF BasicInv, RxOK
  <2>2. rx_msg.units = [i \in 1 .. rx_lenght |-> <<Done + 1, i>>]
    <3> DEFINE units == rx_msg.units
               m == Done + 1
    <3>1. units \in Seq(BuiltUnits) /\ Len(units) = rx_lenght
      BY <2>1
    <3>2. \A i \in 1 .. rx_lenght : units[i] = <<m, i>>
      BY <1>2
    <3> HIDE DEF units, m
    <3>3. units = [i \in 1 .. rx_lenght |-> <<m, i>>]
      BY <3>1, <3>2, SameUnits
    <3> QED BY <3>3 DEF units, m
  <2>3. rx_msg.units[1][1] = Done + 1
    BY <1>1, <1>2, <1>3
  <2> QED BY <1>6, <2>2, <2>3 DEF Contents
<1>9. /\ Done' = Done + 1 /\ \A i \in 1 .. Done : delivered'[i] = delivered[i]
      /\ delivered'[Done + 1] = built[Done + 1].body
  <2>1. delivered \in Seq(MsgBody \cup {Garbage})
    BY DEF BasicInv, TypeOK
  <2> QED BY <1>7, <1>8, <2>1, AppendProperties DEF Done
<1>10. UNCHANGED <<Last, Stream, OnWay, tx_pc, tx_req_ptr, tx_length, tx_msg>>
  BY <1>7 DEF Last, Stream, OnWay, tx
<1>11. PICK start \in [Nat -> Int] :
         /\ Placed(start, Stream, OnWay, Last, Done, rx_lenght)
         /\ Sized(start, built, Last, Done) /\ TxPlace(start)
  BY <1>1 DEF StreamInv, Streamed
<1>12. /\ Placed(start, Stream, OnWay, Last, Done + 1, 0) /\ Sized(start, built, Last, Done + 1)
       /\ start[Done + 1] = 0 - rx_lenght
  <2>1. Done < Last /\ built[Done + 1].length = rx_lenght
    BY <1>2, <1>6
  <2>2. Last \in Nat /\ Done \in Nat /\ rx_lenght \in Nat /\ OnWay \in Nat
    BY <1>3
  <2>3. /\ start \in [Nat -> Int] /\ Sized(start, built, Last, Done)
        /\ Placed(start, Stream, OnWay, Last, Done, rx_lenght)
    BY <1>11
  <2>4. Placed(start, Stream, OnWay, Last, Done + 1, 0) /\ Sized(start, built, Last, Done + 1)
    BY <2>1, <2>2, <2>3, Complete
  <2>5. start[Done + 1] = 0 - rx_lenght
    BY <2>3 DEF Placed
  <2> QED BY <2>4, <2>5
<1>13. Sending => Done + 1 < Last
  <2> SUFFICES ASSUME Sending, Done + 1 = Last PROVE FALSE
    BY <1>3, <1>4
  <2>1. OnWay = (0 - rx_lenght) + tx_length
    BY <1>11, <1>12 DEF TxPlace
  <2>2. tx_length <= HeaderSize
    <3>1. tx_pc \in {"idle", "loop", "header", "body", "gone", "torn", "aborted"}
      BY DEF BasicInv, TypeOK
    <3> QED BY <1>3, <3>1 DEF Sending, StreamInv, Resumable, BasicInv, TxOK
  <2>3. tx_length \in Int
    BY Sizes
  <2> QED BY <1>3, <1>5, <1>6, <2>1, <2>2, <2>3
<1>14. Streamed'
  <2>1. TxPlace(start)'
    BY <1>7, <1>9, <1>10, <1>11, <1>13 DEF TxPlace, Sending
  <2> QED BY <1>7, <1>9, <1>10, <1>12, <2>1 DEF Streamed
<1>15. Fifo'
  <2>1. ASSUME NEW i \in 1 .. Done + 1 PROVE delivered'[i] = built[i].body
    <3>1. CASE i \in 1 .. Done
      <4>1. delivered[i] = built[i].body BY <3>1 DEF StreamInv, Fifo, Done
      <4> QED BY <1>9, <3>1, <4>1
    <3>2. CASE i = Done + 1
      BY <1>9, <3>2
    <3>3. i \in 1 .. Done \/ i = Done + 1
      BY <1>3
    <3> QED BY <3>1, <3>2, <3>3, Zenon
  <2>2. Len(delivered') = Done + 1 /\ Len(built') = Last /\ Done + 1 <= Last
    BY <1>4, <1>9, <1>10 DEF Done, Last
  <2> QED BY <1>7, <2>1, <2>2 DEF Fifo
<1>16. Receiving' /\ Resumable' /\ AbortNeedsHalfMessage'
  BY <1>7, <1>10 DEF StreamInv, Receiving, Resumable, AbortNeedsHalfMessage
<1> QED BY <1>14, <1>15, <1>16 DEF StreamInv

-----------------------------------------------------------------------------
LEMMA StreamInit == Init => StreamInv
<1> SUFFICES ASSUME Init PROVE StreamInv
  OBVIOUS
<1> USE DEF Init
<1> DEFINE start == [m \in Nat |-> 0]
<1>1. Len(built) = 0 /\ Len(delivered) = 0 /\ Len(inbuf) = 0 /\ Len(wire) = 0
  OBVIOUS
<1>2. OnWay = 0 /\ Last = 0 /\ Done = 0 /\ rx_lenght = 0
  BY <1>1 DEF OnWay, Last, Done
<1>3. start \in [Nat -> Int] /\ \A m \in Nat : start[m] = 0
  OBVIOUS
<1> HIDE DEF start
<1>4. Placed(start, Stream, OnWay, Last, Done, rx_lenght)
  BY <1>2, <1>3 DEF Placed
<1>5. Sized(start, built, Last, Done) /\ TxPlace(start)
  BY <1>2, <1>3 DEF Sized, TxPlace, Sending
<1>6. Streamed
  BY <1>3, <1>4, <1>5 DEF Streamed
<1>7. Resumable /\ Receiving /\ Fifo /\ AbortNeedsHalfMessage
  BY DEF Resumable, Receiving, Fifo, AbortNeedsHalfMessage
<1> QED BY <1>6, <1>7 DEF StreamInv

LEMMA NextStream ==
  ASSUME BasicInv, BasicInv', StreamInv, Undamaged', [Next]_vars
  PROVE  StreamInv'
<1>1. CASE UNCHANGED vars
  <2>1. \A start : TxPlace(start)' <=> TxPlace(start)
    BY <1>1 DEF vars, tx, TxPlace, Sending, OnWay, Last, Done
  <2>2. UNCHANGED <<Stream, OnWay, Last, Done, rx_lenght, built, link>>
    BY <1>1 DEF vars, rx, Stream, OnWay, Last, Done
  <2>3. Streamed'
    BY <2>1, <2>2 DEF StreamInv, Streamed
  <2>4. Resumable' /\ Receiving' /\ Fifo' /\ AbortNeedsHalfMessage'
    BY <1>1, <2>2 DEF vars, tx, rx, StreamInv, Resumable, Receiving, Fifo, AbortNeedsHalfMessage
  <2> QED BY <2>3, <2>4 DEF StreamInv
<1>2. CASE \E req \in Requests : sendMsg(req)
  BY <1>2, UpperLevelStream
<1>3. CASE discardDataBuffers
  BY <1>3, UpperLevelStream
<1>4. CASE stop \/ Killed
  BY <1>4, StopStream
<1>5. CASE Emission
  BY <1>5, LoopStream, BuildStream, SendHeaderStream, SendBodyStream, RefusedStream, StopStream
  DEF Emission
<1>6. CASE Arrive \/ Reset
  BY <1>6, NetworkStream
<1>7. CASE Reception
  BY <1>7, IdleReceptionStream, BeginStream, RestStream, DeliverStream DEF Reception
<1> QED BY <1>1, <1>2, <1>3, <1>4, <1>5, <1>6, <1>7 DEF Next

(* The count of the refusals only grows: no damage is ever undone.         *)
LEMMA ShortGrows == BasicInv /\ [Next]_vars /\ Undamaged' => Undamaged
<1> SUFFICES ASSUME BasicInv, [Next]_vars, short' = 0 PROVE short = 0
  BY DEF Undamaged
<1>1. short \in Nat BY Sizes
<1>2. short' = short \/ short' = short + 1
  BY DEF Next, Emission, Reception, vars, sendMsg, discardDataBuffers, stop, Killed,
     sendNextData, EndOfSendLoop, NextRequest, BuildMessage, ResumeMessage, SendHeader, SendHeaderRefused,
     SendBody, SendBodyRefused, SendDisconnected, Arrive, Reset, recvNextData, _recvBeginNewMsg,
     EndOfRecvLoop, ReceiveRest, NothingToReceive, MessageReceived, ReceiveDisconnected
<1> QED BY <1>1, <1>2

LEMMA Invariance == Spec => []IInv
<1>1. Init => IInv
  BY BasicInit, StreamInit DEF IInv
<1>2. IInv /\ [Next]_vars => IInv'
  BY NextBasic, NextStream, ShortGrows DEF IInv
<1> QED BY <1>1, <1>2, PTL DEF Spec

-----------------------------------------------------------------------------
(* Every variable of the two sockets and of the stream keeps its type.     *)
THEOREM StreamTypeCorrect == Spec => []TypeOK
<1>1. BasicInv => TypeOK
  BY DEF BasicInv
<1> QED BY <1>1, BasicInvariance, PTL

(* The receiver is given the very messages that were built, in order and   *)
(* once each, whatever the sizes of the messages and of the files, however *)
(* the stream is cut on arrival, whenever the queues are emptied and       *)
(* wherever the connection ends: as long as the kernel takes every send    *)
(* whole, or if the only sends it may refuse or cut are those after which  *)
(* _sendLoop does not restart a message in its middle.                     *)
THEOREM MessagesArriveInOrder == Spec => [](Undamaged => Fifo)
<1>1. IInv => (Undamaged => Fifo)
  BY DEF IInv, StreamInv
<1> QED BY <1>1, Invariance, PTL

(* No assertion of _sendLoop or _recvLoop fails, on either side, before a  *)
(* send was refused or cut or the emitting process was killed between the  *)
(* two sends of a message, whatever the connection does.                   *)
THEOREM NoAbortBeforeHalfMessage == Spec => []AbortNeedsHalfMessage
<1>1. IInv => AbortNeedsHalfMessage
  <2> SUFFICES ASSUME IInv, ~(short > 0) PROVE AbortNeedsHalfMessage
    BY DEF AbortNeedsHalfMessage
  <2>1. short = 0 BY Sizes DEF IInv
  <2> QED BY <2>1 DEF IInv, StreamInv, Undamaged
<1> QED BY <1>1, Invariance, PTL

-----------------------------------------------------------------------------
(* The blocks of the files.  A request is between two blocks of its file,  *)
(* or has sent nothing: its descriptor is where its count says, and the    *)
(* last message built is its last block.  A block that does not complete   *)
(* its file is the last message only while its request is under way.       *)
MidFile(req) == req.kind = "file" /\ req.nb_payload_bytes_sent # 0 /\ someDataToSend(req)

LastBlock(req, b, last) ==
  /\ req.kind = "file" =>
       /\ req.offset = req.nb_payload_bytes_sent
       /\ req.nb_payload_bytes_sent # 0 =>
            /\ last > 0 /\ IsBlock(b[last].body)
            /\ b[last].body.at + b[last].body.nb = req.nb_payload_bytes_sent
            /\ b[last].body.size = req.l2_payload_length
  /\ last > 0 /\ ~Completes(b[last].body) => MidFile(req)

Follows(b, i) ==
  LET body == b[i].body
  IN /\ body.nb > 0 /\ (IsBlock(body) => body.read = body.at)
     /\ IF body.id = "TRANSFER_DATA_BLK"
        THEN i > 1 /\ Continues(body, b[i - 1].body)
        ELSE i > 1 => Completes(b[i - 1].body)

BlocksInv == LastBlock(tx_req_ptr, built, Last) /\ \A i \in 1 .. Last : Follows(built, i)

(* The next block starts where the last one ended, is read where it        *)
(* starts, and goes no further than the end of the file.                   *)
LEMMA NextBlockFollows ==
  ASSUME NEW req, Begun(req), someDataToSend(req),
         req.kind = "file" => req.offset = req.nb_payload_bytes_sent
  PROVE  LET next == buildNextL2Msg(req)
         IN /\ next.body.nb > 0 /\ next.req.kind = req.kind
            /\ req.kind = "msg" => next.body.id = "l1_msg"
            /\ req.kind = "file" =>
                 /\ next.body.at = req.nb_payload_bytes_sent
                 /\ next.body.read = next.body.at
                 /\ next.body.size = req.l2_payload_length
                 /\ next.req.l2_payload_length = req.l2_payload_length
                 /\ next.req.nb_payload_bytes_sent = next.body.at + next.body.nb
                 /\ next.req.nb_payload_bytes_sent \in Nat \ {0}
                 /\ next.req.nb_payload_bytes_sent <= req.l2_payload_length
                 /\ next.req.offset = next.req.nb_payload_bytes_sent
                 /\ next.body.id = IF req.nb_payload_bytes_sent = 0
                                   THEN "FILE_TRANSFER_REQ" ELSE "TRANSFER_DATA_BLK"
<1>1. CASE req.kind = "msg"
  BY <1>1 DEF buildNextL2Msg, BodyOf, Begun, ClientServerRequest
<1>2. CASE req.kind = "file"
  <2>1. ASSUME NEW room \in Nat \ {0}, NEW id
        PROVE  LET next == NextBlock(req, id, room)
               IN /\ next.body.nb > 0 /\ next.req.kind = "file"
                  /\ next.body.at = req.nb_payload_bytes_sent /\ next.body.id = id
                  /\ next.body.read = next.body.at
                  /\ next.body.size = req.l2_payload_length
                  /\ next.req.l2_payload_length = req.l2_payload_length
                  /\ next.req.nb_payload_bytes_sent = next.body.at + next.body.nb
                  /\ next.req.nb_payload_bytes_sent \in Nat \ {0}
                  /\ next.req.nb_payload_bytes_sent <= req.l2_payload_length
                  /\ next.req.offset = next.req.nb_payload_bytes_sent
    <3> DEFINE nb == file_read_data(req, room)
               left == [req EXCEPT !.nb_payload_bytes_sent = @ + nb, !.offset = @ + nb]
               body == BodyOf(req, id, nb)
    <3>1. /\ req \in ClientServerRequest /\ req.offset = req.nb_payload_bytes_sent
          /\ req.l2_payload_length \in Nat /\ req.offset \in Nat
          /\ req.l2_payload_length > req.offset
      BY <1>2 DEF Begun, someDataToSend, ClientServerRequest
    <3>2. nb \in Nat /\ nb > 0 /\ req.offset + nb <= req.l2_payload_length
      BY <3>1 DEF file_read_data
    <3>3. NextBlock(req, id, room) = [req |-> left, length |-> nb + L2Header, body |-> body]
      BY DEF NextBlock
    <3>4. /\ body.nb = nb /\ body.at = req.nb_payload_bytes_sent /\ body.id = id
          /\ body.read = req.offset /\ body.size = req.l2_payload_length
      BY DEF BodyOf
    <3> HIDE DEF nb, body
    <3>5. /\ left.kind = "file" /\ left.offset = req.offset + nb
          /\ left.nb_payload_bytes_sent = req.nb_payload_bytes_sent + nb
          /\ left.l2_payload_length = req.l2_payload_length
      BY <1>2, <3>1, <3>2, BlockTaken
    <3> HIDE DEF left
    <3> QED BY <3>1, <3>2, <3>3, <3>4, <3>5
  <2> QED BY <1>2, <2>1, SizesAssumption DEF buildNextL2Msg
<1> QED BY <1>1, <1>2 DEF Begun, ClientServerRequest

LEMMA BuildBlocks ==
  ASSUME BasicInv, BlocksInv, BuildMessage
  PROVE  BlocksInv'
<1> DEFINE next == buildNextL2Msg(tx_req_ptr)
           msg == [body |-> next.body, length |-> next.length + HeaderSize]
<1>1. /\ built' = Append(built, msg) /\ tx_req_ptr' = next.req
      /\ tx_req_ptr # NoReq /\ someDataToSend(tx_req_ptr)
  BY DEF BuildMessage, InLoop
<1>2. /\ Begun(tx_req_ptr) /\ tx_req_ptr \in ClientServerRequest
      /\ LastBlock(tx_req_ptr, built, Last)
  BY <1>1 DEF BasicInv, TxOK, BlocksInv, Begun
<1>3. /\ next.body.nb > 0 /\ next.req.kind = tx_req_ptr.kind
      /\ tx_req_ptr.kind = "msg" => next.body.id = "l1_msg"
      /\ tx_req_ptr.kind = "file" =>
           /\ next.body.at = tx_req_ptr.nb_payload_bytes_sent
           /\ next.body.read = next.body.at
           /\ next.body.size = tx_req_ptr.l2_payload_length
           /\ next.req.l2_payload_length = tx_req_ptr.l2_payload_length
           /\ next.req.nb_payload_bytes_sent = next.body.at + next.body.nb
           /\ next.req.nb_payload_bytes_sent \in Nat \ {0}
           /\ next.req.nb_payload_bytes_sent <= tx_req_ptr.l2_payload_length
           /\ next.req.offset = next.req.nb_payload_bytes_sent
           /\ next.body.id = IF tx_req_ptr.nb_payload_bytes_sent = 0
                             THEN "FILE_TRANSFER_REQ" ELSE "TRANSFER_DATA_BLK"
  BY <1>1, <1>2, NextBlockFollows DEF LastBlock
<1>4. msg.body = next.body
  OBVIOUS
<1>5. msg \in [body : MsgBody, length : Nat]
  BY <1>1, <1>2, NextMessage, StreamAssumption
<1> HIDE DEF next, msg
<1>6. /\ Last' = Last + 1 /\ Last \in Nat /\ built'[Last + 1] = msg
      /\ \A i \in 1 .. Last : built'[i] = built[i]
  BY <1>1, <1>5, AppendProperties DEF Last, BasicInv, TypeOK
<1>7. tx_req_ptr.kind \in {"msg", "file"} /\ tx_req_ptr.l2_payload_length \in Nat
  BY <1>2 DEF ClientServerRequest
<1>8. LastBlock(tx_req_ptr, built, Last)'
  <2>1. ASSUME tx_req_ptr.kind = "file"
        PROVE  /\ IsBlock(next.body)
               /\ next.body.at + next.body.nb = next.req.nb_payload_bytes_sent
               /\ next.body.size = next.req.l2_payload_length
               /\ ~Completes(next.body) => MidFile(next.req)
    BY <1>3, <1>7, <2>1 DEF IsBlock, Completes, MidFile, someDataToSend
  <2>2. tx_req_ptr.kind = "msg" => Completes(next.body)
    BY <1>3 DEF Completes, IsBlock
  <2>3. LastBlock(next.req, built', Last + 1)
    BY <1>3, <1>4, <1>6, <1>7, <2>1, <2>2 DEF LastBlock
  <2> QED BY <1>1, <1>6, <2>3
<1>9. Follows(built', Last + 1)
  <2>1. /\ built'[Last + 1].body = next.body /\ (Last + 1) - 1 = Last
        /\ Last + 1 > 1 => Last > 0 /\ built'[Last] = built[Last]
    BY <1>4, <1>6
  <2>2. IsBlock(next.body) => tx_req_ptr.kind = "file"
    BY <1>3, <1>7 DEF IsBlock
  <2>3. CASE next.body.id # "TRANSFER_DATA_BLK"
    <3>1. ~MidFile(tx_req_ptr)
      BY <1>3, <2>3 DEF MidFile
    <3>2. Last > 0 => Completes(built[Last].body)
      BY <1>2, <3>1 DEF LastBlock
    <3> QED BY <1>3, <2>1, <2>2, <2>3, <3>2 DEF Follows
  <2>4. CASE next.body.id = "TRANSFER_DATA_BLK"
    <3>1. tx_req_ptr.kind = "file" /\ tx_req_ptr.nb_payload_bytes_sent # 0
      BY <1>3, <1>7, <2>4
    <3>2. Last > 0 /\ Continues(next.body, built[Last].body)
      BY <1>2, <1>3, <3>1 DEF LastBlock, Continues
    <3>3. Last + 1 > 1
      BY <1>6, <3>2
    <3> QED BY <1>3, <2>1, <2>4, <3>1, <3>2, <3>3 DEF Follows
  <2> QED BY <2>3, <2>4
<1>10. ASSUME NEW i \in 1 .. Last PROVE Follows(built', i)
  <2>1. built'[i] = built[i] /\ Follows(built, i)
    BY <1>6 DEF BlocksInv
  <2>2. i > 1 => built'[i - 1] = built[i - 1]
    BY <1>6
  <2> QED BY <2>1, <2>2 DEF Follows
<1>11. \A i \in 1 .. Last + 1 : Follows(built', i)
  <2>1. \A i \in 1 .. Last + 1 : i \in 1 .. Last \/ i = Last + 1
    BY <1>6
  <2> QED BY <1>9, <1>10, <2>1, Zenon
<1> QED BY <1>6, <1>8, <1>11 DEF BlocksInv

(* Files are read from their beginning: none of them is small enough for   *)
(* file_size() to leave its descriptor at the end.                         *)
FromStart == \A req \in Requests : req.offset = 0

(* The next request is taken when the one before is served: the last       *)
(* message built completes its file, if it is a block.                     *)
LEMMA FreshBlocks ==
  ASSUME FromStart, BlocksInv, tx_req_ptr = NoReq \/ ~someDataToSend(tx_req_ptr),
         NEW req, req = NoReq \/ req \in Requests
  PROVE  LastBlock(req, built, Last)
<1>1. ~MidFile(tx_req_ptr)
  BY DEF MidFile, NoReq
<1>2. Last > 0 => Completes(built[Last].body)
  BY <1>1 DEF BlocksInv, LastBlock
<1>3. req.kind = "file" => req.offset = 0 /\ req.nb_payload_bytes_sent = 0
  BY RequestsAssumption DEF FromStart, NoReq
<1> QED BY <1>2, <1>3 DEF LastBlock

LEMMA NextBlocks == FromStart /\ BasicInv /\ BlocksInv /\ [Next]_vars => BlocksInv'
<1> SUFFICES ASSUME FromStart, BasicInv, BlocksInv, [Next]_vars PROVE BlocksInv'
  OBVIOUS
<1> DEFINE Served == tx_req_ptr = NoReq \/ ~someDataToSend(tx_req_ptr)
<1>1. CASE UNCHANGED <<built, tx_req_ptr>>
  BY <1>1 DEF BlocksInv, Last
<1>2. CASE BuildMessage
  BY <1>2, BuildBlocks
<1>3. CASE Served /\ _txPopNextRequest /\ UNCHANGED built
  <2>1. tx_req_ptr' = NoReq \/ tx_req_ptr' \in Requests
    BY <1>3, PopBasic
  <2>2. LastBlock(tx_req_ptr', built, Last)
    BY <1>3, <2>1, FreshBlocks
  <2> QED BY <1>3, <2>2 DEF BlocksInv, Last
<1>4. \/ UNCHANGED <<built, tx_req_ptr>> \/ BuildMessage
      \/ Served /\ _txPopNextRequest /\ UNCHANGED built
  BY DEF Next, Emission, Reception, vars, tx, sendMsg, discardDataBuffers, stop, Killed,
     TxDropped, sendNextData, EndOfSendLoop, NextRequest, InLoop, ResumeMessage, SendHeader,
     SendHeaderRefused, SendBody, SendBodyRefused, SendDisconnected, Arrive, Reset, recvNextData,
     _recvBeginNewMsg, EndOfRecvLoop, ReceiveRest, NothingToReceive, MessageReceived,
     ReceiveDisconnected
<1> QED BY <1>1, <1>2, <1>3, <1>4

(* The blocks of a transfer follow each other in the file without a gap,   *)
(* an overlap or an empty one, each holds the bytes of the place it        *)
(* announces, and no other message comes before the last of them, for      *)
(* files and blocks of any size and however the emission is disturbed, as  *)
(* long as no file is smaller than the buffer of stdio:                    *)
(* ClientServerFileTransferRequest counts in the same unit what it has     *)
(* sent and where it reads, and a request gives way when it is served.     *)
THEOREM BlocksAlwaysContiguous ==
  ASSUME FromStart PROVE Spec => []BlocksAreContiguous
<1>1. Init => BlocksInv
  <2> SUFFICES ASSUME Init PROVE BlocksInv
    OBVIOUS
  <2>1. Last = 0 /\ tx_req_ptr = NoReq
    BY DEF Init, Last
  <2> QED BY <2>1 DEF BlocksInv, LastBlock, NoReq
<1>2. BasicInv /\ BlocksInv /\ [Next]_vars => BlocksInv'
  BY NextBlocks
<1>3. BlocksInv => BlocksAreContiguous
  BY DEF BlocksInv, Follows, BlocksAreContiguous, Last
<1> QED BY <1>1, <1>2, <1>3, BasicInvariance, PTL DEF Spec

-----------------------------------------------------------------------------
(* The channel of whole messages that the stream implements.               *)
Serving == IF tx_req_ptr = NoReq THEN <<>> ELSE <<tx_req_ptr>>
InTransit == [i \in 1 .. (Len(built) - Len(delivered)) |-> built[Len(delivered) + i].body]
Ended == link # "open"

ChannelStep == Channel!Next \/ UNCHANGED Channel!channel

LEMMA SameRequests ==
  ASSUME NEW req
  PROVE  /\ Channel!someDataToSend(req) <=> someDataToSend(req)
         /\ Channel!buildNextL2Msg(req) = buildNextL2Msg(req)
<1>1. Channel!someDataToSend(req) <=> someDataToSend(req)
  BY DEF Channel!someDataToSend, someDataToSend
<1>2. \A nb : Channel!file_read_data(req, nb) = file_read_data(req, nb)
  BY DEF Channel!file_read_data, file_read_data
<1>3. \A id, room : Channel!NextBlock(req, id, room) = NextBlock(req, id, room)
  BY <1>2 DEF Channel!NextBlock, NextBlock, Channel!BodyOf, BodyOf
<1>4. Channel!buildNextL2Msg(req) = buildNextL2Msg(req)
  BY <1>3 DEF Channel!buildNextL2Msg, buildNextL2Msg, Channel!BodyOf, BodyOf
<1> QED BY <1>1, <1>4

(* The steps of the channel, seen from the stream.                         *)
ChannelAsk(req) ==
  tx_fifo' = Append(tx_fifo, req) /\ UNCHANGED <<Serving, InTransit, delivered, Ended>>
ChannelDiscard == tx_fifo' = <<>> /\ UNCHANGED <<Serving, InTransit, delivered, Ended>>
ChannelEnd ==
  Ended' = TRUE /\ tx_fifo' \in {tx_fifo, <<>>} /\ UNCHANGED <<Serving, InTransit, delivered>>
ChannelServe ==
  /\ Serving = <<>> \/ ~someDataToSend(Serving[1])
  /\ IF tx_fifo = <<>> THEN Serving' = <<>> /\ UNCHANGED tx_fifo
                       ELSE Serving' = <<Head(tx_fifo)>> /\ tx_fifo' = Tail(tx_fifo)
  /\ UNCHANGED <<InTransit, delivered, Ended>>
ChannelDeliver ==
  /\ InTransit # <<>>
  /\ delivered' = Append(delivered, Head(InTransit)) /\ InTransit' = Tail(InTransit)
  /\ UNCHANGED <<tx_fifo, Serving, Ended>>
ChannelEmit ==
  /\ Serving # <<>> /\ someDataToSend(Serving[1])
  /\ LET next == buildNextL2Msg(Serving[1])
     IN Serving' = <<next.req>> /\ InTransit' = Append(InTransit, next.body)
  /\ UNCHANGED <<tx_fifo, delivered, Ended>>
ChannelQuiet == UNCHANGED <<tx_fifo, Serving, InTransit, delivered, Ended>>

LEMMA ChannelSteps ==
  ASSUME \/ \E req \in Requests : ChannelAsk(req)
         \/ ChannelDiscard \/ ChannelEnd \/ ChannelServe \/ ChannelDeliver \/ ChannelEmit
         \/ ChannelQuiet
  PROVE  ChannelStep
<1> USE DEF Serving, InTransit, Ended
<1>1. ASSUME NEW req \in Requests, ChannelAsk(req) PROVE Channel!Ask(req)
  BY <1>1 DEF ChannelAsk, Channel!Ask
<1>2. CASE ChannelDiscard
  BY <1>2 DEF ChannelDiscard, Channel!Discard, ChannelStep, Channel!Next
<1>3. CASE ChannelEnd
  BY <1>3 DEF ChannelEnd, Channel!End, ChannelStep, Channel!Next
<1>4. CASE ChannelServe
  <2>1. Channel!Serve
    BY <1>4, SameRequests DEF ChannelServe, Channel!Serve
  <2> QED BY <2>1 DEF ChannelStep, Channel!Next
<1>5. CASE ChannelDeliver
  BY <1>5 DEF ChannelDeliver, Channel!Deliver, ChannelStep, Channel!Next
<1>6. CASE ChannelEmit
  <2>1. Channel!Emit
    BY <1>6, SameRequests DEF ChannelEmit, Channel!Emit
  <2> QED BY <2>1 DEF ChannelStep, Channel!Next
<1>7. CASE ChannelQuiet
  BY <1>7 DEF ChannelQuiet, ChannelStep, Channel!channel
<1>8. (\E req \in Requests : ChannelAsk(req)) => ChannelStep
  BY <1>1 DEF ChannelStep, Channel!Next
<1> QED BY <1>2, <1>3, <1>4, <1>5, <1>6, <1>7, <1>8

(* A step that neither builds nor delivers.                                *)
LEMMA TransitKept ==
  UNCHANGED <<built, delivered>> => UNCHANGED <<InTransit, delivered>>
BY DEF InTransit

LEMMA EmissionChannel ==
  ASSUME BasicInv, NextRequest \/ sendNextData
  PROVE  ChannelStep
<1>1. UNCHANGED <<InTransit, delivered>>
  BY TransitKept DEF NextRequest, sendNextData
<1>2. CASE /\ tx_req_ptr = NoReq \/ ~someDataToSend(tx_req_ptr)
           /\ _txPopNextRequest /\ UNCHANGED link
  <2>1. ASSUME tx_fifo # <<>> PROVE Head(tx_fifo) # NoReq
    <3>1. Head(tx_fifo) \in Requests
      BY <2>1 DEF BasicInv, TxOK
    <3> QED BY <3>1, FreshRequest
  <2>2. Serving = <<>> \/ ~someDataToSend(Serving[1])
    BY <1>2 DEF Serving
  <2>3. ChannelServe
    BY <1>1, <1>2, <2>1, <2>2 DEF ChannelServe, _txPopNextRequest, Serving, Ended
  <2> QED BY <2>3, ChannelSteps
<1>3. CASE UNCHANGED <<tx_req_ptr, tx_fifo>> /\ link' = link
  BY <1>1, <1>3, ChannelSteps DEF ChannelQuiet, Serving, Ended
<1>4. CASE UNCHANGED <<tx_req_ptr, tx_fifo>> /\ link' = IF link = "open" THEN "fin" ELSE link
  <2>1. ChannelEnd
    BY <1>1, <1>4 DEF ChannelEnd, Serving, Ended
  <2> QED BY <2>1, ChannelSteps
<1> QED BY <1>2, <1>3, <1>4 DEF NextRequest, sendNextData, Closed

LEMMA TailOf ==
  ASSUME NEW S, NEW s \in Seq(S), s # <<>>
  PROVE  Tail(s) = [i \in 1 .. Len(s) - 1 |-> s[i + 1]]
<1> DEFINE rest == Tail(s)
<1>1. rest \in Seq(S) /\ Len(rest) = Len(s) - 1 /\ \A i \in 1 .. Len(rest) : rest[i] = s[i + 1]
  BY HeadTailProperties
<1> HIDE DEF rest
<1>2. rest = [i \in 1 .. Len(rest) |-> rest[i]]
  BY <1>1, LenProperties
<1>3. rest = [i \in 1 .. Len(s) - 1 |-> s[i + 1]]
  BY <1>1, <1>2
<1> QED BY <1>3 DEF rest

LEMMA TransitTyped ==
  ASSUME BasicInv, StreamInv
  PROVE  /\ InTransit \in Seq(MsgBody) /\ Len(InTransit) = Last - Done
         /\ \A i \in 1 .. Last - Done : InTransit[i] = built[Done + i].body
<1>1. /\ built \in Seq([body : MsgBody, length : Nat]) /\ Last \in Nat /\ Done \in Nat
      /\ Done <= Last /\ Done = Len(delivered) /\ Last = Len(built)
  BY Sizes DEF BasicInv, TypeOK, StreamInv, Fifo, Done, Last
<1>2. \A i \in 1 .. Last - Done : built[Done + i].body \in MsgBody
  <2> SUFFICES ASSUME NEW i \in 1 .. Last - Done PROVE built[Done + i].body \in MsgBody
    OBVIOUS
  <2>1. Done + i \in 1 .. Len(built) BY <1>1
  <2>2. built[Done + i] \in [body : MsgBody, length : Nat] BY <1>1, <2>1, ElementOfSeq
  <2> QED BY <2>2
<1> QED BY <1>1, <1>2 DEF InTransit

(* The message that is built is the last in transit.                       *)
LEMMA BuildChannel ==
  ASSUME BasicInv, StreamInv, BuildMessage
  PROVE  ChannelStep
<1> DEFINE next == buildNextL2Msg(tx_req_ptr)
           msg == [body |-> next.body, length |-> next.length + HeaderSize]
<1>1. /\ built' = Append(built, msg) /\ tx_req_ptr' = next.req
      /\ tx_req_ptr # NoReq /\ someDataToSend(tx_req_ptr)
      /\ UNCHANGED <<tx_fifo, delivered, link>>
  BY DEF BuildMessage, InLoop
<1>2. /\ next.req # NoReq /\ msg \in [body : MsgBody, length : Nat] /\ next.body \in MsgBody
  <2>1. Begun(tx_req_ptr)
    BY <1>1 DEF BasicInv, TxOK
  <2> QED BY <1>1, <2>1, NextMessage, StreamAssumption
          DEF Begun, ClientServerRequest, NoReq
<1>3. msg.body = next.body
  OBVIOUS
<1> HIDE DEF next, msg
<1>4. /\ built \in Seq([body : MsgBody, length : Nat]) /\ Last \in Nat /\ Done \in Nat
      /\ Done <= Last /\ Done = Len(delivered) /\ Last = Len(built)
  BY Sizes DEF BasicInv, TypeOK, StreamInv, Fifo, Done, Last
<1>5. /\ Len(built') = Last + 1 /\ built'[Last + 1] = msg
      /\ \A i \in 1 .. Last : built'[i] = built[i]
  BY <1>1, <1>2, <1>4, AppendProperties
<1>6. InTransit \in Seq(MsgBody) /\ Len(InTransit) = Last - Done
  BY TransitTyped
<1>7. InTransit' = Append(InTransit, next.body)
  <2>1. InTransit' = [i \in 1 .. (Last - Done) + 1 |-> built'[Done + i].body]
    <3>1. Len(delivered') = Done /\ Len(built') - Done = (Last - Done) + 1
      BY <1>1, <1>4, <1>5
    <3> QED BY <3>1 DEF InTransit
  <2>2. Append(InTransit, next.body) =
          [i \in 1 .. (Last - Done) + 1 |-> IF i = (Last - Done) + 1 THEN next.body ELSE InTransit[i]]
    BY <1>2, <1>4, <1>6
  <2>3. ASSUME NEW i \in 1 .. (Last - Done) + 1
        PROVE  built'[Done + i].body = IF i = (Last - Done) + 1 THEN next.body ELSE InTransit[i]
    <3>1. CASE i = (Last - Done) + 1
      <4>1. Done + i = Last + 1 BY <1>4, <3>1
      <4> QED BY <1>3, <1>5, <3>1, <4>1
    <3>2. CASE i # (Last - Done) + 1
      <4>1. i \in 1 .. Last - Done /\ Done + i \in 1 .. Last BY <1>4, <3>2
      <4>2. InTransit[i] = built[Done + i].body BY <4>1, TransitTyped
      <4> QED BY <1>5, <3>2, <4>1, <4>2
    <3> QED BY <3>1, <3>2
  <2> QED BY <2>1, <2>2, <2>3
<1>8. ChannelEmit
  <2>1. Serving = <<tx_req_ptr>> /\ Serving' = <<next.req>> /\ Serving[1] = tx_req_ptr
    BY <1>1, <1>2 DEF Serving
  <2> QED BY <1>1, <1>7, <2>1 DEF ChannelEmit, Ended, next
<1> QED BY <1>8, ChannelSteps

(* The message that is delivered is the first in transit.                  *)
LEMMA DeliverChannel ==
  ASSUME BasicInv, StreamInv, BasicInv', StreamInv', MessageReceived
  PROVE  ChannelStep
<1>1. UNCHANGED <<tx, link, built>>
  BY DEF MessageReceived
<1>2. CASE UNCHANGED delivered
  BY <1>1, <1>2, TransitKept, ChannelSteps DEF ChannelQuiet, Serving, Ended, tx
<1>3. CASE \E body : delivered' = Append(delivered, body)
  <2>1. PICK body : delivered' = Append(delivered, body)
    BY <1>3
  <2>2. /\ delivered \in Seq(MsgBody \cup {Garbage}) /\ delivered' \in Seq(MsgBody \cup {Garbage})
        /\ Last \in Nat /\ Done \in Nat /\ Done = Len(delivered) /\ Last = Len(built)
    BY Sizes DEF BasicInv, TypeOK, Done, Last
  <2>3. Len(delivered') = Done + 1 /\ delivered'[Done + 1] = body
    BY <2>1, <2>2
  <2>4. Done + 1 <= Last /\ body = built[Done + 1].body
    BY <1>1, <2>2, <2>3 DEF StreamInv, Fifo
  <2>5. /\ InTransit \in Seq(MsgBody) /\ Len(InTransit) = Last - Done
        /\ \A i \in 1 .. Last - Done : InTransit[i] = built[Done + i].body
    BY TransitTyped
  <2>6. InTransit' = [i \in 1 .. Last - (Done + 1) |-> built[(Done + 1) + i].body]
    BY <1>1, <2>2, <2>3 DEF InTransit
  <2>7. InTransit # <<>> /\ Head(InTransit) = body /\ InTransit' = Tail(InTransit)
    <3>1. Last - Done \in Nat /\ Last - Done >= 1 /\ (Last - Done) - 1 = Last - (Done + 1)
      BY <2>2, <2>4
    <3>2. InTransit # <<>> /\ Head(InTransit) = InTransit[1]
      BY <2>5, <3>1
    <3>3. InTransit[1] = body
      BY <2>4, <2>5, <3>1
    <3>4. Tail(InTransit) = [i \in 1 .. (Last - Done) - 1 |-> InTransit[i + 1]]
      <4>1. InTransit \in Seq(MsgBody) /\ InTransit # <<>> /\ Len(InTransit) - 1 = (Last - Done) - 1
        BY <2>5, <3>2
      <4>2. Tail(InTransit) = [i \in 1 .. Len(InTransit) - 1 |-> InTransit[i + 1]]
        BY <4>1, TailOf
      <4> QED BY <4>1, <4>2
    <3>5. ASSUME NEW i \in 1 .. Last - (Done + 1)
          PROVE  InTransit[i + 1] = built[(Done + 1) + i].body
      <4>1. i + 1 \in 1 .. Last - Done /\ Done + (i + 1) = (Done + 1) + i BY <2>2
      <4> QED BY <2>5, <4>1
    <3>6. Tail(InTransit) = InTransit'
      BY <2>6, <3>1, <3>4, <3>5
    <3> QED BY <3>2, <3>3, <3>6
  <2>8. ChannelDeliver
    BY <1>1, <2>1, <2>7 DEF ChannelDeliver, Serving, Ended, tx
  <2> QED BY <2>8, ChannelSteps
<1> QED BY <1>2, <1>3 DEF MessageReceived

LEMMA QuietChannel ==
  ASSUME BasicInv,
         \/ EndOfSendLoop \/ ResumeMessage \/ SendHeader \/ SendHeaderRefused
         \/ SendBody \/ SendBodyRefused \/ Arrive
         \/ recvNextData \/ _recvBeginNewMsg \/ ReceiveRest \/ NothingToReceive
         \/ ReceiveDisconnected \/ UNCHANGED vars
  PROVE  ChannelStep
<1>1. UNCHANGED <<tx_fifo, tx_req_ptr, link, built, delivered>>
  BY DEF EndOfSendLoop, ResumeMessage, SendHeader, SendHeaderRefused, SendBody, SendBodyRefused,
     Arrive, recvNextData, _recvBeginNewMsg, EndOfRecvLoop, ReceiveRest, NothingToReceive,
     ReceiveDisconnected, vars, tx
<1>2. ChannelQuiet
  BY <1>1, TransitKept DEF ChannelQuiet, Serving, Ended
<1> QED BY <1>2, ChannelSteps

(* What the upper level asks, and the ends of the connection.              *)
LEMMA OutsideChannel ==
  ASSUME BasicInv,
         (\E req \in Requests : sendMsg(req)) \/ discardDataBuffers \/ stop \/ Killed
         \/ SendDisconnected \/ Reset
  PROVE  ChannelStep
<1>1. UNCHANGED <<built, delivered, tx_req_ptr>>
  BY DEF sendMsg, discardDataBuffers, stop, Killed, SendDisconnected, TxDropped, Reset, tx
<1>2. UNCHANGED <<InTransit, delivered, Serving>>
  BY <1>1, TransitKept DEF Serving
<1>3. ASSUME NEW req \in Requests, sendMsg(req) PROVE ChannelAsk(req)
  BY <1>2, <1>3 DEF sendMsg, ChannelAsk, Ended
<1>4. CASE discardDataBuffers
  BY <1>2, <1>4, ChannelSteps DEF discardDataBuffers, ChannelDiscard, Ended
<1>5. CASE stop \/ Killed \/ SendDisconnected \/ Reset
  BY <1>2, <1>5, ChannelSteps DEF stop, Killed, Closed, SendDisconnected, TxDropped, Reset, tx, ChannelEnd, Ended
<1>6. (\E req \in Requests : sendMsg(req)) => ChannelStep
  BY <1>3, ChannelSteps
<1> QED BY <1>4, <1>5, <1>6

(* The stream of bytes implements a channel of whole messages, for any     *)
(* requests, sizes and cuts on arrival, as long as the only sends that the *)
(* kernel refuses or cuts are those after which _sendLoop does not restart *)
(* a message in its middle: this is what ServerRouter and ClientConnection *)
(* take for granted of their sockets.                                      *)
THEOREM StreamImplementsChannel ==
  ASSUME ShortSends \subseteq Harmless PROVE Spec => ChannelSpec
<1>1. Init => Channel!Init
  BY DEF Init, Channel!Init
<1>2. IInv /\ IInv' /\ [Next]_vars => [Channel!Next]_(Channel!channel)
  <2> SUFFICES ASSUME IInv, IInv', [Next]_vars PROVE ChannelStep
    BY DEF ChannelStep
  <2>1. BasicInv /\ BasicInv' /\ StreamInv /\ StreamInv'
    BY DEF IInv, Undamaged
  <2> QED BY <2>1, QuietChannel, OutsideChannel, EmissionChannel, BuildChannel, DeliverChannel
          DEF Next, Emission, Reception
<1> QED BY <1>1, <1>2, Invariance, PTL DEF Spec, ChannelSpec, Channel!Spec
=============================================================================
