------------------------- MODULE ClientServerRequest -------------------------
(***************************************************************************)
(* ClientServerRequest, ClientServerMsgRequest and                         *)
(* ClientServerFileTransferRequest: what the upper level asks a MsgSocket  *)
(* to send, and how it is cut into L1 messages.  Sizes are in abstract     *)
(* units; the contents of a message are its identifier and the place in    *)
(* the file its payload comes from.                                        *)
(***************************************************************************)
EXTENDS Integers

CONSTANTS
  FirstPayload,   \* sizeof(FileTransferReq::l2_payload)
  BlockPayload,   \* sizeof(DataTransferBlk::l2_payload)
  L2Header,       \* sizeof(FileTransferReqHeader), sizeof(DataTransferHeader)
  StdioBuffer     \* size of the buffer of a FILE

ASSUME SizesAssumption ==
  /\ FirstPayload \in Nat \ {0} /\ BlockPayload \in Nat \ {0}
  /\ L2Header \in Nat \ {0}
  /\ StdioBuffer \in Nat

ClientServerRequest ==
  [kind : {"msg", "file"}, l2_payload_length : Nat, nb_payload_bytes_sent : Nat, offset : Nat]

ClientServerMsgRequest(nb_bytes) ==
  [kind |-> "msg", l2_payload_length |-> nb_bytes, nb_payload_bytes_sent |-> 0, offset |-> 0]

(* The constructor calls file_size(): fseek to the end and back.  A file   *)
(* smaller than the buffer of stdio is then wholly buffered, and the       *)
(* offset of its descriptor, which file_read_data reads from, stays at the *)
(* end.                                                                    *)
ClientServerFileTransferRequest(size) ==
  [kind |-> "file", l2_payload_length |-> size, nb_payload_bytes_sent |-> 0,
   offset |-> IF size < StdioBuffer THEN size ELSE 0]

someDataToSend(req) == req.l2_payload_length > req.nb_payload_bytes_sent

(* A message body: its identifier; the place of its payload in the file,   *)
(* as it is announced (byte_position) and as it was read (the offset of    *)
(* the descriptor); the number of bytes of payload; the size of the whole  *)
(* request, which the header of a first block tells (file_size).           *)
MsgBody == [id : {"l1_msg", "FILE_TRANSFER_REQ", "TRANSFER_DATA_BLK"},
            at : Nat, read : Nat, nb : Nat, size : Nat]

(* read() gives what is left of the file, or what fits.                    *)
file_read_data(req, nb_bytes) ==
  LET left == req.l2_payload_length - req.offset
  IN IF left < nb_bytes THEN left ELSE nb_bytes

BodyOf(req, id, nb) ==
  [id |-> id, at |-> req.nb_payload_bytes_sent, read |-> req.offset, nb |-> nb,
   size |-> req.l2_payload_length]

NextBlockM1(req, id, room) ==       \* mutant: "= nb" in both branches, as in the first block
  LET nb == file_read_data(req, room)
  IN [req |-> [req EXCEPT !.nb_payload_bytes_sent = nb, !.offset = @ + nb],
      body |-> BodyOf(req, id, nb),
      length |-> nb + L2Header]

NextBlock(req, id, room) ==
  LET nb == file_read_data(req, room)
  IN [req |-> [req EXCEPT !.nb_payload_bytes_sent = @ + nb, !.offset = @ + nb],
      body |-> BodyOf(req, id, nb),
      length |-> nb + L2Header]

(* The next message of a request that has data to send.                    *)
buildNextL2Msg(req) ==
  CASE req.kind = "msg" ->
         [req |-> [req EXCEPT !.nb_payload_bytes_sent = @ + req.l2_payload_length],
          body |-> BodyOf(req, "l1_msg", req.l2_payload_length),
          length |-> req.l2_payload_length]
    [] req.kind = "file" /\ req.nb_payload_bytes_sent = 0 ->
         NextBlock(req, "FILE_TRANSFER_REQ", FirstPayload)
    [] req.kind = "file" /\ req.nb_payload_bytes_sent # 0 ->
         NextBlock(req, "TRANSFER_DATA_BLK", BlockPayload)
=============================================================================
