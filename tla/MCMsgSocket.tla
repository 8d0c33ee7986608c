----------------------------- MODULE MCMsgSocket -----------------------------
(* Small instances of MsgSocket.                                           *)
EXTENDS MsgSocket

(* Messages with a body of 1 and of 5 units, a part of which may be as     *)
(* long as EWOULDBLOCK, and a file in three blocks.                        *)
ThreeRequests == {ClientServerMsgRequest(1), ClientServerMsgRequest(5),
                  ClientServerFileTransferRequest(5)}
OneMessage == {ClientServerMsgRequest(2)}

(* All a kernel may do to a message of its own, the cut of a header aside; *)
(* of a transfer, the refusal of a header.                                 *)
Refusals == {<<"msg", "header_refused">>, <<"msg", "body_refused">>, <<"msg", "body_cut">>,
             <<"file", "header_refused">>}
HeaderCut == {<<"msg", "header_cut">>}
AnyLength == 0 .. 6
=============================================================================
