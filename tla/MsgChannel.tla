----------------------------- MODULE MsgChannel -----------------------------
(***************************************************************************)
(* What a pair of connected MsgSockets promises in one direction, and what *)
(* ServerRouter and ClientConnection take for granted: whole messages, in  *)
(* the order they were built, each once, until the connection ends.  A     *)
(* request is served in its turn; emptying the queues loses the requests   *)
(* that wait and no part of a message.                                     *)
(***************************************************************************)
EXTENDS ClientServerRequest, Sequences

CONSTANT Requests    \* what the sender asks for

VARIABLES
  queue,     \* requests waiting
  req,       \* the request being served, <<>> or <<request>>
  transit,   \* messages sent and not yet received
  delivered, \* messages given to the receiver, in order
  ended      \* the connection or one of the processes is gone

channel == <<queue, req, transit, delivered, ended>>

Init == queue = <<>> /\ req = <<>> /\ transit = <<>> /\ delivered = <<>> /\ ended = FALSE

Ask(r) ==
  /\ queue' = Append(queue, r)
  /\ UNCHANGED <<req, transit, delivered, ended>>

Serve ==
  /\ req = <<>> \/ ~someDataToSend(req[1])
  /\ IF queue = <<>> THEN req' = <<>> /\ UNCHANGED queue
                     ELSE req' = <<Head(queue)>> /\ queue' = Tail(queue)
  /\ UNCHANGED <<transit, delivered, ended>>

Emit ==
  /\ req # <<>> /\ someDataToSend(req[1])
  /\ LET next == buildNextL2Msg(req[1])
     IN req' = <<next.req>> /\ transit' = Append(transit, next.body)
  /\ UNCHANGED <<queue, delivered, ended>>

Deliver ==
  /\ transit # <<>>
  /\ delivered' = Append(delivered, Head(transit)) /\ transit' = Tail(transit)
  /\ UNCHANGED <<queue, req, ended>>

Discard ==
  /\ queue' = <<>>
  /\ UNCHANGED <<req, transit, delivered, ended>>

(* Either end may go; what was on its way may still arrive.                *)
End ==
  /\ ended' = TRUE
  /\ queue' \in {queue, <<>>}
  /\ UNCHANGED <<req, transit, delivered>>

Next == (\E r \in Requests : Ask(r)) \/ Serve \/ Emit \/ Deliver \/ Discard \/ End

Spec == Init /\ [][Next]_channel
=============================================================================
