---------------------------- MODULE PacketWriter ----------------------------
(***************************************************************************)
(* How a message gets onto the wire: _AdbIOManager._send, which calls      *)
(* bulk_write for the header and then for the data (adb_device.py), on the *)
(* socket of tcp_transport.py.  The caller holds the transport lock, so    *)
(* there is one writer.                                                    *)
(*                                                                         *)
(* A socket takes as much as its buffer has room for and send returns how  *)
(* much that was, which _send does not look at.  (A stream writer takes    *)
(* everything: module AdbTasks.)                                           *)
(***************************************************************************)
EXTENDS Naturals, Sequences

CONSTANTS
  Limit,        \* units the buffer takes
  HeaderSize,   \* units in a header
  Sizes,        \* sizes of the messages' data
  MaxSends      \* bound: messages sent

VARIABLES
  step,      \* "idle", "header" or "data"
  messages,  \* sizes of the messages' data so far, the current one last
  buffered,  \* units the peer has not yet read out of the buffer
  out,       \* units the buffer has accepted, <<i, j>> for unit j of message i
  result     \* ghost: result[i]: how the send of message i ended

vars == <<step, messages, buffered, out, result>>

-----------------------------------------------------------------------------
Current == Len(messages)

Header(i) == [j \in 1 .. HeaderSize |-> <<i, j>>]

Data(i) == [j \in 1 .. messages[i] |-> <<i, HeaderSize + j>>]

ToWrite == IF step = "header" THEN Header(Current) ELSE Data(Current)

Init ==
  /\ step = "idle"
  /\ messages = <<>> /\ result = <<>>
  /\ buffered = 0 /\ out = <<>>

(* send: the message is packed, the header is written first.               *)
Begin ==
  /\ step = "idle" /\ Len(messages) < MaxSends
  /\ \E n \in Sizes : messages' = Append(messages, n)
  /\ step' = "header"
  /\ UNCHANGED <<buffered, out, result>>

End(how) ==
  /\ step' = "idle"
  /\ result' = Append(result, how)

(* What follows a bulk_write that returned: the data, if there are any.    *)
Written ==
  \/ /\ step = "header" /\ messages[Current] > 0
     /\ step' = "data"
     /\ UNCHANGED result
  \/ /\ step = "header" => messages[Current] = 0
     /\ End("sent")

(* TcpTransport.bulk_write: the socket is writeable and takes what it has  *)
(* room for.                                                               *)
Room == Limit - buffered

Taken == IF Len(ToWrite) <= Room THEN Len(ToWrite) ELSE Room

SocketSend ==
  /\ step \in {"header", "data"} /\ Room > 0
  /\ out' = out \o SubSeq(ToWrite, 1, Taken)
  /\ buffered' = buffered + Taken
  /\ Written
  /\ UNCHANGED messages

(* It is not writeable within transport_timeout_s.                         *)
SocketTimeout ==
  /\ step \in {"header", "data"} /\ buffered = Limit
  /\ End("TcpTimeoutException")
  /\ UNCHANGED <<messages, buffered, out>>

(* The network takes units out of the buffer.                              *)
Deliver ==
  /\ buffered > 0 /\ buffered' = buffered - 1
  /\ UNCHANGED <<step, messages, out, result>>

Resting == step = "idle" /\ UNCHANGED vars

Next == Begin \/ SocketSend \/ SocketTimeout \/ Deliver \/ Resting

Spec == Init /\ [][Next]_vars

-----------------------------------------------------------------------------
(* Properties.                                                             *)

(* "1. Send the message header", "2. Send the message data"                *)
(* (adb_device.py:565-566): after a send that did not raise the whole      *)
(* message is on the wire, right after what was there before.              *)
SendComplete ==
  \A i \in DOMAIN result :
    result[i] = "sent" =>
      SelectSeq(out, LAMBDA u : u[1] = i) = Header(i) \o Data(i)
=============================================================================
