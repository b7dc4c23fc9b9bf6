---------------------------- MODULE PacketReader ----------------------------
(***************************************************************************)
(* How the IO manager takes packets off a byte stream:                     *)
(* _read_packet_from_device and _read_bytes_from_device (adb_device.py) on *)
(* bulk_read of a socket transport (tcp_transport.py).  The caller holds   *)
(* the transport lock, so there is one reader.                             *)
(*                                                                         *)
(* bulk_read returns any part of what was asked for, nothing at all once   *)
(* the device has closed the connection, or raises when no byte came in    *)
(* time.  An exception throws away the bytes read so far, and the next     *)
(* call of the reader goes on where the stream then is.                    *)
(*                                                                         *)
(* A packet is cut into units: HeaderSize for its header, the first of     *)
(* which has the command, and then those of its data.  The unit <<i, j>>   *)
(* is the j-th of the i-th packet of the device.                           *)
(***************************************************************************)
EXTENDS Naturals, Sequences

CONSTANTS
  HeaderSize,   \* units in a header: constants.MESSAGE_SIZE
  Sizes,        \* sizes of the packets' data
  MaxPackets,   \* bound: packets sent by the device
  MaxReads      \* bound: calls of the reader

ASSUME ReaderAssumption ==
  /\ HeaderSize \in Nat \ {0}
  /\ Sizes \subseteq Nat
  /\ MaxPackets \in Nat /\ MaxReads \in Nat

VARIABLES
  lookalikes, \* whether data may look like the header of a packet
  sent,      \* the packets sent by the device: size of the data, right checksum
  wire,      \* the units not yet read
  eof,       \* the device has closed the connection
  step,      \* "idle", or inside _read_bytes_from_device: "read", "check"
  part,      \* what is being read: "header" or "data"
  header,    \* once it is read, the header's units
  buf,       \* data of _read_bytes_from_device
  length,    \* length: units still to be read
  expired,   \* read_timeout_s is over
  reads,     \* calls so far
  returned,  \* ghost: the packets returned
  rejected,  \* ghost: how many raised InvalidChecksumError
  broken     \* ghost: an exception threw away a part of a packet

stream == <<lookalikes, sent, eof>>
ghosts == <<returned, rejected, broken>>
vars == <<lookalikes, sent, wire, eof, step, part, header, buf, length, expired, reads,
          returned, rejected, broken>>

-----------------------------------------------------------------------------
Unit == (1 .. MaxPackets) \X Nat

Units(i) == [j \in 1 .. HeaderSize + sent[i].size |-> <<i, j>>]

IsHeader(u) == u[2] = 1

IsData(u) == u[2] > HeaderSize

TypeOK ==
  /\ lookalikes \in BOOLEAN
  /\ sent \in Seq([size : Sizes, sound : BOOLEAN])
  /\ wire \in Seq(Unit) /\ eof \in BOOLEAN
  /\ step \in {"idle", "read", "check"}
  /\ part \in {"header", "data"}
  /\ header \in Seq(Unit) /\ buf \in Seq(Unit)
  /\ length \in Nat
  /\ step # "idle" /\ part = "header" => Len(buf) + length = HeaderSize
  /\ expired \in BOOLEAN
  /\ reads \in 0 .. MaxReads
  /\ returned \in Seq(Seq(Unit))
  /\ rejected \in Nat /\ broken \in BOOLEAN

Init ==
  /\ lookalikes \in BOOLEAN
  /\ sent = <<>> /\ wire = <<>> /\ eof = FALSE
  /\ step = "idle" /\ part = "header" /\ header = <<>> /\ buf = <<>> /\ length = 0
  /\ expired = FALSE /\ reads = 0
  /\ returned = <<>> /\ rejected = 0 /\ broken = FALSE

-----------------------------------------------------------------------------
(* The device (adbd).                                                      *)

DevSend ==
  /\ ~eof /\ Len(sent) < MaxPackets
  /\ \E size \in Sizes, sound \in BOOLEAN :
       /\ size = 0 => sound
       /\ sent' = Append(sent, [size |-> size, sound |-> sound])
       /\ wire' = wire \o [j \in 1 .. HeaderSize + size |-> <<Len(sent) + 1, j>>]
  /\ UNCHANGED <<lookalikes, eof, step, part, header, buf, length, expired, reads, ghosts>>

DevClose ==
  /\ ~eof /\ eof' = TRUE
  /\ UNCHANGED <<lookalikes, sent, wire, step, part, header, buf, length, expired, reads, ghosts>>

-----------------------------------------------------------------------------
(* The reader.                                                             *)

(* _read_bytes_from_device begins, with a timer of its own.                *)
ReadBytes(what, n, units) ==
  /\ step' = "read" /\ part' = what
  /\ header' = units
  /\ buf' = <<>> /\ length' = n
  /\ expired' = FALSE

Begin ==
  /\ step = "idle" /\ reads < MaxReads
  /\ reads' = reads + 1
  /\ ReadBytes("header", HeaderSize, <<>>)
  /\ UNCHANGED <<stream, wire, ghosts>>

(* bulk_read(length) returns some of the bytes, at least one.              *)
Receive(most) ==
  /\ step = "read" /\ length > 0 /\ wire # <<>>
  /\ \E n \in 1 .. most :
       /\ n <= Len(wire)
       /\ buf' = buf \o SubSeq(wire, 1, n)
       /\ wire' = SubSeq(wire, n + 1, Len(wire))
       /\ length' = IF n < length THEN length - n ELSE 0
  /\ step' = IF length' = 0 THEN "read" ELSE "check"
  /\ UNCHANGED <<stream, part, header, expired, reads, ghosts>>

(* Asking for a whole header again after a part of it.                     *)
ReceiveTooMuch == Receive(HeaderSize)

BulkRead == Receive(length)

(* The device has closed: bulk_read returns b'' at once.                   *)
BulkReadNothing ==
  /\ step = "read" /\ length > 0 /\ wire = <<>> /\ eof
  /\ step' = "check"
  /\ UNCHANGED <<stream, wire, part, header, buf, length, expired, reads, ghosts>>

(* The reader raises: what it has in hand is lost.                         *)
Raise ==
  /\ step' = "idle" /\ part' = "header" /\ header' = <<>> /\ buf' = <<>> /\ length' = 0
  /\ UNCHANGED <<stream, wire, expired, reads, returned>>

InHand == header \o buf

(* bulk_read raises: no byte came within transport_timeout_s.  Bytes on    *)
(* the wire may be late.                                                   *)
BulkReadTimeout ==
  /\ step = "read" /\ length > 0 /\ ~(wire = <<>> /\ eof)
  /\ Raise
  /\ broken' = (broken \/ InHand # <<>>)
  /\ UNCHANGED rejected

(* The check after a part has arrived.                                     *)
NotExpired ==
  /\ step = "check" /\ ~expired
  /\ step' = "read"
  /\ UNCHANGED <<stream, wire, part, header, buf, length, expired, reads, ghosts>>

KeepTrying ==
  /\ step = "check"
  /\ step' = "read"
  /\ UNCHANGED <<stream, wire, part, header, buf, length, expired, reads, ghosts>>

CheckTime ==
  \/ NotExpired
  \/ /\ step = "check" /\ expired
     /\ Raise
     /\ broken' = (broken \/ InHand # <<>>)
     /\ UNCHANGED rejected

Return(units) ==
  /\ returned' = Append(returned, units)
  /\ step' = "idle" /\ part' = "header" /\ header' = <<>> /\ buf' = <<>> /\ length' = 0
  /\ UNCHANGED <<stream, wire, expired, reads, rejected, broken>>

Complete(what) == step = "read" /\ part = what /\ length = 0

(* The header is complete: an unknown command raises, a packet without     *)
(* data is returned, else the data are read.  The data of another packet   *)
(* may look like a header with any length.                                 *)
NeverUnknown(u) == FALSE

UnknownCommand(u) == ~IsHeader(u) /\ ~(lookalikes /\ IsData(u))

DataSize(u) == IF IsHeader(u) THEN {sent[u[1]].size} ELSE Sizes

ParseHeader ==
  /\ Complete("header")
  /\ \/ /\ UnknownCommand(buf[1])
        /\ Raise /\ broken' = TRUE /\ UNCHANGED rejected
     \/ /\ ~UnknownCommand(buf[1])
        /\ 0 \in DataSize(buf[1])
        /\ Return(buf)
     \/ /\ ~UnknownCommand(buf[1])
        /\ \E n \in DataSize(buf[1]) \ {0} : ReadBytes("data", n, buf)
        /\ UNCHANGED <<stream, wire, reads, ghosts>>

(* The data are complete: their checksum is that of the header, or not.    *)
ChecksumFits(u, fits) == IsHeader(u) => fits = sent[u[1]].sound

ParseData ==
  /\ Complete("data")
  /\ \E fits \in BOOLEAN :
       /\ ChecksumFits(header[1], fits)
       /\ \/ fits /\ Return(InHand)
          \/ ~fits /\ Raise /\ rejected' = rejected + 1 /\ UNCHANGED broken

(* time.time() passes start + read_timeout_s.                              *)
Expire ==
  /\ step # "idle" /\ ~expired /\ expired' = TRUE
  /\ UNCHANGED <<stream, wire, step, part, header, buf, length, reads, ghosts>>

Reader ==
  \/ BulkRead \/ BulkReadNothing \/ BulkReadTimeout \/ CheckTime
  \/ ParseHeader \/ ParseData

Resting == step = "idle" /\ UNCHANGED vars

Next == DevSend \/ DevClose \/ Begin \/ Reader \/ Expire \/ Resting

Spec == Init /\ [][Next]_vars

(* A reader that can go on does, and time passes.                          *)
FairSpec == Spec /\ WF_vars(Reader) /\ WF_vars(Expire)

-----------------------------------------------------------------------------
(* Properties.                                                             *)

(* The unit that the device sends after u.                                 *)
Follower(u) == IF u[2] < Len(Units(u[1])) THEN <<u[1], u[2] + 1>> ELSE <<u[1] + 1, 1>>

(* The units w are packets i, i + 1, ... up to the last one sent, whole.   *)
ArePackets(w, i) ==
  /\ w = <<>> => i = Len(sent) + 1
  /\ w # <<>> => w[1] = <<i, 1>> /\ Follower(w[Len(w)]) = <<Len(sent) + 1, 1>>
  /\ \A k \in 1 .. Len(w) - 1 : w[k + 1] = Follower(w[k])

InOrder == \A i, j \in DOMAIN returned : i < j => returned[i][1][1] < returned[j][1][1]

(* Until an exception throws a part of a packet away, the reader is in     *)
(* step with the device: what it holds and what is on the wire are the     *)
(* packets not yet handed out, whole, and those handed out are the first   *)
(* ones in order, without those it refused for their checksum.  A timeout  *)
(* at the start of a packet, a refused checksum and any cutting of the     *)
(* stream into pieces leave it so.                                         *)
InStep ==
  /\ TypeOK
  /\ ~broken =>
       LET taken == Len(returned) + rejected
       IN  /\ ArePackets(InHand \o wire, taken + 1)
           /\ {returned[i] : i \in DOMAIN returned}
                = {Units(p) : p \in {q \in 1 .. taken : sent[q].sound}}
           /\ InOrder

(* As long as no data look like a header, a packet that is handed out is   *)
(* one the device sent, whole and with its own data, later than those      *)
(* before it, whatever timeouts threw away: the unknown commands stop a    *)
(* reader that is out of step.                                             *)
OwnDataOnly ==
  ~lookalikes =>
    /\ \A i \in DOMAIN returned : returned[i] = Units(returned[i][1][1])
    /\ InOrder

(* Every call returns or raises, on a connection closed by the device too, *)
(* where bulk_read never waits.                                            *)
ReadEnds == step # "idle" ~> step = "idle"
=============================================================================
