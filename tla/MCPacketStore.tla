--------------------------- MODULE MCPacketStore ----------------------------
(* Three ids on either side, one of them zero: the queues of two ordinary  *)
(* streams and of one with a zero live in the store together.              *)
EXTENDS PacketStore

MCIds == {0, 1, 2}
MCPackets == {[cmd |-> "WRTE", data |-> 1], [cmd |-> "WRTE", data |-> 2],
              [cmd |-> "CLSE", data |-> 0]}
=============================================================================
