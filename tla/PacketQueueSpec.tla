-------------------------- MODULE PacketQueueSpec ---------------------------
(***************************************************************************)
(* What a packet store promises: independent FIFO queues, one per stream   *)
(* key, of which a CLSE is always the last packet anyone gets.             *)
(***************************************************************************)
EXTENDS PacketQueues

CONSTANTS Ids,      \* stream ids, 0 among them
          Packets   \* packets as [cmd, data] records

VARIABLES store,    \* the queues by key
          result    \* what the last step handed out, as <<key, packet>>; or <<>>

aVars == <<store, result>>

Init == store = EmptyStore /\ result = <<>>

PutPacket(k, p) ==
  /\ result' = <<>>
  /\ store' = Put(store, k, p.cmd, p.data)

(* Any queue that fits the search may serve it.                            *)
GetPacket(arg0, arg1, zeros) ==
  \E k \in IF zeros THEN FindAllowZeros(store, arg0, arg1)
                    ELSE Find(store, arg0, arg1) :
    /\ result' = <<k, PacketAt(store, k)>>
    /\ store' = AfterGet(store, k)

ClearKey(k) == result' = <<>> /\ store' = Clear(store, k)

ClearAll == result' = <<>> /\ store' = EmptyStore

Next ==
  \/ \E k \in Ids \X Ids : (\E p \in Packets : PutPacket(k, p)) \/ ClearKey(k)
  \/ \E arg0, arg1 \in Ids \cup {None}, zeros \in BOOLEAN : GetPacket(arg0, arg1, zeros)
  \/ ClearAll

Spec == Init /\ [][Next]_aVars
=============================================================================
