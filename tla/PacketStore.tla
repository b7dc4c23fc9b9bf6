----------------------------- MODULE PacketStore ----------------------------
(***************************************************************************)
(* The class _AdbPacketStore of hidden_helpers.py as it is written: a      *)
(* dictionary keyed by arg1 of dictionaries keyed by arg0 of queues,       *)
(* searched in insertion order.  A Python dictionary is the sequence of    *)
(* its [key, val] entries, oldest insertion first.                         *)
(***************************************************************************)
EXTENDS Naturals, Sequences, SequencesExt

CONSTANTS None,      \* the wildcard of a search
          Ids,       \* the ids that occur, 0 among them
          Packets,   \* packets as [cmd, data] records
          MaxPackets,\* bound: packets stored at a time
          MaxQueues  \* bound: queues at a time, the drained ones included

ASSUME IdsAssumption == 0 \in Ids /\ Ids \subseteq Nat /\ None \notin Nat

VARIABLES dict,      \* _dict
          result     \* ghost: what the last step handed out, as <<key, packet>>

vars == <<dict, result>>

-----------------------------------------------------------------------------
(* Dictionaries.                                                           *)

HasKey(d, k) == \E i \in DOMAIN d : d[i].key = k

Position(d, k) == CHOOSE i \in DOMAIN d : d[i].key = k

At(d, k) == d[Position(d, k)].val

Assign(d, k, v) ==
  IF HasKey(d, k) THEN [d EXCEPT ![Position(d, k)].val = v]
                  ELSE Append(d, [key |-> k, val |-> v])

Without(d, k) == SelectSeq(d, LAMBDA e : e.key # k)

-----------------------------------------------------------------------------
(* The lookups.                                                            *)

HasQueue(arg0, arg1) == HasKey(dict, arg1) /\ HasKey(At(dict, arg1), arg0)

(* The keys <<arg0, arg1>> of all the queues in the order of iteration.    *)
KeysInOrder ==
  FlattenSeq([i \in DOMAIN dict |->
    [j \in DOMAIN dict[i].val |-> <<dict[i].val[j].key, dict[i].key>>]])

QueueAt(k) == At(At(dict, k[2]), k[1])

(* find: the first key in the order of iteration that has a packet and     *)
(* matches; <<>> (Python's None) when there is none.                       *)
find(arg0, arg1) ==
  LET hits == SelectSeq(KeysInOrder, LAMBDA k : /\ QueueAt(k) # <<>>
                                                /\ arg0 \in {None, k[1]}
                                                /\ arg1 \in {None, k[2]})
  IN  IF hits = <<>> THEN <<>> ELSE hits[1]

(* find_allow_zeros: four searches, the first that succeeds.               *)
find_allow_zeros(arg0, arg1) ==
  LET found == SelectSeq(<< find(arg0, arg1), find(arg0, 0), find(0, arg1), find(0, 0) >>,
                         LAMBDA k : k # <<>>)
  IN  IF found = <<>> THEN <<>> ELSE found[1]

(* clear without its last step, which drops an inner dictionary left empty. *)
ClearedInner(d, arg0, arg1) ==
  IF ~HasKey(d, arg1) \/ ~HasKey(At(d, arg1), arg0) THEN d
  ELSE Assign(d, arg1, Without(At(d, arg1), arg0))

(* clear, on the dictionary d: an inner dictionary left empty goes too.    *)
Cleared(d, arg0, arg1) ==
  LET kept == ClearedInner(d, arg0, arg1)
  IN  IF HasKey(kept, arg1) /\ At(kept, arg1) = <<>> THEN Without(kept, arg1) ELSE kept

-----------------------------------------------------------------------------
(* The operations.                                                         *)

Init == dict = <<>> /\ result = <<>>

(* How many packets there are in all the queues.                           *)
Stored == Len(FlattenSeq([i \in DOMAIN KeysInOrder |-> QueueAt(KeysInOrder[i])]))

InnerDict(arg1) == IF HasKey(dict, arg1) THEN At(dict, arg1) ELSE <<>>

Put(arg0, arg1, p) ==
  LET old == IF HasQueue(arg0, arg1) THEN QueueAt(<<arg0, arg1>>) ELSE <<>>
  IN  /\ Stored < MaxPackets
      /\ HasQueue(arg0, arg1) \/ p.cmd = "CLSE" \/ Len(KeysInOrder) < MaxQueues
      /\ dict' = IF p.cmd = "CLSE" /\ ~HasQueue(arg0, arg1) THEN dict
                 ELSE Assign(dict, arg1, Assign(InnerDict(arg1), arg0, Append(old, p)))
      /\ result' = <<>>

(* get on the key a search found, when it found one.  The queue keeps its  *)
(* key when it is drained, unless the packet taken is a CLSE.              *)
Popped(k) == Assign(dict, k[2], Assign(At(dict, k[2]), k[1], Tail(QueueAt(k))))

AfterTake(k) ==
  IF Head(QueueAt(k)).cmd = "CLSE" THEN Cleared(Popped(k), k[1], k[2]) ELSE Popped(k)

GetFound(k) ==
  /\ k # <<>>
  /\ result' = <<k, Head(QueueAt(k))>>
  /\ dict' = AfterTake(k)

Get(arg0, arg1) == GetFound(find(arg0, arg1))

GetAllowZeros(arg0, arg1) == GetFound(find_allow_zeros(arg0, arg1))

Clear(arg0, arg1) == dict' = Cleared(dict, arg0, arg1) /\ result' = <<>>

ClearAll == dict' = <<>> /\ result' = <<>>

Next ==
  \/ \E arg0, arg1 \in Ids, p \in Packets : Put(arg0, arg1, p)
  \/ \E arg0, arg1 \in Ids \cup {None} : Get(arg0, arg1)
  \/ \E arg0, arg1 \in Ids \cup {None} : GetAllowZeros(arg0, arg1)
  \/ \E arg0, arg1 \in Ids : Clear(arg0, arg1)
  \/ ClearAll

Spec == Init /\ [][Next]_vars

-----------------------------------------------------------------------------
(* The view of the store that the rest of the project uses.                *)
Flat ==
  [k \in UNION {{<<e.key, d.key>> : e \in ToSet(d.val)} : d \in ToSet(dict)} |-> QueueAt(k)]

Queues == INSTANCE PacketQueueSpec WITH store <- Flat

(* Every operation on the dictionaries is the operation of the same name   *)
(* on independent queues: searching in insertion order with wildcards and  *)
(* zeros, draining, clearing and refilling never lets a packet jump the    *)
(* queue of its stream, change streams or outlive the CLSE before it.      *)
ImplementsQueues == Queues!Spec
=============================================================================
