---------------------------- MODULE PacketQueues ----------------------------
(***************************************************************************)
(* What the IO manager relies on of its packet store (class               *)
(* _AdbPacketStore of hidden_helpers.py): a partial function from the key  *)
(* <<arg0, arg1>> of a stream to the queue of its packets.  arg0 is the    *)
(* device's id of the stream, arg1 the host's.  A key whose queue has been *)
(* drained stays in the domain until it is cleared, and the difference     *)
(* between an empty queue and no queue is visible: a CLSE opens no queue.  *)
(*                                                                         *)
(* The code keeps a dictionary of dictionaries and searches it in          *)
(* insertion order.  Here a search returns the set of all the keys that    *)
(* fit, of which its caller takes any one; module PacketStore has the      *)
(* dictionaries and their order and is shown to implement this view.       *)
(***************************************************************************)
EXTENDS Naturals, Sequences

CONSTANT None   \* Python's None: a wildcard of a search, a remote id not known yet

ASSUME NoneIsNoId == None \notin Nat

EmptyStore == [k \in {} |-> <<>>]

(* The queue of a key, empty when there is none.                           *)
QueueOf(s, k) == IF k \in DOMAIN s THEN s[k] ELSE <<>>

(* find: the keys with a packet; None in either place matches every id.    *)
Find(s, arg0, arg1) ==
  {k \in DOMAIN s : /\ s[k] # <<>>
                    /\ arg0 \in {None, k[1]}
                    /\ arg1 \in {None, k[2]}}

(* find_allow_zeros: an exact match is preferred to one with an id 0.      *)
FindAllowZeros(s, arg0, arg1) ==
  LET candidates == << Find(s, arg0, arg1), Find(s, arg0, 0),
                       Find(s, 0, arg1), Find(s, 0, 0) >>
      hits == {i \in 1..4 : candidates[i] # {}}
  IN  IF hits = {} THEN {}
      ELSE candidates[CHOOSE i \in hits : \A j \in hits : i <= j]

(* clear: forget the key and whatever its queue holds.                     *)
Clear(s, k) == [j \in DOMAIN s \ {k} |-> s[j]]

(* get: the head of a non-empty queue; a CLSE takes its key with it.       *)
PacketAt(s, k) == Head(s[k])

AfterGet(s, k) ==
  IF Head(s[k]).cmd = "CLSE" THEN Clear(s, k) ELSE [s EXCEPT ![k] = Tail(@)]

(* The end of put: append to the queue of the key, opening it if need be.  *)
Enqueue(s, k, cmd, data) ==
  [j \in DOMAIN s \cup {k} |->
     IF j = k THEN Append(QueueOf(s, k), [cmd |-> cmd, data |-> data]) ELSE s[j]]

(* put: a CLSE opens no queue, it is dropped.                              *)
Put(s, k, cmd, data) ==
  IF cmd = "CLSE" /\ k \notin DOMAIN s THEN s ELSE Enqueue(s, k, cmd, data)
=============================================================================
