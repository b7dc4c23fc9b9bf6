-------------------------- MODULE AdbStreamsProofs --------------------------
(***************************************************************************)
(* Proofs about AdbStreams, for any number of threads, commands, chunks,   *)
(* resets and any window.                                                  *)
(***************************************************************************)
EXTENDS AdbStreams, TLAPS

-----------------------------------------------------------------------------
(* What the operators on packet queues return and preserve, for entries of *)
(* any set S and keys of any set K.                                        *)

(* A store: queues of entries of S at keys of K.                           *)
IsStore(s, K, S) == DOMAIN s \subseteq K /\ \A k \in DOMAIN s : s[k] \in Seq(S)

(* find returns keys of queues that hold a packet.                         *)
LEMMA FindHits ==
  ASSUME NEW s, NEW arg0, NEW arg1, NEW k \in Find(s, arg0, arg1)
  PROVE  k \in DOMAIN s /\ s[k] # <<>>
BY DEF Find

(* find_allow_zeros returns what the first successful one of its four      *)
(* searches does, and nothing only if the exact search has no result.      *)
LEMMA FindAllowZerosFrom ==
  ASSUME NEW s, NEW arg0, NEW arg1
  PROVE  /\ \A k \in FindAllowZeros(s, arg0, arg1) :
              k \in Find(s, arg0, arg1) \cup Find(s, arg0, 0) \cup Find(s, 0, arg1) \cup Find(s, 0, 0)
         /\ FindAllowZeros(s, arg0, arg1) = {} => Find(s, arg0, arg1) = {}
<1> DEFINE c == << Find(s, arg0, arg1), Find(s, arg0, 0), Find(s, 0, arg1), Find(s, 0, 0) >>
           hits == {i \in 1..4 : c[i] # {}}
           first == CHOOSE i \in hits : \A j \in hits : i <= j
<1>1. FindAllowZeros(s, arg0, arg1) = IF hits = {} THEN {} ELSE c[first]
  BY DEF FindAllowZeros
<1>2. CASE hits = {}
  <2>1. 1 \notin hits
    BY <1>2
  <2>2. c[1] = {}
    BY <2>1
  <2> QED BY <1>1, <1>2, <2>2
<1>3. CASE hits # {}
  <2>1. PICK i \in hits : \A j \in hits : i <= j
    <3>1. CASE 1 \in hits BY <3>1
    <3>2. CASE 1 \notin hits /\ 2 \in hits BY <3>2
    <3>3. CASE 1 \notin hits /\ 2 \notin hits /\ 3 \in hits BY <3>3
    <3>4. CASE 1 \notin hits /\ 2 \notin hits /\ 3 \notin hits BY <1>3, <3>4
    <3> QED BY <3>1, <3>2, <3>3, <3>4
  <2>2. first \in hits
    BY <2>1
  <2>3. first \in 1..4 /\ c[first] # {}
    BY <2>2
  <2>4. \/ c[first] = Find(s, arg0, arg1) \/ c[first] = Find(s, arg0, 0)
        \/ c[first] = Find(s, 0, arg1)    \/ c[first] = Find(s, 0, 0)
    BY <2>3
  <2> HIDE DEF c, hits, first
  <2> QED BY <1>1, <1>3, <2>3, <2>4
<1> QED BY <1>2, <1>3

(* So it returns keys of queues that hold a packet too.                    *)
LEMMA FindAllowZerosHits ==
  ASSUME NEW s, NEW arg0, NEW arg1, NEW k \in FindAllowZeros(s, arg0, arg1)
  PROVE  k \in DOMAIN s /\ s[k] # <<>>
BY FindAllowZerosFrom, FindHits

(* The empty store is a store, and clear keeps one.                        *)
LEMMA EmptyIsStore ==
  ASSUME NEW K, NEW S
  PROVE  IsStore(EmptyStore, K, S)
BY DEF IsStore, EmptyStore

LEMMA ClearKeepsStore ==
  ASSUME NEW K, NEW S, NEW s, IsStore(s, K, S), NEW k
  PROVE  IsStore(Clear(s, k), K, S)
BY DEF IsStore, Clear

(* What get takes out of a queue is an entry, and what it leaves a store.  *)
LEMMA GetKeepsStore ==
  ASSUME NEW K, NEW S, NEW s, IsStore(s, K, S), NEW k \in DOMAIN s, s[k] # <<>>
  PROVE  k \in K /\ PacketAt(s, k) \in S /\ IsStore(AfterGet(s, k), K, S)
<1>1. s[k] \in Seq(S) /\ k \in K
  BY DEF IsStore
<1>2. Head(s[k]) \in S /\ Tail(s[k]) \in Seq(S)
  BY <1>1
<1>3. IsStore([s EXCEPT ![k] = Tail(@)], K, S)
  BY <1>2 DEF IsStore
<1> QED BY <1>1, <1>2, <1>3, ClearKeepsStore DEF PacketAt, AfterGet

(* put adds its packet, or drops it.                                       *)
LEMMA PutKeepsStore ==
  ASSUME NEW K, NEW S, NEW s, IsStore(s, K, S), NEW k \in K,
         NEW cmd, NEW data, [cmd |-> cmd, data |-> data] \in S
  PROVE  IsStore(Put(s, k, cmd, data), K, S)
<1>1. QueueOf(s, k) \in Seq(S)
  BY DEF IsStore, QueueOf
<1>2. Append(QueueOf(s, k), [cmd |-> cmd, data |-> data]) \in Seq(S)
  BY <1>1
<1>3. IsStore(Enqueue(s, k, cmd, data), K, S)
  BY <1>2 DEF IsStore, Enqueue
<1> QED BY <1>3 DEF Put

(* What clear, get and put do to each queue.                               *)
LEMMA ClearQueues ==
  ASSUME NEW s, NEW k
  PROVE  /\ DOMAIN Clear(s, k) = DOMAIN s \ {k}
         /\ QueueOf(Clear(s, k), k) = <<>>
         /\ \A j : j # k => QueueOf(Clear(s, k), j) = QueueOf(s, j)
BY DEF Clear, QueueOf

LEMMA GetQueues ==
  ASSUME NEW s, NEW k \in DOMAIN s
  PROVE  /\ DOMAIN AfterGet(s, k) \subseteq DOMAIN s
         /\ QueueOf(AfterGet(s, k), k) = IF Head(s[k]).cmd = "CLSE" THEN <<>> ELSE Tail(s[k])
         /\ \A j : j # k => QueueOf(AfterGet(s, k), j) = QueueOf(s, j)
<1>1. CASE Head(s[k]).cmd = "CLSE"
  <2> DEFINE r == Clear(s, k)
  <2>1. AfterGet(s, k) = r
    BY <1>1 DEF AfterGet
  <2>2. DOMAIN r = DOMAIN s \ {k} /\ QueueOf(r, k) = <<>> /\ \A j : j # k => QueueOf(r, j) = QueueOf(s, j)
    BY ClearQueues
  <2> HIDE DEF r
  <2> QED BY <1>1, <2>1, <2>2
<1>2. CASE Head(s[k]).cmd # "CLSE"
  <2> DEFINE r == [s EXCEPT ![k] = Tail(s[k])]
  <2>1. AfterGet(s, k) = r
    BY <1>2 DEF AfterGet
  <2>2. DOMAIN r = DOMAIN s /\ r[k] = Tail(s[k]) /\ \A j \in DOMAIN s : j # k => r[j] = s[j]
    OBVIOUS
  <2> HIDE DEF r
  <2> QED BY <1>2, <2>1, <2>2 DEF QueueOf
<1> QED BY <1>1, <1>2

LEMMA PutDrops ==
  ASSUME NEW s, NEW k, NEW cmd, NEW data, cmd = "CLSE" /\ k \notin DOMAIN s
  PROVE  Put(s, k, cmd, data) = s
BY DEF Put

LEMMA PutDomain ==
  ASSUME NEW s, NEW k, NEW cmd, NEW data, ~(cmd = "CLSE" /\ k \notin DOMAIN s)
  PROVE  DOMAIN Put(s, k, cmd, data) = DOMAIN s \cup {k}
BY DEF Put, Enqueue

LEMMA PutAppends ==
  ASSUME NEW s, NEW k, NEW cmd, NEW data, ~(cmd = "CLSE" /\ k \notin DOMAIN s)
  PROVE  QueueOf(Put(s, k, cmd, data), k) = Append(QueueOf(s, k), [cmd |-> cmd, data |-> data])
BY DEF Put, Enqueue, QueueOf

LEMMA PutOthers ==
  ASSUME NEW s, NEW k, NEW cmd, NEW data, NEW j, j # k
  PROVE  QueueOf(Put(s, k, cmd, data), j) = QueueOf(s, j)
BY DEF Put, Enqueue, QueueOf

-----------------------------------------------------------------------------
(* What a thread is after the steps that several actions share.            *)

(* A thread inside read, whatever it has in hand.                          *)
InRead(x) ==
  /\ x \in Thread
  /\ x.pc \in Reading /\ x.op \in Ops /\ x.lid \in Lids /\ x.ctx \in Calls
  /\ x.ctx # "open" => x.rid \in Nat

(* A thread whose call is typed and which has no use for the lock.         *)
Lockless(x) == x \in Thread /\ ThreadOK(x) /\ x.pc \notin {"recheck", "wire", "dispatch"}

LEMMA IdleIsLockless == Lockless(IdleThread)
BY StreamsAssumption DEF Lockless, IdleThread, ThreadOK, Thread, Sending, Reading, Lids

LEMMA ReadersAreInRead ==
  ASSUME NEW x \in Thread, ThreadOK(x), x.pc \in Reading
  PROVE  InRead(x)
BY DEF InRead, ThreadOK

(* A reader that moves on, with or without its packet, stays typed.        *)
LEMMA ReaderMoves ==
  ASSUME NEW x, InRead(x), NEW pc \in Reading \ {"dispatch"}, NEW pkt \in Packet \cup {None}
  PROVE  LET y == [x EXCEPT !.pc = pc, !.pkt = pkt]
         IN  y \in Thread /\ ThreadOK(y) /\ y.pc = pc
BY DEF InRead, ThreadOK, Thread, Sending, Reading

(* The step a command begins with, once its stream is open.                *)
LEMMA FirstStepIsLockless ==
  ASSUME NEW y \in Thread, y.op \in Ops, y.lid \in Lids, y.rid \in Nat
  PROVE  Lockless(FirstStep(y))
<1> DEFINE z == [y EXCEPT !.pc = "fast", !.ctx = "stream"]
           w == [y EXCEPT !.pc = "request", !.ctx = "flush"]
<1>1. CASE y.op \in {Shell, Stat, Pull}
  <2>1. FirstStep(y) \in {z, w}
    <3>1. CASE y.op = Shell
      BY <3>1 DEF FirstStep, BeginRead, Shell, Stat, Pull, Reboot
    <3>2. CASE y.op \in {Stat, Pull}
      BY <3>2 DEF FirstStep, BeginRead, Shell, Stat, Pull, Reboot
    <3> QED BY <1>1, <3>1, <3>2
  <2>2. /\ z \in Thread /\ z.op = y.op /\ z.lid = y.lid /\ z.rid = y.rid
        /\ z.pc = "fast" /\ z.ctx = "stream"
    BY DEF Thread, Reading, Calls
  <2>3. /\ w \in Thread /\ w.op = y.op /\ w.lid = y.lid /\ w.rid = y.rid
        /\ w.pc = "request" /\ w.ctx = "flush"
    BY DEF Thread, Sending, Calls
  <2> HIDE DEF z, w
  <2>4. Lockless(z) /\ Lockless(w)
    BY <2>2, <2>3 DEF Lockless, ThreadOK, Sending, Reading, Calls
  <2> QED BY <2>1, <2>4
<1>2. CASE y.op = Reboot
  BY <1>2, IdleIsLockless DEF FirstStep, Shell, Stat, Pull, Reboot
<1> QED BY <1>1, <1>2, StreamsAssumption

(* What read returns to.                                                   *)
LEMMA ReturnedIsLockless ==
  ASSUME NEW x, InRead(x), NEW p \in Packet, p.cmd \in Expected(x.ctx)
  PROVE  Lockless(Returned(x, p))
<1>1. CASE x.ctx = "open"
  <2> DEFINE y == [x EXCEPT !.rid = p.arg0]
  <2>1. y \in Thread /\ y.op \in Ops /\ y.lid \in Lids /\ y.rid \in Nat
    BY DEF InRead, Thread, Packet
  <2>2. Returned(x, p) = FirstStep(y)
    BY <1>1 DEF Returned, Opened
  <2> HIDE DEF y
  <2> QED BY <2>1, <2>2, FirstStepIsLockless
<1>2. CASE x.ctx = "flush"
  BY <1>2 DEF Returned, BeginRead, Lockless, Thread, ThreadOK, InRead, Sending, Reading, Calls
<1>3. CASE x.ctx = "clse"
  BY <1>3, IdleIsLockless DEF Returned
<1>4. CASE x.ctx = "stream" /\ p.cmd = "CLSE"
  BY <1>4 DEF Returned, Lockless, Thread, ThreadOK, InRead, Sending, Reading, Calls
<1>5. CASE x.ctx \in {"stream", "filesync"} /\ p.cmd # "CLSE"
  <2>1. p.cmd = "WRTE"
    BY <1>5 DEF Expected
  <2>2. Returned(x, p) = [x EXCEPT !.pc = "okay", !.pkt = p]
    BY <1>5 DEF Returned
  <2> QED BY <1>5, <2>1, <2>2 DEF Lockless, Thread, ThreadOK, InRead, Sending, Reading, Calls
<1>6. CASE x.ctx = "filesync" /\ p.cmd = "CLSE"
  BY <1>6 DEF Expected
<1> QED BY <1>1, <1>2, <1>3, <1>4, <1>5, <1>6 DEF InRead, Calls

(* An exception ends the call, or begins the finally clause of a pull.     *)
LEMMA RaisedIsLockless ==
  ASSUME NEW x \in Thread, ThreadOK(x), x.pc \in Sending \cup Reading
  PROVE  Lockless(Raised(x))
<1>1. CASE x.op = Pull /\ x.ctx \in {"flush", "filesync"} /\ x.pc # "clse"
  <2>1. Raised(x) = [x EXCEPT !.pc = "clse", !.pkt = None, !.failing = TRUE]
    BY <1>1 DEF Raised
  <2> DEFINE y == [x EXCEPT !.pc = "clse", !.pkt = None, !.failing = TRUE]
  <2>2. /\ y \in Thread /\ y.op = x.op /\ y.lid = x.lid /\ y.rid = x.rid
        /\ y.pc = "clse" /\ y.ctx = x.ctx
    BY DEF Thread, Sending
  <2>3. x.op \in Ops /\ x.lid \in Lids /\ x.rid \in Nat
    <3>1. x.ctx # "open" /\ x.ctx # None
      BY <1>1, StreamsAssumption DEF Calls
    <3> QED BY <1>1, <3>1 DEF ThreadOK, Sending, Reading
  <2> HIDE DEF y
  <2>4. Lockless(y)
    BY <1>1, <2>2, <2>3 DEF Lockless, ThreadOK, Sending, Reading, Calls
  <2> QED BY <2>1, <2>4 DEF y
<1>2. CASE ~(x.op = Pull /\ x.ctx \in {"flush", "filesync"} /\ x.pc # "clse")
  BY <1>2, IdleIsLockless DEF Raised
<1> QED BY <1>1, <1>2

(* After a send comes a read, a _clse or the end of the command.           *)
LEMMA SentIsLockless ==
  ASSUME NEW x \in Thread, ThreadOK(x), x.pc \in Sending
  PROVE  Lockless(Sent(x))
<1>1. CASE x.pc = "open"
  BY <1>1 DEF Sent, BeginRead, Lockless, Thread, ThreadOK, Sending, Reading, Calls
<1>2. CASE x.pc = "request"
  BY <1>2 DEF Sent, BeginRead, Lockless, Thread, ThreadOK, Sending, Reading, Calls
<1>3. CASE x.pc = "clse"
  BY <1>3 DEF Sent, BeginRead, Lockless, Thread, ThreadOK, Sending, Reading, Calls
<1>4. CASE x.pc = "reclose"
  BY <1>4, IdleIsLockless DEF Sent
<1>5. CASE x.pc = "okay"
  <2> DEFINE y == [x EXCEPT !.pkt = None]
             z == [y EXCEPT !.pc = "clse"]
             w == BeginRead(y, x.ctx)
  <2>1. y \in Thread /\ y.op \in Ops /\ y.lid \in Lids /\ y.rid \in Nat
        /\ x.ctx \in Calls \ {"open"} /\ y.ctx = x.ctx
    BY <1>5 DEF Thread, ThreadOK, Sending
  <2>2. Lockless(z)
    BY <2>1 DEF Lockless, Thread, ThreadOK, Sending, Reading
  <2>3. Lockless(w)
    BY <2>1 DEF BeginRead, Lockless, Thread, ThreadOK, Sending, Reading
  <2>4. Sent(x) \in {z, w}
    BY <1>5 DEF Sent
  <2> QED BY <2>2, <2>3, <2>4
<1> QED BY <1>1, <1>2, <1>3, <1>4, <1>5 DEF Sending

(* Every message that is sent is a packet.                                 *)
LEMMA MessageIsPacket ==
  ASSUME NEW x \in Thread, ThreadOK(x), x.pc \in Sending
  PROVE  Message(x) \in HostPacket
<1>1. x.lid \in Lids /\ x.op \in Ops /\ (x.pc # "open" => x.rid \in Nat)
  BY DEF ThreadOK, Sending
<1> QED BY <1>1 DEF Message, Msg, HostPacket, Sending

-----------------------------------------------------------------------------
(* The inductive invariant.  Types alone are not inductive: that Returned  *)
(* is typed depends on who called read, and that the lock is free again    *)
(* when a read ends depends on who held it.                                *)

IInv == TypeOK /\ LockHeldByReader

(* The part of IInv about threads.                                         *)
ThreadsOK ==
  /\ th \in [Threads -> Thread]
  /\ \A u \in Threads : ThreadOK(th[u])
  /\ transport_lock \in Threads \cup {None}
  /\ LockHeldByReader

(* It holds after a step of thread t to y that      *)
(* leaves the transport lock to next.                                      *)
LEMMA ThreadsAfterStep ==
  ASSUME IInv, NEW t \in Threads, NEW y \in Thread, ThreadOK(y),
         th' = [th EXCEPT ![t] = y],
         \/ /\ y.pc \in {"recheck", "wire", "dispatch"}
            /\ transport_lock' = t
            /\ transport_lock \in {t, None}
         \/ /\ y.pc \notin {"recheck", "wire", "dispatch"}
            /\ \/ transport_lock' = None /\ transport_lock \in {t, None}
               \/ transport_lock' = transport_lock /\ transport_lock # t
  PROVE  ThreadsOK'
<1>1. th' \in [Threads -> Thread] /\ th'[t] = y /\ \A u \in Threads \ {t} : th'[u] = th[u]
  BY DEF IInv, TypeOK
<1>2. \A u \in Threads : ThreadOK(th'[u])
  BY <1>1 DEF IInv, TypeOK
<1>3. transport_lock' \in Threads \cup {None}
  BY DEF IInv, TypeOK
<1>4. LockHeldByReader'
  BY <1>1, StreamsAssumption DEF IInv, LockHeldByReader
<1> QED BY <1>1, <1>2, <1>3, <1>4 DEF ThreadsOK, ThreadOK

(* The rest of IInv.                                                       *)
RestOK ==
  /\ store_lock \in Threads \cup {None}
  /\ StoreOK
  /\ local_id \in Lids \cup {0}
  /\ connected \in BOOLEAN /\ available \in BOOLEAN
  /\ to_host \in Seq(Packet) /\ scrap \in BOOLEAN /\ to_dev \in Seq(HostPacket)
  /\ dev \in [Lids -> DevStream] /\ dev_id \in Nat
  /\ resets \in 0 .. MaxResets
  /\ received \in [Lids -> Seq(Data)]
  /\ complete \subseteq Lids /\ lossy \subseteq Lids /\ left \subseteq Lids

LEMMA IInvParts == (ThreadsOK /\ RestOK => IInv) /\ (ThreadsOK' /\ RestOK' => IInv')
BY DEF IInv, TypeOK, ThreadsOK, RestOK

LEMMA InitOK == Init => IInv
<1> SUFFICES ASSUME Init PROVE IInv
  OBVIOUS
<1>1. ThreadsOK
  BY IdleIsLockless, StreamsAssumption
     DEF Init, ThreadsOK, LockHeldByReader, Lockless, IdleThread
<1>2. RestOK
  <2>1. StoreOK
    BY DEF Init, StoreOK, EmptyStore
  <2>2. dev \in [Lids -> DevStream]
    BY StreamsAssumption DEF Init, NoStream, DevStream
  <2>3. scrap \in BOOLEAN /\ lossy \subseteq Lids /\ left \subseteq Lids
    BY DEF Init
  <2> QED BY <2>1, <2>2, <2>3, StreamsAssumption DEF Init, RestOK
<1> QED BY <1>1, <1>2, IInvParts

-----------------------------------------------------------------------------
(* The steps of read keep the invariant.                                   *)

(* A packet of the store is one of the wire again.                         *)
LEMMA StoredIsPacket ==
  ASSUME NEW e \in Stored, NEW k \in Nat \X Lids
  PROVE  Msg(e.cmd, k[1], k[2], e.data) \in Packet
BY DEF Stored, Packet, Msg

LEMMA StoreIsStore == StoreOK <=> IsStore(store, Nat \X Lids, Stored)
BY DEF StoreOK, IsStore

LEMMA MatchesHit ==
  ASSUME NEW x, NEW k \in Matches(x)
  PROVE  k \in DOMAIN store /\ store[k] # <<>>
BY FindHits, FindAllowZerosHits DEF Matches

LEMMA SearchStoreOK ==
  ASSUME IInv, NEW t \in Threads,
         NEW from, NEW next,
         \/ from = "fast" /\ next = "lock"
         \/ from = "recheck" /\ next = "wire",
         SearchStore(t, from, next)
  PROVE  IInv'
<1> DEFINE x == th[t]
<1>1. x \in Thread /\ ThreadOK(x) /\ x.pc = from /\ InRead(x)
  <2>1. x \in Thread /\ ThreadOK(x) /\ x.pc = from /\ x.pc \in Reading
    BY DEF IInv, TypeOK, SearchStore, Reading
  <2> QED BY <2>1, ReadersAreInRead
<1>2. /\ from = "recheck" => transport_lock = t
      /\ from = "fast" => transport_lock # t
  BY <1>1 DEF IInv, LockHeldByReader
<1>3. CASE NotFound(t, next)
  <2> DEFINE y == [x EXCEPT !.pc = next]
  <2>1. y \in Thread /\ ThreadOK(y) /\ y.pc = next
    BY <1>1 DEF InRead, ThreadOK, Thread, Sending, Reading
  <2>2. th' = [th EXCEPT ![t] = y] /\ transport_lock' = transport_lock
    BY <1>3 DEF NotFound
  <2>3. ThreadsOK'
    <3> HIDE DEF y
    <3> QED BY <1>2, <2>1, <2>2, ThreadsAfterStep
  <2>4. RestOK'
    BY <1>3 DEF NotFound, SearchStore, devVars, IInv, TypeOK, RestOK, StoreOK
  <2> QED BY <2>3, <2>4, IInvParts
<1>4. ASSUME NEW k \in Matches(x), Found(t, k)
      PROVE  IInv'
  <2> DEFINE e == PacketAt(store, k)
             p == Msg(e.cmd, k[1], k[2], e.data)
  <2>1. k \in DOMAIN store /\ store[k] # <<>>
    BY <1>4, MatchesHit
  <2>2. k \in Nat \X Lids /\ e \in Stored /\ IsStore(AfterGet(store, k), Nat \X Lids, Stored)
    BY <2>1, StoreIsStore, GetKeepsStore DEF IInv, TypeOK
  <2>3. p \in Packet
    BY <2>2, StoredIsPacket
  <2>4. StoreOK'
    BY <1>4, <2>2 DEF Found, StoreOK, IsStore
  <2>5. ThreadsOK' /\ store_lock' \in Threads \cup {None}
    <3>1. CASE p.cmd \in Expected(x.ctx)
      <4>1. /\ th' = [th EXCEPT ![t] = Returned(x, p)]
            /\ store_lock' = None
            /\ transport_lock' = IF transport_lock = t THEN None ELSE transport_lock
        BY <1>4, <3>1 DEF Found
      <4>2. Lockless(Returned(x, p))
        BY <1>1, <2>3, <3>1, ReturnedIsLockless
      <4> QED BY <1>2, <4>1, <4>2, ThreadsAfterStep DEF Lockless
    <3>2. CASE p.cmd \notin Expected(x.ctx)
      <4>1. store_lock' = t /\ UNCHANGED <<th, transport_lock>>
        BY <1>4, <3>2 DEF Found
      <4> QED BY <4>1 DEF IInv, TypeOK, ThreadsOK, ThreadOK, LockHeldByReader
    <3> QED BY <3>1, <3>2
  <2>6. RestOK'
    BY <2>4, <2>5 DEF SearchStore, devVars, IInv, TypeOK, RestOK
  <2> QED BY <2>5, <2>6, IInvParts
<1> QED BY <1>3, <1>4 DEF SearchStore

LEMMA LockTransportOK ==
  ASSUME IInv, NEW t \in Threads, LockTransport(t)
  PROVE  IInv'
<1> DEFINE y == [th[t] EXCEPT !.pc = "recheck"]
<1>1. y \in Thread /\ ThreadOK(y) /\ y.pc = "recheck"
  <2>1. th[t] \in Thread /\ ThreadOK(th[t]) /\ th[t].pc = "lock"
    BY DEF LockTransport, IInv, TypeOK
  <2> QED BY <2>1 DEF ThreadOK, Thread, Sending, Reading
<1>2. th' = [th EXCEPT ![t] = y] /\ transport_lock' = t /\ transport_lock = None
  BY DEF LockTransport
<1>3. ThreadsOK'
  <2> HIDE DEF y
  <2> QED BY <1>1, <1>2, ThreadsAfterStep
<1>4. RestOK'
  BY DEF LockTransport, devVars, IInv, TypeOK, RestOK, StoreOK
<1> QED BY <1>3, <1>4, IInvParts

LEMMA ReadWireOK ==
  ASSUME IInv, NEW t \in Threads, ReadWire(t)
  PROVE  IInv'
<1> DEFINE y == [th[t] EXCEPT !.pc = "dispatch", !.pkt = Head(to_host)]
<1>1. Head(to_host) \in Packet /\ to_host' \in Seq(Packet)
  BY DEF ReadWire, IInv, TypeOK
<1>2. y \in Thread /\ ThreadOK(y) /\ y.pc = "dispatch"
  BY <1>1 DEF ReadWire, IInv, TypeOK, ThreadOK, Thread, Sending, Reading
<1>3. th' = [th EXCEPT ![t] = y] /\ transport_lock' = t /\ transport_lock = t
  BY DEF ReadWire, ioVars, IInv, LockHeldByReader
<1>4. ThreadsOK'
  <2> HIDE DEF y
  <2> QED BY <1>2, <1>3, ThreadsAfterStep
<1>5. RestOK'
  BY <1>1 DEF ReadWire, ioVars, devVars, IInv, TypeOK, RestOK, StoreOK
<1> QED BY <1>4, <1>5, IInvParts

(* The packet in hand is dropped, and the rest depends on whose it is.     *)
LEMMA DispatchOK ==
  ASSUME IInv, NEW t \in Threads, Dispatch(t)
  PROVE  IInv'
<1> DEFINE x == [th[t] EXCEPT !.pkt = None]
           p == th[t].pkt
           k == <<p.arg0, p.arg1>>
           y == [x EXCEPT !.pc = "time"]
<1>1. InRead(x) /\ p \in Packet
  <2>1. th[t] \in Thread /\ ThreadOK(th[t]) /\ th[t].pc = "dispatch"
    BY DEF IInv, TypeOK, Dispatch
  <2>2. InRead(th[t]) /\ p \in Packet
    BY <2>1, ReadersAreInRead DEF ThreadOK, Reading
  <2> QED BY <2>2 DEF InRead, Thread
<1>2. y \in Thread /\ ThreadOK(y) /\ y.pc = "time"
  <2> HIDE DEF x
  <2> QED BY <1>1 DEF InRead, ThreadOK, Thread, Sending, Reading
<1>3. k \in Nat \X Lids /\ [cmd |-> p.cmd, data |-> p.data] \in Stored
  BY <1>1 DEF Packet, Stored
<1>4. IsStore(store, Nat \X Lids, Stored)
  BY StoreIsStore DEF IInv, TypeOK
<1>5. IsStore(store', Nat \X Lids, Stored)
  <2>1. store' \in {Put(store, k, p.cmd, p.data), Clear(store, k), store}
    BY DEF Dispatch
  <2> HIDE DEF k, p
  <2> QED BY <1>3, <1>4, <2>1, PutKeepsStore, ClearKeepsStore
<1>6. \/ th' = [th EXCEPT ![t] = y]
      \/ p.cmd \in Expected(x.ctx) /\ th' = [th EXCEPT ![t] = Returned(x, p)]
  BY DEF Dispatch
<1>7. transport_lock' = None /\ transport_lock = t
  BY DEF Dispatch, IInv, LockHeldByReader
<1>8. ThreadsOK'
  <2> HIDE DEF x, p, y
  <2>1. p.cmd \in Expected(x.ctx) => Lockless(Returned(x, p))
    BY <1>1, ReturnedIsLockless
  <2> QED BY <1>2, <1>6, <1>7, <2>1, ThreadsAfterStep DEF Lockless
<1>9. RestOK'
  <2>1. StoreOK'
    BY <1>5 DEF StoreOK, IsStore
  <2> QED BY <2>1 DEF Dispatch, devVars, IInv, TypeOK, RestOK
<1> QED BY <1>8, <1>9, IInvParts

LEMMA ReadRaisesOK ==
  ASSUME IInv, NEW t \in Threads, ReadRaises(t)
  PROVE  IInv'
<1>1. Lockless(Raised(th[t]))
  BY RaisedIsLockless DEF ReadRaises, ReadFails, IInv, TypeOK, Reading
<1>2. th' = [th EXCEPT ![t] = Raised(th[t])] /\ transport_lock' = None /\ transport_lock = t
  BY DEF ReadRaises, ReadFails, IInv, LockHeldByReader
<1>3. ThreadsOK'
  BY <1>1, <1>2, ThreadsAfterStep DEF Lockless
<1>4. to_host' \in Seq(Packet) /\ scrap' \in BOOLEAN /\ lossy' \subseteq Lids
  <2>1. CASE NothingRead
    BY <2>1 DEF NothingRead, IInv, TypeOK
  <2>2. CASE PacketSpoiled
    <3>1. CASE UNCHANGED <<to_host, lossy>>
      BY <2>2, <3>1 DEF PacketSpoiled, IInv, TypeOK
    <3>2. CASE to_host # <<>> /\ to_host' = Tail(to_host)
               /\ lossy' = lossy \cup {Head(to_host).arg1}
      <4>1. Head(to_host) \in Packet /\ Tail(to_host) \in Seq(Packet)
        BY <3>2 DEF IInv, TypeOK
      <4>2. Head(to_host).arg1 \in Lids
        BY <4>1 DEF Packet
      <4> QED BY <2>2, <3>2, <4>1, <4>2 DEF PacketSpoiled, IInv, TypeOK
    <3> QED BY <2>2, <3>1, <3>2 DEF PacketSpoiled
  <2> QED BY <2>1, <2>2 DEF ReadRaises, ReadFails
<1>5. RestOK'
  BY <1>4 DEF ReadRaises, ReadFails, devVars, IInv, TypeOK, RestOK, StoreOK
<1> QED BY <1>3, <1>5, IInvParts

(* A step to y of a thread that does not hold the lock.                    *)
LEMMA LocklessStep ==
  ASSUME IInv, NEW t \in Threads, th[t].pc \notin {"recheck", "wire", "dispatch"},
         NEW y, Lockless(y), th' = [th EXCEPT ![t] = y], UNCHANGED transport_lock
  PROVE  ThreadsOK'
<1>1. transport_lock # t
  BY DEF IInv, LockHeldByReader
<1> QED BY <1>1, ThreadsAfterStep DEF Lockless

LEMMA CheckTimeOK ==
  ASSUME IInv, NEW t \in Threads, CheckTime(t)
  PROVE  IInv'
<1> DEFINE y == [th[t] EXCEPT !.pc = "lock"]
<1>1. th[t] \in Thread /\ ThreadOK(th[t]) /\ th[t].pc = "time"
  BY DEF CheckTime, IInv, TypeOK
<1>2. Lockless(y)
  BY <1>1 DEF Lockless, ThreadOK, Thread, Sending, Reading
<1>3. Lockless(Raised(th[t]))
  BY <1>1, RaisedIsLockless DEF Reading
<1>4. th' = [th EXCEPT ![t] = y] \/ th' = [th EXCEPT ![t] = Raised(th[t])]
  BY DEF CheckTime
<1>5. ThreadsOK'
  <2> HIDE DEF y
  <2> QED BY <1>1, <1>2, <1>3, <1>4, LocklessStep DEF CheckTime, ioVars
<1>6. RestOK'
  BY DEF CheckTime, ioVars, devVars, IInv, TypeOK, RestOK, StoreOK
<1> QED BY <1>5, <1>6, IInvParts

LEMMA LeaveStreamOK ==
  ASSUME IInv, NEW t \in Threads, LeaveStream(t)
  PROVE  IInv'
<1>1. ThreadsOK'
  BY IdleIsLockless, LocklessStep DEF LeaveStream, ioVars
<1>2. th[t].lid \in Lids
  BY DEF LeaveStream, IInv, TypeOK, ThreadOK, Reading
<1>3. RestOK'
  BY <1>2 DEF LeaveStream, ioVars, devVars, IInv, TypeOK, RestOK, StoreOK
<1> QED BY <1>1, <1>3, IInvParts

-----------------------------------------------------------------------------
(* Opening, sending, closing and connecting keep the invariant.            *)

LEMMA StartOK ==
  ASSUME IInv, NEW t \in Threads, NEW o \in Ops, Start(t, o)
  PROVE  IInv'
<1> DEFINE y == [IdleThread EXCEPT !.pc = "open", !.op = o, !.lid = local_id']
<1>1. local_id' \in Lids
  BY StreamsAssumption DEF Start, IInv, TypeOK, Lids
<1>2. Lockless(y)
  <2>1. /\ y \in Thread /\ y.pc = "open" /\ y.op = o /\ y.lid = local_id' /\ y.ctx = None
        /\ y.rid = None
    BY <1>1 DEF IdleThread, Thread, Sending
  <2> HIDE DEF y
  <2> QED BY <1>1, <2>1 DEF Lockless, ThreadOK, Sending, Reading
<1>3. ThreadsOK'
  <2> HIDE DEF y
  <2>1. th' = [th EXCEPT ![t] = y]
    BY DEF Start, y
  <2> QED BY <1>2, <2>1, LocklessStep DEF Start, ioVars
<1>4. RestOK'
  BY <1>1 DEF Start, ioVars, devVars, IInv, TypeOK, RestOK, StoreOK
<1> QED BY <1>3, <1>4, IInvParts

LEMMA SendOK ==
  ASSUME IInv, NEW t \in Threads, Send(t)
  PROVE  IInv'
<1> DEFINE x == th[t]
<1>1. x \in Thread /\ ThreadOK(x) /\ x.pc \in Sending
  BY DEF Send, IInv, TypeOK
<1>2. ThreadsOK'
  <2>1. th' = [th EXCEPT ![t] = Sent(x)] /\ UNCHANGED transport_lock
    BY DEF Send, ioVars
  <2>2. Lockless(Sent(x))
    BY <1>1, SentIsLockless
  <2> QED BY <1>1, <2>1, <2>2, LocklessStep DEF Sending
<1>3. to_dev' \in Seq(HostPacket)
  BY <1>1, MessageIsPacket DEF Send, IInv, TypeOK
<1>4. received' \in [Lids -> Seq(Data)]
  <2>1. CASE x.pc = "okay"
    <3>1. x.lid \in Lids /\ x.pkt.data \in Data
      BY <1>1, <2>1 DEF ThreadOK, Sending, Packet
    <3>2. received' = [received EXCEPT ![x.lid] = Append(received[x.lid], x.pkt.data)]
      BY <2>1 DEF Send
    <3>3. Append(received[x.lid], x.pkt.data) \in Seq(Data)
      BY <3>1 DEF IInv, TypeOK
    <3> QED BY <3>1, <3>2, <3>3 DEF IInv, TypeOK
  <2> QED BY <2>1 DEF Send, IInv, TypeOK
<1>5. complete' \subseteq Lids
  BY <1>1 DEF Send, IInv, TypeOK, ThreadOK, Sending
<1>6. RestOK'
  BY <1>3, <1>4, <1>5 DEF Send, ioVars, devVars, IInv, TypeOK, RestOK, StoreOK
<1> QED BY <1>2, <1>6, IInvParts

LEMMA SendRaisesOK ==
  ASSUME IInv, NEW t \in Threads, SendRaises(t)
  PROVE  IInv'
<1>1. th[t] \in Thread /\ ThreadOK(th[t]) /\ th[t].pc \in Sending
  BY DEF SendRaises, IInv, TypeOK
<1>2. ThreadsOK'
  <2>1. Lockless(Raised(th[t]))
    BY <1>1, RaisedIsLockless
  <2>2. th' = [th EXCEPT ![t] = Raised(th[t])]
    BY DEF SendRaises
  <2> QED BY <1>1, <2>1, <2>2, LocklessStep DEF SendRaises, ioVars, Sending
<1>3. to_dev' \in Seq(HostPacket)
  <2>1. to_dev' \in {to_dev, Append(to_dev, Message(th[t]))}
    BY DEF SendRaises
  <2>2. Message(th[t]) \in HostPacket /\ to_dev \in Seq(HostPacket)
    BY <1>1, MessageIsPacket DEF IInv, TypeOK
  <2> QED BY <2>1, <2>2
<1>4. RestOK'
  BY <1>3 DEF SendRaises, ioVars, devVars, IInv, TypeOK, RestOK, StoreOK
<1> QED BY <1>2, <1>4, IInvParts

LEMMA CallResetOK ==
  ASSUME IInv, NEW t \in Threads, NEW call \in {"close", "connect"}, CallReset(t, call)
  PROVE  IInv'
<1> DEFINE y == [th[t] EXCEPT !.pc = call]
<1>1. Lockless(y)
  <2>1. y \in Thread
    BY DEF IInv, TypeOK, Thread
  <2>2. y.pc = call
    BY DEF IInv, TypeOK, Thread
  <2> HIDE DEF y
  <2> QED BY <2>1, <2>2 DEF Lockless, ThreadOK, Sending, Reading
<1>2. ThreadsOK'
  <2> HIDE DEF y
  <2>1. th' = [th EXCEPT ![t] = y]
    BY DEF CallReset, y
  <2> QED BY <1>1, <2>1, LocklessStep DEF CallReset, ioVars
<1>3. resets' \in 0 .. MaxResets
  BY StreamsAssumption DEF CallReset, IInv, TypeOK
<1>4. RestOK'
  BY <1>3 DEF CallReset, ioVars, devVars, IInv, TypeOK, RestOK, StoreOK
<1> QED BY <1>2, <1>4, IInvParts

(* The device's streams are lost with the connection.                      *)
LEMMA DropConnectionOK ==
  ASSUME IInv, DropConnection
  PROVE  /\ to_host' \in Seq(Packet) /\ scrap' \in BOOLEAN /\ to_dev' \in Seq(HostPacket)
         /\ dev' \in [Lids -> DevStream] /\ dev_id' \in Nat
<1>1. \A l \in Lids : [dev[l] EXCEPT !.st = "gone"] \in DevStream /\ dev[l] \in DevStream
  BY DEF IInv, TypeOK, DevStream
<1>2. scrap' \in BOOLEAN
  BY DEF DropConnection
<1> QED BY <1>1, <1>2 DEF DropConnection

LEMMA CloseTransportOK ==
  ASSUME IInv, NEW t \in Threads, CloseTransport(t)
  PROVE  IInv'
<1>1. ThreadsOK'
  BY IdleIsLockless, LocklessStep DEF CloseTransport
<1>2. StoreOK'
  BY DEF CloseTransport, StoreOK, EmptyStore
<1>3. RestOK'
  BY <1>2, DropConnectionOK DEF CloseTransport, IInv, TypeOK, RestOK
<1> QED BY <1>1, <1>3, IInvParts

LEMMA ConnectTransportOK ==
  ASSUME IInv, NEW t \in Threads, ConnectTransport(t)
  PROVE  IInv'
<1> DEFINE y == [th[t] EXCEPT !.pc = "connected"]
<1>1. Lockless(y)
  <2>1. y \in Thread
    BY DEF IInv, TypeOK, Thread
  <2>2. y.pc = "connected"
    BY DEF IInv, TypeOK, Thread
  <2> HIDE DEF y
  <2> QED BY <2>1, <2>2 DEF Lockless, ThreadOK, Sending, Reading
<1>2. ThreadsOK'
  <2> HIDE DEF y
  <2>1. th' = [th EXCEPT ![t] = y] \/ th' = [th EXCEPT ![t] = IdleThread]
    BY DEF ConnectTransport, Reconnect, y
  <2> QED BY <1>1, <2>1, IdleIsLockless, LocklessStep DEF ConnectTransport, Reconnect
<1>3. StoreOK'
  BY DEF ConnectTransport, Reconnect, StoreOK, EmptyStore
<1>4. RestOK'
  BY <1>3, DropConnectionOK DEF ConnectTransport, Reconnect, IInv, TypeOK, RestOK
<1> QED BY <1>2, <1>4, IInvParts

LEMMA SetAvailableOK ==
  ASSUME IInv, NEW t \in Threads, SetAvailable(t)
  PROVE  IInv'
<1>1. ThreadsOK'
  BY IdleIsLockless, LocklessStep DEF SetAvailable, ioVars
<1>2. RestOK'
  BY DEF SetAvailable, ioVars, devVars, IInv, TypeOK, RestOK, StoreOK
<1> QED BY <1>1, <1>2, IInvParts

-----------------------------------------------------------------------------
(* The device keeps the invariant.                                         *)

(* A step that changes only the device and the wire.                       *)
LEMMA DeviceStep ==
  ASSUME IInv, UNCHANGED devRest,
         to_host' \in Seq(Packet), to_dev' \in Seq(HostPacket),
         dev' \in [Lids -> DevStream], dev_id' \in Nat
  PROVE  IInv'
<1>1. ThreadsOK'
  BY DEF devRest, ioVars, IInv, TypeOK, ThreadsOK, ThreadOK, LockHeldByReader
<1>2. RestOK'
  BY DEF devRest, ioVars, IInv, TypeOK, RestOK, StoreOK
<1> QED BY <1>1, <1>2, IInvParts

LEMMA ReplyOK ==
  ASSUME IInv, NEW cmd \in {"OKAY", "CLSE"}, NEW l \in Lids, NEW r \in Nat, Reply(cmd, l, r)
  PROVE  to_host' \in Seq(Packet)
<1>1. Msg(cmd, r, l, None) \in Packet
  BY StreamsAssumption DEF Msg, Packet, Lids
<1> QED BY <1>1 DEF Reply, IInv, TypeOK

LEMMA DevReceiveOK ==
  ASSUME IInv, DevReceive
  PROVE  IInv'
<1> DEFINE m == Head(to_dev)
           l == m.arg0
           d == dev[l]
<1>1. m \in HostPacket /\ to_dev' \in Seq(HostPacket)
  BY DEF DevReceive, IInv, TypeOK
<1>2. l \in Lids /\ m.arg1 \in Nat /\ m.data \in Ops \cup {None} /\ d \in DevStream
  BY <1>1 DEF HostPacket, IInv, TypeOK
<1>3. dev_id \in Nat /\ dev \in [Lids -> DevStream] /\ to_host \in Seq(Packet)
  BY DEF IInv, TypeOK
<1> HIDE DEF m
<1>4. CASE DevOpen(m)
  <2>1. CASE dev_id' = dev_id + 1
    <3> DEFINE e == [st |-> "open", rid |-> dev_id + 1, op |-> m.data,
                     credit |-> Window, n |-> 0, asked |-> FALSE]
    <3>1. e \in DevStream
      BY <1>2, <1>3, StreamsAssumption DEF DevStream
    <3>2. CASE dev' = [dev EXCEPT ![l] = e] /\ Reply("OKAY", l, dev_id + 1)
      BY <1>1, <1>2, <1>3, <2>1, <3>1, <3>2, ReplyOK, DeviceStep DEF DevReceive
    <3>3. CASE Reply("CLSE", l, 0) /\ UNCHANGED devVars
      BY <1>1, <1>2, <1>3, <3>3, ReplyOK, DeviceStep DEF DevReceive, devVars
    <3> QED BY <1>4, <3>2, <3>3 DEF DevOpen
  <2>2. CASE Reply("CLSE", l, 0) /\ UNCHANGED devVars
    BY <1>1, <1>2, <1>3, <2>2, ReplyOK, DeviceStep DEF DevReceive, devVars
  <2> QED BY <1>4, <2>1, <2>2 DEF DevOpen
<1>5. CASE DevHandle(m)
  <2>1. \/ UNCHANGED <<dev, to_host>>
        \/ /\ dev' = [dev EXCEPT ![l].credit =
                               IF d.credit < Window THEN d.credit + 1 ELSE d.credit]
           /\ UNCHANGED to_host
        \/ dev' = [dev EXCEPT ![l].asked = TRUE] /\ Reply("OKAY", l, d.rid)
        \/ dev' = [dev EXCEPT ![l].st = "closed"] /\ Reply("CLSE", l, d.rid)
    BY <1>1, <1>5 DEF DevHandle, HostPacket
  <2>2. d.rid \in Nat
    BY <1>2 DEF DevStream
  <2>3. to_host' \in Seq(Packet)
    BY <1>2, <1>3, <2>1, <2>2, ReplyOK
  <2>4. dev' \in [Lids -> DevStream]
    <3> DEFINE n == IF d.credit < Window THEN d.credit + 1 ELSE d.credit
               a == [d EXCEPT !.credit = n]
               b == [d EXCEPT !.asked = TRUE]
               c == [d EXCEPT !.st = "closed"]
    <3>1. a \in DevStream /\ b \in DevStream /\ c \in DevStream
      <4>1. n \in 0 .. Window
        BY <1>2, StreamsAssumption DEF DevStream
      <4> HIDE DEF n, d
      <4> QED BY <1>2, <4>1 DEF DevStream
    <3>2. \/ dev' = dev \/ dev' = [dev EXCEPT ![l] = a]
          \/ dev' = [dev EXCEPT ![l] = b] \/ dev' = [dev EXCEPT ![l] = c]
      <4>1. CASE dev' = [dev EXCEPT ![l].credit = n]
        BY <4>1
      <4>2. CASE dev' = [dev EXCEPT ![l].asked = TRUE]
        BY <4>2
      <4>3. CASE dev' = [dev EXCEPT ![l].st = "closed"]
        BY <4>3
      <4> QED BY <2>1, <4>1, <4>2, <4>3
    <3> HIDE DEF a, b, c
    <3> QED BY <1>2, <1>3, <3>1, <3>2
  <2>5. UNCHANGED dev_id /\ UNCHANGED devRest
    BY <1>5 DEF DevHandle, DevReceive
  <2> QED BY <1>1, <1>3, <2>3, <2>4, <2>5, DeviceStep
<1> QED BY <1>4, <1>5 DEF DevReceive, m

LEMMA DevSendOK ==
  ASSUME IInv, NEW l \in Lids, DevSend(l)
  PROVE  IInv'
<1>1. dev[l] \in DevStream /\ dev[l].n < Chunks /\ dev[l].credit > 0
  BY DEF DevSend, DevCanSend, IInv, TypeOK
<1>2. Msg("WRTE", dev[l].rid, l, <<l, dev[l].n + 1>>) \in Packet
  BY <1>1, StreamsAssumption DEF Msg, Packet, Data, DevStream, Lids
<1>3. to_host' \in Seq(Packet)
  BY <1>2 DEF DevSend, IInv, TypeOK
<1>4. dev' \in [Lids -> DevStream]
  <2>1. dev[l].n + 1 \in 0 .. Chunks /\ dev[l].credit - 1 \in 0 .. Window
    BY <1>1, StreamsAssumption DEF DevStream
  <2>2. [dev[l] EXCEPT !.n = dev[l].n + 1, !.credit = dev[l].credit - 1] \in DevStream
    BY <1>1, <2>1 DEF DevStream
  <2> QED BY <2>2 DEF DevSend, IInv, TypeOK
<1> QED BY <1>3, <1>4, DeviceStep DEF DevSend, IInv, TypeOK

LEMMA DevCloseOK ==
  ASSUME IInv, NEW l \in Lids, DevClose(l)
  PROVE  IInv'
<1>1. dev[l] \in DevStream
  BY DEF IInv, TypeOK
<1>2. dev[l].rid \in Nat /\ [dev[l] EXCEPT !.st = "closed"] \in DevStream
  BY <1>1 DEF DevStream
<1>3. to_host' \in Seq(Packet)
  BY <1>2, ReplyOK DEF DevClose
<1> QED BY <1>2, <1>3, DeviceStep DEF DevClose, IInv, TypeOK

-----------------------------------------------------------------------------
(* The theorems.                                                           *)

LEMMA NextOK == IInv /\ [Next]_vars => IInv'
<1> SUFFICES ASSUME IInv, [Next]_vars PROVE IInv'
  OBVIOUS
<1>1. CASE UNCHANGED vars
  BY <1>1 DEF vars, IInv, TypeOK, ThreadOK, StoreOK, LockHeldByReader
<1>2. CASE Device
  BY <1>2, DevReceiveOK, DevSendOK, DevCloseOK DEF Device
<1>3. ASSUME NEW t \in Threads, Run(t) PROVE IInv'
  <2>1. CASE ReadStore(t)
    BY <2>1, SearchStoreOK DEF ReadStore
  <2>2. CASE RecheckStore(t)
    BY <2>2, SearchStoreOK DEF RecheckStore
  <2> QED BY <1>3, <2>1, <2>2, LockTransportOK, ReadWireOK, DispatchOK, SendOK, SendRaisesOK,
             ReadRaisesOK, CheckTimeOK, LeaveStreamOK, CloseTransportOK, ConnectTransportOK,
             SetAvailableOK DEF Run
<1>4. ASSUME NEW t \in Threads, Call(t) PROVE IInv'
  BY <1>4, StartOK, CallResetOK DEF Call
<1> QED BY <1>1, <1>2, <1>3, <1>4 DEF Next, Resting

(* Every variable keeps its type, each packet kind its contents, and a     *)
(* thread has at each step what the step uses.                             *)
THEOREM TypeCorrectness == Spec => []TypeOK
<1>1. Spec => []IInv
  BY InitOK, NextOK, PTL DEF Spec
<1>2. IInv => TypeOK
  BY DEF IInv
<1> QED BY <1>1, <1>2, PTL

(* The transport lock is held by the one thread that reads the wire, and   *)
(* released on every way out of read, for any number of threads.           *)
THEOREM LockIsReaders == Spec => []LockHeldByReader
<1>1. Spec => []IInv
  BY InitOK, NextOK, PTL DEF Spec
<1>2. IInv => LockHeldByReader
  BY DEF IInv
<1> QED BY <1>1, <1>2, PTL

(* So two threads never read the wire, or hold a packet off it, at once.   *)
THEOREM OneReader ==
  Spec => [](\A t, u \in Threads :
               th[t].pc \in {"recheck", "wire", "dispatch"}
               /\ th[u].pc \in {"recheck", "wire", "dispatch"} => t = u)
<1> DEFINE One == \A t, u \in Threads :
                    th[t].pc \in {"recheck", "wire", "dispatch"}
                    /\ th[u].pc \in {"recheck", "wire", "dispatch"} => t = u
<1>1. LockHeldByReader => One
  BY DEF LockHeldByReader
<1> QED BY <1>1, LockIsReaders, PTL

-----------------------------------------------------------------------------
(***************************************************************************)
(* Delivery: what the device sends on a stream reaches the command that    *)
(* reads the stream, whatever the other threads do.                        *)
(*                                                                         *)
(* The invariant DInv looks at a stream l as one pipe, which begins in the *)
(* packet store, goes through the hand of whoever has just read the wire,  *)
(* and ends on the wire.  Its parts say that every stream has one thread   *)
(* (LidsOK), that a stream nobody asked for is empty (FreshOK), that ids   *)
(* are of this connection (OriginOK), that a stream is opened and asked    *)
(* once (RequestsOK), that the pipe is in the device's order (PipesOK),    *)
(* and that what a reader waits for is in it (ReadersOK).                  *)
(*                                                                         *)
(* There is a lemma for each action (DSend, DDispatch, ...).  Most follow  *)
(* from one of three: HostStep, for a thread that leaves the pipes alone,  *)
(* ReaderStep, for one that takes or moves a packet, and DevStep, for a    *)
(* step of the device.                                                     *)
(***************************************************************************)

(* The packets of one stream on their way to its reader.                   *)

Body(p) == [cmd |-> p.cmd, data |-> p.data]

Mine(w, l) == {i \in DOMAIN w : w[i].arg1 = l}

(* A queue q of the store, the packets H in the hand of a reader, and      *)
(* those of the wire w that are for the stream l.                          *)
Contents(q, H, w, l) ==
  {q[i] : i \in DOMAIN q} \cup {Body(p) : p \in H} \cup {Body(w[i]) : i \in Mine(w, l)}

(* The order a device sends in: OKAYs, then the data, then a CLSE.         *)
Rank(e) == IF e.cmd = "OKAY" THEN 0 ELSE IF e.cmd = "WRTE" THEN e.data[2] ELSE Chunks + 1

Before(a, b) == Rank(a) < Rank(b) \/ (a.cmd = "OKAY" /\ b.cmd = "OKAY")

Ordered(q, H, w, l) ==
  /\ \A i, j \in DOMAIN q : i < j => Before(q[i], q[j])
  /\ \A i \in DOMAIN q, p \in H : Before(q[i], Body(p))
  /\ \A i \in DOMAIN q, j \in Mine(w, l) : Before(q[i], Body(w[j]))
  /\ \A p \in H, j \in Mine(w, l) : Before(Body(p), Body(w[j]))
  /\ \A i, j \in Mine(w, l) : i < j => Before(Body(w[i]), Body(w[j]))

Queue(l) == QueueOf(store, <<dev[l].rid, l>>)
Hand(l) == {th[u].pkt : u \in {x \in Threads : th[x].pc = "dispatch" /\ th[x].pkt.arg1 = l}}
C(l) == Contents(Queue(l), Hand(l), to_host, l)
Ok == [cmd |-> "OKAY", data |-> None]
Wrte(l, j) == [cmd |-> "WRTE", data |-> <<l, j>>]

-----------------------------------------------------------------------------
(* The inductive invariant.                                                *)

(* Every stream has one thread at most.                                    *)
LidsOK ==
  /\ \A t \in Threads : th[t].lid <= local_id
  /\ \A t, u \in Threads : th[t].lid = th[u].lid /\ th[t].lid # 0 => t = u

(* Of a stream that was not asked for yet there is nothing.                *)
Untouched(l) == dev[l].st = "none" /\ C(l) = {}

FreshOK ==
  /\ \A l \in Lids : l > local_id => Untouched(l)
  /\ \A t \in Threads : th[t].pc = "open" => Untouched(th[t].lid)

(* The device's ids in packets, and in the keys of the store, are those of *)
(* the streams of this connection.                                         *)
Current(l, r) == l \in Lids /\ dev[l].st \in {"open", "closed"} /\ r = dev[l].rid

Origin(p) ==
  \/ Current(p.arg1, p.arg0)
  \/ p.arg1 \in Lids /\ dev[p.arg1].st = "none" /\ p.arg0 = 0 /\ p.cmd = "CLSE"

OriginOK ==
  /\ \A i \in DOMAIN to_host : Origin(to_host[i])
  /\ \A t \in Threads : th[t].pc = "dispatch" => Origin(th[t].pkt)
  /\ \A k \in DOMAIN store : Current(k[2], k[1])

(* A stream is opened once, and asked once.                                *)
Clash(m, n) ==
  /\ m.arg0 = n.arg0
  /\ m.cmd = "OPEN" \/ n.cmd = "OPEN" \/ (m.cmd = "WRTE" /\ n.cmd = "WRTE")

Request(m) ==
  /\ m.arg0 <= local_id
  /\ m.cmd = "OPEN" => Untouched(m.arg0)
  /\ m.cmd = "WRTE" /\ dev[m.arg0].st # "gone" =>
       dev[m.arg0].st # "none" /\ dev[m.arg0].op # Shell /\ ~dev[m.arg0].asked

Sender(x, m) ==
  m.arg0 = x.lid =>
    /\ x.pc # "open"
    /\ m.cmd = "OPEN" => x.ctx = "open" /\ x.op = m.data
    /\ m.cmd = "WRTE" => x.ctx # "open" /\ x.pc # "request"

RequestsOK ==
  /\ \A i, j \in DOMAIN to_dev : Clash(to_dev[i], to_dev[j]) => i = j
  /\ \A i \in DOMAIN to_dev : Request(to_dev[i])
  /\ \A i \in DOMAIN to_dev, t \in Threads : Sender(th[t], to_dev[i])

(* The device's end of a stream, what its caller was given, and what is on *)
(* the way between them.                                                   *)
Given(l, r) == r = [i \in 1 .. Len(r) |-> <<l, i>>]

Ends(l, d, r, L) ==
  /\ d.st = "none" => d.n = 0 /\ ~d.asked
  /\ d.op # Shell /\ ~d.asked => d.n = 0
  /\ Last(r) <= d.n
  /\ l \notin L => Given(l, r)

OnTheWay(l, d, e) ==
  /\ e.cmd = "WRTE" => e.data[1] = l /\ e.data[2] <= d.n
  /\ e.cmd = "CLSE" => d.st \in {"none", "closed"}

PipesOK ==
  \A l \in Lids :
    /\ Ends(l, dev[l], received[l], lossy)
    /\ Ordered(Queue(l), Hand(l), to_host, l)
    /\ \A e \in C(l) : OnTheWay(l, dev[l], e)

(* The place of the chunk in the hand of a reader.                         *)
InHand(x) == x.pkt.data[2]

(* A command, the device's end d of its stream, the place r of the last    *)
(* chunk its caller was given, and the streams L that a read has spoiled.  *)
Commanded(x, d, r, L) ==
  /\ x.pc \in {"idle", "close", "connect", "connected"} => x.ctx = None /\ x.lid = 0
  /\ x.pc = "open" \/ x.ctx = "open" => x.rid = None
  /\ x.ctx \in {"stream", "flush", "filesync", "clse"} /\ d.st # "gone" =>
       d.st # "none" /\ x.rid = d.rid /\ x.op = d.op
  /\ x.ctx = "stream" => x.op = Shell
  /\ x.ctx \in {"flush", "filesync"} => x.op \in {Stat, Pull}
  /\ x.failing => x.pc = "clse" \/ x.ctx = "clse"
  /\ x.pc = "request" => x.ctx = "flush" /\ ~x.failing
  /\ x.pc = "okay" => /\ ~x.failing /\ x.ctx \in {"stream", "filesync"}
                      /\ InHand(x) \in Nat /\ x.pkt.data = <<x.lid, InHand(x)>>
                      /\ r < InHand(x) /\ InHand(x) <= d.n
                      /\ x.lid \notin L => InHand(x) = r + 1
  /\ x.pc = "reclose" => /\ x.ctx = "stream" /\ d.st \in {"closed", "gone"}
                         /\ x.lid \notin L => r = d.n

(* A reader of a stream that is not lost and that nothing went wrong with. *)
Live(x, d) == x.ctx \in {"open", "stream", "flush", "filesync"} /\ ~x.failing /\ d.st # "gone"

(* The place of the last chunk the caller was given or is about to be.     *)
Pos(x, r) == IF x.pc = "okay" THEN InHand(x) ELSE r

(* What it relies on, with the contents c of its stream on the way: what   *)
(* its caller was not given is there, and so is the OKAY it waits for,     *)
(* unless a read has spoiled the stream; nothing else is; and while it     *)
(* reads the wire its queue q of the store is empty.                       *)
Served(x, d, r, c, q, L) ==
  /\ \A e \in c : e.cmd = "WRTE" => e.data[2] > Pos(x, r)
  /\ x.lid \notin L => \A j \in Pos(x, r) + 1 .. d.n : Wrte(x.lid, j) \in c
  /\ x.ctx = "open" /\ d.st # "none" => x.op = d.op
  /\ x.lid \notin L /\ x.ctx = "open" /\ d.st # "none" => Ok \in c
  /\ x.ctx = "open" \/ x.pc = "request" => ~d.asked
  /\ x.lid \notin L /\ x.ctx = "flush" /\ d.asked => Ok \in c
  /\ x.pc \in {"wire", "dispatch"} => q = <<>>

ReaderOK(x) ==
  /\ Commanded(x, dev[x.lid], Last(received[x.lid]), lossy)
  /\ Live(x, dev[x.lid]) =>
       Served(x, dev[x.lid], Last(received[x.lid]), C(x.lid), Queue(x.lid), lossy)

ReadersOK == \A t \in Threads : ReaderOK(th[t])

DInv ==
  /\ IInv
  /\ LidsOK
  /\ FreshOK
  /\ OriginOK
  /\ RequestsOK
  /\ PipesOK
  /\ ReadersOK

-----------------------------------------------------------------------------
(* Lemmas on the order of packets.                                         *)

LEMMA BodyIsStored ==
  ASSUME NEW p \in Packet
  PROVE  Body(p) \in Stored /\ Body(p).cmd = p.cmd /\ Body(p).data = p.data
BY DEF Body, Packet, Stored

LEMMA StoredFacts ==
  ASSUME NEW e \in Stored
  PROVE  /\ e.cmd \in {"OKAY", "WRTE", "CLSE"} /\ e = [cmd |-> e.cmd, data |-> e.data]
         /\ e.cmd = "WRTE" => e.data \in Data /\ e.data[1] \in Lids /\ e.data[2] \in 1 .. Chunks
         /\ e.cmd # "WRTE" => e.data = None
BY DEF Stored, Data

LEMMA RankFacts ==
  ASSUME NEW e \in Stored
  PROVE  /\ e.cmd = "OKAY" => Rank(e) = 0
         /\ e.cmd = "WRTE" => Rank(e) = e.data[2] /\ Rank(e) \in 1 .. Chunks
         /\ e.cmd = "CLSE" => Rank(e) = Chunks + 1
         /\ Rank(e) \in 0 .. Chunks + 1
BY StoredFacts, StreamsAssumption DEF Rank

(* What comes before what.                                                 *)
LEMMA BeforeFacts ==
  ASSUME NEW a \in Stored, NEW b \in Stored
  PROVE  /\ a.cmd = "CLSE" => ~Before(a, b)
         /\ b.cmd = "OKAY" => (Before(a, b) <=> a.cmd = "OKAY")
         /\ a.cmd = "OKAY" => (Before(a, b) <=> TRUE)
         /\ a.cmd = "WRTE" /\ b.cmd = "WRTE" => (Before(a, b) <=> a.data[2] < b.data[2])
         /\ b.cmd = "CLSE" => (Before(a, b) <=> a.cmd # "CLSE")
<1> DEFINE r == Rank(a)
           s == Rank(b)
<1>1. /\ a.cmd = "OKAY" => r = 0
      /\ a.cmd = "WRTE" => r = a.data[2] /\ r \in 1 .. Chunks
      /\ a.cmd = "CLSE" => r = Chunks + 1
      /\ r \in 0 .. Chunks + 1
  BY RankFacts
<1>2. /\ b.cmd = "OKAY" => s = 0
      /\ b.cmd = "WRTE" => s = b.data[2] /\ s \in 1 .. Chunks
      /\ b.cmd = "CLSE" => s = Chunks + 1
      /\ s \in 0 .. Chunks + 1
  BY RankFacts
<1>3. a.cmd \in {"OKAY", "WRTE", "CLSE"} /\ b.cmd \in {"OKAY", "WRTE", "CLSE"} /\ Chunks \in Nat
  BY StoredFacts, StreamsAssumption
<1>4. Before(a, b) <=> r < s \/ (a.cmd = "OKAY" /\ b.cmd = "OKAY")
  BY DEF Before
<1> HIDE DEF r, s
<1> QED BY <1>1, <1>2, <1>3, <1>4

LEMMA MineAppend ==
  ASSUME NEW w \in Seq(Packet), NEW p \in Packet, NEW l
  PROVE  LET v == Append(w, p)
             n == Len(w) + 1
         IN  /\ \A i \in Mine(v, l) : \/ (i \in Mine(w, l) /\ v[i] = w[i] /\ i < n /\ i \in Nat)
                                     \/ (p.arg1 = l /\ i = n /\ v[i] = p)
             /\ \A i \in Mine(w, l) : i \in Mine(v, l) /\ v[i] = w[i]
             /\ p.arg1 = l => n \in Mine(v, l) /\ v[n] = p
<1> DEFINE v == Append(w, p)
           n == Len(w) + 1
<1>1. /\ DOMAIN v = DOMAIN w \cup {n} /\ v[n] = p /\ n \in Nat
      /\ \A i \in DOMAIN w : v[i] = w[i] /\ i < n /\ i \in Nat /\ i # n
  OBVIOUS
<1> HIDE DEF v, n
<1>2. \A i \in Mine(v, l) : \/ (i \in Mine(w, l) /\ v[i] = w[i] /\ i < n /\ i \in Nat)
                           \/ (p.arg1 = l /\ i = n /\ v[i] = p)
  BY <1>1 DEF Mine
<1>3. \A i \in Mine(w, l) : i \in Mine(v, l) /\ v[i] = w[i]
  BY <1>1 DEF Mine
<1>4. p.arg1 = l => n \in Mine(v, l) /\ v[n] = p
  BY <1>1 DEF Mine
<1> QED BY <1>2, <1>3, <1>4 DEF v, n

LEMMA MineTail ==
  ASSUME NEW w \in Seq(Packet), w # <<>>, NEW l
  PROVE  /\ \A i \in Mine(Tail(w), l) : i + 1 \in Mine(w, l) /\ Tail(w)[i] = w[i + 1] /\ i \in Nat \ {0}
         /\ \A i \in Mine(w, l) : i = 1 \/ (i - 1 \in Mine(Tail(w), l) /\ Tail(w)[i - 1] = w[i])
         /\ \A i \in Mine(w, l) : i \in Nat \ {0}
         /\ 1 \in Mine(w, l) <=> Head(w).arg1 = l
         /\ w[1] = Head(w)
BY DEF Mine

(* A packet that is sent comes last.                                       *)
LEMMA SendContents ==
  ASSUME NEW q, NEW H, NEW w \in Seq(Packet), NEW p \in Packet, NEW l
  PROVE  Contents(q, H, Append(w, p), l)
           = Contents(q, H, w, l) \cup {Body(e) : e \in {x \in {p} : x.arg1 = l}}
<1> DEFINE v == Append(w, p)
           n == Len(w) + 1
           G == {x \in {p} : x.arg1 = l}
<1>1. /\ \A i \in Mine(v, l) : \/ (i \in Mine(w, l) /\ v[i] = w[i] /\ i < n /\ i \in Nat)
                               \/ (p.arg1 = l /\ i = n /\ v[i] = p)
      /\ \A i \in Mine(w, l) : i \in Mine(v, l) /\ v[i] = w[i]
      /\ p.arg1 = l => n \in Mine(v, l) /\ v[n] = p
  BY MineAppend
<1>2. (\A x \in G : x = p /\ p.arg1 = l) /\ (p.arg1 = l => p \in G)
  OBVIOUS
<1> HIDE DEF v, n, G
<1>3. {Body(v[i]) : i \in Mine(v, l)} = {Body(w[i]) : i \in Mine(w, l)} \cup {Body(e) : e \in G}
  BY <1>1, <1>2
<1> QED BY <1>3 DEF Contents, v, G

LEMMA SendOrdered ==
  ASSUME NEW q, NEW H, NEW w \in Seq(Packet), NEW p \in Packet, NEW l, Ordered(q, H, w, l),
         p.arg1 = l => \A e \in Contents(q, H, w, l) : Before(e, Body(p))
  PROVE  Ordered(q, H, Append(w, p), l)
<1> DEFINE v == Append(w, p)
<1>1. \A i \in Mine(v, l) : \/ (i \in Mine(w, l) /\ v[i] = w[i] /\ i < Len(w) + 1 /\ i \in Nat)
                            \/ (p.arg1 = l /\ i = Len(w) + 1 /\ v[i] = p)
  BY MineAppend
<1>2. Len(w) \in Nat
  OBVIOUS
<1> HIDE DEF v
<1>3. /\ \A i \in DOMAIN q, j \in Mine(v, l) : Before(q[i], Body(v[j]))
      /\ \A x \in H, j \in Mine(v, l) : Before(Body(x), Body(v[j]))
  BY <1>1 DEF Ordered, Contents
<1>4. \A i, j \in Mine(v, l) : i < j => Before(Body(v[i]), Body(v[j]))
  BY <1>1, <1>2 DEF Ordered, Contents
<1> QED BY <1>3, <1>4 DEF Ordered, v

(* A packet read off the wire is in its reader's hand, and still the first *)
(* of those of its stream that are not in the store.                       *)
LEMMA TakeOffWire ==
  ASSUME NEW q, NEW w \in Seq(Packet), w # <<>>, NEW l, Ordered(q, {}, w, l)
  PROVE  LET H == {p \in {Head(w)} : p.arg1 = l}
         IN  /\ Contents(q, H, Tail(w), l) = Contents(q, {}, w, l)
             /\ Ordered(q, H, Tail(w), l)
<1> DEFINE H == {p \in {Head(w)} : p.arg1 = l}
           v == Tail(w)
<1>1. /\ \A i \in Mine(v, l) : i + 1 \in Mine(w, l) /\ v[i] = w[i + 1] /\ i \in Nat \ {0}
      /\ \A i \in Mine(w, l) : i = 1 \/ (i - 1 \in Mine(v, l) /\ v[i - 1] = w[i])
      /\ \A i \in Mine(w, l) : i \in Nat \ {0}
      /\ 1 \in Mine(w, l) <=> Head(w).arg1 = l
      /\ w[1] = Head(w)
  BY MineTail
<1>3. (\A p \in H : p = w[1] /\ 1 \in Mine(w, l)) /\ (1 \in Mine(w, l) => w[1] \in H)
  BY <1>1
<1> HIDE DEF v, H
<1>2. {Body(p) : p \in H} \cup {Body(v[i]) : i \in Mine(v, l)} = {Body(w[i]) : i \in Mine(w, l)}
  <2> DEFINE L == {Body(p) : p \in H} \cup {Body(v[i]) : i \in Mine(v, l)}
             R == {Body(w[i]) : i \in Mine(w, l)}
  <2>1. \A i \in Mine(v, l) : Body(v[i]) \in R
    BY <1>1
  <2>2. \A p \in H : Body(p) \in R
    BY <1>3
  <2>3. \A i \in Mine(w, l) : Body(w[i]) \in L
    <3> SUFFICES ASSUME NEW i \in Mine(w, l) PROVE Body(w[i]) \in L
      OBVIOUS
    <3>1. CASE i = 1
      BY <1>3, <3>1
    <3>2. CASE i # 1
      BY <1>1, <3>2
    <3> QED BY <3>1, <3>2
  <2> QED BY <2>1, <2>2, <2>3
<1>4. Contents(q, H, v, l) = Contents(q, {}, w, l)
  BY <1>2 DEF Contents
<1>5. Ordered(q, H, v, l)
  <2>1. \A i \in DOMAIN q, p \in H : Before(q[i], Body(p))
    BY <1>3 DEF Ordered
  <2>2. \A i \in DOMAIN q, j \in Mine(v, l) : Before(q[i], Body(v[j]))
    BY <1>1 DEF Ordered
  <2>3. \A p \in H, j \in Mine(v, l) : Before(Body(p), Body(v[j]))
    BY <1>1, <1>3 DEF Ordered
  <2>4. \A i, j \in Mine(v, l) : i < j => Before(Body(v[i]), Body(v[j]))
    BY <1>1 DEF Ordered
  <2> QED BY <2>1, <2>2, <2>3, <2>4 DEF Ordered
<1> QED BY <1>4, <1>5 DEF H, v

(* A packet in hand that goes to the store is the last of its queue.       *)
LEMMA HandToStore ==
  ASSUME NEW q \in Seq(Stored), NEW p \in Packet, NEW w, NEW l, Ordered(q, {p}, w, l)
  PROVE  /\ Contents(Append(q, Body(p)), {}, w, l) = Contents(q, {p}, w, l)
         /\ Ordered(Append(q, Body(p)), {}, w, l)
<1> DEFINE b == Body(p)
           r == Append(q, b)
<1>1. b \in Stored
  BY BodyIsStored
<1> HIDE DEF b
<1>2. /\ DOMAIN r = DOMAIN q \cup {Len(q) + 1} /\ r[Len(q) + 1] = b
      /\ \A i \in DOMAIN q : r[i] = q[i] /\ i < Len(q) + 1 /\ i \in Nat
      /\ Len(q) + 1 \in Nat
  BY <1>1
<1> HIDE DEF r
<1>3. Contents(r, {}, w, l) = Contents(q, {p}, w, l)
  <2>1. {r[i] : i \in DOMAIN r} = {q[i] : i \in DOMAIN q} \cup {b}
    BY <1>2
  <2> QED BY <2>1 DEF Contents, b
<1>4. Ordered(r, {}, w, l)
  <2>1. \A i, j \in DOMAIN r : i < j => Before(r[i], r[j])
    BY <1>2 DEF Ordered, b
  <2>2. \A i \in DOMAIN r, j \in Mine(w, l) : Before(r[i], Body(w[j]))
    BY <1>2 DEF Ordered, b
  <2>3. \A i, j \in Mine(w, l) : i < j => Before(Body(w[i]), Body(w[j]))
    BY DEF Ordered
  <2> QED BY <2>1, <2>2, <2>3 DEF Ordered
<1> QED BY <1>3, <1>4 DEF r, b

(* A packet that leaves the hand with nothing in the store was the first.  *)
LEMMA HandGone ==
  ASSUME NEW q, NEW p, NEW w, NEW l, Ordered(q, {p}, w, l)
  PROVE  /\ Ordered(q, {}, w, l)
         /\ Contents(q, {p}, w, l) = {Body(p)} \cup Contents(q, {}, w, l)
         /\ q = <<>> => \A e \in Contents(q, {}, w, l) : Before(Body(p), e)
BY DEF Ordered, Contents

(* So was the head of the queue.                                           *)
LEMMA QueueHead ==
  ASSUME NEW q \in Seq(Stored), q # <<>>, NEW H, NEW w, NEW l, Ordered(q, H, w, l)
  PROVE  /\ Ordered(Tail(q), H, w, l)
         /\ Contents(q, H, w, l) = {Head(q)} \cup Contents(Tail(q), H, w, l)
         /\ \A e \in Contents(Tail(q), H, w, l) : Before(Head(q), e)
<1> DEFINE r == Tail(q)
<1>1. /\ \A i \in DOMAIN r : i + 1 \in DOMAIN q /\ r[i] = q[i + 1] /\ i \in Nat \ {0}
      /\ \A i \in DOMAIN q : i = 1 \/ (i - 1 \in DOMAIN r /\ q[i] = r[i - 1])
      /\ 1 \in DOMAIN q /\ q[1] = Head(q)
  OBVIOUS
<1> HIDE DEF r
<1>2. {q[i] : i \in DOMAIN q} = {Head(q)} \cup {r[i] : i \in DOMAIN r}
  BY <1>1
<1>3. Ordered(r, H, w, l)
  <2>1. \A i, j \in DOMAIN r : i < j => Before(r[i], r[j])
    BY <1>1 DEF Ordered
  <2> QED BY <1>1, <2>1 DEF Ordered
<1>4. \A e \in Contents(r, H, w, l) : Before(Head(q), e)
  <2>1. \A i \in DOMAIN r : Before(q[1], r[i])
    BY <1>1 DEF Ordered
  <2> QED BY <1>1, <2>1 DEF Ordered, Contents
<1> QED BY <1>2, <1>3, <1>4 DEF Contents, r

(* Forgetting a queue leaves the rest in order.                            *)
LEMMA QueueGone ==
  ASSUME NEW q, NEW H, NEW w, NEW l, Ordered(q, H, w, l)
  PROVE  /\ Ordered(<<>>, H, w, l)
         /\ Contents(<<>>, H, w, l) \subseteq Contents(q, H, w, l)
BY DEF Ordered, Contents

LEMMA NothingThere ==
  ASSUME NEW w, NEW l, Mine(w, l) = {}
  PROVE  Contents(<<>>, {}, w, l) = {} /\ Ordered(<<>>, {}, w, l)
BY DEF Contents, Ordered

-----------------------------------------------------------------------------
(* What the invariant says of the state's parts.                           *)

LEMMA Types ==
  ASSUME IInv
  PROVE  /\ th \in [Threads -> Thread] /\ \A t \in Threads : ThreadOK(th[t])
         /\ \A k \in DOMAIN store : store[k] \in Seq(Stored)
         /\ local_id \in 0 .. MaxOps
         /\ to_host \in Seq(Packet) /\ to_dev \in Seq(HostPacket)
         /\ dev \in [Lids -> DevStream] /\ dev_id \in Nat
         /\ received \in [Lids -> Seq(Data)]
         /\ MaxOps \in Nat /\ Chunks \in Nat /\ None \notin Nat
BY StreamsAssumption, NoneIsNoId DEF IInv, TypeOK, StoreOK, Lids

(* The place of the last chunk.                                            *)
LEMMA LastFacts ==
  /\ Last(<<>>) = 0
  /\ \A r \in Seq(Data) : Last(r) \in Nat
  /\ \A l \in Lids, r \in Seq(Data) : Given(l, r) => Last(r) = Len(r)
  /\ \A r \in Seq(Data), e \in Data : Last(Append(r, e)) = e[2]
<1>1. Last(<<>>) = 0
  BY DEF Last
<1>2. ASSUME NEW r \in Seq(Data) PROVE Last(r) \in Nat
  <2>1. r # <<>> => r[Len(r)] \in Data
    OBVIOUS
  <2> QED BY <2>1, StreamsAssumption DEF Last, Data
<1>3. ASSUME NEW l \in Lids, NEW r \in Seq(Data), Given(l, r) PROVE Last(r) = Len(r)
  <2>1. CASE r = <<>>
    BY <2>1 DEF Last
  <2>2. CASE r # <<>>
    <3>1. Len(r) \in 1 .. Len(r)
      BY <2>2
    <3>2. r[Len(r)] = <<l, Len(r)>>
      BY <1>3, <3>1 DEF Given
    <3> QED BY <2>2, <3>2 DEF Last
  <2> QED BY <2>1, <2>2
<1>4. ASSUME NEW r \in Seq(Data), NEW e \in Data PROVE Last(Append(r, e)) = e[2]
  <2>1. Append(r, e) # <<>> /\ Append(r, e)[Len(Append(r, e))] = e
    OBVIOUS
  <2> QED BY <2>1 DEF Last
<1> QED BY <1>1, <1>2, <1>3, <1>4

LEMMA QueueIsTyped ==
  ASSUME IInv, NEW l
  PROVE  Queue(l) \in Seq(Stored)
BY Types DEF Queue, QueueOf

LEMMA HandIsTyped ==
  ASSUME IInv, NEW l, NEW p \in Hand(l)
  PROVE  p \in Packet /\ p.arg1 = l
BY Types DEF Hand, ThreadOK

LEMMA ContentsAreTyped ==
  ASSUME IInv, NEW l
  PROVE  C(l) \subseteq Stored
<1>1. \A i \in DOMAIN Queue(l) : Queue(l)[i] \in Stored
  BY QueueIsTyped
<1>2. \A p \in Hand(l) : Body(p) \in Stored
  BY HandIsTyped, BodyIsStored
<1>3. \A i \in Mine(to_host, l) : Body(to_host[i]) \in Stored
  BY Types, BodyIsStored DEF Mine
<1> QED BY <1>1, <1>2, <1>3 DEF C, Contents

(* One thread at most has a packet in hand, the holder of the lock.        *)
LEMMA HandOfReader ==
  ASSUME IInv, NEW t \in Threads, NEW l
  PROVE  /\ th[t].pc = "dispatch" => Hand(l) = {p \in {th[t].pkt} : p.arg1 = l}
         /\ th[t].pc \in {"recheck", "wire"} => Hand(l) = {}
         /\ transport_lock = None => Hand(l) = {}
<1>1. \A u \in Threads : th[u].pc = "dispatch" => transport_lock = u
  BY DEF IInv, LockHeldByReader
<1>2. th[t].pc \in {"recheck", "wire", "dispatch"} => transport_lock = t
  BY DEF IInv, LockHeldByReader
<1>3. None \notin Threads
  BY StreamsAssumption
<1>4. ASSUME th[t].pc = "dispatch"
      PROVE  Hand(l) = {p \in {th[t].pkt} : p.arg1 = l}
  <2>1. \A u \in Threads : th[u].pc = "dispatch" => u = t
    BY <1>1, <1>2, <1>4
  <2> DEFINE S == {x \in Threads : th[x].pc = "dispatch" /\ th[x].pkt.arg1 = l}
  <2>2. Hand(l) = {th[u].pkt : u \in S}
    BY DEF Hand
  <2>3. CASE th[t].pkt.arg1 = l
    <3>1. S = {t}
      BY <1>4, <2>1, <2>3
    <3> HIDE DEF S
    <3>2. Hand(l) = {th[t].pkt}
      BY <2>2, <3>1
    <3> QED BY <2>3, <3>2
  <2>4. CASE th[t].pkt.arg1 # l
    <3>1. S = {}
      BY <1>4, <2>1, <2>4
    <3> HIDE DEF S
    <3> QED BY <2>2, <2>4, <3>1
  <2> QED BY <2>3, <2>4
<1>5. ASSUME th[t].pc \in {"recheck", "wire"} PROVE Hand(l) = {}
  BY <1>1, <1>2, <1>5 DEF Hand
<1>6. ASSUME transport_lock = None PROVE Hand(l) = {}
  BY <1>1, <1>3, <1>6 DEF Hand
<1> QED BY <1>4, <1>5, <1>6

(* A step of t that leaves the hands, the store, the wire and the device   *)
(* alone changes nothing of what is on the way.                            *)
LEMMA HostFrame ==
  ASSUME IInv, NEW t \in Threads, NEW y, th' = [th EXCEPT ![t] = y],
         th[t].pc # "dispatch", y.pc # "dispatch", UNCHANGED <<store, to_host, dev>>, NEW l
  PROVE  Queue(l)' = Queue(l) /\ Hand(l)' = Hand(l) /\ C(l)' = C(l)
<1>1. th'[t] = y /\ \A u \in Threads \ {t} : th'[u] = th[u]
  BY Types
<1>2. Hand(l)' = Hand(l)
  BY <1>1 DEF Hand
<1>3. Queue(l)' = Queue(l)
  BY DEF Queue
<1> QED BY <1>2, <1>3 DEF C

-----------------------------------------------------------------------------
(* Steps of a thread that leave the hands, the store, the wire and the     *)
(* device alone.                                                           *)

LEMMA HostStep ==
  ASSUME DInv, IInv', NEW t \in Threads, NEW y, th' = [th EXCEPT ![t] = y],
         th[t].pc # "dispatch", y.pc # "dispatch", UNCHANGED <<store, to_host, dev, lossy>>,
         LidsOK', local_id <= local_id',
         y.pc = "open" => Untouched(y.lid),
         \A i, j \in DOMAIN to_dev' : Clash(to_dev'[i], to_dev'[j]) => i = j,
         \A i \in DOMAIN to_dev' : Request(to_dev'[i]) /\ Sender(y, to_dev'[i]),
         \A i \in DOMAIN to_dev', u \in Threads \ {t} : Sender(th[u], to_dev'[i]),
         \A l \in Lids : Ends(l, dev[l], received'[l], lossy),
         \A u \in Threads \ {t} : received'[th[u].lid] = received[th[u].lid],
         Commanded(y, dev[y.lid], Last(received'[y.lid]), lossy),
         Live(y, dev[y.lid]) =>
           Served(y, dev[y.lid], Last(received'[y.lid]), C(y.lid), Queue(y.lid), lossy)
  PROVE  DInv'
<1>1. IInv
  BY DEF DInv
<1>2. \A l : Queue(l)' = Queue(l) /\ Hand(l)' = Hand(l) /\ C(l)' = C(l)
  BY <1>1, HostFrame
<1>3. th'[t] = y /\ \A u \in Threads \ {t} : th'[u] = th[u]
  BY <1>1, Types
<1>4. \A l : Untouched(l) => Untouched(l)'
  BY <1>2 DEF Untouched
<1>5. FreshOK'
  <2>1. \A l \in Lids : l > local_id' => l > local_id
    BY <1>1, Types DEF DInv, IInv, TypeOK, Lids
  <2>2. \A l \in Lids : l > local_id' => Untouched(l)'
    BY <1>4, <2>1 DEF DInv, FreshOK
  <2>3. ASSUME NEW u \in Threads, th'[u].pc = "open" PROVE Untouched(th[u].lid)'
    <3>1. Untouched(th'[u].lid)
      BY <1>3, <2>3 DEF DInv, FreshOK
    <3> QED BY <1>4, <3>1
  <2> QED BY <2>2, <2>3 DEF FreshOK
<1>6. OriginOK'
  <2>1. \A l, r : Current(l, r) => Current(l, r)'
    BY DEF Current
  <2>2. \A p : Origin(p) => Origin(p)'
    BY <2>1 DEF Origin
  <2>3. \A u \in Threads : th'[u].pc = "dispatch" => Origin(th[u].pkt)'
    BY <1>3, <2>2 DEF DInv, OriginOK
  <2> QED BY <2>1, <2>2, <2>3 DEF DInv, OriginOK
<1>7. RequestsOK'
  <2>1. ASSUME NEW i \in DOMAIN to_dev' PROVE Request(to_dev[i])'
    <3>1. Request(to_dev'[i])
      OBVIOUS
    <3>2. to_dev'[i].arg0 \in Nat /\ local_id \in Nat /\ local_id' \in Nat
      <4>1. to_dev' \in Seq(HostPacket) /\ local_id' \in Nat
        BY DEF IInv, TypeOK, Lids
      <4>2. to_dev'[i] \in HostPacket
        BY <4>1
      <4>3. to_dev'[i].arg0 \in Nat
        BY <4>2 DEF HostPacket, Lids
      <4>4. local_id \in Nat
        BY <1>1, Types
      <4> QED BY <4>1, <4>3, <4>4
    <3>3. to_dev'[i].arg0 <= local_id'
      BY <3>1, <3>2 DEF Request
    <3> QED BY <1>4, <3>1, <3>3 DEF Request
  <2>2. ASSUME NEW i \in DOMAIN to_dev', NEW u \in Threads PROVE Sender(th[u], to_dev[i])'
    <3>1. Sender(th'[u], to_dev'[i])
      BY <1>3
    <3> QED BY <3>1 DEF Sender
  <2> QED BY <2>1, <2>2 DEF RequestsOK, Clash
<1>8. PipesOK'
  <2> SUFFICES ASSUME NEW l \in Lids
               PROVE  /\ Ends(l, dev'[l], received'[l], lossy)
                      /\ Ordered(Queue(l), Hand(l), to_host, l)'
                      /\ \A e \in C(l)' : OnTheWay(l, dev'[l], e)
    BY DEF PipesOK, Ends, OnTheWay
  <2> QED BY <1>2 DEF DInv, PipesOK, Ordered
<1>9. ReadersOK'
  <2> SUFFICES ASSUME NEW u \in Threads PROVE ReaderOK(th[u])'
    BY DEF ReadersOK
  <2> DEFINE x == th'[u]
             d == dev[x.lid]
             r == Last(received'[x.lid])
  <2>1. /\ Commanded(x, d, r, lossy)
        /\ Live(x, d) => Served(x, d, r, C(x.lid), Queue(x.lid), lossy)
    <3>1. CASE u = t
      BY <1>3, <3>1
    <3>2. CASE u # t
      BY <1>3, <3>2 DEF DInv, ReadersOK, ReaderOK
    <3> QED BY <3>1, <3>2
  <2>2. C(th[u].lid)' = C(x.lid) /\ Queue(th[u].lid)' = Queue(x.lid)
    BY <1>2
  <2> QED BY <2>1, <2>2 DEF ReaderOK, Commanded, Live, Served, Pos
<1> QED BY <1>5, <1>6, <1>7, <1>8, <1>9 DEF DInv

(* A step of t that changes nothing but the thread.                        *)
LEMMA LidsStep ==
  ASSUME DInv, NEW t \in Threads, NEW y, th' = [th EXCEPT ![t] = y],
         y.lid \in {0, th[t].lid}, UNCHANGED local_id
  PROVE  LidsOK'
<1>1. th'[t] = y /\ \A u \in Threads \ {t} : th'[u] = th[u]
  BY Types DEF DInv
<1>2. 0 <= local_id
  BY Types DEF DInv
<1> QED BY <1>1, <1>2 DEF DInv, LidsOK

LEMMA SenderStep ==
  ASSUME DInv, NEW t \in Threads, NEW y,
         y.lid \in {0, th[t].lid}, y.pc \notin {"open", "request"},
         y.lid = 0 \/ (y.ctx = th[t].ctx /\ y.op = th[t].op),
         NEW i \in DOMAIN to_dev
  PROVE  Sender(y, to_dev[i])
<1>1. to_dev[i].arg0 # 0
  <2>1. to_dev[i] \in HostPacket
    BY Types DEF DInv
  <2> QED BY <2>1 DEF HostPacket, Lids
<1>2. Sender(th[t], to_dev[i])
  BY DEF DInv, RequestsOK
<1> QED BY <1>1, <1>2 DEF Sender

LEMMA QuietStep ==
  ASSUME DInv, IInv', NEW t \in Threads, NEW y, th' = [th EXCEPT ![t] = y],
         th[t].pc # "dispatch", y.pc \notin {"dispatch", "open", "request"},
         UNCHANGED <<store, to_host, dev, to_dev, received, local_id, lossy>>,
         y.lid \in {0, th[t].lid},
         y.lid = 0 \/ (y.ctx = th[t].ctx /\ y.op = th[t].op),
         Commanded(y, dev[y.lid], Last(received[y.lid]), lossy),
         Live(y, dev[y.lid]) =>
           Served(y, dev[y.lid], Last(received[y.lid]), C(y.lid), Queue(y.lid), lossy)
  PROVE  DInv'
<1>1. LidsOK'
  BY LidsStep
<1>2. \A i \in DOMAIN to_dev : Sender(y, to_dev[i])
  BY SenderStep
<1>3. local_id <= local_id'
  BY Types DEF DInv
<1>4. /\ \A i, j \in DOMAIN to_dev' : Clash(to_dev'[i], to_dev'[j]) => i = j
      /\ \A i \in DOMAIN to_dev' : Request(to_dev'[i]) /\ Sender(y, to_dev'[i])
      /\ \A i \in DOMAIN to_dev', u \in Threads \ {t} : Sender(th[u], to_dev'[i])
  BY <1>2 DEF DInv, RequestsOK
<1>5. \A l \in Lids : Ends(l, dev[l], received'[l], lossy)
  BY DEF DInv, PipesOK
<1> QED BY <1>1, <1>3, <1>4, <1>5, HostStep

LEMMA IdleIsFine ==
  ASSUME NEW L, NEW d, NEW r
  PROVE  /\ Commanded(IdleThread, d, r, L) /\ ~Live(IdleThread, d)
         /\ IdleThread.lid = 0 /\ IdleThread.pc = "idle"
BY StreamsAssumption DEF Commanded, Live, IdleThread, Calls

(* An exception.                                                           *)
LEMMA RaisedIsFine ==
  ASSUME NEW L, NEW x \in Thread, ThreadOK(x), x.pc \in Sending \cup Reading,
         NEW d, NEW r, Commanded(x, d, r, L)
  PROVE  LET y == Raised(x)
         IN  /\ Commanded(y, d, r, L) /\ ~Live(y, d)
             /\ y.lid \in {0, x.lid} /\ y.pc \in {"idle", "clse"}
             /\ y.lid = 0 \/ (y.ctx = x.ctx /\ y.op = x.op)
<1>1. CASE x.op = Pull /\ x.ctx \in {"flush", "filesync"} /\ x.pc # "clse"
  <2> DEFINE y == [x EXCEPT !.pc = "clse", !.pkt = None, !.failing = TRUE]
  <2>1. Raised(x) = y
    BY <1>1 DEF Raised
  <2>2. /\ y.pc = "clse" /\ y.ctx = x.ctx /\ y.op = x.op /\ y.lid = x.lid /\ y.rid = x.rid
        /\ y.failing = TRUE
    BY DEF Thread
  <2> HIDE DEF y
  <2>3. Commanded(y, d, r, L) /\ ~Live(y, d)
    BY <1>1, <2>2 DEF Commanded, Live
  <2> QED BY <2>1, <2>2, <2>3
<1>2. CASE ~(x.op = Pull /\ x.ctx \in {"flush", "filesync"} /\ x.pc # "clse")
  BY <1>2, IdleIsFine DEF Raised
<1> QED BY <1>1, <1>2

(* A reader that goes on to another step of read.                          *)
LEMMA MovedIsFine ==
  ASSUME NEW L, NEW x \in Thread, x.pc \in Reading, NEW next \in Reading,
         NEW d, NEW r, NEW c, NEW q, Commanded(x, d, r, L), Live(x, d) => Served(x, d, r, c, q, L),
         next = "wire" /\ Live(x, d) => q = <<>>, next # "dispatch"
  PROVE  LET y == [x EXCEPT !.pc = next]
         IN  /\ Commanded(y, d, r, L) /\ (Live(y, d) => Served(y, d, r, c, q, L))
             /\ y.pc = next /\ y.lid = x.lid /\ y.ctx = x.ctx /\ y.op = x.op
<1> DEFINE y == [x EXCEPT !.pc = next]
<1>1. /\ y.pc = next /\ y.ctx = x.ctx /\ y.op = x.op /\ y.lid = x.lid /\ y.rid = x.rid
      /\ y.failing = x.failing
  BY DEF Thread
<1>2. /\ next \notin {"open", "request", "okay", "reclose", "idle", "close", "connect", "connected"}
      /\ x.pc \notin {"open", "request", "okay", "reclose", "clse", "idle", "close", "connect", "connected"}
  BY DEF Reading
<1> HIDE DEF y
<1>3. Commanded(y, d, r, L)
  BY <1>1, <1>2 DEF Commanded
<1>4. Live(y, d) <=> Live(x, d)
  BY <1>1 DEF Live
<1>5. Pos(x, r) = r /\ Pos(y, r) = r
  BY <1>1, <1>2 DEF Pos
<1>6. Live(y, d) => Served(y, d, r, c, q, L)
  BY <1>1, <1>2, <1>4, <1>5 DEF Served
<1> QED BY <1>1, <1>3, <1>6 DEF y

LEMMA ReaderFacts ==
  ASSUME DInv, NEW t \in Threads
  PROVE  /\ th[t] \in Thread /\ ThreadOK(th[t])
         /\ Commanded(th[t], dev[th[t].lid], Last(received[th[t].lid]), lossy)
         /\ Live(th[t], dev[th[t].lid]) =>
              Served(th[t], dev[th[t].lid], Last(received[th[t].lid]), C(th[t].lid),
                     Queue(th[t].lid), lossy)
         /\ th[t].lid \in Lids \cup {0}
<1>1. th[t] \in Thread /\ ThreadOK(th[t])
  BY Types DEF DInv
<1>2. th[t].lid \in Lids \cup {0}
  BY <1>1 DEF Thread
<1> QED BY <1>1, <1>2 DEF DInv, ReadersOK, ReaderOK

LEMMA DMoves ==
  ASSUME DInv, NEW t \in Threads, th[t].pc \in Reading, NEW next \in Reading,
         next # "dispatch",
         next = "wire" /\ Live(th[t], dev[th[t].lid]) => Queue(th[t].lid) = <<>>
  PROVE  LET y == [th[t] EXCEPT !.pc = next]
             l == th[t].lid
         IN  /\ Commanded(y, dev[l], Last(received[l]), lossy)
             /\ Live(y, dev[l]) => Served(y, dev[l], Last(received[l]), C(l), Queue(l), lossy)
             /\ y.pc = next /\ y.lid = l /\ y.ctx = th[t].ctx /\ y.op = th[t].op
<1> DEFINE x == th[t]
           d == dev[x.lid]
           r == Last(received[x.lid])
           c == C(x.lid)
           q == Queue(x.lid)
<1>1. /\ x \in Thread /\ x.pc \in Reading /\ Commanded(x, d, r, lossy)
      /\ Live(x, d) => Served(x, d, r, c, q, lossy)
      /\ next = "wire" /\ Live(x, d) => q = <<>>
  BY ReaderFacts
<1> HIDE DEF x, d, r, c, q
<1>2. LET y == [x EXCEPT !.pc = next]
      IN  /\ Commanded(y, d, r, lossy) /\ (Live(y, d) => Served(y, d, r, c, q, lossy))
          /\ y.pc = next /\ y.lid = x.lid /\ y.ctx = x.ctx /\ y.op = x.op
  BY <1>1, MovedIsFine
<1> QED BY <1>2 DEF x, d, r, c, q

LEMMA DLockTransport ==
  ASSUME DInv, IInv', NEW t \in Threads, LockTransport(t)
  PROVE  DInv'
<1> DEFINE y == [th[t] EXCEPT !.pc = "recheck"]
<1>1. th[t].pc \in Reading /\ th[t].pc # "dispatch" /\ "recheck" \in Reading
  BY DEF LockTransport, Reading
<1>2. /\ th' = [th EXCEPT ![t] = y]
      /\ UNCHANGED <<store, to_host, dev, to_dev, received, local_id, lossy>>
  BY DEF LockTransport, devVars
<1>3. /\ Commanded(y, dev[th[t].lid], Last(received[th[t].lid]), lossy)
      /\ Live(y, dev[th[t].lid]) =>
           Served(y, dev[th[t].lid], Last(received[th[t].lid]), C(th[t].lid), Queue(th[t].lid), lossy)
      /\ y.pc = "recheck" /\ y.lid = th[t].lid /\ y.ctx = th[t].ctx /\ y.op = th[t].op
  BY <1>1, DMoves
<1> HIDE DEF y
<1> QED BY <1>1, <1>2, <1>3, QuietStep

LEMMA DRaises ==
  ASSUME DInv, IInv', NEW t \in Threads, th' = [th EXCEPT ![t] = Raised(@)],
         th[t].pc \in Sending \cup Reading, th[t].pc # "dispatch",
         UNCHANGED <<store, to_host, dev, to_dev, received, local_id, lossy>>
  PROVE  DInv'
<1> DEFINE y == Raised(th[t])
<1>1. LET l == th[t].lid
      IN  /\ Commanded(y, dev[l], Last(received[l]), lossy) /\ ~Live(y, dev[l])
          /\ y.lid \in {0, l} /\ y.pc \in {"idle", "clse"}
          /\ y.lid = 0 \/ (y.ctx = th[t].ctx /\ y.op = th[t].op)
  BY ReaderFacts, RaisedIsFine
<1>2. Commanded(y, dev[y.lid], Last(received[y.lid]), lossy) /\ ~Live(y, dev[y.lid])
  <2>1. CASE y = IdleThread
    BY <2>1, IdleIsFine
  <2>2. CASE y # IdleThread
    <3>1. y.lid = th[t].lid
      BY <2>2, ReaderFacts DEF Raised, Thread
    <3> QED BY <1>1, <3>1
  <2> QED BY <2>1, <2>2
<1>3. th' = [th EXCEPT ![t] = y]
  OBVIOUS
<1> HIDE DEF y
<1> QED BY <1>1, <1>2, <1>3, QuietStep

LEMMA DCheckTime ==
  ASSUME DInv, IInv', NEW t \in Threads, CheckTime(t)
  PROVE  DInv'
<1> DEFINE y == [th[t] EXCEPT !.pc = "lock"]
<1>1. th[t].pc \in Reading /\ th[t].pc # "dispatch" /\ "lock" \in Reading
  BY DEF CheckTime, Reading
<1>2. UNCHANGED <<store, to_host, dev, to_dev, received, local_id, lossy>>
  BY DEF CheckTime, devVars, ioVars
<1>3. CASE th' = [th EXCEPT ![t] = y]
  <2>1. /\ Commanded(y, dev[th[t].lid], Last(received[th[t].lid]), lossy)
        /\ Live(y, dev[th[t].lid]) =>
             Served(y, dev[th[t].lid], Last(received[th[t].lid]), C(th[t].lid), Queue(th[t].lid), lossy)
        /\ y.pc = "lock" /\ y.lid = th[t].lid /\ y.ctx = th[t].ctx /\ y.op = th[t].op
    BY <1>1, DMoves
  <2> HIDE DEF y
  <2> QED BY <1>1, <1>2, <1>3, <2>1, QuietStep
<1>4. CASE th' = [th EXCEPT ![t] = Raised(@)]
  BY <1>1, <1>2, <1>4, DRaises
<1> QED BY <1>3, <1>4 DEF CheckTime

LEMMA DIdle ==
  ASSUME DInv, IInv', NEW t \in Threads, th' = [th EXCEPT ![t] = IdleThread],
         th[t].pc # "dispatch",
         UNCHANGED <<store, to_host, dev, to_dev, received, local_id, lossy>>
  PROVE  DInv'
<1> DEFINE y == IdleThread
<1>1. /\ Commanded(y, dev[y.lid], Last(received[y.lid]), lossy) /\ ~Live(y, dev[y.lid])
      /\ y.lid = 0 /\ y.pc = "idle"
  BY IdleIsFine
<1>2. th' = [th EXCEPT ![t] = y]
  OBVIOUS
<1> HIDE DEF y
<1> QED BY <1>1, <1>2, QuietStep

LEMMA DLeaveStream ==
  ASSUME DInv, IInv', NEW t \in Threads, LeaveStream(t)
  PROVE  DInv'
BY DIdle DEF LeaveStream, ioVars, devVars

LEMMA DSetAvailable ==
  ASSUME DInv, IInv', NEW t \in Threads, SetAvailable(t)
  PROVE  DInv'
BY DIdle DEF SetAvailable, ioVars, devVars

LEMMA DCallReset ==
  ASSUME DInv, IInv', NEW t \in Threads, NEW call \in {"close", "connect"}, CallReset(t, call)
  PROVE  DInv'
<1> DEFINE y == [th[t] EXCEPT !.pc = call]
<1>1. /\ th' = [th EXCEPT ![t] = y] /\ th[t].pc = "idle"
      /\ UNCHANGED <<store, to_host, dev, to_dev, received, local_id, lossy>>
  BY DEF CallReset, ioVars, devVars
<1>0. None \notin Calls
  BY StreamsAssumption
<1>2. th[t].ctx = None /\ th[t].lid = 0 /\ ~th[t].failing
  BY <1>0, <1>1, ReaderFacts DEF Commanded, Calls
<1>3. y.pc = call /\ y.ctx = None /\ y.lid = 0 /\ ~y.failing
  BY <1>2, ReaderFacts DEF Thread
<1> HIDE DEF y
<1>5. Commanded(y, dev[y.lid], Last(received[y.lid]), lossy) /\ ~Live(y, dev[y.lid])
  BY <1>0, <1>3 DEF Commanded, Live, Calls
<1> QED BY <1>1, <1>3, <1>5, QuietStep

-----------------------------------------------------------------------------
(* Steps of a thread that take a packet.                                   *)

(* The thread x takes e, the first of the packets on the way to it if it   *)
(* is live; T is the rest.                                                 *)
Taking(x, d, r, e, T, q, L) ==
  /\ InRead(x)
  /\ d \in DevStream /\ r \in Nat /\ e \in Stored /\ T \in SUBSET Stored
  /\ r <= d.n /\ (d.op # Shell /\ ~d.asked => d.n = 0)
  /\ d.st # "gone" /\ (d.st = "none" => e.cmd = "CLSE" /\ d.n = 0)
  /\ OnTheWay(x.lid, d, e)
  /\ Commanded(x, d, r, L)
  /\ Live(x, d) => Served(x, d, r, {e} \cup T, q, L) /\ \A f \in T : Before(e, f)

LEMMA TakingFacts ==
  ASSUME NEW L, NEW x, NEW d, NEW r, NEW e, NEW T, NEW q, Taking(x, d, r, e, T, q, L)
  PROVE  /\ x \in Thread /\ x.pc \in Reading /\ x.ctx \in Calls /\ Pos(x, r) = r
         /\ x.op \in {Shell, Stat, Pull, Reboot}
         /\ Live(x, d) <=> x.ctx # "clse"
         /\ e.cmd \in {"OKAY", "WRTE", "CLSE"}
         /\ d.n \in Nat
<1>1. x \in Thread /\ x.pc \in Reading /\ x.ctx \in Calls /\ x.op \in Ops
  BY DEF Taking, InRead
<1>2. Pos(x, r) = r
  BY <1>1 DEF Pos, Reading
<1>3. x.failing => x.ctx = "clse"
  BY <1>1 DEF Taking, Commanded, Reading
<1>4. Live(x, d) <=> x.ctx # "clse"
  BY <1>1, <1>3 DEF Taking, Live, Calls
<1>5. e.cmd \in {"OKAY", "WRTE", "CLSE"} /\ d.n \in Nat
  BY StoredFacts, StreamsAssumption DEF Taking, DevStream
<1> QED BY <1>1, <1>2, <1>4, <1>5, StreamsAssumption

(* What a live reader's claims come to when it takes the first packet.     *)
LEMMA TakenFirst ==
  ASSUME NEW L, NEW x, NEW d, NEW r, NEW e, NEW T, NEW q, Taking(x, d, r, e, T, q, L), Live(x, d)
  PROVE  /\ Served(x, d, r, {e} \cup T, q, L) /\ \A f \in T : Before(e, f)
         /\ \A f \in T : f.cmd = "WRTE" => f.data[2] > r
         /\ x.lid \notin L /\ e.cmd # "WRTE" => \A j \in r + 1 .. d.n : Wrte(x.lid, j) \in T
         /\ e.cmd = "CLSE" => T = {}
         /\ x.lid \notin L /\ e.cmd = "CLSE" => r >= d.n
         /\ e.cmd = "WRTE" =>
              /\ e.data[2] \in Nat /\ e.data = <<x.lid, e.data[2]>>
              /\ r < e.data[2] /\ e.data[2] <= d.n
              /\ \A f \in T : f.cmd = "WRTE" => f.data[2] > e.data[2]
         /\ x.lid \notin L /\ e.cmd = "WRTE" =>
              /\ e.data[2] = r + 1
              /\ \A j \in e.data[2] + 1 .. d.n : Wrte(x.lid, j) \in T
         /\ Ok \in {e} \cup T => e.cmd = "OKAY"
<1> SUFFICES ASSUME Pos(x, r) = r, Served(x, d, r, {e} \cup T, q, L), \A f \in T : Before(e, f),
                    e.cmd = "WRTE" => e.data[1] = x.lid /\ e.data[2] <= d.n,
                    d \in DevStream, r \in Nat, e \in Stored, T \in SUBSET Stored
             PROVE  /\ \A f \in T : f.cmd = "WRTE" => f.data[2] > r
                    /\ x.lid \notin L /\ e.cmd # "WRTE" => \A j \in r + 1 .. d.n : Wrte(x.lid, j) \in T
                    /\ e.cmd = "CLSE" => T = {}
                    /\ x.lid \notin L /\ e.cmd = "CLSE" => r >= d.n
                    /\ e.cmd = "WRTE" =>
                         /\ e.data[2] \in Nat /\ e.data = <<x.lid, e.data[2]>> /\ r < e.data[2]
                         /\ \A f \in T : f.cmd = "WRTE" => f.data[2] > e.data[2]
                    /\ x.lid \notin L /\ e.cmd = "WRTE" =>
                         /\ e.data[2] = r + 1
                         /\ \A j \in e.data[2] + 1 .. d.n : Wrte(x.lid, j) \in T
                    /\ Ok \in {e} \cup T => e.cmd = "OKAY"
  <2>1. Pos(x, r) = r
    BY TakingFacts
  <2>2. Served(x, d, r, {e} \cup T, q, L) /\ \A f \in T : Before(e, f)
    BY DEF Taking
  <2>3. e.cmd = "WRTE" => e.data[1] = x.lid /\ e.data[2] <= d.n
    BY DEF Taking, OnTheWay
  <2>4. d \in DevStream /\ r \in Nat /\ e \in Stored /\ T \in SUBSET Stored
    BY DEF Taking
  <2> QED BY <2>1, <2>2, <2>3, <2>4
<1>1. /\ \A f \in {e} \cup T : f.cmd = "WRTE" => f.data[2] > r
      /\ x.lid \notin L => \A j \in r + 1 .. d.n : Wrte(x.lid, j) \in {e} \cup T
  BY DEF Served
<1>2. d.n \in Nat
  BY StreamsAssumption DEF DevStream
<1>3. \A j : Wrte(x.lid, j).cmd = "WRTE" /\ Wrte(x.lid, j).data = <<x.lid, j>>
  BY DEF Wrte
<1>4. x.lid \notin L /\ e.cmd # "WRTE" => \A j \in r + 1 .. d.n : Wrte(x.lid, j) \in T
  BY <1>1, <1>3
<1>5. e.cmd = "CLSE" => T = {}
  BY BeforeFacts
<1>6. x.lid \notin L /\ e.cmd = "CLSE" => r >= d.n
  BY <1>2, <1>4, <1>5
<1>9. ASSUME e.cmd = "WRTE", e.data[1] = x.lid
      PROVE  /\ e.data[2] \in Nat /\ e.data = <<x.lid, e.data[2]>> /\ r < e.data[2]
             /\ \A f \in T : f.cmd = "WRTE" => f.data[2] > e.data[2] /\ f.data[2] \in Nat
  <2>1. e.data \in Data /\ e.data[2] \in Nat /\ e.data = <<e.data[1], e.data[2]>>
    BY <1>9, StoredFacts, StreamsAssumption DEF Data
  <2>2. e.data[2] > r
    BY <1>1, <1>9
  <2>3. \A f \in T : f.cmd = "WRTE" => e.data[2] < f.data[2] /\ f.data[2] \in Nat
    BY <1>9, BeforeFacts, StoredFacts, StreamsAssumption
  <2> QED BY <1>9, <2>1, <2>2, <2>3
<1>7. ASSUME x.lid \notin L, e.cmd = "WRTE", e.data[1] = x.lid, e.data[2] <= d.n
      PROVE  /\ e.data[2] = r + 1
             /\ \A j \in e.data[2] + 1 .. d.n : Wrte(x.lid, j) \in T
  <2>1. e.data[2] \in Nat /\ e.data[2] > r /\ r < d.n
    BY <1>2, <1>7, <1>9
  <2>2. e.data[2] > r /\ r < d.n
    BY <2>1
  <2>3. \A f \in T : f.cmd = "WRTE" => e.data[2] < f.data[2] /\ f.data[2] \in Nat
    BY <1>7, <1>9
  <2>4. e.data[2] = r + 1
    <3>1. Wrte(x.lid, r + 1) \in {e} \cup T
      BY <1>1, <1>2, <1>7, <2>2
    <3>2. CASE Wrte(x.lid, r + 1) = e
      BY <1>3, <3>2
    <3>3. CASE Wrte(x.lid, r + 1) \in T
      <4>1. e.data[2] < r + 1
        BY <1>3, <2>3, <3>3
      <4> QED BY <2>1, <2>2, <4>1
    <3> QED BY <3>1, <3>2, <3>3
  <2>5. \A j \in e.data[2] + 1 .. d.n : Wrte(x.lid, j) \in T
    <3> SUFFICES ASSUME NEW j \in e.data[2] + 1 .. d.n PROVE Wrte(x.lid, j) \in T
      OBVIOUS
    <3>1. j \in r + 1 .. d.n /\ j # r + 1
      BY <1>2, <2>4
    <3>2. Wrte(x.lid, j) # e
      BY <1>3, <2>4, <3>1
    <3> QED BY <1>1, <1>7, <3>1, <3>2
  <2> QED BY <2>4, <2>5
<1>8. Ok \in {e} \cup T => e.cmd = "OKAY"
  <2>1. Ok.cmd = "OKAY"
    BY DEF Ok
  <2> QED BY <2>1, BeforeFacts
<1> QED BY <1>1, <1>4, <1>5, <1>6, <1>7, <1>8, <1>9

(* Dropped, because it is not what the thread expects: it goes on reading. *)
LEMMA DroppedIsFine ==
  ASSUME NEW L, NEW x, NEW d, NEW r, NEW e, NEW T, NEW q, NEW z, Taking(x, d, r, e, T, q, L),
         e.cmd \notin Expected(x.ctx),
         NEW y, y.pc \in Reading \ {"wire", "dispatch"}, y.ctx = x.ctx, y.op = x.op,
         y.lid = x.lid, y.rid = x.rid, y.failing = x.failing
  PROVE  Commanded(y, d, r, L) /\ (Live(y, d) => Served(y, d, r, T, z, L))
<1>0. /\ x \in Thread /\ x.pc \in Reading /\ x.ctx \in Calls /\ Pos(x, r) = r
      /\ Live(x, d) <=> x.ctx # "clse"
      /\ e.cmd \in {"OKAY", "WRTE", "CLSE"}
      /\ d.n \in Nat
  BY TakingFacts
<1>1. /\ x \in Thread /\ x.pc \in Reading /\ x.ctx \in Calls /\ Pos(x, r) = r
      /\ Live(x, d) <=> x.ctx # "clse"
      /\ e.cmd \in {"OKAY", "WRTE", "CLSE"}
      /\ d.n \in Nat /\ r \in Nat
  BY <1>0 DEF Taking
<1>2. y.pc \notin {"open", "request", "okay", "clse", "reclose", "idle", "close", "connect", "connected"}
      /\ x.pc \notin {"open", "request", "okay", "clse", "reclose", "idle", "close", "connect", "connected"}
  BY <1>1 DEF Reading
<1>3. Commanded(y, d, r, L)
  BY <1>2 DEF Taking, Commanded
<1>4. ASSUME Live(y, d) PROVE Served(y, d, r, T, z, L)
  <2>1. x.ctx \in {"open", "flush", "stream", "filesync"}
    BY <1>4 DEF Live
  <2>2. Served(x, d, r, {e} \cup T, q, L) /\ \A f \in T : Before(e, f)
    BY <1>1, <2>1, TakenFirst
  <2>3. /\ \A f \in T : f.cmd = "WRTE" => f.data[2] > r
        /\ x.lid \notin L /\ e.cmd # "WRTE" => \A j \in r + 1 .. d.n : Wrte(x.lid, j) \in T
        /\ Ok \in {e} \cup T => e.cmd = "OKAY"
    BY <1>1, <2>1, TakenFirst
  <2>4. x.lid \notin L /\ x.ctx = "open" => d.st = "none"
    BY <2>2, <2>3 DEF Served, Expected
  <2>5. x.lid \notin L /\ x.ctx = "flush" => ~d.asked
    BY <2>2, <2>3 DEF Served, Expected
  <2>6. ASSUME x.lid \notin L PROVE \A j \in r + 1 .. d.n : Wrte(x.lid, j) \in T
    <3>1. CASE x.ctx \in {"open", "flush"}
      <4>1. d.n = 0
        <5>1. CASE x.ctx = "open"
          BY <2>4, <2>6, <5>1 DEF Taking
        <5>2. CASE x.ctx = "flush"
          <6>1. d.st # "none" /\ x.op = d.op /\ x.op \in {Stat, Pull}
            BY <5>2 DEF Taking, Commanded
          <6> QED BY <2>5, <2>6, <5>2, <6>1 DEF Taking, Shell, Stat, Pull
        <5> QED BY <3>1, <5>1, <5>2
      <4> QED BY <1>1, <4>1
    <3>2. CASE x.ctx \in {"stream", "filesync"}
      <4>1. e.cmd # "WRTE"
        BY <3>2 DEF Expected
      <4> QED BY <2>3, <2>6, <4>1
    <3> QED BY <2>1, <3>1, <3>2
  <2>7. Pos(y, r) = r
    BY <1>2 DEF Pos
  <2>8. /\ x.ctx = "open" => ~d.asked
        /\ x.ctx = "open" /\ d.st # "none" => x.op = d.op
    BY <2>2 DEF Served
  <2> QED BY <1>1, <1>2, <2>3, <2>4, <2>5, <2>6, <2>7, <2>8 DEF Served
<1> QED BY <1>3, <1>4

(* Returned by read to the command, which goes on.                         *)
LEMMA ReturnedIsFine ==
  ASSUME NEW L, NEW x, NEW d, NEW r, NEW e, NEW T, NEW q, NEW z, Taking(x, d, r, e, T, q, L),
         e.cmd \in Expected(x.ctx),
         NEW p \in Packet, p.cmd = e.cmd, p.data = e.data, d.st # "none" => p.arg0 = d.rid
  PROVE  LET y == Returned(x, p)
         IN  /\ Commanded(y, d, r, L) /\ (Live(y, d) => Served(y, d, r, T, z, L))
             /\ y.pc \notin {"open", "wire", "dispatch"}
             /\ y = IdleThread \/ (/\ y.lid = x.lid /\ y.ctx # "open" /\ d.st # "none"
                                   /\ y.pc = "request" => x.ctx = "open")
<1> DEFINE y == Returned(x, p)
<1>0. /\ x \in Thread /\ x.pc \in Reading /\ x.ctx \in Calls /\ Pos(x, r) = r
      /\ x.op \in {Shell, Stat, Pull, Reboot}
      /\ Live(x, d) <=> x.ctx # "clse"
      /\ d.n \in Nat
  BY TakingFacts
<1>1. /\ x \in Thread /\ x.pc \in Reading /\ x.ctx \in Calls /\ Pos(x, r) = r
      /\ x.op \in {Shell, Stat, Pull, Reboot}
      /\ Live(x, d) <=> x.ctx # "clse"
      /\ d.n \in Nat /\ r \in Nat
      /\ e \in Stored /\ d \in DevStream /\ T \in SUBSET Stored /\ d.st # "gone"
  BY <1>0 DEF Taking
<1>2. CASE x.ctx = "clse"
  <2>1. y = IdleThread
    BY <1>2 DEF Returned
  <2> QED BY <2>1, IdleIsFine
<1>3. ASSUME x.ctx # "clse"
      PROVE  /\ Served(x, d, r, {e} \cup T, q, L) /\ (\A f \in T : Before(e, f))
             /\ \A f \in T : f.cmd = "WRTE" => f.data[2] > r
             /\ x.lid \notin L /\ e.cmd # "WRTE" => \A j \in r + 1 .. d.n : Wrte(x.lid, j) \in T
             /\ e.cmd = "CLSE" => T = {}
             /\ x.lid \notin L /\ e.cmd = "CLSE" => r >= d.n
             /\ e.cmd = "WRTE" =>
                  /\ e.data[2] \in Nat /\ e.data = <<x.lid, e.data[2]>>
                  /\ r < e.data[2] /\ e.data[2] <= d.n
                  /\ \A f \in T : f.cmd = "WRTE" => f.data[2] > e.data[2]
             /\ x.lid \notin L /\ e.cmd = "WRTE" =>
                  /\ e.data[2] = r + 1
                  /\ \A j \in e.data[2] + 1 .. d.n : Wrte(x.lid, j) \in T
  <2>1. Live(x, d)
    BY <1>1, <1>3
  <2> QED BY <2>1, TakenFirst
<1>4. CASE x.ctx = "open"
  <2> DEFINE v == [x EXCEPT !.rid = p.arg0]
  <2>1. y = FirstStep(v)
    BY <1>4 DEF Returned, Opened
  <2>2. /\ v.op = x.op /\ v.lid = x.lid /\ v.rid = p.arg0 /\ v.failing = x.failing
    BY <1>1 DEF Thread
  <2>3. d.st # "none" /\ p.arg0 = d.rid /\ e.cmd = "OKAY" /\ ~x.failing
    BY <1>1, <1>4 DEF Taking, Expected, Live
  <2>4. x.op = d.op /\ ~d.asked
    BY <1>3, <1>4, <2>3 DEF Served
  <2>5. CASE x.op = Reboot
    <3>1. y = IdleThread
      BY <2>1, <2>2, <2>5 DEF FirstStep, Shell, Stat, Pull, Reboot
    <3> QED BY <3>1, IdleIsFine
  <2>6. CASE x.op # Reboot
    <3>1. /\ y.lid = x.lid /\ y.op = x.op /\ y.rid = p.arg0 /\ ~y.failing
          /\ \/ (x.op = Shell /\ y.pc = "fast" /\ y.ctx = "stream")
             \/ (x.op \in {Stat, Pull} /\ y.pc = "request" /\ y.ctx = "flush")
      <4>1. v \in [pc : {v.pc}, op : {v.op}, ctx : {v.ctx}, lid : {v.lid}, rid : {v.rid},
                   pkt : {v.pkt}, failing : {v.failing}]
        BY <1>1 DEF Thread
      <4> HIDE DEF v
      <4>2. CASE x.op = Shell
        <5>1. y = [v EXCEPT !.pc = "fast", !.ctx = "stream"]
          BY <2>1, <2>2, <4>2 DEF FirstStep, BeginRead, Shell, Stat, Pull, Reboot
        <5> HIDE DEF y
        <5> QED BY <2>2, <2>3, <4>1, <4>2, <5>1
      <4>3. CASE x.op \in {Stat, Pull}
        <5>1. y = [v EXCEPT !.pc = "request", !.ctx = "flush"]
          BY <2>1, <2>2, <4>3 DEF FirstStep, BeginRead, Shell, Stat, Pull, Reboot
        <5> HIDE DEF y
        <5> QED BY <2>2, <2>3, <4>1, <4>3, <5>1
      <4> QED BY <1>1, <2>6, <4>2, <4>3
    <3> HIDE DEF y
    <3>2. Pos(y, r) = r
      BY <3>1 DEF Pos
    <3>3. Commanded(y, d, r, L)
      BY <2>3, <2>4, <3>1 DEF Commanded
    <3>4. Served(y, d, r, T, z, L)
      BY <1>1, <1>3, <1>4, <2>3, <2>4, <3>1, <3>2 DEF Served
    <3> QED BY <1>4, <2>3, <3>1, <3>3, <3>4 DEF y
  <2> QED BY <2>5, <2>6
<1>5. ASSUME x.ctx \in {"flush", "stream", "filesync"}
      PROVE  d.st # "none" /\ x.rid = d.rid /\ x.op = d.op /\ ~x.failing
  BY <1>1, <1>5 DEF Taking, Commanded, Live
<1>6. CASE x.ctx = "flush"
  <2>1. /\ y.pc = "fast" /\ y.ctx = "filesync" /\ y.lid = x.lid /\ y.op = x.op /\ y.rid = x.rid
        /\ y.failing = x.failing
    BY <1>1, <1>6 DEF Returned, BeginRead, Thread
  <2>2. e.cmd = "OKAY" /\ x.op \in {Stat, Pull}
    BY <1>6 DEF Taking, Commanded, Expected
  <2> HIDE DEF y
  <2>3. Commanded(y, d, r, L) /\ Pos(y, r) = r
    BY <1>5, <1>6, <2>1, <2>2 DEF Commanded, Pos
  <2>4. Served(y, d, r, T, z, L)
    BY <1>1, <1>3, <1>6, <2>1, <2>2, <2>3 DEF Served
  <2> QED BY <1>5, <1>6, <2>1, <2>3, <2>4 DEF y
<1>7. CASE x.ctx = "stream" /\ e.cmd = "CLSE"
  <2>1. /\ y.pc = "reclose" /\ y.ctx = "stream" /\ y.lid = x.lid /\ y.op = x.op /\ y.rid = x.rid
        /\ y.failing = x.failing
    BY <1>1, <1>7 DEF Returned, Thread
  <2>2. x.op = Shell /\ d.st = "closed" /\ (x.lid \notin L => r = d.n) /\ T = {}
    <3>1. (x.lid \notin L => r >= d.n) /\ T = {} /\ r <= d.n
      BY <1>3, <1>7 DEF Taking
    <3>2. x.op = Shell /\ d.st = "closed"
      BY <1>5, <1>7 DEF Taking, Commanded, OnTheWay
    <3> QED BY <1>1, <3>1, <3>2
  <2> HIDE DEF y
  <2>3. Commanded(y, d, r, L) /\ Pos(y, r) = r
    BY <1>5, <1>7, <2>1, <2>2 DEF Commanded, Pos
  <2>4. Served(y, d, r, T, z, L)
    <3>1. x.lid \notin L => r + 1 .. d.n = {}
      BY <1>1, <2>2
    <3> QED BY <1>1, <1>7, <2>1, <2>2, <2>3, <3>1 DEF Served
  <2> QED BY <1>5, <1>7, <2>1, <2>3, <2>4 DEF y
<1>8. CASE x.ctx \in {"stream", "filesync"} /\ e.cmd = "WRTE"
  <2>1. /\ y.pc = "okay" /\ y.ctx = x.ctx /\ y.lid = x.lid /\ y.op = x.op /\ y.rid = x.rid
        /\ y.failing = x.failing /\ y.pkt = p
    BY <1>1, <1>8 DEF Returned, Thread
  <2>2. /\ p.data[2] \in Nat /\ p.data = <<x.lid, p.data[2]>> /\ r < p.data[2] /\ p.data[2] <= d.n
        /\ \A f \in T : f.cmd = "WRTE" => f.data[2] > p.data[2]
        /\ x.lid \notin L => /\ p.data[2] = r + 1
                            /\ \A j \in p.data[2] + 1 .. d.n : Wrte(x.lid, j) \in T
    BY <1>3, <1>8
  <2>3. x.ctx = "stream" => x.op = Shell
    BY DEF Taking, Commanded
  <2>4. x.ctx = "filesync" => x.op \in {Stat, Pull}
    BY DEF Taking, Commanded
  <2> HIDE DEF y
  <2>5. Commanded(y, d, r, L) /\ Pos(y, r) = p.data[2]
    BY <1>5, <1>8, <2>1, <2>2, <2>3, <2>4 DEF Commanded, Pos, InHand
  <2>6. Served(y, d, r, T, z, L)
    BY <1>8, <2>1, <2>2, <2>5 DEF Served
  <2> QED BY <1>5, <1>8, <2>1, <2>5, <2>6 DEF y
<1>9. \/ x.ctx \in {"clse", "open", "flush"} \/ (x.ctx = "stream" /\ e.cmd = "CLSE")
      \/ (x.ctx \in {"stream", "filesync"} /\ e.cmd = "WRTE")
  BY <1>1 DEF Calls, Expected
<1> QED BY <1>2, <1>4, <1>6, <1>7, <1>8, <1>9

(* A live thread has a stream.                                             *)
LEMMA LiveHasLid ==
  ASSUME DInv, NEW t \in Threads, Live(th[t], dev[th[t].lid])
  PROVE  th[t].lid \in Lids
<1>1. th[t] \in Thread /\ ThreadOK(th[t]) /\ Commanded(th[t], dev[th[t].lid], Last(received[th[t].lid]), lossy)
  BY ReaderFacts
<1>2. None \notin Calls
  BY StreamsAssumption
<1>3. th[t].ctx # None
  BY <1>2 DEF Live, Calls
<1>4. th[t].pc \in Sending \cup Reading
  BY <1>1, <1>3 DEF Commanded, Thread
<1> QED BY <1>1, <1>4 DEF ThreadOK

-----------------------------------------------------------------------------
(* Steps of read that move or take packets.                                *)

(* A claim does not suffer from another spoiled stream.                    *)
LEMMA MoreLossy ==
  ASSUME NEW L, NEW M, L \subseteq M
  PROVE  /\ \A l, d, r : Ends(l, d, r, L) => Ends(l, d, r, M)
         /\ \A x, d, r : Commanded(x, d, r, L) => Commanded(x, d, r, M)
         /\ \A x, d, r, c, q : Served(x, d, r, c, q, L) => Served(x, d, r, c, q, M)
<1>1. \A l : l \notin M => l \notin L
  OBVIOUS
<1>2. \A l, d, r : Ends(l, d, r, L) => Ends(l, d, r, M)
  BY <1>1 DEF Ends
<1>3. \A x, d, r : Commanded(x, d, r, L) => Commanded(x, d, r, M)
  BY <1>1 DEF Commanded
<1>4. \A x, d, r, c, q : Served(x, d, r, c, q, L) => Served(x, d, r, c, q, M)
  BY <1>1 DEF Served
<1> QED BY <1>2, <1>3, <1>4

LEMMA PipeStep ==
  ASSUME DInv, IInv', NEW t \in Threads, NEW y, th' = [th EXCEPT ![t] = y],
         UNCHANGED <<dev, to_dev, received, local_id>>, lossy \subseteq lossy',
         \A l \in Lids : C(l)' \subseteq C(l) /\ Ordered(Queue(l), Hand(l), to_host, l)',
         OriginOK',
         y.lid \in {0, th[t].lid}, y.pc # "open",
         \A i \in DOMAIN to_dev : Sender(y, to_dev[i]),
         Commanded(y, dev[y.lid], Last(received[y.lid]), lossy'),
         \A l : l = y.lid /\ Live(y, dev[l]) =>
                  Served(y, dev[l], Last(received[l]), C(l)', Queue(l)', lossy'),
         \A u \in Threads \ {t} : \A l : l = th[u].lid /\ Live(th[u], dev[l]) =>
                  Served(th[u], dev[l], Last(received[l]), C(l)', Queue(l)', lossy')
  PROVE  DInv'
<1>1. IInv
  BY DEF DInv
<1>2. th'[t] = y /\ \A u \in Threads \ {t} : th'[u] = th[u]
  BY <1>1, Types
<1>3. \A l \in Lids : Untouched(l) => Untouched(l)'
  BY DEF Untouched
<1>4. LidsOK'
  BY LidsStep
<1>5. FreshOK'
  <2>1. \A l \in Lids : l > local_id' => Untouched(l)'
    BY <1>3 DEF DInv, FreshOK
  <2>2. ASSUME NEW u \in Threads, th'[u].pc = "open" PROVE Untouched(th[u].lid)'
    <3>1. Untouched(th'[u].lid) /\ th'[u] = th[u]
      BY <1>2, <2>2 DEF DInv, FreshOK
    <3>2. th'[u].lid \in Lids
      BY <1>1, <2>2, <3>1, Types DEF ThreadOK, Sending
    <3> QED BY <1>3, <3>1, <3>2
  <2> QED BY <2>1, <2>2 DEF FreshOK
<1>6. RequestsOK'
  <2>1. ASSUME NEW i \in DOMAIN to_dev' PROVE Request(to_dev[i])'
    <3>1. Request(to_dev'[i])
      BY DEF DInv, RequestsOK
    <3>2. to_dev'[i].arg0 \in Lids
      <4>1. to_dev'[i] \in HostPacket
        BY <1>1, Types
      <4> QED BY <4>1 DEF HostPacket
    <3> QED BY <1>3, <3>1, <3>2 DEF Request
  <2>2. ASSUME NEW i \in DOMAIN to_dev', NEW u \in Threads PROVE Sender(th[u], to_dev[i])'
    <3>1. Sender(th'[u], to_dev'[i])
      BY <1>2 DEF DInv, RequestsOK
    <3> QED BY <3>1 DEF Sender
  <2> QED BY <2>1, <2>2 DEF DInv, RequestsOK, Clash
<1>7. PipesOK'
  <2> SUFFICES ASSUME NEW l \in Lids
               PROVE  /\ Ends(l, dev'[l], received'[l], lossy')
                      /\ \A e \in C(l)' : OnTheWay(l, dev'[l], e)
    BY DEF PipesOK, Ends, OnTheWay
  <2>1. Ends(l, dev[l], received[l], lossy) /\ \A e \in C(l)' : OnTheWay(l, dev[l], e)
    BY DEF DInv, PipesOK
  <2> QED BY <2>1, MoreLossy
<1>8. ReadersOK'
  <2> SUFFICES ASSUME NEW u \in Threads PROVE ReaderOK(th[u])'
    BY DEF ReadersOK
  <2> DEFINE x == th'[u]
             d == dev[x.lid]
             r == Last(received[x.lid])
  <2>1. Commanded(x, d, r, lossy')
    <3>1. CASE u = t
      BY <1>2, <3>1
    <3>2. CASE u # t
      <4>1. Commanded(x, d, r, lossy)
        BY <1>2, <3>2 DEF DInv, ReadersOK, ReaderOK
      <4> QED BY <4>1, MoreLossy
    <3> QED BY <3>1, <3>2
  <2>2. \A l : l = x.lid /\ Live(x, dev[l]) => Served(x, dev[l], Last(received[l]), C(l)', Queue(l)', lossy')
    BY <1>2
  <2>3. Live(x, d) => Served(x, d, r, C(th[u].lid)', Queue(th[u].lid)', lossy')
    BY <2>2
  <2> QED BY <2>1, <2>3 DEF ReaderOK, Commanded, Live, Served, Pos
<1> QED BY <1>4, <1>5, <1>6, <1>7, <1>8 DEF DInv

LEMMA ReaderStep ==
  ASSUME DInv, IInv', NEW t \in Threads, NEW y, th' = [th EXCEPT ![t] = y],
         UNCHANGED <<dev, to_dev, received, local_id, lossy>>,
         \A l \in Lids : C(l)' \subseteq C(l) /\ Ordered(Queue(l), Hand(l), to_host, l)',
         OriginOK',
         y.lid \in {0, th[t].lid}, y.pc # "open",
         \A i \in DOMAIN to_dev : Sender(y, to_dev[i]),
         Commanded(y, dev[y.lid], Last(received[y.lid]), lossy),
         \A l : l = y.lid /\ Live(y, dev[l]) =>
                  Served(y, dev[l], Last(received[l]), C(l)', Queue(l)', lossy),
         \A u \in Threads \ {t} : \A l : l = th[u].lid /\ Live(th[u], dev[l]) =>
                  Served(th[u], dev[l], Last(received[l]), C(l)', Queue(l)', lossy)
  PROVE  DInv'
<1>1. lossy' = lossy /\ lossy \subseteq lossy' /\ UNCHANGED <<dev, to_dev, received, local_id>>
  OBVIOUS
<1>2. Commanded(y, dev[y.lid], Last(received[y.lid]), lossy')
  BY <1>1
<1>3. \A l : l = y.lid /\ Live(y, dev[l]) =>
               Served(y, dev[l], Last(received[l]), C(l)', Queue(l)', lossy')
  BY <1>1
<1>4. \A u \in Threads \ {t} : \A l : l = th[u].lid /\ Live(th[u], dev[l]) =>
               Served(th[u], dev[l], Last(received[l]), C(l)', Queue(l)', lossy')
  BY <1>1
<1> QED BY <1>1, <1>2, <1>3, <1>4, PipeStep

(* The hands after a step of the one who holds the lock.                   *)
LEMMA HandAfter ==
  ASSUME IInv, NEW t \in Threads, NEW y, th' = [th EXCEPT ![t] = y],
         th[t].pc \in {"recheck", "wire", "dispatch"}, NEW l
  PROVE  /\ y.pc = "dispatch" => Hand(l)' = {p \in {y.pkt} : p.arg1 = l}
         /\ y.pc # "dispatch" => Hand(l)' = {}
<1>1. \A u \in Threads \ {t} : th[u].pc # "dispatch"
  BY DEF IInv, LockHeldByReader
<1>2. th'[t] = y /\ \A u \in Threads \ {t} : th'[u] = th[u]
  BY Types
<1> DEFINE S == {x \in Threads : th'[x].pc = "dispatch" /\ th'[x].pkt.arg1 = l}
<1>3. Hand(l)' = {th'[u].pkt : u \in S}
  BY DEF Hand
<1>4. ASSUME y.pc # "dispatch" PROVE Hand(l)' = {}
  <2>1. S = {}
    BY <1>1, <1>2, <1>4
  <2> HIDE DEF S
  <2> QED BY <1>3, <2>1
<1>5. ASSUME y.pc = "dispatch" PROVE Hand(l)' = {p \in {y.pkt} : p.arg1 = l}
  <2>1. CASE y.pkt.arg1 = l
    <3>1. S = {t}
      BY <1>1, <1>2, <1>5, <2>1
    <3> HIDE DEF S
    <3>2. Hand(l)' = {y.pkt}
      BY <1>2, <1>3, <3>1
    <3> QED BY <2>1, <3>2
  <2>2. CASE y.pkt.arg1 # l
    <3>1. S = {}
      BY <1>1, <1>2, <1>5, <2>2
    <3> HIDE DEF S
    <3>2. Hand(l)' = {}
      BY <1>3, <3>1
    <3> QED BY <2>2, <3>2
  <2> QED BY <2>1, <2>2
<1> QED BY <1>4, <1>5

LEMMA DReadWire ==
  ASSUME DInv, IInv', NEW t \in Threads, ReadWire(t)
  PROVE  DInv'
<1> DEFINE x == th[t]
           y == [x EXCEPT !.pc = "dispatch", !.pkt = Head(to_host)]
<1>1. IInv /\ th[t] \in Thread /\ th[t].pc = "wire" /\ to_host \in Seq(Packet) /\ to_host # <<>>
  BY Types DEF DInv, ReadWire
<1>2. /\ th' = [th EXCEPT ![t] = y] /\ to_host' = Tail(to_host)
      /\ UNCHANGED <<store, dev, to_dev, received, local_id, lossy>>
  BY DEF ReadWire, ioVars, devVars
<1>3. /\ y.pc = "dispatch" /\ y.pkt = Head(to_host) /\ y.lid = x.lid /\ y.ctx = x.ctx
      /\ y.op = x.op /\ y.rid = x.rid /\ y.failing = x.failing
  BY <1>1 DEF Thread
<1> HIDE DEF y
<1>4. ASSUME NEW l
      PROVE  /\ Queue(l)' = Queue(l) /\ Hand(l) = {} /\ Hand(l)' = {p \in {Head(to_host)} : p.arg1 = l}
  <2>1. Queue(l)' = Queue(l)
    BY <1>2 DEF Queue
  <2>2. Hand(l) = {}
    BY <1>1, HandOfReader
  <2>3. Hand(l)' = {p \in {y.pkt} : p.arg1 = l}
    BY <1>1, <1>2, <1>3, HandAfter
  <2> QED BY <1>3, <2>1, <2>2, <2>3
<1>5. ASSUME NEW l \in Lids
      PROVE  C(l)' = C(l) /\ Ordered(Queue(l), Hand(l), to_host, l)'
  <2>1. Ordered(Queue(l), {}, to_host, l)
    BY <1>4 DEF DInv, PipesOK
  <2>2. LET H == {p \in {Head(to_host)} : p.arg1 = l}
        IN  /\ Contents(Queue(l), H, Tail(to_host), l) = Contents(Queue(l), {}, to_host, l)
            /\ Ordered(Queue(l), H, Tail(to_host), l)
    BY <1>1, <2>1, TakeOffWire
  <2>3. Ordered(Queue(l)', Hand(l)', to_host', l)
    BY <1>2, <1>4, <2>2
  <2>4. Contents(Queue(l)', Hand(l)', to_host', l) = Contents(Queue(l), Hand(l), to_host, l)
    BY <1>2, <1>4, <2>2
  <2> QED BY <2>3, <2>4 DEF C, Ordered
<1>6. OriginOK'
  <2>1. \A l, r : Current(l, r) => Current(l, r)'
    BY <1>2 DEF Current
  <2>2. \A p : Origin(p) => Origin(p)'
    BY <1>2, <2>1 DEF Origin
  <2>3. th'[t] = y /\ \A u \in Threads \ {t} : th'[u] = th[u]
    BY <1>1, <1>2, Types
  <2>4. Origin(Head(to_host)) /\ \A i \in DOMAIN to_host' : Origin(to_host'[i])
    <3>1. \A i \in DOMAIN to_host' : i + 1 \in DOMAIN to_host /\ to_host'[i] = to_host[i + 1]
      BY <1>1, <1>2
    <3>2. 1 \in DOMAIN to_host /\ Head(to_host) = to_host[1]
      BY <1>1
    <3> QED BY <3>1, <3>2 DEF DInv, OriginOK
  <2>5. \A u \in Threads : th'[u].pc = "dispatch" => Origin(th'[u].pkt)
    BY <1>3, <2>3, <2>4 DEF DInv, OriginOK
  <2>6. \A u \in Threads : th'[u].pc = "dispatch" => Origin(th[u].pkt)'
    BY <2>2, <2>5
  <2>7. \A i \in DOMAIN to_host' : Origin(to_host[i])'
    BY <2>2, <2>4
  <2>8. \A k \in DOMAIN store' : Current(k[2], k[1])'
    BY <1>2, <2>1 DEF DInv, OriginOK
  <2> QED BY <2>6, <2>7, <2>8 DEF OriginOK
<1>7. y.lid \in {0, th[t].lid} /\ y.pc \notin {"open", "request"}
  BY <1>3
<1>8. \A i \in DOMAIN to_dev : Sender(y, to_dev[i])
  BY <1>3, <1>7, SenderStep
<1>9. x.lid \in Lids
  BY <1>1, Types DEF ThreadOK, Reading
<1>10. Commanded(y, dev[y.lid], Last(received[y.lid]), lossy)
  <2>1. Commanded(x, dev[x.lid], Last(received[x.lid]), lossy)
    BY ReaderFacts
  <2> QED BY <1>1, <1>3, <2>1 DEF Commanded
<1>11. Live(y, dev[y.lid]) =>
         Served(y, dev[y.lid], Last(received[y.lid]), C(y.lid), Queue(y.lid), lossy)
  <2>1. Live(x, dev[x.lid]) =>
          Served(x, dev[x.lid], Last(received[x.lid]), C(x.lid), Queue(x.lid), lossy)
    BY ReaderFacts
  <2>2. Live(y, dev[y.lid]) <=> Live(x, dev[x.lid])
    BY <1>3 DEF Live
  <2>3. \A r : Pos(x, r) = Pos(y, r)
    BY <1>1, <1>3 DEF Pos
  <2> QED BY <1>1, <1>3, <2>1, <2>2, <2>3 DEF Served
<1>12. \A l : l = y.lid /\ Live(y, dev[l]) =>
                Served(y, dev[l], Last(received[l]), C(l)', Queue(l)', lossy)
  BY <1>3, <1>4, <1>5, <1>9, <1>11
<1>13. \A u \in Threads \ {t} : \A l : l = th[u].lid /\ Live(th[u], dev[l]) =>
                Served(th[u], dev[l], Last(received[l]), C(l)', Queue(l)', lossy)
  <2> SUFFICES ASSUME NEW u \in Threads \ {t}, NEW l, l = th[u].lid, Live(th[u], dev[l])
               PROVE  Served(th[u], dev[l], Last(received[l]), C(l)', Queue(l)', lossy)
    OBVIOUS
  <2>1. Served(th[u], dev[l], Last(received[l]), C(l), Queue(l), lossy)
    BY ReaderFacts
  <2>2. th[u].lid \in Lids
    BY LiveHasLid
  <2> QED BY <1>4, <1>5, <2>1, <2>2
<1> QED BY <1>2, <1>5, <1>6, <1>7, <1>8, <1>10, <1>12, <1>13, ReaderStep

(* A packet is spoiled: it is gone, and of its stream nothing is claimed   *)
(* but the order of what is left.                                          *)
LEMMA DSpoiled ==
  ASSUME DInv, IInv', NEW t \in Threads, th[t].pc = "wire",
         th' = [th EXCEPT ![t] = Raised(@)],
         to_host # <<>>, to_host' = Tail(to_host),
         lossy' = lossy \cup {Head(to_host).arg1},
         UNCHANGED <<store, dev, to_dev, received, local_id>>
  PROVE  DInv'
<1>1. PICK y, p : y = Raised(th[t]) /\ p = Head(to_host)
  OBVIOUS
<1>2. /\ IInv /\ to_host \in Seq(Packet) /\ p \in Packet /\ p.arg1 \in Lids
      /\ th' = [th EXCEPT ![t] = y] /\ lossy \subseteq lossy' /\ p.arg1 \in lossy'
  <2>1. to_host \in Seq(Packet) /\ p \in Packet
    BY <1>1, Types DEF DInv
  <2> QED BY <1>1, <2>1 DEF DInv, Packet
<1>3. /\ Commanded(y, dev[y.lid], Last(received[y.lid]), lossy)
      /\ \A l : l = y.lid => ~Live(y, dev[l])
      /\ y.lid \in {0, th[t].lid} /\ y.pc \in {"idle", "clse"}
      /\ y.lid = 0 \/ (y.ctx = th[t].ctx /\ y.op = th[t].op)
  <2>1. LET l == th[t].lid
        IN  /\ Commanded(y, dev[l], Last(received[l]), lossy) /\ ~Live(y, dev[l])
            /\ y.lid \in {0, l} /\ y.pc \in {"idle", "clse"}
            /\ y.lid = 0 \/ (y.ctx = th[t].ctx /\ y.op = th[t].op)
    BY <1>1, ReaderFacts, RaisedIsFine DEF Reading
  <2>2. CASE y = IdleThread
    BY <2>1, <2>2, IdleIsFine
  <2>3. CASE y # IdleThread
    <3>1. y.lid = th[t].lid
      BY <1>1, <2>3, ReaderFacts DEF Raised, Thread
    <3> QED BY <2>1, <3>1
  <2> QED BY <2>2, <2>3
<1>4. ASSUME NEW l
      PROVE  Queue(l)' = Queue(l) /\ Hand(l) = {} /\ Hand(l)' = {}
  <2>1. Queue(l)' = Queue(l)
    BY DEF Queue
  <2>2. Hand(l) = {}
    BY <1>2, HandOfReader
  <2>3. Hand(l)' = {}
    <3>1. th[t].pc \in {"recheck", "wire", "dispatch"} /\ y.pc # "dispatch"
      BY <1>3
    <3> QED BY <1>2, <3>1, HandAfter
  <2> QED BY <2>1, <2>2, <2>3
<1>5. ASSUME NEW l \in Lids
      PROVE  /\ C(l)' \subseteq C(l) /\ Ordered(Queue(l), Hand(l), to_host, l)'
             /\ l # p.arg1 => C(l)' = C(l)
  <2> DEFINE q == Queue(l)
             w == Tail(to_host)
  <2>1. Ordered(q, {}, to_host, l)
    BY <1>4 DEF DInv, PipesOK
  <2>2. LET H == {x \in {p} : x.arg1 = l}
        IN  /\ Contents(q, H, w, l) = Contents(q, {}, to_host, l)
            /\ Ordered(q, H, w, l)
    BY <1>1, <1>2, <2>1, TakeOffWire
  <2> HIDE DEF q, w
  <2>3. /\ Ordered(q, {}, w, l)
        /\ Contents(q, {}, w, l) \subseteq Contents(q, {}, to_host, l)
        /\ l # p.arg1 => Contents(q, {}, w, l) = Contents(q, {}, to_host, l)
    <3>1. CASE p.arg1 = l
      <4>1. {x \in {p} : x.arg1 = l} = {p}
        BY <3>1
      <4>2. Contents(q, {p}, w, l) = Contents(q, {}, to_host, l) /\ Ordered(q, {p}, w, l)
        BY <2>2, <4>1
      <4>3. Ordered(q, {}, w, l) /\ Contents(q, {p}, w, l) = {Body(p)} \cup Contents(q, {}, w, l)
        <5>1. Ordered(q, {}, w, l)
          BY <4>2 DEF Ordered
        <5>2. Contents(q, {p}, w, l) = {Body(p)} \cup Contents(q, {}, w, l)
          BY DEF Contents
        <5> QED BY <5>1, <5>2
      <4> QED BY <3>1, <4>2, <4>3
    <3>2. CASE p.arg1 # l
      <4>1. {x \in {p} : x.arg1 = l} = {}
        BY <3>2
      <4> QED BY <2>2, <4>1
    <3> QED BY <3>1, <3>2
  <2>4. Queue(l)' = q /\ Hand(l)' = {} /\ to_host' = w /\ Hand(l) = {} /\ Queue(l) = q
    BY <1>4 DEF q, w
  <2>5. Ordered(Queue(l)', Hand(l)', to_host', l)
    BY <2>3, <2>4
  <2>6. /\ Contents(Queue(l)', Hand(l)', to_host', l) \subseteq Contents(Queue(l), Hand(l), to_host, l)
        /\ l # p.arg1 =>
             Contents(Queue(l)', Hand(l)', to_host', l) = Contents(Queue(l), Hand(l), to_host, l)
    BY <2>3, <2>4
  <2> QED BY <2>5, <2>6 DEF C, Ordered
<1>6. OriginOK'
  <2>1. \A l, r : Current(l, r) => Current(l, r)'
    BY DEF Current
  <2>2. \A x : Origin(x) => Origin(x)'
    BY <2>1 DEF Origin
  <2>3. th'[t] = y /\ \A u \in Threads \ {t} : th'[u] = th[u]
    BY <1>2, Types
  <2>4. \A i \in DOMAIN to_host' : i + 1 \in DOMAIN to_host /\ to_host'[i] = to_host[i + 1]
    BY <1>2
  <2>5. \A i \in DOMAIN to_host' : Origin(to_host'[i])
    BY <2>4 DEF DInv, OriginOK
  <2>6. \A u \in Threads : th'[u].pc = "dispatch" => Origin(th'[u].pkt)
    BY <1>3, <2>3 DEF DInv, OriginOK
  <2>7. \A u \in Threads : th'[u].pc = "dispatch" => Origin(th[u].pkt)'
    BY <2>2, <2>6
  <2>8. \A i \in DOMAIN to_host' : Origin(to_host[i])'
    BY <2>2, <2>5
  <2>9. \A k \in DOMAIN store' : Current(k[2], k[1])'
    BY <2>1 DEF DInv, OriginOK
  <2> QED BY <2>7, <2>8, <2>9 DEF OriginOK
<1>7. \A i \in DOMAIN to_dev : Sender(y, to_dev[i])
  BY <1>3, SenderStep
<1>8. /\ \A x, d, r : Commanded(x, d, r, lossy) => Commanded(x, d, r, lossy')
      /\ \A x, d, r, c, q : Served(x, d, r, c, q, lossy) => Served(x, d, r, c, q, lossy')
  <2>1. ASSUME NEW M, lossy \subseteq M
        PROVE  /\ \A x, d, r : Commanded(x, d, r, lossy) => Commanded(x, d, r, M)
               /\ \A x, d, r, c, q : Served(x, d, r, c, q, lossy) => Served(x, d, r, c, q, M)
    BY <2>1, MoreLossy
  <2> QED BY <1>2, <2>1, Zenon
<1>9. ASSUME NEW u \in Threads \ {t}, NEW l, l = th[u].lid, Live(th[u], dev[l])
      PROVE  Served(th[u], dev[l], Last(received[l]), C(l)', Queue(l)', lossy')
  <2> DEFINE x == th[u]
             d == dev[l]
             r == Last(received[l])
             c == C(l)
             e == C(l)'
             q == Queue(l)
  <2>1. Served(x, d, r, c, q, lossy) /\ x.lid = l
    BY <1>9, ReaderFacts
  <2>2. l \in Lids
    BY <1>9, LiveHasLid
  <2>3. e \subseteq c /\ (l # p.arg1 => e = c) /\ Queue(l)' = q
    BY <1>4, <1>5, <2>2
  <2> HIDE DEF x, d, r, c, e, q
  <2>4. ASSUME l = p.arg1
        PROVE  Served(x, d, r, e, q, lossy')
    <3>1. x.lid \in lossy'
      BY <1>2, <2>1, <2>4
    <3> QED BY <2>1, <2>3, <3>1 DEF Served
  <2>5. ASSUME l # p.arg1
        PROVE  Served(x, d, r, e, q, lossy')
    <3>1. Served(x, d, r, c, q, lossy')
      BY <1>8, <2>1
    <3> QED BY <2>3, <2>5, <3>1
  <2>6. Served(x, d, r, e, q, lossy')
    BY <2>4, <2>5
  <2> QED BY <2>3, <2>6 DEF x, d, r, e, q
<1>10. /\ UNCHANGED <<dev, to_dev, received, local_id>>
       /\ y.lid \in {0, th[t].lid} /\ y.pc # "open"
       /\ \A l \in Lids : C(l)' \subseteq C(l) /\ Ordered(Queue(l), Hand(l), to_host, l)'
       /\ \A l : l = y.lid /\ Live(y, dev[l]) =>
                  Served(y, dev[l], Last(received[l]), C(l)', Queue(l)', lossy')
       /\ Commanded(y, dev[y.lid], Last(received[y.lid]), lossy')
  BY <1>3, <1>5, <1>8
<1> QED BY <1>2, <1>6, <1>7, <1>9, <1>10, PipeStep

LEMMA DReadRaises ==
  ASSUME DInv, IInv', NEW t \in Threads, ReadRaises(t)
  PROVE  DInv'
<1>1. /\ th[t].pc = "wire" /\ th' = [th EXCEPT ![t] = Raised(@)]
      /\ UNCHANGED <<store, dev, to_dev, received, local_id>>
      /\ \/ UNCHANGED <<to_host, lossy>>
         \/ /\ to_host # <<>> /\ to_host' = Tail(to_host)
            /\ lossy' = lossy \cup {Head(to_host).arg1}
  BY DEF ReadRaises, ReadFails, NothingRead, PacketSpoiled, devVars
<1>2. th[t].pc \in Sending \cup Reading /\ th[t].pc # "dispatch"
  BY <1>1 DEF Reading
<1> QED BY <1>1, <1>2, DRaises, DSpoiled

(* What a search of the store finds is the queue of the thread's stream;   *)
(* if a live thread finds nothing, that queue is empty.                    *)
LEMMA SearchFinds ==
  ASSUME DInv, NEW t \in Threads, th[t].lid \in Lids
  PROVE  LET l == th[t].lid
         IN  /\ \A k \in Matches(th[t]) :
                  k \in DOMAIN store /\ store[k] # <<>> /\ k = <<dev[l].rid, l>> /\ Current(l, k[1])
             /\ Live(th[t], dev[l]) /\ Matches(th[t]) = {} => Queue(l) = <<>>
<1> DEFINE x == th[t]
           l == x.lid
           K == <<dev[l].rid, l>>
<1>1. None \notin Nat /\ l \in Lids /\ l # 0 /\ l \in Nat
  BY Types DEF DInv, Lids
<1>2. \A k \in DOMAIN store : k = <<k[1], k[2]>> /\ Current(k[2], k[1]) /\ k[2] # 0
  BY DEF DInv, OriginOK, IInv, TypeOK, StoreOK, Current, Lids
<1>3. ASSUME NEW k \in Matches(x)
      PROVE  k \in DOMAIN store /\ store[k] # <<>> /\ k = K /\ Current(l, k[1])
  <2>1. k \in DOMAIN store /\ store[k] # <<>>
    BY <1>3, MatchesHit
  <2>2. k[2] = l
    <3>1. CASE AllowZeros(x.ctx)
      <4>1. k \in Find(store, x.rid, l) \cup Find(store, x.rid, 0) \cup Find(store, 0, l)
                  \cup Find(store, 0, 0)
        BY <1>3, <3>1, FindAllowZerosFrom DEF Matches
      <4> QED BY <1>1, <1>2, <2>1, <4>1 DEF Find
    <3>2. CASE ~AllowZeros(x.ctx)
      BY <1>1, <1>3, <3>2 DEF Matches, Find
    <3> QED BY <3>1, <3>2
  <2>3. k = <<k[1], k[2]>> /\ Current(k[2], k[1])
    BY <1>2, <2>1
  <2> QED BY <2>1, <2>2, <2>3 DEF Current
<1>4. ASSUME Live(x, dev[l]), Matches(x) = {} PROVE Queue(l) = <<>>
  <2>1. Find(store, x.rid, l) = {}
    BY <1>4, FindAllowZerosFrom DEF Matches
  <2>2. x.rid \in {None, dev[l].rid}
    <3>1. Commanded(x, dev[l], Last(received[l]), lossy)
      BY ReaderFacts
    <3> QED BY <1>4, <3>1 DEF Live, Commanded
  <2>3. K[1] = dev[l].rid /\ K[2] = l
    OBVIOUS
  <2>4. K \in DOMAIN store /\ store[K] # <<>> => K \in Find(store, x.rid, l)
    BY <2>2, <2>3 DEF Find
  <2> QED BY <2>1, <2>4 DEF Queue, QueueOf
<1> QED BY <1>3, <1>4

LEMMA DNotFound ==
  ASSUME DInv, IInv', NEW t \in Threads, NEW from \in {"fast", "recheck"}, NEW next \in {"lock", "wire"},
         th[t].pc = from, NotFound(t, next),
         UNCHANGED <<dev, to_host, to_dev, received, local_id, lossy>>
  PROVE  DInv'
<1> DEFINE y == [th[t] EXCEPT !.pc = next]
<1>1. th[t].pc \in Reading /\ th[t].pc # "dispatch" /\ next \in Reading /\ next # "dispatch"
  BY DEF Reading
<1>2. th' = [th EXCEPT ![t] = y] /\ UNCHANGED store
  BY DEF NotFound
<1>3. th[t].lid \in Lids
  BY <1>1, ReaderFacts DEF ThreadOK
<1>4. /\ Commanded(y, dev[th[t].lid], Last(received[th[t].lid]), lossy)
      /\ Live(y, dev[th[t].lid]) =>
           Served(y, dev[th[t].lid], Last(received[th[t].lid]), C(th[t].lid), Queue(th[t].lid), lossy)
      /\ y.pc = next /\ y.lid = th[t].lid /\ y.ctx = th[t].ctx /\ y.op = th[t].op
  <2>1. Live(th[t], dev[th[t].lid]) => Queue(th[t].lid) = <<>>
    BY <1>3, SearchFinds DEF NotFound
  <2> QED BY <1>1, <2>1, DMoves
<1> HIDE DEF y
<1> QED BY <1>1, <1>2, <1>4, QuietStep

(* The packet that the thread t takes leaves the rest T on the way.        *)
LEMMA TakingStep ==
  ASSUME DInv, NEW t \in Threads, th[t].pc \in Reading,
         NEW e, NEW T, NEW st \in {"none", "open", "closed"}, dev[th[t].lid].st = st,
         C(th[t].lid) = {e} \cup T, e.cmd # "CLSE" => st # "none",
         Live(th[t], dev[th[t].lid]) => \A f \in T : Before(e, f)
  PROVE  LET l == th[t].lid
         IN  Taking(th[t], dev[l], Last(received[l]), e, T, Queue(l), lossy)
<1> DEFINE x == th[t]
           l == x.lid
           d == dev[l]
           r == Last(received[l])
<1>1. InRead(x)
  BY ReaderFacts, ReadersAreInRead
<1>2. l \in Lids /\ d \in DevStream /\ r \in Nat
  <2>1. received[l] \in Seq(Data)
    BY <1>1, Types DEF InRead, DInv
  <2> QED BY <1>1, <2>1, LastFacts, Types DEF InRead, DInv
<1>3. e \in Stored /\ T \in SUBSET Stored
  BY ContentsAreTyped DEF DInv
<1>4. Ends(l, d, received[l], lossy) /\ \A f \in C(l) : OnTheWay(l, d, f)
  BY <1>2 DEF DInv, PipesOK
<1>5. /\ Commanded(x, d, r, lossy)
      /\ Live(x, d) => Served(x, d, r, C(l), Queue(l), lossy)
  BY ReaderFacts
<1>6. e \in C(l)
  OBVIOUS
<1>7. e.cmd \in {"OKAY", "WRTE", "CLSE"}
  BY <1>3, StoredFacts
<1>8. /\ r <= d.n /\ (d.op # Shell /\ ~d.asked => d.n = 0)
      /\ d.st # "gone" /\ (d.st = "none" => e.cmd = "CLSE" /\ d.n = 0)
  BY <1>4, <1>7 DEF Ends
<1>9. OnTheWay(l, d, e)
  BY <1>4, <1>6
<1>10. Live(x, d) => Served(x, d, r, {e} \cup T, Queue(l), lossy) /\ \A f \in T : Before(e, f)
  BY <1>5
<1> HIDE DEF x, d, r
<1> QED BY <1>1, <1>2, <1>3, <1>5, <1>8, <1>9, <1>10 DEF Taking, x, d, r

LEMMA DFound ==
  ASSUME DInv, IInv', NEW t \in Threads, th[t].pc \in {"fast", "recheck"},
         NEW k \in Matches(th[t]), Found(t, k),
         UNCHANGED <<dev, to_host, to_dev, received, local_id, lossy>>,
         NEW l, l = th[t].lid
  PROVE  DInv'
<1> DEFINE x == th[t]
           d == dev[l]
           r == Last(received[l])
           q == Queue(l)
           e == Head(q)
           T == Contents(Tail(q), Hand(l), to_host, l)
           p == Msg(PacketAt(store, k).cmd, k[1], k[2], PacketAt(store, k).data)
           y == IF p.cmd \in Expected(x.ctx) THEN Returned(x, p) ELSE x
<1>1. IInv /\ x.pc \in Reading /\ x.pc \notin {"wire", "dispatch", "open", "request"}
  BY DEF DInv, Reading
<1>2. l \in Lids /\ x \in Thread /\ ThreadOK(x)
  BY <1>1, ReaderFacts DEF ThreadOK
<1>3. k \in DOMAIN store /\ store[k] # <<>> /\ k = <<d.rid, l>> /\ Current(l, k[1])
  BY <1>2, SearchFinds
<1>4. q = store[k] /\ q # <<>> /\ q \in Seq(Stored) /\ e \in Stored
  <2>1. q = store[k]
    BY <1>3 DEF Queue, QueueOf
  <2> QED BY <1>1, <1>3, <2>1, QueueIsTyped
<1>5. p.cmd = e.cmd /\ p.data = e.data /\ p.arg0 = d.rid /\ p \in Packet
  <2>1. k[1] = d.rid /\ k \in Nat \X Lids
    BY <1>1, <1>3 DEF IInv, TypeOK, StoreOK
  <2>2. p \in Packet
    BY <1>4, <2>1, StoredIsPacket DEF PacketAt
  <2> QED BY <1>4, <2>1, <2>2 DEF Msg, PacketAt
<1>6. store' = AfterGet(store, k) /\ th' = [th EXCEPT ![t] = y]
  <2>3. store' = AfterGet(store, k)
    BY DEF Found
  <2>1. CASE p.cmd \in Expected(x.ctx)
    BY <2>1 DEF Found
  <2>2. CASE p.cmd \notin Expected(x.ctx)
    <3>1. th' = th /\ y = x
      BY <2>2 DEF Found
    <3>2. th = [th EXCEPT ![t] = th[t]]
      BY <1>1, Types
    <3> HIDE DEF y
    <3> QED BY <2>3, <3>1, <3>2
  <2> QED BY <2>1, <2>2
<1>7. /\ C(l) = {e} \cup T /\ Ordered(Tail(q), Hand(l), to_host, l)
      /\ \A f \in T : Before(e, f)
  <2>1. Ordered(q, Hand(l), to_host, l)
    BY <1>2 DEF DInv, PipesOK
  <2>2. q \in Seq(Stored) /\ q # <<>>
    BY <1>4
  <2>3. C(l) = Contents(q, Hand(l), to_host, l)
    BY DEF C
  <2> HIDE DEF q
  <2>4. /\ Ordered(Tail(q), Hand(l), to_host, l)
        /\ Contents(q, Hand(l), to_host, l) = {Head(q)} \cup Contents(Tail(q), Hand(l), to_host, l)
        /\ \A f \in Contents(Tail(q), Hand(l), to_host, l) : Before(Head(q), f)
    BY <2>1, <2>2, QueueHead
  <2> QED BY <2>3, <2>4
<1> HIDE DEF p
<1>8. Taking(x, d, r, e, T, q, lossy)
  <2>1. dev[l].st \in {"open", "closed"}
    BY <1>3 DEF Current
  <2>2. e.cmd # "CLSE" => dev[l].st # "none"
    BY <2>1
  <2> HIDE DEF e, T
  <2> QED BY <1>1, <1>7, <2>1, <2>2, TakingStep
<1>9. /\ Commanded(y, d, r, lossy) /\ \A z : Live(y, d) => Served(y, d, r, T, z, lossy)
      /\ y.pc \notin {"open", "wire", "dispatch"}
      /\ \/ y = IdleThread
         \/ y = x
         \/ y.lid = l /\ y.ctx # "open" /\ d.st # "none" /\ (y.pc = "request" => x.ctx = "open")
  <2> HIDE DEF d, e, T, q, r
  <2>1. CASE p.cmd \in Expected(x.ctx)
    <3>1. y = Returned(x, p)
      BY <2>1
    <3> HIDE DEF y, x
    <3>2. e.cmd \in Expected(x.ctx) /\ (d.st # "none" => p.arg0 = d.rid)
      BY <1>5, <2>1
    <3>3. /\ Commanded(y, d, r, lossy)
          /\ y.pc \notin {"open", "wire", "dispatch"}
          /\ y = IdleThread \/ (/\ y.lid = x.lid /\ y.ctx # "open" /\ d.st # "none"
                                /\ y.pc = "request" => x.ctx = "open")
      BY <1>5, <1>8, <3>1, <3>2, ReturnedIsFine
    <3>4. ASSUME NEW z PROVE Live(y, d) => Served(y, d, r, T, z, lossy)
      BY <1>5, <1>8, <3>1, <3>2, ReturnedIsFine
    <3> QED BY <3>3, <3>4 DEF x
  <2>2. CASE p.cmd \notin Expected(x.ctx)
    <3>1. y = x
      BY <2>2
    <3> HIDE DEF y, x
    <3>2. e.cmd \notin Expected(x.ctx) /\ x.pc \in Reading \ {"wire", "dispatch"}
      BY <1>1, <1>5, <2>2 DEF x
    <3>3. ASSUME NEW z PROVE Commanded(x, d, r, lossy) /\ (Live(x, d) => Served(x, d, r, T, z, lossy))
      BY <1>8, <3>2, DroppedIsFine
    <3> QED BY <1>1, <3>1, <3>3 DEF x
  <2> QED BY <2>1, <2>2
<1>10. y.lid \in {0, l} /\ (y.lid = 0 => y = IdleThread)
  <2>1. IdleThread.lid = 0
    BY IdleIsFine
  <2>2. l # 0
    BY <1>2 DEF Lids
  <2> QED BY <1>9, <2>1, <2>2
<1> HIDE DEF y
<1>11. ASSUME NEW m PROVE Hand(m)' = Hand(m)
  <2>1. th'[t] = y /\ \A u \in Threads \ {t} : th'[u] = th[u]
    BY <1>1, <1>6, Types
  <2> QED BY <1>1, <1>9, <2>1 DEF Hand
<1>12. ASSUME NEW m \in Lids, m # l
       PROVE  Queue(m)' = Queue(m) /\ C(m)' = C(m) /\ Ordered(Queue(m), Hand(m), to_host, m)'
  <2>1. <<dev[m].rid, m>> # k
    BY <1>3, <1>12
  <2>2. Queue(m)' = Queue(m)
    BY <1>3, <1>6, <2>1, GetQueues DEF Queue
  <2>3. C(m)' = C(m)
    BY <1>11, <2>2 DEF C, Contents
  <2>4. Ordered(Queue(m), Hand(m), to_host, m)
    BY DEF DInv, PipesOK
  <2>5. Ordered(Queue(m)', Hand(m)', to_host', m)
    BY <1>11, <2>2, <2>4
  <2> QED BY <2>2, <2>3, <2>5 DEF Ordered
<1>13. C(l)' = T /\ Ordered(Queue(l), Hand(l), to_host, l)'
  <2>1. Queue(l)' = IF e.cmd = "CLSE" THEN <<>> ELSE Tail(q)
    <3>1. QueueOf(store', k) = IF Head(store[k]).cmd = "CLSE" THEN <<>> ELSE Tail(store[k])
      BY <1>3, <1>6, GetQueues
    <3>2. Queue(l)' = QueueOf(store', k)
      BY <1>3 DEF Queue
    <3> QED BY <1>4, <3>1, <3>2
  <2>0. Hand(l)' = Hand(l)
    BY <1>11
  <2> HIDE DEF q
  <2>2. CASE e.cmd # "CLSE"
    <3>1. Queue(l)' = Tail(q)
      BY <2>1, <2>2
    <3>2. Contents(Queue(l)', Hand(l)', to_host', l) = T
      BY <2>0, <3>1
    <3>3. Ordered(Queue(l)', Hand(l)', to_host', l)
      BY <1>7, <2>0, <3>1
    <3> QED BY <3>2, <3>3 DEF C, Ordered
  <2>3. CASE e.cmd = "CLSE"
    <3>1. Queue(l)' = <<>>
      BY <2>1, <2>3
    <3>2. T = {}
      <4>0. C(l) \subseteq Stored
        BY <1>1, ContentsAreTyped
      <4>1. T \subseteq C(l)
        BY <1>7
      <4> HIDE DEF e, T
      <4> QED BY <1>4, <1>7, <2>3, <4>0, <4>1, BeforeFacts
    <3>3. /\ Ordered(<<>>, Hand(l), to_host, l)
          /\ Contents(<<>>, Hand(l), to_host, l) \subseteq T
      <4>1. Ordered(Tail(q), Hand(l), to_host, l)
        BY <1>7
      <4> QED BY <4>1, QueueGone
    <3>4. Ordered(Queue(l)', Hand(l)', to_host', l)
      BY <2>0, <3>1, <3>3
    <3>5. Contents(Queue(l)', Hand(l)', to_host', l) = {}
      BY <2>0, <3>1, <3>2, <3>3
    <3> QED BY <3>2, <3>4, <3>5 DEF C, Ordered
  <2> QED BY <2>2, <2>3
<1> HIDE DEF T, e, q
<1>14. \A m \in Lids : C(m)' \subseteq C(m) /\ Ordered(Queue(m), Hand(m), to_host, m)'
  <2> SUFFICES ASSUME NEW m \in Lids
               PROVE  C(m)' \subseteq C(m) /\ Ordered(Queue(m), Hand(m), to_host, m)'
    OBVIOUS
  <2>1. CASE m = l
    BY <1>7, <1>13, <2>1
  <2>2. CASE m # l
    BY <1>12, <2>2
  <2> QED BY <2>1, <2>2
<1>15. OriginOK'
  <2>1. \A m, i : Current(m, i) => Current(m, i)'
    BY DEF Current
  <2>2. \A m : Origin(m) => Origin(m)'
    BY <2>1 DEF Origin
  <2>3. th'[t] = y /\ \A u \in Threads \ {t} : th'[u] = th[u]
    BY <1>1, <1>6, Types
  <2>4. \A u \in Threads : th'[u].pc = "dispatch" => Origin(th'[u].pkt)
    BY <1>9, <2>3 DEF DInv, OriginOK
  <2>5. \A u \in Threads : th'[u].pc = "dispatch" => Origin(th[u].pkt)'
    BY <2>2, <2>4
  <2>6. DOMAIN store' \subseteq DOMAIN store
    BY <1>3, <1>6, GetQueues
  <2>7. \A j \in DOMAIN store' : Current(j[2], j[1])'
    BY <2>1, <2>6 DEF DInv, OriginOK
  <2>8. \A i \in DOMAIN to_host' : Origin(to_host[i])'
    BY <2>2 DEF DInv, OriginOK
  <2> QED BY <2>5, <2>7, <2>8 DEF OriginOK
<1>16. \A i \in DOMAIN to_dev : Sender(y, to_dev[i])
  <2> SUFFICES ASSUME NEW i \in DOMAIN to_dev PROVE Sender(y, to_dev[i])
    OBVIOUS
  <2>1. Sender(x, to_dev[i]) /\ Request(to_dev[i])
    BY DEF DInv, RequestsOK
  <2>2. CASE y.lid = 0
    <3>1. to_dev[i].arg0 # 0
      <4>1. to_dev[i] \in HostPacket
        BY <1>1, Types
      <4> QED BY <4>1 DEF HostPacket, Lids
    <3> QED BY <2>2, <3>1 DEF Sender
  <2>3. CASE y = x
    BY <2>1, <2>3
  <2>4. CASE y.lid = l /\ y.ctx # "open" /\ d.st # "none" /\ (y.pc = "request" => x.ctx = "open")
    <3>1. to_dev[i].arg0 = l => to_dev[i].cmd # "OPEN"
      BY <2>1, <2>4 DEF Request, Untouched
    <3> QED BY <1>9, <2>1, <2>4, <3>1 DEF Sender
  <2> QED BY <1>9, <1>10, <2>2, <2>3, <2>4, IdleIsFine
<1>17. Commanded(y, dev[y.lid], Last(received[y.lid]), lossy)
  BY <1>9, <1>10, IdleIsFine
<1>18. \A m : m = y.lid /\ Live(y, dev[m]) =>
                Served(y, dev[m], Last(received[m]), C(m)', Queue(m)', lossy)
  <2>1. CASE y = IdleThread
    BY <2>1, IdleIsFine
  <2>2. CASE y # IdleThread
    <3>1. y.lid = l
      BY <1>10, <2>2
    <3> QED BY <1>9, <1>13, <3>1
  <2> QED BY <2>1, <2>2
<1>19. \A u \in Threads \ {t} : \A m : m = th[u].lid /\ Live(th[u], dev[m]) =>
                Served(th[u], dev[m], Last(received[m]), C(m)', Queue(m)', lossy)
  <2> SUFFICES ASSUME NEW u \in Threads \ {t}, NEW m, m = th[u].lid, Live(th[u], dev[m])
               PROVE  Served(th[u], dev[m], Last(received[m]), C(m)', Queue(m)', lossy)
    OBVIOUS
  <2>1. Served(th[u], dev[m], Last(received[m]), C(m), Queue(m), lossy)
    BY ReaderFacts
  <2>2. m \in Lids
    BY LiveHasLid
  <2>3. m # l
    BY <2>2 DEF DInv, LidsOK, Lids
  <2> QED BY <1>12, <2>1, <2>2, <2>3
<1> QED BY <1>6, <1>9, <1>10, <1>14, <1>15, <1>16, <1>17, <1>18, <1>19, ReaderStep

LEMMA DSearchStore ==
  ASSUME DInv, IInv', NEW t \in Threads,
         NEW from \in {"fast", "recheck"}, NEW next \in {"lock", "wire"}, SearchStore(t, from, next)
  PROVE  DInv'
<1>1. th[t].pc = from /\ UNCHANGED <<dev, to_host, to_dev, received, local_id, lossy>>
  BY DEF SearchStore, devVars
<1>2. CASE NotFound(t, next)
  BY <1>1, <1>2, DNotFound
<1>3. ASSUME NEW k \in Matches(th[t]), Found(t, k)
      PROVE  DInv'
  <2>1. PICK l : l = th[t].lid
    OBVIOUS
  <2> QED BY <1>1, <1>3, <2>1, DFound
<1> QED BY <1>2, <1>3 DEF SearchStore

(* A packet that goes to another reader, or is dropped because it is a     *)
(* CLSE that nobody waits for, is missed by nobody.                        *)
LEMMA StillServed ==
  ASSUME NEW L, NEW x, NEW d, NEW r, NEW c, NEW q, Served(x, d, r, c, q, L),
         NEW b, b \subseteq c, \A e \in c \ b : e.cmd = "CLSE", NEW z,
         NEW y, y.ctx = x.ctx, y.op = x.op, y.lid = x.lid, Pos(y, r) = Pos(x, r),
         y.pc = "request" => x.pc = "request",
         y.pc \in {"wire", "dispatch"} => x.pc = y.pc /\ z = q
  PROVE  Served(y, d, r, b, z, L)
<1>1. \A j : Wrte(x.lid, j).cmd = "WRTE"
  BY DEF Wrte
<1>2. Ok.cmd = "OKAY"
  BY DEF Ok
<1>3. /\ \A j : Wrte(x.lid, j) \in c => Wrte(x.lid, j) \in b
      /\ Ok \in c => Ok \in b
  BY <1>1, <1>2
<1> QED BY <1>3 DEF Served

(* Where the packet in the hand of the thread t belongs.                   *)
LEMMA InHandFacts ==
  ASSUME DInv, NEW t \in Threads, th[t].pc = "dispatch", NEW p, p = th[t].pkt
  PROVE  /\ p \in Packet /\ p.arg1 \in Lids /\ dev[p.arg1].st \in {"none", "open", "closed"}
         /\ dev[p.arg1].st = "none" => p.cmd = "CLSE" /\ p.arg0 = 0 /\ <<p.arg0, p.arg1>> \notin DOMAIN store
         /\ dev[p.arg1].st # "none" => p.arg0 = dev[p.arg1].rid
         /\ Hand(p.arg1) = {p} /\ \A m : m # p.arg1 => Hand(m) = {}
<1>1. IInv /\ th[t] \in Thread /\ ThreadOK(th[t])
  BY Types DEF DInv
<1>2. p \in Packet
  BY <1>1 DEF ThreadOK
<1>3. Origin(p)
  BY DEF DInv, OriginOK
<1>4. \A k \in DOMAIN store : dev[k[2]].st \in {"open", "closed"}
  BY DEF DInv, OriginOK, Current
<1>5. ASSUME NEW m PROVE Hand(m) = {x \in {p} : x.arg1 = m}
  BY <1>1, HandOfReader
<1>6. Hand(p.arg1) = {p} /\ \A m : m # p.arg1 => Hand(m) = {}
  BY <1>5
<1>7. <<p.arg0, p.arg1>>[2] = p.arg1
  OBVIOUS
<1> QED BY <1>2, <1>3, <1>4, <1>6, <1>7 DEF Origin, Current

(* What t does to the store and to itself, which becomes y, with a packet  *)
(* p that is not its own.                                                  *)
PutsAway(t, p, k, y) ==
  /\ th[t].pc = "dispatch" /\ p = th[t].pkt /\ k = <<p.arg0, p.arg1>>
  /\ p.cmd = "CLSE" /\ k \notin DOMAIN store => store' = store
  /\ ~(p.cmd = "CLSE" /\ k \notin DOMAIN store) =>
       /\ DOMAIN store' = DOMAIN store \cup {k}
       /\ QueueOf(store', k) = Append(QueueOf(store, k), Body(p))
  /\ \A j : j # k => QueueOf(store', j) = QueueOf(store, j)
  /\ th' = [th EXCEPT ![t] = y]
  /\ y.pc = "time" /\ y.lid = th[t].lid /\ y.ctx = th[t].ctx /\ y.op = th[t].op
  /\ y.rid = th[t].rid /\ y.failing = th[t].failing
  /\ UNCHANGED <<dev, to_host, to_dev, received, local_id, lossy>>

(* The packet is another stream's, or of no stream: it is put away.        *)
LEMMA DPut ==
  ASSUME DInv, IInv', NEW t \in Threads, NEW p, NEW k, NEW y, PutsAway(t, p, k, y)
  PROVE  DInv'
<1> USE DEF PutsAway
<1> DEFINE x == th[t]
<1>1. IInv /\ x \in Thread /\ ThreadOK(x) /\ x.pc = "dispatch"
  BY Types DEF DInv
<1>2. /\ y.pc = "time" /\ y.lid = x.lid /\ y.ctx = x.ctx /\ y.op = x.op /\ y.rid = x.rid
      /\ y.failing = x.failing
  OBVIOUS
<1> HIDE DEF x
<1>3. PICK l : l = p.arg1
  OBVIOUS
<1>4. /\ p \in Packet /\ l \in Lids /\ dev[l].st \in {"none", "open", "closed"}
      /\ dev[l].st = "none" => p.cmd = "CLSE" /\ p.arg0 = 0 /\ k \notin DOMAIN store
      /\ dev[l].st # "none" => p.arg0 = dev[l].rid
      /\ Hand(l) = {p} /\ \A m : m # l => Hand(m) = {}
  BY <1>3, InHandFacts
<1>5. ASSUME NEW m PROVE Hand(m)' = {}
  BY <1>1, <1>2, HandAfter DEF x
<1>6. ASSUME NEW m \in Lids, m # l
      PROVE  Queue(m)' = Queue(m) /\ C(m)' = C(m) /\ Ordered(Queue(m), Hand(m), to_host, m)'
  <2>1. k # <<dev[m].rid, m>>
    BY <1>3, <1>6
  <2>2. Queue(m)' = Queue(m)
    BY <2>1 DEF Queue
  <2>3. Hand(m)' = Hand(m)
    BY <1>4, <1>5, <1>6
  <2>4. Ordered(Queue(m), Hand(m), to_host, m)
    BY DEF DInv, PipesOK
  <2>5. Ordered(Queue(m)', Hand(m)', to_host', m)
    BY <2>2, <2>3, <2>4
  <2>6. Contents(Queue(m)', Hand(m)', to_host', m) = Contents(Queue(m), Hand(m), to_host, m)
    BY <2>2, <2>3
  <2> QED BY <2>2, <2>5, <2>6 DEF C, Ordered
<1>7. /\ C(l)' \subseteq C(l) /\ Ordered(Queue(l), Hand(l), to_host, l)'
      /\ \A e \in C(l) \ C(l)' : e.cmd = "CLSE"
      /\ \A j \in DOMAIN store' : j \in DOMAIN store \/ (j = k /\ dev[l].st # "none")
  <2>1. Ordered(Queue(l), {p}, to_host, l) /\ C(l) = Contents(Queue(l), {p}, to_host, l)
    BY <1>4 DEF DInv, PipesOK, C
  <2>2. Queue(l) \in Seq(Stored)
    BY <1>1, QueueIsTyped
  <2>0. Hand(l)' = {}
    BY <1>5
  <2>3. CASE p.cmd = "CLSE" /\ k \notin DOMAIN store
    <3>1. store' = store
      BY <2>3
    <3>2. Queue(l)' = Queue(l)
      BY <3>1 DEF Queue
    <3>3. /\ Ordered(Queue(l), {}, to_host, l)
          /\ Contents(Queue(l), {p}, to_host, l) = {Body(p)} \cup Contents(Queue(l), {}, to_host, l)
      <4> DEFINE q == Queue(l)
      <4>1. Ordered(q, {p}, to_host, l)
        BY <2>1
      <4> HIDE DEF q
      <4>2. /\ Ordered(q, {}, to_host, l)
            /\ Contents(q, {p}, to_host, l) = {Body(p)} \cup Contents(q, {}, to_host, l)
        BY <4>1 DEF Ordered, Contents
      <4> QED BY <4>2 DEF q
    <3>4. Ordered(Queue(l)', Hand(l)', to_host', l)
      BY <2>0, <3>2, <3>3
    <3>5. C(l) = {Body(p)} \cup Contents(Queue(l)', Hand(l)', to_host', l)
      BY <2>0, <2>1, <3>2, <3>3
    <3>6. C(l) = {Body(p)} \cup C(l)'
      BY <3>5 DEF C
    <3>7. Body(p).cmd = "CLSE"
      BY <2>3 DEF Body
    <3> QED BY <3>1, <3>4, <3>6, <3>7 DEF Ordered
  <2>4. CASE ~(p.cmd = "CLSE" /\ k \notin DOMAIN store)
    <3>1. dev[l].st # "none" /\ k = <<dev[l].rid, l>>
      BY <1>3, <1>4, <2>4
    <3>2. /\ DOMAIN store' = DOMAIN store \cup {k}
          /\ QueueOf(store', k) = Append(QueueOf(store, k), Body(p))
      BY <2>4
    <3>3. Queue(l)' = Append(Queue(l), Body(p))
      BY <3>1, <3>2 DEF Queue
    <3>4. /\ Contents(Append(Queue(l), Body(p)), {}, to_host, l) = Contents(Queue(l), {p}, to_host, l)
          /\ Ordered(Append(Queue(l), Body(p)), {}, to_host, l)
      BY <1>4, <2>1, <2>2, HandToStore
    <3>5. Ordered(Queue(l)', Hand(l)', to_host', l)
      BY <2>0, <3>3, <3>4
    <3>6. Contents(Queue(l)', Hand(l)', to_host', l) = C(l)
      BY <2>0, <2>1, <3>3, <3>4
    <3> QED BY <3>1, <3>2, <3>5, <3>6 DEF C, Ordered
  <2> QED BY <2>3, <2>4
<1>8. OriginOK'
  <2>1. \A m, i : Current(m, i) => Current(m, i)'
    BY DEF Current
  <2>2. \A m : Origin(m) => Origin(m)'
    BY <2>1 DEF Origin
  <2>3. \A u \in Threads : th'[u].pc # "dispatch" \/ th'[u] = th[u]
    BY <1>1, <1>2, Types
  <2>4. \A u \in Threads : th'[u].pc = "dispatch" => Origin(th'[u].pkt)
    BY <2>3 DEF DInv, OriginOK
  <2>5. \A u \in Threads : th'[u].pc = "dispatch" => Origin(th[u].pkt)'
    BY <2>2, <2>4
  <2>6. \A j \in DOMAIN store' : Current(j[2], j[1])
    <3>1. ASSUME dev[l].st # "none" PROVE Current(k[2], k[1])
      BY <1>3, <1>4, <3>1 DEF Current
    <3> QED BY <1>7, <3>1 DEF DInv, OriginOK
  <2>7. \A j \in DOMAIN store' : Current(j[2], j[1])'
    BY <2>1, <2>6
  <2>8. \A i \in DOMAIN to_host' : Origin(to_host[i])'
    BY <2>2 DEF DInv, OriginOK
  <2> QED BY <2>5, <2>7, <2>8 DEF OriginOK
<1>9. \A m \in Lids : C(m)' \subseteq C(m) /\ Ordered(Queue(m), Hand(m), to_host, m)'
  BY <1>6, <1>7
<1>10. \A i \in DOMAIN to_dev : Sender(y, to_dev[i])
  <2>1. y.lid \in {0, th[t].lid} /\ y.pc \notin {"open", "request"}
        /\ (y.lid = 0 \/ (y.ctx = th[t].ctx /\ y.op = th[t].op))
    BY <1>2 DEF x
  <2> QED BY <2>1, SenderStep
<1>11. Commanded(y, dev[y.lid], Last(received[y.lid]), lossy)
  <2>1. Commanded(x, dev[x.lid], Last(received[x.lid]), lossy)
    BY ReaderFacts DEF x
  <2> QED BY <1>1, <1>2, <2>1 DEF Commanded
<1>12. ASSUME NEW u \in Threads, NEW v, v = th[u] \/ (u = t /\ v = y), u = t => v = y,
              NEW m, m = v.lid, Live(v, dev[m])
       PROVE  Served(v, dev[m], Last(received[m]), C(m)', Queue(m)', lossy)
  <2> DEFINE w == th[u]
             r == Last(received[m])
  <2>1. /\ v.ctx = w.ctx /\ v.op = w.op /\ v.lid = w.lid /\ v.failing = w.failing
        /\ Pos(v, r) = Pos(w, r) /\ (v.pc = "request" => w.pc = "request")
        /\ v.pc \notin {"wire", "dispatch"}
    <3>1. CASE u = t
      BY <1>1, <1>2, <1>12, <3>1 DEF x, Pos
    <3>2. CASE u # t
      <4>1. th[u].pc \notin {"wire", "dispatch"}
        BY <1>1, <3>2 DEF IInv, LockHeldByReader, x
      <4> QED BY <1>12, <3>2, <4>1
    <3> QED BY <3>1, <3>2
  <2>2. Live(w, dev[m]) /\ m = w.lid
    BY <1>12, <2>1 DEF Live
  <2>3. Served(w, dev[m], Last(received[m]), C(m), Queue(m), lossy)
    BY <2>2, ReaderFacts
  <2>4. m \in Lids
    BY <2>2, LiveHasLid
  <2>5. C(m)' \subseteq C(m) /\ \A e \in C(m) \ C(m)' : e.cmd = "CLSE"
    BY <1>6, <1>7, <2>4
  <2> HIDE DEF w
  <2>6. Served(w, dev[m], r, C(m), Queue(m), lossy)
    BY <2>3
  <2> HIDE DEF r
  <2>7. Served(v, dev[m], r, C(m)', Queue(m)', lossy)
    BY <2>1, <2>5, <2>6, StillServed
  <2> QED BY <2>7 DEF r
<1>13. \A m : m = y.lid /\ Live(y, dev[m]) =>
                Served(y, dev[m], Last(received[m]), C(m)', Queue(m)', lossy)
  BY <1>12
<1>14. \A u \in Threads \ {t} : \A m : m = th[u].lid /\ Live(th[u], dev[m]) =>
                Served(th[u], dev[m], Last(received[m]), C(m)', Queue(m)', lossy)
  BY <1>12
<1> QED BY <1>2, <1>8, <1>9, <1>10, <1>11, <1>13, <1>14, ReaderStep DEF x

(* What becomes of the thread x that is at a packet of its stream.         *)
Outcome(x, p, y) ==
  \/ p.cmd \in Expected(x.ctx) /\ y = Returned(x, p)
  \/ /\ p.cmd \notin Expected(x.ctx)
     /\ y.pc = "time" /\ y.lid = x.lid /\ y.ctx = x.ctx /\ y.op = x.op /\ y.rid = x.rid
     /\ y.failing = x.failing

LEMMA OutcomeIsFine ==
  ASSUME NEW L, NEW x, NEW d, NEW r, NEW e, NEW T, NEW q, Taking(x, d, r, e, T, q, L),
         NEW p \in Packet, p.cmd = e.cmd, p.data = e.data, d.st # "none" => p.arg0 = d.rid,
         NEW y, Outcome(x, p, y)
  PROVE  /\ Commanded(y, d, r, L) /\ \A z : Live(y, d) => Served(y, d, r, T, z, L)
         /\ y.pc \notin {"open", "wire", "dispatch"}
         /\ Live(y, d) => x.ctx # "clse"
         /\ \/ y = IdleThread
            \/ y.pc = "time" /\ y.lid = x.lid /\ y.ctx = x.ctx /\ y.op = x.op
            \/ y.lid = x.lid /\ y.ctx # "open" /\ d.st # "none" /\ (y.pc = "request" => x.ctx = "open")
<1>1. CASE p.cmd \in Expected(x.ctx)
  <2> DEFINE v == Returned(x, p)
  <2>1. y = v
    BY <1>1 DEF Outcome
  <2>2. e.cmd \in Expected(x.ctx)
    BY <1>1
  <2>3. ASSUME NEW z
        PROVE  /\ Commanded(v, d, r, L) /\ (Live(v, d) => Served(v, d, r, T, z, L))
               /\ v.pc \notin {"open", "wire", "dispatch"}
               /\ v = IdleThread \/ (/\ v.lid = x.lid /\ v.ctx # "open" /\ d.st # "none"
                                     /\ v.pc = "request" => x.ctx = "open")
    BY <2>2, ReturnedIsFine
  <2>4. x.ctx = "clse" => ~Live(v, d)
    BY IdleIsFine DEF Returned
  <2> HIDE DEF v
  <2> QED BY <2>1, <2>3, <2>4
<1>2. CASE p.cmd \notin Expected(x.ctx)
  <2>1. /\ y.pc = "time" /\ y.lid = x.lid /\ y.ctx = x.ctx /\ y.op = x.op /\ y.rid = x.rid
        /\ y.failing = x.failing
    BY <1>2 DEF Outcome
  <2>2. e.cmd \notin Expected(x.ctx) /\ y.pc \in Reading \ {"wire", "dispatch"}
    BY <1>2, <2>1 DEF Reading
  <2>3. ASSUME NEW z PROVE Commanded(y, d, r, L) /\ (Live(y, d) => Served(y, d, r, T, z, L))
    BY <2>1, <2>2, DroppedIsFine
  <2>4. x.ctx = "clse" => ~Live(y, d)
    BY <2>1 DEF Live
  <2> QED BY <2>1, <2>3, <2>4
<1> QED BY <1>1, <1>2

(* What t does with a packet p of its own stream l.  It becomes y; x is t  *)
(* without the packet.                                                     *)
Keeps(t, p, k, l, x, y) ==
  /\ th[t].pc = "dispatch" /\ p = th[t].pkt /\ k = <<p.arg0, p.arg1>>
  /\ l = th[t].lid /\ p.arg1 = l
  /\ p.cmd # "CLSE" => store' = store
  /\ p.cmd = "CLSE" => DOMAIN store' = DOMAIN store \ {k} /\ QueueOf(store', k) = <<>>
  /\ \A j : j # k => QueueOf(store', j) = QueueOf(store, j)
  /\ x \in Thread /\ x.pc = "dispatch" /\ x.lid = l /\ x.ctx = th[t].ctx
  /\ x.op = th[t].op /\ x.rid = th[t].rid /\ x.failing = th[t].failing
  /\ th' = [th EXCEPT ![t] = y] /\ Outcome(x, p, y)
  /\ UNCHANGED <<dev, to_host, to_dev, received, local_id, lossy>>

(* The packet is for the thread itself, which takes it or drops it.        *)
LEMMA DMatched ==
  ASSUME DInv, IInv', NEW t \in Threads, NEW p, NEW k, NEW l, NEW x, NEW y,
         Keeps(t, p, k, l, x, y)
  PROVE  DInv'
<1> USE DEF Keeps
<1> DEFINE d == dev[l]
           r == Last(received[l])
           q == Queue(l)
           e == Body(p)
           T == Contents(q, {}, to_host, l)
<1>1. IInv /\ th[t] \in Thread /\ ThreadOK(th[t])
  BY Types DEF DInv
<1>2. /\ p \in Packet /\ l \in Lids /\ d.st \in {"none", "open", "closed"}
      /\ d.st = "none" => p.cmd = "CLSE" /\ p.arg0 = 0 /\ k \notin DOMAIN store
      /\ d.st # "none" => p.arg0 = d.rid
      /\ Hand(l) = {p} /\ \A m : m # l => Hand(m) = {}
  BY InHandFacts
<1>3. e \in Stored /\ e.cmd = p.cmd /\ e.data = p.data
  BY <1>2, BodyIsStored
<1>4. /\ Ordered(q, {}, to_host, l) /\ C(l) = {e} \cup T
      /\ q = <<>> => \A f \in T : Before(e, f)
  <2>1. Ordered(q, {p}, to_host, l) /\ C(l) = Contents(q, {p}, to_host, l)
    BY <1>2 DEF DInv, PipesOK, C
  <2> HIDE DEF q
  <2> QED BY <2>1 DEF Ordered, Contents
<1>5. Live(th[t], d) => q = <<>>
  BY ReaderFacts DEF Served
<1>6. Taking(th[t], d, r, e, T, q, lossy)
  <2>1. e.cmd # "CLSE" => d.st # "none"
    BY <1>2, <1>3
  <2>2. Live(th[t], d) => \A f \in T : Before(e, f)
    BY <1>4, <1>5
  <2> HIDE DEF e, T
  <2> QED BY <1>2, <1>4, <2>1, <2>2, TakingStep DEF Reading
<1>7. Taking(x, d, r, e, T, q, lossy)
  <2>1. InRead(x)
    BY <1>6 DEF Taking, InRead
  <2>2. Commanded(x, d, r, lossy)
    BY <1>6 DEF Taking, Commanded
  <2>3. Live(x, d) <=> Live(th[t], d)
    BY DEF Live
  <2>4. Pos(x, r) = Pos(th[t], r)
    BY DEF Pos
  <2> HIDE DEF e, T, q, d, r
  <2>5. Live(x, d) => Served(x, d, r, {e} \cup T, q, lossy) /\ \A f \in T : Before(e, f)
    BY <1>6, <2>3, <2>4 DEF Taking, Served
  <2> QED BY <1>6, <2>1, <2>2, <2>5 DEF Taking
<1>8. /\ Commanded(y, d, r, lossy) /\ \A z : Live(y, d) => Served(y, d, r, T, z, lossy)
      /\ y.pc \notin {"open", "wire", "dispatch"}
      /\ Live(y, d) => x.ctx # "clse"
      /\ \/ y = IdleThread
         \/ y.pc = "time" /\ y.lid = l /\ y.ctx = x.ctx /\ y.op = x.op
         \/ y.lid = l /\ y.ctx # "open" /\ d.st # "none" /\ (y.pc = "request" => x.ctx = "open")
  <2>1. d.st # "none" => p.arg0 = d.rid
    BY <1>2
  <2> HIDE DEF d, e, T, q, r
  <2>3. /\ Commanded(y, d, r, lossy) /\ \A z : Live(y, d) => Served(y, d, r, T, z, lossy)
        /\ y.pc \notin {"open", "wire", "dispatch"}
        /\ Live(y, d) => x.ctx # "clse"
        /\ \/ y = IdleThread
           \/ y.pc = "time" /\ y.lid = x.lid /\ y.ctx = x.ctx /\ y.op = x.op
           \/ y.lid = x.lid /\ y.ctx # "open" /\ d.st # "none" /\ (y.pc = "request" => x.ctx = "open")
    BY <1>2, <1>3, <1>7, <2>1, OutcomeIsFine
  <2> QED BY <2>3
<1>9. y.lid \in {0, l} /\ (y.lid = 0 => y = IdleThread)
  <2>1. IdleThread.lid = 0
    BY IdleIsFine
  <2>2. l # 0
    BY <1>2 DEF Lids
  <2>3. y = IdleThread \/ y.lid = l
    BY <1>8
  <2> QED BY <2>1, <2>2, <2>3
<1>10. ASSUME NEW m PROVE Hand(m)' = {}
  BY <1>1, <1>8, HandAfter
<1>11. ASSUME NEW m \in Lids, m # l
       PROVE  Queue(m)' = Queue(m) /\ C(m)' = C(m) /\ Ordered(Queue(m), Hand(m), to_host, m)'
  <2>1. k # <<dev[m].rid, m>>
    BY <1>11
  <2>2. Queue(m)' = Queue(m)
    BY <2>1 DEF Queue
  <2>3. Hand(m)' = Hand(m)
    BY <1>2, <1>10, <1>11
  <2>4. Ordered(Queue(m), Hand(m), to_host, m)
    BY DEF DInv, PipesOK
  <2>5. Ordered(Queue(m)', Hand(m)', to_host', m)
    BY <2>2, <2>3, <2>4
  <2>6. Contents(Queue(m)', Hand(m)', to_host', m) = Contents(Queue(m), Hand(m), to_host, m)
    BY <2>2, <2>3
  <2> QED BY <2>2, <2>5, <2>6 DEF C, Ordered
<1>12. /\ C(l)' \subseteq T /\ Ordered(Queue(l), Hand(l), to_host, l)'
       /\ q = <<>> => C(l)' = T
  <2>1. Queue(l)' \in {q, <<>>}
    <3>1. CASE <<d.rid, l>> = k
      BY <3>1 DEF Queue
    <3>2. CASE <<d.rid, l>> # k
      BY <3>2 DEF Queue
    <3> QED BY <3>1, <3>2
  <2>0. Hand(l)' = {}
    BY <1>10
  <2> HIDE DEF q
  <2>2. Ordered(<<>>, {}, to_host, l) /\ Contents(<<>>, {}, to_host, l) \subseteq T
    BY <1>4 DEF Ordered, Contents
  <2>3. Ordered(Queue(l)', Hand(l)', to_host', l)
    BY <1>4, <2>0, <2>1, <2>2
  <2>4. Contents(Queue(l)', Hand(l)', to_host', l) \subseteq T
    BY <2>0, <2>1, <2>2
  <2>5. q = <<>> => Contents(Queue(l)', Hand(l)', to_host', l) = T
    BY <2>0, <2>1
  <2> QED BY <2>3, <2>4, <2>5 DEF C, Ordered
<1> HIDE DEF T, e, q
<1>13. \A m \in Lids : C(m)' \subseteq C(m) /\ Ordered(Queue(m), Hand(m), to_host, m)'
  <2> SUFFICES ASSUME NEW m \in Lids
               PROVE  C(m)' \subseteq C(m) /\ Ordered(Queue(m), Hand(m), to_host, m)'
    OBVIOUS
  <2>1. CASE m = l
    BY <1>4, <1>12, <2>1
  <2>2. CASE m # l
    BY <1>11, <2>2
  <2> QED BY <2>1, <2>2
<1>14. OriginOK'
  <2>1. \A m, i : Current(m, i) => Current(m, i)'
    BY DEF Current
  <2>2. \A m : Origin(m) => Origin(m)'
    BY <2>1 DEF Origin
  <2>3. \A u \in Threads : th'[u].pc # "dispatch" \/ th'[u] = th[u]
    BY <1>1, <1>8, Types
  <2>4. \A u \in Threads : th'[u].pc = "dispatch" => Origin(th'[u].pkt)
    BY <2>3 DEF DInv, OriginOK
  <2>5. \A u \in Threads : th'[u].pc = "dispatch" => Origin(th[u].pkt)'
    BY <2>2, <2>4
  <2>6. DOMAIN store' \subseteq DOMAIN store
    OBVIOUS
  <2>7. \A j \in DOMAIN store' : Current(j[2], j[1])'
    BY <2>1, <2>6 DEF DInv, OriginOK
  <2>8. \A i \in DOMAIN to_host' : Origin(to_host[i])'
    BY <2>2 DEF DInv, OriginOK
  <2> QED BY <2>5, <2>7, <2>8 DEF OriginOK
<1>15. \A i \in DOMAIN to_dev : Sender(y, to_dev[i])
  <2> SUFFICES ASSUME NEW i \in DOMAIN to_dev PROVE Sender(y, to_dev[i])
    OBVIOUS
  <2>1. Sender(th[t], to_dev[i]) /\ Request(to_dev[i])
    BY DEF DInv, RequestsOK
  <2>2. CASE y.lid = 0
    <3>1. to_dev[i].arg0 # 0
      <4>1. to_dev[i] \in HostPacket
        BY <1>1, Types
      <4> QED BY <4>1 DEF HostPacket, Lids
    <3> QED BY <2>2, <3>1 DEF Sender
  <2>3. CASE y.pc = "time" /\ y.lid = l /\ y.ctx = x.ctx /\ y.op = x.op
    BY <2>1, <2>3 DEF Sender
  <2>4. CASE y.lid = l /\ y.ctx # "open" /\ d.st # "none" /\ (y.pc = "request" => x.ctx = "open")
    <3>1. to_dev[i].arg0 = l => to_dev[i].cmd # "OPEN"
      BY <2>1, <2>4 DEF Request, Untouched
    <3> QED BY <1>8, <2>1, <2>4, <3>1 DEF Sender
  <2> QED BY <1>8, <1>9, <2>2, <2>3, <2>4, IdleIsFine
<1>16. Commanded(y, dev[y.lid], Last(received[y.lid]), lossy)
  BY <1>8, <1>9, IdleIsFine
<1>17. \A m : m = y.lid /\ Live(y, dev[m]) =>
                Served(y, dev[m], Last(received[m]), C(m)', Queue(m)', lossy)
  <2>1. CASE y = IdleThread
    BY <2>1, IdleIsFine
  <2>2. CASE y # IdleThread
    <3>1. y.lid = l
      BY <1>9, <2>2
    <3>2. Live(y, d) => C(l)' = T
      BY <1>5, <1>6, <1>8, <1>12, TakingFacts
    <3> QED BY <1>8, <3>1, <3>2
  <2> QED BY <2>1, <2>2
<1>18. \A u \in Threads \ {t} : \A m : m = th[u].lid /\ Live(th[u], dev[m]) =>
                Served(th[u], dev[m], Last(received[m]), C(m)', Queue(m)', lossy)
  <2> SUFFICES ASSUME NEW u \in Threads \ {t}, NEW m, m = th[u].lid, Live(th[u], dev[m])
               PROVE  Served(th[u], dev[m], Last(received[m]), C(m)', Queue(m)', lossy)
    OBVIOUS
  <2>1. Served(th[u], dev[m], Last(received[m]), C(m), Queue(m), lossy)
    BY ReaderFacts
  <2>2. m \in Lids
    BY LiveHasLid
  <2>3. m # l
    BY <2>2 DEF DInv, LidsOK, Lids
  <2> QED BY <1>11, <2>1, <2>2, <2>3
<1> QED BY <1>8, <1>9, <1>13, <1>14, <1>15, <1>16, <1>17, <1>18, ReaderStep DEF Reading

LEMMA DDispatch ==
  ASSUME DInv, IInv', NEW t \in Threads, Dispatch(t)
  PROVE  DInv'
<1>1. PICK p : p = th[t].pkt
  OBVIOUS
<1>2. PICK k : k = <<p.arg0, p.arg1>>
  OBVIOUS
<1>3. PICK x : x = [th[t] EXCEPT !.pkt = None]
  OBVIOUS
<1>4. PICK v : v = [x EXCEPT !.pc = "time"]
  OBVIOUS
<1>5. PICK l : l = th[t].lid
  OBVIOUS
<1>6. th[t].pc = "dispatch" /\ UNCHANGED <<dev, to_host, to_dev, received, local_id, lossy>>
  BY DEF Dispatch, devVars
<1>7. /\ x \in Thread /\ x.pc = "dispatch" /\ x.lid = th[t].lid /\ x.ctx = th[t].ctx
      /\ x.op = th[t].op /\ x.rid = th[t].rid /\ x.failing = th[t].failing
      /\ v.pc = "time" /\ v.lid = x.lid /\ v.ctx = x.ctx
      /\ v.op = x.op /\ v.rid = x.rid /\ v.failing = x.failing
  <2>1. th[t] \in Thread
    BY ReaderFacts
  <2> QED BY <1>3, <1>4, <1>6, <2>1 DEF Thread
<1>8. p.arg1 \in Lids /\ p \in Packet
  BY <1>1, <1>6, InHandFacts
<1>9. CASE ~args_match(x, p)
  <2>1. store' = Put(store, k, p.cmd, p.data) /\ th' = [th EXCEPT ![t] = v]
    BY <1>1, <1>2, <1>3, <1>4, <1>9 DEF Dispatch
  <2>2. /\ p.cmd = "CLSE" /\ k \notin DOMAIN store => store' = store
        /\ ~(p.cmd = "CLSE" /\ k \notin DOMAIN store) =>
             /\ DOMAIN store' = DOMAIN store \cup {k}
             /\ QueueOf(store', k) = Append(QueueOf(store, k), Body(p))
        /\ \A j : j # k => QueueOf(store', j) = QueueOf(store, j)
    <3> DEFINE s == store
               c == p.cmd
               d == p.data
               r == Put(s, k, c, d)
    <3>1. store' = r /\ store = s
      BY <2>1
    <3> HIDE DEF s, c, d
    <3>2. c = "CLSE" /\ k \notin DOMAIN s => r = s
      BY PutDrops
    <3>3. ~(c = "CLSE" /\ k \notin DOMAIN s) => DOMAIN r = DOMAIN s \cup {k}
      BY PutDomain
    <3>4. \A j : j # k => QueueOf(r, j) = QueueOf(s, j)
      BY PutOthers
    <3>5. ~(c = "CLSE" /\ k \notin DOMAIN s) =>
            QueueOf(r, k) = Append(QueueOf(s, k), [cmd |-> c, data |-> d])
      BY PutAppends
    <3> HIDE DEF r
    <3>6. Body(p) = [cmd |-> c, data |-> d] /\ p.cmd = c
      BY DEF Body, c, d
    <3> QED BY <3>1, <3>2, <3>3, <3>4, <3>5, <3>6
  <2>3. PutsAway(t, p, k, v)
    <3> HIDE DEF Dispatch
    <3> QED BY <1>1, <1>2, <1>6, <1>7, <2>1, <2>2 DEF PutsAway
  <2> QED BY <2>3, DPut
<1>10. CASE args_match(x, p)
  <2>1. p.arg1 = l
    BY <1>5, <1>7, <1>8, <1>10 DEF args_match, Lids
  <2>2. /\ store' = IF p.cmd = "CLSE" THEN Clear(store, k) ELSE store
        /\ th' = [th EXCEPT ![t] = IF p.cmd \in Expected(x.ctx) THEN Returned(x, p) ELSE v]
    BY <1>1, <1>2, <1>3, <1>4, <1>10 DEF Dispatch
  <2>3. PICK y : y = IF p.cmd \in Expected(x.ctx) THEN Returned(x, p) ELSE v
    OBVIOUS
  <2>4. th' = [th EXCEPT ![t] = y] /\ Outcome(x, p, y)
    BY <1>7, <2>2, <2>3 DEF Outcome
  <2>5. /\ p.cmd # "CLSE" => store' = store
        /\ p.cmd = "CLSE" => DOMAIN store' = DOMAIN store \ {k} /\ QueueOf(store', k) = <<>>
        /\ \A j : j # k => QueueOf(store', j) = QueueOf(store, j)
    <3> DEFINE c == Clear(store, k)
    <3>1. /\ DOMAIN c = DOMAIN store \ {k} /\ QueueOf(c, k) = <<>>
          /\ \A j : j # k => QueueOf(c, j) = QueueOf(store, j)
      BY ClearQueues
    <3>2. store' = IF p.cmd = "CLSE" THEN c ELSE store
      BY <2>2
    <3> HIDE DEF c
    <3> QED BY <3>1, <3>2
  <2>6. x.lid = l
    BY <1>5, <1>7
  <2>7. Keeps(t, p, k, l, x, y)
    BY <1>1, <1>2, <1>5, <1>6, <1>7, <2>1, <2>4, <2>5, <2>6 DEF Keeps
  <2> QED BY <2>7, DMatched
<1> QED BY <1>9, <1>10

-----------------------------------------------------------------------------
(* Opening and sending.                                                    *)

LEMMA DStart ==
  ASSUME DInv, IInv', NEW t \in Threads, NEW o \in Ops, Start(t, o)
  PROVE  DInv'
<1> DEFINE y == [IdleThread EXCEPT !.pc = "open", !.op = o, !.lid = local_id']
<1>1. /\ IInv /\ th[t].pc = "idle"
      /\ th' = [th EXCEPT ![t] = y]
      /\ UNCHANGED <<store, to_host, dev, to_dev, received, lossy>>
  BY DEF DInv, Start, ioVars, devVars
<1>2. local_id \in Nat /\ local_id' = local_id + 1 /\ local_id' \in Lids
  BY Types, StreamsAssumption DEF DInv, Start, Lids
<1>3. /\ y.pc = "open" /\ y.op = o /\ y.lid = local_id' /\ y.ctx = None /\ y.rid = None
      /\ y.failing = FALSE
  BY DEF IdleThread
<1> HIDE DEF y
<1>4. th'[t] = y /\ \A u \in Threads \ {t} : th'[u] = th[u]
  BY <1>1, Types
<1>5. LidsOK'
  <2>1. \A u \in Threads : th[u].lid \in Nat
    BY ReaderFacts DEF Lids
  <2>2. \A u \in Threads : th[u].lid <= local_id
    BY DEF DInv, LidsOK
  <2>3. \A u \in Threads \ {t} : th'[u].lid <= local_id' /\ th'[u].lid # local_id'
    BY <1>2, <1>4, <2>1, <2>2
  <2>4. th'[t].lid = local_id' /\ local_id' <= local_id'
    BY <1>2, <1>3, <1>4
  <2>5. \A u, v \in Threads : th'[u].lid = th'[v].lid /\ th'[u].lid # 0 => u = v
    <3> SUFFICES ASSUME NEW u \in Threads, NEW v \in Threads,
                        th'[u].lid = th'[v].lid, th'[u].lid # 0
                 PROVE  u = v
      OBVIOUS
    <3>1. CASE u = t \/ v = t
      BY <2>3, <2>4, <3>1
    <3>2. CASE u # t /\ v # t
      BY <1>4, <3>2 DEF DInv, LidsOK
    <3> QED BY <3>1, <3>2
  <2> QED BY <2>3, <2>4, <2>5 DEF LidsOK
<1>6. Untouched(y.lid)
  BY <1>2, <1>3 DEF DInv, FreshOK
<1>7. \A i \in DOMAIN to_dev : Sender(y, to_dev[i])
  <2> SUFFICES ASSUME NEW i \in DOMAIN to_dev PROVE to_dev[i].arg0 # y.lid
    BY DEF Sender
  <2>1. to_dev[i] \in HostPacket
    BY <1>1, Types
  <2>2. to_dev[i].arg0 \in Nat
    BY <2>1 DEF HostPacket, Lids
  <2>3. to_dev[i].arg0 <= local_id
    BY DEF DInv, RequestsOK, Request
  <2> QED BY <1>2, <1>3, <2>2, <2>3
<1>8. None \notin Calls
  BY StreamsAssumption
<1>9. Commanded(y, dev[y.lid], Last(received'[y.lid]), lossy) /\ ~Live(y, dev[y.lid])
  BY <1>3, <1>8 DEF Commanded, Live, Calls
<1>10. local_id <= local_id'
  BY <1>2
<1>11. /\ \A i, j \in DOMAIN to_dev' : Clash(to_dev'[i], to_dev'[j]) => i = j
       /\ \A i \in DOMAIN to_dev' : Request(to_dev'[i]) /\ Sender(y, to_dev'[i])
       /\ \A i \in DOMAIN to_dev', u \in Threads \ {t} : Sender(th[u], to_dev'[i])
  BY <1>1, <1>7 DEF DInv, RequestsOK
<1>12. \A l \in Lids : Ends(l, dev[l], received'[l], lossy)
  BY <1>1 DEF DInv, PipesOK
<1> QED BY <1>1, <1>3, <1>5, <1>6, <1>9, <1>10, <1>11, <1>12, HostStep

(* What a thread that is about to send says, and what is not on its way to *)
(* the device yet.                                                         *)
LEMMA MessageFits ==
  ASSUME DInv, NEW t \in Threads, th[t].pc \in Sending, NEW m, m = Message(th[t]),
         NEW l, l = th[t].lid
  PROVE  /\ m \in HostPacket /\ m.arg0 = l /\ l \in Lids
         /\ m.cmd = "OPEN" => th[t].pc = "open" /\ m.data = th[t].op
         /\ m.cmd = "WRTE" => th[t].pc = "request"
         /\ th[t].pc # "open" => th[t].ctx # "open"
         /\ Request(m)
         /\ \A i \in DOMAIN to_dev : to_dev[i].arg0 = l =>
              /\ th[t].pc # "open" /\ to_dev[i].cmd # "OPEN"
              /\ m.cmd = "WRTE" => to_dev[i].cmd # "WRTE"
<1> DEFINE x == th[t]
           d == dev[l]
           r == Last(received[l])
<1>1. x \in Thread /\ ThreadOK(x) /\ l \in Lids
  BY ReaderFacts DEF ThreadOK
<1>2. Commanded(x, d, r, lossy) /\ (Live(x, d) => Served(x, d, r, C(l), Queue(l), lossy))
  BY ReaderFacts
<1>3. m \in HostPacket
  BY <1>1, MessageIsPacket
<1>4. /\ m.arg0 = l
      /\ m.cmd = "OPEN" => x.pc = "open" /\ m.data = x.op
      /\ m.cmd = "WRTE" => x.pc = "request"
  BY DEF Message, Msg, Sending
<1>5. x.pc # "open" => x.ctx # "open"
  BY <1>1 DEF ThreadOK
<1>6. \A i \in DOMAIN to_dev : Sender(x, to_dev[i])
  BY DEF DInv, RequestsOK
<1>7. Request(m)
  <2>1. l <= local_id
    BY DEF DInv, LidsOK
  <2>2. x.pc = "open" => Untouched(l)
    BY DEF DInv, FreshOK
  <2>3. ASSUME x.pc = "request", d.st # "gone"
        PROVE  d.st # "none" /\ d.op # Shell /\ ~d.asked
    <3>1. x.ctx = "flush" /\ ~x.failing
      BY <1>2, <2>3 DEF Commanded
    <3>2. d.st # "none" /\ d.op \in {Stat, Pull}
      BY <1>2, <2>3, <3>1 DEF Commanded
    <3>3. ~d.asked
      BY <1>2, <2>3, <3>1 DEF Live, Served
    <3> QED BY <3>2, <3>3 DEF Shell, Stat, Pull
  <2> QED BY <1>4, <2>1, <2>2, <2>3 DEF Request
<1>8. ASSUME NEW i \in DOMAIN to_dev, to_dev[i].arg0 = l
      PROVE  /\ x.pc # "open" /\ to_dev[i].cmd # "OPEN"
             /\ m.cmd = "WRTE" => to_dev[i].cmd # "WRTE"
  BY <1>4, <1>5, <1>6, <1>8 DEF Sender
<1> QED BY <1>1, <1>3, <1>4, <1>5, <1>7, <1>8

LEMMA MessageSent ==
  ASSUME DInv, NEW t \in Threads, th[t].pc \in Sending,
         to_dev' = Append(to_dev, Message(th[t])),
         NEW y, y.lid \in {0, th[t].lid},
         y.lid # 0 => /\ y.pc \notin {"open", "request"}
                      /\ IF th[t].pc = "open" THEN y.ctx = "open" /\ y.op = th[t].op
                                              ELSE y.ctx # "open"
  PROVE  /\ \A i, j \in DOMAIN to_dev' : Clash(to_dev'[i], to_dev'[j]) => i = j
         /\ \A i \in DOMAIN to_dev' : Request(to_dev'[i]) /\ Sender(y, to_dev'[i])
         /\ \A i \in DOMAIN to_dev', u \in Threads \ {t} : Sender(th[u], to_dev'[i])
<1>1. PICK m, l : m = Message(th[t]) /\ l = th[t].lid
  OBVIOUS
<1>2. /\ m \in HostPacket /\ m.arg0 = l /\ l \in Lids
      /\ m.cmd = "OPEN" => th[t].pc = "open" /\ m.data = th[t].op
      /\ m.cmd = "WRTE" => th[t].pc = "request"
      /\ th[t].pc # "open" => th[t].ctx # "open"
      /\ Request(m)
      /\ \A i \in DOMAIN to_dev : to_dev[i].arg0 = l =>
           /\ th[t].pc # "open" /\ to_dev[i].cmd # "OPEN"
           /\ m.cmd = "WRTE" => to_dev[i].cmd # "WRTE"
  BY <1>1, MessageFits
<1>3. /\ \A i \in DOMAIN to_dev' : \/ (i \in DOMAIN to_dev /\ to_dev'[i] = to_dev[i])
                                   \/ (i = Len(to_dev) + 1 /\ to_dev'[i] = m)
      /\ \A i \in DOMAIN to_dev : i # Len(to_dev) + 1
  <2>1. to_dev \in Seq(HostPacket) /\ to_dev' = Append(to_dev, m)
    BY <1>1, Types DEF DInv
  <2> QED BY <1>2, <2>1
<1>4. \A i \in DOMAIN to_dev : to_dev[i].arg0 \in Lids
  <2>1. \A i \in DOMAIN to_dev : to_dev[i] \in HostPacket
    BY Types DEF DInv
  <2> QED BY <2>1 DEF HostPacket
<1>5. 0 \notin Lids
  BY DEF Lids
<1>6. \A i \in DOMAIN to_dev : ~Clash(to_dev[i], m) /\ ~Clash(m, to_dev[i])
  BY <1>2 DEF Clash
<1>7. \A i, j \in DOMAIN to_dev' : Clash(to_dev'[i], to_dev'[j]) => i = j
  BY <1>3, <1>6 DEF DInv, RequestsOK
<1>8. Sender(y, m)
  BY <1>1, <1>2, <1>5 DEF Sender
<1>9. \A i \in DOMAIN to_dev : Request(to_dev[i]) /\ Sender(y, to_dev[i])
  BY <1>1, <1>2, <1>4, <1>5 DEF DInv, RequestsOK, Sender
<1>10. \A u \in Threads \ {t} : Sender(th[u], m)
  BY <1>1, <1>2, <1>5 DEF DInv, LidsOK, Sender
<1>11. \A i \in DOMAIN to_dev' : Request(to_dev'[i]) /\ Sender(y, to_dev'[i])
  BY <1>2, <1>3, <1>8, <1>9
<1>12. \A i \in DOMAIN to_dev', u \in Threads \ {t} : Sender(th[u], to_dev'[i])
  BY <1>3, <1>10 DEF DInv, RequestsOK
<1> QED BY <1>7, <1>11, <1>12

LEMMA SentIsFine ==
  ASSUME NEW L, NEW x \in Thread, ThreadOK(x), x.pc \in Sending,
         NEW d \in DevStream, NEW r \in Nat, NEW c, NEW q, Commanded(x, d, r, L),
         Live(x, d) => Served(x, d, r, c, q, L),
         x.pc = "open" => d.st = "none" /\ d.n = 0 /\ ~d.asked /\ c = {}
  PROVE  LET y == Sent(x)
             s == Pos(x, r)
         IN  /\ Commanded(y, d, s, L) /\ (Live(y, d) => Served(y, d, s, c, q, L))
             /\ y.pc \notin {"open", "request", "dispatch"}
             /\ y = IdleThread \/ y.lid = x.lid
             /\ y.lid # 0 => IF x.pc = "open" THEN y.ctx = "open" /\ y.op = x.op
                                              ELSE y.ctx # "open"
<1> DEFINE y == Sent(x)
<1>1. CASE x.pc = "open"
  <2>1. /\ y.pc = "fast" /\ y.ctx = "open" /\ y.lid = x.lid /\ y.op = x.op /\ y.rid = x.rid
        /\ y.failing = x.failing
    BY <1>1 DEF Sent, BeginRead, Thread
  <2>2. x.rid = None /\ ~x.failing /\ x.ctx = None
    BY <1>1, StreamsAssumption DEF Commanded, ThreadOK, Calls
  <2> HIDE DEF y
  <2>3. Commanded(y, d, r, L) /\ Pos(y, r) = r /\ Pos(x, r) = r
    BY <1>1, <2>1, <2>2 DEF Commanded, Pos
  <2>4. Served(y, d, r, c, q, L)
    BY <1>1, <2>1, <2>3 DEF Served
  <2> QED BY <1>1, <2>1, <2>3, <2>4 DEF y
<1>2. CASE x.pc = "request"
  <2>1. /\ y.pc = "fast" /\ y.ctx = "flush" /\ y.lid = x.lid /\ y.op = x.op /\ y.rid = x.rid
        /\ y.failing = x.failing
    BY <1>2 DEF Sent, BeginRead, Thread
  <2>2. x.ctx = "flush" /\ ~x.failing
    BY <1>2 DEF Commanded
  <2> HIDE DEF y
  <2>3. Commanded(y, d, r, L) /\ Pos(y, r) = r /\ Pos(x, r) = r
    BY <1>2, <2>1, <2>2 DEF Commanded, Pos
  <2>4. Live(y, d) <=> Live(x, d)
    BY <2>1, <2>2 DEF Live
  <2>5. Live(y, d) => Served(y, d, r, c, q, L)
    BY <1>2, <2>1, <2>2, <2>3, <2>4 DEF Served
  <2> QED BY <1>2, <2>1, <2>3, <2>5 DEF y
<1>3. CASE x.pc = "okay"
  <2>1. /\ y.pc \in {"fast", "clse"} /\ y.ctx = x.ctx /\ y.lid = x.lid /\ y.op = x.op
        /\ y.rid = x.rid /\ y.failing = x.failing
    <3> DEFINE v == [x EXCEPT !.pkt = None]
    <3>1. y = [v EXCEPT !.pc = "clse"] \/ y = [v EXCEPT !.pc = "fast", !.ctx = x.ctx]
      BY <1>3 DEF Sent, BeginRead
    <3>2. v \in [pc : {x.pc}, op : {x.op}, ctx : {x.ctx}, lid : {x.lid}, rid : {x.rid},
                 pkt : {None}, failing : {x.failing}]
      BY DEF Thread
    <3> HIDE DEF v, y
    <3> QED BY <3>1, <3>2
  <2>2. ~x.failing /\ x.ctx \in {"stream", "filesync"}
    BY <1>3 DEF Commanded
  <2> HIDE DEF y
  <2> DEFINE s == Pos(x, r)
  <2>3. Commanded(y, d, s, L) /\ Pos(y, s) = s
    BY <1>3, <2>1, <2>2 DEF Commanded, Pos
  <2>4. Live(y, d) <=> Live(x, d)
    BY <2>1, <2>2 DEF Live
  <2>5. Live(y, d) => Served(y, d, s, c, q, L)
    <3>1. Pos(x, r) = s
      OBVIOUS
    <3> HIDE DEF s
    <3> QED BY <1>3, <2>1, <2>2, <2>3, <2>4, <3>1 DEF Served
  <2> QED BY <1>3, <2>1, <2>2, <2>3, <2>5 DEF y
<1>4. CASE x.pc = "clse"
  <2>1. /\ y.pc = "fast" /\ y.ctx = "clse" /\ y.lid = x.lid /\ y.op = x.op /\ y.rid = x.rid
        /\ y.failing = x.failing
    BY <1>4 DEF Sent, BeginRead, Thread
  <2>2. x.ctx \in {"stream", "flush", "filesync", "clse"}
    BY <1>4 DEF ThreadOK, Sending, Calls
  <2> HIDE DEF y
  <2>3. Commanded(y, d, r, L) /\ ~Live(y, d) /\ Pos(x, r) = r
    BY <1>4, <2>1, <2>2 DEF Commanded, Live, Pos
  <2> QED BY <1>4, <2>1, <2>3 DEF y
<1>5. CASE x.pc = "reclose"
  BY <1>5, IdleIsFine DEF Sent
<1> QED BY <1>1, <1>2, <1>3, <1>4, <1>5 DEF Sending

LEMMA DSend ==
  ASSUME DInv, IInv', NEW t \in Threads, Send(t)
  PROVE  DInv'
<1>1. PICK x, y, l : x = th[t] /\ y = Sent(x) /\ l = x.lid
  OBVIOUS
<1> DEFINE d == dev[l]
           r == Last(received[l])
           s == Pos(x, r)
<1>2. /\ x.pc \in Sending /\ th' = [th EXCEPT ![t] = y]
      /\ to_dev' = Append(to_dev, Message(x))
      /\ received' = IF x.pc = "okay" THEN [received EXCEPT ![l] = Append(received[l], x.pkt.data)]
                                      ELSE received
      /\ UNCHANGED <<store, to_host, dev, local_id, lossy>>
  BY <1>1 DEF Send, ioVars, devVars
<1>3. /\ IInv /\ x \in Thread /\ ThreadOK(x) /\ Commanded(x, d, r, lossy)
      /\ Live(x, d) => Served(x, d, r, C(l), Queue(l), lossy)
      /\ l \in Lids /\ d \in DevStream /\ r \in Nat /\ received[l] \in Seq(Data)
  <2>1. x.lid \in Lids /\ x \in Thread /\ ThreadOK(x)
    BY <1>1, <1>2, ReaderFacts DEF ThreadOK
  <2>2. d \in DevStream /\ received[l] \in Seq(Data)
    BY <1>1, <2>1, Types DEF DInv
  <2>3. r \in Nat
    BY <2>2, LastFacts
  <2> QED BY <1>1, <2>1, <2>2, <2>3, ReaderFacts DEF DInv
<1>4. Ends(l, d, received[l], lossy)
  BY <1>3 DEF DInv, PipesOK
<1>5. x.pc = "open" => d.st = "none" /\ d.n = 0 /\ ~d.asked /\ C(l) = {}
  BY <1>1, <1>4 DEF DInv, FreshOK, Untouched, Ends
<1>6. /\ Commanded(y, d, s, lossy) /\ (Live(y, d) => Served(y, d, s, C(l), Queue(l), lossy))
      /\ y.pc \notin {"open", "request", "dispatch"}
      /\ y = IdleThread \/ y.lid = l
      /\ y.lid # 0 => IF x.pc = "open" THEN y.ctx = "open" /\ y.op = x.op
                                       ELSE y.ctx # "open"
  <2> DEFINE c == C(l)
             q == Queue(l)
             z == Sent(x)
  <2>1. /\ Commanded(x, d, r, lossy) /\ (Live(x, d) => Served(x, d, r, c, q, lossy))
        /\ x.pc = "open" => d.st = "none" /\ d.n = 0 /\ ~d.asked /\ c = {}
        /\ d \in DevStream /\ r \in Nat
    BY <1>3, <1>5
  <2> HIDE DEF c, q, d, r
  <2>2. /\ Commanded(z, d, s, lossy) /\ (Live(z, d) => Served(z, d, s, c, q, lossy))
        /\ z.pc \notin {"open", "request", "dispatch"}
        /\ z = IdleThread \/ z.lid = x.lid
        /\ z.lid # 0 => IF x.pc = "open" THEN z.ctx = "open" /\ z.op = x.op
                                         ELSE z.ctx # "open"
    BY <1>2, <1>3, <2>1, SentIsFine
  <2> QED BY <1>1, <2>2 DEF c, q
<1>7. IdleThread.lid = 0 /\ 0 \notin Lids
  BY IdleIsFine DEF Lids
<1>8. y.lid \in {0, th[t].lid} /\ (y.lid # 0 => y.lid = l)
  BY <1>1, <1>6, <1>7
<1>9. LidsOK'
  BY <1>2, <1>8, LidsStep
<1>10. /\ \A i, j \in DOMAIN to_dev' : Clash(to_dev'[i], to_dev'[j]) => i = j
       /\ \A i \in DOMAIN to_dev' : Request(to_dev'[i]) /\ Sender(y, to_dev'[i])
       /\ \A i \in DOMAIN to_dev', u \in Threads \ {t} : Sender(th[u], to_dev'[i])
  <2>1. to_dev' = Append(to_dev, Message(th[t])) /\ th[t].pc \in Sending
    BY <1>1, <1>2
  <2>2. y.lid # 0 => /\ y.pc \notin {"open", "request"}
                     /\ IF th[t].pc = "open" THEN y.ctx = "open" /\ y.op = th[t].op
                                             ELSE y.ctx # "open"
    BY <1>1, <1>6
  <2> QED BY <1>8, <2>1, <2>2, MessageSent
<1>11. /\ received'[l] \in Seq(Data) /\ Last(received'[l]) = s /\ Ends(l, d, received'[l], lossy)
       /\ \A m : m # l => received'[m] = received[m]
  <2>1. received \in [Lids -> Seq(Data)]
    BY Types DEF DInv
  <2>2. CASE x.pc = "okay"
    <3> DEFINE v == received[l]
               w == received'[l]
               e == x.pkt.data
    <3>1. e = <<l, s>> /\ s <= d.n /\ e \in Data /\ (l \notin lossy => s = r + 1)
      BY <1>1, <1>3, <2>2 DEF Commanded, ThreadOK, Packet, Pos
    <3>2. w = Append(v, e) /\ v \in Seq(Data) /\ (l \notin lossy => Given(l, v))
      BY <1>2, <1>3, <1>4, <2>1, <2>2 DEF Ends
    <3>3. \A m : m # l => received'[m] = received[m]
      BY <1>2, <1>3, <2>1, <2>2
    <3>4. d.n \in Nat
      BY <1>3, StreamsAssumption DEF DevStream
    <3>8. r = Last(v)
      OBVIOUS
    <3> HIDE DEF v, w, e, d, r, s
    <3>5. w \in Seq(Data) /\ Last(w) = s
      <4>1. e[2] = s
        BY <3>1
      <4> QED BY <3>1, <3>2, <4>1, LastFacts
    <3>6. ASSUME l \notin lossy PROVE Given(l, w)
      <4>0. Len(v) = r /\ Len(w) = r + 1 /\ e = <<l, r + 1>>
        BY <1>3, <3>1, <3>2, <3>6, <3>8, LastFacts
      <4>1. \A i \in 1 .. r : w[i] = v[i]
        BY <3>1, <3>2, <4>0
      <4>2. w[r + 1] = e
        BY <3>1, <3>2, <4>0
      <4>3. \A i \in 1 .. r : v[i] = <<l, i>>
        BY <3>2, <3>6, <4>0 DEF Given
      <4>4. \A i \in 1 .. r + 1 : w[i] = <<l, i>>
        <5>1. r \in Nat
          BY <1>3 DEF r
        <5>2. \A i \in 1 .. r + 1 : i \in 1 .. r \/ i = r + 1
          BY <5>1
        <5> QED BY <4>0, <4>1, <4>2, <4>3, <5>2
      <4>5. w = [i \in 1 .. r + 1 |-> w[i]]
        BY <3>5, <4>0
      <4> QED BY <4>0, <4>4, <4>5 DEF Given
    <3>7. Ends(l, d, w, lossy)
      BY <1>4, <3>1, <3>5, <3>6 DEF Ends
    <3> QED BY <2>2, <3>3, <3>5, <3>7 DEF w
  <2>3. CASE x.pc # "okay"
    <3>1. s = r
      BY <2>3 DEF Pos
    <3> HIDE DEF s
    <3> QED BY <1>2, <1>3, <1>4, <2>3, <3>1
  <2> QED BY <2>2, <2>3
<1>12. \A m \in Lids : Ends(m, dev[m], received'[m], lossy)
  BY <1>11 DEF DInv, PipesOK
<1>13. \A u \in Threads \ {t} : received'[th[u].lid] = received[th[u].lid]
  <2>1. \A u \in Threads \ {t} : th[u].lid # l
    BY <1>1, <1>3, <1>7 DEF DInv, LidsOK
  <2> QED BY <1>11, <2>1
<1>14. /\ Commanded(y, dev[y.lid], Last(received'[y.lid]), lossy)
       /\ Live(y, dev[y.lid]) =>
            Served(y, dev[y.lid], Last(received'[y.lid]), C(y.lid), Queue(y.lid), lossy)
  <2>1. CASE y = IdleThread
    BY <2>1, IdleIsFine
  <2>2. CASE y # IdleThread
    <3>1. y.lid = l
      BY <1>6, <2>2
    <3> QED BY <1>6, <1>11, <3>1
  <2> QED BY <2>1, <2>2
<1>15. th[t].pc # "dispatch" /\ local_id <= local_id'
  BY <1>1, <1>2, Types DEF DInv, Sending
<1> QED BY <1>2, <1>6, <1>9, <1>10, <1>12, <1>13, <1>14, <1>15, HostStep

LEMMA DSendRaises ==
  ASSUME DInv, IInv', NEW t \in Threads, SendRaises(t)
  PROVE  DInv'
<1>1. PICK y : y = Raised(th[t])
  OBVIOUS
<1>2. /\ th[t].pc \in Sending /\ th[t].pc # "dispatch" /\ th' = [th EXCEPT ![t] = y]
      /\ UNCHANGED <<store, to_host, dev, received, local_id, lossy>>
  BY <1>1 DEF SendRaises, ioVars, devVars, Sending
<1>3. CASE to_dev' = to_dev
  BY <1>1, <1>2, <1>3, DRaises
<1>4. CASE to_dev' = Append(to_dev, Message(th[t]))
  <2>1. LET l == th[t].lid
        IN  /\ Commanded(y, dev[l], Last(received[l]), lossy) /\ ~Live(y, dev[l])
            /\ y.lid \in {0, l} /\ y.pc \in {"idle", "clse"}
            /\ y.lid = 0 \/ (y.ctx = th[t].ctx /\ y.op = th[t].op)
    BY <1>1, <1>2, ReaderFacts, RaisedIsFine
  <2>2. Commanded(y, dev[y.lid], Last(received[y.lid]), lossy) /\ ~Live(y, dev[y.lid])
    <3>1. CASE y = IdleThread
      BY <3>1, IdleIsFine
    <3>2. CASE y # IdleThread
      <4>1. y.lid = th[t].lid
        BY <1>1, <3>2, ReaderFacts DEF Raised, Thread
      <4> QED BY <2>1, <4>1
    <3> QED BY <3>1, <3>2
  <2>3. LidsOK'
    BY <1>2, <2>1, LidsStep
  <2>4. y.lid # 0 => /\ y.pc \notin {"open", "request"}
                     /\ IF th[t].pc = "open" THEN y.ctx = "open" /\ y.op = th[t].op
                                             ELSE y.ctx # "open"
    <3>1. CASE y = IdleThread
      BY <3>1, IdleIsFine
    <3>2. CASE y # IdleThread
      <4>1. th[t].ctx \in {"flush", "filesync"}
        BY <1>1, <3>2 DEF Raised
      <4>2. th[t].pc # "open"
        BY <4>1, ReaderFacts, StreamsAssumption DEF ThreadOK, Calls
      <4> QED BY <2>1, <4>1, <4>2
    <3> QED BY <3>1, <3>2
  <2>5. /\ \A i, j \in DOMAIN to_dev' : Clash(to_dev'[i], to_dev'[j]) => i = j
        /\ \A i \in DOMAIN to_dev' : Request(to_dev'[i]) /\ Sender(y, to_dev'[i])
        /\ \A i \in DOMAIN to_dev', u \in Threads \ {t} : Sender(th[u], to_dev'[i])
    BY <1>2, <1>4, <2>1, <2>4, MessageSent
  <2>6. \A m \in Lids : Ends(m, dev[m], received'[m], lossy)
    BY <1>2 DEF DInv, PipesOK
  <2>7. local_id <= local_id'
    BY <1>2, Types DEF DInv
  <2> QED BY <1>2, <2>1, <2>2, <2>3, <2>5, <2>6, <2>7, HostStep
<1> QED BY <1>3, <1>4 DEF SendRaises

-----------------------------------------------------------------------------
(* The device.                                                             *)

(* What a step of the device does to what is on the way: the packets G,    *)
(* one or none, are sent on the stream l.                                  *)
DevSends(l, G) ==
  \/ G = {} /\ to_host' = to_host
  \/ \E p \in Packet : G = {p} /\ p.arg1 = l /\ to_host' = Append(to_host, p)

LEMMA DevFrame ==
  ASSUME DInv, UNCHANGED <<th, store>>, NEW l \in Lids, NEW d, dev' = [dev EXCEPT ![l] = d],
         d.rid = dev[l].rid \/ \A k \in DOMAIN store : k[2] # l,
         NEW G, DevSends(l, G), \A e \in C(l), p \in G : Before(e, Body(p))
  PROVE  \A m \in Lids :
           /\ Queue(m)' = Queue(m) /\ Hand(m)' = Hand(m)
           /\ C(m)' = IF m = l THEN C(l) \cup {Body(p) : p \in G} ELSE C(m)
           /\ Ordered(Queue(m), Hand(m), to_host, m)'
<1> SUFFICES ASSUME NEW m \in Lids
             PROVE  /\ Queue(m)' = Queue(m) /\ Hand(m)' = Hand(m)
                    /\ C(m)' = IF m = l THEN C(l) \cup {Body(p) : p \in G} ELSE C(m)
                    /\ Ordered(Queue(m), Hand(m), to_host, m)'
  OBVIOUS
<1>1. /\ to_host \in Seq(Packet) /\ dev \in [Lids -> DevStream]
      /\ Ordered(Queue(m), Hand(m), to_host, m)
  BY Types DEF DInv, PipesOK
<1>2. Hand(m)' = Hand(m)
  BY DEF Hand
<1>3. Queue(m)' = Queue(m)
  <2>1. CASE dev'[m].rid = dev[m].rid
    BY <2>1 DEF Queue
  <2>2. CASE dev'[m].rid # dev[m].rid
    <3>1. m = l /\ \A k \in DOMAIN store : k[2] # l
      BY <1>1, <2>2
    <3>2. <<dev[m].rid, m>> \notin DOMAIN store /\ <<dev'[m].rid, m>> \notin DOMAIN store
      BY <3>1
    <3> QED BY <3>2 DEF Queue, QueueOf
  <2> QED BY <2>1, <2>2
<1>4. CASE G = {} /\ to_host' = to_host
  <2>1. {Body(p) : p \in G} = {}
    BY <1>4
  <2>2. Contents(Queue(m)', Hand(m)', to_host', m) = Contents(Queue(m), Hand(m), to_host, m)
    BY <1>2, <1>3, <1>4
  <2>3. Ordered(Queue(m)', Hand(m)', to_host', m)
    BY <1>1, <1>2, <1>3, <1>4
  <2> QED BY <1>2, <1>3, <2>1, <2>2, <2>3 DEF C, Ordered
<1>5. ASSUME NEW p \in Packet, G = {p}, p.arg1 = l, to_host' = Append(to_host, p)
      PROVE  /\ C(m)' = IF m = l THEN C(l) \cup {Body(x) : x \in G} ELSE C(m)
             /\ Ordered(Queue(m), Hand(m), to_host, m)'
  <2> DEFINE q == Queue(m)
             H == Hand(m)
  <2>1. Contents(q, H, Append(to_host, p), m)
          = Contents(q, H, to_host, m) \cup {Body(e) : e \in {x \in {p} : x.arg1 = m}}
    <3> HIDE DEF q, H
    <3> QED BY <1>1, SendContents
  <2>2. p.arg1 = m => \A e \in Contents(q, H, to_host, m) : Before(e, Body(p))
    BY <1>5 DEF C
  <2>3. Ordered(q, H, Append(to_host, p), m)
    <3>1. Ordered(q, H, to_host, m)
      BY <1>1
    <3> HIDE DEF q, H
    <3> QED BY <1>1, <2>2, <3>1, SendOrdered
  <2>4. Ordered(Queue(m)', Hand(m)', to_host', m)
    BY <1>2, <1>3, <1>5, <2>3
  <2>5. {Body(e) : e \in {x \in {p} : x.arg1 = m}} = IF m = l THEN {Body(x) : x \in G} ELSE {}
    <3>1. CASE m = l
      <4>1. {x \in {p} : x.arg1 = m} = G
        BY <1>5, <3>1
      <4> QED BY <3>1, <4>1
    <3>2. CASE m # l
      <4>1. {x \in {p} : x.arg1 = m} = {}
        BY <1>5, <3>2
      <4> QED BY <3>2, <4>1
    <3> QED BY <3>1, <3>2
  <2>6. Contents(Queue(m)', Hand(m)', to_host', m)
          = Contents(q, H, to_host, m) \cup IF m = l THEN {Body(x) : x \in G} ELSE {}
    BY <1>2, <1>3, <1>5, <2>1, <2>5
  <2>7. C(m)' = C(m) \cup IF m = l THEN {Body(x) : x \in G} ELSE {}
    BY <2>6 DEF C
  <2> QED BY <2>4, <2>7 DEF Ordered
<1> QED BY <1>2, <1>3, <1>4, <1>5 DEF DevSends

LEMMA DevStep ==
  ASSUME DInv, IInv', UNCHANGED <<th, store, local_id, received, lossy>>,
         NEW l \in Lids, NEW d, dev' = [dev EXCEPT ![l] = d],
         NEW G, DevSends(l, G),
         \* the requests that are left
         \A i, j \in DOMAIN to_dev' : Clash(to_dev'[i], to_dev'[j]) => i = j,
         \A i \in DOMAIN to_dev' : \E j \in DOMAIN to_dev : to_dev'[i] = to_dev[j],
         \A i \in DOMAIN to_dev' : to_dev'[i].arg0 = l =>
           /\ to_dev'[i].cmd # "OPEN"
           /\ to_dev'[i].cmd = "WRTE" /\ d.st # "gone" =>
                d.st # "none" /\ d.op # Shell /\ ~d.asked,
         \* the stream
         l <= local_id, \A u \in Threads : th[u].pc = "open" => th[u].lid # l,
         dev[l].st \in {"open", "closed"} => d.st \in {"open", "closed"} /\ d.rid = dev[l].rid,
         dev[l].st = "none" => d.st = "none" \/ C(l) = {},
         dev[l].st = "gone" => d = dev[l],
         \A p \in G : \/ d.st \in {"open", "closed"} /\ p.arg0 = d.rid
                      \/ d.st = "none" /\ p.arg0 = 0 /\ p.cmd = "CLSE",
         Ends(l, d, received[l], lossy),
         \A e \in C(l) : OnTheWay(l, d, e),
         \A p \in G : OnTheWay(l, d, Body(p)),
         \A e \in C(l), p \in G : Before(e, Body(p)),
         \* its reader
         \A u \in Threads : th[u].lid = l =>
           /\ Commanded(th[u], d, Last(received[l]), lossy)
           /\ Live(th[u], d) =>
                Served(th[u], d, Last(received[l]), C(l) \cup {Body(p) : p \in G}, Queue(l), lossy)
  PROVE  DInv'
<1>1. IInv /\ dev \in [Lids -> DevStream] /\ DevStream # {}
  BY Types DEF DInv
<1>2. dev'[l] = d /\ \A m \in Lids : m # l => dev'[m] = dev[m]
  BY <1>1
<1>3. \A k \in DOMAIN store : k[2] = l => dev[l].st \in {"open", "closed"}
  BY DEF DInv, OriginOK, Current
<1>4. d.rid = dev[l].rid \/ \A k \in DOMAIN store : k[2] # l
  BY <1>3
<1>5. \A m \in Lids :
           /\ Queue(m)' = Queue(m) /\ Hand(m)' = Hand(m)
           /\ C(m)' = IF m = l THEN C(l) \cup {Body(p) : p \in G} ELSE C(m)
           /\ Ordered(Queue(m), Hand(m), to_host, m)'
  BY <1>4, DevFrame
<1>6. \A m \in Lids : m # l /\ Untouched(m) => Untouched(m)'
  BY <1>2, <1>5 DEF Untouched
<1>7. LidsOK'
  BY DEF DInv, LidsOK
<1>8. FreshOK'
  <2>1. \A m \in Lids : m > local_id' => Untouched(m)'
    <3> SUFFICES ASSUME NEW m \in Lids, m > local_id' PROVE Untouched(m)'
      OBVIOUS
    <3>1. m # l
      BY Types DEF DInv, Lids
    <3> QED BY <1>6, <3>1 DEF DInv, FreshOK
  <2>2. \A u \in Threads : th'[u].pc = "open" => Untouched(th[u].lid)'
    <3> SUFFICES ASSUME NEW u \in Threads, th[u].pc = "open" PROVE Untouched(th[u].lid)'
      OBVIOUS
    <3>1. th[u].lid # l /\ Untouched(th[u].lid) /\ th[u].lid \in Lids
      BY <1>1, Types DEF DInv, FreshOK, ThreadOK, Sending
    <3>2. PICK m \in Lids : m = th[u].lid
      BY <3>1
    <3>3. Untouched(m)'
      BY <1>6, <3>1, <3>2
    <3> QED BY <3>2, <3>3
  <2> QED BY <2>1, <2>2 DEF FreshOK
<1>9. OriginOK'
  <2>1. \A m, r : Current(m, r) => Current(m, r)'
    BY <1>2 DEF Current
  <2>2. ASSUME NEW p, Origin(p), ~(p.arg1 = l /\ dev[l].st = "none" /\ C(l) = {})
        PROVE  Origin(p)'
    <3>1. CASE Current(p.arg1, p.arg0)
      BY <2>1, <3>1 DEF Origin
    <3>2. CASE p.arg1 \in Lids /\ dev[p.arg1].st = "none" /\ p.arg0 = 0 /\ p.cmd = "CLSE"
      <4>1. dev'[p.arg1].st = "none"
        BY <1>2, <2>2, <3>2
      <4> QED BY <3>2, <4>1 DEF Origin
    <3> QED BY <2>2, <3>1, <3>2 DEF Origin
  <2>3. \A p \in G : Origin(p)'
    <3>1. \A p \in G : p.arg1 = l
      BY DEF DevSends
    <3> QED BY <1>2, <3>1 DEF Origin, Current
  <2>4. \A i \in DOMAIN to_host : Origin(to_host[i]) /\ (to_host[i].arg1 = l => C(l) # {})
    BY DEF DInv, OriginOK, C, Contents, Mine
  <2>5. \A i \in DOMAIN to_host' : \/ to_host'[i] \in G
                                  \/ (i \in DOMAIN to_host /\ to_host'[i] = to_host[i])
    <3>1. to_host \in Seq(Packet)
      BY <1>1, Types
    <3>2. CASE to_host' = to_host
      BY <3>2
    <3>3. ASSUME NEW p \in Packet, G = {p}, to_host' = Append(to_host, p)
          PROVE  \A i \in DOMAIN to_host' : \/ to_host'[i] \in G
                                          \/ (i \in DOMAIN to_host /\ to_host'[i] = to_host[i])
      BY <3>1, <3>3
    <3> QED BY <3>2, <3>3 DEF DevSends
  <2>6. \A i \in DOMAIN to_host' : Origin(to_host[i])'
    BY <2>2, <2>3, <2>4, <2>5
  <2>7. \A u \in Threads : th[u].pc = "dispatch" =>
                               Origin(th[u].pkt) /\ (th[u].pkt.arg1 = l => C(l) # {})
    <3> SUFFICES ASSUME NEW u \in Threads, th[u].pc = "dispatch"
                 PROVE  Origin(th[u].pkt) /\ (th[u].pkt.arg1 = l => C(l) # {})
      OBVIOUS
    <3>1. th[u].pkt.arg1 = l => th[u].pkt \in Hand(l)
      BY DEF Hand
    <3>2. \A p \in Hand(l) : Body(p) \in C(l)
      BY DEF C, Contents
    <3> QED BY <3>1, <3>2 DEF DInv, OriginOK
  <2>8. \A u \in Threads : th'[u].pc = "dispatch" => Origin(th[u].pkt)'
    BY <2>2, <2>7
  <2>9. \A k \in DOMAIN store' : Current(k[2], k[1])'
    BY <2>1 DEF DInv, OriginOK
  <2> QED BY <2>6, <2>8, <2>9 DEF OriginOK
<1>10. RequestsOK'
  <2>1. ASSUME NEW i \in DOMAIN to_dev' PROVE Request(to_dev[i])'
    <3>1. PICK m : m = to_dev'[i]
      OBVIOUS
    <3>2. Request(m) /\ m.arg0 \in Lids
      <4>1. PICK j \in DOMAIN to_dev : m = to_dev[j]
        BY <3>1
      <4>2. to_dev[j] \in HostPacket
        BY <1>1, Types
      <4> QED BY <4>1, <4>2 DEF DInv, RequestsOK, HostPacket
    <3>3. CASE m.arg0 = l
      <4>1. /\ m.cmd # "OPEN"
            /\ m.cmd = "WRTE" /\ d.st # "gone" => d.st # "none" /\ d.op # Shell /\ ~d.asked
        BY <3>1, <3>3
      <4>2. Request(m)'
        BY <1>2, <3>2, <3>3, <4>1 DEF Request
      <4> QED BY <3>1, <4>2 DEF Request
    <3>4. CASE m.arg0 # l
      <4>1. Request(m)'
        BY <1>2, <1>6, <3>2, <3>4 DEF Request
      <4> QED BY <3>1, <4>1 DEF Request
    <3> QED BY <3>3, <3>4
  <2>2. ASSUME NEW i \in DOMAIN to_dev', NEW u \in Threads PROVE Sender(th[u], to_dev[i])'
    <3>1. PICK j \in DOMAIN to_dev : to_dev'[i] = to_dev[j]
      OBVIOUS
    <3>2. Sender(th[u], to_dev[j])
      BY DEF DInv, RequestsOK
    <3>3. Sender(th'[u], to_dev'[i])
      BY <3>1, <3>2
    <3> QED BY <3>3 DEF Sender
  <2> QED BY <2>1, <2>2 DEF RequestsOK, Clash
<1>11. PipesOK'
  <2> SUFFICES ASSUME NEW m \in Lids
               PROVE  /\ Ends(m, dev'[m], received'[m], lossy)
                      /\ \A e \in C(m)' : OnTheWay(m, dev'[m], e)
    BY <1>5 DEF PipesOK, Ends, OnTheWay
  <2>1. CASE m = l
    BY <1>2, <1>5, <2>1
  <2>2. CASE m # l
    BY <1>2, <1>5, <2>2 DEF DInv, PipesOK
  <2> QED BY <2>1, <2>2
<1>12. ReadersOK'
  <2> SUFFICES ASSUME NEW u \in Threads PROVE ReaderOK(th[u])'
    BY DEF ReadersOK
  <2>1. PICK x, m : x = th[u] /\ m = x.lid
    OBVIOUS
  <2>2. CASE m = l
    <3>1. /\ Commanded(x, dev'[m], Last(received'[m]), lossy)
          /\ Live(x, dev'[m]) => Served(x, dev'[m], Last(received'[m]), C(m)', Queue(m)', lossy)
      BY <1>2, <1>5, <2>1, <2>2
    <3> QED BY <2>1, <3>1 DEF ReaderOK, Commanded, Live, Served
  <2>3. CASE m # l /\ m \in Lids
    <3>1. /\ Commanded(x, dev'[m], Last(received'[m]), lossy)
          /\ Live(x, dev'[m]) => Served(x, dev'[m], Last(received'[m]), C(m)', Queue(m)', lossy)
      BY <1>2, <1>5, <2>1, <2>3, ReaderFacts
    <3> QED BY <2>1, <3>1 DEF ReaderOK, Commanded, Live, Served
  <2>4. CASE m \notin Lids
    <3>1. x.ctx = None /\ x.lid = 0 /\ x.pc \in {"idle", "close", "connect", "connected"}
      BY <2>1, <2>4, ReaderFacts DEF Thread, ThreadOK, Commanded
    <3>2. None \notin Calls
      BY StreamsAssumption
    <3>3. ~x.failing
      BY <2>1, <3>1, <3>2, ReaderFacts DEF Commanded, Calls
    <3>4. /\ Commanded(x, dev'[m], Last(received'[m]), lossy) /\ ~Live(x, dev'[m])
      BY <2>1, <3>1, <3>2, <3>3 DEF Commanded, Live, Calls
    <3> QED BY <2>1, <3>4 DEF ReaderOK, Commanded, Live
  <2> QED BY <2>2, <2>3, <2>4
<1> QED BY <1>7, <1>8, <1>9, <1>10, <1>11, <1>12 DEF DInv

(* The request the device is at, and those behind it.                      *)
LEMMA HeadFacts ==
  ASSUME DInv, to_dev # <<>>, to_dev' = Tail(to_dev), NEW m, m = Head(to_dev), NEW l, l = m.arg0
  PROVE  /\ m \in HostPacket /\ l \in Lids /\ Request(m) /\ l <= local_id
         /\ \A u \in Threads : Sender(th[u], m)
         /\ \A u \in Threads : th[u].pc = "open" => th[u].lid # l
         /\ \A i, j \in DOMAIN to_dev' : Clash(to_dev'[i], to_dev'[j]) => i = j
         /\ \A i \in DOMAIN to_dev' : \E j \in DOMAIN to_dev : to_dev'[i] = to_dev[j]
         /\ \A i \in DOMAIN to_dev' : to_dev'[i].arg0 = l =>
              /\ m.cmd # "OPEN" /\ to_dev'[i].cmd # "OPEN"
              /\ m.cmd = "WRTE" => to_dev'[i].cmd # "WRTE"
<1>1. to_dev \in Seq(HostPacket)
  BY Types DEF DInv
<1>2. /\ 1 \in DOMAIN to_dev /\ to_dev[1] = m
      /\ \A i \in DOMAIN to_dev' : /\ i + 1 \in DOMAIN to_dev /\ to_dev'[i] = to_dev[i + 1]
                                   /\ i \in Nat \ {0}
  BY <1>1
<1>3. m \in HostPacket /\ l \in Lids
  <2>1. m \in HostPacket
    BY <1>1, <1>2
  <2> QED BY <2>1 DEF HostPacket
<1>4. Request(m) /\ \A u \in Threads : Sender(th[u], m)
  BY <1>2 DEF DInv, RequestsOK
<1>5. l <= local_id /\ \A u \in Threads : th[u].pc = "open" => th[u].lid # l
  BY <1>4 DEF Request, Sender
<1>6. \A i, j \in DOMAIN to_dev' : Clash(to_dev'[i], to_dev'[j]) => i = j
  <2> SUFFICES ASSUME NEW i \in DOMAIN to_dev', NEW j \in DOMAIN to_dev',
                      Clash(to_dev'[i], to_dev'[j])
               PROVE  i = j
    OBVIOUS
  <2>1. i + 1 = j + 1
    BY <1>2 DEF DInv, RequestsOK
  <2> QED BY <1>2, <2>1
<1>7. \A i \in DOMAIN to_dev' : ~Clash(m, to_dev'[i])
  <2> SUFFICES ASSUME NEW i \in DOMAIN to_dev', Clash(m, to_dev'[i]) PROVE FALSE
    OBVIOUS
  <2>1. 1 = i + 1
    BY <1>2 DEF DInv, RequestsOK
  <2> QED BY <1>2, <2>1
<1>8. \A i \in DOMAIN to_dev' : to_dev'[i].arg0 = l =>
              /\ m.cmd # "OPEN" /\ to_dev'[i].cmd # "OPEN"
              /\ m.cmd = "WRTE" => to_dev'[i].cmd # "WRTE"
  BY <1>7 DEF Clash
<1> QED BY <1>2, <1>3, <1>4, <1>5, <1>6, <1>8

LEMMA OpenFacts ==
  ASSUME DInv, NEW l \in Lids, dev[l].st = "open"
  PROVE  /\ l <= local_id /\ \A u \in Threads : th[u].pc = "open" => th[u].lid # l
         /\ \A i \in DOMAIN to_dev : to_dev[i].arg0 = l =>
              /\ to_dev[i].cmd # "OPEN"
              /\ to_dev[i].cmd = "WRTE" => dev[l].op # Shell /\ ~dev[l].asked
         /\ \A e \in C(l) : e \in Stored /\ e.cmd # "CLSE"
         /\ Ends(l, dev[l], received[l], lossy) /\ \A e \in C(l) : OnTheWay(l, dev[l], e)
         /\ received[l] \in Seq(Data) /\ Last(received[l]) \in Nat /\ dev[l].n \in Nat
         /\ dev[l] \in DevStream
<1>1. ~Untouched(l)
  BY DEF Untouched
<1>2. l <= local_id /\ \A u \in Threads : th[u].pc = "open" => th[u].lid # l
  <2>1. ~(l > local_id)
    BY <1>1 DEF DInv, FreshOK
  <2>2. l \in Nat /\ local_id \in Nat
    BY Types DEF DInv, Lids
  <2> QED BY <1>1, <2>1, <2>2 DEF DInv, FreshOK
<1>3. \A i \in DOMAIN to_dev : to_dev[i].arg0 = l =>
              /\ to_dev[i].cmd # "OPEN"
              /\ to_dev[i].cmd = "WRTE" => dev[l].op # Shell /\ ~dev[l].asked
  BY <1>1 DEF DInv, RequestsOK, Request
<1>4. Ends(l, dev[l], received[l], lossy) /\ \A e \in C(l) : OnTheWay(l, dev[l], e)
  BY DEF DInv, PipesOK
<1>5. \A e \in C(l) : e \in Stored /\ e.cmd # "CLSE"
  BY <1>4, ContentsAreTyped DEF DInv, OnTheWay
<1>6. dev[l] \in DevStream /\ received[l] \in Seq(Data)
  BY Types DEF DInv
<1>7. dev[l].n \in Nat /\ Last(received[l]) \in Nat
  BY <1>6, LastFacts, StreamsAssumption DEF DevStream
<1> QED BY <1>2, <1>3, <1>4, <1>5, <1>6, <1>7

(* What the steps of an open stream mean to its reader.                    *)
LEMMA ReaderOfOpen ==
  ASSUME NEW L, NEW x, NEW d \in DevStream, NEW r \in Nat, NEW c, NEW q, NEW e, d.st = "open",
         Commanded(x, d, r, L), Live(x, d) => Served(x, d, r, c, q, L), r <= d.n, NEW v,
         v.rid = d.rid, v.op = d.op, v.st \in {"open", "closed"},
         \/ v.n = d.n /\ v.asked = d.asked /\ (e.cmd = "WRTE" => e \in c)
         \/ v.n = d.n /\ v.asked = TRUE /\ e = Ok /\ x.ctx # "open" /\ x.pc # "request"
         \/ v.n = d.n + 1 /\ v.asked = d.asked /\ e = Wrte(x.lid, d.n + 1)
  PROVE  /\ Commanded(x, v, r, L)
         /\ Live(x, v) => Served(x, v, r, c \cup {e}, q, L)
<1>1. d.n \in Nat
  BY StreamsAssumption DEF DevStream
<1>2. Commanded(x, v, r, L)
  <2>1. \A j \in Nat : j <= d.n => j <= v.n
    BY <1>1
  <2>2. x.pc # "reclose"
    BY DEF Commanded
  <2> QED BY <2>1, <2>2 DEF Commanded
<1>3. ASSUME Live(x, v)
      PROVE  Served(x, v, r, c \cup {e}, q, L)
  <2>1. Live(x, d)
    BY <1>3 DEF Live
  <2>2. Served(x, d, r, c, q, L)
    BY <2>1
  <2>3. Pos(x, r) \in Nat /\ Pos(x, r) <= d.n
    <3>1. x.pc = "okay" => InHand(x) \in Nat /\ InHand(x) <= d.n
      BY DEF Commanded
    <3> QED BY <1>1, <3>1 DEF Pos
  <2>4. \A j : Wrte(x.lid, j).cmd = "WRTE" /\ Wrte(x.lid, j).data[2] = j
    BY DEF Wrte
  <2>5. Ok.cmd = "OKAY"
    BY DEF Ok
  <2>6. e.cmd = "WRTE" => e \in c \/ e.data[2] > Pos(x, r)
    BY <1>1, <2>3, <2>4, <2>5
  <2>7. \A f \in c \cup {e} : f.cmd = "WRTE" => f.data[2] > Pos(x, r)
    BY <2>2, <2>6 DEF Served
  <2>8. ASSUME x.lid \notin L PROVE \A j \in Pos(x, r) + 1 .. v.n : Wrte(x.lid, j) \in c \cup {e}
    <3> SUFFICES ASSUME NEW j \in Pos(x, r) + 1 .. v.n PROVE Wrte(x.lid, j) \in c \cup {e}
      OBVIOUS
    <3>1. CASE j \in Pos(x, r) + 1 .. d.n
      BY <2>2, <2>8, <3>1 DEF Served
    <3>2. CASE j \notin Pos(x, r) + 1 .. d.n
      <4>1. v.n = d.n + 1 /\ j = d.n + 1
        BY <1>1, <2>3, <3>2
      <4>2. e = Wrte(x.lid, d.n + 1)
        BY <1>1, <4>1
      <4> QED BY <4>1, <4>2
    <3> QED BY <3>1, <3>2
  <2>9. /\ x.ctx = "open" => x.op = v.op
        /\ x.lid \notin L /\ x.ctx = "open" => Ok \in c \cup {e}
        /\ x.ctx = "open" \/ x.pc = "request" => ~v.asked
        /\ x.lid \notin L /\ x.ctx = "flush" /\ v.asked => Ok \in c \cup {e}
        /\ x.pc \in {"wire", "dispatch"} => q = <<>>
    BY <2>2 DEF Served
  <2> HIDE DEF Live
  <2> QED BY <2>7, <2>8, <2>9 DEF Served
<1> QED BY <1>2, <1>3

(* What an open stream sends and becomes: its end, its answer to a request *)
(* or its next data.                                                       *)
OpenSends(l, v, p) ==
  \/ v.n = dev[l].n /\ v.asked = dev[l].asked /\ p.cmd = "CLSE"
  \/ /\ v.n = dev[l].n /\ v.asked = TRUE /\ Body(p) = Ok
     /\ \A u \in Threads : th[u].lid = l => th[u].ctx # "open" /\ th[u].pc # "request"
  \/ v.n = dev[l].n + 1 /\ v.asked = dev[l].asked /\ Body(p) = Wrte(l, dev[l].n + 1)

(* An open stream l becomes v and the packet p is sent on it.              *)
LEMMA OpenStep ==
  ASSUME DInv, IInv', UNCHANGED <<th, store, local_id, received, lossy>>,
         NEW l \in Lids, dev[l].st = "open", NEW v, dev' = [dev EXCEPT ![l] = v],
         v.rid = dev[l].rid, v.op = dev[l].op, v.st \in {"open", "closed"},
         NEW p \in Packet, p.arg0 = dev[l].rid, p.arg1 = l, to_host' = Append(to_host, p),
         \A i, j \in DOMAIN to_dev' : Clash(to_dev'[i], to_dev'[j]) => i = j,
         \A i \in DOMAIN to_dev' : \E j \in DOMAIN to_dev : to_dev'[i] = to_dev[j],
         \A i \in DOMAIN to_dev' : to_dev'[i].arg0 = l =>
           to_dev'[i].cmd # "OPEN" /\ (to_dev'[i].cmd = "WRTE" => v.op # Shell /\ ~v.asked),
         Ends(l, v, received[l], lossy), OnTheWay(l, v, Body(p)),
         \A f \in C(l) : Before(f, Body(p)),
         OpenSends(l, v, p)
  PROVE  DInv'
<1>1. PICK G, e : G = {p} /\ e = Body(p)
  OBVIOUS
<1>2. {Body(x) : x \in G} = {e} /\ DevSends(l, G) /\ e.cmd = p.cmd
  BY <1>1, BodyIsStored DEF DevSends
<1>3. /\ l <= local_id /\ \A u \in Threads : th[u].pc = "open" => th[u].lid # l
      /\ \A f \in C(l) : f \in Stored /\ f.cmd # "CLSE" /\ OnTheWay(l, dev[l], f)
      /\ Ends(l, dev[l], received[l], lossy)
      /\ Last(received[l]) \in Nat /\ dev[l].n \in Nat /\ dev[l] \in DevStream
  BY OpenFacts
<1>4. \A f \in C(l) : OnTheWay(l, v, f)
  <2> SUFFICES ASSUME NEW f \in C(l), f.cmd = "WRTE"
               PROVE  f.data[1] = l /\ f.data[2] <= v.n
    BY <1>3 DEF OnTheWay
  <2>1. f.data[1] = l /\ f.data[2] <= dev[l].n /\ f.data[2] \in Nat
    BY <1>3, StoredFacts, StreamsAssumption DEF OnTheWay
  <2>2. v.n \in {dev[l].n, dev[l].n + 1}
    BY DEF OpenSends
  <2> QED BY <1>3, <2>1, <2>2
<1>5. ASSUME NEW u \in Threads, th[u].lid = l
      PROVE  /\ Commanded(th[u], v, Last(received[l]), lossy)
             /\ Live(th[u], v) =>
                  Served(th[u], v, Last(received[l]), C(l) \cup {Body(x) : x \in G}, Queue(l), lossy)
  <2> DEFINE x == th[u]
             d == dev[l]
             r == Last(received[l])
             c == C(l)
             q == Queue(l)
  <2>1. /\ Commanded(x, d, r, lossy) /\ (Live(x, d) => Served(x, d, r, c, q, lossy))
        /\ x.lid = l /\ r <= d.n /\ r \in Nat /\ d \in DevStream /\ d.st = "open"
        /\ v.rid = d.rid /\ v.op = d.op
    BY <1>3, <1>5, ReaderFacts DEF Ends
  <2>2. \/ v.n = d.n /\ v.asked = d.asked /\ (e.cmd = "WRTE" => e \in c)
        \/ v.n = d.n /\ v.asked = TRUE /\ e = Ok /\ x.ctx # "open" /\ x.pc # "request"
        \/ v.n = d.n + 1 /\ v.asked = d.asked /\ e = Wrte(x.lid, d.n + 1)
    BY <1>1, <1>2, <1>5 DEF OpenSends
  <2> HIDE DEF x, d, r, c, q
  <2>3. /\ Commanded(x, v, r, lossy)
        /\ Live(x, v) => Served(x, v, r, c \cup {e}, q, lossy)
    BY <2>1, <2>2, ReaderOfOpen
  <2> QED BY <1>2, <2>3 DEF x, d, r, c, q
<1>6. /\ \A x \in G : v.st \in {"open", "closed"} /\ x.arg0 = v.rid
      /\ \A x \in G : OnTheWay(l, v, Body(x))
      /\ \A f \in C(l), x \in G : Before(f, Body(x))
  BY <1>1
<1>7. /\ dev[l].st \in {"open", "closed"} => v.st \in {"open", "closed"} /\ v.rid = dev[l].rid
      /\ dev[l].st # "none" /\ dev[l].st # "gone"
  OBVIOUS
<1>8. \A i \in DOMAIN to_dev' : to_dev'[i].arg0 = l =>
        /\ to_dev'[i].cmd # "OPEN"
        /\ to_dev'[i].cmd = "WRTE" /\ v.st # "gone" => v.st # "none" /\ v.op # Shell /\ ~v.asked
  OBVIOUS
<1> QED BY <1>2, <1>3, <1>4, <1>5, <1>6, <1>7, <1>8, DevStep, ZenonT(30)

(* The end of an open stream.                                              *)
LEMMA OpenCloses ==
  ASSUME DInv, IInv', UNCHANGED <<th, store, local_id, received, lossy>>,
         NEW l \in Lids, dev[l].st = "open",
         dev' = [dev EXCEPT ![l] = [dev[l] EXCEPT !.st = "closed"]],
         to_host' = Append(to_host, Msg("CLSE", dev[l].rid, l, None)),
         \A i, j \in DOMAIN to_dev' : Clash(to_dev'[i], to_dev'[j]) => i = j,
         \A i \in DOMAIN to_dev' : \E j \in DOMAIN to_dev : to_dev'[i] = to_dev[j],
         \A i \in DOMAIN to_dev' : to_dev'[i].arg0 = l =>
           to_dev'[i].cmd # "OPEN" /\ (to_dev'[i].cmd = "WRTE" => dev[l].op # Shell /\ ~dev[l].asked)
  PROVE  DInv'
<1>1. PICK d, v, p : /\ d = dev[l] /\ v = [dev[l] EXCEPT !.st = "closed"]
                     /\ p = Msg("CLSE", dev[l].rid, l, None)
  OBVIOUS
<1>2. /\ \A f \in C(l) : f \in Stored /\ f.cmd # "CLSE"
      /\ Ends(l, d, received[l], lossy) /\ d \in DevStream
  BY <1>1, OpenFacts
<1>3. v.st = "closed" /\ v.rid = d.rid /\ v.op = d.op /\ v.n = d.n /\ v.asked = d.asked
  BY <1>1, <1>2 DEF DevStream
<1>4. /\ p \in Packet /\ p.arg0 = d.rid /\ p.arg1 = l /\ p.cmd = "CLSE"
      /\ Body(p).cmd = "CLSE" /\ Body(p) \in Stored
  <2>1. d.rid \in Nat /\ l \in Nat
    BY <1>2 DEF DevStream, Lids
  <2>2. p \in Packet
    BY <1>1, <2>1 DEF Msg, Packet
  <2> QED BY <1>1, <2>2, BodyIsStored DEF Msg
<1>5. \A f \in C(l) : Before(f, Body(p))
  BY <1>2, <1>4, BeforeFacts
<1>6. Ends(l, v, received[l], lossy)
  BY <1>2, <1>3 DEF Ends
<1>7. OnTheWay(l, v, Body(p))
  BY <1>3, <1>4 DEF OnTheWay
<1>8. /\ dev[l].st = "open" /\ v.rid = dev[l].rid /\ v.op = dev[l].op
      /\ v.st \in {"open", "closed"} /\ v.n = dev[l].n /\ v.asked = dev[l].asked
      /\ p.arg0 = dev[l].rid
      /\ dev' = [dev EXCEPT ![l] = v] /\ to_host' = Append(to_host, p)
  BY <1>1, <1>3, <1>4
<1>9. \A i \in DOMAIN to_dev' : to_dev'[i].arg0 = l =>
           to_dev'[i].cmd # "OPEN" /\ (to_dev'[i].cmd = "WRTE" => v.op # Shell /\ ~v.asked)
  BY <1>1, <1>3
<1>10. OpenSends(l, v, p)
  BY <1>1, <1>3, <1>4 DEF OpenSends
<1> QED BY <1>4, <1>5, <1>6, <1>7, <1>8, <1>9, <1>10, OpenStep

LEMMA DDevSend ==
  ASSUME DInv, IInv', NEW l \in Lids, DevSend(l)
  PROVE  DInv'
<1>1. PICK d, v, p : /\ d = dev[l] /\ v = [dev[l] EXCEPT !.n = @ + 1, !.credit = @ - 1]
                     /\ p = Msg("WRTE", dev[l].rid, l, <<l, dev[l].n + 1>>)
  OBVIOUS
<1>2. /\ d.st = "open" /\ d.n < Chunks /\ (d.op = Shell \/ d.asked)
      /\ dev' = [dev EXCEPT ![l] = v] /\ to_host' = Append(to_host, p)
      /\ UNCHANGED <<th, store, local_id, received, to_dev, lossy>>
  BY <1>1 DEF DevSend, DevCanSend, devRest, ioVars
<1>3. /\ \A i \in DOMAIN to_dev : to_dev[i].arg0 = l =>
           to_dev[i].cmd # "OPEN" /\ (to_dev[i].cmd = "WRTE" => d.op # Shell /\ ~d.asked)
      /\ \A f \in C(l) : f \in Stored /\ f.cmd # "CLSE" /\ OnTheWay(l, d, f)
      /\ Ends(l, d, received[l], lossy)
      /\ Last(received[l]) \in Nat /\ d.n \in Nat /\ d \in DevStream
  BY <1>1, <1>2, OpenFacts
<1>4. /\ v.st = d.st /\ v.rid = d.rid /\ v.op = d.op /\ v.n = d.n + 1 /\ v.asked = d.asked
  BY <1>1, <1>3 DEF DevStream
<1>5. /\ p \in Packet /\ p.arg0 = d.rid /\ p.arg1 = l /\ Body(p) = Wrte(l, d.n + 1)
      /\ Body(p).cmd = "WRTE" /\ Body(p).data = <<l, d.n + 1>> /\ Body(p) \in Stored
  <2>1. <<l, d.n + 1>> \in Data /\ d.rid \in Nat /\ l \in Nat
    BY <1>2, <1>3, StreamsAssumption DEF Data, DevStream, Lids
  <2>2. p \in Packet
    BY <1>1, <2>1 DEF Msg, Packet
  <2> QED BY <1>1, <2>2, BodyIsStored DEF Msg, Body, Wrte
<1>6. \A f \in C(l) : Before(f, Body(p))
  <2> SUFFICES ASSUME NEW f \in C(l) PROVE Before(f, Body(p))
    OBVIOUS
  <2>1. f \in Stored /\ f.cmd \in {"OKAY", "WRTE"}
    BY <1>3, StoredFacts
  <2>2. f.cmd = "WRTE" => f.data[2] <= d.n /\ f.data[2] \in Nat
    BY <1>3, StoredFacts, StreamsAssumption DEF OnTheWay
  <2>3. f.cmd = "WRTE" => f.data[2] < Body(p).data[2]
    BY <1>3, <1>5, <2>2
  <2> QED BY <1>5, <2>1, <2>3, BeforeFacts
<1>7. Ends(l, v, received[l], lossy)
  BY <1>2, <1>3, <1>4 DEF Ends
<1>8. OnTheWay(l, v, Body(p))
  BY <1>3, <1>4, <1>5 DEF OnTheWay
<1>9. \A i, j \in DOMAIN to_dev' : Clash(to_dev'[i], to_dev'[j]) => i = j
  BY <1>2 DEF DInv, RequestsOK
<1>10. /\ \A i \in DOMAIN to_dev' : \E j \in DOMAIN to_dev : to_dev'[i] = to_dev[j]
       /\ \A i \in DOMAIN to_dev' : to_dev'[i].arg0 = l =>
           to_dev'[i].cmd # "OPEN" /\ (to_dev'[i].cmd = "WRTE" => v.op # Shell /\ ~v.asked)
  BY <1>2, <1>3, <1>4
<1>11. /\ dev[l].st = "open" /\ v.rid = dev[l].rid /\ v.op = dev[l].op
       /\ v.st \in {"open", "closed"} /\ v.n = dev[l].n + 1 /\ v.asked = dev[l].asked
       /\ p.arg0 = dev[l].rid /\ Body(p) = Wrte(l, dev[l].n + 1)
  BY <1>1, <1>2, <1>4, <1>5
<1>12. UNCHANGED <<th, store, local_id, received, lossy>>
  BY <1>2
<1>13. OpenSends(l, v, p)
  BY <1>11 DEF OpenSends
<1>14. dev' = [dev EXCEPT ![l] = v] /\ to_host' = Append(to_host, p) /\ p.arg1 = l /\ p \in Packet
  BY <1>2, <1>5
<1> QED BY <1>6, <1>7, <1>8, <1>9, <1>10, <1>11, <1>12, <1>13, <1>14, OpenStep

LEMMA DDevClose ==
  ASSUME DInv, IInv', NEW l \in Lids, DevClose(l)
  PROVE  DInv'
<1>1. PICK d, v, p : /\ d = dev[l] /\ v = [dev[l] EXCEPT !.st = "closed"]
                     /\ p = Msg("CLSE", dev[l].rid, l, None)
  OBVIOUS
<1>2. /\ d.st = "open"
      /\ dev' = [dev EXCEPT ![l] = v] /\ to_host' = Append(to_host, p)
      /\ UNCHANGED <<th, store, local_id, received, to_dev, lossy>>
  BY <1>1 DEF DevClose, DevCanClose, Reply, devRest, ioVars
<1>3. \A i \in DOMAIN to_dev : to_dev[i].arg0 = l =>
           to_dev[i].cmd # "OPEN" /\ (to_dev[i].cmd = "WRTE" => d.op # Shell /\ ~d.asked)
  BY <1>1, <1>2, OpenFacts
<1>4. \A i, j \in DOMAIN to_dev' : Clash(to_dev'[i], to_dev'[j]) => i = j
  BY <1>2 DEF DInv, RequestsOK
<1>5. /\ \A i \in DOMAIN to_dev' : \E j \in DOMAIN to_dev : to_dev'[i] = to_dev[j]
      /\ \A i \in DOMAIN to_dev' : to_dev'[i].arg0 = l =>
           to_dev'[i].cmd # "OPEN" /\ (to_dev'[i].cmd = "WRTE" => d.op # Shell /\ ~d.asked)
  BY <1>2, <1>3
<1>6. /\ UNCHANGED <<th, store, local_id, received, lossy>>
      /\ dev' = [dev EXCEPT ![l] = [dev[l] EXCEPT !.st = "closed"]]
      /\ to_host' = Append(to_host, Msg("CLSE", dev[l].rid, l, None))
      /\ dev[l].st = "open"
  BY <1>1, <1>2
<1>7. \A i \in DOMAIN to_dev' : to_dev'[i].arg0 = l =>
           to_dev'[i].cmd # "OPEN" /\ (to_dev'[i].cmd = "WRTE" => dev[l].op # Shell /\ ~dev[l].asked)
  BY <1>1, <1>5
<1> QED BY <1>4, <1>5, <1>6, <1>7, OpenCloses

(* Nothing is sent, and no more than the credit of the stream changes.     *)
LEMMA StillStep ==
  ASSUME DInv, IInv', UNCHANGED <<th, store, local_id, received, to_host, lossy>>,
         NEW l \in Lids, NEW v, dev' = [dev EXCEPT ![l] = v],
         v = dev[l] \/ dev[l].st = "open",
         v.st = dev[l].st, v.rid = dev[l].rid, v.op = dev[l].op, v.n = dev[l].n,
         v.asked = dev[l].asked,
         \A i, j \in DOMAIN to_dev' : Clash(to_dev'[i], to_dev'[j]) => i = j,
         \A i \in DOMAIN to_dev' : \E j \in DOMAIN to_dev : to_dev'[i] = to_dev[j],
         \A i \in DOMAIN to_dev' : to_dev'[i].arg0 = l => to_dev'[i].cmd # "OPEN",
         l <= local_id, \A u \in Threads : th[u].pc = "open" => th[u].lid # l
  PROVE  DInv'
<1>1. PICK G : G = {}
  OBVIOUS
<1>2. {Body(x) : x \in G} = {} /\ DevSends(l, G)
  BY <1>1 DEF DevSends
<1>3. \A i \in DOMAIN to_dev' : to_dev'[i].arg0 = l =>
        /\ to_dev'[i].cmd # "OPEN"
        /\ to_dev'[i].cmd = "WRTE" /\ v.st # "gone" => v.st # "none" /\ v.op # Shell /\ ~v.asked
  <2>1. \A i \in DOMAIN to_dev' : Request(to_dev'[i])
    BY DEF DInv, RequestsOK
  <2> QED BY <2>1 DEF Request
<1>4. Ends(l, v, received[l], lossy) /\ \A f \in C(l) : OnTheWay(l, v, f)
  BY DEF DInv, PipesOK, Ends, OnTheWay
<1>5. ASSUME NEW u \in Threads, th[u].lid = l
      PROVE  /\ Commanded(th[u], v, Last(received[l]), lossy)
             /\ Live(th[u], v) =>
                  Served(th[u], v, Last(received[l]), C(l) \cup {Body(x) : x \in G}, Queue(l), lossy)
  <2> DEFINE x == th[u]
             d == dev[l]
             r == Last(received[l])
             c == C(l)
             q == Queue(l)
  <2>1. /\ Commanded(x, d, r, lossy) /\ (Live(x, d) => Served(x, d, r, c, q, lossy))
        /\ v.st = d.st /\ v.rid = d.rid /\ v.op = d.op /\ v.n = d.n /\ v.asked = d.asked
    BY <1>5, ReaderFacts
  <2> HIDE DEF x, d, r, c, q
  <2>2. Commanded(x, v, r, lossy)
    BY <2>1 DEF Commanded
  <2>3. Live(x, v) => Served(x, v, r, c, q, lossy)
    BY <2>1 DEF Live, Served
  <2>4. c \cup {Body(p) : p \in G} = c
    BY <1>2
  <2> QED BY <2>2, <2>3, <2>4 DEF x, d, r, c, q
<1>6. /\ \A p \in G : \/ v.st \in {"open", "closed"} /\ p.arg0 = v.rid
                      \/ v.st = "none" /\ p.arg0 = 0 /\ p.cmd = "CLSE"
      /\ \A p \in G : OnTheWay(l, v, Body(p))
      /\ \A f \in C(l), p \in G : Before(f, Body(p))
  BY <1>1
<1>7. /\ dev[l].st \in {"open", "closed"} => v.st \in {"open", "closed"} /\ v.rid = dev[l].rid
      /\ dev[l].st = "none" => v.st = "none" \/ C(l) = {}
      /\ dev[l].st = "gone" => v = dev[l]
  OBVIOUS
<1> QED BY <1>2, <1>3, <1>4, <1>5, <1>6, <1>7, DevStep

LEMMA DDevHandle ==
  ASSUME DInv, IInv', NEW m, m = Head(to_dev), to_dev # <<>>, to_dev' = Tail(to_dev),
         DevHandle(m), UNCHANGED devRest
  PROVE  DInv'
<1>1. PICK l, d : l = m.arg0 /\ d = dev[l]
  OBVIOUS
<1>2. UNCHANGED <<th, store, local_id, received, lossy>>
  BY DEF devRest, ioVars
<1>3. /\ m \in HostPacket /\ l \in Lids /\ Request(m) /\ l <= local_id
      /\ \A u \in Threads : Sender(th[u], m)
      /\ \A u \in Threads : th[u].pc = "open" => th[u].lid # l
      /\ \A i, j \in DOMAIN to_dev' : Clash(to_dev'[i], to_dev'[j]) => i = j
      /\ \A i \in DOMAIN to_dev' : \E j \in DOMAIN to_dev : to_dev'[i] = to_dev[j]
      /\ \A i \in DOMAIN to_dev' : to_dev'[i].arg0 = l =>
           to_dev'[i].cmd # "OPEN" /\ (m.cmd = "WRTE" => to_dev'[i].cmd # "WRTE")
  BY <1>1, HeadFacts
<1>4. d \in DevStream /\ dev \in [Lids -> DevStream]
  BY <1>1, <1>3, Types DEF DInv
<1>5. /\ \A i \in DOMAIN to_dev' : to_dev'[i].arg0 = l => to_dev'[i].cmd # "OPEN"
      /\ \A i \in DOMAIN to_dev' : to_dev'[i].arg0 = l /\ m.cmd = "WRTE" => to_dev'[i].cmd # "WRTE"
  BY <1>3
<1>6. CASE UNCHANGED <<dev, to_host>>
  <2>1. dev' = [dev EXCEPT ![l] = dev[l]] /\ to_host' = to_host
    BY <1>3, <1>4, <1>6
  <2> QED BY <1>2, <1>3, <1>5, <2>1, StillStep
<1>7. CASE d.st = "open" /\ d.rid = m.arg1 /\ m.cmd = "OKAY"
  <2>1. PICK v : v = [dev[l] EXCEPT !.credit = IF @ < Window THEN @ + 1 ELSE @]
    OBVIOUS
  <2>2. dev' = [dev EXCEPT ![l] = v] /\ to_host' = to_host
    BY <1>1, <1>7, <2>1 DEF DevHandle
  <2>3. /\ v.st = dev[l].st /\ v.rid = dev[l].rid /\ v.op = dev[l].op /\ v.n = dev[l].n
        /\ v.asked = dev[l].asked /\ dev[l].st = "open"
    BY <1>1, <1>4, <1>7, <2>1 DEF DevStream
  <2> QED BY <1>2, <1>3, <1>5, <2>2, <2>3, StillStep
<1>8. CASE d.st = "open" /\ d.rid = m.arg1 /\ m.cmd = "WRTE"
  <2>1. PICK v, p : v = [dev[l] EXCEPT !.asked = TRUE] /\ p = Msg("OKAY", d.rid, l, None)
    OBVIOUS
  <2>2. dev' = [dev EXCEPT ![l] = v] /\ to_host' = Append(to_host, p)
    BY <1>1, <1>8, <2>1 DEF DevHandle, Reply
  <2>3. v.st = "open" /\ v.rid = d.rid /\ v.op = d.op /\ v.n = d.n /\ v.asked = TRUE
    BY <1>1, <1>4, <1>8, <2>1 DEF DevStream
  <2>4. /\ \A f \in C(l) : f \in Stored /\ f.cmd # "CLSE" /\ OnTheWay(l, d, f)
        /\ Ends(l, d, received[l], lossy) /\ d.n \in Nat
    BY <1>1, <1>3, <1>8, OpenFacts
  <2>5. d.op # Shell /\ ~d.asked /\ d.n = 0
    BY <1>1, <1>3, <1>8, <2>4 DEF Request, Ends
  <2>6. /\ p \in Packet /\ p.arg0 = d.rid /\ p.arg1 = l /\ Body(p) = Ok /\ Body(p).cmd = "OKAY"
        /\ Body(p) \in Stored
    <3>1. d.rid \in Nat /\ l \in Lids
      BY <1>3, <1>4 DEF DevStream
    <3>2. p \in Packet
      BY <2>1, <3>1 DEF Msg, Packet
    <3> QED BY <2>1, <3>2, BodyIsStored DEF Msg, Body, Ok
  <2>7. \A f \in C(l) : Before(f, Body(p))
    <3> SUFFICES ASSUME NEW f \in C(l) PROVE Before(f, Body(p))
      OBVIOUS
    <3>1. f.cmd # "WRTE"
      <4> SUFFICES ASSUME f.cmd = "WRTE" PROVE FALSE
        OBVIOUS
      <4>1. f.data[2] <= 0 /\ f.data[2] \in 1 .. Chunks
        BY <2>4, <2>5, StoredFacts DEF OnTheWay
      <4> QED BY <4>1, StreamsAssumption
    <3>2. f \in Stored /\ f.cmd = "OKAY"
      BY <2>4, <3>1, StoredFacts
    <3> QED BY <2>6, <3>2, BeforeFacts
  <2>8. Ends(l, v, received[l], lossy) /\ OnTheWay(l, v, Body(p))
    BY <2>3, <2>4, <2>5, <2>6 DEF Ends, OnTheWay
  <2>9. \A u \in Threads : th[u].lid = l => th[u].ctx # "open" /\ th[u].pc # "request"
    BY <1>1, <1>3, <1>8 DEF Sender
  <2>10. OpenSends(l, v, p)
    BY <1>1, <2>3, <2>6, <2>9 DEF OpenSends
  <2>11. \A i \in DOMAIN to_dev' : to_dev'[i].arg0 = l =>
           to_dev'[i].cmd # "OPEN" /\ (to_dev'[i].cmd = "WRTE" => v.op # Shell /\ ~v.asked)
    BY <1>5, <1>8
  <2>12. /\ dev[l].st = "open" /\ v.rid = dev[l].rid /\ v.op = dev[l].op
         /\ v.st \in {"open", "closed"} /\ p.arg0 = dev[l].rid
    BY <1>1, <1>8, <2>3, <2>6
  <2> QED BY <1>2, <1>3, <2>2, <2>6, <2>7, <2>8, <2>10, <2>11, <2>12, OpenStep
<1>9. CASE d.st = "open" /\ d.rid = m.arg1 /\ m.cmd = "CLSE"
  <2>1. /\ dev' = [dev EXCEPT ![l] = [dev[l] EXCEPT !.st = "closed"]]
        /\ to_host' = Append(to_host, Msg("CLSE", dev[l].rid, l, None))
        /\ dev[l].st = "open"
    BY <1>1, <1>9 DEF DevHandle, Reply
  <2>2. \A i \in DOMAIN to_dev' : to_dev'[i].arg0 = l =>
           to_dev'[i].cmd # "OPEN" /\ (to_dev'[i].cmd = "WRTE" => dev[l].op # Shell /\ ~dev[l].asked)
    <3>1. \A j \in DOMAIN to_dev : to_dev[j].arg0 = l =>
           to_dev[j].cmd # "OPEN" /\ (to_dev[j].cmd = "WRTE" => dev[l].op # Shell /\ ~dev[l].asked)
      BY <1>3, <2>1, OpenFacts
    <3> QED BY <1>3, <3>1
  <2> QED BY <1>2, <1>3, <2>1, <2>2, OpenCloses
<1>10. m.cmd \in {"OKAY", "WRTE", "CLSE"}
  BY <1>3 DEF DevHandle, HostPacket
<1> QED BY <1>1, <1>6, <1>7, <1>8, <1>9, <1>10 DEF DevHandle

(* The device accepts or refuses a stream that it was asked for.           *)
LEMMA DDevOpen ==
  ASSUME DInv, IInv', NEW m, m = Head(to_dev), to_dev # <<>>, to_dev' = Tail(to_dev),
         DevOpen(m), UNCHANGED devRest
  PROVE  DInv'
<1>1. PICK l, d : l = m.arg0 /\ d = dev[l]
  OBVIOUS
<1>2. UNCHANGED <<th, store, local_id, received, lossy>>
  BY DEF devRest, ioVars
<1>3. /\ m \in HostPacket /\ l \in Lids /\ Request(m) /\ l <= local_id /\ m.cmd = "OPEN"
      /\ \A u \in Threads : Sender(th[u], m)
      /\ \A u \in Threads : th[u].pc = "open" => th[u].lid # l
      /\ \A i, j \in DOMAIN to_dev' : Clash(to_dev'[i], to_dev'[j]) => i = j
      /\ \A i \in DOMAIN to_dev' : \E j \in DOMAIN to_dev : to_dev'[i] = to_dev[j]
      /\ \A i \in DOMAIN to_dev' : to_dev'[i].arg0 # l
  BY <1>1, HeadFacts DEF DevOpen
<1>4. /\ d \in DevStream /\ dev \in [Lids -> DevStream] /\ dev_id \in Nat
      /\ received[l] \in Seq(Data)
  BY <1>1, <1>3, Types DEF DInv
<1>5. d.st = "none" /\ C(l) = {}
  BY <1>1, <1>3 DEF Request, Untouched
<1>6. Ends(l, d, received[l], lossy) /\ d.n = 0 /\ ~d.asked /\ Last(received[l]) = 0
  <2>1. Ends(l, d, received[l], lossy)
    BY <1>1, <1>3 DEF DInv, PipesOK
  <2>2. d.n = 0 /\ ~d.asked /\ Last(received[l]) <= 0 /\ Last(received[l]) \in Nat
    BY <1>4, <1>5, <2>1, LastFacts DEF Ends
  <2> QED BY <2>1, <2>2
<1>7. /\ \A i \in DOMAIN to_dev' : to_dev'[i].arg0 = l => FALSE
      /\ dev[l].st = "none"
  BY <1>1, <1>3, <1>5
<1>8. \A u \in Threads : th[u].lid = l =>
        /\ th[u].ctx = "open" /\ th[u].op = m.data /\ th[u].rid = None
        /\ th[u].pc \notin {"open", "request", "okay", "reclose"}
        /\ Commanded(th[u], d, 0, lossy)
        /\ Live(th[u], d) /\ th[u].pc \in {"wire", "dispatch"} => Queue(l) = <<>>
  <2> SUFFICES ASSUME NEW u \in Threads, th[u].lid = l
               PROVE  /\ th[u].ctx = "open" /\ th[u].op = m.data /\ th[u].rid = None
                      /\ th[u].pc \notin {"open", "request", "okay", "reclose"}
                      /\ Commanded(th[u], d, 0, lossy)
                      /\ Live(th[u], d) /\ th[u].pc \in {"wire", "dispatch"} => Queue(l) = <<>>
    OBVIOUS
  <2>1. th[u].ctx = "open" /\ th[u].op = m.data /\ th[u].pc # "open"
    BY <1>1, <1>3 DEF Sender
  <2>2. Commanded(th[u], d, 0, lossy)
    BY <1>1, <1>6, ReaderFacts
  <2>3. Live(th[u], d) /\ th[u].pc \in {"wire", "dispatch"} => Queue(l) = <<>>
    BY <1>1, ReaderFacts DEF Served
  <2>4. th[u].rid = None /\ th[u].pc \notin {"request", "okay", "reclose"}
    BY <2>1, <2>2 DEF Commanded
  <2> QED BY <2>1, <2>2, <2>3, <2>4
<1>9. ASSUME NEW p \in Packet, p.arg1 = l, to_host' = Append(to_host, p),
             NEW v, dev' = [dev EXCEPT ![l] = v], v.n = 0, ~v.asked,
             \/ v.st = "open" /\ v.op = m.data /\ Body(p) = Ok /\ p.arg0 = v.rid
             \/ v = d /\ p.arg0 = 0 /\ p.cmd = "CLSE"
      PROVE  DInv'
  <2>1. PICK G : G = {p}
    OBVIOUS
  <2>2. {Body(x) : x \in G} = {Body(p)} /\ DevSends(l, G)
    BY <1>9, <2>1 DEF DevSends
  <2>3. /\ v.st = "open" \/ v.st = "none"
        /\ v.st = "open" => v.op = m.data /\ Body(p) = Ok /\ p.arg0 = v.rid
        /\ v.st = "none" => p.arg0 = 0 /\ p.cmd = "CLSE" /\ v = d
        /\ Body(p).cmd = "CLSE" \/ Body(p).cmd = "OKAY"
    <3>1. Body(p).cmd = p.cmd /\ Ok.cmd = "OKAY"
      BY BodyIsStored DEF Ok
    <3> QED BY <1>5, <1>9, <3>1
  <2>4. Ends(l, v, received[l], lossy)
    BY <1>6, <1>9 DEF Ends
  <2>5. /\ \A x \in G : \/ v.st \in {"open", "closed"} /\ x.arg0 = v.rid
                        \/ v.st = "none" /\ x.arg0 = 0 /\ x.cmd = "CLSE"
        /\ \A x \in G : OnTheWay(l, v, Body(x))
    <3>1. Ok.cmd = "OKAY"
      BY DEF Ok
    <3>2. OnTheWay(l, v, Body(p))
      BY <2>3, <3>1 DEF OnTheWay
    <3> QED BY <2>1, <2>3, <3>2
  <2>6. ASSUME NEW u \in Threads, th[u].lid = l
        PROVE  /\ Commanded(th[u], v, Last(received[l]), lossy)
               /\ Live(th[u], v) =>
                    Served(th[u], v, Last(received[l]), C(l) \cup {Body(x) : x \in G}, Queue(l), lossy)
    <3> DEFINE x == th[u]
               q == Queue(l)
    <3>1. /\ x.ctx = "open" /\ x.op = m.data /\ x.rid = None
          /\ x.pc \notin {"open", "request", "okay", "reclose"}
          /\ Commanded(x, d, 0, lossy)
          /\ Live(x, d) /\ x.pc \in {"wire", "dispatch"} => q = <<>>
      BY <1>8, <2>6
    <3> HIDE DEF x, q
    <3>2. Commanded(x, v, 0, lossy)
      BY <3>1 DEF Commanded
    <3>3. Live(x, v) => Served(x, v, 0, {Body(p)}, q, lossy)
      <4> SUFFICES ASSUME Live(x, v) PROVE Served(x, v, 0, {Body(p)}, q, lossy)
        OBVIOUS
      <4>1. Pos(x, 0) = 0
        BY <3>1 DEF Pos
      <4>2. Live(x, d)
        BY <1>5 DEF Live
      <4>3. \A j : j \notin 0 + 1 .. v.n
        BY <1>9
      <4>4. \A e \in {Body(p)} : e.cmd # "WRTE"
        BY <2>3
      <4>5. v.st # "none" => x.op = v.op /\ Ok \in {Body(p)}
        BY <2>3, <3>1
      <4>6. x.pc \in {"wire", "dispatch"} => q = <<>>
        BY <3>1, <4>2
      <4> QED BY <1>9, <3>1, <4>1, <4>3, <4>4, <4>5, <4>6 DEF Served
    <3>4. C(l) \cup {Body(y) : y \in G} = {Body(p)}
      BY <1>5, <2>2
    <3> QED BY <1>6, <3>2, <3>3, <3>4 DEF x, q
  <2>7. /\ \A e \in C(l) : OnTheWay(l, v, e)
        /\ \A e \in C(l), x \in G : Before(e, Body(x))
        /\ dev[l].st = "none" => v.st = "none" \/ C(l) = {}
        /\ dev[l].st \notin {"open", "closed", "gone"}
    BY <1>5, <1>7
  <2>8. \A i \in DOMAIN to_dev' : to_dev'[i].arg0 = l =>
           /\ to_dev'[i].cmd # "OPEN"
           /\ to_dev'[i].cmd = "WRTE" /\ v.st # "gone" =>
                v.st # "none" /\ v.op # Shell /\ ~v.asked
    BY <1>7
  <2> QED BY <1>2, <1>3, <1>9, <2>2, <2>4, <2>5, <2>6, <2>7, <2>8, DevStep
<1>10. CASE /\ dev' = [dev EXCEPT ![l] = [st |-> "open", rid |-> dev_id + 1, op |-> m.data,
                                           credit |-> Window, n |-> 0, asked |-> FALSE]]
            /\ Reply("OKAY", l, dev_id + 1)
  <2>1. PICK p, v : /\ p = Msg("OKAY", dev_id + 1, l, None)
                    /\ v = [st |-> "open", rid |-> dev_id + 1, op |-> m.data,
                            credit |-> Window, n |-> 0, asked |-> FALSE]
    OBVIOUS
  <2>2. p \in Packet /\ p.arg1 = l /\ p.arg0 = v.rid /\ Body(p) = Ok
    BY <1>3, <1>4, <2>1 DEF Msg, Packet, Body, Ok
  <2>3. v.n = 0 /\ ~v.asked /\ v.st = "open" /\ v.op = m.data
    BY <2>1
  <2>4. to_host' = Append(to_host, p) /\ dev' = [dev EXCEPT ![l] = v]
    BY <1>10, <2>1 DEF Reply
  <2> QED BY <1>9, <2>2, <2>3, <2>4
<1>11. CASE Reply("CLSE", l, 0) /\ UNCHANGED devVars
  <2>1. PICK p : p = Msg("CLSE", 0, l, None)
    OBVIOUS
  <2>2. p \in Packet /\ p.arg1 = l /\ p.arg0 = 0 /\ p.cmd = "CLSE"
    BY <1>3, <2>1 DEF Msg, Packet
  <2>3. to_host' = Append(to_host, p) /\ dev' = [dev EXCEPT ![l] = d]
    BY <1>1, <1>4, <1>11, <2>1 DEF Reply, devVars
  <2> QED BY <1>6, <1>9, <2>2, <2>3
<1> QED BY <1>1, <1>10, <1>11 DEF DevOpen

LEMMA DDevReceive ==
  ASSUME DInv, IInv', DevReceive
  PROVE  DInv'
BY DDevOpen, DDevHandle DEF DevReceive

-----------------------------------------------------------------------------
(* close and connect.                                                      *)

LEMMA DDrop ==
  ASSUME DInv, IInv', NEW t \in Threads, NEW y, th' = [th EXCEPT ![t] = y],
         y.lid = 0, y.ctx = None, ~y.failing, y.pc \in {"idle", "connected"},
         transport_lock = None, DropConnection, store' = EmptyStore,
         UNCHANGED <<local_id, received, lossy>>
  PROVE  DInv'
<1>1. /\ th'[t] = y /\ \A u \in Threads \ {t} : th'[u] = th[u]
      /\ dev \in [Lids -> DevStream] /\ to_host' = <<>> /\ to_dev' = <<>>
      /\ IInv
  BY Types DEF DInv, DropConnection
<1>2. \A u \in Threads : th'[u].pc # "dispatch"
  <2>1. \A u \in Threads : th[u].pc # "dispatch"
    BY StreamsAssumption DEF DInv, IInv, LockHeldByReader
  <2> QED BY <1>1, <2>1
<1>3. ASSUME NEW l \in Lids
      PROVE  IF dev[l].st = "none" THEN dev'[l] = dev[l]
             ELSE /\ dev'[l].st = "gone" /\ dev'[l].op = dev[l].op /\ dev'[l].n = dev[l].n
                  /\ dev'[l].asked = dev[l].asked
  <2>1. dev'[l] = IF dev[l].st = "none" THEN dev[l] ELSE [dev[l] EXCEPT !.st = "gone"]
    BY DEF DropConnection
  <2>2. dev[l] \in DevStream
    BY <1>1
  <2> QED BY <2>1, <2>2 DEF DevStream
<1>4. \A l : Queue(l)' = <<>> /\ Hand(l)' = {} /\ C(l)' = {}
  <2> SUFFICES ASSUME NEW l PROVE Queue(l)' = <<>> /\ Hand(l)' = {} /\ C(l)' = {}
    OBVIOUS
  <2>1. Queue(l)' = <<>>
    BY DEF Queue, QueueOf, EmptyStore
  <2>2. Hand(l)' = {}
    BY <1>2 DEF Hand
  <2>3. Contents(<<>>, {}, <<>>, l) = {}
    BY NothingThere DEF Mine
  <2> QED BY <1>1, <2>1, <2>2, <2>3 DEF C
<1>5. LidsOK'
  BY LidsStep
<1>6. \A l \in Lids : Untouched(l) => Untouched(l)'
  BY <1>3, <1>4 DEF Untouched
<1>7. FreshOK'
  <2>1. \A l \in Lids : l > local_id' => Untouched(l)'
    BY <1>6 DEF DInv, FreshOK
  <2>2. ASSUME NEW u \in Threads, th'[u].pc = "open" PROVE Untouched(th[u].lid)'
    <3>1. th'[u] = th[u] /\ Untouched(th[u].lid)
      BY <1>1, <2>2 DEF DInv, FreshOK
    <3>2. th[u].lid \in Lids
      BY <2>2, <3>1, ReaderFacts DEF ThreadOK, Sending
    <3>3. dev'[th[u].lid].st = "none"
      BY <1>3, <3>1, <3>2 DEF Untouched
    <3> QED BY <1>4, <3>1, <3>3 DEF Untouched
  <2> QED BY <2>1, <2>2 DEF FreshOK
<1>8. OriginOK'
  BY <1>1, <1>2 DEF OriginOK, EmptyStore
<1>9. RequestsOK'
  BY <1>1 DEF RequestsOK
<1>10. PipesOK'
  <2> SUFFICES ASSUME NEW l \in Lids
               PROVE  /\ Ends(l, dev'[l], received'[l], lossy)
                      /\ Ordered(Queue(l)', Hand(l)', to_host', l)
                      /\ \A e \in C(l)' : OnTheWay(l, dev'[l], e)
    BY DEF PipesOK, Ends, OnTheWay, Ordered
  <2>1. Ends(l, dev[l], received[l], lossy)
    BY DEF DInv, PipesOK
  <2>2. Ends(l, dev'[l], received'[l], lossy)
    BY <1>3, <2>1 DEF Ends
  <2>3. Ordered(<<>>, {}, <<>>, l)
    BY DEF Ordered, Mine
  <2> QED BY <1>1, <1>4, <2>2, <2>3
<1>11. ReadersOK'
  <2> SUFFICES ASSUME NEW u \in Threads PROVE ReaderOK(th[u])'
    BY DEF ReadersOK
  <2>1. PICK x, m : x = th'[u] /\ m = x.lid
    OBVIOUS
  <2>2. None \notin Calls
    BY StreamsAssumption
  <2>3. CASE x.ctx = None /\ x.lid = 0 /\ ~x.failing /\ x.pc \in {"idle", "close", "connect", "connected"}
    <3>1. /\ Commanded(x, dev'[m], Last(received'[m]), lossy) /\ ~Live(x, dev'[m])
      BY <2>1, <2>2, <2>3 DEF Commanded, Live, Calls
    <3> QED BY <2>1, <3>1 DEF ReaderOK, Commanded, Live
  <2>4. CASE u # t /\ m \in Lids
    <3> DEFINE d == dev[m]
               e == dev'[m]
               r == Last(received[m])
               c == C(m)
               q == Queue(m)
    <3>1. /\ Commanded(x, d, r, lossy) /\ (Live(x, d) => Served(x, d, r, c, q, lossy)) /\ r \in Nat
          /\ IF d.st = "none" THEN e = d
             ELSE e.st = "gone" /\ e.op = d.op /\ e.n = d.n /\ e.asked = d.asked
          /\ d.st = "none" => d.n = 0 /\ ~d.asked
      <4>1. x = th[u]
        BY <1>1, <2>1, <2>4
      <4>2. received[m] \in Seq(Data) /\ Ends(m, d, received[m], lossy)
        BY <1>1, <2>4, Types DEF DInv, PipesOK
      <4>3. r \in Nat
        BY <4>2, LastFacts
      <4>4. d.st = "none" => d.n = 0 /\ ~d.asked
        BY <4>2 DEF Ends
      <4> QED BY <1>3, <2>1, <2>4, <4>1, <4>3, <4>4, ReaderFacts
    <3> HIDE DEF d, e, r, c, q
    <3>2. Commanded(x, e, r, lossy)
      BY <3>1 DEF Commanded
    <3>3. Live(x, e) => Served(x, e, r, {}, <<>>, lossy)
      <4> SUFFICES ASSUME Live(x, e) PROVE Served(x, e, r, {}, <<>>, lossy)
        OBVIOUS
      <4>1. d.st = "none" /\ e = d /\ d.n = 0 /\ ~d.asked
        BY <3>1 DEF Live
      <4>2. x.pc # "okay"
        BY <3>1, <4>1 DEF Commanded
      <4>3. Pos(x, r) = r
        BY <4>2 DEF Pos
      <4>4. \A j : j \notin Pos(x, r) + 1 .. 0
        BY <3>1, <4>3
      <4> QED BY <4>1, <4>4 DEF Served
    <3>4. Last(received'[m]) = r /\ C(m)' = {} /\ Queue(m)' = <<>> /\ dev'[m] = e
      BY <1>4 DEF r, e
    <3>5. /\ Commanded(x, dev'[m], Last(received'[m]), lossy)
          /\ Live(x, dev'[m]) => Served(x, dev'[m], Last(received'[m]), {}, <<>>, lossy)
      BY <3>2, <3>3, <3>4
    <3>6. C(th[u].lid)' = {} /\ Queue(th[u].lid)' = <<>>
      BY <1>4
    <3> QED BY <2>1, <3>5, <3>6 DEF ReaderOK, Commanded, Live, Served, Pos
  <2>5. u = t \/ m \in Lids \/ (x.ctx = None /\ x.lid = 0 /\ ~x.failing /\ x.pc \in {"idle", "close", "connect", "connected"})
    <3> SUFFICES ASSUME u # t, m \notin Lids
                 PROVE  x.ctx = None /\ x.lid = 0 /\ ~x.failing /\ x.pc \in {"idle", "close", "connect", "connected"}
      OBVIOUS
    <3>1. x = th[u]
      BY <1>1, <2>1
    <3>2. x.ctx = None /\ x.lid = 0 /\ x.pc \in {"idle", "close", "connect", "connected"}
      BY <2>1, <3>1, ReaderFacts DEF Thread, ThreadOK, Commanded
    <3> QED BY <2>2, <3>1, <3>2, ReaderFacts DEF Commanded, Calls
  <2>6. u = t => x.ctx = None /\ x.lid = 0 /\ ~x.failing /\ x.pc \in {"idle", "close", "connect", "connected"}
    BY <1>1, <2>1
  <2> QED BY <2>3, <2>4, <2>5, <2>6
<1> QED BY <1>5, <1>7, <1>8, <1>9, <1>10, <1>11 DEF DInv

LEMMA DCloseTransport ==
  ASSUME DInv, IInv', NEW t \in Threads, CloseTransport(t)
  PROVE  DInv'
<1>1. PICK y : y = IdleThread
  OBVIOUS
<1>2. y.lid = 0 /\ y.ctx = None /\ ~y.failing /\ y.pc \in {"idle", "connected"}
  BY <1>1 DEF IdleThread
<1>3. /\ th' = [th EXCEPT ![t] = y] /\ transport_lock = None /\ DropConnection
      /\ store' = EmptyStore /\ UNCHANGED <<local_id, received, lossy>>
  BY <1>1 DEF CloseTransport
<1> QED BY <1>2, <1>3, DDrop

LEMMA DConnectTransport ==
  ASSUME DInv, IInv', NEW t \in Threads, ConnectTransport(t)
  PROVE  DInv'
<1>1. PICK y : y \in {IdleThread, [th[t] EXCEPT !.pc = "connected"]} /\ th' = [th EXCEPT ![t] = y]
  BY DEF ConnectTransport, Reconnect
<1>2. /\ transport_lock = None /\ DropConnection /\ th[t].pc = "connect"
      /\ store' = EmptyStore /\ UNCHANGED <<local_id, received, lossy>>
  BY DEF ConnectTransport, Reconnect
<1>3. th[t].lid = 0 /\ th[t].ctx = None /\ ~th[t].failing
  BY <1>2, ReaderFacts, StreamsAssumption DEF Commanded, Calls
<1>4. y.lid = 0 /\ y.ctx = None /\ ~y.failing /\ y.pc \in {"idle", "connected"}
  <2>1. th[t] \in Thread
    BY ReaderFacts
  <2> QED BY <1>1, <1>3, <2>1 DEF IdleThread, Thread
<1> QED BY <1>1, <1>2, <1>4, DDrop

-----------------------------------------------------------------------------
(* The invariant.                                                          *)

LEMMA DInit == Init => DInv
<1> SUFFICES ASSUME Init PROVE DInv
  OBVIOUS
<1>1. IInv
  BY InitOK
<1>2. /\ \A t \in Threads : th[t] = IdleThread
      /\ \A l \in Lids : dev[l] = NoStream /\ received[l] = <<>>
      /\ to_host = <<>> /\ to_dev = <<>> /\ store = EmptyStore /\ local_id = 0
  BY DEF Init
<1>3. IdleThread.lid = 0 /\ IdleThread.pc = "idle"
  BY DEF IdleThread
<1>4. \A l : Queue(l) = <<>> /\ Hand(l) = {} /\ C(l) = {}
  <2> SUFFICES ASSUME NEW l PROVE Queue(l) = <<>> /\ Hand(l) = {} /\ C(l) = {}
    OBVIOUS
  <2>1. Queue(l) = <<>>
    BY <1>2 DEF Queue, QueueOf, EmptyStore
  <2>2. Hand(l) = {}
    BY <1>2, <1>3 DEF Hand
  <2>3. Contents(<<>>, {}, <<>>, l) = {}
    BY NothingThere DEF Mine
  <2> QED BY <1>2, <2>1, <2>2, <2>3 DEF C
<1>5. LidsOK
  BY <1>2, <1>3 DEF LidsOK
<1>6. FreshOK
  BY <1>2, <1>3, <1>4 DEF FreshOK, Untouched, NoStream
<1>7. OriginOK
  BY <1>2, <1>3 DEF OriginOK, EmptyStore
<1>8. RequestsOK
  BY <1>2 DEF RequestsOK
<1>9. PipesOK
  <2> SUFFICES ASSUME NEW l \in Lids
               PROVE  /\ Ends(l, dev[l], received[l], lossy)
                      /\ Ordered(Queue(l), Hand(l), to_host, l)
                      /\ \A e \in C(l) : OnTheWay(l, dev[l], e)
    BY DEF PipesOK
  <2>1. Ends(l, NoStream, <<>>, lossy)
    BY LastFacts DEF Ends, Given, NoStream
  <2>2. Ordered(<<>>, {}, <<>>, l)
    BY DEF Ordered, Mine
  <2> QED BY <1>2, <1>4, <2>1, <2>2
<1>10. ReadersOK
  <2> SUFFICES ASSUME NEW t \in Threads PROVE ReaderOK(th[t])
    BY DEF ReadersOK
  <2> QED BY <1>2, IdleIsFine DEF ReaderOK
<1> QED BY <1>1, <1>5, <1>6, <1>7, <1>8, <1>9, <1>10 DEF DInv

LEMMA DStill == DInv /\ UNCHANGED vars => DInv'
<1> SUFFICES ASSUME DInv, UNCHANGED vars PROVE DInv'
  OBVIOUS
<1>1. UNCHANGED <<th, store, to_host, to_dev, dev, local_id, received, lossy>>
  BY DEF vars
<1>2. IInv'
  BY NextOK DEF DInv
<1>3. \A l : Queue(l)' = Queue(l) /\ Hand(l)' = Hand(l)
  BY <1>1 DEF Queue, Hand
<1>4. \A l : C(l)' = C(l)
  BY <1>1, <1>3 DEF C
<1>5. \A l : Untouched(l)' <=> Untouched(l)
  BY <1>1, <1>4 DEF Untouched
<1>6. LidsOK' /\ FreshOK' /\ OriginOK' /\ RequestsOK'
  <2>1. LidsOK'
    BY <1>1 DEF DInv, LidsOK
  <2>2. FreshOK'
    <3>1. ASSUME NEW u \in Threads, th'[u].pc = "open" PROVE Untouched(th[u].lid)'
      BY <1>1, <1>5, <3>1 DEF DInv, FreshOK
    <3> QED BY <1>1, <1>5, <3>1 DEF DInv, FreshOK
  <2>3. OriginOK'
    BY <1>1 DEF DInv, OriginOK, Origin, Current
  <2>4. RequestsOK'
    <3>1. \A i \in DOMAIN to_dev' : Request(to_dev[i])'
      BY <1>1, <1>5 DEF DInv, RequestsOK, Request
    <3>2. \A i \in DOMAIN to_dev', u \in Threads : Sender(th[u], to_dev[i])'
      BY <1>1 DEF DInv, RequestsOK, Sender
    <3> QED BY <1>1, <3>1, <3>2 DEF DInv, RequestsOK, Clash
  <2> QED BY <2>1, <2>2, <2>3, <2>4
<1>7. PipesOK'
  BY <1>1, <1>3, <1>4 DEF DInv, PipesOK, Ends, Ordered, OnTheWay
<1>8. ReadersOK'
  <2> SUFFICES ASSUME NEW u \in Threads PROVE ReaderOK(th[u])'
    BY DEF ReadersOK
  <2>1. ReaderOK(th[u])
    BY DEF DInv, ReadersOK
  <2>2. C(th[u].lid)' = C(th[u].lid) /\ Queue(th[u].lid)' = Queue(th[u].lid)
    BY <1>1, <1>3, <1>4
  <2>3. th'[u] = th[u] /\ dev' = dev /\ received' = received /\ lossy' = lossy
    BY <1>1
  <2> QED BY <2>1, <2>2, <2>3 DEF ReaderOK
<1> QED BY <1>2, <1>6, <1>7, <1>8 DEF DInv

LEMMA DNext == DInv /\ [Next]_vars => DInv'
<1> SUFFICES ASSUME DInv, [Next]_vars PROVE DInv'
  OBVIOUS
<1>1. IInv'
  BY NextOK DEF DInv
<1>2. CASE UNCHANGED vars
  BY <1>2, DStill
<1>3. CASE Device
  BY <1>1, <1>3, DDevReceive, DDevSend, DDevClose DEF Device
<1>4. ASSUME NEW t \in Threads, Run(t) PROVE DInv'
  <2>1. CASE ReadStore(t)
    BY <1>1, <2>1, DSearchStore DEF ReadStore
  <2>2. CASE RecheckStore(t)
    BY <1>1, <2>2, DSearchStore DEF RecheckStore
  <2> QED BY <1>1, <1>4, <2>1, <2>2, DLockTransport, DReadWire, DDispatch, DSend, DSendRaises,
             DReadRaises, DCheckTime, DLeaveStream, DCloseTransport, DConnectTransport,
             DSetAvailable DEF Run
<1>5. ASSUME NEW t \in Threads, Call(t) PROVE DInv'
  BY <1>1, <1>5, DStart, DCallReset DEF Call
<1> QED BY <1>2, <1>3, <1>4, <1>5 DEF Next, Resting

-----------------------------------------------------------------------------
(* The theorems.                                                           *)

LEMMA Delivery == Spec => []DInv
BY DInit, DNext, PTL DEF Spec

(* After a close() or a connect() the store, and the hand of whoever read  *)
(* the wire, hold nothing of an earlier connection: _AdbIOManager.connect  *)
(* and close empty the store under both locks, and packets are added with  *)
(* the transport lock held only.                                           *)
THEOREM StoreOfThisConnection == Spec => []StoreIsCurrent
<1>1. DInv => StoreIsCurrent
  <2> SUFFICES ASSUME DInv PROVE StoreIsCurrent
    OBVIOUS
  <2>1. \A k \in DOMAIN store : k[2] \in Lids /\ dev[k[2]].st # "gone"
    BY DEF DInv, OriginOK, Current
  <2>2. \A t \in Threads : th[t].pc = "dispatch" => dev[th[t].pkt.arg1].st # "gone"
    BY DEF DInv, OriginOK, Origin, Current
  <2> QED BY <2>1, <2>2 DEF StoreIsCurrent
<1> QED BY <1>1, Delivery, PTL

(* Where a chunk in transit to the reader t is.                            *)
LEMMA InTransitIs ==
  ASSUME NEW t \in Threads, NEW l, l = th[t].lid, NEW c
  PROVE  c \in InTransit(t) <=>
           \/ th[t].pc = "okay" /\ c = <<0, 0, th[t].pkt.data>>
           \/ \E i \in DOMAIN Queue(l) : Queue(l)[i].cmd = "WRTE" /\ c = <<1, i, Queue(l)[i].data>>
           \/ \E p \in Hand(l) : p.cmd = "WRTE" /\ c = <<2, 0, p.data>>
           \/ \E i \in Mine(to_host, l) : to_host[i].cmd = "WRTE" /\ c = <<3, i, to_host[i].data>>
<1> DEFINE A == {<<0, 0, th[t].pkt.data>> : x \in {y \in {t} : th[y].pc = "okay"}}
           B == {<<1, i, Queue(l)[i].data>> : i \in {j \in DOMAIN Queue(l) : Queue(l)[j].cmd = "WRTE"}}
           D == {<<2, 0, th[u].pkt.data>> :
                   u \in {x \in Threads : th[x].pc = "dispatch" /\ th[x].pkt.cmd = "WRTE" /\ th[x].pkt.arg1 = l}}
           E == {<<3, i, to_host[i].data>> :
                   i \in {j \in DOMAIN to_host : to_host[j].cmd = "WRTE" /\ to_host[j].arg1 = l}}
<1>1. InTransit(t) = A \cup B \cup D \cup E
  BY DEF InTransit, Queue
<1>2. c \in A <=> th[t].pc = "okay" /\ c = <<0, 0, th[t].pkt.data>>
  OBVIOUS
<1>3. c \in B <=> \E i \in DOMAIN Queue(l) : Queue(l)[i].cmd = "WRTE" /\ c = <<1, i, Queue(l)[i].data>>
  OBVIOUS
<1>4. c \in D <=> \E p \in Hand(l) : p.cmd = "WRTE" /\ c = <<2, 0, p.data>>
  BY DEF Hand
<1>5. c \in E <=> \E i \in Mine(to_host, l) : to_host[i].cmd = "WRTE" /\ c = <<3, i, to_host[i].data>>
  BY DEF Mine
<1> QED BY <1>1, <1>2, <1>3, <1>4, <1>5

(* All but the chunk in the reader's hand are among the contents of its    *)
(* stream, in their order.                                                 *)
LEMMA TransitInContents ==
  ASSUME IInv, NEW t \in Threads, NEW l, l = th[t].lid, NEW c \in InTransit(t)
  PROVE  \/ c[1] = 0 /\ c[2] = 0 /\ th[t].pc = "okay" /\ c[3] = th[t].pkt.data
         \/ /\ c[1] \in {1, 2, 3} /\ c[2] \in Nat /\ (c[1] = 2 => c[2] = 0)
            /\ \E e \in C(l) : e.cmd = "WRTE" /\ e.data = c[3]
<1>1. CASE th[t].pc = "okay" /\ c = <<0, 0, th[t].pkt.data>>
  BY <1>1
<1>2. ASSUME NEW i \in DOMAIN Queue(l), Queue(l)[i].cmd = "WRTE", c = <<1, i, Queue(l)[i].data>>
      PROVE  /\ c[1] = 1 /\ c[2] \in Nat
             /\ \E e \in C(l) : e.cmd = "WRTE" /\ e.data = c[3]
  <2>1. Queue(l)[i] \in C(l)
    BY DEF C, Contents
  <2>2. i \in Nat
    BY QueueIsTyped
  <2> QED BY <1>2, <2>1, <2>2
<1>3. ASSUME NEW p \in Hand(l), p.cmd = "WRTE", c = <<2, 0, p.data>>
      PROVE  /\ c[1] = 2 /\ c[2] = 0
             /\ \E e \in C(l) : e.cmd = "WRTE" /\ e.data = c[3]
  <2>1. Body(p) \in C(l)
    BY DEF C, Contents
  <2>2. Body(p).cmd = p.cmd /\ Body(p).data = p.data
    BY HandIsTyped, BodyIsStored
  <2> QED BY <1>3, <2>1, <2>2
<1>4. ASSUME NEW i \in Mine(to_host, l), to_host[i].cmd = "WRTE", c = <<3, i, to_host[i].data>>
      PROVE  /\ c[1] = 3 /\ c[2] \in Nat
             /\ \E e \in C(l) : e.cmd = "WRTE" /\ e.data = c[3]
  <2>1. Body(to_host[i]) \in C(l)
    BY DEF C, Contents
  <2>2. i \in Nat /\ to_host[i] \in Packet
    BY Types DEF Mine
  <2>3. Body(to_host[i]).cmd = to_host[i].cmd /\ Body(to_host[i]).data = to_host[i].data
    BY <2>2, BodyIsStored
  <2> QED BY <1>4, <2>1, <2>2, <2>3
<1> QED BY <1>1, <1>2, <1>3, <1>4, InTransitIs

LEMMA ContentsInTransit ==
  ASSUME IInv, NEW t \in Threads, NEW l, l = th[t].lid, NEW e \in C(l), e.cmd = "WRTE"
  PROVE  \E c \in InTransit(t) : c[3] = e.data
<1>1. CASE \E i \in DOMAIN Queue(l) : e = Queue(l)[i]
  <2>1. PICK i \in DOMAIN Queue(l) : e = Queue(l)[i]
    BY <1>1
  <2>2. <<1, i, e.data>> \in InTransit(t)
    BY <2>1, InTransitIs
  <2> QED BY <2>2
<1>2. CASE \E p \in Hand(l) : e = Body(p)
  <2>1. PICK p \in Hand(l) : e = Body(p)
    BY <1>2
  <2>2. e.cmd = p.cmd /\ e.data = p.data
    BY <2>1, HandIsTyped, BodyIsStored
  <2>3. <<2, 0, e.data>> \in InTransit(t)
    BY <2>1, <2>2, InTransitIs
  <2> QED BY <2>3
<1>3. CASE \E i \in Mine(to_host, l) : e = Body(to_host[i])
  <2>1. PICK i \in Mine(to_host, l) : e = Body(to_host[i])
    BY <1>3
  <2>2. to_host[i] \in Packet
    BY Types DEF Mine
  <2>3. e.cmd = to_host[i].cmd /\ e.data = to_host[i].data
    BY <2>1, <2>2, BodyIsStored
  <2>4. <<3, i, e.data>> \in InTransit(t)
    BY <2>1, <2>3, InTransitIs
  <2> QED BY <2>4
<1> QED BY <1>1, <1>2, <1>3 DEF C, Contents

(* Where one chunk is ahead of another, it is an earlier one.              *)
LEMMA AheadIsEarlier ==
  ASSUME IInv, NEW t \in Threads, NEW l, l = th[t].lid, Ordered(Queue(l), Hand(l), to_host, l),
         NEW a \in InTransit(t), NEW b \in InTransit(t), Ahead(a, b), a[1] # 0
  PROVE  a[3][2] < b[3][2]
<1> DEFINE q == Queue(l)
           H == Hand(l)
           w == to_host
<1>1. ASSUME NEW e \in Stored, NEW f \in Stored, e.cmd = "WRTE", f.cmd = "WRTE",
             e.data = a[3], f.data = b[3], Before(e, f)
      PROVE  a[3][2] < b[3][2]
  BY <1>1, BeforeFacts
<1>2. /\ \A i \in DOMAIN q : q[i] \in Stored /\ i \in Nat
      /\ \A p \in H : Body(p) \in Stored /\ Body(p).cmd = p.cmd /\ Body(p).data = p.data
      /\ \A i \in Mine(w, l) : /\ Body(w[i]) \in Stored /\ Body(w[i]).cmd = w[i].cmd
                               /\ Body(w[i]).data = w[i].data /\ i \in Nat
  <2>1. \A i \in Mine(w, l) : w[i] \in Packet /\ i \in Nat
    BY Types DEF Mine
  <2> QED BY <2>1, QueueIsTyped, HandIsTyped, BodyIsStored
<1>3. /\ \A i, j \in DOMAIN q : i < j => Before(q[i], q[j])
      /\ \A i \in DOMAIN q, p \in H : Before(q[i], Body(p))
      /\ \A i \in DOMAIN q, j \in Mine(w, l) : Before(q[i], Body(w[j]))
      /\ \A p \in H, j \in Mine(w, l) : Before(Body(p), Body(w[j]))
      /\ \A i, j \in Mine(w, l) : i < j => Before(Body(w[i]), Body(w[j]))
  BY DEF Ordered
<1>4. ASSUME NEW c \in InTransit(t), c[1] # 0
      PROVE  \/ \E i \in DOMAIN q : q[i].cmd = "WRTE" /\ c[1] = 1 /\ c[2] = i /\ c[3] = q[i].data
             \/ \E p \in H : p.cmd = "WRTE" /\ c[1] = 2 /\ c[2] = 0 /\ c[3] = p.data
             \/ \E i \in Mine(w, l) : w[i].cmd = "WRTE" /\ c[1] = 3 /\ c[2] = i /\ c[3] = w[i].data
  BY <1>4, InTransitIs
<1>5. /\ a[1] \in {1, 2, 3} /\ b[1] # 0 /\ (a[1] < b[1] \/ (a[1] = b[1] /\ a[2] < b[2]))
  <2>1. a[1] \in {1, 2, 3}
    BY <1>4
  <2>2. b[1] \in {0, 1, 2, 3}
    BY TransitInContents
  <2> QED BY <2>1, <2>2 DEF Ahead
<1> HIDE DEF q, H, w
<1>6. ASSUME NEW i \in DOMAIN q, q[i].cmd = "WRTE", a[1] = 1, a[2] = i, a[3] = q[i].data
      PROVE  a[3][2] < b[3][2]
  <2>1. ASSUME NEW j \in DOMAIN q, q[j].cmd = "WRTE", b[1] = 1, b[2] = j, b[3] = q[j].data
        PROVE  a[3][2] < b[3][2]
    BY <1>1, <1>2, <1>3, <1>5, <1>6, <2>1
  <2>2. ASSUME NEW p \in H, p.cmd = "WRTE", b[3] = p.data
        PROVE  a[3][2] < b[3][2]
    BY <1>1, <1>2, <1>3, <1>6, <2>2
  <2>3. ASSUME NEW j \in Mine(w, l), w[j].cmd = "WRTE", b[3] = w[j].data
        PROVE  a[3][2] < b[3][2]
    BY <1>1, <1>2, <1>3, <1>6, <2>3
  <2> QED BY <1>4, <1>5, <2>1, <2>2, <2>3
<1>7. ASSUME NEW p \in H, p.cmd = "WRTE", a[1] = 2, a[2] = 0, a[3] = p.data
      PROVE  a[3][2] < b[3][2]
  <2>1. ASSUME NEW j \in Mine(w, l), w[j].cmd = "WRTE", b[3] = w[j].data
        PROVE  a[3][2] < b[3][2]
    BY <1>1, <1>2, <1>3, <1>7, <2>1
  <2>2. b[1] = 3
    BY <1>4, <1>5, <1>7
  <2> QED BY <1>4, <2>1, <2>2
<1>8. ASSUME NEW i \in Mine(w, l), w[i].cmd = "WRTE", a[1] = 3, a[2] = i, a[3] = w[i].data
      PROVE  a[3][2] < b[3][2]
  <2>1. b[1] = 3 /\ i < b[2]
    BY <1>4, <1>5, <1>8
  <2>2. ASSUME NEW j \in Mine(w, l), w[j].cmd = "WRTE", b[2] = j, b[3] = w[j].data
        PROVE  a[3][2] < b[3][2]
    BY <1>1, <1>2, <1>3, <1>8, <2>1, <2>2
  <2> QED BY <1>4, <2>1, <2>2
<1> QED BY <1>4, <1>5, <1>6, <1>7, <1>8

(* While a command reads its stream, its caller was given the first of the *)
(* chunks the device sent, and the others are on their way, each in one    *)
(* place and in the order of the places: for any number of threads, no     *)
(* interleaving of read's search of the store, its recheck under the       *)
(* lock, its reading of the wire and the puts of the other threads loses,  *)
(* repeats, reorders or misdirects one.  A read that fails may spoil one   *)
(* of any stream; of that stream too nothing is repeated, reordered or     *)
(* misdirected afterwards.                                                 *)
THEOREM DataReachTheirReader == Spec => []NothingLost
<1>1. DInv => NothingLost
  <2> SUFFICES ASSUME DInv, NEW t \in Threads,
                      th[t].ctx \in {"stream", "flush", "filesync"}, ~th[t].failing,
                      dev[th[t].lid].st # "gone"
               PROVE  LET l == th[t].lid
                          got == Last(received[l])
                      IN  /\ l \notin lossy =>
                               /\ received[l] = [i \in 1 .. got |-> <<l, i>>]
                               /\ {c[3] : c \in InTransit(t)} = {<<l, i>> : i \in got + 1 .. dev[l].n}
                          /\ {c[3] : c \in InTransit(t)} \subseteq {<<l, i>> : i \in got + 1 .. dev[l].n}
                          /\ \A a, b \in InTransit(t) : Ahead(a, b) => a[3][2] < b[3][2]
    BY DEF NothingLost
  <2>1. PICK l, d, r, x, h : /\ l = th[t].lid /\ d = dev[l] /\ r = Last(received[l])
                             /\ x = th[t] /\ h = Pos(x, r)
    OBVIOUS
  <2>2. /\ IInv /\ l \in Lids /\ x.lid = l /\ Commanded(x, d, r, lossy)
        /\ Served(x, d, r, C(l), Queue(l), lossy) /\ x \in Thread /\ ThreadOK(x)
    <3>1. x.pc \notin {"idle", "close", "connect", "connected"}
      BY <2>1, ReaderFacts, StreamsAssumption DEF Commanded, Calls
    <3>2. l \in Lids
      BY <2>1, <3>1, ReaderFacts DEF Thread, ThreadOK
    <3> QED BY <2>1, <3>2, ReaderFacts DEF DInv, Live
  <2>3. /\ Ends(l, d, received[l], lossy) /\ received[l] \in Seq(Data) /\ d.n \in Nat /\ r \in Nat
        /\ Ordered(Queue(l), Hand(l), to_host, l)
        /\ \A e \in C(l) : e \in Stored /\ OnTheWay(l, d, e)
    <3>1. d \in DevStream /\ received[l] \in Seq(Data)
      BY <2>1, <2>2, Types
    <3>2. r \in Nat
      BY <2>1, <3>1, LastFacts
    <3> QED BY <2>1, <2>2, <3>1, <3>2, ContentsAreTyped, StreamsAssumption DEF DInv, PipesOK, DevStream
  <2>4. /\ x.pc = "okay" => /\ x.pkt.data = <<l, h>> /\ r < h /\ h <= d.n
                            /\ l \notin lossy => h = r + 1
        /\ x.pc # "okay" => h = r
        /\ h \in Nat
    BY <2>1, <2>2, <2>3 DEF Commanded, Pos
  <2>5. ASSUME NEW e \in C(l), e.cmd = "WRTE"
        PROVE  e.data = <<l, e.data[2]>> /\ e.data[2] \in h + 1 .. d.n
    <3>1. e.data[1] = l /\ e.data[2] <= d.n /\ e.data[2] > h
      BY <2>1, <2>2, <2>3, <2>5 DEF OnTheWay, Served
    <3>2. e.data \in Data /\ e.data[2] \in Nat
      BY <2>3, <2>5, StoredFacts, StreamsAssumption
    <3> QED BY <2>3, <2>4, <3>1, <3>2 DEF Data
  <2>6. {c[3] : c \in InTransit(t)} \subseteq {<<l, i>> : i \in r + 1 .. d.n}
    <3> SUFFICES ASSUME NEW c \in InTransit(t) PROVE \E i \in r + 1 .. d.n : c[3] = <<l, i>>
      OBVIOUS
    <3>1. CASE th[t].pc = "okay" /\ c[3] = th[t].pkt.data
      <4>1. c[3] = <<l, h>> /\ h \in r + 1 .. d.n
        BY <2>1, <2>3, <2>4, <3>1
      <4> QED BY <4>1
    <3>2. CASE \E e \in C(l) : e.cmd = "WRTE" /\ e.data = c[3]
      <4>1. PICK e \in C(l) : e.cmd = "WRTE" /\ e.data = c[3]
        BY <3>2
      <4>2. c[3] = <<l, e.data[2]>> /\ e.data[2] \in r + 1 .. d.n
        BY <2>3, <2>4, <2>5, <4>1
      <4> QED BY <4>2
    <3> QED BY <2>1, <2>2, <3>1, <3>2, TransitInContents
  <2>7. ASSUME l \notin lossy, NEW i \in r + 1 .. d.n
        PROVE  \E c \in InTransit(t) : c[3] = <<l, i>>
    <3>1. CASE i \in h + 1 .. d.n
      <4>1. Wrte(l, i) \in C(l)
        BY <2>1, <2>2, <2>7, <3>1 DEF Served
      <4>2. Wrte(l, i).cmd = "WRTE" /\ Wrte(l, i).data = <<l, i>>
        BY DEF Wrte
      <4> QED BY <2>1, <2>2, <4>1, <4>2, ContentsInTransit
    <3>2. CASE i \notin h + 1 .. d.n
      <4>1. x.pc = "okay" /\ x.pkt.data = <<l, i>>
        BY <2>3, <2>4, <2>7, <3>2
      <4>2. <<0, 0, th[t].pkt.data>> \in InTransit(t)
        BY <2>1, <4>1, InTransitIs
      <4> QED BY <2>1, <4>1, <4>2
    <3> QED BY <3>1, <3>2
  <2>8. ASSUME NEW a \in InTransit(t), NEW b \in InTransit(t), Ahead(a, b)
        PROVE  a[3][2] < b[3][2]
    <3>1. CASE a[1] # 0
      BY <2>1, <2>2, <2>3, <2>8, <3>1, AheadIsEarlier
    <3>2. CASE a[1] = 0
      <4>1. a[2] = 0 /\ x.pc = "okay" /\ a[3][2] = h
        BY <2>1, <2>2, <2>4, <3>2, TransitInContents
      <4>2. b[1] # 0
        <5>1. b[1] = 0 => b[2] = 0
          BY <2>1, <2>2, TransitInContents
        <5> QED BY <2>8, <3>2, <4>1, <5>1 DEF Ahead
      <4>3. PICK e \in C(l) : e.cmd = "WRTE" /\ e.data = b[3]
        BY <2>1, <2>2, <4>2, TransitInContents
      <4>4. e.data[2] \in h + 1 .. d.n
        BY <2>5, <4>3
      <4> QED BY <2>3, <2>4, <4>1, <4>3, <4>4
    <3> QED BY <3>1, <3>2
  <2>9. ASSUME l \notin lossy
        PROVE  received[l] = [i \in 1 .. r |-> <<l, i>>]
    <3>1. Given(l, received[l])
      BY <2>3, <2>9 DEF Ends
    <3>2. r = Len(received[l])
      BY <2>1, <2>2, <2>3, <3>1, LastFacts
    <3> QED BY <3>1, <3>2 DEF Given
  <2>10. l \notin lossy => {c[3] : c \in InTransit(t)} = {<<l, i>> : i \in r + 1 .. d.n}
    BY <2>6, <2>7
  <2> QED BY <2>1, <2>6, <2>8, <2>9, <2>10
<1> QED BY <1>1, Delivery, PTL

-----------------------------------------------------------------------------
(* Every stream is a channel of its own.                                   *)

Ended == {l \in Lids : dev[l].st \in {"closed", "gone"}}

Output == [l \in Lids |-> SentBy(l)]

Place == [l \in Lids |-> Last(received[l])]

LEMMA ChannelsInit == Init => Channels!Init
<1> SUFFICES ASSUME Init PROVE Channels!Init
  OBVIOUS
<1>1. \A l \in Lids : dev[l].n = 0 /\ dev[l].st = "none"
  BY DEF Init, NoStream
<1>2. \A l \in Lids : SentBy(l) = <<>>
  BY <1>1 DEF SentBy
<1>3. Output = [l \in Lids |-> <<>>] /\ Ended = {}
  BY <1>1, <1>2 DEF Output, Ended
<1>4. Place = [l \in Lids |-> 0]
  BY LastFacts DEF Init, Place
<1> QED BY <1>3, <1>4 DEF Channels!Init, Init, Output, Ended, Place

(* A step that sends nothing and gives nothing to a caller: it closes some *)
(* streams at most.                                                        *)
LEMMA ChannelsClose ==
  ASSUME \A l \in Lids : dev'[l].n = dev[l].n /\ (l \in Ended => l \in Ended'),
         UNCHANGED <<received, complete, lossy>>
  PROVE  Channels!Next
<1>1. Output' = Output /\ Place' = Place
  BY DEF Output, SentBy, Place
<1>2. Ended \cup Ended' = Ended' /\ Ended' \in SUBSET Lids
  BY DEF Ended
<1>3. Ended' \in {Ended \cup S : S \in SUBSET Lids}
  BY <1>2
<1>4. Channels!Close
  BY <1>1, <1>3 DEF Channels!Close, Output, Ended, Place
<1> QED BY <1>4 DEF Channels!Next

LEMMA ChannelsReceive ==
  ASSUME DInv, DevReceive
  PROVE  Channels!Next
<1>1. PICK m, l : m = Head(to_dev) /\ l = m.arg0
  OBVIOUS
<1>2. /\ to_dev # <<>> /\ to_dev' = Tail(to_dev) /\ UNCHANGED <<received, complete, lossy>>
      /\ DevOpen(m) \/ DevHandle(m)
  BY <1>1 DEF DevReceive, devRest
<1>3. l \in Lids /\ Request(m)
  BY <1>1, <1>2, HeadFacts
<1>4. dev \in [Lids -> DevStream] /\ dev[l] \in DevStream /\ Ends(l, dev[l], received[l], lossy)
  BY <1>3, Types DEF DInv, PipesOK
<1>5. \A k \in Lids : dev'[k].n = dev[k].n /\ (k \in Ended => k \in Ended')
  <2> SUFFICES ASSUME NEW k \in Lids
               PROVE  dev'[k].n = dev[k].n /\ (dev[k].st \in {"closed", "gone"} => dev'[k].st \in {"closed", "gone"})
    BY DEF Ended
  <2>1. CASE DevOpen(m)
    <3>1. m.cmd = "OPEN" /\ dev[l].st = "none" /\ dev[l].n = 0
      BY <1>1, <1>3, <1>4, <2>1 DEF DevOpen, Request, Untouched, Ends
    <3>2. \/ dev' = dev
          \/ dev' = [dev EXCEPT ![l] = [st |-> "open", rid |-> dev_id + 1, op |-> m.data,
                                        credit |-> Window, n |-> 0, asked |-> FALSE]]
      BY <1>1, <2>1 DEF DevOpen, devVars
    <3>3. CASE dev' = dev
      BY <3>3
    <3>4. CASE dev' # dev /\ k = l
      <4>1. dev'[l].n = 0
        BY <1>3, <1>4, <3>2, <3>4
      <4> QED BY <3>1, <3>4, <4>1
    <3>5. CASE k # l
      BY <1>4, <3>2, <3>5
    <3> QED BY <3>3, <3>4, <3>5
  <2>2. CASE DevHandle(m)
    <3>1. \/ dev' = dev
          \/ dev' = [dev EXCEPT ![l].credit = IF @ < Window THEN @ + 1 ELSE @]
          \/ dev' = [dev EXCEPT ![l].asked = TRUE]
          \/ dev' = [dev EXCEPT ![l].st = "closed"]
      <4>1. m \in HostPacket
        BY <1>1, <1>2, HeadFacts
      <4>2. m.cmd \in {"OKAY", "WRTE", "CLSE"}
        BY <2>2, <4>1 DEF DevHandle, HostPacket
      <4> QED BY <1>1, <2>2, <4>2 DEF DevHandle
    <3>2. CASE k # l
      BY <1>4, <3>1, <3>2
    <3>3. CASE k = l
      <4>1. dev'[l].n = dev[l].n /\ dev'[l].st \in {dev[l].st, "closed"}
        BY <1>3, <1>4, <3>1 DEF DevStream
      <4> QED BY <3>3, <4>1
    <3> QED BY <3>2, <3>3
  <2> QED BY <1>2, <2>1, <2>2
<1> QED BY <1>2, <1>5, ChannelsClose

LEMMA ChannelsSend ==
  ASSUME DInv, NEW l \in Lids, DevSend(l)
  PROVE  Channels!Next
<1>1. PICK d : d = dev[l]
  OBVIOUS
<1>2. /\ d.st = "open" /\ d.n < Chunks /\ UNCHANGED <<received, complete, lossy>>
      /\ dev' = [dev EXCEPT ![l] = [d EXCEPT !.n = d.n + 1, !.credit = d.credit - 1]]
  BY <1>1 DEF DevSend, DevCanSend, devRest
<1>3. d \in DevStream /\ d.n \in Nat /\ dev \in [Lids -> DevStream]
  BY <1>1, Types, StreamsAssumption DEF DInv, DevStream
<1>4. /\ dev'[l].n = d.n + 1 /\ dev'[l].st = d.st
      /\ \A k \in Lids : k # l => dev'[k] = dev[k]
  BY <1>2, <1>3 DEF DevStream
<1>5. Ended' = Ended
  BY <1>1, <1>4 DEF Ended
<1>6. <<l, d.n + 1>> \in Data
  BY <1>2, <1>3, StreamsAssumption DEF Data
<1>7. SentBy(l)' = Append(SentBy(l), <<l, d.n + 1>>)
  <2> DEFINE s == [i \in 1 .. d.n |-> <<l, i>>]
             v == [i \in 1 .. d.n + 1 |-> <<l, i>>]
  <2>1. v = Append(s, <<l, d.n + 1>>)
    <3>1. s \in Seq(Nat \X Nat) /\ Len(s) = d.n
      BY <1>3 DEF Lids
    <3>2. v = [i \in 1 .. d.n + 1 |-> IF i = d.n + 1 THEN <<l, d.n + 1>> ELSE s[i]]
      BY <1>3
    <3> HIDE DEF s, v
    <3> QED BY <1>3, <3>1, <3>2
  <2> QED BY <1>1, <1>4, <2>1 DEF SentBy
<1>8. Output' = [Output EXCEPT ![l] = Append(Output[l], <<l, d.n + 1>>)]
  <2>1. \A k \in Lids : k # l => SentBy(k)' = SentBy(k)
    BY <1>4 DEF SentBy
  <2> QED BY <1>7, <2>1 DEF Output
<1>9. l \notin Ended
  BY <1>1, <1>2 DEF Ended
<1>10. Channels!Send(l, <<l, d.n + 1>>)
  <2>1. Place' = Place
    BY <1>2 DEF Place
  <2> QED BY <1>2, <1>5, <1>8, <1>9, <2>1 DEF Channels!Send, Output, Ended, Place
<1> QED BY <1>6, <1>10 DEF Channels!Next

(* A spoiled packet is the loss of something of its stream.                *)
LEMMA ChannelsLose ==
  ASSUME DInv, to_host # <<>>, lossy' = lossy \cup {Head(to_host).arg1},
         UNCHANGED <<dev, received, complete>>
  PROVE  Channels!Next
<1>1. PICK l : l = Head(to_host).arg1
  OBVIOUS
<1>2. l \in Lids
  <2>1. Head(to_host) \in Packet
    BY Types DEF DInv
  <2> QED BY <1>1, <2>1 DEF Packet
<1>3. Output' = Output /\ Place' = Place /\ Ended' = Ended
  BY DEF Output, SentBy, Place, Ended
<1>4. Channels!Lose(l)
  BY <1>1, <1>3 DEF Channels!Lose, Output, Place, Ended
<1> QED BY <1>2, <1>4 DEF Channels!Next

(* A chunk is the next one when it is given to the caller, and a command   *)
(* that returns has been given all of them, unless some were lost.         *)
LEMMA ChannelsGive ==
  ASSUME DInv, NEW t \in Threads, Send(t)
  PROVE  Channels!Next
<1>1. PICK x, l, d, r : x = th[t] /\ l = x.lid /\ d = dev[l] /\ r = Last(received[l])
  OBVIOUS
<1>2. /\ x.pc \in Sending /\ UNCHANGED dev
      /\ received' = IF x.pc = "okay" THEN [received EXCEPT ![l] = Append(received[l], x.pkt.data)]
                                      ELSE received
      /\ complete' = IF x.pc = "reclose" THEN complete \cup {l} ELSE complete
      /\ lossy' = lossy
  BY <1>1 DEF Send, devVars
<1>3. /\ l \in Lids /\ Commanded(x, d, r, lossy) /\ d \in DevStream
      /\ received \in [Lids -> Seq(Data)] /\ received[l] \in Seq(Data)
      /\ Ends(l, d, received[l], lossy) /\ d.n \in Nat /\ r \in Nat
  <2>1. l \in Lids
    BY <1>1, <1>2, ReaderFacts DEF ThreadOK
  <2>2. d \in DevStream /\ received \in [Lids -> Seq(Data)] /\ received[l] \in Seq(Data)
    BY <1>1, <2>1, Types DEF DInv
  <2>3. r \in Nat
    BY <1>1, <2>2, LastFacts
  <2> QED BY <1>1, <2>1, <2>2, <2>3, ReaderFacts, StreamsAssumption DEF DInv, PipesOK, DevStream
<1>4. Output' = Output /\ Ended' = Ended
  BY <1>2 DEF Output, SentBy, Ended
<1>5. Output[l] = [i \in 1 .. d.n |-> <<l, i>>]
  BY <1>1, <1>3 DEF Output, SentBy
<1>6. CASE x.pc = "okay"
  <2>1. PICK k : k = InHand(x)
    OBVIOUS
  <2>2. /\ x.pkt.data = <<l, k>> /\ k \in r + 1 .. d.n /\ complete' = complete
        /\ k = r + 1 \/ l \in lossy
    BY <1>1, <1>2, <1>3, <1>6, <2>1 DEF Commanded
  <2>3. Len(Output[l]) = d.n /\ Output[l][k] = <<l, k>>
    BY <1>3, <1>5, <2>2
  <2>4. received' = [received EXCEPT ![l] = Append(received[l], Output[l][k])]
    BY <1>2, <1>6, <2>2, <2>3
  <2>5. Place' = [Place EXCEPT ![l] = k] /\ Place[l] = r
    <3>1. <<l, k>> \in Data /\ received'[l] = Append(received[l], <<l, k>>)
      <4>1. k \in 1 .. Chunks
        BY <1>3, <2>2, StreamsAssumption DEF DevStream
      <4> QED BY <1>3, <2>3, <2>4, <4>1 DEF Data
    <3>2. Last(received'[l]) = k
      BY <1>3, <3>1, LastFacts
    <3>3. \A m \in Lids : m # l => received'[m] = received[m]
      BY <1>3, <2>4
    <3> QED BY <1>1, <1>3, <3>2, <3>3 DEF Place
  <2>6. Channels!Deliver(l)
    <3>1. k \in Place[l] + 1 .. Len(Output[l]) /\ (k = Place[l] + 1 \/ l \in lossy)
      BY <2>2, <2>3, <2>5
    <3> QED BY <1>2, <1>4, <2>2, <2>4, <2>5, <3>1 DEF Channels!Deliver, Output, Ended, Place
  <2> QED BY <1>3, <2>6 DEF Channels!Next
<1>7. CASE x.pc = "reclose"
  <2>1. d.st \in {"closed", "gone"} /\ (l \notin lossy => r = d.n)
    BY <1>1, <1>3, <1>7 DEF Commanded
  <2>2. l \in Ended
    BY <1>1, <1>3, <2>1 DEF Ended
  <2>3. received[l] = Output[l] \/ l \in lossy
    <3>1. ASSUME l \notin lossy PROVE received[l] = Output[l]
      <4>1. Given(l, received[l]) /\ r = d.n
        BY <1>3, <2>1, <3>1 DEF Ends
      <4>2. Len(received[l]) = d.n
        BY <1>1, <1>3, <4>1, LastFacts
      <4> QED BY <1>5, <4>1, <4>2 DEF Given
    <3> QED BY <3>1
  <2>4. complete' = complete \cup {l} /\ received' = received
    BY <1>2, <1>7
  <2>5. Channels!Complete(l)
    <3>1. Place' = Place
      BY <2>4 DEF Place
    <3> QED BY <1>2, <1>4, <2>2, <2>3, <2>4, <3>1 DEF Channels!Complete, Output, Ended, Place
  <2> QED BY <1>3, <2>5 DEF Channels!Next
<1>8. CASE x.pc \notin {"okay", "reclose"}
  BY <1>2, <1>4, <1>8, ChannelsClose
<1> QED BY <1>6, <1>7, <1>8

LEMMA ChannelsNext == DInv /\ [Next]_vars => [Channels!Next]_(Channels!cVars)
<1> SUFFICES ASSUME DInv, [Next]_vars PROVE [Channels!Next]_(Channels!cVars)
  OBVIOUS
<1>1. CASE UNCHANGED <<dev, received, complete, lossy>>
  <2>1. \A l \in Lids : dev'[l].n = dev[l].n /\ (l \in Ended => l \in Ended')
    BY <1>1 DEF Ended
  <2>2. Channels!Next
    BY <1>1, <2>1, ChannelsClose
  <2> QED BY <2>2
<1>2. CASE UNCHANGED vars
  BY <1>1, <1>2 DEF vars
<1>3. ASSUME NEW l \in Lids, DevClose(l) PROVE Channels!Next
  <2>1. /\ dev' = [dev EXCEPT ![l].st = "closed"] /\ UNCHANGED <<received, complete, lossy>>
        /\ dev \in [Lids -> DevStream]
    BY <1>3, Types DEF DInv, DevClose, devRest
  <2>2. \A k \in Lids : dev'[k].n = dev[k].n /\ (k \in Ended => k \in Ended')
    BY <2>1 DEF Ended, DevStream
  <2> QED BY <2>1, <2>2, ChannelsClose
<1>4. CASE Device
  BY <1>3, <1>4, ChannelsReceive, ChannelsSend DEF Device
<1>5. ASSUME NEW t \in Threads, CloseTransport(t) \/ ConnectTransport(t) PROVE Channels!Next
  <2>1. DropConnection /\ UNCHANGED <<received, complete, lossy>> /\ dev \in [Lids -> DevStream]
    BY <1>5, Types DEF DInv, CloseTransport, ConnectTransport, Reconnect
  <2>2. \A k \in Lids : dev'[k].n = dev[k].n /\ (k \in Ended => k \in Ended')
    <3> SUFFICES ASSUME NEW k \in Lids PROVE dev'[k].n = dev[k].n /\ (k \in Ended => k \in Ended')
      OBVIOUS
    <3>1. dev'[k] = IF dev[k].st = "none" THEN dev[k] ELSE [dev[k] EXCEPT !.st = "gone"]
      BY <2>1 DEF DropConnection
    <3>2. dev[k] \in DevStream
      BY <2>1
    <3> QED BY <3>1, <3>2 DEF Ended, DevStream
  <2> QED BY <2>1, <2>2, ChannelsClose
<1>6. ASSUME NEW t \in Threads, Run(t) PROVE [Channels!Next]_(Channels!cVars)
  <2>1. CASE Send(t)
    BY <2>1, ChannelsGive
  <2>2. CASE CloseTransport(t) \/ ConnectTransport(t)
    BY <1>5, <2>2
  <2>3. CASE ReadRaises(t)
    <3>1. /\ UNCHANGED <<dev, received, complete>>
          /\ \/ UNCHANGED lossy
             \/ to_host # <<>> /\ lossy' = lossy \cup {Head(to_host).arg1}
      BY <2>3 DEF ReadRaises, ReadFails, NothingRead, PacketSpoiled, devVars
    <3> QED BY <1>1, <3>1, ChannelsLose
  <2>4. CASE ~(Send(t) \/ CloseTransport(t) \/ ConnectTransport(t) \/ ReadRaises(t))
    <3>1. UNCHANGED <<dev, received, complete, lossy>>
      BY <1>6, <2>4 DEF Run, ReadStore, RecheckStore, SearchStore, LockTransport, ReadWire, Dispatch,
         SendRaises, CheckTime, LeaveStream, SetAvailable, devVars
    <3> QED BY <1>1, <3>1
  <2> QED BY <2>1, <2>2, <2>3, <2>4
<1>7. ASSUME NEW t \in Threads, Call(t) PROVE [Channels!Next]_(Channels!cVars)
  <2>1. UNCHANGED <<dev, received, complete, lossy>>
    <3>1. CASE \E o \in Ops : Start(t, o)
      BY <3>1 DEF Start, devVars
    <3>2. CASE CallReset(t, "close") \/ CallReset(t, "connect")
      BY <3>2 DEF CallReset, devVars
    <3> QED BY <1>7, <3>1, <3>2 DEF Call
  <2> QED BY <1>1, <2>1
<1> QED BY <1>2, <1>4, <1>6, <1>7 DEF Next, Resting

(* The commands implement the abstract specification StreamChannels: the   *)
(* stream of each is a private, ordered channel, which skips nothing, and  *)
(* of which a command that returns its whole output has been given all the *)
(* device sent, unless a failing read spoiled a packet of the stream.  The *)
(* data leaves the device with DevSend, is given to the caller by the Send *)
(* of its OKAY, and the command is complete with the Send of its CLSE.     *)
THEOREM StreamsAreChannels == Spec => ImplementsChannels
<1>1. Init => Channels!Init
  BY ChannelsInit
<1>2. DInv /\ [Next]_vars => [Channels!Next]_(Channels!cVars)
  BY ChannelsNext
<1> QED BY <1>1, <1>2, Delivery, PTL DEF Spec, ImplementsChannels, Channels!Spec
=============================================================================
