--------------------------- MODULE AdbTasksProofs ---------------------------
(***************************************************************************)
(* Proofs about AdbTasks, for any number of tasks, commands, chunks,       *)
(* cancellations and resets: the transport lock, whole messages and        *)
(* packets, pulls that close their stream, connections that work again,    *)
(* the delivery of data to their readers whoever reads the wire, and the   *)
(* refinement of StreamChannels.                                           *)
(***************************************************************************)
EXTENDS AdbTasks, TLAPS, Integers

-----------------------------------------------------------------------------
(* What the operators on packet queues return and preserve, for entries of *)
(* any set S and keys of any set K.                                        *)

(* A store: queues of entries of S at keys of K.                           *)
IsStore(s, K, S) == DOMAIN s \subseteq K /\ \A k \in DOMAIN s : s[k] \in Seq(S)

(* find returns keys of queues that hold a packet.                         *)
LEMMA FindHits ==
  ASSUME NEW s, NEW arg0, NEW arg1, NEW k \in Find(s, arg0, arg1)
  PROVE  k \in DOMAIN s /\ s[k] # <<>>
BY DEF Find

(* find_allow_zeros returns what the first successful one of its four      *)
(* searches does, and nothing only if the exact search has no result.      *)
LEMMA FindAllowZerosFrom ==
  ASSUME NEW s, NEW arg0, NEW arg1
  PROVE  /\ \A k \in FindAllowZeros(s, arg0, arg1) :
              k \in Find(s, arg0, arg1) \cup Find(s, arg0, 0) \cup Find(s, 0, arg1) \cup Find(s, 0, 0)
         /\ FindAllowZeros(s, arg0, arg1) = {} => Find(s, arg0, arg1) = {}
<1> DEFINE c == << Find(s, arg0, arg1), Find(s, arg0, 0), Find(s, 0, arg1), Find(s, 0, 0) >>
           hits == {i \in 1..4 : c[i] # {}}
           first == CHOOSE i \in hits : \A j \in hits : i <= j
<1>1. FindAllowZeros(s, arg0, arg1) = IF hits = {} THEN {} ELSE c[first]
  BY DEF FindAllowZeros
<1>2. CASE hits = {}
  <2>1. 1 \notin hits
    BY <1>2
  <2>2. c[1] = {}
    BY <2>1
  <2> QED BY <1>1, <1>2, <2>2
<1>3. CASE hits # {}
  <2>1. PICK i \in hits : \A j \in hits : i <= j
    <3>1. CASE 1 \in hits BY <3>1
    <3>2. CASE 1 \notin hits /\ 2 \in hits BY <3>2
    <3>3. CASE 1 \notin hits /\ 2 \notin hits /\ 3 \in hits BY <3>3
    <3>4. CASE 1 \notin hits /\ 2 \notin hits /\ 3 \notin hits BY <1>3, <3>4
    <3> QED BY <3>1, <3>2, <3>3, <3>4
  <2>2. first \in hits
    BY <2>1
  <2>3. first \in 1..4 /\ c[first] # {}
    BY <2>2
  <2>4. \/ c[first] = Find(s, arg0, arg1) \/ c[first] = Find(s, arg0, 0)
        \/ c[first] = Find(s, 0, arg1)    \/ c[first] = Find(s, 0, 0)
    BY <2>3
  <2> HIDE DEF c, hits, first
  <2> QED BY <1>1, <1>3, <2>3, <2>4
<1> QED BY <1>2, <1>3

(* So it returns keys of queues that hold a packet too.                    *)
LEMMA FindAllowZerosHits ==
  ASSUME NEW s, NEW arg0, NEW arg1, NEW k \in FindAllowZeros(s, arg0, arg1)
  PROVE  k \in DOMAIN s /\ s[k] # <<>>
BY FindAllowZerosFrom, FindHits

(* The empty store is a store, and clear keeps one.                        *)
LEMMA EmptyIsStore ==
  ASSUME NEW K, NEW S
  PROVE  IsStore(EmptyStore, K, S)
BY DEF IsStore, EmptyStore

LEMMA ClearKeepsStore ==
  ASSUME NEW K, NEW S, NEW s, IsStore(s, K, S), NEW k
  PROVE  IsStore(Clear(s, k), K, S)
BY DEF IsStore, Clear

(* What get takes out of a queue is an entry, and what it leaves a store.  *)
LEMMA GetKeepsStore ==
  ASSUME NEW K, NEW S, NEW s, IsStore(s, K, S), NEW k \in DOMAIN s, s[k] # <<>>
  PROVE  k \in K /\ PacketAt(s, k) \in S /\ IsStore(AfterGet(s, k), K, S)
<1>1. s[k] \in Seq(S) /\ k \in K
  BY DEF IsStore
<1>2. Head(s[k]) \in S /\ Tail(s[k]) \in Seq(S)
  BY <1>1
<1>3. IsStore([s EXCEPT ![k] = Tail(@)], K, S)
  BY <1>2 DEF IsStore
<1> QED BY <1>1, <1>2, <1>3, ClearKeepsStore DEF PacketAt, AfterGet

(* put adds its packet, or drops it.                                       *)
LEMMA PutKeepsStore ==
  ASSUME NEW K, NEW S, NEW s, IsStore(s, K, S), NEW k \in K,
         NEW cmd, NEW data, [cmd |-> cmd, data |-> data] \in S
  PROVE  IsStore(Put(s, k, cmd, data), K, S)
<1>1. QueueOf(s, k) \in Seq(S)
  BY DEF IsStore, QueueOf
<1>2. Append(QueueOf(s, k), [cmd |-> cmd, data |-> data]) \in Seq(S)
  BY <1>1
<1>3. IsStore(Enqueue(s, k, cmd, data), K, S)
  BY <1>2 DEF IsStore, Enqueue
<1> QED BY <1>3 DEF Put

(* What clear and get do to each queue.                                    *)
LEMMA ClearQueues ==
  ASSUME NEW s, NEW k
  PROVE  /\ DOMAIN Clear(s, k) = DOMAIN s \ {k}
         /\ QueueOf(Clear(s, k), k) = <<>>
         /\ \A j : j # k => QueueOf(Clear(s, k), j) = QueueOf(s, j)
BY DEF Clear, QueueOf

LEMMA GetQueues ==
  ASSUME NEW s, NEW k \in DOMAIN s
  PROVE  /\ DOMAIN AfterGet(s, k) \subseteq DOMAIN s
         /\ QueueOf(AfterGet(s, k), k) = IF Head(s[k]).cmd = "CLSE" THEN <<>> ELSE Tail(s[k])
         /\ \A j : j # k => QueueOf(AfterGet(s, k), j) = QueueOf(s, j)
<1>1. CASE Head(s[k]).cmd = "CLSE"
  <2> DEFINE r == Clear(s, k)
  <2>1. AfterGet(s, k) = r
    BY <1>1 DEF AfterGet
  <2>2. DOMAIN r = DOMAIN s \ {k} /\ QueueOf(r, k) = <<>> /\ \A j : j # k => QueueOf(r, j) = QueueOf(s, j)
    BY ClearQueues
  <2> HIDE DEF r
  <2> QED BY <1>1, <2>1, <2>2
<1>2. CASE Head(s[k]).cmd # "CLSE"
  <2> DEFINE r == [s EXCEPT ![k] = Tail(s[k])]
  <2>1. AfterGet(s, k) = r
    BY <1>2 DEF AfterGet
  <2>2. DOMAIN r = DOMAIN s /\ r[k] = Tail(s[k]) /\ \A j \in DOMAIN s : j # k => r[j] = s[j]
    OBVIOUS
  <2> HIDE DEF r
  <2> QED BY <1>2, <2>1, <2>2 DEF QueueOf
<1> QED BY <1>1, <1>2

-----------------------------------------------------------------------------
(* What holds of a task, of the lock and of the store.                     *)

(* A packet of the device has data if and only if it is a WRTE.            *)
WholePacket == {p \in Packet : p.cmd = "WRTE" <=> p.data # None}
WholeStored == {q \in Stored : q.cmd = "WRTE" <=> q.data # None}

(* What a task knows of its stream, and what each step of it relies on.    *)
StreamOK(x) ==
  /\ x.step \notin Sends \cup Reads => x.op = None
  /\ x.step \in Sends \cup Reads => x.op \in Ops /\ x.lid \in Lids
  /\ x.step \in (Sends \cup Reads) \ {"open", "opened"} => x.rid \in Nat
  /\ x.step \in {"stream", "reclose"} => x.op = Shell

TaskOK(x) ==
  /\ x.at = "idle" => x = IdleTask
  /\ x.at # "idle" => x.step \in Sends \cup Reads \cup Resets
  /\ x.at \in {"fast", "locked", "header", "data"} => x.step \in Reads
  /\ x.at = "drain" => x.step \in Sends
  /\ x.at \in {"file", "callback"} => x.step = "okay" /\ x.op = Pull
  /\ x.at \in {"closing", "dial", "greet"} => x.step \in Resets
  /\ StreamOK(x)
  /\ x.step = "okay" => x.pkt \in WholePacket /\ x.pkt.cmd = "WRTE"
  /\ x.at = "data" => x.pkt \in WholePacket /\ HasData(x.pkt)
  /\ x.part = "data" => x.at = "drain" /\ x.step \in {"open", "request"}

TasksOK == \A t \in Tasks : TaskOK(task[t])

LockOK ==
  /\ \A t \in Tasks : lock = t <=> task[t].at \in Inside
  /\ \A t \in Tasks : task[t].at = "queue" <=> \E i \in DOMAIN waiters : waiters[i] = t
  /\ \A i, j \in DOMAIN waiters : waiters[i] = waiters[j] => i = j

TasksPart ==
  /\ running \in Tasks \cup {None} /\ task \in [Tasks -> Task] /\ TasksOK
  /\ lock \in Tasks \cup {None} /\ waiters \in Seq(Tasks) /\ LockOK

StorePart == IsStore(store, Nat \X Lids, WholeStored)

WirePart ==
  /\ conn \in {"open", "closing", "closed", "wedged"}
  /\ scrap \in BOOLEAN /\ deaf \in BOOLEAN
  /\ unsent \in Seq(Kinds \X Message) /\ arriving \in Seq(Kinds \X WholePacket)
  /\ dev \in [Lids -> DevStream] /\ half \in Message \cup {None}

RestPart ==
  /\ available \in BOOLEAN /\ local_id \in Lids \cup {0}
  /\ cancels \in 0 .. MaxCancels /\ resets \in 0 .. MaxResets
  /\ received \in [Lids -> Seq(Data)]
  /\ complete \subseteq Lids /\ lossy \subseteq Lids /\ cut \subseteq {"in", "out"}

LInv == TasksPart /\ StorePart /\ WirePart /\ RestPart

-----------------------------------------------------------------------------
(* What holds of the two directions of a connection.                       *)

(* What the transport is while a task is at an await of send or of a reset,*)
(* and what is left of a closed connection.                                *)
ConnOK ==
  /\ \A t \in Tasks :
       /\ task[t].at = "drain" => conn = "open"
       /\ task[t].at = "closing" => conn = "closing"
       /\ task[t].at = "dial" => conn = "closed"
       /\ task[t].at = "greet" => conn = "open"
       /\ task[t].at = "data" => conn # "closed"
  /\ conn = "closing" => \E t \in Tasks : task[t].at = "closing"
  /\ conn = "closed" \/ (\E t \in Tasks : task[t].at = "greet") =>
       unsent = <<>> /\ ~scrap /\ ~deaf /\ half = None /\ cut = {}
  /\ conn = "closed" => arriving = <<>>
  /\ \A t \in Tasks : task[t].at \in {"dial", "greet"} => DOMAIN store = {}

(* A header with data is followed by its data, and nothing else is.        *)
Follows(w, i) == IF w[i][1] = "header" /\ HasData(w[i][2])
                 THEN w[i + 1] = <<"data", w[i][2]>> ELSE w[i + 1][1] = "header"

Framed(w) == \A i \in 1 .. Len(w) - 1 : Follows(w, i)

HalfWay(w) == w # <<>> /\ w[Len(w)][1] = "header" /\ HasData(w[Len(w)][2])

ArrivingOK ==
  /\ scrap => "in" \in cut
  /\ Framed(arriving) /\ ~HalfWay(arriving)
  /\ \A t \in Tasks : task[t].at = "data" =>
       arriving # <<>> /\ arriving[1] = <<"data", task[t].pkt>>
  /\ arriving # <<>> /\ arriving[1][1] = "data" => \E t \in Tasks : task[t].at = "data"

(* A task that has yet to write the data of a message.                     *)
Owes(x) == x.at = "drain" /\ x.part = "header" /\ HasData(MessageOf(x))

UnsentOK ==
  conn = "open" /\ "out" \notin cut =>
    /\ ~deaf /\ Framed(unsent)
    /\ unsent # <<>> => IF half = None THEN unsent[1][1] = "header"
                                       ELSE unsent[1] = <<"data", half>>
    /\ \A t \in Tasks : Owes(task[t]) =>
         IF unsent = <<>> THEN half = MessageOf(task[t])
                          ELSE unsent[Len(unsent)] = <<"header", MessageOf(task[t])>>
    /\ (\A t \in Tasks : ~Owes(task[t])) =>
         ~HalfWay(unsent) /\ (unsent = <<>> => half = None)

(* The device waits for the data of a message that has some; and while the *)
(* transport is not open it has lost nothing.                              *)
HalfOK ==
  /\ half # None => HasData(half)
  /\ conn # "open" => ~deaf /\ half = None /\ "out" \notin cut

WInv == ConnOK /\ ArrivingOK /\ UnsentOK /\ HalfOK

IInv == LInv /\ WInv

-----------------------------------------------------------------------------
(* What a task is after the steps that several actions share.              *)

(* A task that has no use for the lock and does not wait for it.           *)
Lockless(y) == y \in Task /\ TaskOK(y) /\ y.at \notin Inside \cup {"queue"}

LEMMA IdleIsLockless == Lockless(IdleTask)
BY TasksAssumption
   DEF Lockless, IdleTask, TaskOK, StreamOK, Task, Inside, MayPause, Kinds, Sends, Reads, Resets

(* Goto changes where a task is, and nothing of its stream.                *)
LEMMA GotoFields ==
  ASSUME NEW x \in Task, NEW s \in Sends \cup Reads \cup Resets
  PROVE  /\ Goto(x, s) \in Task /\ Goto(x, s).step = s
         /\ Goto(x, s).at = IF s \in Reads THEN "fast" ELSE "acquire"
         /\ Goto(x, s).op = x.op /\ Goto(x, s).lid = x.lid /\ Goto(x, s).rid = x.rid
         /\ Goto(x, s).pkt = x.pkt /\ Goto(x, s).part = "header"
<1> DEFINE y == Goto(x, s)
<1>1. PICK a : a = IF s \in Reads THEN "fast" ELSE "acquire"
  OBVIOUS
<1>2. y = [x EXCEPT !.step = s, !.part = "header", !.at = a]
  BY <1>1 DEF Goto
<1>3. a \in {"fast", "acquire"}
  BY <1>1
<1>4. /\ y.step = s /\ y.at = a /\ y.part = "header"
      /\ y.op = x.op /\ y.lid = x.lid /\ y.rid = x.rid /\ y.pkt = x.pkt
  BY <1>2 DEF Task
<1>5. y \in Task
  BY <1>2, <1>3 DEF Task, Kinds
<1> HIDE DEF y
<1> QED BY <1>1, <1>4, <1>5 DEF y

LEMMA GotoIsLockless ==
  ASSUME NEW x \in Task, NEW s \in Sends \cup Reads, s # "okay",
         x.op \in Ops, x.lid \in Lids,
         s \in {"open", "opened"} \/ x.rid \in Nat,
         s \in {"stream", "reclose"} => x.op = Shell
  PROVE  Lockless(Goto(x, s))
<1> DEFINE y == Goto(x, s)
<1>1. /\ y \in Task /\ y.step = s /\ y.at = IF s \in Reads THEN "fast" ELSE "acquire"
      /\ y.op = x.op /\ y.lid = x.lid /\ y.rid = x.rid /\ y.part = "header"
  BY GotoFields
<1> HIDE DEF y
<1>2. s \notin Resets
  BY DEF Sends, Reads, Resets
<1>3. y.at \notin Inside \cup {"queue"} /\ TaskOK(y)
  BY <1>1, <1>2 DEF Inside, MayPause, TaskOK, StreamOK, Sends, Reads
<1> QED BY <1>1, <1>3 DEF Lockless, y

LEMMA AfterOpenIsLockless ==
  ASSUME NEW x \in Task, x.op \in Ops, x.lid \in Lids, x.rid \in Nat
  PROVE  Lockless(AfterOpen(x))
BY GotoIsLockless DEF AfterOpen, Sends, Reads

LEMMA ReturnedIsLockless ==
  ASSUME NEW x \in Task, StreamOK(x), x.step \in Reads, NEW p \in WholePacket,
         p.cmd \in Expected(x.step)
  PROVE  Lockless(Returned(x, p))
<1>1. x.op \in Ops /\ x.lid \in Lids /\ (x.step # "opened" => x.rid \in Nat)
      /\ (x.step = "stream" => x.op = Shell)
  BY DEF TaskOK, StreamOK, Sends, Reads
<1>2. CASE x.step = "opened"
  <2> DEFINE y == [x EXCEPT !.rid = p.arg0]
  <2>1. y \in Task /\ y.op = x.op /\ y.lid = x.lid /\ y.rid \in Nat
    BY DEF Task, WholePacket, Packet
  <2>2. Returned(x, p) = AfterOpen(y)
    BY <1>2 DEF Returned
  <2> HIDE DEF y
  <2> QED BY <1>1, <2>1, <2>2, AfterOpenIsLockless
<1>3. CASE x.step = "flush"
  <2>1. Returned(x, p) = Goto(x, "filesync")
    BY <1>3 DEF Returned
  <2> QED BY <1>1, <1>3, <2>1, GotoIsLockless DEF Reads
<1>4. CASE x.step = "clsed"
  <2>1. Returned(x, p) = IdleTask
    BY <1>4 DEF Returned
  <2> QED BY <2>1, IdleIsLockless
<1>5. CASE x.step = "stream" /\ p.cmd = "CLSE"
  <2>1. Returned(x, p) = Goto(x, "reclose")
    BY <1>5 DEF Returned
  <2> QED BY <1>1, <1>5, <2>1, GotoIsLockless DEF Sends
<1>6. CASE x.step \in {"stream", "filesync"} /\ p.cmd # "CLSE"
  <2> DEFINE w == [x EXCEPT !.pkt = p]
             y == Goto(w, "okay")
  <2>1. p.cmd = "WRTE"
    BY <1>6 DEF Expected
  <2>2. Returned(x, p) = y
    BY <1>6 DEF Returned
  <2>3. w \in Task /\ w.op = x.op /\ w.lid = x.lid /\ w.rid = x.rid /\ w.pkt = p
    BY DEF Task, WholePacket
  <2> HIDE DEF w
  <2>4. /\ y \in Task /\ y.step = "okay" /\ y.at = "acquire" /\ y.op = x.op
        /\ y.lid = x.lid /\ y.rid = x.rid /\ y.pkt = p /\ y.part = "header"
    BY <2>3, GotoFields DEF Sends, Reads
  <2> HIDE DEF y
  <2>5. y.at \notin Inside \cup {"queue"} /\ TaskOK(y)
    BY <1>1, <1>6, <2>1, <2>4 DEF Inside, MayPause, TaskOK, StreamOK, Sends, Reads, Resets
  <2> QED BY <2>2, <2>4, <2>5 DEF Lockless
<1>7. x.step = "filesync" => p.cmd # "CLSE"
  BY DEF Expected
<1> QED BY <1>2, <1>3, <1>4, <1>5, <1>6, <1>7 DEF Reads

LEMMA NextChunkIsLockless ==
  ASSUME NEW x \in Task, NEW n, x.op \in Ops, x.lid \in Lids, x.rid \in Nat
  PROVE  Lockless(NextChunk(x, n)) /\ NextChunk(x, n).at \in {"fast", "acquire"}
<1> DEFINE w == [x EXCEPT !.pkt = None]
           s == IF n = Chunks THEN "clse" ELSE "filesync"
<1>1. w \in Task /\ w.op = x.op /\ w.lid = x.lid /\ w.rid = x.rid
  BY DEF Task
<1>2. NextChunk(x, n) = Goto(w, s) /\ s \in {"clse", "filesync"}
  BY DEF NextChunk
<1> HIDE DEF w, s
<1>3. s \in Sends \cup Reads /\ s # "okay" /\ s \notin {"stream", "reclose"}
  BY <1>2 DEF Sends, Reads
<1>4. Lockless(Goto(w, s))
  BY <1>1, <1>3, GotoIsLockless
<1>5. Goto(w, s).at \in {"fast", "acquire"}
  BY <1>1, <1>3, GotoFields
<1> QED BY <1>2, <1>4, <1>5

LEMMA SentIsLockless ==
  ASSUME NEW x \in Task, TaskOK(x), x.step \in Sends
  PROVE  Lockless(Sent(x))
<1>1. /\ x.op \in Ops /\ x.lid \in Lids /\ (x.step # "open" => x.rid \in Nat)
      /\ (x.step = "okay" => x.part # "data")
      /\ (x.step = "okay" => x.pkt \in WholePacket /\ x.pkt.cmd = "WRTE")
  BY DEF TaskOK, StreamOK, Sends, Reads
<1>2. CASE x.step = "open"
  <2>1. Sent(x) = Goto(x, "opened")
    BY <1>2 DEF Sent
  <2> QED BY <1>1, <2>1, GotoIsLockless DEF Reads
<1>3. CASE x.step = "request"
  <2>1. Sent(x) = Goto(x, "flush")
    BY <1>3 DEF Sent
  <2> QED BY <1>1, <1>3, <2>1, GotoIsLockless DEF Reads
<1>4. CASE x.step = "clse"
  <2>1. Sent(x) = Goto(x, "clsed")
    BY <1>4 DEF Sent
  <2> QED BY <1>1, <1>4, <2>1, GotoIsLockless DEF Reads
<1>5. CASE x.step = "reclose"
  <2>1. Sent(x) = IdleTask
    BY <1>5 DEF Sent
  <2> QED BY <2>1, IdleIsLockless
<1>6. CASE x.step = "okay" /\ x.op = Shell
  <2> DEFINE w == [x EXCEPT !.pkt = None]
  <2>1. w \in Task /\ w.op = x.op /\ w.lid = x.lid /\ w.rid = x.rid
    BY DEF Task
  <2>2. Sent(x) = Goto(w, "stream")
    BY <1>6 DEF Sent, Shell, Push, Pull
  <2> HIDE DEF w
  <2> QED BY <1>1, <1>6, <2>1, <2>2, GotoIsLockless DEF Reads
<1>7. CASE x.step = "okay" /\ x.op = Push
  <2>1. Sent(x) = NextChunk(x, x.pkt.data[2])
    BY <1>7 DEF Sent, Shell, Push, Pull
  <2> QED BY <1>1, <1>7, <2>1, NextChunkIsLockless
<1>8. CASE x.step = "okay" /\ x.op = Pull
  <2> DEFINE y == [x EXCEPT !.at = "file"]
  <2>1. Sent(x) = y
    BY <1>8 DEF Sent, Shell, Push, Pull
  <2>2. /\ y \in Task /\ y.at = "file" /\ y.step = "okay" /\ y.op = Pull /\ y.lid = x.lid
        /\ y.rid = x.rid /\ y.pkt = x.pkt /\ y.part = x.part
    BY <1>8 DEF Task, Pauses
  <2> HIDE DEF y
  <2>3. y.at \notin Inside \cup {"queue"} /\ TaskOK(y)
    BY <1>1, <1>8, <2>2 DEF Inside, MayPause, TaskOK, StreamOK, Sends, Reads, Resets
  <2> QED BY <2>1, <2>2, <2>3 DEF Lockless
<1> QED BY <1>1, <1>2, <1>3, <1>4, <1>5, <1>6, <1>7, <1>8 DEF Sends, Ops

LEMMA RaisedIsLockless ==
  ASSUME NEW x \in Task, StreamOK(x)
  PROVE  Lockless(Raised(x))
<1>1. CASE x.op = Pull /\ x.rid # None /\ x.step \notin {"clse", "clsed"}
  <2> DEFINE w == [x EXCEPT !.pkt = None]
  <2>1. w \in Task /\ w.op = x.op /\ w.lid = x.lid /\ w.rid = x.rid
    BY DEF Task
  <2>2. Raised(x) = Goto(w, "clse")
    BY <1>1 DEF Raised
  <2>3. x.op \in Ops /\ x.lid \in Lids /\ x.rid \in Nat
    BY <1>1, TasksAssumption DEF StreamOK, Ops, Task
  <2> HIDE DEF w
  <2> QED BY <2>1, <2>2, <2>3, GotoIsLockless DEF Sends
<1>2. CASE ~(x.op = Pull /\ x.rid # None /\ x.step \notin {"clse", "clsed"})
  <2>1. Raised(x) = IdleTask
    BY <1>2 DEF Raised
  <2> QED BY <2>1, IdleIsLockless
<1> QED BY <1>1, <1>2

(* What a task sends is a message.                                         *)
LEMMA MessageIsMessage ==
  ASSUME NEW x \in Task, TaskOK(x), x.step \in Sends
  PROVE  MessageOf(x) \in Message
<1>1. /\ x.op \in Ops /\ x.lid \in Lids /\ (x.step # "open" => x.rid \in Nat)
  BY DEF TaskOK, StreamOK, Sends, Reads
<1>2. CASE x.step = "open"
  <2>1. MessageOf(x) = Msg("OPEN", x.lid, 0, x.op)
    BY <1>2 DEF MessageOf
  <2> QED BY <1>1, <2>1 DEF Msg, Message
<1>3. CASE x.step = "request"
  <2>1. MessageOf(x) = Msg("WRTE", x.lid, x.rid, x.op)
    BY <1>3 DEF MessageOf
  <2> QED BY <1>1, <1>3, <2>1 DEF Msg, Message
<1>4. CASE x.step = "okay"
  <2>1. MessageOf(x) = Msg("OKAY", x.lid, x.rid, None)
    BY <1>4 DEF MessageOf
  <2> QED BY <1>1, <1>4, <2>1 DEF Msg, Message
<1>5. CASE x.step \in {"clse", "reclose"}
  <2>1. MessageOf(x) = Msg("CLSE", x.lid, x.rid, None)
    BY <1>5 DEF MessageOf
  <2> QED BY <1>1, <1>5, <2>1 DEF Msg, Message
<1> QED BY <1>2, <1>3, <1>4, <1>5 DEF Sends

-----------------------------------------------------------------------------
(* What a step of one task does to the lock and to its queue.              *)

(* The lock when a step takes task t to y.                                 *)
LockMove(t, y) ==
  \/ y.at \in Inside /\ lock' = t /\ lock \in {t, None}
  \/ y.at \notin Inside /\ lock' = None /\ lock \in {t, None}
  \/ y.at \notin Inside /\ lock' = lock /\ lock # t

QueueMove(t, y) ==
  \/ y.at # "queue" /\ task[t].at # "queue" /\ waiters' = waiters
  \/ y.at # "queue" /\ task[t].at = "queue" /\ Head(waiters) = t /\ waiters' = Tail(waiters)
  \/ y.at # "queue" /\ waiters' = Without(waiters, t)
  \/ y.at = "queue" /\ task[t].at # "queue" /\ waiters' = Append(waiters, t)

Leaves(q, t) ==
  /\ \A u \in Tasks \ {t} : (\E i \in DOMAIN q : q[i] = u) <=> \E i \in DOMAIN waiters : waiters[i] = u
  /\ \A i, j \in DOMAIN q : q[i] = q[j] => i = j

LEMMA TailLeaves ==
  ASSUME TasksPart, waiters # <<>>
  PROVE  /\ Tail(waiters) \in Seq(Tasks) /\ Leaves(Tail(waiters), Head(waiters))
         /\ \A i \in DOMAIN Tail(waiters) : Tail(waiters)[i] # Head(waiters)
<1> DEFINE q == Tail(waiters)
<1>1. /\ q \in Seq(Tasks) /\ Len(q) = Len(waiters) - 1 /\ Len(waiters) \in Nat \ {0}
      /\ \A i \in 1 .. Len(q) : q[i] = waiters[i + 1]
      /\ Head(waiters) = waiters[1] /\ DOMAIN q = 1 .. Len(q) /\ DOMAIN waiters = 1 .. Len(waiters)
  BY DEF TasksPart
<1>2. \A i, j \in DOMAIN waiters : waiters[i] = waiters[j] => i = j
  BY DEF TasksPart, LockOK
<1> HIDE DEF q
<1>3. \A i \in DOMAIN q : q[i] # Head(waiters)
  BY <1>1, <1>2
<1>4. \A i, j \in DOMAIN q : q[i] = q[j] => i = j
  <2> SUFFICES ASSUME NEW i \in DOMAIN q, NEW j \in DOMAIN q, q[i] = q[j] PROVE i = j
    OBVIOUS
  <2>1. i + 1 \in DOMAIN waiters /\ j + 1 \in DOMAIN waiters /\ i \in Nat /\ j \in Nat
    BY <1>1
  <2>2. waiters[i + 1] = waiters[j + 1]
    BY <1>1
  <2>3. i + 1 = j + 1
    BY <1>2, <2>1, <2>2
  <2> QED BY <2>1, <2>3
<1>5. ASSUME NEW u \in Tasks \ {Head(waiters)}
      PROVE  (\E i \in DOMAIN q : q[i] = u) <=> \E i \in DOMAIN waiters : waiters[i] = u
  <2>1. ASSUME NEW i \in DOMAIN q, q[i] = u PROVE \E j \in DOMAIN waiters : waiters[j] = u
    <3>1. i + 1 \in DOMAIN waiters /\ waiters[i + 1] = u
      BY <1>1, <2>1
    <3> QED BY <3>1
  <2>2. ASSUME NEW i \in DOMAIN waiters, waiters[i] = u PROVE \E j \in DOMAIN q : q[j] = u
    <3>1. i # 1
      BY <1>1, <1>5, <2>2
    <3>2. i - 1 \in DOMAIN q /\ q[i - 1] = waiters[(i - 1) + 1] /\ (i - 1) + 1 = i
      BY <1>1, <3>1
    <3> QED BY <2>2, <3>2
  <2> QED BY <2>1, <2>2
<1> QED BY <1>1, <1>3, <1>4, <1>5 DEF Leaves, q

LEMMA WithoutLeaves ==
  ASSUME TasksPart, NEW t \in Tasks
  PROVE  /\ Without(waiters, t) \in Seq(Tasks) /\ Leaves(Without(waiters, t), t)
         /\ \A i \in DOMAIN Without(waiters, t) : Without(waiters, t)[i] # t
<1> USE DEF TasksPart
<1>1. CASE \A i \in DOMAIN waiters : waiters[i] # t
  <2>1. Without(waiters, t) = waiters
    BY <1>1 DEF Without
  <2> QED BY <1>1, <2>1 DEF Leaves, LockOK
<1>2. CASE \E i \in DOMAIN waiters : waiters[i] = t
  <2> DEFINE k == CHOOSE i \in DOMAIN waiters : waiters[i] = t
             m == Len(waiters) - 1
             q == [i \in 1 .. m |-> waiters[IF i < k THEN i ELSE i + 1]]
  <2>1. k \in DOMAIN waiters /\ waiters[k] = t
    BY <1>2
  <2>2. Without(waiters, t) = q
    BY <1>2 DEF Without
  <2> HIDE DEF k
  <2>3. /\ DOMAIN waiters = 1 .. Len(waiters) /\ Len(waiters) \in Nat /\ k \in 1 .. Len(waiters)
        /\ m \in Nat /\ m = Len(waiters) - 1
    BY <2>1
  <2>4. \A i, j \in DOMAIN waiters : waiters[i] = waiters[j] => i = j
    BY DEF LockOK
  <2> HIDE DEF m
  <2>5. \A i \in 1 .. m : (IF i < k THEN i ELSE i + 1) \in 1 .. Len(waiters)
    BY <2>3
  <2>6. q \in Seq(Tasks) /\ DOMAIN q = 1 .. m
    <3>1. \A i \in 1 .. m : waiters[IF i < k THEN i ELSE i + 1] \in Tasks
      BY <2>3, <2>5
    <3> QED BY <2>3, <3>1
  <2>7. \A i \in 1 .. m : q[i] = waiters[IF i < k THEN i ELSE i + 1]
    OBVIOUS
  <2> HIDE DEF q
  <2>8. \A i \in 1 .. m : q[i] # t
    BY <2>1, <2>3, <2>4, <2>5, <2>7
  <2>9. ASSUME NEW i \in 1 .. m, NEW j \in 1 .. m, q[i] = q[j] PROVE i = j
    <3>1. (IF i < k THEN i ELSE i + 1) = (IF j < k THEN j ELSE j + 1)
      BY <2>3, <2>4, <2>5, <2>7, <2>9
    <3> QED BY <2>3, <3>1
  <2>10. ASSUME NEW u \in Tasks \ {t}
         PROVE  (\E i \in DOMAIN q : q[i] = u) <=> \E i \in DOMAIN waiters : waiters[i] = u
    <3>1. ASSUME NEW i \in DOMAIN q, q[i] = u PROVE \E j \in DOMAIN waiters : waiters[j] = u
      BY <2>3, <2>5, <2>6, <2>7, <3>1
    <3>2. ASSUME NEW i \in DOMAIN waiters, waiters[i] = u PROVE \E j \in DOMAIN q : q[j] = u
      <4>1. i # k
        BY <2>1, <2>10, <3>2
      <4>2. CASE i < k
        <5>1. i \in 1 .. m
          BY <2>3, <4>2
        <5>2. q[i] = waiters[i]
          BY <2>7, <4>2, <5>1
        <5> QED BY <2>6, <3>2, <5>1, <5>2
      <4>3. CASE i > k
        <5>1. i - 1 \in 1 .. m /\ ~(i - 1 < k) /\ (i - 1) + 1 = i
          BY <2>3, <4>3
        <5>2. q[i - 1] = waiters[i]
          BY <2>7, <5>1
        <5> QED BY <2>6, <3>2, <5>1, <5>2
      <4> QED BY <2>3, <4>1, <4>2, <4>3
    <3> QED BY <3>1, <3>2
  <2> QED BY <2>2, <2>6, <2>8, <2>9, <2>10 DEF Leaves
<1> QED BY <1>1, <1>2

(* A step of one task keeps its part of the invariant.                     *)
LEMMA TaskStep ==
  ASSUME TasksPart, NEW t \in Tasks, NEW y \in Task, TaskOK(y),
         task' = [task EXCEPT ![t] = y], running' \in Tasks \cup {None},
         LockMove(t, y), QueueMove(t, y)
  PROVE  TasksPart'
<1>1. task' \in [Tasks -> Task] /\ task'[t] = y /\ \A u \in Tasks \ {t} : task'[u] = task[u]
  BY DEF TasksPart
<1>2. TasksOK'
  BY <1>1 DEF TasksPart, TasksOK
<1>3. lock' \in Tasks \cup {None} /\ \A u \in Tasks : lock' = u <=> task'[u].at \in Inside
  <2>1. None \notin Tasks
    BY TasksAssumption
  <2> QED BY <1>1, <2>1 DEF TasksPart, LockOK, LockMove
<1>4. /\ waiters' \in Seq(Tasks)
      /\ \A u \in Tasks : task'[u].at = "queue" <=> \E i \in DOMAIN waiters' : waiters'[i] = u
      /\ \A i, j \in DOMAIN waiters' : waiters'[i] = waiters'[j] => i = j
  <2>1. CASE y.at # "queue" /\ task[t].at # "queue" /\ waiters' = waiters
    BY <1>1, <2>1 DEF TasksPart, LockOK
  <2>2. CASE y.at # "queue" /\ task[t].at = "queue" /\ Head(waiters) = t /\ waiters' = Tail(waiters)
    <3>1. waiters # <<>>
      BY <2>2 DEF TasksPart, LockOK
    <3>2. waiters' \in Seq(Tasks) /\ Leaves(waiters', t) /\ \A i \in DOMAIN waiters' : waiters'[i] # t
      BY <2>2, <3>1, TailLeaves
    <3> QED BY <1>1, <2>2, <3>2 DEF Leaves, TasksPart, LockOK
  <2>3. CASE y.at # "queue" /\ waiters' = Without(waiters, t)
    <3>1. waiters' \in Seq(Tasks) /\ Leaves(waiters', t) /\ \A i \in DOMAIN waiters' : waiters'[i] # t
      BY <2>3, WithoutLeaves
    <3> QED BY <1>1, <2>3, <3>1 DEF Leaves, TasksPart, LockOK
  <2>4. CASE y.at = "queue" /\ task[t].at # "queue" /\ waiters' = Append(waiters, t)
    <3>1. /\ waiters' \in Seq(Tasks) /\ DOMAIN waiters' = 1 .. Len(waiters) + 1
          /\ Len(waiters) \in Nat /\ DOMAIN waiters = 1 .. Len(waiters)
          /\ \A i \in 1 .. Len(waiters) : waiters'[i] = waiters[i]
          /\ waiters'[Len(waiters) + 1] = t
      BY <2>4 DEF TasksPart
    <3>2. \A i \in DOMAIN waiters : waiters[i] # t
      BY <2>4 DEF TasksPart, LockOK
    <3>3. ASSUME NEW u \in Tasks
          PROVE  task'[u].at = "queue" <=> \E i \in DOMAIN waiters' : waiters'[i] = u
      <4>1. Len(waiters) + 1 \in DOMAIN waiters'
        BY <3>1
      <4>2. CASE u = t
        BY <1>1, <2>4, <3>1, <4>1, <4>2
      <4>3. CASE u # t
        <5>1. task'[u].at = "queue" <=> \E i \in DOMAIN waiters : waiters[i] = u
          BY <1>1, <4>3 DEF TasksPart, LockOK
        <5>2. (\E i \in DOMAIN waiters : waiters[i] = u) => \E i \in DOMAIN waiters' : waiters'[i] = u
          BY <3>1
        <5>3. ASSUME NEW i \in DOMAIN waiters', waiters'[i] = u
              PROVE  \E j \in DOMAIN waiters : waiters[j] = u
          <6>1. i \in 1 .. Len(waiters)
            BY <3>1, <4>3, <5>3
          <6> QED BY <3>1, <5>3, <6>1
        <5> QED BY <5>1, <5>2, <5>3
      <4> QED BY <4>2, <4>3
    <3>4. ASSUME NEW i \in DOMAIN waiters', NEW j \in DOMAIN waiters', waiters'[i] = waiters'[j]
          PROVE  i = j
      <4>1. \A a, b \in DOMAIN waiters : waiters[a] = waiters[b] => a = b
        BY DEF TasksPart, LockOK
      <4> QED BY <3>1, <3>2, <3>4, <4>1
    <3> QED BY <3>1, <3>3, <3>4
  <2> QED BY <2>1, <2>2, <2>3, <2>4 DEF QueueMove
<1> QED BY <1>1, <1>2, <1>3, <1>4 DEF TasksPart, LockOK

LEMMA ContinueStep ==
  ASSUME TasksPart, NEW t \in Tasks, NEW y \in Task, TaskOK(y), Continue(t, y),
         LockMove(t, y), QueueMove(t, y)
  PROVE  TasksPart'
<1>1. task' = [task EXCEPT ![t] = y] /\ running' \in Tasks \cup {None}
  BY DEF Continue
<1> QED BY <1>1, TaskStep

LEMMA HolderHasLock ==
  ASSUME TasksPart, NEW t \in Tasks
  PROVE  /\ task[t].at \in Inside => lock = t
         /\ task[t].at \notin Inside => lock # t
         /\ task[t] \in Task /\ TaskOK(task[t]) /\ StreamOK(task[t])
BY DEF TasksPart, LockOK, TasksOK, TaskOK

(* A task that leaves the lock alone and is not in the queue.              *)
LEMMA LocklessStep ==
  ASSUME TasksPart, NEW t \in Tasks, NEW y, Lockless(y), Continue(t, y),
         task[t].at \notin Inside \cup {"queue"}, lock' = lock, waiters' = waiters
  PROVE  TasksPart'
BY ContinueStep, HolderHasLock DEF Lockless, LockMove, QueueMove

(* The holder of the lock that gives it back.                              *)
LEMMA GiveBackStep ==
  ASSUME TasksPart, NEW t \in Tasks, NEW y, Lockless(y), Continue(t, y),
         lock = t, lock' = None, waiters' = waiters
  PROVE  TasksPart'
<1>1. task[t].at \in Inside /\ task[t].at # "queue"
  BY DEF TasksPart, LockOK, Inside, MayPause
<1> QED BY <1>1, ContinueStep DEF Lockless, LockMove, QueueMove

(* The holder that keeps it.                                               *)
LEMMA KeepStep ==
  ASSUME TasksPart, NEW t \in Tasks, NEW y \in Task, TaskOK(y), y.at \in Inside, Continue(t, y),
         lock = t, lock' = t, waiters' = waiters
  PROVE  TasksPart'
<1>1. task[t].at # "queue" /\ y.at # "queue"
  BY DEF TasksPart, LockOK, Inside, MayPause
<1> QED BY <1>1, ContinueStep DEF LockMove, QueueMove

(* A task that gets the lock, and keeps it or is done with it at once.     *)
LEMMA EntersStep ==
  ASSUME TasksPart, NEW t \in Tasks, NEW y \in Task, TaskOK(y), Enters(t), Continue(t, y),
         y.at # "queue", lock' = IF y.at \in Inside THEN t ELSE None
  PROVE  TasksPart'
<1>1. lock = None
  BY DEF Enters
<1>2. LockMove(t, y)
  BY <1>1 DEF LockMove
<1>3. QueueMove(t, y)
  <2>1. CASE AtLock(t) /\ waiters' = waiters
    BY <2>1 DEF AtLock, Has, QueueMove
  <2>2. CASE Resumes(t, "queue") /\ Head(waiters) = t /\ waiters' = Tail(waiters)
    BY <2>2 DEF Resumes, QueueMove
  <2> QED BY <2>1, <2>2 DEF Enters
<1> QED BY <1>2, <1>3, ContinueStep

-----------------------------------------------------------------------------
(* The steps keep LInv.                                                    *)

LEMMA RestUnchanged ==
  ASSUME LInv
  PROVE  /\ store' = store => StorePart'
         /\ UNCHANGED wireVars => WirePart'
         /\ UNCHANGED <<available, local_id, bounds, ghosts>> => RestPart'
BY DEF LInv, StorePart, WirePart, RestPart, wireVars, bounds, ghosts

LEMMA InitLInv == Init => LInv
<1> SUFFICES ASSUME Init PROVE LInv
  OBVIOUS
<1>1. IdleTask \in Task /\ TaskOK(IdleTask) /\ IdleTask.at = "idle"
  BY IdleIsLockless DEF Lockless, IdleTask
<1>2. TasksPart
  BY <1>1, TasksAssumption DEF Init, TasksPart, TasksOK, LockOK, Inside, MayPause
<1>3. StorePart
  BY EmptyIsStore DEF Init, StorePart
<1>4. WirePart
  <2>1. NoStream \in DevStream
    BY TasksAssumption DEF NoStream, DevStream
  <2>2. dev \in [Lids -> DevStream]
    BY <2>1 DEF Init
  <2>3. unsent \in Seq(Kinds \X Message) /\ arriving \in Seq(Kinds \X WholePacket)
    BY DEF Init
  <2> QED BY <2>2, <2>3 DEF Init, WirePart
<1>5. RestPart
  BY TasksAssumption DEF Init, RestPart
<1> QED BY <1>2, <1>3, <1>4, <1>5 DEF LInv

LEMMA LQueue ==
  ASSUME LInv, NEW t \in Tasks, Queue(t)
  PROVE  LInv'
<1> DEFINE y == [task[t] EXCEPT !.at = "queue"]
<1>1. TasksPart /\ task[t] \in Task /\ TaskOK(task[t]) /\ task[t].at \in {"acquire", "fast"}
  BY HolderHasLock DEF LInv, Queue, AtLock, Has
<1>2. /\ y \in Task /\ y.at = "queue" /\ y.step = task[t].step /\ y.op = task[t].op
      /\ y.lid = task[t].lid /\ y.rid = task[t].rid /\ y.pkt = task[t].pkt
      /\ y.part = task[t].part
  BY <1>1 DEF Task, Pauses
<1>3. Continue(t, y) /\ lock' = lock /\ waiters' = Append(waiters, t)
      /\ UNCHANGED <<available, store, local_id, wireVars, bounds, ghosts>>
  BY DEF Queue
<1> HIDE DEF y
<1>4. TaskOK(y)
  BY <1>1, <1>2 DEF TaskOK, StreamOK
<1>5. lock # t /\ y.at \notin Inside
  BY <1>1, <1>2, HolderHasLock DEF Inside, MayPause
<1>6. LockMove(t, y) /\ QueueMove(t, y)
  BY <1>1, <1>2, <1>3, <1>5 DEF LockMove, QueueMove
<1>7. TasksPart'
  BY <1>1, <1>2, <1>3, <1>4, <1>6, ContinueStep
<1> QED BY <1>3, <1>7, RestUnchanged DEF LInv

LEMMA LSuspend ==
  ASSUME LInv, NEW t \in Tasks, Suspend(t)
  PROVE  LInv'
<1>1. UNCHANGED <<task, lock, waiters, available, store, local_id, wireVars, bounds, ghosts>>
      /\ running' = None
  BY DEF Suspend
<1>2. TasksPart'
  BY <1>1 DEF LInv, TasksPart, TasksOK, LockOK
<1> QED BY <1>1, <1>2, RestUnchanged DEF LInv

(* A part that is written is a part of a message.                          *)
LEMMA WrittenPart ==
  ASSUME LInv, NEW m \in Message, NEW kind \in Kinds, unsent' = Append(unsent, <<kind, m>>),
         UNCHANGED <<conn, arriving, scrap, dev, half, deaf>>
  PROVE  WirePart'
BY DEF LInv, WirePart

LEMMA LSendHeader ==
  ASSUME LInv, NEW t \in Tasks, SendHeader(t)
  PROVE  LInv'
<1> DEFINE y == [task[t] EXCEPT !.at = "drain"]
<1>1. TasksPart /\ task[t] \in Task /\ TaskOK(task[t]) /\ task[t].step \in Sends
  BY HolderHasLock DEF LInv, SendHeader
<1>2. /\ y \in Task /\ y.at = "drain" /\ y.step = task[t].step /\ y.op = task[t].op
      /\ y.lid = task[t].lid /\ y.rid = task[t].rid /\ y.pkt = task[t].pkt
      /\ y.part = task[t].part
  BY <1>1 DEF Task, Inside, MayPause
<1>3. /\ Continue(t, y) /\ lock' = t /\ Enters(t)
      /\ unsent' = Append(unsent, <<task[t].part, MessageOf(task[t])>>)
  BY DEF SendHeader, Write
<1>4. UNCHANGED <<available, store, local_id, conn, arriving, scrap, dev, half, deaf, bounds, ghosts>>
  BY DEF SendHeader, ghosts
<1> HIDE DEF y
<1>5. TaskOK(y) /\ y.at \in Inside /\ y.at # "queue"
  BY <1>1, <1>2 DEF TaskOK, StreamOK, Inside, MayPause
<1>6. TasksPart'
  BY <1>1, <1>2, <1>3, <1>5, EntersStep
<1>7. WirePart'
  BY <1>1, <1>3, <1>4, MessageIsMessage, WrittenPart DEF Task
<1> QED BY <1>4, <1>6, <1>7, RestUnchanged DEF LInv

(* A message has data if it opens a stream or asks for a file.             *)
LEMMA WithData ==
  ASSUME NEW x \in Task, TaskOK(x), x.step \in Sends
  PROVE  HasData(MessageOf(x)) <=> x.step \in {"open", "request"}
<1>1. x.op # None
  BY TasksAssumption DEF TaskOK, StreamOK
<1>2. CASE x.step \in {"open", "request"}
  <2>1. MessageOf(x).data = x.op
    BY <1>2 DEF MessageOf, Msg
  <2> QED BY <1>1, <1>2, <2>1 DEF HasData
<1>3. CASE x.step \in {"okay", "clse", "reclose"}
  <2>1. MessageOf(x).data = None
    BY <1>3 DEF MessageOf, Msg
  <2> QED BY <1>3, <2>1 DEF HasData
<1> QED BY <1>2, <1>3 DEF Sends

LEMMA LSendData ==
  ASSUME LInv, NEW t \in Tasks, SendData(t)
  PROVE  LInv'
<1> DEFINE x == [task[t] EXCEPT !.part = "data"]
           y == [x EXCEPT !.at = "drain"]
<1>1. TasksPart /\ task[t] \in Task /\ TaskOK(task[t]) /\ task[t].at = "drain"
  BY HolderHasLock DEF LInv, SendData, Resumes
<1>2. task[t].step \in Sends /\ lock = t /\ task[t].step \in {"open", "request"}
  BY <1>1, HolderHasLock, WithData DEF TaskOK, StreamOK, Inside, MayPause, SendData
<1>3. /\ x \in Task /\ x.at = "drain" /\ x.part = "data" /\ x.step = task[t].step
      /\ x.op = task[t].op /\ x.lid = task[t].lid /\ x.rid = task[t].rid /\ x.pkt = task[t].pkt
  BY <1>1 DEF Task, Kinds
<1>4. /\ Continue(t, y) /\ lock' = lock /\ waiters' = waiters
      /\ unsent' = Append(unsent, <<x.part, MessageOf(x)>>)
  BY DEF SendData, Write
<1>5. UNCHANGED <<available, store, local_id, conn, arriving, scrap, dev, half, deaf, bounds, ghosts>>
  BY DEF SendData, ghosts
<1>6. y = x
  BY <1>1, <1>3 DEF Task
<1> HIDE DEF x, y
<1>7. TaskOK(x) /\ x.at \in Inside
  BY <1>1, <1>2, <1>3 DEF TaskOK, StreamOK, Inside, MayPause
<1>8. TasksPart'
  BY <1>1, <1>2, <1>3, <1>4, <1>6, <1>7, KeepStep
<1>9. WirePart'
  BY <1>2, <1>3, <1>4, <1>5, <1>7, MessageIsMessage, WrittenPart DEF Kinds
<1> QED BY <1>5, <1>8, <1>9, RestUnchanged DEF LInv

(* What a caller is handed when its send is done.                          *)
LEMMA ReturnRest ==
  ASSUME LInv, NEW t \in Tasks, task[t].step \in Sends, Return(t, task[t]),
         UNCHANGED <<available, local_id, bounds, lossy, cut>>
  PROVE  RestPart'
<1> DEFINE x == task[t]
<1>1. x \in Task /\ TaskOK(x) /\ x.lid \in Lids
      /\ (x.step = "okay" => x.pkt \in WholePacket /\ x.pkt.cmd = "WRTE")
  BY HolderHasLock DEF LInv, TaskOK, StreamOK
<1>2. x.step = "okay" => x.pkt.data \in Data
  BY <1>1 DEF WholePacket, Packet
<1>3. received' \in [Lids -> Seq(Data)]
  BY <1>1, <1>2 DEF Return, LInv, RestPart
<1>4. complete' \subseteq Lids
  BY <1>1 DEF Return, LInv, RestPart
<1> QED BY <1>3, <1>4 DEF LInv, RestPart, bounds

LEMMA LSendDone ==
  ASSUME LInv, NEW t \in Tasks, SendDone(t)
  PROVE  LInv'
<1>1. TasksPart /\ task[t] \in Task /\ TaskOK(task[t]) /\ task[t].at = "drain"
  BY HolderHasLock DEF LInv, SendDone, Resumes
<1>2. task[t].step \in Sends /\ lock = t
  BY <1>1, HolderHasLock DEF TaskOK, StreamOK, Inside, MayPause
<1>3. /\ Return(t, task[t]) /\ waiters' = waiters
      /\ UNCHANGED <<available, store, local_id, wireVars, bounds, lossy, cut>>
  BY DEF SendDone
<1>4. Lockless(Sent(task[t])) /\ Continue(t, Sent(task[t])) /\ lock' = None
  BY <1>1, <1>2, <1>3, SentIsLockless DEF Return
<1>5. TasksPart'
  BY <1>1, <1>2, <1>3, <1>4, GiveBackStep
<1>6. RestPart'
  BY <1>2, <1>3, ReturnRest
<1> QED BY <1>3, <1>5, <1>6, RestUnchanged DEF LInv

LEMMA LSendNowhere ==
  ASSUME LInv, NEW t \in Tasks, SendNowhere(t)
  PROVE  LInv'
<1>1. TasksPart /\ task[t] \in Task /\ TaskOK(task[t]) /\ task[t].step \in Sends /\ Enters(t)
  BY HolderHasLock DEF LInv, SendNowhere
<1>2. Return(t, task[t]) /\ UNCHANGED <<available, store, local_id, wireVars, bounds, lossy, cut>>
  BY DEF SendNowhere
<1>3. Lockless(Sent(task[t])) /\ Continue(t, Sent(task[t])) /\ lock' = None
  BY <1>1, <1>2, SentIsLockless DEF Return
<1>4. TasksPart'
  BY <1>1, <1>3, EntersStep DEF Lockless
<1>5. RestPart'
  BY <1>1, <1>2, ReturnRest
<1> QED BY <1>2, <1>4, <1>5, RestUnchanged DEF LInv

-----------------------------------------------------------------------------
(* Sequences of parts.                                                     *)

LEMMA TailIs ==
  ASSUME NEW S, NEW w \in Seq(S), w # <<>>
  PROVE  /\ Tail(w) \in Seq(S) /\ Len(Tail(w)) = Len(w) - 1 /\ Len(w) \in Nat \ {0}
         /\ \A i \in 1 .. Len(w) - 1 : Tail(w)[i] = w[i + 1]
         /\ Head(w) = w[1] /\ (Tail(w) = <<>> <=> Len(w) = 1)
<1> DEFINE v == Tail(w)
<1>1. /\ v \in Seq(S) /\ Len(v) = Len(w) - 1 /\ Len(w) \in Nat \ {0}
      /\ \A i \in 1 .. Len(w) - 1 : v[i] = w[i + 1]
      /\ Head(w) = w[1]
  OBVIOUS
<1> HIDE DEF v
<1>2. v = <<>> <=> Len(v) = 0
  BY <1>1
<1>3. v = <<>> <=> Len(w) = 1
  BY <1>1, <1>2
<1> QED BY <1>1, <1>3 DEF v

LEMMA AppendIn ==
  ASSUME NEW S, NEW w \in Seq(S), NEW e \in S
  PROVE  /\ Len(Append(w, e)) = Len(w) + 1 /\ Len(w) \in Nat /\ Append(w, e) \in Seq(S)
         /\ Append(w, e)[Len(w) + 1] = e /\ \A i \in 1 .. Len(w) : Append(w, e)[i] = w[i]
OBVIOUS

LEMMA AppendIs ==
  ASSUME NEW S, NEW w \in Seq(S), NEW e
  PROVE  /\ Len(Append(w, e)) = Len(w) + 1 /\ Len(w) \in Nat /\ Append(w, e) # <<>>
         /\ Append(w, e)[Len(w) + 1] = e /\ \A i \in 1 .. Len(w) : Append(w, e)[i] = w[i]
         /\ (w = <<>> <=> Len(w) = 0) /\ (e \in S => Append(w, e) \in Seq(S))
<1> DEFINE v == Append(w, e)
           R == S \cup {e}
<1>1. w \in Seq(R) /\ e \in R
  OBVIOUS
<1> HIDE DEF R
<1>2. /\ Len(v) = Len(w) + 1 /\ Len(w) \in Nat /\ v \in Seq(R)
      /\ v[Len(w) + 1] = e /\ \A i \in 1 .. Len(w) : v[i] = w[i]
  BY <1>1, AppendIn
<1>3. e \in S => v \in Seq(S)
  BY AppendIn
<1> HIDE DEF v
<1>4. v # <<>> /\ (w = <<>> <=> Len(w) = 0)
  BY <1>2
<1> QED BY <1>2, <1>3, <1>4 DEF v

LEMMA FramedTail ==
  ASSUME NEW S, NEW w \in Seq(S), w # <<>>, Framed(w)
  PROVE  /\ Framed(Tail(w)) /\ (HalfWay(Tail(w)) => HalfWay(w))
         /\ Tail(w) # <<>> => /\ Tail(w)[Len(Tail(w))] = w[Len(w)]
                              /\ IF w[1][1] = "header" /\ HasData(w[1][2])
                                 THEN Tail(w)[1] = <<"data", w[1][2]>> ELSE Tail(w)[1][1] = "header"
         /\ Tail(w) = <<>> => Len(w) = 1
<1> DEFINE v == Tail(w)
<1>1. /\ Len(v) = Len(w) - 1 /\ Len(w) \in Nat \ {0}
      /\ \A i \in 1 .. Len(w) - 1 : v[i] = w[i + 1]
      /\ (v = <<>> <=> Len(w) = 1)
  BY TailIs
<1> HIDE DEF v
<1>2. ASSUME NEW i \in 1 .. Len(v) - 1 PROVE Follows(v, i)
  <2>1. /\ i \in 1 .. Len(w) - 1 /\ i + 1 \in 1 .. Len(w) - 1
        /\ v[i] = w[i + 1] /\ v[i + 1] = w[(i + 1) + 1]
    BY <1>1, <1>2
  <2>2. Follows(w, i + 1)
    BY <2>1 DEF Framed
  <2> QED BY <2>1, <2>2 DEF Follows
<1>3. ASSUME v # <<>>
      PROVE  /\ v[Len(v)] = w[Len(w)]
             /\ IF w[1][1] = "header" /\ HasData(w[1][2])
                THEN v[1] = <<"data", w[1][2]>> ELSE v[1][1] = "header"
  <2>1. Len(v) \in 1 .. Len(w) - 1 /\ Len(v) + 1 = Len(w) /\ 1 \in 1 .. Len(w) - 1
    BY <1>1, <1>3
  <2>2. v[Len(v)] = w[Len(w)] /\ v[1] = w[1 + 1]
    BY <1>1, <2>1
  <2>3. Follows(w, 1)
    BY <2>1 DEF Framed
  <2> QED BY <2>2, <2>3 DEF Follows
<1>4. HalfWay(v) => HalfWay(w)
  BY <1>3 DEF HalfWay
<1> QED BY <1>1, <1>2, <1>3, <1>4 DEF Framed, v

LEMMA FramedAppend ==
  ASSUME NEW S, NEW w \in Seq(S), NEW e, Framed(w),
         w # <<>> => IF HalfWay(w) THEN e = <<"data", w[Len(w)][2]>> ELSE e[1] = "header"
  PROVE  /\ Framed(Append(w, e)) /\ (HalfWay(Append(w, e)) <=> e[1] = "header" /\ HasData(e[2]))
         /\ Append(w, e) # <<>> /\ Append(w, e)[Len(Append(w, e))] = e
         /\ Append(w, e)[1] = IF w = <<>> THEN e ELSE w[1]
<1> DEFINE v == Append(w, e)
<1>1. /\ Len(v) = Len(w) + 1 /\ Len(w) \in Nat /\ v # <<>> /\ v[Len(w) + 1] = e
      /\ \A i \in 1 .. Len(w) : v[i] = w[i]
      /\ (w = <<>> <=> Len(w) = 0)
  BY AppendIs
<1> HIDE DEF v
<1>2. ASSUME NEW i \in 1 .. Len(v) - 1 PROVE Follows(v, i)
  <2>1. CASE i = Len(w)
    <3>1. w # <<>> /\ v[i] = w[Len(w)] /\ v[i + 1] = e
      BY <1>1, <1>2, <2>1
    <3> QED BY <3>1 DEF Follows, HalfWay
  <2>2. CASE i # Len(w)
    <3>1. i \in 1 .. Len(w) - 1 /\ v[i] = w[i] /\ v[i + 1] = w[i + 1]
      BY <1>1, <1>2, <2>2
    <3>2. Follows(w, i)
      BY <3>1 DEF Framed
    <3> QED BY <3>1, <3>2 DEF Follows
  <2> QED BY <2>1, <2>2
<1>3. HalfWay(v) <=> e[1] = "header" /\ HasData(e[2])
  BY <1>1 DEF HalfWay
<1>4. v[1] = IF w = <<>> THEN e ELSE w[1]
  BY <1>1
<1> QED BY <1>1, <1>2, <1>3, <1>4 DEF Framed, v

-----------------------------------------------------------------------------
(* Who else is inside.                                                     *)

Wired == {"drain", "data", "closing", "dial", "greet"}

(* What is inside is the holder of the lock, and nobody with the lock free.*)
LEMMA Alone ==
  ASSUME LInv, NEW t \in Tasks, lock \in {t, None}
  PROVE  \A u \in Tasks \ {t} : task[u].at \notin Inside /\ task[u].at \notin Wired
<1>1. Wired \subseteq Inside
  BY DEF Wired, Inside, MayPause
<1>2. \A u \in Tasks \ {t} : task[u].at \notin Inside
  BY TasksAssumption DEF LInv, TasksPart, LockOK
<1> QED BY <1>1, <1>2

LEMMA OutsideFree ==
  ASSUME LInv, NEW t \in Tasks, Enters(t)
  PROVE  \A u \in Tasks : task[u].at \notin Wired
<1>1. lock = None /\ Wired \subseteq Inside
  BY DEF Enters, Wired, Inside, MayPause
<1> QED BY <1>1, TasksAssumption DEF LInv, TasksPart, LockOK

LEMMA TaskBecomes ==
  ASSUME LInv, NEW t \in Tasks, NEW y, Continue(t, y)
  PROVE  task'[t] = y /\ \A u \in Tasks \ {t} : task'[u] = task[u]
BY DEF LInv, TasksPart, Continue

-----------------------------------------------------------------------------
(* The steps of read.                                                      *)

LEMMA MatchesHit ==
  ASSUME NEW x, NEW k \in Matches(x)
  PROVE  k \in DOMAIN store /\ store[k] # <<>>
BY FindHits, FindAllowZerosHits DEF Matches

(* A packet that is taken from the store is one of the wire again.         *)
LEMMA TakesPacket ==
  ASSUME LInv, NEW t \in Tasks, task[t].step \in Reads, NEW here \in {"fast", "locked"},
         TakeStored(t, here)
  PROVE  /\ StorePart' /\ DOMAIN store' \subseteq DOMAIN store
         /\ \E y \in Task : /\ TaskOK(y) /\ Continue(t, y)
                            /\ Lockless(y) \/ (y = [task[t] EXCEPT !.at = here] /\ y.at = here)
<1>1. PICK k \in Matches(task[t]) :
        /\ store' = AfterGet(store, k)
        /\ LET q == PacketAt(store, k)
               p == Msg(q.cmd, k[1], k[2], q.data)
           IN  Continue(t, IF p.cmd \in Expected(task[t].step)
                           THEN Returned(task[t], p) ELSE [task[t] EXCEPT !.at = here])
  BY DEF TakeStored
<1> DEFINE q == PacketAt(store, k)
           p == Msg(q.cmd, k[1], k[2], q.data)
           x == task[t]
           z == [x EXCEPT !.at = here]
<1>2. k \in DOMAIN store /\ store[k] # <<>>
  BY MatchesHit
<1>3. k \in Nat \X Lids /\ q \in WholeStored /\ StorePart'
  BY <1>1, <1>2, GetKeepsStore DEF LInv, StorePart
<1>4. DOMAIN store' \subseteq DOMAIN store
  BY <1>1, <1>2, GetQueues
<1>5. p \in WholePacket
  BY <1>3 DEF WholePacket, Packet, WholeStored, Stored, Msg
<1>6. x \in Task /\ TaskOK(x) /\ StreamOK(x) /\ x.step \in Reads
  BY HolderHasLock DEF LInv
<1>7. Continue(t, IF p.cmd \in Expected(x.step) THEN Returned(x, p) ELSE z)
  BY <1>1
<1>8. CASE p.cmd \in Expected(x.step)
  <2>1. Lockless(Returned(x, p))
    BY <1>5, <1>6, <1>8, ReturnedIsLockless
  <2>2. Continue(t, Returned(x, p))
    BY <1>7, <1>8
  <2> QED BY <1>3, <1>4, <2>1, <2>2 DEF Lockless
<1>9. CASE p.cmd \notin Expected(x.step)
  <2>1. /\ z \in Task /\ z.at = here /\ z.step = x.step /\ z.op = x.op /\ z.lid = x.lid
        /\ z.rid = x.rid /\ z.pkt = x.pkt /\ z.part = x.part
    BY <1>6 DEF Task, Inside
  <2>2. Continue(t, z)
    BY <1>7, <1>9
  <2> HIDE DEF z, x
  <2>3. TaskOK(z)
    BY <1>6, <2>1 DEF TaskOK, StreamOK, Sends, Reads
  <2> QED BY <1>3, <1>4, <2>1, <2>2, <2>3 DEF z, x
<1> QED BY <1>8, <1>9

LEMMA LReadStore ==
  ASSUME LInv, NEW t \in Tasks, ReadStore(t)
  PROVE  LInv' /\ DOMAIN store' \subseteq DOMAIN store
<1>1. TasksPart /\ task[t].at = "fast" /\ task[t].step \in Reads
  BY HolderHasLock DEF LInv, ReadStore, Has, TaskOK, StreamOK
<1>2. TakeStored(t, "fast") /\ UNCHANGED <<lock, waiters, available, local_id, wireVars, bounds, ghosts>>
  BY DEF ReadStore
<1>3. StorePart' /\ DOMAIN store' \subseteq DOMAIN store
  BY <1>1, <1>2, TakesPacket
<1>4. PICK y \in Task : /\ TaskOK(y) /\ Continue(t, y)
                        /\ Lockless(y) \/ (y = [task[t] EXCEPT !.at = "fast"] /\ y.at = "fast")
  BY <1>1, <1>2, TakesPacket
<1>5. Lockless(y)
  BY <1>4 DEF Lockless, Inside, MayPause
<1>6. TasksPart'
  BY <1>1, <1>2, <1>4, <1>5, LocklessStep DEF Inside, MayPause
<1> QED BY <1>2, <1>3, <1>6, RestUnchanged DEF LInv

LEMMA LRecheckStore ==
  ASSUME LInv, NEW t \in Tasks, RecheckStore(t)
  PROVE  LInv' /\ DOMAIN store' \subseteq DOMAIN store
<1> DEFINE z == [task[t] EXCEPT !.at = "header"]
<1>1. TasksPart /\ task[t] \in Task /\ TaskOK(task[t]) /\ task[t].step \in Reads
  BY HolderHasLock DEF LInv, RecheckStore
<1>2. /\ Enters(t) \/ (Has(t, "locked") /\ waiters' = waiters)
      /\ lock' = IF task'[t].at \in {"locked", "header"} THEN t ELSE None
      /\ UNCHANGED <<available, local_id, wireVars, bounds, ghosts>>
  BY DEF RecheckStore
<1>3. /\ StorePart' /\ DOMAIN store' \subseteq DOMAIN store
      /\ \E y \in Task : /\ TaskOK(y) /\ Continue(t, y)
                         /\ Lockless(y) \/ y.at \in {"locked", "header"}
  <2>1. CASE TakeStored(t, "locked")
    <3>1. StorePart' /\ DOMAIN store' \subseteq DOMAIN store
      BY <1>1, <2>1, TakesPacket
    <3>2. PICK y \in Task : /\ TaskOK(y) /\ Continue(t, y)
                            /\ Lockless(y) \/ (y = [task[t] EXCEPT !.at = "locked"] /\ y.at = "locked")
      BY <1>1, <2>1, TakesPacket
    <3> QED BY <3>1, <3>2
  <2>2. CASE UNCHANGED store /\ Continue(t, z)
    <3>1. /\ z \in Task /\ z.at = "header" /\ z.step = task[t].step /\ z.op = task[t].op
          /\ z.lid = task[t].lid /\ z.rid = task[t].rid /\ z.pkt = task[t].pkt
          /\ z.part = task[t].part
      BY <1>1 DEF Task, Inside, MayPause
    <3> HIDE DEF z
    <3>2. TaskOK(z)
      BY <1>1, <3>1 DEF TaskOK, StreamOK, Sends, Reads
    <3> QED BY <2>2, <3>1, <3>2, RestUnchanged
  <2> QED BY <2>1, <2>2 DEF RecheckStore
<1>4. PICK y \in Task : /\ TaskOK(y) /\ Continue(t, y)
                        /\ Lockless(y) \/ y.at \in {"locked", "header"}
  BY <1>3
<1>5. task'[t] = y /\ y.at # "queue" /\ lock' = IF y.at \in Inside THEN t ELSE None
  <2>1. task'[t] = y
    BY <1>1, <1>4 DEF Continue, TasksPart
  <2> QED BY <1>2, <1>4, <2>1 DEF Lockless, Inside, MayPause
<1>6. TasksPart'
  <2>1. CASE Enters(t)
    BY <1>1, <1>4, <1>5, <2>1, EntersStep
  <2>2. CASE Has(t, "locked") /\ waiters' = waiters
    <3>1. lock = t
      BY <1>1, <2>2, HolderHasLock DEF Has, Inside
    <3>2. CASE Lockless(y)
      BY <1>1, <1>4, <1>5, <2>2, <3>1, <3>2, GiveBackStep DEF Lockless
    <3>3. CASE y.at \in {"locked", "header"}
      <4>1. y.at \in Inside
        BY <3>3 DEF Inside, MayPause
      <4> QED BY <1>1, <1>4, <1>5, <2>2, <3>1, <4>1, KeepStep
    <3> QED BY <1>4, <3>2, <3>3
  <2> QED BY <1>2, <2>1, <2>2
<1> QED BY <1>2, <1>3, <1>6, RestUnchanged DEF LInv

(* A packet is put into the store, returned or dropped.                    *)
LEMMA DispatchStep ==
  ASSUME LInv, NEW t \in Tasks, task[t].step \in Reads, lock = t, NEW p \in WholePacket,
         Dispatch(t, p), waiters' = waiters
  PROVE  /\ TasksPart' /\ StorePart'
         /\ \E y : Lockless(y) /\ Continue(t, y)
<1> DEFINE x == [task[t] EXCEPT !.pkt = None]
           k == <<p.arg0, p.arg1>>
           a == [x EXCEPT !.at = "acquire"]
<1>1. TasksPart /\ task[t] \in Task /\ TaskOK(task[t]) /\ task[t].at \in Inside
  BY HolderHasLock DEF LInv
<1>2. /\ x \in Task /\ x.step = task[t].step /\ x.op = task[t].op /\ x.lid = task[t].lid
      /\ x.rid = task[t].rid
  BY <1>1 DEF Task
<1>3. /\ a \in Task /\ a.at = "acquire" /\ a.step = task[t].step /\ a.op = task[t].op
      /\ a.lid = task[t].lid /\ a.rid = task[t].rid /\ a.part = task[t].part
  BY <1>1 DEF Task, Inside
<1>4. /\ lock' = None
      /\ store' = CASE ~args_match(x, p) -> Put(store, k, p.cmd, p.data)
                    [] p.cmd = "CLSE" /\ args_match(x, p) -> Clear(store, k)
                    [] OTHER -> store
      /\ IF args_match(x, p) /\ p.cmd \in Expected(x.step)
         THEN Continue(t, Returned(x, p))
         ELSE Continue(t, a) \/ Continue(t, Raised(x))
  BY DEF Dispatch
<1>5. StorePart'
  <2>1. k \in Nat \X Lids /\ [cmd |-> p.cmd, data |-> p.data] \in WholeStored
    BY DEF WholePacket, Packet, WholeStored, Stored
  <2>2. IsStore(Put(store, k, p.cmd, p.data), Nat \X Lids, WholeStored)
    BY <2>1, PutKeepsStore DEF LInv, StorePart
  <2>3. IsStore(Clear(store, k), Nat \X Lids, WholeStored)
    BY ClearKeepsStore DEF LInv, StorePart
  <2>4. store' \in {Put(store, k, p.cmd, p.data), Clear(store, k), store}
    BY <1>4
  <2> QED BY <2>2, <2>3, <2>4 DEF LInv, StorePart
<1>6. StreamOK(x)
  BY <1>1, <1>2 DEF TaskOK, StreamOK
<1>7. Lockless(a)
  BY <1>1, <1>3 DEF Lockless, TaskOK, StreamOK, Inside, MayPause, Sends, Reads
<1> HIDE DEF x, a, k
<1>8. \E y : Lockless(y) /\ Continue(t, y)
  <2>1. CASE args_match(x, p) /\ p.cmd \in Expected(x.step)
    BY <1>2, <1>4, <1>6, <2>1, ReturnedIsLockless
  <2>2. CASE ~(args_match(x, p) /\ p.cmd \in Expected(x.step))
    <3>1. Continue(t, a) \/ Continue(t, Raised(x))
      BY <1>4, <2>2
    <3> QED BY <1>2, <1>6, <1>7, <3>1, RaisedIsLockless
  <2> QED BY <2>1, <2>2
<1>9. TasksPart'
  BY <1>1, <1>4, <1>8, GiveBackStep
<1> QED BY <1>5, <1>8, <1>9

(* The holder of the lock is in none but one of the with blocks.           *)
LEMMA ReaderHolds ==
  ASSUME LInv, NEW t \in Tasks, task[t].at \in {"header", "data"}
  PROVE  /\ TasksPart /\ task[t] \in Task /\ TaskOK(task[t]) /\ StreamOK(task[t])
         /\ lock = t /\ task[t].step \in Reads
<1>1. TasksPart /\ task[t].at \in Inside
  BY DEF LInv, Inside, MayPause
<1>2. lock = t /\ task[t] \in Task /\ TaskOK(task[t]) /\ StreamOK(task[t])
  BY <1>1, HolderHasLock
<1>3. task[t].step \in Reads
  BY <1>2 DEF TaskOK
<1> QED BY <1>1, <1>2, <1>3

(* What is left to arrive.                                                 *)
LEMMA TailArrives ==
  ASSUME LInv, arriving # <<>>
  PROVE  /\ Head(arriving)[2] \in WholePacket /\ Head(arriving)[1] \in Kinds
         /\ Tail(arriving) \in Seq(Kinds \X WholePacket)
BY DEF LInv, WirePart

LEMMA LReadHeader ==
  ASSUME LInv, NEW t \in Tasks, ReadHeader(t)
  PROVE  /\ LInv'
         /\ \/ \E y : Lockless(y) /\ Continue(t, y) /\ ~HasData(Head(arriving)[2])
            \/ \E y \in Task : /\ Continue(t, y) /\ y.at = "data" /\ y.pkt = Head(arriving)[2]
                               /\ HasData(Head(arriving)[2]) /\ store' = store
<1> DEFINE p == Head(arriving)[2]
           y == [task[t] EXCEPT !.pkt = p, !.at = "data"]
<1>1. /\ task[t].at = "header" /\ arriving # <<>>
      /\ arriving' = Tail(arriving) /\ UNCHANGED <<scrap, lossy, cut, readRest>>
      /\ IF HasData(p) THEN Continue(t, y) /\ UNCHANGED <<lock, store>> ELSE Dispatch(t, p)
  BY DEF ReadHeader, Resumes
<1>2. /\ TasksPart /\ task[t] \in Task /\ TaskOK(task[t]) /\ StreamOK(task[t])
      /\ lock = t /\ task[t].step \in Reads
  BY <1>1, ReaderHolds
<1>3. p \in WholePacket /\ Tail(arriving) \in Seq(Kinds \X WholePacket)
  BY <1>1, TailArrives
<1>4. WirePart'
  BY <1>1, <1>3 DEF LInv, WirePart, readRest
<1>5. RestPart' /\ waiters' = waiters
  BY <1>1 DEF LInv, RestPart, readRest, bounds
<1>6. CASE HasData(p)
  <2>1. /\ y \in Task /\ y.at = "data" /\ y.pkt = p /\ y.step = task[t].step /\ y.op = task[t].op
        /\ y.lid = task[t].lid /\ y.rid = task[t].rid /\ y.part = task[t].part
    BY <1>2, <1>3 DEF Task, Inside, MayPause, WholePacket
  <2>2. Continue(t, y) /\ lock' = lock /\ store' = store
    BY <1>1, <1>6
  <2> HIDE DEF y, p
  <2>3. TaskOK(y) /\ y.at \in Inside
    BY <1>2, <1>3, <1>6, <2>1 DEF TaskOK, StreamOK, Inside, MayPause, Sends, Reads, Resets
  <2>4. TasksPart'
    BY <1>2, <1>5, <2>1, <2>2, <2>3, KeepStep
  <2>5. StorePart'
    BY <2>2, RestUnchanged
  <2> QED BY <1>4, <1>5, <1>6, <2>1, <2>2, <2>4, <2>5 DEF LInv, p
<1>7. CASE ~HasData(p)
  <2>1. Dispatch(t, p)
    BY <1>1, <1>7
  <2> HIDE DEF p
  <2>2. TasksPart' /\ StorePart' /\ \E z : Lockless(z) /\ Continue(t, z)
    BY <1>2, <1>3, <1>5, <2>1, DispatchStep
  <2> QED BY <1>4, <1>5, <1>7, <2>2 DEF LInv, p
<1> QED BY <1>6, <1>7

(* A packet is given up, and the streams of which one was are streams.     *)
LEMMA GivesUp ==
  ASSUME LInv, NEW p \in WholePacket, GivenUp(p)
  PROVE  lossy' \subseteq Lids /\ cut' \subseteq {"in", "out"}
BY DEF LInv, RestPart, GivenUp, WholePacket, Packet

(* What is ahead of a task that is not between a header and its data.      *)
LEMMA PacketAhead ==
  ASSUME LInv, WInv, arriving # <<>>, \A u \in Tasks : task[u].at # "data"
  PROVE  /\ Head(arriving)[1] = "header" /\ Head(arriving)[2] \in WholePacket
         /\ HasData(Head(arriving)[2]) =>
              Tail(arriving) # <<>> /\ Tail(arriving)[1] = <<"data", Head(arriving)[2]>>
         /\ AfterPacket(arriving) \in Seq(Kinds \X WholePacket)
<1> DEFINE w == arriving
           v == Tail(w)
<1>1. w \in Seq(Kinds \X WholePacket) /\ Framed(w) /\ ~HalfWay(w) /\ w # <<>>
  BY DEF LInv, WirePart, WInv, ArrivingOK
<1>2. w[1][1] = "header" /\ Head(w) = w[1] /\ w[1][2] \in WholePacket /\ v \in Seq(Kinds \X WholePacket)
  <2>1. w[1][1] # "data"
    BY <1>1 DEF WInv, ArrivingOK
  <2>2. Head(w) = w[1] /\ v \in Seq(Kinds \X WholePacket) /\ w[1] \in Kinds \X WholePacket
    BY <1>1
  <2> HIDE DEF w, v
  <2> QED BY <2>1, <2>2 DEF Kinds
<1>3. /\ v # <<>> /\ HasData(w[1][2]) => v[1] = <<"data", w[1][2]>>
      /\ v = <<>> => Len(w) = 1
  BY <1>1, <1>2, FramedTail
<1>4. HasData(w[1][2]) => v # <<>>
  BY <1>1, <1>2, <1>3 DEF HalfWay
<1> HIDE DEF w, v
<1>5. AfterPacket(w) \in Seq(Kinds \X WholePacket)
  BY <1>2, <1>4, TailIs DEF AfterPacket, v
<1> QED BY <1>2, <1>3, <1>4, <1>5 DEF w, v

(* Bytes that are thrown away while nobody is between a header and its     *)
(* data.                                                                   *)
LEMMA SpoiledKeeps ==
  ASSUME LInv, WInv, HeaderSpoiled, \A u \in Tasks : task[u].at # "data"
  PROVE  /\ scrap' \in BOOLEAN /\ arriving' \in Seq(Kinds \X WholePacket)
         /\ lossy' \subseteq Lids /\ cut' \subseteq {"in", "out"}
<1>1. CASE scrap' \in BOOLEAN /\ UNCHANGED <<arriving, lossy, cut>>
  BY <1>1 DEF LInv, WirePart, RestPart
<1>2. CASE /\ arriving # <<>> /\ arriving' = AfterPacket(arriving) /\ scrap' = TRUE
           /\ GivenUp(Head(arriving)[2])
  BY <1>2, PacketAhead, GivesUp
<1> QED BY <1>1, <1>2 DEF HeaderSpoiled

LEMMA LReadData ==
  ASSUME LInv, NEW t \in Tasks, ReadData(t)
  PROVE  LInv' /\ \E y : Lockless(y) /\ Continue(t, y)
<1> DEFINE p == task[t].pkt
<1>1. /\ task[t].at = "data" /\ arriving # <<>>
      /\ arriving' = Tail(arriving) /\ UNCHANGED <<scrap, readRest>>
      /\ \/ Dispatch(t, p) /\ UNCHANGED <<lossy, cut>>
         \/ GivenUp(p) /\ lock' = None /\ Continue(t, Raised(task[t])) /\ store' = store
  BY DEF ReadData, DataIsThere, Resumes
<1>2. /\ TasksPart /\ task[t] \in Task /\ TaskOK(task[t]) /\ StreamOK(task[t])
      /\ lock = t /\ task[t].step \in Reads
  BY <1>1, ReaderHolds
<1>3. p \in WholePacket /\ Tail(arriving) \in Seq(Kinds \X WholePacket)
  BY <1>1, <1>2, TailArrives DEF TaskOK
<1>4. WirePart'
  BY <1>1, <1>3 DEF LInv, WirePart, readRest
<1>5. waiters' = waiters
  BY <1>1 DEF readRest
<1> HIDE DEF p
<1>6. RestPart'
  <2>1. lossy' \subseteq Lids /\ cut' \subseteq {"in", "out"}
    <3>1. CASE UNCHANGED <<lossy, cut>>
      BY <3>1 DEF LInv, RestPart
    <3>2. CASE GivenUp(p)
      BY <1>3, <3>2, GivesUp
    <3> QED BY <1>1, <3>1, <3>2
  <2> QED BY <1>1, <2>1 DEF LInv, RestPart, readRest, bounds
<1>7. TasksPart' /\ StorePart' /\ \E y : Lockless(y) /\ Continue(t, y)
  <2>1. CASE Dispatch(t, p)
    BY <1>2, <1>3, <1>5, <2>1, DispatchStep
  <2>2. CASE lock' = None /\ Continue(t, Raised(task[t])) /\ store' = store
    <3>1. Lockless(Raised(task[t]))
      BY <1>2, RaisedIsLockless
    <3>2. TasksPart'
      BY <1>2, <1>5, <2>2, <3>1, GiveBackStep
    <3> QED BY <2>2, <3>1, <3>2, RestUnchanged
  <2> QED BY <1>1, <2>1, <2>2
<1> QED BY <1>4, <1>6, <1>7 DEF LInv

LEMMA LReadNoHeader ==
  ASSUME LInv, WInv, NEW t \in Tasks, ReadNoHeader(t)
  PROVE  LInv' /\ \E y : Lockless(y) /\ Continue(t, y)
<1>1. /\ task[t].at = "header" /\ HeaderSpoiled /\ lock' = None
      /\ Continue(t, Raised(task[t])) /\ UNCHANGED <<store, readRest>>
  BY DEF ReadNoHeader, Resumes
<1>2. TasksPart /\ task[t] \in Task /\ StreamOK(task[t]) /\ lock = t
  BY <1>1, ReaderHolds
<1>3. \A u \in Tasks : task[u].at # "data"
  BY <1>1, <1>2, Alone DEF Wired
<1>4. /\ scrap' \in BOOLEAN /\ arriving' \in Seq(Kinds \X WholePacket)
      /\ lossy' \subseteq Lids /\ cut' \subseteq {"in", "out"}
  BY <1>1, <1>3, SpoiledKeeps
<1>5. WirePart' /\ RestPart'
  BY <1>1, <1>4 DEF LInv, WirePart, RestPart, readRest, bounds
<1>6. StorePart' /\ waiters' = waiters
  BY <1>1, RestUnchanged DEF readRest
<1>7. Lockless(Raised(task[t]))
  BY <1>2, RaisedIsLockless
<1>8. TasksPart'
  BY <1>1, <1>2, <1>6, <1>7, GiveBackStep
<1> QED BY <1>1, <1>5, <1>6, <1>7, <1>8 DEF LInv

-----------------------------------------------------------------------------
(* Exceptions, calls, files.                                               *)

(* A task that handles data, or has acknowledged them, knows its stream.   *)
LEMMA FileIsLockless ==
  ASSUME LInv, NEW t \in Tasks, task[t].at \in {"file", "callback"}
  PROVE  /\ Lockless(NextChunk(task[t], task[t].pkt.data[2]))
         /\ TasksPart /\ task[t] \in Task /\ TaskOK(task[t]) /\ task[t].at \notin Inside \cup {"queue"}
<1>1. TasksPart /\ task[t] \in Task /\ TaskOK(task[t])
  BY HolderHasLock DEF LInv
<1>2. task[t].op \in Ops /\ task[t].lid \in Lids /\ task[t].rid \in Nat
  BY <1>1 DEF TaskOK, StreamOK, Sends
<1> QED BY <1>1, <1>2, NextChunkIsLockless DEF Inside, MayPause

LEMMA LStrike ==
  ASSUME LInv, WInv, NEW t \in Tasks, task[t].at \in Awaits, Strike(t),
         cancels' \in 0 .. MaxCancels /\ resets' = resets
  PROVE  /\ LInv'
         /\ \E y : Lockless(y) /\ Continue(t, y)
<1> DEFINE x == task[t]
           y == IF x.at = "callback" THEN NextChunk(x, x.pkt.data[2]) ELSE Raised(x)
<1>1. TasksPart /\ x \in Task /\ TaskOK(x) /\ StreamOK(x) /\ (lock = t <=> x.at \in Inside)
  BY HolderHasLock DEF LInv
<1>2. /\ lock' = IF lock = t THEN None ELSE lock
      /\ waiters' = Without(waiters, t)
      /\ Continue(t, y)
      /\ conn' \in {"wedged", conn}
      /\ Interrupted(x)
      /\ UNCHANGED <<available, store, local_id, unsent, dev, half, deaf, received, complete>>
  BY DEF Strike
<1>3. Lockless(y)
  <2>1. CASE x.at = "callback"
    BY <2>1, FileIsLockless
  <2>2. CASE x.at # "callback"
    BY <1>1, <2>2, RaisedIsLockless
  <2> QED BY <2>1, <2>2
<1> HIDE DEF x, y
<1>4. LockMove(t, y) /\ QueueMove(t, y)
  BY <1>1, <1>2, <1>3 DEF LockMove, QueueMove, Lockless
<1>5. TasksPart'
  BY <1>1, <1>2, <1>3, <1>4, ContinueStep DEF Lockless
<1>6. /\ scrap' \in BOOLEAN /\ arriving' \in Seq(Kinds \X WholePacket)
      /\ lossy' \subseteq Lids /\ cut' \subseteq {"in", "out"}
  <2>1. CASE x.at = "header" /\ HeaderSpoiled
    <3>1. \A u \in Tasks : task[u].at # "data"
      BY <2>1, ReaderHolds, Alone DEF x, Wired
    <3> QED BY <2>1, <3>1, SpoiledKeeps
  <2>2. CASE /\ x.at = "data" /\ GivenUp(x.pkt)
             /\ arriving' = Tail(arriving) /\ scrap' = TRUE
    <3>1. x.pkt \in WholePacket
      BY <1>1, <2>2 DEF TaskOK
    <3>2. arriving # <<>>
      BY <2>2 DEF x, WInv, ArrivingOK
    <3> QED BY <2>2, <3>1, <3>2, GivesUp, TailArrives
  <2>3. CASE cut' \in {cut, cut \cup {"out"}} /\ UNCHANGED <<arriving, scrap, lossy>>
    BY <2>3 DEF LInv, WirePart, RestPart
  <2> QED BY <1>2, <2>1, <2>2, <2>3 DEF Interrupted
<1>7. WirePart' /\ StorePart' /\ RestPart'
  BY <1>2, <1>6 DEF LInv, WirePart, StorePart, RestPart
<1> QED BY <1>2, <1>3, <1>5, <1>7 DEF LInv

LEMMA LCancel ==
  ASSUME LInv, WInv, NEW t \in Tasks, Cancel(t)
  PROVE  LInv'
<1>1. task[t].at \in Awaits /\ Strike(t) /\ resets' = resets /\ cancels' \in 0 .. MaxCancels
  BY TasksAssumption DEF Cancel, LInv, RestPart
<1> QED BY <1>1, LStrike

LEMMA LTimeout ==
  ASSUME LInv, WInv, NEW t \in Tasks, Timeout(t)
  PROVE  LInv'
<1>1. task[t].at \in Awaits /\ Strike(t) /\ resets' = resets /\ cancels' \in 0 .. MaxCancels
  BY DEF Timeout, LInv, RestPart, bounds, Awaits, Pauses, MayPause
<1> QED BY <1>1, LStrike

LEMMA LNoConnection ==
  ASSUME LInv, NEW t \in Tasks, NoConnection(t)
  PROVE  LInv' /\ \E y : Lockless(y) /\ Continue(t, y)
<1>1. /\ lock' = None /\ Continue(t, Raised(task[t]))
      /\ UNCHANGED <<available, store, local_id, wireVars, bounds, ghosts>>
  BY DEF NoConnection
<1>2. TasksPart /\ task[t] \in Task /\ StreamOK(task[t])
  BY HolderHasLock DEF LInv
<1>3. Lockless(Raised(task[t]))
  BY <1>2, RaisedIsLockless
<1>4. TasksPart'
  <2>1. CASE Enters(t)
    BY <1>1, <1>2, <1>3, <2>1, EntersStep DEF Lockless
  <2>2. CASE Has(t, "header") /\ waiters' = waiters
    <3>1. lock = t
      BY <2>2, ReaderHolds DEF Has
    <3> QED BY <1>1, <1>2, <1>3, <2>2, <3>1, GiveBackStep
  <2> QED BY <2>1, <2>2 DEF NoConnection
<1> QED BY <1>1, <1>3, <1>4, RestUnchanged DEF LInv

LEMMA LStart ==
  ASSUME LInv, NEW t \in Tasks, NEW o \in Ops, Start(t, o)
  PROVE  LInv' /\ \E y : Lockless(y) /\ Continue(t, y)
<1> DEFINE x == [IdleTask EXCEPT !.op = o, !.lid = local_id']
<1>1. /\ task[t].at = "idle" /\ local_id < MaxCalls /\ local_id' = local_id + 1
      /\ Continue(t, Goto(x, "open"))
      /\ UNCHANGED <<lock, waiters, available, store, wireVars, bounds, ghosts>>
  BY DEF Start
<1>2. local_id' \in Lids
  BY <1>1, TasksAssumption DEF LInv, RestPart, Lids
<1>3. x \in Task /\ x.op = o /\ x.lid = local_id'
  <2>1. IdleTask \in Task
    BY IdleIsLockless DEF Lockless
  <2> QED BY <1>2, <2>1 DEF Task
<1> HIDE DEF x
<1>4. Lockless(Goto(x, "open"))
  BY <1>2, <1>3, GotoIsLockless DEF Sends
<1>5. TasksPart'
  BY <1>1, <1>4, LocklessStep DEF LInv, Inside, MayPause
<1>6. RestPart'
  BY <1>1, <1>2 DEF LInv, RestPart, bounds, ghosts
<1> QED BY <1>1, <1>4, <1>5, <1>6, RestUnchanged DEF LInv

LEMMA LWriteFile ==
  ASSUME LInv, NEW t \in Tasks, WriteFile(t) \/ CalledBack(t)
  PROVE  LInv' /\ \E y : Lockless(y) /\ Continue(t, y)
<1> DEFINE x == task[t]
           z == [x EXCEPT !.at = "callback"]
           n == NextChunk(x, x.pkt.data[2])
<1>1. /\ x.at \in {"file", "callback"} /\ (Continue(t, z) \/ Continue(t, n))
      /\ UNCHANGED <<lock, waiters, available, store, local_id, wireVars, bounds, ghosts>>
  BY DEF WriteFile, CalledBack, Resumes
<1>2. /\ TasksPart /\ x \in Task /\ TaskOK(x) /\ x.at \notin Inside \cup {"queue"}
      /\ Lockless(n)
  BY <1>1, FileIsLockless
<1>3. Lockless(z)
  <2>1. /\ z \in Task /\ z.at = "callback" /\ z.step = x.step /\ z.op = x.op /\ z.lid = x.lid
        /\ z.rid = x.rid /\ z.pkt = x.pkt /\ z.part = x.part
    BY <1>2 DEF Task, Pauses
  <2> HIDE DEF x, z
  <2> QED BY <1>1, <1>2, <2>1 DEF Lockless, TaskOK, StreamOK, Inside, MayPause, Sends, Reads, Resets
<1> HIDE DEF x, z, n
<1>4. PICK y : Lockless(y) /\ Continue(t, y)
  BY <1>1, <1>2, <1>3
<1>5. TasksPart'
  BY <1>1, <1>2, <1>4, LocklessStep DEF x
<1> QED BY <1>1, <1>4, <1>5, RestUnchanged DEF LInv

-----------------------------------------------------------------------------
(* close and connect.                                                      *)

LEMMA LCallReset ==
  ASSUME LInv, NEW t \in Tasks, NEW c \in Resets, CallReset(t, c)
  PROVE  LInv' /\ \E y : Lockless(y) /\ Continue(t, y)
<1> DEFINE y == Goto(IdleTask, c)
<1>1. /\ task[t].at = "idle" /\ resets < MaxResets /\ resets' = resets + 1 /\ available' = FALSE
      /\ Continue(t, y) /\ UNCHANGED <<lock, waiters, store, local_id, wireVars, cancels, ghosts>>
  BY DEF CallReset
<1>2. IdleTask \in Task /\ IdleTask.op = None
  BY IdleIsLockless DEF Lockless, IdleTask
<1>3. y \in Task /\ y.step = c /\ y.at = "acquire" /\ y.op = None /\ y.part = "header"
  BY <1>2, GotoFields DEF Resets, Reads
<1> HIDE DEF y
<1>4. Lockless(y)
  BY <1>3 DEF Lockless, TaskOK, StreamOK, Inside, MayPause, Sends, Reads, Resets
<1>5. TasksPart'
  BY <1>1, <1>4, LocklessStep DEF LInv, Inside, MayPause
<1>6. RestPart'
  <2>1. resets' \in 0 .. MaxResets
    BY <1>1, TasksAssumption DEF LInv, RestPart
  <2> QED BY <1>1, <2>1 DEF LInv, RestPart, ghosts
<1> QED BY <1>1, <1>4, <1>5, <1>6, RestUnchanged DEF LInv

(* A call of close or connect goes to its next await.                      *)
LEMMA ResetMoves ==
  ASSUME NEW x \in Task, TaskOK(x), x.step \in Resets, NEW at \in {"closing", "dial", "greet"}
  PROVE  /\ [x EXCEPT !.at = at] \in Task /\ TaskOK([x EXCEPT !.at = at])
         /\ [x EXCEPT !.at = at].at = at /\ at \in Inside
         /\ [x EXCEPT !.at = at].step = x.step
<1> DEFINE y == [x EXCEPT !.at = at]
<1>1. /\ y \in Task /\ y.at = at /\ y.step = x.step /\ y.op = x.op /\ y.part = x.part
      /\ at \in Inside
  BY DEF Task, Inside
<1> HIDE DEF y
<1>2. TaskOK(y)
  BY <1>1 DEF TaskOK, StreamOK, Sends, Reads, Resets
<1> QED BY <1>1, <1>2 DEF y

LEMMA EndedIsStream ==
  ASSUME NEW d \in DevStream, NEW how \in {"closed", "gone"}
  PROVE  /\ Ended(d, how) \in DevStream /\ Ended(d, how).st = how
         /\ Ended(d, how).op = d.op
<1> DEFINE d1 == [d EXCEPT !.st = how]
           d2 == [d1 EXCEPT !.credit = 0]
           d3 == [d2 EXCEPT !.asked = FALSE]
<1>1. d1 \in DevStream /\ d1.st = how /\ d1.op = d.op
  BY DEF DevStream
<1>2. Ended(d, how) = d3
  BY DEF Ended
<1> HIDE DEF d1
<1>3. d2 \in DevStream /\ d2.st = how /\ d2.op = d.op
  BY <1>1 DEF DevStream
<1> HIDE DEF d2
<1>4. d3 \in DevStream /\ d3.st = how /\ d3.op = d.op
  BY <1>3 DEF DevStream
<1> QED BY <1>2, <1>4

LEMMA LBeginClosing ==
  ASSUME LInv, NEW t \in Tasks, BeginClosing(t)
  PROVE  LInv'
<1> DEFINE y == [task[t] EXCEPT !.at = "closing"]
<1>1. /\ Enters(t) /\ task[t].step \in Resets /\ lock' = t /\ Continue(t, y)
      /\ conn' = "closing" /\ half' = None /\ deaf' = FALSE /\ cut' = cut \ {"out"}
      /\ dev' = [l \in Lids |-> IF dev[l].st = "none" THEN dev[l] ELSE Ended(dev[l], "gone")]
      /\ UNCHANGED <<available, store, local_id, unsent, arriving, scrap, bounds, received, complete,
                     lossy>>
  BY DEF BeginClosing
<1>2. TasksPart /\ task[t] \in Task /\ TaskOK(task[t])
  BY HolderHasLock DEF LInv
<1>3. y \in Task /\ TaskOK(y) /\ y.at = "closing" /\ y.at \in Inside
  BY <1>1, <1>2, ResetMoves
<1> HIDE DEF y
<1>4. TasksPart'
  BY <1>1, <1>2, <1>3, EntersStep
<1>5. dev' \in [Lids -> DevStream]
  BY <1>1, EndedIsStream DEF LInv, WirePart
<1>6. WirePart' /\ RestPart'
  BY <1>1, <1>5 DEF LInv, WirePart, RestPart, bounds
<1> QED BY <1>1, <1>4, <1>6, RestUnchanged DEF LInv

LEMMA LCloseTransport ==
  ASSUME LInv, NEW t \in Tasks, CloseTransport(t)
  PROVE  /\ LInv'
         /\ \E y \in Task : Continue(t, y) /\ y.at \in {"idle", "dial"}
<1> DEFINE y == IF task[t].step = "close" THEN IdleTask ELSE [task[t] EXCEPT !.at = "dial"]
<1>1. /\ store' = EmptyStore /\ conn' = "closed" /\ arriving' = <<>> /\ scrap' = FALSE /\ cut' = {}
      /\ \/ task[t].step = "close" /\ lock' = None /\ Continue(t, IdleTask)
         \/ task[t].step = "connect" /\ lock' = t /\ Continue(t, [task[t] EXCEPT !.at = "dial"])
      /\ UNCHANGED <<available, local_id, unsent, dev, half, deaf, bounds, received, complete, lossy>>
  BY DEF CloseTransport, Emptied
<1>2. TasksPart /\ task[t] \in Task /\ TaskOK(task[t]) /\ task[t].step \in Resets
  BY <1>1, HolderHasLock DEF LInv, Resets
<1>3. /\ y \in Task /\ TaskOK(y) /\ y.at \in {"idle", "dial"} /\ Continue(t, y)
      /\ lock' = IF y.at \in Inside THEN t ELSE None
  <2>1. CASE task[t].step = "close"
    <3>1. y = IdleTask /\ Lockless(y) /\ y.at = "idle"
      BY <2>1, IdleIsLockless DEF IdleTask
    <3> QED BY <1>1, <2>1, <3>1 DEF Lockless
  <2>2. CASE task[t].step = "connect"
    <3>1. y = [task[t] EXCEPT !.at = "dial"]
      BY <2>2
    <3>2. y \in Task /\ TaskOK(y) /\ y.at = "dial" /\ y.at \in Inside
      <4> DEFINE x == task[t]
                 z == [x EXCEPT !.at = "dial"]
      <4>1. x \in Task /\ TaskOK(x) /\ x.step \in Resets /\ y = z
        BY <1>2, <3>1
      <4> HIDE DEF x, y
      <4>2. z \in Task /\ TaskOK(z) /\ z.at = "dial" /\ "dial" \in Inside
        BY <4>1, ResetMoves
      <4> HIDE DEF z
      <4> QED BY <4>1, <4>2
    <3> QED BY <1>1, <2>2, <3>1, <3>2
  <2> QED BY <1>2, <2>1, <2>2 DEF Resets
<1> HIDE DEF y
<1>4. TasksPart'
  <2>1. CASE Enters(t)
    BY <1>2, <1>3, <2>1, EntersStep
  <2>2. CASE Resumes(t, "closing") /\ waiters' = waiters
    <3>1. lock = t /\ task[t].at # "queue"
      BY <1>2, <2>2, HolderHasLock DEF Resumes, Inside
    <3>2. LockMove(t, y) /\ QueueMove(t, y)
      BY <1>3, <2>2, <3>1 DEF LockMove, QueueMove
    <3> QED BY <1>2, <1>3, <3>2, ContinueStep
  <2> QED BY <2>1, <2>2 DEF CloseTransport, Closing
<1>5. StorePart'
  BY <1>1, EmptyIsStore DEF StorePart
<1>6. WirePart'
  <2>1. arriving' \in Seq(Kinds \X WholePacket)
    BY <1>1
  <2> QED BY <1>1, <2>1 DEF LInv, WirePart
<1>7. RestPart'
  BY <1>1 DEF LInv, RestPart, bounds
<1> QED BY <1>3, <1>4, <1>5, <1>6, <1>7 DEF LInv

LEMMA LCloseWedged ==
  ASSUME LInv, NEW t \in Tasks, CloseWedged(t)
  PROVE  LInv' /\ Lockless(IdleTask) /\ Continue(t, IdleTask)
<1>1. /\ Enters(t) /\ lock' = None /\ Continue(t, IdleTask)
      /\ UNCHANGED <<available, store, local_id, wireVars, bounds, ghosts>>
  BY DEF CloseWedged
<1>2. TasksPart'
  BY <1>1, IdleIsLockless, EntersStep DEF LInv, Lockless
<1> QED BY <1>1, <1>2, IdleIsLockless, RestUnchanged DEF LInv

LEMMA LDialed ==
  ASSUME LInv, NEW t \in Tasks, Dialed(t)
  PROVE  /\ LInv'
         /\ \E y \in Task : Continue(t, y) /\ y.at = "greet"
<1> DEFINE y == [task[t] EXCEPT !.at = "greet"]
<1>1. /\ task[t].at = "dial" /\ conn' = "open" /\ Continue(t, y)
      /\ UNCHANGED <<lock, waiters, available, store, local_id, unsent, arriving, scrap, dev, half,
                     deaf, bounds, ghosts>>
  BY DEF Dialed, Resumes
<1>2. TasksPart /\ task[t] \in Task /\ TaskOK(task[t]) /\ lock = t
  BY <1>1, HolderHasLock DEF LInv, Inside
<1>3. y \in Task /\ TaskOK(y) /\ y.at = "greet" /\ y.at \in Inside
  BY <1>1, <1>2, ResetMoves DEF TaskOK
<1> HIDE DEF y
<1>4. TasksPart'
  BY <1>1, <1>2, <1>3, KeepStep
<1>5. WirePart'
  BY <1>1 DEF LInv, WirePart
<1> QED BY <1>1, <1>3, <1>4, <1>5, RestUnchanged DEF LInv

LEMMA LGreeted ==
  ASSUME LInv, NEW t \in Tasks, Greeted(t)
  PROVE  LInv' /\ Lockless(IdleTask) /\ Continue(t, IdleTask)
<1>1. /\ task[t].at = "greet" /\ lock' = None /\ Continue(t, IdleTask) /\ available' = TRUE
      /\ UNCHANGED <<waiters, store, local_id, wireVars, bounds, ghosts>>
  BY DEF Greeted, Resumes
<1>2. TasksPart /\ lock = t
  BY <1>1, HolderHasLock DEF LInv, Inside
<1>3. TasksPart'
  BY <1>1, <1>2, IdleIsLockless, GiveBackStep
<1>4. RestPart'
  BY <1>1 DEF LInv, RestPart, bounds, ghosts
<1> QED BY <1>1, <1>3, <1>4, IdleIsLockless, RestUnchanged DEF LInv

-----------------------------------------------------------------------------
(* The device.                                                             *)

DeviceMove ==
  /\ UNCHANGED devRest
  /\ dev' \in [Lids -> DevStream]
  /\ unsent' \in Seq(Kinds \X Message)
  /\ half' \in Message \cup {None} /\ deaf' \in BOOLEAN
  /\ arriving' = arriving \/ \E p \in WholePacket : arriving' = arriving \o Parts(p)

(* A packet arrives in one part or in two.                                 *)
LEMMA PartsAre ==
  ASSUME NEW p
  PROVE  /\ HasData(p) => Parts(p) = << <<"header", p>>, <<"data", p>> >>
         /\ ~HasData(p) => Parts(p) = << <<"header", p>> >>
BY DEF Parts

LEMMA ShortSeqs ==
  ASSUME NEW S, NEW a \in S, NEW b \in S
  PROVE  <<a>> \in Seq(S) /\ <<a, b>> \in Seq(S)
OBVIOUS

LEMMA PartsArrive ==
  ASSUME LInv, NEW p \in WholePacket
  PROVE  arriving \o Parts(p) \in Seq(Kinds \X WholePacket)
<1>1. Parts(p) \in Seq(Kinds \X WholePacket)
  <2>1. <<"header", p>> \in Kinds \X WholePacket /\ <<"data", p>> \in Kinds \X WholePacket
    BY DEF Kinds
  <2>2. CASE HasData(p)
    BY <2>1, <2>2, PartsAre, ShortSeqs
  <2>3. CASE ~HasData(p)
    BY <2>1, <2>3, PartsAre, ShortSeqs
  <2> QED BY <2>2, <2>3
<1> QED BY <1>1 DEF LInv, WirePart

LEMMA DeviceKeeps ==
  ASSUME LInv, DeviceMove
  PROVE  LInv'
<1>1. UNCHANGED <<running, task, lock, waiters, available, store, local_id, conn, scrap, bounds, ghosts>>
  BY DEF DeviceMove, devRest
<1>2. TasksPart'
  BY <1>1 DEF LInv, TasksPart, TasksOK, LockOK
<1>3. arriving' \in Seq(Kinds \X WholePacket)
  <2>1. CASE arriving' = arriving
    BY <2>1 DEF LInv, WirePart
  <2>2. ASSUME NEW p \in WholePacket, arriving' = arriving \o Parts(p)
        PROVE  arriving' \in Seq(Kinds \X WholePacket)
    BY <2>2, PartsArrive
  <2> QED BY <2>1, <2>2 DEF DeviceMove
<1>4. WirePart'
  BY <1>1, <1>3 DEF LInv, WirePart, DeviceMove
<1> QED BY <1>1, <1>2, <1>4, RestUnchanged DEF LInv

(* What the device makes of a whole message.                               *)
LEMMA HandleMoves ==
  ASSUME LInv, NEW m \in Message, DevHandle(m)
  PROVE  /\ dev' \in [Lids -> DevStream]
         /\ arriving' = arriving \/ \E p \in WholePacket : arriving' = arriving \o Parts(p)
<1> DEFINE l == m.arg0
<1>1. l \in Lids /\ l \in Nat /\ DevId(l) \in Nat /\ dev[l] \in DevStream
  BY TasksAssumption DEF Message, LInv, WirePart, DevId, Lids
<1>2. dev \in [Lids -> DevStream]
  BY DEF LInv, WirePart
<1>3. /\ Msg("OKAY", DevId(l), l, None) \in WholePacket
      /\ Msg("CLSE", DevId(l), l, None) \in WholePacket
      /\ Msg("CLSE", 0, l, None) \in WholePacket
  BY <1>1 DEF Msg, WholePacket, Packet
<1>4. CASE m.cmd = "OPEN"
  <2>1. DevOpen(m)
    BY <1>4 DEF DevHandle
  <2>2. [st |-> "open", op |-> m.data, credit |-> 1, n |-> 0, asked |-> FALSE] \in DevStream
    BY TasksAssumption DEF DevStream, Message
  <2> QED BY <1>1, <1>2, <1>3, <2>1, <2>2 DEF DevOpen, Answer
<1>5. CASE m.cmd # "OPEN" /\ dev[l].st # "open"
  <2>1. dev' = dev /\ arriving' = arriving
    BY <1>5 DEF DevHandle
  <2> QED BY <1>2, <2>1
<1>6. CASE m.cmd = "OKAY" /\ dev[l].st = "open"
  <2>1. dev' = [dev EXCEPT ![l].credit = 1] /\ arriving' = arriving
    BY <1>6 DEF DevHandle
  <2>2. [dev[l] EXCEPT !.credit = 1] \in DevStream
    BY <1>1 DEF DevStream
  <2> QED BY <1>1, <1>2, <2>1, <2>2
<1>7. CASE m.cmd = "WRTE" /\ dev[l].st = "open"
  <2>1. dev' = [dev EXCEPT ![l].asked = TRUE] /\ Answer("OKAY", DevId(l), l)
    BY <1>7 DEF DevHandle
  <2>2. [dev[l] EXCEPT !.asked = TRUE] \in DevStream
    BY <1>1 DEF DevStream
  <2> QED BY <1>1, <1>2, <1>3, <2>1, <2>2 DEF Answer
<1>8. CASE m.cmd = "CLSE" /\ dev[l].st = "open"
  <2>1. dev' = [dev EXCEPT ![l] = Ended(@, "closed")] /\ Answer("CLSE", DevId(l), l)
    BY <1>8 DEF DevHandle
  <2> QED BY <1>1, <1>2, <1>3, <2>1, EndedIsStream DEF Answer
<1>9. m.cmd \in {"OPEN", "OKAY", "WRTE", "CLSE"}
  BY DEF Message
<1> QED BY <1>4, <1>5, <1>6, <1>7, <1>8, <1>9

LEMMA LDevTake ==
  ASSUME LInv, DevTake
  PROVE  LInv'
<1> DEFINE kind == Head(unsent)[1]
           m == Head(unsent)[2]
<1>1. unsent # <<>> /\ unsent' = Tail(unsent) /\ UNCHANGED devRest
  BY DEF DevTake
<1>2. kind \in Kinds /\ m \in Message /\ unsent' \in Seq(Kinds \X Message)
  BY <1>1 DEF LInv, WirePart
<1>3. dev \in [Lids -> DevStream] /\ half \in Message \cup {None} /\ deaf \in BOOLEAN
  BY DEF LInv, WirePart
<1>4. \/ UNCHANGED <<dev, arriving>> /\ half' \in {half, m} /\ deaf' \in {deaf, TRUE}
      \/ DevHandle(m) /\ half' \in {half, None} /\ deaf' = deaf
  BY DEF DevTake
<1> HIDE DEF kind, m
<1>5. CASE UNCHANGED <<dev, arriving>> /\ half' \in {half, m} /\ deaf' \in {deaf, TRUE}
  <2>1. DeviceMove
    BY <1>1, <1>2, <1>3, <1>5 DEF DeviceMove
  <2> QED BY <2>1, DeviceKeeps
<1>6. CASE DevHandle(m) /\ half' \in {half, None} /\ deaf' = deaf
  <2>1. DeviceMove
    BY <1>1, <1>2, <1>3, <1>6, HandleMoves DEF DeviceMove
  <2> QED BY <2>1, DeviceKeeps
<1> QED BY <1>4, <1>5, <1>6

LEMMA LDevSend ==
  ASSUME LInv, NEW l \in Lids, DevSend(l) \/ DevClose(l)
  PROVE  LInv'
<1>1. dev \in [Lids -> DevStream] /\ dev[l] \in DevStream /\ unsent \in Seq(Kinds \X Message)
      /\ half \in Message \cup {None} /\ deaf \in BOOLEAN
  BY DEF LInv, WirePart
<1>2. l \in Nat /\ DevId(l) \in Nat
  BY TasksAssumption DEF DevId, Lids
<1>3. CASE DevSend(l)
  <2> DEFINE p == Msg("WRTE", DevId(l), l, <<l, dev[l].n + 1>>)
             e == [dev[l] EXCEPT !.n = dev[l].n + 1]
             f == [e EXCEPT !.credit = 0]
  <2>1. /\ dev[l].n < Chunks /\ dev' = [dev EXCEPT ![l] = f] /\ arriving' = arriving \o Parts(p)
        /\ UNCHANGED <<devRest, unsent, half, deaf>>
    BY <1>3 DEF DevSend
  <2>2. dev[l].n + 1 \in 1 .. Chunks
    BY <1>1, <2>1, TasksAssumption DEF DevStream
  <2>3. p \in WholePacket
    <3>1. <<l, dev[l].n + 1>> \in Data
      BY <2>2 DEF Data
    <3>2. <<l, dev[l].n + 1>> # None
      BY <3>1, TasksAssumption
    <3> QED BY <1>2, <3>1, <3>2 DEF Msg, WholePacket, Packet
  <2>4. e \in DevStream
    <3>1. dev[l].n + 1 \in 0 .. Chunks
      BY <2>2, TasksAssumption
    <3> QED BY <1>1, <3>1 DEF DevStream
  <2> HIDE DEF e
  <2>5. f \in DevStream
    BY <2>4 DEF DevStream
  <2> HIDE DEF f, p
  <2>6. DeviceMove
    BY <1>1, <2>1, <2>3, <2>5 DEF DeviceMove
  <2> QED BY <2>6, DeviceKeeps
<1>4. CASE DevClose(l)
  <2>1. /\ dev' = [dev EXCEPT ![l] = Ended(dev[l], "closed")]
        /\ arriving' = arriving \o Parts(Msg("CLSE", DevId(l), l, None))
        /\ UNCHANGED <<devRest, unsent, half, deaf>>
    BY <1>4 DEF DevClose, Answer
  <2>2. Msg("CLSE", DevId(l), l, None) \in WholePacket
    BY <1>2 DEF Msg, WholePacket, Packet
  <2>3. dev' \in [Lids -> DevStream]
    BY <1>1, <2>1, EndedIsStream
  <2>4. DeviceMove
    BY <1>1, <2>1, <2>2, <2>3 DEF DeviceMove
  <2> QED BY <2>4, DeviceKeeps
<1> QED BY <1>3, <1>4

-----------------------------------------------------------------------------
(* All steps keep LInv.                                                    *)

LEMMA RunLInv ==
  ASSUME LInv, WInv, NEW t \in Tasks, Run(t)
  PROVE  LInv'
<1>1. CASE Queue(t) \/ Suspend(t) \/ SendHeader(t) \/ SendData(t) \/ SendDone(t) \/ SendNowhere(t)
  BY <1>1, LQueue, LSuspend, LSendHeader, LSendData, LSendDone, LSendNowhere
<1>2. CASE ReadStore(t) \/ RecheckStore(t) \/ ReadHeader(t) \/ ReadData(t) \/ ReadNoHeader(t)
  BY <1>2, LReadStore, LRecheckStore, LReadHeader, LReadData, LReadNoHeader
<1>3. CASE Timeout(t) \/ NoConnection(t) \/ WriteFile(t) \/ CalledBack(t)
  BY <1>3, LTimeout, LNoConnection, LWriteFile
<1>4. CASE BeginClosing(t) \/ CloseTransport(t) \/ CloseWedged(t) \/ Dialed(t) \/ Greeted(t)
  BY <1>4, LBeginClosing, LCloseTransport, LCloseWedged, LDialed, LGreeted
<1> QED BY <1>1, <1>2, <1>3, <1>4 DEF Run

LEMMA NextLInv == IInv /\ [Next]_vars => LInv'
<1> SUFFICES ASSUME LInv, WInv, [Next]_vars PROVE LInv'
  BY DEF IInv
<1>1. CASE UNCHANGED vars
  <2>1. UNCHANGED <<running, task, lock, waiters, available, store, local_id, wireVars, bounds, ghosts>>
    BY <1>1 DEF vars
  <2>2. TasksPart'
    BY <2>1 DEF LInv, TasksPart, TasksOK, LockOK
  <2> QED BY <2>1, <2>2, RestUnchanged DEF LInv
<1>2. CASE Device
  BY <1>2, LDevTake, LDevSend DEF Device
<1>3. ASSUME NEW t \in Tasks, Run(t) PROVE LInv'
  BY <1>3, RunLInv
<1>4. ASSUME NEW t \in Tasks, Call(t) PROVE LInv'
  BY <1>4, LStart, LCallReset DEF Call
<1>5. ASSUME NEW t \in Tasks, Cancel(t) PROVE LInv'
  BY <1>5, LCancel
<1> QED BY <1>1, <1>2, <1>3, <1>4, <1>5 DEF Next, Resting

-----------------------------------------------------------------------------
(* Whole packets that arrive.                                              *)

LEMMA FramedParts ==
  ASSUME NEW S, NEW w \in Seq(S), NEW p, <<"header", p>> \in S, Framed(w), ~HalfWay(w)
  PROVE  /\ Framed(w \o Parts(p)) /\ ~HalfWay(w \o Parts(p)) /\ w \o Parts(p) # <<>>
         /\ (w \o Parts(p))[1] = IF w = <<>> THEN <<"header", p>> ELSE w[1]
<1> DEFINE a == <<"header", p>>
           b == <<"data", p>>
           v == Append(w, a)
<1>1. a[1] = "header" /\ b[1] = "data" /\ a[2] = p
  OBVIOUS
<1>2. v \in Seq(S)
  <2>1. a \in S
    OBVIOUS
  <2> HIDE DEF a
  <2> QED BY <2>1, AppendIs
<1>3. /\ Framed(v) /\ (HalfWay(v) <=> HasData(p)) /\ v # <<>> /\ v[Len(v)] = a
      /\ v[1] = IF w = <<>> THEN a ELSE w[1]
  <2> HIDE DEF a
  <2> QED BY <1>1, FramedAppend
<1>4. CASE ~HasData(p)
  <2>1. w \o Parts(p) = v
    <3>1. Parts(p) = <<a>>
      BY <1>4, PartsAre
    <3> QED BY <3>1
  <2> QED BY <1>3, <1>4, <2>1
<1>5. CASE HasData(p)
  <2>1. w \o Parts(p) = Append(v, b)
    <3>1. Parts(p) = <<a, b>>
      BY <1>5, PartsAre
    <3> HIDE DEF a, b
    <3>2. w \o <<a, b>> = Append(Append(w, a), b)
      OBVIOUS
    <3> QED BY <3>1, <3>2 DEF v
  <2>2. b = <<"data", v[Len(v)][2]>>
    BY <1>1, <1>3
  <2> HIDE DEF v, b
  <2>3. /\ Framed(Append(v, b)) /\ ~HalfWay(Append(v, b)) /\ Append(v, b) # <<>>
        /\ Append(v, b)[1] = v[1]
    BY <1>1, <1>2, <1>3, <1>5, <2>2, FramedAppend
  <2> QED BY <1>3, <2>1, <2>3
<1> QED BY <1>4, <1>5

-----------------------------------------------------------------------------
(* The steps of tasks keep WInv.                                           *)

(* A task that neither comes to an await of the transport nor leaves one   *)
(* at which something was half done.                                       *)
LEMMA QuietStep ==
  ASSUME LInv, WInv, NEW t \in Tasks, NEW y, Continue(t, y), y.at \notin Wired,
         task[t].at \notin {"data", "closing"}, ~Owes(task[t]),
         UNCHANGED <<wireVars, cut>>,
         \/ DOMAIN store' \subseteq DOMAIN store
         \/ \A u \in Tasks \ {t} : task[u].at \notin Wired
  PROVE  WInv'
<1>1. task'[t] = y /\ \A u \in Tasks \ {t} : task'[u] = task[u]
  BY TaskBecomes
<1>2. \A u \in Tasks : task'[u].at \in Wired => u # t /\ task'[u] = task[u]
  BY <1>1
<1>3. UNCHANGED <<conn, unsent, arriving, scrap, dev, half, deaf, cut>>
  BY DEF wireVars
<1>4. ConnOK'
  <2>1. \A u \in Tasks : task'[u].at \in {"dial", "greet"} => DOMAIN store' = {}
    BY <1>2 DEF WInv, ConnOK, Wired
  <2>2. conn = "closing" => \E u \in Tasks : task'[u].at = "closing"
    <3>1. \A u \in Tasks : task[u].at = "closing" => task'[u].at = "closing"
      BY <1>1
    <3> QED BY <3>1 DEF WInv, ConnOK
  <2>3. (\E u \in Tasks : task'[u].at = "greet") => \E u \in Tasks : task[u].at = "greet"
    BY <1>2 DEF Wired
  <2> QED BY <1>2, <1>3, <2>1, <2>2, <2>3 DEF WInv, ConnOK, Wired
<1>5. ArrivingOK'
  <2>1. \A u \in Tasks : (task'[u].at = "data" <=> task[u].at = "data")
                         /\ (task'[u].at = "data" => task'[u] = task[u])
    BY <1>1 DEF Wired
  <2> QED BY <1>3, <2>1 DEF WInv, ArrivingOK, Framed, Follows, HalfWay
<1>6. UnsentOK'
  <2>1. \A u \in Tasks : (Owes(task'[u]) <=> Owes(task[u])) /\ (Owes(task'[u]) => task'[u] = task[u])
    BY <1>1 DEF Wired, Owes
  <2> HIDE DEF Owes
  <2> QED BY <1>3, <2>1 DEF WInv, UnsentOK, Framed, Follows, HalfWay
<1>7. HalfOK'
  BY <1>3 DEF WInv, HalfOK
<1> QED BY <1>4, <1>5, <1>6, <1>7 DEF WInv

LEMMA LocklessIsQuiet ==
  ASSUME NEW y, Lockless(y)
  PROVE  y.at \notin Wired
BY DEF Lockless, Wired, Inside, MayPause

LEMMA WSendQuiet ==
  ASSUME LInv, WInv, NEW t \in Tasks, SendDone(t) \/ SendNowhere(t)
  PROVE  WInv'
<1>1. /\ task[t] \in Task /\ TaskOK(task[t]) /\ task[t].step \in Sends
      /\ task[t].at \notin {"data", "closing"} /\ ~Owes(task[t])
  <2>1. TasksPart /\ task[t] \in Task /\ TaskOK(task[t])
    BY HolderHasLock DEF LInv
  <2>2. CASE SendDone(t)
    BY <2>1, <2>2 DEF SendDone, Resumes, TaskOK, Owes
  <2>3. CASE SendNowhere(t)
    <3>1. task[t].step \in Sends /\ task[t].at \notin Wired
      BY <2>3, OutsideFree DEF SendNowhere
    <3> QED BY <2>1, <3>1 DEF Wired, Owes
  <2> QED BY <2>2, <2>3
<1>2. Continue(t, Sent(task[t])) /\ UNCHANGED <<store, wireVars, cut>>
  BY DEF SendDone, SendNowhere, Return
<1>3. Lockless(Sent(task[t]))
  BY <1>1, SentIsLockless
<1> QED BY <1>1, <1>2, <1>3, QuietStep, LocklessIsQuiet

LEMMA WQueue ==
  ASSUME LInv, WInv, NEW t \in Tasks, Queue(t)
  PROVE  WInv'
<1> DEFINE y == [task[t] EXCEPT !.at = "queue"]
<1>1. Continue(t, y) /\ UNCHANGED <<store, wireVars, cut>> /\ task[t].at \in {"acquire", "fast"}
  BY DEF Queue, AtLock, Has, ghosts
<1>2. y.at = "queue"
  BY DEF LInv, TasksPart, Task
<1> HIDE DEF y
<1> QED BY <1>1, <1>2, QuietStep DEF Wired, Owes

LEMMA WStore ==
  ASSUME LInv, WInv, NEW t \in Tasks, ReadStore(t) \/ RecheckStore(t)
  PROVE  WInv'
<1>1. task[t].step \in Reads /\ task[t] \in Task
  BY HolderHasLock DEF LInv, ReadStore, RecheckStore, Has, TaskOK
<1>2. DOMAIN store' \subseteq DOMAIN store /\ UNCHANGED <<wireVars, cut>>
  BY LReadStore, LRecheckStore DEF ReadStore, RecheckStore, ghosts
<1>3. task[t].at \notin {"data", "closing", "drain"}
  <2>1. CASE ReadStore(t) \/ Has(t, "locked")
    BY <2>1 DEF ReadStore, Has
  <2>2. CASE Enters(t)
    BY <2>2, OutsideFree DEF Wired
  <2> QED BY <2>1, <2>2 DEF RecheckStore
<1>4. PICK y : Continue(t, y) /\ y.at \notin Wired
  <2>1. ASSUME NEW here \in {"fast", "locked"}, TakeStored(t, here)
        PROVE  \E y : Continue(t, y) /\ y.at \notin Wired
    <3>1. PICK y \in Task : /\ TaskOK(y) /\ Continue(t, y)
                            /\ Lockless(y) \/ (y = [task[t] EXCEPT !.at = here] /\ y.at = here)
      BY <1>1, <2>1, TakesPacket
    <3> QED BY <3>1, LocklessIsQuiet DEF Wired
  <2>2. ASSUME Continue(t, [task[t] EXCEPT !.at = "header"])
        PROVE  \E y : Continue(t, y) /\ y.at \notin Wired
    <3>1. [task[t] EXCEPT !.at = "header"].at = "header"
      BY <1>1 DEF Task
    <3> QED BY <2>2, <3>1 DEF Wired
  <2> QED BY <2>1, <2>2 DEF ReadStore, RecheckStore
<1> QED BY <1>2, <1>3, <1>4, QuietStep DEF Owes

LEMMA WQuietTask ==
  ASSUME LInv, WInv, NEW t \in Tasks,
         \/ NoConnection(t) \/ WriteFile(t) \/ CalledBack(t) \/ Greeted(t) \/ CloseWedged(t) \/ Call(t)
  PROVE  WInv'
<1>1. PICK y : Lockless(y) /\ Continue(t, y)
  BY LNoConnection, LWriteFile, LGreeted, LCloseWedged, LStart, LCallReset DEF Call
<1>2. task[t].at \notin {"drain", "data", "closing"}
  <2>1. CASE Enters(t)
    BY <2>1, OutsideFree DEF Wired
  <2>2. CASE task[t].at \in {"header", "file", "callback", "greet", "idle"}
    BY <2>2
  <2> QED BY <2>1, <2>2 DEF NoConnection, WriteFile, CalledBack, Greeted, CloseWedged, Call, Start,
                            CallReset, Has, Resumes
<1>3. UNCHANGED <<store, wireVars, cut>>
  BY DEF NoConnection, WriteFile, CalledBack, Greeted, CloseWedged, Call, Start, CallReset, ghosts
<1> QED BY <1>1, <1>2, <1>3, QuietStep, LocklessIsQuiet DEF Owes

(* The packet ahead is gone, and what is left begins with another.         *)
LEMMA PacketGone ==
  ASSUME LInv, WInv, arriving # <<>>, \A u \in Tasks : task[u].at # "data"
  PROVE  /\ Framed(AfterPacket(arriving)) /\ ~HalfWay(AfterPacket(arriving))
         /\ AfterPacket(arriving) # <<>> => AfterPacket(arriving)[1][1] = "header"
<1> DEFINE w == arriving
           v == Tail(w)
           p == Head(w)[2]
<1>1. w \in Seq(Kinds \X WholePacket) /\ Framed(w) /\ ~HalfWay(w) /\ w # <<>>
  BY DEF LInv, WirePart, WInv, ArrivingOK
<1>2. /\ w[1][1] = "header" /\ w[1][2] = p /\ v \in Seq(Kinds \X WholePacket)
      /\ HasData(p) => v # <<>> /\ v[1] = <<"data", p>>
  <2>1. Head(w) = w[1] /\ v \in Seq(Kinds \X WholePacket)
    BY <1>1, TailIs
  <2>2. Head(w)[1] = "header" /\ (HasData(p) => v # <<>> /\ v[1] = <<"data", p>>)
    BY PacketAhead
  <2> HIDE DEF w, v
  <2> QED BY <2>1, <2>2 DEF p
<1>3. /\ Framed(v) /\ ~HalfWay(v)
      /\ v # <<>> /\ ~HasData(p) => v[1][1] = "header"
  BY <1>1, <1>2, FramedTail
<1>4. CASE HasData(p)
  <2>1. AfterPacket(w) = Tail(v) /\ v # <<>> /\ v[1] = <<"data", p>>
    BY <1>2, <1>4 DEF AfterPacket
  <2> HIDE DEF w, v, p
  <2>2. /\ Framed(Tail(v)) /\ ~HalfWay(Tail(v))
        /\ Tail(v) # <<>> => Tail(v)[1][1] = "header"
    BY <1>2, <1>3, <2>1, FramedTail
  <2> QED BY <2>1, <2>2 DEF w
<1>5. CASE ~HasData(p)
  BY <1>3, <1>5 DEF AfterPacket
<1> QED BY <1>4, <1>5

(* What is thrown away leaves the packets whole.                           *)
LEMMA SpoiledWhole ==
  ASSUME LInv, WInv, HeaderSpoiled, \A u \in Tasks : task[u].at # "data" /\ task'[u].at # "data"
  PROVE  ArrivingOK' /\ cut' \in {cut, cut \cup {"in"}}
<1>1. CASE scrap /\ scrap' \in BOOLEAN /\ UNCHANGED <<arriving, lossy, cut>>
  BY <1>1 DEF WInv, ArrivingOK, Framed, Follows, HalfWay
<1>2. CASE /\ arriving # <<>> /\ arriving' = AfterPacket(arriving) /\ scrap' = TRUE
           /\ GivenUp(Head(arriving)[2])
  <2>1. cut' = cut \cup {"in"}
    BY <1>2 DEF GivenUp
  <2>2. /\ Framed(arriving') /\ ~HalfWay(arriving')
        /\ arriving' # <<>> => arriving'[1][1] = "header"
    BY <1>2, PacketGone
  <2>3. ArrivingOK'
    BY <2>1, <2>2 DEF ArrivingOK, Framed, Follows, HalfWay
  <2> QED BY <2>1, <2>3
<1> QED BY <1>1, <1>2 DEF HeaderSpoiled

(* The data of the packet that a task is reading are gone.                 *)
LEMMA DataGone ==
  ASSUME LInv, WInv, NEW t \in Tasks, task[t].at = "data"
  PROVE  /\ Framed(Tail(arriving)) /\ ~HalfWay(Tail(arriving))
         /\ Tail(arriving) # <<>> => Tail(arriving)[1][1] = "header"
<1>1. /\ arriving \in Seq(Kinds \X WholePacket) /\ arriving # <<>>
      /\ Framed(arriving) /\ ~HalfWay(arriving) /\ arriving[1] = <<"data", task[t].pkt>>
  BY DEF LInv, WirePart, WInv, ArrivingOK
<1> QED BY <1>1, FramedTail

(* While the holder of the lock is at an await of read, the messages and   *)
(* the transport stay as they are.                                         *)
LEMMA ReadingRest ==
  ASSUME LInv, WInv, NEW t \in Tasks, NEW y, Continue(t, y),
         task[t].at \in {"header", "data"}, y.at \notin Wired \/ y.at = "data",
         conn # "closed", UNCHANGED <<conn, unsent, dev, half, deaf>>,
         cut' \in {cut, cut \cup {"in"}}
  PROVE  ConnOK' /\ UnsentOK' /\ HalfOK'
<1>1. task'[t] = y /\ lock = t /\ \A u \in Tasks \ {t} : task'[u] = task[u] /\ task[u].at \notin Wired
  BY ReaderHolds, TaskBecomes, Alone
<1>2. "out" \in cut' <=> "out" \in cut
  OBVIOUS
<1>3. \A u \in Tasks : ~Owes(task[u]) /\ ~Owes(task'[u])
  BY <1>1 DEF Owes, Wired
<1>4. conn # "closing"
  BY <1>1 DEF WInv, ConnOK, Wired
<1>5. ConnOK'
  BY <1>1, <1>4 DEF ConnOK, Wired
<1> HIDE DEF Owes
<1>6. UnsentOK'
  BY <1>2, <1>3 DEF WInv, UnsentOK, Framed, Follows, HalfWay
<1>7. HalfOK'
  BY <1>2 DEF WInv, HalfOK
<1> QED BY <1>5, <1>6, <1>7

(* An exception at an await.                                               *)
LEMMA WStrike ==
  ASSUME LInv, WInv, NEW t \in Tasks, task[t].at \in Awaits, Strike(t),
         cancels' \in 0 .. MaxCancels /\ resets' = resets
  PROVE  WInv'
<1>1. PICK y : Lockless(y) /\ Continue(t, y)
  BY LStrike
<1>2. /\ task'[t] = y /\ (\A u \in Tasks \ {t} : task'[u] = task[u])
      /\ y.at \notin Wired
  BY <1>1, TaskBecomes, LocklessIsQuiet
<1>3. /\ conn' = IF task[t].at = "closing" THEN "wedged" ELSE conn
      /\ Interrupted(task[t])
      /\ UNCHANGED <<store, unsent, dev, half, deaf>>
  BY DEF Strike
<1>4. CASE task[t].at = "header" /\ HeaderSpoiled
  <2>1. \A u \in Tasks : task[u].at # "data" /\ task'[u].at # "data"
    BY <1>2, <1>4, ReaderHolds, Alone DEF Wired
  <2>2. ArrivingOK' /\ cut' \in {cut, cut \cup {"in"}}
    BY <1>4, <2>1, SpoiledWhole
  <2>3. conn # "closed"
    BY <1>4 DEF HeaderSpoiled, WInv, ConnOK
  <2>4. ConnOK' /\ UnsentOK' /\ HalfOK'
    BY <1>1, <1>2, <1>3, <1>4, <2>2, <2>3, ReadingRest
  <2> QED BY <2>2, <2>4 DEF WInv
<1>5. CASE /\ task[t].at = "data" /\ GivenUp(task[t].pkt)
           /\ arriving' = Tail(arriving) /\ scrap' = TRUE
  <2>1. \A u \in Tasks : task'[u].at # "data"
    BY <1>2, <1>5, ReaderHolds, Alone DEF Wired
  <2>2. cut' = cut \cup {"in"} /\ conn # "closed"
    BY <1>5 DEF GivenUp, WInv, ConnOK
  <2>3. ArrivingOK'
    BY <1>5, <2>1, <2>2, DataGone DEF ArrivingOK, Framed, Follows, HalfWay
  <2>4. ConnOK' /\ UnsentOK' /\ HalfOK'
    BY <1>1, <1>2, <1>3, <1>5, <2>2, ReadingRest
  <2> QED BY <2>3, <2>4 DEF WInv
<1>6. CASE /\ task[t].at # "data"
           /\ cut' = IF Owes(task[t]) THEN cut \cup {"out"} ELSE cut
           /\ UNCHANGED <<arriving, scrap, lossy>>
  <2>1. CASE task[t].at # "closing" /\ ~Owes(task[t])
    <3>1. cut' = cut /\ conn' = conn
      BY <1>3, <1>6, <2>1
    <3> QED BY <1>1, <1>2, <1>3, <1>6, <2>1, <3>1, QuietStep DEF wireVars
  <2>2. CASE task[t].at = "closing" \/ Owes(task[t])
    <3>1. task[t].at \in Inside /\ lock = t
      <4>1. task[t].at \in Inside
        BY <2>2 DEF Owes, Inside, MayPause
      <4> QED BY <4>1, HolderHasLock DEF LInv
    <3>2. \A u \in Tasks : task'[u].at \notin Wired /\ ~Owes(task'[u]) /\ task[u].at # "data"
      BY <1>2, <1>6, <3>1, Alone DEF Owes, Wired
    <3>3. ArrivingOK'
      <4>1. "in" \in cut' <=> "in" \in cut
        BY <1>6
      <4> QED BY <1>6, <3>2, <4>1 DEF WInv, ArrivingOK, Framed, Follows, HalfWay, Wired
    <3>4. CASE task[t].at = "closing"
      <4>1. conn' = "wedged" /\ cut' = cut /\ conn = "closing"
        BY <1>3, <1>6, <3>4 DEF Owes, WInv, ConnOK
      <4>2. ConnOK'
        BY <3>2, <4>1 DEF ConnOK, Wired
      <4>3. UnsentOK' /\ HalfOK'
        BY <1>3, <4>1 DEF WInv, UnsentOK, HalfOK
      <4> QED BY <3>3, <4>2, <4>3 DEF WInv
    <3>5. CASE Owes(task[t])
      <4>1. task[t].at = "drain"
        BY <3>5 DEF Owes
      <4>2. conn' = "open" /\ conn = "open" /\ "out" \in cut'
        BY <1>3, <1>6, <3>5, <4>1 DEF WInv, ConnOK
      <4>3. ConnOK' /\ UnsentOK'
        BY <3>2, <4>2 DEF ConnOK, UnsentOK, Wired
      <4>4. HalfOK'
        BY <1>3, <4>2 DEF WInv, HalfOK
      <4> QED BY <3>3, <4>3, <4>4 DEF WInv
    <3> QED BY <2>2, <3>4, <3>5
  <2> QED BY <2>1, <2>2
<1> QED BY <1>3, <1>4, <1>5, <1>6 DEF Interrupted, Owes

LEMMA WInterrupted ==
  ASSUME LInv, WInv, NEW t \in Tasks, Cancel(t) \/ Timeout(t)
  PROVE  WInv'
<1>1. task[t].at \in Awaits /\ Strike(t) /\ resets' = resets /\ cancels' \in 0 .. MaxCancels
  BY TasksAssumption DEF Cancel, Timeout, LInv, RestPart, bounds, Awaits, Pauses, MayPause
<1> QED BY <1>1, WStrike

-----------------------------------------------------------------------------
(* What is written.                                                        *)

LEMMA WSendHeader ==
  ASSUME LInv, WInv, NEW t \in Tasks, SendHeader(t)
  PROVE  WInv'
<1> DEFINE x == task[t]
           y == [x EXCEPT !.at = "drain"]
           m == MessageOf(x)
           e == <<"header", m>>
<1>1. Enters(t) /\ x.step \in Sends /\ x \in Task /\ TaskOK(x) /\ \A u \in Tasks : task[u].at \notin Wired
  BY HolderHasLock, OutsideFree DEF LInv, SendHeader
<1>2. x.part = "header"
  BY <1>1 DEF TaskOK, Wired, Task, Kinds
<1>3. /\ Continue(t, y) /\ conn = "open" /\ unsent' = Append(unsent, e)
      /\ UNCHANGED <<store, conn, arriving, scrap, dev, half, deaf, cut>>
  BY <1>2 DEF SendHeader, Write, ghosts
<1>4. y.at = "drain" /\ y.part = "header" /\ MessageOf(y) = m
  BY <1>1, <1>2 DEF Task, MessageOf
<1>5. task'[t] = y /\ \A u \in Tasks \ {t} : task'[u] = task[u]
  BY <1>3, TaskBecomes
<1>6. \A u \in Tasks : ~Owes(task[u]) /\ (Owes(task'[u]) <=> u = t /\ HasData(m))
  BY <1>1, <1>4, <1>5 DEF Owes, Wired
<1>7. e[1] = "header" /\ e[2] = m /\ unsent \in Seq(Kinds \X Message)
  BY DEF LInv, WirePart
<1> HIDE DEF x, y, m
<1>8. ConnOK'
  BY <1>1, <1>3, <1>4, <1>5 DEF WInv, ConnOK, Wired
<1>9. ArrivingOK'
  <2>1. \A u \in Tasks : task[u].at # "data" /\ task'[u].at # "data"
    BY <1>1, <1>4, <1>5 DEF Wired
  <2> QED BY <1>3, <2>1 DEF WInv, ArrivingOK, Framed, Follows, HalfWay
<1>10. UnsentOK'
  <2> SUFFICES ASSUME "out" \notin cut PROVE UnsentOK'
    BY <1>3 DEF UnsentOK
  <2>1. /\ ~deaf /\ Framed(unsent) /\ ~HalfWay(unsent) /\ (unsent = <<>> => half = None)
        /\ unsent # <<>> => IF half = None THEN unsent[1][1] = "header"
                                           ELSE unsent[1] = <<"data", half>>
    BY <1>3, <1>6 DEF WInv, UnsentOK
  <2>2. unsent # <<>> => IF HalfWay(unsent) THEN e = <<"data", unsent[Len(unsent)][2]>> ELSE e[1] = "header"
    BY <1>7, <2>1
  <2> HIDE DEF e
  <2>3. /\ Framed(unsent') /\ (HalfWay(unsent') <=> HasData(m)) /\ unsent' # <<>>
        /\ unsent'[Len(unsent')] = e
        /\ unsent'[1] = IF unsent = <<>> THEN e ELSE unsent[1]
    BY <1>3, <1>7, <2>1, <2>2, FramedAppend
  <2>4. IF half = None THEN unsent'[1][1] = "header" ELSE unsent'[1] = <<"data", half>>
    BY <1>7, <2>1, <2>3
  <2>5. \A u \in Tasks : Owes(task'[u]) => unsent'[Len(unsent')] = <<"header", MessageOf(task'[u])>>
    BY <1>4, <1>5, <1>6, <2>3 DEF e
  <2>6. (\A u \in Tasks : ~Owes(task'[u])) => ~HalfWay(unsent')
    BY <1>6, <2>3
  <2> HIDE DEF Owes
  <2> QED BY <1>3, <2>1, <2>3, <2>4, <2>5, <2>6 DEF UnsentOK, Framed, Follows, HalfWay
<1>11. HalfOK'
  BY <1>3 DEF WInv, HalfOK
<1> QED BY <1>8, <1>9, <1>10, <1>11 DEF WInv

LEMMA WSendData ==
  ASSUME LInv, WInv, NEW t \in Tasks, SendData(t)
  PROVE  WInv'
<1> DEFINE x == task[t]
           z == [x EXCEPT !.part = "data"]
           y == [z EXCEPT !.at = "drain"]
           m == MessageOf(x)
           e == <<"data", m>>
<1>1. x \in Task /\ TaskOK(x) /\ x.at = "drain" /\ Owes(x)
  BY HolderHasLock DEF LInv, SendData, Resumes, Owes
<1>2. x.step \in Sends /\ lock = t
  BY <1>1, HolderHasLock DEF LInv, TaskOK, Inside, MayPause
<1>3. z \in Task /\ z.part = "data" /\ MessageOf(z) = m
  BY <1>1 DEF Task, Kinds, MessageOf
<1>4. /\ Continue(t, y) /\ unsent' = Append(unsent, e)
      /\ UNCHANGED <<store, conn, arriving, scrap, dev, half, deaf, cut>>
  BY <1>3 DEF SendData, Write, ghosts
<1>5. y.at = "drain" /\ y.part = "data"
  BY <1>3 DEF Task
<1>6. task'[t] = y /\ \A u \in Tasks \ {t} : task'[u] = task[u] /\ task[u].at \notin Wired
  BY <1>2, <1>4, TaskBecomes, Alone
<1>7. \A u \in Tasks : ~Owes(task'[u])
  BY <1>5, <1>6 DEF Owes, Wired
<1>8. e[1] = "data" /\ e[2] = m /\ unsent \in Seq(Kinds \X Message)
  BY DEF LInv, WirePart
<1>9. m \in Message /\ m # None /\ HasData(m)
  <2>1. m \in Message
    BY <1>1, <1>2, MessageIsMessage
  <2> QED BY <1>1, <2>1, TasksAssumption DEF Owes
<1> HIDE DEF x, y, z, m
<1>10. conn = "open"
  BY <1>1 DEF WInv, ConnOK, x
<1>11. ConnOK'
  BY <1>1, <1>4, <1>5, <1>6, <1>10 DEF WInv, ConnOK, Wired, x
<1>12. ArrivingOK'
  <2>1. \A u \in Tasks : task[u].at # "data" /\ task'[u].at # "data"
    BY <1>1, <1>5, <1>6 DEF Wired, x
  <2> QED BY <1>4, <2>1 DEF WInv, ArrivingOK, Framed, Follows, HalfWay
<1>13. UnsentOK'
  <2> SUFFICES ASSUME "out" \notin cut PROVE UnsentOK'
    BY <1>4 DEF UnsentOK
  <2>1. /\ ~deaf /\ Framed(unsent)
        /\ unsent # <<>> => IF half = None THEN unsent[1][1] = "header"
                                           ELSE unsent[1] = <<"data", half>>
        /\ IF unsent = <<>> THEN half = m ELSE unsent[Len(unsent)] = <<"header", m>>
    BY <1>1, <1>10 DEF WInv, UnsentOK, x, m
  <2>2. unsent # <<>> => HalfWay(unsent) /\ e = <<"data", unsent[Len(unsent)][2]>>
    BY <1>9, <2>1 DEF HalfWay
  <2> HIDE DEF e
  <2>3. /\ Framed(unsent') /\ ~HalfWay(unsent') /\ unsent' # <<>>
        /\ unsent'[1] = IF unsent = <<>> THEN e ELSE unsent[1]
    BY <1>4, <1>8, <2>1, <2>2, FramedAppend
  <2>4. IF half = None THEN unsent'[1][1] = "header" ELSE unsent'[1] = <<"data", half>>
    BY <1>9, <2>1, <2>3 DEF e
  <2> HIDE DEF Owes
  <2> QED BY <1>4, <1>7, <2>1, <2>3, <2>4 DEF UnsentOK, Framed, Follows, HalfWay
<1>14. HalfOK'
  BY <1>4 DEF WInv, HalfOK
<1> QED BY <1>11, <1>12, <1>13, <1>14 DEF WInv

-----------------------------------------------------------------------------
(* What is read.                                                           *)

LEMMA WReadHeader ==
  ASSUME LInv, WInv, NEW t \in Tasks, ReadHeader(t)
  PROVE  WInv'
<1> DEFINE p == Head(arriving)[2]
<1>1. /\ task[t].at = "header" /\ arriving # <<>> /\ arriving' = Tail(arriving)
      /\ conn # "closed" /\ UNCHANGED <<scrap, cut, readRest>>
  BY DEF ReadHeader, Resumes
<1>2. PICK y : /\ Continue(t, y)
               /\ \/ y.at \notin Wired /\ ~HasData(p)
                  \/ y.at = "data" /\ y.pkt = p /\ HasData(p)
  BY LReadHeader, LocklessIsQuiet
<1>3. ConnOK' /\ UnsentOK' /\ HalfOK'
  BY <1>1, <1>2, ReadingRest DEF readRest
<1>4. task'[t] = y /\ lock = t /\ \A u \in Tasks \ {t} : task'[u] = task[u] /\ task[u].at \notin Wired
  BY <1>1, <1>2, ReaderHolds, TaskBecomes, Alone
<1>5. /\ arriving \in Seq(Kinds \X WholePacket) /\ Head(arriving) = arriving[1]
      /\ Framed(arriving) /\ ~HalfWay(arriving)
  BY <1>1, TailIs DEF LInv, WirePart, WInv, ArrivingOK
<1>6. ArrivingOK'
  <2>1. Head(arriving)[1] = "header"
    BY <1>1, <1>4, PacketAhead DEF Wired
  <2>2. /\ Framed(arriving') /\ ~HalfWay(arriving')
        /\ arriving' # <<>> => IF HasData(p) THEN arriving'[1] = <<"data", p>>
                                             ELSE arriving'[1][1] = "header"
        /\ arriving' = <<>> => Len(arriving) = 1
    BY <1>1, <1>5, <2>1, FramedTail
  <2>3. arriving' = <<>> => ~HasData(p)
    BY <1>1, <1>5, <2>1, <2>2 DEF HalfWay
  <2>4. scrap' => "in" \in cut'
    BY <1>1 DEF WInv, ArrivingOK
  <2> HIDE DEF p
  <2>5. CASE HasData(p)
    <3>1. y.at = "data" /\ y.pkt = p
      BY <1>2, <2>5
    <3>2. \A u \in Tasks : task'[u].at = "data" => task'[u].pkt = p
      BY <1>4, <3>1 DEF Wired
    <3> QED BY <1>1, <1>4, <2>2, <2>3, <2>4, <2>5, <3>1, <3>2 DEF ArrivingOK, Framed, Follows, HalfWay
  <2>6. CASE ~HasData(p)
    <3>1. \A u \in Tasks : task'[u].at # "data"
      BY <1>2, <1>4, <2>6 DEF Wired
    <3> QED BY <1>1, <2>2, <2>4, <2>6, <3>1 DEF ArrivingOK, Framed, Follows, HalfWay
  <2> QED BY <2>5, <2>6
<1> QED BY <1>3, <1>6 DEF WInv

LEMMA WReadData ==
  ASSUME LInv, WInv, NEW t \in Tasks, ReadData(t)
  PROVE  WInv'
<1>1. /\ task[t].at = "data" /\ arriving' = Tail(arriving) /\ UNCHANGED <<scrap, readRest>>
      /\ cut' \in {cut, cut \cup {"in"}}
  BY DEF ReadData, DataIsThere, Resumes, GivenUp
<1>2. PICK y : Continue(t, y) /\ y.at \notin Wired
  BY LReadData, LocklessIsQuiet
<1>3. ConnOK' /\ UnsentOK' /\ HalfOK'
  <2>1. conn # "closed"
    BY <1>1 DEF WInv, ConnOK
  <2> QED BY <1>1, <1>2, <2>1, ReadingRest DEF readRest
<1>4. \A u \in Tasks : task'[u].at # "data"
  BY <1>1, <1>2, ReaderHolds, TaskBecomes, Alone DEF Wired
<1>5. scrap' => "in" \in cut'
  BY <1>1 DEF WInv, ArrivingOK
<1>6. ArrivingOK'
  BY <1>1, <1>4, <1>5, DataGone DEF ArrivingOK, Framed, Follows, HalfWay
<1> QED BY <1>3, <1>6 DEF WInv

LEMMA WReadNoHeader ==
  ASSUME LInv, WInv, NEW t \in Tasks, ReadNoHeader(t)
  PROVE  WInv'
<1>1. /\ task[t].at = "header" /\ conn # "closed" /\ UNCHANGED readRest /\ HeaderSpoiled
  BY DEF ReadNoHeader, Resumes
<1>2. PICK y : Continue(t, y) /\ y.at \notin Wired
  BY LReadNoHeader, LocklessIsQuiet
<1>3. \A u \in Tasks : task[u].at # "data" /\ task'[u].at # "data"
  BY <1>1, <1>2, ReaderHolds, TaskBecomes, Alone DEF Wired
<1>4. ArrivingOK' /\ cut' \in {cut, cut \cup {"in"}}
  BY <1>1, <1>3, SpoiledWhole
<1>5. ConnOK' /\ UnsentOK' /\ HalfOK'
  BY <1>1, <1>2, <1>4, ReadingRest DEF readRest
<1> QED BY <1>4, <1>5 DEF WInv

-----------------------------------------------------------------------------
(* close and connect.                                                      *)

LEMMA WBeginClosing ==
  ASSUME LInv, WInv, NEW t \in Tasks, BeginClosing(t)
  PROVE  WInv'
<1> DEFINE y == [task[t] EXCEPT !.at = "closing"]
<1>1. /\ Enters(t) /\ Continue(t, y) /\ conn = "open"
      /\ conn' = "closing" /\ half' = None /\ deaf' = FALSE /\ cut' = cut \ {"out"}
      /\ UNCHANGED <<store, unsent, arriving, scrap>>
  BY DEF BeginClosing
<1>2. y.at = "closing"
  BY HolderHasLock DEF LInv, Task
<1> HIDE DEF y
<1>3. /\ task'[t] = y /\ \A u \in Tasks \ {t} : task'[u] = task[u]
      /\ \A u \in Tasks : task[u].at \notin Wired
  BY <1>1, TaskBecomes, OutsideFree
<1>4. ConnOK'
  BY <1>1, <1>2, <1>3 DEF ConnOK, Wired
<1>5. ArrivingOK'
  <2>1. \A u \in Tasks : task[u].at # "data" /\ task'[u].at # "data"
    BY <1>2, <1>3 DEF Wired
  <2>2. "in" \in cut <=> "in" \in cut'
    BY <1>1
  <2> QED BY <1>1, <2>1, <2>2 DEF WInv, ArrivingOK, Framed, Follows, HalfWay
<1>6. UnsentOK' /\ HalfOK'
  BY <1>1 DEF UnsentOK, HalfOK
<1> QED BY <1>4, <1>5, <1>6 DEF WInv

LEMMA WCloseTransport ==
  ASSUME LInv, WInv, NEW t \in Tasks, CloseTransport(t)
  PROVE  WInv'
<1>1. /\ store' = EmptyStore /\ conn' = "closed" /\ arriving' = <<>> /\ scrap' = FALSE /\ cut' = {}
      /\ UNCHANGED <<unsent, dev, half, deaf>>
  BY DEF CloseTransport, Emptied
<1>2. PICK y : Continue(t, y) /\ y.at \in {"idle", "dial"}
  BY LCloseTransport
<1>3. \A u \in Tasks \ {t} : task[u].at \notin Wired
  <2>1. CASE Enters(t)
    BY <2>1, OutsideFree
  <2>2. CASE task[t].at = "closing"
    BY <2>2, HolderHasLock, Alone DEF LInv, Inside
  <2> QED BY <2>1, <2>2 DEF CloseTransport, Closing, Resumes
<1>4. task'[t] = y /\ \A u \in Tasks \ {t} : task'[u] = task[u]
  BY <1>2, TaskBecomes
<1>5. unsent = <<>> /\ ~deaf /\ half = None
  <2>1. CASE task[t].at = "closing" /\ unsent = <<>>
    BY <2>1 DEF WInv, ConnOK, HalfOK
  <2>2. CASE conn = "closed"
    BY <2>2 DEF WInv, ConnOK
  <2> QED BY <2>1, <2>2 DEF CloseTransport, Closing, Resumes
<1>6. DOMAIN store' = {}
  BY <1>1 DEF EmptyStore
<1>7. ConnOK'
  BY <1>1, <1>2, <1>3, <1>4, <1>5, <1>6 DEF ConnOK, Wired
<1>8. ArrivingOK'
  <2>1. \A u \in Tasks : task'[u].at # "data"
    BY <1>2, <1>3, <1>4 DEF Wired
  <2>2. Len(arriving') = 0
    BY <1>1
  <2> QED BY <1>1, <2>1, <2>2 DEF ArrivingOK, Framed, HalfWay
<1>9. UnsentOK' /\ HalfOK'
  BY <1>1, <1>5 DEF UnsentOK, HalfOK
<1> QED BY <1>7, <1>8, <1>9 DEF WInv

LEMMA WDialed ==
  ASSUME LInv, WInv, NEW t \in Tasks, Dialed(t)
  PROVE  WInv'
<1>1. /\ task[t].at = "dial" /\ conn' = "open"
      /\ UNCHANGED <<store, unsent, arriving, scrap, dev, half, deaf, cut>>
  BY DEF Dialed, Resumes, ghosts
<1>2. PICK y : Continue(t, y) /\ y.at = "greet"
  BY LDialed
<1>3. task'[t] = y /\ \A u \in Tasks \ {t} : task'[u] = task[u] /\ task[u].at \notin Wired
  BY <1>1, <1>2, TaskBecomes, HolderHasLock, Alone DEF LInv, Inside
<1>4. unsent = <<>> /\ ~scrap /\ ~deaf /\ half = None /\ cut = {} /\ DOMAIN store = {}
  BY <1>1 DEF WInv, ConnOK
<1>5. ConnOK'
  BY <1>1, <1>2, <1>3, <1>4 DEF ConnOK, Wired
<1>6. ArrivingOK'
  <2>1. \A u \in Tasks : task[u].at # "data" /\ task'[u].at # "data"
    BY <1>1, <1>2, <1>3 DEF Wired
  <2> QED BY <1>1, <2>1 DEF WInv, ArrivingOK, Framed, Follows, HalfWay
<1>7. UnsentOK'
  <2>1. \A u \in Tasks : ~Owes(task'[u])
    BY <1>2, <1>3 DEF Owes, Wired
  <2>2. Len(unsent') = 0
    BY <1>1, <1>4
  <2> QED BY <1>1, <1>4, <2>1, <2>2 DEF UnsentOK, Framed, HalfWay
<1>8. HalfOK'
  BY <1>1, <1>4 DEF HalfOK
<1> QED BY <1>5, <1>6, <1>7, <1>8 DEF WInv

-----------------------------------------------------------------------------
(* The device keeps WInv.                                                  *)

(* What the device answers is a whole packet.                              *)
LEMMA ArrivesWhole ==
  ASSUME LInv, ArrivingOK, UNCHANGED <<task, scrap, cut>>,
         arriving' = arriving \/ \E p \in WholePacket : arriving' = arriving \o Parts(p)
  PROVE  ArrivingOK'
<1>1. CASE arriving' = arriving
  BY <1>1 DEF ArrivingOK, Framed, Follows, HalfWay
<1>2. ASSUME NEW p \in WholePacket, arriving' = arriving \o Parts(p)
      PROVE  ArrivingOK'
  <2>1. (scrap => "in" \in cut) /\ Framed(arriving) /\ ~HalfWay(arriving)
    BY DEF ArrivingOK
  <2>2. arriving \in Seq(Kinds \X WholePacket) /\ <<"header", p>> \in Kinds \X WholePacket
    BY DEF LInv, WirePart, Kinds
  <2>3. /\ Framed(arriving') /\ ~HalfWay(arriving') /\ arriving' # <<>>
        /\ arriving'[1] = IF arriving = <<>> THEN <<"header", p>> ELSE arriving[1]
    BY <1>2, <2>1, <2>2, FramedParts
  <2>4. \A u \in Tasks : task[u].at = "data" =>
          arriving # <<>> /\ arriving[1] = <<"data", task[u].pkt>>
    BY <1>2 DEF ArrivingOK
  <2>5. arriving'[1][1] = "data" => \E u \in Tasks : task[u].at = "data"
    <3>1. CASE arriving = <<>>
      BY <2>3, <3>1
    <3>2. CASE arriving # <<>>
      BY <1>2, <2>3, <3>2 DEF ArrivingOK
    <3> QED BY <3>1, <3>2
  <2> QED BY <2>1, <2>3, <2>4, <2>5 DEF ArrivingOK, Framed, Follows, HalfWay
<1> QED BY <1>1, <1>2

LEMMA WDevSend ==
  ASSUME LInv, WInv, NEW l \in Lids, DevSend(l) \/ DevClose(l)
  PROVE  WInv'
<1>1. UNCHANGED <<task, store, conn, scrap, unsent, half, deaf, cut>>
  BY DEF DevSend, DevClose, devRest, ghosts
<1>2. l \in Nat /\ DevId(l) \in Nat /\ dev[l] \in DevStream
  BY TasksAssumption DEF DevId, Lids, LInv, WirePart
<1>3. \E p \in WholePacket : arriving' = arriving \o Parts(p)
  <2>1. CASE DevSend(l)
    <3>1. dev[l].n < Chunks /\ arriving' = arriving \o Parts(Msg("WRTE", DevId(l), l, <<l, dev[l].n + 1>>))
      BY <2>1 DEF DevSend
    <3>2. <<l, dev[l].n + 1>> \in Data
      BY <1>2, <3>1, TasksAssumption DEF DevStream, Data
    <3>3. <<l, dev[l].n + 1>> # None
      BY <3>2, TasksAssumption
    <3>4. Msg("WRTE", DevId(l), l, <<l, dev[l].n + 1>>) \in WholePacket
      BY <1>2, <3>2, <3>3 DEF Msg, WholePacket, Packet
    <3> QED BY <3>1, <3>4
  <2>2. CASE DevClose(l)
    <3>1. arriving' = arriving \o Parts(Msg("CLSE", DevId(l), l, None))
      BY <2>2 DEF DevClose, Answer
    <3>2. Msg("CLSE", DevId(l), l, None) \in WholePacket
      BY <1>2 DEF Msg, WholePacket, Packet
    <3> QED BY <3>1, <3>2
  <2> QED BY <2>1, <2>2
<1>4. ArrivingOK'
  BY <1>1, <1>3, ArrivesWhole DEF WInv
<1>5. ConnOK' /\ HalfOK'
  <2>1. conn = "open"
    BY DEF DevSend, DevClose
  <2> QED BY <1>1, <2>1 DEF WInv, ConnOK, HalfOK
<1>6. UnsentOK'
  BY <1>1 DEF WInv, UnsentOK, Framed, Follows, HalfWay, Owes
<1> QED BY <1>4, <1>5, <1>6 DEF WInv

(* The device takes whole messages.                                        *)
LEMMA WDevTake ==
  ASSUME LInv, WInv, DevTake
  PROVE  WInv'
<1> DEFINE kind == Head(unsent)[1]
           m == Head(unsent)[2]
           v == Tail(unsent)
<1>1. unsent # <<>> /\ unsent' = v /\ UNCHANGED <<task, store, conn, scrap, cut>>
  BY DEF DevTake, devRest, ghosts
<1>2. /\ unsent \in Seq(Kinds \X Message) /\ kind \in Kinds /\ m \in Message /\ Head(unsent) = unsent[1]
      /\ unsent[1] = <<kind, m>>
  BY <1>1 DEF LInv, WirePart
<1>3. /\ \/ conn # "open" \/ deaf
         \/ half = None /\ kind = "header"
         \/ half = m /\ kind = "data"
         \/ conn = "open" /\ ~deaf /\ ~(half = None /\ kind = "header") /\ ~(half = m /\ kind = "data")
      /\ conn # "open" \/ deaf => UNCHANGED <<dev, arriving, half, deaf>>
      /\ conn = "open" /\ ~deaf /\ half = None /\ kind = "header" =>
           IF HasData(m) THEN half' = m /\ UNCHANGED <<dev, arriving, deaf>>
                         ELSE DevHandle(m) /\ UNCHANGED <<half, deaf>>
      /\ conn = "open" /\ ~deaf /\ kind = "data" /\ half = m =>
           half' = None /\ DevHandle(m) /\ UNCHANGED deaf
      /\ conn = "open" /\ ~deaf /\ ~(half = None /\ kind = "header") /\ ~(half = m /\ kind = "data") =>
           deaf' = TRUE /\ UNCHANGED <<dev, arriving, half>>
  <2>1. m # None
    BY <1>2, TasksAssumption
  <2> HIDE DEF kind, m
  <2> QED BY <2>1 DEF DevTake, kind, m
<1> HIDE DEF kind, m
<1>4. arriving' = arriving \/ \E p \in WholePacket : arriving' = arriving \o Parts(p)
  BY <1>2, <1>3, HandleMoves
<1>5. ArrivingOK'
  BY <1>1, <1>4, ArrivesWhole DEF WInv
<1>6. ConnOK'
  BY <1>1, <1>3 DEF WInv, ConnOK
<1>7. HalfOK'
  BY <1>1, <1>3 DEF WInv, HalfOK
<1>8. UnsentOK'
  <2> SUFFICES ASSUME conn = "open", "out" \notin cut PROVE UnsentOK'
    BY <1>1 DEF UnsentOK
  <2>1. /\ ~deaf /\ Framed(unsent)
        /\ IF half = None THEN kind = "header" ELSE kind = "data" /\ m = half
        /\ \A t \in Tasks : Owes(task[t]) => unsent[Len(unsent)] = <<"header", MessageOf(task[t])>>
        /\ (\A t \in Tasks : ~Owes(task[t])) => ~HalfWay(unsent)
    BY <1>1, <1>2 DEF WInv, UnsentOK
  <2>2. /\ Framed(v) /\ (HalfWay(v) => HalfWay(unsent))
        /\ v # <<>> => /\ v[Len(v)] = unsent[Len(unsent)]
                       /\ IF kind = "header" /\ HasData(m) THEN v[1] = <<"data", m>> ELSE v[1][1] = "header"
        /\ v = <<>> => Len(unsent) = 1
    BY <1>1, <1>2, <2>1, FramedTail
  <2>3. m # None /\ deaf' = deaf /\ half' = IF kind = "header" /\ HasData(m) THEN m ELSE None
    BY <1>2, <1>3, <2>1, TasksAssumption
  <2> HIDE DEF v
  <2>4. ~deaf' /\ Framed(unsent')
    BY <1>1, <2>1, <2>2, <2>3
  <2>5. unsent' # <<>> => IF half' = None THEN unsent'[1][1] = "header"
                                         ELSE unsent'[1] = <<"data", half'>>
    BY <1>1, <2>2, <2>3
  <2>6. ASSUME NEW t \in Tasks, Owes(task[t])
        PROVE  IF unsent' = <<>> THEN half' = MessageOf(task[t])
               ELSE unsent'[Len(unsent')] = <<"header", MessageOf(task[t])>>
    <3>1. unsent[Len(unsent)] = <<"header", MessageOf(task[t])>>
      BY <2>1, <2>6
    <3>2. CASE v # <<>>
      BY <1>1, <2>2, <3>1, <3>2
    <3>3. CASE v = <<>>
      <4>1. <<kind, m>> = <<"header", MessageOf(task[t])>>
        BY <1>2, <2>2, <3>1, <3>3
      <4>2. HasData(m)
        BY <2>6, <4>1 DEF Owes
      <4> QED BY <1>1, <2>3, <3>3, <4>1, <4>2
    <3> QED BY <3>2, <3>3
  <2>7. ASSUME \A t \in Tasks : ~Owes(task[t])
        PROVE  ~HalfWay(unsent') /\ (unsent' = <<>> => half' = None)
    <3>1. ~HalfWay(unsent)
      BY <2>1, <2>7
    <3>2. v = <<>> => ~(kind = "header" /\ HasData(m))
      <4>1. v = <<>> => unsent[Len(unsent)][1] = kind /\ unsent[Len(unsent)][2] = m
        BY <1>2, <2>2
      <4> QED BY <1>1, <3>1, <4>1 DEF HalfWay
    <3> QED BY <1>1, <2>2, <2>3, <3>1, <3>2
  <2>8. task' = task
    BY <1>1
  <2> HIDE DEF Owes
  <2> QED BY <2>4, <2>5, <2>6, <2>7, <2>8 DEF UnsentOK
<1> QED BY <1>5, <1>6, <1>7, <1>8 DEF WInv

-----------------------------------------------------------------------------
(* All steps keep IInv.                                                    *)

LEMMA InitIInv == Init => IInv
<1> SUFFICES ASSUME Init PROVE IInv
  OBVIOUS
<1>1. \A t \in Tasks : task[t].at = "idle"
  BY DEF Init, IdleTask
<1>2. ConnOK /\ HalfOK
  BY <1>1, TasksAssumption DEF Init, ConnOK, HalfOK, EmptyStore
<1>3. Len(arriving) = 0 /\ Len(unsent) = 0
  BY DEF Init
<1>4. ArrivingOK
  BY <1>1, <1>3 DEF Init, ArrivingOK, Framed, HalfWay
<1>5. UnsentOK
  BY <1>1, <1>3 DEF Init, UnsentOK, Framed, HalfWay, Owes
<1> QED BY <1>2, <1>4, <1>5, InitLInv DEF IInv, WInv

LEMMA RunWInv ==
  ASSUME LInv, WInv, NEW t \in Tasks, Run(t), ~Suspend(t)
  PROVE  WInv'
<1>1. CASE Queue(t) \/ SendHeader(t) \/ SendData(t) \/ SendDone(t) \/ SendNowhere(t)
  BY <1>1, WQueue, WSendHeader, WSendData, WSendQuiet
<1>2. CASE ReadStore(t) \/ RecheckStore(t) \/ ReadHeader(t) \/ ReadData(t) \/ ReadNoHeader(t)
  BY <1>2, WStore, WReadHeader, WReadData, WReadNoHeader
<1>3. CASE NoConnection(t) \/ WriteFile(t) \/ CalledBack(t) \/ CloseWedged(t) \/ Greeted(t)
  BY <1>3, WQuietTask
<1>4. CASE BeginClosing(t) \/ CloseTransport(t) \/ Dialed(t)
  BY <1>4, WBeginClosing, WCloseTransport, WDialed
<1>5. CASE Timeout(t)
  BY <1>5, WInterrupted
<1> QED BY <1>1, <1>2, <1>3, <1>4, <1>5 DEF Run

LEMMA NextIInv == IInv /\ [Next]_vars => IInv'
<1> SUFFICES ASSUME IInv, [Next]_vars PROVE IInv'
  OBVIOUS
<1>1. LInv /\ WInv /\ LInv'
  BY NextLInv DEF IInv
<1>2. CASE UNCHANGED <<task, store, conn, unsent, arriving, scrap, half, deaf, cut>>
  <2>1. ConnOK' /\ HalfOK'
    BY <1>1, <1>2 DEF WInv, ConnOK, HalfOK
  <2>2. ArrivingOK' /\ UnsentOK'
    BY <1>1, <1>2 DEF WInv, ArrivingOK, UnsentOK, Framed, Follows, HalfWay, Owes
  <2> QED BY <1>1, <2>1, <2>2 DEF IInv, WInv
<1>3. CASE Device
  BY <1>1, <1>3, WDevTake, WDevSend DEF Device, IInv
<1>4. ASSUME NEW t \in Tasks, Run(t), ~Suspend(t) PROVE IInv'
  BY <1>1, <1>4, RunWInv DEF IInv
<1>5. ASSUME NEW t \in Tasks, Call(t) PROVE IInv'
  BY <1>1, <1>5, WQuietTask DEF IInv
<1>6. ASSUME NEW t \in Tasks, Cancel(t) PROVE IInv'
  BY <1>1, <1>6, WInterrupted DEF IInv
<1>7. (\E t \in Tasks : Suspend(t)) \/ UNCHANGED vars =>
        UNCHANGED <<task, store, conn, unsent, arriving, scrap, half, deaf, cut>>
  BY DEF Suspend, vars, wireVars, ghosts
<1> QED BY <1>2, <1>3, <1>4, <1>5, <1>6, <1>7 DEF Next, Resting

(* The lock is held by whoever is inside, and by nobody else, whatever     *)
(* exception leaves an await.                                              *)
THEOREM LockFollows == Spec => []LockFollowsTasks
<1>1. LInv => LockFollowsTasks
  <2> SUFFICES ASSUME LInv PROVE LockFollowsTasks
    OBVIOUS
  <2>1. DOMAIN store \subseteq Nat \X Lids /\ \A k \in DOMAIN store : store[k] \in Seq(Stored)
    <3>1. WholeStored \subseteq Stored
      BY DEF WholeStored
    <3> QED BY <3>1 DEF LInv, StorePart, IsStore
  <2>2. arriving \in Seq(Kinds \X Packet)
    <3>1. Kinds \X WholePacket \subseteq Kinds \X Packet
      BY DEF WholePacket
    <3> QED BY <3>1 DEF LInv, WirePart
  <2>3. TypeOK
    BY <2>1, <2>2 DEF LInv, TasksPart, WirePart, RestPart, TypeOK
  <2> QED BY <2>3 DEF LInv, TasksPart, LockOK, LockFollowsTasks
<1>2. IInv => LInv
  BY DEF IInv
<1> QED BY <1>1, <1>2, InitIInv, NextIInv, PTL DEF Spec

(* The device and the host lose the boundaries of messages and packets     *)
(* only where a task was struck between a header and its data.             *)
THEOREM WholeParts == Spec => []WholeUnlessCut
<1>1. IInv => WholeUnlessCut
  <2> SUFFICES ASSUME LInv, WInv PROVE WholeUnlessCut
    BY DEF IInv
  <2>1. deaf => "out" \in cut
    BY DEF WInv, UnsentOK, HalfOK
  <2>2. ASSUME arriving # <<>>
        PROVE  Head(arriving)[1] = IF \E t \in Tasks : task[t].at = "data" THEN "data" ELSE "header"
    <3>1. arriving[1][1] \in Kinds /\ Head(arriving) = arriving[1]
      BY <2>2 DEF LInv, WirePart
    <3> QED BY <2>2, <3>1 DEF WInv, ArrivingOK, Kinds
  <2>3. scrap => "in" \in cut
    BY DEF WInv, ArrivingOK
  <2> QED BY <2>1, <2>2, <2>3 DEF WholeUnlessCut
<1> QED BY <1>1, InitIInv, NextIInv, PTL DEF Spec

-----------------------------------------------------------------------------
(* A connection that works again.                                          *)

LEMMA WedgedStep ==
  ASSUME IInv, [Next]_vars
  PROVE  /\ conn = "wedged" => conn' = "wedged" /\ (available' => available)
         /\ available' /\ ~available =>
              conn' = "open" /\ ~scrap' /\ ~deaf' /\ DOMAIN store' = {}
<1>1. CASE UNCHANGED <<conn, available>>
  BY <1>1
<1>2. ASSUME NEW t \in Tasks, Cancel(t) \/ Timeout(t)
      PROVE  conn' \in {conn, "wedged"} /\ available' = available
  BY <1>2 DEF Cancel, Timeout, Strike
<1>3. ASSUME NEW t \in Tasks, BeginClosing(t) \/ CloseTransport(t) \/ Dialed(t)
      PROVE  conn # "wedged" /\ available' = available
  BY <1>3 DEF BeginClosing, CloseTransport, Closing, Emptied, Dialed, Resumes, IInv, WInv, ConnOK
<1>4. ASSUME NEW t \in Tasks, Greeted(t)
      PROVE  conn' = "open" /\ ~scrap' /\ ~deaf' /\ DOMAIN store' = {} /\ conn # "wedged"
  <2>1. task[t].at = "greet" /\ UNCHANGED <<conn, scrap, deaf, store>>
    BY <1>4 DEF Greeted, Resumes, wireVars
  <2> QED BY <2>1 DEF IInv, WInv, ConnOK
<1>5. ASSUME NEW t \in Tasks, Call(t)
      PROVE  conn' = conn /\ available' \in {available, FALSE}
  BY <1>5 DEF Call, Start, CallReset, wireVars
<1>6. CASE Device \/ Resting
  <2>1. UNCHANGED <<conn, available>>
    BY <1>6 DEF Device, DevTake, DevSend, DevClose, devRest, Resting, vars, wireVars
  <2> QED BY <1>1, <2>1
<1>7. ASSUME NEW t \in Tasks,
             \/ Queue(t) \/ Suspend(t) \/ SendHeader(t) \/ SendData(t) \/ SendDone(t)
             \/ SendNowhere(t) \/ ReadStore(t) \/ RecheckStore(t) \/ ReadHeader(t) \/ ReadData(t)
             \/ ReadNoHeader(t) \/ NoConnection(t) \/ WriteFile(t) \/ CalledBack(t) \/ CloseWedged(t)
      PROVE  UNCHANGED <<conn, available>>
  BY <1>7 DEF Queue, Suspend, SendHeader, SendData, SendDone, SendNowhere, ReadStore, RecheckStore,
              ReadHeader, ReadData, ReadNoHeader, NoConnection, WriteFile, CalledBack, CloseWedged,
              readRest, wireVars
<1>8. available \in BOOLEAN
  BY DEF IInv, LInv, RestPart
<1>9. ASSUME NEW t \in Tasks, Run(t) \/ Call(t) \/ Cancel(t)
      PROVE  /\ conn = "wedged" => conn' = "wedged" /\ (available' => available)
             /\ available' /\ ~available =>
                  conn' = "open" /\ ~scrap' /\ ~deaf' /\ DOMAIN store' = {}
  BY <1>1, <1>2, <1>3, <1>4, <1>5, <1>7, <1>8, <1>9 DEF Run
<1>10. CASE UNCHANGED vars
  BY <1>1, <1>10 DEF vars, wireVars
<1> QED BY <1>6, <1>9, <1>10 DEF Next

(* A connect repairs whatever was cut, or the transport is wedged for good *)
(* and no connect succeeds.                                                *)
THEOREM AvailableIfRepaired == Spec => AvailableOrWedged
<1>1. IInv /\ [Next]_vars =>
        [(conn = "wedged" => conn' = "wedged" /\ (available' => available))
         /\ (available' /\ ~available =>
               conn' = "open" /\ ~scrap' /\ ~deaf' /\ DOMAIN store' = {})]_vars
  BY WedgedStep
<1> QED BY <1>1, InitIInv, NextIInv, PTL DEF Spec, AvailableOrWedged

-----------------------------------------------------------------------------
(* A pull closes its stream.                                               *)

(* A step of a pull from x to y does not end it before its _clse.          *)
Closes(x, y) ==
  x.op = Pull /\ x.rid # None /\ y.at = "idle" => x.step \in {"clse", "clsed"}

LEMMA RaisedCloses ==
  ASSUME NEW x \in Task
  PROVE  Closes(x, Raised(x))
<1>1. CASE x.op = Pull /\ x.rid # None /\ x.step \notin {"clse", "clsed"}
  <2> DEFINE w == [x EXCEPT !.pkt = None]
  <2>1. w \in Task /\ Raised(x) = Goto(w, "clse")
    BY <1>1 DEF Task, Raised
  <2> HIDE DEF w
  <2>2. Goto(w, "clse").at = "acquire"
    BY <2>1, GotoFields DEF Sends, Reads
  <2> QED BY <2>1, <2>2 DEF Closes
<1>2. CASE ~(x.op = Pull /\ x.rid # None /\ x.step \notin {"clse", "clsed"})
  BY <1>2 DEF Closes
<1> QED BY <1>1, <1>2

LEMMA ReturnedCloses ==
  ASSUME NEW x \in Task, x.step \in Reads, NEW p \in WholePacket
  PROVE  Closes(x, Returned(x, p))
<1>1. CASE x.step = "clsed"
  BY <1>1 DEF Closes
<1>2. CASE x.step # "clsed"
  <2>1. PICK w \in Task, s \in Sends \cup Reads : Returned(x, p) = Goto(w, s)
    <3>1. [x EXCEPT !.rid = p.arg0] \in Task /\ [x EXCEPT !.pkt = p] \in Task
      BY DEF Task, WholePacket, Packet
    <3>2. {"stream", "request", "filesync", "reclose", "okay"} \subseteq Sends \cup Reads
      BY DEF Sends, Reads
    <3>3. CASE x.step = "opened"
      <4>1. Returned(x, p) = AfterOpen([x EXCEPT !.rid = p.arg0])
        BY <3>3 DEF Returned
      <4> QED BY <3>1, <3>2, <4>1 DEF AfterOpen
    <3>4. CASE x.step = "flush"
      <4>1. Returned(x, p) = Goto(x, "filesync")
        BY <3>4 DEF Returned
      <4> QED BY <3>2, <4>1
    <3>5. CASE x.step = "stream" /\ p.cmd = "CLSE"
      <4>1. Returned(x, p) = Goto(x, "reclose")
        BY <3>5 DEF Returned
      <4> QED BY <3>2, <4>1
    <3>6. CASE x.step \in {"stream", "filesync"} /\ ~(x.step = "stream" /\ p.cmd = "CLSE")
      <4>1. Returned(x, p) = Goto([x EXCEPT !.pkt = p], "okay")
        BY <3>6 DEF Returned
      <4> QED BY <3>1, <3>2, <4>1
    <3> QED BY <1>2, <3>3, <3>4, <3>5, <3>6 DEF Reads
  <2>2. Goto(w, s).at # "idle"
    BY GotoFields
  <2> QED BY <2>1, <2>2 DEF Closes
<1> QED BY <1>1, <1>2

LEMMA SentCloses ==
  ASSUME NEW x \in Task, TaskOK(x), x.step \in Sends
  PROVE  Closes(x, Sent(x))
<1> SUFFICES ASSUME x.op = Pull, x.rid # None, x.step \notin {"clse", "clsed"}
             PROVE  Sent(x).at # "idle"
  BY DEF Closes
<1>1. x.step # "reclose"
  BY DEF TaskOK, StreamOK, Shell, Pull
<1>2. CASE x.step = "open"
  <2>1. Sent(x) = Goto(x, "opened")
    BY <1>2 DEF Sent
  <2> QED BY <2>1, GotoFields DEF Reads
<1>3. CASE x.step = "request"
  <2>1. Sent(x) = Goto(x, "flush")
    BY <1>3 DEF Sent
  <2> QED BY <2>1, GotoFields DEF Reads
<1>4. CASE x.step = "okay"
  <2>1. Sent(x) = [x EXCEPT !.at = "file"]
    BY <1>4 DEF Sent, Shell, Push, Pull
  <2> QED BY <2>1 DEF Task
<1> QED BY <1>1, <1>2, <1>3, <1>4 DEF Sends

(* A step of a task that is not at rest either ends after its _clse or     *)
(* goes on.                                                                *)
Proceeds(t) == \E y : Continue(t, y) /\ Closes(task[t], y)

LEMMA DispatchProceeds ==
  ASSUME LInv, NEW t \in Tasks, task[t].step \in Reads, NEW p \in WholePacket, Dispatch(t, p)
  PROVE  Proceeds(t)
<1> DEFINE x == [task[t] EXCEPT !.pkt = None]
           a == [x EXCEPT !.at = "acquire"]
<1>1. task[t] \in Task
  BY HolderHasLock DEF LInv
<1>2. x \in Task /\ x.op = task[t].op /\ x.rid = task[t].rid /\ x.step = task[t].step
  BY <1>1 DEF Task
<1>3. a.at = "acquire"
  BY <1>2 DEF Task
<1>4. Continue(t, Returned(x, p)) \/ Continue(t, a) \/ Continue(t, Raised(x))
  BY DEF Dispatch
<1> HIDE DEF x, a
<1>5. Closes(x, Returned(x, p)) /\ Closes(x, Raised(x)) /\ Closes(x, a)
  BY <1>2, <1>3, ReturnedCloses, RaisedCloses DEF Closes
<1>6. \A y : Closes(x, y) => Closes(task[t], y)
  BY <1>2 DEF Closes
<1> QED BY <1>4, <1>5, <1>6 DEF Proceeds

LEMMA ReadProceeds ==
  ASSUME LInv, NEW t \in Tasks,
         ReadStore(t) \/ RecheckStore(t) \/ ReadHeader(t) \/ ReadData(t) \/ ReadNoHeader(t)
  PROVE  Proceeds(t)
<1>1. task[t] \in Task /\ TaskOK(task[t]) /\ StreamOK(task[t])
  BY HolderHasLock DEF LInv
<1>2. ASSUME NEW here \in {"fast", "locked"}, TakeStored(t, here), task[t].step \in Reads
      PROVE  Proceeds(t)
  <2>1. PICK k \in Matches(task[t]) :
          LET q == PacketAt(store, k)
              p == Msg(q.cmd, k[1], k[2], q.data)
          IN  Continue(t, IF p.cmd \in Expected(task[t].step)
                          THEN Returned(task[t], p) ELSE [task[t] EXCEPT !.at = here])
    BY <1>2 DEF TakeStored
  <2> DEFINE q == PacketAt(store, k)
             p == Msg(q.cmd, k[1], k[2], q.data)
             z == [task[t] EXCEPT !.at = here]
  <2>2. k \in Nat \X Lids /\ q \in WholeStored
    BY MatchesHit, GetKeepsStore DEF LInv, StorePart
  <2>3. p \in WholePacket
    BY <2>2 DEF WholePacket, Packet, WholeStored, Stored, Msg
  <2>4. z.at # "idle"
    BY <1>1, <1>2 DEF Task
  <2>5. Continue(t, Returned(task[t], p)) \/ Continue(t, z)
    BY <2>1
  <2> HIDE DEF z, p, q
  <2>6. Closes(task[t], Returned(task[t], p)) /\ Closes(task[t], z)
    BY <1>1, <1>2, <2>3, <2>4, ReturnedCloses DEF Closes
  <2> QED BY <2>5, <2>6 DEF Proceeds
<1>3. CASE ReadStore(t)
  <2>1. task[t].step \in Reads /\ TakeStored(t, "fast")
    BY <1>1, <1>3 DEF ReadStore, Has, TaskOK
  <2> QED BY <1>2, <2>1
<1>4. CASE RecheckStore(t)
  <2>1. CASE Continue(t, [task[t] EXCEPT !.at = "header"])
    <3>1. [task[t] EXCEPT !.at = "header"].at # "idle"
      BY <1>1 DEF Task
    <3> QED BY <2>1, <3>1 DEF Proceeds, Closes
  <2> QED BY <1>2, <1>4, <2>1 DEF RecheckStore
<1>5. CASE ReadHeader(t)
  <2>1. /\ Head(arriving)[2] \in WholePacket /\ task[t].step \in Reads
        /\ \/ Continue(t, [task[t] EXCEPT !.pkt = Head(arriving)[2], !.at = "data"])
           \/ Dispatch(t, Head(arriving)[2])
    BY <1>5, ReaderHolds, TailArrives DEF ReadHeader, Resumes
  <2>2. CASE Continue(t, [task[t] EXCEPT !.pkt = Head(arriving)[2], !.at = "data"])
    <3>1. [task[t] EXCEPT !.pkt = Head(arriving)[2], !.at = "data"].at # "idle"
      BY <1>1 DEF Task
    <3> QED BY <2>2, <3>1 DEF Proceeds, Closes
  <2> QED BY <2>1, <2>2, DispatchProceeds
<1>6. CASE ReadData(t)
  <2>1. /\ task[t].pkt \in WholePacket /\ task[t].step \in Reads
        /\ Dispatch(t, task[t].pkt) \/ Continue(t, Raised(task[t]))
    BY <1>1, <1>6 DEF ReadData, DataIsThere, Resumes, TaskOK
  <2> QED BY <1>1, <2>1, DispatchProceeds, RaisedCloses DEF Proceeds
<1>7. CASE ReadNoHeader(t)
  BY <1>1, <1>7, RaisedCloses DEF ReadNoHeader, Proceeds
<1> QED BY <1>3, <1>4, <1>5, <1>6, <1>7

LEMMA SendProceeds ==
  ASSUME LInv, NEW t \in Tasks,
         Queue(t) \/ SendHeader(t) \/ SendData(t) \/ SendDone(t) \/ SendNowhere(t)
  PROVE  Proceeds(t)
<1>1. task[t] \in Task /\ TaskOK(task[t])
  BY HolderHasLock DEF LInv
<1>2. CASE Queue(t) \/ SendHeader(t) \/ SendData(t)
  <2>1. PICK at \in {"queue", "drain"}, x \in Task : Continue(t, [x EXCEPT !.at = at])
    <3>1. [task[t] EXCEPT !.part = "data"] \in Task
      BY <1>1 DEF Task, Kinds
    <3> QED BY <1>1, <1>2, <3>1 DEF Queue, SendHeader, SendData, Write
  <2>2. [x EXCEPT !.at = at].at # "idle"
    BY DEF Task
  <2> QED BY <2>1, <2>2 DEF Proceeds, Closes
<1>3. CASE SendDone(t) \/ SendNowhere(t)
  <2>1. task[t].step \in Sends /\ Continue(t, Sent(task[t]))
    BY <1>1, <1>3 DEF SendDone, SendNowhere, Return, Resumes, TaskOK
  <2> QED BY <1>1, <2>1, SentCloses DEF Proceeds
<1> QED BY <1>2, <1>3

LEMMA OtherProceeds ==
  ASSUME LInv, NEW t \in Tasks,
         \/ Timeout(t) \/ Cancel(t) \/ NoConnection(t) \/ WriteFile(t) \/ CalledBack(t)
         \/ BeginClosing(t) \/ CloseTransport(t) \/ CloseWedged(t) \/ Dialed(t) \/ Greeted(t)
         \/ Call(t)
  PROVE  Proceeds(t)
<1>1. TasksPart /\ task[t] \in Task /\ TaskOK(task[t]) /\ StreamOK(task[t])
  BY HolderHasLock DEF LInv
<1>2. CASE Timeout(t) \/ Cancel(t)
  <2>1. Continue(t, IF task[t].at = "callback" THEN NextChunk(task[t], task[t].pkt.data[2])
                                               ELSE Raised(task[t]))
    BY <1>2 DEF Timeout, Cancel, Strike
  <2>2. CASE task[t].at = "callback"
    <3>1. NextChunk(task[t], task[t].pkt.data[2]).at # "idle"
      BY <1>1, <2>2, NextChunkIsLockless DEF TaskOK, StreamOK, Sends
    <3> QED BY <2>1, <2>2, <3>1 DEF Proceeds, Closes
  <2>3. CASE task[t].at # "callback"
    BY <1>1, <2>1, <2>3, RaisedCloses DEF Proceeds
  <2> QED BY <2>2, <2>3
<1>3. CASE NoConnection(t)
  BY <1>1, <1>3, RaisedCloses DEF NoConnection, Proceeds
<1>4. CASE WriteFile(t) \/ CalledBack(t)
  <2> DEFINE n == NextChunk(task[t], task[t].pkt.data[2])
             z == [task[t] EXCEPT !.at = "callback"]
  <2>1. task[t].at \in {"file", "callback"} /\ (Continue(t, z) \/ Continue(t, n))
    BY <1>4 DEF WriteFile, CalledBack, Resumes
  <2>2. z.at # "idle"
    BY <1>1 DEF Task
  <2>3. n.at # "idle"
    BY <1>1, <2>1, NextChunkIsLockless DEF TaskOK, StreamOK, Sends
  <2> HIDE DEF n, z
  <2> QED BY <2>1, <2>2, <2>3 DEF Proceeds, Closes
<1>5. CASE BeginClosing(t) \/ CloseTransport(t) \/ CloseWedged(t) \/ Dialed(t) \/ Greeted(t)
  <2>1. task[t].op # Pull
    <3>1. task[t].step \in Resets
      BY <1>1, <1>5 DEF BeginClosing, CloseTransport, Emptied, CloseWedged, Dialed, Greeted, Resumes,
                        TaskOK, Resets
    <3> QED BY <1>1, <3>1, TasksAssumption DEF StreamOK, Sends, Reads, Resets, Ops
  <2>2. \E y : Continue(t, y)
    BY <1>5 DEF BeginClosing, CloseTransport, Emptied, CloseWedged, Dialed, Greeted
  <2> QED BY <2>1, <2>2 DEF Proceeds, Closes
<1>6. CASE Call(t)
  <2>1. task[t].op = None
    <3>1. task[t].at = "idle"
      BY <1>6 DEF Call, Start, CallReset
    <3>2. task[t] = IdleTask
      BY <1>1, <3>1 DEF TaskOK
    <3> QED BY <3>2 DEF IdleTask
  <2>2. \E y : Continue(t, y)
    BY <1>6 DEF Call, Start, CallReset
  <2> QED BY <2>1, <2>2, TasksAssumption DEF Proceeds, Closes, Ops
<1> QED BY <1>2, <1>3, <1>4, <1>5, <1>6

LEMMA PullStep ==
  ASSUME LInv, [Next]_vars, NEW u \in Tasks, task[u].op = Pull, task[u].rid # None,
         task'[u].at = "idle"
  PROVE  task[u].step \in {"clse", "clsed"}
<1>1. task[u].at # "idle"
  <2>1. TaskOK(task[u])
    BY HolderHasLock DEF LInv
  <2> QED BY <2>1, TasksAssumption DEF TaskOK, IdleTask, Ops
<1>2. ASSUME NEW t \in Tasks, Proceeds(t)
      PROVE  task[u].step \in {"clse", "clsed"}
  <2>1. PICK y : Continue(t, y) /\ Closes(task[t], y)
    BY <1>2 DEF Proceeds
  <2>2. task'[t] = y /\ \A w \in Tasks \ {t} : task'[w] = task[w]
    BY <2>1, TaskBecomes
  <2>3. u = t
    BY <1>1, <2>2
  <2> QED BY <2>1, <2>2, <2>3 DEF Closes
<1>3. task' # task
  BY <1>1
<1>4. PICK t \in Tasks : (Run(t) /\ ~Suspend(t)) \/ Call(t) \/ Cancel(t)
  <2>1. ~Device /\ ~Resting /\ ~UNCHANGED vars /\ \A t \in Tasks : ~Suspend(t)
    BY <1>3 DEF Device, DevTake, DevSend, DevClose, devRest, Resting, vars, Suspend
  <2> QED BY <2>1 DEF Next
<1> QED BY <1>2, <1>4, ReadProceeds, SendProceeds, OtherProceeds DEF Run

(* Whatever error or cancellation comes out of an await, a pull that knows *)
(* its stream comes to its _clse before it ends.                           *)
THEOREM PullsClose == Spec => PullCloses
<1>1. IInv /\ [Next]_vars =>
        [\A t \in Tasks :
           task[t].op = Pull /\ task[t].rid # None /\ task'[t].at = "idle"
           => task[t].step \in {"clse", "clsed"}]_vars
  BY PullStep DEF IInv
<1> QED BY <1>1, InitIInv, NextIInv, PTL DEF Spec, PullCloses

-----------------------------------------------------------------------------
(* The line of a stream: its packets on their way to the host.  Those in   *)
(* the store are at negative places, the one in a task's hand at 0, those  *)
(* on the wire at positive places, so that the next to be read is the      *)
(* first, and what a reader takes moves no other.                          *)

Item(n, q) == [pos |-> n, cmd |-> q.cmd, data |-> q.data]

InQueue(q) == {Item(i - Len(q) - 1, q[i]) : i \in 1 .. Len(q)}
AtHand(l, H) == {Item(0, p) : p \in {h \in H : h.arg1 = l}}
OnWire(l, w) == {Item(i, w[i][2]) : i \in {j \in 1 .. Len(w) : w[j][1] = "header" /\ w[j][2].arg1 = l}}

LineOf(l, q, H, w) == InQueue(q) \cup AtHand(l, H) \cup OnWire(l, w)

Key(l) == <<DevId(l), l>>
Queued(l) == QueueOf(store, Key(l))
Hands == {task[u].pkt : u \in {v \in Tasks : task[v].at = "data"}}

Line(l) == LineOf(l, Queued(l), Hands, arriving)

(* The post of a stream: its messages on their way to the device, the one  *)
(* of which the device has the header at 0.                                *)
PostOf(l, h, w) ==
  {Item(0, m) : m \in {x \in {h} : x # None /\ x.arg0 = l}}
  \cup {Item(i, w[i][2]) : i \in {j \in 1 .. Len(w) : w[j][1] = "header" /\ w[j][2].arg0 = l}}

Post(l) == PostOf(l, half, unsent)

Some(S, c) == \E w \in S : w.cmd = c

-----------------------------------------------------------------------------
(* What holds of the stream l, whose line is S and whose post is P, while  *)
(* its reader, at x, wants its data.                                       *)

Early == {"open", "opened", "request", "flush"}
Wanting == Early \cup {"filesync", "stream", "okay"}

Held(x) == x.step = "okay" /\ x.at \notin {"file", "callback"}
Unwritten(x) == x.at \in {"acquire", "queue"}
Have(x, r) == Len(r) + (IF Held(x) THEN 1 ELSE 0)
Given(l, n) == [i \in 1 .. n |-> <<l, i>>]

KnowsStream(l, x, d) ==
  /\ d.st # "none" => d.op = x.op
  /\ IF x.step \in {"open", "opened"} THEN x.rid = None /\ (x.op # Shell => ~d.asked /\ d.n = 0)
                                      ELSE x.rid = DevId(l) /\ d.st # "none"

HasGot(l, x, d, r) ==
  /\ r = Given(l, Len(r)) /\ Have(x, r) <= d.n
  /\ Held(x) => x.pkt.data = <<l, Len(r) + 1>>
  /\ x.step \in Early => r = <<>>

PostOK(x, P) ==
  /\ ~Some(P, "CLSE")
  /\ \A v \in P : v.cmd = "OPEN" => v.data = x.op
  /\ x.step \in {"open", "opened"} => \A v \in P : v.cmd = "OPEN"
  /\ x.step = "open" /\ Unwritten(x) => P = {}

DataOK(l, x, d, S, r, whole) ==
  /\ \A w \in S : w.cmd = "WRTE" => w.data = <<l, Have(x, r) + 1>> /\ d.n = Have(x, r) + 1
  /\ \A v, w \in S : v.cmd = "WRTE" /\ w.cmd = "WRTE" => v.pos = w.pos
  /\ \A v, w \in S : v.cmd = "CLSE" /\ w.cmd = "WRTE" => w.pos < v.pos
  /\ d.st # "none" /\ Some(S, "CLSE") =>
       /\ d.st \in {"closed", "gone"} /\ x.op = Shell
       /\ whole => d.n = Have(x, r) \/ Some(S, "WRTE")

(* The answer to the OPEN or the request comes before everything else.     *)
AnswerFirst(x, d, S, whole) ==
  whole /\ x.step \in Early =>
    /\ \A w \in S : w.cmd = "WRTE" \/ (w.cmd = "CLSE" /\ d.st # "none") =>
         \E v \in S : v.cmd = "OKAY" /\ v.pos < w.pos
    /\ d.st = "open" /\ (d.op = Shell \/ d.asked) => Some(S, "OKAY")

(* Nothing is missing, if the line is whole: no packet was given up.       *)
Whole(x, d, S, r, whole) ==
  whole /\ d.st # "gone" => d.n = Have(x, r) \/ Some(S, "WRTE")

(* The right to send: the device's, on its way there, or a packet that has *)
(* still to be acknowledged.  There is only one, and only once the reader  *)
(* has what was sent before.                                               *)
OneTurn(x, d, S, P, r) ==
  LET unsaid == Held(x) /\ Unwritten(x)
  IN  /\ d.credit = 1 \/ Some(P, "OKAY") \/ unsaid => d.n = Have(x, r)
      /\ d.credit = 1 => ~Some(S, "WRTE") /\ ~Some(P, "OKAY") /\ ~unsaid
      /\ Some(S, "WRTE") => ~Some(P, "OKAY") /\ ~unsaid
      /\ unsaid => ~Some(P, "OKAY")
      /\ \A v, w \in P : v.cmd = "OKAY" /\ w.cmd = "OKAY" => v.pos = w.pos

Reading(l, x, d, S, P, r, whole) ==
  /\ KnowsStream(l, x, d) /\ HasGot(l, x, d, r) /\ PostOK(x, P) /\ DataOK(l, x, d, S, r, whole)
  /\ AnswerFirst(x, d, S, whole) /\ Whole(x, d, S, r, whole) /\ OneTurn(x, d, S, P, r)

(* A shell that was told of the end has everything, if nothing was lost.   *)
ToldOfEnd(l, d, r, whole) == d.st \in {"closed", "gone"} /\ (whole => r = Given(l, d.n))

(* What holds of a stream that nobody may read.                            *)
StreamFacts(d, S, P) ==
  /\ d.st = "none" => d = NoStream
  /\ \A w \in S : w.cmd # "CLSE" => d.st # "none"
  /\ Some(P, "OPEN") => d.st = "none" /\ S = {}
  /\ \A v, w \in P : v.cmd = "OPEN" /\ w.cmd = "OPEN" => v.pos = w.pos

Unopened(d, S, P, r) == d.st = "none" /\ S = {} /\ P = {} /\ r = <<>>

LidOK(l, d, S, P, r, n) == StreamFacts(d, S, P) /\ (l > n => Unopened(d, S, P, r))

(* What holds of the stream l, with the queue q, while its task is at x.   *)
ReaderOK(l, x, d, S, P, r, whole, q) ==
  /\ x.step \in Wanting => Reading(l, x, d, S, P, r, whole)
  /\ x.step = "reclose" => ToldOfEnd(l, d, r, whole)
  /\ x.step \in Wanting /\ x.at \in {"header", "data"} => q = <<>>
  /\ x.step = "open" /\ Unwritten(x) => Unopened(d, S, P, r)

StreamInv(l) ==
  /\ LidOK(l, dev[l], Line(l), Post(l), received[l], local_id)
  /\ \A t \in Tasks : task[t].lid = l =>
       ReaderOK(l, task[t], dev[l], Line(l), Post(l), received[l], l \notin lossy, Queued(l))

(* Packets come from the device under its own id, or a refusal under 0.    *)
FromDevice(p) ==
  p.arg1 \in Lids /\ (p.arg0 = DevId(p.arg1) \/ (p.arg0 = 0 /\ p.cmd = "CLSE"))

PacketsOK ==
  /\ \A i \in 1 .. Len(arriving) : FromDevice(arriving[i][2])
  /\ \A t \in Tasks : task[t].at = "data" => FromDevice(task[t].pkt)
  /\ \A k \in DOMAIN store : \E l \in Lids : k = Key(l)

OwnersOK ==
  /\ \A t \in Tasks : task[t].lid <= local_id
  /\ \A t, u \in Tasks : task[t].lid = task[u].lid /\ task[t].lid # 0 => t = u

WireOK ==
  conn # "open" => \A l \in Lids : dev[l].st \in {"none", "gone"}

DInv == IInv /\ OwnersOK /\ WireOK /\ PacketsOK /\ \A l \in Lids : StreamInv(l)
-----------------------------------------------------------------------------
(* What the reader of a stream relies on outlasts the steps of others.     *)

Placed(S) == \A w \in S : w.pos \in Int

(* The items of S move to places in the same order; only a CLSE may get    *)
(* lost on the way.                                                        *)
SameItem(v, w, f) == w.pos = f[v.pos] /\ w.cmd = v.cmd /\ w.data = v.data

Moves(S, T, f) ==
  /\ f \in [Int -> Int] /\ \A v, w \in S : v.pos < w.pos => f[v.pos] < f[w.pos]
  /\ \A w \in T : \E v \in S : SameItem(v, w, f)
  /\ \A v \in S : v.cmd # "CLSE" => \E w \in T : SameItem(v, w, f)

Moved(S, T) == \E f : Moves(S, T, f)

LEMMA MovedPlaces ==
  ASSUME NEW S, NEW T, Placed(S), NEW f, Moves(S, T, f)
  PROVE  /\ Placed(T)
         /\ \A c : c # "CLSE" => (Some(S, c) <=> Some(T, c))
         /\ Some(T, "CLSE") => Some(S, "CLSE")
         /\ S = {} => T = {}
<1>1. \A i \in Int : f[i] \in Int
  BY DEF Moves
<1>2. Placed(T)
  BY <1>1 DEF Moves, SameItem, Placed
<1>3. \A c : c # "CLSE" => (Some(S, c) <=> Some(T, c))
  BY DEF Moves, SameItem, Some
<1>4. Some(T, "CLSE") => Some(S, "CLSE")
  BY DEF Moves, SameItem, Some
<1>5. S = {} => T = {}
  BY DEF Moves
<1> QED BY <1>2, <1>3, <1>4, <1>5

LEMMA MovedData ==
  ASSUME NEW l, NEW x, NEW d, NEW r, NEW S, NEW T, NEW whole, Placed(S), Moved(S, T), DataOK(l, x, d, S, r, whole)
  PROVE  DataOK(l, x, d, T, r, whole)
<1>1. PICK f : Moves(S, T, f)
  BY DEF Moved
<1>2. \A w \in T : \E v \in S : v.pos \in Int /\ SameItem(v, w, f)
  BY <1>1 DEF Moves, Placed
<1>3. \A w \in T : w.cmd = "WRTE" => w.data = <<l, Have(x, r) + 1>> /\ d.n = Have(x, r) + 1
  BY <1>2 DEF SameItem, DataOK
<1>4. ASSUME NEW v \in T, NEW w \in T, v.cmd = "WRTE", w.cmd = "WRTE" PROVE v.pos = w.pos
  <2>1. PICK a \in S : SameItem(a, v, f)
    BY <1>2
  <2>2. PICK b \in S : SameItem(b, w, f)
    BY <1>2
  <2>3. a.pos = b.pos
    BY <1>4, <2>1, <2>2 DEF SameItem, DataOK
  <2> QED BY <2>1, <2>2, <2>3 DEF SameItem
<1>5. ASSUME NEW v \in T, NEW w \in T, v.cmd = "CLSE", w.cmd = "WRTE" PROVE w.pos < v.pos
  <2>1. PICK a \in S : a.pos \in Int /\ SameItem(a, v, f)
    BY <1>2
  <2>2. PICK b \in S : b.pos \in Int /\ SameItem(b, w, f)
    BY <1>2
  <2>3. b.pos < a.pos
    BY <1>5, <2>1, <2>2 DEF SameItem, DataOK
  <2>4. f[b.pos] < f[a.pos]
    BY <2>1, <2>2, <2>3, <1>1 DEF Moves
  <2> QED BY <2>1, <2>2, <2>4 DEF SameItem
<1>6. /\ Some(T, "CLSE") => Some(S, "CLSE")
      /\ Some(S, "WRTE") <=> Some(T, "WRTE")
  BY <1>1, MovedPlaces
<1>7. d.st # "none" /\ Some(T, "CLSE") =>
        d.st \in {"closed", "gone"} /\ x.op = Shell /\ (whole => d.n = Have(x, r) \/ Some(T, "WRTE"))
  BY <1>6 DEF DataOK
<1> QED BY <1>3, <1>4, <1>5, <1>7 DEF DataOK

LEMMA MovedAnswer ==
  ASSUME NEW x, NEW d, NEW whole, NEW S, NEW T, Placed(S), Moved(S, T), AnswerFirst(x, d, S, whole)
  PROVE  AnswerFirst(x, d, T, whole)
<1>1. PICK f : Moves(S, T, f)
  BY DEF Moved
<1>2. Some(S, "OKAY") <=> Some(T, "OKAY")
  BY <1>1, MovedPlaces
<1>3. ASSUME whole, x.step \in Early, NEW w \in T, w.cmd = "WRTE" \/ (w.cmd = "CLSE" /\ d.st # "none")
      PROVE  \E v \in T : v.cmd = "OKAY" /\ v.pos < w.pos
  <2>1. PICK b \in S : SameItem(b, w, f)
    BY <1>1 DEF Moves
  <2>2. PICK a \in S : a.cmd = "OKAY" /\ a.pos < b.pos
    BY <1>3, <2>1 DEF SameItem, AnswerFirst
  <2>3. PICK v \in T : SameItem(a, v, f)
    BY <1>1, <2>2 DEF Moves
  <2>4. f[a.pos] < f[b.pos]
    BY <1>1, <2>1, <2>2 DEF Moves
  <2> QED BY <2>1, <2>2, <2>3, <2>4 DEF SameItem
<1> QED BY <1>2, <1>3 DEF AnswerFirst

LEMMA MovedReading ==
  ASSUME NEW l, NEW x, NEW d, NEW P, NEW r, NEW whole, NEW S, NEW T, Placed(S), Moved(S, T)
  PROVE  /\ Reading(l, x, d, S, P, r, whole) => Reading(l, x, d, T, P, r, whole)
         /\ StreamFacts(d, S, P) => StreamFacts(d, T, P)
         /\ Unopened(d, S, P, r) => Unopened(d, T, P, r)
         /\ Placed(T)
<1>1. PICK f : Moves(S, T, f)
  BY DEF Moved
<1>2. /\ Some(S, "WRTE") <=> Some(T, "WRTE")
      /\ S = {} => T = {}
      /\ Placed(T)
  BY <1>1, MovedPlaces
<1>3. Whole(x, d, S, r, whole) => Whole(x, d, T, r, whole)
  BY <1>2 DEF Whole
<1>4. OneTurn(x, d, S, P, r) => OneTurn(x, d, T, P, r)
  BY <1>2 DEF OneTurn
<1>5. (\A w \in S : w.cmd # "CLSE" => d.st # "none") => \A w \in T : w.cmd # "CLSE" => d.st # "none"
  BY <1>1 DEF Moves, SameItem
<1>6. StreamFacts(d, S, P) => StreamFacts(d, T, P)
  BY <1>2, <1>5 DEF StreamFacts
<1>7. Unopened(d, S, P, r) => Unopened(d, T, P, r)
  BY <1>2 DEF Unopened
<1> QED BY <1>2, <1>3, <1>4, <1>6, <1>7, MovedData, MovedAnswer DEF Reading

(* The post only gets shorter.                                             *)
Fewer(P, Q) ==
  \E f : \A w \in Q : \E v \in P : SameItem(v, w, f)

LEMMA FewerReading ==
  ASSUME NEW l, NEW x, NEW d, NEW S, NEW r, NEW whole, NEW P, NEW Q, Fewer(P, Q)
  PROVE  /\ Reading(l, x, d, S, P, r, whole) => Reading(l, x, d, S, Q, r, whole)
         /\ StreamFacts(d, S, P) => StreamFacts(d, S, Q)
         /\ Unopened(d, S, P, r) => Unopened(d, S, Q, r)
<1>1. PICK f : \A w \in Q : \E v \in P : SameItem(v, w, f)
  BY DEF Fewer
<1>2. \A c : Some(Q, c) => Some(P, c)
  BY <1>1 DEF SameItem, Some
<1>3. P = {} => Q = {}
  BY <1>1
<1>4. \A c : (\A v, w \in P : v.cmd = c /\ w.cmd = c => v.pos = w.pos)
             => \A v, w \in Q : v.cmd = c /\ w.cmd = c => v.pos = w.pos
  <2> SUFFICES ASSUME NEW c, \A v, w \in P : v.cmd = c /\ w.cmd = c => v.pos = w.pos,
                      NEW v \in Q, NEW w \in Q, v.cmd = c, w.cmd = c
               PROVE  v.pos = w.pos
    OBVIOUS
  <2>1. PICK a \in P : SameItem(a, v, f)
    BY <1>1
  <2>2. PICK b \in P : SameItem(b, w, f)
    BY <1>1
  <2>3. a.pos = b.pos
    BY <2>1, <2>2 DEF SameItem
  <2> QED BY <2>1, <2>2, <2>3 DEF SameItem
<1>5. PostOK(x, P) => PostOK(x, Q)
  BY <1>1, <1>2, <1>3 DEF PostOK, SameItem
<1>6. OneTurn(x, d, S, P, r) => OneTurn(x, d, S, Q, r)
  BY <1>2, <1>4 DEF OneTurn
<1>7. StreamFacts(d, S, P) => StreamFacts(d, S, Q)
  BY <1>2, <1>4 DEF StreamFacts
<1>8. Unopened(d, S, P, r) => Unopened(d, S, Q, r)
  BY <1>3 DEF Unopened
<1> QED BY <1>5, <1>6, <1>7, <1>8 DEF Reading

(* The reader moves on without a change to what it wants.                  *)
SameReader(x, y) ==
  /\ y.step = x.step /\ y.op = x.op /\ y.rid = x.rid
  /\ Held(y) = Held(x) /\ (Held(x) => y.pkt = x.pkt)
  /\ Unwritten(y) => Unwritten(x) \/ (y.step # "open" /\ ~Held(y))

LEMMA SameReading ==
  ASSUME NEW l, NEW x, NEW y, NEW d, NEW S, NEW P, NEW r, NEW whole, SameReader(x, y),
         Reading(l, x, d, S, P, r, whole)
  PROVE  Reading(l, y, d, S, P, r, whole)
<1>1. Have(y, r) = Have(x, r)
  BY DEF SameReader, Have
<1>2. KnowsStream(l, y, d) /\ HasGot(l, y, d, r)
  BY <1>1 DEF SameReader, Reading, KnowsStream, HasGot
<1>3. PostOK(y, P)
  BY DEF SameReader, Reading, PostOK
<1>4. DataOK(l, y, d, S, r, whole)
  BY <1>1 DEF SameReader, Reading, DataOK
<1>5. AnswerFirst(y, d, S, whole) /\ Whole(y, d, S, r, whole)
  BY <1>1 DEF SameReader, Reading, AnswerFirst, Whole
<1>6. OneTurn(y, d, S, P, r)
  BY <1>1 DEF SameReader, Reading, OneTurn
<1> QED BY <1>2, <1>3, <1>4, <1>5, <1>6 DEF Reading
-----------------------------------------------------------------------------
(* What reading and storing do to a line.                                  *)

LEMMA LineIs ==
  ASSUME NEW l, NEW q, NEW H, NEW w
  PROVE  /\ \A v : v \in LineOf(l, q, H, w) <=>
              \/ \E i \in 1 .. Len(q) : v = Item(i - Len(q) - 1, q[i])
              \/ \E p \in H : p.arg1 = l /\ v = Item(0, p)
              \/ \E i \in 1 .. Len(w) : w[i][1] = "header" /\ w[i][2].arg1 = l /\ v = Item(i, w[i][2])
BY DEF LineOf, InQueue, AtHand, OnWire

LEMMA LinePlaced ==
  ASSUME NEW l, NEW q, NEW H, NEW w, Len(q) \in Nat, Len(w) \in Nat
  PROVE  Placed(LineOf(l, q, H, w))
<1> SUFFICES ASSUME NEW v \in LineOf(l, q, H, w) PROVE v.pos \in Int
  BY DEF Placed
<1> QED BY LineIs DEF Item

LEMMA MovedSame ==
  ASSUME NEW S, Placed(S)
  PROVE  Moved(S, S)
<1> DEFINE f == [i \in Int |-> i]
<1>1. Moves(S, S, f)
  BY DEF Moves, SameItem, Placed
<1> QED BY <1>1 DEF Moved

WireDown == [i \in Int |-> IF i >= 1 THEN i - 1 ELSE i]
StoreDown == [i \in Int |-> IF i <= 0 THEN i - 1 ELSE i]

(* The first part on the wire is read: a header comes to a hand.           *)
LEMMA HeaderRead ==
  ASSUME NEW l, NEW X, NEW q, Len(q) \in Nat, NEW w \in Seq(X), w # <<>>, Head(w)[1] = "header"
  PROVE  Moved(LineOf(l, q, {}, w), LineOf(l, q, {Head(w)[2]}, Tail(w)))
<1> DEFINE S == LineOf(l, q, {}, w)
           h == Head(w)
           u == Tail(w)
           T == LineOf(l, q, {h[2]}, u)
           f == WireDown
<1>1. /\ h = w[1] /\ Len(w) \in Nat /\ Len(w) >= 1 /\ Len(u) = Len(w) - 1
      /\ \A i \in 1 .. Len(u) : u[i] = w[i + 1]
  OBVIOUS
<1>2. f \in [Int -> Int] /\ \A i \in Int : f[i] = IF i >= 1 THEN i - 1 ELSE i
  BY DEF WireDown
<1> HIDE DEF h, u, f
<1>3. \A v \in S : v.pos \in Int /\ v.pos # 0
  <2> SUFFICES ASSUME NEW v \in S PROVE v.pos \in Int /\ v.pos # 0
    OBVIOUS
  <2> QED BY <1>1, LineIs DEF Item
<1>4. ASSUME NEW v \in S PROVE \E t \in T : SameItem(v, t, f)
  <2>1. CASE \E i \in 1 .. Len(q) : v = Item(i - Len(q) - 1, q[i])
    <3>1. v \in T
      BY <2>1, LineIs
    <3>2. v.pos \in Int /\ v.pos <= 0
      BY <2>1 DEF Item
    <3> QED BY <1>2, <3>1, <3>2 DEF SameItem
  <2>2. ASSUME NEW i \in 1 .. Len(w), w[i][1] = "header" /\ w[i][2].arg1 = l /\ v = Item(i, w[i][2])
        PROVE  \E t \in T : SameItem(v, t, f)
    <3>1. CASE i = 1
      <4>1. Item(0, h[2]) \in T
        BY <1>1, <2>2, <3>1, LineIs
      <4>2. SameItem(v, Item(0, h[2]), f)
        BY <1>1, <1>2, <2>2, <3>1 DEF SameItem, Item
      <4> QED BY <4>1, <4>2
    <3>2. CASE i # 1
      <4>1. i - 1 \in 1 .. Len(u) /\ u[i - 1] = w[i]
        BY <1>1, <3>2
      <4>2. Item(i - 1, u[i - 1]  [2]) \in T
        BY <2>2, <4>1, LineIs
      <4>3. SameItem(v, Item(i - 1, w[i][2]), f)
        BY <1>1, <1>2, <2>2, <3>2 DEF SameItem, Item
      <4> QED BY <4>1, <4>2, <4>3
    <3> QED BY <3>1, <3>2
  <2> QED BY <2>1, <2>2, LineIs
<1>5. ASSUME NEW t \in T PROVE \E v \in S : SameItem(v, t, f)
  <2>1. CASE \E i \in 1 .. Len(q) : t = Item(i - Len(q) - 1, q[i])
    <3>1. t \in S
      BY <2>1, LineIs
    <3>2. t.pos \in Int /\ t.pos <= 0
      BY <2>1 DEF Item
    <3> QED BY <1>2, <3>1, <3>2 DEF SameItem
  <2>2. CASE h[2].arg1 = l /\ t = Item(0, h[2])
    <3>1. Item(1, w[1][2]) \in S
      BY <1>1, <2>2, LineIs
    <3>2. SameItem(Item(1, w[1][2]), t, f)
      BY <1>1, <1>2, <2>2 DEF SameItem, Item
    <3> QED BY <3>1, <3>2
  <2>3. ASSUME NEW i \in 1 .. Len(u), u[i][1] = "header" /\ u[i][2].arg1 = l /\ t = Item(i, u[i][2])
        PROVE  \E v \in S : SameItem(v, t, f)
    <3>1. i + 1 \in 1 .. Len(w) /\ u[i] = w[i + 1]
      BY <1>1
    <3>2. Item(i + 1, w[i + 1][2]) \in S
      BY <2>3, <3>1, LineIs
    <3>3. SameItem(Item(i + 1, w[i + 1][2]), t, f)
      BY <1>2, <2>3, <3>1 DEF SameItem, Item
    <3> QED BY <3>2, <3>3
  <2> QED BY <2>1, <2>2, <2>3, LineIs
<1>6. \A v, t \in S : v.pos < t.pos => f[v.pos] < f[t.pos]
  <2>1. ASSUME NEW i \in Int, NEW j \in Int, i < j, i # 0, j # 0 PROVE f[i] < f[j]
    <3>1. f[i] = (IF i >= 1 THEN i - 1 ELSE i) /\ f[j] = (IF j >= 1 THEN j - 1 ELSE j)
      BY <1>2
    <3> QED BY <2>1, <3>1
  <2> QED BY <1>3, <2>1
<1> HIDE DEF S, T
<1>7. Moves(S, T, f)
  BY <1>2, <1>4, <1>5, <1>6 DEF Moves
<1> QED BY <1>7 DEF Moved, S, T, h, u

(* The data of a packet that a task has in its hand.                       *)
LEMMA DataRead ==
  ASSUME NEW l, NEW X, NEW q, Len(q) \in Nat, NEW H, NEW w \in Seq(X), w # <<>>, Head(w)[1] = "data"
  PROVE  Moved(LineOf(l, q, H, w), LineOf(l, q, H, Tail(w)))
<1> DEFINE S == LineOf(l, q, H, w)
           u == Tail(w)
           T == LineOf(l, q, H, u)
           f == WireDown
<1>1. /\ w[1][1] = "data" /\ Len(w) \in Nat /\ Len(w) >= 1 /\ Len(u) = Len(w) - 1
      /\ \A i \in 1 .. Len(u) : u[i] = w[i + 1]
  OBVIOUS
<1>2. f \in [Int -> Int] /\ \A i \in Int : f[i] = IF i >= 1 THEN i - 1 ELSE i
  BY DEF WireDown
<1> HIDE DEF u, f
<1>3. \A v \in S : v.pos \in Int /\ v.pos # 1
  <2> SUFFICES ASSUME NEW v \in S PROVE v.pos \in Int /\ v.pos # 1
    OBVIOUS
  <2> QED BY <1>1, LineIs DEF Item
<1>4. ASSUME NEW v \in S PROVE \E t \in T : SameItem(v, t, f)
  <2>1. CASE \/ \E i \in 1 .. Len(q) : v = Item(i - Len(q) - 1, q[i])
             \/ \E p \in H : p.arg1 = l /\ v = Item(0, p)
    <3>1. v \in T
      BY <2>1, LineIs
    <3>2. v.pos \in Int /\ v.pos <= 0
      BY <2>1 DEF Item
    <3> QED BY <1>2, <3>1, <3>2 DEF SameItem
  <2>2. ASSUME NEW i \in 1 .. Len(w), w[i][1] = "header" /\ w[i][2].arg1 = l /\ v = Item(i, w[i][2])
        PROVE  \E t \in T : SameItem(v, t, f)
    <3>1. i # 1
      BY <1>1, <2>2
    <3>2. i - 1 \in 1 .. Len(u) /\ u[i - 1] = w[i]
      BY <1>1, <3>1
    <3>3. Item(i - 1, u[i - 1]  [2]) \in T
      BY <2>2, <3>2, LineIs
    <3>4. SameItem(v, Item(i - 1, w[i][2]), f)
      BY <1>1, <1>2, <2>2, <3>1 DEF SameItem, Item
    <3> QED BY <3>2, <3>3, <3>4
  <2> QED BY <2>1, <2>2, LineIs
<1>5. ASSUME NEW t \in T PROVE \E v \in S : SameItem(v, t, f)
  <2>1. CASE \/ \E i \in 1 .. Len(q) : t = Item(i - Len(q) - 1, q[i])
             \/ \E p \in H : p.arg1 = l /\ t = Item(0, p)
    <3>1. t \in S
      BY <2>1, LineIs
    <3>2. t.pos \in Int /\ t.pos <= 0
      BY <2>1 DEF Item
    <3> QED BY <1>2, <3>1, <3>2 DEF SameItem
  <2>2. ASSUME NEW i \in 1 .. Len(u), u[i][1] = "header" /\ u[i][2].arg1 = l /\ t = Item(i, u[i][2])
        PROVE  \E v \in S : SameItem(v, t, f)
    <3>1. i + 1 \in 1 .. Len(w) /\ u[i] = w[i + 1]
      BY <1>1
    <3>2. Item(i + 1, w[i + 1][2]) \in S
      BY <2>2, <3>1, LineIs
    <3>3. SameItem(Item(i + 1, w[i + 1][2]), t, f)
      BY <1>2, <2>2, <3>1 DEF SameItem, Item
    <3> QED BY <3>2, <3>3
  <2> QED BY <2>1, <2>2, LineIs
<1>6. \A v, t \in S : v.pos < t.pos => f[v.pos] < f[t.pos]
  <2>1. ASSUME NEW i \in Int, NEW j \in Int, i < j, i # 1, j # 1 PROVE f[i] < f[j]
    <3>1. f[i] = (IF i >= 1 THEN i - 1 ELSE i) /\ f[j] = (IF j >= 1 THEN j - 1 ELSE j)
      BY <1>2
    <3> QED BY <2>1, <3>1
  <2> QED BY <1>3, <2>1
<1> HIDE DEF S, T
<1>7. Moves(S, T, f)
  BY <1>2, <1>4, <1>5, <1>6 DEF Moves
<1> QED BY <1>7 DEF Moved, S, T, u
(* A packet is stored, behind those of its stream in the store.            *)
LEMMA PacketStored ==
  ASSUME NEW l, NEW Y, NEW q \in Seq(Y), NEW w, Len(w) \in Nat, NEW p, p.arg1 = l,
         NEW e \in Y, e.cmd = p.cmd, e.data = p.data
  PROVE  Moved(LineOf(l, q, {p}, w), LineOf(l, Append(q, e), {}, w))
<1> DEFINE S == LineOf(l, q, {p}, w)
           u == Append(q, e)
           T == LineOf(l, u, {}, w)
           f == StoreDown
<1>1. /\ Len(q) \in Nat /\ Len(u) = Len(q) + 1 /\ u[Len(q) + 1] = e
      /\ \A i \in 1 .. Len(q) : u[i] = q[i]
  OBVIOUS
<1>2. f \in [Int -> Int] /\ \A i \in Int : f[i] = IF i <= 0 THEN i - 1 ELSE i
  BY DEF StoreDown
<1> HIDE DEF u, f
<1>8. ASSUME NEW i \in Int, i >= 1 PROVE f[i] = i
  <2>1. f[i] = IF i <= 0 THEN i - 1 ELSE i
    BY <1>2
  <2> QED BY <1>8, <2>1
<1>9. ASSUME NEW i \in Int, i <= 0 PROVE f[i] = i - 1
  <2>1. f[i] = IF i <= 0 THEN i - 1 ELSE i
    BY <1>2
  <2> QED BY <1>9, <2>1
<1>3. \A v \in S : v.pos \in Int
  BY <1>1, LinePlaced DEF Placed
<1>4. ASSUME NEW v \in S PROVE \E t \in T : SameItem(v, t, f)
  <2>1. ASSUME NEW i \in 1 .. Len(q), v = Item(i - Len(q) - 1, q[i])
        PROVE  \E t \in T : SameItem(v, t, f)
    <3>1. i \in 1 .. Len(u) /\ u[i] = q[i] /\ i - Len(u) - 1 = (i - Len(q) - 1) - 1
      BY <1>1
    <3>2. Item(i - Len(u) - 1, u[i]) \in T
      BY <3>1, LineIs
    <3>3. i - Len(q) - 1 \in Int /\ i - Len(q) - 1 <= 0
      BY <1>1
    <3>5. f[i - Len(q) - 1] = (i - Len(q) - 1) - 1
      BY <1>9, <3>3
    <3>4. SameItem(v, Item(i - Len(u) - 1, u[i]), f)
      BY <2>1, <3>1, <3>5 DEF SameItem, Item
    <3> QED BY <3>2, <3>4
  <2>2. CASE v = Item(0, p)
    <3>1. Len(u) \in 1 .. Len(u) /\ Len(u) - Len(u) - 1 = 0 - 1 /\ u[Len(u)] = e
      BY <1>1
    <3>2. Item(Len(u) - Len(u) - 1, u[Len(u)]) \in T
      BY <3>1, LineIs
    <3>3. f[0] = 0 - 1
      BY <1>2
    <3>4. SameItem(v, Item(0 - 1, e), f)
      BY <2>2, <3>3 DEF SameItem, Item
    <3> QED BY <3>1, <3>2, <3>4
  <2>3. CASE \E i \in 1 .. Len(w) : w[i][1] = "header" /\ w[i][2].arg1 = l /\ v = Item(i, w[i][2])
    <3>1. v \in T
      BY <2>3, LineIs
    <3>2. v.pos \in Int /\ v.pos >= 1
      BY <2>3 DEF Item
    <3>3. f[v.pos] = v.pos
      BY <1>8, <3>2
    <3> QED BY <3>1, <3>3 DEF SameItem
  <2> QED BY <2>1, <2>2, <2>3, LineIs
<1>5. ASSUME NEW t \in T PROVE \E v \in S : SameItem(v, t, f)
  <2>1. ASSUME NEW i \in 1 .. Len(u), t = Item(i - Len(u) - 1, u[i])
        PROVE  \E v \in S : SameItem(v, t, f)
    <3>1. CASE i = Len(u)
      <4>1. t = Item(0 - 1, e)
        BY <1>1, <2>1, <3>1
      <4>2. Item(0, p) \in S
        BY LineIs
      <4>3. f[0] = 0 - 1
        BY <1>2
      <4>4. SameItem(Item(0, p), t, f)
        BY <4>1, <4>3 DEF SameItem, Item
      <4> QED BY <4>2, <4>4
    <3>2. CASE i # Len(u)
      <4>1. i \in 1 .. Len(q) /\ u[i] = q[i] /\ i - Len(u) - 1 = (i - Len(q) - 1) - 1
        BY <1>1, <3>2
      <4>2. Item(i - Len(q) - 1, q[i]) \in S
        BY <4>1, LineIs
      <4>3. i - Len(q) - 1 \in Int /\ i - Len(q) - 1 <= 0
        BY <1>1, <4>1
      <4>5. f[i - Len(q) - 1] = (i - Len(q) - 1) - 1
        BY <1>9, <4>3
      <4>4. SameItem(Item(i - Len(q) - 1, q[i]), t, f)
        BY <2>1, <4>1, <4>5 DEF SameItem, Item
      <4> QED BY <4>2, <4>4
    <3> QED BY <3>1, <3>2
  <2>2. CASE \E i \in 1 .. Len(w) : w[i][1] = "header" /\ w[i][2].arg1 = l /\ t = Item(i, w[i][2])
    <3>1. t \in S
      BY <2>2, LineIs
    <3>2. t.pos \in Int /\ t.pos >= 1
      BY <2>2 DEF Item
    <3>3. f[t.pos] = t.pos
      BY <1>8, <3>2
    <3> QED BY <3>1, <3>3 DEF SameItem
  <2> QED BY <2>1, <2>2, LineIs
<1>6. \A v, t \in S : v.pos < t.pos => f[v.pos] < f[t.pos]
  <2>1. ASSUME NEW i \in Int, NEW j \in Int, i < j PROVE f[i] < f[j]
    <3>1. f[i] = (IF i <= 0 THEN i - 1 ELSE i) /\ f[j] = (IF j <= 0 THEN j - 1 ELSE j)
      BY <1>2
    <3> QED BY <2>1, <3>1
  <2> QED BY <1>3, <2>1
<1> HIDE DEF S, T
<1>7. Moves(S, T, f)
  BY <1>2, <1>4, <1>5, <1>6 DEF Moves
<1> QED BY <1>7 DEF Moved, S, T, u

(* A CLSE that opens no queue is dropped.                                  *)
LEMMA CloseDropped ==
  ASSUME NEW l, NEW q, NEW w, Len(q) \in Nat, Len(w) \in Nat, NEW p, p.cmd = "CLSE"
  PROVE  Moved(LineOf(l, q, {p}, w), LineOf(l, q, {}, w))
<1> DEFINE S == LineOf(l, q, {p}, w)
           T == LineOf(l, q, {}, w)
           f == [i \in Int |-> i]
<1>1. \A v \in T : v \in S
  BY LineIs
<1>2. ASSUME NEW v \in S, v.cmd # "CLSE" PROVE v \in T
  <2>1. v # Item(0, p)
    BY <1>2 DEF Item
  <2> QED BY <2>1, LineIs
<1>3. \A v \in S : v.pos \in Int
  BY LinePlaced DEF Placed
<1> HIDE DEF S, T
<1>4. Moves(S, T, f)
  BY <1>1, <1>2, <1>3 DEF Moves, SameItem
<1> QED BY <1>4 DEF Moved, S, T

(* The packets of other streams are no part of a line.                     *)
LEMMA NotInLine ==
  ASSUME NEW l, NEW q, NEW w, NEW p, p.arg1 # l
  PROVE  LineOf(l, q, {p}, w) = LineOf(l, q, {}, w)
<1>1. AtHand(l, {p}) = {} /\ AtHand(l, {}) = {}
  BY DEF AtHand
<1> QED BY <1>1 DEF LineOf

(* The first item of a line is taken; with a CLSE others may go.           *)
TakesFirst(S, v, T) ==
  /\ v \in S /\ v \notin T /\ T \subseteq S
  /\ \A u \in S : u = v \/ v.pos < u.pos
  /\ v.cmd # "CLSE" => \A u \in S : u = v \/ u \in T

LEMMA StoredTaken ==
  ASSUME NEW l, NEW Y, NEW q \in Seq(Y), q # <<>>, NEW H, NEW w, Len(w) \in Nat
  PROVE  TakesFirst(LineOf(l, q, H, w), Item(- Len(q), Head(q)),
                    LineOf(l, IF Head(q).cmd = "CLSE" THEN <<>> ELSE Tail(q), H, w))
<1> DEFINE S == LineOf(l, q, H, w)
           u == Tail(q)
           z == IF Head(q).cmd = "CLSE" THEN <<>> ELSE u
           T == LineOf(l, z, H, w)
           v == Item(- Len(q), Head(q))
<1>1. /\ Head(q) = q[1] /\ Len(q) \in Nat /\ Len(q) >= 1 /\ Len(u) = Len(q) - 1
      /\ \A i \in 1 .. Len(u) : u[i] = q[i + 1]
  OBVIOUS
<1> HIDE DEF u
<1>2. v \in S
  <2>1. 1 \in 1 .. Len(q) /\ 1 - Len(q) - 1 = - Len(q)
    BY <1>1
  <2> QED BY <1>1, <2>1, LineIs
<1>3. \A s \in S : s = v \/ v.pos < s.pos
  <2> SUFFICES ASSUME NEW s \in S PROVE s = v \/ v.pos < s.pos
    OBVIOUS
  <2>0. v.pos = - Len(q)
    BY DEF Item
  <2>1. ASSUME NEW i \in 1 .. Len(q), s = Item(i - Len(q) - 1, q[i]) PROVE s = v \/ v.pos < s.pos
    <3>1. CASE i = 1
      BY <1>1, <2>1, <3>1
    <3>2. CASE i # 1
      <4>1. s.pos = i - Len(q) - 1
        BY <2>1 DEF Item
      <4> QED BY <1>1, <2>0, <3>2, <4>1
    <3> QED BY <3>1, <3>2
  <2>2. ASSUME \E n \in Nat : \E p : s = Item(n, p) PROVE v.pos < s.pos
    <3>1. s.pos \in Nat
      BY <2>2 DEF Item
    <3> QED BY <1>1, <2>0, <3>1
  <2> QED BY <2>1, <2>2, LineIs
<1>4. ASSUME NEW t \in T PROVE t \in S /\ t # v
  <2>1. ASSUME NEW i \in 1 .. Len(u), t = Item(i - Len(u) - 1, u[i]), z = u PROVE t \in S /\ t # v
    <3>1. i + 1 \in 1 .. Len(q) /\ u[i] = q[i + 1] /\ i - Len(u) - 1 = (i + 1) - Len(q) - 1
      BY <1>1
    <3>2. t \in S
      BY <2>1, <3>1, LineIs
    <3>3. t.pos = (i + 1) - Len(q) - 1 /\ v.pos = - Len(q)
      BY <2>1, <3>1 DEF Item
    <3>4. t.pos # v.pos
      BY <1>1, <3>3
    <3> QED BY <3>2, <3>4
  <2>2. ASSUME \/ \E p \in H : p.arg1 = l /\ t = Item(0, p)
               \/ \E i \in 1 .. Len(w) : w[i][1] = "header" /\ w[i][2].arg1 = l /\ t = Item(i, w[i][2])
        PROVE  t \in S /\ t # v
    <3>1. t \in S
      BY <2>2, LineIs
    <3>2. t.pos \in Nat /\ v.pos = - Len(q)
      BY <2>2 DEF Item
    <3>3. t.pos # v.pos
      BY <1>1, <3>2
    <3> QED BY <3>1, <3>3
  <2>3. z = <<>> \/ z = u
    OBVIOUS
  <2>4. Len(<<>>) = 0
    OBVIOUS
  <2>5. \/ \E i \in 1 .. Len(z) : t = Item(i - Len(z) - 1, z[i])
        \/ \E p \in H : p.arg1 = l /\ t = Item(0, p)
        \/ \E i \in 1 .. Len(w) : w[i][1] = "header" /\ w[i][2].arg1 = l /\ t = Item(i, w[i][2])
    <3> HIDE DEF z
    <3> QED BY LineIs
  <2>6. (\E i \in 1 .. Len(z) : t = Item(i - Len(z) - 1, z[i])) => t \in S /\ t # v
    <3> HIDE DEF z, S, v, u
    <3> QED BY <2>1, <2>3, <2>4
  <2> HIDE DEF z, S, v, u
  <2> QED BY <2>2, <2>5, <2>6
<1>5. ASSUME v.cmd # "CLSE", NEW s \in S PROVE s = v \/ s \in T
  <2>1. z = u
    BY <1>5 DEF Item
  <2>2. ASSUME NEW i \in 1 .. Len(q), s = Item(i - Len(q) - 1, q[i]) PROVE s = v \/ s \in T
    <3>1. CASE i = 1
      BY <1>1, <2>2, <3>1
    <3>2. CASE i # 1
      <4>1. i - 1 \in 1 .. Len(u) /\ u[i - 1] = q[i] /\ (i - 1) - Len(u) - 1 = i - Len(q) - 1
        BY <1>1, <3>2
      <4>2. s = Item((i - 1) - Len(u) - 1, u[i - 1])
        BY <2>2, <4>1
      <4>3. s \in LineOf(l, u, H, w)
        <5> HIDE DEF u
        <5> QED BY <4>1, <4>2, LineIs
      <4> QED BY <2>1, <4>3
    <3> QED BY <3>1, <3>2
  <2> QED BY <2>2, LineIs
<1> HIDE DEF S, T, v
<1> QED BY <1>2, <1>3, <1>4, <1>5 DEF TakesFirst, S, T, u, v

(* A reader that has nothing in the store takes its packet off the wire.   *)
LEMMA OwnTaken ==
  ASSUME NEW l, NEW w, Len(w) \in Nat, NEW p, p.arg1 = l
  PROVE  TakesFirst(LineOf(l, <<>>, {p}, w), Item(0, p), LineOf(l, <<>>, {}, w))
<1> DEFINE S == LineOf(l, <<>>, {p}, w)
           T == LineOf(l, <<>>, {}, w)
           v == Item(0, p)
<1>1. Len(<<>>) = 0
  OBVIOUS
<1>2. v \in S /\ T \subseteq S /\ \A u \in S : u = v \/ u \in T
  BY LineIs
<1>3. ASSUME NEW u \in T PROVE u # v /\ v.pos < u.pos
  <2>1. PICK i \in 1 .. Len(w) : u = Item(i, w[i][2])
    BY <1>1, LineIs
  <2> QED BY <2>1 DEF Item
<1> HIDE DEF S, T, v
<1> QED BY <1>2, <1>3 DEF TakesFirst, S, T, v

(* The device sends a packet.                                              *)
WithPacket(l, q, H, w, p) ==
  /\ p.arg1 = l => LineOf(l, q, H, w \o Parts(p)) = LineOf(l, q, H, w) \cup {Item(Len(w) + 1, p)}
  /\ p.arg1 # l => LineOf(l, q, H, w \o Parts(p)) = LineOf(l, q, H, w)
  /\ \A v \in LineOf(l, q, H, w) : v.pos < Len(w) + 1

LEMMA PacketArrives ==
  ASSUME NEW l, NEW X, NEW q, Len(q) \in Nat, NEW H, NEW w \in Seq(X), NEW p
  PROVE  WithPacket(l, q, H, w, p)
<1> DEFINE a == <<"header", p>>
           b == <<"data", p>>
           n == Len(w) + 1
           u == w \o Parts(p)
<1>1. Len(w) \in Nat /\ n \in Nat /\ n = Len(w) + 1
  OBVIOUS
<1>2. /\ \A i \in 1 .. Len(w) : u[i] = w[i]
      /\ u[n] = a /\ (Len(u) = n \/ (Len(u) = n + 1 /\ u[n + 1] = b))
  <2>1. CASE HasData(p)
    <3>1. u = w \o <<a, b>>
      BY <2>1 DEF Parts
    <3>2. w \in Seq(X \cup {a, b}) /\ <<a, b>> \in Seq(X \cup {a, b})
      OBVIOUS
    <3> HIDE DEF a, b, u
    <3> QED BY <3>1, <3>2
  <2>2. CASE ~HasData(p)
    <3>1. u = w \o <<a>>
      BY <2>2 DEF Parts
    <3>2. w \in Seq(X \cup {a}) /\ <<a>> \in Seq(X \cup {a})
      OBVIOUS
    <3> HIDE DEF a, b, u
    <3> QED BY <3>1, <3>2
  <2> QED BY <2>1, <2>2
<1> DEFINE At(i, s) == u[i][1] = "header" /\ u[i][2].arg1 = l /\ s = Item(i, u[i][2])
<1>3. a[1] = "header" /\ a[2] = p /\ b[1] # "header"
  OBVIOUS
<1> HIDE DEF u, n, a, b
<1>4. ASSUME NEW s
      PROVE  (\E i \in 1 .. Len(u) : At(i, s))
             <=> \/ \E i \in 1 .. Len(w) : w[i][1] = "header" /\ w[i][2].arg1 = l /\ s = Item(i, w[i][2])
                 \/ p.arg1 = l /\ s = Item(n, p)
  <2>1. ASSUME NEW i \in 1 .. Len(u), At(i, s)
        PROVE  \/ \E j \in 1 .. Len(w) : w[j][1] = "header" /\ w[j][2].arg1 = l /\ s = Item(j, w[j][2])
               \/ p.arg1 = l /\ s = Item(n, p)
    <3>1. i \in 1 .. Len(w) \/ i = n \/ (i = n + 1 /\ Len(u) = n + 1)
      BY <1>1, <1>2
    <3>2. CASE i \in 1 .. Len(w)
      BY <1>2, <2>1, <3>2
    <3>3. CASE i = n
      BY <1>2, <1>3, <2>1, <3>3
    <3>4. CASE i = n + 1 /\ Len(u) = n + 1
      <4>1. u[i][1] # "header"
        BY <1>1, <1>2, <1>3, <3>4
      <4> QED BY <2>1, <4>1
    <3> QED BY <3>1, <3>2, <3>3, <3>4
  <2>2. ASSUME NEW i \in 1 .. Len(w), w[i][1] = "header" /\ w[i][2].arg1 = l /\ s = Item(i, w[i][2])
        PROVE  \E j \in 1 .. Len(u) : At(j, s)
    <3>1. i \in 1 .. Len(u) /\ u[i] = w[i]
      BY <1>1, <1>2
    <3> QED BY <2>2, <3>1
  <2>3. ASSUME p.arg1 = l, s = Item(n, p) PROVE \E j \in 1 .. Len(u) : At(j, s)
    <3>1. n \in 1 .. Len(u)
      BY <1>1, <1>2
    <3>2. At(n, s)
      BY <1>2, <1>3, <2>3
    <3> QED BY <3>1, <3>2
  <2> QED BY <2>1, <2>2, <2>3
<1>5. \A s : s \in LineOf(l, q, H, u) <=> s \in LineOf(l, q, H, w) \/ (p.arg1 = l /\ s = Item(n, p))
  <2> SUFFICES ASSUME NEW s
               PROVE  s \in LineOf(l, q, H, u) <=> s \in LineOf(l, q, H, w) \/ (p.arg1 = l /\ s = Item(n, p))
    OBVIOUS
  <2>1. (\E i \in 1 .. Len(u) : At(i, s))
        <=> \/ \E i \in 1 .. Len(w) : w[i][1] = "header" /\ w[i][2].arg1 = l /\ s = Item(i, w[i][2])
            \/ p.arg1 = l /\ s = Item(n, p)
    BY <1>4
  <2>2. s \in LineOf(l, q, H, u) <=>
          \/ \E i \in 1 .. Len(q) : s = Item(i - Len(q) - 1, q[i])
          \/ \E h \in H : h.arg1 = l /\ s = Item(0, h)
          \/ \E i \in 1 .. Len(u) : At(i, s)
    BY LineIs
  <2>3. s \in LineOf(l, q, H, w) <=>
          \/ \E i \in 1 .. Len(q) : s = Item(i - Len(q) - 1, q[i])
          \/ \E h \in H : h.arg1 = l /\ s = Item(0, h)
          \/ \E i \in 1 .. Len(w) : w[i][1] = "header" /\ w[i][2].arg1 = l /\ s = Item(i, w[i][2])
    BY LineIs
  <2> QED BY <2>1, <2>2, <2>3
<1>6. \A s \in LineOf(l, q, H, w) : s.pos < n
  <2> SUFFICES ASSUME NEW s \in LineOf(l, q, H, w) PROVE s.pos < n
    OBVIOUS
  <2>1. \/ \E i \in 1 .. Len(q) : s.pos = i - Len(q) - 1
        \/ s.pos = 0
        \/ \E i \in 1 .. Len(w) : s.pos = i
    BY LineIs DEF Item
  <2> QED BY <1>1, <2>1
<1> QED BY <1>5, <1>6 DEF n, u, WithPacket

LEMMA NoLine ==
  ASSUME NEW l
  PROVE  LineOf(l, <<>>, {}, <<>>) = {}
<1>1. Len(<<>>) = 0
  OBVIOUS
<1> QED BY <1>1, LineIs
-----------------------------------------------------------------------------
(* What a reader does with the first packet of its stream.                 *)

LEMMA TakenFacts ==
  ASSUME NEW S, NEW v, NEW T, TakesFirst(S, v, T), Placed(S)
  PROVE  /\ \A w \in T : w \in S /\ v.pos < w.pos
         /\ \A c : Some(T, c) => Some(S, c)
         /\ v.cmd # "CLSE" => \A c : c # v.cmd => (Some(S, c) <=> Some(T, c))
         /\ Some(S, v.cmd) /\ Placed(T)
<1>1. \A w \in T : w \in S /\ v.pos < w.pos
  BY DEF TakesFirst
<1>2. \A c : Some(T, c) => Some(S, c)
  BY DEF TakesFirst, Some
<1>3. ASSUME v.cmd # "CLSE", NEW c, c # v.cmd, Some(S, c) PROVE Some(T, c)
  BY <1>3 DEF TakesFirst, Some
<1>4. Some(S, v.cmd) /\ Placed(T)
  BY DEF TakesFirst, Some, Placed
<1> QED BY <1>1, <1>2, <1>3, <1>4

(* The data behind the first packet.                                       *)
LEMMA TakenData ==
  ASSUME NEW l, NEW x, NEW d, NEW r, NEW S, NEW v, NEW T, NEW whole, TakesFirst(S, v, T), Placed(S),
         DataOK(l, x, d, S, r, whole)
  PROVE  /\ v.cmd = "WRTE" => ~Some(T, "WRTE")
         /\ v.cmd = "CLSE" => ~Some(S, "WRTE") /\ ~Some(T, "WRTE")
         /\ v.cmd \in {"OKAY", "CLSE"} \/ ~whole => DataOK(l, x, d, T, r, whole)
<1>1. /\ \A w \in T : w \in S /\ v.pos < w.pos
      /\ \A c : Some(T, c) => Some(S, c)
      /\ v.cmd # "CLSE" => \A c : c # v.cmd => (Some(S, c) <=> Some(T, c))
  BY TakenFacts
<1>2. \A w \in S : v.pos \in Int /\ w.pos \in Int
  BY DEF Placed, TakesFirst
<1>3. ASSUME v.cmd = "WRTE" PROVE ~Some(T, "WRTE")
  <2> SUFFICES ASSUME NEW w \in T, w.cmd = "WRTE" PROVE FALSE
    BY DEF Some
  <2>1. w \in S /\ v \in S /\ v.pos < w.pos
    BY <1>1 DEF TakesFirst
  <2>2. w.pos = v.pos
    BY <1>3, <2>1 DEF DataOK
  <2> QED BY <1>2, <2>1, <2>2
<1>4. ASSUME v.cmd = "CLSE" PROVE ~Some(S, "WRTE")
  <2> SUFFICES ASSUME NEW w \in S, w.cmd = "WRTE" PROVE FALSE
    BY DEF Some
  <2>1. w.pos < v.pos
    BY <1>4 DEF DataOK, TakesFirst
  <2>2. w # v
    BY <1>4
  <2>3. v.pos < w.pos
    BY <2>2 DEF TakesFirst
  <2> QED BY <1>2, <2>1, <2>3
<1>5. ASSUME v.cmd \in {"OKAY", "CLSE"} PROVE DataOK(l, x, d, T, r, whole)
  <2>1. Some(S, "WRTE") => Some(T, "WRTE")
    BY <1>1, <1>4, <1>5
  <2> QED BY <1>1, <2>1 DEF DataOK
<1>6. ~whole => DataOK(l, x, d, T, r, whole)
  BY <1>1 DEF DataOK
<1> QED BY <1>1, <1>3, <1>4, <1>5, <1>6

(* It drops a packet that it does not expect.                              *)
LEMMA DropsFirst ==
  ASSUME NEW l, NEW x, NEW d, NEW P, NEW r, NEW whole, NEW S, NEW v, NEW T,
         TakesFirst(S, v, T), Placed(S),
         Reading(l, x, d, S, P, r, whole), StreamFacts(d, S, P),
         x.step \in {"opened", "flush", "filesync", "stream"},
         v.cmd \in {"OKAY", "WRTE", "CLSE"}, v.cmd \notin Expected(x.step)
  PROVE  Reading(l, x, d, T, P, r, whole)
<1>1. /\ \A w \in T : w \in S /\ v.pos < w.pos
      /\ \A c : Some(T, c) => Some(S, c)
      /\ v.cmd # "CLSE" => \A c : c # v.cmd => (Some(S, c) <=> Some(T, c))
  BY TakenFacts
<1>2. DataOK(l, x, d, S, r, whole) /\ AnswerFirst(x, d, S, whole) /\ Whole(x, d, S, r, whole)
      /\ OneTurn(x, d, S, P, r) /\ HasGot(l, x, d, r) /\ KnowsStream(l, x, d)
  BY DEF Reading
<1>3. whole => v.cmd # "WRTE"
  <2> SUFFICES ASSUME whole, v.cmd = "WRTE" PROVE FALSE
    OBVIOUS
  <2>1. x.step \in Early
    BY DEF Expected, Early
  <2>2. PICK u \in S : u.cmd = "OKAY" /\ u.pos < v.pos
    BY <1>2, <2>1 DEF AnswerFirst, TakesFirst
  <2>3. v.pos < u.pos
    BY <2>2 DEF TakesFirst
  <2>4. v.pos \in Int /\ u.pos \in Int
    BY <2>2 DEF TakesFirst, Placed
  <2> QED BY <2>2, <2>3, <2>4
<1>4. DataOK(l, x, d, T, r, whole) /\ (v.cmd = "CLSE" => ~Some(S, "WRTE") /\ ~Some(T, "WRTE"))
  BY <1>2, <1>3, TakenData
<1>5. whole => (Some(S, "WRTE") <=> Some(T, "WRTE"))
  BY <1>1, <1>3, <1>4
<1>6. Whole(x, d, T, r, whole) /\ OneTurn(x, d, T, P, r)
  BY <1>1, <1>2, <1>5 DEF Whole, OneTurn
<1>7. AnswerFirst(x, d, T, whole)
  <2> SUFFICES ASSUME whole, x.step \in Early PROVE AnswerFirst(x, d, T, whole)
    BY DEF AnswerFirst
  <2>1. v.cmd = "CLSE"
    BY <1>3 DEF Expected, Early
  <2>2. d.st = "none"
    <3> SUFFICES ASSUME d.st # "none" PROVE FALSE
      OBVIOUS
    <3>1. PICK u \in S : u.cmd = "OKAY" /\ u.pos < v.pos
      BY <1>2, <2>1 DEF AnswerFirst, TakesFirst
    <3>2. v.pos < u.pos
      BY <2>1, <3>1 DEF TakesFirst
    <3>3. v.pos \in Int /\ u.pos \in Int
      BY <3>1 DEF TakesFirst, Placed
    <3> QED BY <3>1, <3>2, <3>3
  <2>3. \A w \in T : w.cmd # "WRTE"
    BY <1>4, <2>1 DEF Some
  <2> QED BY <2>2, <2>3 DEF AnswerFirst
<1> QED BY <1>2, <1>4, <1>6, <1>7 DEF Reading

(* The fields of a task that read has returned a packet to.                *)
LEMMA ReturnedFields ==
  ASSUME NEW x \in Task, x.step \in {"opened", "flush", "filesync", "stream"},
         NEW p \in Packet, p.cmd \in Expected(x.step)
  PROVE  LET y == Returned(x, p) IN
         /\ y.op = x.op /\ y.lid = x.lid
         /\ y.rid = (IF x.step = "opened" THEN p.arg0 ELSE x.rid)
         /\ x.step = "opened" => y.step = (IF x.op = Shell THEN "stream" ELSE "request")
         /\ x.step = "flush" => y.step = "filesync"
         /\ x.step = "stream" /\ p.cmd = "CLSE" => y.step = "reclose"
         /\ p.cmd = "WRTE" => y.step = "okay" /\ y.at = "acquire" /\ y.pkt = p
         /\ y.at = IF y.step \in Reads THEN "fast" ELSE "acquire"
<1> DEFINE y == Returned(x, p)
<1>1. CASE x.step = "opened"
  <2> DEFINE z == [x EXCEPT !.rid = p.arg0]
             s == IF x.op = Shell THEN "stream" ELSE "request"
  <2>1. z \in Task /\ z.op = x.op /\ z.lid = x.lid /\ z.rid = p.arg0
    BY DEF Task, Packet
  <2>2. y = Goto(z, s)
    BY <1>1, <2>1 DEF Returned, AfterOpen
  <2>3. s \in Sends \cup Reads
    BY DEF Sends, Reads
  <2>4. p.cmd = "OKAY"
    BY <1>1 DEF Expected
  <2> HIDE DEF z, s, y
  <2>5. /\ y.step = s /\ y.at = (IF s \in Reads THEN "fast" ELSE "acquire")
        /\ y.op = x.op /\ y.lid = x.lid /\ y.rid = p.arg0
    BY <2>1, <2>2, <2>3, GotoFields
  <2> QED BY <1>1, <2>4, <2>5 DEF s, y
<1>2. CASE x.step = "flush"
  <2>1. y = Goto(x, "filesync") /\ p.cmd = "OKAY"
    BY <1>2 DEF Returned, Expected
  <2> HIDE DEF y
  <2>2. /\ y.step = "filesync" /\ y.at = "fast"
        /\ y.op = x.op /\ y.lid = x.lid /\ y.rid = x.rid
    BY <2>1, GotoFields DEF Reads
  <2> QED BY <1>2, <2>1, <2>2 DEF y, Reads
<1>3. CASE x.step = "stream" /\ p.cmd = "CLSE"
  <2>1. y = Goto(x, "reclose")
    BY <1>3 DEF Returned
  <2> HIDE DEF y
  <2>2. /\ y.step = "reclose" /\ y.at = "acquire"
        /\ y.op = x.op /\ y.lid = x.lid /\ y.rid = x.rid
    BY <2>1, GotoFields DEF Sends, Reads
  <2> QED BY <1>3, <2>1, <2>2 DEF y, Reads
<1>4. CASE x.step \in {"stream", "filesync"} /\ p.cmd # "CLSE"
  <2> DEFINE z == [x EXCEPT !.pkt = p]
  <2>1. z \in Task /\ z.op = x.op /\ z.lid = x.lid /\ z.rid = x.rid /\ z.pkt = p
    BY DEF Task
  <2>2. y = Goto(z, "okay")
    BY <1>4 DEF Returned
  <2> HIDE DEF y, z
  <2>3. /\ y.step = "okay" /\ y.at = "acquire" /\ y.pkt = p
        /\ y.op = x.op /\ y.lid = x.lid /\ y.rid = x.rid
    BY <2>1, <2>2, GotoFields DEF Sends, Reads
  <2> QED BY <1>4, <2>3 DEF y, Reads
<1>5. x.step = "filesync" => p.cmd # "CLSE"
  BY DEF Expected
<1> QED BY <1>1, <1>2, <1>3, <1>4, <1>5

(* It goes on with one that it does.                                       *)
TakenFor(l, x, d, S, P, r, whole, v, T, p) ==
  /\ TakesFirst(S, v, T) /\ Placed(S)
  /\ Reading(l, x, d, S, P, r, whole) /\ StreamFacts(d, S, P) /\ Len(r) \in Nat
  /\ x \in Task /\ x.step \in {"opened", "flush", "filesync", "stream"}
  /\ p \in Packet /\ p.cmd = v.cmd /\ p.data = v.data /\ (p.cmd # "CLSE" => p.arg0 = DevId(l))

LEMMA UsesFirst ==
  ASSUME NEW l, NEW x, NEW d, NEW P, NEW r, NEW whole, NEW S, NEW v, NEW T, NEW p,
         TakenFor(l, x, d, S, P, r, whole, v, T, p), p.cmd \in Expected(x.step)
  PROVE  LET y == Returned(x, p) IN
         /\ y.op = x.op /\ y.lid = x.lid /\ y.at \in {"fast", "acquire"}
         /\ y.step \in Wanting => Reading(l, y, d, T, P, r, whole)
         /\ y.step = "reclose" => ToldOfEnd(l, d, r, whole)
         /\ y.step \in {"reclose", "stream", "request", "filesync", "okay"}
<1> USE DEF TakenFor
<1> DEFINE y == Returned(x, p)
<1>1. /\ \A w \in T : w \in S /\ v.pos < w.pos
      /\ \A c : Some(T, c) => Some(S, c)
      /\ v.cmd # "CLSE" => \A c : c # v.cmd => (Some(S, c) <=> Some(T, c))
      /\ Some(S, v.cmd)
  BY TakenFacts
<1>2. /\ KnowsStream(l, x, d) /\ HasGot(l, x, d, r) /\ PostOK(x, P) /\ DataOK(l, x, d, S, r, whole)
      /\ AnswerFirst(x, d, S, whole) /\ Whole(x, d, S, r, whole) /\ OneTurn(x, d, S, P, r)
  BY DEF Reading
<1>3. /\ y.op = x.op /\ y.lid = x.lid
      /\ y.rid = (IF x.step = "opened" THEN p.arg0 ELSE x.rid)
      /\ x.step = "opened" => y.step = (IF x.op = Shell THEN "stream" ELSE "request")
      /\ x.step = "flush" => y.step = "filesync"
      /\ x.step = "stream" /\ p.cmd = "CLSE" => y.step = "reclose"
      /\ p.cmd = "WRTE" => y.step = "okay" /\ y.at = "acquire" /\ y.pkt = p
      /\ y.at = IF y.step \in Reads THEN "fast" ELSE "acquire"
  BY ReturnedFields
<1>4. ~Held(x) /\ Have(x, r) = Len(r)
  BY DEF Held, Have
<1> HIDE DEF y
<1>5. CASE p.cmd = "OKAY"
  <2>1. x.step \in {"opened", "flush"} /\ y.step \in {"stream", "request", "filesync"} /\ ~Held(y)
        /\ Have(y, r) = Have(x, r) /\ y.rid = DevId(l)
    <3>1. x.step \in {"opened", "flush"}
      BY <1>5 DEF Expected
    <3> QED BY <1>2, <1>3, <1>4, <1>5, <3>1 DEF Held, Have, KnowsStream
  <2>2. d.st # "none"
    BY <1>5 DEF StreamFacts, TakesFirst
  <2>3. KnowsStream(l, y, d) /\ HasGot(l, y, d, r)
    BY <1>2, <1>3, <2>1, <2>2 DEF KnowsStream, HasGot, Early
  <2>4. PostOK(y, P)
    BY <1>2, <1>3, <2>1 DEF PostOK
  <2>5. DataOK(l, x, d, T, r, whole)
    BY <1>2, <1>5, TakenData
  <2>6. DataOK(l, y, d, T, r, whole)
    BY <1>3, <2>1, <2>5 DEF DataOK
  <2>7. Whole(y, d, T, r, whole) /\ OneTurn(y, d, T, P, r)
    BY <1>1, <1>2, <1>4, <1>5, <2>1 DEF Whole, OneTurn
  <2>8. AnswerFirst(y, d, T, whole)
    <3> SUFFICES ASSUME y.step \in Early PROVE AnswerFirst(y, d, T, whole)
      BY DEF AnswerFirst
    <3>1. x.step = "opened" /\ x.op # Shell
      BY <1>3, <2>1 DEF Early
    <3>2. ~d.asked /\ d.n = 0 /\ d.op # Shell
      BY <1>2, <2>2, <3>1 DEF KnowsStream
    <3>3. Have(x, r) + 1 # 0
      BY <1>4
    <3>4. \A w \in T : w.cmd # "WRTE" /\ w.cmd # "CLSE"
      BY <2>2, <2>5, <3>1, <3>2, <3>3 DEF DataOK, Some
    <3> QED BY <3>2, <3>4 DEF AnswerFirst
  <2>9. Reading(l, y, d, T, P, r, whole)
    BY <2>3, <2>4, <2>6, <2>7, <2>8 DEF Reading
  <2> QED BY <1>3, <2>1, <2>9 DEF y
<1>6. CASE p.cmd = "WRTE"
  <2>1. x.step \in {"filesync", "stream"} /\ y.step = "okay" /\ y.at = "acquire" /\ y.pkt = p
        /\ y.rid = x.rid
    BY <1>3, <1>6 DEF Expected
  <2>2. Held(y) /\ Have(y, r) = Len(r) + 1 /\ Have(y, r) = Have(x, r) + 1
    BY <1>4, <2>1 DEF Held, Have
  <2>3. v \in S /\ v.data = <<l, Len(r) + 1>> /\ d.n = Len(r) + 1
    BY <1>2, <1>4, <1>6 DEF DataOK, TakesFirst
  <2>4. KnowsStream(l, y, d)
    BY <1>2, <1>3, <2>1 DEF KnowsStream
  <2>5. HasGot(l, y, d, r)
    BY <1>2, <2>1, <2>2, <2>3 DEF HasGot, Early
  <2>6. PostOK(y, P)
    BY <1>2, <1>3, <2>1 DEF PostOK
  <2>7. ~Some(T, "WRTE")
    BY <1>2, <1>6, TakenData
  <2>8. DataOK(l, y, d, T, r, whole)
    BY <1>1, <1>2, <1>3, <2>2, <2>3, <2>7 DEF DataOK, Some
  <2>9. Whole(y, d, T, r, whole) /\ AnswerFirst(y, d, T, whole)
    BY <2>1, <2>2, <2>3 DEF Whole, AnswerFirst, Early
  <2>10. OneTurn(y, d, T, P, r)
    BY <1>1, <1>2, <1>6, <2>2, <2>3, <2>7 DEF OneTurn
  <2>11. Reading(l, y, d, T, P, r, whole)
    BY <2>4, <2>5, <2>6, <2>8, <2>9, <2>10 DEF Reading
  <2> QED BY <1>3, <2>1, <2>11 DEF y
<1>7. CASE p.cmd = "CLSE"
  <2>1. x.step = "stream" /\ y.step = "reclose" /\ y.at = "acquire"
    BY <1>3, <1>7 DEF Expected, Reads
  <2>2. d.st # "none"
    BY <1>2, <2>1 DEF KnowsStream
  <2>3. ~Some(S, "WRTE")
    BY <1>2, <1>7, TakenData
  <2>4. ToldOfEnd(l, d, r, whole)
    BY <1>1, <1>2, <1>4, <1>7, <2>2, <2>3 DEF DataOK, HasGot, ToldOfEnd
  <2> QED BY <1>3, <2>1, <2>4 DEF y, Wanting, Early
<1>8. p.cmd \in {"OKAY", "WRTE", "CLSE"}
  BY DEF Packet
<1> QED BY <1>5, <1>6, <1>7, <1>8
-----------------------------------------------------------------------------
(* What a reader does when a message of its own is sent.                   *)

LEMMA GivenMore ==
  ASSUME NEW l, NEW r, NEW X, r \in Seq(X), r = Given(l, Len(r))
  PROVE  /\ Append(r, <<l, Len(r) + 1>>) = Given(l, Len(r) + 1)
         /\ Len(Append(r, <<l, Len(r) + 1>>)) = Len(r) + 1
<1> DEFINE n == Len(r)
           e == <<l, n + 1>>
           u == Append(r, e)
<1>1. n \in Nat /\ r \in Seq(X \cup {e}) /\ \A i \in 1 .. n : r[i] = <<l, i>>
  BY DEF Given
<1> HIDE DEF n
<1>2. /\ u \in Seq(X \cup {e}) /\ Len(u) = n + 1 /\ DOMAIN u = 1 .. n + 1
      /\ \A i \in 1 .. n + 1 : u[i] = IF i <= n THEN r[i] ELSE e
  BY <1>1 DEF n
<1> HIDE DEF u
<1>3. \A i \in 1 .. n + 1 : u[i] = <<l, i>>
  BY <1>1, <1>2
<1>4. u = [i \in 1 .. n + 1 |-> u[i]]
  BY <1>2
<1>5. u = Given(l, n + 1)
  BY <1>3, <1>4 DEF Given
<1> QED BY <1>2, <1>5 DEF n, u

LEMMA NextChunkFields ==
  ASSUME NEW x \in Task, NEW n
  PROVE  LET y == NextChunk(x, n) IN
         /\ y.op = x.op /\ y.lid = x.lid /\ y.rid = x.rid
         /\ (y.step = "clse" /\ y.at = "acquire") \/ (y.step = "filesync" /\ y.at = "fast")
<1> DEFINE z == [x EXCEPT !.pkt = None]
           s == IF n = Chunks THEN "clse" ELSE "filesync"
           y == NextChunk(x, n)
<1>1. z \in Task /\ z.op = x.op /\ z.lid = x.lid /\ z.rid = x.rid
  BY DEF Task
<1>2. y = Goto(z, s) /\ s \in {"clse", "filesync"}
  BY DEF NextChunk
<1> HIDE DEF z, s, y
<1>3. s \in Sends \cup Reads /\ "clse" \notin Reads /\ "filesync" \in Reads
  BY <1>2 DEF Sends, Reads
<1> QED BY <1>1, <1>2, <1>3, GotoFields DEF y

(* What send returns to.                                                   *)
LEMMA SentFields ==
  ASSUME NEW x \in Task, x.step \in Sends, x.op \in Ops
  PROVE  LET y == Sent(x) IN
         /\ x.step = "open" => y.step = "opened" /\ y.at = "fast"
         /\ x.step = "request" => y.step = "flush" /\ y.at = "fast"
         /\ x.step = "clse" => y.step = "clsed" /\ y.at = "fast"
         /\ x.step = "reclose" => y = IdleTask
         /\ x.step = "okay" /\ x.op = Shell => y.step = "stream" /\ y.at = "fast"
         /\ x.step = "okay" /\ x.op = Push =>
              (y.step = "clse" /\ y.at = "acquire") \/ (y.step = "filesync" /\ y.at = "fast")
         /\ x.step = "okay" /\ x.op = Pull => y.step = "okay" /\ y.at = "file"
         /\ x.step # "reclose" => y.op = x.op /\ y.lid = x.lid /\ y.rid = x.rid
<1> DEFINE y == Sent(x)
<1>1. ASSUME NEW s \in Reads, NEW z \in Task, z.op = x.op, z.lid = x.lid, z.rid = x.rid, y = Goto(z, s)
      PROVE  y.step = s /\ y.at = "fast" /\ y.op = x.op /\ y.lid = x.lid /\ y.rid = x.rid
  <2> HIDE DEF y
  <2> QED BY <1>1, GotoFields DEF y
<1>2. CASE x.step = "open"
  <2>1. y = Goto(x, "opened")
    BY <1>2 DEF Sent
  <2> HIDE DEF y
  <2>2. y.step = "opened" /\ y.at = "fast" /\ y.op = x.op /\ y.lid = x.lid /\ y.rid = x.rid
    BY <1>1, <2>1 DEF Reads
  <2> QED BY <1>2, <2>2 DEF y
<1>3. CASE x.step = "request"
  <2>1. y = Goto(x, "flush")
    BY <1>3 DEF Sent
  <2> HIDE DEF y
  <2>2. y.step = "flush" /\ y.at = "fast" /\ y.op = x.op /\ y.lid = x.lid /\ y.rid = x.rid
    BY <1>1, <2>1 DEF Reads
  <2> QED BY <1>3, <2>2 DEF y
<1>4. CASE x.step = "clse"
  <2>1. y = Goto(x, "clsed")
    BY <1>4 DEF Sent
  <2> HIDE DEF y
  <2>2. y.step = "clsed" /\ y.at = "fast" /\ y.op = x.op /\ y.lid = x.lid /\ y.rid = x.rid
    BY <1>1, <2>1 DEF Reads
  <2> QED BY <1>4, <2>2 DEF y
<1>5. CASE x.step = "reclose"
  <2>1. y = IdleTask
    BY <1>5 DEF Sent
  <2> QED BY <1>5, <2>1
<1>6. CASE x.step = "okay" /\ x.op = Shell
  <2> DEFINE z == [x EXCEPT !.pkt = None]
  <2>1. z \in Task /\ z.op = x.op /\ z.lid = x.lid /\ z.rid = x.rid
    BY DEF Task
  <2>2. y = Goto(z, "stream")
    BY <1>6 DEF Sent, Shell, Push, Pull
  <2> HIDE DEF y, z
  <2>3. y.step = "stream" /\ y.at = "fast" /\ y.op = x.op /\ y.lid = x.lid /\ y.rid = x.rid
    BY <1>1, <2>1, <2>2 DEF Reads
  <2> QED BY <1>6, <2>3 DEF y, Shell, Push, Pull
<1>7. CASE x.step = "okay" /\ x.op = Push
  <2>1. y = NextChunk(x, x.pkt.data[2])
    BY <1>7 DEF Sent, Shell, Push, Pull
  <2> HIDE DEF y
  <2>2. /\ y.op = x.op /\ y.lid = x.lid /\ y.rid = x.rid
        /\ (y.step = "clse" /\ y.at = "acquire") \/ (y.step = "filesync" /\ y.at = "fast")
    BY <2>1, NextChunkFields
  <2> QED BY <1>7, <2>2 DEF y, Shell, Push, Pull
<1>8. CASE x.step = "okay" /\ x.op = Pull
  <2>1. y = [x EXCEPT !.at = "file"]
    BY <1>8 DEF Sent, Shell, Push, Pull
  <2> HIDE DEF y
  <2>2. y.step = "okay" /\ y.at = "file" /\ y.op = x.op /\ y.lid = x.lid /\ y.rid = x.rid
    BY <1>8, <2>1 DEF Task
  <2> QED BY <1>8, <2>2 DEF y, Shell, Push, Pull
<1> QED BY <1>2, <1>3, <1>4, <1>5, <1>6, <1>7, <1>8 DEF Sends, Ops

(* The caller has what is acknowledged.                                    *)
LEMMA SentReading ==
  ASSUME NEW l, NEW x \in Task, x.op \in Ops, x.step \in {"open", "request", "okay"},
         x.step = "okay" => Held(x), NEW d, NEW S, NEW P, NEW r \in Seq(Data), NEW whole,
         Reading(l, x, d, S, P, r, whole)
  PROVE  LET y == Sent(x)
             r2 == IF x.step = "okay" THEN Append(r, x.pkt.data) ELSE r
         IN  /\ y.lid = x.lid /\ y.step \in {"opened", "flush", "stream", "filesync", "clse", "okay"}
             /\ y.at \notin {"header", "data"}
             /\ y.step \in Wanting => Reading(l, y, d, S, P, r2, whole)
<1> DEFINE y == Sent(x)
           r2 == IF x.step = "okay" THEN Append(r, x.pkt.data) ELSE r
<1>1. /\ x.step = "open" => y.step = "opened" /\ y.at = "fast"
      /\ x.step = "request" => y.step = "flush" /\ y.at = "fast"
      /\ x.step = "okay" /\ x.op = Shell => y.step = "stream" /\ y.at = "fast"
      /\ x.step = "okay" /\ x.op = Push =>
           (y.step = "clse" /\ y.at = "acquire") \/ (y.step = "filesync" /\ y.at = "fast")
      /\ x.step = "okay" /\ x.op = Pull => y.step = "okay" /\ y.at = "file"
      /\ y.op = x.op /\ y.lid = x.lid /\ y.rid = x.rid
  BY SentFields DEF Sends
<1>2. /\ KnowsStream(l, x, d) /\ HasGot(l, x, d, r) /\ PostOK(x, P) /\ DataOK(l, x, d, S, r, whole)
      /\ AnswerFirst(x, d, S, whole) /\ Whole(x, d, S, r, whole) /\ OneTurn(x, d, S, P, r)
  BY DEF Reading
<1> HIDE DEF y
<1>3. ~Held(y)
  BY <1>1 DEF Held, Ops
<1>4. CASE x.step \in {"open", "request"}
  <2>1. ~Held(x) /\ Have(y, r) = Have(x, r) /\ y.step \in {"opened", "flush"} /\ y.at = "fast"
    BY <1>1, <1>3, <1>4 DEF Held, Have
  <2>2. KnowsStream(l, y, d) /\ HasGot(l, y, d, r)
    BY <1>1, <1>2, <1>3, <1>4, <2>1 DEF KnowsStream, HasGot, Early
  <2>3. PostOK(y, P)
    BY <1>1, <1>2, <1>4, <2>1 DEF PostOK
  <2>4. DataOK(l, y, d, S, r, whole) /\ AnswerFirst(y, d, S, whole) /\ Whole(y, d, S, r, whole)
    BY <1>1, <1>2, <1>4, <2>1 DEF DataOK, AnswerFirst, Whole, Early
  <2>5. OneTurn(y, d, S, P, r)
    BY <1>2, <1>3, <2>1 DEF OneTurn
  <2>6. Reading(l, y, d, S, P, r, whole)
    BY <2>2, <2>3, <2>4, <2>5 DEF Reading
  <2> QED BY <1>1, <1>4, <2>1, <2>6 DEF y
<1>5. CASE x.step = "okay"
  <2>1. /\ r2 = Given(l, Len(r) + 1) /\ Len(r2) = Len(r) + 1 /\ Len(r) \in Nat
        /\ Have(x, r) = Len(r) + 1
    <3>1. Held(x) /\ x.pkt.data = <<l, Len(r) + 1>> /\ r = Given(l, Len(r))
      BY <1>2, <1>5 DEF HasGot
    <3> QED BY <1>5, <3>1, GivenMore DEF Have
  <2> HIDE DEF r2
  <2>2. Have(y, r2) = Have(x, r)
    BY <1>3, <2>1 DEF Have
  <2>3. y.step \in {"stream", "filesync", "clse", "okay"} /\ y.at \in {"fast", "acquire", "file"}
    BY <1>1, <1>5 DEF Ops
  <2>4. KnowsStream(l, y, d)
    BY <1>1, <1>2, <1>5, <2>3 DEF KnowsStream
  <2>5. HasGot(l, y, d, r2)
    BY <1>2, <1>3, <2>1, <2>2, <2>3 DEF HasGot, Early
  <2>6. PostOK(y, P)
    BY <1>1, <1>2, <2>3 DEF PostOK
  <2>7. DataOK(l, y, d, S, r2, whole) /\ AnswerFirst(y, d, S, whole) /\ Whole(y, d, S, r2, whole)
    BY <1>1, <1>2, <2>2, <2>3 DEF DataOK, AnswerFirst, Whole, Early
  <2>8. OneTurn(y, d, S, P, r2)
    BY <1>2, <1>3, <2>2 DEF OneTurn
  <2>9. Reading(l, y, d, S, P, r2, whole)
    BY <2>4, <2>5, <2>6, <2>7, <2>8 DEF Reading
  <2> QED BY <1>1, <2>3, <2>9 DEF y, r2
<1> QED BY <1>4, <1>5

(* The data are written to the file of a pull.                             *)
LEMMA NextReading ==
  ASSUME NEW l, NEW x \in Task, x.step = "okay", ~Held(x), NEW n,
         NEW d, NEW S, NEW P, NEW r, NEW whole, Reading(l, x, d, S, P, r, whole)
  PROVE  LET y == NextChunk(x, n) IN
         /\ y.lid = x.lid /\ y.step \in {"clse", "filesync"} /\ y.at \notin {"header", "data"}
         /\ y.step \in Wanting => Reading(l, y, d, S, P, r, whole)
<1> DEFINE y == NextChunk(x, n)
<1>1. /\ y.op = x.op /\ y.lid = x.lid /\ y.rid = x.rid
      /\ (y.step = "clse" /\ y.at = "acquire") \/ (y.step = "filesync" /\ y.at = "fast")
  BY NextChunkFields
<1>2. /\ KnowsStream(l, x, d) /\ HasGot(l, x, d, r) /\ PostOK(x, P) /\ DataOK(l, x, d, S, r, whole)
      /\ AnswerFirst(x, d, S, whole) /\ Whole(x, d, S, r, whole) /\ OneTurn(x, d, S, P, r)
  BY DEF Reading
<1> HIDE DEF y
<1>3. ~Held(y) /\ Have(y, r) = Have(x, r)
  BY <1>1 DEF Held, Have
<1>4. KnowsStream(l, y, d) /\ HasGot(l, y, d, r)
  BY <1>1, <1>2, <1>3 DEF KnowsStream, HasGot, Early
<1>5. PostOK(y, P)
  BY <1>1, <1>2 DEF PostOK
<1>6. DataOK(l, y, d, S, r, whole) /\ AnswerFirst(y, d, S, whole) /\ Whole(y, d, S, r, whole)
  BY <1>1, <1>2, <1>3 DEF DataOK, AnswerFirst, Whole, Early
<1>7. OneTurn(y, d, S, P, r)
  BY <1>2, <1>3 DEF OneTurn
<1>8. Reading(l, y, d, S, P, r, whole)
  BY <1>4, <1>5, <1>6, <1>7 DEF Reading
<1> QED BY <1>1, <1>8 DEF y

(* The header of a message is on its way.                                  *)
LEMMA WritesReading ==
  ASSUME NEW l, NEW x \in Task, x.step \in {"open", "request", "okay"}, Unwritten(x),
         NEW d, NEW S, NEW P, NEW r, NEW whole, Reading(l, x, d, S, P, r, whole),
         NEW y \in Task, y = [x EXCEPT !.at = "drain"], NEW n, NEW m, m = MessageOf(x)
  PROVE  Reading(l, y, d, S, P \cup {Item(n, m)}, r, whole)
<1> DEFINE v == Item(n, m)
           Q == P \cup {v}
<1>1. /\ y.op = x.op /\ y.lid = x.lid /\ y.rid = x.rid /\ y.pkt = x.pkt
      /\ y.step = x.step /\ y.at = "drain" /\ ~Unwritten(y)
  BY DEF Task, Unwritten
<1>2. /\ KnowsStream(l, x, d) /\ HasGot(l, x, d, r) /\ PostOK(x, P) /\ DataOK(l, x, d, S, r, whole)
      /\ AnswerFirst(x, d, S, whole) /\ Whole(x, d, S, r, whole) /\ OneTurn(x, d, S, P, r)
  BY DEF Reading
<1>3. /\ x.step = "open" => v.cmd = "OPEN" /\ v.data = x.op
      /\ x.step = "request" => v.cmd = "WRTE"
      /\ x.step = "okay" => v.cmd = "OKAY"
  BY DEF MessageOf, Msg, Item
<1> HIDE DEF v
<1>4. Held(y) = Held(x) /\ Have(y, r) = Have(x, r)
  BY <1>1 DEF Held, Have, Unwritten
<1>5. KnowsStream(l, y, d) /\ HasGot(l, y, d, r)
  BY <1>1, <1>2, <1>4 DEF KnowsStream, HasGot
<1>6. PostOK(y, Q)
  BY <1>1, <1>2, <1>3 DEF PostOK, Some
<1>7. DataOK(l, y, d, S, r, whole) /\ AnswerFirst(y, d, S, whole) /\ Whole(y, d, S, r, whole)
  BY <1>1, <1>2, <1>4 DEF DataOK, AnswerFirst, Whole
<1>8. OneTurn(y, d, S, Q, r)
  <2>1. CASE x.step = "okay"
    <3>1. Held(x)
      BY <2>1 DEF Held, Unwritten
    <3>2. d.credit # 1 /\ ~Some(S, "WRTE") /\ ~Some(P, "OKAY") /\ d.n = Have(x, r)
      BY <1>2, <3>1 DEF OneTurn
    <3> QED BY <1>1, <1>4, <3>2 DEF OneTurn, Some
  <2>2. CASE x.step # "okay"
    <3>1. v.cmd # "OKAY" /\ ~Held(y)
      BY <1>1, <1>3, <2>2 DEF Held
    <3>2. Some(Q, "OKAY") <=> Some(P, "OKAY")
      BY <3>1 DEF Some
    <3> QED BY <1>2, <1>4, <3>1, <3>2 DEF OneTurn
  <2> QED BY <2>1, <2>2
<1> QED BY <1>5, <1>6, <1>7, <1>8 DEF Reading, v
-----------------------------------------------------------------------------
(* What the device does to a stream and its reader.                        *)

(* The message u of the post is handled.                                   *)
Handled(P, Q, u) ==
  /\ u \in P
  /\ \E f : \A w \in Q : \E v \in P : v.pos # u.pos /\ SameItem(v, w, f)

LEMMA HandledFewer ==
  ASSUME NEW P, NEW Q, NEW u, Handled(P, Q, u)
  PROVE  /\ Fewer(P, Q) /\ Some(P, u.cmd)
         /\ (\A v, w \in P : v.cmd = u.cmd /\ w.cmd = u.cmd => v.pos = w.pos) => ~Some(Q, u.cmd)
<1>1. PICK f : \A w \in Q : \E v \in P : v.pos # u.pos /\ SameItem(v, w, f)
  BY DEF Handled
<1>2. Fewer(P, Q) /\ Some(P, u.cmd)
  BY <1>1 DEF Fewer, Some, Handled
<1>3. ASSUME \A v, w \in P : v.cmd = u.cmd /\ w.cmd = u.cmd => v.pos = w.pos,
             NEW w \in Q, w.cmd = u.cmd
      PROVE  FALSE
  <2>1. PICK v \in P : v.pos # u.pos /\ v.cmd = w.cmd
    BY <1>1 DEF SameItem
  <2> QED BY <1>3, <2>1 DEF Handled
<1> QED BY <1>2, <1>3 DEF Some

(* What the device sends joins the line, at its end.                       *)
Joined(S, T, v) == T = S \cup {v} /\ \A w \in S : w.pos < v.pos

LEMMA JoinedHas ==
  ASSUME NEW S, NEW T, NEW v, Joined(S, T, v)
  PROVE  \A c : Some(T, c) <=> Some(S, c) \/ v.cmd = c
BY DEF Joined, Some

(* An OPEN is accepted or refused.                                         *)
LEMMA DevOpens ==
  ASSUME NEW l, NEW x, NEW d, NEW S, NEW P, NEW r, NEW whole, StreamFacts(d, S, P),
         NEW u, NEW Q, Handled(P, Q, u), u.cmd = "OPEN",
         NEW v, NEW T, Joined(S, T, v),
         NEW e, \/ v.cmd = "OKAY" /\ e = [st |-> "open", op |-> u.data, credit |-> 1, n |-> 0, asked |-> FALSE]
                \/ v.cmd = "CLSE" /\ e = d
  PROVE  /\ StreamFacts(e, T, Q)
         /\ Reading(l, x, d, S, P, r, whole) => Reading(l, x, e, T, Q, r, whole)
<1>1. d = NoStream /\ S = {} /\ Fewer(P, Q) /\ ~Some(Q, "OPEN") /\ Some(P, "OPEN")
  BY HandledFewer DEF StreamFacts
<1>2. \A w \in T : w = v
  BY <1>1 DEF Joined
<1>3. T = {v}
  BY <1>1 DEF Joined
<1>4. d.st = "none" /\ d.n = 0 /\ d.credit = 0 /\ d.asked = FALSE /\ e.n = 0 /\ e.asked = FALSE
      /\ (v.cmd = "OKAY" => e.st = "open" /\ e.op = u.data) /\ (v.cmd = "CLSE" => e.st = "none" /\ e.credit = 0)
  BY <1>1 DEF NoStream
<1>5. StreamFacts(e, T, Q)
  <2>1. \A w \in Q : w.cmd # "OPEN"
    BY <1>1 DEF Some
  <2>2. e.st = "none" => e = NoStream
    BY <1>1, <1>4
  <2>3. \A w \in T : w.cmd # "CLSE" => e.st # "none"
    BY <1>2, <1>4
  <2> QED BY <1>1, <2>1, <2>2, <2>3 DEF StreamFacts
<1>6. ASSUME Reading(l, x, d, S, P, r, whole) PROVE Reading(l, x, e, T, Q, r, whole)
  <2>1. /\ KnowsStream(l, x, d) /\ HasGot(l, x, d, r) /\ PostOK(x, P)
    BY <1>6 DEF Reading
  <2>2. x.step \in {"open", "opened"} /\ x.rid = None /\ r = <<>> /\ ~Held(x) /\ Have(x, r) = 0
    <3>1. x.step \in {"open", "opened"}
      BY <1>4, <2>1 DEF KnowsStream
    <3>2. r = <<>> /\ x.rid = None
      BY <2>1, <3>1 DEF HasGot, KnowsStream, Early
    <3>3. ~Held(x)
      BY <3>1 DEF Held
    <3> QED BY <3>1, <3>2, <3>3 DEF Have
  <2>3. Q = {}
    <3> SUFFICES ASSUME NEW w \in Q PROVE FALSE
      OBVIOUS
    <3>1. PICK z \in P : z.cmd = w.cmd
      BY <1>1 DEF Fewer, SameItem
    <3>2. w.cmd = "OPEN"
      BY <2>1, <2>2, <3>1 DEF PostOK
    <3> QED BY <1>1, <3>2 DEF Some
  <2>4. u.data = x.op
    BY <2>1 DEF PostOK, Handled
  <2>5. KnowsStream(l, x, e)
    BY <1>4, <2>2, <2>4 DEF KnowsStream
  <2>6. HasGot(l, x, e, r)
    BY <1>4, <2>1, <2>2 DEF HasGot
  <2>7. PostOK(x, Q)
    BY <2>3 DEF PostOK, Some
  <2>8. DataOK(l, x, e, T, r, whole)
    BY <1>2, <1>4 DEF DataOK, Some
  <2>9. AnswerFirst(x, e, T, whole) /\ Whole(x, e, T, r, whole)
    BY <1>2, <1>3, <1>4, <2>2 DEF AnswerFirst, Whole, Some
  <2>10. OneTurn(x, e, T, Q, r)
    BY <1>2, <1>4, <2>2, <2>3 DEF OneTurn, Some
  <2> QED BY <2>5, <2>6, <2>7, <2>8, <2>9, <2>10 DEF Reading
<1> QED BY <1>5, <1>6

(* It is given its turn.                                                   *)
LEMMA DevIsToldOkay ==
  ASSUME NEW l, NEW x, NEW d \in DevStream, NEW S, NEW P, NEW r, NEW whole, StreamFacts(d, S, P),
         NEW u, NEW Q, Handled(P, Q, u), u.cmd = "OKAY", d.st = "open",
         NEW e, e = [d EXCEPT !.credit = 1]
  PROVE  /\ StreamFacts(e, S, Q)
         /\ Reading(l, x, d, S, P, r, whole) => Reading(l, x, e, S, Q, r, whole)
<1>1. Fewer(P, Q) /\ Some(P, "OKAY")
  BY HandledFewer
<1>2. e.st = "open" /\ e.op = d.op /\ e.n = d.n /\ e.asked = d.asked /\ e.credit = 1
  BY DEF DevStream
<1>3. StreamFacts(d, S, Q) /\ (Reading(l, x, d, S, P, r, whole) => Reading(l, x, d, S, Q, r, whole))
  BY <1>1, FewerReading
<1>4. StreamFacts(e, S, Q)
  BY <1>2, <1>3 DEF StreamFacts
<1>5. ASSUME Reading(l, x, d, S, P, r, whole) PROVE Reading(l, x, e, S, Q, r, whole)
  <2>1. /\ KnowsStream(l, x, d) /\ HasGot(l, x, d, r) /\ PostOK(x, Q) /\ DataOK(l, x, d, S, r, whole)
        /\ AnswerFirst(x, d, S, whole) /\ Whole(x, d, S, r, whole) /\ OneTurn(x, d, S, P, r)
    BY <1>3, <1>5 DEF Reading
  <2>2. KnowsStream(l, x, e) /\ HasGot(l, x, e, r) /\ DataOK(l, x, e, S, r, whole)
    BY <1>2, <2>1 DEF KnowsStream, HasGot, DataOK
  <2>3. AnswerFirst(x, e, S, whole) /\ Whole(x, e, S, r, whole)
    BY <1>2, <2>1 DEF AnswerFirst, Whole
  <2>4. ~Some(Q, "OKAY")
    BY <2>1, HandledFewer DEF OneTurn
  <2>5. OneTurn(x, e, S, Q, r)
    BY <1>1, <2>1, <2>4 DEF OneTurn, Some
  <2> QED BY <2>1, <2>2, <2>3, <2>5 DEF Reading
<1> QED BY <1>4, <1>5

(* It is asked for a file.                                                 *)
LEMMA DevIsAsked ==
  ASSUME NEW l, NEW x, NEW d \in DevStream, NEW S, NEW P, NEW r, NEW whole, StreamFacts(d, S, P),
         NEW u, NEW Q, Handled(P, Q, u), u.cmd = "WRTE", d.st = "open",
         NEW v, NEW T, Joined(S, T, v), v.cmd = "OKAY",
         NEW e, e = [d EXCEPT !.asked = TRUE]
  PROVE  /\ StreamFacts(e, T, Q)
         /\ Reading(l, x, d, S, P, r, whole) => Reading(l, x, e, T, Q, r, whole)
<1>1. Fewer(P, Q) /\ Some(P, "WRTE")
  BY HandledFewer
<1>2. e.st = "open" /\ e.op = d.op /\ e.n = d.n /\ e.credit = d.credit
  BY DEF DevStream
<1>3. StreamFacts(d, S, Q) /\ (Reading(l, x, d, S, P, r, whole) => Reading(l, x, d, S, Q, r, whole))
  BY <1>1, FewerReading
<1>4. /\ \A c : Some(T, c) <=> Some(S, c) \/ v.cmd = c
      /\ \A w \in T : w \in S \/ w = v
      /\ \A w \in S : w \in T /\ w.pos < v.pos
  BY JoinedHas DEF Joined
<1>5. StreamFacts(e, T, Q)
  BY <1>2, <1>3 DEF StreamFacts
<1>6. ASSUME Reading(l, x, d, S, P, r, whole) PROVE Reading(l, x, e, T, Q, r, whole)
  <2>1. /\ KnowsStream(l, x, d) /\ HasGot(l, x, d, r) /\ PostOK(x, P) /\ PostOK(x, Q) /\ DataOK(l, x, d, S, r, whole)
        /\ AnswerFirst(x, d, S, whole) /\ Whole(x, d, S, r, whole) /\ OneTurn(x, d, S, Q, r)
    BY <1>3, <1>6 DEF Reading
  <2>2. x.step \notin {"open", "opened"}
    BY <2>1 DEF PostOK, Handled
  <2>3. KnowsStream(l, x, e) /\ HasGot(l, x, e, r)
    BY <1>2, <2>1, <2>2 DEF KnowsStream, HasGot
  <2>4. DataOK(l, x, e, T, r, whole)
    BY <1>2, <1>4, <2>1 DEF DataOK
  <2>5. AnswerFirst(x, e, T, whole)
    BY <1>2, <1>4, <2>1 DEF AnswerFirst
  <2>6. Whole(x, e, T, r, whole) /\ OneTurn(x, e, T, Q, r)
    BY <1>2, <1>4, <2>1 DEF Whole, OneTurn
  <2> QED BY <2>1, <2>3, <2>4, <2>5, <2>6 DEF Reading
<1> QED BY <1>5, <1>6

(* It is told of the end by a reader that wants no more.                   *)
LEMMA DevIsToldEnd ==
  ASSUME NEW l, NEW x, NEW d \in DevStream, NEW S, NEW P, NEW r, NEW whole, StreamFacts(d, S, P),
         NEW u, NEW Q, Handled(P, Q, u), u.cmd = "CLSE", d.st = "open",
         NEW v, NEW T, Joined(S, T, v), v.cmd = "CLSE",
         NEW e, e = Ended(d, "closed")
  PROVE  StreamFacts(e, T, Q) /\ ~Reading(l, x, d, S, P, r, whole)
<1>1. Fewer(P, Q) /\ Some(P, "CLSE")
  BY HandledFewer
<1>2. e.st = "closed"
  BY DEF DevStream, Ended
<1>3. StreamFacts(d, S, Q)
  BY <1>1, FewerReading
<1>4. StreamFacts(e, T, Q)
  BY <1>2, <1>3 DEF StreamFacts
<1> QED BY <1>1, <1>4 DEF Reading, PostOK

(* It sends a chunk.                                                       *)
OneMore(d) == [d EXCEPT !.n = d.n + 1, !.credit = 0]

LEMMA DevSends ==
  ASSUME NEW l, NEW x, NEW d \in DevStream, NEW S, NEW P, NEW r, NEW whole, StreamFacts(d, S, P),
         d.st = "open", d.credit = 1, d.op = Shell \/ d.asked, Len(r) \in Nat,
         NEW v, NEW T, Joined(S, T, v), v.cmd = "WRTE", v.data = <<l, d.n + 1>>,
         NEW e, e = OneMore(d)
  PROVE  /\ StreamFacts(e, T, P)
         /\ Reading(l, x, d, S, P, r, whole) => Reading(l, x, e, T, P, r, whole)
<1>1. e.st = "open" /\ e.op = d.op /\ e.n = d.n + 1 /\ e.asked = d.asked /\ e.credit = 0 /\ d.n \in Nat
  BY DEF DevStream, OneMore
<1>2. /\ \A c : Some(T, c) <=> Some(S, c) \/ v.cmd = c
      /\ \A w \in T : w \in S \/ w = v
      /\ \A w \in S : w \in T /\ w.pos < v.pos
  BY JoinedHas DEF Joined
<1>3. StreamFacts(e, T, P)
  BY <1>1 DEF StreamFacts
<1>4. ASSUME Reading(l, x, d, S, P, r, whole) PROVE Reading(l, x, e, T, P, r, whole)
  <2>1. /\ KnowsStream(l, x, d) /\ HasGot(l, x, d, r) /\ PostOK(x, P) /\ DataOK(l, x, d, S, r, whole)
        /\ AnswerFirst(x, d, S, whole) /\ Whole(x, d, S, r, whole) /\ OneTurn(x, d, S, P, r)
    BY <1>4 DEF Reading
  <2>2. ~Some(S, "WRTE") /\ ~Some(S, "CLSE") /\ ~Some(P, "OKAY") /\ ~(Held(x) /\ Unwritten(x))
    BY <2>1 DEF OneTurn, DataOK
  <2>3. d.n = Have(x, r)
    BY <2>1 DEF OneTurn
  <2>4. x.step \in {"open", "opened"} => x.op = Shell
    BY <2>1 DEF KnowsStream
  <2>5. KnowsStream(l, x, e)
    BY <1>1, <2>1, <2>4 DEF KnowsStream
  <2>6. HasGot(l, x, e, r)
    <3>1. Have(x, r) \in Nat
      BY DEF Have
    <3> QED BY <1>1, <2>1, <3>1 DEF HasGot
  <2>7. DataOK(l, x, e, T, r, whole)
    BY <1>1, <1>2, <2>2, <2>3 DEF DataOK, Some
  <2>8. AnswerFirst(x, e, T, whole)
    <3> SUFFICES ASSUME whole, x.step \in Early PROVE AnswerFirst(x, e, T, whole)
      BY DEF AnswerFirst
    <3>1. Some(S, "OKAY")
      BY <2>1 DEF AnswerFirst
    <3>2. ASSUME NEW w \in T, w.cmd = "WRTE" \/ (w.cmd = "CLSE" /\ e.st # "none")
          PROVE  \E o \in T : o.cmd = "OKAY" /\ o.pos < w.pos
      <4>1. w = v
        BY <1>2, <2>2, <3>2 DEF Some
      <4>2. PICK o \in S : o.cmd = "OKAY"
        BY <3>1, <4>1 DEF Some
      <4> QED BY <1>2, <4>1, <4>2
    <3> QED BY <1>1, <1>2, <3>1, <3>2 DEF AnswerFirst
  <2>9. Whole(x, e, T, r, whole)
    BY <1>2 DEF Whole
  <2>10. OneTurn(x, e, T, P, r)
    BY <1>1, <2>1, <2>2 DEF OneTurn
  <2> QED BY <2>1, <2>5, <2>6, <2>7, <2>8, <2>9, <2>10 DEF Reading
<1> QED BY <1>3, <1>4

(* It ends the stream of a shell.                                          *)
LEMMA DevCloses ==
  ASSUME NEW l, NEW x, NEW d \in DevStream, NEW S, NEW P, NEW r, NEW whole, StreamFacts(d, S, P),
         d.st = "open", d.op = Shell,
         NEW v, NEW T, Joined(S, T, v), v.cmd = "CLSE",
         NEW e, e = Ended(d, "closed")
  PROVE  /\ StreamFacts(e, T, P)
         /\ Reading(l, x, d, S, P, r, whole) => Reading(l, x, e, T, P, r, whole)
<1>1. e.st = "closed" /\ e.op = d.op /\ e.n = d.n /\ e.asked = FALSE /\ e.credit = 0
  BY DEF DevStream, Ended
<1>2. /\ \A c : Some(T, c) <=> Some(S, c) \/ v.cmd = c
      /\ \A w \in T : w \in S \/ w = v
      /\ \A w \in S : w \in T /\ w.pos < v.pos
  BY JoinedHas DEF Joined
<1>3. StreamFacts(e, T, P)
  BY <1>1 DEF StreamFacts
<1>4. ASSUME Reading(l, x, d, S, P, r, whole) PROVE Reading(l, x, e, T, P, r, whole)
  <2>1. /\ KnowsStream(l, x, d) /\ HasGot(l, x, d, r) /\ PostOK(x, P) /\ DataOK(l, x, d, S, r, whole)
        /\ AnswerFirst(x, d, S, whole) /\ Whole(x, d, S, r, whole) /\ OneTurn(x, d, S, P, r)
    BY <1>4 DEF Reading
  <2>2. ~Some(S, "CLSE") /\ x.op = Shell
    BY <2>1 DEF DataOK, KnowsStream
  <2>3. KnowsStream(l, x, e) /\ HasGot(l, x, e, r)
    BY <1>1, <2>1 DEF KnowsStream, HasGot
  <2>4. \A w \in T : w.cmd = "WRTE" => w \in S
    BY <1>2
  <2>5. \A a, w \in T : a.cmd = "CLSE" /\ w.cmd = "WRTE" => w.pos < a.pos
    BY <1>2, <2>2 DEF Some
  <2>6. whole => e.n = Have(x, r) \/ Some(T, "WRTE")
    BY <1>1, <1>2, <2>1, <2>2 DEF Whole
  <2>7. DataOK(l, x, e, T, r, whole)
    BY <1>1, <2>1, <2>2, <2>4, <2>5, <2>6 DEF DataOK
  <2>8. AnswerFirst(x, e, T, whole)
    <3> SUFFICES ASSUME whole, x.step \in Early PROVE AnswerFirst(x, e, T, whole)
      BY DEF AnswerFirst
    <3>1. Some(S, "OKAY")
      BY <2>1 DEF AnswerFirst
    <3>2. ASSUME NEW w \in T, w.cmd = "WRTE" \/ (w.cmd = "CLSE" /\ e.st # "none")
          PROVE  \E o \in T : o.cmd = "OKAY" /\ o.pos < w.pos
      <4>1. CASE w \in S
        BY <1>2, <2>1, <3>2, <4>1 DEF AnswerFirst
      <4>2. CASE w = v
        <5>1. PICK o \in S : o.cmd = "OKAY"
          BY <3>1, <4>2 DEF Some
        <5> QED BY <1>2, <4>2, <5>1
      <4> QED BY <1>2, <4>1, <4>2
    <3> QED BY <1>1, <3>2 DEF AnswerFirst
  <2>9. Whole(x, e, T, r, whole) /\ OneTurn(x, e, T, P, r)
    BY <1>1, <1>2, <2>1 DEF Whole, OneTurn
  <2> QED BY <2>1, <2>3, <2>7, <2>8, <2>9 DEF Reading
<1> QED BY <1>3, <1>4

(* The connection is closed.                                               *)
LEMMA DevGone ==
  ASSUME NEW l, NEW x, NEW d \in DevStream, NEW S, NEW P, NEW r, NEW whole, StreamFacts(d, S, P),
         NEW e, e = IF d.st = "none" THEN d ELSE Ended(d, "gone")
  PROVE  /\ StreamFacts(e, S, P)
         /\ Reading(l, x, d, S, P, r, whole) => Reading(l, x, e, S, P, r, whole)
         /\ e.n = d.n /\ e.st \in {"none", "gone"} /\ (d.st = "none" <=> e.st = "none")
<1>1. CASE d.st = "none"
  BY <1>1
<1>2. CASE d.st # "none"
  <2>1. e.st = "gone" /\ e.op = d.op /\ e.n = d.n /\ e.asked = FALSE /\ e.credit = 0
    BY <1>2 DEF DevStream, Ended
  <2>2. StreamFacts(e, S, P)
    BY <1>2, <2>1 DEF StreamFacts
  <2>3. ASSUME Reading(l, x, d, S, P, r, whole) PROVE Reading(l, x, e, S, P, r, whole)
    <3>1. /\ KnowsStream(l, x, d) /\ HasGot(l, x, d, r) /\ PostOK(x, P) /\ DataOK(l, x, d, S, r, whole)
          /\ AnswerFirst(x, d, S, whole) /\ Whole(x, d, S, r, whole) /\ OneTurn(x, d, S, P, r)
      BY <2>3 DEF Reading
    <3>2. KnowsStream(l, x, e) /\ HasGot(l, x, e, r) /\ DataOK(l, x, e, S, r, whole)
      BY <1>2, <2>1, <3>1 DEF KnowsStream, HasGot, DataOK
    <3>3. AnswerFirst(x, e, S, whole) /\ Whole(x, e, S, r, whole) /\ OneTurn(x, e, S, P, r)
      BY <1>2, <2>1, <3>1 DEF AnswerFirst, Whole, OneTurn
    <3> QED BY <3>1, <3>2, <3>3 DEF Reading
  <2> QED BY <1>2, <2>1, <2>2, <2>3
<1> QED BY <1>1, <1>2

(* A packet of the stream is given up.                                     *)
LEMMA CutReading ==
  ASSUME NEW l, NEW x, NEW d, NEW P, NEW r, NEW whole, NEW S, NEW T, Placed(S),
         \A v \in T : v \in S
  PROVE  /\ Reading(l, x, d, S, P, r, whole) => Reading(l, x, d, T, P, r, FALSE)
         /\ StreamFacts(d, S, P) => StreamFacts(d, T, P)
         /\ Unopened(d, S, P, r) => Unopened(d, T, P, r)
<1>1. \A c : Some(T, c) => Some(S, c)
  BY DEF Some
<1>2. ASSUME Reading(l, x, d, S, P, r, whole) PROVE Reading(l, x, d, T, P, r, FALSE)
  <2>1. /\ KnowsStream(l, x, d) /\ HasGot(l, x, d, r) /\ PostOK(x, P) /\ DataOK(l, x, d, S, r, whole)
        /\ AnswerFirst(x, d, S, whole) /\ Whole(x, d, S, r, whole) /\ OneTurn(x, d, S, P, r)
    BY <1>2 DEF Reading
  <2>2. DataOK(l, x, d, T, r, FALSE)
    BY <1>1, <2>1 DEF DataOK
  <2>3. AnswerFirst(x, d, T, FALSE) /\ Whole(x, d, T, r, FALSE) /\ OneTurn(x, d, T, P, r)
    BY <1>1, <2>1 DEF AnswerFirst, Whole, OneTurn
  <2> QED BY <2>1, <2>2, <2>3 DEF Reading
<1>3. StreamFacts(d, S, P) => StreamFacts(d, T, P)
  BY DEF StreamFacts
<1>4. Unopened(d, S, P, r) => Unopened(d, T, P, r)
  BY DEF Unopened
<1> QED BY <1>2, <1>3, <1>4
-----------------------------------------------------------------------------
(* What a step leaves of a stream and its reader.                          *)

LEMMA SomeReading ==
  ASSUME NEW l, NEW x, NEW d, NEW S, NEW P, NEW r, NEW whole, NEW q, NEW n, NEW z,
         NEW T, NEW Q, NEW e, q = <<>> => z = <<>>, e = d,
         Reading(l, x, d, S, P, r, whole) => Reading(l, x, e, T, Q, r, whole),
         StreamFacts(d, S, P) => StreamFacts(e, T, Q),
         Unopened(d, S, P, r) => Unopened(e, T, Q, r)
  PROVE  /\ LidOK(l, d, S, P, r, n) => LidOK(l, e, T, Q, r, n)
         /\ ReaderOK(l, x, d, S, P, r, whole, q) => ReaderOK(l, x, e, T, Q, r, whole, z)
BY DEF LidOK, ReaderOK

(* A line moves, at most twice: off the wire and into the store.           *)
Reaches(S, T) == \E M : Moved(S, M) /\ Moved(M, T)

LEMMA MovedReaches ==
  ASSUME NEW S, NEW T, Placed(S), Moved(S, T) \/ S = T
  PROVE  Reaches(S, T)
<1>1. Moved(S, S)
  BY MovedSame
<1>2. CASE S = T
  BY <1>1, <1>2 DEF Reaches
<1>3. CASE Moved(S, T)
  BY <1>1, <1>3 DEF Reaches
<1> QED BY <1>2, <1>3

LEMMA SameFewer ==
  ASSUME NEW P, Placed(P)
  PROVE  Fewer(P, P)
<1> DEFINE f == [i \in Int |-> i]
<1>1. \A w \in P : SameItem(w, w, f)
  BY DEF SameItem, Placed
<1> HIDE DEF f
<1> QED BY <1>1 DEF Fewer

LEMMA ReachedReading ==
  ASSUME NEW l, NEW x, NEW d, NEW S, NEW P, NEW r, NEW whole, NEW q, NEW n, NEW z,
         NEW T, NEW Q, q = <<>> => z = <<>>, Placed(S), Reaches(S, T), Fewer(P, Q)
  PROVE  /\ Placed(T)
         /\ LidOK(l, d, S, P, r, n) => LidOK(l, d, T, Q, r, n)
         /\ ReaderOK(l, x, d, S, P, r, whole, q) => ReaderOK(l, x, d, T, Q, r, whole, z)
<1>1. PICK M : Moved(S, M) /\ Moved(M, T)
  BY DEF Reaches
<1>2. /\ Reading(l, x, d, S, P, r, whole) => Reading(l, x, d, M, P, r, whole)
      /\ StreamFacts(d, S, P) => StreamFacts(d, M, P)
      /\ Unopened(d, S, P, r) => Unopened(d, M, P, r)
      /\ Placed(M)
  BY <1>1, MovedReading
<1>3. /\ Reading(l, x, d, M, P, r, whole) => Reading(l, x, d, T, P, r, whole)
      /\ StreamFacts(d, M, P) => StreamFacts(d, T, P)
      /\ Unopened(d, M, P, r) => Unopened(d, T, P, r)
      /\ Placed(T)
  BY <1>1, <1>2, MovedReading
<1>4. /\ Reading(l, x, d, T, P, r, whole) => Reading(l, x, d, T, Q, r, whole)
      /\ StreamFacts(d, T, P) => StreamFacts(d, T, Q)
      /\ Unopened(d, T, P, r) => Unopened(d, T, Q, r)
  BY FewerReading
<1> QED BY <1>2, <1>3, <1>4, SomeReading

(* Its task goes on without a change to what it wants, or wants no more.   *)
LEMMA SameReaderOK ==
  ASSUME NEW l, NEW x, NEW y, NEW d, NEW S, NEW P, NEW r, NEW whole, NEW q, SameReader(x, y),
         y.at \in {"header", "data"} => x.at \in {"header", "data"} \/ q = <<>>,
         ReaderOK(l, x, d, S, P, r, whole, q)
  PROVE  ReaderOK(l, y, d, S, P, r, whole, q)
<1>1. x.step \in Wanting => Reading(l, y, d, S, P, r, whole)
  BY SameReading DEF ReaderOK
<1> QED BY <1>1 DEF ReaderOK, SameReader

Passive(y) == y.step \notin Wanting \cup {"reclose"}

LEMMA PassiveReaderOK ==
  ASSUME NEW l, NEW y, NEW d, NEW S, NEW P, NEW r, NEW whole, NEW q, Passive(y)
  PROVE  ReaderOK(l, y, d, S, P, r, whole, q)
BY DEF ReaderOK, Passive, Wanting, Early

(* A line of which something is taken for a task that wants no more.       *)
LEMMA LessFacts ==
  ASSUME NEW l, NEW d, NEW S, NEW T, NEW P, NEW r, NEW n, \A w \in T : w \in S
  PROVE  LidOK(l, d, S, P, r, n) => LidOK(l, d, T, P, r, n)
BY DEF LidOK, StreamFacts, Unopened

(* The device changes a stream that is in use.                             *)
LEMMA ChangedReading ==
  ASSUME NEW l, NEW x, NEW d, NEW S, NEW P, NEW r, NEW whole, NEW q, NEW n,
         NEW T, NEW Q, NEW e, d.st \notin {"closed", "gone"}, d.st # "none" \/ P # {},
         Reading(l, x, d, S, P, r, whole) => Reading(l, x, e, T, Q, r, whole),
         StreamFacts(d, S, P) => StreamFacts(e, T, Q)
  PROVE  /\ LidOK(l, d, S, P, r, n) => LidOK(l, e, T, Q, r, n)
         /\ ReaderOK(l, x, d, S, P, r, whole, q) => ReaderOK(l, x, e, T, Q, r, whole, q)
BY DEF LidOK, ReaderOK, Unopened, ToldOfEnd

(* Of a stream that is gone nothing is left to read.                       *)
LEMMA EmptiedReading ==
  ASSUME NEW l, NEW x, NEW d \in DevStream, NEW S, NEW P, NEW r, Len(r) \in Nat, NEW whole, NEW q, NEW n,
         d.st \in {"none", "gone"}, StreamFacts(d, S, P)
  PROVE  /\ LidOK(l, d, S, P, r, n) => LidOK(l, d, {}, P, r, n)
         /\ ReaderOK(l, x, d, S, P, r, whole, q) => ReaderOK(l, x, d, {}, P, r, whole, <<>>)
<1>1. StreamFacts(d, {}, P)
  BY DEF StreamFacts
<1>2. ASSUME Reading(l, x, d, S, P, r, whole) PROVE Reading(l, x, d, {}, P, r, whole)
  <2>1. /\ KnowsStream(l, x, d) /\ HasGot(l, x, d, r) /\ PostOK(x, P) /\ OneTurn(x, d, S, P, r)
    BY <1>2 DEF Reading
  <2>2. d.st = "none" => d.n = 0
    BY DEF StreamFacts, NoStream
  <2>3. Have(x, r) \in Nat
    BY DEF Have
  <2>4. d.st = "none" => d.n = Have(x, r)
    BY <2>1, <2>2, <2>3 DEF HasGot
  <2>5. Whole(x, d, {}, r, whole)
    BY <2>4 DEF Whole
  <2>6. DataOK(l, x, d, {}, r, whole) /\ AnswerFirst(x, d, {}, whole)
    BY DEF DataOK, AnswerFirst, Some
  <2>7. OneTurn(x, d, {}, P, r)
    BY <2>1 DEF OneTurn, Some
  <2> QED BY <2>1, <2>5, <2>6, <2>7 DEF Reading
<1>3. Unopened(d, S, P, r) => Unopened(d, {}, P, r)
  BY DEF Unopened
<1> QED BY <1>1, <1>2, <1>3 DEF LidOK, ReaderOK

(* A packet is given up by whoever was reading it.                         *)
LEMMA CutReaderOK ==
  ASSUME NEW l, NEW x, NEW d, NEW P, NEW r, NEW whole, NEW S, NEW T, NEW q, NEW n, Placed(S),
         \A v \in T : v \in S
  PROVE  /\ LidOK(l, d, S, P, r, n) => LidOK(l, d, T, P, r, n)
         /\ ReaderOK(l, x, d, S, P, r, whole, q) => ReaderOK(l, x, d, T, P, r, FALSE, q)
<1>1. /\ Reading(l, x, d, S, P, r, whole) => Reading(l, x, d, T, P, r, FALSE)
      /\ StreamFacts(d, S, P) => StreamFacts(d, T, P)
      /\ Unopened(d, S, P, r) => Unopened(d, T, P, r)
  BY CutReading
<1>2. ToldOfEnd(l, d, r, whole) => ToldOfEnd(l, d, r, FALSE)
  BY DEF ToldOfEnd
<1> QED BY <1>1, <1>2 DEF LidOK, ReaderOK

(* A line moves, loses a packet and moves on.                              *)
Loses(S, T) == \E M, N : Moved(S, M) /\ (\A v \in N : v \in M) /\ Moved(N, T)

LEMMA LostReaderOK ==
  ASSUME NEW l, NEW x, NEW d, NEW S, NEW P, NEW r, NEW whole, NEW q, NEW n, NEW T,
         Placed(S), Loses(S, T)
  PROVE  /\ LidOK(l, d, S, P, r, n) => LidOK(l, d, T, P, r, n)
         /\ ReaderOK(l, x, d, S, P, r, whole, q) => ReaderOK(l, x, d, T, P, r, FALSE, q)
<1>1. PICK M, N : Moved(S, M) /\ (\A v \in N : v \in M) /\ Moved(N, T)
  BY DEF Loses
<1>2. /\ Reading(l, x, d, S, P, r, whole) => Reading(l, x, d, M, P, r, whole)
      /\ StreamFacts(d, S, P) => StreamFacts(d, M, P)
      /\ Unopened(d, S, P, r) => Unopened(d, M, P, r)
      /\ Placed(M)
  BY <1>1, MovedReading
<1>3. /\ LidOK(l, d, S, P, r, n) => LidOK(l, d, M, P, r, n)
      /\ ReaderOK(l, x, d, S, P, r, whole, q) => ReaderOK(l, x, d, M, P, r, whole, q)
  BY <1>2 DEF LidOK, ReaderOK
<1>4. /\ LidOK(l, d, M, P, r, n) => LidOK(l, d, N, P, r, n)
      /\ ReaderOK(l, x, d, M, P, r, whole, q) => ReaderOK(l, x, d, N, P, r, FALSE, q)
      /\ Placed(N)
  BY <1>1, <1>2, CutReaderOK DEF Placed
<1>5. /\ Reading(l, x, d, N, P, r, FALSE) => Reading(l, x, d, T, P, r, FALSE)
      /\ StreamFacts(d, N, P) => StreamFacts(d, T, P)
      /\ Unopened(d, N, P, r) => Unopened(d, T, P, r)
  BY <1>1, <1>4, MovedReading
<1>6. /\ LidOK(l, d, N, P, r, n) => LidOK(l, d, T, P, r, n)
      /\ ReaderOK(l, x, d, N, P, r, FALSE, q) => ReaderOK(l, x, d, T, P, r, FALSE, q)
  BY <1>5 DEF LidOK, ReaderOK
<1> QED BY <1>3, <1>4, <1>6

(* The connection is closed.                                               *)
LEMMA GoneReaderOK ==
  ASSUME NEW l, NEW x, NEW d \in DevStream, NEW S, NEW P, NEW r, NEW whole, NEW q, NEW n,
         NEW e, e = IF d.st = "none" THEN d ELSE Ended(d, "gone")
  PROVE  /\ LidOK(l, d, S, P, r, n) => LidOK(l, e, S, P, r, n)
         /\ LidOK(l, d, S, P, r, n) /\ ReaderOK(l, x, d, S, P, r, whole, q) => ReaderOK(l, x, e, S, P, r, whole, q)
         /\ e.st \in {"none", "gone"}
<1> SUFFICES ASSUME LidOK(l, d, S, P, r, n)
             PROVE  /\ LidOK(l, e, S, P, r, n) /\ e.st \in {"none", "gone"}
                    /\ ReaderOK(l, x, d, S, P, r, whole, q) => ReaderOK(l, x, e, S, P, r, whole, q)
  BY DEF Ended, DevStream
<1>1. StreamFacts(d, S, P)
  BY DEF LidOK
<1>2. /\ StreamFacts(e, S, P)
      /\ Reading(l, x, d, S, P, r, whole) => Reading(l, x, e, S, P, r, whole)
      /\ e.n = d.n /\ e.st \in {"none", "gone"} /\ (d.st = "none" <=> e.st = "none")
  BY <1>1, DevGone
<1>3. Unopened(d, S, P, r) <=> Unopened(e, S, P, r)
  BY <1>2 DEF Unopened
<1>4. ToldOfEnd(l, d, r, whole) => ToldOfEnd(l, e, r, whole)
  BY <1>2 DEF ToldOfEnd
<1> QED BY <1>2, <1>3, <1>4 DEF LidOK, ReaderOK
-----------------------------------------------------------------------------
(* The lines and the posts of a state.                                     *)

LEMMA StreamTypes ==
  ASSUME DInv, NEW l \in Lids
  PROVE  /\ LInv /\ WInv /\ OwnersOK /\ WireOK /\ PacketsOK /\ StreamInv(l)
         /\ l \in Nat \ {0} /\ DevId(l) \in Nat \ {0}
         /\ dev[l] \in DevStream /\ received[l] \in Seq(Data) /\ Len(received[l]) \in Nat
         /\ Queued(l) \in Seq(WholeStored) /\ arriving \in Seq(Kinds \X WholePacket)
         /\ Len(Queued(l)) \in Nat /\ Len(arriving) \in Nat
         /\ Placed(Line(l)) /\ Placed(Post(l))
<1>1. LInv /\ WInv /\ OwnersOK /\ WireOK /\ PacketsOK /\ StreamInv(l)
  BY DEF DInv, IInv
<1>2. /\ l \in Nat \ {0} /\ DevId(l) \in Nat \ {0}
      /\ dev[l] \in DevStream /\ received[l] \in Seq(Data) /\ unsent \in Seq(Kinds \X Message)
      /\ arriving \in Seq(Kinds \X WholePacket)
  BY <1>1, TasksAssumption DEF LInv, WirePart, RestPart, Lids, DevId
<1>3. Queued(l) \in Seq(WholeStored)
  BY <1>1 DEF LInv, StorePart, IsStore, Queued, QueueOf
<1>4. Len(Queued(l)) \in Nat /\ Len(arriving) \in Nat /\ Len(received[l]) \in Nat /\ Len(unsent) \in Nat
  BY <1>2, <1>3
<1>5. Placed(Line(l))
  BY <1>4, LinePlaced DEF Line
<1>6. Placed(Post(l))
  BY <1>4 DEF Placed, Post, PostOf, Item
<1> QED BY <1>1, <1>2, <1>3, <1>4, <1>5, <1>6

LEMMA OwnLid ==
  ASSUME DInv, NEW t \in Tasks
  PROVE  /\ LInv /\ task[t] \in Task /\ TaskOK(task[t]) /\ task[t].lid \in Lids \cup {0}
         /\ task[t].lid <= local_id /\ 0 \notin Lids
         /\ \A u \in Tasks : task[u].lid = task[t].lid /\ task[t].lid # 0 => u = t
         /\ task[t].step \in Sends \cup Reads => task[t].lid \in Lids /\ task[t].op \in Ops
<1>1. LInv /\ OwnersOK
  BY DEF DInv, IInv
<1>2. task[t] \in Task /\ TaskOK(task[t])
  BY <1>1, HolderHasLock DEF LInv
<1> QED BY <1>1, <1>2 DEF Task, OwnersOK, Lids, TaskOK, StreamOK

LEMMA ReaderHas ==
  ASSUME DInv, NEW t \in Tasks, task[t].lid \in Lids
  PROVE  LET l == task[t].lid IN
         ReaderOK(l, task[t], dev[l], Line(l), Post(l), received[l], l \notin lossy, Queued(l))
BY DEF DInv, StreamInv

(* A step of the task t to y, seen by every stream.                        *)
LEMMA StepKeeps ==
  ASSUME DInv, NEW t \in Tasks, NEW y, Continue(t, y), y.lid \in {0, task[t].lid}, local_id' = local_id,
         \A l \in Lids :
           /\ LidOK(l, dev[l]', Line(l)', Post(l)', received[l]', local_id)
           /\ \A u \in Tasks \ {t} : task[u].lid = l =>
                ReaderOK(l, task[u], dev[l]', Line(l)', Post(l)', received[l]', l \notin lossy', Queued(l)')
           /\ y.lid = l =>
                ReaderOK(l, y, dev[l]', Line(l)', Post(l)', received[l]', l \notin lossy', Queued(l)')
  PROVE  OwnersOK' /\ \A l \in Lids : StreamInv(l)'
<1>1. task'[t] = y /\ \A u \in Tasks \ {t} : task'[u] = task[u]
  BY OwnLid, TaskBecomes
<1>2. y.lid <= local_id
  BY OwnLid DEF LInv, RestPart, Lids
<1>3. OwnersOK'
  <2>1. \A u \in Tasks : task'[u].lid <= local_id'
    BY <1>1, <1>2 DEF DInv, OwnersOK
  <2>2. \A u, v \in Tasks : task'[u].lid = task'[v].lid /\ task'[u].lid # 0 => u = v
    BY <1>1 DEF DInv, OwnersOK
  <2> QED BY <2>1, <2>2 DEF OwnersOK
<1>4. ASSUME NEW l \in Lids PROVE StreamInv(l)'
  <2>1. \A u \in Tasks : task'[u].lid = l =>
          ReaderOK(l, task'[u], dev[l]', Line(l)', Post(l)', received[l]', l \notin lossy', Queued(l)')
    BY <1>1
  <2> QED BY <2>1 DEF StreamInv
<1> QED BY <1>3, <1>4

(* A step of the task t by which the lines of others at most move.         *)
LEMMA TaskKeeps ==
  ASSUME DInv, NEW t \in Tasks, NEW y, Continue(t, y), y.lid \in {0, task[t].lid}, local_id' = local_id,
         dev' = dev, lossy' = lossy,
         \A l \in Lids \ {task[t].lid} :
           /\ received[l]' = received[l] /\ Post(l)' = Post(l) /\ Reaches(Line(l), Line(l)')
           /\ Queued(l)' = Queued(l) \/ lock = t,
         \A l \in Lids : l = task[t].lid =>
           /\ LidOK(l, dev[l], Line(l)', Post(l)', received[l]', local_id)
           /\ y.lid = l =>
                ReaderOK(l, y, dev[l], Line(l)', Post(l)', received[l]', l \notin lossy, Queued(l)')
  PROVE  OwnersOK' /\ \A l \in Lids : StreamInv(l)'
<1>1. ASSUME NEW l \in Lids
      PROVE  /\ LidOK(l, dev[l]', Line(l)', Post(l)', received[l]', local_id)
             /\ \A u \in Tasks \ {t} : task[u].lid = l =>
                  ReaderOK(l, task[u], dev[l]', Line(l)', Post(l)', received[l]', l \notin lossy', Queued(l)')
             /\ y.lid = l =>
                  ReaderOK(l, y, dev[l]', Line(l)', Post(l)', received[l]', l \notin lossy', Queued(l)')
  <2>1. l # 0 /\ Placed(Line(l)) /\ Placed(Post(l)) /\ StreamInv(l) /\ LInv
    BY StreamTypes, OwnLid
  <2>2. dev[l]' = dev[l] /\ (l \notin lossy' <=> l \notin lossy)
    BY <1>1
  <2>3. CASE l = task[t].lid
    <3>1. \A u \in Tasks \ {t} : task[u].lid # l
      BY <2>1, <2>3, OwnLid
    <3>2. /\ LidOK(l, dev[l]', Line(l)', Post(l)', received[l]', local_id)
          /\ y.lid = l =>
               ReaderOK(l, y, dev[l]', Line(l)', Post(l)', received[l]', l \notin lossy', Queued(l)')
      BY <2>2, <2>3
    <3> QED BY <3>1, <3>2
  <2>4. CASE l # task[t].lid
    <3>1. /\ received[l]' = received[l] /\ Post(l)' = Post(l) /\ Reaches(Line(l), Line(l)')
          /\ Queued(l)' = Queued(l) \/ lock = t
      BY <2>4
    <3>2. Fewer(Post(l), Post(l)')
      BY <2>1, <3>1, SameFewer
    <3>3. LidOK(l, dev[l], Line(l), Post(l), received[l], local_id)
      BY <2>1 DEF StreamInv
    <3>4. LidOK(l, dev[l]', Line(l)', Post(l)', received[l]', local_id)
      BY <2>1, <2>2, <3>1, <3>2, <3>3, ReachedReading
    <3>5. ASSUME NEW u \in Tasks \ {t}, task[u].lid = l
          PROVE  ReaderOK(l, task[u], dev[l]', Line(l)', Post(l)', received[l]', l \notin lossy', Queued(l)')
      <4>1. ReaderOK(l, task[u], dev[l], Line(l), Post(l), received[l], l \notin lossy, Queued(l))
        BY <2>1, <3>5 DEF StreamInv
      <4>2. CASE Queued(l)' = Queued(l)
        <5>1. ReaderOK(l, task[u], dev[l], Line(l)', Post(l)', received[l], l \notin lossy, Queued(l)')
          BY <2>1, <3>1, <3>2, <4>1, <4>2, ReachedReading
        <5> QED BY <2>2, <3>1, <5>1
      <4>3. CASE lock = t
        <5>1. task[u].at \notin {"header", "data"}
          BY <2>1, <4>3, Alone DEF Inside, MayPause
        <5>2. ReaderOK(l, task[u], dev[l], Line(l)', Post(l)', received[l], l \notin lossy, Queued(l))
          BY <2>1, <3>1, <3>2, <4>1, ReachedReading
        <5>3. ReaderOK(l, task[u], dev[l], Line(l)', Post(l)', received[l], l \notin lossy, Queued(l)')
          BY <5>1, <5>2 DEF ReaderOK
        <5> QED BY <2>2, <3>1, <5>3
      <4> QED BY <3>1, <4>2, <4>3
    <3>6. y.lid # l
      BY <2>1, <2>4
    <3> QED BY <3>4, <3>5, <3>6
  <2> QED BY <2>3, <2>4
<1> HIDE DEF Lids
<1> QED BY <1>1, StepKeeps
-----------------------------------------------------------------------------
(* The steps of tasks that leave the lines and the posts alone.            *)

DRest == OwnersOK /\ WireOK /\ PacketsOK /\ \A l \in Lids : StreamInv(l)

LEMMA SamePlaces ==
  ASSUME DInv, NEW t \in Tasks, NEW y, Continue(t, y), task[t].at # "data", y.at # "data",
         UNCHANGED <<half, unsent, store>>, arriving' = arriving
  PROVE  /\ Hands' = Hands
         /\ \A l \in Lids : Line(l)' = Line(l) /\ Post(l)' = Post(l) /\ Queued(l)' = Queued(l)
<1>1. task'[t] = y /\ \A u \in Tasks \ {t} : task'[u] = task[u]
  BY OwnLid, TaskBecomes
<1>2. Hands' = Hands
  BY <1>1 DEF Hands
<1>3. \A l \in Lids : Queued(l)' = Queued(l) /\ Post(l)' = Post(l)
  BY DEF Queued, Post
<1> QED BY <1>2, <1>3 DEF Line

LEMMA QuietKeeps ==
  ASSUME DInv, NEW t \in Tasks, NEW y, Continue(t, y), y.lid \in {0, task[t].lid}, local_id' = local_id,
         task[t].at # "data", y.at # "data", UNCHANGED <<dev, half, unsent, store, arriving, lossy>>,
         conn' # "open" => conn # "open",
         \A l \in Lids : l # task[t].lid => received[l]' = received[l],
         \A l \in Lids : l = task[t].lid /\ y.lid = l =>
           ReaderOK(l, y, dev[l], Line(l), Post(l), received[l]', l \notin lossy, Queued(l))
  PROVE  DRest'
<1>2. \A l \in Lids : Line(l)' = Line(l) /\ Post(l)' = Post(l) /\ Queued(l)' = Queued(l)
  BY SamePlaces
<1>3. task'[t] = y /\ (\A u \in Tasks \ {t} : task'[u] = task[u]) /\ LInv /\ WireOK /\ PacketsOK
  BY OwnLid, TaskBecomes DEF DInv
<1>4. ASSUME NEW l \in Lids \ {task[t].lid}
      PROVE  /\ received[l]' = received[l] /\ Post(l)' = Post(l) /\ Reaches(Line(l), Line(l)')
             /\ Queued(l)' = Queued(l) \/ lock = t
  <2>1. Placed(Line(l))
    BY StreamTypes
  <2> QED BY <1>2, <2>1, MovedReaches
<1>5. ASSUME NEW l \in Lids, l = task[t].lid
      PROVE  /\ LidOK(l, dev[l], Line(l)', Post(l)', received[l]', local_id)
             /\ y.lid = l =>
                  ReaderOK(l, y, dev[l], Line(l)', Post(l)', received[l]', l \notin lossy, Queued(l)')
  <2>1. LidOK(l, dev[l], Line(l), Post(l), received[l], local_id)
    BY StreamTypes DEF StreamInv
  <2>2. l <= local_id /\ l \in Int /\ local_id \in Int
    BY <1>3, <1>5, OwnLid, StreamTypes DEF LInv, RestPart, Lids
  <2>3. LidOK(l, dev[l], Line(l)', Post(l)', received[l]', local_id)
    BY <1>2, <2>1, <2>2 DEF LidOK
  <2>4. y.lid = l =>
          ReaderOK(l, y, dev[l], Line(l)', Post(l)', received[l]', l \notin lossy, Queued(l)')
    BY <1>2, <1>5
  <2> QED BY <2>3, <2>4
<1>6. OwnersOK' /\ \A l \in Lids : StreamInv(l)'
  BY <1>4, <1>5, TaskKeeps
<1>7. \A u \in Tasks : task'[u].at = "data" => u # t /\ task[u].at = "data" /\ task'[u] = task[u]
  BY <1>3
<1>8. WireOK'
  BY <1>3, <1>7 DEF WireOK
<1>9. PacketsOK'
  BY <1>3, <1>7 DEF PacketsOK, FromDevice
<1> QED BY <1>6, <1>8, <1>9 DEF DRest

(* What a task that gives its stream up wants.                             *)
LEMMA IdlePassive == IdleTask.lid = 0 /\ Passive(IdleTask) /\ IdleTask.at = "idle"
BY TasksAssumption DEF IdleTask, Passive, Wanting, Early, Sends, Reads

LEMMA RaisedPassive ==
  ASSUME NEW x \in Task
  PROVE  Raised(x).lid \in {0, x.lid} /\ Passive(Raised(x)) /\ Raised(x).at \in {"idle", "acquire"}
<1>1. CASE x.op = Pull /\ x.rid # None /\ x.step \notin {"clse", "clsed"}
  <2> DEFINE w == [x EXCEPT !.pkt = None]
  <2>1. w \in Task /\ w.lid = x.lid
    BY DEF Task
  <2>2. Raised(x) = Goto(w, "clse")
    BY <1>1 DEF Raised
  <2> HIDE DEF w
  <2>3. Goto(w, "clse").step = "clse" /\ Goto(w, "clse").lid = w.lid /\ Goto(w, "clse").at = "acquire"
    BY <2>1, GotoFields DEF Sends, Reads
  <2> QED BY <2>1, <2>2, <2>3 DEF Passive, Wanting, Early
<1>2. CASE ~(x.op = Pull /\ x.rid # None /\ x.step \notin {"clse", "clsed"})
  <2>1. Raised(x) = IdleTask
    BY <1>2 DEF Raised
  <2> QED BY <2>1, IdlePassive
<1> QED BY <1>1, <1>2

(* A task that wants no more, or the same as before, and has no packet.    *)
LEMMA QuietTask ==
  ASSUME DInv, NEW t \in Tasks, NEW y, Continue(t, y), local_id' = local_id,
         y.lid \in {0, task[t].lid}, task[t].at # "data", y.at # "data",
         \/ Passive(y)
         \/ SameReader(task[t], y) /\ y.lid = task[t].lid /\ y.at # "header",
         UNCHANGED <<dev, half, unsent, store, received, arriving, lossy>>,
         conn' # "open" => conn # "open"
  PROVE  DRest'
<1>1. ASSUME NEW l \in Lids, l = task[t].lid, y.lid = l
      PROVE  ReaderOK(l, y, dev[l], Line(l), Post(l), received[l]', l \notin lossy, Queued(l))
  <2>1. CASE Passive(y)
    BY <2>1, PassiveReaderOK
  <2>2. CASE SameReader(task[t], y) /\ y.at # "header"
    <3>1. ReaderOK(l, task[t], dev[l], Line(l), Post(l), received[l], l \notin lossy, Queued(l))
      BY <1>1, ReaderHas
    <3> QED BY <2>2, <3>1, SameReaderOK
  <2> QED BY <2>1, <2>2
<1> QED BY <1>1, QuietKeeps
LEMMA AllSame ==
  ASSUME DInv,
         UNCHANGED <<task, dev, half, unsent, store, arriving, lossy, conn, received, local_id>>
  PROVE  DRest'
<1>1. OwnersOK /\ WireOK /\ PacketsOK /\ \A l \in Lids : StreamInv(l)
  BY DEF DInv
<1>2. Hands' = Hands
  BY DEF Hands
<1>3. \A l \in Lids : Line(l)' = Line(l) /\ Post(l)' = Post(l) /\ Queued(l)' = Queued(l)
  BY <1>2 DEF Line, Post, Queued
<1>4. \A l \in Lids : StreamInv(l)'
  BY <1>1, <1>3 DEF StreamInv
<1>5. OwnersOK' /\ WireOK' /\ PacketsOK'
  BY <1>1 DEF OwnersOK, WireOK, PacketsOK, FromDevice
<1> QED BY <1>4, <1>5 DEF DRest

LEMMA DQueue ==
  ASSUME DInv, NEW t \in Tasks, Queue(t)
  PROVE  DRest'
<1> DEFINE x == task[t]
           y == [x EXCEPT !.at = "queue"]
<1>1. /\ Continue(t, y) /\ x.at \in {"acquire", "fast"}
      /\ UNCHANGED <<dev, half, unsent, store, received, lossy, arriving, conn, local_id>>
  BY DEF Queue, AtLock, Has, wireVars, ghosts
<1>2. x \in Task /\ TaskOK(x)
  BY OwnLid
<1> HIDE DEF x
<1>3. /\ y.at = "queue" /\ y.step = x.step /\ y.op = x.op /\ y.rid = x.rid /\ y.pkt = x.pkt
      /\ y.lid = x.lid
  BY <1>2 DEF Task, Pauses
<1>4. x.at = "fast" => x.step \notin {"open", "okay"}
  BY <1>2 DEF TaskOK, Reads
<1> HIDE DEF y
<1>5. SameReader(x, y)
  BY <1>1, <1>3, <1>4 DEF SameReader, Held, Unwritten
<1> QED BY <1>1, <1>3, <1>5, QuietTask DEF x

LEMMA DSendDone ==
  ASSUME DInv, NEW t \in Tasks, SendDone(t) \/ SendNowhere(t)
  PROVE  DRest'
<1> DEFINE x == task[t]
           y == Sent(x)
           l == x.lid
           r2 == IF x.step = "okay" THEN Append(received[l], x.pkt.data) ELSE received[l]
<1>1. /\ Return(t, x) /\ UNCHANGED <<dev, half, unsent, store, lossy, arriving, conn, local_id>>
  BY DEF SendDone, SendNowhere, wireVars
<1>2. LInv /\ x \in Task /\ TaskOK(x) /\ x.step \in Sends /\ x.at \in {"acquire", "fast", "queue", "drain"}
  <2>1. LInv /\ x \in Task /\ TaskOK(x)
    BY OwnLid
  <2>2. CASE SendDone(t)
    BY <2>1, <2>2 DEF SendDone, Resumes, TaskOK
  <2>3. CASE SendNowhere(t)
    BY <2>1, <2>3 DEF SendNowhere, Enters, AtLock, Has, Resumes
  <2> QED BY <2>2, <2>3
<1>3. l \in Lids /\ x.op \in Ops
  BY <1>2, OwnLid
<1>4. /\ Continue(t, y)
      /\ received' = IF x.step = "okay" THEN [received EXCEPT ![l] = r2] ELSE received
  BY <1>1 DEF Return
<1>5. received \in [Lids -> Seq(Data)] /\ received[l] \in Seq(Data)
  BY <1>2, <1>3 DEF LInv, RestPart
<1>6. received'[l] = r2 /\ \A k \in Lids : k # l => received'[k] = received[k]
  <2> HIDE DEF l, r2, x
  <2>1. CASE x.step = "okay"
    BY <1>3, <1>4, <1>5, <2>1
  <2>2. CASE x.step # "okay"
    BY <1>4, <2>2 DEF r2
  <2> QED BY <2>1, <2>2
<1>7. ReaderOK(l, x, dev[l], Line(l), Post(l), received[l], l \notin lossy, Queued(l))
  BY <1>3, ReaderHas
<1>8. /\ y.lid \in {0, l} /\ y.at \notin {"header", "data"}
      /\ Passive(y) \/ (/\ y.step \in {"opened", "flush", "stream", "filesync", "okay"}
                        /\ Reading(l, y, dev[l], Line(l), Post(l), r2, l \notin lossy))
  <2>1. CASE x.step \in {"open", "request", "okay"}
    <3>1. x.step = "okay" => Held(x)
      BY <1>2 DEF Held
    <3>2. Reading(l, x, dev[l], Line(l), Post(l), received[l], l \notin lossy)
      BY <1>7, <2>1 DEF ReaderOK, Wanting, Early
    <3> HIDE DEF x, l
    <3>3. /\ y.lid = x.lid /\ y.step \in {"opened", "flush", "stream", "filesync", "clse", "okay"}
          /\ y.at \notin {"header", "data"}
          /\ y.step \in Wanting => Reading(l, y, dev[l], Line(l), Post(l), r2, l \notin lossy)
      BY <1>2, <1>3, <1>5, <2>1, <3>1, <3>2, SentReading
    <3> HIDE DEF y, r2
    <3> QED BY <3>3 DEF Passive, Wanting, Early, l
  <2>2. CASE x.step \in {"clse", "reclose"}
    <3> HIDE DEF x
    <3>1. /\ x.step = "clse" => y.step = "clsed" /\ y.at = "fast" /\ y.lid = x.lid
          /\ x.step = "reclose" => y = IdleTask
      BY <1>2, <1>3, SentFields
    <3> HIDE DEF y
    <3> QED BY <2>2, <3>1, IdlePassive DEF Passive, Wanting, Early
  <2> QED BY <1>2, <2>1, <2>2 DEF Sends
<1>9. ReaderOK(l, y, dev[l], Line(l), Post(l), received'[l], l \notin lossy, Queued(l))
  <2> HIDE DEF y, r2, l
  <2>1. CASE Passive(y)
    BY <2>1, PassiveReaderOK
  <2>2. CASE ~Passive(y)
    BY <1>6, <1>8, <2>2 DEF ReaderOK
  <2> QED BY <2>1, <2>2
<1>10. x.at # "data" /\ y.at # "data"
  BY <1>2, <1>8
<1> HIDE DEF y, r2
<1> QED BY <1>1, <1>4, <1>6, <1>8, <1>9, <1>10, QuietKeeps

LEMMA DWriteFile ==
  ASSUME DInv, NEW t \in Tasks, WriteFile(t) \/ CalledBack(t)
  PROVE  DRest'
<1> DEFINE x == task[t]
           n == x.pkt.data[2]
           y == NextChunk(x, n)
           z == [x EXCEPT !.at = "callback"]
           l == x.lid
<1>1. /\ Continue(t, y) \/ Continue(t, z)
      /\ x.at \in {"file", "callback"}
      /\ UNCHANGED <<dev, half, unsent, store, received, lossy, arriving, conn, local_id>>
  BY DEF WriteFile, CalledBack, Resumes, wireVars, ghosts
<1>2. x \in Task /\ TaskOK(x) /\ x.step = "okay" /\ l \in Lids
  BY <1>1, OwnLid DEF TaskOK, Sends
<1>3. ReaderOK(l, x, dev[l], Line(l), Post(l), received[l], l \notin lossy, Queued(l))
  BY <1>2, ReaderHas
<1>4. CASE Continue(t, z)
  <2> HIDE DEF x
  <2>1. /\ z.at = "callback" /\ z.step = x.step /\ z.op = x.op /\ z.rid = x.rid /\ z.pkt = x.pkt
        /\ z.lid = x.lid
    BY <1>2 DEF Task, Pauses
  <2> HIDE DEF z
  <2>2. SameReader(x, z)
    BY <1>1, <2>1 DEF SameReader, Held, Unwritten
  <2> QED BY <1>1, <1>4, <2>1, <2>2, QuietTask DEF x
<1>5. CASE Continue(t, y)
  <2>1. ~Held(x) /\ Reading(l, x, dev[l], Line(l), Post(l), received[l], l \notin lossy)
    BY <1>1, <1>2, <1>3 DEF Held, ReaderOK, Wanting
  <2> HIDE DEF x, l, n
  <2>2. /\ y.lid = x.lid /\ y.step \in {"clse", "filesync"} /\ y.at \notin {"header", "data"}
        /\ y.step \in Wanting => Reading(l, y, dev[l], Line(l), Post(l), received[l], l \notin lossy)
    BY <1>2, <2>1, NextReading
  <2> HIDE DEF y
  <2>3. ReaderOK(l, y, dev[l], Line(l), Post(l), received[l], l \notin lossy, Queued(l))
    BY <2>2 DEF ReaderOK
  <2> USE DEF x, l
  <2>4. task[t].at # "data" /\ y.at # "data" /\ y.lid = task[t].lid
    BY <1>1, <2>2
  <2> QED BY <1>1, <1>5, <2>3, <2>4, QuietKeeps
<1> QED BY <1>1, <1>4, <1>5
LEMMA DNoConnection ==
  ASSUME DInv, NEW t \in Tasks, NoConnection(t)
  PROVE  DRest'
<1>1. /\ Continue(t, Raised(task[t])) /\ task[t].at # "data"
      /\ UNCHANGED <<dev, half, unsent, store, received, lossy, arriving, conn, local_id>>
  BY DEF NoConnection, wireVars, ghosts, Enters, AtLock, Has, Resumes
<1>2. Raised(task[t]).lid \in {0, task[t].lid} /\ Passive(Raised(task[t])) /\ Raised(task[t]).at # "data"
  BY OwnLid, RaisedPassive
<1> QED BY <1>1, <1>2, QuietTask

(* A call of close or connect ends, or is made; open_connection returns.   *)
LEMMA DReset ==
  ASSUME DInv, NEW t \in Tasks,
         CloseWedged(t) \/ Greeted(t) \/ Dialed(t) \/ \E c \in Resets : CallReset(t, c)
  PROVE  DRest'
<1>1. LInv /\ task[t] \in Task
  BY OwnLid
<1>2. PICK y : /\ Continue(t, y) /\ Passive(y) /\ y.lid \in {0, task[t].lid} /\ y.at # "data"
  <2>1. CASE CloseWedged(t) \/ Greeted(t)
    <3>1. Continue(t, IdleTask)
      BY <2>1 DEF CloseWedged, Greeted
    <3> QED BY <3>1, IdlePassive
  <2>2. CASE Dialed(t)
    <3> DEFINE y == [task[t] EXCEPT !.at = "greet"]
    <3>1. Continue(t, y) /\ task[t].at = "dial"
      BY <2>2 DEF Dialed, Resumes
    <3>2. y.at = "greet" /\ y.step = task[t].step /\ y.lid = task[t].lid
      BY <1>1 DEF Task
    <3>3. task[t].step \in Resets
      BY <3>1, OwnLid DEF TaskOK
    <3> HIDE DEF y
    <3> QED BY <3>1, <3>2, <3>3 DEF Passive, Wanting, Early, Resets
  <2>3. ASSUME NEW c \in Resets, CallReset(t, c)
        PROVE  \E y : Continue(t, y) /\ Passive(y) /\ y.lid \in {0, task[t].lid} /\ y.at # "data"
    <3> DEFINE y == Goto(IdleTask, c)
    <3>1. Continue(t, y)
      BY <2>3 DEF CallReset
    <3>2. IdleTask \in Task /\ IdleTask.lid = 0
      BY IdleIsLockless, IdlePassive DEF Lockless
    <3>3. y.step = c /\ y.lid = 0 /\ y.at = "acquire"
      BY <3>2, GotoFields DEF Resets, Reads
    <3> HIDE DEF y
    <3> QED BY <3>1, <3>3 DEF Passive, Wanting, Early, Resets
  <2> QED BY <2>1, <2>2, <2>3
<1>3. /\ task[t].at # "data"
      /\ UNCHANGED <<dev, half, unsent, store, received, lossy, arriving, local_id>>
      /\ conn' = conn \/ conn' = "open"
  BY DEF CloseWedged, Greeted, Dialed, CallReset, wireVars, ghosts, Enters, AtLock, Has, Resumes
<1> QED BY <1>2, <1>3, QuietTask

(* An exception at an await, with nothing in the hand.                     *)
LEMMA DStruck ==
  ASSUME DInv, NEW t \in Tasks, task[t].at \notin {"data", "header"}, Strike(t), local_id' = local_id
  PROVE  DRest'
<1> DEFINE x == task[t]
           n == x.pkt.data[2]
           y == IF x.at = "callback" THEN NextChunk(x, n) ELSE Raised(x)
           l == x.lid
<1>1. /\ Continue(t, y)
      /\ UNCHANGED <<dev, half, unsent, store, received, arriving, lossy>>
      /\ conn' = IF x.at = "closing" THEN "wedged" ELSE conn
  BY DEF Strike, Interrupted
<1>2. x \in Task /\ TaskOK(x) /\ LInv /\ WInv
  BY OwnLid DEF DInv, IInv
<1>3. conn' # "open" => conn # "open"
  BY <1>1, <1>2 DEF WInv, ConnOK
<1>4. CASE x.at = "callback"
  <2>1. x.step = "okay" /\ l \in Lids
    BY <1>2, <1>4, OwnLid DEF TaskOK, Sends
  <2>2. ReaderOK(l, x, dev[l], Line(l), Post(l), received[l], l \notin lossy, Queued(l))
    BY <2>1, ReaderHas
  <2>3. ~Held(x) /\ Reading(l, x, dev[l], Line(l), Post(l), received[l], l \notin lossy)
    BY <1>4, <2>1, <2>2 DEF Held, ReaderOK, Wanting
  <2> DEFINE z == NextChunk(x, n)
  <2>4. Continue(t, z)
    BY <1>1, <1>4
  <2> HIDE DEF x, l, n
  <2>5. /\ z.lid = x.lid /\ z.step \in {"clse", "filesync"} /\ z.at \notin {"header", "data"}
        /\ z.step \in Wanting => Reading(l, z, dev[l], Line(l), Post(l), received[l], l \notin lossy)
    BY <1>2, <2>1, <2>3, NextReading
  <2> HIDE DEF z
  <2>6. ReaderOK(l, z, dev[l], Line(l), Post(l), received[l], l \notin lossy, Queued(l))
    BY <2>5 DEF ReaderOK
  <2>7. z.lid = task[t].lid /\ z.at # "data" /\ l = task[t].lid
    BY <2>5 DEF x, l
  <2> HIDE DEF y
  <2> QED BY <1>1, <1>3, <2>4, <2>6, <2>7, QuietKeeps
<1>5. CASE x.at # "callback"
  <2>1. Continue(t, Raised(x))
    BY <1>1, <1>5
  <2>2. Raised(x).lid \in {0, x.lid} /\ Passive(Raised(x)) /\ Raised(x).at # "data"
    BY <1>2, RaisedPassive
  <2> QED BY <1>1, <1>3, <2>1, <2>2, QuietTask
<1> QED BY <1>4, <1>5

(* A command starts.                                                       *)
LEMMA DStart ==
  ASSUME DInv, NEW t \in Tasks, NEW o \in Ops, Start(t, o)
  PROVE  DRest'
<1> DEFINE x == [IdleTask EXCEPT !.op = o, !.lid = local_id']
           y == Goto(x, "open")
           n == local_id + 1
<1>1. /\ task[t].at = "idle" /\ local_id < MaxCalls /\ local_id' = n /\ Continue(t, y)
      /\ UNCHANGED <<store, conn, unsent, arriving, dev, half, deaf, received, lossy>>
  BY DEF Start, wireVars, ghosts
<1>2. LInv /\ local_id \in Nat /\ n \in Lids /\ n # 0 /\ n > local_id
  BY <1>1, OwnLid, TasksAssumption DEF LInv, RestPart, Lids
<1>3. x \in Task /\ x.op = o /\ x.lid = n /\ x.rid = None
  <2>1. IdleTask \in Task /\ IdleTask.rid = None
    BY IdleIsLockless DEF Lockless, IdleTask
  <2> QED BY <1>1, <1>2, <2>1 DEF Task
<1> HIDE DEF x
<1>4. y.step = "open" /\ y.at = "acquire" /\ y.op = o /\ y.lid = n /\ y.rid = None
  BY <1>3, GotoFields DEF Sends, Reads
<1>5. task'[t] = y /\ \A u \in Tasks \ {t} : task'[u] = task[u]
  BY <1>1, <1>2, TaskBecomes
<1> HIDE DEF y
<1>6. Hands' = Hands /\ arriving' = arriving
  <2>1. \A u \in Tasks : (task'[u].at = "data" <=> task[u].at = "data")
                         /\ (task[u].at = "data" => task'[u] = task[u])
    BY <1>1, <1>4, <1>5
  <2>2. {u \in Tasks : task'[u].at = "data"} = {u \in Tasks : task[u].at = "data"}
    BY <2>1
  <2>3. Hands' = Hands
    BY <2>1, <2>2 DEF Hands
  <2> QED BY <1>1, <2>3
<1>7. \A l \in Lids : Line(l)' = Line(l) /\ Post(l)' = Post(l) /\ Queued(l)' = Queued(l)
  BY <1>1, <1>6 DEF Line, Post, Queued
<1>8. OwnersOK'
  <2>1. \A u \in Tasks : task[u].lid <= local_id /\ task[u].lid \in Nat
    BY <1>2, OwnLid DEF Lids
  <2>2. \A u \in Tasks : task'[u].lid <= local_id'
    BY <1>1, <1>2, <1>4, <1>5, <2>1
  <2>3. ASSUME NEW u \in Tasks, NEW v \in Tasks, task'[u].lid = task'[v].lid, task'[u].lid # 0
        PROVE  u = v
    <3>1. CASE u = t /\ v # t
      <4>1. task'[u].lid = n /\ task'[v].lid <= local_id /\ task'[v].lid \in Nat
        BY <1>4, <1>5, <2>1, <3>1
      <4> QED BY <1>2, <2>3, <4>1
    <3>2. CASE u # t /\ v = t
      <4>1. task'[v].lid = n /\ task'[u].lid <= local_id /\ task'[u].lid \in Nat
        BY <1>4, <1>5, <2>1, <3>2
      <4> QED BY <1>2, <2>3, <4>1
    <3>3. CASE u # t /\ v # t
      BY <1>5, <2>3, <3>3 DEF DInv, OwnersOK
    <3> QED BY <3>1, <3>2, <3>3
  <2> QED BY <2>2, <2>3 DEF OwnersOK
<1>9. Unopened(dev[n], Line(n), Post(n), received[n]) /\ dev[n] = NoStream
  <2>1. LidOK(n, dev[n], Line(n), Post(n), received[n], local_id)
    BY <1>2, StreamTypes DEF StreamInv
  <2> QED BY <1>2, <2>1 DEF LidOK, StreamFacts, Unopened
<1>10. Reading(n, y, dev[n], Line(n), Post(n), received[n], n \notin lossy)
  <2>1. /\ dev[n].st = "none" /\ dev[n].credit = 0 /\ dev[n].n = 0 /\ ~dev[n].asked
        /\ Line(n) = {} /\ Post(n) = {} /\ received[n] = <<>>
    BY <1>9 DEF Unopened, NoStream
  <2>2. \A c : ~Some(Line(n), c) /\ ~Some(Post(n), c)
    BY <2>1 DEF Some
  <2>3. ~Held(y) /\ Len(received[n]) = 0 /\ Have(y, received[n]) = 0
    BY <1>4, <2>1 DEF Held, Have
  <2>4. KnowsStream(n, y, dev[n])
    BY <1>4, <2>1 DEF KnowsStream
  <2>5. HasGot(n, y, dev[n], received[n])
    <3>1. received[n] = Given(n, 0)
      BY <2>1 DEF Given
    <3> QED BY <2>1, <2>3, <3>1 DEF HasGot
  <2>6. PostOK(y, Post(n)) /\ OneTurn(y, dev[n], Line(n), Post(n), received[n])
    BY <2>1, <2>2, <2>3 DEF PostOK, OneTurn
  <2>7. /\ DataOK(n, y, dev[n], Line(n), received[n], n \notin lossy)
        /\ AnswerFirst(y, dev[n], Line(n), n \notin lossy)
    BY <2>1, <2>2 DEF DataOK, AnswerFirst
  <2>8. Whole(y, dev[n], Line(n), received[n], n \notin lossy)
    BY <2>1, <2>3 DEF Whole
  <2> QED BY <2>3, <2>4, <2>5, <2>6, <2>7, <2>8 DEF Reading
<1>11. ReaderOK(n, y, dev[n], Line(n), Post(n), received[n], n \notin lossy, Queued(n))
  BY <1>4, <1>9, <1>10 DEF ReaderOK
<1>12. ASSUME NEW l \in Lids PROVE StreamInv(l)'
  <2>1. StreamInv(l) /\ l \in Nat
    BY StreamTypes
  <2>2. LidOK(l, dev[l], Line(l), Post(l), received[l], local_id')
    <3>1. l > local_id' => l > local_id
      BY <1>1, <1>2, <2>1
    <3> QED BY <2>1, <3>1 DEF StreamInv, LidOK
  <2>3. ASSUME NEW u \in Tasks, task'[u].lid = l
        PROVE  ReaderOK(l, task'[u], dev[l], Line(l), Post(l), received[l], l \notin lossy, Queued(l))
    <3>1. CASE u = t
      BY <1>4, <1>5, <1>11, <2>3, <3>1
    <3>2. CASE u # t
      BY <1>5, <2>1, <2>3, <3>2 DEF StreamInv
    <3> QED BY <3>1, <3>2
  <2> QED BY <1>1, <1>7, <2>2, <2>3 DEF StreamInv
<1>13. WireOK'
  BY <1>1, <1>4, <1>5 DEF DInv, WireOK
<1>14. PacketsOK'
  BY <1>1, <1>4, <1>5 DEF DInv, PacketsOK, FromDevice
<1> QED BY <1>8, <1>12, <1>13, <1>14 DEF DRest
-----------------------------------------------------------------------------
(* A packet is given up half way.                                          *)

Spoils(l, p, S, T) == IF p.arg1 = l THEN Loses(S, T) ELSE Reaches(S, T)

LEMMA HandIsMore ==
  ASSUME NEW l, NEW q, NEW p, NEW w
  PROVE  \A v \in LineOf(l, q, {}, w) : v \in LineOf(l, q, {p}, w)
BY LineIs

(* Its header was read by the task that gives it up.                       *)
LEMMA DataSpoiled ==
  ASSUME NEW l, NEW X, NEW q, Len(q) \in Nat, NEW p, NEW w \in Seq(X), w # <<>>, Head(w)[1] = "data"
  PROVE  Spoils(l, p, LineOf(l, q, {p}, w), LineOf(l, q, {}, Tail(w)))
<1> DEFINE S == LineOf(l, q, {p}, w)
           N == LineOf(l, q, {}, w)
           T == LineOf(l, q, {}, Tail(w))
<1>1. Placed(S) /\ Placed(N)
  BY LinePlaced
<1>2. Moved(N, T)
  BY DataRead
<1>3. \A v \in N : v \in S
  BY HandIsMore
<1>4. p.arg1 # l => S = N
  BY NotInLine
<1> HIDE DEF S, N, T
<1>5. Moved(S, S)
  BY <1>1, MovedSame
<1>6. p.arg1 = l => Loses(S, T)
  BY <1>2, <1>3, <1>5 DEF Loses
<1>7. p.arg1 # l => Reaches(S, T)
  BY <1>1, <1>2, <1>4, MovedReaches
<1> QED BY <1>6, <1>7 DEF S, T, Spoils

(* Its header is only begun, or comes after the rest of another.           *)
LEMMA HeaderIsSpoiled ==
  ASSUME NEW l, NEW X, NEW q, Len(q) \in Nat, NEW w \in Seq(X), w # <<>>, Head(w)[1] = "header",
         HasData(Head(w)[2]) => Tail(w) # <<>> /\ Tail(w)[1][1] = "data"
  PROVE  Spoils(l, Head(w)[2], LineOf(l, q, {}, w), LineOf(l, q, {}, AfterPacket(w)))
<1> DEFINE p == Head(w)[2]
           u == Tail(w)
           z == AfterPacket(w)
           S == LineOf(l, q, {}, w)
           M == LineOf(l, q, {p}, u)
           N == LineOf(l, q, {}, u)
           T == LineOf(l, q, {}, z)
<1>1. u \in Seq(X) /\ Len(u) \in Nat /\ Len(w) \in Nat
  OBVIOUS
<1>2. Placed(S) /\ Placed(N)
  BY <1>1, LinePlaced
<1>3. Moved(S, M)
  BY HeaderRead
<1>4. \A v \in N : v \in M
  BY HandIsMore
<1>5. p.arg1 # l => M = N
  BY NotInLine
<1>6. Moved(N, T)
  <2>1. CASE HasData(p)
    <3>1. z = Tail(u) /\ u # <<>> /\ Head(u)[1] = "data"
      BY <1>1, <2>1 DEF AfterPacket
    <3> HIDE DEF p, u, z
    <3> QED BY <1>1, <3>1, DataRead
  <2>2. CASE ~HasData(p)
    <3>1. z = u
      BY <2>2 DEF AfterPacket
    <3> HIDE DEF p, u, z
    <3> QED BY <1>2, <3>1, MovedSame
  <2> QED BY <2>1, <2>2
<1> HIDE DEF p, u, z, S, M, N, T
<1>7. p.arg1 = l => Loses(S, T)
  BY <1>3, <1>4, <1>6 DEF Loses
<1>8. p.arg1 # l => Reaches(S, T)
  BY <1>3, <1>5, <1>6 DEF Reaches
<1> QED BY <1>7, <1>8 DEF S, T, p, z, Spoils

(* The reader of its stream has still what it was given, and what comes to *)
(* it is still in order; other streams lose nothing.                       *)
LEMMA LossKeeps ==
  ASSUME DInv, NEW t \in Tasks, NEW y, Continue(t, y), y.lid \in {0, task[t].lid}, Passive(y),
         y.at # "data", local_id' = local_id, UNCHANGED <<dev, half, unsent, store, received, conn>>,
         NEW p, lossy' = lossy \cup {p.arg1},
         \A l \in Lids : Spoils(l, p, Line(l), Line(l)'),
         \A i \in 1 .. Len(arriving') : FromDevice(arriving'[i][2])
  PROVE  DRest'
<1>1. LInv /\ WireOK /\ PacketsOK /\ task'[t] = y /\ \A u \in Tasks \ {t} : task'[u] = task[u]
  BY OwnLid, TaskBecomes DEF DInv
<1>2. WireOK'
  BY <1>1 DEF WireOK
<1>3. PacketsOK'
  <2>1. \A u \in Tasks : task'[u].at = "data" => task[u].at = "data" /\ task'[u] = task[u]
    BY <1>1
  <2> QED BY <1>1, <2>1 DEF PacketsOK, FromDevice
<1>4. ASSUME NEW l \in Lids
      PROVE  /\ LidOK(l, dev[l]', Line(l)', Post(l)', received[l]', local_id)
             /\ \A u \in Tasks \ {t} : task[u].lid = l =>
                  ReaderOK(l, task[u], dev[l]', Line(l)', Post(l)', received[l]', l \notin lossy', Queued(l)')
             /\ y.lid = l =>
                  ReaderOK(l, y, dev[l]', Line(l)', Post(l)', received[l]', l \notin lossy', Queued(l)')
  <2>1. /\ Queued(l)' = Queued(l) /\ Post(l)' = Post(l) /\ dev[l]' = dev[l] /\ received[l]' = received[l]
    BY DEF Queued, Post
  <2>2. Placed(Line(l)) /\ Placed(Post(l)) /\ StreamInv(l) /\ Spoils(l, p, Line(l), Line(l)')
    BY StreamTypes
  <2>3. LidOK(l, dev[l], Line(l), Post(l), received[l], local_id)
    BY <2>2 DEF StreamInv
  <2>4. \A u \in Tasks : task[u].lid = l =>
          ReaderOK(l, task[u], dev[l], Line(l), Post(l), received[l], l \notin lossy, Queued(l))
    BY <2>2 DEF StreamInv
  <2>5. ReaderOK(l, y, dev[l]', Line(l)', Post(l)', received[l]', l \notin lossy', Queued(l)')
    BY PassiveReaderOK
  <2>6. CASE p.arg1 = l
    <3>1. Loses(Line(l), Line(l)') /\ (l \notin lossy') = FALSE
      BY <2>2, <2>6 DEF Spoils
    <3>2. LidOK(l, dev[l], Line(l)', Post(l), received[l], local_id)
      BY <2>2, <2>3, <3>1, LostReaderOK
    <3>3. ASSUME NEW u \in Tasks \ {t}, task[u].lid = l
          PROVE  ReaderOK(l, task[u], dev[l], Line(l)', Post(l), received[l], FALSE, Queued(l))
      <4>1. ReaderOK(l, task[u], dev[l], Line(l), Post(l), received[l], l \notin lossy, Queued(l))
        BY <2>4, <3>3
      <4> QED BY <2>2, <3>1, <4>1, LostReaderOK
    <3> QED BY <2>1, <2>5, <3>1, <3>2, <3>3
  <2>7. CASE p.arg1 # l
    <3>1. Reaches(Line(l), Line(l)') /\ (l \notin lossy') = (l \notin lossy)
      BY <2>2, <2>7 DEF Spoils
    <3>2. Fewer(Post(l), Post(l))
      BY <2>2, SameFewer
    <3>3. LidOK(l, dev[l], Line(l)', Post(l), received[l], local_id)
      BY <2>2, <2>3, <3>1, <3>2, ReachedReading
    <3>4. ASSUME NEW u \in Tasks \ {t}, task[u].lid = l
          PROVE  ReaderOK(l, task[u], dev[l], Line(l)', Post(l), received[l], l \notin lossy, Queued(l))
      <4>1. ReaderOK(l, task[u], dev[l], Line(l), Post(l), received[l], l \notin lossy, Queued(l))
        BY <2>4, <3>4
      <4> QED BY <2>2, <3>1, <3>2, <4>1, ReachedReading
    <3> QED BY <2>1, <2>5, <3>1, <3>3, <3>4
  <2> QED BY <2>6, <2>7
<1>5. OwnersOK' /\ \A l \in Lids : StreamInv(l)'
  <2> HIDE DEF Lids
  <2> QED BY <1>4, StepKeeps
<1> QED BY <1>2, <1>3, <1>5 DEF DRest

LEMMA TailFromDevice ==
  ASSUME NEW X, NEW w \in Seq(X), w # <<>>, \A i \in 1 .. Len(w) : FromDevice(w[i][2])
  PROVE  \A i \in 1 .. Len(Tail(w)) : FromDevice(Tail(w)[i][2])
<1> DEFINE v == Tail(w)
<1>1. /\ Len(v) = Len(w) - 1 /\ Len(w) \in Nat \ {0}
      /\ \A i \in 1 .. Len(w) - 1 : v[i] = w[i + 1]
  BY TailIs
<1> HIDE DEF v
<1>2. ASSUME NEW i \in 1 .. Len(v) PROVE FromDevice(v[i][2])
  <2>1. v[i] = w[i + 1] /\ i + 1 \in 1 .. Len(w)
    BY <1>1
  <2> QED BY <2>1
<1> QED BY <1>2 DEF v

(* While a header is awaited, by whoever loses it.                         *)
LEMMA DHeaderSpoiled ==
  ASSUME DInv, NEW t \in Tasks, task[t].at = "header", HeaderSpoiled, Continue(t, Raised(task[t])),
         local_id' = local_id, UNCHANGED <<dev, half, unsent, store, received, conn>>
  PROVE  DRest'
<1> DEFINE y == Raised(task[t])
<1>1. LInv /\ WInv /\ PacketsOK /\ task[t] \in Task /\ arriving \in Seq(Kinds \X WholePacket)
  BY OwnLid DEF DInv, IInv, LInv, WirePart
<1>2. y.lid \in {0, task[t].lid} /\ Passive(y) /\ y.at # "data"
  BY <1>1, RaisedPassive
<1>3. CASE UNCHANGED <<arriving, lossy>>
  BY <1>2, <1>3, QuietTask
<1>4. CASE /\ arriving # <<>> /\ arriving' = AfterPacket(arriving)
           /\ lossy' = lossy \cup {Head(arriving)[2].arg1}
  <2> DEFINE p == Head(arriving)[2]
             w == arriving
             v == AfterPacket(arriving)
  <2> HIDE DEF y
  <2>1. /\ \A u \in Tasks : task[u].at # "data"
        /\ \A u \in Tasks : task'[u].at # "data"
    <3>1. \A u \in Tasks \ {t} : task[u].at # "data" /\ task'[u] = task[u]
      BY <1>1, TaskBecomes, ReaderHolds, Alone DEF Wired, y
    <3>2. task'[t] = y
      BY <1>1, TaskBecomes DEF y
    <3> QED BY <1>2, <3>1, <3>2
  <2>2. Hands = {} /\ Hands' = {}
    BY <2>1 DEF Hands
  <2>3. /\ Head(w)[1] = "header"
        /\ HasData(p) => Tail(w) # <<>> /\ Tail(w)[1][1] = "data"
    BY <1>1, <1>4, <2>1, PacketAhead
  <2>4. \A i \in 1 .. Len(v) : FromDevice(v[i][2])
    <3>1. \A i \in 1 .. Len(w) : FromDevice(w[i][2])
      BY <1>1 DEF PacketsOK
    <3>2. \A i \in 1 .. Len(Tail(w)) : FromDevice(Tail(w)[i][2])
      BY <1>1, <1>4, <3>1, TailFromDevice
    <3>3. CASE ~HasData(p)
      BY <3>2, <3>3 DEF AfterPacket
    <3>4. CASE HasData(p)
      <4>1. Tail(w) # <<>> /\ Tail(w) \in Seq(Kinds \X WholePacket)
        BY <1>1, <1>4, <2>3, <3>4
      <4>2. \A i \in 1 .. Len(Tail(Tail(w))) : FromDevice(Tail(Tail(w))[i][2])
        BY <3>2, <4>1, TailFromDevice
      <4> QED BY <3>4, <4>2 DEF AfterPacket
    <3> QED BY <3>3, <3>4
  <2>5. ASSUME NEW l \in Lids PROVE Spoils(l, p, Line(l), Line(l)')
    <3>1. Queued(l)' = Queued(l) /\ Len(Queued(l)) \in Nat
      BY StreamTypes DEF Queued
    <3>2. Spoils(l, p, LineOf(l, Queued(l), {}, w), LineOf(l, Queued(l), {}, v))
      BY <1>1, <1>4, <2>3, <3>1, HeaderIsSpoiled
    <3> QED BY <1>4, <2>2, <3>1, <3>2 DEF Line
  <2> HIDE DEF p, v
  <2>6. Continue(t, y) /\ lossy' = lossy \cup {p.arg1} /\ arriving' = v
    BY <1>4 DEF p, v, y
  <2> QED BY <1>2, <2>4, <2>5, <2>6, LossKeeps
<1> QED BY <1>3, <1>4 DEF HeaderSpoiled, GivenUp

(* While the data are awaited, or once they turn out to be wrong.          *)
LEMMA DDataSpoiled ==
  ASSUME DInv, NEW t \in Tasks, task[t].at = "data", GivenUp(task[t].pkt), arriving' = Tail(arriving),
         Continue(t, Raised(task[t])), local_id' = local_id,
         UNCHANGED <<dev, half, unsent, store, received, conn>>
  PROVE  DRest'
<1> DEFINE y == Raised(task[t])
           p == task[t].pkt
           w == arriving
           v == Tail(arriving)
<1>1. LInv /\ WInv /\ PacketsOK /\ task[t] \in Task /\ w \in Seq(Kinds \X WholePacket)
  BY OwnLid DEF DInv, IInv, LInv, WirePart
<1>2. y.lid \in {0, task[t].lid} /\ Passive(y) /\ y.at # "data"
  BY <1>1, RaisedPassive
<1>3. w # <<>> /\ Head(w)[1] = "data"
  BY <1>1 DEF WInv, ArrivingOK
<1> HIDE DEF y
<1>4. task'[t] = y /\ \A u \in Tasks \ {t} : task'[u] = task[u] /\ task[u].at # "data"
  BY <1>1, TaskBecomes, ReaderHolds, Alone DEF Wired, y
<1>5. Hands = {p} /\ Hands' = {}
  <2>1. {u \in Tasks : task[u].at = "data"} = {t}
    BY <1>4
  <2>2. \A u \in Tasks : task'[u].at # "data"
    BY <1>2, <1>4
  <2> QED BY <2>1, <2>2 DEF Hands
<1>6. \A i \in 1 .. Len(v) : FromDevice(v[i][2])
  BY <1>1, <1>3, TailFromDevice DEF PacketsOK
<1>7. ASSUME NEW l \in Lids PROVE Spoils(l, p, Line(l), Line(l)')
  <2>1. Queued(l)' = Queued(l) /\ Len(Queued(l)) \in Nat
    BY StreamTypes DEF Queued
  <2>2. Spoils(l, p, LineOf(l, Queued(l), {p}, w), LineOf(l, Queued(l), {}, v))
    BY <1>1, <1>3, <2>1, DataSpoiled
  <2> QED BY <1>5, <2>1, <2>2 DEF Line
<1> HIDE DEF p, v
<1>8. Continue(t, y) /\ lossy' = lossy \cup {p.arg1} /\ arriving' = v
  BY DEF p, v, y, GivenUp
<1> QED BY <1>2, <1>6, <1>7, <1>8, LossKeeps

LEMMA DReadNoHeader ==
  ASSUME DInv, NEW t \in Tasks, ReadNoHeader(t)
  PROVE  DRest'
<1>1. /\ task[t].at = "header" /\ HeaderSpoiled /\ Continue(t, Raised(task[t])) /\ local_id' = local_id
      /\ UNCHANGED <<dev, half, unsent, store, received, conn>>
  BY DEF ReadNoHeader, Resumes, readRest
<1> QED BY <1>1, DHeaderSpoiled

LEMMA DStruckReading ==
  ASSUME DInv, NEW t \in Tasks, task[t].at \in {"header", "data"}, Strike(t), local_id' = local_id
  PROVE  DRest'
<1>1. /\ Continue(t, Raised(task[t])) /\ Interrupted(task[t])
      /\ UNCHANGED <<dev, half, unsent, store, received, conn>>
  BY DEF Strike
<1>2. CASE task[t].at = "data"
  <2>1. GivenUp(task[t].pkt) /\ arriving' = Tail(arriving)
    BY <1>1, <1>2 DEF Interrupted
  <2> QED BY <1>1, <1>2, <2>1, DDataSpoiled
<1>3. CASE task[t].at = "header"
  <2>1. HeaderSpoiled \/ UNCHANGED <<arriving, lossy>>
    BY <1>1, <1>3 DEF Interrupted
  <2>2. CASE HeaderSpoiled
    BY <1>1, <1>3, <2>2, DHeaderSpoiled
  <2>3. CASE UNCHANGED <<arriving, lossy>>
    <3>1. Raised(task[t]).lid \in {0, task[t].lid} /\ Passive(Raised(task[t])) /\ Raised(task[t]).at # "data"
      BY OwnLid, RaisedPassive
    <3> QED BY <1>1, <1>3, <2>3, <3>1, QuietTask
  <2> QED BY <2>1, <2>2, <2>3
<1> QED BY <1>2, <1>3
-----------------------------------------------------------------------------
(* The steps of close and connect.                                         *)

(* A message that the device had begun to read is forgotten.               *)
LEMMA HalfForgotten ==
  ASSUME NEW l, NEW h, NEW w
  PROVE  Fewer(PostOf(l, h, w), PostOf(l, None, w))
<1> DEFINE f == [i \in Int \cup Nat |-> i]
           P == PostOf(l, h, w)
           Q == PostOf(l, None, w)
<1>1. Q \subseteq P
  BY DEF PostOf
<1>2. \A v \in Q : v.pos \in Int
  BY DEF PostOf, Item
<1>3. \A v \in Q : SameItem(v, v, f)
  BY <1>2 DEF SameItem
<1> HIDE DEF f, P, Q
<1> QED BY <1>1, <1>3 DEF Fewer, P, Q

LEMMA DBeginClosing ==
  ASSUME DInv, NEW t \in Tasks, BeginClosing(t)
  PROVE  DRest'
<1> DEFINE x == task[t]
           y == [x EXCEPT !.at = "closing"]
<1>1. /\ Enters(t) /\ x.step \in Resets /\ conn = "open" /\ Continue(t, y) /\ half' = None
      /\ dev' = [l \in Lids |-> IF dev[l].st = "none" THEN dev[l] ELSE Ended(dev[l], "gone")]
      /\ UNCHANGED <<store, local_id, unsent, arriving, received, lossy>>
  BY DEF BeginClosing
<1>2. x \in Task /\ LInv /\ WInv /\ WireOK /\ PacketsOK
  BY OwnLid DEF DInv, IInv
<1>3. y.at = "closing" /\ y.step = x.step /\ y.lid = x.lid
  BY <1>2 DEF Task
<1> HIDE DEF y
<1>4. Passive(y) /\ y.lid \in {0, task[t].lid}
  BY <1>1, <1>3 DEF Passive, Wanting, Early, Resets
<1>5. /\ task'[t] = y /\ \A u \in Tasks \ {t} : task'[u] = task[u]
      /\ \A u \in Tasks : task[u].at # "data"
  BY <1>1, <1>2, TaskBecomes, OutsideFree DEF Wired
<1>6. \A u \in Tasks : task'[u].at # "data"
  BY <1>3, <1>5
<1>7. Hands' = Hands /\ arriving' = arriving
  BY <1>1, <1>5, <1>6 DEF Hands
<1>8. ASSUME NEW l \in Lids
      PROVE  /\ LidOK(l, dev[l]', Line(l)', Post(l)', received[l]', local_id)
             /\ \A u \in Tasks \ {t} : task[u].lid = l =>
                  ReaderOK(l, task[u], dev[l]', Line(l)', Post(l)', received[l]', l \notin lossy', Queued(l)')
             /\ y.lid = l =>
                  ReaderOK(l, y, dev[l]', Line(l)', Post(l)', received[l]', l \notin lossy', Queued(l)')
             /\ dev[l]'.st \in {"none", "gone"}
  <2> DEFINE d == dev[l]
             e == IF d.st = "none" THEN d ELSE Ended(d, "gone")
  <2>1. /\ Queued(l)' = Queued(l) /\ dev[l]' = e /\ received[l]' = received[l]
        /\ (l \notin lossy') <=> (l \notin lossy)
    BY <1>1 DEF Queued
  <2>2. Line(l)' = Line(l)
    BY <1>7, <2>1 DEF Line
  <2>3. d \in DevStream /\ StreamInv(l) /\ Placed(Line(l))
    BY StreamTypes
  <2>4. LidOK(l, d, Line(l), Post(l), received[l], local_id)
    BY <2>3 DEF StreamInv
  <2>5. Fewer(Post(l), Post(l)')
    BY <1>1, HalfForgotten DEF Post
  <2>6. Reaches(Line(l), Line(l))
    BY <2>3, MovedReaches
  <2>7. \A u \in Tasks : task[u].lid = l =>
          ReaderOK(l, task[u], d, Line(l), Post(l), received[l], l \notin lossy, Queued(l))
    BY <2>3 DEF StreamInv
  <2> HIDE DEF d, e
  <2>8. LidOK(l, e, Line(l), Post(l), received[l], local_id) /\ e.st \in {"none", "gone"}
    BY <2>3, <2>4, GoneReaderOK DEF e
  <2>9. LidOK(l, e, Line(l), Post(l)', received[l], local_id)
    BY <2>3, <2>5, <2>6, <2>8, ReachedReading
  <2>10. ASSUME NEW u \in Tasks \ {t}, task[u].lid = l
         PROVE  ReaderOK(l, task[u], e, Line(l), Post(l)', received[l], l \notin lossy, Queued(l))
    <3>1. ReaderOK(l, task[u], d, Line(l), Post(l), received[l], l \notin lossy, Queued(l))
      BY <2>7, <2>10
    <3>2. ReaderOK(l, task[u], e, Line(l), Post(l), received[l], l \notin lossy, Queued(l))
      BY <2>3, <2>4, <3>1, GoneReaderOK DEF e
    <3> QED BY <2>3, <2>5, <2>6, <3>2, ReachedReading
  <2>11. ReaderOK(l, y, dev[l]', Line(l)', Post(l)', received[l]', l \notin lossy', Queued(l)')
    BY <1>4, PassiveReaderOK
  <2>12. (l \notin lossy') = (l \notin lossy)
    BY <2>1
  <2> QED BY <2>1, <2>2, <2>8, <2>9, <2>10, <2>11, <2>12
<1>9. OwnersOK' /\ \A l \in Lids : StreamInv(l)'
  BY <1>1, <1>4, <1>8, StepKeeps
<1>10. WireOK'
  BY <1>1, <1>2, <1>6, <1>8 DEF WireOK
<1>11. PacketsOK'
  BY <1>1, <1>2, <1>6 DEF PacketsOK, FromDevice
<1> QED BY <1>9, <1>10, <1>11 DEF DRest

(* Whatever was on its way is gone with the connection.                    *)
LEMMA DCloseTransport ==
  ASSUME DInv, NEW t \in Tasks, CloseTransport(t)
  PROVE  DRest'
<1>1. /\ store' = EmptyStore /\ conn' = "closed" /\ arriving' = <<>>
      /\ \/ task[t].step = "close" /\ Continue(t, IdleTask)
         \/ task[t].step = "connect" /\ Continue(t, [task[t] EXCEPT !.at = "dial"])
      /\ UNCHANGED <<local_id, unsent, dev, half, received, lossy>>
  BY DEF CloseTransport, Emptied
<1>2. task[t] \in Task /\ TaskOK(task[t]) /\ LInv /\ WInv /\ WireOK /\ PacketsOK
  BY OwnLid DEF DInv, IInv
<1>3. PICK y : Continue(t, y) /\ Passive(y) /\ y.lid \in {0, task[t].lid} /\ y.at # "data"
  <2>1. CASE task[t].step = "close" /\ Continue(t, IdleTask)
    BY <2>1, IdlePassive
  <2>2. CASE task[t].step = "connect" /\ Continue(t, [task[t] EXCEPT !.at = "dial"])
    <3> DEFINE y == [task[t] EXCEPT !.at = "dial"]
    <3>1. y.at = "dial" /\ y.step = "connect" /\ y.lid = task[t].lid
      BY <1>2, <2>2 DEF Task
    <3>2. Continue(t, y)
      BY <2>2
    <3> HIDE DEF y
    <3> QED BY <3>1, <3>2 DEF Passive, Wanting, Early
  <2> QED BY <1>1, <2>1, <2>2
<1>4. conn # "open" /\ \A u \in Tasks \ {t} : task[u].at # "data"
  <2>1. CASE task[t].at = "closing"
    <3>1. lock = t
      BY <1>2, <2>1, HolderHasLock DEF LInv, Inside
    <3> QED BY <1>2, <2>1, <3>1, Alone DEF WInv, ConnOK, Wired
  <2>2. CASE Enters(t) /\ conn = "closed"
    BY <1>2, <2>2, OutsideFree DEF Wired
  <2> QED BY <2>1, <2>2 DEF CloseTransport, Closing, Resumes
<1>5. task'[t] = y /\ \A u \in Tasks \ {t} : task'[u] = task[u]
  BY <1>2, <1>3, TaskBecomes
<1>6. \A u \in Tasks : task'[u].at # "data"
  BY <1>3, <1>4, <1>5
<1>7. Hands' = {} /\ arriving' = <<>> /\ \A l : Queued(l)' = <<>>
  BY <1>1, <1>6 DEF Hands, Queued, QueueOf, EmptyStore
<1>8. ASSUME NEW l \in Lids
      PROVE  /\ LidOK(l, dev[l]', Line(l)', Post(l)', received[l]', local_id)
             /\ \A u \in Tasks \ {t} : task[u].lid = l =>
                  ReaderOK(l, task[u], dev[l]', Line(l)', Post(l)', received[l]', l \notin lossy', Queued(l)')
             /\ y.lid = l =>
                  ReaderOK(l, y, dev[l]', Line(l)', Post(l)', received[l]', l \notin lossy', Queued(l)')
  <2>1. Line(l)' = {} /\ Queued(l)' = <<>> /\ Post(l)' = Post(l) /\ dev[l]' = dev[l]
        /\ received[l]' = received[l] /\ (l \notin lossy') = (l \notin lossy)
    BY <1>1, <1>7, NoLine DEF Line, Post
  <2>2. dev[l] \in DevStream /\ StreamInv(l) /\ Len(received[l]) \in Nat /\ dev[l].st \in {"none", "gone"}
    BY <1>2, <1>4, StreamTypes DEF WireOK
  <2>3. LidOK(l, dev[l], Line(l), Post(l), received[l], local_id)
    BY <2>2 DEF StreamInv
  <2>4. StreamFacts(dev[l], Line(l), Post(l))
    BY <2>3 DEF LidOK
  <2>5. LidOK(l, dev[l], {}, Post(l), received[l], local_id)
    BY <2>2, <2>3, <2>4, EmptiedReading
  <2>6. ASSUME NEW u \in Tasks \ {t}, task[u].lid = l
        PROVE  ReaderOK(l, task[u], dev[l], {}, Post(l), received[l], l \notin lossy, <<>>)
    <3>1. ReaderOK(l, task[u], dev[l], Line(l), Post(l), received[l], l \notin lossy, Queued(l))
      BY <2>2, <2>6 DEF StreamInv
    <3> QED BY <2>2, <2>4, <3>1, EmptiedReading
  <2>7. ReaderOK(l, y, dev[l]', Line(l)', Post(l)', received[l]', l \notin lossy', Queued(l)')
    BY <1>3, PassiveReaderOK
  <2> QED BY <2>1, <2>5, <2>6, <2>7
<1>9. OwnersOK' /\ \A l \in Lids : StreamInv(l)'
  BY <1>1, <1>3, <1>8, StepKeeps
<1>10. WireOK'
  BY <1>1, <1>2, <1>4 DEF WireOK
<1>11. PacketsOK'
  <2>1. Len(arriving') = 0 /\ DOMAIN store' = {}
    BY <1>1 DEF EmptyStore
  <2> QED BY <1>6, <2>1 DEF PacketsOK
<1> QED BY <1>9, <1>10, <1>11 DEF DRest
-----------------------------------------------------------------------------
(* The parts of a message are written.                                     *)

LEMMA PostWritten ==
  ASSUME NEW l, NEW h, NEW X, NEW w \in Seq(X), NEW e
  PROVE  PostOf(l, h, Append(w, e)) =
           PostOf(l, h, w) \cup (IF e[1] = "header" /\ e[2].arg0 = l THEN {Item(Len(w) + 1, e[2])} ELSE {})
<1> DEFINE u == Append(w, e)
           n == Len(w)
           H == {Item(0, m) : m \in {x \in {h} : x # None /\ x.arg0 = l}}
           A(v) == {i \in 1 .. Len(v) : v[i][1] = "header" /\ v[i][2].arg0 = l}
           W(v) == {Item(i, v[i][2]) : i \in A(v)}
<1>1. Len(u) = n + 1 /\ n \in Nat /\ u[n + 1] = e /\ \A i \in 1 .. n : u[i] = w[i]
  BY AppendIs
<1>2. \A v : PostOf(l, h, v) = H \cup W(v)
  BY DEF PostOf
<1>3. 1 .. Len(u) = (1 .. n) \cup {n + 1} /\ n + 1 \notin 1 .. n
  BY <1>1
<1> HIDE DEF u
<1>4. CASE e[1] = "header" /\ e[2].arg0 = l
  <2>1. A(u) = A(w) \cup {n + 1}
    BY <1>1, <1>3, <1>4
  <2>2. W(u) = W(w) \cup {Item(n + 1, e[2])}
    BY <1>1, <2>1
  <2> HIDE DEF H, W
  <2> QED BY <1>2, <1>4, <2>2 DEF u
<1>5. CASE e[1] # "header" \/ e[2].arg0 # l
  <2>1. A(u) = A(w)
    BY <1>1, <1>3, <1>5
  <2>2. W(u) = W(w)
    BY <1>1, <2>1
  <2> HIDE DEF H, W
  <2> QED BY <1>2, <1>5, <2>2 DEF u
<1> QED BY <1>4, <1>5

(* A task that leaves the wire, the store and what it has in its hand.     *)
LEMMA QuietRest ==
  ASSUME DInv, NEW t \in Tasks, NEW y, Continue(t, y), y.at # "data",
         UNCHANGED <<dev, store, lossy, arriving, conn>>
  PROVE  WireOK' /\ PacketsOK'
<1>1. task'[t] = y /\ (\A u \in Tasks \ {t} : task'[u] = task[u]) /\ WireOK /\ PacketsOK
  BY OwnLid, TaskBecomes DEF DInv
<1>2. \A u \in Tasks : task'[u].at = "data" => task[u].at = "data" /\ task'[u] = task[u]
  BY <1>1
<1>3. WireOK'
  BY <1>1, <1>2 DEF WireOK
<1>4. PacketsOK'
  BY <1>1, <1>2 DEF PacketsOK, FromDevice
<1> QED BY <1>3, <1>4

LEMMA DSendHeader ==
  ASSUME DInv, NEW t \in Tasks, SendHeader(t)
  PROVE  DRest'
<1> DEFINE x == task[t]
           y == [x EXCEPT !.at = "drain"]
           m == MessageOf(x)
           n == Len(unsent) + 1
           own == x.lid
<1>1. /\ Enters(t) /\ x.step \in Sends /\ Write(t, x)
      /\ UNCHANGED <<dev, half, store, received, lossy, arriving, conn, local_id>>
  BY DEF SendHeader, ghosts
<1>2. LInv /\ x \in Task /\ TaskOK(x) /\ own \in Lids /\ x.op \in Ops /\ own <= local_id
  BY <1>1, OwnLid
<1>3. x.at \in {"acquire", "queue"} /\ x.part = "header"
  BY <1>1, <1>2 DEF Enters, AtLock, Has, Resumes, TaskOK, Sends, Reads, Task, Kinds
<1>4. Continue(t, y) /\ unsent' = Append(unsent, <<"header", m>>) /\ unsent \in Seq(Kinds \X Message)
  BY <1>1, <1>2, <1>3 DEF Write, LInv, WirePart
<1>5. /\ y.at = "drain" /\ y.step = x.step /\ y.lid = own /\ y \in Task /\ ~Unwritten(y)
  BY <1>2 DEF Task, MayPause, Inside, Unwritten
<1>6. m.arg0 = own
  <2> HIDE DEF x
  <2> QED BY <1>1 DEF MessageOf, Msg, Sends, own
<1>6a. m.cmd = (CASE x.step = "open" -> "OPEN" [] x.step = "request" -> "WRTE"
                                 [] x.step = "okay" -> "OKAY" [] OTHER -> "CLSE")
  <2> HIDE DEF x
  <2> QED BY <1>1 DEF MessageOf, Msg, Sends, own
<1>7. /\ \A l \in Lids : l = own => Post(l)' = Post(l) \cup {Item(n, m)}
      /\ \A l \in Lids : l # own => Post(l)' = Post(l)
  <2> HIDE DEF x, own, m
  <2>1. half' = half
    BY <1>1
  <2> DEFINE e == <<"header", m>>
  <2>2. e[1] = "header" /\ e[2] = m /\ unsent' = Append(unsent, e)
    BY <1>4
  <2>2a. unsent \in Seq(Kinds \X Message)
    BY <1>4
  <2> HIDE DEF e
  <2>3. \A l : PostOf(l, half, Append(unsent, e)) =
                PostOf(l, half, unsent) \cup (IF e[1] = "header" /\ e[2].arg0 = l THEN {Item(n, e[2])} ELSE {})
    BY <2>2a, PostWritten, Zenon
  <2>5. \A l : Post(l)' = PostOf(l, half, Append(unsent, e)) /\ Post(l) = PostOf(l, half, unsent)
    BY <2>1, <2>2 DEF Post, PostOf
  <2> HIDE DEF Post
  <2> QED BY <1>6, <2>2, <2>3, <2>5
<1>8. Hands' = Hands /\ arriving' = arriving
  <2>1. task'[t] = y /\ \A u \in Tasks \ {t} : task'[u] = task[u]
    BY <1>2, <1>4, TaskBecomes
  <2>2. task[t].at # "data" /\ y.at # "data"
    BY <1>3, <1>5
  <2> HIDE DEF y, x
  <2>3. Hands' = Hands
    BY <2>1, <2>2 DEF Hands
  <2> QED BY <1>1, <2>3
<1>9. \A l \in Lids : Line(l)' = Line(l) /\ Queued(l)' = Queued(l) /\ Reaches(Line(l), Line(l))
  BY <1>1, <1>8, StreamTypes, MovedReaches DEF Line, Queued
<1>10. /\ LidOK(own, dev[own], Line(own), Post(own), received[own], local_id)
       /\ ReaderOK(own, x, dev[own], Line(own), Post(own), received[own], own \notin lossy, Queued(own))
  BY <1>2, StreamTypes, ReaderHas DEF StreamInv
<1> DEFINE v == Item(n, m)
           Q == Post(own) \cup {v}
<1>11. v.cmd = m.cmd /\ v.pos = n
  BY DEF Item
<1> HIDE DEF m, n, own, v
<1>12. LidOK(own, dev[own], Line(own), Q, received[own], local_id)
  <2>1. ~(own > local_id)
    BY <1>2, OwnLid, StreamTypes DEF LInv, RestPart, Lids
  <2>2. StreamFacts(dev[own], Line(own), Post(own))
    BY <1>10 DEF LidOK
  <2>3. CASE x.step = "open"
    <3>1. Unopened(dev[own], Line(own), Post(own), received[own])
      BY <1>3, <1>10, <2>3 DEF ReaderOK, Unwritten
    <3> QED BY <2>1, <2>2, <3>1 DEF LidOK, StreamFacts, Unopened, Some
  <2>4. CASE x.step # "open"
    <3>1. v.cmd # "OPEN"
      BY <1>1, <1>6a, <1>11, <2>4 DEF Sends
    <3> QED BY <2>1, <2>2, <3>1 DEF LidOK, StreamFacts, Some
  <2> QED BY <2>3, <2>4
<1>13. ReaderOK(own, y, dev[own], Line(own), Q, received[own], own \notin lossy, Queued(own))
  <2>1. CASE x.step \in {"open", "request", "okay"}
    <3>1. Reading(own, x, dev[own], Line(own), Post(own), received[own], own \notin lossy)
      BY <1>10, <2>1 DEF ReaderOK, Wanting, Early
    <3>2. Reading(own, y, dev[own], Line(own), Q, received[own], own \notin lossy)
      <4> HIDE DEF x
      <4>1. Unwritten(x)
        BY <1>3 DEF Unwritten
      <4> QED BY <1>2, <1>5, <2>1, <3>1, <4>1, WritesReading DEF m, v
    <3> HIDE DEF y
    <3> QED BY <1>5, <2>1, <3>2 DEF ReaderOK
  <2>2. CASE x.step = "reclose"
    <3> HIDE DEF y
    <3> QED BY <1>5, <1>10, <2>2 DEF ReaderOK, Wanting, Early
  <2>3. CASE x.step = "clse"
    <3> HIDE DEF y
    <3> QED BY <1>5, <2>3, PassiveReaderOK DEF Passive, Wanting, Early
  <2> QED BY <1>1, <2>1, <2>2, <2>3 DEF Sends
<1>14. OwnersOK' /\ \A l \in Lids : StreamInv(l)'
  <2> HIDE DEF y
  <2>1. \A l \in Lids \ {task[t].lid} :
          /\ received[l]' = received[l] /\ Post(l)' = Post(l) /\ Reaches(Line(l), Line(l)')
          /\ Queued(l)' = Queued(l) \/ lock = t
    BY <1>1, <1>7, <1>9 DEF own
  <2>2. ASSUME NEW l \in Lids, l = task[t].lid
        PROVE  /\ LidOK(l, dev[l], Line(l)', Post(l)', received[l]', local_id)
               /\ y.lid = l =>
                    ReaderOK(l, y, dev[l], Line(l)', Post(l)', received[l]', l \notin lossy, Queued(l)')
    <3>1. l = own
      BY <2>2 DEF own
    <3>2. Line(l)' = Line(l) /\ Queued(l)' = Queued(l) /\ Post(l)' = Q
      <4>1. Line(l)' = Line(l) /\ Queued(l)' = Queued(l)
        BY <1>9
      <4> HIDE DEF x
      <4>2. Post(l)' = Q
        BY <1>7, <3>1 DEF v, Q
      <4> QED BY <4>1, <4>2
    <3>3. received[l]' = received[l]
      BY <1>1
    <3> HIDE DEF Q
    <3> QED BY <1>12, <1>13, <3>1, <3>2, <3>3
  <2>3. y.lid \in {0, task[t].lid} /\ local_id' = local_id /\ dev' = dev /\ lossy' = lossy
    BY <1>1, <1>5 DEF own
  <2> QED BY <1>4, <2>1, <2>2, <2>3, TaskKeeps
<1>15. WireOK' /\ PacketsOK'
  BY <1>1, <1>4, <1>5, QuietRest
<1> QED BY <1>14, <1>15 DEF DRest

LEMMA DSendData ==
  ASSUME DInv, NEW t \in Tasks, SendData(t)
  PROVE  DRest'
<1> DEFINE x == task[t]
           z == [x EXCEPT !.part = "data"]
           y == [z EXCEPT !.at = "drain"]
           e == <<"data", MessageOf(z)>>
<1>1. /\ x.at = "drain" /\ Write(t, z) /\ LInv /\ x \in Task
      /\ UNCHANGED <<dev, half, store, received, lossy, arriving, conn, local_id>>
  BY OwnLid DEF SendData, Resumes, ghosts
<1>2. Continue(t, y) /\ unsent' = Append(unsent, e) /\ unsent \in Seq(Kinds \X Message) /\ e[1] = "data"
  BY <1>1 DEF Write, LInv, WirePart, Task, Kinds
<1>3. /\ y.at = "drain" /\ y.step = x.step /\ y.op = x.op /\ y.rid = x.rid /\ y.pkt = x.pkt
      /\ y.lid = x.lid
  BY <1>1 DEF Task, Kinds
<1> HIDE DEF x, y, e
<1>4. SameReader(x, y) /\ y.at \notin {"header", "data"}
  BY <1>1, <1>3 DEF SameReader, Held, Unwritten
<1>5. \A l \in Lids : Post(l)' = Post(l)
  <2>1. \A l : PostOf(l, half, Append(unsent, e)) =
                PostOf(l, half, unsent) \cup (IF e[1] = "header" /\ e[2].arg0 = l THEN {Item(Len(unsent) + 1, e[2])} ELSE {})
    <3>1. unsent \in Seq(Kinds \X Message)
      BY <1>2
    <3> QED BY <3>1, PostWritten, Zenon
  <2>2. \A l : PostOf(l, half, Append(unsent, e)) = PostOf(l, half, unsent)
    BY <1>2, <2>1
  <2>3. unsent' = Append(unsent, e) /\ half' = half
    BY <1>1, <1>2
  <2> QED BY <2>2, <2>3 DEF Post
<1>6. Hands' = Hands /\ arriving' = arriving
  <2>1. task'[t] = y /\ \A u \in Tasks \ {t} : task'[u] = task[u]
    BY <1>1, <1>2, TaskBecomes
  <2> QED BY <1>1, <1>3, <2>1 DEF Hands, x
<1>7. \A l \in Lids : /\ Line(l)' = Line(l) /\ Queued(l)' = Queued(l) /\ Reaches(Line(l), Line(l))
                      /\ StreamInv(l)
  BY <1>1, <1>6, StreamTypes, MovedReaches DEF Line, Queued
<1>8. \A l \in Lids \ {task[t].lid} :
        /\ received[l]' = received[l] /\ Post(l)' = Post(l) /\ Reaches(Line(l), Line(l)')
        /\ Queued(l)' = Queued(l) \/ lock = t
  BY <1>1, <1>5, <1>7
<1>9. ASSUME NEW l \in Lids, l = task[t].lid
      PROVE  /\ LidOK(l, dev[l], Line(l)', Post(l)', received[l]', local_id)
             /\ y.lid = l =>
                  ReaderOK(l, y, dev[l], Line(l)', Post(l)', received[l]', l \notin lossy, Queued(l)')
  <2>1. /\ LidOK(l, dev[l], Line(l), Post(l), received[l], local_id)
        /\ ReaderOK(l, x, dev[l], Line(l), Post(l), received[l], l \notin lossy, Queued(l))
    BY <1>7, <1>9 DEF StreamInv, x
  <2>2. ReaderOK(l, y, dev[l], Line(l), Post(l), received[l], l \notin lossy, Queued(l))
    BY <1>4, <2>1, SameReaderOK
  <2> QED BY <1>1, <1>5, <1>7, <2>1, <2>2
<1>10. OwnersOK' /\ \A l \in Lids : StreamInv(l)'
  <2>1. y.lid \in {0, task[t].lid} /\ local_id' = local_id /\ dev' = dev /\ lossy' = lossy
    BY <1>1, <1>3 DEF x
  <2> QED BY <1>2, <1>8, <1>9, <2>1, TaskKeeps
<1>11. WireOK' /\ PacketsOK'
  BY <1>1, <1>2, <1>4, QuietRest
<1> QED BY <1>10, <1>11 DEF DRest
-----------------------------------------------------------------------------
(* What the store holds for a reader.                                      *)

LEMMA KeyIs ==
  ASSUME NEW l \in Lids
  PROVE  /\ Key(l)[1] = DevId(l) /\ Key(l)[2] = l /\ Key(l) = <<DevId(l), l>>
         /\ DevId(l) # 0 /\ l # 0 /\ l # None /\ DevId(l) # None /\ DevId(l) \in Nat /\ l \in Nat
BY NoneIsNoId, TasksAssumption DEF Key, DevId, Lids

(* A search of a reader finds the packets of its stream and no others.     *)
LEMMA MatchKey ==
  ASSUME DInv, NEW t \in Tasks, task[t].step \in Reads, NEW k \in Matches(task[t])
  PROVE  k = Key(task[t].lid) /\ k \in DOMAIN store /\ Queued(task[t].lid) = store[k] /\ store[k] # <<>>
<1> DEFINE x == task[t]
           l == x.lid
<1>1. k \in DOMAIN store /\ store[k] # <<>>
  BY MatchesHit
<1>2. l \in Lids
  BY OwnLid
<1>3. PICK j \in Lids : k = Key(j)
  BY <1>1 DEF DInv, PacketsOK
<1>4. j = l
  <2>1. \E a, b : k \in Find(store, a, b) /\ b \in {0, l}
    BY FindAllowZerosFrom DEF Matches
  <2>2. PICK a, b : k \in Find(store, a, b) /\ b \in {0, l}
    BY <2>1
  <2>3. b \in {None, k[2]}
    BY <2>2 DEF Find
  <2> QED BY <1>2, <1>3, <2>2, <2>3, KeyIs, NoneIsNoId
<1>5. Queued(l) = store[k]
  BY <1>1, <1>3, <1>4 DEF Queued, QueueOf
<1> QED BY <1>1, <1>3, <1>4, <1>5

(* If it finds nothing then nothing of the stream is in the store.         *)
LEMMA NoMatch ==
  ASSUME DInv, NEW t \in Tasks, task[t].step \in Reads \ {"clsed"}, Matches(task[t]) = {}
  PROVE  Queued(task[t].lid) = <<>>
<1> DEFINE x == task[t]
           l == x.lid
           k == Key(l)
<1>1. l \in Lids /\ x.step \in Wanting
  BY OwnLid DEF Reads, Wanting, Early
<1>2. KnowsStream(l, x, dev[l])
  BY <1>1, ReaderHas DEF ReaderOK, Reading
<1>3. x.rid \in {None, DevId(l)} /\ (x.step # "opened" => x.rid = DevId(l))
  BY <1>2 DEF KnowsStream, Reads
<1> SUFFICES ASSUME k \in DOMAIN store, store[k] # <<>> PROVE FALSE
  BY DEF Queued, QueueOf
<1>4. k \in Find(store, x.rid, l)
  BY <1>1, <1>3, KeyIs DEF Find
<1>5. Matches(x) # {}
  BY <1>4, FindAllowZerosFrom DEF Matches
<1> QED BY <1>5

(* A packet that is read is for the reader if it is of its stream.         *)
LEMMA ArgsAreOfStream ==
  ASSUME DInv, NEW t \in Tasks, task[t].step \in Reads, NEW p, FromDevice(p),
         NEW x, x.lid = task[t].lid, x.step = task[t].step, x.rid = task[t].rid
  PROVE  /\ args_match(x, p) => p.arg1 = x.lid
         /\ x.step # "clsed" /\ p.arg1 = x.lid => args_match(x, p)
<1> DEFINE l == task[t].lid
<1>1. l \in Lids /\ p.arg1 \in Lids /\ (x.step # "clsed" => x.step \in Wanting)
  BY OwnLid DEF FromDevice, Reads, Wanting, Early
<1>2. x.step # "clsed" => KnowsStream(l, task[t], dev[l])
  BY <1>1, ReaderHas DEF ReaderOK, Reading
<1>3. /\ x.step = "opened" => x.rid = None
      /\ x.step \notin {"opened", "clsed"} => x.rid = DevId(l)
  BY <1>2 DEF KnowsStream, Reads
<1>4. p.arg1 # 0
  BY <1>1, KeyIs
<1>5. args_match(x, p) => p.arg1 = x.lid
  BY <1>4 DEF args_match
<1>6. ASSUME x.step # "clsed", p.arg1 = x.lid PROVE args_match(x, p)
  BY <1>3, <1>6 DEF args_match, AllowZeros, FromDevice
<1> QED BY <1>5, <1>6

(* What a packet that is put does to the queues of the streams.            *)
LEMMA PutQueues ==
  ASSUME DInv, NEW p, FromDevice(p), store' = Put(store, <<p.arg0, p.arg1>>, p.cmd, p.data)
  PROVE  /\ \A l \in Lids : l # p.arg1 => Queued(l)' = Queued(l)
         /\ \A l \in Lids : l = p.arg1 =>
              \/ Queued(l)' = Append(Queued(l), [cmd |-> p.cmd, data |-> p.data])
              \/ Queued(l)' = Queued(l) /\ p.cmd = "CLSE"
         /\ \A k \in DOMAIN store' : \E l \in Lids : k = Key(l)
<1> DEFINE k == <<p.arg0, p.arg1>>
           e == [cmd |-> p.cmd, data |-> p.data]
           a == p.arg1
<1>1. a \in Lids /\ (p.arg0 = DevId(a) \/ (p.arg0 = 0 /\ p.cmd = "CLSE"))
  BY DEF FromDevice
<1>2. \A j \in DOMAIN store : \E l \in Lids : j = Key(l)
  BY DEF DInv, PacketsOK
<1>3. CASE p.cmd = "CLSE" /\ k \notin DOMAIN store
  <2>1. store' = store
    BY <1>3 DEF Put
  <2> QED BY <1>1, <1>2, <1>3, <2>1 DEF Queued
<1>4. CASE ~(p.cmd = "CLSE" /\ k \notin DOMAIN store)
  <2>1. store' = Enqueue(store, k, p.cmd, p.data)
    BY <1>4 DEF Put
  <2>2. k = Key(a)
    <3>1. CASE p.arg0 = DevId(a)
      BY <3>1 DEF Key
    <3>2. CASE p.arg0 = 0 /\ p.cmd = "CLSE"
      <4>1. PICK j \in Lids : k = Key(j)
        BY <1>2, <1>4, <3>2
      <4> QED BY <3>2, <4>1, KeyIs
    <3> QED BY <1>1, <3>1, <3>2
  <2>3. DOMAIN store' = DOMAIN store \cup {k}
    BY <2>1 DEF Enqueue
  <2>4. \A l \in Lids : l # a => Key(l) # k
    BY <1>1, <2>2, KeyIs
  <2> HIDE DEF k, a
  <2>5. \A l \in Lids : l # a => Queued(l)' = Queued(l)
    BY <2>1, <2>4 DEF Enqueue, Queued, QueueOf
  <2>6. \A l \in Lids : l = a => Queued(l)' = Append(Queued(l), e)
    BY <2>1, <2>2 DEF Enqueue, Queued, QueueOf
  <2> USE DEF k, a
  <2> QED BY <1>1, <1>2, <2>2, <2>3, <2>5, <2>6
<1> QED BY <1>3, <1>4

(* And one that clears a queue.                                            *)
LEMMA ClearedQueues ==
  ASSUME DInv, NEW p, store' = Clear(store, <<p.arg0, p.arg1>>) \/ store' = store
  PROVE  /\ \A l \in Lids : l # p.arg1 => Queued(l)' = Queued(l)
         /\ \A l \in Lids : Queued(l)' \in {<<>>, Queued(l)}
         /\ \A k \in DOMAIN store' : \E l \in Lids : k = Key(l)
<1>1. \A j \in DOMAIN store : \E l \in Lids : j = Key(l)
  BY DEF DInv, PacketsOK
<1>2. CASE store' = store
  BY <1>1, <1>2 DEF Queued
<1>3. CASE store' = Clear(store, <<p.arg0, p.arg1>>)
  <2> DEFINE k == <<p.arg0, p.arg1>>
  <2>1. \A l \in Lids : l # p.arg1 => Key(l) # k
    BY KeyIs
  <2>c. store' = Clear(store, k)
    BY <1>3
  <2> HIDE DEF k
  <2>2. /\ DOMAIN store' = DOMAIN store \ {k}
        /\ QueueOf(store', k) = <<>>
        /\ \A j : j # k => QueueOf(store', j) = QueueOf(store, j)
    BY <2>c, ClearQueues
  <2>3. \A l \in Lids : Queued(l)' = QueueOf(store', Key(l)) /\ Queued(l) = QueueOf(store, Key(l))
    BY DEF Queued
  <2> HIDE DEF Queued, Key
  <2>4. \A l \in Lids : l # p.arg1 => Queued(l)' = Queued(l)
    <3> SUFFICES ASSUME NEW l \in Lids, l # p.arg1 PROVE Queued(l)' = Queued(l)
      OBVIOUS
    <3>1. Key(l) # k
      BY <2>1
    <3>2. QueueOf(store', Key(l)) = QueueOf(store, Key(l))
      BY <2>2, <3>1
    <3> QED BY <2>3, <3>2
  <2>5. \A l \in Lids : Queued(l)' \in {<<>>, Queued(l)}
    BY <2>2, <2>3
  <2> QED BY <1>1, <2>2, <2>4, <2>5
<1> QED BY <1>2, <1>3
-----------------------------------------------------------------------------
(* The first packet of a stream is taken for its reader.                   *)

LEMMA ReadsAre == Reads \ {"clsed"} = {"opened", "flush", "filesync", "stream"}
BY DEF Reads

(* A task that read has a packet for, and what it does with it.            *)
After(x, p, here) == IF p.cmd \in Expected(x.step) THEN Returned(x, p) ELSE [x EXCEPT !.at = here]

LEMMA TakenReaderOK ==
  ASSUME NEW l, NEW x, NEW d, NEW P, NEW r, NEW whole, NEW S, NEW v, NEW T, NEW p,
         TakenFor(l, x, d, S, P, r, whole, v, T, p), NEW here \in {"fast", "locked", "acquire"}
  PROVE  LET y == After(x, p, here) IN
         (\A q : ReaderOK(l, y, d, T, P, r, whole, q)) /\ y.lid = x.lid /\ y.at # "data"
<1> DEFINE y == After(x, p, here)
<1> USE DEF TakenFor, After
<1>1. x.step \in {"opened", "flush", "filesync", "stream"}
  OBVIOUS
<1>2. CASE p.cmd \in Expected(x.step)
  <2>1. y = Returned(x, p)
    BY <1>2
  <2> DEFINE z == Returned(x, p)
  <2>2. /\ z.lid = x.lid /\ z.at \in {"fast", "acquire"}
        /\ z.step \in Wanting => Reading(l, z, d, T, P, r, whole)
        /\ z.step = "reclose" => ToldOfEnd(l, d, r, whole)
        /\ z.step \in {"reclose", "stream", "request", "filesync", "okay"}
    <3> HIDE DEF TakenFor, After
    <3> QED BY <1>2, UsesFirst
  <2> HIDE DEF z
  <2> QED BY <2>1, <2>2 DEF ReaderOK, z
<1>3. CASE p.cmd \notin Expected(x.step)
  <2>1. /\ y.at = here /\ y.step = x.step /\ y.op = x.op /\ y.rid = x.rid /\ y.pkt = x.pkt
        /\ y.lid = x.lid
    BY <1>3 DEF Task
  <2>2. v.cmd \in {"OKAY", "WRTE", "CLSE"}
    BY DEF Packet
  <2>3. Reading(l, x, d, T, P, r, whole)
    BY <1>1, <1>3, <2>2, DropsFirst
  <2>4. SameReader(x, y)
    BY <1>1, <2>1 DEF SameReader, Held, Unwritten
  <2>5. Reading(l, y, d, T, P, r, whole)
    BY <2>3, <2>4, SameReading
  <2> QED BY <1>1, <2>1, <2>5 DEF ReaderOK
<1> QED BY <1>2, <1>3

(* One that answers a _clse, or is not for it.                             *)
LEMMA ClsedPassive ==
  ASSUME NEW x \in Task, x.step = "clsed", NEW p, NEW here \in {"fast", "locked", "acquire"}
  PROVE  LET y == After(x, p, here) IN Passive(y) /\ y.lid \in {0, x.lid} /\ y.at # "data"
<1> DEFINE y == After(x, p, here)
<1>1. CASE p.cmd \in Expected(x.step)
  <2>1. y = IdleTask
    BY <1>1 DEF After, Returned
  <2> QED BY <2>1, IdlePassive
<1>2. CASE p.cmd \notin Expected(x.step)
  <2>1. y.at = here /\ y.step = x.step /\ y.lid = x.lid
    BY <1>2 DEF After, Task
  <2> QED BY <2>1 DEF Passive, Wanting, Early
<1> QED BY <1>1, <1>2

LEMMA DTakeStored ==
  ASSUME DInv, NEW t \in Tasks, task[t].step \in Reads, task[t].at # "data",
         NEW here \in {"fast", "locked"}, TakeStored(t, here),
         UNCHANGED <<dev, half, unsent, received, lossy, arriving, conn, local_id>>
  PROVE  DRest'
<1> DEFINE x == task[t]
           own == task[t].lid
<1>1. PICK k \in Matches(x) :
        LET q == PacketAt(store, k)
            p == Msg(q.cmd, k[1], k[2], q.data)
        IN  /\ store' = AfterGet(store, k)
            /\ Continue(t, IF p.cmd \in Expected(x.step) THEN Returned(x, p) ELSE [x EXCEPT !.at = here])
  BY DEF TakeStored
<1> DEFINE e == Head(store[k])
           p == Msg(e.cmd, k[1], k[2], e.data)
           y == IF p.cmd \in Expected(x.step) THEN Returned(x, p) ELSE [x EXCEPT !.at = here]
           v == Item(- Len(store[k]), e)
           z == IF e.cmd = "CLSE" THEN <<>> ELSE Tail(store[k])
           T == LineOf(own, z, Hands, arriving)
<1>2. store' = AfterGet(store, k) /\ Continue(t, y)
  BY <1>1 DEF PacketAt
<1>3. k = Key(own) /\ k \in DOMAIN store /\ Queued(own) = store[k] /\ store[k] # <<>>
  BY MatchKey
<1>4. own \in Lids /\ x \in Task /\ own <= local_id /\ LInv /\ WireOK /\ PacketsOK
  BY OwnLid DEF DInv
<1>5. store[k] \in Seq(WholeStored) /\ e \in WholeStored
  <2>1. store[k] \in Seq(WholeStored)
    BY <1>3, <1>4 DEF LInv, StorePart, IsStore
  <2> QED BY <1>3, <2>1
<1>6. p \in Packet /\ p.cmd = e.cmd /\ p.data = e.data /\ p.arg0 = DevId(own)
  <2>1. k[1] = DevId(own) /\ k[1] \in Nat /\ k[2] \in Lids
    BY <1>3, <1>4, KeyIs
  <2> HIDE DEF e
  <2> QED BY <1>5, <2>1 DEF Msg, Packet, WholeStored, Stored
<1>7. v.cmd = e.cmd /\ v.data = e.data
  BY DEF Item
<1>8. \A l \in Lids : (l = own => Queued(l)' = z) /\ (l # own => Queued(l)' = Queued(l))
  <2>1. QueueOf(store', k) = z /\ \A j : j # k => QueueOf(store', j) = QueueOf(store, j)
    BY <1>2, <1>3, GetQueues
  <2>2. \A l \in Lids : Queued(l)' = QueueOf(store', Key(l)) /\ Queued(l) = QueueOf(store, Key(l))
    BY DEF Queued
  <2>3. \A l \in Lids : l # own => Key(l) # k
    BY <1>3, <1>4, KeyIs
  <2> HIDE DEF z, own, Queued, Key
  <2>4. \A l \in Lids : l # own => Queued(l)' = Queued(l)
    <3> SUFFICES ASSUME NEW l \in Lids, l # own PROVE Queued(l)' = Queued(l)
      OBVIOUS
    <3>1. Key(l) # k
      BY <2>3
    <3>2. QueueOf(store', Key(l)) = QueueOf(store, Key(l))
      BY <2>1, <3>1
    <3> QED BY <2>2, <3>2
  <2>5. \A l \in Lids : l = own => Queued(l)' = z
    BY <1>3, <2>1, <2>2
  <2> QED BY <2>4, <2>5
<1>9. TakesFirst(Line(own), v, T)
  <2>1. Len(arriving) \in Nat
    BY <1>4, StreamTypes
  <2> DEFINE q == store[k]
             H == Hands
             w == arriving
  <2>2. q \in Seq(WholeStored) /\ q # <<>> /\ Len(w) \in Nat
    BY <1>3, <1>5, <2>1
  <2>3. Line(own) = LineOf(own, q, H, w)
    BY <1>3 DEF Line
  <2> HIDE DEF q, H, w
  <2>4. TakesFirst(LineOf(own, q, H, w), Item(- Len(q), Head(q)),
                   LineOf(own, IF Head(q).cmd = "CLSE" THEN <<>> ELSE Tail(q), H, w))
    BY <2>2, StoredTaken
  <2> QED BY <2>3, <2>4 DEF q, H, w
<1>10. /\ LidOK(own, dev[own], Line(own), Post(own), received[own], local_id)
       /\ ReaderOK(own, x, dev[own], Line(own), Post(own), received[own], own \notin lossy, Queued(own))
       /\ Placed(Line(own)) /\ Len(received[own]) \in Nat
  BY <1>4, StreamTypes, ReaderHas DEF StreamInv
<1>11. LidOK(own, dev[own], T, Post(own), received[own], local_id)
  <2>1. \A w \in T : w \in Line(own)
    BY <1>9 DEF TakesFirst
  <2> HIDE DEF T, own
  <2> QED BY <1>10, <2>1, LessFacts
<1>12. /\ y.lid \in {0, own} /\ y.at # "data"
       /\ ReaderOK(own, y, dev[own], T, Post(own), received[own], own \notin lossy, z)
  <2>1. y = After(x, p, here)
    BY DEF After
  <2>2. here \in {"fast", "locked", "acquire"} /\ x.lid = own
    OBVIOUS
  <2> HIDE DEF x, y, own, T, v, p, z, e
  <2>3. CASE x.step = "clsed"
    <3>1. Passive(y) /\ y.lid \in {0, x.lid} /\ y.at # "data"
      BY <1>4, <2>1, <2>2, <2>3, ClsedPassive
    <3> QED BY <2>2, <3>1, PassiveReaderOK
  <2>4. CASE x.step # "clsed"
    <3>1. x.step \in Reads \ {"clsed"}
      BY <2>4 DEF x
    <3>2. Reading(own, x, dev[own], Line(own), Post(own), received[own], own \notin lossy)
      BY <1>10, <3>1, ReadsAre DEF ReaderOK, Wanting, Early
    <3>3. StreamFacts(dev[own], Line(own), Post(own))
      BY <1>10 DEF LidOK
    <3>4. ReaderOK(own, y, dev[own], T, Post(own), received[own], own \notin lossy, z) /\ y.lid = x.lid /\ y.at # "data"
      <4> DEFINE S == Line(own)
                 P == Post(own)
                 r == received[own]
                 d == dev[own]
                 whole == own \notin lossy
      <4>1. /\ TakesFirst(S, v, T) /\ Placed(S) /\ Reading(own, x, d, S, P, r, whole)
            /\ StreamFacts(d, S, P) /\ Len(r) \in Nat
        BY <1>9, <1>10, <3>2, <3>3
      <4>2. p \in Packet /\ p.cmd = v.cmd /\ p.data = v.data /\ (p.cmd # "CLSE" => p.arg0 = DevId(own))
        BY <1>6, <1>7
      <4> HIDE DEF S, P, r, d, whole
      <4>3. TakenFor(own, x, d, S, P, r, whole, v, T, p)
        BY <1>4, <3>1, <4>1, <4>2, ReadsAre DEF TakenFor
      <4>4. ReaderOK(own, y, d, T, P, r, whole, z) /\ y.lid = x.lid /\ y.at # "data"
        BY <2>1, <2>2, <4>3, TakenReaderOK
      <4> QED BY <4>4 DEF S, P, r, d, whole
    <3> QED BY <2>2, <3>4
  <2> QED BY <2>3, <2>4
<1> HIDE DEF y
<1>13. task'[t] = y /\ \A u \in Tasks \ {t} : task'[u] = task[u]
  BY <1>2, <1>4, TaskBecomes
<1>14. Hands' = Hands /\ arriving' = arriving
  BY <1>12, <1>13 DEF Hands
<1>15. ASSUME NEW l \in Lids
       PROVE  /\ l # own => Line(l)' = Line(l) /\ Reaches(Line(l), Line(l)')
              /\ l = own => Line(l)' = T
  <2> HIDE DEF T, z, own, x
  <2>1. l # own => Line(l)' = Line(l)
    BY <1>8, <1>14 DEF Line
  <2>2. l = own => Line(l)' = T
    BY <1>8, <1>14 DEF Line, T
  <2> QED BY <2>1, <2>2, StreamTypes, MovedReaches
<1>16. OwnersOK' /\ \A l \in Lids : StreamInv(l)'
  <2>1. \A l \in Lids \ {task[t].lid} :
          /\ received[l]' = received[l] /\ Post(l)' = Post(l) /\ Reaches(Line(l), Line(l)')
          /\ Queued(l)' = Queued(l) \/ lock = t
    BY <1>8, <1>15 DEF Post
  <2>2. ASSUME NEW l \in Lids, l = task[t].lid
        PROVE  /\ LidOK(l, dev[l], Line(l)', Post(l)', received[l]', local_id)
               /\ y.lid = l =>
                    ReaderOK(l, y, dev[l], Line(l)', Post(l)', received[l]', l \notin lossy, Queued(l)')
    <3>1. Post(l)' = Post(l) /\ received[l]' = received[l]
      BY DEF Post
    <3>2. Line(l)' = T /\ Queued(l)' = z /\ l = own
      BY <1>8, <1>15, <2>2
    <3> HIDE DEF T, z, own
    <3> QED BY <1>11, <1>12, <3>1, <3>2
  <2>3. y.lid \in {0, task[t].lid} /\ local_id' = local_id /\ dev' = dev /\ lossy' = lossy
    BY <1>12
  <2> QED BY <1>2, <2>1, <2>2, <2>3, TaskKeeps
<1>17. WireOK' /\ PacketsOK'
  <2>1. \A u \in Tasks : task'[u].at = "data" => task[u].at = "data" /\ task'[u] = task[u]
    BY <1>12, <1>13
  <2>2. WireOK'
    BY <1>4, <2>1 DEF WireOK
  <2>3. DOMAIN store' \subseteq DOMAIN store
    BY <1>2, <1>3, GetQueues
  <2> QED BY <1>4, <2>1, <2>2, <2>3 DEF PacketsOK, FromDevice
<1> QED BY <1>16, <1>17 DEF DRest

LEMMA DReadStore ==
  ASSUME DInv, NEW t \in Tasks, ReadStore(t)
  PROVE  DRest'
<1>1. /\ task[t].at = "fast" /\ TakeStored(t, "fast")
      /\ UNCHANGED <<dev, half, unsent, received, lossy, arriving, conn, local_id>>
  BY DEF ReadStore, Has, wireVars, ghosts
<1>2. task[t].step \in Reads
  BY <1>1, OwnLid DEF TaskOK
<1> QED BY <1>1, <1>2, DTakeStored

LEMMA DRecheckStore ==
  ASSUME DInv, NEW t \in Tasks, RecheckStore(t)
  PROVE  DRest'
<1> DEFINE x == task[t]
           y == [x EXCEPT !.at = "header"]
           l == x.lid
<1>1. /\ x.step \in Reads /\ x.at \in {"acquire", "fast", "queue", "locked"}
      /\ UNCHANGED <<dev, half, unsent, received, lossy, arriving, conn, local_id>>
      /\ TakeStored(t, "locked") \/ (Matches(x) = {} /\ UNCHANGED store /\ Continue(t, y))
  BY DEF RecheckStore, Enters, AtLock, Has, Resumes, wireVars, ghosts
<1>2. CASE TakeStored(t, "locked")
  BY <1>1, <1>2, DTakeStored
<1>3. CASE Matches(x) = {} /\ UNCHANGED store /\ Continue(t, y)
  <2>1. x \in Task /\ l \in Lids
    BY <1>1, OwnLid
  <2>2. ReaderOK(l, x, dev[l], Line(l), Post(l), received[l], l \notin lossy, Queued(l))
    BY <2>1, ReaderHas
  <2>3. x.step # "clsed" => Queued(l) = <<>>
    BY <1>1, <1>3, NoMatch
  <2> HIDE DEF x
  <2>4. /\ y.at = "header" /\ y.step = x.step /\ y.op = x.op /\ y.rid = x.rid /\ y.pkt = x.pkt
        /\ y.lid = x.lid
    BY <2>1 DEF Task, Inside, MayPause
  <2> HIDE DEF y
  <2>5. ReaderOK(l, y, dev[l], Line(l), Post(l), received[l], l \notin lossy, Queued(l))
    <3>1. CASE x.step = "clsed"
      BY <2>4, <3>1, PassiveReaderOK DEF Passive, Wanting, Early
    <3>2. CASE x.step # "clsed"
      <4>1. SameReader(x, y)
        BY <1>1, <2>4 DEF SameReader, Held, Unwritten, Reads
      <4> HIDE DEF l
      <4> QED BY <2>2, <2>3, <3>2, <4>1, SameReaderOK
    <3> QED BY <3>1, <3>2
  <2> USE DEF x
  <2> QED BY <1>1, <1>3, <2>4, <2>5, QuietKeeps
<1> QED BY <1>1, <1>2, <1>3
-----------------------------------------------------------------------------
(* What is read is put into the store, returned or dropped.                *)

LEMMA LineWithin ==
  ASSUME NEW l, NEW q, NEW z, z \in {<<>>, q}, NEW H, NEW w
  PROVE  \A v \in LineOf(l, z, {}, w) : v \in LineOf(l, q, H, w)
<1>1. InQueue(<<>>) = {}
  BY DEF InQueue
<1> QED BY <1>1 DEF LineOf, AtHand

(* The lines after the packet p, read for the task t, is put away; the     *)
(* rest of the wire is w.                                                  *)
LineLeft(l, w) == LineOf(l, Queued(l)', {}, w)
LineWith(l, p, w) == LineOf(l, Queued(l), {p}, w)

LEMMA OthersDispatched ==
  ASSUME DInv, NEW p \in WholePacket, FromDevice(p), NEW w, Len(w) \in Nat, NEW l \in Lids,
         Moved(Line(l), LineWith(l, p, w)),
         \/ l # p.arg1 /\ Queued(l)' = Queued(l)
         \/ l = p.arg1 /\ Queued(l)' = Append(Queued(l), [cmd |-> p.cmd, data |-> p.data])
         \/ l = p.arg1 /\ Queued(l)' = Queued(l) /\ p.cmd = "CLSE"
  PROVE  Reaches(Line(l), LineLeft(l, w))
<1> DEFINE q == Queued(l)
           e == [cmd |-> p.cmd, data |-> p.data]
<1>1. q \in Seq(WholeStored) /\ Len(q) \in Nat /\ Placed(Line(l))
  BY StreamTypes
<1>2. e \in WholeStored /\ e.cmd = p.cmd /\ e.data = p.data
  BY DEF WholePacket, Packet, WholeStored, Stored
<1>3. CASE l # p.arg1 /\ Queued(l)' = Queued(l)
  <2>1. LineLeft(l, w) = LineWith(l, p, w)
    BY <1>3, NotInLine DEF LineLeft, LineWith
  <2> QED BY <1>1, <2>1, MovedReaches
<1>4. CASE l = p.arg1 /\ Queued(l)' = Append(Queued(l), [cmd |-> p.cmd, data |-> p.data])
  <2>1. LineLeft(l, w) = LineOf(l, Append(q, e), {}, w) /\ LineWith(l, p, w) = LineOf(l, q, {p}, w)
    BY <1>4 DEF LineLeft, LineWith
  <2> HIDE DEF q, e
  <2>2. Moved(LineOf(l, q, {p}, w), LineOf(l, Append(q, e), {}, w))
    BY <1>1, <1>2, <1>4, PacketStored
  <2> QED BY <2>1, <2>2 DEF Reaches
<1>5. CASE l = p.arg1 /\ Queued(l)' = Queued(l) /\ p.cmd = "CLSE"
  <2>1. LineLeft(l, w) = LineOf(l, q, {}, w) /\ LineWith(l, p, w) = LineOf(l, q, {p}, w)
    BY <1>5 DEF LineLeft, LineWith
  <2> HIDE DEF q
  <2>2. Moved(LineOf(l, q, {p}, w), LineOf(l, q, {}, w))
    BY <1>1, <1>5, CloseDropped
  <2> QED BY <2>1, <2>2 DEF Reaches
<1> QED BY <1>3, <1>4, <1>5

(* The reader's own stream when the packet is of it.                       *)
Emptyhanded(x) == [x EXCEPT !.pkt = None]

OwnRead(t, own, x, p, w, z, y) ==
  /\ t \in Tasks /\ task[t].at \in {"header", "data"} /\ task[t].step \in Reads
  /\ p \in WholePacket /\ FromDevice(p) /\ p.arg1 = task[t].lid
  /\ Len(w) \in Nat /\ x = Emptyhanded(task[t]) /\ own = task[t].lid
  /\ Moved(Line(own), LineWith(own, p, w)) /\ z \in {<<>>, Queued(own)}
  /\ y = After(x, p, "acquire") \/ y = Raised(x)

LEMMA OwnDispatched ==
  ASSUME DInv, NEW t, NEW own, NEW x, NEW p, NEW w, NEW z, NEW y, OwnRead(t, own, x, p, w, z, y)
  PROVE  LET T == LineOf(own, z, {}, w) IN
         /\ y.lid \in {0, own} /\ y.at # "data"
         /\ LidOK(own, dev[own], T, Post(own), received[own], local_id)
         /\ ReaderOK(own, y, dev[own], T, Post(own), received[own], own \notin lossy, z)
<1> DEFINE T == LineOf(own, z, {}, w)
           M == LineWith(own, p, w)
           q == Queued(own)
           S == Line(own)
           P == Post(own)
           r == received[own]
           d == dev[own]
           whole == own \notin lossy
<1>0. /\ t \in Tasks /\ task[t].at \in {"header", "data"} /\ task[t].step \in Reads
      /\ p \in WholePacket /\ FromDevice(p) /\ p.arg1 = task[t].lid
      /\ Len(w) \in Nat /\ x = Emptyhanded(task[t]) /\ own = task[t].lid
      /\ Moved(Line(own), LineWith(own, p, w)) /\ z \in {<<>>, Queued(own)}
      /\ y = After(x, p, "acquire") \/ y = Raised(x)
  BY DEF OwnRead
<1>1. /\ own \in Lids /\ task[t] \in Task /\ x \in Task /\ x.step = task[t].step /\ x.op = task[t].op
      /\ x.rid = task[t].rid /\ x.lid = own /\ x.at = task[t].at
  BY <1>0, OwnLid DEF Task, Emptyhanded
<1>2. /\ LidOK(own, d, S, P, r, local_id)
      /\ ReaderOK(own, task[t], d, S, P, r, whole, q)
      /\ Placed(S) /\ Placed(P) /\ Len(r) \in Nat
  BY <1>0, <1>1, StreamTypes, ReaderHas DEF StreamInv
<1>3. \A v \in T : v \in M
  BY <1>0, LineWithin DEF LineWith
<1>4. Moved(S, M)
  BY <1>0
<1>5. M = LineOf(own, q, {p}, w)
  BY DEF LineWith
<1>6. p \in Packet
  BY <1>0 DEF WholePacket
<1>7. p.cmd # "CLSE" => p.arg0 = DevId(own)
  BY <1>0 DEF FromDevice
<1>8. x.step # "clsed" => q = <<>> /\ z = <<>>
  BY <1>0, <1>1, <1>2 DEF ReaderOK, Reads, Wanting, Early
<1> HIDE DEF T, M, q, S, P, r, d, whole
<1>9. LidOK(own, d, T, P, r, local_id)
  <2>1. Reaches(S, M) /\ Fewer(P, P)
    BY <1>2, <1>4, MovedReaches, SameFewer
  <2>2. LidOK(own, d, M, P, r, local_id)
    BY <1>2, <2>1, ReachedReading
  <2> QED BY <1>3, <2>2, LessFacts
<1>10. CASE y = Raised(x)
  <2>1. y.lid \in {0, own} /\ Passive(y) /\ y.at # "data"
    BY <1>1, <1>10, RaisedPassive
  <2> QED BY <1>9, <2>1, PassiveReaderOK DEF T, M, q, S, P, r, d, whole
<1>11. CASE y = After(x, p, "acquire")
  <2>1. CASE x.step = "clsed"
    <3>1. y.lid \in {0, own} /\ Passive(y) /\ y.at # "data"
      BY <1>1, <1>11, <2>1, ClsedPassive
    <3> QED BY <1>9, <3>1, PassiveReaderOK DEF T, M, q, S, P, r, d, whole
  <2>2. CASE x.step # "clsed"
    <3> DEFINE v == Item(0, p)
    <3>1. TakesFirst(M, v, T)
      <4>1. TakesFirst(LineOf(own, <<>>, {p}, w), v, LineOf(own, <<>>, {}, w))
        BY <1>0, OwnTaken
      <4>2. M = LineOf(own, <<>>, {p}, w) /\ T = LineOf(own, <<>>, {}, w)
        BY <1>5, <1>8, <2>2 DEF T
      <4> QED BY <4>1, <4>2
    <3>2. x.step \in {"opened", "flush", "filesync", "stream"}
      BY <1>0, <1>1, <2>2 DEF Reads
    <3>3. Reading(own, task[t], d, S, P, r, whole) /\ StreamFacts(d, S, P)
      BY <1>1, <1>2, <3>2 DEF ReaderOK, LidOK, Wanting, Early
    <3>4. Reading(own, task[t], d, M, P, r, whole) /\ StreamFacts(d, M, P) /\ Placed(M)
      BY <1>2, <1>4, <3>3, MovedReading
    <3>5. SameReader(task[t], x)
      BY <1>1, <3>2 DEF SameReader, Held, Unwritten
    <3>6. Reading(own, x, d, M, P, r, whole)
      BY <3>4, <3>5, SameReading
    <3>7. v.cmd = p.cmd /\ v.data = p.data
      BY DEF Item
    <3> HIDE DEF v
    <3>8. TakenFor(own, x, d, M, P, r, whole, v, T, p)
      BY <1>1, <1>2, <1>6, <1>7, <3>1, <3>2, <3>4, <3>6, <3>7 DEF TakenFor
    <3>9. ReaderOK(own, y, d, T, P, r, whole, z) /\ y.lid = x.lid /\ y.at # "data"
      <4> DEFINE here == "acquire"
      <4>1. here \in {"fast", "locked", "acquire"} /\ y = After(x, p, here)
        BY <1>11
      <4> HIDE DEF here
      <4> QED BY <3>8, <4>1, TakenReaderOK
    <3> QED BY <1>1, <1>9, <3>9 DEF T, M, q, S, P, r, d, whole
  <2> QED BY <2>1, <2>2
<1> QED BY <1>0, <1>10, <1>11
LEMMA DDispatch ==
  ASSUME DInv, NEW t \in Tasks, task[t].at \in {"header", "data"}, NEW p \in WholePacket, FromDevice(p),
         Dispatch(t, p), UNCHANGED <<dev, half, unsent, received, lossy, conn, local_id>>,
         \A l \in Lids : Moved(Line(l), LineWith(l, p, arriving')),
         Len(arriving') \in Nat, \A i \in 1 .. Len(arriving') : FromDevice(arriving'[i][2])
  PROVE  DRest'
<1>0. PICK own : own = task[t].lid
  OBVIOUS
<1> DEFINE x == Emptyhanded(task[t])
           k == <<p.arg0, p.arg1>>
           w == arriving'
<1>1. /\ LInv /\ lock = t /\ task[t].step \in Reads /\ task[t] \in Task /\ own \in Lids /\ own <= local_id
      /\ task[t].op \in Ops
  <2>1. LInv
    BY OwnLid
  <2> QED BY <1>0, <2>1, ReaderHolds, OwnLid
<1>2. /\ x \in Task /\ x.step = task[t].step /\ x.op = task[t].op
      /\ x.rid = task[t].rid /\ x.lid = own /\ x.at = task[t].at
  BY <1>0, <1>1 DEF Task, Emptyhanded
<1>3. /\ store' = CASE ~args_match(x, p) -> Put(store, k, p.cmd, p.data)
                    [] p.cmd = "CLSE" /\ args_match(x, p) -> Clear(store, k)
                    [] OTHER -> store
      /\ IF args_match(x, p) /\ p.cmd \in Expected(x.step)
         THEN Continue(t, Returned(x, p))
         ELSE Continue(t, [x EXCEPT !.at = "acquire"]) \/ Continue(t, Raised(x))
  BY DEF Dispatch, Emptyhanded
<1>4. /\ args_match(x, p) => p.arg1 = own
      /\ x.step # "clsed" /\ p.arg1 = own => args_match(x, p)
  <2> HIDE DEF x
  <2> QED BY <1>0, <1>1, <1>2, ArgsAreOfStream
<1> HIDE DEF x, k
<1>5. \E y : /\ Continue(t, y) /\ y.lid \in {0, own} /\ y.at # "data"
             /\ \A l \in Lids : l # own => Reaches(Line(l), LineLeft(l, w))
             /\ LidOK(own, dev[own], LineLeft(own, w), Post(own), received[own], local_id)
             /\ ReaderOK(own, y, dev[own], LineLeft(own, w), Post(own), received[own], own \notin lossy, Queued(own)')
             /\ \A j \in DOMAIN store' : \E l \in Lids : j = Key(l)
  <2>1. CASE args_match(x, p)
    <3>1. store' = Clear(store, k) \/ store' = store
      BY <1>3, <2>1
    <3>2. /\ \A l \in Lids : l # p.arg1 => Queued(l)' = Queued(l)
          /\ \A l \in Lids : Queued(l)' \in {<<>>, Queued(l)}
          /\ \A j \in DOMAIN store' : \E l \in Lids : j = Key(l)
      BY <3>1, ClearedQueues DEF k
    <3>3. \A l \in Lids : l # own => Reaches(Line(l), LineLeft(l, w))
      BY <1>4, <2>1, <3>2, OthersDispatched
    <3>4. PICK y : Continue(t, y) /\ (y = After(x, p, "acquire") \/ y = Raised(x))
      BY <1>3, <2>1 DEF After
    <3>5. PICK z : z = Queued(own)' /\ z \in {<<>>, Queued(own)} /\ LineLeft(own, w) = LineOf(own, z, {}, w)
      <4>1. \A l \in Lids : l = own => Queued(l)' \in {<<>>, Queued(l)}
        BY <3>2
      <4> QED BY <1>1, <4>1 DEF LineLeft
    <3> HIDE DEF w
    <3>6. /\ y.lid \in {0, own} /\ y.at # "data"
          /\ LidOK(own, dev[own], LineOf(own, z, {}, w), Post(own), received[own], local_id)
          /\ ReaderOK(own, y, dev[own], LineOf(own, z, {}, w), Post(own), received[own], own \notin lossy, z)
      <4>1. Moved(Line(own), LineWith(own, p, w)) /\ Len(w) \in Nat
        BY <1>1 DEF w
      <4>2. OwnRead(t, own, x, p, w, z, y)
        BY <1>0, <1>1, <1>4, <2>1, <3>4, <3>5, <4>1 DEF OwnRead, x
      <4> HIDE DEF x
      <4> QED BY <4>2, OwnDispatched
    <3> QED BY <3>2, <3>3, <3>4, <3>5, <3>6
  <2>2. CASE ~args_match(x, p)
    <3>1. store' = Put(store, k, p.cmd, p.data)
      BY <1>3, <2>2
    <3>2. /\ \A l \in Lids : l # p.arg1 => Queued(l)' = Queued(l)
          /\ \A l \in Lids : l = p.arg1 =>
              \/ Queued(l)' = Append(Queued(l), [cmd |-> p.cmd, data |-> p.data])
              \/ Queued(l)' = Queued(l) /\ p.cmd = "CLSE"
          /\ \A j \in DOMAIN store' : \E l \in Lids : j = Key(l)
      BY <3>1, PutQueues DEF k
    <3>3. \A l \in Lids : Reaches(Line(l), LineLeft(l, w))
      BY <3>2, OthersDispatched
    <3>4. PICK y : Continue(t, y) /\ (y = [x EXCEPT !.at = "acquire"] \/ y = Raised(x))
      BY <1>3, <2>2
    <3>5. /\ LidOK(own, dev[own], Line(own), Post(own), received[own], local_id)
          /\ ReaderOK(own, task[t], dev[own], Line(own), Post(own), received[own], own \notin lossy, Queued(own))
          /\ Placed(Line(own)) /\ Placed(Post(own))
      BY <1>0, <1>1, StreamTypes, ReaderHas DEF StreamInv
    <3>6. LidOK(own, dev[own], LineLeft(own, w), Post(own), received[own], local_id)
      BY <1>1, <3>3, <3>5, SameFewer, ReachedReading
    <3>7. /\ y.lid \in {0, own} /\ y.at # "data"
          /\ Passive(y) \/ (x.step # "clsed" /\ SameReader(task[t], y) /\ y.at = "acquire")
      <4>1. CASE y = Raised(x)
        BY <1>2, <4>1, RaisedPassive
      <4>2. CASE y = [x EXCEPT !.at = "acquire"]
        <5>1. /\ y.at = "acquire" /\ y.step = x.step /\ y.op = x.op /\ y.rid = x.rid /\ y.lid = own
          BY <1>2, <4>2 DEF Task
        <5>2. y.step \in Reads
          BY <1>1, <1>2, <5>1
        <5>3. SameReader(task[t], y)
          BY <1>2, <5>1, <5>2 DEF SameReader, Held, Unwritten, Reads
        <5> QED BY <1>2, <5>1, <5>3 DEF Passive, Wanting, Early
      <4> QED BY <3>4, <4>1, <4>2
    <3>8. ReaderOK(own, y, dev[own], LineLeft(own, w), Post(own), received[own], own \notin lossy, Queued(own)')
      <4>1. CASE Passive(y)
        BY <4>1, PassiveReaderOK
      <4>2. CASE ~Passive(y)
        <5>1. x.step # "clsed" /\ SameReader(task[t], y) /\ y.at = "acquire"
          BY <3>7, <4>2
        <5>2. own # p.arg1
          BY <1>4, <2>2, <5>1
        <5>3. \A l \in Lids : l = own => Queued(l)' = Queued(l)
          BY <3>2, <5>2
        <5>4. PICK z : z = Queued(own)' /\ z = Queued(own)
          BY <1>1, <5>3
        <5>5. ReaderOK(own, task[t], dev[own], LineLeft(own, w), Post(own), received[own], own \notin lossy, z)
          BY <1>1, <3>3, <3>5, <5>4, SameFewer, ReachedReading
        <5>6. ReaderOK(own, y, dev[own], LineLeft(own, w), Post(own), received[own], own \notin lossy, z)
          BY <5>1, <5>5, SameReaderOK
        <5> QED BY <5>4, <5>6
      <4> QED BY <4>1, <4>2
    <3> QED BY <3>2, <3>3, <3>4, <3>6, <3>7, <3>8
  <2> QED BY <2>1, <2>2
<1>6. PICK y :
        /\ Continue(t, y) /\ y.lid \in {0, own} /\ y.at # "data"
        /\ \A l \in Lids : l # own => Reaches(Line(l), LineLeft(l, w))
        /\ LidOK(own, dev[own], LineLeft(own, w), Post(own), received[own], local_id)
        /\ ReaderOK(own, y, dev[own], LineLeft(own, w), Post(own), received[own], own \notin lossy, Queued(own)')
        /\ \A j \in DOMAIN store' : \E l \in Lids : j = Key(l)
  BY <1>5
<1>7. task'[t] = y /\ \A u \in Tasks \ {t} : task'[u] = task[u] /\ task[u].at \notin Wired
  BY <1>1, <1>6, TaskBecomes, Alone
<1>8. \A u \in Tasks : task'[u].at # "data"
  BY <1>6, <1>7 DEF Wired
<1>9. \A l \in Lids : Line(l)' = LineLeft(l, w) /\ Post(l)' = Post(l)
  <2>1. Hands' = {}
    BY <1>8 DEF Hands
  <2> QED BY <2>1 DEF Line, LineLeft, Post
<1>10. OwnersOK' /\ \A l \in Lids : StreamInv(l)'
  <2>1. \A l \in Lids \ {task[t].lid} :
          /\ received[l]' = received[l] /\ Post(l)' = Post(l) /\ Reaches(Line(l), Line(l)')
          /\ Queued(l)' = Queued(l) \/ lock = t
    BY <1>0, <1>1, <1>6, <1>9
  <2>2. \A l \in Lids : l = task[t].lid =>
          /\ LidOK(l, dev[l], Line(l)', Post(l)', received[l]', local_id)
          /\ y.lid = l =>
               ReaderOK(l, y, dev[l], Line(l)', Post(l)', received[l]', l \notin lossy, Queued(l)')
    BY <1>0, <1>6, <1>9
  <2>3. y.lid \in {0, task[t].lid} /\ local_id' = local_id /\ dev' = dev /\ lossy' = lossy
    BY <1>0, <1>6
  <2> QED BY <1>6, <2>1, <2>2, <2>3, TaskKeeps
<1>11. WireOK'
  BY DEF DInv, WireOK
<1>12. PacketsOK'
  BY <1>6, <1>8 DEF PacketsOK, FromDevice
<1> QED BY <1>10, <1>11, <1>12 DEF DRest

LEMMA DReadHeader ==
  ASSUME DInv, NEW t \in Tasks, ReadHeader(t)
  PROVE  DRest'
<1> DEFINE p == Head(arriving)[2]
           y == [task[t] EXCEPT !.pkt = p, !.at = "data"]
<1>1. /\ task[t].at = "header" /\ arriving # <<>> /\ arriving' = Tail(arriving)
      /\ UNCHANGED <<dev, half, unsent, received, lossy, conn, local_id>>
  BY DEF ReadHeader, Resumes, readRest, ghosts
<1>2. /\ LInv /\ WInv /\ WireOK /\ PacketsOK /\ task[t] \in Task
      /\ arriving \in Seq(Kinds \X WholePacket) /\ p \in WholePacket
  BY <1>1, OwnLid, TailArrives DEF DInv, IInv, LInv, WirePart
<1>6. /\ Hands = {} /\ \A u \in Tasks : task[u].at # "data"
      /\ Head(arriving)[1] = "header"
  <2>1. \A u \in Tasks \ {t} : task[u].at # "data"
    BY <1>1, <1>2, ReaderHolds, Alone DEF Wired
  <2>2. \A u \in Tasks : task[u].at # "data"
    BY <1>1, <2>1
  <2>3. Head(arriving)[1] = "header"
    BY <1>1, <1>2, <2>2, PacketAhead
  <2> QED BY <2>2, <2>3 DEF Hands
<1>3. /\ Len(arriving') \in Nat /\ p = arriving[1][2] /\ arriving[1][1] = "header" /\ Len(arriving) \in Nat \ {0}
      /\ Len(arriving') = Len(arriving) - 1 /\ \A i \in 1 .. Len(arriving) - 1 : arriving'[i] = arriving[i + 1]
  BY <1>1, <1>2, <1>6, TailIs
<1>4. FromDevice(p)
  BY <1>2, <1>3 DEF PacketsOK
<1>5. \A i \in 1 .. Len(arriving') : FromDevice(arriving'[i][2])
  <2> SUFFICES ASSUME NEW i \in 1 .. Len(arriving') PROVE FromDevice(arriving'[i][2])
    OBVIOUS
  <2>1. i + 1 \in 1 .. Len(arriving) /\ arriving'[i] = arriving[i + 1]
    BY <1>3
  <2>2. FromDevice(arriving[i + 1][2])
    BY <1>2, <2>1 DEF PacketsOK
  <2> QED BY <2>1, <2>2
<1>8. \A l \in Lids : Moved(Line(l), LineWith(l, p, arriving'))
  <2> SUFFICES ASSUME NEW l \in Lids PROVE Moved(Line(l), LineWith(l, p, arriving'))
    OBVIOUS
  <2> DEFINE q == Queued(l)
             w == arriving
  <2>1. Len(q) \in Nat /\ w \in Seq(Kinds \X WholePacket) /\ w # <<>> /\ Head(w)[1] = "header"
    BY <1>1, <1>2, <1>6, StreamTypes
  <2>2. Line(l) = LineOf(l, q, {}, w) /\ LineWith(l, p, arriving') = LineOf(l, q, {Head(w)[2]}, Tail(w))
    BY <1>1, <1>6 DEF Line, LineWith
  <2> HIDE DEF q, w, p
  <2> QED BY <2>1, <2>2, HeaderRead
<1>9. CASE ~HasData(p)
  <2>1. Dispatch(t, p)
    BY <1>9 DEF ReadHeader
  <2> HIDE DEF p
  <2> QED BY <1>1, <1>2, <1>3, <1>4, <1>5, <1>8, <2>1, DDispatch
<1>10. CASE HasData(p)
  <2>1. Continue(t, y) /\ store' = store
    BY <1>10 DEF ReadHeader
  <2> DEFINE x == task[t]
  <2>2. /\ y.at = "data" /\ y.step = x.step /\ y.op = x.op /\ y.rid = x.rid /\ y.pkt = p
        /\ y.lid = x.lid /\ x.step \in Reads /\ lock = t
    <3>1. p \in Packet
      BY <1>2 DEF WholePacket
    <3> HIDE DEF p
    <3> QED BY <1>1, <1>2, <3>1, ReaderHolds DEF Task, Inside, MayPause
  <2> HIDE DEF y, p
  <2>3. task'[t] = y /\ \A u \in Tasks \ {t} : task'[u] = task[u]
    BY <1>2, <2>1, TaskBecomes
  <2>4. Hands' = {p}
    <3>1. {v \in Tasks : task'[v].at = "data"} = {t}
      BY <1>6, <2>2, <2>3
    <3> QED BY <2>2, <2>3, <3>1 DEF Hands
  <2>5. \A l \in Lids : /\ Queued(l)' = Queued(l) /\ Post(l)' = Post(l) /\ Line(l)' = LineWith(l, p, arriving')
                        /\ Placed(Line(l)) /\ Placed(Post(l)) /\ Reaches(Line(l), Line(l)') /\ StreamInv(l)
    <3> SUFFICES ASSUME NEW l \in Lids
                 PROVE  /\ Queued(l)' = Queued(l) /\ Post(l)' = Post(l) /\ Line(l)' = LineWith(l, p, arriving')
                        /\ Placed(Line(l)) /\ Placed(Post(l)) /\ Reaches(Line(l), Line(l)') /\ StreamInv(l)
      OBVIOUS
    <3>1. Queued(l)' = Queued(l) /\ Post(l)' = Post(l)
      BY <1>1, <2>1 DEF Queued, Post
    <3>2. Line(l)' = LineWith(l, p, arriving')
      BY <2>4, <3>1 DEF Line, LineWith
    <3>3. Placed(Line(l)) /\ Placed(Post(l)) /\ StreamInv(l)
      BY StreamTypes
    <3>4. Reaches(Line(l), Line(l)')
      BY <1>8, <3>2, <3>3, MovedReaches
    <3> QED BY <3>1, <3>2, <3>3, <3>4
  <2>6. SameReader(x, y)
    BY <1>1, <2>2 DEF SameReader, Held, Unwritten, Reads
  <2>7. ASSUME NEW l \in Lids, l = task[t].lid
        PROVE  /\ LidOK(l, dev[l], Line(l)', Post(l)', received[l]', local_id)
               /\ y.lid = l =>
                    ReaderOK(l, y, dev[l], Line(l)', Post(l)', received[l]', l \notin lossy, Queued(l)')
    <3>1. /\ LidOK(l, dev[l], Line(l), Post(l), received[l], local_id)
          /\ ReaderOK(l, x, dev[l], Line(l), Post(l), received[l], l \notin lossy, Queued(l))
      BY <2>5, <2>7 DEF StreamInv
    <3> DEFINE T == LineWith(l, p, arriving')
    <3>2. Reaches(Line(l), T) /\ Fewer(Post(l), Post(l)) /\ Placed(Line(l))
      BY <2>5, SameFewer
    <3> HIDE DEF T, x
    <3>3. /\ LidOK(l, dev[l], T, Post(l), received[l], local_id)
          /\ ReaderOK(l, x, dev[l], T, Post(l), received[l], l \notin lossy, Queued(l))
      BY <3>1, <3>2, ReachedReading
    <3>4. ReaderOK(l, y, dev[l], T, Post(l), received[l], l \notin lossy, Queued(l))
      BY <1>1, <2>6, <3>3, SameReaderOK DEF x
    <3> QED BY <1>1, <2>5, <3>3, <3>4 DEF T
  <2>8. OwnersOK' /\ \A l \in Lids : StreamInv(l)'
    <3>1. \A l \in Lids \ {task[t].lid} :
            /\ received[l]' = received[l] /\ Post(l)' = Post(l) /\ Reaches(Line(l), Line(l)')
            /\ Queued(l)' = Queued(l) \/ lock = t
      BY <1>1, <2>5
    <3>2. y.lid \in {0, task[t].lid} /\ local_id' = local_id /\ dev' = dev /\ lossy' = lossy
      BY <1>1, <2>2
    <3> QED BY <2>1, <2>7, <3>1, <3>2, TaskKeeps
  <2>9. WireOK'
    BY <1>1, <1>2 DEF WireOK
  <2>10. PacketsOK'
    <3>1. \A u \in Tasks : task'[u].at = "data" => task'[u].pkt = p
      BY <1>6, <2>2, <2>3
    <3> QED BY <1>2, <1>4, <1>5, <2>1, <3>1 DEF PacketsOK, FromDevice
  <2> QED BY <2>8, <2>9, <2>10 DEF DRest
<1> QED BY <1>9, <1>10

LEMMA DDataRead ==
  ASSUME DInv, NEW t \in Tasks, task[t].at = "data", arriving # <<>>,
         Head(arriving) = <<"data", task[t].pkt>>, arriving' = Tail(arriving),
         Dispatch(t, task[t].pkt),
         UNCHANGED <<dev, half, unsent, received, lossy, conn, local_id>>
  PROVE  DRest'
<1> DEFINE p == task[t].pkt
<1>2. LInv /\ WireOK /\ PacketsOK /\ arriving \in Seq(Kinds \X WholePacket) /\ p \in WholePacket
  BY OwnLid DEF DInv, LInv, WirePart, TaskOK
<1>3. /\ Len(arriving') \in Nat /\ Len(arriving) \in Nat \ {0}
      /\ Len(arriving') = Len(arriving) - 1 /\ \A i \in 1 .. Len(arriving) - 1 : arriving'[i] = arriving[i + 1]
  BY <1>2, TailIs
<1>4. FromDevice(p)
  BY <1>2 DEF PacketsOK
<1>5. \A i \in 1 .. Len(arriving') : FromDevice(arriving'[i][2])
  BY <1>2, TailFromDevice DEF PacketsOK
<1>7. Hands = {p}
  <2>1. \A u \in Tasks \ {t} : task[u].at # "data"
    BY <1>2, ReaderHolds, Alone DEF Wired
  <2>2. {v \in Tasks : task[v].at = "data"} = {t}
    BY <2>1
  <2> QED BY <2>2 DEF Hands
<1>9. PICK c : c = p
  OBVIOUS
<1>10. \A l \in Lids : Moved(Line(l), LineWith(l, c, arriving'))
  <2> SUFFICES ASSUME NEW l \in Lids PROVE Moved(Line(l), LineWith(l, c, arriving'))
    OBVIOUS
  <2> DEFINE q == Queued(l)
             w == arriving
  <2>1. Len(q) \in Nat /\ w \in Seq(Kinds \X WholePacket) /\ w # <<>> /\ Head(w)[1] = "data"
    BY <1>2, StreamTypes
  <2>2. Line(l) = LineOf(l, q, {c}, w) /\ LineWith(l, c, arriving') = LineOf(l, q, {c}, Tail(w))
    BY <1>7, <1>9 DEF Line, LineWith
  <2> HIDE DEF q, w
  <2> QED BY <2>1, <2>2, DataRead
<1>11. Dispatch(t, c)
  BY <1>9
<1> HIDE DEF p
<1> QED BY <1>2, <1>3, <1>4, <1>5, <1>9, <1>10, <1>11, DDispatch

LEMMA DReadData ==
  ASSUME DInv, NEW t \in Tasks, ReadData(t)
  PROVE  DRest'
<1>1. /\ task[t].at = "data" /\ arriving # <<>> /\ Head(arriving) = <<"data", task[t].pkt>>
      /\ arriving' = Tail(arriving)
      /\ UNCHANGED <<dev, half, unsent, received, conn, local_id>>
      /\ \/ Dispatch(t, task[t].pkt) /\ lossy' = lossy
         \/ GivenUp(task[t].pkt) /\ Continue(t, Raised(task[t])) /\ store' = store
  BY DEF ReadData, DataIsThere, Resumes, readRest
<1>2. CASE Dispatch(t, task[t].pkt) /\ lossy' = lossy
  BY <1>1, <1>2, DDataRead
<1>3. CASE GivenUp(task[t].pkt) /\ Continue(t, Raised(task[t])) /\ store' = store
  BY <1>1, <1>3, DDataSpoiled
<1> QED BY <1>1, <1>2, <1>3
-----------------------------------------------------------------------------
(* The device takes the next part of the post.                             *)

LEMMA PostHas ==
  ASSUME NEW l, NEW h, NEW w
  PROVE  \A v : v \in PostOf(l, h, w) <=>
           \/ h # None /\ h.arg0 = l /\ v = Item(0, h)
           \/ \E i \in 1 .. Len(w) : w[i][1] = "header" /\ w[i][2].arg0 = l /\ v = Item(i, w[i][2])
BY DEF PostOf

(* What is left of the post was in it, one place further on.               *)
LEMMA PostLeft ==
  ASSUME NEW l, NEW h, NEW g, NEW X, NEW w \in Seq(X), w # <<>>, NEW v \in PostOf(l, g, Tail(w))
  PROVE  \/ g # None /\ g.arg0 = l /\ v = Item(0, g)
         \/ \E u \in PostOf(l, h, w) : u.pos \in Nat /\ u.pos > 1 /\ SameItem(u, v, WireDown)
<1> DEFINE z == Tail(w)
<1>1. /\ Len(w) \in Nat /\ Len(z) = Len(w) - 1 /\ \A i \in 1 .. Len(w) - 1 : z[i] = w[i + 1]
  BY TailIs
<1> HIDE DEF z
<1>2. CASE g # None /\ g.arg0 = l /\ v = Item(0, g)
  BY <1>2
<1>3. CASE \E i \in 1 .. Len(z) : z[i][1] = "header" /\ z[i][2].arg0 = l /\ v = Item(i, z[i][2])
  <2>1. PICK i \in 1 .. Len(z) : z[i][1] = "header" /\ z[i][2].arg0 = l /\ v = Item(i, z[i][2])
    BY <1>3
  <2>2. i + 1 \in 1 .. Len(w) /\ z[i] = w[i + 1] /\ i \in Nat \ {0}
    BY <1>1, <2>1
  <2> DEFINE u == Item(i + 1, w[i + 1][2])
  <2>3. u \in PostOf(l, h, w)
    BY <2>1, <2>2, PostHas
  <2>4. /\ u.pos = i + 1 /\ u.cmd = z[i][2].cmd /\ u.data = z[i][2].data
        /\ v.pos = i /\ v.cmd = z[i][2].cmd /\ v.data = z[i][2].data
    BY <2>1, <2>2 DEF Item
  <2>5. WireDown[i + 1] = i
    BY <2>2 DEF WireDown
  <2>6. SameItem(u, v, WireDown)
    BY <2>4, <2>5 DEF SameItem
  <2> QED BY <2>2, <2>3, <2>4, <2>6
<1>4. \/ g # None /\ g.arg0 = l /\ v = Item(0, g)
      \/ \E i \in 1 .. Len(z) : z[i][1] = "header" /\ z[i][2].arg0 = l /\ v = Item(i, z[i][2])
  <2>1. v \in PostOf(l, g, z)
    BY DEF z
  <2> QED BY <2>1, PostHas
<1> QED BY <1>2, <1>3, <1>4

LEMMA PostTaken ==
  ASSUME NEW l, NEW h, NEW X, NEW w \in Seq(X), w # <<>>
  PROVE  LET m == Head(w)[2]
             P == PostOf(l, h, w)
         IN  /\ Fewer(P, PostOf(l, h, Tail(w))) /\ Fewer(P, PostOf(l, None, Tail(w)))
             /\ Head(w)[1] = "header" => Fewer(P, PostOf(l, m, Tail(w)))
             /\ Head(w)[1] = "header" /\ m.arg0 = l => Handled(P, PostOf(l, None, Tail(w)), Item(1, m))
             /\ h # None /\ h.arg0 = l => Handled(P, PostOf(l, None, Tail(w)), Item(0, h))
<1> DEFINE m == Head(w)[2]
           P == PostOf(l, h, w)
           Q(g) == PostOf(l, g, Tail(w))
<1>1. Len(w) \in Nat \ {0} /\ Head(w) = w[1]
  BY TailIs
<1>2. \A g : \A v \in Q(g) :
        \/ g # None /\ g.arg0 = l /\ v = Item(0, g)
        \/ \E u \in P : u.pos \in Nat /\ u.pos > 1 /\ SameItem(u, v, WireDown)
  BY PostLeft
<1>3. h # None /\ h.arg0 = l => Item(0, h) \in P
  BY PostHas
<1>4. Head(w)[1] = "header" /\ m.arg0 = l => Item(1, m) \in P
  BY <1>1, PostHas
<1>5. WireDown[0] = 0 /\ WireDown[1] = 0
  BY DEF WireDown
<1>6. \A c : SameItem(Item(0, c), Item(0, c), WireDown) /\ SameItem(Item(1, c), Item(0, c), WireDown)
  BY <1>5 DEF SameItem, Item
<1>7. \A c : Item(0, c).pos = 0 /\ Item(1, c).pos = 1
  BY DEF Item
<1>8. \A v \in Q(None) : \E u \in P : u.pos \in Nat /\ u.pos > 1 /\ SameItem(u, v, WireDown)
  BY <1>2
<1>9. \A v \in Q(h) : \E u \in P : SameItem(u, v, WireDown)
  BY <1>2, <1>3, <1>6
<1>10. Head(w)[1] = "header" => \A v \in Q(m) : \E u \in P : SameItem(u, v, WireDown)
  BY <1>2, <1>4, <1>6
<1> HIDE DEF Q, P, m
<1>11. Fewer(P, Q(None)) /\ Fewer(P, Q(h)) /\ (Head(w)[1] = "header" => Fewer(P, Q(m)))
  BY <1>8, <1>9, <1>10 DEF Fewer
<1>12. \A c : \A i \in {0, 1} : Item(i, c) \in P => Handled(P, Q(None), Item(i, c))
  <2> SUFFICES ASSUME NEW c, NEW i \in {0, 1}, Item(i, c) \in P PROVE Handled(P, Q(None), Item(i, c))
    OBVIOUS
  <2>1. Item(i, c).pos \in {0, 1}
    BY <1>7
  <2> DEFINE R == Q(None)
             o == Item(i, c)
  <2>2. \A v \in R : \E u \in P : u.pos \in Nat /\ u.pos > 1 /\ SameItem(u, v, WireDown)
    BY <1>8
  <2> HIDE DEF R, o
  <2>3. \A v \in R : \E u \in P : u.pos # o.pos /\ SameItem(u, v, WireDown)
    BY <2>1, <2>2 DEF o
  <2> QED BY <2>3 DEF Handled, R, o
<1> QED BY <1>3, <1>4, <1>11, <1>12 DEF Q, P, m

-----------------------------------------------------------------------------
(* What a step of the device makes of a stream, whoever reads it.          *)

Adapted(l, d, S, P, r, whole, e, T, Q) ==
  \A x, n, q :
    /\ LidOK(l, d, S, P, r, n) => LidOK(l, e, T, Q, r, n)
    /\ LidOK(l, d, S, P, r, n) /\ ReaderOK(l, x, d, S, P, r, whole, q) => ReaderOK(l, x, e, T, Q, r, whole, q)

LEMMA ChangedAdapted ==
  ASSUME NEW l, NEW d, NEW S, NEW P, NEW r, NEW whole, NEW T, NEW Q, NEW e,
         d.st \notin {"closed", "gone"}, d.st # "none" \/ P # {},
         StreamFacts(d, S, P) =>
           /\ StreamFacts(e, T, Q)
           /\ \A x : Reading(l, x, d, S, P, r, whole) => Reading(l, x, e, T, Q, r, whole)
  PROVE  Adapted(l, d, S, P, r, whole, e, T, Q)
<1>1. CASE ~StreamFacts(d, S, P)
  BY <1>1 DEF Adapted, LidOK
<1>2. CASE StreamFacts(d, S, P)
  <2> SUFFICES ASSUME NEW x, NEW n, NEW q
               PROVE  /\ LidOK(l, d, S, P, r, n) => LidOK(l, e, T, Q, r, n)
                      /\ ReaderOK(l, x, d, S, P, r, whole, q) => ReaderOK(l, x, e, T, Q, r, whole, q)
    BY DEF Adapted
  <2>1. /\ Reading(l, x, d, S, P, r, whole) => Reading(l, x, e, T, Q, r, whole)
        /\ StreamFacts(d, S, P) => StreamFacts(e, T, Q)
    BY <1>2
  <2> QED BY <2>1, ChangedReading
<1> QED BY <1>1, <1>2

LEMMA FewerAdapted ==
  ASSUME NEW l, NEW d, NEW S, NEW P, NEW r, NEW whole, NEW Q, Placed(S), Fewer(P, Q)
  PROVE  Adapted(l, d, S, P, r, whole, d, S, Q)
<1> SUFFICES ASSUME NEW x, NEW n, NEW q
             PROVE  /\ LidOK(l, d, S, P, r, n) => LidOK(l, d, S, Q, r, n)
                    /\ ReaderOK(l, x, d, S, P, r, whole, q) => ReaderOK(l, x, d, S, Q, r, whole, q)
  BY DEF Adapted
<1>1. Reaches(S, S)
  BY MovedReaches
<1> QED BY <1>1, ReachedReading

(* The answers of the device to the message u.                             *)
Answers(d, S, u, e, T) ==
  \/ /\ u.cmd = "OPEN"
     /\ \E v : /\ Joined(S, T, v)
               /\ \/ /\ v.cmd = "OKAY"
                     /\ e = [st |-> "open", op |-> u.data, credit |-> 1, n |-> 0, asked |-> FALSE]
                  \/ v.cmd = "CLSE" /\ e = d
  \/ u.cmd # "OPEN" /\ d.st # "open" /\ e = d /\ T = S
  \/ u.cmd = "OKAY" /\ d.st = "open" /\ e = [d EXCEPT !.credit = 1] /\ T = S
  \/ /\ u.cmd = "WRTE" /\ d.st = "open" /\ e = [d EXCEPT !.asked = TRUE]
     /\ \E v : Joined(S, T, v) /\ v.cmd = "OKAY"
  \/ /\ u.cmd = "CLSE" /\ d.st = "open" /\ e = Ended(d, "closed")
     /\ \E v : Joined(S, T, v) /\ v.cmd = "CLSE"

LEMMA AnswersAdapted ==
  ASSUME NEW l, NEW d \in DevStream, NEW S, NEW P, NEW r, NEW whole, NEW T, NEW Q, NEW e, NEW u,
         Placed(S), Handled(P, Q, u), Answers(d, S, u, e, T)
  PROVE  Adapted(l, d, S, P, r, whole, e, T, Q)
<1>1. Fewer(P, Q) /\ Some(P, u.cmd) /\ u \in P
  <2>1. Fewer(P, Q) /\ Some(P, u.cmd)
    BY HandledFewer
  <2> QED BY <2>1 DEF Handled
<1>2. CASE u.cmd = "OPEN"
  <2>1. PICK v : /\ Joined(S, T, v)
                 /\ \/ /\ v.cmd = "OKAY"
                       /\ e = [st |-> "open", op |-> u.data, credit |-> 1, n |-> 0, asked |-> FALSE]
                    \/ v.cmd = "CLSE" /\ e = d
    BY <1>2 DEF Answers
  <2>2. CASE ~StreamFacts(d, S, P)
    BY <2>2 DEF Adapted, LidOK
  <2>3. CASE StreamFacts(d, S, P)
    <3>1. d.st = "none"
      BY <1>1, <1>2, <2>3 DEF StreamFacts
    <3>2. \A x : /\ StreamFacts(e, T, Q)
                 /\ Reading(l, x, d, S, P, r, whole) => Reading(l, x, e, T, Q, r, whole)
      BY <1>2, <2>1, <2>3, DevOpens
    <3> QED BY <1>1, <3>1, <3>2, ChangedAdapted
  <2> QED BY <2>2, <2>3
<1>3. CASE u.cmd # "OPEN" /\ d.st # "open" /\ e = d /\ T = S
  BY <1>1, <1>3, FewerAdapted
<1>4. CASE u.cmd = "OKAY" /\ d.st = "open" /\ e = [d EXCEPT !.credit = 1] /\ T = S
  <2>1. StreamFacts(d, S, P) =>
          \A x : /\ StreamFacts(e, S, Q)
                 /\ Reading(l, x, d, S, P, r, whole) => Reading(l, x, e, S, Q, r, whole)
    BY <1>4, DevIsToldOkay
  <2> QED BY <1>4, <2>1, ChangedAdapted
<1>5. CASE u.cmd = "WRTE" /\ d.st = "open"
  <2>1. PICK v : Joined(S, T, v) /\ v.cmd = "OKAY" /\ e = [d EXCEPT !.asked = TRUE]
    BY <1>5 DEF Answers
  <2>2. StreamFacts(d, S, P) =>
          \A x : /\ StreamFacts(e, T, Q)
                 /\ Reading(l, x, d, S, P, r, whole) => Reading(l, x, e, T, Q, r, whole)
    BY <1>5, <2>1, DevIsAsked
  <2> QED BY <1>5, <2>2, ChangedAdapted
<1>6. CASE u.cmd = "CLSE" /\ d.st = "open"
  <2>1. PICK v : Joined(S, T, v) /\ v.cmd = "CLSE" /\ e = Ended(d, "closed")
    BY <1>6 DEF Answers
  <2>2. StreamFacts(d, S, P) =>
          \A x : StreamFacts(e, T, Q) /\ ~Reading(l, x, d, S, P, r, whole)
    BY <1>6, <2>1, DevIsToldEnd
  <2> QED BY <1>6, <2>2, ChangedAdapted
<1> QED BY <1>2, <1>3, <1>4, <1>5, <1>6 DEF Answers
-----------------------------------------------------------------------------
(* The steps of the device.                                                *)

LEMMA StreamsAdapted ==
  ASSUME DInv, UNCHANGED devRest,
         \A l \in Lids : Adapted(l, dev[l], Line(l), Post(l), received[l], l \notin lossy,
                                 dev[l]', Line(l)', Post(l)')
  PROVE  OwnersOK' /\ \A l \in Lids : StreamInv(l)'
<1>1. UNCHANGED <<task, store, local_id, received, lossy>>
  BY DEF devRest, ghosts
<1>2. OwnersOK'
  BY <1>1 DEF DInv, OwnersOK
<1>3. ASSUME NEW l \in Lids PROVE StreamInv(l)'
  <2>1. StreamInv(l)
    BY StreamTypes
  <2>2. received[l]' = received[l] /\ Queued(l)' = Queued(l) /\ (l \notin lossy') = (l \notin lossy)
    BY <1>1 DEF Queued
  <2>3. LidOK(l, dev[l]', Line(l)', Post(l)', received[l]', local_id')
    BY <1>1, <2>1, <2>2 DEF Adapted, StreamInv
  <2>4. ASSUME NEW t \in Tasks, task'[t].lid = l
        PROVE  ReaderOK(l, task'[t], dev[l]', Line(l)', Post(l)', received[l]', l \notin lossy', Queued(l)')
    BY <1>1, <2>1, <2>2, <2>4 DEF Adapted, StreamInv
  <2> QED BY <2>3, <2>4 DEF StreamInv
<1> QED BY <1>2, <1>3

(* It sends the packet p.                                                  *)
Sending(p) == FromDevice(p) /\ arriving' = arriving \o Parts(p)

LEMMA DeviceWire ==
  ASSUME DInv, UNCHANGED devRest, NEW p, Sending(p) \/ arriving' = arriving, conn = "open" \/ dev' = dev
  PROVE  WireOK' /\ PacketsOK'
<1>1. UNCHANGED <<task, store, lossy, conn>> /\ WireOK /\ PacketsOK /\ arriving \in Seq(Kinds \X WholePacket)
  <2>1. LInv /\ WireOK /\ PacketsOK
    BY DEF DInv, IInv
  <2> QED BY <2>1 DEF devRest, ghosts, LInv, WirePart
<1>2. CASE arriving' = arriving
  BY <1>1, <1>2 DEF WireOK, PacketsOK, FromDevice
<1>3. CASE Sending(p)
  <2> DEFINE a == arriving
             b == Parts(p)
             c == arriving'
  <2>1. a \in Seq(Kinds \X WholePacket) /\ c = a \o b /\ b \in Seq(Kinds \X {p}) /\ FromDevice(p)
    <3>1. b \in Seq(Kinds \X {p})
      <4> DEFINE Y == Kinds \X {p}
      <4>1. <<"header", p>> \in Y /\ <<"data", p>> \in Y
        BY DEF Kinds
      <4>2. << <<"header", p>> >> \in Seq(Y) /\ << <<"header", p>>, <<"data", p>> >> \in Seq(Y)
        <5> HIDE DEF Y
        <5> QED BY <4>1, ShortSeqs
      <4> QED BY <4>2, PartsAre
    <3> QED BY <1>1, <1>3, <3>1 DEF Sending
  <2> HIDE DEF a, b, c
  <2>2. /\ Len(a) \in Nat /\ Len(b) \in Nat /\ Len(c) = Len(a) + Len(b)
        /\ \A i \in 1 .. Len(a) : c[i] = a[i]
        /\ \A i \in 1 .. Len(b) : c[i + Len(a)] = b[i] /\ b[i][2] = p
    <3> DEFINE Z == Kinds \X WholePacket
               Y == Kinds \X {p}
    <3>1. \A i \in 1 .. Len(b) : b[i] \in Y
      BY <2>1
    <3>2. \A i \in 1 .. Len(b) : b[i][2] = p
      BY <3>1
    <3>3. a \in Seq(Z \cup Y) /\ b \in Seq(Z \cup Y)
      BY <2>1
    <3> HIDE DEF Z, Y
    <3>4. /\ Len(a) \in Nat /\ Len(b) \in Nat /\ Len(c) = Len(a) + Len(b)
          /\ \A i \in 1 .. Len(a) : c[i] = a[i]
          /\ \A i \in 1 .. Len(b) : c[i + Len(a)] = b[i]
      BY <2>1, <3>3
    <3> QED BY <3>2, <3>4
  <2>3. \A i \in 1 .. Len(c) : FromDevice(c[i][2])
    <3> SUFFICES ASSUME NEW i \in 1 .. Len(c) PROVE FromDevice(c[i][2])
      OBVIOUS
    <3>1. CASE i \in 1 .. Len(a)
      <4>1. FromDevice(a[i][2])
        BY <1>1, <3>1 DEF PacketsOK, a
      <4> QED BY <2>2, <3>1, <4>1
    <3>2. CASE i \notin 1 .. Len(a)
      <4> DEFINE k == i - Len(a)
      <4>1. k \in 1 .. Len(b) /\ i = k + Len(a)
        BY <2>2, <3>2
      <4> HIDE DEF k
      <4>2. c[i] = b[k] /\ b[k][2] = p
        BY <2>2, <4>1
      <4> QED BY <2>1, <4>2
    <3> QED BY <3>1, <3>2
  <2>4. a # <<>> => c # <<>> /\ c[1] = a[1]
    <3> SUFFICES ASSUME a # <<>> PROVE c # <<>> /\ c[1] = a[1]
      OBVIOUS
    <3>1. Len(a) >= 1
      BY <2>1
    <3>2. Len(c) >= 1
      BY <2>2, <3>1
    <3> QED BY <2>2, <3>1, <3>2
  <2>5. WireOK'
    BY <1>1, <2>4 DEF WireOK, a, c
  <2>6. PacketsOK'
    BY <1>1, <2>3 DEF PacketsOK, FromDevice, c
  <2> QED BY <2>5, <2>6
<1> QED BY <1>2, <1>3

Packed(p) == Item(Len(arriving) + 1, p)

LEMMA DeviceLine ==
  ASSUME DInv, UNCHANGED devRest, NEW p, Sending(p), NEW l \in Lids
  PROVE  /\ p.arg1 = l => Joined(Line(l), Line(l)', Packed(p))
         /\ p.arg1 # l => Line(l)' = Line(l)
<1>1. UNCHANGED <<task, store, lossy>> /\ arriving' = arriving \o Parts(p)
  BY DEF devRest, ghosts, Sending
<1>2. /\ Len(Queued(l)) \in Nat /\ arriving \in Seq(Kinds \X WholePacket)
  BY StreamTypes
<1>3. Hands' = Hands /\ Queued(l)' = Queued(l)
  BY <1>1 DEF Hands, Queued
<1> DEFINE q == Queued(l)
           H == Hands
           w == arriving
           T == LineOf(l, q, H, w \o Parts(p))
           S == LineOf(l, q, H, w)
<1>4. Line(l) = S /\ Line(l)' = T /\ Packed(p) = Item(Len(w) + 1, p)
  BY <1>1, <1>3 DEF Line, Packed
<1>5. Item(Len(w) + 1, p).pos = Len(w) + 1
  BY DEF Item
<1>6. /\ p.arg1 = l => T = S \cup {Item(Len(w) + 1, p)}
      /\ p.arg1 # l => T = S
      /\ \A v \in S : v.pos < Len(w) + 1
  <2> DEFINE X == Kinds \X WholePacket
  <2>1. w \in Seq(X) /\ Len(q) \in Nat
    BY <1>2
  <2> HIDE DEF q, H, w, X
  <2>2. WithPacket(l, q, H, w, p)
    BY <2>1, PacketArrives
  <2> QED BY <2>2 DEF WithPacket
<1> HIDE DEF S, T, w
<1> QED BY <1>4, <1>5, <1>6 DEF Joined
-----------------------------------------------------------------------------
(* The device sends p of the stream l, and what that makes of the stream.  *)
LEMMA DeviceSends ==
  ASSUME DInv, UNCHANGED devRest, NEW l \in Lids, NEW p, p.arg1 = l, Sending(p), conn = "open",
         UNCHANGED <<unsent, half>>,
         \A k \in Lids \ {l} : dev'[k] = dev[k],
         \A T : Joined(Line(l), T, Packed(p)) =>
           Adapted(l, dev[l], Line(l), Post(l), received[l], l \notin lossy, dev'[l], T, Post(l))
  PROVE  DRest'
<1>1. \A k \in Lids : Post(k)' = Post(k)
  BY DEF Post
<1>2. \A k \in Lids : Adapted(k, dev[k], Line(k), Post(k), received[k], k \notin lossy, dev[k]', Line(k)', Post(k)')
  <2> SUFFICES ASSUME NEW k \in Lids
               PROVE  Adapted(k, dev[k], Line(k), Post(k), received[k], k \notin lossy, dev'[k], Line(k)', Post(k))
    BY <1>1
  <2>1. CASE k = l
    <3>1. Joined(Line(l), Line(l)', Packed(p))
      BY DeviceLine
    <3> QED BY <2>1, <3>1
  <2>2. CASE k # l
    <3>1. Line(k)' = Line(k) /\ dev'[k] = dev[k]
      BY <2>2, DeviceLine
    <3>2. Placed(Line(k)) /\ Fewer(Post(k), Post(k))
      BY StreamTypes, SameFewer
    <3> QED BY <3>1, <3>2, FewerAdapted
  <2> QED BY <2>1, <2>2
<1>3. OwnersOK' /\ \A k \in Lids : StreamInv(k)'
  BY <1>2, StreamsAdapted
<1>4. WireOK' /\ PacketsOK'
  BY DeviceWire
<1> QED BY <1>3, <1>4 DEF DRest

LEMMA DDevSend ==
  ASSUME DInv, NEW l \in Lids, DevSend(l)
  PROVE  DRest'
<1> DEFINE p == Msg("WRTE", DevId(l), l, <<l, dev[l].n + 1>>)
           d == dev[l]
           S == Line(l)
           P == Post(l)
           r == received[l]
           whole == l \notin lossy
           e == dev'[l]
<1>1. /\ dev \in [Lids -> DevStream] /\ d \in DevStream /\ Len(r) \in Nat
  BY StreamTypes DEF LInv, WirePart
<1>2. /\ UNCHANGED devRest /\ conn = "open" /\ UNCHANGED <<unsent, half>> /\ d.st = "open" /\ d.credit = 1
      /\ d.op = Shell \/ d.asked
      /\ arriving' = arriving \o Parts(p) /\ \A k \in Lids \ {l} : dev'[k] = dev[k]
      /\ e = OneMore(d)
  BY <1>1 DEF DevSend, OneMore
<1>3. p.arg1 = l /\ p.cmd = "WRTE" /\ p.data = <<l, d.n + 1>> /\ Sending(p)
  BY <1>2 DEF Sending, FromDevice, Msg
<1>4. Packed(p).cmd = "WRTE" /\ Packed(p).data = <<l, d.n + 1>>
  BY <1>3 DEF Packed, Item
<1>5. ASSUME NEW T, Joined(S, T, Packed(p))
      PROVE  Adapted(l, d, S, P, r, whole, e, T, P)
  <2> DEFINE v == Packed(p)
  <2>1. v.cmd = "WRTE" /\ v.data = <<l, d.n + 1>> /\ Joined(S, T, v)
    BY <1>4, <1>5
  <2> HIDE DEF p, d, S, P, r, whole, e, v
  <2>2. StreamFacts(d, S, P) =>
          /\ StreamFacts(e, T, P)
          /\ \A x : Reading(l, x, d, S, P, r, whole) => Reading(l, x, e, T, P, r, whole)
    <3>1. StreamFacts(d, S, P) =>
            \A x : /\ StreamFacts(e, T, P)
                   /\ Reading(l, x, d, S, P, r, whole) => Reading(l, x, e, T, P, r, whole)
      BY <1>1, <1>2, <2>1, DevSends
    <3> QED BY <3>1
  <2> QED BY <1>2, <2>2, ChangedAdapted
<1> HIDE DEF p
<1> QED BY <1>2, <1>3, <1>5, DeviceSends

LEMMA DDevClose ==
  ASSUME DInv, NEW l \in Lids, DevClose(l)
  PROVE  DRest'
<1> DEFINE p == Msg("CLSE", DevId(l), l, None)
           d == dev[l]
           S == Line(l)
           P == Post(l)
           r == received[l]
           whole == l \notin lossy
           e == dev'[l]
<1>1. /\ dev \in [Lids -> DevStream] /\ d \in DevStream
  BY StreamTypes DEF LInv, WirePart
<1>2. /\ UNCHANGED devRest /\ conn = "open" /\ UNCHANGED <<unsent, half>> /\ d.st = "open" /\ d.op = Shell
      /\ arriving' = arriving \o Parts(p) /\ \A k \in Lids \ {l} : dev'[k] = dev[k]
      /\ e = Ended(d, "closed")
  BY <1>1 DEF DevClose, Answer
<1>3. p.arg1 = l /\ p.cmd = "CLSE" /\ Sending(p)
  BY <1>2 DEF Sending, FromDevice, Msg
<1>4. Packed(p).cmd = "CLSE"
  BY <1>3 DEF Packed, Item
<1>5. ASSUME NEW T, Joined(S, T, Packed(p))
      PROVE  Adapted(l, d, S, P, r, whole, e, T, P)
  <2> DEFINE v == Packed(p)
  <2>1. v.cmd = "CLSE" /\ Joined(S, T, v)
    BY <1>4, <1>5
  <2> HIDE DEF p, d, S, P, r, whole, e, v
  <2>2. StreamFacts(d, S, P) =>
          /\ StreamFacts(e, T, P)
          /\ \A x : Reading(l, x, d, S, P, r, whole) => Reading(l, x, e, T, P, r, whole)
    <3>1. StreamFacts(d, S, P) =>
            \A x : /\ StreamFacts(e, T, P)
                   /\ Reading(l, x, d, S, P, r, whole) => Reading(l, x, e, T, P, r, whole)
      BY <1>1, <1>2, <2>1, DevCloses
    <3> QED BY <3>1
  <2> QED BY <1>2, <2>2, ChangedAdapted
<1> HIDE DEF p
<1> QED BY <1>2, <1>3, <1>5, DeviceSends
-----------------------------------------------------------------------------
(* The device handles the message m.                                       *)
LEMMA SentTo ==
  ASSUME DInv, UNCHANGED devRest, NEW l \in Lids, NEW p, Sending(p), p.arg1 = l
  PROVE  /\ \E v : Joined(Line(l), Line(l)', v) /\ v.cmd = p.cmd
         /\ \A k \in Lids \ {l} : Line(k)' = Line(k)
<1>1. Joined(Line(l), Line(l)', Packed(p))
  BY DeviceLine
<1>2. Packed(p).cmd = p.cmd
  BY DEF Packed, Item
<1>3. \A k \in Lids \ {l} : Line(k)' = Line(k)
  <2> SUFFICES ASSUME NEW k \in Lids \ {l} PROVE Line(k)' = Line(k)
    OBVIOUS
  <2> QED BY DeviceLine
<1> QED BY <1>1, <1>2, <1>3

LEMMA HandleAnswers ==
  ASSUME DInv, UNCHANGED devRest, NEW m \in Message, DevHandle(m), NEW l \in Lids, l = m.arg0, NEW i
  PROVE  /\ arriving' = arriving \/ \E p : Sending(p)
         /\ Answers(dev[l], Line(l), Item(i, m), dev'[l], Line(l)')
         /\ \A k \in Lids \ {l} : dev'[k] = dev[k] /\ Line(k)' = Line(k)
<1> DEFINE u == Item(i, m)
           d == dev[l]
           S == Line(l)
           T == Line(l)'
<1>1. u.cmd = m.cmd /\ u.data = m.data /\ m.cmd \in {"OPEN", "OKAY", "WRTE", "CLSE"}
  BY DEF Item, Message
<1>2. dev \in [Lids -> DevStream]
  BY StreamTypes DEF LInv, WirePart
<1>3. arriving' = arriving => \A k \in Lids : Line(k)' = Line(k)
  BY DEF devRest, ghosts, Line, Hands, Queued
<1>4. ASSUME NEW c, NEW a \in {0, DevId(l)}, a = 0 => c = "CLSE", Answer(c, a, l)
      PROVE  /\ \E p : Sending(p)
             /\ \E v : Joined(S, T, v) /\ v.cmd = c
             /\ \A k \in Lids \ {l} : Line(k)' = Line(k)
  <2> DEFINE p == Msg(c, a, l, None)
  <2>1. p.arg1 = l /\ p.cmd = c /\ Sending(p)
    BY <1>4 DEF Answer, Sending, FromDevice, Msg
  <2> HIDE DEF p, S, T
  <2>2. /\ \E v : Joined(S, T, v) /\ v.cmd = p.cmd
        /\ \A k \in Lids \ {l} : Line(k)' = Line(k)
    BY <2>1, SentTo DEF S, T
  <2> QED BY <2>1, <2>2
<1> HIDE DEF u, S, T
<1>5. CASE m.cmd = "OPEN"
  <2>1. DevOpen(m)
    BY <1>5 DEF DevHandle
  <2>2. CASE Answer("OKAY", DevId(l), l) /\ dev' = [dev EXCEPT ![l] =
                  [st |-> "open", op |-> m.data, credit |-> 1, n |-> 0, asked |-> FALSE]]
    <3>1. /\ \E p : Sending(p)
          /\ \E v : Joined(S, T, v) /\ v.cmd = "OKAY"
          /\ \A k \in Lids \ {l} : Line(k)' = Line(k)
      <4>1. DevId(l) # 0
        BY StreamTypes
      <4> QED BY <1>4, <2>2, <4>1
    <3>2. /\ dev'[l] = [st |-> "open", op |-> u.data, credit |-> 1, n |-> 0, asked |-> FALSE]
          /\ \A k \in Lids \ {l} : dev'[k] = dev[k]
      BY <1>1, <1>2, <2>2
    <3> QED BY <1>1, <1>5, <3>1, <3>2 DEF Answers, u, S, T
  <2>3. CASE Answer("CLSE", 0, l) /\ dev' = dev
    <3>1. /\ \E p : Sending(p)
          /\ \E v : Joined(S, T, v) /\ v.cmd = "CLSE"
          /\ \A k \in Lids \ {l} : Line(k)' = Line(k)
      BY <1>4, <2>3
    <3> QED BY <1>1, <1>5, <2>3, <3>1 DEF Answers, u, S, T
  <2> QED BY <2>1, <2>2, <2>3 DEF DevOpen
<1>6. CASE m.cmd # "OPEN" /\ d.st # "open"
  <2>1. dev' = dev /\ arriving' = arriving
    BY <1>6 DEF DevHandle
  <2> QED BY <1>1, <1>3, <1>6, <2>1 DEF Answers, u, S, T
<1>7. CASE m.cmd = "OKAY" /\ d.st = "open"
  <2>1. dev' = [dev EXCEPT ![l].credit = 1] /\ arriving' = arriving
    BY <1>7 DEF DevHandle
  <2>2. dev'[l] = [d EXCEPT !.credit = 1] /\ \A k \in Lids \ {l} : dev'[k] = dev[k]
    BY <1>2, <2>1
  <2>3. T = S /\ \A k \in Lids : Line(k)' = Line(k)
    BY <1>3, <2>1 DEF S, T
  <2> QED BY <1>1, <1>7, <2>1, <2>2, <2>3 DEF Answers, u, S, T
<1>8. CASE m.cmd = "WRTE" /\ d.st = "open"
  <2>1. dev' = [dev EXCEPT ![l].asked = TRUE] /\ Answer("OKAY", DevId(l), l)
    BY <1>8 DEF DevHandle
  <2>2. dev'[l] = [d EXCEPT !.asked = TRUE] /\ \A k \in Lids \ {l} : dev'[k] = dev[k]
    BY <1>2, <2>1
  <2>3. /\ \E p : Sending(p)
        /\ \E v : Joined(S, T, v) /\ v.cmd = "OKAY"
        /\ \A k \in Lids \ {l} : Line(k)' = Line(k)
    <3>1. DevId(l) # 0
      BY StreamTypes
    <3> QED BY <1>4, <2>1, <3>1
  <2> QED BY <1>1, <1>8, <2>2, <2>3 DEF Answers, u, S, T
<1>9. CASE m.cmd = "CLSE" /\ d.st = "open"
  <2>1. dev' = [dev EXCEPT ![l] = Ended(@, "closed")] /\ Answer("CLSE", DevId(l), l)
    BY <1>9 DEF DevHandle
  <2>2. dev'[l] = Ended(d, "closed") /\ \A k \in Lids \ {l} : dev'[k] = dev[k]
    BY <1>2, <2>1
  <2>3. /\ \E p : Sending(p)
        /\ \E v : Joined(S, T, v) /\ v.cmd = "CLSE"
        /\ \A k \in Lids \ {l} : Line(k)' = Line(k)
    BY <1>4, <2>1
  <2> QED BY <1>1, <1>9, <2>2, <2>3 DEF Answers, u, S, T
<1> QED BY <1>1, <1>5, <1>6, <1>7, <1>8, <1>9

(* It handles a message that is no longer in the post.                     *)
LEMMA DDevHandle ==
  ASSUME DInv, UNCHANGED devRest, conn = "open", NEW m \in Message, DevHandle(m), NEW i,
         \A l \in Lids : IF l = m.arg0 THEN Handled(Post(l), Post(l)', Item(i, m)) ELSE Fewer(Post(l), Post(l)')
  PROVE  DRest'
<1>1. PICK l \in Lids : l = m.arg0
  BY DEF Message
<1>2. /\ arriving' = arriving \/ \E p : Sending(p)
      /\ Answers(dev[l], Line(l), Item(i, m), dev'[l], Line(l)')
      /\ \A k \in Lids \ {l} : dev'[k] = dev[k] /\ Line(k)' = Line(k)
  BY <1>1, HandleAnswers
<1>3. \A k \in Lids : Adapted(k, dev[k], Line(k), Post(k), received[k], k \notin lossy, dev[k]', Line(k)', Post(k)')
  <2> SUFFICES ASSUME NEW k \in Lids
               PROVE  Adapted(k, dev[k], Line(k), Post(k), received[k], k \notin lossy, dev'[k], Line(k)', Post(k)')
    OBVIOUS
  <2>1. Placed(Line(k)) /\ dev[k] \in DevStream
    BY StreamTypes
  <2>2. CASE k = l
    <3>1. Handled(Post(l), Post(l)', Item(i, m))
      BY <1>1
    <3> QED BY <1>2, <2>1, <2>2, <3>1, AnswersAdapted
  <2>3. CASE k # l
    <3>1. Fewer(Post(k), Post(k)') /\ Line(k)' = Line(k) /\ dev'[k] = dev[k]
      BY <1>1, <1>2, <2>3
    <3> QED BY <2>1, <3>1, FewerAdapted
  <2> QED BY <2>2, <2>3
<1>4. OwnersOK' /\ \A k \in Lids : StreamInv(k)'
  BY <1>3, StreamsAdapted
<1>5. WireOK' /\ PacketsOK'
  BY <1>2, DeviceWire
<1> QED BY <1>4, <1>5 DEF DRest

(* It takes a part of the post, and does no more.                          *)
LEMMA DDevWaits ==
  ASSUME DInv, UNCHANGED devRest, UNCHANGED <<dev, arriving>>, \A l \in Lids : Fewer(Post(l), Post(l)')
  PROVE  DRest'
<1>1. \A k \in Lids : Adapted(k, dev[k], Line(k), Post(k), received[k], k \notin lossy, dev[k]', Line(k)', Post(k)')
  <2> SUFFICES ASSUME NEW k \in Lids
               PROVE  Adapted(k, dev[k], Line(k), Post(k), received[k], k \notin lossy, dev[k], Line(k)', Post(k)')
    OBVIOUS
  <2>1. Placed(Line(k)) /\ Fewer(Post(k), Post(k)')
    BY StreamTypes
  <2>2. Line(k)' = Line(k)
    BY DEF devRest, ghosts, Line, Hands, Queued
  <2> QED BY <2>1, <2>2, FewerAdapted
<1>2. OwnersOK' /\ \A k \in Lids : StreamInv(k)'
  BY <1>1, StreamsAdapted
<1>3. WireOK' /\ PacketsOK'
  BY DeviceWire
<1> QED BY <1>2, <1>3 DEF DRest

LEMMA DDevTake ==
  ASSUME DInv, DevTake
  PROVE  DRest'
<1> DEFINE kind == Head(unsent)[1]
           w == unsent
<1>1. /\ w # <<>> /\ unsent' = Tail(w) /\ UNCHANGED devRest
  BY DEF DevTake
<1>2. /\ w \in Seq(Kinds \X Message) /\ half \in Message \cup {None} /\ None \notin Message
  BY TasksAssumption DEF DInv, IInv, LInv, WirePart
<1>3. Head(w)[2] \in Message
  BY <1>1, <1>2
<1>4. PICK m \in Message : m = Head(unsent)[2]
  BY <1>3
<1>5. \A l \in Lids : Post(l) = PostOf(l, half, w) /\ Post(l)' = PostOf(l, half', Tail(w))
  BY <1>1 DEF Post
<1>6. \A l \in Lids :
        LET P == Post(l) IN
        /\ Fewer(P, PostOf(l, half, Tail(w))) /\ Fewer(P, PostOf(l, None, Tail(w)))
        /\ Head(w)[1] = "header" => Fewer(P, PostOf(l, m, Tail(w)))
        /\ Head(w)[1] = "header" /\ m.arg0 = l => Handled(P, PostOf(l, None, Tail(w)), Item(1, m))
        /\ half # None /\ half.arg0 = l => Handled(P, PostOf(l, None, Tail(w)), Item(0, half))
  <2> SUFFICES ASSUME NEW l \in Lids
               PROVE
        LET P == PostOf(l, half, w) IN
        /\ Fewer(P, PostOf(l, half, Tail(w))) /\ Fewer(P, PostOf(l, None, Tail(w)))
        /\ Head(w)[1] = "header" => Fewer(P, PostOf(l, m, Tail(w)))
        /\ Head(w)[1] = "header" /\ m.arg0 = l => Handled(P, PostOf(l, None, Tail(w)), Item(1, m))
        /\ half # None /\ half.arg0 = l => Handled(P, PostOf(l, None, Tail(w)), Item(0, half))
    BY <1>5
  <2> DEFINE X == Kinds \X Message
  <2>1. w \in Seq(X) /\ w # <<>> /\ m = Head(w)[2]
    BY <1>1, <1>2, <1>4
  <2> HIDE DEF w, X
  <2> QED BY <2>1, PostTaken
<1>7. CASE half' = half /\ UNCHANGED <<dev, arriving>>
  <2>1. \A l \in Lids : Fewer(Post(l), Post(l)')
    BY <1>5, <1>6, <1>7
  <2> QED BY <1>1, <1>7, <2>1, DDevWaits
<1>8. CASE half' = m /\ kind = "header" /\ UNCHANGED <<dev, arriving>>
  <2>1. \A l \in Lids : Fewer(Post(l), Post(l)')
    BY <1>5, <1>6, <1>8
  <2> QED BY <1>1, <1>8, <2>1, DDevWaits
<1>9. CASE conn = "open" /\ half = None /\ half' = None /\ kind = "header" /\ DevHandle(m)
  <2>1. \A l \in Lids : IF l = m.arg0 THEN Handled(Post(l), Post(l)', Item(1, m)) ELSE Fewer(Post(l), Post(l)')
    BY <1>5, <1>6, <1>9
  <2> QED BY <1>1, <1>9, <2>1, DDevHandle
<1>10. CASE conn = "open" /\ half = m /\ half' = None /\ DevHandle(m)
  <2>1. \A l \in Lids : IF l = m.arg0 THEN Handled(Post(l), Post(l)', Item(0, m)) ELSE Fewer(Post(l), Post(l)')
    BY <1>2, <1>5, <1>6, <1>10
  <2> QED BY <1>1, <1>10, <2>1, DDevHandle
<1>11. \/ half' = half /\ UNCHANGED <<dev, arriving>>
       \/ half' = m /\ kind = "header" /\ UNCHANGED <<dev, arriving>>
       \/ conn = "open" /\ half = None /\ half' = None /\ kind = "header" /\ DevHandle(m)
       \/ conn = "open" /\ half = m /\ half' = None /\ DevHandle(m)
  BY <1>4 DEF DevTake
<1> QED BY <1>7, <1>8, <1>9, <1>10, <1>11

LEMMA DDevice ==
  ASSUME DInv, Device
  PROVE  DRest'
BY DDevTake, DDevSend, DDevClose DEF Device
-----------------------------------------------------------------------------
(* The invariant, and what it says of the data in transit.                 *)

LEMMA InitDInv == Init => DInv
<1> SUFFICES ASSUME Init PROVE DInv
  OBVIOUS
<1>1. \A t \in Tasks : task[t] = IdleTask
  BY DEF Init
<1>2. /\ dev = [l \in Lids |-> NoStream] /\ half = None /\ unsent = <<>> /\ arriving = <<>>
      /\ store = EmptyStore /\ received = [l \in Lids |-> <<>>] /\ conn = "open"
  BY DEF Init
<1>3. Hands = {} /\ \A k : QueueOf(store, k) = <<>>
  BY <1>1, <1>2 DEF Hands, QueueOf, EmptyStore, IdleTask
<1>4. \A l \in Lids : Line(l) = {} /\ Post(l) = {}
  <2> SUFFICES ASSUME NEW l \in Lids PROVE Line(l) = {} /\ Post(l) = {}
    OBVIOUS
  <2>1. Line(l) = {}
    BY <1>2, <1>3, NoLine DEF Line, Queued
  <2>2. Len(<<>>) = 0
    OBVIOUS
  <2>3. Post(l) = PostOf(l, None, <<>>)
    BY <1>2 DEF Post
  <2>4. \A v : v \notin PostOf(l, None, <<>>)
    BY <2>2, PostHas
  <2> QED BY <2>1, <2>3, <2>4
<1>5. OwnersOK
  BY <1>1, TasksAssumption DEF OwnersOK, IdleTask, Init
<1>6. WireOK
  BY <1>1, <1>2 DEF WireOK, NoStream
<1>7. PacketsOK
  <2>1. Len(arriving) = 0 /\ DOMAIN store = {}
    BY <1>2 DEF EmptyStore
  <2> QED BY <1>1, <2>1 DEF PacketsOK, IdleTask
<1>8. \A l \in Lids : StreamInv(l)
  <2> SUFFICES ASSUME NEW l \in Lids PROVE StreamInv(l)
    OBVIOUS
  <2>1. /\ dev[l] = NoStream /\ NoStream.st = "none" /\ received[l] = <<>> /\ Line(l) = {} /\ Post(l) = {}
    BY <1>2, <1>4 DEF NoStream
  <2>2. LidOK(l, dev[l], Line(l), Post(l), received[l], local_id)
    BY <2>1 DEF LidOK, StreamFacts, Unopened, Some
  <2>3. \A t \in Tasks : task[t].lid # l
    BY <1>1 DEF IdleTask, Lids
  <2> QED BY <2>2, <2>3 DEF StreamInv
<1> QED BY <1>5, <1>6, <1>7, <1>8, InitIInv DEF DInv

LEMMA DRun ==
  ASSUME DInv, NEW t \in Tasks, Run(t)
  PROVE  DRest'
<1>1. CASE Suspend(t)
  BY <1>1, AllSame DEF Suspend, wireVars, ghosts
<1>2. CASE Timeout(t)
  <2>1. Strike(t) /\ local_id' = local_id
    BY <1>2 DEF Timeout, Strike
  <2>2. CASE task[t].at \in {"header", "data"}
    BY <2>1, <2>2, DStruckReading
  <2>3. CASE task[t].at \notin {"data", "header"}
    BY <2>1, <2>3, DStruck
  <2> QED BY <2>2, <2>3
<1>3. CASE \/ Queue(t) \/ SendHeader(t) \/ SendData(t) \/ SendDone(t) \/ SendNowhere(t)
           \/ ReadStore(t) \/ RecheckStore(t) \/ ReadHeader(t) \/ ReadData(t) \/ ReadNoHeader(t)
  BY <1>3, DQueue, DSendHeader, DSendData, DSendDone, DReadStore, DRecheckStore, DReadHeader, DReadData,
     DReadNoHeader
<1>4. CASE \/ NoConnection(t) \/ WriteFile(t) \/ CalledBack(t)
           \/ BeginClosing(t) \/ CloseTransport(t) \/ CloseWedged(t) \/ Dialed(t) \/ Greeted(t)
  BY <1>4, DNoConnection, DWriteFile, DBeginClosing, DCloseTransport, DReset
<1> QED BY <1>1, <1>2, <1>3, <1>4 DEF Run

LEMMA NextDInv == DInv /\ [Next]_vars => DInv'
<1> SUFFICES ASSUME DInv, [Next]_vars PROVE DInv'
  OBVIOUS
<1>1. IInv'
  BY NextIInv DEF DInv
<1>2. ASSUME UNCHANGED vars PROVE DRest'
  BY <1>2, AllSame DEF vars, wireVars, ghosts
<1>3. ASSUME Device PROVE DRest'
  BY <1>3, DDevice
<1>4. ASSUME NEW t \in Tasks, Run(t) PROVE DRest'
  BY <1>4, DRun
<1>5. ASSUME NEW t \in Tasks, Call(t) PROVE DRest'
  BY <1>5, DStart, DReset DEF Call
<1>6. ASSUME NEW t \in Tasks, Cancel(t) PROVE DRest'
  <2>1. Strike(t) /\ local_id' = local_id
    BY <1>6 DEF Cancel, Strike
  <2>2. CASE task[t].at \in {"header", "data"}
    BY <2>1, <2>2, DStruckReading
  <2>3. CASE task[t].at \notin {"data", "header"}
    BY <2>1, <2>3, DStruck
  <2> QED BY <2>2, <2>3
<1>7. DRest'
  BY <1>2, <1>3, <1>4, <1>5, <1>6 DEF Next, Resting
<1> QED BY <1>1, <1>7 DEF DInv, DRest

LEMMA SpecDInv == Spec => []DInv
BY InitDInv, NextDInv, PTL DEF Spec

-----------------------------------------------------------------------------
(* The data in transit, seen from the line.                                *)

LEMMA TransitIs ==
  ASSUME NEW t \in Tasks, NEW l, l = task[t].lid, NEW q, q = Queued(l), NEW c
  PROVE  c \in InTransit(t) <=>
           \/ task[t].step = "okay" /\ c = <<0, 0, task[t].pkt.data>>
           \/ \E i \in DOMAIN q : q[i].cmd = "WRTE" /\ c = <<1, i, q[i].data>>
           \/ \E u \in Tasks : /\ task[u].at = "data" /\ task[u].pkt.cmd = "WRTE" /\ task[u].pkt.arg1 = l
                               /\ c = <<2, 0, task[u].pkt.data>>
           \/ \E i \in DOMAIN arriving :
                LET p == arriving[i][2] IN
                /\ arriving[i][1] = "header" /\ p.cmd = "WRTE" /\ p.arg1 = l /\ c = <<3, i, p.data>>
BY DEF InTransit, Chunk, Queued, Key

(* The place in transit of an item of the line at n, with m in the store.  *)
PlaceOf(n, m) == IF n < 0 THEN <<1, n + m + 1>> ELSE IF n = 0 THEN <<2, 0>> ELSE <<3, n>>

LEMMA TransitFromLine ==
  ASSUME DInv, NEW t \in Tasks, NEW l \in Lids, l = task[t].lid, NEW m, m = Len(Queued(l))
  PROVE  /\ \A c \in InTransit(t) :
              \/ task[t].step = "okay" /\ c = <<0, 0, task[t].pkt.data>>
              \/ \E w \in Line(l) : w.cmd = "WRTE" /\ c[3] = w.data /\ <<c[1], c[2]>> = PlaceOf(w.pos, m)
         /\ \A w \in Line(l) : w.cmd = "WRTE" => \E c \in InTransit(t) : c[3] = w.data
<1> DEFINE q == Queued(l)
           a == arriving
<1>1. Line(l) = LineOf(l, q, Hands, a)
  BY DEF Line
<1>2. /\ m \in Nat /\ Len(a) \in Nat /\ DOMAIN a = 1 .. Len(a) /\ DOMAIN q = 1 .. m
  <2>1. q \in Seq(WholeStored) /\ a \in Seq(Kinds \X WholePacket)
    BY <1>1, StreamTypes
  <2> HIDE DEF q, a
  <2>2. DOMAIN q = 1 .. Len(q) /\ DOMAIN a = 1 .. Len(a) /\ Len(a) \in Nat /\ Len(q) \in Nat
    BY <2>1
  <2> QED BY <2>2 DEF q
<1>3. \A p : p \in Hands <=> \E u \in Tasks : task[u].at = "data" /\ p = task[u].pkt
  BY DEF Hands
<1> HIDE DEF q, a
<1>4. \A w : w \in Line(l) <=>
        \/ \E i \in 1 .. m : w = Item(i - m - 1, q[i])
        \/ \E p \in Hands : p.arg1 = l /\ w = Item(0, p)
        \/ \E i \in 1 .. Len(a) : a[i][1] = "header" /\ a[i][2].arg1 = l /\ w = Item(i, a[i][2])
  BY <1>1, LineIs DEF q
<1>5. \A c : c \in InTransit(t) <=>
           \/ task[t].step = "okay" /\ c = <<0, 0, task[t].pkt.data>>
           \/ \E i \in DOMAIN q : q[i].cmd = "WRTE" /\ c = <<1, i, q[i].data>>
           \/ \E u \in Tasks : /\ task[u].at = "data" /\ task[u].pkt.cmd = "WRTE" /\ task[u].pkt.arg1 = l
                               /\ c = <<2, 0, task[u].pkt.data>>
           \/ \E i \in DOMAIN a :
                LET p == a[i][2] IN
                /\ a[i][1] = "header" /\ p.cmd = "WRTE" /\ p.arg1 = l /\ c = <<3, i, p.data>>
  BY TransitIs DEF q, a
<1>6. \A n, p : Item(n, p).pos = n /\ Item(n, p).cmd = p.cmd /\ Item(n, p).data = p.data
  BY DEF Item
<1> HIDE DEF Hands
<1>7. ASSUME NEW i \in 1 .. m, q[i].cmd = "WRTE"
      PROVE  \E w \in Line(l) : w.cmd = "WRTE" /\ q[i].data = w.data /\ <<1, i>> = PlaceOf(w.pos, m)
  <2>1. Item(i - m - 1, q[i]) \in Line(l)
    BY <1>4
  <2>2. PlaceOf(i - m - 1, m) = <<1, i>>
    BY <1>2 DEF PlaceOf
  <2> QED BY <1>6, <1>7, <2>1, <2>2
<1>8. ASSUME NEW u \in Tasks, task[u].at = "data", task[u].pkt.cmd = "WRTE", task[u].pkt.arg1 = l
      PROVE  \E w \in Line(l) : w.cmd = "WRTE" /\ task[u].pkt.data = w.data /\ <<2, 0>> = PlaceOf(w.pos, m)
  <2>1. Item(0, task[u].pkt) \in Line(l)
    BY <1>3, <1>4, <1>8
  <2>2. PlaceOf(0, m) = <<2, 0>>
    BY DEF PlaceOf
  <2> QED BY <1>6, <1>8, <2>1, <2>2
<1>9. ASSUME NEW i \in 1 .. Len(a), a[i][1] = "header", a[i][2].arg1 = l, a[i][2].cmd = "WRTE"
      PROVE  \E w \in Line(l) : w.cmd = "WRTE" /\ a[i][2].data = w.data /\ <<3, i>> = PlaceOf(w.pos, m)
  <2>1. Item(i, a[i][2]) \in Line(l)
    BY <1>4, <1>9
  <2>2. PlaceOf(i, m) = <<3, i>>
    BY <1>2 DEF PlaceOf
  <2> QED BY <1>6, <1>9, <2>1, <2>2
<1>10. ASSUME NEW c \in InTransit(t)
       PROVE  \/ task[t].step = "okay" /\ c = <<0, 0, task[t].pkt.data>>
              \/ \E w \in Line(l) : w.cmd = "WRTE" /\ c[3] = w.data /\ <<c[1], c[2]>> = PlaceOf(w.pos, m)
  <2>1. CASE \E i \in DOMAIN q : q[i].cmd = "WRTE" /\ c = <<1, i, q[i].data>>
    BY <1>2, <1>7, <2>1
  <2>2. CASE \E u \in Tasks : /\ task[u].at = "data" /\ task[u].pkt.cmd = "WRTE" /\ task[u].pkt.arg1 = l
                              /\ c = <<2, 0, task[u].pkt.data>>
    BY <1>8, <2>2
  <2>3. CASE \E i \in DOMAIN a :
                LET p == a[i][2] IN
                /\ a[i][1] = "header" /\ p.cmd = "WRTE" /\ p.arg1 = l /\ c = <<3, i, p.data>>
    BY <1>2, <1>9, <2>3
  <2> QED BY <1>5, <2>1, <2>2, <2>3
<1>11. ASSUME NEW w \in Line(l), w.cmd = "WRTE" PROVE \E c \in InTransit(t) : c[3] = w.data
  <2>1. CASE \E i \in 1 .. m : w = Item(i - m - 1, q[i])
    <3>1. PICK i \in DOMAIN q : w = Item(i - m - 1, q[i])
      BY <1>2, <2>1
    <3>2. q[i].cmd = "WRTE" /\ q[i].data = w.data
      BY <1>6, <1>11, <3>1
    <3>3. <<1, i, q[i].data>> \in InTransit(t)
      BY <1>5, <3>2
    <3> QED BY <3>2, <3>3
  <2>2. CASE \E p \in Hands : p.arg1 = l /\ w = Item(0, p)
    <3>1. PICK u \in Tasks : task[u].at = "data" /\ task[u].pkt.arg1 = l /\ w = Item(0, task[u].pkt)
      BY <1>3, <2>2
    <3>2. task[u].pkt.cmd = "WRTE" /\ task[u].pkt.data = w.data
      BY <1>6, <1>11, <3>1
    <3>3. <<2, 0, task[u].pkt.data>> \in InTransit(t)
      BY <1>5, <3>1, <3>2
    <3> QED BY <3>2, <3>3
  <2>3. CASE \E i \in 1 .. Len(a) : a[i][1] = "header" /\ a[i][2].arg1 = l /\ w = Item(i, a[i][2])
    <3>1. PICK i \in DOMAIN a : a[i][1] = "header" /\ a[i][2].arg1 = l /\ w = Item(i, a[i][2])
      BY <1>2, <2>3
    <3>2. a[i][2].cmd = "WRTE" /\ a[i][2].data = w.data
      BY <1>6, <1>11, <3>1
    <3>3. <<3, i, a[i][2].data>> \in InTransit(t)
      BY <1>5, <3>1, <3>2
    <3> QED BY <3>2, <3>3
  <2> QED BY <1>4, <2>1, <2>2, <2>3
<1> QED BY <1>10, <1>11
-----------------------------------------------------------------------------
(* The data in transit of one task, and their order.                       *)
LEMMA NothingLostOf ==
  ASSUME DInv, NEW t \in Tasks, task[t].step \in {"stream", "flush", "filesync", "okay"},
         task[t].at \notin {"file", "callback"}, NEW l, l = task[t].lid, l \notin lossy, dev[l].st # "gone",
         NEW got, got = Len(received[l])
  PROVE  /\ received[l] = [i \in 1 .. got |-> <<l, i>>]
         /\ {c[3] : c \in InTransit(t)} = {<<l, i>> : i \in got + 1 .. dev[l].n}
         /\ \A a, b \in InTransit(t) : Ahead(a, b) => a[3][2] < b[3][2]
<1> DEFINE x == task[t]
           d == dev[l]
           r == received[l]
           S == Line(l)
           I == InTransit(t)
<1>1. l \in Lids
  BY OwnLid DEF Sends, Reads
<1>2. /\ Placed(S) /\ got \in Nat /\ d.n \in Nat
  BY <1>1, StreamTypes DEF DevStream
<1>3. Reading(l, x, d, S, Post(l), r, TRUE)
  <2>1. ReaderOK(l, x, d, S, Post(l), r, TRUE, Queued(l))
    BY <1>1, ReaderHas
  <2> QED BY <2>1 DEF ReaderOK, Wanting, Early
<1>4. PICK m : m = Len(Queued(l))
  OBVIOUS
<1>5. /\ \A c \in I :
            \/ x.step = "okay" /\ c = <<0, 0, x.pkt.data>>
            \/ \E w \in S : w.cmd = "WRTE" /\ c[3] = w.data /\ <<c[1], c[2]>> = PlaceOf(w.pos, m)
      /\ \A w \in S : w.cmd = "WRTE" => \E c \in I : c[3] = w.data
  BY <1>1, <1>4, TransitFromLine
<1>6. x.step = "okay" => <<0, 0, x.pkt.data>> \in I
  BY TransitIs
<1> DEFINE have == IF x.step = "okay" THEN got + 1 ELSE got
<1>7. /\ Have(x, r) = have /\ (Held(x) <=> x.step = "okay")
  <2>1. Held(x) <=> x.step = "okay"
    BY DEF Held
  <2>2. Len(r) = got
    OBVIOUS
  <2> HIDE DEF x, r
  <2>3. CASE Held(x)
    <3>1. Have(x, r) = got + 1 /\ have = got + 1
      BY <2>1, <2>2, <2>3 DEF Have
    <3> QED BY <2>1, <3>1
  <2>4. CASE ~Held(x)
    <3>1. Have(x, r) = got /\ have = got
      BY <1>2, <2>1, <2>2, <2>4 DEF Have
    <3> QED BY <2>1, <3>1
  <2> QED BY <2>3, <2>4
<1> HIDE DEF x, d, r, S, I
<1>8. /\ r = Given(l, got) /\ have <= d.n
      /\ x.step = "okay" => x.pkt.data = <<l, got + 1>>
  BY <1>3, <1>7 DEF Reading, HasGot, r
<1> HIDE DEF have
<1>9. /\ \A w \in S : w.cmd = "WRTE" => w.data = <<l, have + 1>> /\ d.n = have + 1
      /\ \A v, w \in S : v.cmd = "WRTE" /\ w.cmd = "WRTE" => v.pos = w.pos
  BY <1>3, <1>7 DEF Reading, DataOK
<1>10. d.n = have \/ \E w \in S : w.cmd = "WRTE"
  BY <1>3, <1>7 DEF Reading, Whole, Some, d
<1>11. have \in Nat /\ got <= have /\ have <= got + 1 /\ (x.step = "okay" <=> have = got + 1)
  BY <1>2 DEF have
<1>12. ASSUME NEW c \in I
       PROVE  \/ x.step = "okay" /\ c = <<0, 0, <<l, got + 1>> >>
              \/ c[3] = <<l, have + 1>> /\ d.n = have + 1 /\ \E w \in S : w.cmd = "WRTE" /\ <<c[1], c[2]>> = PlaceOf(w.pos, m)
  BY <1>5, <1>8, <1>9
<1>13. {c[3] : c \in I} = {<<l, i>> : i \in got + 1 .. d.n}
  <2>1. ASSUME NEW c \in I PROVE \E i \in got + 1 .. d.n : c[3] = <<l, i>>
    <3>1. CASE x.step = "okay" /\ c = <<0, 0, <<l, got + 1>> >>
      <4>1. got + 1 \in got + 1 .. d.n /\ c[3] = <<l, got + 1>>
        BY <1>2, <1>8, <1>11, <3>1
      <4> QED BY <4>1
    <3>2. CASE c[3] = <<l, have + 1>> /\ d.n = have + 1
      <4>1. have + 1 \in got + 1 .. d.n
        BY <1>2, <1>11, <3>2
      <4> QED BY <3>2, <4>1
    <3> QED BY <1>12, <3>1, <3>2
  <2>2. ASSUME NEW i \in got + 1 .. d.n PROVE \E c \in I : c[3] = <<l, i>>
    <3>1. CASE i <= have
      <4>1. i = got + 1 /\ x.step = "okay"
        BY <1>2, <1>11, <3>1
      <4>2. <<0, 0, x.pkt.data>> \in I /\ <<0, 0, x.pkt.data>>[3] = <<l, got + 1>>
        BY <1>6, <1>8, <4>1 DEF x, I
      <4> QED BY <4>1, <4>2
    <3>2. CASE i > have
      <4>1. PICK w \in S : w.cmd = "WRTE"
        BY <1>2, <1>10, <1>11, <3>2
      <4>2. w.data = <<l, have + 1>> /\ d.n = have + 1
        BY <1>9, <4>1
      <4>3. i = have + 1
        BY <1>2, <1>11, <3>2, <4>2
      <4> QED BY <1>5, <4>1, <4>2, <4>3
    <3> QED BY <1>2, <1>11, <3>1, <3>2
  <2>3. {c[3] : c \in I} \subseteq {<<l, i>> : i \in got + 1 .. d.n}
    BY <2>1
  <2>4. {<<l, i>> : i \in got + 1 .. d.n} \subseteq {c[3] : c \in I}
    BY <2>2
  <2> QED BY <2>3, <2>4
<1>14. ASSUME NEW a \in I, NEW b \in I, Ahead(a, b) PROVE a[3][2] < b[3][2]
  <2>1. \A n : PlaceOf(n, m)[1] \in {1, 2, 3}
    BY DEF PlaceOf
  <2>2. CASE a = <<0, 0, <<l, got + 1>> >>
    <3>1. a[1] = 0 /\ a[2] = 0 /\ a[3] = <<l, got + 1>>
      BY <2>2
    <3>2. b # <<0, 0, <<l, got + 1>> >>
      BY <1>14, <2>2 DEF Ahead
    <3>3. b[3] = <<l, have + 1>> /\ d.n = have + 1
      BY <1>12, <3>2
    <3>4. x.step = "okay"
      BY <1>12, <2>1, <2>2
    <3>5. a[3][2] = got + 1 /\ b[3][2] = have + 1
      BY <3>1, <3>3
    <3> QED BY <1>2, <1>11, <3>4, <3>5
  <2>3. CASE a # <<0, 0, <<l, got + 1>> >>
    <3>1. PICK v \in S : v.cmd = "WRTE" /\ <<a[1], a[2]>> = PlaceOf(v.pos, m)
      BY <1>12, <2>3
    <3>2. CASE b = <<0, 0, <<l, got + 1>> >>
      <4>1. a[1] \in {1, 2, 3} /\ b[1] = 0
        <5>1. <<a[1], a[2]>>[1] = a[1]
          OBVIOUS
        <5> QED BY <2>1, <3>1, <3>2, <5>1
      <4> QED BY <1>14, <4>1 DEF Ahead
    <3>3. CASE b # <<0, 0, <<l, got + 1>> >>
      <4>1. PICK w \in S : w.cmd = "WRTE" /\ <<b[1], b[2]>> = PlaceOf(w.pos, m)
        BY <1>12, <3>3
      <4>2. <<a[1], a[2]>> = <<b[1], b[2]>>
        BY <1>9, <3>1, <4>1
      <4>3. a[1] = b[1] /\ a[2] = b[2] /\ a[1] \in {1, 2, 3}
        <5>1. <<a[1], a[2]>>[1] = a[1]
          OBVIOUS
        <5> QED BY <2>1, <3>1, <4>2, <5>1
      <4>4. a[2] \in Int
        <5>1. v.pos \in Int
          BY <1>2 DEF Placed
        <5>2. m \in Nat
          BY <1>1, <1>4, StreamTypes
        <5>3. PlaceOf(v.pos, m)[2] \in Int
          BY <5>1, <5>2 DEF PlaceOf
        <5>4. <<a[1], a[2]>>[2] = a[2]
          OBVIOUS
        <5> QED BY <3>1, <5>3, <5>4
      <4> QED BY <1>14, <4>3, <4>4 DEF Ahead
    <3> QED BY <3>2, <3>3
  <2> QED BY <2>2, <2>3
<1> QED BY <1>8, <1>13, <1>14 DEF Given, r, d, I

(* Cancelling a task that reads for others loses nothing of theirs, unless *)
(* a packet of their stream is given up half way.                          *)
THEOREM CancelledLosesNothing == Spec => []NothingLost
<1>1. DInv => NothingLost
  BY NothingLostOf DEF NothingLost
<1> QED BY <1>1, SpecDInv, PTL
-----------------------------------------------------------------------------
(* Every stream is a channel of its own.                                   *)

EndedStreams == {l \in Lids : dev[l].st \in {"closed", "gone"}}

Output == [l \in Lids |-> SentBy(l)]

Places == [l \in Lids |-> Len(received[l])]

LEMMA ChannelsInit == Init => Channels!Init
<1> SUFFICES ASSUME Init PROVE Channels!Init
  OBVIOUS
<1>1. \A l \in Lids : dev[l].n = 0 /\ dev[l].st = "none"
  BY DEF Init, NoStream
<1>2. \A l \in Lids : SentBy(l) = <<>>
  BY <1>1 DEF SentBy
<1>3. Output = [l \in Lids |-> <<>>] /\ EndedStreams = {}
  BY <1>1, <1>2 DEF Output, EndedStreams
<1>4. Places = [l \in Lids |-> 0]
  BY DEF Init, Places
<1> QED BY <1>3, <1>4 DEF Channels!Init, Init, Output, EndedStreams, Places

(* A step that sends nothing and gives nothing to a caller ends some       *)
(* streams at most.                                                        *)
LEMMA ChannelsClose ==
  ASSUME \A l \in Lids : dev'[l].n = dev[l].n /\ (l \in EndedStreams => l \in EndedStreams'),
         UNCHANGED <<received, complete, lossy>>
  PROVE  Channels!Next
<1>1. Output' = Output
  BY DEF Output, SentBy
<1>2. EndedStreams \cup EndedStreams' = EndedStreams' /\ EndedStreams' \in SUBSET Lids
  BY DEF EndedStreams
<1>3. EndedStreams' \in {EndedStreams \cup S : S \in SUBSET Lids}
  BY <1>2
<1>4. Channels!Close
  BY <1>1, <1>3 DEF Channels!Close, Output, EndedStreams, Places
<1> QED BY <1>4 DEF Channels!Next

LEMMA ChannelsSend ==
  ASSUME DInv, NEW l \in Lids, DevSend(l)
  PROVE  Channels!Next
<1>1. PICK d : d = dev[l]
  OBVIOUS
<1>2. /\ d.st = "open" /\ d.n < Chunks /\ UNCHANGED <<received, complete, lossy>>
      /\ dev' = [dev EXCEPT ![l] = [d EXCEPT !.n = d.n + 1, !.credit = 0]]
  BY <1>1 DEF DevSend, devRest, ghosts
<1>3. d \in DevStream /\ d.n \in Nat /\ dev \in [Lids -> DevStream]
  BY <1>1, StreamTypes, TasksAssumption DEF LInv, WirePart, DevStream
<1>4. /\ dev'[l].n = d.n + 1 /\ dev'[l].st = d.st
      /\ \A k \in Lids : k # l => dev'[k] = dev[k]
  BY <1>2, <1>3 DEF DevStream
<1>5. EndedStreams' = EndedStreams
  BY <1>1, <1>4 DEF EndedStreams
<1>6. <<l, d.n + 1>> \in Data
  BY <1>2, <1>3, TasksAssumption DEF Data
<1>7. SentBy(l)' = Append(SentBy(l), <<l, d.n + 1>>)
  <2> DEFINE s == [i \in 1 .. d.n |-> <<l, i>>]
             v == [i \in 1 .. d.n + 1 |-> <<l, i>>]
  <2>1. v = Append(s, <<l, d.n + 1>>)
    <3>1. s \in Seq(Nat \X Nat) /\ Len(s) = d.n
      BY <1>3 DEF Lids
    <3>2. v = [i \in 1 .. d.n + 1 |-> IF i = d.n + 1 THEN <<l, d.n + 1>> ELSE s[i]]
      BY <1>3
    <3> HIDE DEF s, v
    <3> QED BY <1>3, <3>1, <3>2
  <2> QED BY <1>1, <1>4, <2>1 DEF SentBy
<1>8. Output' = [Output EXCEPT ![l] = Append(Output[l], <<l, d.n + 1>>)]
  <2>1. \A k \in Lids : k # l => SentBy(k)' = SentBy(k)
    BY <1>4 DEF SentBy
  <2> QED BY <1>7, <2>1 DEF Output
<1>9. l \notin EndedStreams
  BY <1>1, <1>2 DEF EndedStreams
<1>10. Channels!Send(l, <<l, d.n + 1>>)
  BY <1>2, <1>5, <1>8, <1>9 DEF Channels!Send, Output, EndedStreams, Places
<1> QED BY <1>6, <1>10 DEF Channels!Next

(* A message that the device handles sends nothing: an OPEN is for a       *)
(* stream that is not open yet.                                            *)
LEMMA ChannelsHandle ==
  ASSUME DInv, NEW m \in Message, DevHandle(m), UNCHANGED <<received, complete, lossy>>,
         \E v \in Post(m.arg0) : v.cmd = m.cmd
  PROVE  Channels!Next
<1>1. PICK l \in Lids : l = m.arg0
  BY DEF Message
<1>2. dev \in [Lids -> DevStream] /\ dev[l] \in DevStream
  BY StreamTypes DEF LInv, WirePart
<1>3. m.cmd = "OPEN" => dev[l].st = "none" /\ dev[l].n = 0
  <2>1. StreamFacts(dev[l], Line(l), Post(l))
    BY StreamTypes DEF StreamInv, LidOK
  <2>2. m.cmd = "OPEN" => Some(Post(l), "OPEN")
    BY <1>1 DEF Some
  <2> QED BY <2>1, <2>2 DEF StreamFacts, NoStream
<1>4. m.cmd \in {"OPEN", "OKAY", "WRTE", "CLSE"}
  BY DEF Message
<1>5. \/ dev' = dev
      \/ m.cmd = "OPEN" /\ dev' = [dev EXCEPT ![l] =
                  [st |-> "open", op |-> m.data, credit |-> 1, n |-> 0, asked |-> FALSE]]
      \/ dev' = [dev EXCEPT ![l].credit = 1]
      \/ dev' = [dev EXCEPT ![l].asked = TRUE]
      \/ dev' = [dev EXCEPT ![l] = Ended(@, "closed")]
  BY <1>1, <1>4 DEF DevHandle, DevOpen
<1>6. \A k \in Lids : k # l => dev'[k] = dev[k]
  BY <1>2, <1>5
<1>7. dev'[l].n = dev[l].n /\ (dev[l].st \in {"closed", "gone"} => dev'[l].st \in {"closed", "gone"})
  <2>1. PICK d \in DevStream : d = dev[l]
    BY <1>2
  <2>2. CASE dev' = dev
    BY <2>2
  <2>3. CASE m.cmd = "OPEN" /\ dev' = [dev EXCEPT ![l] =
               [st |-> "open", op |-> m.data, credit |-> 1, n |-> 0, asked |-> FALSE]]
    BY <1>2, <1>3, <2>3
  <2>4. CASE dev' = [dev EXCEPT ![l].credit = 1]
    <3>1. dev'[l] = [d EXCEPT !.credit = 1]
      BY <1>2, <2>1, <2>4
    <3> QED BY <2>1, <3>1 DEF DevStream
  <2>5. CASE dev' = [dev EXCEPT ![l].asked = TRUE]
    <3>1. dev'[l] = [d EXCEPT !.asked = TRUE]
      BY <1>2, <2>1, <2>5
    <3> QED BY <2>1, <3>1 DEF DevStream
  <2>6. CASE dev' = [dev EXCEPT ![l] = Ended(@, "closed")]
    <3>1. dev'[l] = Ended(d, "closed")
      BY <1>2, <2>1, <2>6
    <3> QED BY <2>1, <3>1 DEF DevStream, Ended
  <2> QED BY <1>5, <2>2, <2>3, <2>4, <2>5, <2>6
<1>8. \A k \in Lids : dev'[k].n = dev[k].n /\ (k \in EndedStreams => k \in EndedStreams')
  BY <1>6, <1>7 DEF EndedStreams
<1> QED BY <1>8, ChannelsClose

LEMMA ChannelsTake ==
  ASSUME DInv, DevTake
  PROVE  [Channels!Next]_(Channels!cVars)
<1>1. /\ unsent # <<>> /\ UNCHANGED <<received, complete, lossy>> /\ unsent \in Seq(Kinds \X Message)
  BY DEF DevTake, devRest, ghosts, DInv, IInv, LInv, WirePart
<1>2. Len(unsent) \in Nat \ {0} /\ Head(unsent) = unsent[1] /\ unsent[1][2] \in Message
  BY <1>1, TailIs
<1>3. PICK m \in Message : m = unsent[1][2]
  BY <1>2
<1>4. CASE dev' = dev
  <2>1. Output' = Output /\ EndedStreams' = EndedStreams
    BY <1>4 DEF Output, SentBy, EndedStreams
  <2> QED BY <1>1, <2>1 DEF Channels!cVars, Output, EndedStreams, Places
<1>5. CASE DevHandle(m) /\ (unsent[1][1] = "header" \/ half = m)
  <2>1. m # None
    BY TasksAssumption
  <2>2. Item(1, m) \in Post(m.arg0) \/ Item(0, m) \in Post(m.arg0)
    <3>1. CASE unsent[1][1] = "header"
      BY <1>2, <1>3, <3>1, PostHas DEF Post
    <3>2. CASE half = m
      BY <2>1, <3>2, PostHas DEF Post
    <3> QED BY <1>5, <3>1, <3>2
  <2>3. \E v \in Post(m.arg0) : v.cmd = m.cmd
    BY <2>2 DEF Item
  <2> QED BY <1>1, <1>5, <2>3, ChannelsHandle
<1>6. dev' = dev \/ (DevHandle(m) /\ (unsent[1][1] = "header" \/ half = m))
  BY <1>2, <1>3 DEF DevTake
<1> QED BY <1>4, <1>5, <1>6

(* A chunk is the next one when it is given to the caller, and a shell     *)
(* that returns was given all of them.                                     *)
LEMMA ChannelsGive ==
  ASSUME DInv, NEW t \in Tasks, SendDone(t) \/ SendNowhere(t)
  PROVE  [Channels!Next]_(Channels!cVars)
<1>1. PICK x, l, d, r : x = task[t] /\ l = x.lid /\ d = dev[l] /\ r = Len(received[l])
  OBVIOUS
<1>2. /\ UNCHANGED <<dev, lossy>>
      /\ received' = IF x.step = "okay" THEN [received EXCEPT ![l] = Append(received[l], x.pkt.data)]
                                        ELSE received
      /\ complete' = IF x.step = "reclose" THEN complete \cup {l} ELSE complete
  BY <1>1 DEF SendDone, SendNowhere, Return, wireVars
<1>3. x.step \in Sends /\ x.at \notin {"file", "callback"}
  <2>1. TaskOK(x)
    BY <1>1, OwnLid
  <2>2. CASE SendDone(t)
    BY <1>1, <2>1, <2>2 DEF SendDone, Resumes, TaskOK
  <2>3. CASE SendNowhere(t)
    BY <1>1, <2>3 DEF SendNowhere, Enters, AtLock, Has, Resumes
  <2> QED BY <2>2, <2>3
<1>4. /\ l \in Lids /\ d \in DevStream /\ received[l] \in Seq(Data) /\ d.n \in Nat /\ r \in Nat
  <2>1. l \in Lids
    BY <1>1, <1>3, OwnLid
  <2> QED BY <1>1, <2>1, StreamTypes, TasksAssumption DEF DevStream
<1>5. Output' = Output /\ EndedStreams' = EndedStreams
  BY <1>2 DEF Output, SentBy, EndedStreams
<1>6. Output[l] = [i \in 1 .. d.n |-> <<l, i>>]
  BY <1>1, <1>4 DEF Output, SentBy
<1>7. ReaderOK(l, x, d, Line(l), Post(l), received[l], l \notin lossy, Queued(l))
  BY <1>1, <1>4, ReaderHas
<1>8. CASE x.step = "okay"
  <2>1. Held(x) /\ HasGot(l, x, d, received[l])
    BY <1>3, <1>7, <1>8 DEF Held, ReaderOK, Wanting, Reading
  <2>2. x.pkt.data = <<l, r + 1>> /\ r < d.n
    BY <1>1, <1>4, <2>1 DEF HasGot, Have
  <2>3. Len(Output[l]) = d.n /\ Output[l][r + 1] = <<l, r + 1>>
    BY <1>4, <1>6, <2>2
  <2>4. received' = [received EXCEPT ![l] = Append(received[l], Output[l][Len(received[l]) + 1])]
    BY <1>1, <1>2, <1>8, <2>2, <2>3
  <2>5. Len(received[l]) < Len(Output[l]) /\ complete' = complete
    BY <1>1, <1>2, <1>8, <2>2, <2>3
  <2> DEFINE k == r + 1
  <2>6. /\ k \in Places[l] + 1 .. Len(Output[l]) /\ k = Places[l] + 1
        /\ received' = [received EXCEPT ![l] = Append(received[l], Output[l][k])]
    <3>1. Places[l] = r
      BY <1>1, <1>4 DEF Places
    <3>2. k \in r + 1 .. Len(Output[l])
      BY <1>4, <2>2, <2>3
    <3>3. received' = [received EXCEPT ![l] = Append(received[l], Output[l][k])]
      BY <1>1, <2>4
    <3> QED BY <3>1, <3>2, <3>3
  <2>7. Places' = [Places EXCEPT ![l] = k]
    <3>1. Len(received'[l]) = k /\ \A j \in Lids : j # l => received'[j] = received[j]
      <4>1. received \in [Lids -> Seq(Data)] /\ x.pkt.data \in Data
        <5>1. r + 1 \in 1 .. Chunks
          BY <1>4, <2>2, TasksAssumption DEF DevStream
        <5> QED BY <1>4, <2>2, <5>1 DEF Data, DInv, IInv, LInv, RestPart
      <4>2. received'[l] = Append(received[l], x.pkt.data)
        BY <1>2, <1>4, <1>8, <4>1
      <4> QED BY <1>1, <1>2, <1>4, <1>8, <4>1, <4>2
    <3> HIDE DEF k
    <3> QED BY <3>1 DEF Places
  <2> HIDE DEF k
  <2>8. Channels!Deliver(l)
    BY <1>2, <1>5, <2>5, <2>6, <2>7 DEF Channels!Deliver, Output, EndedStreams, Places
  <2> QED BY <1>4, <2>8 DEF Channels!Next
<1>9. CASE x.step = "reclose"
  <2>1. ToldOfEnd(l, d, received[l], l \notin lossy)
    BY <1>7, <1>9 DEF ReaderOK
  <2>2. l \in EndedStreams
    BY <1>1, <1>4, <2>1 DEF EndedStreams, ToldOfEnd
  <2>3. received[l] = Output[l] \/ l \in lossy
    BY <1>6, <2>1 DEF Given, ToldOfEnd
  <2>4. complete' = complete \cup {l} /\ received' = received
    BY <1>2, <1>9
  <2>5. Channels!Complete(l)
    BY <1>2, <1>5, <2>2, <2>3, <2>4 DEF Channels!Complete, Output, EndedStreams, Places
  <2> QED BY <1>4, <2>5 DEF Channels!Next
<1>10. CASE x.step \notin {"okay", "reclose"}
  <2>1. received' = received /\ complete' = complete
    BY <1>2, <1>10
  <2> QED BY <1>2, <1>5, <2>1 DEF Channels!cVars, Output, EndedStreams, Places
<1> QED BY <1>8, <1>9, <1>10

(* A packet that is given up loses something of its stream and no other.   *)
LEMMA ChannelsLose ==
  ASSUME UNCHANGED <<dev, received, complete>>, lossy' = lossy \/ \E l \in Lids : lossy' = lossy \cup {l}
  PROVE  [Channels!Next]_(Channels!cVars)
<1>1. Output' = Output /\ EndedStreams' = EndedStreams /\ Places' = Places
  BY DEF Output, SentBy, EndedStreams, Places
<1>2. CASE lossy' = lossy
  BY <1>1, <1>2 DEF Channels!cVars, Output, EndedStreams, Places
<1>3. CASE \E l \in Lids : lossy' = lossy \cup {l}
  <2>1. PICK l \in Lids : lossy' = lossy \cup {l}
    BY <1>3
  <2>2. Channels!Lose(l)
    BY <1>1, <2>1 DEF Channels!Lose, Output, EndedStreams, Places
  <2> QED BY <2>2 DEF Channels!Next
<1> QED BY <1>2, <1>3

LEMMA ChannelsInterrupted ==
  ASSUME DInv, NEW t \in Tasks, Interrupted(task[t]), UNCHANGED <<dev, received, complete>>
  PROVE  [Channels!Next]_(Channels!cVars)
<1>1. arriving \in Seq(Kinds \X WholePacket) /\ (task[t].at = "data" => task[t].pkt \in WholePacket)
  BY OwnLid DEF DInv, IInv, LInv, WirePart, TaskOK
<1>2. lossy' = lossy \/ \E l \in Lids : lossy' = lossy \cup {l}
  BY <1>1 DEF Interrupted, HeaderSpoiled, GivenUp, WholePacket, Packet
<1> QED BY <1>2, ChannelsLose

LEMMA ChannelsNext == DInv /\ [Next]_vars => [Channels!Next]_(Channels!cVars)
<1> SUFFICES ASSUME DInv, [Next]_vars PROVE [Channels!Next]_(Channels!cVars)
  OBVIOUS
<1>1. ASSUME UNCHANGED <<dev, received, complete, lossy>> PROVE [Channels!Next]_(Channels!cVars)
  BY <1>1, ChannelsLose
<1>2. ASSUME UNCHANGED vars PROVE [Channels!Next]_(Channels!cVars)
  BY <1>1, <1>2 DEF vars, wireVars, ghosts
<1>3. ASSUME NEW l \in Lids, DevClose(l) PROVE Channels!Next
  <2>1. /\ dev' = [dev EXCEPT ![l] = Ended(@, "closed")] /\ UNCHANGED <<received, complete, lossy>>
        /\ dev \in [Lids -> DevStream]
    BY <1>3 DEF DevClose, devRest, ghosts, DInv, IInv, LInv, WirePart
  <2>2. \A k \in Lids : dev'[k].n = dev[k].n /\ (k \in EndedStreams => k \in EndedStreams')
    BY <2>1 DEF EndedStreams, DevStream, Ended
  <2> QED BY <2>1, <2>2, ChannelsClose
<1>4. ASSUME Device PROVE [Channels!Next]_(Channels!cVars)
  BY <1>3, <1>4, ChannelsTake, ChannelsSend DEF Device
<1>5. ASSUME NEW t \in Tasks, BeginClosing(t) PROVE Channels!Next
  <2>1. /\ dev' = [l \in Lids |-> IF dev[l].st = "none" THEN dev[l] ELSE Ended(dev[l], "gone")]
        /\ UNCHANGED <<received, complete, lossy>> /\ dev \in [Lids -> DevStream]
    BY <1>5 DEF BeginClosing, DInv, IInv, LInv, WirePart
  <2>2. \A k \in Lids : dev'[k].n = dev[k].n /\ (k \in EndedStreams => k \in EndedStreams')
    <3> SUFFICES ASSUME NEW k \in Lids
                 PROVE  dev'[k].n = dev[k].n /\ (k \in EndedStreams => k \in EndedStreams')
      OBVIOUS
    <3>1. dev'[k] = IF dev[k].st = "none" THEN dev[k] ELSE Ended(dev[k], "gone")
      BY <2>1
    <3>2. dev[k] \in DevStream
      BY <2>1
    <3> QED BY <3>1, <3>2 DEF EndedStreams, DevStream, Ended
  <2> QED BY <2>1, <2>2, ChannelsClose
<1>6. ASSUME NEW t \in Tasks, Run(t) PROVE [Channels!Next]_(Channels!cVars)
  <2>1. CASE SendDone(t) \/ SendNowhere(t)
    BY <2>1, ChannelsGive
  <2>2. CASE BeginClosing(t)
    BY <1>5, <2>2
  <2>3. CASE ~(SendDone(t) \/ SendNowhere(t) \/ BeginClosing(t))
    <3>1. CASE Timeout(t)
      BY <3>1, ChannelsInterrupted DEF Timeout, Strike
    <3>2. CASE Suspend(t) \/ Queue(t) \/ SendHeader(t) \/ SendData(t) \/ ReadStore(t) \/ RecheckStore(t)
      BY <1>1, <3>2 DEF Suspend, Queue, SendHeader, SendData, ReadStore, RecheckStore, wireVars, ghosts
    <3>3. CASE ReadHeader(t) \/ NoConnection(t) \/ WriteFile(t) \/ CalledBack(t)
      BY <1>1, <3>3 DEF ReadHeader, NoConnection, WriteFile, CalledBack, readRest, wireVars, ghosts
    <3>5. CASE ReadData(t) \/ ReadNoHeader(t)
      <4>1. arriving \in Seq(Kinds \X WholePacket) /\ (task[t].at = "data" => task[t].pkt \in WholePacket)
        BY OwnLid DEF DInv, IInv, LInv, WirePart, TaskOK
      <4>2. lossy' = lossy \/ \E l \in Lids : lossy' = lossy \cup {l}
        BY <3>5, <4>1 DEF ReadData, DataIsThere, Resumes, ReadNoHeader, HeaderSpoiled, GivenUp,
           WholePacket, Packet
      <4>3. UNCHANGED <<dev, received, complete>>
        BY <3>5 DEF ReadData, ReadNoHeader, readRest
      <4> QED BY <4>2, <4>3, ChannelsLose
    <3>4. CASE CloseTransport(t) \/ CloseWedged(t) \/ Dialed(t) \/ Greeted(t)
      BY <1>1, <3>4 DEF CloseTransport, Emptied, CloseWedged, Dialed, Greeted, wireVars, ghosts
    <3> QED BY <1>6, <2>3, <3>1, <3>2, <3>3, <3>4, <3>5 DEF Run
  <2> QED BY <2>1, <2>2, <2>3
<1>7. ASSUME NEW t \in Tasks, Call(t) PROVE [Channels!Next]_(Channels!cVars)
  BY <1>1, <1>7 DEF Call, Start, CallReset, wireVars, ghosts
<1>8. ASSUME NEW t \in Tasks, Cancel(t) PROVE [Channels!Next]_(Channels!cVars)
  BY <1>8, ChannelsInterrupted DEF Cancel, Strike
<1> QED BY <1>2, <1>4, <1>6, <1>7, <1>8 DEF Next, Resting

(* The commands of the tasks implement the abstract specification          *)
(* StreamChannels, whatever is cancelled, times out or is spoiled: the     *)
(* stream of each is a private and ordered channel, reliable unless one of *)
(* its own packets was given up half way, and a shell that returns was     *)
(* given all the device sent, with the same exception.                     *)
THEOREM TasksAreChannels == Spec => ImplementsChannels
<1>1. Init => Channels!Init
  BY ChannelsInit
<1>2. DInv /\ [Next]_vars => [Channels!Next]_(Channels!cVars)
  BY ChannelsNext
<1> QED BY <1>1, <1>2, SpecDInv, PTL DEF Spec, ImplementsChannels, Channels!Spec
=============================================================================
