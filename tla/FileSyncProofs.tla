--------------------------- MODULE FileSyncProofs ---------------------------
(***************************************************************************)
(* The send buffer never outgrows a packet, for every packet size of at    *)
(* least four words, every chunk limit, path and file; and what is pushed, *)
(* pulled or listed arrives whole.                                         *)
(*                                                                         *)
(* For the latter the words on their way in a direction are taken as one   *)
(* sequence, however they are cut into packets and buffers: Up from the    *)
(* send buffer to what the device has parsed, Down from what the device    *)
(* has to say to the client's receive buffer.  Its frames continue the     *)
(* copy that has been made, and each other (Begins, Chained).              *)
(***************************************************************************)
EXTENDS FileSync, SequenceTheorems, TLAPS

(* What fits in a packet.                                                  *)
Small == {d \in Seq(Word) : Len(d) <= maxdata}

(* A request that fits in a packet.                                        *)
Fitting == {f \in Seq(Word) : RequestHeader <= Len(f) /\ Len(f) <= maxdata}

SmallPacket == [cmd : {"OKAY", "WRTE", "CLSE"}, data : Small]

(* A frame that is added without a check finds the buffer flushed; a frame *)
(* that passes the check leaves room.                                      *)
IInv ==
  /\ command \in Commands
  /\ todo \in Seq(Fitting)
  /\ send_buffer \in Small
  /\ pc \in {"await", "flushed"} => todo # <<>>
  /\ pc = "flushed" => send_buffer = <<>>
  /\ to_dev \in Seq(SmallPacket)

-----------------------------------------------------------------------------
(* Frames and chunks.                                                      *)

LEMMA Join ==
  ASSUME NEW a \in Seq(Word), NEW b \in Seq(Word)
  PROVE  a \o b \in Seq(Word) /\ Len(a \o b) = Len(a) + Len(b)
BY ConcatProperties

LEMMA FrameLength ==
  ASSUME NEW id \in Ids, NEW data \in Seq(Word)
  PROVE  /\ Frame(id, RequestHeader, data) \in Seq(Word)
         /\ Len(Frame(id, RequestHeader, data)) = RequestHeader + Len(data)
<1> DEFINE a == << [id |-> id, size |-> 0] >>
           w == [id |-> "pad", size |-> Len(data)]
           b == [i \in 1 .. RequestHeader - 1 |->
                   [id |-> "pad", size |-> IF i = RequestHeader - 1 THEN Len(data) ELSE 0]]
<1>1. a \in Seq(Word) /\ Len(a) = 1
  <2>1. [id |-> id, size |-> 0] \in Word
    BY DEF Word
  <2> QED BY <2>1
<1>2. b \in Seq(Word) /\ Len(b) = 1
  <2>1. w \in Word
    BY DEF Word
  <2> HIDE DEF w
  <2>2. <<w>> \in Seq(Word) /\ Len(<<w>>) = 1
    BY <2>1
  <2>3. b = [i \in 1 .. 1 |-> w]
    BY DEF RequestHeader, w
  <2>4. [i \in 1 .. 1 |-> w] = <<w>>
    OBVIOUS
  <2> HIDE DEF b
  <2> QED BY <2>2, <2>3, <2>4, Zenon
<1> HIDE DEF a, b
<1>3. a \o b \in Seq(Word) /\ Len(a \o b) = Len(a) + Len(b)
  BY <1>1, <1>2, Join, Zenon
<1>4. /\ (a \o b) \o data \in Seq(Word)
      /\ Len((a \o b) \o data) = Len(a \o b) + Len(data)
  BY <1>3, Join, Zenon
<1>5. Len((a \o b) \o data) = 2 + Len(data)
  BY <1>1, <1>2, <1>3, <1>4
<1>6. Frame(id, RequestHeader, data) = (a \o b) \o data
  BY Zenon DEF Frame, a, b
<1> QED BY <1>4, <1>5, <1>6, Zenon DEF RequestHeader

(* A chunk leaves room for its header.                                     *)
LEMMA ChunkSize ==
  max_chunk_size \in Nat \ {0} /\ max_chunk_size + RequestHeader <= maxdata
<1>1. maxdata \div 2 >= 2 /\ (maxdata \div 2) + 2 <= maxdata /\ maxdata \div 2 \in Nat
  BY FileSyncAssumption
<1> QED BY <1>1, FileSyncAssumption DEF max_chunk_size, Least, RequestHeader

LEMMA ChunksFit ==
  ASSUME NEW f \in Seq(Word), NEW i \in DOMAIN ChunksOf(f)
  PROVE  ChunksOf(f)[i] \in Seq(Word) /\ Len(ChunksOf(f)[i]) + RequestHeader <= maxdata
<1> DEFINE c == max_chunk_size
           from == (i - 1) * c + 1
           to == Least(i * c, Len(f))
           n == (Len(f) + c - 1) \div c
<1>1. c \in Nat \ {0} /\ c + RequestHeader <= maxdata
  BY ChunkSize
<1>2. ChunksOf(f)[i] = SubSeq(f, from, to) /\ i \in 1 .. n /\ n \in Int
  <2>1. ChunksOf(f) = [j \in 1 .. n |-> SubSeq(f, (j - 1) * c + 1, Least(j * c, Len(f)))]
    BY Zenon DEF ChunksOf
  <2> HIDE DEF c
  <2>2. n \in Int
    BY <1>1
  <2> HIDE DEF n
  <2>3. DOMAIN ChunksOf(f) = 1 .. n
    BY <2>1, Zenon
  <2>4. ChunksOf(f)[i] = SubSeq(f, from, to)
    BY <2>1, <2>3, Zenon
  <2> QED BY <2>2, <2>3, <2>4, Zenon
<1> HIDE DEF c, n
<1>3. i \in Nat \ {0} /\ i * c \in Nat /\ (i - 1) * c \in Nat /\ (i - 1) * c = i * c - c
  BY <1>1, <1>2
<1>4. from \in Int /\ to \in Int /\ from >= 1 /\ to <= Len(f) /\ to - from + 1 <= c
  BY <1>1, <1>3 DEF Least
<1> HIDE DEF from, to
<1>5. \A j \in from .. to : f[j] \in Word
  BY <1>4, ElementOfSeq
<1>6. /\ SubSeq(f, from, to) \in Seq(Word)
      /\ Len(SubSeq(f, from, to)) = IF from <= to THEN to - from + 1 ELSE 0
  BY <1>4, <1>5, SubSeqProperties
<1> QED BY <1>1, <1>2, <1>4, <1>6, FileSyncAssumption DEF RequestHeader

(* Every request of a command fits in a packet.                            *)
LEMMA RequestsFit ==
  ASSUME NEW cmd \in Commands, NEW f \in Seq(Word)
  PROVE  Requests(cmd, f) \in Seq(Fitting)
<1>1. Path \in Seq(Word) /\ Len(Path) = PathLen
  <2>1. DataWord(0) \in Word
    BY DEF DataWord, Word
  <2> QED BY <2>1, FileSyncAssumption DEF Path
<1>2. \A id \in Ids : Frame(id, RequestHeader, Path) \in Fitting
  BY <1>1, FrameLength, FileSyncAssumption DEF Fitting, RequestHeader
<1>3. \A id \in Ids : << Frame(id, RequestHeader, Path) >> \in Seq(Fitting)
  BY <1>2
<1>4. Frame("DONE", RequestHeader, <<>>) \in Fitting
  <2>1. <<>> \in Seq(Word) /\ Len(<<>>) = 0 /\ "DONE" \in Ids
    BY DEF Ids
  <2> DEFINE done == Frame("DONE", RequestHeader, <<>>)
  <2>2. done \in Seq(Word) /\ Len(done) = RequestHeader + Len(<<>>)
    BY <2>1, FrameLength, Zenon
  <2> HIDE DEF done
  <2>3. done \in Seq(Word) /\ Len(done) = 2
    BY <2>1, <2>2 DEF RequestHeader
  <2>4. done \in Fitting
    <3>1. RequestHeader <= Len(done) /\ Len(done) <= maxdata
      BY <2>3, FileSyncAssumption DEF RequestHeader
    <3> QED BY <2>3, <3>1, Zenon DEF Fitting
  <2> QED BY <2>4 DEF done
<1> DEFINE chunks == ChunksOf(f)
           data == [i \in DOMAIN chunks |-> Frame("DATA", RequestHeader, chunks[i])]
<1>5. data \in Seq(Fitting)
  <2>1. ASSUME NEW i \in DOMAIN chunks
        PROVE  Frame("DATA", RequestHeader, chunks[i]) \in Fitting
    <3> DEFINE g == Frame("DATA", RequestHeader, chunks[i])
    <3>1. chunks[i] \in Seq(Word) /\ Len(chunks[i]) + RequestHeader <= maxdata /\ "DATA" \in Ids
      BY ChunksFit DEF Ids
    <3>2. g \in Seq(Word) /\ Len(g) = RequestHeader + Len(chunks[i])
      BY <3>1, FrameLength, Zenon
    <3>3. Len(chunks[i]) \in Nat
      BY <3>1, LenProperties, Zenon
    <3> HIDE DEF g, chunks
    <3>4. RequestHeader <= Len(g) /\ Len(g) <= maxdata
      BY <3>1, <3>2, <3>3, FileSyncAssumption DEF RequestHeader
    <3>5. g \in Fitting
      BY <3>2, <3>4 DEF Fitting
    <3> QED BY <3>5 DEF g
  <2>2. PICK n \in Int : DOMAIN chunks = 1 .. n
    <3>1. max_chunk_size \in Nat \ {0} /\ Len(f) + max_chunk_size - 1 \in Int
      BY ChunkSize
    <3> QED BY <3>1 DEF ChunksOf
  <2> HIDE DEF chunks
  <2>3. CASE n \in Nat
    BY <2>1, <2>2, <2>3
  <2>4. CASE n \notin Nat
    <3>1. data = <<>>
      BY <2>2, <2>4
    <3> QED BY <3>1
  <2> QED BY <2>3, <2>4
<1> HIDE DEF data
<1>6. CASE cmd = "push"
  <2>1. Requests(cmd, f) = (<< Frame("SEND", RequestHeader, Path) >> \o data)
                           \o << Frame("DONE", RequestHeader, <<>>) >>
    BY <1>6 DEF Requests, data
  <2> QED BY <1>3, <1>4, <1>5, <2>1, ConcatProperties DEF Ids
<1>7. CASE cmd = "pull"
  BY <1>3, <1>7 DEF Requests, Ids
<1>8. CASE cmd = "list"
  BY <1>3, <1>8 DEF Requests, Ids
<1>9. CASE cmd = "stat"
  BY <1>3, <1>9 DEF Requests, Ids
<1> QED BY <1>6, <1>7, <1>8, <1>9, FileSyncAssumption

-----------------------------------------------------------------------------
(* The invariant.                                                          *)

LEMMA WordsAreWords ==
  ASSUME NEW n \in Nat
  PROVE  Words(n) \in Seq(Word)
BY DEF Words, DataWord, Word, Ids

LEMMA InitOK == Init => IInv
<1> SUFFICES ASSUME Init PROVE IInv
  OBVIOUS
<1>1. file \in Seq(Word)
  BY WordsAreWords, FileSyncAssumption DEF Init
<1>2. todo \in Seq(Fitting)
  BY <1>1, RequestsFit DEF Init
<1>3. send_buffer \in Small /\ pc \notin {"await", "flushed"}
  BY FileSyncAssumption DEF Init, Small, FirstSteps
<1> QED BY <1>2, <1>3 DEF Init, IInv

(* A packet that is sent fits, whatever follows it.                        *)
LEMMA SendFits ==
  ASSUME IInv, NEW cmd \in {"OKAY", "WRTE", "CLSE"}, NEW data \in Small,
         to_dev' = Append(to_dev, Msg(cmd, data))
  PROVE  to_dev' \in Seq(SmallPacket)
<1>1. Msg(cmd, data) \in SmallPacket
  BY DEF Msg, SmallPacket
<1> QED BY <1>1 DEF IInv

LEMMA EmptyIsSmall == <<>> \in Small
BY FileSyncAssumption DEF Small

(* A frame is added to an empty buffer, or after the check.                *)
LEMMA AddFrameOK ==
  ASSUME IInv, AddFrame, todo # <<>>,
         send_buffer = <<>> \/ can_add_to_send_buffer(Head(todo))
  PROVE  IInv'
<1> DEFINE f == Head(todo)
<1>1. f \in Fitting /\ Tail(todo) \in Seq(Fitting)
  BY DEF IInv
<1>2. f \in Seq(Word) /\ send_buffer \in Seq(Word) /\ Len(f) \in Nat /\ Len(send_buffer) \in Nat
      /\ RequestHeader <= Len(f) /\ Len(f) <= maxdata
  BY <1>1 DEF Fitting, IInv, Small
<1> HIDE DEF f
<1>3. send_buffer \o f \in Seq(Word) /\ Len(send_buffer \o f) = Len(send_buffer) + Len(f)
  BY <1>2, Join, Zenon
<1>4. Len(send_buffer) + Len(f) <= maxdata
  <2>1. CASE send_buffer = <<>>
    <3>1. Len(send_buffer) = 0
      BY <2>1
    <3> QED BY <1>2, <3>1
  <2>2. CASE can_add_to_send_buffer(f)
    <3>1. AnswerHeader \in {2, 4, 5}
      BY FileSyncAssumption DEF IInv, AnswerHeader
    <3>2. Len(send_buffer) + AnswerHeader + (Len(f) - RequestHeader) < maxdata
      BY <2>2 DEF can_add_to_send_buffer
    <3> QED BY <1>2, <3>1, <3>2, FileSyncAssumption DEF RequestHeader
  <2> QED BY <2>1, <2>2 DEF f
<1>5. send_buffer' \in Small
  <2>1. send_buffer' = send_buffer \o f
    BY DEF AddFrame, f
  <2> QED BY <1>3, <1>4, <2>1 DEF Small
<1> QED BY <1>1, <1>5 DEF AddFrame, IInv, request

LEMMA FlushOK ==
  ASSUME IInv, NEW next \in {"await", "awaitlast"}, next = "await" => todo # <<>>, Flush(next)
  PROVE  IInv'
<1>1. to_dev' \in Seq(SmallPacket)
  BY SendFits DEF Flush, IInv
<1> QED BY <1>1 DEF Flush, IInv, request

(* A push that goes on to its next file has that one's requests to send.   *)
LEMMA OpenFileOK ==
  ASSUME IInv, OpenFile
  PROVE  IInv'
<1>1. CASE Fails("FileNotFoundError", "end")
  BY <1>1 DEF Fails, IInv
<1>2. CASE ~Fails("FileNotFoundError", "end")
  <2>1. PICK n \in Sizes : file' = Words(n)
    BY <1>2 DEF OpenFile
  <2>2. todo' \in Seq(Fitting)
    <3>1. file' \in Seq(Word)
      BY <2>1, WordsAreWords, FileSyncAssumption
    <3> QED BY <1>2, <3>1, RequestsFit DEF OpenFile, IInv
  <2>3. pc' = "add" /\ send_buffer' = <<>> /\ to_dev' = <<>> /\ command' = command
    BY <1>2 DEF OpenFile
  <2>4. send_buffer' \in Small /\ to_dev' \in Seq(SmallPacket)
    BY <2>3, EmptyIsSmall
  <2> QED BY <2>2, <2>3, <2>4, Zenon DEF IInv
<1> QED BY <1>1, <1>2

(* The client's steps.                                                     *)
LEMMA ClientOK ==
  ASSUME IInv, Client
  PROVE  IInv'
<1>1. CASE FilesyncSend
  BY <1>1, AddFrameOK, FlushOK DEF FilesyncSend
<1>2. CASE AddAfterFlush
  BY <1>2, AddFrameOK DEF AddAfterFlush, IInv
<1>3. CASE FlushDone
  BY <1>3, EmptyIsSmall DEF FlushDone, Flushed, IInv, request
<1>4. CASE BeginRead
  BY <1>4 DEF BeginRead, IInv, request
<1>5. CASE FilesyncRead
  <2>1. CASE Flush("awaitlast")
    BY <2>1, FlushOK
  <2>2. CASE ~Flush("awaitlast")
    BY <1>5, <2>2 DEF FilesyncRead, IInv, request
  <2> QED BY <2>1, <2>2
<1>6. CASE FillBuffer
  <2>1. to_dev' \in Seq(SmallPacket)
    BY <1>6, EmptyIsSmall, SendFits DEF FillBuffer
  <2> QED BY <1>6, <2>1 DEF FillBuffer, IInv, request
<1>7. CASE ReadHeader
  BY <1>7 DEF ReadHeader, IInv, request
<1>8. CASE ReadData
  <2>1. pc' \in {"read", "clse", "end"}
    BY <1>8 DEF ReadData, HandleFrame, Handle
  <2> QED BY <1>8, <2>1 DEF ReadData, IInv, request
<1>9. CASE SendClse
  <2>1. to_dev' \in Seq(SmallPacket)
    BY <1>9, EmptyIsSmall, SendFits DEF SendClse
  <2> QED BY <1>9, <2>1 DEF SendClse, IInv, request
<1>10. CASE ReadClse
  <2>1. pc' \in {"open", "end"}
    BY <1>10 DEF ReadClse
  <2> QED BY <1>10, <2>1 DEF ReadClse, IInv
<1>11. CASE DropPacket
  BY <1>11 DEF DropPacket, IInv, client
<1>12. CASE Timeout
  BY <1>12 DEF Timeout, IInv, request
<1>13. CASE Mkdir
  BY <1>13 DEF Mkdir, Fails, IInv
<1>14. CASE OpenFile
  BY <1>14, OpenFileOK
<1>15. CASE FileSize \/ StatBefore
  BY <1>15 DEF FileSize, StatBefore, Fails, IInv
<1> QED BY <1>1, <1>2, <1>3, <1>4, <1>5, <1>6, <1>7, <1>8, <1>9, <1>10, <1>11, <1>12, <1>13,
           <1>14, <1>15 DEF Client

(* The device only takes packets from the client.                          *)
LEMMA DeviceOK ==
  ASSUME IInv, Device \/ DevFail
  PROVE  IInv'
<1>1. UNCHANGED client
  BY DEF Device, DevReceive, DevParse, DevAnswer, DevSend, DevFail
<1>2. to_dev' = to_dev \/ (to_dev # <<>> /\ to_dev' = Tail(to_dev))
  BY DEF Device, DevReceive, DevParse, DevAnswer, DevSend, DevFail
<1>3. to_dev' \in Seq(SmallPacket)
  BY <1>2 DEF IInv
<1> QED BY <1>1, <1>3 DEF client, IInv

LEMMA NextOK == IInv /\ [Next]_vars => IInv'
<1> SUFFICES ASSUME IInv, [Next]_vars PROVE IInv'
  OBVIOUS
<1>1. CASE UNCHANGED vars
  BY <1>1 DEF vars, client, IInv
<1> QED BY <1>1, ClientOK, DeviceOK DEF Next, Ended

(* No WRTE outgrows the packet size agreed with the device, although a     *)
(* frame that follows a flush is added without a second check.             *)
THEOREM PacketsFit == Spec => []WithinMaxdata
<1>1. IInv => WithinMaxdata
  <2> SUFFICES ASSUME IInv, NEW i \in DOMAIN to_dev PROVE Len(to_dev[i].data) <= maxdata
    BY DEF WithinMaxdata
  <2>1. to_dev[i] \in SmallPacket
    BY DEF IInv
  <2> QED BY <2>1 DEF SmallPacket, Small
<1>2. Spec => []IInv
  BY InitOK, NextOK, PTL DEF Spec
<1> QED BY <1>1, <1>2, PTL
-----------------------------------------------------------------------------
(* The words on their way.                                                 *)

(* Word k of L begins a frame when i words of the file f have gone by, or  *)
(* it is the first that L lacks, and i is all it told of the file.         *)
Begins(L, h, f, e, k, i, at) ==
  \/ k = Len(L) + 1 /\ i = at
  \/ k <= Len(L) /\ L[k].id = "FAIL"
  \/ k <= Len(L) /\ L[k].id = "DONE" /\ i = Len(f)
  \/ k + h <= Len(L) /\ L[k].id = e /\ L[k + h] = DataWord(i + 1)

(* From word k, L has n words of a file, those that follow the first i.    *)
WordsAt(L, k, i, n) ==
  k + n <= Len(L) + 1 /\ \A m \in 1 .. n : L[k - 1 + m] = DataWord(i + m)

(* The same, and then the next frame.                                      *)
Carries(L, h, f, e, k, i, n, at) ==
  /\ n \in Nat \ {0} /\ i \in Nat /\ i + n <= Len(f)
  /\ WordsAt(L, k, i, n)
  /\ Begins(L, h, f, e, k + n, i + n, at)

(* Each frame e of L, with a header of h words, has the words of the file  *)
(* that its first word tells the place of, and another frame follows.      *)
Chained(L, h, f, e, at) ==
  \A p \in 1 .. Len(L) :
    L[p].id = e =>
      /\ p + h <= Len(L)
      /\ Carries(L, h, f, e, p + h, L[p + h].size - 1, L[p + h - 1].size, at)

Has(q, cmd) == \E i \in 1 .. Len(q) : q[i].cmd = cmd

Single(q, cmd) ==
  \A i, j \in 1 .. Len(q) : q[i].cmd = cmd /\ q[j].cmd = cmd => i = j

(* The words of the one WRTE of a queue.                                   *)
Load(q) ==
  IF Has(q, "WRTE") THEN q[CHOOSE i \in 1 .. Len(q) : q[i].cmd = "WRTE"].data ELSE <<>>

(* The words of the send buffer that are in no packet yet.                 *)
Buffered ==
  IF pc \in {"add", "flushed", "read"} \/ outcome = "UnsupportedOperation"
  THEN send_buffer ELSE <<>>

(* All that the device has yet to parse, and the client.                   *)
Up == dev.in \o (Load(to_dev) \o Buffered)
Down == recv_buffer \o (Load(to_host) \o dev.out)

-----------------------------------------------------------------------------
(* The strengthened invariant.                                             *)

(* One WRTE, or the OKAY for it, is on its way in a direction, and only    *)
(* while its sender waits.                                                 *)
FlushesOK ==
  /\ Single(to_dev, "WRTE") /\ Single(to_host, "OKAY")
  /\ ~(Has(to_dev, "WRTE") /\ Has(to_host, "OKAY"))
  /\ Has(to_dev, "WRTE") \/ Has(to_host, "OKAY") => pc \in {"await", "awaitlast"}
CreditOK ==
  /\ Single(to_host, "WRTE") /\ Single(to_dev, "OKAY")
  /\ ~(Has(to_host, "WRTE") /\ Has(to_dev, "OKAY"))
  /\ Has(to_host, "WRTE") \/ Has(to_dev, "OKAY") => ~dev.ready
ClosesOK ==
  Has(to_dev, "CLSE") \/ Has(to_host, "CLSE") => pc \in {"closing", "open", "end"}

(* The copies are made of the first words of the file.                     *)
FilesOK ==
  /\ file = Words(Len(file))
  /\ dev.file = Words(Len(dev.file)) /\ Len(dev.file) <= Len(file)
  /\ got = Words(Len(got)) /\ Len(got) <= Len(file)
  /\ dev.at <= Len(file)
  /\ command = "push" => got = <<>>
  /\ command # "push" => dev.file = <<>>

(* The steps that put the requests together.                               *)
Adding == {"add", "flushed", "await"}
AllRequests == Requests(command, file)
Added == Len(AllRequests) - Len(todo)

(* The words of the file in the frames that were added.                    *)
Queued ==
  IF Added <= 1 THEN 0 ELSE Least((Added - 1) * max_chunk_size, Len(file))

TodoOK ==
  /\ Added \in Nat
  /\ \A j \in 1 .. Len(todo) : todo[j] = AllRequests[Added + j]

StepsOK ==
  /\ pc \in {"stat", "header", "data"} => send_buffer = <<>>
  /\ outcome = "UnsupportedOperation" => pc = "end"
  /\ pc \in {"mkdir", "open"} \/ left > 0 => command = "push"
  /\ pc = "stat" => command # "push"

(* The device parses the requests of a push from their first word on.      *)
SendFirst ==
  /\ Len(Up) >= RequestHeader + PathLen
  /\ Up[1].id = "SEND" /\ Up[2].size = PathLen
  /\ Begins(Up, RequestHeader, file, "DATA", RequestHeader + PathLen + 1, 0, Queued)

PushOK ==
  command = "push" =>
    /\ dev.st # "answer"
    /\ pc \in Adding => (Added = 0 <=> dev.st = "wait" /\ Up = <<>>)
    /\ dev.st = "wait" => dev.file = <<>> /\ (Up = <<>> \/ SendFirst)
    /\ dev.st = "push" => Begins(Up, RequestHeader, file, "DATA", 1, Len(dev.file), Queued)
    /\ dev.st \in {"wait", "push"} => Chained(Up, RequestHeader, file, "DATA", Queued)

(* The device says OKAY to a push when it has the file, not before.        *)
NoOkay(q) == \A k \in 1 .. Len(q) : q[k].id # "OKAY"

Unsaid ==
  /\ NoOkay(recv_buffer) /\ NoOkay(dev.out) /\ NoOkay(Load(to_host))
  /\ pc = "data" => header.id # "OKAY"
  /\ outcome = "ok" => dev.file = file

OkayOK ==
  command = "push" =>
    /\ pc = "mkdir" => file = <<>> /\ dev.file = <<>> /\ dev.in = <<>> /\ to_dev = <<>>
    /\ dev.st = "done" => dev.file = file
    /\ Unsaid \/ (dev.file = file /\ dev.st \in {"done", "closed"})

(* The device answers a command but once, and nothing before its request.  *)
Live == pc \notin {"clse", "closing", "end"}

FirstId == CASE command = "pull" -> "RECV"
             [] command = "list" -> "LIST"
             [] command = "stat" -> "STAT"
             [] command = "push" -> "SEND"

Unanswered ==
  /\ dev.out = <<>> /\ ~Has(to_host, "WRTE") /\ recv_buffer = <<>>
  /\ got = <<>> /\ dev.at = 0 /\ pc # "data"

AskedOK ==
  command # "push" =>
    /\ dev.st # "push"
    /\ dev.st = "wait" => Up = <<>> \/ Up[1].id = FirstId
    /\ pc \in Adding /\ todo # <<>> => Up = <<>>
    /\ Live /\ dev.st = "wait" => Unanswered
    /\ pc \in Adding \cup {"stat"} \/ (pc = "read" /\ send_buffer # <<>>) \/ Has(to_dev, "WRTE")
         => dev.in = <<>> /\ dev.st = "wait"
    /\ pc = "awaitlast" /\ ~Has(to_dev, "WRTE") => to_host # <<>> /\ Head(to_host).cmd = "OKAY"

(* The frames of an answer follow one another up to the client.            *)
Entry == IF command = "list" THEN "DENT" ELSE "DATA"

AnswerOK ==
  command \in {"pull", "list"} =>
    /\ Live =>
         /\ Chained(Down, AnswerHeader, file, Entry, dev.at)
         /\ pc # "data" => Begins(Down, AnswerHeader, file, Entry, 1, Len(got), dev.at)
         /\ pc = "data" /\ header.id = Entry
              => Carries(Down, AnswerHeader, file, Entry, 1, Len(got), header.size, dev.at)
         /\ pc = "data" /\ header.id = "DONE" => got = file
    /\ outcome = "ok" => got = file /\ ~Live

-----------------------------------------------------------------------------
(* A sequence of words, and a frame that is put behind it.                 *)

Entries == {"DATA", "DENT"}

(* F is a frame of n words of the file f, those that follow the first at.  *)
HoldsData(F, h, f, e, at, next, n) ==
  /\ F[1].id = e /\ Len(F) = h + n /\ F[h].size = n
  /\ next = at + n /\ next <= Len(f)
  /\ WordsAt(F, h + 1, at, n)

OneHeader(F, e) == \A m \in 2 .. Len(F) : F[m].id # e

(* F continues the frames that tell the first at words of f.               *)
Follows(F, h, f, e, at, next) ==
  /\ Len(F) >= 1 /\ OneHeader(F, e)
  /\ \/ F[1].id = "FAIL"
     \/ F[1].id = "DONE" /\ at = Len(f)
     \/ \E n \in Nat \ {0} : HoldsData(F, h, f, e, at, next, n)

LEMMA WordFields ==
  ASSUME NEW L \in Seq(Word), NEW k \in 1 .. Len(L)
  PROVE  L[k] \in Word /\ L[k].id \in Ids \cup {"pad", "data"} /\ L[k].size \in Nat
<1>1. L[k] \in Word
  BY ElementOfSeq
<1> QED BY <1>1 DEF Word

LEMMA Joined ==
  ASSUME NEW a \in Seq(Word), NEW b \in Seq(Word)
  PROVE  /\ a \o b \in Seq(Word) /\ Len(a \o b) = Len(a) + Len(b)
         /\ Len(a) \in Nat /\ Len(b) \in Nat /\ Len(a \o b) \in Nat
<1>1. Len(a) \in Nat /\ Len(b) \in Nat
  BY LenProperties
<1>2. a \o b \in Seq(Word) /\ Len(a \o b) = Len(a) + Len(b)
  BY Join
<1>3. Len(a \o b) \in Nat
  BY <1>2, LenProperties
<1> QED BY <1>1, <1>2, <1>3

LEMMA JoinedLeft ==
  ASSUME NEW a \in Seq(Word), NEW b \in Seq(Word), NEW k \in 1 .. Len(a)
  PROVE  (a \o b)[k] = a[k]
<1>1. k \in 1 .. Len(a) + Len(b) /\ k <= Len(a)
  BY Joined
<1> QED BY <1>1, ConcatProperties

LEMMA JoinedRight ==
  ASSUME NEW a \in Seq(Word), NEW b \in Seq(Word), NEW k \in 1 .. Len(b)
  PROVE  (a \o b)[Len(a) + k] = b[k]
<1>1. Len(a) \in Nat /\ Len(b) \in Nat
  BY Joined
<1>2. /\ Len(a) + k \in 1 .. Len(a) + Len(b) /\ ~(Len(a) + k <= Len(a))
      /\ (Len(a) + k) - Len(a) = k
  BY <1>1
<1>3. (a \o b)[Len(a) + k] = b[(Len(a) + k) - Len(a)]
  BY <1>2, ConcatProperties
<1> QED BY <1>2, <1>3

LEMMA BeginsAppend ==
  ASSUME NEW L \in Seq(Word), NEW F \in Seq(Word), NEW h \in Nat, h >= 1,
         NEW f, NEW e, NEW at \in Nat, NEW next \in Nat,
         NEW k \in Nat, k >= 1, NEW i \in Nat,
         Begins(L, h, f, e, k, i, at), Follows(F, h, f, e, at, next)
  PROVE  Begins(L \o F, h, f, e, k, i, next)
<1> DEFINE M == L \o F
<1>1. M \in Seq(Word) /\ Len(M) = Len(L) + Len(F) /\ Len(L) \in Nat /\ Len(F) \in Nat /\ Len(F) >= 1
  BY Joined DEF Follows
<1>2. ASSUME NEW j \in 1 .. Len(L) PROVE M[j] = L[j]
  BY JoinedLeft
<1>3. ASSUME NEW j \in 1 .. Len(F) PROVE M[Len(L) + j] = F[j]
  BY JoinedRight
<1> HIDE DEF M
<1>4. CASE k = Len(L) + 1 /\ i = at
  <2>5. 1 \in 1 .. Len(F) /\ k <= Len(M)
    BY <1>1, <1>4
  <2>6. M[Len(L) + 1] = F[1]
    BY <1>3, <2>5
  <2>1. M[k] = F[1] /\ k <= Len(M)
    BY <1>4, <2>5, <2>6
  <2>2. CASE F[1].id = "FAIL"
    BY <2>1, <2>2 DEF Begins, M
  <2>3. CASE F[1].id = "DONE" /\ at = Len(f)
    BY <1>4, <2>1, <2>3 DEF Begins, M
  <2>4. CASE \E n \in Nat \ {0} : HoldsData(F, h, f, e, at, next, n)
    <3>1. PICK n \in Nat \ {0} : HoldsData(F, h, f, e, at, next, n)
      BY <2>4
    <3>2. F[1].id = e /\ Len(F) = h + n /\ WordsAt(F, h + 1, at, n)
      BY <3>1 DEF HoldsData
    <3>3. 1 \in 1 .. n /\ n >= 1
      OBVIOUS
    <3>4. F[(h + 1) - 1 + 1] = DataWord(at + 1)
      BY <3>2, <3>3, Zenon DEF WordsAt
    <3>5. (h + 1) - 1 + 1 = h + 1 /\ h + 1 \in 1 .. Len(F)
      BY <3>2, <3>3
    <3>6. M[Len(L) + (h + 1)] = F[h + 1]
      BY <1>3, <3>5
    <3>7. k + h = Len(L) + (h + 1) /\ k + h <= Len(M)
      BY <1>1, <1>4, <3>5
    <3> QED BY <1>4, <2>1, <3>2, <3>4, <3>5, <3>6, <3>7 DEF Begins, M
  <2> QED BY <2>2, <2>3, <2>4 DEF Follows
<1>5. CASE k <= Len(L) /\ L[k].id = "FAIL"
  BY <1>1, <1>2, <1>5 DEF Begins, M
<1>6. CASE k <= Len(L) /\ L[k].id = "DONE" /\ i = Len(f)
  BY <1>1, <1>2, <1>6 DEF Begins, M
<1>7. CASE k + h <= Len(L) /\ L[k].id = e /\ L[k + h] = DataWord(i + 1)
  <2>1. k \in 1 .. Len(L) /\ k + h \in 1 .. Len(L) /\ k + h <= Len(M)
    BY <1>1, <1>7
  <2>2. M[k] = L[k] /\ M[k + h] = L[k + h]
    BY <1>2, <2>1
  <2> QED BY <1>7, <2>1, <2>2 DEF Begins, M
<1> QED BY <1>4, <1>5, <1>6, <1>7 DEF Begins

LEMMA WordsAtAppend ==
  ASSUME NEW L \in Seq(Word), NEW F \in Seq(Word), NEW k \in Nat, k >= 1,
         NEW i \in Nat, NEW n \in Nat, WordsAt(L, k, i, n)
  PROVE  WordsAt(L \o F, k, i, n)
<1>1. k + n <= Len(L \o F) + 1 /\ k + n <= Len(L) + 1 /\ Len(L) \in Nat
  BY Joined DEF WordsAt
<1>2. ASSUME NEW m \in 1 .. n PROVE (L \o F)[k - 1 + m] = DataWord(i + m)
  <2>1. k - 1 + m \in 1 .. Len(L)
    BY <1>1
  <2>2. (L \o F)[k - 1 + m] = L[k - 1 + m]
    BY <2>1, JoinedLeft, Zenon
  <2>3. L[k - 1 + m] = DataWord(i + m)
    BY Zenon DEF WordsAt
  <2> QED BY <2>2, <2>3
<1> QED BY <1>1, <1>2, Zenon DEF WordsAt

LEMMA CarriesAppend ==
  ASSUME NEW L \in Seq(Word), NEW F \in Seq(Word), NEW h \in Nat, h >= 1,
         NEW f, NEW e, NEW at \in Nat, NEW next \in Nat,
         NEW k \in Nat, k >= 1, NEW i, NEW n,
         Carries(L, h, f, e, k, i, n, at), Follows(F, h, f, e, at, next)
  PROVE  Carries(L \o F, h, f, e, k, i, n, next)
<1>1. n \in Nat /\ n >= 1 /\ i \in Nat /\ n \in Nat \ {0}
  BY DEF Carries
<1>2. WordsAt(L, k, i, n) /\ Begins(L, h, f, e, k + n, i + n, at) /\ i + n <= Len(f)
  BY DEF Carries
<1>3. WordsAt(L \o F, k, i, n)
  BY <1>1, <1>2, WordsAtAppend
<1>4. k + n \in Nat /\ k + n >= 1 /\ i + n \in Nat
  BY <1>1
<1>5. Begins(L \o F, h, f, e, k + n, i + n, next)
  BY <1>2, <1>4, BeginsAppend
<1> QED BY <1>1, <1>2, <1>3, <1>5 DEF Carries

(* What a frame of data carries when it is the last of the sequence.       *)
LEMMA HeldCarries ==
  ASSUME NEW L \in Seq(Word), NEW F \in Seq(Word), NEW h \in Nat, h >= 1,
         NEW f, NEW e, NEW at \in Nat, NEW next \in Nat, NEW n \in Nat, n >= 1,
         HoldsData(F, h, f, e, at, next, n)
  PROVE  LET M == L \o F
             p == Len(L) + 1
         IN  /\ p + h <= Len(M)
             /\ Carries(M, h, f, e, p + h, M[p + h].size - 1, M[p + h - 1].size, next)
<1> DEFINE M == L \o F
           p == Len(L) + 1
<1>1. Len(M) = Len(L) + Len(F) /\ Len(L) \in Nat /\ Len(F) = h + n
  BY Joined DEF HoldsData
<1>2. next = at + n /\ next <= Len(f) /\ WordsAt(F, h + 1, at, n) /\ F[h].size = n
  BY DEF HoldsData
<1>3. ASSUME NEW j \in 1 .. Len(F) PROVE M[Len(L) + j] = F[j]
  BY JoinedRight
<1> HIDE DEF M, p
<1>4. p \in Nat /\ p + h = Len(L) + (h + 1) /\ p + h - 1 = Len(L) + h /\ p + h <= Len(M)
  BY <1>1 DEF p
<1>5. ASSUME NEW m \in 1 .. n PROVE M[(p + h) - 1 + m] = DataWord(at + m)
  <2>1. m \in Nat /\ h + m \in 1 .. Len(F) /\ (h + 1) - 1 + m = h + m
    BY <1>1
  <2>4. (p + h) - 1 + m = Len(L) + (h + m)
    BY <1>1, <1>4, <2>1
  <2>2. F[(h + 1) - 1 + m] = DataWord(at + m)
    BY <1>2, Zenon DEF WordsAt
  <2>3. M[Len(L) + (h + m)] = F[h + m]
    BY <1>3, <2>1
  <2> QED BY <2>1, <2>2, <2>3, <2>4
<1>6. M[p + h].size - 1 = at
  <2>1. 1 \in 1 .. n /\ (p + h) - 1 + 1 = p + h
    BY <1>4
  <2>2. M[p + h] = DataWord(at + 1)
    BY <1>5, <2>1
  <2> QED BY <2>2 DEF DataWord
<1>7. M[p + h - 1].size = n
  <2>1. h \in 1 .. Len(F)
    BY <1>1
  <2> QED BY <1>2, <1>3, <1>4, <2>1
<1>8. p + h + n <= Len(M) + 1 /\ p + h + n = Len(M) + 1 /\ at + n = next
  BY <1>1, <1>2, <1>4
<1>9. WordsAt(M, p + h, at, n)
  BY <1>5, <1>8, Zenon DEF WordsAt
<1>10. Begins(M, h, f, e, p + h + n, at + n, next)
  BY <1>8, Zenon DEF Begins
<1>11. Carries(M, h, f, e, p + h, at, n, next)
  <2>1. n \in Nat \ {0} /\ at + n <= Len(f)
    BY <1>2
  <2> QED BY <1>9, <1>10, <2>1 DEF Carries
<1> QED BY <1>4, <1>6, <1>7, <1>11, Zenon DEF M, p

LEMMA ChainedAppend ==
  ASSUME NEW L \in Seq(Word), NEW F \in Seq(Word), NEW h \in Nat, h >= 1,
         NEW f, NEW e \in Entries, NEW at \in Nat, NEW next \in Nat,
         Chained(L, h, f, e, at), Follows(F, h, f, e, at, next)
  PROVE  Chained(L \o F, h, f, e, next)
<1> DEFINE M == L \o F
<1> SUFFICES ASSUME NEW p \in 1 .. Len(M), M[p].id = e
             PROVE  /\ p + h <= Len(M)
                    /\ Carries(M, h, f, e, p + h, M[p + h].size - 1, M[p + h - 1].size, next)
  BY Zenon DEF Chained
<1>1. M \in Seq(Word) /\ Len(M) = Len(L) + Len(F) /\ Len(L) \in Nat /\ Len(F) \in Nat /\ Len(F) >= 1
  BY Joined DEF Follows
<1>2. ASSUME NEW j \in 1 .. Len(L) PROVE M[j] = L[j]
  BY JoinedLeft
<1>3. ASSUME NEW j \in 1 .. Len(F) PROVE M[Len(L) + j] = F[j]
  BY JoinedRight
<1>4. CASE p <= Len(L)
  <2>1. p \in 1 .. Len(L) /\ L[p].id = e
    BY <1>1, <1>2, <1>4
  <2>2. p + h <= Len(L) /\ Carries(L, h, f, e, p + h, L[p + h].size - 1, L[p + h - 1].size, at)
    BY <2>1, Zenon DEF Chained
  <2>3. p + h \in 1 .. Len(L) /\ p + h - 1 \in 1 .. Len(L) /\ p + h <= Len(M) /\ p + h >= 1 /\ p + h \in Nat
    BY <1>1, <2>1, <2>2
  <2>4. M[p + h] = L[p + h] /\ M[p + h - 1] = L[p + h - 1]
    BY <1>2, <2>3
  <2>5. Carries(M, h, f, e, p + h, L[p + h].size - 1, L[p + h - 1].size, next)
    BY <2>2, <2>3, CarriesAppend
  <2> QED BY <2>3, <2>4, <2>5
<1>5. CASE p > Len(L)
  <2>1. PICK m \in 1 .. Len(F) : p = Len(L) + m
    <3>1. p - Len(L) \in 1 .. Len(F) /\ p = Len(L) + (p - Len(L))
      BY <1>1, <1>5
    <3> QED BY <3>1
  <2>2. F[m].id = e
    BY <1>3, <2>1
  <2>3. m = 1
    <3>1. m \in 2 .. Len(F) \/ m = 1
      BY <1>1, <2>1
    <3> QED BY <2>2, <3>1 DEF Follows, OneHeader
  <2>4. PICK n \in Nat \ {0} : HoldsData(F, h, f, e, at, next, n)
    BY <2>2, <2>3 DEF Follows, Entries
  <2>5. n \in Nat /\ n >= 1
    BY <2>4
  <2> QED BY <2>1, <2>3, <2>4, <2>5, HeldCarries, Zenon
<1> QED BY <1>1, <1>4, <1>5
-----------------------------------------------------------------------------
(* What is left of a sequence of words when the first n are taken.         *)

Dropped(L, n) == SubSeq(L, n + 1, Len(L))

LEMMA DroppedShape ==
  ASSUME NEW L \in Seq(Word), NEW n \in Nat, n <= Len(L)
  PROVE  Dropped(L, n) \in Seq(Word) /\ Len(Dropped(L, n)) = Len(L) - n
<1>1. Len(L) \in Nat /\ n + 1 \in Int /\ n + 1 >= 1
  BY LenProperties
<1>2. \A j \in n + 1 .. Len(L) : L[j] \in Word
  BY <1>1, ElementOfSeq
<1>3. /\ SubSeq(L, n + 1, Len(L)) \in Seq(Word)
      /\ Len(SubSeq(L, n + 1, Len(L))) = IF n + 1 <= Len(L) THEN Len(L) - (n + 1) + 1 ELSE 0
  BY <1>1, <1>2, SubSeqProperties
<1> QED BY <1>1, <1>3 DEF Dropped

LEMMA DroppedWord ==
  ASSUME NEW L \in Seq(Word), NEW n \in Nat, n <= Len(L),
         NEW k \in Nat, k >= 1, n + k <= Len(L)
  PROVE  Dropped(L, n)[k] = L[n + k]
<1>1. Len(L) \in Nat /\ n + 1 \in Int /\ n + 1 >= 1
  BY LenProperties
<1>2. \A j \in n + 1 .. Len(L) : L[j] \in Word
  BY <1>1, ElementOfSeq
<1>3. k \in 1 .. (Len(L) - (n + 1)) + 1 /\ n + 1 <= Len(L) /\ (n + 1) + k - 1 = n + k
  BY <1>1
<1>4. SubSeq(L, n + 1, Len(L))[k] = L[(n + 1) + k - 1]
  BY <1>1, <1>2, <1>3, SubSeqProperties
<1> QED BY <1>3, <1>4 DEF Dropped

LEMMA BeginsDrop ==
  ASSUME NEW L \in Seq(Word), NEW n \in Nat, n <= Len(L),
         NEW h \in Nat, h >= 1, NEW f, NEW e, NEW at, NEW i,
         NEW k \in Nat, k >= 1, Begins(L, h, f, e, n + k, i, at)
  PROVE  Begins(Dropped(L, n), h, f, e, k, i, at)
<1> DEFINE D == Dropped(L, n)
<1>1. Len(D) = Len(L) - n /\ Len(L) \in Nat
  BY DroppedShape, LenProperties
<1>2. CASE n + k = Len(L) + 1 /\ i = at
  <2>1. k = Len(D) + 1
    BY <1>1, <1>2
  <2> HIDE DEF D
  <2>2. Begins(D, h, f, e, k, i, at)
    BY <1>2, <2>1, Zenon DEF Begins
  <2> QED BY <2>2 DEF D
<1>3. CASE n + k <= Len(L)
  <2>1. D[k] = L[n + k] /\ k <= Len(D)
    BY <1>1, <1>3, DroppedWord
  <2>2. CASE L[n + k].id = "FAIL"
    <3> HIDE DEF D
    <3>1. Begins(D, h, f, e, k, i, at)
      BY <2>1, <2>2, Zenon DEF Begins
    <3> QED BY <3>1 DEF D
  <2>3. CASE L[n + k].id = "DONE" /\ i = Len(f)
    <3> HIDE DEF D
    <3>1. Begins(D, h, f, e, k, i, at)
      BY <2>1, <2>3, Zenon DEF Begins
    <3> QED BY <3>1 DEF D
  <2>4. CASE n + k + h <= Len(L) /\ L[n + k].id = e /\ L[n + k + h] = DataWord(i + 1)
    <3>1. n + (k + h) <= Len(L) /\ n + (k + h) = n + k + h /\ k + h \in Nat /\ k + h >= 1
      BY <1>1, <2>4
    <3>2. D[k + h] = L[n + (k + h)]
      BY <3>1, DroppedWord
    <3>3. k + h <= Len(D)
      BY <1>1, <3>1
    <3> HIDE DEF D
    <3>4. Begins(D, h, f, e, k, i, at)
      BY <2>1, <2>4, <3>1, <3>2, <3>3 DEF Begins
    <3> QED BY <3>4 DEF D
  <2>5. ~(n + k = Len(L) + 1)
    BY <1>1, <1>3
  <2> QED BY <2>2, <2>3, <2>4, <2>5, Zenon DEF Begins
<1>4. n + k <= Len(L) \/ (n + k = Len(L) + 1 /\ i = at)
  <2>1. n + k + h <= Len(L) => n + k <= Len(L)
    BY <1>1
  <2> QED BY <2>1, Zenon DEF Begins
<1> QED BY <1>2, <1>3, <1>4

LEMMA WordsAtDrop ==
  ASSUME NEW L \in Seq(Word), NEW n \in Nat, n <= Len(L),
         NEW k \in Nat, k >= 1, NEW i, NEW m \in Nat, WordsAt(L, n + k, i, m)
  PROVE  WordsAt(Dropped(L, n), k, i, m)
<1> DEFINE D == Dropped(L, n)
<1>1. Len(D) = Len(L) - n /\ Len(L) \in Nat
  BY DroppedShape, LenProperties
<1>2. n + k + m <= Len(L) + 1
  BY DEF WordsAt
<1>3. ASSUME NEW j \in 1 .. m PROVE D[k - 1 + j] = DataWord(i + j)
  <2>1. /\ n + (k - 1 + j) = (n + k) - 1 + j /\ k - 1 + j \in Nat /\ k - 1 + j >= 1
        /\ n + (k - 1 + j) <= Len(L)
    BY <1>1, <1>2
  <2>2. L[(n + k) - 1 + j] = DataWord(i + j)
    BY Zenon DEF WordsAt
  <2>3. D[k - 1 + j] = L[n + (k - 1 + j)]
    BY <2>1, DroppedWord
  <2> HIDE DEF D
  <2> QED BY <2>1, <2>2, <2>3
<1>4. k + m <= Len(D) + 1
  BY <1>1, <1>2
<1> HIDE DEF D
<1>5. WordsAt(D, k, i, m)
  BY <1>3, <1>4, Zenon DEF WordsAt
<1> QED BY <1>5 DEF D

LEMMA CarriesDrop ==
  ASSUME NEW L \in Seq(Word), NEW n \in Nat, n <= Len(L),
         NEW h \in Nat, h >= 1, NEW f, NEW e, NEW at,
         NEW k \in Nat, k >= 1, NEW i, NEW m, Carries(L, h, f, e, n + k, i, m, at)
  PROVE  Carries(Dropped(L, n), h, f, e, k, i, m, at)
<1>1. m \in Nat \ {0} /\ m \in Nat /\ m >= 1 /\ i \in Nat /\ i + m <= Len(f)
  BY DEF Carries
<1>2. WordsAt(Dropped(L, n), k, i, m)
  BY <1>1, WordsAtDrop DEF Carries
<1>3. n + k + m = n + (k + m) /\ k + m \in Nat /\ k + m >= 1
  BY <1>1
<1>4. Begins(L, h, f, e, n + (k + m), i + m, at)
  BY <1>3 DEF Carries
<1>5. Begins(Dropped(L, n), h, f, e, k + m, i + m, at)
  BY <1>3, <1>4, BeginsDrop
<1> QED BY <1>1, <1>2, <1>5, Zenon DEF Carries

LEMMA ChainedDrop ==
  ASSUME NEW L \in Seq(Word), NEW n \in Nat, n <= Len(L),
         NEW h \in Nat, h >= 1, NEW f, NEW e, NEW at, Chained(L, h, f, e, at)
  PROVE  Chained(Dropped(L, n), h, f, e, at)
<1> DEFINE D == Dropped(L, n)
<1>1. Len(D) = Len(L) - n /\ Len(L) \in Nat
  BY DroppedShape, LenProperties
<1>2. ASSUME NEW p \in 1 .. Len(D), D[p].id = e
      PROVE  /\ p + h <= Len(D)
             /\ Carries(D, h, f, e, p + h, D[p + h].size - 1, D[p + h - 1].size, at)
  <2>1. /\ p \in Nat /\ p >= 1 /\ n + p \in 1 .. Len(L) /\ n + p <= Len(L)
        /\ p + h \in Nat /\ p + h >= 1 /\ p + h - 1 \in Nat /\ p + h - 1 >= 1
        /\ n + (p + h) = (n + p) + h /\ n + (p + h - 1) = (n + p) + h - 1
    BY <1>1
  <2>2. D[p] = L[n + p]
    BY <2>1, DroppedWord
  <2>3. L[n + p].id = e
    BY <1>2, <2>2
  <2>4. /\ (n + p) + h <= Len(L)
        /\ Carries(L, h, f, e, (n + p) + h, L[(n + p) + h].size - 1, L[(n + p) + h - 1].size, at)
    BY <2>1, <2>3, Zenon DEF Chained
  <2>5. n + (p + h) <= Len(L) /\ n + (p + h - 1) <= Len(L) /\ p + h <= Len(D)
    BY <1>1, <2>1, <2>4
  <2>6. D[p + h] = L[n + (p + h)] /\ D[p + h - 1] = L[n + (p + h - 1)]
    BY <2>1, <2>5, DroppedWord
  <2> DEFINE x == D[p + h].size - 1
             y == D[p + h - 1].size
  <2>7. Carries(L, h, f, e, n + (p + h), x, y, at)
    BY <2>1, <2>4, <2>6
  <2> HIDE DEF x, y
  <2>8. Carries(D, h, f, e, p + h, x, y, at)
    BY <2>1, <2>7, CarriesDrop
  <2> QED BY <2>5, <2>8 DEF x, y
<1> HIDE DEF D
<1>3. Chained(D, h, f, e, at)
  BY <1>2, Zenon DEF Chained
<1> QED BY <1>3 DEF D

-----------------------------------------------------------------------------
(* The shape of a frame.                                                   *)

IsFrame(F, id, h, data) ==
  /\ F \in Seq(Word) /\ Len(F) = h + Len(data)
  /\ F[1].id = id /\ F[h].size = Len(data)
  /\ \A m \in 2 .. h : F[m].id = "pad"
  /\ \A m \in 1 .. Len(data) : F[h + m] = data[m]

LEMMA FrameShape ==
  ASSUME NEW id \in Ids, NEW h \in Nat, h >= 2, NEW data \in Seq(Word)
  PROVE  IsFrame(Frame(id, h, data), id, h, data)
<1> DEFINE w == [id |-> id, size |-> 0]
           a == <<w>>
           b == [i \in 1 .. h - 1 |-> [id |-> "pad", size |-> IF i = h - 1 THEN Len(data) ELSE 0]]
           c == a \o b
           F == Frame(id, h, data)
<1>0. Len(data) \in Nat
  BY LenProperties
<1>1. a \in Seq(Word) /\ Len(a) = 1 /\ a[1].id = id
  <2>1. w \in Word /\ w.id = id
    BY DEF Word
  <2> HIDE DEF w
  <2> QED BY <2>1
<1>2. b \in Seq(Word) /\ Len(b) = h - 1
  <2>1. ASSUME NEW i \in 1 .. h - 1
        PROVE  [id |-> "pad", size |-> IF i = h - 1 THEN Len(data) ELSE 0] \in Word
    BY <1>0 DEF Word
  <2>2. h - 1 \in Nat
    OBVIOUS
  <2>3. b \in [1 .. h - 1 -> Word]
    BY <2>1, Zenon
  <2> HIDE DEF b
  <2> QED BY <2>2, <2>3
<1>3. ASSUME NEW i \in 1 .. h - 1 PROVE b[i].id = "pad"
  OBVIOUS
<1>4. b[h - 1].size = Len(data)
  <2>1. h - 1 \in 1 .. h - 1
    OBVIOUS
  <2> QED BY <2>1
<1> HIDE DEF w, a, b
<1>5. c \in Seq(Word) /\ Len(c) = h
  <2>1. c \in Seq(Word) /\ Len(c) = Len(a) + Len(b)
    BY <1>1, <1>2, Joined
  <2> QED BY <1>1, <1>2, <2>1
<1>6. F = c \o data
  BY Zenon DEF Frame, w, a, b
<1>7. c[1].id = id
  <2>1. 1 \in 1 .. Len(a)
    BY <1>1
  <2>2. c[1] = a[1]
    BY <1>1, <1>2, <2>1, JoinedLeft
  <2> QED BY <1>1, <2>2
<1>8. ASSUME NEW m \in 2 .. h PROVE c[m] = b[m - 1] /\ m - 1 \in 1 .. h - 1
  <2>1. m - 1 \in 1 .. Len(b) /\ Len(a) + (m - 1) = m
    BY <1>1, <1>2
  <2>2. c[Len(a) + (m - 1)] = b[m - 1]
    BY <1>1, <1>2, <2>1, JoinedRight
  <2> QED BY <1>2, <2>1, <2>2
<1>9. c[h].size = Len(data)
  <2>1. h \in 2 .. h
    OBVIOUS
  <2> QED BY <1>4, <1>8, <2>1
<1> HIDE DEF c, F
<1>10. F \in Seq(Word) /\ Len(F) = h + Len(data)
  BY <1>5, <1>6, Joined
<1>11. ASSUME NEW m \in 1 .. h PROVE F[m] = c[m]
  BY <1>5, <1>6, JoinedLeft
<1>12. ASSUME NEW m \in 1 .. Len(data) PROVE F[h + m] = data[m]
  BY <1>5, <1>6, JoinedRight
<1>13. F[1].id = id /\ F[h].size = Len(data)
  <2>1. 1 \in 1 .. h /\ h \in 1 .. h
    OBVIOUS
  <2>2. F[1] = c[1] /\ F[h] = c[h]
    BY <1>11, <2>1
  <2> QED BY <1>7, <1>9, <2>2
<1>14. ASSUME NEW m \in 2 .. h PROVE F[m].id = "pad"
  <2>1. m \in 1 .. h
    OBVIOUS
  <2>2. F[m] = b[m - 1]
    BY <1>8, <1>11, <2>1
  <2> QED BY <1>3, <1>8, <2>2
<1> QED BY <1>10, <1>12, <1>13, <1>14, Zenon DEF F, IsFrame

Plain(data) == \A m \in 1 .. Len(data) : data[m].id = "data"

(* Only the first word of a frame tells its id.                            *)
LEMMA FrameHeader ==
  ASSUME NEW id \in Ids, NEW h \in Nat, h >= 2, NEW data \in Seq(Word), Plain(data),
         NEW e \in Ids
  PROVE  OneHeader(Frame(id, h, data), e)
<1> DEFINE F == Frame(id, h, data)
<1>0. IsFrame(F, id, h, data)
  BY FrameShape
<1> HIDE DEF F
<1>1. Len(F) = h + Len(data) /\ Len(data) \in Nat
  BY <1>0, LenProperties DEF IsFrame
<1>2. e # "pad" /\ e # "data"
  BY DEF Ids
<1>3. ASSUME NEW m \in 2 .. h PROVE F[m].id = "pad"
  BY <1>0, Zenon DEF IsFrame
<1>4. ASSUME NEW m \in 1 .. Len(data) PROVE F[h + m] = data[m]
  BY <1>0, Zenon DEF IsFrame
<1>5. ASSUME NEW m \in 2 .. Len(F) PROVE F[m].id # e
  <2>1. CASE m <= h
    <3>1. m \in 2 .. h
      BY <2>1
    <3> QED BY <1>2, <1>3, <3>1
  <2>2. CASE m > h
    <3>1. m - h \in 1 .. Len(data) /\ h + (m - h) = m
      BY <1>1, <2>2
    <3>2. F[h + (m - h)] = data[m - h]
      BY <1>4, <3>1
    <3>3. data[m - h].id = "data"
      BY <3>1, Zenon DEF Plain
    <3> QED BY <1>2, <3>1, <3>2, <3>3
  <2>3. m <= h \/ m > h
    OBVIOUS
  <2> QED BY <2>1, <2>2, <2>3
<1> QED BY <1>5, Zenon DEF OneHeader, F

(* A part of the file.                                                     *)
LEMMA PartShape ==
  ASSUME NEW f \in Seq(Word), f = Words(Len(f)), NEW at \in Nat, NEW n \in Nat, at + n <= Len(f)
  PROVE  LET d == SubSeq(f, at + 1, at + n)
         IN  /\ d \in Seq(Word) /\ Len(d) = n
             /\ \A m \in 1 .. n : d[m] = DataWord(at + m)
<1> DEFINE d == SubSeq(f, at + 1, at + n)
<1>1. Len(f) \in Nat
  BY LenProperties
<1>2. at + 1 \in Int /\ at + n \in Int /\ at + 1 >= 1
  OBVIOUS
<1>3. \A j \in at + 1 .. at + n : f[j] \in Word
  BY <1>1, ElementOfSeq
<1>4. d \in Seq(Word) /\ Len(d) = IF at + 1 <= at + n THEN (at + n) - (at + 1) + 1 ELSE 0
  BY <1>2, <1>3, SubSeqProperties
<1>5. Len(d) = n
  BY <1>4
<1>6. ASSUME NEW m \in 1 .. n PROVE d[m] = DataWord(at + m)
  <2>1. m \in 1 .. ((at + n) - (at + 1)) + 1 /\ at + 1 <= at + n /\ (at + 1) + m - 1 = at + m
    OBVIOUS
  <2>2. d[m] = f[(at + 1) + m - 1]
    BY <1>2, <1>3, <2>1, SubSeqProperties
  <2>3. at + m \in 1 .. Len(f)
    BY <1>1
  <2>4. Words(Len(f))[at + m] = DataWord(at + m)
    BY <2>3 DEF Words
  <2> QED BY <2>1, <2>2, <2>4
<1> QED BY <1>4, <1>5, <1>6

LEMMA DataFollows ==
  ASSUME NEW f \in Seq(Word), f = Words(Len(f)), NEW h \in Nat, h >= 2, NEW e \in Entries,
         NEW at \in Nat, NEW n \in Nat, n >= 1, at + n <= Len(f)
  PROVE  LET F == Frame(e, h, SubSeq(f, at + 1, at + n))
         IN  F \in Seq(Word) /\ Follows(F, h, f, e, at, at + n)
<1> DEFINE d == SubSeq(f, at + 1, at + n)
           F == Frame(e, h, d)
<1>1. d \in Seq(Word) /\ Len(d) = n
  BY PartShape
<1>2. ASSUME NEW m \in 1 .. n PROVE d[m] = DataWord(at + m)
  BY PartShape
<1>3. Plain(d)
  <2> HIDE DEF d
  <2>1. ASSUME NEW m \in 1 .. Len(d) PROVE d[m].id = "data"
    <3>1. d[m] = DataWord(at + m)
      BY <1>1, <1>2
    <3> QED BY <3>1 DEF DataWord
  <2> QED BY <2>1, Zenon DEF Plain
<1>4. e \in Ids
  BY DEF Entries, Ids
<1> HIDE DEF d
<1>7. OneHeader(F, e) /\ IsFrame(F, e, h, d)
  BY <1>1, <1>3, <1>4, FrameHeader, FrameShape
<1> HIDE DEF F
<1>5. F \in Seq(Word) /\ Len(F) = h + n /\ F[1].id = e /\ F[h].size = n
  BY <1>1, <1>7 DEF IsFrame
<1>6. ASSUME NEW m \in 1 .. n PROVE F[h + m] = d[m]
  BY <1>1, <1>7 DEF IsFrame
<1>8. WordsAt(F, h + 1, at, n)
  <2>1. ASSUME NEW m \in 1 .. n PROVE F[(h + 1) - 1 + m] = DataWord(at + m)
    <3>1. (h + 1) - 1 + m = h + m
      OBVIOUS
    <3> QED BY <1>2, <1>6, <3>1
  <2>2. (h + 1) + n <= Len(F) + 1
    BY <1>5
  <2> QED BY <2>1, <2>2, Zenon DEF WordsAt
<1>9. HoldsData(F, h, f, e, at, at + n, n)
  BY <1>5, <1>8, Zenon DEF HoldsData
<1>10. n \in Nat \ {0} /\ Len(F) >= 1
  BY <1>5
<1>11. Follows(F, h, f, e, at, at + n)
  BY <1>7, <1>9, <1>10, Zenon DEF Follows
<1> QED BY <1>5, <1>11 DEF F, d

LEMMA EmptyWords == <<>> \in Seq(Word) /\ Len(<<>>) = 0 /\ Plain(<<>>)
<1>1. <<>> \in Seq(Word) /\ Len(<<>>) = 0
  OBVIOUS
<1> QED BY <1>1 DEF Plain

LEMMA EndFollows ==
  ASSUME NEW f, NEW h \in Nat, h >= 2, NEW e \in Entries, NEW at, at = Len(f), NEW next
  PROVE  LET F == Frame("DONE", h, <<>>)
         IN  F \in Seq(Word) /\ Follows(F, h, f, e, at, next)
<1> DEFINE F == Frame("DONE", h, <<>>)
<1>1. "DONE" \in Ids /\ e \in Ids
  BY DEF Ids, Entries
<1>3. OneHeader(F, e) /\ IsFrame(F, "DONE", h, <<>>)
  BY <1>1, EmptyWords, FrameHeader, FrameShape
<1> HIDE DEF F
<1>2. F \in Seq(Word) /\ Len(F) = h + Len(<<>>) /\ F[1].id = "DONE"
  BY <1>3 DEF IsFrame
<1>4. Len(F) >= 1
  BY <1>2, EmptyWords
<1>5. Follows(F, h, f, e, at, next)
  BY <1>2, <1>3, <1>4, Zenon DEF Follows
<1> QED BY <1>2, <1>5 DEF F

LEMMA FailFollows ==
  ASSUME NEW F \in Failures
  PROVE  /\ F \in Seq(Word) /\ F[1].id = "FAIL" /\ Len(F) >= 1
         /\ \A e \in Ids : OneHeader(F, e)
         /\ \A h, f, at, next : \A e \in Entries : Follows(F, h, f, e, at, next)
<1>1. PICK n \in {1, 4} : F = Frame("FAIL", 2, [i \in 1 .. n |-> DataWord(9 * maxdata)])
  BY DEF Failures
<1> DEFINE d == [i \in 1 .. n |-> DataWord(9 * maxdata)]
<1>2. DataWord(9 * maxdata) \in Word /\ DataWord(9 * maxdata).id = "data"
  BY FileSyncAssumption DEF DataWord, Word
<1>3. d \in Seq(Word) /\ Len(d) = n
  BY <1>2
<1>4. ASSUME NEW m \in 1 .. Len(d) PROVE d[m].id = "data"
  BY <1>2, <1>3
<1> HIDE DEF d
<1>5. Plain(d)
  BY <1>4, Zenon DEF Plain
<1>6. "FAIL" \in Ids /\ Entries \subseteq Ids /\ F = Frame("FAIL", 2, d)
  BY <1>1 DEF Ids, Entries, d
<1>11. IsFrame(F, "FAIL", 2, d)
  BY <1>3, <1>6, FrameShape
<1>7. F \in Seq(Word) /\ F[1].id = "FAIL" /\ Len(F) = 2 + n
  BY <1>3, <1>11 DEF IsFrame
<1>8. ASSUME NEW e \in Ids PROVE OneHeader(F, e)
  BY <1>3, <1>5, <1>6, FrameHeader
<1>9. Len(F) >= 1
  BY <1>7
<1>10. ASSUME NEW h, NEW f, NEW at, NEW next, NEW e \in Entries
       PROVE  Follows(F, h, f, e, at, next)
  <2>1. OneHeader(F, e)
    BY <1>6, <1>8
  <2> QED BY <1>7, <1>9, <2>1, Zenon DEF Follows
<1> QED BY <1>7, <1>8, <1>9, <1>10
-----------------------------------------------------------------------------
(* The queues of packets.                                                  *)

Queue == Seq(Packet)

LEMMA EmptyQueue ==
  ASSUME NEW cmd
  PROVE  ~Has(<<>>, cmd) /\ Single(<<>>, cmd) /\ Load(<<>>) = <<>>
<1>1. 1 .. Len(<<>>) = {}
  OBVIOUS
<1>2. ASSUME NEW c PROVE ~Has(<<>>, c)
  BY <1>1, Zenon DEF Has
<1>3. Single(<<>>, cmd)
  BY <1>1, Zenon DEF Single
<1>4. Load(<<>>) = <<>>
  BY <1>2, Zenon DEF Load
<1> QED BY <1>2, <1>3, <1>4

LEMMA QueueFields ==
  ASSUME NEW q \in Queue, NEW i \in 1 .. Len(q)
  PROVE  q[i] \in Packet /\ q[i].data \in Seq(Word)
<1>1. q[i] \in Packet
  BY ElementOfSeq DEF Queue
<1> QED BY <1>1 DEF Packet

LEMMA AppendHas ==
  ASSUME NEW q \in Queue, NEW m \in Packet, NEW cmd
  PROVE  /\ Append(q, m) \in Queue
         /\ Has(Append(q, m), cmd) <=> Has(q, cmd) \/ m.cmd = cmd
         /\ Single(q, cmd) /\ (m.cmd = cmd => ~Has(q, cmd)) => Single(Append(q, m), cmd)
<1> DEFINE r == Append(q, m)
           n == Len(q)
<1>1. n \in Nat /\ r \in Queue /\ Len(r) = n + 1 /\ r[n + 1] = m
  BY AppendProperties DEF Queue
<1>2. ASSUME NEW i \in 1 .. n PROVE r[i] = q[i]
  BY AppendProperties DEF Queue
<1> HIDE DEF r, n
<1>3. ASSUME Has(r, cmd) PROVE Has(q, cmd) \/ m.cmd = cmd
  <2>1. PICK i \in 1 .. Len(r) : r[i].cmd = cmd
    BY <1>3, Zenon DEF Has
  <2>2. i \in 1 .. n \/ i = n + 1
    BY <1>1
  <2> QED BY <1>1, <1>2, <2>1, <2>2, Zenon DEF Has, n
<1>4. ASSUME Has(q, cmd) PROVE Has(r, cmd)
  <2>1. PICK i \in 1 .. n : q[i].cmd = cmd
    BY <1>4, Zenon DEF Has, n
  <2>2. i \in 1 .. Len(r)
    BY <1>1
  <2> QED BY <1>2, <2>1, <2>2, Zenon DEF Has
<1>5. ASSUME m.cmd = cmd PROVE Has(r, cmd)
  <2>1. n + 1 \in 1 .. Len(r)
    BY <1>1
  <2> QED BY <1>1, <1>5, <2>1, Zenon DEF Has
<1>6. ASSUME Single(q, cmd), m.cmd = cmd => ~Has(q, cmd) PROVE Single(r, cmd)
  <2> SUFFICES ASSUME NEW i \in 1 .. Len(r), NEW j \in 1 .. Len(r), r[i].cmd = cmd, r[j].cmd = cmd
               PROVE  i = j
    BY Zenon DEF Single
  <2>1. (i \in 1 .. n \/ i = n + 1) /\ (j \in 1 .. n \/ j = n + 1)
    BY <1>1
  <2>2. CASE m.cmd = cmd
    <3>1. ASSUME NEW k \in 1 .. n PROVE r[k].cmd # cmd
      BY <1>2, <1>6, <2>2, Zenon DEF Has, n
    <3> QED BY <2>1, <3>1
  <2>3. CASE m.cmd # cmd
    <3>1. i \in 1 .. n /\ j \in 1 .. n
      BY <1>1, <2>1, <2>3
    <3>2. q[i].cmd = cmd /\ q[j].cmd = cmd
      BY <1>2, <3>1
    <3> QED BY <1>6, <3>1, <3>2, Zenon DEF Single, n
  <2> QED BY <2>2, <2>3
<1> QED BY <1>1, <1>3, <1>4, <1>5, <1>6 DEF r

LEMMA TailHas ==
  ASSUME NEW q \in Queue, q # <<>>, NEW cmd
  PROVE  /\ Head(q) \in Packet /\ Tail(q) \in Queue
         /\ Has(q, cmd) <=> Has(Tail(q), cmd) \/ Head(q).cmd = cmd
         /\ Single(q, cmd) => Single(Tail(q), cmd)
         /\ Single(q, cmd) /\ Head(q).cmd = cmd => ~Has(Tail(q), cmd)
<1> DEFINE r == Tail(q)
           n == Len(r)
<1>1. r \in Queue /\ Len(q) = n + 1 /\ n \in Nat /\ Head(q) = q[1] /\ Head(q) \in Packet
  BY HeadTailProperties, LenProperties DEF Queue
<1>2. ASSUME NEW i \in 1 .. n PROVE r[i] = q[i + 1] /\ i + 1 \in 1 .. Len(q) /\ i + 1 # 1
  BY <1>1, HeadTailProperties DEF Queue
<1> HIDE DEF r, n
<1>3. ASSUME NEW i \in 1 .. Len(q), i # 1
      PROVE  i - 1 \in 1 .. n /\ r[i - 1] = q[i]
  <2>1. i - 1 \in 1 .. n /\ (i - 1) + 1 = i
    BY <1>1, <1>3
  <2> QED BY <1>2, <2>1
<1>4. 1 \in 1 .. Len(q)
  BY <1>1
<1>5. ASSUME Has(q, cmd) PROVE Has(r, cmd) \/ q[1].cmd = cmd
  <2>1. PICK i \in 1 .. Len(q) : q[i].cmd = cmd
    BY <1>5, Zenon DEF Has
  <2> QED BY <1>3, <2>1, Zenon DEF Has, n
<1>6. ASSUME Has(r, cmd) PROVE \E i \in 1 .. Len(q) : i # 1 /\ q[i].cmd = cmd
  <2>1. PICK i \in 1 .. n : r[i].cmd = cmd
    BY <1>6, Zenon DEF Has, n
  <2> QED BY <1>2, <2>1, Zenon
<1>7. Has(r, cmd) \/ q[1].cmd = cmd => Has(q, cmd)
  BY <1>4, <1>6, Zenon DEF Has
<1>8. ASSUME Single(q, cmd), q[1].cmd = cmd PROVE ~Has(r, cmd)
  BY <1>4, <1>6, <1>8, Zenon DEF Single
<1>9. ASSUME Single(q, cmd) PROVE Single(r, cmd)
  <2> SUFFICES ASSUME NEW i \in 1 .. n, NEW j \in 1 .. n, r[i].cmd = cmd, r[j].cmd = cmd
               PROVE  i = j
    BY Zenon DEF Single, n
  <2>1. i + 1 = j + 1
    BY <1>2, <1>9, Zenon DEF Single
  <2> QED BY <1>1, <2>1
<1> QED BY <1>1, <1>5, <1>7, <1>8, <1>9 DEF r

LEMMA LoadAt ==
  ASSUME NEW q, NEW i \in 1 .. Len(q), q[i].cmd = "WRTE", Single(q, "WRTE")
  PROVE  Load(q) = q[i].data
<1> DEFINE c == CHOOSE k \in 1 .. Len(q) : q[k].cmd = "WRTE"
<1>1. Has(q, "WRTE")
  BY Zenon DEF Has
<1>2. c \in 1 .. Len(q) /\ q[c].cmd = "WRTE"
  BY Zenon
<1>3. c = i
  BY <1>2, Zenon DEF Single
<1>4. Load(q) = q[c].data
  BY <1>1, Zenon DEF Load
<1> QED BY <1>3, <1>4

LEMMA NoLoad ==
  ASSUME NEW q, ~Has(q, "WRTE")
  PROVE  Load(q) = <<>>
BY Zenon DEF Load

LEMMA LoadWords ==
  ASSUME NEW q \in Queue
  PROVE  Load(q) \in Seq(Word)
<1>1. CASE Has(q, "WRTE")
  <2> DEFINE c == CHOOSE k \in 1 .. Len(q) : q[k].cmd = "WRTE"
  <2>1. c \in 1 .. Len(q)
    BY <1>1, Zenon DEF Has
  <2>2. Load(q) = q[c].data
    BY <1>1, Zenon DEF Load
  <2> HIDE DEF c
  <2> QED BY <2>1, <2>2, QueueFields
<1>2. CASE ~Has(q, "WRTE")
  BY <1>2, NoLoad, EmptyWords
<1> QED BY <1>1, <1>2

LEMMA LoadAppend ==
  ASSUME NEW q \in Queue, NEW m \in Packet, Single(q, "WRTE")
  PROVE  /\ m.cmd # "WRTE" => Load(Append(q, m)) = Load(q)
         /\ m.cmd = "WRTE" /\ ~Has(q, "WRTE") => Load(Append(q, m)) = m.data
<1> DEFINE r == Append(q, m)
           n == Len(q)
<1>1. n \in Nat /\ Len(r) = n + 1 /\ r[n + 1] = m
  BY AppendProperties DEF Queue
<1>2. ASSUME NEW i \in 1 .. n PROVE r[i] = q[i]
  BY AppendProperties DEF Queue
<1>3. Has(r, "WRTE") <=> Has(q, "WRTE") \/ m.cmd = "WRTE"
  BY AppendHas
<1>4. (m.cmd = "WRTE" => ~Has(q, "WRTE")) => Single(r, "WRTE")
  BY AppendHas
<1> HIDE DEF r, n
<1>5. ASSUME m.cmd # "WRTE", Has(q, "WRTE") PROVE Load(r) = Load(q)
  <2>1. PICK i \in 1 .. n : q[i].cmd = "WRTE"
    BY <1>5, Zenon DEF Has, n
  <2>2. i \in 1 .. Len(r) /\ r[i] = q[i]
    BY <1>1, <1>2
  <2>3. Load(r) = r[i].data
    BY <1>4, <1>5, <2>1, <2>2, LoadAt
  <2>4. Load(q) = q[i].data
    BY <2>1, LoadAt DEF n
  <2> QED BY <2>2, <2>3, <2>4
<1>6. ASSUME m.cmd # "WRTE", ~Has(q, "WRTE") PROVE Load(r) = Load(q)
  BY <1>3, <1>6, NoLoad
<1>7. ASSUME m.cmd = "WRTE", ~Has(q, "WRTE") PROVE Load(r) = m.data
  <2>1. n + 1 \in 1 .. Len(r)
    BY <1>1
  <2>2. Load(r) = r[n + 1].data
    BY <1>1, <1>4, <1>7, <2>1, LoadAt
  <2> QED BY <1>1, <2>2
<1> QED BY <1>5, <1>6, <1>7 DEF r

LEMMA LoadTail ==
  ASSUME NEW q \in Queue, q # <<>>, Single(q, "WRTE")
  PROVE  /\ Head(q).cmd # "WRTE" => Load(Tail(q)) = Load(q)
         /\ Head(q).cmd = "WRTE" => Load(q) = Head(q).data /\ Load(Tail(q)) = <<>>
<1> DEFINE r == Tail(q)
           n == Len(r)
<1>1. r \in Queue /\ Len(q) = n + 1 /\ n \in Nat /\ Head(q) = q[1]
  BY HeadTailProperties, LenProperties DEF Queue
<1>2. ASSUME NEW i \in 1 .. n PROVE r[i] = q[i + 1] /\ i + 1 \in 1 .. Len(q)
  BY <1>1, HeadTailProperties DEF Queue
<1>3. /\ Has(q, "WRTE") <=> Has(r, "WRTE") \/ Head(q).cmd = "WRTE"
      /\ Single(r, "WRTE")
      /\ Head(q).cmd = "WRTE" => ~Has(r, "WRTE")
  BY TailHas
<1> HIDE DEF r, n
<1>4. ASSUME Head(q).cmd # "WRTE", Has(r, "WRTE") PROVE Load(r) = Load(q)
  <2>1. PICK i \in 1 .. n : r[i].cmd = "WRTE"
    BY <1>4, Zenon DEF Has, n
  <2>2. Load(r) = r[i].data
    BY <1>3, <2>1, LoadAt DEF n
  <2>3. r[i] = q[i + 1] /\ i + 1 \in 1 .. Len(q)
    BY <1>2
  <2> HIDE DEF n
  <2>4. Load(q) = q[i + 1].data
    BY <2>1, <2>3, LoadAt
  <2> QED BY <2>2, <2>3, <2>4
<1>5. ASSUME Head(q).cmd # "WRTE", ~Has(r, "WRTE") PROVE Load(r) = Load(q)
  BY <1>3, <1>5, NoLoad
<1>6. ASSUME Head(q).cmd = "WRTE" PROVE Load(q) = Head(q).data /\ Load(r) = <<>>
  <2>1. 1 \in 1 .. Len(q) /\ q[1].cmd = "WRTE"
    BY <1>1, <1>6
  <2>2. Load(q) = q[1].data
    BY <2>1, LoadAt
  <2>3. Load(r) = <<>>
    BY <1>3, <1>6, NoLoad
  <2> QED BY <1>1, <2>2, <2>3
<1> QED BY <1>4, <1>5, <1>6 DEF r
-----------------------------------------------------------------------------
(* Types.                                                                  *)

DevType ==
  [st : {"wait", "push", "answer", "failed", "done", "closed"}, in : Seq(Word),
   file : Seq(Word), out : Seq(Word), ready : BOOLEAN, at : Nat]

Steps ==
  {"mkdir", "open", "stat", "add", "flushed", "await", "awaitlast", "read", "header", "data", "clse",
   "closing", "end"}

ClientTypes ==
  /\ left \in 0 .. MaxFiles /\ local_path_is_dir \in BOOLEAN
  /\ file \in Seq(Word) /\ pc \in Steps
  /\ recv_buffer \in Seq(Word) /\ header \in Word /\ got \in Seq(Word)
  /\ outcome \in Outcomes

LEMMA TypeParts ==
  IInv => (TypeOK <=> ClientTypes /\ to_host \in Queue /\ dev \in DevType)
<1> SUFFICES ASSUME IInv
             PROVE  TypeOK <=> ClientTypes /\ to_host \in Queue /\ dev \in DevType
  OBVIOUS
<1>1. todo \in Seq(Seq(Word))
  <2>1. Fitting \subseteq Seq(Word)
    BY DEF Fitting
  <2>2. todo \in Seq(Fitting)
    BY DEF IInv
  <2> QED BY <2>1, <2>2
<1>2. to_dev \in Seq(Packet)
  <2>1. SmallPacket \subseteq Packet
    BY DEF SmallPacket, Packet, Small
  <2>2. to_dev \in Seq(SmallPacket)
    BY DEF IInv
  <2> QED BY <2>1, <2>2
<1>3. send_buffer \in Seq(Word) /\ Len(send_buffer) <= maxdata /\ command \in Commands
  BY DEF IInv, Small
<1> QED BY <1>1, <1>2, <1>3, Zenon DEF TypeOK, ClientTypes, DevType, Steps, Queue, Word

(* What both invariants say of the types.                                  *)
Typed == IInv /\ TypeOK

LEMMA TypedParts ==
  ASSUME Typed
  PROVE  /\ ClientTypes /\ to_host \in Queue /\ to_dev \in Queue /\ dev \in DevType
         /\ send_buffer \in Seq(Word) /\ command \in {"push", "pull", "list", "stat"}
         /\ dev.in \in Seq(Word) /\ dev.file \in Seq(Word) /\ dev.out \in Seq(Word)
         /\ dev.ready \in BOOLEAN /\ dev.at \in Nat
         /\ AnswerHeader \in Nat /\ AnswerHeader >= 2
<1>1. ClientTypes /\ to_host \in Queue /\ dev \in DevType
  BY TypeParts DEF Typed
<1>2. to_dev \in Queue /\ send_buffer \in Seq(Word)
  BY Zenon DEF Typed, TypeOK, Queue
<1>3. command \in {"push", "pull", "list", "stat"}
  BY FileSyncAssumption DEF Typed, IInv
<1>4. AnswerHeader \in Nat /\ AnswerHeader >= 2
  BY <1>3 DEF AnswerHeader
<1> QED BY <1>1, <1>2, <1>3, <1>4 DEF DevType

(* The first n words of a sequence.                                        *)
LEMMA FirstWords ==
  ASSUME NEW L \in Seq(Word), NEW n \in Nat, n <= Len(L)
  PROVE  /\ SubSeq(L, 1, n) \in Seq(Word) /\ Len(SubSeq(L, 1, n)) = n
         /\ SubSeq(L, 1, n) \o Dropped(L, n) = L
<1> DEFINE a == SubSeq(L, 1, n)
           b == Dropped(L, n)
<1>1. Len(L) \in Nat
  BY LenProperties
<1>2. \A j \in 1 .. n : L[j] \in Word
  BY <1>1, ElementOfSeq
<1>3. a \in Seq(Word) /\ Len(a) = IF 1 <= n THEN n - 1 + 1 ELSE 0
  BY <1>2, SubSeqProperties
<1>4. Len(a) = n
  BY <1>3
<1>5. ASSUME NEW k \in 1 .. n PROVE a[k] = L[k]
  <2>1. k \in 1 .. (n - 1) + 1 /\ 1 <= n /\ 1 + k - 1 = k
    OBVIOUS
  <2>2. a[k] = L[1 + k - 1]
    BY <1>2, <2>1, SubSeqProperties
  <2> QED BY <2>1, <2>2
<1>6. b \in Seq(Word) /\ Len(b) = Len(L) - n
  BY DroppedShape
<1>7. ASSUME NEW k \in n + 1 .. Len(L) PROVE b[k - n] = L[k]
  <2>1. k - n \in Nat /\ k - n >= 1 /\ n + (k - n) = k /\ n + (k - n) <= Len(L)
    BY <1>1
  <2>2. b[k - n] = L[n + (k - n)]
    BY <2>1, DroppedWord
  <2> QED BY <2>1, <2>2
<1> HIDE DEF a, b
<1>8. a \o b \in Seq(Word) /\ Len(a \o b) = Len(L)
  <2>1. a \o b \in Seq(Word) /\ Len(a \o b) = Len(a) + Len(b)
    BY <1>3, <1>6, Joined
  <2> QED BY <1>1, <1>4, <1>6, <2>1
<1>9. ASSUME NEW k \in 1 .. Len(L) PROVE (a \o b)[k] = L[k]
  <2>1. CASE k <= n
    <3>1. k \in 1 .. Len(a) /\ k \in 1 .. n
      BY <1>4, <2>1
    <3>2. (a \o b)[k] = a[k]
      BY <1>3, <1>6, <3>1, JoinedLeft
    <3> QED BY <1>5, <3>1, <3>2
  <2>2. CASE k > n
    <3>1. k \in n + 1 .. Len(L) /\ k - n \in 1 .. Len(b) /\ Len(a) + (k - n) = k
      BY <1>1, <1>4, <1>6, <2>2
    <3>2. (a \o b)[Len(a) + (k - n)] = b[k - n]
      BY <1>3, <1>6, <3>1, JoinedRight
    <3> QED BY <1>7, <3>1, <3>2
  <2>3. k <= n \/ k > n
    OBVIOUS
  <2> QED BY <2>1, <2>2, <2>3
<1>10. a \o b = L
  BY <1>8, <1>9, SeqEqual
<1> QED BY <1>3, <1>4, <1>10 DEF a, b

-----------------------------------------------------------------------------
(* What the device's steps do, field by field.                             *)

DevIs(st, in, f, out, ready, at) ==
  /\ dev' \in DevType
  /\ dev'.st = st /\ dev'.in = in /\ dev'.file = f /\ dev'.out = out
  /\ dev'.ready = ready /\ dev'.at = at

LEMMA HeadPacket ==
  ASSUME Typed, to_dev # <<>>
  PROVE  Head(to_dev) \in Packet /\ Head(to_dev).data \in Seq(Word) /\ Tail(to_dev) \in Queue
<1>1. Head(to_dev) \in Packet /\ Tail(to_dev) \in Queue
  BY TypedParts, TailHas
<1> QED BY <1>1 DEF Packet

LEMMA HeadAnswer ==
  ASSUME Typed, to_host # <<>>
  PROVE  Head(to_host) \in Packet /\ Head(to_host).data \in Seq(Word) /\ Tail(to_host) \in Queue
<1>1. Head(to_host) \in Packet /\ Tail(to_host) \in Queue
  BY TypedParts, TailHas
<1> QED BY <1>1 DEF Packet

LEMMA MsgPacket ==
  ASSUME NEW cmd \in {"OKAY", "WRTE", "CLSE"}, NEW data \in Seq(Word)
  PROVE  Msg(cmd, data) \in Packet /\ Msg(cmd, data).cmd = cmd /\ Msg(cmd, data).data = data
BY DEF Msg, Packet

LEMMA ReceiveEffect ==
  ASSUME Typed, DevReceive
  PROVE  /\ to_dev # <<>> /\ to_dev' = Tail(to_dev) /\ UNCHANGED client
         /\ \/ /\ Head(to_dev).cmd = "WRTE"
               /\ DevIs(dev.st, dev.in \o Head(to_dev).data, dev.file, dev.out, dev.ready, dev.at)
               /\ to_host' = Append(to_host, Msg("OKAY", <<>>))
            \/ /\ Head(to_dev).cmd = "OKAY"
               /\ DevIs(dev.st, dev.in, dev.file, dev.out, TRUE, dev.at)
               /\ to_host' = to_host
            \/ /\ Head(to_dev).cmd = "CLSE"
               /\ DevIs("closed", dev.in, dev.file, dev.out, dev.ready, dev.at)
               /\ to_host' = Append(to_host, Msg("CLSE", <<>>))
<1> DEFINE m == Head(to_dev)
<1>1. to_dev # <<>> /\ to_dev' = Tail(to_dev) /\ UNCHANGED client /\ DevPacket(m)
  BY Zenon DEF DevReceive
<1>2. m.cmd \in {"OKAY", "WRTE", "CLSE"} /\ m.data \in Seq(Word)
  BY <1>1, HeadPacket DEF Packet
<1>3. dev \in DevType /\ dev.in \in Seq(Word)
  BY TypedParts
<1> HIDE DEF m
<1>4. CASE m.cmd = "WRTE"
  <2>1. dev' = [dev EXCEPT !.in = dev.in \o m.data] /\ to_host' = Append(to_host, Msg("OKAY", <<>>))
    BY <1>1, <1>4 DEF DevPacket
  <2>2. dev.in \o m.data \in Seq(Word)
    BY <1>2, <1>3, Joined
  <2>3. DevIs(dev.st, dev.in \o m.data, dev.file, dev.out, dev.ready, dev.at)
    BY <1>3, <2>1, <2>2 DEF DevIs, DevType
  <2> QED BY <1>1, <1>4, <2>1, <2>3 DEF m
<1>5. CASE m.cmd = "OKAY"
  <2>1. dev' = [dev EXCEPT !.ready = TRUE] /\ to_host' = to_host
    BY <1>1, <1>5 DEF DevPacket
  <2>3. DevIs(dev.st, dev.in, dev.file, dev.out, TRUE, dev.at)
    BY <1>3, <2>1 DEF DevIs, DevType
  <2> QED BY <1>1, <1>5, <2>1, <2>3 DEF m
<1>6. CASE m.cmd = "CLSE"
  <2>1. dev' = [dev EXCEPT !.st = "closed"] /\ to_host' = Append(to_host, Msg("CLSE", <<>>))
    BY <1>1, <1>6 DEF DevPacket
  <2>3. DevIs("closed", dev.in, dev.file, dev.out, dev.ready, dev.at)
    BY <1>3, <2>1 DEF DevIs, DevType
  <2> QED BY <1>1, <1>6, <2>1, <2>3 DEF m
<1> QED BY <1>2, <1>4, <1>5, <1>6

Refused == \E F \in Failures : DevIs("failed", <<>>, dev.file, F, dev.ready, dev.at)

LEMMA ParseEffect ==
  ASSUME Typed, DevParse
  PROVE  LET n == RequestSize
             rest == Dropped(dev.in, RequestSize)
         IN  /\ dev.st \in {"wait", "push", "failed"}
             /\ n \in Nat /\ n >= 2 /\ n <= Len(dev.in)
             /\ \/ /\ dev.st = "failed"
                   /\ DevIs("failed", rest, dev.file, dev.out, dev.ready, dev.at)
                \/ /\ dev.st \in {"wait", "push"} /\ dev.in[1].id = "SEND"
                   /\ DevIs("push", rest, dev.file, dev.out, dev.ready, dev.at)
                \/ /\ dev.st \in {"wait", "push"} /\ dev.in[1].id = "DATA"
                   /\ DevIs(dev.st, rest, dev.file \o SubSeq(dev.in, RequestHeader + 1, n), dev.out,
                            dev.ready, dev.at)
                \/ /\ dev.st \in {"wait", "push"} /\ dev.in[1].id = "DONE"
                   /\ DevIs("done", rest, dev.file, Frame("OKAY", 2, <<>>), dev.ready, dev.at)
                \/ /\ dev.st \in {"wait", "push"} /\ dev.in[1].id \in {"RECV", "LIST"}
                   /\ DevIs("answer", <<>>, dev.file, <<>>, dev.ready, dev.at) \/ Refused
                \/ /\ dev.st \in {"wait", "push"} /\ dev.in[1].id = "STAT"
                   /\ \/ DevIs("done", <<>>, dev.file, Frame("STAT", 4, <<>>), dev.ready, dev.at)
                      \/ Refused
             /\ UNCHANGED <<client, to_dev, to_host>>
<1> DEFINE n == RequestSize
           rest == Dropped(dev.in, RequestSize)
           data == SubSeq(dev.in, RequestHeader + 1, n)
           id == dev.in[1].id
           okay == Frame("OKAY", 2, <<>>)
           stat == Frame("STAT", 4, <<>>)
<1>1. /\ dev.st \in {"wait", "push", "failed"} /\ HasRequest
      /\ UNCHANGED <<client, to_dev, to_host>>
      /\ IF dev.st = "failed" THEN dev' = [dev EXCEPT !.in = rest]
         ELSE DevRequest(id, data, rest)
  BY Zenon DEF DevParse, Dropped
<1>2. dev \in DevType /\ dev.in \in Seq(Word) /\ dev.file \in Seq(Word) /\ Len(dev.in) \in Nat
  BY TypedParts, LenProperties
<1>3. n \in Nat /\ n >= 2 /\ n <= Len(dev.in)
  <2>1. Len(dev.in) >= RequestHeader /\ Len(dev.in) >= RequestSize
    BY <1>1 DEF HasRequest
  <2>2. 2 \in 1 .. Len(dev.in)
    BY <1>2, <2>1 DEF RequestHeader
  <2>3. dev.in[2].size \in Nat
    BY <1>2, <2>2, WordFields
  <2> QED BY <2>1, <2>3 DEF RequestSize, RequestHeader
<1>4. rest \in Seq(Word)
  BY <1>2, <1>3, DroppedShape
<1>5. data \in Seq(Word)
  <2>1. \A j \in RequestHeader + 1 .. n : dev.in[j] \in Word
    BY <1>2, <1>3, ElementOfSeq DEF RequestHeader
  <2> HIDE DEF n
  <2> QED BY <1>3, <2>1, SubSeqProperties DEF RequestHeader
<1>6. okay \in Seq(Word) /\ stat \in Seq(Word) /\ <<>> \in Seq(Word)
  <2>1. 2 \in Nat /\ 2 >= 2 /\ 4 \in Nat /\ 4 >= 2 /\ "OKAY" \in Ids /\ "STAT" \in Ids
    BY DEF Ids
  <2>2. IsFrame(okay, "OKAY", 2, <<>>) /\ IsFrame(stat, "STAT", 4, <<>>)
    BY <2>1, EmptyWords, FrameShape, Zenon
  <2> QED BY <2>2, EmptyWords DEF IsFrame
<1>7. dev.file \o data \in Seq(Word)
  BY <1>2, <1>5, Joined
<1> HIDE DEF n, rest, data, id, okay, stat
<1>8. ASSUME DevFails PROVE Refused
  <2>1. PICK F \in Failures : dev' = [dev EXCEPT !.st = "failed", !.in = <<>>, !.out = F]
    BY <1>8 DEF DevFails
  <2>2. F \in Seq(Word)
    BY FailFollows
  <2>3. DevIs("failed", <<>>, dev.file, F, dev.ready, dev.at)
    BY <1>2, <1>6, <2>1, <2>2 DEF DevIs, DevType
  <2> QED BY <2>3 DEF Refused
<1>9. CASE dev.st = "failed"
  <2>1. DevIs("failed", rest, dev.file, dev.out, dev.ready, dev.at)
    BY <1>1, <1>2, <1>4, <1>9 DEF DevIs, DevType
  <2> QED BY <1>1, <1>3, <1>9, <2>1 DEF n, rest
<1>10. CASE dev.st # "failed"
  <2>0. dev.st \in {"wait", "push"}
    BY <1>1, <1>10
  <2>1. CASE id = "SEND" /\ dev' = [dev EXCEPT !.st = "push", !.in = rest]
    <3>1. DevIs("push", rest, dev.file, dev.out, dev.ready, dev.at)
      BY <1>2, <1>4, <2>1 DEF DevIs, DevType
    <3> QED BY <1>1, <1>3, <2>0, <2>1, <3>1 DEF n, rest, id
  <2>2. CASE id = "DATA" /\ dev' = [dev EXCEPT !.file = @ \o data, !.in = rest]
    <3>1. dev' = [dev EXCEPT !.file = dev.file \o data, !.in = rest]
      BY <1>2, <2>2 DEF DevType
    <3>2. DevIs(dev.st, rest, dev.file \o data, dev.out, dev.ready, dev.at)
      BY <1>2, <1>4, <1>7, <3>1 DEF DevIs, DevType
    <3> QED BY <1>1, <1>3, <2>0, <2>2, <3>2 DEF n, rest, id, data
  <2>3. CASE id = "DONE" /\ dev' = [dev EXCEPT !.st = "done", !.in = rest, !.out = okay]
    <3>1. DevIs("done", rest, dev.file, okay, dev.ready, dev.at)
      BY <1>2, <1>4, <1>6, <2>3 DEF DevIs, DevType
    <3> QED BY <1>1, <1>3, <2>0, <2>3, <3>1 DEF n, rest, id, okay
  <2>4. CASE id \in {"RECV", "LIST"} /\ (DevAnswers("answer", <<>>) \/ DevFails)
    <3>1. DevIs("answer", <<>>, dev.file, <<>>, dev.ready, dev.at) \/ Refused
      BY <1>2, <1>6, <1>8, <2>4 DEF DevIs, DevType, DevAnswers
    <3> QED BY <1>1, <1>3, <2>0, <2>4, <3>1 DEF n, rest, id
  <2>5. CASE id = "STAT" /\ (DevAnswers("done", stat) \/ DevFails)
    <3>1. DevIs("done", <<>>, dev.file, stat, dev.ready, dev.at) \/ Refused
      BY <1>2, <1>6, <1>8, <2>5 DEF DevIs, DevType, DevAnswers
    <3> QED BY <1>1, <1>3, <2>0, <2>5, <3>1 DEF n, rest, id, stat
  <2> QED BY <1>1, <1>10, <2>1, <2>2, <2>3, <2>4, <2>5, Zenon DEF DevRequest, okay, stat
<1> QED BY <1>9, <1>10

LEMMA PartWords ==
  ASSUME NEW f \in Seq(Word), NEW at \in Nat, NEW n \in Nat, at + n <= Len(f)
  PROVE  SubSeq(f, at + 1, at + n) \in Seq(Word)
<1>1. Len(f) \in Nat /\ at + 1 \in Int /\ at + n \in Int /\ at + 1 >= 1
  BY LenProperties
<1>2. \A j \in at + 1 .. at + n : f[j] \in Word
  BY <1>1, ElementOfSeq
<1> QED BY <1>1, <1>2, SubSeqProperties

(* A frame of k words of the file, at the end of what the device has to say. *)
Piece(id, k) == Frame(id, AnswerHeader, SubSeq(file, dev.at + 1, dev.at + k))

LEMMA AnswerEffect ==
  ASSUME Typed, DevAnswer
  PROVE  /\ dev.st = "answer" /\ UNCHANGED <<client, to_dev, to_host>>
         /\ \/ \E k \in 1 .. MaxEntry, id \in Goes :
                 /\ dev.at + k <= Len(file)
                 /\ Piece(id, k) \in Seq(Word)
                 /\ DevIs("answer", dev.in, dev.file, dev.out \o Piece(id, k), dev.ready, dev.at + k)
            \/ /\ dev.at = Len(file)
               /\ DevIs("done", dev.in, dev.file, dev.out \o Frame("DONE", AnswerHeader, <<>>),
                        dev.ready, dev.at)
<1>1. dev.st = "answer" /\ UNCHANGED <<client, to_dev, to_host>>
  BY DEF DevAnswer
<1>2. /\ dev \in DevType /\ dev.out \in Seq(Word) /\ dev.at \in Nat /\ file \in Seq(Word)
      /\ AnswerHeader \in Nat /\ AnswerHeader >= 2
  BY TypedParts DEF ClientTypes
<1>3. CASE DevEntry
  <2>1. PICK k \in 1 .. MaxEntry, id \in Goes :
          /\ dev.at + k <= Len(file)
          /\ dev' = [dev EXCEPT !.out = @ \o Piece(id, k), !.at = @ + k]
    BY <1>3, Zenon DEF DevEntry, Piece
  <2>2. k \in Nat /\ k >= 1 /\ id \in Entries
    BY FileSyncAssumption DEF Goes, Entries
  <2>3. Piece(id, k) \in Seq(Word)
    <3>1. SubSeq(file, dev.at + 1, dev.at + k) \in Seq(Word)
      BY <1>2, <2>1, <2>2, PartWords
    <3>2. id \in Ids
      BY <2>2 DEF Entries, Ids
    <3>3. IsFrame(Piece(id, k), id, AnswerHeader, SubSeq(file, dev.at + 1, dev.at + k))
      BY <1>2, <3>1, <3>2, FrameShape, Zenon DEF Piece
    <3> QED BY <3>3, Zenon DEF IsFrame
  <2>4. dev.out \o Piece(id, k) \in Seq(Word)
    BY <1>2, <2>3, Joined
  <2>5. dev' = [dev EXCEPT !.out = dev.out \o Piece(id, k), !.at = dev.at + k] /\ dev.at + k \in Nat
    BY <1>2, <2>1, <2>2 DEF DevType
  <2>6. DevIs("answer", dev.in, dev.file, dev.out \o Piece(id, k), dev.ready, dev.at + k)
    BY <1>1, <1>2, <2>4, <2>5 DEF DevIs, DevType
  <2> QED BY <1>1, <2>1, <2>3, <2>6
<1>4. CASE ~DevEntry
  <2> DEFINE done == Frame("DONE", AnswerHeader, <<>>)
  <2>1. dev.at = Len(file) /\ dev' = [dev EXCEPT !.st = "done", !.out = @ \o done]
    BY <1>4, Zenon DEF DevAnswer
  <2>2. done \in Seq(Word)
    <3>1. IsFrame(done, "DONE", AnswerHeader, <<>>)
      BY <1>2, EmptyWords, FrameShape DEF Ids
    <3> QED BY <3>1 DEF IsFrame
  <2> HIDE DEF done
  <2>3. dev.out \o done \in Seq(Word)
    BY <1>2, <2>2, Joined
  <2>4. dev' = [dev EXCEPT !.st = "done", !.out = dev.out \o done]
    BY <1>2, <2>1 DEF DevType
  <2>5. DevIs("done", dev.in, dev.file, dev.out \o done, dev.ready, dev.at)
    BY <1>2, <2>3, <2>4 DEF DevIs, DevType
  <2> QED BY <1>1, <2>1, <2>5 DEF done
<1> QED BY <1>3, <1>4

LEMMA FailEffect ==
  ASSUME Typed, DevFail
  PROVE  /\ dev.st \in {"push", "answer"} /\ UNCHANGED <<client, to_dev, to_host>>
         /\ \E F \in Failures : DevIs("failed", dev.in, dev.file, dev.out \o F, dev.ready, dev.at)
<1>1. PICK F \in Failures : dev' = [dev EXCEPT !.st = "failed", !.out = @ \o F]
  BY DEF DevFail
<1>2. dev \in DevType /\ dev.out \in Seq(Word) /\ F \in Seq(Word)
  BY TypedParts, FailFollows
<1>3. dev.out \o F \in Seq(Word) /\ dev' = [dev EXCEPT !.st = "failed", !.out = dev.out \o F]
  BY <1>1, <1>2, Joined DEF DevType
<1>4. DevIs("failed", dev.in, dev.file, dev.out \o F, dev.ready, dev.at)
  BY <1>2, <1>3 DEF DevIs, DevType
<1> QED BY <1>4 DEF DevFail

LEMMA SendEffect ==
  ASSUME Typed, DevSend
  PROVE  /\ dev.st # "closed" /\ dev.ready /\ UNCHANGED <<client, to_dev>>
         /\ \E k \in 1 .. Len(dev.out) :
              /\ SubSeq(dev.out, 1, k) \in Seq(Word)
              /\ to_host' = Append(to_host, Msg("WRTE", SubSeq(dev.out, 1, k)))
              /\ DevIs(dev.st, dev.in, dev.file, Dropped(dev.out, k), FALSE, dev.at)
<1>1. dev.st # "closed" /\ dev.ready /\ UNCHANGED <<client, to_dev>>
  BY DEF DevSend
<1>2. dev \in DevType /\ dev.out \in Seq(Word) /\ Len(dev.out) \in Nat
  BY TypedParts, LenProperties
<1>3. PICK k \in 1 .. Least(Len(dev.out), maxdata) :
        /\ to_host' = Append(to_host, Msg("WRTE", SubSeq(dev.out, 1, k)))
        /\ dev' = [dev EXCEPT !.out = SubSeq(@, k + 1, Len(@)), !.ready = FALSE]
  BY Zenon DEF DevSend
<1>4. k \in 1 .. Len(dev.out) /\ k \in Nat /\ k <= Len(dev.out)
  BY <1>2, FileSyncAssumption DEF Least
<1>5. Dropped(dev.out, k) \in Seq(Word) /\ SubSeq(dev.out, 1, k) \in Seq(Word)
  BY <1>2, <1>4, DroppedShape, FirstWords
<1>6. dev' = [dev EXCEPT !.out = Dropped(dev.out, k), !.ready = FALSE]
  BY <1>2, <1>3, Zenon DEF DevType, Dropped
<1>7. DevIs(dev.st, dev.in, dev.file, Dropped(dev.out, k), FALSE, dev.at)
  BY <1>2, <1>5, <1>6 DEF DevIs, DevType
<1> QED BY <1>1, <1>3, <1>4, <1>5, <1>7
-----------------------------------------------------------------------------
(* The type invariant is inductive.                                        *)

LEMMA InitTyped == Init => Typed
<1> SUFFICES ASSUME Init PROVE Typed
  OBVIOUS
<1>1. IInv
  BY InitOK
<1>2. ClientTypes
  <2>1. file \in Seq(Word)
    BY WordsAreWords, FileSyncAssumption DEF Init
  <2>2. pc \in {"mkdir", "open", "stat", "add"} /\ left \in 0 .. MaxFiles
    BY FileSyncAssumption DEF Init, FirstSteps
  <2> QED BY <2>1, <2>2 DEF Init, ClientTypes, Steps, Word, Outcomes
<1>3. to_host \in Queue /\ dev \in DevType
  BY DEF Init, Queue, DevReady, DevType
<1> QED BY <1>1, <1>2, <1>3, TypeParts DEF Typed

(* A file of a push is opened.                                             *)
Opens ==
  /\ pc = "open" /\ pc' = "add" /\ outcome' = "none"
  /\ file' \in Seq(Word) /\ file' = Words(Len(file')) /\ todo' = Requests(command, file')
  /\ send_buffer' = <<>> /\ recv_buffer' = <<>>
  /\ to_dev' = <<>> /\ to_host' = <<>> /\ dev' = DevReady
  /\ UNCHANGED <<command, left, local_path_is_dir, header, got>>

LEMMA OpenCases ==
  ASSUME OpenFile
  PROVE  Opens \/ (pc = "open" /\ Fails("FileNotFoundError", "end"))
<1>1. CASE ~Fails("FileNotFoundError", "end")
  <2>1. PICK n \in Sizes : file' = Words(n)
    BY <1>1, Zenon DEF OpenFile
  <2>2. n \in Nat
    BY FileSyncAssumption
  <2>3. file' \in Seq(Word)
    BY <2>1, <2>2, WordsAreWords
  <2>4. Len(file') = n
    BY <2>1, <2>2 DEF Words
  <2> QED BY <1>1, <2>1, <2>3, <2>4, Zenon DEF OpenFile, Opens
<1> QED BY <1>1, Zenon DEF OpenFile

LEMMA NeededWords ==
  ASSUME Typed
  PROVE  Needed \in Nat
BY TypedParts DEF Needed, ClientTypes, Word

LEMMA HeaderWord ==
  ASSUME Typed, NEW L \in Seq(Word), Len(L) >= AnswerHeader
  PROVE  [id |-> L[1].id, size |-> L[AnswerHeader].size] \in Word
<1>1. 1 \in 1 .. Len(L) /\ AnswerHeader \in 1 .. Len(L)
  BY TypedParts, LenProperties
<1>2. L[1] \in Word /\ L[AnswerHeader] \in Word
  BY <1>1, ElementOfSeq
<1> QED BY <1>2 DEF Word

LEMMA ClientTyped ==
  ASSUME Typed, Client
  PROVE  ClientTypes' /\ to_host' \in Queue /\ dev' \in DevType
<1>0. /\ ClientTypes /\ to_host \in Queue /\ dev \in DevType
      /\ AnswerHeader \in Nat /\ AnswerHeader >= 2
  BY TypedParts
<1>1. CASE FilesyncSend \/ AddAfterFlush
  BY <1>0, <1>1 DEF FilesyncSend, AddAfterFlush, AddFrame, Flush, ClientTypes, Steps, request
<1>2. CASE FlushDone
  BY <1>0, <1>2, HeadAnswer DEF FlushDone, Flushed, ClientTypes, Steps, request
<1>3. CASE BeginRead \/ FilesyncRead
  BY <1>0, <1>3 DEF BeginRead, FilesyncRead, Flush, ClientTypes, Steps, request
<1>4. CASE FillBuffer
  <2>1. /\ to_host # <<>> /\ recv_buffer' = recv_buffer \o Head(to_host).data
        /\ to_host' = Tail(to_host) /\ dev' = dev
        /\ UNCHANGED <<left, local_path_is_dir, file, pc, header, got, outcome>>
    BY <1>4 DEF FillBuffer, request
  <2>2. recv_buffer' \in Seq(Word)
    BY <1>0, <2>1, HeadAnswer, Joined DEF ClientTypes
  <2> QED BY <1>0, <2>1, <2>2, HeadAnswer DEF ClientTypes
<1>5. CASE ReadHeader \/ ReadData
  <2>1. Needed \in Nat /\ Needed <= Len(recv_buffer) /\ recv_buffer \in Seq(Word)
    BY <1>0, <1>5, NeededWords, LenProperties DEF ReadHeader, ReadData, ClientTypes
  <2>2. recv_buffer' \in Seq(Word)
    <3>1. recv_buffer' = Dropped(recv_buffer, Needed)
      BY <1>5 DEF ReadHeader, ReadData, Remaining, Dropped
    <3> QED BY <2>1, <3>1, DroppedShape
  <2>3. CASE ReadHeader
    <3>1. Needed = AnswerHeader
      BY <2>3 DEF ReadHeader, Needed
    <3>2. header' \in Word
      <4>1. header' = [id |-> recv_buffer[1].id, size |-> recv_buffer[AnswerHeader].size]
        BY <2>3 DEF ReadHeader
      <4>2. Len(recv_buffer) >= AnswerHeader
        BY <2>3, <3>1 DEF ReadHeader
      <4> QED BY <2>1, <4>1, <4>2, HeaderWord
    <3> QED BY <1>0, <2>2, <2>3, <3>2 DEF ReadHeader, ClientTypes, Steps, request
  <2>4. CASE ReadData
    <3> DEFINE data == SubSeq(recv_buffer, 1, Needed)
    <3>1. data \in Seq(Word)
      BY <2>1, FirstWords
    <3>2. Handle(header.id, data, {"pull"})
      BY <2>4 DEF ReadData, HandleFrame
    <3> HIDE DEF data
    <3>3. got' \in Seq(Word)
      BY <1>0, <3>1, <3>2, Joined DEF Handle, ClientTypes
    <3>4. pc' \in Steps /\ outcome' \in Outcomes
      BY <1>0, <3>2 DEF Handle, Steps, ClientTypes, Outcomes, Error
    <3>5. UNCHANGED <<left, local_path_is_dir, file, header, to_host, dev>>
      BY <2>4 DEF ReadData, request
    <3> QED BY <1>0, <2>2, <3>3, <3>4, <3>5 DEF ClientTypes
  <2> QED BY <1>5, <2>3, <2>4
<1>6. CASE SendClse
  BY <1>0, <1>6 DEF SendClse, ClientTypes, Steps, request
<1>7. CASE ReadClse
  <2>1. left' \in 0 .. MaxFiles
    BY <1>0, <1>7, FileSyncAssumption DEF ReadClse, ClientTypes
  <2> QED BY <1>0, <1>7, <2>1, HeadAnswer DEF ReadClse, ClientTypes, Steps
<1>8. CASE DropPacket
  BY <1>0, <1>8, HeadAnswer DEF DropPacket, ClientTypes, client
<1>9. CASE Timeout
  BY <1>0, <1>9 DEF Timeout, ClientTypes, Steps, Outcomes, request
<1>10. CASE Mkdir
  <2>1. left' \in 0 .. MaxFiles
    BY <1>0, <1>10, FileSyncAssumption DEF Mkdir, Fails, ClientTypes
  <2> QED BY <1>0, <1>10, <2>1 DEF Mkdir, Fails, ClientTypes, Steps, Outcomes, OtherErrors
<1>11. CASE OpenFile
  <2>1. CASE Fails("FileNotFoundError", "end")
    BY <1>0, <2>1 DEF Fails, ClientTypes, Steps, Outcomes, OtherErrors
  <2>2. CASE Opens
    <3>1. dev' \in DevType /\ to_host' \in Queue /\ recv_buffer' \in Seq(Word)
      BY <2>2, EmptyWords DEF Opens, DevReady, DevType, Queue
    <3> QED BY <1>0, <2>2, <3>1 DEF Opens, ClientTypes, Steps, Outcomes
  <2> QED BY <1>11, <2>1, <2>2, OpenCases
<1>12. CASE FileSize \/ StatBefore
  BY <1>0, <1>12 DEF FileSize, StatBefore, Fails, ClientTypes, Steps, Outcomes, OtherErrors
<1> QED BY <1>1, <1>2, <1>3, <1>4, <1>5, <1>6, <1>7, <1>8, <1>9, <1>10, <1>11, <1>12 DEF Client

LEMMA OkayPacket ==
  /\ Msg("OKAY", <<>>) \in Packet /\ Msg("OKAY", <<>>).cmd = "OKAY"
  /\ Msg("CLSE", <<>>) \in Packet /\ Msg("CLSE", <<>>).cmd = "CLSE"
BY EmptyWords, MsgPacket

LEMMA DeviceTyped ==
  ASSUME Typed, Device \/ DevFail
  PROVE  UNCHANGED client /\ to_host' \in Queue /\ dev' \in DevType
<1>0. to_host \in Queue
  BY TypedParts
<1>1. CASE DevReceive
  BY <1>0, <1>1, ReceiveEffect, OkayPacket, AppendHas DEF DevIs
<1>2. CASE DevParse
  BY <1>0, <1>2, ParseEffect DEF DevIs, Refused
<1>3. CASE DevAnswer
  BY <1>0, <1>3, AnswerEffect DEF DevIs
<1>4. CASE DevFail
  BY <1>0, <1>4, FailEffect DEF DevIs
<1>5. CASE DevSend
  <2>1. PICK k \in 1 .. Len(dev.out) :
          /\ SubSeq(dev.out, 1, k) \in Seq(Word)
          /\ to_host' = Append(to_host, Msg("WRTE", SubSeq(dev.out, 1, k)))
          /\ dev' \in DevType
    BY <1>5, SendEffect, Zenon DEF DevIs
  <2>2. Msg("WRTE", SubSeq(dev.out, 1, k)) \in Packet
    BY <2>1, MsgPacket
  <2>3. UNCHANGED client
    BY <1>5 DEF DevSend
  <2> QED BY <1>0, <2>1, <2>2, <2>3, AppendHas
<1> QED BY <1>1, <1>2, <1>3, <1>4, <1>5 DEF Device

LEMMA TypedNext == Typed /\ [Next]_vars => Typed'
<1> SUFFICES ASSUME Typed, [Next]_vars PROVE Typed'
  OBVIOUS
<1>1. IInv'
  BY NextOK DEF Typed
<1>2. ClientTypes /\ to_host \in Queue /\ dev \in DevType
  BY TypedParts
<1>3. ClientTypes' /\ to_host' \in Queue /\ dev' \in DevType
  <2>1. CASE UNCHANGED vars
    BY <1>2, <2>1 DEF vars, client, ClientTypes
  <2>2. CASE Client
    BY <2>2, ClientTyped
  <2>3. CASE Device \/ DevFail
    BY <1>2, <2>3, DeviceTyped DEF client, ClientTypes
  <2> QED BY <2>1, <2>2, <2>3 DEF Next, Ended
<1>4. (IInv => (TypeOK <=> ClientTypes /\ to_host \in Queue /\ dev \in DevType))'
  BY TypeParts, PTL
<1> QED BY <1>1, <1>3, <1>4 DEF Typed
-----------------------------------------------------------------------------
(* The packets on their way.                                               *)

QueuesOK == FlushesOK /\ CreditOK /\ ClosesOK

Cmds == {"OKAY", "WRTE", "CLSE"}

(* How a step can change the packets cmd of a queue.                       *)
Gains(q, r, cmd) == Has(r, cmd) /\ (Single(q, cmd) /\ ~Has(q, cmd) => Single(r, cmd))
Yields(q, r, cmd) ==
  Has(q, cmd) /\ (Single(q, cmd) => Single(r, cmd) /\ ~Has(r, cmd))
Keeps(q, r, cmd) == (Has(r, cmd) <=> Has(q, cmd)) /\ (Single(q, cmd) => Single(r, cmd))

Changes(q, r, cmd, c) == IF c = cmd THEN Gains(q, r, c) ELSE Keeps(q, r, c)

LEMMA AppendQueue ==
  ASSUME NEW q \in Queue, NEW m \in Packet
  PROVE  /\ Append(q, m) \in Queue
         /\ \A c \in Cmds : Changes(q, Append(q, m), m.cmd, c)
<1>1. ASSUME NEW c \in Cmds PROVE Changes(q, Append(q, m), m.cmd, c)
  BY AppendHas, Zenon DEF Changes, Gains, Keeps
<1> QED BY <1>1, AppendHas

LEMMA AppendMsg ==
  ASSUME NEW q \in Queue, NEW cmd \in Cmds, NEW data \in Seq(Word), NEW r,
         r = Append(q, Msg(cmd, data))
  PROVE  \A c \in Cmds : Changes(q, r, cmd, c)
<1>1. Msg(cmd, data) \in Packet /\ Msg(cmd, data).cmd = cmd
  BY MsgPacket DEF Cmds
<1> QED BY <1>1, AppendQueue, Zenon

LEMMA TailQueue ==
  ASSUME NEW q \in Queue, q # <<>>, NEW r, r = Tail(q)
  PROVE  \A c \in Cmds : IF Head(q).cmd = c THEN Yields(q, r, c) ELSE Keeps(q, r, c)
<1>1. ASSUME NEW c \in Cmds
      PROVE  IF Head(q).cmd = c THEN Yields(q, r, c) ELSE Keeps(q, r, c)
  BY TailHas, Zenon DEF Yields, Keeps
<1> QED BY <1>1

LEMMA EmptyQueues ==
  ASSUME to_dev' = <<>>, to_host' = <<>>
  PROVE  QueuesOK'
<1>1. /\ ~Has(to_dev', "WRTE") /\ ~Has(to_dev', "OKAY") /\ ~Has(to_dev', "CLSE")
      /\ ~Has(to_host', "WRTE") /\ ~Has(to_host', "OKAY") /\ ~Has(to_host', "CLSE")
      /\ Single(to_dev', "WRTE") /\ Single(to_dev', "OKAY")
      /\ Single(to_host', "WRTE") /\ Single(to_host', "OKAY")
  BY EmptyQueue, Zenon
<1> QED BY <1>1, Zenon DEF QueuesOK, FlushesOK, CreditOK, ClosesOK

LEMMA InitQueues == Init => QueuesOK
<1> SUFFICES ASSUME Init PROVE QueuesOK
  OBVIOUS
<1>1. /\ ~Has(to_dev, "WRTE") /\ ~Has(to_dev, "OKAY") /\ ~Has(to_dev, "CLSE")
      /\ ~Has(to_host, "WRTE") /\ ~Has(to_host, "OKAY") /\ ~Has(to_host, "CLSE")
      /\ Single(to_dev, "WRTE") /\ Single(to_dev, "OKAY")
      /\ Single(to_host, "WRTE") /\ Single(to_host, "OKAY")
  BY EmptyQueue, Zenon DEF Init
<1> QED BY <1>1, Zenon DEF QueuesOK, FlushesOK, CreditOK, ClosesOK

LEMMA QueuesKept ==
  ASSUME QueuesOK, UNCHANGED <<to_dev, to_host, dev>>,
         \/ pc \notin {"await", "awaitlast", "closing", "open", "end"}
         \/ pc = "open" /\ pc' = "end"
         \/ pc' = pc
  PROVE  QueuesOK'
BY DEF QueuesOK, FlushesOK, CreditOK, ClosesOK

LEMMA ClientQueues ==
  ASSUME Typed, QueuesOK, Client
  PROVE  QueuesOK'
<1>0. to_dev \in Queue /\ to_host \in Queue /\ send_buffer \in Seq(Word) /\ <<>> \in Seq(Word)
  BY TypedParts, EmptyWords
<1>1. ASSUME NEW next \in {"await", "awaitlast"}, Flush(next), pc \in {"add", "read"}
      PROVE  QueuesOK'
  <2>1. \A c \in Cmds : Changes(to_dev, to_dev', "WRTE", c)
    BY <1>0, <1>1, AppendMsg DEF Flush, Cmds
  <2>2. Gains(to_dev, to_dev', "WRTE") /\ Keeps(to_dev, to_dev', "OKAY") /\ Keeps(to_dev, to_dev', "CLSE")
    BY <2>1 DEF Changes, Cmds
  <2>3. to_host' = to_host /\ dev' = dev /\ pc' \in {"await", "awaitlast"}
    BY <1>1 DEF Flush
  <2> QED BY <1>1, <2>2, <2>3 DEF QueuesOK, FlushesOK, CreditOK, ClosesOK, Gains, Keeps
<1>2. CASE FilesyncSend \/ AddAfterFlush
  <2>1. CASE AddFrame /\ pc \in {"add", "flushed"}
    BY <2>1, QueuesKept DEF AddFrame
  <2> QED BY <1>1, <1>2, <2>1 DEF FilesyncSend, AddAfterFlush
<1>3. CASE FlushDone
  <2>1. /\ to_host # <<>> /\ Head(to_host).cmd = "OKAY" /\ to_host' = Tail(to_host)
        /\ to_dev' = to_dev /\ dev' = dev /\ pc \in {"await", "awaitlast"}
    BY <1>3 DEF FlushDone, Flushed
  <2>2. \A c \in Cmds : IF Head(to_host).cmd = c THEN Yields(to_host, to_host', c)
                                                 ELSE Keeps(to_host, to_host', c)
    BY <1>0, <2>1, TailQueue
  <2>3. Yields(to_host, to_host', "OKAY") /\ Keeps(to_host, to_host', "WRTE")
        /\ Keeps(to_host, to_host', "CLSE")
    BY <2>1, <2>2 DEF Cmds
  <2> QED BY <2>1, <2>3 DEF QueuesOK, FlushesOK, CreditOK, ClosesOK, Yields, Keeps
<1>4. CASE BeginRead
  BY <1>4, QueuesKept DEF BeginRead
<1>5. CASE FilesyncRead
  <2>1. CASE Flush("awaitlast")
    BY <1>1, <1>5, <2>1 DEF FilesyncRead
  <2>2. CASE ~Flush("awaitlast")
    BY <1>5, <2>2, QueuesKept DEF FilesyncRead
  <2> QED BY <2>1, <2>2
<1>6. CASE FillBuffer
  <2>1. /\ to_host # <<>> /\ Head(to_host).cmd = "WRTE" /\ to_host' = Tail(to_host)
        /\ to_dev' = Append(to_dev, Msg("OKAY", <<>>)) /\ dev' = dev /\ pc' = pc
        /\ pc \in {"header", "data"}
    BY <1>6 DEF FillBuffer
  <2>2. \A c \in Cmds : IF Head(to_host).cmd = c THEN Yields(to_host, to_host', c)
                                                 ELSE Keeps(to_host, to_host', c)
    BY <1>0, <2>1, TailQueue
  <2>3. Yields(to_host, to_host', "WRTE") /\ Keeps(to_host, to_host', "OKAY")
        /\ Keeps(to_host, to_host', "CLSE")
    BY <2>1, <2>2 DEF Cmds
  <2>4. \A c \in Cmds : Changes(to_dev, to_dev', "OKAY", c)
    BY <1>0, <2>1, AppendMsg DEF Cmds
  <2>5. Gains(to_dev, to_dev', "OKAY") /\ Keeps(to_dev, to_dev', "WRTE") /\ Keeps(to_dev, to_dev', "CLSE")
    BY <2>4 DEF Changes, Cmds
  <2> QED BY <2>1, <2>3, <2>5 DEF QueuesOK, FlushesOK, CreditOK, ClosesOK, Yields, Gains, Keeps
<1>7. CASE ReadHeader \/ ReadData
  BY <1>7, QueuesKept DEF ReadHeader, ReadData
<1>8. CASE SendClse
  <2>1. to_dev' = Append(to_dev, Msg("CLSE", <<>>)) /\ to_host' = to_host /\ dev' = dev
        /\ pc = "clse" /\ pc' = "closing"
    BY <1>8 DEF SendClse
  <2>2. \A c \in Cmds : Changes(to_dev, to_dev', "CLSE", c)
    BY <1>0, <2>1, AppendMsg DEF Cmds
  <2>3. Gains(to_dev, to_dev', "CLSE") /\ Keeps(to_dev, to_dev', "WRTE") /\ Keeps(to_dev, to_dev', "OKAY")
    BY <2>2 DEF Changes, Cmds
  <2> QED BY <2>1, <2>3 DEF QueuesOK, FlushesOK, CreditOK, ClosesOK, Gains, Keeps
<1>9. CASE ReadClse \/ DropPacket
  <2>1. /\ to_host # <<>> /\ to_host' = Tail(to_host) /\ to_dev' = to_dev /\ dev' = dev
        /\ pc' = pc \/ (pc = "closing" /\ pc' \in {"open", "end"})
    BY <1>9 DEF ReadClse, DropPacket, client
  <2>2. \A c \in Cmds : IF Head(to_host).cmd = c THEN Yields(to_host, to_host', c)
                                                 ELSE Keeps(to_host, to_host', c)
    BY <1>0, <2>1, TailQueue
  <2>3. ASSUME NEW c \in Cmds
        PROVE  (Has(to_host', c) => Has(to_host, c)) /\ (Single(to_host, c) => Single(to_host', c))
    BY <2>2, <2>3 DEF Yields, Keeps
  <2>4. /\ (Has(to_host', "OKAY") => Has(to_host, "OKAY"))
        /\ (Has(to_host', "WRTE") => Has(to_host, "WRTE"))
        /\ (Has(to_host', "CLSE") => Has(to_host, "CLSE"))
        /\ (Single(to_host, "OKAY") => Single(to_host', "OKAY"))
        /\ (Single(to_host, "WRTE") => Single(to_host', "WRTE"))
    BY <2>3 DEF Cmds
  <2> QED BY <2>1, <2>4 DEF QueuesOK, FlushesOK, CreditOK, ClosesOK
<1>10. CASE Timeout
  <2>1. to_dev' = <<>> /\ to_host' = <<>>
    BY <1>10 DEF Timeout
  <2> QED BY <2>1, EmptyQueues
<1>11. CASE Mkdir \/ FileSize \/ StatBefore
  BY <1>11, QueuesKept DEF Mkdir, FileSize, StatBefore, Fails
<1>12. CASE OpenFile
  <2>1. CASE Opens
    BY <2>1, EmptyQueues DEF Opens
  <2>2. CASE pc = "open" /\ Fails("FileNotFoundError", "end")
    BY <2>2, QueuesKept DEF Fails
  <2> QED BY <1>12, <2>1, <2>2, OpenCases
<1> QED BY <1>2, <1>3, <1>4, <1>5, <1>6, <1>7, <1>8, <1>9, <1>10, <1>11, <1>12 DEF Client

LEMMA DeviceQueues ==
  ASSUME Typed, QueuesOK, Device \/ DevFail
  PROVE  QueuesOK'
<1>0. to_dev \in Queue /\ to_host \in Queue /\ <<>> \in Seq(Word)
  BY TypedParts, EmptyWords
<1>1. CASE DevReceive
  <2> DEFINE m == Head(to_dev)
  <2>1. to_dev # <<>> /\ to_dev' = Tail(to_dev) /\ pc' = pc
    BY <1>1, ReceiveEffect DEF client
  <2>2. \A c \in Cmds : IF m.cmd = c THEN Yields(to_dev, to_dev', c) ELSE Keeps(to_dev, to_dev', c)
    BY <1>0, <2>1, TailQueue
  <2> HIDE DEF m
  <2>3. CASE m.cmd = "WRTE"
    <3>1. to_host' = Append(to_host, Msg("OKAY", <<>>)) /\ dev'.ready = dev.ready
      BY <1>1, <2>3, ReceiveEffect DEF DevIs, m
    <3>2. \A c \in Cmds : Changes(to_host, to_host', "OKAY", c)
      BY <1>0, <3>1, AppendMsg DEF Cmds
    <3>3. Gains(to_host, to_host', "OKAY") /\ Keeps(to_host, to_host', "WRTE")
          /\ Keeps(to_host, to_host', "CLSE")
      BY <3>2 DEF Changes, Cmds
    <3>4. Yields(to_dev, to_dev', "WRTE") /\ Keeps(to_dev, to_dev', "OKAY")
          /\ Keeps(to_dev, to_dev', "CLSE")
      BY <2>2, <2>3 DEF Cmds
    <3> QED BY <2>1, <3>1, <3>3, <3>4
            DEF QueuesOK, FlushesOK, CreditOK, ClosesOK, Yields, Gains, Keeps
  <2>4. CASE m.cmd = "OKAY"
    <3>1. to_host' = to_host /\ dev'.ready = TRUE
      BY <1>1, <2>4, ReceiveEffect DEF DevIs, m
    <3>4. Yields(to_dev, to_dev', "OKAY") /\ Keeps(to_dev, to_dev', "WRTE")
          /\ Keeps(to_dev, to_dev', "CLSE")
      BY <2>2, <2>4 DEF Cmds
    <3> QED BY <2>1, <3>1, <3>4 DEF QueuesOK, FlushesOK, CreditOK, ClosesOK, Yields, Keeps
  <2>5. CASE m.cmd = "CLSE"
    <3>1. to_host' = Append(to_host, Msg("CLSE", <<>>)) /\ dev'.ready = dev.ready
      BY <1>1, <2>5, ReceiveEffect DEF DevIs, m
    <3>2. \A c \in Cmds : Changes(to_host, to_host', "CLSE", c)
      BY <1>0, <3>1, AppendMsg DEF Cmds
    <3>3. Gains(to_host, to_host', "CLSE") /\ Keeps(to_host, to_host', "WRTE")
          /\ Keeps(to_host, to_host', "OKAY")
      BY <3>2 DEF Changes, Cmds
    <3>4. Yields(to_dev, to_dev', "CLSE") /\ Keeps(to_dev, to_dev', "WRTE")
          /\ Keeps(to_dev, to_dev', "OKAY")
      BY <2>2, <2>5 DEF Cmds
    <3> QED BY <2>1, <3>1, <3>3, <3>4
            DEF QueuesOK, FlushesOK, CreditOK, ClosesOK, Yields, Gains, Keeps
  <2> QED BY <1>1, <2>3, <2>4, <2>5, ReceiveEffect, Zenon DEF m
<1>2. ASSUME UNCHANGED <<client, to_dev, to_host>>, dev'.ready = dev.ready PROVE QueuesOK'
  BY <1>2 DEF client, QueuesOK, FlushesOK, CreditOK, ClosesOK
<1>3. CASE DevParse
  BY <1>2, <1>3, ParseEffect DEF DevIs, Refused
<1>4. CASE DevAnswer
  BY <1>2, <1>4, AnswerEffect DEF DevIs
<1>5. CASE DevFail
  BY <1>2, <1>5, FailEffect DEF DevIs
<1>6. CASE DevSend
  <2>1. dev.ready /\ UNCHANGED <<client, to_dev>>
    BY <1>6, SendEffect
  <2>2. PICK k \in 1 .. Len(dev.out) :
          /\ SubSeq(dev.out, 1, k) \in Seq(Word)
          /\ to_host' = Append(to_host, Msg("WRTE", SubSeq(dev.out, 1, k)))
          /\ dev'.ready = FALSE
    BY <1>6, SendEffect, Zenon DEF DevIs
  <2>3. \A c \in Cmds : Changes(to_host, to_host', "WRTE", c)
    BY <1>0, <2>2, AppendMsg DEF Cmds
  <2>4. Gains(to_host, to_host', "WRTE") /\ Keeps(to_host, to_host', "OKAY")
        /\ Keeps(to_host, to_host', "CLSE")
    BY <2>3 DEF Changes, Cmds
  <2>5. pc' = pc /\ to_dev' = to_dev
    BY <2>1 DEF client
  <2> QED BY <2>1, <2>2, <2>4, <2>5 DEF QueuesOK, FlushesOK, CreditOK, ClosesOK, Gains, Keeps
<1> QED BY <1>1, <1>3, <1>4, <1>5, <1>6 DEF Device

LEMMA QueuesNext == Typed /\ QueuesOK /\ [Next]_vars => QueuesOK'
<1> SUFFICES ASSUME Typed, QueuesOK, [Next]_vars PROVE QueuesOK'
  OBVIOUS
<1>1. CASE UNCHANGED vars
  BY <1>1, QueuesKept DEF vars, client
<1> QED BY <1>1, ClientQueues, DeviceQueues DEF Next, Ended

-----------------------------------------------------------------------------
(* The steps of a command.                                                 *)

LEMMA InitSteps == Init => StepsOK
<1> SUFFICES ASSUME Init PROVE StepsOK
  OBVIOUS
<1>1. pc \in FirstSteps(command) /\ local_path_is_dir = (pc = "mkdir")
      /\ send_buffer = <<>> /\ outcome = "none"
  BY Zenon DEF Init
<1>2. local_path_is_dir \/ left = 0
  <2>1. left \in IF local_path_is_dir THEN 0 .. MaxFiles ELSE {0}
    BY Zenon DEF Init
  <2> QED BY <2>1
<1>3. command \in {"push", "pull", "list", "stat"}
  BY FileSyncAssumption DEF Init
<1>4. (pc \in {"mkdir", "open"} => command = "push") /\ (pc = "stat" => command # "push")
  BY <1>1, <1>3 DEF FirstSteps
<1>5. left > 0 => pc = "mkdir"
  <2>1. CASE left = 0
    BY <2>1
  <2>2. CASE left # 0
    BY <1>1, <1>2, <2>2, Zenon
  <2> QED BY <2>1, <2>2
<1> QED BY <1>1, <1>4, <1>5 DEF StepsOK

LEMMA StepsNext == Typed /\ StepsOK /\ [Next]_vars => StepsOK'
<1> SUFFICES ASSUME Typed, StepsOK, [Next]_vars PROVE StepsOK'
  OBVIOUS
<1>0. left \in Nat /\ pc \in Steps
  BY TypedParts, FileSyncAssumption DEF ClientTypes
<1>1. CASE UNCHANGED vars
  BY <1>1 DEF vars, client, StepsOK
<1>2. CASE Device \/ DevFail
  <2>1. UNCHANGED client
    BY <1>2, DeviceTyped
  <2> QED BY <2>1 DEF client, StepsOK
<1>3. CASE FilesyncSend \/ AddAfterFlush
  BY <1>3 DEF FilesyncSend, AddAfterFlush, AddFrame, Flush, StepsOK, request
<1>4. CASE FlushDone
  BY <1>4 DEF FlushDone, Flushed, StepsOK, request
<1>5. CASE BeginRead \/ FilesyncRead
  BY <1>5 DEF BeginRead, FilesyncRead, Flush, StepsOK, request
<1>6. CASE FillBuffer \/ ReadHeader
  BY <1>6 DEF FillBuffer, ReadHeader, StepsOK, request
<1>7. CASE ReadData
  BY <1>7 DEF ReadData, HandleFrame, Handle, Error, StepsOK, request
<1>8. CASE SendClse \/ DropPacket \/ Timeout
  BY <1>8 DEF SendClse, DropPacket, Timeout, Waiting, StepsOK, request, client
<1>9. CASE ReadClse
  BY <1>0, <1>9 DEF ReadClse, StepsOK
<1>10. CASE Mkdir
  BY <1>0, <1>10 DEF Mkdir, Fails, StepsOK
<1>11. CASE FileSize \/ StatBefore
  BY <1>11 DEF FileSize, StatBefore, Fails, StepsOK
<1>12. CASE OpenFile
  <2>1. CASE Opens
    BY <2>1 DEF Opens, StepsOK
  <2>2. CASE pc = "open" /\ Fails("FileNotFoundError", "end")
    BY <2>2 DEF Fails, StepsOK
  <2> QED BY <1>12, <2>1, <2>2, OpenCases
<1> QED BY <1>1, <1>2, <1>3, <1>4, <1>5, <1>6, <1>7, <1>8, <1>9, <1>10, <1>11, <1>12
        DEF Next, Client, Ended
-----------------------------------------------------------------------------
(* The requests yet to be added.                                           *)

Pending(todos, all) ==
  /\ Len(all) - Len(todos) \in Nat
  /\ \A j \in 1 .. Len(todos) : todos[j] = all[Len(all) - Len(todos) + j]

LEMMA TodoIsPending == TodoOK <=> Pending(todo, AllRequests)
BY Zenon DEF TodoOK, Pending, Added

LEMMA AllPending ==
  ASSUME NEW all \in Seq(Fitting)
  PROVE  Pending(all, all)
<1>1. Len(all) \in Nat
  BY LenProperties
<1>2. Len(all) - Len(all) = 0
  BY <1>1
<1>3. ASSUME NEW j \in 1 .. Len(all) PROVE Len(all) - Len(all) + j = j
  BY <1>1
<1> QED BY <1>2, <1>3 DEF Pending

LEMMA NextPending ==
  ASSUME NEW all \in Seq(Fitting), NEW todos \in Seq(Fitting), todos # <<>>, Pending(todos, all)
  PROVE  LET a == Len(all) - Len(todos)
         IN  /\ a \in Nat /\ a + 1 \in 1 .. Len(all) /\ Head(todos) = all[a + 1]
             /\ Pending(Tail(todos), all) /\ Len(all) - Len(Tail(todos)) = a + 1
<1> DEFINE a == Len(all) - Len(todos)
           rest == Tail(todos)
<1>1. Len(all) \in Nat /\ Len(todos) \in Nat /\ Len(rest) = Len(todos) - 1 /\ Len(todos) >= 1
      /\ Head(todos) = todos[1] /\ Len(rest) \in Nat
  BY HeadTailProperties, LenProperties
<1>2. a \in Nat
  BY DEF Pending
<1>3. ASSUME NEW j \in 1 .. Len(rest) PROVE rest[j] = todos[j + 1]
  BY <1>1, HeadTailProperties
<1>4. ASSUME NEW j \in 1 .. Len(todos) PROVE todos[j] = all[a + j]
  BY Zenon DEF Pending
<1> HIDE DEF rest
<1>5. Len(all) - Len(rest) = a + 1 /\ a + 1 \in 1 .. Len(all)
  BY <1>1, <1>2
<1>6. Head(todos) = all[a + 1]
  <2>1. 1 \in 1 .. Len(todos)
    BY <1>1
  <2> QED BY <1>1, <1>4, <2>1
<1>7. ASSUME NEW j \in 1 .. Len(rest) PROVE rest[j] = all[Len(all) - Len(rest) + j]
  <2>1. j + 1 \in 1 .. Len(todos) /\ a + (j + 1) = Len(all) - Len(rest) + j
    BY <1>1, <1>2, <1>5
  <2> QED BY <1>3, <1>4, <2>1
<1>8. Pending(rest, all)
  <2>1. Len(all) - Len(rest) \in Nat
    BY <1>2, <1>5
  <2> QED BY <1>7, <2>1, Zenon DEF Pending
<1> QED BY <1>2, <1>5, <1>6, <1>8 DEF rest

LEMMA AllFit ==
  ASSUME Typed
  PROVE  AllRequests \in Seq(Fitting) /\ todo \in Seq(Fitting)
BY TypedParts, RequestsFit DEF Typed, IInv, ClientTypes, AllRequests

(* A frame is added.                                                       *)
Adds == AddFrame /\ todo # <<>> /\ pc \in {"add", "flushed"}

LEMMA TodoSteps ==
  ASSUME Typed, [Next]_vars
  PROVE  Adds \/ Opens \/ UNCHANGED <<todo, command, file>>
<1>1. CASE UNCHANGED vars \/ Device \/ DevFail
  BY <1>1, DeviceTyped DEF vars, client
<1>2. CASE FilesyncSend \/ AddAfterFlush
  BY <1>2 DEF FilesyncSend, AddAfterFlush, Adds, Flush, request, Typed, IInv
<1>3. CASE OpenFile
  BY <1>3, OpenCases DEF Fails
<1>4. CASE Client /\ ~FilesyncSend /\ ~AddAfterFlush /\ ~OpenFile
  BY <1>4 DEF Client, Mkdir, FileSize, StatBefore, Fails, FlushDone, Flushed, BeginRead, FilesyncRead,
              Flush, FillBuffer, ReadHeader, ReadData, SendClse, ReadClse, DropPacket, Timeout,
              request, client
<1> QED BY <1>1, <1>2, <1>3, <1>4 DEF Next, Ended

LEMMA InitTodo == Init => TodoOK
<1> SUFFICES ASSUME Init PROVE TodoOK
  OBVIOUS
<1>1. AllRequests \in Seq(Fitting) /\ todo = AllRequests
  BY InitTyped, AllFit DEF Init, AllRequests
<1> QED BY <1>1, AllPending, TodoIsPending

LEMMA TodoNext == Typed /\ TodoOK /\ [Next]_vars => TodoOK'
<1> SUFFICES ASSUME Typed, TodoOK, [Next]_vars PROVE TodoOK'
  OBVIOUS
<1>1. Typed' /\ (TodoOK <=> Pending(todo, AllRequests))'
  BY TypedNext, TodoIsPending, PTL
<1>2. AllRequests \in Seq(Fitting) /\ todo \in Seq(Fitting) /\ Pending(todo, AllRequests)
  BY AllFit, TodoIsPending
<1>3. CASE Adds
  <2>1. todo # <<>> /\ todo' = Tail(todo) /\ AllRequests' = AllRequests
    BY <1>3 DEF Adds, AddFrame, request, AllRequests
  <2>2. Pending(Tail(todo), AllRequests)
    BY <1>2, <2>1, NextPending
  <2> QED BY <1>1, <2>1, <2>2
<1>4. CASE Opens
  <2>1. todo' = AllRequests'
    BY <1>4 DEF Opens, AllRequests
  <2>2. todo' \in Seq(Fitting)
    BY <1>1 DEF Typed, IInv
  <2> QED BY <1>1, <2>1, <2>2, AllPending
<1>5. CASE UNCHANGED <<todo, command, file>>
  BY <1>5 DEF TodoOK, Added, AllRequests
<1> QED BY <1>3, <1>4, <1>5, TodoSteps

(* What the steps below rely on.                                           *)
Sound == Typed /\ QueuesOK /\ StepsOK /\ TodoOK

LEMMA InitSound == Init => Sound
BY InitTyped, InitQueues, InitSteps, InitTodo DEF Sound

LEMMA SoundNext == Sound /\ [Next]_vars => Sound'
BY TypedNext, QueuesNext, StepsNext, TodoNext DEF Sound

-----------------------------------------------------------------------------
(* Words in three places.                                                  *)

Two(a, b) == a \o b
Three(a, b, c) == a \o (b \o c)

LEMMA ThreeWords ==
  ASSUME NEW a \in Seq(Word), NEW b \in Seq(Word), NEW c \in Seq(Word)
  PROVE  Three(a, b, c) \in Seq(Word) /\ Len(Three(a, b, c)) = Len(a) + Len(b) + Len(c)
<1>1. b \o c \in Seq(Word) /\ Len(b \o c) = Len(b) + Len(c) /\ Len(b) \in Nat /\ Len(c) \in Nat
  BY Joined
<1> DEFINE d == b \o c
<1> HIDE DEF d
<1>2. a \o d \in Seq(Word) /\ Len(a \o d) = Len(a) + Len(d) /\ Len(a) \in Nat
  BY <1>1, Joined DEF d
<1>3. Len(d) = Len(b) + Len(c)
  BY <1>1 DEF d
<1>4. Len(a \o d) = Len(a) + Len(b) + Len(c)
  BY <1>1, <1>2, <1>3
<1> QED BY <1>2, <1>4 DEF Three, d

LEMMA ThreeLast ==
  ASSUME NEW a \in Seq(Word), NEW b \in Seq(Word), NEW c \in Seq(Word), NEW d \in Seq(Word)
  PROVE  Two(Three(a, b, c), d) = Three(a, b, Two(c, d))
<1> DEFINE e == b \o c
<1>1. e \in Seq(Word)
  BY Joined
<1>2. e \o d = b \o (c \o d)
  BY ConcatAssociative
<1> HIDE DEF e
<1>3. (a \o e) \o d = a \o (e \o d)
  BY <1>1, ConcatAssociative, SMTT(30)
<1> QED BY <1>2, <1>3, Zenon DEF Two, Three, e

LEMMA ThreeFirst ==
  ASSUME NEW a \in Seq(Word), NEW b \in Seq(Word), NEW c \in Seq(Word)
  PROVE  Three(a \o b, <<>>, c) = Three(a, b, c)
<1>1. <<>> \o c = c
  BY ConcatEmptySeq
<1>2. (a \o b) \o c = a \o (b \o c)
  BY ConcatAssociative
<1> QED BY <1>1, <1>2, Zenon DEF Three

LEMMA ThreeMoved ==
  ASSUME NEW a, NEW c \in Seq(Word)
  PROVE  Three(a, c, <<>>) = Three(a, <<>>, c)
<1>1. <<>> \o c = c /\ c \o <<>> = c
  BY ConcatEmptySeq
<1> QED BY <1>1, Zenon DEF Three

LEMMA ThreeSplit ==
  ASSUME NEW a, NEW c \in Seq(Word), NEW k \in Nat, k <= Len(c)
  PROVE  Three(a, SubSeq(c, 1, k), Dropped(c, k)) = Three(a, <<>>, c)
<1>1. <<>> \o c = c
  BY ConcatEmptySeq
<1>2. SubSeq(c, 1, k) \o Dropped(c, k) = c
  BY FirstWords
<1> QED BY <1>1, <1>2, Zenon DEF Three

LEMMA DropJoined ==
  ASSUME NEW a \in Seq(Word), NEW b \in Seq(Word), NEW n \in Nat, n <= Len(a)
  PROVE  Dropped(a, n) \o b = Dropped(a \o b, n)
<1> DEFINE d == Dropped(a, n)
           L == a \o b
           e == Dropped(L, n)
<1>1. Len(a) \in Nat /\ Len(b) \in Nat /\ L \in Seq(Word) /\ Len(L) = Len(a) + Len(b)
  BY Joined
<1>2. d \in Seq(Word) /\ Len(d) = Len(a) - n
  BY DroppedShape
<1>3. ASSUME NEW k \in Nat, k >= 1, n + k <= Len(a) PROVE d[k] = a[n + k]
  BY <1>3, DroppedWord
<1>4. ASSUME NEW k \in 1 .. Len(a) PROVE L[k] = a[k]
  BY JoinedLeft
<1>5. ASSUME NEW k \in 1 .. Len(b) PROVE L[Len(a) + k] = b[k]
  BY JoinedRight
<1> HIDE DEF d, L
<1>6. n <= Len(L)
  BY <1>1
<1>7. e \in Seq(Word) /\ Len(e) = Len(L) - n
  BY <1>1, <1>6, DroppedShape
<1>8. ASSUME NEW k \in Nat, k >= 1, n + k <= Len(L) PROVE e[k] = L[n + k]
  BY <1>1, <1>6, <1>8, DroppedWord
<1> HIDE DEF e
<1>9. d \o b \in Seq(Word) /\ Len(d \o b) = Len(d) + Len(b)
  BY <1>2, Joined
<1>10. Len(d \o b) = Len(e)
  BY <1>1, <1>2, <1>7, <1>9
<1>11. ASSUME NEW k \in 1 .. Len(d \o b) PROVE (d \o b)[k] = e[k]
  <2>0. k \in Nat /\ k >= 1 /\ n + k <= Len(L) /\ Len(d) \in Nat
    BY <1>1, <1>2, <1>9
  <2>1. e[k] = L[n + k]
    BY <1>8, <2>0
  <2>2. CASE k <= Len(d)
    <3>1. k \in 1 .. Len(d) /\ n + k <= Len(a) /\ n + k \in 1 .. Len(a)
      BY <1>1, <1>2, <2>0, <2>2
    <3>2. (d \o b)[k] = d[k]
      BY <1>2, <3>1, JoinedLeft
    <3>3. d[k] = a[n + k]
      BY <1>3, <2>0, <3>1
    <3>4. L[n + k] = a[n + k]
      BY <1>4, <3>1
    <3> QED BY <2>1, <3>2, <3>3, <3>4
  <2>3. CASE k > Len(d)
    <3> DEFINE j == k - Len(d)
    <3>1. j \in 1 .. Len(b) /\ Len(d) + j = k /\ Len(a) + j = n + k
      BY <1>1, <1>2, <1>9, <2>0, <2>3
    <3> HIDE DEF j
    <3>2. (d \o b)[Len(d) + j] = b[j]
      BY <1>2, <3>1, JoinedRight
    <3>3. L[Len(a) + j] = b[j]
      BY <1>5, <3>1
    <3> QED BY <2>1, <3>1, <3>2, <3>3
  <2>4. k <= Len(d) \/ k > Len(d)
    BY <2>0
  <2> QED BY <2>2, <2>3, <2>4
<1>12. d \o b = e
  BY <1>7, <1>9, <1>10, <1>11, SeqEqual
<1> QED BY <1>12 DEF d, e, L
-----------------------------------------------------------------------------
(* What a step does to the words on their way to the device.               *)

LEMMA SoundParts ==
  ASSUME Sound
  PROVE  /\ to_dev \in Queue /\ to_host \in Queue /\ dev \in DevType
         /\ Single(to_dev, "WRTE") /\ Single(to_host, "WRTE")
         /\ recv_buffer \in Seq(Word) /\ send_buffer \in Seq(Word) /\ file \in Seq(Word)
         /\ Load(to_dev) \in Seq(Word) /\ Load(to_host) \in Seq(Word) /\ Buffered \in Seq(Word)
         /\ dev.in \in Seq(Word) /\ dev.out \in Seq(Word) /\ dev.file \in Seq(Word)
         /\ got \in Seq(Word) /\ dev.at \in Nat
         /\ Up = Three(dev.in, Load(to_dev), Buffered) /\ Up \in Seq(Word)
         /\ Down = Three(recv_buffer, Load(to_host), dev.out) /\ Down \in Seq(Word)
         /\ pc # "end" => outcome # "UnsupportedOperation"
         /\ AnswerHeader \in Nat /\ AnswerHeader >= 2
<1>1. /\ to_dev \in Queue /\ to_host \in Queue /\ dev \in DevType
      /\ dev.in \in Seq(Word) /\ dev.out \in Seq(Word) /\ dev.file \in Seq(Word)
      /\ recv_buffer \in Seq(Word) /\ send_buffer \in Seq(Word) /\ file \in Seq(Word)
      /\ got \in Seq(Word) /\ dev.at \in Nat
      /\ AnswerHeader \in Nat /\ AnswerHeader >= 2
  BY TypedParts DEF Sound, ClientTypes
<1>2. Load(to_dev) \in Seq(Word) /\ Load(to_host) \in Seq(Word) /\ Buffered \in Seq(Word)
  BY <1>1, LoadWords, EmptyWords DEF Buffered
<1>3. Up = Three(dev.in, Load(to_dev), Buffered) /\ Down = Three(recv_buffer, Load(to_host), dev.out)
  BY Zenon DEF Up, Down, Three
<1>4. Up \in Seq(Word) /\ Down \in Seq(Word)
  BY <1>1, <1>2, <1>3, ThreeWords
<1>5. Single(to_dev, "WRTE") /\ Single(to_host, "WRTE") /\ (pc # "end" => outcome # "UnsupportedOperation")
  BY DEF Sound, QueuesOK, FlushesOK, CreditOK, StepsOK
<1> QED BY <1>1, <1>2, <1>3, <1>4, <1>5

(* A flush moves the words of the send buffer to a packet.                 *)
LEMMA UpFlush ==
  ASSUME Sound, NEW next \in {"await", "awaitlast"}, Flush(next), pc \in {"add", "read"}
  PROVE  Up' = Up
<1>1. /\ to_dev' = Append(to_dev, Msg("WRTE", send_buffer)) /\ pc' = next
      /\ outcome' = outcome /\ dev' = dev
  BY DEF Flush
<1>2. ~Has(to_dev, "WRTE")
  BY DEF Sound, QueuesOK, FlushesOK
<1>3. Load(to_dev) = <<>>
  BY <1>2, NoLoad
<1>4. Load(to_dev') = send_buffer
  <2> DEFINE m == Msg("WRTE", send_buffer)
  <2>1. m \in Packet /\ m.cmd = "WRTE" /\ m.data = send_buffer
    BY SoundParts, MsgPacket
  <2> HIDE DEF m
  <2> QED BY <1>1, <1>2, <2>1, SoundParts, LoadAppend DEF m
<1>5. Buffered = send_buffer /\ Buffered' = <<>>
  BY <1>1, SoundParts DEF Buffered
<1>6. Up = Three(dev.in, <<>>, send_buffer) /\ Up' = Three(dev.in, send_buffer, <<>>)
  BY <1>1, <1>3, <1>4, <1>5, Zenon DEF Up, Three
<1> QED BY <1>6, SoundParts, ThreeMoved

LEMMA UpAdd ==
  ASSUME Sound, Adds
  PROVE  Up' = Up \o Head(todo)
<1>1. /\ send_buffer' = send_buffer \o Head(todo) /\ pc' = "add"
      /\ UNCHANGED <<to_dev, dev>> /\ pc \in {"add", "flushed"} /\ todo # <<>>
  BY DEF Adds, AddFrame
<1>2. Head(todo) \in Seq(Word)
  BY <1>1, AllFit DEF Sound, Fitting
<1>3. Buffered = send_buffer /\ Buffered' = send_buffer \o Head(todo)
  BY <1>1 DEF Buffered
<1>4. /\ Up' = Three(dev.in, Load(to_dev), Two(send_buffer, Head(todo)))
      /\ Up = Three(dev.in, Load(to_dev), send_buffer)
  BY <1>1, <1>3, Zenon DEF Up, Two, Three
<1>5. dev.in \in Seq(Word) /\ Load(to_dev) \in Seq(Word) /\ send_buffer \in Seq(Word)
  BY SoundParts
<1>6. Up' = Two(Up, Head(todo))
  BY <1>2, <1>4, <1>5, ThreeLast
<1> QED BY <1>6, Zenon DEF Two

LEMMA UpClient ==
  ASSUME Sound, Client
  PROVE  Adds \/ Opens \/ Up' = Up
<1>0. pc # "end" => outcome # "UnsupportedOperation"
  BY SoundParts
<1>1. ASSUME dev' = dev, Load(to_dev') = Load(to_dev), Buffered' = Buffered PROVE Up' = Up
  BY <1>1, Zenon DEF Up
<1>2. CASE FilesyncSend \/ AddAfterFlush
  BY <1>2, UpFlush DEF FilesyncSend, AddAfterFlush, Adds, Sound, Typed, IInv
<1>3. CASE FlushDone
  BY <1>0, <1>1, <1>3 DEF FlushDone, Flushed, Buffered
<1>4. CASE BeginRead
  BY <1>0, <1>1, <1>4 DEF BeginRead, Buffered
<1>5. CASE FilesyncRead
  <2>1. CASE Flush("awaitlast")
    BY <1>5, <2>1, UpFlush DEF FilesyncRead
  <2>2. CASE ~Flush("awaitlast")
    BY <1>0, <1>1, <1>5, <2>2 DEF FilesyncRead, Buffered
  <2> QED BY <2>1, <2>2
<1>6. CASE FillBuffer
  <2>1. to_dev' = Append(to_dev, Msg("OKAY", <<>>)) /\ dev' = dev
        /\ UNCHANGED <<pc, outcome, send_buffer>>
    BY <1>6 DEF FillBuffer
  <2>2. Load(to_dev') = Load(to_dev)
    BY <2>1, SoundParts, OkayPacket, LoadAppend
  <2> QED BY <1>1, <2>1, <2>2 DEF Buffered
<1>7. CASE ReadHeader
  BY <1>0, <1>1, <1>7 DEF ReadHeader, Buffered
<1>8. CASE ReadData
  <2>1. send_buffer = <<>> /\ pc = "data"
    BY <1>8 DEF ReadData, Sound, StepsOK
  <2>2. Buffered = <<>> /\ Buffered' = <<>>
    BY <1>0, <1>8, <2>1 DEF ReadData, Buffered
  <2> QED BY <1>1, <1>8, <2>2 DEF ReadData
<1>9. CASE SendClse
  <2>1. to_dev' = Append(to_dev, Msg("CLSE", <<>>)) /\ dev' = dev
        /\ UNCHANGED <<outcome, send_buffer>> /\ pc = "clse" /\ pc' = "closing"
    BY <1>9 DEF SendClse
  <2>2. Load(to_dev') = Load(to_dev)
    BY <2>1, SoundParts, OkayPacket, LoadAppend
  <2> QED BY <1>0, <1>1, <2>1, <2>2 DEF Buffered
<1>10. CASE ReadClse
  BY <1>0, <1>1, <1>10 DEF ReadClse, Buffered
<1>11. CASE DropPacket
  BY <1>1, <1>11 DEF DropPacket, client, Buffered
<1>12. CASE Timeout
  BY <1>0, <1>1, <1>12 DEF Timeout, Waiting, Buffered
<1>13. CASE Mkdir
  BY <1>0, <1>1, <1>13 DEF Mkdir, Fails, Buffered
<1>14. CASE OpenFile
  <2>1. CASE pc = "open" /\ Fails("FileNotFoundError", "end")
    BY <1>0, <1>1, <2>1 DEF Fails, Buffered
  <2> QED BY <1>14, <2>1, OpenCases
<1>15. CASE FileSize
  BY <1>0, <1>1, <1>15 DEF FileSize, Fails, Buffered
<1>16. CASE StatBefore
  <2>1. send_buffer = <<>> /\ pc = "stat"
    BY <1>16 DEF StatBefore, Sound, StepsOK
  <2>2. Buffered = <<>> /\ Buffered' = <<>>
    BY <1>0, <1>16, <2>1 DEF StatBefore, Fails, Buffered
  <2> QED BY <1>1, <1>16, <2>2 DEF StatBefore, Fails
<1> QED BY <1>2, <1>3, <1>4, <1>5, <1>6, <1>7, <1>8, <1>9, <1>10, <1>11, <1>12, <1>13, <1>14,
           <1>15, <1>16 DEF Client

LEMMA UpReceive ==
  ASSUME Sound, DevReceive
  PROVE  Up' = Up
<1>0. Typed
  BY DEF Sound
<1>1. /\ to_dev # <<>> /\ to_dev' = Tail(to_dev) /\ UNCHANGED client
  BY <1>0, ReceiveEffect
<1>2. Buffered' = Buffered
  BY <1>1 DEF client, Buffered
<1>3. CASE Head(to_dev).cmd = "WRTE"
  <2>1. dev'.in = dev.in \o Head(to_dev).data
    BY <1>0, <1>3, ReceiveEffect DEF DevIs
  <2>2. Load(to_dev) = Head(to_dev).data /\ Load(to_dev') = <<>>
    BY <1>1, <1>3, SoundParts, LoadTail
  <2>3. Up' = Three(dev.in \o Head(to_dev).data, <<>>, Buffered)
        /\ Up = Three(dev.in, Head(to_dev).data, Buffered)
    BY <1>2, <2>1, <2>2, Zenon DEF Up, Three
  <2>4. Head(to_dev).data \in Seq(Word)
    BY <1>0, <1>1, HeadPacket
  <2>5. dev.in \in Seq(Word) /\ Buffered \in Seq(Word)
    BY SoundParts
  <2> QED BY <2>3, <2>4, <2>5, ThreeFirst
<1>4. CASE Head(to_dev).cmd # "WRTE"
  <2>1. dev'.in = dev.in
    BY <1>0, <1>4, ReceiveEffect DEF DevIs
  <2>2. Load(to_dev') = Load(to_dev)
    BY <1>1, <1>4, SoundParts, LoadTail
  <2> QED BY <1>2, <2>1, <2>2, Zenon DEF Up
<1> QED BY <1>3, <1>4

LEMMA UpStep ==
  ASSUME Sound, [Next]_vars
  PROVE  (Adds /\ Up' = Up \o Head(todo)) \/ Opens \/ DevParse \/ Up' = Up
<1>0. Typed
  BY DEF Sound
<1>1. ASSUME UNCHANGED client, to_dev' = to_dev, dev'.in = dev.in PROVE Up' = Up
  BY <1>1 DEF Up, client, Buffered
<1>2. CASE UNCHANGED vars
  BY <1>1, <1>2 DEF vars
<1>3. CASE Client
  BY <1>3, UpClient, UpAdd
<1>4. CASE DevReceive
  BY <1>4, UpReceive
<1>5. CASE DevAnswer
  BY <1>0, <1>1, <1>5, AnswerEffect DEF DevIs
<1>6. CASE DevFail
  BY <1>0, <1>1, <1>6, FailEffect DEF DevIs
<1>7. CASE DevSend
  BY <1>0, <1>1, <1>7, SendEffect DEF DevIs
<1> QED BY <1>2, <1>3, <1>4, <1>5, <1>6, <1>7 DEF Next, Device, Ended

(* A request of the device's is parsed.                                    *)
LEMMA UpParse ==
  ASSUME Sound, DevParse
  PROVE  /\ RequestSize \in Nat /\ RequestSize >= 2
         /\ RequestSize <= Len(dev.in) /\ RequestSize <= Len(Up)
         /\ dev'.in = Dropped(dev.in, RequestSize) => Up' = Dropped(Up, RequestSize)
         /\ \A k \in 1 .. RequestSize : Up[k] = dev.in[k]
<1>0. Typed
  BY DEF Sound
<1>1. /\ RequestSize \in Nat /\ RequestSize >= 2 /\ RequestSize <= Len(dev.in)
      /\ UNCHANGED <<client, to_dev>>
  BY <1>0, ParseEffect
<1> DEFINE n == RequestSize
           d == Load(to_dev) \o Buffered
<1>2. d \in Seq(Word) /\ Up = dev.in \o d
  BY SoundParts, Joined DEF Up
<1>7. dev.in \in Seq(Word)
  BY SoundParts
<1>3. dev'.in = Dropped(dev.in, n) => Up' = Dropped(dev.in, n) \o d
  BY <1>1 DEF Up, client, Buffered
<1> HIDE DEF n, d
<1>4. dev'.in = Dropped(dev.in, n) => Up' = Dropped(Up, n)
  <2>1. n \in Nat /\ n <= Len(dev.in)
    BY <1>1 DEF n
  <2> QED BY <1>2, <1>3, <1>7, <2>1, DropJoined, Zenon
<1>5. n <= Len(Up) /\ Len(dev.in) \in Nat
  <2>1. Len(Up) = Len(dev.in) + Len(d) /\ Len(dev.in) \in Nat /\ Len(d) \in Nat
    BY <1>2, <1>7, Joined, Zenon
  <2> QED BY <1>1, <2>1 DEF n
<1>6. ASSUME NEW k \in 1 .. n PROVE Up[k] = dev.in[k]
  <2>1. k \in 1 .. Len(dev.in)
    BY <1>1, <1>5 DEF n
  <2> QED BY <1>2, <1>7, <2>1, JoinedLeft, Zenon
<1> QED BY <1>1, <1>4, <1>5, <1>6 DEF n
-----------------------------------------------------------------------------
(* The requests of a push tell the file from its first word to its last.   *)

LEMMA Division ==
  ASSUME NEW a \in Nat, NEW c \in Nat, c >= 1
  PROVE  a \div c \in Nat /\ (a \div c) * c <= a /\ a < (a \div c) * c + c
<1>1. a = c * (a \div c) + (a % c) /\ a % c \in 0 .. c - 1 /\ a \div c \in Nat
  OBVIOUS
<1>2. c * (a \div c) = (a \div c) * c
  BY <1>1
<1> DEFINE q == (a \div c) * c
           r == a % c
<1>3. a = q + r /\ r \in 0 .. c - 1 /\ q \in Nat
  BY <1>1, <1>2
<1> HIDE DEF q, r
<1>4. q <= a /\ a < q + c
  BY <1>3
<1> QED BY <1>1, <1>4 DEF q

LEMMA Multiples ==
  ASSUME NEW c \in Nat, NEW j \in Nat, NEW n \in Nat, j <= n
  PROVE  j * c \in Nat /\ n * c \in Nat /\ j * c <= n * c
<1>1. (n - j) * c \in Nat /\ j * c \in Nat /\ n * c \in Nat
  OBVIOUS
<1>2. (n - j) * c = n * c - j * c
  OBVIOUS
<1> QED BY <1>1, <1>2

LEMMA ChunkBounds ==
  ASSUME NEW len \in Nat, NEW c \in Nat, c >= 1, NEW n, n = (len + c - 1) \div c
  PROVE  /\ n \in Nat /\ len <= n * c
         /\ n = 0 => len = 0
         /\ \A j \in 1 .. n : (j - 1) * c \in Nat /\ (j - 1) * c < len /\ j * c = (j - 1) * c + c
<1>1. len + c - 1 \in Nat
  OBVIOUS
<1>2. n \in Nat /\ n * c <= len + c - 1 /\ len + c - 1 < n * c + c
  BY <1>1, Division
<1>3. n * c \in Nat /\ len <= n * c
  BY <1>2
<1>4. ASSUME n = 0 PROVE len = 0
  <2>1. n * c = 0
    BY <1>4
  <2> QED BY <1>3, <2>1
<1>5. ASSUME NEW j \in 1 .. n
      PROVE  (j - 1) * c \in Nat /\ (j - 1) * c < len /\ j * c = (j - 1) * c + c
  <2>1. j * c \in Nat /\ j * c <= n * c
    BY <1>2, Multiples
  <2>2. j * c = (j - 1) * c + c /\ (j - 1) * c \in Nat
    OBVIOUS
  <2> QED BY <1>2, <1>3, <2>1, <2>2
<1> QED BY <1>2, <1>3, <1>4, <1>5

LEMMA ConcatLength ==
  ASSUME NEW S, NEW s \in Seq(S), NEW t \in Seq(S)
  PROVE  s \o t \in Seq(S) /\ Len(s \o t) = Len(s) + Len(t)
BY ConcatProperties

LEMMA ConcatLeft ==
  ASSUME NEW S, NEW s \in Seq(S), NEW t \in Seq(S), NEW i \in 1 .. Len(s)
  PROVE  (s \o t)[i] = s[i]
<1>1. i \in 1 .. Len(s) + Len(t) /\ i <= Len(s)
  BY LenProperties
<1> QED BY <1>1, ConcatProperties

LEMMA ConcatRight ==
  ASSUME NEW S, NEW s \in Seq(S), NEW t \in Seq(S), NEW i \in 1 .. Len(t)
  PROVE  (s \o t)[Len(s) + i] = t[i]
<1>1. /\ Len(s) + i \in 1 .. Len(s) + Len(t) /\ ~(Len(s) + i <= Len(s))
      /\ (Len(s) + i) - Len(s) = i
  BY LenProperties
<1>2. (s \o t)[Len(s) + i] = t[(Len(s) + i) - Len(s)]
  BY <1>1, ConcatProperties
<1> QED BY <1>1, <1>2

(* A sequence of one, some, and one.                                       *)
LEMMA OneLast ==
  ASSUME NEW S, NEW a \in S, NEW b \in Seq(S), NEW d \in S
  PROVE  LET all == (<<a>> \o b) \o <<d>>
         IN  /\ Len(all) = Len(b) + 2 /\ all[1] = a /\ all[Len(b) + 2] = d
             /\ \A j \in 1 .. Len(b) : all[j + 1] = b[j]
<1> DEFINE x == <<a>>
           y == <<d>>
           e == x \o b
           all == e \o y
           n == Len(b)
<1>1. x \in Seq(S) /\ Len(x) = 1 /\ x[1] = a /\ y \in Seq(S) /\ Len(y) = 1 /\ y[1] = d /\ n \in Nat
  BY LenProperties
<1> HIDE DEF x, y
<1>2. e \in Seq(S) /\ Len(e) = 1 + n
  <2>1. e \in Seq(S) /\ Len(e) = Len(x) + n
    BY <1>1, ConcatLength, Zenon
  <2> QED BY <1>1, <2>1
<1>3. e[1] = a
  <2>1. 1 \in 1 .. Len(x)
    BY <1>1
  <2>2. \A i \in 1 .. Len(x) : e[i] = x[i]
    BY <1>1, ConcatLeft, Zenon
  <2> HIDE DEF e
  <2> QED BY <1>1, <2>1, <2>2
<1>4. ASSUME NEW j \in 1 .. n PROVE e[j + 1] = b[j]
  <2>1. e[Len(x) + j] = b[j]
    BY <1>1, ConcatRight, Zenon
  <2>2. Len(x) + j = j + 1
    BY <1>1
  <2> QED BY <2>1, <2>2
<1> HIDE DEF e
<1>5. all \in Seq(S) /\ Len(all) = n + 2
  <2>1. all \in Seq(S) /\ Len(all) = Len(e) + Len(y)
    BY <1>1, <1>2, ConcatLength, Zenon
  <2> QED BY <1>1, <1>2, <2>1
<1>6. ASSUME NEW j \in 1 .. n + 1 PROVE all[j] = e[j]
  <2>1. j \in 1 .. Len(e)
    BY <1>1, <1>2
  <2> QED BY <1>1, <1>2, <2>1, ConcatLeft, Zenon
<1>7. all[n + 2] = d
  <2>1. 1 \in 1 .. Len(y) /\ Len(e) + 1 = n + 2
    BY <1>1, <1>2
  <2>2. \A i \in 1 .. Len(y) : all[Len(e) + i] = y[i]
    BY <1>1, <1>2, ConcatRight, Zenon
  <2> HIDE DEF all
  <2> QED BY <1>1, <2>1, <2>2
<1> HIDE DEF all
<1>8. all[1] = a
  <2>1. 1 \in 1 .. n + 1
    BY <1>1
  <2> QED BY <1>3, <1>6, <2>1
<1>9. ASSUME NEW j \in 1 .. n PROVE all[j + 1] = b[j]
  <2>1. j + 1 \in 1 .. n + 1
    BY <1>1
  <2> QED BY <1>4, <1>6, <2>1
<1> QED BY <1>5, <1>7, <1>8, <1>9 DEF all, e, x, y, n

ChunkCount(f) == (Len(f) + max_chunk_size - 1) \div max_chunk_size

Chunk(f, j) == SubSeq(f, (j - 1) * max_chunk_size + 1, Least(j * max_chunk_size, Len(f)))

LEMMA ChunkNumber ==
  ASSUME NEW f \in Seq(Word)
  PROVE  /\ ChunkCount(f) \in Nat /\ max_chunk_size \in Nat /\ max_chunk_size >= 1
         /\ Len(f) <= ChunkCount(f) * max_chunk_size
         /\ ChunkCount(f) = 0 => Len(f) = 0
         /\ \A j \in 1 .. ChunkCount(f) :
              /\ (j - 1) * max_chunk_size \in Nat /\ (j - 1) * max_chunk_size < Len(f)
              /\ j * max_chunk_size = (j - 1) * max_chunk_size + max_chunk_size
<1>1. max_chunk_size \in Nat /\ max_chunk_size >= 1 /\ Len(f) \in Nat
  BY ChunkSize, LenProperties
<1> QED BY <1>1, ChunkBounds, Zenon DEF ChunkCount

LEMMA PathShape ==
  Path \in Seq(Word) /\ Len(Path) = PathLen /\ Plain(Path) /\ PathLen \in Nat
<1>1. DataWord(0) \in Word /\ DataWord(0).id = "data"
  BY DEF DataWord, Word
<1>2. Path \in Seq(Word) /\ Len(Path) = PathLen /\ PathLen \in Nat
  BY <1>1, FileSyncAssumption DEF Path
<1>3. ASSUME NEW m \in 1 .. Len(Path) PROVE Path[m].id = "data"
  BY <1>1, <1>2 DEF Path
<1> QED BY <1>2, <1>3, Zenon DEF Plain

LEMMA PushFrames ==
  ASSUME NEW f \in Seq(Word)
  PROVE  LET all == Requests("push", f)
             n == ChunkCount(f)
         IN  /\ Len(all) = n + 2
             /\ all[1] = Frame("SEND", RequestHeader, Path)
             /\ all[n + 2] = Frame("DONE", RequestHeader, <<>>)
             /\ \A j \in 1 .. n : all[j + 1] = Frame("DATA", RequestHeader, Chunk(f, j))
<1> DEFINE all == Requests("push", f)
           n == ChunkCount(f)
           chunks == ChunksOf(f)
           a == Frame("SEND", RequestHeader, Path)
           d == Frame("DONE", RequestHeader, <<>>)
           b == [i \in DOMAIN chunks |-> Frame("DATA", RequestHeader, chunks[i])]
           S == Seq(Word)
<1>1. n \in Nat
  BY ChunkNumber
<1>2. chunks = [i \in 1 .. n |-> Chunk(f, i)]
  BY Zenon DEF ChunksOf, ChunkCount, Chunk
<1>3. RequestHeader \in Nat /\ RequestHeader >= 2 /\ "SEND" \in Ids /\ "DATA" \in Ids /\ "DONE" \in Ids
  BY DEF RequestHeader, Ids
<1>4. a \in S /\ d \in S
  <2>1. IsFrame(a, "SEND", RequestHeader, Path) /\ IsFrame(d, "DONE", RequestHeader, <<>>)
    BY <1>3, PathShape, EmptyWords, FrameShape, Zenon
  <2> QED BY <2>1, Zenon DEF IsFrame
<1>5. all = (<<a>> \o b) \o <<d>>
  BY DEF Requests
<1>6. DOMAIN chunks = 1 .. n
  <2> HIDE DEF n, chunks
  <2> QED BY <1>2
<1>7. ASSUME NEW i \in 1 .. n PROVE chunks[i] \in Seq(Word) /\ chunks[i] = Chunk(f, i)
  <2>1. chunks[i] \in Seq(Word)
    BY <1>6, ChunksFit
  <2> HIDE DEF n, chunks
  <2>2. chunks[i] = Chunk(f, i)
    BY <1>2
  <2> QED BY <2>1, <2>2
<1> HIDE DEF n, chunks, a, d, all
<1>8. b = [i \in 1 .. n |-> Frame("DATA", RequestHeader, chunks[i])]
  BY <1>6
<1>9. ASSUME NEW i \in 1 .. n PROVE Frame("DATA", RequestHeader, chunks[i]) \in S
  <2>1. IsFrame(Frame("DATA", RequestHeader, chunks[i]), "DATA", RequestHeader, chunks[i])
    BY <1>3, <1>7, FrameShape, Zenon
  <2> QED BY <2>1, Zenon DEF IsFrame
<1>10. b \in [1 .. n -> S]
  BY <1>8, <1>9
<1>11. ASSUME NEW i \in 1 .. n PROVE b[i] = Frame("DATA", RequestHeader, Chunk(f, i))
  BY <1>7, <1>8
<1> HIDE DEF b, S
<1>12. b \in Seq(S) /\ Len(b) = n
  BY <1>1, <1>10
<1>13. /\ Len(all) = Len(b) + 2 /\ all[1] = a /\ all[Len(b) + 2] = d
       /\ \A j \in 1 .. Len(b) : all[j + 1] = b[j]
  BY <1>4, <1>5, <1>12, OneLast
<1> QED BY <1>11, <1>12, <1>13 DEF all, n, a, d

(* The words of the file in the first a requests.                          *)
QueuedBy(f, a) == IF a <= 1 THEN 0 ELSE Least((a - 1) * max_chunk_size, Len(f))

LEMMA PushOrder ==
  ASSUME NEW f \in Seq(Word), f = Words(Len(f)), NEW a \in Nat, a + 1 <= Len(Requests("push", f))
  PROVE  LET all == Requests("push", f)
         IN  /\ QueuedBy(f, a) \in Nat /\ QueuedBy(f, a + 1) \in Nat /\ QueuedBy(f, a) <= Len(f)
             /\ a = 0 => all[1] = Frame("SEND", RequestHeader, Path) /\ QueuedBy(f, 1) = 0
             /\ a >= 1 => Follows(all[a + 1], RequestHeader, f, "DATA", QueuedBy(f, a), QueuedBy(f, a + 1))
<1> DEFINE all == Requests("push", f)
           n == ChunkCount(f)
           c == max_chunk_size
           len == Len(f)
           at == QueuedBy(f, a)
           next == QueuedBy(f, a + 1)
<1>1. n \in Nat /\ c \in Nat /\ c >= 1 /\ len <= n * c /\ (n = 0 => len = 0) /\ len \in Nat
  BY ChunkNumber, LenProperties
<1>2. ASSUME NEW j \in 1 .. n PROVE (j - 1) * c \in Nat /\ (j - 1) * c < len /\ j * c = (j - 1) * c + c
  BY ChunkNumber
<1>3. /\ Len(all) = n + 2 /\ all[1] = Frame("SEND", RequestHeader, Path)
      /\ all[n + 2] = Frame("DONE", RequestHeader, <<>>)
  BY PushFrames
<1>4. ASSUME NEW j \in 1 .. n PROVE all[j + 1] = Frame("DATA", RequestHeader, Chunk(f, j))
  BY PushFrames
<1>5. at = IF a <= 1 THEN 0 ELSE Least((a - 1) * c, len)
  BY DEF QueuedBy
<1>6. next = IF a + 1 <= 1 THEN 0 ELSE Least(((a + 1) - 1) * c, len)
  BY DEF QueuedBy
<1>7. RequestHeader \in Nat /\ RequestHeader >= 2 /\ "DATA" \in Entries
  BY DEF RequestHeader, Entries
<1>8. a + 1 <= Len(all)
  OBVIOUS
<1>9. Chunk(f, a) = SubSeq(f, (a - 1) * c + 1, Least(a * c, len))
  BY DEF Chunk
<1> HIDE DEF all, n, c, len, at, next
<1>10. (a + 1) - 1 = a
  OBVIOUS
<1>11. CASE a = 0
  <2>1. at = 0 /\ next = 0
    BY <1>5, <1>6, <1>11
  <2> QED BY <1>1, <1>3, <1>11, <2>1 DEF all, at, next, len
<1>12. CASE a \in 1 .. n
  <2>1. (a - 1) * c \in Nat /\ (a - 1) * c < len /\ a * c = (a - 1) * c + c
    BY <1>2, <1>12
  <2> DEFINE p == (a - 1) * c
             q == a * c
  <2>2. p \in Nat /\ p < len /\ q = p + c
    BY <2>1
  <2>3. a = 1 => p = 0
    BY <1>1
  <2>4. at = IF a <= 1 THEN 0 ELSE Least(p, len)
    BY <1>5
  <2>5. next = Least(q, len)
    BY <1>6, <1>10, <1>12
  <2>6. Chunk(f, a) = SubSeq(f, p + 1, Least(q, len))
    BY <1>9
  <2> HIDE DEF p, q
  <2>7. at = p
    BY <1>1, <1>12, <2>2, <2>3, <2>4 DEF Least
  <2> DEFINE m == next - at
  <2>8. next = at + m /\ m \in Nat /\ m >= 1 /\ next <= len /\ at \in Nat /\ at <= len /\ next \in Nat
    BY <1>1, <2>2, <2>5, <2>7 DEF Least
  <2> HIDE DEF m
  <2>9. all[a + 1] = Frame("DATA", RequestHeader, SubSeq(f, at + 1, at + m))
    BY <1>4, <1>12, <2>5, <2>6, <2>7, <2>8
  <2>10. at + m <= Len(f)
    BY <2>8 DEF len
  <2>11. Follows(Frame("DATA", RequestHeader, SubSeq(f, at + 1, at + m)), RequestHeader, f, "DATA", at, at + m)
    BY <1>7, <2>8, <2>10, DataFollows, Zenon
  <2>12. Follows(all[a + 1], RequestHeader, f, "DATA", at, next)
    BY <2>8, <2>9, <2>11
  <2>13. a # 0
    BY <1>12
  <2> QED BY <2>8, <2>12, <2>13 DEF all, at, next, len
<1>13. CASE a = n + 1
  <2>1. at = len
    <3>1. CASE n = 0
      BY <1>1, <1>5, <1>13, <3>1
    <3>2. CASE n # 0
      <4>1. ~(a <= 1) /\ a - 1 = n
        BY <1>1, <1>13, <3>2
      <4>2. at = Least(n * c, len)
        BY <1>5, <4>1
      <4> DEFINE p == n * c
      <4>3. p \in Nat /\ len <= p /\ at = Least(p, len)
        BY <1>1, <4>2
      <4> HIDE DEF p
      <4> QED BY <1>1, <4>3 DEF Least
    <3> QED BY <3>1, <3>2
  <2>2. next \in Nat
    <3> DEFINE p == a * c
    <3>1. p \in Nat /\ next = Least(p, len)
      <4>1. a * c \in Nat
        BY <1>1
      <4> QED BY <1>1, <1>6, <1>10, <1>13, <4>1
    <3> HIDE DEF p
    <3> QED BY <1>1, <3>1 DEF Least
  <2>3. all[a + 1] = Frame("DONE", RequestHeader, <<>>)
    <3>1. a + 1 = n + 2
      BY <1>1, <1>13
    <3> QED BY <1>3, <3>1
  <2>4. at = Len(f)
    BY <2>1 DEF len
  <2>5. Follows(Frame("DONE", RequestHeader, <<>>), RequestHeader, f, "DATA", at, next)
    BY <1>7, <2>4, EndFollows, Zenon
  <2>6. Follows(all[a + 1], RequestHeader, f, "DATA", at, next)
    BY <2>3, <2>5
  <2>7. a # 0 /\ at \in Nat /\ at <= len
    BY <1>1, <1>13, <2>1
  <2> QED BY <2>2, <2>6, <2>7 DEF all, at, next, len
<1>14. a = 0 \/ a \in 1 .. n \/ a = n + 1
  BY <1>1, <1>3, <1>8
<1> QED BY <1>11, <1>12, <1>13, <1>14
-----------------------------------------------------------------------------
(* What a step does to the words on their way to the client.               *)

(* The client takes an answer that is no part of the transfer.             *)
LEMMA DownTail ==
  ASSUME Sound, to_host # <<>>, to_host' = Tail(to_host), Head(to_host).cmd # "WRTE",
         UNCHANGED <<recv_buffer, dev>>
  PROVE  Down' = Down
<1>1. to_host \in Queue /\ Single(to_host, "WRTE")
  BY SoundParts
<1>2. Load(to_host') = Load(to_host)
  BY <1>1, LoadTail
<1> QED BY <1>2, Zenon DEF Down

LEMMA DownFill ==
  ASSUME Sound, FillBuffer
  PROVE  Down' = Down
<1>1. /\ to_host # <<>> /\ Head(to_host).cmd = "WRTE" /\ to_host' = Tail(to_host) /\ dev' = dev
      /\ recv_buffer' = recv_buffer \o Head(to_host).data
  BY DEF FillBuffer
<1>2. to_host \in Queue /\ Single(to_host, "WRTE") /\ recv_buffer \in Seq(Word) /\ dev.out \in Seq(Word)
  BY SoundParts
<1>3. Load(to_host) = Head(to_host).data /\ Load(to_host') = <<>>
  BY <1>1, <1>2, LoadTail
<1>4. /\ Down = Three(recv_buffer, Head(to_host).data, dev.out)
      /\ Down' = Three(recv_buffer \o Head(to_host).data, <<>>, dev.out)
  BY <1>1, <1>3, Zenon DEF Down, Three
<1>5. Head(to_host).data \in Seq(Word)
  BY <1>1, HeadAnswer DEF Sound
<1> QED BY <1>2, <1>4, <1>5, ThreeFirst

(* It parses a header, or the data that follows.                           *)
LEMMA DownRead ==
  ASSUME Sound, ReadHeader \/ ReadData
  PROVE  /\ Down' = Dropped(Down, Needed)
         /\ Needed \in Nat /\ Needed <= Len(recv_buffer) /\ Needed <= Len(Down)
         /\ \A k \in 1 .. Needed : Down[k] = recv_buffer[k]
<1>1. /\ recv_buffer' = Dropped(recv_buffer, Needed) /\ UNCHANGED <<to_host, dev>>
      /\ Len(recv_buffer) >= Needed
  BY DEF ReadHeader, ReadData, Remaining, Dropped
<1> DEFINE n == Needed
           d == Load(to_host) \o dev.out
<1>2. recv_buffer \in Seq(Word) /\ Load(to_host) \in Seq(Word) /\ dev.out \in Seq(Word)
  BY SoundParts
<1>3. d \in Seq(Word) /\ Down = recv_buffer \o d
  BY <1>2, Joined DEF Down
<1>4. Down' = Dropped(recv_buffer, n) \o d
  BY <1>1, Zenon DEF Down
<1>5. n \in Nat
  BY NeededWords DEF Sound
<1>6. n <= Len(recv_buffer) /\ Len(recv_buffer) \in Nat
  BY <1>1, <1>2, <1>5, LenProperties
<1> HIDE DEF n, d
<1>7. Down' = Dropped(Down, n)
  BY <1>2, <1>3, <1>4, <1>5, <1>6, DropJoined, Zenon
<1>8. n <= Len(Down)
  <2>1. Len(Down) = Len(recv_buffer) + Len(d) /\ Len(d) \in Nat
    BY <1>2, <1>3, Joined, Zenon
  <2> QED BY <1>5, <1>6, <2>1
<1>9. ASSUME NEW k \in 1 .. n PROVE Down[k] = recv_buffer[k]
  <2>1. k \in 1 .. Len(recv_buffer)
    BY <1>5, <1>6
  <2> QED BY <1>2, <1>3, <2>1, JoinedLeft, Zenon
<1> QED BY <1>5, <1>6, <1>7, <1>8, <1>9 DEF n

(* A WRTE that nobody waits for is dropped.                                *)
Loses == DropPacket /\ Head(to_host).cmd = "WRTE"

LEMMA DownClient ==
  ASSUME Sound, Client
  PROVE  Opens \/ ReadHeader \/ ReadData \/ Loses \/ Down' = Down
<1>1. ASSUME UNCHANGED <<recv_buffer, to_host, dev>> PROVE Down' = Down
  BY <1>1, Zenon DEF Down
<1>2. CASE FilesyncSend \/ AddAfterFlush
  BY <1>1, <1>2 DEF FilesyncSend, AddAfterFlush, AddFrame, Flush
<1>3. CASE FlushDone
  <2>1. /\ to_host # <<>> /\ to_host' = Tail(to_host) /\ Head(to_host).cmd # "WRTE"
        /\ UNCHANGED <<recv_buffer, dev>>
    BY <1>3 DEF FlushDone, Flushed
  <2> QED BY <2>1, DownTail
<1>4. CASE BeginRead \/ FilesyncRead
  BY <1>1, <1>4 DEF BeginRead, FilesyncRead, Flush
<1>5. CASE FillBuffer
  BY <1>5, DownFill
<1>6. CASE SendClse \/ Timeout
  BY <1>1, <1>6 DEF SendClse, Timeout
<1>7. CASE ReadClse
  <2>1. /\ to_host # <<>> /\ to_host' = Tail(to_host) /\ Head(to_host).cmd # "WRTE"
        /\ UNCHANGED <<recv_buffer, dev>>
    BY <1>7 DEF ReadClse
  <2> QED BY <2>1, DownTail
<1>8. CASE DropPacket /\ ~Loses
  <2>1. /\ to_host # <<>> /\ to_host' = Tail(to_host) /\ Head(to_host).cmd # "WRTE"
        /\ UNCHANGED <<recv_buffer, dev>>
    BY <1>8 DEF DropPacket, Loses, client
  <2> QED BY <2>1, DownTail
<1>9. CASE Mkdir
  BY <1>1, <1>9 DEF Mkdir, Fails
<1>10. CASE OpenFile
  BY <1>1, <1>10, OpenCases DEF Fails
<1>11. CASE FileSize \/ StatBefore
  BY <1>1, <1>11 DEF FileSize, StatBefore, Fails
<1> QED BY <1>2, <1>3, <1>4, <1>5, <1>6, <1>7, <1>8, <1>9, <1>10, <1>11 DEF Client

LEMMA DownReceive ==
  ASSUME Sound, DevReceive
  PROVE  Down' = Down
<1>0. Typed
  BY DEF Sound
<1>1. UNCHANGED client /\ dev'.out = dev.out
  BY <1>0, ReceiveEffect DEF DevIs
<1>2. to_host \in Queue /\ Single(to_host, "WRTE")
  BY SoundParts
<1>3. \/ to_host' = to_host
      \/ to_host' = Append(to_host, Msg("OKAY", <<>>))
      \/ to_host' = Append(to_host, Msg("CLSE", <<>>))
  BY <1>0, ReceiveEffect, Zenon
<1>4. Load(to_host') = Load(to_host)
  BY <1>2, <1>3, OkayPacket, LoadAppend
<1> QED BY <1>1, <1>4, Zenon DEF Down, client

LEMMA DownSend ==
  ASSUME Sound, DevSend
  PROVE  Down' = Down
<1>0. Typed
  BY DEF Sound
<1>1. dev.ready /\ UNCHANGED client
  BY <1>0, SendEffect
<1>2. PICK k \in 1 .. Len(dev.out) :
        /\ SubSeq(dev.out, 1, k) \in Seq(Word)
        /\ to_host' = Append(to_host, Msg("WRTE", SubSeq(dev.out, 1, k)))
        /\ dev'.out = Dropped(dev.out, k)
  BY <1>0, SendEffect, Zenon DEF DevIs
<1>3. to_host \in Queue /\ Single(to_host, "WRTE") /\ dev.out \in Seq(Word)
  BY SoundParts
<1>4. ~Has(to_host, "WRTE")
  BY <1>1 DEF Sound, QueuesOK, CreditOK
<1>5. Load(to_host) = <<>>
  BY <1>4, NoLoad
<1>6. Load(to_host') = SubSeq(dev.out, 1, k)
  <2> DEFINE data == SubSeq(dev.out, 1, k)
             m == Msg("WRTE", data)
  <2>1. m \in Packet /\ m.cmd = "WRTE" /\ m.data = data
    BY <1>2, MsgPacket
  <2> HIDE DEF data
  <2>2. to_host' = Append(to_host, m)
    BY <1>2 DEF data
  <2> HIDE DEF m
  <2>3. Load(to_host') = data
    BY <1>3, <1>4, <2>1, <2>2, LoadAppend
  <2> QED BY <2>3 DEF data
<1>7. /\ Down = Three(recv_buffer, <<>>, dev.out)
      /\ Down' = Three(recv_buffer, SubSeq(dev.out, 1, k), Dropped(dev.out, k))
  BY <1>1, <1>2, <1>5, <1>6, Zenon DEF Down, Three, client
<1>8. k \in Nat /\ k <= Len(dev.out)
  BY <1>3, LenProperties
<1> QED BY <1>3, <1>7, <1>8, ThreeSplit

(* The device has more to say.                                             *)
LEMMA DownMore ==
  ASSUME Sound, NEW F \in Seq(Word), UNCHANGED <<client, to_host>>, dev'.out = dev.out \o F
  PROVE  Down' = Down \o F
<1>1. recv_buffer \in Seq(Word) /\ Load(to_host) \in Seq(Word) /\ dev.out \in Seq(Word)
  BY SoundParts
<1>2. Down = Three(recv_buffer, Load(to_host), dev.out)
  BY Zenon DEF Down, Three
<1>3. Down' = Three(recv_buffer, Load(to_host), Two(dev.out, F))
  BY Zenon DEF Down, Three, Two, client
<1>4. Down' = Two(Down, F)
  BY <1>1, <1>2, <1>3, ThreeLast
<1> QED BY <1>4, Zenon DEF Two

LEMMA DownStep ==
  ASSUME Sound, [Next]_vars
  PROVE  \/ Opens \/ ReadHeader \/ ReadData \/ Loses
         \/ DevParse \/ DevAnswer \/ DevFail
         \/ Down' = Down
<1>1. CASE UNCHANGED vars
  BY <1>1, Zenon DEF vars, client, Down
<1>2. CASE Client
  BY <1>2, DownClient
<1>3. CASE DevReceive
  BY <1>3, DownReceive
<1>4. CASE DevSend
  BY <1>4, DownSend
<1> QED BY <1>1, <1>2, <1>3, <1>4 DEF Next, Device, Ended
-----------------------------------------------------------------------------
(* The words of a frame join the copy of the file.                         *)

StartsWith(L, R, r) == r <= Len(R) /\ \A j \in 1 .. r : L[j] = R[j]

IsCopy(c, n) == c \in Seq(Word) /\ Len(c) = n /\ c = Words(n)

LEMMA CopyGrows ==
  ASSUME NEW L, NEW R \in Seq(Word), NEW r \in Nat, StartsWith(L, R, r),
         NEW k \in Nat, k >= 1, NEW c, NEW len, IsCopy(c, len), NEW n \in Nat, WordsAt(L, k, len, n),
         r = k - 1 + n
  PROVE  IsCopy(c \o SubSeq(R, k, r), len + n)
<1> DEFINE d == SubSeq(R, k, r)
           all == c \o d
<1>0. c \in Seq(Word) /\ len = Len(c) /\ c = Words(len)
  BY DEF IsCopy
<1>1. len \in Nat /\ Len(R) \in Nat /\ r <= Len(R)
  BY <1>0, LenProperties DEF StartsWith
<1>2. \A j \in k .. r : R[j] \in Word
  <2> SUFFICES ASSUME NEW j \in k .. r PROVE R[j] \in Word
    OBVIOUS
  <2>1. j \in 1 .. Len(R)
    BY <1>1
  <2> QED BY <2>1, ElementOfSeq
<1>3. d \in Seq(Word) /\ Len(d) = (IF k <= r THEN r - k + 1 ELSE 0)
  BY <1>2, SubSeqProperties
<1>4. Len(d) = n
  BY <1>3
<1>5. ASSUME NEW m \in 1 .. n PROVE d[m] = DataWord(len + m)
  <2>1. m \in 1 .. (r - k) + 1 /\ k <= r /\ k + m - 1 = k - 1 + m /\ k - 1 + m \in 1 .. r
    OBVIOUS
  <2>2. d[m] = R[k + m - 1]
    BY <1>2, <2>1, SubSeqProperties
  <2>3. R[k + m - 1] = L[k - 1 + m]
    BY <2>1 DEF StartsWith
  <2>4. L[k - 1 + m] = DataWord(len + m)
    BY Zenon DEF WordsAt
  <2> QED BY <2>2, <2>3, <2>4
<1>6. ASSUME NEW j \in 1 .. len PROVE c[j] = DataWord(j)
  BY <1>0 DEF Words
<1> HIDE DEF d
<1>7. all \in Seq(Word) /\ Len(all) = len + n
  BY <1>0, <1>3, <1>4, Joined
<1>8. ASSUME NEW j \in 1 .. len PROVE all[j] = DataWord(j)
  <2>1. all[j] = c[j]
    BY <1>0, <1>3, JoinedLeft
  <2> QED BY <1>6, <2>1
<1>9. ASSUME NEW m \in 1 .. n PROVE all[len + m] = DataWord(len + m)
  <2>1. all[len + m] = d[m]
    BY <1>0, <1>3, <1>4, JoinedRight
  <2> QED BY <1>5, <2>1
<1> HIDE DEF all
<1>10. ASSUME NEW j \in 1 .. len + n PROVE all[j] = DataWord(j)
  <2>1. CASE j <= len
    <3>1. j \in 1 .. len
      BY <1>1, <2>1
    <3> QED BY <1>8, <3>1
  <2>2. CASE j > len
    <3>1. j - len \in 1 .. n /\ len + (j - len) = j
      BY <1>1, <2>2
    <3>2. all[len + (j - len)] = DataWord(len + (j - len))
      BY <1>9, <3>1
    <3> QED BY <3>1, <3>2
  <2> QED BY <1>1, <2>1, <2>2
<1>11. all = Words(len + n)
  <2>1. \A j \in 1 .. len + n : DataWord(j) \in Word
    BY <1>1 DEF DataWord, Word
  <2>2. Words(len + n) \in Seq(Word) /\ Len(Words(len + n)) = len + n
    BY <1>1, <2>1 DEF Words
  <2>3. ASSUME NEW j \in 1 .. Len(all) PROVE all[j] = Words(len + n)[j]
    BY <1>7, <1>10 DEF Words
  <2> QED BY <1>7, <2>2, <2>3, SeqEqual
<1> QED BY <1>7, <1>11 DEF IsCopy, all, d

LEMMA SameWords ==
  ASSUME NEW a, NEW b, a = Words(Len(a)), b = Words(Len(b)), Len(a) = Len(b)
  PROVE  a = b
OBVIOUS

(* The words of a copy are the first ones of the file.                     *)
LEMMA CopyIsPrefix ==
  ASSUME NEW a \in Seq(Word), NEW f \in Seq(Word), a = Words(Len(a)), f = Words(Len(f)),
         Len(a) <= Len(f)
  PROVE  IsPrefix(a, f)
<1>1. Len(a) \in Nat /\ Len(f) \in Nat
  BY LenProperties
<1>2. /\ SubSeq(f, 1, Len(a)) \in Seq(Word) /\ Len(SubSeq(f, 1, Len(a))) = Len(a)
      /\ SubSeq(a, 1, Len(a)) \in Seq(Word) /\ Len(SubSeq(a, 1, Len(a))) = Len(a)
  BY <1>1, FirstWords
<1>3. \A j \in 1 .. Len(a) : f[j] \in Word /\ a[j] \in Word
  BY <1>1, ElementOfSeq
<1>4. ASSUME NEW j \in 1 .. Len(a) PROVE SubSeq(f, 1, Len(a))[j] = SubSeq(a, 1, Len(a))[j]
  <2>1. j \in 1 .. (Len(a) - 1) + 1 /\ 1 <= Len(a) /\ 1 + j - 1 = j /\ j \in 1 .. Len(f)
    BY <1>1
  <2>2. SubSeq(f, 1, Len(a))[j] = f[1 + j - 1] /\ SubSeq(a, 1, Len(a))[j] = a[1 + j - 1]
    BY <1>1, <1>3, <2>1, SubSeqProperties
  <2>3. f[j] = DataWord(j) /\ a[j] = DataWord(j)
    BY <2>1 DEF Words
  <2> QED BY <2>1, <2>2, <2>3
<1>5. SubSeq(f, 1, Len(a)) = SubSeq(a, 1, Len(a))
  BY <1>2, <1>4, SeqEqual
<1> QED BY <1>1, <1>5 DEF IsPrefix

(* What the first word of a sequence of frames tells.                      *)
LEMMA FirstFrame ==
  ASSUME NEW L \in Seq(Word), Len(L) >= 1, NEW h \in Nat, h >= 1, NEW f, NEW e \in Entries,
         NEW i \in Nat, NEW at, Begins(L, h, f, e, 1, i, at), Chained(L, h, f, e, at)
  PROVE  /\ L[1].id \in {"FAIL", "DONE", e}
         /\ L[1].id = "DONE" => i = Len(f)
         /\ L[1].id = e => Carries(L, h, f, e, h + 1, i, L[h].size, at)
<1>1. Len(L) \in Nat /\ e # "FAIL" /\ e # "DONE"
  BY LenProperties DEF Entries
<1>2. \/ L[1].id = "FAIL"
      \/ L[1].id = "DONE" /\ i = Len(f)
      \/ L[1].id = e /\ L[1 + h] = DataWord(i + 1)
  BY <1>1 DEF Begins
<1>3. ASSUME L[1].id = e PROVE Carries(L, h, f, e, h + 1, i, L[h].size, at)
  <2>1. 1 \in 1 .. Len(L)
    BY <1>1
  <2>2. Carries(L, h, f, e, 1 + h, L[1 + h].size - 1, L[1 + h - 1].size, at)
    BY <1>3, <2>1, Zenon DEF Chained
  <2>3. L[1 + h] = DataWord(i + 1)
    BY <1>1, <1>2, <1>3
  <2>4. L[1 + h].size - 1 = i /\ 1 + h - 1 = h /\ 1 + h = h + 1
    BY <2>3 DEF DataWord
  <2> QED BY <2>2, <2>4
<1> QED BY <1>1, <1>2, <1>3
-----------------------------------------------------------------------------
(* The requests of a push.                                                 *)

LEMMA CommandKept ==
  ASSUME Sound, [Next]_vars
  PROVE  command' = command /\ (Opens \/ file' = file)
<1>1. CASE UNCHANGED vars \/ Device \/ DevFail
  BY <1>1, DeviceTyped DEF vars, client, Sound
<1>2. CASE OpenFile
  BY <1>2, OpenCases DEF Fails, Opens
<1>3. CASE Client /\ ~OpenFile
  BY <1>3 DEF Client, Mkdir, FileSize, StatBefore, Fails, FilesyncSend, AddAfterFlush, AddFrame,
              FlushDone, Flushed, BeginRead, FilesyncRead, Flush, FillBuffer, ReadHeader, ReadData,
              SendClse, ReadClse, DropPacket, Timeout, request, client
<1> QED BY <1>1, <1>2, <1>3 DEF Next, Ended

(* The steps that put requests together are entered at their first.        *)
LEMMA AddingKept ==
  ASSUME Sound, [Next]_vars, pc' \in Adding
  PROVE  Opens \/ StatBefore \/ pc \in Adding
<1>1. CASE UNCHANGED vars \/ Device \/ DevFail
  BY <1>1, DeviceTyped DEF vars, client, Sound
<1>2. CASE OpenFile
  BY <1>2, OpenCases DEF Fails, Adding
<1>3. CASE FilesyncSend \/ AddAfterFlush
  BY <1>3 DEF FilesyncSend, AddAfterFlush, Adding
<1>4. CASE Client /\ ~OpenFile /\ ~StatBefore /\ ~FilesyncSend /\ ~AddAfterFlush
  BY <1>4 DEF Client, Mkdir, FileSize, Fails, Adding,
              FlushDone, Flushed, BeginRead, FilesyncRead, Flush, FillBuffer, ReadHeader, ReadData,
              HandleFrame, Handle, SendClse, ReadClse, DropPacket, Timeout, client
<1> QED BY <1>1, <1>2, <1>3, <1>4 DEF Next, Ended

LEMMA SendShape ==
  LET F == Frame("SEND", RequestHeader, Path)
  IN  /\ F \in Seq(Word) /\ Len(F) = RequestHeader + PathLen /\ F[1].id = "SEND" /\ F[2].size = PathLen
      /\ \A h, f, at : Chained(F, h, f, "DATA", at)
<1> DEFINE F == Frame("SEND", RequestHeader, Path)
<1>1. RequestHeader \in Nat /\ RequestHeader >= 2 /\ RequestHeader = 2 /\ "SEND" \in Ids /\ "DATA" \in Ids
  BY DEF RequestHeader, Ids
<1>2. OneHeader(F, "DATA") /\ IsFrame(F, "SEND", RequestHeader, Path)
  BY <1>1, PathShape, FrameHeader, FrameShape, Zenon
<1> HIDE DEF F
<1>3. F \in Seq(Word) /\ Len(F) = RequestHeader + PathLen /\ F[1].id = "SEND" /\ F[2].size = PathLen
  BY <1>1, <1>2, PathShape DEF IsFrame
<1>4. ASSUME NEW p \in 1 .. Len(F) PROVE F[p].id # "DATA"
  <2>1. CASE p = 1
    BY <1>3, <2>1
  <2>2. CASE p # 1
    <3>1. p \in 2 .. Len(F)
      BY <2>2
    <3> QED BY <1>2, <3>1, Zenon DEF OneHeader
  <2> QED BY <2>1, <2>2
<1>5. \A h, f, at : Chained(F, h, f, "DATA", at)
  BY <1>4, Zenon DEF Chained
<1> QED BY <1>3, <1>5 DEF F

LEMMA PushAdds ==
  ASSUME Sound, FilesOK, command = "push", Adds
  PROVE  /\ Added \in Nat /\ Added' = Added + 1
         /\ Queued \in Nat /\ Queued' \in Nat /\ Head(todo) \in Seq(Word)
         /\ Added = 0 => Head(todo) = Frame("SEND", RequestHeader, Path) /\ Queued' = 0
         /\ Added # 0 => Follows(Head(todo), RequestHeader, file, "DATA", Queued, Queued')
<1>0. Typed
  BY DEF Sound
<1>1. todo # <<>> /\ todo' = Tail(todo) /\ UNCHANGED <<command, file>>
  BY DEF Adds, AddFrame, request
<1>2. AllRequests \in Seq(Fitting) /\ todo \in Seq(Fitting) /\ Pending(todo, AllRequests)
  BY <1>0, AllFit, TodoIsPending DEF Sound
<1>3. AllRequests' = AllRequests
  BY <1>1 DEF AllRequests
<1>4. /\ Added \in Nat /\ Added + 1 \in 1 .. Len(AllRequests) /\ Head(todo) = AllRequests[Added + 1]
      /\ Added' = Added + 1
  BY <1>1, <1>2, <1>3, NextPending DEF Added
<1>5. Head(todo) \in Seq(Word)
  <2>1. Head(todo) \in Fitting
    BY <1>1, <1>2
  <2> QED BY <2>1 DEF Fitting
<1>6. Queued = QueuedBy(file, Added) /\ Queued' = QueuedBy(file, Added + 1)
  BY <1>1, <1>4 DEF Queued, QueuedBy
<1>7. file \in Seq(Word) /\ file = Words(Len(file))
  BY SoundParts DEF FilesOK
<1>8. AllRequests = Requests("push", file)
  BY DEF AllRequests
<1>9. Added + 1 <= Len(Requests("push", file)) /\ Head(todo) = Requests("push", file)[Added + 1]
  BY <1>4, <1>8
<1> DEFINE a == Added
<1>10. a \in Nat
  BY <1>4
<1> HIDE DEF a
<1>11. /\ QueuedBy(file, a) \in Nat /\ QueuedBy(file, a + 1) \in Nat
       /\ a = 0 => Requests("push", file)[1] = Frame("SEND", RequestHeader, Path) /\ QueuedBy(file, 1) = 0
       /\ a >= 1 => Follows(Requests("push", file)[a + 1], RequestHeader, file, "DATA",
                            QueuedBy(file, a), QueuedBy(file, a + 1))
  BY <1>7, <1>9, <1>10, PushOrder DEF a
<1>12. CASE Added = 0
  <2>1. a = 0 /\ Added + 1 = 1
    BY <1>12 DEF a
  <2> QED BY <1>4, <1>5, <1>6, <1>9, <1>11, <1>12, <2>1 DEF a
<1>13. CASE Added # 0
  <2>1. a >= 1
    BY <1>4, <1>13 DEF a
  <2> QED BY <1>4, <1>5, <1>6, <1>9, <1>11, <1>13, <2>1 DEF a
<1> QED BY <1>12, <1>13

(* What the device finds at the head of the requests of a push.            *)
LEMMA PushFirst ==
  ASSUME Sound, PushOK, command = "push", DevParse
  PROVE  /\ dev.st = "wait" => SendFirst /\ dev.in[1].id = "SEND" /\ RequestSize = RequestHeader + PathLen
         /\ dev.st = "push" =>
              /\ dev.in[1].id \in {"FAIL", "DONE", "DATA"}
              /\ dev.in[1].id = "DONE" => Len(dev.file) = Len(file)
              /\ dev.in[1].id = "DATA"
                   => Carries(Up, RequestHeader, file, "DATA", RequestHeader + 1, Len(dev.file),
                              RequestSize - RequestHeader, Queued)
<1>1. /\ RequestSize \in Nat /\ RequestSize >= 2 /\ RequestSize <= Len(Up)
      /\ \A k \in 1 .. RequestSize : Up[k] = dev.in[k]
  BY UpParse
<1>2. Up[1] = dev.in[1] /\ Up[2] = dev.in[2]
  BY <1>1
<1>3. Up \in Seq(Word) /\ dev.file \in Seq(Word) /\ Len(Up) \in Nat /\ Len(Up) >= 1 /\ Len(dev.file) \in Nat
  BY <1>1, SoundParts, LenProperties
<1>4. RequestSize = IF dev.in[1].id = "DONE" THEN 2 ELSE 2 + dev.in[2].size
  BY DEF RequestSize, RequestHeader
<1>5. CASE dev.st = "wait"
  <2>1. Up # <<>>
    BY <1>3
  <2>2. SendFirst
    BY <1>5, <2>1, Zenon DEF PushOK
  <2> QED BY <1>2, <1>4, <1>5, <2>2 DEF SendFirst, RequestHeader
<1>6. CASE dev.st = "push"
  <2>1. /\ Begins(Up, RequestHeader, file, "DATA", 1, Len(dev.file), Queued)
        /\ Chained(Up, RequestHeader, file, "DATA", Queued)
    BY <1>6, Zenon DEF PushOK
  <2>2. RequestHeader \in Nat /\ RequestHeader >= 1 /\ "DATA" \in Entries /\ RequestHeader = 2
    BY DEF RequestHeader, Entries
  <2>3. /\ Up[1].id \in {"FAIL", "DONE", "DATA"}
        /\ Up[1].id = "DONE" => Len(dev.file) = Len(file)
        /\ Up[1].id = "DATA" => Carries(Up, RequestHeader, file, "DATA", RequestHeader + 1, Len(dev.file),
                                        Up[RequestHeader].size, Queued)
    <3>1. Up \in Seq(Word) /\ Len(Up) >= 1 /\ Len(dev.file) \in Nat
      BY <1>3
    <3>2. RequestHeader \in Nat /\ RequestHeader >= 1 /\ "DATA" \in Entries
      BY <2>2
    <3> QED BY <2>1, <3>1, <3>2, FirstFrame, Zenon
  <2>4. dev.in[1].id = "DATA" => RequestSize - RequestHeader = Up[RequestHeader].size
    <3>1. 2 \in 1 .. Len(Up)
      BY <1>1, <1>3
    <3>2. dev.in[2].size \in Nat
      BY <1>2, <1>3, <3>1, WordFields
    <3> HAVE dev.in[1].id = "DATA"
    <3>3. RequestSize = 2 + dev.in[2].size
      BY <1>4
    <3>4. RequestSize - 2 = dev.in[2].size
      BY <3>2, <3>3
    <3> QED BY <1>2, <2>2, <3>4
  <2> QED BY <1>2, <1>6, <2>3, <2>4
<1> QED BY <1>5, <1>6

(* What the device makes of it.                                            *)
Skips == dev.st = "failed" /\ dev'.st = "failed" /\ dev'.file = dev.file

Starts ==
  /\ dev.st = "wait" /\ dev'.st = "push" /\ dev'.file = dev.file
  /\ Begins(Up', RequestHeader, file, "DATA", 1, 0, Queued)

Writes ==
  /\ dev.st = "push" /\ dev'.st = "push"
  /\ dev'.file \in Seq(Word) /\ dev'.file = Words(Len(dev'.file))
  /\ Len(dev.file) < Len(dev'.file) /\ Len(dev'.file) <= Len(file)
  /\ Begins(Up', RequestHeader, file, "DATA", 1, Len(dev'.file), Queued)

Finishes ==
  /\ dev.st = "push" /\ dev'.st = "done" /\ dev'.file = dev.file /\ dev.file = file

LEMMA PushParse ==
  ASSUME Sound, FilesOK, PushOK, command = "push", DevParse
  PROVE  /\ (Skips /\ dev'.out = dev.out) \/ (Starts /\ dev'.out = dev.out)
            \/ (Writes /\ dev'.out = dev.out) \/ Finishes
         /\ Up # <<>> /\ dev'.at = dev.at /\ UNCHANGED <<client, to_dev, to_host>>
         /\ dev.st \in {"wait", "push"} => Chained(Up', RequestHeader, file, "DATA", Queued)
<1>0. Typed
  BY DEF Sound
<1> DEFINE n == RequestSize
           rest == Dropped(dev.in, RequestSize)
           data == SubSeq(dev.in, RequestHeader + 1, n)
<1>1. /\ n \in Nat /\ n >= 2 /\ n <= Len(dev.in) /\ n <= Len(Up)
      /\ dev'.in = rest => Up' = Dropped(Up, n)
      /\ \A k \in 1 .. n : Up[k] = dev.in[k]
  BY UpParse
<1>2. Up \in Seq(Word) /\ dev.in \in Seq(Word) /\ dev.file \in Seq(Word) /\ file \in Seq(Word)
  BY SoundParts
<1>3. RequestHeader \in Nat /\ RequestHeader >= 1 /\ RequestHeader = 2
  BY DEF RequestHeader
<1>4. /\ dev.st \in {"wait", "push", "failed"} /\ UNCHANGED <<client, to_dev, to_host>>
  BY <1>0, ParseEffect
<1>5. Up # <<>>
  BY <1>1, <1>2
<1>6. ASSUME dev'.in = rest, dev.st \in {"wait", "push"}
      PROVE  Chained(Up', RequestHeader, file, "DATA", Queued)
  <2>1. Chained(Up, RequestHeader, file, "DATA", Queued)
    BY <1>6, Zenon DEF PushOK
  <2>2. Up' = Dropped(Up, n)
    BY <1>1, <1>6
  <2> HIDE DEF n
  <2> QED BY <1>1, <1>2, <1>3, <2>1, <2>2, ChainedDrop
<1>7. CASE dev.st = "failed"
  <2>1. DevIs("failed", rest, dev.file, dev.out, dev.ready, dev.at)
    BY <1>0, <1>7, ParseEffect, Zenon
  <2> QED BY <1>4, <1>5, <1>7, <2>1 DEF DevIs, Skips
<1>8. CASE dev.st = "wait"
  <2>1. SendFirst /\ dev.in[1].id = "SEND" /\ n = RequestHeader + PathLen
    BY <1>8, PushFirst
  <2>2. DevIs("push", rest, dev.file, dev.out, dev.ready, dev.at)
    BY <1>0, <1>8, <2>1, ParseEffect
  <2>3. Up' = Dropped(Up, n)
    BY <1>1, <2>2 DEF DevIs
  <2>4. Begins(Up, RequestHeader, file, "DATA", n + 1, 0, Queued)
    BY <2>1 DEF SendFirst
  <2>5. Begins(Dropped(Up, n), RequestHeader, file, "DATA", 1, 0, Queued)
    <3> HIDE DEF n
    <3> QED BY <1>1, <1>2, <1>3, <2>4, BeginsDrop
  <2>6. Starts /\ dev'.out = dev.out /\ dev'.at = dev.at /\ dev'.in = rest
    BY <1>8, <2>2, <2>3, <2>5 DEF Starts, DevIs
  <2> QED BY <1>4, <1>5, <1>6, <1>8, <2>6
<1>9. CASE dev.st = "push" /\ dev.in[1].id = "DATA"
  <2>1. Carries(Up, RequestHeader, file, "DATA", RequestHeader + 1, Len(dev.file), n - RequestHeader, Queued)
    BY <1>9, PushFirst
  <2>2. DevIs("push", rest, dev.file \o data, dev.out, dev.ready, dev.at)
    BY <1>0, <1>9, ParseEffect
  <2>3. Up' = Dropped(Up, n)
    BY <1>1, <2>2 DEF DevIs
  <2> DEFINE m == n - RequestHeader
             len == Len(dev.file)
             k == RequestHeader + 1
  <2>4. /\ m \in Nat /\ m >= 1 /\ len \in Nat /\ len + m <= Len(file)
        /\ WordsAt(Up, k, len, m)
        /\ Begins(Up, RequestHeader, file, "DATA", k + m, len + m, Queued)
    BY <2>1 DEF Carries
  <2>5. k \in Nat /\ k >= 1 /\ n = k - 1 + m /\ k + m = n + 1
    BY <1>1, <1>3
  <2>6. IsCopy(dev.file, len)
    BY <1>2 DEF FilesOK, IsCopy
  <2>7. IsCopy(dev.file \o data, len + m)
    <3>1. StartsWith(Up, dev.in, n)
      BY <1>1 DEF StartsWith
    <3>2. n \in Nat /\ k \in Nat /\ k >= 1 /\ m \in Nat /\ n = k - 1 + m /\ dev.in \in Seq(Word)
      BY <1>1, <1>2, <2>4, <2>5
    <3> HIDE DEF n, k, m, len
    <3> QED BY <2>4, <2>6, <3>1, <3>2, CopyGrows DEF k
  <2>8. Begins(Dropped(Up, n), RequestHeader, file, "DATA", 1, len + m, Queued)
    <3>1. Begins(Up, RequestHeader, file, "DATA", n + 1, len + m, Queued)
      BY <2>4, <2>5
    <3> DEFINE i == len + m
    <3>2. i \in Nat
      BY <2>4
    <3>3. Up \in Seq(Word) /\ n \in Nat /\ n <= Len(Up) /\ RequestHeader \in Nat /\ RequestHeader >= 1
      BY <1>1, <1>2, <1>3
    <3> HIDE DEF n, i
    <3> QED BY <3>1, <3>2, <3>3, BeginsDrop
  <2>9. dev'.file = dev.file \o data /\ dev'.st = "push" /\ dev'.out = dev.out /\ dev'.at = dev.at
        /\ dev'.in = rest
    BY <2>2 DEF DevIs
  <2>10. Len(dev'.file) = len + m /\ len < len + m /\ dev'.file \in Seq(Word)
         /\ dev'.file = Words(Len(dev'.file))
    <3>1. IsCopy(dev'.file, len + m)
      BY <2>7, <2>9, Zenon
    <3>2. len < len + m
      BY <2>4
    <3> QED BY <3>1, <3>2, Zenon DEF IsCopy
  <2>11. Writes
    <3> HIDE DEF n, m, data
    <3> QED BY <1>9, <2>3, <2>4, <2>8, <2>9, <2>10 DEF Writes
  <2> QED BY <1>4, <1>5, <1>6, <1>9, <2>9, <2>11
<1>10. CASE dev.st = "push" /\ dev.in[1].id = "DONE"
  <2>1. Len(dev.file) = Len(file)
    BY <1>10, PushFirst
  <2>2. dev.file = file
    BY <2>1, SameWords DEF FilesOK
  <2>3. DevIs("done", rest, dev.file, Frame("OKAY", 2, <<>>), dev.ready, dev.at)
    BY <1>0, <1>10, ParseEffect
  <2> QED BY <1>4, <1>5, <1>6, <1>10, <2>2, <2>3 DEF DevIs, Finishes
<1>11. dev.st = "push" => dev.in[1].id \in {"FAIL", "DONE", "DATA"}
  BY PushFirst
<1>12. CASE dev.st = "push" /\ dev.in[1].id = "FAIL"
  BY <1>0, <1>12, ParseEffect
<1> QED BY <1>4, <1>7, <1>8, <1>9, <1>10, <1>11, <1>12
-----------------------------------------------------------------------------
(* The device parses what the client has put together, in its order.       *)

(* The other steps of the device leave its file and state, or end with the *)
(* client's CLSE.                                                          *)
LEMMA DevKept ==
  ASSUME Sound, [Next]_vars
  PROVE  \/ Opens \/ DevParse \/ DevAnswer \/ DevFail
         \/ /\ dev'.file = dev.file /\ dev'.at = dev.at
            /\ \/ dev'.st = dev.st
               \/ dev'.st = "closed" /\ pc \in {"closing", "open", "end"} /\ pc' = pc
<1>0. Typed /\ to_dev \in Queue
  BY SoundParts DEF Sound
<1>1. CASE UNCHANGED vars \/ Client
  <2>1. OpenFile \/ dev' = dev
    BY <1>1 DEF vars, Client, Mkdir, FileSize, StatBefore, Fails, FilesyncSend, AddAfterFlush, AddFrame,
                FlushDone, Flushed, BeginRead, FilesyncRead, Flush, FillBuffer, ReadHeader, ReadData,
                SendClse, ReadClse, DropPacket, Timeout
  <2>2. Opens \/ dev' = dev
    BY <2>1, OpenCases DEF Fails
  <2> QED BY <2>2
<1>2. CASE DevReceive
  <2>1. to_dev # <<>> /\ pc' = pc
    BY <1>0, <1>2, ReceiveEffect DEF client
  <2>2. CASE Head(to_dev).cmd = "CLSE"
    <3>1. Has(to_dev, "CLSE")
      BY <1>0, <2>1, <2>2, TailHas
    <3>2. pc \in {"closing", "open", "end"}
      BY <3>1 DEF Sound, QueuesOK, ClosesOK
    <3>3. DevIs("closed", dev.in, dev.file, dev.out, dev.ready, dev.at)
      BY <1>0, <1>2, <2>2, ReceiveEffect
    <3> QED BY <2>1, <3>2, <3>3 DEF DevIs
  <2>3. CASE Head(to_dev).cmd # "CLSE"
    BY <1>0, <1>2, <2>3, ReceiveEffect DEF DevIs
  <2> QED BY <2>2, <2>3
<1>3. CASE DevSend
  BY <1>0, <1>3, SendEffect DEF DevIs
<1> QED BY <1>1, <1>2, <1>3 DEF Next, Device, Ended

LEMMA QueuedKept ==
  ASSUME UNCHANGED <<todo, command, file>>
  PROVE  Queued' = Queued /\ Added' = Added
BY DEF Queued, Added, AllRequests

LEMMA NoWords ==
  ASSUME NEW h, NEW f, NEW e, NEW at
  PROVE  Chained(<<>>, h, f, e, at)
<1>1. 1 .. Len(<<>>) = {}
  OBVIOUS
<1> QED BY <1>1, Zenon DEF Chained

LEMMA EmptyJoin ==
  ASSUME NEW c \in Seq(Word)
  PROVE  <<>> \o c = c /\ c \o <<>> = c
BY ConcatEmptySeq

(* A push of a new file begins with nothing on its way.                    *)
LEMMA UpOpens ==
  ASSUME Opens
  PROVE  /\ Up' = <<>> /\ Down' = <<>> /\ Added' = 0 /\ dev'.st = "wait" /\ dev'.file = <<>>
         /\ dev'.in = <<>> /\ dev'.out = <<>> /\ dev'.at = 0 /\ Load(to_host') = <<>>
<1>1. /\ dev' = DevReady /\ to_dev' = <<>> /\ to_host' = <<>> /\ recv_buffer' = <<>> /\ send_buffer' = <<>>
      /\ todo' = AllRequests'
  BY DEF Opens, AllRequests
<1>2. Load(<<>>) = <<>>
  BY EmptyQueue
<1>3. dev'.st = "wait" /\ dev'.file = <<>> /\ dev'.in = <<>> /\ dev'.out = <<>> /\ dev'.at = 0
  BY <1>1 DEF DevReady
<1>4. Buffered' = <<>>
  BY <1>1 DEF Buffered
<1>5. Up' = Three(<<>>, <<>>, <<>>) /\ Down' = Three(<<>>, <<>>, <<>>)
  BY <1>1, <1>2, <1>3, <1>4, Zenon DEF Up, Down, Three
<1>6. <<>> \o <<>> = <<>>
  BY EmptyWords, EmptyJoin
<1>7. Three(<<>>, <<>>, <<>>) = <<>>
  BY <1>6, Zenon DEF Three
<1>8. Added' = 0
  <2>1. Len(todo') - Len(todo') = 0
    <3>1. todo' = Requests(command, file') /\ file' \in Seq(Word)
      BY DEF Opens
    <3> QED BY <1>1
  <2> QED BY <1>1, <2>1 DEF Added
<1> QED BY <1>1, <1>2, <1>3, <1>5, <1>7, <1>8

LEMMA InitUp ==
  ASSUME Init
  PROVE  Up = <<>> /\ Down = <<>> /\ Added = 0
<1>1. Load(<<>>) = <<>>
  BY EmptyQueue
<1>2. dev.in = <<>> /\ dev.out = <<>>
  BY DEF Init, DevReady
<1>3. Buffered = <<>>
  BY DEF Init, Buffered
<1>4. to_dev = <<>> /\ to_host = <<>> /\ recv_buffer = <<>>
  BY DEF Init
<1>5. Up = Three(<<>>, <<>>, <<>>) /\ Down = Three(<<>>, <<>>, <<>>)
  BY <1>1, <1>2, <1>3, <1>4, Zenon DEF Up, Down, Three
<1>6. <<>> \o <<>> = <<>>
  BY EmptyWords, EmptyJoin
<1>7. Three(<<>>, <<>>, <<>>) = <<>>
  BY <1>6, Zenon DEF Three
<1>8. Added = 0
  <2>1. AllRequests \in Seq(Fitting) /\ todo = AllRequests
    BY InitTyped, AllFit DEF Init, AllRequests
  <2>2. Len(AllRequests) \in Nat
    BY <2>1, LenProperties
  <2> QED BY <2>1, <2>2 DEF Added
<1> QED BY <1>5, <1>7, <1>8

LEMMA InitPush == Init => PushOK
<1> SUFFICES ASSUME Init PROVE PushOK
  OBVIOUS
<1>1. Up = <<>> /\ Added = 0
  BY InitUp
<1>2. dev.st = "wait" /\ dev.file = <<>>
  BY DEF Init, DevReady
<1>3. Chained(Up, RequestHeader, file, "DATA", Queued)
  BY <1>1, NoWords
<1> QED BY <1>1, <1>2, <1>3, Zenon DEF PushOK

(* A frame behind the others.                                              *)
LEMMA PushAdd ==
  ASSUME Sound, FilesOK, PushOK, command = "push", Adds
  PROVE  PushOK'
<1> DEFINE F == Head(todo)
           h == RequestHeader
<1>1. /\ Added \in Nat /\ Added' = Added + 1
      /\ Queued \in Nat /\ Queued' \in Nat /\ F \in Seq(Word)
      /\ Added = 0 => F = Frame("SEND", h, Path) /\ Queued' = 0
      /\ Added # 0 => Follows(F, h, file, "DATA", Queued, Queued')
  BY PushAdds
<1>2. Up' = Up \o F /\ Up \in Seq(Word) /\ dev.file \in Seq(Word)
  BY UpAdd, SoundParts
<1>3. UNCHANGED <<command, file, dev>> /\ pc \in Adding /\ pc' \in Adding
  BY DEF Adds, AddFrame, request, Adding
<1>4. h \in Nat /\ h >= 1 /\ "DATA" \in Entries /\ h = 2 /\ h + PathLen + 1 \in Nat /\ h + PathLen + 1 >= 1
      /\ PathLen \in Nat
  BY PathShape DEF RequestHeader, Entries
<1>5. /\ dev.st # "answer" /\ (Added = 0 <=> dev.st = "wait" /\ Up = <<>>)
      /\ dev.st = "wait" => dev.file = <<>> /\ (Up = <<>> \/ SendFirst)
      /\ dev.st = "push" => Begins(Up, h, file, "DATA", 1, Len(dev.file), Queued)
      /\ dev.st \in {"wait", "push"} => Chained(Up, h, file, "DATA", Queued)
  BY <1>3, Zenon DEF PushOK
<1> HIDE DEF F, h
<1>6. Added' # 0
  BY <1>1
<1>7. CASE Added = 0
  <2>1. F = Frame("SEND", h, Path) /\ Queued' = 0 /\ dev.st = "wait" /\ dev.file = <<>> /\ Up = <<>>
    BY <1>1, <1>5, <1>7
  <2>2. F \in Seq(Word) /\ Len(F) = h + PathLen /\ F[1].id = "SEND" /\ F[2].size = PathLen
        /\ Chained(F, h, file, "DATA", Queued')
    BY <2>1, SendShape DEF h
  <2>3. Up' = F
    BY <1>2, <2>1, <2>2, EmptyJoin
  <2>4. Begins(F, h, file, "DATA", h + PathLen + 1, 0, Queued')
    BY <2>1, <2>2, Zenon DEF Begins
  <2>5. Len(F) >= h + PathLen
    BY <1>4, <2>2
  <2>6. SendFirst' /\ Chained(Up', h, file', "DATA", Queued')
    <3>1. file' = file
      BY <1>3
    <3> QED BY <2>2, <2>3, <2>4, <2>5, <3>1, Zenon DEF SendFirst, h
  <2>7. Up' # <<>>
    BY <1>4, <2>2, <2>3
  <2>8. dev'.st = "wait" /\ dev'.file = <<>>
    BY <1>3, <2>1
  <2> QED BY <1>6, <2>6, <2>7, <2>8, Zenon DEF PushOK, h
<1>8. CASE Added # 0
  <2>1. Follows(F, h, file, "DATA", Queued, Queued') /\ ~(dev.st = "wait" /\ Up = <<>>)
    BY <1>1, <1>5, <1>8
  <2>2. ASSUME dev.st \in {"wait", "push"} PROVE Chained(Up', h, file, "DATA", Queued')
    BY <1>1, <1>2, <1>4, <1>5, <2>1, <2>2, ChainedAppend
  <2>3. ASSUME dev.st = "push" PROVE Begins(Up', h, file, "DATA", 1, Len(dev.file), Queued')
    <3> DEFINE i == Len(dev.file)
    <3>1. i \in Nat /\ 1 \in Nat /\ 1 >= 1 /\ Begins(Up, h, file, "DATA", 1, i, Queued)
      BY <1>2, <1>5, <2>3, LenProperties
    <3> HIDE DEF i
    <3>2. Begins(Up \o F, h, file, "DATA", 1, i, Queued')
      BY <1>1, <1>2, <1>4, <2>1, <3>1, BeginsAppend
    <3> QED BY <1>2, <3>2 DEF i
  <2>4. ASSUME dev.st = "wait" PROVE SendFirst' /\ Up' # <<>>
    <3>1. SendFirst
      BY <1>5, <2>1, <2>4
    <3> DEFINE k == h + PathLen + 1
    <3>2. /\ Len(Up) >= h + PathLen /\ Up[1].id = "SEND" /\ Up[2].size = PathLen
          /\ Begins(Up, h, file, "DATA", k, 0, Queued)
      BY <3>1 DEF SendFirst, h
    <3>3. k \in Nat /\ k >= 1 /\ 0 \in Nat
      BY <1>4
    <3> HIDE DEF k
    <3>4. Begins(Up \o F, h, file, "DATA", k, 0, Queued')
      BY <1>1, <1>2, <1>4, <2>1, <3>2, <3>3, BeginsAppend
    <3>5. Len(Up \o F) = Len(Up) + Len(F) /\ Len(F) \in Nat /\ Len(Up) \in Nat
      BY <1>1, <1>2, Joined
    <3>6. 1 \in 1 .. Len(Up) /\ 2 \in 1 .. Len(Up)
      BY <1>4, <3>2, <3>5
    <3>7. (Up \o F)[1] = Up[1] /\ (Up \o F)[2] = Up[2]
      BY <1>1, <1>2, <3>6, JoinedLeft
    <3> DEFINE M == Up \o F
    <3>8. /\ M[1] = Up[1] /\ M[2] = Up[2] /\ Begins(M, h, file, "DATA", k, 0, Queued')
          /\ Len(M) = Len(Up) + Len(F) /\ Up' = M
      BY <1>2, <3>4, <3>5, <3>7
    <3> HIDE DEF M
    <3>9. Len(M) >= h + PathLen /\ Len(M) >= 1
      BY <1>4, <3>2, <3>5, <3>8
    <3>10. SendFirst'
      BY <1>3, <3>2, <3>8, <3>9 DEF SendFirst, h, k
    <3>11. M # <<>>
      BY <3>9
    <3> QED BY <3>8, <3>10, <3>11
  <2>5. dev' = dev /\ file' = file
    BY <1>3
  <2> QED BY <1>5, <1>6, <2>2, <2>3, <2>4, <2>5, Zenon DEF PushOK, h
<1> QED BY <1>7, <1>8

LEMMA PushNext == Sound /\ FilesOK /\ PushOK /\ [Next]_vars => PushOK'
<1> SUFFICES ASSUME Sound, FilesOK, PushOK, [Next]_vars PROVE PushOK'
  OBVIOUS
<1>0. command' = command
  BY CommandKept
<1>1. CASE command # "push"
  BY <1>0, <1>1, Zenon DEF PushOK
<1>2. CASE command = "push"
  <2>0. Typed
    BY DEF Sound
  <2>1. CASE Adds
    BY <1>2, <2>1, PushAdd
  <2>2. CASE Opens
    <3>1. Up' = <<>> /\ Added' = 0 /\ dev'.st = "wait" /\ dev'.file = <<>>
      BY <2>2, UpOpens
    <3>2. Chained(Up', RequestHeader, file', "DATA", Queued')
      BY <3>1, NoWords
    <3> QED BY <3>1, <3>2, Zenon DEF PushOK
  <2>3. CASE DevParse
    <3>1. /\ Skips \/ Starts \/ Writes \/ Finishes
          /\ Up # <<>> /\ UNCHANGED <<client, to_dev, to_host>>
          /\ dev.st \in {"wait", "push"} => Chained(Up', RequestHeader, file, "DATA", Queued)
      BY <1>2, <2>3, PushParse
    <3>2. UNCHANGED <<pc, todo, command, file>>
      BY <3>1 DEF client
    <3>3. Queued' = Queued /\ Added' = Added
      BY <3>2, QueuedKept
    <3>4. pc \in Adding => Added # 0
      BY <1>2, <3>1, Zenon DEF PushOK
    <3>5. Starts => dev.file = <<>> /\ Len(dev.file) = 0
      BY <1>2 DEF PushOK, Starts
    <3>6. /\ dev'.st \in {"failed", "push", "done"}
          /\ dev'.st = "push" => Begins(Up', RequestHeader, file, "DATA", 1, Len(dev'.file), Queued)
                                 /\ dev.st \in {"wait", "push"}
      BY <3>1, <3>5 DEF Skips, Starts, Writes, Finishes
    <3>7. dev'.st # "wait" /\ dev'.st # "answer" /\ (pc' \in Adding => Added' # 0)
      BY <3>2, <3>3, <3>4, <3>6
    <3> QED BY <3>1, <3>2, <3>3, <3>6, <3>7 DEF PushOK
  <2>4. CASE ~Adds /\ ~Opens /\ ~DevParse
    <3>1. Up' = Up /\ UNCHANGED <<todo, command, file>>
      BY <2>0, <2>4, UpStep, TodoSteps
    <3>2. Queued' = Queued /\ Added' = Added
      BY <3>1, QueuedKept
    <3>3. pc' \in Adding => pc \in Adding
      BY <1>2, <2>4, AddingKept DEF StatBefore, Sound, StepsOK
    <3>4. ~DevAnswer
      BY <1>2 DEF DevAnswer, PushOK
    <3>5. CASE DevFail
      <4>1. dev.st = "push" /\ dev'.st = "failed" /\ dev'.file = dev.file
        BY <1>2, <2>0, <3>5, FailEffect DEF DevIs, PushOK
      <4> QED BY <1>2, <3>1, <3>2, <3>3, <4>1 DEF PushOK
    <3>6. CASE ~DevFail
      <4>1. /\ dev'.file = dev.file
            /\ \/ dev'.st = dev.st
               \/ dev'.st = "closed" /\ pc \in {"closing", "open", "end"} /\ pc' = pc
        BY <2>4, <3>4, <3>6, DevKept
      <4>2. CASE dev'.st = dev.st
        <5>1. SendFirst' <=> SendFirst
          BY <3>1, <3>2 DEF SendFirst
        <5> QED BY <1>2, <3>1, <3>2, <3>3, <4>1, <4>2, <5>1 DEF PushOK
      <4>3. CASE dev'.st = "closed" /\ pc' \in {"closing", "open", "end"}
        BY <4>3 DEF PushOK, Adding
      <4> QED BY <4>1, <4>2, <4>3
    <3> QED BY <3>5, <3>6
  <2> QED BY <2>1, <2>2, <2>3, <2>4
<1> QED BY <1>1, <1>2
-----------------------------------------------------------------------------
(* Nothing is answered before it was asked.                                *)

LEMMA InitAsked == Init => AskedOK
<1> SUFFICES ASSUME Init PROVE AskedOK
  OBVIOUS
<1>1. Up = <<>>
  BY InitUp
<1>2. ~Has(to_dev, "WRTE") /\ ~Has(to_host, "WRTE")
  BY EmptyQueue DEF Init
<1>3. dev.st = "wait" /\ dev.in = <<>> /\ dev.out = <<>> /\ dev.at = 0
  BY DEF Init, DevReady
<1>4. recv_buffer = <<>> /\ got = <<>> /\ pc # "data" /\ pc # "awaitlast"
  BY DEF Init, FirstSteps
<1> QED BY <1>1, <1>2, <1>3, <1>4, Zenon DEF AskedOK, Unanswered

(* The other commands have one request.                                    *)
LEMMA AskAdds ==
  ASSUME Sound, command # "push", Adds
  PROVE  /\ todo' = <<>> /\ Head(todo) \in Seq(Word) /\ Head(todo)[1].id = FirstId
<1>0. Typed
  BY DEF Sound
<1>1. todo # <<>> /\ todo' = Tail(todo)
  BY DEF Adds, AddFrame
<1>2. AllRequests \in Seq(Fitting) /\ todo \in Seq(Fitting) /\ Pending(todo, AllRequests)
  BY <1>0, AllFit, TodoIsPending DEF Sound
<1> DEFINE F == Frame(FirstId, RequestHeader, Path)
<1>3. FirstId \in Ids /\ AllRequests = <<F>>
  <2>1. command \in {"pull", "list", "stat"}
    BY <1>0, TypedParts
  <2> QED BY <2>1 DEF FirstId, Ids, AllRequests, Requests
<1>4. F \in Seq(Word) /\ F[1].id = FirstId
  <2>1. RequestHeader \in Nat /\ RequestHeader >= 2
    BY DEF RequestHeader
  <2>2. IsFrame(F, FirstId, RequestHeader, Path)
    BY <1>3, <2>1, PathShape, FrameShape, Zenon
  <2> QED BY <2>2, Zenon DEF IsFrame
<1> HIDE DEF F
<1> DEFINE a == Len(AllRequests) - Len(todo)
<1>5. /\ a \in Nat /\ a + 1 \in 1 .. Len(AllRequests) /\ Head(todo) = AllRequests[a + 1]
      /\ Len(AllRequests) - Len(Tail(todo)) = a + 1
  BY <1>1, <1>2, NextPending
<1> HIDE DEF a
<1>6. Len(AllRequests) = 1 /\ AllRequests[1] = F
  BY <1>3
<1>7. a = 0
  BY <1>5, <1>6
<1>8. Head(todo) = F
  BY <1>5, <1>6, <1>7
<1>9. Tail(todo) \in Seq(Fitting) /\ Len(Tail(todo)) \in Nat
  BY <1>1, <1>2
<1>10. Len(Tail(todo)) = 0
  BY <1>5, <1>6, <1>7, <1>9
<1> QED BY <1>1, <1>4, <1>8, <1>9, <1>10

(* How the client's steps change the queues.                               *)
LEMMA HasAppend ==
  ASSUME Sound, NEW cmd \in Cmds, NEW data \in Seq(Word), to_dev' = Append(to_dev, Msg(cmd, data))
  PROVE  Has(to_dev', "WRTE") <=> Has(to_dev, "WRTE") \/ cmd = "WRTE"
<1>1. Msg(cmd, data) \in Packet /\ Msg(cmd, data).cmd = cmd
  BY MsgPacket DEF Cmds
<1>2. to_dev \in Queue
  BY SoundParts
<1> QED BY <1>1, <1>2, AppendHas, Zenon

LEMMA HasTail ==
  ASSUME Sound, to_host # <<>>, to_host' = Tail(to_host)
  PROVE  /\ Has(to_host', "WRTE") => Has(to_host, "WRTE")
         /\ Head(to_host).cmd = "WRTE" => Has(to_host, "WRTE")
BY SoundParts, TailHas

LEMMA AskAdd ==
  ASSUME Sound, AskedOK, command # "push", Adds
  PROVE  AskedOK'
<1>1. /\ UNCHANGED <<command, recv_buffer, header, got, to_dev, to_host, dev>>
      /\ pc \in Adding /\ pc' = "add" /\ todo # <<>>
  BY DEF Adds, AddFrame, request, Adding
<1>2. todo' = <<>> /\ Head(todo) \in Seq(Word) /\ Head(todo)[1].id = FirstId
  BY AskAdds
<1>3. Up = <<>>
  BY <1>1, Zenon DEF AskedOK
<1>4. Up' = Head(todo)
  BY <1>2, <1>3, UpAdd, EmptyJoin
<1>5. Up'[1].id = FirstId'
  BY <1>1, <1>2, <1>4 DEF FirstId
<1>6. dev.st = "wait" /\ dev.in = <<>> /\ (Live => Unanswered)
  BY <1>1, Zenon DEF AskedOK
<1>7. Live => Unanswered'
  BY <1>1, <1>6 DEF Unanswered
<1>8. Live
  BY <1>1 DEF Live, Adding
<1> QED BY <1>1, <1>2, <1>5, <1>6, <1>7, <1>8 DEF AskedOK

LEMMA AskClient ==
  ASSUME Sound, AskedOK, command # "push", Client, ~Adds
  PROVE  AskedOK'
<1>0. command' = command /\ FirstId' = FirstId
  BY CommandKept DEF Next, FirstId
<1>1. /\ pc \notin {"mkdir", "open"} /\ ~(left > 0)
      /\ (pc \in {"stat", "header", "data"} => send_buffer = <<>>)
  BY DEF Sound, StepsOK
<1>2. Up' = Up
  BY <1>1, UpClient DEF Opens
<1>3. pc \in {"await", "flushed"} => todo # <<>>
  BY DEF Sound, Typed, IInv
<1>4. send_buffer \in Seq(Word) /\ <<>> \in Seq(Word)
  BY SoundParts, EmptyWords
<1> DEFINE h == Has(to_dev, "WRTE")
<1>5. /\ dev.st # "push"
      /\ dev.st = "wait" => Up = <<>> \/ Up[1].id = FirstId
      /\ pc \in Adding /\ todo # <<>> => Up = <<>>
      /\ Live /\ dev.st = "wait" => Unanswered
      /\ pc \in Adding \cup {"stat"} \/ (pc = "read" /\ send_buffer # <<>>) \/ h
           => dev.in = <<>> /\ dev.st = "wait"
      /\ pc = "awaitlast" /\ ~h => to_host # <<>> /\ Head(to_host).cmd = "OKAY"
  BY Zenon DEF AskedOK
<1>6. CASE FilesyncSend \/ AddAfterFlush
  <2>1. Flush("await") /\ pc = "add" /\ todo # <<>>
    BY <1>3, <1>6 DEF FilesyncSend, AddAfterFlush, Adds
  <2>2. Has(to_dev', "WRTE") /\ UNCHANGED <<to_host, dev, recv_buffer, got>> /\ pc' = "await" /\ todo' = todo
    BY <1>4, <2>1, HasAppend DEF Flush, Cmds
  <2> QED BY <1>0, <1>2, <1>5, <2>1, <2>2 DEF AskedOK, Unanswered, Adding, Live
<1>7. CASE FlushDone
  <2>1. /\ to_host # <<>> /\ to_host' = Tail(to_host)
        /\ UNCHANGED <<to_dev, dev, recv_buffer, got, todo>> /\ pc \in {"await", "awaitlast"}
        /\ pc' = IF pc = "await" THEN "flushed" ELSE "header"
    BY <1>7 DEF FlushDone, Flushed
  <2>2. Has(to_host', "WRTE") => Has(to_host, "WRTE")
    BY <2>1, HasTail
  <2> QED BY <1>0, <1>2, <1>5, <2>1, <2>2 DEF AskedOK, Unanswered, Adding, Live
<1>8. CASE BeginRead \/ (FilesyncRead /\ send_buffer = <<>>)
  <2>1. /\ UNCHANGED <<to_dev, to_host, dev, recv_buffer, got, todo, send_buffer>>
        /\ (pc = "add" /\ pc' = "read") \/ (pc = "read" /\ pc' = "header")
    BY <1>8 DEF BeginRead, FilesyncRead
  <2> QED BY <1>0, <1>2, <1>5, <2>1 DEF AskedOK, Unanswered, Adding, Live
<1>9. CASE FilesyncRead /\ send_buffer # <<>>
  <2>1. Flush("awaitlast") /\ pc = "read"
    BY <1>9 DEF FilesyncRead
  <2>2. Has(to_dev', "WRTE") /\ UNCHANGED <<to_host, dev, recv_buffer, got>> /\ pc' = "awaitlast"
    BY <1>4, <2>1, HasAppend DEF Flush, Cmds
  <2> QED BY <1>0, <1>2, <1>5, <1>9, <2>1, <2>2 DEF AskedOK, Unanswered, Adding, Live
<1>10. CASE FillBuffer
  <2>1. /\ to_host # <<>> /\ to_host' = Tail(to_host) /\ Head(to_host).cmd = "WRTE"
        /\ to_dev' = Append(to_dev, Msg("OKAY", <<>>))
        /\ dev' = dev /\ pc' = pc /\ pc \in {"header", "data"}
    BY <1>10 DEF FillBuffer
  <2>2. (Has(to_dev', "WRTE") <=> h) /\ Has(to_host, "WRTE")
    BY <1>4, <2>1, HasAppend, HasTail DEF Cmds
  <2>3. dev.st # "wait"
    BY <1>5, <2>1, <2>2 DEF Unanswered, Live
  <2> QED BY <1>5, <2>1, <2>2, <2>3 DEF AskedOK, Adding
<1>11. CASE ReadHeader \/ ReadData
  <2>1. /\ dev' = dev /\ to_dev' = to_dev /\ send_buffer' = send_buffer
        /\ pc \in {"header", "data"} /\ pc' \in {"read", "data", "clse", "end"}
    BY <1>11 DEF ReadHeader, ReadData, HandleFrame, Handle
  <2>2. pc = "data" \/ recv_buffer # <<>>
    <3>1. CASE ReadHeader
      <4>1. Len(recv_buffer) >= AnswerHeader
        BY <3>1 DEF ReadHeader, Needed
      <4>2. AnswerHeader \in Nat /\ AnswerHeader >= 2 /\ recv_buffer \in Seq(Word)
        BY SoundParts
      <4>3. recv_buffer # <<>>
        BY <4>1, <4>2
      <4> QED BY <4>3
    <3> QED BY <1>11, <3>1 DEF ReadData
  <2>3. dev.st # "wait"
    BY <1>5, <2>1, <2>2 DEF Unanswered, Live
  <2> QED BY <1>1, <1>5, <2>1, <2>3 DEF AskedOK, Adding
<1>12. CASE SendClse
  <2>1. /\ to_dev' = Append(to_dev, Msg("CLSE", <<>>)) /\ dev' = dev /\ pc' = "closing"
    BY <1>12 DEF SendClse
  <2>2. Has(to_dev', "WRTE") <=> h
    BY <1>4, <2>1, HasAppend DEF Cmds
  <2> QED BY <1>0, <1>2, <1>5, <2>1, <2>2 DEF AskedOK, Adding, Live
<1>13. CASE ReadClse \/ Timeout
  <2>1. dev' = dev /\ to_dev' = to_dev /\ pc' \in {"clse", "end"}
    BY <1>1, <1>13 DEF ReadClse, Timeout
  <2> QED BY <1>0, <1>2, <1>5, <2>1 DEF AskedOK, Adding, Live
<1>14. CASE DropPacket
  <2>1. /\ to_host # <<>> /\ to_host' = Tail(to_host) /\ Head(to_host).cmd \notin Expected
        /\ UNCHANGED <<client, to_dev, dev>>
    BY <1>14 DEF DropPacket
  <2>2. Has(to_host', "WRTE") => Has(to_host, "WRTE")
    BY <2>1, HasTail
  <2>3. pc = "awaitlast" => Head(to_host).cmd # "OKAY"
    BY <2>1 DEF Expected
  <2>4. UNCHANGED <<pc, todo, send_buffer, recv_buffer, got>>
    BY <2>1 DEF client
  <2>5. ~(pc = "awaitlast" /\ ~h)
    BY <1>5, <2>3
  <2> QED BY <1>0, <1>2, <1>5, <2>1, <2>2, <2>4, <2>5 DEF AskedOK, Unanswered, Live
<1>15. CASE StatBefore
  <2>1. /\ pc = "stat" /\ pc' \in {"add", "clse"}
        /\ UNCHANGED <<todo, send_buffer, recv_buffer, got, to_dev, to_host, dev>>
    BY <1>15 DEF StatBefore, Fails
  <2>2. Up = <<>>
    <3>1. dev.in = <<>> /\ send_buffer = <<>>
      BY <1>1, <1>5, <2>1
    <3>2. ~h
      BY <2>1 DEF Sound, QueuesOK, FlushesOK
    <3>3. Load(to_dev) = <<>> /\ Buffered = <<>>
      BY <3>1, <3>2, NoLoad DEF Buffered
    <3>4. Up = Three(<<>>, <<>>, <<>>)
      BY <3>1, <3>3, Zenon DEF Up, Three
    <3>5. <<>> \o <<>> = <<>>
      BY EmptyWords, EmptyJoin
    <3> QED BY <3>4, <3>5, Zenon DEF Three
  <2> QED BY <1>0, <1>2, <1>5, <2>1, <2>2 DEF AskedOK, Unanswered, Adding, Live
<1>16. ~Mkdir /\ ~OpenFile /\ ~FileSize
  BY <1>1 DEF Mkdir, OpenFile, FileSize
<1> QED BY <1>6, <1>7, <1>8, <1>9, <1>10, <1>11, <1>12, <1>13, <1>14, <1>15, <1>16 DEF Client, FilesyncRead
-----------------------------------------------------------------------------
LEMMA UpEmpty == Sound /\ Up = <<>> => dev.in = <<>>
<1> SUFFICES ASSUME Sound, Up = <<>> PROVE dev.in = <<>>
  OBVIOUS
<1>1. /\ dev.in \in Seq(Word) /\ Load(to_dev) \in Seq(Word) /\ Buffered \in Seq(Word)
      /\ Up = Three(dev.in, Load(to_dev), Buffered)
  BY SoundParts
<1>2. Len(Up) = Len(dev.in) + Len(Load(to_dev)) + Len(Buffered)
  <2>1. Len(Three(dev.in, Load(to_dev), Buffered))
          = Len(dev.in) + Len(Load(to_dev)) + Len(Buffered)
    BY <1>1, ThreeWords, Zenon
  <2> QED BY <1>1, <2>1, Zenon
<1>3. Len(dev.in) \in Nat /\ Len(Load(to_dev)) \in Nat /\ Len(Buffered) \in Nat /\ Len(Up) = 0
  BY <1>1, LenProperties
<1> DEFINE a == Len(dev.in)
           b == Len(Load(to_dev))
           c == Len(Buffered)
<1>4. a \in Nat /\ b \in Nat /\ c \in Nat /\ 0 = a + b + c
  BY <1>2, <1>3, Zenon
<1> HIDE DEF a, b, c
<1>5. a = 0
  BY <1>4
<1>6. Len(dev.in) = 0
  BY <1>5 DEF a
<1> QED BY <1>1, <1>6

LEMMA NoPackets ==
  ASSUME NEW q \in Queue, ~Has(q, "WRTE"), ~Has(q, "OKAY"), ~Has(q, "CLSE")
  PROVE  q = <<>>
<1> SUFFICES ASSUME q # <<>> PROVE FALSE
  OBVIOUS
<1>1. 1 \in 1 .. Len(q)
  BY LenProperties DEF Queue
<1>2. q[1] \in Packet
  BY <1>1, QueueFields
<1>3. q[1].cmd \in {"WRTE", "OKAY", "CLSE"}
  BY <1>2 DEF Packet
<1> QED BY <1>1, <1>3, Zenon DEF Has

LEMMA HeadAppend ==
  ASSUME NEW q \in Queue, NEW m \in Packet
  PROVE  /\ Append(q, m) # <<>>
         /\ Head(Append(q, m)) = IF q = <<>> THEN m ELSE Head(q)
<1> DEFINE r == Append(q, m)
<1>1. r \in Seq(Packet) /\ Len(q) \in Nat /\ Len(r) = Len(q) + 1 /\ r[Len(q) + 1] = m
  BY AppendProperties DEF Queue
<1>2. \A j \in 1 .. Len(q) : r[j] = q[j]
  BY AppendProperties DEF Queue
<1> HIDE DEF r
<1>3. r # <<>> /\ Head(r) = r[1]
  BY <1>1
<1>4. CASE q = <<>>
  <2>1. Len(q) = 0
    BY <1>4
  <2> QED BY <1>1, <1>3, <1>4, <2>1 DEF r
<1>5. CASE q # <<>>
  <2>1. 1 \in 1 .. Len(q) /\ Head(q) = q[1]
    BY <1>1, <1>5 DEF Queue
  <2> QED BY <1>2, <1>3, <1>5, <2>1 DEF r
<1> QED BY <1>4, <1>5

LEMMA AskReceive ==
  ASSUME Sound, AskedOK, command # "push", DevReceive
  PROVE  AskedOK'
<1>0. Typed /\ to_dev \in Queue /\ to_host \in Queue
  BY SoundParts DEF Sound
<1>1. to_dev # <<>> /\ to_dev' = Tail(to_dev) /\ UNCHANGED client /\ Up' = Up
  BY <1>0, ReceiveEffect, UpReceive
<1>2. UNCHANGED <<command, pc, todo, send_buffer, recv_buffer, got>> /\ FirstId' = FirstId
  BY <1>1 DEF client, FirstId
<1> DEFINE m == Head(to_dev)
<1>3. /\ Has(to_dev, "WRTE") <=> Has(to_dev', "WRTE") \/ m.cmd = "WRTE"
      /\ m.cmd = "WRTE" => ~Has(to_dev', "WRTE")
      /\ m.cmd = "CLSE" => Has(to_dev, "CLSE")
  BY <1>0, <1>1, TailHas DEF Sound, QueuesOK, FlushesOK
<1> HIDE DEF m
<1>4. Live /\ dev.st = "wait" => Unanswered
  BY Zenon DEF AskedOK
<1>5. CASE m.cmd = "WRTE"
  <2>1. /\ to_host' = Append(to_host, Msg("OKAY", <<>>)) /\ dev'.out = dev.out /\ dev'.at = dev.at
        /\ dev'.st = dev.st
    BY <1>0, <1>5, ReceiveEffect DEF m, DevIs
  <2>2. pc \in {"await", "awaitlast"} /\ ~Has(to_host, "OKAY")
    BY <1>3, <1>5 DEF Sound, QueuesOK, FlushesOK
  <2>3. dev.st = "wait" /\ Unanswered
    BY <1>3, <1>4, <1>5, <2>2 DEF AskedOK, Live
  <2>4. to_host = <<>>
    <3>1. ~Has(to_host, "CLSE") /\ ~Has(to_host, "WRTE")
      BY <2>2, <2>3 DEF Sound, QueuesOK, ClosesOK, Unanswered
    <3> QED BY <1>0, <2>2, <3>1, NoPackets
  <2>5. to_host' # <<>> /\ Head(to_host').cmd = "OKAY" /\ ~Has(to_host', "WRTE")
    BY <1>0, <2>1, <2>3, <2>4, OkayPacket, HeadAppend, AppendHas DEF Unanswered
  <2>6. pc = "await" => dev'.in = <<>>
    <3>1. (Sound /\ Up = <<>> => dev.in = <<>>)'
      BY UpEmpty, PTL
    <3>2. pc = "await" => Up = <<>>
      BY <1>0 DEF AskedOK, Typed, IInv, Adding
    <3>3. Sound'
      BY SoundNext DEF Next, Device
    <3> QED BY <1>1, <3>1, <3>2, <3>3
  <2>7. Unanswered'
    BY <1>2, <2>1, <2>3, <2>5 DEF Unanswered
  <2> QED BY <1>1, <1>2, <1>3, <1>5, <2>1, <2>2, <2>3, <2>5, <2>6, <2>7 DEF AskedOK, Adding
<1>6. CASE m.cmd = "OKAY"
  <2>1. to_host' = to_host /\ DevIs(dev.st, dev.in, dev.file, dev.out, TRUE, dev.at)
    BY <1>0, <1>6, ReceiveEffect DEF m
  <2>2. dev'.st = dev.st /\ dev'.in = dev.in /\ dev'.out = dev.out /\ dev'.at = dev.at
    BY <2>1 DEF DevIs
  <2>3. Unanswered' <=> Unanswered
    BY <1>2, <2>1, <2>2 DEF Unanswered
  <2> QED BY <1>1, <1>2, <1>3, <1>6, <2>1, <2>2, <2>3 DEF AskedOK, Live
<1>7. CASE m.cmd = "CLSE"
  <2>1. pc \in {"closing", "open", "end"} /\ dev'.st = "closed"
    BY <1>0, <1>3, <1>7, ReceiveEffect DEF m, DevIs, Sound, QueuesOK, ClosesOK
  <2>2. ~Has(to_dev', "WRTE")
    BY <1>3, <2>1 DEF Sound, QueuesOK, FlushesOK
  <2> QED BY <1>2, <2>1, <2>2 DEF AskedOK, Adding
<1> QED BY <1>0, <1>5, <1>6, <1>7, ReceiveEffect, Zenon DEF m

LEMMA AskParse ==
  ASSUME Sound, AskedOK, command # "push", DevParse
  PROVE  /\ dev.st = "wait" => dev.in[1].id = FirstId
         /\ dev'.st \in {"answer", "done", "failed"}
         /\ AskedOK'
<1>0. Typed
  BY DEF Sound
<1>1. /\ dev.st \in {"wait", "push", "failed"} /\ UNCHANGED <<client, to_dev, to_host>>
      /\ RequestSize \in Nat /\ RequestSize >= 2 /\ RequestSize <= Len(dev.in)
  BY <1>0, ParseEffect
<1>2. Up[1] = dev.in[1] /\ Up # <<>>
  <2>1. \A k \in 1 .. RequestSize : Up[k] = dev.in[k]
    BY UpParse
  <2>2. 1 \in 1 .. RequestSize /\ RequestSize <= Len(Up) /\ Up \in Seq(Word)
    BY <1>1, UpParse, SoundParts
  <2>3. Up # <<>>
    BY <1>1, <2>2
  <2> QED BY <2>1, <2>2, <2>3
<1>3. dev.st # "push" /\ (dev.st = "wait" => dev.in[1].id = FirstId)
  BY <1>2 DEF AskedOK
<1>4. FirstId \in {"RECV", "LIST", "STAT"}
  BY <1>0, TypedParts DEF FirstId
<1>5. dev'.st \in {"answer", "done", "failed"}
  BY <1>0, <1>1, <1>3, <1>4, ParseEffect DEF DevIs, Refused
<1>6. dev.in # <<>>
  <2>1. dev.in \in Seq(Word)
    BY SoundParts
  <2> QED BY <1>1, <2>1
<1>7. UNCHANGED <<command, pc, todo, send_buffer>>
  BY <1>1 DEF client
<1>8. AskedOK'
  BY <1>1, <1>2, <1>5, <1>6, <1>7 DEF AskedOK
<1> QED BY <1>3, <1>5, <1>8

LEMMA AskDevice ==
  ASSUME Sound, AskedOK, command # "push", Device \/ DevFail
  PROVE  AskedOK'
<1>0. Typed /\ to_host \in Queue /\ Sound
  BY SoundParts DEF Sound
<1>1. CASE DevAnswer \/ DevFail
  <2>1. /\ dev.st \in {"answer", "push"} /\ dev'.st \in {"answer", "done", "failed"}
        /\ UNCHANGED <<client, to_dev, to_host>> /\ dev'.in = dev.in
    BY <1>0, <1>1, AnswerEffect, FailEffect DEF DevIs
  <2>2. Up' = Up
    BY <2>1, Zenon DEF Up, client, Buffered
  <2>3. UNCHANGED <<command, pc, todo, send_buffer>>
    BY <2>1 DEF client
  <2> QED BY <2>1, <2>2, <2>3 DEF AskedOK
<1>2. CASE DevSend
  <2>1. dev.ready /\ UNCHANGED <<client, to_dev>>
    BY <1>0, <1>2, SendEffect
  <2>2. PICK k \in 1 .. Len(dev.out) :
          /\ SubSeq(dev.out, 1, k) \in Seq(Word)
          /\ to_host' = Append(to_host, Msg("WRTE", SubSeq(dev.out, 1, k)))
          /\ dev'.st = dev.st /\ dev'.in = dev.in
    BY <1>0, <1>2, SendEffect, Zenon DEF DevIs
  <2>3. to_host' # <<>> /\ (to_host # <<>> => Head(to_host') = Head(to_host))
    BY <1>0, <2>2, MsgPacket, HeadAppend
  <2>4. ~(Live /\ dev.st = "wait")
    <3> SUFFICES ASSUME Live, dev.st = "wait" PROVE FALSE
      OBVIOUS
    <3>1. dev.out = <<>>
      BY DEF AskedOK, Unanswered
    <3> QED BY <2>2, <3>1
  <2>5. Up' = Up
    BY <2>1, <2>2, Zenon DEF Up, client, Buffered
  <2>6. UNCHANGED <<command, pc, todo, send_buffer>> /\ FirstId' = FirstId
    BY <2>1 DEF client, FirstId
  <2> QED BY <2>1, <2>2, <2>3, <2>4, <2>5, <2>6 DEF AskedOK, Live
<1> QED BY <1>1, <1>2, AskReceive, AskParse DEF Device

LEMMA AskedNext == Sound /\ AskedOK /\ [Next]_vars => AskedOK'
<1> SUFFICES ASSUME Sound, AskedOK, [Next]_vars PROVE AskedOK'
  OBVIOUS
<1>1. command' = command
  BY CommandKept
<1>2. CASE command = "push"
  BY <1>1, <1>2 DEF AskedOK
<1>3. CASE command # "push" /\ UNCHANGED vars
  BY <1>3, Zenon DEF vars, client, AskedOK, Up, Buffered, Unanswered, FirstId, Live
<1>4. CASE command # "push" /\ ~UNCHANGED vars
  BY <1>4, AskAdd, AskClient, AskDevice DEF Next, Ended
<1> QED BY <1>2, <1>3, <1>4
-----------------------------------------------------------------------------
(* The client parses what the device has put together, in its order.       *)

Answered == command \in {"pull", "list"}

LEMMA AnswerNames ==
  ASSUME Answered
  PROVE  /\ Goes = {Entry} /\ Finish = {"DONE"} /\ Entry \in Entries /\ Entry # "FAIL" /\ Entry # "DONE"
         /\ Entry # "STAT" /\ command # "push" /\ command # "stat"
         /\ FirstId \in {"RECV", "LIST"}
BY DEF Answered, Goes, Finish, Entry, Entries, FirstId

LEMMA InitAnswer == Init => AnswerOK
<1> SUFFICES ASSUME Init PROVE AnswerOK
  OBVIOUS
<1>1. Down = <<>>
  BY InitUp
<1>2. got = <<>> /\ pc # "data" /\ outcome = "none" /\ dev.at = 0
  BY DEF Init, FirstSteps, DevReady
<1>3. Chained(Down, AnswerHeader, file, Entry, dev.at)
  BY <1>1, NoWords
<1>4. Len(Down) = 0 /\ Len(got) = 0
  BY <1>1, <1>2
<1>5. Begins(Down, AnswerHeader, file, Entry, 1, Len(got), dev.at)
  BY <1>2, <1>4 DEF Begins
<1> QED BY <1>2, <1>3, <1>5, Zenon DEF AnswerOK

(* No word of an answer is dropped before the command is over.             *)
LEMMA NothingLoses ==
  ASSUME Sound, AskedOK, command # "push", Loses
  PROVE  ~Live
<1>1. to_host # <<>> /\ Head(to_host).cmd = "WRTE" /\ Waiting /\ Head(to_host).cmd \notin Expected
  BY DEF Loses, DropPacket
<1>2. Has(to_host, "WRTE")
  BY <1>1, SoundParts, TailHas
<1>3. pc \in {"await", "awaitlast", "closing"}
  BY <1>1 DEF Waiting, Expected
<1> SUFFICES ASSUME Live PROVE FALSE
  OBVIOUS
<1>4. dev.st # "wait"
  BY <1>2 DEF AskedOK, Unanswered
<1>5. pc = "awaitlast" /\ ~Has(to_dev, "WRTE")
  BY <1>3, <1>4 DEF AskedOK, Adding, Live
<1> QED BY <1>1, <1>5 DEF AskedOK

LEMMA AnswerMore ==
  ASSUME Sound, AnswerOK, Answered, UNCHANGED client, NEW F \in Seq(Word), dev'.at \in Nat,
         Live => /\ Follows(F, AnswerHeader, file, Entry, dev.at, dev'.at)
                 /\ Down' = Down \o F
  PROVE  AnswerOK'
<1> DEFINE h == AnswerHeader
           e == Entry
           at == dev.at
           next == dev'.at
           i == Len(got)
<1>1. /\ UNCHANGED <<command, file, pc, header, got, outcome>>
      /\ AnswerHeader' = h /\ Entry' = e /\ (Live' <=> Live)
  BY DEF client, AnswerHeader, Entry, Live
<1>2. h \in Nat /\ h >= 2 /\ at \in Nat /\ next \in Nat /\ Down \in Seq(Word) /\ got \in Seq(Word)
  BY SoundParts
<1>3. h >= 1 /\ e \in Entries /\ i \in Nat
  BY <1>2, AnswerNames, LenProperties
<1>4. CASE ~Live
  BY <1>1, <1>4 DEF AnswerOK
<1>5. CASE Live
  <2>1. /\ Follows(F, h, file, e, at, next) /\ Down' = Down \o F
        /\ Chained(Down, h, file, e, at)
        /\ pc # "data" => Begins(Down, h, file, e, 1, i, at)
        /\ pc = "data" /\ header.id = e => Carries(Down, h, file, e, 1, i, header.size, at)
        /\ pc = "data" /\ header.id = "DONE" => got = file
        /\ outcome # "ok"
    BY <1>5 DEF AnswerOK, Answered
  <2>2. 1 \in Nat /\ 1 >= 1
    OBVIOUS
  <2> HIDE DEF h, e, at, next, i
  <2>3. Chained(Down', h, file, e, next)
    BY <1>2, <1>3, <2>1, ChainedAppend
  <2>4. pc # "data" => Begins(Down', h, file, e, 1, i, next)
    BY <1>2, <1>3, <2>1, <2>2, BeginsAppend
  <2>5. pc = "data" /\ header.id = e => Carries(Down', h, file, e, 1, i, header.size, next)
    BY <1>2, <1>3, <2>1, <2>2, CarriesAppend
  <2> QED BY <1>1, <2>1, <2>3, <2>4, <2>5, Zenon DEF AnswerOK, h, e, next, i
<1> QED BY <1>4, <1>5

(* A step that reads no word, or ends the command.                         *)
Waits ==
  /\ UNCHANGED <<command, file, header, got>>
  /\ outcome' # "ok" \/ outcome' = outcome
  /\ Live' => Live /\ (pc' = "data" <=> pc = "data")

LEMMA AnswerKept ==
  ASSUME AnswerOK, Waits, Live' => Down' = Down /\ dev'.at = dev.at
  PROVE  AnswerOK'
<1>1. Entry' = Entry /\ AnswerHeader' = AnswerHeader
  BY DEF Entry, AnswerHeader, Waits
<1>2. UNCHANGED <<command, file, header, got>> /\ (outcome' = "ok" => outcome = "ok")
  BY DEF Waits
<1>3. CASE ~Live'
  BY <1>2, <1>3 DEF AnswerOK
<1>4. CASE Live'
  <2>1. Live /\ (pc' = "data" <=> pc = "data") /\ Down' = Down /\ dev'.at = dev.at
    BY <1>4 DEF Waits
  <2> QED BY <1>1, <1>2, <2>1 DEF AnswerOK
<1> QED BY <1>3, <1>4

LEMMA ReadHeaderAnswer ==
  ASSUME Sound, FilesOK, AnswerOK, Answered, ReadHeader
  PROVE  AnswerOK'
<1> DEFINE h == AnswerHeader
           e == Entry
           at == dev.at
           i == Len(got)
           n == Needed
<1>1. /\ header' = [id |-> recv_buffer[1].id, size |-> recv_buffer[AnswerHeader].size]
      /\ pc = "header" /\ pc' = "data"
      /\ UNCHANGED <<command, file, got, outcome, dev>>
  BY DEF ReadHeader, request
<1>2. AnswerHeader' = h /\ Entry' = e
  BY <1>1 DEF AnswerHeader, Entry
<1>3. h \in Nat /\ h >= 2 /\ h >= 1 /\ Down \in Seq(Word) /\ got \in Seq(Word) /\ i \in Nat /\ file \in Seq(Word)
  BY SoundParts, LenProperties
<1>4. e \in Entries /\ e # "DONE" /\ e # "FAIL"
  BY AnswerNames
<1>5. /\ Down' = Dropped(Down, h) /\ h <= Len(Down) /\ \A k \in 1 .. h : Down[k] = recv_buffer[k]
  <2>1. Needed = h
    BY <1>1 DEF Needed
  <2> QED BY <2>1, DownRead
<1>6. header'.id = Down[1].id /\ header'.size = Down[h].size
  <2>1. 1 \in 1 .. h /\ h \in 1 .. h
    BY <1>3
  <2>2. Down[1] = recv_buffer[1] /\ Down[h] = recv_buffer[h]
    BY <1>5, <2>1
  <2> QED BY <1>1, <2>2
<1>7. /\ Chained(Down, h, file, e, at) /\ Begins(Down, h, file, e, 1, i, at)
      /\ (outcome = "ok" => FALSE)
  BY <1>1 DEF AnswerOK, Answered, Live
<1> HIDE DEF h, e, at, i
<1>8. Len(Down) \in Nat /\ Len(Down) >= 1
  BY <1>3, <1>5, LenProperties
<1>9. /\ Down[1].id \in {"FAIL", "DONE", e}
      /\ Down[1].id = "DONE" => i = Len(file)
      /\ Down[1].id = e => Carries(Down, h, file, e, h + 1, i, Down[h].size, at)
  BY <1>3, <1>4, <1>7, <1>8, FirstFrame
<1>10. Chained(Down', h, file, e, at)
  BY <1>3, <1>5, <1>7, ChainedDrop
<1>11. ASSUME header'.id = e PROVE Carries(Down', h, file, e, 1, i, header'.size, at)
  <2> DEFINE m == Down[h].size
  <2>1. Carries(Down, h, file, e, h + 1, i, m, at) /\ header'.size = m
    BY <1>6, <1>9, <1>11
  <2>2. 1 \in Nat /\ 1 >= 1
    OBVIOUS
  <2> HIDE DEF m
  <2>3. Carries(Dropped(Down, h), h, file, e, 1, i, m, at)
    BY <1>3, <1>5, <2>1, <2>2, CarriesDrop
  <2> QED BY <1>5, <2>1, <2>3
<1>12. ASSUME header'.id = "DONE" PROVE got = file
  <2>1. Len(got) = Len(file)
    BY <1>6, <1>9, <1>12 DEF i
  <2> QED BY <2>1, SameWords DEF FilesOK
<1> QED BY <1>1, <1>2, <1>7, <1>10, <1>11, <1>12 DEF AnswerOK, h, e, at, i

(* The data of a frame is what the copy lacks.                             *)
LEMMA GotGrows ==
  ASSUME Sound, FilesOK, AnswerOK, Answered, ReadData, header.id \in Goes
  PROVE  /\ got' \in Seq(Word) /\ got' = Words(Len(got')) /\ Len(got') <= Len(file)
         /\ Begins(Down', AnswerHeader, file, Entry, 1, Len(got'), dev.at)
         /\ Chained(Down', AnswerHeader, file, Entry, dev.at)
<1> DEFINE h == AnswerHeader
           e == Entry
           at == dev.at
           i == Len(got)
           n == Needed
           data == SubSeq(recv_buffer, 1, Needed)
<1>1. pc = "data" /\ header.id = e /\ e # "STAT" /\ e # "DONE" /\ e \in Entries
  BY AnswerNames DEF ReadData
<1>2. n = header.size
  BY <1>1 DEF Needed
<1>3. /\ Chained(Down, h, file, e, at)
      /\ Carries(Down, h, file, e, 1, i, n, at)
  BY <1>1, <1>2, Zenon DEF AnswerOK, Live, Answered
<1>4. /\ Down' = Dropped(Down, n) /\ n \in Nat /\ n <= Len(recv_buffer) /\ n <= Len(Down)
      /\ \A k \in 1 .. n : Down[k] = recv_buffer[k]
  BY DownRead
<1>5. h \in Nat /\ h >= 1 /\ Down \in Seq(Word) /\ got \in Seq(Word) /\ i \in Nat
      /\ recv_buffer \in Seq(Word) /\ file \in Seq(Word)
  BY SoundParts, LenProperties
<1>6. got' = got \o data
  <2>1. Handle(header.id, data, {"pull"})
    BY DEF ReadData, HandleFrame
  <2>2. header.id \notin Finish
    BY <1>1, AnswerNames
  <2> QED BY <2>1, <2>2 DEF Handle
<1> HIDE DEF h, e, at, i, n
<1>7. /\ WordsAt(Down, 1, i, n) /\ Begins(Down, h, file, e, 1 + n, i + n, at) /\ i + n <= Len(file)
  BY <1>3 DEF Carries
<1>8. IsCopy(got \o data, i + n)
  <2>1. StartsWith(Down, recv_buffer, n) /\ IsCopy(got, i)
    BY <1>4, <1>5 DEF StartsWith, FilesOK, IsCopy, i
  <2>2. 1 \in Nat /\ 1 >= 1 /\ n = 1 - 1 + n
    BY <1>4
  <2>3. IsCopy(got \o SubSeq(recv_buffer, 1, n), i + n)
    BY <1>4, <1>5, <1>7, <2>1, <2>2, CopyGrows
  <2> QED BY <2>3 DEF n
<1>9. got' \in Seq(Word) /\ got' = Words(Len(got')) /\ Len(got') = i + n
  BY <1>6, <1>8, Zenon DEF IsCopy
<1>10. Chained(Down', h, file, e, at)
  BY <1>3, <1>4, <1>5, ChainedDrop
<1>11. Begins(Down', h, file, e, 1, i + n, at)
  <2> DEFINE j == i + n
  <2>1. j \in Nat /\ 1 \in Nat /\ 1 >= 1 /\ Begins(Down, h, file, e, n + 1, j, at)
    <3>1. 1 + n = n + 1
      BY <1>4
    <3> QED BY <1>4, <1>5, <1>7, <3>1
  <2> HIDE DEF j
  <2>2. Begins(Dropped(Down, n), h, file, e, 1, j, at)
    BY <1>4, <1>5, <2>1, BeginsDrop
  <2> QED BY <1>4, <2>2 DEF j
<1> QED BY <1>7, <1>9, <1>10, <1>11 DEF h, e, at

LEMMA ReadDataAnswer ==
  ASSUME Sound, FilesOK, AnswerOK, Answered, ReadData
  PROVE  AnswerOK'
<1>1. UNCHANGED <<command, file, header, dev>> /\ pc = "data"
  BY DEF ReadData, request
<1>2. AnswerHeader' = AnswerHeader /\ Entry' = Entry
  BY <1>1 DEF AnswerHeader, Entry
<1>3. outcome # "ok" /\ (header.id = "DONE" => got = file)
  BY <1>1 DEF AnswerOK, Answered, Live
<1>4. Handle(header.id, SubSeq(recv_buffer, 1, Needed), {"pull"})
  BY DEF ReadData, HandleFrame
<1>5. CASE header.id \in Goes
  <2>1. /\ Begins(Down', AnswerHeader, file, Entry, 1, Len(got'), dev.at)
        /\ Chained(Down', AnswerHeader, file, Entry, dev.at)
    BY <1>5, GotGrows
  <2>2. pc' = "read" /\ outcome' = outcome
    BY <1>4, <1>5, AnswerNames DEF Handle
  <2> QED BY <1>1, <1>2, <1>3, <2>1, <2>2, Zenon DEF AnswerOK
<1>6. CASE header.id \notin Goes
  <2>1. /\ pc' \in {"clse", "end"} /\ got' = got
        /\ outcome' = "ok" => header.id = "DONE"
    BY <1>4, <1>6, AnswerNames DEF Handle, Error
  <2> QED BY <1>1, <1>3, <2>1 DEF AnswerOK, Live
<1> QED BY <1>5, <1>6
-----------------------------------------------------------------------------
LEMMA AnswerWaits ==
  ASSUME Sound, Answered, [Next]_vars, ~ReadHeader, ~ReadData
  PROVE  Waits
<1>1. command # "push" /\ left = 0 /\ pc \notin {"mkdir", "open"}
  <2>1. left \in 0 .. MaxFiles /\ MaxFiles \in Nat
    BY TypedParts, FileSyncAssumption DEF Sound, ClientTypes
  <2>2. ~(left > 0)
    BY AnswerNames DEF Sound, StepsOK
  <2> QED BY <2>1, <2>2, AnswerNames DEF Sound, StepsOK
<1>2. CASE UNCHANGED client
  BY <1>2 DEF client, Waits, Live
<1>3. CASE FilesyncSend \/ AddAfterFlush \/ FlushDone \/ BeginRead \/ FilesyncRead
  BY <1>3 DEF FilesyncSend, AddAfterFlush, AddFrame, Flush, FlushDone, Flushed, BeginRead,
              FilesyncRead, request, Waits, Live
<1>4. CASE FillBuffer \/ SendClse
  BY <1>4 DEF FillBuffer, SendClse, request, Waits, Live
<1>5. CASE ReadClse
  BY <1>1, <1>5 DEF ReadClse, Waits, Live
<1>6. CASE Timeout
  BY <1>6 DEF Timeout, request, Waits, Live
<1>7. CASE FileSize \/ StatBefore
  BY <1>7 DEF FileSize, StatBefore, Fails, Waits, Live
<1>8. CASE Mkdir \/ OpenFile
  BY <1>1, <1>8 DEF Mkdir, OpenFile
<1>9. CASE DropPacket
  BY <1>2, <1>9 DEF DropPacket
<1>10. CASE Device \/ DevFail
  BY <1>2, <1>10, DeviceTyped DEF Sound
<1>11. CASE UNCHANGED vars
  BY <1>2, <1>11 DEF vars
<1> QED BY <1>3, <1>4, <1>5, <1>6, <1>7, <1>8, <1>9, <1>10, <1>11 DEF Next, Client, Ended

LEMMA AnswerParse ==
  ASSUME Sound, AskedOK, FilesOK, AnswerOK, Answered, DevParse
  PROVE  AnswerOK'
<1>0. Typed /\ command # "push"
  BY AnswerNames DEF Sound
<1>1. /\ dev.st = "wait" => dev.in[1].id \in {"RECV", "LIST"}
      /\ dev.st # "push" /\ UNCHANGED <<client, to_dev, to_host>>
  BY <1>0, AskParse, AnswerNames, ParseEffect DEF AskedOK
<1>2. CASE dev.st = "failed"
  <2>1. dev'.out = dev.out /\ dev'.at = dev.at
    BY <1>0, <1>2, ParseEffect DEF DevIs
  <2>2. Down' = Down
    BY <1>1, <2>1, Zenon DEF Down, client
  <2>3. Waits
    BY <1>1 DEF client, Waits, Live
  <2> QED BY <2>1, <2>2, <2>3, AnswerKept
<1>3. CASE dev.st = "wait"
  <2>1. Live => dev.out = <<>>
    BY <1>0, <1>3 DEF AskedOK, Unanswered
  <2>2. \/ DevIs("answer", <<>>, dev.file, <<>>, dev.ready, dev.at)
        \/ Refused
    BY <1>0, <1>1, <1>3, ParseEffect
  <2>3. CASE DevIs("answer", <<>>, dev.file, <<>>, dev.ready, dev.at)
    <3>1. Live => Down' = Down /\ dev'.at = dev.at
      BY <1>1, <2>1, <2>3, Zenon DEF Down, client, DevIs
    <3>2. Waits
      BY <1>1 DEF client, Waits, Live
    <3> QED BY <3>1, <3>2, AnswerKept DEF Waits
  <2>4. CASE Refused
    <3>1. PICK F \in Failures : dev'.out = F /\ dev'.at = dev.at
      BY <2>4, Zenon DEF Refused, DevIs
    <3>2. F \in Seq(Word) /\ Follows(F, AnswerHeader, file, Entry, dev.at, dev'.at)
      BY <3>1, FailFollows, AnswerNames
    <3>3. ASSUME Live PROVE Down' = Down \o F
      <4>1. <<>> \o F = F
        BY <3>2, EmptyJoin
      <4>2. dev'.out = dev.out \o F
        BY <2>1, <3>1, <3>3, <4>1
      <4> QED BY <1>1, <3>2, <4>2, DownMore
    <3>4. dev'.at \in Nat
      BY <3>1, SoundParts
    <3> QED BY <1>1, <3>2, <3>3, <3>4, AnswerMore
  <2> QED BY <2>2, <2>3, <2>4
<1> QED BY <1>0, <1>1, <1>2, <1>3, ParseEffect

(* The device reads on in the file, or comes to its end.                   *)
LEMMA AnswerFrame ==
  ASSUME Sound, FilesOK, Answered, DevAnswer
  PROVE  /\ UNCHANGED <<client, to_dev, to_host>> /\ dev'.at \in Nat /\ dev'.at <= Len(file)
         /\ dev'.file = dev.file
         /\ \E F \in Seq(Word) : /\ Follows(F, AnswerHeader, file, Entry, dev.at, dev'.at)
                                 /\ dev'.out = dev.out \o F
<1>0. Typed
  BY DEF Sound
<1>1. UNCHANGED <<client, to_dev, to_host>>
  BY <1>0, AnswerEffect
<1>2. AnswerHeader \in Nat /\ AnswerHeader >= 2 /\ file \in Seq(Word) /\ dev.at \in Nat
  BY SoundParts
<1>3. file = Words(Len(file)) /\ dev.at <= Len(file)
  BY DEF FilesOK
<1>4. CASE \E k \in 1 .. MaxEntry, id \in Goes :
             /\ dev.at + k <= Len(file)
             /\ Piece(id, k) \in Seq(Word)
             /\ DevIs("answer", dev.in, dev.file, dev.out \o Piece(id, k), dev.ready, dev.at + k)
  <2>1. PICK k \in 1 .. MaxEntry, id \in Goes :
             /\ dev.at + k <= Len(file)
             /\ Piece(id, k) \in Seq(Word)
             /\ DevIs("answer", dev.in, dev.file, dev.out \o Piece(id, k), dev.ready, dev.at + k)
    BY <1>4
  <2>2. id = Entry /\ Entry \in Entries /\ k \in Nat /\ k >= 1
    BY AnswerNames, FileSyncAssumption
  <2>3. Follows(Piece(id, k), AnswerHeader, file, Entry, dev.at, dev.at + k)
    BY <1>2, <1>3, <2>1, <2>2, DataFollows DEF Piece
  <2>4. dev'.at = dev.at + k /\ dev'.out = dev.out \o Piece(id, k) /\ dev'.file = dev.file
    BY <2>1, Zenon DEF DevIs
  <2>5. dev'.at \in Nat /\ dev'.at <= Len(file)
    BY <1>2, <2>1, <2>2, <2>4
  <2>6. Follows(Piece(id, k), AnswerHeader, file, Entry, dev.at, dev'.at)
    BY <2>3, <2>4
  <2> QED BY <1>1, <2>1, <2>4, <2>5, <2>6, Zenon
<1>5. CASE /\ dev.at = Len(file)
           /\ DevIs("done", dev.in, dev.file, dev.out \o Frame("DONE", AnswerHeader, <<>>),
                    dev.ready, dev.at)
  <2> DEFINE F == Frame("DONE", AnswerHeader, <<>>)
  <2>1. dev'.at = dev.at /\ dev'.out = dev.out \o F /\ dev'.file = dev.file
    BY <1>5, Zenon DEF DevIs
  <2>2. F \in Seq(Word) /\ Follows(F, AnswerHeader, file, Entry, dev.at, dev'.at)
    BY <1>2, <1>5, AnswerNames, EndFollows
  <2> HIDE DEF F
  <2> QED BY <1>1, <1>2, <1>3, <2>1, <2>2
<1> QED BY <1>0, <1>4, <1>5, AnswerEffect, Zenon

LEMMA AnswerNext == Sound /\ AskedOK /\ FilesOK /\ AnswerOK /\ [Next]_vars => AnswerOK'
<1> SUFFICES ASSUME Sound, AskedOK, FilesOK, AnswerOK, [Next]_vars PROVE AnswerOK'
  OBVIOUS
<1>0. command' = command /\ Typed
  BY CommandKept DEF Sound
<1>1. CASE ~Answered
  BY <1>0, <1>1, Zenon DEF AnswerOK, Answered
<1>2. CASE Answered
  <2>1. CASE ReadHeader \/ ReadData
    BY <1>2, <2>1, ReadHeaderAnswer, ReadDataAnswer
  <2>2. CASE DevParse
    BY <1>2, <2>2, AnswerParse
  <2>3. CASE DevAnswer
    <3>1. /\ UNCHANGED <<client, to_dev, to_host>> /\ dev'.at \in Nat
          /\ \E F \in Seq(Word) : /\ Follows(F, AnswerHeader, file, Entry, dev.at, dev'.at)
                                  /\ dev'.out = dev.out \o F
      BY <1>2, <2>3, AnswerFrame
    <3>2. PICK F \in Seq(Word) : /\ Follows(F, AnswerHeader, file, Entry, dev.at, dev'.at)
                                 /\ dev'.out = dev.out \o F
      BY <3>1
    <3>3. Down' = Down \o F
      BY <3>1, <3>2, DownMore
    <3> QED BY <1>2, <3>1, <3>2, <3>3, AnswerMore
  <2>4. CASE DevFail
    <3>1. UNCHANGED <<client, to_dev, to_host>>
      BY <1>0, <2>4, FailEffect
    <3>2. PICK F \in Failures : dev'.out = dev.out \o F /\ dev'.at = dev.at
      BY <1>0, <2>4, FailEffect, Zenon DEF DevIs
    <3>3. F \in Seq(Word) /\ Follows(F, AnswerHeader, file, Entry, dev.at, dev'.at)
      BY <1>2, <3>2, FailFollows, AnswerNames
    <3>4. Down' = Down \o F
      BY <3>1, <3>2, <3>3, DownMore
    <3>5. dev'.at \in Nat
      BY <3>2, SoundParts
    <3> QED BY <1>2, <3>1, <3>3, <3>4, <3>5, AnswerMore
  <2>5. CASE ~(ReadHeader \/ ReadData \/ DevParse \/ DevAnswer \/ DevFail)
    <3>1. Waits
      BY <1>2, <2>5, AnswerWaits
    <3>2. ~Opens
      BY <1>2, AnswerNames DEF Opens, Sound, StepsOK
    <3>3. Down' = Down \/ ~Live
      BY <1>2, <2>5, <3>2, DownStep, NothingLoses, AnswerNames
    <3>4. dev'.at = dev.at
      BY <2>5, <3>2, DevKept
    <3> QED BY <3>1, <3>3, <3>4, AnswerKept DEF Waits
  <2> QED BY <2>1, <2>2, <2>3, <2>4, <2>5
<1> QED BY <1>1, <1>2
-----------------------------------------------------------------------------
(* Each copy is made of the first words of the file.                       *)

LEMMA WordsLength ==
  ASSUME NEW n \in Nat
  PROVE  Words(n) \in Seq(Word) /\ Len(Words(n)) = n
<1>1. \A j \in 1 .. n : DataWord(j) \in Word
  BY DEF DataWord, Word
<1> QED BY <1>1 DEF Words

LEMMA NoCopy == <<>> = Words(Len(<<>>)) /\ Len(<<>>) = 0
<1>1. Len(<<>>) = 0
  OBVIOUS
<1>2. Words(0) \in Seq(Word) /\ Len(Words(0)) = 0
  BY WordsLength
<1> QED BY <1>1, <1>2

LEMMA InitFiles == Init => FilesOK
<1> SUFFICES ASSUME Init PROVE FilesOK
  OBVIOUS
<1>1. PICK n \in Nat : file = Words(n)
  BY FileSyncAssumption DEF Init
<1>2. file = Words(Len(file)) /\ Len(file) \in Nat
  BY <1>1, WordsLength
<1>3. dev.file = <<>> /\ got = <<>> /\ dev.at = 0
  BY DEF Init, DevReady
<1> QED BY <1>2, <1>3, NoCopy DEF FilesOK

LEMMA GotKept ==
  ASSUME Sound, [Next]_vars
  PROVE  got' = got \/ (ReadData /\ header.id \in Goes)
<1>1. CASE UNCHANGED vars
  BY <1>1 DEF vars, client
<1>2. CASE Device \/ DevFail
  BY <1>2, DeviceTyped DEF Sound, client
<1>3. CASE ReadData
  BY <1>3 DEF ReadData, HandleFrame, Handle
<1>4. CASE Client /\ ~ReadData
  BY <1>4 DEF Client, Mkdir, OpenFile, FileSize, StatBefore, Fails, FilesyncSend, AddAfterFlush, AddFrame,
              FlushDone, Flushed, BeginRead, FilesyncRead, Flush, FillBuffer, ReadHeader,
              SendClse, ReadClse, DropPacket, Timeout, client
<1> QED BY <1>1, <1>2, <1>3, <1>4 DEF Next, Ended

LEMMA GotNext ==
  ASSUME Sound, FilesOK, AnswerOK, [Next]_vars, ~Opens
  PROVE  got' = Words(Len(got')) /\ Len(got') <= Len(file) /\ (command = "push" => got' = <<>>)
<1>1. CASE got' = got
  BY <1>1 DEF FilesOK
<1>2. CASE ReadData /\ header.id \in Goes
  <2>1. Answered
    BY <1>2, TypedParts DEF Sound, Goes, Answered
  <2> QED BY <1>2, <2>1, GotGrows, AnswerNames
<1> QED BY <1>1, <1>2, GotKept

(* What the device has of the file, and what it has read of it.            *)
LEMMA DevFileNext ==
  ASSUME Sound, FilesOK, PushOK, AskedOK, [Next]_vars, ~Opens
  PROVE  /\ dev'.file = Words(Len(dev'.file)) /\ Len(dev'.file) <= Len(file) /\ dev'.at <= Len(file)
         /\ command # "push" => dev'.file = <<>>
<1>0. Typed
  BY DEF Sound
<1>1. /\ dev.file = Words(Len(dev.file)) /\ Len(dev.file) <= Len(file) /\ dev.at <= Len(file)
      /\ command # "push" => dev.file = <<>>
  BY DEF FilesOK
<1>2. CASE DevParse /\ command = "push"
  <2>1. /\ Skips \/ Starts \/ Writes \/ Finishes
        /\ dev'.at = dev.at
    BY <1>2, PushParse
  <2> QED BY <1>1, <1>2, <2>1 DEF Skips, Starts, Writes, Finishes
<1>3. CASE DevParse /\ command # "push"
  <2>1. /\ dev.st = "wait" => dev.in[1].id \in {"RECV", "LIST", "STAT"}
        /\ dev.st # "push"
    BY <1>0, <1>3, AskParse, TypedParts DEF AskedOK, FirstId
  <2>2. dev'.file = dev.file /\ dev'.at = dev.at
    BY <1>0, <1>3, <2>1, ParseEffect, Zenon DEF DevIs, Refused
  <2> QED BY <1>1, <2>2
<1>4. CASE DevAnswer
  <2>1. dev'.file = dev.file /\ dev'.at <= Len(file)
    BY <1>0, <1>1, <1>4, AnswerEffect, Zenon DEF DevIs
  <2> QED BY <1>1, <2>1
<1>5. CASE DevFail
  <2>1. dev'.file = dev.file /\ dev'.at = dev.at
    BY <1>0, <1>5, FailEffect, Zenon DEF DevIs
  <2> QED BY <1>1, <2>1
<1>6. CASE ~DevParse /\ ~DevAnswer /\ ~DevFail
  <2>1. dev'.file = dev.file /\ dev'.at = dev.at
    BY <1>6, DevKept
  <2> QED BY <1>1, <2>1
<1> QED BY <1>2, <1>3, <1>4, <1>5, <1>6

LEMMA FilesNext ==
  Sound /\ FilesOK /\ PushOK /\ AskedOK /\ AnswerOK /\ [Next]_vars => FilesOK'
<1> SUFFICES ASSUME Sound, FilesOK, PushOK, AskedOK, AnswerOK, [Next]_vars PROVE FilesOK'
  OBVIOUS
<1>0. command' = command /\ (Opens \/ file' = file)
  BY CommandKept
<1>1. CASE Opens
  <2>1. /\ file' = Words(Len(file')) /\ Len(file') \in Nat /\ command = "push" /\ got' = got
        /\ command' = command
    BY <1>1, LenProperties DEF Opens, Sound, StepsOK
  <2>2. dev'.file = <<>> /\ dev'.at = 0 /\ got' = <<>>
    BY <1>1, <2>1, UpOpens DEF FilesOK
  <2> QED BY <2>1, <2>2, NoCopy DEF FilesOK
<1>2. CASE ~Opens
  <2>1. file' = file /\ file = Words(Len(file))
    BY <1>0, <1>2 DEF FilesOK
  <2> QED BY <1>0, <1>2, <2>1, GotNext, DevFileNext DEF FilesOK
<1> QED BY <1>1, <1>2
-----------------------------------------------------------------------------
(* The OKAY that ends a push.                                              *)

LEMMA NoOkayJoin ==
  ASSUME NEW a \in Seq(Word), NEW b \in Seq(Word)
  PROVE  NoOkay(a \o b) <=> NoOkay(a) /\ NoOkay(b)
<1>1. Len(a) \in Nat /\ Len(b) \in Nat /\ Len(a \o b) = Len(a) + Len(b)
  BY Joined
<1>2. \A k \in 1 .. Len(a) : (a \o b)[k] = a[k] /\ k \in 1 .. Len(a \o b)
  BY <1>1, JoinedLeft
<1>3. \A k \in 1 .. Len(b) : (a \o b)[Len(a) + k] = b[k] /\ Len(a) + k \in 1 .. Len(a \o b)
  BY <1>1, JoinedRight
<1>4. ASSUME NoOkay(a \o b) PROVE NoOkay(a) /\ NoOkay(b)
  <2>1. NoOkay(a)
    BY <1>2, <1>4, Zenon DEF NoOkay
  <2>2. NoOkay(b)
    BY <1>3, <1>4, Zenon DEF NoOkay
  <2> QED BY <2>1, <2>2
<1>5. ASSUME NoOkay(a), NoOkay(b), NEW k \in 1 .. Len(a \o b) PROVE (a \o b)[k].id # "OKAY"
  <2>1. CASE k <= Len(a)
    <3>1. k \in 1 .. Len(a)
      BY <1>1, <2>1
    <3> QED BY <1>2, <1>5, <3>1, Zenon DEF NoOkay
  <2>2. CASE k > Len(a)
    <3>1. k - Len(a) \in 1 .. Len(b) /\ Len(a) + (k - Len(a)) = k
      BY <1>1, <2>2
    <3>2. (a \o b)[Len(a) + (k - Len(a))] = b[k - Len(a)]
      BY <1>3, <3>1, Zenon
    <3> QED BY <1>5, <3>1, <3>2 DEF NoOkay
  <2> QED BY <1>1, <2>1, <2>2
<1> QED BY <1>4, <1>5 DEF NoOkay

LEMMA NoOkayDown ==
  Sound => (NoOkay(Down) <=> NoOkay(recv_buffer) /\ NoOkay(dev.out) /\ NoOkay(Load(to_host)))
<1> SUFFICES ASSUME Sound
             PROVE  NoOkay(Down) <=> NoOkay(recv_buffer) /\ NoOkay(dev.out) /\ NoOkay(Load(to_host))
  OBVIOUS
<1>1. recv_buffer \in Seq(Word) /\ Load(to_host) \in Seq(Word) /\ dev.out \in Seq(Word)
  BY SoundParts
<1> DEFINE d == Load(to_host) \o dev.out
<1>2. d \in Seq(Word) /\ (NoOkay(d) <=> NoOkay(Load(to_host)) /\ NoOkay(dev.out))
  BY <1>1, Joined, NoOkayJoin, Zenon
<1>3. Down = recv_buffer \o d
  BY Zenon DEF Down
<1> HIDE DEF d
<1>4. NoOkay(recv_buffer \o d) <=> NoOkay(recv_buffer) /\ NoOkay(d)
  BY <1>1, <1>2, NoOkayJoin, Zenon
<1> QED BY <1>2, <1>3, <1>4, Zenon

LEMMA NoOkayDropped ==
  ASSUME NEW L \in Seq(Word), NEW n \in Nat, n <= Len(L), NoOkay(L)
  PROVE  NoOkay(Dropped(L, n))
<1> SUFFICES ASSUME NEW k \in 1 .. Len(Dropped(L, n)) PROVE Dropped(L, n)[k].id # "OKAY"
  BY DEF NoOkay
<1>1. Len(Dropped(L, n)) = Len(L) - n /\ Len(L) \in Nat
  BY DroppedShape, LenProperties
<1>2. k \in Nat /\ k >= 1 /\ n + k <= Len(L) /\ n + k \in 1 .. Len(L)
  BY <1>1
<1>3. Dropped(L, n)[k] = L[n + k]
  BY <1>2, DroppedWord
<1> QED BY <1>2, <1>3 DEF NoOkay

LEMMA NoOkayFailure ==
  ASSUME NEW F \in Failures
  PROVE  F \in Seq(Word) /\ NoOkay(F)
<1>1. /\ F \in Seq(Word) /\ F[1].id = "FAIL" /\ Len(F) \in Nat
      /\ OneHeader(F, "OKAY")
  BY FailFollows, LenProperties DEF Ids
<1>2. ASSUME NEW k \in 1 .. Len(F) PROVE F[k].id # "OKAY"
  <2>1. k = 1 \/ k \in 2 .. Len(F)
    BY <1>1
  <2> QED BY <1>1, <2>1 DEF OneHeader
<1> QED BY <1>1, <1>2 DEF NoOkay

(* An answer without OKAY stays so, unless the device has the whole file.  *)
LEMMA NoOkayNext ==
  ASSUME Sound, FilesOK, PushOK, command = "push", NoOkay(Down), [Next]_vars
  PROVE  NoOkay(Down') \/ (DevParse /\ Finishes)
<1>0. Typed /\ Down \in Seq(Word)
  BY SoundParts DEF Sound
<1>1. CASE Opens
  <2>1. Down' = <<>>
    BY <1>1, UpOpens
  <2>2. Len(Down') = 0
    BY <2>1
  <2> QED BY <2>2 DEF NoOkay
<1>2. CASE ReadHeader \/ ReadData
  BY <1>0, <1>2, DownRead, NoOkayDropped
<1>3. CASE Loses
  <2>1. /\ to_host # <<>> /\ Head(to_host).cmd = "WRTE" /\ to_host' = Tail(to_host)
        /\ UNCHANGED <<recv_buffer, dev>>
    BY <1>3 DEF Loses, DropPacket, client
  <2>2. Load(to_host') = <<>>
    BY <2>1, SoundParts, LoadTail
  <2>3. NoOkay(recv_buffer) /\ NoOkay(dev.out) /\ NoOkay(<<>>)
    BY NoOkayDown, EmptyQueue DEF NoOkay
  <2>4. (Sound => (NoOkay(Down) <=> NoOkay(recv_buffer) /\ NoOkay(dev.out) /\ NoOkay(Load(to_host))))'
    BY NoOkayDown, PTL
  <2> QED BY <2>1, <2>2, <2>3, <2>4, SoundNext
<1>4. CASE DevParse
  <2>1. (dev'.out = dev.out /\ UNCHANGED <<client, to_host>>) \/ Finishes
    BY <1>4, PushParse
  <2>2. Down' = Down \/ Finishes
    BY <2>1, Zenon DEF Down, client
  <2> QED BY <1>4, <2>2
<1>5. CASE DevAnswer
  BY <1>5 DEF DevAnswer, PushOK
<1>6. CASE DevFail
  <2>1. UNCHANGED <<client, to_dev, to_host>>
    BY <1>0, <1>6, FailEffect
  <2>2. PICK F \in Failures : dev'.out = dev.out \o F
    BY <1>0, <1>6, FailEffect, Zenon DEF DevIs
  <2>3. F \in Seq(Word) /\ NoOkay(F)
    BY NoOkayFailure
  <2>4. Down' = Down \o F
    BY <2>1, <2>2, <2>3, DownMore
  <2> QED BY <1>0, <2>3, <2>4, NoOkayJoin
<1> QED BY <1>1, <1>2, <1>3, <1>4, <1>5, <1>6, DownStep

(* The header that is read, and how the command ends.                      *)
LEMMA HeaderKept ==
  ASSUME Sound, [Next]_vars
  PROVE  \/ ReadHeader
         \/ header' = header /\ (pc' = "data" => pc = "data")
<1>1. CASE UNCHANGED vars
  BY <1>1 DEF vars, client
<1>2. CASE Device \/ DevFail
  BY <1>2, DeviceTyped DEF Sound, client
<1>3. CASE Client /\ ~ReadHeader
  BY <1>3 DEF Client, Mkdir, OpenFile, FileSize, StatBefore, Fails, FilesyncSend, AddAfterFlush, AddFrame,
              FlushDone, Flushed, BeginRead, FilesyncRead, Flush, FillBuffer, ReadData, HandleFrame, Handle,
              SendClse, ReadClse, DropPacket, Timeout, client
<1> QED BY <1>1, <1>2, <1>3 DEF Next, Ended

LEMMA OutcomeKept ==
  ASSUME Sound, command = "push", [Next]_vars, outcome' = "ok", outcome # "ok"
  PROVE  \/ pc = "mkdir" /\ dev' = dev /\ file' = file
         \/ pc = "data" /\ header.id = "OKAY"
<1>1. CASE UNCHANGED vars
  BY <1>1 DEF vars, client
<1>2. CASE Device \/ DevFail
  BY <1>2, DeviceTyped DEF Sound, client
<1>3. CASE ReadData
  BY <1>3 DEF ReadData, HandleFrame, Handle, Finish, Error
<1>4. CASE Mkdir
  BY <1>4 DEF Mkdir, Fails
<1>5. CASE Client /\ ~ReadData /\ ~Mkdir
  BY <1>5 DEF Client, OpenFile, FileSize, StatBefore, Fails, FilesyncSend, AddAfterFlush, AddFrame,
              FlushDone, Flushed, BeginRead, FilesyncRead, Flush, FillBuffer, ReadHeader,
              SendClse, ReadClse, DropPacket, Timeout, client
<1> QED BY <1>1, <1>2, <1>3, <1>4, <1>5 DEF Next, Ended

LEMMA MkdirKept ==
  ASSUME Sound, [Next]_vars, pc' = "mkdir"
  PROVE  UNCHANGED client
<1>1. CASE UNCHANGED vars
  BY <1>1 DEF vars
<1>2. CASE Device \/ DevFail
  BY <1>2, DeviceTyped DEF Sound
<1>3. CASE Client /\ ~DropPacket
  BY <1>3 DEF Client, Mkdir, OpenFile, FileSize, StatBefore, Fails, FilesyncSend, AddAfterFlush, AddFrame,
              FlushDone, Flushed, BeginRead, FilesyncRead, Flush, FillBuffer, ReadHeader, ReadData,
              HandleFrame, Handle, SendClse, ReadClse, Timeout, Waiting, request
<1>4. CASE DropPacket
  BY <1>4 DEF DropPacket
<1> QED BY <1>1, <1>2, <1>3, <1>4 DEF Next, Ended
-----------------------------------------------------------------------------
(* The device had said OKAY, or has not.                                   *)
Complete == dev.file = file /\ dev.st \in {"done", "closed"}

LEMMA CompleteKept ==
  ASSUME Sound, PushOK, command = "push", Complete, [Next]_vars, ~Opens
  PROVE  Complete' /\ (dev'.st = "done" => dev.st = "done")
<1>0. Typed /\ file' = file
  BY CommandKept DEF Sound
<1>1. ~DevParse
  BY <1>0, ParseEffect DEF Complete
<1>2. ~DevAnswer /\ ~DevFail
  BY DEF DevAnswer, DevFail, Complete
<1> QED BY <1>0, <1>1, <1>2, DevKept DEF Complete

LEMMA HeaderNext ==
  ASSUME Sound, Unsaid, [Next]_vars, pc' = "data"
  PROVE  header'.id # "OKAY"
<1>1. CASE ReadHeader
  <2>1. header'.id = recv_buffer[1].id /\ Len(recv_buffer) >= AnswerHeader
    BY <1>1 DEF ReadHeader, Needed
  <2>2. 1 \in 1 .. Len(recv_buffer)
    BY <2>1, SoundParts, LenProperties
  <2> QED BY <2>1, <2>2 DEF Unsaid, NoOkay
<1>2. CASE header' = header /\ pc = "data"
  BY <1>2 DEF Unsaid
<1> QED BY <1>1, <1>2, HeaderKept

(* A push that has ended well is one whose file the device has.            *)
LEMMA EndsNext ==
  ASSUME Sound, FilesOK, PushOK, OkayOK, Unsaid, command = "push", [Next]_vars, outcome' = "ok", ~Opens
  PROVE  dev'.file = file'
<1>0. Typed /\ file' = file
  BY CommandKept DEF Sound
<1>1. CASE outcome = "ok"
  <2>1. dev.file = file
    BY <1>1 DEF Unsaid
  <2>2. CASE DevParse
    <3>1. Skips \/ Starts \/ Writes \/ Finishes
      BY <2>2, PushParse
    <3>2. ~Writes
      <4> SUFFICES ASSUME Writes PROVE FALSE
        OBVIOUS
      <4>1. Len(file) < Len(dev'.file) /\ Len(dev'.file) <= Len(file) /\ dev'.file \in Seq(Word)
        BY <2>1 DEF Writes
      <4>2. Len(file) \in Nat /\ Len(dev'.file) \in Nat
        BY <4>1, SoundParts, LenProperties
      <4> QED BY <4>1, <4>2
    <3> QED BY <1>0, <2>1, <3>1, <3>2 DEF Skips, Starts, Finishes
  <2>3. CASE DevFail
    <3>1. dev'.file = dev.file
      BY <1>0, <2>3, FailEffect, Zenon DEF DevIs
    <3> QED BY <1>0, <2>1, <3>1
  <2>4. CASE ~DevParse /\ ~DevFail
    <3>1. ~DevAnswer
      BY DEF DevAnswer, PushOK
    <3> QED BY <1>0, <2>1, <2>4, <3>1, DevKept
  <2> QED BY <2>2, <2>3, <2>4
<1>2. CASE outcome # "ok"
  <2>1. pc = "mkdir" /\ dev' = dev /\ file' = file
    BY <1>2, OutcomeKept DEF Unsaid
  <2> QED BY <2>1 DEF OkayOK
<1> QED BY <1>1, <1>2

LEMMA UnsaidNext ==
  ASSUME Sound, FilesOK, PushOK, OkayOK, Unsaid, command = "push", [Next]_vars, ~Opens
  PROVE  Unsaid' \/ (DevParse /\ Finishes)
<1>1. NoOkay(Down)
  BY NoOkayDown DEF Unsaid
<1>2. (Sound => (NoOkay(Down) <=> NoOkay(recv_buffer) /\ NoOkay(dev.out) /\ NoOkay(Load(to_host))))'
  BY NoOkayDown, PTL
<1>3. CASE NoOkay(Down')
  <2>1. NoOkay(recv_buffer') /\ NoOkay(dev'.out) /\ NoOkay(Load(to_host'))
    BY <1>2, <1>3, SoundNext
  <2> QED BY <2>1, HeaderNext, EndsNext DEF Unsaid
<1> QED BY <1>1, <1>3, NoOkayNext

LEMMA MkdirNext ==
  ASSUME Sound, FilesOK, PushOK, OkayOK, command = "push", [Next]_vars, pc' = "mkdir", ~Opens
  PROVE  file' = <<>> /\ dev'.file = <<>> /\ dev'.in = <<>> /\ to_dev' = <<>>
<1>0. Typed /\ file' = file /\ pc = "mkdir"
  BY CommandKept, MkdirKept DEF Sound, client
<1>1. file = <<>> /\ dev.file = <<>> /\ dev.in = <<>> /\ to_dev = <<>>
  BY <1>0 DEF OkayOK
<1>2. CASE UNCHANGED vars
  BY <1>0, <1>1, <1>2 DEF vars
<1>3. CASE Client
  BY <1>0, <1>3 DEF Client, Mkdir, OpenFile, FileSize, StatBefore, Fails, FilesyncSend, AddAfterFlush, AddFrame,
              FlushDone, Flushed, BeginRead, FilesyncRead, Flush, FillBuffer, ReadHeader, ReadData,
              HandleFrame, Handle, SendClse, ReadClse, Timeout, Waiting, request, DropPacket
<1>4. ~DevReceive /\ ~DevAnswer
  BY <1>1 DEF DevReceive, DevAnswer, PushOK
<1>5. ~DevParse
  <2> SUFFICES ASSUME DevParse PROVE FALSE
    OBVIOUS
  <2>1. RequestSize \in Nat /\ RequestSize >= 2 /\ RequestSize <= Len(dev.in)
    BY <1>0, ParseEffect
  <2>2. Len(dev.in) = 0
    BY <1>1
  <2> QED BY <2>1, <2>2
<1>6. CASE DevFail
  <2>1. UNCHANGED to_dev /\ dev'.in = dev.in /\ dev'.file = dev.file
    BY <1>0, <1>6, FailEffect, Zenon DEF DevIs
  <2> QED BY <1>0, <1>1, <2>1
<1>7. CASE DevSend
  <2>1. UNCHANGED to_dev /\ dev'.in = dev.in /\ dev'.file = dev.file
    BY <1>0, <1>7, SendEffect, Zenon DEF DevIs
  <2> QED BY <1>0, <1>1, <2>1
<1> QED BY <1>0, <1>2, <1>3, <1>4, <1>5, <1>6, <1>7 DEF Next, Device, Ended

LEMMA InitOkay == Init => OkayOK
<1> SUFFICES ASSUME Init, command = "push" PROVE OkayOK
  BY DEF OkayOK
<1>1. file = <<>>
  <2>1. file = Words(0)
    BY DEF Init
  <2> QED BY <2>1, WordsLength
<1>2. /\ dev = DevReady /\ to_dev = <<>> /\ to_host = <<>> /\ recv_buffer = <<>> /\ outcome = "none"
      /\ pc # "data"
  BY DEF Init, FirstSteps
<1>3. dev.st = "wait" /\ dev.in = <<>> /\ dev.file = <<>> /\ dev.out = <<>>
  BY <1>2 DEF DevReady
<1>4. NoOkay(<<>>)
  BY EmptyWords DEF NoOkay
<1>5. Load(to_host) = <<>>
  BY <1>2, EmptyQueue
<1>6. Unsaid
  BY <1>2, <1>3, <1>4, <1>5 DEF Unsaid
<1> QED BY <1>1, <1>2, <1>3, <1>6 DEF OkayOK

LEMMA OkayNext == Sound /\ FilesOK /\ PushOK /\ OkayOK /\ [Next]_vars => OkayOK'
<1> SUFFICES ASSUME Sound, FilesOK, PushOK, OkayOK, [Next]_vars PROVE OkayOK'
  OBVIOUS
<1>0. command' = command /\ (Opens \/ file' = file)
  BY CommandKept
<1>1. CASE command # "push"
  BY <1>0, <1>1 DEF OkayOK
<1>2. CASE command = "push" /\ Opens
  <2>1. /\ dev'.st = "wait" /\ dev'.out = <<>> /\ recv_buffer' = <<>> /\ outcome' = "none" /\ pc' = "add"
        /\ Load(to_host') = <<>>
    BY <1>2, UpOpens DEF Opens
  <2>2. NoOkay(<<>>)
    BY EmptyWords DEF NoOkay
  <2>3. Unsaid'
    BY <2>1, <2>2 DEF Unsaid
  <2> QED BY <2>1, <2>3 DEF OkayOK
<1>3. CASE command = "push" /\ ~Opens
  <2>1. pc' = "mkdir" => file' = <<>> /\ dev'.file = <<>> /\ dev'.in = <<>> /\ to_dev' = <<>>
    BY <1>3, MkdirNext
  <2>2. dev.st = "done" => dev.file = file
    BY <1>3 DEF OkayOK
  <2>3. CASE DevParse /\ Finishes
    BY <1>0, <1>3, <2>1, <2>3 DEF OkayOK, Finishes
  <2>4. CASE Complete
    <3>1. Complete'
      BY <1>3, <2>4, CompleteKept
    <3> QED BY <2>1, <3>1 DEF OkayOK, Complete
  <2>5. CASE Unsaid /\ ~(DevParse /\ Finishes)
    <3>1. Unsaid'
      BY <1>3, <2>5, UnsaidNext
    <3>2. dev'.st = "done" => dev'.file = file'
      <4>1. CASE dev.st = "done"
        <5>1. Complete
          BY <2>2, <4>1 DEF Complete
        <5> QED BY <1>3, <5>1, CompleteKept DEF Complete
      <4>2. CASE dev.st # "done" /\ ~DevParse
        <5>1. ~DevAnswer
          BY <1>3 DEF DevAnswer, PushOK
        <5>2. Typed
          BY DEF Sound
        <5>3. DevFail => dev'.st = "failed"
          BY <5>2, FailEffect, Zenon DEF DevIs
        <5> QED BY <1>3, <4>2, <5>1, <5>3, DevKept
      <4>3. CASE DevParse
        BY <1>3, <2>5, <4>3, PushParse DEF Skips, Starts, Writes
      <4> QED BY <4>1, <4>2, <4>3
    <3> QED BY <2>1, <3>1, <3>2 DEF OkayOK
  <2> QED BY <1>3, <2>3, <2>4, <2>5 DEF OkayOK, Complete
<1> QED BY <1>1, <1>2, <1>3

(* All parts together.                                                     *)
TInv == Sound /\ FilesOK /\ PushOK /\ OkayOK /\ AskedOK /\ AnswerOK

LEMMA InitTransfer == Init => TInv
BY InitSound, InitFiles, InitPush, InitOkay, InitAsked, InitAnswer DEF TInv

LEMMA TransferNext == TInv /\ [Next]_vars => TInv'
BY SoundNext, FilesNext, PushNext, OkayNext, AskedNext, AnswerNext, Zenon DEF TInv

LEMMA TransferParts == TInv => TransferIntact
<1> SUFFICES ASSUME TInv PROVE TransferIntact
  OBVIOUS
<1> DEFINE copy == IF command = "push" THEN dev.file ELSE got
<1>1. TypeOK /\ command \in {"push", "pull", "list", "stat"}
  BY TypedParts DEF TInv, Sound, Typed
<1>2. dev.file \in Seq(Word) /\ got \in Seq(Word) /\ file \in Seq(Word)
  BY SoundParts DEF TInv
<1>3. copy \in Seq(Word) /\ copy = Words(Len(copy)) /\ Len(copy) <= Len(file) /\ file = Words(Len(file))
  BY <1>2 DEF TInv, FilesOK
<1>4. outcome = "ok" /\ command # "stat" => copy = file
  BY <1>1 DEF TInv, OkayOK, Unsaid, AnswerOK
<1> HIDE DEF copy
<1>5. IsPrefix(copy, file)
  BY <1>2, <1>3, CopyIsPrefix
<1> QED BY <1>1, <1>4, <1>5 DEF TransferIntact, copy

(* A copy is at all times the first words of the file, in their order, and *)
(* a push, pull or list that returns has copied every word: the chunks, the *)
(* buffer that gathers requests and the packets that cut answers anywhere  *)
(* lose, repeat and reorder nothing.                                       *)
THEOREM TransfersArrive == Spec => []TransferIntact
<1>1. Spec => []TInv
  BY InitTransfer, TransferNext, PTL DEF Spec
<1> QED BY <1>1, TransferParts, PTL
=============================================================================
