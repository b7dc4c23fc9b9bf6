------------------------------ MODULE AdbTasks ------------------------------
(***************************************************************************)
(* The asyncio device (adb_device_async.py on tcp_transport_async.py):     *)
(* tasks of one event loop that run commands on one connection, and any of *)
(* which may be cancelled at any await.                                    *)
(*                                                                         *)
(* Module AdbStreams has threads, for which a packet is one step.  Here    *)
(* the steps are the awaits.  A task keeps the loop (running) until it has *)
(* to wait; a packet and a message have two parts, the header and the      *)
(* data, with an await before each, and inside each of a packet that comes *)
(* in pieces; and an exception, a cancellation or a timeout of the         *)
(* transport, may come out of every await.  _store_lock and _local_id_lock *)
(* are never waited for: there is no await inside their with blocks, so    *)
(* that they need no state.                                                *)
(***************************************************************************)
EXTENDS PacketQueues

CONSTANTS
  Tasks,       \* the tasks that use the device
  Calls,       \* Calls[t]: what t calls, among Ops and Resets
  Limit,       \* parts in the writer's buffer above which drain waits
  Chunks,      \* bound: WRTE packets the device sends on a stream
  MaxCalls,    \* bound: streams ever opened
  MaxCancels,  \* bound: cancellations
  MaxResets,   \* bound: calls of close() and connect()
  MaxTotal     \* bound: streams and calls of close() and connect() together

Shell == "shell"   \* reads until the device closes; a streaming_shell used to its end
Push  == "push"    \* request, answer, _clse, which an exception skips; so do stat and list
Pull  == "pull"    \* request, answer, _clse in a finally clause

Ops    == {Shell, Push, Pull}
Resets == {"close", "connect"}

VARIABLES
  running,    \* the task that has the event loop, or None
  task,       \* task[t]: where t is in its call, and its adb_info
  lock,       \* _transport_lock: its holder, or None
  waiters,    \* the tasks that wait for it, in their order
  conn,       \* the transport: "open", "closing", "closed" or "wedged"
  available,  \* _available
  store,      \* _packet_store
  local_id,   \* _local_id
  unsent,     \* parts in the writer's buffer or on their way to the device
  arriving,   \* parts on their way to the host or in the reader's buffer
  scrap,      \* the rest of a packet read in part is before them
  dev,        \* dev[l]: the device's end of the stream l
  half,       \* the message of which the device has the header only, or None
  deaf,       \* the device has lost the beginnings of the messages
  cancels, resets,  \* how often so far
  received,   \* ghost: received[l], the data handed to the caller
  complete,   \* ghost: the streams whose Shell command returned
  lossy,      \* ghost: the streams of which a packet was given up half way
  cut         \* ghost: "in", "out": a packet, a message of this connection was

wireVars == <<conn, unsent, arriving, scrap, dev, half, deaf>>
ghosts   == <<received, complete, lossy, cut>>
bounds   == <<cancels, resets>>
vars == <<running, task, lock, waiters, available, store, local_id, wireVars, bounds, ghosts>>

-----------------------------------------------------------------------------
(* Types.                                                                  *)

Lids == 1 .. MaxCalls
DevId(l) == MaxCalls + l        \* the device's own id for the stream l
Data == Lids \X (1 .. Chunks)   \* the i-th chunk of the stream l is <<l, i>>

Msg(cmd, arg0, arg1, data) ==
  [cmd |-> cmd, arg0 |-> arg0, arg1 |-> arg1, data |-> data]

Packet == [cmd : {"WRTE", "OKAY", "CLSE"}, arg0 : Nat, arg1 : Lids, data : Data \cup {None}]
Message == [cmd : {"OPEN", "OKAY", "WRTE", "CLSE"}, arg0 : Lids, arg1 : Nat,
            data : Ops \cup {None}]

Kinds == {"header", "data"}
HasData(p) == p.data # None
Parts(p) == IF HasData(p) THEN << <<"header", p>>, <<"data", p>> >> ELSE << <<"header", p>> >>

Sends  == {"open", "request", "okay", "clse", "reclose"}
Reads  == {"opened", "flush", "filesync", "stream", "clsed"}

ASSUME TasksAssumption ==
  /\ Calls \in [Tasks -> SUBSET (Ops \cup Resets)]
  /\ Limit \in Nat /\ Chunks \in Nat /\ MaxCalls \in Nat
  /\ MaxCancels \in Nat /\ MaxResets \in Nat /\ MaxTotal \in Nat
  /\ None \notin Tasks \cup Ops \cup Sends \cup Reads \cup Data \cup Message

(* Where a task can be.  At Pauses the loop always goes on to other tasks, *)
(* at MayPause only if what the task waits for is not there.               *)
Pauses   == {"queue", "file", "callback", "closing", "dial", "greet"}
MayPause == {"drain", "header", "data"}
Awaits   == Pauses \cup MayPause
Inside   == {"locked", "closing", "dial", "greet"} \cup MayPause

Task == [at : {"idle", "fast", "acquire"} \cup Pauses \cup Inside,
         step : Sends \cup Reads \cup Resets \cup {None}, op : Ops \cup {None},
         lid : Lids \cup {0}, rid : Nat \cup {None}, part : Kinds,
         pkt : Packet \cup {None}]

IdleTask == [at |-> "idle", step |-> None, op |-> None, lid |-> 0, rid |-> None,
             part |-> "header", pkt |-> None]

DevStream == [st : {"none", "open", "closed", "gone"}, op : Ops \cup {None},
              credit : 0 .. 1, n : 0 .. Chunks, asked : BOOLEAN]
Ended(d, how) == [d EXCEPT !.st = how, !.credit = 0, !.asked = FALSE]
NoStream == [st |-> "none", op |-> None, credit |-> 0, n |-> 0, asked |-> FALSE]

Stored == [cmd : {"WRTE", "OKAY", "CLSE"}, data : Data \cup {None}]

TypeOK ==
  /\ running \in Tasks \cup {None}
  /\ task \in [Tasks -> Task]
  /\ lock \in Tasks \cup {None} /\ waiters \in Seq(Tasks)
  /\ conn \in {"open", "closing", "closed", "wedged"}
  /\ available \in BOOLEAN /\ scrap \in BOOLEAN /\ deaf \in BOOLEAN
  /\ DOMAIN store \subseteq Nat \X Lids /\ \A k \in DOMAIN store : store[k] \in Seq(Stored)
  /\ local_id \in Lids \cup {0}
  /\ unsent \in Seq(Kinds \X Message) /\ arriving \in Seq(Kinds \X Packet)
  /\ dev \in [Lids -> DevStream] /\ half \in Message \cup {None}
  /\ cancels \in 0 .. MaxCancels /\ resets \in 0 .. MaxResets
  /\ received \in [Lids -> Seq(Data)]
  /\ complete \subseteq Lids /\ lossy \subseteq Lids /\ cut \subseteq {"in", "out"}

Init ==
  /\ running = None /\ task = [t \in Tasks |-> IdleTask]
  /\ lock = None /\ waiters = <<>>
  /\ conn = "open" /\ available = TRUE
  /\ store = EmptyStore /\ local_id = 0
  /\ unsent = <<>> /\ arriving = <<>> /\ scrap = FALSE
  /\ dev = [l \in Lids |-> NoStream] /\ half = None /\ deaf = FALSE
  /\ cancels = 0 /\ resets = 0
  /\ received = [l \in Lids |-> <<>>] /\ complete = {} /\ lossy = {} /\ cut = {}

-----------------------------------------------------------------------------
(* Calls: what a task does next.                                           *)

Goto(x, s) == [x EXCEPT !.step = s, !.part = "header",
                        !.at = IF s \in Reads THEN "fast" ELSE "acquire"]

(* Task t is now at x, with the loop unless it has to wait.                *)
Continue(t, x) ==
  /\ task' = [task EXCEPT ![t] = x]
  /\ running' = IF x.at \in Pauses \cup {"idle"} THEN None ELSE t

(* Task t has the loop, or the loop is free and t was waiting.             *)
Resumes(t, at) == task[t].at = at /\ running \in {t, None}

Has(t, at) == task[t].at = at /\ running = t

AfterOpen(x) == IF x.op = Shell THEN Goto(x, "stream") ELSE Goto(x, "request")

(* read returns p to _open, _filesync_flush, _clse, _read_until_close or   *)
(* _filesync_read_buffered; a WRTE is acknowledged before it is used.      *)
Returned(x, p) ==
  CASE x.step = "opened"                     -> AfterOpen([x EXCEPT !.rid = p.arg0])
    [] x.step = "flush"                      -> Goto(x, "filesync")
    [] x.step = "clsed"                      -> IdleTask
    [] x.step = "stream" /\ p.cmd = "CLSE"   -> Goto(x, "reclose")
    [] OTHER                                 -> Goto([x EXCEPT !.pkt = p], "okay")

(* The answer is complete with its last chunk: its length is in it.        *)
NextChunk(x, n) == Goto([x EXCEPT !.pkt = None], IF n = Chunks THEN "clse" ELSE "filesync")

(* send returns.  pull awaits the write of the data to its file.           *)
Sent(x) ==
  CASE x.step = "open"                   -> Goto(x, "opened")
    [] x.step = "request"                -> Goto(x, "flush")
    [] x.step = "clse"                   -> Goto(x, "clsed")
    [] x.step = "reclose"                -> IdleTask
    [] x.step = "okay" /\ x.op = Shell   -> Goto([x EXCEPT !.pkt = None], "stream")
    [] x.step = "okay" /\ x.op = Push    -> NextChunk(x, x.pkt.data[2])
    [] x.step = "okay" /\ x.op = Pull    -> [x EXCEPT !.at = "file"]

(* An exception: the finally clause of pull sends a CLSE, and so ends a    *)
(* pull that was cancelled only later.                                     *)
NoFinally(x) == IdleTask

CloseUntilAnswered(x) ==
  IF x.op = Pull /\ x.rid # None THEN Goto([x EXCEPT !.pkt = None], "clse") ELSE IdleTask

Raised(x) ==
  IF x.op = Pull /\ x.rid # None /\ x.step \notin {"clse", "clsed"}
  THEN Goto([x EXCEPT !.pkt = None], "clse")
  ELSE IdleTask

-----------------------------------------------------------------------------
(* What a read waits for.                                                  *)

Expected(s) ==
  CASE s \in {"opened", "flush"} -> {"OKAY"}
    [] s = "filesync"            -> {"WRTE"}
    [] s = "stream"              -> {"WRTE", "CLSE"}
    [] s = "clsed"               -> {"CLSE"}

AllowZeros(s) == s # "opened"

Matches(x) == IF AllowZeros(x.step) THEN FindAllowZeros(store, x.rid, x.lid)
                                    ELSE Find(store, x.rid, x.lid)

MatchRemoteOnly(x, p) == x.rid = None \/ p.arg0 \in {0, x.rid}

args_match(x, p) ==
  IF AllowZeros(x.step) THEN p.arg1 \in {0, x.lid} /\ p.arg0 \in {0, x.rid}
                        ELSE p.arg1 = x.lid /\ (x.rid = None \/ p.arg0 = x.rid)

-----------------------------------------------------------------------------
(* The transport lock: asyncio.Lock, which serves its waiters in order.    *)

(* First read tries the store: "this way, you won't be waiting for the     *)
(* transport if it isn't needed".                                          *)
AtLock(t) == Has(t, "acquire") \/ (Has(t, "fast") /\ Matches(task[t]) = {})

Queue(t) ==
  /\ AtLock(t)
  /\ lock # None \/ waiters # <<>>
  /\ waiters' = Append(waiters, t)
  /\ Continue(t, [task[t] EXCEPT !.at = "queue"])
  /\ UNCHANGED <<lock, available, store, local_id, wireVars, bounds, ghosts>>

(* Task t gets the lock, at once or woken by its release, and goes on.     *)
Enters(t) ==
  \/ /\ AtLock(t) /\ lock = None /\ waiters = <<>>
     /\ UNCHANGED waiters
  \/ /\ Resumes(t, "queue") /\ lock = None /\ Head(waiters) = t
     /\ waiters' = Tail(waiters)

(* The loop goes on to other tasks at an await whose result is not there:  *)
(* what is arriving may still be on its way.                               *)
Suspend(t) ==
  /\ running = t /\ conn # "closed"
  /\ \/ task[t].at \in {"header", "data"}
     \/ task[t].at = "drain" /\ Len(unsent) > Limit
  /\ running' = None
  /\ UNCHANGED <<task, lock, waiters, available, store, local_id, wireVars, bounds, ghosts>>

-----------------------------------------------------------------------------
(* send.                                                                   *)

MessageOf(x) ==
  CASE x.step = "open"                -> Msg("OPEN", x.lid, 0, x.op)
    [] x.step = "request"             -> Msg("WRTE", x.lid, x.rid, x.op)
    [] x.step = "okay"                -> Msg("OKAY", x.lid, x.rid, None)
    [] x.step \in {"clse", "reclose"} -> Msg("CLSE", x.lid, x.rid, None)

(* bulk_write: the whole part goes into the buffer, then drain.            *)
Write(t, x) ==
  /\ unsent' = Append(unsent, <<x.part, MessageOf(x)>>)
  /\ Continue(t, [x EXCEPT !.at = "drain"])

SendHeader(t) ==
  /\ Enters(t) /\ task[t].step \in Sends
  /\ conn = "open"
  /\ Write(t, task[t])
  /\ lock' = t
  /\ UNCHANGED <<available, store, local_id, conn, arriving, scrap, dev, half,
                 deaf, bounds, ghosts>>

(* Without the lock between the header and the data.                       *)
ReleaseEarly(t) ==
  /\ Resumes(t, "drain") /\ Len(unsent) <= Limit
  /\ task[t].part = "header" /\ HasData(MessageOf(task[t]))
  /\ lock' = None
  /\ Continue(t, [task[t] EXCEPT !.part = "data", !.at = "acquire"])
  /\ UNCHANGED <<waiters, available, store, local_id, wireVars, bounds, ghosts>>

(* drain returns after the header of a message with data.                  *)
SendData(t) ==
  /\ Resumes(t, "drain") /\ Len(unsent) <= Limit
  /\ task[t].part = "header" /\ HasData(MessageOf(task[t]))
  /\ Write(t, [task[t] EXCEPT !.part = "data"])
  /\ UNCHANGED <<lock, waiters, available, store, local_id, conn, arriving, scrap, dev, half,
                 deaf, bounds, ghosts>>

(* send is done: its caller has what it acknowledged.                      *)
Return(t, x) ==
  /\ lock' = None
  /\ Continue(t, Sent(x))
  /\ received' = IF x.step = "okay" THEN [received EXCEPT ![x.lid] = Append(@, x.pkt.data)]
                                    ELSE received
  /\ complete' = IF x.step = "reclose" THEN complete \cup {x.lid} ELSE complete

SendDone(t) ==
  /\ Resumes(t, "drain") /\ Len(unsent) <= Limit
  /\ task[t].part = "header" => ~HasData(MessageOf(task[t]))
  /\ Return(t, task[t])
  /\ UNCHANGED <<waiters, available, store, local_id, wireVars, bounds, lossy, cut>>

-----------------------------------------------------------------------------
(* read.                                                                   *)

(* One turn of a loop over the store: an expected packet is returned, any  *)
(* other is dropped and the loop goes on.                                  *)
TakeStored(t, here) ==
  \E k \in Matches(task[t]) :
    LET q == PacketAt(store, k)
        p == Msg(q.cmd, k[1], k[2], q.data)
    IN  /\ store' = AfterGet(store, k)
        /\ Continue(t, IF p.cmd \in Expected(task[t].step)
                       THEN Returned(task[t], p) ELSE [task[t] EXCEPT !.at = here])

ReadStore(t) ==
  /\ Has(t, "fast")
  /\ TakeStored(t, "fast")
  /\ UNCHANGED <<lock, waiters, available, local_id, wireVars, bounds, ghosts>>

(* Again under the lock, which is released if that returns a packet.       *)
RecheckStore(t) ==
  /\ Enters(t) \/ (Has(t, "locked") /\ UNCHANGED waiters)
  /\ task[t].step \in Reads
  /\ \/ TakeStored(t, "locked")
     \/ /\ Matches(task[t]) = {} /\ UNCHANGED store
        /\ Continue(t, [task[t] EXCEPT !.at = "header"])
  /\ lock' = IF task'[t].at \in {"locked", "header"} THEN t ELSE None
  /\ UNCHANGED <<available, local_id, wireVars, bounds, ghosts>>

(* The packet p is there: it is put into the store, returned or dropped,   *)
(* and the lock released, all without an await; in the last two cases the  *)
(* time is looked at (read_timeout_s) before another turn.                 *)
Dispatch(t, p) ==
  LET x == [task[t] EXCEPT !.pkt = None]
      k == <<p.arg0, p.arg1>>
  IN  /\ lock' = None
      /\ store' = CASE ~args_match(x, p) -> Put(store, k, p.cmd, p.data)
                    [] p.cmd = "CLSE" /\ args_match(x, p) -> Clear(store, k)
                    [] OTHER -> store
      /\ IF args_match(x, p) /\ p.cmd \in Expected(x.step)
         THEN Continue(t, Returned(x, p))
         ELSE Continue(t, [x EXCEPT !.at = "acquire"]) \/ Continue(t, Raised(x))

readRest == <<waiters, available, local_id, conn, unsent, dev, half, deaf, bounds, received,
              complete>>

(* The packets w after the first.                                          *)
AfterPacket(w) == IF HasData(Head(w)[2]) THEN Tail(Tail(w)) ELSE Tail(w)

(* The packet p is given up half way.                                      *)
GivenUp(p) == lossy' = lossy \cup {p.arg1} /\ cut' = cut \cup {"in"}

(* Bytes that were read for a header and are thrown away: of the rest of   *)
(* an earlier packet, all or some, or of the next packet, alone or after   *)
(* all of that rest.                                                       *)
HeaderSpoiled ==
  \/ scrap /\ scrap' \in BOOLEAN /\ UNCHANGED <<arriving, lossy, cut>>
  \/ /\ arriving # <<>>
     /\ arriving' = AfterPacket(arriving) /\ scrap' = TRUE
     /\ GivenUp(Head(arriving)[2])

(* _read_packet_from_device: the header, and the data if there are any.    *)
ReadHeader(t) ==
  /\ Resumes(t, "header") /\ conn \in {"open", "wedged"}
  /\ ~scrap /\ arriving # <<>>
  /\ LET p == Head(arriving)[2]
     IN  IF HasData(p) THEN /\ Continue(t, [task[t] EXCEPT !.pkt = p, !.at = "data"])
                            /\ UNCHANGED <<lock, store>>
                       ELSE Dispatch(t, p)
  /\ arriving' = Tail(arriving)
  /\ UNCHANGED <<scrap, lossy, cut, readRest>>

(* InvalidCommandError: the rest of a packet was read for a header.        *)
ReadNoHeader(t) ==
  /\ Resumes(t, "header") /\ conn \in {"open", "wedged"}
  /\ scrap /\ HeaderSpoiled
  /\ lock' = None
  /\ Continue(t, Raised(task[t]))
  /\ UNCHANGED <<store, readRest>>

DataIsThere(t) == /\ Resumes(t, "data")
                  /\ arriving # <<>> /\ Head(arriving) = <<"data", task[t].pkt>>
                  /\ arriving' = Tail(arriving)

(* An await between the wire and the store: the packet is given up with    *)
(* the task that was cancelled there.                                      *)
CancelledWithPacket(t) ==
  /\ DataIsThere(t)
  /\ \/ Dispatch(t, task[t].pkt)
     \/ lock' = None /\ Continue(t, Raised(task[t])) /\ UNCHANGED store
  /\ UNCHANGED <<scrap, lossy, cut, readRest>>

(* All of the data, and the checksum is right or InvalidChecksumError.     *)
ReadData(t) ==
  /\ DataIsThere(t)
  /\ \/ Dispatch(t, task[t].pkt) /\ UNCHANGED <<lossy, cut>>
     \/ /\ GivenUp(task[t].pkt)
        /\ lock' = None /\ Continue(t, Raised(task[t])) /\ UNCHANGED store
  /\ UNCHANGED <<scrap, readRest>>

-----------------------------------------------------------------------------
(* Exceptions at an await.                                                 *)

(* The queue q without t: deque.remove.                                    *)
Without(q, t) ==
  LET k == CHOOSE i \in DOMAIN q : q[i] = t
  IN  IF \A i \in DOMAIN q : q[i] # t THEN q
      ELSE [i \in 1 .. Len(q) - 1 |-> q[IF i < k THEN i ELSE i + 1]]

(* What an exception at an await of the task x makes of the packet or the *)
(* message that x was at: some of its header was read, or some or none of  *)
(* its data, or its header was sent and its data will never be.            *)
Interrupted(x) ==
  \/ x.at = "header" /\ HeaderSpoiled
  \/ /\ x.at = "data" /\ GivenUp(x.pkt)
     /\ arriving' = Tail(arriving) /\ scrap' = TRUE
  \/ /\ x.at # "data"
     /\ cut' = IF x.at = "drain" /\ x.part = "header" /\ HasData(MessageOf(x))
               THEN cut \cup {"out"} ELSE cut
     /\ UNCHANGED <<arriving, scrap, lossy>>

(* What an exception at an await of t leaves.  A progress_callback is      *)
(* called inside "except: pass", which swallows a cancellation too.        *)
Strike(t) ==
  LET x == task[t]
  IN  /\ lock' = IF lock = t THEN None ELSE lock
      /\ waiters' = Without(waiters, t)
      /\ Continue(t, IF x.at = "callback" THEN NextChunk(x, x.pkt.data[2]) ELSE Raised(x))
      /\ conn' = IF x.at = "closing" THEN "wedged" ELSE conn
      /\ Interrupted(x)
      /\ UNCHANGED <<available, store, local_id, unsent, dev, half, deaf, received, complete>>

(* The lock is not released.                                               *)
CancelLocked(t) ==
  /\ running = None /\ task[t].at \in Awaits
  /\ cancels < MaxCancels /\ cancels' = cancels + 1
  /\ lock' = lock
  /\ waiters' = Without(waiters, t)
  /\ Continue(t, Raised(task[t]))
  /\ UNCHANGED <<available, store, local_id, wireVars, resets, ghosts>>

(* Task.cancel, while the loop has other things to do.                     *)
Cancel(t) ==
  /\ running = None /\ task[t].at \in Awaits
  /\ cancels < MaxCancels /\ cancels' = cancels + 1
  /\ Strike(t)
  /\ UNCHANGED resets

(* TcpTimeoutException.  A part that was to be drained stays in the        *)
(* buffer.  A failure of the handshake is taken as one of these.           *)
Timeout(t) ==
  /\ running = None
  /\ \/ task[t].at \in {"header", "data", "dial", "greet"}
     \/ task[t].at = "drain" /\ Len(unsent) > Limit
  /\ Strike(t)
  /\ UNCHANGED bounds

(* Without a connection _reader and _writer are None: AttributeError.  A   *)
(* writer that was closed drops what it is given, and drain raises         *)
(* ConnectionResetError once the connection is gone.                       *)
NoConnection(t) ==
  /\ \/ Enters(t) /\ task[t].step \in Sends /\ conn \in {"closed", "wedged"}
     \/ Has(t, "header") /\ conn = "closed" /\ UNCHANGED waiters
  /\ lock' = None
  /\ Continue(t, Raised(task[t]))
  /\ UNCHANGED <<available, store, local_id, wireVars, bounds, ghosts>>

SendNowhere(t) ==
  /\ Enters(t) /\ task[t].step \in Sends /\ conn = "wedged"
  /\ Return(t, task[t])
  /\ UNCHANGED <<available, store, local_id, wireVars, bounds, lossy, cut>>

(* _open, as far as its send: the check of available, the local id.        *)
Start(t, o) ==
  /\ running = None /\ task[t].at = "idle"
  /\ available
  /\ local_id < MaxCalls /\ local_id + resets < MaxTotal
  /\ local_id' = local_id + 1
  /\ Continue(t, Goto([IdleTask EXCEPT !.op = o, !.lid = local_id'], "open"))
  /\ UNCHANGED <<lock, waiters, available, store, wireVars, bounds, ghosts>>

(* pull: the data are written, and a progress_callback may be awaited.     *)
WriteFile(t) ==
  /\ Resumes(t, "file")
  /\ \/ Continue(t, [task[t] EXCEPT !.at = "callback"])
     \/ Continue(t, NextChunk(task[t], task[t].pkt.data[2]))
  /\ UNCHANGED <<lock, waiters, available, store, local_id, wireVars, bounds, ghosts>>

CalledBack(t) ==
  /\ Resumes(t, "callback")
  /\ Continue(t, NextChunk(task[t], task[t].pkt.data[2]))
  /\ UNCHANGED <<lock, waiters, available, store, local_id, wireVars, bounds, ghosts>>

-----------------------------------------------------------------------------
(* close and connect.                                                      *)

CallReset(t, call) ==
  /\ running = None /\ task[t].at = "idle"
  /\ resets < MaxResets /\ local_id + resets < MaxTotal
  /\ resets' = resets + 1
  /\ available' = FALSE
  /\ Continue(t, Goto(IdleTask, call))
  /\ UNCHANGED <<lock, waiters, store, local_id, wireVars, cancels, ghosts>>

(* TcpTransportAsync.close: the writer is closed, and what it holds is     *)
(* sent before wait_closed returns.  What is arriving may never arrive.    *)
BeginClosing(t) ==
  /\ Enters(t) /\ task[t].step \in Resets
  /\ lock' = t
  /\ conn = "open" /\ conn' = "closing"
  /\ dev' = [l \in Lids |-> IF dev[l].st = "none" THEN dev[l] ELSE Ended(dev[l], "gone")]
  /\ half' = None /\ deaf' = FALSE /\ cut' = cut \ {"out"}
  /\ Continue(t, [task[t] EXCEPT !.at = "closing"])
  /\ UNCHANGED <<available, store, local_id, unsent, arriving, scrap, bounds, received,
                 complete, lossy>>

(* The rest of close, and connect as far as open_connection.               *)
Emptied(t, newStore) ==
  /\ store' = newStore
  /\ conn' = "closed" /\ arriving' = <<>> /\ scrap' = FALSE /\ cut' = {}
  /\ \/ /\ task[t].step = "close"
        /\ lock' = None /\ Continue(t, IdleTask)
     \/ /\ task[t].step = "connect"
        /\ lock' = t /\ Continue(t, [task[t] EXCEPT !.at = "dial"])
  /\ UNCHANGED <<available, local_id, unsent, dev, half, deaf, bounds, received, complete,
                 lossy>>

Closing(t) == \/ Resumes(t, "closing") /\ unsent = <<>> /\ UNCHANGED waiters
              \/ Enters(t) /\ task[t].step \in Resets /\ conn = "closed"

CloseKeepingStore(t) == Closing(t) /\ Emptied(t, store)

CloseTransport(t) == Closing(t) /\ Emptied(t, EmptyStore)

(* wait_closed awaits a future that a cancellation has cancelled for good, *)
(* so that close raises CancelledError from then on.                       *)
CloseWedged(t) ==
  /\ Enters(t) /\ task[t].step \in Resets /\ conn = "wedged"
  /\ lock' = None /\ Continue(t, IdleTask)
  /\ UNCHANGED <<available, store, local_id, wireVars, bounds, ghosts>>

Dialed(t) ==
  /\ Resumes(t, "dial")
  /\ conn' = "open"
  /\ Continue(t, [task[t] EXCEPT !.at = "greet"])
  /\ UNCHANGED <<lock, waiters, available, store, local_id, unsent, arriving, scrap, dev, half,
                 deaf, bounds, ghosts>>

(* The handshake (module AdbConnect) under the lock; there is no await     *)
(* between its end, the release and the assignment to _available.          *)
Greeted(t) ==
  /\ Resumes(t, "greet")
  /\ available' = TRUE
  /\ lock' = None /\ Continue(t, IdleTask)
  /\ UNCHANGED <<waiters, store, local_id, wireVars, bounds, ghosts>>

-----------------------------------------------------------------------------
(* The device (adbd), as far as the client's code and tests show it.       *)

devRest == <<running, task, lock, waiters, available, store, local_id, conn, scrap, bounds,
             ghosts>>

Answer(cmd, arg0, l) == arriving' = arriving \o Parts(Msg(cmd, arg0, l, None))

DevOpen(m) ==
  \/ /\ dev' = [dev EXCEPT ![m.arg0] =
                  [st |-> "open", op |-> m.data, credit |-> 1, n |-> 0, asked |-> FALSE]]
     /\ Answer("OKAY", DevId(m.arg0), m.arg0)
  \/ Answer("CLSE", 0, m.arg0) /\ UNCHANGED dev

(* A stream that is not open ignores what comes for it.                    *)
DevHandle(m) ==
  LET l == m.arg0
  IN  CASE m.cmd = "OPEN" -> DevOpen(m)
        [] m.cmd # "OPEN" /\ dev[l].st # "open" -> UNCHANGED <<dev, arriving>>
        [] m.cmd = "OKAY" /\ dev[l].st = "open" ->
             dev' = [dev EXCEPT ![l].credit = 1] /\ UNCHANGED arriving
        [] m.cmd = "WRTE" /\ dev[l].st = "open" ->
             dev' = [dev EXCEPT ![l].asked = TRUE] /\ Answer("OKAY", DevId(l), l)
        [] m.cmd = "CLSE" /\ dev[l].st = "open" ->
             dev' = [dev EXCEPT ![l] = Ended(@, "closed")] /\ Answer("CLSE", DevId(l), l)

(* The device takes the next part.  One that is not the part it needs now  *)
(* tells it nothing, and neither does anything after it.                   *)
DevTake ==
  /\ unsent # <<>> /\ unsent' = Tail(unsent)
  /\ LET kind == Head(unsent)[1]
         m == Head(unsent)[2]
     IN  CASE conn # "open" \/ deaf -> UNCHANGED <<dev, arriving, half, deaf>>
           [] conn = "open" /\ ~deaf /\ half = None /\ kind = "header" ->
                IF HasData(m) THEN half' = m /\ UNCHANGED <<dev, arriving, deaf>>
                              ELSE DevHandle(m) /\ UNCHANGED <<half, deaf>>
           [] conn = "open" /\ ~deaf /\ kind = "data" /\ half = m ->
                half' = None /\ DevHandle(m) /\ UNCHANGED deaf
           [] OTHER -> deaf' = TRUE /\ UNCHANGED <<dev, arriving, half>>
  /\ UNCHANGED devRest

(* One WRTE per OKAY, for a file once it was asked for.                    *)
DevSend(l) ==
  /\ conn = "open" /\ dev[l].st = "open" /\ dev[l].credit = 1 /\ dev[l].n < Chunks
  /\ dev[l].op = Shell \/ dev[l].asked
  /\ dev' = [dev EXCEPT ![l].n = @ + 1, ![l].credit = 0]
  /\ arriving' = arriving \o Parts(Msg("WRTE", DevId(l), l, <<l, dev[l].n + 1>>))
  /\ UNCHANGED <<devRest, unsent, half, deaf>>

DevClose(l) ==
  /\ conn = "open" /\ dev[l].st = "open" /\ dev[l].op = Shell
  /\ dev' = [dev EXCEPT ![l] = Ended(@, "closed")]
  /\ Answer("CLSE", DevId(l), l)
  /\ UNCHANGED <<devRest, unsent, half, deaf>>

(* The buffers of the reader and the writer change in callbacks of the     *)
(* loop, so that a task that has the loop sees nothing of the device.      *)
Device == running = None /\ (DevTake \/ \E l \in Lids : DevSend(l) \/ DevClose(l))

-----------------------------------------------------------------------------
(* The system.                                                             *)

Run(t) ==
  \/ Queue(t) \/ Suspend(t)
  \/ SendHeader(t) \/ SendData(t) \/ SendDone(t) \/ SendNowhere(t)
  \/ ReadStore(t) \/ RecheckStore(t) \/ ReadHeader(t) \/ ReadNoHeader(t) \/ ReadData(t)
  \/ Timeout(t) \/ NoConnection(t) \/ WriteFile(t) \/ CalledBack(t)
  \/ BeginClosing(t) \/ CloseTransport(t) \/ CloseWedged(t) \/ Dialed(t) \/ Greeted(t)

Call(t) == \/ \E o \in Calls[t] \cap Ops : Start(t, o)
           \/ \E c \in Calls[t] \cap Resets : CallReset(t, c)

Resting == (\A t \in Tasks : task[t].at = "idle") /\ UNCHANGED vars

Next == Device \/ Resting \/ \E t \in Tasks : Run(t) \/ Call(t) \/ Cancel(t)

Spec == Init /\ [][Next]_vars

(* The loop runs every task that can go on, a wait for the transport ends  *)
(* or times out, and the device takes what is sent.                        *)
FairSpec == Spec /\ WF_vars(Device) /\ \A t \in Tasks : WF_vars(Run(t))

-----------------------------------------------------------------------------
(* Properties.                                                             *)

(* All variables have their types.  The lock is held by the task that is   *)
(* inside a with block and by no other, and a task waits for it only once: *)
(* whatever exception leaves an await, and with others in the queue, the   *)
(* lock is released and handed on.                                         *)
LockFollowsTasks ==
  /\ TypeOK
  /\ \A t \in Tasks : lock = t <=> task[t].at \in Inside
  /\ \A t \in Tasks : task[t].at = "queue" <=> \E i \in DOMAIN waiters : waiters[i] = t
  /\ \A i, j \in DOMAIN waiters : waiters[i] = waiters[j] => i = j

(* Whatever the tasks that send at the same time, the device sees every    *)
(* message whole, its header followed by its data, until a task is struck  *)
(* between the two: a part that timed out in drain is sent all the same.   *)
(* Whatever the tasks that read, the one that has read a header finds its  *)
(* data, and no other; and what is read as a header begins where a packet  *)
(* does, until one was given up half way: a cancellation while a task      *)
(* waits for a packet of which nothing has come, for the lock, for a send  *)
(* or for a file costs nothing.                                            *)
WholeUnlessCut ==
  /\ deaf => "out" \in cut
  /\ scrap => "in" \in cut
  /\ arriving # <<>> =>
       Head(arriving)[1] = IF \E t \in Tasks : task[t].at = "data" THEN "data" ELSE "header"

(* The data of a stream on their way to its reader t, each with its place: *)
(* in the reader's hand, in the store, in the hand of whoever has read the *)
(* header of its packet, on the wire.                                      *)
Chunk(p, l) == p.cmd = "WRTE" /\ p.arg1 = l

InTransit(t) ==
  LET l == task[t].lid
      q == QueueOf(store, <<DevId(l), l>>)
      OnWire(part) == part[1] = "header" /\ Chunk(part[2], l)
  IN  {<<0, 0, task[u].pkt.data>> : u \in {x \in {t} : task[x].step = "okay"}}
      \cup {<<1, i, q[i].data>> : i \in {j \in DOMAIN q : q[j].cmd = "WRTE"}}
      \cup {<<2, 0, task[u].pkt.data>> :
              u \in {x \in Tasks : task[x].at = "data" /\ Chunk(task[x].pkt, l)}}
      \cup {<<3, i, arriving[i][2].data>> : i \in {j \in DOMAIN arriving : OnWire(arriving[j])}}

Ahead(a, b) == a[1] < b[1] \/ (a[1] = b[1] /\ a[2] < b[2])

SentBy(l) == [i \in 1 .. dev[l].n |-> <<l, i>>]

(* Cancelling a task that reads for others loses nothing of theirs: unless *)
(* a packet of its stream was given up half way, the caller of a command   *)
(* that still reads its stream was given the first of the device's chunks, *)
(* and the others are in transit, each in one place and in the order of    *)
(* the places.                                                             *)
NothingLost ==
  \A t \in Tasks :
    LET l == task[t].lid
        got == Len(received[l])
    IN  /\ task[t].step \in {"stream", "flush", "filesync", "okay"}
        /\ task[t].at \notin {"file", "callback"}
        /\ l \notin lossy /\ dev[l].st # "gone"
        => /\ received[l] = [i \in 1 .. got |-> <<l, i>>]
           /\ {c[3] : c \in InTransit(t)} = {<<l, i>> : i \in got + 1 .. dev[l].n}
           /\ \A a, b \in InTransit(t) : Ahead(a, b) => a[3][2] < b[3][2]

(* Every task's stream is an ordered channel of its own, even when tasks   *)
(* are cancelled in the middle of packets: what is left of a packet is an  *)
(* error for whoever reads it, and never handed to a caller.  The channel  *)
(* is a reliable one unless one of its own packets was given up.  It is    *)
(* the last of its chunks that is lost, for the device sends the next only *)
(* when told that it came.                                                 *)
Channels == INSTANCE StreamChannels WITH
  Stream <- Lids, Datum <- Data,
  sent <- [l \in Lids |-> SentBy(l)],
  at <- [l \in Lids |-> Len(received[l])],
  closed <- {l \in Lids : dev[l].st \in {"closed", "gone"}}

ImplementsChannels == Channels!Spec

(* A pull that knows its stream ends nowhere but in its _clse: after an    *)
(* error or a cancellation at any await it has still to send a CLSE and to *)
(* wait for the answer (adb_device_async.py:1032-1035), where a second     *)
(* exception ends it.                                                      *)
PullCloses ==
  [][\A t \in Tasks :
       task[t].op = Pull /\ task[t].rid # None /\ task'[t].at = "idle"
       => task[t].step \in {"clse", "clsed"}]_vars

(* A connection works again after connect, whatever was cut or cancelled   *)
(* before, except by a cancellation inside close: when the device becomes  *)
(* available nothing is left of what was cut on an earlier connection, and *)
(* once the transport is wedged it stays so and no connect succeeds.       *)
AvailableOrWedged ==
  [][(conn = "wedged" => conn' = "wedged" /\ (available' => available))
     /\ (available' /\ ~available =>
           conn' = "open" /\ ~scrap' /\ ~deaf' /\ DOMAIN store' = {})]_vars

(* Every call ends: the tasks in the queue are served, and no exception at *)
(* an await leaves the lock held or the loop waiting.  Only so many calls  *)
(* are made, so that all tasks come to rest.                               *)
CallsEnd == []<>(\A t \in Tasks : task[t].at = "idle")
=============================================================================
