----------------------------- MODULE AdbStreams -----------------------------
(***************************************************************************)
(* Threads that run commands on one device over one connection: the class  *)
(* _AdbIOManager and the commands of AdbDevice that use it (adb_device.py; *)
(* adb_device_async.py is the same code with tasks for threads).           *)
(*                                                                         *)
(* A command opens a stream (_open) and then either consumes its output    *)
(* until the device closes it (shell, exec_out, root, streaming_shell), or *)
(* sends a file-sync request, consumes the answer and closes the stream    *)
(* itself (stat, and the same way list and push; pull, whose finally       *)
(* clause closes it on an error too), or leaves it (reboot).  All streams  *)
(* share one wire.  A reader that finds another stream's packet on the     *)
(* wire puts it in the packet store for its owner.                         *)
(*                                                                         *)
(* An action is what a thread does between two points where another thread *)
(* can see or change what it uses: acquiring a lock, and the wire.         *)
(***************************************************************************)
EXTENDS PacketQueues

CONSTANTS
  Threads,     \* the caller's threads
  Ops,         \* the commands they run, among Shell, Stat, Pull and Reboot
  IdModulus,   \* 2^32 in the code: the local ids are 1 .. IdModulus - 1
  Patient,     \* TRUE: a timeout strikes only when nothing can arrive any more,
               \* and no packet is spoiled
  Window,      \* WRTE packets the device sends ahead of the host's OKAYs
  MaxOps,      \* bound: streams ever opened
  Chunks,      \* bound: WRTE packets the device sends on a stream
  MaxResets    \* bound: calls of close() and connect()

Shell  == "shell"    \* reads until the device closes the stream; root and exec_out
                     \* likewise, and a streaming_shell used to its end
Stat   == "stat"     \* request, answer, _clse, which an error skips
Pull   == "pull"     \* request, answer, _clse in a finally clause
Reboot == "reboot"   \* opens a stream and leaves it

Calls == {"open", "stream", "flush", "filesync", "clse"}   \* who called read

ASSUME StreamsAssumption ==
  /\ Ops \subseteq {Shell, Stat, Pull, Reboot}
  /\ Patient \in BOOLEAN
  /\ MaxOps \in Nat /\ Chunks \in Nat /\ MaxResets \in Nat
  /\ Window \in Nat \ {0}
  /\ IdModulus \in Nat /\ MaxOps < IdModulus   \* no id is used a second time
  /\ None \notin Threads \cup Ops \cup Calls

VARIABLES
  th,              \* th[t]: where thread t is in its command, and its adb_info
  transport_lock,  \* _transport_lock: its holder, or None
  store_lock,      \* _store_lock: its holder between two steps, or None
  store,           \* _packet_store
  local_id,        \* _local_id, the last id given out
  connected,       \* the transport has a connection
  available,       \* _available
  to_host,         \* packets sent by the device and not yet read
  scrap,           \* the rest of a packet read in part is before them
  to_dev,          \* packets sent by the host and not yet handled
  dev,             \* dev[l]: the device's end of the stream with local id l
  dev_id,          \* the last id the device gave out on this connection
  resets,          \* calls of close() and connect() so far
  received,        \* ghost: received[l], the data handed to the caller
  complete,        \* ghost: the streams whose Shell command returned
  lossy,           \* ghost: the streams of which a read has spoiled a packet
  left             \* ghost: the streams a Shell command left before their end

ioVars  == <<transport_lock, store_lock, store>>
devVars == <<dev, dev_id>>
vars == <<th, transport_lock, store_lock, store, local_id, connected, available,
          to_host, scrap, to_dev, dev, dev_id, resets, received, complete, lossy, left>>

-----------------------------------------------------------------------------
(* Types.                                                                  *)

Lids == 1 .. MaxOps

Data == Lids \X (1 .. Chunks)   \* the i-th chunk of the stream l is <<l, i>>

(* A packet from the device carries its ids; a stored one has them as key. *)
Packet == [cmd : {"WRTE"}, arg0 : Nat, arg1 : Lids, data : Data]
          \cup [cmd : {"OKAY", "CLSE"}, arg0 : Nat, arg1 : Lids, data : {None}]

Stored == [cmd : {"WRTE"}, data : Data] \cup [cmd : {"OKAY", "CLSE"}, data : {None}]

HostPacket == [cmd : {"OPEN", "OKAY", "WRTE", "CLSE"},
               arg0 : Lids, arg1 : Nat, data : Ops \cup {None}]

Msg(cmd, arg0, arg1, data) ==
  [cmd |-> cmd, arg0 |-> arg0, arg1 |-> arg1, data |-> data]

Sending == {"open", "request", "okay", "clse", "reclose"}
Reading == {"fast", "lock", "recheck", "wire", "dispatch", "time"}
(* A thread: the next step (pc), its command, the caller of the read it is *)
(* in (ctx), local_id and remote_id of its adb_info, the packet in hand,   *)
(* and whether it is in the finally clause of a failed pull.               *)
Thread == [pc : {"idle", "close", "connect", "connected"} \cup Sending \cup Reading,
           op : Ops \cup {None}, ctx : Calls \cup {None}, lid : Lids \cup {0},
           rid : Nat \cup {None}, pkt : Packet \cup {None}, failing : BOOLEAN]

(* What the steps of a command rely on: it has its id and its reader, once *)
(* open it knows the device's id, and the packets in hand are right.       *)
ThreadOK(x) ==
  /\ x.pc \in Sending \cup Reading => x.op \in Ops /\ x.lid \in Lids
  /\ x.pc \in Reading => x.ctx \in Calls
  /\ x.pc = "open" => x.ctx = None
  /\ x.pc \in Sending \ {"open"} => x.ctx \in Calls \ {"open"}
  /\ x.pc \in (Sending \ {"open"}) \cup Reading /\ x.ctx # "open" => x.rid \in Nat
  /\ x.pc = "okay" => x.pkt \in Packet /\ x.pkt.cmd = "WRTE"
  /\ x.pc = "dispatch" => x.pkt \in Packet

IdleThread == [pc |-> "idle", op |-> None, ctx |-> None, lid |-> 0,
               rid |-> None, pkt |-> None, failing |-> FALSE]

(* The device's end of a stream: credit counts the WRTEs it may still send *)
(* before the next OKAY, n those it has sent; "gone" is a stream of an     *)
(* earlier connection.                                                     *)
DevStream == [st : {"none", "open", "closed", "gone"}, rid : Nat, op : Ops \cup {None},
              credit : 0 .. Window, n : 0 .. Chunks, asked : BOOLEAN]

NoStream == [st |-> "none", rid |-> 0, op |-> None, credit |-> 0, n |-> 0, asked |-> FALSE]

StoreOK == /\ DOMAIN store \subseteq Nat \X Lids
           /\ \A k \in DOMAIN store : store[k] \in Seq(Stored)

TypeOK ==
  /\ th \in [Threads -> Thread]
  /\ \A t \in Threads : ThreadOK(th[t])
  /\ transport_lock \in Threads \cup {None}
  /\ store_lock \in Threads \cup {None}
  /\ StoreOK
  /\ local_id \in Lids \cup {0}
  /\ connected \in BOOLEAN /\ available \in BOOLEAN
  /\ to_host \in Seq(Packet) /\ scrap \in BOOLEAN /\ to_dev \in Seq(HostPacket)
  /\ dev \in [Lids -> DevStream] /\ dev_id \in Nat
  /\ resets \in 0 .. MaxResets
  /\ received \in [Lids -> Seq(Data)]
  /\ complete \subseteq Lids /\ lossy \subseteq Lids /\ left \subseteq Lids

(* Just connected: _AdbIOManager.connect returned and nothing was opened.  *)
Init ==
  /\ th = [t \in Threads |-> IdleThread]
  /\ transport_lock = None /\ store_lock = None
  /\ store = EmptyStore
  /\ local_id = 0
  /\ connected = TRUE /\ available = TRUE
  /\ to_host = <<>> /\ scrap = FALSE /\ to_dev = <<>>
  /\ dev = [l \in Lids |-> NoStream] /\ dev_id = 0
  /\ resets = 0
  /\ received = [l \in Lids |-> <<>>] /\ complete = {}
  /\ lossy = {} /\ left = {}

-----------------------------------------------------------------------------
(* _AdbIOManager.read: what each caller expects, and with which ids.       *)


Expected(c) ==
  CASE c \in {"open", "flush"} -> {"OKAY"}
    [] c = "filesync"          -> {"WRTE"}
    [] c = "stream"            -> {"WRTE", "CLSE"}
    [] c = "clse"              -> {"CLSE"}

AllowZeros(c) == c # "open"

BeginRead(x, c) == [x EXCEPT !.pc = "fast", !.ctx = c]

Matches(x) == IF AllowZeros(x.ctx) THEN FindAllowZeros(store, x.rid, x.lid)
                                   ELSE Find(store, x.rid, x.lid)

MatchRemoteOnly(x, p) == x.rid = None \/ p.arg0 \in {0, x.rid}

args_match(x, p) ==
  IF AllowZeros(x.ctx)
  THEN p.arg1 \in {0, x.lid} /\ (x.rid = None \/ p.arg0 \in {0, x.rid})
  ELSE p.arg1 = x.lid /\ (x.rid = None \/ p.arg0 = x.rid)

(* What the thread x does with the packet its read returns.  A WRTE is     *)
(* acknowledged first and handed to the caller after that (_read_until).   *)
FirstStep(x) ==
  CASE x.op = Shell            -> BeginRead(x, "stream")
    [] x.op \in {Stat, Pull}   -> [x EXCEPT !.pc = "request", !.ctx = "flush"]
    [] x.op = Reboot           -> IdleThread

OpenedAnonymously(x, r) == FirstStep(x)

Opened(x, r) == FirstStep([x EXCEPT !.rid = r])

Returned(x, p) ==
  CASE x.ctx = "open"                    -> Opened(x, p.arg0)
    [] x.ctx = "flush"                   -> BeginRead(x, "filesync")
    [] x.ctx = "clse"                    -> IdleThread
    [] x.ctx = "stream" /\ p.cmd = "CLSE" -> [x EXCEPT !.pc = "reclose"]
    [] OTHER                             -> [x EXCEPT !.pc = "okay", !.pkt = p]

(* An exception in the thread x: only pull has a finally clause, whose own *)
(* exceptions end it.                                                      *)
Raised(x) ==
  IF x.op = Pull /\ x.ctx \in {"flush", "filesync"} /\ x.pc # "clse"
  THEN [x EXCEPT !.pc = "clse", !.pkt = None, !.failing = TRUE]
  ELSE IdleThread

-----------------------------------------------------------------------------
(* The steps of read.                                                      *)

(* One turn of a loop over the store, under the store lock: a packet of    *)
(* the stream is taken; if it is not an expected one it is dropped and the *)
(* lock kept for the next turn.  An empty search ends the loop.            *)
Found(t, k) ==
  LET p == Msg(PacketAt(store, k).cmd, k[1], k[2], PacketAt(store, k).data)
  IN  /\ store' = AfterGet(store, k)
      /\ IF p.cmd \in Expected(th[t].ctx)
         THEN /\ th' = [th EXCEPT ![t] = Returned(@, p)]
              /\ store_lock' = None
              /\ transport_lock' = IF transport_lock = t THEN None ELSE transport_lock
         ELSE /\ store_lock' = t
              /\ UNCHANGED <<th, transport_lock>>

NotFound(t, next) ==
  /\ Matches(th[t]) = {}
  /\ th' = [th EXCEPT ![t].pc = next]
  /\ store_lock' = None
  /\ UNCHANGED <<store, transport_lock>>

SearchStore(t, from, next) ==
  /\ th[t].pc = from
  /\ store_lock \in {None, t}
  /\ NotFound(t, next) \/ \E k \in Matches(th[t]) : Found(t, k)
  /\ UNCHANGED <<local_id, connected, available, to_host, scrap, to_dev, devVars, resets,
                 received, complete, lossy, left>>

(* First try the store, so as not to wait for the transport needlessly.    *)
ReadStore(t) == SearchStore(t, "fast", "lock")

(* The recheck left out.                                                   *)
NoRecheck(t) ==
  /\ th[t].pc = "recheck"
  /\ th' = [th EXCEPT ![t].pc = "wire"]
  /\ UNCHANGED <<ioVars, local_id, connected, available, to_host, scrap, to_dev, devVars,
                 resets, received, complete, lossy, left>>

LockTransport(t) ==
  /\ th[t].pc = "lock"
  /\ transport_lock = None
  /\ transport_lock' = t
  /\ th' = [th EXCEPT ![t].pc = "recheck"]
  /\ UNCHANGED <<store_lock, store, local_id, connected, available, to_host, scrap, to_dev,
                 devVars, resets, received, complete, lossy, left>>

(* Try again, for a packet may have been stored during the wait.           *)
RecheckStore(t) == SearchStore(t, "recheck", "wire")

(* _read_packet_from_device when it returns: header and data of a packet.  *)
ReadWire(t) ==
  /\ th[t].pc = "wire"
  /\ connected
  /\ ~scrap
  /\ to_host # <<>>
  /\ th' = [th EXCEPT ![t].pc = "dispatch", ![t].pkt = Head(to_host)]
  /\ to_host' = Tail(to_host)
  /\ UNCHANGED <<ioVars, local_id, connected, available, scrap, to_dev, devVars, resets,
                 received, complete, lossy, left>>

(* The packet goes to the store if it is another stream's; if it is an     *)
(* expected one read returns it; else it is dropped.  The transport lock   *)
(* is released in any case.                                                *)
Dispatch(t) ==
  LET x == [th[t] EXCEPT !.pkt = None]
      p == th[t].pkt
      k == <<p.arg0, p.arg1>>
  IN  /\ th[t].pc = "dispatch"
      /\ IF ~args_match(x, p)
         THEN /\ store_lock = None
              /\ store' = Put(store, k, p.cmd, p.data)
              /\ th' = [th EXCEPT ![t] = [x EXCEPT !.pc = "time"]]
         ELSE /\ p.cmd = "CLSE" => store_lock = None
              /\ store' = IF p.cmd = "CLSE" THEN Clear(store, k) ELSE store
              /\ th' = [th EXCEPT ![t] = IF p.cmd \in Expected(x.ctx)
                                         THEN Returned(x, p)
                                         ELSE [x EXCEPT !.pc = "time"]]
      /\ transport_lock' = None
      /\ UNCHANGED <<store_lock, local_id, connected, available, to_host, scrap, to_dev,
                     devVars, resets, received, complete, lossy, left>>

-----------------------------------------------------------------------------
(* Opening, sending, timing out.                                           *)

(* _open up to its send: the id is taken under _local_id_lock.  The check  *)
(* of available comes first; a thread it stops raises and changes nothing. *)
Start(t, o) ==
  /\ th[t].pc = "idle"
  /\ available
  /\ local_id < MaxOps
  /\ local_id' = IF local_id + 1 = IdModulus THEN 1 ELSE local_id + 1
  /\ th' = [th EXCEPT ![t] = [IdleThread EXCEPT !.pc = "open", !.op = o, !.lid = local_id']]
  /\ UNCHANGED <<ioVars, connected, available, to_host, scrap, to_dev, devVars, resets,
                 received, complete, lossy, left>>

(* The message each sending step sends.                                    *)
Message(x) ==
  CASE x.pc = "open"              -> Msg("OPEN", x.lid, 0, x.op)
    [] x.pc = "request"           -> Msg("WRTE", x.lid, x.rid, None)
    [] x.pc = "okay"              -> Msg("OKAY", x.lid, x.rid, None)
    [] x.pc \in {"clse", "reclose"} -> Msg("CLSE", x.lid, x.rid, None)

(* After the send.  The answer to a request is complete with its last      *)
(* chunk (the caller knows its length), and the command then calls _clse.  *)
Sent(x) ==
  CASE x.pc = "open"    -> BeginRead(x, "open")
    [] x.pc = "request" -> BeginRead(x, "flush")
    [] x.pc = "clse"    -> BeginRead(x, "clse")
    [] x.pc = "reclose" -> IdleThread
    [] x.pc = "okay"    ->
         LET y == [x EXCEPT !.pkt = None]
         IN  IF x.ctx = "filesync" /\ x.pkt.data[2] = Chunks
             THEN [y EXCEPT !.pc = "clse"]
             ELSE BeginRead(y, x.ctx)

(* send: the transport lock is taken, the message written and the lock     *)
(* released in one step, since nobody else can use the transport between.  *)
(* The data of a WRTE is the caller's once its OKAY has been sent.         *)
Send(t) ==
  LET x == th[t]
  IN  /\ x.pc \in Sending
      /\ transport_lock = None
      /\ connected
      /\ to_dev' = Append(to_dev, Message(x))
      /\ th' = [th EXCEPT ![t] = Sent(x)]
      /\ received' = IF x.pc = "okay" THEN [received EXCEPT ![x.lid] = Append(@, x.pkt.data)]
                                      ELSE received
      /\ complete' = IF x.pc = "reclose" THEN complete \cup {x.lid} ELSE complete
      /\ UNCHANGED <<ioVars, local_id, connected, available, to_host, scrap, devVars,
                     resets, lossy, left>>

(* A send that raises: the transport is closed, or the write timed out, in *)
(* which case it may have reached the device all the same.  (A message cut *)
(* between or inside its header and its data: module PacketWriter.)        *)
SendRaises(t) ==
  /\ th[t].pc \in Sending
  /\ transport_lock = None
  /\ connected => ~Patient
  /\ to_dev' \in IF connected THEN {to_dev, Append(to_dev, Message(th[t]))} ELSE {to_dev}
  /\ th' = [th EXCEPT ![t] = Raised(@)]
  /\ UNCHANGED <<ioVars, local_id, connected, available, to_host, scrap, devVars, resets,
                 received, complete, lossy, left>>

(* The device can still do something without being asked.                  *)
DevCanSend(l) == /\ dev[l].st = "open" /\ dev[l].n < Chunks /\ dev[l].credit > 0
                 /\ dev[l].op = Shell \/ dev[l].asked

DevCanClose(l) == dev[l].st = "open" /\ dev[l].op \in {Shell, Reboot}

Quiet == /\ to_host = <<>> /\ to_dev = <<>>
         /\ \A l \in Lids : ~DevCanSend(l) /\ ~DevCanClose(l)

(* bulk_read raises: no connection, or no byte within the timeout.         *)
NothingRead ==
  /\ connected => to_host = <<>> /\ (Patient => Quiet)
  /\ UNCHANGED <<to_host, scrap, lossy>>

(* Bytes are read and thrown away: the timeout strikes inside a packet,    *)
(* the command is unknown, for it is the rest of an earlier packet, with   *)
(* the first bytes of the next where it is too short for a header, or the  *)
(* checksum is wrong.  The packet may be any stream's.                     *)
PacketSpoiled ==
  /\ connected /\ ~Patient
  /\ scrap' \in BOOLEAN
  /\ \/ scrap /\ UNCHANGED <<to_host, lossy>>
     \/ /\ to_host # <<>>
        /\ to_host' = Tail(to_host)
        /\ lossy' = lossy \cup {Head(to_host).arg1}

(* _read_packet_from_device when it raises.  The with block then leaves    *)
(* the transport lock to the holder next.                                  *)
ReadFails(t, next) ==
  /\ th[t].pc = "wire"
  /\ NothingRead \/ PacketSpoiled
  /\ th' = [th EXCEPT ![t] = Raised(@)]
  /\ transport_lock' = next
  /\ UNCHANGED <<store_lock, store, local_id, connected, available, to_dev, devVars,
                 resets, received, complete, left>>

ReadRaisesLocked(t) == ReadFails(t, t)

ReadRaises(t) == ReadFails(t, None)

(* The check at the end of a turn: go on, or raise AdbTimeoutError.        *)
CheckTime(t) ==
  /\ th[t].pc = "time"
  /\ \/ th' = [th EXCEPT ![t].pc = "lock"]
     \/ ~Patient /\ th' = [th EXCEPT ![t] = Raised(@)]
  /\ UNCHANGED <<ioVars, local_id, connected, available, to_host, scrap, to_dev, devVars,
                 resets, received, complete, lossy, left>>

(* _read_until_close gives up after a chunk: its timeout_s is over, or the *)
(* caller of streaming_shell drops the generator.  Nothing is closed.      *)
LeaveStream(t) ==
  /\ th[t].pc = "fast" /\ th[t].ctx = "stream"
  /\ store_lock # t
  /\ received[th[t].lid] # <<>>
  /\ th' = [th EXCEPT ![t] = IdleThread]
  /\ left' = left \cup {th[t].lid}
  /\ UNCHANGED <<ioVars, local_id, connected, available, to_host, scrap, to_dev, devVars,
                 resets, received, complete, lossy>>

-----------------------------------------------------------------------------
(* close and connect.                                                      *)

CallReset(t, call) ==
  /\ th[t].pc = "idle"
  /\ resets < MaxResets
  /\ resets' = resets + 1
  /\ available' = FALSE
  /\ th' = [th EXCEPT ![t].pc = call]
  /\ UNCHANGED <<ioVars, local_id, connected, to_host, scrap, to_dev, devVars, received,
                 complete, lossy, left>>

(* What the loss of the connection means on the wire and on the device.    *)
DropConnection ==
  /\ to_host' = <<>> /\ scrap' = FALSE /\ to_dev' = <<>>
  /\ dev' = [l \in Lids |-> IF dev[l].st = "none" THEN dev[l]
                            ELSE [dev[l] EXCEPT !.st = "gone"]]
  /\ dev_id' = 0

(* _AdbIOManager.close, under both locks.                                  *)
CloseTransport(t) ==
  /\ th[t].pc = "close"
  /\ transport_lock = None /\ store_lock = None
  /\ DropConnection
  /\ connected' = FALSE
  /\ store' = EmptyStore
  /\ th' = [th EXCEPT ![t] = IdleThread]
  /\ UNCHANGED <<transport_lock, store_lock, local_id, available, resets, received,
                 complete, lossy, left>>

(* _AdbIOManager.connect, which holds the transport lock from the closing  *)
(* of the old connection to the end of the handshake (module AdbConnect).  *)
(* It returns True, or raises with the transport closed or left open.      *)
Reconnect(t, newStore) ==
  /\ th[t].pc = "connect"
  /\ transport_lock = None /\ store_lock = None
  /\ DropConnection
  /\ store' = newStore
  /\ connected' \in BOOLEAN
  /\ \/ connected' /\ th' = [th EXCEPT ![t].pc = "connected"]
     \/ th' = [th EXCEPT ![t] = IdleThread]
  /\ UNCHANGED <<transport_lock, store_lock, local_id, available, resets, received,
                 complete, lossy, left>>

ConnectKeepingStore(t) == Reconnect(t, store)

ConnectTransport(t) == Reconnect(t, EmptyStore)

(* AdbDevice.connect stores the result after the lock was released.        *)
SetAvailable(t) ==
  /\ th[t].pc = "connected"
  /\ available' = TRUE
  /\ th' = [th EXCEPT ![t] = IdleThread]
  /\ UNCHANGED <<ioVars, local_id, connected, to_host, scrap, to_dev, devVars, resets,
                 received, complete, lossy, left>>

-----------------------------------------------------------------------------
(* The device (adbd), as far as the client's code and tests show it.       *)

devRest == <<th, ioVars, local_id, connected, available, scrap, resets, received, complete,
             lossy, left>>

Reply(cmd, l, r) == to_host' = Append(to_host, Msg(cmd, r, l, None))

(* An OPEN is accepted with an OKAY that names the device's id, or refused *)
(* with a CLSE that names none.                                            *)
DevOpen(m) ==
  /\ m.cmd = "OPEN"
  /\ \/ /\ dev_id' = dev_id + 1
        /\ dev' = [dev EXCEPT ![m.arg0] = [st |-> "open", rid |-> dev_id + 1, op |-> m.data,
                                           credit |-> Window, n |-> 0, asked |-> FALSE]]
        /\ Reply("OKAY", m.arg0, dev_id + 1)
     \/ /\ Reply("CLSE", m.arg0, 0)
        /\ UNCHANGED devVars

(* Packets for a stream that is not open, or is another's, are ignored.    *)
DevHandle(m) ==
  LET l == m.arg0
      d == dev[l]
  IN  /\ m.cmd # "OPEN"
      /\ UNCHANGED dev_id
      /\ CASE d.st # "open" \/ d.rid # m.arg1 -> UNCHANGED <<dev, to_host>>
           [] OTHER -> 
                CASE m.cmd = "OKAY" ->
                       /\ dev' = [dev EXCEPT ![l].credit = IF @ < Window THEN @ + 1 ELSE @]
                       /\ UNCHANGED to_host
                  [] m.cmd = "WRTE" ->
                       /\ dev' = [dev EXCEPT ![l].asked = TRUE]
                       /\ Reply("OKAY", l, d.rid)
                  [] m.cmd = "CLSE" ->
                       /\ dev' = [dev EXCEPT ![l].st = "closed"]
                       /\ Reply("CLSE", l, d.rid)

DevReceive ==
  /\ to_dev # <<>>
  /\ to_dev' = Tail(to_dev)
  /\ DevOpen(Head(to_dev)) \/ DevHandle(Head(to_dev))
  /\ UNCHANGED devRest

DevSend(l) ==
  /\ DevCanSend(l)
  /\ dev' = [dev EXCEPT ![l].n = @ + 1, ![l].credit = @ - 1]
  /\ to_host' = Append(to_host, Msg("WRTE", dev[l].rid, l, <<l, dev[l].n + 1>>))
  /\ UNCHANGED <<devRest, to_dev, dev_id>>

(* The service ends, with or without all of its output sent.               *)
DevClose(l) ==
  /\ DevCanClose(l)
  /\ dev' = [dev EXCEPT ![l].st = "closed"]
  /\ Reply("CLSE", l, dev[l].rid)
  /\ UNCHANGED <<devRest, to_dev, dev_id>>

Device == DevReceive \/ \E l \in Lids : DevSend(l) \/ DevClose(l)

-----------------------------------------------------------------------------
(* The system.                                                             *)

Run(t) ==
  \/ ReadStore(t) \/ LockTransport(t) \/ RecheckStore(t) \/ ReadWire(t) \/ Dispatch(t)
  \/ Send(t) \/ SendRaises(t) \/ ReadRaises(t) \/ CheckTime(t) \/ LeaveStream(t)
  \/ CloseTransport(t) \/ ConnectTransport(t) \/ SetAvailable(t)

Call(t) ==
  \/ \E o \in Ops : Start(t, o)
  \/ CallReset(t, "close") \/ CallReset(t, "connect")

(* Nobody is inside a call.                                                *)
Resting == (\A t \in Threads : th[t].pc = "idle") /\ UNCHANGED vars

Next == Device \/ Resting \/ \E t \in Threads : Run(t) \/ Call(t)

Spec == Init /\ [][Next]_vars

(* A thread that can go on does, and the device answers.  A thread that    *)
(* waits for a lock again and again is served in the end only because      *)
(* those who hold it do so a bounded number of times.                      *)
FairSpec == Spec /\ WF_vars(Device) /\ \A t \in Threads : WF_vars(Run(t))

-----------------------------------------------------------------------------
(* Properties.                                                             *)

(* At most one thread reads packets off the wire, and it holds the         *)
(* transport lock exactly as long: the lock is released on every way out   *)
(* of the with block of read, the exceptions included.                     *)
LockHeldByReader ==
  \A t \in Threads : transport_lock = t <=> th[t].pc \in {"recheck", "wire", "dispatch"}

(* The data of a stream on their way to its reader t, each with its place: *)
(* in the reader's hand, in the store, in the hand of whoever has just     *)
(* read the wire, on the wire.                                             *)
InTransit(t) ==
  LET l == th[t].lid
      q == QueueOf(store, <<dev[l].rid, l>>)
      Own(p) == p.cmd = "WRTE" /\ p.arg1 = l
  IN  {<<0, 0, th[t].pkt.data>> : x \in {y \in {t} : th[y].pc = "okay"}}
      \cup {<<1, i, q[i].data>> : i \in {j \in DOMAIN q : q[j].cmd = "WRTE"}}
      \cup {<<2, 0, th[u].pkt.data>> : u \in {x \in Threads : th[x].pc = "dispatch" /\ Own(th[x].pkt)}}
      \cup {<<3, i, to_host[i].data>> : i \in {j \in DOMAIN to_host : Own(to_host[j])}}

Ahead(a, b) == a[1] < b[1] \/ (a[1] = b[1] /\ a[2] < b[2])

SentBy(l) == [i \in 1 .. dev[l].n |-> <<l, i>>]

(* The place of the last of the chunks r, 0 when there is none.            *)
Last(r) == IF r = <<>> THEN 0 ELSE r[Len(r)][2]

(* While a command reads its stream, its caller was given the first of the *)
(* device's chunks and the others are in transit, each in one place and in *)
(* the order of the places: no interleaving of the fast path, the recheck, *)
(* the wire and the other threads' puts loses, repeats, reorders or        *)
(* misdirects a chunk.  A failing read may lose one, of any stream; what   *)
(* is then left of the stream is still in order and in one place each.     *)
NothingLost ==
  \A t \in Threads :
    LET l == th[t].lid
        got == Last(received[l])
    IN  th[t].ctx \in {"stream", "flush", "filesync"} /\ ~th[t].failing /\ dev[l].st # "gone" =>
          /\ l \notin lossy =>
               /\ received[l] = [i \in 1 .. got |-> <<l, i>>]
               /\ {c[3] : c \in InTransit(t)} = {<<l, i>> : i \in got + 1 .. dev[l].n}
          /\ {c[3] : c \in InTransit(t)} \subseteq {<<l, i>> : i \in got + 1 .. dev[l].n}
          /\ \A a, b \in InTransit(t) : Ahead(a, b) => a[3][2] < b[3][2]

(* After a close or a connect the store, and the hand of a reader, hold    *)
(* nothing of an earlier connection: connect drops its lock on the store   *)
(* before the new connection is up because packets are only added with the *)
(* transport lock held.                                                    *)
StoreIsCurrent ==
  /\ \A k \in DOMAIN store : k[2] \in Lids /\ dev[k[2]].st # "gone"
  /\ \A t \in Threads : th[t].pc = "dispatch" => dev[th[t].pkt.arg1].st # "gone"

(* Every thread's stream is an ordered channel of its own, and a reliable  *)
(* one unless a read has spoiled one of its packets.                       *)
Channels == INSTANCE StreamChannels WITH
  Stream <- Lids, Datum <- Data,
  sent <- [l \in Lids |-> SentBy(l)],
  at <- [l \in Lids |-> Last(received[l])],
  closed <- {l \in Lids : dev[l].st \in {"closed", "gone"}}

ImplementsChannels == Channels!Spec

(* Every call returns or raises in the end: no thread waits forever for a  *)
(* lock, or for a packet that another thread took off the wire.  Only so   *)
(* many calls are made, so that all threads come to rest.                  *)
CallsEnd == []<>(\A t \in Threads : th[t].pc = "idle")

(* With patient timeouts, a caller of a Shell command that is not stopped  *)
(* by a reset and does not leave its stream is given everything the device *)
(* sends.                                                                  *)
DataDelivered ==
  []<>(\A l \in Lids \ left : dev[l].op = Shell => Len(received[l]) >= dev[l].n)


(* "If it corresponds to a different stream, add it to the store"          *)
(* (adb_device.py:339, the docstring of read): a command that waits for    *)
(* the end of its stream can get the CLSE that the device has sent, for it *)
(* is on the wire, in the hand of a reader or in the store.                *)
CloseNotLost ==
  \A t \in Threads :
    LET l == th[t].lid
        Closing(p) == p.cmd = "CLSE" /\ p.arg1 = l
    IN  th[t].ctx \in {"stream", "clse"} /\ th[t].pc \in Reading /\ dev[l].st = "closed"
        => \/ \E i \in DOMAIN to_host : Closing(to_host[i])
           \/ \E u \in Threads : th[u].pc = "dispatch" /\ Closing(th[u].pkt)
           \/ \E i \in DOMAIN QueueOf(store, <<dev[l].rid, l>>) :
                 store[<<dev[l].rid, l>>][i].cmd = "CLSE"
=============================================================================
