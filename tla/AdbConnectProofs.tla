-------------------------- MODULE AdbConnectProofs --------------------------
(***************************************************************************)
(* Proofs about AdbConnect, for any number of threads, keys and calls, and *)
(* any device.                                                             *)
(***************************************************************************)
EXTENDS AdbConnect, TLAPS

-----------------------------------------------------------------------------
(* The inductive invariant.                                                *)

(* The turn of a key that exists, before the turn of the public key; and   *)
(* the maxdata that connect returned is that of a CNXN.                    *)
CallOK(x) ==
  /\ x.pc \in {"connect", "greet"} => x.key = 0
  /\ x.pc \in {"sign", "verdict"} => x.key \in 1 .. x.keys
  /\ x.pc = "pubkey" => x.keys # 0
  /\ x.pc = "connected" => x.ret = DevMaxdata

CnxnTells == {p \in HostBound : p.cmd = "CNXN" => p.maxdata = DevMaxdata}

ThreadsOK ==
  /\ th \in [Threads -> Thread]
  /\ \A t \in Threads : CallOK(th[t])
  /\ transport_lock \in Threads \cup {None}
  /\ LockHeldByHandshake

RestOK ==
  /\ conn \in Transport
  /\ available \in BOOLEAN /\ maxdata \in Nat
  /\ to_dev \in Seq(DevBound) /\ to_host \in Seq(CnxnTells)
  /\ dev \in Device
  /\ calls \in 0 .. MaxCalls /\ noise \in 0 .. MaxNoise
  /\ MaxdataAgreed

IInv == ThreadsOK /\ RestOK

-----------------------------------------------------------------------------
(* Steps of one thread.                                                    *)

LEMMA IdleIsOK ==
  /\ IdleThread \in Thread /\ CallOK(IdleThread)
  /\ IdleThread.pc = "idle" /\ IdleThread.key = 0
BY ConnectAssumption DEF IdleThread, Thread, CallOK, Held

LEMMA InitOK == Init => IInv
<1> SUFFICES ASSUME Init PROVE IInv
  OBVIOUS
<1>1. ThreadsOK
  BY IdleIsOK, ConnectAssumption DEF Init, ThreadsOK, LockHeldByHandshake, Handshaking, Held
<1>2. RestOK
  <2>1. dev \in Device
    BY DEF Init, DeviceOff, Device
  <2>2. to_dev \in Seq(DevBound) /\ to_host \in Seq(CnxnTells)
    BY DEF Init
  <2>3. conn \in Transport
    BY DEF Init, NoTransport, Transport
  <2>4. maxdata \in Nat /\ calls \in 0 .. MaxCalls /\ noise \in 0 .. MaxNoise
    BY ConnectAssumption DEF Init, MaxPushData
  <2> QED BY <2>1, <2>2, <2>3, <2>4 DEF Init, RestOK, MaxdataAgreed
<1> QED BY <1>1, <1>2 DEF IInv

(* Thread t steps to y and leaves the transport lock as y needs it.        *)
LEMMA ThreadsAfterStep ==
  ASSUME IInv, NEW t \in Threads, NEW y \in Thread, CallOK(y),
         th' = [th EXCEPT ![t] = y],
         \/ y.pc \in Held /\ transport_lock' = t /\ transport_lock \in {t, None}
         \/ /\ y.pc \notin Held
            /\ \/ transport_lock' = None /\ transport_lock \in {t, None}
               \/ transport_lock' = transport_lock /\ transport_lock # t
  PROVE  ThreadsOK'
<1>1. th' \in [Threads -> Thread] /\ th'[t] = y /\ \A u \in Threads \ {t} : th'[u] = th[u]
  BY DEF IInv, ThreadsOK
<1>2. \A u \in Threads : CallOK(th'[u])
  BY <1>1 DEF IInv, ThreadsOK
<1>3. transport_lock' \in Threads \cup {None}
  BY DEF IInv, ThreadsOK
<1>4. LockHeldByHandshake'
  BY <1>1, ConnectAssumption DEF IInv, ThreadsOK, LockHeldByHandshake, Handshaking
<1> QED BY <1>1, <1>2, <1>3, <1>4 DEF ThreadsOK, CallOK

LEMMA LockIsMine ==
  ASSUME IInv, NEW t \in Threads
  PROVE  /\ th[t] \in Thread /\ CallOK(th[t])
         /\ th[t].pc \in Held => transport_lock = t
         /\ th[t].pc \notin Held => transport_lock # t
BY DEF IInv, ThreadsOK, LockHeldByHandshake, Handshaking

(* What closing the transport leaves on the wire and on the device.        *)
LEMMA CloseTransportOK ==
  ASSUME IInv, CloseTransport,
         available' \in BOOLEAN, maxdata' = maxdata, available' => available,
         calls' \in 0 .. MaxCalls, noise' \in 0 .. MaxNoise
  PROVE  RestOK'
BY DEF CloseTransport, IInv, RestOK, DeviceOff, Device, NoTransport, Transport, MaxdataAgreed

LEMMA CallCloseOK ==
  ASSUME IInv, NEW t \in Threads, CallClose(t)
  PROVE  IInv'
<1> DEFINE y == [IdleThread EXCEPT !.pc = "close"]
<1>1. y \in Thread /\ CallOK(y) /\ y.pc \notin Held
  <2>1. y \in Thread /\ y.pc = "close"
    BY IdleIsOK DEF Thread
  <2> HIDE DEF y
  <2> QED BY <2>1 DEF CallOK, Held
<1>2. th' = [th EXCEPT ![t] = y] /\ transport_lock' = transport_lock /\ th[t].pc \notin Held
  BY DEF CallClose, BeginClose, Go, Held
<1>3. ThreadsOK'
  <2> HIDE DEF y
  <2> QED BY <1>1, <1>2, LockIsMine, ThreadsAfterStep
<1>4. RestOK'
  <2>1. calls' \in 0 .. MaxCalls
    BY ConnectAssumption DEF CallClose, BeginClose, IInv, RestOK
  <2> QED BY <2>1 DEF CallClose, BeginClose, IInv, RestOK, MaxdataAgreed
<1> QED BY <1>3, <1>4 DEF IInv

LEMMA CallConnectOK ==
  ASSUME IInv, NEW t \in Threads, NEW n \in 0 .. MaxKeys, NEW pem \in BOOLEAN,
         CallConnect(t, n, pem)
  PROVE  IInv'
<1> DEFINE y == [IdleThread EXCEPT !.pc = "connect", !.keys = n, !.pem = pem]
<1>1. y \in Thread /\ CallOK(y) /\ y.pc \notin Held
  <2>1. y \in Thread /\ y.pc = "connect" /\ y.key = 0
    BY IdleIsOK DEF Thread
  <2> HIDE DEF y
  <2> QED BY <2>1 DEF CallOK, Held
<1>2. th' = [th EXCEPT ![t] = y] /\ transport_lock' = transport_lock /\ th[t].pc \notin Held
  BY DEF CallConnect, Go, Held
<1>3. ThreadsOK'
  <2> HIDE DEF y
  <2> QED BY <1>1, <1>2, LockIsMine, ThreadsAfterStep
<1>4. RestOK'
  <2>1. calls' \in 0 .. MaxCalls
    BY ConnectAssumption DEF CallConnect, IInv, RestOK
  <2> QED BY <2>1 DEF CallConnect, IInv, RestOK, MaxdataAgreed
<1> QED BY <1>3, <1>4 DEF IInv

LEMMA CloseOK ==
  ASSUME IInv, NEW t \in Threads, Close(t)
  PROVE  IInv'
<1>1. ThreadsOK'
  <2>1. th[t].pc \notin Held /\ th' = [th EXCEPT ![t] = IdleThread]
        /\ transport_lock' = transport_lock
    BY DEF Close, Go, Held
  <2> QED BY <2>1, IdleIsOK, LockIsMine, ThreadsAfterStep DEF Held
<1>2. RestOK'
  BY CloseTransportOK DEF Close, IInv, RestOK
<1> QED BY <1>1, <1>2 DEF IInv

LEMMA ConnectOK ==
  ASSUME IInv, NEW t \in Threads, Connect(t)
  PROVE  IInv'
<1> DEFINE y == [th[t] EXCEPT !.pc = "greet"]
           m == [cmd |-> "CNXN", key |-> 0, token |-> 0, enc |-> FALSE]
<1>1. /\ th[t].pc = "connect" /\ transport_lock = None
      /\ th[t] \in Thread /\ CallOK(th[t]) /\ noise' = 0
  BY LockIsMine DEF Connect
<1>2. CASE transport_lock' = t /\ th' = [th EXCEPT ![t].pc = "greet"]
           /\ conn' = [NoTransport EXCEPT !.open = TRUE] /\ dev' = [DeviceOff EXCEPT !.st = "greet"]
           /\ to_dev' = <<m>> /\ to_host' = <<>>
  <2>1. y \in Thread /\ y.pc = "greet" /\ y.key = 0
    BY <1>1 DEF Thread, Held, CallOK
  <2>2. ThreadsOK'
    <3>1. th' = [th EXCEPT ![t] = y]
      BY <1>2
    <3> HIDE DEF y
    <3>2. CallOK(y) /\ y.pc \in Held
      BY <2>1 DEF CallOK, Held
    <3> QED BY <1>1, <1>2, <2>1, <3>1, <3>2, ThreadsAfterStep
  <2>3. m \in DevBound
    BY ConnectAssumption DEF DevBound
  <2>4. dev' \in Device
    <3>1. DeviceOff \in Device
      BY DEF DeviceOff, Device
    <3> QED BY <1>2, <3>1 DEF Device
  <2>5. to_dev' \in Seq(DevBound) /\ to_host' \in Seq(CnxnTells)
    <3> HIDE DEF m
    <3> QED BY <1>2, <2>3
  <2>6. noise' \in 0 .. MaxNoise
    BY <1>1, ConnectAssumption
  <2>7. conn' \in Transport
    BY <1>2 DEF NoTransport, Transport
  <2> QED BY <1>2, <2>2, <2>4, <2>5, <2>6, <2>7 DEF Connect, IInv, RestOK, MaxdataAgreed
<1>3. CASE CloseTransport /\ Go(t, IdleThread) /\ UNCHANGED transport_lock
  <2>1. ThreadsOK'
    BY <1>1, <1>3, IdleIsOK, LockIsMine, ThreadsAfterStep DEF Go, Held
  <2>2. noise' \in 0 .. MaxNoise
    BY <1>1, ConnectAssumption
  <2>3. RestOK'
    BY <1>3, <2>2, CloseTransportOK DEF Connect, IInv, RestOK
  <2> QED BY <2>1, <2>3 DEF IInv
<1> QED BY <1>2, <1>3 DEF Connect

-----------------------------------------------------------------------------
(* The steps of the handshake, by the thread that holds the lock.          *)

(* What a step that sends, reads a packet or does nothing does to the rest. *)
LEMMA RestAfterStep ==
  ASSUME IInv, UNCHANGED rest,
         to_dev' \in Seq(DevBound), to_host' \in Seq(CnxnTells),
         conn' \in Transport, dev' \in Device
  PROVE  RestOK'
BY DEF rest, IInv, RestOK, MaxdataAgreed

LEMMA WireIsOK ==
  ASSUME IInv
  PROVE  /\ to_dev \in Seq(DevBound) /\ to_host \in Seq(CnxnTells)
         /\ conn \in Transport /\ dev \in Device
         /\ to_host # <<>> => Head(to_host) \in CnxnTells /\ Tail(to_host) \in Seq(CnxnTells)
BY DEF IInv, RestOK

LEMMA ToDevTyped ==
  ASSUME IInv, NEW cmd \in {"CNXN", "SIGNATURE", "RSAPUBLICKEY", "STLS"},
         NEW key \in 0 .. MaxKeys, NEW token \in Nat, ToDev(cmd, key, token)
  PROVE  to_dev' \in Seq(DevBound)
<1> DEFINE m == [cmd |-> cmd, key |-> key, token |-> token, enc |-> conn.tls]
<1>1. m \in DevBound
  BY WireIsOK DEF DevBound, Transport
<1>2. to_dev' = Append(to_dev, m)
  BY DEF ToDev
<1> HIDE DEF m
<1> QED BY <1>1, <1>2, WireIsOK

LEMMA DropPacketOK ==
  ASSUME IInv, NEW t \in Threads, DropPacket(t)
  PROVE  IInv'
<1>1. ThreadsOK'
  BY DEF DropPacket, IInv, ThreadsOK, CallOK, LockHeldByHandshake, Handshaking
<1>2. RestOK'
  BY WireIsOK, RestAfterStep DEF DropPacket
<1> QED BY <1>1, <1>2 DEF IInv

LEMMA GiveUpOK ==
  ASSUME IInv, NEW t \in Threads, th[t].pc \in Held, GiveUp(t)
  PROVE  IInv'
<1>1. ThreadsOK'
  BY IdleIsOK, LockIsMine, ThreadsAfterStep DEF GiveUp, Go, Held
<1>2. RestOK'
  BY CloseTransportOK DEF GiveUp, rest, IInv, RestOK
<1> QED BY <1>1, <1>2 DEF IInv

(* A thread that stays in the handshake.                                   *)
LEMMA HandshakeStep ==
  ASSUME IInv, NEW t \in Threads, th[t].pc \in Held,
         NEW y \in Thread, CallOK(y), y.pc \in Held,
         th' = [th EXCEPT ![t] = y], transport_lock' = transport_lock
  PROVE  ThreadsOK'
BY LockIsMine, ThreadsAfterStep

LEMMA ReadCnxnOK ==
  ASSUME IInv, NEW t \in Threads, NEW step \in {"greet", "verdict", "accept"},
         ReadCnxn(t, step)
  PROVE  IInv'
<1> DEFINE n == Head(to_host).maxdata
           y == [IdleThread EXCEPT !.pc = "connected", !.ret = n]
<1>1. th[t].pc \in Held /\ to_host # <<>> /\ Head(to_host).cmd = "CNXN"
  BY DEF ReadCnxn, Reads, Held
<1>2. n = DevMaxdata
  BY <1>1, WireIsOK DEF CnxnTells
<1>3. y \in Thread /\ CallOK(y) /\ y.pc \notin Held
  <2> HIDE DEF n
  <2>1. y \in Thread /\ y.pc = "connected" /\ y.ret = DevMaxdata
    BY <1>2, IdleIsOK, ConnectAssumption DEF Thread
  <2> HIDE DEF y
  <2> QED BY <2>1 DEF CallOK, Held
<1>4. th' = [th EXCEPT ![t] = y] /\ transport_lock' = None
  BY DEF ReadCnxn, Return, Go
<1>5. ThreadsOK'
  <2> HIDE DEF y
  <2> QED BY <1>1, <1>3, <1>4, LockIsMine, ThreadsAfterStep
<1>6. RestOK'
  BY <1>1, WireIsOK, RestAfterStep DEF ReadCnxn, Return
<1> QED BY <1>5, <1>6 DEF IInv

LEMMA ReadStlsOK ==
  ASSUME IInv, NEW t \in Threads, ReadStls(t)
  PROVE  IInv'
<1> DEFINE y == [th[t] EXCEPT !.pc = "upgrade"]
<1>1. th[t].pc = "greet" /\ to_host # <<>> /\ th[t] \in Thread
  BY LockIsMine DEF ReadStls, Reads
<1>2. CASE th[t].pem /\ CanUpgrade
  <2>1. y \in Thread /\ y.pc = "upgrade"
    BY <1>1 DEF Thread, Held
  <2>2. th' = [th EXCEPT ![t] = y] /\ transport_lock' = transport_lock
    BY <1>2 DEF ReadStls
  <2>3. ThreadsOK'
    <3> HIDE DEF y
    <3>1. CallOK(y) /\ y.pc \in Held /\ th[t].pc \in Held
      BY <1>1, <2>1 DEF CallOK, Held
    <3> QED BY <2>1, <2>2, <3>1, HandshakeStep
  <2>4. to_dev' \in Seq(DevBound)
    BY <1>2, ToDevTyped, ConnectAssumption DEF ReadStls
  <2>5. RestOK'
    BY <1>1, <1>2, <2>4, WireIsOK, RestAfterStep DEF ReadStls
  <2> QED BY <2>3, <2>5 DEF IInv
<1>3. CASE ~(th[t].pem /\ CanUpgrade)
  BY <1>1, <1>3, GiveUpOK DEF ReadStls, Held
<1> QED BY <1>2, <1>3

LEMMA TlsStepOK ==
  ASSUME IInv, NEW t \in Threads, StartTls(t) \/ FinishTls(t)
  PROVE  IInv'
<1>1. th[t].pc \in {"upgrade", "hello"} /\ th[t] \in Thread
  BY LockIsMine DEF StartTls, FinishTls
<1>2. PICK y : /\ y \in Thread /\ y.pc \in {"hello", "accept"}
               /\ th' = [th EXCEPT ![t] = y]
  <2>1. ASSUME NEW pc \in {"hello", "accept"}
        PROVE  [th[t] EXCEPT !.pc = pc] \in Thread /\ [th[t] EXCEPT !.pc = pc].pc = pc
    BY <1>1 DEF Thread, Held
  <2> QED BY <2>1 DEF StartTls, FinishTls
<1>3. ThreadsOK'
  <2>1. CallOK(y) /\ y.pc \in Held /\ th[t].pc \in Held
    BY <1>1, <1>2 DEF CallOK, Held
  <2>2. transport_lock' = transport_lock
    BY DEF StartTls, FinishTls
  <2> QED BY <1>2, <2>1, <2>2, HandshakeStep
<1>4. conn' \in Transport
  BY WireIsOK DEF StartTls, FinishTls, Transport
<1>5. RestOK'
  BY <1>4, WireIsOK, RestAfterStep DEF StartTls, FinishTls
<1> QED BY <1>3, <1>5 DEF IInv

(* The key whose turn it is exists, or every key had its turn.             *)
LEMMA NextKeyOK ==
  ASSUME NEW x \in Thread, CallOK(x), x.pc \in {"greet", "verdict"}, x.keys # 0, NEW p \in HostBound
  PROVE  LET y == NextKey(x, p) IN y \in Thread /\ CallOK(y) /\ y.pc \in Held
<1>1. x.key \in 0 .. x.keys /\ x.keys \in 0 .. MaxKeys /\ MaxKeys \in Nat
  BY ConnectAssumption DEF CallOK, Thread
<1> DEFINE next == IF x.key < x.keys THEN "sign" ELSE "pubkey"
           y == [x EXCEPT !.pc = next, !.key = x.key + 1, !.arg0 = p.arg0, !.token = p.token]
<1>2. y \in Thread /\ y.pc = next /\ y.key = x.key + 1 /\ y.keys = x.keys
  <2>1. x.key + 1 \in 0 .. MaxKeys + 1 /\ next \in {"sign", "pubkey"}
    BY <1>1
  <2>2. p.arg0 \in {"token", "other"} /\ p.token \in Nat
    BY DEF HostBound
  <2> HIDE DEF next
  <2> QED BY <2>1, <2>2 DEF Thread, Held
<1>3. NextKey(x, p) = y
  BY DEF NextKey
<1> HIDE DEF y
<1>4. CallOK(y) /\ y.pc \in Held
  BY <1>1, <1>2 DEF CallOK, Held
<1> QED BY <1>2, <1>3, <1>4

LEMMA ReadAuthOK ==
  ASSUME IInv, NEW t \in Threads, NEW step \in {"greet", "verdict"}, ReadAuth(t, step)
  PROVE  IInv'
<1>1. /\ th[t].pc \in {"greet", "verdict"} /\ to_host # <<>>
      /\ th[t] \in Thread /\ CallOK(th[t])
  BY LockIsMine DEF ReadAuth, Reads
<1>2. CASE th[t].keys = 0
  BY <1>1, <1>2, GiveUpOK DEF ReadAuth, Held
<1>3. CASE th[t].keys # 0
  <2>1. th' = [th EXCEPT ![t] = NextKey(th[t], Head(to_host))] /\ transport_lock' = transport_lock
    BY <1>3 DEF ReadAuth, Go
  <2>2. Head(to_host) \in HostBound
    BY <1>1, WireIsOK DEF CnxnTells
  <2>3. ThreadsOK'
    BY <1>1, <1>3, <2>1, <2>2, NextKeyOK, HandshakeStep DEF Held
  <2>4. RestOK'
    BY <1>1, <1>3, WireIsOK, RestAfterStep DEF ReadAuth
  <2> QED BY <2>3, <2>4 DEF IInv
<1> QED BY <1>2, <1>3

LEMMA SignOK ==
  ASSUME IInv, NEW t \in Threads, Sign(t)
  PROVE  IInv'
<1> DEFINE y == [th[t] EXCEPT !.pc = "verdict"]
<1>1. th[t].pc = "sign" /\ th[t] \in Thread /\ CallOK(th[t])
  BY LockIsMine DEF Sign
<1>2. CASE th[t].arg0 # "token"
  BY <1>1, <1>2, GiveUpOK DEF Sign, Held
<1>3. CASE th[t].arg0 = "token"
  <2>1. /\ y \in Thread /\ y.pc = "verdict" /\ y.key = th[t].key /\ y.keys = th[t].keys
    BY <1>1 DEF Thread, Held
  <2>2. th' = [th EXCEPT ![t] = y] /\ transport_lock' = transport_lock
    BY <1>3 DEF Sign
  <2>3. ThreadsOK'
    <3> HIDE DEF y
    <3>1. CallOK(y) /\ y.pc \in Held /\ th[t].pc \in Held
      BY <1>1, <2>1 DEF CallOK, Held
    <3> QED BY <2>1, <2>2, <3>1, HandshakeStep
  <2>4. th[t].key \in 0 .. MaxKeys /\ th[t].token \in Nat
    BY <1>1, ConnectAssumption DEF CallOK, Thread
  <2>5. to_dev' \in Seq(DevBound)
    BY <1>3, <2>4, ToDevTyped DEF Sign
  <2>6. RestOK'
    BY <1>3, <2>5, WireIsOK, RestAfterStep DEF Sign
  <2> QED BY <2>3, <2>6 DEF IInv
<1> QED BY <1>2, <1>3

(* With no key there is no turn of the public key, so key 1 exists.        *)
LEMMA SendPublicKeyOK ==
  ASSUME IInv, NEW t \in Threads, SendPublicKey(t)
  PROVE  IInv'
<1> DEFINE y == [th[t] EXCEPT !.pc = "accept"]
<1>1. th[t].pc = "pubkey" /\ th[t] \in Thread /\ CallOK(th[t])
  BY LockIsMine DEF SendPublicKey
<1>2. y \in Thread /\ y.pc = "accept"
  BY <1>1 DEF Thread, Held
<1>3. th' = [th EXCEPT ![t] = y] /\ transport_lock' = transport_lock
  BY DEF SendPublicKey
<1>4. ThreadsOK'
  <2> HIDE DEF y
  <2>1. CallOK(y) /\ y.pc \in Held /\ th[t].pc \in Held
    BY <1>1, <1>2 DEF CallOK, Held
  <2> QED BY <1>2, <1>3, <2>1, HandshakeStep
<1>5. 1 \in 0 .. MaxKeys
  BY <1>1, ConnectAssumption DEF CallOK, Thread
<1>6. to_dev' \in Seq(DevBound)
  BY <1>5, ToDevTyped DEF SendPublicKey
<1>7. RestOK'
  BY <1>6, WireIsOK, RestAfterStep DEF SendPublicKey
<1> QED BY <1>4, <1>7 DEF IInv

LEMMA RaiseOK ==
  ASSUME IInv, NEW t \in Threads, Raise(t)
  PROVE  IInv'
<1>1. ThreadsOK'
  BY IdleIsOK, LockIsMine, ThreadsAfterStep DEF Raise, Fail, Go, Held
<1>2. CASE th[t].pc = "hello"
  <2>1. CloseTransport /\ UNCHANGED rest
    BY <1>2 DEF Raise, Fail
  <2> QED BY <1>1, <2>1, CloseTransportOK DEF rest, IInv, RestOK
<1>3. CASE th[t].pc # "hello"
  <2>1. UNCHANGED <<conn, to_dev, to_host, dev>> /\ UNCHANGED rest
    BY <1>3 DEF Raise, Fail
  <2> QED BY <1>1, <2>1, WireIsOK, RestAfterStep DEF IInv
<1> QED BY <1>2, <1>3

LEMMA SetAvailableOK ==
  ASSUME IInv, NEW t \in Threads, SetAvailable(t)
  PROVE  IInv'
<1>1. th[t].pc = "connected" /\ th[t].ret = DevMaxdata
  BY LockIsMine DEF SetAvailable, Connected, CallOK
<1>2. ThreadsOK'
  BY <1>1, IdleIsOK, LockIsMine, ThreadsAfterStep DEF SetAvailable, Connected, Go, Held
<1>3. RestOK'
  BY <1>1, ConnectAssumption DEF SetAvailable, Connected, IInv, RestOK, MaxdataAgreed
<1> QED BY <1>2, <1>3 DEF IInv

-----------------------------------------------------------------------------
(* The device.                                                             *)

LEMMA DeviceOK ==
  ASSUME IInv, UNCHANGED devRest, noise' \in 0 .. MaxNoise,
         to_dev' \in Seq(DevBound), to_host' \in Seq(CnxnTells), dev' \in Device
  PROVE  IInv'
<1>1. ThreadsOK'
  BY DEF devRest, IInv, ThreadsOK, CallOK, LockHeldByHandshake, Handshaking
<1>2. RestOK'
  BY DEF devRest, IInv, RestOK, MaxdataAgreed
<1> QED BY <1>1, <1>2 DEF IInv

LEMMA ToHostTyped ==
  ASSUME IInv, NEW cmd \in {"CNXN", "AUTH", "STLS", "OKAY"}, NEW arg0 \in {"token", "other"},
         NEW n \in Nat, cmd = "CNXN" => n = DevMaxdata, NEW token \in Nat,
         ToHost(cmd, arg0, n, token)
  PROVE  to_host' \in Seq(CnxnTells)
<1> DEFINE p == [cmd |-> cmd, arg0 |-> arg0, maxdata |-> n, token |-> token, enc |-> dev.secure]
<1>1. p \in CnxnTells
  BY WireIsOK DEF CnxnTells, HostBound, Device
<1>2. to_host' = Append(to_host, p)
  BY DEF ToHost
<1> HIDE DEF p
<1> QED BY <1>1, <1>2, WireIsOK

LEMMA WelcomeOK ==
  ASSUME IInv, Welcome
  PROVE  to_host' \in Seq(CnxnTells) /\ dev' \in Device
<1>1. to_host' \in Seq(CnxnTells)
  BY ToHostTyped, ConnectAssumption DEF Welcome
<1>2. dev' \in Device
  BY WireIsOK DEF Welcome, Device
<1> QED BY <1>1, <1>2

LEMMA ChallengeOK ==
  ASSUME IInv, NEW kind \in {"token", "other"}, Challenge(kind)
  PROVE  to_host' \in Seq(CnxnTells) /\ dev' \in Device
<1>1. dev.token + 1 \in Nat
  BY WireIsOK DEF Device
<1>2. to_host' \in Seq(CnxnTells)
  BY <1>1, ToHostTyped DEF Challenge
<1>3. dev' \in Device
  BY <1>1, WireIsOK DEF Challenge, Device
<1> QED BY <1>2, <1>3

LEMMA HandlesOK ==
  ASSUME IInv, NEW st, NEW cmd, Handles(st, cmd)
  PROVE  to_dev' \in Seq(DevBound) /\ UNCHANGED devRest /\ noise' \in 0 .. MaxNoise
BY DEF Handles, IInv, RestOK

LEMMA DeviceStepOK ==
  ASSUME IInv, DeviceStep
  PROVE  IInv'
<1>1. CASE DevGreet
  <2>1. to_dev' \in Seq(DevBound) /\ UNCHANGED devRest /\ noise' \in 0 .. MaxNoise
    BY <1>1, HandlesOK DEF DevGreet
  <2>2. CASE Welcome
    BY <2>1, <2>2, WelcomeOK, DeviceOK
  <2>3. CASE Challenge("token") \/ Challenge("other")
    BY <2>1, <2>3, ChallengeOK, DeviceOK
  <2>4. CASE dev' = [dev EXCEPT !.st = "stls"] /\ ToHost("STLS", "other", 0, 0)
    <3>1. to_host' \in Seq(CnxnTells)
      BY <2>4, ToHostTyped
    <3>2. dev' \in Device
      BY <2>4, WireIsOK DEF Device
    <3> QED BY <2>1, <3>1, <3>2, DeviceOK
  <2> QED BY <1>1, <2>2, <2>3, <2>4 DEF DevGreet
<1>2. CASE DevVerify
  <2>1. to_dev' \in Seq(DevBound) /\ UNCHANGED devRest /\ noise' \in 0 .. MaxNoise
    BY <1>2, HandlesOK DEF DevVerify
  <2>2. CASE Welcome
    BY <2>1, <2>2, WelcomeOK, DeviceOK
  <2>3. CASE /\ dev' = [dev EXCEPT !.token = @ + 1, !.refused = @ + 1]
             /\ ToHost("AUTH", "token", 0, dev.token + 1)
    <3>1. dev.token + 1 \in Nat /\ dev.refused + 1 \in Nat
      BY WireIsOK DEF Device
    <3>2. to_host' \in Seq(CnxnTells)
      BY <2>3, <3>1, ToHostTyped
    <3>3. dev' \in Device
      BY <2>3, <3>1, WireIsOK DEF Device
    <3> QED BY <2>1, <3>2, <3>3, DeviceOK
  <2> QED BY <1>2, <2>2, <2>3 DEF DevVerify
<1>3. CASE DevPrompt
  <2>1. to_dev' \in Seq(DevBound) /\ UNCHANGED devRest /\ noise' \in 0 .. MaxNoise
    BY <1>3, HandlesOK DEF DevPrompt
  <2>2. dev' \in Device /\ to_host' \in Seq(CnxnTells)
    BY <1>3, WireIsOK DEF DevPrompt, Device
  <2> QED BY <2>1, <2>2, DeviceOK
<1>4. CASE DevStls
  <2>1. to_dev' \in Seq(DevBound) /\ UNCHANGED devRest /\ noise' \in 0 .. MaxNoise
    BY <1>4, HandlesOK DEF DevStls
  <2>2. dev' \in Device /\ to_host' \in Seq(CnxnTells)
    BY <1>4, WireIsOK DEF DevStls, Device
  <2> QED BY <2>1, <2>2, DeviceOK
<1>5. CASE DevOnline
  BY <1>5, WelcomeOK, DeviceOK DEF DevOnline, IInv, RestOK
<1>7. CASE DevHello \/ DevFinished \/ DevRefusesTls
  <2>1. UNCHANGED <<th, transport_lock, to_dev, to_host, rest>>
    BY <1>7 DEF DevHello, DevFinished, DevRefusesTls, TlsRecord
  <2>2. conn' \in Transport
    BY <1>7, WireIsOK DEF DevHello, DevFinished, DevRefusesTls, TlsRecord, Transport
  <2>3. dev' \in Device
    <3>1. CASE DevHello \/ DevFinished
      BY <3>1, WireIsOK DEF DevHello, DevFinished, Device
    <3>2. CASE DevRefusesTls
      BY <3>2 DEF DevRefusesTls, DeviceOff, Device
    <3> QED BY <1>7, <3>1, <3>2
  <2>4. ThreadsOK'
    BY <2>1 DEF IInv, ThreadsOK, CallOK, LockHeldByHandshake, Handshaking
  <2> QED BY <2>1, <2>2, <2>3, <2>4, WireIsOK, RestAfterStep DEF IInv
<1>6. CASE DevNoise
  <2>1. noise' \in 0 .. MaxNoise
    BY <1>6, ConnectAssumption DEF DevNoise, IInv, RestOK
  <2>2. dev.token \in Nat
    BY WireIsOK DEF Device
  <2>3. to_host' \in Seq(CnxnTells)
    BY <1>6, <2>2, ToHostTyped DEF DevNoise
  <2> QED BY <1>6, <2>1, <2>3, WireIsOK, DeviceOK DEF DevNoise
<1> QED BY <1>1, <1>2, <1>3, <1>4, <1>5, <1>6, <1>7 DEF DeviceStep

-----------------------------------------------------------------------------
(* The theorems.                                                           *)

LEMMA NextOK == IInv /\ [Next]_vars => IInv'
<1> SUFFICES ASSUME IInv, [Next]_vars PROVE IInv'
  OBVIOUS
<1>1. CASE UNCHANGED vars
  BY <1>1 DEF vars, IInv, ThreadsOK, RestOK, CallOK, LockHeldByHandshake, Handshaking, MaxdataAgreed
<1>2. ASSUME NEW t \in Threads, Run(t) PROVE IInv'
  BY <1>2, CloseOK, ConnectOK, SetAvailableOK, DropPacketOK, ReadStlsOK, TlsStepOK, SignOK,
     SendPublicKeyOK, RaiseOK, ReadAuthOK, ReadCnxnOK DEF Run, Handshake
<1>3. ASSUME NEW t \in Threads, Call(t) PROVE IInv'
  BY <1>3, CallCloseOK, CallConnectOK DEF Call
<1> QED BY <1>1, <1>2, <1>3, DeviceStepOK DEF Next, Resting

LEMMA Invariance == Spec => []IInv
BY InitOK, NextOK, PTL DEF Spec

(* Every variable keeps its type: in particular the turns never pass the   *)
(* last key, and a signature is made with a key that rsa_keys has.         *)
THEOREM TypeCorrectness == Spec => []TypeOK
<1>1. IInv => TypeOK
  <2>1. CnxnTells \subseteq HostBound
    BY DEF CnxnTells
  <2>2. to_host \in Seq(CnxnTells) => to_host \in Seq(HostBound)
    BY <2>1
  <2> QED BY <2>2 DEF IInv, ThreadsOK, RestOK, TypeOK
<1> QED BY <1>1, Invariance, PTL

(* A thread in a handshake, and only it, holds the transport lock: no      *)
(* reply, refusal or exception leaves the lock behind.                     *)
THEOREM LockIsHandshakes == Spec => []LockHeldByHandshake
<1>1. IInv => LockHeldByHandshake
  BY DEF IInv, ThreadsOK
<1> QED BY <1>1, Invariance, PTL

(* The maxdata an available device is used with is that of its CNXN.       *)
THEOREM MaxdataIsCnxns == Spec => []MaxdataAgreed
<1>1. IInv => MaxdataAgreed
  BY DEF IInv, RestOK
<1> QED BY <1>1, Invariance, PTL

-----------------------------------------------------------------------------
(* The second invariant: what both ends know of each other.                *)

(* A packet that the host answers before anything else can happen.         *)
Asks(p) == p.cmd \in {"AUTH", "STLS"}

NothingAsked == \A i \in DOMAIN to_host : ~Asks(to_host[i])

(* The device talks to an open connection only; where each message of a    *)
(* TLS handshake finds the two ends; and what is encrypted.                *)
TlsOK ==
  /\ dev.st # "off" => conn.open
  /\ dev.secure => dev.st \in {"handshake", "online"}
  /\ conn.record = "hello" => ~conn.tls /\ dev.st \in {"stls", "tls"}
  /\ conn.record = "flight" => ~conn.tls /\ dev.st = "handshake" /\ ~dev.secure
  /\ conn.record = "finished" => conn.tls /\ dev.st = "handshake" /\ ~dev.secure
  /\ ClearOrTlsAgreed

(* The device waits for the packet m.                                      *)
Due(m) ==
  CASE m.cmd = "CNXN"         -> dev.st = "greet"
    [] m.cmd = "SIGNATURE"    -> dev.st = "auth" /\ m.token = dev.token /\ m.key = dev.refused + 1
    [] m.cmd = "RSAPUBLICKEY" -> dev.st = "auth"
    [] m.cmd = "STLS"         -> dev.st = "stls"

(* The two ends take turns: one packet is on its way to the device.        *)
ToDevOK == Len(to_dev) <= 1 /\ \A i \in DOMAIN to_dev : Due(to_dev[i])

(* The device greets as its last step, and asks one question at a time, of *)
(* which the host learns when it has nothing on its way.                   *)
ToHostOK ==
  /\ \A i \in DOMAIN to_host : to_host[i].cmd = "CNXN" => dev.st = "online"
  /\ dev.st \notin {"prompt", "online"} =>
       \A i \in DOMAIN to_host : Asks(to_host[i]) =>
         /\ to_dev = <<>>
         /\ to_host[i].cmd = "STLS" => dev.st = "stls"
         /\ to_host[i].cmd = "AUTH" => dev.st = "auth" /\ to_host[i].token = dev.token
         /\ \A j \in DOMAIN to_host : Asks(to_host[j]) => j = i

(* What a thread at x in its handshake knows of the device.  A refusal is  *)
(* counted when the AUTH is sent, that is before the thread reads it.      *)
TurnOK(x) ==
  /\ x.pc \in {"greet", "upgrade", "sign", "verdict", "pubkey"} => conn.record = "none"
  /\ x.pc = "upgrade" => dev.st \in {"stls", "tls"}
  /\ x.pc \in {"greet", "verdict"} =>
       /\ dev.st \in {"greet", "auth", "stls", "online"}
       /\ dev.st = "online" => NothingAsked
       /\ dev.st \in {"greet", "auth"} =>
            dev.refused = IF dev.st = "auth" /\ to_dev # <<>> THEN x.key - 1 ELSE x.key
       /\ \A i \in DOMAIN to_dev : to_dev[i].cmd \in {"CNXN", "SIGNATURE"}
  /\ x.pc \in {"sign", "pubkey"} =>
       /\ dev.st = "auth" /\ to_dev = <<>> /\ NothingAsked
       /\ x.token = dev.token /\ dev.refused = x.key - 1
  /\ x.pc = "pubkey" => x.key = x.keys + 1
  /\ x.pc = "accept" =>
       /\ ~conn.tls => conn.record = "none"
       /\ ~conn.tls => dev.refused = x.keys
       /\ \A i \in DOMAIN to_dev : to_dev[i].cmd # "SIGNATURE"

HInv == TlsOK /\ ToDevOK /\ ToHostOK /\ \A t \in Threads : TurnOK(th[t])

(* The Head, Tail and Append of a sequence, index by index.                *)
LEMMA TailIndex ==
  ASSUME NEW S, NEW q \in Seq(S), q # <<>>
  PROVE  /\ 1 \in DOMAIN q /\ Head(q) = q[1]
         /\ Tail(q) \in Seq(S)
         /\ \A i \in DOMAIN Tail(q) :
              i \in Nat \ {0} /\ i + 1 \in DOMAIN q /\ Tail(q)[i] = q[i + 1]
         /\ Len(q) <= 1 => Tail(q) = <<>>
OBVIOUS

LEMMA AppendIndex ==
  ASSUME NEW S, NEW q \in Seq(S), NEW m \in S
  PROVE  /\ Append(q, m) \in Seq(S) /\ Append(q, m) # <<>>
         /\ Len(Append(q, m)) = Len(q) + 1
         /\ \A i \in DOMAIN Append(q, m) :
              \/ i \in DOMAIN q /\ Append(q, m)[i] = q[i]
              \/ i = Len(q) + 1 /\ Append(q, m)[i] = m
OBVIOUS

(* The one packet on an empty wire.                                        *)
LEMMA OnlyOne ==
  ASSUME NEW S, NEW m \in S, NEW q, q = <<m>> \/ q = Append(<<>>, m)
  PROVE  q \in Seq(S) /\ Len(q) = 1 /\ q # <<>> /\ \A i \in DOMAIN q : q[i] = m
<1>1. CASE q = <<m>>
  <2>1. q \in Seq(S) /\ Len(q) = 1 /\ q # <<>>
    BY <1>1
  <2>2. DOMAIN q = {1} /\ q[1] = m
    BY <1>1
  <2> QED BY <2>1, <2>2
<1>2. CASE q = Append(<<>>, m)
  <2>1. <<>> \in Seq(S) /\ Len(<<>>) = 0 /\ DOMAIN <<>> = {}
    OBVIOUS
  <2> QED BY <1>2, <2>1, AppendIndex
<1> QED BY <1>1, <1>2

LEMMA OutsideTurn ==
  ASSUME NEW x, x.pc \notin Held
  PROVE  TurnOK(x)
BY DEF TurnOK, Held

(* While t has the transport lock, or nobody, all others are outside.      *)
LEMMA OthersOutside ==
  ASSUME IInv, NEW t \in Threads, th[t].pc \in Held \/ transport_lock = None
  PROVE  \A u \in Threads \ {t} : th[u].pc \notin Held
BY ConnectAssumption DEF IInv, ThreadsOK, LockHeldByHandshake, Handshaking

LEMMA TurnsAfterStep ==
  ASSUME NEW t \in Threads, \A u \in Threads \ {t} : th[u].pc \notin Held /\ th'[u] = th[u],
         TurnOK(th[t])'
  PROVE  (\A u \in Threads : TurnOK(th[u]))'
<1> SUFFICES ASSUME NEW u \in Threads, u # t PROVE TurnOK(th[u])'
  OBVIOUS
<1> QED BY DEF TurnOK, Held

(* Thread t steps to y; its turn is as y tells.                            *)
LEMMA StepOfOne ==
  ASSUME IInv, NEW t \in Threads, th[t].pc \in Held \/ transport_lock = None,
         NEW y, th' = [th EXCEPT ![t] = y]
  PROVE  /\ th'[t] = y
         /\ \A u \in Threads \ {t} : th[u].pc \notin Held /\ th'[u] = th[u]
BY OthersOutside DEF IInv, ThreadsOK

(* Nothing is left on the wire once the transport is closed.               *)
LEMMA ClosedWire ==
  ASSUME CloseTransport
  PROVE  (TlsOK /\ ToDevOK /\ ToHostOK)'
BY DEF CloseTransport, TlsOK, ToDevOK, ToHostOK, ClearOrTlsAgreed, DeviceOff, NoTransport

LEMMA HInit == Init => HInv
<1> SUFFICES ASSUME Init PROVE HInv
  OBVIOUS
<1>1. TlsOK /\ ToDevOK /\ ToHostOK
  BY DEF Init, TlsOK, ToDevOK, ToHostOK, ClearOrTlsAgreed, DeviceOff, NoTransport
<1>2. \A t \in Threads : TurnOK(th[t])
  BY OutsideTurn, IdleIsOK DEF Init, Held
<1> QED BY <1>1, <1>2 DEF HInv

(* A thread gives up: GiveUp closes; Raise does when TLS has the socket.   *)
LEMMA HGiveUp ==
  ASSUME IInv, HInv, NEW t \in Threads, th[t].pc \in Held, GiveUp(t)
  PROVE  HInv'
<1>1. (\A u \in Threads : TurnOK(th[u]))'
  BY StepOfOne, TurnsAfterStep, IdleIsOK DEF GiveUp, Go, TurnOK
<1> QED BY <1>1, ClosedWire DEF GiveUp, HInv

LEMMA HRaise ==
  ASSUME IInv, HInv, NEW t \in Threads, Raise(t)
  PROVE  HInv'
<1>1. (\A u \in Threads : TurnOK(th[u]))'
  <2>1. th[t].pc \in Held /\ th' = [th EXCEPT ![t] = IdleThread]
    BY DEF Raise, Fail, Go
  <2>2. /\ th'[t] = IdleThread
        /\ \A u \in Threads \ {t} : th[u].pc \notin Held /\ th'[u] = th[u]
    BY <2>1, StepOfOne
  <2>3. TurnOK(th[t])'
    BY <2>2, IdleIsOK DEF TurnOK
  <2> QED BY <2>2, <2>3, TurnsAfterStep
<1>2. (TlsOK /\ ToDevOK /\ ToHostOK)'
  <2>1. CASE th[t].pc = "hello"
    BY <2>1, ClosedWire DEF Raise, Fail
  <2>2. CASE th[t].pc # "hello"
    <3>1. UNCHANGED <<conn, to_dev, to_host, dev>>
      BY <2>2 DEF Raise, Fail
    <3> QED BY <3>1 DEF HInv, TlsOK, ToDevOK, ToHostOK, ClearOrTlsAgreed, Due, Asks
  <2> QED BY <2>1, <2>2
<1> QED BY <1>1, <1>2 DEF HInv

(* Calls begin and end outside the handshake.                              *)
LEMMA HOutside ==
  ASSUME IInv, HInv, NEW t \in Threads,
         CallClose(t) \/ SetAvailable(t)
         \/ \E n \in 0 .. MaxKeys, pem \in BOOLEAN : CallConnect(t, n, pem)
  PROVE  HInv'
<1>1. UNCHANGED <<conn, to_dev, to_host, dev>>
  BY DEF CallClose, BeginClose, SetAvailable, Connected, CallConnect
<1>2. th'[t].pc \notin Held /\ \A u \in Threads \ {t} : th'[u] = th[u]
  <2>1. PICK y : th' = [th EXCEPT ![t] = y] /\ y.pc \notin Held
    <3>1. CASE CallClose(t)
      <4>1. PICK y : y = [IdleThread EXCEPT !.pc = "close"]
        OBVIOUS
      <4>2. y.pc \notin Held
        BY <4>1 DEF IdleThread, Held
      <4> QED BY <3>1, <4>1, <4>2 DEF CallClose, BeginClose, Go
    <3>2. CASE SetAvailable(t)
      BY <3>2, IdleIsOK DEF SetAvailable, Connected, Go, Held
    <3>3. CASE \E n \in 0 .. MaxKeys, pem \in BOOLEAN : CallConnect(t, n, pem)
      <4>1. PICK n \in 0 .. MaxKeys, pem \in BOOLEAN : CallConnect(t, n, pem)
        BY <3>3
      <4>2. PICK y : y = [IdleThread EXCEPT !.pc = "connect", !.keys = n, !.pem = pem]
        OBVIOUS
      <4>3. y.pc \notin Held
        BY <4>2 DEF IdleThread, Held
      <4> QED BY <4>1, <4>2, <4>3 DEF CallConnect, Go
    <3> QED BY <3>1, <3>2, <3>3
  <2>2. th \in [Threads -> Thread]
    BY DEF IInv, ThreadsOK
  <2> QED BY <2>1, <2>2
<1>3. ASSUME NEW u \in Threads PROVE TurnOK(th[u])'
  BY <1>1, <1>2, <1>3 DEF HInv, TurnOK, NothingAsked, Asks, Held
<1>4. (TlsOK /\ ToDevOK /\ ToHostOK)'
  BY <1>1 DEF HInv, TlsOK, ToDevOK, ToHostOK, ClearOrTlsAgreed, Due, Asks
<1> QED BY <1>3, <1>4 DEF HInv

LEMMA HClose ==
  ASSUME IInv, HInv, NEW t \in Threads, Close(t)
  PROVE  HInv'
<1>1. (\A u \in Threads : TurnOK(th[u]))'
  BY StepOfOne, TurnsAfterStep, IdleIsOK DEF Close, Go, TurnOK
<1> QED BY <1>1, ClosedWire DEF Close, HInv

LEMMA HConnect ==
  ASSUME IInv, HInv, NEW t \in Threads, Connect(t)
  PROVE  HInv'
<1> DEFINE m == [cmd |-> "CNXN", key |-> 0, token |-> 0, enc |-> FALSE]
<1>1. th[t].pc = "connect" /\ transport_lock = None /\ th[t] \in Thread /\ th[t].key = 0
  BY LockIsMine DEF Connect, CallOK
<1>2. CASE /\ conn' = [NoTransport EXCEPT !.open = TRUE] /\ dev' = [DeviceOff EXCEPT !.st = "greet"]
           /\ to_dev' = <<m>> /\ to_host' = <<>> /\ th' = [th EXCEPT ![t].pc = "greet"]
  <2>1. Len(to_dev') = 1 /\ to_dev' # <<>> /\ \A i \in DOMAIN to_dev' : to_dev'[i] = m
    <3> HIDE DEF m
    <3> QED BY <1>2, OnlyOne
  <2>2. dev'.st = "greet" /\ dev'.secure = FALSE /\ dev'.refused = 0 /\ dev'.token = 0
    BY <1>2 DEF DeviceOff
  <2>3. /\ m.cmd = "CNXN" /\ m.enc = FALSE /\ to_host' = <<>>
        /\ conn'.open = TRUE /\ conn'.tls = FALSE /\ conn'.record = "none"
    BY <1>2 DEF NoTransport
  <2> HIDE DEF m
  <2>4. (TlsOK /\ ToDevOK /\ ToHostOK)'
    <3>1. TlsOK'
      <4>1. ClearOrTlsAgreed'
        <5>1. \A i \in DOMAIN to_dev' : to_dev'[i].enc = FALSE
          BY <2>1, <2>3
        <5>2. DOMAIN to_host' = {}
          BY <2>3
        <5> QED BY <2>2, <2>3, <5>1, <5>2 DEF ClearOrTlsAgreed
      <4> QED BY <2>2, <2>3, <4>1 DEF TlsOK
    <3>3. ToDevOK'
      <4>1. ASSUME NEW i \in DOMAIN to_dev' PROVE Due(to_dev[i])'
        BY <2>1, <2>2, <2>3 DEF Due
      <4> QED BY <2>1, <4>1 DEF ToDevOK
    <3>4. ToHostOK'
      BY <1>2 DEF ToHostOK
    <3> QED BY <3>1, <3>3, <3>4
  <2>5. th'[t].pc = "greet" /\ th'[t].key = 0 /\ \A u \in Threads \ {t} : th[u].pc \notin Held /\ th'[u] = th[u]
    <3> DEFINE y == [th[t] EXCEPT !.pc = "greet"]
    <3>1. th' = [th EXCEPT ![t] = y] /\ y.pc = "greet" /\ y.key = 0
      BY <1>1, <1>2 DEF Thread
    <3> HIDE DEF y
    <3> QED BY <1>1, <3>1, StepOfOne
  <2>6. TurnOK(th[t])'
    BY <1>2, <2>1, <2>2, <2>3, <2>5 DEF TurnOK
  <2> QED BY <2>4, <2>5, <2>6, TurnsAfterStep DEF HInv
<1>3. CASE CloseTransport /\ Go(t, IdleThread)
  <2>1. th'[t] = IdleThread /\ \A u \in Threads \ {t} : th[u].pc \notin Held /\ th'[u] = th[u]
    BY <1>1, <1>3, StepOfOne DEF Go
  <2>2. (\A u \in Threads : TurnOK(th[u]))'
    BY <2>1, TurnsAfterStep, IdleIsOK DEF TurnOK
  <2> QED BY <1>3, <2>2, ClosedWire DEF HInv
<1> QED BY <1>2, <1>3 DEF Connect

-----------------------------------------------------------------------------
(* The handshake, step by step.                                            *)

(* What the host has read is not asked again.                              *)
LEMMA AskTaken ==
  ASSUME IInv, HInv, to_host # <<>>, to_host' = Tail(to_host)
  PROVE  /\ \A i \in DOMAIN to_host' :
              to_host'[i].enc = conn.tls /\ (to_host'[i].cmd = "CNXN" => dev.st = "online")
         /\ NothingAsked => NothingAsked'
         /\ Head(to_host).cmd = "CNXN" => dev.st = "online"
         /\ Asks(Head(to_host)) /\ dev.st \notin {"prompt", "online"} =>
              /\ NothingAsked' /\ to_dev = <<>>
              /\ Head(to_host).cmd = "STLS" => dev.st = "stls"
              /\ Head(to_host).cmd = "AUTH" => dev.st = "auth" /\ Head(to_host).token = dev.token
<1>1. /\ 1 \in DOMAIN to_host /\ Head(to_host) = to_host[1]
      /\ \A i \in DOMAIN to_host' : i \in Nat \ {0} /\ i + 1 \in DOMAIN to_host /\ to_host'[i] = to_host[i + 1]
  BY WireIsOK, TailIndex
<1>2. NothingAsked => NothingAsked'
  BY <1>1 DEF NothingAsked, Asks
<1>3. \A i \in DOMAIN to_host :
         to_host[i].enc = conn.tls /\ (to_host[i].cmd = "CNXN" => dev.st = "online")
  BY DEF HInv, TlsOK, ClearOrTlsAgreed, ToHostOK
<1>4. ASSUME Asks(Head(to_host)), dev.st \notin {"prompt", "online"}
      PROVE  /\ NothingAsked' /\ to_dev = <<>>
             /\ Head(to_host).cmd = "STLS" => dev.st = "stls"
             /\ Head(to_host).cmd = "AUTH" => dev.st = "auth" /\ Head(to_host).token = dev.token
  <2>1. /\ to_dev = <<>>
        /\ to_host[1].cmd = "STLS" => dev.st = "stls"
        /\ to_host[1].cmd = "AUTH" => dev.st = "auth" /\ to_host[1].token = dev.token
        /\ \A j \in DOMAIN to_host : Asks(to_host[j]) => j = 1
    BY <1>1, <1>4 DEF HInv, ToHostOK
  <2>2. NothingAsked'
    BY <1>1, <2>1 DEF NothingAsked, Asks
  <2> QED BY <1>1, <2>1, <2>2
<1> QED BY <1>1, <1>2, <1>3, <1>4

(* A read that leaves the device and what it was sent alone.               *)
LEMMA HRead ==
  ASSUME IInv, HInv, to_host # <<>>, to_host' = Tail(to_host), UNCHANGED <<conn, to_dev, dev>>
  PROVE  (TlsOK /\ ToDevOK /\ ToHostOK)'
<1>1. /\ \A i \in DOMAIN to_host' :
           /\ i + 1 \in DOMAIN to_host /\ to_host'[i] = to_host[i + 1]
           /\ i \in Nat
  BY WireIsOK, TailIndex
<1>2. TlsOK' /\ ToDevOK'
  BY AskTaken DEF HInv, TlsOK, ClearOrTlsAgreed, ToDevOK, Due
<1>3. ToHostOK'
  <2>1. \A i \in DOMAIN to_host' : to_host'[i].cmd = "CNXN" => dev'.st = "online"
    BY AskTaken
  <2>2. ASSUME dev.st \notin {"prompt", "online"}, NEW i \in DOMAIN to_host', Asks(to_host'[i])
        PROVE  /\ to_dev' = <<>>
               /\ to_host'[i].cmd = "STLS" => dev'.st = "stls"
               /\ to_host'[i].cmd = "AUTH" => dev'.st = "auth" /\ to_host'[i].token = dev'.token
               /\ \A j \in DOMAIN to_host' : Asks(to_host'[j]) => j = i
    BY <1>1, <2>2 DEF HInv, ToHostOK
  <2> QED BY <2>1, <2>2 DEF ToHostOK, Asks
<1> QED BY <1>2, <1>3

(* What the host sends when its turn has come.                             *)
LEMMA HSend ==
  ASSUME IInv, HInv, to_dev = <<>>, NEW m \in DevBound, to_dev' = Append(to_dev, m),
         m.enc = conn.tls, Due(m), UNCHANGED <<conn, dev>>, NothingAsked',
         \A i \in DOMAIN to_host' :
           to_host'[i].enc = conn.tls /\ (to_host'[i].cmd = "CNXN" => dev.st = "online")
  PROVE  /\ (TlsOK /\ ToDevOK /\ ToHostOK)'
         /\ to_dev' # <<>> /\ \A i \in DOMAIN to_dev' : to_dev'[i] = m
<1>1. Len(to_dev') = 1 /\ to_dev' # <<>> /\ \A i \in DOMAIN to_dev' : to_dev'[i] = m
  BY OnlyOne
<1>2. TlsOK'
  <2>1. dev.st \in {"greet", "auth", "stls"}
    BY DEF Due, DevBound
  <2>2. ~conn.tls /\ ~dev.secure
    BY <2>1 DEF HInv, TlsOK, ClearOrTlsAgreed
  <2> QED BY <1>1, <2>2, WireIsOK DEF HInv, TlsOK, ClearOrTlsAgreed, Transport, Device
<1>3. ToDevOK'
  <2>1. ASSUME NEW i \in DOMAIN to_dev' PROVE Due(to_dev[i])'
    BY <1>1 DEF Due
  <2> QED BY <1>1, <2>1 DEF ToDevOK
<1>4. ToHostOK'
  BY DEF ToHostOK, NothingAsked
<1> QED BY <1>1, <1>2, <1>3, <1>4

LEMMA HDropPacket ==
  ASSUME IInv, HInv, NEW t \in Threads, DropPacket(t)
  PROVE  HInv'
<1>1. /\ to_host # <<>> /\ to_host' = Tail(to_host) /\ UNCHANGED <<th, conn, to_dev, dev>>
  BY DEF DropPacket
<1>2. NothingAsked => NothingAsked'
  BY <1>1, AskTaken
<1>3. ASSUME NEW u \in Threads PROVE TurnOK(th[u])'
  BY <1>1, <1>2 DEF HInv, TurnOK
<1> QED BY <1>1, <1>3, HRead DEF HInv

LEMMA HReadCnxn ==
  ASSUME IInv, HInv, NEW t \in Threads, NEW step \in {"greet", "verdict", "accept"},
         ReadCnxn(t, step)
  PROVE  HInv'
<1> DEFINE y == [IdleThread EXCEPT !.pc = "connected", !.ret = Head(to_host).maxdata]
<1>1. th[t].pc \in Held /\ to_host # <<>> /\ to_host' = Tail(to_host) /\ UNCHANGED <<conn, to_dev, dev>>
  BY DEF ReadCnxn, Reads, Return, Held
<1>2. th' = [th EXCEPT ![t] = y] /\ y.pc = "connected"
  BY DEF ReadCnxn, Return, Go, IdleThread
<1> HIDE DEF y
<1>3. th'[t] = y /\ \A u \in Threads \ {t} : th[u].pc \notin Held /\ th'[u] = th[u]
  BY <1>1, <1>2, StepOfOne
<1>4. TurnOK(th[t])'
  BY <1>2, <1>3 DEF TurnOK
<1> QED BY <1>1, <1>3, <1>4, HRead, TurnsAfterStep DEF HInv

LEMMA HReadStls ==
  ASSUME IInv, HInv, NEW t \in Threads, ReadStls(t)
  PROVE  HInv'
<1>1. th[t].pc = "greet" /\ to_host # <<>> /\ Head(to_host).cmd = "STLS" /\ TurnOK(th[t])
  BY DEF ReadStls, Reads, HInv
<1>2. CASE th[t].pem /\ CanUpgrade
  <2> DEFINE m == [cmd |-> "STLS", key |-> 0, token |-> 0, enc |-> conn.tls]
             y == [th[t] EXCEPT !.pc = "upgrade"]
  <2>1. to_host' = Tail(to_host) /\ UNCHANGED <<conn, dev>> /\ th' = [th EXCEPT ![t].pc = "upgrade"]
        /\ to_dev' = Append(to_dev, m)
    BY <1>2 DEF ReadStls, ToDev
  <2>2. dev.st \notin {"prompt", "online"}
    <3>1. dev.st = "online" => NothingAsked
      BY <1>1 DEF TurnOK
    <3>2. ~NothingAsked
      BY <1>1, WireIsOK, TailIndex DEF NothingAsked, Asks
    <3> QED BY <1>1, <3>1, <3>2 DEF TurnOK
  <2>3. NothingAsked' /\ to_dev = <<>> /\ dev.st = "stls"
    BY <1>1, <2>1, <2>2, AskTaken DEF Asks
  <2>4. m \in DevBound /\ m.cmd = "STLS" /\ m.enc = conn.tls
    BY WireIsOK, ConnectAssumption DEF DevBound, Transport
  <2>5. th' = [th EXCEPT ![t] = y] /\ y.pc = "upgrade"
    BY <2>1, LockIsMine DEF Thread
  <2> HIDE DEF m, y
  <2>6. Due(m)
    BY <2>3, <2>4 DEF Due
  <2>7. (TlsOK /\ ToDevOK /\ ToHostOK)'
    BY <1>1, <2>1, <2>3, <2>4, <2>6, AskTaken, HSend
  <2>8. th'[t] = y /\ \A u \in Threads \ {t} : th[u].pc \notin Held /\ th'[u] = th[u]
    BY <1>1, <2>5, StepOfOne DEF Held
  <2>9. TurnOK(th[t])'
    <3>1. conn.record = "none"
      BY <1>1 DEF TurnOK
    <3> QED BY <2>1, <2>3, <2>5, <2>8, <3>1 DEF TurnOK
  <2> QED BY <2>7, <2>8, <2>9, TurnsAfterStep DEF HInv
<1>3. CASE ~(th[t].pem /\ CanUpgrade)
  BY <1>1, <1>3, HGiveUp DEF ReadStls, Held
<1> QED BY <1>2, <1>3

(* A device in this state waits for no packet.                             *)
LEMMA NothingDue ==
  ASSUME IInv, HInv, dev.st \in {"prompt", "tls", "handshake"}
  PROVE  DOMAIN to_dev = {}
<1>1. ASSUME NEW i \in DOMAIN to_dev PROVE FALSE
  <2>1. to_dev[i] \in DevBound /\ Due(to_dev[i])
    BY WireIsOK DEF HInv, ToDevOK
  <2> QED BY <2>1 DEF Due, DevBound
<1> QED BY <1>1

LEMMA HStartTls ==
  ASSUME IInv, HInv, NEW t \in Threads, StartTls(t)
  PROVE  HInv'
<1> DEFINE y == [th[t] EXCEPT !.pc = "hello"]
<1>1. /\ th[t].pc = "upgrade" /\ UNCHANGED <<to_dev, to_host, dev>> /\ TurnOK(th[t])
      /\ conn' = [conn EXCEPT !.record = "hello"] /\ th' = [th EXCEPT ![t].pc = "hello"]
  BY DEF StartTls, HInv
<1>2. /\ conn'.record = "hello" /\ conn'.tls = conn.tls /\ conn'.open = conn.open
      /\ dev.st \in {"stls", "tls"}
  BY <1>1, WireIsOK DEF Transport, TurnOK
<1>3. (TlsOK /\ ToDevOK /\ ToHostOK)'
  BY <1>1, <1>2 DEF HInv, TlsOK, ClearOrTlsAgreed, ToDevOK, ToHostOK, Due, Asks
<1>4. th' = [th EXCEPT ![t] = y] /\ y.pc = "hello"
  BY <1>1, LockIsMine DEF Thread
<1> HIDE DEF y
<1>5. th'[t] = y /\ \A u \in Threads \ {t} : th[u].pc \notin Held /\ th'[u] = th[u]
  BY <1>1, <1>4, StepOfOne DEF Held
<1>6. TurnOK(th[t])'
  BY <1>4, <1>5 DEF TurnOK
<1> QED BY <1>3, <1>5, <1>6, TurnsAfterStep DEF HInv

(* The host switches when the device has sent its flight, and with it the  *)
(* last byte that the host reads before the device's first in TLS.         *)
LEMMA HFinishTls ==
  ASSUME IInv, HInv, NEW t \in Threads, FinishTls(t)
  PROVE  HInv'
<1> DEFINE y == [th[t] EXCEPT !.pc = "accept"]
<1>1. /\ th[t].pc = "hello" /\ conn.record = "flight" /\ to_host = <<>>
      /\ UNCHANGED <<to_dev, to_host, dev>> /\ th' = [th EXCEPT ![t].pc = "accept"]
      /\ conn' = [conn EXCEPT !.tls = TRUE, !.record = "finished"]
  BY DEF FinishTls
<1>2. /\ conn'.record = "finished" /\ conn'.tls = TRUE /\ conn'.open = conn.open
      /\ dev.st = "handshake" /\ ~dev.secure
  BY <1>1, WireIsOK DEF Transport, HInv, TlsOK
<1>3. DOMAIN to_dev = {} /\ DOMAIN to_host = {}
  BY <1>1, <1>2, NothingDue
<1>4. (TlsOK /\ ToDevOK /\ ToHostOK)'
  BY <1>1, <1>2, <1>3 DEF HInv, TlsOK, ClearOrTlsAgreed, ToDevOK, ToHostOK
<1>5. th' = [th EXCEPT ![t] = y] /\ y.pc = "accept"
  BY <1>1, LockIsMine DEF Thread
<1> HIDE DEF y
<1>6. th'[t] = y /\ \A u \in Threads \ {t} : th[u].pc \notin Held /\ th'[u] = th[u]
  BY <1>1, <1>5, StepOfOne DEF Held
<1>7. TurnOK(th[t])'
  BY <1>1, <1>2, <1>3, <1>5, <1>6 DEF TurnOK
<1> QED BY <1>4, <1>6, <1>7, TurnsAfterStep DEF HInv

(* The AUTH that is read is the last one, and every key so far was refused. *)
LEMMA HReadAuth ==
  ASSUME IInv, HInv, NEW t \in Threads, NEW step \in {"greet", "verdict"}, ReadAuth(t, step)
  PROVE  HInv'
<1>1. /\ th[t].pc \in {"greet", "verdict"} /\ to_host # <<>> /\ Head(to_host).cmd = "AUTH"
      /\ TurnOK(th[t]) /\ th[t] \in Thread /\ CallOK(th[t])
  BY LockIsMine DEF ReadAuth, Reads, HInv
<1>2. CASE th[t].keys = 0
  BY <1>1, <1>2, HGiveUp DEF ReadAuth, Held
<1>3. CASE th[t].keys # 0
  <2> DEFINE p == Head(to_host)
             y == NextKey(th[t], p)
  <2>1. to_host' = Tail(to_host) /\ UNCHANGED <<conn, to_dev, dev>> /\ th' = [th EXCEPT ![t] = y]
    BY <1>3 DEF ReadAuth, Go
  <2>2. dev.st \notin {"prompt", "online"}
    <3>1. dev.st = "online" => NothingAsked
      BY <1>1 DEF TurnOK
    <3>2. ~NothingAsked
      BY <1>1, WireIsOK, TailIndex DEF NothingAsked, Asks
    <3> QED BY <1>1, <3>1, <3>2 DEF TurnOK
  <2>3. NothingAsked' /\ to_dev = <<>> /\ dev.st = "auth" /\ p.token = dev.token
    BY <1>1, <2>1, <2>2, AskTaken DEF Asks
  <2>4. dev.refused = th[t].key
    BY <1>1, <2>3 DEF TurnOK
  <2>5. /\ y.pc = (IF th[t].key < th[t].keys THEN "sign" ELSE "pubkey")
        /\ y.key = th[t].key + 1 /\ y.keys = th[t].keys /\ y.token = dev.token
    BY <1>1, <2>3 DEF NextKey, Thread
  <2>6. th[t].key \in 0 .. th[t].keys /\ th[t].keys \in Nat
    BY <1>1 DEF CallOK, Thread
  <2> HIDE DEF y
  <2>7. th'[t] = y /\ \A u \in Threads \ {t} : th[u].pc \notin Held /\ th'[u] = th[u]
    BY <1>1, <2>1, StepOfOne DEF Held
  <2>8. TurnOK(th[t])'
    <3>1. y.pc = "pubkey" => y.key = y.keys + 1
      BY <2>5, <2>6
    <3>2. y.pc \in {"sign", "pubkey"} /\ dev.refused = y.key - 1
      BY <2>4, <2>5, <2>6
    <3>3. conn.record = "none"
      BY <1>1 DEF TurnOK
    <3> QED BY <2>1, <2>3, <2>5, <2>7, <3>1, <3>2, <3>3 DEF TurnOK
  <2> QED BY <1>1, <2>1, <2>7, <2>8, HRead, TurnsAfterStep DEF HInv
<1> QED BY <1>2, <1>3

LEMMA HSign ==
  ASSUME IInv, HInv, NEW t \in Threads, Sign(t)
  PROVE  HInv'
<1>1. th[t].pc = "sign" /\ TurnOK(th[t]) /\ th[t] \in Thread /\ CallOK(th[t])
  BY LockIsMine DEF Sign, HInv
<1>2. CASE th[t].arg0 # "token"
  BY <1>1, <1>2, HGiveUp DEF Sign, Held
<1>3. CASE th[t].arg0 = "token"
  <2> DEFINE m == [cmd |-> "SIGNATURE", key |-> th[t].key, token |-> th[t].token, enc |-> conn.tls]
             y == [th[t] EXCEPT !.pc = "verdict"]
  <2>1. /\ to_dev' = Append(to_dev, m) /\ UNCHANGED <<conn, dev, to_host>>
        /\ th' = [th EXCEPT ![t].pc = "verdict"]
    BY <1>3 DEF Sign, ToDev
  <2>2. /\ dev.st = "auth" /\ to_dev = <<>> /\ NothingAsked
        /\ th[t].token = dev.token /\ dev.refused = th[t].key - 1
    BY <1>1 DEF TurnOK
  <2>3. th[t].key \in 1 .. MaxKeys /\ th[t].key \in Nat
    BY <1>1, ConnectAssumption DEF CallOK, Thread
  <2>4. /\ m \in DevBound /\ m.cmd = "SIGNATURE" /\ m.enc = conn.tls
        /\ m.key = th[t].key /\ m.token = th[t].token
    BY <1>1, <2>3, WireIsOK, ConnectAssumption DEF DevBound, Thread, Transport
  <2>5. th' = [th EXCEPT ![t] = y] /\ y.pc = "verdict" /\ y.key = th[t].key
    BY <1>1, <2>1 DEF Thread
  <2> HIDE DEF m, y
  <2>6. Due(m)
    BY <2>2, <2>3, <2>4 DEF Due
  <2>7. \A i \in DOMAIN to_host' :
           to_host'[i].enc = conn.tls /\ (to_host'[i].cmd = "CNXN" => dev.st = "online")
    BY <2>1 DEF HInv, TlsOK, ClearOrTlsAgreed, ToHostOK
  <2>8. NothingAsked'
    BY <2>1, <2>2 DEF NothingAsked, Asks
  <2>9. (TlsOK /\ ToDevOK /\ ToHostOK)' /\ to_dev' # <<>> /\ \A i \in DOMAIN to_dev' : to_dev'[i] = m
    BY <2>1, <2>2, <2>4, <2>6, <2>7, <2>8, HSend
  <2>10. th'[t] = y /\ \A u \in Threads \ {t} : th[u].pc \notin Held /\ th'[u] = th[u]
    BY <1>1, <2>5, StepOfOne DEF Held
  <2>11. TurnOK(th[t])'
    <3>1. conn.record = "none"
      BY <1>1 DEF TurnOK
    <3> QED BY <3>1, <2>1, <2>2, <2>4, <2>5, <2>9, <2>10 DEF TurnOK
  <2> QED BY <2>9, <2>10, <2>11, TurnsAfterStep DEF HInv
<1> QED BY <1>2, <1>3

LEMMA HSendPublicKey ==
  ASSUME IInv, HInv, NEW t \in Threads, SendPublicKey(t)
  PROVE  HInv'
<1> DEFINE m == [cmd |-> "RSAPUBLICKEY", key |-> 1, token |-> 0, enc |-> conn.tls]
           y == [th[t] EXCEPT !.pc = "accept"]
<1>1. th[t].pc = "pubkey" /\ TurnOK(th[t]) /\ th[t] \in Thread /\ CallOK(th[t])
  BY LockIsMine DEF SendPublicKey, HInv
<1>2. /\ to_dev' = Append(to_dev, m) /\ UNCHANGED <<conn, dev, to_host>>
      /\ th' = [th EXCEPT ![t].pc = "accept"]
  BY DEF SendPublicKey, ToDev
<1>3. /\ dev.st = "auth" /\ to_dev = <<>> /\ NothingAsked
      /\ dev.refused = th[t].keys
  BY <1>1 DEF TurnOK, Thread
<1>4. m \in DevBound /\ m.cmd = "RSAPUBLICKEY" /\ m.enc = conn.tls
  BY <1>1, WireIsOK, ConnectAssumption DEF DevBound, CallOK, Thread, Transport
<1>5. th' = [th EXCEPT ![t] = y] /\ y.pc = "accept" /\ y.keys = th[t].keys
  BY <1>1, <1>2 DEF Thread
<1> HIDE DEF m, y
<1>6. Due(m)
  BY <1>3, <1>4 DEF Due
<1>7. \A i \in DOMAIN to_host' :
         to_host'[i].enc = conn.tls /\ (to_host'[i].cmd = "CNXN" => dev.st = "online")
  BY <1>2 DEF HInv, TlsOK, ClearOrTlsAgreed, ToHostOK
<1>8. NothingAsked'
  BY <1>2, <1>3 DEF NothingAsked, Asks
<1>9. (TlsOK /\ ToDevOK /\ ToHostOK)' /\ to_dev' # <<>> /\ \A i \in DOMAIN to_dev' : to_dev'[i] = m
  BY <1>2, <1>3, <1>4, <1>6, <1>7, <1>8, HSend
<1>10. th'[t] = y /\ \A u \in Threads \ {t} : th[u].pc \notin Held /\ th'[u] = th[u]
  BY <1>1, <1>5, StepOfOne DEF Held
<1>11. TurnOK(th[t])'
  <2>1. conn.record = "none"
    BY <1>1 DEF TurnOK
  <2> QED BY <2>1, <1>2, <1>3, <1>4, <1>5, <1>9, <1>10 DEF TurnOK
<1> QED BY <1>9, <1>10, <1>11, TurnsAfterStep DEF HInv

-----------------------------------------------------------------------------
(* The device's steps.                                                     *)

(* The one packet on the wire is the one the device takes.                 *)
LEMMA Taken ==
  ASSUME IInv, HInv, to_dev # <<>>, to_dev' = Tail(to_dev)
  PROVE  /\ 1 \in DOMAIN to_dev /\ Head(to_dev) = to_dev[1] /\ Due(Head(to_dev))
         /\ to_dev' = <<>> /\ DOMAIN to_dev' = {}
<1>1. 1 \in DOMAIN to_dev /\ Head(to_dev) = to_dev[1] /\ to_dev' = <<>>
  BY WireIsOK, TailIndex DEF HInv, ToDevOK
<1> QED BY <1>1 DEF HInv, ToDevOK

(* What the device says: a CNXN when it goes online, and until it waits    *)
(* for its user one question, which is the last.                           *)
LEMMA HSays ==
  ASSUME IInv, HInv, NEW p \in CnxnTells, to_host' = Append(to_host, p),
         UNCHANGED conn, \A i \in DOMAIN to_dev' : i \in DOMAIN to_dev /\ to_dev'[i] = to_dev[i],
         Len(to_dev') <= 1, \A i \in DOMAIN to_dev' : Due(to_dev[i])',
         p.enc = dev.secure, dev'.secure = dev.secure,
         \/ dev.st \in {"greet", "auth", "prompt"} \/ dev.secure \/ (dev.st = "stls" /\ dev' = dev),
         dev.st # "off", dev'.st # "off", dev.secure => dev'.st = "online",
         dev'.st # "handshake",
         dev.st = "online" => dev'.st = "online",
         p.cmd = "CNXN" => dev'.st = "online",
         dev'.st \notin {"prompt", "online"} =>
           \/ ~Asks(p) /\ dev' = dev /\ to_dev' = to_dev
           \/ /\ NothingAsked /\ to_dev' = <<>>
              /\ p.cmd = "STLS" => dev'.st = "stls"
              /\ p.cmd = "AUTH" => dev'.st = "auth" /\ p.token = dev'.token
  PROVE  (TlsOK /\ ToDevOK /\ ToHostOK)'
<1>1. \A i \in DOMAIN to_host' : \/ i \in DOMAIN to_host /\ to_host'[i] = to_host[i]
                                 \/ i = Len(to_host) + 1 /\ to_host'[i] = p
  BY WireIsOK, AppendIndex
<1>2. TlsOK'
  <2>1. ~dev.secure => ~conn.tls
    BY DEF HInv, TlsOK, ClearOrTlsAgreed
  <2>2. dev.secure = conn.tls
    BY <2>1, WireIsOK DEF HInv, TlsOK, ClearOrTlsAgreed, Transport, Device
  <2>3. dev' = dev \/ conn.record = "none"
    BY <2>1, WireIsOK DEF HInv, TlsOK, ClearOrTlsAgreed, Transport
  <2>4. ClearOrTlsAgreed'
    BY <1>1, <2>2 DEF HInv, TlsOK, ClearOrTlsAgreed
  <2> QED BY <2>3, <2>4 DEF HInv, TlsOK
<1>3. ToDevOK'
  BY DEF HInv, ToDevOK
<1>4. ToHostOK'
  <2>1. ASSUME NEW i \in DOMAIN to_host', to_host'[i].cmd = "CNXN" PROVE dev'.st = "online"
    BY <1>1, <2>1 DEF HInv, ToHostOK
  <2>2. ASSUME dev'.st \notin {"prompt", "online"}, NEW i \in DOMAIN to_host', Asks(to_host'[i])
        PROVE  /\ to_dev' = <<>>
               /\ to_host'[i].cmd = "STLS" => dev'.st = "stls"
               /\ to_host'[i].cmd = "AUTH" => dev'.st = "auth" /\ to_host'[i].token = dev'.token
               /\ \A j \in DOMAIN to_host' : Asks(to_host'[j]) => j = i
    <3>1. CASE ~Asks(p) /\ dev' = dev /\ to_dev' = to_dev
      BY <1>1, <2>2, <3>1 DEF HInv, ToHostOK
    <3>2. CASE /\ NothingAsked /\ to_dev' = <<>>
               /\ p.cmd = "STLS" => dev'.st = "stls"
               /\ p.cmd = "AUTH" => dev'.st = "auth" /\ p.token = dev'.token
      BY <1>1, <2>2, <3>2 DEF NothingAsked
    <3> QED BY <2>2, <3>1, <3>2
  <2> QED BY <2>1, <2>2 DEF ToHostOK, Asks
<1> QED BY <1>2, <1>3, <1>4

(* A packet that asks nothing leaves nothing asked.                        *)
LEMMA SaysNothing ==
  ASSUME IInv, NEW p \in CnxnTells, to_host' = Append(to_host, p), ~Asks(p), NothingAsked
  PROVE  NothingAsked'
<1>1. \A i \in DOMAIN to_host' : \/ i \in DOMAIN to_host /\ to_host'[i] = to_host[i]
                                 \/ i = Len(to_host) + 1 /\ to_host'[i] = p
  BY WireIsOK, AppendIndex
<1> QED BY <1>1 DEF NothingAsked, Asks

LEMMA WhatIsSaid ==
  ASSUME IInv, NEW cmd \in {"CNXN", "AUTH", "STLS", "OKAY"}, NEW arg0 \in {"token", "other"},
         NEW n \in Nat, cmd = "CNXN" => n = DevMaxdata, NEW token \in Nat,
         ToHost(cmd, arg0, n, token)
  PROVE  \E p \in CnxnTells : /\ to_host' = Append(to_host, p)
                              /\ p.cmd = cmd /\ p.token = token /\ p.enc = dev.secure
<1> DEFINE p == [cmd |-> cmd, arg0 |-> arg0, maxdata |-> n, token |-> token, enc |-> dev.secure]
<1>1. p \in CnxnTells /\ p.cmd = cmd /\ p.token = token /\ p.enc = dev.secure
  BY WireIsOK DEF CnxnTells, HostBound, Device
<1>2. to_host' = Append(to_host, p)
  BY DEF ToHost
<1> HIDE DEF p
<1> QED BY <1>1, <1>2

LEMMA HWelcome ==
  ASSUME IInv, HInv, Welcome, UNCHANGED conn, Len(to_dev') <= 1,
         DOMAIN to_dev' = {}, dev.st \in {"greet", "auth", "prompt"} \/ dev.secure
  PROVE  /\ (TlsOK /\ ToDevOK /\ ToHostOK)' /\ (NothingAsked => NothingAsked')
         /\ dev'.st = "online" /\ dev'.secure = dev.secure /\ dev'.refused = dev.refused
<1>1. dev'.st = "online" /\ dev'.secure = dev.secure /\ dev'.refused = dev.refused
  BY WireIsOK DEF Welcome, Device
<1>2. PICK p \in CnxnTells : to_host' = Append(to_host, p) /\ p.cmd = "CNXN" /\ p.enc = dev.secure
  BY WhatIsSaid, ConnectAssumption DEF Welcome
<1>3. (TlsOK /\ ToDevOK /\ ToHostOK)'
  <2>1. dev.st # "off"
    BY DEF HInv, TlsOK
  <2> QED BY <1>1, <1>2, <2>1, HSays
<1>4. NothingAsked => NothingAsked'
  BY <1>2, SaysNothing DEF Asks
<1> QED BY <1>1, <1>3, <1>4

LEMMA HDevGreet ==
  ASSUME IInv, HInv, DevGreet
  PROVE  HInv'
<1>1. /\ dev.st = "greet" /\ to_dev # <<>> /\ to_dev' = Tail(to_dev) /\ UNCHANGED <<th, conn>>
  BY DEF DevGreet, Handles, devRest
<1>2. DOMAIN to_dev' = {} /\ to_dev' = <<>> /\ Len(to_dev') <= 1
  BY <1>1, Taken
<1>3. NothingAsked /\ ~dev.secure
  BY <1>1 DEF HInv, ToHostOK, NothingAsked, TlsOK, Asks
<1> DEFINE Said == /\ (TlsOK /\ ToDevOK /\ ToHostOK)'
                   /\ dev'.st \in {"auth", "stls", "online"}
                   /\ dev'.st = "online" => NothingAsked'
                   /\ dev'.refused = dev.refused /\ dev'.secure = dev.secure
<1>4. Said
  <2>1. CASE Welcome
    BY <1>1, <1>2, <1>3, <2>1, HWelcome
  <2>2. ASSUME NEW kind \in {"token", "other"}, Challenge(kind) PROVE Said
    <3>1. /\ dev'.st = "auth" /\ dev'.token = dev.token + 1 /\ dev.token + 1 \in Nat
          /\ dev'.refused = dev.refused /\ dev'.secure = dev.secure
      BY <2>2, WireIsOK DEF Challenge, Device
    <3> DEFINE n == dev.token + 1
    <3>2. ToHost("AUTH", kind, 0, n) /\ n \in Nat /\ dev'.token = n
      BY <2>2, <3>1 DEF Challenge
    <3> HIDE DEF n
    <3>3. PICK p \in CnxnTells : /\ to_host' = Append(to_host, p) /\ p.cmd = "AUTH"
                                 /\ p.token = n /\ p.enc = dev.secure
      BY <3>2, WhatIsSaid
    <3>4. (TlsOK /\ ToDevOK /\ ToHostOK)'
      BY <1>1, <1>2, <1>3, <3>1, <3>2, <3>3, HSays
    <3> QED BY <3>1, <3>4
  <2>3. CASE dev' = [dev EXCEPT !.st = "stls"] /\ ToHost("STLS", "other", 0, 0)
    <3>1. dev'.st = "stls" /\ dev'.refused = dev.refused /\ dev'.secure = dev.secure
      BY <2>3, WireIsOK DEF Device
    <3>2. PICK p \in CnxnTells : to_host' = Append(to_host, p) /\ p.cmd = "STLS" /\ p.enc = dev.secure
      BY <2>3, WhatIsSaid
    <3>3. (TlsOK /\ ToDevOK /\ ToHostOK)'
      BY <1>1, <1>2, <1>3, <3>1, <3>2, HSays
    <3> QED BY <3>1, <3>3
  <2> QED BY <2>1, <2>2, <2>3 DEF DevGreet
<1>5. ASSUME NEW u \in Threads PROVE TurnOK(th[u])'
  BY <1>1, <1>2, <1>4 DEF HInv, TurnOK
<1> QED BY <1>4, <1>5 DEF HInv

(* A refusal counts for the key whose signature it refuses.                *)
LEMMA HDevVerify ==
  ASSUME IInv, HInv, DevVerify
  PROVE  HInv'
<1>1. /\ dev.st = "auth" /\ to_dev # <<>> /\ Head(to_dev).cmd = "SIGNATURE"
      /\ to_dev' = Tail(to_dev) /\ UNCHANGED <<th, conn>>
  BY DEF DevVerify, Handles, devRest
<1>2. /\ DOMAIN to_dev' = {} /\ to_dev' = <<>> /\ Len(to_dev') <= 1
      /\ 1 \in DOMAIN to_dev /\ to_dev[1].cmd = "SIGNATURE"
  <2>1. 1 \in DOMAIN to_dev /\ Head(to_dev) = to_dev[1] /\ to_dev' = <<>> /\ DOMAIN to_dev' = {}
    BY <1>1, Taken
  <2>2. Len(to_dev') <= 1
    BY <2>1
  <2> QED BY <1>1, <2>1, <2>2
<1>3. NothingAsked /\ ~dev.secure
  BY <1>1 DEF HInv, ToHostOK, NothingAsked, TlsOK, Asks
<1>4. CASE Welcome
  <2>1. /\ (TlsOK /\ ToDevOK /\ ToHostOK)' /\ NothingAsked'
        /\ dev'.st = "online" /\ dev'.refused = dev.refused /\ dev'.secure = dev.secure
    BY <1>1, <1>2, <1>3, <1>4, HWelcome
  <2>2. ASSUME NEW u \in Threads PROVE TurnOK(th[u])'
    BY <1>1, <1>2, <2>1 DEF HInv, TurnOK
  <2> QED BY <2>1, <2>2 DEF HInv
<1>5. CASE /\ dev' = [dev EXCEPT !.token = @ + 1, !.refused = @ + 1]
           /\ ToHost("AUTH", "token", 0, dev.token + 1)
  <2>1. /\ dev'.st = "auth" /\ dev'.token = dev.token + 1 /\ dev.token + 1 \in Nat
        /\ dev'.refused = dev.refused + 1 /\ dev.refused \in Nat /\ dev'.secure = dev.secure
    BY <1>1, <1>5, WireIsOK DEF Device
  <2> DEFINE n == dev.token + 1
  <2>2. ToHost("AUTH", "token", 0, n) /\ n \in Nat /\ dev'.token = n
    BY <1>5, <2>1
  <2>3. (TlsOK /\ ToDevOK /\ ToHostOK)'
    <3> HIDE DEF n
    <3>1. PICK p \in CnxnTells : /\ to_host' = Append(to_host, p) /\ p.cmd = "AUTH"
                                 /\ p.token = n /\ p.enc = dev.secure
      BY <2>2, WhatIsSaid
    <3> QED BY <1>1, <1>2, <1>3, <2>1, <2>2, <3>1, HSays
  <2>4. ASSUME NEW u \in Threads PROVE TurnOK(th[u])'
    <3>1. th[u].key \in Nat
      BY LockIsMine, ConnectAssumption DEF Thread
    <3> QED BY <1>1, <1>2, <2>1, <3>1 DEF HInv, TurnOK
  <2> QED BY <2>3, <2>4 DEF HInv
<1> QED BY <1>4, <1>5 DEF DevVerify

LEMMA HDevPrompt ==
  ASSUME IInv, HInv, DevPrompt \/ DevStls
  PROVE  HInv'
<1>1. /\ to_dev # <<>> /\ Head(to_dev).cmd \in {"RSAPUBLICKEY", "STLS"}
      /\ to_dev' = Tail(to_dev) /\ UNCHANGED <<th, conn, to_host>>
      /\ dev.st \in {"auth", "stls"} /\ dev' = [dev EXCEPT !.st = IF dev.st = "auth" THEN "prompt" ELSE "tls"]
  BY DEF DevPrompt, DevStls, Handles, devRest
<1>2. /\ DOMAIN to_dev' = {} /\ to_dev' = <<>> /\ Len(to_dev') <= 1
      /\ 1 \in DOMAIN to_dev /\ to_dev[1].cmd \in {"RSAPUBLICKEY", "STLS"}
  BY <1>1, Taken
<1>3. /\ dev'.st = (IF dev.st = "auth" THEN "prompt" ELSE "tls")
      /\ dev'.refused = dev.refused /\ dev'.secure = dev.secure
  BY <1>1, WireIsOK DEF Device
<1>4. NothingAsked /\ NothingAsked'
  BY <1>1 DEF HInv, ToHostOK, NothingAsked, Asks
<1>5. (TlsOK /\ ToDevOK /\ ToHostOK)'
  BY <1>1, <1>2, <1>3, <1>4 DEF HInv, TlsOK, ClearOrTlsAgreed, ToDevOK, ToHostOK, NothingAsked, Asks
<1>6. ASSUME NEW u \in Threads PROVE TurnOK(th[u])'
  <2>1. th[u].pc \notin {"greet", "verdict", "sign", "pubkey"}
    BY <1>1, <1>2 DEF HInv, TurnOK
  <2> QED BY <1>1, <1>2, <1>3, <2>1 DEF HInv, TurnOK
<1> QED BY <1>5, <1>6 DEF HInv

LEMMA HDevOnline ==
  ASSUME IInv, HInv, DevOnline
  PROVE  HInv'
<1>1. /\ dev.st = "prompt" \/ (dev.st = "handshake" /\ dev.secure)
      /\ UNCHANGED <<th, conn, to_dev>> /\ Welcome
  BY DEF DevOnline, devRest
<1>2. DOMAIN to_dev' = {} /\ Len(to_dev') <= 1
  BY <1>1, NothingDue DEF HInv, ToDevOK
<1>3. /\ (TlsOK /\ ToDevOK /\ ToHostOK)'
      /\ dev'.refused = dev.refused /\ dev'.secure = dev.secure
  BY <1>1, <1>2, HWelcome
<1>4. ASSUME NEW u \in Threads PROVE TurnOK(th[u])'
  <2>1. th[u].pc \notin {"greet", "verdict", "sign", "pubkey"}
    BY <1>1 DEF HInv, TurnOK
  <2> QED BY <1>1, <1>2, <1>3, <2>1 DEF HInv, TurnOK
<1> QED BY <1>3, <1>4 DEF HInv

(* The device's side of a TLS handshake: the thread that waits for it, if  *)
(* it still does, is the only one in a handshake.                          *)
LEMMA HDevTls ==
  ASSUME IInv, HInv, DevHello \/ DevFinished \/ DevRefusesTls
  PROVE  HInv'
<1>1. /\ UNCHANGED <<th, to_dev, to_host>>
      /\ \/ dev.st = "tls" /\ conn.record = "hello"
         \/ dev.st = "handshake" /\ conn.record = "finished"
  <2>1. CASE DevHello
    BY <2>1 DEF DevHello, TlsRecord
  <2>2. CASE DevFinished
    BY <2>2 DEF DevFinished, TlsRecord
  <2>3. CASE DevRefusesTls
    BY <2>3 DEF DevRefusesTls, TlsRecord
  <2> QED BY <2>1, <2>2, <2>3
<1>2. DOMAIN to_dev = {}
  BY <1>1, NothingDue
<1>3. /\ conn'.open = conn.open /\ conn'.tls = conn.tls
      /\ \/ /\ dev.st = "tls" /\ dev'.st = "handshake" /\ conn'.record = "flight"
            /\ dev'.secure = dev.secure /\ dev'.refused = dev.refused
         \/ /\ dev.st = "handshake" /\ dev'.st = "handshake" /\ conn'.record = "none"
            /\ dev'.secure = TRUE /\ dev'.refused = dev.refused
         \/ dev' = DeviceOff /\ conn'.record = "none"
  BY WireIsOK DEF DevHello, DevFinished, DevRefusesTls, TlsRecord, Transport, Device
<1>4. NothingAsked
  BY <1>1 DEF HInv, ToHostOK, NothingAsked, Asks
<1>5. \A i \in DOMAIN to_host : to_host[i].enc = conn.tls /\ to_host[i].cmd # "CNXN"
  BY <1>1 DEF HInv, TlsOK, ClearOrTlsAgreed, ToHostOK
<1>6. TlsOK'
  BY <1>1, <1>2, <1>3, <1>5 DEF HInv, TlsOK, ClearOrTlsAgreed, DeviceOff
<1>7. (ToDevOK /\ ToHostOK)'
  BY <1>1, <1>2, <1>4, <1>5 DEF HInv, ToDevOK, ToHostOK, NothingAsked, Asks
<1>8. ASSUME NEW u \in Threads PROVE TurnOK(th[u])'
  <2>1. th[u].pc \notin {"greet", "upgrade", "sign", "verdict", "pubkey"}
    BY <1>1 DEF HInv, TurnOK
  <2>2. th[u].pc = "accept" => conn.tls
    BY <1>1 DEF HInv, TurnOK, TlsOK
  <2> QED BY <1>1, <1>2, <1>3, <2>1, <2>2 DEF TurnOK
<1> QED BY <1>6, <1>7, <1>8 DEF HInv

LEMMA HDevNoise ==
  ASSUME IInv, HInv, DevNoise
  PROVE  HInv'
<1>1. UNCHANGED <<th, conn, to_dev, dev>>
  BY DEF DevNoise, devRest
<1>2. PICK p \in CnxnTells :
        /\ to_host' = Append(to_host, p) /\ p.enc = dev.secure
        /\ dev.st \in {"greet", "auth", "stls", "prompt"}
        /\ p.cmd = "OKAY" \/ (dev.st = "prompt" /\ p.cmd = "AUTH")
  <2>1. dev.token \in Nat
    BY WireIsOK DEF Device
  <2> QED BY <2>1, WhatIsSaid DEF DevNoise
<1>3. (TlsOK /\ ToDevOK /\ ToHostOK)'
  <2>1. ~dev.secure
    BY <1>2 DEF HInv, TlsOK
  <2>2. Len(to_dev') <= 1 /\ \A i \in DOMAIN to_dev' : Due(to_dev[i])'
    BY <1>1 DEF HInv, ToDevOK, Due
  <2> QED BY <1>1, <1>2, <2>1, <2>2, HSays DEF Asks
<1>4. ASSUME NEW u \in Threads PROVE TurnOK(th[u])'
  <2>1. CASE dev.st = "prompt"
    <3>1. th[u].pc \notin {"greet", "verdict", "sign", "pubkey"}
      BY <2>1 DEF HInv, TurnOK
    <3> QED BY <1>1, <3>1 DEF HInv, TurnOK
  <2>2. CASE dev.st # "prompt"
    <3>1. NothingAsked => NothingAsked'
      BY <1>2, <2>2, SaysNothing DEF Asks
    <3> QED BY <1>1, <3>1 DEF HInv, TurnOK
  <2> QED BY <2>1, <2>2
<1> QED BY <1>3, <1>4 DEF HInv

LEMMA HNext == IInv /\ HInv /\ [Next]_vars => HInv'
<1> SUFFICES ASSUME IInv, HInv, [Next]_vars PROVE HInv'
  OBVIOUS
<1>1. CASE UNCHANGED vars
  <2>1. UNCHANGED <<th, conn, to_dev, to_host, dev>>
    BY <1>1 DEF vars
  <2>2. (TlsOK /\ ToDevOK)'
    BY <2>1 DEF HInv, TlsOK, ClearOrTlsAgreed, ToDevOK, Due
  <2>3. ToHostOK'
    BY <2>1 DEF HInv, ToHostOK, Asks
  <2>4. (\A t \in Threads : TurnOK(th[t]))'
    BY <2>1 DEF HInv, TurnOK, Asks, NothingAsked
  <2> QED BY <2>2, <2>3, <2>4 DEF HInv
<1>2. ASSUME NEW t \in Threads, Run(t) PROVE HInv'
  BY <1>2, HClose, HConnect, HOutside, HDropPacket, HReadStls, HStartTls, HFinishTls, HSign,
     HSendPublicKey, HRaise, HReadAuth, HReadCnxn DEF Run, Handshake
<1>3. ASSUME NEW t \in Threads, Call(t) PROVE HInv'
  BY <1>3, HOutside DEF Call
<1>4. CASE DeviceStep
  BY <1>4, HDevGreet, HDevVerify, HDevPrompt, HDevTls, HDevOnline, HDevNoise DEF DeviceStep
<1> QED BY <1>1, <1>2, <1>3, <1>4 DEF Next, Resting

LEMMA HInvariance == Spec => [](IInv /\ HInv)
<1>1. Init => IInv /\ HInv
  BY InitOK, HInit
<1>2. (IInv /\ HInv) /\ [Next]_vars => (IInv /\ HInv)'
  BY NextOK, HNext
<1> QED BY <1>1, <1>2, PTL DEF Spec

(* For any number of keys the device's last token is signed with each key  *)
(* in turn, and the public key is sent when all were refused.              *)
THEOREM KeysInOrder == Spec => []KeysTakeTurns
<1>1. IInv /\ HInv => KeysTakeTurns
  <2> SUFFICES ASSUME IInv, HInv PROVE KeysTakeTurns
    OBVIOUS
  <2>1. ASSUME NEW i \in DOMAIN to_dev, to_dev[i].cmd = "SIGNATURE"
        PROVE  dev.st = "auth" /\ to_dev[i].token = dev.token /\ to_dev[i].key = dev.refused + 1
    BY <2>1 DEF HInv, ToDevOK, Due
  <2>2. ASSUME NEW t \in Threads, th[t].pc = "pubkey" PROVE dev.refused = th[t].keys
    BY <2>2, LockIsMine DEF HInv, TurnOK, Thread
  <2>3. ASSUME NEW t \in Threads, th[t].pc = "accept", ~conn.tls PROVE dev.refused = th[t].keys
    BY <2>3 DEF HInv, TurnOK
  <2> QED BY <2>1, <2>2, <2>3 DEF KeysTakeTurns
<1> QED BY <1>1, HInvariance, PTL

(* However far a TLS handshake has come, and however it ended, the device  *)
(* speaks TLS only to a host that does, the host only to a device that     *)
(* does, has yet to judge it or has hung up, and neither end meets a       *)
(* packet in clear where it expects TLS, or the other way round.           *)
THEOREM BothEndsAgreeOnTls == Spec => []ClearOrTlsAgreed
<1>1. HInv => ClearOrTlsAgreed
  BY DEF HInv, TlsOK
<1> QED BY <1>1, HInvariance, PTL

-----------------------------------------------------------------------------
(* The handshake implements module Connection.                             *)

LEMMA CInit == Init => Conn!Init
<1> SUFFICES ASSUME Init PROVE Conn!Init
  OBVIOUS
<1>1. Phases = [t \in Threads |-> "idle"]
  BY DEF Init, Phases, PhaseOf, IdleThread, Held
<1>2. Link = "down" /\ available = FALSE
  BY DEF Init, Link, NoTransport
<1> QED BY <1>1, <1>2 DEF Conn!Init

(* What Connection sees of a thread and of a step of one thread.           *)
LEMMA PhaseOfThread ==
  ASSUME IInv, NEW t \in Threads
  PROVE  /\ Phases[t] = PhaseOf(th[t])
         /\ PhaseOf(th[t]) = "connecting" <=> th[t].pc \in Held
<1>1. th[t].pc # "connecting"
  BY LockIsMine DEF Thread, Held
<1> QED BY <1>1 DEF Phases, PhaseOf

LEMMA PhaseStep ==
  ASSUME IInv, NEW t \in Threads, NEW y, th' = [th EXCEPT ![t] = y]
  PROVE  Conn!To(t, PhaseOf(y))
BY DEF IInv, ThreadsOK, Phases, PhaseOf, Conn!To

LEMMA PhaseSame ==
  ASSUME IInv, NEW t \in Threads, NEW y, th' = [th EXCEPT ![t] = y], PhaseOf(y) = PhaseOf(th[t])
  PROVE  Phases' = Phases
BY DEF IInv, ThreadsOK, Phases, PhaseOf

LEMMA NobodyConnects ==
  ASSUME IInv, transport_lock = None
  PROVE  Conn!Alone
<1>1. \A t \in Threads : th[t].pc \notin Held
  BY ConnectAssumption DEF IInv, ThreadsOK, LockHeldByHandshake, Handshaking
<1> QED BY <1>1, PhaseOfThread DEF Conn!Alone

LEMMA LinkSame ==
  ASSUME UNCHANGED conn, dev'.st = dev.st
  PROVE  Link' = Link
BY DEF Link

LEMMA LinkClosed ==
  ASSUME CloseTransport
  PROVE  Link' = "down"
BY DEF CloseTransport, Link, NoTransport

(* A step that changes the phase of t and leaves the rest.                 *)
LEMMA CGiveUp ==
  ASSUME IInv, NEW t \in Threads, th[t].pc \in Held, GiveUp(t)
  PROVE  Conn!Raise(t)
<1>1. PhaseOf(IdleThread) = "idle"
  BY DEF PhaseOf, IdleThread, Held
<1>2. Phases[t] = "connecting" /\ Conn!To(t, "idle") /\ Link' = "down" /\ available' = available
  BY <1>1, PhaseOfThread, PhaseStep, LinkClosed DEF GiveUp, Go, rest
<1> QED BY <1>2 DEF Conn!Raise

LEMMA CRaise ==
  ASSUME IInv, NEW t \in Threads, Raise(t)
  PROVE  Conn!Raise(t)
<1>1. PhaseOf(IdleThread) = "idle"
  BY DEF PhaseOf, IdleThread, Held
<1>2. Phases[t] = "connecting" /\ Conn!To(t, "idle") /\ available' = available
  BY <1>1, PhaseOfThread, PhaseStep DEF Raise, Fail, Go, rest
<1>3. Link' \in {Link, "down"}
  BY LinkSame, LinkClosed DEF Raise, Fail
<1> QED BY <1>2, <1>3 DEF Conn!Raise

LEMMA CCall ==
  ASSUME IInv, NEW t \in Threads, NEW c \in {"close", "connect"}, th[t].pc = "idle",
         NEW y, y.pc = c, th' = [th EXCEPT ![t] = y], available' = FALSE, UNCHANGED <<conn, dev>>
  PROVE  Conn!Call(t, c)
<1>1. PhaseOf(y) = c /\ PhaseOf(th[t]) = "idle"
  BY DEF PhaseOf, Held
<1>2. Phases[t] = "idle" /\ Conn!To(t, c) /\ Link' = Link
  BY <1>1, PhaseOfThread, PhaseStep, LinkSame
<1> QED BY <1>2 DEF Conn!Call

LEMMA CClose ==
  ASSUME IInv, NEW t \in Threads, Close(t)
  PROVE  Conn!Close(t)
<1>1. PhaseOf(IdleThread) = "idle" /\ PhaseOf(th[t]) = "close"
  BY DEF Close, PhaseOf, IdleThread, Held
<1>2. Conn!To(t, "idle") /\ Link' = "down" /\ available' = available /\ Conn!Alone
  BY <1>1, PhaseStep, LinkClosed, NobodyConnects DEF Close, Go
<1> QED BY <1>1, <1>2, PhaseOfThread DEF Conn!Close

LEMMA CConnect ==
  ASSUME IInv, NEW t \in Threads, Connect(t)
  PROVE  Conn!Connect(t)
<1>1. PhaseOf(IdleThread) = "idle" /\ PhaseOf(th[t]) = "connect" /\ th[t] \in Thread
  BY LockIsMine DEF Connect, PhaseOf, IdleThread, Held
<1>2. Conn!Alone /\ available' = available
  BY NobodyConnects DEF Connect
<1>3. CASE /\ conn' = [NoTransport EXCEPT !.open = TRUE] /\ dev' = [DeviceOff EXCEPT !.st = "greet"]
           /\ th' = [th EXCEPT ![t].pc = "greet"]
  <2> DEFINE y == [th[t] EXCEPT !.pc = "greet"]
  <2>1. PhaseOf(y) = "connecting" /\ th' = [th EXCEPT ![t] = y]
    BY <1>1, <1>3 DEF PhaseOf, Held, Thread
  <2> HIDE DEF y
  <2>2. Conn!To(t, "connecting")
    BY <2>1, PhaseStep
  <2>3. Link' = "open"
    BY <1>3 DEF Link, DeviceOff, NoTransport
  <2> QED BY <1>1, <1>2, <2>2, <2>3, PhaseOfThread DEF Conn!Connect
<1>4. CASE CloseTransport /\ Go(t, IdleThread)
  <2>1. Conn!To(t, "idle") /\ Link' = "down"
    BY <1>1, <1>4, PhaseStep, LinkClosed DEF Go
  <2> QED BY <1>1, <1>2, <2>1, PhaseOfThread DEF Conn!Connect
<1> QED BY <1>3, <1>4 DEF Connect

(* connect returns True: the CNXN that it read was sent by a device that   *)
(* is online on the connection of now.                                     *)
LEMMA CReturn ==
  ASSUME IInv, HInv, NEW t \in Threads, NEW step \in {"greet", "verdict", "accept"},
         ReadCnxn(t, step)
  PROVE  Conn!Return(t)
<1> DEFINE y == [IdleThread EXCEPT !.pc = "connected", !.ret = Head(to_host).maxdata]
<1>1. /\ th[t].pc \in Held /\ to_host # <<>> /\ to_host' = Tail(to_host)
      /\ Head(to_host).cmd = "CNXN" /\ UNCHANGED <<conn, dev, available>>
  BY DEF ReadCnxn, Reads, Return, rest, Held
<1>2. th' = [th EXCEPT ![t] = y] /\ y.pc = "connected"
  BY DEF ReadCnxn, Return, Go, IdleThread
<1> HIDE DEF y
<1>3. PhaseOf(y) = "connected"
  BY <1>2 DEF PhaseOf, Held
<1>4. dev.st = "online"
  BY <1>1, AskTaken
<1>5. Link = "up" /\ Link' = Link
  BY <1>1, <1>4 DEF HInv, TlsOK, Link
<1> QED BY <1>1, <1>2, <1>3, <1>5, PhaseStep, PhaseOfThread DEF Conn!Return

LEMMA CSetAvailable ==
  ASSUME IInv, NEW t \in Threads, SetAvailable(t)
  PROVE  Conn!SetAvailable(t)
<1>1. PhaseOf(IdleThread) = "idle" /\ PhaseOf(th[t]) = "connected"
  BY DEF SetAvailable, Connected, PhaseOf, IdleThread, Held
<1>2. Conn!To(t, "idle") /\ Link' = Link /\ available' = TRUE
  BY <1>1, PhaseStep, LinkSame DEF SetAvailable, Connected, Go
<1> QED BY <1>1, <1>2, PhaseOfThread DEF Conn!SetAvailable

(* The steps inside a handshake cannot be seen from outside.               *)
LEMMA CInside ==
  ASSUME IInv, NEW t \in Threads, th[t].pc \in Held, NEW y, y.pc \in Held,
         th' = [th EXCEPT ![t] = y], dev'.st = dev.st, conn'.open = conn.open,
         available' = available
  PROVE  UNCHANGED Conn!kVars
<1>1. Phases' = Phases
  BY PhaseSame DEF PhaseOf
<1>2. Link' = Link
  BY DEF Link
<1> QED BY <1>1, <1>2 DEF Conn!kVars

LEMMA CHandshake ==
  ASSUME IInv, HInv, NEW t \in Threads, Handshake(t)
  PROVE  Conn!Raise(t) \/ Conn!Return(t) \/ UNCHANGED Conn!kVars
<1>0. th[t] \in Thread /\ CallOK(th[t])
  BY LockIsMine
<1>1. CASE DropPacket(t)
  BY <1>1 DEF DropPacket, rest, Conn!kVars, Phases, PhaseOf, Link
<1>2. CASE ReadStls(t)
  <2>1. th[t].pc = "greet" /\ th[t].pc \in Held
    BY <1>2 DEF ReadStls, Reads, Held
  <2> DEFINE y == [th[t] EXCEPT !.pc = "upgrade"]
  <2>2. y.pc \in Held /\ (th' = [th EXCEPT ![t].pc = "upgrade"] => th' = [th EXCEPT ![t] = y])
    BY <1>0 DEF Thread, Held
  <2> HIDE DEF y
  <2> QED BY <1>2, <2>1, <2>2, CGiveUp, CInside DEF ReadStls, rest
<1>3. CASE StartTls(t) \/ FinishTls(t)
  <2>1. PICK y : y.pc \in Held /\ th' = [th EXCEPT ![t] = y]
    <3>1. ASSUME NEW pc \in {"hello", "accept"} PROVE [th[t] EXCEPT !.pc = pc].pc \in Held
      BY <1>0 DEF Thread, Held
    <3> QED BY <1>3, <3>1 DEF StartTls, FinishTls
  <2>2. dev'.st = dev.st /\ conn'.open = conn.open /\ th[t].pc \in Held /\ available' = available
    BY <1>3, WireIsOK DEF StartTls, FinishTls, Transport, rest, Held
  <2> QED BY <2>1, <2>2, CInside
<1>4. CASE Sign(t)
  <2>1. th[t].pc \in Held
    BY <1>4 DEF Sign, Held
  <2> DEFINE y == [th[t] EXCEPT !.pc = "verdict"]
  <2>2. y.pc \in Held /\ (th' = [th EXCEPT ![t].pc = "verdict"] => th' = [th EXCEPT ![t] = y])
    BY <1>0 DEF Thread, Held
  <2> HIDE DEF y
  <2> QED BY <1>4, <2>1, <2>2, CGiveUp, CInside DEF Sign, rest
<1>5. CASE SendPublicKey(t)
  <2> DEFINE y == [th[t] EXCEPT !.pc = "accept"]
  <2>1. y.pc \in Held /\ th' = [th EXCEPT ![t] = y]
    BY <1>0, <1>5 DEF SendPublicKey, Thread, Held
  <2> HIDE DEF y
  <2>2. th[t].pc \in Held
    BY <1>5 DEF SendPublicKey, Held
  <2> QED BY <1>5, <2>1, <2>2, CInside DEF SendPublicKey, rest
<1>6. CASE Raise(t)
  BY <1>6, CRaise
<1>7. ASSUME NEW step \in {"greet", "verdict"}, ReadAuth(t, step)
      PROVE  Conn!Raise(t) \/ UNCHANGED Conn!kVars
  <2>1. /\ th[t].pc \in {"greet", "verdict"} /\ th[t].pc \in Held /\ to_host # <<>>
    BY <1>7 DEF ReadAuth, Reads, Held
  <2>2. Head(to_host) \in HostBound
    BY <2>1, WireIsOK DEF CnxnTells
  <2>3. th[t].keys # 0 => NextKey(th[t], Head(to_host)).pc \in Held
    BY <1>0, <2>1, <2>2, NextKeyOK
  <2> QED BY <1>7, <2>1, <2>3, CGiveUp, CInside DEF ReadAuth, Go, rest
<1>8. ASSUME NEW step \in {"greet", "verdict", "accept"}, ReadCnxn(t, step)
      PROVE  Conn!Return(t)
  BY <1>8, CReturn
<1> QED BY <1>1, <1>2, <1>3, <1>4, <1>5, <1>6, <1>7, <1>8 DEF Handshake

LEMMA CDevice ==
  ASSUME IInv, HInv, DeviceStep
  PROVE  Conn!Accept \/ UNCHANGED Conn!kVars
<1>1. UNCHANGED <<th, available>> /\ conn'.open = conn.open
  BY WireIsOK DEF DeviceStep, DevGreet, DevVerify, DevPrompt, DevStls, DevHello, DevFinished,
     DevRefusesTls, TlsRecord, DevOnline, DevNoise, Handles, devRest, rest, Transport
<1>2. Phases' = Phases
  BY <1>1 DEF Phases, PhaseOf
<1>3. dev.st \in {"greet", "auth", "stls", "prompt", "tls", "handshake"}
  BY DEF DeviceStep, DevGreet, DevVerify, DevPrompt, DevStls, DevHello, DevFinished,
     DevRefusesTls, TlsRecord, DevOnline, DevNoise, Handles
<1>4. Link = "open" /\ conn.open
  BY <1>3 DEF Link, HInv, TlsOK
<1>5. CASE dev'.st = "online"
  <2>1. Link' = "up"
    BY <1>1, <1>4, <1>5 DEF Link
  <2> QED BY <1>1, <1>2, <1>4, <2>1 DEF Conn!Accept
<1>6. CASE dev'.st # "online"
  <2>1. Link' = Link
    BY <1>1, <1>4, <1>6 DEF Link
  <2> QED BY <1>1, <1>2, <2>1 DEF Conn!kVars
<1> QED BY <1>5, <1>6

LEMMA CNext == IInv /\ HInv /\ [Next]_vars => [Conn!Next]_(Conn!kVars)
<1> SUFFICES ASSUME IInv, HInv, [Next]_vars PROVE Conn!Next \/ UNCHANGED Conn!kVars
  BY DEF Conn!Next
<1>1. CASE UNCHANGED vars
  BY <1>1 DEF vars, Conn!kVars, Phases, PhaseOf, Link
<1>2. ASSUME NEW t \in Threads, Run(t) PROVE Conn!Next \/ UNCHANGED Conn!kVars
  BY <1>2, CClose, CConnect, CHandshake, CSetAvailable DEF Run, Conn!Next
<1>3. ASSUME NEW t \in Threads, CallClose(t) PROVE Conn!Next
  <2>1. [IdleThread EXCEPT !.pc = "close"].pc = "close"
    BY DEF IdleThread
  <2> QED BY <1>3, <2>1, CCall DEF CallClose, BeginClose, Go, Conn!Next
<1>4. ASSUME NEW t \in Threads, NEW n \in 0 .. MaxKeys, NEW pem \in BOOLEAN,
             CallConnect(t, n, pem)
      PROVE  Conn!Next
  <2>1. [IdleThread EXCEPT !.pc = "connect", !.keys = n, !.pem = pem].pc = "connect"
    BY DEF IdleThread
  <2> QED BY <1>4, <2>1, CCall DEF CallConnect, Go, Conn!Next
<1>5. CASE DeviceStep
  BY <1>5, CDevice DEF Conn!Next
<1> QED BY <1>1, <1>2, <1>3, <1>4, <1>5 DEF Next, Call, Resting

(* Calls are served one after the other, and a connect returns True only   *)
(* on a connection that the device has accepted: for any number of threads *)
(* and keys the handshake implements Connection.                           *)
THEOREM HandshakeImplements == Spec => ImplementsConnection
<1>1. Init => Conn!Init
  BY CInit
<1>2. IInv /\ HInv /\ [Next]_vars => [Conn!Next]_(Conn!kVars)
  BY CNext
<1> QED BY <1>1, <1>2, HInvariance, PTL DEF Spec, ImplementsConnection, Conn!Spec

-----------------------------------------------------------------------------
(* A device used by one thread only.                                       *)

Alone(t) == \A u \in Threads \ {t} : th[u].pc = "idle"

(* The flag is down from the call on, and up only when connect is over.    *)
AloneOK(t) ==
  /\ available => th[t].pc = "idle"
  /\ available \/ th[t].pc = "connected" => conn.open /\ dev.st = "online"

LEMMA AloneInit ==
  ASSUME NEW t \in Threads
  PROVE  Init => AloneOK(t)
BY DEF Init, AloneOK, IdleThread

(* A step of another thread that is idle before and after it is a call.    *)
LEMMA AloneNext ==
  ASSUME NEW t \in Threads
  PROVE  IInv /\ HInv /\ AloneOK(t) /\ Alone(t) /\ Alone(t)' /\ [Next]_vars => AloneOK(t)'
<1> SUFFICES ASSUME IInv, HInv, AloneOK(t), Alone(t), Alone(t)', [Next]_vars
             PROVE  AloneOK(t)'
  OBVIOUS
<1>0. th \in [Threads -> Thread] /\ IdleThread.pc = "idle"
  BY DEF IInv, ThreadsOK, IdleThread
<1>1. CASE UNCHANGED vars
  BY <1>1 DEF vars, AloneOK
<1>2. ASSUME NEW u \in Threads, Run(u) \/ Call(u) PROVE u = t
  <2>1. SUFFICES ASSUME u # t PROVE FALSE
    OBVIOUS
  <2>2. th[u].pc = "idle" /\ th'[u].pc = "idle"
    BY <2>1 DEF Alone
  <2>3. ~Run(u)
    BY <2>2 DEF Run, Close, Connect, SetAvailable, Connected, Handshake, DropPacket,
       ReadStls, StartTls, FinishTls, Sign, SendPublicKey, Raise, Fail, ReadAuth, ReadCnxn, Reads, Held
  <2>4. ~CallClose(u)
    BY <1>0, <2>2 DEF CallClose, BeginClose, Go, IdleThread
  <2>5. ~ \E n \in 0 .. MaxKeys, pem \in BOOLEAN : CallConnect(u, n, pem)
    BY <1>0, <2>2 DEF CallConnect, Go, IdleThread
  <2> QED BY <1>2, <2>3, <2>4, <2>5 DEF Call
<1>3. CASE Call(t)
  <2>1. available' = FALSE /\ th'[t].pc \in {"close", "connect"}
    BY <1>0, <1>3 DEF Call, CallClose, BeginClose, CallConnect, Go, IdleThread
  <2> QED BY <2>1 DEF AloneOK
<1>4. CASE Close(t) \/ Connect(t)
  <2>1. ~available /\ available' = available
    BY <1>4 DEF AloneOK, Close, Connect
  <2>2. th'[t].pc \in {"idle", "greet"}
    BY <1>0, <1>4 DEF Close, Connect, Go, Thread
  <2> QED BY <2>1, <2>2 DEF AloneOK
<1>5. CASE SetAvailable(t)
  BY <1>0, <1>5 DEF AloneOK, SetAvailable, Connected, Go
<1>6. CASE Handshake(t)
  <2>1. th[t].pc \in Held
    BY <1>6 DEF Handshake, DropPacket, ReadStls, StartTls, FinishTls, Sign, SendPublicKey, Raise, Fail,
       ReadAuth, ReadCnxn, Reads, Held
  <2>2. ~available /\ ~available'
    <3>1. ~available
      BY <2>1 DEF AloneOK, Held
    <3> QED BY <1>6, <3>1 DEF Handshake, DropPacket, ReadStls, StartTls, FinishTls, Sign, SendPublicKey, Raise, Fail,
       ReadAuth, ReadCnxn, Return, GiveUp, rest
  <2>3. th'[t].pc = "connected" => conn'.open /\ dev'.st = "online"
    <3>1. ASSUME NEW step \in {"greet", "verdict", "accept"}, ReadCnxn(t, step)
          PROVE  conn'.open /\ dev'.st = "online"
      <4>1. /\ to_host # <<>> /\ to_host' = Tail(to_host) /\ Head(to_host).cmd = "CNXN"
            /\ UNCHANGED <<conn, dev>>
        BY <3>1 DEF ReadCnxn, Reads, Return
      <4>2. dev.st = "online"
        BY <4>1, AskTaken
      <4> QED BY <4>1, <4>2 DEF HInv, TlsOK
    <3>2. ASSUME NEW step \in {"greet", "verdict"}, ReadAuth(t, step)
          PROVE  th'[t].pc # "connected"
      <4>1. NextKey(th[t], Head(to_host)).pc \in {"sign", "pubkey"}
        BY <1>0 DEF NextKey, Thread
      <4> QED BY <1>0, <3>2, <4>1 DEF ReadAuth, GiveUp, Go
    <3>3. CASE \/ DropPacket(t) \/ ReadStls(t) \/ StartTls(t) \/ FinishTls(t) \/ Sign(t)
               \/ SendPublicKey(t) \/ Raise(t)
      <4>1. th'[t].pc \in Held \/ th'[t].pc = "idle"
        BY <1>0, <2>1, <3>3 DEF DropPacket, ReadStls, StartTls, FinishTls, Sign, SendPublicKey, Raise, Fail,
           GiveUp, Go, Thread, Held
      <4> QED BY <4>1 DEF Held
    <3> QED BY <1>6, <3>1, <3>2, <3>3 DEF Handshake
  <2> QED BY <2>2, <2>3 DEF AloneOK
<1>7. CASE DeviceStep
  <2>1. UNCHANGED <<th, available>> /\ dev.st # "online"
    BY <1>7 DEF DeviceStep, DevGreet, DevVerify, DevPrompt, DevStls, DevHello, DevFinished,
       DevRefusesTls, TlsRecord, DevOnline, DevNoise, Handles, devRest, rest
  <2> QED BY <2>1 DEF AloneOK
<1> QED BY <1>1, <1>2, <1>3, <1>4, <1>5, <1>6, <1>7 DEF Next, Run, Resting

(* While one thread only uses the device, available tells the truth after  *)
(* every step of every handshake, failed or not.                           *)
THEOREM AvailableTellsTheTruth == Spec => AvailableIfAlone
<1> SUFFICES ASSUME NEW t \in Threads
             PROVE  Spec => ([]Alone(t) => []AvailableIsConnected)
  BY DEF AvailableIfAlone, Alone
<1>1. Init => AloneOK(t)
  BY AloneInit
<1>2. IInv /\ HInv /\ AloneOK(t) /\ Alone(t) /\ Alone(t)' /\ [Next]_vars => AloneOK(t)'
  BY AloneNext
<1>3. AloneOK(t) => AvailableIsConnected
  BY DEF AloneOK, AvailableIsConnected
<1> QED BY <1>1, <1>2, <1>3, HInvariance, PTL DEF Spec
=============================================================================
