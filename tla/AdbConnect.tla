----------------------------- MODULE AdbConnect -----------------------------
(***************************************************************************)
(* The handshake: AdbDevice.connect and close, _AdbIOManager.connect,      *)
(* close and _do_stls_upgrade (adb_device.py), on a transport that may be  *)
(* able to switch to TLS (tls_transport.py).  Several threads may connect  *)
(* and close one device; the transport lock serves them one at a time,     *)
(* and is held from the closing of the old connection to the last packet   *)
(* of the handshake.  TLS 1.3 has a handshake of its own, of three         *)
(* messages; the host is done when it sends the last of them, before the   *)
(* device has judged the certificate in it.                                *)
(*                                                                         *)
(* A device greets the host's CNXN with CNXN (no authentication), with     *)
(* AUTH and a token to sign, or with STLS.  Keys are numbered in the order *)
(* of rsa_keys, tokens in the order the device makes them.                 *)
(***************************************************************************)
EXTENDS Naturals, Sequences

CONSTANTS
  None,
  Threads,      \* the caller's threads
  MaxKeys,      \* bound: rsa_keys has at most this many signers
  KnownKeys,    \* the keys the device accepts a signature of
  Greetings,    \* how the device may greet: "CNXN", "AUTH", "STLS" or "odd"
  CanUpgrade,   \* the transport has a tls_upgrade method
  DevMaxdata,   \* the maxdata of the device's CNXN
  MaxCalls,     \* bound: calls of connect and close
  MaxNoise      \* bound: packets on a connection that no step expects

ASSUME ConnectAssumption ==
  /\ MaxKeys \in Nat /\ MaxCalls \in Nat /\ MaxNoise \in Nat
  /\ KnownKeys \subseteq 1 .. MaxKeys
  /\ Greetings \subseteq {"CNXN", "AUTH", "STLS", "odd"}
  /\ CanUpgrade \in BOOLEAN
  /\ DevMaxdata \in Nat \ {0}
  /\ None \notin Threads /\ None \notin Nat

VARIABLES
  th,              \* th[t]: where thread t is in its call
  transport_lock,  \* _transport_lock: its holder, or None
  conn,            \* the transport: is it connected, is it TLS (_is_tls), and
                   \* the message of the TLS handshake that is on its way
  available,       \* _available
  maxdata,         \* _maxdata
  to_dev, to_host, \* packets on the wire
  dev,             \* the device: its state, its last token, its refusals
  calls,           \* calls so far
  noise            \* unexpected packets so far on this connection

vars == <<th, transport_lock, conn, available, maxdata, to_dev, to_host, dev, calls, noise>>

-----------------------------------------------------------------------------
(* Types.                                                                  *)

Held == {"greet", "upgrade", "hello", "sign", "verdict", "pubkey", "accept"}

(* A thread: its step; how many keys rsa_keys has; whether there is a      *)
(* tls_priv_pem; the key whose turn it is; arg0 and token of the last AUTH *)
(* (arg0 and banner2 of the code); the maxdata connect returned.           *)
Thread == [pc : {"idle", "close", "connect", "connected"} \cup Held,
           keys : 0 .. MaxKeys, pem : BOOLEAN, key : 0 .. MaxKeys + 1,
           arg0 : {"token", "other"}, token : Nat, ret : Nat]

IdleThread == [pc |-> "idle", keys |-> 0, pem |-> FALSE, key |-> 0,
               arg0 |-> "other", token |-> 0, ret |-> 0]

(* From the device: AUTH carries a kind and a token, CNXN the maxdata; enc *)
(* says that a packet travels inside TLS.                                  *)
HostBound == [cmd : {"CNXN", "AUTH", "STLS", "OKAY"}, arg0 : {"token", "other"},
              maxdata : Nat, token : Nat, enc : BOOLEAN]

(* From the host: a signature is made with a key and over a token.         *)
DevBound == [cmd : {"CNXN", "SIGNATURE", "RSAPUBLICKEY", "STLS"},
             key : 0 .. MaxKeys, token : Nat, enc : BOOLEAN]

Transport == [open : BOOLEAN, tls : BOOLEAN,
              record : {"none", "hello", "flight", "finished"}]

NoTransport == [open |-> FALSE, tls |-> FALSE, record |-> "none"]

Device == [st : {"off", "greet", "auth", "prompt", "stls", "tls", "handshake", "online"},
           token : Nat, refused : Nat, secure : BOOLEAN]

DeviceOff == [st |-> "off", token |-> 0, refused |-> 0, secure |-> FALSE]

TypeOK ==
  /\ th \in [Threads -> Thread]
  /\ transport_lock \in Threads \cup {None}
  /\ conn \in Transport
  /\ available \in BOOLEAN /\ maxdata \in Nat
  /\ to_dev \in Seq(DevBound) /\ to_host \in Seq(HostBound)
  /\ dev \in Device
  /\ calls \in 0 .. MaxCalls /\ noise \in 0 .. MaxNoise

MaxPushData == 2048   \* constants.MAX_PUSH_DATA, _maxdata before any connect

Init ==
  /\ th = [t \in Threads |-> IdleThread]
  /\ transport_lock = None
  /\ conn = NoTransport
  /\ available = FALSE /\ maxdata = MaxPushData
  /\ to_dev = <<>> /\ to_host = <<>>
  /\ dev = DeviceOff
  /\ calls = 0 /\ noise = 0

ToDev(cmd, key, token) ==
  to_dev' = Append(to_dev, [cmd |-> cmd, key |-> key, token |-> token, enc |-> conn.tls])

Go(t, x) == th' = [th EXCEPT ![t] = x]

-----------------------------------------------------------------------------
(* The calls.                                                              *)

(* close() and connect() mark the device unavailable before they wait for  *)
(* the transport lock.                                                     *)
BeginClose(t, flag) ==
  /\ th[t].pc = "idle" /\ calls < MaxCalls
  /\ calls' = calls + 1
  /\ available' = flag
  /\ Go(t, [IdleThread EXCEPT !.pc = "close"])
  /\ UNCHANGED <<transport_lock, conn, maxdata, to_dev, to_host, dev, noise>>

CloseStillAvailable(t) == BeginClose(t, available)

CallClose(t) == BeginClose(t, FALSE)

CallConnect(t, n, pem) ==
  /\ th[t].pc = "idle" /\ calls < MaxCalls
  /\ calls' = calls + 1
  /\ available' = FALSE
  /\ Go(t, [IdleThread EXCEPT !.pc = "connect", !.keys = n, !.pem = pem])
  /\ UNCHANGED <<transport_lock, conn, maxdata, to_dev, to_host, dev, noise>>

(* Transport.close, seen from both ends.                                   *)
CloseTransport ==
  /\ conn' = NoTransport
  /\ to_dev' = <<>> /\ to_host' = <<>>
  /\ dev' = DeviceOff

Close(t) ==
  /\ th[t].pc = "close"
  /\ transport_lock = None
  /\ CloseTransport
  /\ Go(t, IdleThread)
  /\ UNCHANGED <<transport_lock, available, maxdata, calls, noise>>

(* Steps 0 to 2 of connect: the old connection is closed, the new one made *)
(* and the CNXN sent.  transport.connect may raise.                        *)
Connect(t) ==
  /\ th[t].pc = "connect"
  /\ transport_lock = None
  /\ noise' = 0
  /\ \/ /\ transport_lock' = t
        /\ conn' = [NoTransport EXCEPT !.open = TRUE]
        /\ dev' = [DeviceOff EXCEPT !.st = "greet"]
        /\ to_dev' = <<[cmd |-> "CNXN", key |-> 0, token |-> 0, enc |-> FALSE]>>
        /\ to_host' = <<>>
        /\ th' = [th EXCEPT ![t].pc = "greet"]
     \/ /\ CloseTransport
        /\ Go(t, IdleThread)
        /\ UNCHANGED transport_lock
  /\ UNCHANGED <<available, maxdata, calls>>

-----------------------------------------------------------------------------
(* The handshake of a thread that holds the transport lock.                *)

Expected(step) ==
  CASE step = "greet"   -> {"AUTH", "CNXN", "STLS"}
    [] step = "verdict" -> {"AUTH", "CNXN"}
    [] step = "accept"  -> {"CNXN"}

Reads(t, step, cmd) ==
  /\ th[t].pc = step
  /\ to_host # <<>> /\ Head(to_host).cmd = cmd

rest == <<available, maxdata, calls, noise>>

(* The handshake is over: connect returns True, n, and the lock is free.   *)
Return(t, n) ==
  /\ Go(t, [IdleThread EXCEPT !.pc = "connected", !.ret = n])
  /\ to_host' = Tail(to_host)
  /\ transport_lock' = None
  /\ UNCHANGED <<conn, to_dev, dev, rest>>

(* DeviceAuthError and InvalidResponseError: raised after a close.         *)
GiveUp(t) ==
  /\ CloseTransport
  /\ Go(t, IdleThread)
  /\ transport_lock' = None
  /\ UNCHANGED rest

(* _read_expected_packet_from_device drops what the step does not expect.  *)
DropPacket(t) ==
  /\ th[t].pc \in {"greet", "verdict", "accept"}
  /\ to_host # <<>> /\ Head(to_host).cmd \notin Expected(th[t].pc)
  /\ to_host' = Tail(to_host)
  /\ UNCHANGED <<th, transport_lock, conn, to_dev, dev, rest>>

(* Step 4, and the ends of the other flows: a CNXN ends the handshake.     *)
ReadCnxn(t, step) ==
  /\ Reads(t, step, "CNXN")
  /\ Return(t, Head(to_host).maxdata)

(* Step 3a: the STLS reply, in clear.                                      *)
ReadStls(t) ==
  /\ Reads(t, "greet", "STLS")
  /\ IF th[t].pem /\ CanUpgrade
     THEN /\ ToDev("STLS", 0, 0)
          /\ to_host' = Tail(to_host)
          /\ th' = [th EXCEPT ![t].pc = "upgrade"]
          /\ UNCHANGED <<transport_lock, conn, dev, rest>>
     ELSE GiveUp(t)

(* tls_upgrade, up to its first message: from now on the socket belongs to *)
(* the TLS object, and waits for the device's flight.                      *)
WrapOnly(t) ==
  /\ th[t].pc = "upgrade"
  /\ conn' = [conn EXCEPT !.tls = TRUE, !.record = "hello"]
  /\ th' = [th EXCEPT ![t].pc = "accept"]
  /\ UNCHANGED <<transport_lock, to_dev, to_host, dev, rest>>

StartTls(t) ==
  /\ th[t].pc = "upgrade"
  /\ conn' = [conn EXCEPT !.record = "hello"]
  /\ th' = [th EXCEPT ![t].pc = "hello"]
  /\ UNCHANGED <<transport_lock, to_dev, to_host, dev, rest>>

(* The rest of tls_upgrade; bytes in clear that were not yet read are taken *)
(* for TLS, with which the handshake fails.                                *)
FinishTls(t) ==
  /\ th[t].pc = "hello"
  /\ conn.record = "flight" /\ to_host = <<>>
  /\ conn' = [conn EXCEPT !.tls = TRUE, !.record = "finished"]
  /\ th' = [th EXCEPT ![t].pc = "accept"]
  /\ UNCHANGED <<transport_lock, to_dev, to_host, dev, rest>>

(* An AUTH: to the turn of the next key, or of the public key after the    *)
(* last; without keys connect raises (step 5).                             *)
WithoutToken(x, p) ==
  [x EXCEPT !.pc = IF x.key < x.keys THEN "sign" ELSE "pubkey", !.key = x.key + 1,
            !.arg0 = p.arg0, !.token = IF x.key = 0 THEN p.token ELSE @]

OneKeyTooMany(x, p) ==
  [x EXCEPT !.pc = IF x.key <= x.keys THEN "sign" ELSE "pubkey", !.key = x.key + 1,
            !.arg0 = p.arg0, !.token = p.token]

NextKey(x, p) ==
  [x EXCEPT !.pc = IF x.key < x.keys THEN "sign" ELSE "pubkey", !.key = x.key + 1,
            !.arg0 = p.arg0, !.token = p.token]

ReadAuth(t, step) ==
  /\ Reads(t, step, "AUTH")
  /\ IF th[t].keys = 0
     THEN GiveUp(t)
     ELSE /\ Go(t, NextKey(th[t], Head(to_host)))
          /\ to_host' = Tail(to_host)
          /\ UNCHANGED <<transport_lock, conn, to_dev, dev, rest>>

(* Steps 6.1 and 6.2: only a token is signed.                              *)
Sign(t) ==
  /\ th[t].pc = "sign"
  /\ IF th[t].arg0 # "token"
     THEN GiveUp(t)
     ELSE /\ ToDev("SIGNATURE", th[t].key, th[t].token)
          /\ th' = [th EXCEPT ![t].pc = "verdict"]
          /\ UNCHANGED <<transport_lock, conn, to_host, dev, rest>>

(* Step 7: auth_callback, which is called with the lock held, and the      *)
(* public key of the first signer.                                         *)
SendPublicKey(t) ==
  /\ th[t].pc = "pubkey"
  /\ ToDev("RSAPUBLICKEY", 1, 0)
  /\ th' = [th EXCEPT ![t].pc = "accept"]
  /\ UNCHANGED <<transport_lock, conn, to_host, dev, rest>>

(* A timeout or an error of the transport: the with block releases the     *)
(* lock, and nothing is closed; except that a TLS handshake that fails     *)
(* closes its socket, which is the one the transport had.                  *)
Fail(t, next) ==
  /\ th[t].pc \in Held
  /\ Go(t, IdleThread)
  /\ transport_lock' = next
  /\ IF th[t].pc = "hello" THEN CloseTransport ELSE UNCHANGED <<conn, to_dev, to_host, dev>>
  /\ UNCHANGED rest

RaiseLocked(t) == Fail(t, t)

Raise(t) == Fail(t, None)

(* AdbDevice.connect stores what the IO manager returned, without a lock.  *)
Connected(t, n) ==
  /\ th[t].pc = "connected"
  /\ available' = TRUE
  /\ maxdata' = n
  /\ Go(t, IdleThread)
  /\ UNCHANGED <<transport_lock, conn, to_dev, to_host, dev, calls, noise>>

MaxdataForgotten(t) == Connected(t, maxdata)

SetAvailable(t) == Connected(t, th[t].ret)

Handshake(t) ==
  \/ DropPacket(t) \/ ReadStls(t) \/ StartTls(t) \/ FinishTls(t) \/ Sign(t)
  \/ SendPublicKey(t) \/ Raise(t)
  \/ \E step \in {"greet", "verdict"} : ReadAuth(t, step)
  \/ \E step \in {"greet", "verdict", "accept"} : ReadCnxn(t, step)

-----------------------------------------------------------------------------
(* The device (adbd), as far as the client's code and tests show it.       *)

devRest == <<th, transport_lock, conn, available, maxdata, calls>>

ToHost(cmd, arg0, n, token) ==
  to_host' = Append(to_host, [cmd |-> cmd, arg0 |-> arg0, maxdata |-> n,
                              token |-> token, enc |-> dev.secure])

Welcome == /\ dev' = [dev EXCEPT !.st = "online"]
           /\ ToHost("CNXN", "other", DevMaxdata, 0)

Challenge(kind) == /\ dev' = [dev EXCEPT !.st = "auth", !.token = @ + 1]
                   /\ ToHost("AUTH", kind, 0, dev.token + 1)

Handles(st, cmd) ==
  /\ dev.st = st
  /\ to_dev # <<>> /\ Head(to_dev).cmd = cmd
  /\ to_dev' = Tail(to_dev)
  /\ UNCHANGED <<devRest, noise>>

DevGreet ==
  /\ Handles("greet", "CNXN")
  /\ \/ "CNXN" \in Greetings /\ Welcome
     \/ "AUTH" \in Greetings /\ Challenge("token")
     \/ "odd"  \in Greetings /\ Challenge("other")
     \/ /\ "STLS" \in Greetings
        /\ dev' = [dev EXCEPT !.st = "stls"]
        /\ ToHost("STLS", "other", 0, 0)

(* It may refuse a key it knew: the user can revoke all of them.           *)
DevVerify ==
  /\ Handles("auth", "SIGNATURE")
  /\ \/ /\ Head(to_dev).key \in KnownKeys /\ Head(to_dev).token = dev.token
        /\ Welcome
     \/ /\ dev' = [dev EXCEPT !.token = @ + 1, !.refused = @ + 1]
        /\ ToHost("AUTH", "token", 0, dev.token + 1)

(* The user is asked, and may never answer.                                *)
DevPrompt ==
  /\ Handles("auth", "RSAPUBLICKEY")
  /\ dev' = [dev EXCEPT !.st = "prompt"]
  /\ UNCHANGED to_host

DevStls ==
  /\ Handles("stls", "STLS")
  /\ dev' = [dev EXCEPT !.st = "tls"]
  /\ UNCHANGED to_host

(* The device's side of the TLS handshake.  It may refuse either message:  *)
(* it hangs up, of which the host learns when it reads or writes again.    *)
TlsRecord(st, record, answer) ==
  /\ dev.st = st /\ conn.record = record
  /\ conn' = [conn EXCEPT !.record = answer]
  /\ UNCHANGED <<th, transport_lock, to_dev, to_host, rest>>

DevHello == TlsRecord("tls", "hello", "flight") /\ dev' = [dev EXCEPT !.st = "handshake"]

DevFinished == TlsRecord("handshake", "finished", "none") /\ dev' = [dev EXCEPT !.secure = TRUE]

DevRefusesTls ==
  /\ TlsRecord("tls", "hello", "none") \/ TlsRecord("handshake", "finished", "none")
  /\ dev' = DeviceOff

DevOnline ==
  /\ dev.st = "prompt" \/ (dev.st = "handshake" /\ dev.secure)
  /\ Welcome
  /\ UNCHANGED <<devRest, to_dev, noise>>

(* A packet nobody expects: of no stream, or an AUTH sent once more.       *)
DevNoise ==
  /\ noise < MaxNoise
  /\ noise' = noise + 1
  /\ \/ dev.st \in {"greet", "auth", "stls", "prompt"} /\ ToHost("OKAY", "other", 0, 0)
     \/ dev.st = "prompt" /\ ToHost("AUTH", "token", 0, dev.token)
  /\ UNCHANGED <<devRest, to_dev, dev>>

DeviceStep ==
  \/ DevGreet \/ DevVerify \/ DevPrompt \/ DevStls \/ DevHello \/ DevFinished \/ DevRefusesTls
  \/ DevOnline \/ DevNoise

-----------------------------------------------------------------------------
(* The system.                                                             *)

Run(t) == Close(t) \/ Connect(t) \/ Handshake(t) \/ SetAvailable(t)

Call(t) == CallClose(t) \/ \E n \in 0 .. MaxKeys, pem \in BOOLEAN : CallConnect(t, n, pem)

Resting == (\A t \in Threads : th[t].pc = "idle") /\ UNCHANGED vars

Next == DeviceStep \/ Resting \/ \E t \in Threads : Run(t) \/ Call(t)

Spec == Init /\ [][Next]_vars

FairSpec == Spec /\ \A t \in Threads : WF_vars(Run(t))

-----------------------------------------------------------------------------
(* Properties.                                                             *)

Handshaking == {t \in Threads : th[t].pc \in Held}

(* Exactly the thread that holds the transport lock is in a handshake: no  *)
(* exit of connect, the exceptions included, keeps the lock.               *)
LockHeldByHandshake ==
  \A t \in Threads : transport_lock = t <=> t \in Handshaking

(* Every signature on its way to a device that waits for one is over the   *)
(* token the device sent last and made with the next key in the order of   *)
(* rsa_keys: none is skipped, tried twice or tried on a stale token.  The  *)
(* public key is offered only after the device refused a signature with    *)
(* each of the keys.                                                       *)
KeysTakeTurns ==
  /\ \A i \in DOMAIN to_dev :
       to_dev[i].cmd = "SIGNATURE" =>
         dev.st = "auth" /\ to_dev[i].token = dev.token /\ to_dev[i].key = dev.refused + 1
  /\ \A t \in Threads :
       th[t].pc = "pubkey" \/ (th[t].pc = "accept" /\ ~conn.tls) => dev.refused = th[t].keys

(* Both ends agree on what is encrypted: the device speaks TLS only to a    *)
(* host that does; a host that speaks TLS has a device that does, or one    *)
(* that has yet to judge its last message, or one that refused it; and no   *)
(* packet in clear meets an end that has switched, however a TLS handshake  *)
(* went, and whatever connection was there before.                          *)
ClearOrTlsAgreed ==
  /\ dev.secure => conn.tls
  /\ conn.tls /\ ~dev.secure =>
       dev.st = "off" \/ (dev.st = "handshake" /\ conn.record = "finished")
  /\ \A i \in DOMAIN to_dev : to_dev[i].enc = dev.secure
  /\ \A i \in DOMAIN to_host : to_host[i].enc = conn.tls

(* An available device has the maxdata that it announced in its CNXN, and  *)
(* not that of an AUTH or STLS packet before it.                           *)
MaxdataAgreed == available => maxdata = DevMaxdata

(* The calls of several threads are served one after the other, and a      *)
(* connect returns True only when the device has accepted the connection   *)
(* it made.                                                                *)
PhaseOf(x) == IF x.pc \in Held THEN "connecting" ELSE x.pc
Phases == [t \in Threads |-> PhaseOf(th[t])]
Link == IF ~conn.open THEN "down" ELSE IF dev.st = "online" THEN "up" ELSE "open"

Conn == INSTANCE Connection WITH phase <- Phases, link <- Link

ImplementsConnection == Conn!Spec

(* Every connect and close ends, whatever the device does.                 *)
ConnectEnds == \A t \in Threads : th[t].pc # "idle" ~> th[t].pc = "idle"

(* "Whether or not an ADB connection to the device has been established."  *)
(* (adb_device.py:647, the property available)                             *)
AvailableIsConnected == available => conn.open /\ dev.st = "online"

(* As long as one thread only uses the device, the flag tells the truth,   *)
(* whatever failed in its handshakes.                                      *)
AvailableIfAlone ==
  \A t \in Threads :
    [](\A u \in Threads \ {t} : th[u].pc = "idle") => []AvailableIsConnected
=============================================================================
