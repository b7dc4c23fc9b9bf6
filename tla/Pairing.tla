------------------------------- MODULE Pairing -------------------------------
(***************************************************************************)
(* Pairing over Wi-Fi: pair (pairing_device.py), the protocol it runs      *)
(* (PairingConnection of pairing/connection.py) and its cipher             *)
(* (PairingAuthCtx of pairing/auth.py); and pair_async, which runs pair in *)
(* a thread of the event loop's executor for a task that may be cancelled. *)
(*                                                                         *)
(* Inside a TLS session both ends send a SPAKE2 message, derive a key from *)
(* it and from their password, the pairing code and the keying material of *)
(* the session, and send their peer info encrypted with that key.          *)
(*                                                                         *)
(* pyOpenSSL (external) works on a blocking socket: a call returns when    *)
(* there are data, the connection ends, or it has consumed a record that   *)
(* is not data, a session ticket, and then it may raise WantReadError,     *)
(* which is where _retry_on_want looks at the deadline.                    *)
(***************************************************************************)
EXTENDS Naturals, Sequences

CONSTANTS
  None,
  HeaderUnits, PayloadUnits,   \* units in a packet header and in a payload
  MaxTickets,                  \* bound: session tickets the device sends
  Faults                       \* what may go wrong at the device or on the way, together

ASSUME PairingAssumption ==
  /\ HeaderUnits \in Nat \ {0} /\ PayloadUnits \in Nat \ {0}
  /\ MaxTickets \in Nat
  /\ None \notin {"shared", "ours", "theirs"}
  /\ Faults \subseteq {"refuse", "version", "type", "size", "spake2", "blob", "close", "slow"}

VARIABLES
  caller,      \* "direct", or the task: "awaits", "cancelled", "answered"
  pc,          \* the client's step
  sock, ssl,   \* its socket and SSL connection: "none", "open", "closed"
  left,        \* units still to be sent, or to be received
  got,         \* units received by recv_exact
  waiting,     \* it is in the select of _retry_on_want
  expired,     \* the deadline has passed
  auth,        \* PairingAuthCtx: the key of the cipher, the two sequence numbers
  outcome,     \* what pair returned or raised
  codeRight,   \* the pairing code is the one the device shows
  faults,      \* what may go wrong this time: nothing, or Faults
  to_dev, to_host,   \* units inside TLS; from the device, tickets too
  dev          \* the device: TLS up, packets sent, cipher, paired, closed, tickets

io == <<left, got, waiting>>
wires == <<to_dev, to_host>>
given == <<caller, codeRight, faults>>
vars == <<caller, pc, sock, ssl, left, got, waiting, expired, auth, outcome, codeRight, faults,
          to_dev, to_host, dev>>

-----------------------------------------------------------------------------
(* Packets.                                                                *)

PacketUnits == HeaderUnits + PayloadUnits

Keys == {"shared", "ours", "theirs"}

(* A packet: its header, what is wrong with its payload if anything, and   *)
(* for a peer info the key and the sequence number of the encryption.      *)
Packet == [type : {"spake2", "peer_info", "other"}, version : {1, 2},
           size : {"fits", "zero", "huge"}, sound : BOOLEAN,
           key : Keys \cup {None}, seq : Nat]

Unit == [p : Packet, j : 1 .. PacketUnits]

(* A record of the TLS session that is not data.                           *)
Ticket == [p |-> None, j |-> 0]

UnitsOf(p, from) == [i \in 1 .. PacketUnits + 1 - from |-> [p |-> p, j |-> from + i - 1]]

Spake2(sound) == [type |-> "spake2", version |-> 1, size |-> "fits", sound |-> sound,
                  key |-> None, seq |-> 0]

PeerInfo(sound, key, seq) == [type |-> "peer_info", version |-> 1, size |-> "fits",
                              sound |-> sound, key |-> key, seq |-> seq]

(* The key SPAKE2 gives to an end: the same to both if the passwords are.  *)
KeyOf(end) == IF codeRight THEN "shared" ELSE end

Sends == {"send_spake2", "send_peer_info"}
Headers == {"spake2_header", "peer_info_header"}
Payloads == {"spake2_payload", "peer_info_payload"}

TypeOK ==
  /\ caller \in {"direct", "awaits", "cancelled", "answered"}
  /\ pc \in {"queued", "connect", "handshake", "export", "encrypt", "finally", "end"}
            \cup Sends \cup Headers \cup Payloads
  /\ sock \in {"none", "open", "closed"} /\ ssl \in {"none", "open", "closed"}
  /\ left \in 0 .. PacketUnits
  /\ got \in Seq(Unit) /\ \A i \in DOMAIN got : got[i].p = got[1].p /\ got[i].j = got[1].j + i - 1
  /\ waiting \in BOOLEAN /\ expired \in BOOLEAN
  /\ codeRight \in BOOLEAN /\ faults \in {{}, Faults}
  /\ auth \in [cipher : Keys \cup {None}, enc : Nat, dec : Nat]
  /\ outcome \in {"none", "paired", "PairingException", "ValueError"}
  /\ to_dev \in Seq(Unit) /\ to_host \in Seq(Unit \cup {Ticket})
  /\ dev \in [tls : BOOLEAN, sent : 0 .. 2, cipher : Keys \cup {None}, paired : BOOLEAN,
              closed : BOOLEAN, tickets : 0 .. MaxTickets]

Init ==
  /\ caller \in {"direct", "awaits"}
  /\ pc = IF caller = "direct" THEN "connect" ELSE "queued"
  /\ sock = "none" /\ ssl = "none"
  /\ left = 0 /\ got = <<>> /\ waiting = FALSE /\ expired = FALSE
  /\ auth = [cipher |-> None, enc |-> 0, dec |-> 0]
  /\ outcome = "none"
  /\ codeRight \in BOOLEAN
  /\ faults \in {{}, Faults}
  /\ to_dev = <<>> /\ to_host = <<>>
  /\ dev = [tls |-> FALSE, sent |-> 0, cipher |-> None, paired |-> FALSE, closed |-> FALSE,
            tickets |-> 0]

-----------------------------------------------------------------------------
(* pair_async: the task, the event loop and the executor.                  *)

Goto(step) == pc' = step

work == <<sock, ssl, io, expired, auth, outcome, codeRight, faults, wires, dev>>

(* A thread of the executor has come to the call.                          *)
RunInExecutor ==
  /\ pc = "queued" /\ Goto("connect")
  /\ UNCHANGED <<caller, work>>

(* A call that is cancelled in the executor's queue is taken out of it; a  *)
(* thread that has begun cannot be stopped.                                *)
CancelCaller ==
  /\ caller = "awaits" /\ caller' = "cancelled"
  /\ Goto(IF pc = "queued" THEN "end" ELSE pc)
  /\ UNCHANGED work

(* The thread's result, or its exception, reaches the loop.                *)
Answer ==
  /\ pc = "end" /\ caller = "awaits" /\ caller' = "answered"
  /\ UNCHANGED <<pc, work>>

-----------------------------------------------------------------------------
(* pair: connecting, the TLS handshake, and the finally clause.            *)

(* An exception, or the return, leaves the try block.                      *)
Leave(how) ==
  /\ Goto("finally")
  /\ outcome' = how
  /\ left' = 0 /\ got' = <<>> /\ waiting' = FALSE
  /\ UNCHANGED <<sock, ssl, expired, given, wires, dev>>

Fail == Leave("PairingException") /\ UNCHANGED auth

(* socket.create_connection, which may fail.                               *)
Connect ==
  /\ pc = "connect"
  /\ \/ /\ Goto("handshake")
        /\ sock' = "open" /\ ssl' = "open"
        /\ UNCHANGED <<io, expired, auth, outcome, given, wires, dev>>
     \/ "refuse" \in faults /\ Fail

(* do_handshake, which waits for the device.                               *)
Handshake ==
  /\ pc = "handshake"
  /\ \/ /\ dev.tls /\ Goto("export")
        /\ UNCHANGED <<sock, ssl, io, expired, auth, outcome, given, wires, dev>>
     \/ ~dev.tls /\ dev.closed /\ Fail

CloseSocket ==
  /\ sock' = IF sock = "open" THEN "closed" ELSE sock
  /\ ssl' = IF ssl = "open" THEN "closed" ELSE ssl

(* The finally clause: errors of shutdown and close are swallowed.         *)
Cleanup(close) ==
  /\ pc = "finally"
  /\ Goto("end")
  /\ close
  /\ UNCHANGED <<io, expired, auth, outcome, given, wires, dev>>

CloseAfterSuccess == Cleanup(IF outcome = "paired" THEN CloseSocket ELSE UNCHANGED <<sock, ssl>>)

Finally == Cleanup(CloseSocket)

-----------------------------------------------------------------------------
(* _PyOpenSSLTransport: send_all and recv_exact.                           *)

(* run: the keying material is exported, our SPAKE2 message made.          *)
StartSending(step) == Goto(step) /\ left' = PacketUnits

Export ==
  /\ pc = "export"
  /\ StartSending("send_spake2")
  /\ UNCHANGED <<sock, ssl, got, waiting, expired, auth, outcome, given, wires, dev>>

(* The packet a step sends: a header, then the payload.                    *)
Outgoing == IF pc = "send_spake2" THEN Spake2(TRUE)
            ELSE PeerInfo(TRUE, auth.cipher, auth.enc - 1)

StartReceiving(step, n) == Goto(step) /\ left' = n /\ got' = <<>>

AfterSend == IF pc = "send_spake2" THEN "spake2_header" ELSE "peer_info_header"

Send ==
  /\ pc \in Sends
  /\ \/ \E n \in 1 .. left :
          /\ to_dev' = to_dev \o SubSeq(UnitsOf(Outgoing, PacketUnits + 1 - left), 1, n)
          /\ IF n < left THEN Goto(pc) /\ left' = left - n /\ UNCHANGED got
                         ELSE StartReceiving(AfterSend, HeaderUnits)
          /\ UNCHANGED <<sock, ssl, waiting, expired, auth, outcome, given, to_host, dev>>
     \/ dev.closed /\ Fail

Receiving == pc \in Headers \cup Payloads /\ left > 0

(* recv returns some of the bytes that are there.                          *)
Recv ==
  /\ Receiving /\ ~waiting
  /\ \E n \in 1 .. left :
       /\ n <= Len(to_host) /\ \A i \in 1 .. n : to_host[i] # Ticket
       /\ got' = got \o SubSeq(to_host, 1, n)
       /\ to_host' = SubSeq(to_host, n + 1, Len(to_host))
       /\ left' = left - n
  /\ UNCHANGED <<pc, sock, ssl, waiting, expired, auth, outcome, given, to_dev, dev>>

(* A ticket: recv goes on by itself, or raises WantReadError, for which    *)
(* _retry_on_want waits in select or finds the deadline past.              *)
RecvTicket ==
  /\ Receiving /\ ~waiting
  /\ to_host # <<>> /\ Head(to_host) = Ticket
  /\ to_host' = Tail(to_host)
  /\ waiting' \in BOOLEAN
  /\ UNCHANGED <<pc, sock, ssl, left, got, expired, auth, outcome, given, to_dev, dev>>

SelectReady ==
  /\ waiting
  /\ to_host # <<>> \/ dev.closed
  /\ waiting' = FALSE
  /\ UNCHANGED <<pc, sock, ssl, left, got, expired, auth, outcome, given, wires, dev>>

SelectTimeout == waiting /\ expired /\ Fail

(* The end of the TLS connection.                                          *)
AtEnd == Receiving /\ ~waiting /\ to_host = <<>> /\ dev.closed

RetryAtEnd ==
  /\ AtEnd /\ waiting' = TRUE
  /\ UNCHANGED <<pc, sock, ssl, left, got, expired, auth, outcome, given, wires, dev>>

RecvClosed == AtEnd /\ Fail

(* The deadline passes; with no fault "slow" it is far away.               *)
Expire ==
  /\ "slow" \in faults
  /\ pc \notin {"queued", "connect", "end"} /\ ~expired
  /\ expired' = TRUE
  /\ UNCHANGED <<pc, sock, ssl, io, auth, outcome, given, wires, dev>>

-----------------------------------------------------------------------------
(* PairingConnection.                                                      *)

Received(step) == pc = step /\ left = 0

(* _unpack_header and the check of the type.                               *)
HeaderOK(p, type) == p.version = 1 /\ p.size = "fits" /\ p.type = type

ReadHeader(step, type, next) ==
  /\ Received(step)
  /\ \/ /\ HeaderOK(got[1].p, type)
        /\ StartReceiving(next, PayloadUnits)
        /\ UNCHANGED <<sock, ssl, waiting, expired, auth, outcome, given, wires, dev>>
     \/ ~HeaderOK(got[1].p, type) /\ Fail

(* init_cipher: False when SPAKE2 cannot process the message.              *)
InitCipher ==
  /\ Received("spake2_payload")
  /\ \/ /\ got[1].p.sound
        /\ auth' = [auth EXCEPT !.cipher = KeyOf("ours")]
        /\ Goto("encrypt")
        /\ UNCHANGED <<sock, ssl, io, expired, outcome, given, wires, dev>>
     \/ ~got[1].p.sound /\ Fail

Encrypt ==
  /\ pc = "encrypt"
  /\ auth' = [auth EXCEPT !.enc = @ + 1]
  /\ StartSending("send_peer_info")
  /\ UNCHANGED <<sock, ssl, got, waiting, expired, outcome, given, wires, dev>>

(* decrypt and PeerInfo.unpack: a wrong key or nonce is a                  *)
(* PairingException, a blob of the wrong size a ValueError.                *)
DecryptAs(p, opens) ==
  /\ Received("peer_info_payload")
  /\ \/ ~opens /\ Fail
     \/ /\ opens
        /\ auth' = [auth EXCEPT !.dec = @ + 1]
        /\ Leave(IF p.sound THEN "paired" ELSE "ValueError")

Opens(p, seq) == p.key = auth.cipher /\ p.seq = seq

DecryptUnchecked == DecryptAs(got[1].p, TRUE)

OneSequence == DecryptAs(got[1].p, Opens(got[1].p, auth.enc))

Decrypt == DecryptAs(got[1].p, Opens(got[1].p, auth.dec))

Client ==
  \/ RunInExecutor \/ Answer
  \/ Connect \/ Handshake \/ Finally
  \/ Export \/ Send \/ Recv \/ RecvTicket \/ SelectReady \/ SelectTimeout \/ RecvClosed
  \/ ReadHeader("spake2_header", "spake2", "spake2_payload")
  \/ ReadHeader("peer_info_header", "peer_info", "peer_info_payload")
  \/ InitCipher \/ Encrypt \/ Decrypt

-----------------------------------------------------------------------------
(* The device (the pairing server of adbd).                                *)

client == <<pc, sock, ssl, io, expired, auth, outcome, given>>

DevTls ==
  /\ sock = "open" /\ ~dev.tls /\ ~dev.closed
  /\ dev' = [dev EXCEPT !.tls = TRUE]
  /\ UNCHANGED <<client, wires>>

DevTicket ==
  /\ dev.tls /\ ~dev.closed /\ dev.tickets < MaxTickets
  /\ to_host' = Append(to_host, Ticket)
  /\ dev' = [dev EXCEPT !.tickets = @ + 1]
  /\ UNCHANGED <<client, to_dev>>

(* The packets the device may send in place of p.                          *)
Oddities(p) ==
  {p} \cup (IF "version" \in faults THEN {[p EXCEPT !.version = 2]} ELSE {})
      \cup (IF "type" \in faults THEN {[p EXCEPT !.type = t] : t \in {"spake2", "peer_info", "other"}}
                                 ELSE {})
      \cup (IF "size" \in faults THEN {[p EXCEPT !.size = s] : s \in {"zero", "huge"}} ELSE {})
      \cup (IF {"spake2", "blob"} \cap faults # {} THEN {[p EXCEPT !.sound = FALSE]} ELSE {})

DevSends(p) ==
  /\ \E q \in Oddities(p) : to_host' = to_host \o UnitsOf(q, 1)
  /\ dev' = [dev EXCEPT !.sent = @ + 1]
  /\ UNCHANGED <<client, to_dev>>

DevSend ==
  /\ dev.tls /\ ~dev.closed
  /\ \/ dev.sent = 0 /\ DevSends(Spake2(TRUE))
     \/ dev.sent = 1 /\ dev.cipher # None /\ DevSends(PeerInfo(TRUE, dev.cipher, 0))

(* A packet of the client is complete.  A peer info the device cannot      *)
(* decrypt ends the connection.                                            *)
DevReceive ==
  /\ Len(to_dev) >= PacketUnits /\ ~dev.closed
  /\ LET p == Head(to_dev).p
     IN  dev' = IF p.type = "spake2" THEN [dev EXCEPT !.cipher = KeyOf("theirs")]
                ELSE IF p.key = dev.cipher /\ p.seq = 0 THEN [dev EXCEPT !.paired = TRUE]
                ELSE [dev EXCEPT !.closed = TRUE]
  /\ to_dev' = SubSeq(to_dev, PacketUnits + 1, Len(to_dev))
  /\ UNCHANGED <<client, to_host>>

DevClose ==
  /\ "close" \in faults
  /\ ~dev.closed
  /\ dev' = [dev EXCEPT !.closed = TRUE]
  /\ UNCHANGED <<client, wires>>

Device == DevTls \/ DevTicket \/ DevSend \/ DevReceive

Ended == pc = "end" /\ UNCHANGED vars

Next == Client \/ CancelCaller \/ Expire \/ Device \/ DevClose \/ Ended

Spec == Init /\ [][Next]_vars

(* The client goes on when it can, and time passes; the device does its    *)
(* part, or closes: a device that falls silent would keep a client waiting *)
(* in a blocking call, where _retry_on_want does not see the deadline.     *)
FairSpec == Spec /\ WF_vars(Client) /\ WF_vars(Expire) /\ WF_vars(Device \/ DevClose)

-----------------------------------------------------------------------------
(* Properties.                                                             *)

(* A pairing that succeeds was made with the device's code, and the peer   *)
(* info returned is one the device encrypted with the key both share.      *)
PairedMeansAgreed ==
  outcome = "paired" => codeRight /\ dev.cipher = "shared" /\ dev.sent = 2

(* However pair ends, and whether or not anybody still waits for it, its   *)
(* SSL connection and its socket are closed.                               *)
NothingLeftOpen ==
  /\ TypeOK
  /\ pc = "end" => sock # "open" /\ ssl # "open"

(* With a device that follows the protocol the code decides: with the      *)
(* right one both ends are paired, with a wrong one pair raises.  A task   *)
(* that is cancelled changes nothing of that once the thread has begun:    *)
(* the device is paired although nobody is told.                           *)
CodeDecides ==
  LET neverRun == pc = "end" /\ sock = "none" /\ caller = "cancelled"
  IN  /\ faults = {} /\ codeRight ~> neverRun \/ (outcome = "paired" /\ dev.paired)
      /\ faults = {} /\ ~codeRight
           ~> neverRun \/ (outcome = "PairingException" /\ ~dev.paired)

(* pair ends when the device goes on or closes the connection, whatever    *)
(* the device sends and whenever the deadline passes, and a task that is   *)
(* not cancelled gets the answer.                                          *)
PairEnds == <>(pc = "end" /\ caller # "awaits")
=============================================================================
