---------------------------- MODULE PairingProofs ----------------------------
(***************************************************************************)
(* Proofs about Pairing: whoever is told that it is paired has agreed with *)
(* the device on the code, and nothing is left open.                       *)
(***************************************************************************)
EXTENDS Pairing, TLAPS

(* How much of the packet it is reading the client has read.               *)
Position ==
  IF pc \in Headers THEN Len(got)
  ELSE IF pc \in Payloads /\ left > 0 THEN HeaderUnits + Len(got) ELSE 0

Awaited == IF pc \in Headers THEN HeaderUnits ELSE PayloadUnits

GotOK ==
  /\ pc \in Headers \cup Payloads => Len(got) + left = Awaited
  /\ pc \in Headers => \A i \in DOMAIN got : got[i].j = i
  /\ pc \in Payloads => \A i \in DOMAIN got : got[i].j = HeaderUnits + i

(* The units of a packet, as far as the client has not read them, are all  *)
(* there, one after the other.                                             *)
WholePackets ==
  \A i \in 1 .. Len(to_host), k \in 1 .. PacketUnits :
    to_host[i] # Ticket /\ i + k > to_host[i].j =>
      /\ i + k - to_host[i].j <= Len(to_host)
      /\ to_host[i + k - to_host[i].j] = [p |-> to_host[i].p, j |-> k]

(* What arrives next goes on where the client is.                          *)
NextUnitOK ==
  pc \notin {"finally", "end"} =>
    /\ to_host # <<>> /\ to_host[1] # Ticket => to_host[1].j = Position + 1
    /\ Position > 0 => /\ to_host # <<>> /\ to_host[1] # Ticket
                       /\ got # <<>> => to_host[1].p = got[1].p

(* A peer info of the device is encrypted with the key of the device.      *)
EncryptedBy(u, d) == u # Ticket /\ u.p.key # None => u.p.key = d.cipher /\ d.sent = 2

FromDevice(u) == EncryptedBy(u, dev)

KeysOK ==
  /\ auth.cipher \in {None, KeyOf("ours")}
  /\ pc \in {"encrypt", "send_peer_info", "peer_info_header", "peer_info_payload"} =>
       auth.cipher # None
  /\ pc = "send_peer_info" => auth.enc > 0
  /\ dev.cipher \in {None, KeyOf("theirs")}
  /\ \A i \in DOMAIN to_host : FromDevice(to_host[i])
  /\ \A i \in DOMAIN got : FromDevice(got[i])

SocketsOK ==
  /\ pc \in {"queued", "connect"} => sock = "none" /\ ssl = "none"
  /\ pc = "end" => sock # "open" /\ ssl # "open"

WireOK == GotOK /\ WholePackets /\ NextUnitOK /\ KeysOK

IInv == TypeOK /\ WireOK /\ SocketsOK /\ PairedMeansAgreed

-----------------------------------------------------------------------------
(* Packets and their units.                                                *)

LEMMA Sizes ==
  /\ HeaderUnits \in Nat \ {0} /\ PayloadUnits \in Nat \ {0} /\ PacketUnits \in Nat
  /\ PacketUnits = HeaderUnits + PayloadUnits
BY PairingAssumption DEF PacketUnits

LEMMA UnitsOfPacket ==
  ASSUME NEW q \in Packet, NEW from \in 1 .. PacketUnits
  PROVE  /\ UnitsOf(q, from) \in Seq(Unit) /\ Len(UnitsOf(q, from)) = PacketUnits + 1 - from
         /\ \A i \in 1 .. PacketUnits + 1 - from :
              UnitsOf(q, from)[i] = [p |-> q, j |-> from + i - 1]
<1> DEFINE n == PacketUnits + 1 - from
<1>1. n \in Nat
  BY Sizes
<1>2. \A i \in 1 .. n : [p |-> q, j |-> from + i - 1] \in Unit
  <2> TAKE i \in 1 .. n
  <2>1. from + i - 1 \in 1 .. PacketUnits
    BY Sizes
  <2> QED BY <2>1 DEF Unit
<1> HIDE DEF n
<1>3. UnitsOf(q, from) = [i \in 1 .. n |-> [p |-> q, j |-> from + i - 1]]
  BY DEF UnitsOf, n
<1> DEFINE u == UnitsOf(q, from)
<1>4. u \in Seq(Unit) /\ Len(u) = n /\ \A i \in 1 .. n : u[i] = [p |-> q, j |-> from + i - 1]
  <2>1. u = [i \in 1 .. n |-> [p |-> q, j |-> from + i - 1]]
    BY <1>3
  <2>2. u \in [1 .. n -> Unit]
    BY <1>2, <2>1
  <2>3. \A i \in 1 .. n : u[i] = [p |-> q, j |-> from + i - 1]
    BY <2>1
  <2> HIDE DEF u
  <2> QED BY <1>1, <2>2, <2>3
<1> QED BY <1>4 DEF n

LEMMA UnitIsNoTicket ==
  ASSUME NEW u \in Unit
  PROVE  u # Ticket /\ u.j \in 1 .. PacketUnits
<1>1. u.j \in 1 .. PacketUnits
  BY DEF Unit
<1>2. Ticket.j = 0
  BY DEF Ticket
<1> QED BY <1>1, <1>2, Sizes

LEMMA Appended ==
  ASSUME NEW S, NEW s \in Seq(S), NEW t \in Seq(S)
  PROVE  /\ s \o t \in Seq(S) /\ Len(s \o t) = Len(s) + Len(t)
         /\ \A i \in 1 .. Len(s) : (s \o t)[i] = s[i]
         /\ \A i \in 1 .. Len(t) : (s \o t)[Len(s) + i] = t[i]
         /\ \A i \in 1 .. Len(s) + Len(t) : i > Len(s) => (s \o t)[i] = t[i - Len(s)]
OBVIOUS

LEMMA Parts ==
  ASSUME NEW S, NEW s \in Seq(S), NEW n \in Nat, n <= Len(s)
  PROVE  /\ SubSeq(s, 1, n) \in Seq(S) /\ Len(SubSeq(s, 1, n)) = n
         /\ \A i \in 1 .. n : SubSeq(s, 1, n)[i] = s[i]
         /\ SubSeq(s, n + 1, Len(s)) \in Seq(S) /\ Len(SubSeq(s, n + 1, Len(s))) = Len(s) - n
         /\ \A i \in 1 .. Len(s) - n : SubSeq(s, n + 1, Len(s))[i] = s[n + i]
OBVIOUS

LEMMA NoElements == <<>> \in Seq(Unit) /\ DOMAIN <<>> = {}
OBVIOUS

LEMMA InSeq ==
  ASSUME NEW S, NEW s \in Seq(S)
  PROVE  /\ DOMAIN s = 1 .. Len(s) /\ Len(s) \in Nat
         /\ s = <<>> <=> Len(s) = 0
         /\ \A i \in 1 .. Len(s) : s[i] \in S
OBVIOUS

-----------------------------------------------------------------------------
(* The first state, and the steps that move no unit.                       *)

LEMMA InitIInv == Init => IInv
<1> SUFFICES ASSUME Init PROVE IInv
  OBVIOUS
<1> USE DEF Init
<1>1. TypeOK
  <2>1. got \in Seq(Unit) /\ \A i \in DOMAIN got : got[i].p = got[1].p /\ got[i].j = got[1].j + i - 1
    BY NoElements
  <2>2. left \in 0 .. PacketUnits /\ 0 \in 0 .. MaxTickets
    BY Sizes, PairingAssumption
  <2>3. to_dev \in Seq(Unit) /\ to_host \in Seq(Unit \cup {Ticket})
    OBVIOUS
  <2>4. dev \in [tls : BOOLEAN, sent : 0 .. 2, cipher : Keys \cup {None}, paired : BOOLEAN,
                closed : BOOLEAN, tickets : 0 .. MaxTickets]
    BY <2>2
  <2> QED BY <2>1, <2>2, <2>3, <2>4 DEF TypeOK
<1>2. WireOK
  <2>1. to_host = <<>> /\ Len(to_host) = 0 /\ DOMAIN to_host = {} /\ DOMAIN got = {}
    BY NoElements
  <2>2. GotOK /\ WholePackets
    BY <2>1 DEF GotOK, WholePackets, Headers, Payloads
  <2>3. NextUnitOK
    BY <2>1 DEF NextUnitOK, Position, Headers, Payloads
  <2>4. KeysOK
    BY <2>1 DEF KeysOK
  <2> QED BY <2>2, <2>3, <2>4 DEF WireOK
<1>3. SocketsOK /\ PairedMeansAgreed
  BY DEF Init, SocketsOK, PairedMeansAgreed
<1> QED BY <1>1, <1>2, <1>3 DEF IInv

Early == {"queued", "connect", "handshake", "export"}

LEMMA WireFrame ==
  ASSUME WireOK, UNCHANGED <<left, got, auth, to_host, codeRight>>,
         dev'.cipher = dev.cipher, dev'.sent = dev.sent,
         pc' = pc \/ (pc \in Early \cup {"finally"} /\ pc' \in Early \cup {"end"}
                      /\ (pc = "finally" => pc' = "end"))
  PROVE  WireOK'
<1>1. GotOK'
  BY DEF WireOK, GotOK, Awaited, Headers, Payloads, Early
<1>2. WholePackets'
  BY DEF WireOK, WholePackets
<1>3. NextUnitOK'
  BY DEF WireOK, NextUnitOK, Position, Headers, Payloads, Early
<1>4. KeysOK'
  BY DEF WireOK, KeysOK, KeyOf, FromDevice, EncryptedBy, Early
<1> QED BY <1>1, <1>2, <1>3, <1>4 DEF WireOK

(* An exception, or the return.                                            *)
LEMMA LeaveIInv ==
  ASSUME IInv, NEW how \in {"paired", "PairingException", "ValueError"}, Leave(how),
         auth'.cipher = auth.cipher, auth' \in [cipher : Keys \cup {None}, enc : Nat, dec : Nat],
         how = "paired" => codeRight /\ dev.cipher = "shared" /\ dev.sent = 2
  PROVE  IInv'
<1> USE DEF Leave, Goto, given, wires
<1>1. TypeOK'
  <2>1. /\ got' \in Seq(Unit)
        /\ \A i \in DOMAIN got' : got'[i].p = got'[1].p /\ got'[i].j = got'[1].j + i - 1
    BY NoElements
  <2>2. left' \in 0 .. PacketUnits
    BY Sizes
  <2>3. /\ UNCHANGED <<caller, sock, ssl, expired, codeRight, faults, to_dev, to_host, dev>>
        /\ pc' = "finally" /\ outcome' = how /\ waiting' = FALSE
    OBVIOUS
  <2>4. auth' \in [cipher : Keys \cup {None}, enc : Nat, dec : Nat]
    OBVIOUS
  <2> HIDE DEF Leave, Goto, given, wires
  <2>5. TypeOK
    BY DEF IInv
  <2>6. /\ pc' \in {"queued", "connect", "handshake", "export", "encrypt", "finally", "end"}
                     \cup Sends \cup Headers \cup Payloads
        /\ outcome' \in {"none", "paired", "PairingException", "ValueError"}
        /\ waiting' \in BOOLEAN
    BY <2>3
  <2> QED BY <2>1, <2>2, <2>3, <2>4, <2>5, <2>6 DEF TypeOK
<1>2. GotOK' /\ NextUnitOK'
  BY DEF GotOK, NextUnitOK, Headers, Payloads
<1>3. WholePackets'
  BY DEF IInv, WireOK, WholePackets
<1>4. KeysOK'
  <2>1. DOMAIN got' = {}
    BY NoElements
  <2> QED BY <2>1 DEF IInv, WireOK, KeysOK, KeyOf, FromDevice
<1>5. SocketsOK' /\ PairedMeansAgreed'
  BY DEF SocketsOK, PairedMeansAgreed
<1> QED BY <1>1, <1>2, <1>3, <1>4, <1>5 DEF IInv, WireOK

LEMMA FailIInv ==
  ASSUME IInv, Fail
  PROVE  IInv'
<1>1. UNCHANGED auth /\ Leave("PairingException")
  BY DEF Fail
<1>2. auth' \in [cipher : Keys \cup {None}, enc : Nat, dec : Nat]
  BY <1>1 DEF IInv, TypeOK
<1> QED BY <1>1, <1>2, LeaveIInv

LEMMA CallerIInv ==
  ASSUME IInv, RunInExecutor \/ CancelCaller \/ Answer \/ UNCHANGED vars
  PROVE  IInv'
<1>1. /\ UNCHANGED work
      /\ pc' = pc \/ (pc = "queued" /\ pc' \in {"connect", "end"})
      /\ caller' \in {"direct", "awaits", "cancelled", "answered"}
  BY DEF RunInExecutor, CancelCaller, Answer, vars, work, io, wires, Goto, IInv, TypeOK
<1>2. UNCHANGED <<sock, ssl, left, got, waiting, expired, auth, outcome, codeRight, faults, to_dev,
                  to_host, dev>>
  BY <1>1 DEF work, io, wires
<1>3. WireOK'
  BY <1>1, <1>2, WireFrame DEF IInv, Early
<1>4. TypeOK'
  BY <1>1, <1>2 DEF IInv, TypeOK
<1>5. SocketsOK' /\ PairedMeansAgreed'
  BY <1>1, <1>2 DEF IInv, SocketsOK, PairedMeansAgreed
<1> QED BY <1>3, <1>4, <1>5 DEF IInv

LEMMA ConnectIInv ==
  ASSUME IInv, Connect \/ Handshake \/ Finally
  PROVE  IInv'
<1>1. CASE Fail
  BY <1>1, FailIInv
<1>2. CASE ~Fail
  <2>1. /\ UNCHANGED <<left, got, waiting, expired, auth, outcome, caller, codeRight, faults, to_dev,
                       to_host, dev>>
        /\ \/ pc = "connect" /\ pc' = "handshake" /\ sock' = "open" /\ ssl' = "open"
           \/ pc = "handshake" /\ pc' = "export" /\ UNCHANGED <<sock, ssl>>
           \/ pc = "finally" /\ pc' = "end" /\ CloseSocket
    BY <1>2 DEF Connect, Handshake, Finally, Cleanup, Goto, io, given, wires
  <2>2. WireOK'
    BY <2>1, WireFrame DEF IInv, Early
  <2>3. TypeOK'
    BY <2>1 DEF IInv, TypeOK, CloseSocket
  <2>4. SocketsOK' /\ PairedMeansAgreed'
    BY <2>1 DEF IInv, SocketsOK, PairedMeansAgreed, CloseSocket
  <2> QED BY <2>2, <2>3, <2>4 DEF IInv
<1> QED BY <1>1, <1>2

(* Waiting, the deadline, and the device's end of the connection.          *)
LEMMA WaitIInv ==
  ASSUME IInv, SelectReady \/ Expire \/ DevTls \/ DevClose
  PROVE  IInv'
<1>1. /\ UNCHANGED <<caller, pc, sock, ssl, left, got, auth, outcome, codeRight, faults, to_dev,
                     to_host>>
      /\ waiting' \in BOOLEAN /\ expired' \in BOOLEAN
      /\ \/ dev' = dev \/ dev' = [dev EXCEPT !.tls = TRUE] \/ dev' = [dev EXCEPT !.closed = TRUE]
  BY DEF SelectReady, Expire, DevTls, DevClose, client, io, given, wires, IInv, TypeOK
<1>2. /\ dev'.cipher = dev.cipher /\ dev'.sent = dev.sent
      /\ dev' \in [tls : BOOLEAN, sent : 0 .. 2, cipher : Keys \cup {None}, paired : BOOLEAN,
                    closed : BOOLEAN, tickets : 0 .. MaxTickets]
  BY <1>1 DEF IInv, TypeOK
<1>3. WireOK'
  BY <1>1, <1>2, WireFrame DEF IInv
<1>4. TypeOK'
  BY <1>1, <1>2 DEF IInv, TypeOK
<1>5. SocketsOK' /\ PairedMeansAgreed'
  BY <1>1, <1>2 DEF IInv, SocketsOK, PairedMeansAgreed
<1> QED BY <1>3, <1>4, <1>5 DEF IInv

-----------------------------------------------------------------------------
(* The steps of the client.                                                *)

StateOf == [tls : BOOLEAN, sent : 0 .. 2, cipher : Keys \cup {None}, paired : BOOLEAN,
            closed : BOOLEAN, tickets : 0 .. MaxTickets]

GotType(q) == q \in Seq(Unit) /\ \A i \in DOMAIN q : q[i].p = q[1].p /\ q[i].j = q[1].j + i - 1

LEMMA Types ==
  ASSUME TypeOK
  PROVE  /\ left \in 0 .. PacketUnits /\ GotType(got)
         /\ to_dev \in Seq(Unit) /\ to_host \in Seq(Unit \cup {Ticket})
         /\ auth \in [cipher : Keys \cup {None}, enc : Nat, dec : Nat] /\ dev \in StateOf
BY DEF TypeOK, StateOf, GotType

(* The variables that only a few steps change.                             *)
LEMMA TypeFrame ==
  ASSUME TypeOK, UNCHANGED <<caller, sock, ssl, expired, outcome, codeRight, faults>>,
         waiting' \in BOOLEAN, left' \in 0 .. PacketUnits, GotType(got'),
         pc' \in {pc, "encrypt"} \cup Sends \cup Headers \cup Payloads,
         auth' \in [cipher : Keys \cup {None}, enc : Nat, dec : Nat],
         to_dev' \in Seq(Unit), to_host' \in Seq(Unit \cup {Ticket}), dev' \in StateOf
  PROVE  TypeOK'
BY DEF TypeOK, StateOf, GotType

LEMMA EmptyGot == GotType(<<>>) /\ DOMAIN <<>> = {} /\ Len(<<>>) = 0
BY DEF GotType

(* Keys stay what they are.                                                *)
LEMMA KeysFrame ==
  ASSUME KeysOK, UNCHANGED <<auth, dev, to_host, codeRight>>,
         got' = got \/ got' = <<>>,
         pc' \in {"encrypt", "send_peer_info", "peer_info_header", "peer_info_payload"} =>
           pc \in {"encrypt", "send_peer_info", "peer_info_header", "peer_info_payload"},
         pc' = "send_peer_info" => pc = "send_peer_info"
  PROVE  KeysOK'
<1>1. \A i \in DOMAIN got' : FromDevice(got'[i])
  BY EmptyGot DEF KeysOK
<1>2. \A u : FromDevice(u)' = FromDevice(u)
  BY DEF FromDevice
<1> QED BY <1>1, <1>2 DEF KeysOK, KeyOf, FromDevice

LEMMA ExportIInv ==
  ASSUME IInv, Export
  PROVE  IInv'
<1> USE DEF Export, StartSending, Goto, given, wires
<1>1. TypeOK'
  <2>1. left' \in 0 .. PacketUnits
    BY Sizes
  <2>2. TypeOK
    BY DEF IInv
  <2> QED BY <2>1, <2>2, Types, TypeFrame DEF Sends, TypeOK
<1>2. GotOK' /\ NextUnitOK'
  BY DEF IInv, WireOK, GotOK, NextUnitOK, Position, Headers, Payloads
<1>3. WholePackets'
  BY DEF IInv, WireOK, WholePackets
<1>4. KeysOK'
  BY KeysFrame DEF IInv, WireOK
<1>5. SocketsOK' /\ PairedMeansAgreed'
  BY DEF IInv, SocketsOK, PairedMeansAgreed
<1> QED BY <1>1, <1>2, <1>3, <1>4, <1>5 DEF IInv, WireOK

LEMMA EncryptIInv ==
  ASSUME IInv, Encrypt
  PROVE  IInv'
<1>1. /\ UNCHANGED <<caller, sock, ssl, got, waiting, expired, outcome, codeRight, faults, to_dev,
                     to_host, dev>>
      /\ pc = "encrypt" /\ pc' = "send_peer_info" /\ left' = PacketUnits
  BY DEF Encrypt, StartSending, Goto, given, wires
<1>2. /\ auth' \in [cipher : Keys \cup {None}, enc : Nat, dec : Nat]
      /\ auth'.cipher = auth.cipher /\ auth'.enc > 0
  <2>1. auth \in [cipher : Keys \cup {None}, enc : Nat, dec : Nat]
    BY Types DEF IInv
  <2>2. auth' = [auth EXCEPT !.enc = @ + 1]
    BY DEF Encrypt
  <2> QED BY <2>1, <2>2
<1>3. TypeOK'
  <2>1. left' \in 0 .. PacketUnits
    BY <1>1, Sizes
  <2>2. TypeOK
    BY DEF IInv
  <2> QED BY <1>1, <1>2, <2>1, <2>2, Types, TypeFrame DEF Sends, TypeOK
<1>4. GotOK' /\ NextUnitOK'
  BY <1>1 DEF IInv, WireOK, GotOK, NextUnitOK, Position, Headers, Payloads
<1>5. WholePackets'
  BY <1>1 DEF IInv, WireOK, WholePackets
<1>6. KeysOK'
  BY <1>1, <1>2 DEF IInv, WireOK, KeysOK, FromDevice, KeyOf
<1>7. SocketsOK' /\ PairedMeansAgreed'
  BY <1>1 DEF IInv, SocketsOK, PairedMeansAgreed
<1> QED BY <1>3, <1>4, <1>5, <1>6, <1>7 DEF IInv, WireOK

(* What is sent.                                                           *)
LEMMA OutgoingIsPacket ==
  ASSUME TypeOK, KeysOK, pc \in Sends
  PROVE  Outgoing \in Packet
<1>1. Spake2(TRUE) \in Packet
  BY DEF Spake2, Packet
<1>2. CASE pc = "send_peer_info"
  <2>1. auth.enc - 1 \in Nat /\ auth.cipher \in Keys \cup {None}
    <3>1. auth \in [cipher : Keys \cup {None}, enc : Nat, dec : Nat] /\ auth.enc > 0
      BY <1>2, Types DEF KeysOK
    <3> QED BY <3>1
  <2> QED BY <1>2, <2>1 DEF Outgoing, PeerInfo, Packet
<1> QED BY <1>1, <1>2 DEF Outgoing, Sends

LEMMA SendIInv ==
  ASSUME IInv, Send
  PROVE  IInv'
<1>1. CASE Fail
  BY <1>1, FailIInv
<1>2. CASE ~Fail
  <2>1. PICK n \in 1 .. left :
          /\ to_dev' = to_dev \o SubSeq(UnitsOf(Outgoing, PacketUnits + 1 - left), 1, n)
          /\ IF n < left THEN pc' = pc /\ left' = left - n /\ UNCHANGED got
                         ELSE pc' = AfterSend /\ left' = HeaderUnits /\ got' = <<>>
          /\ UNCHANGED <<sock, ssl, waiting, expired, auth, outcome, given, to_host, dev>>
    BY <1>2 DEF Send, Goto, StartReceiving
  <2>2. pc \in Sends
    BY DEF Send
  <2>3. to_dev' \in Seq(Unit)
    <3>1. Outgoing \in Packet
      BY <2>2, OutgoingIsPacket DEF IInv, WireOK
    <3>2. PacketUnits + 1 - left \in 1 .. PacketUnits /\ n \in Nat
      BY Types, Sizes DEF IInv
    <3> DEFINE u == UnitsOf(Outgoing, PacketUnits + 1 - left)
    <3>3. u \in Seq(Unit) /\ n <= Len(u)
      BY <3>1, <3>2, UnitsOfPacket, Types, Sizes DEF IInv
    <3> HIDE DEF u
    <3>4. SubSeq(u, 1, n) \in Seq(Unit)
      BY <3>2, <3>3, Parts
    <3>5. to_dev \in Seq(Unit)
      BY Types DEF IInv
    <3> QED BY <2>1, <3>4, <3>5, Appended DEF u
  <2>4. UNCHANGED <<caller, codeRight, faults, sock, ssl, waiting, expired, auth, outcome, to_host,
                    dev>>
    BY <2>1 DEF given
  <2>5. \/ pc' = pc /\ got' = got /\ left' \in 0 .. PacketUnits
        \/ /\ pc' = AfterSend /\ left' = HeaderUnits /\ got' = <<>>
    <3>1. left \in 0 .. PacketUnits
      BY Types DEF IInv
    <3>2. n < left => left - n \in 0 .. PacketUnits
      BY <3>1, Sizes
    <3> QED BY <2>1, <3>2
  <2>6. TypeOK'
    <3>1. GotType(got') /\ left' \in 0 .. PacketUnits
      BY <2>5, EmptyGot, Types, Sizes DEF IInv
    <3>2. pc' \in {pc} \cup Headers
      BY <2>5 DEF AfterSend, Headers
    <3> QED BY <2>3, <2>4, <3>1, <3>2, Types, TypeFrame DEF IInv, TypeOK
  <2>7. GotOK' /\ NextUnitOK'
    <3>1. CASE pc' = pc
      <4>1. pc \notin Headers \cup Payloads
        BY <2>2 DEF Headers, Payloads, Sends
      <4>2. Position = 0 /\ Position' = 0
        BY <3>1, <4>1 DEF Position
      <4>3. GotOK'
        BY <3>1, <4>1 DEF GotOK
      <4>4. NextUnitOK'
        BY <2>2, <2>4, <3>1, <4>2 DEF IInv, WireOK, NextUnitOK, Sends
      <4> QED BY <4>3, <4>4
    <3>2. CASE pc' = AfterSend /\ left' = HeaderUnits /\ got' = <<>>
      <4>1. pc' \in Headers /\ pc \notin Headers \cup Payloads \cup {"finally", "end"}
        BY <2>2, <3>2 DEF AfterSend, Headers, Payloads, Sends
      <4>2. Len(got') = 0 /\ DOMAIN got' = {} /\ Awaited' = HeaderUnits
        BY <3>2, <4>1, EmptyGot DEF Awaited
      <4>3. GotOK'
        <5>1. Len(got') + left' = Awaited'
          BY <3>2, <4>2, Sizes
        <5>2. pc' \notin Payloads
          BY <4>1 DEF Headers, Payloads
        <5> QED BY <4>2, <5>1, <5>2 DEF GotOK
      <4>4. Position = 0 /\ Position' = 0
        BY <4>1, <4>2 DEF Position
      <4>5. NextUnitOK'
        BY <2>4, <4>1, <4>4 DEF IInv, WireOK, NextUnitOK
      <4> QED BY <4>3, <4>5
    <3> QED BY <2>5, <3>1, <3>2
  <2>8. WholePackets'
    BY <2>4 DEF IInv, WireOK, WholePackets
  <2>9. KeysOK'
    BY <2>2, <2>4, <2>5, KeysFrame DEF IInv, WireOK, Sends, AfterSend
  <2>10. SocketsOK' /\ PairedMeansAgreed'
    BY <2>2, <2>4, <2>5 DEF IInv, SocketsOK, PairedMeansAgreed, Sends, AfterSend
  <2> QED BY <2>6, <2>7, <2>8, <2>9, <2>10 DEF IInv, WireOK
<1> QED BY <1>1, <1>2

(* From the header of a packet to its payload.                             *)
LEMMA ToPayloadIInv ==
  ASSUME IInv,
         \/ pc = "spake2_header" /\ pc' = "spake2_payload"
         \/ pc = "peer_info_header" /\ pc' = "peer_info_payload",
         left = 0, left' = PayloadUnits, got' = <<>>,
         UNCHANGED <<sock, ssl, waiting, expired, auth, outcome, caller, codeRight, faults, to_dev,
                     to_host, dev>>
  PROVE  IInv'
<1>1. pc \in Headers /\ pc' \in Payloads /\ pc' \notin Headers
  BY DEF Headers, Payloads
<1>2. Len(got') = 0 /\ DOMAIN got' = {} /\ GotType(got')
  BY EmptyGot
<1>3. TypeOK'
  <2>1. left' \in 0 .. PacketUnits
    BY Sizes
  <2>2. TypeOK
    BY DEF IInv
  <2> QED BY <1>1, <1>2, <2>1, <2>2, Types, TypeFrame DEF TypeOK
<1>4. GotOK'
  <2>1. Len(got') + left' = Awaited'
    BY <1>1, <1>2, Sizes DEF Awaited
  <2> QED BY <1>1, <1>2, <2>1 DEF GotOK
<1>5. Len(got) = HeaderUnits
  <2>1. Len(got) \in Nat
    BY InSeq, Types DEF IInv, GotType
  <2>2. Len(got) + left = HeaderUnits
    BY <1>1 DEF IInv, WireOK, GotOK, Awaited
  <2> QED BY <2>1, <2>2, Sizes
<1>6. Position = HeaderUnits /\ Position' = HeaderUnits
  <2>1. Position = Len(got)
    BY <1>1 DEF Position
  <2>2. left' > 0
    BY Sizes
  <2>3. Position' = HeaderUnits + Len(got')
    BY <1>1, <2>2 DEF Position
  <2> QED BY <1>2, <1>5, <2>1, <2>3, Sizes
<1>7. NextUnitOK'
  BY <1>6 DEF IInv, WireOK, NextUnitOK
<1>8. WholePackets'
  BY DEF IInv, WireOK, WholePackets
<1>9. KeysOK'
  BY KeysFrame DEF IInv, WireOK
<1>10. SocketsOK' /\ PairedMeansAgreed'
  BY DEF IInv, SocketsOK, PairedMeansAgreed
<1> QED BY <1>3, <1>4, <1>7, <1>8, <1>9, <1>10 DEF IInv, WireOK

LEMMA ReadHeaderIInv ==
  ASSUME IInv,
         \/ ReadHeader("spake2_header", "spake2", "spake2_payload")
         \/ ReadHeader("peer_info_header", "peer_info", "peer_info_payload")
  PROVE  IInv'
<1>1. CASE Fail
  BY <1>1, FailIInv
<1>2. CASE ~Fail
  <2>1. /\ \/ pc = "spake2_header" /\ pc' = "spake2_payload"
           \/ pc = "peer_info_header" /\ pc' = "peer_info_payload"
        /\ left = 0 /\ left' = PayloadUnits /\ got' = <<>>
        /\ UNCHANGED <<sock, ssl, waiting, expired, auth, outcome, caller, codeRight, faults, to_dev,
                       to_host, dev>>
    BY <1>2 DEF ReadHeader, Received, StartReceiving, Goto, given, wires
  <2> QED BY <2>1, ToPayloadIInv
<1> QED BY <1>1, <1>2

LEMMA InitCipherIInv ==
  ASSUME IInv, InitCipher
  PROVE  IInv'
<1>1. CASE Fail
  BY <1>1, FailIInv
<1>2. CASE ~Fail
  <2>1. /\ pc = "spake2_payload" /\ left = 0 /\ pc' = "encrypt"
        /\ auth' = [auth EXCEPT !.cipher = KeyOf("ours")]
        /\ UNCHANGED <<sock, ssl, left, got, waiting, expired, outcome, caller, codeRight, faults,
                       to_dev, to_host, dev>>
    BY <1>2 DEF InitCipher, Received, Goto, io, given, wires
  <2>2. /\ auth' \in [cipher : Keys \cup {None}, enc : Nat, dec : Nat]
        /\ auth'.cipher = KeyOf("ours") /\ KeyOf("ours") # None /\ KeyOf("ours") \in Keys
    BY <2>1, Types, PairingAssumption DEF IInv, KeyOf, Keys
  <2>3. TypeOK'
    BY <2>1, <2>2, Types, TypeFrame DEF IInv, TypeOK
  <2>4. GotOK' /\ NextUnitOK'
    <3> ~(left > 0)
      BY <2>1
    <3>1. Position = 0 /\ Position' = 0
      BY <2>1 DEF Position, Headers, Payloads
    <3>2. NextUnitOK'
      BY <2>1, <3>1 DEF IInv, WireOK, NextUnitOK
    <3>3. GotOK'
      BY <2>1 DEF GotOK, Headers, Payloads
    <3> QED BY <3>2, <3>3
  <2>5. WholePackets'
    BY <2>1 DEF IInv, WireOK, WholePackets
  <2>6. KeysOK'
    BY <2>1, <2>2 DEF IInv, WireOK, KeysOK, FromDevice, KeyOf
  <2>7. SocketsOK' /\ PairedMeansAgreed'
    BY <2>1 DEF IInv, SocketsOK, PairedMeansAgreed
  <2> QED BY <2>3, <2>4, <2>5, <2>6, <2>7 DEF IInv, WireOK
<1> QED BY <1>1, <1>2

(* What opens was encrypted by the device, with the key of both.           *)
LEMMA OpenedIsAgreed ==
  ASSUME IInv, pc = "peer_info_payload", left = 0, got[1].p.key = auth.cipher
  PROVE  codeRight /\ dev.cipher = "shared" /\ dev.sent = 2
<1>1. Len(got) = PayloadUnits
  <2>1. Len(got) \in Nat
    BY InSeq, Types DEF IInv, GotType
  <2>2. Len(got) + left = PayloadUnits
    BY DEF IInv, WireOK, GotOK, Awaited, Headers, Payloads
  <2> QED BY <2>1, <2>2, Sizes
<1>2. 1 \in DOMAIN got /\ got[1] \in Unit
  <2>1. got \in Seq(Unit)
    BY Types DEF IInv, GotType
  <2>2. 1 \in 1 .. Len(got)
    BY <1>1, Sizes
  <2> QED BY <2>1, <2>2, InSeq
<1>3. got[1] # Ticket
  BY <1>2, UnitIsNoTicket
<1>4. got[1].p.key = auth.cipher /\ auth.cipher # None
  BY DEF IInv, WireOK, KeysOK
<1>5. auth.cipher = dev.cipher /\ dev.sent = 2
  BY <1>2, <1>3, <1>4 DEF IInv, WireOK, KeysOK, FromDevice, EncryptedBy
<1>6. auth.cipher = KeyOf("ours") /\ dev.cipher = KeyOf("theirs")
  BY <1>4, <1>5 DEF IInv, WireOK, KeysOK
<1> QED BY <1>5, <1>6 DEF KeyOf

LEMMA DecryptIInv ==
  ASSUME IInv, Decrypt
  PROVE  IInv'
<1>1. CASE Fail
  BY <1>1, FailIInv
<1>2. CASE ~Fail
  <2>1. Leave(IF got[1].p.sound THEN "paired" ELSE "ValueError")
    BY <1>2 DEF Decrypt, DecryptAs
  <2>2. codeRight /\ dev.cipher = "shared" /\ dev.sent = 2
    <3>1. pc = "peer_info_payload" /\ left = 0 /\ got[1].p.key = auth.cipher
      BY <1>2 DEF Decrypt, DecryptAs, Received, Opens
    <3> QED BY <3>1, OpenedIsAgreed
  <2>3. /\ auth' \in [cipher : Keys \cup {None}, enc : Nat, dec : Nat]
        /\ auth'.cipher = auth.cipher
    <3>1. auth \in [cipher : Keys \cup {None}, enc : Nat, dec : Nat]
      BY Types DEF IInv
    <3>2. auth' = [auth EXCEPT !.dec = @ + 1]
      BY <1>2 DEF Decrypt, DecryptAs
    <3> QED BY <3>1, <3>2
  <2> QED BY <2>1, <2>2, <2>3, LeaveIInv
<1> QED BY <1>1, <1>2

-----------------------------------------------------------------------------
(* Receiving.  What recv returns goes on where the client is, in the same  *)
(* packet, and what is left goes on where it then is.                      *)

(* The place of the client in the packet it reads from.                    *)
LEMMA ReadingPosition ==
  ASSUME TypeOK, GotOK, Receiving
  PROVE  /\ Position \in Nat /\ Len(got) \in Nat /\ left \in Nat
         /\ Position + left <= PacketUnits
         /\ \A i \in DOMAIN got : got[i].j = Position - Len(got) + i
         /\ got # <<>> => Position > 0
         /\ Position - Len(got) = IF pc \in Headers THEN 0 ELSE HeaderUnits
<1>1. left > 0 /\ left \in Nat /\ Len(got) \in Nat
  BY Types, InSeq, Sizes DEF Receiving, GotType
<1>2. got # <<>> => Len(got) > 0
  BY <1>1, Types, InSeq DEF GotType
<1>3. CASE pc \in Headers
  <2>1. Position = Len(got) /\ Len(got) + left = HeaderUnits
    BY <1>3 DEF Position, GotOK, Awaited
  <2>2. \A i \in DOMAIN got : got[i].j = i
    BY <1>3 DEF GotOK
  <2>3. \A i \in DOMAIN got : i \in Nat
    BY Types, InSeq DEF GotType
  <2>4. Position - Len(got) = 0
    BY <1>1, <2>1
  <2>5. \A i \in DOMAIN got : got[i].j = Position - Len(got) + i
    BY <2>2, <2>3, <2>4
  <2> QED BY <1>1, <1>2, <1>3, <2>1, <2>4, <2>5, Sizes
<1>4. CASE pc \in Payloads
  <2>1. pc \notin Headers
    BY <1>4 DEF Headers, Payloads
  <2>2. Position = HeaderUnits + Len(got) /\ Len(got) + left = PayloadUnits
    BY <1>1, <1>4, <2>1 DEF Position, GotOK, Awaited
  <2>3. \A i \in DOMAIN got : got[i].j = HeaderUnits + i
    BY <1>4 DEF GotOK
  <2>4. Position - Len(got) = HeaderUnits
    BY <1>1, <2>2, Sizes
  <2>5. \A i \in DOMAIN got : got[i].j = Position - Len(got) + i
    BY <2>3, <2>4
  <2> QED BY <1>1, <1>2, <2>1, <2>2, <2>4, <2>5, Sizes
<1> QED BY <1>3, <1>4 DEF Receiving

(* The units recv returns.                                                 *)
LEMMA UnitsInOrder ==
  ASSUME TypeOK, WireOK, Receiving, to_host # <<>>, to_host[1] # Ticket
  PROVE  \A m \in 1 .. Len(to_host) :
           Position + m <= PacketUnits =>
             to_host[m] = [p |-> to_host[1].p, j |-> Position + m]
<1>1. Position \in Nat /\ Position + left <= PacketUnits /\ left \in Nat
  BY ReadingPosition DEF WireOK
<1>2. 1 \in 1 .. Len(to_host) /\ Len(to_host) \in Nat
  BY Types, InSeq
<1>3. to_host[1].j = Position + 1
  BY <1>2 DEF WireOK, NextUnitOK, Receiving, Headers, Payloads
<1> SUFFICES ASSUME NEW m \in 1 .. Len(to_host), Position + m <= PacketUnits
             PROVE  to_host[m] = [p |-> to_host[1].p, j |-> Position + m]
  OBVIOUS
<1> DEFINE k == Position + m
<1>4. k \in 1 .. PacketUnits /\ 1 + k > to_host[1].j /\ 1 + k - to_host[1].j = m
  BY <1>1, <1>2, <1>3, Sizes
<1> HIDE DEF k
<1>5. to_host[1 + k - to_host[1].j] = [p |-> to_host[1].p, j |-> k]
  BY <1>2, <1>4 DEF WireOK, WholePackets
<1> QED BY <1>4, <1>5 DEF k

(* Taking units away from the front leaves the others whole.               *)
LEMMA WholeAfterTaking ==
  ASSUME TypeOK, WholePackets, NEW n \in Nat, n <= Len(to_host),
         to_host' \in Seq(Unit \cup {Ticket}), Len(to_host') = Len(to_host) - n,
         \A i \in 1 .. Len(to_host) - n : to_host'[i] = to_host[n + i]
  PROVE  WholePackets'
<1> SUFFICES ASSUME NEW i \in 1 .. Len(to_host'), NEW k \in 1 .. PacketUnits,
                    to_host'[i] # Ticket, i + k > to_host'[i].j
             PROVE  /\ i + k - to_host'[i].j <= Len(to_host')
                    /\ to_host'[i + k - to_host'[i].j] = [p |-> to_host'[i].p, j |-> k]
  BY DEF WholePackets
<1>1. Len(to_host) \in Nat
  BY Types, InSeq
<1>2. to_host'[i] = to_host[n + i] /\ n + i \in 1 .. Len(to_host)
  BY <1>1
<1>3. to_host'[i] \in Unit
  BY <1>1, InSeq
<1> DEFINE j == to_host'[i].j
<1>4. j \in 1 .. PacketUnits
  BY <1>3, UnitIsNoTicket
<1> HIDE DEF j
<1>5. i + k > j
  BY DEF j
<1>6. n + i + k > j /\ n + i + k - j = n + (i + k - j) /\ i + k - j > 0 /\ i + k - j \in Nat
  BY <1>1, <1>4, <1>5, Sizes
<1>7. /\ n + i + k - j <= Len(to_host)
      /\ to_host[n + i + k - j] = [p |-> to_host[n + i].p, j |-> k]
  BY <1>2, <1>6 DEF WholePackets, j
<1>8. i + k - j \in 1 .. Len(to_host) - n
  BY <1>1, <1>6, <1>7
<1>9. to_host'[i + k - j] = to_host[n + (i + k - j)]
  BY <1>8
<1> QED BY <1>1, <1>2, <1>6, <1>7, <1>8, <1>9 DEF j

(* A packet starts after a ticket and after a whole packet.                *)
LEMMA StartsAfter ==
  ASSUME TypeOK, WholePackets, NEW n \in Nat, n > 0, n < Len(to_host),
         to_host[n] = Ticket \/ to_host[n].j = PacketUnits, to_host[n + 1] # Ticket
  PROVE  to_host[n + 1].j = 1
<1>1. Len(to_host) \in Nat /\ n \in 1 .. Len(to_host) /\ n + 1 \in 1 .. Len(to_host)
  BY Types, InSeq
<1>2. to_host[n + 1] \in Unit
  BY <1>1, Types, InSeq
<1> DEFINE j == to_host[n + 1].j
<1>3. j \in 1 .. PacketUnits
  BY <1>2, UnitIsNoTicket
<1> HIDE DEF j
<1>4. ASSUME j > 1 PROVE FALSE
  <2> DEFINE k == j - 1
  <2>1. k \in 1 .. PacketUnits /\ n + 1 + k > j /\ n + 1 + k - j = n
    BY <1>1, <1>3, <1>4, Sizes
  <2> HIDE DEF k
  <2>2. to_host[n] = [p |-> to_host[n + 1].p, j |-> k]
    BY <1>1, <2>1 DEF WholePackets, j
  <2>3. k # 0 /\ k # PacketUnits
    BY <1>3, <2>1, Sizes DEF k
  <2> QED BY <2>2, <2>3 DEF Ticket
<1>5. j = 1
  BY <1>3, <1>4, Sizes
<1> QED BY <1>5 DEF j

LEMMA RecvIInv ==
  ASSUME IInv, Recv
  PROVE  IInv'
<1>1. PICK n \in 1 .. left :
        /\ n <= Len(to_host) /\ \A i \in 1 .. n : to_host[i] # Ticket
        /\ got' = got \o SubSeq(to_host, 1, n)
        /\ to_host' = SubSeq(to_host, n + 1, Len(to_host))
        /\ left' = left - n
  BY DEF Recv
<1>2. Receiving /\ TypeOK /\ WireOK /\ GotOK /\ WholePackets /\ NextUnitOK /\ KeysOK
  BY DEF Recv, IInv, WireOK
<1>3. UNCHANGED <<pc, sock, ssl, waiting, expired, auth, outcome, caller, codeRight, faults, to_dev,
                  dev>>
  BY DEF Recv, given
<1>4. /\ Position \in Nat /\ Len(got) \in Nat /\ left \in Nat /\ Position + left <= PacketUnits
      /\ got # <<>> => Position > 0
      /\ Position - Len(got) = IF pc \in Headers THEN 0 ELSE HeaderUnits
      /\ \A i \in DOMAIN got : got[i].j = Position - Len(got) + i
  BY <1>2, ReadingPosition
<1>5. /\ n \in Nat /\ n > 0 /\ n <= left /\ n <= Len(to_host) /\ left' = left - n /\ 1 \in 1 .. n /\ left' \in Nat
      /\ left \in 0 .. PacketUnits /\ left' \in 0 .. PacketUnits
  BY <1>1, <1>2, <1>4, Types, Sizes
<1>6. to_host \in Seq(Unit \cup {Ticket}) /\ got \in Seq(Unit) /\ GotType(got)
      /\ Len(to_host) \in Nat /\ to_host # <<>> /\ to_host[1] # Ticket
  BY <1>1, <1>2, <1>5, Types, InSeq DEF GotType
<1>7. \A m \in 1 .. Len(to_host) : Position + m <= PacketUnits =>
        to_host[m] = [p |-> to_host[1].p, j |-> Position + m]
  BY <1>2, <1>6, UnitsInOrder
<1> DEFINE new == SubSeq(to_host, 1, n)
<1>8. /\ new \in Seq(Unit \cup {Ticket}) /\ Len(new) = n /\ \A i \in 1 .. n : new[i] = to_host[i]
      /\ to_host' \in Seq(Unit \cup {Ticket}) /\ Len(to_host') = Len(to_host) - n
      /\ \A i \in 1 .. Len(to_host) - n : to_host'[i] = to_host[n + i]
  BY <1>1, <1>5, <1>6, Parts
<1> HIDE DEF new
<1>9. \A i \in 1 .. n : new[i] = [p |-> to_host[1].p, j |-> Position + i] /\ new[i] \in Unit
  <2> TAKE i \in 1 .. n
  <2>1. i \in 1 .. Len(to_host) /\ Position + i <= PacketUnits
    BY <1>4, <1>5, <1>6, Sizes
  <2>2. to_host[i] \in Unit
    BY <1>1, <1>6, <2>1, InSeq
  <2> QED BY <1>7, <1>8, <2>1, <2>2
<1>10. new \in Seq(Unit)
  BY <1>5, <1>8, <1>9
<1>11. /\ got' \in Seq(Unit) /\ Len(got') = Len(got) + n
       /\ \A i \in 1 .. Len(got) : got'[i] = got[i]
       /\ \A i \in 1 .. n : got'[Len(got) + i] = new[i]
       /\ \A i \in 1 .. Len(got) + n : i > Len(got) => got'[i] = new[i - Len(got)]
       /\ DOMAIN got' = 1 .. Len(got) + n /\ DOMAIN got = 1 .. Len(got)
  <2>1. got' = got \o new
    BY <1>1 DEF new
  <2>2. got \in Seq(Unit) /\ Len(new) = n
    BY <1>6, <1>8
  <2>3. /\ got \o new \in Seq(Unit) /\ Len(got \o new) = Len(got) + n
        /\ \A i \in 1 .. Len(got) : (got \o new)[i] = got[i]
        /\ \A i \in 1 .. n : (got \o new)[Len(got) + i] = new[i]
        /\ \A i \in 1 .. Len(got) + n : i > Len(got) => (got \o new)[i] = new[i - Len(got)]
    <3> HIDE DEF new
    <3>1. /\ got \o new \in Seq(Unit) /\ Len(got \o new) = Len(got) + Len(new)
          /\ \A i \in 1 .. Len(got) : (got \o new)[i] = got[i]
          /\ \A i \in 1 .. Len(new) : (got \o new)[Len(got) + i] = new[i]
          /\ \A i \in 1 .. Len(got) + Len(new) :
               i > Len(got) => (got \o new)[i] = new[i - Len(got)]
      BY <1>10, <2>2, Appended
    <3> QED BY <2>2, <3>1
  <2>4. DOMAIN (got \o new) = 1 .. Len(got \o new) /\ DOMAIN got = 1 .. Len(got)
    BY <2>2, <2>3, InSeq
  <2> QED BY <2>1, <2>3, <2>4
(* every unit that was received continues the numbering of the packet      *)
<1>12. \A i \in DOMAIN got' : got'[i].j = Position - Len(got) + i
  <2> TAKE i \in DOMAIN got'
  <2>1. i \in Nat /\ i \in 1 .. Len(got) + n
    BY <1>4, <1>5, <1>11
  <2>2. CASE i <= Len(got)
    BY <1>4, <1>11, <2>1, <2>2
  <2>3. CASE i > Len(got)
    <3> DEFINE m == i - Len(got)
    <3>1. m \in 1 .. n /\ Position + m = Position - Len(got) + i
      <4>1. Len(got) \in Nat /\ n \in Nat /\ Position \in Nat
        BY <1>4, <1>5
      <4> QED BY <2>1, <2>3, <4>1
    <3>2. got'[i] = new[m]
      BY <1>11, <2>1, <2>3
    <3> HIDE DEF m
    <3>3. got'[i] = [p |-> to_host[1].p, j |-> Position + m]
      BY <1>9, <3>1, <3>2
    <3> QED BY <3>1, <3>3
  <2> QED BY <1>4, <2>1, <2>2, <2>3
<1>13. \A i \in DOMAIN got' : got'[i].p = to_host[1].p
  <2> TAKE i \in DOMAIN got'
  <2>1. i \in Nat /\ i \in 1 .. Len(got) + n
    BY <1>4, <1>5, <1>11
  <2>2. CASE i <= Len(got)
    <3>1. i \in DOMAIN got /\ got # <<>>
      BY <1>4, <1>6, <1>11, <2>1, <2>2, InSeq
    <3>2. to_host[1].p = got[1].p
      BY <1>2, <1>4, <3>1 DEF NextUnitOK, Receiving, Headers, Payloads
    <3>3. got[i].p = got[1].p
      BY <1>6, <3>1 DEF GotType
    <3> QED BY <1>11, <3>1, <3>2, <3>3
  <2>3. CASE i > Len(got)
    <3> DEFINE m == i - Len(got)
    <3>1. m \in 1 .. n
      BY <1>4, <1>5, <2>1, <2>3
    <3>2. got'[i] = new[m]
      BY <1>11, <2>1, <2>3
    <3> HIDE DEF m
    <3>3. got'[i] = [p |-> to_host[1].p, j |-> Position + m]
      BY <1>9, <3>1, <3>2
    <3> QED BY <3>3
  <2> QED BY <1>4, <2>1, <2>2, <2>3
<1>14. GotType(got')
  <2>1. 1 \in DOMAIN got'
    BY <1>4, <1>5, <1>11
  <2>2. got'[1].j = Position - Len(got) + 1 /\ got'[1].p = to_host[1].p
    BY <1>12, <1>13, <2>1
  <2>3. \A i \in DOMAIN got' : i \in Nat
    BY <1>4, <1>5, <1>11
  <2>4. Position - Len(got) \in Nat
    BY <1>4, Sizes
  <2>5. \A i \in DOMAIN got' : got'[i].j = got'[1].j + i - 1
    BY <1>12, <2>2, <2>3, <2>4
  <2> QED BY <1>11, <1>13, <2>2, <2>5 DEF GotType
<1>15. TypeOK'
  BY <1>2, <1>3, <1>5, <1>8, <1>14, Types, TypeFrame DEF TypeOK
<1>16. WholePackets'
  BY <1>2, <1>5, <1>1, <1>8, WholeAfterTaking
<1>17. GotOK'
  <2>1. Len(got) + left = Awaited /\ Awaited' = Awaited
    BY <1>2, <1>3 DEF GotOK, Receiving, Awaited
  <2>2. Len(got') + left' = Awaited'
    BY <1>1, <1>4, <1>5, <1>11, <2>1
  <2>3. pc \in Headers => \A i \in DOMAIN got' : got'[i].j = i
    <3> SUFFICES ASSUME pc \in Headers, NEW i \in DOMAIN got' PROVE got'[i].j = i
      OBVIOUS
    <3>1. Position - Len(got) = 0 /\ i \in Nat
      BY <1>4, <1>5, <1>11
    <3> QED BY <1>12, <3>1
  <2>4. pc \in Payloads => \A i \in DOMAIN got' : got'[i].j = HeaderUnits + i
    <3> SUFFICES ASSUME pc \in Payloads, NEW i \in DOMAIN got' PROVE got'[i].j = HeaderUnits + i
      OBVIOUS
    <3>1. pc \notin Headers
      BY DEF Headers, Payloads
    <3>2. Position - Len(got) = HeaderUnits
      BY <1>4, <3>1
    <3> QED BY <1>12, <3>2
  <2> QED BY <1>3, <2>2, <2>3, <2>4 DEF GotOK
<1>18. /\ left' = 0 /\ pc \in Payloads => Position + n = PacketUnits /\ Position' = 0
       /\ left' > 0 \/ pc \in Headers => Position' = Position + n /\ Position + n < PacketUnits
  <2>1. CASE pc \in Headers
    <3>1. Position' = Len(got') /\ Position = Len(got)
      BY <1>3, <2>1 DEF Position
    <3>2. Len(got) + left = HeaderUnits /\ pc \notin Payloads
      BY <1>2, <2>1 DEF GotOK, Awaited, Headers, Payloads
    <3>3. Position + n < PacketUnits
      BY <1>4, <1>5, <3>1, <3>2, Sizes
    <3> QED BY <1>4, <1>5, <1>11, <2>1, <3>1, <3>2, <3>3
  <2>2. CASE pc \in Payloads
    <3>1. pc \notin Headers
      BY <2>2 DEF Headers, Payloads
    <3>2. Len(got) + left = PayloadUnits
      BY <1>2, <2>2, <3>1 DEF GotOK, Awaited
    <3>3. Position = HeaderUnits + Len(got)
      BY <1>2, <2>2, <3>1 DEF Position, Receiving
    <3>4. Position' = IF left' > 0 THEN HeaderUnits + Len(got') ELSE 0
      BY <1>3, <2>2, <3>1 DEF Position
    <3>5. Len(got') = Len(got) + n
      BY <1>11
    <3>6. left' = 0 => Position + n = PacketUnits
      BY <1>4, <1>5, <3>2, <3>3, Sizes
    <3>7. left' > 0 => Position' = Position + n /\ Position + n < PacketUnits
      BY <1>4, <1>5, <3>2, <3>3, <3>4, <3>5, Sizes
    <3>8. left' = 0 => Position' = 0
      BY <3>4
    <3> QED BY <3>1, <3>6, <3>7, <3>8
  <2> QED BY <1>2, <2>1, <2>2 DEF Receiving
<1>19. NextUnitOK'
  <2>1. CASE left' = 0 /\ pc \in Payloads
    <3>1. Position + n = PacketUnits /\ Position' = 0
      BY <1>18, <2>1
    <3>2. ASSUME to_host' # <<>>, to_host'[1] # Ticket PROVE to_host'[1].j = Position' + 1
      <4>1. Len(to_host') \in Nat \ {0}
        BY <1>8, <3>2, InSeq
      <4>2. n < Len(to_host) /\ 1 \in 1 .. Len(to_host) - n /\ n \in 1 .. Len(to_host)
        BY <1>1, <1>5, <1>6, <1>8, <4>1
      <4>3. to_host'[1] = to_host[n + 1]
        BY <1>8, <4>2
      <4>4. to_host[n].j = PacketUnits
        <5>1. to_host[n] = [p |-> to_host[1].p, j |-> Position + n]
          BY <1>7, <3>1, <4>2, Sizes
        <5> QED BY <3>1, <5>1
      <4>5. to_host[n + 1].j = 1
        BY <1>2, <1>5, <3>2, <4>2, <4>3, <4>4, StartsAfter
      <4> QED BY <3>1, <4>3, <4>5
    <3>3. ~(Position' > 0)
      BY <3>1
    <3> QED BY <3>2, <3>3 DEF NextUnitOK
  <2>2. CASE left' > 0 \/ pc \in Headers
    <3>1. Position' = Position + n /\ Position + n < PacketUnits
      BY <1>18, <2>2
    <3> DEFINE k == Position + n + 1
    <3>2. k \in 1 .. PacketUnits /\ to_host[1].j = Position + 1 /\ 1 + k > to_host[1].j
          /\ 1 + k - to_host[1].j = n + 1 /\ 1 \in 1 .. Len(to_host)
      <4>1. 1 \in 1 .. Len(to_host) /\ Position + 1 <= PacketUnits
        BY <1>1, <1>4, <1>5, <1>6, <3>1, Sizes
      <4>2. to_host[1].j = Position + 1
        <5>1. to_host[1] = [p |-> to_host[1].p, j |-> Position + 1]
          BY <1>7, <4>1
        <5> QED BY <5>1
      <4>3. Position \in Nat /\ n \in Nat /\ PacketUnits \in Nat
        BY <1>4, <1>5, Sizes
      <4>4. k \in 1 .. PacketUnits
        BY <3>1, <4>3
      <4>5. 1 + k > Position + 1 /\ 1 + k - (Position + 1) = n + 1
        BY <1>5, <4>3
      <4> HIDE DEF k
      <4> QED BY <4>1, <4>2, <4>4, <4>5
    <3> HIDE DEF k
    <3>3. n + 1 <= Len(to_host) /\ to_host[n + 1] = [p |-> to_host[1].p, j |-> k]
      BY <1>2, <1>6, <3>2 DEF WholePackets
    <3>4. 1 \in 1 .. Len(to_host) - n /\ Len(to_host') > 0
      BY <1>5, <1>6, <1>8, <3>3
    <3>5. to_host' # <<>> /\ to_host'[1] = [p |-> to_host[1].p, j |-> k]
      BY <1>8, <3>3, <3>4, InSeq
    <3>6. k # 0 /\ k = Position' + 1
      BY <1>4, <1>5, <3>1 DEF k
    <3>7. to_host'[1] # Ticket
      BY <3>5, <3>6 DEF Ticket
    <3>8. to_host'[1].p = got'[1].p
      <4>1. 1 \in DOMAIN got'
        BY <1>4, <1>5, <1>11
      <4> QED BY <1>13, <3>5, <4>1
    <3>9. to_host'[1].j = Position' + 1
      BY <3>5, <3>6
    <3> QED BY <3>5, <3>7, <3>8, <3>9 DEF NextUnitOK
  <2>3. (left' = 0 /\ pc \in Payloads) \/ left' > 0 \/ pc \in Headers
    <3>1. left' = 0 \/ left' > 0
      BY <1>5
    <3> QED BY <1>2, <3>1 DEF Receiving
  <2> QED BY <2>1, <2>2, <2>3
<1>20. KeysOK'
  <2>1. \A u : FromDevice(u)' = FromDevice(u)
    BY <1>3 DEF FromDevice
  <2>2. \A i \in 1 .. Len(to_host) : FromDevice(to_host[i])
    BY <1>2, <1>6, InSeq DEF KeysOK
  <2>3. \A i \in DOMAIN to_host' : FromDevice(to_host'[i])
    <3> TAKE i \in DOMAIN to_host'
    <3>1. i \in 1 .. Len(to_host) - n /\ n + i \in 1 .. Len(to_host)
      BY <1>5, <1>6, <1>8, InSeq
    <3> QED BY <1>8, <2>2, <3>1
  <2>4. \A i \in DOMAIN got' : FromDevice(got'[i])
    <3> TAKE i \in DOMAIN got'
    <3>1. i \in Nat /\ i \in 1 .. Len(got) + n
      BY <1>4, <1>5, <1>11
    <3>2. CASE i <= Len(got)
      <4>1. i \in DOMAIN got /\ got'[i] = got[i]
        BY <1>4, <1>11, <3>1, <3>2
      <4> QED BY <1>2, <4>1 DEF KeysOK
    <3>3. CASE i > Len(got)
      <4>1. i - Len(got) \in 1 .. n /\ i - Len(got) \in 1 .. Len(to_host)
        BY <1>4, <1>5, <1>6, <3>1, <3>3
      <4>2. got'[i] = to_host[i - Len(got)]
        BY <1>8, <1>11, <3>1, <3>3, <4>1
      <4> QED BY <2>2, <4>1, <4>2
    <3> QED BY <1>4, <3>1, <3>2, <3>3
  <2> QED BY <1>2, <1>3, <2>1, <2>3, <2>4 DEF KeysOK, KeyOf
<1>21. SocketsOK' /\ PairedMeansAgreed'
  BY <1>3 DEF IInv, SocketsOK, PairedMeansAgreed
<1> QED BY <1>15, <1>16, <1>17, <1>19, <1>20, <1>21 DEF IInv, WireOK

LEMMA RecvTicketIInv ==
  ASSUME IInv, RecvTicket
  PROVE  IInv'
<1>1. /\ to_host # <<>> /\ Head(to_host) = Ticket /\ to_host' = Tail(to_host)
      /\ waiting' \in BOOLEAN
      /\ UNCHANGED <<pc, sock, ssl, left, got, expired, auth, outcome, caller, codeRight, faults,
                     to_dev, dev>>
  BY DEF RecvTicket, given
<1>2. TypeOK /\ GotOK /\ WholePackets /\ NextUnitOK /\ KeysOK
  BY DEF IInv, WireOK
<1>3. to_host \in Seq(Unit \cup {Ticket})
  BY <1>2, Types
<1>4. Len(to_host) \in Nat /\ Len(to_host) > 0
  BY <1>1, <1>3, InSeq
<1>5. /\ to_host' \in Seq(Unit \cup {Ticket}) /\ Len(to_host') = Len(to_host) - 1
      /\ \A i \in 1 .. Len(to_host) - 1 : to_host'[i] = to_host[1 + i]
      /\ to_host[1] = Ticket
  BY <1>1, <1>3, <1>4
<1>6. TypeOK'
  BY <1>1, <1>2, <1>5, Types, TypeFrame DEF TypeOK
<1>7. GotOK'
  BY <1>1, <1>2 DEF GotOK, Awaited
<1>8. WholePackets'
  BY <1>2, <1>4, <1>5, WholeAfterTaking
<1>9. NextUnitOK'
  <2> SUFFICES ASSUME pc \notin {"finally", "end"} PROVE NextUnitOK'
    BY <1>1 DEF NextUnitOK
  <2>1. ~(Position > 0)
    BY <1>2, <1>5 DEF NextUnitOK
  <2>2. Position' = Position
    BY <1>1 DEF Position
  <2>3. Position = 0
    <3>1. Position \in Nat
      BY <1>2, Types, InSeq, Sizes DEF Position, GotType
    <3> QED BY <2>1, <3>1
  <2>4. ASSUME to_host' # <<>>, to_host'[1] # Ticket PROVE to_host'[1].j = 1
    <3>1. Len(to_host') \in Nat \ {0}
      BY <1>5, <2>4, InSeq
    <3>2. 1 < Len(to_host) /\ 1 \in 1 .. Len(to_host) - 1
      BY <1>4, <1>5, <3>1
    <3>3. to_host'[1] = to_host[1 + 1]
      BY <1>5, <3>2
    <3> QED BY <1>2, <1>5, <2>4, <3>2, <3>3, StartsAfter
  <2>5. Position' + 1 = 1 /\ ~(Position' > 0)
    BY <2>2, <2>3
  <2> QED BY <2>4, <2>5 DEF NextUnitOK
<1>10. KeysOK'
  <2>1. \A u : FromDevice(u)' = FromDevice(u)
    BY <1>1 DEF FromDevice
  <2>2. \A i \in DOMAIN to_host' : FromDevice(to_host'[i])
    <3> TAKE i \in DOMAIN to_host'
    <3>1. i \in 1 .. Len(to_host) - 1 /\ 1 + i \in DOMAIN to_host
      BY <1>3, <1>4, <1>5, InSeq
    <3> QED BY <1>2, <1>5, <3>1 DEF KeysOK
  <2> QED BY <1>1, <1>2, <2>1, <2>2 DEF KeysOK, KeyOf
<1>11. SocketsOK' /\ PairedMeansAgreed'
  BY <1>1 DEF IInv, SocketsOK, PairedMeansAgreed
<1> QED BY <1>6, <1>7, <1>8, <1>9, <1>10, <1>11 DEF IInv, WireOK

-----------------------------------------------------------------------------
(* The steps of the device.                                                *)

(* What the device sends comes after what it has sent, and starts anew.    *)
LEMMA WireAfterSending ==
  ASSUME TypeOK, GotOK, WholePackets, NextUnitOK, NEW new \in Seq(Unit \cup {Ticket}),
         to_host' = to_host \o new, UNCHANGED <<pc, left, got>>,
         \/ new = <<Ticket>>
         \/ /\ Len(new) = PacketUnits
            /\ \E q \in Packet : \A i \in 1 .. PacketUnits : new[i] = [p |-> q, j |-> i]
  PROVE  GotOK' /\ WholePackets' /\ NextUnitOK' /\ to_host' \in Seq(Unit \cup {Ticket})
<1>1. to_host \in Seq(Unit \cup {Ticket}) /\ Len(to_host) \in Nat
  BY Types, InSeq
<1>2. /\ to_host' \in Seq(Unit \cup {Ticket}) /\ Len(to_host') = Len(to_host) + Len(new)
      /\ \A i \in 1 .. Len(to_host) : to_host'[i] = to_host[i]
      /\ \A i \in 1 .. Len(new) : to_host'[Len(to_host) + i] = new[i]
      /\ Len(new) \in Nat
  BY <1>1, Appended, InSeq
<1>3. GotOK'
  BY DEF GotOK, Awaited
<1>4. WholePackets'
  <2> SUFFICES ASSUME NEW i \in 1 .. Len(to_host'), NEW k \in 1 .. PacketUnits,
                      to_host'[i] # Ticket, i + k > to_host'[i].j
               PROVE  /\ i + k - to_host'[i].j <= Len(to_host')
                      /\ to_host'[i + k - to_host'[i].j] = [p |-> to_host'[i].p, j |-> k]
    BY DEF WholePackets
  <2>1. CASE i <= Len(to_host)
    <3>1. i \in 1 .. Len(to_host) /\ to_host'[i] = to_host[i]
      BY <1>1, <1>2, <2>1
    <3>2. to_host[i] \in Unit
      BY <1>1, <3>1, InSeq
    <3> DEFINE m == i + k - to_host[i].j
    <3>3. to_host[i].j \in 1 .. PacketUnits
      BY <3>2, UnitIsNoTicket
    <3>4. m <= Len(to_host) /\ to_host[m] = [p |-> to_host[i].p, j |-> k]
      BY <3>1 DEF WholePackets
    <3>5. m \in Nat /\ m > 0
      BY <1>2, <3>1, <3>3, Sizes
    <3> HIDE DEF m
    <3>6. m \in 1 .. Len(to_host) /\ m <= Len(to_host')
      BY <1>1, <1>2, <3>4, <3>5
    <3>7. to_host'[m] = to_host[m]
      BY <1>2, <3>6
    <3> QED BY <3>1, <3>4, <3>6, <3>7 DEF m
  <2>2. CASE i > Len(to_host)
    <3> DEFINE n == i - Len(to_host)
    <3>1. n \in 1 .. Len(new) /\ i = Len(to_host) + n
      BY <1>1, <1>2, <2>2
    <3> HIDE DEF n
    <3>2. to_host'[i] = new[n]
      BY <1>2, <3>1
    <3>3. new # <<Ticket>>
      <4> SUFFICES ASSUME new = <<Ticket>> PROVE FALSE
        OBVIOUS
      <4>1. Len(new) = 1 /\ new[1] = Ticket
        OBVIOUS
      <4>2. n = 1
        BY <3>1, <4>1
      <4> QED BY <3>2, <4>1, <4>2
    <3>4. PICK q \in Packet : \A l \in 1 .. PacketUnits : new[l] = [p |-> q, j |-> l]
      BY <3>3
    <3>5. Len(new) = PacketUnits
      BY <3>3
    <3>6. to_host'[i] = [p |-> q, j |-> n]
      BY <3>1, <3>2, <3>4, <3>5
    <3>7. to_host'[i].p = q /\ to_host'[i].j = n
      BY <3>6
    <3>8. i + k - n = Len(to_host) + k /\ Len(to_host) + k <= Len(to_host')
      BY <1>1, <1>2, <3>1, <3>5, Sizes
    <3>9. to_host'[Len(to_host) + k] = [p |-> q, j |-> k]
      BY <1>2, <3>4, <3>5
    <3> QED BY <3>7, <3>8, <3>9
  <2>3. i <= Len(to_host) \/ i > Len(to_host)
    BY <1>1, <1>2
  <2> QED BY <2>1, <2>2, <2>3
<1>5. NextUnitOK'
  <2>1. Position' = Position
    BY DEF Position
  <2>2. CASE to_host = <<>>
    <3>1. Len(to_host) = 0
      BY <2>2
    <3>2. pc \notin {"finally", "end"} => ~(Position > 0)
      BY <2>2 DEF NextUnitOK
    <3>3. Position \in Nat
      BY Types, InSeq, Sizes DEF Position, GotType
    <3>4. CASE new = <<Ticket>>
      <4>1. Len(new) = 1 /\ new[1] = Ticket
        BY <3>4
      <4>2. to_host'[1] = Ticket
        BY <1>2, <3>1, <4>1
      <4> QED BY <2>1, <3>2, <4>2 DEF NextUnitOK
    <3>5. CASE new # <<Ticket>>
      <4>1. PICK q \in Packet : \A l \in 1 .. PacketUnits : new[l] = [p |-> q, j |-> l]
        BY <3>5
      <4>2. Len(new) = PacketUnits /\ 1 \in 1 .. PacketUnits
        BY <3>5, Sizes
      <4>3. to_host'[1] = new[1] /\ new[1] = [p |-> q, j |-> 1]
        BY <1>2, <3>1, <4>1, <4>2
      <4>4. to_host'[1].j = 1
        BY <4>3
      <4>5. pc \notin {"finally", "end"} => Position' + 1 = 1 /\ ~(Position' > 0)
        BY <2>1, <3>2, <3>3
      <4> QED BY <4>4, <4>5 DEF NextUnitOK
    <3> QED BY <3>4, <3>5
  <2>3. CASE to_host # <<>>
    <3>1. 1 \in 1 .. Len(to_host) /\ Len(to_host') # 0
      BY <1>1, <1>2, <2>3, InSeq
    <3>2. to_host'[1] = to_host[1] /\ to_host' # <<>>
      BY <1>2, <3>1, InSeq
    <3> QED BY <2>1, <2>3, <3>2 DEF NextUnitOK
  <2> QED BY <2>2, <2>3
<1> QED BY <1>2, <1>3, <1>4, <1>5

LEMMA DevTicketIInv ==
  ASSUME IInv, DevTicket
  PROVE  IInv'
<1>1. /\ dev.tickets < MaxTickets /\ to_host' = Append(to_host, Ticket)
      /\ dev' = [dev EXCEPT !.tickets = @ + 1]
      /\ UNCHANGED <<pc, sock, ssl, left, got, waiting, expired, auth, outcome, caller, codeRight,
                     faults, to_dev>>
  BY DEF DevTicket, client, io, given
<1>2. TypeOK /\ GotOK /\ WholePackets /\ NextUnitOK /\ KeysOK
  BY DEF IInv, WireOK
<1>3. to_host \in Seq(Unit \cup {Ticket}) /\ dev \in StateOf
  BY <1>2, Types
<1>4. <<Ticket>> \in Seq(Unit \cup {Ticket}) /\ to_host' = to_host \o <<Ticket>>
  BY <1>1, <1>3
<1>5. GotOK' /\ WholePackets' /\ NextUnitOK' /\ to_host' \in Seq(Unit \cup {Ticket})
  BY <1>1, <1>2, <1>4, WireAfterSending
<1>6. dev' \in StateOf /\ dev'.cipher = dev.cipher /\ dev'.sent = dev.sent
  <2>1. dev.tickets \in 0 .. MaxTickets
    BY <1>3 DEF StateOf
  <2>2. dev.tickets + 1 \in 0 .. MaxTickets
    BY <1>1, <2>1, PairingAssumption
  <2> QED BY <1>1, <1>3, <2>2 DEF StateOf
<1>7. TypeOK'
  BY <1>1, <1>2, <1>5, <1>6, Types, TypeFrame DEF TypeOK
<1>8. KeysOK'
  <2>1. \A u : FromDevice(u)' = FromDevice(u)
    BY <1>6 DEF FromDevice, EncryptedBy
  <2>2. \A i \in DOMAIN to_host' : \/ i \in DOMAIN to_host /\ to_host'[i] = to_host[i]
                                   \/ to_host'[i] = Ticket
    BY <1>1, <1>3
  <2>3. \A i \in DOMAIN to_host' : FromDevice(to_host'[i])
    BY <1>2, <2>2 DEF KeysOK, FromDevice, EncryptedBy
  <2> QED BY <1>1, <1>2, <1>6, <2>1, <2>3 DEF KeysOK, KeyOf
<1>9. SocketsOK' /\ PairedMeansAgreed'
  BY <1>1, <1>6 DEF IInv, SocketsOK, PairedMeansAgreed
<1> QED BY <1>5, <1>7, <1>8, <1>9 DEF IInv, WireOK

(* A packet of the device, as it was made or with a fault.                 *)
LEMMA DevSendsIInv ==
  ASSUME IInv, NEW p \in Packet, dev.sent \in {0, 1},
         p.key # None => p.key = dev.cipher /\ dev.sent = 1,
         DevSends(p)
  PROVE  IInv'
<1>1. PICK q \in Oddities(p) :
        /\ to_host' = to_host \o UnitsOf(q, 1)
        /\ dev' = [dev EXCEPT !.sent = @ + 1]
        /\ UNCHANGED <<pc, sock, ssl, left, got, waiting, expired, auth, outcome, caller, codeRight,
                       faults, to_dev>>
  BY DEF DevSends, client, io, given
<1>2. q \in Packet /\ q.key = p.key
  <2>1. \/ q = p \/ q = [p EXCEPT !.version = 2] \/ q = [p EXCEPT !.sound = FALSE]
        \/ \E t \in {"spake2", "peer_info", "other"} : q = [p EXCEPT !.type = t]
        \/ \E z \in {"zero", "huge"} : q = [p EXCEPT !.size = z]
    BY DEF Oddities
  <2> QED BY <2>1 DEF Packet
<1>3. TypeOK /\ GotOK /\ WholePackets /\ NextUnitOK /\ KeysOK
  BY DEF IInv, WireOK
<1> DEFINE new == UnitsOf(q, 1)
<1>4. /\ new \in Seq(Unit) /\ Len(new) = PacketUnits
      /\ \A i \in 1 .. PacketUnits : new[i] = [p |-> q, j |-> i]
  <2>1. 1 \in 1 .. PacketUnits /\ PacketUnits + 1 - 1 = PacketUnits
    BY Sizes
  <2>2. /\ new \in Seq(Unit) /\ Len(new) = PacketUnits + 1 - 1
        /\ \A i \in 1 .. PacketUnits + 1 - 1 : new[i] = [p |-> q, j |-> 1 + i - 1]
    BY <1>2, <2>1, UnitsOfPacket
  <2>3. \A i \in 1 .. PacketUnits : 1 + i - 1 = i
    BY Sizes
  <2> HIDE DEF new
  <2> QED BY <2>1, <2>2, <2>3
<1> HIDE DEF new
<1>5. new \in Seq(Unit \cup {Ticket}) /\ to_host' = to_host \o new
  BY <1>1, <1>4 DEF new
<1>6. GotOK' /\ WholePackets' /\ NextUnitOK' /\ to_host' \in Seq(Unit \cup {Ticket})
  BY <1>1, <1>2, <1>3, <1>4, <1>5, WireAfterSending
<1>7. dev' \in StateOf /\ dev'.cipher = dev.cipher /\ dev'.sent = dev.sent + 1
  <2>1. dev \in StateOf
    BY <1>3, Types
  <2>2. dev.sent + 1 \in 0 .. 2
    OBVIOUS
  <2> QED BY <1>1, <2>1, <2>2 DEF StateOf
<1>8. TypeOK'
  BY <1>1, <1>3, <1>6, <1>7, Types, TypeFrame DEF TypeOK
<1>9. KeysOK'
  <2>1. \A u : FromDevice(u) => EncryptedBy(u, dev')
    BY <1>7 DEF FromDevice, EncryptedBy
  <2>2. \A i \in 1 .. PacketUnits : EncryptedBy(new[i], dev')
    <3> TAKE i \in 1 .. PacketUnits
    <3>1. new[i].p = q
      BY <1>4
    <3>2. q.key # None => q.key = dev'.cipher /\ dev'.sent = 2
      BY <1>2, <1>7
    <3> QED BY <3>1, <3>2 DEF EncryptedBy
  <2>3. \A i \in DOMAIN to_host' : EncryptedBy(to_host'[i], dev')
    <3> TAKE i \in DOMAIN to_host'
    <3>1. to_host \in Seq(Unit \cup {Ticket}) /\ DOMAIN to_host = 1 .. Len(to_host)
          /\ Len(to_host) \in Nat
      BY <1>3, Types, InSeq
    <3>2. /\ i \in 1 .. Len(to_host) + PacketUnits
          /\ i <= Len(to_host) => to_host'[i] = to_host[i]
          /\ i > Len(to_host) => to_host'[i] = new[i - Len(to_host)]
      BY <1>4, <1>5, <1>6, <3>1, Appended, InSeq
    <3>3. CASE i <= Len(to_host)
      <4>1. i \in DOMAIN to_host
        BY <3>1, <3>2, <3>3, Sizes
      <4> QED BY <1>3, <2>1, <3>2, <3>3, <4>1 DEF KeysOK
    <3>4. CASE i > Len(to_host)
      <4>1. i - Len(to_host) \in 1 .. PacketUnits
        BY <3>1, <3>2, <3>4, Sizes
      <4> QED BY <2>2, <3>2, <3>4, <4>1
    <3>5. i <= Len(to_host) \/ i > Len(to_host)
      BY <3>1, <3>2, Sizes
    <3> QED BY <3>3, <3>4, <3>5
  <2>4. \A i \in DOMAIN got' : EncryptedBy(got'[i], dev')
    BY <1>1, <1>3, <2>1 DEF KeysOK
  <2> QED BY <1>1, <1>3, <1>7, <2>3, <2>4 DEF KeysOK, KeyOf, FromDevice
<1>10. SocketsOK' /\ PairedMeansAgreed'
  BY <1>1, <1>7 DEF IInv, SocketsOK, PairedMeansAgreed
<1> QED BY <1>6, <1>8, <1>9, <1>10 DEF IInv, WireOK

LEMMA DevSendIInv ==
  ASSUME IInv, DevSend
  PROVE  IInv'
<1>1. CASE dev.sent = 0 /\ DevSends(Spake2(TRUE))
  <2>1. Spake2(TRUE) \in Packet /\ Spake2(TRUE).key = None
    BY DEF Spake2, Packet
  <2> QED BY <1>1, <2>1, DevSendsIInv
<1>2. CASE dev.sent = 1 /\ DevSends(PeerInfo(TRUE, dev.cipher, 0))
  <2>1. dev.cipher \in Keys \cup {None}
    BY Types DEF IInv, StateOf
  <2>2. PeerInfo(TRUE, dev.cipher, 0) \in Packet /\ PeerInfo(TRUE, dev.cipher, 0).key = dev.cipher
    BY <2>1 DEF PeerInfo, Packet
  <2> QED BY <1>2, <2>2, DevSendsIInv
<1> QED BY <1>1, <1>2 DEF DevSend

LEMMA DevReceiveIInv ==
  ASSUME IInv, DevReceive
  PROVE  IInv'
<1>1. /\ Len(to_dev) >= PacketUnits /\ to_dev' = SubSeq(to_dev, PacketUnits + 1, Len(to_dev))
      /\ \/ dev' = [dev EXCEPT !.cipher = KeyOf("theirs")]
         \/ dev' = [dev EXCEPT !.paired = TRUE]
         \/ dev' = [dev EXCEPT !.closed = TRUE]
      /\ UNCHANGED <<pc, sock, ssl, left, got, waiting, expired, auth, outcome, caller, codeRight,
                     faults, to_host>>
  BY DEF DevReceive, client, io, given
<1>2. TypeOK /\ GotOK /\ WholePackets /\ NextUnitOK /\ KeysOK
  BY DEF IInv, WireOK
<1>3. KeyOf("theirs") \in Keys /\ KeyOf("theirs") # None
  BY PairingAssumption DEF KeyOf, Keys
<1>4. /\ dev' \in StateOf /\ dev'.sent = dev.sent
      /\ dev'.cipher = dev.cipher \/ dev'.cipher = KeyOf("theirs")
  <2>1. dev \in StateOf
    BY <1>2, Types
  <2> QED BY <1>1, <1>3, <2>1 DEF StateOf
<1>5. to_dev' \in Seq(Unit)
  <2>1. to_dev \in Seq(Unit) /\ Len(to_dev) \in Nat
    BY <1>2, Types, InSeq
  <2> QED BY <1>1, <2>1, Sizes, Parts
<1>6. TypeOK'
  BY <1>1, <1>2, <1>4, <1>5, Types, TypeFrame DEF TypeOK
<1>7. GotOK' /\ WholePackets' /\ NextUnitOK'
  BY <1>1, <1>2 DEF GotOK, WholePackets, NextUnitOK, Position, Awaited
<1>8. dev.cipher # None => dev'.cipher = dev.cipher
  BY <1>2, <1>4 DEF KeysOK
<1>9. KeysOK'
  <2>1. \A u : FromDevice(u) => FromDevice(u)'
    BY <1>4, <1>8 DEF FromDevice, EncryptedBy
  <2>2. dev'.cipher \in {None, KeyOf("theirs")} /\ UNCHANGED codeRight
    BY <1>1, <1>2, <1>4 DEF KeysOK
  <2> QED BY <1>1, <1>2, <2>1, <2>2 DEF KeysOK, KeyOf
<1>10. SocketsOK' /\ PairedMeansAgreed'
  <2>1. "shared" # None
    BY PairingAssumption
  <2> QED BY <1>1, <1>4, <1>8, <2>1 DEF IInv, SocketsOK, PairedMeansAgreed
<1> QED BY <1>6, <1>7, <1>9, <1>10 DEF IInv, WireOK

-----------------------------------------------------------------------------
(* The theorems.                                                           *)

LEMMA NextIInv == IInv /\ [Next]_vars => IInv'
<1> SUFFICES ASSUME IInv, [Next]_vars PROVE IInv'
  OBVIOUS
<1>1. CASE RunInExecutor \/ CancelCaller \/ Answer \/ Ended \/ UNCHANGED vars
  BY <1>1, CallerIInv DEF Ended
<1>2. CASE Connect \/ Handshake \/ Finally
  BY <1>2, ConnectIInv
<1>3. CASE Export
  BY <1>3, ExportIInv
<1>4. CASE Send
  BY <1>4, SendIInv
<1>5. CASE Recv
  BY <1>5, RecvIInv
<1>6. CASE RecvTicket
  BY <1>6, RecvTicketIInv
<1>7. CASE SelectReady \/ Expire \/ DevTls \/ DevClose
  BY <1>7, WaitIInv
<1>8. CASE SelectTimeout \/ RecvClosed
  BY <1>8, FailIInv DEF SelectTimeout, RecvClosed
<1>9. CASE \/ ReadHeader("spake2_header", "spake2", "spake2_payload")
           \/ ReadHeader("peer_info_header", "peer_info", "peer_info_payload")
  BY <1>9, ReadHeaderIInv
<1>10. CASE InitCipher
  BY <1>10, InitCipherIInv
<1>11. CASE Encrypt
  BY <1>11, EncryptIInv
<1>12. CASE Decrypt
  BY <1>12, DecryptIInv
<1>13. CASE DevTicket
  BY <1>13, DevTicketIInv
<1>14. CASE DevSend
  BY <1>14, DevSendIInv
<1>15. CASE DevReceive
  BY <1>15, DevReceiveIInv
<1> QED BY <1>1, <1>2, <1>3, <1>4, <1>5, <1>6, <1>7, <1>8, <1>9, <1>10, <1>11, <1>12, <1>13,
           <1>14, <1>15 DEF Next, Client, Device

(* The state of the two programs and of the wires is as it should be, and  *)
(* when pair has ended its SSL connection and its socket are closed.       *)
THEOREM SocketsClosed == Spec => []NothingLeftOpen
<1>1. IInv => NothingLeftOpen
  BY DEF IInv, SocketsOK, NothingLeftOpen
<1> QED BY <1>1, InitIInv, NextIInv, PTL DEF Spec

(* A pairing that succeeds was made with the device's code, and what was   *)
(* decrypted is the peer info the device encrypted with the shared key,    *)
(* whatever the sizes of the packets, however recv cuts them up and        *)
(* whatever goes wrong on the way.                                         *)
THEOREM PairedIsAgreed == Spec => []PairedMeansAgreed
<1>1. IInv => PairedMeansAgreed
  BY DEF IInv
<1> QED BY <1>1, InitIInv, NextIInv, PTL DEF Spec
=============================================================================
