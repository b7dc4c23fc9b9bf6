-------------------------- MODULE PacketReaderProofs --------------------------
(***************************************************************************)
(* Proofs about PacketReader, for any header, packets and calls: a reader  *)
(* that is in step stays so whatever it is given at a time, and one that   *)
(* is not never mixes packets.                                             *)
(***************************************************************************)
EXTENDS PacketReader, SequenceTheorems, TLAPS

Packet == [size : Sizes, sound : BOOLEAN]

Total(s, p) == HeaderSize + s[p].size

UnitsIn(s, p) == [j \in 1 .. Total(s, p) |-> <<p, j>>]

(* The k-th unit of w stands in its packet of s, the rest of which is next *)
(* to it as far as w begins early enough, and which the next one follows.  *)
StandsAt(w, s, k) ==
  LET p == w[k][1]
      j == w[k][2]
  IN  /\ p \in 1 .. Len(s) /\ j \in 1 .. Total(s, p)
      /\ k - j + Total(s, p) <= Len(w)
      /\ \A m \in 1 .. Total(s, p) : k - j + m >= 1 => w[k - j + m] = <<p, m>>
      /\ k < Len(w) /\ j = Total(s, p) => w[k + 1] = <<p + 1, 1>>
      /\ k = Len(w) => p = Len(s)

(* Units of one packet have the same distance from its beginning.          *)
Apart(w, k, l) ==
  /\ w[k][1] <= w[l][1]
  /\ w[k][1] = w[l][1] => k - w[k][2] = l - w[l][2]

(* w is the end of what was sent.                                          *)
Whole(w, s) ==
  /\ \A k \in 1 .. Len(w) : StandsAt(w, s, k)
  /\ \A k, l \in 1 .. Len(w) : k < l => Apart(w, k, l)

-----------------------------------------------------------------------------
(* The invariant.                                                          *)

Line == InHand \o wire

taken == Len(returned) + rejected

(* Where the reader is in a packet.                                        *)
ReadingOK ==
  /\ step = "idle" => part = "header" /\ header = <<>> /\ buf = <<>> /\ length = 0
  /\ part = "header" => header = <<>>
  /\ part = "data" => /\ Len(header) = HeaderSize /\ ~UnknownCommand(header[1])
                      /\ Len(buf) + length \in DataSize(header[1])

SentOK == \A p \in 1 .. Len(sent) : sent[p].size = 0 => sent[p].sound

(* The packets of r are packets of s before those of w, in order.          *)
HandedOut(r, w, s) ==
  \A i \in 1 .. Len(r) : \E p \in 1 .. Len(s) :
    r[i] = UnitsIn(s, p) /\ \A k \in 1 .. Len(w) : p < w[k][1]

Increasing(r) == \A i, j \in 1 .. Len(r) : i < j => r[i][1][1] < r[j][1][1]

(* The packets of r are the sound ones of the first n of s, and w begins   *)
(* after these.                                                            *)
Counted(r, n, w, s) ==
  /\ n <= Len(s)
  /\ IF w = <<>> THEN n = Len(s) ELSE w[1] = <<n + 1, 1>>
  /\ {r[i] : i \in 1 .. Len(r)} = {UnitsIn(s, p) : p \in {q \in 1 .. n : s[q].sound}}

RInv ==
  /\ TypeOK /\ ReadingOK /\ SentOK
  /\ Whole(Line, sent)
  /\ ~broken \/ ~lookalikes => HandedOut(returned, Line, sent) /\ Increasing(returned)
  /\ ~broken => Counted(returned, taken, Line, sent)

-----------------------------------------------------------------------------
(* Sequences of units.                                                     *)

(* Unit and Total are what they should be.                                 *)
LEMMA UnitParts ==
  ASSUME NEW u \in Unit
  PROVE  u = <<u[1], u[2]>> /\ u[1] \in 1 .. MaxPackets /\ u[2] \in Nat
  BY DEF Unit

LEMMA TotalIs ==
  ASSUME NEW s \in Seq(Packet), NEW p \in 1 .. Len(s)
  PROVE  s[p] \in Packet /\ s[p].size \in Nat /\ Total(s, p) \in Nat
         /\ Total(s, p) = HeaderSize + s[p].size /\ Total(s, p) >= HeaderSize
         /\ HeaderSize \in Nat /\ HeaderSize >= 1
  <1>1. s[p] \in Packet
    BY ElementOfSeq
  <1>2. s[p].size \in Nat
    BY <1>1, ReaderAssumption DEF Packet
  <1> QED  BY <1>1, <1>2, ReaderAssumption DEF Total

(* v is w without its first n units.                                       *)
Rest(v, w, n) == Len(w) = Len(v) + n /\ \A i \in 1 .. Len(v) : v[i] = w[i + n]

(* v is w and after it a packet i of q units.                              *)
Longer(v, w, i, q) ==
  /\ Len(v) = Len(w) + q
  /\ \A k \in 1 .. Len(w) : v[k] = w[k]
  /\ \A j \in 1 .. q : v[Len(w) + j] = <<i, j>>

(* The end of what is the end of what was sent is one.                     *)
LEMMA DropWhole ==
  ASSUME NEW s \in Seq(Packet), NEW w \in Seq(Unit), NEW v \in Seq(Unit), NEW n \in Nat,
         Rest(v, w, n), Whole(w, s)
  PROVE  Whole(v, s)
  <1>0. Len(w) \in Nat /\ Len(v) \in Nat /\ Len(w) = Len(v) + n
    BY DEF Rest
  <1>r. ASSUME NEW i \in 1 .. Len(v)
        PROVE  v[i] = w[i + n]
    BY DEF Rest
  <1>1. ASSUME NEW k \in 1 .. Len(v)
        PROVE  StandsAt(v, s, k)
    <2> DEFINE p == v[k][1]
               j == v[k][2]
    <2>1. k \in Int /\ k + n \in 1 .. Len(w) /\ v[k] = w[k + n] /\ v[k] \in Unit
      BY <1>0, <1>r, ElementOfSeq
    <2>2. StandsAt(w, s, k + n)
      BY <2>1 DEF Whole
    <2>3. p \in 1 .. Len(s) /\ j \in 1 .. Total(s, p) /\ j \in Nat /\ (k + n) - j + Total(s, p) <= Len(w)
      BY <2>1, <2>2, UnitParts DEF StandsAt
    <2>4. Total(s, p) \in Nat
      BY <2>3, TotalIs
    <2>a. w[k + n][1] = p /\ w[k + n][2] = j /\ v[k][1] = p /\ v[k][2] = j
      BY <2>1
    <2> HIDE DEF p, j
    <2>5. ASSUME NEW m \in 1 .. Total(s, p), k - j + m >= 1
          PROVE  v[k - j + m] = <<p, m>>
      <3>1. m \in Nat /\ (k + n) - j + m >= 1 /\ (k - j + m) + n = (k + n) - j + m
        BY <2>1, <2>3, <2>4, <2>5
      <3>2. w[(k + n) - j + m] = <<p, m>>
        BY <3>1, <2>a, <2>2 DEF StandsAt
      <3>3. k - j + m \in 1 .. Len(v)
        <4>1. m <= Total(s, p)
          BY <2>4
        <4>2. (k + n) - j + m <= Len(w)
          <5>1. (k + n) - j \in Int /\ m \in Int /\ Total(s, p) \in Int /\ Len(w) \in Int
            BY <3>1, <2>1, <2>3, <2>4, <1>0
          <5>2. \A d, a, b, c \in Int : a <= b /\ d + b <= c => d + a <= c
            OBVIOUS
          <5> QED  BY <5>1, <5>2, <4>1, <2>3
        <4>3. k - j + m <= Len(v) /\ k - j + m \in Int
          BY <4>2, <3>1, <2>1, <2>3, <1>0
        <4> QED  BY <4>3, <2>5, <1>0
      <3> QED  BY <3>1, <3>2, <3>3, <1>r
    <2>6. k < Len(v) /\ j = Total(s, p) => v[k + 1] = <<p + 1, 1>>
      <3> HAVE k < Len(v) /\ j = Total(s, p)
      <3>1. k + n < Len(w) /\ k + 1 \in 1 .. Len(v) /\ (k + 1) + n = (k + n) + 1
        BY <2>1, <1>0
      <3>2. w[(k + n) + 1] = <<p + 1, 1>>
        BY <3>1, <2>a, <2>2 DEF StandsAt
      <3> QED  BY <3>1, <3>2, <1>r
    <2>7. k = Len(v) => p = Len(s)
      BY <2>1, <2>a, <2>2, <1>0 DEF StandsAt
    <2>8. k - j + Total(s, p) <= Len(v)
      BY <2>1, <2>3, <2>4, <1>0
    <2> QED  BY <2>3, <2>a, <2>5, <2>6, <2>7, <2>8 DEF StandsAt
  <1>2. ASSUME NEW k \in 1 .. Len(v), NEW l \in 1 .. Len(v), k < l
        PROVE  Apart(v, k, l)
    <2>1. k \in Int /\ l \in Int /\ k + n \in 1 .. Len(w) /\ l + n \in 1 .. Len(w) /\ k + n < l + n
          /\ v[k] = w[k + n] /\ v[l] = w[l + n] /\ v[k] \in Unit /\ v[l] \in Unit
      BY <1>0, <1>2, <1>r, ElementOfSeq
    <2>2. Apart(w, k + n, l + n)
      BY <2>1 DEF Whole
    <2>3. v[k][2] \in Nat /\ v[l][2] \in Nat
      BY <2>1, UnitParts
    <2>4. \A a, b \in Nat : (k + n) - a = (l + n) - b => k - a = l - b
      <3> SUFFICES ASSUME NEW a \in Nat, NEW b \in Nat, (k + n) - a = (l + n) - b
                   PROVE  k - a = l - b
        OBVIOUS
      <3>1. k \in Int /\ l \in Int
        BY <2>1
      <3> QED  BY <3>1
    <2>5. w[k + n][1] <= w[l + n][1]
          /\ (w[k + n][1] = w[l + n][1] => (k + n) - w[k + n][2] = (l + n) - w[l + n][2])
      BY <2>2 DEF Apart
    <2> QED  BY <2>1, <2>3, <2>4, <2>5 DEF Apart
  <1> QED  BY <1>1, <1>2 DEF Whole

(* A reader at the beginning of a packet has it before it, and after it    *)
(* the next ones.                                                          *)
LEMMA FirstPacket ==
  ASSUME NEW s \in Seq(Packet), NEW w \in Seq(Unit), Whole(w, s),
         w # <<>>, NEW p, w[1] = <<p, 1>>
  PROVE  /\ p \in 1 .. Len(s) /\ Total(s, p) <= Len(w)
         /\ \A m \in 1 .. Total(s, p) : w[m] = <<p, m>>
         /\ \A k \in Total(s, p) + 1 .. Len(w) : p < w[k][1]
         /\ IF Len(w) = Total(s, p) THEN p = Len(s) ELSE w[Total(s, p) + 1] = <<p + 1, 1>>
  <1>1. Len(w) \in Nat /\ Len(w) >= 1 /\ 1 \in 1 .. Len(w)
    BY EmptySeq
  <1>2. StandsAt(w, s, 1) /\ w[1][1] = p /\ w[1][2] = 1
    BY <1>1 DEF Whole
  <1>3. p \in 1 .. Len(s) /\ 1 - 1 + Total(s, p) <= Len(w)
    BY <1>2 DEF StandsAt
  <1>4. Total(s, p) \in Nat /\ Total(s, p) >= 1
    BY <1>3, TotalIs
  <1>5. ASSUME NEW m \in 1 .. Total(s, p)
        PROVE  w[m] = <<p, m>>
    <2>1. 1 - 1 + m = m /\ 1 - 1 + m >= 1
      BY <1>4
    <2>2. w[1 - 1 + m] = <<p, m>>
      BY <1>2, <2>1 DEF StandsAt
    <2> QED  BY <2>1, <2>2
  <1>6. ASSUME NEW k \in Total(s, p) + 1 .. Len(w)
        PROVE  p < w[k][1]
    <2>1. k \in 1 .. Len(w) /\ 1 < k /\ w[k] \in Unit /\ k > Total(s, p)
      BY <1>1, <1>4, ElementOfSeq
    <2>2. Apart(w, 1, k) /\ StandsAt(w, s, k)
      BY <1>1, <2>1 DEF Whole
    <2>3. w[k][1] \in Nat /\ w[k][2] \in Nat
      BY <2>1, UnitParts
    <2>4. p <= w[k][1] /\ (p = w[k][1] => 0 = k - w[k][2])
      BY <2>2, <1>2 DEF Apart
    <2>5. w[k][2] <= Total(s, w[k][1])
      BY <2>2, <2>3, TotalIs DEF StandsAt
    <2>6. p # w[k][1]
      BY <2>1, <2>3, <2>4, <2>5, <1>4
    <2> QED  BY <1>3, <2>3, <2>4, <2>6
  <1>7. Total(s, p) \in 1 .. Len(w) /\ w[Total(s, p)] = <<p, Total(s, p)>>
    BY <1>1, <1>3, <1>4, <1>5
  <1>8. StandsAt(w, s, Total(s, p))
    BY <1>7 DEF Whole
  <1>9. IF Len(w) = Total(s, p) THEN p = Len(s) ELSE w[Total(s, p) + 1] = <<p + 1, 1>>
    <2>1. CASE Len(w) = Total(s, p)
      BY <2>1, <1>7, <1>8 DEF StandsAt
    <2>2. CASE Len(w) # Total(s, p)
      <3>1. Total(s, p) < Len(w)
        BY <2>2, <1>1, <1>3, <1>4
      <3> QED  BY <2>2, <3>1, <1>7, <1>8 DEF StandsAt
    <2> QED  BY <2>1, <2>2
  <1> QED  BY <1>1, <1>3, <1>4, <1>5, <1>6, <1>9

(* Another packet is sent.                                                 *)
LEMMA AppendWhole ==
  ASSUME NEW s \in Seq(Packet), NEW e \in Packet, NEW w \in Seq(Unit), NEW v \in Seq(Unit),
         NEW q \in Nat, q = HeaderSize + e.size,
         Longer(v, w, Len(s) + 1, q), Whole(w, s)
  PROVE  Whole(v, Append(s, e))
  <1> DEFINE t == Append(s, e)
             n == Len(s) + 1
  <1>1. t \in Seq(Packet) /\ Len(t) = n /\ t[n] = e /\ \A i \in 1 .. Len(s) : t[i] = s[i]
    BY AppendProperties
  <1>2. Len(s) \in Nat /\ n \in Nat /\ Len(w) \in Nat /\ Len(v) \in Nat /\ Len(v) = Len(w) + q
    BY DEF Longer
  <1>a. ASSUME NEW k \in 1 .. Len(w)
        PROVE  v[k] = w[k]
    BY DEF Longer
  <1>b. ASSUME NEW j \in 1 .. q
        PROVE  v[Len(w) + j] = <<n, j>>
    BY DEF Longer
  <1>3. Total(t, n) = q /\ \A i \in 1 .. Len(s) : Total(t, i) = Total(s, i)
    BY <1>1 DEF Total
  <1>4. q >= 1
    <2>1. n \in 1 .. Len(t)
      BY <1>1, <1>2
    <2>2. Total(t, n) >= HeaderSize /\ HeaderSize >= 1 /\ HeaderSize \in Nat
      BY <2>1, <1>1, TotalIs
    <2> QED  BY <2>2, <1>3
  <1>5. ASSUME NEW k \in 1 .. Len(w)
        PROVE  StandsAt(v, t, k)
    <2> DEFINE p == w[k][1]
               j == w[k][2]
    <2>1. k \in Nat /\ k \in 1 .. Len(v) /\ v[k] = w[k] /\ w[k] \in Unit /\ StandsAt(w, s, k)
      BY <1>2, <1>a, ElementOfSeq DEF Whole
    <2>2. p \in 1 .. Len(s) /\ j \in 1 .. Total(s, p) /\ j \in Nat /\ k - j + Total(s, p) <= Len(w)
      BY <2>1, UnitParts DEF StandsAt
    <2>3. Total(s, p) \in Nat /\ Total(t, p) = Total(s, p) /\ p \in 1 .. Len(t)
      BY <1>1, <1>2, <1>3, <2>2, TotalIs
    <2>8. v[k][1] = p /\ v[k][2] = j /\ w[k][1] = p /\ w[k][2] = j
      BY <2>1
    <2> HIDE DEF t, n, p, j
    <2>4. ASSUME NEW m \in 1 .. Total(s, p), k - j + m >= 1
          PROVE  v[k - j + m] = <<p, m>>
      <3>1. k - j + m \in 1 .. Len(w)
        BY <2>1, <2>2, <2>3, <2>4, <1>2
      <3>2. w[k - j + m] = <<p, m>>
        BY <2>1, <2>8, <2>4 DEF StandsAt
      <3> QED  BY <3>1, <3>2, <1>a
    <2>5. k < Len(v) /\ j = Total(s, p) => v[k + 1] = <<p + 1, 1>>
      <3> HAVE k < Len(v) /\ j = Total(s, p)
      <3>1. CASE k < Len(w)
        <4>1. w[k + 1] = <<p + 1, 1>>
          BY <3>1, <2>1, <2>8 DEF StandsAt
        <4>2. k + 1 \in 1 .. Len(w)
          BY <3>1, <2>1, <1>2
        <4> QED  BY <4>1, <4>2, <1>a
      <3>2. CASE k = Len(w)
        <4>1. p = Len(s)
          BY <3>2, <2>1, <2>8 DEF StandsAt
        <4>2. 1 \in 1 .. q
          BY <1>4
        <4>3. v[Len(w) + 1] = <<Len(s) + 1, 1>>
          BY <4>2, <1>b DEF n
        <4> QED  BY <3>2, <4>1, <4>3
      <3> QED  BY <3>1, <3>2, <1>2
    <2>6. k # Len(v)
      BY <1>2, <1>4
    <2>7. k - j + Total(s, p) <= Len(v)
      <3>1. k \in Int /\ j \in Int /\ Len(w) <= Len(v)
        BY <1>2, <2>1, <2>2
      <3> QED  BY <3>1, <1>2, <2>2, <2>3
    <2> QED  BY <2>2, <2>3, <2>4, <2>5, <2>6, <2>7, <2>8 DEF StandsAt
  <1>6. ASSUME NEW k \in Len(w) + 1 .. Len(v)
        PROVE  /\ StandsAt(v, t, k) /\ k - Len(w) \in 1 .. q
               /\ v[k] = <<n, k - Len(w)>>
    <2>1. k \in Nat /\ k - Len(w) \in 1 .. q /\ Len(w) + (k - Len(w)) = k
      BY <1>2
    <2>2. v[k] = <<n, k - Len(w)>>
      BY <2>1, <1>b
    <2>3. k - (k - Len(w)) = Len(w) /\ Len(w) + q = Len(v)
      BY <2>1, <1>2
    <2>4. k = Len(v) \/ k - Len(w) # q
      BY <2>1, <1>2
    <2>5. ASSUME NEW m \in 1 .. q
          PROVE  v[k - (k - Len(w)) + m] = <<n, m>>
      BY <2>3, <1>b
    <2>6. n \in 1 .. Len(t) /\ n = Len(t)
      BY <1>1, <1>2
    <2>7. v[k][1] = n /\ v[k][2] = k - Len(w)
      BY <2>2
    <2> HIDE DEF t, n
    <2>8. StandsAt(v, t, k)
      <3> DEFINE j == k - Len(w)
      <3>1. j \in 1 .. q /\ k - j + q <= Len(v) /\ v[k][2] = j /\ Total(t, n) = q
        <4>1. k - j = Len(w)
          BY <2>3
        <4>2. k - j + q <= Len(v)
          BY <4>1, <1>2
        <4> QED  BY <4>2, <2>1, <2>7, <1>3
      <3>2. (\A m \in 1 .. q : v[k - j + m] = <<n, m>>) /\ (k = Len(v) \/ j # q)
        BY <2>4, <2>5
      <3>3. k < Len(v) => j # q
        BY <3>2
      <3> HIDE DEF j
      <3> QED  BY <3>1, <3>2, <3>3, <2>6, <2>7 DEF StandsAt
    <2> QED  BY <2>1, <2>2, <2>8
  <1>7. ASSUME NEW k \in 1 .. Len(v)
        PROVE  StandsAt(v, t, k)
    <2>1. k \in 1 .. Len(w) \/ k \in Len(w) + 1 .. Len(v)
      BY <1>2
    <2> QED  BY <2>1, <1>5, <1>6
  <1>8. ASSUME NEW k \in 1 .. Len(v), NEW l \in 1 .. Len(v), k < l
        PROVE  Apart(v, k, l)
    <2>1. CASE l \in 1 .. Len(w)
      <3>1. k \in 1 .. Len(w)
        BY <2>1, <1>2, <1>8
      <3>2. v[k] = w[k] /\ v[l] = w[l]
        BY <2>1, <3>1, <1>a
      <3>3. Apart(w, k, l)
        BY <2>1, <3>1, <1>8 DEF Whole
      <3> QED  BY <3>2, <3>3 DEF Apart
    <2>2. CASE l \in Len(w) + 1 .. Len(v) /\ k \in 1 .. Len(w)
      <3>1. v[l] = <<n, l - Len(w)>> /\ v[l][1] = n
        BY <2>2, <1>6
      <3>2. v[k] = w[k] /\ StandsAt(w, s, k)
        BY <2>2, <1>a DEF Whole
      <3>3. v[k][1] \in 1 .. Len(s)
        BY <3>2 DEF StandsAt
      <3>4. v[k][1] < n
        BY <3>3, <1>2
      <3> QED  BY <3>1, <3>4, <3>3, <1>2 DEF Apart
    <2>3. CASE l \in Len(w) + 1 .. Len(v) /\ k \in Len(w) + 1 .. Len(v)
      <3>1. v[l] = <<n, l - Len(w)>> /\ v[k] = <<n, k - Len(w)>>
        BY <2>3, <1>6
      <3>2. v[l][1] = n /\ v[l][2] = l - Len(w) /\ v[k][1] = n /\ v[k][2] = k - Len(w)
        BY <3>1
      <3>3. k - (k - Len(w)) = l - (l - Len(w))
        BY <1>2
      <3> QED  BY <3>2, <3>3, <1>2 DEF Apart
    <2> QED  BY <2>1, <2>2, <2>3, <1>2
  <1> QED  BY <1>7, <1>8 DEF Whole

-----------------------------------------------------------------------------
(* What has been handed out.                                               *)

LEMMA UnitsInIs ==
  ASSUME NEW s \in Seq(Packet), NEW p \in 1 .. Len(s)
  PROVE  /\ UnitsIn(s, p) = [j \in 1 .. Total(s, p) |-> <<p, j>>]
         /\ UnitsIn(s, p)[1] = <<p, 1>>
  <1>1. 1 \in 1 .. Total(s, p)
    BY TotalIs
  <1> QED  BY <1>1 DEF UnitsIn

(* What is no longer before the reader stays out of what it has handed out.*)
LEMMA HandedOutRest ==
  ASSUME NEW r, NEW s, NEW w \in Seq(Unit), NEW v \in Seq(Unit), NEW n \in Nat,
         Rest(v, w, n), HandedOut(r, w, s)
  PROVE  HandedOut(r, v, s)
  <1> SUFFICES ASSUME NEW i \in 1 .. Len(r)
               PROVE  \E p \in 1 .. Len(s) :
                        r[i] = UnitsIn(s, p) /\ \A k \in 1 .. Len(v) : p < v[k][1]
    BY DEF HandedOut
  <1>1. PICK p \in 1 .. Len(s) : r[i] = UnitsIn(s, p) /\ \A k \in 1 .. Len(w) : p < w[k][1]
    BY DEF HandedOut
  <1>2. ASSUME NEW k \in 1 .. Len(v)
        PROVE  p < v[k][1]
    <2>1. k + n \in 1 .. Len(w) /\ v[k] = w[k + n]
      BY DEF Rest
    <2> QED  BY <2>1, <1>1
  <1> QED  BY <1>1, <1>2

(* The units of a packet sent do not change.                               *)
LEMMA UnitsStay ==
  ASSUME NEW s \in Seq(Packet), NEW e \in Packet, NEW p \in 1 .. Len(s)
  PROVE  UnitsIn(Append(s, e), p) = UnitsIn(s, p) /\ Append(s, e)[p] = s[p]
  <1>1. Append(s, e)[p] = s[p]
    BY AppendProperties
  <1> QED  BY <1>1 DEF UnitsIn, Total

LEMMA HandedOutLonger ==
  ASSUME NEW r, NEW s \in Seq(Packet), NEW e \in Packet,
         NEW w \in Seq(Unit), NEW v \in Seq(Unit),
         NEW q \in Nat, Longer(v, w, Len(s) + 1, q), HandedOut(r, w, s)
  PROVE  HandedOut(r, v, Append(s, e))
  <1>1. Len(Append(s, e)) = Len(s) + 1 /\ Len(s) \in Nat /\ Len(w) \in Nat /\ Len(v) \in Nat
    BY AppendProperties
  <1> SUFFICES ASSUME NEW i \in 1 .. Len(r)
               PROVE  \E p \in 1 .. Len(Append(s, e)) :
                        r[i] = UnitsIn(Append(s, e), p) /\ \A k \in 1 .. Len(v) : p < v[k][1]
    BY DEF HandedOut
  <1>2. PICK p \in 1 .. Len(s) : r[i] = UnitsIn(s, p) /\ \A k \in 1 .. Len(w) : p < w[k][1]
    BY DEF HandedOut
  <1>3. p \in 1 .. Len(Append(s, e)) /\ UnitsIn(Append(s, e), p) = UnitsIn(s, p)
    BY <1>1, UnitsStay
  <1>4. ASSUME NEW k \in 1 .. Len(v)
        PROVE  p < v[k][1]
    <2>1. CASE k \in 1 .. Len(w)
      BY <2>1, <1>2 DEF Longer
    <2>2. CASE k \in Len(w) + 1 .. Len(v)
      <3>1. k - Len(w) \in 1 .. q /\ Len(w) + (k - Len(w)) = k
        BY <2>2, <1>1 DEF Longer
      <3>2. v[k] = <<Len(s) + 1, k - Len(w)>>
        BY <3>1 DEF Longer
      <3>3. v[k][1] = Len(s) + 1
        BY <3>2
      <3> QED  BY <3>3, <1>1
    <2> QED  BY <2>1, <2>2, <1>1
  <1> QED  BY <1>2, <1>3, <1>4

LEMMA CountedLonger ==
  ASSUME NEW r, NEW n \in Nat, NEW s \in Seq(Packet), NEW e \in Packet,
         NEW w \in Seq(Unit), NEW v \in Seq(Unit),
         NEW q \in Nat, q >= 1, Longer(v, w, Len(s) + 1, q), Counted(r, n, w, s)
  PROVE  Counted(r, n, v, Append(s, e))
  <1> DEFINE t == Append(s, e)
  <1>1. Len(t) = Len(s) + 1 /\ Len(s) \in Nat /\ Len(w) \in Nat /\ Len(v) = Len(w) + q
    BY AppendProperties DEF Longer
  <1>2. n <= Len(s)
    BY DEF Counted
  <1>3. v # <<>> /\ v[1] = <<n + 1, 1>>
    <2>1. v # <<>>
      BY <1>1
    <2>2. CASE w = <<>>
      <3>1. Len(w) = 0 /\ 1 \in 1 .. q /\ n = Len(s)
        BY <2>2 DEF Counted
      <3> QED  BY <2>1, <3>1 DEF Longer
    <2>3. CASE w # <<>>
      <3>1. 1 \in 1 .. Len(w) /\ w[1] = <<n + 1, 1>>
        BY <2>3, EmptySeq, <1>1 DEF Counted
      <3> QED  BY <2>1, <3>1 DEF Longer
    <2> QED  BY <2>2, <2>3
  <1>4. \A p \in 1 .. n : p \in 1 .. Len(s) /\ t[p] = s[p] /\ UnitsIn(t, p) = UnitsIn(s, p)
    BY <1>1, <1>2, UnitsStay
  <1> HIDE DEF t
  <1>5. {q1 \in 1 .. n : t[q1].sound} = {q1 \in 1 .. n : s[q1].sound}
    BY <1>4
  <1>6. {UnitsIn(t, p) : p \in {q1 \in 1 .. n : t[q1].sound}}
          = {UnitsIn(s, p) : p \in {q1 \in 1 .. n : s[q1].sound}}
    BY <1>4, <1>5
  <1>7. {r[i] : i \in 1 .. Len(r)} = {UnitsIn(s, p) : p \in {q1 \in 1 .. n : s[q1].sound}}
    BY DEF Counted
  <1>8. n <= Len(t)
    BY <1>1, <1>2
  <1>9. Counted(r, n, v, t)
    BY <1>3, <1>6, <1>7, <1>8 DEF Counted
  <1> QED  BY <1>9 DEF t

(* A packet is handed out when the reader is at its beginning.             *)
LEMMA HandOutOne ==
  ASSUME NEW r \in Seq(Seq(Unit)), NEW s \in Seq(Packet),
         NEW w \in Seq(Unit), NEW v \in Seq(Unit), NEW p \in 1 .. Len(s), NEW u \in Seq(Unit),
         u = UnitsIn(s, p), w # <<>>, w[1] = <<p, 1>>, Whole(w, s), Rest(v, w, Total(s, p)),
         HandedOut(r, w, s), Increasing(r)
  PROVE  HandedOut(Append(r, u), v, s) /\ Increasing(Append(r, u))
  <1> DEFINE y == Append(r, u)
  <1>1. Len(y) = Len(r) + 1 /\ y[Len(r) + 1] = u /\ Len(r) \in Nat
    BY AppendProperties
  <1>2. \A i \in 1 .. Len(r) : y[i] = r[i]
    BY AppendProperties
  <1>3. Total(s, p) \in Nat
    BY TotalIs
  <1>4. HandedOut(r, v, s)
    BY <1>3, HandedOutRest
  <1>5. ASSUME NEW k \in 1 .. Len(v)
        PROVE  p < v[k][1]
    <2>1. Len(w) \in Nat /\ k + Total(s, p) \in 1 .. Len(w) /\ k + Total(s, p) >= Total(s, p) + 1
          /\ v[k] = w[k + Total(s, p)]
      BY <1>3 DEF Rest
    <2>2. \A l \in Total(s, p) + 1 .. Len(w) : p < w[l][1]
      BY FirstPacket
    <2>3. k + Total(s, p) \in Total(s, p) + 1 .. Len(w)
      BY <1>3, <2>1
    <2> QED  BY <2>1, <2>2, <2>3
  <1> HIDE DEF y
  <1>6. HandedOut(y, v, s)
    <2> SUFFICES ASSUME NEW i \in 1 .. Len(y)
                 PROVE  \E o \in 1 .. Len(s) :
                          y[i] = UnitsIn(s, o) /\ \A k \in 1 .. Len(v) : o < v[k][1]
      BY DEF HandedOut
    <2>1. CASE i = Len(r) + 1
      BY <2>1, <1>1, <1>5
    <2>2. CASE i \in 1 .. Len(r)
      BY <2>2, <1>2, <1>4 DEF HandedOut
    <2> QED  BY <2>1, <2>2, <1>1
  <1>7. ASSUME NEW i \in 1 .. Len(r)
        PROVE  r[i][1][1] < p
    <2>1. PICK o \in 1 .. Len(s) : r[i] = UnitsIn(s, o) /\ \A k \in 1 .. Len(w) : o < w[k][1]
      BY DEF HandedOut
    <2>2. 1 \in 1 .. Len(w) /\ w[1][1] = p
      BY EmptySeq
    <2>3. r[i][1] = <<o, 1>> /\ r[i][1][1] = o
      BY <2>1, UnitsInIs
    <2> QED  BY <2>1, <2>2, <2>3
  <1>8. u[1][1] = p
    BY UnitsInIs
  <1>9. Increasing(y)
    <2> SUFFICES ASSUME NEW i \in 1 .. Len(y), NEW j \in 1 .. Len(y), i < j
                 PROVE  y[i][1][1] < y[j][1][1]
      BY DEF Increasing
    <2>1. i \in 1 .. Len(r)
      BY <1>1
    <2>2. CASE j = Len(r) + 1
      BY <2>1, <2>2, <1>1, <1>2, <1>7, <1>8
    <2>3. CASE j \in 1 .. Len(r)
      BY <2>1, <2>3, <1>2 DEF Increasing
    <2>4. j = Len(r) + 1 \/ j \in 1 .. Len(r)
      <3>1. \A m \in Nat : \A x \in 1 .. m + 1 : x = m + 1 \/ x \in 1 .. m
        OBVIOUS
      <3> QED  BY <3>1, <1>1
    <2> QED  BY <2>2, <2>3, <2>4
  <1> QED  BY <1>6, <1>9 DEF y

(* The reader begins the next packet, having handed out this one or not.   *)
LEMMA CountOne ==
  ASSUME NEW r \in Seq(Seq(Unit)), NEW n \in Nat, NEW s \in Seq(Packet),
         NEW w \in Seq(Unit), NEW v \in Seq(Unit), NEW z \in Seq(Seq(Unit)),
         w # <<>>, Whole(w, s), n + 1 \in 1 .. Len(s), Rest(v, w, Total(s, n + 1)),
         Counted(r, n, w, s), UnitsIn(s, n + 1) \in Seq(Unit),
         IF s[n + 1].sound THEN z = Append(r, UnitsIn(s, n + 1)) ELSE z = r
  PROVE  Counted(z, n + 1, v, s)
  <1> DEFINE p == n + 1
             u == UnitsIn(s, p)
  <1>1. w[1] = <<p, 1>>
    BY DEF Counted
  <1>2. Total(s, p) \in Nat /\ Len(w) \in Nat /\ Len(v) \in Nat /\ Len(w) = Len(v) + Total(s, p)
    BY TotalIs DEF Rest
  <1>3. IF Len(w) = Total(s, p) THEN p = Len(s) ELSE w[Total(s, p) + 1] = <<p + 1, 1>>
    BY <1>1, FirstPacket
  <1>4. IF v = <<>> THEN p = Len(s) ELSE v[1] = <<p + 1, 1>>
    <2>1. CASE v = <<>>
      <3>1. Len(v) = 0
        BY <2>1
      <3> QED  BY <2>1, <3>1, <1>2, <1>3
    <2>2. CASE v # <<>>
      <3>1. Len(v) # 0 /\ 1 \in 1 .. Len(v)
        BY <2>2, EmptySeq, <1>2
      <3>2. Len(w) # Total(s, p) /\ v[1] = w[1 + Total(s, p)] /\ 1 + Total(s, p) = Total(s, p) + 1
        <4>1. \A x, y, d \in Nat : y # 0 /\ x = y + d => x # d /\ 1 + d = d + 1
          OBVIOUS
        <4>2. v[1] = w[1 + Total(s, p)]
          BY <3>1 DEF Rest
        <4> HIDE DEF p
        <4> QED  BY <3>1, <4>1, <4>2, <1>2
      <3> QED  BY <2>2, <3>2, <1>3
    <2> QED  BY <2>1, <2>2
  <1>5. {z[i] : i \in 1 .. Len(z)} = {UnitsIn(s, o) : o \in {q \in 1 .. p : s[q].sound}}
    <2> DEFINE before == {r[i] : i \in 1 .. Len(r)}
               old == {q \in 1 .. n : s[q].sound}
               new == {q \in 1 .. p : s[q].sound}
    <2>1. before = {UnitsIn(s, o) : o \in old}
      BY DEF Counted
    <2>2. CASE s[p].sound
      <3>1. new = old \cup {p}
        BY <2>2
      <3>2. z = Append(r, u) /\ u \in Seq(Unit) /\ Len(r) \in Nat
        BY <2>2
      <3>3. Len(z) = Len(r) + 1 /\ z[Len(r) + 1] = u /\ \A i \in 1 .. Len(r) : z[i] = r[i]
        <4> HIDE DEF u
        <4> QED  BY <3>2, AppendProperties
      <3>4. {z[i] : i \in 1 .. Len(z)} = before \cup {u}
        <4>1. 1 .. Len(z) = (1 .. Len(r)) \cup {Len(r) + 1}
          BY <3>3
        <4> HIDE DEF u
        <4> QED  BY <3>3, <4>1
      <3>5. {UnitsIn(s, o) : o \in new} = {UnitsIn(s, o) : o \in old} \cup {u}
        BY <3>1
      <3> QED  BY <2>1, <3>4, <3>5
    <2>3. CASE ~s[p].sound
      <3>1. new = old
        BY <2>3
      <3> QED  BY <2>1, <2>3, <3>1
    <2> QED  BY <2>2, <2>3
  <1>6. p <= Len(s)
    OBVIOUS
  <1> HIDE DEF u
  <1> QED  BY <1>4, <1>5, <1>6 DEF Counted

-----------------------------------------------------------------------------
(* The reader.                                                             *)

LEMMA Types ==
  ASSUME RInv
  PROVE  /\ TypeOK /\ ReadingOK
         /\ sent \in Seq(Packet) /\ wire \in Seq(Unit) /\ header \in Seq(Unit) /\ buf \in Seq(Unit)
         /\ returned \in Seq(Seq(Unit)) /\ taken \in Nat /\ rejected \in Nat
         /\ taken = Len(returned) + rejected
         /\ InHand \in Seq(Unit) /\ Len(InHand) = Len(header) + Len(buf)
         /\ Line \in Seq(Unit) /\ Len(Line) = Len(InHand) + Len(wire)
         /\ \A i \in 1 .. Len(InHand) : Line[i] = InHand[i]
         /\ Rest(wire, Line, Len(InHand))
  <1>1. sent \in Seq(Packet) /\ wire \in Seq(Unit) /\ header \in Seq(Unit) /\ buf \in Seq(Unit)
        /\ returned \in Seq(Seq(Unit)) /\ rejected \in Nat /\ TypeOK /\ ReadingOK
    BY DEF RInv, TypeOK, Packet
  <1>2. InHand \in Seq(Unit) /\ Len(InHand) = Len(header) + Len(buf)
    BY <1>1, ConcatProperties DEF InHand
  <1>3. /\ Line \in Seq(Unit) /\ Len(Line) = Len(InHand) + Len(wire)
        /\ \A i \in 1 .. Len(InHand) + Len(wire) :
             Line[i] = IF i <= Len(InHand) THEN InHand[i] ELSE wire[i - Len(InHand)]
    <2>1. \A x, y \in Seq(Unit) :
            /\ x \o y \in Seq(Unit) /\ Len(x \o y) = Len(x) + Len(y)
            /\ \A i \in 1 .. Len(x) + Len(y) : (x \o y)[i] = IF i <= Len(x) THEN x[i] ELSE y[i - Len(x)]
      BY ConcatProperties
    <2> QED  BY <2>1, <1>1, <1>2 DEF Line
  <1>4. Len(InHand) \in Nat /\ Len(wire) \in Nat /\ Len(returned) \in Nat
    BY <1>1, <1>2
  <1>5. \A i \in 1 .. Len(InHand) : Line[i] = InHand[i]
    BY <1>3, <1>4
  <1>6. \A i \in 1 .. Len(wire) : wire[i] = Line[i + Len(InHand)]
    BY <1>3, <1>4
  <1>7. Rest(wire, Line, Len(InHand))
    BY <1>3, <1>4, <1>6 DEF Rest
  <1>8. taken \in Nat /\ taken = Len(returned) + rejected
    BY <1>1, <1>4 DEF taken
  <1> QED  BY <1>1, <1>2, <1>3, <1>5, <1>7, <1>8

(* What is before the reader stays as it is.                               *)
LEMMA KeepsLine ==
  ASSUME RInv, TypeOK', ReadingOK', Line' = Line,
         UNCHANGED <<lookalikes, sent, returned, rejected, broken>>
  PROVE  RInv'
  <1>1. taken' = taken
    BY DEF taken
  <1>2. SentOK' /\ Whole(Line', sent')
    BY DEF RInv, SentOK
  <1>3. ~broken' \/ ~lookalikes' => HandedOut(returned', Line', sent') /\ Increasing(returned')
    BY DEF RInv
  <1>4. ~broken' => Counted(returned', taken', Line', sent')
    BY <1>1 DEF RInv
  <1> QED  BY <1>2, <1>3, <1>4 DEF RInv

(* What the reader has in hand is gone.                                    *)
LEMMA DropsInHand ==
  ASSUME RInv, TypeOK', ReadingOK', Line' = wire,
         UNCHANGED <<lookalikes, sent, returned, rejected>>,
         broken' = (broken \/ InHand # <<>>)
  PROVE  RInv'
  <1>1. taken' = taken
    BY DEF taken
  <1>2. Rest(wire, Line, Len(InHand)) /\ Len(InHand) \in Nat
    BY Types
  <1>3. SentOK'
    BY DEF RInv, SentOK
  <1>4. Whole(Line', sent')
    BY <1>2, Types, DropWhole DEF RInv
  <1>5. ~broken' \/ ~lookalikes' => HandedOut(returned', Line', sent') /\ Increasing(returned')
    <2> HAVE ~broken' \/ ~lookalikes'
    <2>1. HandedOut(returned, Line, sent) /\ Increasing(returned)
      BY DEF RInv
    <2>2. HandedOut(returned, wire, sent)
      BY <2>1, <1>2, Types, HandedOutRest
    <2> QED  BY <2>1, <2>2
  <1>6. ~broken' => Counted(returned', taken', Line', sent')
    <2> HAVE ~broken'
    <2>1. ~broken /\ InHand = <<>>
      OBVIOUS
    <2>2. Line = wire
      BY <2>1, Types, ConcatEmptySeq DEF Line
    <2> QED  BY <2>1, <2>2, <1>1 DEF RInv
  <1> QED  BY <1>3, <1>4, <1>5, <1>6 DEF RInv

(* A reader at the beginning of a packet with as many units has it.        *)
LEMMA InHandIs ==
  ASSUME RInv, InHand # <<>>, NEW p, Line[1] = <<p, 1>>, Len(InHand) = Total(sent, p)
  PROVE  /\ Line # <<>> /\ p \in 1 .. Len(sent)
         /\ InHand = UnitsIn(sent, p) /\ Rest(wire, Line, Total(sent, p))
  <1>1. Len(InHand) \in Nat \ {0} /\ Len(wire) \in Nat /\ Len(Line) = Len(InHand) + Len(wire)
    BY Types, EmptySeq
  <1>2. Line # <<>> /\ Line \in Seq(Unit)
    BY <1>1, Types
  <1>3. p \in 1 .. Len(sent) /\ \A m \in 1 .. Total(sent, p) : Line[m] = <<p, m>>
    BY <1>2, Types, FirstPacket DEF RInv
  <1>4. \A m \in 1 .. Total(sent, p) : InHand[m] = <<p, m>>
    BY <1>3, Types
  <1>5. InHand = [m \in 1 .. Total(sent, p) |-> InHand[m]]
    BY Types, LenProperties
  <1>6. InHand = UnitsIn(sent, p)
    BY <1>4, <1>5 DEF UnitsIn
  <1> QED  BY <1>2, <1>3, <1>6, Types

(* It is handed out.                                                       *)
LEMMA HandsOut ==
  ASSUME RInv, TypeOK', ReadingOK', Line' = wire, InHand # <<>>,
         UNCHANGED <<lookalikes, sent, rejected, broken>>,
         returned' = Append(returned, InHand),
         ~broken \/ ~lookalikes => \E p : Line[1] = <<p, 1>> /\ Len(InHand) = Total(sent, p),
         ~broken => sent[Line[1][1]].sound
  PROVE  RInv'
  <1>1. Rest(wire, Line, Len(InHand)) /\ Len(InHand) \in Nat
    BY Types
  <1>2. SentOK'
    BY DEF RInv, SentOK
  <1>3. Whole(Line', sent') /\ Whole(Line, sent)
    BY <1>1, Types, DropWhole DEF RInv
  <1>4. ~broken' \/ ~lookalikes' => HandedOut(returned', Line', sent') /\ Increasing(returned')
    <2> HAVE ~broken' \/ ~lookalikes'
    <2>1. HandedOut(returned, Line, sent) /\ Increasing(returned)
      BY DEF RInv
    <2>2. PICK p : Line[1] = <<p, 1>> /\ Len(InHand) = Total(sent, p)
      OBVIOUS
    <2>3. p \in 1 .. Len(sent) /\ InHand = UnitsIn(sent, p) /\ Line # <<>>
          /\ Rest(wire, Line, Total(sent, p))
      BY <2>2, InHandIs
    <2>4. HandedOut(Append(returned, InHand), wire, sent) /\ Increasing(Append(returned, InHand))
      BY <2>1, <2>2, <2>3, <1>3, Types, HandOutOne
    <2> QED  BY <2>4
  <1>5. ~broken' => Counted(returned', taken', Line', sent')
    <2> HAVE ~broken'
    <2>1. Counted(returned, taken, Line, sent) /\ taken \in Nat
      BY Types DEF RInv
    <2>2. PICK p : Line[1] = <<p, 1>> /\ Len(InHand) = Total(sent, p)
      OBVIOUS
    <2>3. p \in 1 .. Len(sent) /\ InHand = UnitsIn(sent, p) /\ Line # <<>>
          /\ Rest(wire, Line, Total(sent, p))
      BY <2>2, InHandIs
    <2>4. Line[1] = <<taken + 1, 1>>
      BY <2>1, <2>3 DEF Counted
    <2>5. p = taken + 1 /\ sent[p].sound
      BY <2>2, <2>4
    <2>6. taken' = taken + 1
      <3>1. Len(Append(returned, InHand)) = Len(returned) + 1
        BY Types, AppendProperties
      <3> QED  BY <3>1, Types DEF taken
    <2>7. Append(returned, InHand) \in Seq(Seq(Unit))
      BY Types, AppendProperties
    <2>8. Counted(Append(returned, InHand), taken + 1, wire, sent)
      BY <2>1, <2>3, <2>5, <2>7, <1>3, Types, CountOne
    <2> QED  BY <2>6, <2>8
  <1> QED  BY <1>2, <1>3, <1>4, <1>5 DEF RInv

(* Or it is refused.                                                       *)
LEMMA Refuses ==
  ASSUME RInv, TypeOK', ReadingOK', Line' = wire, InHand # <<>>,
         UNCHANGED <<lookalikes, sent, returned, broken>>,
         rejected' = rejected + 1,
         ~broken => \E p : Line[1] = <<p, 1>> /\ Len(InHand) = Total(sent, p),
         ~broken => ~sent[Line[1][1]].sound
  PROVE  RInv'
  <1>1. Rest(wire, Line, Len(InHand)) /\ Len(InHand) \in Nat
    BY Types
  <1>2. SentOK'
    BY DEF RInv, SentOK
  <1>3. Whole(Line', sent') /\ Whole(Line, sent)
    BY <1>1, Types, DropWhole DEF RInv
  <1>4. ~broken' \/ ~lookalikes' => HandedOut(returned', Line', sent') /\ Increasing(returned')
    <2> HAVE ~broken' \/ ~lookalikes'
    <2>1. HandedOut(returned, Line, sent) /\ Increasing(returned)
      BY DEF RInv
    <2>2. HandedOut(returned, wire, sent)
      BY <2>1, <1>1, Types, HandedOutRest
    <2> QED  BY <2>1, <2>2
  <1>5. ~broken' => Counted(returned', taken', Line', sent')
    <2> HAVE ~broken'
    <2>1. Counted(returned, taken, Line, sent) /\ taken \in Nat
      BY Types DEF RInv
    <2>2. PICK p : Line[1] = <<p, 1>> /\ Len(InHand) = Total(sent, p)
      OBVIOUS
    <2>3. p \in 1 .. Len(sent) /\ InHand = UnitsIn(sent, p) /\ Line # <<>>
          /\ Rest(wire, Line, Total(sent, p))
      BY <2>2, InHandIs
    <2>4. Line[1] = <<taken + 1, 1>>
      BY <2>1, <2>3 DEF Counted
    <2>5. p = taken + 1 /\ ~sent[p].sound
      BY <2>2, <2>4
    <2>6. taken' = taken + 1
      BY Types DEF taken
    <2>7. UnitsIn(sent, taken + 1) \in Seq(Unit)
      BY <2>3, <2>5, Types
    <2>8. Counted(returned, taken + 1, wire, sent)
      BY <2>1, <2>3, <2>5, <2>7, <1>3, Types, CountOne
    <2> QED  BY <2>6, <2>8
  <1> QED  BY <1>2, <1>3, <1>4, <1>5 DEF RInv

-----------------------------------------------------------------------------
(* Its steps.                                                              *)

LEMMA InitRInv ==
  ASSUME Init
  PROVE  RInv
  <1>1. sent = <<>> /\ wire = <<>> /\ header = <<>> /\ buf = <<>> /\ returned = <<>>
        /\ Line = <<>> /\ Len(<<>>) = 0 /\ taken = 0
    BY DEF Init, Line, InHand, taken
  <1>2. TypeOK
    <2>1. \A S : <<>> \in Seq(S)
      OBVIOUS
    <2>2. 0 \in 0 .. MaxReads
      BY ReaderAssumption
    <2> QED  BY <1>1, <2>1, <2>2 DEF Init, TypeOK
  <1>3. ReadingOK /\ SentOK
    BY DEF Init, ReadingOK, SentOK
  <1>4. Whole(Line, sent) /\ HandedOut(returned, Line, sent) /\ Increasing(returned)
    BY <1>1 DEF Whole, HandedOut, Increasing
  <1>5. Counted(returned, taken, Line, sent)
    BY <1>1 DEF Counted
  <1> QED  BY <1>2, <1>3, <1>4, <1>5 DEF RInv

(* The reader raises with a part of a packet in hand.                      *)
LEMMA RaiseParts ==
  ASSUME RInv, Raise, rejected' \in Nat, broken' \in BOOLEAN
  PROVE  TypeOK' /\ ReadingOK' /\ Line' = wire
         /\ UNCHANGED <<lookalikes, sent, returned>>
  <1>1. TypeOK /\ ReadingOK /\ wire \in Seq(Unit)
    BY Types
  <1>2. UNCHANGED <<lookalikes, sent, returned, eof, wire, expired, reads>>
        /\ step' = "idle" /\ part' = "header" /\ header' = <<>> /\ buf' = <<>> /\ length' = 0
    BY DEF Raise, stream
  <1>3. TypeOK'
    BY <1>1, <1>2 DEF TypeOK
  <1>4. ReadingOK'
    BY <1>2 DEF ReadingOK
  <1>5. Line' = wire
    BY <1>1, <1>2, ConcatEmptySeq DEF Line, InHand
  <1> QED  BY <1>2, <1>3, <1>4, <1>5

LEMMA DevSendKeeps ==
  ASSUME RInv, DevSend
  PROVE  RInv'
  <1>1. PICK e \in Packet :
          /\ e.size = 0 => e.sound
          /\ sent' = Append(sent, e)
          /\ wire' = wire \o [j \in 1 .. HeaderSize + e.size |-> <<Len(sent) + 1, j>>]
    <2>1. PICK size \in Sizes, sound \in BOOLEAN :
            /\ size = 0 => sound
            /\ sent' = Append(sent, [size |-> size, sound |-> sound])
            /\ wire' = wire \o [j \in 1 .. HeaderSize + size |-> <<Len(sent) + 1, j>>]
      BY DEF DevSend
    <2> DEFINE e == [size |-> size, sound |-> sound]
    <2>2. e \in Packet /\ e.size = size /\ e.sound = sound
      BY DEF Packet
    <2> HIDE DEF e
    <2> QED  BY <2>1, <2>2 DEF e
  <1> DEFINE q == HeaderSize + e.size
             d == [j \in 1 .. q |-> <<Len(sent) + 1, j>>]
  <1>2. UNCHANGED <<lookalikes, eof, step, part, header, buf, length, expired, reads,
                    returned, rejected, broken>>
        /\ Len(sent) < MaxPackets
    BY DEF DevSend, ghosts
  <1>3. TypeOK /\ ReadingOK /\ sent \in Seq(Packet) /\ wire \in Seq(Unit) /\ InHand \in Seq(Unit)
        /\ Len(sent) \in Nat
    BY Types
  <1>4. q \in Nat /\ q >= 1
    <2>1. e.size \in Nat
      BY ReaderAssumption DEF Packet
    <2> QED  BY <2>1, ReaderAssumption
  <1> HIDE DEF q
  <1>5. d \in Seq(Unit) /\ Len(d) = q /\ \A j \in 1 .. q : d[j] = <<Len(sent) + 1, j>>
    <2>1. \A j \in 1 .. q : <<Len(sent) + 1, j>> \in Unit
      BY <1>2, <1>3, <1>4, ReaderAssumption DEF Unit
    <2> QED  BY <1>4, <2>1
  <1>6. sent' = Append(sent, e) /\ wire' = wire \o d
    BY <1>1 DEF q
  <1> HIDE DEF d
  <1>7. sent' \in Seq(Packet) /\ wire' \in Seq(Unit)
    BY <1>3, <1>5, <1>6, AppendProperties, ConcatProperties
  <1>8. TypeOK'
    BY <1>2, <1>3, <1>7 DEF TypeOK, Packet
  <1>9. Line' = Line \o d
    <2>1. InHand' = InHand
      BY <1>2 DEF InHand
    <2>2. \A x, y, z \in Seq(Unit) : (x \o y) \o z = x \o (y \o z)
      BY ConcatAssociative
    <2>3. (InHand \o wire) \o d = InHand \o (wire \o d)
      BY <2>2, <1>3, <1>5
    <2> QED  BY <2>1, <2>3, <1>6 DEF Line
  <1>10. Line' \in Seq(Unit) /\ Longer(Line', Line, Len(sent) + 1, q)
    <2>1. /\ Line' \in Seq(Unit) /\ Len(Line') = Len(Line) + q
          /\ \A i \in 1 .. Len(Line) + q : Line'[i] = IF i <= Len(Line) THEN Line[i] ELSE d[i - Len(Line)]
      <3>1. \A x, y \in Seq(Unit) :
              /\ x \o y \in Seq(Unit) /\ Len(x \o y) = Len(x) + Len(y)
              /\ \A i \in 1 .. Len(x) + Len(y) : (x \o y)[i] = IF i <= Len(x) THEN x[i] ELSE y[i - Len(x)]
        BY ConcatProperties
      <3>2. Line \in Seq(Unit)
        BY Types
      <3> QED  BY <3>1, <3>2, <1>5, <1>9
    <2>2. Len(Line) \in Nat
      BY Types
    <2>3. \A i \in 1 .. Len(Line) : Line'[i] = Line[i]
      BY <1>4, <2>1, <2>2
    <2>4. \A j \in 1 .. q : Line'[Len(Line) + j] = <<Len(sent) + 1, j>>
      <3> TAKE j \in 1 .. q
      <3>1. Len(Line) + j \in 1 .. Len(Line) + q /\ ~(Len(Line) + j <= Len(Line))
            /\ (Len(Line) + j) - Len(Line) = j
        BY <1>4, <2>2
      <3> QED  BY <2>1, <3>1, <1>5
    <2> QED  BY <2>1, <2>3, <2>4 DEF Longer
  <1>11. Whole(Line', sent')
    BY <1>3, <1>4, <1>6, <1>10, Types, AppendWhole DEF RInv, q
  <1>12. ReadingOK'
    <2>1. step' = "idle" => part' = "header" /\ header' = <<>> /\ buf' = <<>> /\ length' = 0
      BY <1>2, <1>3 DEF ReadingOK
    <2>2. part' = "header" => header' = <<>>
      BY <1>2, <1>3 DEF ReadingOK
    <2>3. ASSUME part' = "data"
          PROVE  Len(header') = HeaderSize /\ ~UnknownCommand(header[1])'
                 /\ Len(buf') + length' \in DataSize(header[1])'
      <3>1. Len(header) = HeaderSize /\ ~UnknownCommand(header[1])
            /\ Len(buf) + length \in DataSize(header[1])
        BY <2>3, <1>2, <1>3 DEF ReadingOK
      <3>2. header[1] = Line[1] /\ 1 \in 1 .. Len(Line)
        <4>1. Len(header) \in Nat /\ Len(buf) \in Nat /\ 1 \in 1 .. Len(header) /\ Len(wire) \in Nat
              /\ header \in Seq(Unit) /\ buf \in Seq(Unit)
          BY <3>1, Types, ReaderAssumption
        <4>2. 1 \in 1 .. Len(InHand) /\ 1 \in 1 .. Len(Line) /\ Line[1] = InHand[1]
          BY <4>1, Types
        <4>3. InHand[1] = header[1]
          BY <4>1, ConcatProperties DEF InHand
        <4> QED  BY <4>2, <4>3
      <3>3. header[1][1] \in 1 .. Len(sent)
        BY <3>2 DEF RInv, Whole, StandsAt
      <3>4. sent'[header[1][1]] = sent[header[1][1]]
        BY <3>3, <1>3, <1>6, AppendProperties
      <3>5. header' = header /\ buf' = buf /\ length' = length /\ lookalikes' = lookalikes
        BY <1>2
      <3>6. DataSize(header[1])' = DataSize(header[1])
        BY <3>4, <3>5 DEF DataSize
      <3>7. UnknownCommand(header[1])' = UnknownCommand(header[1])
        BY <3>5 DEF UnknownCommand
      <3> QED  BY <3>1, <3>5, <3>6, <3>7
    <2> QED  BY <2>1, <2>2, <2>3 DEF ReadingOK
  <1>13. SentOK'
    <2>1. Len(sent') = Len(sent) + 1 /\ sent'[Len(sent) + 1] = e
          /\ \A i \in 1 .. Len(sent) : sent'[i] = sent[i]
      BY <1>3, <1>6, AppendProperties
    <2>2. \A i \in 1 .. Len(sent) : sent[i].size = 0 => sent[i].sound
      BY DEF RInv, SentOK
    <2> SUFFICES ASSUME NEW i \in 1 .. Len(sent')
                 PROVE  sent'[i].size = 0 => sent'[i].sound
      BY DEF SentOK
    <2>3. i = Len(sent) + 1 \/ i \in 1 .. Len(sent)
      BY <2>1, <1>3
    <2> QED  BY <2>1, <2>2, <2>3, <1>1
  <1>14. ~broken' \/ ~lookalikes' => HandedOut(returned', Line', sent') /\ Increasing(returned')
    <2> HAVE ~broken' \/ ~lookalikes'
    <2>1. HandedOut(returned, Line, sent) /\ Increasing(returned)
      BY <1>2 DEF RInv
    <2>2. HandedOut(returned, Line', sent')
      BY <2>1, <1>3, <1>4, <1>6, <1>10, Types, HandedOutLonger
    <2> QED  BY <2>1, <2>2, <1>2
  <1>15. ~broken' => Counted(returned', taken', Line', sent')
    <2> HAVE ~broken'
    <2>1. Counted(returned, taken, Line, sent) /\ taken \in Nat
      BY <1>2, Types DEF RInv
    <2>2. Counted(returned, taken, Line', sent')
      BY <2>1, <1>3, <1>4, <1>6, <1>10, Types, CountedLonger
    <2> QED  BY <2>2, <1>2 DEF taken
  <1> QED  BY <1>8, <1>11, <1>12, <1>13, <1>14, <1>15 DEF RInv

(* A step that moves nothing but step, expired, reads and eof.             *)
LEMMA NothingMoves ==
  ASSUME RInv,
         UNCHANGED <<lookalikes, sent, wire, part, header, buf, length, returned, rejected, broken>>,
         step # "idle", step' \in {"read", "check"},
         eof' \in BOOLEAN, expired' \in BOOLEAN, reads' \in 0 .. MaxReads
  PROVE  RInv'
  <1>1. TypeOK /\ ReadingOK
    BY DEF RInv
  <1>2. TypeOK'
    BY <1>1 DEF TypeOK
  <1>3. ReadingOK'
    BY <1>1 DEF ReadingOK, UnknownCommand, DataSize
  <1>4. Line' = Line
    BY DEF Line, InHand
  <1> QED  BY <1>2, <1>3, <1>4, KeepsLine

LEMMA DevCloseKeeps ==
  ASSUME RInv, DevClose
  PROVE  RInv'
  <1>1. TypeOK /\ ReadingOK
    BY DEF RInv
  <1>2. UNCHANGED <<lookalikes, sent, wire, step, part, header, buf, length, expired, reads,
                    returned, rejected, broken>> /\ eof' = TRUE
    BY DEF DevClose, ghosts
  <1>3. TypeOK'
    BY <1>1, <1>2 DEF TypeOK
  <1>4. ReadingOK'
    BY <1>1, <1>2 DEF ReadingOK, UnknownCommand, DataSize
  <1>5. Line' = Line
    BY <1>2 DEF Line, InHand
  <1> QED  BY <1>2, <1>3, <1>4, <1>5, KeepsLine

LEMMA BeginKeeps ==
  ASSUME RInv, Begin
  PROVE  RInv'
  <1>1. TypeOK /\ ReadingOK
    BY DEF RInv
  <1>2. UNCHANGED <<lookalikes, sent, eof, wire, returned, rejected, broken>>
        /\ step' = "read" /\ part' = "header" /\ header' = <<>> /\ buf' = <<>>
        /\ length' = HeaderSize /\ expired' = FALSE /\ reads' = reads + 1
        /\ step = "idle" /\ reads < MaxReads
    BY DEF Begin, ReadBytes, stream, ghosts
  <1>3. header = <<>> /\ buf = <<>>
    BY <1>1, <1>2 DEF ReadingOK
  <1>4. TypeOK'
    <2>1. reads' \in 0 .. MaxReads /\ HeaderSize \in Nat
      BY <1>1, <1>2, ReaderAssumption DEF TypeOK
    <2>2. Len(buf') + length' = HeaderSize
      BY <1>2, <2>1
    <2>3. header' \in Seq(Unit) /\ buf' \in Seq(Unit) /\ length' \in Nat
      BY <1>2, <2>1
    <2> QED  BY <1>1, <1>2, <2>1, <2>2, <2>3 DEF TypeOK
  <1>5. ReadingOK'
    BY <1>2 DEF ReadingOK
  <1>6. Line' = Line
    BY <1>2, <1>3 DEF Line, InHand
  <1> QED  BY <1>2, <1>4, <1>5, <1>6, KeepsLine

LEMMA BulkReadKeeps ==
  ASSUME RInv, BulkRead
  PROVE  RInv'
  <1>1. TypeOK /\ ReadingOK /\ wire \in Seq(Unit) /\ buf \in Seq(Unit) /\ header \in Seq(Unit)
        /\ length \in Nat /\ Len(buf) \in Nat /\ Len(wire) \in Nat
    BY Types DEF TypeOK
  <1>2. PICK n \in 1 .. length :
          /\ n <= Len(wire)
          /\ buf' = buf \o SubSeq(wire, 1, n)
          /\ wire' = SubSeq(wire, n + 1, Len(wire))
          /\ length' = IF n < length THEN length - n ELSE 0
    BY DEF BulkRead, Receive
  <1>3. UNCHANGED <<lookalikes, sent, eof, part, header, expired, reads, returned, rejected, broken>>
        /\ step = "read" /\ step' \in {"read", "check"}
    BY DEF BulkRead, Receive, stream, ghosts
  <1> DEFINE a == SubSeq(wire, 1, n)
             b == SubSeq(wire, n + 1, Len(wire))
  <1>4. n \in Nat /\ length' \in Nat /\ length' = length - n /\ n \in 1 .. Len(wire)
    BY <1>1, <1>2
  <1>5. a \in Seq(Unit) /\ Len(a) = n
    BY <1>1, <1>4, SubSeqProperties, ElementOfSeq
  <1>6. b \in Seq(Unit)
    <2>1. \A i \in n + 1 .. Len(wire) : wire[i] \in Unit
      BY <1>1, <1>4, ElementOfSeq
    <2> QED  BY <2>1, <1>1, <1>4, SubSeqProperties
  <1>7. a \o b = wire
    <2>1. SubSeq(wire, 1, n) \o SubSeq(wire, n + 1, Len(wire)) = SubSeq(wire, 1, Len(wire))
      BY <1>1, <1>4, ConcatAdjacentSubSeq
    <2> QED  BY <2>1, <1>1, SubSeqFull
  <1> HIDE DEF a, b
  <1>8. buf' = buf \o a /\ wire' = b
    BY <1>2 DEF a, b
  <1>9. buf' \in Seq(Unit) /\ Len(buf') = Len(buf) + n
    BY <1>1, <1>5, <1>8, ConcatProperties
  <1>10. Len(buf') + length' = Len(buf) + length
    BY <1>1, <1>4, <1>9
  <1>11. TypeOK'
    BY <1>1, <1>3, <1>4, <1>6, <1>8, <1>9, <1>10 DEF TypeOK
  <1>12. ReadingOK'
    BY <1>1, <1>3, <1>10 DEF ReadingOK, UnknownCommand, DataSize
  <1>13. Line' = Line
    <2>1. \A x, y, z \in Seq(Unit) : (x \o y) \o z = x \o (y \o z) /\ x \o y \in Seq(Unit)
      BY ConcatAssociative, ConcatProperties
    <2>2. header \o (buf \o a) = InHand \o a
      BY <2>1, <1>1, <1>5 DEF InHand
    <2>3. (InHand \o a) \o b = InHand \o (a \o b)
      <3>1. InHand \in Seq(Unit)
        BY Types
      <3> QED  BY <2>1, <3>1, <1>5, <1>6
    <2>4. Line' = (header \o (buf \o a)) \o b
      BY <1>3, <1>8 DEF Line, InHand
    <2> QED  BY <2>2, <2>3, <2>4, <1>7 DEF Line
  <1> QED  BY <1>3, <1>11, <1>12, <1>13, KeepsLine

LEMMA BulkReadNothingKeeps ==
  ASSUME RInv, BulkReadNothing
  PROVE  RInv'
  <1>1. TypeOK
    BY DEF RInv
  <1> QED  BY <1>1, NothingMoves DEF BulkReadNothing, TypeOK, stream, ghosts

LEMMA ExpireKeeps ==
  ASSUME RInv, Expire
  PROVE  RInv'
  <1>1. TypeOK
    BY DEF RInv
  <1> QED  BY <1>1, NothingMoves DEF Expire, TypeOK, stream, ghosts

(* The reader raises and forgets what it has in hand.                      *)
LEMMA RaiseKeeps ==
  ASSUME RInv, Raise, broken' = (broken \/ InHand # <<>>), UNCHANGED rejected
  PROVE  RInv'
  <1>1. rejected' \in Nat /\ broken' \in BOOLEAN
    BY Types DEF TypeOK
  <1>2. TypeOK' /\ ReadingOK' /\ Line' = wire /\ UNCHANGED <<lookalikes, sent, returned>>
    BY <1>1, RaiseParts
  <1> QED  BY <1>2, DropsInHand

LEMMA BulkReadTimeoutKeeps ==
  ASSUME RInv, BulkReadTimeout
  PROVE  RInv'
  BY RaiseKeeps DEF BulkReadTimeout

LEMMA CheckTimeKeeps ==
  ASSUME RInv, CheckTime
  PROVE  RInv'
  <1>1. CASE NotExpired
    <2>1. TypeOK
      BY DEF RInv
    <2> QED  BY <1>1, <2>1, NothingMoves DEF NotExpired, TypeOK, stream, ghosts
  <1>2. CASE Raise /\ broken' = (broken \/ InHand # <<>>) /\ UNCHANGED rejected
    BY <1>2, RaiseKeeps
  <1> QED  BY <1>1, <1>2 DEF CheckTime

(* A call returns a packet.                                                *)
LEMMA ReturnParts ==
  ASSUME RInv, NEW u, u = InHand, Return(u)
  PROVE  TypeOK' /\ ReadingOK' /\ Line' = wire /\ returned' = Append(returned, InHand)
         /\ UNCHANGED <<lookalikes, sent, rejected, broken>>
  <1>1. TypeOK /\ ReadingOK /\ wire \in Seq(Unit) /\ InHand \in Seq(Unit)
        /\ returned \in Seq(Seq(Unit))
    BY Types
  <1>2. UNCHANGED <<lookalikes, sent, eof, wire, expired, reads, rejected, broken>>
        /\ step' = "idle" /\ part' = "header" /\ header' = <<>> /\ buf' = <<>> /\ length' = 0
        /\ returned' = Append(returned, InHand)
    BY DEF Return, stream
  <1>3. returned' \in Seq(Seq(Unit))
    BY <1>1, <1>2, AppendProperties
  <1>4. TypeOK'
    BY <1>1, <1>2, <1>3 DEF TypeOK
  <1>5. ReadingOK'
    BY <1>2 DEF ReadingOK
  <1>6. Line' = wire
    BY <1>1, <1>2, ConcatEmptySeq DEF Line, InHand
  <1> QED  BY <1>2, <1>4, <1>5, <1>6

(* A reader that is in step, or stopped by unknown commands, reads the     *)
(* header of a packet.                                                     *)
LEMMA AtHeader ==
  ASSUME RInv, InHand # <<>>, ~UnknownCommand(Line[1]), ~broken \/ ~lookalikes
  PROVE  /\ \E p : Line[1] = <<p, 1>>
         /\ IsHeader(Line[1]) /\ Line[1] = <<Line[1][1], 1>> /\ Line[1][1] \in 1 .. Len(sent)
         /\ ~broken => Line[1][1] = taken + 1
  <1>1. Line # <<>> /\ 1 \in 1 .. Len(Line) /\ Line[1] \in Unit
    <2>1. Len(InHand) \in Nat \ {0} /\ Len(wire) \in Nat /\ Len(Line) = Len(InHand) + Len(wire)
          /\ Line \in Seq(Unit)
      BY Types, EmptySeq
    <2> QED  BY <2>1, ElementOfSeq
  <1>2. ~broken => Line[1] = <<taken + 1, 1>>
    BY <1>1 DEF RInv, Counted
  <1>3. IsHeader(Line[1])
    BY <1>2 DEF UnknownCommand, IsHeader
  <1>4. Line[1] = <<Line[1][1], 1>>
    BY <1>1, <1>3, UnitParts DEF IsHeader
  <1>5. StandsAt(Line, sent, 1)
    BY <1>1 DEF RInv, Whole
  <1>6. Line[1][1] \in 1 .. Len(sent)
    BY <1>5 DEF StandsAt
  <1> QED  BY <1>2, <1>3, <1>4, <1>6

LEMMA ParseHeaderKeeps ==
  ASSUME RInv, ParseHeader
  PROVE  RInv'
  <1>1. TypeOK /\ ReadingOK /\ buf \in Seq(Unit) /\ wire \in Seq(Unit) /\ Len(buf) \in Nat
        /\ HeaderSize \in Nat /\ HeaderSize >= 1
    BY Types, ReaderAssumption
  <1>2. step = "read" /\ part = "header" /\ length = 0
    BY DEF ParseHeader, Complete
  <1>3. header = <<>> /\ InHand = buf
    BY <1>1, <1>2, ConcatEmptySeq DEF ReadingOK, InHand
  <1>4. Len(buf) = HeaderSize
    <2>1. Len(buf) + length = HeaderSize
      BY <1>1, <1>2 DEF TypeOK
    <2> QED  BY <2>1, <1>1, <1>2
  <1>5. InHand # <<>> /\ Line[1] = buf[1]
    <2>1. Len(InHand) # 0 /\ 1 \in 1 .. Len(InHand)
      BY <1>1, <1>3, <1>4
    <2> QED  BY <2>1, <1>3, Types
  <1>6. CASE UnknownCommand(buf[1]) /\ Raise /\ broken' = TRUE /\ UNCHANGED rejected
    <2>1. broken' = (broken \/ InHand # <<>>)
      BY <1>5, <1>6
    <2> QED  BY <1>6, <2>1, RaiseKeeps
  <1>7. CASE ~UnknownCommand(buf[1]) /\ 0 \in DataSize(buf[1]) /\ Return(buf)
    <2>1. TypeOK' /\ ReadingOK' /\ Line' = wire /\ returned' = Append(returned, InHand)
          /\ UNCHANGED <<lookalikes, sent, rejected, broken>>
      BY <1>3, <1>7, ReturnParts
    <2>2. ASSUME ~broken \/ ~lookalikes
          PROVE  /\ Line[1] = <<Line[1][1], 1>> /\ Len(InHand) = Total(sent, Line[1][1])
                 /\ sent[Line[1][1]].sound
      <3>1. IsHeader(Line[1]) /\ Line[1] = <<Line[1][1], 1>> /\ Line[1][1] \in 1 .. Len(sent)
        BY <1>5, <1>7, <2>2, AtHeader
      <3>2. sent[Line[1][1]].size = 0
        BY <3>1, <1>5, <1>7 DEF DataSize
      <3>3. sent[Line[1][1]].sound
        BY <3>1, <3>2 DEF RInv, SentOK
      <3>4. Len(InHand) = Total(sent, Line[1][1])
        BY <3>2, <1>1, <1>3, <1>4 DEF Total
      <3> QED  BY <3>1, <3>3, <3>4
    <2> QED  BY <1>5, <2>1, <2>2, HandsOut
  <1>8. CASE /\ ~UnknownCommand(buf[1])
             /\ \E n \in DataSize(buf[1]) \ {0} : ReadBytes("data", n, buf)
             /\ UNCHANGED <<stream, wire, reads, ghosts>>
    <2>1. PICK n \in DataSize(buf[1]) \ {0} : ReadBytes("data", n, buf)
      BY <1>8
    <2>2. UNCHANGED <<lookalikes, sent, eof, wire, reads, returned, rejected, broken>>
          /\ step' = "read" /\ part' = "data" /\ header' = buf /\ buf' = <<>> /\ length' = n
          /\ expired' = FALSE
      BY <1>8, <2>1 DEF ReadBytes, stream, ghosts
    <2>3. n \in Nat
      <3>1. CASE IsHeader(buf[1])
        <4>1. n = sent[buf[1][1]].size
          BY <3>1 DEF DataSize
        <4>2. StandsAt(Line, sent, 1)
          <5>1. 1 \in 1 .. Len(Line)
            <6>1. Len(Line) = Len(InHand) + Len(wire) /\ Len(wire) \in Nat
              BY Types
            <6> QED  BY <6>1, <1>1, <1>3, <1>4
          <5> QED  BY <5>1 DEF RInv, Whole
        <4>3. buf[1][1] \in 1 .. Len(sent)
          BY <4>2, <1>5 DEF StandsAt
        <4> QED  BY <4>1, <4>3, Types, TotalIs
      <3>2. CASE ~IsHeader(buf[1])
        BY <3>2, ReaderAssumption DEF DataSize
      <3> QED  BY <3>1, <3>2
    <2>4. TypeOK'
      <3>1. header' \in Seq(Unit) /\ buf' \in Seq(Unit) /\ length' \in Nat
        BY <1>1, <2>2, <2>3
      <3> QED  BY <1>1, <2>2, <3>1 DEF TypeOK
    <2>5. ReadingOK'
      <3>1. Len(buf') + length' = n
        BY <2>2, <2>3
      <3>2. DataSize(header[1])' = DataSize(buf[1]) /\ UnknownCommand(header[1])' = UnknownCommand(buf[1])
        BY <2>2 DEF DataSize, UnknownCommand
      <3> QED  BY <1>4, <1>8, <2>1, <2>2, <3>1, <3>2 DEF ReadingOK
    <2>6. Line' = Line
      <3>1. InHand' = InHand
        BY <1>1, <1>3, <2>2, ConcatEmptySeq DEF InHand
      <3> QED  BY <3>1, <2>2 DEF Line
    <2> QED  BY <2>2, <2>4, <2>5, <2>6, KeepsLine
  <1> QED  BY <1>6, <1>7, <1>8 DEF ParseHeader

LEMMA ParseDataKeeps ==
  ASSUME RInv, ParseData
  PROVE  RInv'
  <1>1. TypeOK /\ ReadingOK /\ header \in Seq(Unit) /\ buf \in Seq(Unit) /\ wire \in Seq(Unit)
        /\ Len(header) \in Nat /\ Len(buf) \in Nat /\ HeaderSize \in Nat /\ HeaderSize >= 1
    BY Types, ReaderAssumption
  <1>2. step = "read" /\ part = "data" /\ length = 0
    BY DEF ParseData, Complete
  <1>3. Len(header) = HeaderSize /\ ~UnknownCommand(header[1]) /\ Len(buf) \in DataSize(header[1])
    <2>1. Len(header) = HeaderSize /\ ~UnknownCommand(header[1])
          /\ Len(buf) + length \in DataSize(header[1])
      BY <1>1, <1>2 DEF ReadingOK
    <2>2. Len(buf) + length = Len(buf)
      BY <1>1, <1>2
    <2> QED  BY <2>1, <2>2
  <1>4. Len(InHand) = HeaderSize + Len(buf)
    BY <1>3, Types
  <1>5. InHand # <<>> /\ Line[1] = header[1]
    <2>1. 1 \in 1 .. Len(InHand) /\ 1 \in 1 .. Len(header)
      BY <1>1, <1>3, <1>4
    <2>2. InHand # <<>>
      BY <2>1
    <2>3. InHand[1] = header[1]
      BY <1>1, <2>1, ConcatProperties DEF InHand
    <2> QED  BY <2>1, <2>2, <2>3, Types
  <1>6. ASSUME ~broken \/ ~lookalikes
        PROVE  /\ IsHeader(header[1])
               /\ Line[1] = <<Line[1][1], 1>> /\ Len(InHand) = Total(sent, Line[1][1])
    <2>1. IsHeader(Line[1]) /\ Line[1] = <<Line[1][1], 1>> /\ Line[1][1] \in 1 .. Len(sent)
      BY <1>3, <1>5, <1>6, AtHeader
    <2>2. Len(buf) = sent[Line[1][1]].size
      BY <2>1, <1>3, <1>5 DEF DataSize
    <2>3. Len(InHand) = Total(sent, Line[1][1])
      BY <2>2, <1>4 DEF Total
    <2> QED  BY <2>1, <2>3, <1>5
  <1>7. PICK fits \in BOOLEAN :
          /\ ChecksumFits(header[1], fits)
          /\ \/ fits /\ Return(InHand)
             \/ ~fits /\ Raise /\ rejected' = rejected + 1 /\ UNCHANGED broken
    BY DEF ParseData
  <1>8. ASSUME ~broken \/ ~lookalikes
        PROVE  fits = sent[Line[1][1]].sound
    BY <1>5, <1>6, <1>7, <1>8 DEF ChecksumFits
  <1>9. CASE fits /\ Return(InHand)
    <2>1. TypeOK' /\ ReadingOK' /\ Line' = wire /\ returned' = Append(returned, InHand)
          /\ UNCHANGED <<lookalikes, sent, rejected, broken>>
      BY <1>9, ReturnParts
    <2> QED  BY <1>5, <1>6, <1>8, <1>9, <2>1, HandsOut
  <1>10. CASE ~fits /\ Raise /\ rejected' = rejected + 1 /\ UNCHANGED broken
    <2>1. rejected' \in Nat /\ broken' \in BOOLEAN
      BY <1>10, Types DEF TypeOK
    <2>2. TypeOK' /\ ReadingOK' /\ Line' = wire /\ UNCHANGED <<lookalikes, sent, returned>>
      BY <1>10, <2>1, RaiseParts
    <2> QED  BY <1>5, <1>6, <1>8, <1>10, <2>2, Refuses
  <1> QED  BY <1>7, <1>9, <1>10

THEOREM ReaderInvariant == Spec => []RInv
  <1>1. Init => RInv
    BY InitRInv
  <1>2. RInv /\ [Next]_vars => RInv'
    <2> SUFFICES ASSUME RInv, [Next]_vars
                 PROVE  RInv'
      OBVIOUS
    <2>1. CASE UNCHANGED vars
      <3>1. TypeOK /\ ReadingOK
        BY DEF RInv
      <3>2. TypeOK' /\ ReadingOK'
        BY <2>1, <3>1 DEF vars, TypeOK, ReadingOK, UnknownCommand, DataSize
      <3>3. Line' = Line /\ UNCHANGED <<lookalikes, sent, returned, rejected, broken>>
        BY <2>1 DEF vars, Line, InHand
      <3> QED  BY <3>2, <3>3, KeepsLine
    <2>2. CASE Next
      BY <2>1, <2>2, DevSendKeeps, DevCloseKeeps, BeginKeeps, BulkReadKeeps, BulkReadNothingKeeps,
         BulkReadTimeoutKeeps, CheckTimeKeeps, ParseHeaderKeeps, ParseDataKeeps, ExpireKeeps
         DEF Next, Reader, Resting
    <2> QED  BY <2>1, <2>2
  <1> QED  BY <1>1, <1>2, PTL DEF Spec

-----------------------------------------------------------------------------
(* What follows.                                                           *)

(* Units(p) are the units of packet p.                                     *)
LEMMA UnitsAre ==
  ASSUME NEW p
  PROVE  Units(p) = UnitsIn(sent, p)
  BY DEF Units, UnitsIn, Total

(* The units before a reader in step are packets up to the last one sent.  *)
LEMMA LineIsPackets ==
  ASSUME RInv, ~broken
  PROVE  ArePackets(Line, taken + 1)
  <1>1. Line \in Seq(Unit) /\ Len(Line) \in Nat /\ taken \in Nat /\ sent \in Seq(Packet)
        /\ Len(sent) \in Nat
    BY Types
  <1>2. IF Line = <<>> THEN taken = Len(sent) ELSE Line[1] = <<taken + 1, 1>>
    BY DEF RInv, Counted
  <1>3. ASSUME NEW k \in 1 .. Len(Line)
        PROVE  Follower(Line[k]) = IF k < Len(Line) THEN Line[k + 1] ELSE <<Len(sent) + 1, 1>>
    <2> DEFINE p == Line[k][1]
               j == Line[k][2]
    <2>1. StandsAt(Line, sent, k)
      BY DEF RInv, Whole
    <2>2. /\ p \in 1 .. Len(sent) /\ j \in 1 .. Total(sent, p)
          /\ k - j + Total(sent, p) <= Len(Line)
          /\ \A m \in 1 .. Total(sent, p) : k - j + m >= 1 => Line[k - j + m] = <<p, m>>
          /\ k < Len(Line) /\ j = Total(sent, p) => Line[k + 1] = <<p + 1, 1>>
          /\ k = Len(Line) => p = Len(sent)
      BY <2>1 DEF StandsAt
    <2> HIDE DEF p, j
    <2>3. Total(sent, p) \in Nat /\ k \in Nat /\ j \in Nat
      BY <2>2, <1>1, TotalIs
    <2>4. Len(Units(p)) = Total(sent, p)
      BY <2>3, UnitsAre DEF UnitsIn
    <2>5. Follower(Line[k]) = IF j < Total(sent, p) THEN <<p, j + 1>> ELSE <<p + 1, 1>>
      BY <2>4 DEF Follower, p, j
    <2>6. CASE j < Total(sent, p)
      <3>1. j + 1 \in 1 .. Total(sent, p) /\ k - j + (j + 1) = k + 1 /\ k + 1 >= 1
        BY <2>3, <2>6
      <3>2. Line[k - j + (j + 1)] = <<p, j + 1>>
        BY <2>2, <3>1
      <3>3. k < Len(Line)
        BY <2>2, <2>3, <2>6, <1>1
      <3> QED  BY <2>5, <2>6, <3>1, <3>2, <3>3
    <2>7. CASE j = Total(sent, p)
      <3>1. ~(j < Total(sent, p))
        BY <2>3, <2>7
      <3>2. k < Len(Line) \/ k = Len(Line)
        BY <1>1
      <3> QED  BY <2>2, <2>5, <2>7, <3>1, <3>2
    <2> QED  BY <2>2, <2>3, <2>6, <2>7
  <1>4. Line = <<>> => taken + 1 = Len(sent) + 1
    BY <1>2
  <1>5. Line # <<>> => Line[1] = <<taken + 1, 1>> /\ Follower(Line[Len(Line)]) = <<Len(sent) + 1, 1>>
    <2> HAVE Line # <<>>
    <2>1. Len(Line) \in 1 .. Len(Line) /\ ~(Len(Line) < Len(Line))
      BY <1>1, EmptySeq
    <2> QED  BY <2>1, <1>2, <1>3
  <1>6. ASSUME NEW k \in 1 .. Len(Line) - 1
        PROVE  Line[k + 1] = Follower(Line[k])
    <2>1. k \in 1 .. Len(Line) /\ k < Len(Line)
      BY <1>1
    <2> QED  BY <2>1, <1>3
  <1> QED  BY <1>4, <1>5, <1>6 DEF ArePackets

(* Until an exception throws a part of a packet away, the reader is in     *)
(* step with the device, whatever bulk_read returns and whenever it raises.*)
THEOREM ReaderInStep == Spec => []InStep
  <1>1. RInv => InStep
    <2> SUFFICES ASSUME RInv
                 PROVE  InStep
      OBVIOUS
    <2>1. TypeOK
      BY DEF RInv
    <2>2. ASSUME ~broken
          PROVE  /\ ArePackets(InHand \o wire, Len(returned) + rejected + 1)
                 /\ {returned[i] : i \in DOMAIN returned}
                      = {Units(p) : p \in {q \in 1 .. Len(returned) + rejected : sent[q].sound}}
                 /\ InOrder
      <3>1. Len(returned) + rejected = taken /\ InHand \o wire = Line /\ DOMAIN returned = 1 .. Len(returned)
        BY Types DEF taken, Line
      <3>2. ArePackets(Line, taken + 1)
        BY <2>2, LineIsPackets
      <3>3. {returned[i] : i \in 1 .. Len(returned)}
              = {UnitsIn(sent, p) : p \in {q \in 1 .. taken : sent[q].sound}}
        BY <2>2 DEF RInv, Counted
      <3>4. {Units(p) : p \in {q \in 1 .. taken : sent[q].sound}}
              = {UnitsIn(sent, p) : p \in {q \in 1 .. taken : sent[q].sound}}
        BY UnitsAre
      <3>5. InOrder
        BY <2>2, <3>1 DEF RInv, Increasing, InOrder
      <3> HIDE DEF taken, Line
      <3> QED  BY <3>1, <3>2, <3>3, <3>4, <3>5
    <2> QED  BY <2>1, <2>2 DEF InStep
  <1> QED  BY <1>1, ReaderInvariant, PTL

(* Out of step too, a reader that no data mislead hands out whole packets  *)
(* in order.                                                               *)
THEOREM ReaderOwnData == Spec => []OwnDataOnly
  <1>1. RInv => OwnDataOnly
    <2> SUFFICES ASSUME RInv, ~lookalikes
                 PROVE  /\ \A i \in DOMAIN returned : returned[i] = Units(returned[i][1][1])
                        /\ InOrder
      BY DEF OwnDataOnly
    <2>1. DOMAIN returned = 1 .. Len(returned) /\ sent \in Seq(Packet)
      BY Types
    <2>2. HandedOut(returned, Line, sent) /\ Increasing(returned)
      BY DEF RInv
    <2>3. ASSUME NEW i \in 1 .. Len(returned)
          PROVE  returned[i] = Units(returned[i][1][1])
      <3>1. PICK p \in 1 .. Len(sent) : returned[i] = UnitsIn(sent, p)
        BY <2>2 DEF HandedOut
      <3>2. returned[i][1][1] = p
        BY <2>1, <3>1, UnitsInIs
      <3> QED  BY <3>1, <3>2, UnitsAre
    <2> QED  BY <2>1, <2>2, <2>3 DEF Increasing, InOrder
  <1> QED  BY <1>1, ReaderInvariant, PTL

=============================================================================
