------------------------- MODULE UsbTransportProofs -------------------------
(***************************************************************************)
(* Proofs about UsbTransport: an object that is connected has the device   *)
(* it was found for to itself, and reads what that sends without a gap.    *)
(***************************************************************************)
EXTENDS UsbTransport, TLAPS

(* A handle that an object refers to is open for what the object was found *)
(* for; it refers to a second one while it connects.                       *)
ObjectOK(u) ==
  /\ found[u] # None =>
       /\ want[u] # None /\ MatchesWanted(want[u], Device(u))
       /\ found[u][2] <= plug[Device(u)]
  /\ transport[u] # None => found[u] # None /\ open[transport[u]] = found[u]
  /\ call[u].new # None => found[u] # None /\ open[call[u].new] = found[u]
  /\ call[u].at \in {"driver", "detach"} <=> call[u].new # None
  /\ call[u].at \notin {"idle", "driver", "detach"} => transport[u] # None
  /\ connected[u] => transport[u] # None /\ call[u].at \notin {"claim", "release", "close"}

ObjectsOK == \A u \in Transports : ObjectOK(u)

(* No handle is referred to twice.                                         *)
HandlesApart ==
  \A h \in Handles : \A u, v \in Transports :
    /\ ~(transport[u] = h /\ call[v].new = h)
    /\ transport[u] = h /\ transport[v] = h => u = v
    /\ call[u].new = h /\ call[v].new = h => u = v

ClaimsOK ==
  \A u \in Transports :
    connected[u] /\ Present(found[u]) => claim[Device(u)] = transport[u] /\ ~driver[Device(u)]

(* Transfers wait in the order in which they were sent.                    *)
PipeOK(d) ==
  /\ \A i \in 1 .. Len(pipe[d]) - 1 : pipe[d][i + 1] = (pipe[d][i] + 1) % 3
  /\ pipe[d] # <<>> => pipe[d][Len(pipe[d])] = sent[d]

PipesOK == \A d \in Devices : PipeOK(d)

NextToRead(d) == IF pipe[d] = <<>> THEN (sent[d] + 1) % 3 ELSE Head(pipe[d])

(* The next transfer is the one after that which was read last.            *)
ReadersOK ==
  \A u \in Transports :
    connected[u] /\ last[u] # None /\ Present(found[u])
      => NextToRead(Device(u)) = (last[u] + 1) % 3

PlugsOK == plug \in [Devices -> Nat]

UInv == TypeOK /\ PlugsOK /\ ObjectsOK /\ HandlesApart /\ ClaimsOK

IInv == UInv /\ PipesOK /\ ReadersOK

-----------------------------------------------------------------------------
(* Values.                                                                 *)

LEMMA NoneApart ==
  /\ None \notin Handles /\ None # Elsewhere /\ None \notin Numbers
  /\ None \notin Wanted /\ None \notin Refs
  /\ Elsewhere \notin Handles
BY UsbAssumption DEF Handles, Elsewhere

LEMMA RefParts ==
  ASSUME NEW r \in Refs
  PROVE  r[1] \in Devices /\ r[2] \in 1 .. MaxPlugs[r[1]] /\ r = <<r[1], r[2]>>
BY DEF Refs

LEMMA RefOf ==
  ASSUME NEW d \in Devices, NEW n \in 1 .. MaxPlugs[d]
  PROVE  <<d, n>> \in Refs
BY DEF Refs

LEMMA Plugged ==
  ASSUME TypeOK, NEW d \in Devices
  PROVE  plug[d] \in 1 .. MaxPlugs[d]
BY RefParts DEF TypeOK, Ref

LEMMA NextNumber ==
  ASSUME NEW n \in Numbers
  PROVE  (n + 1) % 3 \in Numbers
BY DEF Numbers

-----------------------------------------------------------------------------
(* The initial states.                                                     *)

LEMMA Init_IInv == Init => IInv
<1> SUFFICES ASSUME Init PROVE IInv
  OBVIOUS
<1> USE NoneApart DEF Init
<1>1. TypeOK
  <2>1. \A d \in Devices : Ref(d) \in Refs
    BY RefOf, UsbAssumption DEF Ref
  <2>2. Idle \in Call
    BY DEF Idle, Call, Stages
  <2> QED BY <2>1, <2>2 DEF TypeOK, Numbers, Idle
<1>2. PlugsOK
  BY DEF PlugsOK
<1>3. ObjectsOK
  BY DEF ObjectsOK, ObjectOK, Idle
<1>4. HandlesApart
  BY DEF HandlesApart, Idle
<1>5. ClaimsOK /\ ReadersOK
  BY DEF ClaimsOK, ReadersOK
<1>6. PipesOK
  BY DEF PipesOK, PipeOK
<1> QED BY <1>1, <1>2, <1>3, <1>4, <1>5, <1>6 DEF IInv, UInv

-----------------------------------------------------------------------------
(* The steps.                                                              *)

LEMMA FindStep ==
  ASSUME IInv, NEW u \in Transports, NEW w \in Asks[u], find_adb(u, w)
  PROVE  IInv'
<1> USE NoneApart DEF IInv, UInv
<1>1. PICK d \in Devices : found' = [found EXCEPT ![u] = Ref(d)] /\ Attached(d) /\ MatchesWanted(w, d)
  BY DEF find_adb, Devices
<1>2. Ref(d) \in Refs /\ w \in Wanted /\ Ref(d)[1] = d /\ Ref(d)[2] = plug[d] /\ plug[d] \in Nat
  BY UsbAssumption DEF TypeOK, Ref, PlugsOK
<1>3. call[u].at = "idle" /\ transport[u] = None /\ ~connected[u]
  BY DEF find_adb, ObjectsOK, ObjectOK
<1>4. want' = [want EXCEPT ![u] = w]
  BY DEF find_adb
<1> USE <1>2, <1>3, <1>4
<1>5. TypeOK'
  BY <1>1 DEF TypeOK, find_adb, bus, ghosts, Ref, Devices
<1>6. ObjectsOK'
  BY <1>1 DEF TypeOK, PlugsOK, ObjectsOK, ObjectOK, find_adb, bus, ghosts, Device
<1>7. HandlesApart'
  BY <1>1 DEF HandlesApart, find_adb
<1>8. ClaimsOK' /\ ReadersOK'
  <2>1. /\ ~connected'[u] /\ \A v \in Transports : v # u => found'[v] = found[v]
        /\ UNCHANGED <<plug, driver, pipe, sent, claim, transport, connected, last>>
    BY <1>1 DEF TypeOK, find_adb, bus, ghosts
  <2> HIDE <1>2, <1>3, <1>4 DEF IInv, UInv
  <2>2. ClaimsOK /\ ReadersOK
    BY DEF IInv, UInv
  <2>3. ClaimsOK'
    BY <2>1, <2>2 DEF ClaimsOK, Present, Attached, Ref, Device
  <2>4. ReadersOK'
    BY <2>1, <2>2 DEF ReadersOK, NextToRead, Present, Attached, Ref, Device
  <2> QED BY <2>3, <2>4
<1>9. PipesOK' /\ PlugsOK'
  BY DEF PipesOK, PipeOK, PlugsOK, find_adb, bus, Devices
<1> QED BY <1>5, <1>6, <1>7, <1>8, <1>9

LEMMA ConnectStep ==
  ASSUME IInv, NEW u \in Transports, connect(u)
  PROVE  IInv'
<1> USE NoneApart DEF IInv, UInv
<1>1. PICK h \in Handles :
        /\ open[h] = None /\ open' = [open EXCEPT ![h] = found[u]]
        /\ call' = [call EXCEPT ![u] = [at |-> "driver", new |-> h, timeout |-> None]]
  BY DEF connect, Goes
<1>2. found[u] # None /\ found[u] \in Refs /\ call[u].at = "idle" /\ call[u].new = None
  BY DEF connect, TypeOK, ObjectsOK, ObjectOK
<1>4. [at |-> "driver", new |-> h, timeout |-> None] \in Call
  BY DEF Call, Stages
<1> USE <1>1, <1>2, <1>4
<1>5. TypeOK'
  BY DEF TypeOK, connect, bus, object, ghosts, Ref, Devices
<1>6. \A v \in Transports : transport[v] # h /\ call[v].new # h
  BY DEF ObjectsOK, ObjectOK
<1>7. ObjectsOK'
  BY <1>6 DEF TypeOK, ObjectsOK, ObjectOK, connect, bus, object, ghosts, Device
<1>8. HandlesApart'
  BY <1>6 DEF TypeOK, HandlesApart, connect
<1>9. ClaimsOK' /\ ReadersOK'
  BY DEF TypeOK, ClaimsOK, ReadersOK, NextToRead, Present, Attached, Ref, Device, connect, bus, object, ghosts
<1>10. PipesOK' /\ PlugsOK'
  BY DEF PipesOK, PipeOK, PlugsOK, connect, bus, Devices
<1> QED BY <1>5, <1>7, <1>8, <1>9, <1>10

(* The object takes the handle that it opened.                             *)
LEMMA AssignStep ==
  ASSUME IInv, NEW u \in Transports,
         call[u].at \in {"driver", "detach"}, Assign(u),
         driver' = driver \/ driver' = [driver EXCEPT ![Device(u)] = FALSE],
         UNCHANGED <<plug, pipe, sent, claim, open, object>>
  PROVE  IInv'
<1> USE NoneApart DEF IInv, UInv
<1>1. call[u].new \in Handles /\ found[u] # None /\ open[call[u].new] = found[u]
  BY DEF TypeOK, Call, ObjectsOK, ObjectOK
<1>2. call' = [call EXCEPT ![u] = [at |-> "claim", new |-> None, timeout |-> None]]
  BY DEF Assign, Goes
<1>3. [at |-> "claim", new |-> None, timeout |-> None] \in Call
  BY DEF Call, Stages
<1>4. /\ transport' = [transport EXCEPT ![u] = call[u].new]
      /\ connected' = [connected EXCEPT ![u] = FALSE] /\ last' = [last EXCEPT ![u] = None]
      /\ UNCHANGED <<plug, pipe, sent, claim, open, found, want>>
  BY DEF Assign, object
<1> HIDE DEF Assign
<1>5. driver' \in [Devices -> BOOLEAN] /\ \A d \in Devices : driver'[d] => driver[d]
  BY DEF TypeOK
<1>6. TypeOK'
  BY <1>1, <1>2, <1>3, <1>4, <1>5 DEF TypeOK, Ref
<1>7. ObjectsOK'
  BY <1>1, <1>2, <1>4 DEF TypeOK, ObjectsOK, ObjectOK, Device
<1>8. HandlesApart'
  BY <1>1, <1>2, <1>4 DEF TypeOK, HandlesApart
<1>9. ClaimsOK'
  <2>1. \A v \in Transports : connected'[v] => v # u /\ connected[v] /\ Device(v) \in Devices
    BY <1>4, RefParts DEF TypeOK, ObjectsOK, ObjectOK, Device
  <2> SUFFICES ASSUME NEW v \in Transports, connected'[v], Present(found[v])'
               PROVE  (claim[Device(v)] = transport[v] /\ ~driver[Device(v)])'
    BY DEF ClaimsOK
  <2>2. Device(v)' = Device(v) /\ transport'[v] = transport[v] /\ claim' = claim
    BY <1>4, <2>1 DEF TypeOK, Device
  <2>3. connected[v] /\ Present(found[v])
    BY <1>4, <2>1 DEF Present, Attached, Ref
  <2>4. claim[Device(v)] = transport[v] /\ ~driver[Device(v)]
    BY <2>3 DEF ClaimsOK
  <2>5. ~driver'[Device(v)]
    BY <1>5, <2>1, <2>4
  <2> QED BY <2>2, <2>4, <2>5
<1>10. ReadersOK'
  <2>1. ReadersOK /\ \A v \in Transports : connected'[v] => connected[v] /\ last'[v] = last[v]
    BY <1>4 DEF TypeOK
  <2>2. UNCHANGED <<plug, pipe, sent, found>>
    BY <1>4
  <2> QED BY <2>1, <2>2 DEF ReadersOK, NextToRead, Present, Attached, Ref, Device
<1>11. PipesOK' /\ PlugsOK'
  BY <1>4 DEF PipesOK, PipeOK, PlugsOK
<1> QED BY <1>6, <1>7, <1>8, <1>9, <1>10, <1>11

(* A method that ends, or goes on to another call of libusb, and leaves    *)
(* the rest as it is; what has become of a handle that was new does not    *)
(* matter.                                                                 *)
LEMMA CallStep ==
  ASSUME IInv, NEW u \in Transports, NEW c \in Call,
         call' = [call EXCEPT ![u] = c],
         c.new = call[u].new \/ c.new = None,
         c.at \in {"driver", "detach"} <=> c.new # None,
         c.at \notin {"idle", "driver", "detach"} => transport[u] # None,
         connected'[u] => c.at \notin {"claim", "release", "close"},
         \/ UNCHANGED ghosts
         \/ /\ connected' = [connected EXCEPT ![u] = FALSE]
            /\ last' = [last EXCEPT ![u] = None],
         UNCHANGED <<bus, claim, open, object, transport>>
  PROVE  IInv'
<1> USE NoneApart DEF IInv, UInv, bus, object, ghosts
<1>1. /\ connected' \in [Transports -> BOOLEAN] /\ last' \in [Transports -> Numbers \cup {None}]
      /\ \A v \in Transports : connected'[v] => connected[v] /\ last'[v] = last[v]
  BY DEF TypeOK
<1>2. TypeOK'
  <2>1. ASSUME NEW v \in Transports, call'[v].at \in {"release", "close", "read", "write"}
        PROVE  transport'[v] # None /\ open'[transport'[v]] # None
    <3>1. transport[v] # None
      BY <2>1 DEF TypeOK
    <3>2. open[transport[v]] = found[v] /\ found[v] # None
      BY <3>1 DEF ObjectsOK, ObjectOK
    <3> QED BY <3>1, <3>2
  <2>2. /\ UNCHANGED <<plug, driver, pipe, sent, claim, open, found, want, transport>>
        /\ call' \in [Transports -> Call]
    BY DEF TypeOK
  <2> QED BY <1>1, <2>1, <2>2 DEF TypeOK, Ref
<1>3. ObjectsOK'
  BY <1>1 DEF TypeOK, ObjectsOK, ObjectOK, Device
<1>4. HandlesApart'
  BY DEF TypeOK, HandlesApart
<1>5. ClaimsOK' /\ ReadersOK'
  BY <1>1 DEF TypeOK, ClaimsOK, ReadersOK, NextToRead, Present, Attached, Ref, Device
<1>6. PipesOK' /\ PlugsOK'
  BY DEF PipesOK, PipeOK, PlugsOK
<1> QED BY <1>2, <1>3, <1>4, <1>5, <1>6

LEMMA IdleIsCall == Idle \in Call /\ Idle.at = "idle" /\ Idle.new = None
BY DEF Idle, Call, Stages

LEMMA OverStep ==
  ASSUME IInv, NEW u \in Transports, Over(u),
         UNCHANGED <<bus, claim, open, object, transport, ghosts>>
  PROVE  IInv'
<1>1. call' = [call EXCEPT ![u] = Idle]
  BY DEF Over
<1> QED BY <1>1, IdleIsCall, CallStep

LEMMA DriverStep ==
  ASSUME IInv, NEW u \in Transports, KernelDriverActive(u)
  PROVE  IInv'
<1>1. CASE At(u, "detach") /\ UNCHANGED <<transport, ghosts>>
  <2> DEFINE c == [call[u] EXCEPT !.at = "detach"]
  <2>1. /\ c \in Call /\ call' = [call EXCEPT ![u] = c]
        /\ c.at = "detach" /\ c.new = call[u].new
    <3>1. call[u] \in Call /\ call \in [Transports -> Call]
      BY DEF IInv, UInv, TypeOK
    <3>2. c \in Call /\ c.at = "detach" /\ c.new = call[u].new
      BY <3>1 DEF Call, Stages
    <3>3. call' = [call EXCEPT ![u].at = "detach"]
      BY <1>1 DEF At
    <3>4. call' = [call EXCEPT ![u] = c]
      BY <3>1, <3>3
    <3> QED BY <3>2, <3>4
  <2>2. c.new # None /\ UNCHANGED <<bus, claim, open, object, transport, ghosts>>
    BY <1>1, <2>1 DEF IInv, UInv, ObjectsOK, ObjectOK, KernelDriverActive
  <2> HIDE DEF c
  <2> QED BY <2>1, <2>2, CallStep
<1>2. CASE Assign(u)
  BY <1>2, AssignStep DEF KernelDriverActive, bus
<1>3. CASE Over(u) /\ UNCHANGED <<transport, ghosts>>
  BY <1>3, OverStep DEF KernelDriverActive
<1> QED BY <1>1, <1>2, <1>3 DEF KernelDriverActive

LEMMA DetachStep ==
  ASSUME IInv, NEW u \in Transports, DetachKernelDriver(u)
  PROVE  IInv'
<1>1. CASE Assign(u) /\ driver' = [driver EXCEPT ![Device(u)] = FALSE]
  BY <1>1, AssignStep DEF DetachKernelDriver
<1>2. CASE Over(u) /\ UNCHANGED <<driver, transport, ghosts>>
  BY <1>2, OverStep DEF DetachKernelDriver, bus
<1> QED BY <1>1, <1>2 DEF DetachKernelDriver

LEMMA CloseStep ==
  ASSUME IInv, NEW u \in Transports, close(u)
  PROVE  IInv'
<1> DEFINE c == [call[u] EXCEPT !.at = "release"]
<1>1. /\ c \in Call /\ call' = [call EXCEPT ![u] = c]
      /\ c.at = "release" /\ c.new = call[u].new
  BY DEF IInv, UInv, TypeOK, Call, Stages, At, close
<1>2. c.new = None /\ transport[u] # None /\ ~connected'[u]
  BY <1>1 DEF IInv, UInv, TypeOK, ObjectsOK, ObjectOK, close
<1>3. /\ connected' = [connected EXCEPT ![u] = FALSE] /\ last' = [last EXCEPT ![u] = None]
      /\ UNCHANGED <<bus, claim, open, object, transport>>
  BY DEF close
<1> HIDE DEF c
<1> QED BY <1>1, <1>2, <1>3, CallStep

LEMMA TransferStep ==
  ASSUME IInv, NEW u \in Transports, NEW kind \in {"read", "write"}, NEW t \in Timeouts,
         Transfer(u, kind, t)
  PROVE  IInv'
<1> DEFINE c == [at |-> kind, new |-> None, timeout |-> t]
<1>1. c \in Call /\ call' = [call EXCEPT ![u] = c] /\ c.at = kind /\ c.new = None
  BY DEF Call, Stages, Transfer, Goes
<1>2. transport[u] # None /\ UNCHANGED <<bus, claim, open, object, transport, ghosts>>
  BY DEF Transfer
<1> HIDE DEF c
<1> QED BY <1>1, <1>2, CallStep

(* The claim of the interface succeeds: only the handle of u has it.       *)
LEMMA ClaimStep ==
  ASSUME IInv, NEW u \in Transports, ClaimInterface(u)
  PROVE  IInv'
<1> USE NoneApart DEF IInv, UInv
<1>1. CASE UNCHANGED <<claim, ghosts>>
  BY <1>1, OverStep DEF ClaimInterface
<1>2. CASE /\ Present(found[u]) /\ Claimable(Device(u))
           /\ claim' = [claim EXCEPT ![Device(u)] = transport[u]]
           /\ connected' = [connected EXCEPT ![u] = TRUE]
           /\ last' = [last EXCEPT ![u] = None]
  <2>1. /\ call' = [call EXCEPT ![u] = Idle]
        /\ UNCHANGED <<plug, driver, pipe, sent, open, found, want, transport>>
    BY DEF ClaimInterface, Over, bus, object
  <2>2. call[u].at = "claim" /\ transport[u] \in Handles /\ call[u].new = None /\ found[u] # None
    BY DEF TypeOK, ObjectsOK, ObjectOK, ClaimInterface
  <2>3. Device(u) \in Devices /\ claim[Device(u)] = None /\ ~driver[Device(u)]
    BY <1>2, <2>2, RefParts DEF TypeOK, Claimable, Device
  <2>4. TypeOK'
    BY <1>2, <2>1, <2>2, IdleIsCall DEF TypeOK, Ref
  <2>5. ObjectsOK'
    BY <1>2, <2>1, <2>2, IdleIsCall DEF TypeOK, ObjectsOK, ObjectOK, Device
  <2>6. HandlesApart'
    BY <2>1, <2>2, IdleIsCall DEF TypeOK, HandlesApart
  <2>7. ClaimsOK'
    <3> SUFFICES ASSUME NEW v \in Transports, connected'[v], Present(found[v])'
                 PROVE  (claim[Device(v)] = transport[v] /\ ~driver[Device(v)])'
      BY DEF ClaimsOK
    <3>1. Device(v)' = Device(v) /\ Present(found[v])
      BY <2>1 DEF Device, Present, Attached, Ref
    <3>2. CASE v = u
      BY <1>2, <2>1, <2>3, <3>1, <3>2 DEF TypeOK
    <3>3. CASE v # u
      <4>1. connected[v] /\ transport[v] # None
        BY <1>2, <3>3 DEF TypeOK, ObjectsOK, ObjectOK
      <4>2. claim[Device(v)] = transport[v] /\ ~driver[Device(v)]
        BY <3>1, <4>1 DEF ClaimsOK
      <4> QED BY <1>2, <2>1, <2>3, <3>1, <4>1, <4>2 DEF TypeOK
    <3> QED BY <3>2, <3>3
  <2>8. ReadersOK'
    BY <1>2, <2>1 DEF TypeOK, ReadersOK, NextToRead, Present, Attached, Ref, Device
  <2>9. PipesOK' /\ PlugsOK'
    BY <2>1 DEF PipesOK, PipeOK, PlugsOK
  <2> QED BY <2>4, <2>5, <2>6, <2>7, <2>8, <2>9
<1> QED BY <1>1, <1>2 DEF ClaimInterface

(* A claim is given back: it was of u, and of nobody who is connected.     *)
LEMMA ReleaseStep ==
  ASSUME IInv, NEW u \in Transports, ReleaseInterface(u)
  PROVE  IInv'
<1> USE NoneApart DEF IInv, UInv
<1>1. /\ call[u].at = "release" /\ transport[u] \in Handles /\ call[u].new = None
      /\ ~connected[u] /\ found[u] # None
      /\ UNCHANGED <<plug, driver, pipe, sent, open, found, want, connected, last>>
  BY DEF ReleaseInterface, TypeOK, ObjectsOK, ObjectOK, bus, object, ghosts
<1>2. CASE /\ Present(found[u]) /\ claim[Device(u)] = transport[u]
           /\ claim' = [claim EXCEPT ![Device(u)] = None]
           /\ At(u, "close") /\ UNCHANGED transport
  <2>1. /\ call' = [call EXCEPT ![u].at = "close"]
        /\ call'[u] \in Call /\ call'[u].at = "close" /\ call'[u].new = None
    <3> HIDE DEF IInv, UInv
    <3>1. call \in [Transports -> Call] /\ call[u].new = None
      BY <1>1 DEF IInv, UInv, TypeOK
    <3>2. call' = [call EXCEPT ![u].at = "close"]
      BY <1>2 DEF At
    <3> QED BY <3>1, <3>2 DEF Call, Stages
  <2>2. Device(u) \in Devices
    BY <1>1, RefParts DEF TypeOK, Device
  <2>3. \A v \in Transports : v # u => call'[v] = call[v]
    BY <2>1 DEF TypeOK
  <2>4. TypeOK'
    BY <1>1, <1>2, <2>1, <2>2, <2>3 DEF TypeOK, Ref
  <2>5. ObjectsOK'
    BY <1>1, <1>2, <2>1, <2>3 DEF TypeOK, ObjectsOK, ObjectOK, Device
  <2>6. HandlesApart'
    BY <1>1, <1>2, <2>1, <2>3 DEF TypeOK, HandlesApart
  <2>7. ClaimsOK'
    <3> SUFFICES ASSUME NEW v \in Transports, connected'[v], Present(found[v])'
                 PROVE  (claim[Device(v)] = transport[v] /\ ~driver[Device(v)])'
      BY DEF ClaimsOK
    <3>1. Device(v)' = Device(v) /\ Present(found[v]) /\ connected[v] /\ v # u
      BY <1>1 DEF Device, Present, Attached, Ref
    <3>2. claim[Device(v)] = transport[v] /\ ~driver[Device(v)] /\ transport[v] \in Handles
      BY <3>1 DEF ClaimsOK, TypeOK, ObjectsOK, ObjectOK
    <3>3. Device(v) # Device(u)
      BY <1>1, <1>2, <3>1, <3>2 DEF HandlesApart
    <3> QED BY <1>1, <1>2, <3>1, <3>2, <3>3 DEF TypeOK
  <2>8. ReadersOK'
    BY <1>1 DEF ReadersOK, NextToRead, Present, Attached, Ref, Device
  <2>9. PipesOK' /\ PlugsOK'
    BY <1>1 DEF PipesOK, PipeOK, PlugsOK
  <2> QED BY <2>4, <2>5, <2>6, <2>7, <2>8, <2>9
<1>3. CASE transport' = [transport EXCEPT ![u] = None] /\ Over(u) /\ UNCHANGED claim
  <2>1. call' = [call EXCEPT ![u] = Idle]
    BY <1>3 DEF Over
  <2>2. TypeOK'
    BY <1>1, <1>3, <2>1, IdleIsCall DEF TypeOK, Ref
  <2>3. ObjectsOK'
    BY <1>1, <1>3, <2>1, IdleIsCall DEF TypeOK, ObjectsOK, ObjectOK, Device
  <2>4. HandlesApart'
    BY <1>1, <1>3, <2>1, IdleIsCall DEF TypeOK, HandlesApart
  <2>5. ClaimsOK' /\ ReadersOK'
    BY <1>1, <1>3 DEF TypeOK, ClaimsOK, ReadersOK, NextToRead, Present, Attached, Ref, Device
  <2>6. PipesOK' /\ PlugsOK'
    BY <1>1 DEF PipesOK, PipeOK, PlugsOK
  <2> QED BY <2>2, <2>3, <2>4, <2>5, <2>6
<1> QED BY <1>2, <1>3 DEF ReleaseInterface

(* A handle is closed that only u, which closes it, refers to, or nobody.  *)
LEMMA HandleStep ==
  ASSUME IInv, NEW h \in Handles, CloseHandle(h),
         \A v \in Transports : call'[v].new \in {call[v].new, None} /\ call'[v].new # h,
         \A v \in Transports : transport'[v] \in {transport[v], None} /\ transport'[v] # h,
         \A v \in Transports : connected[v] => transport'[v] = transport[v],
         \A v \in Transports : call'[v] = call[v] \/ call'[v] = Idle,
         \A v \in Transports : transport'[v] = transport[v] \/ call'[v] = Idle,
         call' \in [Transports -> Call], transport' \in [Transports -> Handles \cup {None}],
         UNCHANGED <<bus, object, ghosts>>
  PROVE  IInv'
<1> USE NoneApart, IdleIsCall DEF IInv, UInv
<1>1. UNCHANGED <<plug, driver, pipe, sent, found, want, connected, last>>
  BY DEF bus, object, ghosts
<1>2. /\ open' = [open EXCEPT ![h] = None]
      /\ claim' = [d \in Devices |-> IF claim[d] = h THEN None ELSE claim[d]]
  BY DEF CloseHandle
<1>3. \A k \in Handles : k # h => open'[k] = open[k]
  BY <1>2 DEF TypeOK
<1>4. claim' \in [Devices -> Handles \cup {None, Elsewhere}]
  BY <1>2 DEF TypeOK
<1>5. open' \in [Handles -> Refs \cup {None}]
  BY <1>2 DEF TypeOK
<1>6. ObjectsOK'
  <2> SUFFICES ASSUME NEW v \in Transports PROVE ObjectOK(v)'
    BY DEF ObjectsOK
  <2>1. /\ transport'[v] # None => transport'[v] = transport[v] /\ transport[v] \in Handles \ {h}
        /\ call'[v].new # None => call'[v].new = call[v].new /\ call[v].new \in Handles \ {h}
    BY DEF TypeOK, Call
  <2>2. ObjectOK(v)
    BY DEF ObjectsOK
  <2>3. CASE call'[v] = Idle
    BY <1>1, <1>3, <2>1, <2>2, <2>3 DEF ObjectOK, Device
  <2>4. CASE call'[v] = call[v] /\ transport'[v] = transport[v]
    BY <1>1, <1>3, <2>1, <2>2, <2>4 DEF ObjectOK, Device
  <2> QED BY <2>3, <2>4
<1>7. TypeOK'
  <2>1. \A v \in Transports : call'[v].at \in {"release", "close", "read", "write"}
                                => transport'[v] # None /\ open'[transport'[v]] # None
    BY <1>1, <1>6 DEF ObjectsOK, ObjectOK
  <2> QED BY <1>1, <1>4, <1>5, <2>1 DEF TypeOK, Ref
<1>8. HandlesApart'
  BY DEF HandlesApart
<1>9. ClaimsOK'
  <2> SUFFICES ASSUME NEW v \in Transports, connected'[v], Present(found[v])'
               PROVE  (claim[Device(v)] = transport[v] /\ ~driver[Device(v)])'
    BY DEF ClaimsOK
  <2>1. Device(v)' = Device(v) /\ Present(found[v]) /\ connected[v] /\ transport'[v] = transport[v]
    BY <1>1 DEF Device, Present, Attached, Ref
  <2>2. claim[Device(v)] = transport[v] /\ ~driver[Device(v)] /\ Device(v) \in Devices
    BY <2>1, RefParts DEF ClaimsOK, TypeOK, ObjectsOK, ObjectOK, Device
  <2>3. transport[v] # h
    BY <2>1
  <2> QED BY <1>1, <1>2, <2>1, <2>2, <2>3
<1>10. ReadersOK'
  BY <1>1 DEF ReadersOK, NextToRead, Present, Attached, Ref, Device
<1>11. PipesOK' /\ PlugsOK'
  BY <1>1 DEF PipesOK, PipeOK, PlugsOK
<1> QED BY <1>6, <1>7, <1>8, <1>9, <1>10, <1>11

LEMMA CloseTransportStep ==
  ASSUME IInv, NEW u \in Transports, CloseTransport(u)
  PROVE  IInv'
<1> USE NoneApart, IdleIsCall
<1>1. /\ call[u].at = "close" /\ transport[u] \in Handles /\ call[u].new = None /\ ~connected[u]
      /\ call \in [Transports -> Call] /\ transport \in [Transports -> Handles \cup {None}]
  BY DEF IInv, UInv, CloseTransport, TypeOK, ObjectsOK, ObjectOK
<1>2. /\ transport' = [transport EXCEPT ![u] = None] /\ call' = [call EXCEPT ![u] = Idle]
      /\ CloseHandle(transport[u]) /\ UNCHANGED <<bus, object, ghosts>>
  BY DEF CloseTransport, Over
<1>3. \A v \in Transports : v # u => transport[v] # transport[u] /\ call[v].new # transport[u]
  BY <1>1 DEF IInv, UInv, HandlesApart
<1>4. /\ \A v \in Transports : call'[v].new \in {call[v].new, None} /\ call'[v].new # transport[u]
      /\ \A v \in Transports : transport'[v] \in {transport[v], None} /\ transport'[v] # transport[u]
      /\ \A v \in Transports : connected[v] => transport'[v] = transport[v]
      /\ \A v \in Transports : call'[v] = call[v] \/ call'[v] = Idle
      /\ \A v \in Transports : transport'[v] = transport[v] \/ call'[v] = Idle
      /\ call' \in [Transports -> Call] /\ transport' \in [Transports -> Handles \cup {None}]
  BY <1>1, <1>2, <1>3
<1> QED BY <1>1, <1>2, <1>4, HandleStep

LEMMA CollectStep ==
  ASSUME IInv, NEW h \in Handles, Collect(h)
  PROVE  IInv'
<1>1. \A v \in Transports : transport[v] # h /\ call[v].new # h
  BY DEF Collect, Referenced
<1>2. CloseHandle(h) /\ UNCHANGED <<bus, object, transport, call, ghosts>>
  BY DEF Collect
<1>3. call \in [Transports -> Call] /\ transport \in [Transports -> Handles \cup {None}]
  BY DEF IInv, UInv, TypeOK
<1>4. UNCHANGED <<bus, object, ghosts>> /\ call' = call /\ transport' = transport
  BY <1>2
<1> QED BY <1>1, <1>2, <1>3, <1>4, HandleStep

(* What is read is the next transfer for the reader, and for no other.     *)
LEMMA TakesHead ==
  ASSUME IInv, NEW d \in Devices, pipe[d] # <<>>
  PROVE  /\ Head(pipe[d]) \in Numbers /\ Tail(pipe[d]) \in Seq(Numbers)
         /\ NextToRead(d) = Head(pipe[d])
         /\ IF Tail(pipe[d]) = <<>> THEN Head(pipe[d]) = sent[d]
                                    ELSE Head(Tail(pipe[d])) = (Head(pipe[d]) + 1) % 3
         /\ \A i \in 1 .. Len(Tail(pipe[d])) - 1 :
              Tail(pipe[d])[i + 1] = (Tail(pipe[d])[i] + 1) % 3
         /\ Tail(pipe[d]) # <<>> => Tail(pipe[d])[Len(Tail(pipe[d]))] = sent[d]
<1> DEFINE q == pipe[d]
<1>1. q \in Seq(Numbers) /\ q # <<>>
  BY DEF IInv, UInv, TypeOK
<1>2. /\ \A i \in 1 .. Len(q) - 1 : q[i + 1] = (q[i] + 1) % 3
      /\ q[Len(q)] = sent[d]
  BY DEF IInv, PipesOK, PipeOK
<1>3. NextToRead(d) = Head(q)
  BY DEF NextToRead
<1> SUFFICES /\ Head(q) \in Numbers /\ Tail(q) \in Seq(Numbers)
             /\ IF Tail(q) = <<>> THEN Head(q) = sent[d] ELSE Head(Tail(q)) = (Head(q) + 1) % 3
             /\ \A i \in 1 .. Len(Tail(q)) - 1 : Tail(q)[i + 1] = (Tail(q)[i] + 1) % 3
             /\ Tail(q) # <<>> => Tail(q)[Len(Tail(q))] = sent[d]
  BY <1>3
<1> HIDE DEF q
<1>4. /\ Len(q) \in Nat \ {0} /\ Len(Tail(q)) = Len(q) - 1 /\ Head(q) = q[1]
      /\ Tail(q) \in Seq(Numbers) /\ \A i \in 1 .. Len(q) - 1 : Tail(q)[i] = q[i + 1]
      /\ Head(q) \in Numbers
  BY <1>1
<1>5. \A i \in 1 .. Len(Tail(q)) - 1 : Tail(q)[i + 1] = (Tail(q)[i] + 1) % 3
  <2> SUFFICES ASSUME NEW i \in 1 .. Len(Tail(q)) - 1
               PROVE  Tail(q)[i + 1] = (Tail(q)[i] + 1) % 3
    OBVIOUS
  <2>1. i \in 1 .. Len(q) - 1 /\ i + 1 \in 1 .. Len(q) - 1
    BY <1>4
  <2> QED BY <1>2, <1>4, <2>1
<1>6. Tail(q) # <<>> => Len(q) > 1 /\ Head(Tail(q)) = q[2] /\ Tail(q)[Len(Tail(q))] = q[Len(q)]
  BY <1>1, <1>4
<1>7. Tail(q) = <<>> => Len(q) = 1
  BY <1>1, <1>4
<1>8. Len(q) > 1 => q[2] = (q[1] + 1) % 3
  <2> SUFFICES ASSUME Len(q) > 1 PROVE q[2] = (q[1] + 1) % 3
    OBVIOUS
  <2>1. 1 \in 1 .. Len(q) - 1 /\ 1 + 1 = 2
    BY <1>4
  <2> QED BY <1>2, <2>1
<1> QED BY <1>2, <1>4, <1>5, <1>6, <1>7, <1>8

LEMMA ReadStep ==
  ASSUME IInv, NEW u \in Transports, Over(u),
         \/ UNCHANGED pipe /\ last' = [last EXCEPT ![u] = None]
         \/ /\ Usable(u) /\ pipe[Device(u)] # <<>>
            /\ pipe' = [pipe EXCEPT ![Device(u)] = Tail(@)]
            /\ last' = [last EXCEPT ![u] = None] \/ last' = [last EXCEPT ![u] = Head(pipe[Device(u)])],
         UNCHANGED <<plug, driver, sent, claim, open, object, transport, connected>>
  PROVE  IInv'
<1> USE NoneApart, IdleIsCall
<1>1. call' = [call EXCEPT ![u] = Idle]
  BY DEF Over
<1>2. CASE UNCHANGED pipe /\ last' = [last EXCEPT ![u] = None]
  <2>1. TypeOK'
    BY <1>1, <1>2 DEF IInv, UInv, TypeOK, Ref, object
  <2>2. ObjectsOK' /\ HandlesApart'
    BY <1>1 DEF IInv, UInv, TypeOK, ObjectsOK, ObjectOK, HandlesApart, Device, object
  <2>3. ClaimsOK' /\ ReadersOK'
    BY <1>2 DEF IInv, UInv, TypeOK, ClaimsOK, ReadersOK, NextToRead, Present, Attached, Ref, Device, object
  <2>4. PipesOK' /\ PlugsOK'
    BY <1>2 DEF IInv, UInv, PipesOK, PipeOK, PlugsOK
  <2> QED BY <2>1, <2>2, <2>3, <2>4 DEF IInv, UInv
<1>3. CASE /\ Usable(u) /\ pipe[Device(u)] # <<>>
           /\ pipe' = [pipe EXCEPT ![Device(u)] = Tail(@)]
           /\ last' = [last EXCEPT ![u] = None] \/ last' = [last EXCEPT ![u] = Head(pipe[Device(u)])]
  <2>1. /\ Device(u) \in Devices
        /\ UNCHANGED <<plug, driver, sent, claim, open, found, want, transport, connected>>
    BY <1>3, RefParts DEF IInv, UInv, TypeOK, Usable, Device, object
  <2>2. pipe'[Device(u)] = Tail(pipe[Device(u)])
    BY <1>3, <2>1 DEF IInv, UInv, TypeOK
  <2>3. /\ Head(pipe[Device(u)]) \in Numbers /\ Tail(pipe[Device(u)]) \in Seq(Numbers)
        /\ NextToRead(Device(u)) = Head(pipe[Device(u)])
    BY <1>3, <2>1, TakesHead
  <2>4. last' \in [Transports -> Numbers \cup {None}] /\ pipe' \in [Devices -> Seq(Numbers)]
    BY <1>3, <2>1, <2>3 DEF IInv, UInv, TypeOK
  <2>5. TypeOK'
    BY <1>1, <2>1, <2>4 DEF IInv, UInv, TypeOK, Ref
  <2>6. ObjectsOK' /\ HandlesApart'
    BY <1>1, <2>1 DEF IInv, UInv, TypeOK, ObjectsOK, ObjectOK, HandlesApart, Device
  <2>7. ClaimsOK' /\ PlugsOK'
    BY <2>1 DEF IInv, UInv, ClaimsOK, Present, Attached, Ref, Device, PlugsOK
  <2>8. PipesOK'
    <3> SUFFICES ASSUME NEW d \in Devices PROVE PipeOK(d)'
      BY DEF PipesOK
    <3>1. CASE d = Device(u)
      <4>1. pipe'[d] = Tail(pipe[d]) /\ sent'[d] = sent[d]
        BY <2>1, <2>2, <3>1
      <4>2. /\ \A i \in 1 .. Len(Tail(pipe[d])) - 1 :
                 Tail(pipe[d])[i + 1] = (Tail(pipe[d])[i] + 1) % 3
            /\ Tail(pipe[d]) # <<>> => Tail(pipe[d])[Len(Tail(pipe[d]))] = sent[d]
        BY <1>3, <3>1, TakesHead
      <4> QED BY <4>1, <4>2 DEF PipeOK
    <3>2. CASE d # Device(u)
      BY <1>3, <2>1, <3>2 DEF IInv, UInv, TypeOK, PipesOK, PipeOK
    <3> QED BY <3>1, <3>2
  <2>9. ReadersOK'
    <3> SUFFICES ASSUME NEW v \in Transports, connected'[v], last'[v] # None, Present(found[v])'
                 PROVE  (NextToRead(Device(v)) = (last[v] + 1) % 3)'
      BY DEF ReadersOK
    <3>1. Device(v)' = Device(v) /\ Present(found[v]) /\ connected[v]
      BY <2>1 DEF Device, Present, Attached, Ref
    <3>2. found[v] # None /\ transport[v] \in Handles /\ Device(v) \in Devices
      BY <3>1, RefParts DEF IInv, UInv, TypeOK, ObjectsOK, ObjectOK, Device
    <3>3. CASE v = u
      <4>1. last'[v] = Head(pipe[Device(v)])
        BY <1>3, <3>3 DEF IInv, UInv, TypeOK
      <4>2. IF Tail(pipe[Device(u)]) = <<>> THEN Head(pipe[Device(u)]) = sent[Device(u)]
               ELSE Head(Tail(pipe[Device(u)])) = (Head(pipe[Device(u)]) + 1) % 3
        BY <1>3, <2>1, TakesHead
      <4>3. NextToRead(Device(v))' = IF pipe'[Device(u)] = <<>> THEN (sent[Device(u)] + 1) % 3
                                                                 ELSE Head(pipe'[Device(u)])
        BY <2>1, <3>1, <3>3 DEF NextToRead
      <4> QED BY <2>2, <3>3, <4>1, <4>2, <4>3
    <3>4. CASE v # u
      <4>1. claim[Device(v)] = transport[v] /\ claim[Device(u)] = transport[u]
        BY <1>3, <3>1 DEF IInv, UInv, ClaimsOK, Usable
      <4>2. Device(v) # Device(u)
        BY <3>2, <3>4, <4>1 DEF IInv, UInv, HandlesApart
      <4>3. pipe'[Device(v)] = pipe[Device(v)] /\ last'[v] = last[v]
        BY <1>3, <3>2, <3>4, <4>2 DEF IInv, UInv, TypeOK
      <4>4. NextToRead(Device(v)) = (last[v] + 1) % 3
        BY <3>1, <4>3 DEF IInv, ReadersOK
      <4> QED BY <2>1, <3>1, <4>3, <4>4 DEF NextToRead
    <3> QED BY <3>3, <3>4
  <2> QED BY <2>5, <2>6, <2>7, <2>8, <2>9 DEF IInv, UInv
<1> QED BY <1>2, <1>3

(* A device that is plugged in or out is nobody's any more.                *)
LEMMA PlugStep ==
  ASSUME IInv, NEW d \in Devices, Plug(d)
  PROVE  IInv'
<1> USE NoneApart
<1>1. /\ plug' = [plug EXCEPT ![d] = @ + 1] /\ plug[d] < MaxPlugs[d]
      /\ pipe' = [pipe EXCEPT ![d] = <<>>] /\ sent' = [sent EXCEPT ![d] = 0]
      /\ claim' = [claim EXCEPT ![d] = None]
      /\ UNCHANGED <<open, found, want, transport, call, connected, last>>
  BY DEF Plug, object, ghosts
<1>2. PICK b \in BOOLEAN : driver' = [driver EXCEPT ![d] = b]
  <2>1. PICK bound \in BOOLEAN : driver' = [driver EXCEPT ![d] = Attached(d)' /\ bound]
    BY DEF Plug
  <2>2. (Attached(d)' /\ bound) \in BOOLEAN
    BY DEF Attached
  <2> QED BY <2>1, <2>2
<1>3. plug[d] \in 1 .. MaxPlugs[d] /\ MaxPlugs[d] \in Nat /\ plug \in [Devices -> Nat]
  BY Plugged, UsbAssumption DEF IInv, UInv, PlugsOK
<1>4. /\ plug'[d] = plug[d] + 1 /\ plug'[d] \in 1 .. MaxPlugs[d]
      /\ \A e \in Devices : e # d => plug'[e] = plug[e]
  BY <1>1, <1>3
<1>5. TypeOK'
  <2>1. \A e \in Devices : Ref(e)' \in Refs
    BY <1>4, RefOf DEF IInv, UInv, TypeOK, Ref
  <2> QED BY <1>1, <1>2, <2>1 DEF IInv, UInv, TypeOK, Numbers
<1>6. PlugsOK' /\ \A e \in Devices : plug'[e] \in Nat /\ plug[e] \in Nat /\ plug[e] <= plug'[e]
  BY <1>1, <1>3, <1>4 DEF PlugsOK
<1>7. ObjectsOK'
  <2> SUFFICES ASSUME NEW v \in Transports PROVE ObjectOK(v)'
    BY DEF ObjectsOK
  <2>1. ObjectOK(v)
    BY DEF IInv, UInv, ObjectsOK
  <2>2. found[v] # None => found[v][2] \in Nat /\ Device(v) \in Devices
    BY RefParts, UsbAssumption DEF IInv, UInv, TypeOK, Device
  <2>3. found[v] # None => found[v][2] <= plug'[Device(v)]
    BY <1>6, <2>1, <2>2 DEF ObjectOK
  <2> QED BY <1>1, <2>1, <2>3 DEF ObjectOK, Device
<1>8. HandlesApart'
  BY <1>1 DEF IInv, UInv, HandlesApart
<1>9. ASSUME NEW v \in Transports, connected[v], Present(found[v])'
      PROVE  Device(v) \in Devices /\ Device(v) # d /\ Present(found[v]) /\ Device(v)' = Device(v)
  <2>1. found[v] # None /\ found[v] \in Refs /\ Device(v) \in Devices /\ found[v][2] \in Nat
    BY <1>9, RefParts, UsbAssumption DEF IInv, UInv, TypeOK, ObjectsOK, ObjectOK, Device
  <2>2. found[v][2] <= plug[Device(v)] /\ found'[v] = found[v]
    BY <1>1, <2>1 DEF IInv, UInv, ObjectsOK, ObjectOK
  <2>3. plug'[Device(v)] = found[v][2]
    BY <1>9, <2>2 DEF Present, Ref, Device
  <2>4. Device(v) # d
    BY <1>3, <1>4, <2>1, <2>2, <2>3
  <2>5. plug'[Device(v)] = plug[Device(v)]
    BY <1>4, <2>1, <2>4
  <2> QED BY <1>9, <2>1, <2>2, <2>4, <2>5 DEF Present, Attached, Ref, Device
<1>10. ClaimsOK'
  <2> SUFFICES ASSUME NEW v \in Transports, connected'[v], Present(found[v])'
               PROVE  (claim[Device(v)] = transport[v] /\ ~driver[Device(v)])'
    BY DEF ClaimsOK
  <2>1. Device(v) \in Devices /\ Device(v) # d /\ Present(found[v]) /\ Device(v)' = Device(v) /\ connected[v]
    BY <1>1, <1>9
  <2>2. claim[Device(v)] = transport[v] /\ ~driver[Device(v)]
    BY <2>1 DEF IInv, UInv, ClaimsOK
  <2> QED BY <1>1, <1>2, <2>1, <2>2 DEF IInv, UInv, TypeOK
<1>11. ReadersOK'
  <2> SUFFICES ASSUME NEW v \in Transports, connected'[v], last'[v] # None, Present(found[v])'
               PROVE  (NextToRead(Device(v)) = (last[v] + 1) % 3)'
    BY DEF ReadersOK
  <2>1. Device(v) \in Devices /\ Device(v) # d /\ Present(found[v]) /\ Device(v)' = Device(v) /\ connected[v]
    BY <1>1, <1>9
  <2>2. NextToRead(Device(v)) = (last[v] + 1) % 3
    BY <1>1, <2>1 DEF IInv, ReadersOK
  <2>3. pipe'[Device(v)] = pipe[Device(v)] /\ sent'[Device(v)] = sent[Device(v)]
    BY <1>1, <2>1 DEF IInv, UInv, TypeOK
  <2> QED BY <1>1, <2>1, <2>2, <2>3 DEF NextToRead
<1>12. PipesOK'
  <2> SUFFICES ASSUME NEW e \in Devices PROVE PipeOK(e)'
    BY DEF PipesOK
  <2>1. CASE e = d
    <3>1. pipe'[e] = <<>>
      BY <1>1, <2>1 DEF IInv, UInv, TypeOK
    <3> QED BY <3>1 DEF PipeOK
  <2>2. CASE e # d
    BY <1>1, <2>2 DEF IInv, UInv, TypeOK, PipesOK, PipeOK
  <2> QED BY <2>1, <2>2
<1> QED BY <1>5, <1>6, <1>7, <1>8, <1>10, <1>11, <1>12 DEF IInv, UInv

LEMMA DevSendStep ==
  ASSUME IInv, NEW d \in Devices, DevSend(d)
  PROVE  IInv'
<1> USE NoneApart
<1> DEFINE n == (sent[d] + 1) % 3
           q == pipe[d]
<1>1. q \in Seq(Numbers) /\ sent[d] \in Numbers /\ n \in Numbers
  BY NextNumber DEF IInv, UInv, TypeOK
<1>2. /\ sent' = [sent EXCEPT ![d] = n] /\ sent'[d] = n
      /\ UNCHANGED <<plug, driver, claim, open, found, want, transport, call, connected, last>>
  BY DEF DevSend, IInv, UInv, TypeOK, object, ghosts
<1>3. pipe' = [pipe EXCEPT ![d] = Append(q, n)] /\ pipe'[d] = Append(q, n)
  BY <1>2 DEF DevSend, IInv, UInv, TypeOK
<1>4. \A e \in Devices : e # d => pipe'[e] = pipe[e] /\ sent'[e] = sent[e]
  BY <1>2, <1>3 DEF IInv, UInv, TypeOK
<1>5. /\ Append(q, n) \in Seq(Numbers) /\ Len(Append(q, n)) = Len(q) + 1 /\ Len(q) \in Nat
      /\ \A i \in 1 .. Len(q) : Append(q, n)[i] = q[i]
      /\ Append(q, n)[Len(q) + 1] = n /\ Append(q, n) # <<>>
      /\ Head(Append(q, n)) = IF q = <<>> THEN n ELSE Head(q)
      /\ q = <<>> <=> Len(q) = 0
  <2> HIDE DEF q, n
  <2> QED BY <1>1
<1>6. TypeOK'
  BY <1>1, <1>2, <1>3, <1>5 DEF IInv, UInv, TypeOK, Ref
<1>7. ObjectsOK' /\ HandlesApart' /\ PlugsOK'
  BY <1>2 DEF IInv, UInv, ObjectsOK, ObjectOK, HandlesApart, Device, PlugsOK
<1>8. ClaimsOK'
  BY <1>2 DEF IInv, UInv, ClaimsOK, Present, Attached, Ref, Device
<1>9. \A e \in Devices : NextToRead(e)' = NextToRead(e)
  <2> SUFFICES ASSUME NEW e \in Devices PROVE NextToRead(e)' = NextToRead(e)
    OBVIOUS
  <2>1. CASE e = d
    <3>1. NextToRead(e)' = Head(Append(q, n))
      BY <1>3, <1>5, <2>1 DEF NextToRead
    <3> QED BY <1>5, <2>1, <3>1 DEF NextToRead
  <2>2. CASE e # d
    BY <1>4, <2>2 DEF NextToRead
  <2> QED BY <2>1, <2>2
<1>10. ReadersOK'
  <2> SUFFICES ASSUME NEW v \in Transports, connected'[v], last'[v] # None, Present(found[v])'
               PROVE  (NextToRead(Device(v)) = (last[v] + 1) % 3)'
    BY DEF ReadersOK
  <2>1. /\ Device(v)' = Device(v) /\ Present(found[v]) /\ connected[v] /\ last'[v] = last[v]
        /\ Device(v) \in Devices
    BY <1>2, RefParts DEF Device, Present, Attached, Ref, IInv, UInv, TypeOK, ObjectsOK, ObjectOK
  <2>2. NextToRead(Device(v)) = (last[v] + 1) % 3
    BY <2>1 DEF IInv, ReadersOK
  <2> QED BY <1>9, <2>1, <2>2
<1>11. PipesOK'
  <2> SUFFICES ASSUME NEW e \in Devices PROVE PipeOK(e)'
    BY DEF PipesOK
  <2>1. CASE e = d
    <3>1. /\ \A i \in 1 .. Len(q) - 1 : q[i + 1] = (q[i] + 1) % 3
          /\ q # <<>> => q[Len(q)] = sent[d]
      BY DEF IInv, PipesOK, PipeOK
    <3>2. \A i \in 1 .. Len(q) : Append(q, n)[i + 1] = (Append(q, n)[i] + 1) % 3
      <4> SUFFICES ASSUME NEW i \in 1 .. Len(q)
                   PROVE  Append(q, n)[i + 1] = (Append(q, n)[i] + 1) % 3
        OBVIOUS
      <4>1. CASE i = Len(q)
        BY <1>5, <3>1, <4>1
      <4>2. CASE i # Len(q)
        <5>1. i \in 1 .. Len(q) - 1 /\ i + 1 \in 1 .. Len(q)
          BY <1>5, <4>2
        <5> QED BY <1>5, <3>1, <5>1
      <4> QED BY <4>1, <4>2
    <3>3. Len(Append(q, n)) - 1 = Len(q) /\ Append(q, n)[Len(Append(q, n))] = n
      BY <1>5
    <3> HIDE DEF q, n
    <3> QED BY <1>2, <1>3, <2>1, <3>2, <3>3 DEF PipeOK
  <2>2. CASE e # d
    BY <1>4, <2>2 DEF IInv, PipesOK, PipeOK
  <2> QED BY <2>1, <2>2
<1> QED BY <1>6, <1>7, <1>8, <1>10, <1>11 DEF IInv, UInv

(* Another process claims what nobody has, or gives back its own.          *)
LEMMA OtherStep ==
  ASSUME IInv, NEW d \in Devices, OtherProcess(d)
  PROVE  IInv'
<1> USE NoneApart
<1>1. /\ claim' = [claim EXCEPT ![d] = Elsewhere] \/ claim' = [claim EXCEPT ![d] = None]
      /\ claim[d] \in {None, Elsewhere}
      /\ UNCHANGED <<plug, driver, pipe, sent, open, found, want, transport, call, connected, last>>
  BY DEF OtherProcess, Claimable, bus, object, ghosts
<1>2. TypeOK'
  BY <1>1 DEF IInv, UInv, TypeOK, Ref
<1>3. ObjectsOK' /\ HandlesApart' /\ PlugsOK'
  BY <1>1 DEF IInv, UInv, ObjectsOK, ObjectOK, HandlesApart, Device, PlugsOK
<1>4. ClaimsOK'
  <2> SUFFICES ASSUME NEW v \in Transports, connected'[v], Present(found[v])'
               PROVE  (claim[Device(v)] = transport[v] /\ ~driver[Device(v)])'
    BY DEF ClaimsOK
  <2>1. Device(v)' = Device(v) /\ Present(found[v]) /\ connected[v]
    BY <1>1 DEF Device, Present, Attached, Ref
  <2>2. /\ claim[Device(v)] = transport[v] /\ ~driver[Device(v)] /\ transport[v] \in Handles
        /\ Device(v) \in Devices
    BY <2>1, RefParts DEF IInv, UInv, TypeOK, ClaimsOK, ObjectsOK, ObjectOK, Device
  <2>3. Device(v) # d
    BY <1>1, <2>2
  <2>4. claim'[Device(v)] = claim[Device(v)]
    BY <1>1, <2>2, <2>3 DEF IInv, UInv, TypeOK
  <2> QED BY <1>1, <2>1, <2>2, <2>4
<1>5. ReadersOK' /\ PipesOK'
  BY <1>1 DEF IInv, ReadersOK, PipesOK, PipeOK, NextToRead, Present, Attached, Ref, Device
<1> QED BY <1>2, <1>3, <1>4, <1>5 DEF IInv, UInv

-----------------------------------------------------------------------------

LEMMA Next_IInv == IInv /\ [Next]_vars => IInv'
<1> SUFFICES ASSUME IInv, [Next]_vars PROVE IInv'
  OBVIOUS
<1>1. ASSUME NEW u \in Transports, Calls(u)
      PROVE  IInv'
  BY <1>1, FindStep, ConnectStep, CloseStep, TransferStep DEF Calls, bulk_read, bulk_write
<1>2. ASSUME NEW u \in Transports, Method(u)
      PROVE  IInv'
  BY <1>2, DriverStep, DetachStep, ClaimStep, ReleaseStep, CloseTransportStep DEF Method
<1>3. ASSUME NEW u \in Transports, ReadReturns(u) \/ ReadRaises(u)
      PROVE  IInv'
  <2>1. CASE ReadReturns(u)
    BY <2>1, ReadStep DEF ReadReturns
  <2>2. CASE ReadRaises(u)
    BY <2>2, ReadStep DEF ReadRaises
  <2> QED BY <1>3, <2>1, <2>2
<1>4. ASSUME NEW u \in Transports, WriteEnds(u)
      PROVE  IInv'
  BY <1>4, OverStep DEF WriteEnds
<1>5. ASSUME NEW d \in Devices, Plug(d) \/ DevSend(d) \/ OtherProcess(d)
      PROVE  IInv'
  BY <1>5, PlugStep, DevSendStep, OtherStep
<1>6. CASE UNCHANGED vars
  <2>1. TypeOK' /\ PlugsOK'
    BY <1>6 DEF IInv, UInv, TypeOK, PlugsOK, Ref, vars, bus, object, ghosts
  <2>2. ObjectsOK' /\ HandlesApart'
    BY <1>6 DEF IInv, UInv, ObjectsOK, ObjectOK, HandlesApart, Device, vars, bus, object, ghosts
  <2>3. ClaimsOK' /\ ReadersOK' /\ PipesOK'
    BY <1>6 DEF IInv, UInv, ClaimsOK, ReadersOK, PipesOK, PipeOK, NextToRead, Present, Attached,
                Ref, Device, vars, bus, object, ghosts
  <2> QED BY <2>1, <2>2, <2>3 DEF IInv, UInv
<1> QED BY <1>1, <1>2, <1>3, <1>4, <1>5, <1>6, CollectStep DEF Next

(* Between connect and close, whatever other transports, processes and     *)
(* users do between the calls of libusb, an object has the handle of the   *)
(* device it was found for, and the interface as long as that is there.    *)
THEOREM ConnectedHasTheDevice == Spec => []ConnectedOwns
<1>1. IInv => ConnectedOwns
  <2> SUFFICES ASSUME IInv PROVE ConnectedOwns
    OBVIOUS
  <2> QED BY DEF IInv, UInv, ConnectedOwns, ObjectsOK, ObjectOK, ClaimsOK
<1> QED BY <1>1, Init_IInv, Next_IInv, PTL DEF Spec

(* A step which lets an object that stays connected know a transfer after  *)
(* one that it knew gives it the next that the device sent.                *)
LEMMA NoGapStep ==
  ASSUME IInv, [Next]_vars, NEW u \in Transports,
         connected[u], connected'[u], last'[u] # last[u], last[u] # None, last'[u] # None
  PROVE  last'[u] = (last[u] + 1) % 3
<1> USE NoneApart
<1>1. /\ connected \in [Transports -> BOOLEAN] /\ last \in [Transports -> Numbers \cup {None}]
      /\ ObjectOK(u)
  BY DEF IInv, UInv, TypeOK, ObjectsOK
<1>2. ASSUME NEW v \in Transports, ReadReturns(v)
      PROVE  last'[u] = (last[u] + 1) % 3
  <2>1. u = v /\ last'[u] = Head(pipe[Device(u)]) /\ pipe[Device(u)] # <<>>
    BY <1>1, <1>2 DEF ReadReturns
  <2>2. Present(found[u])
    BY <1>2, <2>1 DEF ReadReturns, Usable
  <2>3. NextToRead(Device(u)) = (last[u] + 1) % 3
    BY <2>2 DEF IInv, ReadersOK
  <2> QED BY <2>1, <2>3 DEF NextToRead
<1>3. \/ \E v \in Transports : ReadReturns(v)
      \/ \A v \in Transports : last'[v] \in {last[v], None}
  <2>1. ASSUME NEW v \in Transports, Calls(v) \/ Method(v) \/ ReadRaises(v) \/ WriteEnds(v)
        PROVE  \A w \in Transports : last'[w] \in {last[w], None}
    <3>1. CASE Calls(v)
      BY <1>1, <3>1 DEF Calls, find_adb, connect, close, bulk_read, bulk_write, Transfer, ghosts
    <3>2. CASE Method(v)
      BY <1>1, <3>2 DEF Method, KernelDriverActive, DetachKernelDriver, Assign, ClaimInterface,
                        ReleaseInterface, CloseTransport, ghosts
    <3>3. CASE ReadRaises(v) \/ WriteEnds(v)
      BY <1>1, <3>3 DEF ReadRaises, WriteEnds, ghosts
    <3> QED BY <2>1, <3>1, <3>2, <3>3
  <2>2. ASSUME NEW h \in Handles, Collect(h) PROVE last' = last
    BY <2>2 DEF Collect, ghosts
  <2>3. ASSUME NEW d \in Devices, Plug(d) \/ DevSend(d) \/ OtherProcess(d) PROVE last' = last
    BY <2>3 DEF Plug, DevSend, OtherProcess, ghosts
  <2>4. CASE UNCHANGED vars
    BY <2>4 DEF vars, ghosts
  <2> QED BY <2>1, <2>2, <2>3, <2>4 DEF Next
<1> QED BY <1>2, <1>3

(* What an object reads is a stretch of what its device sent, without a    *)
(* gap and in order, unless a read raised.                                 *)
THEOREM ReadsWithoutGap == Spec => NoSilentGap
<1>1. IInv /\ [Next]_vars =>
        [\A u \in Transports :
           connected[u] /\ connected'[u] /\ last'[u] # last[u] /\ None \notin {last[u], last'[u]}
           => last'[u] = (last[u] + 1) % 3]_vars
  BY NoGapStep
<1> QED BY <1>1, Init_IInv, Next_IInv, PTL DEF Spec, NoSilentGap
=============================================================================
