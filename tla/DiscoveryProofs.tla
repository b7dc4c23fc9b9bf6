--------------------------- MODULE DiscoveryProofs ---------------------------
(***************************************************************************)
(* Proofs about Discovery: what is returned is exactly what is there when  *)
(* the network came to rest in time, and zeroconf is closed in the end.    *)
(***************************************************************************)
EXTENDS Discovery, FiniteSetTheorems, TLAPS

(* What discovery has to return of s.                                      *)
Expected(s) ==
  IF Reachable(s) THEN [host |-> Host(Addresses(net[s].families)), port |-> net[s].port]
                  ELSE None

(* The last event to be delivered tells whether s is there.                *)
LastEventOK(s) ==
  events[s] # <<>> => (events[s][Len(events[s])] = "remove" <=> net[s] = None)

(* Until the time to listen is over the events may be behind the network;  *)
(* from then on, in a settled discovery, there are none.                   *)
SyncOK(s) ==
  /\ LastEventOK(s)
  /\ pc # "sleep" => events[s] = <<>> /\ s \notin resolving
  /\ events[s] = <<>> =>
       IF s \in resolving THEN net[s] # None ELSE results[s] = Expected(s)

(* The loop goes once through the services that are there.                 *)
AsyncOK(s) ==
  /\ LastEventOK(s)
  /\ events[s] = <<>> => (s \in observed <=> net[s] # None)
  /\ pc # "sleep" => events[s] = <<>>
  /\ pc = "sleep" => results[s] = None
  /\ pc \in {"loop", "resolve"} =>
       /\ ~loop.mixed
       /\ s \in loop.seen => s \in observed
       /\ s \in resolving => s \in loop.seen
       /\ results[s] = IF s \in loop.seen \ resolving THEN Expected(s) ELSE None
  /\ outcome = "found" => results[s] = Expected(s)

Settled == ~unsettled /\ outcome \in {"none", "found"}

SettledOK == Settled => \A s \in Services : IF async THEN AsyncOK(s) ELSE SyncOK(s)

(* What the steps of the two programs leave behind them.                   *)
Phase ==
  /\ ~async => pc \in {"sleep", "close", "return", "end"} /\ outcome \in {"none", "found"}
  /\ outcome = "none" <=> pc \in {"sleep", "loop", "resolve"}
  /\ IsFiniteSet(observed)
  /\ async => resolving = {} \/ \E s \in Services : resolving = {s}

(* The finally clause closes what is open.                                 *)
ClosingOK ==
  /\ pc \in {"return", "end"} /\ ~cut => closed
  /\ async /\ pc \in {"close", "return", "end"} /\ ~cut => browsers = {}

PInv == TypeOK /\ Phase /\ ClosingOK

IInv == PInv /\ SettledOK

-----------------------------------------------------------------------------
(* The finite sets: at most one service is resolved by the task, and the   *)
(* services observed are counted.                                          *)

LEMMA AtMostOne ==
  ASSUME NEW R, R = {} \/ \E s \in Services : R = {s}
  PROVE  Cardinality(R) <= 1
<1>1. CASE R = {}
  <2>1. Cardinality(R) = 0
    BY <1>1, FS_EmptySet
  <2> QED BY <2>1
<1>2. CASE \E s \in Services : R = {s}
  <2>1. Cardinality(R) = 1
    BY <1>2, FS_Singleton
  <2> QED BY <2>1
<1> QED BY <1>1, <1>2

LEMMA Observed ==
  ASSUME NEW O, IsFiniteSet(O), NEW s
  PROVE  /\ IsFiniteSet(O \cup {s}) /\ IsFiniteSet(O \ {s})
         /\ Cardinality(O) \in Nat
BY FS_AddElement, FS_RemoveElement, FS_CardinalityType, Zenon

-----------------------------------------------------------------------------
(* TypeOK, Phase and ClosingOK.                                            *)

(* The types of the variables the steps change most.                       *)
LEMMA Types ==
  ASSUME TypeOK
  PROVE  /\ events \in [Services -> Seq({"add", "update", "remove"})]
         /\ changes \in 0 .. MaxChanges /\ cancels \in 0 .. MaxCancels
         /\ net \in [Services -> Records \cup {None}]
         /\ results \in [Services -> Entry \cup {None}]
         /\ loop \in [seen : SUBSET Services, size : Nat, mixed : BOOLEAN]
         /\ observed \subseteq Services /\ resolving \subseteq Services
         /\ async \in BOOLEAN /\ unsettled \in BOOLEAN /\ cut \in BOOLEAN
BY DEF TypeOK

LEMMA CountUp ==
  ASSUME NEW n, NEW max \in Nat, n \in 0 .. max, n < max
  PROVE  n + 1 \in 0 .. max
OBVIOUS

(* An event more, an event less.                                           *)
LEMMA EventsType ==
  ASSUME TypeOK, NEW s \in Services, NEW event \in {"add", "update", "remove"}
  PROVE  /\ [events EXCEPT ![s] = Append(@, event)]
              \in [Services -> Seq({"add", "update", "remove"})]
         /\ events[s] # <<>> =>
              [events EXCEPT ![s] = Tail(@)] \in [Services -> Seq({"add", "update", "remove"})]
<1>1. events[s] \in Seq({"add", "update", "remove"})
  BY Types
<1>2. Append(events[s], event) \in Seq({"add", "update", "remove"})
  BY <1>1
<1>3. events[s] # <<>> => Tail(events[s]) \in Seq({"add", "update", "remove"})
  BY <1>1
<1>4. events \in [Services -> Seq({"add", "update", "remove"})]
  BY Types
<1> QED BY <1>2, <1>3, <1>4

LEMMA InitPInv == Init => PInv
<1> SUFFICES ASSUME Init PROVE PInv
  OBVIOUS
<1>1. IsFiniteSet({})
  BY FS_EmptySet
<1>2. Phase
  BY <1>1 DEF Init, Phase
<1>3. ClosingOK
  BY DEF Init, ClosingOK
<1>4. events \in [Services -> Seq({"add", "update", "remove"})]
  BY DEF Init
<1>5. TypeOK
  <2>1. Cardinality(resolving) <= 1
    BY AtMostOne DEF Init
  <2>2. 0 \in 0 .. MaxChanges /\ 0 \in 0 .. MaxCancels
    BY DiscoveryAssumption
  <2> QED BY <1>4, <2>1, <2>2 DEF Init, TypeOK, NoLoop
<1> QED BY <1>2, <1>3, <1>5 DEF PInv

LEMMA ChangePInv ==
  ASSUME PInv, NEW s \in Services, NEW now \in Records \cup {None},
         NEW event \in {"add", "update", "remove"}, Change(s, now, event)
  PROVE  PInv'
<1> USE DEF Change, task
<1>1. Phase'
  BY DEF PInv, Phase
<1>2. ClosingOK'
  BY DEF PInv, ClosingOK
<1>3. events' \in [Services -> Seq({"add", "update", "remove"})]
  BY EventsType DEF PInv
<1>4. changes' \in 0 .. MaxChanges
  BY CountUp, Types, DiscoveryAssumption DEF PInv
<1>5. net' \in [Services -> Records \cup {None}]
  BY Types DEF PInv
<1>6. TypeOK'
  BY <1>3, <1>4, <1>5 DEF PInv, TypeOK
<1> QED BY <1>1, <1>2, <1>6 DEF PInv

LEMMA NetworkPInv ==
  ASSUME PInv, Network
  PROVE  PInv'
<1>1. CASE \E s \in Services, f \in Families :
              Change(s, [families |-> f, port |-> changes], IF net[s] = None THEN "add" ELSE "update")
  <2>1. changes \in 0 .. MaxChanges
    BY DEF PInv, TypeOK
  <2>2. \A f \in Families : [families |-> f, port |-> changes] \in Records
    BY <2>1 DEF Records
  <2> QED BY <1>1, <2>2, ChangePInv
<1>2. CASE \E s \in Services : Change(s, None, "remove")
  BY <1>2, ChangePInv
<1> QED BY <1>1, <1>2 DEF Network

(* What a listener does with an event.                                     *)
LEMMA ListenerPInv ==
  ASSUME PInv, NEW s \in Services, AddService(s) \/ RemoveService(s) \/ Collect(s)
  PROVE  PInv'
<1> USE DEF Deliver, task, ghosts
<1>1. CASE AddService(s)
  <2> USE <1>1 DEF AddService
  <2>1. Phase'
    BY DEF PInv, Phase
  <2>2. ClosingOK'
    BY DEF PInv, ClosingOK
  <2>3. events' \in [Services -> Seq({"add", "update", "remove"})]
    BY EventsType DEF PInv
  <2>4. resolving' \subseteq Services /\ ~async'
    BY Types DEF PInv
  <2>5. UNCHANGED <<net, changes, results, observed, loop, pc, browsers, closed, outcome, cancels,
                    unsettled, cut, async>>
    OBVIOUS
  <2>6. TypeOK'
    BY <2>3, <2>4, <2>5 DEF PInv, TypeOK
  <2> QED BY <2>1, <2>2, <2>6 DEF PInv
<1>2. CASE RemoveService(s)
  <2> USE <1>2 DEF RemoveService
  <2>1. Phase'
    BY DEF PInv, Phase
  <2>2. ClosingOK'
    BY DEF PInv, ClosingOK
  <2>3. events' \in [Services -> Seq({"add", "update", "remove"})]
    BY EventsType DEF PInv
  <2>4. results' \in [Services -> Entry \cup {None}]
    BY Types DEF PInv
  <2>5. TypeOK'
    BY <2>3, <2>4 DEF PInv, TypeOK
  <2> QED BY <2>1, <2>2, <2>5 DEF PInv
<1>3. CASE Collect(s)
  <2>1. /\ async /\ UNCHANGED <<async, net, changes, pc, browsers, closed, outcome, cancels,
                                unsettled, cut, resolving, results>>
        /\ events' = [events EXCEPT ![s] = Tail(@)] /\ events[s] # <<>>
        /\ loop' = [loop EXCEPT !.mixed = @ \/ observed' # observed]
        /\ observed' = observed \cup {s} \/ observed' = observed \ {s}
    BY <1>3 DEF Collect
  <2>2. Phase'
    <3>1. IsFiniteSet(observed')
      <4>1. IsFiniteSet(observed \cup {s}) /\ IsFiniteSet(observed \ {s})
        BY Observed DEF PInv, Phase
      <4> QED BY <2>1, <4>1
    <3> QED BY <2>1, <3>1 DEF PInv, Phase
  <2>3. ClosingOK'
    BY <2>1 DEF PInv, ClosingOK
  <2>4. events' \in [Services -> Seq({"add", "update", "remove"})]
    BY <2>1, EventsType DEF PInv
  <2>5. loop' \in [seen : SUBSET Services, size : Nat, mixed : BOOLEAN]
    BY <2>1, Types DEF PInv
  <2>6. TypeOK'
    BY <2>1, <2>4, <2>5 DEF PInv, TypeOK
  <2> QED BY <2>2, <2>3, <2>6 DEF PInv
<1> QED BY <1>1, <1>2, <1>3

(* What an answer stores is an entry.                                      *)
LEMMA StoredType ==
  ASSUME TypeOK, NEW s \in Services, net[s] # None
  PROVE  Stored(s) \in [Services -> Entry \cup {None}]
<1>1. net[s] \in Records
  BY DEF TypeOK
<1>2. \A f : [host |-> Host(f), port |-> net[s].port] \in Entry
  BY <1>1 DEF Records, Entry, Host
<1> QED BY <1>2 DEF Stored, TypeOK

LEMMA AnswerPInv ==
  ASSUME PInv, NEW s \in Services, Answer(s)
  PROVE  PInv'
<1> USE DEF Answer
<1>1. results' \in [Services -> Entry \cup {None}]
  BY StoredType DEF PInv, TypeOK
<1>2. async => resolving' = {}
  BY DEF PInv, Phase
<1>3. async => pc = "resolve"
  BY DEF PInv, TypeOK
<1>4. Phase'
  BY <1>2, <1>3 DEF PInv, Phase
<1>5. ClosingOK'
  BY <1>3 DEF PInv, ClosingOK
<1>6. TypeOK'
  BY <1>1, <1>2, AtMostOne DEF PInv, TypeOK
<1> QED BY <1>4, <1>5, <1>6 DEF PInv

(* The steps of the two programs.                                          *)
LEMMA ProgramPInv ==
  ASSUME PInv,
         WakeUp \/ NextObserved \/ IterationError \/ CancelBrowser \/ Close \/ Return \/ Cancel
  PROVE  PInv'
<1> USE DEF elsewhere, ghosts, Goto
<1>1. CASE WakeUp
  <2> USE <1>1 DEF WakeUp
  <2>1. Phase'
    BY DEF PInv, Phase
  <2>2. ClosingOK'
    BY DEF PInv, ClosingOK
  <2>3. loop' \in [seen : SUBSET Services, size : Nat, mixed : BOOLEAN]
    <3>1. Cardinality(observed) \in Nat
      BY Observed DEF PInv, Phase
    <3> QED BY <3>1, Types DEF PInv, NoLoop
  <2>4. TypeOK'
    BY <2>3 DEF PInv, TypeOK
  <2> QED BY <2>1, <2>2, <2>4 DEF PInv
<1>2. CASE NextObserved
  <2>1. CASE \E s \in observed : /\ loop' = [loop EXCEPT !.seen = @ \cup {s}]
                                 /\ resolving' = {s} /\ pc' = "resolve"
                                 /\ UNCHANGED <<outcome, elsewhere, browsers, closed, cancels, ghosts>>
    <3> PICK s \in observed : /\ loop' = [loop EXCEPT !.seen = @ \cup {s}]
                              /\ resolving' = {s} /\ pc' = "resolve"
                              /\ UNCHANGED <<outcome, elsewhere, browsers, closed, cancels, ghosts>>
      BY <2>1
    <3>1. s \in Services /\ async /\ pc = "loop"
      BY <1>2 DEF PInv, TypeOK, Phase, NextObserved
    <3>2. Phase'
      BY <3>1 DEF PInv, Phase
    <3>3. ClosingOK'
      BY DEF PInv, ClosingOK
    <3>4. loop' \in [seen : SUBSET Services, size : Nat, mixed : BOOLEAN]
      BY <3>1 DEF PInv, TypeOK
    <3>5. TypeOK'
      BY <3>1, <3>4, AtMostOne DEF PInv, TypeOK
    <3> QED BY <3>2, <3>3, <3>5 DEF PInv
  <2>2. CASE /\ pc' = "cancel_browsers" /\ outcome' = "found"
             /\ UNCHANGED <<elsewhere, loop, resolving, browsers, closed, cancels, ghosts>>
    <3>1. async /\ pc = "loop"
      BY <1>2 DEF PInv, Phase, NextObserved
    <3>2. TypeOK' /\ Phase' /\ ClosingOK'
      BY <2>2, <3>1 DEF PInv, TypeOK, Phase, ClosingOK
    <3> QED BY <3>2 DEF PInv
  <2> QED BY <1>2, <2>1, <2>2 DEF NextObserved
<1>3. CASE IterationError
  <2>1. async
    BY <1>3 DEF IterationError, PInv, Phase
  <2> QED BY <1>3, <2>1 DEF IterationError, PInv, TypeOK, Phase, ClosingOK
<1>4. CASE CancelBrowser
  <2>1. async
    BY <1>4 DEF CancelBrowser, PInv, Phase
  <2> QED BY <1>4, <2>1 DEF CancelBrowser, PInv, TypeOK, Phase, ClosingOK
<1>5. CASE Close
  BY <1>5 DEF Close, PInv, TypeOK, Phase, ClosingOK
<1>6. CASE Return
  BY <1>6 DEF Return, PInv, TypeOK, Phase, ClosingOK
<1>7. CASE Cancel
  <2>1. cancels' \in 0 .. MaxCancels
    BY <1>7, CountUp, Types, DiscoveryAssumption DEF Cancel, PInv
  <2>2. TypeOK'
    BY <1>7, <2>1, AtMostOne DEF Cancel, AfterCancel, InFinally, PInv, TypeOK
  <2>3. Phase' /\ ClosingOK'
    BY <1>7 DEF Cancel, AfterCancel, InFinally, PInv, Phase, ClosingOK
  <2> QED BY <2>2, <2>3 DEF PInv
<1> QED BY <1>1, <1>2, <1>3, <1>4, <1>5, <1>6, <1>7

LEMMA StutterPInv ==
  ASSUME PInv, UNCHANGED vars
  PROVE  PInv'
BY DEF PInv, TypeOK, Phase, ClosingOK, vars, task, ghosts

LEMMA NextPInv == PInv /\ [Next]_vars => PInv'
<1> SUFFICES ASSUME PInv, [Next]_vars PROVE PInv'
  OBVIOUS
<1>1. CASE Network
  BY <1>1, NetworkPInv
<1>2. CASE \E s \in Services : AddService(s) \/ RemoveService(s) \/ Collect(s)
  BY <1>2, ListenerPInv
<1>3. CASE \E s \in Services : Answer(s)
  BY <1>3, AnswerPInv
<1>4. CASE WakeUp \/ NextObserved \/ IterationError \/ CancelBrowser \/ Close \/ Return \/ Cancel
  BY <1>4, ProgramPInv
<1>5. CASE Ended \/ UNCHANGED vars
  BY <1>5, StutterPInv DEF Ended
<1> QED BY <1>1, <1>2, <1>3, <1>4, <1>5 DEF Next

(* However discovery ends, zeroconf is closed and the async browsers are   *)
(* cancelled, unless a cancellation struck inside the finally clause.      *)
THEOREM EndsClosed == Spec => []ClosedAtEnd
<1>1. PInv => ClosedAtEnd
  BY DEF PInv, ClosingOK, ClosedAtEnd
<1> QED BY <1>1, InitPInv, NextPInv, PTL DEF Spec

-----------------------------------------------------------------------------
(* SettledOK.                                                              *)

(* The last event of a queue with one event more, and with one less.       *)
LEMMA LastOfAppend ==
  ASSUME NEW S, NEW q \in Seq(S), NEW e \in S
  PROVE  Append(q, e) # <<>> /\ Append(q, e)[Len(Append(q, e))] = e
OBVIOUS

LEMMA LastOfTail ==
  ASSUME NEW S, NEW q \in Seq(S), q # <<>>
  PROVE  /\ Tail(q) # <<>> => Tail(q)[Len(Tail(q))] = q[Len(q)]
         /\ Tail(q) = <<>> => q[Len(q)] = Head(q)
<1>1. Len(q) \in Nat \ {0} /\ Tail(q) \in Seq(S) /\ Len(Tail(q)) = Len(q) - 1
      /\ \A i \in 1 .. Len(q) - 1 : Tail(q)[i] = q[i + 1]
  OBVIOUS
<1>2. ASSUME NEW t \in Seq(S) PROVE t = <<>> <=> Len(t) = 0
  OBVIOUS
<1>3. Tail(q) = <<>> <=> Len(q) = 1
  BY <1>1, <1>2
<1>4. Head(q) = q[1]
  OBVIOUS
<1>5. Len(q) > 1 => Tail(q)[Len(q) - 1] = q[Len(q)]
  <2> SUFFICES ASSUME Len(q) > 1 PROVE Tail(q)[Len(q) - 1] = q[Len(q)]
    OBVIOUS
  <2>1. Len(q) - 1 \in 1 .. Len(q) - 1 /\ (Len(q) - 1) + 1 = Len(q)
    BY <1>1
  <2> QED BY <1>1, <2>1
<1> QED BY <1>1, <1>3, <1>4, <1>5

(* A service is there or is not; what has to be returned of it.            *)
LEMMA InitSettled == Init => SettledOK
<1> SUFFICES ASSUME Init, NEW s \in Services
             PROVE  IF async THEN AsyncOK(s) ELSE SyncOK(s)
  BY DEF SettledOK
<1>1. events[s] = <<>> /\ net[s] = None /\ results[s] = None /\ pc = "sleep"
      /\ resolving = {} /\ observed = {} /\ outcome = "none"
  BY DEF Init
<1>2. Expected(s) = None
  BY <1>1 DEF Expected, Reachable
<1> QED BY <1>1, <1>2 DEF AsyncOK, SyncOK, LastEventOK

(* What is known of s stays known while its records and events stay.       *)
LEMMA ExpectedSame ==
  ASSUME NEW s, UNCHANGED async, net'[s] = net[s]
  PROVE  Expected(s)' = Expected(s)
BY DEF Expected, Reachable, Addresses

LEMMA ChangeSettled ==
  ASSUME PInv, SettledOK, NEW r \in Services, NEW now, NEW event \in {"add", "update", "remove"},
         event = "remove" <=> now = None,
         Change(r, now, event)
  PROVE  SettledOK'
<1> SUFFICES ASSUME Settled', NEW s \in Services
             PROVE  IF async' THEN AsyncOK(s)' ELSE SyncOK(s)'
  BY DEF SettledOK
<1>1. pc = "sleep" /\ outcome = "none" /\ Settled
  BY DEF Change, task, Settled, PInv, Phase, TypeOK
<1>2. UNCHANGED <<async, results, observed, loop, pc, outcome, resolving>>
  BY DEF Change, task
<1>3. IF async THEN AsyncOK(s) ELSE SyncOK(s)
  BY <1>1 DEF SettledOK
<1>4. CASE s = r
  <2>1. events'[s] = Append(events[s], event) /\ net'[s] = now
    BY <1>4, Types DEF Change, PInv
  <2>2. events[s] \in Seq({"add", "update", "remove"})
    BY Types DEF PInv
  <2>3. events'[s] # <<>> /\ events'[s][Len(events'[s])] = event
    BY <2>1, <2>2, LastOfAppend
  <2>4. LastEventOK(s)'
    BY <2>1, <2>3 DEF LastEventOK
  <2> QED BY <1>1, <1>2, <1>3, <2>3, <2>4 DEF AsyncOK, SyncOK
<1>5. CASE s # r
  <2>1. events'[s] = events[s] /\ net'[s] = net[s]
    BY <1>5, Types DEF Change, PInv
  <2>2. Expected(s)' = Expected(s)
    BY <1>2, <2>1, ExpectedSame
  <2> QED BY <1>1, <1>2, <1>3, <2>1, <2>2 DEF AsyncOK, SyncOK, LastEventOK
<1> QED BY <1>4, <1>5

LEMMA NetworkSettled ==
  ASSUME PInv, SettledOK, Network
  PROVE  SettledOK'
<1>1. CASE \E s \in Services, f \in Families :
              Change(s, [families |-> f, port |-> changes], IF net[s] = None THEN "add" ELSE "update")
  <2> PICK s \in Services, f \in Families :
              Change(s, [families |-> f, port |-> changes], IF net[s] = None THEN "add" ELSE "update")
    BY <1>1
  <2>1. [families |-> f, port |-> changes] # None
    BY Types, DiscoveryAssumption DEF PInv
  <2> QED BY <2>1, ChangeSettled
<1>2. CASE \E s \in Services : Change(s, None, "remove")
  BY <1>2, ChangeSettled
<1> QED BY <1>1, <1>2 DEF Network

(* An event is delivered; the others wait.                                 *)
LEMMA AfterDeliver ==
  ASSUME PInv, NEW r \in Services, NEW event, Deliver(r, event), NEW s \in Services,
         LastEventOK(s)
  PROVE  /\ LastEventOK(s)'
         /\ UNCHANGED <<async, net, pc, outcome, unsettled>> /\ events[r] # <<>>
         /\ s # r => events'[s] = events[s]
         /\ s = r /\ events'[s] = <<>> => (event = "remove" <=> net[s] = None)
<1>1. /\ UNCHANGED <<async, net, pc, outcome, unsettled>>
      /\ events[r] # <<>> /\ Head(events[r]) = event
      /\ events'[s] = IF s = r THEN Tail(events[s]) ELSE events[s]
  BY Types DEF Deliver, PInv, task, ghosts
<1>2. events[s] \in Seq({"add", "update", "remove"})
  BY Types DEF PInv
<1>3. CASE s = r
  BY <1>1, <1>2, <1>3, LastOfTail DEF LastEventOK
<1>4. CASE s # r
  BY <1>1, <1>4 DEF LastEventOK
<1> QED BY <1>1, <1>3, <1>4

LEMMA ListenerSettled ==
  ASSUME PInv, SettledOK, NEW r \in Services, AddService(r) \/ RemoveService(r) \/ Collect(r)
  PROVE  SettledOK'
<1> SUFFICES ASSUME Settled', NEW s \in Services
             PROVE  IF async' THEN AsyncOK(s)' ELSE SyncOK(s)'
  BY DEF SettledOK
<1>1. PICK event \in {"add", "update", "remove"} :
        /\ Deliver(r, event)
        /\ \/ ~async /\ event # "remove" /\ resolving' = resolving \cup {r}
              /\ UNCHANGED <<results, observed, loop>>
           \/ ~async /\ event = "remove" /\ results' = [results EXCEPT ![r] = None]
              /\ r \notin resolving /\ UNCHANGED <<resolving, observed, loop>>
           \/ async /\ event # "remove" /\ observed' = observed \cup {r}
              /\ UNCHANGED <<resolving, results>>
           \/ async /\ event = "remove" /\ observed' = observed \ {r}
              /\ UNCHANGED <<resolving, results>>
  BY DEF AddService, RemoveService, Collect, Resolved
<1>2. UNCHANGED <<async, net, pc, outcome, unsettled>> /\ events[r] # <<>>
  BY <1>1, Types DEF Deliver, PInv, task, ghosts
<1>3. Settled
  BY <1>2 DEF Settled
<1>4. \A x \in Services : IF async THEN AsyncOK(x) ELSE SyncOK(x)
  BY <1>3 DEF SettledOK
<1>5. pc = "sleep" /\ outcome = "none"
  BY <1>2, <1>3, <1>4 DEF AsyncOK, SyncOK, PInv, Phase
<1>6. LastEventOK(s)
  BY <1>4 DEF AsyncOK, SyncOK
<1>7. /\ LastEventOK(s)'
      /\ s # r => events'[s] = events[s]
      /\ s = r /\ events'[s] = <<>> => (event = "remove" <=> net[s] = None)
  BY <1>1, <1>6, AfterDeliver
<1>8. Expected(s)' = Expected(s)
  BY <1>2, ExpectedSame
<1>9. net[s] = None => Expected(s) = None
  BY DEF Expected, Reachable
<1>10. CASE async
  <2>1. AsyncOK(s)
    BY <1>4, <1>10
  <2> QED BY <1>1, <1>2, <1>5, <1>7, <1>10, <2>1 DEF AsyncOK
<1>11. CASE ~async
  <2>1. SyncOK(s)
    BY <1>4, <1>11
  <2>2. results'[s] = IF s = r /\ event = "remove" THEN None ELSE results[s]
    BY <1>1, <1>11, Types DEF PInv
  <2>3. s \in resolving' <=> s \in resolving \/ (s = r /\ event # "remove")
    BY <1>1, <1>11
  <2>4. s = r /\ event = "remove" => s \notin resolving
    BY <1>1, <1>11
  <2> QED BY <1>2, <1>5, <1>7, <1>8, <1>9, <1>11, <2>1, <2>2, <2>3, <2>4 DEF SyncOK
<1> QED BY <1>2, <1>10, <1>11

(* An answer that is not lost stores what has to be returned.              *)
LEMMA StoredIsExpected ==
  ASSUME PInv, NEW s \in Services, net[s] # None,
         ~async \/ results[s] = None,
         NEW x \in Services
  PROVE  Stored(s)[x] = IF x = s THEN Expected(s) ELSE results[x]
<1>1. net[s] \in Records /\ results \in [Services -> Entry \cup {None}]
  BY Types DEF PInv
<1>2. net[s].families \in Families
  BY <1>1 DEF Records
<1>3. CASE Addresses(net[s].families) = {}
  <2>1. async
    BY <1>2, <1>3, DiscoveryAssumption DEF Addresses
  <2>2. Expected(s) = None /\ Stored(s) = results
    BY <1>3 DEF Expected, Reachable, Stored
  <2> QED BY <2>1, <2>2
<1>4. CASE Addresses(net[s].families) # {}
  <2>1. Expected(s) = [host |-> Host(Addresses(net[s].families)), port |-> net[s].port]
    BY <1>4 DEF Expected, Reachable
  <2>2. Stored(s) = [results EXCEPT ![s] = Expected(s)]
    BY <1>4, <2>1 DEF Stored
  <2> QED BY <1>1, <2>2
<1> QED BY <1>3, <1>4

LEMMA AnswerSettled ==
  ASSUME PInv, SettledOK, NEW r \in Services, Answer(r)
  PROVE  SettledOK'
<1> SUFFICES ASSUME Settled', NEW s \in Services
             PROVE  IF async' THEN AsyncOK(s)' ELSE SyncOK(s)'
  BY DEF SettledOK
<1>1. /\ r \in resolving /\ resolving' = resolving \ {r}
      /\ UNCHANGED <<async, net, events, observed, loop, outcome>>
      /\ pc' = IF async THEN "loop" ELSE pc
  BY DEF Answer
<1>2. \/ net[r] # None /\ results' = Stored(r)
      \/ net[r] = None /\ results' = results
  BY DEF Answer, Settled
<1>3. Settled
  <2>1. unsettled' = unsettled \/ unsettled' = (unsettled \/ net[r] # None)
    BY DEF Answer
  <2>2. ~unsettled'
    BY DEF Settled
  <2>3. ~unsettled
    BY <2>1, <2>2, Zenon
  <2> QED BY <1>1, <2>3 DEF Settled
<1>4. \A x \in Services : IF async THEN AsyncOK(x) ELSE SyncOK(x)
  BY <1>3 DEF SettledOK
<1>5. Expected(s)' = Expected(s)
  BY <1>1, ExpectedSame
<1>6. net[r] = None => Expected(r) = None
  BY DEF Expected, Reachable
<1>7. CASE async
  <2>1. pc = "resolve" /\ outcome = "none"
    BY <1>1, <1>7 DEF PInv, TypeOK, Phase
  <2>2. AsyncOK(r) /\ AsyncOK(s)
    BY <1>4, <1>7
  <2>3. results[r] = None /\ r \in loop.seen
    BY <1>1, <2>1, <2>2 DEF AsyncOK
  <2>4. results'[s] = IF s = r THEN Expected(r) ELSE results[s]
    BY <1>2, <1>6, <2>3, StoredIsExpected
  <2>5. results'[s] = IF s \in loop.seen \ resolving' THEN Expected(s) ELSE None
    BY <1>1, <2>1, <2>2, <2>3, <2>4 DEF AsyncOK
  <2> QED BY <1>1, <1>5, <1>7, <2>1, <2>2, <2>5 DEF AsyncOK, LastEventOK
<1>8. CASE ~async
  <2>1. SyncOK(r) /\ SyncOK(s)
    BY <1>4, <1>8
  <2>2. s # r => results'[s] = results[s]
    BY <1>2, <1>8, StoredIsExpected
  <2>3. net[r] # None => results'[r] = Expected(r)
    BY <1>2, <1>8, StoredIsExpected
  <2> QED BY <1>1, <1>5, <1>8, <2>1, <2>2, <2>3 DEF SyncOK, LastEventOK
<1> QED BY <1>1, <1>7, <1>8

LEMMA WakeUpSettled ==
  ASSUME PInv, SettledOK, WakeUp
  PROVE  SettledOK'
<1> SUFFICES ASSUME Settled', NEW s \in Services
             PROVE  IF async' THEN AsyncOK(s)' ELSE SyncOK(s)'
  BY DEF SettledOK
<1>1. UNCHANGED <<async, net, events, results, observed, resolving>> /\ pc = "sleep"
  BY DEF WakeUp, elsewhere
<1>2. ~unsettled /\ resolving = {} /\ events[s] = <<>>
  BY DEF WakeUp, Settled
<1>3. outcome = "none"
  BY <1>1 DEF PInv, Phase
<1>4. IF async THEN AsyncOK(s) ELSE SyncOK(s)
  BY <1>2, <1>3 DEF SettledOK, Settled
<1>5. Expected(s)' = Expected(s)
  BY <1>1, ExpectedSame
<1>6. CASE async
  <2>1. pc' = "loop" /\ outcome' = "none" /\ loop'.seen = {} /\ loop'.mixed = FALSE
    BY <1>3, <1>6 DEF WakeUp, Goto, NoLoop
  <2> QED BY <1>1, <1>2, <1>4, <1>6, <2>1 DEF AsyncOK, LastEventOK
<1>7. CASE ~async
  BY <1>1, <1>2, <1>4, <1>5, <1>7 DEF SyncOK, LastEventOK
<1> QED BY <1>1, <1>6, <1>7

LEMMA LoopSettled ==
  ASSUME PInv, SettledOK, NextObserved
  PROVE  SettledOK'
<1> SUFFICES ASSUME Settled', NEW s \in Services
             PROVE  IF async' THEN AsyncOK(s)' ELSE SyncOK(s)'
  BY DEF SettledOK
<1>1. UNCHANGED <<async, net, events, results, observed>> /\ pc = "loop" /\ async
      /\ outcome = "none" /\ ~unsettled /\ resolving = {}
  BY DEF NextObserved, elsewhere, ghosts, Settled, PInv, Phase, TypeOK
<1>2. \A x \in Services : AsyncOK(x)
  BY <1>1 DEF SettledOK, Settled
<1>3. Expected(s)' = Expected(s)
  BY <1>1, ExpectedSame
<1>4. ~loop.mixed
  BY <1>1, <1>2 DEF AsyncOK
<1>5. ASSUME NEW x \in observed, x \notin loop.seen,
             loop' = [loop EXCEPT !.seen = @ \cup {x}], resolving' = {x}, pc' = "resolve",
             outcome' = outcome
      PROVE  AsyncOK(s)'
  <2>1. loop'.seen = loop.seen \cup {x} /\ loop'.mixed = loop.mixed
    BY <1>5, Types DEF PInv
  <2> QED BY <1>1, <1>2, <1>3, <1>4, <1>5, <2>1 DEF AsyncOK, LastEventOK
<1>6. ASSUME observed \subseteq loop.seen, pc' = "cancel_browsers", outcome' = "found",
             UNCHANGED <<loop, resolving>>
      PROVE  AsyncOK(s)'
  <2>1. s \in observed <=> net[s] # None
    BY <1>1, <1>2 DEF AsyncOK
  <2>2. s \notin observed => Expected(s) = None
    BY <2>1 DEF Expected, Reachable
  <2>3. results[s] = Expected(s)
    BY <1>1, <1>2, <1>6, <2>2 DEF AsyncOK
  <2> QED BY <1>1, <1>2, <1>3, <1>6, <2>3 DEF AsyncOK, LastEventOK
<1>7. AsyncOK(s)'
  BY <1>4, <1>5, <1>6 DEF NextObserved, Finished, Goto
<1> QED BY <1>1, <1>7

(* The finally clause, an exception and a cancellation touch no result.    *)
LEMMA FinallySettled ==
  ASSUME PInv, SettledOK,
         IterationError \/ CancelBrowser \/ Close \/ Return \/ Cancel \/ UNCHANGED vars
  PROVE  SettledOK'
<1> SUFFICES ASSUME Settled', NEW s \in Services
             PROVE  IF async' THEN AsyncOK(s)' ELSE SyncOK(s)'
  BY DEF SettledOK
<1>1. ~IterationError /\ ~Cancel
  BY DEF IterationError, Cancel, Settled
<1>2. /\ UNCHANGED <<async, net, events, results, observed, loop, resolving, outcome, unsettled>>
      /\ pc' = pc \/ (pc \notin {"sleep", "loop", "resolve"} /\ pc' \in {"close", "return", "end"})
  BY <1>1 DEF CancelBrowser, Close, Return, elsewhere, ghosts, vars, task, Goto
<1>3. IF async THEN AsyncOK(s) ELSE SyncOK(s)
  BY <1>2 DEF SettledOK, Settled
<1>4. Expected(s)' = Expected(s)
  BY <1>2, ExpectedSame
<1> QED BY <1>2, <1>3, <1>4 DEF AsyncOK, SyncOK, LastEventOK

LEMMA NextSettled == PInv /\ SettledOK /\ [Next]_vars => SettledOK'
<1> SUFFICES ASSUME PInv, SettledOK, [Next]_vars PROVE SettledOK'
  OBVIOUS
<1>1. CASE Network
  BY <1>1, NetworkSettled
<1>2. CASE \E s \in Services : AddService(s) \/ RemoveService(s) \/ Collect(s)
  BY <1>2, ListenerSettled
<1>3. CASE \E s \in Services : Answer(s)
  BY <1>3, AnswerSettled
<1>4. CASE WakeUp
  BY <1>4, WakeUpSettled
<1>5. CASE NextObserved
  BY <1>5, LoopSettled
<1>6. CASE IterationError \/ CancelBrowser \/ Close \/ Return \/ Cancel
  BY <1>6, FinallySettled
<1>7. CASE Ended \/ UNCHANGED vars
  BY <1>7, FinallySettled DEF Ended
<1> QED BY <1>1, <1>2, <1>3, <1>4, <1>5, <1>6, <1>7 DEF Next

(* When the network came to rest and its callbacks were made in time, what *)
(* is returned is exactly what is there: every service that has an address *)
(* at its present port, and no other, however often it came and went.      *)
THEOREM ReturnsWhatIsThere == Spec => []SettledMeansExact
<1>1. IInv => SettledMeansExact
  <2> SUFFICES ASSUME IInv, pc = "end", outcome = "found", ~unsettled, NEW s \in Services
               PROVE  results[s] = Expected(s)
    BY DEF SettledMeansExact, Expected
  <2>1. IF async THEN AsyncOK(s) ELSE SyncOK(s)
    BY DEF IInv, SettledOK, Settled
  <2> QED BY <2>1 DEF AsyncOK, SyncOK
<1>2. Init => IInv
  BY InitPInv, InitSettled DEF IInv
<1>3. IInv /\ [Next]_vars => IInv'
  BY NextPInv, NextSettled DEF IInv
<1> QED BY <1>1, <1>2, <1>3, PTL DEF Spec
=============================================================================
