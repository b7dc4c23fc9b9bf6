------------------------------ MODULE Discovery ------------------------------
(***************************************************************************)
(* Finding devices by mDNS: discover_services with its _Listener           *)
(* (mdns/discovery.py) and discover_services_async with its                *)
(* _AsyncCollector (mdns/discovery_async.py).                              *)
(*                                                                         *)
(* zeroconf (external) calls the listener when a service appears, changes  *)
(* or leaves.  Every service here is of a type of its own.  discover_      *)
(* services has a browser per type and a browser has a thread, in which    *)
(* add_service waits for the service's records.  In discover_services_     *)
(* async callbacks run when the task waits, and the task asks for the      *)
(* records itself, while the browsers are still there.                     *)
(***************************************************************************)
EXTENDS Naturals, Sequences, FiniteSets

CONSTANTS
  None, Services,
  Families,     \* the sets of address families a service may have; zeroconf
                \* resolves no service without an address
  MaxChanges,   \* bound: changes on the network
  MaxCancels    \* bound: cancellations of the task

ASSUME DiscoveryAssumption ==
  /\ Families \subseteq (SUBSET {"v4", "v6"}) \ {{}}
  /\ None \notin [families : Families, port : 0 .. MaxChanges]
  /\ MaxChanges \in Nat /\ MaxCancels \in Nat

VARIABLES
  async,      \* TRUE: discover_services_async
  net,        \* the services' records: families of their addresses, port; or None
  changes,    \* changes so far
  events,     \* events[s]: the callbacks zeroconf has still to make for s
  resolving,  \* services whose records the code waits for
  results,    \* results of _Listener, or of discover_services_async
  observed,   \* observed of _AsyncCollector
  loop,       \* the loop over it: services seen, its size at first, changed since
  pc,         \* "sleep", "loop", "resolve", "cancel_browsers", "close", "return", "end"
  browsers,   \* browsers that run
  closed,     \* zeroconf is closed
  outcome,    \* what is returned, or the exception in flight: "none", "found", ...
  cancels,    \* cancellations so far
  unsettled,  \* ghost: an answer was lost, or a change came too late
  cut         \* ghost: a cancellation struck inside the finally clause

task == <<pc, browsers, closed, outcome>>
ghosts == <<unsettled, cut>>
vars == <<async, net, changes, events, resolving, results, observed, loop, task, cancels, ghosts>>

-----------------------------------------------------------------------------
Records == [families : Families, port : 0 .. MaxChanges]

Entry == [host : {"v4", "v6"}, port : 0 .. MaxChanges]

NoLoop == [seen |-> {}, size |-> 0, mixed |-> FALSE]

TypeOK ==
  /\ async \in BOOLEAN
  /\ net \in [Services -> Records \cup {None}]
  /\ changes \in 0 .. MaxChanges
  /\ events \in [Services -> Seq({"add", "update", "remove"})]
  /\ resolving \subseteq Services /\ (async => Cardinality(resolving) <= 1)
  /\ results \in [Services -> Entry \cup {None}]
  /\ observed \subseteq Services
  /\ loop \in [seen : SUBSET Services, size : Nat, mixed : BOOLEAN]
  /\ pc \in {"sleep", "loop", "resolve", "cancel_browsers", "close", "return", "end"}
  /\ async => (pc = "resolve" <=> resolving # {})
  /\ browsers \subseteq Services /\ closed \in BOOLEAN
  /\ outcome \in {"none", "found", "RuntimeError", "CancelledError"}
  /\ cancels \in 0 .. MaxCancels /\ unsettled \in BOOLEAN /\ cut \in BOOLEAN

(* The browsers have been started; nothing was there before.               *)
Init ==
  /\ async \in BOOLEAN
  /\ net = [s \in Services |-> None] /\ changes = 0
  /\ events = [s \in Services |-> <<>>]
  /\ resolving = {} /\ observed = {} /\ loop = NoLoop
  /\ results = [s \in Services |-> None]
  /\ pc = "sleep" /\ browsers = Services /\ closed = FALSE
  /\ outcome = "none" /\ cancels = 0 /\ unsettled = FALSE /\ cut = FALSE

-----------------------------------------------------------------------------
(* The network: a service appears, changes its records, or leaves.  A      *)
(* change after the time to sleep may come too late to be found.           *)

Change(s, now, event) ==
  /\ changes < MaxChanges
  /\ changes' = changes + 1
  /\ net' = [net EXCEPT ![s] = now]
  /\ events' = [events EXCEPT ![s] = Append(@, event)]
  /\ unsettled' = (unsettled \/ pc # "sleep")
  /\ UNCHANGED <<async, resolving, results, observed, loop, task, cancels, cut>>

Network ==
  \E s \in Services :
    \/ \E f \in Families :
         Change(s, [families |-> f, port |-> changes], IF net[s] = None THEN "add" ELSE "update")
    \/ net[s] # None /\ Change(s, None, "remove")

-----------------------------------------------------------------------------
(* The listeners.                                                          *)

(* zeroconf takes the next event of s to the listener.                     *)
Deliver(s, event) ==
  /\ s \in browsers /\ pc # "end" /\ events[s] # <<>> /\ Head(events[s]) = event
  /\ events' = [events EXCEPT ![s] = Tail(@)]
  /\ UNCHANGED <<async, net, changes, task, cancels, ghosts>>

UpdateIgnored == {"add"}

(* _Listener.add_service asks for the records; update_service calls it.    *)
Resolved == {"add", "update"}

AddService(s) ==
  /\ ~async /\ s \notin resolving
  /\ \E event \in {"add", "update"} :
       /\ Deliver(s, event)
       /\ resolving' = IF event \in Resolved THEN resolving \cup {s} ELSE resolving
  /\ UNCHANGED <<results, observed, loop>>

(* _Listener.remove_service.                                               *)
RemoveService(s) ==
  /\ ~async /\ s \notin resolving
  /\ Deliver(s, "remove")
  /\ results' = [results EXCEPT ![s] = None]
  /\ UNCHANGED <<resolving, observed, loop>>

(* _AsyncCollector: the callbacks run while the task waits.                *)
Collect(s) ==
  /\ async /\ pc # "loop"
  /\ \/ \E event \in {"add", "update"} : Deliver(s, event) /\ observed' = observed \cup {s}
     \/ Deliver(s, "remove") /\ observed' = observed \ {s}
  /\ loop' = [loop EXCEPT !.mixed = @ \/ observed' # observed]
  /\ UNCHANGED <<resolving, results>>

-----------------------------------------------------------------------------
(* The records of a service arrive, or do not.                             *)

(* parsed_addresses: the IPv4 ones first; the async code asks for no       *)
(* others.                                                                 *)
Addresses(families) == IF async THEN families \cap {"v4"} ELSE families

Host(families) == IF "v4" \in families THEN "v4" ELSE "v6"

Stored(s) ==
  LET found == Addresses(net[s].families)
  IN  IF found = {} THEN results
      ELSE [results EXCEPT ![s] = [host |-> Host(found), port |-> net[s].port]]

Answer(s) ==
  /\ s \in resolving
  /\ resolving' = resolving \ {s}
  /\ \/ net[s] # None /\ results' = Stored(s) /\ UNCHANGED unsettled
     \/ UNCHANGED results /\ unsettled' = (unsettled \/ net[s] # None)
  /\ pc' = IF async THEN "loop" ELSE pc
  /\ UNCHANGED <<async, net, changes, events, observed, loop, browsers, closed, outcome,
                 cancels, cut>>

-----------------------------------------------------------------------------
(* discover_services and discover_services_async.                          *)

Goto(step) == pc' = step

elsewhere == <<async, net, changes, events, results, observed>>

(* The time to listen is over.  A callback that has not ended does not     *)
(* count, nor does one that was not made.                                  *)
WakeUp ==
  /\ pc = "sleep"
  /\ \/ async /\ Goto("loop")
        /\ loop' = [NoLoop EXCEPT !.size = Cardinality(observed)]
        /\ UNCHANGED outcome
     \/ ~async /\ Goto("close") /\ outcome' = "found" /\ UNCHANGED loop
  /\ unsettled' = (unsettled \/ resolving # {} \/ \E s \in Services : events[s] # <<>>)
  /\ UNCHANGED <<elsewhere, resolving, browsers, closed, cancels, cut>>

(* The next element of the set, whose iterator raises when the size is not *)
(* what it was, and else goes on through the set as it now is.             *)
Finished == loop.mixed \/ observed \subseteq loop.seen

NextObserved ==
  /\ pc = "loop" /\ Cardinality(observed) = loop.size
  /\ \/ \E s \in observed :
          /\ loop.mixed \/ s \notin loop.seen
          /\ loop' = [loop EXCEPT !.seen = @ \cup {s}]
          /\ resolving' = {s}
          /\ Goto("resolve") /\ UNCHANGED outcome
     \/ /\ Finished
        /\ Goto("cancel_browsers") /\ outcome' = "found"
        /\ UNCHANGED <<loop, resolving>>
  /\ UNCHANGED <<elsewhere, browsers, closed, cancels, ghosts>>

IterationError ==
  /\ pc = "loop" /\ Cardinality(observed) # loop.size
  /\ Goto("cancel_browsers") /\ outcome' = "RuntimeError"
  /\ UNCHANGED <<elsewhere, loop, resolving, browsers, closed, cancels, ghosts>>

(* The finally clause.                                                     *)
CancelBrowser ==
  /\ pc = "cancel_browsers"
  /\ \/ \E s \in browsers : browsers' = browsers \ {s} /\ UNCHANGED pc
     \/ browsers = {} /\ Goto("close") /\ UNCHANGED browsers
  /\ UNCHANGED <<elsewhere, loop, resolving, closed, outcome, cancels, ghosts>>

Close ==
  /\ pc = "close"
  /\ closed' = TRUE
  /\ Goto("return")
  /\ UNCHANGED <<elsewhere, loop, resolving, browsers, outcome, cancels, ghosts>>

Return ==
  /\ pc = "return"
  /\ Goto("end")
  /\ UNCHANGED <<elsewhere, loop, resolving, browsers, closed, outcome, cancels, ghosts>>

(* The task is cancelled where it waits: the finally clause follows, or is *)
(* cut short.                                                              *)
InFinally == {"cancel_browsers", "close"}

WithoutFinally == "end"

AfterCancel == IF pc \in InFinally THEN "end" ELSE "cancel_browsers"

Cancel ==
  /\ async /\ pc \in {"sleep", "resolve"} \cup InFinally /\ cancels < MaxCancels
  /\ cancels' = cancels + 1
  /\ outcome' = "CancelledError"
  /\ Goto(AfterCancel)
  /\ resolving' = {}
  /\ cut' = (cut \/ pc \in InFinally)
  /\ UNCHANGED <<elsewhere, loop, browsers, closed, unsettled>>

Ended == pc = "end" /\ UNCHANGED vars

Next ==
  \/ Network
  \/ \E s \in Services : AddService(s) \/ RemoveService(s) \/ Collect(s) \/ Answer(s)
  \/ WakeUp \/ NextObserved \/ IterationError \/ CancelBrowser \/ Close \/ Return
  \/ Cancel \/ Ended

Spec == Init /\ [][Next]_vars

-----------------------------------------------------------------------------
(* Properties.                                                             *)

Reachable(s) == net[s] # None /\ Addresses(net[s].families) # {}

(* When the network came to rest and the callbacks were made before the    *)
(* time to listen was over, and no answer was lost, what is returned is    *)
(* what is there: every service with an address and no other, at its       *)
(* present port, whatever appeared, changed and left in between.           *)
SettledMeansExact ==
  pc = "end" /\ outcome = "found" /\ ~unsettled =>
    \A s \in Services :
      IF Reachable(s) THEN results[s] = [host |-> Host(Addresses(net[s].families)),
                                         port |-> net[s].port]
                      ELSE results[s] = None

(* However it ends, also by an exception of the loop or a cancellation,    *)
(* zeroconf is closed and the async browsers are cancelled, unless a       *)
(* cancellation struck inside the finally clause.                          *)
ClosedAtEnd ==
  /\ TypeOK
  /\ pc = "end" /\ ~cut => closed /\ (async => browsers = {})
=============================================================================
