--------------------------- MODULE StreamChannels ---------------------------
(***************************************************************************)
(* What the client promises the callers of its commands: every stream is a *)
(* private, ordered channel from the device, whatever the other streams on *)
(* the same connection do.  A caller sees what the device sent on its      *)
(* stream, in that order and nothing twice.  Nothing is skipped, and a     *)
(* command that returns has seen all of it, unless something of the stream *)
(* was lost, which a caller is not told.                                   *)
(***************************************************************************)
EXTENDS Naturals, Sequences

CONSTANTS Stream,   \* streams
          Datum     \* what a stream carries

VARIABLES sent,       \* sent[s]: all the device ever sent on s
          received,   \* received[s]: what the caller was given
          at,         \* at[s]: the place in sent[s] of what it was given last
          closed,     \* streams on which the device sends no more
          complete,   \* streams whose command returned its whole output
          lossy       \* streams of which something may have been lost

cVars == <<sent, received, at, closed, complete, lossy>>

Init ==
  /\ sent = [s \in Stream |-> <<>>]
  /\ received = [s \in Stream |-> <<>>]
  /\ at = [s \in Stream |-> 0]
  /\ closed = {}
  /\ complete = {}
  /\ lossy = {}

Send(s, d) ==
  /\ s \notin closed
  /\ sent' = [sent EXCEPT ![s] = Append(@, d)]
  /\ UNCHANGED <<received, at, closed, complete, lossy>>

(* The next datum, or a later one when something was lost.                 *)
Deliver(s) ==
  \E k \in at[s] + 1 .. Len(sent[s]) :
    /\ k = at[s] + 1 \/ s \in lossy
    /\ received' = [received EXCEPT ![s] = Append(@, sent[s][k])]
    /\ at' = [at EXCEPT ![s] = k]
    /\ UNCHANGED <<sent, closed, complete, lossy>>

Lose(s) ==
  /\ lossy' = lossy \cup {s}
  /\ UNCHANGED <<sent, received, at, closed, complete>>

(* The device ends some streams, all of them when the connection is lost.  *)
Close ==
  /\ closed' \in {closed \cup S : S \in SUBSET Stream}
  /\ UNCHANGED <<sent, received, at, complete, lossy>>

(* Only a stream the device has ended, and of which nothing is missing     *)
(* that was not lost.                                                      *)
Complete(s) ==
  /\ s \in closed
  /\ received[s] = sent[s] \/ s \in lossy
  /\ complete' = complete \cup {s}
  /\ UNCHANGED <<sent, received, at, closed, lossy>>

Next ==
  \/ Close
  \/ \E s \in Stream : Deliver(s) \/ Lose(s) \/ Complete(s) \/ \E d \in Datum : Send(s, d)

Spec == Init /\ [][Next]_cVars
=============================================================================
