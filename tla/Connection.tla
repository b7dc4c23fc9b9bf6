----------------------------- MODULE Connection -----------------------------
(***************************************************************************)
(* What AdbDevice.connect and AdbDevice.close do to the rest of the        *)
(* client: calls mark the device unavailable at once and are then served   *)
(* one at a time; a connect returns True only on a connection that the     *)
(* device accepted, and marks the device available after that.             *)
(***************************************************************************)
CONSTANT Threads

VARIABLES phase,      \* phase[t]: how far the call of t has come
          link,       \* the connection: "down", "open", or "up" once accepted
          available   \* the flag callers consult

kVars == <<phase, link, available>>

Alone == \A t \in Threads : phase[t] # "connecting"

To(t, p) == phase' = [phase EXCEPT ![t] = p]

Init == phase = [t \in Threads |-> "idle"] /\ link = "down" /\ available = FALSE

Call(t, c) == phase[t] = "idle" /\ To(t, c) /\ available' = FALSE /\ UNCHANGED link

Close(t) ==
  Alone /\ phase[t] = "close" /\ To(t, "idle") /\ link' = "down" /\ UNCHANGED available

(* The old connection is given up for a new one, or for none.              *)
Connect(t) ==
  /\ Alone /\ phase[t] = "connect"
  /\ \/ To(t, "connecting") /\ link' = "open"
     \/ To(t, "idle") /\ link' = "down"
  /\ UNCHANGED available

(* The device may accept a connection whose connect has given up.          *)
Accept == link = "open" /\ link' = "up" /\ UNCHANGED <<phase, available>>

Return(t) ==
  /\ phase[t] = "connecting" /\ link = "up"
  /\ To(t, "connected")
  /\ UNCHANGED <<link, available>>

(* A connect that raises leaves the connection as it is or closes it.      *)
Raise(t) ==
  /\ phase[t] = "connecting"
  /\ To(t, "idle")
  /\ link' \in {link, "down"}
  /\ UNCHANGED available

SetAvailable(t) ==
  phase[t] = "connected" /\ To(t, "idle") /\ available' = TRUE /\ UNCHANGED link

Next ==
  \/ Accept
  \/ \E t \in Threads :
       \/ Call(t, "close") \/ Call(t, "connect") \/ Close(t) \/ Connect(t)
       \/ Return(t) \/ Raise(t) \/ SetAvailable(t)

Spec == Init /\ [][Next]_kVars
=============================================================================
