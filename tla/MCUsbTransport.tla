--------------------------- MODULE MCUsbTransport ---------------------------
EXTENDS UsbTransport, TLC

CONSTANTS d1, d2, u1, u2

(* Two objects for the second device on the bus, found in both ways.       *)
MCAsks == u1 :> {[by |-> "serial", val |-> "s2"]} @@ u2 :> {[by |-> "port", val |-> "p2"]}

MCOrder  == <<d1, d2>>
MCSerial == d1 :> "s1" @@ d2 :> "s2"
MCPort   == d1 :> "p1" @@ d2 :> "p2"
MCPlugs  == d1 :> 1 @@ d2 :> 3
=============================================================================
