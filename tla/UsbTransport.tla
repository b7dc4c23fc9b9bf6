---------------------------- MODULE UsbTransport ----------------------------
(***************************************************************************)
(* UsbTransport (transport/usb_transport.py): the objects that find_adb    *)
(* returns, which open a device of the USB bus, take its interface from    *)
(* the kernel driver, claim it, read, write and close.                     *)
(*                                                                         *)
(* Each step is one call of libusb, so that two transports of one program  *)
(* (one found twice, or by find_all_adb_devices as well), another process  *)
(* and the user who unplugs a device come between the calls of a method.   *)
(* What libusb and the interpreter do with handles is external.            *)
(***************************************************************************)
EXTENDS Integers, Sequences

CONSTANTS
  Asks,         \* Asks[u]: what find_adb may be asked for by the user of u
  BusOrder,     \* the devices with an ADB interface, as libusb lists them
  Serial, Port, \* Serial[d], Port[d]: of the device d
  MaxHandles,   \* bound: handles open at a time
  Timeouts,     \* what transport_timeout_s may be, in tenths of ms, or None
  Default,      \* _default_transport_timeout_s, in tenths of ms
  MaxPlugs,     \* bound: MaxPlugs[d], times the device d is plugged in or out
  MaxPending,   \* bound: transfers of a device that wait to be read
  None

Transports == DOMAIN Asks       \* the UsbTransport objects
Handles == 1 .. MaxHandles
Elsewhere == 0                  \* a handle of another process
Devices == {BusOrder[i] : i \in DOMAIN BusOrder}

(* A serial, a port path, or whatever is first.                            *)
Wanted == [by : {"serial"}, val : {Serial[d] : d \in Devices}]
            \cup [by : {"port"}, val : {Port[d] : d \in Devices}]
            \cup {[by |-> "first", val |-> None]}

Refs == UNION {{d} \X (1 .. MaxPlugs[d]) : d \in Devices}   \* a device, with its plug
Numbers == 0 .. 2    \* enough to tell a transfer from the next but one

ASSUME UsbAssumption ==
  /\ \A u \in Transports : Asks[u] \subseteq Wanted
  /\ MaxHandles \in Nat
  /\ \A d \in Devices : MaxPlugs[d] \in Nat \ {0}
  /\ None \notin Handles \cup {Elsewhere} \cup Numbers \cup Wanted \cup Refs

VARIABLES
  plug,       \* plug[d]: odd while d is plugged in, and different each time
  driver,     \* driver[d]: a kernel driver is bound to the interface
  claim,      \* claim[d]: the handle that has claimed the interface
  open,       \* open[h]: the device the handle h was opened for, or None
  found,      \* found[u]: _device, with its plug
  want,       \* want[u]: what u was found for
  transport,  \* transport[u]: _transport
  call,       \* call[u]: where u is in its method, with the method's locals
  pipe, sent, \* pipe[d]: transfers to be read; sent[d]: the number of the last
  connected,  \* ghost: connect has returned since the last close
  last        \* ghost: the transfer u read last since then; None after a failure

bus   == <<plug, driver, pipe, sent>>
object == <<found, want>>
ghosts == <<connected, last>>
vars == <<bus, claim, open, object, transport, call, ghosts>>

-----------------------------------------------------------------------------

Attached(d) == plug[d] % 2 = 1
Ref(d) == <<d, plug[d]>>
Present(ref) == Attached(ref[1]) /\ ref = Ref(ref[1])

Stages == {"idle", "driver", "detach", "claim", "release", "close", "read", "write"}
Idle == [at |-> "idle", new |-> None, timeout |-> None]
Call == [at : Stages, new : Handles \cup {None}, timeout : Timeouts \cup {None}]

TypeOK ==
  /\ \A d \in Devices : Ref(d) \in Refs
  /\ driver \in [Devices -> BOOLEAN]
  /\ claim \in [Devices -> Handles \cup {None, Elsewhere}]
  /\ open \in [Handles -> Refs \cup {None}]
  /\ found \in [Transports -> Refs \cup {None}] /\ want \in [Transports -> Wanted \cup {None}]
  /\ transport \in [Transports -> Handles \cup {None}]
  /\ call \in [Transports -> Call]
  /\ \A u \in Transports : call[u].at \in {"release", "close", "read", "write"}
                             => transport[u] # None /\ open[transport[u]] # None
  /\ pipe \in [Devices -> Seq(Numbers)] /\ sent \in [Devices -> Numbers]
  /\ connected \in [Transports -> BOOLEAN] /\ last \in [Transports -> Numbers \cup {None}]

Init ==
  /\ plug = [d \in Devices |-> 1] /\ driver \in [Devices -> BOOLEAN]
  /\ claim = [d \in Devices |-> None] /\ open = [h \in Handles |-> None]
  /\ found = [u \in Transports |-> None] /\ want = [u \in Transports |-> None]
  /\ transport = [u \in Transports |-> None] /\ call = [u \in Transports |-> Idle]
  /\ pipe = [d \in Devices |-> <<>>] /\ sent = [d \in Devices |-> 0]
  /\ connected = [u \in Transports |-> FALSE] /\ last = [u \in Transports |-> None]

-----------------------------------------------------------------------------
(* Finders.                                                                *)

(* _port_path_matcher, _serial_matcher, or no matcher.                     *)
MatchesWanted(w, d) ==
  CASE w.by = "serial" -> Serial[d] = w.val
    [] w.by = "port"   -> Port[d] = w.val
    [] w.by = "first"  -> TRUE

(* find_adb, _find, _find_first: the first device of the list that matches *)
(* or, for a serial, that cannot be opened to ask for its own: then that   *)
(* USBError ends the search, and without one UsbDeviceNotFoundError.       *)
find_adb(u, w) ==
  /\ call[u].at = "idle" /\ transport[u] = None
  /\ \E refusing \in SUBSET Devices :
       LET Refuses(d) == w.by = "serial" /\ d \in refusing
           Ends(d) == Attached(d) /\ (MatchesWanted(w, d) \/ Refuses(d))
       IN  \E i \in DOMAIN BusOrder :
             /\ Ends(BusOrder[i]) /\ \A j \in 1 .. i - 1 : ~Ends(BusOrder[j])
             /\ ~Refuses(BusOrder[i])
             /\ found' = [found EXCEPT ![u] = Ref(BusOrder[i])]
  /\ want' = [want EXCEPT ![u] = w]
  /\ UNCHANGED <<bus, claim, open, transport, call, ghosts>>

-----------------------------------------------------------------------------
(* Handles.                                                                *)

Referenced(h) == \E u \in Transports : h \in {transport[u], call[u].new}

(* libusb_close, which gives back what the handle had claimed.             *)
CloseHandle(h) ==
  /\ open' = [open EXCEPT ![h] = None]
  /\ claim' = [d \in Devices |-> IF claim[d] = h THEN None ELSE claim[d]]

(* A handle that nothing refers to is closed by its finalizer.             *)
Collect(h) ==
  /\ open[h] # None /\ ~Referenced(h)
  /\ CloseHandle(h)
  /\ UNCHANGED <<bus, object, transport, call, ghosts>>

-----------------------------------------------------------------------------
(* connect.                                                                *)

Goes(u, at, new, timeout) ==
  call' = [call EXCEPT ![u] = [at |-> at, new |-> new, timeout |-> timeout]]
At(u, stage) == call' = [call EXCEPT ![u].at = stage]
Over(u) == call' = [call EXCEPT ![u] = Idle]
Device(u) == found[u][1]

(* device.open(), which opens one more handle if there is one already; an  *)
(* error of it leaves the object as it was.                                *)
connect(u) ==
  /\ call[u].at = "idle" /\ found[u] # None
  /\ Present(found[u])
  /\ \E h \in Handles :
       /\ open[h] = None /\ \A i \in 1 .. h - 1 : open[i] # None
       /\ open' = [open EXCEPT ![h] = found[u]]
       /\ Goes(u, "driver", h, None)
  /\ UNCHANGED <<bus, claim, object, transport, ghosts>>

(* The handle becomes the object's, which forgets the one it had, before   *)
(* the interface is claimed.                                               *)
Assign(u) ==
  /\ transport' = [transport EXCEPT ![u] = call[u].new]
  /\ Goes(u, "claim", None, None)
  /\ connected' = [connected EXCEPT ![u] = FALSE] /\ last' = [last EXCEPT ![u] = None]

(* kernelDriverActive: USBErrorNotFound is only a warning.                 *)
KernelDriverActive(u) ==
  /\ call[u].at = "driver"
  /\ \/ Present(found[u]) /\ driver[Device(u)] /\ At(u, "detach") /\ UNCHANGED <<transport, ghosts>>
     \/ Present(found[u]) /\ ~driver[Device(u)] /\ Assign(u)
     \/ Over(u) /\ UNCHANGED <<transport, ghosts>>
  /\ UNCHANGED <<bus, claim, open, object>>

DetachKernelDriver(u) ==
  /\ call[u].at = "detach"
  /\ \/ /\ Present(found[u]) /\ Assign(u)
        /\ driver' = [driver EXCEPT ![Device(u)] = FALSE]
     \/ Over(u) /\ UNCHANGED <<driver, transport, ghosts>>
  /\ UNCHANGED <<plug, pipe, sent, claim, open, object>>

Claimable(d) == claim[d] = None /\ ~driver[d]

(* The error is caught with the warning about the kernel driver.           *)
ClaimCaught(u) ==
  /\ call[u].at = "claim" /\ Over(u)
  /\ \/ /\ Present(found[u]) /\ Claimable(Device(u))
        /\ claim' = [claim EXCEPT ![Device(u)] = transport[u]]
     \/ UNCHANGED claim
  /\ connected' = [connected EXCEPT ![u] = TRUE]
  /\ last' = [last EXCEPT ![u] = None]
  /\ UNCHANGED <<bus, open, object, transport>>

(* claimInterface; an error leaves the object with a handle without claim. *)
ClaimInterface(u) ==
  /\ call[u].at = "claim" /\ Over(u)
  /\ \/ /\ Present(found[u]) /\ Claimable(Device(u))
        /\ claim' = [claim EXCEPT ![Device(u)] = transport[u]]
        /\ connected' = [connected EXCEPT ![u] = TRUE]
        /\ last' = [last EXCEPT ![u] = None]
     \/ UNCHANGED <<claim, ghosts>>
  /\ UNCHANGED <<bus, open, object, transport>>

-----------------------------------------------------------------------------
(* close.                                                                  *)

close(u) ==
  /\ call[u].at = "idle" /\ transport[u] # None
  /\ At(u, "release")
  /\ connected' = [connected EXCEPT ![u] = FALSE] /\ last' = [last EXCEPT ![u] = None]
  /\ UNCHANGED <<bus, claim, open, object, transport>>

(* The object keeps the handle that it could not release.                  *)
ReleaseWithoutFinally(u) ==
  /\ call[u].at = "release"
  /\ \/ /\ Present(found[u]) /\ claim[Device(u)] = transport[u]
        /\ claim' = [claim EXCEPT ![Device(u)] = None]
        /\ At(u, "close")
     \/ Over(u) /\ UNCHANGED claim
  /\ UNCHANGED <<bus, open, object, transport, ghosts>>

(* releaseInterface; if it raises, the handle is not closed but forgotten. *)
ReleaseInterface(u) ==
  /\ call[u].at = "release"
  /\ \/ /\ Present(found[u]) /\ claim[Device(u)] = transport[u]
        /\ claim' = [claim EXCEPT ![Device(u)] = None]
        /\ At(u, "close") /\ UNCHANGED transport
     \/ /\ transport' = [transport EXCEPT ![u] = None]
        /\ Over(u) /\ UNCHANGED claim
  /\ UNCHANGED <<bus, open, object, ghosts>>

CloseTransport(u) ==
  /\ call[u].at = "close"
  /\ CloseHandle(transport[u])
  /\ transport' = [transport EXCEPT ![u] = None] /\ Over(u)
  /\ UNCHANGED <<bus, object, ghosts>>

-----------------------------------------------------------------------------
(* bulk_read and bulk_write.                                               *)

(* In whole milliseconds; for libusb 0 is no timeout at all.               *)
_timeout_ms(timeout) == (IF timeout = None THEN Default ELSE timeout) \div 10

(* Without a handle the call raises at once.                               *)
Transfer(u, kind, timeout) ==
  /\ call[u].at = "idle" /\ transport[u] # None
  /\ Goes(u, kind, None, timeout)
  /\ UNCHANGED <<bus, claim, open, object, transport, ghosts>>

bulk_read(u, timeout)  == Transfer(u, "read", timeout)
bulk_write(u, timeout) == Transfer(u, "write", timeout)

Usable(u) == found[u] # None /\ Present(found[u]) /\ claim[Device(u)] = transport[u]

ReadReturns(u) ==
  /\ call[u].at = "read" /\ Usable(u)
  /\ pipe[Device(u)] # <<>>
  /\ last' = [last EXCEPT ![u] = Head(pipe[Device(u)])]
  /\ pipe' = [pipe EXCEPT ![Device(u)] = Tail(@)]
  /\ Over(u)
  /\ UNCHANGED <<plug, driver, sent, claim, open, object, transport, connected>>

(* A read that timed out is made again, without what it had received.      *)
ReadAgain(u) ==
  /\ call[u].at = "read"
  /\ \/ UNCHANGED <<pipe, call>>
     \/ /\ Usable(u) /\ pipe[Device(u)] # <<>>
        /\ pipe' = [pipe EXCEPT ![Device(u)] = Tail(@)]
        /\ UNCHANGED call
  /\ UNCHANGED <<plug, driver, sent, claim, open, object, transport, ghosts>>

(* A USBError, which is raised as UsbReadFailedError; what had arrived of  *)
(* the transfer when it timed out is in the exception and nowhere else.    *)
ReadRaises(u) ==
  /\ call[u].at = "read"
  /\ \/ UNCHANGED pipe
     \/ /\ Usable(u) /\ pipe[Device(u)] # <<>>
        /\ pipe' = [pipe EXCEPT ![Device(u)] = Tail(@)]
  /\ last' = [last EXCEPT ![u] = None]
  /\ Over(u)
  /\ UNCHANGED <<plug, driver, sent, claim, open, object, transport, connected>>

WriteEnds(u) ==
  /\ call[u].at = "write" /\ Over(u)
  /\ UNCHANGED <<bus, claim, open, object, transport, ghosts>>

-----------------------------------------------------------------------------
(* The bus, the devices and the other processes.                           *)

(* Handles of a device that is gone stay open, and useless.                *)
Plug(d) ==
  /\ plug[d] < MaxPlugs[d] /\ plug' = [plug EXCEPT ![d] = @ + 1]
  /\ \E bound \in BOOLEAN : driver' = [driver EXCEPT ![d] = Attached(d)' /\ bound]
  /\ pipe' = [pipe EXCEPT ![d] = <<>>] /\ sent' = [sent EXCEPT ![d] = 0]
  /\ claim' = [claim EXCEPT ![d] = None]
  /\ UNCHANGED <<open, object, transport, call, ghosts>>

(* Of a device that nobody found, nothing more is told.                    *)
WasFound(d) == \E u \in Transports : found[u] # None /\ Device(u) = d

DevSend(d) ==
  /\ WasFound(d)
  /\ Attached(d) /\ Len(pipe[d]) < MaxPending
  /\ sent' = [sent EXCEPT ![d] = (@ + 1) % 3]
  /\ pipe' = [pipe EXCEPT ![d] = Append(@, sent'[d])]
  /\ UNCHANGED <<plug, driver, claim, open, object, transport, call, ghosts>>

OtherProcess(d) ==
  /\ WasFound(d)
  /\ \/ Attached(d) /\ Claimable(d) /\ claim' = [claim EXCEPT ![d] = Elsewhere]
     \/ claim[d] = Elsewhere /\ claim' = [claim EXCEPT ![d] = None]
  /\ UNCHANGED <<bus, open, object, transport, call, ghosts>>

-----------------------------------------------------------------------------

Method(u) ==
  \/ KernelDriverActive(u) \/ DetachKernelDriver(u) \/ ClaimInterface(u)
  \/ ReleaseInterface(u) \/ CloseTransport(u)

Calls(u) ==
  \/ \E w \in Asks[u] : find_adb(u, w)
  \/ connect(u) \/ close(u)
  \/ \E t \in Timeouts : bulk_read(u, t) \/ bulk_write(u, t)

Next ==
  \/ \E u \in Transports : Calls(u) \/ Method(u) \/ ReadReturns(u) \/ ReadRaises(u) \/ WriteEnds(u)
  \/ \E h \in Handles : Collect(h)
  \/ \E d \in Devices : Plug(d) \/ DevSend(d) \/ OtherProcess(d)

Spec == Init /\ [][Next]_vars

(* libusb ends a transfer that is done, that timed out, or that it cannot  *)
(* make; any other call of it returns, and the finalizers run.             *)
EndsInTime(u) == _timeout_ms(call[u].timeout) > 0 \/ ~Usable(u)

FairSpec ==
  /\ Spec
  /\ \A u \in Transports :
       /\ WF_vars(Method(u)) /\ WF_vars(ReadReturns(u))
       /\ WF_vars(EndsInTime(u) /\ (ReadRaises(u) \/ WriteEnds(u)))
  /\ \A h \in Handles : WF_vars(Collect(h))

-----------------------------------------------------------------------------
(* Properties.                                                             *)

(* After connect has returned and until close is called, whatever other    *)
(* transports, other processes and users did between the calls of libusb:  *)
(* the handle is open for the device that the object was asked to find,    *)
(* and as long as that is plugged in, it has the interface for itself      *)
(* (usb_transport.py:249-254).                                             *)
ConnectedOwns ==
  /\ TypeOK
  /\ \A u \in Transports : connected[u] =>
       /\ open[transport[u]] = found[u]
       /\ MatchesWanted(want[u], Device(u))
       /\ Present(found[u]) => claim[Device(u)] = transport[u] /\ ~driver[Device(u)]

(* What a transport reads is a stretch of what its device sent, without a  *)
(* gap and in order, unless a read raised: the part of a transfer that a   *)
(* timeout throws away never goes unnoticed (usb_transport.py:279-285).    *)
NoSilentGap ==
  [][\A u \in Transports :
       connected[u] /\ connected'[u] /\ last'[u] # last[u] /\ None \notin {last[u], last'[u]}
       => last'[u] = (last[u] + 1) % 3]_vars

(* close frees the device: the handle is closed in the end even when       *)
(* releaseInterface raises and close() of the handle is skipped, for then  *)
(* nothing refers to it any more (usb_transport.py:207-213).  A read or a  *)
(* write with a timeout of a millisecond at least ends; less than that is  *)
(* rounded to 0, with which libusb waits for ever (usb_transport.py:369).  *)
CallsFinish ==
  /\ \A h \in Handles :
       (\E u \in Transports : call[u].at = "release" /\ transport[u] = h) ~> open[h] = None
  /\ \A u \in Transports :
       call[u].at \in {"read", "write"} /\ (call[u].timeout = None \/ call[u].timeout >= 10)
         ~> call[u].at = "idle"
=============================================================================
