----------------------------- MODULE MCAdbTasks -----------------------------
EXTENDS AdbTasks, TLC

CONSTANTS t1, t2

(* One task that may also close and connect, and one that transfers files. *)
MCCalls == t1 :> {Shell, "close", "connect"} @@ t2 :> {Push, Pull}
=============================================================================
