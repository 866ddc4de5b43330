----------------------------- MODULE MCSwSwitch -----------------------------
(***************************************************************************)
(* Instances of SwSwitch for TLC.  The Initializer thread queues the       *)
(* initial config, one more thread queues everything else.                 *)
(***************************************************************************)
EXTENDS SwSwitchRefinement

CONSTANTS route, port, default, a, b

(* A route that full tables may reject, a port whose oper state is never   *)
(* coalesced, blocking updates one of which throws, and a FIB sync.        *)
MCRequests ==
  {[kind |-> "blocking", entry |-> route, value |-> v] : v \in {a, Bad}}
    \union {[kind |-> "function", entry |-> route, value |-> v] : v \in {b, Absent}}
    \union {[kind |-> "noCoalescing", entry |-> port, value |-> v] : v \in {a, Absent}}
    \union {[kind |-> "syncFib", entry |-> route, value |-> b]}

(* A cold boot, and a warm boot that finds the default route in place.     *)
MCBootTrees ==
  {[e \in Entries |-> Absent], [e \in Entries |-> IF e = port THEN Absent ELSE a]}
=============================================================================
