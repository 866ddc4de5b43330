------------------------- MODULE SwitchStateRegister -------------------------
(***************************************************************************)
(* What the state-update pipeline promises its callers: a register holding *)
(* the desired state and a FIFO queue of updates.  A step takes a prefix   *)
(* of the queue, in which only the last update may forbid coalescing, and  *)
(* applies it to the register atomically.  Queues, callbacks, the applied  *)
(* state, the hardware and its rejections are not visible here.            *)
(***************************************************************************)
EXTENDS Integers, Sequences

CONSTANTS Bad, NoCoalesceKinds, WithDefaults(_)

VARIABLES queue, tree, ready, closed

regVars == <<queue, tree, ready, closed>>

(* The updates among the first n of q that write entry e: one that throws  *)
(* writes nothing.                                                         *)
Writes(q, n, e) == {i \in 1..n : q[i].entry = e /\ q[i].value # Bad}

LastWrite(q, n, e) ==
  CHOOSE i \in Writes(q, n, e) : \A j \in Writes(q, n, e) : j <= i

(* Tree t after the first n updates of q: the last write of an entry wins. *)
Written(t, q, n) ==
  [e \in DOMAIN t |-> IF Writes(q, n, e) = {} THEN t[e]
                      ELSE q[LastWrite(q, n, e)].value]

Rest(n) == SubSeq(queue, n + 1, Len(queue))

RegInit ==
  /\ queue = <<>>
  /\ ready \in BOOLEAN
  /\ ready => WithDefaults(tree) = tree
  /\ closed = FALSE

(* The default routes of ALPM mode, before the first update.               *)
AddDefaults ==
  /\ ~ready
  /\ tree' = WithDefaults(tree)
  /\ ready' = TRUE
  /\ UNCHANGED <<queue, closed>>

Submit ==
  /\ Len(queue') = Len(queue) + 1
  /\ queue = SubSeq(queue', 1, Len(queue))
  /\ UNCHANGED <<tree, ready, closed>>

Commit ==
  /\ ready
  /\ \E n \in 1..Len(queue) :
        /\ \A i \in 1..(n - 1) : queue[i].kind \notin NoCoalesceKinds
        /\ tree' = Written(tree, queue, n)
        /\ queue' = Rest(n)
  /\ UNCHANGED <<ready, closed>>

(* Once the switch is exiting, updates may be dropped.                     *)
Close ==
  /\ ~closed
  /\ closed' = TRUE
  /\ UNCHANGED <<queue, tree, ready>>

Discard ==
  /\ closed
  /\ \E n \in 1..Len(queue) : queue' = Rest(n)
  /\ UNCHANGED <<tree, ready, closed>>

RegNext == AddDefaults \/ Submit \/ Commit \/ Close \/ Discard

RegSpec == RegInit /\ [][RegNext]_regVars
=============================================================================
