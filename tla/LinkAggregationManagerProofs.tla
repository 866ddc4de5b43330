---------------------- MODULE LinkAggregationManagerProofs ----------------------
(***************************************************************************)
(* controllersLock_ protects the map of controllers, for any number of     *)
(* ports and Thrift threads and whatever waits on the LACP event base.     *)
(*                                                                         *)
(* The update thread changes the map at program points at which it should  *)
(* hold the lock for writing.  One of them, "stopped", is entered by the   *)
(* LACP event base when it has run the function that stopMachines() waits  *)
(* for; so the invariant follows that function through the queue.          *)
(***************************************************************************)
EXTENDS LinkAggregationManager, TLAPS

\* The program points of stateUpdated() with the lock held for writing
Writing == {"changing", "stopping", "stopped"}

\* The update thread waits for the function at place i of the queue.
WaitsAt(i) == queue[i].waiter = "update"

\* Only the update thread in stateUpdated() holds the lock for writing, and
\* nobody holds it for reading then; at most one function is waited for by the
\* update thread, and only while it is in stopMachines().
LockInv ==
  /\ TypeOK
  /\ writer <=> update \in Writing
  /\ writer => readers = {}
  /\ \A i \in DOMAIN queue : WaitsAt(i) =>
       update = "stopping" /\ running.waiter # "update" /\ \A j \in DOMAIN queue : WaitsAt(j) => i = j
  /\ running.waiter = "update" => update = "stopping"

\* The initial state, with an empty map and a free lock, satisfies the invariant.
LEMMA InitLock == Init => LockInv
<1> SUFFICES ASSUME Init PROVE LockInv
  OBVIOUS
<1>1. TypeOK
  <2>1. writer \in BOOLEAN /\ ~writer
    BY DEF Init
  <2>2. queue \in Seq(PostedFunctions)
    BY DEF Init
  <2>3. thrift \in [Thrift -> {"idle", "lookup", "ask", "waiting", "answered"}]
    BY DEF Init
  <2>4. running \in [waiter : Threads \cup {"none"}, at : {"idle", "wantRead", "looking", "done"}]
    BY DEF Init, NoFunction
  <2>5. delta \in [remove : SUBSET Ports, add : SUBSET Ports]
    BY DEF Init
  <2> QED BY <2>1, <2>2, <2>3, <2>4, <2>5 DEF Init, TypeOK
<1>2. queue = << >> /\ DOMAIN queue = {}
  BY DEF Init
<1>3. running.waiter # "update"
  BY DEF Init, NoFunction
<1> QED BY <1>1, <1>2, <1>3 DEF Init, LockInv, Writing

\* Posting a function nobody in stateUpdated() waits for preserves what the
\* invariant says of the queue.
LEMMA PostOther ==
  ASSUME LockInv, NEW fn \in PostedFunctions, fn.waiter # "update", Post(fn)
  PROVE  /\ queue' \in Seq(PostedFunctions)
         /\ \A i \in DOMAIN queue' : queue'[i].waiter = "update" =>
              i \in DOMAIN queue /\ WaitsAt(i) /\ queue'[i] = queue[i]
  BY DEF LockInv, TypeOK, Post, WaitsAt

\* Taking the first function off the queue shifts the others.
LEMMA TailOfQueue ==
  ASSUME LockInv, queue # << >>, queue' = Tail(queue)
  PROVE  /\ queue' \in Seq(PostedFunctions)
         /\ Head(queue) \in PostedFunctions /\ Head(queue) = queue[1] /\ 1 \in DOMAIN queue
         /\ \A i \in DOMAIN queue' :
              i \in Nat /\ i >= 1 /\ i + 1 \in DOMAIN queue /\ queue'[i] = queue[i + 1]
  BY DEF LockInv, TypeOK

\* Every step preserves the invariant.
LEMMA NextLock == LockInv /\ [Next]_vars => LockInv'
<1> SUFFICES ASSUME LockInv, [Next]_vars PROVE LockInv'
  OBVIOUS
<1> USE ManagerAssumption
<1>1. CASE StateUpdated
  BY <1>1 DEF StateUpdated, LockInv, TypeOK, Writing, WaitsAt
<1>2. CASE PortChanged
  <2>1. PICK s \in BOOLEAN : Post([waiter |-> "none", signals |-> s])
    BY <1>2 DEF PortChanged
  <2> QED BY <1>2, <2>1, PostOther DEF PortChanged, LockInv, TypeOK, Writing, WaitsAt, PostedFunctions, Threads
<1>3. CASE TakeWriteLock
  BY <1>3 DEF TakeWriteLock, CanWrite, LockInv, TypeOK, Writing, WaitsAt
<1>4. CASE StopMachines
  <2>1. \A i \in DOMAIN queue : ~WaitsAt(i)
    BY <1>4 DEF StopMachines, LockInv
  <2>2. queue' \in Seq(PostedFunctions)
    BY <1>4 DEF StopMachines, Post, LockInv, TypeOK, PostedFunctions, Threads
  <2>3. \A i \in DOMAIN queue' : queue'[i].waiter = "update" => i = Len(queue) + 1
    BY <1>4, <2>1 DEF StopMachines, Post, LockInv, TypeOK, WaitsAt
  <2> QED BY <1>4, <2>2, <2>3 DEF StopMachines, LockInv, TypeOK, Writing, WaitsAt
<1>5. CASE Downgrade
  BY <1>5 DEF Downgrade, LockInv, TypeOK, Writing, WaitsAt, Threads
<1>6. CASE StateUpdatedReturns
  BY <1>6 DEF StateUpdatedReturns, Unlock, LockInv, TypeOK, Writing, WaitsAt
<1>7. ASSUME NEW p \in Ports, EraseController(p) PROVE LockInv'
  BY <1>7 DEF EraseController, LockInv, TypeOK, Writing, WaitsAt
<1>8. ASSUME NEW p \in Ports, AddController(p) PROVE LockInv'
  <2>1. PICK s \in BOOLEAN : Post([waiter |-> "none", signals |-> s])
    BY <1>8 DEF AddController
  <2> QED BY <1>8, <2>1, PostOther DEF AddController, LockInv, TypeOK, Writing, WaitsAt, PostedFunctions, Threads
<1>9. CASE HandlePacket
  BY <1>9 DEF HandlePacket, Lock, CanRead, LockInv, TypeOK, Writing, WaitsAt, Threads
<1>10. CASE HandlePacketReturns
  <2>1. CASE UNCHANGED queue
    BY <1>10, <2>1 DEF HandlePacketReturns, Unlock, LockInv, TypeOK, Writing, WaitsAt
  <2>2. ASSUME NEW s \in BOOLEAN, Post([waiter |-> "none", signals |-> s]) PROVE LockInv'
    BY <1>10, <2>2, PostOther
       DEF HandlePacketReturns, Unlock, LockInv, TypeOK, Writing, WaitsAt, PostedFunctions, Threads
  <2> QED BY <1>10, <2>1, <2>2 DEF HandlePacketReturns
<1>11. CASE Timeout
  BY <1>11 DEF Timeout, NoFunction, LockInv, TypeOK, Writing, WaitsAt
<1>12. CASE RunFunction
  <2>1. running' \in [waiter : Threads \cup {"none"}, at : {"idle", "wantRead", "looking", "done"}]
    BY <1>12, TailOfQueue DEF RunFunction, PostedFunctions
  <2>2. running'.waiter = "update" => WaitsAt(1)
    BY <1>12, TailOfQueue DEF RunFunction, WaitsAt
  <2>3. \A i \in DOMAIN queue' : queue'[i].waiter = "update" => WaitsAt(i + 1) /\ i + 1 # 1
    BY <1>12, TailOfQueue DEF RunFunction, WaitsAt
  <2> QED BY <1>12, <2>1, <2>2, <2>3, TailOfQueue DEF RunFunction, LockInv, TypeOK, Writing, WaitsAt
<1>13. CASE GetControllersFor
  BY <1>13 DEF GetControllersFor, Lock, CanRead, LockInv, TypeOK, Writing, WaitsAt, Threads
<1>14. CASE GetControllersForReturns
  BY <1>14 DEF GetControllersForReturns, Unlock, LockInv, TypeOK, Writing, WaitsAt
<1>15. CASE FunctionReturns
  BY <1>15 DEF FunctionReturns, NoFunction, LockInv, TypeOK, Writing, WaitsAt
<1>16. ASSUME NEW t \in Thrift, PopulatePartnerPair(t) PROVE LockInv'
  BY <1>16 DEF PopulatePartnerPair, Lock, CanRead, LockInv, TypeOK, Writing, WaitsAt, Threads
<1>17. ASSUME NEW t \in Thrift, LookupReturns(t) PROVE LockInv'
  BY <1>17 DEF LookupReturns, Unlock, LockInv, TypeOK, Writing, WaitsAt
<1>18. ASSUME NEW t \in Thrift, AskInfo(t) PROVE LockInv'
  <2>1. [waiter |-> t, signals |-> FALSE] \in PostedFunctions /\ t # "update"
    BY DEF PostedFunctions, Threads
  <2> QED BY <1>18, <2>1, PostOther DEF AskInfo, LockInv, TypeOK, Writing, WaitsAt
<1>19. ASSUME NEW t \in Thrift, PopulateReturns(t) PROVE LockInv'
  BY <1>19 DEF PopulateReturns, Unlock, LockInv, TypeOK, Writing, WaitsAt
<1>20. CASE UNCHANGED vars
  BY <1>20 DEF vars, LockInv, TypeOK, Writing, WaitsAt
<1> QED
  BY <1>1, <1>2, <1>3, <1>4, <1>5, <1>6, <1>7, <1>8, <1>9, <1>10, <1>11, <1>12, <1>13,
     <1>14, <1>15, <1>16, <1>17, <1>18, <1>19, <1>20
     DEF Next, UpdateThread, LacpEvb, ThriftThread

\* The lock's invariant holds in every reachable state.
THEOREM LockInvariant == Spec => []LockInv
  BY InitLock, NextLock, PTL DEF Spec

\* The type invariant, for every set of ports and Thrift threads.
THEOREM ManagerTypeCorrect == Spec => []TypeOK
<1>1. LockInv => TypeOK
  BY DEF LockInv
<1> QED BY <1>1, LockInvariant, PTL

\* The map of controllers never changes under a reader: LACPDUs, Selectors and
\* Thrift calls see it before or after a configuration change
\* (LinkAggregationManager::stateUpdated(), controllersLock_).
THEOREM MapIsStableUnderReaders == Spec => MapStableUnderReaders
<1>1. LockInv /\ [Next]_vars =>
        [portToController' # portToController => readers = {} /\ readers' = {}]_vars
  <2> SUFFICES ASSUME LockInv, Next, portToController' # portToController
               PROVE  readers = {} /\ readers' = {}
    OBVIOUS
  <2>1. \E p \in Ports : EraseController(p) \/ AddController(p)
    BY DEF Next, UpdateThread, LacpEvb, ThriftThread, StateUpdated, PortChanged, TakeWriteLock,
       StopMachines, Downgrade, StateUpdatedReturns, HandlePacket, HandlePacketReturns, Timeout,
       RunFunction, GetControllersFor, GetControllersForReturns, FunctionReturns,
       PopulatePartnerPair, LookupReturns, AskInfo, PopulateReturns
  <2> QED BY <2>1 DEF EraseController, AddController, LockInv, Writing
<1> QED BY <1>1, LockInvariant, PTL DEF Spec, MapStableUnderReaders
=============================================================================
