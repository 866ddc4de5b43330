------------------------- MODULE LinkAggregationManager -------------------------
(***************************************************************************)
(* The threads that meet in LinkAggregationManager                         *)
(* (fboss/agent/LinkAggregationManager.cpp) and what they wait for.        *)
(*                                                                         *)
(*   - the update thread runs stateUpdated(): it takes controllersLock_    *)
(*     for writing, stops the controllers of removed ports (waiting for    *)
(*     the LACP event base each time), adds and starts new ones, then      *)
(*     downgrades the lock to post port events;                            *)
(*   - the RX thread runs handlePacket() under a read lock;                *)
(*   - the LACP event base runs posted functions in order; a function that *)
(*     signals other ports takes a read lock in getControllersFor();       *)
(*   - Thrift threads ask for a controller's info, which is a function     *)
(*     posted to the LACP event base and waited for, after the read lock   *)
(*     (populatePartnerPair) or under it (populatePartnerPairs).           *)
(*                                                                         *)
(* controllersLock_ is a folly::SharedMutexWritePriority: a waiting writer *)
(* keeps new readers out.  What the controllers do is in module Lacp.      *)
(***************************************************************************)
EXTENDS Integers, Sequences, FiniteSets

CONSTANTS
  Ports,
  Thrift,       \* Thrift worker threads
  Removals,     \* BOOLEAN: configurations that take ports out of aggregates
  AllPairs,     \* BOOLEAN: populatePartnerPairs is called
  MaxQueue      \* bound on the functions waiting on the LACP event base

ASSUME ManagerAssumption ==
  /\ Thrift \cap {"rx", "evb", "update", "none"} = {}
  /\ Removals \in BOOLEAN /\ AllPairs \in BOOLEAN
  /\ MaxQueue \in Nat \ {0}

VARIABLES
  portToController,  \* the ports with a controller
  writer,            \* the update thread holds controllersLock_ for writing
  readers,           \* the threads that hold it for reading
  queue,             \* functions posted to the LACP event base
  running,           \* the function it runs, and how far it got
  update,            \* where the update thread is in stateUpdated()
  delta,             \* the ports it has still to remove, and to add
  thrift             \* where each Thrift thread is

vars == <<portToController, writer, readers, queue, running, update, delta, thrift>>

Threads == {"rx", "evb", "update"} \cup Thrift

\* A posted function: `signals' if it will call getControllersFor(), and the
\* thread that waits for it, if any.
PostedFunctions == [waiter : Threads \cup {"none"}, signals : BOOLEAN]

NoFunction == [waiter |-> "none", at |-> "idle"]

Post(fn) == queue' = Append(queue, fn)

CanPost == Len(queue) < MaxQueue

-----------------------------------------------------------------------------
(* controllersLock_ *)

\* A reader gets in although a writer is waiting or inside.
CanReadAnyTime == TRUE

\* Readers do not wait for a waiting writer.
CanReadFirst == ~writer

CanRead == ~writer /\ update # "wantWrite"

CanWrite == ~writer /\ readers = {}

Lock(t) == CanRead /\ readers' = readers \cup {t}

Unlock(t) == readers' = readers \ {t}

-----------------------------------------------------------------------------
(* The update thread *)

\* stateUpdated(): every state update takes the lock for writing.
StateUpdated ==
  /\ update = "idle"
  /\ \E removed \in IF Removals THEN SUBSET portToController ELSE {{}},
        added \in SUBSET (Ports \ portToController) :
       delta' = [remove |-> removed, add |-> added]
  /\ update' = "wantWrite"
  /\ UNCHANGED <<portToController, writer, readers, queue, running, thrift>>

TakeWriteLock ==
  /\ update = "wantWrite" /\ CanWrite
  /\ writer' = TRUE
  /\ update' = "changing"
  /\ UNCHANGED <<portToController, readers, queue, running, delta, thrift>>

\* aggregatePortRemoved(): stopMachines() posts a function and waits for it.
StopMachines ==
  /\ update = "changing" /\ delta.remove # {}
  /\ Post([waiter |-> "update", signals |-> FALSE])
  /\ update' = "stopping"
  /\ UNCHANGED <<portToController, writer, readers, running, delta, thrift>>

\* ... and is erased from the map once that returned.
EraseController(p) ==
  /\ update = "stopped" /\ p \in delta.remove
  /\ portToController' = portToController \ {p}
  /\ delta' = [delta EXCEPT !.remove = @ \ {p}]
  /\ update' = "changing"
  /\ UNCHANGED <<writer, readers, queue, running, thrift>>

\* aggregatePortAdded(): initialize() tells the Selector it is unselected,
\* which may signal others.
AddController(p) ==
  /\ update = "changing" /\ delta.remove = {} /\ p \in delta.add
  /\ portToController' = portToController \cup {p}
  /\ delta' = [delta EXCEPT !.add = @ \ {p}]
  /\ \E s \in BOOLEAN : Post([waiter |-> "none", signals |-> s])
  /\ UNCHANGED <<writer, readers, running, update, thrift>>

Downgrade ==
  /\ update = "changing" /\ delta.remove = {} /\ delta.add = {}
  /\ writer' = FALSE
  /\ readers' = readers \cup {"update"}
  /\ update' = "reading"
  /\ UNCHANGED <<portToController, queue, running, delta, thrift>>

\* portChanged(): posts portUp() or portDown(), which may signal others.
PortChanged ==
  /\ update = "reading" /\ portToController # {} /\ CanPost
  /\ \E s \in BOOLEAN : Post([waiter |-> "none", signals |-> s])
  /\ UNCHANGED <<portToController, writer, readers, running, update, delta, thrift>>

StateUpdatedReturns ==
  /\ update = "reading"
  /\ Unlock("update")
  /\ update' = "idle"
  /\ UNCHANGED <<portToController, writer, queue, running, delta, thrift>>

-----------------------------------------------------------------------------
(* The RX thread *)

HandlePacket ==
  /\ "rx" \notin readers /\ Lock("rx")
  /\ UNCHANGED <<portToController, writer, queue, running, update, delta, thrift>>

\* received() is posted if the ingress port has a controller.
HandlePacketReturns ==
  /\ "rx" \in readers
  /\ \/ portToController # {} /\ CanPost /\ \E s \in BOOLEAN : Post([waiter |-> "none", signals |-> s])
     \/ UNCHANGED queue
  /\ Unlock("rx")
  /\ UNCHANGED <<portToController, writer, running, update, delta, thrift>>

-----------------------------------------------------------------------------
(* The LACP event base *)

RunFunction ==
  /\ running = NoFunction /\ queue # << >>
  /\ running' = [waiter |-> Head(queue).waiter,
                 at |-> IF Head(queue).signals THEN "wantRead" ELSE "done"]
  /\ queue' = Tail(queue)
  /\ UNCHANGED <<portToController, writer, readers, update, delta, thrift>>

\* A timeout may signal others as well (ReceiveMachine::defaulted).
Timeout ==
  /\ running = NoFunction /\ portToController # {}
  /\ running' = [waiter |-> "none", at |-> "wantRead"]
  /\ UNCHANGED <<portToController, writer, readers, queue, update, delta, thrift>>

GetControllersFor ==
  /\ running.at = "wantRead" /\ Lock("evb")
  /\ running' = [running EXCEPT !.at = "looking"]
  /\ UNCHANGED <<portToController, writer, queue, update, delta, thrift>>

GetControllersForReturns ==
  /\ running.at = "looking"
  /\ Unlock("evb")
  /\ running' = [running EXCEPT !.at = "done"]
  /\ UNCHANGED <<portToController, writer, queue, update, delta, thrift>>

\* The function ends, and the thread that waits for it goes on.
FunctionReturns ==
  /\ running.at = "done"
  /\ running' = NoFunction
  /\ update' = IF running.waiter = "update" THEN "stopped" ELSE update
  /\ thrift' = [t \in Thrift |-> IF running.waiter = t THEN "answered" ELSE thrift[t]]
  /\ UNCHANGED <<portToController, writer, readers, queue, delta>>
-----------------------------------------------------------------------------
(* Thrift threads.  actorInfo() and partnerInfo() are one wait here; so are *)
(* those of each controller in turn.                                        *)

\* populatePartnerPair() looks the controller up under the lock, or
\* populatePartnerPairs() takes the lock for the whole call.
PopulatePartnerPair(t) ==
  /\ thrift[t] = "idle" /\ Lock(t)
  /\ \/ thrift' = [thrift EXCEPT ![t] = "lookup"]
     \/ AllPairs /\ thrift' = [thrift EXCEPT ![t] = "ask"]
  /\ UNCHANGED <<portToController, writer, queue, running, update, delta>>

LookupReturns(t) ==
  /\ thrift[t] = "lookup"
  /\ Unlock(t)
  /\ thrift' = [thrift EXCEPT ![t] = IF portToController = {} THEN "idle" ELSE "ask"]
  /\ UNCHANGED <<portToController, writer, queue, running, update, delta>>

AskInfo(t) ==
  /\ thrift[t] = "ask"
  /\ Post([waiter |-> t, signals |-> FALSE])
  /\ thrift' = [thrift EXCEPT ![t] = "waiting"]
  /\ UNCHANGED <<portToController, writer, readers, running, update, delta>>

PopulateReturns(t) ==
  /\ thrift[t] = "answered"
  /\ Unlock(t)
  /\ thrift' = [thrift EXCEPT ![t] = "idle"]
  /\ UNCHANGED <<portToController, writer, queue, running, update, delta>>

-----------------------------------------------------------------------------

Init ==
  /\ portToController = {}
  /\ writer = FALSE
  /\ readers = {}
  /\ queue = << >>
  /\ running = NoFunction
  /\ update = "idle"
  /\ delta = [remove |-> {}, add |-> {}]
  /\ thrift = [t \in Thrift |-> "idle"]

UpdateThread ==
  \/ TakeWriteLock \/ StopMachines \/ Downgrade \/ StateUpdatedReturns
  \/ \E p \in Ports : EraseController(p) \/ AddController(p)

LacpEvb == RunFunction \/ GetControllersFor \/ GetControllersForReturns \/ FunctionReturns

ThriftThread(t) == PopulatePartnerPair(t) \/ LookupReturns(t) \/ AskInfo(t) \/ PopulateReturns(t)

Next ==
  \/ StateUpdated \/ PortChanged \/ UpdateThread
  \/ HandlePacket \/ HandlePacketReturns
  \/ Timeout \/ LacpEvb
  \/ \E t \in Thrift : ThriftThread(t)

Spec == Init /\ [][Next]_vars

\* Every thread is scheduled, folly's mutex lets a waiting thread in when it
\* keeps finding the lock free for it, and the event base comes round to its
\* queue between timeouts; nobody has to start anything new.
Fairness ==
  /\ SF_vars(UpdateThread) /\ WF_vars(StateUpdatedReturns)
  /\ SF_vars(LacpEvb) /\ SF_vars(RunFunction)
  /\ WF_vars(HandlePacketReturns)
  /\ \A t \in Thrift :
       WF_vars(LookupReturns(t)) /\ WF_vars(AskInfo(t)) /\ WF_vars(PopulateReturns(t))

FairSpec == Spec /\ Fairness

-----------------------------------------------------------------------------
(* Properties *)

\* The lock, the queue of the event base and the position of each thread are well
\* formed; the lock is held for writing only inside stateUpdated().
TypeOK ==
  /\ portToController \subseteq Ports
  /\ writer \in BOOLEAN /\ (writer => update \in {"changing", "stopping", "stopped"})
  /\ readers \subseteq Threads
  /\ queue \in Seq(PostedFunctions)
  /\ running \in [waiter : Threads \cup {"none"}, at : {"idle", "wantRead", "looking", "done"}]
  /\ update \in {"idle", "wantWrite", "changing", "stopping", "stopped", "reading"}
  /\ delta \in [remove : SUBSET Ports, add : SUBSET Ports]
  /\ thrift \in [Thrift -> {"idle", "lookup", "ask", "waiting", "answered"}]

\* The map of controllers does not change under a reader: neither the lookup of
\* an LACPDU's port, nor the one of the ports a Selector signals, nor a
\* Thrift call can see it half way through a configuration change.
MapStableUnderReaders == [][portToController' # portToController => readers = {} /\ readers' = {}]_vars

\* A thread waits for the LACP event base with controllersLock_ held.
WaitsLocked == update = "stopping" \/ \E t \in readers : t \in Thrift /\ thrift[t] # "lookup"

\* Unless some thread waits for the LACP event base under the lock
\* (aggregatePortRemoved, populatePartnerPairs), a state update's notification
\* returns: stateUpdated() gets the lock although readers keep coming.
StateUpdateReturns == []~WaitsLocked => (update = "wantWrite" ~> update = "idle")

=============================================================================
