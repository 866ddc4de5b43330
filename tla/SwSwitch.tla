------------------------------ MODULE SwSwitch ------------------------------
(***************************************************************************)
(* The state-update pipeline of the FBOSS agent (SwSwitch.cpp): threads    *)
(* queue StateUpdates, the update thread splices a prefix of the queue,    *)
(* runs the update functions, hands the delta to the hardware, publishes   *)
(* the applied and the desired SwitchState and notifies the observers.     *)
(*                                                                         *)
(* A SwitchState object is a record [tree, gen]: tree maps every entry of  *)
(* the state (a route, a neighbour, a port's oper state) to its value, and *)
(* gen is the node's generation number.  Two SwitchState pointers of the   *)
(* code are equal exactly when the two records are.                        *)
(***************************************************************************)
EXTENDS Integers, Sequences, FiniteSets

CONSTANTS
  Callers,      \* threads that call updateState*()
  Initializer,  \* the caller that runs Main.cpp's Initializer thread
  Entries,      \* entries of the SwitchState tree
  Values,       \* values an entry can have
  Absent,       \* the value of an entry that is not in the state
  Bad,          \* a request whose update function throws
  Requests,     \* the updates threads may ask for
  BootTrees,    \* the trees the hardware may come up with
  Rejectable,   \* entries whose addition or change full tables may reject
  AlpmRoutes,   \* the default routes setupAlpmState() adds
  Default,      \* the value of such a route
  MaxUpdates    \* bound: number of updates queued in a behaviour

NoCoalesceKinds == {"noCoalescing"}
BlockingKinds == {"blocking", "syncFib"}
Kinds == {"function"} \union NoCoalesceKinds \union BlockingKinds

Trees == [Entries -> Values]
Ids == 1..MaxUpdates

ASSUME ConstantsAssumption ==
  /\ IsFiniteSet(Callers)
  /\ Initializer \in Callers
  /\ Absent \in Values
  /\ Default \in Values \ {Absent}
  /\ Bad \notin Values
  /\ Requests \subseteq [kind : Kinds, entry : Entries, value : Values \union {Bad}]
  /\ BootTrees \subseteq Trees
  /\ Rejectable \subseteq Entries
  /\ AlpmRoutes \subseteq Entries
  /\ MaxUpdates \in Nat

(* SwitchRunState, in the order of the thrift enum.                        *)
UNINITIALIZED == 0
INITIALIZED == 1
CONFIGURED == 2
FIB_SYNCED == 3
EXITING == 4

VARIABLES
  runState,    \* runState_
  aborted,     \* a CHECK failed or XLOG(FATAL) ended the process
  boot,        \* callbacks init() left on the update event base
  handles,     \* handlePendingUpdates() callbacks on the update event base
  loop,        \* "running", "terminating" (terminateLoopSoon queued), "done"
  pending,     \* pendingUpdates_
  pc,          \* where the update thread is
  batch,       \* the updates spliced off pendingUpdates_
  at,          \* index of the next update of the batch to run
  work,        \* newDesiredState
  result,      \* newAppliedState, as returned by applyUpdate()
  applied,     \* appliedStateDontUseDirectly_
  desired,     \* desiredStateDontUseDirectly_
  hw,          \* what the hardware holds
  view,        \* what an observer that follows the deltas holds
  caller,      \* per thread: what it is doing, and for which update
  outcome,     \* per update: "none", "success" or "error"
  submitted,   \* number of updates queued so far
  saved,       \* the trees written for warm boot
  intent       \* history: every update run so far applied to the last, in order

queueVars == <<handles, loop, pending>>
threadVars == <<pc, batch, at, work, result>>
stateVars == <<applied, desired, hw>>
callerVars == <<caller, submitted>>
vars == <<runState, aborted, boot, queueVars, threadVars, stateVars, view,
          callerVars, outcome, saved, intent>>

-----------------------------------------------------------------------------
(* Update functions and deltas.                                            *)

IsSync(u) == u.kind = "sync"

AllowsCoalescing(u) == u.kind \notin NoCoalesceKinds

(* Wrong variants of SyncUpdate, for validating the properties: one brings *)
(* back what is applied, the other keeps the generation of the clone.      *)
SyncUpdateToApplied(target, from) ==
  [id |-> 0, kind |-> "sync", state |-> [tree |-> from.tree, gen |-> from.gen + 1]]

(* The update for getting the hardware in sync: it ignores the state it is *)
(* given and returns the desired state with a generation above applied's.  *)
SyncUpdate(target, from) ==
  [id |-> 0, kind |-> "sync", state |-> [tree |-> target.tree, gen |-> from.gen + 1]]

Put(tree, u) == [tree EXCEPT ![u.entry] = u.value]

Throws(u) == ~IsSync(u) /\ u.value = Bad

(* StateUpdate::applyUpdate(): null, modelled by the unchanged state, when *)
(* the update changes nothing; otherwise a clone one generation later.     *)
ApplyFn(u, s) ==
  IF IsSync(u) THEN u.state
  ELSE IF Throws(u) \/ Put(s.tree, u) = s.tree THEN s
  ELSE [tree |-> Put(s.tree, u), gen |-> s.gen + 1]

(* Wrong variant: removals are not reported.                               *)
FollowAdditions(v, old, new) ==
  [e \in Entries |-> IF old[e] # new[e] /\ new[e] # Absent THEN new[e] ELSE v[e]]

(* What an observer holds after it follows the delta old -> new.           *)
Follow(v, old, new) ==
  [e \in Entries |-> IF old[e] # new[e] THEN new[e] ELSE v[e]]

(* The trees HwSwitch::stateChanged() may leave in hardware: additions and *)
(* changes that meet a full table are reverted to the old entry.           *)
HwResults(old, new) ==
  {[e \in Entries |-> IF e \in R THEN old[e] ELSE new[e]] :
      R \in SUBSET {e \in Rejectable : old[e] # new[e] /\ new[e] # Absent}}

(* Wrong variant: take everything.                                         *)
SpliceAll(q) == Len(q)

(* How much of the queue one handlePendingUpdates() takes: everything up   *)
(* to and including the first update that does not allow coalescing.       *)
SpliceLength(q) ==
  LET stops == {i \in DOMAIN q : ~AllowsCoalescing(q[i])}
  IN  IF stops = {} THEN Len(q)
      ELSE CHOOSE i \in stops : \A j \in stops : i <= j

(* queueStateUpdateForGettingHwInSync(): push_front, and no signal.        *)
QueueForSync(q, u) == <<u>> \o q

(* Wrong variant: the reverted entries are not taken out of the state.     *)
AppliedStateUnreverted(t, newState) == newState

(* The SwitchState stateChanged() returns when the hardware ends up with   *)
(* tree t: newState itself, or a clone of it with entries reverted.        *)
AppliedState(t, newState) ==
  IF t = newState.tree THEN newState ELSE [tree |-> t, gen |-> newState.gen + 1]

(* onSuccess() for the updates left in the batch: those that threw have    *)
(* been deleted from it.                                                   *)
Succeed(o, b) ==
  [i \in Ids |-> IF o[i] = "none" /\ \E k \in DOMAIN b : b[k].id = i
                 THEN "success" ELSE o[i]]

(* Wrong variant: one callback for any number of updates.                  *)
RunOnceInEventBaseThread(n) == IF loop = "running" THEN 1 ELSE n

(* The callbacks on the update event base once one more is queued: behind  *)
(* terminateLoopSoon() it never runs.                                      *)
RunInEventBaseThread(n) == IF loop = "running" THEN n + 1 ELSE n

isInitialized == runState >= INITIALIZED
isFibSynced == runState >= FIB_SYNCED
isExiting == runState >= EXITING

(* setSwitchRunState(): exchange, then CHECK(oldState <= runState).        *)
SetSwitchRunState(s) ==
  /\ runState' = s
  /\ aborted' = (runState > s)

-----------------------------------------------------------------------------
(* init() has stored the state the hardware came up with as applied and    *)
(* desired state, and has queued the initial notification and, when a      *)
(* default route is missing, the ALPM update.                              *)
AlpmTree(t) == [e \in Entries |-> IF e \in AlpmRoutes /\ t[e] = Absent
                                  THEN Default ELSE t[e]]

Init ==
  /\ runState = UNINITIALIZED
  /\ aborted = FALSE
  /\ \E t \in BootTrees :
        /\ applied = [tree |-> t, gen |-> 0]
        /\ hw = t
        /\ intent = AlpmTree(t)
        /\ boot = IF AlpmTree(t) = t THEN <<"notify">> ELSE <<"notify", "alpm">>
  /\ desired = applied
  /\ handles = 0
  /\ loop = "running"
  /\ pending = <<>>
  /\ pc = "idle"
  /\ batch = <<>>
  /\ at = 1
  /\ work = applied
  /\ result = applied
  /\ view = [e \in Entries |-> Absent]
  /\ caller = [c \in Callers |-> [pc |-> "idle", id |-> 0, kind |-> "function"]]
  /\ outcome = [i \in Ids |-> "none"]
  /\ submitted = 0
  /\ saved = {}

-----------------------------------------------------------------------------
(* The threads that queue updates, and the run state.                      *)

(* The last line of init().                                                *)
SwitchInitialized ==
  /\ ~aborted
  /\ runState = UNINITIALIZED
  /\ SetSwitchRunState(INITIALIZED)
  /\ UNCHANGED <<boot, queueVars, threadVars, stateVars, view, callerVars,
                 outcome, saved, intent>>

(* The first half of updateState(): push_back under pendingUpdatesLock_.   *)
(* The Initializer queues the initial config; link events and packets are  *)
(* refused before INITIALIZED, a FIB sync before CONFIGURED.               *)
QueueUpdate(c, r) ==
  /\ ~aborted
  /\ isInitialized
  /\ caller[c].pc = "idle"
  /\ submitted < MaxUpdates
  /\ c = Initializer => runState = INITIALIZED /\ r.kind = "blocking"
  /\ r.kind = "syncFib" => runState \in {CONFIGURED, FIB_SYNCED}
  /\ submitted' = submitted + 1
  /\ pending' = Append(pending, [id |-> submitted + 1, kind |-> r.kind,
                                 entry |-> r.entry, value |-> r.value])
  /\ caller' = [caller EXCEPT ![c] = [pc |-> "pushed", id |-> submitted + 1,
                                      kind |-> r.kind]]
  /\ UNCHANGED <<runState, aborted, boot, handles, loop, threadVars, stateVars,
                 view, outcome, saved, intent>>

(* The second half: signal the update thread.                              *)
SignalUpdateThread(c) ==
  /\ ~aborted
  /\ caller[c].pc = "pushed"
  /\ handles' = RunInEventBaseThread(handles)
  /\ caller' = [caller EXCEPT ![c].pc = IF caller[c].kind \in BlockingKinds
                                        THEN "waiting" ELSE "idle"]
  /\ UNCHANGED <<runState, aborted, boot, loop, pending, threadVars, stateVars,
                 view, submitted, outcome, saved, intent>>

(* BlockingUpdateResult::wait() returns or rethrows.  A failed initial     *)
(* config is fatal; a FIB sync goes on to look at the run state.           *)
WaitReturns(c) ==
  /\ ~aborted
  /\ caller[c].pc = "waiting"
  /\ outcome[caller[c].id] # "none"
  /\ caller' = [caller EXCEPT ![c].pc =
                  IF outcome[caller[c].id] = "error" THEN "idle"
                  ELSE IF c = Initializer THEN "configured"
                  ELSE IF caller[c].kind = "syncFib" THEN "synced" ELSE "idle"]
  /\ aborted' = (c = Initializer /\ outcome[caller[c].id] = "error")
  /\ UNCHANGED <<runState, boot, queueVars, threadVars, stateVars, view,
                 submitted, outcome, saved, intent>>

(* initialConfigApplied().                                                 *)
InitialConfigApplied(c) ==
  /\ ~aborted
  /\ caller[c].pc = "configured"
  /\ SetSwitchRunState(CONFIGURED)
  /\ caller' = [caller EXCEPT ![c].pc = "idle"]
  /\ UNCHANGED <<boot, queueVars, threadVars, stateVars, view, submitted,
                 outcome, saved, intent>>

(* syncFibInVrf(): if (!isFibSynced()) ...                                 *)
CheckFibSynced(c) ==
  /\ ~aborted
  /\ caller[c].pc = "synced"
  /\ caller' = [caller EXCEPT ![c].pc = IF isFibSynced THEN "idle" ELSE "marking"]
  /\ UNCHANGED <<runState, aborted, boot, queueVars, threadVars, stateVars,
                 view, submitted, outcome, saved, intent>>

(* ... fibSynced().                                                        *)
FibSynced(c) ==
  /\ ~aborted
  /\ caller[c].pc = "marking"
  /\ SetSwitchRunState(FIB_SYNCED)
  /\ caller' = [caller EXCEPT ![c].pc = "idle"]
  /\ UNCHANGED <<boot, queueVars, threadVars, stateVars, view, submitted,
                 outcome, saved, intent>>

(* Wrong variant: the signal handler does not wait for the Initializer.    *)
StopSwitchAnyTime ==
  /\ ~aborted
  /\ runState \in {INITIALIZED, CONFIGURED, FIB_SYNCED}
  /\ SetSwitchRunState(EXITING)
  /\ UNCHANGED <<boot, queueVars, threadVars, stateVars, view, callerVars,
                 outcome, saved, intent>>

(* The signal handler waits for the Initializer, then gracefulExit() calls *)
(* stop(), whose first line is the run state and whose last is             *)
(* stopThreads().                                                          *)
StopSwitch ==
  /\ ~aborted
  /\ runState \in {CONFIGURED, FIB_SYNCED}
  /\ SetSwitchRunState(EXITING)
  /\ UNCHANGED <<boot, queueVars, threadVars, stateVars, view, callerVars,
                 outcome, saved, intent>>

StopThreads ==
  /\ ~aborted
  /\ isExiting
  /\ loop = "running"
  /\ loop' = "terminating"
  /\ UNCHANGED <<runState, aborted, boot, handles, pending, threadVars,
                 stateVars, view, callerVars, outcome, saved, intent>>

(* After join(), gracefulExit() serialises the applied state.              *)
SerializeState ==
  /\ ~aborted
  /\ loop = "done"
  /\ saved = {}
  /\ saved' = {applied.tree}
  /\ UNCHANGED <<runState, aborted, boot, queueVars, threadVars, stateVars,
                 view, callerVars, outcome, intent>>

-----------------------------------------------------------------------------
(* The update thread.                                                      *)

(* notifyStateObservers() with the delta empty -> initial state.           *)
NotifyInitialState ==
  /\ ~aborted
  /\ pc = "idle"
  /\ boot # <<>>
  /\ Head(boot) = "notify"
  /\ boot' = Tail(boot)
  /\ view' = IF isExiting THEN view
             ELSE Follow(view, [e \in Entries |-> Absent], desired.tree)
  /\ UNCHANGED <<runState, aborted, queueVars, threadVars, stateVars,
                 callerVars, outcome, saved, intent>>

(* The ALPM callback of init() calls applyUpdate() with an empty batch.    *)
ApplyAlpmState ==
  /\ ~aborted
  /\ pc = "idle"
  /\ boot # <<>>
  /\ Head(boot) = "alpm"
  /\ boot' = Tail(boot)
  /\ work' = [tree |-> AlpmTree(desired.tree), gen |-> desired.gen + 1]
  /\ pc' = "apply"
  /\ UNCHANGED <<runState, aborted, queueVars, batch, at, result, stateVars,
                 view, callerVars, outcome, saved, intent>>

(* handlePendingUpdates(), up to the early return.                         *)
SplicePendingUpdates ==
  /\ ~aborted
  /\ pc = "idle"
  /\ boot = <<>>
  /\ handles > 0
  /\ handles' = handles - 1
  /\ batch' = SubSeq(pending, 1, SpliceLength(pending))
  /\ pending' = SubSeq(pending, SpliceLength(pending) + 1, Len(pending))
  /\ at' = 1
  /\ work' = applied
  /\ pc' = IF pending = <<>> THEN "idle" ELSE "prepare"
  /\ UNCHANGED <<runState, aborted, boot, loop, result, stateVars, view,
                 callerVars, outcome, saved, intent>>

(* One turn of the loop over the batch.  A FunctionStateUpdate that throws *)
(* ends the process, a BlockingStateUpdate reports to its caller.          *)
PrepareUpdate ==
  /\ ~aborted
  /\ pc = "prepare"
  /\ at <= Len(batch)
  /\ LET u == batch[at] IN
       /\ work' = ApplyFn(u, work)
       /\ aborted' = (Throws(u) /\ u.kind \notin BlockingKinds)
       /\ outcome' = IF Throws(u) THEN [outcome EXCEPT ![u.id] = "error"] ELSE outcome
       /\ intent' = IF IsSync(u) \/ Throws(u) THEN intent ELSE Put(intent, u)
  /\ at' = at + 1
  /\ UNCHANGED <<runState, boot, queueVars, pc, batch, result, stateVars, view,
                 callerVars, saved>>

(* if (newDesiredState != oldAppliedState)                                 *)
CompareStates ==
  /\ ~aborted
  /\ pc = "prepare"
  /\ at > Len(batch)
  /\ pc' = IF work # applied THEN "apply" ELSE "finish"
  /\ result' = work
  /\ UNCHANGED <<runState, aborted, boot, queueVars, batch, at, work, stateVars,
                 view, callerVars, outcome, saved, intent>>

(* applyUpdate() while exiting: return oldState, nothing else.             *)
AbortUpdate ==
  /\ ~aborted
  /\ pc = "apply"
  /\ isExiting
  /\ result' = applied
  /\ pc' = "finish"
  /\ UNCHANGED <<runState, aborted, boot, queueVars, batch, at, work, stateVars,
                 view, callerVars, outcome, saved, intent>>

(* hw_->stateChanged(delta): when entries are reverted the returned state  *)
(* is a clone of the desired one.                                          *)
HwStateChanged ==
  /\ ~aborted
  /\ pc = "apply"
  /\ ~isExiting
  /\ \E t \in HwResults(applied.tree, work.tree) :
        /\ hw' = t
        /\ result' = AppliedState(t, work)
  /\ pc' = "publish"
  /\ UNCHANGED <<runState, aborted, boot, queueVars, batch, at, work, applied,
                 desired, view, callerVars, outcome, saved, intent>>

(* stateChanged() throws: exitFatal() and XLOG(FATAL).                     *)
HwStateChangeThrows ==
  /\ ~aborted
  /\ pc = "apply"
  /\ ~isExiting
  /\ aborted' = TRUE
  /\ UNCHANGED <<runState, boot, queueVars, threadVars, stateVars, view,
                 callerVars, outcome, saved, intent>>

(* setStateInternal(newAppliedState, newState) and notifyStateObservers(): *)
(* the delta runs from the old applied to the new desired state.           *)
PublishState ==
  /\ ~aborted
  /\ pc = "publish"
  /\ applied' = result
  /\ desired' = work
  /\ view' = IF isExiting THEN view ELSE Follow(view, applied.tree, work.tree)
  /\ pc' = "finish"
  /\ UNCHANGED <<runState, aborted, boot, queueVars, batch, at, work, result, hw,
                 callerVars, outcome, saved, intent>>

(* queueStateUpdateForGettingHwInSync() when out of sync (push_front, no   *)
(* signal), then onSuccess() for every update that did not throw.  The     *)
(* ALPM callback of init() has no batch and ignores applyUpdate()'s result.*)
FinishUpdates ==
  /\ ~aborted
  /\ pc = "finish"
  /\ pending' = IF batch # <<>> /\ result # work
                THEN QueueForSync(pending, SyncUpdate(work, result)) ELSE pending
  /\ outcome' = Succeed(outcome, batch)
  /\ batch' = <<>>
  /\ pc' = "idle"
  /\ UNCHANGED <<runState, aborted, boot, handles, loop, at, work, result,
                 stateVars, view, callerVars, saved, intent>>

(* The terminateLoopSoon() callback, behind every earlier callback.        *)
TerminateLoop ==
  /\ ~aborted
  /\ pc = "idle"
  /\ boot = <<>>
  /\ handles = 0
  /\ loop = "terminating"
  /\ loop' = "done"
  /\ UNCHANGED <<runState, aborted, boot, handles, pending, threadVars,
                 stateVars, view, callerVars, outcome, saved, intent>>

-----------------------------------------------------------------------------
UpdateThread ==
  \/ NotifyInitialState \/ ApplyAlpmState
  \/ SplicePendingUpdates \/ PrepareUpdate \/ CompareStates
  \/ AbortUpdate \/ HwStateChanged \/ HwStateChangeThrows \/ PublishState
  \/ FinishUpdates \/ TerminateLoop

CallerStep(c) ==
  \/ SignalUpdateThread(c) \/ WaitReturns(c) \/ InitialConfigApplied(c)
  \/ CheckFibSynced(c) \/ FibSynced(c)

Next ==
  \/ SwitchInitialized
  \/ \E c \in Callers, r \in Requests : QueueUpdate(c, r)
  \/ \E c \in Callers : CallerStep(c)
  \/ StopSwitch \/ StopThreads \/ SerializeState
  \/ UpdateThread

(* The event base keeps running its callbacks, and a thread inside         *)
(* updateState() keeps going; nobody has to queue an update or to exit.    *)
Fairness ==
  /\ WF_vars(UpdateThread)
  /\ \A c \in Callers : WF_vars(CallerStep(c))

Spec == Init /\ [][Next]_vars

FairSpec == Spec /\ Fairness
-----------------------------------------------------------------------------
(* Properties.                                                             *)

States == [tree : Trees, gen : Nat]
Updates == [id : Ids, kind : Kinds, entry : Entries, value : Values \union {Bad}]
SyncUpdates == [id : {0}, kind : {"sync"}, state : States]

BootQueues == {<<"notify", "alpm">>, <<"notify">>, <<"alpm">>, <<>>}
CallerStates == [pc : {"idle", "pushed", "waiting", "configured", "synced", "marking"},
                 id : 0..MaxUpdates, kind : Kinds]

(* Every variable has the type of the member or local it stands for.       *)
TypeOK ==
  /\ runState \in UNINITIALIZED..EXITING
  /\ aborted \in BOOLEAN
  /\ boot \in BootQueues
  /\ handles \in Nat
  /\ loop \in {"running", "terminating", "done"}
  /\ pending \in Seq(Updates \union SyncUpdates)
  /\ pc \in {"idle", "prepare", "apply", "publish", "finish"}
  /\ batch \in Seq(Updates \union SyncUpdates)
  /\ at \in Nat \ {0}
  /\ {work, result, applied, desired} \subseteq States
  /\ {hw, view, intent} \subseteq Trees
  /\ caller \in [Callers -> CallerStates]
  /\ outcome \in [Ids -> {"none", "success", "error"}]
  /\ submitted \in 0..MaxUpdates
  /\ saved \subseteq Trees

Pushed == {c \in Callers : caller[c].pc = "pushed"}

HeadIsSync == pending # <<>> /\ IsSync(Head(pending))

(* The number of updates in the queue that some thread asked for.          *)
Requested == Len(pending) - (IF HeadIsSync THEN 1 ELSE 0)

(* "handlePendingUpdates() is invoked once for each update" although one   *)
(* call may take many: as long as the event base runs, there are at least  *)
(* as many callbacks queued or about to be queued as there are requested   *)
(* updates, so none is left behind by a call that stops at an update that  *)
(* does not coalesce, or by the sync update that is queued with no signal. *)
NoStrandedUpdate ==
  loop = "running" => Requested <= handles + Cardinality(Pushed)

(* The process runs and neither gracefulExit() nor an abort has begun.     *)
Live == ~isExiting /\ ~aborted

(* The update that applied and desired states owe each other is at the     *)
(* front of the queue exactly while they differ, carries the desired tree, *)
(* and is nowhere else in the queue: the base handlePendingUpdates() takes *)
(* is the applied state, so this is what keeps rejected entries alive.     *)
SyncUpdateHeldWhileDiverged ==
  /\ \A i \in 2..Len(pending) : ~IsSync(pending[i])
  /\ Live /\ pc = "idle" =>
       IF applied = desired THEN ~HeadIsSync
       ELSE /\ HeadIsSync
            /\ Head(pending).state.tree = desired.tree
            /\ Head(pending).state.gen > applied.gen

(* Whatever the hardware rejects and however updates are batched, between  *)
(* two calls of handlePendingUpdates() the desired state is the initial    *)
(* state with every update run so far applied once and in queue order.     *)
NoLostUpdate ==
  Live /\ pc = "idle" /\ boot = <<>> => desired.tree = intent

(* The applied state the agent publishes, and the one it saves for a warm  *)
(* boot, is what the hardware holds; only the update thread, between       *)
(* stateChanged() and setStateInternal(), may be ahead.                    *)
AppliedStateIsHardwareState ==
  /\ pc # "publish" => applied.tree = hw
  /\ saved \subseteq {hw}

(* DCHECK_EQ and DCHECK_GT in applyUpdate(): the delta starts from what    *)
(* has been applied, and the generation grows, also when the batch starts  *)
(* with the update for getting the hardware in sync.                       *)
GenerationGrows ==
  /\ pc = "apply" => work.gen > applied.gen
  /\ pc = "publish" => result.gen > applied.gen

(* An observer that follows the deltas holds every entry the hardware never *)
(* rejects as the desired state has it, although a delta starts from the    *)
(* applied state and not from what the observer was told last.              *)
ObserverHoldsUnrejected ==
  Live /\ pc = "idle" /\ boot = <<>> =>
    \A e \in Entries \ Rejectable : view[e] = desired.tree[e]

(* The run state only moves on, initialConfigApplied() never takes back an *)
(* exit, with one exception: syncFibInVrf() may set FIB_SYNCED on a switch *)
(* that began to exit after isFibSynced() said no, which ends the process. *)
OnlyFibSyncTakesExitBack ==
  [][runState' < runState => aborted' /\ \E c \in Callers : FibSynced(c)]_vars

(* Every update that is queued gets its outcome, unless the event base is  *)
(* told to terminate first.                                                *)
UpdatesHandled ==
  \A i \in Ids : submitted >= i ~> (outcome[i] # "none" \/ loop # "running" \/ aborted)
=============================================================================
