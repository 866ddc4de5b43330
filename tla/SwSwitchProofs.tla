--------------------------- MODULE SwSwitchProofs ---------------------------
(***************************************************************************)
(* Theorems about SwSwitch, for every set of threads, entries, values,     *)
(* requests and rejections and every number of updates: no update is       *)
(* stranded or lost; what is published as applied is what the hardware     *)
(* holds, generations grow, and the update that brings a diverged hardware *)
(* back is never lost; and SwSwitch implements SwitchStateRegister.        *)
(***************************************************************************)
EXTENDS SwSwitchRefinement, SequenceTheorems, FiniteSetTheorems,
        WellFoundedInduction, TLAPS

-----------------------------------------------------------------------------
(* The operators of the model.                                             *)

(* A nonempty set of naturals has a least element.                         *)
LEMMA LeastNatural ==
  ASSUME NEW T \in SUBSET Nat, T # {}
  PROVE  \E i \in T : \A j \in T : i <= j
<1> DEFINE R == {p \in Nat \X Nat : p[1] < p[2]}
<1>1. IsWellFoundedOn(R, Nat)
  BY NatLessThanWellFounded, Zenon DEF OpToRel
<1> HIDE DEF R
<1>2. \E i \in T : \A j \in T : ~(<<j, i>> \in R)
  BY <1>1, WFMin, Zenon
<1>3. \A i, j \in Nat : ~(<<j, i>> \in R) => i <= j
  BY DEF R
<1> QED
  BY <1>2, <1>3, Zenon

(* What handlePendingUpdates() splices off a nonempty queue is a nonempty  *)
(* prefix of it, all of it unless the prefix ends at an update that does   *)
(* not allow coalescing.                                                   *)
LEMMA SpliceLengthBounds ==
  ASSUME NEW S, NEW q \in Seq(S)
  PROVE  /\ SpliceLength(q) \in 0..Len(q)
         /\ q # <<>> => SpliceLength(q) >= 1
         /\ \/ SpliceLength(q) = Len(q)
            \/ ~AllowsCoalescing(q[SpliceLength(q)])
         /\ \A i \in 1..(SpliceLength(q) - 1) : AllowsCoalescing(q[i])
<1> DEFINE stops == {i \in DOMAIN q : ~AllowsCoalescing(q[i])}
<1>1. DOMAIN q = 1..Len(q) /\ Len(q) \in Nat /\ (q # <<>> => Len(q) >= 1)
  BY EmptySeq, LenProperties
<1>2. CASE stops = {}
  BY <1>1, <1>2 DEF SpliceLength
<1>3. CASE stops # {}
  <2>0. stops \in SUBSET Nat
    BY <1>1
  <2>1. \E i \in stops : \A j \in stops : i <= j
    <3> HIDE DEF stops
    <3> QED  BY <1>3, <2>0, LeastNatural
  <2>2. SpliceLength(q) \in stops /\ \A j \in stops : SpliceLength(q) <= j
    BY <1>3, <2>1 DEF SpliceLength
  <2> QED
    BY <1>1, <2>2
<1> QED
  BY <1>2, <1>3

(* An update is the one for getting the hardware in sync, or one that some *)
(* thread asked for.                                                       *)
LEMMA UpdateKinds ==
  /\ \A u \in Updates : ~IsSync(u)
  /\ \A u \in SyncUpdates : IsSync(u) /\ AllowsCoalescing(u)
  BY DEF Updates, SyncUpdates, IsSync, AllowsCoalescing, Kinds, NoCoalesceKinds,
         BlockingKinds

(* A queue after push_front(), as the sync update is pushed.               *)
LEMMA AtTheFront ==
  ASSUME NEW S, NEW q \in Seq(S), NEW x, x \in S
  PROVE  /\ Len(q) \in Nat
         /\ Len(<<x>> \o q) = Len(q) + 1
         /\ (<<x>> \o q)[1] = x
         /\ \A i \in 2..Len(<<x>> \o q) : (<<x>> \o q)[i] = q[i - 1]
  BY ConcatProperties, LenProperties

(* A queue after push_back(), as every other update is pushed.             *)
LEMMA AtTheBack ==
  ASSUME NEW S, NEW q \in Seq(S), NEW x \in S
  PROVE  /\ Len(Append(q, x)) = Len(q) + 1
         /\ q = SubSeq(Append(q, x), 1, Len(q))
<1> DEFINE a == Append(q, x)
           d == SubSeq(a, 1, Len(q))
<1>1. /\ Len(q) \in Nat /\ a \in Seq(S) /\ Len(a) = Len(q) + 1
      /\ \A i \in 1..Len(q) : a[i] = q[i]
  BY AppendProperties, LenProperties
<1>2. \A i \in 1..Len(q) : a[i] \in S
  BY <1>1, ElementOfSeq
<1> HIDE DEF a
<1>3. d \in Seq(S) /\ Len(d) = Len(q) /\ \A i \in 1..Len(q) : d[i] = a[i]
  BY <1>1, <1>2, SubSeqProperties
<1> HIDE DEF d
<1>4. d = q
  BY <1>1, <1>3, SeqEqual
<1> QED
  BY <1>1, <1>4 DEF a, d

(* An update function returns a SwitchState.                               *)
LEMMA ApplyFnType ==
  ASSUME NEW u \in Updates \union SyncUpdates, NEW s \in States
  PROVE  ApplyFn(u, s) \in States
<1>1. CASE IsSync(u)
  BY <1>1, UpdateKinds DEF ApplyFn, SyncUpdates
<1>2. CASE ~IsSync(u) /\ u.value = Bad
  BY <1>2 DEF ApplyFn, Throws
<1>3. CASE ~IsSync(u) /\ u.value # Bad
  <2>1. u \in Updates /\ u.value \in Values /\ u.entry \in Entries
    BY <1>3, UpdateKinds DEF Updates
  <2>2. Put(s.tree, u) \in Trees
    BY <2>1 DEF Put, States, Trees
  <2> QED
    BY <1>3, <2>2 DEF ApplyFn, Throws, States
<1> QED
  BY <1>1, <1>2, <1>3

(* Following a delta, the trees the hardware may end up with and the ALPM  *)
(* defaults all stay within the type of a tree.                            *)
LEMMA TreeTypes ==
  ASSUME NEW v \in Trees, NEW old \in Trees, NEW new \in Trees
  PROVE  /\ Follow(v, old, new) \in Trees
         /\ \A t \in HwResults(old, new) : t \in Trees
         /\ AlpmTree(v) \in Trees
         /\ [e \in Entries |-> Absent] \in Trees
  BY ConstantsAssumption DEF Trees, Follow, HwResults, AlpmTree

(* The callbacks init() leaves behind are run in order.                    *)
LEMMA BootQueue ==
  ASSUME NEW q \in BootQueues, q # <<>>
  PROVE  /\ Tail(q) \in BootQueues
         /\ Head(q) = "alpm" => q = <<"alpm">> /\ Tail(q) = <<>>
<1>1. Head(<<"notify", "alpm">>) = "notify" /\ Tail(<<"notify", "alpm">>) = <<"alpm">>
  OBVIOUS
<1>2. Head(<<"notify">>) = "notify" /\ Tail(<<"notify">>) = <<>>
  OBVIOUS
<1>3. Head(<<"alpm">>) = "alpm" /\ Tail(<<"alpm">>) = <<>>
  OBVIOUS
<1> QED
  BY <1>1, <1>2, <1>3, Zenon DEF BootQueues

-----------------------------------------------------------------------------
(* The type invariant holds in every reachable state: an update function   *)
(* that throws leaves no partial state behind, and splicing, sync updates  *)
(* and rejections by the hardware never produce an ill-formed update or    *)
(* SwitchState.                                                            *)
THEOREM TypeCorrect == Spec => []TypeOK
<1> USE ConstantsAssumption
<1>1. Init => TypeOK
  <2> SUFFICES ASSUME Init PROVE TypeOK
    OBVIOUS
  <2>1. PICK t \in BootTrees :
          /\ applied = [tree |-> t, gen |-> 0]
          /\ hw = t
          /\ intent = AlpmTree(t)
          /\ boot = IF AlpmTree(t) = t THEN <<"notify">> ELSE <<"notify", "alpm">>
    BY DEF Init
  <2>2. t \in Trees
    BY <2>1
  <2>3. AlpmTree(t) \in Trees /\ [e \in Entries |-> Absent] \in Trees
    BY <2>2, TreeTypes
  <2>4. applied \in States
    BY <2>1, <2>2 DEF States
  <2>5. <<>> \in Seq(Updates \union SyncUpdates)
    BY EmptySeq
  <2>6. caller \in [Callers -> CallerStates]
    BY DEF Init, Kinds, CallerStates
  <2>7. boot \in BootQueues
    BY <2>1, Zenon DEF BootQueues
  <2>8. /\ {work, result, applied, desired} \subseteq States
        /\ {hw, view, intent} \subseteq Trees
        /\ outcome \in [Ids -> {"none", "success", "error"}]
        /\ saved \subseteq Trees
    BY <2>1, <2>2, <2>3, <2>4 DEF Init
  <2>9. /\ pending \in Seq(Updates \union SyncUpdates)
        /\ batch \in Seq(Updates \union SyncUpdates)
    BY <2>5 DEF Init
  <2>10. /\ runState \in UNINITIALIZED..EXITING
         /\ handles \in Nat
         /\ at \in Nat \ {0}
         /\ submitted \in 0..MaxUpdates
    <3>1. runState = UNINITIALIZED /\ handles = 0 /\ at = 1 /\ submitted = 0
      BY Zenon, SMT DEF Init
    <3> QED
      BY <3>1, ConstantsAssumption DEF UNINITIALIZED, EXITING
  <2> QED
    BY <2>6, <2>7, <2>8, <2>9, <2>10, Zenon DEF Init, TypeOK
<1>2. TypeOK /\ [Next]_vars => TypeOK'
  <2> SUFFICES ASSUME TypeOK, [Next]_vars PROVE TypeOK'
    OBVIOUS
  <2> USE DEF TypeOK, UNINITIALIZED, INITIALIZED, CONFIGURED, FIB_SYNCED, EXITING
  <2>1. CASE SwitchInitialized
    BY <2>1 DEF SwitchInitialized, SetSwitchRunState, queueVars, threadVars,
                stateVars, callerVars
  <2>2. ASSUME NEW c \in Callers, NEW r \in Requests, QueueUpdate(c, r)
        PROVE  TypeOK'
    <3>1. r \in [kind : Kinds, entry : Entries, value : Values \union {Bad}]
      OBVIOUS
    <3>2. submitted + 1 \in Ids
      BY <2>2 DEF QueueUpdate, Ids
    <3>3. [id |-> submitted + 1, kind |-> r.kind, entry |-> r.entry,
           value |-> r.value] \in Updates \union SyncUpdates
      BY <3>1, <3>2, Zenon DEF Updates
    <3>4. pending' \in Seq(Updates \union SyncUpdates)
      BY <2>2, <3>3, AppendProperties, Zenon DEF QueueUpdate
    <3>5. caller' \in [Callers -> CallerStates]
      BY <2>2, <3>1, <3>2 DEF QueueUpdate, Ids, CallerStates
    <3> QED
      BY <2>2, <3>2, <3>4, <3>5 DEF QueueUpdate, Ids, threadVars, stateVars
  <2>3. ASSUME NEW c \in Callers, SignalUpdateThread(c) PROVE TypeOK'
    <3>1. caller' \in [Callers -> CallerStates]
      BY <2>3, Zenon, SMT DEF SignalUpdateThread, CallerStates
    <3> QED
      BY <2>3, <3>1 DEF SignalUpdateThread, RunInEventBaseThread, threadVars, stateVars
  <2>4. ASSUME NEW c \in Callers, WaitReturns(c) PROVE TypeOK'
    <3>0. \A p \in {"idle", "configured", "synced"} :
            [caller EXCEPT ![c].pc = p] \in [Callers -> CallerStates]
      BY Zenon DEF CallerStates
    <3>1. caller' \in [Callers -> CallerStates]
      BY <2>4, <3>0, Zenon DEF WaitReturns
    <3> QED
      BY <2>4, <3>1 DEF WaitReturns, SetSwitchRunState, queueVars, threadVars, stateVars
  <2>5. ASSUME NEW c \in Callers, InitialConfigApplied(c) PROVE TypeOK'
    <3>1. caller' \in [Callers -> CallerStates]
      BY <2>5, Zenon DEF InitialConfigApplied, CallerStates
    <3> QED
      BY <2>5, <3>1 DEF InitialConfigApplied, SetSwitchRunState, queueVars, threadVars, stateVars
  <2>6. ASSUME NEW c \in Callers, CheckFibSynced(c) PROVE TypeOK'
    <3>1. caller' \in [Callers -> CallerStates]
      BY <2>6, Zenon, SMT DEF CheckFibSynced, CallerStates
    <3> QED
      BY <2>6, <3>1, Zenon DEF CheckFibSynced, SetSwitchRunState, queueVars, threadVars, stateVars
  <2>7. ASSUME NEW c \in Callers, FibSynced(c) PROVE TypeOK'
    <3>1. caller' \in [Callers -> CallerStates]
      BY <2>7, Zenon, SMT DEF FibSynced, CallerStates
    <3> QED
      BY <2>7, <3>1 DEF FibSynced, SetSwitchRunState, queueVars, threadVars, stateVars
  <2>8. CASE StopSwitch
    BY <2>8 DEF StopSwitch, SetSwitchRunState, queueVars, threadVars, stateVars,
                callerVars
  <2>9. CASE StopThreads
    BY <2>9 DEF StopThreads, threadVars, stateVars, callerVars
  <2>10. CASE SerializeState
    BY <2>10, Zenon DEF SerializeState, States, queueVars, threadVars, stateVars, callerVars
  <2>11. CASE NotifyInitialState
    <3>1. desired.tree \in Trees
      BY DEF States
    <3>2. view' \in Trees
      BY <2>11, <3>1, TreeTypes, Zenon DEF NotifyInitialState
    <3> QED
      BY <2>11, <3>2, BootQueue DEF NotifyInitialState, queueVars, threadVars,
         stateVars, callerVars
  <2>12. CASE ApplyAlpmState
    <3>0. AlpmTree(desired.tree) \in Trees
      BY TreeTypes, Zenon DEF States
    <3>1. work' \in States
      BY <2>12, <3>0 DEF ApplyAlpmState, States
    <3> QED
      BY <2>12, <3>1, BootQueue DEF ApplyAlpmState, queueVars, stateVars, callerVars
  <2>13. CASE SplicePendingUpdates
    <3>1. SpliceLength(pending) \in 0..Len(pending) /\ Len(pending) \in Nat
      BY SpliceLengthBounds, LenProperties
    <3>2. \A i \in 1..Len(pending) : pending[i] \in Updates \union SyncUpdates
      BY ElementOfSeq, Zenon
    <3>3. batch' \in Seq(Updates \union SyncUpdates)
      BY <2>13, <3>1, <3>2, SubSeqProperties DEF SplicePendingUpdates
    <3>4. pending' \in Seq(Updates \union SyncUpdates)
      BY <2>13, <3>1, <3>2, SubSeqProperties DEF SplicePendingUpdates
    <3> QED
      BY <2>13, <3>3, <3>4 DEF SplicePendingUpdates, stateVars, callerVars
  <2>14. CASE PrepareUpdate
    <3> DEFINE u == batch[at]
    <3>1. u \in Updates \union SyncUpdates
      BY <2>14, ElementOfSeq, LenProperties DEF PrepareUpdate
    <3>2. work' \in States
      BY <2>14, <3>1, ApplyFnType DEF PrepareUpdate
    <3>3. outcome' \in [Ids -> {"none", "success", "error"}]
      BY <2>14, Zenon DEF PrepareUpdate
    <3>4. intent' \in Trees
      <4>1. CASE IsSync(u) \/ Throws(u)
        BY <2>14, <4>1, Zenon DEF PrepareUpdate
      <4>2. CASE ~IsSync(u) /\ ~Throws(u)
        BY <2>14, <3>1, <4>2, UpdateKinds, Zenon DEF PrepareUpdate, Put, Trees, Updates, Throws
      <4> QED  BY <4>1, <4>2, Zenon
    <3> QED
      BY <2>14, <3>2, <3>3, <3>4 DEF PrepareUpdate, queueVars, stateVars, callerVars
  <2>15. CASE CompareStates
    BY <2>15, Zenon DEF CompareStates, queueVars, stateVars, callerVars
  <2>16. CASE AbortUpdate
    BY <2>16, Zenon DEF AbortUpdate, queueVars, stateVars, callerVars
  <2>17. CASE HwStateChanged
    <3>1. PICK t \in HwResults(applied.tree, work.tree) :
            hw' = t /\ result' = AppliedState(t, work)
      BY <2>17 DEF HwStateChanged
    <3>2. t \in Trees
      BY <3>1, TreeTypes, Zenon DEF States
    <3>3. result' \in States
      BY <3>1, <3>2 DEF AppliedState, States
    <3> QED
      BY <2>17, <3>1, <3>2, <3>3, Zenon DEF HwStateChanged, queueVars, callerVars
  <2>18. CASE PublishState
    <3>1. view' \in Trees
      BY <2>18, TreeTypes, Zenon DEF PublishState, States
    <3> QED
      BY <2>18, <3>1 DEF PublishState, queueVars, callerVars
  <2>19. CASE FinishUpdates
    <3>1. SyncUpdate(work, result) \in Updates \union SyncUpdates
      BY DEF SyncUpdate, SyncUpdates, States
    <3>2. QueueForSync(pending, SyncUpdate(work, result))
            \in Seq(Updates \union SyncUpdates)
      BY <3>1, ConcatProperties DEF QueueForSync
    <3>3. outcome' \in [Ids -> {"none", "success", "error"}]
      BY <2>19, Zenon DEF FinishUpdates, Succeed
    <3> QED
      BY <2>19, <3>2, <3>3, EmptySeq, Zenon DEF FinishUpdates, stateVars, callerVars
  <2>20. CASE TerminateLoop
    BY <2>20, Zenon DEF TerminateLoop, threadVars, stateVars, callerVars
  <2>21. CASE HwStateChangeThrows
    BY <2>21, Zenon DEF HwStateChangeThrows, queueVars, threadVars, stateVars, callerVars
  <2>22. CASE UNCHANGED vars
    BY <2>22 DEF vars, queueVars, threadVars, stateVars, callerVars
  <2> QED
    BY <2>1, <2>2, <2>3, <2>4, <2>5, <2>6, <2>7, <2>8, <2>9, <2>10, <2>11, <2>12,
       <2>13, <2>14, <2>15, <2>16, <2>17, <2>18, <2>19, <2>20, <2>21, <2>22
       DEF Next, CallerStep, UpdateThread
<1> QED
  BY <1>1, <1>2, PTL DEF Spec

-----------------------------------------------------------------------------
(* The queue and the callbacks that serve it.  The sync update is pushed   *)
(* to the front with no signal, so the count of callbacks only works out   *)
(* because there is at most one of it: none may be waiting while the       *)
(* update thread is inside handlePendingUpdates() or has not begun.        *)

NoSyncFrom(k) == \A i \in k..Len(pending) : ~IsSync(pending[i])

QueueInv ==
  /\ NoSyncFrom(2)
  /\ pc # "idle" => NoSyncFrom(1)
  /\ boot # <<>> => NoSyncFrom(1) /\ pc = "idle" /\ batch = <<>>
  /\ NoStrandedUpdate

LEMMA RequestedCount ==
  ASSUME NEW S, pending \in Seq(S)
  PROVE  /\ Len(pending) \in Nat
         /\ HeadIsSync <=> Len(pending) >= 1 /\ IsSync(pending[1])
         /\ NoSyncFrom(1) => Requested = Len(pending)
         /\ HeadIsSync => Requested = Len(pending) - 1
<1>1. Len(pending) \in Nat /\ (pending # <<>> <=> Len(pending) >= 1)
  BY EmptySeq, LenProperties
<1>2. pending # <<>> => Head(pending) = pending[1]
  OBVIOUS
<1> QED
  BY <1>1, <1>2 DEF HeadIsSync, NoSyncFrom, Requested

LEMMA PushedCount ==
  /\ IsFiniteSet(Pushed)
  /\ Cardinality(Pushed) \in Nat
<1>1. IsFiniteSet(Pushed)
  BY ConstantsAssumption, FS_Subset DEF Pushed
<1> QED
  BY <1>1, FS_CardinalityType

(* No action but those of the queue changes what QueueInv is about.        *)
LEMMA QueueFrame ==
  ASSUME QueueInv, UNCHANGED <<pending, handles, boot, batch>>,
         Pushed' = Pushed,
         loop' = loop \/ loop' # "running",
         boot # <<>> => pc' = "idle",
         pc' # "idle" => pc # "idle"
  PROVE  QueueInv'
  BY DEF QueueInv, NoSyncFrom, NoStrandedUpdate, Requested, HeadIsSync

(* QueueInv is an inductive invariant.                                     *)
THEOREM QueueInvariant == Spec => []QueueInv
<1> USE ConstantsAssumption
<1>1. Init => QueueInv
  <2> SUFFICES ASSUME Init PROVE QueueInv
    OBVIOUS
  <2>1. pending = <<>> /\ pc = "idle" /\ batch = <<>> /\ handles = 0
    BY DEF Init
  <2>2. Len(pending) = 0 /\ NoSyncFrom(1) /\ NoSyncFrom(2) /\ Requested = 0
    BY <2>1 DEF NoSyncFrom, Requested, HeadIsSync
  <2> QED
    BY <2>1, <2>2, PushedCount DEF QueueInv, NoStrandedUpdate
<1>2. TypeOK /\ QueueInv /\ [Next]_vars => QueueInv'
  <2> SUFFICES ASSUME TypeOK, QueueInv, [Next]_vars PROVE QueueInv'
    OBVIOUS
  <2> USE PushedCount
  <2>0. /\ pending \in Seq(Updates \union SyncUpdates)
        /\ handles \in Nat
        /\ caller \in [Callers -> CallerStates]
    BY Zenon DEF TypeOK
  <2>1. CASE SwitchInitialized
    BY <2>1, QueueFrame, Zenon DEF SwitchInitialized, queueVars, threadVars, callerVars,
                            Pushed, QueueInv
  <2>2. ASSUME NEW c \in Callers, NEW r \in Requests, QueueUpdate(c, r)
        PROVE  QueueInv'
    <3> DEFINE u == [id |-> submitted + 1, kind |-> r.kind, entry |-> r.entry,
                     value |-> r.value]
    <3>1. ~IsSync(u)
      BY Zenon DEF IsSync, Kinds, NoCoalesceKinds, BlockingKinds
    <3>2. /\ Len(pending) \in Nat
          /\ Len(pending') = Len(pending) + 1
          /\ \A i \in 1..Len(pending) : pending'[i] = pending[i]
          /\ pending'[Len(pending) + 1] = u
      BY <2>0, <2>2, LenProperties DEF QueueUpdate
    <3> HIDE DEF u
    <3>3. (NoSyncFrom(1) => NoSyncFrom(1)') /\ NoSyncFrom(2)'
      BY <3>1, <3>2 DEF NoSyncFrom, QueueInv
    <3>4. Pushed' = Pushed \union {c} /\ c \notin Pushed
      BY <2>0, <2>2 DEF QueueUpdate, Pushed, CallerStates
    <3>5. Cardinality(Pushed') = Cardinality(Pushed) + 1
      BY <3>4, FS_AddElement, Zenon
    <3>6. pending' # <<>> /\ Head(pending') = pending'[1]
      BY <2>0, <2>2 DEF QueueUpdate
    <3>7. HeadIsSync' = HeadIsSync
      BY <2>0, <3>1, <3>2, <3>6, RequestedCount, HeadIsSync <=> Len(pending) >= 1 /\ IsSync(pending[1])
         DEF HeadIsSync
    <3>8. Requested' = Requested + 1 /\ Requested \in Int
      BY <3>2, <3>7 DEF Requested
    <3> QED
      BY <2>0, <2>2, <3>3, <3>5, <3>8
         DEF QueueUpdate, QueueInv, NoStrandedUpdate, threadVars
  <2>3. ASSUME NEW c \in Callers, SignalUpdateThread(c) PROVE QueueInv'
    <3>1. Pushed' = Pushed \ {c} /\ c \in Pushed
      BY <2>0, <2>3 DEF SignalUpdateThread, Pushed, CallerStates
    <3>2. Cardinality(Pushed') = Cardinality(Pushed) - 1
      BY <3>1, FS_RemoveElement, Zenon
    <3>3. /\ Requested' = Requested
          /\ NoSyncFrom(1)' = NoSyncFrom(1)
          /\ NoSyncFrom(2)' = NoSyncFrom(2)
      BY <2>3 DEF SignalUpdateThread, Requested, HeadIsSync, NoSyncFrom
    <3>4. Requested \in Int
      BY <2>0, RequestedCount DEF Requested
    <3> QED
      BY <2>0, <2>3, <3>2, <3>3, <3>4
         DEF SignalUpdateThread, RunInEventBaseThread, QueueInv, NoStrandedUpdate,
             threadVars
  <2>4. ASSUME NEW c \in Callers, WaitReturns(c) PROVE QueueInv'
    <3>1. Pushed' = Pushed
      BY <2>0, <2>4 DEF WaitReturns, Pushed, CallerStates
    <3> QED
      BY <2>4, <3>1, QueueFrame DEF WaitReturns, queueVars, threadVars, QueueInv
  <2>5. ASSUME NEW c \in Callers, InitialConfigApplied(c) PROVE QueueInv'
    <3>1. Pushed' = Pushed
      BY <2>0, <2>5 DEF InitialConfigApplied, Pushed, CallerStates
    <3> QED
      BY <2>5, <3>1, QueueFrame DEF InitialConfigApplied, queueVars, threadVars, QueueInv
  <2>6. ASSUME NEW c \in Callers, CheckFibSynced(c) PROVE QueueInv'
    <3>1. Pushed' = Pushed
      BY <2>0, <2>6 DEF CheckFibSynced, Pushed, CallerStates
    <3> QED
      BY <2>6, <3>1, QueueFrame DEF CheckFibSynced, queueVars, threadVars, QueueInv
  <2>7. ASSUME NEW c \in Callers, FibSynced(c) PROVE QueueInv'
    <3>1. Pushed' = Pushed
      BY <2>0, <2>7, Zenon DEF FibSynced, Pushed, CallerStates
    <3> QED
      BY <2>7, <3>1, QueueFrame DEF FibSynced, queueVars, threadVars, QueueInv
  <2>8. CASE StopSwitch
    BY <2>8, QueueFrame, Zenon DEF StopSwitch, queueVars, threadVars, callerVars, Pushed, QueueInv
  <2>9. CASE StopThreads
    BY <2>9, QueueFrame, Zenon DEF StopThreads, threadVars, callerVars, Pushed, QueueInv
  <2>10. CASE SerializeState
    BY <2>10, QueueFrame DEF SerializeState, queueVars, threadVars, callerVars,
                             Pushed, QueueInv
  <2>11. CASE NotifyInitialState
    <3>1. /\ Requested' = Requested
          /\ NoSyncFrom(1)' = NoSyncFrom(1)
          /\ NoSyncFrom(2)' = NoSyncFrom(2)
          /\ Pushed' = Pushed
      BY <2>11 DEF NotifyInitialState, queueVars, callerVars, Requested, HeadIsSync,
                   NoSyncFrom, Pushed
    <3> QED
      BY <2>11, <3>1, Zenon DEF NotifyInitialState, QueueInv, NoStrandedUpdate, queueVars,
                         threadVars
  <2>12. CASE ApplyAlpmState
    <3>1. /\ Requested' = Requested
          /\ NoSyncFrom(1)' = NoSyncFrom(1)
          /\ NoSyncFrom(2)' = NoSyncFrom(2)
          /\ Pushed' = Pushed
      BY <2>12, Zenon DEF ApplyAlpmState, queueVars, callerVars, Requested, HeadIsSync,
                   NoSyncFrom, Pushed
    <3>2. boot' = <<>>
      BY <2>12, BootQueue, Zenon DEF ApplyAlpmState, TypeOK
    <3> QED
      BY <2>12, <3>1, <3>2, Zenon DEF ApplyAlpmState, QueueInv, NoStrandedUpdate, queueVars
  <2>13. CASE SplicePendingUpdates
    <3> DEFINE n == SpliceLength(pending)
    <3>1. /\ n \in 0..Len(pending) /\ Len(pending) \in Nat
          /\ pending # <<>> => n >= 1
          /\ n = Len(pending) \/ ~AllowsCoalescing(pending[n])
      BY <2>0, SpliceLengthBounds, LenProperties
    <3>2. \A i \in 1..Len(pending) : pending[i] \in Updates \union SyncUpdates
      BY <2>0, ElementOfSeq, Zenon
    <3> HIDE DEF n
    <3>3. /\ Len(pending') = Len(pending) - n
          /\ \A i \in 1..Len(pending') : pending'[i] = pending[n + i]
      <4>1. pending' = SubSeq(pending, n + 1, Len(pending))
        BY <2>13 DEF SplicePendingUpdates, n
      <4>2. \A i \in (n + 1)..Len(pending) : pending[i] \in Updates \union SyncUpdates
        BY <3>1, <3>2
      <4> QED
        BY <3>1, <4>1, <4>2, SubSeqProperties
    <3>4. pending = <<>> => Len(pending') = 0
      BY <3>1, <3>3
    <3>5. NoSyncFrom(1)'
      BY <3>1, <3>3, <3>4, EmptySeq DEF NoSyncFrom, QueueInv
    <3>6. Requested' = Len(pending')
      BY <3>3, <3>5 DEF Requested, HeadIsSync, NoSyncFrom
    <3>7. Len(pending') > 0 => Len(pending') < Requested
      <4> SUFFICES ASSUME Len(pending') > 0 PROVE Len(pending') < Requested
        BY Zenon
      <4>1. n >= 1 /\ n < Len(pending) /\ ~AllowsCoalescing(pending[n])
        BY <3>1, <3>3, <3>4
      <4>2. CASE NoSyncFrom(1)
        BY <2>0, <3>1, <3>3, <4>1, <4>2, RequestedCount
      <4>3. CASE ~NoSyncFrom(1)
        <5>1. HeadIsSync /\ IsSync(pending[1])
          BY <2>0, <3>1, <4>3, RequestedCount DEF NoSyncFrom, QueueInv
        <5>2. n # 1
          BY <3>1, <3>2, <4>1, <5>1, UpdateKinds
        <5>3. Requested = Len(pending) - 1
          BY <2>0, <5>1, RequestedCount, Zenon
        <5> QED
          BY <3>1, <3>3, <4>1, <5>2, <5>3
      <4> QED
        BY <4>2, <4>3
    <3>8. Pushed' = Pushed
      BY <2>13 DEF SplicePendingUpdates, callerVars, Pushed
    <3>9. NoSyncFrom(2)'
      BY <3>1, <3>3, <3>5 DEF NoSyncFrom
    <3>10. NoStrandedUpdate'
      <4>1. Requested \in Int
        BY <3>1 DEF Requested
      <4>2. Len(pending') \in Nat
        BY <3>1, <3>3
      <4>3. handles > 0 /\ handles' = handles - 1 /\ loop' = loop
        BY <2>13 DEF SplicePendingUpdates
      <4>4. Cardinality(Pushed') = Cardinality(Pushed)
        BY <3>8
      <4>5. loop = "running" => Requested <= handles + Cardinality(Pushed)
        BY Zenon DEF QueueInv, NoStrandedUpdate
      <4> QED
        BY <2>0, <3>6, <3>7, <4>1, <4>2, <4>3, <4>4, <4>5 DEF NoStrandedUpdate
    <3> QED
      BY <2>13, <3>5, <3>9, <3>10, Zenon DEF SplicePendingUpdates, QueueInv
  <2>14. CASE PrepareUpdate
    BY <2>14, QueueFrame, Zenon DEF PrepareUpdate, queueVars, callerVars, Pushed, QueueInv
  <2>15. CASE CompareStates
    BY <2>15, QueueFrame, Zenon DEF CompareStates, queueVars, callerVars, Pushed, QueueInv
  <2>16. CASE AbortUpdate
    BY <2>16, QueueFrame, Zenon DEF AbortUpdate, queueVars, callerVars, Pushed, QueueInv
  <2>17. CASE HwStateChanged
    BY <2>17, QueueFrame, Zenon DEF HwStateChanged, queueVars, callerVars, Pushed, QueueInv
  <2>18. CASE PublishState
    BY <2>18, QueueFrame DEF PublishState, queueVars, callerVars, Pushed, QueueInv
  <2>19. CASE FinishUpdates
    <3> DEFINE u == SyncUpdate(work, result)
    <3>1. Pushed' = Pushed /\ NoSyncFrom(1) /\ boot = <<>>
      BY <2>19 DEF FinishUpdates, callerVars, Pushed, QueueInv
    <3>2. CASE pending' = pending
      BY <2>19, <3>1, <3>2, Zenon DEF FinishUpdates, QueueInv, NoStrandedUpdate, Requested,
                               HeadIsSync, NoSyncFrom
    <3>3. CASE pending' # pending
      <4>1. pending' = <<u>> \o pending
        BY <2>19, <3>3, Zenon DEF FinishUpdates, QueueForSync
      <4>2. u \in Updates \union SyncUpdates /\ IsSync(u)
        <5>1. work \in States /\ result \in States
          BY Zenon DEF TypeOK
        <5> QED
          BY <5>1 DEF SyncUpdate, SyncUpdates, States, IsSync
      <4> HIDE DEF u
      <4>3. /\ Len(pending) \in Nat
            /\ Len(pending') = Len(pending) + 1
            /\ pending'[1] = u
            /\ \A i \in 2..Len(pending') : pending'[i] = pending[i - 1]
        BY <2>0, <4>1, <4>2, AtTheFront
      <4>4. NoSyncFrom(2)'
        BY <3>1, <4>3 DEF NoSyncFrom
      <4>5. pending' # <<>> /\ Head(pending') = u
        BY <2>0, <4>1, <4>2, <4>3
      <4>6. Requested' = Len(pending)
        BY <4>2, <4>3, <4>5 DEF Requested, HeadIsSync
      <4>7. Requested = Len(pending)
        BY <2>0, <3>1, RequestedCount, Zenon
      <4> QED
        BY <2>19, <3>1, <4>4, <4>6, <4>7, Zenon DEF FinishUpdates, QueueInv, NoStrandedUpdate
    <3> QED
      BY <3>2, <3>3, Zenon
  <2>20. CASE TerminateLoop
    BY <2>20, QueueFrame, Zenon DEF TerminateLoop, threadVars, callerVars, Pushed, QueueInv
  <2>21. CASE HwStateChangeThrows
    BY <2>21, QueueFrame, Zenon DEF HwStateChangeThrows, queueVars, threadVars, callerVars,
                             Pushed, QueueInv
  <2>22. CASE UNCHANGED vars
    BY <2>22, QueueFrame DEF vars, queueVars, threadVars, callerVars, Pushed, QueueInv
  <2> QED
    BY <2>1, <2>2, <2>3, <2>4, <2>5, <2>6, <2>7, <2>8, <2>9, <2>10, <2>11, <2>12,
       <2>13, <2>14, <2>15, <2>16, <2>17, <2>18, <2>19, <2>20, <2>21, <2>22
       DEF Next, CallerStep, UpdateThread
<1> QED
  BY <1>1, <1>2, TypeCorrect, PTL DEF Spec

(* handlePendingUpdates() is called often enough: however the update       *)
(* thread interleaves with the threads between their push_back and their   *)
(* signal, no update a thread asked for is left in the queue without a     *)
(* callback that will take it.                                             *)
THEOREM NoUpdateStranded == Spec => []NoStrandedUpdate
<1>1. QueueInv => NoStrandedUpdate
  BY DEF QueueInv
<1> QED
  BY <1>1, QueueInvariant, PTL

-----------------------------------------------------------------------------
(* The run state.                                                          *)

(* The Initializer has an update of its own under way only while the       *)
(* switch is INITIALIZED, it alone applies the initial config, and a FIB   *)
(* sync that is under way began after CONFIGURED.                          *)
RunStateInv ==
  /\ caller[Initializer].pc # "idle" => runState = INITIALIZED
  /\ \A c \in Callers : caller[c].pc = "configured" => c = Initializer
  /\ \A c \in Callers :
       \/ caller[c].pc \in {"synced", "marking"}
       \/ caller[c].pc \in {"pushed", "waiting"} /\ caller[c].kind = "syncFib"
       => runState >= CONFIGURED

(* The step of one thread preserves what the run state owes its callers.   *)
LEMMA CallerKeepsRunStateInv ==
  ASSUME TypeOK, RunStateInv, NEW c \in Callers, CallerStep(c)
  PROVE  RunStateInv'
<1> USE ConstantsAssumption
<1> USE DEF TypeOK, RunStateInv, CallerStates, INITIALIZED, CONFIGURED, FIB_SYNCED,
            EXITING, UNINITIALIZED
<1>1. CASE SignalUpdateThread(c)
  BY <1>1 DEF SignalUpdateThread
<1>2. CASE WaitReturns(c)
  BY <1>2 DEF WaitReturns
<1>3. CASE InitialConfigApplied(c)
  BY <1>3 DEF InitialConfigApplied, SetSwitchRunState
<1>4. CASE CheckFibSynced(c)
  BY <1>4 DEF CheckFibSynced
<1>5. CASE FibSynced(c)
  BY <1>5 DEF FibSynced, SetSwitchRunState
<1> QED
  BY <1>1, <1>2, <1>3, <1>4, <1>5, Zenon DEF CallerStep

(* An exit waits for the Initializer, and is taken back by nobody but a    *)
(* FIB sync that checked the run state before the exit began.              *)
THEOREM ExitTakenBackOnlyByFibSync == Spec => OnlyFibSyncTakesExitBack
<1> USE ConstantsAssumption
<1>1. Init => RunStateInv
  BY DEF Init, RunStateInv
<1>2. TypeOK /\ RunStateInv /\ [Next]_vars => RunStateInv'
  <2> SUFFICES ASSUME TypeOK, RunStateInv, [Next]_vars PROVE RunStateInv'
    OBVIOUS
  <2>1. CASE SwitchInitialized
    BY <2>1 DEF SwitchInitialized, SetSwitchRunState, RunStateInv, callerVars, TypeOK,
                UNINITIALIZED, INITIALIZED, CONFIGURED
  <2>2. ASSUME NEW c \in Callers, NEW r \in Requests, QueueUpdate(c, r) PROVE RunStateInv'
    BY <2>2 DEF QueueUpdate, RunStateInv, TypeOK, CONFIGURED, FIB_SYNCED, INITIALIZED,
                CallerStates
  <2>3. ASSUME NEW c \in Callers, CallerStep(c) PROVE RunStateInv'
    BY <2>3, CallerKeepsRunStateInv, Zenon
  <2>4. CASE StopSwitch
    BY <2>4 DEF StopSwitch, SetSwitchRunState, RunStateInv, callerVars, TypeOK,
                INITIALIZED, CONFIGURED, FIB_SYNCED, EXITING
  <2>5. CASE UNCHANGED <<runState, callerVars>>
    BY <2>5 DEF RunStateInv, callerVars
  <2>6. StopThreads \/ SerializeState \/ UpdateThread => UNCHANGED <<runState, callerVars>>
    BY Zenon DEF StopThreads, SerializeState, UpdateThread, NotifyInitialState, ApplyAlpmState,
           SplicePendingUpdates, PrepareUpdate, CompareStates, AbortUpdate, HwStateChanged,
           HwStateChangeThrows, PublishState, FinishUpdates, TerminateLoop
  <2>7. UNCHANGED vars => UNCHANGED <<runState, callerVars>>
    BY DEF vars
  <2> QED
    BY <2>1, <2>2, <2>3, <2>4, <2>5, <2>6, <2>7, Zenon DEF Next
<1>3. TypeOK /\ RunStateInv /\ [Next]_vars
        => [runState' < runState => aborted' /\ \E c \in Callers : FibSynced(c)]_vars
  <2> SUFFICES ASSUME TypeOK, RunStateInv, [Next]_vars, runState' < runState
               PROVE  aborted' /\ \E c \in Callers : FibSynced(c)
    BY Zenon
  <2>1. runState' # runState
    BY DEF TypeOK, UNINITIALIZED, EXITING
  <2>2. ~SwitchInitialized /\ ~StopSwitch
    BY DEF SwitchInitialized, StopSwitch, SetSwitchRunState, UNINITIALIZED, INITIALIZED,
           CONFIGURED, FIB_SYNCED, EXITING
  <2>3. \A c \in Callers : ~InitialConfigApplied(c)
    BY DEF InitialConfigApplied, SetSwitchRunState, RunStateInv, INITIALIZED, CONFIGURED
  <2>4. ~UNCHANGED vars /\ ~StopThreads /\ ~SerializeState /\ ~UpdateThread
    BY <2>1, Zenon DEF vars, StopThreads, SerializeState, UpdateThread, NotifyInitialState,
           ApplyAlpmState, SplicePendingUpdates, PrepareUpdate, CompareStates, AbortUpdate,
           HwStateChanged, HwStateChangeThrows, PublishState, FinishUpdates, TerminateLoop
  <2>5. \A c \in Callers, r \in Requests : ~QueueUpdate(c, r)
    BY <2>1, Zenon DEF QueueUpdate
  <2>6. PICK c \in Callers : CallerStep(c)
    BY <2>2, <2>4, <2>5 DEF Next
  <2>7. FibSynced(c)
    BY <2>1, <2>3, <2>6 DEF CallerStep, SignalUpdateThread, WaitReturns, CheckFibSynced
  <2>8. aborted'
    BY <2>7, Zenon DEF FibSynced, SetSwitchRunState
  <2> QED
    BY <2>7, <2>8
<1> QED
  BY <1>1, <1>2, <1>3, TypeCorrect, PTL DEF Spec, OnlyFibSyncTakesExitBack

-----------------------------------------------------------------------------
(* Applied state, hardware and generations.                                *)

SyncIsNewer(q) == \A i \in 1..Len(q) : IsSync(q[i]) => q[i].state.gen > applied.gen

AppliedInv ==
  /\ pc # "publish" => applied.tree = hw
  /\ pc = "publish" => result.tree = hw
  /\ pc = "finish" => result = applied
  /\ saved \subseteq {hw}
  /\ saved # {} => loop = "done"
  /\ loop = "done" => handles = 0 /\ boot = <<>> /\ pc = "idle"
  /\ boot # <<>> => desired = applied

GenerationInv ==
  /\ SyncIsNewer(pending)
  /\ pc = "prepare" => /\ SyncIsNewer(batch)
                       /\ work = applied \/ work.gen > applied.gen
  /\ pc \in {"apply", "publish"} => work.gen > applied.gen
  /\ pc = "publish" => result.gen > applied.gen

(* AppliedInv is inductive, given the types and the queue.                 *)
LEMMA AppliedStep ==
  ASSUME TypeOK, QueueInv, AppliedInv, [Next]_vars PROVE AppliedInv'
<1> USE DEF AppliedInv
<1>1. CASE SwitchInitialized \/ StopSwitch
  BY <1>1, Zenon DEF SwitchInitialized, StopSwitch, queueVars, threadVars, stateVars
<1>2. ASSUME NEW c \in Callers, NEW r \in Requests, QueueUpdate(c, r)
      PROVE  AppliedInv'
  BY <1>2 DEF QueueUpdate, threadVars, stateVars
<1>3. ASSUME NEW c \in Callers, SignalUpdateThread(c) PROVE AppliedInv'
  BY <1>3 DEF SignalUpdateThread, RunInEventBaseThread, threadVars, stateVars
<1>4. ASSUME NEW c \in Callers,
             WaitReturns(c) \/ InitialConfigApplied(c) \/ CheckFibSynced(c) \/ FibSynced(c)
      PROVE  AppliedInv'
  BY <1>4, Zenon DEF WaitReturns, InitialConfigApplied, CheckFibSynced, FibSynced, queueVars,
              threadVars, stateVars
<1>5. CASE StopThreads
  BY <1>5, Zenon DEF StopThreads, threadVars, stateVars
<1>6. CASE SerializeState
  BY <1>6, Zenon DEF SerializeState, queueVars, threadVars, stateVars
<1>7. CASE NotifyInitialState
  BY <1>7, Zenon DEF NotifyInitialState, queueVars, threadVars, stateVars
<1>8. CASE ApplyAlpmState
  BY <1>8, BootQueue, Zenon DEF ApplyAlpmState, TypeOK, queueVars, stateVars
<1>9. CASE SplicePendingUpdates
  BY <1>9 DEF SplicePendingUpdates, TypeOK, stateVars
<1>10. CASE PrepareUpdate
  BY <1>10, Zenon DEF PrepareUpdate, queueVars, stateVars
<1>11. CASE CompareStates
  BY <1>11 DEF CompareStates, queueVars, stateVars
<1>12. CASE AbortUpdate
  BY <1>12, Zenon DEF AbortUpdate, queueVars, stateVars
<1>13. CASE HwStateChanged
  <2>1. PICK t \in HwResults(applied.tree, work.tree) :
          hw' = t /\ result' = AppliedState(t, work)
    BY <1>13 DEF HwStateChanged
  <2>2. result'.tree = hw'
    BY <2>1, Zenon DEF AppliedState
  <2> QED
    BY <1>13, <2>2, Zenon DEF HwStateChanged, queueVars
<1>14. CASE PublishState
  BY <1>14, Zenon DEF PublishState, QueueInv, queueVars
<1>15. CASE FinishUpdates
  BY <1>15 DEF FinishUpdates, stateVars
<1>16. CASE TerminateLoop
  BY <1>16, Zenon DEF TerminateLoop, threadVars, stateVars
<1>17. CASE UNCHANGED vars \/ HwStateChangeThrows
  BY <1>17 DEF vars, HwStateChangeThrows, queueVars, threadVars, stateVars
<1> QED
  BY <1>1, <1>2, <1>3, <1>4, <1>5, <1>6, <1>7, <1>8, <1>9, <1>10, <1>11, <1>12,
     <1>13, <1>14, <1>15, <1>16, <1>17, Zenon DEF Next, CallerStep, UpdateThread
(* AppliedInv is an invariant.                                             *)
THEOREM AppliedInvariant == Spec => []AppliedInv
<1>1. Init => AppliedInv
  BY DEF Init, AppliedInv
<1>2. TypeOK /\ QueueInv /\ AppliedInv /\ [Next]_vars => AppliedInv'
  BY AppliedStep
<1> QED
  BY <1>1, <1>2, TypeCorrect, QueueInvariant, PTL DEF Spec

(* The applied state that is published, and the one saved for a warm boot, *)
(* is what the hardware holds: true whatever the hardware rejects and      *)
(* whenever the switch exits.                                              *)
THEOREM AppliedIsHardware == Spec => []AppliedStateIsHardwareState
<1>1. AppliedInv => AppliedStateIsHardwareState
  BY Zenon DEF AppliedInv, AppliedStateIsHardwareState
<1> QED
  BY <1>1, AppliedInvariant, PTL

(* Where the thread and the queue stand still, so does GenerationInv.      *)
LEMMA GenerationFrame ==
  ASSUME GenerationInv, UNCHANGED <<pending, pc, batch, work, result, applied>>
  PROVE  GenerationInv'
  BY Zenon DEF GenerationInv, SyncIsNewer

(* A batch, and what is left behind, are parts of the queue.               *)
LEMMA SplicedParts ==
  ASSUME TypeOK, SplicePendingUpdates
  PROVE  /\ Len(pending) \in Nat /\ Len(batch') \in 0..Len(pending)
         /\ pending # <<>> => batch' # <<>> /\ Len(batch') >= 1
         /\ pending = <<>> => batch' = <<>>
         /\ Len(pending') = Len(pending) - Len(batch')
         /\ \A i \in 1..Len(batch') : batch'[i] = pending[i]
         /\ \A i \in 1..Len(pending') : pending'[i] = pending[Len(batch') + i]
<1> DEFINE n == SpliceLength(pending)
<1>1. pending \in Seq(Updates \union SyncUpdates) /\ Len(pending) \in Nat
  BY LenProperties, Zenon DEF TypeOK
<1>2. n \in 0..Len(pending) /\ (pending # <<>> => n >= 1)
  BY <1>1, SpliceLengthBounds
<1>3. batch' = SubSeq(pending, 1, n) /\ pending' = SubSeq(pending, n + 1, Len(pending))
  BY Zenon DEF SplicePendingUpdates
<1> HIDE DEF n
<1>4. /\ Len(batch') = n
      /\ \A i \in 1..n : batch'[i] = pending[i]
      /\ batch' \in Seq(Updates \union SyncUpdates)
  <2>1. \A i \in 1..n : pending[i] \in Updates \union SyncUpdates
    BY <1>1, <1>2, ElementOfSeq
  <2> QED
    BY <1>1, <1>2, <1>3, <2>1, SubSeqProperties
<1>5. /\ Len(pending') = Len(pending) - n
      /\ \A i \in 1..(Len(pending) - n) : pending'[i] = pending[n + i]
  <2>1. \A i \in (n + 1)..Len(pending) : pending[i] \in Updates \union SyncUpdates
    BY <1>1, <1>2, ElementOfSeq
  <2> QED
    BY <1>1, <1>2, <1>3, <2>1, SubSeqProperties
<1>6. pending = <<>> => batch' = <<>>
  BY <1>1, <1>2, <1>4, EmptySeq
<1>7. pending # <<>> => batch' # <<>> /\ Len(batch') >= 1
  BY <1>2, <1>4, EmptySeq
<1> QED
  BY <1>1, <1>2, <1>4, <1>5, <1>6, <1>7, Zenon

(* GenerationInv is inductive, given the types, the queue and AppliedInv.  *)
LEMMA GenerationStep ==
  ASSUME TypeOK, QueueInv, AppliedInv, GenerationInv, [Next]_vars
  PROVE  GenerationInv'
<1>0. /\ {work, result, applied, desired} \subseteq States
      /\ pending \in Seq(Updates \union SyncUpdates)
      /\ batch \in Seq(Updates \union SyncUpdates)
  BY Zenon DEF TypeOK
<1>1. CASE SwitchInitialized \/ StopSwitch \/ StopThreads \/ SerializeState
           \/ NotifyInitialState \/ HwStateChangeThrows \/ TerminateLoop
  BY <1>1, GenerationFrame, Zenon DEF SwitchInitialized, StopSwitch, StopThreads,
     SerializeState, NotifyInitialState, HwStateChangeThrows, TerminateLoop, queueVars, threadVars, stateVars
<1>2. ASSUME NEW c \in Callers, NEW r \in Requests, QueueUpdate(c, r)
      PROVE  GenerationInv'
  <2> DEFINE u == [id |-> submitted + 1, kind |-> r.kind, entry |-> r.entry,
                   value |-> r.value]
  <2>1. ~IsSync(u)
    BY ConstantsAssumption, Zenon DEF IsSync, Kinds, NoCoalesceKinds, BlockingKinds
  <2>2. /\ Len(pending) \in Nat
        /\ Len(pending') = Len(pending) + 1
        /\ \A i \in 1..Len(pending) : pending'[i] = pending[i]
        /\ pending'[Len(pending) + 1] = u
    <3>1. pending' = Append(pending, u)
      BY <1>2, Zenon DEF QueueUpdate
    <3> HIDE DEF u
    <3> QED
      BY <1>0, <3>1, LenProperties
  <2> HIDE DEF u
  <2>3. SyncIsNewer(pending)'
    BY <1>2, <2>1, <2>2 DEF SyncIsNewer, GenerationInv, QueueUpdate, stateVars
  <2> QED
    BY <1>2, <2>3, Zenon DEF QueueUpdate, GenerationInv, SyncIsNewer, threadVars, stateVars
<1>3. ASSUME NEW c \in Callers, CallerStep(c) PROVE GenerationInv'
  BY <1>3, GenerationFrame DEF CallerStep, SignalUpdateThread, WaitReturns,
     InitialConfigApplied, CheckFibSynced, FibSynced, queueVars, threadVars, stateVars
<1>4. CASE ApplyAlpmState
  <2>1. work'.gen > applied'.gen
    BY <1>0, <1>4 DEF ApplyAlpmState, AppliedInv, States, stateVars
  <2> QED
    BY <1>4, <2>1, Zenon, SMT DEF ApplyAlpmState, GenerationInv, SyncIsNewer, queueVars, stateVars
<1>5. CASE SplicePendingUpdates
  <2>1. SyncIsNewer(batch)' /\ SyncIsNewer(pending)'
    <3>1. applied' = applied
      BY <1>5, Zenon DEF SplicePendingUpdates, stateVars
    <3>2. \A i \in 1..Len(pending) : IsSync(pending[i]) => pending[i].state.gen > applied.gen
      BY Zenon DEF GenerationInv, SyncIsNewer
    <3>3. SyncIsNewer(batch)'
      BY <1>5, <3>1, <3>2, SplicedParts DEF SyncIsNewer
    <3>4. SyncIsNewer(pending)'
      BY <1>5, <3>1, <3>2, SplicedParts DEF SyncIsNewer
    <3> QED
      BY <3>3, <3>4, Zenon
  <2> QED
    BY <1>5, <2>1 DEF SplicePendingUpdates, GenerationInv, stateVars
<1>6. CASE PrepareUpdate
  <2>1. batch[at] \in Updates \union SyncUpdates /\ at \in 1..Len(batch)
    BY <1>0, <1>6, ElementOfSeq, LenProperties DEF PrepareUpdate, TypeOK
  <2>2. IsSync(batch[at]) => batch[at].state.gen > applied.gen
    BY <1>6, <2>1, Zenon DEF PrepareUpdate, GenerationInv, SyncIsNewer
  <2>3. work' = applied \/ work'.gen > applied.gen
    BY <1>0, <1>6, <2>2 DEF PrepareUpdate, ApplyFn, GenerationInv, States
  <2> QED
    BY <1>6, <2>3, Zenon DEF PrepareUpdate, GenerationInv, SyncIsNewer, queueVars, stateVars
<1>7. CASE CompareStates
  BY <1>7, Zenon DEF CompareStates, GenerationInv, SyncIsNewer, queueVars, stateVars
<1>8. CASE AbortUpdate
  BY <1>8, Zenon DEF AbortUpdate, GenerationInv, SyncIsNewer, queueVars, stateVars
<1>9. CASE HwStateChanged
  <2>1. result'.gen > applied.gen
    BY <1>0, <1>9 DEF HwStateChanged, AppliedState, GenerationInv, States
  <2> QED
    BY <1>9, <2>1, Zenon DEF HwStateChanged, GenerationInv, SyncIsNewer, queueVars
<1>10. CASE PublishState
  BY <1>10, Zenon DEF PublishState, QueueInv, NoSyncFrom, GenerationInv, SyncIsNewer, queueVars
<1>11. CASE FinishUpdates
  <2> DEFINE u == SyncUpdate(work, result)
  <2>1. NoSyncFrom(1) /\ result = applied
    BY <1>11, Zenon DEF FinishUpdates, QueueInv, AppliedInv
  <2>2. u.state.gen > applied.gen /\ u \in SyncUpdates
    BY <1>0, <2>1 DEF SyncUpdate, SyncUpdates, States
  <2> HIDE DEF u
  <2>3. CASE pending' = pending
    BY <1>11, <2>1, <2>3, Zenon DEF FinishUpdates, GenerationInv, SyncIsNewer, stateVars
  <2>4. CASE pending' # pending
    <3>1. pending' = <<u>> \o pending
      BY <1>11, <2>4, Zenon DEF FinishUpdates, QueueForSync, u
    <3>2. /\ Len(pending) \in Nat
          /\ Len(pending') = Len(pending) + 1
          /\ pending'[1] = u
          /\ \A i \in 2..Len(pending') : pending'[i] = pending[i - 1]
      BY <1>0, <2>2, <3>1, AtTheFront
    <3>3. SyncIsNewer(pending)'
      <4>1. applied' = applied
        BY <1>11, Zenon DEF FinishUpdates, stateVars
      <4> QED
        BY <2>1, <2>2, <3>2, <4>1 DEF NoSyncFrom, SyncIsNewer
    <3> QED
      BY <1>11, <3>3 DEF FinishUpdates, GenerationInv
  <2> QED
    BY <2>3, <2>4, Zenon
<1>12. CASE UNCHANGED vars
  BY <1>12, GenerationFrame, Zenon DEF vars, queueVars, threadVars, stateVars
<1> QED
  BY <1>1, <1>2, <1>3, <1>4, <1>5, <1>6, <1>7, <1>8, <1>9, <1>10, <1>11, <1>12
     DEF Next, UpdateThread

(* GenerationInv is an invariant.                                          *)
THEOREM GenerationInvariant == Spec => []GenerationInv
<1>1. Init => GenerationInv
  <2> SUFFICES ASSUME Init PROVE GenerationInv
    OBVIOUS
  <2>1. pending = <<>> /\ pc = "idle"
    BY Zenon DEF Init
  <2> QED
    BY <2>1 DEF GenerationInv, SyncIsNewer
<1>2. TypeOK /\ QueueInv /\ AppliedInv /\ GenerationInv /\ [Next]_vars => GenerationInv'
  BY GenerationStep
<1> QED
  BY <1>1, <1>2, TypeCorrect, QueueInvariant, AppliedInvariant, PTL DEF Spec

(* The generation of what is applied grows with every update, also when    *)
(* the batch begins with the update for getting the hardware in sync: the  *)
(* DCHECK in applyUpdate() never fails.                                    *)
THEOREM GenerationsGrow == Spec => []GenerationGrows
<1>1. GenerationInv => GenerationGrows
  BY Zenon DEF GenerationInv, GenerationGrows
<1> QED
  BY <1>1, GenerationInvariant, PTL

-----------------------------------------------------------------------------
(* Divergence.  The base of every batch is the applied state, so what the  *)
(* hardware rejected would be lost if the first update of the next batch   *)
(* did not bring the desired state back.                                   *)

(* The batch starts from a state in sync, or with the update that restores *)
(* the desired state; either way the result is what was intended.          *)
BatchInv ==
  /\ Len(batch) >= 1
  /\ \A i \in 2..Len(batch) : ~IsSync(batch[i])
  /\ IF IsSync(batch[1])
     THEN /\ at = 1 => batch[1].state.tree = intent
          /\ at > 1 => work.tree = intent /\ work.gen > applied.gen
     ELSE work.tree = intent /\ applied = desired

IdleInv ==
  /\ boot = <<>> \/ boot = <<"notify">> => desired.tree = intent
  /\ boot # <<>> => intent = AlpmTree(desired.tree)
  /\ batch = <<>>
  /\ IF applied = desired THEN ~HeadIsSync
     ELSE HeadIsSync /\ Head(pending).state.tree = desired.tree

DivergenceInv ==
  Live =>
    /\ pc = "idle" => IdleInv
    /\ pc = "prepare" => BatchInv
    /\ pc \in {"apply", "publish"} => work.tree = intent
    /\ pc = "apply" /\ batch = <<>> => work.tree = AlpmTree(applied.tree)
    /\ pc = "publish" /\ batch = <<>> => result = work
    /\ pc = "finish" => /\ desired = work /\ work.tree = intent
                        /\ batch = <<>> => result = work

(* The initial notification comes first.                                   *)
LEMMA NotifyFirst ==
  ASSUME NEW q \in BootQueues, q # <<>>, Head(q) = "notify"
  PROVE  Tail(q) = <<"alpm">> \/ (q = <<"notify">> /\ Tail(q) = <<>>)
<1>1. Tail(<<"notify", "alpm">>) = <<"alpm">> /\ Tail(<<"notify">>) = <<>>
  OBVIOUS
<1>2. Head(<<"alpm">>) # "notify"
  OBVIOUS
<1> QED
  BY <1>1, <1>2, Zenon DEF BootQueues

(* A switch that is exiting, or has aborted, never gets live again.        *)
LEMMA LiveBefore ==
  ASSUME TypeOK, [Next]_vars, Live' PROVE Live
<1> USE DEF Live, isExiting, EXITING, FIB_SYNCED, CONFIGURED, INITIALIZED, UNINITIALIZED
<1>1. CASE SwitchInitialized \/ StopSwitch
  BY <1>1 DEF SwitchInitialized, StopSwitch, SetSwitchRunState
<1>2. ASSUME NEW c \in Callers, NEW r \in Requests, QueueUpdate(c, r) PROVE Live
  BY <1>2, Zenon DEF QueueUpdate
<1>3. ASSUME NEW c \in Callers, CallerStep(c) PROVE Live
  <2>1. ASSUME NEW s \in {CONFIGURED, FIB_SYNCED}, SetSwitchRunState(s), ~aborted PROVE Live
    <3>1. ~(runState > s)
      BY <2>1, Zenon DEF SetSwitchRunState
    <3> QED
      BY <2>1, <3>1 DEF TypeOK
  <2>2. CASE InitialConfigApplied(c) \/ FibSynced(c)
    BY <2>1, <2>2 DEF InitialConfigApplied, FibSynced
  <2>3. CASE SignalUpdateThread(c) \/ WaitReturns(c) \/ CheckFibSynced(c)
    BY <2>3 DEF SignalUpdateThread, WaitReturns, CheckFibSynced
  <2> QED
    BY <1>3, <2>2, <2>3, Zenon DEF CallerStep
<1>4. CASE StopThreads \/ SerializeState \/ UpdateThread
  <2>1. runState' = runState
    BY <1>4, Zenon DEF StopThreads, SerializeState, UpdateThread, NotifyInitialState,
       ApplyAlpmState, SplicePendingUpdates, PrepareUpdate, CompareStates, AbortUpdate,
       HwStateChanged, HwStateChangeThrows, PublishState, FinishUpdates, TerminateLoop
  <2>2. ~aborted
    BY <1>4, Zenon DEF StopThreads, SerializeState, UpdateThread, NotifyInitialState,
       ApplyAlpmState, SplicePendingUpdates, PrepareUpdate, CompareStates, AbortUpdate,
       HwStateChanged, HwStateChangeThrows, PublishState, FinishUpdates, TerminateLoop
  <2> QED
    BY <2>1, <2>2
<1>5. CASE UNCHANGED vars
  BY <1>5, Zenon DEF vars
<1> QED
  BY <1>1, <1>2, <1>3, <1>4, <1>5, Zenon DEF Next

(* Where thread, queue and states stand still, so does DivergenceInv.      *)
LEMMA DivergenceFrame ==
  ASSUME TypeOK, DivergenceInv, [Next]_vars,
         UNCHANGED <<boot, pending, threadVars, stateVars, intent>>
  PROVE  DivergenceInv'
<1> SUFFICES ASSUME Live' PROVE DivergenceInv'
  BY DEF DivergenceInv
<1>1. Live
  BY LiveBefore, Zenon
<1>2. (IdleInv => IdleInv') /\ (BatchInv => BatchInv')
  BY Zenon DEF IdleInv, BatchInv, HeadIsSync, threadVars, stateVars
<1> QED
  BY <1>1, <1>2, Zenon DEF DivergenceInv, threadVars, stateVars

(* DivergenceInv is inductive as long as full tables never reject one of   *)
(* the default routes that init() adds for ALPM: its callback drops what   *)
(* applyUpdate() returns.                                                  *)
LEMMA DivergenceStep ==
  ASSUME AlpmRoutes \cap Rejectable = {},
         TypeOK, QueueInv, AppliedInv, GenerationInv, DivergenceInv, [Next]_vars
  PROVE  DivergenceInv'
<1>0. /\ {work, result, applied, desired} \subseteq States
      /\ intent \in Trees
      /\ pending \in Seq(Updates \union SyncUpdates)
      /\ batch \in Seq(Updates \union SyncUpdates)
      /\ at \in Nat \ {0}
  BY Zenon DEF TypeOK
<1> SUFFICES ASSUME Live' PROVE DivergenceInv'
  BY DEF DivergenceInv
<1>L. Live
  BY LiveBefore, Zenon
<1>1. CASE SwitchInitialized \/ StopSwitch \/ StopThreads \/ SerializeState
           \/ HwStateChangeThrows \/ TerminateLoop
  BY <1>1, DivergenceFrame, Zenon DEF SwitchInitialized, StopSwitch, StopThreads,
     SerializeState, HwStateChangeThrows, TerminateLoop, queueVars, threadVars, stateVars
<1>2. ASSUME NEW c \in Callers, NEW r \in Requests, QueueUpdate(c, r)
      PROVE  DivergenceInv'
  <2> DEFINE u == [id |-> submitted + 1, kind |-> r.kind, entry |-> r.entry,
                   value |-> r.value]
  <2>1. ~IsSync(u)
    BY ConstantsAssumption, Zenon DEF IsSync, Kinds, NoCoalesceKinds, BlockingKinds
  <2>2. pending' = Append(pending, u)
    BY <1>2 DEF QueueUpdate
  <2> HIDE DEF u
  <2>3. HeadIsSync' = HeadIsSync /\ (HeadIsSync => Head(pending') = Head(pending))
    <3>1. pending = <<>> => Head(pending') = u /\ pending' # <<>>
      BY <1>0, <2>2
    <3>2. pending # <<>> => Head(pending') = Head(pending) /\ pending' # <<>>
      BY <1>0, <2>2
    <3> QED
      BY <2>1, <3>1, <3>2, Zenon DEF HeadIsSync
  <2>4. (IdleInv => IdleInv') /\ (BatchInv => BatchInv')
    BY <1>2, <2>3, Zenon DEF QueueUpdate, IdleInv, BatchInv, threadVars, stateVars
  <2> QED
    BY <1>2, <1>L, <2>4, Zenon DEF QueueUpdate, DivergenceInv, threadVars, stateVars
<1>3. ASSUME NEW c \in Callers, CallerStep(c) PROVE DivergenceInv'
  BY <1>3, DivergenceFrame, Zenon DEF CallerStep, SignalUpdateThread, WaitReturns,
     InitialConfigApplied, CheckFibSynced, FibSynced, queueVars, threadVars, stateVars
<1>4. CASE NotifyInitialState
  <2>1. IdleInv /\ boot # <<>> /\ boot' = Tail(boot) /\ pc' = "idle"
    BY <1>4, <1>L, Zenon DEF NotifyInitialState, DivergenceInv, threadVars
  <2>2. boot' = <<"alpm">> \/ (boot = <<"notify">> /\ boot' = <<>>)
    BY <1>4, <2>1, NotifyFirst DEF TypeOK, NotifyInitialState
  <2>3. boot' = <<"alpm">> => boot' # <<>> /\ boot' # <<"notify">>
    OBVIOUS
  <2>4. IdleInv'
    BY <1>4, <2>1, <2>2, <2>3, Zenon
       DEF NotifyInitialState, IdleInv, HeadIsSync, queueVars, threadVars, stateVars
  <2> QED
    BY <2>1, <2>4, Zenon DEF DivergenceInv
<1>5. CASE ApplyAlpmState
  <2>1. IdleInv /\ boot # <<>> /\ applied = desired
    BY <1>5, <1>L DEF ApplyAlpmState, DivergenceInv, AppliedInv
  <2>2. work'.tree = intent /\ work'.tree = AlpmTree(applied.tree)
    BY <1>5, <2>1, Zenon DEF ApplyAlpmState, IdleInv
  <2> QED
    BY <1>5, <2>2, Zenon DEF ApplyAlpmState, DivergenceInv, stateVars
<1>6. CASE SplicePendingUpdates
  <2>1. IdleInv /\ boot = <<>>
    BY <1>6, <1>L, Zenon DEF SplicePendingUpdates, DivergenceInv
  <2>2. desired.tree = intent
    BY <2>1 DEF IdleInv
  <2>3. CASE pending = <<>>
    <3>1. applied = desired /\ batch' = <<>> /\ pending' = <<>>
      <4>1. Len(pending) = 0
        BY <2>3
      <4>2. SpliceLength(pending) = 0
        <5>1. SpliceLength(pending) \in 0..Len(pending)
          BY <1>0, SpliceLengthBounds, Zenon
        <5> QED
          BY <4>1, <5>1
      <4> pending' = SubSeq(pending, SpliceLength(pending) + 1, Len(pending))
        BY <1>6, Zenon DEF SplicePendingUpdates
      <4>3. pending' = <<>>
        BY <4>1, <4>2, SubSeqEmpty
      <4> QED
        BY <1>6, <2>1, <2>3, <4>3, SplicedParts DEF IdleInv, HeadIsSync
    <3> QED
      BY <1>6, <2>1, <2>2, <2>3, <3>1, Zenon
         DEF SplicePendingUpdates, DivergenceInv, IdleInv, HeadIsSync, stateVars
  <2>4. CASE pending # <<>>
    <3>1. Head(pending) = pending[1] /\ batch'[1] = pending[1] /\ Len(batch') >= 1
      BY <1>0, <1>6, <2>4, SplicedParts
    <3>2. \A i \in 2..Len(batch') : ~IsSync(batch'[i])
      BY <1>6, SplicedParts DEF QueueInv, NoSyncFrom
    <3>3. work' = applied /\ at' = 1 /\ UNCHANGED <<applied, desired, intent>>
      BY <1>6, Zenon DEF SplicePendingUpdates, stateVars
    <3>4. IsSync(pending[1]) => pending[1].state.tree = intent
      BY <2>1, <2>2, <2>4, <3>1, Zenon DEF IdleInv, HeadIsSync
    <3>5. ~IsSync(pending[1]) => applied = desired
      BY <2>1, <2>4, <3>1, Zenon DEF IdleInv, HeadIsSync
    <3>6. BatchInv'
      BY <2>2, <3>1, <3>2, <3>3, <3>4, <3>5 DEF BatchInv
    <3> QED
      BY <1>6, <2>4, <3>6, Zenon DEF SplicePendingUpdates, DivergenceInv
  <2> QED
    BY <2>3, <2>4, Zenon
<1>7. CASE PrepareUpdate
  <2> DEFINE u == batch[at]
  <2>1. BatchInv /\ at \in 1..Len(batch) /\ Len(batch) \in Nat
    BY <1>0, <1>7, <1>L, LenProperties DEF PrepareUpdate, DivergenceInv
  <2>2. /\ work' = ApplyFn(u, work)
        /\ intent' = IF IsSync(u) \/ Throws(u) THEN intent ELSE Put(intent, u)
        /\ at' = at + 1
        /\ UNCHANGED <<batch, applied, desired, pc>>
    BY <1>7, Zenon DEF PrepareUpdate, stateVars
  <2>3. CASE IsSync(u)
    <3>1. at = 1
      BY <1>0, <2>1, <2>3, SMT, Z3 DEF BatchInv
    <3>2. work' = u.state /\ intent' = intent
      BY <2>2, <2>3, Zenon DEF ApplyFn
    <3>3. u.state.tree = intent
      BY <2>1, <2>3, <3>1, Zenon DEF BatchInv
    <3>4. u.state.gen > applied.gen
      BY <1>7, <2>1, <2>3, Zenon DEF GenerationInv, SyncIsNewer, PrepareUpdate
    <3>5. BatchInv'
      BY <2>1, <2>2, <2>3, <3>1, <3>2, <3>3, <3>4, Zenon DEF BatchInv
    <3> QED
      BY <1>7, <2>2, <3>5, Zenon DEF DivergenceInv, PrepareUpdate
  <2>4. CASE ~IsSync(u)
    <3>1. work.tree = intent /\ (IsSync(batch[1]) => work.gen > applied.gen)
      BY <1>0, <2>1, <2>4, SMT, Z3 DEF BatchInv
    <3>2. work'.tree = intent'
      BY <2>2, <2>4, <3>1, Zenon DEF ApplyFn, Throws
    <3>3. work'.gen >= work.gen
      BY <1>0, <2>2, <2>4 DEF ApplyFn, States
    <3>4. work.gen \in Int /\ work'.gen \in Int /\ applied.gen \in Int
      BY <1>0, <2>2, <2>4, SMT, Z3 DEF ApplyFn, States
    <3>5. BatchInv'
      BY <1>0, <2>1, <2>2, <3>1, <3>2, <3>3, <3>4, SMT, Z3 DEF BatchInv
    <3> QED
      BY <1>7, <2>2, <3>5, Zenon DEF DivergenceInv, PrepareUpdate
  <2> QED
    BY <2>3, <2>4, Zenon
<1>8. CASE CompareStates
  <2>1. BatchInv /\ at > 1 /\ batch # <<>>
    BY <1>0, <1>8, <1>L, LenProperties DEF CompareStates, DivergenceInv, BatchInv
  <2>2. work.tree = intent
    BY <2>1, Zenon DEF BatchInv
  <2>3. work = applied => applied = desired
    BY <1>0, <2>1 DEF BatchInv, States
  <2> QED
    BY <1>8, <2>1, <2>2, <2>3, Zenon DEF CompareStates, DivergenceInv, stateVars
<1>9. CASE AbortUpdate
  BY <1>9, <1>L, Zenon DEF AbortUpdate, Live
<1>10. CASE HwStateChanged
  <2>1. PICK t \in HwResults(applied.tree, work.tree) :
          hw' = t /\ result' = AppliedState(t, work)
    BY <1>10 DEF HwStateChanged
  <2>2. batch = <<>> => t = work.tree
    <3>1. SUFFICES ASSUME batch = <<>> PROVE t = work.tree
      BY Zenon
    <3>2. work.tree = AlpmTree(applied.tree)
      BY <1>10, <1>L, <3>1 DEF HwStateChanged, DivergenceInv
    <3>3. \A e \in Rejectable : work.tree[e] = applied.tree[e]
      BY <3>2, ConstantsAssumption, Zenon DEF AlpmTree
    <3> QED
      BY <1>0, <2>1, <3>3, Zenon DEF HwResults, States, Trees
  <2>3. batch = <<>> => result' = work
    BY <2>1, <2>2 DEF AppliedState
  <2> QED
    BY <1>10, <1>L, <2>3, Zenon DEF HwStateChanged, DivergenceInv
<1>11. CASE PublishState
  BY <1>11, <1>L, Zenon DEF PublishState, DivergenceInv
<1>12. CASE FinishUpdates
  <2> DEFINE u == SyncUpdate(work, result)
  <2>1. /\ desired = work /\ work.tree = intent /\ applied = result
        /\ batch = <<>> => result = work
        /\ NoSyncFrom(1) /\ boot = <<>>
    BY <1>12, <1>L, Zenon DEF FinishUpdates, DivergenceInv, AppliedInv, QueueInv
  <2>2. UNCHANGED <<boot, applied, desired, intent>> /\ batch' = <<>> /\ pc' = "idle"
    BY <1>12, Zenon DEF FinishUpdates, stateVars
  <2>3. CASE applied = desired
    <3>1. pending' = pending
      BY <1>12, <2>1, <2>3, Zenon DEF FinishUpdates
    <3>2. ~HeadIsSync
      BY <1>0, <2>1, RequestedCount DEF NoSyncFrom
    <3>3. IdleInv'
      BY <2>1, <2>2, <2>3, <3>1, <3>2, Zenon DEF IdleInv, HeadIsSync
    <3> QED
      BY <2>2, <3>3, Zenon DEF DivergenceInv
  <2>4. CASE applied # desired
    <3>1. pending' = <<u>> \o pending
      BY <1>12, <2>1, <2>4, Zenon DEF FinishUpdates, QueueForSync
    <3>2. u \in Updates \union SyncUpdates /\ IsSync(u) /\ u.state.tree = work.tree
      BY <1>0 DEF SyncUpdate, SyncUpdates, States, IsSync
    <3> HIDE DEF u
    <3>3. pending' # <<>> /\ Head(pending') = u
      BY <1>0, <3>1, <3>2
    <3>4. IdleInv'
      BY <2>1, <2>2, <2>4, <3>2, <3>3, Zenon DEF IdleInv, HeadIsSync
    <3> QED
      BY <2>2, <3>4 DEF DivergenceInv
  <2> QED
    BY <2>3, <2>4, Zenon
<1>13. CASE UNCHANGED vars
  BY <1>13, DivergenceFrame DEF vars, queueVars, threadVars, stateVars
<1> QED
  BY <1>1, <1>2, <1>3, <1>4, <1>5, <1>6, <1>7, <1>8, <1>9, <1>10, <1>11, <1>12, <1>13, Zenon
     DEF Next, UpdateThread

(* DivergenceInv is an invariant.                                          *)
THEOREM DivergenceInvariant ==
  ASSUME AlpmRoutes \cap Rejectable = {}
  PROVE  Spec => []DivergenceInv
<1>1. Init => DivergenceInv
  <2> SUFFICES ASSUME Init PROVE DivergenceInv
    BY Zenon
  <2>1. PICK t \in BootTrees :
          /\ applied = [tree |-> t, gen |-> 0]
          /\ intent = AlpmTree(t)
          /\ boot = IF AlpmTree(t) = t THEN <<"notify">> ELSE <<"notify", "alpm">>
    BY Zenon DEF Init
  <2>2. boot # <<>> /\ (boot = <<"notify">> => AlpmTree(t) = t)
    BY <2>1
  <2> QED
    BY <2>1, <2>2 DEF Init, DivergenceInv, IdleInv, HeadIsSync
<1>2. TypeOK /\ QueueInv /\ AppliedInv /\ GenerationInv /\ DivergenceInv /\ [Next]_vars
      => DivergenceInv'
  BY DivergenceStep
<1> QED
  BY <1>1, <1>2, TypeCorrect, QueueInvariant, AppliedInvariant, GenerationInvariant, PTL
     DEF Spec

(* While applied and desired states differ, the update for getting the     *)
(* hardware in sync is at the front of the queue, and there is only one,   *)
(* as long as full tables never reject an ALPM default route.              *)
THEOREM SyncUpdateHeld ==
  ASSUME AlpmRoutes \cap Rejectable = {}
  PROVE  Spec => []SyncUpdateHeldWhileDiverged
<1>1. TypeOK /\ QueueInv /\ GenerationInv /\ DivergenceInv => SyncUpdateHeldWhileDiverged
  <2> SUFFICES ASSUME TypeOK, QueueInv, GenerationInv, DivergenceInv
               PROVE  SyncUpdateHeldWhileDiverged
    BY Zenon, SMT
  <2>1. HeadIsSync => Head(pending).state.gen > applied.gen
    <3>1. pending \in Seq(Updates \union SyncUpdates)
      BY Zenon DEF TypeOK
    <3>2. HeadIsSync => Len(pending) >= 1 /\ Len(pending) \in Nat /\ Head(pending) = pending[1]
      BY <3>1, RequestedCount DEF HeadIsSync
    <3> QED
      BY <3>2 DEF GenerationInv, SyncIsNewer, HeadIsSync
  <2> QED
    BY <2>1, Zenon DEF QueueInv, NoSyncFrom, DivergenceInv, IdleInv, SyncUpdateHeldWhileDiverged
<1> QED
  BY <1>1, TypeCorrect, QueueInvariant, GenerationInvariant, DivergenceInvariant, PTL

(* No update is lost or applied twice: whatever the hardware rejected on   *)
(* the way, the desired state is the initial state with every update that  *)
(* was run applied in queue order.                                         *)
THEOREM NoUpdateLost ==
  ASSUME AlpmRoutes \cap Rejectable = {}
  PROVE  Spec => []NoLostUpdate
<1>1. DivergenceInv => NoLostUpdate
  BY Zenon DEF DivergenceInv, IdleInv, NoLostUpdate
<1> QED
  BY <1>1, DivergenceInvariant, PTL
-----------------------------------------------------------------------------
(* The observers.  Their deltas run from the applied to the desired state, *)
(* while what they hold is the desired state of the delta before.          *)

Notified == ~(boot # <<>> /\ Head(boot) = "notify")

(* For an entry that full tables never reject, applied and desired state   *)
(* agree at every step, so no delta skips it.                              *)
ObserverInv ==
  Live =>
    /\ ~Notified => view = [e \in Entries |-> Absent]
    /\ \A e \in Entries \ Rejectable :
         /\ applied.tree[e] = desired.tree[e]
         /\ Notified => view[e] = desired.tree[e]
         /\ pc = "publish" => result.tree[e] = work.tree[e]

(* Where the thread, the states and the view stand still, so does          *)
(* ObserverInv.                                                            *)
LEMMA ObserverFrame ==
  ASSUME TypeOK, ObserverInv, [Next]_vars,
         pc' # "publish" \/ UNCHANGED <<pc, work, result>>,
         UNCHANGED <<boot, view, applied, desired>>
  PROVE  ObserverInv'
  BY LiveBefore, Zenon DEF ObserverInv, Notified

(* ObserverInv is inductive, given the types and the queue.                *)
LEMMA ObserverStep ==
  ASSUME TypeOK, QueueInv, AppliedInv, ObserverInv, [Next]_vars
  PROVE  ObserverInv'
<1>0. /\ {work, result, applied, desired} \subseteq States
      /\ Rejectable \subseteq Entries
  BY ConstantsAssumption, Zenon DEF TypeOK
<1> SUFFICES ASSUME Live' PROVE ObserverInv'
  BY DEF ObserverInv
<1>L. Live
  BY LiveBefore
<1>1. CASE SwitchInitialized \/ StopSwitch \/ StopThreads \/ SerializeState
           \/ HwStateChangeThrows \/ TerminateLoop \/ SplicePendingUpdates
           \/ PrepareUpdate \/ CompareStates \/ AbortUpdate \/ FinishUpdates
  BY <1>1, ObserverFrame, Zenon DEF SwitchInitialized, StopSwitch, StopThreads,
     SerializeState, HwStateChangeThrows, TerminateLoop, SplicePendingUpdates,
     PrepareUpdate, CompareStates, AbortUpdate, FinishUpdates, queueVars, threadVars,
     stateVars
<1>2. ASSUME NEW c \in Callers, NEW r \in Requests, QueueUpdate(c, r)
      PROVE  ObserverInv'
  BY <1>2, ObserverFrame, Zenon DEF QueueUpdate, threadVars, stateVars
<1>3. ASSUME NEW c \in Callers, CallerStep(c) PROVE ObserverInv'
  BY <1>3, ObserverFrame DEF CallerStep, SignalUpdateThread, WaitReturns,
     InitialConfigApplied, CheckFibSynced, FibSynced, queueVars, threadVars, stateVars
<1>4. CASE NotifyInitialState
  <2>1. /\ view = [e \in Entries |-> Absent]
        /\ view' = Follow(view, [e \in Entries |-> Absent], desired.tree)
        /\ UNCHANGED <<pc, applied, desired>> /\ pc = "idle"
    BY <1>4, <1>L, Zenon DEF NotifyInitialState, ObserverInv, Notified, Live, threadVars, stateVars
  <2>2. \A e \in Entries : view'[e] = desired.tree[e]
    BY <2>1, Zenon DEF Follow
  <2>3. boot' = <<>> \/ boot' = <<"alpm">>
    BY <1>4, NotifyFirst DEF NotifyInitialState, TypeOK
  <2>4. Notified'
    <3>1. Head(<<"alpm">>) # "notify"
      OBVIOUS
    <3> QED
      BY <2>3, <3>1 DEF Notified
  <2> QED
    BY <1>0, <1>L, <2>1, <2>2, <2>4, Zenon DEF ObserverInv
<1>5. CASE ApplyAlpmState
  <2>1. boot' = <<>> /\ pc' = "apply" /\ UNCHANGED <<view, applied, desired>>
    BY <1>5, BootQueue, Zenon DEF ApplyAlpmState, TypeOK, stateVars
  <2>2. Notified /\ Notified'
    BY <1>5, <2>1 DEF ApplyAlpmState, Notified
  <2> QED
    BY <1>L, <2>1, <2>2, Zenon DEF ObserverInv
<1>6. CASE HwStateChanged
  <2>1. PICK t \in HwResults(applied.tree, work.tree) : result' = AppliedState(t, work)
    BY <1>6 DEF HwStateChanged
  <2>2. \A e \in Entries \ Rejectable : t[e] = work.tree[e]
    BY <2>1, Zenon DEF HwResults
  <2>3. result'.tree = t
    BY <2>1 DEF AppliedState
  <2> QED
    BY <1>6, <1>L, <2>2, <2>3, Zenon DEF HwStateChanged, ObserverInv, Notified, queueVars
<1>7. CASE PublishState
  <2>1. /\ view' = Follow(view, applied.tree, work.tree) /\ boot' = boot /\ boot = <<>>
        /\ pc = "publish" /\ pc' = "finish" /\ applied' = result /\ desired' = work
    BY <1>7, <1>L, Zenon DEF PublishState, QueueInv, Live
  <2>2. Notified /\ Notified'
    BY <2>1 DEF Notified
  <2>3. ASSUME NEW e \in Entries \ Rejectable PROVE view'[e] = work.tree[e]
    <3>1. view'[e] = IF applied.tree[e] # work.tree[e] THEN work.tree[e] ELSE view[e]
      BY <2>1, Zenon DEF Follow
    <3> QED
      BY <1>L, <2>2, <3>1, Zenon DEF ObserverInv
  <2> QED
    BY <1>L, <2>1, <2>2, <2>3, Zenon DEF ObserverInv
<1>8. CASE UNCHANGED vars
  BY <1>8, ObserverFrame DEF vars, threadVars, stateVars
<1> QED
  BY <1>1, <1>2, <1>3, <1>4, <1>5, <1>6, <1>7, <1>8, Zenon DEF Next, UpdateThread

(* An observer holds every entry the hardware never rejects as the desired *)
(* state has it, whatever else was rejected and however often the update   *)
(* for getting the hardware in sync ran.                                   *)
THEOREM ObserversFollow == Spec => []ObserverHoldsUnrejected
<1>1. Init => ObserverInv
  <2>1. Head(<<"notify">>) = "notify" /\ Head(<<"notify", "alpm">>) = "notify"
    OBVIOUS
  <2> QED
    BY <2>1 DEF Init, ObserverInv, Notified
<1>2. TypeOK /\ QueueInv /\ AppliedInv /\ ObserverInv /\ [Next]_vars => ObserverInv'
  BY ObserverStep
<1>3. ObserverInv => ObserverHoldsUnrejected
  BY Zenon DEF ObserverInv, Notified, ObserverHoldsUnrejected
<1> QED
  BY <1>1, <1>2, <1>3, TypeCorrect, QueueInvariant, AppliedInvariant, PTL DEF Spec

-----------------------------------------------------------------------------
(* The invariants the refinement needs.                                    *)

(* The update thread is in a callback of init(), or has one to run.        *)
InBoot == boot # <<>> \/ (batch = <<>> /\ pc \in {"apply", "publish"})

(* init()'s callbacks run before the first update, so before the initial   *)
(* config is applied and the signal handler may begin to exit.             *)
BootInv ==
  InBoot =>
    /\ runState \in {UNINITIALIZED, INITIALIZED}
    /\ \A i \in Ids : outcome[i] = "none"
    /\ \A c \in Callers : /\ caller[c].pc \notin {"configured", "synced", "marking"}
                          /\ caller[c].pc # "idle" => caller[c].id \in Ids

(* What handlePendingUpdates() splices: only the first update may be the   *)
(* one for getting the hardware in sync, only the last may forbid          *)
(* coalescing.                                                             *)
BatchShape ==
  /\ pc = "idle" => batch = <<>>
  /\ pc = "prepare" => batch # <<>>
  /\ \A i \in 2..Len(batch) : ~IsSync(batch[i])
  /\ \A i \in 1..(Len(batch) - 1) : AllowsCoalescing(batch[i])

(* The updates of the batch, other than that one, that have been run.      *)
Run == IF IsSync(Head(batch)) THEN at - 2 ELSE at - 1

(* What the batch builds is the desired state with these updates written,  *)
(* although it starts from the applied state.                              *)
WorkInv ==
  /\ Live /\ pc = "prepare" =>
       /\ at <= Len(batch) + 1
       /\ IF IsSync(Head(batch)) /\ at = 1
          THEN Head(batch).state.tree = desired.tree
          ELSE work.tree = Register!Written(desired.tree, Unsynced(batch), Run)
  /\ (Live /\ pc = "apply") \/ pc = "publish" =>
       work.tree = IF batch = <<>> THEN AlpmTree(desired.tree)
                   ELSE Register!Written(desired.tree, Unsynced(batch), Len(Unsynced(batch)))

-----------------------------------------------------------------------------
(* What a batch writes.                                                    *)

(* Nothing is written by no update.                                        *)
LEMMA WrittenNone ==
  ASSUME NEW t \in Trees, NEW q PROVE Register!Written(t, q, 0) = t
<1>1. \A e : Register!Writes(q, 0, e) = {}
  BY DEF Register!Writes
<1> QED
  BY <1>1, Zenon DEF Register!Written, Trees

(* A nonempty set of numbers up to n has a greatest element.               *)
LEMMA GreatestNatural ==
  ASSUME NEW n \in Nat, NEW T \in SUBSET (1..n), T # {}
  PROVE  \E i \in T : \A j \in T : j <= i
<1> DEFINE U == {n - i : i \in T}
<1>1. U \in SUBSET Nat /\ U # {}
  <2>1. \A i \in T : n - i \in Nat
    OBVIOUS
  <2>2. PICK i \in T : TRUE
    BY Zenon
  <2>3. n - i \in U
    BY <2>2
  <2> QED
    BY <2>1, <2>3
<1>2. PICK k \in U : \A j \in U : k <= j
  <2> HIDE DEF U
  <2> QED  BY <1>1, LeastNatural, Zenon
<1>3. PICK i \in T : k = n - i
  BY <1>2
<1>4. \A j \in T : n - i <= n - j
  BY <1>2, <1>3, Zenon
<1> QED
  BY <1>3, <1>4

(* What the first n updates write depends on no other.                     *)
LEMMA WrittenAgree ==
  ASSUME NEW t, NEW q, NEW r, NEW n \in Nat, \A i \in 1..n : q[i] = r[i]
  PROVE  Register!Written(t, q, n) = Register!Written(t, r, n)
<1>1. ASSUME NEW e
      PROVE  /\ Register!Writes(q, n, e) = Register!Writes(r, n, e)
             /\ Register!Writes(q, n, e) \subseteq 1..n
             /\ Register!LastWrite(q, n, e) = Register!LastWrite(r, n, e)
  <2>1. Register!Writes(q, n, e) = Register!Writes(r, n, e)
    BY DEF Register!Writes
  <2>2. Register!LastWrite(q, n, e) = Register!LastWrite(r, n, e)
    BY <2>1, Zenon DEF Register!LastWrite
  <2>3. Register!Writes(q, n, e) \subseteq 1..n
    BY Zenon DEF Register!Writes
  <2> QED
    BY <2>1, <2>2, <2>3, Zenon
<1>2. ASSUME NEW e \in DOMAIN t
      PROVE  Register!Written(t, q, n)[e] = Register!Written(t, r, n)[e]
  <2>1. CASE Register!Writes(q, n, e) = {}
    BY <1>1, <2>1, Zenon DEF Register!Written
  <2>2. CASE Register!Writes(q, n, e) # {}
    <3>1. \E i \in Register!Writes(q, n, e) : \A j \in Register!Writes(q, n, e) : j <= i
      BY <1>1, <2>2, GreatestNatural, Zenon
    <3>2. Register!LastWrite(q, n, e) \in Register!Writes(q, n, e)
      BY <3>1, Zenon DEF Register!LastWrite
    <3> QED
      BY <1>1, <2>2, <3>2 DEF Register!Written
  <2> QED
    BY <2>1, <2>2, Zenon
<1> QED
  BY <1>2, Zenon DEF Register!Written

(* One more update overwrites its entry, or throws and writes nothing.     *)
LEMMA WrittenStep ==
  ASSUME NEW t, NEW q, NEW n \in Nat
  PROVE  Register!Written(t, q, n + 1) =
           IF q[n + 1].value = Bad THEN Register!Written(t, q, n)
           ELSE [Register!Written(t, q, n) EXCEPT ![q[n + 1].entry] = q[n + 1].value]
<1> DEFINE u == q[n + 1]
           W(e) == Register!Writes(q, n, e)
           V(e) == Register!Writes(q, n + 1, e)
<1>1. ASSUME NEW e, u.entry # e \/ u.value = Bad PROVE V(e) = W(e)
  BY <1>1 DEF Register!Writes
<1>2. ASSUME NEW e, u.entry # e \/ u.value = Bad
      PROVE  Register!LastWrite(q, n + 1, e) = Register!LastWrite(q, n, e)
  <2>1. V(e) = W(e)
    BY <1>1, <1>2
  <2> QED
    BY <2>1, Zenon DEF Register!LastWrite
<1>3. ASSUME NEW e, u.entry = e, u.value # Bad
      PROVE  n + 1 \in V(e) /\ Register!LastWrite(q, n + 1, e) = n + 1
  <2>1. n + 1 \in V(e) /\ V(e) \subseteq 1..(n + 1)
    BY <1>3 DEF Register!Writes
  <2>2. \A i \in V(e) : (\A j \in V(e) : j <= i) <=> i = n + 1
    <3> HIDE DEF V
    <3> QED  BY <2>1
  <2>3. (CHOOSE i \in V(e) : \A j \in V(e) : j <= i) = n + 1
    <3> HIDE DEF V
    <3> QED  BY <2>1, <2>2
  <2> QED
    BY <2>1, <2>3, Zenon DEF Register!LastWrite
<1> HIDE DEF u, V, W
<1>4. ASSUME NEW e \in DOMAIN t, u.entry # e \/ u.value = Bad
      PROVE  Register!Written(t, q, n + 1)[e] = Register!Written(t, q, n)[e]
  BY <1>1, <1>2, <1>4, Zenon DEF Register!Written, V, W
<1>5. ASSUME NEW e \in DOMAIN t, u.entry = e, u.value # Bad
      PROVE  Register!Written(t, q, n + 1)[e] = u.value
  BY <1>3, <1>5, Zenon DEF Register!Written, V, u
<1>6. /\ Register!Written(t, q, n) = [e \in DOMAIN t |-> Register!Written(t, q, n)[e]]
      /\ Register!Written(t, q, n + 1) = [e \in DOMAIN t |-> Register!Written(t, q, n + 1)[e]]
  BY Zenon DEF Register!Written
<1>7. CASE u.value = Bad
  BY <1>4, <1>6, <1>7, Zenon DEF u
<1>8. CASE u.value # Bad
  BY <1>4, <1>5, <1>6, <1>8, Zenon DEF u
<1> QED
  BY <1>7, <1>8, Zenon

(* What is left of a queue or batch without the update for getting the     *)
(* hardware in sync.                                                       *)
LEMMA UnsyncedParts ==
  ASSUME NEW S, NEW q \in Seq(S)
  PROVE  /\ Unsynced(q) \in Seq(S)
         /\ Len(q) \in Nat /\ Len(Unsynced(q)) \in Nat
         /\ q # <<>> => Head(q) = q[1] /\ Len(q) >= 1
         /\ q # <<>> /\ IsSync(q[1]) =>
              /\ Len(Unsynced(q)) = Len(q) - 1
              /\ \A i \in 1..(Len(q) - 1) : Unsynced(q)[i] = q[i + 1]
         /\ q = <<>> \/ ~IsSync(q[1]) => Unsynced(q) = q
<1>1. Len(q) \in Nat /\ (q # <<>> => Head(q) = q[1] /\ Len(q) >= 1)
  BY EmptySeq, LenProperties
<1>2. CASE q # <<>> /\ IsSync(q[1])
  <2>1. /\ Tail(q) \in Seq(S) /\ Len(Tail(q)) = Len(q) - 1
        /\ \A i \in 1..(Len(q) - 1) : Tail(q)[i] = q[i + 1]
    BY <1>1, <1>2, HeadTailProperties
  <2>2. Unsynced(q) = Tail(q)
    BY <1>1, <1>2, Zenon DEF Unsynced
  <2>3. Len(Unsynced(q)) \in Nat
    BY <1>1, <1>2, <2>1, <2>2
  <2> QED
    BY <1>1, <1>2, <2>1, <2>2, <2>3, Zenon
<1>3. CASE q = <<>> \/ ~IsSync(q[1])
  BY <1>1, <1>3, Zenon DEF Unsynced
<1> QED
  BY <1>2, <1>3, Zenon

(* The same by the number of updates that are hidden.                      *)
LEMMA UnsyncedShift ==
  ASSUME NEW S, NEW q \in Seq(S), q # <<>>, NEW k, k = IF IsSync(q[1]) THEN 1 ELSE 0
  PROVE  /\ Unsynced(q) \in Seq(S) /\ Len(Unsynced(q)) = Len(q) - k
         /\ \A i \in 1..Len(Unsynced(q)) : Unsynced(q)[i] = q[i + k]
<1>1. Unsynced(q) \in Seq(S) /\ Len(q) \in Nat
  BY UnsyncedParts, Zenon
<1>2. CASE IsSync(q[1])
  <2>1. /\ k = 1 /\ Len(Unsynced(q)) = Len(q) - 1
        /\ \A i \in 1..(Len(q) - 1) : Unsynced(q)[i] = q[i + 1]
    BY <1>2, UnsyncedParts, Zenon
  <2> QED
    BY <1>1, <2>1, Zenon
<1>3. CASE ~IsSync(q[1])
  <2>1. k = 0 /\ Unsynced(q) = q
    BY <1>3, UnsyncedParts, Zenon
  <2>2. \A i \in 1..Len(q) : i + 0 = i
    BY <1>1
  <2> QED
    BY <1>1, <2>1, <2>2
<1> QED
  BY <1>2, <1>3, Zenon

-----------------------------------------------------------------------------
(* BatchShape is inductive, given the types and the queue.                 *)
LEMMA BatchShapeStep ==
  ASSUME TypeOK, QueueInv, BatchShape, [Next]_vars PROVE BatchShape'
<1> USE DEF BatchShape
<1>1. CASE SplicePendingUpdates
  <2>1. pending \in Seq(Updates \union SyncUpdates)
    BY Zenon DEF TypeOK
  <2>2. \A i \in 2..Len(batch') : ~IsSync(batch'[i])
    <3>1. \A i \in 2..Len(pending) : ~IsSync(pending[i])
      BY Zenon DEF QueueInv, NoSyncFrom
    <3> QED
      BY <1>1, <3>1, SplicedParts
  <2>3. \A i \in 1..(Len(batch') - 1) : AllowsCoalescing(batch'[i])
    <3>1. SpliceLength(pending) = Len(batch')
      <4>1. SpliceLength(pending) \in 0..Len(pending) /\ Len(pending) \in Nat
        BY <2>1, SpliceLengthBounds, LenProperties, Zenon
      <4>2. \A i \in 1..SpliceLength(pending) : pending[i] \in Updates \union SyncUpdates
        BY <2>1, <4>1, ElementOfSeq
      <4> QED
        BY <1>1, <4>1, <4>2, SubSeqProperties DEF SplicePendingUpdates
    <3>2. \A i \in 1..(Len(batch') - 1) : AllowsCoalescing(pending[i])
      BY <2>1, <3>1, SpliceLengthBounds, Zenon
    <3> QED
      BY <1>1, <3>2, SplicedParts
  <2> QED
    BY <1>1, <2>2, <2>3, SplicedParts, Zenon DEF SplicePendingUpdates
<1>2. CASE FinishUpdates
  <2>1. batch' = <<>> /\ pc' = "idle" /\ Len(<<>>) = 0
    BY <1>2, Zenon DEF FinishUpdates
  <2> QED
    BY <2>1
<1>3. ASSUME NEW c \in Callers, NEW r \in Requests, QueueUpdate(c, r)
      PROVE  BatchShape'
  BY <1>3, Zenon DEF QueueUpdate, threadVars
<1>4. ASSUME NEW c \in Callers, CallerStep(c) PROVE BatchShape'
  BY <1>4 DEF CallerStep, SignalUpdateThread, WaitReturns, InitialConfigApplied,
     CheckFibSynced, FibSynced, threadVars
<1>5. CASE SwitchInitialized \/ StopSwitch \/ StopThreads \/ SerializeState
           \/ NotifyInitialState \/ HwStateChangeThrows \/ TerminateLoop \/ UNCHANGED vars
  BY <1>5, Zenon DEF SwitchInitialized, StopSwitch, StopThreads, SerializeState,
     NotifyInitialState, HwStateChangeThrows, TerminateLoop, vars, threadVars
<1>6. CASE ApplyAlpmState \/ PrepareUpdate \/ CompareStates \/ AbortUpdate
           \/ HwStateChanged \/ PublishState
  BY <1>6, Zenon DEF ApplyAlpmState, PrepareUpdate, CompareStates, AbortUpdate,
     HwStateChanged, PublishState
<1> QED
  BY <1>1, <1>2, <1>3, <1>4, <1>5, <1>6 DEF Next, UpdateThread

(* init()'s callbacks are over once and for all.                           *)
LEMMA InBootBefore ==
  ASSUME TypeOK, QueueInv, BatchShape, [Next]_vars, InBoot' PROVE InBoot
<1> USE DEF InBoot
<1>1. CASE SplicePendingUpdates
  BY <1>1, Zenon DEF SplicePendingUpdates
<1>2. CASE NotifyInitialState \/ ApplyAlpmState
  BY <1>2, Zenon DEF NotifyInitialState, ApplyAlpmState
<1>3. CASE CompareStates \/ PrepareUpdate
  BY <1>3, Zenon DEF CompareStates, PrepareUpdate, BatchShape
<1>4. CASE AbortUpdate \/ HwStateChanged \/ PublishState \/ FinishUpdates
  BY <1>4, Zenon DEF AbortUpdate, HwStateChanged, PublishState, FinishUpdates
<1>5. ASSUME NEW c \in Callers, NEW r \in Requests, QueueUpdate(c, r)
      PROVE  InBoot
  BY <1>5 DEF QueueUpdate, threadVars
<1>6. ASSUME NEW c \in Callers, CallerStep(c) PROVE InBoot
  BY <1>6, Zenon DEF CallerStep, SignalUpdateThread, WaitReturns, InitialConfigApplied,
     CheckFibSynced, FibSynced, threadVars
<1>7. CASE SwitchInitialized \/ StopSwitch \/ StopThreads \/ SerializeState
           \/ HwStateChangeThrows \/ TerminateLoop \/ UNCHANGED vars
  BY <1>7 DEF SwitchInitialized, StopSwitch, StopThreads, SerializeState,
     HwStateChangeThrows, TerminateLoop, vars, threadVars
<1> QED
  BY <1>1, <1>2, <1>3, <1>4, <1>5, <1>6, <1>7, Zenon DEF Next, UpdateThread

(* BootInv is inductive.                                                   *)
LEMMA BootStep ==
  ASSUME TypeOK, QueueInv, BatchShape, BootInv, [Next]_vars PROVE BootInv'
<1> SUFFICES ASSUME InBoot' PROVE BootInv'
  BY Zenon DEF BootInv
<1>0. /\ runState \in {UNINITIALIZED, INITIALIZED}
      /\ \A i \in Ids : outcome[i] = "none"
      /\ \A c \in Callers : /\ caller[c].pc \notin {"configured", "synced", "marking"}
                            /\ caller[c].pc # "idle" => caller[c].id \in Ids
  BY InBootBefore, Zenon DEF BootInv
<1> USE DEF BootInv
<1>1. CASE SwitchInitialized
  BY <1>0, <1>1, Zenon DEF SwitchInitialized, SetSwitchRunState, callerVars
<1>2. CASE StopSwitch
  <2>1. {UNINITIALIZED, INITIALIZED} \cap {CONFIGURED, FIB_SYNCED} = {}
    BY DEF UNINITIALIZED, INITIALIZED, CONFIGURED, FIB_SYNCED
  <2> QED
    BY <1>0, <1>2, <2>1, Zenon DEF StopSwitch
<1>3. ASSUME NEW c \in Callers, NEW r \in Requests, QueueUpdate(c, r)
      PROVE  BootInv'
  <2>1. submitted + 1 \in Ids
    BY <1>3, ConstantsAssumption, SMT, Z3 DEF QueueUpdate, TypeOK, Ids
  <2>2. \A d \in Callers : \/ caller'[d].pc = "pushed" /\ caller'[d].id = submitted + 1
                           \/ caller'[d] = caller[d]
    BY <1>3, Zenon DEF QueueUpdate, TypeOK
  <2> QED
    BY <1>0, <1>3, <2>1, <2>2, Zenon, SMT DEF QueueUpdate
<1>4. ASSUME NEW c \in Callers, CallerStep(c) PROVE BootInv'
  <2>1. caller[c].pc \notin {"configured", "synced", "marking"}
    BY <1>0
  <2>2. CASE SignalUpdateThread(c)
    <3>1. \A d \in Callers : \/ /\ caller'[d].pc \in {"waiting", "idle"}
                                /\ caller'[d].id = caller[d].id /\ caller[d].pc = "pushed"
                             \/ caller'[d] = caller[d]
      BY <2>2, Zenon DEF SignalUpdateThread, TypeOK, CallerStates
    <3> QED
      BY <1>0, <2>2, <3>1 DEF SignalUpdateThread
  <2>3. CASE WaitReturns(c)
    <3>1. caller[c].id \in Ids
      BY <1>0, <2>3 DEF WaitReturns
    <3> QED
      BY <1>0, <2>3, <3>1 DEF WaitReturns
  <2> QED
    BY <1>4, <2>1, <2>2, <2>3, Zenon DEF CallerStep, InitialConfigApplied, CheckFibSynced, FibSynced
<1>5. CASE StopThreads \/ SerializeState \/ NotifyInitialState \/ ApplyAlpmState
           \/ SplicePendingUpdates \/ CompareStates \/ AbortUpdate \/ HwStateChanged
           \/ HwStateChangeThrows \/ PublishState \/ TerminateLoop
  BY <1>0, <1>5, Zenon DEF StopThreads, SerializeState, NotifyInitialState, ApplyAlpmState,
     SplicePendingUpdates, CompareStates, AbortUpdate, HwStateChanged,
     HwStateChangeThrows, PublishState, TerminateLoop, callerVars
<1>6. CASE PrepareUpdate \/ FinishUpdates
  <2>1. boot' = <<>> /\ pc' \in {"prepare", "idle"}
    BY <1>6, Zenon DEF PrepareUpdate, FinishUpdates, QueueInv
  <2> QED
    BY <2>1 DEF InBoot
<1>7. CASE UNCHANGED vars
  BY <1>0, <1>7 DEF vars, callerVars
<1> QED
  BY <1>1, <1>2, <1>3, <1>4, <1>5, <1>6, <1>7, Zenon DEF Next, UpdateThread

(* Where the thread and the desired state stand still, so does WorkInv.    *)
LEMMA WorkFrame ==
  ASSUME TypeOK, WorkInv, [Next]_vars, UNCHANGED <<threadVars, desired>>
  PROVE  WorkInv'
<1>1. Live' => Live
  BY LiveBefore, Zenon
<1>2. UNCHANGED <<pc, batch, at, work, desired>>
  BY Zenon DEF threadVars
<1>3. UNCHANGED <<Run, Unsynced(batch), Head(batch)>>
  BY <1>2, Zenon DEF Run, Unsynced
<1> QED
  BY <1>1, <1>2, <1>3, Zenon DEF WorkInv

(* At the end of the loop every update of the batch has been written.      *)
LEMMA BatchRun ==
  ASSUME TypeOK, BatchShape, WorkInv, Live, pc = "prepare", at > Len(batch)
  PROVE  work.tree = Register!Written(desired.tree, Unsynced(batch), Len(Unsynced(batch)))
<1>0. batch \in Seq(Updates \union SyncUpdates) /\ at \in Nat
  BY Zenon DEF TypeOK
<1>1. /\ at = Len(batch) + 1 /\ batch # <<>>
      /\ Head(batch) = batch[1] /\ Len(batch) \in Nat /\ Len(batch) >= 1
  <2>1. batch # <<>> /\ at <= Len(batch) + 1 /\ at > Len(batch)
    BY Zenon DEF BatchShape, WorkInv
  <2>2. Head(batch) = batch[1] /\ Len(batch) \in Nat /\ Len(batch) >= 1
    BY <1>0, <2>1, UnsyncedParts, Zenon
  <2> QED
    BY <1>0, <2>1, <2>2
<1>2. work.tree = Register!Written(desired.tree, Unsynced(batch), Run)
  BY <1>1 DEF WorkInv
<1>3. Run = Len(Unsynced(batch))
  <2>1. IsSync(batch[1]) => Len(Unsynced(batch)) = Len(batch) - 1
    BY <1>0, <1>1, UnsyncedParts, Zenon
  <2>2. ~IsSync(batch[1]) => Unsynced(batch) = batch
    BY <1>0, UnsyncedParts, Zenon
  <2> QED
    BY <1>1, <2>1, <2>2 DEF Run
<1> QED
  BY <1>2, <1>3, Zenon

(* WorkInv is inductive, given that the sync update is held while applied  *)
(* and desired state differ.                                               *)
LEMMA WorkStep ==
  ASSUME TypeOK, QueueInv, DivergenceInv, BatchShape, WorkInv, [Next]_vars
  PROVE  WorkInv'
<1>0. /\ {work, applied, desired} \subseteq States
      /\ pending \in Seq(Updates \union SyncUpdates)
      /\ batch \in Seq(Updates \union SyncUpdates)
      /\ at \in Nat \ {0}
      /\ desired.tree \in Trees
  BY Zenon DEF TypeOK, States
<1>L. Live' => Live
  BY LiveBefore
<1>1. CASE SwitchInitialized \/ StopSwitch \/ StopThreads \/ SerializeState
           \/ NotifyInitialState \/ HwStateChangeThrows \/ TerminateLoop \/ UNCHANGED vars
  BY <1>1, WorkFrame, Zenon DEF SwitchInitialized, StopSwitch, StopThreads, SerializeState,
     NotifyInitialState, HwStateChangeThrows, TerminateLoop, vars, threadVars, stateVars
<1>2. ASSUME NEW c \in Callers, NEW r \in Requests, QueueUpdate(c, r) PROVE WorkInv'
  BY <1>2, WorkFrame, Zenon DEF QueueUpdate, threadVars, stateVars
<1>3. ASSUME NEW c \in Callers, CallerStep(c) PROVE WorkInv'
  BY <1>3, WorkFrame DEF CallerStep, SignalUpdateThread, WaitReturns,
     InitialConfigApplied, CheckFibSynced, FibSynced, threadVars, stateVars
<1>4. CASE ApplyAlpmState
  <2>1. batch' = <<>> /\ pc' = "apply" /\ work'.tree = AlpmTree(desired'.tree)
    BY <1>4 DEF ApplyAlpmState, QueueInv, stateVars
  <2> QED
    BY <2>1, Zenon DEF WorkInv
<1>5. CASE SplicePendingUpdates
  <2> SUFFICES ASSUME Live', pc' = "prepare"
               PROVE  /\ at' <= Len(batch') + 1
                      /\ IF IsSync(Head(batch')) /\ at' = 1
                         THEN Head(batch').state.tree = desired'.tree
                         ELSE work'.tree = Register!Written(desired'.tree, Unsynced(batch'), Run')
    BY <1>5, Zenon DEF WorkInv, SplicePendingUpdates, Run, Unsynced
  <2>1. pending # <<>> /\ at' = 1 /\ work' = applied /\ desired' = desired /\ IdleInv
    BY <1>5, <1>L, Zenon DEF SplicePendingUpdates, DivergenceInv, stateVars
  <2>2. batch' # <<>> /\ Len(batch') \in Nat /\ Len(batch') >= 1 /\ batch'[1] = pending[1]
    BY <1>5, <2>1, SplicedParts
  <2>3. Head(batch') = batch'[1] /\ Head(pending) = pending[1]
    BY <1>0, <2>1, <2>2
  <2>4. CASE IsSync(Head(batch'))
    BY <2>1, <2>2, <2>3, <2>4 DEF IdleInv, HeadIsSync
  <2>5. CASE ~IsSync(Head(batch'))
    <3>1. work'.tree = desired.tree
      BY <2>1, <2>2, <2>3, <2>5, Zenon DEF IdleInv, HeadIsSync
    <3>2. Run' = 0
      BY <2>1, <2>5 DEF Run
    <3> QED
      BY <1>0, <2>1, <2>2, <2>5, <3>1, <3>2, WrittenNone
  <2> QED
    BY <2>4, <2>5, Zenon
<1>6. CASE PrepareUpdate
  <2> SUFFICES ASSUME Live'
               PROVE  /\ at' <= Len(batch) + 1
                      /\ at' # 1
                      /\ work'.tree = Register!Written(desired.tree, Unsynced(batch), Run')
    BY <1>6, Zenon DEF WorkInv, PrepareUpdate, Run, Unsynced, stateVars
  <2> DEFINE u == batch[at]
  <2>1. /\ Live /\ pc = "prepare" /\ at <= Len(batch) /\ at' = at + 1 /\ batch' = batch
        /\ work' = ApplyFn(u, work) /\ batch # <<>>
    BY <1>6, <1>L, Zenon DEF PrepareUpdate, BatchShape
  <2>2. /\ Head(batch) = batch[1] /\ Len(batch) \in Nat /\ at \in 1..Len(batch)
        /\ u \in Updates \union SyncUpdates
    BY <1>0, <2>1, LenProperties, ElementOfSeq
  <2>3. CASE IsSync(Head(batch)) /\ at = 1
    <3>1. work'.tree = desired.tree
      BY <2>1, <2>2, <2>3, Zenon DEF WorkInv, ApplyFn
    <3>2. Run' = 0
      BY <2>1, <2>3 DEF Run
    <3> QED
      BY <1>0, <2>1, <2>2, <3>1, <3>2, WrittenNone, SMT, Z3
  <2>4. CASE ~(IsSync(Head(batch)) /\ at = 1)
    <3>1. work.tree = Register!Written(desired.tree, Unsynced(batch), Run)
      BY <2>1, <2>4, Zenon DEF WorkInv
    <3>2. ~IsSync(u)
      BY <2>1, <2>2, <2>4 DEF BatchShape
    <3>3. Run \in Nat /\ Run' = Run + 1 /\ Unsynced(batch)[Run + 1] = u
      <4>1. CASE IsSync(Head(batch))
        <5>1. at - 1 \in 1..(Len(batch) - 1) /\ Run = at - 2 /\ Run' = at - 1
          BY <2>1, <2>2, <2>4, <4>1 DEF Run
        <5>2. Unsynced(batch)[at - 1] = batch[(at - 1) + 1]
          BY <1>0, <2>1, <2>2, <4>1, <5>1, UnsyncedParts, Zenon
        <5> QED
          BY <2>2, <5>1, <5>2
      <4>2. CASE ~IsSync(Head(batch))
        <5>1. Unsynced(batch) = batch
          BY <1>0, <2>2, <4>2, UnsyncedParts, Zenon
        <5> QED
          BY <2>1, <2>2, <4>2, <5>1 DEF Run
      <4> QED
        BY <4>1, <4>2, Zenon
    <3>4. work'.tree = IF u.value = Bad THEN work.tree ELSE Put(work.tree, u)
      BY <2>1, <3>2, Zenon DEF ApplyFn, Throws
    <3> HIDE DEF u
    <3> DEFINE q == Unsynced(batch)
               w == Register!Written(desired.tree, q, Run)
    <3>5. Register!Written(desired.tree, q, Run + 1) =
            IF q[Run + 1].value = Bad THEN w
            ELSE [w EXCEPT ![q[Run + 1].entry] = q[Run + 1].value]
      BY <3>3, WrittenStep
    <3>6. work'.tree = Register!Written(desired.tree, q, Run + 1)
      BY <3>1, <3>3, <3>4, <3>5, Zenon DEF Put
    <3> QED
      BY <2>1, <2>2, <3>3, <3>6
  <2> QED
    BY <2>3, <2>4
<1>7. CASE CompareStates
  <2> SUFFICES ASSUME Live', pc' = "apply"
               PROVE  /\ batch # <<>>
                      /\ work.tree = Register!Written(desired.tree, Unsynced(batch),
                                                      Len(Unsynced(batch)))
    BY <1>7, Zenon DEF WorkInv, CompareStates, Unsynced, stateVars
  <2>1. Live /\ pc = "prepare" /\ at > Len(batch) /\ batch # <<>>
    BY <1>7, <1>L DEF CompareStates, BatchShape
  <2> QED
    BY <2>1, BatchRun
<1>8. CASE HwStateChanged
  BY <1>8, Zenon DEF HwStateChanged, WorkInv, Live, Unsynced
<1>9. CASE AbortUpdate \/ PublishState \/ FinishUpdates
  BY <1>9, Zenon DEF AbortUpdate, PublishState, FinishUpdates, WorkInv
<1> QED
  BY <1>1, <1>2, <1>3, <1>4, <1>5, <1>6, <1>7, <1>8, <1>9 DEF Next, UpdateThread

-----------------------------------------------------------------------------
(* Every step of SwSwitch is a step of the register, or none.              *)

Closed == isExiting \/ aborted

(* A switch that is closing stays closed.                                  *)
LEMMA ClosedForGood ==
  ASSUME TypeOK, [Next]_vars, Closed PROVE Closed'
  BY LiveBefore, Zenon DEF Live, Closed

(* A step that leaves register, queue and readiness alone may close it.    *)
LEMMA RegisterStutters ==
  ASSUME TypeOK, [Next]_vars, Visible' = Visible, desired'.tree = desired.tree,
         AlpmApplied' <=> AlpmApplied
  PROVE  [Register!RegNext]_(Register!regVars)
<1>1. CASE Closed \/ ~Closed'
  <2>1. Closed' <=> Closed
    BY <1>1, ClosedForGood
  <2> QED
    BY <2>1, Zenon DEF Register!regVars, Closed
<1>2. CASE ~Closed /\ Closed'
  BY <1>2, Zenon DEF Register!RegNext, Register!Close, Closed
<1> QED
  BY <1>1, <1>2

(* The prefix of a sequence, and what is behind it.                        *)
LEMMA Parts ==
  ASSUME NEW S, NEW a \in Seq(S), NEW b \in Seq(S)
  PROVE  /\ Len(a) \in 0..Len(a \o b) /\ Len(a) \in Nat
         /\ a # <<>> => Len(a) >= 1
         /\ a = <<>> => a \o b = b /\ Len(a) = 0
         /\ \A i \in 1..Len(a) : (a \o b)[i] = a[i]
         /\ SubSeq(a \o b, Len(a) + 1, Len(a \o b)) = b
<1> DEFINE c == a \o b
           d == SubSeq(c, Len(a) + 1, Len(c))
<1>1. /\ Len(a) \in Nat /\ Len(b) \in Nat
      /\ c \in Seq(S) /\ Len(c) = Len(a) + Len(b)
      /\ \A i \in 1..Len(a) : c[i] = a[i]
      /\ \A i \in (Len(a) + 1)..Len(c) : c[i] = b[i - Len(a)]
  BY ConcatProperties, LenProperties
<1>2. a # <<>> => Len(a) >= 1
  BY <1>1, EmptySeq
<1>3. a = <<>> => c = b /\ Len(a) = 0
  BY <1>1
<1>4. d = b
  <2> HIDE DEF c
  <2>1. \A i \in (Len(a) + 1)..Len(c) : c[i] \in S
    BY <1>1, ElementOfSeq
  <2>2. /\ d \in Seq(S) /\ Len(d) = Len(b)
        /\ \A i \in 1..Len(b) : d[i] = c[Len(a) + i]
    BY <1>1, <2>1, SubSeqProperties
  <2>3. \A i \in 1..Len(b) : d[i] = b[i]
    BY <1>1, <2>2
  <2> HIDE DEF d
  <2> QED
    BY <2>2, <2>3, SeqEqual, Zenon
<1> QED
  BY <1>1, <1>2, <1>3, <1>4, SMT, Z3

(* A batch leaves the queue and is written to the register in one step,    *)
(* or, when it holds nothing but the sync update, is no step.              *)
LEMMA RegisterCommits ==
  ASSUME TypeOK, BatchShape, batch # <<>>,
         AlpmApplied, AlpmApplied', Closed' <=> Closed,
         Visible = Unsynced(batch) \o pending, Visible' = pending,
         desired'.tree = Register!Written(desired.tree, Unsynced(batch), Len(Unsynced(batch)))
  PROVE  [Register!RegNext]_(Register!regVars)
<1> DEFINE b == Unsynced(batch)
           S == Updates \union SyncUpdates
<1>0. /\ batch \in Seq(S) /\ pending \in Seq(S) /\ b \in Seq(S)
      /\ desired.tree \in Trees
  BY UnsyncedParts, Zenon DEF TypeOK, States
<1>1. CASE b = <<>>
  <2>1. Visible' = Visible /\ Len(b) = 0
    BY <1>0, <1>1, Parts
  <2>2. desired'.tree = desired.tree
    BY <1>0, <2>1, WrittenNone, Zenon
  <2> QED
    BY <2>1, <2>2, Zenon DEF Register!regVars, Closed
<1>2. CASE b # <<>>
  <2>1. /\ Len(b) \in 1..Len(Visible)
        /\ \A i \in 1..Len(b) : Visible[i] = b[i]
        /\ Visible' = SubSeq(Visible, Len(b) + 1, Len(Visible))
    <3> HIDE DEF b, S
    <3>1. Len(b \o pending) \in Nat
      BY <1>0, ConcatProperties, LenProperties, Zenon
    <3> QED
      BY <1>0, <1>2, <3>1, Parts DEF b
  <2>2. ASSUME NEW i \in 1..(Len(b) - 1) PROVE Visible[i].kind \notin NoCoalesceKinds
    <3>1. Visible[i] = b[i] /\ Len(b) \in Nat
      BY <2>1
    <3>2. CASE IsSync(batch[1])
      <4>1. Len(b) = Len(batch) - 1 /\ b[i] = batch[i + 1] /\ Len(batch) \in Nat
        BY <1>0, <3>1, <3>2, UnsyncedParts
      <4> QED
        BY <3>1, <4>1 DEF BatchShape, AllowsCoalescing
    <3>3. CASE ~IsSync(batch[1])
      <4>1. b = batch
        BY <1>0, <3>3, UnsyncedParts
      <4> QED
        BY <3>1, <4>1, Zenon DEF BatchShape, AllowsCoalescing
    <3> QED
      BY <3>2, <3>3, Zenon
  <2>3. desired'.tree = Register!Written(desired.tree, Visible, Len(b))
    <3>1. Len(b) \in Nat /\ \A i \in 1..Len(b) : Visible[i] = b[i]
      BY <2>1
    <3> QED
      BY <3>1, WrittenAgree, Zenon
  <2> HIDE DEF b
  <2>4. Register!Commit
    BY <2>1, <2>2, <2>3, Zenon DEF Register!Commit, Register!Rest, Closed
  <2> QED
    BY <2>4, Zenon DEF Register!RegNext
<1> QED
  BY <1>1, <1>2, Zenon

(* An exiting switch drops a batch.                                        *)
LEMMA RegisterDiscards ==
  ASSUME TypeOK, Closed, Closed',
         Visible = Unsynced(batch) \o pending, Visible' = pending,
         desired'.tree = desired.tree, AlpmApplied' <=> AlpmApplied
  PROVE  [Register!RegNext]_(Register!regVars)
<1> DEFINE b == Unsynced(batch)
           S == Updates \union SyncUpdates
<1>0. pending \in Seq(S) /\ b \in Seq(S)
  BY UnsyncedParts DEF TypeOK
<1>1. CASE b = <<>>
  <2>1. Visible' = Visible
    BY <1>0, <1>1, Parts
  <2> QED
    BY <2>1, Zenon DEF Register!regVars, Closed
<1>2. CASE b # <<>>
  <2>1. /\ Len(b) \in 1..Len(Visible)
        /\ Visible' = SubSeq(Visible, Len(b) + 1, Len(Visible))
    <3> HIDE DEF b, S
    <3>1. Len(b \o pending) \in Nat
      BY <1>0, ConcatProperties, LenProperties
    <3> QED
      BY <1>0, <1>2, <3>1, Parts DEF b
  <2> HIDE DEF b
  <2>2. Register!Discard
    BY <2>1, Zenon DEF Register!Discard, Register!Rest, Closed
  <2> QED
    BY <2>2, Zenon DEF Register!RegNext
<1> QED
  BY <1>1, <1>2, Zenon

(* The queue of the register in each phase of the update thread.           *)
VisibleInv ==
  /\ pc = "idle" => Visible = Unsynced(pending)
  /\ pc \in {"prepare", "apply", "publish"} \/ (pc = "finish" /\ desired # work)
       => Visible = Unsynced(batch) \o pending
  /\ pc = "finish" /\ desired = work => Visible = pending

(* While a batch is being handled the queue holds no sync update.          *)
LEMMA NoSyncQueued ==
  ASSUME TypeOK, QueueInv, pc # "idle" PROVE Unsynced(pending) = pending
<1>1. pending \in Seq(Updates \union SyncUpdates)
  BY Zenon DEF TypeOK
<1>2. pending # <<>> => Len(pending) \in Nat /\ Len(pending) >= 1
  BY <1>1, UnsyncedParts, Zenon
<1>3. pending # <<>> => ~IsSync(pending[1])
  BY <1>2 DEF QueueInv, NoSyncFrom
<1> QED
  BY <1>1, <1>3, UnsyncedParts, Zenon

LEMMA VisibleInPhases ==
  ASSUME TypeOK, QueueInv PROVE VisibleInv
<1> DEFINE S == Updates \union SyncUpdates
<1>1. pending \in Seq(S) /\ Unsynced(pending) \in Seq(S)
  BY UnsyncedParts, Zenon DEF TypeOK
<1>2. pc # "idle" => Unsynced(pending) = pending
  BY NoSyncQueued
<1>3. Unsynced(<<>>) = <<>>
  BY DEF Unsynced
<1>4. CASE pc = "idle"
  <2>1. Uncommitted = <<>>
    BY <1>4, Zenon DEF Uncommitted
  <2>2. <<>> \o Unsynced(pending) = Unsynced(pending)
    BY <1>1
  <2> QED
    BY <1>3, <1>4, <2>1, <2>2, Zenon DEF Visible, VisibleInv
<1>5. CASE pc \in {"prepare", "apply", "publish"} \/ (pc = "finish" /\ desired # work)
  <2>1. Uncommitted = batch
    BY <1>5 DEF Uncommitted
  <2> QED
    BY <1>2, <1>5, <2>1 DEF Visible, VisibleInv
<1>6. CASE pc = "finish" /\ desired = work
  <2>1. Uncommitted = <<>>
    BY <1>6 DEF Uncommitted
  <2>2. <<>> \o pending = pending
    BY <1>1
  <2> QED
    BY <1>2, <1>3, <1>6, <2>1, <2>2, Zenon DEF Visible, VisibleInv
<1> QED
  BY <1>4, <1>5, <1>6, Zenon DEF TypeOK

(* updateState() appends to the register's queue.                          *)
LEMMA QueueUpdateSubmits ==
  ASSUME TypeOK, NEW c \in Callers, NEW r \in Requests, QueueUpdate(c, r)
  PROVE  Register!Submit
<1> DEFINE S == Updates \union SyncUpdates
           u == [id |-> submitted + 1, kind |-> r.kind, entry |-> r.entry,
                 value |-> r.value]
<1>1. ~IsSync(u) /\ u \in S
  <2>1. submitted + 1 \in Ids
    <3>1. submitted \in 0..MaxUpdates /\ submitted < MaxUpdates
      BY Zenon DEF QueueUpdate, TypeOK
    <3> QED
      BY <3>1, ConstantsAssumption DEF Ids
  <2> QED
    BY <2>1, ConstantsAssumption, Zenon
       DEF IsSync, Kinds, NoCoalesceKinds, BlockingKinds, Updates
<1>2. /\ pending \in Seq(S) /\ batch \in Seq(S) /\ pending' = Append(pending, u)
      /\ UNCHANGED <<pc, batch, work, desired>>
  BY DEF QueueUpdate, TypeOK, threadVars, stateVars
<1> HIDE DEF u, S
<1>3. Unsynced(pending') = Append(Unsynced(pending), u)
  <2>1. CASE pending = <<>>
    <3>1. pending' = <<u>> /\ <<u>> # <<>> /\ Head(<<u>>) = u
      BY <1>2, <2>1
    <3>2. Unsynced(pending') = pending' /\ Unsynced(pending) = pending
      BY <1>1, <2>1, <3>1, Zenon DEF Unsynced
    <3> QED
      BY <1>2, <3>2, Zenon
  <2>2. CASE pending # <<>>
    <3>1. pending' # <<>> /\ Head(pending') = Head(pending)
      BY <1>1, <1>2, <2>2
    <3>2. Tail(pending') = Append(Tail(pending), u)
      BY <1>1, <1>2, <2>2
    <3> QED
      BY <1>2, <2>2, <3>1, <3>2, Zenon DEF Unsynced
  <2> QED
    BY <2>1, <2>2
<1>4. Unsynced(Uncommitted)' = Unsynced(Uncommitted) /\ Unsynced(Uncommitted) \in Seq(S)
  <2>1. Uncommitted' = Uncommitted /\ Uncommitted \in Seq(S)
    <3>1. Uncommitted = batch \/ Uncommitted = <<>>
      BY DEF Uncommitted
    <3>2. Uncommitted' = Uncommitted
      BY <1>2 DEF Uncommitted
    <3>3. <<>> \in Seq(S)
      OBVIOUS
    <3> QED
      BY <1>2, <3>1, <3>2, <3>3, Zenon
  <2> QED
    BY <2>1, UnsyncedParts DEF Unsynced
<1> DEFINE a == Unsynced(Uncommitted)
           b == Unsynced(pending)
<1>5. Visible' = a \o Append(b, u) /\ Visible = a \o b /\ a \in Seq(S) /\ b \in Seq(S)
  BY <1>2, <1>3, <1>4, UnsyncedParts, Zenon DEF Visible
<1> HIDE DEF a, b
<1>6. Visible' = Append(Visible, u) /\ Visible \in Seq(S)
  BY <1>1, <1>5
<1>7. Len(Visible') = Len(Visible) + 1 /\ Visible = SubSeq(Visible', 1, Len(Visible))
  BY <1>1, <1>6, AtTheBack, Zenon
<1> QED
  BY <1>7, Zenon DEF Register!Submit, QueueUpdate, AlpmApplied, threadVars, stateVars, isExiting

(* Splicing moves updates from the queue to the batch, and none past       *)
(* another.                                                                *)
LEMMA SpliceIsInvisible ==
  ASSUME TypeOK, QueueInv, SplicePendingUpdates, pending # <<>>,
         NEW S, pending \in Seq(S), batch' \in Seq(S), pending' \in Seq(S)
  PROVE  Unsynced(batch') \o pending' = Unsynced(pending)
<1> DEFINE n == Len(batch')
           b == Unsynced(batch')
           p == Unsynced(pending)
           k == IF IsSync(pending[1]) THEN 1 ELSE 0
<1>1. /\ Len(pending) \in Nat /\ n \in 1..Len(pending) /\ batch' # <<>>
      /\ Len(pending') = Len(pending) - n
      /\ \A i \in 1..n : batch'[i] = pending[i]
      /\ \A i \in 1..Len(pending') : pending'[i] = pending[n + i]
  BY SplicedParts
<1>2. /\ p \in Seq(S) /\ Len(p) = Len(pending) - k
      /\ \A i \in 1..Len(p) : p[i] = pending[i + k]
  BY UnsyncedShift
<1>3. /\ b \in Seq(S) /\ Len(b) = n - k
      /\ \A i \in 1..Len(b) : b[i] = batch'[i + k]
  <2> DEFINE q == batch'
  <2>1. q \in Seq(S) /\ q # <<>> /\ k = IF IsSync(q[1]) THEN 1 ELSE 0
    BY <1>1
  <2>2. b = Unsynced(q) /\ n = Len(q)
    BY Zenon
  <2> HIDE DEF q, k, b, n
  <2>3. /\ Unsynced(q) \in Seq(S) /\ Len(Unsynced(q)) = Len(q) - k
        /\ \A i \in 1..Len(Unsynced(q)) : Unsynced(q)[i] = q[i + k]
    BY <2>1, UnsyncedShift
  <2> QED
    BY <2>2, <2>3, Zenon DEF q
<1> HIDE DEF b, p, n
<1>4. k \in 0..1
  OBVIOUS
<1> HIDE DEF k
<1>5. /\ b \o pending' \in Seq(S)
      /\ Len(b \o pending') = Len(p)
      /\ \A i \in 1..Len(b) : (b \o pending')[i] = b[i]
      /\ \A i \in (Len(b) + 1)..Len(p) : (b \o pending')[i] = pending'[i - Len(b)]
  <2>1. /\ b \o pending' \in Seq(S)
        /\ Len(b \o pending') = Len(b) + Len(pending')
        /\ \A i \in 1..Len(b) : (b \o pending')[i] = b[i]
        /\ \A i \in (Len(b) + 1)..Len(b \o pending') : (b \o pending')[i] = pending'[i - Len(b)]
    <3> DEFINE q == pending'
    <3>1. q \in Seq(S) /\ Len(b) \in Nat /\ Len(q) \in Nat
      BY <1>3, LenProperties
    <3> HIDE DEF q
    <3>2. /\ b \o q \in Seq(S) /\ Len(b \o q) = Len(b) + Len(q)
          /\ \A i \in 1..(Len(b) + Len(q)) :
               (b \o q)[i] = IF i <= Len(b) THEN b[i] ELSE q[i - Len(b)]
      BY <1>3, <3>1, ConcatProperties, Zenon
    <3>3. /\ \A i \in 1..Len(b) : (b \o q)[i] = b[i]
          /\ \A i \in (Len(b) + 1)..Len(b \o q) : (b \o q)[i] = q[i - Len(b)]
      BY <3>1, <3>2
    <3> QED
      BY <3>2, <3>3, Zenon DEF q
  <2>2. Len(b) + Len(pending') = Len(p)
    BY <1>1, <1>2, <1>3, <1>4
  <2> QED
    BY <2>1, <2>2, Zenon
<1>6. ASSUME NEW i \in 1..Len(p) PROVE (b \o pending')[i] = p[i]
  <2>1. CASE i <= Len(b)
    BY <1>1, <1>2, <1>3, <1>4, <1>5, <2>1
  <2>2. CASE i > Len(b)
    <3>1. (b \o pending')[i] = pending'[i - Len(b)] /\ i - Len(b) \in 1..Len(pending')
      BY <1>1, <1>2, <1>3, <1>4, <1>5, <2>2, SMTT(20)
    <3>2. pending'[i - Len(b)] = pending[n + (i - Len(b))]
      BY <1>1, <3>1, Zenon
    <3>3. n + (i - Len(b)) = i + k
      BY <1>1, <1>3, <1>4
    <3> QED
      BY <1>2, <3>1, <3>2, <3>3, Zenon
  <2> QED
    BY <1>1, <1>2, <1>3, <1>4, <2>1, <2>2
<1> QED
  BY <1>2, <1>5, <1>6, SeqEqual, Zenon DEF b, p

(* Every step of SwSwitch, one action after the other.                     *)
LEMMA RegisterStep ==
  ASSUME TypeOK, TypeOK', QueueInv, DivergenceInv, DivergenceInv', BootInv,
         BatchShape, WorkInv, VisibleInv, VisibleInv', [Next]_vars
  PROVE  [Register!RegNext]_(Register!regVars)
<1> DEFINE S == Updates \union SyncUpdates
<1>0. /\ pending \in Seq(S) /\ batch \in Seq(S) /\ boot \in BootQueues
      /\ desired.tree \in Trees
  BY Zenon DEF TypeOK, States
<1>1. CASE SwitchInitialized \/ StopSwitch \/ StopThreads \/ SerializeState
           \/ HwStateChangeThrows \/ TerminateLoop \/ UNCHANGED vars
  <2>1. UNCHANGED <<boot, pending, threadVars, stateVars>>
    BY <1>1, Zenon DEF SwitchInitialized, StopSwitch, StopThreads, SerializeState,
       HwStateChangeThrows, TerminateLoop, vars, queueVars
  <2> QED
    BY <2>1, RegisterStutters
       DEF Visible, Unsynced, Uncommitted, AlpmApplied, threadVars, stateVars
<1>2. ASSUME NEW c \in Callers, NEW r \in Requests, QueueUpdate(c, r)
      PROVE  [Register!RegNext]_(Register!regVars)
  BY <1>2, QueueUpdateSubmits, Zenon DEF Register!RegNext
<1>3. ASSUME NEW c \in Callers, CallerStep(c)
      PROVE  [Register!RegNext]_(Register!regVars)
  <2>1. UNCHANGED <<boot, pending, threadVars, stateVars>>
    BY <1>3, Zenon DEF CallerStep, SignalUpdateThread, WaitReturns, InitialConfigApplied,
       CheckFibSynced, FibSynced, queueVars
  <2> QED
    BY <2>1, RegisterStutters, Zenon
       DEF Visible, Unsynced, Uncommitted, AlpmApplied, threadVars, stateVars
<1>4. CASE NotifyInitialState
  <2>1. UNCHANGED <<pending, threadVars, stateVars>> /\ pc = "idle"
    BY <1>4, Zenon DEF NotifyInitialState, queueVars
  <2>2. AlpmApplied' <=> AlpmApplied
    <3>1. \/ boot = <<"notify">> /\ boot' = <<>>
          \/ boot \notin {<<"notify">>, <<>>} /\ boot' = <<"alpm">>
      <4>1. Tail(<<"notify">>) # <<"alpm">>
        OBVIOUS
      <4> QED
        BY <1>0, <1>4, <4>1, NotifyFirst, Zenon DEF NotifyInitialState
    <3>2. <<"alpm">> \notin {<<"notify">>, <<>>}
      BY Zenon
    <3> QED
      BY <2>1, <3>1, <3>2 DEF AlpmApplied, threadVars
  <2> QED
    BY <2>1, <2>2, RegisterStutters, Zenon DEF Visible, Unsynced, Uncommitted, threadVars, stateVars
<1>5. CASE ApplyAlpmState
  <2>1. /\ boot = <<"alpm">> /\ batch = <<>> /\ batch' = <<>> /\ pc = "idle" /\ pc' = "apply"
        /\ UNCHANGED <<pending, desired>>
    BY <1>0, <1>5, BootQueue, Zenon DEF ApplyAlpmState, QueueInv, queueVars, stateVars
  <2>2. ~AlpmApplied /\ ~AlpmApplied'
    <3>1. <<"alpm">> \notin {<<"notify">>, <<>>}
      BY Zenon
    <3> QED
      BY <2>1, <3>1, Zenon DEF AlpmApplied
  <2>3. Visible' = Visible
    <3>1. Uncommitted = <<>> /\ Uncommitted' = <<>>
      BY <2>1, Zenon DEF Uncommitted
    <3> QED
      BY <2>1, <3>1 DEF Visible, Unsynced
  <2> QED
    BY <2>1, <2>2, <2>3, RegisterStutters
<1>6. CASE SplicePendingUpdates
  <2>1. pc = "idle" /\ boot = <<>> /\ UNCHANGED <<boot, desired>> /\ Visible = Unsynced(pending)
    BY <1>6, Zenon DEF SplicePendingUpdates, VisibleInv, stateVars
  <2>2. AlpmApplied /\ AlpmApplied'
    BY <1>6, <2>1, Zenon DEF SplicePendingUpdates, AlpmApplied
  <2>3. Visible' = Visible
    <3>1. CASE pending = <<>>
      <4>1. pc' = "idle" /\ pending' = <<>>
        <5>1. Len(pending') = 0 /\ pending' \in Seq(S)
          BY <1>6, <3>1, SplicedParts DEF TypeOK
        <5> QED
          BY <1>6, <3>1, <5>1, EmptySeq, Zenon, SMT DEF SplicePendingUpdates
      <4> QED
        BY <2>1, <3>1, <4>1, Zenon DEF VisibleInv
    <3>2. CASE pending # <<>>
      <4>1. Visible' = Unsynced(batch') \o pending'
        BY <1>6, <3>2, Zenon DEF SplicePendingUpdates, VisibleInv
      <4>2. batch' \in Seq(S) /\ pending' \in Seq(S)
        BY Zenon DEF TypeOK
      <4> QED
        BY <1>0, <1>6, <2>1, <3>2, <4>1, <4>2, SpliceIsInvisible
    <3> QED
      BY <3>1, <3>2, Zenon
  <2> QED
    BY <2>1, <2>2, <2>3, RegisterStutters, Zenon
<1>7. CASE PrepareUpdate
  <2>1. pc = "prepare" /\ UNCHANGED <<boot, pc, pending, batch, desired>>
    BY <1>7, Zenon DEF PrepareUpdate, queueVars, stateVars
  <2>2. Visible' = Visible
    BY <2>1 DEF VisibleInv, Unsynced
  <2> QED
    BY <2>1, <2>2, RegisterStutters, Zenon DEF AlpmApplied
<1>8. CASE CompareStates
  <2>1. /\ pc = "prepare" /\ boot = <<>> /\ batch # <<>> /\ pc' \in {"apply", "finish"}
        /\ UNCHANGED <<runState, aborted, boot, pending, batch, work, desired>>
        /\ Visible = Unsynced(batch) \o pending
    BY <1>8, Zenon DEF CompareStates, QueueInv, BatchShape, VisibleInv, queueVars, stateVars
  <2>2. AlpmApplied /\ AlpmApplied' /\ (Closed' <=> Closed)
    BY <2>1, Zenon DEF AlpmApplied, Closed, isExiting
  <2>3. CASE Visible' = Visible
    BY <2>1, <2>2, <2>3, RegisterStutters, Zenon
  <2>4. CASE Visible' # Visible
    <3>1. Visible' = pending /\ desired = work
      BY <2>1, <2>4, Zenon DEF VisibleInv, Unsynced
    <3>2. CASE Live
      <4>1. work.tree = Register!Written(desired.tree, Unsynced(batch), Len(Unsynced(batch)))
        BY <1>8, <3>2, BatchRun, Zenon DEF CompareStates
      <4> QED
        BY <2>1, <2>2, <3>1, <4>1, RegisterCommits, Zenon
    <3>3. CASE ~Live
      BY <2>1, <2>2, <3>1, <3>3, RegisterDiscards, Zenon DEF Live, Closed
    <3> QED
      BY <3>2, <3>3, Zenon
  <2> QED
    BY <2>3, <2>4, Zenon
<1>9. CASE AbortUpdate
  <2>1. /\ pc = "apply" /\ pc' = "finish" /\ boot = <<>> /\ isExiting
        /\ UNCHANGED <<runState, aborted, boot, pending, batch, work, desired>>
        /\ Visible = Unsynced(batch) \o pending
    BY <1>9, Zenon DEF AbortUpdate, QueueInv, VisibleInv, queueVars, stateVars
  <2>2. batch # <<>>
    BY <2>1 DEF BootInv, InBoot, isExiting, EXITING, UNINITIALIZED, INITIALIZED
  <2>3. AlpmApplied /\ AlpmApplied' /\ Closed /\ Closed'
    BY <2>1, <2>2, Zenon DEF AlpmApplied, Closed, isExiting
  <2>4. Visible' = Visible \/ Visible' = pending
    BY <2>1, Zenon DEF VisibleInv, Unsynced
  <2> QED
    BY <2>1, <2>3, <2>4, RegisterStutters, RegisterDiscards, Zenon
<1>10. CASE HwStateChanged
  <2>1. pc = "apply" /\ pc' = "publish" /\ UNCHANGED <<boot, pending, batch, desired>>
    BY <1>10, Zenon DEF HwStateChanged, queueVars
  <2>2. Visible = Unsynced(batch) \o pending
    BY <2>1, Zenon DEF VisibleInv
  <2>3. Visible' = Unsynced(batch') \o pending'
    BY <2>1, Zenon DEF VisibleInv
  <2>4. Visible' = Visible
    BY <2>1, <2>2, <2>3, Zenon
  <2> QED
    BY <2>1, <2>4, RegisterStutters, Zenon DEF AlpmApplied
<1>11. CASE PublishState
  <2>1. /\ pc = "publish" /\ pc' = "finish" /\ boot = <<>> /\ desired' = work /\ work' = work
        /\ UNCHANGED <<runState, aborted, boot, pending, batch>>
        /\ Visible = Unsynced(batch) \o pending
    BY <1>11, Zenon DEF PublishState, QueueInv, VisibleInv, queueVars
  <2>2. Visible' = pending /\ AlpmApplied' /\ (Closed' <=> Closed)
    BY <2>1, Zenon DEF VisibleInv, AlpmApplied, Closed, isExiting
  <2>3. CASE batch = <<>>
    <3>1. Visible = pending /\ ~AlpmApplied
      BY <1>0, <2>1, <2>3 DEF Unsynced, AlpmApplied
    <3>2. desired'.tree = AlpmTree(desired.tree)
      BY <2>1, <2>3, Zenon DEF WorkInv
    <3> QED
      BY <2>2, <3>1, <3>2, Zenon DEF Register!RegNext, Register!AddDefaults, Closed
  <2>4. CASE batch # <<>>
    <3>1. AlpmApplied
      BY <2>1, <2>4 DEF AlpmApplied
    <3>2. desired'.tree = Register!Written(desired.tree, Unsynced(batch), Len(Unsynced(batch)))
      BY <2>1, <2>4, Zenon DEF WorkInv
    <3> QED
      BY <2>1, <2>2, <2>4, <3>1, <3>2, RegisterCommits, Zenon
  <2> QED
    BY <2>3, <2>4, Zenon
<1>12. CASE FinishUpdates
  <2>1. /\ pc = "finish" /\ pc' = "idle" /\ boot = <<>>
        /\ UNCHANGED <<runState, aborted, boot, desired>>
    BY <1>12, Zenon DEF FinishUpdates, QueueInv, stateVars
  <2>2. AlpmApplied /\ AlpmApplied' /\ (Closed' <=> Closed)
    BY <2>1, Zenon DEF AlpmApplied, Closed, isExiting
  <2>3. Visible' = pending
    <3>1. Visible' = Unsynced(pending')
      BY <2>1, Zenon DEF VisibleInv
    <3>2. Unsynced(pending) = pending
      BY <2>1, NoSyncQueued, Zenon
    <3>3. CASE pending' = pending
      BY <3>1, <3>2, <3>3, Zenon
    <3>4. CASE pending' # pending
      <4> DEFINE u == SyncUpdate(work, result)
      <4>1. pending' = <<u>> \o pending /\ IsSync(u)
        BY <1>12, <3>4, Zenon DEF FinishUpdates, QueueForSync, SyncUpdate, IsSync
      <4> HIDE DEF u
      <4>2. /\ <<u>> \o pending # <<>> /\ Head(<<u>> \o pending) = u
            /\ Tail(<<u>> \o pending) = pending
        BY <1>0
      <4> QED
        BY <3>1, <4>1, <4>2, Zenon DEF Unsynced
    <3> QED
      BY <3>3, <3>4, Zenon
  <2>4. CASE desired = work
    BY <2>1, <2>2, <2>3, <2>4, RegisterStutters, Zenon DEF VisibleInv
  <2>5. CASE desired # work
    <3>1. Closed
      BY <2>1, <2>5, Zenon DEF DivergenceInv, Live, Closed
    <3>2. Visible = Unsynced(batch) \o pending
      BY <2>1, <2>5, Zenon DEF VisibleInv
    <3> QED
      BY <2>1, <2>2, <2>3, <3>1, <3>2, RegisterDiscards
  <2> QED
    BY <2>4, <2>5, Zenon
<1> QED
  BY <1>1, <1>2, <1>3, <1>4, <1>5, <1>6, <1>7, <1>8, <1>9, <1>10, <1>11, <1>12
     DEF Next, UpdateThread

(* The initial states of SwSwitch are initial states of the register: the  *)
(* ALPM callback is queued exactly when a default route is missing.        *)
LEMMA RegisterStarts == ASSUME Init PROVE Register!RegInit
<1>1. PICK t \in BootTrees :
        /\ desired = [tree |-> t, gen |-> 0]
        /\ boot = IF AlpmTree(t) = t THEN <<"notify">> ELSE <<"notify", "alpm">>
  BY Zenon DEF Init
<1>2. Visible = <<>>
  <2>1. Uncommitted = <<>> /\ pending = <<>>
    BY Zenon DEF Init, Uncommitted
  <2> QED
    BY <2>1 DEF Visible, Unsynced
<1>3. AlpmApplied => AlpmTree(desired.tree) = desired.tree
  <2>1. <<"notify", "alpm">> \notin {<<"notify">>, <<>>}
    BY Zenon
  <2> QED
    BY <1>1, <2>1 DEF AlpmApplied
<1>4. ~(isExiting \/ aborted)
  BY DEF Init, isExiting, EXITING, UNINITIALIZED
<1>5. AlpmApplied \in BOOLEAN
  BY DEF AlpmApplied
<1> QED
  BY <1>2, <1>3, <1>4, <1>5 DEF Register!RegInit

(* The pipeline of SwSwitch implements the register: whatever the hardware *)
(* rejects, however updates are coalesced and whenever the switch exits,   *)
(* updates reach the desired state in queue order, each exactly once and a *)
(* batch at a time, and only an exiting switch drops any.  As in           *)
(* NoUpdateLost, full tables must not reject an ALPM default route.        *)
THEOREM SwSwitchImplementsRegister ==
  ASSUME AlpmRoutes \cap Rejectable = {}
  PROVE  Spec => ImplementsRegister
<1>1. Init => BatchShape /\ BootInv /\ WorkInv
  <2>1. Init => BatchShape
    <3>1. Init => batch = <<>> /\ pc = "idle"
      BY Zenon DEF Init
    <3> QED
      BY <3>1 DEF BatchShape
  <2>2. Init => BootInv
    BY DEF Init, BootInv
  <2>3. Init => WorkInv
    BY Zenon DEF Init, WorkInv
  <2> QED
    BY <2>1, <2>2, <2>3, Zenon
<1>2. TypeOK /\ QueueInv /\ BatchShape /\ [Next]_vars => BatchShape'
  BY BatchShapeStep, Zenon
<1>3. TypeOK /\ QueueInv /\ BatchShape /\ BootInv /\ [Next]_vars => BootInv'
  BY BootStep, Zenon
<1>4. TypeOK /\ QueueInv /\ DivergenceInv /\ BatchShape /\ WorkInv /\ [Next]_vars => WorkInv'
  BY WorkStep
<1>5. TypeOK /\ QueueInv => VisibleInv
  BY VisibleInPhases, Zenon
<1>6. /\ TypeOK /\ TypeOK' /\ QueueInv /\ DivergenceInv /\ DivergenceInv' /\ BootInv
      /\ BatchShape /\ WorkInv /\ VisibleInv /\ VisibleInv' /\ [Next]_vars
      => [Register!RegNext]_(Register!regVars)
  BY RegisterStep
<1>7. Init => Register!RegInit
  BY RegisterStarts
<1> QED
  BY <1>1, <1>2, <1>3, <1>4, <1>5, <1>6, <1>7, TypeCorrect, QueueInvariant,
     DivergenceInvariant, PTL DEF Spec, ImplementsRegister, Register!RegSpec

=============================================================================
