------------------------- MODULE SwSwitchRefinement -------------------------
(***************************************************************************)
(* SwSwitch implements SwitchStateRegister.  The register is the tree of   *)
(* the desired state; the queue is what is pending, behind the updates of  *)
(* the batch that has been spliced but has not reached setStateInternal(). *)
(* The update for getting the hardware in sync is not visible.             *)
(***************************************************************************)
EXTENDS SwSwitch

Uncommitted ==
  CASE pc \in {"prepare", "apply", "publish"} -> batch
    [] pc = "finish" /\ desired # work        -> batch
    [] OTHER                                  -> <<>>

(* The update for getting the hardware in sync is never behind another.    *)
Unsynced(q) == IF q # <<>> /\ IsSync(Head(q)) THEN Tail(q) ELSE q

Visible == Unsynced(Uncommitted) \o Unsynced(pending)

AlpmApplied ==
  /\ boot \in {<<"notify">>, <<>>}
  /\ ~(batch = <<>> /\ pc \in {"apply", "publish"})

Register == INSTANCE SwitchStateRegister WITH
  queue <- Visible,
  tree <- desired.tree,
  ready <- AlpmApplied,
  closed <- isExiting \/ aborted,
  WithDefaults <- AlpmTree

(* handlePendingUpdates() takes the queue in order, in batches that end at *)
(* an update that forbids coalescing, and each batch reaches the desired   *)
(* state as one step, whether the hardware accepts, rejects or has to be   *)
(* brought in sync first; only an exiting switch drops updates.            *)
ImplementsRegister == Register!RegSpec
=============================================================================
