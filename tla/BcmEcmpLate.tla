------------------------------ MODULE BcmEcmpLate ------------------------------
(***************************************************************************)
(* BcmEcmp with a history variable.  An ARP reply or a neighbour           *)
(* advertisement that was received before its port went down may be        *)
(* handled after NeighborCacheImpl::portDown(): the entry it makes is      *)
(* resolved over a dead link, and nothing in the code has to end that,     *)
(* since a STALE entry that is not hit is neither probed nor removed       *)
(* (NeighborCacheEntry::runStateMachine()).  `late' holds the neighbours   *)
(* whose entry was made that way, as long as they have it.                 *)
(***************************************************************************)
EXTENDS BcmEcmp

VARIABLE late

LateInit == Init /\ late = {}

LateNext ==
  /\ Next
  /\ late' = {n \in Neighbors :
                /\ cache'[n] \in Ports /\ ~link'[cache'[n]]
                /\ n \in late \/ cache'[n] # cache[n]}

LateSpec == LateInit /\ [][LateNext]_<<vars, late>> /\ Fairness

-----------------------------------------------------------------------------
(* Properties *)

\* Once a link stays down, the groups end up without the egresses that go over
\* it, whatever routes, answers and flushes come in between, except for those of
\* neighbours resolved by a late answer (linkStateChangedHwNotLocked(),
\* NeighborCacheImpl::portDown(), BcmEcmpEgress::program()).
DownPortLeavesGroups ==
  \A p \in Ports :
    <>[](~link[p]) => <>[](\A g \in DOMAIN ecmp : ecmp[g] \cap portMap[p] \subseteq late)

=============================================================================
