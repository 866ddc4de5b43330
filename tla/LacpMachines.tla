----------------------------- MODULE LacpMachines -----------------------------
(***************************************************************************)
(* The state machines of one LacpController (fboss/agent/LacpMachines.cpp, *)
(* fboss/agent/LacpController.cpp): mux, transmit and periodic machine,    *)
(* and the part of the receive machine that touches its own port only.     *)
(*                                                                         *)
(* All of them run on the LACP event base, so a handler is a composition   *)
(* of functions on the controller's record.  The record also carries what  *)
(* the servicer (LinkAggregationManager) does for the controller: `wire',  *)
(* the LACPDUs transmitted and not yet received by the peer, and           *)
(* `forwarding', the subport's forwarding state once the queued updates    *)
(* are applied (they are applied in order, see SwSwitch).                  *)
(*                                                                         *)
(* A set of LacpState bits is a set of their names.  The identity part of  *)
(* a ParticipantInfo (system, key, port and their priorities) is the port. *)
(***************************************************************************)
EXTENDS Integers, Sequences, FiniteSets

CONSTANTS
  Ports,          \* the ports running LACP (of one switch, or of two linked ones)
  Strangers,      \* partner systems outside the model: each stands for its port on a link
  NoPort,         \* the all-zero identity of a default ParticipantInfo
  Lag,            \* [port -> (system, key)]: what two ports of one LAG share
  Passive,        \* ports configured with LacpPortActivity::PASSIVE
  MAX_TRANSMISSIONS_IN_SHORT_PERIOD,
  WireCapacity    \* bound: LACPDUs in flight in one direction of a link

Ids == Ports \cup Strangers \cup {NoPort}

ASSUME MachinesAssumption ==
  /\ IsFiniteSet(Ports) /\ NoPort \notin Ports \cup Strangers
  /\ Ports \cap Strangers = {}
  /\ DOMAIN Lag = Ids
  /\ Passive \subseteq Ports
  /\ MAX_TRANSMISSIONS_IN_SHORT_PERIOD \in Nat \ {0}
  /\ WireCapacity \in Nat

LacpState == {"ACTIVE", "SHORT_TIMEOUT", "AGGREGATABLE", "IN_SYNC", "COLLECTING",
              "DISTRIBUTING", "DEFAULTED", "EXPIRED"}

\* ParticipantInfo(): every field zero
DefaultInfo == [id |-> NoPort, state |-> {}]

\* A controller as aggregatePortAdded() constructs it.
NewController(p) ==
  [id |-> p,
   actorState |-> {"AGGREGATABLE", "SHORT_TIMEOUT"}
                    \cup (IF p \in Passive THEN {} ELSE {"ACTIVE"}),
   partnerInfo |-> DefaultInfo,
   rx |-> "INITIALIZED", epoch |-> FALSE,
   mux |-> "DETACHED", matched |-> FALSE, chosen |-> FALSE, wait |-> FALSE,
   period |-> FALSE,
   transmissionsLeft |-> MAX_TRANSMISSIONS_IN_SHORT_PERIOD,
   noBuffer |-> FALSE, forwarding |-> FALSE, wire |-> << >>]

actorInfo(c) == [id |-> c.id, state |-> c.actorState]

-----------------------------------------------------------------------------
(* TransmitMachine *)

\* servicer_->transmit(): a frame that finds the wire full is lost.
transmit(c) ==
  IF Len(c.wire) < WireCapacity
    THEN Append(c.wire, [actorInfo |-> actorInfo(c), partnerInfo |-> c.partnerInfo])
    ELSE c.wire

\* LacpController::ntt and TransmitMachine::ntt
ntt(c) ==
  IF c.transmissionsLeft = 0 \/ c.noBuffer THEN c
  ELSE [c EXCEPT !.transmissionsLeft = @ - 1, !.wire = transmit(c)]

replenishTranmissionsLeft(c) ==
  [c EXCEPT !.transmissionsLeft =
     IF @ < MAX_TRANSMISSIONS_IN_SHORT_PERIOD THEN @ + 1 ELSE @]

-----------------------------------------------------------------------------
(* PeriodicTransmissionMachine: the rate (FAST or SLOW) is abstracted.     *)

\* determineTransmissionRate() is not NONE.
IsPeriodic(c) == "ACTIVE" \in c.actorState \cup c.partnerInfo.state

\* start() and portUp(): with no rate the timeout is left as it is.
startPeriodic(c) == IF IsPeriodic(c) THEN [c EXCEPT !.period = TRUE] ELSE c

periodicTimeout(c) == LET d == ntt(c) IN [d EXCEPT !.period = IsPeriodic(d)]

-----------------------------------------------------------------------------
(* MuxMachine *)

\* The update programs the subport named by selection_, if there is one.
SetForwarding(c, fwd) == IF c.chosen THEN [c EXCEPT !.forwarding = fwd] ELSE c

detached(c) ==
  ntt([SetForwarding(c, FALSE) EXCEPT
         !.mux = "DETACHED", !.actorState = @ \ {"IN_SYNC", "COLLECTING", "DISTRIBUTING"}])

attached(c) ==
  ntt([SetForwarding(c, FALSE) EXCEPT
         !.mux = "ATTACHED",
         !.actorState = (@ \cup {"IN_SYNC"}) \ {"COLLECTING", "DISTRIBUTING"}])

collectingDistributing(c) ==
  ntt([SetForwarding(c, TRUE) EXCEPT
         !.mux = "COLLECTING_DISTRIBUTING",
         !.actorState = @ \cup {"COLLECTING", "DISTRIBUTING"}])

waiting(c, shouldScheduleTimeout) ==
  [c EXCEPT !.mux = "WAITING", !.wait = @ \/ shouldScheduleTimeout]

muxSelected(c) ==
  LET d == [c EXCEPT !.chosen = TRUE] IN
  CASE c.mux = "DETACHED" -> waiting(d, TRUE)
    [] c.mux = "WAITING"  -> attached(d)
    [] OTHER              -> d

muxUnselected(c) ==
  CASE c.mux = "DETACHED"                -> c
    [] c.mux \in {"WAITING", "ATTACHED"} -> detached(c)
    [] OTHER                             -> attached(c)

muxStandby(c) ==
  CASE c.mux = "DETACHED" -> waiting(c, FALSE)
    [] c.mux = "WAITING"  -> c
    [] OTHER              -> detached(c)

\* The signal is remembered but does not move an ATTACHED mux.
matchedIgnored(c) == [c EXCEPT !.matched = TRUE]

matched(c) ==
  LET d == [c EXCEPT !.matched = TRUE] IN
  IF c.mux = "ATTACHED" THEN collectingDistributing(d) ELSE d

\* The mux left where it is when the partner falls out of sync.
notMatchedIgnored(c) == [c EXCEPT !.matched = FALSE]

notMatched(c) ==
  LET d == [c EXCEPT !.matched = FALSE] IN
  IF c.mux = "COLLECTING_DISTRIBUTING" THEN attached(d) ELSE d

muxTimeout(c) ==
  LET d == attached([c EXCEPT !.wait = FALSE]) IN
  IF d.matched THEN collectingDistributing(d) ELSE d

-----------------------------------------------------------------------------
(* ReceiveMachine: the states entered without the Selector's help *)

expired(c) ==
  LET d == notMatched([c EXCEPT !.rx = "EXPIRED",
                         !.partnerInfo.state = (@ \cup {"SHORT_TIMEOUT"}) \ {"IN_SYNC"}])
  IN [d EXCEPT !.actorState = @ \cup {"EXPIRED"}, !.epoch = TRUE]

disabled(c) ==
  notMatched([c EXCEPT !.rx = "DISABLED", !.epoch = FALSE,
                       !.partnerInfo.state = @ \ {"IN_SYNC"}])

recordDefault(c) ==
  [c EXCEPT !.partnerInfo = DefaultInfo, !.actorState = @ \cup {"DEFAULTED"}]

recordPDU(c, lacpdu) ==
  LET inSync == /\ \/ lacpdu.partnerInfo.id = c.id
                   \/ "AGGREGATABLE" \notin lacpdu.actorInfo.state
                /\ "IN_SYNC" \in lacpdu.actorInfo.state
      d == [c EXCEPT !.partnerInfo = lacpdu.actorInfo, !.actorState = @ \ {"DEFAULTED"}]
  IN IF inSync THEN matched(d)
     ELSE notMatched([d EXCEPT !.partnerInfo.state = @ \ {"IN_SYNC"}])

\* The partner's key and port are not compared.
AnyPartner(c, lacpdu) == c.partnerInfo # DefaultInfo

\* updateSelected(): the partner is still the one selected for.
SamePartner(c, lacpdu) ==
  /\ lacpdu.actorInfo.id = c.partnerInfo.id
  /\ "AGGREGATABLE" \in lacpdu.actorInfo.state <=> "AGGREGATABLE" \in c.partnerInfo.state

updateNTT(c, lacpdu) == lacpdu.partnerInfo # actorInfo(c)

activityChanged(c, lacpdu) ==
  ("ACTIVE" \in lacpdu.actorInfo.state) # ("ACTIVE" \in c.partnerInfo.state)
=============================================================================
