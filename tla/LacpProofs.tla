------------------------------ MODULE LacpProofs ------------------------------
(***************************************************************************)
(* What the runs of Lacp check on small instances, for any ports, links,   *)
(* partners, LAGs and any number of faults: no CHECK of the LACP event     *)
(* base fails, a port that is down does not forward, a LAG has its minimum *)
(* of links, and a selection is the partner's.                             *)
(*                                                                         *)
(* The inductive invariant has a part for a controller (Safe and Steady),  *)
(* one for the selection table (Table), and one that ties a controller to  *)
(* its selection (Current).                                                *)
(***************************************************************************)
EXTENDS Lacp, FiniteSetTheorems, TLAPS

-----------------------------------------------------------------------------
(* A controller.                                                           *)

Infos == [id : Ids, state : SUBSET LacpState]

\* What a partner says of itself.
Actors == [id : Ports \cup Strangers, state : SUBSET LacpState]

Frames == [actorInfo : Actors, partnerInfo : Infos]

Fields ==
  {"id", "actorState", "partnerInfo", "rx", "epoch", "mux", "matched", "chosen", "wait",
   "period", "transmissionsLeft", "noBuffer", "forwarding", "wire"}

Base(c, p) ==
  /\ DOMAIN c = Fields /\ c.id = p
  /\ c.actorState \subseteq LacpState /\ "AGGREGATABLE" \in c.actorState
  /\ c.partnerInfo \in Infos
  /\ c.wire \in Seq(Frames)

\* The receive machine's timeout is set in two of its states only; a DISABLED one
\* has told the mux that the partner is out of sync.
Safe(c, p) ==
  /\ Base(c, p)
  /\ c.epoch => c.rx \in {"CURRENT", "EXPIRED"}
  /\ c.rx = "DISABLED" => ~c.matched /\ c.mux # "COLLECTING_DISTRIBUTING"

\* The mux programs the subport of a selection, so only one that has had one can
\* have made it forward.
Steady(c) == c.forwarding => c.chosen /\ c.mux = "COLLECTING_DISTRIBUTING"

-----------------------------------------------------------------------------
(* The selections.                                                         *)

GoodSelection(s, p) ==
  \/ s = NoSelection
  \/ /\ s = [lagID |-> s.lagID, state |-> s.state]
     /\ s.state \in {"STANDBY", "SELECTED"}
     /\ s.lagID.actor = Lag[p]

MinLinks(sel) ==
  \A p \in Ports : Aggregatable(sel[p]) /\ sel[p].state = "SELECTED" =>
    Cardinality({q \in Ports : sel[q] = sel[p]}) >= minLinkCount[p]

Table(sel) ==
  /\ DOMAIN sel = Ports
  /\ \A q \in Ports : GoodSelection(sel[q], q)
  /\ MinLinks(sel)

Current(w, p) == w.sel[p] # NoSelection => w.sel[p].lagID = targetLagID(w, p)

GoodWorld(w) ==
  /\ DOMAIN w = {"c", "sel", "ok"} /\ DOMAIN w.c = Ports
  /\ \A q \in Ports : Safe(w.c[q], q)
  /\ Table(w.sel)

Undisturbed ==
  /\ members = Ports /\ ~aborted
  /\ \A p \in Ports : /\ Steady(controller[p])
                      /\ ~up[p] => controller[p].rx \in {"INITIALIZED", "DISABLED"}

LacpInv ==
  /\ GoodWorld(World)
  /\ members \subseteq Ports /\ reconfigurations \in Nat
  /\ DOMAIN up = Ports
  /\ \A p \in members : Started(p) => Current(World, p)
  /\ reconfigurations = 0 => Undisturbed

-----------------------------------------------------------------------------
(* The machines of one controller.                                         *)

\* What the mux, transmit and periodic machines leave alone.
Keeps(c, d) == d.partnerInfo = c.partnerInfo /\ d.rx = c.rx /\ d.epoch = c.epoch

Mux(c, d) == d.mux = c.mux /\ d.matched = c.matched /\ d.chosen = c.chosen
             /\ d.forwarding = c.forwarding

Result(c, d, p) == Base(d, p) /\ Keeps(c, d) /\ (Steady(c) => Steady(d))

LEMMA TransmitType ==
  ASSUME NEW p \in Ports, NEW c, Base(c, p)
  PROVE  transmit(c) \in Seq(Frames)
<1> DEFINE a == actorInfo(c)
           f == [actorInfo |-> a, partnerInfo |-> c.partnerInfo]
<1>1. a \in Actors
  BY DEF Base, actorInfo, Actors
<1>2. f \in Frames
  <2> HIDE DEF a
  <2> QED BY <1>1 DEF Base, Frames
<1>3. c.wire \in Seq(Frames)
  BY DEF Base
<1>4. transmit(c) = IF Len(c.wire) < WireCapacity THEN Append(c.wire, f) ELSE c.wire
  BY DEF transmit
<1> HIDE DEF f
<1>5. Append(c.wire, f) \in Seq(Frames)
  BY <1>2, <1>3
<1> QED BY <1>3, <1>4, <1>5

LEMMA Ntt ==
  ASSUME NEW p \in Ports, NEW c, Base(c, p)
  PROVE  Result(c, ntt(c), p) /\ Mux(c, ntt(c))
<1> DEFINE v == transmit(c)
           e == [c EXCEPT !.transmissionsLeft = @ - 1, !.wire = v]
<1>1. ntt(c) = c \/ ntt(c) = e
  BY DEF ntt
<1>2. v \in Seq(Frames)
  BY TransmitType
<1>3. Result(c, c, p) /\ Mux(c, c)
  BY DEF Result, Keeps, Mux
<1> HIDE DEF v
<1>4. Base(e, p) /\ Keeps(c, e) /\ Mux(c, e)
  BY <1>2 DEF Base, Fields, Keeps, Mux
<1> HIDE DEF e
<1>5. Result(c, e, p)
  BY <1>4 DEF Result, Mux, Steady
<1> QED BY <1>1, <1>3, <1>4, <1>5

\* The mux programs the subport, moves to m and tells the partner.
Programmed(c, d, p, m) ==
  Result(c, d, p) /\ d.mux = m /\ d.matched = c.matched /\ d.chosen = c.chosen

LEMMA Program ==
  ASSUME NEW p \in Ports, NEW c, Base(c, p), NEW fwd \in BOOLEAN, NEW m,
         fwd => m = "COLLECTING_DISTRIBUTING",
         NEW a \in SUBSET LacpState, "AGGREGATABLE" \in a
  PROVE  Programmed(c, ntt([SetForwarding(c, fwd) EXCEPT !.mux = m, !.actorState = a]), p, m)
<1> DEFINE b == SetForwarding(c, fwd)
           e == [b EXCEPT !.mux = m, !.actorState = a]
           d == ntt(e)
<1>1. /\ Base(b, p) /\ Keeps(c, b) /\ b.matched = c.matched /\ b.chosen = c.chosen
      /\ b.forwarding = IF c.chosen THEN fwd ELSE c.forwarding
  BY DEF SetForwarding, Base, Fields, Keeps
<1> HIDE DEF b
<1>2. /\ Base(e, p) /\ Keeps(b, e) /\ e.matched = b.matched /\ e.chosen = b.chosen
      /\ e.forwarding = b.forwarding /\ e.mux = m
  BY <1>1 DEF Base, Fields, Keeps
<1>3. Steady(c) => Steady(e)
  BY <1>1, <1>2 DEF Steady
<1> HIDE DEF e
<1>4. Result(e, d, p) /\ Mux(e, d)
  BY <1>2, Ntt
<1> HIDE DEF d
<1>5. Programmed(c, d, p, m)
  BY <1>1, <1>2, <1>3, <1>4 DEF Programmed, Result, Keeps, Mux
<1> QED BY <1>5 DEF d, e, b

LEMMA MuxStates ==
  ASSUME NEW p \in Ports, NEW c, Base(c, p)
  PROVE  /\ Programmed(c, detached(c), p, "DETACHED")
         /\ Programmed(c, attached(c), p, "ATTACHED")
         /\ Programmed(c, collectingDistributing(c), p, "COLLECTING_DISTRIBUTING")
<1>1. ASSUME NEW fwd PROVE SetForwarding(c, fwd).actorState = c.actorState
                           /\ DOMAIN SetForwarding(c, fwd) = Fields
  BY DEF SetForwarding, Base, Fields
<1> DEFINE x == c.actorState \ {"IN_SYNC", "COLLECTING", "DISTRIBUTING"}
           y == (c.actorState \cup {"IN_SYNC"}) \ {"COLLECTING", "DISTRIBUTING"}
           z == c.actorState \cup {"COLLECTING", "DISTRIBUTING"}
<1>2. /\ x \in SUBSET LacpState /\ "AGGREGATABLE" \in x
      /\ y \in SUBSET LacpState /\ "AGGREGATABLE" \in y
      /\ z \in SUBSET LacpState /\ "AGGREGATABLE" \in z
  BY DEF Base, LacpState
<1>3. /\ detached(c) = ntt([SetForwarding(c, FALSE) EXCEPT !.mux = "DETACHED", !.actorState = x])
      /\ attached(c) = ntt([SetForwarding(c, FALSE) EXCEPT !.mux = "ATTACHED", !.actorState = y])
      /\ collectingDistributing(c) =
           ntt([SetForwarding(c, TRUE) EXCEPT !.mux = "COLLECTING_DISTRIBUTING", !.actorState = z])
  BY <1>1, Zenon DEF detached, attached, collectingDistributing, Fields
<1> HIDE DEF x, y, z
<1>4. Programmed(c, ntt([SetForwarding(c, FALSE) EXCEPT !.mux = "DETACHED", !.actorState = x]),
                 p, "DETACHED")
  BY <1>2, Program, Zenon
<1>5. Programmed(c, ntt([SetForwarding(c, FALSE) EXCEPT !.mux = "ATTACHED", !.actorState = y]),
                 p, "ATTACHED")
  BY <1>2, Program, Zenon
<1>6. Programmed(c, ntt([SetForwarding(c, TRUE) EXCEPT
                           !.mux = "COLLECTING_DISTRIBUTING", !.actorState = z]),
                 p, "COLLECTING_DISTRIBUTING")
  BY <1>2, Program, Zenon
<1> QED BY <1>3, <1>4, <1>5, <1>6

\* A signal of a Selector.
Signalled(c, d, p) ==
  /\ Result(c, d, p) /\ d.matched = c.matched
  /\ d.mux = "COLLECTING_DISTRIBUTING" => c.mux = "COLLECTING_DISTRIBUTING"

LEMMA Waiting ==
  ASSUME NEW p \in Ports, NEW c, Base(c, p), c.mux = "DETACHED", NEW b
  PROVE  Signalled(c, waiting(c, b), p)
<1> DEFINE e == waiting(c, b)
<1>1. /\ Base(e, p) /\ Keeps(c, e) /\ e.matched = c.matched /\ e.mux = "WAITING"
      /\ e.forwarding = c.forwarding
  BY DEF waiting, Base, Fields, Keeps
<1> HIDE DEF e
<1>2. Signalled(c, e, p)
  BY <1>1 DEF Signalled, Result, Steady
<1> QED BY <1>2 DEF e

LEMMA MuxSelected ==
  ASSUME NEW p \in Ports, NEW c, Base(c, p)
  PROVE  Signalled(c, muxSelected(c), p)
<1> DEFINE e == [c EXCEPT !.chosen = TRUE]
<1>1. /\ Base(e, p) /\ Keeps(c, e) /\ e.matched = c.matched /\ e.mux = c.mux
      /\ e.forwarding = c.forwarding /\ e.chosen = TRUE
  BY DEF Base, Fields, Keeps
<1>2. /\ c.mux = "DETACHED" => muxSelected(c) = waiting(e, TRUE)
      /\ c.mux = "WAITING" => muxSelected(c) = attached(e)
      /\ c.mux # "DETACHED" /\ c.mux # "WAITING" => muxSelected(c) = e
  BY Zenon DEF muxSelected
<1> HIDE DEF e
<1>3. Signalled(c, e, p)
  BY <1>1 DEF Signalled, Result, Steady
<1>4. c.mux = "DETACHED" => Signalled(e, waiting(e, TRUE), p)
  BY <1>1, Waiting, Zenon
<1>5. Programmed(e, attached(e), p, "ATTACHED")
  BY <1>1, MuxStates
<1>6. ASSUME c.mux = "DETACHED" PROVE Signalled(c, waiting(e, TRUE), p)
  BY <1>3, <1>4, <1>6, Zenon DEF Signalled, Result, Keeps
<1>7. Signalled(c, attached(e), p)
  BY <1>3, <1>5 DEF Signalled, Programmed, Result, Keeps
<1> QED BY <1>2, <1>3, <1>6, <1>7, Zenon

LEMMA MuxUnselected ==
  ASSUME NEW p \in Ports, NEW c, Base(c, p)
  PROVE  Signalled(c, muxUnselected(c), p)
<1>1. Signalled(c, c, p)
  BY DEF Signalled, Result, Keeps
<1>2. Signalled(c, detached(c), p) /\ Signalled(c, attached(c), p)
  BY MuxStates DEF Signalled, Programmed
<1> QED BY <1>1, <1>2 DEF muxUnselected

LEMMA MuxStandby ==
  ASSUME NEW p \in Ports, NEW c, Base(c, p)
  PROVE  Signalled(c, muxStandby(c), p)
<1>1. Signalled(c, c, p)
  BY DEF Signalled, Result, Keeps
<1>2. Signalled(c, detached(c), p)
  BY MuxStates DEF Signalled, Programmed
<1>3. c.mux = "DETACHED" => Signalled(c, waiting(c, FALSE), p)
  BY Waiting, Zenon
<1> QED BY <1>1, <1>2, <1>3, Zenon DEF muxStandby

LEMMA SignalledSafe ==
  ASSUME NEW p \in Ports, NEW c, NEW d, Safe(c, p), Signalled(c, d, p)
  PROVE  Safe(d, p)
BY DEF Safe, Signalled, Result, Keeps

LEMMA Matched ==
  ASSUME NEW p \in Ports, NEW c, Base(c, p)
  PROVE  Result(c, matched(c), p)
<1> DEFINE e == matchedIgnored(c)
<1>1. Base(e, p) /\ Keeps(c, e) /\ e.mux = c.mux /\ e.chosen = c.chosen
      /\ e.forwarding = c.forwarding
  BY DEF matchedIgnored, Base, Fields, Keeps
<1>2. matched(c) = e \/ matched(c) = collectingDistributing(e)
  BY DEF matched, matchedIgnored
<1> HIDE DEF e
<1>3. Result(c, e, p)
  BY <1>1 DEF Result, Steady
<1>4. Programmed(e, collectingDistributing(e), p, "COLLECTING_DISTRIBUTING")
  BY <1>1, MuxStates
<1>5. Result(c, collectingDistributing(e), p)
  BY <1>3, <1>4 DEF Programmed, Result, Keeps
<1> QED BY <1>2, <1>3, <1>5

\* A mux that knows its partner is out of sync does not forward.
Quiet(c) == ~c.matched /\ c.mux # "COLLECTING_DISTRIBUTING"

LEMMA NotMatched ==
  ASSUME NEW p \in Ports, NEW c, Base(c, p)
  PROVE  Result(c, notMatched(c), p) /\ Quiet(notMatched(c))
<1> DEFINE e == notMatchedIgnored(c)
<1>1. Base(e, p) /\ Keeps(c, e) /\ e.mux = c.mux /\ e.chosen = c.chosen
      /\ e.forwarding = c.forwarding /\ e.matched = FALSE
  BY DEF notMatchedIgnored, Base, Fields, Keeps
<1>2. /\ c.mux = "COLLECTING_DISTRIBUTING" => notMatched(c) = attached(e)
      /\ c.mux # "COLLECTING_DISTRIBUTING" => notMatched(c) = e
  BY DEF notMatched, notMatchedIgnored
<1> HIDE DEF e
<1>3. Result(c, e, p)
  BY <1>1 DEF Result, Steady
<1>4. Programmed(e, attached(e), p, "ATTACHED")
  BY <1>1, MuxStates
<1>5. Result(c, attached(e), p) /\ Quiet(attached(e))
  BY <1>1, <1>3, <1>4 DEF Programmed, Result, Keeps, Quiet
<1> QED BY <1>1, <1>2, <1>3, <1>5 DEF Quiet

LEMMA MuxTimeoutSafe ==
  ASSUME NEW p \in Ports, NEW c, Safe(c, p)
  PROVE  Result(c, muxTimeout(c), p) /\ Safe(muxTimeout(c), p)
<1> DEFINE b == [c EXCEPT !.wait = FALSE]
           e == attached(b)
<1>1. Base(b, p) /\ Keeps(c, b) /\ b.mux = c.mux /\ b.chosen = c.chosen
      /\ b.forwarding = c.forwarding /\ b.matched = c.matched
  BY DEF Safe, Base, Fields, Keeps
<1>2. muxTimeout(c) = IF e.matched THEN collectingDistributing(e) ELSE e
  BY DEF muxTimeout
<1> HIDE DEF b
<1>3. Result(c, b, p)
  BY <1>1 DEF Result, Steady
<1>4. Programmed(b, e, p, "ATTACHED")
  BY <1>1, MuxStates
<1> HIDE DEF e
<1>5. Programmed(e, collectingDistributing(e), p, "COLLECTING_DISTRIBUTING")
  BY <1>4, MuxStates DEF Programmed, Result
<1>6. Result(c, e, p) /\ e.matched = c.matched /\ e.mux = "ATTACHED"
  BY <1>1, <1>3, <1>4 DEF Programmed, Result, Keeps
<1>7. Safe(e, p)
  BY <1>6 DEF Safe, Result, Keeps
<1>8. Result(c, collectingDistributing(e), p)
  BY <1>5, <1>6 DEF Programmed, Result, Keeps
<1>9. e.matched => Safe(collectingDistributing(e), p)
  BY <1>5, <1>6, <1>8 DEF Safe, Programmed, Result, Keeps
<1> QED BY <1>2, <1>6, <1>7, <1>8, <1>9

\* A step that does not concern the mux or the receive machine.
Minor(c, d, p) == Result(c, d, p) /\ Mux(c, d)

LEMMA MinorSafe ==
  ASSUME NEW p \in Ports, NEW c, NEW d, Safe(c, p), Minor(c, d, p)
  PROVE  Safe(d, p)
BY DEF Safe, Minor, Result, Keeps, Mux

LEMMA MinorSteps ==
  ASSUME NEW p \in Ports, NEW c, Base(c, p)
  PROVE  /\ Minor(c, startPeriodic(c), p)
         /\ Minor(c, periodicTimeout(c), p)
         /\ Minor(c, replenishTranmissionsLeft(c), p)
         /\ \A v : Minor(c, [c EXCEPT !.period = v], p)
         /\ \A v : Minor(c, [c EXCEPT !.noBuffer = v], p)
         /\ \A v \in Seq(Frames) : Minor(c, [c EXCEPT !.wire = v], p)
<1>1. ASSUME NEW b, Base(b, p), NEW v PROVE Minor(b, [b EXCEPT !.period = v], p)
  <2> DEFINE e == [b EXCEPT !.period = v]
  <2>1. Base(e, p) /\ Keeps(b, e) /\ Mux(b, e)
    BY <1>1 DEF Base, Fields, Keeps, Mux
  <2> HIDE DEF e
  <2>2. Minor(b, e, p)
    BY <2>1 DEF Minor, Result, Mux, Steady
  <2> QED BY <2>2 DEF e
<1>2. Minor(c, c, p)
  BY DEF Minor, Result, Keeps, Mux
<1>3. Minor(c, startPeriodic(c), p)
  BY <1>1, <1>2 DEF startPeriodic
<1>4. Minor(c, periodicTimeout(c), p)
  <2> DEFINE d == ntt(c)
             e == [d EXCEPT !.period = IsPeriodic(d)]
  <2>1. Result(c, d, p) /\ Mux(c, d)
    BY Ntt
  <2>2. Minor(d, e, p)
    BY <1>1, <2>1 DEF Result
  <2>3. periodicTimeout(c) = e
    BY DEF periodicTimeout
  <2> HIDE DEF d, e
  <2>4. Minor(c, e, p)
    BY <2>1, <2>2 DEF Minor, Result, Keeps, Mux
  <2> QED BY <2>3, <2>4
<1>5. Minor(c, replenishTranmissionsLeft(c), p)
  <2> DEFINE e == replenishTranmissionsLeft(c)
  <2>1. Base(e, p) /\ Keeps(c, e) /\ Mux(c, e)
    BY DEF replenishTranmissionsLeft, Base, Fields, Keeps, Mux
  <2> HIDE DEF e
  <2>2. Minor(c, e, p)
    BY <2>1 DEF Minor, Result, Mux, Steady
  <2> QED BY <2>2 DEF e
<1>6. ASSUME NEW v PROVE Minor(c, [c EXCEPT !.noBuffer = v], p)
  <2> DEFINE e == [c EXCEPT !.noBuffer = v]
  <2>1. Base(e, p) /\ Keeps(c, e) /\ Mux(c, e)
    BY DEF Base, Fields, Keeps, Mux
  <2> HIDE DEF e
  <2>2. Minor(c, e, p)
    BY <2>1 DEF Minor, Result, Mux, Steady
  <2> QED BY <2>2 DEF e
<1>7. ASSUME NEW v \in Seq(Frames) PROVE Minor(c, [c EXCEPT !.wire = v], p)
  <2> DEFINE e == [c EXCEPT !.wire = v]
  <2>1. Base(e, p) /\ Keeps(c, e) /\ Mux(c, e)
    BY DEF Base, Fields, Keeps, Mux
  <2> HIDE DEF e
  <2>2. Minor(c, e, p)
    BY <2>1 DEF Minor, Result, Mux, Steady
  <2> QED BY <2>2 DEF e
<1> QED BY <1>1, <1>3, <1>4, <1>5, <1>6, <1>7, Zenon

-----------------------------------------------------------------------------
(* The receive machine.                                                    *)

\* Two infos that name the same LAG.
SameInfo(i, j) ==
  j.id = i.id /\ ("AGGREGATABLE" \in j.state <=> "AGGREGATABLE" \in i.state)

Steadier(c, d, p) == Base(d, p) /\ (Steady(c) => Steady(d))

LEMMA Expired ==
  ASSUME NEW p \in Ports, NEW c, Base(c, p)
  PROVE  LET d == expired(c) IN
         /\ Steadier(c, d, p) /\ SameInfo(c.partnerInfo, d.partnerInfo)
         /\ d.rx = "EXPIRED"
<1> DEFINE s == (c.partnerInfo.state \cup {"SHORT_TIMEOUT"}) \ {"IN_SYNC"}
           i == [c.partnerInfo EXCEPT !.state = s]
           b == [c EXCEPT !.rx = "EXPIRED", !.partnerInfo = i]
           e == notMatched(b)
           d == [e EXCEPT !.actorState = @ \cup {"EXPIRED"}, !.epoch = TRUE]
<1>1. i \in Infos /\ SameInfo(c.partnerInfo, i)
  BY DEF Base, Infos, SameInfo, LacpState
<1>2. expired(c) = d
  BY DEF expired
<1> HIDE DEF i
<1>3. /\ Base(b, p) /\ b.rx = "EXPIRED" /\ b.partnerInfo = i
      /\ b.mux = c.mux /\ b.chosen = c.chosen /\ b.forwarding = c.forwarding
  BY <1>1 DEF Base, Fields
<1> HIDE DEF b
<1>4. Result(b, e, p)
  BY <1>3, NotMatched
<1> HIDE DEF e
<1>5. /\ Base(d, p) /\ d.rx = e.rx /\ d.partnerInfo = e.partnerInfo
      /\ d.mux = e.mux /\ d.chosen = e.chosen /\ d.forwarding = e.forwarding
  BY <1>4 DEF Result, Base, Fields, LacpState
<1> HIDE DEF d
<1>6. Steady(c) => Steady(d)
  BY <1>3, <1>4, <1>5 DEF Result, Steady
<1>7. /\ Steadier(c, d, p) /\ SameInfo(c.partnerInfo, d.partnerInfo) /\ d.rx = "EXPIRED"
  BY <1>1, <1>3, <1>4, <1>5, <1>6 DEF Steadier, Result, Keeps
<1> QED BY <1>2, <1>7

LEMMA Disabled ==
  ASSUME NEW p \in Ports, NEW c, Base(c, p)
  PROVE  LET d == disabled(c) IN
         /\ Steadier(c, d, p) /\ SameInfo(c.partnerInfo, d.partnerInfo)
         /\ d.rx = "DISABLED" /\ Safe(d, p)
<1> DEFINE s == c.partnerInfo.state \ {"IN_SYNC"}
           i == [c.partnerInfo EXCEPT !.state = s]
           b == [c EXCEPT !.rx = "DISABLED", !.epoch = FALSE, !.partnerInfo = i]
           d == notMatched(b)
<1>1. i \in Infos /\ SameInfo(c.partnerInfo, i)
  BY DEF Base, Infos, SameInfo, LacpState
<1>2. disabled(c) = d
  BY DEF disabled
<1> HIDE DEF i
<1>3. /\ Base(b, p) /\ b.rx = "DISABLED" /\ b.partnerInfo = i /\ b.epoch = FALSE
      /\ b.mux = c.mux /\ b.chosen = c.chosen /\ b.forwarding = c.forwarding
  BY <1>1 DEF Base, Fields
<1> HIDE DEF b
<1>4. Result(b, d, p) /\ Quiet(d)
  BY <1>3, NotMatched
<1> HIDE DEF d
<1>5. /\ Steadier(c, d, p) /\ SameInfo(c.partnerInfo, d.partnerInfo) /\ d.rx = "DISABLED"
  BY <1>1, <1>3, <1>4 DEF Steadier, Result, Keeps, Steady
<1>6. Safe(d, p)
  BY <1>3, <1>4 DEF Safe, Quiet, Result, Keeps
<1> QED BY <1>2, <1>5, <1>6

\* What stays the same when the partner is recorded.
Recorded(c, d, p) == Steadier(c, d, p) /\ d.rx = c.rx /\ d.epoch = c.epoch

LEMMA RecordDefault ==
  ASSUME NEW p \in Ports, NEW c, Base(c, p)
  PROVE  /\ Recorded(c, recordDefault(c), p) /\ Mux(c, recordDefault(c))
         /\ recordDefault(c).partnerInfo = DefaultInfo
<1> DEFINE d == recordDefault(c)
<1>1. DefaultInfo \in Infos
  BY DEF DefaultInfo, Infos, Ids
<1>2. /\ Base(d, p) /\ Mux(c, d) /\ d.rx = c.rx /\ d.epoch = c.epoch
      /\ d.partnerInfo = DefaultInfo
  BY <1>1 DEF recordDefault, Base, Fields, LacpState, Mux
<1> HIDE DEF d
<1>3. Recorded(c, d, p) /\ Mux(c, d) /\ d.partnerInfo = DefaultInfo
  BY <1>2 DEF Recorded, Steadier, Mux, Steady
<1> QED BY <1>3 DEF d

LEMMA RecordPDU ==
  ASSUME NEW p \in Ports, NEW c, Base(c, p), NEW lacpdu, lacpdu.actorInfo \in Actors
  PROVE  LET d == recordPDU(c, lacpdu) IN
         Recorded(c, d, p) /\ SameInfo(lacpdu.actorInfo, d.partnerInfo)
<1> DEFINE j == lacpdu.actorInfo
           i == [j EXCEPT !.state = @ \ {"IN_SYNC"}]
           b == [c EXCEPT !.partnerInfo = j, !.actorState = @ \ {"DEFAULTED"}]
           e == [b EXCEPT !.partnerInfo = i]
           d == recordPDU(c, lacpdu)
<1>1. j \in Infos /\ SameInfo(j, j) /\ i \in Infos /\ SameInfo(j, i)
  BY DEF Actors, Infos, SameInfo, Ids
<1>2. d = matched(b) \/ d = notMatched([b EXCEPT !.partnerInfo.state = @ \ {"IN_SYNC"}])
  BY DEF recordPDU
<1> HIDE DEF d
<1>3. /\ Base(b, p) /\ b.partnerInfo = j /\ b.rx = c.rx /\ b.epoch = c.epoch
      /\ b.mux = c.mux /\ b.chosen = c.chosen /\ b.forwarding = c.forwarding
  BY <1>1 DEF Base, Fields
<1> HIDE DEF b
<1>4. d = matched(b) \/ d = notMatched(e)
  BY <1>2, <1>3
<1> HIDE DEF i
<1>5. /\ Base(e, p) /\ e.partnerInfo = i /\ e.rx = b.rx /\ e.epoch = b.epoch
      /\ e.mux = b.mux /\ e.chosen = b.chosen /\ e.forwarding = b.forwarding
  BY <1>1, <1>3 DEF Base, Fields
<1> HIDE DEF e, j
<1>6. Result(b, matched(b), p)
  BY <1>3, Matched
<1>7. Result(e, notMatched(e), p)
  BY <1>5, NotMatched
<1>8. Recorded(c, matched(b), p) /\ SameInfo(j, matched(b).partnerInfo)
  BY <1>1, <1>3, <1>6 DEF Recorded, Steadier, Result, Keeps, Steady
<1>9. Recorded(c, notMatched(e), p) /\ SameInfo(j, notMatched(e).partnerInfo)
  BY <1>1, <1>3, <1>5, <1>7 DEF Recorded, Steadier, Result, Keeps, Steady
<1>10. Recorded(c, d, p) /\ SameInfo(j, d.partnerInfo)
  BY <1>4, <1>8, <1>9, Zenon
<1> QED BY <1>10 DEF d, j

-----------------------------------------------------------------------------
(* A world and the worlds a handler takes it to.                           *)

LagOf(c) == LagID(actorInfo(c), c.partnerInfo)

LEMMA Target ==
  ASSUME NEW p \in Ports, NEW c, Base(c, p)
  PROVE  /\ LagOf(c) = [actor |-> Lag[p], partner |-> Lag[c.partnerInfo.id],
                        actorPort |-> NoPort,
                        partnerPort |-> IF "AGGREGATABLE" \in c.partnerInfo.state
                                          THEN NoPort ELSE c.partnerInfo.id]
         /\ \A w : w.c[p] = c => targetLagID(w, p) = LagOf(c)
BY Zenon DEF LagOf, LagID, actorInfo, Base, targetLagID

LEMMA SameTarget ==
  ASSUME NEW p \in Ports, NEW c, Base(c, p), NEW d, Base(d, p),
         SameInfo(c.partnerInfo, d.partnerInfo)
  PROVE  LagOf(d) = LagOf(c)
<1> DEFINE L(x) == [actor |-> Lag[p], partner |-> Lag[x.partnerInfo.id],
                    actorPort |-> NoPort,
                    partnerPort |-> IF "AGGREGATABLE" \in x.partnerInfo.state
                                      THEN NoPort ELSE x.partnerInfo.id]
<1>1. LagOf(c) = L(c) /\ LagOf(d) = L(d)
  BY Target
<1>2. L(c) = L(d)
  BY DEF SameInfo
<1> QED BY <1>1, <1>2

\* No CHECK fails as long as every port has its controller.
KeepsOk(w, v) == members = Ports /\ w.ok => v.ok

\* What holds of the controllers and selections of a world, from one to the next:
\* port p is the handler's.
Handled(w, v, p) ==
  /\ GoodWorld(v) /\ KeepsOk(w, v)
  /\ \A q \in Ports : /\ Steady(w.c[q]) => Steady(v.c[q])
                      /\ Current(w, q) => Current(v, q)
                      /\ q # p => v.c[q].rx = w.c[q].rx

\* The Selector's functions leave the receive machines alone.
Across(w, v) ==
  /\ GoodWorld(v) /\ KeepsOk(w, v)
  /\ \A q \in Ports : /\ Keeps(w.c[q], v.c[q])
                      /\ Steady(w.c[q]) => Steady(v.c[q])
                      /\ Current(w, q) => Current(v, q)

LEMMA AcrossHandled ==
  ASSUME NEW w, NEW v, Across(w, v), NEW p
  PROVE  Handled(w, v, p)
BY DEF Across, Handled, Keeps

LEMMA HandledTransitive ==
  ASSUME NEW u, NEW v, NEW w, NEW p, Handled(u, v, p), Handled(v, w, p)
  PROVE  Handled(u, w, p)
BY DEF Handled, KeepsOk

\* One controller is replaced.
Replaced(w, v, p, d) ==
  /\ DOMAIN v = {"c", "sel", "ok"} /\ DOMAIN v.c = Ports
  /\ v.sel = w.sel /\ v.ok = w.ok
  /\ v.c[p] = d /\ \A q \in Ports : q # p => v.c[q] = w.c[q]

LEMMA Replace ==
  ASSUME NEW w, GoodWorld(w), NEW p \in Ports, NEW d
  PROVE  Replaced(w, [w EXCEPT !.c[p] = d], p, d)
<1> DEFINE v == [w EXCEPT !.c[p] = d]
<1>1. v.c = [w.c EXCEPT ![p] = d] /\ v.sel = w.sel /\ v.ok = w.ok
      /\ DOMAIN v = {"c", "sel", "ok"}
  BY DEF GoodWorld
<1>2. DOMAIN v.c = Ports
  BY <1>1 DEF GoodWorld
<1>3. v.c[p] = d /\ \A q \in Ports : q # p => v.c[q] = w.c[q]
  BY <1>1 DEF GoodWorld
<1> QED BY <1>1, <1>2, <1>3 DEF Replaced

\* The handler's own controller: the selection may stay if the LAG does.
LEMMA ReplacedHandled ==
  ASSUME NEW w, GoodWorld(w), NEW p \in Ports, NEW d, NEW v, Replaced(w, v, p, d),
         Safe(d, p), Steady(w.c[p]) => Steady(d),
         \/ w.sel[p] = NoSelection
         \/ SameInfo(w.c[p].partnerInfo, d.partnerInfo)
  PROVE  Handled(w, v, p)
<1>1. GoodWorld(v) /\ KeepsOk(w, v)
  BY DEF GoodWorld, Replaced, KeepsOk
<1>2. ASSUME NEW q \in Ports PROVE Steady(w.c[q]) => Steady(v.c[q])
  BY DEF Replaced
<1>3. ASSUME NEW q \in Ports, Current(w, q) PROVE Current(v, q)
  <2>1. v.sel = w.sel
    BY DEF Replaced
  <2>2. CASE q # p
    <3>1. v.c[q] = w.c[q]
      BY <2>2 DEF Replaced
    <3>2. targetLagID(v, q) = targetLagID(w, q)
      BY <3>1 DEF targetLagID
    <3> QED BY <1>3, <2>1, <3>2 DEF Current
  <2>3. CASE q = p /\ SameInfo(w.c[p].partnerInfo, d.partnerInfo)
    <3>1. v.c[p] = d /\ Base(d, p) /\ Base(w.c[p], p)
      BY DEF Replaced, GoodWorld, Safe
    <3>2. LagOf(d) = LagOf(w.c[p])
      BY <2>3, <3>1, SameTarget
    <3>3. targetLagID(v, q) = targetLagID(w, q)
      BY <2>3, <3>1, <3>2, Target
    <3> QED BY <1>3, <2>1, <3>3 DEF Current
  <2>4. CASE q = p /\ w.sel[p] = NoSelection
    BY <2>1, <2>4 DEF Current
  <2> QED BY <2>2, <2>3, <2>4
<1>4. ASSUME NEW q \in Ports, q # p PROVE v.c[q].rx = w.c[q].rx
  BY <1>4 DEF Replaced
<1> QED BY <1>1, <1>2, <1>3, <1>4 DEF Handled

-----------------------------------------------------------------------------
(* The Selector.                                                           *)

\* A selection is erased, or stays in its LAG.
Entry(s, t) == t = NoSelection \/ (s # NoSelection /\ t.lagID = s.lagID)

LEMMA SelectorAcross ==
  ASSUME NEW w, GoodWorld(w), NEW v, DOMAIN v = {"c", "sel", "ok"}, DOMAIN v.c = Ports,
         Table(v.sel), KeepsOk(w, v),
         \A q \in Ports : v.c[q] = w.c[q] \/ Signalled(w.c[q], v.c[q], q),
         \A q \in Ports : Entry(w.sel[q], v.sel[q]) \/ Current(v, q)
  PROVE  Across(w, v)
<1>1. ASSUME NEW q \in Ports
      PROVE  Safe(v.c[q], q) /\ Keeps(w.c[q], v.c[q]) /\ (Steady(w.c[q]) => Steady(v.c[q]))
  <2>1. Safe(w.c[q], q)
    BY DEF GoodWorld
  <2>2. CASE v.c[q] = w.c[q]
    BY <2>1, <2>2, Zenon DEF Keeps
  <2>3. CASE Signalled(w.c[q], v.c[q], q)
    BY <2>1, <2>3, SignalledSafe, Zenon DEF Signalled, Result
  <2> QED BY <2>2, <2>3
<1>2. ASSUME NEW q \in Ports, Current(w, q) PROVE Current(v, q)
  <2>1. Base(v.c[q], q) /\ Base(w.c[q], q) /\ SameInfo(w.c[q].partnerInfo, v.c[q].partnerInfo)
    BY <1>1 DEF GoodWorld, Safe, Keeps, SameInfo
  <2>2. LagOf(v.c[q]) = LagOf(w.c[q])
    BY <2>1, SameTarget, Zenon
  <2>3. targetLagID(v, q) = targetLagID(w, q)
    BY <2>1, <2>2, Target, Zenon
  <2> QED BY <1>2, <2>3, Zenon DEF Entry, Current
<1>3. GoodWorld(v)
  BY <1>1 DEF GoodWorld
<1> QED BY <1>1, <1>2, <1>3, Zenon DEF Across

LEMMA SignalStandby ==
  ASSUME NEW w, GoodWorld(w), NEW e, e.c = w.c, e.ok = w.ok, NEW ports \in SUBSET Ports
  PROVE  LET v == signalStandby(e, ports) IN
         /\ DOMAIN v = {"c", "sel", "ok"} /\ DOMAIN v.c = Ports /\ KeepsOk(w, v)
         /\ \A q \in Ports : v.c[q] = w.c[q] \/ Signalled(w.c[q], v.c[q], q)
<1> DEFINE v == signalStandby(e, ports)
<1>1. /\ DOMAIN v = {"c", "sel", "ok"} /\ DOMAIN v.c = Ports
      /\ v.ok = (w.ok /\ ports \subseteq members)
      /\ \A q \in Ports : v.c[q] = IF q \in ports THEN muxStandby(w.c[q]) ELSE w.c[q]
  BY DEF signalStandby
<1> HIDE DEF v
<1>2. KeepsOk(w, v)
  BY <1>1, Zenon DEF KeepsOk
<1>3. ASSUME NEW q \in Ports PROVE v.c[q] = w.c[q] \/ Signalled(w.c[q], v.c[q], q)
  <2>1. Signalled(w.c[q], muxStandby(w.c[q]), q)
    BY MuxStandby DEF GoodWorld, Safe
  <2> QED BY <1>1, <2>1
<1>4. /\ DOMAIN v = {"c", "sel", "ok"} /\ DOMAIN v.c = Ports /\ KeepsOk(w, v)
      /\ \A q \in Ports : v.c[q] = w.c[q] \/ Signalled(w.c[q], v.c[q], q)
  BY <1>1, <1>2, <1>3
<1> QED BY <1>4 DEF v

LEMMA SignalSelected ==
  ASSUME NEW w, GoodWorld(w), NEW e, e.c = w.c, e.ok = w.ok, NEW ports \in SUBSET Ports
  PROVE  LET v == signalSelected(e, ports) IN
         /\ DOMAIN v = {"c", "sel", "ok"} /\ DOMAIN v.c = Ports /\ KeepsOk(w, v)
         /\ \A q \in Ports : v.c[q] = w.c[q] \/ Signalled(w.c[q], v.c[q], q)
<1> DEFINE v == signalSelected(e, ports)
<1>1. /\ DOMAIN v = {"c", "sel", "ok"} /\ DOMAIN v.c = Ports
      /\ v.ok = (w.ok /\ ports \subseteq members)
      /\ \A q \in Ports : v.c[q] = IF q \in ports THEN muxSelected(w.c[q]) ELSE w.c[q]
  BY DEF signalSelected
<1> HIDE DEF v
<1>2. KeepsOk(w, v)
  BY <1>1, Zenon DEF KeepsOk
<1>3. ASSUME NEW q \in Ports PROVE v.c[q] = w.c[q] \/ Signalled(w.c[q], v.c[q], q)
  <2>1. Signalled(w.c[q], muxSelected(w.c[q]), q)
    BY MuxSelected DEF GoodWorld, Safe
  <2> QED BY <1>1, <2>1
<1>4. /\ DOMAIN v = {"c", "sel", "ok"} /\ DOMAIN v.c = Ports /\ KeepsOk(w, v)
      /\ \A q \in Ports : v.c[q] = w.c[q] \/ Signalled(w.c[q], v.c[q], q)
  BY <1>1, <1>2, <1>3
<1> QED BY <1>4 DEF v

\* The table without the entry of p, the other SELECTED ports of its LAG put back
\* to STANDBY.
Dissolved(sel, p, new) ==
  /\ DOMAIN new = Ports /\ new[p] = NoSelection
  /\ \A q \in Ports : q # p =>
       new[q] = IF sel[q] = [lagID |-> sel[p].lagID, state |-> "SELECTED"]
                  THEN [lagID |-> sel[p].lagID, state |-> "STANDBY"] ELSE sel[q]

LEMMA NotNone ==
  ASSUME NEW lagID, NEW s \in {"STANDBY", "SELECTED"}
  PROVE  [lagID |-> lagID, state |-> s] # NoSelection
BY DEF NoSelection

LEMMA DissolvedTable ==
  ASSUME NEW sel, Table(sel), NEW p \in Ports, sel[p] # NoSelection,
         NEW new, Dissolved(sel, p, new)
  PROVE  Table(new) /\ \A q \in Ports : Entry(sel[q], new[q])
<1> DEFINE L == sel[p].lagID
           S == [lagID |-> L, state |-> "SELECTED"]
           B == [lagID |-> L, state |-> "STANDBY"]
<1>1. /\ S # NoSelection /\ B # NoSelection /\ S # B
      /\ S.lagID = L /\ B.lagID = L /\ B.state = "STANDBY" /\ S.state = "SELECTED"
  BY NotNone
<1>2. \A q \in Ports : q # p => new[q] = IF sel[q] = S THEN B ELSE sel[q]
  BY DEF Dissolved
<1>3. new[p] = NoSelection /\ DOMAIN new = Ports
  BY DEF Dissolved
<1>n. NoSelection.state = "NONE"
  BY Zenon DEF NoSelection
<1>4. ASSUME NEW q \in Ports PROVE GoodSelection(new[q], q) /\ Entry(sel[q], new[q])
  <2>1. GoodSelection(sel[q], q)
    BY DEF Table
  <2>2. CASE new[q] = NoSelection
    BY <2>2 DEF GoodSelection, Entry
  <2>3. CASE new[q] = sel[q]
    BY <2>1, <2>3, Zenon DEF Entry
  <2>4. CASE q # p /\ sel[q] = S /\ new[q] = B
    <3>1. S.lagID.actor = Lag[q]
      BY <1>1, <2>1, <2>4, Zenon DEF GoodSelection
    <3>2. B = [lagID |-> B.lagID, state |-> B.state]
      BY <1>1
    <3>3. Entry(S, B)
      BY <1>1 DEF Entry
    <3> QED BY <1>1, <2>4, <3>1, <3>2, <3>3, Zenon DEF GoodSelection
  <2> QED BY <1>2, <1>3, <2>2, <2>3, <2>4
<1>5. ASSUME NEW r \in Ports, Aggregatable(new[r]), new[r].state = "SELECTED"
      PROVE  Cardinality({q \in Ports : new[q] = new[r]}) >= minLinkCount[r]
  <2>1. r # p
    BY <1>3, <1>5 DEF Aggregatable
  <2>2. new[r] = sel[r] /\ sel[r] # S
    BY <1>1, <1>2, <1>5, <2>1
  <2>3. sel[r].lagID # L
    <3>1. sel[r] = [lagID |-> sel[r].lagID, state |-> sel[r].state]
      BY <1>5, <2>2 DEF Table, GoodSelection, Aggregatable
    <3> QED BY <1>5, <2>2, <3>1
  <2> HIDE DEF S, B
  <2>4. ASSUME NEW q \in Ports PROVE new[q] = new[r] <=> sel[q] = sel[r]
    BY <1>1, <1>2, <1>3, <1>5, <1>n, <2>2, <2>3
  <2>5. {q \in Ports : new[q] = new[r]} = {q \in Ports : sel[q] = sel[r]}
    BY <2>4
  <2> QED BY <1>5, <2>2, <2>5 DEF Table, MinLinks
<1>6. MinLinks(new)
  BY <1>5 DEF MinLinks
<1> QED BY <1>3, <1>4, <1>6 DEF Table

LEMMA AcrossTransitive ==
  ASSUME NEW u, NEW v, NEW w, Across(u, v), Across(v, w)
  PROVE  Across(u, w)
BY DEF Across, KeepsOk, Keeps

LEMMA Unselected ==
  ASSUME NEW w, GoodWorld(w), NEW p \in Ports
  PROVE  Across(w, unselected(w, p)) /\ unselected(w, p).sel[p] = NoSelection
<1> DEFINE erased == [w EXCEPT !.sel[p] = NoSelection]
           others == getPortsWithSelection(erased, w.sel[p].lagID, "SELECTED")
           a == signalStandby(erased, others)
           v == IF w.sel[p] = NoSelection THEN w ELSE a
           d == muxUnselected(v.c[p])
           x == [v EXCEPT !.c[p] = d]
<1>1. unselected(w, p) = x
  BY DEF unselected
<1>2. /\ erased.c = w.c /\ erased.ok = w.ok /\ DOMAIN erased.sel = Ports
      /\ erased.sel[p] = NoSelection
      /\ \A q \in Ports : q # p => erased.sel[q] = w.sel[q]
  BY Zenon DEF GoodWorld, Table
<1> HIDE DEF erased
<1>3. ASSUME w.sel[p] # NoSelection PROVE Across(w, a) /\ a.sel[p] = NoSelection
  <2> DEFINE S == [lagID |-> w.sel[p].lagID, state |-> "SELECTED"]
             B == [lagID |-> w.sel[p].lagID, state |-> "STANDBY"]
  <2>0. S # NoSelection /\ [S EXCEPT !.state = "STANDBY"] = B
    BY NotNone
  <2>1. others = {q \in Ports : erased.sel[q] = S}
    BY DEF getPortsWithSelection
  <2>2. /\ DOMAIN a.sel = Ports
        /\ \A q \in Ports : a.sel[q] = IF q \in others /\ erased.sel[q] # NoSelection
                              THEN [erased.sel[q] EXCEPT !.state = "STANDBY"] ELSE erased.sel[q]
    BY Zenon DEF signalStandby
  <2>3. /\ DOMAIN a = {"c", "sel", "ok"} /\ DOMAIN a.c = Ports /\ KeepsOk(w, a)
        /\ \A q \in Ports : a.c[q] = w.c[q] \/ Signalled(w.c[q], a.c[q], q)
    BY <1>2, <2>1, SignalStandby
  <2> HIDE DEF a, others
  <2>4. a.sel[p] = NoSelection
    BY <1>2, <2>0, <2>1, <2>2, Zenon
  <2>5. ASSUME NEW q \in Ports, q # p PROVE a.sel[q] = IF w.sel[q] = S THEN B ELSE w.sel[q]
    <3> HIDE DEF S, B
    <3> QED BY <1>2, <2>0, <2>1, <2>2, <2>5, Zenon
  <2>6. Dissolved(w.sel, p, a.sel)
    BY <2>2, <2>4, <2>5 DEF Dissolved
  <2>7. Table(w.sel)
    BY Zenon DEF GoodWorld
  <2>8. Table(a.sel) /\ \A q \in Ports : Entry(w.sel[q], a.sel[q])
    BY <1>3, <2>6, <2>7, DissolvedTable
  <2> QED BY <2>3, <2>4, <2>8, SelectorAcross
<1>4. Across(w, w)
  BY DEF Across, KeepsOk, Keeps
<1> HIDE DEF a
<1>5. Across(w, v) /\ v.sel[p] = NoSelection
  BY <1>3, <1>4, Zenon
<1>6. GoodWorld(v)
  BY <1>5, Zenon DEF Across
<1> HIDE DEF v
<1>7. Signalled(v.c[p], d, p)
  BY <1>6, MuxUnselected DEF GoodWorld, Safe
<1> HIDE DEF d
<1>8. Replaced(v, x, p, d)
  BY <1>6, Replace, Zenon
<1> HIDE DEF x
<1>9. Across(v, x)
  <2>1. Table(x.sel) /\ DOMAIN x = {"c", "sel", "ok"} /\ DOMAIN x.c = Ports /\ KeepsOk(v, x)
    BY <1>6, <1>8 DEF Replaced, GoodWorld, KeepsOk
  <2>2. \A q \in Ports : x.c[q] = v.c[q] \/ Signalled(v.c[q], x.c[q], q)
    BY <1>7, <1>8 DEF Replaced
  <2>3. \A q \in Ports : Entry(v.sel[q], x.sel[q])
    BY <1>8 DEF Replaced, Entry
  <2> QED BY <1>6, <2>1, <2>2, <2>3, SelectorAcross
<1>10. Across(w, x) /\ x.sel[p] = NoSelection
  BY <1>5, <1>8, <1>9, AcrossTransitive DEF Replaced
<1> QED BY <1>1, <1>10

LEMMA Chosen ==
  ASSUME NEW sel, Table(sel), NEW p \in Ports, sel[p] = NoSelection,
         NEW lagID, lagID.actor = Lag[p],
         NEW new, DOMAIN new = Ports, new[p] = [lagID |-> lagID, state |-> "STANDBY"],
         \A q \in Ports : q # p => new[q] = sel[q]
  PROVE  Table(new)
<1> DEFINE B == [lagID |-> lagID, state |-> "STANDBY"]
<1>1. B.lagID = lagID /\ B.state = "STANDBY" /\ B = [lagID |-> B.lagID, state |-> B.state]
  OBVIOUS
<1>2. new[p] = B
  OBVIOUS
<1> HIDE DEF B
<1>3. ASSUME NEW q \in Ports PROVE GoodSelection(new[q], q)
  BY <1>1, <1>2 DEF Table, GoodSelection
<1>4. ASSUME NEW r \in Ports, Aggregatable(new[r]), new[r].state = "SELECTED"
      PROVE  Cardinality({q \in Ports : new[q] = new[r]}) >= minLinkCount[r]
  <2>1. r # p /\ new[r] = sel[r] /\ sel[r] # NoSelection
    BY <1>1, <1>2, <1>4 DEF Aggregatable
  <2>2. ASSUME NEW q \in Ports PROVE new[q] = new[r] <=> sel[q] = sel[r]
    BY <1>1, <1>2, <1>4, <2>1
  <2>3. {q \in Ports : new[q] = new[r]} = {q \in Ports : sel[q] = sel[r]}
    BY <2>2
  <2> QED BY <1>4, <2>1, <2>3 DEF Table, MinLinks
<1>5. MinLinks(new)
  BY <1>4 DEF MinLinks
<1> QED BY <1>3, <1>5 DEF Table

\* An individual link forms a LAG of its own.
LEMMA ChosenAlone ==
  ASSUME NEW sel, Table(sel), NEW p \in Ports, sel[p] = NoSelection,
         NEW lagID, lagID.actor = Lag[p], lagID.partnerPort # NoPort,
         NEW new, DOMAIN new = Ports, new[p] = [lagID |-> lagID, state |-> "SELECTED"],
         \A q \in Ports : q # p => new[q] = sel[q]
  PROVE  Table(new)
<1> DEFINE S == [lagID |-> lagID, state |-> "SELECTED"]
<1>1. S.lagID = lagID /\ S.state = "SELECTED" /\ S = [lagID |-> S.lagID, state |-> S.state]
  OBVIOUS
<1>2. new[p] = S
  OBVIOUS
<1> HIDE DEF S
<1>3. ASSUME NEW q \in Ports PROVE GoodSelection(new[q], q)
  BY <1>1, <1>2 DEF Table, GoodSelection
<1>4. ASSUME NEW r \in Ports, Aggregatable(new[r]), new[r].state = "SELECTED"
      PROVE  Cardinality({q \in Ports : new[q] = new[r]}) >= minLinkCount[r]
  <2>1. r # p /\ new[r] = sel[r] /\ sel[r] # NoSelection /\ new[r] # S
    BY <1>1, <1>2, <1>4 DEF Aggregatable
  <2>2. ASSUME NEW q \in Ports PROVE new[q] = new[r] <=> sel[q] = sel[r]
    BY <1>1, <1>2, <1>4, <2>1
  <2>3. {q \in Ports : new[q] = new[r]} = {q \in Ports : sel[q] = sel[r]}
    BY <2>2, Zenon
  <2> QED BY <1>4, <2>1, <2>3 DEF Table, MinLinks
<1>5. MinLinks(new)
  BY <1>4, Zenon DEF MinLinks
<1> QED BY <1>3, <1>5 DEF Table

\* The STANDBY ports of a LAG are SELECTED together once they are enough.
LEMMA Promoted ==
  ASSUME NEW sel, Table(sel), NEW p \in Ports, NEW lagID, lagID.actor = Lag[p],
         NEW standbys, standbys = {q \in Ports : sel[q] = [lagID |-> lagID, state |-> "STANDBY"]},
         Cardinality(standbys) = minLinkCount[p],
         NEW new, DOMAIN new = Ports,
         \A q \in Ports : new[q] = IF q \in standbys THEN [lagID |-> lagID, state |-> "SELECTED"]
                                                     ELSE sel[q]
  PROVE  Table(new)
<1> DEFINE S == [lagID |-> lagID, state |-> "SELECTED"]
           B == [lagID |-> lagID, state |-> "STANDBY"]
<1>1. /\ S.lagID = lagID /\ S.state = "SELECTED" /\ S = [lagID |-> S.lagID, state |-> S.state]
      /\ B.lagID = lagID /\ B.state = "STANDBY"
  OBVIOUS
<1>2. /\ \A q \in Ports : q \in standbys <=> sel[q] = B
      /\ \A q \in Ports : new[q] = IF q \in standbys THEN S ELSE sel[q]
  BY Zenon
<1>b. B # NoSelection
  BY NotNone, Zenon
<1> HIDE DEF S, B
<1>3. ASSUME NEW q \in Ports PROVE GoodSelection(new[q], q)
  <2>1. GoodSelection(sel[q], q)
    BY Zenon DEF Table
  <2>2. q \in standbys => lagID.actor = Lag[q]
    BY <1>1, <1>2, <1>b, <2>1, Zenon DEF GoodSelection
  <2> QED BY <1>1, <1>2, <2>1, <2>2, Zenon DEF GoodSelection
<1>4. ASSUME NEW r \in Ports, Aggregatable(new[r]), new[r].state = "SELECTED"
      PROVE  Cardinality({q \in Ports : new[q] = new[r]}) >= minLinkCount[r]
  <2>1. CASE new[r] = S
    <3> DEFINE T == {q \in Ports : new[q] = new[r]}
    <3>1. Lag[r] = Lag[p]
      BY <1>1, <1>3, <1>4, <2>1, Zenon DEF GoodSelection, Aggregatable
    <3>2. minLinkCount[r] = minLinkCount[p] /\ minLinkCount[r] \in Nat
      BY <3>1, LacpAssumption, Zenon
    <3>3. IsFiniteSet(T)
      <4>1. T \subseteq Ports
        BY Zenon
      <4> QED BY <4>1, MachinesAssumption, FS_Subset
    <3>4. standbys \subseteq T
      BY <1>2, <2>1, Zenon
    <3>5. Cardinality(standbys) <= Cardinality(T) /\ Cardinality(T) \in Nat
      BY <3>3, <3>4, FS_Subset, FS_CardinalityType, Zenon
    <3> QED BY <3>2, <3>5
  <2>2. CASE new[r] # S
    <3>1. new[r] = sel[r] /\ sel[r] # B
      BY <1>1, <1>2, <2>2, Zenon
    <3>2. ASSUME NEW q \in Ports PROVE new[q] = new[r] <=> sel[q] = sel[r]
      BY <1>2, <2>2, <3>1, Zenon
    <3>3. {q \in Ports : new[q] = new[r]} = {q \in Ports : sel[q] = sel[r]}
      BY <3>2, Zenon
    <3> QED BY <1>4, <3>1, <3>3, Zenon DEF Table, MinLinks
  <2> QED BY <2>1, <2>2, Zenon
<1>5. MinLinks(new)
  BY <1>4 DEF MinLinks
<1> QED BY <1>3, <1>5 DEF Table

\* A port with no selection gets an entry for the LAG of its partner.
LEMMA Insert ==
  ASSUME NEW w, GoodWorld(w), NEW p \in Ports, w.sel[p] = NoSelection
  PROVE  LET e == insertSelection(w, p) IN
         /\ e.c = w.c /\ e.ok = w.ok /\ DOMAIN e.sel = Ports
         /\ e.sel[p] = [lagID |-> targetLagID(w, p), state |-> "STANDBY"]
         /\ \A q \in Ports : q # p => e.sel[q] = w.sel[q]
BY Zenon DEF insertSelection, GoodWorld, Table

LEMMA SelectAlone ==
  ASSUME NEW w, GoodWorld(w), NEW p \in Ports, w.sel[p] = NoSelection,
         targetLagID(w, p).partnerPort # NoPort, targetLagID(w, p).actor = Lag[p]
  PROVE  Across(w, signalSelected(insertSelection(w, p), {p}))
<1> DEFINE e == insertSelection(w, p)
           lagID == targetLagID(w, p)
           B == [lagID |-> lagID, state |-> "STANDBY"]
           v == signalSelected(e, {p})
<1>1. /\ e.c = w.c /\ e.ok = w.ok /\ e.sel[p] = B
      /\ \A q \in Ports : q # p => e.sel[q] = w.sel[q]
  BY Insert
<1>2. /\ DOMAIN v.sel = Ports
      /\ \A q \in Ports : v.sel[q] = IF q = p THEN [e.sel[q] EXCEPT !.state = "SELECTED"]
                                              ELSE e.sel[q]
  BY DEF signalSelected
<1>3. [B EXCEPT !.state = "SELECTED"] = [lagID |-> lagID, state |-> "SELECTED"]
  OBVIOUS
<1> HIDE DEF e
<1>4. /\ DOMAIN v = {"c", "sel", "ok"} /\ DOMAIN v.c = Ports /\ KeepsOk(w, v)
      /\ \A q \in Ports : v.c[q] = w.c[q] \/ Signalled(w.c[q], v.c[q], q)
  BY <1>1, SignalSelected
<1> HIDE DEF v, lagID, B
<1>5. /\ v.sel[p] = [lagID |-> lagID, state |-> "SELECTED"]
      /\ \A q \in Ports : q # p => v.sel[q] = w.sel[q]
  BY <1>1, <1>2, <1>3, Zenon
<1>6. Table(v.sel)
  BY <1>2, <1>5, ChosenAlone DEF GoodWorld, lagID
<1>7. ASSUME NEW q \in Ports PROVE Entry(w.sel[q], v.sel[q]) \/ Current(v, q)
  <2>1. CASE q # p
    BY <1>5, <2>1, Zenon DEF Entry
  <2>2. CASE q = p
    <3>1. Keeps(w.c[p], v.c[p]) /\ Base(w.c[p], p) /\ Base(v.c[p], p)
      BY <1>4, Zenon DEF Signalled, Result, GoodWorld, Safe, Keeps
    <3>2. LagOf(v.c[p]) = LagOf(w.c[p])
      BY <3>1, SameTarget, Zenon DEF Keeps, SameInfo
    <3>3. targetLagID(v, p) = targetLagID(w, p)
      BY <3>1, <3>2, Target, Zenon
    <3> QED BY <1>5, <2>2, <3>3 DEF Current, lagID
  <2> QED BY <2>1, <2>2, Zenon
<1>8. Across(w, v)
  BY <1>4, <1>6, <1>7, SelectorAcross, Zenon
<1> QED BY <1>8, Zenon DEF v, e

LEMMA JoinLag ==
  ASSUME NEW w, GoodWorld(w), NEW p \in Ports, w.sel[p] = NoSelection,
         targetLagID(w, p).actor = Lag[p]
  PROVE  Across(w, joinLag(w, p))
<1> DEFINE e == insertSelection(w, p)
           lagID == targetLagID(w, p)
           S == [lagID |-> lagID, state |-> "SELECTED"]
           B == [lagID |-> lagID, state |-> "STANDBY"]
           v == signalStandby(e, {p})
           standbys == getPortsWithSelection(v, lagID, "STANDBY")
           u == signalSelected(v, standbys)
<1>0. joinLag(w, p) = IF Cardinality(standbys) = minLinkCount[p] THEN u ELSE v
  BY Zenon DEF joinLag
<1>1. /\ e.c = w.c /\ e.ok = w.ok /\ e.sel[p] = B
      /\ \A q \in Ports : q # p => e.sel[q] = w.sel[q]
  BY Insert
<1>2. /\ DOMAIN v.sel = Ports
      /\ \A q \in Ports : v.sel[q] = IF q = p /\ e.sel[q] # NoSelection
                                       THEN [e.sel[q] EXCEPT !.state = "STANDBY"] ELSE e.sel[q]
  BY DEF signalStandby
<1>3. [B EXCEPT !.state = "STANDBY"] = B /\ [B EXCEPT !.state = "SELECTED"] = S
      /\ B.lagID = lagID /\ S.lagID = lagID
  OBVIOUS
<1>4. B # NoSelection
  BY NotNone, Zenon
<1>5. standbys = {q \in Ports : v.sel[q] = B}
  BY DEF getPortsWithSelection
<1>6. /\ DOMAIN u.sel = Ports
      /\ \A q \in Ports : u.sel[q] = IF q \in standbys THEN [v.sel[q] EXCEPT !.state = "SELECTED"]
                                                       ELSE v.sel[q]
  BY Zenon DEF signalSelected
<1> HIDE DEF e
<1>7. /\ DOMAIN v = {"c", "sel", "ok"} /\ DOMAIN v.c = Ports /\ KeepsOk(w, v)
      /\ \A q \in Ports : v.c[q] = w.c[q] \/ Signalled(w.c[q], v.c[q], q)
  BY <1>1, SignalStandby
<1> HIDE DEF v, lagID, standbys, B, S
<1>8. /\ v.sel[p] = B /\ \A q \in Ports : q # p => v.sel[q] = w.sel[q]
  BY <1>1, <1>2, <1>3, <1>4, Zenon
<1>9. Table(v.sel)
  BY <1>2, <1>8, Chosen DEF GoodWorld, lagID, B
<1>10. ASSUME NEW q \in Ports PROVE Entry(w.sel[q], v.sel[q]) \/ Current(v, q)
  <2>1. CASE q # p
    BY <1>8, <2>1 DEF Entry
  <2>2. CASE q = p
    <3>1. Keeps(w.c[p], v.c[p]) /\ Base(w.c[p], p) /\ Base(v.c[p], p)
      BY <1>7, Zenon DEF Signalled, Result, GoodWorld, Safe, Keeps
    <3>2. LagOf(v.c[p]) = LagOf(w.c[p])
      BY <3>1, SameTarget, Zenon DEF Keeps, SameInfo
    <3>3. targetLagID(v, p) = targetLagID(w, p)
      BY <3>1, <3>2, Target, Zenon
    <3> QED BY <1>3, <1>8, <2>2, <3>3, Zenon DEF Current, lagID
  <2> QED BY <2>1, <2>2, Zenon
<1>11. Across(w, v)
  BY <1>7, <1>9, <1>10, SelectorAcross, Zenon
<1>12. ASSUME Cardinality(standbys) = minLinkCount[p] PROVE Across(v, u)
  <2>1. standbys \subseteq Ports /\ GoodWorld(v)
    BY <1>5, <1>11, Zenon DEF Across
  <2>2. /\ DOMAIN u = {"c", "sel", "ok"} /\ DOMAIN u.c = Ports /\ KeepsOk(v, u)
        /\ \A q \in Ports : u.c[q] = v.c[q] \/ Signalled(v.c[q], u.c[q], q)
    BY <2>1, SignalSelected
  <2> HIDE DEF u
  <2>3. \A q \in Ports : u.sel[q] = IF q \in standbys THEN S ELSE v.sel[q]
    BY <1>3, <1>5, <1>6, Zenon
  <2>4. Table(u.sel)
    BY <1>5, <1>6, <1>9, <1>12, <2>3, Promoted DEF lagID, B, S
  <2>5. \A q \in Ports : Entry(v.sel[q], u.sel[q])
    BY <1>3, <1>4, <1>5, <2>3, Zenon DEF Entry
  <2> QED BY <2>1, <2>2, <2>4, <2>5, SelectorAcross, Zenon
<1> HIDE DEF u
<1> QED BY <1>0, <1>11, <1>12, AcrossTransitive

LEMMA Select ==
  ASSUME NEW w, GoodWorld(w), NEW p \in Ports, Current(w, p),
         w.c[p].partnerInfo.id # NoPort
  PROVE  Across(w, select(w, p))
<1>1. Across(w, w)
  BY Zenon DEF Across, KeepsOk, Keeps
<1>2. CASE w.sel[p] # NoSelection
  BY <1>1, <1>2, Zenon DEF select, Current
<1>3. CASE w.sel[p] = NoSelection
  <2>1. Base(w.c[p], p)
    BY Zenon DEF GoodWorld, Safe
  <2>2. /\ targetLagID(w, p).actor = Lag[p]
        /\ "AGGREGATABLE" \notin w.c[p].partnerInfo.state => targetLagID(w, p).partnerPort # NoPort
    BY <2>1, Target
  <2>3. "AGGREGATABLE" \in w.c[p].actorState
    BY <2>1, Zenon DEF Base
  <2>4. CASE "AGGREGATABLE" \notin w.c[p].partnerInfo.state
    <3>1. Across(w, signalSelected(insertSelection(w, p), {p}))
      BY <1>3, <2>2, <2>4, SelectAlone, Zenon
    <3> QED BY <1>3, <2>4, <3>1, Zenon DEF select
  <2>5. CASE "AGGREGATABLE" \in w.c[p].partnerInfo.state
    <3>1. Across(w, joinLag(w, p))
      BY <1>3, <2>2, JoinLag
    <3> QED BY <1>1, <1>3, <2>3, <2>5, <3>1, Zenon DEF select
  <2> QED BY <2>4, <2>5, Zenon
<1> QED BY <1>2, <1>3, Zenon

-----------------------------------------------------------------------------
(* The handlers.                                                           *)

\* A fresh state or timeout of the receive machine; the mux is left alone.
Receives(c, d, p, state, epoch) ==
  /\ Base(d, p) /\ Mux(c, d) /\ d.partnerInfo = c.partnerInfo
  /\ d.rx = state /\ d.epoch = epoch

LEMMA SetRx ==
  ASSUME NEW p \in Ports, NEW c, Base(c, p), NEW v
  PROVE  Receives(c, [c EXCEPT !.rx = v], p, v, c.epoch)
BY DEF Receives, Base, Fields, Mux

LEMMA SetEpoch ==
  ASSUME NEW p \in Ports, NEW c, Base(c, p), NEW v
  PROVE  Receives(c, [c EXCEPT !.epoch = v], p, c.rx, v)
BY DEF Receives, Base, Fields, Mux

LEMMA ClearExpired ==
  ASSUME NEW p \in Ports, NEW c, Base(c, p)
  PROVE  Receives(c, [c EXCEPT !.actorState = @ \ {"EXPIRED"}], p, c.rx, c.epoch)
BY Zenon DEF Receives, Base, Fields, Mux

LEMMA MuxSteady ==
  ASSUME NEW c, NEW d, Mux(c, d)
  PROVE  Steady(c) => Steady(d)
BY DEF Mux, Steady

LEMMA SameInfoRefl == ASSUME NEW i PROVE SameInfo(i, i)
BY Zenon DEF SameInfo

LEMMA CurrentHandled ==
  ASSUME NEW w, GoodWorld(w), NEW p \in Ports, Current(w, p),
         NEW lacpdu, lacpdu.actorInfo \in Actors
  PROVE  Handled(w, current(w, p, lacpdu), p)
<1> DEFINE d1 == [w.c[p] EXCEPT !.rx = "CURRENT"]
           w1 == [w EXCEPT !.c[p] = d1]
           w2 == IF SamePartner(w.c[p], lacpdu) THEN w1 ELSE unselected(w1, p)
           needed == updateNTT(w2.c[p], lacpdu)
           restart == activityChanged(w2.c[p], lacpdu)
           d3 == recordPDU(w2.c[p], lacpdu)
           w3 == [w2 EXCEPT !.c[p] = d3]
           d4 == [w3.c[p] EXCEPT !.actorState = @ \ {"EXPIRED"}]
           x4 == [w3 EXCEPT !.c[p] = d4]
           w4 == select(x4, p)
           c5 == IF needed THEN ntt(w4.c[p]) ELSE w4.c[p]
           c6 == IF restart THEN startPeriodic(c5) ELSE c5
           d7 == [c6 EXCEPT !.epoch = TRUE]
           w7 == [w4 EXCEPT !.c[p] = d7]
<1>0. current(w, p, lacpdu) = w7
  BY Zenon DEF current
<1> HIDE DEF needed, restart
<1>1. Handled(w, w1, p) /\ w1.c[p].rx = "CURRENT" /\ w1.c[p].partnerInfo = w.c[p].partnerInfo
  <2>1. /\ Base(d1, p) /\ Mux(w.c[p], d1) /\ d1.partnerInfo = w.c[p].partnerInfo
        /\ d1.rx = "CURRENT"
    BY SetRx DEF GoodWorld, Safe, Receives
  <2> HIDE DEF d1
  <2>2. Safe(d1, p)
    BY <2>1 DEF Safe
  <2>3. Replaced(w, w1, p, d1)
    BY Replace, Zenon
  <2> HIDE DEF w1
  <2>s. SameInfo(w.c[p].partnerInfo, d1.partnerInfo) /\ (Steady(w.c[p]) => Steady(d1))
    <3>1. SameInfo(w.c[p].partnerInfo, w.c[p].partnerInfo)
      BY SameInfoRefl, Zenon
    <3>2. Steady(w.c[p]) => Steady(d1)
      BY <2>1, MuxSteady, Zenon
    <3> QED BY <2>1, <3>1, <3>2
  <2>4. Handled(w, w1, p)
    BY <2>2, <2>3, <2>s, ReplacedHandled, Zenon
  <2> QED BY <2>1, <2>3, <2>4 DEF Replaced
<1> HIDE DEF w1
<1>2. /\ Handled(w, w2, p) /\ w2.c[p].rx = "CURRENT"
      /\ w2.c[p].partnerInfo = w.c[p].partnerInfo
      /\ SamePartner(w.c[p], lacpdu) \/ w2.sel[p] = NoSelection
  <2>1. GoodWorld(w1)
    BY <1>1 DEF Handled
  <2>2. Across(w1, unselected(w1, p)) /\ unselected(w1, p).sel[p] = NoSelection
    BY <2>1, Unselected, Zenon
  <2>3. Handled(w, unselected(w1, p), p)
    BY <1>1, <2>2, AcrossHandled, HandledTransitive, Zenon
  <2>4. Keeps(w1.c[p], unselected(w1, p).c[p])
    BY <2>2, Zenon DEF Across
  <2> QED BY <1>1, <2>2, <2>3, <2>4, Zenon DEF Keeps
<1> HIDE DEF w2
<1>3. /\ Handled(w, w3, p) /\ w3.c[p].rx = "CURRENT"
      /\ w3.c[p].partnerInfo.id # NoPort
  <2>1. GoodWorld(w2) /\ Base(w2.c[p], p)
    BY <1>2 DEF Handled, GoodWorld, Safe
  <2>2. Recorded(w2.c[p], d3, p) /\ SameInfo(lacpdu.actorInfo, d3.partnerInfo)
    BY <2>1, RecordPDU
  <2> HIDE DEF d3
  <2>3. Replaced(w2, w3, p, d3)
    BY <2>1, Replace, Zenon
  <2>4. Safe(d3, p) /\ (Steady(w2.c[p]) => Steady(d3)) /\ d3.rx = "CURRENT"
    BY <1>2, <2>2, Zenon DEF Recorded, Steadier, Safe
  <2>5. w2.sel[p] = NoSelection \/ SameInfo(w2.c[p].partnerInfo, d3.partnerInfo)
    BY <1>2, <2>2, Zenon DEF SamePartner, SameInfo
  <2> HIDE DEF w3
  <2>6. Handled(w2, w3, p)
    BY <2>1, <2>3, <2>4, <2>5, ReplacedHandled, Zenon
  <2>7. Handled(w, w3, p)
    BY <1>2, <2>6, HandledTransitive, Zenon
  <2>8. d3.partnerInfo.id # NoPort
    <3>1. d3.partnerInfo.id = lacpdu.actorInfo.id
      BY <2>2 DEF SameInfo
    <3>2. lacpdu.actorInfo.id \in Ports \cup Strangers
      BY Zenon DEF Actors
    <3> QED BY <3>1, <3>2, MachinesAssumption, Zenon
  <2> QED BY <2>3, <2>4, <2>7, <2>8, Zenon DEF Replaced
<1> HIDE DEF w3
<1>4. /\ Handled(w, x4, p) /\ x4.c[p].rx = "CURRENT"
      /\ x4.c[p].partnerInfo.id # NoPort
  <2>1. GoodWorld(w3) /\ Base(w3.c[p], p)
    BY <1>3 DEF Handled, GoodWorld, Safe
  <2>2. Base(d4, p) /\ Mux(w3.c[p], d4) /\ Keeps(w3.c[p], d4)
    BY <2>1, ClearExpired, Zenon DEF Receives, Keeps
  <2> HIDE DEF d4
  <2>3. Replaced(w3, x4, p, d4)
    BY <2>1, Replace
  <2>4. Safe(d4, p) /\ (Steady(w3.c[p]) => Steady(d4)) /\ d4.rx = "CURRENT"
    BY <1>3, <2>2, MuxSteady, Zenon DEF Safe, Keeps
  <2>5. SameInfo(w3.c[p].partnerInfo, d4.partnerInfo)
    BY <2>2, SameInfoRefl, Zenon DEF Keeps
  <2> HIDE DEF x4
  <2>6. Handled(w3, x4, p)
    BY <2>1, <2>3, <2>4, <2>5, ReplacedHandled, Zenon
  <2>7. Handled(w, x4, p)
    BY <1>3, <2>6, HandledTransitive, Zenon
  <2> QED BY <1>3, <2>2, <2>3, <2>4, <2>7, Zenon DEF Replaced, Keeps
<1> HIDE DEF x4
<1>5. Handled(w, w4, p) /\ w4.c[p].rx = "CURRENT"
  <2>1. GoodWorld(x4) /\ Current(x4, p)
    BY <1>4, Zenon DEF Handled
  <2>2. Across(x4, w4)
    BY <1>4, <2>1, Select
  <2> HIDE DEF w4
  <2>3. Keeps(x4.c[p], w4.c[p])
    BY <2>2, Zenon DEF Across
  <2> QED BY <1>4, <2>2, <2>3, AcrossHandled, HandledTransitive, Zenon DEF Keeps
<1> HIDE DEF w4
<1>6. Handled(w4, w7, p)
  <2>1. GoodWorld(w4) /\ Base(w4.c[p], p)
    BY <1>5, Zenon DEF Handled, GoodWorld, Safe
  <2>2. Minor(w4.c[p], c5, p)
    BY <2>1, Ntt, Zenon DEF Minor, Result, Keeps, Mux
  <2> HIDE DEF c5
  <2>b. Base(c5, p) /\ Minor(c5, c5, p)
    BY <2>2 DEF Minor, Result, Keeps, Mux
  <2>s. Minor(c5, startPeriodic(c5), p)
    BY <2>b, MinorSteps
  <2>3. Minor(c5, c6, p)
    BY <2>b, <2>s
  <2> HIDE DEF c6
  <2>4. Base(d7, p) /\ Mux(c6, d7) /\ d7.partnerInfo = c6.partnerInfo /\ d7.rx = c6.rx
    BY <2>3, SetEpoch, SMTT(20) DEF Minor, Result, Receives
  <2> HIDE DEF d7
  <2>5. d7.partnerInfo = w4.c[p].partnerInfo /\ d7.rx = "CURRENT" /\ Mux(w4.c[p], d7)
    BY <1>5, <2>2, <2>3, <2>4, Zenon DEF Minor, Result, Keeps, Mux
  <2>6. Safe(d7, p) /\ (Steady(w4.c[p]) => Steady(d7))
    BY <2>4, <2>5, MuxSteady, Zenon DEF Safe
  <2>7. Replaced(w4, w7, p, d7)
    BY <2>1, Replace
  <2> HIDE DEF w7
  <2> QED BY <2>1, <2>5, <2>6, <2>7, SameInfoRefl, ReplacedHandled, Zenon
<1> HIDE DEF w7
<1> QED BY <1>0, <1>5, <1>6, HandledTransitive, Zenon

LEMMA DefaultedHandled ==
  ASSUME NEW w, GoodWorld(w), NEW p \in Ports, ~w.c[p].epoch
  PROVE  Handled(w, defaulted(w, p), p)
<1> DEFINE d1 == [w.c[p] EXCEPT !.rx = "DEFAULTED"]
           w1 == [w EXCEPT !.c[p] = d1]
           w2 == IF w.c[p].partnerInfo # DefaultInfo THEN unselected(w1, p) ELSE w1
           c3 == recordDefault(w2.c[p])
           d3 == [c3 EXCEPT !.actorState = @ \ {"EXPIRED"}]
           w3 == [w2 EXCEPT !.c[p] = d3]
<1>0. defaulted(w, p) = w3
  BY Zenon DEF defaulted
<1>1. /\ Handled(w, w1, p) /\ w1.c[p].rx = "DEFAULTED" /\ ~w1.c[p].epoch
      /\ w1.c[p].partnerInfo = w.c[p].partnerInfo
  <2>1. Receives(w.c[p], d1, p, "DEFAULTED", w.c[p].epoch)
    BY SetRx, Zenon DEF GoodWorld, Safe
  <2> HIDE DEF d1
  <2>2. Safe(d1, p) /\ d1.partnerInfo = w.c[p].partnerInfo
    BY <2>1 DEF Safe, Receives
  <2>3. Replaced(w, w1, p, d1)
    BY Replace, Zenon
  <2> HIDE DEF w1
  <2>4. SameInfo(w.c[p].partnerInfo, d1.partnerInfo)
    BY <2>2, SameInfoRefl, Zenon
  <2>5. Steady(w.c[p]) => Steady(d1)
    BY <2>1, MuxSteady, Zenon DEF Receives
  <2>6. Handled(w, w1, p)
    BY <2>2, <2>3, <2>4, <2>5, ReplacedHandled, Zenon
  <2> QED BY <2>1, <2>2, <2>3, <2>6 DEF Replaced, Receives
<1> HIDE DEF w1
<1>2. /\ Handled(w, w2, p) /\ w2.c[p].rx = "DEFAULTED" /\ ~w2.c[p].epoch
      /\ w2.c[p].partnerInfo = DefaultInfo \/ w2.sel[p] = NoSelection
  <2>1. GoodWorld(w1)
    BY <1>1, Zenon DEF Handled
  <2>2. Across(w1, unselected(w1, p)) /\ unselected(w1, p).sel[p] = NoSelection
    BY <2>1, Unselected, Zenon
  <2>3. Handled(w, unselected(w1, p), p)
    BY <1>1, <2>2, AcrossHandled, HandledTransitive, Zenon
  <2>4. Keeps(w1.c[p], unselected(w1, p).c[p])
    BY <2>2, Zenon DEF Across
  <2> QED BY <1>1, <2>2, <2>3, <2>4, Zenon DEF Keeps
<1> HIDE DEF w2
<1>3. GoodWorld(w2) /\ Base(w2.c[p], p)
  BY <1>2 DEF Handled, GoodWorld, Safe
<1>4. Recorded(w2.c[p], c3, p) /\ c3.partnerInfo = DefaultInfo
  BY <1>3, RecordDefault
<1> HIDE DEF c3
<1>5. Receives(c3, d3, p, c3.rx, c3.epoch)
  BY <1>4, ClearExpired, Zenon DEF Recorded, Steadier
<1> HIDE DEF d3
<1>6. Safe(d3, p) /\ d3.partnerInfo = DefaultInfo
  BY <1>2, <1>4, <1>5, Zenon DEF Receives, Recorded, Safe
<1>7. Steady(w2.c[p]) => Steady(d3)
  BY <1>4, <1>5, MuxSteady, Zenon DEF Receives, Recorded, Steadier
<1>8. w2.sel[p] = NoSelection \/ SameInfo(w2.c[p].partnerInfo, d3.partnerInfo)
  BY <1>2, <1>6 DEF SameInfo
<1>9. Replaced(w2, w3, p, d3)
  BY <1>3, Replace, Zenon
<1> HIDE DEF w3
<1>10. Handled(w2, w3, p)
  BY <1>3, <1>6, <1>7, <1>8, <1>9, ReplacedHandled, Zenon
<1> QED BY <1>0, <1>2, <1>10, HandledTransitive

LEMMA InitializeHandled ==
  ASSUME NEW w, GoodWorld(w), NEW p \in Ports
  PROVE  LET v == initialize(w, p) IN
         Handled(w, v, p) /\ v.c[p].rx = "DISABLED" /\ v.sel[p] = NoSelection
<1> DEFINE w1 == unselected(w, p)
           c2 == recordDefault(w1.c[p])
           c3 == [c2 EXCEPT !.actorState = @ \ {"EXPIRED"}]
           d == disabled(c3)
           v == [w1 EXCEPT !.c[p] = d]
<1>0. initialize(w, p) = v
  BY DEF initialize
<1>1. Across(w, w1) /\ w1.sel[p] = NoSelection
  BY Unselected
<1> HIDE DEF w1
<1>2. Handled(w, w1, p) /\ GoodWorld(w1) /\ Base(w1.c[p], p)
  BY <1>1, AcrossHandled, Zenon DEF Across, GoodWorld, Safe
<1>3. Recorded(w1.c[p], c2, p)
  BY <1>2, RecordDefault
<1> HIDE DEF c2
<1>4. Receives(c2, c3, p, c2.rx, c2.epoch)
  BY <1>3, ClearExpired, Zenon DEF Recorded, Steadier
<1> HIDE DEF c3
<1>5. Steadier(c3, d, p) /\ d.rx = "DISABLED" /\ Safe(d, p)
  BY <1>4, Disabled, Zenon DEF Receives
<1> HIDE DEF d
<1>6. Steady(w1.c[p]) => Steady(d)
  BY <1>3, <1>4, <1>5, MuxSteady DEF Receives, Recorded, Steadier
<1>7. Replaced(w1, v, p, d)
  BY <1>2, Replace, Zenon
<1> HIDE DEF v
<1>8. Handled(w1, v, p)
  BY <1>1, <1>2, <1>5, <1>6, <1>7, ReplacedHandled
<1>9. Handled(w, v, p)
  BY <1>2, <1>8, HandledTransitive
<1> QED BY <1>0, <1>1, <1>5, <1>7, <1>9 DEF Replaced

\* A minor step of the handler's controller.
LEMMA MinorHandled ==
  ASSUME NEW w, GoodWorld(w), NEW p \in Ports, NEW d, Minor(w.c[p], d, p)
  PROVE  LET v == [w EXCEPT !.c[p] = d] IN
         Handled(w, v, p) /\ v.c[p].rx = w.c[p].rx
<1> DEFINE v == [w EXCEPT !.c[p] = d]
<1>1. Safe(d, p)
  BY MinorSafe, Zenon DEF GoodWorld
<1>2. SameInfo(w.c[p].partnerInfo, d.partnerInfo) /\ d.rx = w.c[p].rx
  BY DEF SameInfo, Minor, Result, Keeps
<1>3. Steady(w.c[p]) => Steady(d)
  BY DEF Minor, Result
<1>4. Replaced(w, v, p, d)
  BY Replace, Zenon
<1> HIDE DEF v
<1>5. Handled(w, v, p)
  BY <1>1, <1>2, <1>3, <1>4, ReplacedHandled, Zenon
<1>6. v.c[p].rx = w.c[p].rx
  BY <1>2, <1>4, Zenon DEF Replaced
<1> QED BY <1>5, <1>6 DEF v

-----------------------------------------------------------------------------
(* The steps.                                                              *)

LEMMA WorldFields ==
  World.c = controller /\ World.sel = portToSelection /\ World.ok = TRUE
  /\ DOMAIN World = {"c", "sel", "ok"}
BY Zenon DEF World

\* What a handler of port p has to show.
LEMMA HandledStep ==
  ASSUME LacpInv, NEW p \in Ports, NEW u, Handled(World, u, p),
         controller' = u.c, portToSelection' = u.sel,
         UNCHANGED <<members, reconfigurations>>,
         DOMAIN up' = Ports, \A q \in Ports : q # p => up'[q] = up[q],
         p \in members => Started(p) \/ Current(u, p) \/ u.c[p].rx = "INITIALIZED",
         reconfigurations = 0 =>
           ~aborted' /\ (~up'[p] => u.c[p].rx \in {"INITIALIZED", "DISABLED"})
  PROVE  LacpInv'
<1>1. GoodWorld(World')
  <2>1. GoodWorld(u)
    BY Zenon DEF Handled
  <2>2. /\ World'.c = u.c /\ World'.sel = u.sel
        /\ DOMAIN World' = {"c", "sel", "ok"}
    BY Zenon DEF World
  <2> QED BY <2>1, <2>2, Zenon DEF GoodWorld
<1>2. ASSUME NEW q \in members, Started(q)' PROVE Current(World, q)'
  <2>1. q \in Ports /\ (Started(q) => Current(World, q))
    BY Zenon DEF LacpInv
  <2>2. Current(World, q) => Current(u, q)
    BY <2>1, Zenon DEF Handled
  <2>3. Current(u, q)
    <3>1. CASE q = p
      BY <1>2, <2>1, <2>2, <3>1, Zenon DEF Started
    <3>2. CASE q # p
      <4>1. u.c[q].rx = controller[q].rx
        BY <2>1, <3>2, WorldFields, Zenon DEF Handled
      <4>2. Started(q)
        BY <1>2, <4>1, Zenon DEF Started
      <4> QED BY <2>1, <2>2, <4>2, Zenon
    <3> QED BY <3>1, <3>2, Zenon
  <2> QED BY <2>3, Zenon DEF Current, targetLagID, World
<1>3. ASSUME reconfigurations' = 0 PROVE Undisturbed'
  <2>1. Undisturbed /\ reconfigurations = 0
    BY <1>3, Zenon DEF LacpInv
  <2>2. ASSUME NEW q \in Ports PROVE Steady(controller'[q])
    <3>1. Steady(World.c[q])
      BY <2>1, WorldFields, Zenon DEF Undisturbed
    <3> QED BY <3>1, Zenon DEF Handled
  <2>3. ASSUME NEW q \in Ports, ~up'[q] PROVE controller'[q].rx \in {"INITIALIZED", "DISABLED"}
    <3>1. CASE q = p
      BY <2>1, <2>3, <3>1, Zenon
    <3>2. CASE q # p
      <4>1. u.c[q].rx = controller[q].rx
        BY <3>2, WorldFields, Zenon DEF Handled
      <4> QED BY <2>1, <2>3, <3>2, <4>1, Zenon DEF Undisturbed
    <3> QED BY <3>1, <3>2, Zenon
  <2> QED BY <2>1, <2>2, <2>3, Zenon DEF Undisturbed
<1> QED BY <1>1, <1>2, <1>3, Zenon DEF LacpInv

LEMMA StartStep ==
  ASSUME LacpInv, NEW p \in Ports, Start(p)
  PROVE  LacpInv'
<1> DEFINE d == startPeriodic(controller[p])
           w == [World EXCEPT !.c[p] = d]
           v == initialize(w, p)
<1>1. /\ controller' = v.c /\ portToSelection' = v.sel /\ aborted' = ~v.ok
      /\ UNCHANGED <<members, reconfigurations, up>>
  BY WorldFields, Zenon DEF Start, Becomes
<1>2. GoodWorld(World) /\ Base(controller[p], p)
  BY WorldFields DEF LacpInv, GoodWorld, Safe
<1>3. Minor(World.c[p], d, p)
  BY <1>2, MinorSteps, WorldFields
<1> HIDE DEF d
<1>4. Handled(World, w, p)
  BY <1>2, <1>3, MinorHandled, Zenon
<1> HIDE DEF w
<1>5. Handled(w, v, p) /\ v.c[p].rx = "DISABLED" /\ v.sel[p] = NoSelection
  BY <1>4, InitializeHandled, Zenon DEF Handled
<1> HIDE DEF v
<1>6. Handled(World, v, p)
  BY <1>4, <1>5, HandledTransitive, Zenon
<1>7. Current(v, p)
  BY <1>5 DEF Current
<1>8. reconfigurations = 0 => ~aborted'
  BY <1>1, <1>6, WorldFields, Zenon DEF LacpInv, Undisturbed, Handled, KeepsOk
<1> QED BY <1>1, <1>5, <1>6, <1>7, <1>8, HandledStep DEF LacpInv

LEMMA Stays ==
  ASSUME NEW w, GoodWorld(w), NEW p PROVE Handled(w, w, p)
BY DEF Handled, KeepsOk

LEMMA PortUpStep ==
  ASSUME LacpInv, NEW p \in Ports, PortUp(p)
  PROVE  LacpInv'
<1>1. /\ UNCHANGED <<members, reconfigurations>>
      /\ p \in members => Started(p)
      /\ DOMAIN up' = Ports /\ up'[p] /\ \A q \in Ports : q # p => up'[q] = up[q]
  BY Zenon DEF PortUp, LacpInv
<1>2. GoodWorld(World) /\ Base(controller[p], p)
  BY WorldFields DEF LacpInv, GoodWorld, Safe
<1>3. CASE p \notin members
  <2>1. controller' = World.c /\ portToSelection' = World.sel
    BY <1>3, WorldFields DEF PortUp
  <2>2. Handled(World, World, p)
    BY <1>2, Stays, Zenon
  <2>3. reconfigurations # 0
    BY <1>3, Zenon DEF LacpInv, Undisturbed
  <2> QED BY <1>1, <1>3, <2>1, <2>2, <2>3, HandledStep
<1>4. CASE p \in members
  <2> DEFINE e == expired(controller[p])
             d == startPeriodic(e)
             u == [World EXCEPT !.c[p] = d]
             b == controller[p].rx = "DISABLED"
             v == [World EXCEPT !.c[p] = d, !.ok = b]
  <2>1. Becomes(v)
    BY <1>4, WorldFields DEF PortUp
  <2>2. Steadier(controller[p], e, p) /\ SameInfo(controller[p].partnerInfo, e.partnerInfo)
        /\ e.rx = "EXPIRED"
    BY <1>2, Expired
  <2> HIDE DEF e
  <2>3. Minor(e, d, p)
    BY <2>2, MinorSteps, Zenon DEF Steadier
  <2> HIDE DEF d
  <2>4. Safe(d, p) /\ SameInfo(controller[p].partnerInfo, d.partnerInfo)
        /\ (Steady(controller[p]) => Steady(d))
    BY <2>2, <2>3 DEF Minor, Result, Keeps, Safe, Steadier
  <2>5. Replaced(World, u, p, d)
    BY <1>2, Replace
  <2>6. u.c = v.c /\ u.sel = v.sel /\ v.ok = b
    BY WorldFields, Zenon
  <2> HIDE DEF u, v
  <2>7. Handled(World, u, p)
    BY <1>2, <2>4, <2>5, WorldFields, ReplacedHandled
  <2>8. controller' = u.c /\ portToSelection' = u.sel /\ aborted' = ~b
    BY <2>1, <2>6, Zenon DEF Becomes
  <2>9. reconfigurations = 0 => b
    BY <1>1, <1>4 DEF LacpInv, Undisturbed, PortUp, Started
  <2>10. reconfigurations = 0 =>
           ~aborted' /\ (~up'[p] => u.c[p].rx \in {"INITIALIZED", "DISABLED"})
    BY <1>1, <2>8, <2>9, Zenon
  <2> QED BY <1>1, <1>4, <2>7, <2>8, <2>10, HandledStep
<1> QED BY <1>3, <1>4

LEMMA PortDownStep ==
  ASSUME LacpInv, NEW p \in Ports, PortDown(p)
  PROVE  LacpInv'
<1>1. /\ UNCHANGED <<members, reconfigurations>>
      /\ p \in members => Started(p)
      /\ DOMAIN up' = Ports /\ \A q \in Ports : q # p => up'[q] = up[q]
  BY Zenon DEF PortDown, LacpInv
<1>2. GoodWorld(World) /\ Base(controller[p], p)
  BY WorldFields DEF LacpInv, GoodWorld, Safe
<1>3. CASE p \notin members
  <2>1. controller' = World.c /\ portToSelection' = World.sel
    BY <1>3, WorldFields, Zenon DEF PortDown
  <2>2. Handled(World, World, p)
    BY <1>2, Stays
  <2>3. reconfigurations # 0
    BY <1>3 DEF LacpInv, Undisturbed
  <2> QED BY <1>1, <1>3, <2>1, <2>2, <2>3, HandledStep
<1>4. CASE p \in members
  <2> DEFINE e == disabled(controller[p])
             d == [e EXCEPT !.period = FALSE]
             w == [World EXCEPT !.c[p] = d]
             v == selectorPortDown(w, p)
  <2>1. Becomes(v)
    BY <1>4, WorldFields, Zenon DEF PortDown
  <2>2. /\ Steadier(controller[p], e, p) /\ SameInfo(controller[p].partnerInfo, e.partnerInfo)
        /\ e.rx = "DISABLED" /\ Safe(e, p)
    BY <1>2, Disabled
  <2> HIDE DEF e
  <2>3. Minor(e, d, p)
    BY <2>2, MinorSteps, Zenon DEF Steadier
  <2> HIDE DEF d
  <2>4. /\ Safe(d, p) /\ d.rx = "DISABLED"
        /\ SameInfo(controller[p].partnerInfo, d.partnerInfo)
        /\ Steady(controller[p]) => Steady(d)
    BY <2>2, <2>3, MinorSafe, Zenon DEF Minor, Result, Keeps, Steadier
  <2>5. Replaced(World, w, p, d)
    BY <1>2, Replace
  <2> HIDE DEF w
  <2>6. Handled(World, w, p)
    BY <1>2, <2>4, <2>5, WorldFields, ReplacedHandled, Zenon
  <2>7. GoodWorld(w) /\ w.c[p].rx = "DISABLED"
    BY <2>4, <2>5, <2>6, Zenon DEF Handled, Replaced
  <2>8. Across(w, unselected(w, p))
    BY <2>7, Unselected, Zenon
  <2>9. Handled(w, v, p) /\ v.c[p].rx = "DISABLED"
    BY <2>7, <2>8, AcrossHandled, Stays, Zenon DEF selectorPortDown, Across, Keeps
  <2> HIDE DEF v
  <2>10. Handled(World, v, p)
    BY <2>6, <2>9, HandledTransitive
  <2>11. controller' = v.c /\ portToSelection' = v.sel /\ aborted' = ~v.ok
    BY <2>1 DEF Becomes
  <2>12. reconfigurations = 0 => ~aborted'
    BY <2>10, <2>11, WorldFields, Zenon DEF LacpInv, Undisturbed, Handled, KeepsOk
  <2> QED BY <1>1, <1>4, <2>9, <2>10, <2>11, <2>12, HandledStep
<1> QED BY <1>3, <1>4

\* A LACPDU handled by port p, in a world that differs from the present one in no
\* receive machine.
LEMMA RxStep ==
  ASSUME LacpInv, NEW p \in Ports, Started(p), NEW w, Handled(World, w, p),
         w.c[p].rx = controller[p].rx, NEW lacpdu, lacpdu.actorInfo \in Actors,
         Becomes(rx(w, p, lacpdu)), UNCHANGED <<members, up, reconfigurations>>
  PROVE  LacpInv'
<1> DEFINE v == rx(w, p, lacpdu)
<1>1. controller' = v.c /\ portToSelection' = v.sel /\ aborted' = ~v.ok
  BY Zenon DEF Becomes
<1>2. GoodWorld(w) /\ Current(w, p)
  BY Zenon DEF LacpInv, Handled, Started
<1>3. Handled(w, current(w, p, lacpdu), p)
  BY <1>2, CurrentHandled, Zenon
<1>4. Handled(w, v, p) /\ (controller[p].rx = "DISABLED" => v = w)
  BY <1>2, <1>3, Stays, Zenon DEF rx
<1> HIDE DEF v
<1>5. Handled(World, v, p)
  BY <1>4, HandledTransitive
<1>6. reconfigurations = 0 => ~aborted'
  BY <1>1, <1>5, WorldFields, Zenon DEF LacpInv, Undisturbed, Handled, KeepsOk
<1>7. reconfigurations = 0 /\ ~up[p] => v.c[p].rx = "DISABLED"
  BY <1>4, Zenon DEF LacpInv, Undisturbed, Started
<1>8. reconfigurations = 0 =>
        ~aborted' /\ (~up'[p] => v.c[p].rx \in {"INITIALIZED", "DISABLED"})
  BY <1>6, <1>7, Zenon
<1>9. DOMAIN up' = Ports /\ \A q \in Ports : q # p => up'[q] = up[q]
  BY DEF LacpInv
<1> QED BY <1>1, <1>5, <1>8, <1>9, HandledStep, Zenon

\* A frame leaves the wire of port q.
LEMMA TakeFrame ==
  ASSUME LacpInv, NEW q \in Ports, controller[q].wire # << >>
  PROVE  LET w == [World EXCEPT !.c[q].wire = Tail(@)] IN
         /\ w.c = [controller EXCEPT ![q].wire = Tail(@)] /\ w.sel = portToSelection
         /\ \A p \in Ports : Handled(World, w, p) /\ w.c[p].rx = controller[p].rx
         /\ Head(controller[q].wire).actorInfo \in Actors
<1> DEFINE t == Tail(controller[q].wire)
           d == [controller[q] EXCEPT !.wire = t]
           w == [World EXCEPT !.c[q] = d]
<1>1. w = [World EXCEPT !.c[q].wire = Tail(@)] /\ w.c = [controller EXCEPT ![q].wire = Tail(@)]
      /\ w.sel = portToSelection
  BY WorldFields, Zenon
<1>2. GoodWorld(World) /\ Base(controller[q], q)
  BY WorldFields, Zenon DEF LacpInv, GoodWorld, Safe
<1>3. controller[q].wire \in Seq(Frames)
  BY <1>2 DEF Base
<1>4. t \in Seq(Frames) /\ Head(controller[q].wire) \in Frames
  BY <1>3
<1>5. Head(controller[q].wire).actorInfo \in Actors
  BY <1>4 DEF Frames
<1> HIDE DEF t
<1>6. Minor(World.c[q], d, q)
  BY <1>2, <1>4, MinorSteps, WorldFields
<1> HIDE DEF d
<1>7. Handled(World, w, q) /\ w.c[q].rx = World.c[q].rx
  BY <1>2, <1>6, MinorHandled, Zenon
<1> HIDE DEF w
<1>8. ASSUME NEW p \in Ports PROVE Handled(World, w, p) /\ w.c[p].rx = controller[p].rx
  BY <1>7, WorldFields, Zenon DEF Handled
<1> QED BY <1>1, <1>5, <1>8, Zenon

LEMMA ReceivedStep ==
  ASSUME LacpInv, NEW p \in Ports, Received(p)
  PROVE  LacpInv'
<1> DEFINE q == Peer[p]
           w == [World EXCEPT !.c[q].wire = Tail(@)]
           f == Head(controller[q].wire)
<1>1. /\ Started(p) /\ q \in Ports /\ controller[q].wire # << >>
      /\ Becomes(rx(w, p, f)) /\ UNCHANGED <<members, up, reconfigurations>>
  BY DEF Received
<1>2. Handled(World, w, p) /\ w.c[p].rx = controller[p].rx /\ f.actorInfo \in Actors
  <2> HIDE DEF q
  <2> QED BY <1>1, TakeFrame, Zenon
<1> HIDE DEF w, f
<1> QED BY <1>1, <1>2, RxStep

LEMMA StrangerStep ==
  ASSUME LacpInv, NEW p \in Ports, NEW pdu \in StrangerPDUs, ReceivedFromStranger(p, pdu)
  PROVE  LacpInv'
<1> DEFINE f == StrangerPDU(p, pdu)
<1>1. /\ Started(p) /\ Becomes(rx(World, p, f))
      /\ UNCHANGED <<members, up, reconfigurations>>
  BY Zenon DEF ReceivedFromStranger
<1>2. f.actorInfo \in Actors
  <2>1. f.actorInfo = pdu.info
    BY Zenon DEF StrangerPDU
  <2>2. pdu.info \in [id : Strangers, state : SUBSET LacpState]
    BY LacpAssumption, Zenon
  <2> QED BY <2>1, <2>2, Zenon DEF Actors
<1>3. Handled(World, World, p) /\ World.c[p].rx = controller[p].rx
  BY Stays, WorldFields DEF LacpInv
<1> HIDE DEF f
<1> QED BY <1>1, <1>2, <1>3, RxStep, Zenon

\* A step of port p that keeps the state of its receive machine.
LEMMA OwnStep ==
  ASSUME LacpInv, NEW p \in Ports, NEW d, Safe(d, p), Steady(controller[p]) => Steady(d),
         Keeps(controller[p], d),
         controller' = [controller EXCEPT ![p] = d],
         UNCHANGED <<members, portToSelection, up, reconfigurations, aborted>>
  PROVE  LacpInv'
<1> DEFINE u == [World EXCEPT !.c[p] = d]
<1>1. GoodWorld(World) /\ DOMAIN up = Ports
  BY DEF LacpInv
<1>2. Replaced(World, u, p, d)
  BY <1>1, Replace
<1>3. u.c = controller' /\ u.sel = portToSelection'
  BY WorldFields, Zenon
<1>4. SameInfo(World.c[p].partnerInfo, d.partnerInfo) /\ d.rx = controller[p].rx
  BY WorldFields DEF Keeps, SameInfo
<1>u. u.c[p] = d
  BY <1>2, Zenon DEF Replaced
<1> HIDE DEF u
<1>5. Handled(World, u, p)
  BY <1>1, <1>2, <1>4, WorldFields, ReplacedHandled, Zenon
<1>6. p \in members => Started(p) \/ u.c[p].rx = "INITIALIZED"
  BY <1>4, <1>u, Zenon DEF Started
<1>7. reconfigurations = 0 =>
        ~aborted' /\ (~up'[p] => u.c[p].rx \in {"INITIALIZED", "DISABLED"})
  BY <1>4, <1>u DEF LacpInv, Undisturbed
<1> QED BY <1>1, <1>3, <1>5, <1>6, <1>7, HandledStep, Zenon

LEMMA LoseStep ==
  ASSUME LacpInv, NEW p \in Ports, Lose(p)
  PROVE  LacpInv'
<1> DEFINE t == Tail(controller[p].wire)
           d == [controller[p] EXCEPT !.wire = t]
<1>1. /\ controller' = [controller EXCEPT ![p] = d] /\ controller[p].wire # << >>
      /\ UNCHANGED <<members, portToSelection, up, reconfigurations, aborted>>
  BY Zenon DEF Lose
<1>2. Safe(controller[p], p) /\ Base(controller[p], p)
  BY WorldFields DEF LacpInv, GoodWorld, Safe
<1>3. t \in Seq(Frames)
  BY <1>1, <1>2 DEF Base
<1> HIDE DEF t
<1>4. Minor(controller[p], d, p)
  BY <1>2, <1>3, MinorSteps
<1> HIDE DEF d
<1> QED BY <1>1, <1>2, <1>4, MinorSafe, OwnStep, Zenon DEF Minor, Result

\* The timeouts of the other machines, and the packet buffers.
LEMMA OwnPortSteps ==
  ASSUME LacpInv, NEW p \in Ports,
         \/ PeriodicTimeout(p) \/ TransmitTimeout(p) \/ MuxTimeout(p)
         \/ BufferShortage(p) \/ BufferFreed(p)
  PROVE  LacpInv'
<1>1. Safe(controller[p], p) /\ Base(controller[p], p)
  BY WorldFields, Zenon DEF LacpInv, GoodWorld, Safe
<1>2. ASSUME NEW d, Minor(controller[p], d, p) \/ (Result(controller[p], d, p) /\ Safe(d, p)),
             controller' = [controller EXCEPT ![p] = d],
             UNCHANGED <<members, portToSelection, up, reconfigurations, aborted>>
      PROVE  LacpInv'
  <2>1. Safe(d, p) /\ Result(controller[p], d, p)
    BY <1>1, <1>2, MinorSafe DEF Minor
  <2> QED BY <1>2, <2>1, OwnStep, Zenon DEF Result
<1>3. CASE PeriodicTimeout(p)
  <2>1. Minor(controller[p], periodicTimeout(controller[p]), p)
    BY <1>1, MinorSteps
  <2> QED BY <1>2, <1>3, <2>1, Zenon DEF PeriodicTimeout, OwnPort
<1>4. CASE TransmitTimeout(p)
  <2>1. Minor(controller[p], replenishTranmissionsLeft(controller[p]), p)
    BY <1>1, MinorSteps
  <2> QED BY <1>2, <1>4, <2>1, Zenon DEF TransmitTimeout, OwnPort
<1>5. CASE MuxTimeout(p)
  <2>1. Result(controller[p], muxTimeout(controller[p]), p) /\ Safe(muxTimeout(controller[p]), p)
    BY <1>1, MuxTimeoutSafe
  <2> QED BY <1>2, <1>5, <2>1, Zenon DEF MuxTimeout, OwnPort
<1>6. CASE BufferShortage(p)
  <2> DEFINE d == [controller[p] EXCEPT !.noBuffer = TRUE]
  <2>1. Minor(controller[p], d, p)
    BY <1>1, MinorSteps, Zenon
  <2>2. controller' = [controller EXCEPT ![p] = d]
    BY <1>6 DEF BufferShortage
  <2> HIDE DEF d
  <2> QED BY <1>2, <1>6, <2>1, <2>2, Zenon DEF BufferShortage
<1>7. CASE BufferFreed(p)
  <2> DEFINE d == [controller[p] EXCEPT !.noBuffer = FALSE]
  <2>1. Minor(controller[p], d, p)
    BY <1>1, MinorSteps, Zenon
  <2>2. controller' = [controller EXCEPT ![p] = d]
    BY <1>7, Zenon DEF BufferFreed, OwnPort
  <2> HIDE DEF d
  <2> QED BY <1>2, <1>7, <2>1, <2>2, Zenon DEF BufferFreed, OwnPort
<1> QED BY <1>3, <1>4, <1>5, <1>6, <1>7, SMTT(20)

LEMMA ReceiveTimeoutStep ==
  ASSUME LacpInv, NEW p \in Ports, ReceiveTimeout(p)
  PROVE  LacpInv'
<1> DEFINE e == [controller[p] EXCEPT !.epoch = FALSE]
           w == [World EXCEPT !.c[p] = e]
           d == expired(e)
           x == [w EXCEPT !.c[p] = d]
           v == IF controller[p].rx = "CURRENT" THEN x ELSE defaulted(w, p)
<1>1. GoodWorld(World) /\ Safe(controller[p], p) /\ Base(controller[p], p)
  BY WorldFields DEF LacpInv, GoodWorld, Safe
<1>2. /\ controller[p].rx \in {"CURRENT", "EXPIRED"} /\ p \in members /\ Started(p)
      /\ UNCHANGED <<members, up, reconfigurations>>
  BY <1>1 DEF ReceiveTimeout, Safe, Started
<1>3. Receives(controller[p], e, p, controller[p].rx, FALSE)
  BY <1>1, SetEpoch, Zenon
<1>w. w = [World EXCEPT !.c[p].epoch = FALSE]
  BY WorldFields
<1> HIDE DEF e
<1>4. Replaced(World, w, p, e)
  BY <1>1, Replace
<1>5. Becomes(v)
  <2> DEFINE y == [World EXCEPT !.c[p].epoch = FALSE]
  <2>1. CASE controller[p].rx = "CURRENT"
    <3>1. Becomes([y EXCEPT !.c[p] = expired(@)])
      BY <2>1 DEF ReceiveTimeout
    <3>2. [w EXCEPT !.c[p] = expired(@)] = x
      BY <1>4, Zenon DEF Replaced
    <3> QED BY <1>w, <2>1, <3>1, <3>2, Zenon
  <2>2. CASE controller[p].rx = "EXPIRED"
    <3>1. Becomes(defaulted(y, p))
      BY <2>2, Zenon DEF ReceiveTimeout
    <3> QED BY <1>w, <2>2, <3>1
  <2> QED BY <1>2, <2>1, <2>2
<1> HIDE DEF w
<1>6. Safe(e, p) /\ e.partnerInfo = World.c[p].partnerInfo /\ (Steady(controller[p]) => Steady(e))
  BY <1>1, <1>3, MuxSteady, WorldFields, Zenon DEF Receives, Safe, Mux
<1>7. Handled(World, w, p) /\ w.c[p] = e
  BY <1>1, <1>4, <1>6, WorldFields, ReplacedHandled, Zenon DEF SameInfo, Replaced
<1>8. GoodWorld(w) /\ ~w.c[p].epoch
  BY <1>3, <1>7, Zenon DEF Handled, Receives
<1>9. Handled(w, defaulted(w, p), p)
  BY <1>8, DefaultedHandled, Zenon
<1>10. Handled(w, x, p)
  <2>1. Steadier(e, d, p) /\ SameInfo(e.partnerInfo, d.partnerInfo) /\ d.rx = "EXPIRED"
    BY <1>6, Expired DEF Safe
  <2> HIDE DEF d
  <2>2. Replaced(w, x, p, d)
    BY <1>8, Replace
  <2>3. Safe(d, p) /\ (Steady(e) => Steady(d))
    BY <2>1, Zenon DEF Safe, Steadier
  <2> HIDE DEF x
  <2> QED BY <1>7, <1>8, <2>1, <2>2, <2>3, ReplacedHandled, Zenon
<1> HIDE DEF x
<1>11. Handled(World, v, p)
  BY <1>7, <1>9, <1>10, HandledTransitive, Zenon
<1> HIDE DEF v
<1>12. controller' = v.c /\ portToSelection' = v.sel /\ aborted' = ~v.ok
  BY <1>5 DEF Becomes
<1>13. reconfigurations = 0 => ~aborted'
  BY <1>11, <1>12, WorldFields, Zenon DEF LacpInv, Undisturbed, Handled, KeepsOk
<1>14. reconfigurations = 0 => up'[p]
  BY <1>2, Zenon DEF LacpInv, Undisturbed
<1>15. DOMAIN up' = Ports /\ \A q \in Ports : q # p => up'[q] = up[q]
  BY <1>2, Zenon DEF LacpInv
<1> QED BY <1>2, <1>11, <1>12, <1>13, <1>14, <1>15, HandledStep, Zenon

LEMMA Fresh ==
  ASSUME NEW p \in Ports
  PROVE  /\ Base(NewController(p), p)
         /\ NewController(p).rx = "INITIALIZED" /\ ~NewController(p).epoch
         /\ ~NewController(p).forwarding
<1> DEFINE a == {"AGGREGATABLE", "SHORT_TIMEOUT"}
                  \cup (IF p \in Passive THEN {} ELSE {"ACTIVE"})
           s == << >>
<1>1. a \subseteq LacpState /\ "AGGREGATABLE" \in a
  BY Zenon DEF LacpState
<1>2. DefaultInfo \in Infos
  BY DEF DefaultInfo, Infos, Ids
<1>3. s \in Seq(Frames)
  OBVIOUS
<1>4. NewController(p) =
        [id |-> p, actorState |-> a, partnerInfo |-> DefaultInfo,
         rx |-> "INITIALIZED", epoch |-> FALSE,
         mux |-> "DETACHED", matched |-> FALSE, chosen |-> FALSE, wait |-> FALSE,
         period |-> FALSE, transmissionsLeft |-> MAX_TRANSMISSIONS_IN_SHORT_PERIOD,
         noBuffer |-> FALSE, forwarding |-> FALSE, wire |-> s]
  BY Zenon DEF NewController
<1> DEFINE c == NewController(p)
<1> HIDE DEF a, s, c
<1>5. DOMAIN c = Fields
  BY <1>4, Zenon DEF Fields, c
<1>6. /\ c.id = p /\ c.actorState = a /\ c.partnerInfo = DefaultInfo /\ c.wire = s
      /\ c.rx = "INITIALIZED" /\ c.epoch = FALSE /\ c.forwarding = FALSE
  BY <1>4 DEF c
<1>7. Base(c, p)
  BY <1>1, <1>2, <1>3, <1>5, <1>6, Zenon DEF Base
<1> QED BY <1>6, <1>7 DEF c

LEMMA ReconfigureStep ==
  ASSUME LacpInv, NEW lag, NEW ports \in SUBSET Ports, Reconfigure(lag, ports)
  PROVE  LacpInv'
<1> DEFINE old == PortsOf(lag)
           N(p) == [NewController(p) EXCEPT !.wire = controller[p].wire,
                                            !.forwarding = controller[p].forwarding]
<1>1. /\ reconfigurations' = reconfigurations + 1
      /\ members' = (members \ old) \cup ports
      /\ controller' = [p \in Ports |-> IF p \in old \cup ports THEN N(p) ELSE controller[p]]
      /\ UNCHANGED <<portToSelection, up>>
  BY Zenon DEF Reconfigure, AggregatePortDelta
<1>2. ASSUME NEW p \in Ports PROVE Safe(N(p), p) /\ N(p).rx = "INITIALIZED"
  <2>1. controller[p].wire \in Seq(Frames)
    BY WorldFields, Zenon DEF LacpInv, GoodWorld, Safe, Base
  <2> DEFINE c == NewController(p)
             d == [c EXCEPT !.wire = controller[p].wire, !.forwarding = controller[p].forwarding]
  <2>2. Base(c, p) /\ c.rx = "INITIALIZED" /\ ~c.epoch
    BY Fresh
  <2> HIDE DEF c
  <2>3. Base(d, p) /\ d.rx = "INITIALIZED" /\ ~d.epoch
    BY <2>1, <2>2, Zenon DEF Base, Fields
  <2> HIDE DEF d
  <2>4. Safe(d, p) /\ d.rx = "INITIALIZED"
    BY <2>3, Zenon DEF Safe
  <2> QED BY <2>4, Zenon DEF d, c
<1> HIDE DEF N, old
<1>3. GoodWorld(World')
  <2>1. /\ World'.c = controller' /\ World'.sel = portToSelection'
        /\ DOMAIN World' = {"c", "sel", "ok"}
    BY Zenon DEF World
  <2>2. DOMAIN controller' = Ports
    BY <1>1, Zenon
  <2>3. ASSUME NEW q \in Ports PROVE Safe(controller'[q], q)
    <3>1. Safe(controller[q], q)
      BY WorldFields, Zenon DEF LacpInv, GoodWorld
    <3> QED BY <1>1, <1>2, <3>1, Zenon
  <2>4. Table(portToSelection')
    BY <1>1, WorldFields, Zenon DEF LacpInv, GoodWorld
  <2> QED BY <2>1, <2>2, <2>3, <2>4, Zenon DEF GoodWorld
<1>4. ASSUME NEW q \in members', Started(q)' PROVE Current(World, q)'
  <2>1. members' \subseteq Ports /\ q \in Ports
    BY <1>1, Zenon DEF LacpInv
  <2>2. q \notin old \cup ports /\ controller'[q] = controller[q]
    BY <1>1, <1>2, <1>4, <2>1, Zenon DEF Started
  <2>3. q \in members /\ Started(q)
    BY <1>1, <1>4, <2>2, Zenon DEF Started
  <2>4. Current(World, q)
    BY <2>3, Zenon DEF LacpInv
  <2> QED BY <1>1, <2>2, <2>4, Zenon DEF Current, targetLagID, World
<1>5. members' \subseteq Ports /\ reconfigurations' \in Nat /\ reconfigurations' # 0
  BY <1>1 DEF LacpInv
<1> QED BY <1>1, <1>3, <1>4, <1>5 DEF LacpInv

LEMMA UnnoticedStep ==
  ASSUME LacpInv, NEW lag, NEW ports \in SUBSET Ports, ReconfigureUnnoticed(lag, ports)
  PROVE  LacpInv'
<1>1. /\ reconfigurations' = reconfigurations + 1
      /\ UNCHANGED <<controller, members, portToSelection, up>>
  BY Zenon DEF ReconfigureUnnoticed, AggregatePortDelta
<1>2. reconfigurations' \in Nat /\ reconfigurations' # 0
  BY <1>1 DEF LacpInv
<1>3. World' = World
  BY <1>1, Zenon DEF World
<1>4. \A p \in members : Started(p)' = Started(p)
  BY <1>1, Zenon DEF Started
<1> QED BY <1>1, <1>2, <1>3, <1>4, Zenon DEF LacpInv, Current, targetLagID, GoodWorld

LEMMA InitInv == ASSUME Init PROVE LacpInv
<1>1. GoodWorld(World)
  <2>1. DOMAIN controller = Ports /\ \A q \in Ports : controller[q] = NewController(q)
    BY Zenon DEF Init
  <2>2. ASSUME NEW q \in Ports PROVE Safe(controller[q], q)
    BY <2>1, Fresh, Zenon DEF Safe
  <2>3. Table(portToSelection)
    <3>1. DOMAIN portToSelection = Ports /\ \A q \in Ports : portToSelection[q] = NoSelection
      BY Zenon DEF Init
    <3> QED BY <3>1 DEF Table, GoodSelection, MinLinks, Aggregatable
  <2> QED BY <2>1, <2>2, <2>3, WorldFields DEF GoodWorld
<1>2. \A p \in Ports : controller[p] = NewController(p)
  BY Zenon DEF Init
<1>3. \A p \in members : ~Started(p)
  BY <1>2, Fresh, Zenon DEF Init, Started
<1>4. Undisturbed
  BY <1>2, Fresh, Zenon DEF Init, Undisturbed, Steady
<1> QED BY <1>1, <1>3, <1>4, Zenon DEF LacpInv, Init

LEMMA UnchangedStep ==
  ASSUME LacpInv, UNCHANGED vars
  PROVE  LacpInv'
<1>1. World' = World
  BY Zenon DEF vars, World
<1>2. \A p : Started(p)' = Started(p)
  BY Zenon DEF vars, Started
<1>3. Undisturbed' = Undisturbed
  BY SMTT(20) DEF vars, Undisturbed
<1> QED BY <1>1, <1>2, <1>3, Zenon DEF LacpInv, vars, Current, targetLagID, GoodWorld

LEMMA NextStep ==
  ASSUME LacpInv, Next
  PROVE  LacpInv'
<1>1. ASSUME NEW p \in Ports,
             \/ Start(p) \/ PortUp(p) \/ PortDown(p)
             \/ Received(p) \/ Lose(p)
             \/ \E pdu \in StrangerPDUs : ReceivedFromStranger(p, pdu)
             \/ ReceiveTimeout(p) \/ PeriodicTimeout(p) \/ TransmitTimeout(p) \/ MuxTimeout(p)
             \/ BufferShortage(p) \/ BufferFreed(p)
      PROVE  LacpInv'
  <2>1. CASE Start(p)
    BY <2>1, StartStep
  <2>2. CASE PortUp(p)
    BY <2>2, PortUpStep
  <2>3. CASE PortDown(p)
    BY <2>3, PortDownStep
  <2>4. CASE Received(p)
    BY <2>4, ReceivedStep
  <2>5. CASE Lose(p)
    BY <2>5, LoseStep
  <2>6. CASE \E pdu \in StrangerPDUs : ReceivedFromStranger(p, pdu)
    BY <2>6, StrangerStep
  <2>7. CASE ReceiveTimeout(p)
    BY <2>7, ReceiveTimeoutStep
  <2>8. CASE \/ PeriodicTimeout(p) \/ TransmitTimeout(p) \/ MuxTimeout(p)
             \/ BufferShortage(p) \/ BufferFreed(p)
    BY <2>8, OwnPortSteps, Zenon
  <2> QED BY <1>1, <2>1, <2>2, <2>3, <2>4, <2>5, <2>6, <2>7, <2>8
<1>2. ASSUME NEW lag \in {Lag[p] : p \in Ports}, NEW ports \in SUBSET Ports,
             Reconfigure(lag, ports) \/ ReconfigureUnnoticed(lag, ports)
      PROVE  LacpInv'
  BY <1>2, ReconfigureStep, UnnoticedStep
<1> QED BY <1>1, <1>2, Zenon DEF Next

-----------------------------------------------------------------------------
(* The theorems.                                                           *)

\* The invariant of the LACP event base: what every handler posted to it finds and
\* leaves (LinkAggregationManager.cpp, LacpController.cpp, LacpMachines.cpp).
THEOREM LacpInvariant == Spec => []LacpInv
<1>1. Init => LacpInv
  BY InitInv
<1>2. LacpInv /\ [Next]_vars => LacpInv'
  BY NextStep, UnchangedStep
<1> QED BY <1>1, <1>2, PTL DEF Spec

\* As long as no aggregate is reconfigured, no CHECK and no LOG(FATAL) of the LACP
\* event base is reached: ReceiveMachine::portUp finds its machine DISABLED,
\* ReceiveMachine::timeoutExpired fires in CURRENT or EXPIRED only, and every
\* port a Selector signals has a controller (getControllersFor).
THEOREM EventBaseNeverAborts == Spec => []NoAbort
<1>1. LacpInv => NoAbort
  BY Zenon DEF LacpInv, Undisturbed, NoAbort
<1> QED BY <1>1, LacpInvariant, PTL

\* As long as no aggregate is reconfigured, a port whose receive machine is DISABLED
\* (ReceiveMachine::disabled) neither collects nor distributes, and the switch has
\* last been told not to forward on it (MuxMachine::disableCollectingDistributing).
THEOREM DownPortsDoNotForward == Spec => []DownPortNotForwarding
<1>1. LacpInv => DownPortNotForwarding
  <2> SUFFICES ASSUME LacpInv, reconfigurations = 0, NEW p \in members,
                      controller[p].rx = "DISABLED"
               PROVE  controller[p].mux # "COLLECTING_DISTRIBUTING" /\ ~controller[p].forwarding
    BY Zenon DEF DownPortNotForwarding
  <2>1. p \in Ports /\ Safe(controller[p], p) /\ Steady(controller[p])
    BY WorldFields, Zenon DEF LacpInv, GoodWorld, Undisturbed
  <2> QED BY <2>1, Zenon DEF Safe, Steady
<1> QED BY <1>1, LacpInvariant, PTL

\* A LAG has either no SELECTED port or at least AggregatePort's minimum link count
\* of them, whatever ports come, go and are reconfigured (Selector::select,
\* Selector::unselected).
THEOREM LagsKeepMinLinks == Spec => []MinLinksSelected
<1>1. LacpInv => MinLinksSelected
  <2>1. LacpInv => MinLinks(portToSelection)
    BY WorldFields, Zenon DEF LacpInv, GoodWorld, Table
  <2> QED BY <2>1, Zenon DEF MinLinks, MinLinksSelected
<1> QED BY <1>1, LacpInvariant, PTL

\* The selection of a started port is for the LAG that its partner's last LACPDU
\* identifies, reconfigurations included (ReceiveMachine::current, defaulted,
\* initialize and LacpController::unselected).
THEOREM SelectionsFollowPartners == Spec => []SelectionIsCurrent
<1>1. LacpInv => SelectionIsCurrent
  BY WorldFields DEF LacpInv, SelectionIsCurrent, Current
<1> QED BY <1>1, LacpInvariant, PTL

=============================================================================
