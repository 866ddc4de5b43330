-------------------------- MODULE StateObserversProofs --------------------------
(***************************************************************************)
(* The observers of the SwitchState, for any routes, labels, interfaces,   *)
(* neighbours and mirrors and any number of changes: the use counts and    *)
(* the probes match the state, the process ends only over a next hop that  *)
(* names an interface that is gone, and a mirror at rest is current.       *)
(***************************************************************************)
EXTENDS StateObservers, FiniteSetTheorems, SequenceTheorems, WellFoundedInduction, TLAPS

-----------------------------------------------------------------------------
(* Induction.                                                              *)

(* A nonempty set of naturals has a least element, which Min gives.        *)
LEMMA LeastNatural ==
  ASSUME NEW T \in SUBSET Nat, T # {}
  PROVE  /\ \E i \in T : \A j \in T : i <= j
         /\ Min(T) \in T /\ \A j \in T : Min(T) <= j
<1> DEFINE R == {p \in Nat \X Nat : p[1] < p[2]}
<1>1. IsWellFoundedOn(R, Nat)
  BY NatLessThanWellFounded, Zenon DEF OpToRel
<1> HIDE DEF R
<1>2. \E i \in T : \A j \in T : ~(<<j, i>> \in R)
  BY <1>1, WFMin, Zenon
<1>3. \A i, j \in Nat : ~(<<j, i>> \in R) => i <= j
  BY DEF R
<1>4. \E i \in T : \A j \in T : i <= j
  BY <1>2, <1>3, Zenon
<1> QED BY <1>4, Zenon DEF Min

(* A set that has 0 and with every number below n the next one has all of  *)
(* them.                                                                   *)
LEMMA Induction ==
  ASSUME NEW n \in Nat, NEW S, 0 \in S,
         \A i \in 0 .. n - 1 : i \in S => i + 1 \in S
  PROVE  \A i \in 0 .. n : i \in S
<1> DEFINE T == {i \in 0 .. n : i \notin S}
<1>1. SUFFICES ASSUME T # {} PROVE FALSE
  OBVIOUS
<1>2. T \in SUBSET Nat
  OBVIOUS
<1>3. PICK k \in T : \A j \in T : k <= j
  <2> HIDE DEF T
  <2> QED BY <1>1, <1>2, LeastNatural, Zenon
<1>4. k \in 0 .. n /\ k \notin S /\ k # 0
  BY <1>3
<1>5. k - 1 \in 0 .. n - 1 /\ k - 1 + 1 = k
  BY <1>4
<1>6. k - 1 \in S
  <2>1. k - 1 \in 0 .. n /\ ~(k <= k - 1)
    BY <1>4
  <2> QED BY <1>3, <2>1
<1> QED BY <1>4, <1>5, <1>6

-----------------------------------------------------------------------------
(* Sequences.                                                              *)

IsSequence(q) ==
  Len(q) \in Nat /\ DOMAIN q = 1 .. Len(q) /\ q = [i \in 1 .. Len(q) |-> q[i]]

LEMMA SeqIsSequence ==
  ASSUME NEW S, NEW q \in Seq(S)
  PROVE  IsSequence(q) /\ \A i \in 1 .. Len(q) : q[i] \in S
<1>1. /\ Len(q) \in Nat /\ q \in [1 .. Len(q) -> S] /\ DOMAIN q = 1 .. Len(q)
  BY LenProperties
<1> QED BY <1>1 DEF IsSequence

LEMMA SequenceIsSeq ==
  ASSUME NEW q, IsSequence(q), NEW S, \A i \in 1 .. Len(q) : q[i] \in S
  PROVE  q \in Seq(S)
<1>1. q \in [1 .. Len(q) -> S] /\ Len(q) \in Nat
  BY DEF IsSequence
<1> QED BY <1>1

LEMMA AppendSequence ==
  ASSUME NEW q, IsSequence(q), NEW x
  PROVE  /\ IsSequence(Append(q, x)) /\ Len(Append(q, x)) = Len(q) + 1
         /\ \A i \in 1 .. Len(q) : Append(q, x)[i] = q[i]
         /\ Append(q, x)[Len(q) + 1] = x
<1> DEFINE S == {q[i] : i \in 1 .. Len(q)} \cup {x}
<1>1. q \in Seq(S)
  <2>1. \A i \in 1 .. Len(q) : q[i] \in S
    OBVIOUS
  <2> HIDE DEF S
  <2> QED BY <2>1, SequenceIsSeq
<1>2. x \in S
  OBVIOUS
<1> HIDE DEF S
<1>3. /\ Append(q, x) \in Seq(S) /\ Len(Append(q, x)) = Len(q) + 1
      /\ \A i \in 1 .. Len(q) : Append(q, x)[i] = q[i]
      /\ Append(q, x)[Len(q) + 1] = x
  BY <1>1, <1>2, AppendProperties
<1>4. IsSequence(Append(q, x))
  BY <1>3, SeqIsSequence, Zenon
<1> QED BY <1>3, <1>4

LEMMA SubSeqSequence ==
  ASSUME NEW q, IsSequence(q), NEW m \in 1 .. Len(q) + 1, NEW n \in 0 .. Len(q), m <= n + 1
  PROVE  /\ IsSequence(SubSeq(q, m, n)) /\ Len(SubSeq(q, m, n)) = n - m + 1
         /\ \A i \in 1 .. n - m + 1 : SubSeq(q, m, n)[i] = q[m + i - 1]
<1> DEFINE S == {q[i] : i \in 1 .. Len(q)}
<1>0. Len(q) \in Nat
  BY DEF IsSequence
<1>1. \A i \in m .. n : q[i] \in S
  BY <1>0
<1> HIDE DEF S
<1>2. /\ SubSeq(q, m, n) \in Seq(S)
      /\ Len(SubSeq(q, m, n)) = IF m <= n THEN n - m + 1 ELSE 0
      /\ \A i \in 1 .. n - m + 1 : SubSeq(q, m, n)[i] = q[m + i - 1]
  BY <1>0, <1>1, SubSeqProperties
<1>3. IsSequence(SubSeq(q, m, n))
  BY <1>2, SeqIsSequence, Zenon
<1> QED BY <1>0, <1>2, <1>3

-----------------------------------------------------------------------------
(* The inductive invariant.                                                *)

\* A port that was found or configured is not 0, and only a mirror with a
\* destination has a tunnel.
MirrorOK(m) ==
  /\ DOMAIN m = {"kind", "port", "configHasEgressPort", "tunnel"}
  /\ m.configHasEgressPort \in BOOLEAN
  /\ m.configHasEgressPort => m.port # 0
  /\ m.tunnel # NoTunnel => hasDestinationIp(m) /\ m.port # 0

StateOK(s) ==
  /\ DOMAIN s = {"intfs", "routes", "labels", "nbrs", "mirror"}
  /\ DOMAIN s.routes = RoutePrefixes
  /\ \A p \in RoutePrefixes : s.routes[p].hops \subseteq Hops
  /\ DOMAIN s.nbrs = Addresses /\ \A a \in Addresses : s.nbrs[a] \in Entries
  /\ MirrorOK(s.mirror)

\* The closures that are queued.
UpdateOK(u) ==
  \/ u.op = "route" /\ u.key \in RoutePrefixes /\ u.value.hops \subseteq Hops
  \/ u.op = "label"
  \/ u.op \in {"neighbor", "pending"} /\ u.key \in Addresses /\ u.value \in Entries
  \/ u.op = "interface"
  \/ u.op = "mirror" /\ u.value \in MirrorConfigs \cup {NoMirror}
  \/ u.op = "resolve"

QueueOK == IsSequence(queue) /\ \A i \in 1 .. Len(queue) : UpdateOK(queue[i])

SchedulerOK ==
  /\ DOMAIN scheduler = {"useCount", "probe", "fatal"}
  /\ scheduler.useCount \in [Hops -> Int] /\ DOMAIN scheduler.probe = Hops
  /\ scheduler.fatal \in BOOLEAN /\ crashed \in BOOLEAN

TypeInv == StateOK(st) /\ StateOK(old) /\ QueueOK /\ SchedulerOK

\* The probes match the state that the observers know.  Timeouts stop a probe
\* only if the interface is gone since.
ProbeInv ==
  Alive => \A h \in Hops :
    /\ scheduler.useCount[h] = uses(old, h)
    /\ scheduler.probe[h] = "none" <=> uses(old, h) = 0
    /\ uses(old, h) > 0 => IntfOf[h] \in old.intfs
    /\ \/ scheduler.probe[h] = "started" <=> uses(old, h) > 0 /\ shouldProbe(old, h)
       \/ old.intfs # st.intfs

\* MirrorIsCurrent, of a mirror and the state it was found in.
Current(m, s) ==
  IF m.tunnel # NoTunnel
  THEN \E h \in resolveMirrorNextHops(s) :
         /\ m.tunnel.intf = IntfOf[h]
         /\ neighborOf(s, h) = [mac |-> m.tunnel.mac, port |-> m.port]
  ELSE hasDestinationIp(m) => \A h \in resolveMirrorNextHops(s) :
         \/ neighborOf(s, h) \in {NoEntry, Pending}
         \/ neighborOf(s, h).port \in Trunks
         \/ m.port # 0 /\ neighborOf(s, h).port # m.port

\* No closure is queued that finds the mirror's way.
NoResolve == \A i \in 1 .. Len(queue) : queue[i].op # "resolve"

MirrorInv == Alive /\ ~untold /\ NoResolve => Current(st.mirror, old)

IInv == TypeInv /\ ProbeInv /\ DiesOnlyOverNamedInterface /\ MirrorInv

-----------------------------------------------------------------------------
(* The use counts.                                                         *)

\* Two subsets of S that differ only in C.
DifferIn(S, A, B, C) ==
  /\ A \in SUBSET S /\ B \in SUBSET S
  /\ \A x \in S : x \notin C => (x \in A <=> x \in B)

\* B has as many elements as A, but for those in C.
Counted(A, B, C) ==
  /\ Cardinality(A) \in Nat /\ Cardinality(B) \in Nat
  /\ Cardinality(A \cap C) \in Nat /\ Cardinality(B \cap C) \in Nat
  /\ Cardinality(B) = Cardinality(A) + Cardinality(B \cap C) - Cardinality(A \cap C)

LEMMA CountChanged ==
  ASSUME NEW S, IsFiniteSet(S), NEW A, NEW B, NEW C, DifferIn(S, A, B, C)
  PROVE  Counted(A, B, C)
<1>1. IsFiniteSet(A) /\ IsFiniteSet(B)
  BY FS_Subset DEF DifferIn
<1>2. A \cap C \in SUBSET A /\ B \cap C \in SUBSET B
  OBVIOUS
<1>3. IsFiniteSet(A \cap C) /\ IsFiniteSet(B \cap C)
  BY <1>1, <1>2, FS_Subset
<1>4. /\ Cardinality(A) \in Nat /\ Cardinality(B) \in Nat
      /\ Cardinality(A \cap C) \in Nat /\ Cardinality(B \cap C) \in Nat
  BY <1>1, <1>3, FS_CardinalityType
<1>5. /\ Cardinality(A \ C) = Cardinality(A) - Cardinality(A \cap C)
      /\ Cardinality(B \ C) = Cardinality(B) - Cardinality(B \cap C)
  BY <1>1, FS_Difference, Zenon
<1>6. A \ C = B \ C
  BY DEF DifferIn
<1>7. Cardinality(A \ C) = Cardinality(B \ C)
  BY <1>6, Zenon
<1> QED BY <1>4, <1>5, <1>7 DEF Counted

(* Counting the changed entries only is counting them all.                 *)
LEMMA CountDelta ==
  ASSUME NEW o, NEW n, DOMAIN n.routes = RoutePrefixes, NEW h
  PROVE  /\ uses(o, h) \in Nat /\ uses(n, h) \in Nat
         /\ occurrences(h, n, o, n) \in Nat /\ occurrences(h, o, o, n) \in Nat
         /\ uses(n, h) = uses(o, h) + occurrences(h, n, o, n) - occurrences(h, o, o, n)
<1> DEFINE A == {p \in RoutePrefixes : h \in routeHops(o, p)}
           B == {p \in RoutePrefixes : h \in routeHops(n, p)}
           C == changedRoutes(o, n)
           D == {l \in Labels : h \in labelHops(o, l)}
           E == {l \in Labels : h \in labelHops(n, l)}
           F == changedLabels(o, n)
<1>1. DifferIn(RoutePrefixes, A, B, C)
  BY DEF DifferIn, changedRoutes, routeHops
<1>2. DifferIn(Labels, D, E, F)
  BY DEF DifferIn, changedLabels, labelHops
<1>3. /\ {p \in C : h \in routeHops(n, p)} = B \cap C /\ {p \in C : h \in routeHops(o, p)} = A \cap C
      /\ {l \in F : h \in labelHops(n, l)} = E \cap F /\ {l \in F : h \in labelHops(o, l)} = D \cap F
  BY DEF changedRoutes, changedLabels
<1>5. /\ uses(o, h) = Cardinality(A) + Cardinality(D) /\ uses(n, h) = Cardinality(B) + Cardinality(E)
      /\ occurrences(h, n, o, n) = Cardinality(B \cap C) + Cardinality(E \cap F)
      /\ occurrences(h, o, o, n) = Cardinality(A \cap C) + Cardinality(D \cap F)
  BY <1>3, Zenon DEF uses, occurrences
<1>4. IsFiniteSet(RoutePrefixes) /\ IsFiniteSet(Labels)
  BY ObserversAssumption
<1> HIDE DEF A, B, C, D, E, F
<1>6. Counted(A, B, C)
  BY <1>1, <1>4, CountChanged
<1>7. Counted(D, E, F)
  BY <1>2, <1>4, CountChanged
<1> QED BY <1>5, <1>6, <1>7 DEF Counted

(* A next hop in use is one of a route or of a label entry.                *)
LEMMA UsedHop ==
  ASSUME NEW s, NEW h, uses(s, h) > 0
  PROVE  \/ \E p \in RoutePrefixes : h \in routeHops(s, p)
         \/ \E l \in Labels : h \in labelHops(s, l)
<1> SUFFICES ASSUME ~\E p \in RoutePrefixes : h \in routeHops(s, p),
                    ~\E l \in Labels : h \in labelHops(s, l)
             PROVE  FALSE
  OBVIOUS
<1>1. {p \in RoutePrefixes : h \in routeHops(s, p)} = {} /\ {l \in Labels : h \in labelHops(s, l)} = {}
  OBVIOUS
<1>2. uses(s, h) = 0 + 0
  BY <1>1, FS_EmptySet DEF uses
<1> QED BY <1>2

\* A next hop that was programmed with its interface, and the interface is gone:
\* what DiesOnlyOverNamedInterface asks for.
NamesInterface(s) ==
  \/ \E l \in Labels : \E h \in s.labels[l].hops : IntfOf[h] \notin s.intfs
  \/ \E p \in RoutePrefixes : \E h \in s.routes[p].hops \cap LinkLocal : IntfOf[h] \notin s.intfs

(* Only such a next hop is in use without its interface.                   *)
LEMMA UsedWithoutInterface ==
  ASSUME NEW s, NEW h, uses(s, h) > 0, IntfOf[h] \notin s.intfs
  PROVE  NamesInterface(s)
<1>1. CASE \E p \in RoutePrefixes : h \in routeHops(s, p)
  BY <1>1 DEF routeHops, forwardInfo, NamesInterface
<1>2. CASE \E l \in Labels : h \in labelHops(s, l)
  BY <1>2 DEF labelHops, NamesInterface
<1> QED BY <1>1, <1>2, UsedHop

\* What the scheduler s knows of state s2: the counts, and which next hops have a probe.
Knows(s, s2) ==
  \A h \in Hops : s.useCount[h] = uses(s2, h) /\ (s.probe[h] = "none" <=> uses(s2, h) = 0)

SchedulerShape(s) ==
  /\ DOMAIN s = {"useCount", "probe", "fatal"}
  /\ s.useCount \in [Hops -> Int] /\ DOMAIN s.probe = Hops

(* Counted delta by delta, the use counts are those of the new state, and  *)
(* no CHECK fails.                                                         *)
LEMMA ProcessChanged ==
  ASSUME NEW s, SchedulerShape(s), NEW o, NEW n, DOMAIN n.routes = RoutePrefixes, Knows(s, o),
         NEW c, c = processChangedResolvedNexthops(s, added(o, n), removed(o, n))
  PROVE  /\ SchedulerShape(c) /\ Knows(c, n) /\ c.fatal = s.fatal
         /\ \A h \in Hops : s.useCount[h] # 0 /\ uses(n, h) # 0 => c.probe[h] = s.probe[h]
<1> DEFINE k == [h \in Hops |-> s.useCount[h] + added(o, n)[h] - removed(o, n)[h]]
           q == [h \in Hops |-> IF k[h] = 0 THEN "none"
                                ELSE IF s.useCount[h] = 0 THEN "stopped" ELSE s.probe[h]]
<1>1. \A h \in Hops : k[h] = uses(n, h) /\ uses(n, h) \in Nat
  <2>1. ASSUME NEW h \in Hops PROVE k[h] = uses(n, h) /\ uses(n, h) \in Nat
    <3>1. k[h] = uses(o, h) + occurrences(h, n, o, n) - occurrences(h, o, o, n)
      BY DEF Knows, added, removed
    <3> HIDE DEF k
    <3> QED BY <3>1, CountDelta
  <2> QED BY <2>1
<1>2. ~\E h \in Hops : k[h] < 0
  <2> HIDE DEF k
  <2> QED BY <1>1
<1>3. c = [s EXCEPT !.useCount = k, !.probe = q]
  BY <1>2 DEF processChangedResolvedNexthops
<1>4. DOMAIN k = Hops /\ DOMAIN q = Hops /\ k = [h \in Hops |-> k[h]]
  OBVIOUS
<1>5. \A h \in Hops : q[h] = IF k[h] = 0 THEN "none"
                             ELSE IF s.useCount[h] = 0 THEN "stopped" ELSE s.probe[h]
  OBVIOUS
<1> HIDE DEF k, q
<1>6. /\ DOMAIN c = {"useCount", "probe", "fatal"} /\ c.useCount = k /\ c.probe = q
      /\ c.fatal = s.fatal
  BY <1>3 DEF SchedulerShape
<1>7. k \in [Hops -> Int]
  BY <1>1, <1>4
<1>8. \A h \in Hops : s.useCount[h] # 0 => s.probe[h] # "none"
  BY DEF Knows
<1>9. Knows(c, n)
  BY <1>1, <1>5, <1>6, <1>8 DEF Knows
<1> QED BY <1>1, <1>4, <1>5, <1>6, <1>7, <1>9 DEF SchedulerShape

\* The probes that run are those of state s2, and so are the interfaces there.
Probes(s, s2) ==
  \A h \in Hops :
    /\ uses(s2, h) > 0 => IntfOf[h] \in s2.intfs
    /\ s.probe[h] = "started" <=> uses(s2, h) > 0 /\ shouldProbe(s2, h)

(* schedule() throws over a next hop without its interface only, and       *)
(* otherwise starts the right probes.                                      *)
LEMMA Scheduled ==
  ASSUME NEW s, SchedulerShape(s), NEW n, Knows(s, n), s.fatal = FALSE, NEW t, t = schedule(s, n)
  PROVE  /\ SchedulerShape(t) /\ t.fatal \in BOOLEAN
         /\ t.fatal => NamesInterface(n)
         /\ ~t.fatal => Knows(t, n) /\ Probes(t, n)
<1>1. CASE \E h \in Hops : s.useCount[h] > 0 /\ IntfOf[h] \notin n.intfs
  <2>1. PICK h \in Hops : s.useCount[h] > 0 /\ IntfOf[h] \notin n.intfs
    BY <1>1
  <2>2. NamesInterface(n)
    BY <2>1, UsedWithoutInterface DEF Knows
  <2>3. t = [s EXCEPT !.fatal = TRUE]
    BY <1>1 DEF schedule
  <2> QED BY <2>2, <2>3 DEF SchedulerShape
<1>2. CASE ~\E h \in Hops : s.useCount[h] > 0 /\ IntfOf[h] \notin n.intfs
  <2> DEFINE q == [h \in Hops |-> IF s.useCount[h] = 0 THEN s.probe[h]
                                  ELSE IF shouldProbe(n, h) THEN "started" ELSE "stopped"]
  <2>1. t = [s EXCEPT !.probe = q]
    BY <1>2 DEF schedule
  <2>2. DOMAIN q = Hops
    OBVIOUS
  <2>3. \A h \in Hops : q[h] = IF s.useCount[h] = 0 THEN s.probe[h]
                               ELSE IF shouldProbe(n, h) THEN "started" ELSE "stopped"
    OBVIOUS
  <2> HIDE DEF q
  <2>4. /\ DOMAIN t = {"useCount", "probe", "fatal"} /\ t.useCount = s.useCount /\ t.probe = q
        /\ t.fatal = FALSE
    BY <2>1 DEF SchedulerShape
  <2>5. SchedulerShape(t)
    BY <2>2, <2>4 DEF SchedulerShape
  <2>6. \A h \in Hops : s.useCount[h] = uses(n, h) /\ (s.probe[h] = "none" <=> uses(n, h) = 0)
                        /\ uses(n, h) \in Nat
    <3>1. \A h : uses(n, h) \in Nat
      <4>1. IsFiniteSet(RoutePrefixes) /\ IsFiniteSet(Labels)
        BY ObserversAssumption
      <4>2. \A h : {p \in RoutePrefixes : h \in routeHops(n, p)} \in SUBSET RoutePrefixes
                   /\ {l \in Labels : h \in labelHops(n, l)} \in SUBSET Labels
        OBVIOUS
      <4>3. \A h : /\ Cardinality({p \in RoutePrefixes : h \in routeHops(n, p)}) \in Nat
                   /\ Cardinality({l \in Labels : h \in labelHops(n, l)}) \in Nat
        BY <4>1, <4>2, FS_Subset, FS_CardinalityType
      <4> QED BY <4>3 DEF uses
    <3> QED BY <3>1 DEF Knows
  <2>7. Knows(t, n)
    BY <2>3, <2>4, <2>6 DEF Knows
  <2>8. Probes(t, n)
    BY <1>2, <2>3, <2>4, <2>6 DEF Probes
  <2> QED BY <2>4, <2>5, <2>7, <2>8, Zenon
<1> QED BY <1>1, <1>2

LEMMA NotifyProbes ==
  ASSUME IInv, NotifyStateObservers
  PROVE  SchedulerOK' /\ ProbeInv' /\ DiesOnlyOverNamedInterface'
<1>1. /\ Alive /\ scheduler' = stateUpdated(scheduler, old, st) /\ old' = st
      /\ UNCHANGED <<st, crashed>>
  BY DEF NotifyStateObservers
<1>2. /\ SchedulerShape(scheduler) /\ scheduler.fatal = FALSE /\ crashed = FALSE
      /\ DOMAIN st.routes = RoutePrefixes /\ Knows(scheduler, old)
  BY <1>1 DEF IInv, TypeInv, SchedulerOK, SchedulerShape, StateOK, ProbeInv, Knows, Alive
<1> DEFINE c == processChangedResolvedNexthops(scheduler, added(old, st), removed(old, st))
           t == schedule(c, st)
<1>3. /\ SchedulerShape(c) /\ Knows(c, st) /\ c.fatal = FALSE
      /\ \A h \in Hops : scheduler.useCount[h] # 0 /\ uses(st, h) # 0 => c.probe[h] = scheduler.probe[h]
  BY <1>2, ProcessChanged
<1>4. scheduler' = IF scheduleProbes(old, st) THEN t ELSE c
  BY <1>1, <1>3 DEF stateUpdated
<1>5. CASE scheduleProbes(old, st)
  <2>1. /\ SchedulerShape(t) /\ t.fatal \in BOOLEAN
        /\ t.fatal => NamesInterface(st)
        /\ ~t.fatal => Knows(t, st) /\ Probes(t, st)
    <3> HIDE DEF c
    <3> QED BY <1>3, Scheduled, Zenon
  <2> HIDE DEF c, t
  <2>2. scheduler' = t
    BY <1>4, <1>5
  <2>3. SchedulerOK'
    BY <1>1, <1>2, <2>1, <2>2, Zenon DEF SchedulerOK, SchedulerShape
  <2>4. DiesOnlyOverNamedInterface'
    BY <1>1, <1>2, <2>1, <2>2 DEF DiesOnlyOverNamedInterface, NamesInterface, Alive
  <2>5. ProbeInv'
    BY <1>1, <2>1, <2>2 DEF ProbeInv, Knows, Probes, Alive
  <2> QED BY <2>3, <2>4, <2>5, Zenon
<1>6. CASE ~scheduleProbes(old, st)
  <2>1. /\ old.nbrs = st.nbrs /\ old.intfs = st.intfs
        /\ \A h \in Hops : ~(added(old, st)[h] > 0) /\ ~(removed(old, st)[h] > 0)
    BY <1>6 DEF scheduleProbes
  <2>2. \A h \in Hops : uses(st, h) = uses(old, h) /\ uses(st, h) \in Nat
    <3>1. ASSUME NEW h \in Hops PROVE uses(st, h) = uses(old, h) /\ uses(st, h) \in Nat
      <4>1. ~(occurrences(h, st, old, st) > 0) /\ ~(occurrences(h, old, old, st) > 0)
        BY <2>1 DEF added, removed
      <4>2. /\ uses(old, h) \in Nat /\ uses(st, h) \in Nat
            /\ occurrences(h, st, old, st) \in Nat /\ occurrences(h, old, old, st) \in Nat
            /\ uses(st, h) = uses(old, h) + occurrences(h, st, old, st) - occurrences(h, old, old, st)
        BY <1>2, CountDelta
      <4> QED BY <4>1, <4>2
    <3> QED BY <3>1
  <2> HIDE DEF c, t
  <2>3. scheduler' = c
    BY <1>4, <1>6
  <2>4. SchedulerOK' /\ DiesOnlyOverNamedInterface'
    BY <1>1, <1>2, <1>3, <2>3, Zenon DEF SchedulerOK, SchedulerShape, DiesOnlyOverNamedInterface, Alive
  <2>5. ProbeInv'
    <3>1. ASSUME NEW h \in Hops
          PROVE  /\ c.useCount[h] = uses(st, h)
                 /\ c.probe[h] = "none" <=> uses(st, h) = 0
                 /\ uses(st, h) > 0 => IntfOf[h] \in st.intfs
                 /\ c.probe[h] = "started" <=> uses(st, h) > 0 /\ shouldProbe(st, h)
      <4>1. /\ scheduler.useCount[h] = uses(old, h)
            /\ uses(old, h) > 0 => IntfOf[h] \in old.intfs
            /\ scheduler.probe[h] = "started" <=> uses(old, h) > 0 /\ shouldProbe(old, h)
        BY <1>1, <2>1 DEF IInv, ProbeInv
      <4>2. c.useCount[h] = uses(st, h) /\ (c.probe[h] = "none" <=> uses(st, h) = 0)
        BY <1>3 DEF Knows
      <4>3. shouldProbe(st, h) <=> shouldProbe(old, h)
        BY <2>1 DEF shouldProbe
      <4> QED BY <1>3, <2>1, <2>2, <4>1, <4>2, <4>3
    <3> QED BY <1>1, <2>3, <3>1 DEF ProbeInv
  <2> QED BY <2>4, <2>5
<1> QED BY <1>5, <1>6

-----------------------------------------------------------------------------
(* Mirrors.                                                                *)

(* The next hops of the mirror's destination are next hops, and what is    *)
(* found for one is a neighbour entry.                                     *)
LEMMA MirrorHops ==
  ASSUME NEW s, StateOK(s)
  PROVE  /\ resolveMirrorNextHops(s) \subseteq Hops
         /\ \A h \in Hops : neighborOf(s, h) \in Entries
<1> DEFINE matching == {i \in DOMAIN Covers : s.routes[Covers[i]] # NoRoute}
<1>1. \A p \in RoutePrefixes : forwardInfo(s, p) \subseteq Hops
  BY DEF forwardInfo, StateOK
<1>2. CASE matching = {}
  <2>1. resolveMirrorNextHops(s) = {}
    BY <1>2 DEF resolveMirrorNextHops
  <2> QED BY <2>1 DEF neighborOf, StateOK, Addresses, Entries
<1>3. CASE matching # {}
  <2>1. matching \in SUBSET Nat /\ \A i \in matching : Covers[i] \in RoutePrefixes
    BY ObserversAssumption
  <2>2. resolveMirrorNextHops(s) = forwardInfo(s, Covers[Min(matching)])
    BY <1>3 DEF resolveMirrorNextHops
  <2> HIDE DEF matching
  <2>3. Min(matching) \in matching
    BY <1>3, <2>1, LeastNatural
  <2>4. resolveMirrorNextHops(s) \subseteq Hops
    BY <1>1, <2>1, <2>2, <2>3, Zenon
  <2> QED BY <2>4 DEF neighborOf, StateOK, Addresses, Entries
<1> QED BY <1>2, <1>3

(* An entry that is neither missing nor pending has a port.                *)
LEMMA Reachable ==
  ASSUME NEW e \in Entries, e \notin {NoEntry, Pending}
  PROVE  e = [mac |-> e.mac, port |-> e.port] /\ e.port # 0
<1>1. PICK a \in DOMAIN Locations : e \in Locations[a]
  BY DEF Entries
<1>2. e \in [mac : Nat, port : Nat \ {0}]
  BY <1>1, ObserversAssumption
<1> QED BY <1>2

(* The shapes of the records that mirrors are made of.                     *)
LEMMA MirrorShape ==
  ASSUME NEW k, NEW p
  PROVE  /\ DOMAIN Mirror(k, p) = {"kind", "port", "configHasEgressPort", "tunnel"}
         /\ Mirror(k, p).kind = k /\ Mirror(k, p).port = p
         /\ Mirror(k, p).configHasEgressPort = (p # 0) /\ Mirror(k, p).tunnel = NoTunnel
BY DEF Mirror

(* updateMirror() leaves a mirror that is current, although it may keep    *)
(* the old one.                                                            *)
LEMMA UpdateCurrent ==
  ASSUME NEW s, StateOK(s), NEW m, MirrorOK(m), hasDestinationIp(m)
  PROVE  MirrorOK(updateMirror(s, m)) /\ Current(updateMirror(s, m), s)
<1> DEFINE R == resolveMirrorNextHops(s)
           usable == {h \in R : resolveMirrorNextHopNeighbor(s, m, h)}
           new == Mirror(m.kind, m.port)
           T == resolveMirrorTunnel(s, m, Min(usable))
           P == neighborOf(s, Min(usable)).port
           found == [new EXCEPT !.tunnel = T, !.port = P]
<1>1. R \subseteq Hops /\ Hops \subseteq Nat /\ \A h \in R : neighborOf(s, h) \in Entries
  BY MirrorHops, ObserversAssumption, Zenon
<1>2. CASE usable = {}
  <2>1. updateMirror(s, m) = IF sameMirror(m, new) THEN m ELSE new
    BY <1>2 DEF updateMirror
  <2>2. /\ new.kind = m.kind /\ new.port = m.port /\ new.tunnel = NoTunnel
        /\ new.configHasEgressPort = (m.port # 0)
        /\ DOMAIN new = {"kind", "port", "configHasEgressPort", "tunnel"}
    BY MirrorShape
  <2>3. \A h \in R : \/ neighborOf(s, h) \in {NoEntry, Pending}
                     \/ neighborOf(s, h).port \in Trunks
                     \/ m.port # 0 /\ neighborOf(s, h).port # m.port
    BY <1>2 DEF resolveMirrorNextHopNeighbor, MirrorOK
  <2> HIDE DEF new, usable, R
  <2> DEFINE u == updateMirror(s, m)
  <2>4. u.tunnel = NoTunnel /\ u.port = m.port /\ MirrorOK(u)
    <3>1. CASE sameMirror(m, new)
      BY <2>1, <2>2, <3>1, Zenon DEF sameMirror
    <3>2. CASE ~sameMirror(m, new)
      <4>1. u = new
        BY <2>1, <3>2
      <4> HIDE DEF u
      <4> QED BY <4>1, <2>2 DEF MirrorOK
    <3> QED BY <3>1, <3>2
  <2> HIDE DEF u
  <2>5. Current(u, s)
    BY <2>3, <2>4 DEF Current, R
  <2> QED BY <2>4, <2>5 DEF u
<1>3. CASE usable # {}
  <2>1. updateMirror(s, m) = IF sameMirror(m, found) THEN m ELSE found
    BY <1>3 DEF updateMirror
  <2>2. usable \in SUBSET Nat
    BY <1>1, Zenon
  <2>3. Min(usable) \in usable
    <3> HIDE DEF usable
    <3> QED BY <1>3, <2>2, LeastNatural
  <2> DEFINE h0 == Min(usable)
             e == neighborOf(s, h0)
  <2>4. h0 \in R /\ resolveMirrorNextHopNeighbor(s, m, h0)
    BY <2>3
  <2>5. e \in Entries /\ e \notin {NoEntry, Pending} /\ (m.configHasEgressPort => e.port = m.port)
    <3> HIDE DEF R, usable
    <3> QED BY <1>1, <2>4, Zenon DEF resolveMirrorNextHopNeighbor
  <2>6. T = [intf |-> IntfOf[h0], mac |-> e.mac, kind |-> m.kind] /\ P = e.port
    BY DEF resolveMirrorTunnel
  <2> HIDE DEF usable, e, h0, R
  <2>7. e = [mac |-> e.mac, port |-> e.port] /\ e.port # 0
    BY <2>5, Reachable
  <2> HIDE DEF T, P
  <2>8. T # NoTunnel /\ T.intf = IntfOf[h0] /\ T.mac = e.mac
    <3>1. T.kind = m.kind /\ NoTunnel.kind = "none"
      BY <2>6 DEF NoTunnel
    <3> QED BY <2>6, <3>1 DEF hasDestinationIp
  <2>9. /\ DOMAIN found = {"kind", "port", "configHasEgressPort", "tunnel"}
        /\ found.kind = m.kind /\ found.port = e.port /\ found.tunnel = T
        /\ found.configHasEgressPort = (m.port # 0)
    <3> HIDE DEF new
    <3>1. /\ DOMAIN new = {"kind", "port", "configHasEgressPort", "tunnel"}
          /\ new.kind = m.kind /\ new.configHasEgressPort = (m.port # 0)
      BY MirrorShape DEF new
    <3> QED BY <2>6, <3>1
  <2> HIDE DEF found
  <2> DEFINE u == updateMirror(s, m)
  <2>10. u.tunnel = T /\ u.port = e.port /\ MirrorOK(u)
    <3>1. CASE sameMirror(m, found)
      <4>1. m.tunnel = T /\ u = m
        BY <2>1, <2>9, <3>1, Zenon DEF sameMirror
      <4>2. m.port # 0
        BY <2>8, <4>1 DEF MirrorOK
      <4>3. m.port = e.port
        BY <2>5, <2>9, <3>1, <4>2 DEF sameMirror, MirrorOK
      <4> HIDE DEF u
      <4> QED BY <4>1, <4>3
    <3>2. CASE ~sameMirror(m, found)
      <4>1. u = found
        BY <2>1, <3>2
      <4> HIDE DEF u
      <4> QED BY <2>7, <2>9, <4>1, Zenon DEF MirrorOK, hasDestinationIp
    <3> QED BY <3>1, <3>2
  <2> HIDE DEF u
  <2>11. Current(u, s)
    BY <2>4, <2>7, <2>8, <2>10 DEF Current, R, e
  <2> QED BY <2>10, <2>11 DEF u
<1> QED BY <1>2, <1>3

(* A configuration leaves a mirror as it has to be.                        *)
LEMMA ConfigMirror ==
  ASSUME NEW m, MirrorOK(m), NEW c \in MirrorConfigs \cup {NoMirror}
  PROVE  MirrorOK(applyMirrorConfig(m, c))
<1> DEFINE new == Mirror(c.kind, c.port)
           moved == [new EXCEPT !.tunnel = m.tunnel, !.port = m.port]
<1>1. /\ DOMAIN new = {"kind", "port", "configHasEgressPort", "tunnel"}
      /\ new.configHasEgressPort = (new.port # 0) /\ new.tunnel = NoTunnel
  BY MirrorShape
<1>2. /\ applyMirrorConfig(m, c) \in {NoMirror, new, m, moved}
      /\ applyMirrorConfig(m, c) = moved =>
           \/ moved \in {NoMirror, new, m}
           \/ m.tunnel # NoTunnel /\ hasDestinationIp(new)
  BY DEF applyMirrorConfig
<1>3. MirrorOK(NoMirror)
  BY DEF MirrorOK, NoMirror
<1> HIDE DEF new
<1>4. MirrorOK(new)
  BY <1>1, Zenon DEF MirrorOK
<1>5. /\ DOMAIN moved = {"kind", "port", "configHasEgressPort", "tunnel"} /\ moved.kind = new.kind
      /\ moved.configHasEgressPort = new.configHasEgressPort
      /\ moved.tunnel = m.tunnel /\ moved.port = m.port
  BY <1>1
<1> HIDE DEF moved
<1>6. m.tunnel # NoTunnel /\ hasDestinationIp(new) => MirrorOK(moved)
  BY <1>1, <1>5 DEF MirrorOK, hasDestinationIp
<1> QED BY <1>2, <1>3, <1>4, <1>6


-----------------------------------------------------------------------------
(* The closures of a batch.                                                *)

\* A path of the SwitchState through a batch.
BatchPath(s, q, f) ==
  f = [i \in 0 .. Len(q) |-> IF i = 0 THEN s ELSE applyUpdate(f[i - 1], q[i], s)]

(* Every batch has a path.                                                 *)
LEMMA PathExists ==
  ASSUME NEW s, NEW q, Len(q) \in Nat
  PROVE  \E f : BatchPath(s, q, f)
<1> DEFINE Upto(n, f) == f = [i \in 0 .. n |-> IF i = 0 THEN s ELSE applyUpdate(f[i - 1], q[i], s)]
           S == {n \in 0 .. Len(q) : \E f : Upto(n, f)}
<1>1. 0 \in S
  <2> DEFINE f == [i \in 0 .. 0 |-> s]
  <2>1. Upto(0, f)
    OBVIOUS
  <2>2. \E h : Upto(0, h)
    BY <2>1, Zenon
  <2> QED BY <2>2
<1>2. ASSUME NEW n \in 0 .. Len(q) - 1, n \in S
      PROVE  n + 1 \in S
  <2>1. PICK f : Upto(n, f)
    BY <1>2
  <2> DEFINE g == [i \in 0 .. n + 1 |-> IF i = n + 1 THEN applyUpdate(f[n], q[n + 1], s) ELSE f[i]]
  <2>2. \A i \in 0 .. n : f[i] = IF i = 0 THEN s ELSE applyUpdate(f[i - 1], q[i], s)
    BY <2>1, Zenon
  <2>3. ASSUME NEW i \in 0 .. n + 1
        PROVE  g[i] = IF i = 0 THEN s ELSE applyUpdate(g[i - 1], q[i], s)
    <3>1. CASE i = n + 1
      <4>1. i # 0 /\ i - 1 = n /\ g[n] = f[n]
        BY <3>1
      <4> QED BY <3>1, <4>1
    <3>2. CASE i # n + 1
      <4>1. i \in 0 .. n /\ g[i] = f[i]
        BY <3>2
      <4>2. CASE i = 0
        BY <2>2, <4>1, <4>2
      <4>3. CASE i # 0
        <5>1. i - 1 \in 0 .. n + 1 /\ i - 1 # n + 1
          BY <4>1, <4>3
        <5>2. g[i - 1] = f[i - 1]
          BY <5>1
        <5> QED BY <2>2, <4>1, <4>3, <5>2
      <4> QED BY <4>2, <4>3
    <3> QED BY <3>1, <3>2
  <2>4. Upto(n + 1, g)
    <3>1. DOMAIN g = 0 .. n + 1 /\ g = [i \in 0 .. n + 1 |-> g[i]]
      OBVIOUS
    <3> HIDE DEF g
    <3> QED BY <2>3, <3>1
  <2>5. \E h : Upto(n + 1, h)
    BY <2>4, Zenon
  <2> QED BY <2>5
<1>3. Len(q) \in S
  <2>1. \A n \in 0 .. Len(q) - 1 : n \in S => n + 1 \in S
    BY <1>2
  <2> HIDE DEF S
  <2>2. \A n \in 0 .. Len(q) : n \in S
    BY <1>1, <2>1, Induction
  <2> QED BY <2>2
<1>4. \E f : Upto(Len(q), f)
  <2> HIDE DEF Upto
  <2> QED BY <1>3
<1> QED BY <1>4, Zenon DEF BatchPath

(* The states between the closures of a batch are such a path.             *)
LEMMA AppliedIsPath ==
  ASSUME NEW q, Len(q) \in Nat
  PROVE  /\ applied(q)[0] = st
         /\ \A i \in 1 .. Len(q) : applied(q)[i] = applyUpdate(applied(q)[i - 1], q[i], st)
<1> DEFINE f == CHOOSE f : BatchPath(st, q, f)
<1>1. BatchPath(st, q, f)
  BY PathExists, Zenon
<1>2. applied(q) = f
  BY Zenon DEF applied, BatchPath
<1> HIDE DEF f
<1>3. \A i \in 0 .. Len(q) : f[i] = IF i = 0 THEN st ELSE applyUpdate(f[i - 1], q[i], st)
  BY <1>1 DEF BatchPath
<1>4. 0 \in 0 .. Len(q) /\ \A i \in 1 .. Len(q) : i \in 0 .. Len(q) /\ i # 0
  OBVIOUS
<1>5. f[0] = st /\ \A i \in 1 .. Len(q) : f[i] = applyUpdate(f[i - 1], q[i], st)
  BY <1>3, <1>4
<1> QED BY <1>2, <1>5

(* A mirror that has no destination is as it has to be.                    *)
LEMMA PlainMirror ==
  ASSUME NEW m, MirrorOK(m), ~hasDestinationIp(m), NEW s
  PROVE  Current(m, s)
BY Zenon DEF MirrorOK, Current

(* One closure: only a configuration and resolveMirrors() change a mirror. *)
LEMMA ClosureStep ==
  ASSUME NEW s, StateOK(s), NEW published, StateOK(published), NEW u, UpdateOK(u),
         NEW t, t = applyUpdate(s, u, published)
  PROVE  /\ StateOK(t)
         /\ u.op \notin {"mirror", "resolve"} => t.mirror = s.mirror
         /\ u.op = "resolve" => Current(t.mirror, published)
<1>1. CASE u.op = "route"
  <2>1. t = [s EXCEPT !.routes[u.key] = u.value]
    BY <1>1 DEF applyUpdate
  <2> QED BY <1>1, <2>1 DEF StateOK, UpdateOK
<1>2. CASE u.op = "label"
  <2>1. t = [s EXCEPT !.labels[u.key] = u.value]
    BY <1>2 DEF applyUpdate
  <2> QED BY <1>2, <2>1 DEF StateOK
<1>3. CASE u.op \in {"neighbor", "pending"}
  <2>1. t = s \/ t = [s EXCEPT !.nbrs[u.key] = u.value]
    BY <1>3 DEF applyUpdate, programEntry
  <2>2. u.key \in Addresses /\ u.value \in Entries
    BY <1>3, Zenon DEF UpdateOK
  <2> QED BY <1>3, <2>1, <2>2 DEF StateOK
<1>4. CASE u.op = "interface"
  <2>1. t = applyInterfaces(s, u.key)
    BY <1>4 DEF applyUpdate
  <2>2. /\ DOMAIN t = DOMAIN s /\ t.mirror = s.mirror
        /\ DOMAIN t.routes = RoutePrefixes
        /\ \A p \in RoutePrefixes : \/ t.routes[p] = s.routes[p] \/ t.routes[p] = NoRoute
                                    \/ p \in DOMAIN SubnetOf /\ t.routes[p] = subnetRoute(p)
        /\ DOMAIN t.nbrs = Addresses
        /\ \A a \in Addresses : t.nbrs[a] = s.nbrs[a] \/ t.nbrs[a] = NoEntry
    BY <2>1 DEF applyInterfaces, StateOK
  <2>3. NoRoute.hops = {} /\ \A p \in DOMAIN SubnetOf : subnetRoute(p).hops \subseteq Hops
    BY ObserversAssumption, Zenon DEF NoRoute, subnetRoute
  <2>4. \A p \in RoutePrefixes : t.routes[p].hops \subseteq Hops
    BY <2>2, <2>3, Zenon DEF StateOK
  <2>5. \A a \in Addresses : t.nbrs[a] \in Entries
    BY <2>2 DEF StateOK, Entries
  <2> QED BY <1>4, <2>2, <2>4, <2>5 DEF StateOK
<1>5. CASE u.op = "mirror"
  <2> DEFINE m == applyMirrorConfig(s.mirror, u.value)
  <2>1. t = [s EXCEPT !.mirror = m]
    BY <1>5, Zenon DEF applyUpdate
  <2>2. MirrorOK(m)
    BY <1>5, ConfigMirror DEF StateOK, UpdateOK
  <2> HIDE DEF m
  <2> QED BY <1>5, <2>1, <2>2 DEF StateOK
<1>6. CASE u.op = "resolve"
  <2>1. t = resolveMirrors(s, published)
    BY <1>6, Zenon DEF applyUpdate
  <2>2. MirrorOK(s.mirror)
    BY DEF StateOK
  <2>3. CASE hasDestinationIp(s.mirror)
    <3> DEFINE m == updateMirror(published, s.mirror)
    <3>1. MirrorOK(m) /\ Current(m, published)
      BY <2>2, <2>3, UpdateCurrent
    <3>2. t = [s EXCEPT !.mirror = m]
      BY <2>1, <2>3 DEF resolveMirrors
    <3> HIDE DEF m
    <3>3. t.mirror = m
      BY <3>2 DEF StateOK
    <3> QED BY <1>6, <3>1, <3>2, <3>3 DEF StateOK
  <2>4. CASE ~hasDestinationIp(s.mirror)
    <3>1. t = s
      BY <2>1, <2>4 DEF resolveMirrors
    <3> QED BY <1>6, <2>2, <2>4, <3>1, PlainMirror
  <2> QED BY <2>3, <2>4
<1> QED BY <1>1, <1>2, <1>3, <1>4, <1>5, <1>6 DEF UpdateOK

\* A batch of closures, and what each step of it leaves of the mirror.
BatchOK(q) == Len(q) \in Nat /\ \A i \in 1 .. Len(q) : UpdateOK(q[i])

NotConfigured(q) == \A i \in 1 .. Len(q) : q[i].op # "mirror"

Finds(q, i) == \E j \in 1 .. i : q[j].op = "resolve"

(* The states between the closures of a batch: without a configuration in  *)
(* it, the mirror is current once its way was looked for, and before that  *)
(* it is the one published.                                                *)
LEMMA BatchStates ==
  ASSUME StateOK(st), NEW q, BatchOK(q)
  PROVE  \A i \in 0 .. Len(q) :
           /\ StateOK(applied(q)[i])
           /\ NotConfigured(q) => IF Finds(q, i) THEN Current(applied(q)[i].mirror, st)
                                                 ELSE applied(q)[i].mirror = st.mirror
<1> DEFINE Good(i) == /\ StateOK(applied(q)[i])
                      /\ NotConfigured(q) => IF Finds(q, i) THEN Current(applied(q)[i].mirror, st)
                                                            ELSE applied(q)[i].mirror = st.mirror
           S == {i \in 0 .. Len(q) : Good(i)}
<1>1. Len(q) \in Nat /\ \A i \in 1 .. Len(q) : UpdateOK(q[i])
  BY DEF BatchOK
<1>2. /\ applied(q)[0] = st
      /\ \A i \in 1 .. Len(q) : applied(q)[i] = applyUpdate(applied(q)[i - 1], q[i], st)
  BY <1>1, AppliedIsPath
<1>3. ~Finds(q, 0)
  BY DEF Finds
<1>4. 0 \in S
  BY <1>1, <1>2, <1>3
<1>5. ASSUME NEW i \in 0 .. Len(q) - 1, Good(i) PROVE Good(i + 1)
  <2>1. i + 1 \in 1 .. Len(q) /\ i + 1 - 1 = i
    BY <1>1
  <2> DEFINE a == applied(q)[i]
             b == applied(q)[i + 1]
             u == q[i + 1]
  <2>2. b = applyUpdate(a, u, st) /\ UpdateOK(u)
    BY <1>1, <1>2, <2>1
  <2>3. StateOK(a)
    BY <1>5, Zenon
  <2>4. Finds(q, i + 1) <=> Finds(q, i) \/ u.op = "resolve"
    BY <1>1, <2>1 DEF Finds
  <2>5. NotConfigured(q) => u.op # "mirror"
    BY <2>1 DEF NotConfigured
  <2>6. NotConfigured(q) => IF Finds(q, i) THEN Current(a.mirror, st) ELSE a.mirror = st.mirror
    BY <1>5
  <2> HIDE DEF a, b, u
  <2>7. /\ StateOK(b)
        /\ u.op \notin {"mirror", "resolve"} => b.mirror = a.mirror
        /\ u.op = "resolve" => Current(b.mirror, st)
    BY <2>2, <2>3, ClosureStep, Zenon
  <2>8. NotConfigured(q) => IF Finds(q, i + 1) THEN Current(b.mirror, st) ELSE b.mirror = st.mirror
    BY <2>4, <2>5, <2>6, <2>7
  <2> QED BY <2>7, <2>8 DEF b
<1> HIDE DEF Good
<1>6. \A i \in 0 .. Len(q) - 1 : i \in S => i + 1 \in S
  BY <1>1, <1>5
<1>7. \A i \in 0 .. Len(q) : i \in S
  <2> HIDE DEF S
  <2> QED BY <1>1, <1>4, <1>6, Induction, Zenon
<1>8. \A i \in 0 .. Len(q) : Good(i)
  BY <1>7
<1> QED BY <1>8 DEF Good

-----------------------------------------------------------------------------
(* The steps.                                                              *)

(* The queue with one closure more.                                        *)
LEMMA QueueGrows ==
  ASSUME QueueOK, NEW u, UpdateOK(u), queue' = Append(queue, u)
  PROVE  /\ QueueOK'
         /\ NoResolve' <=> NoResolve /\ u.op # "resolve"
<1>1. IsSequence(queue) /\ Len(queue) \in Nat
  BY DEF QueueOK, IsSequence
<1>2. /\ IsSequence(queue') /\ Len(queue') = Len(queue) + 1 /\ queue'[Len(queue) + 1] = u
      /\ \A i \in 1 .. Len(queue) : queue'[i] = queue[i]
  BY <1>1, AppendSequence
<1>3. \A i \in 1 .. Len(queue') : i \in 1 .. Len(queue) \/ i = Len(queue) + 1
  BY <1>1, <1>2
<1>4. Len(queue) + 1 \in 1 .. Len(queue') /\ \A i \in 1 .. Len(queue) : i \in 1 .. Len(queue')
  BY <1>1, <1>2
<1>5. QueueOK'
  BY <1>2, <1>3, Zenon DEF QueueOK
<1>6. NoResolve' <=> NoResolve /\ u.op # "resolve"
  BY <1>2, <1>3, <1>4 DEF NoResolve
<1> QED BY <1>5, <1>6

(* A change only queues its closure.                                       *)
LEMMA ChangeStep ==
  ASSUME IInv, NEW u, UpdateOK(u), u.op # "resolve", Change(u)
  PROVE  IInv'
<1>1. queue' = Append(queue, u) /\ UNCHANGED <<st, old, scheduler, asked, crashed, untold>>
  BY DEF Change
<1>2. QueueOK' /\ (NoResolve' <=> NoResolve)
  BY <1>1, QueueGrows, Zenon DEF IInv, TypeInv
<1>3. TypeInv'
  BY <1>1, <1>2, Zenon DEF IInv, TypeInv, SchedulerOK
<1>4. ProbeInv'
  BY <1>1, Zenon DEF IInv, ProbeInv, Alive
<1>5. DiesOnlyOverNamedInterface'
  BY <1>1 DEF IInv, DiesOnlyOverNamedInterface, Alive
<1>6. MirrorInv'
  BY <1>1, <1>2 DEF IInv, MirrorInv, Alive
<1> QED BY <1>3, <1>4, <1>5, <1>6 DEF IInv

LEMMA ChangesStep ==
  ASSUME IInv, RouteChange \/ LabelChange \/ NeighborChange \/ InterfaceChange \/ MirrorChange
  PROVE  IInv'
<1> USE DEF update
<1>1. CASE RouteChange
  <2>1. PICK p \in DOMAIN RouteValues, r \in Routes \cup {NoRoute} :
          r \in RouteValues[p] \cup {NoRoute} /\ Change(update("route", p, r))
    BY <1>1, Zenon DEF RouteChange
  <2>2. p \in RoutePrefixes /\ r.hops \subseteq Hops
    BY <2>1, ObserversAssumption DEF NoRoute
  <2> DEFINE u == update("route", p, r)
  <2>3. UpdateOK(u) /\ u.op # "resolve"
    BY <2>2 DEF UpdateOK
  <2> QED BY <2>1, <2>3, ChangeStep, Zenon
<1>2. CASE LabelChange
  <2>1. PICK l \in Labels, r \in LabelRoutes \cup {NoRoute} : Change(update("label", l, r))
    BY <1>2, Zenon DEF LabelChange
  <2> DEFINE u == update("label", l, r)
  <2>2. UpdateOK(u) /\ u.op # "resolve"
    BY Zenon DEF UpdateOK
  <2> QED BY <2>1, <2>2, ChangeStep, Zenon
<1>3. CASE NeighborChange
  <2>1. PICK a \in DOMAIN Locations, e \in Entries \ {Pending} : Change(update("neighbor", a, e))
    BY <1>3, Zenon DEF NeighborChange
  <2>2. a \in Addresses
    BY ObserversAssumption, Zenon
  <2> DEFINE u == update("neighbor", a, e)
  <2>3. UpdateOK(u) /\ u.op # "resolve"
    BY <2>2 DEF UpdateOK
  <2> QED BY <2>1, <2>3, ChangeStep
<1>4. CASE InterfaceChange
  <2>1. PICK i \in Interfaces : Change(update("interface", i, "toggled"))
    BY <1>4 DEF InterfaceChange
  <2> DEFINE u == update("interface", i, "toggled")
  <2>2. UpdateOK(u) /\ u.op # "resolve"
    BY DEF UpdateOK
  <2> QED BY <2>1, <2>2, ChangeStep
<1>5. CASE MirrorChange
  <2>1. PICK c \in MirrorConfigs \cup {NoMirror} : Change(update("mirror", "mirror", c))
    BY <1>5, Zenon DEF MirrorChange
  <2> DEFINE u == update("mirror", "mirror", c)
  <2>2. UpdateOK(u) /\ u.op # "resolve"
    BY DEF UpdateOK
  <2> QED BY <2>1, <2>2, ChangeStep
<1> QED BY <1>1, <1>2, <1>3, <1>4, <1>5

LEMMA SentStep ==
  ASSUME IInv, NEW h \in Hops, SentRequest(h)
  PROVE  IInv'
<1> DEFINE u == update("pending", h, Pending)
<1>1. /\ queue' = queue \/ queue' = Append(queue, u)
      /\ UNCHANGED <<st, old, scheduler, crashed, untold>>
  BY Zenon DEF SentRequest
<1>2. UpdateOK(u) /\ u.op # "resolve"
  BY Zenon DEF UpdateOK, update, Addresses, Entries
<1> HIDE DEF u
<1>3. QueueOK' /\ (NoResolve' <=> NoResolve)
  BY <1>1, <1>2, QueueGrows, Zenon DEF IInv, TypeInv, QueueOK, NoResolve
<1>4. TypeInv'
  BY <1>1, <1>3, Zenon DEF IInv, TypeInv, SchedulerOK
<1>5. ProbeInv'
  BY <1>1, Zenon DEF IInv, ProbeInv, Alive
<1>6. DiesOnlyOverNamedInterface'
  BY <1>1 DEF IInv, DiesOnlyOverNamedInterface, Alive
<1>7. MirrorInv'
  BY <1>1, <1>3 DEF IInv, MirrorInv, Alive
<1> QED BY <1>4, <1>5, <1>6, <1>7 DEF IInv

(* A timeout stops a probe only if its interface is gone since the         *)
(* observers were told.                                                    *)
LEMMA TimeoutStep ==
  ASSUME IInv, NEW h \in Hops, TimeoutExpired(h)
  PROVE  IInv'
<1>1. /\ Alive /\ scheduler.probe[h] = "started" /\ UNCHANGED <<st, old, queue, crashed, untold>>
      /\ \/ IntfOf[h] \notin st.intfs /\ scheduler' = [scheduler EXCEPT !.probe[h] = "stopped"]
         \/ scheduler' = scheduler
  BY DEF TimeoutExpired
<1>2. SchedulerOK
  BY DEF IInv, TypeInv
<1>3. /\ SchedulerOK' /\ Alive' /\ scheduler'.useCount = scheduler.useCount
      /\ \A g \in Hops : scheduler'.probe[g] = scheduler.probe[g]
                         \/ (g = h /\ IntfOf[h] \notin st.intfs /\ scheduler'.probe[g] = "stopped")
  BY <1>1, <1>2 DEF SchedulerOK, Alive
<1>4. TypeInv'
  BY <1>1, <1>3 DEF IInv, TypeInv, QueueOK
<1>5. ProbeInv'
  <2>1. \A g \in Hops :
          /\ scheduler.useCount[g] = uses(old, g)
          /\ scheduler.probe[g] = "none" <=> uses(old, g) = 0
          /\ uses(old, g) > 0 => IntfOf[g] \in old.intfs
          /\ \/ scheduler.probe[g] = "started" <=> uses(old, g) > 0 /\ shouldProbe(old, g)
             \/ old.intfs # st.intfs
    BY <1>1 DEF IInv, ProbeInv
  <2>2. IntfOf[h] \notin st.intfs => old.intfs # st.intfs
    BY <1>1, <2>1
  <2>3. ASSUME NEW g \in Hops
        PROVE  /\ scheduler'.useCount[g] = uses(old, g)
               /\ scheduler'.probe[g] = "none" <=> uses(old, g) = 0
               /\ uses(old, g) > 0 => IntfOf[g] \in old.intfs
               /\ \/ scheduler'.probe[g] = "started" <=> uses(old, g) > 0 /\ shouldProbe(old, g)
                  \/ old.intfs # st.intfs
    BY <1>1, <1>3, <2>1, <2>2
  <2> QED BY <1>1, <2>3 DEF ProbeInv
<1>6. DiesOnlyOverNamedInterface'
  BY <1>3 DEF DiesOnlyOverNamedInterface
<1>7. MirrorInv'
  BY <1>1, Zenon DEF IInv, MirrorInv, NoResolve
<1> QED BY <1>4, <1>5, <1>6, <1>7 DEF IInv

(* updateMirror() follows a pointer to no interface only for a link-local  *)
(* next hop.                                                               *)
LEMMA NullInterface ==
  ASSUME StateOK(st), NEW m, nullInterface(st, m)
  PROVE  NamesInterface(st)
<1> DEFINE matching == {i \in DOMAIN Covers : st.routes[Covers[i]] # NoRoute}
<1>1. PICK h \in resolveMirrorNextHops(st) : IntfOf[h] \notin st.intfs
  BY Zenon DEF nullInterface
<1>2. matching # {} /\ h \in forwardInfo(st, Covers[Min(matching)])
  BY <1>1, Zenon DEF resolveMirrorNextHops
<1>3. matching \in SUBSET Nat /\ \A i \in matching : Covers[i] \in RoutePrefixes
  BY ObserversAssumption
<1> HIDE DEF matching
<1>4. Min(matching) \in matching
  BY <1>2, <1>3, LeastNatural
<1> DEFINE p == Covers[Min(matching)]
<1>5. p \in RoutePrefixes /\ h \in forwardInfo(st, p)
  BY <1>2, <1>3, <1>4, Zenon
<1> HIDE DEF p
<1>6. h \in st.routes[p].hops \cap LinkLocal
  BY <1>1, <1>5, Zenon DEF forwardInfo
<1> QED BY <1>1, <1>5, <1>6, Zenon DEF NamesInterface

(* The batch and what stays queued.                                        *)
LEMMA BatchTaken ==
  ASSUME QueueOK, queue # <<>>, NEW batch, batch = SubSeq(queue, 1, batchLength),
         queue' = SubSeq(queue, batchLength + 1, Len(queue))
  PROVE  /\ QueueOK' /\ BatchOK(batch) /\ DOMAIN batch = 1 .. Len(batch)
         /\ NoResolve' /\ ~Finds(batch, Len(batch)) => NoResolve
<1> DEFINE alone == {i \in DOMAIN queue : ~allowsCoalescing(queue[i])}
           n == batchLength
<1>1. /\ IsSequence(queue) /\ Len(queue) \in Nat /\ DOMAIN queue = 1 .. Len(queue)
      /\ \A i \in 1 .. Len(queue) : UpdateOK(queue[i])
  BY DEF QueueOK, IsSequence
<1>2. Len(queue) # 0
  <2>1. SUFFICES ASSUME Len(queue) = 0 PROVE queue = <<>>
    OBVIOUS
  <2>2. queue \in Seq({})
    BY <1>1, <2>1, SequenceIsSeq
  <2> QED BY <2>1, <2>2
<1>3. n \in 1 .. Len(queue)
  <2>1. CASE alone = {}
    BY <1>1, <1>2, <2>1 DEF batchLength
  <2>2. CASE alone # {}
    <3>1. n = Min(alone) /\ alone \in SUBSET Nat /\ alone \subseteq 1 .. Len(queue)
      BY <1>1, <2>2 DEF batchLength
    <3> HIDE DEF alone, n
    <3>2. Min(alone) \in alone
      BY <2>2, <3>1, LeastNatural
    <3> QED BY <3>1, <3>2, Zenon
  <2> QED BY <2>1, <2>2
<1>4. batch = SubSeq(queue, 1, n) /\ queue' = SubSeq(queue, n + 1, Len(queue))
  OBVIOUS
<1> HIDE DEF n
<1>5. /\ IsSequence(batch) /\ Len(batch) = n
      /\ \A i \in 1 .. n : batch[i] = queue[i]
  <2>1. 1 \in 1 .. Len(queue) + 1 /\ n \in 0 .. Len(queue) /\ 1 <= n + 1 /\ n - 1 + 1 = n
    BY <1>1, <1>3
  <2>2. /\ IsSequence(SubSeq(queue, 1, n)) /\ Len(SubSeq(queue, 1, n)) = n - 1 + 1
        /\ \A i \in 1 .. n - 1 + 1 : SubSeq(queue, 1, n)[i] = queue[1 + i - 1]
    BY <1>1, <2>1, SubSeqSequence, Zenon
  <2>3. \A i \in 1 .. n : 1 + i - 1 = i
    BY <1>3
  <2> QED BY <1>4, <2>1, <2>2, <2>3, Zenon
<1>6. /\ IsSequence(queue') /\ Len(queue') = Len(queue) - n
      /\ \A i \in 1 .. Len(queue) - n : queue'[i] = queue[n + i]
  <2>1. /\ n + 1 \in 1 .. Len(queue) + 1 /\ Len(queue) \in 0 .. Len(queue)
        /\ n + 1 <= Len(queue) + 1 /\ Len(queue) - (n + 1) + 1 = Len(queue) - n
    BY <1>1, <1>3
  <2> DEFINE q == SubSeq(queue, n + 1, Len(queue))
  <2>2. /\ IsSequence(q) /\ Len(q) = Len(queue) - (n + 1) + 1
        /\ \A i \in 1 .. Len(queue) - (n + 1) + 1 : q[i] = queue[n + 1 + i - 1]
    BY <1>1, <2>1, SubSeqSequence, Zenon
  <2>3. \A i \in 1 .. Len(queue) - n : n + 1 + i - 1 = n + i
    BY <1>1, <1>3
  <2> QED BY <1>4, <2>1, <2>2, <2>3, Zenon
<1>7. /\ \A i \in 1 .. n : i \in 1 .. Len(queue)
      /\ \A i \in 1 .. Len(queue) - n : n + i \in 1 .. Len(queue)
  BY <1>1, <1>3
<1>8. QueueOK' /\ BatchOK(batch) /\ DOMAIN batch = 1 .. Len(batch)
  BY <1>1, <1>5, <1>6, <1>7, Zenon DEF QueueOK, BatchOK, IsSequence
<1>9. ASSUME NoResolve', ~Finds(batch, Len(batch)), NEW i \in 1 .. Len(queue)
      PROVE  queue[i].op # "resolve"
  <2>1. CASE i \in 1 .. n
    BY <1>5, <1>9, <2>1, Zenon DEF Finds
  <2>2. CASE i \notin 1 .. n
    <3>1. i - n \in 1 .. Len(queue) - n /\ n + (i - n) = i
      BY <1>1, <1>3, <2>2
    <3> QED BY <1>6, <1>9, <3>1, Zenon DEF NoResolve
  <2> QED BY <2>1, <2>2
<1> QED BY <1>8, <1>9, Zenon DEF NoResolve

LEMMA HandleStep ==
  ASSUME IInv, HandlePendingUpdates
  PROVE  IInv'
<1> DEFINE batch == SubSeq(queue, 1, batchLength)
           s == applied(batch)
<1>1. /\ Alive /\ old = st /\ queue # <<>> /\ UNCHANGED <<old, scheduler>>
      /\ queue' = SubSeq(queue, batchLength + 1, Len(queue))
  BY DEF HandlePendingUpdates, Quiet
<1>2. crashed' = \E i \in DOMAIN batch : crashes(s[i - 1], batch[i], st)
  BY Zenon DEF HandlePendingUpdates
<1>3. st' = IF crashed' THEN st ELSE s[Len(batch)]
  BY DEF HandlePendingUpdates
<1>4. untold' = (untold \/ \E i \in DOMAIN batch : batch[i].op = "mirror")
  BY DEF HandlePendingUpdates
<1>5. StateOK(st) /\ QueueOK /\ SchedulerOK
  BY DEF IInv, TypeInv
<1>6. /\ QueueOK' /\ BatchOK(batch) /\ DOMAIN batch = 1 .. Len(batch)
      /\ NoResolve' /\ ~Finds(batch, Len(batch)) => NoResolve
  BY <1>1, <1>5, BatchTaken, Zenon
<1> HIDE DEF batch
<1>7. \A i \in 0 .. Len(batch) :
        /\ StateOK(s[i])
        /\ NotConfigured(batch) => IF Finds(batch, i) THEN Current(s[i].mirror, st)
                                                      ELSE s[i].mirror = st.mirror
  BY <1>5, <1>6, BatchStates
<1>8. Len(batch) \in 0 .. Len(batch)
  BY <1>6 DEF BatchOK
<1> HIDE DEF s
<1>9. crashed' \in BOOLEAN /\ scheduler' = scheduler /\ scheduler.fatal = FALSE
  BY <1>1, <1>2, <1>5 DEF SchedulerOK, Alive
<1>10. TypeInv'
  <2>1. StateOK(st') /\ StateOK(old')
    BY <1>1, <1>3, <1>5, <1>7, <1>8, Zenon
  <2> QED BY <1>5, <1>6, <1>9, <2>1 DEF TypeInv, SchedulerOK
<1>11. ProbeInv'
  BY <1>1, <1>9 DEF IInv, ProbeInv, Alive
<1>12. DiesOnlyOverNamedInterface'
  <2>1. CASE ~crashed'
    BY <1>9, <2>1, Zenon DEF DiesOnlyOverNamedInterface, Alive
  <2>2. CASE crashed'
    <3>1. PICK i \in DOMAIN batch : crashes(s[i - 1], batch[i], st)
      BY <1>2, <2>2, Zenon
    <3>2. NamesInterface(st)
      BY <1>5, <3>1, NullInterface, Zenon DEF crashes
    <3> QED BY <1>3, <2>2, <3>2 DEF DiesOnlyOverNamedInterface, NamesInterface
  <2> QED BY <2>1, <2>2
<1>13. MirrorInv'
  <2>1. SUFFICES ASSUME Alive', ~untold', NoResolve' PROVE Current(st'.mirror, st)
    BY <1>1 DEF MirrorInv
  <2>2. ~crashed' /\ st' = s[Len(batch)]
    BY <1>3, <2>1 DEF Alive
  <2>3. ~untold /\ NotConfigured(batch)
    BY <1>4, <1>6, <2>1, Zenon DEF NotConfigured
  <2>4. CASE Finds(batch, Len(batch))
    BY <1>7, <1>8, <2>2, <2>3, <2>4, Zenon
  <2>5. CASE ~Finds(batch, Len(batch))
    <3>1. st'.mirror = st.mirror
      BY <1>7, <1>8, <2>2, <2>3, <2>5, Zenon
    <3>2. Current(st.mirror, st)
      BY <1>1, <1>6, <2>1, <2>3, <2>5 DEF IInv, MirrorInv
    <3> QED BY <3>1, <3>2
  <2> QED BY <2>4, <2>5
<1> QED BY <1>10, <1>11, <1>12, <1>13 DEF IInv

(* A change that the MirrorManager does not see leaves the mirror current. *)
LEMMA Unseen ==
  ASSUME NEW s, NEW t, StateOK(s), StateOK(t), ~hasMirrorChanges(s, t), Current(t.mirror, s)
  PROVE  Current(t.mirror, t)
<1>1. CASE t.mirror = NoMirror
  <2>1. ~hasDestinationIp(t.mirror) /\ MirrorOK(t.mirror)
    BY <1>1 DEF hasDestinationIp, NoMirror, StateOK
  <2> QED BY <2>1, PlainMirror, Zenon
<1>2. CASE t.mirror # NoMirror
  <2>1. s.nbrs = t.nbrs /\ changedRoutes(s, t) = {}
    BY <1>2, Zenon DEF hasMirrorChanges
  <2>2. \A p \in RoutePrefixes : s.routes[p] = t.routes[p] /\ forwardInfo(s, p) = forwardInfo(t, p)
    BY <2>1, Zenon DEF changedRoutes, StateOK
  <2>3. \A i \in DOMAIN Covers : Covers[i] \in RoutePrefixes /\ i \in Nat
    BY ObserversAssumption
  <2> DEFINE M(x) == {i \in DOMAIN Covers : x.routes[Covers[i]] # NoRoute}
  <2>4. M(s) = M(t)
    BY <2>2, <2>3, Zenon
  <2>5. CASE M(s) = {}
    <3>1. resolveMirrorNextHops(s) = {} /\ resolveMirrorNextHops(t) = {}
      BY <2>4, <2>5, Zenon DEF resolveMirrorNextHops
    <3> QED BY <3>1, Zenon DEF Current
  <2>6. CASE M(s) # {}
    <3> DEFINE p == Covers[Min(M(s))]
    <3>1. resolveMirrorNextHops(s) = forwardInfo(s, p) /\ resolveMirrorNextHops(t) = forwardInfo(t, p)
      BY <2>4, <2>6 DEF resolveMirrorNextHops
    <3>2. p \in RoutePrefixes
      <4>1. M(s) \in SUBSET Nat /\ \A i \in M(s) : Covers[i] \in RoutePrefixes
        BY <2>3
      <4> HIDE DEF M
      <4>2. Min(M(s)) \in M(s)
        BY <2>6, <4>1, LeastNatural, Zenon
      <4> QED BY <4>1, <4>2
    <3> HIDE DEF p
    <3>3. resolveMirrorNextHops(s) = resolveMirrorNextHops(t)
      BY <2>2, <3>1, <3>2, Zenon
    <3>4. \A h : neighborOf(s, h) = neighborOf(t, h)
      BY <2>1 DEF neighborOf
    <3> QED BY <3>3, <3>4, Zenon DEF Current
  <2> QED BY <2>5, <2>6
<1> QED BY <1>1, <1>2

LEMMA NotifyStep ==
  ASSUME IInv, NotifyStateObservers
  PROVE  IInv'
<1> DEFINE u == update("resolve", "mirror", NoMirror)
<1>1. /\ Alive /\ old' = st /\ UNCHANGED <<st, crashed>>
      /\ queue' = IF hasMirrorChanges(old, st) THEN Append(queue, u) ELSE queue
      /\ untold' = (untold /\ ~hasMirrorChanges(old, st))
  BY Zenon DEF NotifyStateObservers
<1>2. UpdateOK(u) /\ u.op = "resolve"
  BY DEF UpdateOK, update
<1> HIDE DEF u
<1>3. SchedulerOK' /\ ProbeInv' /\ DiesOnlyOverNamedInterface'
  BY NotifyProbes
<1>4. StateOK(st) /\ StateOK(old) /\ QueueOK
  BY Zenon DEF IInv, TypeInv
<1>5. QueueOK' /\ (NoResolve' => NoResolve /\ ~hasMirrorChanges(old, st))
  BY <1>1, <1>2, <1>4, QueueGrows DEF QueueOK, NoResolve
<1>6. TypeInv'
  BY <1>1, <1>3, <1>4, <1>5 DEF TypeInv
<1>7. MirrorInv'
  <2>1. SUFFICES ASSUME ~untold', NoResolve' PROVE Current(st.mirror, st)
    BY <1>1 DEF MirrorInv
  <2>2. ~hasMirrorChanges(old, st) /\ ~untold /\ NoResolve
    BY <1>1, <1>5, <2>1, Zenon
  <2>3. Current(st.mirror, old)
    BY <1>1, <2>2 DEF IInv, MirrorInv
  <2> QED BY <1>4, <2>2, <2>3, Unseen, Zenon
<1> QED BY <1>3, <1>6, <1>7, Zenon DEF IInv

LEMMA InitInv ==
  ASSUME Init
  PROVE  IInv
<1>1. /\ DOMAIN st = {"intfs", "routes", "labels", "nbrs", "mirror"}
      /\ st.routes = [p \in RoutePrefixes |-> IF p \in DOMAIN SubnetOf THEN subnetRoute(p) ELSE NoRoute]
      /\ st.labels = [l \in Labels |-> NoRoute]
      /\ st.nbrs = [a \in Addresses |-> NoEntry]
      /\ st.mirror = BootMirror
      /\ old = st /\ queue = <<>> /\ crashed = FALSE /\ untold = (BootMirror # NoMirror)
      /\ DOMAIN scheduler = {"useCount", "probe", "fatal"}
      /\ scheduler.useCount = [h \in Hops |-> 0] /\ scheduler.probe = [h \in Hops |-> "none"]
      /\ scheduler.fatal = FALSE
  BY Zenon DEF Init
<1>2. NoRoute.hops = {} /\ \A p \in DOMAIN SubnetOf : subnetRoute(p).hops \subseteq Hops
  BY ObserversAssumption DEF NoRoute, subnetRoute
<1>3. MirrorOK(BootMirror)
  <2>1. CASE BootMirror = NoMirror
    BY <2>1 DEF MirrorOK, NoMirror
  <2>2. CASE BootMirror # NoMirror
    <3>1. BootMirror = Mirror(BootMirror.kind, BootMirror.port)
      BY <2>2, ObserversAssumption, Zenon
    <3>2. /\ DOMAIN BootMirror = {"kind", "port", "configHasEgressPort", "tunnel"}
          /\ BootMirror.configHasEgressPort = (BootMirror.port # 0) /\ BootMirror.tunnel = NoTunnel
      BY <3>1, MirrorShape
    <3> QED BY <3>2, Zenon DEF MirrorOK
  <2> QED BY <2>1, <2>2, Zenon
<1>4. StateOK(st)
  BY <1>1, <1>2, <1>3 DEF StateOK, Entries
<1>5. QueueOK /\ SchedulerOK
  <2>1. <<>> \in Seq({}) /\ Len(<<>>) = 0
    OBVIOUS
  <2>2. IsSequence(<<>>)
    BY <2>1, SeqIsSequence, Zenon
  <2>3. IsSequence(queue) /\ Len(queue) = 0
    BY <1>1, <2>1, <2>2
  <2>4. QueueOK
    BY <2>3 DEF QueueOK
  <2>5. scheduler.useCount \in [Hops -> Int] /\ DOMAIN scheduler.probe = Hops
    BY <1>1
  <2>6. scheduler.fatal \in BOOLEAN /\ crashed \in BOOLEAN
    BY <1>1, Zenon
  <2> QED BY <1>1, <2>4, <2>5, <2>6, Zenon DEF SchedulerOK
<1>6. \A h : uses(st, h) = 0
  <2>1. ASSUME NEW h PROVE uses(st, h) = 0
    <3>1. \A p \in RoutePrefixes : routeHops(st, p) = {}
      BY <1>1, <1>2, ObserversAssumption
      DEF routeHops, isClientMonitored, forwardInfo, subnetRoute, NoRoute
    <3>2. \A l \in Labels : labelHops(st, l) = {}
      <4>1. \A l \in Labels : st.labels[l] = NoRoute
        BY <1>1
      <4> QED BY <4>1, Zenon DEF labelHops
    <3>3. /\ {p \in RoutePrefixes : h \in routeHops(st, p)} = {}
          /\ {l \in Labels : h \in labelHops(st, l)} = {}
      BY <3>1, <3>2, Zenon
    <3> QED BY <3>3, FS_EmptySet DEF uses
  <2> QED BY <2>1
<1>7. ProbeInv
  BY <1>1, <1>6 DEF ProbeInv
<1>8. DiesOnlyOverNamedInterface
  BY <1>1, Zenon DEF DiesOnlyOverNamedInterface, Alive
<1>9. MirrorInv
  <2>1. ~hasDestinationIp(NoMirror)
    BY Zenon DEF hasDestinationIp, NoMirror
  <2>2. BootMirror = NoMirror => ~hasDestinationIp(st.mirror) /\ MirrorOK(st.mirror)
    BY <1>1, <1>3, <2>1
  <2> QED BY <1>1, <2>2, PlainMirror, Zenon DEF MirrorInv
<1> QED BY <1>1, <1>4, <1>5, <1>7, <1>8, <1>9, Zenon DEF IInv, TypeInv

LEMMA NextInv ==
  ASSUME IInv, [Next]_vars
  PROVE  IInv'
<1>1. CASE UNCHANGED vars
  BY <1>1, Zenon DEF vars, IInv, TypeInv, QueueOK, SchedulerOK, ProbeInv, MirrorInv, NoResolve,
              DiesOnlyOverNamedInterface, Alive
<1>2. CASE RouteChange \/ LabelChange \/ NeighborChange \/ InterfaceChange \/ MirrorChange
  BY <1>2, ChangesStep
<1>3. CASE HandlePendingUpdates
  BY <1>3, HandleStep
<1>4. CASE NotifyStateObservers
  BY <1>4, NotifyStep
<1>5. ASSUME NEW h \in Hops, TimeoutExpired(h) \/ SentRequest(h)
      PROVE  IInv'
  BY <1>5, TimeoutStep, SentStep
<1> QED BY <1>1, <1>2, <1>3, <1>4, <1>5 DEF Next

LEMMA Invariance == Spec => []IInv
<1>1. Init => IInv
  BY InitInv
<1>2. IInv /\ [Next]_vars => IInv'
  BY NextInv
<1> QED BY <1>1, <1>2, PTL DEF Spec

-----------------------------------------------------------------------------

(* The use counts of the ResolvedNexthopMonitor, kept up delta by delta in *)
(* processChangedResolvedNexthops(), are at rest those of the state, and   *)
(* the probes that run are those of the next hops in use without a         *)
(* neighbour entry, whatever timeouts ran in between.                      *)
THEOREM ProbesMatchTheState == Spec => []ProbesMatch
<1>1. IInv => ProbesMatch
  BY DEF IInv, ProbeInv, ProbesMatch, Quiet
<1> QED BY <1>1, Invariance, PTL

(* The CHECK that a next hop removed is known never fails, and the         *)
(* observers end the process only over a label entry or a link-local next  *)
(* hop whose interface is gone.                                            *)
THEOREM ObserversEndTheProcessOverInterfacesOnly == Spec => []DiesOnlyOverNamedInterface
<1>1. IInv => DiesOnlyOverNamedInterface
  BY DEF IInv
<1> QED BY <1>1, Invariance, PTL

(* Once MirrorManager::resolveMirrors() has run after the last change of   *)
(* routes and neighbours, the mirror's tunnel and port are those of a next *)
(* hop that answers, or no next hop answers on a port it may use, although *)
(* Mirror::operator== overlooks ports and the closure works on a state     *)
(* other than the one it looks the next hops up in.                        *)
THEOREM MirrorsAtRestAreCurrent == Spec => []MirrorIsCurrent
<1>1. IInv => MirrorIsCurrent
  <2>1. SUFFICES ASSUME IInv, MirrorSettled PROVE Current(st.mirror, st)
    BY DEF MirrorIsCurrent, Current
  <2>2. old = st /\ Alive /\ ~untold
    BY <2>1 DEF MirrorSettled, Quiet
  <2>3. NoResolve
    BY <2>1 DEF MirrorSettled, NoResolve, IInv, TypeInv, QueueOK, IsSequence
  <2> QED BY <2>1, <2>2, <2>3, Zenon DEF IInv, MirrorInv
<1> QED BY <1>1, Invariance, PTL

=============================================================================
