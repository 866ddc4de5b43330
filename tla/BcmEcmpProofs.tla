----------------------------- MODULE BcmEcmpProofs -----------------------------
(***************************************************************************)
(* The ECMP groups of the chip, for every set of ports, neighbours and     *)
(* groups and any number of link changes: what the linkscan bottom half    *)
(* takes out of a group behind the update thread's back is put back, or    *)
(* its neighbour is no longer resolved.                                    *)
(***************************************************************************)
EXTENDS BcmEcmp, SequenceTheorems, FiniteSetTheorems, WellFoundedInduction,
        TLAPS

-----------------------------------------------------------------------------
(* Sequences whose elements are of no particular type.                     *)

IsSequence(q) ==
  Len(q) \in Nat /\ DOMAIN q = 1 .. Len(q) /\ q = [i \in 1 .. Len(q) |-> q[i]]

LEMMA SeqIsSequence ==
  ASSUME NEW S, NEW q \in Seq(S)
  PROVE  IsSequence(q) /\ \A i \in 1 .. Len(q) : q[i] \in S
<1>1. /\ Len(q) \in Nat /\ q \in [1 .. Len(q) -> S] /\ DOMAIN q = 1 .. Len(q)
  BY LenProperties
<1> QED BY <1>1 DEF IsSequence

LEMMA SequenceIsSeq ==
  ASSUME NEW q, IsSequence(q), NEW S, \A i \in 1 .. Len(q) : q[i] \in S
  PROVE  q \in Seq(S)
<1>1. q \in [1 .. Len(q) -> S] /\ Len(q) \in Nat
  BY DEF IsSequence
<1> QED BY <1>1

LEMMA AppendSequence ==
  ASSUME NEW q, IsSequence(q), NEW x
  PROVE  /\ IsSequence(Append(q, x)) /\ Len(Append(q, x)) = Len(q) + 1
         /\ \A i \in 1 .. Len(q) : Append(q, x)[i] = q[i]
         /\ Append(q, x)[Len(q) + 1] = x
<1> DEFINE S == {q[i] : i \in 1 .. Len(q)} \cup {x}
<1>1. q \in Seq(S)
  <2>1. \A i \in 1 .. Len(q) : q[i] \in S
    OBVIOUS
  <2> HIDE DEF S
  <2> QED BY <2>1, SequenceIsSeq
<1>2. x \in S
  OBVIOUS
<1> HIDE DEF S
<1>3. /\ Append(q, x) \in Seq(S) /\ Len(Append(q, x)) = Len(q) + 1
      /\ \A i \in 1 .. Len(q) : Append(q, x)[i] = q[i]
      /\ Append(q, x)[Len(q) + 1] = x
  BY <1>1, <1>2, AppendProperties
<1>4. IsSequence(Append(q, x))
  BY <1>3, SeqIsSequence, Zenon
<1> QED BY <1>3, <1>4

LEMMA ConcatSequence ==
  ASSUME NEW q, IsSequence(q), NEW s, IsSequence(s)
  PROVE  /\ IsSequence(q \o s) /\ Len(q \o s) = Len(q) + Len(s)
         /\ \A i \in 1 .. Len(q) : (q \o s)[i] = q[i]
         /\ \A i \in 1 .. Len(s) : (q \o s)[Len(q) + i] = s[i]
<1> DEFINE S == {q[i] : i \in 1 .. Len(q)} \cup {s[i] : i \in 1 .. Len(s)}
<1>1. q \in Seq(S) /\ s \in Seq(S)
  <2>1. (\A i \in 1 .. Len(q) : q[i] \in S) /\ (\A i \in 1 .. Len(s) : s[i] \in S)
    OBVIOUS
  <2> HIDE DEF S
  <2> QED BY <2>1, SequenceIsSeq
<1> HIDE DEF S
<1>2. /\ q \o s \in Seq(S)
      /\ Len(q \o s) = Len(q) + Len(s)
      /\ \A i \in 1 .. Len(q) + Len(s) : (q \o s)[i] =
                     IF i <= Len(q) THEN q[i] ELSE s[i - Len(q)]
  BY <1>1, ConcatProperties
<1>3. IsSequence(q \o s) /\ Len(q) \in Nat /\ Len(s) \in Nat
  BY <1>1, <1>2, SeqIsSequence, Zenon DEF IsSequence
<1>4. \A i \in 1 .. Len(q) : (q \o s)[i] = q[i]
  BY <1>2, <1>3
<1>5. ASSUME NEW i \in 1 .. Len(s)
      PROVE  (q \o s)[Len(q) + i] = s[i]
  <2>1. Len(q) + i \in 1 .. Len(q) + Len(s) /\ ~(Len(q) + i <= Len(q))
        /\ Len(q) + i - Len(q) = i
    BY <1>3
  <2> QED BY <1>2, <2>1
<1> QED BY <1>2, <1>3, <1>4, <1>5

LEMMA TailSequence ==
  ASSUME NEW q, IsSequence(q), q # <<>>
  PROVE  /\ IsSequence(Tail(q)) /\ Len(q) = Len(Tail(q)) + 1
         /\ Head(q) = q[1]
         /\ \A i \in 1 .. Len(Tail(q)) : Tail(q)[i] = q[i + 1]
<1> DEFINE S == {q[i] : i \in 1 .. Len(q)}
<1>1. q \in Seq(S)
  <2>1. \A i \in 1 .. Len(q) : q[i] \in S
    OBVIOUS
  <2> HIDE DEF S
  <2> QED BY <2>1, SequenceIsSeq
<1> HIDE DEF S
<1>2. /\ Tail(q) \in Seq(S) /\ Len(Tail(q)) = Len(q) - 1
      /\ \A i \in 1 .. Len(Tail(q)) : Tail(q)[i] = q[i + 1]
  BY <1>1, HeadTailProperties
<1>3. IsSequence(Tail(q)) /\ Len(q) \in Nat
  BY <1>1, <1>2, SeqIsSequence, Zenon DEF IsSequence
<1>4. Head(q) = q[1]
  BY <1>1
<1> QED BY <1>2, <1>3, <1>4

LEMMA SubSeqSequence ==
  ASSUME NEW q, IsSequence(q), NEW m \in 1 .. Len(q) + 1, NEW n \in 0 .. Len(q), m <= n + 1
  PROVE  /\ IsSequence(SubSeq(q, m, n)) /\ Len(SubSeq(q, m, n)) = n - m + 1
         /\ \A i \in 1 .. n - m + 1 : SubSeq(q, m, n)[i] = q[m + i - 1]
<1> DEFINE S == {q[i] : i \in 1 .. Len(q)}
<1>0. Len(q) \in Nat
  BY DEF IsSequence
<1>1. \A i \in m .. n : q[i] \in S
  BY <1>0
<1> HIDE DEF S
<1>2. /\ SubSeq(q, m, n) \in Seq(S)
      /\ Len(SubSeq(q, m, n)) = IF m <= n THEN n - m + 1 ELSE 0
      /\ \A i \in 1 .. n - m + 1 : SubSeq(q, m, n)[i] = q[m + i - 1]
  BY <1>0, <1>1, SubSeqProperties
<1>3. IsSequence(SubSeq(q, m, n))
  BY <1>2, SeqIsSequence, Zenon
<1> QED BY <1>0, <1>2, <1>3

\* Sequence s is r with q after it.
Grown(r, s, q) ==
  /\ IsSequence(s) /\ Len(s) = Len(r) + Len(q)
  /\ \A i \in 1 .. Len(r) : s[i] = r[i]
  /\ \A i \in 1 .. Len(q) : s[Len(r) + i] = q[i]

LEMMA AppendGrows ==
  ASSUME NEW r, IsSequence(r), NEW x
  PROVE  Grown(r, Append(r, x), <<x>>)
<1>1. Len(<<x>>) = 1 /\ <<x>>[1] = x
  OBVIOUS
<1>2. \A i \in 1 .. 1 : i = 1
  OBVIOUS
<1> QED BY <1>1, <1>2, AppendSequence DEF Grown

LEMMA ConcatGrows ==
  ASSUME NEW r, IsSequence(r), NEW q, IsSequence(q)
  PROVE  Grown(r, r \o q, q)
BY ConcatSequence DEF Grown

\* Sequence s is what is left of r after its first k elements.
Shrunk(r, s, k) ==
  /\ IsSequence(s) /\ Len(r) = k + Len(s)
  /\ \A i \in 1 .. Len(s) : s[i] = r[k + i]

-----------------------------------------------------------------------------
(* Induction.                                                              *)

(* A nonempty set of naturals has a least element.                         *)
LEMMA LeastNatural ==
  ASSUME NEW T \in SUBSET Nat, T # {}
  PROVE  \E i \in T : \A j \in T : i <= j
<1> DEFINE R == {p \in Nat \X Nat : p[1] < p[2]}
<1>1. IsWellFoundedOn(R, Nat)
  BY NatLessThanWellFounded, Zenon DEF OpToRel
<1> HIDE DEF R
<1>2. \E i \in T : \A j \in T : ~(<<j, i>> \in R)
  BY <1>1, WFMin, Zenon
<1>3. \A i, j \in Nat : ~(<<j, i>> \in R) => i <= j
  BY DEF R
<1> QED
  BY <1>2, <1>3, Zenon

(* A set that has 0 and with every number below n the next one has all of  *)
(* them.                                                                   *)
LEMMA Induction ==
  ASSUME NEW n \in Nat, NEW S, 0 \in S,
         \A i \in 0 .. n - 1 : i \in S => i + 1 \in S
  PROVE  \A i \in 0 .. n : i \in S
<1> DEFINE T == {i \in 0 .. n : i \notin S}
<1>1. SUFFICES ASSUME T # {} PROVE FALSE
  OBVIOUS
<1>2. T \in SUBSET Nat
  OBVIOUS
<1>3. PICK k \in T : \A j \in T : k <= j
  <2> HIDE DEF T
  <2> QED BY <1>1, <1>2, LeastNatural
<1>4. k \in 0 .. n /\ k \notin S /\ k # 0
  BY <1>3
<1>5. k - 1 \in 0 .. n - 1 /\ k - 1 + 1 = k
  BY <1>4
<1>6. k - 1 \in S
  <2>1. k - 1 \in 0 .. n /\ ~(k <= k - 1)
    BY <1>4
  <2> QED BY <1>3, <2>1
<1> QED BY <1>4, <1>5, <1>6

-----------------------------------------------------------------------------
(* The operators of the model.                                             *)

(* A finite set in order has each of its elements once.                    *)
LEMMA Ordered ==
  ASSUME NEW S, IsFiniteSet(S)
  PROVE  /\ Cardinality(S) \in Nat
         /\ IsSequence(InOrder(S)) /\ Len(InOrder(S)) = Cardinality(S)
         /\ \A i \in 1 .. Cardinality(S) : InOrder(S)[i] \in S
         /\ \A x \in S : \E i \in 1 .. Cardinality(S) : InOrder(S)[i] = x
         /\ \A i, j \in 1 .. Cardinality(S) : InOrder(S)[i] = InOrder(S)[j] => i = j
<1> DEFINE n == Cardinality(S)
           q == InOrder(S)
<1>1. n \in Nat /\ Bijection(1 .. n, S) # {}
  BY FS_CardinalityType, Zenon DEF ExistsBijection
<1>2. q \in Bijection(1 .. n, S)
  BY <1>1 DEF InOrder
<1> HIDE DEF q, n
<1>3. /\ q \in [1 .. n -> S]
      /\ \A x \in S : \E i \in 1 .. n : q[i] = x
      /\ \A i, j \in 1 .. n : q[i] = q[j] => i = j
  BY <1>2 DEF Bijection, Injection, Surjection, IsInjective
<1>4. q \in Seq(S) /\ Len(q) = n
  BY <1>1, <1>3
<1>5. IsSequence(q)
  BY <1>4, SeqIsSequence
<1> QED BY <1>1, <1>3, <1>4, <1>5 DEF q, n

\* A path of the SwitchState through a batch.
BatchPath(s, q, f) ==
  f = [i \in 0 .. Len(q) |-> IF i = 0 THEN s ELSE applyUpdate(f[i - 1], q[i])]

(* Every batch has a path.                                                 *)
LEMMA PathExists ==
  ASSUME NEW s, NEW q, Len(q) \in Nat
  PROVE  \E f : BatchPath(s, q, f)
<1> DEFINE Upto(n, f) == f = [i \in 0 .. n |-> IF i = 0 THEN s ELSE applyUpdate(f[i - 1], q[i])]
           S == {n \in 0 .. Len(q) : \E f : Upto(n, f)}
<1>1. 0 \in S
  <2> DEFINE f == [i \in 0 .. 0 |-> s]
  <2>1. Upto(0, f)
    OBVIOUS
  <2>2. \E h : Upto(0, h)
    BY <2>1, Zenon
  <2> QED BY <2>2
<1>2. ASSUME NEW n \in 0 .. Len(q) - 1, n \in S
      PROVE  n + 1 \in S
  <2>1. PICK f : Upto(n, f)
    BY <1>2
  <2> DEFINE g == [i \in 0 .. n + 1 |-> IF i = n + 1 THEN applyUpdate(f[n], q[n + 1]) ELSE f[i]]
  <2>2. \A i \in 0 .. n : f[i] = IF i = 0 THEN s ELSE applyUpdate(f[i - 1], q[i])
    BY <2>1
  <2>3. ASSUME NEW i \in 0 .. n + 1
        PROVE  g[i] = IF i = 0 THEN s ELSE applyUpdate(g[i - 1], q[i])
    <3>1. CASE i = n + 1
      <4>1. i # 0 /\ i - 1 = n /\ g[n] = f[n]
        BY <3>1
      <4> QED BY <3>1, <4>1
    <3>2. CASE i # n + 1
      <4>1. i \in 0 .. n /\ g[i] = f[i]
        BY <3>2
      <4>2. CASE i = 0
        BY <2>2, <4>1, <4>2
      <4>3. CASE i # 0
        <5>1. i - 1 \in 0 .. n + 1 /\ i - 1 # n + 1
          BY <4>1, <4>3
        <5>2. g[i - 1] = f[i - 1]
          BY <5>1
        <5> QED BY <2>2, <4>1, <4>3, <5>2
      <4> QED BY <4>2, <4>3
    <3> QED BY <3>1, <3>2
  <2>4. Upto(n + 1, g)
    <3>1. DOMAIN g = 0 .. n + 1 /\ g = [i \in 0 .. n + 1 |-> g[i]]
      OBVIOUS
    <3> HIDE DEF g
    <3> QED BY <2>3, <3>1
  <2>5. \E h : Upto(n + 1, h)
    BY <2>4, Zenon
  <2> QED BY <2>5
<1>3. Len(q) \in S
  <2>1. \A n \in 0 .. Len(q) - 1 : n \in S => n + 1 \in S
    BY <1>2, Zenon
  <2> HIDE DEF S
  <2>2. \A n \in 0 .. Len(q) : n \in S
    BY <1>1, <2>1, Induction
  <2> QED BY <2>2
<1>4. \E f : Upto(Len(q), f)
  <2> HIDE DEF Upto
  <2> QED BY <1>3
<1> QED BY <1>4, Zenon DEF BatchPath

(* What a batch leaves is the end of its path.                             *)
LEMMA BatchIsPath ==
  ASSUME NEW s, NEW q, Len(q) \in Nat
  PROVE  \E f : BatchPath(s, q, f) /\ applyUpdates(s, q) = f[Len(q)]
<1> DEFINE f == CHOOSE f : BatchPath(s, q, f)
<1>1. BatchPath(s, q, f)
  BY PathExists, Zenon
<1>2. applyUpdates(s, q) = f[Len(q)]
  BY Zenon DEF applyUpdates, BatchPath
<1> QED BY <1>1, <1>2, Zenon

-----------------------------------------------------------------------------
(* Types.                                                                  *)

UpdateOK(u) ==
  \/ u.op = "oper" /\ u.port \in Ports /\ u.up \in BOOLEAN
  \/ u.op = "route" /\ u.g \in Groups /\ u.add \in BOOLEAN
  \/ u.op = "program" /\ u.n \in Neighbors /\ u.port \in NeighborPorts[u.n]
  \/ u.op = "programPending" /\ u.n \in Neighbors /\ u.force \in BOOLEAN
  \/ u.op = "remove" /\ u.n \in Neighbors

TaskOK(t) ==
  \/ t.op \in {"destroy", "create"} /\ t.g \in Groups
  \/ t.op = "neighbor" /\ t.n \in Neighbors
  \/ t.op \in {"expand", "shrink"} /\ t.n \in Neighbors /\ t.g \in Groups
  \/ t.op = "observers" /\ IsSequence(t.down) /\ \A i \in 1 .. Len(t.down) : t.down[i] \in Ports

ScanOK(e) == e.port \in Ports /\ e.up \in BOOLEAN

\* What an entry of neighbour n may be: missing, pending, or over a port of its.
EntryValues(n) == {"none", "pending"} \cup NeighborPorts[n]

QueuesOK ==
  /\ IsSequence(scan) /\ \A i \in 1 .. Len(scan) : ScanOK(scan[i])
  /\ IsSequence(posted) /\ \A i \in 1 .. Len(posted) : posted[i] \in Ports
  /\ IsSequence(updates) /\ \A i \in 1 .. Len(updates) : UpdateOK(updates[i])
  /\ IsSequence(work) /\ \A i \in 1 .. Len(work) : TaskOK(work[i])

StatesOK ==
  /\ link \in [Ports -> BOOLEAN]
  /\ DOMAIN cache = Neighbors /\ \A n \in Neighbors : cache[n] \in EntryValues(n)
  /\ DOMAIN state = {"oper", "entry", "routes"}
  /\ state.oper \in [Ports -> BOOLEAN]
  /\ DOMAIN state.entry = Neighbors /\ \A n \in Neighbors : state.entry[n] \in EntryValues(n)
  /\ state.routes \subseteq Groups

HardwareOK ==
  /\ DOMAIN traverse = {"port", "egressIds", "todo", "done"}
  /\ host = [n \in DOMAIN host |-> host[n]] /\ DOMAIN host \subseteq Neighbors
  /\ \A n \in DOMAIN host : host[n] = "none" \/ host[n] \in NeighborPorts[n]
  /\ resolved \subseteq Neighbors
  /\ portMap \in [Ports -> SUBSET Neighbors]
  /\ ecmp = [g \in DOMAIN ecmp |-> ecmp[g]] /\ DOMAIN ecmp \subseteq Groups

TypeInv == QueuesOK /\ StatesOK /\ HardwareOK

-----------------------------------------------------------------------------
(* The inductive invariant.                                                *)

\* What closure u leaves of an entry of neighbour n that is x.
EntryAfter(n, x, u) ==
  IF u.op \notin {"program", "programPending", "remove"} THEN x
  ELSE IF u.n # n THEN x
  ELSE IF u.op = "program" THEN u.port
  ELSE IF u.op = "remove" THEN "none"
  ELSE IF x # "none" /\ ~u.force THEN x
  ELSE "pending"

\* The values that an entry takes, from x to y, as the closures q are applied.
EntryPath(n, q, x, y, e) ==
  /\ e[0] = x /\ e[Len(q)] = y
  /\ \A i \in 1 .. Len(q) : e[i] = EntryAfter(n, e[i - 1], q[i])

HasEntryPath(n, q, x, y) ==
  \E e \in [0 .. Len(q) -> EntryValues(n)] : EntryPath(n, q, x, y, e)

\* The entry in the SwitchState will be what the neighbour cache has.
CacheInv == \A n \in Neighbors : HasEntryPath(n, updates, state.entry[n], cache[n])

OperOf(u, p) == u.op = "oper" /\ u.port = p

\* The states of a port, from x to y, by the closures q: every report changes it.
OperPath(p, q, x, y, f) ==
  /\ f[0] = x /\ f[Len(q)] = y
  /\ \A i \in 1 .. Len(q) :
       IF OperOf(q[i], p) THEN q[i].up = f[i] /\ f[i - 1] = ~f[i] ELSE f[i] = f[i - 1]

HasOperPath(p, q, x, y) ==
  \E f \in [0 .. Len(q) -> BOOLEAN] : OperPath(p, q, x, y, f)

\* The same by the link changes q.
ScanPath(p, q, x, y, f) ==
  /\ f[0] = x /\ f[Len(q)] = y
  /\ \A i \in 1 .. Len(q) :
       IF q[i].port = p THEN q[i].up = f[i] /\ f[i - 1] = ~f[i] ELSE f[i] = f[i - 1]

HasScanPath(p, q, x, y) ==
  \E f \in [0 .. Len(q) -> BOOLEAN] : ScanPath(p, q, x, y, f)

\* The SwitchState, the closures, the link changes and the link fit together.
LinkInv ==
  /\ \A p \in Ports : \E x \in BOOLEAN :
       HasOperPath(p, updates, state.oper[p], x) /\ HasScanPath(p, scan, x, link[p])
  /\ traverse = Idle \/ (scan # <<>> /\ scan[1].port = traverse.port /\ ~scan[1].up)

InTraversal ==
  \A n \in traverse.egressIds : n \in Neighbors /\ traverse.port \in NeighborPorts[n]

\* The neighbour's task is still to come.
HasTask(n) == \E i \in 1 .. Len(work) : work[i].op = "neighbor" /\ work[i].n = n

Usable(x) == IF x \in Ports THEN x ELSE "none"

HostInv ==
  /\ \A n \in Neighbors : n \in resolved <=> EgressPort(n) # "none"
  /\ \A n \in Neighbors, p \in Ports : n \in portMap[p] <=> EgressPort(n) = p
  /\ \A n \in Neighbors : HasTask(n) \/ EgressPort(n) = Usable(state.entry[n])

WorkInv ==
  /\ \A i, j \in 1 .. Len(work) :
       /\ work[i].op = "neighbor"
       /\ work[j].op \in {"neighbor", "expand", "shrink"}
       /\ work[i].n = work[j].n
       => i = j
  /\ \A i \in 1 .. Len(work) : work[i].op = "shrink" => work[i].n \notin resolved

\* Neighbour n is programmed again, in group g at least.
ToExpand(n, g) ==
  \E i \in 1 .. Len(work) : \/ work[i].op = "neighbor" /\ work[i].n = n
                            \/ work[i].op = "expand" /\ work[i].n = n /\ work[i].g = g

\* The loss of port p is on its way to the neighbour cache.
LossPending(p) ==
  \/ traverse.port = p
  \/ \E i \in 1 .. Len(updates) : OperOf(updates[i], p) /\ ~updates[i].up
  \/ \E i \in 1 .. Len(work) :
       work[i].op = "observers" /\ \E j \in 1 .. Len(work[i].down) : work[i].down[j] = p
  \/ \E i \in 1 .. Len(posted) : posted[i] = p

\* A closure that replaces the node of neighbour n, whatever it is.
Resets(u, n) ==
  \/ u.op = "remove" /\ u.n = n
  \/ u.op = "programPending" /\ u.n = n /\ u.force

ResetPending(n) == \E i \in 1 .. Len(updates) : Resets(updates[i], n)

ReturnInv ==
  \A n \in Neighbors, p \in Ports :
    NeighborPorts[n] = {p} =>
      \A g \in DOMAIN ecmp :
        n \in g /\ n \in resolved /\ n \notin ecmp[g] =>
          ToExpand(n, g) \/ LossPending(p) \/ ResetPending(n)

IInv == TypeInv /\ CacheInv /\ LinkInv /\ InTraversal /\ HostInv /\ WorkInv /\ ReturnInv

-----------------------------------------------------------------------------
(* What a batch of closures does.                                          *)

StateOK(s) ==
  /\ DOMAIN s = {"oper", "entry", "routes", "touched"}
  /\ s.oper \in [Ports -> BOOLEAN]
  /\ DOMAIN s.entry = Neighbors /\ \A n \in Neighbors : s.entry[n] \in EntryValues(n)
  /\ s.routes \subseteq Groups
  /\ s.touched \subseteq Neighbors

\* Closure u turns s into t.
Applied(s, t, u) ==
  /\ StateOK(t)
  /\ \A p \in Ports : t.oper[p] = IF OperOf(u, p) THEN u.up ELSE s.oper[p]
  /\ \A n \in Neighbors : t.entry[n] = EntryAfter(n, s.entry[n], u)
  /\ \A n \in Neighbors : n \in s.touched \/ Resets(u, n) \/ t.entry[n] # s.entry[n] => n \in t.touched

LEMMA ApplyOne ==
  ASSUME NEW s, StateOK(s), NEW u, UpdateOK(u)
  PROVE  Applied(s, applyUpdate(s, u), u)
<1>1. CASE u.op = "oper"
  BY <1>1, EcmpAssumption DEF StateOK, UpdateOK, Applied, applyUpdate, OperOf, EntryAfter, Resets
<1>2. CASE u.op = "route"
  BY <1>2, EcmpAssumption DEF StateOK, UpdateOK, Applied, applyUpdate, OperOf, EntryAfter, Resets
<1>3. CASE u.op = "program"
  BY <1>3, EcmpAssumption DEF StateOK, UpdateOK, Applied, applyUpdate, programEntry, OperOf,
    EntryAfter, EntryValues, Resets
<1>4. CASE u.op = "programPending"
  BY <1>4, EcmpAssumption DEF StateOK, UpdateOK, Applied, applyUpdate, OperOf, EntryAfter,
    EntryValues, Resets
<1>5. CASE u.op = "remove"
  BY <1>5, EcmpAssumption, Zenon DEF StateOK, UpdateOK, Applied, applyUpdate, OperOf, EntryAfter,
    EntryValues, Resets
<1> QED BY <1>1, <1>2, <1>3, <1>4, <1>5 DEF UpdateOK

\* What the update thread makes of the first k closures.
Start == [oper |-> state.oper, entry |-> state.entry, routes |-> state.routes, touched |-> {}]

Batch(k) == applyUpdates(Start, SubSeq(updates, 1, k))

(* The states between the closures of a batch.                             *)
LEMMA BatchSteps ==
  ASSUME TypeInv, NEW k \in 1 .. Len(updates)
  PROVE  \E f : /\ f[0] = Start /\ StateOK(f[0]) /\ f[k] = Batch(k)
                /\ \A i \in 1 .. k : Applied(f[i - 1], f[i], updates[i])
<1> DEFINE q == SubSeq(updates, 1, k)
<1>1. Len(updates) \in Nat /\ IsSequence(updates)
  BY DEF TypeInv, QueuesOK, IsSequence
<1>2. Len(q) = k /\ \A i \in 1 .. k : q[i] = updates[i]
  <2>1. Len(q) = k - 1 + 1 /\ \A i \in 1 .. k - 1 + 1 : q[i] = updates[1 + i - 1]
    BY <1>1, SubSeqSequence
  <2>2. k \in Nat /\ k - 1 + 1 = k /\ \A i \in 1 .. k : 1 + i - 1 = i
    BY <1>1
  <2> QED BY <2>1, <2>2
<1> HIDE DEF q
<1>3. PICK f : BatchPath(Start, q, f) /\ applyUpdates(Start, q) = f[Len(q)]
  BY <1>1, <1>2, BatchIsPath
<1>4. /\ f[0] = Start
      /\ \A i \in 1 .. k : f[i] = applyUpdate(f[i - 1], q[i])
  BY <1>1, <1>2, <1>3 DEF BatchPath
<1>5. StateOK(Start)
  BY DEF TypeInv, StatesOK, StateOK, Start
<1>6. \A i \in 1 .. k : UpdateOK(updates[i])
  BY <1>1 DEF TypeInv, QueuesOK
<1> DEFINE S == {i \in 0 .. k : StateOK(f[i])}
<1>7. ASSUME NEW i \in 1 .. k, StateOK(f[i - 1])
      PROVE  Applied(f[i - 1], f[i], updates[i])
  BY <1>2, <1>4, <1>6, <1>7, ApplyOne
<1>8. \A i \in 0 .. k : i \in S
  <2>1. 0 \in S
    BY <1>1, <1>4, <1>5
  <2>2. ASSUME NEW i \in 0 .. k - 1, i \in S PROVE i + 1 \in S
    <3>1. i + 1 \in 1 .. k /\ i + 1 \in 0 .. k /\ i + 1 - 1 = i /\ StateOK(f[i])
      BY <1>1, <2>2
    <3>2. StateOK(f[i + 1])
      BY <1>7, <3>1 DEF Applied
    <3> QED BY <3>1, <3>2
  <2>3. \A i \in 0 .. k - 1 : i \in S => i + 1 \in S
    BY <2>2
  <2> HIDE DEF S
  <2> QED BY <1>1, <2>1, <2>3, Induction
<1>9. \A i \in 1 .. k : StateOK(f[i - 1])
  BY <1>1, <1>8
<1> QED BY <1>2, <1>3, <1>4, <1>5, <1>7, <1>9 DEF Batch, q

\* What becomes of an entry over the first k closures.
Follows(n, e, k) ==
  /\ e[0] = state.entry[n]
  /\ \A i \in 1 .. k : e[i] = EntryAfter(n, e[i - 1], updates[i])

LEMMA BatchEntry ==
  ASSUME TypeInv, NEW k \in 1 .. Len(updates), NEW n \in Neighbors, NEW e, Follows(n, e, k)
  PROVE  Batch(k).entry[n] = e[k]
<1>1. Len(updates) \in Nat
  BY DEF TypeInv, QueuesOK, IsSequence
<1>2. PICK f : /\ f[0] = Start /\ StateOK(f[0]) /\ f[k] = Batch(k)
               /\ \A i \in 1 .. k : Applied(f[i - 1], f[i], updates[i])
  BY BatchSteps
<1> DEFINE S == {i \in 0 .. k : f[i].entry[n] = e[i]}
<1>3. 0 \in S
  BY <1>1, <1>2 DEF Start, Follows
<1>4. ASSUME NEW i \in 0 .. k - 1, i \in S PROVE i + 1 \in S
  <2>1. i + 1 \in 1 .. k /\ i + 1 \in 0 .. k /\ i + 1 - 1 = i /\ f[i].entry[n] = e[i]
    BY <1>1, <1>4
  <2>2. f[i + 1].entry[n] = EntryAfter(n, f[i].entry[n], updates[i + 1])
    BY <1>2, <2>1 DEF Applied
  <2>3. e[i + 1] = EntryAfter(n, e[i], updates[i + 1])
    BY <2>1 DEF Follows
  <2> QED BY <2>1, <2>2, <2>3
<1>5. \A i \in 0 .. k - 1 : i \in S => i + 1 \in S
  BY <1>4
<1>6. k \in S
  <2> HIDE DEF S
  <2>1. \A i \in 0 .. k : i \in S
    BY <1>1, <1>3, <1>5, Induction
  <2> QED BY <1>1, <2>1
<1> QED BY <1>2, <1>6

(* A batch keeps types, and the delta names every neighbour it must.       *)
LEMMA BatchState ==
  ASSUME TypeInv, NEW k \in 1 .. Len(updates)
  PROVE  /\ StateOK(Batch(k))
         /\ \A n \in Neighbors :
              \/ \E i \in 1 .. k : Resets(updates[i], n)
              \/ Batch(k).entry[n] # state.entry[n]
              => n \in Batch(k).touched
<1>1. Len(updates) \in Nat
  BY DEF TypeInv, QueuesOK, IsSequence
<1>2. PICK f : /\ f[0] = Start /\ StateOK(f[0]) /\ f[k] = Batch(k)
               /\ \A i \in 1 .. k : Applied(f[i - 1], f[i], updates[i])
  BY BatchSteps
<1> DEFINE Named(n, i) == \/ \E j \in 1 .. i : Resets(updates[j], n)
                          \/ f[i].entry[n] # state.entry[n]
           S == {i \in 0 .. k : \A n \in Neighbors : Named(n, i) => n \in f[i].touched}
<1>3. 0 \in S
  BY <1>1, <1>2 DEF Start
<1>4. ASSUME NEW i \in 0 .. k - 1, i \in S PROVE i + 1 \in S
  <2>1. i + 1 \in 1 .. k /\ i + 1 \in 0 .. k /\ i + 1 - 1 = i
    BY <1>1, <1>4
  <2>2. Applied(f[i], f[i + 1], updates[i + 1])
    BY <1>2, <2>1
  <2>3. ASSUME NEW n \in Neighbors, Named(n, i + 1) PROVE n \in f[i + 1].touched
    <3>1. n \in f[i].touched \/ ~Named(n, i)
      BY <1>4
    <3>2. CASE n \in f[i].touched
      BY <2>2, <3>2 DEF Applied
    <3>3. CASE ~Named(n, i)
      <4>1. CASE f[i + 1].entry[n] # state.entry[n]
        BY <2>2, <3>3, <4>1, Zenon DEF Applied
      <4>2. CASE \E j \in 1 .. i + 1 : Resets(updates[j], n)
        <5>1. PICK j \in 1 .. i + 1 : Resets(updates[j], n)
          BY <4>2
        <5>2. j = i + 1
          BY <1>1, <3>3, <5>1
        <5> QED BY <2>2, <5>1, <5>2 DEF Applied
      <4> QED BY <2>3, <4>1, <4>2
    <3> QED BY <3>1, <3>2, <3>3
  <2> QED BY <2>1, <2>3
<1>5. \A i \in 0 .. k - 1 : i \in S => i + 1 \in S
  BY <1>4
<1>6. k \in S
  <2> HIDE DEF S
  <2>1. \A i \in 0 .. k : i \in S
    BY <1>1, <1>3, <1>5, Induction
  <2> QED BY <1>1, <2>1
<1>7. StateOK(f[k])
  <2>1. k \in 1 .. k
    BY <1>1
  <2> QED BY <1>2, <2>1, Zenon DEF Applied
<1> QED BY <1>2, <1>6, <1>7

(* Only the last closure of a batch may report a port.                     *)
LEMMA BatchOper ==
  ASSUME TypeInv, NEW k \in 1 .. Len(updates), NEW p \in Ports,
         \A i \in 1 .. k - 1 : allowsCoalescing(updates[i])
  PROVE  Batch(k).oper[p] = IF OperOf(updates[k], p) THEN updates[k].up ELSE state.oper[p]
<1>1. Len(updates) \in Nat
  BY DEF TypeInv, QueuesOK, IsSequence
<1>2. PICK f : /\ f[0] = Start /\ StateOK(f[0]) /\ f[k] = Batch(k)
               /\ \A i \in 1 .. k : Applied(f[i - 1], f[i], updates[i])
  BY BatchSteps
<1>3. \A i \in 1 .. k - 1 : ~OperOf(updates[i], p)
  BY DEF allowsCoalescing, OperOf
<1>4. PICK m \in Nat : m = k - 1
  BY <1>1
<1> DEFINE S == {i \in 0 .. m : f[i].oper[p] = state.oper[p]}
<1>5. 0 \in S
  BY <1>1, <1>2 DEF Start
<1>6. ASSUME NEW i \in 0 .. m - 1, i \in S PROVE i + 1 \in S
  <2>1. i + 1 \in 1 .. k - 1 /\ i + 1 \in 1 .. k /\ i + 1 \in 0 .. m /\ i + 1 - 1 = i
    BY <1>1, <1>4, <1>6
  <2>2. Applied(f[i], f[i + 1], updates[i + 1])
    BY <1>2, <2>1
  <2>3. f[i + 1].oper[p] = f[i].oper[p]
    BY <1>3, <2>1, <2>2 DEF Applied
  <2> QED BY <1>6, <2>1, <2>3
<1>7. \A i \in 0 .. m - 1 : i \in S => i + 1 \in S
  BY <1>6
<1>8. m \in S
  <2> HIDE DEF S
  <2>1. \A i \in 0 .. m : i \in S
    BY <1>5, <1>7, Induction, Zenon
  <2> QED BY <2>1
<1>9. k \in 1 .. k
  BY <1>1
<1> QED BY <1>2, <1>8, <1>9, <1>4 DEF Applied

-----------------------------------------------------------------------------
(* Paths through queues that grow and are consumed.                        *)

(* Two paths over queues, one after the other, are one.                    *)
LEMMA EntryPathGrows ==
  ASSUME NEW n, NEW q, NEW s, NEW r, NEW x, NEW y, NEW z,
         Len(q) \in Nat, Len(r) \in Nat, Grown(q, s, r),
         HasEntryPath(n, q, x, y), HasEntryPath(n, r, y, z)
  PROVE  HasEntryPath(n, s, x, z)
<1>1. PICK e \in [0 .. Len(q) -> EntryValues(n)] : EntryPath(n, q, x, y, e)
  BY DEF HasEntryPath
<1>2. PICK d \in [0 .. Len(r) -> EntryValues(n)] : EntryPath(n, r, y, z, d)
  BY DEF HasEntryPath
<1> DEFINE c == [i \in 0 .. Len(s) |-> IF i <= Len(q) THEN e[i] ELSE d[i - Len(q)]]
<1>3. Len(s) = Len(q) + Len(r)
  BY DEF Grown
<1>4. c \in [0 .. Len(s) -> EntryValues(n)]
  BY <1>3
<1>5. c[0] = x /\ c[Len(s)] = z
  BY <1>1, <1>2, <1>3 DEF EntryPath
<1>6. ASSUME NEW i \in 1 .. Len(s) PROVE c[i] = EntryAfter(n, c[i - 1], s[i])
  <2>1. CASE i <= Len(q)
    <3>1. i \in 1 .. Len(q) /\ c[i] = e[i] /\ c[i - 1] = e[i - 1]
      BY <1>3, <2>1
    <3> QED BY <1>1, <3>1 DEF EntryPath, Grown
  <2>2. CASE i > Len(q)
    <3>1. PICK j \in 1 .. Len(r) : i = Len(q) + j
      <4>1. i - Len(q) \in 1 .. Len(r) /\ i = Len(q) + (i - Len(q))
        BY <1>3, <2>2
      <4> QED BY <4>1, Zenon
    <3>2. c[i] = d[j] /\ s[i] = r[j]
      BY <1>3, <2>2, <3>1 DEF Grown
    <3>3. c[i - 1] = d[j - 1]
      <4>1. e[Len(q)] = d[0]
        BY <1>1, <1>2 DEF EntryPath
      <4>2. i - 1 \in 0 .. Len(s) /\ i - 1 = Len(q) + (j - 1) /\ (j = 1 => i - 1 = Len(q))
        BY <1>3, <3>1
      <4> QED BY <1>3, <4>1, <4>2
    <3> QED BY <1>2, <3>1, <3>2, <3>3 DEF EntryPath
  <2> QED BY <1>3, <2>1, <2>2
<1> HIDE DEF c
<1> QED BY <1>4, <1>5, <1>6, SMTT(20), Zenon DEF HasEntryPath, EntryPath

LEMMA OperPathGrows ==
  ASSUME NEW p, NEW q, NEW s, NEW r, NEW x, NEW y, NEW z,
         Len(q) \in Nat, Len(r) \in Nat, Grown(q, s, r),
         HasOperPath(p, q, x, y), HasOperPath(p, r, y, z)
  PROVE  HasOperPath(p, s, x, z)
<1>1. PICK e \in [0 .. Len(q) -> BOOLEAN] : OperPath(p, q, x, y, e)
  BY DEF HasOperPath
<1>2. PICK d \in [0 .. Len(r) -> BOOLEAN] : OperPath(p, r, y, z, d)
  BY DEF HasOperPath
<1> DEFINE c == [i \in 0 .. Len(s) |-> IF i <= Len(q) THEN e[i] ELSE d[i - Len(q)]]
<1>3. Len(s) = Len(q) + Len(r)
  BY DEF Grown
<1>4. c \in [0 .. Len(s) -> BOOLEAN]
  BY <1>3
<1>5. c[0] = x /\ c[Len(s)] = z
  BY <1>1, <1>2, <1>3 DEF OperPath
<1>6. ASSUME NEW i \in 1 .. Len(s)
      PROVE  IF OperOf(s[i], p) THEN s[i].up = c[i] /\ c[i - 1] = ~c[i] ELSE c[i] = c[i - 1]
  <2>1. CASE i <= Len(q)
    <3>1. i \in 1 .. Len(q) /\ c[i] = e[i] /\ c[i - 1] = e[i - 1]
      BY <1>3, <2>1
    <3>2. s[i] = q[i]
      BY <3>1 DEF Grown
    <3> HIDE DEF c
    <3> QED BY <1>1, <3>1, <3>2 DEF OperPath
  <2>2. CASE i > Len(q)
    <3>1. PICK j \in 1 .. Len(r) : i = Len(q) + j
      <4>1. i - Len(q) \in 1 .. Len(r) /\ i = Len(q) + (i - Len(q))
        BY <1>3, <2>2
      <4> QED BY <4>1, Zenon
    <3>2. c[i] = d[j] /\ s[i] = r[j]
      BY <1>3, <2>2, <3>1 DEF Grown
    <3>3. c[i - 1] = d[j - 1]
      <4>1. e[Len(q)] = d[0]
        BY <1>1, <1>2 DEF OperPath
      <4>2. i - 1 \in 0 .. Len(s) /\ i - 1 = Len(q) + (j - 1) /\ (j = 1 => i - 1 = Len(q))
        BY <1>3, <3>1
      <4> QED BY <1>3, <4>1, <4>2
    <3> HIDE DEF c
    <3> QED BY <1>2, <3>1, <3>2, <3>3 DEF OperPath
  <2> QED BY <1>3, <2>1, <2>2
<1> HIDE DEF c
<1> QED BY <1>4, <1>5, <1>6, Zenon DEF HasOperPath, OperPath

LEMMA ScanPathGrows ==
  ASSUME NEW p, NEW q, NEW s, NEW r, NEW x, NEW y, NEW z,
         Len(q) \in Nat, Len(r) \in Nat, Grown(q, s, r),
         HasScanPath(p, q, x, y), HasScanPath(p, r, y, z)
  PROVE  HasScanPath(p, s, x, z)
<1>1. PICK e \in [0 .. Len(q) -> BOOLEAN] : ScanPath(p, q, x, y, e)
  BY DEF HasScanPath
<1>2. PICK d \in [0 .. Len(r) -> BOOLEAN] : ScanPath(p, r, y, z, d)
  BY DEF HasScanPath
<1> DEFINE c == [i \in 0 .. Len(s) |-> IF i <= Len(q) THEN e[i] ELSE d[i - Len(q)]]
<1>3. Len(s) = Len(q) + Len(r)
  BY DEF Grown
<1>4. c \in [0 .. Len(s) -> BOOLEAN]
  BY <1>3
<1>5. c[0] = x /\ c[Len(s)] = z
  BY <1>1, <1>2, <1>3 DEF ScanPath
<1>6. ASSUME NEW i \in 1 .. Len(s)
      PROVE  IF s[i].port = p THEN s[i].up = c[i] /\ c[i - 1] = ~c[i] ELSE c[i] = c[i - 1]
  <2>1. CASE i <= Len(q)
    <3>1. i \in 1 .. Len(q) /\ c[i] = e[i] /\ c[i - 1] = e[i - 1]
      BY <1>3, <2>1
    <3>2. s[i] = q[i]
      BY <3>1 DEF Grown
    <3> HIDE DEF c
    <3> QED BY <1>1, <3>1, <3>2, Zenon DEF ScanPath
  <2>2. CASE i > Len(q)
    <3>1. PICK j \in 1 .. Len(r) : i = Len(q) + j
      <4>1. i - Len(q) \in 1 .. Len(r) /\ i = Len(q) + (i - Len(q))
        BY <1>3, <2>2
      <4> QED BY <4>1, Zenon
    <3>2. c[i] = d[j] /\ s[i] = r[j]
      BY <1>3, <2>2, <3>1 DEF Grown
    <3>3. c[i - 1] = d[j - 1]
      <4>1. e[Len(q)] = d[0]
        BY <1>1, <1>2 DEF ScanPath
      <4>2. i - 1 \in 0 .. Len(s) /\ i - 1 = Len(q) + (j - 1) /\ (j = 1 => i - 1 = Len(q))
        BY <1>3, <3>1
      <4> QED BY <1>3, <4>1, <4>2
    <3> HIDE DEF c
    <3> QED BY <1>2, <3>1, <3>2, <3>3 DEF ScanPath
  <2> QED BY <1>3, <2>1, <2>2
<1> HIDE DEF c
<1> QED BY <1>4, <1>5, <1>6, Zenon DEF HasScanPath, ScanPath

(* A path over what is left of a queue starts where its first part ends.   *)
LEMMA EntryPathShrinks ==
  ASSUME NEW n, NEW q, NEW s, NEW k \in 0 .. Len(q), NEW x, NEW y,
         Len(q) \in Nat, Shrunk(q, s, k),
         NEW e \in [0 .. Len(q) -> EntryValues(n)], EntryPath(n, q, x, y, e)
  PROVE  HasEntryPath(n, s, e[k], y)
<1>1. Len(q) = k + Len(s) /\ Len(s) \in Nat
  BY DEF Shrunk, IsSequence
<1> DEFINE c == [i \in 0 .. Len(s) |-> e[k + i]]
<1>2. c \in [0 .. Len(s) -> EntryValues(n)]
  BY <1>1
<1>3. c[0] = e[k] /\ c[Len(s)] = y
  BY <1>1 DEF EntryPath
<1>4. ASSUME NEW i \in 1 .. Len(s)
      PROVE  c[i] = EntryAfter(n, c[i - 1], s[i])
  <2>1. /\ k + i \in 1 .. Len(q) /\ c[i] = e[k + i] /\ c[i - 1] = e[k + i - 1]
        /\ s[i] = q[k + i]
    BY <1>1 DEF Shrunk
  <2> HIDE DEF c
  <2> QED BY <2>1 DEF EntryPath
<1> HIDE DEF c
<1> QED BY <1>2, <1>3, <1>4, Zenon DEF HasEntryPath, EntryPath

LEMMA OperPathShrinks ==
  ASSUME NEW p, NEW q, NEW s, NEW k \in 0 .. Len(q), NEW x, NEW y,
         Len(q) \in Nat, Shrunk(q, s, k),
         NEW e \in [0 .. Len(q) -> BOOLEAN], OperPath(p, q, x, y, e)
  PROVE  HasOperPath(p, s, e[k], y)
<1>1. Len(q) = k + Len(s) /\ Len(s) \in Nat
  BY DEF Shrunk, IsSequence
<1> DEFINE c == [i \in 0 .. Len(s) |-> e[k + i]]
<1>2. c \in [0 .. Len(s) -> BOOLEAN]
  BY <1>1
<1>3. c[0] = e[k] /\ c[Len(s)] = y
  BY <1>1 DEF OperPath
<1>4. ASSUME NEW i \in 1 .. Len(s)
      PROVE  IF OperOf(s[i], p) THEN s[i].up = c[i] /\ c[i - 1] = ~c[i] ELSE c[i] = c[i - 1]
  <2>1. /\ k + i \in 1 .. Len(q) /\ c[i] = e[k + i] /\ c[i - 1] = e[k + i - 1]
        /\ s[i] = q[k + i]
    BY <1>1 DEF Shrunk
  <2>2. IF OperOf(q[k + i], p) THEN q[k + i].up = e[k + i] /\ e[k + i - 1] = ~e[k + i]
        ELSE e[k + i] = e[k + i - 1]
    BY <2>1 DEF OperPath
  <2> HIDE DEF c
  <2> QED BY <2>1, <2>2, Zenon
<1> HIDE DEF c
<1> QED BY <1>2, <1>3, <1>4, Zenon DEF HasOperPath, OperPath

LEMMA ScanPathShrinks ==
  ASSUME NEW p, NEW q, NEW s, NEW k \in 0 .. Len(q), NEW x, NEW y,
         Len(q) \in Nat, Shrunk(q, s, k),
         NEW e \in [0 .. Len(q) -> BOOLEAN], ScanPath(p, q, x, y, e)
  PROVE  HasScanPath(p, s, e[k], y)
<1>1. Len(q) = k + Len(s) /\ Len(s) \in Nat
  BY DEF Shrunk, IsSequence
<1> DEFINE c == [i \in 0 .. Len(s) |-> e[k + i]]
<1>2. c \in [0 .. Len(s) -> BOOLEAN]
  BY <1>1
<1>3. c[0] = e[k] /\ c[Len(s)] = y
  BY <1>1 DEF ScanPath
<1>4. ASSUME NEW i \in 1 .. Len(s)
      PROVE  IF s[i].port = p THEN s[i].up = c[i] /\ c[i - 1] = ~c[i] ELSE c[i] = c[i - 1]
  <2>1. /\ k + i \in 1 .. Len(q) /\ c[i] = e[k + i] /\ c[i - 1] = e[k + i - 1]
        /\ s[i] = q[k + i]
    BY <1>1 DEF Shrunk
  <2>2. IF q[k + i].port = p THEN q[k + i].up = e[k + i] /\ e[k + i - 1] = ~e[k + i]
        ELSE e[k + i] = e[k + i - 1]
    BY <2>1 DEF ScanPath
  <2> HIDE DEF c
  <2> QED BY <2>1, <2>2, Zenon
<1> HIDE DEF c
<1> QED BY <1>2, <1>3, <1>4 DEF HasScanPath, ScanPath

(* Paths over no element and over one.                                     *)
LEMMA ShortPaths ==
  /\ \A n, u : \A x, y \in EntryValues(n) :
       y = EntryAfter(n, x, u) => HasEntryPath(n, <<u>>, x, y)
  /\ \A p, u : \A x \in BOOLEAN : ~OperOf(u, p) => HasOperPath(p, <<u>>, x, x)
  /\ \A p, u : \A x \in BOOLEAN : OperOf(u, p) /\ u.up = ~x => HasOperPath(p, <<u>>, x, ~x)
  /\ \A p, u : \A x \in BOOLEAN : u.port # p => HasScanPath(p, <<u>>, x, x)
  /\ \A p, u : \A x \in BOOLEAN : u.port = p /\ u.up = ~x => HasScanPath(p, <<u>>, x, ~x)
<1>1. \A u : Len(<<u>>) = 1 /\ <<u>>[1] = u
  OBVIOUS
<1>2. 1 - 1 = 0 /\ \A i \in 1 .. 1 : i = 1
  OBVIOUS
<1>3. ASSUME NEW n, NEW u, NEW x \in EntryValues(n), NEW y \in EntryValues(n),
             y = EntryAfter(n, x, u)
      PROVE  HasEntryPath(n, <<u>>, x, y)
  <2> DEFINE e == [i \in 0 .. 1 |-> IF i = 0 THEN x ELSE y]
  <2>1. e \in [0 .. 1 -> EntryValues(n)] /\ e[0] = x /\ e[1] = y
    OBVIOUS
  <2> HIDE DEF e
  <2> QED BY <1>1, <1>2, <1>3, <2>1 DEF HasEntryPath, EntryPath
<1>4. ASSUME NEW p, NEW u, NEW x \in BOOLEAN, NEW y \in BOOLEAN,
             IF OperOf(u, p) THEN u.up = y /\ x = ~y ELSE y = x
      PROVE  HasOperPath(p, <<u>>, x, y)
  <2> DEFINE e == [i \in 0 .. 1 |-> IF i = 0 THEN x ELSE y]
  <2>1. e \in [0 .. 1 -> BOOLEAN] /\ e[0] = x /\ e[1] = y
    OBVIOUS
  <2> HIDE DEF e
  <2> QED BY <1>1, <1>2, <1>4, <2>1 DEF HasOperPath, OperPath
<1>5. ASSUME NEW p, NEW u, NEW x \in BOOLEAN, NEW y \in BOOLEAN,
             IF u.port = p THEN u.up = y /\ x = ~y ELSE y = x
      PROVE  HasScanPath(p, <<u>>, x, y)
  <2> DEFINE e == [i \in 0 .. 1 |-> IF i = 0 THEN x ELSE y]
  <2>1. e \in [0 .. 1 -> BOOLEAN] /\ e[0] = x /\ e[1] = y
    OBVIOUS
  <2> HIDE DEF e
  <2> QED BY <1>1, <1>2, <1>5, <2>1 DEF HasScanPath, ScanPath
<1> QED BY <1>3, <1>4, <1>5, Zenon

-----------------------------------------------------------------------------
(* Conjuncts that a step does not touch.                                   *)

LEMMA HostKept ==
  ASSUME HostInv, UNCHANGED <<work, state, host, resolved, portMap>>
  PROVE  HostInv'
BY DEF HostInv, HasTask, EgressPort, Usable

LEMMA WorkKept ==
  ASSUME WorkInv, UNCHANGED <<work, resolved>>
  PROVE  WorkInv'
BY DEF WorkInv

LEMMA CacheKept ==
  ASSUME CacheInv, UNCHANGED <<updates, state, cache>>
  PROVE  CacheInv'
BY Zenon DEF CacheInv

LEMMA LinkKept ==
  ASSUME LinkInv, UNCHANGED <<updates, state, scan, link, traverse>>
  PROVE  LinkInv'
BY Zenon DEF LinkInv

LEMMA StatesKept ==
  ASSUME StatesOK, UNCHANGED <<link, cache, state>>
  PROVE  StatesOK'
BY DEF StatesOK

LEMMA HardwareKept ==
  ASSUME HardwareOK, UNCHANGED <<traverse, host, resolved, portMap, ecmp>>
  PROVE  HardwareOK'
BY DEF HardwareOK

LEMMA TraversalKept ==
  ASSUME InTraversal, UNCHANGED traverse
  PROVE  InTraversal'
BY Zenon DEF InTraversal

(* What is on its way for a missing member stays on its way.               *)
LEMMA ReturnKept ==
  ASSUME ReturnInv, UNCHANGED <<ecmp, resolved, work>>,
         \A p \in Ports : LossPending(p) => LossPending(p)',
         \A n \in Neighbors : ResetPending(n) => ResetPending(n)'
  PROVE  ReturnInv'
<1>1. \A n, g : ToExpand(n, g)' <=> ToExpand(n, g)
  BY Zenon DEF ToExpand
<1> QED BY <1>1 DEF ReturnInv

-----------------------------------------------------------------------------
(* Closures are queued.                                                    *)

(* A queue that has grown.                                                 *)
LEMMA GrownElements ==
  ASSUME NEW r, NEW s, NEW q, Len(r) \in Nat, Len(q) \in Nat, Grown(r, s, q)
  PROVE  /\ \A i \in 1 .. Len(r) : i \in 1 .. Len(s) /\ s[i] = r[i]
         /\ \A i \in 1 .. Len(q) : Len(r) + i \in 1 .. Len(s) /\ s[Len(r) + i] = q[i]
         /\ \A i \in 1 .. Len(s) : \/ i \in 1 .. Len(r) /\ s[i] = r[i]
                                   \/ \E j \in 1 .. Len(q) : i = Len(r) + j /\ s[i] = q[j]
<1>1. \A i \in 1 .. Len(r) : i \in 1 .. Len(s) /\ s[i] = r[i]
  BY DEF Grown
<1>2. \A i \in 1 .. Len(q) : Len(r) + i \in 1 .. Len(s) /\ s[Len(r) + i] = q[i]
  BY DEF Grown
<1>3. ASSUME NEW i \in 1 .. Len(s), i \notin 1 .. Len(r)
      PROVE  \E j \in 1 .. Len(q) : i = Len(r) + j /\ s[i] = q[j]
  <2>1. i - Len(r) \in 1 .. Len(q) /\ i = Len(r) + (i - Len(r))
    BY <1>3 DEF Grown
  <2> QED BY <1>2, <2>1, SMTT(20)
<1> QED BY <1>1, <1>2, <1>3

LEMMA Single ==
  \A u : Len(<<u>>) = 1 /\ <<u>>[1] = u
OBVIOUS

\* Sequence s is r with u after it.
ByOne(r, s, u) ==
  /\ \A i \in 1 .. Len(r) : i \in 1 .. Len(s) /\ s[i] = r[i]
  /\ Len(r) + 1 \in 1 .. Len(s) /\ s[Len(r) + 1] = u
  /\ \A i \in 1 .. Len(s) : (i \in 1 .. Len(r) /\ s[i] = r[i]) \/ s[i] = u

LEMMA GrownByOne ==
  ASSUME NEW r, NEW s, NEW u, Len(r) \in Nat, Grown(r, s, <<u>>)
  PROVE  ByOne(r, s, u)
<1>1. Len(<<u>>) = 1 /\ <<u>>[1] = u /\ 1 \in 1 .. 1
  BY Single
<1>2. /\ Len(s) = Len(r) + 1 /\ s[Len(r) + 1] = u
      /\ \A i \in 1 .. Len(r) : s[i] = r[i]
  BY <1>1, Zenon DEF Grown
<1>3. \A i \in 1 .. Len(r) + 1 : i \in 1 .. Len(r) \/ i = Len(r) + 1
  OBVIOUS
<1> QED BY <1>2, <1>3 DEF ByOne

(* Closures other than reports of a port are queued for what the neighbour *)
(* cache changes.                                                          *)
LEMMA ClosuresQueued ==
  ASSUME IInv, NEW q, IsSequence(q),
         \A i \in 1 .. Len(q) : UpdateOK(q[i]) /\ q[i].op # "oper",
         Grown(updates, updates', q), UNCHANGED <<state, scan, link, traverse>>,
         \A n \in Neighbors : HasEntryPath(n, q, cache[n], cache'[n]),
         \A p \in Ports : \A x \in BOOLEAN : HasOperPath(p, q, x, x)
  PROVE  /\ IsSequence(updates)' /\ \A i \in 1 .. Len(updates') : UpdateOK(updates'[i])
         /\ CacheInv' /\ LinkInv'
         /\ \A n \in Neighbors : ResetPending(n) => ResetPending(n)'
         /\ \A i \in 1 .. Len(updates) : i \in 1 .. Len(updates') /\ updates'[i] = updates[i]
<1>1. Len(updates) \in Nat /\ Len(q) \in Nat /\ \A i \in 1 .. Len(updates) : UpdateOK(updates[i])
  BY Zenon DEF IInv, TypeInv, QueuesOK, IsSequence
<1>2. /\ \A i \in 1 .. Len(updates) : i \in 1 .. Len(updates') /\ updates'[i] = updates[i]
      /\ \A i \in 1 .. Len(updates') :
           \/ i \in 1 .. Len(updates) /\ updates'[i] = updates[i]
           \/ \E j \in 1 .. Len(q) : i = Len(updates) + j /\ updates'[i] = q[j]
  BY <1>1, GrownElements
<1>3. IsSequence(updates)' /\ \A i \in 1 .. Len(updates') : UpdateOK(updates'[i])
  BY <1>1, <1>2, Zenon DEF Grown
<1>4. CacheInv'
  <2>1. ASSUME NEW n \in Neighbors
        PROVE  HasEntryPath(n, updates', state.entry[n], cache'[n])
    <3>1. HasEntryPath(n, updates, state.entry[n], cache[n])
      BY Zenon DEF IInv, CacheInv
    <3> QED BY <1>1, <3>1, EntryPathGrows, Zenon
  <2> QED BY <2>1, Zenon DEF CacheInv
<1>5. LinkInv'
  <2>1. ASSUME NEW p \in Ports, NEW x \in BOOLEAN, HasOperPath(p, updates, state.oper[p], x)
        PROVE  HasOperPath(p, updates', state.oper[p], x)
    BY <1>1, <2>1, OperPathGrows, Zenon
  <2> QED BY <2>1, Zenon DEF IInv, LinkInv
<1>6. \A n \in Neighbors : ResetPending(n) => ResetPending(n)'
  BY <1>2, Zenon DEF ResetPending
<1> QED BY <1>2, <1>3, <1>4, <1>5, <1>6, Zenon

(* One closure is queued; the cache holds what it will leave.              *)
LEMMA OneQueued ==
  ASSUME IInv, NEW u, UpdateOK(u), u.op # "oper",
         updates' = Append(updates, u),
         DOMAIN cache' = Neighbors,
         \A n \in Neighbors : /\ cache'[n] \in EntryValues(n)
                              /\ cache'[n] = EntryAfter(n, cache[n], u),
         UNCHANGED <<link, scan, traverse, posted, state, work, host, resolved, portMap, ecmp>>
  PROVE  IInv'
<1> DEFINE q == <<u>>
<1>1. Len(q) = 1 /\ q[1] = u /\ IsSequence(q)
  <2>1. q \in Seq({u})
    OBVIOUS
  <2> QED BY <2>1, SeqIsSequence, Zenon
<1>2. Grown(updates, updates', q)
  BY AppendGrows, Zenon DEF IInv, TypeInv, QueuesOK
<1>3. \A n \in Neighbors : HasEntryPath(n, q, cache[n], cache'[n])
  BY ShortPaths, Zenon DEF IInv, TypeInv, StatesOK
<1>4. \A p \in Ports : \A x \in BOOLEAN : HasOperPath(p, q, x, x)
  BY ShortPaths, Zenon DEF OperOf
<1> HIDE DEF q
<1>5. \A i \in 1 .. Len(q) : UpdateOK(q[i]) /\ q[i].op # "oper"
  BY <1>1
<1>6. /\ IsSequence(updates)' /\ \A i \in 1 .. Len(updates') : UpdateOK(updates'[i])
      /\ CacheInv' /\ LinkInv'
      /\ \A n \in Neighbors : ResetPending(n) => ResetPending(n)'
      /\ \A i \in 1 .. Len(updates) : i \in 1 .. Len(updates') /\ updates'[i] = updates[i]
  BY <1>1, <1>2, <1>3, <1>4, <1>5, ClosuresQueued, Zenon
<1>7. TypeInv'
  <2>1. QueuesOK'
    BY <1>6, Zenon DEF IInv, TypeInv, QueuesOK
  <2>2. StatesOK'
    BY Zenon DEF IInv, TypeInv, StatesOK
  <2>3. HardwareOK'
    BY HardwareKept, Zenon DEF IInv, TypeInv
  <2> QED BY <2>1, <2>2, <2>3 DEF TypeInv
<1>8. ReturnInv'
  <2>1. \A p \in Ports : LossPending(p) => LossPending(p)'
    BY <1>6, Zenon DEF LossPending
  <2> QED BY <1>6, <2>1, ReturnKept, Zenon DEF IInv
<1>9. InTraversal' /\ HostInv' /\ WorkInv'
  BY TraversalKept, HostKept, WorkKept, Zenon DEF IInv
<1> QED BY <1>6, <1>7, <1>8, <1>9 DEF IInv

(* The neighbour cache thread, except for portDown(), and its clients.     *)
LEMMA AnswerStep ==
  ASSUME IInv, NEW n \in Neighbors, NEW p \in Ports, Answer(n, p)
  PROVE  IInv'
<1> DEFINE u == [op |-> "program", n |-> n, port |-> p]
<1>1. UpdateOK(u) /\ u.op # "oper"
  BY Zenon DEF Answer, UpdateOK
<1>2. DOMAIN cache' = Neighbors
  BY Zenon DEF IInv, TypeInv, StatesOK, Answer
<1>3. \A m \in Neighbors : /\ cache'[m] \in EntryValues(m)
                           /\ cache'[m] = EntryAfter(m, cache[m], u)
  BY Zenon DEF IInv, TypeInv, StatesOK, Answer, EntryValues, EntryAfter
<1>4. /\ updates' = Append(updates, u)
      /\ UNCHANGED <<link, scan, traverse, posted, state, work, host, resolved, portMap, ecmp>>
  BY Zenon DEF Answer, linkVars, hwVars
<1> HIDE DEF u
<1> QED BY <1>1, <1>2, <1>3, <1>4, OneQueued, Zenon

LEMMA SolicitStep ==
  ASSUME IInv, NEW n \in Neighbors, Solicit(n)
  PROVE  IInv'
<1> DEFINE u == [op |-> "programPending", n |-> n, force |-> FALSE]
<1>1. UpdateOK(u) /\ u.op # "oper"
  BY Zenon DEF UpdateOK
<1>2. DOMAIN cache' = Neighbors
  BY Zenon DEF IInv, TypeInv, StatesOK, Solicit
<1>3. \A m \in Neighbors : /\ cache'[m] \in EntryValues(m)
                           /\ cache'[m] = EntryAfter(m, cache[m], u)
  BY Zenon DEF IInv, TypeInv, StatesOK, Solicit, EntryValues, EntryAfter
<1>4. /\ updates' = Append(updates, u)
      /\ UNCHANGED <<link, scan, traverse, posted, state, work, host, resolved, portMap, ecmp>>
  BY Zenon DEF Solicit, linkVars, hwVars
<1> HIDE DEF u
<1> QED BY <1>1, <1>2, <1>3, <1>4, OneQueued, Zenon

LEMMA FlushStep ==
  ASSUME IInv, NEW n \in Neighbors, flushEntry(n)
  PROVE  IInv'
<1> DEFINE u == [op |-> "remove", n |-> n]
<1>1. UpdateOK(u) /\ u.op # "oper"
  BY Zenon DEF UpdateOK
<1>2. DOMAIN cache' = Neighbors
  BY Zenon DEF IInv, TypeInv, StatesOK, flushEntry
<1>3. \A m \in Neighbors : /\ cache'[m] \in EntryValues(m)
                           /\ cache'[m] = EntryAfter(m, cache[m], u)
  BY Zenon DEF IInv, TypeInv, StatesOK, flushEntry, EntryValues, EntryAfter
<1>4. /\ updates' = Append(updates, u)
      /\ UNCHANGED <<link, scan, traverse, posted, state, work, host, resolved, portMap, ecmp>>
  BY Zenon DEF flushEntry, linkVars, hwVars
<1> HIDE DEF u
<1> QED BY <1>1, <1>2, <1>3, <1>4, OneQueued

LEMMA RouteStep ==
  ASSUME IInv, NEW g \in Groups, UpdateRoute(g)
  PROVE  IInv'
<1>1. PICK add \in BOOLEAN : updates' = Append(updates, [op |-> "route", g |-> g, add |-> add])
  BY Zenon DEF UpdateRoute
<1> DEFINE u == [op |-> "route", g |-> g, add |-> add]
<1>2. UpdateOK(u) /\ u.op # "oper"
  BY Zenon DEF UpdateOK
<1>3. /\ DOMAIN cache' = Neighbors
      /\ \A m \in Neighbors : /\ cache'[m] \in EntryValues(m)
                              /\ cache'[m] = EntryAfter(m, cache[m], u)
  BY DEF IInv, TypeInv, StatesOK, UpdateRoute, neighborVars, EntryAfter
<1>4. /\ updates' = Append(updates, u)
      /\ UNCHANGED <<link, scan, traverse, posted, state, work, host, resolved, portMap, ecmp>>
  BY <1>1, Zenon DEF UpdateRoute, linkVars, neighborVars, hwVars
<1> HIDE DEF u
<1> QED BY <1>2, <1>3, <1>4, OneQueued, Zenon

-----------------------------------------------------------------------------
(* NeighborCacheImpl::portDown().                                          *)

(* Closures that do not reset an entry leave one that is resolved over the *)
(* only port it may have.                                                  *)
LEMMA ResolvedStays ==
  ASSUME NEW n \in Neighbors, NEW p \in Ports, NeighborPorts[n] = {p},
         NEW q, Len(q) \in Nat, NEW y, HasEntryPath(n, q, p, y),
         \A i \in 1 .. Len(q) : UpdateOK(q[i]) /\ ~Resets(q[i], n)
  PROVE  y = p
<1>1. PICK e \in [0 .. Len(q) -> EntryValues(n)] : EntryPath(n, q, p, y, e)
  BY Zenon DEF HasEntryPath
<1> DEFINE S == {i \in 0 .. Len(q) : e[i] = p}
<1>2. 0 \in S
  BY <1>1 DEF EntryPath
<1>3. ASSUME NEW i \in 0 .. Len(q) - 1, i \in S PROVE i + 1 \in S
  <2>1. i + 1 \in 1 .. Len(q) /\ i + 1 \in 0 .. Len(q) /\ i + 1 - 1 = i /\ e[i] = p
    BY <1>3
  <2>2. e[i + 1] = EntryAfter(n, p, q[i + 1])
    BY <1>1, <2>1 DEF EntryPath
  <2>3. EntryAfter(n, p, q[i + 1]) = p
    BY <2>1, EcmpAssumption, Zenon DEF UpdateOK, Resets, EntryAfter
  <2> QED BY <2>1, <2>2, <2>3, Zenon
<1>4. \A i \in 0 .. Len(q) - 1 : i \in S => i + 1 \in S
  BY <1>3, Zenon
<1>5. Len(q) \in S
  <2> HIDE DEF S
  <2>1. \A i \in 0 .. Len(q) : i \in S
    BY <1>2, <1>4, Induction, Zenon
  <2> QED BY <2>1
<1> QED BY <1>1, <1>5, Zenon DEF EntryPath

\* The closures that portDown() queues for the neighbours `over'.
Pendings(over) ==
  [i \in 1 .. Cardinality(over) |->
     [op |-> "programPending", n |-> InOrder(over)[i], force |-> TRUE]]

LEMMA PendingsQueued ==
  ASSUME NEW over, over \subseteq Neighbors
  PROVE  /\ IsSequence(Pendings(over))
         /\ \A i \in 1 .. Len(Pendings(over)) :
              UpdateOK(Pendings(over)[i]) /\ Pendings(over)[i].op # "oper"
         /\ \A n \in over : \E i \in 1 .. Len(Pendings(over)) : Resets(Pendings(over)[i], n)
         /\ \A n \in Neighbors : \A x \in EntryValues(n) :
              HasEntryPath(n, Pendings(over), x, IF n \in over THEN "pending" ELSE x)
         /\ \A p \in Ports : \A x \in BOOLEAN : HasOperPath(p, Pendings(over), x, x)
<1> DEFINE N == Cardinality(over)
           o == InOrder(over)
           q == Pendings(over)
<1>1. /\ N \in Nat /\ \A i \in 1 .. N : o[i] \in over
      /\ \A x \in over : \E i \in 1 .. N : o[i] = x
  <2>1. IsFiniteSet(over)
    BY EcmpAssumption, FS_Subset, Zenon
  <2> QED BY <2>1, Ordered
<1>2. /\ DOMAIN q = 1 .. N
      /\ \A i \in 1 .. N : q[i] = [op |-> "programPending", n |-> o[i], force |-> TRUE]
  BY DEF Pendings
<1>3. IsSequence(q) /\ Len(q) = N
  <2> DEFINE S == {[op |-> "programPending", n |-> m, force |-> TRUE] : m \in over}
  <2>1. q \in [1 .. N -> S]
    BY <1>1, Zenon DEF Pendings
  <2> HIDE DEF S, q, N
  <2>2. q \in Seq(S) /\ Len(q) = N
    BY <1>1, <2>1
  <2> QED BY <2>2, SeqIsSequence
<1> HIDE DEF q, o, N
<1>4. ASSUME NEW i \in 1 .. N PROVE UpdateOK(q[i]) /\ q[i].op # "oper"
  <2>1. o[i] \in Neighbors
    BY <1>1, Zenon
  <2>2. q[i].op = "programPending" /\ q[i].n = o[i] /\ q[i].force = TRUE
    BY <1>2
  <2> QED BY <2>1, <2>2, Zenon DEF UpdateOK
<1>5. \A n \in over : \E i \in 1 .. N : Resets(q[i], n)
  BY <1>1, <1>2 DEF Resets
<1>6. ASSUME NEW n \in Neighbors, NEW x \in EntryValues(n)
      PROVE  HasEntryPath(n, q, x, IF n \in over THEN "pending" ELSE x)
  <2> DEFINE c == [i \in 0 .. N |-> IF \E m \in 1 .. i : o[m] = n THEN "pending" ELSE x]
             y == IF n \in over THEN "pending" ELSE x
  <2>1. c \in [0 .. N -> EntryValues(n)]
    BY DEF EntryValues
  <2>2. c[0] = x /\ c[N] = y
    BY <1>1
  <2>3. ASSUME NEW i \in 1 .. N PROVE c[i] = EntryAfter(n, c[i - 1], q[i])
    <3>1. i - 1 \in 0 .. N /\ i \in 0 .. N
      BY <1>1
    <3>2. q[i].op = "programPending" /\ q[i].n = o[i] /\ q[i].force = TRUE
      BY <1>2
    <3>3. CASE o[i] = n
      <4>1. c[i] = "pending"
        BY <3>1, <3>3
      <4> HIDE DEF c
      <4> QED BY <3>2, <3>3, <4>1 DEF EntryAfter
    <3>4. CASE o[i] # n
      <4>1. c[i] = c[i - 1]
        BY <1>1, <3>1, <3>4
      <4> HIDE DEF c
      <4> QED BY <3>2, <3>4, <4>1, Zenon DEF EntryAfter
    <3> QED BY <3>3, <3>4
  <2> HIDE DEF c, y
  <2>4. HasEntryPath(n, q, x, y)
    BY <1>3, <2>1, <2>2, <2>3, Zenon DEF HasEntryPath, EntryPath
  <2> QED BY <2>4 DEF y
<1>7. ASSUME NEW p \in Ports, NEW x \in BOOLEAN PROVE HasOperPath(p, q, x, x)
  <2> DEFINE c == [i \in 0 .. N |-> x]
  <2>1. c \in [0 .. N -> BOOLEAN] /\ \A i \in 0 .. N : c[i] = x
    BY Zenon
  <2>2. \A i \in 1 .. N : i \in 0 .. N /\ i - 1 \in 0 .. N /\ ~OperOf(q[i], p)
    BY <1>1, <1>4 DEF OperOf
  <2> HIDE DEF c
  <2>3. OperPath(p, q, x, x, c)
    BY <1>1, <1>3, <2>1, <2>2 DEF OperPath
  <2> QED BY <1>3, <2>1, <2>3 DEF HasOperPath
<1> QED BY <1>3, <1>4, <1>5, <1>6, <1>7, Zenon DEF q

(* A resolved neighbour without a task of its own is resolved in the       *)
(* SwitchState, over its port.                                             *)
LEMMA ResolvedEntry ==
  ASSUME IInv, NEW n \in Neighbors, NEW p \in Ports, NeighborPorts[n] = {p}, n \in resolved
  PROVE  EgressPort(n) = p /\ (HasTask(n) \/ state.entry[n] = p)
<1>1. EgressPort(n) # "none"
  BY Zenon DEF IInv, HostInv
<1>2. EgressPort(n) = p
  BY <1>1, Zenon DEF IInv, TypeInv, HardwareOK, EgressPort
<1>3. HasTask(n) \/ Usable(state.entry[n]) = p
  BY <1>2, Zenon DEF IInv, HostInv
<1> QED BY <1>2, <1>3, EcmpAssumption, Zenon DEF Usable

LEMMA PortDownStep ==
  ASSUME IInv, portDown
  PROVE  IInv'
<1> DEFINE over == {n \in Neighbors : cache[n] = Head(posted)}
           q == Pendings(over)
<1>1. over \subseteq Neighbors
  BY Zenon
<1>2. /\ IsSequence(q)
      /\ \A i \in 1 .. Len(q) : UpdateOK(q[i]) /\ q[i].op # "oper"
      /\ \A n \in over : \E i \in 1 .. Len(q) : Resets(q[i], n)
      /\ \A n \in Neighbors : \A x \in EntryValues(n) :
           HasEntryPath(n, q, x, IF n \in over THEN "pending" ELSE x)
      /\ \A p \in Ports : \A x \in BOOLEAN : HasOperPath(p, q, x, x)
  <2> HIDE DEF over
  <2> QED BY <1>1, PendingsQueued, Zenon
<1>3. /\ posted # <<>> /\ posted' = Tail(posted)
      /\ updates' = updates \o q
      /\ cache' = [n \in Neighbors |-> IF n \in over THEN "pending" ELSE cache[n]]
      /\ UNCHANGED <<link, scan, traverse, state, work, host, resolved, portMap, ecmp>>
  BY Zenon DEF portDown, Pendings, linkVars, hwVars
<1>4. Grown(updates, updates', q)
  BY <1>2, <1>3, ConcatGrows, Zenon DEF IInv, TypeInv, QueuesOK
<1>5. Head(posted) = posted[1] /\ IsSequence(posted') /\ Len(posted) = Len(posted') + 1
      /\ \A i \in 1 .. Len(posted') : posted'[i] = posted[i + 1]
  BY <1>3, TailSequence DEF IInv, TypeInv, QueuesOK
<1>6. \A n \in Neighbors : n \in over <=> cache[n] = posted[1]
  BY <1>5, Zenon
<1> HIDE DEF over, q
<1>7. \A n \in Neighbors : HasEntryPath(n, q, cache[n], cache'[n])
  BY <1>2, <1>3 DEF IInv, TypeInv, StatesOK
<1>8. /\ IsSequence(updates)' /\ \A i \in 1 .. Len(updates') : UpdateOK(updates'[i])
      /\ CacheInv' /\ LinkInv'
      /\ \A n \in Neighbors : ResetPending(n) => ResetPending(n)'
      /\ \A i \in 1 .. Len(updates) : i \in 1 .. Len(updates') /\ updates'[i] = updates[i]
  BY <1>2, <1>3, <1>4, <1>7, ClosuresQueued, Zenon
<1>9. TypeInv'
  <2>1. QueuesOK'
    <3>1. ASSUME NEW i \in 1 .. Len(posted') PROVE posted'[i] \in Ports
      <4>1. i + 1 \in 1 .. Len(posted) /\ posted'[i] = posted[i + 1]
        BY <1>5 DEF IsSequence
      <4> QED BY <4>1 DEF IInv, TypeInv, QueuesOK
    <3> QED BY <1>3, <1>5, <1>8, <3>1, Zenon DEF IInv, TypeInv, QueuesOK
  <2>2. StatesOK'
    BY <1>3, Zenon DEF IInv, TypeInv, StatesOK, EntryValues
  <2>3. HardwareOK'
    BY <1>3, HardwareKept, Zenon DEF IInv, TypeInv
  <2> QED BY <2>1, <2>2, <2>3, Zenon DEF TypeInv
<1>10. ASSUME NEW n \in Neighbors, NEW p \in Ports, NeighborPorts[n] = {p},
              NEW g \in DOMAIN ecmp, n \in g, n \in resolved, n \notin ecmp[g]
       PROVE  ToExpand(n, g)' \/ LossPending(p)' \/ ResetPending(n)'
  <2>1. ToExpand(n, g) => ToExpand(n, g)'
    BY <1>3, Zenon DEF ToExpand
  <2>2. LossPending(p) => LossPending(p)' \/ posted[1] = p
    <3>1. ASSUME NEW i \in 1 .. Len(posted), posted[i] = p, posted[1] # p
          PROVE  \E j \in 1 .. Len(posted') : posted'[j] = p
      <4>1. Len(posted') \in Nat /\ i - 1 \in 1 .. Len(posted') /\ i - 1 + 1 = i
        BY <1>5, <3>1 DEF IsSequence
      <4> QED BY <1>5, <3>1, <4>1, Zenon
    <3> QED BY <1>3, <1>8, <3>1 DEF LossPending
  <2>3. ASSUME posted[1] = p, ~ToExpand(n, g) PROVE ResetPending(n)'
    <3>1. CASE cache[n] = p
      <4>1. PICK i \in 1 .. Len(q) : Resets(q[i], n)
        BY <1>2, <1>6, <2>3, <3>1, Zenon
      <4>2. Len(updates) + i \in 1 .. Len(updates') /\ updates'[Len(updates) + i] = q[i]
        BY <1>2, <1>4, GrownElements DEF IInv, TypeInv, QueuesOK, IsSequence
      <4> QED BY <4>1, <4>2, Zenon DEF ResetPending
    <3>2. CASE cache[n] # p
      <4>1. state.entry[n] = p
        BY <1>10, <2>3, ResolvedEntry, Zenon DEF ToExpand, HasTask
      <4>2. HasEntryPath(n, updates, p, cache[n])
        BY <4>1 DEF IInv, CacheInv
      <4>3. ResetPending(n)
        BY <1>10, <3>2, <4>2, ResolvedStays, Zenon DEF ResetPending, IInv, TypeInv, QueuesOK, IsSequence
      <4> QED BY <1>8, <4>3, Zenon
    <3> QED BY <3>1, <3>2
  <2> QED BY <1>8, <1>10, <2>1, <2>2, <2>3, Zenon DEF IInv, ReturnInv
<1>11. ReturnInv'
  BY <1>3, <1>10, Zenon DEF ReturnInv
<1>12. InTraversal' /\ HostInv' /\ WorkInv'
  BY <1>3, TraversalKept, HostKept, WorkKept DEF IInv
<1> QED BY <1>8, <1>9, <1>11, <1>12 DEF IInv

-----------------------------------------------------------------------------
(* The linkscan bottom half.                                               *)

LEMMA LinkChangeStep ==
  ASSUME IInv, NEW p \in Ports, linkscanCallback(p)
  PROVE  IInv'
<1> DEFINE u == [port |-> p, up |-> ~link[p]]
<1>1. /\ link' = [link EXCEPT ![p] = ~link[p]] /\ scan' = Append(scan, u)
      /\ UNCHANGED <<traverse, cache, posted, updates, state, work, host, resolved, portMap, ecmp>>
  BY Zenon DEF linkscanCallback, neighborVars, hwVars
<1>2. u.port = p /\ u.up = ~link[p] /\ ScanOK(u)
  BY Zenon DEF ScanOK, IInv, TypeInv, StatesOK
<1>3. Grown(scan, scan', <<u>>)
  <2> HIDE DEF u
  <2> QED BY <1>1, AppendGrows, Zenon DEF IInv, TypeInv, QueuesOK
<1> HIDE DEF u
<1>4. IsSequence(scan) /\ Len(scan) \in Nat /\ \A i \in 1 .. Len(scan) : ScanOK(scan[i])
  BY DEF IInv, TypeInv, QueuesOK, IsSequence
<1>5. Len(<<u>>) = 1 /\ <<u>>[1] = u /\ Len(<<u>>) \in Nat /\ \A i \in 1 .. 1 : i = 1
  OBVIOUS
<1>6. /\ \A i \in 1 .. Len(scan) : i \in 1 .. Len(scan') /\ scan'[i] = scan[i]
      /\ \A i \in 1 .. Len(scan') : (i \in 1 .. Len(scan) /\ scan'[i] = scan[i]) \/ scan'[i] = u
  <2>1. ByOne(scan, scan', u)
    BY <1>3, <1>4, GrownByOne
  <2> QED BY <2>1 DEF ByOne
<1>7. TypeInv'
  <2>1. \A i \in 1 .. Len(scan') : ScanOK(scan'[i])
    BY <1>2, <1>4, <1>5, <1>6, Zenon
  <2>2. QueuesOK'
    BY <1>1, <1>3, <2>1, Zenon DEF IInv, TypeInv, QueuesOK, Grown
  <2>3. StatesOK'
    BY <1>1, Zenon DEF IInv, TypeInv, StatesOK
  <2>4. HardwareOK'
    BY <1>1, HardwareKept, Zenon DEF IInv, TypeInv
  <2> QED BY <2>2, <2>3, <2>4, Zenon DEF TypeInv
<1>8. LinkInv'
  <2>1. ASSUME NEW r \in Ports, NEW x \in BOOLEAN, HasScanPath(r, scan, x, link[r])
        PROVE  HasScanPath(r, scan', x, link'[r])
    <3>1. link[r] \in BOOLEAN /\ link'[r] = IF r = p THEN ~link[r] ELSE link[r]
      BY <1>1, Zenon DEF IInv, TypeInv, StatesOK
    <3>2. HasScanPath(r, <<u>>, link[r], link'[r])
      <4>1. CASE r = p
        BY <1>2, <3>1, <4>1, ShortPaths, Zenon
      <4>2. CASE r # p
        BY <1>2, <3>1, <4>2, ShortPaths, Zenon
      <4> QED BY <4>1, <4>2
    <3> QED BY <1>3, <1>4, <1>5, <2>1, <3>2, ScanPathGrows
  <2>2. \A r \in Ports : \E x \in BOOLEAN :
          HasOperPath(r, updates', state'.oper[r], x) /\ HasScanPath(r, scan', x, link'[r])
    BY <1>1, <2>1, Zenon DEF IInv, LinkInv
  <2>3. scan # <<>> => scan' # <<>> /\ scan'[1] = scan[1]
    BY <1>1, <1>4, <1>6, EmptySeq DEF IsSequence
  <2> QED BY <1>1, <2>2, <2>3, Zenon DEF IInv, LinkInv
<1>9. ReturnInv'
  <2>1. /\ \A r \in Ports : LossPending(r) => LossPending(r)'
        /\ \A n \in Neighbors : ResetPending(n) => ResetPending(n)'
    BY <1>1, Zenon DEF LossPending, ResetPending
  <2> QED BY <1>1, <2>1, ReturnKept DEF IInv
<1>10. CacheInv' /\ InTraversal' /\ HostInv' /\ WorkInv'
  BY <1>1, CacheKept, TraversalKept, HostKept, WorkKept, Zenon DEF IInv
<1> QED BY <1>7, <1>8, <1>9, <1>10 DEF IInv

(* The oldest link change becomes a closure.                               *)
LEMMA ReportQueued ==
  ASSUME IInv, scan # <<>>, scan' = Tail(scan), traverse' = Idle,
         updates' = Append(updates, OperUpdate(scan[1].port, scan[1].up)),
         UNCHANGED <<link, cache, posted, state, work, host, resolved, portMap, ecmp>>
  PROVE  IInv'
<1> DEFINE u == OperUpdate(scan[1].port, scan[1].up)
<1>1. /\ IsSequence(scan) /\ Len(scan) \in Nat /\ \A i \in 1 .. Len(scan) : ScanOK(scan[i])
      /\ IsSequence(updates) /\ Len(updates) \in Nat
      /\ \A i \in 1 .. Len(updates) : UpdateOK(updates[i])
  BY Zenon DEF IInv, TypeInv, QueuesOK, IsSequence
<1>2. /\ IsSequence(scan') /\ Len(scan) = Len(scan') + 1
      /\ \A i \in 1 .. Len(scan') : scan'[i] = scan[i + 1]
  BY <1>1, TailSequence, Zenon
<1>3. 1 \in 1 .. Len(scan) /\ Len(scan') \in Nat
  BY <1>1, <1>2 DEF IsSequence
<1>4. ScanOK(scan[1])
  BY <1>1, <1>3, Zenon
<1>5. u.op = "oper" /\ u.port = scan[1].port /\ u.up = scan[1].up /\ UpdateOK(u)
  BY <1>4, Zenon DEF OperUpdate, UpdateOK, ScanOK
<1>6. Grown(updates, updates', <<u>>)
  <2> HIDE DEF u
  <2> QED BY <1>1, AppendGrows DEF u
<1> HIDE DEF u
<1>7. Len(<<u>>) = 1 /\ <<u>>[1] = u /\ Len(<<u>>) \in Nat /\ 1 \in 1 .. 1 /\ \A i \in 1 .. 1 : i = 1
  OBVIOUS
<1>8. /\ \A i \in 1 .. Len(updates) : i \in 1 .. Len(updates') /\ updates'[i] = updates[i]
      /\ Len(updates) + 1 \in 1 .. Len(updates') /\ updates'[Len(updates) + 1] = u
      /\ \A i \in 1 .. Len(updates') :
           \/ i \in 1 .. Len(updates) /\ updates'[i] = updates[i]
           \/ updates'[i] = u
  <2>1. ByOne(updates, updates', u)
    BY <1>1, <1>6, GrownByOne
  <2> QED BY <2>1, Zenon DEF ByOne
<1>9. TypeInv'
  <2>1. ASSUME NEW i \in 1 .. Len(scan') PROVE ScanOK(scan'[i])
    <3>1. i + 1 \in 1 .. Len(scan)
      BY <1>2, <1>3
    <3> QED BY <1>1, <1>2, <3>1, Zenon
  <2>2. QueuesOK'
    BY <1>2, <1>1, <1>5, <1>6, <1>8, <2>1 DEF IInv, TypeInv, QueuesOK, Grown
  <2>3. StatesOK'
    BY StatesKept, Zenon DEF IInv, TypeInv
  <2>4. HardwareOK'
    BY Zenon DEF IInv, TypeInv, HardwareOK, Idle
  <2> QED BY <2>2, <2>3, <2>4, Zenon DEF TypeInv
<1>10. CacheInv'
  <2>1. ASSUME NEW n \in Neighbors
        PROVE  HasEntryPath(n, updates', state'.entry[n], cache'[n])
    <3>1. cache[n] \in EntryValues(n) /\ HasEntryPath(n, updates, state.entry[n], cache[n])
      BY Zenon DEF IInv, TypeInv, StatesOK, CacheInv
    <3>2. cache[n] = EntryAfter(n, cache[n], u)
      BY <1>5, Zenon DEF EntryAfter
    <3>3. HasEntryPath(n, <<u>>, cache[n], cache[n])
      BY <3>1, <3>2, ShortPaths, Zenon
    <3> QED BY <1>1, <1>6, <1>7, <3>1, <3>3, EntryPathGrows, Zenon
  <2> QED BY <2>1, Zenon DEF CacheInv
<1>11. LinkInv'
  <2>1. ASSUME NEW p \in Ports
        PROVE  \E x \in BOOLEAN : /\ HasOperPath(p, updates', state'.oper[p], x)
                                  /\ HasScanPath(p, scan', x, link'[p])
    <3>1. PICK x \in BOOLEAN : /\ HasOperPath(p, updates, state.oper[p], x)
                               /\ HasScanPath(p, scan, x, link[p])
      BY Zenon DEF IInv, LinkInv
    <3>2. PICK f \in [0 .. Len(scan) -> BOOLEAN] : ScanPath(p, scan, x, link[p], f)
      BY <3>1, Zenon DEF HasScanPath
    <3>3. 1 \in 0 .. Len(scan) /\ f[1] \in BOOLEAN
      BY <1>2, <1>3
    <3>4. HasScanPath(p, scan', f[1], link[p])
      <4>1. Shrunk(scan, scan', 1)
        BY <1>1, <1>2, <1>3 DEF Shrunk
      <4> QED BY <1>1, <3>2, <3>3, <4>1, ScanPathShrinks, Zenon
    <3>5. IF scan[1].port = p THEN scan[1].up = f[1] /\ x = ~f[1] ELSE f[1] = x
      <4>1. 1 - 1 = 0
        OBVIOUS
      <4> QED BY <1>3, <3>2, <4>1, Zenon DEF ScanPath
    <3>6. HasOperPath(p, <<u>>, x, f[1])
      <4>1. CASE scan[1].port = p
        BY <1>5, <3>3, <3>5, <4>1, ShortPaths, Zenon DEF OperOf
      <4>2. CASE scan[1].port # p
        BY <1>5, <3>3, <3>5, <4>2, ShortPaths DEF OperOf
      <4> QED BY <4>1, <4>2
    <3>7. HasOperPath(p, updates', state.oper[p], f[1])
      BY <1>1, <1>6, <1>7, <3>1, <3>6, OperPathGrows, Zenon
    <3> QED BY <3>3, <3>4, <3>7, Zenon
  <2> QED BY <2>1, Zenon DEF LinkInv
<1>12. ReturnInv'
  <2>1. ASSUME NEW p \in Ports, LossPending(p) PROVE LossPending(p)'
    <3>1. CASE traverse.port = p
      <4>1. scan[1].port = p /\ ~scan[1].up
        BY <3>1, EcmpAssumption DEF IInv, LinkInv, Idle
      <4> QED BY <1>5, <1>8, <4>1, Zenon DEF LossPending, OperOf
    <3>2. CASE traverse.port # p
      BY <1>8, <2>1, <3>2, Zenon DEF LossPending
    <3> QED BY <3>1, <3>2, Zenon
  <2>2. \A n \in Neighbors : ResetPending(n) => ResetPending(n)'
    BY <1>8, Zenon DEF ResetPending
  <2> QED BY <2>1, <2>2, ReturnKept, Zenon DEF IInv
<1>13. InTraversal'
  BY Zenon DEF InTraversal, Idle
<1>14. HostInv' /\ WorkInv'
  BY HostKept, WorkKept, Zenon DEF IInv
<1> QED BY <1>9, <1>10, <1>11, <1>12, <1>13, <1>14, Zenon DEF IInv

LEMMA LinkUpStep ==
  ASSUME IInv, linkUpHwNotLocked
  PROVE  IInv'
<1>1. scan # <<>> /\ Head(scan) = scan[1]
  BY TailSequence, Zenon DEF linkUpHwNotLocked, IInv, TypeInv, QueuesOK
<1>2. scan[1].up = TRUE
  <2>1. ScanOK(scan[1])
    BY <1>1, EmptySeq DEF IInv, TypeInv, QueuesOK, IsSequence
  <2> QED BY <1>1, <2>1, Zenon DEF linkUpHwNotLocked, ScanOK
<1>3. /\ scan' = Tail(scan) /\ traverse' = Idle
      /\ updates' = Append(updates, OperUpdate(scan[1].port, scan[1].up))
      /\ UNCHANGED <<link, cache, posted, state, work, host, resolved, portMap, ecmp>>
  BY <1>1, <1>2, Zenon DEF linkUpHwNotLocked, neighborVars, hwVars
<1> QED BY <1>1, <1>3, ReportQueued, Zenon

LEMMA LinkStateStep ==
  ASSUME IInv, linkStateChanged
  PROVE  IInv'
<1>1. scan # <<>> /\ scan[1].port = traverse.port /\ ~scan[1].up
  BY Zenon DEF linkStateChanged, IInv, LinkInv
<1>2. scan[1].up = FALSE
  <2>1. ScanOK(scan[1])
    BY <1>1, EmptySeq DEF IInv, TypeInv, QueuesOK, IsSequence
  <2> QED BY <1>1, <2>1, Zenon DEF ScanOK
<1>3. /\ scan' = Tail(scan) /\ traverse' = Idle
      /\ updates' = Append(updates, OperUpdate(scan[1].port, scan[1].up))
      /\ UNCHANGED <<link, cache, posted, state, work, host, resolved, portMap, ecmp>>
  BY <1>1, <1>2, Zenon DEF linkStateChanged, neighborVars, hwVars
<1> QED BY <1>1, <1>3, ReportQueued

LEMMA LinkDownStep ==
  ASSUME IInv, linkDownHwNotLocked
  PROVE  IInv'
<1>1. /\ scan # <<>> /\ Head(scan) = scan[1] /\ ~scan[1].up /\ scan[1].port \in Ports
      /\ traverse = Idle
  <2>1. scan # <<>> /\ Head(scan) = scan[1]
    BY TailSequence, Zenon DEF linkDownHwNotLocked, IInv, TypeInv, QueuesOK
  <2>2. ScanOK(scan[1])
    BY <2>1, EmptySeq DEF IInv, TypeInv, QueuesOK, IsSequence
  <2> QED BY <2>1, <2>2, Zenon DEF linkDownHwNotLocked, ScanOK
<1>2. /\ traverse'.port = scan[1].port /\ traverse'.egressIds = portMap[scan[1].port]
      /\ DOMAIN traverse' = {"port", "egressIds", "todo", "done"}
      /\ UNCHANGED <<link, scan, cache, posted, updates, state, work, host, resolved, portMap, ecmp>>
  BY <1>1, Zenon DEF linkDownHwNotLocked, linkVars, neighborVars, hwVars
<1>3. TypeInv'
  BY <1>2 DEF IInv, TypeInv, QueuesOK, StatesOK, HardwareOK
<1>4. LinkInv'
  BY <1>1, <1>2, Zenon DEF IInv, LinkInv
<1>5. InTraversal'
  <2>1. ASSUME NEW n \in portMap[scan[1].port]
        PROVE  n \in Neighbors /\ scan[1].port \in NeighborPorts[n]
    <3>1. n \in Neighbors
      BY <1>1, Zenon DEF IInv, TypeInv, HardwareOK
    <3>2. EgressPort(n) = scan[1].port
      BY <1>1, <3>1, Zenon DEF IInv, HostInv
    <3> QED BY <1>1, <3>1, <3>2, EcmpAssumption, Zenon DEF EgressPort, IInv, TypeInv, HardwareOK
  <2> QED BY <1>2, <2>1, Zenon DEF InTraversal
<1>6. ReturnInv'
  <2>1. \A p \in Ports : LossPending(p) => LossPending(p)'
    BY <1>1, <1>2, EcmpAssumption, Zenon DEF LossPending, Idle
  <2>2. \A n \in Neighbors : ResetPending(n) => ResetPending(n)'
    BY <1>2, Zenon DEF ResetPending
  <2> QED BY <1>2, <2>1, <2>2, ReturnKept, Zenon DEF IInv
<1>7. CacheInv' /\ HostInv' /\ WorkInv'
  BY <1>2, CacheKept, HostKept, WorkKept, Zenon DEF IInv
<1> QED BY <1>3, <1>4, <1>5, <1>6, <1>7, Zenon DEF IInv

(* A member that the bottom half takes out has its port's loss on the way. *)
LEMMA RemoveAllStep ==
  ASSUME IInv, NEW h \in Groups, removeAllEgressesFromEcmpCallback(h)
  PROVE  IInv'
<1>1. /\ traverse.egressIds # {} /\ h \in DOMAIN ecmp
      /\ ecmp' = [ecmp EXCEPT ![h] = @ \ traverse.egressIds]
      /\ traverse' = [traverse EXCEPT !.done = @ \cup {h}]
      /\ UNCHANGED <<link, scan, cache, posted, updates, state, work, host, resolved, portMap>>
  BY DEF removeAllEgressesFromEcmpCallback, linkVars, neighborVars, hwVars
<1>2. /\ traverse'.port = traverse.port /\ traverse'.egressIds = traverse.egressIds
      /\ DOMAIN traverse' = {"port", "egressIds", "todo", "done"}
  BY <1>1 DEF IInv, TypeInv, HardwareOK
<1>3. /\ ecmp' = [g \in DOMAIN ecmp' |-> ecmp'[g]] /\ DOMAIN ecmp' = DOMAIN ecmp
      /\ \A g \in DOMAIN ecmp : ecmp[g] \subseteq ecmp'[g] \cup traverse.egressIds
  BY <1>1, Zenon
<1>4. TypeInv'
  <2>1. QueuesOK' /\ StatesOK'
    BY <1>1 DEF IInv, TypeInv, QueuesOK, StatesOK
  <2>2. HardwareOK'
    BY <1>1, <1>2, <1>3 DEF IInv, TypeInv, HardwareOK
  <2> QED BY <2>1, <2>2 DEF TypeInv
<1>5. LinkInv'
  <2>1. traverse # Idle
    BY <1>1 DEF Idle
  <2> QED BY <1>1, <1>2, <2>1 DEF IInv, LinkInv
<1>6. InTraversal'
  BY <1>2, Zenon DEF IInv, InTraversal
<1>7. ASSUME NEW n \in Neighbors, NEW p \in Ports, NeighborPorts[n] = {p},
             NEW g \in DOMAIN ecmp, n \in g, n \in resolved, n \notin ecmp'[g]
      PROVE  ToExpand(n, g)' \/ LossPending(p)' \/ ResetPending(n)'
  <2>1. CASE n \in ecmp[g]
    <3>1. n \in traverse.egressIds
      BY <1>3, <1>7, <2>1, Zenon
    <3>2. traverse.port = p
      BY <1>7, <3>1 DEF IInv, InTraversal
    <3> QED BY <1>2, <3>2 DEF LossPending
  <2>2. CASE n \notin ecmp[g]
    <3>1. ToExpand(n, g) \/ LossPending(p) \/ ResetPending(n)
      BY <1>7, <2>2 DEF IInv, ReturnInv
    <3> QED BY <1>1, <1>2, <3>1, Zenon DEF ToExpand, LossPending, ResetPending
  <2> QED BY <2>1, <2>2, Zenon
<1>8. ReturnInv'
  BY <1>1, <1>3, <1>7 DEF ReturnInv
<1>9. CacheInv' /\ HostInv' /\ WorkInv'
  BY <1>1, CacheKept, HostKept, WorkKept DEF IInv
<1> QED BY <1>4, <1>5, <1>6, <1>8, <1>9 DEF IInv

-----------------------------------------------------------------------------
(* The update thread in BcmSwitch.                                         *)

\* Sequence s is r without its first element.
ByHead(r, s) ==
  /\ IsSequence(s) /\ Head(r) = r[1] /\ 1 \in 1 .. Len(r)
  /\ \A i \in 1 .. Len(s) : i + 1 \in 1 .. Len(r) /\ s[i] = r[i + 1]
  /\ \A i \in 1 .. Len(r) : i # 1 => i - 1 \in 1 .. Len(s) /\ s[i - 1] = r[i]
  /\ \A i, j \in 1 .. Len(s) : i + 1 = j + 1 => i = j
  /\ \A i \in 1 .. Len(s) : i + 1 # 1

LEMMA TailByHead ==
  ASSUME NEW r, IsSequence(r), r # <<>>
  PROVE  ByHead(r, Tail(r))
<1> DEFINE s == Tail(r)
<1>1. /\ IsSequence(s) /\ Len(r) = Len(s) + 1 /\ Head(r) = r[1]
      /\ \A i \in 1 .. Len(s) : s[i] = r[i + 1]
  BY TailSequence
<1> HIDE DEF s
<1>2. Len(s) \in Nat /\ Len(r) \in Nat
  BY <1>1, Zenon DEF IsSequence
<1>3. /\ 1 \in 1 .. Len(r)
      /\ \A i \in 1 .. Len(s) : i + 1 \in 1 .. Len(r) /\ i + 1 # 1
      /\ \A i, j \in 1 .. Len(s) : i + 1 = j + 1 => i = j
  BY <1>1, <1>2
<1>4. ASSUME NEW i \in 1 .. Len(r), i # 1
      PROVE  i - 1 \in 1 .. Len(s) /\ s[i - 1] = r[i]
  <2>1. i - 1 \in 1 .. Len(s) /\ i - 1 + 1 = i
    BY <1>1, <1>2, <1>4
  <2> QED BY <1>1, <2>1
<1>5. ByHead(r, s)
  BY <1>1, <1>3, <1>4, Zenon DEF ByHead
<1> QED BY <1>5 DEF s

\* The task at the head is for neighbour n in group g.
Expands(n, g) == work[1].op = "expand" /\ work[1].n = n /\ work[1].g = g

\* The task at the head tells of the loss of port p.
Tells(p) == work[1].op = "observers" /\ \E j \in 1 .. Len(work[1].down) : work[1].down[j] = p

(* The update thread is done with a task, which is not to program a        *)
(* neighbour.                                                              *)
LEMMA TaskDone ==
  ASSUME IInv, work # <<>>, work' = Tail(work), work[1].op # "neighbor",
         UNCHANGED <<link, scan, traverse, cache, updates, state, resolved, portMap>>,
         \A n \in Neighbors : EgressPort(n)' = EgressPort(n)
  PROVE  /\ CacheInv' /\ LinkInv' /\ InTraversal' /\ HostInv' /\ WorkInv'
         /\ IsSequence(work)' /\ \A i \in 1 .. Len(work') : TaskOK(work'[i])
         /\ \A n, g : ToExpand(n, g) => ToExpand(n, g)' \/ Expands(n, g)
         /\ \A n : ResetPending(n)' <=> ResetPending(n)
         /\ \A p : LossPending(p) => \/ LossPending(p)' \/ Tells(p)
                                     \/ \E i \in 1 .. Len(posted) : posted[i] = p
<1> DEFINE w == work'
<1>1. ByHead(work, w)
  BY TailByHead, Zenon DEF IInv, TypeInv, QueuesOK
<1>2. \A i \in 1 .. Len(work) : TaskOK(work[i])
  BY Zenon DEF IInv, TypeInv, QueuesOK
<1> HIDE DEF w
<1>3. IsSequence(w) /\ \A i \in 1 .. Len(w) : TaskOK(w[i])
  BY <1>1, <1>2, Zenon DEF ByHead
<1>4. HostInv'
  <2>1. ASSUME NEW n \in Neighbors, HasTask(n) PROVE HasTask(n)'
    <3>1. PICK i \in 1 .. Len(work) : work[i].op = "neighbor" /\ work[i].n = n
      BY <2>1, Zenon DEF HasTask
    <3>2. i # 1
      BY <3>1, Zenon
    <3>3. \E j \in 1 .. Len(w) : w[j].op = "neighbor" /\ w[j].n = n
      BY <1>1, <3>1, <3>2 DEF ByHead
    <3> QED BY <3>3 DEF HasTask, w
  <2> QED BY <2>1, Zenon DEF IInv, HostInv, Usable
<1>5. WorkInv'
  <2>1. ASSUME NEW i \in 1 .. Len(w), NEW j \in 1 .. Len(w), w[i].op = "neighbor",
               w[j].op \in {"neighbor", "expand", "shrink"}, w[i].n = w[j].n
        PROVE  i = j
    <3>1. /\ i + 1 \in 1 .. Len(work) /\ w[i] = work[i + 1]
          /\ j + 1 \in 1 .. Len(work) /\ w[j] = work[j + 1]
          /\ (i + 1 = j + 1 => i = j)
      BY <1>1, Zenon DEF ByHead
    <3> QED BY <2>1, <3>1, Zenon DEF IInv, WorkInv
  <2>2. \A i \in 1 .. Len(w) : w[i].op = "shrink" => w[i].n \notin resolved
    BY <1>1 DEF ByHead, IInv, WorkInv
  <2> QED BY <2>1, <2>2, Zenon DEF WorkInv, w
<1>6. ASSUME NEW n, NEW g, ToExpand(n, g) PROVE ToExpand(n, g)' \/ Expands(n, g)
  <2>1. PICK i \in 1 .. Len(work) : \/ work[i].op = "neighbor" /\ work[i].n = n
                                    \/ work[i].op = "expand" /\ work[i].n = n /\ work[i].g = g
    BY <1>6, Zenon DEF ToExpand
  <2>2. CASE i = 1
    BY <2>1, <2>2, Zenon DEF Expands
  <2>3. CASE i # 1
    <3>1. i - 1 \in 1 .. Len(w) /\ w[i - 1] = work[i]
      BY <1>1, <2>3, Zenon DEF ByHead
    <3>2. \E j \in 1 .. Len(w) : \/ w[j].op = "neighbor" /\ w[j].n = n
                                 \/ w[j].op = "expand" /\ w[j].n = n /\ w[j].g = g
      BY <2>1, <3>1, Zenon
    <3> QED BY <3>2, Zenon DEF ToExpand, w
  <2> QED BY <2>2, <2>3, Zenon
<1>7. \A n : ResetPending(n)' <=> ResetPending(n)
  BY Zenon DEF ResetPending
<1>8. ASSUME NEW p, LossPending(p), ~Tells(p), ~\E i \in 1 .. Len(posted) : posted[i] = p
      PROVE  LossPending(p)'
  <2>1. CASE \E i \in 1 .. Len(work) :
               work[i].op = "observers" /\ \E j \in 1 .. Len(work[i].down) : work[i].down[j] = p
    <3>1. PICK i \in 1 .. Len(work) :
            work[i].op = "observers" /\ \E j \in 1 .. Len(work[i].down) : work[i].down[j] = p
      BY <2>1, Zenon
    <3>2. i # 1
      BY <1>8, <3>1, Zenon DEF Tells
    <3>3. i - 1 \in 1 .. Len(w) /\ w[i - 1] = work[i]
      BY <1>1, <3>2, Zenon DEF ByHead
    <3>4. \E k \in 1 .. Len(w) :
            w[k].op = "observers" /\ \E j \in 1 .. Len(w[k].down) : w[k].down[j] = p
      BY <3>1, <3>3, Zenon
    <3> QED BY <3>4, Zenon DEF LossPending, w
  <2> QED BY <1>8, <2>1, Zenon DEF LossPending
<1>9. CacheInv' /\ LinkInv' /\ InTraversal'
  BY CacheKept, LinkKept, TraversalKept, Zenon DEF IInv
<1> QED BY <1>3, <1>4, <1>5, <1>6, <1>7, <1>8, <1>9, Zenon DEF w

(* What is left to show once a task is done.                               *)
LEMMA TaskDoneInv ==
  ASSUME IInv, work # <<>>, work' = Tail(work), work[1].op # "neighbor",
         UNCHANGED <<link, scan, traverse, cache, updates, state, resolved, portMap>>,
         \A n \in Neighbors : EgressPort(n)' = EgressPort(n),
         IsSequence(posted)', \A i \in 1 .. Len(posted') : posted'[i] \in Ports,
         HardwareOK', ReturnInv'
  PROVE  IInv'
<1>1. /\ CacheInv' /\ LinkInv' /\ InTraversal' /\ HostInv' /\ WorkInv'
      /\ IsSequence(work)' /\ \A i \in 1 .. Len(work') : TaskOK(work'[i])
  BY TaskDone
<1>2. QueuesOK'
  BY <1>1, Zenon DEF IInv, TypeInv, QueuesOK
<1>3. StatesOK'
  BY StatesKept, Zenon DEF IInv, TypeInv
<1> QED BY <1>1, <1>2, <1>3, Zenon DEF IInv, TypeInv

(* The task at the head.                                                   *)
LEMMA HeadTask ==
  ASSUME IInv, work # <<>>
  PROVE  Head(work) = work[1] /\ TaskOK(work[1])
<1>1. ByHead(work, Tail(work))
  BY TailByHead DEF IInv, TypeInv, QueuesOK
<1> QED BY <1>1, Zenon DEF ByHead, IInv, TypeInv, QueuesOK

(* A missing member has something left to bring it back, when the groups   *)
(* and what is resolved stay as they are.                                  *)
LEMMA AddStep ==
  ASSUME IInv, addEgressIdHwLocked
  PROVE  IInv'
<1>1. /\ work # <<>> /\ work[1].op = "expand" /\ work' = Tail(work)
      /\ ecmp' = IF work[1].n \in work[1].g
                 THEN [ecmp EXCEPT ![work[1].g] = @ \cup {work[1].n}] ELSE ecmp
      /\ UNCHANGED <<link, scan, traverse, cache, posted, updates, state, host, resolved, portMap>>
  <2>1. work # <<>>
    BY DEF addEgressIdHwLocked
  <2>2. Head(work) = work[1]
    BY <2>1, HeadTask, Zenon
  <2> QED BY <2>2, Zenon DEF addEgressIdHwLocked, linkVars, neighborVars, hwVars
<1>2. \A n \in Neighbors : EgressPort(n)' = EgressPort(n)
  BY <1>1 DEF EgressPort
<1>3. /\ \A n, g : ToExpand(n, g) => ToExpand(n, g)' \/ Expands(n, g)
      /\ \A n : ResetPending(n)' <=> ResetPending(n)
      /\ \A p : LossPending(p) => \/ LossPending(p)' \/ Tells(p)
                                  \/ \E i \in 1 .. Len(posted) : posted[i] = p
  BY <1>1, <1>2, TaskDone, Zenon
<1>4. HardwareOK'
  BY <1>1, Zenon DEF IInv, TypeInv, HardwareOK
<1>5. ReturnInv'
  <2>1. ASSUME NEW n \in Neighbors, NEW p \in Ports, NeighborPorts[n] = {p},
               NEW g \in DOMAIN ecmp, n \in g, n \in resolved, n \notin ecmp'[g]
        PROVE  ToExpand(n, g)' \/ LossPending(p)' \/ ResetPending(n)'
    <3>1. n \notin ecmp[g] /\ ~Expands(n, g)
      BY <1>1, <2>1 DEF Expands, IInv, TypeInv, HardwareOK
    <3>2. ToExpand(n, g) \/ LossPending(p) \/ ResetPending(n)
      BY <2>1, <3>1, Zenon DEF IInv, ReturnInv
    <3>3. ~Tells(p)
      BY <1>1, Zenon DEF Tells
    <3> QED BY <1>1, <1>3, <3>1, <3>2, <3>3, Zenon DEF LossPending
  <2>2. DOMAIN ecmp' = DOMAIN ecmp
    BY <1>1
  <2> QED BY <1>1, <2>1, <2>2 DEF ReturnInv
<1> QED BY <1>1, <1>2, <1>4, <1>5, TaskDoneInv, Zenon DEF IInv, TypeInv, QueuesOK

LEMMA RemoveStep ==
  ASSUME IInv, removeEgressIdHwLocked
  PROVE  IInv'
<1>1. /\ work # <<>> /\ work[1].op = "shrink" /\ work' = Tail(work)
      /\ ecmp' = [ecmp EXCEPT ![work[1].g] = @ \ {work[1].n}]
      /\ UNCHANGED <<link, scan, traverse, cache, posted, updates, state, host, resolved, portMap>>
  <2>1. work # <<>>
    BY Zenon DEF removeEgressIdHwLocked
  <2>2. Head(work) = work[1]
    BY <2>1, HeadTask, Zenon
  <2> QED BY <2>2, Zenon DEF removeEgressIdHwLocked, linkVars, neighborVars, hwVars
<1>2. \A n \in Neighbors : EgressPort(n)' = EgressPort(n)
  BY <1>1 DEF EgressPort
<1>3. /\ \A n, g : ToExpand(n, g) => ToExpand(n, g)' \/ Expands(n, g)
      /\ \A n : ResetPending(n)' <=> ResetPending(n)
      /\ \A p : LossPending(p) => \/ LossPending(p)' \/ Tells(p)
                                  \/ \E i \in 1 .. Len(posted) : posted[i] = p
  BY <1>1, <1>2, TaskDone, Zenon
<1>4. HardwareOK'
  BY <1>1, Zenon DEF IInv, TypeInv, HardwareOK
<1>5. work[1].n \notin resolved
  <2>1. ByHead(work, Tail(work))
    BY <1>1, TailByHead, Zenon DEF IInv, TypeInv, QueuesOK
  <2> QED BY <1>1, <2>1, Zenon DEF ByHead, IInv, WorkInv
<1>6. ReturnInv'
  <2>1. ASSUME NEW n \in Neighbors, NEW p \in Ports, NeighborPorts[n] = {p},
               NEW g \in DOMAIN ecmp, n \in g, n \in resolved, n \notin ecmp'[g]
        PROVE  ToExpand(n, g)' \/ LossPending(p)' \/ ResetPending(n)'
    <3>1. n \notin ecmp[g]
      BY <1>1, <1>5, <2>1, Zenon DEF IInv, TypeInv, HardwareOK
    <3>2. ToExpand(n, g) \/ LossPending(p) \/ ResetPending(n)
      BY <2>1, <3>1, Zenon DEF IInv, ReturnInv
    <3>3. ~Tells(p) /\ ~Expands(n, g)
      BY <1>1, Zenon DEF Tells, Expands
    <3> QED BY <1>1, <1>3, <3>2, <3>3, Zenon DEF LossPending
  <2>2. DOMAIN ecmp' = DOMAIN ecmp
    BY <1>1
  <2> QED BY <1>1, <2>1, <2>2 DEF ReturnInv
<1> QED BY <1>1, <1>2, <1>4, <1>6, TaskDoneInv, Zenon DEF IInv, TypeInv, QueuesOK

LEMMA CreateStep ==
  ASSUME IInv, BcmMultiPathNextHop
  PROVE  IInv'
<1> DEFINE c == work[1].g
<1>1. /\ work # <<>> /\ work[1].op = "create" /\ work' = Tail(work) /\ c \in Groups
      /\ host' = [h \in DOMAIN host \cup c |-> EgressPort(h)]
      /\ ecmp' = [h \in DOMAIN ecmp \cup {c} |-> IF h = c THEN c \cap resolved ELSE ecmp[h]]
      /\ UNCHANGED <<link, scan, traverse, cache, posted, updates, state, resolved, portMap>>
  <2>1. work # <<>>
    BY Zenon DEF BcmMultiPathNextHop
  <2>2. Head(work) = work[1] /\ TaskOK(work[1])
    BY <2>1, HeadTask, Zenon
  <2> QED BY <2>2, Zenon DEF BcmMultiPathNextHop, linkVars, neighborVars, program, TaskOK
<1> HIDE DEF c
<1>2. \A n \in Neighbors : EgressPort(n)' = EgressPort(n)
  BY <1>1, Zenon DEF EgressPort
<1>3. /\ \A n, g : ToExpand(n, g) => ToExpand(n, g)' \/ Expands(n, g)
      /\ \A n : ResetPending(n)' <=> ResetPending(n)
      /\ \A p : LossPending(p) => \/ LossPending(p)' \/ Tells(p)
                                  \/ \E i \in 1 .. Len(posted) : posted[i] = p
  BY <1>1, <1>2, TaskDone
<1>4. HardwareOK'
  <2>1. /\ host' = [n \in DOMAIN host' |-> host'[n]] /\ DOMAIN host' \subseteq Neighbors
        /\ ecmp' = [g \in DOMAIN ecmp' |-> ecmp'[g]] /\ DOMAIN ecmp' \subseteq Groups
    BY <1>1, EcmpAssumption DEF IInv, TypeInv, HardwareOK
  <2>2. \A n \in DOMAIN host' : host'[n] = "none" \/ host'[n] \in NeighborPorts[n]
    BY <1>1 DEF IInv, TypeInv, HardwareOK, EgressPort
  <2> QED BY <1>1, <2>1, <2>2, Zenon DEF IInv, TypeInv, HardwareOK
<1>5. ReturnInv'
  <2>1. ASSUME NEW n \in Neighbors, NEW p \in Ports, NeighborPorts[n] = {p},
               NEW g \in DOMAIN ecmp', n \in g, n \in resolved, n \notin ecmp'[g]
        PROVE  ToExpand(n, g)' \/ LossPending(p)' \/ ResetPending(n)'
    <3>1. g \in DOMAIN ecmp /\ n \notin ecmp[g]
      BY <1>1, <2>1, Zenon
    <3>2. ToExpand(n, g) \/ LossPending(p) \/ ResetPending(n)
      BY <2>1, <3>1, Zenon DEF IInv, ReturnInv
    <3>3. ~Tells(p) /\ ~Expands(n, g)
      BY <1>1 DEF Tells, Expands
    <3> QED BY <1>1, <1>3, <3>2, <3>3, Zenon DEF LossPending
  <2> QED BY <1>1, <2>1, Zenon DEF ReturnInv
<1> QED BY <1>1, <1>2, <1>4, <1>5, TaskDoneInv, Zenon DEF IInv, TypeInv, QueuesOK

LEMMA DestroyStep ==
  ASSUME IInv, destroyMultiPathNextHop
  PROVE  IInv'
<1> DEFINE left == DOMAIN ecmp \ {work[1].g}
<1>1. /\ work # <<>> /\ work[1].op = "destroy" /\ work' = Tail(work)
      /\ host' = [h \in {n \in DOMAIN host : host[n] # "none" \/ Referenced(n, left)} |-> host[h]]
      /\ ecmp' = [h \in left |-> ecmp[h]]
      /\ UNCHANGED <<link, scan, traverse, cache, posted, updates, state, resolved, portMap>>
  <2>1. work # <<>>
    BY Zenon DEF destroyMultiPathNextHop
  <2>2. Head(work) = work[1]
    BY <2>1, HeadTask
  <2> QED BY <2>2, Zenon DEF destroyMultiPathNextHop, linkVars, neighborVars
<1>2. left \subseteq DOMAIN ecmp
  BY Zenon
<1> HIDE DEF left
<1>3. \A n \in Neighbors : EgressPort(n)' = EgressPort(n)
  BY <1>1 DEF EgressPort
<1>4. /\ \A n, g : ToExpand(n, g) => ToExpand(n, g)' \/ Expands(n, g)
      /\ \A n : ResetPending(n)' <=> ResetPending(n)
      /\ \A p : LossPending(p) => \/ LossPending(p)' \/ Tells(p)
                                  \/ \E i \in 1 .. Len(posted) : posted[i] = p
  BY <1>1, <1>3, TaskDone, Zenon
<1>5. HardwareOK'
  BY <1>1, <1>2 DEF IInv, TypeInv, HardwareOK
<1>6. ReturnInv'
  <2>1. ASSUME NEW n \in Neighbors, NEW p \in Ports, NeighborPorts[n] = {p},
               NEW g \in DOMAIN ecmp', n \in g, n \in resolved, n \notin ecmp'[g]
        PROVE  ToExpand(n, g)' \/ LossPending(p)' \/ ResetPending(n)'
    <3>1. g \in DOMAIN ecmp /\ n \notin ecmp[g]
      BY <1>1, <1>2, <2>1, Zenon
    <3>2. ToExpand(n, g) \/ LossPending(p) \/ ResetPending(n)
      BY <2>1, <3>1 DEF IInv, ReturnInv
    <3>3. ~Tells(p) /\ ~Expands(n, g)
      BY <1>1, Zenon DEF Tells, Expands
    <3> QED BY <1>1, <1>4, <3>2, <3>3, Zenon DEF LossPending
  <2> QED BY <1>1, <2>1, Zenon DEF ReturnInv
<1> QED BY <1>1, <1>3, <1>5, <1>6, TaskDoneInv, Zenon DEF IInv, TypeInv, QueuesOK

LEMMA NotifyStep ==
  ASSUME IInv, notifyStateObservers
  PROVE  IInv'
<1> DEFINE d == work[1].down
<1>1. /\ work # <<>> /\ work[1].op = "observers" /\ work' = Tail(work)
      /\ posted' = posted \o d
      /\ IsSequence(d) /\ \A i \in 1 .. Len(d) : d[i] \in Ports
      /\ UNCHANGED <<link, scan, traverse, cache, updates, state, host, resolved, portMap, ecmp>>
  <2>1. work # <<>>
    BY Zenon DEF notifyStateObservers
  <2>2. Head(work) = work[1] /\ TaskOK(work[1])
    BY <2>1, HeadTask, Zenon
  <2> QED BY <2>2, Zenon DEF notifyStateObservers, linkVars, hwVars, TaskOK
<1>2. \A n \in Neighbors : EgressPort(n)' = EgressPort(n)
  BY <1>1 DEF EgressPort
<1>3. /\ \A n, g : ToExpand(n, g) => ToExpand(n, g)' \/ Expands(n, g)
      /\ \A n : ResetPending(n)' <=> ResetPending(n)
      /\ \A p : LossPending(p) => \/ LossPending(p)' \/ Tells(p)
                                  \/ \E i \in 1 .. Len(posted) : posted[i] = p
  BY <1>1, <1>2, TaskDone, Zenon
<1>4. HardwareOK'
  BY <1>1, HardwareKept, Zenon DEF IInv, TypeInv
<1>5. Grown(posted, posted', d)
  BY <1>1, ConcatGrows, Zenon DEF IInv, TypeInv, QueuesOK
<1>6. Len(posted) \in Nat /\ Len(d) \in Nat /\ IsSequence(posted)'
  BY <1>1, <1>5, Zenon DEF IInv, TypeInv, QueuesOK, IsSequence, Grown
<1> DEFINE r == posted
           s == posted'
<1>7. /\ \A i \in 1 .. Len(r) : i \in 1 .. Len(s) /\ s[i] = r[i]
      /\ \A i \in 1 .. Len(d) : Len(r) + i \in 1 .. Len(s) /\ s[Len(r) + i] = d[i]
      /\ \A i \in 1 .. Len(s) : \/ i \in 1 .. Len(r) /\ s[i] = r[i]
                                \/ \E j \in 1 .. Len(d) : i = Len(r) + j /\ s[i] = d[j]
  <2> HIDE DEF r, s, d
  <2> QED BY <1>5, <1>6, GrownElements DEF r, s
<1>8. \A i \in 1 .. Len(s) : s[i] \in Ports
  <2>1. \A i \in 1 .. Len(r) : r[i] \in Ports
    BY Zenon DEF IInv, TypeInv, QueuesOK
  <2> HIDE DEF r, s, d
  <2> QED BY <1>1, <1>7, <2>1, Zenon
<1>9. \A p : Tells(p) \/ (\E i \in 1 .. Len(r) : r[i] = p) => \E i \in 1 .. Len(s) : s[i] = p
  <2>1. \A p : Tells(p) => \E j \in 1 .. Len(d) : d[j] = p
    BY Zenon DEF Tells
  <2> HIDE DEF r, s, d
  <2>2. ASSUME NEW p, Tells(p)
        PROVE  \E i \in 1 .. Len(s) : s[i] = p
    <3>1. PICK j \in 1 .. Len(d) : d[j] = p
      BY <2>1, <2>2, Zenon
    <3>2. Len(r) + j \in 1 .. Len(s) /\ s[Len(r) + j] = d[j]
      BY <1>7, Zenon
    <3> QED BY <3>1, <3>2, Zenon
  <2>3. ASSUME NEW p, NEW i \in 1 .. Len(r), r[i] = p
        PROVE  \E k \in 1 .. Len(s) : s[k] = p
    BY <1>7, <2>3, Zenon
  <2> QED BY <2>2, <2>3, Zenon
<1>10. \A p : LossPending(p) => LossPending(p)'
  BY <1>3, <1>9, Zenon DEF LossPending
<1>11. \A n, g : ToExpand(n, g) => ToExpand(n, g)'
  BY <1>1, <1>3 DEF Expands
<1>12. ReturnInv'
  BY <1>1, <1>3, <1>10, <1>11, Zenon DEF IInv, ReturnInv
<1> QED BY <1>1, <1>2, <1>4, <1>6, <1>8, <1>12, TaskDoneInv

-----------------------------------------------------------------------------
(* Tasks are put before others.                                            *)

\* Sequence w is q with s after it.
Joined(w, q, s) ==
  /\ IsSequence(w)
  /\ \A i \in 1 .. Len(q) : i \in 1 .. Len(w) /\ w[i] = q[i]
  /\ \A i \in 1 .. Len(s) : Len(q) + i \in 1 .. Len(w) /\ w[Len(q) + i] = s[i]
  /\ \A i \in 1 .. Len(w) : \/ i \in 1 .. Len(q) /\ w[i] = q[i]
                            \/ \E j \in 1 .. Len(s) : i = Len(q) + j /\ w[i] = s[j]

LEMMA ConcatJoins ==
  ASSUME NEW q, IsSequence(q), NEW s, IsSequence(s)
  PROVE  Joined(q \o s, q, s)
<1>1. Grown(q, q \o s, s)
  BY ConcatGrows, Zenon
<1>2. Len(q) \in Nat /\ Len(s) \in Nat
  BY Zenon DEF IsSequence
<1> DEFINE w == q \o s
<1> HIDE DEF w
<1>3. Grown(q, w, s)
  BY <1>1, Zenon DEF w
<1>4. IsSequence(w)
  BY <1>3, Zenon DEF Grown
<1>5. /\ \A i \in 1 .. Len(q) : i \in 1 .. Len(w) /\ w[i] = q[i]
      /\ \A i \in 1 .. Len(s) : Len(q) + i \in 1 .. Len(w) /\ w[Len(q) + i] = s[i]
      /\ \A i \in 1 .. Len(w) : \/ i \in 1 .. Len(q) /\ w[i] = q[i]
                                \/ \E j \in 1 .. Len(s) : i = Len(q) + j /\ w[i] = s[j]
  BY <1>2, <1>3, GrownElements, SMT, Z3
<1>6. Joined(w, q, s)
  BY <1>4, <1>5, Zenon DEF Joined
<1> QED BY <1>6 DEF w

\* A neighbour's task, and the tasks that follow from it.
OfNeighbor(t) == t.op \in {"neighbor", "expand", "shrink"}

\* The first conjunct of WorkInv, for any tasks.
OneTask(w) ==
  \A i, j \in 1 .. Len(w) :
    w[i].op = "neighbor" /\ OfNeighbor(w[j]) /\ w[i].n = w[j].n => i = j

\* No neighbour has a task in one and another, or what follows from it, in the other.
Apart(q, s) ==
  \A i \in 1 .. Len(q), j \in 1 .. Len(s) :
    /\ ~(q[i].op = "neighbor" /\ OfNeighbor(s[j]) /\ q[i].n = s[j].n)
    /\ ~(s[j].op = "neighbor" /\ OfNeighbor(q[i]) /\ s[j].n = q[i].n)

LEMMA OneTaskJoined ==
  ASSUME NEW w, NEW q, NEW s, Joined(w, q, s), OneTask(q), OneTask(s), Apart(q, s)
  PROVE  OneTask(w)
<1>1. ASSUME NEW i \in 1 .. Len(w), NEW j \in 1 .. Len(w),
             w[i].op = "neighbor", OfNeighbor(w[j]), w[i].n = w[j].n
      PROVE  i = j
  <2>1. CASE i \in 1 .. Len(q) /\ w[i] = q[i] /\ j \in 1 .. Len(q) /\ w[j] = q[j]
    BY <1>1, <2>1, Zenon DEF OneTask
  <2>2. ASSUME i \in 1 .. Len(q), w[i] = q[i],
               NEW b \in 1 .. Len(s), j = Len(q) + b, w[j] = s[b]
        PROVE  FALSE
    BY <1>1, <2>2, Zenon DEF Apart
  <2>3. ASSUME j \in 1 .. Len(q), w[j] = q[j],
               NEW a \in 1 .. Len(s), i = Len(q) + a, w[i] = s[a]
        PROVE  FALSE
    BY <1>1, <2>3, Zenon DEF Apart
  <2>4. ASSUME NEW a \in 1 .. Len(s), i = Len(q) + a, w[i] = s[a],
               NEW b \in 1 .. Len(s), j = Len(q) + b, w[j] = s[b]
        PROVE  i = j
    <3>1. a = b
      BY <1>1, <2>4, Zenon DEF OneTask
    <3> QED BY <2>4, <3>1, Zenon
  <2>5. /\ \/ i \in 1 .. Len(q) /\ w[i] = q[i]
           \/ \E a \in 1 .. Len(s) : i = Len(q) + a /\ w[i] = s[a]
        /\ \/ j \in 1 .. Len(q) /\ w[j] = q[j]
           \/ \E b \in 1 .. Len(s) : j = Len(q) + b /\ w[j] = s[b]
    BY Zenon DEF Joined
  <2> QED BY <2>1, <2>2, <2>3, <2>4, <2>5, Zenon
<1> QED BY <1>1, Zenon DEF OneTask

(* The tasks for each of some groups.                                      *)
LEMMA PerGroupTasks ==
  ASSUME NEW op, NEW n, NEW G, IsFiniteSet(G)
  PROVE  /\ IsSequence(PerGroup(op, n, G))
         /\ \A i \in 1 .. Len(PerGroup(op, n, G)) :
              \E g \in G : PerGroup(op, n, G)[i] = Task(op, n, g)
         /\ \A g \in G : \E i \in 1 .. Len(PerGroup(op, n, G)) :
              PerGroup(op, n, G)[i] = Task(op, n, g)
<1> DEFINE N == Cardinality(G)
           o == InOrder(G)
           q == PerGroup(op, n, G)
           S == {Task(op, n, g) : g \in G}
<1>1. /\ N \in Nat /\ \A i \in 1 .. N : o[i] \in G
      /\ \A x \in G : \E i \in 1 .. N : o[i] = x
  BY Ordered, Zenon
<1>2. /\ \A i \in 1 .. N : q[i] = Task(op, n, o[i])
      /\ q \in [1 .. N -> S]
  BY <1>1, Zenon DEF PerGroup
<1> HIDE DEF N, o, q, S
<1>3. q \in Seq(S) /\ Len(q) = N
  BY <1>1, <1>2
<1>4. IsSequence(q)
  BY <1>3, SeqIsSequence
<1> QED BY <1>1, <1>2, <1>3, <1>4 DEF q

-----------------------------------------------------------------------------
(* A neighbour is programmed.                                              *)

\* What programHost does for neighbour m, whose egress goes from port old to
\* port new, with the tasks `front' put before the others.
Programs(m, old, new, front) ==
  /\ work # <<>> /\ work[1].op = "neighbor" /\ m = work[1].n /\ m \in Neighbors
  /\ old = EgressPort(m) /\ new = Usable(state.entry[m])
  /\ front = IF programAction(old, new) = "skip" THEN <<>>
             ELSE PerGroup(programAction(old, new), m, DOMAIN ecmp)
  /\ work' = front \o Tail(work)
  /\ resolved' = CASE old = "none" /\ new # "none" -> resolved \cup {m}
                   [] old # "none" /\ new = "none" -> resolved \ {m}
                   [] OTHER -> resolved
  /\ portMap' = updatePortToEgressMapping(m, old, new)
  /\ UNCHANGED <<link, scan, traverse, cache, posted, updates, state, ecmp>>

LEMMA HostPrograms ==
  ASSUME IInv, programHost
  PROVE  \E m, old, new, front :
           /\ Programs(m, old, new, front)
           /\ host' = [h \in IF Referenced(m, DOMAIN ecmp) THEN DOMAIN host \cup {m}
                             ELSE DOMAIN host \ {m}
                         |-> IF h = m THEN new ELSE host[h]]
<1> DEFINE m == work[1].n
           old == EgressPort(m)
           new == Usable(state.entry[m])
           front == IF programAction(old, new) = "skip" THEN <<>>
                    ELSE PerGroup(programAction(old, new), m, DOMAIN ecmp)
<1>1. work # <<>>
  BY Zenon DEF programHost
<1>2. Head(work) = work[1] /\ TaskOK(work[1])
  BY <1>1, HeadTask
<1>3. work[1].op = "neighbor" /\ m \in Neighbors
  BY <1>2, Zenon DEF programHost, TaskOK
<1>4. /\ host' = [h \in IF Referenced(m, DOMAIN ecmp) THEN DOMAIN host \cup {m}
                        ELSE DOMAIN host \ {m}
                    |-> IF h = m THEN new ELSE host[h]]
      /\ portMap' = updatePortToEgressMapping(m, old, new)
  BY <1>2, Zenon DEF programHost, Usable
<1>5. resolved' = CASE old = "none" /\ new # "none" -> resolved \cup {m}
                        [] old # "none" /\ new = "none" -> resolved \ {m}
                        [] OTHER -> resolved
  BY <1>2, Zenon DEF programHost, Usable
<1>6. work' = front \o Tail(work)
  <2> DEFINE n == Head(work).n
             to == IF state.entry[n] \in Ports THEN state.entry[n] ELSE "none"
             a == programAction(EgressPort(n), to)
  <2>1. work' = (IF a = "skip" THEN <<>> ELSE PerGroup(a, n, DOMAIN ecmp)) \o Tail(work)
    BY Zenon DEF programHost
  <2>2. n = m /\ to = new
    BY <1>2, Zenon DEF Usable
  <2>3. a = programAction(old, new)
    BY <2>2
  <2> HIDE DEF n, a
  <2> QED BY <2>1, <2>2, <2>3, Zenon
<1>7. UNCHANGED <<link, scan, traverse, cache, posted, updates, state, ecmp>>
  BY Zenon DEF programHost, linkVars, neighborVars
<1>8. Programs(m, old, new, front)
  BY <1>1, <1>3, <1>4, <1>5, <1>6, <1>7, Zenon DEF Programs
<1> QED BY <1>4, <1>8, Zenon

(* The neighbour's tasks are the first of those that are left.             *)
LEMMA ProgramsTasks ==
  ASSUME IInv, NEW m, NEW old, NEW new, NEW front, Programs(m, old, new, front)
  PROVE  /\ ByHead(work, Tail(work)) /\ IsSequence(front) /\ Joined(work', front, Tail(work))
         /\ \A i \in 1 .. Len(front) :
              /\ front[i].op = programAction(old, new) /\ front[i].op \in {"expand", "shrink"}
              /\ front[i].n = m /\ front[i].g \in Groups
         /\ programAction(old, new) = "expand" =>
              \A g \in DOMAIN ecmp : \E i \in 1 .. Len(front) :
                front[i].op = "expand" /\ front[i].n = m /\ front[i].g = g
<1>1. ByHead(work, Tail(work))
  BY TailByHead, Zenon DEF IInv, TypeInv, QueuesOK, Programs
<1>2. programAction(old, new) \in {"expand", "shrink", "skip"}
  BY DEF programAction
<1>3. IsFiniteSet(DOMAIN ecmp) /\ DOMAIN ecmp \subseteq Groups
  <2>1. DOMAIN ecmp \subseteq Groups
    BY Zenon DEF IInv, TypeInv, HardwareOK
  <2>2. DOMAIN ecmp \in SUBSET (SUBSET Neighbors)
    BY <2>1, EcmpAssumption, Zenon, SMT
  <2> QED BY <2>1, <2>2, EcmpAssumption, FS_SUBSET, FS_Subset, Zenon
<1> DEFINE a == programAction(old, new)
           q == PerGroup(a, m, DOMAIN ecmp)
<1>4. /\ IsSequence(q)
      /\ \A i \in 1 .. Len(q) : \E g \in DOMAIN ecmp : q[i] = Task(a, m, g)
      /\ \A g \in DOMAIN ecmp : \E i \in 1 .. Len(q) : q[i] = Task(a, m, g)
  <2> HIDE DEF a
  <2> QED BY <1>3, PerGroupTasks, SMT, Z3
<1>5. \A g : Task(a, m, g).op = a /\ Task(a, m, g).n = m /\ Task(a, m, g).g = g
  BY Zenon DEF Task
<1>6. IsSequence(<<>>) /\ Len(<<>>) = 0
  BY DEF IsSequence
<1>7. front = IF a = "skip" THEN <<>> ELSE q
  BY Zenon DEF Programs
<1> HIDE DEF a, q
<1>8. IsSequence(front)
  BY <1>4, <1>6, <1>7, Zenon
<1>9. \A i \in 1 .. Len(front) : front[i].op = a /\ front[i].op \in {"expand", "shrink"}
                                 /\ front[i].n = m /\ front[i].g \in Groups
  <2>1. CASE a = "skip"
    BY <1>6, <1>7, <2>1
  <2>2. CASE a # "skip"
    <3>1. a \in {"expand", "shrink"} /\ front = q
      BY <1>2, <1>7, <2>2, Zenon DEF a
    <3> QED BY <1>3, <1>4, <1>5, <3>1
  <2> QED BY <2>1, <2>2, Zenon
<1>10. a = "expand" => \A g \in DOMAIN ecmp : \E i \in 1 .. Len(front) :
                         front[i].op = "expand" /\ front[i].n = m /\ front[i].g = g
  BY <1>4, <1>5, <1>7
<1>11. Joined(work', front, Tail(work))
  <2>1. work' = front \o Tail(work) /\ IsSequence(Tail(work))
    BY <1>1, Zenon DEF Programs, ByHead
  <2> QED BY <1>8, <2>1, ConcatJoins
<1> QED BY <1>1, <1>8, <1>9, <1>10, <1>11, Zenon DEF a

(* Every task but the first is still there, and no other than the new ones *)
(* came; none of the others is the neighbour's.                            *)
LEMMA ProgramsOthers ==
  ASSUME IInv, NEW m, NEW old, NEW new, NEW front, Programs(m, old, new, front)
  PROVE  /\ \A i \in 1 .. Len(work) : i # 1 => \E j \in 1 .. Len(work') : work'[j] = work[i]
         /\ \A i \in 1 .. Len(front) : \E j \in 1 .. Len(work') : work'[j] = front[i]
         /\ \A j \in 1 .. Len(work') :
              \/ \E i \in 1 .. Len(front) : work'[j] = front[i]
              \/ \E i \in 1 .. Len(work) : i # 1 /\ work'[j] = work[i]
         /\ \A i \in 1 .. Len(work) : i # 1 => ~(OfNeighbor(work[i]) /\ work[i].n = m)
         /\ OneTask(work')
<1> DEFINE t == Tail(work)
           w == work'
<1>1. ByHead(work, t) /\ Joined(w, front, t)
  BY ProgramsTasks, Zenon
<1>2. work[1].op = "neighbor" /\ work[1].n = m
  BY Zenon DEF Programs
<1> HIDE DEF t, w
<1>3. \A i \in 1 .. Len(work) : i # 1 => \E j \in 1 .. Len(w) : w[j] = work[i]
  BY <1>1, SMT, Z3 DEF ByHead, Joined
<1>4. \A i \in 1 .. Len(front) : \E j \in 1 .. Len(w) : w[j] = front[i]
  BY <1>1, Zenon DEF Joined
<1>5. \A j \in 1 .. Len(w) : \/ \E i \in 1 .. Len(front) : w[j] = front[i]
                             \/ \E i \in 1 .. Len(work) : i # 1 /\ w[j] = work[i]
  BY <1>1 DEF ByHead, Joined
<1>6. \A i \in 1 .. Len(work) : i # 1 => ~(OfNeighbor(work[i]) /\ work[i].n = m)
  BY <1>1, <1>2, Zenon DEF ByHead, IInv, WorkInv, OfNeighbor
<1>7. OneTask(t)
  <2>1. ASSUME NEW i \in 1 .. Len(t), NEW j \in 1 .. Len(t),
               t[i].op = "neighbor", OfNeighbor(t[j]), t[i].n = t[j].n
        PROVE  i = j
    <3>1. /\ i + 1 \in 1 .. Len(work) /\ t[i] = work[i + 1]
          /\ j + 1 \in 1 .. Len(work) /\ t[j] = work[j + 1]
          /\ (i + 1 = j + 1 => i = j)
      BY <1>1, Zenon DEF ByHead
    <3> QED BY <2>1, <3>1, Zenon DEF IInv, WorkInv, OfNeighbor
  <2> QED BY <2>1, Zenon DEF OneTask
<1>8. \A i \in 1 .. Len(front) : front[i].op # "neighbor" /\ front[i].n = m
  BY ProgramsTasks, SMT, Z3
<1>9. OneTask(front)
  BY <1>8, Zenon DEF OneTask
<1>10. Apart(front, t)
  <2>1. \A j \in 1 .. Len(t) : ~(OfNeighbor(t[j]) /\ t[j].n = m)
    BY <1>1, <1>6 DEF ByHead
  <2> QED BY <1>8, <2>1, Zenon DEF Apart, OfNeighbor
<1>11. OneTask(w)
  BY <1>1, <1>7, <1>9, <1>10, OneTaskJoined, Zenon
<1> QED BY <1>3, <1>4, <1>5, <1>6, <1>11 DEF w

(* The hosts, the resolved egresses and the map agree again.               *)
LEMMA ProgramsHosts ==
  ASSUME IInv, NEW m, NEW old, NEW new, NEW front, Programs(m, old, new, front),
         host' = [h \in IF Referenced(m, DOMAIN ecmp) THEN DOMAIN host \cup {m}
                        ELSE DOMAIN host \ {m}
                    |-> IF h = m THEN new ELSE host[h]]
  PROVE  /\ HardwareOK' /\ HostInv'
         /\ \A n \in Neighbors : n # m => (n \in resolved' <=> n \in resolved)
         /\ m \in resolved' <=> new # "none"
<1>1. /\ m \in Neighbors /\ new = Usable(state.entry[m]) /\ old = EgressPort(m)
      /\ UNCHANGED <<state, traverse, ecmp>> /\ work[1].n = m
  BY Zenon DEF Programs
<1>2. new = "none" \/ (new \in NeighborPorts[m] /\ new \in Ports)
  BY <1>1, EcmpAssumption, Zenon DEF IInv, TypeInv, StatesOK, EntryValues, Usable
<1>3. new # "none" => Referenced(m, DOMAIN ecmp)
  BY <1>1, EcmpAssumption, Zenon DEF Usable, Referenced
<1>4. \A n \in Neighbors : EgressPort(n)' = IF n = m THEN new ELSE EgressPort(n)
  BY <1>1, <1>2, <1>3, Zenon DEF EgressPort
<1>5. /\ \A n \in Neighbors : n \in resolved <=> EgressPort(n) # "none"
      /\ \A n \in Neighbors, p \in Ports : n \in portMap[p] <=> EgressPort(n) = p
      /\ \A n \in Neighbors : HasTask(n) \/ EgressPort(n) = Usable(state.entry[n])
  BY DEF IInv, HostInv
<1>6. resolved' = CASE old = "none" /\ new # "none" -> resolved \cup {m}
                    [] old # "none" /\ new = "none" -> resolved \ {m}
                    [] OTHER -> resolved
  BY Zenon DEF Programs
<1>7. /\ \A n \in Neighbors : n # m => (n \in resolved' <=> n \in resolved)
      /\ m \in resolved' <=> new # "none"
      /\ resolved' \subseteq Neighbors
  <2>1. resolved \subseteq Neighbors
    BY Zenon DEF IInv, TypeInv, HardwareOK
  <2> QED BY <1>1, <1>5, <1>6, <2>1, Zenon
<1>8. /\ portMap' \in [Ports -> SUBSET Neighbors]
      /\ \A n \in Neighbors, p \in Ports : n \in portMap'[p] <=> EgressPort(n)' = p
  <2>1. portMap \in [Ports -> SUBSET Neighbors]
    BY DEF IInv, TypeInv, HardwareOK
  <2>2. portMap' = [p \in Ports |-> IF p = new THEN portMap[p] \cup {m}
                                    ELSE IF p = old THEN portMap[p] \ {m} ELSE portMap[p]]
    BY Zenon DEF Programs, updatePortToEgressMapping
  <2>3. portMap' \in [Ports -> SUBSET Neighbors]
    BY <1>1, <2>1, <2>2
  <2>4. ASSUME NEW n \in Neighbors, NEW p \in Ports
        PROVE  n \in portMap'[p] <=> (IF n = m THEN new ELSE EgressPort(n)) = p
    BY <1>1, <1>5, <2>2, Zenon
  <2> QED BY <1>4, <2>3, <2>4, Zenon
<1>9. \A n \in Neighbors : n # m /\ HasTask(n) => HasTask(n)'
  <2>1. \A i \in 1 .. Len(work) : i # 1 => \E j \in 1 .. Len(work') : work'[j] = work[i]
    BY ProgramsOthers
  <2> QED BY <1>1, <2>1, Zenon DEF HasTask
<1>10. HostInv'
  BY <1>1, <1>4, <1>5, <1>7, <1>8, <1>9, Zenon DEF HostInv
<1>11. HardwareOK'
  <2>1. /\ host' = [n \in DOMAIN host' |-> host'[n]] /\ DOMAIN host' \subseteq Neighbors
        /\ \A n \in DOMAIN host' : host'[n] = "none" \/ host'[n] \in NeighborPorts[n]
    BY <1>1, <1>2, Zenon DEF IInv, TypeInv, HardwareOK
  <2> QED BY <1>1, <1>7, <1>8, <2>1, Zenon DEF IInv, TypeInv, HardwareOK
<1> QED BY <1>7, <1>10, <1>11

LEMMA HostStep ==
  ASSUME IInv, programHost
  PROVE  IInv'
<1>1. PICK m, old, new, front :
        /\ Programs(m, old, new, front)
        /\ host' = [h \in IF Referenced(m, DOMAIN ecmp) THEN DOMAIN host \cup {m}
                          ELSE DOMAIN host \ {m}
                      |-> IF h = m THEN new ELSE host[h]]
  BY HostPrograms
<1>2. /\ HardwareOK' /\ HostInv'
      /\ \A n \in Neighbors : n # m => (n \in resolved' <=> n \in resolved)
      /\ m \in resolved' <=> new # "none"
  BY <1>1, ProgramsHosts, Zenon
<1> DEFINE w == work'
<1>3. /\ \A i \in 1 .. Len(work) : i # 1 => \E j \in 1 .. Len(w) : w[j] = work[i]
      /\ \A i \in 1 .. Len(front) : \E j \in 1 .. Len(w) : w[j] = front[i]
      /\ \A j \in 1 .. Len(w) :
           \/ \E i \in 1 .. Len(front) : w[j] = front[i]
           \/ \E i \in 1 .. Len(work) : i # 1 /\ w[j] = work[i]
      /\ \A i \in 1 .. Len(work) : i # 1 => ~(OfNeighbor(work[i]) /\ work[i].n = m)
      /\ OneTask(w)
  BY <1>1, ProgramsOthers, Zenon
<1>4. /\ IsSequence(w)
      /\ \A i \in 1 .. Len(front) :
           /\ front[i].op = programAction(old, new) /\ front[i].op \in {"expand", "shrink"}
           /\ front[i].n = m /\ front[i].g \in Groups
      /\ programAction(old, new) = "expand" =>
           \A g \in DOMAIN ecmp : \E i \in 1 .. Len(front) :
             front[i].op = "expand" /\ front[i].n = m /\ front[i].g = g
  <2>1. Joined(work', front, Tail(work))
    BY <1>1, ProgramsTasks, Zenon
  <2>2. IsSequence(w)
    BY <2>1, Zenon DEF Joined
  <2>3. \A i \in 1 .. Len(front) :
          /\ front[i].op = programAction(old, new) /\ front[i].op \in {"expand", "shrink"}
          /\ front[i].n = m /\ front[i].g \in Groups
    BY <1>1, ProgramsTasks, Zenon, SMT
  <2>4. programAction(old, new) = "expand" =>
          \A g \in DOMAIN ecmp : \E i \in 1 .. Len(front) :
            front[i].op = "expand" /\ front[i].n = m /\ front[i].g = g
    BY <1>1, ProgramsTasks, SMT, Z3
  <2> QED BY <2>2, <2>3, <2>4, Zenon
<1>5. /\ m \in Neighbors /\ work[1].op = "neighbor" /\ work[1].n = m
      /\ UNCHANGED <<link, scan, traverse, cache, posted, updates, state, ecmp>>
  BY <1>1, Zenon DEF Programs
<1>6. \A i \in 1 .. Len(work) : TaskOK(work[i])
  BY DEF IInv, TypeInv, QueuesOK
<1> HIDE DEF w
<1>7. \A j \in 1 .. Len(w) : TaskOK(w[j])
  <2>1. \A i \in 1 .. Len(front) : TaskOK(front[i])
    BY <1>4, <1>5, Zenon DEF TaskOK
  <2> QED BY <1>3, <1>6, <2>1, Zenon
<1>8. TypeInv'
  <2>1. QueuesOK'
    BY <1>4, <1>5, <1>7, Zenon DEF w, IInv, TypeInv, QueuesOK
  <2> QED BY <1>2, <1>5, <2>1, StatesKept DEF IInv, TypeInv
<1>9. WorkInv'
  <2>1. ASSUME NEW j \in 1 .. Len(w), w[j].op = "shrink" PROVE w[j].n \notin resolved'
    <3>1. ASSUME NEW i \in 1 .. Len(front), w[j] = front[i] PROVE w[j].n \notin resolved'
      <4>1. programAction(old, new) = "shrink" /\ w[j].n = m
        BY <1>4, <2>1, <3>1, Zenon
      <4>2. new = "none"
        BY <4>1, Zenon DEF programAction
      <4> QED BY <1>2, <4>1, <4>2
    <3>2. ASSUME NEW i \in 1 .. Len(work), i # 1, w[j] = work[i] PROVE w[j].n \notin resolved'
      <4>1. work[i].n # m /\ work[i].n \notin resolved /\ work[i].n \in Neighbors
        BY <1>3, <1>6, <2>1, <3>2, Zenon DEF OfNeighbor, TaskOK, IInv, WorkInv
      <4> QED BY <1>2, <3>2, <4>1
    <3> QED BY <1>3, <3>1, <3>2, Zenon
  <2> QED BY <1>3, <2>1 DEF WorkInv, OneTask, OfNeighbor, w
<1>10. ASSUME NEW n \in Neighbors, NEW p \in Ports, NeighborPorts[n] = {p},
              NEW g \in DOMAIN ecmp, n \in g, n \in resolved', n \notin ecmp[g]
       PROVE  ToExpand(n, g)' \/ LossPending(p)' \/ ResetPending(n)'
  <2>1. CASE n = m
    <3>1. programAction(old, new) = "expand"
      BY <1>2, <1>10, <2>1, Zenon DEF programAction
    <3>2. PICK i \in 1 .. Len(front) : front[i].op = "expand" /\ front[i].n = m /\ front[i].g = g
      BY <1>4, <3>1, Zenon
    <3>3. \E j \in 1 .. Len(w) : w[j].op = "expand" /\ w[j].n = n /\ w[j].g = g
      <4>1. PICK j \in 1 .. Len(w) : w[j] = front[i]
        BY <1>3, Zenon
      <4> QED BY <2>1, <3>2, <4>1, Zenon
    <3> QED BY <3>3, Zenon DEF ToExpand, w
  <2>2. CASE n # m
    <3>1. ToExpand(n, g) \/ LossPending(p) \/ ResetPending(n)
      BY <1>2, <1>10, <2>2, Zenon DEF IInv, ReturnInv
    <3>2. ToExpand(n, g) => ToExpand(n, g)'
      <4>1. \A i \in 1 .. Len(work) : work[i].n = n => \E j \in 1 .. Len(w) : w[j] = work[i]
        BY <1>3, <1>5, <2>2, Zenon
      <4> QED BY <4>1, Zenon DEF ToExpand, w
    <3>3. LossPending(p) => LossPending(p)'
      <4>1. traverse' = traverse /\ updates' = updates /\ posted' = posted
        BY <1>5, Zenon
      <4>2. \A i \in 1 .. Len(work) : work[i].op = "observers" =>
              \E j \in 1 .. Len(w) : w[j] = work[i]
        BY <1>3, <1>5, Zenon
      <4> QED BY <4>1, <4>2 DEF LossPending, OperOf, w
    <3>4. ResetPending(n) => ResetPending(n)'
      BY <1>5 DEF ResetPending
    <3> QED BY <3>1, <3>2, <3>3, <3>4, Zenon
  <2> QED BY <2>1, <2>2, Zenon
<1>11. ReturnInv'
  BY <1>5, <1>10, Zenon DEF ReturnInv
<1>12. CacheInv' /\ LinkInv' /\ InTraversal'
  BY <1>5, CacheKept, LinkKept, TraversalKept, Zenon DEF IInv
<1> QED BY <1>2, <1>8, <1>9, <1>11, <1>12, Zenon DEF IInv

-----------------------------------------------------------------------------
(* The update thread takes a batch.                                        *)

\* Tasks q and s, one after the other, and what the invariant asks of tasks.
TasksOK(w) == IsSequence(w) /\ OneTask(w) /\ \A i \in 1 .. Len(w) : TaskOK(w[i])

\* Tasks of no neighbour.
NoNeighbor(w) == \A i \in 1 .. Len(w) : ~OfNeighbor(w[i])

LEMMA TasksJoined ==
  ASSUME NEW q, NEW s, TasksOK(q), TasksOK(s), NoNeighbor(q) \/ NoNeighbor(s)
  PROVE  TasksOK(q \o s) /\ Joined(q \o s, q, s)
<1> DEFINE w == q \o s
<1>1. Joined(w, q, s)
  BY ConcatJoins, Zenon DEF TasksOK
<1> HIDE DEF w
<1>2. Apart(q, s)
  BY Zenon DEF Apart, NoNeighbor, OfNeighbor
<1>3. OneTask(w)
  BY <1>1, <1>2, OneTaskJoined, Zenon DEF TasksOK
<1>4. TasksOK(w)
  BY <1>1, <1>3, Zenon DEF TasksOK, Joined
<1> QED BY <1>1, <1>4, Zenon DEF w

LEMMA RouteTasks ==
  ASSUME NEW op \in {"destroy", "create"}, NEW G, G \subseteq Groups
  PROVE  TasksOK(PerGroup(op, "none", G)) /\ NoNeighbor(PerGroup(op, "none", G))
<1> DEFINE q == PerGroup(op, "none", G)
<1>1. IsFiniteSet(G)
  <2>1. G \in SUBSET (SUBSET Neighbors)
    BY EcmpAssumption, Zenon
  <2> QED BY <2>1, EcmpAssumption, FS_SUBSET, FS_Subset, Zenon
<1>2. IsSequence(q) /\ \A i \in 1 .. Len(q) : \E g \in G : q[i] = Task(op, "none", g)
  BY <1>1, PerGroupTasks
<1> HIDE DEF q
<1>3. \A i \in 1 .. Len(q) : q[i].op \in {"destroy", "create"} /\ q[i].g \in Groups
  <2>1. \A g : Task(op, "none", g).op = op /\ Task(op, "none", g).g = g
    BY Zenon DEF Task
  <2> QED BY <1>2, <2>1
<1>4. TasksOK(q) /\ NoNeighbor(q)
  BY <1>2, <1>3, Zenon DEF TasksOK, NoNeighbor, OneTask, OfNeighbor, TaskOK
<1> QED BY <1>4 DEF q

NeighborTasks(C) == [i \in 1 .. Cardinality(C) |-> Task("neighbor", InOrder(C)[i], {})]

LEMMA NeighborsTasks ==
  ASSUME NEW C, C \subseteq Neighbors
  PROVE  /\ TasksOK(NeighborTasks(C))
         /\ \A i \in 1 .. Len(NeighborTasks(C)) : NeighborTasks(C)[i].op = "neighbor"
         /\ \A n \in C : \E i \in 1 .. Len(NeighborTasks(C)) : NeighborTasks(C)[i].n = n
<1> DEFINE N == Cardinality(C)
           o == InOrder(C)
           q == NeighborTasks(C)
           S == {Task("neighbor", n, {}) : n \in C}
<1>1. /\ N \in Nat /\ \A i \in 1 .. N : o[i] \in C
      /\ \A x \in C : \E i \in 1 .. N : o[i] = x
      /\ \A i, j \in 1 .. N : o[i] = o[j] => i = j
  <2>1. IsFiniteSet(C)
    BY EcmpAssumption, FS_Subset
  <2> QED BY <2>1, Ordered, Zenon
<1>2. /\ \A i \in 1 .. N : q[i].op = "neighbor" /\ q[i].n = o[i]
      /\ q \in [1 .. N -> S]
  <2>1. \A n : Task("neighbor", n, {}).op = "neighbor" /\ Task("neighbor", n, {}).n = n
    BY Zenon DEF Task
  <2>2. \A i \in 1 .. N : q[i] = Task("neighbor", o[i], {})
    BY Zenon DEF NeighborTasks
  <2>3. q \in [1 .. N -> S]
    BY <1>1, Zenon DEF NeighborTasks
  <2> QED BY <2>1, <2>2, <2>3
<1> HIDE DEF N, o, q, S
<1>3. q \in Seq(S) /\ Len(q) = N
  BY <1>1, <1>2
<1>4. IsSequence(q)
  BY <1>3, SeqIsSequence, Zenon
<1>5. TasksOK(q)
  BY <1>1, <1>2, <1>3, <1>4 DEF TasksOK, OneTask, TaskOK
<1> QED BY <1>1, <1>2, <1>3, <1>5, SMT, Z3 DEF q

\* The tasks w of a batch that leaves the state new: every neighbour whose node
\* was replaced is programmed, and every port that went down is told.
TasksFor(new, w) ==
  /\ \A i \in 1 .. Len(w) : w[i].op # "shrink"
  /\ \A n \in new.touched : state.entry[n] # "none" \/ new.entry[n] # "none" =>
       \E i \in 1 .. Len(w) : w[i].op = "neighbor" /\ w[i].n = n
  /\ \A p \in Ports : state.oper[p] /\ ~new.oper[p] =>
       \E i \in 1 .. Len(w) :
         w[i].op = "observers" /\ \E j \in 1 .. Len(w[i].down) : w[i].down[j] = p

LEMMA ChangedTasks ==
  ASSUME TypeInv, NEW new, StateOK(new)
  PROVE  TasksOK(stateChanged(state, new)) /\ TasksFor(new, stateChanged(state, new))
<1> DEFINE C == {n \in new.touched : {state.entry[n], new.entry[n]} # {"none"}}
           D == {p \in Ports : state.oper[p] /\ ~new.oper[p]}
           a == PerGroup("destroy", "none", state.routes \ new.routes)
           b == NeighborTasks(C)
           c == PerGroup("create", "none", new.routes \ state.routes)
           d == <<[op |-> "observers", down |-> InOrder(D)]>>
           w == stateChanged(state, new)
<1>1. w = a \o b \o c \o d
  BY Zenon DEF stateChanged, NeighborTasks, portChanged
<1>2. TasksOK(a) /\ NoNeighbor(a) /\ TasksOK(c) /\ NoNeighbor(c)
  <2>1. state.routes \ new.routes \subseteq Groups /\ new.routes \ state.routes \subseteq Groups
    BY Zenon DEF TypeInv, StatesOK, StateOK
  <2> QED BY <2>1, RouteTasks, Zenon
<1>3. /\ TasksOK(b) /\ \A i \in 1 .. Len(b) : b[i].op = "neighbor"
      /\ \A n \in C : \E i \in 1 .. Len(b) : b[i].n = n
  <2>1. C \subseteq Neighbors
    BY Zenon DEF StateOK
  <2> HIDE DEF C
  <2> QED BY <2>1, NeighborsTasks, Zenon
<1>4. /\ IsSequence(InOrder(D)) /\ \A i \in 1 .. Len(InOrder(D)) : InOrder(D)[i] \in Ports
      /\ \A p \in D : \E j \in 1 .. Len(InOrder(D)) : InOrder(D)[j] = p
  <2>1. D \subseteq Ports
    BY Zenon
  <2> HIDE DEF D
  <2>2. IsFiniteSet(D)
    BY <2>1, EcmpAssumption, FS_Subset, Zenon
  <2> QED BY <2>1, <2>2, Ordered, Zenon
<1>5. /\ Len(d) = 1 /\ d[1].op = "observers" /\ d[1].down = InOrder(D)
      /\ 1 \in 1 .. 1 /\ \A i \in 1 .. 1 : i = 1
  <2> HIDE DEF D
  <2> QED OBVIOUS
<1>6. TasksOK(d) /\ NoNeighbor(d)
  <2>1. IsSequence(d)
    <3> HIDE DEF D
    <3>1. d \in Seq({[op |-> "observers", down |-> InOrder(D)]})
      OBVIOUS
    <3> QED BY <3>1, SeqIsSequence, Zenon
  <2>2. TaskOK(d[1]) /\ ~OfNeighbor(d[1])
    <3> HIDE DEF D, d
    <3> QED BY <1>4, <1>5, Zenon DEF TaskOK, OfNeighbor
  <2> HIDE DEF D, d
  <2> QED BY <1>5, <2>1, <2>2 DEF TasksOK, NoNeighbor, OneTask
<1> HIDE DEF C, D, a, b, c, d, w
<1> DEFINE ab == a \o b
           abc == ab \o c
<1>7. TasksOK(ab) /\ Joined(ab, a, b)
  BY <1>2, <1>3, TasksJoined, Zenon
<1> HIDE DEF ab
<1>8. TasksOK(abc) /\ Joined(abc, ab, c)
  BY <1>2, <1>7, TasksJoined, Zenon
<1> HIDE DEF abc
<1>9. TasksOK(w) /\ Joined(w, abc, d)
  <2>1. w = abc \o d
    BY <1>1 DEF ab, abc
  <2> QED BY <1>6, <1>8, <2>1, TasksJoined
<1>10. \A i \in 1 .. Len(w) : w[i].op # "shrink"
  <2>1. \A i \in 1 .. Len(ab) : ab[i].op # "shrink"
    BY <1>2, <1>3, <1>7, Zenon DEF Joined, NoNeighbor, OfNeighbor
  <2>2. \A i \in 1 .. Len(abc) : abc[i].op # "shrink"
    BY <1>2, <1>8, <2>1, Zenon DEF Joined, NoNeighbor, OfNeighbor
  <2> QED BY <1>6, <1>9, <2>2, Zenon DEF Joined, NoNeighbor, OfNeighbor
<1>11. ASSUME NEW n \in C PROVE \E i \in 1 .. Len(w) : w[i].op = "neighbor" /\ w[i].n = n
  <2>1. \E i \in 1 .. Len(ab) : ab[i].op = "neighbor" /\ ab[i].n = n
    <3>1. PICK i \in 1 .. Len(b) : b[i].op = "neighbor" /\ b[i].n = n
      BY <1>3, Zenon
    <3>2. Len(a) + i \in 1 .. Len(ab) /\ ab[Len(a) + i] = b[i]
      BY <1>7, Zenon DEF Joined
    <3> QED BY <3>1, <3>2, Zenon
  <2>2. \E i \in 1 .. Len(abc) : abc[i].op = "neighbor" /\ abc[i].n = n
    BY <1>8, <2>1 DEF Joined
  <2> QED BY <1>9, <2>2, Zenon DEF Joined
<1>12. \E i \in 1 .. Len(w) : w[i] = d[1]
  BY <1>5, <1>9, Zenon DEF Joined
<1>13. ASSUME NEW p \in D
       PROVE  \E i \in 1 .. Len(w) :
                w[i].op = "observers" /\ \E j \in 1 .. Len(w[i].down) : w[i].down[j] = p
  BY <1>4, <1>5, <1>12
<1>14. \A n \in new.touched : state.entry[n] # "none" \/ new.entry[n] # "none" => n \in C
  BY Zenon DEF C
<1>15. TasksFor(new, w)
  BY <1>10, <1>11, <1>13, <1>14, Zenon DEF TasksFor, D
<1> QED BY <1>9, <1>15, Zenon DEF w

\* The update thread takes the first k closures.
Takes(k) ==
  /\ work = <<>> /\ k \in 1 .. Len(updates)
  /\ \A i \in 1 .. k - 1 : allowsCoalescing(updates[i])
  /\ state' = [f \in DOMAIN state |-> Batch(k)[f]]
  /\ work' = stateChanged(state, Batch(k))
  /\ updates' = SubSeq(updates, k + 1, Len(updates))
  /\ UNCHANGED <<link, scan, traverse, cache, posted, host, resolved, portMap, ecmp>>

LEMMA ThreadTakes ==
  ASSUME handlePendingUpdates
  PROVE  \E k \in 1 .. Len(updates) : Takes(k)
<1>1. PICK k \in 1 .. Len(updates) :
        /\ \A i \in 1 .. k - 1 : allowsCoalescing(updates[i])
        /\ state' = [f \in DOMAIN state |-> Batch(k)[f]]
        /\ work' = stateChanged(state, Batch(k))
        /\ updates' = SubSeq(updates, k + 1, Len(updates))
  BY Zenon DEF handlePendingUpdates, Batch, Start
<1>2. /\ work = <<>>
      /\ UNCHANGED <<link, scan, traverse, cache, posted, host, resolved, portMap, ecmp>>
  BY Zenon DEF handlePendingUpdates, linkVars, neighborVars, hwVars
<1>3. Takes(k)
  BY <1>1, <1>2, Zenon DEF Takes
<1> QED BY <1>3

(* What a batch leaves: types, the closures that are left, and what they   *)
(* will make of the entries and of the ports.                              *)
LEMMA TakesQueues ==
  ASSUME IInv, NEW k, Takes(k)
  PROVE  /\ Len(updates) \in Nat /\ k \in Nat /\ StateOK(Batch(k)) /\ Shrunk(updates, updates', k)
         /\ state'.oper = Batch(k).oper /\ state'.entry = Batch(k).entry
         /\ TypeInv' /\ TasksOK(work')
<1>1. TypeInv /\ k \in 1 .. Len(updates) /\ IsSequence(updates) /\ Len(updates) \in Nat
  BY Zenon DEF IInv, TypeInv, QueuesOK, IsSequence, Takes
<1>2. k \in Nat /\ k + 1 \in 1 .. Len(updates) + 1 /\ Len(updates) \in 0 .. Len(updates)
      /\ k + 1 <= Len(updates) + 1
  BY <1>1
<1> DEFINE s == SubSeq(updates, k + 1, Len(updates))
<1>3. /\ IsSequence(s) /\ Len(s) = Len(updates) - (k + 1) + 1
      /\ \A i \in 1 .. Len(updates) - (k + 1) + 1 : s[i] = updates[k + 1 + i - 1]
  BY <1>1, <1>2, SubSeqSequence, Zenon
<1> HIDE DEF s
<1>4. Len(updates) = k + Len(s)
  BY <1>1, <1>2, <1>3
<1>5. \A i \in 1 .. Len(s) : s[i] = updates[k + i] /\ k + i \in 1 .. Len(updates)
  <2>1. ASSUME NEW i \in 1 .. Len(s) PROVE s[i] = updates[k + i] /\ k + i \in 1 .. Len(updates)
    <3>1. i \in 1 .. Len(updates) - (k + 1) + 1 /\ k + 1 + i - 1 = k + i
          /\ k + i \in 1 .. Len(updates)
      BY <1>1, <1>2, <1>3
    <3> QED BY <1>3, <3>1, Zenon
  <2> QED BY <2>1, Zenon
<1>6. Shrunk(updates, s, k)
  BY <1>3, <1>4, <1>5, Zenon DEF Shrunk
<1>7. updates' = s
  BY Zenon DEF Takes, s
<1>8. StateOK(Batch(k))
  BY <1>1, BatchState, Zenon
<1>9. /\ DOMAIN state = {"oper", "entry", "routes"}
      /\ state' = [f \in DOMAIN state |-> Batch(k)[f]]
  BY Zenon DEF IInv, TypeInv, StatesOK, Takes
<1>10. /\ DOMAIN state' = {"oper", "entry", "routes"} /\ state'.oper = Batch(k).oper
       /\ state'.entry = Batch(k).entry /\ state'.routes = Batch(k).routes
  BY <1>9, Zenon
<1>11. TasksOK(work')
  <2>1. work' = stateChanged(state, Batch(k))
    BY Zenon DEF Takes
  <2> QED BY <1>1, <1>8, <2>1, ChangedTasks, Zenon
<1>12. QueuesOK'
  <2>1. \A i \in 1 .. Len(s) : UpdateOK(s[i])
    BY <1>1, <1>5, Zenon DEF TypeInv, QueuesOK
  <2>2. UNCHANGED <<scan, posted>>
    BY Zenon DEF Takes
  <2> QED BY <1>1, <1>3, <1>7, <1>11, <2>1, <2>2 DEF TypeInv, QueuesOK, TasksOK
<1>13. StatesOK'
  <2>1. UNCHANGED <<link, cache>>
    BY Zenon DEF Takes
  <2> QED BY <1>1, <1>8, <1>10, <2>1, Zenon DEF TypeInv, StatesOK, StateOK
<1>14. HardwareOK'
  BY HardwareKept DEF Takes, IInv, TypeInv
<1> QED BY <1>1, <1>2, <1>6, <1>7, <1>8, <1>10, <1>11, <1>12, <1>13, <1>14, Zenon DEF TypeInv

(* A port's state does not change before the last closure of the batch.    *)
LEMMA OperBefore ==
  ASSUME IInv, NEW k, Takes(k), NEW p \in Ports, NEW y,
         NEW f \in [0 .. Len(updates) -> BOOLEAN], OperPath(p, updates, state.oper[p], y, f)
  PROVE  /\ f[k - 1] = state.oper[p] /\ f[k] = Batch(k).oper[p]
         /\ OperOf(updates[k], p) /\ ~updates[k].up => state.oper[p] /\ ~Batch(k).oper[p]
<1>1. TypeInv /\ k \in 1 .. Len(updates) /\ Len(updates) \in Nat
  BY TakesQueues, Zenon DEF IInv, Takes
<1>2. \A i \in 1 .. k - 1 : ~OperOf(updates[i], p)
  BY Zenon DEF Takes, allowsCoalescing, OperOf
<1>3. PICK m \in Nat : m = k - 1
  BY <1>1
<1> DEFINE S == {i \in 0 .. m : f[i] = state.oper[p]}
<1>4. 0 \in S
  BY DEF OperPath
<1>5. ASSUME NEW i \in 0 .. m - 1, i \in S PROVE i + 1 \in S
  <2>1. i + 1 \in 1 .. k - 1 /\ i + 1 \in 1 .. Len(updates) /\ i + 1 \in 0 .. m /\ i + 1 - 1 = i
    BY <1>1, <1>3, <1>5
  <2>2. f[i + 1] = f[i]
    BY <1>2, <2>1 DEF OperPath
  <2> QED BY <1>5, <2>1, <2>2, Zenon, SMT
<1>6. \A i \in 0 .. m - 1 : i \in S => i + 1 \in S
  BY <1>5, Zenon
<1>7. m \in S
  <2> HIDE DEF S
  <2>1. \A i \in 0 .. m : i \in S
    BY <1>4, <1>6, Induction, Zenon
  <2> QED BY <2>1
<1>8. f[k - 1] = state.oper[p]
  BY <1>3, <1>7
<1>9. Batch(k).oper[p] = IF OperOf(updates[k], p) THEN updates[k].up ELSE state.oper[p]
  BY <1>1, BatchOper, Zenon DEF Takes
<1>10. IF OperOf(updates[k], p) THEN updates[k].up = f[k] /\ f[k - 1] = ~f[k] ELSE f[k] = f[k - 1]
  BY <1>1, Zenon DEF OperPath
<1>11. f[k] \in BOOLEAN
  BY <1>1
<1> QED BY <1>8, <1>9, <1>10, <1>11, Zenon

LEMMA TakesPaths ==
  ASSUME IInv, NEW k, Takes(k)
  PROVE  CacheInv' /\ LinkInv'
<1> DEFINE s == updates'
<1>1. /\ TypeInv /\ k \in 1 .. Len(updates) /\ Len(updates) \in Nat /\ k \in 0 .. Len(updates)
      /\ Shrunk(updates, s, k) /\ state'.oper = Batch(k).oper /\ state'.entry = Batch(k).entry
  <2>1. TypeInv /\ k \in 1 .. Len(updates)
    BY Zenon DEF IInv, Takes
  <2>2. /\ Len(updates) \in Nat /\ Shrunk(updates, s, k)
        /\ state'.oper = Batch(k).oper /\ state'.entry = Batch(k).entry
    BY TakesQueues, Zenon
  <2> HIDE DEF s
  <2> QED BY <2>1, <2>2
<1>2. UNCHANGED <<link, scan, traverse, cache>>
  BY Zenon DEF Takes
<1> HIDE DEF s
<1>3. ASSUME NEW n \in Neighbors PROVE HasEntryPath(n, s, Batch(k).entry[n], cache[n])
  <2>1. PICK e \in [0 .. Len(updates) -> EntryValues(n)] :
          EntryPath(n, updates, state.entry[n], cache[n], e)
    BY Zenon DEF IInv, CacheInv, HasEntryPath
  <2>2. Follows(n, e, k)
    BY <1>1, <2>1 DEF Follows, EntryPath
  <2>3. Batch(k).entry[n] = e[k]
    BY <1>1, <2>2, BatchEntry
  <2>4. HasEntryPath(n, s, e[k], cache[n])
    BY <1>1, <2>1, EntryPathShrinks, Zenon
  <2> QED BY <2>3, <2>4
<1>4. ASSUME NEW p \in Ports
      PROVE  \E x \in BOOLEAN :
               HasOperPath(p, s, Batch(k).oper[p], x) /\ HasScanPath(p, scan, x, link[p])
  <2>1. PICK x \in BOOLEAN :
          HasOperPath(p, updates, state.oper[p], x) /\ HasScanPath(p, scan, x, link[p])
    BY Zenon DEF IInv, LinkInv
  <2>2. PICK f \in [0 .. Len(updates) -> BOOLEAN] : OperPath(p, updates, state.oper[p], x, f)
    BY <2>1, Zenon DEF HasOperPath
  <2>3. f[k] = Batch(k).oper[p]
    BY <2>2, OperBefore
  <2>4. HasOperPath(p, s, f[k], x)
    BY <1>1, <2>2, OperPathShrinks, Zenon
  <2> QED BY <2>1, <2>3, <2>4, Zenon
<1>5. CacheInv'
  BY <1>1, <1>2, <1>3, Zenon DEF CacheInv, s
<1>6. LinkInv'
  BY <1>1, <1>2, <1>4, Zenon DEF IInv, LinkInv, s
<1> QED BY <1>5, <1>6, Zenon

LEMMA TakesReturn ==
  ASSUME IInv, NEW k, Takes(k)
  PROVE  HostInv' /\ WorkInv' /\ ReturnInv'
<1> DEFINE s == updates'
           w == work'
           new == Batch(k)
<1>1. /\ TypeInv /\ k \in 1 .. Len(updates) /\ Len(updates) \in Nat /\ k \in Nat
      /\ Shrunk(updates, s, k) /\ state'.oper = new.oper /\ state'.entry = new.entry
      /\ StateOK(new) /\ TasksOK(w)
  BY TakesQueues, Zenon DEF IInv, Takes
<1>2. work = <<>> /\ UNCHANGED <<traverse, posted, host, resolved, portMap, ecmp>>
  BY Zenon DEF Takes
<1>3. TasksFor(new, w)
  <2>1. w = stateChanged(state, new)
    BY Zenon DEF Takes
  <2> HIDE DEF w, new
  <2> QED BY <1>1, <2>1, ChangedTasks, Zenon
<1>4. \A n \in Neighbors :
        \/ \E i \in 1 .. k : Resets(updates[i], n)
        \/ new.entry[n] # state.entry[n]
        => n \in new.touched
  BY <1>1, BatchState, Zenon
<1>5. \A i \in 1 .. Len(updates) :
        i \in 1 .. k \/ (i - k \in 1 .. Len(s) /\ s[i - k] = updates[i])
  <2>1. ASSUME NEW i \in 1 .. Len(updates), i \notin 1 .. k
        PROVE  i - k \in 1 .. Len(s) /\ s[i - k] = updates[i]
    <3>1. i - k \in 1 .. Len(s) /\ k + (i - k) = i
      BY <1>1, <2>1 DEF Shrunk, IsSequence
    <3> QED BY <1>1, <3>1, Zenon DEF Shrunk
  <2> QED BY <2>1, Zenon
<1>6. \A n \in Neighbors : ~HasTask(n) /\ \A g : ~ToExpand(n, g)
  <2>1. Len(work) = 0
    BY <1>2, Zenon
  <2> QED BY <2>1 DEF HasTask, ToExpand
<1> HIDE DEF s, w, new
<1>7. \A n \in Neighbors : (\E i \in 1 .. Len(w) : w[i].op = "neighbor" /\ w[i].n = n) => HasTask(n)'
  BY DEF HasTask, w
<1>8. HostInv'
  <2>1. \A n \in Neighbors : EgressPort(n)' = EgressPort(n)
    BY <1>2, Zenon DEF EgressPort
  <2>2. ASSUME NEW n \in Neighbors, ~HasTask(n)'
        PROVE  EgressPort(n) = Usable(new.entry[n])
    <3>1. EgressPort(n) = Usable(state.entry[n])
      BY <1>6, Zenon, SMT DEF IInv, HostInv
    <3>2. new.entry[n] = state.entry[n]
      BY <1>3, <1>4, <1>7, <2>2, SMT, Z3 DEF TasksFor
    <3> QED BY <3>1, <3>2, Zenon
  <2>3. \A x : Usable(x)' = Usable(x)
    BY Zenon DEF Usable
  <2> QED BY <1>1, <1>2, <2>1, <2>2, <2>3, Zenon DEF IInv, HostInv
<1>9. WorkInv'
  BY <1>1, <1>3, Zenon DEF WorkInv, TasksOK, TasksFor, OneTask, OfNeighbor, w
<1>10. ASSUME NEW n \in Neighbors, NEW p \in Ports, NeighborPorts[n] = {p},
              NEW g \in DOMAIN ecmp, n \in g, n \in resolved, n \notin ecmp[g]
       PROVE  ToExpand(n, g)' \/ LossPending(p)' \/ ResetPending(n)'
  <2>1. LossPending(p) \/ ResetPending(n)
    BY <1>6, <1>10 DEF IInv, ReturnInv
  <2>2. state.entry[n] = p /\ p # "none"
    BY <1>6, <1>10, ResolvedEntry, EcmpAssumption, Zenon
  <2>3. ASSUME ResetPending(n) PROVE ToExpand(n, g)' \/ ResetPending(n)'
    <3>1. PICK i \in 1 .. Len(updates) : Resets(updates[i], n)
      BY <2>3, Zenon DEF ResetPending
    <3>2. CASE i \in 1 .. k
      <4>1. n \in new.touched
        BY <1>4, <3>1, <3>2, Zenon
      <4>2. \E j \in 1 .. Len(w) : w[j].op = "neighbor" /\ w[j].n = n
        BY <1>3, <2>2, <4>1, Zenon DEF TasksFor
      <4> QED BY <4>2, Zenon DEF ToExpand, w
    <3>3. CASE i - k \in 1 .. Len(s) /\ s[i - k] = updates[i]
      <4>1. \E j \in 1 .. Len(s) : Resets(s[j], n)
        BY <3>1, <3>3, Zenon
      <4> QED BY <4>1, Zenon DEF ResetPending, s
    <3> QED BY <1>5, <3>2, <3>3, Zenon
  <2>4. ASSUME NEW i \in 1 .. Len(updates), OperOf(updates[i], p), ~updates[i].up
        PROVE  LossPending(p)'
    <3>1. CASE i \in 1 .. k
      <4>1. i = k
        <5>1. i \notin 1 .. k - 1
          BY <2>4, Zenon DEF Takes, allowsCoalescing, OperOf
        <5> QED BY <1>1, <3>1, <5>1
      <4>2. PICK y \in BOOLEAN : HasOperPath(p, updates, state.oper[p], y)
        BY Zenon DEF IInv, LinkInv
      <4>3. PICK f \in [0 .. Len(updates) -> BOOLEAN] : OperPath(p, updates, state.oper[p], y, f)
        BY <4>2, Zenon DEF HasOperPath
      <4>4. state.oper[p] /\ ~new.oper[p]
        BY <2>4, <4>1, <4>3, OperBefore DEF new
      <4>5. \E j \in 1 .. Len(w) :
              w[j].op = "observers" /\ \E l \in 1 .. Len(w[j].down) : w[j].down[l] = p
        BY <1>3, <4>4, Zenon DEF TasksFor
      <4> QED BY <4>5, Zenon DEF LossPending, w
    <3>2. CASE i - k \in 1 .. Len(s) /\ s[i - k] = updates[i]
      <4>1. \E j \in 1 .. Len(s) : OperOf(s[j], p) /\ ~s[j].up
        BY <2>4, <3>2, Zenon
      <4> QED BY <4>1, Zenon DEF LossPending, s
    <3> QED BY <1>5, <3>1, <3>2, Zenon
  <2>5. LossPending(p) => LossPending(p)'
    <3>1. Len(work) = 0
      BY <1>2, Zenon, SMT
    <3>2. LossPending(p) => \/ traverse.port = p
                            \/ \E i \in 1 .. Len(updates) : OperOf(updates[i], p) /\ ~updates[i].up
                            \/ \E i \in 1 .. Len(posted) : posted[i] = p
      BY <3>1, SMT, Z3 DEF LossPending
    <3>3. traverse.port = p \/ (\E i \in 1 .. Len(posted) : posted[i] = p) => LossPending(p)'
      BY <1>2, Zenon DEF LossPending
    <3> QED BY <2>4, <3>2, <3>3, Zenon
  <2> QED BY <2>1, <2>3, <2>5, Zenon
<1>11. ReturnInv'
  BY <1>2, <1>10, Zenon DEF ReturnInv
<1> QED BY <1>8, <1>9, <1>11

LEMMA HandleStep ==
  ASSUME IInv, handlePendingUpdates
  PROVE  IInv'
<1>1. PICK k \in 1 .. Len(updates) : Takes(k)
  BY ThreadTakes, Zenon
<1>2. InTraversal'
  BY <1>1, TraversalKept DEF IInv, Takes
<1> QED BY <1>1, <1>2, TakesQueues, TakesPaths, TakesReturn DEF IInv

-----------------------------------------------------------------------------
(* The theorem.                                                            *)

LEMMA InitInv ==
  ASSUME Init
  PROVE  IInv
<1>1. /\ scan = <<>> /\ posted = <<>> /\ updates = <<>> /\ work = <<>>
      /\ IsSequence(<<>>) /\ Len(<<>>) = 0
  BY DEF Init, IsSequence
<1>2. QueuesOK
  BY <1>1 DEF QueuesOK
<1>3. StatesOK
  BY Zenon DEF Init, StatesOK, EntryValues
<1>4. /\ DOMAIN host = {} /\ host = [n \in {} |-> host[n]]
      /\ DOMAIN ecmp = {} /\ ecmp = [g \in {} |-> ecmp[g]]
  <2>1. host = <<>> /\ ecmp = <<>>
    BY Zenon DEF Init
  <2> QED BY <2>1
<1>5. HardwareOK
  BY <1>4, Zenon DEF Init, Idle, HardwareOK
<1>6. CacheInv
  <2>1. ASSUME NEW n \in Neighbors PROVE HasEntryPath(n, updates, state.entry[n], cache[n])
    <3>1. state.entry[n] = "none" /\ cache[n] = "none"
      BY Zenon DEF Init
    <3> DEFINE e == [i \in 0 .. 0 |-> "none"]
    <3>2. e \in [0 .. 0 -> EntryValues(n)] /\ e[0] = "none"
      BY DEF EntryValues
    <3> HIDE DEF e
    <3> QED BY <1>1, <3>1, <3>2 DEF HasEntryPath, EntryPath
  <2> QED BY <2>1, Zenon DEF CacheInv
<1>7. LinkInv
  <2>1. ASSUME NEW p \in Ports
        PROVE  HasOperPath(p, updates, state.oper[p], TRUE) /\ HasScanPath(p, scan, TRUE, link[p])
    <3>1. state.oper[p] = TRUE /\ link[p] = TRUE
      BY DEF Init
    <3> DEFINE f == [i \in 0 .. 0 |-> TRUE]
    <3>2. f \in [0 .. 0 -> BOOLEAN] /\ f[0] = TRUE
      OBVIOUS
    <3> HIDE DEF f
    <3> QED BY <1>1, <3>1, <3>2, SMT, Z3 DEF HasOperPath, OperPath, HasScanPath, ScanPath
  <2> QED BY <2>1, Zenon DEF LinkInv, Init
<1>8. InTraversal
  BY Zenon DEF Init, Idle, InTraversal
<1>9. HostInv
  <2>1. \A n \in Neighbors : EgressPort(n) = "none" /\ Usable(state.entry[n]) = "none"
    BY <1>4, EcmpAssumption, Zenon DEF Init, EgressPort, Usable
  <2> QED BY <2>1, EcmpAssumption, Zenon DEF Init, HostInv
<1>10. WorkInv
  BY <1>1 DEF WorkInv
<1>11. ReturnInv
  BY Zenon DEF Init, ReturnInv
<1> QED BY <1>2, <1>3, <1>5, <1>6, <1>7, <1>8, <1>9, <1>10, <1>11 DEF IInv, TypeInv

(* Every step of every thread keeps the invariant.                         *)
LEMMA NextInv ==
  ASSUME IInv, [Next]_vars
  PROVE  IInv'
<1>1. CASE \E p \in Ports : linkscanCallback(p)
  BY <1>1, LinkChangeStep, Zenon
<1>2. CASE LinkScan
  BY <1>2, LinkUpStep, LinkDownStep, RemoveAllStep, LinkStateStep, Zenon DEF LinkScan
<1>3. CASE \E n \in Neighbors : \/ \E p \in Ports : Answer(n, p)
                                \/ Solicit(n)
                                \/ flushEntry(n)
  BY <1>3, AnswerStep, SolicitStep, FlushStep
<1>4. CASE portDown
  BY <1>4, PortDownStep, Zenon
<1>5. CASE \E g \in Groups : UpdateRoute(g)
  BY <1>5, RouteStep, Zenon
<1>6. CASE UpdateThread
  BY <1>6, HandleStep, HostStep, AddStep, RemoveStep, CreateStep, DestroyStep, NotifyStep
    DEF UpdateThread
<1>7. CASE UNCHANGED vars
  <2>1. UNCHANGED <<link, scan, traverse, cache, posted, updates, state, work, host, resolved,
                    portMap, ecmp>>
    BY <1>7, Zenon DEF vars
  <2>2. QueuesOK'
    BY <2>1, Zenon DEF IInv, TypeInv, QueuesOK
  <2>3. ReturnInv'
    <3>1. \A p \in Ports : LossPending(p) => LossPending(p)'
      BY <2>1, Zenon DEF LossPending
    <3>2. \A n \in Neighbors : ResetPending(n) => ResetPending(n)'
      BY <2>1, Zenon DEF ResetPending
    <3> QED BY <2>1, <3>1, <3>2, ReturnKept, Zenon DEF IInv
  <2> QED BY <2>1, <2>2, <2>3, StatesKept, HardwareKept, CacheKept, LinkKept, TraversalKept,
        HostKept, WorkKept DEF IInv, TypeInv
<1> QED BY <1>1, <1>2, <1>3, <1>4, <1>5, <1>6, <1>7 DEF Next

(* When no thread has anything left to do, nothing is on its way to bring  *)
(* a member back: no member is missing.                                    *)
LEMMA QuietComplete ==
  ASSUME IInv
  PROVE  FixedNeighborsComplete
<1> SUFFICES ASSUME Quiet, NEW n \in Neighbors, Cardinality(NeighborPorts[n]) = 1,
                    NEW g \in DOMAIN ecmp, n \in g, n \in resolved, n \notin ecmp[g]
             PROVE  FALSE
  BY Zenon DEF FixedNeighborsComplete, Complete
<1>1. PICK p : NeighborPorts[n] = {p}
  <2>1. NeighborPorts[n] \in SUBSET Ports
    BY EcmpAssumption, Zenon
  <2>2. IsFiniteSet(NeighborPorts[n])
    BY <2>1, EcmpAssumption, FS_Subset, Zenon
  <2> QED BY <2>2, FS_Singleton, Zenon
<1>2. p \in Ports /\ p # "none"
  BY <1>1, EcmpAssumption, Zenon
<1>3. ToExpand(n, g) \/ LossPending(p) \/ ResetPending(n)
  BY <1>1, <1>2, Zenon DEF IInv, ReturnInv
<1>4. Len(work) = 0 /\ Len(updates) = 0 /\ Len(posted) = 0
  <2>1. Len(<<>>) = 0
    BY Zenon
  <2> QED BY <2>1, Zenon DEF Quiet
<1>5. traverse.port # p
  BY <1>2, SMT, Z3 DEF Quiet, IInv, LinkInv, Idle
<1>6. \A i \in 1 .. 0 : FALSE
  OBVIOUS
<1> QED BY <1>3, <1>4, <1>5, <1>6, Zenon DEF ToExpand, LossPending, ResetPending

\* Whatever the interleaving of the linkscan bottom half, the update thread and
\* the neighbour cache, and however often links go down and come up: when no
\* closure, task, link change or lost port is left, a resolved neighbour that is
\* reached over one port is a member of every group that has it as a next hop.
THEOREM EveryFixedNeighborIsComplete == Spec => []FixedNeighborsComplete
<1>1. Init => IInv
  BY InitInv, Zenon
<1>2. IInv /\ [Next]_vars => IInv'
  BY NextInv, Zenon
<1>3. IInv => FixedNeighborsComplete
  BY QuietComplete
<1> QED BY <1>1, <1>2, <1>3, PTL DEF Spec

=============================================================================
