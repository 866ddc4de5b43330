------------------------- MODULE NeighborTableProofs -------------------------
(***************************************************************************)
(* The table of the SwitchState follows the neighbour cache, for any       *)
(* locations, ports, interfaces and classes, and no closure of the cache   *)
(* fails, while the configuration does not change.                         *)
(*                                                                         *)
(* The cache runs ahead of the table: each closure in the queue repeats    *)
(* one change of the entry, and the update thread runs them in batches.    *)
(* So the invariant is about the table as the closures that wait would     *)
(* leave it (SteadyInv): its node is where the cache's entry is, in its    *)
(* class (Matches).  A function or packet that changes the entry queues    *)
(* the closure that repeats the change (Follows); a batch takes the first  *)
(* closures off the queue, and what the others leave is unchanged.         *)
(***************************************************************************)
EXTENDS NeighborCacheProofs, WellFoundedInduction

-----------------------------------------------------------------------------
(* While the configuration does not change, the table follows the cache.   *)

\* The interface that the first configuration gives the VLAN.
TheInterface == CHOOSE i \in Interfaces : TRUE

IsFields(f) ==
  /\ f = [loc |-> f.loc, intf |-> f.intf, pending |-> f.pending, cls |-> f.cls]
  /\ IsFlag(f.pending)

GoodNode(n) == n = NoNode \/ (IsFields(n) /\ n.intf = TheInterface)

GoodConfig(c) ==
  /\ c = [vlan |-> c.vlan, intf |-> c.intf, subnet |-> c.subnet, up |-> c.up]
  /\ c.vlan = TRUE /\ c.subnet = TRUE /\ c.intf = TheInterface

\* A SwitchState in which no closure fails.
GoodState(s) ==
  /\ s = [config |-> s.config, node |-> s.node, died |-> s.died]
  /\ GoodConfig(s.config) /\ GoodNode(s.node) /\ s.died = FALSE

\* The fields of an entry: it is pending while it has no location.
GoodFields(f) ==
  /\ IsFields(f) /\ f.intf = TheInterface
  /\ f.pending <=> f.loc = NoLocation

\* Node n is where entry e of the cache is, and in its class.
Matches(e, n) ==
  \/ e = NoEntry /\ n = NoNode
  \/ /\ e # NoEntry /\ GoodFields(e.fields)
     /\ IsFields(n) /\ n.intf = TheInterface
     /\ n.loc = e.fields.loc /\ n.cls = e.fields.cls

SteadyClosure(u) ==
  \/ u.op \in {"program", "programPending"} /\ IsFields(u.fields) /\ u.fields.intf = TheInterface
  \/ u.op \in {"remove", "class", "port"}

LEMMA NodeTypes ==
  /\ TheInterface \in Interfaces /\ TheInterface # 0
  /\ IsFields(NoNode) /\ NoNode.intf = 0 /\ NoNode.loc = NoLocation
  /\ NoNode.cls = NoClass /\ NoNode.pending = FALSE
  /\ NoEntry.fields = NoNode /\ NoEntry.state = "UNINITIALIZED"
<1>1. TheInterface \in Interfaces /\ TheInterface # 0
  BY NeighborAssumption DEF TheInterface
<1>2. IsFields(NoNode) /\ NoNode.intf = 0 /\ NoNode.loc = NoLocation
      /\ NoNode.cls = NoClass /\ NoNode.pending = FALSE
  BY DEF NoNode, IsFields, IsFlag
<1>3. NoEntry.fields = NoNode /\ NoEntry.state = "UNINITIALIZED"
  BY DEF NoEntry
<1> QED BY <1>1, <1>2, <1>3

LEMMA PendingExcept ==
  ASSUME NEW f, IsFields(f)
  PROVE  [f EXCEPT !.pending = FALSE]
           = [loc |-> f.loc, intf |-> f.intf, pending |-> FALSE, cls |-> f.cls]
<1>1. ASSUME NEW y
      PROVE  [f EXCEPT !.pending = y]
               = [loc |-> f.loc, intf |-> f.intf, pending |-> y, cls |-> f.cls]
  BY DEF IsFields
<1> QED BY <1>1, Zenon

LEMMA FieldsExcept ==
  ASSUME NEW f, IsFields(f), NEW x, NEW y, NEW g
  PROVE  /\ g = [f EXCEPT !.cls = x] =>
              g = [loc |-> f.loc, intf |-> f.intf, pending |-> f.pending, cls |-> x]
         /\ g = [f EXCEPT !.cls = x, !.pending = y] =>
              g = [loc |-> f.loc, intf |-> f.intf, pending |-> y, cls |-> x]
<1>1. f = [loc |-> f.loc, intf |-> f.intf, pending |-> f.pending, cls |-> f.cls]
  BY DEF IsFields
<1>2. ASSUME g = [f EXCEPT !.cls = x]
      PROVE  g = [loc |-> f.loc, intf |-> f.intf, pending |-> f.pending, cls |-> x]
  BY <1>1, <1>2
<1>3. ASSUME g = [f EXCEPT !.cls = x, !.pending = y]
      PROVE  g = [loc |-> f.loc, intf |-> f.intf, pending |-> y, cls |-> x]
  <2> DEFINE h == [f EXCEPT !.cls = x]
  <2>1. h = [loc |-> f.loc, intf |-> f.intf, pending |-> f.pending, cls |-> x]
    BY <1>1
  <2>2. g = [h EXCEPT !.pending = y]
    BY <1>3
  <2> HIDE DEF h
  <2> QED BY <2>1, <2>2
<1> QED BY <1>2, <1>3, Zenon

\* The closures leave a state in which the next one does not fail.
LEMMA ClosureKeepsState ==
  ASSUME NEW s, GoodState(s), NEW u, SteadyClosure(u)
  PROVE  /\ GoodState(applyUpdate(s, u))
         /\ u.op = "program" =>
              \/ applyUpdate(s, u).node = u.fields
              \/ u.fields = [s.node EXCEPT !.cls = NoClass] /\ applyUpdate(s, u).node = s.node
         /\ u.op = "programPending" =>
              applyUpdate(s, u).node = IF s.node = NoNode \/ u.force THEN u.fields ELSE s.node
         /\ u.op = "remove" => applyUpdate(s, u).node = NoNode
         /\ u.op = "class" =>
              applyUpdate(s, u).node = IF s.node = NoNode THEN NoNode
                                       ELSE [s.node EXCEPT !.cls = u.cls, !.pending = FALSE]
         /\ u.op = "port" => applyUpdate(s, u).node = s.node
<1> DEFINE t == applyUpdate(s, u)
<1>1. /\ s = [config |-> s.config, node |-> s.node, died |-> s.died]
      /\ s.config = [vlan |-> s.config.vlan, intf |-> s.config.intf, subnet |-> s.config.subnet,
                     up |-> s.config.up]
      /\ GoodNode(s.node) /\ GoodConfig(s.config) /\ s.died = FALSE
  BY DEF GoodState, GoodConfig
<1>2. s.config.vlan = TRUE /\ s.config.subnet = TRUE /\ s.config.intf = TheInterface
  BY <1>1 DEF GoodConfig
<1>3. ASSUME NEW n, GoodNode(n), NEW x, x = [s EXCEPT !.node = n]
      PROVE  GoodState(x) /\ x.node = n
  <2>1. x = [config |-> s.config, node |-> n, died |-> s.died]
    BY <1>1, <1>3
  <2>2. x.config = s.config /\ x.node = n /\ x.died = s.died
    BY <2>1
  <2> QED BY <1>1, <1>3, <2>1, <2>2 DEF GoodState
<1>4. CASE u.op = "program"
  <2>1. t = programEntry(s, u) /\ IsFields(u.fields) /\ u.fields.intf = TheInterface
    BY <1>4 DEF applyUpdate, SteadyClosure
  <2>2. t = IF u.fields # [s.node EXCEPT !.cls = NoClass] THEN [s EXCEPT !.node = u.fields] ELSE s
    BY <1>2, <2>1 DEF programEntry, checkVlanAndIntf
  <2>3. GoodNode(u.fields)
    BY <2>1 DEF GoodNode
  <2> HIDE DEF t
  <2>4. CASE u.fields # [s.node EXCEPT !.cls = NoClass]
    <3>1. t = [s EXCEPT !.node = u.fields]
      BY <2>2, <2>4, Zenon
    <3>2. GoodState(t) /\ t.node = u.fields
      BY <1>3, <2>3, <3>1
    <3> QED BY <1>4, <2>4, <3>2 DEF t
  <2>5. CASE u.fields = [s.node EXCEPT !.cls = NoClass]
    <3>1. t = s
      BY <2>2, <2>5
    <3> QED BY <1>4, <2>5, <3>1 DEF t
  <2> QED BY <2>4, <2>5
<1>5. CASE u.op = "programPending"
  <2>1. t = programPendingEntry(s, u) /\ IsFields(u.fields) /\ u.fields.intf = TheInterface
    BY <1>5 DEF applyUpdate, SteadyClosure
  <2>2. t = IF s.node = NoNode \/ u.force THEN [s EXCEPT !.node = u.fields] ELSE s
    BY <1>2, <2>1 DEF programPendingEntry, checkVlanAndIntf
  <2>3. GoodNode(u.fields)
    BY <2>1 DEF GoodNode
  <2> HIDE DEF t
  <2>4. CASE s.node = NoNode \/ u.force
    <3>1. t = [s EXCEPT !.node = u.fields]
      BY <2>2, <2>4, Zenon
    <3>2. GoodState(t) /\ t.node = u.fields
      BY <1>3, <2>3, <3>1
    <3> QED BY <1>5, <2>4, <3>2 DEF t
  <2>5. CASE ~(s.node = NoNode \/ u.force)
    <3>1. t = s
      BY <2>2, <2>5
    <3> QED BY <1>5, <2>5, <3>1 DEF t
  <2> QED BY <2>4, <2>5
<1>6. CASE u.op = "remove"
  <2>1. t = [s EXCEPT !.node = NoNode]
    BY <1>2, <1>6 DEF applyUpdate, flushEntryFromSwitchState
  <2>2. GoodNode(NoNode)
    BY DEF GoodNode
  <2> HIDE DEF t
  <2>3. GoodState(t) /\ t.node = NoNode
    BY <1>3, <2>1, <2>2
  <2> QED BY <1>6, <2>3 DEF t
<1>7. CASE u.op = "class"
  <2> DEFINE n == [s.node EXCEPT !.cls = u.cls, !.pending = FALSE]
  <2>1. t = IF s.node = NoNode THEN s ELSE [s EXCEPT !.node.cls = u.cls, !.node.pending = FALSE]
    BY <1>2, <1>7 DEF applyUpdate, updateClassIDFn
  <2>2. CASE s.node = NoNode
    BY <1>7, <2>1, <2>2
  <2>3. CASE s.node # NoNode
    <3>1. t = [s EXCEPT !.node = n]
      BY <1>1, <2>1, <2>3, Zenon
    <3>2. IsFields(s.node) /\ s.node.intf = TheInterface
      BY <1>1, <2>3 DEF GoodNode
    <3>n. n = [s.node EXCEPT !.cls = u.cls, !.pending = FALSE]
      OBVIOUS
    <3> HIDE DEF n, t
    <3>3. n = [loc |-> s.node.loc, intf |-> s.node.intf, pending |-> FALSE, cls |-> u.cls]
      BY <3>2, <3>n, FieldsExcept, Zenon, SMT
    <3>4. GoodNode(n)
      BY <3>2, <3>3, Zenon DEF GoodNode, IsFields, IsFlag
    <3>5. GoodState(t) /\ t.node = n
      BY <1>3, <3>1, <3>4
    <3> QED BY <1>7, <2>3, <3>5, <3>n DEF t
  <2> QED BY <2>2, <2>3
<1>8. CASE u.op = "port"
  <2> DEFINE up == [s.config.up EXCEPT ![u.port] = u.up]
             c == [s.config EXCEPT !.up = up]
  <2>1. t = [s EXCEPT !.config.up[u.port] = u.up]
    BY <1>8 DEF applyUpdate, setOperState
  <2>2. t = [s EXCEPT !.config = c]
    BY <2>1
  <2> HIDE DEF up
  <2>3. c = [vlan |-> s.config.vlan, intf |-> s.config.intf, subnet |-> s.config.subnet, up |-> up]
    BY <1>1
  <2> HIDE DEF t, c
  <2>4. t = [config |-> c, node |-> s.node, died |-> s.died]
    BY <1>1, <2>2
  <2>5. c.vlan = s.config.vlan /\ c.intf = s.config.intf /\ c.subnet = s.config.subnet /\ c.up = up
    BY <2>3
  <2>c. GoodConfig(c)
    BY <1>2, <2>3, <2>5 DEF GoodConfig
  <2>6. t.config = c /\ t.node = s.node /\ t.died = s.died
    BY <2>4
  <2>7. GoodState(t)
    BY <1>1, <2>4, <2>c, <2>6 DEF GoodState
  <2> QED BY <1>8, <2>6, <2>7 DEF t
<1> QED BY <1>4, <1>5, <1>6, <1>7, <1>8 DEF SteadyClosure

LEMMA ClosureGood ==
  ASSUME NEW s, GoodState(s), NEW u, SteadyClosure(u)
  PROVE  GoodState(applyUpdate(s, u))
  BY ClosureKeepsState, Zenon

LEMMA ProgramNode ==
  ASSUME NEW s, GoodState(s), NEW u, SteadyClosure(u), u.op = "program", NEW f, u.fields = f,
         f # [s.node EXCEPT !.cls = NoClass]
  PROVE  applyUpdate(s, u).node = f
<1>1. u.fields # [s.node EXCEPT !.cls = NoClass]
  OBVIOUS
<1>2. applyUpdate(s, u).node = u.fields
  BY <1>1, ClosureKeepsState, Zenon
<1> QED BY <1>2

LEMMA ProgramPendingNode ==
  ASSUME NEW s, GoodState(s), NEW u, SteadyClosure(u), u.op = "programPending", NEW f,
         u.fields = f, s.node = NoNode \/ u.force
  PROVE  applyUpdate(s, u).node = f
<1>1. applyUpdate(s, u).node = IF s.node = NoNode \/ u.force THEN u.fields ELSE s.node
  BY ClosureKeepsState, Zenon
<1> QED BY <1>1

\* The entry keeps its fields, whatever becomes of its state.
Keeps(e, f) ==
  EntryShape(f) /\ f.fields = e.fields /\ f.state # "UNINITIALIZED"

LEMMA RunKeeps ==
  ASSUME NEW e, EntryShape(e), NEW hit \in BOOLEAN
  PROVE  Keeps(e, runStateMachine(e, hit))
<1>1. ASSUME NEW g, EntryShape(g), g.fields = e.fields, g.state # "UNINITIALIZED"
      PROVE  Keeps(e, probeIfProbesLeft(g))
  <2> DEFINE f == probeIfProbesLeft(g)
  <2>0. g = [fields |-> g.fields, state |-> g.state, probesLeft |-> g.probesLeft,
             timer |-> g.timer, sent |-> g.sent] /\ g.timer \in BOOLEAN
    BY <1>1 DEF EntryShape
  <2>1. CASE g.probesLeft > 0
    <3>1. f = [fields |-> g.fields, state |-> g.state, probesLeft |-> g.probesLeft - 1,
               timer |-> g.timer, sent |-> g.sent + 1]
      BY <2>0, <2>1, Zenon DEF probeIfProbesLeft
    <3> HIDE DEF f
    <3>2. /\ f.fields = g.fields /\ f.state = g.state /\ f.probesLeft = g.probesLeft - 1
          /\ f.timer = g.timer /\ f.sent = g.sent + 1
      BY <3>1
    <3>3. EntryShape(f)
      BY <2>0, <3>1, <3>2 DEF EntryShape
    <3> QED BY <1>1, <3>2, <3>3 DEF Keeps, f
  <2>2. CASE ~(g.probesLeft > 0)
    <3>1. f = [fields |-> g.fields, state |-> "EXPIRED", probesLeft |-> g.probesLeft,
               timer |-> g.timer, sent |-> g.sent]
      BY <2>0, <2>2, Zenon DEF probeIfProbesLeft
    <3> HIDE DEF f
    <3>2. EntryShape(f) /\ f.fields = g.fields /\ f.state = "EXPIRED"
      BY <2>0, <3>1 DEF EntryShape
    <3> QED BY <1>1, <3>2 DEF Keeps, f
  <2> QED BY <2>1, <2>2
<1>2. CASE e.state \in {"INCOMPLETE", "PROBE"}
  <2>1. runStateMachine(e, hit) = probeIfProbesLeft(e)
    BY <1>2 DEF runStateMachine
  <2> QED BY <1>1, <1>2, <2>1
<1>3. CASE e.state \notin {"INCOMPLETE", "PROBE"}
  <2> DEFINE s == [e EXCEPT !.state = "STALE"]
             p == [s EXCEPT !.state = "PROBE"]
  <2>1. runStateMachine(e, hit) = IF hit THEN probeIfProbesLeft(p) ELSE s
    BY <1>3 DEF runStateMachine, probeStaleEntryIfHit
  <2>2. s = [fields |-> e.fields, state |-> "STALE", probesLeft |-> e.probesLeft,
             timer |-> e.timer, sent |-> e.sent]
    BY DEF EntryShape
  <2>p. p = [s EXCEPT !.state = "PROBE"]
    OBVIOUS
  <2> HIDE DEF s, p
  <2>3. p = [fields |-> e.fields, state |-> "PROBE", probesLeft |-> e.probesLeft,
             timer |-> e.timer, sent |-> e.sent]
    BY <2>2, <2>p
  <2>4. EntryShape(s) /\ s.fields = e.fields /\ s.state = "STALE"
    BY <2>2 DEF EntryShape
  <2>5. EntryShape(p) /\ p.fields = e.fields /\ p.state = "PROBE"
    BY <2>3 DEF EntryShape
  <2>6. CASE hit
    BY <1>1, <2>1, <2>5, <2>6
  <2>7. CASE ~hit
    BY <2>1, <2>4, <2>7 DEF Keeps
  <2> QED BY <2>6, <2>7
<1> QED BY <1>2, <1>3

LEMMA EnterKeeps ==
  ASSUME NEW e, EntryShape(e), NEW state \in {"INCOMPLETE", "STALE", "REACHABLE"},
         NEW hit \in BOOLEAN
  PROVE  Keeps(e, enter(e, state, hit))
<1> DEFINE probes == uint8(IF state = "INCOMPLETE" THEN maxNeighborProbes - 1
                                                   ELSE maxNeighborProbes)
           first == IF state = "INCOMPLETE" THEN 1 ELSE 0
           g == [e EXCEPT !.state = state, !.probesLeft = probes, !.sent = first]
           f == enter(e, state, hit)
<1>1. f = IF state = "STALE" THEN runStateMachine(g, hit) ELSE g
  BY DEF enter
<1>g. g = [e EXCEPT !.state = state, !.probesLeft = probes, !.sent = first]
  OBVIOUS
<1> HIDE DEF probes, first, g, f
<1>2. g = [fields |-> e.fields, state |-> state, probesLeft |-> probes,
           timer |-> e.timer, sent |-> first]
  BY <1>g, Zenon DEF EntryShape
<1>3. /\ g.fields = e.fields /\ g.state = state /\ g.probesLeft = probes
      /\ g.timer = e.timer /\ g.sent = first
  BY <1>2
<1>4. EntryShape(g)
  BY <1>2, <1>3 DEF EntryShape
<1>5. Keeps(e, g) /\ Keeps(g, runStateMachine(g, hit))
  BY <1>3, <1>4, RunKeeps DEF Keeps
<1> QED BY <1>1, <1>3, <1>5 DEF Keeps, f

LEMMA ScheduleKeeps ==
  ASSUME NEW e, EntryShape(e)
  PROVE  LET f == scheduleNextUpdate(e)
         IN EntryShape(f) /\ f.fields = e.fields /\ f.state = e.state /\ f # NoEntry
<1> DEFINE b == e.timer \/ e.state # "EXPIRED"
           f == scheduleNextUpdate(e)
<1>1. f = [e EXCEPT !.timer = b] /\ b \in BOOLEAN
  BY DEF scheduleNextUpdate
<1>b. b \/ e.state = "EXPIRED"
  OBVIOUS
<1> HIDE DEF b, f
<1>2. f = [fields |-> e.fields, state |-> e.state, probesLeft |-> e.probesLeft,
           timer |-> b, sent |-> e.sent]
  BY <1>1, Zenon DEF EntryShape
<1>3. /\ f.fields = e.fields /\ f.state = e.state /\ f.probesLeft = e.probesLeft
      /\ f.timer = b /\ f.sent = e.sent
  BY <1>2
<1>4. EntryShape(f)
  BY <1>1, <1>2, <1>3 DEF EntryShape
<1>5. f # NoEntry
  BY <1>1, <1>b, <1>3 DEF NoEntry
<1> QED BY <1>3, <1>4, <1>5 DEF f

LEMMA ProcessKeeps ==
  ASSUME NEW e, EntryShape(e), NEW hit \in BOOLEAN
  PROVE  Keeps(e, process(e, hit))
<1> DEFINE a == [e EXCEPT !.timer = FALSE]
           b == runStateMachine(a, hit)
<1>1. process(e, hit) = scheduleNextUpdate(b)
  BY DEF process
<1>a. a = [e EXCEPT !.timer = FALSE]
  OBVIOUS
<1> HIDE DEF a
<1>2. a = [fields |-> e.fields, state |-> e.state, probesLeft |-> e.probesLeft,
           timer |-> FALSE, sent |-> e.sent]
  BY <1>a, Zenon DEF EntryShape
<1>3. EntryShape(a) /\ a.fields = e.fields /\ a.state = e.state
  BY <1>2 DEF EntryShape
<1>4. Keeps(a, b)
  BY <1>3, RunKeeps
<1> HIDE DEF b
<1> QED BY <1>1, <1>3, <1>4, ScheduleKeeps DEF Keeps

-----------------------------------------------------------------------------
(* Each function queues the closure that repeats its change of the entry.  *)

SameCache(w, v) ==
  /\ Shaped(v) /\ v.cache.exists = w.cache.exists /\ v.cache.intf = w.cache.intf
  /\ Later(w.posted, v.posted)

\* Closure u takes a node that matches entry e to one that matches entry f.
Repeats(e, f, u) ==
  \A s : GoodState(s) /\ Matches(e, s.node) => Matches(f, applyUpdate(s, u).node)

\* A function that sets a timeout is posted for an entry that is there.
Owned(w) == Scheduled(w.posted) => w.cache.entry # NoEntry

Follows(w, v) ==
  /\ SameCache(w, v) /\ (Owned(w) => Owned(v))
  /\ \/ /\ v.updates = w.updates
        /\ \A n : Matches(w.cache.entry, n) => Matches(v.cache.entry, n)
     \/ \E u : /\ SteadyClosure(u) /\ v.updates = Append(w.updates, u)
               /\ Repeats(w.cache.entry, v.cache.entry, u)

LEMMA BuiltFields ==
  ASSUME NEW intf, NEW f, NEW exists, NEW p, NEW us, NEW blocked, NEW v,
         Built(v, intf, f, exists, p, us, blocked)
  PROVE  /\ v.cache.intf = intf /\ v.cache.entry = f /\ v.cache.exists = exists
         /\ v.posted = p /\ v.updates = us /\ v.waiting = blocked
  BY DEF Built

LEMMA QueueBuilt ==
  ASSUME NEW intf, NEW f, NEW exists, NEW p, NEW us, NEW blocked, NEW v,
         Built(v, intf, f, exists, p, us, blocked), NEW u
  PROVE  Built(Queue(v, u), intf, f, exists, p, Append(us, u), blocked)
<1> DEFINE c == [intf |-> intf, entry |-> f, exists |-> exists]
<1>1. v = [cache |-> c, posted |-> p, updates |-> us, waiting |-> blocked]
  BY DEF Built
<1> HIDE DEF c
<1>2. Queue(v, u) = [cache |-> c, posted |-> p, updates |-> Append(us, u), waiting |-> blocked]
  BY <1>1, SMTT(20) DEF Queue
<1> QED BY <1>2 DEF Built, c

LEMMA NothingFollows ==
  ASSUME NEW w, Shaped(w)
  PROVE  Follows(w, w)
  BY LaterSame DEF Follows, SameCache, Shaped

\* A world built from w with another entry and other functions waiting.
LEMMA BuiltSame ==
  ASSUME NEW w, Shaped(w), NEW f, EntryShape(f), NEW p, Later(w.posted, p), NEW us, NEW blocked,
         NEW v, Built(v, w.cache.intf, f, w.cache.exists, p, us, blocked)
  PROVE  SameCache(w, v) /\ v.cache.entry = f /\ v.updates = us /\ v.posted = p
<1>1. IsFlag(w.cache.exists) /\ IsSequence(p)
  BY DEF Shaped, Later
<1>2. Shaped(v)
  BY <1>1, BuiltShaped
<1> QED BY <1>2, BuiltFields DEF SameCache

\* updateState() with the fields that the entry is to have.
Entered(w, v, fields) ==
  \E f : /\ Built(v, w.cache.intf, f, w.cache.exists, Append(w.posted, Schedule), w.updates, w.waiting)
         /\ EntryShape(f) /\ f.fields = fields /\ f.state # "UNINITIALIZED"

LEMMA UpdateStateEntered ==
  ASSUME NEW w, Shaped(w), NEW state \in {"INCOMPLETE", "STALE", "REACHABLE"},
         NEW hit \in BOOLEAN
  PROVE  Entered(w, updateState(w, state, hit), w.cache.entry.fields)
<1> DEFINE f == enter(w.cache.entry, state, hit)
           p == Append(w.posted, Schedule)
           v == updateState(w, state, hit)
<1>1. v = [w EXCEPT !.cache.entry = f, !.posted = p]
  BY Zenon DEF updateState
<1>2. Keeps(w.cache.entry, f)
  BY EnterKeeps DEF Shaped
<1> HIDE DEF f, p, v
<1>3. Built(v, w.cache.intf, f, w.cache.exists, p, w.updates, w.waiting)
  BY <1>1, Zenon DEF Shaped, Built
<1> QED BY <1>2, <1>3, Zenon DEF Entered, Keeps, p, v

LEMMA SetInternalEntered ==
  ASSUME NEW w, Shaped(w), NEW fields, NEW state \in {"INCOMPLETE", "STALE", "REACHABLE"},
         NEW hit \in BOOLEAN
  PROVE  Entered(w, setEntryInternal(w, fields, state, hit),
                 IF Changed(w, fields) THEN fields ELSE w.cache.entry.fields)
<1> DEFINE e == [w.cache.entry EXCEPT !.fields = fields]
           g == [w EXCEPT !.cache.entry.fields = fields]
<1>1. setEntryInternal(w, fields, state, hit)
        = updateState(IF Changed(w, fields) THEN g ELSE w, state, hit)
  BY DEF setEntryInternal
<1>2. CASE Changed(w, fields)
  <2>1. g = [w EXCEPT !.cache.entry = e]
    OBVIOUS
  <2>2. e = [fields |-> fields, state |-> w.cache.entry.state,
             probesLeft |-> w.cache.entry.probesLeft, timer |-> w.cache.entry.timer,
             sent |-> w.cache.entry.sent]
    BY DEF Shaped, EntryShape
  <2> HIDE DEF e, g
  <2>3. EntryShape(e) /\ e.fields = fields
    BY <2>2 DEF Shaped, EntryShape
  <2>4. Built(g, w.cache.intf, e, w.cache.exists, w.posted, w.updates, w.waiting)
    BY <2>1, Zenon DEF Shaped, Built
  <2>5. /\ g.cache.intf = w.cache.intf /\ g.cache.entry = e /\ g.cache.exists = w.cache.exists
        /\ g.posted = w.posted /\ g.updates = w.updates /\ g.waiting = w.waiting
    BY <2>4, BuiltFields
  <2>6. Shaped(g)
    BY <2>3, <2>4, BuiltShaped DEF Shaped
  <2>7. Entered(g, updateState(g, state, hit), g.cache.entry.fields)
    BY <2>6, UpdateStateEntered
  <2>8. Entered(w, updateState(g, state, hit), fields)
    BY <2>3, <2>5, <2>7, Zenon DEF Entered
  <2> QED BY <1>1, <1>2, <2>8
<1>3. CASE ~Changed(w, fields)
  BY <1>1, <1>3, UpdateStateEntered
<1> QED BY <1>2, <1>3

LEMMA EnteredSame ==
  ASSUME NEW w, Shaped(w), NEW v, NEW fields, Entered(w, v, fields), NEW u
  PROVE  /\ SameCache(w, v) /\ v.updates = w.updates
         /\ v.cache.entry # NoEntry /\ v.cache.entry.fields = fields
         /\ SameCache(w, Queue(v, u)) /\ Queue(v, u).updates = Append(w.updates, u)
         /\ Queue(v, u).cache.entry = v.cache.entry
<1> DEFINE p == Append(w.posted, Schedule)
<1>1. PICK f : /\ Built(v, w.cache.intf, f, w.cache.exists, p, w.updates, w.waiting)
               /\ EntryShape(f) /\ f.fields = fields /\ f.state # "UNINITIALIZED"
  BY Zenon DEF Entered
<1>2. IsSequence(w.posted) /\ Len(w.posted) \in Nat
  BY DEF Shaped, IsSequence
<1>3. /\ IsSequence(p) /\ Len(p) = Len(w.posted) + 1
      /\ \A i \in 1 .. Len(w.posted) : p[i] = w.posted[i]
      /\ p[Len(w.posted) + 1] = Schedule
  BY <1>2, AppendSequence
<1> HIDE DEF p
<1>4. Later(w.posted, p)
  BY <1>2, <1>3 DEF Later
<1>5. f # NoEntry
  BY <1>1, NodeTypes
<1>6. SameCache(w, v) /\ v.cache.entry = f /\ v.updates = w.updates
  BY <1>1, <1>4, BuiltSame
<1> DEFINE q == Queue(v, u)
           us == Append(w.updates, u)
<1>7. Built(q, w.cache.intf, f, w.cache.exists, p, us, w.waiting)
  BY <1>1, QueueBuilt, Zenon
<1> HIDE DEF q, us
<1>8. SameCache(w, q) /\ q.cache.entry = f /\ q.updates = us
  BY <1>1, <1>4, <1>7, BuiltSame
<1> QED BY <1>1, <1>5, <1>6, <1>8 DEF q, us

\* An entry with the same fields matches the same nodes.
LEMMA MatchesSame ==
  ASSUME NEW e, e # NoEntry, NEW f, f # NoEntry, f.fields = e.fields
  PROVE  \A n : Matches(e, n) => Matches(f, n)
  BY DEF Matches

LEMMA SetEntryFollows ==
  ASSUME NEW w, Shaped(w), w.cache.intf = TheInterface, NEW loc \in Locations,
         NEW state \in {"INCOMPLETE", "STALE", "REACHABLE"}, NEW hit \in BOOLEAN
  PROVE  Follows(w, setEntry(w, loc, state, hit))
<1> DEFINE fields == Fields(loc, w.cache.intf)
           v == setEntryInternal(w, fields, state, hit)
           u == [op |-> "program", fields |-> fields]
           e == w.cache.entry
<1>1. setEntry(w, loc, state, hit) = IF Changed(w, fields) THEN Queue(v, u) ELSE v
  BY DEF setEntry
<1>2. fields = [loc |-> loc, intf |-> TheInterface, pending |-> FALSE, cls |-> NoClass]
  BY DEF Fields
<1>3. u.op = "program" /\ u.fields = fields
  OBVIOUS
<1>4. Entered(w, v, IF Changed(w, fields) THEN fields ELSE e.fields)
  BY SetInternalEntered
<1>5. Changed(w, fields) <=> (e = NoEntry \/ [e.fields EXCEPT !.cls = NoClass] # [fields EXCEPT !.cls = NoClass])
  BY DEF Changed, fieldsMatch
<1> HIDE DEF fields, v, u, e
<1>6. /\ fields.loc = loc /\ fields.intf = TheInterface /\ fields.pending = FALSE
      /\ fields.cls = NoClass /\ loc # NoLocation
  BY <1>2, NeighborAssumption
<1>7. IsFields(fields) /\ GoodFields(fields)
  BY <1>2, <1>6 DEF IsFields, GoodFields, IsFlag
<1>f. [fields EXCEPT !.cls = NoClass] = fields
  <2>1. [fields EXCEPT !.cls = NoClass]
          = [loc |-> fields.loc, intf |-> fields.intf, pending |-> fields.pending, cls |-> NoClass]
    BY <1>7, FieldsExcept, Zenon
  <2> QED BY <1>6, <1>7, <2>1 DEF IsFields
<1>8. CASE Changed(w, fields)
  <2> DEFINE x == Queue(v, u)
  <2>1. /\ SameCache(w, x) /\ x.updates = Append(w.updates, u)
        /\ x.cache.entry # NoEntry /\ x.cache.entry.fields = fields
    BY <1>4, <1>8, EnteredSame
  <2>2. SteadyClosure(u)
    BY <1>3, <1>6, <1>7 DEF SteadyClosure
  <2> HIDE DEF x
  <2>3. ASSUME NEW s, GoodState(s), Matches(e, s.node)
        PROVE  Matches(x.cache.entry, applyUpdate(s, u).node)
    <3> DEFINE n == applyUpdate(s, u).node
    <3>2. fields # [s.node EXCEPT !.cls = NoClass]
      <4> SUFFICES ASSUME fields = [s.node EXCEPT !.cls = NoClass] PROVE FALSE
        OBVIOUS
      <4>1. IsFields(s.node)
        BY <2>3, NodeTypes DEF Matches
      <4>2. s.node.loc = loc /\ s.node.intf = TheInterface /\ s.node.pending = FALSE
        BY <1>6, <4>1 DEF IsFields
      <4>3. /\ e # NoEntry /\ GoodFields(e.fields) /\ e.fields.loc = loc
        BY <1>6, <2>3, <4>2, NodeTypes DEF Matches
      <4>4. /\ IsFields(e.fields) /\ e.fields.intf = TheInterface /\ e.fields.pending = FALSE
        BY <1>6, <4>3 DEF GoodFields, IsFields, IsFlag
      <4>5. [e.fields EXCEPT !.cls = NoClass]
              = [loc |-> e.fields.loc, intf |-> e.fields.intf, pending |-> e.fields.pending,
                 cls |-> NoClass]
        BY <4>4, FieldsExcept, Zenon
      <4> QED BY <1>2, <1>5, <1>8, <1>f, <4>3, <4>4, <4>5, Zenon
    <3>3. n = fields
      BY <1>3, <2>2, <2>3, <3>2, ProgramNode, Zenon
    <3> HIDE DEF n
    <3>4. Matches(x.cache.entry, n)
      BY <1>6, <1>7, <2>1, <3>3 DEF Matches
    <3> QED BY <3>4 DEF n
  <2>4. Repeats(e, x.cache.entry, u)
    BY <2>3, Zenon DEF Repeats
  <2>5. Follows(w, x)
    BY <2>1, <2>2, <2>4, Zenon DEF Follows, Owned, e
  <2> QED BY <1>1, <1>8, <2>5, Zenon DEF x
<1>9. CASE ~Changed(w, fields)
  <2>1. e # NoEntry
    BY <1>5, <1>9, Zenon
  <2>2. /\ SameCache(w, v) /\ v.updates = w.updates
        /\ v.cache.entry # NoEntry /\ v.cache.entry.fields = e.fields
    BY <1>4, <1>9, EnteredSame
  <2>3. Follows(w, v)
    BY <2>1, <2>2, MatchesSame, Zenon DEF Follows, Owned, e
  <2> QED BY <1>1, <1>9, <2>3
<1> QED BY <1>8, <1>9

LEMMA SetPendingFollows ==
  ASSUME NEW w, Shaped(w), w.cache.intf = TheInterface, NEW force \in BOOLEAN,
         NEW hit \in BOOLEAN
  PROVE  Follows(w, setPendingEntry(w, force, hit))
<1> DEFINE fields == PendingFields(w.cache.intf)
           v == setEntryInternal(w, fields, "INCOMPLETE", hit)
           u == [op |-> "programPending", fields |-> fields, force |-> force]
           e == w.cache.entry
<1>1. setPendingEntry(w, force, hit)
        = IF ~force /\ e # NoEntry THEN w ELSE IF Changed(w, fields) THEN Queue(v, u) ELSE v
  BY DEF setPendingEntry
<1>2. fields = [loc |-> NoLocation, intf |-> TheInterface, pending |-> TRUE, cls |-> NoClass]
  BY DEF PendingFields
<1>3. u.op = "programPending" /\ u.fields = fields /\ u.force = force
  OBVIOUS
<1>4. Entered(w, v, IF Changed(w, fields) THEN fields ELSE e.fields)
  BY SetInternalEntered
<1>5. e = NoEntry => Changed(w, fields)
  BY DEF Changed
<1> HIDE DEF fields, v, u, e
<1>6. /\ fields.loc = NoLocation /\ fields.intf = TheInterface /\ fields.pending = TRUE
      /\ fields.cls = NoClass
  BY <1>2
<1>7. IsFields(fields) /\ GoodFields(fields)
  BY <1>2, <1>6 DEF IsFields, GoodFields, IsFlag
<1>8. CASE ~force /\ e # NoEntry
  BY <1>1, <1>8, NothingFollows
<1>9. CASE ~(~force /\ e # NoEntry) /\ Changed(w, fields)
  <2> DEFINE x == Queue(v, u)
  <2>1. /\ SameCache(w, x) /\ x.updates = Append(w.updates, u)
        /\ x.cache.entry # NoEntry /\ x.cache.entry.fields = fields
    BY <1>4, <1>9, EnteredSame
  <2>2. SteadyClosure(u)
    BY <1>3, <1>6, <1>7 DEF SteadyClosure
  <2> HIDE DEF x
  <2>3. ASSUME NEW s, GoodState(s), Matches(e, s.node)
        PROVE  Matches(x.cache.entry, applyUpdate(s, u).node)
    <3> DEFINE n == applyUpdate(s, u).node
    <3>2. s.node = NoNode \/ force
      BY <1>9, <2>3 DEF Matches
    <3>3. n = fields
      BY <1>3, <2>2, <2>3, <3>2, ProgramPendingNode, Zenon
    <3> HIDE DEF n
    <3>4. Matches(x.cache.entry, n)
      BY <1>6, <1>7, <2>1, <3>3 DEF Matches
    <3> QED BY <3>4 DEF n
  <2>4. Repeats(e, x.cache.entry, u)
    BY <2>3, Zenon DEF Repeats
  <2>5. Follows(w, x)
    BY <2>1, <2>2, <2>4, Zenon DEF Follows, Owned, e
  <2> QED BY <1>1, <1>9, <2>5, Zenon DEF x
<1>10. CASE ~(~force /\ e # NoEntry) /\ ~Changed(w, fields)
  <2>1. e # NoEntry
    BY <1>5, <1>10, Zenon
  <2>2. /\ SameCache(w, v) /\ v.updates = w.updates
        /\ v.cache.entry # NoEntry /\ v.cache.entry.fields = e.fields
    BY <1>4, <1>10, EnteredSame
  <2>3. Follows(w, v)
    BY <2>1, <2>2, MatchesSame, Zenon DEF Follows, Owned, e
  <2> QED BY <1>1, <1>10, <2>3
<1> QED BY <1>8, <1>9, <1>10

LEMMA UpdateEntryStateFollows ==
  ASSUME NEW w, Shaped(w), NEW state \in {"INCOMPLETE", "STALE", "REACHABLE"},
         NEW hit \in BOOLEAN
  PROVE  Follows(w, updateEntryState(w, state, hit))
<1> DEFINE v == updateState(w, state, hit)
<1>1. updateEntryState(w, state, hit) = IF w.cache.entry = NoEntry THEN w ELSE v
  BY DEF updateEntryState
<1>2. Entered(w, v, w.cache.entry.fields)
  BY UpdateStateEntered, Zenon
<1> HIDE DEF v
<1>3. /\ SameCache(w, v) /\ v.updates = w.updates
      /\ v.cache.entry # NoEntry /\ v.cache.entry.fields = w.cache.entry.fields
  BY <1>2, EnteredSame
<1>4. CASE w.cache.entry # NoEntry
  <2>1. Follows(w, v)
    BY <1>3, <1>4, MatchesSame, Zenon DEF Follows, Owned
  <2> QED BY <1>1, <1>4, <2>1
<1>5. CASE w.cache.entry = NoEntry
  BY <1>1, <1>5, NothingFollows
<1> QED BY <1>4, <1>5

LEMMA UpdateClassFollows ==
  ASSUME NEW w, Shaped(w), NEW m, Matches(w.cache.entry, m), NEW cls
  PROVE  Follows(w, updateEntryClassID(w, cls))
<1>1. CASE w.cache.entry = NoEntry
  BY <1>1, NothingFollows DEF updateEntryClassID
<1>2. CASE w.cache.entry # NoEntry
  <2> DEFINE e == w.cache.entry
             c == [e.fields EXCEPT !.cls = cls]
             f == [e EXCEPT !.fields = c]
             v == [w EXCEPT !.cache.entry.fields.cls = cls]
             u == [op |-> "class", cls |-> cls]
             x == Queue(v, u)
  <2>1. updateEntryClassID(w, cls) = x
    BY <1>2 DEF updateEntryClassID
  <2>2. v = [w EXCEPT !.cache.entry = f]
    OBVIOUS
  <2>3. u.op = "class" /\ u.cls = cls /\ c = [e.fields EXCEPT !.cls = cls]
    OBVIOUS
  <2>4. f = [fields |-> c, state |-> e.state, probesLeft |-> e.probesLeft,
             timer |-> e.timer, sent |-> e.sent] /\ EntryShape(e)
    BY DEF Shaped, EntryShape
  <2> HIDE DEF e, c, f, v, u
  <2>5. EntryShape(f) /\ f.fields = c /\ f.state = e.state
    BY <2>4 DEF EntryShape
  <2>6. Built(v, w.cache.intf, f, w.cache.exists, w.posted, w.updates, w.waiting)
    BY <2>2, Zenon DEF Shaped, Built
  <2> DEFINE us == Append(w.updates, u)
  <2>7. Built(x, w.cache.intf, f, w.cache.exists, w.posted, us, w.waiting)
    BY <2>6, QueueBuilt
  <2>8. Later(w.posted, w.posted)
    BY LaterSame, Zenon DEF Shaped
  <2> HIDE DEF us, x
  <2>9. SameCache(w, x) /\ x.cache.entry = f /\ x.updates = us
    BY <2>5, <2>7, <2>8, BuiltSame
  <2>10. SteadyClosure(u)
    BY <2>3 DEF SteadyClosure
  <2>e. GoodFields(e.fields)
    BY <1>2 DEF Matches, e
  <2>c. c = [loc |-> e.fields.loc, intf |-> e.fields.intf, pending |-> e.fields.pending,
             cls |-> cls]
    BY <2>3, <2>e, Zenon DEF GoodFields, IsFields
  <2>g. GoodFields(c) /\ c.loc = e.fields.loc /\ c.cls = cls
    BY <2>e, <2>c DEF GoodFields, IsFields
  <2>f. f # NoEntry
    BY <2>5, <2>g, NodeTypes DEF GoodFields
  <2>11. ASSUME NEW s, GoodState(s), Matches(e, s.node)
         PROVE  Matches(f, applyUpdate(s, u).node)
    <3> DEFINE n == applyUpdate(s, u).node
    <3>1. /\ IsFields(s.node) /\ s.node.intf = TheInterface
          /\ s.node.loc = e.fields.loc /\ s.node.cls = e.fields.cls
      BY <1>2, <2>11 DEF Matches, e
    <3>2. s.node # NoNode
      BY <3>1, NodeTypes
    <3>3. n = [s.node EXCEPT !.cls = cls, !.pending = FALSE]
      BY <2>3, <2>10, <2>11, <3>2, ClosureKeepsState, Zenon
    <3> HIDE DEF n
    <3>4. n = [loc |-> s.node.loc, intf |-> TheInterface, pending |-> FALSE, cls |-> cls]
      BY <3>1, <3>3, Zenon DEF IsFields
    <3>5. /\ IsFields(n) /\ n.loc = e.fields.loc /\ n.intf = TheInterface /\ n.cls = cls
      BY <3>1, <3>4, Zenon DEF IsFields, IsFlag
    <3>9. Matches(f, n)
      BY <2>5, <2>f, <2>g, <3>5 DEF Matches
    <3> QED BY <3>9, Zenon DEF n
  <2>12. Repeats(e, f, u)
    BY <2>11, Zenon DEF Repeats
  <2>13. Follows(w, x)
    BY <2>9, <2>10, <2>12, <2>f, Zenon DEF Follows, Owned, e, us
  <2> QED BY <2>1, <2>13
<1> QED BY <1>1, <1>2

LEMMA FlushFollows ==
  ASSUME NEW w, Shaped(w), NEW blocking
  PROVE  Follows(w, flushEntry(w, blocking))
<1>1. CASE w.cache.entry = NoEntry
  BY <1>1, NothingFollows DEF flushEntry
<1>2. CASE w.cache.entry # NoEntry
  <2> DEFINE p == Dangling(w.posted, {"schedule"})
             v == [w EXCEPT !.cache.entry = NoEntry, !.posted = p, !.waiting = blocking]
             u == [op |-> "remove", blocking |-> blocking]
             x == Queue(v, u)
             us == Append(w.updates, u)
  <2>1. flushEntry(w, blocking) = x
    BY <1>2, Zenon DEF flushEntry
  <2>2. Later(w.posted, p) /\ ~Scheduled(p)
    BY DanglingLater DEF Shaped
  <2>3. u.op = "remove"
    OBVIOUS
  <2>v. v = [w EXCEPT !.cache.entry = NoEntry, !.posted = p, !.waiting = blocking]
    OBVIOUS
  <2> HIDE DEF p, v, u
  <2>4. Built(v, w.cache.intf, NoEntry, w.cache.exists, p, w.updates, blocking)
    BY <2>v, Zenon DEF Shaped, Built
  <2>5. Built(x, w.cache.intf, NoEntry, w.cache.exists, p, us, blocking)
    BY <2>4, QueueBuilt, Zenon
  <2> HIDE DEF x, us
  <2>6. SameCache(w, x) /\ x.cache.entry = NoEntry /\ x.updates = us /\ x.posted = p
    BY <2>2, <2>5, NoEntryShape, BuiltSame
  <2>7. SteadyClosure(u)
    BY <2>3 DEF SteadyClosure
  <2>8. ASSUME NEW s, GoodState(s)
        PROVE  Matches(NoEntry, applyUpdate(s, u).node)
    BY <2>3, <2>7, <2>8, ClosureKeepsState, Zenon DEF Matches
  <2>9. Repeats(w.cache.entry, NoEntry, u)
    BY <2>8, Zenon DEF Repeats
  <2>10. Follows(w, x)
    BY <2>2, <2>6, <2>7, <2>9, Zenon DEF Follows, Owned, us
  <2> QED BY <2>1, <2>10
<1> QED BY <1>1, <1>2

\* Functions that change an entry's timeout and state only.
EntryChanged(w, f) == [w EXCEPT !.cache.entry = f]

LEMMA EntryFollows ==
  ASSUME NEW w, Shaped(w), NEW f, EntryShape(f), f.fields = w.cache.entry.fields,
         w.cache.entry # NoEntry, f # NoEntry, NEW v, v = EntryChanged(w, f)
  PROVE  Follows(w, v) /\ v.cache.entry = f /\ v.updates = w.updates
<1>1. Built(v, w.cache.intf, f, w.cache.exists, w.posted, w.updates, w.waiting)
  BY Zenon DEF Shaped, Built, EntryChanged
<1>2. Later(w.posted, w.posted)
  BY LaterSame, Zenon DEF Shaped
<1> DEFINE Good(x) == SameCache(w, x) /\ x.cache.entry = f /\ x.updates = w.updates
<1>g. ASSUME NEW x, Built(x, w.cache.intf, f, w.cache.exists, w.posted, w.updates, w.waiting)
      PROVE  Good(x)
  BY <1>2, <1>g, BuiltSame
<1> HIDE DEF Good
<1>h. Good(v)
  BY <1>1, <1>g, Zenon
<1>3. SameCache(w, v) /\ v.cache.entry = f /\ v.updates = w.updates
  BY <1>h, Zenon DEF Good
<1> QED BY <1>3, MatchesSame, Zenon DEF Follows, Owned

\* The functions posted while the configuration does not change, apart from the
\* one that adds the cache.
SteadyOps == (CacheOps \ {"vlanChanged"}) \cup {"schedule", "dangling"}

LocatedOps == {"arpMine", "arpNotMine", "solicitation", "advertisement"}

SteadyFn(fn) ==
  /\ fn.op \in SteadyOps \cup {"vlanAdded"}
  /\ fn.op \in LocatedOps => fn.loc \in Locations

LEMMA HandleInCacheFollows ==
  ASSUME NEW w, Shaped(w), w.cache.intf = TheInterface, NEW m, Matches(w.cache.entry, m),
         NEW fn, fn.op \in SteadyOps \ {"dangling"}, fn.op \in LocatedOps => fn.loc \in Locations,
         fn.op = "schedule" => w.cache.entry # NoEntry, NEW hit \in BOOLEAN
  PROVE  Follows(w, HandleInCache(w, fn, hit))
<1> DEFINE v == HandleInCache(w, fn, hit)
<1>0. Follows(w, w)
  BY NothingFollows
<1>1. CASE fn.op = "sent"
  <2>1. v = setPendingEntry(w, FALSE, hit)
    BY <1>1 DEF HandleInCache
  <2> QED BY <2>1, SetPendingFollows, Zenon
<1>2. CASE fn.op = "arpMine"
  <2>1. v = setEntry(w, fn.loc, "REACHABLE", hit) /\ fn.loc \in Locations
    BY <1>2, Zenon DEF HandleInCache, LocatedOps
  <2> QED BY <2>1, SetEntryFollows, Zenon
<1>3. CASE fn.op = "arpNotMine"
  <2>1. v = setExistingEntry(w, fn.loc, "REACHABLE", hit) /\ fn.loc \in Locations
    BY <1>3 DEF HandleInCache, LocatedOps
  <2>2. Follows(w, setEntry(w, fn.loc, "REACHABLE", hit))
    BY <2>1, SetEntryFollows, Zenon
  <2> QED BY <1>0, <2>1, <2>2 DEF setExistingEntry
<1>4. CASE fn.op = "solicitation"
  <2>1. v = receivedNeighborSolicitationMine(w, fn.loc, hit) /\ fn.loc \in Locations
    BY <1>4 DEF HandleInCache, LocatedOps
  <2>2. Follows(w, setEntry(w, fn.loc, "STALE", hit))
    BY <2>1, SetEntryFollows, Zenon
  <2> QED BY <1>0, <2>1, <2>2 DEF receivedNeighborSolicitationMine
<1>5. CASE fn.op = "advertisement"
  <2>1. v = receivedNeighborAdvertisementMine(w, fn, hit) /\ fn.loc \in Locations
    BY <1>5 DEF HandleInCache, LocatedOps
  <2>2. \A state \in {"REACHABLE", "STALE"} :
          Follows(w, setEntry(w, fn.loc, state, hit)) /\ Follows(w, updateEntryState(w, state, hit))
    BY <2>1, SetEntryFollows, UpdateEntryStateFollows, Zenon
  <2>3. \/ v = w
        \/ \E state \in {"REACHABLE", "STALE"} :
             v = setEntry(w, fn.loc, state, hit) \/ v = updateEntryState(w, state, hit)
    BY <2>1 DEF receivedNeighborAdvertisementMine
  <2> QED BY <1>0, <2>2, <2>3
<1>6. CASE fn.op = "updateClassID"
  <2>1. v = updateEntryClassID(w, fn.cls)
    BY <1>6 DEF HandleInCache
  <2> QED BY <2>1, UpdateClassFollows, Zenon
<1>7. CASE fn.op = "flush"
  <2>1. v = flushEntry(w, TRUE)
    BY <1>7 DEF HandleInCache
  <2> QED BY <2>1, FlushFollows, Zenon
<1>8. CASE fn.op = "portDown"
  <2>1. v = portDown(w, fn.port, hit)
    BY <1>8 DEF HandleInCache
  <2>2. Follows(w, setPendingEntry(w, TRUE, hit))
    BY SetPendingFollows, Zenon
  <2> QED BY <1>0, <2>1, <2>2, Zenon DEF portDown
<1>9. CASE fn.op = "schedule"
  <2> DEFINE f == scheduleNextUpdate(w.cache.entry)
  <2>1. v = EntryChanged(w, f)
    BY <1>9, Zenon DEF HandleInCache, EntryChanged
  <2>2. EntryShape(f) /\ f.fields = w.cache.entry.fields /\ f # NoEntry
    BY ScheduleKeeps, Zenon DEF Shaped
  <2> HIDE DEF f, v
  <2>3. Follows(w, v)
    BY <1>9, <2>1, <2>2, EntryFollows
  <2> QED BY <2>3 DEF v
<1> QED BY <1>1, <1>2, <1>3, <1>4, <1>5, <1>6, <1>7, <1>8, <1>9 DEF SteadyOps, CacheOps

\* ... and the timeout.
LEMMA FollowsTwice ==
  ASSUME NEW w, Shaped(w), NEW v, Follows(w, v), v.updates = w.updates, v.posted = w.posted,
         NEW x, Follows(v, x),
         \A n : Matches(w.cache.entry, n) => Matches(v.cache.entry, n)
  PROVE  Follows(w, x)
<1>1. SameCache(w, x) /\ (Owned(w) => Owned(x))
  BY DEF Follows, SameCache
<1>2. CASE /\ x.updates = v.updates
           /\ \A n : Matches(v.cache.entry, n) => Matches(x.cache.entry, n)
  BY <1>1, <1>2, Zenon DEF Follows
<1>3. CASE \E u : /\ SteadyClosure(u) /\ x.updates = Append(v.updates, u)
                  /\ Repeats(v.cache.entry, x.cache.entry, u)
  <2>1. PICK u : /\ SteadyClosure(u) /\ x.updates = Append(v.updates, u)
                 /\ Repeats(v.cache.entry, x.cache.entry, u)
    BY <1>3
  <2>2. Repeats(w.cache.entry, x.cache.entry, u)
    BY <2>1, Zenon DEF Repeats
  <2> QED BY <1>1, <2>1, <2>2, Zenon DEF Follows
<1> QED BY <1>2, <1>3, Zenon DEF Follows

LEMMA ProcessFollows ==
  ASSUME NEW w, Shaped(w), w.cache.entry # NoEntry, NEW hit \in BOOLEAN
  PROVE  Follows(w, processEntry(w, hit))
<1> DEFINE f == process(w.cache.entry, hit)
           v == [w EXCEPT !.cache.entry = f]
<1>1. processEntry(w, hit) = IF v.cache.entry.state = "EXPIRED" THEN flushEntry(v, FALSE) ELSE v
  BY Zenon DEF processEntry
<1>2. EntryShape(f) /\ f.fields = w.cache.entry.fields /\ f # NoEntry
  BY ProcessKeeps, NodeTypes DEF Shaped, Keeps
<1>3. v = [w EXCEPT !.cache.entry = f]
  OBVIOUS
<1>w. v = EntryChanged(w, f)
  BY Zenon DEF EntryChanged
<1> HIDE DEF f, v
<1>4. Follows(w, v) /\ v.cache.entry = f /\ v.updates = w.updates
  BY <1>2, <1>w, EntryFollows
<1>5. v.posted = w.posted
  BY <1>3, Zenon DEF Shaped
<1>6. Shaped(v)
  BY <1>4 DEF Follows, SameCache
<1>7. Follows(v, flushEntry(v, FALSE))
  BY <1>6, FlushFollows, Zenon
<1>8. \A n : Matches(w.cache.entry, n) => Matches(v.cache.entry, n)
  BY <1>2, <1>4, MatchesSame, Zenon
<1>9. Follows(w, flushEntry(v, FALSE))
  BY <1>4, <1>5, <1>7, <1>8, FollowsTwice, Zenon
<1> QED BY <1>1, <1>4, <1>9, Zenon

-----------------------------------------------------------------------------
(* What a sequence of closures leaves.                                     *)

(* A nonempty set of naturals has a least element.                         *)
LEMMA LeastNatural ==
  ASSUME NEW T \in SUBSET Nat, T # {}
  PROVE  \E i \in T : \A j \in T : i <= j
<1> DEFINE R == {p \in Nat \X Nat : p[1] < p[2]}
<1>1. IsWellFoundedOn(R, Nat)
  BY NatLessThanWellFounded, Zenon DEF OpToRel
<1> HIDE DEF R
<1>2. \E i \in T : \A j \in T : ~(<<j, i>> \in R)
  BY <1>1, WFMin, Zenon
<1>3. \A i, j \in Nat : ~(<<j, i>> \in R) => i <= j
  BY DEF R
<1> QED
  BY <1>2, <1>3, Zenon

(* A set that has 0 and with every number below n the next one has all of  *)
(* them.                                                                   *)
LEMMA Induction ==
  ASSUME NEW n \in Nat, NEW S, 0 \in S,
         \A i \in 0 .. n - 1 : i \in S => i + 1 \in S
  PROVE  \A i \in 0 .. n : i \in S
<1> DEFINE T == {i \in 0 .. n : i \notin S}
<1>1. SUFFICES ASSUME T # {} PROVE FALSE
  OBVIOUS
<1>2. T \in SUBSET Nat
  OBVIOUS
<1>3. PICK k \in T : \A j \in T : k <= j
  <2> HIDE DEF T
  <2> QED BY <1>1, <1>2, LeastNatural
<1>4. k \in 0 .. n /\ k \notin S /\ k # 0
  BY <1>3
<1>5. k - 1 \in 0 .. n - 1 /\ k - 1 + 1 = k
  BY <1>4
<1>6. k - 1 \in S
  <2>1. k - 1 \in 0 .. n /\ ~(k <= k - 1)
    BY <1>4
  <2> QED BY <1>3, <2>1
<1> QED BY <1>4, <1>5, <1>6

LEMMA SubSeqSequence ==
  ASSUME NEW q, IsSequence(q), NEW m \in 1 .. Len(q) + 1, NEW n \in 0 .. Len(q), m <= n + 1
  PROVE  /\ IsSequence(SubSeq(q, m, n)) /\ Len(SubSeq(q, m, n)) = n - m + 1
         /\ \A i \in 1 .. n - m + 1 : SubSeq(q, m, n)[i] = q[m + i - 1]
<1> DEFINE S == {q[i] : i \in 1 .. Len(q)}
<1>0. Len(q) \in Nat
  BY DEF IsSequence
<1>1. \A i \in m .. n : q[i] \in S
  BY <1>0
<1> HIDE DEF S
<1>2. /\ SubSeq(q, m, n) \in Seq(S)
      /\ Len(SubSeq(q, m, n)) = IF m <= n THEN n - m + 1 ELSE 0
      /\ \A i \in 1 .. n - m + 1 : SubSeq(q, m, n)[i] = q[m + i - 1]
  BY <1>0, <1>1, SubSeqProperties
<1>3. IsSequence(SubSeq(q, m, n))
  BY <1>2, SeqIsSequence, Zenon
<1> QED BY <1>0, <1>2, <1>3

\* A path of the SwitchState through a batch.
BatchPath(s, q, f) ==
  f = [i \in 0 .. Len(q) |-> IF i = 0 THEN s ELSE applyUpdate(f[i - 1], q[i])]

(* Every batch has a path.                                                 *)
LEMMA PathExists ==
  ASSUME NEW s, NEW q, Len(q) \in Nat
  PROVE  \E f : BatchPath(s, q, f)
<1> DEFINE Upto(n, f) == f = [i \in 0 .. n |-> IF i = 0 THEN s ELSE applyUpdate(f[i - 1], q[i])]
           S == {n \in 0 .. Len(q) : \E f : Upto(n, f)}
<1>1. 0 \in S
  <2> DEFINE f == [i \in 0 .. 0 |-> s]
  <2>1. Upto(0, f)
    OBVIOUS
  <2>2. \E h : Upto(0, h)
    BY <2>1, Zenon
  <2> QED BY <2>2
<1>2. ASSUME NEW n \in 0 .. Len(q) - 1, n \in S
      PROVE  n + 1 \in S
  <2>1. PICK f : Upto(n, f)
    BY <1>2
  <2> DEFINE g == [i \in 0 .. n + 1 |-> IF i = n + 1 THEN applyUpdate(f[n], q[n + 1]) ELSE f[i]]
  <2>2. \A i \in 0 .. n : f[i] = IF i = 0 THEN s ELSE applyUpdate(f[i - 1], q[i])
    BY <2>1, Zenon
  <2>3. ASSUME NEW i \in 0 .. n + 1
        PROVE  g[i] = IF i = 0 THEN s ELSE applyUpdate(g[i - 1], q[i])
    <3>1. CASE i = n + 1
      <4>1. i # 0 /\ i - 1 = n /\ g[n] = f[n]
        BY <3>1
      <4> QED BY <3>1, <4>1, Zenon
    <3>2. CASE i # n + 1
      <4>1. i \in 0 .. n /\ g[i] = f[i]
        BY <3>2
      <4>2. CASE i = 0
        BY <2>2, <4>1, <4>2, Zenon
      <4>3. CASE i # 0
        <5>1. i - 1 \in 0 .. n + 1 /\ i - 1 # n + 1
          BY <4>1, <4>3
        <5>2. g[i - 1] = f[i - 1]
          BY <5>1
        <5> QED BY <2>2, <4>1, <4>3, <5>2, Zenon
      <4> QED BY <4>2, <4>3, Zenon
    <3> QED BY <3>1, <3>2, Zenon
  <2>4. Upto(n + 1, g)
    <3>1. DOMAIN g = 0 .. n + 1 /\ g = [i \in 0 .. n + 1 |-> g[i]]
      OBVIOUS
    <3> HIDE DEF g
    <3> QED BY <2>3, <3>1, Zenon
  <2>5. \E h : Upto(n + 1, h)
    BY <2>4, Zenon
  <2> QED BY <2>5
<1>3. Len(q) \in S
  <2>1. \A n \in 0 .. Len(q) - 1 : n \in S => n + 1 \in S
    BY <1>2, Zenon
  <2> HIDE DEF S
  <2>2. \A n \in 0 .. Len(q) : n \in S
    BY <1>1, <2>1, Induction, SMTT(20)
  <2> QED BY <2>2
<1>4. \E f : Upto(Len(q), f)
  <2> HIDE DEF Upto
  <2> QED BY <1>3
<1> QED BY <1>4, Zenon DEF BatchPath

(* What a batch leaves is the end of its path.                             *)
LEMMA BatchIsPath ==
  ASSUME NEW s, NEW q, Len(q) \in Nat
  PROVE  \E f : BatchPath(s, q, f) /\ applyUpdates(s, q) = f[Len(q)]
<1> DEFINE f == CHOOSE f : BatchPath(s, q, f)
<1>1. BatchPath(s, q, f)
  BY PathExists, Zenon
<1>2. applyUpdates(s, q) = f[Len(q)]
  BY Zenon DEF applyUpdates, BatchPath
<1> QED BY <1>1, <1>2, Zenon

\* The states before, between and after the closures of q.
Path(s, q, f) ==
  f[0] = s /\ \A i \in 1 .. Len(q) : f[i] = applyUpdate(f[i - 1], q[i])

LEMMA ApplyHasPath ==
  ASSUME NEW s, NEW q, IsSequence(q)
  PROVE  \E f : Path(s, q, f) /\ applyUpdates(s, q) = f[Len(q)]
<1>1. Len(q) \in Nat
  BY Zenon DEF IsSequence
<1>2. PICK f : BatchPath(s, q, f) /\ applyUpdates(s, q) = f[Len(q)]
  BY <1>1, BatchIsPath
<1>3. Path(s, q, f)
  BY <1>1, <1>2 DEF BatchPath, Path
<1> QED BY <1>2, <1>3, Zenon

LEMMA PathEndsThere ==
  ASSUME NEW s, NEW q, IsSequence(q), NEW f, Path(s, q, f)
  PROVE  applyUpdates(s, q) = f[Len(q)]
<1>1. Len(q) \in Nat
  BY DEF IsSequence
<1>2. PICK g : Path(s, q, g) /\ applyUpdates(s, q) = g[Len(q)]
  BY ApplyHasPath, Zenon
<1> DEFINE S == {i \in 0 .. Len(q) : f[i] = g[i]}
<1>3. 0 \in S
  BY <1>1, <1>2 DEF Path
<1>4. ASSUME NEW i \in 0 .. Len(q) - 1, i \in S
      PROVE  i + 1 \in S
  <2>1. i + 1 \in 1 .. Len(q) /\ i + 1 \in 0 .. Len(q) /\ i + 1 - 1 = i /\ f[i] = g[i]
    BY <1>1, <1>4
  <2>2. f[i + 1] = applyUpdate(f[i], q[i + 1]) /\ g[i + 1] = applyUpdate(g[i], q[i + 1])
    BY <1>2, <2>1 DEF Path
  <2> QED BY <2>1, <2>2
<1> HIDE DEF S
<1>5. \A i \in 0 .. Len(q) : i \in S
  BY <1>1, <1>3, <1>4, Induction, SMTT(20)
<1>6. Len(q) \in S
  BY <1>1, <1>5
<1> QED BY <1>2, <1>6 DEF S

LEMMA ApplyAppend ==
  ASSUME NEW s, NEW q, IsSequence(q), NEW u
  PROVE  applyUpdates(s, Append(q, u)) = applyUpdate(applyUpdates(s, q), u)
<1>1. Len(q) \in Nat
  BY DEF IsSequence
<1>2. PICK g : Path(s, q, g) /\ applyUpdates(s, q) = g[Len(q)]
  BY ApplyHasPath
<1> DEFINE n == Len(q)
           r == Append(q, u)
           f == [i \in 0 .. n + 1 |-> IF i = n + 1 THEN applyUpdate(g[n], u) ELSE g[i]]
<1>3. /\ IsSequence(r) /\ Len(r) = n + 1
      /\ \A i \in 1 .. n : r[i] = q[i]
      /\ r[n + 1] = u
  BY AppendSequence
<1> HIDE DEF r
<1>4. Path(s, r, f)
  <2>1. f[0] = s
    BY <1>1, <1>2 DEF Path
  <2>2. ASSUME NEW i \in 1 .. n + 1
        PROVE  f[i] = applyUpdate(f[i - 1], r[i])
    <3>1. i \in 0 .. n + 1 /\ i - 1 \in 0 .. n + 1 /\ i - 1 # n + 1
      BY <1>1
    <3>2. f[i - 1] = g[i - 1]
      BY <3>1
    <3>3. CASE i = n + 1
      <4>1. i - 1 = n /\ f[i] = applyUpdate(g[n], u)
        BY <1>1, <3>1, <3>3
      <4> QED BY <1>3, <3>2, <3>3, <4>1, Zenon
    <3>4. CASE i # n + 1
      <4>1. i \in 1 .. n /\ f[i] = g[i]
        BY <1>1, <3>1, <3>4
      <4> QED BY <1>2, <1>3, <3>2, <4>1 DEF Path
    <3> QED BY <3>3, <3>4
  <2> QED BY <1>3, <2>1, <2>2, Zenon DEF Path
<1>5. f[n + 1] = applyUpdate(g[n], u)
  BY <1>1
<1> HIDE DEF f
<1>6. applyUpdates(s, r) = f[n + 1]
  BY <1>3, <1>4, PathEndsThere, Zenon
<1> QED BY <1>2, <1>5, <1>6 DEF r

LEMMA ApplySplit ==
  ASSUME NEW s, NEW q, IsSequence(q), NEW k \in 0 .. Len(q)
  PROVE  applyUpdates(applyUpdates(s, SubSeq(q, 1, k)), SubSeq(q, k + 1, Len(q)))
           = applyUpdates(s, q)
<1>1. Len(q) \in Nat
  BY DEF IsSequence
<1>2. PICK g : Path(s, q, g) /\ applyUpdates(s, q) = g[Len(q)]
  BY ApplyHasPath
<1> DEFINE p == SubSeq(q, 1, k)
           r == SubSeq(q, k + 1, Len(q))
           m == Len(q) - k
           f == [i \in 0 .. m |-> g[k + i]]
<1>3. IsSequence(p) /\ Len(p) = k /\ \A i \in 1 .. k : p[i] = q[i]
  <2>1. 1 \in 1 .. Len(q) + 1 /\ k \in 0 .. Len(q) /\ 1 <= k + 1
    BY <1>1
  <2>2. /\ IsSequence(p) /\ Len(p) = k - 1 + 1
        /\ \A i \in 1 .. k - 1 + 1 : p[i] = q[1 + i - 1]
    BY <2>1, SubSeqSequence
  <2>3. k - 1 + 1 = k /\ \A i \in 1 .. k : 1 + i - 1 = i
    BY <1>1
  <2> HIDE DEF p
  <2> QED BY <2>2, <2>3
<1>4. IsSequence(r) /\ Len(r) = m /\ m \in Nat /\ \A i \in 1 .. m : r[i] = q[k + i]
  <2>1. k + 1 \in 1 .. Len(q) + 1 /\ Len(q) \in 0 .. Len(q) /\ k + 1 <= Len(q) + 1
    BY <1>1
  <2>2. /\ IsSequence(r) /\ Len(r) = Len(q) - (k + 1) + 1
        /\ \A i \in 1 .. Len(q) - (k + 1) + 1 : r[i] = q[k + 1 + i - 1]
    BY <2>1, SubSeqSequence
  <2>3. Len(q) - (k + 1) + 1 = m /\ m \in Nat /\ \A i \in 1 .. m : k + 1 + i - 1 = k + i
    BY <1>1
  <2> HIDE DEF r, m
  <2> QED BY <2>2, <2>3
<1>m. m = Len(q) - k
  OBVIOUS
<1> HIDE DEF p, r, m
<1>5. Path(s, p, g)
  BY <1>1, <1>2, <1>3 DEF Path
<1>6. applyUpdates(s, p) = g[k]
  BY <1>3, <1>5, PathEndsThere
<1>7. Path(g[k], r, f)
  <2>1. f[0] = g[k]
    BY <1>1, <1>4
  <2>2. ASSUME NEW i \in 1 .. m
        PROVE  f[i] = applyUpdate(f[i - 1], r[i])
    <3>1. i \in 0 .. m /\ i - 1 \in 0 .. m /\ k + i \in 1 .. Len(q) /\ k + i - 1 = k + (i - 1)
      BY <1>1, <1>4, <1>m
    <3>2. f[i] = g[k + i] /\ f[i - 1] = g[k + (i - 1)]
      BY <3>1
    <3>3. g[k + i] = applyUpdate(g[k + i - 1], q[k + i])
      BY <1>2, <3>1 DEF Path
    <3> QED BY <1>4, <3>1, <3>2, <3>3
  <2> QED BY <1>4, <2>1, <2>2, Zenon DEF Path
<1>8. f[m] = g[Len(q)]
  <2>1. m \in 0 .. m /\ k + m = Len(q)
    BY <1>1, <1>4, <1>m
  <2> QED BY <2>1
<1> HIDE DEF f
<1>9. applyUpdates(g[k], r) = f[m]
  BY <1>4, <1>7, PathEndsThere
<1> QED BY <1>2, <1>6, <1>8, <1>9 DEF p, r

LEMMA ApplyKeepsState ==
  ASSUME NEW s, GoodState(s), NEW q, IsSequence(q), \A i \in 1 .. Len(q) : SteadyClosure(q[i])
  PROVE  GoodState(applyUpdates(s, q))
<1>1. Len(q) \in Nat
  BY DEF IsSequence
<1>2. PICK g : Path(s, q, g) /\ applyUpdates(s, q) = g[Len(q)]
  BY ApplyHasPath
<1> DEFINE S == {i \in 0 .. Len(q) : GoodState(g[i])}
<1>3. 0 \in S
  BY <1>1, <1>2 DEF Path
<1>4. ASSUME NEW i \in 0 .. Len(q) - 1, i \in S
      PROVE  i + 1 \in S
  <2>1. i + 1 \in 1 .. Len(q) /\ i + 1 \in 0 .. Len(q) /\ i + 1 - 1 = i /\ GoodState(g[i])
    BY <1>1, <1>4
  <2>2. g[i + 1] = applyUpdate(g[i], q[i + 1])
    BY <1>2, <2>1 DEF Path
  <2>3. GoodState(g[i + 1])
    BY <2>1, <2>2, ClosureGood
  <2> QED BY <2>1, <2>3
<1> HIDE DEF S
<1>5. \A i \in 0 .. Len(q) : i \in S
  BY <1>1, <1>3, <1>4, Induction, Zenon
<1>6. Len(q) \in S
  BY <1>1, <1>5
<1> QED BY <1>2, <1>6 DEF S

-----------------------------------------------------------------------------
(* The invariant while the configuration does not change.                  *)

AddedFor(c, n) ==
  /\ c = [intf |-> TheInterface, entry |-> c.entry, exists |-> TRUE]
  /\ EntryShape(c.entry) /\ Matches(c.entry, n)

\* The cache is added once, with the entry of a node that does not change until then.
SteadyQueue(q, ex, n) ==
  /\ IsSequence(q)
  /\ \A i \in 1 .. Len(q) :
       /\ SteadyFn(q[i])
       /\ q[i].op = "vlanAdded" =>
            /\ ~ex /\ AddedFor(q[i].cache, n)
            /\ \A j \in 1 .. Len(q) : q[j].op = "vlanAdded" => j = i

SteadyClosures(us) == IsSequence(us) /\ \A i \in 1 .. Len(us) : SteadyClosure(us[i])

\* The cache agrees with the node that there is after the closures.
SteadyWorld(w, n) ==
  /\ Shaped(w) /\ Owned(w)
  /\ w.cache.exists => w.cache.intf = TheInterface /\ Matches(w.cache.entry, n)
  /\ ~w.cache.exists => w.cache.entry = NoEntry
  /\ SteadyQueue(w.posted, w.cache.exists, n)

SteadyNow ==
  /\ GoodState(SwitchState) /\ SteadyClosures(updates) /\ DOMAIN refCnt = Locations
  /\ SteadyWorld(World, applyUpdates(SwitchState, updates).node)

SteadyInv ==
  configs \in Nat /\ (configs = 0 /\ ~aborted => SteadyNow)

LEMMA SteadyTail ==
  ASSUME NEW q, q # <<>>, NEW ex, NEW n, SteadyQueue(q, ex, n)
  PROVE  /\ SteadyQueue(Tail(q), ex, n)
         /\ Head(q) = q[1] /\ SteadyFn(q[1]) /\ 1 \in 1 .. Len(q)
         /\ Scheduled(Tail(q)) => Scheduled(q)
         /\ q[1].op = "schedule" => Scheduled(q)
         /\ q[1].op = "vlanAdded" => /\ AddedFor(q[1].cache, n) /\ ~ex
                                     /\ SteadyQueue(Tail(q), TRUE, n)
<1> DEFINE t == Tail(q)
<1>1. /\ IsSequence(q) /\ IsSequence(t) /\ Len(q) = Len(t) + 1 /\ Head(q) = q[1]
      /\ Len(t) \in Nat /\ \A i \in 1 .. Len(t) : t[i] = q[i + 1]
  BY TailSequence DEF SteadyQueue, IsSequence
<1> HIDE DEF t
<1>2. 1 \in 1 .. Len(q) /\ \A i \in 1 .. Len(t) : i + 1 \in 1 .. Len(q) /\ i + 1 # 1
  BY <1>1
<1>3. ASSUME NEW i \in 1 .. Len(t)
      PROVE  /\ SteadyFn(t[i])
             /\ t[i].op = "vlanAdded" =>
                  /\ ~ex /\ AddedFor(t[i].cache, n)
                  /\ \A j \in 1 .. Len(t) : t[j].op = "vlanAdded" => j = i
  <2>1. /\ SteadyFn(q[i + 1])
        /\ q[i + 1].op = "vlanAdded" =>
             /\ ~ex /\ AddedFor(q[i + 1].cache, n)
             /\ \A j \in 1 .. Len(q) : q[j].op = "vlanAdded" => j = i + 1
    BY <1>2 DEF SteadyQueue
  <2>2. ASSUME NEW j \in 1 .. Len(t), t[j].op = "vlanAdded", t[i].op = "vlanAdded"
        PROVE  j = i
    <3>1. j + 1 = i + 1
      BY <1>1, <1>2, <2>1, <2>2, Zenon
    <3> QED BY <3>1
  <2> QED BY <1>1, <2>1, <2>2, Zenon
<1>4. SteadyQueue(t, ex, n)
  BY <1>1, <1>3, Zenon DEF SteadyQueue
<1>5. Scheduled(t) => Scheduled(q)
  BY <1>1, <1>2, Zenon DEF Scheduled
<1>6. q[1].op = "schedule" => Scheduled(q)
  BY <1>2, Zenon DEF Scheduled
<1>7. SteadyFn(q[1])
  BY <1>2, Zenon DEF SteadyQueue
<1>8. ASSUME q[1].op = "vlanAdded"
      PROVE  AddedFor(q[1].cache, n) /\ ~ex /\ SteadyQueue(t, TRUE, n)
  <2>1. AddedFor(q[1].cache, n) /\ ~ex /\ \A j \in 1 .. Len(q) : q[j].op = "vlanAdded" => j = 1
    BY <1>2, <1>8 DEF SteadyQueue
  <2>2. \A i \in 1 .. Len(t) : t[i].op # "vlanAdded"
    BY <1>1, <1>2, <2>1, Zenon
  <2> QED BY <1>4, <2>1, <2>2, Zenon DEF SteadyQueue
<1> QED BY <1>1, <1>2, <1>4, <1>5, <1>6, <1>7, <1>8, Zenon DEF t

LEMMA SteadyLater ==
  ASSUME NEW q, NEW n, SteadyQueue(q, TRUE, n), NEW p, Later(q, p), NEW m
  PROVE  SteadyQueue(p, TRUE, m)
<1> DEFINE d == [op |-> "dangling"]
<1>1. IsSequence(p) /\ Len(p) \in Nat /\ Len(q) \in Nat
  BY DEF Later, SteadyQueue, IsSequence
<1>2. d.op = "dangling" /\ Schedule.op = "schedule"
  BY Zenon DEF Schedule
<1>3. \A i \in 1 .. Len(q) : p[i] = q[i] \/ p[i] = d
  BY Zenon DEF Later
<1> HIDE DEF d
<1>4. SteadyFn(d) /\ SteadyFn(Schedule)
  BY <1>2, Zenon DEF SteadyFn, SteadyOps, LocatedOps
<1>5. ASSUME NEW i \in 1 .. Len(p)
      PROVE  SteadyFn(p[i]) /\ p[i].op # "vlanAdded"
  <2>1. CASE i \in 1 .. Len(q)
    BY <1>2, <1>3, <1>4, <2>1, Zenon DEF SteadyQueue
  <2>2. CASE i \notin 1 .. Len(q)
    <3>1. i \in Len(q) + 1 .. Len(p)
      BY <1>1, <2>2
    <3> QED BY <1>2, <1>4, <3>1 DEF Later
  <2> QED BY <2>1, <2>2, Zenon
<1> QED BY <1>1, <1>5 DEF SteadyQueue

\* What others post, and what the observers do.
Steady(s) ==
  IsSequence(s) /\ \A i \in 1 .. Len(s) : SteadyFn(s[i]) /\ s[i].op \notin {"vlanAdded", "schedule"}

LEMMA SteadyConcat ==
  ASSUME NEW q, NEW ex, NEW n, SteadyQueue(q, ex, n), NEW s, Steady(s)
  PROVE  SteadyQueue(q \o s, ex, n) /\ (Scheduled(q \o s) => Scheduled(q))
<1> DEFINE r == q \o s
<1>1. /\ IsSequence(q) /\ Len(q) \in Nat /\ Len(s) \in Nat
      /\ IsSequence(r) /\ Len(r) = Len(q) + Len(s)
      /\ \A i \in 1 .. Len(q) : r[i] = q[i]
      /\ \A i \in 1 .. Len(s) : r[Len(q) + i] = s[i]
  BY ConcatSequence DEF SteadyQueue, Steady, IsSequence
<1> HIDE DEF r
<1>2. ASSUME NEW i \in 1 .. Len(r), i \notin 1 .. Len(q)
      PROVE  SteadyFn(r[i]) /\ r[i].op \notin {"vlanAdded", "schedule"}
  <2>1. i - Len(q) \in 1 .. Len(s) /\ Len(q) + (i - Len(q)) = i
    BY <1>1, <1>2
  <2> QED BY <1>1, <2>1, Zenon DEF Steady
<1>3. ASSUME NEW i \in 1 .. Len(r)
      PROVE  /\ SteadyFn(r[i])
             /\ r[i].op = "vlanAdded" =>
                  /\ ~ex /\ AddedFor(r[i].cache, n)
                  /\ \A j \in 1 .. Len(r) : r[j].op = "vlanAdded" => j = i
  <2>1. CASE i \in 1 .. Len(q)
    <3>1. r[i] = q[i]
      BY <1>1, <2>1, Zenon
    <3>2. ASSUME NEW j \in 1 .. Len(r), r[j].op = "vlanAdded", r[i].op = "vlanAdded"
          PROVE  j = i
      <4>1. j \in 1 .. Len(q)
        BY <1>2, <3>2, Zenon
      <4> QED BY <1>1, <2>1, <3>1, <3>2, <4>1, Zenon DEF SteadyQueue
    <3> QED BY <2>1, <3>1, <3>2, Zenon DEF SteadyQueue
  <2>2. CASE i \notin 1 .. Len(q)
    BY <1>2, <2>2, Zenon
  <2> QED BY <2>1, <2>2, Zenon
<1>4. Scheduled(r) => Scheduled(q)
  BY <1>1, <1>2, Zenon DEF Scheduled
<1> QED BY <1>1, <1>3, <1>4, Zenon DEF SteadyQueue, r

LEMMA FollowsSteady ==
  ASSUME NEW S, GoodState(S), NEW w, SteadyClosures(w.updates), w.cache.exists = TRUE,
         SteadyWorld(w, applyUpdates(S, w.updates).node), NEW v, Follows(w, v)
  PROVE  SteadyClosures(v.updates) /\ SteadyWorld(v, applyUpdates(S, v.updates).node)
<1> DEFINE s == applyUpdates(S, w.updates)
           t == applyUpdates(S, v.updates)
<1>1. GoodState(s)
  BY ApplyKeepsState DEF SteadyClosures
<1>2. /\ Shaped(w) /\ Owned(w) /\ w.cache.intf = TheInterface /\ Matches(w.cache.entry, s.node)
      /\ SteadyQueue(w.posted, TRUE, s.node)
  BY Zenon DEF SteadyWorld
<1>3. /\ Shaped(v) /\ Owned(v) /\ v.cache.exists = TRUE /\ v.cache.intf = TheInterface
      /\ Later(w.posted, v.posted)
  BY <1>2 DEF Follows, SameCache
<1>4. SteadyQueue(v.posted, TRUE, t.node)
  <2> HIDE DEF s, t
  <2> QED BY <1>2, <1>3, SteadyLater, Zenon
<1>5. ASSUME Matches(v.cache.entry, t.node)
      PROVE  SteadyWorld(v, t.node)
  <2> HIDE DEF t
  <2> QED BY <1>3, <1>4, <1>5, Zenon DEF SteadyWorld
<1>6. CASE /\ v.updates = w.updates
           /\ \A n : Matches(w.cache.entry, n) => Matches(v.cache.entry, n)
  <2>1. t = s /\ SteadyClosures(v.updates)
    BY <1>6
  <2> HIDE DEF s, t
  <2>2. Matches(v.cache.entry, t.node)
    BY <1>2, <1>6, <2>1, Zenon
  <2> QED BY <1>5, <2>1, <2>2, Zenon DEF t
<1>7. CASE \E u : /\ SteadyClosure(u) /\ v.updates = Append(w.updates, u)
                  /\ Repeats(w.cache.entry, v.cache.entry, u)
  <2>1. PICK u : /\ SteadyClosure(u) /\ v.updates = Append(w.updates, u)
                 /\ Repeats(w.cache.entry, v.cache.entry, u)
    BY <1>7, Zenon
  <2>2. t = applyUpdate(s, u)
    <3>1. IsSequence(w.updates)
      BY Zenon DEF SteadyClosures
    <3>2. applyUpdates(S, Append(w.updates, u)) = applyUpdate(applyUpdates(S, w.updates), u)
      BY <3>1, ApplyAppend
    <3> QED BY <2>1, <3>2, Zenon
  <2>3. SteadyClosures(v.updates)
    <3> DEFINE q == w.updates
               r == Append(q, u)
    <3>1. /\ IsSequence(q) /\ IsSequence(r) /\ Len(r) = Len(q) + 1 /\ Len(q) \in Nat
          /\ \A i \in 1 .. Len(q) : r[i] = q[i]
          /\ r[Len(q) + 1] = u /\ \A i \in 1 .. Len(q) : SteadyClosure(q[i])
      BY AppendSequence DEF SteadyClosures, IsSequence
    <3> HIDE DEF r, q
    <3>2. \A i \in 1 .. Len(r) : i \in 1 .. Len(q) \/ i = Len(q) + 1
      BY <3>1
    <3>3. SteadyClosures(r)
      BY <2>1, <3>1, <3>2 DEF SteadyClosures
    <3> QED BY <2>1, <3>3, Zenon DEF r, q
  <2> HIDE DEF s, t
  <2>4. Matches(v.cache.entry, t.node)
    BY <1>1, <1>2, <2>1, <2>2, Zenon DEF Repeats
  <2> QED BY <1>5, <2>3, <2>4, Zenon DEF t
<1> QED BY <1>6, <1>7, Zenon DEF Follows

LEMMA HandleSteady ==
  ASSUME NEW S, GoodState(S), NEW w, SteadyClosures(w.updates),
         SteadyWorld(w, applyUpdates(S, w.updates).node), w.posted # <<>>,
         Head(w.posted).op # "dangling", NEW hit \in BOOLEAN
  PROVE  LET v == Handle([w EXCEPT !.posted = Tail(@)], Head(w.posted), hit)
         IN SteadyClosures(v.updates) /\ SteadyWorld(v, applyUpdates(S, v.updates).node)
<1> DEFINE q == w.posted
           t == Tail(q)
           n == applyUpdates(S, w.updates).node
           ex == w.cache.exists
           fn == q[1]
           u == [w EXCEPT !.posted = t]
           v == Handle(u, fn, hit)
<1> USE DEF IsFlag
<1>1. /\ Shaped(w) /\ Owned(w) /\ SteadyQueue(q, ex, n)
      /\ (ex => w.cache.intf = TheInterface /\ Matches(w.cache.entry, n))
      /\ (~ex => w.cache.entry = NoEntry)
  BY Zenon DEF SteadyWorld
<1>n. n = applyUpdates(S, w.updates).node
  OBVIOUS
<1> HIDE DEF n
<1>2. /\ SteadyQueue(t, ex, n) /\ Head(q) = fn /\ SteadyFn(fn)
      /\ (Scheduled(t) => Scheduled(q)) /\ (fn.op = "schedule" => Scheduled(q))
      /\ fn.op = "vlanAdded" => AddedFor(fn.cache, n) /\ ~ex /\ SteadyQueue(t, TRUE, n)
  BY <1>1, SteadyTail, Zenon
<1>3. IsSequence(t)
  BY <1>2 DEF SteadyQueue
<1>u. u = [w EXCEPT !.posted = t]
  OBVIOUS
<1> HIDE DEF t, u, fn
<1>4. Built(u, w.cache.intf, w.cache.entry, ex, t, w.updates, w.waiting)
  BY <1>1, <1>u, Zenon DEF Shaped, Built
<1>5. /\ u.cache.intf = w.cache.intf /\ u.cache.entry = w.cache.entry /\ u.cache.exists = ex
      /\ u.posted = t /\ u.updates = w.updates /\ u.waiting = w.waiting
  BY <1>4, BuiltFields
<1>6. Shaped(u)
  BY <1>1, <1>3, <1>4, BuiltShaped DEF Shaped
<1>7. SteadyWorld(u, n) /\ SteadyClosures(u.updates) /\ Owned(u)
  BY <1>1, <1>2, <1>5, <1>6, Zenon DEF SteadyWorld, Owned
<1>v. Handle([w EXCEPT !.posted = Tail(@)], Head(w.posted), hit) = v
  BY <1>2 DEF u, t, fn
<1> HIDE DEF v
<1> SUFFICES SteadyClosures(v.updates) /\ SteadyWorld(v, applyUpdates(S, v.updates).node)
  BY <1>v, Zenon
<1>8. CASE fn.op = "vlanAdded"
  <2> DEFINE c == fn.cache
             e == c.entry
  <2>1. v = [u EXCEPT !.cache = c]
    BY <1>8 DEF Handle, v
  <2>2. /\ c = [intf |-> TheInterface, entry |-> e, exists |-> TRUE] /\ EntryShape(e)
        /\ Matches(e, n) /\ SteadyQueue(t, TRUE, n) /\ ~ex
    BY <1>2, <1>8, Zenon DEF AddedFor
  <2>x. c.exists = TRUE /\ c = [intf |-> TheInterface, entry |-> e, exists |-> c.exists]
    BY <2>2, SMT, Z3
  <2>3. ~Scheduled(t)
    BY <1>1, <1>2, <2>2 DEF Owned
  <2> HIDE DEF c, e, v
  <2> DEFINE yes == c.exists
  <2>y. yes = TRUE
    BY <2>x
  <2>4. Built(v, TheInterface, e, yes, t, w.updates, w.waiting)
    BY <1>5, <1>6, <2>1, <2>x, Zenon DEF Shaped, Built
  <2> HIDE DEF yes
  <2>5. Shaped(v)
    BY <1>3, <2>2, <2>4, <2>y, BuiltShaped, Zenon
  <2>z. /\ v.cache.intf = TheInterface /\ v.cache.entry = e /\ v.cache.exists = yes
        /\ v.posted = t /\ v.updates = w.updates
    BY <2>4, BuiltFields
  <2>6. /\ v.cache.intf = TheInterface /\ v.cache.entry = e /\ v.cache.exists = TRUE
        /\ v.posted = t /\ v.updates = w.updates
    BY <2>y, <2>z
  <2>7. SteadyWorld(v, n)
    BY <2>2, <2>3, <2>5, <2>6, Zenon DEF SteadyWorld, Owned
  <2> QED BY <1>n, <2>6, <2>7
<1>9. CASE fn.op # "vlanAdded"
  <2>1. fn.op \in SteadyOps \ {"dangling"} /\ (fn.op \in LocatedOps => fn.loc \in Locations)
    BY <1>2, <1>9, Zenon DEF SteadyFn
  <2>2. fn.op # "vlanDeleted"
    BY <2>1 DEF SteadyOps, CacheOps
  <2>3. v = IF ex THEN HandleInCache(u, fn, hit) ELSE u
    BY <1>5, <1>9, <2>1, <2>2, Zenon DEF Handle, v
  <2>4. CASE ex
    <3>1. ex = TRUE
      BY <1>1, <2>4 DEF Shaped
    <3>2. Follows(u, HandleInCache(u, fn, hit))
      BY <1>1, <1>2, <1>5, <1>6, <2>1, <3>1, HandleInCacheFollows, Zenon DEF Owned
    <3>3. v = HandleInCache(u, fn, hit)
      BY <2>3, <2>4
    <3> HIDE DEF v
    <3>4. SteadyClosures(v.updates) /\ SteadyWorld(v, applyUpdates(S, v.updates).node)
      BY <1>5, <1>7, <1>n, <3>1, <3>2, <3>3, FollowsSteady, Zenon
    <3> QED BY <3>4, Zenon
  <2>5. CASE ~ex
    <3>1. v = u
      BY <2>3, <2>5, Zenon
    <3> QED BY <1>5, <1>7, <1>n, <3>1, Zenon
  <2> QED BY <2>4, <2>5, Zenon
<1> QED BY <1>8, <1>9, Zenon

LEMMA SteadyBefore ==
  ASSUME NEW q, NEW ex, NEW n, SteadyQueue(q, ex, n), NEW s, Steady(s)
  PROVE  SteadyQueue(s \o q, ex, n) /\ (Scheduled(s \o q) => Scheduled(q))
<1> DEFINE r == s \o q
<1>1. /\ IsSequence(q) /\ Len(q) \in Nat /\ Len(s) \in Nat
      /\ IsSequence(r) /\ Len(r) = Len(s) + Len(q)
      /\ \A i \in 1 .. Len(s) : r[i] = s[i]
      /\ \A i \in 1 .. Len(q) : r[Len(s) + i] = q[i]
  BY ConcatSequence, SMTT(20) DEF SteadyQueue, Steady, IsSequence
<1> HIDE DEF r
<1>2. ASSUME NEW i \in 1 .. Len(r), i \notin 1 .. Len(s)
      PROVE  i - Len(s) \in 1 .. Len(q) /\ r[i] = q[i - Len(s)]
  <2>1. i - Len(s) \in 1 .. Len(q) /\ Len(s) + (i - Len(s)) = i
    BY <1>1, <1>2
  <2> QED BY <1>1, <2>1, Zenon
<1>3. \A i \in 1 .. Len(s) : SteadyFn(r[i]) /\ r[i].op \notin {"vlanAdded", "schedule"}
  BY <1>1, Zenon DEF Steady
<1>4. ASSUME NEW i \in 1 .. Len(r)
      PROVE  /\ SteadyFn(r[i])
             /\ r[i].op = "vlanAdded" =>
                  /\ ~ex /\ AddedFor(r[i].cache, n)
                  /\ \A j \in 1 .. Len(r) : r[j].op = "vlanAdded" => j = i
  <2>1. CASE i \notin 1 .. Len(s)
    <3>1. i - Len(s) \in 1 .. Len(q) /\ r[i] = q[i - Len(s)]
      BY <1>2, <2>1, Zenon
    <3>2. ASSUME NEW j \in 1 .. Len(r), r[j].op = "vlanAdded", r[i].op = "vlanAdded"
          PROVE  j = i
      <4>1. j \notin 1 .. Len(s)
        BY <1>3, <3>2, Zenon
      <4>2. j - Len(s) \in 1 .. Len(q) /\ r[j] = q[j - Len(s)]
        BY <1>2, <4>1, Zenon
      <4>3. j - Len(s) = i - Len(s)
        BY <3>1, <3>2, <4>2, Zenon DEF SteadyQueue
      <4> QED BY <1>1, <4>3
    <3> QED BY <3>1, <3>2, Zenon DEF SteadyQueue
  <2>2. CASE i \in 1 .. Len(s)
    BY <1>3, <2>2, Zenon
  <2> QED BY <2>1, <2>2, Zenon
<1>5. Scheduled(r) => Scheduled(q)
  BY <1>1, <1>2, <1>3 DEF Scheduled
<1> QED BY <1>1, <1>4, <1>5, Zenon DEF SteadyQueue, r

LEMMA OnlySteady ==
  ASSUME NEW s, NEW op \in {"portDown", "updateClassID"}, Only(s, op)
  PROVE  Steady(s)
<1>1. op \in SteadyOps /\ op \notin LocatedOps /\ op \notin {"vlanAdded", "schedule"}
  BY Zenon DEF SteadyOps, CacheOps, LocatedOps
<1> QED BY <1>1, Zenon DEF Only, Steady, SteadyFn

\* The observers post nothing about the VLAN while it does not change.
LEMMA StateUpdatedSteady ==
  ASSUME NEW old, NEW new, old.config.vlan = TRUE, new.config.vlan = TRUE,
         old.config.intf = new.config.intf, NEW hit
  PROVE  Steady(stateUpdated(old, new, hit))
<1> DEFINE down == {p \in Ports : old.config.up[p] /\ ~new.config.up[p]}
           ports == portsDown(down)
<1>1. stateUpdated(old, new, hit) = <<>> \o ports
  BY Zenon DEF stateUpdated
<1>2. Only(ports, "portDown")
  BY PortsDownQuiet, Zenon
<1> HIDE DEF ports
<1>3. Steady(ports)
  BY <1>2, OnlySteady, Zenon
<1>4. IsSequence(ports) /\ Len(ports) \in Nat
  BY <1>3, Zenon DEF Steady, IsSequence
<1> DEFINE r == <<>> \o ports
<1>5. /\ IsSequence(r) /\ Len(r) = 0 + Len(ports)
      /\ \A i \in 1 .. Len(ports) : r[0 + i] = ports[i]
  BY <1>4, NoSequence, ConcatSequence
<1> HIDE DEF r
<1>6. Len(r) = Len(ports) /\ \A i \in 1 .. Len(ports) : r[i] = ports[i]
  BY <1>4, <1>5
<1>7. Steady(r)
  BY <1>3, <1>5, <1>6, Zenon DEF Steady
<1> QED BY <1>1, <1>7 DEF r

\* The cache that is created for a table has the entries of the table.
LEMMA CreateCachesFor ==
  ASSUME NEW s, s.config.intf = TheInterface, s.node = NoNode \/ GoodFields(s.node),
         NEW hit \in BOOLEAN
  PROVE  AddedFor(createCaches(s, hit), s.node)
<1> DEFINE fresh == [NoEntry EXCEPT !.fields = s.node]
           state == IF s.node.pending THEN "INCOMPLETE" ELSE "STALE"
           entry == enter(fresh, state, hit)
           e == IF s.node = NoNode THEN NoEntry ELSE scheduleNextUpdate(entry)
           c == createCaches(s, hit)
<1>1. c = [intf |-> TheInterface, entry |-> e, exists |-> TRUE]
  BY DEF createCaches
<1>f. fresh = [fields |-> s.node, state |-> NoEntry.state, probesLeft |-> NoEntry.probesLeft,
               timer |-> NoEntry.timer, sent |-> NoEntry.sent] /\ NoEntry.timer \in BOOLEAN
  BY NoEntryShape DEF EntryShape
<1>2. EntryShape(fresh) /\ fresh.fields = s.node
  <2> HIDE DEF fresh
  <2>1. /\ fresh.fields = s.node /\ fresh.state = NoEntry.state
        /\ fresh.probesLeft = NoEntry.probesLeft /\ fresh.timer = NoEntry.timer
        /\ fresh.sent = NoEntry.sent
    BY <1>f
  <2> QED BY <1>f, <2>1, Zenon DEF EntryShape
<1>3. state \in {"INCOMPLETE", "STALE", "REACHABLE"}
  BY Zenon
<1> HIDE DEF fresh, state
<1>4. Keeps(fresh, entry)
  BY <1>2, <1>3, EnterKeeps, Zenon
<1> HIDE DEF entry
<1>5. LET f == scheduleNextUpdate(entry)
      IN EntryShape(f) /\ f.fields = s.node /\ f # NoEntry
  BY <1>2, <1>4, ScheduleKeeps, Zenon DEF Keeps
<1>6. EntryShape(e) /\ Matches(e, s.node)
  <2>1. CASE s.node = NoNode
    BY <2>1, NoEntryShape, Zenon DEF Matches
  <2>2. CASE s.node # NoNode
    <3>1. e = scheduleNextUpdate(entry)
      BY <2>2, Zenon
    <3>2. GoodFields(s.node) /\ IsFields(s.node) /\ s.node.intf = TheInterface
      BY <2>2, Zenon DEF GoodFields
    <3> QED BY <1>5, <3>1, <3>2 DEF Matches
  <2> QED BY <2>1, <2>2, Zenon
<1> HIDE DEF e, c
<1>7. c.entry = e /\ c.intf = TheInterface /\ c.exists = TRUE
  BY <1>1, Zenon
<1>8. AddedFor(c, s.node)
  BY <1>1, <1>6, <1>7 DEF AddedFor
<1> QED BY <1>8 DEF c

\* LookupClassUpdater counts for every location, and fails only when it takes away
\* a use that it has not counted.
LEMMA LookupRefs ==
  ASSUME NEW old, NEW new, NEW refs, DOMAIN refs = Locations, NEW cls
  PROVE  LET lookup == processNeighborUpdates(old, new, refs, cls)
         IN /\ DOMAIN lookup.refCnt = Locations
            /\ lookup.failed => \E l \in Locations : lookup.refCnt[l] < 0
<1> DEFINE known == ~new.config.vlan \/ new.node.cls # NoClass
           removed == ~known /\ Leaves(old.node, new.node)
           added == ~known /\ Leaves(new.node, old.node)
           was == old.node.loc
           is == new.node.loc
           left == IF removed THEN [refs EXCEPT ![was] = @ - 1] ELSE refs
           after == IF added THEN [left EXCEPT ![is] = @ + 1] ELSE left
           lookup == processNeighborUpdates(old, new, refs, cls)
<1>1. lookup.refCnt = after /\ lookup.failed = (removed /\ refs[was] = 0)
  BY Zenon DEF processNeighborUpdates, removeClassIDForPortAndMac, updateNeighborClassID
<1>2. DOMAIN left = Locations
  BY Zenon
<1>3. DOMAIN after = Locations
  BY <1>2, Zenon
<1>4. ASSUME removed, refs[was] = 0
      PROVE  was \in Locations /\ after[was] < 0
  <2>1. was \in Locations /\ (added => is # was)
    BY <1>4, Zenon DEF Leaves
  <2>2. left[was] = -1
    BY <1>4, <2>1
  <2> HIDE DEF left
  <2>3. after[was] = left[was]
    BY <1>2, <2>1, Zenon
  <2> QED BY <2>1, <2>2, <2>3
<1> QED BY <1>1, <1>3, <1>4, Zenon

LEMMA ApplyNothing ==
  ASSUME NEW s
  PROVE  applyUpdates(s, <<>>) = s
<1>1. IsSequence(<<>>) /\ Len(<<>>) = 0
  BY NoSequence
<1>2. PICK f : Path(s, <<>>, f) /\ applyUpdates(s, <<>>) = f[Len(<<>>)]
  BY <1>1, ApplyHasPath, Zenon
<1> QED BY <1>1, <1>2 DEF Path

LEMMA SteadyInit ==
  ASSUME Init
  PROVE  SteadyInv
<1> DEFINE full == [vlan |-> TRUE, intf |-> CHOOSE i \in Interfaces : TRUE,
                    subnet |-> TRUE, up |-> [p \in Ports |-> TRUE]]
           none == [config |-> [full EXCEPT !.vlan = FALSE], node |-> NoNode]
           first(node) == [config |-> full, node |-> node]
           counted(node) ==
             [l \in Locations |-> IF node.loc = l /\ node.cls # NoClass THEN 1 ELSE 0]
<1>1. PICK node \in EntryFields \cup {NoNode} :
        /\ node # NoNode => node.intf = full.intf /\ node.pending = (node.loc = NoLocation)
        /\ config = full /\ table = node
        /\ \E hit \in BOOLEAN, cls \in Classes :
             LET neighbors == stateUpdated(none, first(node), hit)
                 lookup == processNeighborUpdates(none, first(node), counted(node), cls)
             IN /\ posted \in {neighbors \o lookup.posts, lookup.posts \o neighbors}
                /\ refCnt = lookup.refCnt
  BY Zenon DEF Init
<1>2. PICK hit \in BOOLEAN, cls \in Classes :
        LET neighbors == stateUpdated(none, first(node), hit)
            lookup == processNeighborUpdates(none, first(node), counted(node), cls)
        IN /\ posted \in {neighbors \o lookup.posts, lookup.posts \o neighbors}
           /\ refCnt = lookup.refCnt
  BY <1>1, Zenon
<1> DEFINE new == first(node)
           added == [op |-> "vlanAdded", cache |-> createCaches(new, hit)]
           down == {p \in Ports : none.config.up[p] /\ ~new.config.up[p]}
           ports == portsDown(down)
           neighbors == stateUpdated(none, new, hit)
           lookup == processNeighborUpdates(none, new, counted(node), cls)
           posts == lookup.posts
<1>3. /\ posted \in {neighbors \o posts, posts \o neighbors} /\ refCnt = lookup.refCnt
  BY <1>2, Zenon
<1>4. neighbors = <<added>> \o ports
  BY Zenon DEF stateUpdated
<1>5. new.config = full /\ new.node = node /\ DOMAIN counted(node) = Locations
  BY Zenon
<1>6. full.intf = TheInterface /\ GoodConfig(full)
  BY DEF TheInterface, GoodConfig
<1>7. node = NoNode \/ GoodFields(node)
  <2>1. CASE node \in EntryFields /\ node # NoNode
    <3>1. IsFields(node)
      BY <2>1, Zenon DEF EntryFields, IsFields, IsFlag
    <3> QED BY <1>1, <1>6, <2>1, <3>1, Zenon DEF GoodFields
  <2> QED BY <2>1
<1>8. added.op = "vlanAdded" /\ added.cache = createCaches(new, hit)
  BY Zenon
<1> HIDE DEF full
<1>9. AddedFor(createCaches(new, hit), node)
  BY <1>5, <1>6, <1>7, CreateCachesFor
<1>10. Only(ports, "portDown") /\ Only(posts, "updateClassID") /\ DOMAIN refCnt = Locations
  BY <1>3, <1>5, PortsDownQuiet, LookupPostsQuiet, LookupRefs, Zenon
<1>11. Steady(ports) /\ Steady(posts)
  BY <1>10, OnlySteady, Zenon
<1> HIDE DEF added, ports, posts, new, lookup, none
<1> DEFINE one == <<added>>
<1>12. SteadyQueue(one, FALSE, node) /\ ~Scheduled(one)
  <2>1. IsSequence(one) /\ Len(one) = 1 /\ one[1] = added
    BY OneSequence
  <2> HIDE DEF one
  <2>2. SteadyFn(added)
    BY <1>8 DEF SteadyFn, LocatedOps
  <2> QED BY <1>8, <1>9, <2>1, <2>2 DEF SteadyQueue, Scheduled
<1> HIDE DEF neighbors, one
<1>13. SteadyQueue(neighbors, FALSE, node) /\ ~Scheduled(neighbors)
  <2>1. neighbors = one \o ports
    BY <1>4 DEF one
  <2>2. SteadyQueue(one \o ports, FALSE, node) /\ ~Scheduled(one \o ports)
    BY <1>11, <1>12, SteadyConcat, Zenon
  <2> QED BY <2>1, <2>2, Zenon
<1>14. SteadyQueue(posted, FALSE, node) /\ ~Scheduled(posted)
  <2>1. SteadyQueue(neighbors \o posts, FALSE, node) /\ ~Scheduled(neighbors \o posts)
    BY <1>11, <1>13, SteadyConcat, Zenon
  <2>2. SteadyQueue(posts \o neighbors, FALSE, node) /\ ~Scheduled(posts \o neighbors)
    BY <1>11, <1>13, SteadyBefore, Zenon
  <2> QED BY <1>3, <2>1, <2>2, Zenon
<1>15. /\ updates = <<>> /\ cache = NoCache /\ configs = 0
  BY Zenon DEF Init
<1>16. cache.exists = FALSE /\ cache.entry = NoEntry
       /\ cache = [intf |-> cache.intf, entry |-> cache.entry, exists |-> cache.exists]
  BY <1>15, Zenon DEF NoCache
<1>17. IsSequence(posted)
  BY <1>14 DEF SteadyQueue
<1>18. Shaped(World)
  BY <1>16, <1>17, NoEntryShape, Zenon DEF World, Shaped, IsFlag
<1>19. GoodState(SwitchState) /\ SwitchState.node = node
  <2>1. SwitchState = [config |-> full, node |-> node, died |-> FALSE]
    BY <1>1, Zenon DEF SwitchState
  <2>2. SwitchState.config = full /\ SwitchState.node = node /\ SwitchState.died = FALSE
    BY <2>1, Zenon
  <2> QED BY <1>6, <1>7, <2>1, <2>2, Zenon DEF GoodState, GoodNode, GoodFields
<1>20. applyUpdates(SwitchState, updates).node = node
  BY <1>15, <1>19, ApplyNothing
<1>21. SteadyClosures(updates)
  BY <1>15, NoSequence DEF SteadyClosures
<1>22. SteadyWorld(World, node)
  BY <1>14, <1>16, <1>18, WorldFields, Zenon DEF SteadyWorld, Owned
<1> QED BY <1>10, <1>15, <1>19, <1>20, <1>21, <1>22 DEF SteadyInv, SteadyNow

\* What is done with the closures, or who waits, does not matter.
LEMMA SteadyWorldOf ==
  ASSUME NEW w, NEW n, SteadyWorld(w, n), NEW v, NEW us, NEW blocked,
         v = [cache |-> w.cache, posted |-> w.posted, updates |-> us, waiting |-> blocked]
  PROVE  SteadyWorld(v, n)
<1>1. v.cache = w.cache /\ v.posted = w.posted /\ v.updates = us /\ v.waiting = blocked
  BY Zenon
<1>2. Shaped(v)
  BY <1>1 DEF SteadyWorld, Shaped
<1> QED BY <1>1, <1>2, Zenon DEF SteadyWorld, Owned

LEMMA SteadyPosts ==
  ASSUME NEW w, NEW n, SteadyWorld(w, n), NEW s, Steady(s), NEW v, NEW us, NEW blocked,
         v = [cache |-> w.cache, posted |-> w.posted \o s, updates |-> us, waiting |-> blocked]
  PROVE  SteadyWorld(v, n)
<1> DEFINE r == w.posted \o s
<1>1. SteadyQueue(r, w.cache.exists, n) /\ (Scheduled(r) => Scheduled(w.posted))
  BY SteadyConcat DEF SteadyWorld
<1> HIDE DEF r
<1>2. v = [cache |-> w.cache, posted |-> r, updates |-> us, waiting |-> blocked]
  BY Zenon DEF r
<1>3. v.cache = w.cache /\ v.posted = r /\ v.updates = us /\ v.waiting = blocked
  BY <1>2
<1>4. Shaped(v)
  BY <1>1, <1>2, <1>3, Zenon DEF SteadyWorld, Shaped, SteadyQueue
<1> QED BY <1>1, <1>3, <1>4, Zenon DEF SteadyWorld, Owned

LEMMA InputSteady ==
  ASSUME NEW fn \in Inputs
  PROVE  Steady(<<fn>>)
<1> DEFINE s == <<fn>>
<1>1. /\ fn.op \in SteadyOps /\ fn.op \notin {"vlanAdded", "schedule"}
      /\ fn.op \in LocatedOps => fn.loc \in Locations
  BY Zenon DEF Inputs, SteadyOps, CacheOps, LocatedOps
<1>2. IsSequence(s) /\ Len(s) = 1 /\ s[1] = fn
  BY OneSequence, Zenon
<1> HIDE DEF s
<1>3. Steady(s)
  BY <1>1, <1>2 DEF Steady, SteadyFn
<1> QED BY <1>3, Zenon DEF s

LEMMA SteadySuffix ==
  ASSUME NEW q, SteadyClosures(q), NEW k \in 0 .. Len(q)
  PROVE  SteadyClosures(SubSeq(q, 1, k)) /\ SteadyClosures(SubSeq(q, k + 1, Len(q)))
<1>0. IsSequence(q) /\ Len(q) \in Nat
  BY Zenon DEF SteadyClosures, IsSequence
<1> DEFINE p == SubSeq(q, 1, k)
           r == SubSeq(q, k + 1, Len(q))
<1>1. SteadyClosures(p)
  <2>1. 1 \in 1 .. Len(q) + 1 /\ k \in 0 .. Len(q) /\ 1 <= k + 1
    BY <1>0
  <2>2. /\ IsSequence(p) /\ Len(p) = k - 1 + 1
        /\ \A i \in 1 .. k - 1 + 1 : p[i] = q[1 + i - 1]
    BY <1>0, <2>1, SubSeqSequence, Zenon
  <2>3. k - 1 + 1 = k /\ \A i \in 1 .. k : 1 + i - 1 = i /\ i \in 1 .. Len(q)
    BY <1>0
  <2> HIDE DEF p
  <2> QED BY <2>2, <2>3 DEF SteadyClosures
<1>2. SteadyClosures(r)
  <2> DEFINE m == Len(q) - (k + 1) + 1
  <2>1. k + 1 \in 1 .. Len(q) + 1 /\ Len(q) \in 0 .. Len(q) /\ k + 1 <= Len(q) + 1
    BY <1>0
  <2>2. /\ IsSequence(r) /\ Len(r) = m
        /\ \A i \in 1 .. m : r[i] = q[k + 1 + i - 1]
    BY <1>0, <2>1, SubSeqSequence
  <2>3. \A i \in 1 .. m : k + 1 + i - 1 \in 1 .. Len(q)
    BY <1>0
  <2> HIDE DEF r, m
  <2> QED BY <2>2, <2>3, Zenon DEF SteadyClosures
<1> QED BY <1>1, <1>2, Zenon

LEMMA RunUpdatesSteady ==
  ASSUME SteadyNow, RunUpdates
  PROVE  /\ SteadyNow'
         /\ aborted' => \E l \in Locations : refCnt'[l] < 0
<1>1. PICK n \in 1 .. Len(updates) :
        LET new == applyUpdates(SwitchState, SubSeq(updates, 1, n))
        IN /\ updates' = SubSeq(updates, n + 1, Len(updates))
           /\ \E hit \in BOOLEAN, cls \in Classes :
                LET neighbors == stateUpdated(SwitchState, new, hit)
                    lookup == processNeighborUpdates(SwitchState, new, refCnt, cls)
                IN /\ posted' \in {posted \o neighbors \o lookup.posts,
                                   posted \o lookup.posts \o neighbors}
                   /\ refCnt' = lookup.refCnt
                   /\ aborted' = (new.died \/ lookup.failed)
           /\ config' = new.config /\ table' = new.node
  BY Zenon DEF RunUpdates
<1> DEFINE new == applyUpdates(SwitchState, SubSeq(updates, 1, n))
<1>2. PICK hit \in BOOLEAN, cls \in Classes :
        LET neighbors == stateUpdated(SwitchState, new, hit)
            lookup == processNeighborUpdates(SwitchState, new, refCnt, cls)
        IN /\ posted' \in {posted \o neighbors \o lookup.posts,
                           posted \o lookup.posts \o neighbors}
           /\ refCnt' = lookup.refCnt
           /\ aborted' = (new.died \/ lookup.failed)
  BY <1>1, Zenon
<1> DEFINE neighbors == stateUpdated(SwitchState, new, hit)
           lookup == processNeighborUpdates(SwitchState, new, refCnt, cls)
           posts == lookup.posts
           rest == SubSeq(updates, n + 1, Len(updates))
           node == applyUpdates(SwitchState, updates).node
<1>3. /\ posted' \in {posted \o neighbors \o posts, posted \o posts \o neighbors}
      /\ refCnt' = lookup.refCnt /\ aborted' = (new.died \/ lookup.failed)
      /\ updates' = rest /\ config' = new.config /\ table' = new.node
  BY <1>1, <1>2, Zenon
<1>4. /\ GoodState(SwitchState) /\ SteadyClosures(updates) /\ DOMAIN refCnt = Locations
      /\ SteadyWorld(World, node)
  BY Zenon DEF SteadyNow
<1>5. IsSequence(updates) /\ n \in 0 .. Len(updates)
  BY <1>4 DEF SteadyClosures, IsSequence
<1>6. SteadyClosures(SubSeq(updates, 1, n)) /\ SteadyClosures(rest)
  BY <1>4, <1>5, SteadySuffix, Zenon
<1>7. GoodState(new)
  BY <1>4, <1>6, ApplyKeepsState, Zenon DEF SteadyClosures
<1>8. applyUpdates(new, rest) = applyUpdates(SwitchState, updates)
  BY <1>5, ApplySplit, Zenon
<1>9. /\ SwitchState.config.vlan = TRUE /\ new.config.vlan = TRUE
      /\ SwitchState.config.intf = new.config.intf
  <2> HIDE DEF new
  <2> QED BY <1>4, <1>7 DEF GoodState, GoodConfig
<1>10. Steady(neighbors) /\ Only(posts, "updateClassID")
  BY <1>9, StateUpdatedSteady, LookupPostsQuiet, Zenon
<1>11. DOMAIN refCnt' = Locations /\ (lookup.failed => \E l \in Locations : refCnt'[l] < 0)
  BY <1>3, <1>4, LookupRefs, Zenon
<1> HIDE DEF new, neighbors, posts, lookup, rest, node
<1>12. Steady(posts) /\ new.died = FALSE
  BY <1>7, <1>10, OnlySteady, Zenon DEF GoodState
<1>13. SwitchState' = new
  BY <1>3, <1>7, Zenon DEF SwitchState, GoodState
<1>14. applyUpdates(SwitchState', updates').node = node
  BY <1>3, <1>8, <1>13 DEF node
<1>15. World' = [cache |-> World.cache, posted |-> posted', updates |-> updates', waiting |-> waiting']
  BY WorldFields, Zenon DEF World, RunUpdates
<1>16. ASSUME NEW s, Steady(s), NEW t, Steady(t), posted' = posted \o s \o t
       PROVE  SteadyWorld(World', node)
  <2> DEFINE v == [cache |-> World.cache, posted |-> World.posted \o s,
                   updates |-> updates', waiting |-> waiting']
  <2>1. SteadyWorld(v, node)
    BY <1>4, <1>16, SteadyPosts, Zenon
  <2>2. v.cache = World.cache /\ v.posted = posted \o s
    BY WorldFields, Zenon
  <2> HIDE DEF v
  <2>3. World' = [cache |-> v.cache, posted |-> v.posted \o t, updates |-> updates',
                  waiting |-> waiting']
    BY <1>15, <1>16, <2>2, Zenon
  <2> QED BY <1>16, <2>1, <2>3, SteadyPosts, Zenon
<1>17. SteadyWorld(World', node)
  BY <1>3, <1>10, <1>12, <1>16, Zenon
<1>18. SteadyNow'
  BY <1>3, <1>6, <1>7, <1>11, <1>13, <1>14, <1>17 DEF SteadyNow
<1> QED BY <1>3, <1>11, <1>12, <1>18, Zenon

LEMMA SteadyNext ==
  ASSUME SteadyInv, [Next]_vars
  PROVE  SteadyInv'
<1>0. configs \in Nat /\ (configs = 0 /\ ~aborted => SteadyNow)
  BY Zenon DEF SteadyInv
<1>1. configs' = configs \/ (configs' = configs + 1 /\ ChangeConfig)
  BY Zenon DEF Next, RunPosted, TimeoutExpired, Post, RunUpdates, ChangeConfig, LinkStateChanged, vars
<1>2. configs' \in Nat
  BY <1>0, <1>1
<1>3. SUFFICES ASSUME configs' = 0, ~aborted'
               PROVE  SteadyNow'
  BY <1>2 DEF SteadyInv
<1>4. configs = 0 /\ ~aborted
  <2>1. configs = 0
    BY <1>0, <1>1, <1>3
  <2>2. ~aborted
    BY <1>3, Zenon DEF Next, RunPosted, TimeoutExpired, Post, RunUpdates, ChangeConfig,
                LinkStateChanged, vars, CanRun
  <2> QED BY <2>1, <2>2, Zenon
<1> DEFINE node == applyUpdates(SwitchState, updates).node
<1>5. /\ GoodState(SwitchState) /\ SteadyClosures(updates) /\ DOMAIN refCnt = Locations
      /\ SteadyWorld(World, node)
  BY <1>0, <1>4, Zenon DEF SteadyNow
<1>6. World' = [cache |-> cache', posted |-> posted', updates |-> updates', waiting |-> waiting']
  BY Zenon DEF World
<1>7. ASSUME NEW v, SteadyClosures(v.updates),
             SteadyWorld(v, applyUpdates(SwitchState, v.updates).node),
             cache' = v.cache, posted' = v.posted, updates' = v.updates,
             config' = config, table' = table, refCnt' = refCnt
      PROVE  SteadyNow'
  <2>1. SwitchState' = SwitchState
    BY <1>7 DEF SwitchState
  <2>2. SteadyWorld(World', applyUpdates(SwitchState, v.updates).node)
    BY <1>6, <1>7, SteadyWorldOf, Zenon
  <2>3. SteadyWorld(World', applyUpdates(SwitchState', updates').node)
    BY <1>7, <2>1, <2>2, Zenon
  <2> QED BY <1>5, <1>7, <2>1, <2>3, Zenon DEF SteadyNow
<1>8. CASE RunPosted
  <2>1. PICK hit \in BOOLEAN :
          LET w == Handle([World EXCEPT !.posted = Tail(@)], Head(posted), hit)
          IN /\ cache' = w.cache /\ posted' = w.posted /\ updates' = w.updates
             /\ aborted' = (Head(posted).op = "dangling")
    BY <1>8, Zenon DEF RunPosted
  <2> DEFINE w == Handle([World EXCEPT !.posted = Tail(@)], Head(posted), hit)
  <2>2. /\ posted # <<>> /\ config' = config /\ table' = table /\ refCnt' = refCnt
    BY <1>8, Zenon DEF RunPosted
  <2>3. Head(posted).op # "dangling"
    BY <1>3, <2>1, Zenon
  <2>4. SteadyClosures(w.updates) /\ SteadyWorld(w, applyUpdates(SwitchState, w.updates).node)
    BY <1>5, <2>2, <2>3, HandleSteady, WorldFields, Zenon
  <2>5. cache' = w.cache /\ posted' = w.posted /\ updates' = w.updates
    BY <2>1, Zenon
  <2> HIDE DEF w
  <2> QED BY <1>7, <2>2, <2>4, <2>5, Zenon
<1>9. CASE TimeoutExpired
  <2>1. PICK hit \in BOOLEAN :
          LET w == processEntry(World, hit)
          IN cache' = w.cache /\ posted' = w.posted /\ updates' = w.updates
    BY <1>9, Zenon DEF TimeoutExpired
  <2> DEFINE w == processEntry(World, hit)
  <2>2. config' = config /\ table' = table /\ refCnt' = refCnt /\ cache.entry.timer
    BY <1>9 DEF TimeoutExpired
  <2>3. cache.entry # NoEntry
    BY <2>2, NoEntryShape, Zenon
  <2>4. Shaped(World) /\ World.cache.exists = TRUE
    BY <1>5, <2>3, WorldFields DEF SteadyWorld, Shaped, IsFlag
  <2>5. Follows(World, w)
    BY <2>3, <2>4, ProcessFollows, WorldFields, Zenon
  <2>6. cache' = w.cache /\ posted' = w.posted /\ updates' = w.updates
    BY <2>1
  <2> HIDE DEF w
  <2>7. SteadyClosures(w.updates) /\ SteadyWorld(w, applyUpdates(SwitchState, w.updates).node)
    BY <1>5, <2>4, <2>5, FollowsSteady, WorldFields, Zenon
  <2> QED BY <1>7, <2>2, <2>6, <2>7, Zenon
<1>10. CASE Post
  <2>1. PICK fn \in Inputs : posted' = Append(posted, fn)
    BY <1>10, Zenon DEF Post
  <2>2. /\ UNCHANGED <<config, table, updates, cache, refCnt, waiting>>
    BY <1>10, Zenon DEF Post
  <2>3. IsSequence(posted)
    BY <1>5, WorldFields DEF SteadyWorld, Shaped
  <2>4. posted' = posted \o <<fn>> /\ Steady(<<fn>>)
    BY <2>1, <2>3, AppendAsConcat, InputSteady, Zenon
  <2>5. World' = [cache |-> World.cache, posted |-> World.posted \o <<fn>>, updates |-> updates,
                  waiting |-> waiting]
    BY <1>6, <2>2, <2>4, WorldFields
  <2>6. SteadyWorld(World', node)
    BY <1>5, <2>4, <2>5, SteadyPosts, Zenon
  <2>7. SwitchState' = SwitchState /\ updates' = updates /\ refCnt' = refCnt
    BY <2>2 DEF SwitchState
  <2> QED BY <1>5, <2>6, <2>7, Zenon DEF SteadyNow
<1>11. CASE RunUpdates
  BY <1>0, <1>4, <1>11, RunUpdatesSteady, Zenon
<1>12. CASE LinkStateChanged
  <2>1. PICK p \in Ports : updates' = Append(updates, [op |-> "port", port |-> p, up |-> ~config.up[p]])
    BY <1>12, Zenon DEF LinkStateChanged
  <2>2. UNCHANGED <<config, table, posted, cache, refCnt, waiting>>
    BY <1>12, Zenon DEF LinkStateChanged
  <2> DEFINE u == [op |-> "port", port |-> p, up |-> ~config.up[p]]
             s == applyUpdates(SwitchState, updates)
  <2>3. u.op = "port" /\ updates' = Append(updates, u)
    BY <2>1, Zenon
  <2> HIDE DEF u
  <2>4. SteadyClosure(u)
    BY <2>3, Zenon DEF SteadyClosure
  <2>5. GoodState(s) /\ IsSequence(updates)
    BY <1>5, ApplyKeepsState, Zenon DEF SteadyClosures
  <2>6. SwitchState' = SwitchState /\ refCnt' = refCnt
    BY <2>2 DEF SwitchState
  <2>7. applyUpdates(SwitchState', updates') = applyUpdate(s, u)
    BY <2>3, <2>5, <2>6, ApplyAppend, Zenon
  <2>8. applyUpdate(s, u).node = node
    BY <2>3, <2>4, <2>5, ClosureKeepsState, Zenon
  <2>9. SteadyClosures(updates')
    <3> DEFINE r == Append(updates, u)
    <3>1. /\ IsSequence(r) /\ Len(r) = Len(updates) + 1 /\ Len(updates) \in Nat
          /\ \A i \in 1 .. Len(updates) : r[i] = updates[i]
          /\ r[Len(updates) + 1] = u /\ \A i \in 1 .. Len(updates) : SteadyClosure(updates[i])
      BY <1>5, <2>5, AppendSequence DEF SteadyClosures, IsSequence
    <3> HIDE DEF r
    <3>2. \A i \in 1 .. Len(r) : i \in 1 .. Len(updates) \/ i = Len(updates) + 1
      BY <3>1
    <3>3. SteadyClosures(r)
      BY <2>4, <3>1, <3>2, Zenon DEF SteadyClosures
    <3> QED BY <2>3, <3>3, Zenon DEF r
  <2>10. World' = [cache |-> World.cache, posted |-> World.posted, updates |-> updates',
                   waiting |-> waiting]
    BY <1>6, <2>2, WorldFields, Zenon
  <2>11. SteadyWorld(World', node)
    BY <1>5, <2>10, SteadyWorldOf, Zenon
  <2> QED BY <1>5, <2>6, <2>7, <2>8, <2>9, <2>11, Zenon DEF SteadyNow
<1>13. CASE UNCHANGED vars
  <2>1. World' = World /\ SwitchState' = SwitchState /\ updates' = updates /\ refCnt' = refCnt
    BY <1>13 DEF vars, World, SwitchState
  <2> QED BY <1>5, <2>1, Zenon DEF SteadyNow
<1>14. ~ChangeConfig
  BY <1>0, <1>3, <1>4 DEF ChangeConfig
<1> QED BY <1>8, <1>9, <1>10, <1>11, <1>12, <1>13, <1>14 DEF Next

LEMMA SteadyInvariant == Spec => []SteadyInv
<1>1. Init => SteadyInv
  BY SteadyInit, Zenon
<1>2. SteadyInv /\ [Next]_vars => SteadyInv'
  BY SteadyNext
<1> QED BY <1>1, <1>2, PTL DEF Spec

\* While the configuration does not change, the node that the closures queued will
\* leave in the SwitchState is where the cache has the neighbour, and in its class,
\* for any packets, timeouts, flushes, port flaps and batches in any order
\* (NeighborCacheImpl::programEntry(), programPendingEntry(), flushEntry(),
\* updateEntryClassID()).
THEOREM TheTableFollowsTheCache == Spec => []TableFollowsCache
<1>1. SteadyInv => TableFollowsCache
  <2> DEFINE n == applyUpdates(SwitchState, updates).node
             f == cache.entry.fields
  <2>1. SUFFICES ASSUME SteadyInv, configs = 0, ~aborted, cache.exists
                 PROVE  [n EXCEPT !.pending = FALSE] = [f EXCEPT !.pending = FALSE]
    BY Zenon DEF TableFollowsCache
  <2>2. Matches(cache.entry, n)
    BY <2>1, WorldFields DEF SteadyInv, SteadyNow, SteadyWorld
  <2>3. CASE cache.entry = NoEntry /\ n = NoNode
    BY <2>3, NodeTypes
  <2>4. CASE cache.entry # NoEntry
    <3>1. /\ IsFields(f) /\ f.intf = TheInterface /\ IsFields(n) /\ n.intf = TheInterface
          /\ n.loc = f.loc /\ n.cls = f.cls
      BY <2>2, <2>4 DEF Matches, GoodFields
    <3> HIDE DEF n, f
    <3>2. [n EXCEPT !.pending = FALSE]
            = [loc |-> n.loc, intf |-> n.intf, pending |-> FALSE, cls |-> n.cls]
      BY <3>1, PendingExcept, Zenon
    <3>3. [f EXCEPT !.pending = FALSE]
            = [loc |-> f.loc, intf |-> f.intf, pending |-> FALSE, cls |-> f.cls]
      BY <3>1, PendingExcept, Zenon
    <3> QED BY <3>1, <3>2, <3>3, Zenon
  <2> QED BY <2>2, <2>3, <2>4 DEF Matches
<1> QED BY <1>1, SteadyInvariant, PTL

\* While the configuration does not change, the process ends only over a function
\* that enter() posted for an entry destroyed since, or over a use of a class that
\* LookupClassUpdater did not count: no closure meets a VLAN or a cache that is gone
\* (flushEntryFromSwitchState(), updateEntryClassID()) and no timeout an entry that
\* has expired, if a round of probes has any (uint8_t probesLeft_).
THEOREM ASteadyVlanSurvives ==
  ASSUME maxNeighborProbes % 256 # 0
  PROVE  Spec => SteadyVlanSurvives
<1>1. CacheInv /\ SteadyInv /\ [Next]_vars =>
        [configs = 0 /\ ~aborted /\ aborted' =>
           \/ posted # <<>> /\ Head(posted).op = "dangling" /\ posted' = Tail(posted)
           \/ \E l \in Locations : refCnt'[l] < 0]_vars
  <2> SUFFICES ASSUME CacheInv, SteadyInv, Next, configs = 0, ~aborted, aborted'
               PROVE  \/ posted # <<>> /\ Head(posted).op = "dangling" /\ posted' = Tail(posted)
                      \/ \E l \in Locations : refCnt'[l] < 0
    BY Zenon DEF vars
  <2>1. SteadyNow
    BY Zenon DEF SteadyInv
  <2>2. CASE RunPosted
    <3>1. PICK hit \in BOOLEAN :
            /\ posted' = Handle([World EXCEPT !.posted = Tail(@)], Head(posted), hit).posted
            /\ aborted' = (Head(posted).op = "dangling")
      BY <2>2, Zenon DEF RunPosted
    <3>2. posted # <<>> /\ Head(posted).op = "dangling"
      BY <2>2, <3>1, Zenon DEF RunPosted
    <3>3. posted' = [World EXCEPT !.posted = Tail(@)].posted
      BY <3>1, <3>2, Zenon DEF Handle
    <3>4. posted' = Tail(posted)
      BY <3>3, Zenon DEF World
    <3> QED BY <3>2, <3>4
  <2>3. CASE TimeoutExpired
    <3>1. cache.entry.state = "EXPIRED" /\ cache.entry.timer
      BY <2>3, Zenon DEF TimeoutExpired
    <3>2. GoodEntry(cache.entry)
      BY WorldFields, Zenon DEF CacheInv, GoodWorld
    <3>3. cache.entry # NoEntry
      BY <3>1, NoEntryShape, Zenon
    <3> QED BY <3>1, <3>2, <3>3 DEF GoodEntry
  <2>4. CASE RunUpdates
    BY <2>1, <2>4, RunUpdatesSteady
  <2>5. CASE Post \/ ChangeConfig \/ LinkStateChanged
    BY <2>5, Zenon DEF Post, ChangeConfig, LinkStateChanged
  <2> QED BY <2>2, <2>3, <2>4, <2>5, Zenon DEF Next
<1>2. Spec => []CacheInv /\ []SteadyInv
  BY CacheInvariant, SteadyInvariant
<1>3. Spec => [][Next]_vars
  BY PTL DEF Spec
<1> QED BY <1>1, <1>2, <1>3, PTL DEF SteadyVlanSurvives

=============================================================================
