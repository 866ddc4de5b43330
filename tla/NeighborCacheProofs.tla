------------------------- MODULE NeighborCacheProofs -------------------------
(***************************************************************************)
(* No entry of the neighbour cache is without its timeout, and none is     *)
(* given up before or after its probes are sent, for any locations, ports, *)
(* interfaces and classes, any number of functions and closures waiting    *)
(* and any changes of the configuration.                                   *)
(*                                                                         *)
(* The inductive invariant has two parts.  The first is about the entry: a *)
(* function that sets its timeout is posted only while there is one, since *)
(* destroying an entry leaves the function dangling.  The second, needed   *)
(* for the first, is about the cache: when a posted function adds it, the  *)
(* functions before it have deleted the one there was.                     *)
(***************************************************************************)
EXTENDS NeighborCache, SequenceTheorems, FiniteSetTheorems, TLAPS

-----------------------------------------------------------------------------
(* Sequences whose elements are of no particular type.                     *)

IsSequence(q) ==
  Len(q) \in Nat /\ DOMAIN q = 1 .. Len(q) /\ q = [i \in 1 .. Len(q) |-> q[i]]

LEMMA SeqIsSequence ==
  ASSUME NEW S, NEW q \in Seq(S)
  PROVE  IsSequence(q) /\ \A i \in 1 .. Len(q) : q[i] \in S
<1>1. /\ Len(q) \in Nat /\ q \in [1 .. Len(q) -> S] /\ DOMAIN q = 1 .. Len(q)
  BY LenProperties
<1> QED BY <1>1 DEF IsSequence

LEMMA SequenceIsSeq ==
  ASSUME NEW q, IsSequence(q), NEW S, \A i \in 1 .. Len(q) : q[i] \in S
  PROVE  q \in Seq(S)
<1>1. q \in [1 .. Len(q) -> S] /\ Len(q) \in Nat
  BY DEF IsSequence
<1> QED BY <1>1

LEMMA AppendSequence ==
  ASSUME NEW q, IsSequence(q), NEW x
  PROVE  /\ IsSequence(Append(q, x)) /\ Len(Append(q, x)) = Len(q) + 1
         /\ \A i \in 1 .. Len(q) : Append(q, x)[i] = q[i]
         /\ Append(q, x)[Len(q) + 1] = x
<1> DEFINE S == {q[i] : i \in 1 .. Len(q)} \cup {x}
<1>1. q \in Seq(S)
  <2>1. \A i \in 1 .. Len(q) : q[i] \in S
    OBVIOUS
  <2> HIDE DEF S
  <2> QED BY <2>1, SequenceIsSeq
<1>2. x \in S
  OBVIOUS
<1> HIDE DEF S
<1>3. /\ Append(q, x) \in Seq(S) /\ Len(Append(q, x)) = Len(q) + 1
      /\ \A i \in 1 .. Len(q) : Append(q, x)[i] = q[i]
      /\ Append(q, x)[Len(q) + 1] = x
  BY <1>1, <1>2, AppendProperties
<1>4. IsSequence(Append(q, x))
  BY <1>3, SeqIsSequence, Zenon
<1> QED BY <1>3, <1>4

LEMMA ConcatSequence ==
  ASSUME NEW q, IsSequence(q), NEW s, IsSequence(s)
  PROVE  /\ IsSequence(q \o s) /\ Len(q \o s) = Len(q) + Len(s)
         /\ \A i \in 1 .. Len(q) : (q \o s)[i] = q[i]
         /\ \A i \in 1 .. Len(s) : (q \o s)[Len(q) + i] = s[i]
<1> DEFINE S == {q[i] : i \in 1 .. Len(q)} \cup {s[i] : i \in 1 .. Len(s)}
<1>1. q \in Seq(S) /\ s \in Seq(S)
  <2>1. (\A i \in 1 .. Len(q) : q[i] \in S) /\ (\A i \in 1 .. Len(s) : s[i] \in S)
    OBVIOUS
  <2> HIDE DEF S
  <2> QED BY <2>1, SequenceIsSeq
<1> HIDE DEF S
<1>2. /\ q \o s \in Seq(S)
      /\ Len(q \o s) = Len(q) + Len(s)
      /\ \A i \in 1 .. Len(q) + Len(s) : (q \o s)[i] =
                     IF i <= Len(q) THEN q[i] ELSE s[i - Len(q)]
  BY <1>1, ConcatProperties
<1>3. IsSequence(q \o s) /\ Len(q) \in Nat /\ Len(s) \in Nat
  BY <1>1, <1>2, SeqIsSequence, Zenon DEF IsSequence
<1>4. \A i \in 1 .. Len(q) : (q \o s)[i] = q[i]
  BY <1>2, <1>3
<1>5. ASSUME NEW i \in 1 .. Len(s)
      PROVE  (q \o s)[Len(q) + i] = s[i]
  <2>1. Len(q) + i \in 1 .. Len(q) + Len(s) /\ ~(Len(q) + i <= Len(q))
        /\ Len(q) + i - Len(q) = i
    BY <1>3
  <2> QED BY <1>2, <2>1
<1> QED BY <1>2, <1>3, <1>4, <1>5

Associates(q, s, t) == q \o s \o t = q \o (s \o t)

LEMMA ConcatThree ==
  ASSUME NEW q, IsSequence(q), NEW s, IsSequence(s), NEW t, IsSequence(t)
  PROVE  Associates(q, s, t)
<1> DEFINE S == {q[i] : i \in 1 .. Len(q)} \cup {s[i] : i \in 1 .. Len(s)}
                  \cup {t[i] : i \in 1 .. Len(t)}
<1>1. /\ \A i \in 1 .. Len(q) : q[i] \in S
      /\ \A i \in 1 .. Len(s) : s[i] \in S
      /\ \A i \in 1 .. Len(t) : t[i] \in S
  OBVIOUS
<1> HIDE DEF S
<1>2. q \in Seq(S) /\ s \in Seq(S) /\ t \in Seq(S)
  BY <1>1, SequenceIsSeq
<1> QED BY <1>2, ConcatAssociative DEF Associates

LEMMA AppendAsConcat ==
  ASSUME NEW q, IsSequence(q), NEW x
  PROVE  q \o <<x>> = Append(q, x)
<1> DEFINE S == {q[i] : i \in 1 .. Len(q)} \cup {x}
<1>1. x \in S /\ \A i \in 1 .. Len(q) : q[i] \in S
  OBVIOUS
<1> HIDE DEF S
<1>2. q \in Seq(S)
  BY <1>1, SequenceIsSeq
<1> QED BY <1>1, <1>2, AppendIsConcat

LEMMA TailSequence ==
  ASSUME NEW q, IsSequence(q), q # <<>>
  PROVE  /\ IsSequence(Tail(q)) /\ Len(q) = Len(Tail(q)) + 1
         /\ Head(q) = q[1]
         /\ \A i \in 1 .. Len(Tail(q)) : Tail(q)[i] = q[i + 1]
<1> DEFINE S == {q[i] : i \in 1 .. Len(q)}
<1>1. q \in Seq(S)
  <2>1. \A i \in 1 .. Len(q) : q[i] \in S
    OBVIOUS
  <2> HIDE DEF S
  <2> QED BY <2>1, SequenceIsSeq
<1> HIDE DEF S
<1>2. /\ Tail(q) \in Seq(S) /\ Len(Tail(q)) = Len(q) - 1
      /\ \A i \in 1 .. Len(Tail(q)) : Tail(q)[i] = q[i + 1]
  BY <1>1, HeadTailProperties
<1>3. IsSequence(Tail(q)) /\ Len(q) \in Nat
  BY <1>1, <1>2, SeqIsSequence, Zenon DEF IsSequence
<1>4. Head(q) = q[1]
  BY <1>1
<1> QED BY <1>2, <1>3, <1>4

-----------------------------------------------------------------------------
(* The entry.                                                              *)

\* The probes of a round: probesLeft_ has 8 bits.
Limit == maxNeighborProbes % 256

EntryShape(e) ==
  /\ e = [fields |-> e.fields, state |-> e.state, probesLeft |-> e.probesLeft,
          timer |-> e.timer, sent |-> e.sent]
  /\ e.timer \in BOOLEAN

\* An entry that is in a cache has not expired, and its probes are counted.
GoodEntry(e) ==
  \/ e = NoEntry
  \/ /\ EntryShape(e)
     /\ e.state \in {"INCOMPLETE", "PROBE", "STALE", "REACHABLE"}
     /\ e.probesLeft \in Nat /\ e.sent \in Nat /\ e.probesLeft + e.sent = Limit

LEMMA LimitArithmetic ==
  ASSUME maxNeighborProbes % 256 # 0
  PROVE  /\ Limit \in Nat \ {0}
         /\ uint8(maxNeighborProbes) = Limit
         /\ uint8(maxNeighborProbes - 1) \in Nat
         /\ uint8(maxNeighborProbes - 1) + 1 = Limit
<1>1. maxNeighborProbes \in Nat
  BY NeighborAssumption
<1> QED BY <1>1 DEF Limit, uint8

LEMMA NoEntryShape == EntryShape(NoEntry) /\ NoEntry.timer = FALSE
  BY DEF EntryShape, NoEntry

\* runStateMachine() sends a probe, or gives the entry up.
LEMMA RunStateMachine ==
  ASSUME maxNeighborProbes % 256 # 0, NEW e, GoodEntry(e), e # NoEntry, NEW hit \in BOOLEAN
  PROVE  LET f == runStateMachine(e, hit)
         IN /\ EntryShape(f) /\ f.timer = e.timer
            /\ \/ f.state = "EXPIRED" /\ e.sent = Limit
               \/ GoodEntry(f) /\ f # NoEntry
<1>1. /\ e = [fields |-> e.fields, state |-> e.state, probesLeft |-> e.probesLeft,
              timer |-> e.timer, sent |-> e.sent]
      /\ e.timer \in BOOLEAN
      /\ e.state \in {"INCOMPLETE", "PROBE", "STALE", "REACHABLE"}
      /\ e.probesLeft \in Nat /\ e.sent \in Nat /\ e.probesLeft + e.sent = Limit
  BY DEF GoodEntry, EntryShape
<1>2. ASSUME NEW g, NEW state \in {"INCOMPLETE", "PROBE", "STALE", "REACHABLE"},
             g = [fields |-> e.fields, state |-> state, probesLeft |-> e.probesLeft,
                  timer |-> e.timer, sent |-> e.sent]
      PROVE  LET f == probeIfProbesLeft(g)
             IN /\ EntryShape(f) /\ f.timer = e.timer
                /\ \/ f.state = "EXPIRED" /\ e.sent = Limit
                   \/ GoodEntry(f) /\ f # NoEntry
  <2> DEFINE f == probeIfProbesLeft(g)
  <2>1. CASE e.probesLeft > 0
    <3>1. f = [fields |-> e.fields, state |-> state, probesLeft |-> e.probesLeft - 1,
               timer |-> e.timer, sent |-> e.sent + 1]
      BY <1>2, <2>1, Zenon DEF probeIfProbesLeft
    <3>2. e.probesLeft - 1 \in Nat /\ e.sent + 1 \in Nat
          /\ e.probesLeft - 1 + (e.sent + 1) = Limit
      BY <1>1, <2>1
    <3> HIDE DEF f
    <3>3. /\ f.fields = e.fields /\ f.state = state /\ f.probesLeft = e.probesLeft - 1
          /\ f.timer = e.timer /\ f.sent = e.sent + 1
      BY <3>1
    <3>4. EntryShape(f)
      BY <1>1, <3>1, <3>3 DEF EntryShape
    <3>5. GoodEntry(f)
      BY <3>2, <3>3, <3>4 DEF GoodEntry
    <3>6. f # NoEntry
      BY <3>3 DEF NoEntry
    <3> QED BY <3>3, <3>4, <3>5, <3>6 DEF f
  <2>2. CASE ~(e.probesLeft > 0)
    <3>1. f = [fields |-> e.fields, state |-> "EXPIRED", probesLeft |-> e.probesLeft,
               timer |-> e.timer, sent |-> e.sent]
      BY <1>2, <2>2 DEF probeIfProbesLeft
    <3>2. e.sent = Limit
      BY <1>1, <2>2
    <3> HIDE DEF f
    <3>3. EntryShape(f) /\ f.state = "EXPIRED" /\ f.timer = e.timer
      BY <1>1, <3>1 DEF EntryShape
    <3> QED BY <3>2, <3>3 DEF f
  <2> QED BY <2>1, <2>2
<1>3. CASE e.state \in {"INCOMPLETE", "PROBE"}
  <2>1. runStateMachine(e, hit) = probeIfProbesLeft(e)
    BY <1>3 DEF runStateMachine
  <2> QED BY <1>1, <1>2, <2>1
<1>4. CASE e.state \notin {"INCOMPLETE", "PROBE"}
  <2> DEFINE s == [e EXCEPT !.state = "STALE"]
             p == [s EXCEPT !.state = "PROBE"]
  <2>1. runStateMachine(e, hit) = IF hit THEN probeIfProbesLeft(p) ELSE s
    BY <1>4 DEF runStateMachine, probeStaleEntryIfHit
  <2>2. s = [fields |-> e.fields, state |-> "STALE", probesLeft |-> e.probesLeft,
             timer |-> e.timer, sent |-> e.sent]
    BY <1>1
  <2>p. p = [s EXCEPT !.state = "PROBE"]
    OBVIOUS
  <2> HIDE DEF s, p
  <2>3. p = [fields |-> e.fields, state |-> "PROBE", probesLeft |-> e.probesLeft,
             timer |-> e.timer, sent |-> e.sent]
    BY <2>2, <2>p
  <2>4. /\ s.fields = e.fields /\ s.state = "STALE" /\ s.probesLeft = e.probesLeft
        /\ s.timer = e.timer /\ s.sent = e.sent
    BY <2>2
  <2>5. EntryShape(s)
    BY <1>1, <2>2, <2>4 DEF EntryShape
  <2>6. GoodEntry(s) /\ s # NoEntry
    BY <1>1, <2>4, <2>5 DEF GoodEntry, NoEntry
  <2>7. CASE hit
    BY <1>2, <2>1, <2>3, <2>7
  <2>8. CASE ~hit
    BY <2>1, <2>4, <2>5, <2>6, <2>8
  <2> QED BY <2>7, <2>8
<1> QED BY <1>3, <1>4

\* enter() starts a round of probes.
LEMMA Enter ==
  ASSUME maxNeighborProbes % 256 # 0, NEW e, EntryShape(e),
         NEW state \in {"INCOMPLETE", "STALE", "REACHABLE"}, NEW hit \in BOOLEAN
  PROVE  LET f == enter(e, state, hit)
         IN GoodEntry(f) /\ f # NoEntry /\ f.timer = e.timer
<1> DEFINE probes == uint8(IF state = "INCOMPLETE" THEN maxNeighborProbes - 1
                                                   ELSE maxNeighborProbes)
           first == IF state = "INCOMPLETE" THEN 1 ELSE 0
           g == [e EXCEPT !.state = state, !.probesLeft = probes, !.sent = first]
           f == enter(e, state, hit)
<1>1. f = IF state = "STALE" THEN runStateMachine(g, hit) ELSE g
  BY DEF enter
<1>2. probes \in Nat /\ first \in Nat /\ probes + first = Limit
  BY LimitArithmetic
<1>g. g = [e EXCEPT !.state = state, !.probesLeft = probes, !.sent = first]
  OBVIOUS
<1>s. state = "STALE" => first = 0
  OBVIOUS
<1> HIDE DEF probes, first, g, f
<1>3. g = [fields |-> e.fields, state |-> state, probesLeft |-> probes,
           timer |-> e.timer, sent |-> first]
  BY <1>g, Zenon DEF EntryShape
<1>4. /\ g.fields = e.fields /\ g.state = state /\ g.probesLeft = probes
      /\ g.timer = e.timer /\ g.sent = first
  BY <1>3
<1>5. EntryShape(g)
  BY <1>3, <1>4 DEF EntryShape
<1>6. GoodEntry(g) /\ g # NoEntry
  BY <1>2, <1>4, <1>5 DEF GoodEntry, NoEntry
<1>7. CASE state = "STALE"
  <2>1. f = runStateMachine(g, hit) /\ g.sent = 0
    BY <1>1, <1>4, <1>7, <1>s
  <2>2. Limit # 0
    BY LimitArithmetic
  <2>3. GoodEntry(f) /\ f # NoEntry /\ f.timer = g.timer
    BY <1>6, <2>1, <2>2, RunStateMachine
  <2> QED BY <1>4, <2>3 DEF f
<1>8. CASE state # "STALE"
  BY <1>1, <1>4, <1>6, <1>8 DEF f
<1> QED BY <1>7, <1>8

\* scheduleNextUpdate() sets the timeout of an entry that has not expired.
LEMMA ScheduleNextUpdate ==
  ASSUME NEW e, GoodEntry(e), e # NoEntry
  PROVE  LET f == scheduleNextUpdate(e)
         IN GoodEntry(f) /\ f # NoEntry /\ f.timer = TRUE
<1> DEFINE f == scheduleNextUpdate(e)
<1>1. EntryShape(e) /\ e.state # "EXPIRED" /\ e.timer \in BOOLEAN
  BY DEF GoodEntry, EntryShape
<1>t. (e.timer \/ e.state # "EXPIRED") = TRUE
  BY <1>1
<1>u. f = [e EXCEPT !.timer = TRUE]
  BY <1>t, Zenon DEF scheduleNextUpdate
<1> HIDE DEF f
<1>2. f = [fields |-> e.fields, state |-> e.state, probesLeft |-> e.probesLeft,
           timer |-> TRUE, sent |-> e.sent]
  BY <1>1, <1>u, Zenon DEF EntryShape
<1>3. /\ f.fields = e.fields /\ f.state = e.state /\ f.probesLeft = e.probesLeft
      /\ f.timer = TRUE /\ f.sent = e.sent
  BY <1>2
<1>4. EntryShape(f)
  BY <1>2, <1>3 DEF EntryShape
<1>5. GoodEntry(f) /\ f # NoEntry
  BY <1>3, <1>4 DEF GoodEntry, NoEntry
<1> QED BY <1>3, <1>5 DEF f

-----------------------------------------------------------------------------
(* What the functions run on the neighbour cache thread do.                *)

IsFlag(b) == b \in BOOLEAN

Shaped(w) ==
  /\ w = [cache |-> w.cache, posted |-> w.posted, updates |-> w.updates, waiting |-> w.waiting]
  /\ w.cache = [intf |-> w.cache.intf, entry |-> w.cache.entry, exists |-> w.cache.exists]
  /\ IsFlag(w.cache.exists)
  /\ EntryShape(w.cache.entry)
  /\ IsSequence(w.posted)

Scheduled(q) == \E i \in 1 .. Len(q) : q[i].op = "schedule"

\* An entry has its timeout set, or the function posted that sets it; such a
\* function is posted for an entry that is there.
GoodWorld(w) ==
  /\ Shaped(w)
  /\ GoodEntry(w.cache.entry)
  /\ ~w.cache.exists => w.cache.entry = NoEntry
  /\ w.cache.entry # NoEntry => w.cache.entry.timer \/ Scheduled(w.posted)
  /\ Scheduled(w.posted) => w.cache.entry # NoEntry

\* The functions waiting, after some of those that set a timeout became dangling
\* and others were posted.
Later(q, p) ==
  /\ IsSequence(p) /\ Len(p) >= Len(q)
  /\ \A i \in 1 .. Len(q) :
       p[i] = q[i] \/ (q[i].op = "schedule" /\ p[i] = [op |-> "dangling"])
  /\ \A i \in Len(q) + 1 .. Len(p) : p[i] = Schedule

Effect(w, v) ==
  GoodWorld(v) /\ v.cache.exists = w.cache.exists /\ Later(w.posted, v.posted)

LEMMA LaterSame == ASSUME NEW q, IsSequence(q) PROVE Later(q, q)
  BY DEF Later, IsSequence

LEMMA NoEffect == ASSUME NEW w, GoodWorld(w) PROVE Effect(w, w)
  BY LaterSame DEF Effect, GoodWorld, Shaped

Built(v, intf, f, exists, p, us, blocked) ==
  v = [cache |-> [intf |-> intf, entry |-> f, exists |-> exists],
       posted |-> p, updates |-> us, waiting |-> blocked]

Holds(v, f, exists, p) ==
  v.cache.entry = f /\ v.cache.exists = exists /\ v.posted = p

LEMMA BuiltShaped ==
  ASSUME NEW intf, NEW f, EntryShape(f), NEW exists, IsFlag(exists), NEW p, IsSequence(p),
         NEW us, NEW blocked, NEW v,
         Built(v, intf, f, exists, p, us, blocked)
  PROVE  Shaped(v) /\ Holds(v, f, exists, p)
<1> DEFINE c == [intf |-> intf, entry |-> f, exists |-> exists]
<1>1. c.intf = intf /\ c.entry = f /\ c.exists = exists
  OBVIOUS
<1>2. c = [intf |-> c.intf, entry |-> c.entry, exists |-> c.exists]
  OBVIOUS
<1>3. v = [cache |-> c, posted |-> p, updates |-> us, waiting |-> blocked]
  BY DEF Built
<1> HIDE DEF c
<1>4. v.cache = c /\ v.posted = p /\ v.updates = us /\ v.waiting = blocked
  BY <1>3
<1> QED BY <1>1, <1>2, <1>3, <1>4 DEF Shaped, Holds

LEMMA WithEntry ==
  ASSUME NEW w, Shaped(w), NEW f, EntryShape(f), NEW v, v = [w EXCEPT !.cache.entry = f]
  PROVE  Shaped(v) /\ Holds(v, f, w.cache.exists, w.posted)
<1>1. Built(v, w.cache.intf, f, w.cache.exists, w.posted, w.updates, w.waiting)
  BY DEF Shaped, Built
<1>2. IsFlag(w.cache.exists) /\ IsSequence(w.posted)
  BY DEF Shaped
<1> QED BY <1>1, <1>2, BuiltShaped

LEMMA WithEntryAndPosted ==
  ASSUME NEW w, Shaped(w), NEW f, EntryShape(f), NEW p, IsSequence(p),
         NEW v, v = [w EXCEPT !.cache.entry = f, !.posted = p]
  PROVE  Shaped(v) /\ Holds(v, f, w.cache.exists, p)
<1>1. Built(v, w.cache.intf, f, w.cache.exists, p, w.updates, w.waiting)
  BY Zenon DEF Shaped, Built
<1>2. IsFlag(w.cache.exists)
  BY DEF Shaped
<1> QED BY <1>1, <1>2, BuiltShaped

LEMMA QueueEffect ==
  ASSUME NEW w, NEW v, Effect(w, v), NEW closure
  PROVE  Effect(w, Queue(v, closure))
<1> DEFINE us == Append(v.updates, closure)
           u == Queue(v, closure)
<1>1. u = [v EXCEPT !.updates = us]
  BY DEF Queue
<1> HIDE DEF us, u
<1>2. u = [cache |-> v.cache, posted |-> v.posted, updates |-> us, waiting |-> v.waiting]
  BY <1>1 DEF Effect, GoodWorld, Shaped
<1>3. u.cache = v.cache /\ u.posted = v.posted /\ u.updates = us /\ u.waiting = v.waiting
  BY <1>2
<1>4. Shaped(u)
  BY <1>2, <1>3 DEF Effect, GoodWorld, Shaped
<1>5. Effect(w, u)
  BY <1>3, <1>4 DEF Effect, GoodWorld
<1> QED BY <1>5 DEF u

\* updateState() leaves an entry that has not expired, with the function posted
\* that sets its timeout.
LEMMA UpdateState ==
  ASSUME maxNeighborProbes % 256 # 0, NEW w, Shaped(w), w.cache.exists = TRUE,
         NEW state \in {"INCOMPLETE", "STALE", "REACHABLE"}, NEW hit \in BOOLEAN
  PROVE  Effect(w, updateState(w, state, hit))
<1> DEFINE f == enter(w.cache.entry, state, hit)
           p == Append(w.posted, Schedule)
           v == updateState(w, state, hit)
<1>1. v = [w EXCEPT !.cache.entry = f, !.posted = p]
  BY DEF updateState
<1>2. GoodEntry(f) /\ f # NoEntry
  BY Enter DEF Shaped
<1>3. EntryShape(f)
  BY <1>2 DEF GoodEntry
<1>4. /\ IsSequence(p) /\ Len(p) = Len(w.posted) + 1
      /\ \A i \in 1 .. Len(w.posted) : p[i] = w.posted[i]
      /\ p[Len(w.posted) + 1] = Schedule
  BY AppendSequence DEF Shaped
<1>5. Len(w.posted) \in Nat
  BY DEF Shaped, IsSequence
<1> HIDE DEF f, p, v
<1>a. Shaped(v) /\ Holds(v, f, w.cache.exists, p)
  BY <1>1, <1>3, <1>4, WithEntryAndPosted, Zenon
<1>6. Shaped(v) /\ v.cache.entry = f /\ v.cache.exists = w.cache.exists /\ v.posted = p
  BY <1>a DEF Holds
<1>7. Scheduled(p)
  <2>1. Len(w.posted) + 1 \in 1 .. Len(p) /\ Schedule.op = "schedule"
    BY <1>4, <1>5 DEF Schedule
  <2>2. p[Len(w.posted) + 1].op = "schedule"
    BY <1>4, <2>1
  <2> QED BY <2>1, <2>2 DEF Scheduled
<1>8. Later(w.posted, p)
  BY <1>4, <1>5 DEF Later
<1>9. GoodWorld(v)
  BY <1>2, <1>6, <1>7 DEF GoodWorld
<1>10. Effect(w, v)
  BY <1>6, <1>8, <1>9 DEF Effect
<1> QED BY <1>10 DEF v

LEMMA SetEntryInternal ==
  ASSUME maxNeighborProbes % 256 # 0, NEW w, Shaped(w), w.cache.exists = TRUE, NEW fields,
         NEW state \in {"INCOMPLETE", "STALE", "REACHABLE"}, NEW hit \in BOOLEAN
  PROVE  Effect(w, setEntryInternal(w, fields, state, hit))
<1> DEFINE f == [w.cache.entry EXCEPT !.fields = fields]
           g == [w EXCEPT !.cache.entry.fields = fields]
           x == IF Changed(w, fields) THEN g ELSE w
<1>1. setEntryInternal(w, fields, state, hit) = updateState(x, state, hit)
  BY DEF setEntryInternal
<1>2. g = [w EXCEPT !.cache.entry = f]
  OBVIOUS
<1>3. f = [fields |-> fields, state |-> w.cache.entry.state,
           probesLeft |-> w.cache.entry.probesLeft, timer |-> w.cache.entry.timer,
           sent |-> w.cache.entry.sent]
  BY DEF Shaped, EntryShape
<1> HIDE DEF f, g
<1>4. EntryShape(f)
  BY <1>3 DEF Shaped, EntryShape
<1>a. Shaped(g) /\ Holds(g, f, w.cache.exists, w.posted)
  BY <1>2, <1>4, WithEntry
<1>5. Shaped(g) /\ g.cache.exists = w.cache.exists /\ g.posted = w.posted
  BY <1>a DEF Holds
<1>6. Shaped(x) /\ x.cache.exists = TRUE /\ x.cache.exists = w.cache.exists /\ x.posted = w.posted
  BY <1>5
<1> HIDE DEF x
<1>7. Effect(x, updateState(x, state, hit))
  BY <1>6, UpdateState, Zenon
<1> QED BY <1>1, <1>6, <1>7 DEF Effect

LEMMA SetEntry ==
  ASSUME maxNeighborProbes % 256 # 0, NEW w, Shaped(w), w.cache.exists = TRUE, NEW loc,
         NEW state \in {"INCOMPLETE", "STALE", "REACHABLE"}, NEW hit \in BOOLEAN
  PROVE  Effect(w, setEntry(w, loc, state, hit))
<1> DEFINE fields == Fields(loc, w.cache.intf)
           v == setEntryInternal(w, fields, state, hit)
           closure == [op |-> "program", fields |-> fields]
<1>1. setEntry(w, loc, state, hit) = IF Changed(w, fields) THEN Queue(v, closure) ELSE v
  BY DEF setEntry
<1>2. Effect(w, v)
  BY SetEntryInternal, Zenon
<1> HIDE DEF v, closure, fields
<1>3. Effect(w, Queue(v, closure))
  BY <1>2, QueueEffect
<1> QED BY <1>1, <1>2, <1>3

LEMMA SetPendingEntry ==
  ASSUME maxNeighborProbes % 256 # 0, NEW w, GoodWorld(w), w.cache.exists = TRUE,
         NEW force, NEW hit \in BOOLEAN
  PROVE  Effect(w, setPendingEntry(w, force, hit))
<1> DEFINE fields == PendingFields(w.cache.intf)
           v == setEntryInternal(w, fields, "INCOMPLETE", hit)
           closure == [op |-> "programPending", fields |-> fields, force |-> force]
<1>1. setPendingEntry(w, force, hit) \in {w, Queue(v, closure), v}
  BY DEF setPendingEntry
<1>2. Effect(w, v)
  BY SetEntryInternal, Zenon DEF GoodWorld
<1> HIDE DEF v, closure, fields
<1>3. Effect(w, Queue(v, closure))
  BY <1>2, QueueEffect
<1>4. Effect(w, w)
  BY NoEffect
<1> QED BY <1>1, <1>2, <1>3, <1>4

LEMMA UpdateEntryState ==
  ASSUME maxNeighborProbes % 256 # 0, NEW w, GoodWorld(w), w.cache.exists = TRUE,
         NEW state \in {"INCOMPLETE", "STALE", "REACHABLE"}, NEW hit \in BOOLEAN
  PROVE  Effect(w, updateEntryState(w, state, hit))
<1>1. Effect(w, w) /\ Effect(w, updateState(w, state, hit))
  BY NoEffect, UpdateState, Zenon DEF GoodWorld
<1> QED BY <1>1 DEF updateEntryState

LEMMA UpdateEntryClassID ==
  ASSUME NEW w, GoodWorld(w), w.cache.exists = TRUE, NEW cls
  PROVE  Effect(w, updateEntryClassID(w, cls))
<1>1. CASE w.cache.entry = NoEntry
  BY <1>1, NoEffect DEF updateEntryClassID
<1>2. CASE w.cache.entry # NoEntry
  <2> DEFINE e == w.cache.entry
             c == [e.fields EXCEPT !.cls = cls]
             f == [e EXCEPT !.fields = c]
             v == [w EXCEPT !.cache.entry.fields.cls = cls]
             closure == [op |-> "class", cls |-> cls]
  <2>1. updateEntryClassID(w, cls) = Queue(v, closure)
    BY <1>2 DEF updateEntryClassID
  <2>2. v = [w EXCEPT !.cache.entry = f]
    OBVIOUS
  <2>3. /\ Shaped(w) /\ EntryShape(e) /\ GoodEntry(e) /\ e # NoEntry
        /\ e.timer \/ Scheduled(w.posted)
    BY <1>2 DEF GoodWorld, Shaped
  <2>f. f = [e EXCEPT !.fields = c]
    OBVIOUS
  <2> HIDE DEF v, closure, c, f, e
  <2>4. f = [fields |-> c, state |-> e.state, probesLeft |-> e.probesLeft,
             timer |-> e.timer, sent |-> e.sent]
    BY <2>3, <2>f DEF EntryShape
  <2>5. /\ f.fields = c /\ f.state = e.state /\ f.probesLeft = e.probesLeft
        /\ f.timer = e.timer /\ f.sent = e.sent
    BY <2>4
  <2>6. EntryShape(f)
    BY <2>3, <2>4, <2>5 DEF EntryShape
  <2>7. GoodEntry(f) /\ f # NoEntry
    BY <2>3, <2>5, <2>6 DEF GoodEntry, NoEntry
  <2>8. Shaped(v) /\ Holds(v, f, w.cache.exists, w.posted)
    BY <2>2, <2>3, <2>6, WithEntry
  <2>9. v.cache.entry = f /\ v.cache.exists = w.cache.exists /\ v.posted = w.posted
    BY <2>8 DEF Holds
  <2>10. GoodWorld(v)
    BY <2>3, <2>5, <2>7, <2>8, <2>9 DEF GoodWorld
  <2>11. Effect(w, v)
    BY <2>3, <2>9, <2>10, LaterSame DEF Effect, Shaped
  <2> QED BY <2>1, <2>11, QueueEffect
<1> QED BY <1>1, <1>2

LEMMA DanglingSequence ==
  ASSUME NEW q, IsSequence(q), NEW ops
  PROVE  LET d == Dangling(q, ops)
         IN /\ IsSequence(d) /\ Len(d) = Len(q)
            /\ \A i \in 1 .. Len(q) : d[i] = IF q[i].op \in ops THEN [op |-> "dangling"] ELSE q[i]
<1> DEFINE d == Dangling(q, ops)
           S == {d[i] : i \in 1 .. Len(q)}
<1>1. /\ d = [i \in 1 .. Len(q) |-> IF q[i].op \in ops THEN [op |-> "dangling"] ELSE q[i]]
      /\ Len(q) \in Nat
  BY DEF Dangling, IsSequence
<1>2. /\ DOMAIN d = 1 .. Len(q)
      /\ \A i \in 1 .. Len(q) : d[i] = IF q[i].op \in ops THEN [op |-> "dangling"] ELSE q[i]
  BY <1>1
<1>3. d \in [1 .. Len(q) -> S]
  BY <1>1
<1> HIDE DEF d, S
<1>4. d \in Seq(S)
  BY <1>1, <1>3
<1>5. IsSequence(d) /\ Len(d) \in Nat /\ DOMAIN d = 1 .. Len(d)
  BY <1>4, SeqIsSequence DEF IsSequence
<1>6. Len(d) = Len(q)
  BY <1>1, <1>2, <1>5
<1> QED BY <1>2, <1>5, <1>6 DEF d

LEMMA DanglingLater ==
  ASSUME NEW q, IsSequence(q)
  PROVE  Later(q, Dangling(q, {"schedule"})) /\ ~Scheduled(Dangling(q, {"schedule"}))
<1> DEFINE d == Dangling(q, {"schedule"})
<1>1. /\ IsSequence(d) /\ Len(d) = Len(q) /\ Len(q) \in Nat
      /\ \A i \in 1 .. Len(q) :
           d[i] = IF q[i].op \in {"schedule"} THEN [op |-> "dangling"] ELSE q[i]
  BY DanglingSequence DEF IsSequence
<1> HIDE DEF d
<1>2. Later(q, d)
  BY <1>1 DEF Later
<1>3. ASSUME NEW i \in 1 .. Len(d), d[i].op = "schedule"
      PROVE  FALSE
  <2> DEFINE r == [op |-> "dangling"]
  <2>1. r.op # "schedule"
    OBVIOUS
  <2> HIDE DEF r
  <2>2. d[i] = IF q[i].op \in {"schedule"} THEN r ELSE q[i]
    BY <1>1 DEF r
  <2> QED BY <1>3, <2>1, <2>2
<1> QED BY <1>2, <1>3 DEF Scheduled, d

\* flushEntry() destroys the entry, and the functions posted for it dangle.
LEMMA FlushEntry ==
  ASSUME NEW w, Shaped(w), w.cache.entry # NoEntry, NEW blocking
  PROVE  LET v == flushEntry(w, blocking)
         IN Effect(w, v) /\ v.cache.entry = NoEntry
<1> DEFINE d == Dangling(w.posted, {"schedule"})
           v == [w EXCEPT !.cache.entry = NoEntry, !.posted = d, !.waiting = blocking]
           closure == [op |-> "remove", blocking |-> blocking]
<1>1. flushEntry(w, blocking) = Queue(v, closure)
  BY DEF flushEntry
<1>2. Later(w.posted, d) /\ ~Scheduled(d)
  BY DanglingLater DEF Shaped
<1>v. v = [w EXCEPT !.cache.entry = NoEntry, !.posted = d, !.waiting = blocking]
  OBVIOUS
<1> HIDE DEF d, v, closure
<1>3. Built(v, w.cache.intf, NoEntry, w.cache.exists, d, w.updates, blocking)
  BY <1>v, Zenon DEF Shaped, Built
<1>4. IsFlag(w.cache.exists) /\ IsSequence(d) /\ EntryShape(NoEntry)
  BY <1>2, NoEntryShape DEF Shaped, Later
<1>5. Shaped(v) /\ Holds(v, NoEntry, w.cache.exists, d)
  BY <1>3, <1>4, BuiltShaped
<1>6. v.cache.entry = NoEntry /\ v.cache.exists = w.cache.exists /\ v.posted = d
  BY <1>5 DEF Holds
<1>7. GoodWorld(v)
  BY <1>2, <1>5, <1>6 DEF GoodWorld, GoodEntry
<1>8. Effect(w, v)
  BY <1>2, <1>6, <1>7 DEF Effect
<1>9. Effect(w, Queue(v, closure))
  BY <1>8, QueueEffect
<1>10. Queue(v, closure).cache = v.cache
  BY <1>5 DEF Queue, Shaped
<1> QED BY <1>1, <1>6, <1>9, <1>10

LEMMA PortDown ==
  ASSUME maxNeighborProbes % 256 # 0, NEW w, GoodWorld(w), w.cache.exists = TRUE,
         NEW port, NEW hit \in BOOLEAN
  PROVE  Effect(w, portDown(w, port, hit))
<1>1. Effect(w, w) /\ Effect(w, setPendingEntry(w, TRUE, hit))
  BY NoEffect, SetPendingEntry, Zenon
<1> QED BY <1>1, Zenon DEF portDown

LEMMA SolicitationMine ==
  ASSUME maxNeighborProbes % 256 # 0, NEW w, GoodWorld(w), w.cache.exists = TRUE,
         NEW loc, NEW hit \in BOOLEAN
  PROVE  Effect(w, receivedNeighborSolicitationMine(w, loc, hit))
<1>1. Effect(w, w) /\ Effect(w, setEntry(w, loc, "STALE", hit))
  BY NoEffect, SetEntry, Zenon DEF GoodWorld
<1> QED BY <1>1 DEF receivedNeighborSolicitationMine

LEMMA AdvertisementMine ==
  ASSUME maxNeighborProbes % 256 # 0, NEW w, GoodWorld(w), w.cache.exists = TRUE,
         NEW fn, NEW hit \in BOOLEAN
  PROVE  Effect(w, receivedNeighborAdvertisementMine(w, fn, hit))
<1>1. Effect(w, w)
  BY NoEffect
<1>2. \A state \in {"REACHABLE", "STALE"} :
        Effect(w, setEntry(w, fn.loc, state, hit)) /\ Effect(w, updateEntryState(w, state, hit))
  BY SetEntry, UpdateEntryState, Zenon DEF GoodWorld
<1>3. \/ receivedNeighborAdvertisementMine(w, fn, hit) = w
      \/ \E state \in {"REACHABLE", "STALE"} :
           \/ receivedNeighborAdvertisementMine(w, fn, hit) = setEntry(w, fn.loc, state, hit)
           \/ receivedNeighborAdvertisementMine(w, fn, hit) = updateEntryState(w, state, hit)
  BY DEF receivedNeighborAdvertisementMine
<1> QED BY <1>1, <1>2, <1>3

\* The functions for a cache that is there, apart from the one that sets a timeout.
CacheOps == {"sent", "flush", "arpMine", "arpNotMine", "solicitation", "advertisement",
             "updateClassID", "portDown", "vlanChanged"}

LEMMA VlanChanged ==
  ASSUME NEW w, GoodWorld(w), NEW intf
  PROVE  Effect(w, [w EXCEPT !.cache.intf = intf])
<1> DEFINE e == w.cache.entry
           v == [w EXCEPT !.cache.intf = intf]
<1>1. Shaped(w) /\ IsFlag(w.cache.exists) /\ IsSequence(w.posted) /\ EntryShape(e)
  BY DEF GoodWorld, Shaped
<1>2. Built(v, intf, e, w.cache.exists, w.posted, w.updates, w.waiting)
  BY <1>1 DEF Shaped, Built
<1> HIDE DEF v, e
<1>3. Shaped(v) /\ Holds(v, e, w.cache.exists, w.posted)
  BY <1>1, <1>2, BuiltShaped
<1>4. Shaped(v) /\ v.cache.entry = e /\ v.cache.exists = w.cache.exists /\ v.posted = w.posted
  BY <1>3 DEF Holds
<1>5. Effect(w, v)
  BY <1>1, <1>4, LaterSame DEF Effect, GoodWorld, e
<1> QED BY <1>5 DEF v

LEMMA HandleInCacheEffect ==
  ASSUME maxNeighborProbes % 256 # 0, NEW w, GoodWorld(w), w.cache.exists = TRUE,
         NEW fn, fn.op \in CacheOps, NEW hit \in BOOLEAN
  PROVE  Effect(w, HandleInCache(w, fn, hit))
<1> DEFINE v == HandleInCache(w, fn, hit)
<1>1. CASE fn.op = "sent"
  <2>1. v = setPendingEntry(w, FALSE, hit)
    BY <1>1 DEF HandleInCache
  <2> QED BY <2>1, SetPendingEntry, Zenon
<1>2. CASE fn.op = "arpMine"
  <2>1. v = setEntry(w, fn.loc, "REACHABLE", hit)
    BY <1>2 DEF HandleInCache
  <2> QED BY <2>1, SetEntry, Zenon DEF GoodWorld
<1>3. CASE fn.op = "arpNotMine"
  <2>1. v = setExistingEntry(w, fn.loc, "REACHABLE", hit)
    BY <1>3 DEF HandleInCache
  <2>2. Effect(w, w) /\ Effect(w, setEntry(w, fn.loc, "REACHABLE", hit))
    BY NoEffect, SetEntry, Zenon DEF GoodWorld
  <2> QED BY <2>1, <2>2 DEF setExistingEntry
<1>4. CASE fn.op = "solicitation"
  <2>1. v = receivedNeighborSolicitationMine(w, fn.loc, hit)
    BY <1>4 DEF HandleInCache
  <2> QED BY <2>1, SolicitationMine, Zenon
<1>5. CASE fn.op = "advertisement"
  <2>1. v = receivedNeighborAdvertisementMine(w, fn, hit)
    BY <1>5 DEF HandleInCache
  <2> QED BY <2>1, AdvertisementMine, Zenon
<1>6. CASE fn.op = "updateClassID"
  <2>1. v = updateEntryClassID(w, fn.cls)
    BY <1>6 DEF HandleInCache
  <2> QED BY <2>1, UpdateEntryClassID, Zenon
<1>7. CASE fn.op = "flush"
  <2>1. v = flushEntry(w, TRUE)
    BY <1>7 DEF HandleInCache
  <2>2. CASE w.cache.entry = NoEntry
    BY <2>1, <2>2, NoEffect DEF flushEntry
  <2>3. CASE w.cache.entry # NoEntry
    BY <2>1, <2>3, FlushEntry, Zenon DEF GoodWorld
  <2> QED BY <2>2, <2>3
<1>8. CASE fn.op = "portDown"
  <2>1. v = portDown(w, fn.port, hit)
    BY <1>8 DEF HandleInCache
  <2> QED BY <2>1, PortDown, Zenon
<1>9. CASE fn.op = "vlanChanged"
  <2>1. v = [w EXCEPT !.cache.intf = fn.intf]
    BY <1>9 DEF HandleInCache
  <2> QED BY <2>1, VlanChanged
<1> QED BY <1>1, <1>2, <1>3, <1>4, <1>5, <1>6, <1>7, <1>8, <1>9 DEF CacheOps

\* timeoutExpired(): an entry that stays has its timeout set again, and one that
\* goes has sent all the probes of its round.
LEMMA ProcessEntry ==
  ASSUME maxNeighborProbes % 256 # 0, NEW w, GoodWorld(w), w.cache.entry # NoEntry,
         NEW hit \in BOOLEAN
  PROVE  LET v == processEntry(w, hit)
         IN Effect(w, v) /\ (v.cache.entry = NoEntry => w.cache.entry.sent = Limit)
<1> DEFINE e == w.cache.entry
           a == [e EXCEPT !.timer = FALSE]
           b == runStateMachine(a, hit)
           f == process(e, hit)
           x == [w EXCEPT !.cache.entry = f]
           v == processEntry(w, hit)
<1>1. v = IF x.cache.entry.state = "EXPIRED" THEN flushEntry(x, FALSE) ELSE x
  BY DEF processEntry
<1>2. f = scheduleNextUpdate(b)
  BY DEF process
<1>3. Shaped(w) /\ GoodEntry(e) /\ e # NoEntry /\ EntryShape(e) /\ w.cache.exists = TRUE
  BY DEF GoodWorld, Shaped, IsFlag
<1>a. a = [e EXCEPT !.timer = FALSE]
  OBVIOUS
<1>b. b = runStateMachine(a, hit)
  OBVIOUS
<1>x. x = [w EXCEPT !.cache.entry = f]
  OBVIOUS
<1>e. e = w.cache.entry
  OBVIOUS
<1> HIDE DEF e, a, b, f, x, v
<1>4. a = [fields |-> e.fields, state |-> e.state, probesLeft |-> e.probesLeft,
           timer |-> FALSE, sent |-> e.sent]
  BY <1>3, <1>a, Zenon DEF EntryShape
<1>5. /\ a.fields = e.fields /\ a.state = e.state /\ a.probesLeft = e.probesLeft
      /\ a.timer = FALSE /\ a.sent = e.sent
  BY <1>4
<1>6. EntryShape(a)
  BY <1>4, <1>5, Zenon DEF EntryShape
<1>7. GoodEntry(a) /\ a # NoEntry
  BY <1>3, <1>5, <1>6 DEF GoodEntry, NoEntry
<1>8. /\ EntryShape(b) /\ b.timer = a.timer
      /\ \/ b.state = "EXPIRED" /\ a.sent = Limit
         \/ GoodEntry(b) /\ b # NoEntry
  BY <1>7, <1>b, RunStateMachine
<1>9. CASE b.state = "EXPIRED" /\ a.sent = Limit
  <2>1. (b.timer \/ b.state # "EXPIRED") = FALSE
    BY <1>5, <1>8, <1>9
  <2>2. f = [b EXCEPT !.timer = FALSE]
    BY <1>2, <2>1, Zenon DEF scheduleNextUpdate
  <2>3. f = [fields |-> b.fields, state |-> b.state, probesLeft |-> b.probesLeft,
             timer |-> FALSE, sent |-> b.sent]
    BY <1>8, <2>2, Zenon DEF EntryShape
  <2>4. EntryShape(f) /\ f.state = "EXPIRED"
    BY <1>9, <2>3 DEF EntryShape
  <2>5. Shaped(x) /\ Holds(x, f, w.cache.exists, w.posted)
    BY <1>3, <1>x, <2>4, WithEntry
  <2>6. x.cache.entry = f /\ x.cache.exists = w.cache.exists /\ x.posted = w.posted
    BY <2>5, Zenon DEF Holds
  <2>7. x.cache.entry # NoEntry /\ v = flushEntry(x, FALSE)
    BY <1>1, <2>4, <2>6 DEF NoEntry
  <2>8. Effect(x, v)
    BY <2>5, <2>7, FlushEntry, Zenon
  <2> QED BY <1>5, <1>9, <1>e, <2>6, <2>8, Zenon DEF Effect, v
<1>10. CASE GoodEntry(b) /\ b # NoEntry
  <2>1. GoodEntry(f) /\ f # NoEntry /\ f.timer = TRUE
    BY <1>2, <1>10, ScheduleNextUpdate, Zenon
  <2>2. EntryShape(f) /\ f.state # "EXPIRED"
    BY <2>1 DEF GoodEntry
  <2>3. Shaped(x) /\ Holds(x, f, w.cache.exists, w.posted)
    BY <1>3, <1>x, <2>2, WithEntry
  <2>4. x.cache.entry = f /\ x.cache.exists = w.cache.exists /\ x.posted = w.posted
    BY <2>3 DEF Holds
  <2>5. v = x
    BY <1>1, <2>2, <2>4
  <2>6. GoodWorld(x)
    BY <1>3, <2>1, <2>3, <2>4, Zenon DEF GoodWorld
  <2>7. Effect(w, x)
    BY <1>3, <2>4, <2>6, LaterSame DEF Effect, Shaped
  <2> QED BY <2>1, <2>4, <2>5, <2>7 DEF v
<1> QED BY <1>8, <1>9, <1>10

-----------------------------------------------------------------------------
(* The functions waiting.                                                  *)

AddedCache(c) ==
  /\ c = [intf |-> c.intf, entry |-> c.entry, exists |-> c.exists]
  /\ c.exists = TRUE
  /\ GoodEntry(c.entry)
  /\ c.entry # NoEntry => c.entry.timer = TRUE

KnownOps == CacheOps \cup {"schedule", "dangling", "vlanAdded", "vlanDeleted"}

\* Once the first n functions have run there is no cache: the one there is (ex), and
\* each that they add, is deleted.
Gone(q, n, ex) ==
  /\ ex => \E j \in 1 .. n : q[j].op = "vlanDeleted"
  /\ \A k \in 1 .. n : q[k].op = "vlanAdded" =>
       \E j \in 1 .. n : j > k /\ q[j].op = "vlanDeleted"

\* `vlan': whether the VLAN is configured, as of the last batch.
QueueInv(q, ex, vlan) ==
  /\ IsSequence(q)
  /\ \A i \in 1 .. Len(q) :
       /\ q[i].op \in KnownOps
       /\ q[i].op = "vlanAdded" => AddedCache(q[i].cache) /\ Gone(q, i - 1, ex)
  /\ ~vlan => Gone(q, Len(q), ex)

LEMMA GoneTail ==
  ASSUME NEW q, IsSequence(q), q # <<>>, NEW ex, NEW after,
         after => q[1].op = "vlanAdded" \/ (ex /\ q[1].op # "vlanDeleted"),
         NEW n \in 1 .. Len(q), Gone(q, n, ex)
  PROVE  Gone(Tail(q), n - 1, after)
<1>1. /\ Len(q) \in Nat /\ Len(q) = Len(Tail(q)) + 1
      /\ \A i \in 1 .. Len(Tail(q)) : Tail(q)[i] = q[i + 1]
  BY TailSequence DEF IsSequence
<1> DEFINE t == Tail(q)
<1>2. \A i \in 1 .. Len(t) : t[i] = q[i + 1]
  BY <1>1
<1> HIDE DEF t
<1>3. ASSUME NEW j \in 1 .. n, j > 1, q[j].op = "vlanDeleted"
      PROVE  j - 1 \in 1 .. n - 1 /\ t[j - 1].op = "vlanDeleted"
  <2>1. j - 1 \in 1 .. n - 1 /\ j - 1 \in 1 .. Len(t) /\ j - 1 + 1 = j
    BY <1>1, <1>3 DEF t
  <2>2. t[j - 1] = q[j]
    BY <1>2, <2>1
  <2> QED BY <1>3, <2>1, <2>2
<1>4. ASSUME after
      PROVE  \E j \in 1 .. n - 1 : t[j].op = "vlanDeleted"
  <2>1. PICK j \in 1 .. n : j > 1 /\ q[j].op = "vlanDeleted"
    <3>1. CASE q[1].op = "vlanAdded"
      <4>1. 1 \in 1 .. n
        BY <1>1
      <4> QED BY <3>1, <4>1 DEF Gone
    <3>2. CASE ex /\ q[1].op # "vlanDeleted"
      <4>1. PICK j \in 1 .. n : q[j].op = "vlanDeleted"
        BY <3>2 DEF Gone
      <4>2. j # 1
        BY <3>2, <4>1
      <4>3. j > 1
        BY <1>1, <4>2
      <4> QED BY <4>1, <4>3
    <3> QED BY <1>4, <3>1, <3>2
  <2> QED BY <1>3, <2>1
<1>5. ASSUME NEW k \in 1 .. n - 1, t[k].op = "vlanAdded"
      PROVE  \E j \in 1 .. n - 1 : j > k /\ t[j].op = "vlanDeleted"
  <2>1. k \in 1 .. Len(t) /\ k + 1 \in 1 .. n
    BY <1>1 DEF t
  <2>2. q[k + 1].op = "vlanAdded"
    BY <1>2, <1>5, <2>1
  <2>3. PICK j \in 1 .. n : j > k + 1 /\ q[j].op = "vlanDeleted"
    BY <2>1, <2>2 DEF Gone
  <2>4. j > 1 /\ j - 1 > k
    BY <1>1, <2>3
  <2> QED BY <1>3, <2>3, <2>4
<1> QED BY <1>4, <1>5, Zenon DEF Gone, t

LEMMA QueueTail ==
  ASSUME NEW q, q # <<>>, NEW ex, NEW vlan, QueueInv(q, ex, vlan), NEW after,
         after => q[1].op = "vlanAdded" \/ (ex /\ q[1].op # "vlanDeleted")
  PROVE  QueueInv(Tail(q), after, vlan)
<1> DEFINE t == Tail(q)
<1>1. /\ IsSequence(q) /\ IsSequence(t) /\ Len(q) \in Nat /\ Len(t) \in Nat
      /\ Len(q) = Len(t) + 1
      /\ \A i \in 1 .. Len(t) : t[i] = q[i + 1]
  BY TailSequence DEF QueueInv, IsSequence
<1>2. \A n \in 1 .. Len(q) : Gone(q, n, ex) => Gone(t, n - 1, after)
  BY <1>1, GoneTail, Zenon
<1> HIDE DEF t
<1>3. ASSUME NEW i \in 1 .. Len(t)
      PROVE  /\ t[i].op \in KnownOps
             /\ t[i].op = "vlanAdded" => AddedCache(t[i].cache) /\ Gone(t, i - 1, after)
  <2>1. i + 1 \in 1 .. Len(q) /\ i \in 1 .. Len(q) /\ i + 1 - 1 = i /\ t[i] = q[i + 1]
    BY <1>1
  <2>2. /\ q[i + 1].op \in KnownOps
        /\ q[i + 1].op = "vlanAdded" => AddedCache(q[i + 1].cache) /\ Gone(q, i, ex)
    BY <2>1 DEF QueueInv
  <2>3. Gone(q, i, ex) => Gone(t, i - 1, after)
    BY <1>2, <2>1
  <2> QED BY <2>1, <2>2, <2>3
<1>4. ~vlan => Gone(t, Len(t), after)
  <2>1. Len(q) \in 1 .. Len(q) /\ Len(q) - 1 = Len(t)
    BY <1>1
  <2> QED BY <1>2, <2>1 DEF QueueInv
<1>5. QueueInv(t, after, vlan)
  BY <1>1, <1>3, <1>4, Zenon DEF QueueInv
<1> QED BY <1>5 DEF t

LEMMA QueueLater ==
  ASSUME NEW q, NEW p, Later(q, p), NEW ex, NEW vlan, QueueInv(q, ex, vlan)
  PROVE  QueueInv(p, ex, vlan)
<1>1. /\ IsSequence(q) /\ IsSequence(p) /\ Len(q) \in Nat /\ Len(p) \in Nat /\ Len(p) >= Len(q)
  BY DEF Later, QueueInv, IsSequence
<1>d. [op |-> "dangling"].op = "dangling"
  OBVIOUS
<1>s. Schedule.op = "schedule"
  BY Zenon DEF Schedule
<1>2. ASSUME NEW i \in 1 .. Len(p)
      PROVE  /\ p[i].op \in KnownOps
             /\ p[i].op \in {"vlanAdded", "vlanDeleted"} => i \in 1 .. Len(q) /\ p[i] = q[i]
  <2>1. CASE i \in 1 .. Len(q)
    <3>1. CASE p[i] = q[i]
      BY <2>1, <3>1 DEF QueueInv
    <3>2. CASE p[i] = [op |-> "dangling"]
      <4>1. p[i].op = "dangling"
        BY <3>2, <1>d
      <4> QED BY <4>1, Zenon DEF KnownOps
    <3> QED BY <2>1, <3>1, <3>2, Zenon DEF Later
  <2>2. CASE i \notin 1 .. Len(q)
    <3>1. i \in Len(q) + 1 .. Len(p)
      BY <1>1, <2>2
    <3>2. p[i].op = "schedule"
      BY <3>1, <1>s DEF Later
    <3> QED BY <3>2 DEF KnownOps
  <2> QED BY <2>1, <2>2, Zenon
<1>3. ASSUME NEW j \in 1 .. Len(q), q[j].op = "vlanDeleted"
      PROVE  p[j].op = "vlanDeleted"
  BY <1>3, Zenon DEF Later
<1>4. ASSUME NEW n \in Nat, NEW m \in Nat, n <= m, m <= Len(p), Gone(q, n, ex), n <= Len(q),
             \A i \in n + 1 .. m : i \notin 1 .. Len(q)
      PROVE  Gone(p, m, ex)
  <2>1. ASSUME NEW j \in 1 .. n, q[j].op = "vlanDeleted"
        PROVE  j \in 1 .. m /\ p[j].op = "vlanDeleted"
    <3>1. j \in 1 .. Len(q) /\ j \in 1 .. m
      BY <1>1, <1>4
    <3> QED BY <1>3, <2>1, <3>1
  <2>2. ex => \E j \in 1 .. m : p[j].op = "vlanDeleted"
    BY <1>4, <2>1, Zenon DEF Gone
  <2>3. ASSUME NEW k \in 1 .. m, p[k].op = "vlanAdded"
        PROVE  \E j \in 1 .. m : j > k /\ p[j].op = "vlanDeleted"
    <3>1. k \in 1 .. Len(p)
      BY <1>1, <1>4
    <3>2. k \in 1 .. Len(q) /\ p[k] = q[k]
      BY <1>2, <2>3, <3>1, Zenon
    <3>3. k \in 1 .. n
      BY <1>4, <3>2
    <3>4. PICK j \in 1 .. n : j > k /\ q[j].op = "vlanDeleted"
      BY <1>4, <2>3, <3>2, <3>3 DEF Gone
    <3> QED BY <2>1, <3>4
  <2> QED BY <2>2, <2>3 DEF Gone
<1>5. ASSUME NEW i \in 1 .. Len(p), p[i].op = "vlanAdded"
      PROVE  AddedCache(p[i].cache) /\ Gone(p, i - 1, ex)
  <2>1. i \in 1 .. Len(q) /\ p[i] = q[i]
    BY <1>2, <1>5, Zenon
  <2>2. AddedCache(q[i].cache) /\ Gone(q, i - 1, ex)
    BY <1>5, <2>1 DEF QueueInv
  <2>3. i - 1 \in Nat /\ i - 1 <= Len(p) /\ i - 1 <= Len(q)
        /\ \A x \in i - 1 + 1 .. i - 1 : x \notin 1 .. Len(q)
    BY <1>1, <2>1
  <2>4. Gone(p, i - 1, ex)
    BY <1>4, <2>2, <2>3
  <2> QED BY <2>1, <2>2, <2>4
<1>6. ~vlan => Gone(p, Len(p), ex)
  <2>1. \A x \in Len(q) + 1 .. Len(p) : x \notin 1 .. Len(q)
    BY <1>1
  <2> QED BY <1>1, <1>4, <2>1 DEF QueueInv
<1> QED BY <1>1, <1>2, <1>5, <1>6 DEF QueueInv

-----------------------------------------------------------------------------
(* What the observers post for a batch.                                    *)

VlanOps == {"vlanAdded", "vlanDeleted"}

\* What may be posted for a batch before which the VLAN was (was) and after which
\* it is (now) configured.
Additions(s, was, now) ==
  /\ IsSequence(s)
  /\ \A i \in 1 .. Len(s) :
       /\ s[i].op \in KnownOps /\ s[i].op # "schedule"
       /\ s[i].op = "vlanAdded" => /\ ~was /\ now /\ AddedCache(s[i].cache)
                                   /\ \A j \in 1 .. Len(s) : s[j].op \in VlanOps => j = i
  /\ ~now => \/ ~was
             \/ \E j \in 1 .. Len(s) : s[j].op = "vlanDeleted"

Quiet(s) ==
  IsSequence(s) /\ \A i \in 1 .. Len(s) : s[i].op \in CacheOps

Only(s, op) == IsSequence(s) /\ \A i \in 1 .. Len(s) : s[i].op = op

LEMMA QuietOps ==
  ASSUME NEW op \in CacheOps
  PROVE  op \in KnownOps /\ op # "schedule" /\ op \notin VlanOps /\ op # "vlanDeleted" /\ op # "vlanAdded"
  BY DEF CacheOps, KnownOps, VlanOps

LEMMA AdditionsConcat ==
  ASSUME NEW s, NEW was, NEW now, Additions(s, was, now), NEW t, Quiet(t)
  PROVE  Additions(s \o t, was, now) /\ Additions(t \o s, was, now)
<1>1. /\ IsSequence(s) /\ IsSequence(t) /\ Len(s) \in Nat /\ Len(t) \in Nat
      /\ \A i \in 1 .. Len(t) : t[i].op \in KnownOps /\ t[i].op # "schedule" /\ t[i].op \notin VlanOps
  BY QuietOps DEF Additions, Quiet, IsSequence
<1>v. "vlanAdded" \in VlanOps /\ "vlanDeleted" \in VlanOps
  BY Zenon DEF VlanOps
<1>2. ASSUME NEW r, IsSequence(r), NEW at \in [1 .. Len(s) -> 1 .. Len(r)],
             \A i \in 1 .. Len(s) : r[at[i]] = s[i],
             \A x \in 1 .. Len(r) : \/ \E i \in 1 .. Len(s) : x = at[i]
                                    \/ \E i \in 1 .. Len(t) : r[x] = t[i]
      PROVE  Additions(r, was, now)
  <2>1. ASSUME NEW x \in 1 .. Len(r), r[x].op \in VlanOps
        PROVE  \E i \in 1 .. Len(s) : x = at[i] /\ r[x] = s[i]
    BY <1>1, <1>2, <2>1, Zenon
  <2>2. ASSUME NEW x \in 1 .. Len(r)
        PROVE  r[x].op \in KnownOps /\ r[x].op # "schedule"
    <3>1. CASE \E i \in 1 .. Len(s) : x = at[i]
      BY <1>2, <3>1, Zenon DEF Additions
    <3>2. CASE \E i \in 1 .. Len(t) : r[x] = t[i]
      BY <1>1, <3>2
    <3> QED BY <1>2, <3>1, <3>2, Zenon
  <2>3. ASSUME NEW x \in 1 .. Len(r), r[x].op = "vlanAdded"
        PROVE  /\ ~was /\ now /\ AddedCache(r[x].cache)
               /\ \A y \in 1 .. Len(r) : r[y].op \in VlanOps => y = x
    <3>1. PICK i \in 1 .. Len(s) : x = at[i] /\ r[x] = s[i]
      BY <1>v, <2>1, <2>3, Zenon
    <3>2. /\ ~was /\ now /\ AddedCache(r[x].cache)
          /\ \A j \in 1 .. Len(s) : s[j].op \in VlanOps => j = i
      BY <2>3, <3>1, Zenon DEF Additions
    <3>3. ASSUME NEW y \in 1 .. Len(r), r[y].op \in VlanOps
          PROVE  y = x
      <4>1. PICK j \in 1 .. Len(s) : y = at[j] /\ r[y] = s[j]
        BY <2>1, <3>3, Zenon
      <4> QED BY <3>1, <3>2, <3>3, <4>1
    <3> QED BY <3>2, <3>3
  <2>4. ASSUME NEW j \in 1 .. Len(s), s[j].op = "vlanDeleted"
        PROVE  \E x \in 1 .. Len(r) : r[x].op = "vlanDeleted"
    BY <1>2, <2>4
  <2> QED BY <1>2, <2>2, <2>3, <2>4, Zenon DEF Additions
<1>3. Additions(s \o t, was, now)
  <2> DEFINE r == s \o t
             at == [i \in 1 .. Len(s) |-> i]
  <2>1. /\ IsSequence(r) /\ Len(r) = Len(s) + Len(t)
        /\ \A i \in 1 .. Len(s) : r[i] = s[i]
        /\ \A i \in 1 .. Len(t) : r[Len(s) + i] = t[i]
    BY <1>1, ConcatSequence
  <2> HIDE DEF r
  <2>2. at \in [1 .. Len(s) -> 1 .. Len(r)] /\ \A i \in 1 .. Len(s) : at[i] = i
    BY <1>1, <2>1
  <2>3. ASSUME NEW x \in 1 .. Len(r), x \notin 1 .. Len(s)
        PROVE  \E i \in 1 .. Len(t) : r[x] = t[i]
    <3>1. x - Len(s) \in 1 .. Len(t) /\ Len(s) + (x - Len(s)) = x
      BY <1>1, <2>1, <2>3
    <3> QED BY <2>1, <3>1, Zenon
  <2> HIDE DEF at
  <2>4. Additions(r, was, now)
    BY <1>2, <2>1, <2>2, <2>3, SMTT(20)
  <2> QED BY <2>4, Zenon DEF r
<1>4. Additions(t \o s, was, now)
  <2> DEFINE r == t \o s
             at == [i \in 1 .. Len(s) |-> Len(t) + i]
  <2>1. /\ IsSequence(r) /\ Len(r) = Len(t) + Len(s)
        /\ \A i \in 1 .. Len(t) : r[i] = t[i]
        /\ \A i \in 1 .. Len(s) : r[Len(t) + i] = s[i]
    BY <1>1, ConcatSequence
  <2> HIDE DEF r
  <2>2. at \in [1 .. Len(s) -> 1 .. Len(r)] /\ \A i \in 1 .. Len(s) : at[i] = Len(t) + i
    BY <1>1, <2>1
  <2>3. ASSUME NEW x \in 1 .. Len(r), x \notin 1 .. Len(t)
        PROVE  \E i \in 1 .. Len(s) : x = at[i]
    <3>1. x - Len(t) \in 1 .. Len(s) /\ Len(t) + (x - Len(t)) = x
      BY <1>1, <2>1, <2>3
    <3> QED BY <2>2, <3>1, Zenon
  <2> HIDE DEF at
  <2>4. \A i \in 1 .. Len(s) : r[at[i]] = s[i]
    BY <2>1, <2>2
  <2>5. \A x \in 1 .. Len(r) : \/ \E i \in 1 .. Len(s) : x = at[i]
                               \/ \E i \in 1 .. Len(t) : r[x] = t[i]
    BY <2>1, <2>3
  <2>6. Additions(r, was, now)
    BY <1>2, <2>1, <2>2, <2>4, <2>5, Zenon
  <2> QED BY <2>6 DEF r
<1> QED BY <1>3, <1>4

LEMMA QueueConcat ==
  ASSUME NEW q, NEW ex, NEW was, QueueInv(q, ex, was), NEW s, NEW now, Additions(s, was, now)
  PROVE  QueueInv(q \o s, ex, now) /\ (Scheduled(q \o s) <=> Scheduled(q))
<1> DEFINE r == q \o s
<1>1. /\ IsSequence(q) /\ Len(q) \in Nat /\ Len(s) \in Nat
      /\ IsSequence(r) /\ Len(r) = Len(q) + Len(s)
      /\ \A i \in 1 .. Len(q) : r[i] = q[i]
      /\ \A i \in 1 .. Len(s) : r[Len(q) + i] = s[i]
  <2>1. IsSequence(q) /\ IsSequence(s)
    BY Zenon DEF QueueInv, Additions
  <2> QED BY <2>1, ConcatSequence, SMTT(20) DEF IsSequence
<1> HIDE DEF r
<1>2. ASSUME NEW i \in 1 .. Len(r), i \notin 1 .. Len(q)
      PROVE  i - Len(q) \in 1 .. Len(s) /\ r[i] = s[i - Len(q)]
  <2>1. i - Len(q) \in 1 .. Len(s) /\ Len(q) + (i - Len(q)) = i
    BY <1>1, <1>2
  <2> QED BY <1>1, <2>1, Zenon
<1>3. ASSUME NEW n \in Nat, n <= Len(q), Gone(q, n, ex), NEW m \in Nat, n <= m, m <= Len(r),
             \A k \in n + 1 .. m : r[k].op # "vlanAdded"
      PROVE  Gone(r, m, ex)
  <2>1. ASSUME NEW j \in 1 .. n
        PROVE  j \in 1 .. m /\ r[j] = q[j]
    BY <1>1, <1>3
  <2>2. ex => \E j \in 1 .. m : r[j].op = "vlanDeleted"
    BY <1>3, <2>1, Zenon DEF Gone
  <2>3. ASSUME NEW k \in 1 .. m, r[k].op = "vlanAdded"
        PROVE  \E j \in 1 .. m : j > k /\ r[j].op = "vlanDeleted"
    <3>1. k \in 1 .. n
      BY <1>3, <2>3
    <3>2. PICK j \in 1 .. n : j > k /\ q[j].op = "vlanDeleted"
      BY <1>3, <2>1, <2>3, <3>1, Zenon DEF Gone
    <3> QED BY <2>1, <3>2
  <2> QED BY <2>2, <2>3, Zenon DEF Gone
<1>4. ASSUME NEW i \in 1 .. Len(r)
      PROVE  /\ r[i].op \in KnownOps
             /\ r[i].op = "vlanAdded" => AddedCache(r[i].cache) /\ Gone(r, i - 1, ex)
  <2>1. CASE i \in 1 .. Len(q)
    <3>1. r[i] = q[i]
      BY <1>1, <2>1, Zenon
    <3>2. /\ q[i].op \in KnownOps
          /\ q[i].op = "vlanAdded" => AddedCache(q[i].cache) /\ Gone(q, i - 1, ex)
      BY <2>1, Zenon DEF QueueInv
    <3>3. i - 1 \in Nat /\ i - 1 <= Len(q) /\ i - 1 <= Len(r)
          /\ \A k \in i - 1 + 1 .. i - 1 : r[k].op # "vlanAdded"
      BY <1>1, <2>1
    <3>4. Gone(q, i - 1, ex) => Gone(r, i - 1, ex)
      BY <1>3, <3>3
    <3> QED BY <3>1, <3>2, <3>4, Zenon
  <2>2. CASE i \notin 1 .. Len(q)
    <3> DEFINE x == i - Len(q)
    <3>1. x \in 1 .. Len(s) /\ r[i] = s[x]
      BY <1>2, <2>2, Zenon
    <3>2. r[i].op \in KnownOps
      BY <3>1 DEF Additions
    <3>3. ASSUME r[i].op = "vlanAdded"
          PROVE  AddedCache(r[i].cache) /\ Gone(r, i - 1, ex)
      <4>1. /\ ~was /\ AddedCache(r[i].cache)
            /\ \A j \in 1 .. Len(s) : s[j].op \in VlanOps => j = x
        BY <3>1, <3>3, Zenon DEF Additions
      <4>2. Gone(q, Len(q), ex)
        BY <4>1, Zenon DEF QueueInv
      <4>3. ASSUME NEW k \in Len(q) + 1 .. i - 1, r[k].op = "vlanAdded"
            PROVE  FALSE
        <5>1. k \in 1 .. Len(r) /\ k \notin 1 .. Len(q) /\ k # i
          BY <1>1, <4>3
        <5>2. k - Len(q) \in 1 .. Len(s) /\ r[k] = s[k - Len(q)]
          BY <1>2, <5>1, Zenon
        <5>3. k - Len(q) = x
          BY <4>1, <4>3, <5>2, Zenon DEF VlanOps
        <5> QED BY <1>1, <5>1, <5>3
      <4>4. i - 1 \in Nat /\ Len(q) <= i - 1 /\ i - 1 <= Len(r)
        BY <1>1, <2>2
      <4>5. Gone(r, i - 1, ex)
        BY <1>1, <1>3, <4>2, <4>3, <4>4, SMTT(20)
      <4> QED BY <4>1, <4>5, Zenon
    <3> QED BY <3>2, <3>3
  <2> QED BY <2>1, <2>2, Zenon
<1>5. ASSUME ~now
      PROVE  Gone(r, Len(r), ex)
  <2>1. ASSUME NEW k \in Len(q) + 1 .. Len(r), r[k].op = "vlanAdded"
        PROVE  FALSE
    <3>1. k \in 1 .. Len(r) /\ k \notin 1 .. Len(q)
      BY <1>1
    <3>2. k - Len(q) \in 1 .. Len(s) /\ r[k] = s[k - Len(q)]
      BY <1>2, <3>1, Zenon
    <3> QED BY <1>5, <2>1, <3>2, Zenon DEF Additions
  <2>2. CASE ~was
    <3>1. Gone(q, Len(q), ex)
      BY <2>2, Zenon DEF QueueInv
    <3>2. Len(q) \in Nat /\ Len(r) \in Nat /\ Len(q) <= Len(r) /\ Len(q) <= Len(q)
          /\ Len(r) <= Len(r)
      BY <1>1
    <3>3. \A k \in Len(q) + 1 .. Len(r) : r[k].op # "vlanAdded"
      BY <2>1, Zenon
    <3> QED BY <1>3, <3>1, <3>2, <3>3, Zenon
  <2>3. CASE \E j \in 1 .. Len(s) : s[j].op = "vlanDeleted"
    <3>1. PICK j \in 1 .. Len(s) : s[j].op = "vlanDeleted"
      BY <2>3, Zenon
    <3>2. Len(q) + j \in 1 .. Len(r) /\ r[Len(q) + j].op = "vlanDeleted"
      BY <1>1, <3>1
    <3>3. ASSUME NEW k \in 1 .. Len(r), r[k].op = "vlanAdded"
          PROVE  Len(q) + j > k
      <4>1. k \notin Len(q) + 1 .. Len(r)
        BY <2>1, <3>3, Zenon
      <4> QED BY <1>1, <4>1
    <3> QED BY <3>2, <3>3 DEF Gone
  <2> QED BY <1>5, <2>2, <2>3 DEF Additions
<1>6. QueueInv(r, ex, now)
  BY <1>1, <1>4, <1>5, Zenon DEF QueueInv
<1>7. Scheduled(q) => Scheduled(r)
  <2>1. \A i \in 1 .. Len(q) : i \in 1 .. Len(r) /\ r[i] = q[i]
    BY <1>1
  <2> QED BY <2>1, Zenon DEF Scheduled
<1>8. ASSUME NEW i \in 1 .. Len(r), r[i].op = "schedule"
      PROVE  i \in 1 .. Len(q) /\ q[i].op = "schedule"
  <2>1. i \in 1 .. Len(q)
    <3> SUFFICES ASSUME i \notin 1 .. Len(q) PROVE FALSE
      BY Zenon
    <3>1. i - Len(q) \in 1 .. Len(s) /\ r[i] = s[i - Len(q)]
      BY <1>2, Zenon
    <3> QED BY <1>8, <3>1 DEF Additions
  <2> QED BY <1>1, <1>8, <2>1, Zenon
<1>9. Scheduled(r) => Scheduled(q)
  BY <1>8 DEF Scheduled
<1> QED BY <1>6, <1>7, <1>9, Zenon DEF r

LEMMA CreateCaches ==
  ASSUME maxNeighborProbes % 256 # 0, NEW s, NEW hit \in BOOLEAN
  PROVE  AddedCache(createCaches(s, hit))
<1> DEFINE fresh == [NoEntry EXCEPT !.fields = s.node]
           state == IF s.node.pending THEN "INCOMPLETE" ELSE "STALE"
           entry == enter(fresh, state, hit)
           e == IF s.node = NoNode THEN NoEntry ELSE scheduleNextUpdate(entry)
           c == createCaches(s, hit)
<1>1. c = [intf |-> s.config.intf, exists |-> TRUE, entry |-> e]
  BY Zenon DEF createCaches
<1>2. EntryShape(fresh)
  <2>1. fresh = [fields |-> s.node, state |-> NoEntry.state, probesLeft |-> NoEntry.probesLeft,
                 timer |-> NoEntry.timer, sent |-> NoEntry.sent]
    BY NoEntryShape DEF EntryShape
  <2> HIDE DEF fresh
  <2> QED BY <2>1, NoEntryShape DEF EntryShape
<1>3. state \in {"INCOMPLETE", "STALE", "REACHABLE"}
  BY Zenon
<1> HIDE DEF fresh, state, c
<1>4. GoodEntry(entry) /\ entry # NoEntry
  BY <1>2, <1>3, Enter
<1> HIDE DEF entry
<1>5. LET f == scheduleNextUpdate(entry) IN GoodEntry(f) /\ f # NoEntry /\ f.timer = TRUE
  BY <1>4, ScheduleNextUpdate, Zenon
<1>6. GoodEntry(e) /\ (e # NoEntry => e.timer = TRUE)
  BY <1>5, Zenon DEF GoodEntry
<1> HIDE DEF e
<1>7. /\ c = [intf |-> s.config.intf, entry |-> e, exists |-> TRUE]
      /\ c.intf = s.config.intf /\ c.entry = e /\ c.exists = TRUE
  BY <1>1, Zenon
<1>8. AddedCache(c)
  BY <1>6, <1>7, Zenon DEF AddedCache
<1> QED BY <1>8 DEF c

\* The functions that NeighborUpdater posts for the ports that went down.
LEMMA PortsDownQuiet ==
  ASSUME NEW down \in SUBSET Ports
  PROVE  Quiet(portsDown(down)) /\ Only(portsDown(down), "portDown")
<1> DEFINE n == Cardinality(down)
           port == CHOOSE f \in [1 .. n -> down] : IsInjective(f)
           q == [i \in 1 .. n |-> [op |-> "portDown", port |-> port[i]]]
           S == {q[i] : i \in 1 .. n}
<1>1. portsDown(down) = q
  BY Zenon DEF portsDown
<1>2. n \in Nat
  BY NeighborAssumption, FS_Subset, FS_CardinalityType
<1> HIDE DEF port, n
<1>3. DOMAIN q = 1 .. n /\ \A i \in 1 .. n : q[i].op = "portDown"
  OBVIOUS
<1>4. q \in [1 .. n -> S]
  OBVIOUS
<1> HIDE DEF q, S
<1>5. q \in Seq(S)
  BY <1>2, <1>4
<1>6. IsSequence(q) /\ Len(q) \in Nat /\ DOMAIN q = 1 .. Len(q)
  BY <1>5, SeqIsSequence DEF IsSequence
<1>7. Len(q) = n
  BY <1>2, <1>3, <1>6
<1> QED BY <1>1, <1>3, <1>6, <1>7 DEF Quiet, Only, CacheOps

LEMMA OneSequence ==
  ASSUME NEW x
  PROVE  IsSequence(<<x>>) /\ Len(<<x>>) = 1 /\ <<x>>[1] = x
  BY DEF IsSequence

LEMMA NoSequence == IsSequence(<<>>) /\ Len(<<>>) = 0
  BY DEF IsSequence

LEMMA StateUpdatedAdditions ==
  ASSUME maxNeighborProbes % 256 # 0, NEW old, NEW new, NEW hit \in BOOLEAN
  PROVE  Additions(stateUpdated(old, new, hit), old.config.vlan, new.config.vlan)
<1> DEFINE was == old.config
           now == new.config
           deleted == [op |-> "vlanDeleted"]
           added == [op |-> "vlanAdded", cache |-> createCaches(new, hit)]
           changed == [op |-> "vlanChanged", intf |-> now.intf]
           vlan == CASE was.vlan /\ ~now.vlan -> <<deleted>>
                     [] ~was.vlan /\ now.vlan -> <<added>>
                     [] was.vlan /\ now.vlan /\ was.intf # now.intf -> <<changed>>
                     [] OTHER -> <<>>
           down == {p \in Ports : was.up[p] /\ ~now.up[p]}
           ports == portsDown(down)
<1>1. stateUpdated(old, new, hit) = vlan \o ports
  BY DEF stateUpdated
<1>2. Quiet(ports)
  BY PortsDownQuiet
<1>3. AddedCache(added.cache) /\ added.op = "vlanAdded"
  BY CreateCaches
<1>4. deleted.op = "vlanDeleted" /\ changed.op = "vlanChanged"
  BY Zenon
<1> HIDE DEF ports, deleted, added, changed
<1>5. Additions(vlan, was.vlan, now.vlan)
  <2>1. CASE was.vlan /\ ~now.vlan
    <3>1. vlan = <<deleted>>
      BY <2>1
    <3> HIDE DEF vlan
    <3>2. IsSequence(vlan) /\ Len(vlan) = 1 /\ vlan[1] = deleted
      BY <3>1, OneSequence, Zenon
    <3> QED BY <1>4, <2>1, <3>2 DEF Additions, KnownOps
  <2>2. CASE ~was.vlan /\ now.vlan
    <3>1. vlan = <<added>>
      BY <2>2, Zenon
    <3> HIDE DEF vlan
    <3>2. IsSequence(vlan) /\ Len(vlan) = 1 /\ vlan[1] = added
      BY <3>1, OneSequence
    <3> QED BY <1>3, <2>2, <3>2 DEF Additions, KnownOps
  <2>3. CASE was.vlan /\ now.vlan /\ was.intf # now.intf
    <3>1. vlan = <<changed>>
      BY <2>3, Zenon
    <3> HIDE DEF vlan
    <3>2. IsSequence(vlan) /\ Len(vlan) = 1 /\ vlan[1] = changed
      BY <3>1, OneSequence
    <3> QED BY <1>4, <2>3, <3>2 DEF Additions, KnownOps, CacheOps
  <2>4. CASE ~(was.vlan /\ ~now.vlan) /\ ~(~was.vlan /\ now.vlan)
             /\ ~(was.vlan /\ now.vlan /\ was.intf # now.intf)
    <3>1. vlan = <<>>
      BY <2>4
    <3> HIDE DEF vlan
    <3>2. IsSequence(vlan) /\ Len(vlan) = 0
      BY <3>1, NoSequence, Zenon
    <3> QED BY <2>4, <3>2 DEF Additions
  <2> QED BY <2>1, <2>2, <2>3, <2>4, Zenon
<1> QED BY <1>1, <1>2, <1>5, AdditionsConcat, Zenon

LEMMA LookupPostsQuiet ==
  ASSUME NEW old, NEW new, NEW refs, NEW cls
  PROVE  LET posts == processNeighborUpdates(old, new, refs, cls).posts
         IN Quiet(posts) /\ Only(posts, "updateClassID")
<1> DEFINE known == ~new.config.vlan \/ new.node.cls # NoClass
           removed == ~known /\ Leaves(old.node, new.node)
           added == ~known /\ Leaves(new.node, old.node)
           a == <<[op |-> "updateClassID", cls |-> NoClass]>>
           b == <<[op |-> "updateClassID", cls |-> cls]>>
           x == IF removed THEN a ELSE <<>>
           y == IF added THEN b ELSE <<>>
<1>1. processNeighborUpdates(old, new, refs, cls).posts = x \o y
  BY DEF processNeighborUpdates
<1>2. \A c : Only(<<[op |-> "updateClassID", cls |-> c]>>, "updateClassID")
  <2> SUFFICES ASSUME NEW c PROVE Only(<<[op |-> "updateClassID", cls |-> c]>>, "updateClassID")
    BY Zenon
  <2> DEFINE u == [op |-> "updateClassID", cls |-> c]
             q == <<u>>
  <2>1. u.op = "updateClassID"
    OBVIOUS
  <2> HIDE DEF u
  <2>2. IsSequence(q) /\ Len(q) = 1 /\ q[1] = u
    BY OneSequence
  <2> HIDE DEF q
  <2>3. Only(q, "updateClassID")
    BY <2>1, <2>2 DEF Only
  <2> QED BY <2>3 DEF q, u
<1>3. Only(<<>>, "updateClassID")
  BY NoSequence DEF Only
<1>4. Only(x, "updateClassID") /\ Only(y, "updateClassID")
  BY <1>2, <1>3
<1> HIDE DEF x, y
<1>5. ASSUME NEW i \in 1 .. Len(x \o y)
      PROVE  (x \o y)[i].op = "updateClassID"
  <2>1. /\ Len(x) \in Nat /\ Len(y) \in Nat /\ Len(x \o y) = Len(x) + Len(y)
        /\ \A k \in 1 .. Len(x) : (x \o y)[k] = x[k]
        /\ \A k \in 1 .. Len(y) : (x \o y)[Len(x) + k] = y[k]
    BY <1>4, ConcatSequence DEF Only, IsSequence
  <2>2. CASE i \in 1 .. Len(x)
    BY <1>4, <2>1, <2>2, Zenon DEF Only
  <2>3. CASE i \notin 1 .. Len(x)
    <3>1. i - Len(x) \in 1 .. Len(y) /\ Len(x) + (i - Len(x)) = i
      BY <2>1, <2>3
    <3> QED BY <1>4, <2>1, <3>1 DEF Only
  <2> QED BY <2>2, <2>3
<1>6. IsSequence(x \o y)
  BY <1>4, ConcatSequence, Zenon DEF Only
<1> QED BY <1>1, <1>5, <1>6, Zenon DEF Quiet, Only, CacheOps

-----------------------------------------------------------------------------
(* Running a posted function.                                              *)

LEMMA HandleGood ==
  ASSUME maxNeighborProbes % 256 # 0, NEW w, GoodWorld(w), w.posted # <<>>,
         NEW vlan, QueueInv(w.posted, w.cache.exists, vlan), NEW hit \in BOOLEAN
  PROVE  LET v == Handle([w EXCEPT !.posted = Tail(@)], Head(w.posted), hit)
         IN GoodWorld(v) /\ QueueInv(v.posted, v.cache.exists, vlan)
<1> DEFINE q == w.posted
           t == Tail(q)
           fn == q[1]
           e == w.cache.entry
           ex == w.cache.exists
           u == [w EXCEPT !.posted = t]
           v == Handle(u, fn, hit)
<1>1. /\ Shaped(w) /\ IsFlag(ex) /\ EntryShape(e) /\ IsSequence(q) /\ GoodEntry(e)
      /\ QueueInv(q, ex, vlan)
  BY Zenon DEF GoodWorld, Shaped
<1>2. /\ IsSequence(t) /\ Len(q) = Len(t) + 1 /\ Len(t) \in Nat
      /\ Head(q) = fn
      /\ \A i \in 1 .. Len(t) : t[i] = q[i + 1]
  BY <1>1, TailSequence DEF IsSequence
<1>u. u = [w EXCEPT !.posted = t]
  OBVIOUS
<1>v. Handle([w EXCEPT !.posted = Tail(@)], Head(w.posted), hit) = v
  <2>1. Head(w.posted) = fn
    BY <1>2
  <2> HIDE DEF fn
  <2> QED BY <2>1, Zenon
<1>h. v = Handle(u, fn, hit)
  BY Zenon
<1>w. /\ e # NoEntry => e.timer \/ Scheduled(q)
      /\ Scheduled(q) => e # NoEntry
      /\ ~ex => e = NoEntry
  BY DEF GoodWorld
<1>f. fn = q[1]
  OBVIOUS
<1> HIDE DEF u, t, fn, v
<1>3. Built(u, w.cache.intf, e, ex, t, w.updates, w.waiting)
  BY <1>1, <1>u, Zenon DEF Shaped, Built
<1>4. Shaped(u) /\ Holds(u, e, ex, t)
  BY <1>1, <1>2, <1>3, BuiltShaped, Zenon
<1>5. u.cache.entry = e /\ u.cache.exists = ex /\ u.posted = t
  BY <1>4, Zenon DEF Holds
<1> HIDE DEF q, e, ex
<1>6. 1 \in 1 .. Len(q) /\ fn.op \in KnownOps
  <2>1. 1 \in 1 .. Len(q)
    BY <1>2
  <2> QED BY <1>1, <1>f, <2>1 DEF QueueInv
<1>7. Scheduled(t) => Scheduled(q)
  <2>1. \A i \in 1 .. Len(t) : i + 1 \in 1 .. Len(q) /\ t[i] = q[i + 1]
    BY <1>2
  <2> QED BY <2>1, Zenon DEF Scheduled
<1>8. fn.op # "schedule" => (Scheduled(q) => Scheduled(t))
  <2> SUFFICES ASSUME fn.op # "schedule", NEW i \in 1 .. Len(q), q[i].op = "schedule"
               PROVE  Scheduled(t)
    BY DEF Scheduled
  <2>1. i # 1
    BY <1>f, Zenon
  <2>2. i - 1 \in 1 .. Len(t) /\ i - 1 + 1 = i
    BY <1>2, <2>1
  <2>3. t[i - 1] = q[i]
    BY <1>2, <2>2, Zenon
  <2> QED BY <2>2, <2>3, Zenon DEF Scheduled
<1>9. ASSUME fn.op # "schedule"
      PROVE  GoodWorld(u)
  BY <1>1, <1>4, <1>5, <1>7, <1>8, <1>9, <1>w DEF GoodWorld
<1>q. q # <<>>
  BY Zenon DEF q
<1>10. fn.op # "vlanDeleted" => QueueInv(t, ex, vlan)
  BY <1>1, <1>f, <1>q, QueueTail DEF t
<1>11. CASE fn.op = "vlanDeleted"
  <2> DEFINE d == Dangling(t, {"schedule"})
             us == Dangling(u.updates, {"remove", "class"})
  <2>1. v = [u EXCEPT !.cache = NoCache, !.posted = d, !.updates = us]
    BY <1>5, <1>11, <1>h, Zenon DEF Handle, vlanDeleted
  <2>2. Later(t, d) /\ ~Scheduled(d)
    BY <1>2, DanglingLater
  <2> HIDE DEF d, us
  <2>3. Built(v, 0, NoEntry, FALSE, d, us, u.waiting)
    BY <1>4, <2>1, Zenon DEF Shaped, Built, NoCache
  <2>4. IsSequence(d) /\ IsFlag(FALSE) /\ EntryShape(NoEntry)
    BY <2>2, NoEntryShape DEF Later, IsFlag
  <2>5. Shaped(v) /\ Holds(v, NoEntry, FALSE, d)
    BY <2>3, <2>4, BuiltShaped, Zenon
  <2>6. v.cache.entry = NoEntry /\ v.cache.exists = FALSE /\ v.posted = d
    BY <2>5, Zenon DEF Holds
  <2>7. GoodWorld(v)
    BY <2>2, <2>5, <2>6 DEF GoodWorld, GoodEntry
  <2>8. QueueInv(t, FALSE, vlan)
    BY <1>1, <1>q, QueueTail, Zenon DEF t
  <2>9. QueueInv(d, FALSE, vlan)
    BY <2>2, <2>8, QueueLater, Zenon
  <2> QED BY <1>v, <2>6, <2>7, <2>9, Zenon
<1>12. CASE fn.op = "vlanAdded"
  <2> DEFINE c == fn.cache
  <2>1. v = [u EXCEPT !.cache = c]
    BY <1>12, <1>h, Zenon DEF Handle
  <2>2. AddedCache(c) /\ Gone(q, 0, ex)
    <3>1. AddedCache(q[1].cache) /\ Gone(q, 1 - 1, ex)
      BY <1>1, <1>6, <1>12, <1>f, Zenon DEF QueueInv
    <3> QED BY <1>f, <3>1
  <2>3. ~ex
    BY <2>2 DEF Gone
  <2>4. ~Scheduled(t)
    BY <1>7, <1>w, <2>3
  <2>5. /\ c = [intf |-> c.intf, entry |-> c.entry, exists |-> TRUE] /\ GoodEntry(c.entry)
        /\ c.entry # NoEntry => c.entry.timer = TRUE
    BY <2>2, Zenon DEF AddedCache
  <2> HIDE DEF c
  <2>6. Built(v, c.intf, c.entry, TRUE, t, u.updates, u.waiting)
    <3>1. v = [cache |-> c, posted |-> t, updates |-> u.updates, waiting |-> u.waiting]
      BY <1>4, <1>5, <2>1, Zenon DEF Shaped
    <3> QED BY <2>5, <3>1, Zenon DEF Built
  <2>7. EntryShape(c.entry) /\ IsFlag(TRUE)
    BY <2>5, NoEntryShape DEF GoodEntry, IsFlag
  <2>8. Shaped(v) /\ Holds(v, c.entry, TRUE, t)
    BY <1>2, <2>6, <2>7, BuiltShaped, Zenon
  <2>9. v.cache.entry = c.entry /\ v.cache.exists = TRUE /\ v.posted = t
    BY <2>8, Zenon DEF Holds
  <2>10. GoodWorld(v)
    BY <2>4, <2>5, <2>8, <2>9 DEF GoodWorld
  <2>11. QueueInv(t, TRUE, vlan)
    BY <1>1, <1>12, <1>f, <1>q, QueueTail, Zenon DEF t
  <2> QED BY <1>v, <2>9, <2>10, <2>11, Zenon
<1>13. CASE fn.op = "dangling"
  <2>1. v = u
    BY <1>13, <1>h DEF Handle
  <2> QED BY <1>5, <1>9, <1>10, <1>13, <1>v, <2>1
<1>14. CASE fn.op = "schedule"
  <2> DEFINE f == scheduleNextUpdate(e)
  <2>1. Scheduled(q)
    BY <1>6, <1>14, <1>f, Zenon DEF Scheduled
  <2>2. e # NoEntry /\ ex = TRUE
    BY <1>1, <1>w, <2>1 DEF IsFlag
  <2>3. v = [u EXCEPT !.cache.entry = f]
    BY <1>5, <1>14, <1>h, <2>2 DEF Handle, HandleInCache
  <2>4. GoodEntry(f) /\ f # NoEntry /\ f.timer = TRUE
    BY <1>1, <2>2, ScheduleNextUpdate, Zenon
  <2> HIDE DEF f
  <2>5. EntryShape(f)
    BY <2>4 DEF GoodEntry
  <2>6. Shaped(v) /\ Holds(v, f, u.cache.exists, u.posted)
    BY <1>4, <2>3, <2>5, WithEntry, Zenon
  <2>7. v.cache.entry = f /\ v.cache.exists = ex /\ v.posted = t
    BY <1>5, <2>6, Zenon DEF Holds
  <2>8. GoodWorld(v)
    BY <2>2, <2>4, <2>6, <2>7 DEF GoodWorld
  <2> QED BY <1>10, <1>14, <1>v, <2>7, <2>8, Zenon
<1>15. CASE fn.op \in CacheOps
  <2>1. fn.op \notin {"vlanDeleted", "vlanAdded", "dangling", "schedule"}
    BY <1>15, Zenon DEF CacheOps
  <2>2. GoodWorld(u) /\ QueueInv(t, ex, vlan)
    BY <1>9, <1>10, <2>1
  <2>3. v = IF u.cache.exists THEN HandleInCache(u, fn, hit) ELSE u
    BY <1>h, <2>1 DEF Handle
  <2>4. CASE u.cache.exists = TRUE
    <3>1. v = HandleInCache(u, fn, hit)
      BY <2>3, <2>4
    <3>2. Effect(u, v)
      BY <1>15, <2>2, <2>4, <3>1, HandleInCacheEffect, Zenon
    <3>3. GoodWorld(v) /\ v.cache.exists = ex /\ Later(t, v.posted)
      BY <1>5, <3>2, Zenon DEF Effect
    <3>4. QueueInv(v.posted, ex, vlan)
      BY <2>2, <3>3, QueueLater
    <3> QED BY <1>v, <3>3, <3>4, Zenon
  <2>5. CASE u.cache.exists = FALSE
    <3>1. v = u
      BY <2>3, <2>5, Zenon
    <3> QED BY <1>5, <1>v, <2>2, <3>1
  <2> QED BY <1>1, <1>5, <2>4, <2>5, Zenon DEF IsFlag
<1> QED BY <1>6, <1>11, <1>12, <1>13, <1>14, <1>15, Zenon DEF KnownOps

-----------------------------------------------------------------------------
(* The invariant.                                                          *)

CacheInv ==
  GoodWorld(World) /\ QueueInv(posted, cache.exists, config.vlan)

LEMMA WorldFields ==
  /\ World.cache = cache /\ World.posted = posted
  /\ World.updates = updates /\ World.waiting = waiting
  BY Zenon DEF World

\* Only the cache and the functions waiting matter.
LEMMA GoodWorldOf ==
  ASSUME NEW w, GoodWorld(w), NEW v, NEW us, NEW blocked,
         v = [cache |-> w.cache, posted |-> w.posted, updates |-> us, waiting |-> blocked]
  PROVE  GoodWorld(v)
<1>1. v.cache = w.cache /\ v.posted = w.posted /\ v.updates = us /\ v.waiting = blocked
  BY Zenon
<1> HIDE DEF GoodWorld
<1>2. Shaped(v)
  BY <1>1 DEF GoodWorld, Shaped
<1> QED BY <1>1, <1>2, Zenon DEF GoodWorld

LEMMA CacheInit ==
  ASSUME maxNeighborProbes % 256 # 0, Init
  PROVE  CacheInv
<1>1. \E none, first, counted :
         /\ ~none.config.vlan /\ first.config.vlan
         /\ config = first.config
         /\ \E hit \in BOOLEAN, cls \in Classes :
              LET neighbors == stateUpdated(none, first, hit)
                  lookup == processNeighborUpdates(none, first, counted, cls)
              IN posted \in {neighbors \o lookup.posts, lookup.posts \o neighbors}
  <2>1. PICK node \in EntryFields \cup {NoNode} :
       LET full == [vlan |-> TRUE, intf |-> CHOOSE i \in Interfaces : TRUE,
                    subnet |-> TRUE, up |-> [p \in Ports |-> TRUE]]
           none == [config |-> [full EXCEPT !.vlan = FALSE], node |-> NoNode]
           first == [config |-> full, node |-> node]
           counted == [l \in Locations |-> IF node.loc = l /\ node.cls # NoClass THEN 1 ELSE 0]
       IN /\ config = full
          /\ \E hit \in BOOLEAN, cls \in Classes :
               LET neighbors == stateUpdated(none, first, hit)
                   lookup == processNeighborUpdates(none, first, counted, cls)
               IN posted \in {neighbors \o lookup.posts, lookup.posts \o neighbors}
    BY Zenon DEF Init
  <2> DEFINE full == [vlan |-> TRUE, intf |-> CHOOSE i \in Interfaces : TRUE,
                      subnet |-> TRUE, up |-> [p \in Ports |-> TRUE]]
             none == [config |-> [full EXCEPT !.vlan = FALSE], node |-> NoNode]
             first == [config |-> full, node |-> node]
             counted == [l \in Locations |-> IF node.loc = l /\ node.cls # NoClass THEN 1 ELSE 0]
  <2>2. ~none.config.vlan /\ first.config.vlan /\ first.config = full
    OBVIOUS
  <2> HIDE DEF none, first, counted, full
  <2>3. config = full
    BY <2>1, Zenon DEF full
  <2>4. \E hit \in BOOLEAN, cls \in Classes :
           LET neighbors == stateUpdated(none, first, hit)
               lookup == processNeighborUpdates(none, first, counted, cls)
           IN posted \in {neighbors \o lookup.posts, lookup.posts \o neighbors}
    BY <2>1, Zenon DEF none, first, counted, full
  <2>5. config = first.config
    BY <2>2, <2>3, Zenon
  <2> WITNESS none, first, counted
  <2> QED BY <2>2, <2>4, <2>5
<1>a. PICK none, first, counted :
         /\ ~none.config.vlan /\ first.config.vlan
         /\ config = first.config
         /\ \E hit \in BOOLEAN, cls \in Classes :
              LET neighbors == stateUpdated(none, first, hit)
                  lookup == processNeighborUpdates(none, first, counted, cls)
              IN posted \in {neighbors \o lookup.posts, lookup.posts \o neighbors}
  BY <1>1, Zenon
<1>b. PICK hit \in BOOLEAN, cls \in Classes :
        LET neighbors == stateUpdated(none, first, hit)
            lookup == processNeighborUpdates(none, first, counted, cls)
        IN posted \in {neighbors \o lookup.posts, lookup.posts \o neighbors}
  BY <1>a
<1> DEFINE neighbors == stateUpdated(none, first, hit)
           posts == processNeighborUpdates(none, first, counted, cls).posts
<1>2. Additions(neighbors, none.config.vlan, first.config.vlan) /\ Quiet(posts)
  BY StateUpdatedAdditions, LookupPostsQuiet
<1>3. posted \in {neighbors \o posts, posts \o neighbors}
  BY <1>b
<1> HIDE DEF neighbors, posts
<1>4. Additions(posted, none.config.vlan, first.config.vlan)
  BY <1>2, <1>3, AdditionsConcat, Zenon
<1>5. QueueInv(<<>>, FALSE, none.config.vlan) /\ ~Scheduled(<<>>)
  BY <1>a, NoSequence DEF QueueInv, Gone, Scheduled
<1>6. QueueInv(<<>> \o posted, FALSE, first.config.vlan) /\ ~Scheduled(<<>> \o posted)
  BY <1>4, <1>5, QueueConcat, Zenon
<1>7. <<>> \o posted = posted /\ IsSequence(posted)
  <2> DEFINE r == <<>> \o posted
  <2>1. IsSequence(posted) /\ Len(posted) \in Nat
    BY <1>4 DEF Additions, IsSequence
  <2>2. /\ IsSequence(r) /\ Len(r) = 0 + Len(posted)
        /\ \A i \in 1 .. Len(posted) : r[0 + i] = posted[i]
    BY <2>1, NoSequence, ConcatSequence
  <2> HIDE DEF r
  <2>3. Len(r) = Len(posted) /\ \A i \in 1 .. Len(posted) : r[i] = posted[i]
    BY <2>1, <2>2
  <2>4. r = posted
    BY <2>1, <2>2, <2>3, Zenon DEF IsSequence
  <2> QED BY <2>1, <2>4, Zenon DEF r
<1>8. cache = NoCache
  BY DEF Init
<1>9. cache.exists = FALSE /\ cache.entry = NoEntry
      /\ cache = [intf |-> cache.intf, entry |-> cache.entry, exists |-> cache.exists]
  BY <1>8 DEF NoCache
<1>10. Shaped(World)
  BY <1>7, <1>9, NoEntryShape, Zenon DEF World, Shaped, IsFlag
<1>11. GoodWorld(World)
  BY <1>6, <1>7, <1>9, <1>10, WorldFields DEF GoodWorld, GoodEntry
<1> QED BY <1>a, <1>6, <1>7, <1>9, <1>11, Zenon DEF CacheInv

LEMMA CacheNext ==
  ASSUME maxNeighborProbes % 256 # 0, CacheInv, [Next]_vars
  PROVE  CacheInv'
<1> DEFINE inv(w, vlan) == GoodWorld(w) /\ QueueInv(w.posted, w.cache.exists, vlan)
<1>0. GoodWorld(World) /\ QueueInv(posted, cache.exists, config.vlan)
  BY DEF CacheInv
<1>p. World' = [cache |-> cache', posted |-> posted', updates |-> updates', waiting |-> waiting']
  BY Zenon DEF World
<1>1. ASSUME NEW w, GoodWorld(w), QueueInv(w.posted, w.cache.exists, config.vlan'),
             cache' = w.cache, posted' = w.posted
      PROVE  CacheInv'
  <2>1. GoodWorld(World')
    BY <1>1, <1>p, GoodWorldOf, Zenon
  <2> QED BY <1>1, <2>1 DEF CacheInv
<1>2. CASE RunPosted
  <2>1. PICK hit \in BOOLEAN :
          LET w == Handle([World EXCEPT !.posted = Tail(@)], Head(posted), hit)
          IN cache' = w.cache /\ posted' = w.posted
    BY <1>2 DEF RunPosted
  <2> DEFINE w == Handle([World EXCEPT !.posted = Tail(@)], Head(posted), hit)
  <2>2. posted # <<>> /\ config' = config
    BY <1>2 DEF RunPosted
  <2>3. GoodWorld(w) /\ QueueInv(w.posted, w.cache.exists, config.vlan)
    BY <1>0, <2>2, HandleGood, WorldFields, Zenon
  <2>4. cache' = w.cache /\ posted' = w.posted
    BY <2>1, Zenon
  <2> HIDE DEF w
  <2> QED BY <1>1, <2>2, <2>3, <2>4
<1>3. CASE TimeoutExpired
  <2>1. PICK hit \in BOOLEAN :
          LET w == processEntry(World, hit)
          IN cache' = w.cache /\ posted' = w.posted
    BY <1>3, Zenon DEF TimeoutExpired
  <2> DEFINE w == processEntry(World, hit)
  <2>2. cache.entry.timer /\ config' = config
    BY <1>3, Zenon DEF TimeoutExpired
  <2>3. World.cache.entry # NoEntry
    BY <2>2, WorldFields, NoEntryShape, Zenon
  <2>4. Effect(World, w)
    BY <1>0, <2>3, ProcessEntry, Zenon
  <2>5. cache' = w.cache /\ posted' = w.posted
    BY <2>1, Zenon
  <2> HIDE DEF w
  <2>6. GoodWorld(w) /\ w.cache.exists = cache.exists /\ Later(posted, w.posted)
    BY <2>4, WorldFields, Zenon DEF Effect
  <2>7. QueueInv(w.posted, cache.exists, config.vlan)
    BY <1>0, <2>6, QueueLater, Zenon
  <2> QED BY <1>1, <2>2, <2>5, <2>6, <2>7, Zenon
<1>q. IsSequence(posted) /\ Shaped(World) /\ GoodWorld(World)
  BY <1>0, WorldFields, Zenon DEF GoodWorld, Shaped
<1>4. ASSUME NEW s, Additions(s, config.vlan, config.vlan'), posted' = posted \o s, cache' = cache
      PROVE  CacheInv'
  <2> DEFINE r == posted \o s
             w == [World EXCEPT !.posted = r]
  <2>1. QueueInv(r, cache.exists, config.vlan') /\ (Scheduled(r) <=> Scheduled(posted))
    BY <1>0, <1>4, QueueConcat, Zenon
  <2>2. IsSequence(r)
    BY <2>1 DEF QueueInv
  <2> HIDE DEF r
  <2>3. w = [cache |-> cache, posted |-> r, updates |-> updates, waiting |-> waiting]
    BY DEF World
  <2> HIDE DEF w
  <2>4. w.cache = cache /\ w.posted = r /\ w.updates = updates /\ w.waiting = waiting
    BY <2>3, Zenon
  <2>5. Shaped(w)
    BY <1>q, <2>2, <2>3, <2>4, WorldFields, Zenon DEF Shaped
  <2>6. GoodWorld(w)
    BY <1>q, <2>1, <2>4, <2>5, WorldFields DEF GoodWorld
  <2>7. posted' = r
    BY <1>4, Zenon DEF r
  <2> QED BY <1>1, <1>4, <2>1, <2>4, <2>6, <2>7, Zenon
<1>5. CASE Post
  <2>1. PICK fn \in Inputs : posted' = Append(posted, fn)
    BY <1>5 DEF Post
  <2>2. fn.op \in CacheOps
    BY DEF Inputs, CacheOps
  <2> DEFINE s == <<fn>>
  <2>3. IsSequence(s) /\ Len(s) = 1 /\ s[1] = fn
    BY OneSequence
  <2>4. posted \o s = Append(posted, fn)
    BY <1>q, AppendAsConcat
  <2> HIDE DEF s
  <2>5. config' = config /\ cache' = cache
    BY <1>5, Zenon DEF Post
  <2>6. Additions(s, config.vlan, config.vlan')
    BY <2>2, <2>3, <2>5, QuietOps DEF Additions
  <2> QED BY <1>4, <2>1, <2>4, <2>5, <2>6
<1>6. CASE RunUpdates
  <2>1. PICK n \in 1 .. Len(updates), hit \in BOOLEAN, cls \in Classes :
          LET new == applyUpdates(SwitchState, SubSeq(updates, 1, n))
              neighbors == stateUpdated(SwitchState, new, hit)
              lookup == processNeighborUpdates(SwitchState, new, refCnt, cls)
          IN /\ posted' \in {posted \o neighbors \o lookup.posts,
                             posted \o lookup.posts \o neighbors}
             /\ config' = new.config
    BY <1>6, Zenon DEF RunUpdates
  <2> DEFINE new == applyUpdates(SwitchState, SubSeq(updates, 1, n))
             neighbors == stateUpdated(SwitchState, new, hit)
             posts == processNeighborUpdates(SwitchState, new, refCnt, cls).posts
  <2>2. /\ posted' \in {posted \o neighbors \o posts, posted \o posts \o neighbors}
        /\ config' = new.config
    BY <2>1, Zenon
  <2> HIDE DEF new
  <2>3. Additions(neighbors, SwitchState.config.vlan, new.config.vlan) /\ Quiet(posts)
    BY StateUpdatedAdditions, LookupPostsQuiet, Zenon
  <2> HIDE DEF neighbors, posts
  <2>4. SwitchState.config = config
    BY Zenon DEF SwitchState
  <2>5. /\ Additions(neighbors \o posts, config.vlan, config.vlan')
        /\ Additions(posts \o neighbors, config.vlan, config.vlan')
    BY <2>2, <2>3, <2>4, AdditionsConcat
  <2>6. \/ posted' = posted \o (neighbors \o posts)
        \/ posted' = posted \o (posts \o neighbors)
    <3>1. IsSequence(neighbors) /\ IsSequence(posts)
      BY <2>3, Zenon DEF Additions, Quiet
    <3>2. Associates(posted, neighbors, posts) /\ Associates(posted, posts, neighbors)
      BY <1>q, <3>1, ConcatThree, Zenon
    <3> QED BY <2>2, <3>2, Zenon DEF Associates
  <2>7. cache' = cache
    BY <1>6, Zenon DEF RunUpdates
  <2> QED BY <1>4, <2>5, <2>6, <2>7, Zenon
<1>7. CASE UNCHANGED <<cache, posted, config>>
  <2>1. World.cache = cache' /\ World.posted = posted' /\ config' = config
    BY <1>7, WorldFields
  <2> QED BY <1>0, <1>1, <2>1, WorldFields, Zenon
<1>8. CASE ChangeConfig
  BY <1>7, <1>8, Zenon DEF ChangeConfig
<1>9. CASE LinkStateChanged
  BY <1>7, <1>9, Zenon DEF LinkStateChanged
<1>10. CASE UNCHANGED vars
  BY <1>7, <1>10 DEF vars
<1> QED BY <1>2, <1>3, <1>5, <1>6, <1>8, <1>9, <1>10 DEF Next

LEMMA CacheInvariant ==
  ASSUME maxNeighborProbes % 256 # 0
  PROVE  Spec => []CacheInv
<1>1. Init => CacheInv
  BY CacheInit
<1>2. CacheInv /\ [Next]_vars => CacheInv'
  BY CacheNext
<1> QED BY <1>1, <1>2, PTL DEF Spec

\* No entry is without a timeout, or a posted function that sets it, whatever is
\* received, flushed or reconfigured in whatever order (NeighborCacheEntry::enter(),
\* process(), scheduleNextUpdate()), if the number of probes is not a multiple of
\* 256: a round of such a number has none (uint8_t probesLeft_).
THEOREM TimerStaysArmed ==
  ASSUME maxNeighborProbes % 256 # 0
  PROVE  Spec => []TimerArmed
<1>1. CacheInv => TimerArmed
  <2> SUFFICES ASSUME CacheInv, cache.entry # NoEntry
               PROVE  cache.entry.timer \/ \E i \in DOMAIN posted : posted[i].op = "schedule"
    BY Zenon DEF TimerArmed
  <2>1. cache.entry.timer \/ Scheduled(posted)
    BY WorldFields, Zenon DEF CacheInv, GoodWorld
  <2>2. DOMAIN posted = 1 .. Len(posted)
    BY DEF CacheInv, QueueInv, IsSequence
  <2> QED BY <2>1, <2>2, Zenon DEF Scheduled
<1> QED BY <1>1, CacheInvariant, PTL

\* The entry that a timeout gives up has sent exactly the probes of its round, as
\* many as probesLeft_ holds of the configured number, whatever happened in between
\* (enter(), probeIfProbesLeft()).  Only multiples of 256 are left out, the default
\* of 300 is not: a round of such a number has no probe, or 256 for a new entry.
THEOREM GivenUpAfterItsProbes ==
  ASSUME maxNeighborProbes % 256 # 0
  PROVE  Spec => ExpiredAfterItsProbes
<1>1. CacheInv /\ [Next]_vars =>
        [cache.entry # NoEntry /\ cache'.entry = NoEntry /\ TimeoutExpired =>
           cache.entry.sent = uint8(maxNeighborProbes)]_vars
  <2> SUFFICES ASSUME CacheInv, cache.entry # NoEntry, cache'.entry = NoEntry, TimeoutExpired
               PROVE  cache.entry.sent = uint8(maxNeighborProbes)
    BY Zenon
  <2>1. PICK hit \in BOOLEAN : cache' = processEntry(World, hit).cache
    BY Zenon DEF TimeoutExpired
  <2>2. GoodWorld(World) /\ World.cache = cache
    BY WorldFields, Zenon DEF CacheInv
  <2>3. cache.entry.sent = Limit
    BY <2>1, <2>2, ProcessEntry
  <2> QED BY <2>3 DEF Limit, uint8
<1>2. Spec => []CacheInv
  BY CacheInvariant
<1>3. Spec => [][Next]_vars
  BY PTL DEF Spec
<1> QED BY <1>1, <1>2, <1>3, PTL DEF ExpiredAfterItsProbes

=============================================================================
