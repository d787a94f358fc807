----------------------- MODULE PullRequestScanProofs -----------------------
(***************************************************************************)
(* What the cursor of a scan says is true, for any pull requests, limits,  *)
(* page size, lateness of the forge and age of the store.                  *)
(*                                                                         *)
(* The batch under way has a cursor of its own, for which the same holds   *)
(* that is to hold of the saved one: what is not stored as it is now is in *)
(* one of its queues, or so recent that the next pass lists it again.  The *)
(* overlap is what makes it recent enough: neither a late listing nor a    *)
(* stored observation that serves a read is older than that.               *)
(***************************************************************************)
EXTENDS PullRequestScan, TLAPS, FiniteSetTheorems

Passes == [state : {"open", "all"}, end : Time, windows : Seq(Window), listed : BOOLEAN,
           page : SUBSET Key, partial : BOOLEAN]
Cursors == [inventory : BOOLEAN, enumerated : Time \cup {Never}, scanned : Time \cup {Never},
            failed : Seq(Key), gaps : Seq(Window), pass : Passes \cup {NoPass}]
Batches == [stage : {"running"}, attempted : SUBSET Key, requests : Nat, reads : Nat,
            retry : Seq(Key)]

\* The pass of a cursor ends in the past, and not before the one before it.
PassInv(c) ==
    /\ c.pass.end <= now /\ c.enumerated <= c.pass.end
    /\ c.pass.state = "all" <=> c.inventory
    /\ c.pass.listed => c.pass.windows # <<>>
    /\ ~c.pass.listed => c.pass.page = {}
    /\ Cardinality(c.pass.page) < PageSize

\* What `decode' demands, as an invariant (scan.ts:54-66).
CursorInv(c) ==
    /\ c \in Cursors
    /\ c.enumerated <= now /\ c.scanned <= c.enumerated
    /\ c.enumerated # Never => c.inventory
    /\ Len(c.failed) <= MaxFailed
    /\ \A i, j \in DOMAIN c.failed : c.failed[i] = c.failed[j] => i = j
    /\ \A i, j \in DOMAIN c.gaps : c.gaps[i].state = c.gaps[j].state => i = j
    /\ HasPass(c) => PassInv(c)

WorldInv ==
    /\ now \in Time /\ Start <= now
    /\ updated \in [Key -> Time] /\ \A k \in Key : updated[k] <= now
    /\ isOpen \in [Key -> BOOLEAN]

\* What serves reads is true now, or older than the last update and no older
\* than Age.
StoreInv ==
    /\ current \in [Key -> BOOLEAN] /\ storedAt \in [Key -> Time \cup {Never}]
    /\ \A k \in Key : Fresh(k) =>
          /\ Start <= storedAt[k] /\ storedAt[k] <= now /\ now <= storedAt[k] + Age
          /\ current[k] \/ storedAt[k] <= updated[k]

SavedInv == CursorInv(saved) /\ NothingSkipped /\ ScannedIsStored

\* To be found out about, and not stored as it is.
Behind(k) == Relevant(k) /\ ~current[k]
\* The cursor of the batch says what the saved one says.  Each that it has read
\* in vain is queued: it is not read again in this batch.
WorkInv ==
    /\ CursorInv(work) /\ HasPass(work) /\ batch \in Batches
    /\ work.scanned = saved.scanned
    /\ \A k \in Key : Behind(k) => Retained(work, k)
    /\ \A k \in batch.attempted : Behind(k) => Has(work.failed, k) \/ Later(work, k)
    /\ \A i, j \in DOMAIN batch.retry : batch.retry[i] = batch.retry[j] => i = j
    /\ \A i \in DOMAIN batch.retry : Has(work.failed, batch.retry[i])

IInv == WorldInv /\ StoreInv /\ SavedInv /\ (Running => WorkInv) /\ (~Running => work = FirstCursor)

-----------------------------------------------------------------------------
(* Sequences of which one is removed.                                      *)

\* An element of the second of two sequences put together.
LEMMA SecondPart ==
    ASSUME NEW S, NEW a \in Seq(S), NEW b \in Seq(S), NEW n \in 1..Len(b)
    PROVE  (a \o b)[Len(a) + n] = b[n]
  OBVIOUS

\* Nothing to remove: the sequence as it is.
LEMMA RemovedNone == ASSUME NEW q PROVE Removed(q, {}) = q
  BY DEF Removed

\* One removed: those before it stay where they are, those behind it move up.
LEMMA RemovedOne ==
    ASSUME NEW S, NEW q \in Seq(S), NEW g \in DOMAIN q
    PROVE  /\ Removed(q, {g}) \in Seq(S)
           /\ Len(Removed(q, {g})) = Len(q) - 1
           /\ \A i \in 1..(Len(q) - 1) : Removed(q, {g})[i] = IF i < g THEN q[i] ELSE q[i + 1]
<1>1. (CHOOSE i \in {g} : TRUE) = g
  OBVIOUS
<1>2. Removed(q, {g}) = SubSeq(q, 1, g - 1) \o SubSeq(q, g + 1, Len(q))
  BY <1>1 DEF Removed
<1>3. g \in 1..Len(q) /\ Len(q) \in Nat
  OBVIOUS
<1> DEFINE a == SubSeq(q, 1, g - 1)
           b == SubSeq(q, g + 1, Len(q))
<1>4. a \in Seq(S) /\ Len(a) = g - 1 /\ \A i \in 1..(g - 1) : a[i] = q[i]
  BY <1>3
<1>5. b \in Seq(S) /\ Len(b) = Len(q) - g /\ \A i \in 1..(Len(q) - g) : b[i] = q[g + i]
  BY <1>3
<1> HIDE DEF a, b
<1>6. a \o b \in Seq(S) /\ Len(a \o b) = Len(q) - 1
  BY <1>3, <1>4, <1>5
<1>7. ASSUME NEW i \in 1..(Len(q) - 1)
      PROVE  (a \o b)[i] = IF i < g THEN q[i] ELSE q[i + 1]
  <2>1. CASE i < g
    BY <1>3, <1>4, <1>5, <2>1
  <2>2. CASE ~(i < g)
    <3> DEFINE n == i - (g - 1)
    <3>1. n \in 1..(Len(q) - g) /\ g + n = i + 1 /\ (g - 1) + n = i
      BY <1>3, <2>2
    <3> HIDE DEF n
    <3>2. n \in 1..Len(b) /\ Len(a) + n = i
      BY <1>4, <1>5, <3>1
    <3>3. (a \o b)[Len(a) + n] = b[n]
      <4>1. a \in Seq(S) /\ b \in Seq(S) /\ n \in 1..Len(b)
        BY <1>4, <1>5, <3>2
      <4> QED BY <4>1, SecondPart
    <3> QED BY <1>5, <2>2, <3>1, <3>2, <3>3
  <2> QED BY <2>1, <2>2
<1> QED BY <1>2, <1>6, <1>7 DEF a, b

Single(at) == \A i, j \in at : i = j

\* What is left is what there was, in the same order.
LEMMA RemovedKeeps ==
    ASSUME NEW S, NEW q \in Seq(S), NEW at \in SUBSET DOMAIN q, Single(at)
    PROVE  /\ Removed(q, at) \in Seq(S) /\ Len(Removed(q, at)) <= Len(q)
           /\ at # {} => Len(Removed(q, at)) = Len(q) - 1
           /\ \A j \in DOMAIN q \ at : \E i \in DOMAIN Removed(q, at) : Removed(q, at)[i] = q[j]
           /\ \E from \in [DOMAIN Removed(q, at) -> DOMAIN q \ at] :
                 /\ \A i \in DOMAIN Removed(q, at) : Removed(q, at)[i] = q[from[i]]
                 /\ \A i, j \in DOMAIN Removed(q, at) : from[i] = from[j] => i = j
<1>1. CASE at = {}
  <2>1. Removed(q, at) = q
    BY <1>1, RemovedNone
  <2>2. DOMAIN q \ at = DOMAIN q /\ Len(q) <= Len(q)
    BY <1>1
  <2> DEFINE from == [i \in DOMAIN q |-> i]
  <2>3. /\ from \in [DOMAIN q -> DOMAIN q]
        /\ \A i \in DOMAIN q : q[i] = q[from[i]]
        /\ \A i, j \in DOMAIN q : from[i] = from[j] => i = j
    OBVIOUS
  <2> HIDE DEF from
  <2> QED BY <1>1, <2>1, <2>2, <2>3
<1>2. CASE at # {}
  <2>1. PICK g \in at : at = {g}
    BY <1>2 DEF Single
  <2> DEFINE r == Removed(q, {g})
             from == [i \in 1..(Len(q) - 1) |-> IF i < g THEN i ELSE i + 1]
  <2>2. g \in 1..Len(q) /\ Len(q) \in Nat
    BY <2>1
  <2>3. r \in Seq(S) /\ Len(r) = Len(q) - 1 /\ DOMAIN r = 1..(Len(q) - 1)
    BY <2>1, <2>2, RemovedOne
  <2>4. \A i \in 1..(Len(q) - 1) : r[i] = q[from[i]]
    BY <2>1, <2>2, RemovedOne
  <2>5. from \in [1..(Len(q) - 1) -> DOMAIN q \ {g}]
    BY <2>2
  <2>6. \A i, j \in 1..(Len(q) - 1) : from[i] = from[j] => i = j
    BY <2>2
  <2>7. ASSUME NEW j \in DOMAIN q \ {g} PROVE \E i \in DOMAIN r : r[i] = q[j]
    <3>1. j \in 1..Len(q) /\ j # g
      OBVIOUS
    <3>2. CASE j < g
      <4>1. j \in 1..(Len(q) - 1) /\ from[j] = j
        BY <2>2, <3>1, <3>2
      <4> QED BY <2>3, <2>4, <4>1
    <3>3. CASE j > g
      <4>1. j - 1 \in 1..(Len(q) - 1) /\ from[j - 1] = j
        BY <2>2, <3>1, <3>3
      <4> QED BY <2>3, <2>4, <4>1
    <3>4. j < g \/ j > g
      BY <2>2, <3>1
    <3> QED BY <3>2, <3>3, <3>4
  <2>8. Removed(q, at) = r /\ DOMAIN q \ at = DOMAIN q \ {g} /\ Len(r) <= Len(q)
    BY <2>1, <2>2, <2>3
  <2> HIDE DEF r, from
  <2>9. /\ from \in [DOMAIN r -> DOMAIN q \ {g}]
        /\ \A i \in DOMAIN r : r[i] = q[from[i]]
        /\ \A i, j \in DOMAIN r : from[i] = from[j] => i = j
    BY <2>3, <2>4, <2>5, <2>6
  <2> QED BY <2>3, <2>7, <2>8, <2>9
<1> QED BY <1>1, <1>2

Distinct(q) == \A i, j \in DOMAIN q : q[i] = q[j] => i = j

\* A failure that is removed is gone, the others stay, each still once
\* (scan.ts:116-124).
LEMMA WithoutOne ==
    ASSUME NEW failed \in Seq(Key), Distinct(failed), NEW k
    PROVE  /\ Without(failed, k) \in Seq(Key) /\ Distinct(Without(failed, k))
           /\ Len(Without(failed, k)) <= Len(failed)
           /\ Has(failed, k) => Len(Without(failed, k)) = Len(failed) - 1
           /\ \A j : Has(Without(failed, k), j) <=> Has(failed, j) /\ j # k
<1> DEFINE at == {i \in DOMAIN failed : failed[i] = k}
           r == Without(failed, k)
<1>1. at \in SUBSET DOMAIN failed /\ Single(at) /\ r = Removed(failed, at)
  BY DEF Distinct, Without, Single
<1>2. at # {} <=> Has(failed, k)
  BY DEF Has
<1>3. \A i \in DOMAIN failed : i \in at <=> failed[i] = k
  OBVIOUS
<1> HIDE DEF at, r
<1>4. /\ r \in Seq(Key) /\ Len(r) <= Len(failed)
      /\ at # {} => Len(r) = Len(failed) - 1
      /\ \A j \in DOMAIN failed \ at : \E i \in DOMAIN r : r[i] = failed[j]
  BY <1>1, RemovedKeeps
<1>5. PICK from \in [DOMAIN r -> DOMAIN failed \ at] :
          /\ \A i \in DOMAIN r : r[i] = failed[from[i]]
          /\ \A i, j \in DOMAIN r : from[i] = from[j] => i = j
  BY <1>1, RemovedKeeps
<1>6. Distinct(r)
  BY <1>5 DEF Distinct
<1>7. \A j : Has(r, j) <=> Has(failed, j) /\ j # k
  BY <1>3, <1>4, <1>5 DEF Has
<1> QED BY <1>2, <1>4, <1>6, <1>7 DEF r

\* A failed read is queued once.
LEMMA QueuedOnce ==
    ASSUME NEW failed \in Seq(Key), Distinct(failed), NEW k \in Key
    PROVE  /\ Queued(failed, k) \in Seq(Key) /\ Distinct(Queued(failed, k))
           /\ Len(Queued(failed, k)) <= Len(failed) + 1
           /\ Has(failed, k) => Len(Queued(failed, k)) = Len(failed)
           /\ \A j : Has(Queued(failed, k), j) <=> Has(failed, j) \/ j = k
<1> DEFINE r == Without(failed, k)
<1>1. /\ r \in Seq(Key) /\ Distinct(r) /\ Len(r) <= Len(failed)
      /\ Has(failed, k) => Len(r) = Len(failed) - 1
      /\ \A j : Has(r, j) <=> Has(failed, j) /\ j # k
  BY WithoutOne
<1>2. Queued(failed, k) = Append(r, k)
  BY DEF Queued, FailedAgain
<1> HIDE DEF r
<1> DEFINE a == Append(r, k)
<1>3. /\ a \in Seq(Key) /\ Len(a) = Len(r) + 1 /\ Len(r) \in Nat /\ DOMAIN r = 1..Len(r)
      /\ DOMAIN a = 1..(Len(r) + 1) /\ a[Len(r) + 1] = k /\ \A i \in 1..Len(r) : a[i] = r[i]
  BY <1>1
<1> HIDE DEF a
<1>4. \A i \in DOMAIN r : r[i] # k
  BY <1>1 DEF Has
<1>5. Distinct(a)
  <2> SUFFICES ASSUME NEW i \in DOMAIN a, NEW j \in DOMAIN a, a[i] = a[j] PROVE i = j
    BY DEF Distinct
  <2>1. i \in 1..Len(r) \/ i = Len(r) + 1
    BY <1>3
  <2>2. j \in 1..Len(r) \/ j = Len(r) + 1
    BY <1>3
  <2> QED BY <2>1, <2>2, <1>1, <1>3, <1>4 DEF Distinct
<1>6. \A j : Has(a, j) <=> Has(r, j) \/ j = k
  <2>1. \A i : i \in DOMAIN a <=> i \in DOMAIN r \/ i = Len(r) + 1
    BY <1>3
  <2> QED BY <2>1, <1>3 DEF Has
<1>7. \A j : Has(a, j) <=> Has(failed, j) \/ j = k
  BY <1>1, <1>6
<1>8. Len(a) <= Len(failed) + 1 /\ (Has(failed, k) => Len(a) = Len(failed))
  <2>1. Len(failed) \in Nat
    OBVIOUS
  <2> QED BY <2>1, <1>1, <1>3
<1> QED BY <1>2, <1>3, <1>5, <1>7, <1>8 DEF a

\* What is in a sequence is its head, or in its tail.
LEMMA HeadAndTail ==
    ASSUME NEW S, NEW q \in Seq(S), q # <<>>
    PROVE  /\ Len(q) \in Nat /\ 1 \in DOMAIN q /\ Head(q) = q[1] /\ Head(q) \in S
           /\ Tail(q) \in Seq(S) /\ Len(Tail(q)) = Len(q) - 1
           /\ \A i \in 1..(Len(q) - 1) : Tail(q)[i] = q[i + 1]
  OBVIOUS

-----------------------------------------------------------------------------
(* Windows.                                                                *)

Wider(v, w) == v.state = w.state /\ v.from <= w.from /\ w.to <= v.to

\* A wider window covers what a narrower one does.
LEMMA WiderCovers ==
    ASSUME WorldInv, NEW v \in Window, NEW w \in Window, Wider(v, w),
           NEW k \in Key, Covers(w, k)
    PROVE  Covers(v, k)
  BY DEF Wider, Covers, Window, WorldInv, Time

OneEach(gaps) == \A i, j \in DOMAIN gaps : gaps[i].state = gaps[j].state => i = j

\* Of the gaps of one state the latest is retained, one of each (scan.ts:129-135).
LEMMA LatestRetained ==
    ASSUME NEW gaps \in Seq(Window), OneEach(gaps), NEW v \in Window
    PROVE  LET r == RetainLatest(gaps, v) IN
           /\ r \in Seq(Window) /\ OneEach(r)
           /\ \E i \in DOMAIN r : r[i] = v
           /\ \A j \in DOMAIN gaps : gaps[j].state # v.state => \E i \in DOMAIN r : r[i] = gaps[j]
<1> DEFINE at == {i \in DOMAIN gaps : gaps[i].state = v.state}
           q == Removed(gaps, at)
           r == Append(q, v)
<1>1. at \in SUBSET DOMAIN gaps /\ Single(at) /\ RetainLatest(gaps, v) = r
  BY DEF OneEach, RetainLatest, Single
<1>2. \A i \in DOMAIN gaps : i \in at <=> gaps[i].state = v.state
  OBVIOUS
<1> HIDE DEF at
<1>3. /\ q \in Seq(Window)
      /\ \A j \in DOMAIN gaps \ at : \E i \in DOMAIN q : q[i] = gaps[j]
  BY <1>1, RemovedKeeps
<1>4. PICK from \in [DOMAIN q -> DOMAIN gaps \ at] :
          /\ \A i \in DOMAIN q : q[i] = gaps[from[i]]
          /\ \A i, j \in DOMAIN q : from[i] = from[j] => i = j
  BY <1>1, RemovedKeeps
<1> HIDE DEF q
<1>5. /\ r \in Seq(Window) /\ Len(q) \in Nat /\ DOMAIN q = 1..Len(q)
      /\ DOMAIN r = 1..(Len(q) + 1) /\ r[Len(q) + 1] = v /\ \A i \in 1..Len(q) : r[i] = q[i]
  BY <1>3
<1> HIDE DEF r
<1>6. \A i \in DOMAIN q : q[i].state # v.state
  BY <1>2, <1>4
<1>7. OneEach(q)
  BY <1>4 DEF OneEach
<1>8. OneEach(r)
  <2> SUFFICES ASSUME NEW i \in DOMAIN r, NEW j \in DOMAIN r, r[i].state = r[j].state
               PROVE  i = j
    BY DEF OneEach
  <2>1. i \in 1..Len(q) \/ i = Len(q) + 1
    BY <1>5
  <2>2. j \in 1..Len(q) \/ j = Len(q) + 1
    BY <1>5
  <2> QED BY <2>1, <2>2, <1>5, <1>6, <1>7 DEF OneEach
<1>9. Len(q) + 1 \in DOMAIN r /\ \A i \in DOMAIN q : i \in DOMAIN r
  BY <1>5
<1>10. \A j \in DOMAIN gaps : gaps[j].state # v.state => \E i \in DOMAIN r : r[i] = gaps[j]
  BY <1>2, <1>3, <1>5, <1>9
<1> QED BY <1>1, <1>5, <1>8, <1>9, <1>10

\* What is retained covers what was, and the new gap.
LEMMA GapRetained ==
    ASSUME NEW gaps \in Seq(Window), OneEach(gaps), NEW w \in Window
    PROVE  LET r == RetainGap(gaps, w) IN
           /\ r \in Seq(Window) /\ OneEach(r)
           /\ \E i \in DOMAIN r : Wider(r[i], w)
           /\ \A j \in DOMAIN gaps : \E i \in DOMAIN r : Wider(r[i], gaps[j])
<1> DEFINE at == {i \in DOMAIN gaps : gaps[i].state = w.state}
           same == {gaps[i] : i \in at} \cup {w}
           first == CHOOSE g \in same : \A h \in same : g.from <= h.from
           last == CHOOSE g \in same : \A h \in same : g.to >= h.to
           v == [state |-> w.state, from |-> first.from, to |-> last.to]
<1>1. RetainGap(gaps, w) = RetainLatest(gaps, v)
  BY DEF RetainGap, RetainWidest
<1>2. \A g \in Window : g.from \in Nat /\ g.to \in Nat /\ g.from <= g.to
  BY TimeAssumption DEF Window, Time
<1>3. same \subseteq Window /\ w \in same /\ \A g \in same : g.state = w.state
  OBVIOUS
<1>4. \E u \in same : same = {u, w}
  <2>1. CASE at = {}
    BY <2>1
  <2>2. CASE at # {}
    <3>1. PICK g \in at : TRUE
      BY <2>2
    <3>2. \A i \in at : i = g
      BY DEF OneEach
    <3> QED BY <3>1, <3>2
  <2> QED BY <2>1, <2>2
<1>5. \A j \in DOMAIN gaps : gaps[j].state = w.state => gaps[j] \in same
  OBVIOUS
<1> HIDE DEF same
<1>6. PICK u \in same : same = {u, w}
  BY <1>4
<1>7. \E g \in same : \A h \in same : g.from <= h.from
  <2>1. u.from <= w.from \/ w.from <= u.from
    BY <1>2, <1>3
  <2> QED BY <1>2, <1>3, <1>6, <2>1
<1>8. \E g \in same : \A h \in same : g.to >= h.to
  <2>1. u.to <= w.to \/ w.to <= u.to
    BY <1>2, <1>3
  <2> QED BY <1>2, <1>3, <1>6, <2>1
<1>9. first \in same /\ \A h \in same : first.from <= h.from
  BY <1>7
<1>10. last \in same /\ \A h \in same : last.to >= h.to
  BY <1>8
<1> HIDE DEF first, last
<1>11. first.from \in Time /\ last.to \in Time /\ w.state \in {"open", "all"}
  BY <1>3, <1>9, <1>10 DEF Window
<1>12. first.from <= last.to
  <2>1. first.from <= w.from /\ w.from <= w.to /\ w.to <= last.to
    BY <1>2, <1>3, <1>9, <1>10
  <2> QED BY <2>1, <1>2, <1>3, <1>9, <1>10
<1>13. v \in Window
  BY <1>11, <1>12 DEF Window
<1>14. \A g \in same : Wider(v, g)
  BY <1>2, <1>3, <1>9, <1>10 DEF Wider
<1>15. v.state = w.state
  OBVIOUS
<1> HIDE DEF v
<1> DEFINE r == RetainLatest(gaps, v)
<1>16. /\ r \in Seq(Window) /\ OneEach(r)
       /\ \E i \in DOMAIN r : r[i] = v
       /\ \A j \in DOMAIN gaps : gaps[j].state # v.state => \E i \in DOMAIN r : r[i] = gaps[j]
  BY <1>13, LatestRetained
<1> HIDE DEF r
<1>17. \A j \in DOMAIN gaps : gaps[j] \in Window
  OBVIOUS
<1>18. \A g \in Window : Wider(g, g)
  BY <1>2 DEF Wider
<1>19. \E i \in DOMAIN r : Wider(r[i], w)
  BY <1>3, <1>14, <1>16
<1>20. ASSUME NEW j \in DOMAIN gaps PROVE \E i \in DOMAIN r : Wider(r[i], gaps[j])
  <2>1. CASE gaps[j].state = w.state
    BY <2>1, <1>5, <1>14, <1>16
  <2>2. CASE gaps[j].state # w.state
    BY <2>2, <1>15, <1>16, <1>17, <1>18
  <2> QED BY <2>1, <2>2
<1>21. RetainGap(gaps, w) = r
  BY <1>1 DEF r
<1> QED BY <1>16, <1>19, <1>20, <1>21

-----------------------------------------------------------------------------
(* Cursors.                                                                *)

\* A cursor that has a pass has one of the type.
LEMMA PassTyped ==
    ASSUME NEW c \in Cursors, HasPass(c)
    PROVE  c.pass \in Passes
  BY DEF Cursors, HasPass

\* A pass is not the absence of one.
LEMMA PassesArePasses == ASSUME NEW p \in Passes PROVE p # NoPass
  BY DEF Passes, NoPass

\* A batch changes queues of its cursor, and nothing else.
Follows(d, c) ==
    /\ d \in Cursors /\ HasPass(d) /\ d.pass \in Passes
    /\ d.inventory = c.inventory /\ d.enumerated = c.enumerated /\ d.scanned = c.scanned
    /\ d.pass.state = c.pass.state /\ d.pass.end = c.pass.end

\* What it then has to say.
Steady ==
    /\ WorldInv' /\ StoreInv' /\ SavedInv'
    /\ now' = now /\ saved' = saved
    /\ \A k \in Key : Behind(k)' => Behind(k)
    /\ \A k \in Key : updated'[k] = updated[k] /\ isOpen'[k] = isOpen[k]

\* While the saved cursor stays, what it says of the world stays true when no
\* observation is lost.
LEMMA SavedSteady ==
    ASSUME IInv, UNCHANGED <<forge, saved>>, \A k \in Key : current[k] => current'[k]
    PROVE  WorldInv' /\ SavedInv' /\ \A k \in Key : Behind(k)' => Behind(k)
<1>1. UNCHANGED <<now, updated, isOpen, saved>>
  BY DEF forge
<1>2. WorldInv'
  BY <1>1 DEF IInv, WorldInv
<1>3. CursorInv(saved)'
  BY <1>1 DEF IInv, SavedInv, CursorInv, PassInv, HasPass
<1>4. \A k \in Key : Relevant(k)' = Relevant(k)
  BY <1>1 DEF Relevant
<1>5. \A k \in Key : Retained(saved, k)' = Retained(saved, k)
  BY <1>1 DEF Retained, Listable, Listed, Later, LaterFrom, Covers, HasPass
<1>6. NothingSkipped'
  BY <1>4, <1>5 DEF IInv, SavedInv, NothingSkipped
<1>7. ScannedIsStored'
  BY <1>1, <1>4 DEF IInv, SavedInv, ScannedIsStored
<1> QED BY <1>2, <1>3, <1>4, <1>6, <1>7 DEF SavedInv, Behind

\* A step that reads nothing leaves the store and the saved cursor as they are.
LEMMA StoreKept ==
    ASSUME IInv, UNCHANGED <<forge, store, saved>>
    PROVE  Steady
<1>1. UNCHANGED <<now, updated, isOpen, current, storedAt>>
  BY DEF forge, store
<1>2. StoreInv'
  BY <1>1 DEF IInv, StoreInv, Fresh
<1> QED BY <1>1, <1>2, SavedSteady DEF Steady

\* A read from the forge stores what is so now.
LEMMA ForgeRead ==
    ASSUME IInv, NEW k \in Key, ReadForge(k), UNCHANGED <<forge, saved>>
    PROVE  Steady /\ ~Behind(k)'
<1>1. UNCHANGED <<now, updated, isOpen>>
  BY DEF forge
<1>2. /\ current' = [current EXCEPT ![k] = TRUE]
      /\ storedAt' = [storedAt EXCEPT ![k] = now]
  BY DEF ReadForge
<1>3. /\ current' \in [Key -> BOOLEAN] /\ storedAt' \in [Key -> Time \cup {Never}]
      /\ current'[k] /\ storedAt'[k] = now
      /\ \A j \in Key \ {k} : current'[j] = current[j] /\ storedAt'[j] = storedAt[j]
  BY <1>2 DEF IInv, StoreInv, WorldInv
<1>4. now \in Nat /\ Start <= now /\ Start \in Nat /\ Age \in Nat
  BY TimeAssumption, OverlapAssumption DEF IInv, WorldInv, Time
<1>5. StoreInv'
  <2> SUFFICES ASSUME NEW j \in Key, Fresh(j)'
               PROVE  /\ Start <= storedAt'[j] /\ storedAt'[j] <= now /\ now <= storedAt'[j] + Age
                      /\ current'[j] \/ storedAt'[j] <= updated[j]
    BY <1>1, <1>3 DEF StoreInv
  <2>1. CASE j = k
    BY <2>1, <1>3, <1>4
  <2>2. CASE j # k
    BY <2>2, <1>3 DEF IInv, StoreInv, Fresh
  <2> QED BY <2>1, <2>2
<1>6. \A j \in Key : current[j] => current'[j]
  BY <1>3
<1> QED BY <1>1, <1>3, <1>5, <1>6, SavedSteady DEF Steady, Behind

\* A read that fails takes what is stored for no answer (engine.ts:98-105).
LEMMA ForgeFailed ==
    ASSUME IInv, NEW k \in Key, storedAt' = [storedAt EXCEPT ![k] = Never], UNCHANGED current,
           UNCHANGED <<forge, saved>>
    PROVE  Steady
<1>1. UNCHANGED <<now, updated, isOpen>>
  BY DEF forge
<1>2. /\ storedAt' \in [Key -> Time \cup {Never}] /\ storedAt'[k] = Never
      /\ \A j \in Key \ {k} : storedAt'[j] = storedAt[j]
  BY DEF IInv, StoreInv
<1>3. StoreInv'
  BY <1>1, <1>2 DEF IInv, StoreInv, Fresh
<1> QED BY <1>1, <1>3, SavedSteady DEF Steady

\* What was stored less than Age ago and has been updated since is listed again.
LEMMA StoreIsRecent ==
    ASSUME IInv, Running, NEW k \in Key, Fresh(k), Behind(k)
    PROVE  Later(work, k)
<1>1. /\ Start <= storedAt[k] /\ now <= storedAt[k] + Age /\ storedAt[k] <= updated[k]
      /\ storedAt[k] \in Time /\ updated[k] \in Time /\ now \in Time
  BY DEF IInv, StoreInv, WorldInv, Behind, Fresh
<1>2. /\ work \in Cursors /\ work.pass.end <= now /\ HasPass(work) /\ work.pass \in Passes
      /\ work.pass.state = "all" <=> work.inventory
      /\ work.enumerated # Never => work.inventory
  BY PassTyped DEF IInv, WorkInv, CursorInv, PassInv
<1>3. /\ Overlap \in Nat /\ Age \in Nat /\ Age <= Overlap
      /\ Lag \in Nat /\ 0 < Lag /\ Since \in Nat /\ Start \in Nat /\ Since + Lag <= Start + 1
      /\ MaxTime \in Nat
  BY OverlapAssumption, TimeAssumption
<1>4. work.pass.end \in Time
  BY <1>2 DEF Passes
<1>5. CASE work.pass.state = "all"
  <2>1. LaterFrom(work) = work.pass.end - Overlap
    BY <1>2, <1>5 DEF LaterFrom
  <2>2. updated[k] >= work.pass.end - Overlap
    BY <1>1, <1>2, <1>3, <1>4 DEF Time
  <2> QED BY <2>1, <2>2 DEF Later
<1>6. CASE work.pass.state # "all"
  <2>1. LaterFrom(work) = Since
    BY <1>2, <1>6 DEF LaterFrom
  <2>2. updated[k] >= Since
    BY <1>1, <1>3 DEF Time
  <2> QED BY <2>1, <2>2 DEF Later
<1> QED BY <1>5, <1>6

\* However a read ends well, what is stored is true now or recent enough to be
\* listed by the next pass (engine.ts:70-113).
LEMMA Served ==
    ASSUME IInv, Running, NEW k \in Key, IF Fresh(k) THEN UNCHANGED store ELSE ReadForge(k),
           UNCHANGED <<forge, saved>>
    PROVE  Steady /\ (Behind(k)' => Later(work, k))
<1>1. CASE Fresh(k)
  <2>1. Steady
    BY <1>1, StoreKept
  <2> QED BY <2>1, <1>1, StoreIsRecent DEF Steady
<1>2. CASE ~Fresh(k)
  BY <1>2, ForgeRead
<1> QED BY <1>1, <1>2

-----------------------------------------------------------------------------
(* The batch.                                                              *)

\* The cursor of the batch as it is, for short.
LEMMA WorkTyped ==
    ASSUME IInv, Running
    PROVE  /\ WorkInv /\ work \in Cursors /\ HasPass(work) /\ work.pass \in Passes
           /\ PassInv(work) /\ Distinct(work.failed) /\ OneEach(work.gaps)
           /\ work.failed \in Seq(Key) /\ work.gaps \in Seq(Window)
           /\ work.pass.windows \in Seq(Window) /\ batch \in Batches
  BY PassTyped DEF IInv, WorkInv, CursorInv, Distinct, OneEach, Cursors, Passes

\* What the next pass is to list stays so when the cursor changes only queues.
LEMMA LaterFollows ==
    ASSUME IInv, Running, Steady, Follows(work', work), NEW k \in Key
    PROVE  Later(work, k)' <=> Later(work, k)
<1>1. HasPass(work) /\ HasPass(work)'
  BY WorkTyped DEF Follows, HasPass
<1>2. LaterFrom(work)' = LaterFrom(work)
  BY <1>1 DEF Follows, LaterFrom
<1> QED BY <1>1, <1>2 DEF Later, Follows, Steady

\* The batch stays within the invariant when its cursor does, and what it has
\* read and failed is in its cursor.
LEMMA WorkSteady ==
    ASSUME IInv, Running, Steady, Follows(work', work), batch' \in Batches,
           Len(work'.failed) <= MaxFailed, Distinct(work'.failed), OneEach(work'.gaps),
           work'.pass.listed => work'.pass.windows # <<>>,
           ~work'.pass.listed => work'.pass.page = {},
           Cardinality(work'.pass.page) < PageSize,
           \A k \in Key : Behind(k)' => Retained(work, k)',
           \A k \in batch'.attempted : Behind(k)' => Has(work'.failed, k) \/ Later(work, k),
           Distinct(batch'.retry),
           \A i \in DOMAIN batch'.retry : Has(work'.failed, batch'.retry[i])
    PROVE  IInv'
<1>1. WorkInv /\ PassInv(work) /\ CursorInv(work)
  BY WorkTyped DEF IInv, WorkInv
<1>2. PassInv(work)'
  BY <1>1 DEF PassInv, Follows, Steady
<1>3. CursorInv(work)'
  BY <1>1, <1>2 DEF CursorInv, Follows, Steady, Distinct, OneEach
<1>4. batch'.attempted \subseteq Key
  BY DEF Batches
<1>5. \A k \in batch'.attempted : Behind(k)' => Has(work'.failed, k) \/ Later(work, k)'
  BY <1>4, LaterFollows
<1>6. HasPass(work)' /\ work'.scanned = saved'.scanned
  BY <1>1 DEF Follows, Steady, WorkInv, HasPass
<1>7. WorkInv'
  BY <1>3, <1>5, <1>6 DEF WorkInv, Distinct
<1>8. Running'
  BY DEF Batches, Running, Idle
<1> QED BY <1>7, <1>8 DEF IInv, Steady

\* A read that succeeds, or fails: c is the cursor with it.
LEMMA ReadOver ==
    ASSUME IInv, Running, NEW k \in Key, Admitted(k), NEW STATE c, c \in Cursors,
           c.failed = work.failed, Succeeds(k, c) \/ Fails(k, c), UNCHANGED <<forge, saved>>
    PROVE  /\ Steady
           /\ \E failed \in Seq(Key) :
                 /\ work' = [c EXCEPT !.failed = failed]
                 /\ Distinct(failed) /\ Len(failed) <= MaxFailed
                 /\ \A j \in Key : Has(work.failed, j) /\ j # k => Has(failed, j)
                 /\ Behind(k)' => Has(failed, k) \/ Later(work, k)
<1>1. /\ work.failed \in Seq(Key) /\ Distinct(work.failed) /\ Len(work.failed) <= MaxFailed
      /\ Len(work.failed) \in Nat /\ MaxFailed \in Nat
  BY WorkTyped, BatchAssumption DEF WorkInv, CursorInv
<1>2. CASE Succeeds(k, c)
  <2>1. Steady /\ (Behind(k)' => Later(work, k))
    BY <1>2, Served DEF Succeeds
  <2> DEFINE failed == Without(work.failed, k)
  <2>2. /\ failed \in Seq(Key) /\ Distinct(failed) /\ Len(failed) <= Len(work.failed)
        /\ \A j : Has(failed, j) <=> Has(work.failed, j) /\ j # k
    BY <1>1, WithoutOne
  <2>3. work' = [c EXCEPT !.failed = failed]
    BY <1>2 DEF Succeeds
  <2> HIDE DEF failed
  <2>4. Len(failed) <= MaxFailed
    BY <1>1, <2>2
  <2> QED BY <2>1, <2>2, <2>3, <2>4
<1>3. CASE Fails(k, c)
  <2>1. Steady
    BY <1>3, ForgeFailed DEF Fails
  <2> DEFINE failed == Queued(work.failed, k)
  <2>2. /\ failed \in Seq(Key) /\ Distinct(failed) /\ Len(failed) <= Len(work.failed) + 1
        /\ Has(work.failed, k) => Len(failed) = Len(work.failed)
        /\ \A j : Has(failed, j) <=> Has(work.failed, j) \/ j = k
    BY <1>1, QueuedOnce
  <2>3. work' = [c EXCEPT !.failed = failed]
    BY <1>3 DEF Fails
  <2> HIDE DEF failed
  <2>4. Len(failed) <= MaxFailed
    BY <1>1, <2>2 DEF Admitted
  <2> QED BY <2>1, <2>2, <2>3, <2>4
<1> QED BY <1>2, <1>3

\* A failed read tried again (scan.ts:137-143).
LEMMA StepRetry == ASSUME IInv, Retry PROVE IInv'
<1> DEFINE q == batch.retry
<1>1. q \in Seq(Key) /\ q # <<>>
  BY WorkTyped DEF Retry, Batches
<1>2. PICK k \in Key : k = Head(q)
  BY <1>1, HeadAndTail
<1>3. /\ Running /\ q # <<>> /\ UNCHANGED <<forge, saved>>
      /\ Succeeds(k, work) \/ Fails(k, work)
      /\ batch' = [batch EXCEPT !.retry = Tail(@), !.attempted = @ \cup {k}]
  BY <1>1, <1>2 DEF Retry
<1>4. WorkInv /\ work \in Cursors /\ work.pass \in Passes /\ HasPass(work) /\ PassInv(work)
      /\ OneEach(work.gaps) /\ batch \in Batches /\ q \in Seq(Key)
  BY <1>3, WorkTyped DEF Batches
<1>5. /\ Len(q) \in Nat /\ 1 \in DOMAIN q /\ k = q[1] /\ k \in Key
      /\ Tail(q) \in Seq(Key) /\ DOMAIN Tail(q) = 1..(Len(q) - 1) /\ DOMAIN q = 1..Len(q)
      /\ \A i \in 1..(Len(q) - 1) : Tail(q)[i] = q[i + 1]
  BY <1>1, <1>2, HeadAndTail
<1>6. Has(work.failed, k) /\ Admitted(k)
  BY <1>4, <1>5 DEF WorkInv, Admitted
<1>7. batch' \in Batches /\ batch'.retry = Tail(q) /\ batch'.attempted = batch.attempted \cup {k}
  BY <1>3, <1>4, <1>5 DEF Batches
<1> HIDE DEF q
<1>8. Steady
  BY <1>3, <1>4, <1>5, <1>6, ReadOver
<1>9. PICK failed \in Seq(Key) :
          /\ work' = [work EXCEPT !.failed = failed]
          /\ Distinct(failed) /\ Len(failed) <= MaxFailed
          /\ \A j \in Key : Has(work.failed, j) /\ j # k => Has(failed, j)
          /\ Behind(k)' => Has(failed, k) \/ Later(work, k)
  BY <1>3, <1>4, <1>5, <1>6, ReadOver
<1>10. /\ work' \in Cursors /\ work'.failed = failed
      /\ work'.inventory = work.inventory /\ work'.enumerated = work.enumerated
      /\ work'.scanned = work.scanned /\ work'.gaps = work.gaps /\ work'.pass = work.pass
  BY <1>4, <1>9 DEF Cursors
<1>11. Follows(work', work)
  BY <1>4, <1>10 DEF Follows, HasPass
<1>12. \A j \in Key : Later(work, j)' <=> Later(work, j)
  BY <1>3, <1>8, <1>11, LaterFollows
<1>13. ASSUME NEW j \in Key, Behind(j)' PROVE Retained(work, j)'
  <2>1. Behind(j) /\ Retained(work, j)
    BY <1>4, <1>8, <1>13 DEF Steady, WorkInv
  <2>2. CASE Has(work.failed, j)
    BY <2>2, <1>9, <1>10, <1>12, <1>13 DEF Retained
  <2>3. CASE Later(work, j)
    BY <2>3, <1>12 DEF Retained
  <2>4. CASE \E i \in DOMAIN work.gaps : Covers(work.gaps[i], j)
    BY <2>4, <1>8, <1>10 DEF Retained, Covers, Steady
  <2>5. CASE Listable(work, j) \/ Listed(work, j)
    BY <2>5, <1>8, <1>10 DEF Retained, Listable, Listed, Covers, Steady, HasPass
  <2> QED BY <2>1, <2>2, <2>3, <2>4, <2>5 DEF Retained
<1>14. ASSUME NEW j \in batch'.attempted, Behind(j)' PROVE Has(work'.failed, j) \/ Later(work, j)
  <2>1. j \in Key
    BY <1>7 DEF Batches
  <2>2. CASE j = k
    BY <2>2, <1>9, <1>10, <1>14
  <2>3. CASE j # k
    BY <2>1, <2>3, <1>4, <1>7, <1>8, <1>9, <1>10, <1>14 DEF WorkInv, Steady
  <2> QED BY <2>2, <2>3
<1>15. Distinct(q) /\ \A i \in DOMAIN q : Has(work.failed, q[i])
  BY <1>4 DEF WorkInv, Distinct, q
<1>16. Distinct(batch'.retry)
  BY <1>5, <1>7, <1>15 DEF Distinct
<1>17. ASSUME NEW i \in DOMAIN batch'.retry PROVE Has(work'.failed, batch'.retry[i])
  <2>1. i \in 1..(Len(q) - 1) /\ i + 1 \in DOMAIN q /\ i + 1 # 1 /\ batch'.retry[i] = q[i + 1]
    BY <1>5, <1>7
  <2>2. q[i + 1] # k /\ q[i + 1] \in Key
    BY <2>1, <1>4, <1>5, <1>15 DEF Distinct
  <2> QED BY <2>1, <2>2, <1>9, <1>10, <1>15
<1> QED BY <1>3, <1>4, <1>7, <1>8, <1>9, <1>10, <1>11, <1>13, <1>14, <1>16, <1>17, WorkSteady
        DEF PassInv

\* What is to be listed, or has been.
Waits(c, k) ==
    \/ \E i \in DOMAIN c.gaps : Covers(c.gaps[i], k)
    \/ Listable(c, k) \/ Listed(c, k)

\* A listing step stays within the invariant when what waited still waits, or
\* is left for the next pass.
LEMMA DiscoverySteady ==
    ASSUME IInv, Running, UNCHANGED <<forge, store, saved>>, Follows(work', work),
           work'.failed = work.failed, OneEach(work'.gaps),
           work'.pass.listed => work'.pass.windows # <<>>,
           ~work'.pass.listed => work'.pass.page = {},
           Cardinality(work'.pass.page) < PageSize,
           batch' \in Batches, batch'.attempted = batch.attempted, batch'.retry = batch.retry,
           \A k \in Key : Behind(k) /\ Waits(work, k) => Waits(work', k) \/ Later(work, k)
    PROVE  IInv'
<1>1. Steady
  BY StoreKept
<1>2. WorkInv /\ Distinct(work.failed) /\ Len(work.failed) <= MaxFailed
  BY WorkTyped DEF WorkInv, CursorInv
<1>3. \A k \in Key : Later(work, k)' <=> Later(work, k)
  BY <1>1, LaterFollows
<1>4. ASSUME NEW k \in Key, Behind(k)' PROVE Retained(work, k)'
  <2>1. Behind(k) /\ Retained(work, k)
    BY <1>1, <1>2, <1>4 DEF Steady, WorkInv
  <2>2. CASE Has(work.failed, k)
    BY <2>2 DEF Retained
  <2>3. CASE Later(work, k)
    BY <2>3, <1>3 DEF Retained
  <2>4. CASE Waits(work', k)
    BY <2>4, <1>1 DEF Waits, Retained, Listable, Listed, Covers, Steady, HasPass
  <2> QED BY <2>1, <2>2, <2>3, <2>4 DEF Retained, Waits
<1>5. batch'.attempted \subseteq Key
  BY DEF Batches
<1>6. \A k \in batch'.attempted : Behind(k)' => Has(work'.failed, k) \/ Later(work, k)
  BY <1>1, <1>2, <1>5 DEF Steady, WorkInv
<1>7. Distinct(batch'.retry) /\ \A i \in DOMAIN batch'.retry : Has(work'.failed, batch'.retry[i])
  BY <1>2 DEF WorkInv, Distinct
<1> QED BY <1>1, <1>2, <1>4, <1>6, <1>7, WorkSteady

\* A listed pull request read (scan.ts:173-180).
LEMMA StepReadListed == ASSUME IInv, NEW k \in Key, ReadListed(k) PROVE IInv'
<1>1. /\ Running /\ work.pass.listed /\ k \in work.pass.page /\ Admitted(k)
      /\ batch.retry = <<>> /\ work.pass.windows # <<>>
      /\ batch' = [batch EXCEPT !.reads = @ + 1, !.attempted = @ \cup {k}]
      /\ UNCHANGED <<forge, saved>>
  BY DEF ReadListed, ToRead, Discovering
<1> DEFINE next == [work EXCEPT !.pass.page = @ \ {k}]
<1>2. \/ k \in batch.attempted /\ work' = next /\ UNCHANGED store
      \/ Succeeds(k, next) \/ Fails(k, next)
  BY DEF ReadListed
<1>3. WorkInv /\ work \in Cursors /\ work.pass \in Passes /\ HasPass(work) /\ PassInv(work)
      /\ OneEach(work.gaps) /\ batch \in Batches /\ Distinct(work.failed)
      /\ Len(work.failed) <= MaxFailed /\ work.failed \in Seq(Key)
  BY <1>1, WorkTyped DEF WorkInv, CursorInv
<1>4. next.pass \in Passes
  BY <1>3 DEF Passes, Cursors
<1>5. /\ next \in Cursors
      /\ next.failed = work.failed /\ next.gaps = work.gaps /\ next.scanned = work.scanned
      /\ next.inventory = work.inventory /\ next.enumerated = work.enumerated
      /\ next.pass.page = work.pass.page \ {k} /\ next.pass.windows = work.pass.windows
      /\ next.pass.listed = work.pass.listed /\ next.pass.partial = work.pass.partial
      /\ next.pass.state = work.pass.state /\ next.pass.end = work.pass.end
  BY <1>3, <1>4 DEF Cursors, Passes
<1> HIDE DEF next
<1>6. batch' \in Batches /\ batch'.retry = <<>> /\ batch'.attempted = batch.attempted \cup {k}
  <2>1. batch.reads + 1 \in Nat /\ batch.attempted \cup {k} \in SUBSET Key
    BY <1>3 DEF Batches
  <2> QED BY <2>1, <1>1, <1>3 DEF Batches
<1>7. /\ Steady
      /\ \E failed \in Seq(Key) :
            /\ work' = [next EXCEPT !.failed = failed]
            /\ Distinct(failed) /\ Len(failed) <= MaxFailed
            /\ \A j \in Key : Has(work.failed, j) /\ j # k => Has(failed, j)
            /\ Behind(k)' => Has(failed, k) \/ Later(work, k)
  <2>1. CASE k \in batch.attempted /\ work' = next /\ UNCHANGED store
    <3>1. Steady
      BY <1>1, <2>1, StoreKept
    <3>2. work' = [next EXCEPT !.failed = work.failed]
      BY <2>1, <1>5 DEF Cursors
    <3>3. Behind(k)' => Has(work.failed, k) \/ Later(work, k)
      BY <2>1, <3>1, <1>3 DEF Steady, WorkInv
    <3> QED BY <3>1, <3>2, <3>3, <1>3
  <2>2. CASE Succeeds(k, next) \/ Fails(k, next)
    BY <2>2, <1>1, <1>5, ReadOver
  <2> QED BY <1>2, <2>1, <2>2
<1>8. PICK failed \in Seq(Key) :
          /\ work' = [next EXCEPT !.failed = failed]
          /\ Distinct(failed) /\ Len(failed) <= MaxFailed
          /\ \A j \in Key : Has(work.failed, j) /\ j # k => Has(failed, j)
          /\ Behind(k)' => Has(failed, k) \/ Later(work, k)
  BY <1>7
<1>9. /\ work' \in Cursors /\ work'.failed = failed
      /\ work'.inventory = work.inventory /\ work'.enumerated = work.enumerated
      /\ work'.scanned = work.scanned /\ work'.gaps = work.gaps /\ work'.pass = next.pass
  BY <1>5, <1>8 DEF Cursors
<1>10. Follows(work', work)
  BY <1>3, <1>4, <1>5, <1>9, PassesArePasses DEF Follows, HasPass
<1>11. \A j \in Key : Later(work, j)' <=> Later(work, j)
  BY <1>1, <1>7, <1>10, LaterFollows
<1>12. ASSUME NEW j \in Key, Behind(j)' PROVE Retained(work, j)'
  <2>1. Behind(j) /\ Retained(work, j)
    BY <1>3, <1>7, <1>12 DEF Steady, WorkInv
  <2>2. CASE j = k
    BY <2>2, <1>8, <1>9, <1>11, <1>12 DEF Retained
  <2>3. CASE Has(work.failed, j) /\ j # k
    BY <2>3, <1>8, <1>9 DEF Retained
  <2>4. CASE Later(work, j)
    BY <2>4, <1>11 DEF Retained
  <2>5. CASE \E i \in DOMAIN work.gaps : Covers(work.gaps[i], j)
    BY <2>5, <1>7, <1>9 DEF Retained, Covers, Steady
  <2>6. CASE Listable(work, j)
    BY <2>6, <1>5, <1>7, <1>9, <1>10 DEF Retained, Listable, Covers, Steady, HasPass, Follows
  <2>7. CASE Listed(work, j) /\ j # k
    BY <2>7, <1>5, <1>9, <1>10 DEF Retained, Listed, HasPass, Follows
  <2> QED BY <2>1, <2>2, <2>3, <2>4, <2>5, <2>6, <2>7 DEF Retained
<1>13. ASSUME NEW j \in batch'.attempted, Behind(j)' PROVE Has(work'.failed, j) \/ Later(work, j)
  <2>1. j \in Key
    BY <1>6 DEF Batches
  <2>2. CASE j = k
    BY <2>2, <1>8, <1>9, <1>13
  <2>3. CASE j # k
    BY <2>1, <2>3, <1>3, <1>6, <1>7, <1>8, <1>9, <1>13 DEF WorkInv, Steady
  <2> QED BY <2>2, <2>3
<1>14. Cardinality(work'.pass.page) < PageSize
  <2>1. IsFiniteSet(work.pass.page) /\ work.pass.page \subseteq Key
    BY <1>3, KeyAssumption, FS_Subset DEF Passes
  <2>2. /\ Cardinality(work.pass.page \ {k}) <= Cardinality(work.pass.page)
        /\ Cardinality(work.pass.page \ {k}) \in Nat /\ Cardinality(work.pass.page) \in Nat
    BY <2>1, FS_Subset, FS_CardinalityType
  <2>3. Cardinality(work.pass.page) < PageSize /\ PageSize \in Nat
    BY <1>3, BatchAssumption DEF PassInv
  <2>4. work'.pass.page = work.pass.page \ {k}
    BY <1>5, <1>9
  <2>5. Cardinality(work.pass.page \ {k}) < PageSize
    BY <2>2, <2>3
  <2> QED BY <2>4, <2>5
<1>15. work'.pass.listed /\ work'.pass.windows # <<>>
  BY <1>1, <1>5, <1>9
<1>16. Distinct(batch'.retry) /\ \A i \in DOMAIN batch'.retry : Has(work'.failed, batch'.retry[i])
  BY <1>6 DEF Distinct
<1> QED BY <1>1, <1>3, <1>6, <1>7, <1>8, <1>9, <1>10, <1>12, <1>13, <1>14, <1>15, <1>16, WorkSteady

\* The last Lag seconds are listed again.
LEMMA LateIsRecent ==
    ASSUME IInv, Running, NEW k \in Key, ~(updated[k] <= now - Lag)
    PROVE  Later(work, k)
<1>1. updated[k] \in Time /\ now \in Time /\ Start <= now
  BY DEF IInv, WorldInv
<1>2. /\ work \in Cursors /\ work.pass.end <= now /\ HasPass(work) /\ work.pass \in Passes
      /\ work.pass.state = "all" <=> work.inventory
      /\ work.enumerated # Never => work.inventory
  BY PassTyped DEF IInv, WorkInv, CursorInv, PassInv
<1>3. /\ Overlap \in Nat /\ Lag \in Nat /\ 0 < Lag /\ Lag <= Overlap
      /\ Since \in Nat /\ Start \in Nat /\ Since + Lag <= Start + 1 /\ MaxTime \in Nat
  BY OverlapAssumption, TimeAssumption
<1>4. work.pass.end \in Time
  BY <1>2 DEF Passes
<1>5. updated[k] > now - Lag /\ updated[k] \in Nat /\ now \in Nat
  BY <1>1, <1>3 DEF Time
<1>6. CASE work.pass.state = "all"
  <2>1. LaterFrom(work) = work.pass.end - Overlap
    BY <1>2, <1>6 DEF LaterFrom
  <2>2. updated[k] >= work.pass.end - Overlap
    BY <1>2, <1>3, <1>4, <1>5 DEF Time
  <2> QED BY <2>1, <2>2 DEF Later
<1>7. CASE work.pass.state # "all"
  <2>1. LaterFrom(work) = Since
    BY <1>2, <1>7 DEF LaterFrom
  <2>2. updated[k] >= Since
    BY <1>1, <1>3, <1>5
  <2> QED BY <2>1, <2>2 DEF Later
<1> QED BY <1>6, <1>7

\* An empty page is within the size of one.
LEMMA NothingListed == Cardinality({}) < PageSize
  BY FS_EmptySet, BatchAssumption

\* A request counts, and changes nothing else of the batch.
LEMMA Requested ==
    ASSUME batch \in Batches, Request
    PROVE  /\ batch' \in Batches /\ batch'.attempted = batch.attempted
           /\ batch'.retry = batch.retry
<1>1. batch.requests + 1 \in Nat
  BY DEF Batches
<1> QED BY <1>1 DEF Request, Batches

\* A page listed (scan.ts:149-156).
LEMMA StepListPage == ASSUME IInv, ListPage PROVE IInv'
<1>1. /\ Running /\ ~work.pass.listed /\ work.pass.windows # <<>> /\ Request
      /\ UNCHANGED <<forge, store, saved>>
  BY DEF ListPage, ToList, Discovering
<1>2. WorkInv /\ work \in Cursors /\ work.pass \in Passes /\ HasPass(work) /\ PassInv(work)
      /\ OneEach(work.gaps) /\ batch \in Batches
  BY <1>1, WorkTyped
<1>3. \A L \in Listings(First) :
          L \subseteq Key /\ \A k \in Key : Covers(First, k) /\ updated[k] <= now - Lag => k \in L
  BY DEF Listings
<1>4. PICK partial \in BOOLEAN :
          \E page \in IF partial THEN UNION {SUBSET L : L \in Listings(First)} ELSE Listings(First) :
             /\ Cardinality(page) < PageSize
             /\ work' = [work EXCEPT !.pass.listed = TRUE, !.pass.page = page,
                                     !.pass.partial = partial]
  BY DEF ListPage
<1>5. PICK page \in SUBSET Key :
          /\ page \in IF partial THEN UNION {SUBSET L : L \in Listings(First)} ELSE Listings(First)
          /\ Cardinality(page) < PageSize
          /\ work' = [work EXCEPT !.pass.listed = TRUE, !.pass.page = page,
                                  !.pass.partial = partial]
  <2>1. (IF partial THEN UNION {SUBSET L : L \in Listings(First)} ELSE Listings(First))
            \subseteq SUBSET Key
    BY <1>3
  <2> QED BY <2>1, <1>4
<1>6. /\ work' \in Cursors /\ work'.failed = work.failed /\ work'.gaps = work.gaps
      /\ work'.inventory = work.inventory /\ work'.enumerated = work.enumerated
      /\ work'.scanned = work.scanned /\ work'.pass \in Passes
      /\ work'.pass.page = page /\ work'.pass.windows = work.pass.windows
      /\ work'.pass.listed /\ work'.pass.partial = partial
      /\ work'.pass.state = work.pass.state /\ work'.pass.end = work.pass.end
  <2> DEFINE pass == [work.pass EXCEPT !.listed = TRUE, !.page = page, !.partial = partial]
  <2>1. pass \in Passes
    BY <1>2, <1>5 DEF Passes
  <2>2. /\ pass.page = page /\ pass.windows = work.pass.windows
        /\ pass.listed /\ pass.partial = partial
        /\ pass.state = work.pass.state /\ pass.end = work.pass.end
    BY <1>2 DEF Passes
  <2>3. work' = [work EXCEPT !.pass = pass]
    BY <1>2, <1>5 DEF Passes, Cursors
  <2> HIDE DEF pass
  <2> QED BY <2>1, <2>2, <2>3, <1>2 DEF Cursors
<1>7. Follows(work', work)
  BY <1>6, PassesArePasses DEF Follows, HasPass
<1>8. ASSUME NEW k \in Key, Waits(work, k) PROVE Waits(work', k) \/ Later(work, k)
  <2>1. CASE \E i \in DOMAIN work.gaps : Covers(work.gaps[i], k)
    BY <2>1, <1>6 DEF Waits
  <2>2. CASE Listed(work, k)
    BY <2>2, <1>1, <1>2 DEF Listed, PassInv
  <2>3. CASE Listable(work, k)
    <3>1. PICK i \in DOMAIN work.pass.windows : Covers(work.pass.windows[i], k)
      BY <2>3 DEF Listable
    <3>2. CASE partial \/ i # 1
      BY <3>1, <3>2, <1>6, <1>7 DEF Waits, Listable, Follows
    <3>3. CASE ~partial /\ i = 1
      <4>1. Covers(First, k)
        BY <3>1, <3>3, <1>1, <1>2, HeadAndTail DEF First, Passes
      <4>2. k \in page \/ ~(updated[k] <= now - Lag)
        BY <4>1, <3>3, <1>3, <1>5
      <4>3. k \in page => Listed(work', k)
        BY <1>6, <1>7 DEF Listed, Follows
      <4> QED BY <4>2, <4>3, <1>1, LateIsRecent DEF Waits
    <3> QED BY <3>2, <3>3
  <2> QED BY <1>8, <2>1, <2>2, <2>3 DEF Waits
<1>9. batch' \in Batches /\ batch'.attempted = batch.attempted /\ batch'.retry = batch.retry
  BY <1>1, <1>2, Requested
<1> QED BY <1>1, <1>2, <1>5, <1>6, <1>7, <1>8, <1>9, DiscoverySteady

\* A window is left behind: in the gaps, or all that it covers has been listed.
LEMMA WindowPassed ==
    ASSUME IInv, Running, UNCHANGED <<forge, store, saved>>, Follows(work', work),
           work'.failed = work.failed, work.pass.windows # <<>>, work.pass.page = {},
           \/ work'.gaps = RetainGap(work.gaps, First)
           \/ work'.gaps = work.gaps /\ work.pass.listed /\ ~work.pass.partial,
           work'.pass.windows = Others, ~work'.pass.listed, work'.pass.page = {},
           batch' \in Batches, batch'.attempted = batch.attempted, batch'.retry = batch.retry
    PROVE  IInv'
<1>1. WorldInv /\ HasPass(work) /\ OneEach(work.gaps) /\ work.gaps \in Seq(Window)
  BY WorkTyped DEF IInv
<1> DEFINE q == work.pass.windows
<1>2. q \in Seq(Window)
  BY WorkTyped
<1>3. /\ Len(q) \in Nat /\ 1 \in DOMAIN q /\ First = q[1] /\ First \in Window
      /\ Len(Others) = Len(q) - 1 /\ DOMAIN Others = 1..(Len(q) - 1) /\ DOMAIN q = 1..Len(q)
      /\ \A i \in 1..(Len(q) - 1) : Others[i] = q[i + 1]
  BY <1>2, HeadAndTail DEF First, Others
<1> HIDE DEF q
<1> DEFINE r == RetainGap(work.gaps, First)
<1>4. /\ r \in Seq(Window) /\ OneEach(r)
      /\ \E i \in DOMAIN r : Wider(r[i], First)
      /\ \A j \in DOMAIN work.gaps : \E i \in DOMAIN r : Wider(r[i], work.gaps[j])
  <2>1. PICK w \in Window : w = First
    BY <1>3
  <2>2. /\ RetainGap(work.gaps, w) \in Seq(Window) /\ OneEach(RetainGap(work.gaps, w))
        /\ \E i \in DOMAIN RetainGap(work.gaps, w) : Wider(RetainGap(work.gaps, w)[i], w)
        /\ \A j \in DOMAIN work.gaps : \E i \in DOMAIN RetainGap(work.gaps, w) :
               Wider(RetainGap(work.gaps, w)[i], work.gaps[j])
    BY <1>1, GapRetained
  <2> QED BY <2>1, <2>2
<1> HIDE DEF r
<1>5. OneEach(work'.gaps)
  BY <1>1, <1>4 DEF r
<1>6. \A i \in DOMAIN r : r[i] \in Window
  BY <1>4
<1>7. ASSUME NEW k \in Key, Waits(work, k) PROVE Waits(work', k)
  <2>1. CASE \E i \in DOMAIN work.gaps : Covers(work.gaps[i], k)
    <3>1. CASE work'.gaps = r
      <4>1. PICK j \in DOMAIN work.gaps : Covers(work.gaps[j], k)
        BY <2>1
      <4>2. PICK i \in DOMAIN r : Wider(r[i], work.gaps[j])
        BY <1>4
      <4>3. work.gaps[j] \in Window
        BY <1>1
      <4>4. Covers(r[i], k)
        BY <4>1, <4>2, <4>3, <1>1, <1>6, WiderCovers
      <4> QED BY <3>1, <4>4 DEF Waits
    <3>2. CASE work'.gaps = work.gaps
      BY <2>1, <3>2 DEF Waits
    <3> QED BY <3>1, <3>2 DEF r
  <2>2. CASE Listable(work, k)
    <3>1. PICK i \in DOMAIN q : Covers(q[i], k) /\ (i = 1 /\ work.pass.listed => work.pass.partial)
      BY <2>2 DEF Listable, q
    <3>2. CASE i = 1
      <4>1. Covers(First, k) /\ work'.gaps = r
        BY <3>1, <3>2, <1>3 DEF r
      <4>2. PICK j \in DOMAIN r : Wider(r[j], First)
        BY <1>4
      <4>3. Covers(r[j], k)
        BY <4>1, <4>2, <1>1, <1>3, <1>6, WiderCovers
      <4> QED BY <4>1, <4>3 DEF Waits
    <3>3. CASE i # 1
      <4>1. i - 1 \in DOMAIN Others /\ Others[i - 1] = q[i]
        BY <3>3, <1>3
      <4>2. Listable(work', k)
        BY <3>1, <4>1 DEF Listable, Follows
      <4> QED BY <4>2 DEF Waits
    <3> QED BY <3>2, <3>3
  <2>3. CASE Listed(work, k)
    BY <2>3 DEF Listed
  <2> QED BY <1>7, <2>1, <2>2, <2>3 DEF Waits
<1> QED BY <1>5, <1>7, NothingListed, DiscoverySteady

\* The window at the head given up, and kept as a gap.
LEMMA Skipped ==
    ASSUME IInv, ToList, Skip(RetainGap(work.gaps, First)), Request,
           UNCHANGED <<forge, store, saved>>
    PROVE  IInv'
<1>1. Running /\ ~work.pass.listed /\ work.pass.windows # <<>>
  BY DEF ToList, Discovering
<1>2. work \in Cursors /\ work.pass \in Passes /\ work.pass.page = {}
      /\ OneEach(work.gaps) /\ work.gaps \in Seq(Window) /\ batch \in Batches
      /\ work.pass.windows \in Seq(Window)
  BY <1>1, WorkTyped DEF PassInv
<1> DEFINE r == RetainGap(work.gaps, First)
           pass == [work.pass EXCEPT !.windows = Others]
<1>3. Others \in Seq(Window) /\ First \in Window
  BY <1>1, <1>2, HeadAndTail DEF First, Others
<1>4. r \in Seq(Window)
  BY <1>2, <1>3, GapRetained
<1>5. /\ pass \in Passes /\ pass.windows = Others /\ pass.page = work.pass.page
      /\ pass.listed = work.pass.listed
      /\ pass.state = work.pass.state /\ pass.end = work.pass.end
  BY <1>2, <1>3 DEF Passes
<1>6. work' = [work EXCEPT !.gaps = r, !.pass = pass]
  BY <1>2 DEF Skip, Cursors, Passes
<1> HIDE DEF r, pass
<1>7. /\ work' \in Cursors /\ work'.failed = work.failed /\ work'.gaps = r
      /\ work'.inventory = work.inventory /\ work'.enumerated = work.enumerated
      /\ work'.scanned = work.scanned /\ work'.pass = pass
  BY <1>2, <1>4, <1>5, <1>6 DEF Cursors
<1>8. Follows(work', work)
  BY <1>5, <1>7, PassesArePasses DEF Follows, HasPass
<1>9. batch' \in Batches /\ batch'.attempted = batch.attempted /\ batch'.retry = batch.retry
  BY <1>2, Requested
<1> QED BY <1>1, <1>2, <1>5, <1>7, <1>8, <1>9, WindowPassed DEF r

\* A listing that fails (scan.ts:167-171).
LEMMA StepListFails == ASSUME IInv, ListFails PROVE IInv'
  BY Skipped DEF ListFails

\* A window all of which has been read is closed (scan.ts:181-184).
LEMMA StepCloseWindow == ASSUME IInv, CloseWindow PROVE IInv'
<1>1. /\ Running /\ work.pass.listed /\ work.pass.windows # <<>> /\ work.pass.page = {}
      /\ UNCHANGED <<forge, store, saved>> /\ batch' = batch
  BY DEF CloseWindow, ToRead, Discovering
<1>2. work \in Cursors /\ work.pass \in Passes /\ batch \in Batches
      /\ OneEach(work.gaps) /\ work.gaps \in Seq(Window) /\ work.pass.windows \in Seq(Window)
  BY <1>1, WorkTyped
<1> DEFINE r == RetainGap(work.gaps, First)
           gaps == IF work.pass.partial THEN r ELSE work.gaps
           pass == [work.pass EXCEPT !.listed = FALSE, !.partial = FALSE, !.windows = Others]
<1>3. Others \in Seq(Window) /\ First \in Window
  BY <1>1, <1>2, HeadAndTail DEF First, Others
<1>4. gaps \in Seq(Window)
  BY <1>2, <1>3, GapRetained
<1>5. /\ pass \in Passes /\ pass.windows = Others /\ pass.page = work.pass.page
      /\ ~pass.listed /\ pass.state = work.pass.state /\ pass.end = work.pass.end
  BY <1>2, <1>3 DEF Passes
<1>6. work' = [work EXCEPT !.gaps = gaps, !.pass = pass]
  BY <1>2 DEF CloseWindow, Cursors, Passes
<1>7. gaps = r \/ (gaps = work.gaps /\ ~work.pass.partial)
  OBVIOUS
<1> HIDE DEF r, pass, gaps
<1>8. /\ work' \in Cursors /\ work'.failed = work.failed /\ work'.gaps = gaps
      /\ work'.inventory = work.inventory /\ work'.enumerated = work.enumerated
      /\ work'.scanned = work.scanned /\ work'.pass = pass
  BY <1>2, <1>4, <1>5, <1>6 DEF Cursors
<1>9. Follows(work', work)
  BY <1>5, <1>8, PassesArePasses DEF Follows, HasPass
<1> QED BY <1>1, <1>2, <1>5, <1>7, <1>8, <1>9, WindowPassed DEF r

\* A full page (scan.ts:155-165): the window split in two, or too narrow for that and a gap.
LEMMA StepSplit == ASSUME IInv, Split PROVE IInv'
<1>1. /\ ToList /\ Request /\ UNCHANGED <<forge, store, saved>>
      /\ Running /\ ~work.pass.listed /\ work.pass.windows # <<>>
  BY DEF Split, ToList, Discovering
<1>2. CASE First.to - First.from <= 1
  BY <1>1, <1>2, Skipped DEF Split
<1>3. CASE ~(First.to - First.from <= 1)
  <2> DEFINE q == work.pass.windows
             middle == (First.from + First.to) \div 2
             lower == [First EXCEPT !.to = middle]
             upper == [First EXCEPT !.from = middle]
             w == <<lower, upper>> \o Others
             pass == [work.pass EXCEPT !.windows = w]
  <2>1. /\ WorkInv /\ work \in Cursors /\ work.pass \in Passes /\ PassInv(work)
        /\ q \in Seq(Window) /\ OneEach(work.gaps) /\ batch \in Batches
    BY <1>1, WorkTyped
  <2>2. /\ Len(q) \in Nat /\ 1 \in DOMAIN q /\ First = q[1] /\ First \in Window
        /\ Others \in Seq(Window) /\ Len(Others) = Len(q) - 1 /\ DOMAIN q = 1..Len(q)
        /\ \A i \in 1..(Len(q) - 1) : Others[i] = q[i + 1]
    BY <1>1, <2>1, HeadAndTail DEF First, Others
  <2>3. /\ First.from \in Time /\ First.to \in Time /\ First.state \in {"open", "all"}
        /\ First = [state |-> First.state, from |-> First.from, to |-> First.to]
    BY <2>2 DEF Window
  <2>4. middle \in Time /\ First.from <= middle /\ middle <= First.to
    BY <1>3, <2>3, TimeAssumption DEF Time
  <2>5. /\ lower = [state |-> First.state, from |-> First.from, to |-> middle]
        /\ upper = [state |-> First.state, from |-> middle, to |-> First.to]
    BY <2>3
  <2> HIDE DEF middle, lower, upper
  <2>6. lower \in Window /\ upper \in Window
    BY <2>3, <2>4, <2>5 DEF Window
  <2>7. <<lower, upper>> \in Seq(Window) /\ Len(<<lower, upper>>) = 2
    BY <2>6
  <2>8. /\ w \in Seq(Window) /\ Len(w) = Len(q) + 1 /\ w[1] = lower /\ w[2] = upper
    BY <2>2, <2>6
  <2>9. ASSUME NEW i \in 2..Len(q) PROVE i + 1 \in DOMAIN w /\ w[i + 1] = q[i]
    <3>1. i - 1 \in 1..Len(Others) /\ Others[i - 1] = q[i] /\ 2 + (i - 1) = i + 1
      BY <2>2
    <3>2. w[2 + (i - 1)] = Others[i - 1]
      BY <2>2, <2>7, <3>1, SecondPart
    <3> QED BY <2>2, <2>8, <3>1, <3>2
  <2>10. work' = [work EXCEPT !.pass = pass]
    BY <1>3, <2>1 DEF Split, Cursors, Passes, lower, upper, middle
  <2> HIDE DEF w
  <2>11. /\ pass \in Passes /\ pass.windows = w /\ pass.page = work.pass.page
         /\ pass.listed = work.pass.listed
         /\ pass.state = work.pass.state /\ pass.end = work.pass.end
    BY <2>1, <2>8 DEF Passes
  <2> HIDE DEF pass
  <2>12. /\ work' \in Cursors /\ work'.failed = work.failed /\ work'.gaps = work.gaps
         /\ work'.inventory = work.inventory /\ work'.enumerated = work.enumerated
         /\ work'.scanned = work.scanned /\ work'.pass = pass
    BY <2>1, <2>10, <2>11 DEF Cursors
  <2>13. Follows(work', work)
    BY <2>11, <2>12, PassesArePasses DEF Follows, HasPass
  <2>14. batch' \in Batches /\ batch'.attempted = batch.attempted /\ batch'.retry = batch.retry
    BY <1>1, <2>1, Requested
  <2>15. 1 \in DOMAIN w /\ 2 \in DOMAIN w
    BY <2>2, <2>8
  <2>16. ASSUME NEW k \in Key, Waits(work, k) PROVE Waits(work', k)
    <3>1. CASE \E i \in DOMAIN work.gaps : Covers(work.gaps[i], k)
      BY <3>1, <2>12 DEF Waits
    <3>2. CASE Listed(work, k)
      BY <3>2, <1>1, <2>1 DEF Listed, PassInv
    <3>3. CASE Listable(work, k)
      <4>1. PICK i \in DOMAIN q : Covers(q[i], k)
        BY <3>3 DEF Listable
      <4>2. CASE i = 1
        <5>1. Covers(First, k)
          BY <4>1, <4>2, <2>2
        <5>2. updated[k] \in Time
          BY DEF IInv, WorldInv
        <5>3. Covers(lower, k) \/ Covers(upper, k)
          BY <5>1, <5>2, <2>3, <2>4, <2>5, TimeAssumption DEF Covers, Time
        <5>4. Listable(work', k)
          BY <5>3, <2>8, <2>11, <2>12, <2>13, <2>15, <1>1 DEF Listable, Follows
        <5> QED BY <5>4 DEF Waits
      <4>3. CASE i # 1
        <5>1. i + 1 \in DOMAIN w /\ w[i + 1] = q[i]
          BY <4>3, <2>2, <2>9
        <5>2. Listable(work', k)
          BY <4>1, <5>1, <2>11, <2>12, <2>13, <1>1 DEF Listable, Follows
        <5> QED BY <5>2 DEF Waits
      <4> QED BY <4>2, <4>3
    <3> QED BY <2>16, <3>1, <3>2, <3>3 DEF Waits
  <2> QED BY <1>1, <2>1, <2>11, <2>12, <2>13, <2>14, <2>16, DiscoverySteady DEF PassInv
<1> QED BY <1>2, <1>3

-----------------------------------------------------------------------------
(* A batch begins, ends and is lost.                                       *)

\* The pass a cursor goes on with has all that the cursor has yet to come to.
LEMMA PassBegun ==
    ASSUME IInv, NEW c \in Cursors, c = saved, ~HasPass(c)
    PROVE  LET d == WithPass(c) IN
           /\ d \in Cursors /\ HasPass(d) /\ d.failed = c.failed /\ d.gaps = <<>>
           /\ d.inventory = c.inventory /\ d.enumerated = c.enumerated /\ d.scanned = c.scanned
           /\ d.pass.end = now /\ d.pass.state = (IF c.inventory THEN "all" ELSE "open")
           /\ ~d.pass.listed /\ d.pass.page = {}
           /\ \A k \in Key : Relevant(k) /\ Retained(c, k) => Retained(d, k)
<1>1. /\ now \in Time /\ Start <= now /\ c.enumerated <= now /\ c.scanned <= c.enumerated
      /\ c.enumerated # Never => c.inventory
      /\ c.enumerated \in Time \cup {Never} /\ c.inventory \in BOOLEAN
      /\ c.gaps \in Seq(Window) /\ c.failed \in Seq(Key)
  BY DEF IInv, WorldInv, SavedInv, CursorInv, Cursors
<1>2. /\ Overlap \in Nat /\ Lag \in Nat /\ 0 < Lag
      /\ Since \in Nat /\ Start \in Nat /\ Since + Lag <= Start + 1 /\ MaxTime \in Nat
  BY OverlapAssumption, TimeAssumption
<1>3. Since \in Time /\ Since <= now
  BY <1>1, <1>2 DEF Time
<1>4. From(c) \in Time /\ From(c) <= now
  <2>1. CASE c.enumerated < Overlap
    BY <2>1, <1>1, <1>2 DEF From, Time
  <2>2. CASE ~(c.enumerated < Overlap)
    BY <2>2, <1>1, <1>2 DEF From, Time, Never
  <2> QED BY <2>1, <2>2
<1> DEFINE w == NextWindow(c)
           d == WithPass(c)
           pass == [state |-> w.state, end |-> now, windows |-> Append(c.gaps, w),
                    listed |-> FALSE, page |-> {}, partial |-> FALSE]
<1>5. /\ w \in Window /\ w.to = now
      /\ w.state = (IF c.inventory THEN "all" ELSE "open")
      /\ ~c.inventory => w.from = 0
      /\ c.inventory /\ c.enumerated = Never => w.from = Since
      /\ c.inventory /\ c.enumerated # Never => w.from = From(c)
  <2>1. CASE ~c.inventory
    <3>1. w = [state |-> "open", from |-> 0, to |-> now] /\ 0 \in Time /\ 0 <= now
      BY <2>1, <1>1, <1>2 DEF NextWindow, Time
    <3> HIDE DEF w
    <3> QED BY <2>1, <3>1, <1>1 DEF Window
  <2>2. CASE c.inventory /\ c.enumerated = Never
    <3>1. w = [state |-> "all", from |-> Since, to |-> now]
      BY <2>2 DEF NextWindow
    <3> HIDE DEF w
    <3> QED BY <2>2, <3>1, <1>1, <1>3 DEF Window
  <2>3. CASE c.inventory /\ c.enumerated # Never
    <3>1. w = [state |-> "all", from |-> From(c), to |-> now]
      BY <2>3 DEF NextWindow
    <3> HIDE DEF w
    <3> QED BY <2>3, <3>1, <1>1, <1>4 DEF Window
  <2> QED BY <2>1, <2>2, <2>3, <1>1
<1> HIDE DEF w
<1>6. pass \in Passes
  BY <1>1, <1>5 DEF Passes, Window
<1>7. /\ pass.end = now /\ pass.state = w.state /\ pass.windows = Append(c.gaps, w)
      /\ ~pass.listed /\ pass.page = {}
  OBVIOUS
<1>8. d = [c EXCEPT !.gaps = <<>>, !.pass = pass]
  BY DEF WithPass, w
<1> HIDE DEF pass, d
<1>9. /\ d \in Cursors /\ d.pass = pass /\ d.gaps = <<>> /\ d.failed = c.failed
      /\ d.inventory = c.inventory /\ d.enumerated = c.enumerated /\ d.scanned = c.scanned
  <2>1. <<>> \in Seq(Window)
    OBVIOUS
  <2> QED BY <2>1, <1>6, <1>8 DEF Cursors
<1>10. HasPass(d)
  BY <1>6, <1>9, PassesArePasses DEF HasPass
<1>11. /\ Len(c.gaps) + 1 \in DOMAIN Append(c.gaps, w) /\ Append(c.gaps, w)[Len(c.gaps) + 1] = w
       /\ \A i \in DOMAIN c.gaps : i \in DOMAIN Append(c.gaps, w) /\ Append(c.gaps, w)[i] = c.gaps[i]
  BY <1>1, <1>5
<1>12. ASSUME NEW k \in Key, Relevant(k), Retained(c, k) PROVE Retained(d, k)
  <2>1. updated[k] \in Time /\ updated[k] <= now /\ isOpen[k] \in BOOLEAN
    BY DEF IInv, WorldInv
  <2>2. Covers(w, k) => Retained(d, k)
    BY <1>7, <1>9, <1>10, <1>11 DEF Retained, Listable
  <2>3. CASE Has(c.failed, k)
    BY <2>3, <1>9 DEF Retained
  <2>4. CASE \E i \in DOMAIN c.gaps : Covers(c.gaps[i], k)
    BY <2>4, <1>7, <1>9, <1>10, <1>11 DEF Retained, Listable
  <2>5. CASE Listable(c, k) \/ Listed(c, k)
    BY <2>5 DEF Listable, Listed
  <2>6. CASE Later(c, k)
    <3>1. CASE ~c.inventory /\ isOpen[k]
      <4>1. Covers(w, k)
        BY <3>1, <2>1, <1>2, <1>5 DEF Covers, Time
      <4> QED BY <4>1, <2>2
    <3>2. CASE updated[k] >= LaterFrom(c) /\ c.enumerated = Never
      <4>1. LaterFrom(c) = Since
        BY <3>2 DEF LaterFrom
      <4>2. CASE c.inventory
        <5>1. Covers(w, k)
          BY <3>2, <4>1, <4>2, <2>1, <1>5 DEF Covers
        <5> QED BY <5>1, <2>2
      <4>3. CASE ~c.inventory
        <5>1. LaterFrom(d) = Since
          BY <3>2, <4>3, <1>5, <1>7, <1>9 DEF LaterFrom
        <5> QED BY <3>2, <4>1, <5>1 DEF Retained, Later
      <4> QED BY <4>2, <4>3
    <3>3. CASE updated[k] >= LaterFrom(c) /\ c.enumerated # Never
      <4>1. LaterFrom(c) = c.enumerated - Overlap /\ c.inventory
        BY <3>3, <1>1 DEF LaterFrom
      <4>2. updated[k] >= From(c)
        BY <3>3, <4>1, <2>1, <1>1, <1>2 DEF From, Time
      <4>3. Covers(w, k)
        BY <3>3, <4>1, <4>2, <2>1, <1>5 DEF Covers
      <4> QED BY <4>3, <2>2
    <3> QED BY <2>6, <3>1, <3>2, <3>3 DEF Later
  <2> QED BY <1>12, <2>3, <2>4, <2>5, <2>6 DEF Retained
<1> QED BY <1>5, <1>7, <1>9, <1>10, <1>12 DEF d

\* A batch begins with the saved cursor, and a pass over its gaps when it has none.
LEMMA StepBegin == ASSUME IInv, Begin PROVE IInv'
<1>1. /\ ~Running /\ UNCHANGED <<forge, store, saved>>
      /\ work' = IF HasPass(saved) THEN saved ELSE WithPass(saved)
  BY DEF Begin
<1>2. Steady /\ UNCHANGED <<now, updated, isOpen, current>>
  BY <1>1, StoreKept DEF forge, store
<1>3. CursorInv(saved) /\ saved \in Cursors /\ NothingSkipped
  BY DEF IInv, SavedInv, CursorInv
<1>4. saved.failed \in Seq(Key) /\ Distinct(saved.failed) /\ Len(saved.failed) \in Nat
  BY <1>3 DEF CursorInv, Cursors, Distinct
<1> DEFINE n == IF Len(saved.failed) < MaxRetries THEN Len(saved.failed) ELSE MaxRetries
           retry == SubSeq(saved.failed, 1, n)
<1>5. n \in 0..Len(saved.failed)
  BY <1>4, BatchAssumption
<1>6. batch' = [stage |-> "running", attempted |-> {}, requests |-> 0, reads |-> 0, retry |-> retry]
  BY DEF Begin
<1> HIDE DEF n
<1>7. retry \in Seq(Key) /\ DOMAIN retry = 1..n /\ \A i \in 1..n : retry[i] = saved.failed[i]
  BY <1>4, <1>5
<1> HIDE DEF retry
<1>8. batch' \in Batches /\ batch'.attempted = {} /\ batch'.retry = retry /\ Running'
  BY <1>6, <1>7 DEF Batches, Running, Idle
<1>9. Distinct(retry) /\ \A i \in DOMAIN retry : Has(saved.failed, retry[i])
  <2>1. \A i \in 1..n : i \in DOMAIN saved.failed
    BY <1>4, <1>5
  <2> QED BY <2>1, <1>4, <1>7 DEF Distinct, Has
<1>10. PICK c \in Cursors : c = saved
  BY <1>3
<1>11. /\ work' \in Cursors /\ HasPass(work') /\ work'.failed = c.failed
       /\ work'.scanned = c.scanned /\ CursorInv(work')
       /\ \A k \in Key : Relevant(k) /\ Retained(c, k) => Retained(work', k)
  <2>1. CASE HasPass(c)
    BY <2>1, <1>1, <1>3, <1>10
  <2>2. CASE ~HasPass(c)
    <3>1. PICK d : d = WithPass(c)
      OBVIOUS
    <3>2. /\ d \in Cursors /\ HasPass(d) /\ d.failed = c.failed /\ d.gaps = <<>>
          /\ d.inventory = c.inventory /\ d.enumerated = c.enumerated /\ d.scanned = c.scanned
          /\ d.pass.end = now /\ d.pass.state = (IF c.inventory THEN "all" ELSE "open")
          /\ ~d.pass.listed /\ d.pass.page = {}
          /\ \A k \in Key : Relevant(k) /\ Retained(c, k) => Retained(d, k)
      BY <2>2, <3>1, <1>10, PassBegun
    <3>3. now <= now /\ c.inventory \in BOOLEAN
      BY <1>2, TimeAssumption DEF IInv, WorldInv, Time, Cursors
    <3>4. PassInv(d)
      BY <3>2, <3>3, <1>3, <1>10, NothingListed DEF PassInv, CursorInv
    <3>5. CursorInv(d)
      BY <3>2, <3>4, <1>3, <1>10 DEF CursorInv
    <3>6. work' = d
      BY <1>1, <1>10, <2>2, <3>1
    <3> QED BY <3>2, <3>5, <3>6
  <2> QED BY <2>1, <2>2
<1>12. CursorInv(work)'
  BY <1>2, <1>11 DEF CursorInv, PassInv, HasPass
<1>13. ASSUME NEW k \in Key, Behind(k)' PROVE Retained(work, k)'
  <2>1. Relevant(k) /\ ~current[k]
    BY <1>2, <1>13 DEF Steady, Behind
  <2>2. Retained(work', k)
    BY <2>1, <1>3, <1>10, <1>11 DEF NothingSkipped
  <2> QED BY <2>2, <1>2 DEF Retained, Listable, Listed, Later, LaterFrom, Covers, HasPass
<1>14. WorkInv'
  BY <1>2, <1>8, <1>9, <1>10, <1>11, <1>12, <1>13 DEF WorkInv, Distinct, Steady, HasPass
<1> QED BY <1>2, <1>8, <1>14 DEF IInv, Steady

\* The first cursor has the type of one, and no pass.
LEMMA FirstTyped == FirstCursor \in Cursors /\ ~HasPass(FirstCursor)
<1>1. <<>> \in Seq(Key) /\ <<>> \in Seq(Window)
  OBVIOUS
<1> QED BY <1>1 DEF FirstCursor, Cursors, HasPass

\* A batch that is lost leaves the saved cursor as it was.
LEMMA StepLose == ASSUME IInv, Lose PROVE IInv'
<1>1. work' = FirstCursor /\ ~Running' /\ UNCHANGED <<forge, store, saved>>
  BY DEF Lose, Running
<1> QED BY <1>1, StoreKept DEF IInv, Steady

\* A pass that is over: the cursor has come as far as it says.
LEMMA PassOver ==
    ASSUME IInv, Running, work.pass.windows = <<>>, NEW d, d = Finished(work)
    PROVE  /\ CursorInv(d)
           /\ \A k \in Key : Behind(k) => Retained(d, k)
           /\ \A k \in Key : Behind(k) /\ d.scanned # Never => ~(updated[k] + Overlap < d.scanned)
<1>1. /\ WorkInv /\ CursorInv(work) /\ work \in Cursors /\ work.pass \in Passes
      /\ PassInv(work) /\ HasPass(work) /\ OneEach(work.gaps) /\ Distinct(work.failed)
  BY WorkTyped DEF WorkInv
<1>2. /\ work.pass.page = {} /\ work.pass.end \in Time /\ work.enumerated \in Time \cup {Never}
      /\ work.scanned \in Time \cup {Never} /\ work.inventory \in BOOLEAN
      /\ work.pass.state \in {"open", "all"}
  BY <1>1 DEF PassInv, Passes, Cursors
<1>3. \A k \in Key : updated[k] \in Time
  BY DEF IInv, WorldInv
<1>4. Overlap \in Nat /\ MaxTime \in Nat /\ now \in Time /\ Never = -1
  BY OverlapAssumption, TimeAssumption DEF IInv, WorldInv, Never
<1>5. ASSUME NEW k \in Key, Behind(k)
      PROVE  \/ Has(work.failed, k) \/ \E i \in DOMAIN work.gaps : Covers(work.gaps[i], k)
             \/ updated[k] >= LaterFrom(work)
  <2>1. Retained(work, k)
    BY <1>1, <1>5 DEF WorkInv
  <2>2. ~Listable(work, k) /\ ~Listed(work, k)
    BY <1>2 DEF Listable, Listed
  <2> QED BY <2>1, <2>2, <1>1 DEF Retained, Later
<1>6. CASE work.pass.state = "open"
  <2>1. work.enumerated = Never /\ ~work.inventory
    BY <1>1, <1>2, <1>6 DEF CursorInv, PassInv
  <2>2. d = [[work EXCEPT !.inventory = TRUE, !.pass = NoPass] EXCEPT !.scanned = work.scanned]
    BY <2>1, <1>1, <1>6 DEF Finished, Scanned, Cursors
  <2>3. /\ d \in Cursors /\ d.inventory /\ d.enumerated = Never /\ d.scanned = work.scanned
        /\ d.failed = work.failed /\ d.gaps = work.gaps /\ d.pass = NoPass
    BY <2>1, <2>2, <1>1 DEF Cursors
  <2>4. CursorInv(d) /\ ~HasPass(d)
    BY <2>1, <2>3, <1>1 DEF CursorInv, HasPass
  <2>5. LaterFrom(work) = Since /\ LaterFrom(d) = Since
    BY <2>1, <2>3, <2>4, <1>6 DEF LaterFrom
  <2>6. \A k \in Key : Behind(k) => Retained(d, k)
    BY <2>3, <2>5, <1>5 DEF Retained, Later
  <2>7. d.scanned = Never
    BY <2>1, <2>3, <1>1, <1>2, <1>4 DEF CursorInv, Time
  <2> QED BY <2>4, <2>6, <2>7
<1>7. CASE work.pass.state = "all"
  <2>1. work.inventory /\ work.pass.end # Never
    BY <1>1, <1>2, <1>4, <1>7 DEF PassInv, Time
  <2> DEFINE scanned == IF work.gaps = <<>> /\ work.failed = <<>> THEN work.pass.end
                        ELSE work.scanned
  <2>2. d = [[work EXCEPT !.enumerated = work.pass.end, !.pass = NoPass] EXCEPT !.scanned = scanned]
    BY <2>1, <1>1, <1>7 DEF Finished, Scanned, Cursors
  <2>3. scanned \in Time \cup {Never}
    BY <1>2
  <2>4. /\ d \in Cursors /\ d.inventory /\ d.enumerated = work.pass.end /\ d.scanned = scanned
        /\ d.failed = work.failed /\ d.gaps = work.gaps /\ d.pass = NoPass
    BY <2>1, <2>2, <2>3, <1>1, <1>2 DEF Cursors
  <2>5. scanned <= work.pass.end
    BY <1>1, <1>2, <1>4 DEF CursorInv, PassInv, Time
  <2>6. CursorInv(d) /\ ~HasPass(d)
    BY <2>4, <2>5, <1>1 DEF CursorInv, PassInv, HasPass
  <2>7. LaterFrom(work) = work.pass.end - Overlap /\ LaterFrom(d) = work.pass.end - Overlap
    BY <2>1, <2>4, <2>6, <1>1, <1>7 DEF LaterFrom
  <2>8. \A k \in Key : Behind(k) => Retained(d, k)
    BY <2>4, <2>7, <1>5 DEF Retained, Later
  <2>9. ASSUME NEW k \in Key, Behind(k), d.scanned # Never
        PROVE  ~(updated[k] + Overlap < d.scanned)
    <3>1. CASE work.gaps = <<>> /\ work.failed = <<>>
      <4>1. updated[k] >= work.pass.end - Overlap
        BY <2>7, <2>9, <3>1, <1>5 DEF Has
      <4> QED BY <4>1, <3>1, <2>4, <1>2, <1>3, <1>4 DEF Time
    <3>2. CASE ~(work.gaps = <<>> /\ work.failed = <<>>)
      <4>1. d.scanned = saved.scanned
        BY <3>2, <2>4, <1>1 DEF WorkInv
      <4> QED BY <4>1, <2>9 DEF IInv, SavedInv, ScannedIsStored, Behind
    <3> QED BY <3>1, <3>2
  <2> QED BY <2>6, <2>8, <2>9
<1> QED BY <1>2, <1>6, <1>7

\* A batch saved (scan.ts:199-215): its cursor satisfies what the saved one does.
LEMMA StepSave == ASSUME IInv, Save PROVE IInv'
<1>1. /\ Running /\ saved' = Finished(work) /\ work' = FirstCursor /\ ~Running'
      /\ UNCHANGED <<forge, store>>
  BY DEF Save, Stopped, Running
<1>2. UNCHANGED <<now, updated, isOpen, current, storedAt>>
  BY <1>1 DEF forge, store
<1>3. WorldInv' /\ StoreInv'
  BY <1>2 DEF IInv, WorldInv, StoreInv, Fresh
<1>4. PICK d : d = Finished(work)
  OBVIOUS
<1>5. /\ CursorInv(d)
      /\ \A k \in Key : Behind(k) => Retained(d, k)
      /\ \A k \in Key : Behind(k) /\ d.scanned # Never => ~(updated[k] + Overlap < d.scanned)
  <2>1. CASE work.pass.windows = <<>>
    BY <2>1, <1>1, <1>4, PassOver
  <2>2. CASE work.pass.windows # <<>>
    <3>1. d = work
      BY <2>2, <1>4 DEF Finished
    <3>2. WorkInv
      BY <1>1, WorkTyped
    <3> QED BY <3>1, <3>2 DEF WorkInv, IInv, SavedInv, ScannedIsStored, Behind
  <2> QED BY <2>1, <2>2
<1>6. saved' = d
  BY <1>1, <1>4
<1>7. CursorInv(saved)'
  BY <1>2, <1>5, <1>6 DEF CursorInv, PassInv, HasPass
<1>8. NothingSkipped'
  <2> SUFFICES ASSUME NEW k \in Key, Relevant(k)', ~current'[k] PROVE Retained(saved, k)'
    BY DEF NothingSkipped
  <2>1. Behind(k)
    BY <1>2 DEF Behind, Relevant
  <2>2. Retained(d, k)
    BY <2>1, <1>5
  <2> QED BY <2>2, <1>2, <1>6 DEF Retained, Listable, Listed, Later, LaterFrom, Covers, HasPass
<1>9. ScannedIsStored'
  <2> SUFFICES ASSUME NEW k \in Key, Relevant(k)', saved'.scanned # Never,
                      updated'[k] + Overlap < saved'.scanned
               PROVE  current'[k]
    BY DEF ScannedIsStored
  <2>1. Behind(k) \/ current[k]
    BY <1>2 DEF Behind, Relevant
  <2> QED BY <2>1, <1>2, <1>5, <1>6
<1> QED BY <1>1, <1>3, <1>7, <1>8, <1>9 DEF IInv, SavedInv

-----------------------------------------------------------------------------
(* The world around the scan.                                              *)

\* A read of the server's own, beside the scan.
LEMMA StepQuery == ASSUME IInv, NEW q \in Key, Query(q) PROVE IInv'
<1>1. Steady /\ UNCHANGED <<work, batch>>
  BY ForgeRead DEF Query
<1>2. Running' <=> Running
  BY <1>1 DEF Running
<1>3. ASSUME Running PROVE WorkInv'
  <2>1. WorkInv /\ batch.attempted \subseteq Key
    BY <1>3, WorkTyped DEF Batches
  <2>2. CursorInv(work)'
    BY <2>1, <1>1 DEF WorkInv, Steady, CursorInv, PassInv, HasPass
  <2>3. \A k \in Key : (Retained(work, k)' <=> Retained(work, k)) /\ (Later(work, k)' <=> Later(work, k))
    BY <1>1 DEF Steady, Retained, Listable, Listed, Later, LaterFrom, Covers, HasPass
  <2> QED BY <2>1, <2>2, <2>3, <1>1 DEF WorkInv, Steady, HasPass
<1> QED BY <1>1, <1>2, <1>3 DEF IInv, Steady

\* What is updated now is to be listed by the pass after this one.
LEMMA UpdatedIsLater ==
    ASSUME IInv, NEW k \in Key, Update(k), NEW c, CursorInv(c)
    PROVE  /\ CursorInv(c)' /\ Later(c, k)'
           /\ \A j \in Key : j # k => (Retained(c, j)' <=> Retained(c, j)) /\ (Later(c, j)' <=> Later(c, j))
           /\ c.scanned # Never => ~(updated'[k] + Overlap < c.scanned)
<1>1. /\ now' = now
      /\ updated' = [updated EXCEPT ![k] = now]
      /\ \E o \in BOOLEAN : isOpen' = [isOpen EXCEPT ![k] = o]
  BY DEF Update
<1>2. /\ updated'[k] = now
      /\ \A j \in Key : j # k => updated'[j] = updated[j] /\ isOpen'[j] = isOpen[j]
  BY <1>1 DEF IInv, WorldInv
<1>3. CursorInv(c)'
  BY <1>1 DEF CursorInv, PassInv, HasPass
<1>4. /\ now \in Nat /\ Start <= now /\ Overlap \in Nat /\ Lag \in Nat /\ 0 < Lag
      /\ Since \in Nat /\ Start \in Nat /\ Since + Lag <= Start + 1
  BY TimeAssumption, OverlapAssumption DEF IInv, WorldInv, Time
<1>5. /\ c \in Cursors /\ c.enumerated <= now /\ c.scanned <= c.enumerated
      /\ c.enumerated \in Int /\ c.scanned \in Int
  BY TimeAssumption DEF CursorInv, Cursors, Time, Never
<1>6. now >= LaterFrom(c)
  <2>1. CASE HasPass(c) /\ c.pass.state = "all"
    <3>1. c.pass.end \in Time /\ c.pass.end <= now /\ LaterFrom(c) = c.pass.end - Overlap
      BY <2>1, <1>5, PassTyped DEF CursorInv, PassInv, Passes, LaterFrom
    <3> QED BY <3>1, <1>4 DEF Time
  <2>2. CASE ~(HasPass(c) /\ c.pass.state = "all") /\ c.enumerated = Never
    BY <2>2, <1>4 DEF LaterFrom
  <2>3. CASE ~(HasPass(c) /\ c.pass.state = "all") /\ c.enumerated # Never
    BY <2>3, <1>4, <1>5 DEF LaterFrom
  <2> QED BY <2>1, <2>2, <2>3
<1>7. Later(c, k)'
  BY <1>2, <1>6 DEF Later, LaterFrom, HasPass
<1>8. \A j \in Key : j # k => (Retained(c, j)' <=> Retained(c, j)) /\ (Later(c, j)' <=> Later(c, j))
  BY <1>2 DEF Retained, Listable, Listed, Later, LaterFrom, Covers, HasPass
<1>9. ~(updated'[k] + Overlap < c.scanned)
  BY <1>2, <1>4, <1>5
<1> QED BY <1>3, <1>7, <1>8, <1>9

\* A pull request updated, opened or closed.
LEMMA StepUpdate == ASSUME IInv, NEW k \in Key, Update(k) PROVE IInv'
<1>1. /\ updated' = [updated EXCEPT ![k] = now]
      /\ isOpen' \in {[isOpen EXCEPT ![k] = o] : o \in BOOLEAN}
      /\ current' = [current EXCEPT ![k] = FALSE]
      /\ UNCHANGED <<now, storedAt, saved, work, batch>>
  BY DEF Update
<1>2. now \in Nat /\ now \in Time
  BY TimeAssumption DEF IInv, WorldInv, Time
<1>3. /\ updated'[k] = now /\ ~current'[k]
      /\ \A j \in Key : j # k => /\ updated'[j] = updated[j] /\ isOpen'[j] = isOpen[j]
                                 /\ current'[j] = current[j]
  BY <1>1 DEF IInv, WorldInv, StoreInv
<1>4. WorldInv'
  BY <1>1, <1>2, <1>3 DEF IInv, WorldInv
<1>5. current' \in [Key -> BOOLEAN]
  BY <1>1 DEF IInv, StoreInv
<1>6. StoreInv'
  BY <1>1, <1>3, <1>5 DEF IInv, StoreInv, Fresh
<1>7. \A j \in Key : j # k => (Relevant(j)' <=> Relevant(j)) /\ (Behind(j)' <=> Behind(j))
  BY <1>3 DEF Relevant, Behind
<1>8. SavedInv'
  <2>1. PICK c : c = saved
    OBVIOUS
  <2>2. /\ CursorInv(c)' /\ Later(c, k)'
        /\ \A j \in Key : j # k => (Retained(c, j)' <=> Retained(c, j))
        /\ c.scanned # Never => ~(updated'[k] + Overlap < c.scanned)
    BY <2>1, UpdatedIsLater DEF IInv, SavedInv
  <2>3. CursorInv(saved)'
    BY <2>1, <2>2, <1>1 DEF CursorInv, PassInv, HasPass
  <2>4. \A j \in Key : Behind(j)' => Retained(c, j)'
    BY <2>1, <2>2, <1>7 DEF IInv, SavedInv, NothingSkipped, Retained, Behind
  <2>5. NothingSkipped'
    <3> SUFFICES ASSUME NEW j \in Key, Relevant(j)', ~current'[j] PROVE Retained(saved, j)'
      BY DEF NothingSkipped
    <3>1. Retained(c, j)'
      BY <2>4 DEF Behind
    <3> QED BY <3>1, <2>1, <1>1
            DEF Retained, Listable, Listed, Later, LaterFrom, Covers, HasPass
  <2>6. ScannedIsStored'
    BY <2>1, <2>2, <1>1, <1>3, <1>7 DEF IInv, SavedInv, ScannedIsStored
  <2> QED BY <2>3, <2>5, <2>6 DEF SavedInv
<1>9. ASSUME Running PROVE WorkInv'
  <2>1. PICK c : c = work
    OBVIOUS
  <2>2. WorkInv /\ batch.attempted \subseteq Key
    BY <1>9, WorkTyped DEF Batches
  <2>3. /\ CursorInv(c)' /\ Later(c, k)'
        /\ \A j \in Key : j # k => (Retained(c, j)' <=> Retained(c, j)) /\ (Later(c, j)' <=> Later(c, j))
    BY <2>1, <2>2, UpdatedIsLater DEF WorkInv
  <2>4. CursorInv(work)'
    BY <2>1, <2>3, <1>1 DEF CursorInv, PassInv, HasPass
  <2>5. \A j \in Key : (Retained(work, j)' <=> Retained(c, j)') /\ (Later(work, j)' <=> Later(c, j)')
    BY <2>1, <1>1 DEF Retained, Listable, Listed, Later, LaterFrom, Covers, HasPass
  <2>6. ASSUME NEW j \in Key, Behind(j)' PROVE Retained(work, j)'
    <3>1. CASE j = k
      BY <3>1, <2>3, <2>5 DEF Retained
    <3>2. CASE j # k
      BY <3>2, <2>1, <2>2, <2>3, <2>5, <2>6, <1>7 DEF WorkInv
    <3> QED BY <3>1, <3>2
  <2>7. ASSUME NEW j \in batch.attempted, Behind(j)' PROVE Has(work.failed, j) \/ Later(work, j)'
    <3>1. CASE j = k
      BY <3>1, <2>3, <2>5
    <3>2. CASE j # k
      BY <3>2, <2>1, <2>2, <2>3, <2>5, <2>7, <1>7 DEF WorkInv
    <3> QED BY <3>1, <3>2
  <2> QED BY <2>2, <2>4, <2>6, <2>7, <1>1 DEF WorkInv, HasPass
<1>10. Running' <=> Running
  BY <1>1 DEF Running
<1> QED BY <1>1, <1>4, <1>6, <1>8, <1>9, <1>10 DEF IInv

\* Time passes.
LEMMA StepTick == ASSUME IInv, Tick PROVE IInv'
<1>1. /\ now < MaxTime /\ now' = now + 1
      /\ storedAt' = [k \in Key |-> IF storedAt[k] + Age > now THEN storedAt[k] ELSE Never]
      /\ UNCHANGED <<updated, isOpen, current, saved, work, batch>>
  BY DEF Tick
<1>2. now \in Nat /\ MaxTime \in Nat /\ now \in Time /\ Age \in Nat /\ Start \in Nat
  BY TimeAssumption, OverlapAssumption DEF IInv, WorldInv, Time
<1>3. now' \in Time /\ now <= now'
  BY <1>1, <1>2 DEF Time
<1>4. WorldInv'
  BY <1>1, <1>2, <1>3 DEF IInv, WorldInv, Time
<1>5. StoreInv'
  <2>1. storedAt' \in [Key -> Time \cup {Never}]
    BY <1>1 DEF IInv, StoreInv
  <2>2. ASSUME NEW k \in Key, storedAt'[k] # Never
        PROVE  /\ Start <= storedAt'[k] /\ storedAt'[k] <= now' /\ now' <= storedAt'[k] + Age
               /\ current[k] \/ storedAt'[k] <= updated[k]
    <3>1. storedAt'[k] = storedAt[k] /\ storedAt[k] + Age > now /\ Fresh(k)
      BY <2>2, <1>1 DEF Fresh
    <3>2. /\ storedAt[k] \in Nat /\ Start <= storedAt[k] /\ storedAt[k] <= now
          /\ current[k] \/ storedAt[k] <= updated[k]
      BY <3>1, <1>2 DEF IInv, StoreInv, Fresh, Time
    <3> QED BY <3>1, <3>2, <1>1, <1>2
  <2> QED BY <2>1, <2>2, <1>1 DEF IInv, StoreInv, Fresh
<1>6. ASSUME NEW c, CursorInv(c) PROVE CursorInv(c)'
  <2>1. c.enumerated \in Int /\ (HasPass(c) => c.pass.end \in Int)
    BY <1>2, <1>6, PassTyped DEF CursorInv, Cursors, Passes, Time, Never
  <2> QED BY <2>1, <1>1, <1>2, <1>6 DEF CursorInv, PassInv, HasPass
<1>7. CursorInv(saved)'
  <2>1. PICK c : c = saved
    OBVIOUS
  <2>2. CursorInv(c)'
    BY <2>1, <1>6 DEF IInv, SavedInv
  <2> QED BY <2>1, <2>2, <1>1 DEF CursorInv, PassInv, HasPass
<1>8. \A k \in Key : (Relevant(k)' <=> Relevant(k)) /\ (Behind(k)' <=> Behind(k))
  BY <1>1 DEF Relevant, Behind
<1>9. \A k \in Key : Retained(saved, k)' <=> Retained(saved, k)
  BY <1>1 DEF Retained, Listable, Listed, Later, LaterFrom, Covers, HasPass
<1>10. SavedInv'
  BY <1>1, <1>7, <1>8, <1>9 DEF IInv, SavedInv, NothingSkipped, ScannedIsStored, Behind
<1>11. ASSUME Running PROVE WorkInv'
  <2>1. WorkInv /\ batch.attempted \subseteq Key
    BY <1>11, WorkTyped DEF Batches
  <2>2. PICK c : c = work
    OBVIOUS
  <2>3. CursorInv(c)'
    BY <2>1, <2>2, <1>6 DEF WorkInv
  <2>4. CursorInv(work)'
    BY <2>2, <2>3, <1>1 DEF CursorInv, PassInv, HasPass
  <2>5. \A k \in Key : (Retained(work, k)' <=> Retained(work, k)) /\ (Later(work, k)' <=> Later(work, k))
    BY <1>1 DEF Retained, Listable, Listed, Later, LaterFrom, Covers, HasPass
  <2> QED BY <2>1, <2>4, <2>5, <1>1, <1>8 DEF WorkInv, HasPass
<1>12. Running' <=> Running
  BY <1>1 DEF Running
<1> QED BY <1>1, <1>4, <1>5, <1>10, <1>11, <1>12 DEF IInv

-----------------------------------------------------------------------------
\* The invariant holds at first.
LEMMA InitIInv == Init => IInv
<1> SUFFICES ASSUME Init PROVE IInv
  OBVIOUS
<1>1. /\ now = Start /\ updated \in [Key -> 0..Start] /\ isOpen \in [Key -> BOOLEAN]
      /\ current = [k \in Key |-> FALSE] /\ storedAt = [k \in Key |-> Never]
      /\ saved = FirstCursor /\ work = FirstCursor /\ ~Running
  BY DEF Init, Running
<1>2. Start \in Nat /\ MaxTime \in Nat /\ LastUpdate \in Nat /\ Start <= LastUpdate
      /\ LastUpdate <= MaxTime /\ MaxFailed \in Nat
  BY TimeAssumption, BatchAssumption
<1>3. WorldInv
  <2>1. 0..Start \subseteq Time /\ Start \in Time
    BY <1>2 DEF Time
  <2> QED BY <2>1, <1>1, <1>2 DEF WorldInv
<1>4. StoreInv
  BY <1>1 DEF StoreInv, Fresh
<1>5. CursorInv(FirstCursor)
  <2>1. FirstCursor.failed = <<>> /\ FirstCursor.gaps = <<>> /\ FirstCursor.enumerated = Never
        /\ FirstCursor.scanned = Never
    BY DEF FirstCursor
  <2>2. Never <= now /\ Never <= Never /\ Len(<<>>) <= MaxFailed
    BY <1>1, <1>2 DEF Never
  <2>3. \A i, j \in DOMAIN <<>> : i = j
    OBVIOUS
  <2> QED BY <2>1, <2>2, <2>3, FirstTyped DEF CursorInv
<1>6. NothingSkipped
  <2> SUFFICES ASSUME NEW k \in Key, Relevant(k) PROVE Retained(FirstCursor, k)
    BY <1>1 DEF NothingSkipped
  <2>1. ~HasPass(FirstCursor) /\ LaterFrom(FirstCursor) = Since /\ ~FirstCursor.inventory
    BY FirstTyped DEF LaterFrom, FirstCursor
  <2> QED BY <2>1 DEF Relevant, Retained, Later
<1>7. ScannedIsStored
  BY <1>1 DEF ScannedIsStored, FirstCursor
<1> QED BY <1>1, <1>3, <1>4, <1>5, <1>6, <1>7 DEF IInv, SavedInv

\* Every step preserves the invariant.
LEMMA StepIInv == IInv /\ [Next]_vars => IInv'
<1> SUFFICES ASSUME IInv, [Next]_vars PROVE IInv'
  OBVIOUS
<1>1. CASE Begin
  BY <1>1, StepBegin
<1>2. CASE Retry
  BY <1>2, StepRetry
<1>3. CASE ListPage
  BY <1>3, StepListPage
<1>4. CASE Split
  BY <1>4, StepSplit
<1>5. CASE ListFails
  BY <1>5, StepListFails
<1>6. CASE \E k \in Key : ReadListed(k)
  BY <1>6, StepReadListed
<1>7. CASE CloseWindow
  BY <1>7, StepCloseWindow
<1>8. CASE Save
  BY <1>8, StepSave
<1>9. CASE Lose
  BY <1>9, StepLose
<1>10. CASE \E k \in Key : Query(k)
  BY <1>10, StepQuery
<1>11. CASE \E k \in Key : Update(k)
  BY <1>11, StepUpdate
<1>12. CASE Tick
  BY <1>12, StepTick
<1>13. CASE UNCHANGED vars
  <2>1. UNCHANGED <<now, updated, isOpen, current, storedAt, saved, work, batch>>
    BY <1>13 DEF vars, forge, store
  <2>2. WorldInv' /\ StoreInv'
    BY <2>1 DEF IInv, WorldInv, StoreInv, Fresh
  <2>3. SavedInv'
    BY <2>1 DEF IInv, SavedInv, CursorInv, PassInv, HasPass, NothingSkipped, ScannedIsStored,
                Relevant, Retained, Listable, Listed, Later, LaterFrom, Covers
  <2>4. Running => WorkInv'
    BY <2>1 DEF IInv, WorkInv, CursorInv, PassInv, HasPass, Behind,
                Relevant, Retained, Listable, Listed, Later, LaterFrom, Covers
  <2> QED BY <2>1, <2>2, <2>3, <2>4 DEF IInv, Running
<1> QED BY <1>1, <1>2, <1>3, <1>4, <1>5, <1>6, <1>7, <1>8, <1>9, <1>10, <1>11, <1>12, <1>13
        DEF Next, Scan

\* A cursor within the invariant is one that `decode' accepts.
LEMMA InvAccepted == ASSUME NEW c, CursorInv(c), now \in Time PROVE Accepted(c)
<1>1. /\ c.inventory \in BOOLEAN /\ c.enumerated \in Time \cup {Never}
      /\ c.scanned \in Time \cup {Never} /\ c.scanned <= c.enumerated
      /\ c.failed \in Seq(Key) /\ c.gaps \in Seq(Window) /\ c \in Cursors
  BY DEF CursorInv, Cursors
<1>2. c.scanned \in -1..c.enumerated
  BY <1>1, TimeAssumption DEF Time, Never
<1>3. NoRepeats(c.failed, LAMBDA k : k) /\ NoRepeats(c.gaps, LAMBDA g : g.state)
  BY DEF CursorInv, NoRepeats
<1>4. HasPass(c) =>
          /\ c.pass.windows \in Seq(Window) /\ c.pass.end \in Time
          /\ c.pass.listed => c.pass.windows # <<>>
          /\ c.pass.page \subseteq Key /\ Cardinality(c.pass.page) < PageSize
  BY <1>1, PassTyped DEF CursorInv, PassInv, Passes
<1> QED BY <1>1, <1>2, <1>3, <1>4 DEF CursorInv, Accepted

\* What is not stored as it is now is still to come in the saved cursor, and
\* coverage is what it says: through failures, full pages, late listings, stale
\* reads and batches that are lost (scan.ts:70-80).
THEOREM CoverageHolds == Spec => []CoverageIsTrue
<1>1. IInv => CoverageIsTrue
  BY InvAccepted DEF IInv, SavedInv, WorldInv, CoverageIsTrue
<1> QED BY <1>1, InitIInv, StepIInv, PTL DEF Spec

=============================================================================
