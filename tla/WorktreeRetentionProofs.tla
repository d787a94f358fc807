----------------------- MODULE WorktreeRetentionProofs -----------------------
(***************************************************************************)
(* Proofs about WorktreeRetention.tla, for any checkouts, nested in any    *)
(* way, any limits, and any number of acts of users and of unanswered      *)
(* questions.                                                              *)
(***************************************************************************)
EXTENDS WorktreeRetention, TLAPS, FiniteSetTheorems, SequenceTheorems

-----------------------------------------------------------------------------
(* The invariant.                                                          *)

Stage == {"idle", "observe", "merged", "count", "release"}
Reason == {"", "merged", "count"}
Env == {"none", "managed", "unmanaged"}
Held == [state : State, at : Nat, head : Nat, created : Nat, env : Env]
Known == [head : Nat, detached : BOOLEAN, created : Nat, env : Env, excluded : BOOLEAN]
Plan == [acts : Nat, removed : [Place -> Reason], released : SUBSET Place]
Checkouts == [Place -> Held \cup {None}]

Elems(s) == {s[i] : i \in 1..Len(s)}
Distinct(s) == \A i, j \in 1..Len(s) : s[i] = s[j] => i = j

TypeOK ==
    /\ wt \in Checkouts /\ merged \in SUBSET Place /\ time \in Nat /\ acts \in Nat
    /\ stage \in Stage /\ dry \in BOOLEAN /\ since \in Nat
    /\ entry \in [Place -> Known \cup {None}]
    /\ todo \in Seq(Place) /\ Distinct(todo)
    /\ checked \in Seq(Nat)
    /\ removed \in [Place -> Reason] /\ released \in SUBSET Place
    /\ plan \in Plan

\* What is to be done is about what was listed; between two cleanings nothing
\* is to be done; acts are counted.
StageOK ==
    /\ Elems(todo) \subseteq Candidates
    /\ stage = "idle" => todo = <<>>
    /\ Len(checked) <= 3 /\ (checked # <<>> => Removing)
    /\ since <= acts /\ acts <= MaxActs
    /\ plan.acts <= acts \/ plan.acts = MaxActs + 1

\* Checkouts that stay, newer than each that was or will be removed for the
\* count and as many as the limit allows.
Kept(K) ==
    /\ \A q \in K : removed[q] = "" /\ ~(stage = "count" /\ q \in Elems(todo))
    /\ \A p \in Place : removed[p] = "count" \/ (stage = "count" /\ p \in Elems(todo)) =>
            Cardinality({q \in K : Older(p, q)}) >= MaxCount
KeptOK ==
    /\ stage \notin {"count", "release"} => \A p \in Place : removed[p] # "count"
    /\ \E K \in SUBSET Candidates : Kept(K)

\* What a cleaning does to the checkouts w and the merged m it finds, if nobody
\* interferes: what it observes, removes for either reason, and releases.
ThereIn(w) == {p \in Place : w[p] # None}
ExcludedIn(w, p) ==
    w[p].state \in {"detached", "stray", "locked"} \/ \E q \in ThereIn(w) \ {p} : <<p, q>> \in Nested
SavedIn(w, p) == w[p].state \notin {"dirty", "ignored"} /\ w[p].env # "unmanaged"
RemovableIn(w, p) == ~ExcludedIn(w, p) /\ SavedIn(w, p)
SeenIn(w, p) == [head |-> w[p].head, detached |-> w[p].state \in {"detached", "stray"}, created |-> w[p].created,
                 env |-> w[p].env, excluded |-> ExcludedIn(w, p)]

OlderIn(w, p, q) ==
    \/ w[p].created < w[q].created
    \/ w[p].created = w[q].created /\ p < q
BeyondIn(w, S, limit) == {p \in S : Cardinality({q \in S : OlderIn(w, p, q)}) >= limit}

MergedIn(w, m) == {p \in ThereIn(w) \cap m : RemovableIn(w, p) /\ w[p].head = 0}
CountedIn(w, m) == BeyondIn(w, ThereIn(w) \ MergedIn(w, m), MaxCount)
RemovedIn(w, m) ==
    [p \in Place |-> IF p \in MergedIn(w, m) THEN "merged"
                    ELSE IF p \in CountedIn(w, m) /\ RemovableIn(w, p) THEN "count" ELSE ""]
PreparedIn(w, m) == {p \in ThereIn(w) : RemovedIn(w, m)[p] = "" /\ w[p].env # "none"}
BeyondPrepared(w, m) == BeyondIn(w, PreparedIn(w, m), MaxPrepared)
ReleasedIn(w, m) ==
    {p \in BeyondPrepared(w, m) : ~ExcludedIn(w, p) /\ w[p].env = "managed"}

\* How far a cleaning that found w has come.
WtIs(w) ==
    \A p \in Place :
        /\ dry \/ (removed[p] = "" /\ p \notin released) => wt[p] = w[p]
        /\ ~dry /\ removed[p] # "" => wt[p] = None
        /\ ~dry /\ removed[p] = "" /\ p \in released => wt[p] = [w[p] EXCEPT !.env = "none"]
SeenIs(w) ==
    /\ Candidates = ThereIn(w)
    /\ \A p \in Candidates :
          /\ entry[p].head = w[p].head /\ entry[p].detached = (w[p].state \in {"detached", "stray"})
          /\ ~(stage = "observe" /\ p \in Elems(todo)) => entry[p] = SeenIn(w, p)
Removable(p) == ~Protected(p) /\ Saved(p)
StageIs(w) ==
    /\ stage = "observe" => removed = [p \in Place |-> ""]
    /\ stage = "merged" =>
          removed = [p \in Place |-> IF p \in MergedIn(w, merged) \ Elems(todo) THEN "merged" ELSE ""]
    /\ stage = "count" =>
          /\ Elems(todo) \subseteq CountedIn(w, merged)
          /\ removed = [p \in Place |-> IF p \in Elems(todo) THEN "" ELSE RemovedIn(w, merged)[p]]
    /\ stage = "release" =>
          /\ Elems(todo) \subseteq BeyondPrepared(w, merged)
          /\ removed = RemovedIn(w, merged)
    /\ released = IF stage = "release" THEN ReleasedIn(w, merged) \ Elems(todo) ELSE {}
    /\ checked # <<>> => ~ExcludedIn(w, This)
    /\ checked # <<>> /\ Len(checked) >= 2 => SavedIn(w, This)
Predicts(w) ==
    plan.acts = acts => plan.removed = RemovedIn(w, merged) /\ plan.released = ReleasedIn(w, merged)

Found(w) == WtIs(w) /\ SeenIs(w) /\ StageIs(w) /\ Predicts(w)
CalmOK ==
    /\ stage = "idle" => Predicts(wt)
    /\ stage # "idle" /\ Calm => \E w \in Checkouts : Found(w)

\* Unsaved work of the checkout at hand, or a commit on it, came after the check
\* that looks for it last.
CheckedOK ==
    /\ \A k \in 1..Len(checked) : checked[k] <= acts
    /\ checked # <<>> /\ There(This) =>
          /\ Len(checked) >= 2 /\ wt[This].state = "ignored" => wt[This].at > checked[2]
          /\ Len(checked) >= 3 /\ wt[This].state = "stray" => wt[This].at > checked[3]
          /\ Len(checked) >= 3 /\ stage = "merged" =>
                wt[This].head = 0 \/ wt[This].head > checked[3]

IInv == TypeOK /\ StageOK /\ KeptOK /\ CalmOK /\ CheckedOK

-----------------------------------------------------------------------------
(* Orders.                                                                 *)

Total(R, S) ==
    /\ \A p \in S : <<p, p>> \notin R
    /\ \A p, q \in S : p # q => <<p, q>> \in R \/ <<q, p>> \in R
    /\ \A p, q, r \in S : <<p, q>> \in R /\ <<q, r>> \in R => <<p, r>> \in R

\* A finite set that is totally ordered is the range of an ascending sequence:
\* each element goes where the number of those before it says.
LEMMA Sortable ==
    ASSUME NEW S, IsFiniteSet(S), NEW R, Total(R, S)
    PROVE  \E s \in [1..Cardinality(S) -> S] :
              \A i, j \in 1..Cardinality(S) : i < j => <<s[i], s[j]>> \in R
  <1> DEFINE n == Cardinality(S)
             below(p) == {q \in S : <<q, p>> \in R}
             place == [p \in S |-> Cardinality(below(p)) + 1]
  <1>1. n \in Nat
    BY FS_CardinalityType
  <1>2. ASSUME NEW p \in S
        PROVE  IsFiniteSet(below(p)) /\ Cardinality(below(p)) \in Nat /\ Cardinality(below(p)) < n
    <2>1. below(p) \in SUBSET S /\ below(p) # S
      BY DEF Total
    <2>2. IsFiniteSet(below(p)) /\ Cardinality(below(p)) <= n /\ Cardinality(below(p)) # n
      BY <2>1, FS_Subset
    <2>3. Cardinality(below(p)) \in Nat
      BY <2>2, FS_CardinalityType
    <2> QED
      BY <1>1, <2>2, <2>3
  <1>3. ASSUME NEW p \in S, NEW q \in S, <<p, q>> \in R
        PROVE  Cardinality(below(p)) < Cardinality(below(q))
    <2>1. below(p) \in SUBSET below(q) /\ p \in below(q) /\ p \notin below(p)
      BY <1>3 DEF Total
    <2>2. IsFiniteSet(below(q)) /\ below(p) # below(q)
      BY <1>2, <2>1
    <2> HIDE DEF below
    <2>3. Cardinality(below(p)) <= Cardinality(below(q))
      BY <2>1, <2>2, FS_Subset
    <2>4. Cardinality(below(p)) # Cardinality(below(q))
      BY <2>1, <2>2, FS_Subset
    <2> QED
      BY <1>2, <2>3, <2>4
  <1> HIDE DEF below
  <1>4. place \in Injection(S, 1..n)
    <2>1. place \in [S -> 1..n]
      BY <1>1, <1>2
    <2>2. ASSUME NEW p \in S, NEW q \in S, place[p] = place[q] PROVE p = q
      <3>1. Cardinality(below(p)) = Cardinality(below(q))
        BY <1>2, <2>2
      <3>2. <<p, q>> \notin R /\ <<q, p>> \notin R
        BY <1>2, <1>3, <3>1
      <3> QED
        BY <3>2 DEF Total
    <2> QED
      BY <2>1, <2>2 DEF Injection, IsInjective
  <1>5. IsFiniteSet(1..n) /\ Cardinality(1..n) = n
    BY <1>1, FS_Interval
  <1>6. place \in Surjection(S, 1..n)
    BY <1>4, <1>5, FS_Injection
  <1>7. \A i \in 1..n : \E p \in S : place[p] = i
    BY <1>6 DEF Surjection
  <1> DEFINE s == [i \in 1..n |-> CHOOSE p \in S : place[p] = i]
  <1>8. \A i \in 1..n : s[i] \in S /\ place[s[i]] = i
    BY <1>7
  <1>9. \A p, q \in S : place[p] < place[q] => <<p, q>> \in R
    <2> SUFFICES ASSUME NEW p \in S, NEW q \in S, place[p] < place[q] PROVE <<p, q>> \in R
      OBVIOUS
    <2>1. p # q /\ ~(<<q, p>> \in R)
      BY <1>2, <1>3
    <2> QED
      BY <2>1 DEF Total
  <1> HIDE DEF place
  <1>10. s \in [1..n -> S]
    BY <1>8
  <1>11. ASSUME NEW i \in 1..n, NEW j \in 1..n, i < j PROVE <<s[i], s[j]>> \in R
    BY <1>8, <1>9, <1>11
  <1> HIDE DEF s, n
  <1> QED
    BY <1>10, <1>11 DEF n

\* What InOrder returns: each element once, in that order.
LEMMA InOrderIs ==
    ASSUME NEW S, IsFiniteSet(S), NEW R, Total(R, S)
    PROVE  /\ InOrder(S, R) \in Seq(S) /\ Len(InOrder(S, R)) = Cardinality(S)
           /\ Distinct(InOrder(S, R)) /\ Elems(InOrder(S, R)) = S
           /\ \A i, j \in 1..Cardinality(S) :
                 i < j => <<InOrder(S, R)[i], InOrder(S, R)[j]>> \in R
  <1> DEFINE n == Cardinality(S)
             s == InOrder(S, R)
  <1>1. n \in Nat
    BY FS_CardinalityType
  <1>2. s \in [1..n -> S] /\ \A i, j \in 1..n : i < j => <<s[i], s[j]>> \in R
    BY Sortable DEF InOrder
  <1> HIDE DEF s, n
  <1>3. s \in Seq(S) /\ Len(s) = n
    BY <1>1, <1>2
  <1>4. Distinct(s)
    <2> SUFFICES ASSUME NEW i \in 1..n, NEW j \in 1..n, s[i] = s[j] PROVE i = j
      BY <1>3 DEF Distinct
    <2>1. ~(i < j) /\ ~(j < i)
      BY <1>2 DEF Total
    <2> QED
      BY <1>1, <2>1
  <1>5. s \in Injection(1..n, S)
    BY <1>2, <1>3, <1>4 DEF Distinct, Injection, IsInjective
  <1>6. Cardinality(1..n) = n /\ Cardinality(S) = n
    BY <1>1, FS_Interval DEF n
  <1>7. s \in Surjection(1..n, S)
    BY <1>5, <1>6, FS_Injection
  <1>8. Elems(s) = S
    BY <1>2, <1>3, <1>7 DEF Surjection, Elems
  <1> QED
    BY <1>2, <1>3, <1>4, <1>8 DEF s, n

\* What is left of a sequence when its first element is done.
LEMMA TailIs ==
    ASSUME NEW S, NEW s \in Seq(S), Distinct(s), s # <<>>
    PROVE  /\ Head(s) \in Elems(s) /\ Head(s) \in S
           /\ Tail(s) \in Seq(S) /\ Distinct(Tail(s)) /\ Elems(Tail(s)) = Elems(s) \ {Head(s)}
  <1>1. /\ Len(s) \in Nat /\ Len(s) > 0 /\ Head(s) = s[1]
        /\ Tail(s) \in Seq(S) /\ Len(Tail(s)) = Len(s) - 1
        /\ \A i \in 1..Len(s) - 1 : Tail(s)[i] = s[i + 1]
    OBVIOUS
  <1>2. Head(s) \in Elems(s) /\ Head(s) \in S
    BY <1>1 DEF Elems
  <1>3. Distinct(Tail(s))
    BY <1>1 DEF Distinct
  <1>4. Elems(Tail(s)) \subseteq Elems(s) \ {Head(s)}
    BY <1>1 DEF Elems, Distinct
  <1>5. ASSUME NEW x \in Elems(s) \ {Head(s)} PROVE x \in Elems(Tail(s))
    <2>1. PICK i \in 1..Len(s) : x = s[i]
      BY DEF Elems
    <2>2. i - 1 \in 1..Len(s) - 1 /\ x = Tail(s)[i - 1]
      BY <1>1, <2>1
    <2> QED
      BY <1>1, <2>2 DEF Elems
  <1> QED
    BY <1>1, <1>2, <1>3, <1>4, <1>5

\* Who is older is a total order of what was listed.
LEMMA AgeOrders ==
    ASSUME TypeOK, NEW S \in SUBSET Candidates
    PROVE  IsFiniteSet(S) /\ Total({pair \in S \X S : Older(pair[1], pair[2])}, S)
  <1>1. S \in SUBSET Place /\ S \subseteq Nat /\ \A p \in S : entry[p].created \in Nat
    BY PathAssumption DEF Candidates, TypeOK, Known
  <1>2. IsFiniteSet(S)
    BY <1>1, PathAssumption, FS_Subset
  <1> DEFINE R == {pair \in S \X S : Older(pair[1], pair[2])}
  <1>3. \A p, q \in S : <<p, q>> \in R <=> Older(p, q)
    OBVIOUS
  <1> HIDE DEF R
  <1>4. /\ \A p \in S : ~Older(p, p)
        /\ \A p, q \in S : p # q => Older(p, q) \/ Older(q, p)
        /\ \A p, q, r \in S : Older(p, q) /\ Older(q, r) => Older(p, r)
    BY <1>1 DEF Older
  <1>5. Total(R, S)
    BY <1>3, <1>4 DEF Total
  <1> QED
    BY <1>2, <1>5 DEF R

\* Beyond a limit are those with as many newer ones as the limit, and as many
\* newer ones are not beyond it.
LEMMA BeyondIs ==
    ASSUME TypeOK, NEW S \in SUBSET Candidates, NEW n \in Nat
    PROVE  /\ Beyond(S, n) \in Seq(S) /\ Distinct(Beyond(S, n))
           /\ Elems(Beyond(S, n)) = {p \in S : Cardinality({q \in S : Older(p, q)}) >= n}
           /\ \A p \in Elems(Beyond(S, n)) :
                 Cardinality({q \in S \ Elems(Beyond(S, n)) : Older(p, q)}) >= n
  <1> DEFINE m == Cardinality(S)
             R == {pair \in S \X S : Older(pair[1], pair[2])}
             s == OldestFirst(S)
             B == Beyond(S, n)
             newer(p) == {q \in S : Older(p, q)}
  <1>1. IsFiniteSet(S) /\ m \in Nat /\ Total(R, S)
    BY AgeOrders, FS_CardinalityType
  <1>2. \A p, q \in S : <<p, q>> \in R <=> Older(p, q)
    OBVIOUS
  <1>3. \A p \in S : newer(p) \in SUBSET S /\ p \notin newer(p)
    BY <1>1, <1>2 DEF Total
  <1>4. \A p \in S : IsFiniteSet(newer(p)) /\ Cardinality(newer(p)) \in Nat
    BY <1>1, <1>3, FS_Subset, FS_CardinalityType
  <1> HIDE DEF newer
  <1>5. CASE m <= n
    <2>1. B = <<>>
      BY <1>5 DEF Beyond
    <2>2. B \in Seq(S) /\ Distinct(B) /\ Elems(B) = {}
      BY <2>1 DEF Distinct, Elems
    <2>3. ASSUME NEW p \in S PROVE ~(Cardinality(newer(p)) >= n)
      <3>1. Cardinality(newer(p)) <= m /\ Cardinality(newer(p)) # m
        BY <1>1, <1>3, FS_Subset
      <3> QED
        BY <1>1, <1>4, <1>5, <3>1
    <2> QED
      BY <2>2, <2>3 DEF newer
  <1>6. CASE ~(m <= n)
    <2>1. /\ s \in Seq(S) /\ Len(s) = m /\ Distinct(s) /\ Elems(s) = S
          /\ \A i, j \in 1..m : i < j => <<s[i], s[j]>> \in R
      BY <1>1, InOrderIs DEF OldestFirst
    <2> DEFINE k == m - n
    <2>2. k \in 1..m /\ m = k + n
      BY <1>1, <1>6
    <2>3. B = SubSeq(s, 1, k)
      BY <1>6 DEF Beyond
    <2> HIDE DEF k, s, m, R, B
    <2>4. B \in Seq(S) /\ Len(B) = k /\ \A i \in 1..k : B[i] = s[i]
      BY <1>1, <2>1, <2>2, <2>3
    <2>5. Distinct(B)
      BY <1>1, <2>1, <2>2, <2>4 DEF Distinct
    <2>6. Elems(B) \in SUBSET S
      BY <2>4 DEF Elems
    <2>7. IsFiniteSet(Elems(B)) /\ Cardinality(Elems(B)) = k
      <3>1. B \in Surjection(1..k, Elems(B)) /\ B \in Injection(1..k, Elems(B))
        <4>1. B \in [1..k -> Elems(B)]
          BY <2>2, <2>4 DEF Elems
        <4> QED
          BY <2>4, <2>5, <4>1 DEF Surjection, Injection, IsInjective, Elems, Distinct
      <3>2. IsFiniteSet(1..k) /\ Cardinality(1..k) = k
        BY <1>1, <2>2, FS_Interval
      <3> QED
        BY <3>1, <3>2, FS_Surjection
    <2> DEFINE kept == S \ Elems(B)
    <2>8. IsFiniteSet(kept) /\ Cardinality(kept) = n
      <3>1. IsFiniteSet(kept) /\ Cardinality(kept) = m - Cardinality(S \cap Elems(B))
        BY <1>1, FS_Difference DEF m
      <3>2. S \cap Elems(B) = Elems(B)
        BY <2>6
      <3> QED
        BY <1>1, <2>2, <2>7, <3>1, <3>2
    <2>9. \A p \in Elems(B), q \in kept : <<p, q>> \in R
      <3> SUFFICES ASSUME NEW p \in Elems(B), NEW q \in kept PROVE <<p, q>> \in R
        OBVIOUS
      <3>1. PICK i \in 1..k : p = s[i]
        BY <2>4 DEF Elems
      <3>2. PICK j \in 1..m : q = s[j]
        BY <2>1 DEF Elems
      <3>3. ~(j \in 1..k)
        BY <2>4, <3>2 DEF Elems
      <3> QED
        BY <1>1, <2>1, <2>2, <3>1, <3>2, <3>3
    <2>10. \A p \in Elems(B), q \in kept : Older(p, q) /\ ~Older(q, p)
      BY <1>1, <1>2, <2>6, <2>9 DEF Total
    <2>11. ASSUME NEW p \in Elems(B)
           PROVE  Cardinality(newer(p)) >= n /\ Cardinality({q \in kept : Older(p, q)}) >= n
      <3>1. {q \in kept : Older(p, q)} = kept
        BY <2>10
      <3>2. kept \in SUBSET newer(p)
        BY <2>10 DEF newer
      <3>3. Cardinality(kept) <= Cardinality(newer(p))
        BY <1>4, <2>6, <3>2, FS_Subset
      <3> QED
        BY <1>4, <2>6, <2>8, <3>1, <3>3
    <2>12. ASSUME NEW p \in kept PROVE ~(Cardinality(newer(p)) >= n)
      <3>1. newer(p) \in SUBSET (kept \ {p})
        BY <1>3, <2>10 DEF newer
      <3>2. IsFiniteSet(kept \ {p}) /\ Cardinality(kept \ {p}) = n - 1
        BY <2>8, FS_RemoveElement
      <3>3. Cardinality(newer(p)) <= n - 1
        BY <3>1, <3>2, FS_Subset
      <3> QED
        BY <1>4, <3>3
    <2>13. Elems(B) = {p \in S : Cardinality(newer(p)) >= n}
      BY <2>6, <2>11, <2>12
    <2> QED
      BY <2>4, <2>5, <2>11, <2>13 DEF newer, B
  <1> QED
    BY <1>5, <1>6

\* Names are a total order, too.
LEMMA NamesOrder ==
    ASSUME NEW S \in SUBSET Place
    PROVE  IsFiniteSet(S) /\ Total(ByName, S)
  <1>1. IsFiniteSet(S)
    BY PathAssumption, FS_Subset
  <1>2. \A p, q \in S : p \in Nat /\ q \in Nat /\ (<<p, q>> \in ByName <=> p < q)
    BY PathAssumption DEF ByName
  <1>3. Total(ByName, S)
    BY <1>2 DEF Total
  <1> QED
    BY <1>1, <1>3

-----------------------------------------------------------------------------
(* Types and stages.                                                       *)

\* A stage goes through its sequence, each element once.
LEMMA DoneIs ==
    ASSUME TypeOK, Done
    PROVE  /\ todo' \in Seq(Place) /\ Distinct(todo')
           /\ This \in Elems(todo) /\ This \in Place /\ Elems(todo') = Elems(todo) \ {This}
  BY TailIs DEF TypeOK, Done, This

\* What a cleaning begins with, and what a stage begins with.
LEMMA NamedIs ==
    ASSUME NEW S \in SUBSET Place, todo' = InOrder(S, ByName)
    PROVE  todo' \in Seq(Place) /\ Distinct(todo') /\ Elems(todo') = S
  <1>1. todo' \in Seq(S) /\ Distinct(todo') /\ Elems(todo') = S
    BY NamesOrder, InOrderIs
  <1> QED
    BY <1>1

LEMMA BeyondTyped ==
    ASSUME TypeOK, NEW S \in SUBSET Candidates, NEW n \in Nat, todo' = Beyond(S, n)
    PROVE  todo' \in Seq(Place) /\ Distinct(todo') /\ Elems(todo') \subseteq S
  <1>1. todo' \in Seq(S) /\ Distinct(todo') /\ Elems(todo') \subseteq S
    BY BeyondIs
  <1>2. S \subseteq Place
    BY DEF Candidates
  <1> QED
    BY <1>1, <1>2

\* What is not there is no checkout, and what was not listed is not known.
LEMMA NoneApart == None \notin Held /\ None \notin Known
  <1>1. \A c \in Held : c.state # "none"
    BY DEF Held, State
  <1>2. ASSUME NEW k \in Known, k = None PROVE FALSE
    <2>1. "head" \in DOMAIN k
      BY DEF Known
    <2>2. DOMAIN None = {"state"}
      BY DEF None
    <2> QED
      BY <1>2, <2>1, <2>2
  <1> QED
    BY <1>1, <1>2 DEF None

\* Whatever a user does counts, and touches nothing of the cleaning.
LEMMA UserActs == ASSUME NEW p \in Place, User(p) PROVE Act
  <1>1. ASSUME NEW state \in State, Turn(p, state) PROVE Act
    BY <1>1 DEF Turn
  <1>2. ASSUME NEW env \in {"none", "managed"}, AddCheckout(p, env) PROVE Act
    BY <1>2 DEF AddCheckout
  <1> QED
    BY <1>1, <1>2 DEF User, Commit, Install, Discard, MergeRequest

\* Checkouts, what is known of them and what has become of them stay what they are.
LEMMA StepType == TypeOK /\ [RetentionNext]_retentionVars => TypeOK'
  <1> SUFFICES ASSUME TypeOK, [RetentionNext]_retentionVars PROVE TypeOK'
    OBVIOUS
  <1> USE DEF TypeOK, facts, found
  <1>1. ASSUME NEW d \in BOOLEAN, BeginCleaning(d) PROVE TypeOK'
    <2>1. todo' \in Seq(Place) /\ Distinct(todo')
      BY <1>1, NamedIs DEF BeginCleaning
    <2>2. ASSUME NEW p \in Place, There(p)
          PROVE  [Unobserved EXCEPT !.head = wt[p].head, !.detached = Detached(p)] \in Known
      <3>1. wt[p].head \in Nat
        BY <2>2 DEF There, Checkouts, Held
      <3>2. Detached(p) \in BOOLEAN
        BY DEF Detached
      <3> QED
        BY <3>1, <3>2 DEF Unobserved, Known, Env
    <2>3. entry' \in [Place -> Known \cup {None}]
      BY <1>1, <2>2 DEF BeginCleaning
    <2> QED
      BY <1>1, <2>1, <2>3 DEF BeginCleaning, Stage, Reason
  <1>2. CASE Observe
    <2>1. todo' \in Seq(Place) /\ Distinct(todo') /\ This \in Place
      BY <1>2, DoneIs DEF Observe
    <2>2. entry' \in [Place -> Known \cup {None}] /\ acts' \in Nat
      <3>2. CASE /\ There(This) /\ acts' = acts
                 /\ entry' = [entry EXCEPT ![This].created = wt[This].created,
                                         ![This].env = wt[This].env,
                                         ![This].excluded = Protected(This)]
        <4>1. wt[This] \in Held
          BY <2>1, <3>2 DEF There, Checkouts
        <4> DEFINE k == [entry[This] EXCEPT !.created = wt[This].created, !.env = wt[This].env,
                                           !.excluded = Protected(This)]
        <4>2. entry' = [entry EXCEPT ![This] = k]
          BY <3>2
        <4>3. entry[This] \in Known => k \in Known
          BY <4>1 DEF Known, Held, Protected
        <4>4. entry[This] = None => k = None
          BY DEF None
        <4> HIDE DEF k
        <4> QED
          BY <2>1, <3>2, <4>2, <4>3, <4>4
      <3>3. CASE ~There(This) /\ UNCHANGED <<acts, entry>>
        BY <3>3
      <3>4. CASE There(This) /\ Unanswered /\ UNCHANGED entry
        BY <3>4 DEF Unanswered
      <3> QED
        BY <1>2, <3>2, <3>3, <3>4, Zenon DEF Observe
    <2> QED
      BY <1>2, <2>1, <2>2 DEF Observe
  <1>3. CASE Observed
    <2>1. todo' \in Seq(Place) /\ Distinct(todo')
      <3>1. CASE todo' = <<>>
        BY <3>1 DEF Distinct
      <3>2. CASE todo' = InOrder(Candidates, ByName)
        BY <3>2, NamedIs DEF Candidates
      <3> QED
        BY <1>3, <3>1, <3>2 DEF Observed
    <2> QED
      BY <1>3, <2>1 DEF Observed, Enter, Stage, Unanswered
  <1>4. CASE NotMerged
    BY <1>4, DoneIs DEF NotMerged
  <1>5. CASE AskFails
    <2>1. todo' \in Seq(Place) /\ Distinct(todo') /\ This \in Place
      BY <1>5, DoneIs DEF AskFails
    <2>2. entry' \in [Place -> Known \cup {None}]
      <3> DEFINE k == [entry[This] EXCEPT !.excluded = TRUE]
      <3>1. entry' = [entry EXCEPT ![This] = k]
        BY <1>5 DEF AskFails
      <3>2. entry[This] \in Known => k \in Known
        BY DEF Known
      <3>3. entry[This] = None => k = None
        BY DEF None
      <3> HIDE DEF k
      <3> QED
        BY <2>1, <3>1, <3>2, <3>3
    <2> QED
      BY <1>5, <2>1, <2>2 DEF AskFails, Unanswered
  <1>6. CASE Count
    <2>1. Survivors \in SUBSET Candidates
      BY DEF Survivors, SurvivorsLeft
    <2>2. todo' \in Seq(Place) /\ Distinct(todo')
      BY <1>6, <2>1, BeyondTyped, PolicyAssumption DEF Count
    <2> QED
      BY <1>6, <2>2 DEF Count, Enter, Stage
  <1>7. CASE CheckRemoval
    <2>1. checked' \in Seq(Nat)
      BY <1>7 DEF CheckRemoval
    <2> QED
      BY <1>7, <2>1 DEF CheckRemoval
  <1>8. CASE RemoveCheckout
    <2>1. todo' \in Seq(Place) /\ Distinct(todo') /\ This \in Place
      BY <1>8, DoneIs DEF RemoveCheckout
    <2>2. removed' \in [Place -> Reason]
      BY <1>8, <2>1 DEF RemoveCheckout, Removing, At, Marked, MarkedAnyway, Reason
    <2>3. wt' \in Checkouts /\ checked' \in Seq(Nat)
      BY <1>8, <2>1 DEF RemoveCheckout, Checkouts
    <2> QED
      BY <1>8, <2>1, <2>2, <2>3 DEF RemoveCheckout
  <1>9. CASE RefuseRemoval
    <2>1. checked' \in Seq(Nat) /\ acts' \in Nat
      BY <1>9 DEF RefuseRemoval, Unanswered
    <2> QED
      BY <1>9, <2>1, DoneIs DEF RefuseRemoval
  <1>10. CASE CountPrepared
    <2>1. Prepared \in SUBSET Candidates
      BY DEF Prepared
    <2>2. todo' \in Seq(Place) /\ Distinct(todo')
      BY <1>10, <2>1, BeyondTyped, PolicyAssumption DEF CountPrepared
    <2> QED
      BY <1>10, <2>2 DEF CountPrepared, Enter, Stage
  <1>11. CASE ReleaseEnvironments
    <2>1. todo' \in Seq(Place) /\ Distinct(todo') /\ This \in Place
      BY <1>11, DoneIs DEF ReleaseEnvironments
    <2>2. wt' \in Checkouts
      <3>1. wt[This] \in Held
        BY <1>11, <2>1 DEF ReleaseEnvironments, Releasable, Protected, Same, SameEntry, There, Checkouts
      <3>2. [wt[This] EXCEPT !.env = "none"] \in Held
        BY <3>1 DEF Held, Env
      <3> QED
        BY <1>11, <2>1, <3>2 DEF ReleaseEnvironments, Checkouts
    <2> QED
      BY <1>11, <2>1, <2>2 DEF ReleaseEnvironments
  <1>12. CASE Retain
    <2>1. acts' \in Nat
      BY <1>12 DEF Retain, Unanswered
    <2> QED
      BY <1>12, <2>1, DoneIs DEF Retain
  <1>13. CASE EndCleaning
    <2>1. plan' \in Plan
      <3>1. MaxActs \in Nat
        BY BoundAssumption
      <3>2. NoPlan \in Plan
        <4>1. MaxActs + 1 \in Nat
          BY ONLY <3>1
        <4>2. [p \in Place |-> ""] \in [Place -> Reason]
          BY ONLY DEF Reason
        <4>3. {} \in SUBSET Place
          OBVIOUS
        <4> QED
          BY ONLY <4>1, <4>2, <4>3 DEF NoPlan, Plan
      <3>3. [acts |-> since, removed |-> removed, released |-> released] \in Plan
        BY DEF Plan
      <3> QED
        BY <1>13, <3>2, <3>3 DEF EndCleaning
    <2> QED
      BY <1>13, <2>1 DEF EndCleaning, Enter, Stage, Reason
  <1>14. ASSUME NEW p \in Place, User(p) PROVE TypeOK'
    <2> SUFFICES wt' \in Checkouts /\ merged' \in SUBSET Place /\ time' \in Nat
      BY <1>14, UserActs DEF Act
    <2>1. There(p) => wt[p] \in Held
      BY DEF There, Checkouts
    <2>2. ASSUME NEW c \in Held \cup {None}, wt' = [wt EXCEPT ![p] = c] PROVE wt' \in Checkouts
      BY <2>2 DEF Checkouts
    <2>3. ASSUME NEW state \in State, Turn(p, state)
          PROVE  wt' \in Checkouts /\ merged' \in SUBSET Place /\ time' \in Nat
      <3>1. acts' \in Nat /\ wt[p] \in Held
        BY <2>1, <2>3 DEF Turn, Act, Alter
      <3>2. [wt[p] EXCEPT !.state = state, !.at = acts'] \in Held
        BY <3>1 DEF Held
      <3> QED
        BY <2>2, <2>3, <3>2 DEF Turn, Alter
    <2>4. CASE Commit(p)
      <3>1. acts' \in Nat /\ wt[p] \in Held
        BY <2>1, <2>4 DEF Commit, Act, Alter
      <3>2. [wt[p] EXCEPT !.head = acts'] \in Held
        BY <3>1 DEF Held
      <3> QED
        BY <2>2, <2>4, <3>2 DEF Commit, Alter
    <2>5. CASE Install(p)
      <3>1. [wt[p] EXCEPT !.env = "unmanaged"] \in Held
        BY <2>1, <2>5 DEF Install, Alter, Held, Env
      <3> QED
        BY <2>2, <2>5, <3>1 DEF Install, Alter
    <2>6. CASE Discard(p)
      BY <2>2, <2>6 DEF Discard, Alter
    <2>7. CASE MergeRequest(p)
      BY <2>7 DEF MergeRequest
    <2>8. ASSUME NEW env \in {"none", "managed"}, AddCheckout(p, env)
          PROVE  wt' \in Checkouts /\ merged' \in SUBSET Place /\ time' \in Nat
      <3>1. time' \in Nat
        BY <2>8 DEF AddCheckout
      <3>2. [state |-> "clean", at |-> 0, head |-> 0, created |-> time', env |-> env] \in Held
        BY <3>1 DEF Held, State, Env
      <3> QED
        BY <2>2, <2>8, <3>1, <3>2 DEF AddCheckout
    <2> QED
      BY <1>14, <2>3, <2>4, <2>5, <2>6, <2>7, <2>8 DEF User
  <1>15. CASE UNCHANGED retentionVars
    BY <1>15 DEF retentionVars
  <1> QED
    BY <1>1, <1>2, <1>3, <1>4, <1>5, <1>6, <1>7, <1>8, <1>9, <1>10, <1>11, <1>12, <1>13,
       <1>14, <1>15
    DEF RetentionNext, Clean

\* What was listed stays listed until the cleaning ends.
LEMMA ListedStays ==
    ASSUME TypeOK, StageOK, Observe \/ AskFails
    PROVE  /\ Candidates' = Candidates
           /\ \A p \in Place \ {This} : entry'[p] = entry[p]
           /\ entry'[This].head = entry[This].head /\ entry'[This].detached = entry[This].detached
           /\ AskFails => \A p \in Candidates : entry'[p].created = entry[p].created
  <1>1. This \in Place /\ This \in Candidates
    BY DoneIs DEF Observe, AskFails, StageOK
  <1>2. entry[This] \in Known
    BY <1>1 DEF Candidates, TypeOK
  <1>3. \/ entry' = entry
        \/ \E k \in Known :
              /\ entry' = [entry EXCEPT ![This] = k]
              /\ k.head = entry[This].head /\ k.detached = entry[This].detached
              /\ AskFails => k.created = entry[This].created
    <2>1. CASE AskFails
      <3> DEFINE k == [entry[This] EXCEPT !.excluded = TRUE]
      <3>1. /\ k \in Known /\ k.head = entry[This].head /\ k.detached = entry[This].detached
            /\ k.created = entry[This].created
        BY <1>2 DEF Known
      <3>2. entry' = [entry EXCEPT ![This] = k]
        BY <2>1 DEF AskFails
      <3> HIDE DEF k
      <3> QED
        BY <3>1, <3>2
    <2>2. CASE /\ There(This) /\ Observe
               /\ entry' = [entry EXCEPT ![This].created = wt[This].created,
                                       ![This].env = wt[This].env,
                                       ![This].excluded = Protected(This)]
      <3> DEFINE k == [entry[This] EXCEPT !.created = wt[This].created, !.env = wt[This].env,
                                         !.excluded = Protected(This)]
      <3>1. wt[This] \in Held
        BY <1>1, <2>2 DEF There, TypeOK, Checkouts
      <3>2. k \in Known /\ k.head = entry[This].head /\ k.detached = entry[This].detached
        BY <1>2, <3>1 DEF Known, Held, Protected
      <3>3. entry' = [entry EXCEPT ![This] = k]
        BY <2>2
      <3>4. ~AskFails
        BY <2>2 DEF AskFails, Observe, At
      <3> HIDE DEF k
      <3> QED
        BY <3>2, <3>3, <3>4
    <2> QED
      BY <2>1, <2>2, Zenon DEF Observe
  <1>4. CASE entry' = entry
    BY <1>4 DEF Candidates
  <1>5. ASSUME NEW k \in Known, entry' = [entry EXCEPT ![This] = k],
               k.head = entry[This].head, k.detached = entry[This].detached,
               AskFails => k.created = entry[This].created
        PROVE  /\ Candidates' = Candidates
               /\ \A p \in Place \ {This} : entry'[p] = entry[p]
               /\ entry'[This].head = entry[This].head /\ entry'[This].detached = entry[This].detached
               /\ AskFails => \A p \in Candidates : entry'[p].created = entry[p].created
    <2>1. entry'[This] = k /\ \A p \in Place \ {This} : entry'[p] = entry[p]
      BY <1>1, <1>5 DEF TypeOK
    <2>2. k # None /\ entry[This] # None
      BY <1>2, NoneApart
    <2> QED
      BY <1>1, <1>5, <2>1, <2>2 DEF Candidates
  <1> QED
    BY <1>3, <1>4, <1>5

\* What a cleaning has listed when it begins.
LEMMA BeginIs ==
    ASSUME TypeOK, NEW d \in BOOLEAN, BeginCleaning(d)
    PROVE  /\ Candidates' = {p \in Place : There(p)} /\ Elems(todo') = Candidates'
           /\ \A p \in Candidates' : /\ entry'[p].head = wt[p].head
                                 /\ entry'[p].detached = Detached(p)
  <1>1. ASSUME NEW p \in Place, There(p)
        PROVE  entry'[p] # None /\ entry'[p].head = wt[p].head /\ entry'[p].detached = Detached(p)
    <2> DEFINE k == [Unobserved EXCEPT !.head = wt[p].head, !.detached = Detached(p)]
    <2>1. wt[p].head \in Nat /\ Detached(p) \in BOOLEAN
      BY <1>1 DEF There, TypeOK, Checkouts, Held, Detached
    <2>2. k \in Known /\ k.head = wt[p].head /\ k.detached = Detached(p)
      BY <2>1 DEF Unobserved, Known, Env
    <2>3. entry'[p] = k
      BY <1>1 DEF BeginCleaning
    <2> HIDE DEF k
    <2> QED
      BY <2>2, <2>3, NoneApart
  <1>2. \A p \in Place : ~There(p) => entry'[p] = None
    BY DEF BeginCleaning
  <1>3. Candidates' = {p \in Place : There(p)}
    BY <1>1, <1>2 DEF Candidates
  <1>4. Elems(todo') = {p \in Place : There(p)}
    BY NamedIs DEF BeginCleaning
  <1> QED
    BY <1>1, <1>3, <1>4

\* A stage takes on what was listed, what was checked is still at hand, and no
\* act is forgotten.
LEMMA StepStage == TypeOK /\ StageOK /\ [RetentionNext]_retentionVars => StageOK'
  <1> SUFFICES ASSUME TypeOK, StageOK, [RetentionNext]_retentionVars PROVE StageOK'
    OBVIOUS
  <1>0. /\ acts \in Nat /\ since \in Nat /\ MaxActs \in Nat /\ plan.acts \in Nat
        /\ checked # <<>> => stage \in {"merged", "count"} /\ todo # <<>>
    BY BoundAssumption DEF TypeOK, Plan, StageOK, Removing, At
  <1> USE DEF facts, found
  <1>1. ASSUME NEW d \in BOOLEAN, BeginCleaning(d) PROVE StageOK'
    <2>1. /\ Elems(todo') \subseteq Candidates' /\ checked = <<>> /\ checked' = checked /\ stage' = "observe"
          /\ since' = acts /\ acts' = acts /\ plan' = plan
      BY <1>0, <1>1, BeginIs DEF BeginCleaning, StageOK
    <2> QED
      BY <1>0, <2>1 DEF StageOK
  <1>2. CASE Observe
    <2>1. Elems(todo') \subseteq Elems(todo) /\ Candidates' = Candidates
      BY <1>2, DoneIs, ListedStays DEF Observe
    <2>2. acts' \in {acts, acts + 1} /\ acts' <= MaxActs
      BY <1>0, <1>2 DEF Observe, Unanswered, StageOK
    <2> QED
      BY <1>0, <1>2, <2>1, <2>2 DEF Observe, At, StageOK
  <1>3. CASE Observed
    <2>1. Elems(todo') \subseteq Candidates
      <3>1. CASE todo' = <<>>
        BY <3>1 DEF Elems
      <3>2. CASE todo' = InOrder(Candidates, ByName)
        BY <3>2, NamedIs DEF Candidates
      <3> QED
        BY <1>3, <3>1, <3>2 DEF Observed
    <2>2. acts' \in {acts, acts + 1} /\ acts' <= MaxActs
      BY <1>0, <1>3 DEF Observed, Unanswered, StageOK
    <2> QED
      BY <1>0, <1>3, <2>1, <2>2 DEF Observed, Enter, StageOK, Candidates
  <1>4. CASE NotMerged
    <2>1. checked = <<>>
      BY <1>4 DEF NotMerged, StageOK, Removing, At
    <2> QED
      BY <1>0, <1>4, <2>1, DoneIs DEF NotMerged, At, StageOK, Candidates
  <1>5. CASE AskFails
    BY <1>0, <1>5, DoneIs, ListedStays DEF AskFails, Unanswered, At, StageOK
  <1>6. CASE Count
    <2>1. Survivors \in SUBSET Candidates
      BY DEF Survivors, SurvivorsLeft
    <2>2. Elems(todo') \subseteq Candidates
      BY <1>6, <2>1, BeyondTyped, PolicyAssumption DEF Count
    <2> QED
      BY <1>0, <1>6, <2>2 DEF Count, Enter, StageOK, Candidates
  <1>7. CASE CheckRemoval
    <2>1. Removing'
      BY <1>7 DEF CheckRemoval, Removing, At, IsMerged, Excluded, This
    <2>2. Len(checked') <= 3
      BY <1>7 DEF CheckRemoval, TypeOK
    <2> QED
      BY <1>0, <1>7, <2>1, <2>2 DEF CheckRemoval, StageOK, Candidates
  <1>8. CASE RemoveCheckout
    BY <1>0, <1>8, DoneIs DEF RemoveCheckout, Removing, At, StageOK, Candidates
  <1>9. CASE RefuseRemoval
    <2>1. acts' \in {acts, acts + 1} /\ acts' <= MaxActs
      BY <1>0, <1>9 DEF RefuseRemoval, Unanswered, StageOK
    <2>2. Done /\ checked' = <<>> /\ UNCHANGED <<stage, since, entry, plan>>
      BY <1>9 DEF RefuseRemoval
    <2>3. stage # "idle" /\ Elems(todo') \subseteq Candidates /\ Candidates' = Candidates
      BY <1>9, <2>2, DoneIs DEF RefuseRemoval, At, Removing, StageOK, Candidates
    <2>4. Len(checked') <= 3 /\ ~(checked' # <<>>)
      BY <2>2
    <2> QED
      BY <1>0, <2>1, <2>2, <2>3, <2>4 DEF StageOK, TypeOK, Plan
  <1>10. CASE CountPrepared
    <2>1. Prepared \in SUBSET Candidates
      BY DEF Prepared
    <2>2. Elems(todo') \subseteq Candidates
      BY <1>10, <2>1, BeyondTyped, PolicyAssumption DEF CountPrepared
    <2> QED
      BY <1>0, <1>10, <2>2 DEF CountPrepared, Enter, StageOK, Candidates
  <1>11. CASE ReleaseEnvironments
    BY <1>0, <1>11, DoneIs DEF ReleaseEnvironments, At, StageOK, Candidates
  <1>12. CASE Retain
    <2>1. acts' \in {acts, acts + 1} /\ acts' <= MaxActs
      BY <1>0, <1>12 DEF Retain, Unanswered, StageOK
    <2> QED
      BY <1>0, <1>12, <2>1, DoneIs DEF Retain, At, StageOK, Candidates
  <1>13. CASE EndCleaning
    <2>1. plan'.acts = since \/ plan'.acts = MaxActs + 1
      BY <1>13 DEF EndCleaning, NoPlan
    <2>2. Elems(todo') = {}
      <3>1. todo' = <<>>
        BY <1>13 DEF EndCleaning, Enter
      <3> QED
        BY <3>1 DEF Elems
    <2>3. checked' = <<>> /\ todo' = <<>> /\ since' = 0 /\ acts' = acts
      BY <1>0, <1>13 DEF EndCleaning, Enter
    <2> QED
      BY <1>0, <2>1, <2>2, <2>3 DEF StageOK
  <1>14. ASSUME NEW p \in Place, User(p) PROVE StageOK'
    <2>1. Act
      BY <1>14, UserActs
    <2>2. Removing => Removing'
      <3>1. stage # "idle" => merged \subseteq merged'
        <4>1. ASSUME NEW env \in {"none", "managed"}, AddCheckout(p, env) PROVE stage = "idle"
          BY <4>1 DEF AddCheckout
        <4>2. ASSUME NEW state \in State, Turn(p, state) PROVE merged' = merged
          BY <4>2 DEF Turn
        <4> QED
          BY <1>14, <4>1, <4>2 DEF User, Commit, Install, Discard, MergeRequest
      <3> QED
        BY <2>1, <3>1 DEF Act, Removing, At, IsMerged, Excluded, This
    <2> QED
      BY <1>0, <2>1, <2>2 DEF Act, StageOK, Candidates
  <1>15. CASE UNCHANGED retentionVars
    BY <1>15 DEF retentionVars, StageOK, Candidates, Removing, At, IsMerged, Excluded, This
  <1> QED
    BY <1>1, <1>2, <1>3, <1>4, <1>5, <1>6, <1>7, <1>8, <1>9, <1>10, <1>11, <1>12, <1>13,
       <1>14, <1>15
    DEF RetentionNext, Clean

-----------------------------------------------------------------------------
(* What is kept when the oldest are removed.                               *)

\* Outside of the stages that count, nothing has been removed for the count.
LEMMA NoneCounted ==
    ASSUME stage' \notin {"count", "release"}, \A p \in Place : removed'[p] # "count"
    PROVE  KeptOK'
  <1>1. Kept({})'
    BY DEF Kept
  <1>2. {} \in SUBSET Candidates'
    OBVIOUS
  <1> QED
    BY <1>1, <1>2 DEF KeptOK

\* Who is kept stays kept as long as nobody else is to be removed.
LEMMA KeptStays ==
    ASSUME NEW K \in SUBSET Candidates, Kept(K), entry' = entry, stage' \in {"count", "release"},
           \A q \in K : removed'[q] = "" /\ ~(stage' = "count" /\ q \in Elems(todo')),
           \A p \in Place : removed'[p] = "count" \/ (stage' = "count" /\ p \in Elems(todo')) =>
               removed[p] = "count" \/ (stage = "count" /\ p \in Elems(todo))
    PROVE  KeptOK'
  <1>1. Candidates' = Candidates
    BY DEF Candidates
  <1>2. \A p : {q \in K : Older(p, q)}' = {q \in K : Older(p, q)}
    BY DEF Older
  <1>3. \A q \in K : (removed[q] = "" /\ ~(stage = "count" /\ q \in Elems(todo)))'
    OBVIOUS
  <1>4. ASSUME NEW p \in Place, removed'[p] = "count" \/ (stage' = "count" /\ p \in Elems(todo'))
        PROVE  Cardinality({q \in K : Older(p, q)}') >= MaxCount
    <2>1. Cardinality({q \in K : Older(p, q)}) >= MaxCount
      BY <1>4 DEF Kept
    <2> QED
      BY <1>2, <2>1
  <1>5. Kept(K)'
    BY <1>3, <1>4 DEF Kept
  <1> QED
    BY <1>1, <1>5 DEF KeptOK

\* The count sets apart the newest of the survivors, and what is removed for it
\* is none of these.
LEMMA StepKept == TypeOK /\ StageOK /\ KeptOK /\ [RetentionNext]_retentionVars => KeptOK'
  <1> SUFFICES ASSUME TypeOK, StageOK, KeptOK, [RetentionNext]_retentionVars PROVE KeptOK'
    OBVIOUS
  <1> USE DEF facts, found
  <1>1. PICK K \in SUBSET Candidates : Kept(K)
    BY DEF KeptOK
  <1>2. ASSUME stage' \notin {"count", "release"}, stage \notin {"count", "release"}, removed' = removed
        PROVE  KeptOK'
    <2>1. \A p \in Place : removed'[p] # "count"
      BY <1>2 DEF KeptOK
    <2> QED
      BY <1>2, <2>1, NoneCounted
  <1>3. ASSUME stage \in {"count", "release"}, stage' = stage, entry' = entry, removed' = removed,
               Elems(todo') \subseteq Elems(todo)
        PROVE  KeptOK'
    BY <1>1, <1>3, KeptStays DEF Kept
  <1>4. ASSUME NEW d \in BOOLEAN, BeginCleaning(d) PROVE KeptOK'
    <2>1. stage' \notin {"count", "release"} /\ \A p \in Place : removed'[p] # "count"
      BY <1>4 DEF BeginCleaning
    <2> QED
      BY <2>1, NoneCounted
  <1>5. CASE Observe
    BY <1>2, <1>5 DEF Observe, At
  <1>6. CASE Observed
    BY <1>2, <1>6 DEF Observed, Enter
  <1>7. CASE NotMerged
    BY <1>2, <1>7 DEF NotMerged, At
  <1>8. CASE AskFails
    BY <1>2, <1>8 DEF AskFails, At
  <1>9. CASE Count
    <2> DEFINE S == Survivors
               B == Beyond(S, MaxCount)
    <2>1. S \in SUBSET Candidates /\ \A q \in S : removed[q] = ""
      BY DEF Survivors, SurvivorsLeft
    <2>2. /\ Elems(B) \subseteq S
          /\ \A p \in Elems(B) : Cardinality({q \in S \ Elems(B) : Older(p, q)}) >= MaxCount
      BY <2>1, BeyondIs, PolicyAssumption
    <2>3. todo' = B /\ stage' = "count" /\ entry' = entry /\ removed' = removed
      BY <1>9 DEF Count, Enter
    <2>4. \A p \in Place : removed[p] # "count"
      BY <1>9 DEF Count, Enter, KeptOK
    <2>5. PICK N \in SUBSET Candidates :
              /\ \A q \in N : removed[q] = "" /\ q \notin Elems(B)
              /\ \A p \in Elems(B) : Cardinality({q \in N : Older(p, q)}) >= MaxCount
      BY <2>1, <2>2
    <2> HIDE DEF B
    <2>6. \A p : {q \in N : Older(p, q)}' = {q \in N : Older(p, q)}
      BY <2>3 DEF Older
    <2>7. Elems(todo') = Elems(B)
      BY <2>3
    <2>8. \A q \in N : removed'[q] = "" /\ q \notin Elems(todo')
      BY <2>3, <2>5, <2>7
    <2>9. \A p \in Place : removed'[p] = "count" \/ p \in Elems(todo') =>
              Cardinality({q \in N : Older(p, q)}') >= MaxCount
      BY <2>3, <2>4, <2>5, <2>6, <2>7
    <2>10. Kept(N)'
      BY <2>3, <2>8, <2>9 DEF Kept
    <2>11. N \in SUBSET Candidates' /\ stage' = "count"
      BY <2>3 DEF Candidates
    <2> QED
      BY <2>10, <2>11 DEF KeptOK
  <1>10. CASE CheckRemoval
    <2>1. CASE stage = "merged"
      BY <1>2, <1>10, <2>1 DEF CheckRemoval
    <2>2. CASE stage = "count"
      BY <1>3, <1>10, <2>2 DEF CheckRemoval
    <2> QED
      BY <1>10, <2>1, <2>2 DEF CheckRemoval, Removing, At
  <1>11. CASE RemoveCheckout
    <2>1. /\ This \in Place /\ This \in Elems(todo) /\ Elems(todo') \subseteq Elems(todo)
          /\ entry' = entry /\ stage' = stage /\ removed' = [removed EXCEPT ![This] = stage]
      BY <1>11, DoneIs DEF RemoveCheckout, Marked, MarkedAnyway
    <2>2. /\ removed'[This] = stage
          /\ \A p \in Place \ {This} : removed'[p] = removed[p]
      BY <2>1 DEF TypeOK
    <2>3. CASE stage = "merged"
      <3>1. stage' = "merged" /\ \A p \in Place : removed'[p] # "count"
        BY <2>1, <2>2, <2>3 DEF KeptOK
      <3> QED
        BY <3>1, NoneCounted
    <2>4. CASE stage = "count"
      <3>1. \A q \in K : q \in Place /\ q # This
        BY <1>1, <2>1, <2>4 DEF Kept, Candidates
      <3> QED
        BY <1>1, <2>1, <2>2, <2>4, <3>1, KeptStays DEF Kept
    <2> QED
      BY <1>11, <2>3, <2>4 DEF RemoveCheckout, Removing, At
  <1>12. CASE RefuseRemoval
    <2>1. /\ Elems(todo') \subseteq Elems(todo)
          /\ entry' = entry /\ stage' = stage /\ removed' = removed /\ stage \in {"merged", "count"}
      BY <1>12, DoneIs DEF RefuseRemoval, Removing, At
    <2> QED
      BY <1>2, <1>3, <2>1
  <1>13. CASE CountPrepared
    <2>1. entry' = entry /\ stage = "count" /\ stage' = "release" /\ removed' = removed
      BY <1>13 DEF CountPrepared, Enter
    <2> QED
      BY <1>1, <2>1, KeptStays DEF Kept
  <1>14. CASE (ReleaseEnvironments \/ Retain)
    <2>1. /\ Elems(todo') \subseteq Elems(todo)
          /\ entry' = entry /\ stage = "release" /\ stage' = stage /\ removed' = removed
      BY <1>14, DoneIs DEF ReleaseEnvironments, Retain, At
    <2> QED
      BY <1>3, <2>1
  <1>15. CASE EndCleaning
    <2>1. stage' \notin {"count", "release"} /\ \A p \in Place : removed'[p] # "count"
      BY <1>15 DEF EndCleaning, Enter
    <2> QED
      BY <2>1, NoneCounted
  <1>16. ASSUME NEW p \in Place, User(p) PROVE KeptOK'
    <2>1. stage' = stage /\ removed' = removed /\ entry' = entry /\ todo' = todo
      BY <1>16, UserActs DEF Act
    <2> QED
      BY <1>2, <1>3, <2>1
  <1>17. CASE UNCHANGED retentionVars
    <2>1. stage' = stage /\ removed' = removed /\ entry' = entry /\ todo' = todo
      BY <1>17 DEF retentionVars
    <2> QED
      BY <1>2, <1>3, <2>1
  <1> QED
    BY <1>4, <1>5, <1>6, <1>7, <1>8, <1>9, <1>10, <1>11, <1>12, <1>13, <1>14, <1>15, <1>16,
       <1>17
    DEF RetentionNext, Clean

\* What is removed for the count is older than the limit's number of others
\* that are kept (clean.go:109).
LEMMA KeptNewest == TypeOK /\ KeptOK => NewestKept
  <1> SUFFICES ASSUME TypeOK, KeptOK, NEW p \in Place, removed[p] = "count"
               PROVE  Cardinality({q \in Candidates : removed[q] = "" /\ Older(p, q)}) >= MaxCount
    BY DEF NewestKept
  <1>1. PICK K \in SUBSET Candidates : Kept(K)
    BY DEF KeptOK
  <1> DEFINE T == {q \in K : Older(p, q)}
             U == {q \in Candidates : removed[q] = "" /\ Older(p, q)}
  <1>2. Cardinality(T) >= MaxCount /\ T \in SUBSET U
    BY <1>1 DEF Kept
  <1>3. IsFiniteSet(U)
    <2>1. U \in SUBSET Place
      BY DEF Candidates
    <2> QED
      BY <2>1, PathAssumption, FS_Subset
  <1> HIDE DEF T, U
  <1>4. IsFiniteSet(T) /\ Cardinality(T) <= Cardinality(U)
    BY <1>2, <1>3, FS_Subset
  <1>5. Cardinality(T) \in Nat /\ Cardinality(U) \in Nat /\ MaxCount \in Nat
    BY <1>3, <1>4, FS_CardinalityType, PolicyAssumption
  <1>6. Cardinality(U) >= MaxCount
    BY <1>2, <1>4, <1>5
  <1> QED
    BY <1>6 DEF U

-----------------------------------------------------------------------------
(* Unsaved work, and the head that was merged.                             *)

\* What the checks of a removal have not found was not there.
LEMMA StepChecked ==
    ASSUME TypeOK, TypeOK', StageOK, CheckedOK, [RetentionNext]_retentionVars
    PROVE  CheckedOK'
  <1> USE DEF facts, found
  <1>0. acts \in Nat /\ acts' \in Nat /\ checked \in Seq(Nat)
    BY DEF TypeOK
  <1>1. ASSUME checked' = <<>> PROVE CheckedOK'
    BY <1>1 DEF CheckedOK
  <1>2. ASSUME checked' = checked, ~Removing PROVE CheckedOK'
    BY <1>1, <1>2 DEF StageOK
  <1>3. ASSUME NEW d \in BOOLEAN, BeginCleaning(d) PROVE CheckedOK'
    BY <1>2, <1>3 DEF BeginCleaning, Removing, At
  <1>4. CASE Observe \/ Observed \/ Count \/ CountPrepared \/ ReleaseEnvironments \/ Retain \/ EndCleaning
    BY <1>2, <1>4
    DEF Observe, Observed, Count, CountPrepared, ReleaseEnvironments, Retain, EndCleaning,
        Removing, At, Enter
  <1>5. CASE NotMerged
    BY <1>2, <1>5 DEF NotMerged, Removing, At
  <1>6. CASE AskFails \/ RemoveCheckout \/ RefuseRemoval
    BY <1>1, <1>6 DEF AskFails, RemoveCheckout, RefuseRemoval
  <1>7. CASE CheckRemoval
    <2>1. /\ checked' = Append(checked, acts) /\ Removing /\ Clear(This, Len(checked) + 1)
          /\ UNCHANGED <<wt, merged, acts, entry, stage, todo>>
      BY <1>7 DEF CheckRemoval, NextCheck
    <2>2. /\ Len(checked') = Len(checked) + 1 /\ Len(checked) \in Nat
          /\ \A k \in 1..Len(checked) : checked'[k] = checked[k]
          /\ checked'[Len(checked) + 1] = acts
      BY <1>0, <2>1
    <2>3. \A k \in 1..Len(checked') : checked'[k] <= acts'
      BY <1>0, <2>1, <2>2 DEF CheckedOK
    <2>4. ASSUME There(This)
          PROVE  /\ Len(checked') >= 2 /\ wt[This].state = "ignored" => wt[This].at > checked'[2]
                 /\ Len(checked') >= 3 /\ wt[This].state = "stray" => wt[This].at > checked'[3]
                 /\ Len(checked') >= 3 /\ stage = "merged" =>
                       wt[This].head = 0 \/ wt[This].head > checked'[3]
      <3>1. Len(checked') = 2 => wt[This].state # "ignored"
        BY <2>1, <2>2 DEF Clear, Saved, SavedAll
      <3>2. Len(checked') # 2 => ~Protected(This)
        BY <2>1, <2>2 DEF Clear
      <3>3. Len(checked') # 2 => wt[This].state # "stray" /\ wt[This].head = entry[This].head
        BY <3>2 DEF Protected, Same, SameEntry, Detached
      <3>4. stage = "merged" => entry[This].head = 0
        BY <2>1 DEF Removing, IsMerged
      <3>5. Len(checked) > 0 =>
               /\ Len(checked) >= 2 /\ wt[This].state = "ignored" => wt[This].at > checked[2]
               /\ Len(checked) >= 3 => FALSE
        <4>1. Len(checked) < 3
          BY <1>7 DEF CheckRemoval
        <4>2. Len(checked) > 0 => checked # <<>>
          OBVIOUS
        <4> QED
          BY <2>2, <2>4, <4>1, <4>2 DEF CheckedOK
      <3> QED
        BY <2>2, <3>1, <3>3, <3>4, <3>5
    <2>5. This' = This /\ (There(This))' = There(This)
      BY <2>1 DEF This, There
    <2> QED
      BY <2>1, <2>3, <2>4, <2>5 DEF CheckedOK
  <1>8. ASSUME NEW p \in Place, User(p) PROVE CheckedOK'
    <2>1. Act
      BY <1>8, UserActs
    <2>2. acts' = acts + 1 /\ checked' = checked /\ This' = This /\ stage' = stage
      BY <2>1 DEF Act, This
    <2>3. \A k \in 1..Len(checked') : checked'[k] <= acts'
      BY <1>0, <2>2 DEF CheckedOK
    <2>4. CASE checked = <<>>
      BY <1>1, <2>2, <2>4
    <2>5. CASE checked # <<>>
      <3>1. stage # "idle" /\ This \in Place
        BY <2>5, TailIs DEF StageOK, Removing, At, This, TypeOK
      <3>2. \/ ~There(This)'
            \/ wt'[This] = wt[This]
            \/ There(This) /\ wt'[This].state = wt[This].state /\ wt'[This].at = wt[This].at
                  /\ (wt'[This].head = wt[This].head \/ wt'[This].head = acts + 1)
            \/ There(This) /\ wt'[This].at = acts + 1 /\ wt'[This].head = wt[This].head
        <4>1. CASE This # p
          <5>1. \A c : wt' = [wt EXCEPT ![p] = c] => wt'[This] = wt[This]
            BY <3>1, <4>1 DEF TypeOK, Checkouts
          <5>2. wt' = wt \/ \E c : wt' = [wt EXCEPT ![p] = c]
            BY <1>8, <3>1 DEF User, Turn, Commit, Install, Discard, MergeRequest, AddCheckout, Alter
          <5> QED
            BY <5>1, <5>2
        <4>2. CASE This = p
          <5>1. \A c : wt' = [wt EXCEPT ![p] = c] => wt'[p] = c
            BY DEF TypeOK, Checkouts
          <5>2. There(p) => wt[p] \in Held
            BY DEF TypeOK, Checkouts, There
          <5>3. ASSUME NEW state \in State, Turn(p, state)
                PROVE  There(p) /\ wt'[p].at = acts + 1 /\ wt'[p].head = wt[p].head
            <6>1. There(p) /\ wt'[p] = [wt[p] EXCEPT !.state = state, !.at = acts']
              BY <5>1, <5>3 DEF Turn, Alter
            <6> QED
              BY <2>2, <5>2, <6>1 DEF Held
          <5>4. CASE Commit(p)
            <6>1. There(p) /\ wt'[p] = [wt[p] EXCEPT !.head = acts']
              BY <5>1, <5>4 DEF Commit, Alter
            <6> QED
              BY <2>2, <4>2, <5>2, <6>1 DEF Held
          <5>5. CASE Install(p)
            <6>1. There(p) /\ wt'[p] = [wt[p] EXCEPT !.env = "unmanaged"]
              BY <5>1, <5>5 DEF Install, Alter
            <6> QED
              BY <4>2, <5>2, <6>1 DEF Held
          <5>6. CASE Discard(p)
            BY <2>2, <4>2, <5>1, <5>6 DEF Discard, Alter, There
          <5>7. CASE MergeRequest(p)
            BY <5>7 DEF MergeRequest
          <5>8. ASSUME NEW env \in {"none", "managed"}, AddCheckout(p, env) PROVE FALSE
            BY <3>1, <5>8 DEF AddCheckout
          <5> QED
            BY <1>8, <4>2, <5>3, <5>4, <5>5, <5>6, <5>7, <5>8 DEF User
        <4> QED
          BY <4>1, <4>2
      <3>3. \A k \in 1..Len(checked) : acts + 1 > checked[k]
        <4>1. \A k \in 1..Len(checked) : checked[k] \in Nat
          BY <1>0
        <4> QED
          BY <1>0, <4>1 DEF CheckedOK
      <3>4. Len(checked) \in Nat
        BY <1>0
      <3>5. wt'[This] = wt[This] => (There(This)' <=> There(This))
        BY <2>2 DEF There
      <3>6. ASSUME There(This)'
            PROVE  /\ Len(checked) >= 2 /\ wt'[This].state = "ignored" => wt'[This].at > checked[2]
                   /\ Len(checked) >= 3 /\ wt'[This].state = "stray" => wt'[This].at > checked[3]
                   /\ Len(checked) >= 3 /\ stage = "merged" =>
                         wt'[This].head = 0 \/ wt'[This].head > checked[3]
        BY <2>5, <3>2, <3>3, <3>4, <3>5, <3>6 DEF CheckedOK
      <3> QED
        BY <2>2, <2>3, <3>6 DEF CheckedOK
    <2> QED
      BY <2>4, <2>5
  <1>9. CASE UNCHANGED retentionVars
    BY <1>9 DEF retentionVars, CheckedOK, There, This
  <1> QED
    BY <1>3, <1>4, <1>5, <1>6, <1>7, <1>8, <1>9 DEF RetentionNext, Clean

\* A step that marks a checkout as removed is one of RemoveCheckout.
LEMMA Removes ==
    ASSUME TypeOK, [RetentionNext]_retentionVars, NEW p \in Place, removed[p] = "", removed'[p] # ""
    PROVE  RemoveCheckout /\ p = This /\ removed'[p] = stage
  <1> USE DEF facts, found
  <1>1. CASE RemoveCheckout
    <2>1. This \in Place /\ removed' = [removed EXCEPT ![This] = stage]
      BY <1>1, DoneIs DEF RemoveCheckout, Marked, MarkedAnyway
    <2> QED
      BY <1>1, <2>1 DEF TypeOK
  <1>2. ASSUME NEW q \in Place, User(q) PROVE FALSE
    BY <1>2, UserActs DEF Act
  <1>3. ASSUME NEW d \in BOOLEAN, BeginCleaning(d) PROVE FALSE
    BY <1>3 DEF BeginCleaning
  <1>4. CASE EndCleaning
    BY <1>4 DEF EndCleaning
  <1>5. ASSUME \/ Observe \/ Observed \/ NotMerged \/ AskFails \/ Count \/ CheckRemoval \/ RefuseRemoval
               \/ CountPrepared \/ ReleaseEnvironments \/ Retain
        PROVE  FALSE
    BY <1>5 DEF Observe, Observed, NotMerged, AskFails, Count, CheckRemoval, RefuseRemoval, CountPrepared,
                ReleaseEnvironments, Retain
  <1>6. CASE UNCHANGED retentionVars
    BY <1>6 DEF retentionVars
  <1> QED
    BY <1>1, <1>2, <1>3, <1>4, <1>5, <1>6 DEF RetentionNext, Clean

\* What is removed is what the invariant says of the checkout at hand.
LEMMA StepRemoves ==
    ASSUME TypeOK, StageOK, CheckedOK, [RetentionNext]_retentionVars, NEW p \in Place
    PROVE  /\ Deletes(p) /\ Irreplaceable(p) => wt[p].at > checked[LooksFor(wt[p].state)]
           /\ removed'[p] = "merged" /\ removed[p] = "" /\ There(p) =>
                p \in merged /\ (wt[p].head = 0 \/ wt[p].head > checked[3])
  <1>1. CASE removed[p] = "" /\ removed'[p] # ""
    <2>1. RemoveCheckout /\ p = This /\ removed'[p] = stage
      BY <1>1, Removes
    <2>2. Len(checked) = 3 /\ checked # <<>> /\ (stage = "merged" => p \in merged)
      BY <2>1 DEF RemoveCheckout, Removing, IsMerged
    <2>3. ~dry => There(p)
      BY <2>1 DEF RemoveCheckout, GitRemoves
    <2>4. Irreplaceable(p) /\ ~dry => wt[p].at > checked[LooksFor(wt[p].state)]
      <3>1. CASE wt[p].state = "ignored"
        BY <2>1, <2>2, <2>3, <3>1 DEF CheckedOK, LooksFor
      <3>2. CASE wt[p].state = "stray"
        BY <2>1, <2>2, <2>3, <3>2 DEF CheckedOK, LooksFor
      <3> QED
        BY <3>1, <3>2 DEF Irreplaceable
    <2>5. removed'[p] = "merged" /\ There(p) => p \in merged /\ (wt[p].head = 0 \/ wt[p].head > checked[3])
      BY <2>1, <2>2 DEF CheckedOK
    <2> QED
      BY <2>4, <2>5 DEF Deletes
  <1>2. CASE ~(removed[p] = "" /\ removed'[p] # "")
    BY <1>2 DEF Deletes
  <1> QED
    BY <1>1, <1>2

-----------------------------------------------------------------------------
(* A cleaning nobody interferes with.                                      *)

\* What is known of a checkout, one by one.
LEMMA SeenFields ==
    ASSUME NEW w, NEW p
    PROVE  /\ SeenIn(w, p).head = w[p].head /\ SeenIn(w, p).created = w[p].created
           /\ SeenIn(w, p).env = w[p].env
           /\ SeenIn(w, p).detached = (w[p].state \in {"detached", "stray"})
           /\ SeenIn(w, p).excluded <=> ExcludedIn(w, p)
  <1> DEFINE x == ExcludedIn(w, p)
             d == w[p].state \in {"detached", "stray"}
  <1>1. SeenIn(w, p) = [head |-> w[p].head, detached |-> d, created |-> w[p].created,
                        env |-> w[p].env, excluded |-> x]
    BY DEF SeenIn
  <1>2. x \in BOOLEAN /\ d \in BOOLEAN
    BY DEF ExcludedIn
  <1> HIDE DEF x, d
  <1>3. /\ SeenIn(w, p).head = w[p].head /\ SeenIn(w, p).created = w[p].created
        /\ SeenIn(w, p).env = w[p].env
        /\ SeenIn(w, p).detached = d /\ SeenIn(w, p).excluded = x
    BY <1>1
  <1> QED
    BY <1>2, <1>3 DEF d, x

\* A checkout it has not touched is as it was found: what it decides about it is
\* what is decided by what it found.
LEMMA Untouched ==
    ASSUME TypeOK, NEW w \in Checkouts, WtIs(w), SeenIs(w), stage # "observe",
           NEW p \in Candidates, dry \/ (removed[p] = "" /\ p \notin released)
    PROVE  /\ p \in Place /\ wt[p] = w[p] /\ w[p] \in Held /\ entry[p] = SeenIn(w, p)
           /\ Excluded(p) <=> ExcludedIn(w, p)
           /\ ~Excluded(p) => ~Protected(p)
           /\ Saved(p) <=> SavedIn(w, p)
           /\ ~Excluded(p) => (Removable(p) <=> RemovableIn(w, p))
           /\ RemovableIn(w, p) => GitRemoves(p)
           /\ p \in MergedIn(w, merged) <=> IsMerged(p) /\ RemovableIn(w, p)
  <1>1. p \in Place /\ wt[p] = w[p] /\ w[p] # None /\ entry[p] = SeenIn(w, p)
    BY DEF Candidates, ThereIn, WtIs, SeenIs
  <1>2. w[p] \in Held
    BY <1>1 DEF Checkouts
  <1>3. /\ entry[p].head = w[p].head /\ entry[p].detached = (w[p].state \in {"detached", "stray"})
        /\ entry[p].env = w[p].env /\ (entry[p].excluded <=> ExcludedIn(w, p))
    <2>1. /\ SeenIn(w, p).head = w[p].head /\ SeenIn(w, p).env = w[p].env
          /\ SeenIn(w, p).detached = (w[p].state \in {"detached", "stray"})
          /\ SeenIn(w, p).excluded <=> ExcludedIn(w, p)
      BY SeenFields, Zenon
    <2> QED
      BY <1>1, <2>1, Zenon
  <1>4. Excluded(p) <=> ExcludedIn(w, p)
    BY <1>3 DEF Excluded
  <1>5. ASSUME ~ExcludedIn(w, p) PROVE ~Protected(p)
    <2>1. Same(p)
      BY <1>1, <1>3 DEF Same, SameEntry, There, Detached
    <2>2. ~HoldsAnother(p)
      <3> SUFFICES ASSUME NEW q \in Place \ {p}, <<p, q>> \in Nested, There(q) PROVE FALSE
        BY DEF HoldsAnother
      <3>1. w[q] # None
        <4>1. CASE wt[q] = w[q]
          BY <4>1 DEF There
        <4>2. CASE wt[q] = [w[q] EXCEPT !.env = "none"]
          <5>1. [None EXCEPT !.env = "none"] = None
            BY DEF None
          <5> QED
            BY <4>2, <5>1 DEF There
        <4> QED
          BY <4>1, <4>2 DEF WtIs, There
      <3> QED
        BY <1>5, <3>1 DEF ExcludedIn, ThereIn
    <2>3. ~Detached(p) /\ wt[p].state # "locked"
      BY <1>1, <1>5 DEF ExcludedIn, Detached
    <2> QED
      BY <2>1, <2>2, <2>3 DEF Protected
  <1>6. Saved(p) <=> SavedIn(w, p)
    BY <1>1, <1>2, <1>3 DEF Saved, SavedAll, SavedIn, Held, Env, There
  <1>7. RemovableIn(w, p) => GitRemoves(p)
    BY <1>1 DEF RemovableIn, ExcludedIn, SavedIn, GitRemoves, There
  <1>8. p \in MergedIn(w, merged) <=> IsMerged(p) /\ RemovableIn(w, p)
    BY <1>1, <1>3 DEF MergedIn, ThereIn, IsMerged, RemovableIn, ExcludedIn
  <1> QED
    BY <1>1, <1>2, <1>4, <1>5, <1>6, <1>7, <1>8 DEF Removable, RemovableIn

\* What is beyond a limit is so by the creation times that were found.
LEMMA BeyondFound ==
    ASSUME TypeOK, NEW w \in Checkouts, SeenIs(w), stage # "observe",
           NEW S \in SUBSET Candidates, NEW n \in Nat
    PROVE  Elems(Beyond(S, n)) = BeyondIn(w, S, n)
  <1>1. \A p \in Candidates : entry[p].created = w[p].created
    BY SeenFields DEF SeenIs
  <1>2. \A p, q \in S : Older(p, q) <=> OlderIn(w, p, q)
    BY <1>1 DEF Older, OlderIn
  <1>3. \A p \in S : {q \in S : Older(p, q)} = {q \in S : OlderIn(w, p, q)}
    BY <1>2
  <1>4. Elems(Beyond(S, n)) = {p \in S : Cardinality({q \in S : Older(p, q)}) >= n}
    BY BeyondIs
  <1> QED
    BY <1>3, <1>4 DEF BeyondIn

\* The stage at hand has done nothing yet with what it has yet to come to.
LEMMA AtHand ==
    ASSUME TypeOK, StageOK, NEW w \in Checkouts, Found(w), stage \in {"merged", "count", "release"}, Done
    PROVE  /\ This \in Place /\ This \in Candidates /\ This \in Elems(todo)
           /\ removed[This] = "" /\ This \notin released
           /\ Elems(todo') = Elems(todo) \ {This}
  <1>1. This \in Place /\ This \in Candidates /\ This \in Elems(todo) /\ Elems(todo') = Elems(todo) \ {This}
    BY DoneIs DEF StageOK
  <1>2. This \notin released
    BY <1>1 DEF Found, StageIs
  <1>3. removed[This] = ""
    <2>1. CASE stage = "merged"
      BY <1>1, <2>1 DEF Found, StageIs
    <2>2. CASE stage = "count"
      BY <1>1, <2>2 DEF Found, StageIs
    <2>3. CASE stage = "release"
      BY <1>1, <2>3 DEF Found, StageIs, BeyondPrepared, BeyondIn, PreparedIn
    <2> QED
      BY <2>1, <2>2, <2>3
  <1> QED
    BY <1>1, <1>2, <1>3

\* Each checkout is observed as it was found.
LEMMA ObserveFound ==
    ASSUME TypeOK, StageOK, NEW w \in Checkouts, Found(w), Observe, acts' = acts
    PROVE  Found(w)'
  <1> USE DEF facts, found
  <1>1. /\ stage = "observe" /\ checked = <<>> /\ This \in Place /\ This \in Candidates
        /\ Elems(todo') = Elems(todo) \ {This}
    BY DoneIs DEF Observe, At, StageOK, Removing
  <1>2. wt = w
    <2>1. \A p \in Place : removed[p] = "" /\ p \notin released
      BY <1>1 DEF Found, StageIs
    <2>2. \A p \in Place : wt[p] = w[p]
      BY <2>1 DEF Found, WtIs
    <2> QED
      BY <2>2 DEF TypeOK, Checkouts
  <1>3. w[This] # None /\ w[This] \in Held /\ There(This)
    BY <1>1, <1>2 DEF Found, SeenIs, ThereIn, There, Checkouts
  <1>4. entry[This] \in Known
    BY <1>1 DEF TypeOK, Candidates
  <1>5. entry' = [entry EXCEPT ![This].created = wt[This].created, ![This].env = wt[This].env,
                             ![This].excluded = Protected(This)]
    <2>1. acts \in Nat /\ acts' # acts + 1
      BY DEF TypeOK
    <2> QED
      BY <1>3, <2>1 DEF Observe, Unanswered
  <1>6. entry[This].head = w[This].head /\ entry[This].detached = (w[This].state \in {"detached", "stray"})
    BY <1>1 DEF Found, SeenIs
  <1>7. Protected(This) <=> ExcludedIn(w, This)
    BY <1>2, <1>3, <1>6
    DEF Protected, Same, SameEntry, Detached, HoldsAnother, ExcludedIn, ThereIn, There
  <1>8. entry'[This] = SeenIn(w, This)
    <2>1. entry'[This] = [entry[This] EXCEPT !.created = w[This].created, !.env = w[This].env,
                                           !.excluded = Protected(This)]
      BY <1>1, <1>2, <1>5 DEF TypeOK
    <2>2. Protected(This) = ExcludedIn(w, This)
      BY <1>7 DEF Protected, ExcludedIn
    <2> QED
      BY <1>4, <1>6, <2>1, <2>2 DEF SeenIn, Known
  <1>9. Candidates' = Candidates /\ \A p \in Place \ {This} : entry'[p] = entry[p]
    BY ListedStays
  <1>10. SeenIs(w)'
    <2> SUFFICES ASSUME NEW p \in Candidates'
                 PROVE  /\ entry'[p].head = w[p].head
                        /\ entry'[p].detached = (w[p].state \in {"detached", "stray"})
                        /\ p \notin Elems(todo') => entry'[p] = SeenIn(w, p)
      BY <1>1, <1>9 DEF Found, SeenIs, ThereIn, Observe
    <2>1. CASE p = This
      BY <1>8, <2>1, SeenFields
    <2>2. CASE p # This
      BY <1>1, <1>9, <2>2 DEF Found, SeenIs, Candidates
    <2> QED
      BY <2>1, <2>2
  <1>11. /\ UNCHANGED <<wt, merged, stage, dry, removed, released, checked, plan>>
    BY DEF Observe
  <1> QED
    BY <1>1, <1>10, <1>11 DEF Found, WtIs, StageIs, Predicts

\* The stages in between: what is listed for the merged ones, what is beyond the
\* count, and what is beyond the count of environments, is so for what was found.
LEMMA EnterFound ==
    ASSUME TypeOK, StageOK, NEW w \in Checkouts, Found(w), Observed \/ Count \/ CountPrepared,
           acts' = acts
    PROVE  Found(w)'
  <1> USE DEF facts, found
  <1>0. /\ todo = <<>> /\ Elems(todo) = {} /\ checked = <<>>
        /\ UNCHANGED <<wt, merged, acts, dry, entry, removed, released, checked, plan>>
    <2>1. todo = <<>> /\ UNCHANGED <<wt, merged, acts, dry, entry, removed, released, checked, plan>>
      BY DEF Observed, Count, CountPrepared, Enter
    <2>2. Elems(todo) = {}
      BY <2>1 DEF Elems
    <2> QED
      BY <2>1, <2>2 DEF StageOK, Removing, At
  <1>1. Candidates = ThereIn(w) /\ \A p \in Candidates : entry[p] = SeenIn(w, p)
    BY <1>0 DEF Found, SeenIs
  <1>2. stage' # "observe"
    BY DEF Observed, Count, CountPrepared, Enter
  <1>3. SeenIs(w)'
    <2>1. Candidates' = Candidates
      BY <1>0 DEF Candidates
    <2>2. ThereIn(w)' = ThereIn(w)
      BY DEF ThereIn
    <2> SUFFICES ASSUME NEW p \in Candidates
                 PROVE  /\ entry'[p].head = w[p].head
                        /\ entry'[p].detached = (w[p].state \in {"detached", "stray"})
                        /\ entry'[p] = SeenIn(w, p)
      BY <1>1, <1>2, <2>1, <2>2 DEF SeenIs
    <2> QED
      BY <1>0, <1>1 DEF Found, SeenIs
  <1>4. WtIs(w)' /\ Predicts(w)'
    BY <1>0 DEF Found, WtIs, Predicts
  <1>5. CASE Observed
    <2>1. stage = "observe" /\ stage' = "merged" /\ todo' = InOrder(Candidates, ByName)
      BY <1>5 DEF Observed, Enter, Unanswered, TypeOK
    <2>2. Elems(todo') = Candidates
      BY <2>1, NamedIs DEF Candidates
    <2>3. MergedIn(w, merged) \subseteq Candidates
      BY <1>1 DEF MergedIn
    <2>4. removed = [p \in Place |-> ""] /\ released = {}
      BY <2>1 DEF Found, StageIs
    <2>5. StageIs(w)'
      BY <1>0, <2>1, <2>2, <2>3, <2>4 DEF StageIs
    <2> QED
      BY <1>3, <1>4, <2>5 DEF Found
  <1>6. CASE Count
    <2>1. stage = "merged" /\ stage' = "count" /\ todo' = Beyond(Survivors, MaxCount)
      BY <1>6 DEF Count, Enter
    <2>2. /\ removed = [p \in Place |-> IF p \in MergedIn(w, merged) THEN "merged" ELSE ""]
          /\ released = {}
      BY <1>0, <2>1 DEF Found, StageIs
    <2>3. Survivors = ThereIn(w) \ MergedIn(w, merged) /\ Survivors \in SUBSET Candidates
      BY <1>1, <2>2 DEF Survivors, SurvivorsLeft, ThereIn, Candidates
    <2>4. Elems(todo') = CountedIn(w, merged)
      <3>1. Elems(Beyond(Survivors, MaxCount)) = BeyondIn(w, Survivors, MaxCount)
        BY <2>1, <2>3, BeyondFound, PolicyAssumption DEF Found
      <3> QED
        BY <2>1, <2>3, <3>1 DEF CountedIn
    <2>5. removed = [p \in Place |-> IF p \in CountedIn(w, merged) THEN ""
                                    ELSE RemovedIn(w, merged)[p]]
      <3>1. CountedIn(w, merged) \cap MergedIn(w, merged) = {}
        BY DEF CountedIn, BeyondIn
      <3> QED
        BY <2>2, <3>1 DEF RemovedIn
    <2>6. StageIs(w)'
      BY <1>0, <2>1, <2>2, <2>4, <2>5 DEF StageIs
    <2> QED
      BY <1>3, <1>4, <2>6 DEF Found
  <1>7. CASE CountPrepared
    <2>1. stage = "count" /\ stage' = "release" /\ todo' = Beyond(Prepared, MaxPrepared)
      BY <1>7 DEF CountPrepared, Enter
    <2>2. removed = RemovedIn(w, merged) /\ released = {}
      <3>1. removed = [p \in Place |-> RemovedIn(w, merged)[p]] /\ released = {}
        BY <1>0, <2>1 DEF Found, StageIs
      <3> QED
        BY <3>1 DEF RemovedIn
    <2>3. Prepared = PreparedIn(w, merged) /\ Prepared \in SUBSET Candidates
      <3>1. \A p \in Candidates : entry[p].env = w[p].env
        BY <1>1, SeenFields
      <3> QED
        BY <1>1, <2>2, <3>1 DEF Prepared, PreparedIn
    <2>4. Elems(todo') = BeyondPrepared(w, merged)
      <3>1. Elems(Beyond(Prepared, MaxPrepared)) = BeyondIn(w, Prepared, MaxPrepared)
        BY <2>1, <2>3, BeyondFound, PolicyAssumption DEF Found
      <3> QED
        BY <2>1, <2>3, <3>1 DEF BeyondPrepared
    <2>5. released' = ReleasedIn(w, merged) \ Elems(todo')
      BY <1>0, <2>2, <2>4 DEF ReleasedIn
    <2>6. StageIs(w)'
      BY <1>0, <2>1, <2>2, <2>4, <2>5 DEF StageIs
    <2> QED
      BY <1>3, <1>4, <2>6 DEF Found
  <1> QED
    BY <1>5, <1>6, <1>7

\* A stage that leaves the checkout at hand alone, because it is not one that a
\* cleaning of what was found removes or releases.
LEMMA LeaveFound ==
    ASSUME TypeOK, StageOK, NEW w \in Checkouts, Found(w),
           NotMerged \/ RefuseRemoval \/ Retain, acts' = acts
    PROVE  Found(w)'
  <1> USE DEF facts, found
  <1>1. /\ stage \in {"merged", "count", "release"} /\ Done
        /\ UNCHANGED <<wt, merged, stage, dry, entry, removed, released, plan>>
    BY DEF NotMerged, RefuseRemoval, Retain, Removing, At
  <1>2. /\ This \in Place /\ This \in Candidates /\ This \in Elems(todo)
        /\ removed[This] = "" /\ This \notin released
        /\ Elems(todo') = Elems(todo) \ {This}
    BY <1>1, AtHand
  <1>3. WtIs(w) /\ SeenIs(w) /\ StageIs(w) /\ Predicts(w)
    BY DEF Found
  <1>4. /\ wt[This] = w[This] /\ w[This] \in Held
        /\ Excluded(This) <=> ExcludedIn(w, This)
        /\ ~Excluded(This) => ~Protected(This)
        /\ ~Excluded(This) => (Removable(This) <=> RemovableIn(w, This))
        /\ RemovableIn(w, This) => GitRemoves(This)
        /\ This \in MergedIn(w, merged) <=> IsMerged(This) /\ RemovableIn(w, This)
    BY <1>1, <1>2, <1>3, Untouched
  <1>5. RefuseRemoval => ~RemovableIn(w, This)
    <2> SUFFICES ASSUME RefuseRemoval, RemovableIn(w, This) PROVE FALSE
      OBVIOUS
    <2>1. ~Excluded(This) /\ ~Protected(This) /\ Saved(This) /\ GitRemoves(This)
      BY <1>4 DEF Removable, RemovableIn
    <2>2. \A k : Clear(This, k)
      BY <2>1 DEF Clear
    <2>3. ~Unanswered
      BY DEF Unanswered, TypeOK
    <2> QED
      BY <2>1, <2>2, <2>3 DEF RefuseRemoval
  <1>6. checked' = <<>>
    BY <1>4 DEF NotMerged, RefuseRemoval, Retain, Removing, At, StageOK
  <1>7. SeenIs(w)' /\ WtIs(w)' /\ Predicts(w)'
    <2>1. Candidates' = Candidates
      BY <1>1 DEF Candidates
    <2> QED
      BY <1>1, <1>3, <2>1 DEF SeenIs, WtIs, Predicts, ThereIn
  <1>8. CASE stage = "merged"
    <2>1. This \notin MergedIn(w, merged)
      BY <1>4, <1>5, <1>8 DEF NotMerged, Retain, At, RemovableIn
    <2>2. \A p \in Place : p \in MergedIn(w, merged) \ Elems(todo) <=>
                          p \in MergedIn(w, merged) \ Elems(todo')
      BY <1>2, <2>1
    <2>3. StageIs(w)'
      BY <1>1, <1>3, <1>6, <1>8, <2>2 DEF StageIs
    <2> QED
      BY <1>7, <2>3 DEF Found
  <1>9. CASE stage = "count"
    <2>1. ~RemovableIn(w, This)
      BY <1>5, <1>9 DEF NotMerged, Retain, At
    <2>2. RemovedIn(w, merged)[This] = ""
      BY <1>2, <2>1 DEF RemovedIn, MergedIn
    <2>3. Elems(todo') \subseteq CountedIn(w, merged)
      BY <1>2, <1>3, <1>9 DEF StageIs
    <2>4. removed' = [p \in Place |-> IF p \in Elems(todo') THEN "" ELSE RemovedIn(w, merged)[p]]
      BY <1>1, <1>2, <1>3, <1>9, <2>2 DEF StageIs
    <2>5. StageIs(w)'
      BY <1>1, <1>3, <1>6, <1>9, <2>3, <2>4 DEF StageIs
    <2> QED
      BY <1>7, <2>5 DEF Found
  <1>10. CASE stage = "release"
    <2>1. ~Releasable(This)
      BY <1>10 DEF NotMerged, RefuseRemoval, Retain, At, Removing, Unanswered, TypeOK
    <2>2. This \notin ReleasedIn(w, merged)
      <3>1. entry[This].env = w[This].env
        <4>1. entry[This] = SeenIn(w, This)
          BY <1>1, <1>2, <1>3, Untouched
        <4> QED
          BY <4>1, SeenFields
      <3> QED
        BY <1>4, <2>1, <3>1 DEF ReleasedIn, Releasable
    <2>3. Elems(todo') \subseteq BeyondPrepared(w, merged)
      BY <1>2, <1>3, <1>10 DEF StageIs
    <2>4. released' = ReleasedIn(w, merged) \ Elems(todo')
      BY <1>1, <1>2, <1>3, <1>10, <2>2 DEF StageIs
    <2>5. StageIs(w)'
      BY <1>1, <1>3, <1>6, <1>10, <2>3, <2>4 DEF StageIs
    <2> QED
      BY <1>7, <2>5 DEF Found
  <1> QED
    BY <1>1, <1>8, <1>9, <1>10

\* What passes the checks passes them as it was found.
LEMMA CheckFound ==
    ASSUME TypeOK, StageOK, NEW w \in Checkouts, Found(w), CheckRemoval
    PROVE  Found(w)'
  <1> USE DEF facts, found
  <1>1. /\ stage \in {"merged", "count"} /\ ~Excluded(This) /\ Clear(This, Len(checked) + 1)
        /\ checked' = Append(checked, acts)
        /\ UNCHANGED <<wt, merged, acts, stage, dry, entry, todo, removed, released, plan>>
    BY DEF CheckRemoval, Removing, At, NextCheck
  <1>2. todo \in Seq(Place) /\ todo # <<>>
    BY DEF CheckRemoval, Removing, At, TypeOK
  <1>3. This \in Elems(todo) /\ This \in Candidates
    BY <1>2, TailIs DEF TypeOK, StageOK, This
  <1>4. removed[This] = "" /\ This \notin released
    BY <1>1, <1>3 DEF Found, StageIs, Candidates
  <1>5. ~ExcludedIn(w, This) /\ (Saved(This) <=> SavedIn(w, This))
    BY <1>1, <1>3, <1>4, Untouched DEF Found
  <1>6. Len(checked') = Len(checked) + 1 /\ Len(checked) \in Nat
    BY <1>1 DEF TypeOK
  <1>7. Len(checked') >= 2 => SavedIn(w, This)
    <2>1. CASE Len(checked) + 1 = 2
      BY <1>1, <1>5, <2>1 DEF Clear
    <2>2. CASE Len(checked) >= 2
      <3>1. checked # <<>>
        BY <2>2
      <3> QED
        BY <2>2, <3>1 DEF Found, StageIs
    <2> QED
      BY <1>6, <2>1, <2>2
  <1>8. This' = This /\ ExcludedIn(w, This)' = ExcludedIn(w, This) /\ SavedIn(w, This)' = SavedIn(w, This)
    BY <1>1 DEF This, ExcludedIn, SavedIn, ThereIn
  <1>9. StageIs(w)'
    BY <1>1, <1>5, <1>7, <1>8 DEF Found, StageIs
  <1>10. Candidates' = Candidates
    BY <1>1 DEF Candidates
  <1> QED
    BY <1>1, <1>9, <1>10 DEF Found, WtIs, SeenIs, Predicts, ThereIn

\* What is removed is removed for the reason it was found to have.
LEMMA RemoveFound ==
    ASSUME TypeOK, StageOK, NEW w \in Checkouts, Found(w), RemoveCheckout
    PROVE  Found(w)'
  <1> USE DEF facts, found
  <1>1. /\ stage \in {"merged", "count"} /\ Done /\ ~Excluded(This) /\ checked' = <<>>
        /\ stage = "merged" => IsMerged(This)
        /\ removed' = [removed EXCEPT ![This] = stage]
        /\ wt' = IF dry THEN wt ELSE [wt EXCEPT ![This] = None]
        /\ UNCHANGED <<merged, acts, stage, dry, entry, released, plan>>
    BY DEF RemoveCheckout, Removing, At, Marked, MarkedAnyway
  <1>2. /\ This \in Place /\ This \in Candidates /\ This \in Elems(todo)
        /\ removed[This] = "" /\ This \notin released
        /\ Elems(todo') = Elems(todo) \ {This}
    BY <1>1, AtHand
  <1>3. WtIs(w) /\ SeenIs(w) /\ StageIs(w) /\ Predicts(w)
    BY DEF Found
  <1>4. /\ Removable(This) <=> RemovableIn(w, This)
        /\ This \in MergedIn(w, merged) <=> IsMerged(This) /\ RemovableIn(w, This)
    BY <1>1, <1>2, <1>3, Untouched
  <1>5. RemovableIn(w, This)
    <2>1. Len(checked) = 3
      BY DEF RemoveCheckout
    <2>2. checked # <<>> /\ Len(checked) >= 2
      BY <2>1
    <2> QED
      BY <1>3, <2>2 DEF StageIs, RemovableIn
  <1>6. released = {} /\ removed'[This] = stage /\ \A p \in Place \ {This} : removed'[p] = removed[p]
    BY <1>1, <1>2, <1>3 DEF StageIs, TypeOK
  <1>7. WtIs(w)'
    <2>1. CASE dry
      BY <1>1, <1>3, <2>1 DEF WtIs
    <2>2. CASE ~dry
      <3>1. wt'[This] = None /\ \A p \in Place \ {This} : wt'[p] = wt[p]
        BY <1>1, <1>2, <2>2 DEF TypeOK, Checkouts
      <3>2. ASSUME NEW p \in Place
            PROVE  /\ removed'[p] = "" => wt'[p] = w[p]
                   /\ removed'[p] # "" => wt'[p] = None
        <4>1. CASE p = This
          BY <1>1, <1>6, <3>1, <4>1
        <4>2. CASE p # This
          BY <1>3, <1>6, <2>2, <3>1, <4>2 DEF WtIs
        <4> QED
          BY <4>1, <4>2
      <3>3. dry' = dry /\ released' = {}
        BY <1>1, <1>6
      <3> QED
        BY <2>2, <3>2, <3>3 DEF WtIs
    <2> QED
      BY <2>1, <2>2
  <1>8. SeenIs(w)' /\ Predicts(w)'
    <2>1. Candidates' = Candidates
      BY <1>1 DEF Candidates
    <2> QED
      BY <1>1, <1>3, <2>1 DEF SeenIs, Predicts, ThereIn
  <1>9. removed' \in [Place -> {"", "merged", "count"}]
    BY <1>1, <1>2 DEF TypeOK, Reason
  <1>10. CASE stage = "merged"
    <2>1. This \in MergedIn(w, merged)
      BY <1>1, <1>4, <1>5, <1>10
    <2>2. \A p \in Place : removed'[p] = IF p \in MergedIn(w, merged) \ Elems(todo') THEN "merged" ELSE ""
      <3> SUFFICES ASSUME NEW p \in Place
                   PROVE  removed'[p] = IF p \in MergedIn(w, merged) \ Elems(todo') THEN "merged" ELSE ""
        OBVIOUS
      <3>1. CASE p = This
        BY <1>2, <1>6, <1>10, <2>1, <3>1
      <3>2. CASE p # This
        BY <1>2, <1>3, <1>6, <1>10, <3>2 DEF StageIs
      <3> QED
        BY <3>1, <3>2
    <2>3. removed' = [p \in Place |-> IF p \in MergedIn(w, merged) \ Elems(todo') THEN "merged" ELSE ""]
      BY <1>9, <2>2
    <2>4. StageIs(w)'
      BY <1>1, <1>6, <1>10, <2>3 DEF StageIs
    <2> QED
      BY <1>7, <1>8, <2>4 DEF Found
  <1>11. CASE stage = "count"
    <2>1. This \in CountedIn(w, merged) /\ This \notin MergedIn(w, merged)
      BY <1>2, <1>3, <1>11 DEF StageIs, CountedIn, BeyondIn
    <2>2. RemovedIn(w, merged)[This] = "count"
      BY <1>2, <1>5, <2>1 DEF RemovedIn
    <2>3. \A p \in Place : removed'[p] = IF p \in Elems(todo') THEN "" ELSE RemovedIn(w, merged)[p]
      <3> SUFFICES ASSUME NEW p \in Place
                   PROVE  removed'[p] = IF p \in Elems(todo') THEN "" ELSE RemovedIn(w, merged)[p]
        OBVIOUS
      <3>1. CASE p = This
        BY <1>2, <1>6, <1>11, <2>2, <3>1
      <3>2. CASE p # This
        BY <1>2, <1>3, <1>6, <1>11, <3>2 DEF StageIs
      <3> QED
        BY <3>1, <3>2
    <2>4. removed' = [p \in Place |-> IF p \in Elems(todo') THEN "" ELSE RemovedIn(w, merged)[p]]
      BY <1>9, <2>3
    <2>5. Elems(todo') \subseteq CountedIn(w, merged)
      BY <1>2, <1>3, <1>11 DEF StageIs
    <2>6. StageIs(w)'
      BY <1>1, <1>6, <1>11, <2>4, <2>5 DEF StageIs
    <2> QED
      BY <1>7, <1>8, <2>6 DEF Found
  <1> QED
    BY <1>1, <1>10, <1>11

\* What is released is an environment that was found to be RepoKit's.
LEMMA ReleaseFound ==
    ASSUME TypeOK, StageOK, NEW w \in Checkouts, Found(w), ReleaseEnvironments
    PROVE  Found(w)'
  <1> USE DEF facts, found
  <1>1. /\ stage = "release" /\ Done /\ Releasable(This) /\ released' = released \cup {This}
        /\ wt' = IF dry THEN wt ELSE [wt EXCEPT ![This].env = "none"]
        /\ UNCHANGED <<merged, acts, stage, dry, entry, checked, removed, plan>>
    BY DEF ReleaseEnvironments, At
  <1>2. /\ This \in Place /\ This \in Candidates /\ This \in Elems(todo)
        /\ removed[This] = "" /\ This \notin released
        /\ Elems(todo') = Elems(todo) \ {This}
    BY <1>1, AtHand
  <1>3. WtIs(w) /\ SeenIs(w) /\ StageIs(w) /\ Predicts(w)
    BY DEF Found
  <1>4. /\ wt[This] = w[This]
        /\ Excluded(This) <=> ExcludedIn(w, This)
    BY <1>1, <1>2, <1>3, Untouched
  <1>5. checked = <<>> /\ checked' = <<>>
    BY <1>1 DEF StageOK, Removing, At
  <1>6. This \in ReleasedIn(w, merged)
    BY <1>1, <1>2, <1>3, <1>4 DEF ReleasedIn, Releasable, StageIs
  <1>7. WtIs(w)'
    <2>1. CASE dry
      BY <1>1, <1>3, <2>1 DEF WtIs
    <2>2. CASE ~dry
      <3>1. /\ wt'[This] = [w[This] EXCEPT !.env = "none"]
            /\ \A p \in Place \ {This} : wt'[p] = wt[p]
        BY <1>1, <1>2, <1>4, <2>2 DEF TypeOK, Checkouts
      <3>2. ASSUME NEW p \in Place
            PROVE  /\ removed'[p] = "" /\ p \notin released' => wt'[p] = w[p]
                   /\ removed'[p] # "" => wt'[p] = None
                   /\ removed'[p] = "" /\ p \in released' => wt'[p] = [w[p] EXCEPT !.env = "none"]
        <4>1. CASE p = This
          BY <1>1, <1>2, <3>1, <4>1
        <4>2. CASE p # This
          BY <1>1, <1>3, <2>2, <3>1, <4>2 DEF WtIs
        <4> QED
          BY <4>1, <4>2
      <3> QED
        BY <1>1, <2>2, <3>2 DEF WtIs
    <2> QED
      BY <2>1, <2>2
  <1>8. SeenIs(w)' /\ Predicts(w)'
    <2>1. Candidates' = Candidates
      BY <1>1 DEF Candidates
    <2> QED
      BY <1>1, <1>3, <2>1 DEF SeenIs, Predicts, ThereIn
  <1>9. /\ Elems(todo') \subseteq BeyondPrepared(w, merged)
        /\ released' = ReleasedIn(w, merged) \ Elems(todo')
    BY <1>1, <1>2, <1>3, <1>6 DEF StageIs
  <1>10. StageIs(w)'
    BY <1>1, <1>3, <1>5, <1>9 DEF StageIs
  <1> QED
    BY <1>7, <1>8, <1>10 DEF Found

\* A cleaning begins with what is there, and what a dry run predicted of it.
LEMMA BeginFound ==
    ASSUME TypeOK, StageOK, CalmOK, NEW d \in BOOLEAN, BeginCleaning(d)
    PROVE  CalmOK'
  <1> USE DEF facts, found
  <1>1. /\ stage = "idle" /\ checked = <<>> /\ checked' = <<>> /\ stage' = "observe"
        /\ removed' = [p \in Place |-> ""] /\ released' = {}
        /\ UNCHANGED <<wt, merged, acts, plan>>
    BY DEF BeginCleaning, StageOK, Removing, At
  <1>2. PICK w \in Checkouts : w = wt
    BY DEF TypeOK
  <1>3. WtIs(w)'
    BY <1>1, <1>2 DEF WtIs
  <1>4. SeenIs(w)'
    <2>1. /\ Candidates' = {p \in Place : There(p)} /\ Elems(todo') = Candidates'
          /\ \A p \in Candidates' : /\ entry'[p].head = wt[p].head
                                /\ entry'[p].detached = Detached(p)
      BY BeginIs
    <2> QED
      BY <1>1, <1>2, <2>1 DEF SeenIs, ThereIn, There, Detached
  <1>5. StageIs(w)'
    BY <1>1 DEF StageIs
  <1>6. Predicts(w)'
    <2>1. Predicts(w)
      BY <1>1, <1>2 DEF CalmOK
    <2> QED
      BY <1>1, <2>1 DEF Predicts
  <1> QED
    BY <1>1, <1>3, <1>4, <1>5, <1>6 DEF CalmOK, Found

\* What a dry run leaves behind is what a cleaning of the same checkouts does.
LEMMA FinishFound == ASSUME TypeOK, StageOK, CalmOK, EndCleaning PROVE CalmOK'
  <1> USE DEF facts, found
  <1>1. /\ stage = "release" /\ stage' = "idle" /\ todo = <<>> /\ Elems(todo) = {}
        /\ plan' = IF dry THEN [acts |-> since, removed |-> removed, released |-> released] ELSE NoPlan
        /\ UNCHANGED <<wt, merged, acts>>
    <2>1. todo = <<>>
      BY DEF EndCleaning, Enter
    <2>2. Elems(todo) = {}
      BY <2>1 DEF Elems
    <2> QED
      BY <2>1, <2>2 DEF EndCleaning, Enter
  <1>2. SUFFICES ASSUME plan'.acts = acts
                 PROVE  /\ plan'.removed = RemovedIn(wt, merged)
                        /\ plan'.released = ReleasedIn(wt, merged)
    BY <1>1 DEF CalmOK, Predicts
  <1>3. dry
    <2>1. NoPlan.acts = MaxActs + 1
      BY DEF NoPlan
    <2>2. acts \in Nat /\ MaxActs \in Nat /\ acts <= MaxActs
      BY BoundAssumption DEF TypeOK, StageOK
    <2> QED
      BY <1>1, <1>2, <2>1, <2>2
  <1>4. plan' = [acts |-> since, removed |-> removed, released |-> released]
    BY <1>1, <1>3
  <1>5. since = acts
    BY <1>2, <1>4
  <1>6. PICK w \in Checkouts : Found(w)
    BY <1>1, <1>5 DEF CalmOK, Calm
  <1>7. wt = w
    <2>1. \A p \in Place : wt[p] = w[p]
      BY <1>3, <1>6 DEF Found, WtIs
    <2> QED
      BY <2>1 DEF TypeOK, Checkouts
  <1>8. removed = RemovedIn(w, merged) /\ released = ReleasedIn(w, merged)
    BY <1>1, <1>6 DEF Found, StageIs
  <1> QED
    BY <1>4, <1>7, <1>8

\* An act ends the calm and outdates the prediction.
LEMMA ActEnds ==
    ASSUME TypeOK, StageOK, Unanswered \/ Act, UNCHANGED <<since, plan>>
    PROVE  CalmOK'
  <1>1. /\ acts \in Nat /\ since \in Nat /\ since <= acts /\ acts < MaxActs /\ MaxActs \in Nat
        /\ acts' = acts + 1 /\ plan.acts \in Nat /\ (plan.acts <= acts \/ plan.acts = MaxActs + 1)
    BY BoundAssumption DEF TypeOK, StageOK, Plan, Unanswered, Act
  <1>2. since' # acts' /\ plan'.acts # acts'
    BY <1>1
  <1> QED
    BY <1>2 DEF CalmOK, Calm, Predicts

\* Every step of a cleaning but its first and last.
LEMMA StepCalm == TypeOK /\ StageOK /\ CalmOK /\ [RetentionNext]_retentionVars => CalmOK'
  <1> SUFFICES ASSUME TypeOK, StageOK, CalmOK, [RetentionNext]_retentionVars PROVE CalmOK'
    OBVIOUS
  <1> USE DEF facts, found
  <1>1. ASSUME NEW d \in BOOLEAN, BeginCleaning(d) PROVE CalmOK'
    BY <1>1, BeginFound
  <1>2. CASE EndCleaning
    BY <1>2, FinishFound
  <1>3. ASSUME NEW p \in Place, User(p) PROVE CalmOK'
    BY <1>3, UserActs, ActEnds DEF Act
  <1>4. ASSUME stage # "idle", stage' # "idle", UNCHANGED <<acts, since>>,
               \A w \in Checkouts : Found(w) => Found(w)'
        PROVE  CalmOK'
    <2>1. SUFFICES ASSUME Calm' PROVE \E w \in Checkouts : Found(w)'
      BY <1>4 DEF CalmOK
    <2>2. PICK w \in Checkouts : Found(w)
      BY <1>4, <2>1 DEF CalmOK, Calm
    <2> QED
      BY <1>4, <2>2
  <1>5. CASE Observe
    <2>1. stage # "idle" /\ stage' # "idle" /\ UNCHANGED <<since, plan>> /\ (acts' = acts \/ Unanswered)
      BY <1>5 DEF Observe, At
    <2> QED
      BY <1>4, <1>5, <2>1, ObserveFound, ActEnds
  <1>6. CASE Observed \/ Count \/ CountPrepared
    <2>1. stage # "idle" /\ stage' # "idle" /\ UNCHANGED <<since, plan>> /\ (acts' = acts \/ Unanswered)
      BY <1>6 DEF Observed, Count, CountPrepared, Enter
    <2> QED
      BY <1>4, <1>6, <2>1, EnterFound, ActEnds
  <1>7. CASE NotMerged \/ RefuseRemoval \/ Retain
    <2>1. stage # "idle" /\ stage' # "idle" /\ UNCHANGED <<since, plan>> /\ (acts' = acts \/ Unanswered)
      BY <1>7 DEF NotMerged, RefuseRemoval, Retain, At, Removing
    <2> QED
      BY <1>4, <1>7, <2>1, LeaveFound, ActEnds
  <1>8. CASE AskFails
    BY <1>8, ActEnds DEF AskFails
  <1>9. CASE CheckRemoval
    <2>1. stage # "idle" /\ stage' # "idle" /\ UNCHANGED <<acts, since>>
      BY <1>9 DEF CheckRemoval, Removing, At
    <2> QED
      BY <1>4, <1>9, <2>1, CheckFound
  <1>10. CASE RemoveCheckout
    <2>1. stage # "idle" /\ stage' # "idle" /\ UNCHANGED <<acts, since>>
      BY <1>10 DEF RemoveCheckout, Removing, At
    <2> QED
      BY <1>4, <1>10, <2>1, RemoveFound
  <1>11. CASE ReleaseEnvironments
    <2>1. stage # "idle" /\ stage' # "idle" /\ UNCHANGED <<acts, since>>
      BY <1>11 DEF ReleaseEnvironments, At
    <2> QED
      BY <1>4, <1>11, <2>1, ReleaseFound
  <1>12. CASE UNCHANGED retentionVars
    <2>1. UNCHANGED <<wt, merged, acts, stage, dry, since, entry, todo, checked, removed, released, plan>>
      BY <1>12 DEF retentionVars
    <2>2. CASE stage = "idle"
      BY <2>1, <2>2 DEF CalmOK, Predicts
    <2>3. CASE stage # "idle"
      <3>1. ASSUME NEW w \in Checkouts, Found(w) PROVE Found(w)'
        <4>1. Candidates' = Candidates /\ This' = This
          BY <2>1 DEF Candidates, This
        <4>2. WtIs(w)'
          BY <2>1, <3>1 DEF Found, WtIs
        <4>3. SeenIs(w)'
          BY <2>1, <3>1, <4>1 DEF Found, SeenIs, ThereIn
        <4>4. ExcludedIn(w, This)' = ExcludedIn(w, This) /\ SavedIn(w, This)' = SavedIn(w, This)
          BY <4>1 DEF ExcludedIn, SavedIn, ThereIn
        <4>5. StageIs(w)'
          BY <2>1, <3>1, <4>4 DEF Found, StageIs
        <4> QED
          BY <2>1, <3>1, <4>2, <4>3, <4>5 DEF Found, Predicts
      <3> QED
        BY <1>4, <2>1, <2>3, <3>1
    <2> QED
      BY <2>2, <2>3
  <1> QED
    BY <1>1, <1>2, <1>3, <1>5, <1>6, <1>7, <1>8, <1>9, <1>10, <1>11, <1>12 DEF RetentionNext, Clean

\* If nobody interferes, what a cleaning leaves and could have removed or
\* released is within the limits.
LEMMA CalmReaches == IInv => LimitsReached
  <1> SUFFICES ASSUME IInv, AtEnd, ~dry, Calm, NEW p \in Place, There(p), ~Excluded(p)
               PROVE  /\ Saved(p) => Cardinality({q \in Place : There(q) /\ Older(p, q)}) < MaxCount
                      /\ wt[p].env = "managed" =>
                            Cardinality({q \in Place : There(q) /\ wt[q].env # "none" /\ Older(p, q)})
                               < MaxPrepared
    BY DEF LimitsReached
  <1> USE DEF IInv
  <1>1. stage = "release" /\ todo = <<>> /\ Elems(todo) = {}
    <2>1. todo = <<>>
      BY DEF AtEnd
    <2>2. Elems(todo) = {}
      BY <2>1 DEF Elems
    <2> QED
      BY <2>1, <2>2 DEF AtEnd
  <1>2. PICK w \in Checkouts : Found(w)
    BY <1>1 DEF CalmOK
  <1>3. removed = RemovedIn(w, merged) /\ released = ReleasedIn(w, merged)
    BY <1>1, <1>2 DEF Found, StageIs
  <1>4. Candidates = ThereIn(w) /\ \A q \in Candidates : entry[q] = SeenIn(w, q)
    BY <1>1, <1>2 DEF Found, SeenIs
  <1>5. \A q \in Place : There(q) =>
            /\ q \in ThereIn(w) /\ removed[q] = ""
            /\ wt[q] = w[q] \/ (q \in released /\ wt[q] = [w[q] EXCEPT !.env = "none"])
    <2> SUFFICES ASSUME NEW q \in Place, There(q)
                 PROVE  /\ q \in ThereIn(w) /\ removed[q] = ""
                        /\ wt[q] = w[q] \/ (q \in released /\ wt[q] = [w[q] EXCEPT !.env = "none"])
      OBVIOUS
    <2>1. removed[q] = ""
      BY <1>2 DEF Found, WtIs, There
    <2>2. wt[q] = w[q] \/ (q \in released /\ wt[q] = [w[q] EXCEPT !.env = "none"])
      BY <1>2, <2>1 DEF Found, WtIs
    <2>3. released \subseteq ThereIn(w)
      BY <1>3 DEF ReleasedIn, BeyondPrepared, BeyondIn, PreparedIn
    <2>4. q \in ThereIn(w)
      BY <2>2, <2>3 DEF There, ThereIn
    <2> QED
      BY <2>1, <2>2, <2>4
  <1>6. \A q \in Candidates : Older(p, q) <=> OlderIn(w, p, q)
    <2>1. \A q \in Candidates : entry[q].created = w[q].created
      BY <1>4, SeenFields
    <2> QED
      BY <1>4, <1>5, <2>1 DEF Older, OlderIn
  <1>7. p \in Candidates /\ w[p] \in Held /\ removed[p] = ""
    BY <1>4, <1>5 DEF ThereIn, Checkouts
  <1>8. ~ExcludedIn(w, p) /\ entry[p].env = w[p].env
    <2>1. /\ entry[p] = SeenIn(w, p) /\ SeenIn(w, p).env = w[p].env
          /\ SeenIn(w, p).excluded <=> ExcludedIn(w, p)
      BY <1>4, <1>7, SeenFields, Zenon
    <2> QED
      BY <2>1, Zenon DEF Excluded
  <1>9. IsFiniteSet(ThereIn(w)) /\ MaxCount \in Nat /\ MaxPrepared \in Nat
    <2>1. ThereIn(w) \in SUBSET Place
      BY DEF ThereIn
    <2> QED
      BY <2>1, PathAssumption, PolicyAssumption, FS_Subset
  <1>10. ASSUME NEW S \in SUBSET ThereIn(w), NEW n \in Nat, p \in S, p \notin BeyondIn(w, S, n),
                NEW U, \A q \in U : q \in S /\ OlderIn(w, p, q)
         PROVE  Cardinality(U) < n
    <2> DEFINE T == {q \in S : OlderIn(w, p, q)}
    <2>1. ~(Cardinality(T) >= n)
      BY <1>10 DEF BeyondIn
    <2>2. IsFiniteSet(T)
      BY <1>9, FS_Subset
    <2>3. U \in SUBSET T
      BY <1>10
    <2> HIDE DEF T
    <2>4. IsFiniteSet(U) /\ Cardinality(U) <= Cardinality(T)
      BY <2>2, <2>3, FS_Subset
    <2>5. Cardinality(U) \in Nat /\ Cardinality(T) \in Nat
      BY <2>2, <2>4, FS_CardinalityType
    <2> QED
      BY <2>1, <2>4, <2>5
  <1>11. ASSUME Saved(p) PROVE Cardinality({q \in Place : There(q) /\ Older(p, q)}) < MaxCount
    <2> DEFINE S == ThereIn(w) \ MergedIn(w, merged)
               U == {q \in Place : There(q) /\ Older(p, q)}
    <2>1. SavedIn(w, p)
      <3>1. w[p].state \notin {"dirty", "ignored"}
        BY <1>5, <1>7, <1>11 DEF Saved, SavedAll, Held
      <3>2. w[p].env # "unmanaged"
        <4>1. CASE wt[p] = w[p]
          BY <1>8, <1>11, <4>1 DEF Saved, SavedAll
        <4>2. CASE p \in released
          BY <1>3, <4>2 DEF ReleasedIn
        <4> QED
          BY <1>5, <4>1, <4>2
      <3> QED
        BY <3>1, <3>2 DEF SavedIn
    <2>2. p \in S /\ p \notin CountedIn(w, merged)
      BY <1>3, <1>5, <1>7, <1>8, <2>1 DEF RemovedIn, RemovableIn
    <2>3. \A q \in U : q \in S /\ OlderIn(w, p, q)
      <3> SUFFICES ASSUME NEW q \in Place, There(q), Older(p, q)
                   PROVE  q \in S /\ OlderIn(w, p, q)
        OBVIOUS
      <3>1. q \in ThereIn(w) /\ removed[q] = ""
        BY <1>5
      <3>2. q \notin MergedIn(w, merged)
        BY <1>3, <3>1 DEF RemovedIn
      <3> QED
        BY <1>4, <1>6, <3>1, <3>2
    <2> HIDE DEF U, S
    <2>4. S \in SUBSET ThereIn(w) /\ p \notin BeyondIn(w, S, MaxCount)
      BY <2>2 DEF S, CountedIn
    <2>5. Cardinality(U) < MaxCount
      BY <1>9, <1>10, <2>2, <2>3, <2>4
    <2> QED
      BY <2>5 DEF U
  <1>12. ASSUME wt[p].env = "managed"
         PROVE  Cardinality({q \in Place : There(q) /\ wt[q].env # "none" /\ Older(p, q)}) < MaxPrepared
    <2> DEFINE S == PreparedIn(w, merged)
               U == {q \in Place : There(q) /\ wt[q].env # "none" /\ Older(p, q)}
    <2>0. \A q \in Place : There(q) /\ wt[q].env # "none" => wt[q] = w[q]
      <3> SUFFICES ASSUME NEW q \in Place, There(q), wt[q].env # "none", wt[q] # w[q] PROVE FALSE
        OBVIOUS
      <3>1. wt[q] = [w[q] EXCEPT !.env = "none"] /\ q \in ThereIn(w)
        BY <1>5
      <3>2. w[q] \in Held
        BY <3>1 DEF ThereIn, Checkouts
      <3> QED
        BY <3>1, <3>2 DEF Held
    <2>1. w[p].env = "managed"
      BY <1>12, <2>0
    <2>2. p \in S
      BY <1>3, <1>5, <1>7, <2>1 DEF PreparedIn
    <2>3. p \notin released
      <3>1. p \in released => wt[p] = [w[p] EXCEPT !.env = "none"]
        BY <1>2, <1>7 DEF Found, WtIs
      <3> QED
        BY <1>7, <1>12, <3>1 DEF Held
    <2>4. p \notin BeyondIn(w, S, MaxPrepared)
      BY <1>3, <1>8, <2>1, <2>3 DEF ReleasedIn, BeyondPrepared
    <2>5. \A q \in U : q \in S /\ OlderIn(w, p, q)
      <3> SUFFICES ASSUME NEW q \in Place, There(q), wt[q].env # "none", Older(p, q)
                   PROVE  q \in S /\ OlderIn(w, p, q)
        OBVIOUS
      <3>1. q \in ThereIn(w) /\ removed[q] = "" /\ w[q].env # "none"
        BY <1>5, <2>0
      <3> QED
        BY <1>3, <1>4, <1>6, <3>1 DEF PreparedIn
    <2>6. S \in SUBSET ThereIn(w)
      BY DEF PreparedIn
    <2> HIDE DEF U, S
    <2>7. Cardinality(U) < MaxPrepared
      BY <1>9, <1>10, <2>2, <2>4, <2>5, <2>6
    <2> QED
      BY <2>7 DEF U
  <1> QED
    BY <1>11, <1>12

\* A cleaning in calm does what was predicted in the same calm.
LEMMA CalmPredicts == IInv => DryRunPredicts
  <1> SUFFICES ASSUME IInv, AtEnd, ~dry, Calm, plan.acts = acts
               PROVE  removed = plan.removed /\ released = plan.released
    BY DEF DryRunPredicts
  <1>1. stage = "release" /\ Elems(todo) = {}
    BY DEF AtEnd, Elems
  <1>2. PICK w \in Checkouts : Found(w)
    BY <1>1 DEF IInv, CalmOK
  <1>3. removed = RemovedIn(w, merged) /\ released = ReleasedIn(w, merged)
    BY <1>1, <1>2 DEF Found, StageIs
  <1>4. plan.removed = RemovedIn(w, merged) /\ plan.released = ReleasedIn(w, merged)
    BY <1>2 DEF Found, Predicts
  <1> QED
    BY <1>3, <1>4

-----------------------------------------------------------------------------
(* What a cleaning promises.                                               *)

\* Nothing has been listed, removed or predicted at first.
LEMMA InitHolds == RetentionInit => IInv
  <1> SUFFICES ASSUME RetentionInit PROVE IInv
    OBVIOUS
  <1>0. /\ todo = <<>> /\ acts = 0 /\ since = 0 /\ plan = NoPlan /\ stage = "idle" /\ checked = <<>>
        /\ MaxActs \in Nat
    BY BoundAssumption DEF RetentionInit
  <1>1. wt \in Checkouts
    <2>1. [state : {"clean"}, at : {0}, head : {0}, created : 0..1, env : {"none", "managed"}] \subseteq Held
      BY DEF Held, State, Env
    <2> QED
      BY <2>1 DEF RetentionInit, Checkouts
  <1>2. NoPlan \in Plan /\ NoPlan.acts = MaxActs + 1
    <2>1. MaxActs + 1 \in Nat
      BY BoundAssumption
    <2>2. [p \in Place |-> ""] \in [Place -> Reason]
      BY DEF Reason
    <2>3. {} \in SUBSET Place
      OBVIOUS
    <2> QED
      BY ONLY <2>1, <2>2, <2>3 DEF NoPlan, Plan
  <1>3. TypeOK
    <2>1. todo \in Seq(Place) /\ Distinct(todo)
      BY <1>0 DEF Distinct
    <2>2. removed \in [Place -> Reason] /\ entry \in [Place -> Known \cup {None}]
      BY DEF RetentionInit, Reason
    <2>3. checked \in Seq(Nat)
      BY <1>0
    <2> QED
      BY <1>1, <1>2, <2>1, <2>2, <2>3 DEF RetentionInit, TypeOK, Stage
  <1>4. StageOK
    <2>1. Elems(todo) = {}
      BY <1>0 DEF Elems
    <2> QED
      BY <1>0, <1>2, <2>1 DEF StageOK
  <1>5. KeptOK
    <2>1. Kept({})
      BY DEF RetentionInit, Kept
    <2> QED
      BY <2>1 DEF RetentionInit, KeptOK
  <1>6. CalmOK
    <2>1. plan.acts # acts
      BY <1>0, <1>2
    <2> QED
      BY <1>0, <2>1 DEF CalmOK, Predicts
  <1>7. CheckedOK
    BY <1>0 DEF CheckedOK
  <1> QED
    BY <1>3, <1>4, <1>5, <1>6, <1>7 DEF IInv

\* The invariant of the cleaning, of what it keeps and of what it does in calm.
THEOREM Invariant == RetentionSpec => []IInv
  <1>1. IInv /\ [RetentionNext]_retentionVars => IInv'
    BY StepType, StepStage, StepKept, StepCalm, StepChecked DEF IInv
  <1> QED
    BY <1>1, InitHolds, PTL DEF RetentionSpec

\* What is removed for the count is older than as many others, which are kept,
\* and if nobody interferes nothing removable beyond the limits is left
\* (clean.go, CleanWorktrees).
THEOREM LimitsHold == RetentionSpec => []RetentionIsExact
  <1>1. IInv => RetentionIsExact
    BY KeptNewest, CalmReaches DEF IInv, RetentionIsExact
  <1> QED
    BY <1>1, Invariant, PTL

\* If nobody interferes, a cleaning removes and releases what the dry run before
\* it said it would (docs/worktrees.md:79).
THEOREM PredictionHolds == RetentionSpec => []DryRunPredicts
  BY CalmPredicts, Invariant, PTL

\* A removal deletes no unsaved work that was there when its checks last looked
\* for such work, whatever users do between them (clean.go:190-214).
THEOREM WorkIsKept == RetentionSpec => SeenWorkKept
  <1>1. IInv /\ [RetentionNext]_retentionVars =>
            [\A p \in Place : Deletes(p) /\ Irreplaceable(p) =>
                wt[p].at > checked[LooksFor(wt[p].state)]]_retentionVars
    BY StepRemoves DEF IInv
  <1> QED
    BY <1>1, Invariant, PTL DEF RetentionSpec, SeenWorkKept

\* A checkout is removed for its pull request only if its head was the merged one
\* when the last check compared it (clean.go, MergedPullRequest).
THEOREM MergedHeads == RetentionSpec => MergedHeadOnly
  <1>1. IInv /\ [RetentionNext]_retentionVars =>
            [\A p \in Place : removed'[p] = "merged" /\ removed[p] = "" /\ There(p) =>
                p \in merged /\ (wt[p].head = 0 \/ wt[p].head > checked[3])]_retentionVars
    BY StepRemoves DEF IInv
  <1> QED
    BY <1>1, Invariant, PTL DEF RetentionSpec, MergedHeadOnly
=============================================================================
