--------------------------- MODULE PooledStreamsProofs ---------------------------
(***************************************************************************)
(* Proofs about PooledStreams for every pool, every set of clients and     *)
(* every bound: type correctness (the persisted priorities follow the      *)
(* order, and no breaker or retry counter runs past its limit), the        *)
(* fairness of round robin, and that only an empty pool is reported as     *)
(* exhausted.                                                              *)
(*                                                                         *)
(* The invariant behind the fairness: whoever was picked since k's last    *)
(* turn now scans behind k.                                                *)
(***************************************************************************)
EXTENDS PooledStreams, FiniteSetTheorems, SequenceTheorems, TLAPS

N == Len(Entries)

\* An order of the pool: every entry has exactly one place.
Ordered(o) == /\ o \in Seq(Keys) /\ Len(o) = N
              /\ \A i, j \in 1 .. N : o[i] = o[j] => i = j
              /\ \A k \in Keys : \E i \in 1 .. N : o[i] = k

Sound(p) == /\ p \in [order : Seq(Keys), rank : [Keys -> Nat],
                      status : [Keys -> {"ok", "exhausted"}], rest : [Keys -> Nat]]
            /\ Ordered(p.order)
            /\ p.rank = RankIn(p.order)

\* Who was picked since x's last turn now scans behind x, and was picked once.
Fair(p, t) == \A x, j \in Keys :
                 \/ t[x][j] = 0
                 \/ t[x][j] = 1 /\ PositionIn(p.order, x) < PositionIn(p.order, j)

\* A client that got past its circuit has not tripped it, and one that pauses
\* has an attempt left.
Bounded == \A c \in Clients :
              /\ tripped[c] <=> fails[c] = MaxTimeouts
              /\ pc[c] \in {"ready", "waiting", "reselect", "probing", "backoff"} => ~tripped[c]
              /\ pc[c] = "pause" => attempt[c] < MaxAttempts - 1

-----------------------------------------------------------------------------
(* Sequences and the order of the pool.                                      *)

LEMMA RemoveAtFacts ==
    ASSUME NEW S, NEW s \in Seq(S), NEW i \in 1 .. Len(s)
    PROVE  /\ RemoveAt(s, i) \in Seq(S)
           /\ Len(RemoveAt(s, i)) = Len(s) - 1
           /\ \A k \in 1 .. Len(s) - 1 : RemoveAt(s, i)[k] = IF k < i THEN s[k] ELSE s[k + 1]
<1> DEFINE n == Len(s)
           p == SubSeq(s, 1, i - 1)
           q == SubSeq(s, i + 1, n)
<1>1. n \in Nat /\ i \in Nat /\ 1 <= i /\ i <= n /\ i - 1 \in Int /\ i + 1 \in Int /\ n \in Int
  OBVIOUS
<1>2. \A k \in 1 .. n : s[k] \in S
  OBVIOUS
<1>3. (\A k \in 1 .. i - 1 : s[k] \in S) /\ (\A k \in i + 1 .. n : s[k] \in S)
  <2> HIDE DEF n
  <2> QED BY <1>1, <1>2
<1>4. /\ p \in Seq(S) /\ Len(p) = IF 1 <= i - 1 THEN (i - 1) - 1 + 1 ELSE 0
      /\ \A k \in 1 .. (i - 1) - 1 + 1 : p[k] = s[1 + k - 1]
  <2> HIDE DEF n
  <2> QED BY <1>1, <1>3, SubSeqProperties
<1>5. /\ q \in Seq(S) /\ Len(q) = IF i + 1 <= n THEN n - (i + 1) + 1 ELSE 0
      /\ \A k \in 1 .. n - (i + 1) + 1 : q[k] = s[(i + 1) + k - 1]
  <2> HIDE DEF n
  <2> QED BY <1>1, <1>3, SubSeqProperties
<1> HIDE DEF n, p, q
<1>6. Len(p) = i - 1 /\ \A k \in 1 .. i - 1 : p[k] = s[k]
  <2>1. Len(p) = i - 1 /\ (i - 1) - 1 + 1 = i - 1
    BY <1>1, <1>4
  <2>2. \A k \in 1 .. i - 1 : 1 + k - 1 = k
    OBVIOUS
  <2> QED BY <1>4, <2>1, <2>2
<1>7. Len(q) = n - i /\ \A k \in 1 .. n - i : q[k] = s[i + k]
  <2>1. Len(q) = n - i /\ n - (i + 1) + 1 = n - i
    BY <1>1, <1>5
  <2>2. \A k \in 1 .. n - i : (i + 1) + k - 1 = i + k
    BY <1>1
  <2> QED BY <1>5, <2>1, <2>2
<1>8. /\ p \o q \in Seq(S) /\ Len(p \o q) = Len(p) + Len(q)
      /\ \A k \in 1 .. Len(p) + Len(q) : (p \o q)[k] = IF k <= Len(p) THEN p[k] ELSE q[k - Len(p)]
  BY <1>4, <1>5, ConcatProperties
<1> DEFINE t == p \o q
<1>9. /\ t \in Seq(S) /\ Len(t) = Len(p) + Len(q)
      /\ \A k \in 1 .. Len(p) + Len(q) : t[k] = IF k <= Len(p) THEN p[k] ELSE q[k - Len(p)]
  BY <1>8
<1> HIDE DEF t
<1>10. Len(t) = n - 1
  BY <1>1, <1>6, <1>7, <1>9
<1>11. ASSUME NEW k \in 1 .. n - 1 PROVE t[k] = IF k < i THEN s[k] ELSE s[k + 1]
  <2>1. k \in 1 .. Len(p) + Len(q) /\ k \in Nat
    BY <1>1, <1>6, <1>7
  <2>2. t[k] = IF k <= Len(p) THEN p[k] ELSE q[k - Len(p)]
    BY <1>9, <2>1
  <2>3. CASE k < i
    <3>1. k <= Len(p) /\ k \in 1 .. i - 1
      BY <1>1, <1>6, <2>1, <2>3
    <3> QED BY <1>6, <2>2, <2>3, <3>1
  <2>4. CASE ~ (k < i)
    <3>1. ~ (k <= Len(p)) /\ k - Len(p) \in 1 .. n - i /\ i + (k - Len(p)) = k + 1
      BY <1>1, <1>6, <2>1, <2>4
    <3>2. q[k - Len(p)] = s[i + (k - Len(p))]
      BY <1>7, <3>1
    <3> QED BY <2>2, <2>4, <3>1, <3>2
  <2> QED BY <2>3, <2>4
<1>12. RemoveAt(s, i) = t
  BY DEF RemoveAt, t, p, q, n
<1> QED BY <1>9, <1>10, <1>11, <1>12 DEF n

LEMMA LeastNat ==
    ASSUME NEW S, S \subseteq Nat, S # {}
    PROVE  \E n \in S : \A m \in S : n <= m
<1> DEFINE R == OpToRel(<, Nat)
<1>1. \A x, y \in Nat : <<x, y>> \in R <=> x < y
  BY DEF OpToRel
<1>2. IsWellFoundedOn(R, Nat)
  BY NatLessThanWellFounded
<1> HIDE DEF R
<1>3. PICK x \in S : \A y \in S : ~ (<<y, x>> \in R)
  BY <1>2, WFMin, Zenon
<1>4. \A y \in S : ~ (y < x)
  BY <1>1, <1>3
<1> QED BY <1>3, <1>4

LEMMA EntriesOrdered == N \in Nat \ {0} /\ Ordered(Entries)
<1>1. Entries \in Seq(Keys) /\ Entries # <<>> /\ DOMAIN Entries = 1 .. N /\ N \in Nat
  BY EntriesAreDistinct DEF N
<1>2. N # 0
  BY <1>1 DEF N
<1>3. \A i, j \in 1 .. N : Entries[i] = Entries[j] => i = j
  BY <1>1, EntriesAreDistinct DEF IsInjective
<1>4. \A k \in Keys : \E i \in 1 .. N : Entries[i] = k
  BY <1>1 DEF Keys, Range
<1> QED BY <1>1, <1>2, <1>3, <1>4 DEF Ordered, N

LEMMA KeysFinite == IsFiniteSet(Keys) /\ Cardinality(Keys) = N
<1>1. Entries \in Seq(Keys) /\ DOMAIN Entries = 1 .. N /\ N \in Nat
  BY EntriesAreDistinct DEF N
<1>2. Entries \in [1 .. N -> Keys]
  BY <1>1 DEF N
<1>3. Entries \in Surjection(1 .. N, Keys) /\ Entries \in Injection(1 .. N, Keys)
  BY <1>1, <1>2, EntriesOrdered, EntriesAreDistinct DEF Ordered, Surjection, Injection, IsInjective
<1>4. IsFiniteSet(1 .. N) /\ Cardinality(1 .. N) = N
  BY <1>1, FS_Interval
<1> QED BY <1>3, <1>4, FS_Surjection

LEMMA PositionFacts ==
    ASSUME NEW o, Ordered(o), NEW k \in Keys
    PROVE  /\ PositionIn(o, k) \in 1 .. N /\ o[PositionIn(o, k)] = k
           /\ \A i \in 1 .. N : o[i] = k => i = PositionIn(o, k)
<1>1. DOMAIN o = 1 .. N
  BY EntriesOrdered DEF Ordered
<1>2. \E i \in DOMAIN o : o[i] = k
  BY <1>1 DEF Ordered
<1>3. PositionIn(o, k) \in DOMAIN o /\ o[PositionIn(o, k)] = k
  BY <1>2 DEF PositionIn
<1> HIDE DEF PositionIn
<1> QED BY <1>1, <1>3 DEF Ordered

\* The order after k's turn: k is last, and the others keep theirs.
LEMMA RotatedFacts ==
    ASSUME NEW o, Ordered(o), NEW k \in Keys
    PROVE  /\ Ordered(Rotated(o, k))
           /\ PositionIn(Rotated(o, k), k) = N
           /\ \A x \in Keys \ {k} :
                 PositionIn(Rotated(o, k), x) =
                    IF PositionIn(o, x) < PositionIn(o, k) THEN PositionIn(o, x)
                                                           ELSE PositionIn(o, x) - 1
<1> DEFINE i == PositionIn(o, k)
           r == RemoveAt(o, i)
           w == Rotated(o, k)
<1>1. N \in Nat \ {0} /\ o \in Seq(Keys) /\ Len(o) = N
  BY EntriesOrdered DEF Ordered
<1>2. i \in 1 .. N /\ o[i] = k
  BY PositionFacts
<1>3. w = Append(r, k)
  BY DEF Rotated
<1> HIDE DEF i
<1>4. /\ r \in Seq(Keys) /\ Len(r) = N - 1
      /\ \A m \in 1 .. N - 1 : r[m] = IF m < i THEN o[m] ELSE o[m + 1]
  BY <1>1, <1>2, RemoveAtFacts
<1> HIDE DEF r, w
<1>5. /\ w \in Seq(Keys) /\ Len(w) = N /\ w[N] = k
      /\ \A m \in 1 .. N - 1 : w[m] = IF m < i THEN o[m] ELSE o[m + 1]
  <2>1. w \in Seq(Keys) /\ Len(w) = N
    BY <1>1, <1>3, <1>4
  <2>2. \A m \in 1 .. N : w[m] = IF m = N THEN k ELSE r[m]
    BY <1>1, <1>3, <1>4
  <2>3. \A m \in 1 .. N - 1 : m \in 1 .. N /\ m # N
    BY <1>1
  <2>4. N \in 1 .. N
    BY <1>1
  <2> QED BY <1>4, <2>1, <2>2, <2>3, <2>4
<1> DEFINE From(m) == IF m = N THEN i ELSE IF m < i THEN m ELSE m + 1
           To(m) == IF m = i THEN N ELSE IF m < i THEN m ELSE m - 1
<1>6. \A m \in 1 .. N : From(m) \in 1 .. N /\ w[m] = o[From(m)] /\ To(From(m)) = m
  BY <1>1, <1>2, <1>5
<1>7. \A m \in 1 .. N : To(m) \in 1 .. N /\ From(To(m)) = m
  BY <1>1, <1>2
<1> HIDE DEF From, To
<1>8. \A m \in 1 .. N : w[To(m)] = o[m]
  BY <1>6, <1>7
<1>9. Ordered(w)
  <2>1. \A m, n \in 1 .. N : w[m] = w[n] => m = n
    <3> SUFFICES ASSUME NEW m \in 1 .. N, NEW n \in 1 .. N, w[m] = w[n] PROVE m = n
      OBVIOUS
    <3>1. From(m) = From(n)
      BY <1>6 DEF Ordered
    <3> QED BY <1>6, <3>1
  <2>2. \A x \in Keys : \E m \in 1 .. N : w[m] = x
    <3> SUFFICES ASSUME NEW x \in Keys PROVE \E m \in 1 .. N : w[m] = x
      OBVIOUS
    <3>1. PICK n \in 1 .. N : o[n] = x
      BY DEF Ordered
    <3> QED BY <1>7, <1>8, <3>1
  <2> QED BY <1>5, <2>1, <2>2 DEF Ordered
<1>10. \A x \in Keys : PositionIn(w, x) = To(PositionIn(o, x))
  <2> SUFFICES ASSUME NEW x \in Keys PROVE PositionIn(w, x) = To(PositionIn(o, x))
    OBVIOUS
  <2>1. PositionIn(o, x) \in 1 .. N /\ o[PositionIn(o, x)] = x
    BY PositionFacts
  <2>2. To(PositionIn(o, x)) \in 1 .. N /\ w[To(PositionIn(o, x))] = x
    BY <1>7, <1>8, <2>1
  <2> QED BY <1>9, <2>2, PositionFacts
<1>11. PositionIn(w, k) = N
  BY <1>10 DEF To, i
<1>12. \A x \in Keys \ {k} : PositionIn(o, x) # i
  <2> SUFFICES ASSUME NEW x \in Keys \ {k} PROVE PositionIn(o, x) # i
    OBVIOUS
  <2>1. o[PositionIn(o, x)] = x
    BY PositionFacts
  <2> QED BY <1>2, <2>1
<1>13. \A x \in Keys \ {k} : PositionIn(w, x) = IF PositionIn(o, x) < i THEN PositionIn(o, x)
                                                                     ELSE PositionIn(o, x) - 1
  BY <1>10, <1>12 DEF To
<1> QED BY <1>9, <1>11, <1>13 DEF i, w

\* fill_first and round_robin pick the healthy entry that scans first.
LEMMA FirstHealthyFacts ==
    ASSUME NEW p, Sound(p), Healthy(p) # {}
    PROVE  /\ FirstHealthy(p) \in Healthy(p)
           /\ \A x \in Healthy(p) \ {FirstHealthy(p)} :
                 PositionIn(p.order, FirstHealthy(p)) < PositionIn(p.order, x)
<1> DEFINE o == p.order
           Least(i) == /\ o[i] \in Healthy(p)
                       /\ \A j \in 1 .. i - 1 : o[j] \notin Healthy(p)
           f == CHOOSE i \in DOMAIN o : Least(i)
           H == {i \in 1 .. N : o[i] \in Healthy(p)}
<1>1. Ordered(o) /\ DOMAIN o = 1 .. N /\ N \in Nat
  <2>1. Ordered(o)
    BY DEF Sound
  <2> QED BY <2>1, EntriesOrdered DEF Ordered
<1>2. Healthy(p) \subseteq Keys
  BY DEF Healthy
<1>3. \A x \in Healthy(p) : PositionIn(o, x) \in H
  BY <1>1, <1>2, PositionFacts
<1>4. H \subseteq Nat /\ H # {}
  BY <1>3
<1>5. PICK h \in H : \A m \in H : h <= m
  BY <1>4, LeastNat, Zenon
<1>6. Least(h)
  <2>1. \A j \in 1 .. h - 1 : j \in 1 .. N /\ ~ (h <= j)
    BY <1>1, <1>5
  <2> QED BY <1>5, <2>1
<1>7. f \in DOMAIN o /\ Least(f)
  <2> HIDE DEF Least, o
  <2> QED BY <1>1, <1>5, <1>6
<1>8. FirstHealthy(p) = o[f]
  BY DEF FirstHealthy
<1> HIDE DEF f
<1>9. FirstHealthy(p) \in Healthy(p)
  BY <1>7, <1>8
<1>10. PositionIn(o, FirstHealthy(p)) = f
  BY <1>1, <1>2, <1>7, <1>8, <1>9, PositionFacts
<1>11. ASSUME NEW x \in Healthy(p), x # FirstHealthy(p)
       PROVE  f < PositionIn(o, x)
  <2>1. PositionIn(o, x) \in 1 .. N /\ o[PositionIn(o, x)] = x
    BY <1>1, <1>2, PositionFacts
  <2>2. PositionIn(o, x) # f
    BY <1>8, <1>11, <2>1
  <2>3. PositionIn(o, x) \notin 1 .. f - 1
    BY <1>7, <2>1
  <2> QED BY <1>1, <1>7, <2>1, <2>2, <2>3
<1> QED BY <1>9, <1>10, <1>11

-----------------------------------------------------------------------------
(* Selection and marking.                                                    *)

LEMMA HealedSound ==
    ASSUME NEW p, Sound(p)
    PROVE  /\ Sound(Healed(p)) /\ Healed(p).order = p.order /\ Healed(p).rest = p.rest
<1> DEFINE st == [k \in Keys |-> IF k \in Healthy(p) THEN "ok" ELSE "exhausted"]
<1>1. st \in [Keys -> {"ok", "exhausted"}]
  OBVIOUS
<1>2. Healed(p) = [p EXCEPT !.status = st]
  BY DEF Healed
<1> HIDE DEF st
<1> QED BY <1>1, <1>2 DEF Sound

LEMMA MarkedSound ==
    ASSUME NEW p, Sound(p), NEW k \in Keys, NEW window \in Windows
    PROVE  Sound(Marked(p, k, window)) /\ Marked(p, k, window).order = p.order
<1>1. window \in Nat
  BY RestsArePositive DEF Windows
<1> QED BY <1>1 DEF Sound, Marked

LEMMA AgedSound ==
    ASSUME NEW p, Sound(p)
    PROVE  Sound(Aged(p)) /\ Aged(p).order = p.order
<1> DEFINE older == [k \in Keys |-> IF p.rest[k] > 0 THEN p.rest[k] - 1 ELSE 0]
<1>1. older \in [Keys -> Nat]
  BY DEF Sound
<1>2. Aged(p) = [p EXCEPT !.rest = older]
  BY DEF Aged
<1> HIDE DEF older
<1> QED BY <1>1, <1>2 DEF Sound

LEMMA ToTheBackSound ==
    ASSUME NEW p, Sound(p), NEW k \in Keys
    PROVE  Sound(ToTheBack(p, k)) /\ ToTheBack(p, k).order = Rotated(p.order, k)
<1> DEFINE w == Rotated(p.order, k)
<1>1. Ordered(w)
  BY RotatedFacts DEF Sound
<1>2. ToTheBack(p, k) = [p EXCEPT !.order = w, !.rank = RankIn(w)]
  BY DEF ToTheBack
<1> HIDE DEF w
<1>3. RankIn(w) \in [Keys -> Nat]
  <2>1. ASSUME NEW x \in Keys PROVE PositionIn(w, x) - 1 \in Nat
    BY <1>1, PositionFacts, EntriesOrdered
  <2> QED BY <2>1 DEF RankIn
<1>4. ToTheBack(p, k).order = w /\ ToTheBack(p, k).rank = RankIn(w)
  BY <1>2 DEF Sound
<1>5. w \in Seq(Keys)
  BY <1>1 DEF Ordered
<1>6. ToTheBack(p, k) \in [order : Seq(Keys), rank : [Keys -> Nat],
                           status : [Keys -> {"ok", "exhausted"}], rest : [Keys -> Nat]]
  BY <1>2, <1>3, <1>5 DEF Sound
<1> QED BY <1>1, <1>4, <1>6 DEF Sound, w

\* Two healthy entries are what round_robin asks for before it takes turns.
LEMMA TwoHealthy ==
    ASSUME NEW p, NEW k \in Healthy(p), NEW x \in Healthy(p), x # k
    PROVE  Cardinality(Healthy(p)) > 1
<1>1. Healthy(p) \in SUBSET Keys
  BY DEF Healthy
<1>2. {k, x} \in SUBSET Healthy(p)
  OBVIOUS
<1>3. IsFiniteSet(Healthy(p))
  BY <1>1, KeysFinite, FS_Subset
<1>4. IsFiniteSet({k}) /\ Cardinality({k}) = 1
  BY FS_Singleton
<1>5. {k} \cup {x} = {k, x}
  OBVIOUS
<1>6. Cardinality({k, x}) = 2
  <2>1. Cardinality({k} \cup {x}) = 1 + 1
    BY <1>4, FS_AddElement
  <2> QED BY <1>5, <2>1
<1>7. Cardinality({k, x}) <= Cardinality(Healthy(p))
  BY <1>2, <1>3, FS_Subset
<1>8. Cardinality(Healthy(p)) \in Nat
  BY <1>3, FS_CardinalityType
<1> QED BY <1>6, <1>7, <1>8

\* What a selection returns and leaves.
LEMMA SelectionFacts ==
    ASSUME NEW p, Sound(p), NEW s \in Selections(p, strategy)
    PROVE  /\ Sound(s.pool) /\ s.pool.rest = p.rest
           /\ s.key = NoKey => Healthy(p) = {} /\ s.pool = p
           /\ s.key # NoKey => /\ s.key \in Healthy(p)
                               /\ s.key \in Candidates(p, strategy)
                               /\ s.pool = AfterPick(p, strategy, s.key)
           /\ s.key \in Keys \cup {NoKey}
<1>1. CASE Healthy(p) = {}
  <2>1. s = [key |-> NoKey, pool |-> p]
    BY <1>1 DEF Selections
  <2> QED BY <1>1, <2>1
<1>2. CASE Healthy(p) # {}
  <2>1. PICK k \in Candidates(p, strategy) : s = [key |-> k, pool |-> AfterPick(p, strategy, k)]
    BY <1>2 DEF Selections
  <2>2. k \in Healthy(p)
    BY <1>2, FirstHealthyFacts DEF Candidates
  <2>3. k \in Keys /\ k # NoKey
    BY <2>2, NullIsNoEntry DEF Healthy
  <2>4. Sound(Healed(p)) /\ Healed(p).rest = p.rest
    BY HealedSound
  <2>5. Sound(ToTheBack(Healed(p), k)) /\ ToTheBack(Healed(p), k).rest = p.rest
    <3>1. Sound(ToTheBack(Healed(p), k))
      BY <2>3, <2>4, ToTheBackSound
    <3>2. ToTheBack(Healed(p), k).rest = Healed(p).rest
      BY <2>4 DEF ToTheBack, Sound
    <3> QED BY <2>4, <3>1, <3>2
  <2>6. s.key = k /\ s.pool = AfterPick(p, strategy, k)
    BY <2>1
  <2>7. Sound(s.pool) /\ s.pool.rest = p.rest
    BY <2>4, <2>5, <2>6 DEF AfterPick
  <2> QED BY <2>2, <2>3, <2>6, <2>7
<1> QED BY <1>1, <1>2

\* A turn is fair: nobody healthy who scans before the picked entry exists, and
\* the picked entry goes behind them all.
LEMMA PickFair ==
    ASSUME NEW p, Sound(p), Fair(p, passed), passed \in [Keys -> [Keys -> 0 .. 2]],
           NEW s, Pick(p, s)
    PROVE  /\ Fair(pool', passed') /\ Sound(pool') /\ passed' \in [Keys -> [Keys -> 0 .. 2]]
<1>0. /\ s \in Selections(p, strategy) /\ pool' = s.pool
      /\ passed' = IF strategy = "round_robin" /\ s.key # NoKey
                           THEN Turns(p, s.key) ELSE passed
  BY DEF Pick
<1>1. /\ Sound(pool')
      /\ s.key = NoKey => pool' = p
      /\ s.key # NoKey => /\ s.key \in Healthy(p) /\ s.key \in Candidates(p, strategy)
                          /\ pool' = AfterPick(p, strategy, s.key)
  BY <1>0, SelectionFacts
<1>2. CASE s.key = NoKey
  BY <1>0, <1>1, <1>2
<1>3. CASE s.key # NoKey /\ strategy # "round_robin"
  <2>1. pool' = Healed(p) /\ passed' = passed
    BY <1>0, <1>1, <1>3 DEF AfterPick
  <2>2. pool'.order = p.order
    BY <2>1, HealedSound
  <2> QED BY <1>1, <2>1, <2>2 DEF Fair
<1>4. CASE s.key # NoKey /\ strategy = "round_robin"
  <2> DEFINE k == s.key
  <2>1. /\ k \in Keys /\ k \in Healthy(p) /\ k = FirstHealthy(p)
    BY <1>1, <1>4 DEF Candidates, Healthy
  <2>2. \A x \in Healthy(p) \ {k} : PositionIn(p.order, k) < PositionIn(p.order, x)
    BY <2>1, FirstHealthyFacts
  <2>3. passed' = Turns(p, k)
    BY <1>0, <1>4
  <2>4. Healed(p).order = p.order /\ Sound(Healed(p))
    BY HealedSound
  <2>5. pool' = IF Cardinality(Healthy(p)) > 1 THEN ToTheBack(Healed(p), k) ELSE Healed(p)
    BY <1>1, <1>4 DEF AfterPick
  <2> HIDE DEF k
  <2>6. passed' \in [Keys -> [Keys -> 0 .. 2]]
    BY <2>3 DEF Turns
  <2>7. ASSUME NEW x \in Keys, NEW j \in Keys
        PROVE  \/ passed'[x][j] = 0
               \/ /\ passed'[x][j] = 1
                  /\ PositionIn(pool'.order, x) < PositionIn(pool'.order, j)
    <3>1. CASE x = k \/ x \notin Healthy(p)
      BY <2>3, <3>1 DEF Turns
    <3>2. CASE x # k /\ x \in Healthy(p)
      <4>1. Cardinality(Healthy(p)) > 1
        BY <2>1, <3>2, TwoHealthy
      <4>2. pool'.order = Rotated(p.order, k)
        BY <2>1, <2>4, <2>5, <4>1, ToTheBackSound
      <4>3. Ordered(p.order)
        BY DEF Sound
      <4>4. /\ PositionIn(p.order, x) \in 1 .. N /\ PositionIn(p.order, j) \in 1 .. N
            /\ PositionIn(p.order, k) \in 1 .. N /\ N \in Nat
        BY <2>1, <4>3, PositionFacts, EntriesOrdered
      <4>5. PositionIn(p.order, k) < PositionIn(p.order, x)
        BY <2>2, <3>2
      <4>6. PositionIn(pool'.order, x) = PositionIn(p.order, x) - 1
        BY <2>1, <3>2, <4>2, <4>3, <4>4, <4>5, RotatedFacts
      <4>7. CASE j = k
        <5>1. passed[x][k] = 0
          BY <2>1, <4>4, <4>5 DEF Fair
        <5>2. passed'[x][j] = 1
          BY <2>1, <2>3, <3>2, <4>7, <5>1 DEF Turns
        <5>3. PositionIn(pool'.order, j) = N
          BY <2>1, <4>2, <4>3, <4>7, RotatedFacts
        <5> QED BY <4>4, <4>6, <5>2, <5>3
      <4>8. CASE j # k
        <5>1. passed'[x][j] = passed[x][j]
          BY <2>3, <3>2, <4>8 DEF Turns
        <5>2. CASE passed[x][j] = 0
          BY <5>1, <5>2
        <5>3. CASE passed[x][j] # 0
          <6>1. passed[x][j] = 1 /\ PositionIn(p.order, x) < PositionIn(p.order, j)
            BY <5>3 DEF Fair
          <6>2. PositionIn(pool'.order, j) = PositionIn(p.order, j) - 1
            <7>1. ~ (PositionIn(p.order, j) < PositionIn(p.order, k))
              BY <4>4, <4>5, <6>1
            <7> QED BY <2>1, <4>2, <4>3, <4>8, <7>1, RotatedFacts
          <6> QED BY <4>4, <4>6, <5>1, <6>1, <6>2
        <5> QED BY <5>2, <5>3
      <4> QED BY <4>7, <4>8
    <3> QED BY <3>1, <3>2
  <2> QED BY <1>1, <2>6, <2>7 DEF Fair
<1> QED BY <1>2, <1>3, <1>4

-----------------------------------------------------------------------------
(* The clients.                                                              *)

\* The part of the state that belongs to the clients.
ClientsTyped == /\ pc \in [Clients -> Steps]
                /\ key \in [Clients -> Keys \union {NoKey}]
                /\ retried \in [Clients -> BOOLEAN] /\ aborted \in [Clients -> BOOLEAN]
                /\ attempt \in [Clients -> 0 .. MaxAttempts - 1]
                /\ wait \in [Clients -> 0 .. MaxWait]
                /\ fails \in [Clients -> 0 .. MaxTimeouts]
                /\ tripped \in [Clients -> BOOLEAN]
                /\ cool \in [Clients -> 0 .. BreakerRest]
                /\ \A c \in Clients : (key[c] # NoKey) <=> (pc[c] = "probing")

PoolInv == /\ strategy \in Strategies
           /\ Sound(pool) /\ Fair(pool, passed)
           /\ passed \in [Keys -> [Keys -> 0 .. 2]]

IInv == PoolInv /\ ClientsTyped /\ Bounded

LEMMA Limits == /\ MaxWait \in Nat \ {0} /\ MaxTimeouts \in Nat \ {0}
                /\ BreakerRest \in Nat \ {0} /\ MaxAttempts \in Nat \ {0}
BY BoundsArePositive

LEMMA InitInv == Init => IInv
<1> SUFFICES ASSUME Init PROVE IInv
  OBVIOUS
<1>1. Sound(pool)
  <2>1. Ordered(Entries) /\ Entries \in Seq(Keys)
    BY EntriesOrdered DEF Ordered
  <2>2. RankIn(Entries) \in [Keys -> Nat]
    <3>1. ASSUME NEW x \in Keys PROVE PositionIn(Entries, x) - 1 \in Nat
      BY <2>1, PositionFacts, EntriesOrdered
    <3> QED BY <3>1 DEF RankIn
  <2> QED BY <2>1, <2>2 DEF Init, FreshPool, Sound
<1>2. Fair(pool, passed) /\ passed \in [Keys -> [Keys -> 0 .. 2]]
  BY DEF Init, Fair
<1>3. ClientsTyped
  BY Limits DEF Init, ClientsTyped, Steps
<1>4. Bounded
  BY Limits DEF Init, Bounded
<1> QED BY <1>1, <1>2, <1>3, <1>4 DEF Init, PoolInv, IInv

\* What a failure does to a breaker that has not tripped.
LEMMA RecordTimeoutFacts ==
    ASSUME ClientsTyped, Bounded, NEW c \in Clients, RecordTimeout(c), ~tripped[c]
    PROVE  /\ fails' \in [Clients -> 0 .. MaxTimeouts] /\ tripped' \in [Clients -> BOOLEAN]
           /\ cool' \in [Clients -> 0 .. BreakerRest]
           /\ \A d \in Clients : tripped'[d] <=> fails'[d] = MaxTimeouts
           /\ \A d \in Clients \ {c} : tripped'[d] <=> tripped[d]
<1> USE Limits
<1>1. fails[c] + 1 \in 0 .. MaxTimeouts
  BY DEF ClientsTyped, Bounded
<1>2. fails' \in [Clients -> 0 .. MaxTimeouts] /\ cool' \in [Clients -> 0 .. BreakerRest]
  BY <1>1 DEF ClientsTyped, RecordTimeout
<1>3. CASE fails[c] + 1 >= MaxTimeouts
  <2>1. fails[c] + 1 = MaxTimeouts
    BY <1>1, <1>3
  <2>2. tripped' = [tripped EXCEPT ![c] = TRUE] /\ fails' = [fails EXCEPT ![c] = MaxTimeouts]
    BY <1>3, <2>1 DEF RecordTimeout
  <2> QED BY <1>2, <2>2 DEF ClientsTyped, Bounded
<1>4. CASE ~ (fails[c] + 1 >= MaxTimeouts)
  <2> DEFINE over == fails[c] + 1 >= MaxTimeouts
  <2>0. over = FALSE
    BY <1>4
  <2>1. tripped' = [tripped EXCEPT ![c] = FALSE] /\ fails' = [fails EXCEPT ![c] = fails[c] + 1]
    <3>1. tripped' = [tripped EXCEPT ![c] = over] /\ fails' = [fails EXCEPT ![c] = fails[c] + 1]
      BY DEF RecordTimeout
    <3> HIDE DEF over
    <3> QED BY <2>0, <3>1
  <2>2. fails[c] + 1 # MaxTimeouts
    BY <1>1, <1>4
  <2> QED BY <1>2, <2>1, <2>2 DEF ClientsTyped, Bounded
<1> QED BY <1>3, <1>4

\* What a call leaves of its client, and what it does to the breaker.
LEMMA EndCallTyped ==
    ASSUME ClientsTyped, Bounded, NEW c \in Clients, EndCall(c),
           UNCHANGED breaker \/ (RecordTimeout(c) /\ ~tripped[c])
    PROVE  ClientsTyped' /\ Bounded'
<1> USE Limits
<1>1. CASE UNCHANGED breaker
  BY <1>1 DEF ClientsTyped, Bounded, EndCall, Go, breaker, Steps
<1>2. CASE RecordTimeout(c) /\ ~tripped[c]
  <2>1. /\ pc' = [pc EXCEPT ![c] = "idle"] /\ key' = [key EXCEPT ![c] = NoKey]
        /\ retried' = [retried EXCEPT ![c] = FALSE] /\ attempt' = [attempt EXCEPT ![c] = 0]
        /\ aborted' = [aborted EXCEPT ![c] = FALSE] /\ wait' = [wait EXCEPT ![c] = 0]
    BY DEF EndCall, Go
  <2>2. /\ fails' \in [Clients -> 0 .. MaxTimeouts] /\ tripped' \in [Clients -> BOOLEAN]
        /\ cool' \in [Clients -> 0 .. BreakerRest]
        /\ \A d \in Clients : tripped'[d] <=> fails'[d] = MaxTimeouts
        /\ \A d \in Clients \ {c} : tripped'[d] <=> tripped[d]
    BY <1>2, RecordTimeoutFacts
  <2>3. ClientsTyped'
    <3>1. /\ pc' \in [Clients -> Steps] /\ key' \in [Clients -> Keys \union {NoKey}]
          /\ \A d \in Clients : (key'[d] # NoKey) <=> (pc'[d] = "probing")
      BY <2>1 DEF ClientsTyped, Steps
    <3>2. /\ retried' \in [Clients -> BOOLEAN] /\ aborted' \in [Clients -> BOOLEAN]
          /\ attempt' \in [Clients -> 0 .. MaxAttempts - 1] /\ wait' \in [Clients -> 0 .. MaxWait]
      BY <2>1 DEF ClientsTyped
    <3> QED BY <2>2, <3>1, <3>2 DEF ClientsTyped
  <2>4. Bounded'
    BY <2>1, <2>2 DEF ClientsTyped, Bounded
  <2> QED BY <2>3, <2>4
<1> QED BY <1>1, <1>2

LEMMA SelectTyped ==
    ASSUME PoolInv, ClientsTyped, NEW s, s \in Selections(pool, strategy)
    PROVE  s.key \in Keys \cup {NoKey}
BY SelectionFacts DEF PoolInv

LEMMA ClientStep ==
    ASSUME PoolInv, ClientsTyped, Bounded, NEW c \in Clients,
           \/ Call(c) \/ Begin(c) \/ SelectKey(c) \/ WaitOver(c) \/ Reselect(c)
           \/ FirstEvent(c) \/ RateLimited(c) \/ BackoffOver(c) \/ Rotate(c)
           \/ Unreachable(c) \/ PauseOver(c) \/ Raises(c) \/ StreamEnds(c)
           \/ Abort(c)
    PROVE  ClientsTyped' /\ Bounded'
<1> USE Limits DEF call, breaker
<1>1. CASE Call(c)
  BY <1>1 DEF Call, Go, ClientsTyped, Bounded, Steps
<1>2. CASE Begin(c)
  <2>1. CASE EndCall(c) /\ UNCHANGED breaker
    BY <2>1, EndCallTyped
  <2>2. CASE ~(EndCall(c) /\ UNCHANGED breaker)
    <3>1. /\ pc' = [pc EXCEPT ![c] = "ready"] /\ pc[c] = "start"
          /\ tripped' = [tripped EXCEPT ![c] = FALSE]
          /\ fails' = [fails EXCEPT ![c] = IF tripped[c] THEN 0 ELSE fails[c]]
          /\ UNCHANGED <<key, retried, attempt, aborted, wait, cool>>
      BY <1>2, <2>2 DEF Begin, Go, CloseIfElapsed
    <3>2. \/ fails' = [fails EXCEPT ![c] = 0]
          \/ ~ tripped[c] /\ fails' = fails
      BY <3>1 DEF ClientsTyped
    <3> QED BY <3>1, <3>2 DEF ClientsTyped, Bounded, Steps
  <2> QED BY <2>1, <2>2
<1>3. CASE SelectKey(c)
  <2>1. CASE EndCall(c)
    BY <1>3, <2>1, EndCallTyped DEF SelectKey
  <2>2. CASE ~ EndCall(c)
    <3>1. PICK s \in Selections(pool, strategy) :
                /\ key' = [key EXCEPT ![c] = s.key]
                /\ Go(c, IF s.key = NoKey THEN "waiting" ELSE "probing")
                /\ wait' = [wait EXCEPT ![c] = IF s.key = NoKey THEN MaxWait ELSE 0]
      BY <1>3, <2>2 DEF SelectKey
    <3>2. pc[c] = "ready" /\ UNCHANGED <<retried, attempt, aborted, fails, tripped, cool>>
      BY <1>3, <2>2 DEF SelectKey
    <3>3. s.key \in Keys \cup {NoKey}
      BY SelectTyped
    <3> QED BY <3>1, <3>2, <3>3 DEF Go, ClientsTyped, Bounded, Steps
  <2> QED BY <2>1, <2>2
<1>4. CASE WaitOver(c)
  <2>1. CASE EndCall(c) /\ RecordTimeout(c)
    BY <1>4, <2>1, EndCallTyped DEF WaitOver, Bounded
  <2>2. CASE ~(EndCall(c) /\ RecordTimeout(c))
    BY <1>4, <2>2 DEF WaitOver, Go, ClientsTyped, Bounded, Steps
  <2> QED BY <2>1, <2>2
<1>5. CASE Reselect(c)
  <2>1. CASE EndCall(c) /\ RecordTimeout(c)
    BY <1>5, <2>1, EndCallTyped DEF Reselect, Bounded
  <2>2. CASE ~(EndCall(c) /\ RecordTimeout(c))
    <3>1. PICK s \in Selections(pool, strategy) :
                /\ s.key # NoKey /\ Go(c, "probing")
                /\ key' = [key EXCEPT ![c] = s.key]
                /\ UNCHANGED <<call, breaker>>
      BY <1>5, <2>2 DEF Reselect
    <3>2. s.key \in Keys \cup {NoKey}
      BY SelectTyped
    <3> QED BY <1>5, <3>1, <3>2 DEF Reselect, Go, ClientsTyped, Bounded, Steps
  <2> QED BY <2>1, <2>2
<1>6. CASE FirstEvent(c)
  BY <1>6 DEF FirstEvent, RecordSuccess, Go, ClientsTyped, Bounded, Steps
<1>7. CASE RateLimited(c)
  BY <1>7 DEF RateLimited, Go, ClientsTyped, Bounded, Steps
<1>8. CASE BackoffOver(c)
  BY <1>8 DEF BackoffOver, Go, ClientsTyped, Bounded, Steps
<1>9. CASE Rotate(c)
  BY <1>9 DEF Rotate, Go, ClientsTyped, Bounded, Steps
<1>10. CASE Unreachable(c)
  <2>1. CASE EndCall(c)
    BY <1>10, <2>1, EndCallTyped DEF Unreachable, Bounded
  <2>2. CASE ~ EndCall(c)
    <3>1. RecordTimeout(c) /\ ~tripped[c]
      BY <1>10 DEF Unreachable, Bounded
    <3>2. /\ pc' = [pc EXCEPT ![c] = "pause"] /\ key' = [key EXCEPT ![c] = NoKey]
          /\ attempt[c] < MaxAttempts - 1
          /\ retried' = [retried EXCEPT ![c] = FALSE] /\ UNCHANGED <<attempt, aborted, wait>>
      BY <1>10, <2>2 DEF Unreachable, Go
    <3>3. /\ fails' \in [Clients -> 0 .. MaxTimeouts] /\ tripped' \in [Clients -> BOOLEAN]
          /\ cool' \in [Clients -> 0 .. BreakerRest]
          /\ \A d \in Clients : tripped'[d] <=> fails'[d] = MaxTimeouts
          /\ \A d \in Clients \ {c} : tripped'[d] <=> tripped[d]
      BY <3>1, RecordTimeoutFacts
    <3>4. ClientsTyped'
      BY <3>2, <3>3 DEF ClientsTyped, Steps
    <3>5. Bounded'
      BY <3>2, <3>3 DEF ClientsTyped, Bounded
    <3> QED BY <3>4, <3>5
  <2> QED BY <2>1, <2>2
<1>11. CASE PauseOver(c)
  BY <1>11 DEF PauseOver, Go, ClientsTyped, Bounded, Steps
<1>12. CASE Raises(c)
  BY <1>12, EndCallTyped DEF Raises
<1>13. CASE StreamEnds(c)
  BY <1>13, EndCallTyped DEF StreamEnds
<1>14. CASE Abort(c)
  BY <1>14 DEF Abort, ClientsTyped, Bounded, Steps
<1> QED BY <1>1, <1>2, <1>3, <1>4, <1>5, <1>6, <1>7, <1>8, <1>9, <1>10, <1>11, <1>12, <1>13, <1>14

\* A step leaves the pool alone, heals it, or takes one selection, of a pool in
\* which a key may have been marked just before.
LEMMA PoolStep ==
    ASSUME PoolInv, ClientsTyped, NEW c \in Clients,
           \/ Call(c) \/ Begin(c) \/ SelectKey(c) \/ WaitOver(c) \/ Reselect(c)
           \/ FirstEvent(c) \/ RateLimited(c) \/ BackoffOver(c) \/ Rotate(c)
           \/ Unreachable(c) \/ PauseOver(c) \/ Raises(c) \/ StreamEnds(c)
           \/ Abort(c)
    PROVE  PoolInv'
<1>0. /\ Sound(pool) /\ Fair(pool, passed) /\ strategy \in Strategies
      /\ passed \in [Keys -> [Keys -> 0 .. 2]]
  BY DEF PoolInv
<1>1. CASE UNCHANGED <<strategy, pool, passed>>
  BY <1>1 DEF PoolInv, Fair, Sound
<1>2. CASE UNCHANGED strategy /\ \E s : Pick(pool, s)
  BY <1>0, <1>2, PickFair DEF PoolInv
<1>3. CASE WaitOver(c)
  <2>1. pool' = pool \/ pool' = Healed(pool)
    BY <1>3 DEF WaitOver
  <2>2. Sound(pool') /\ pool'.order = pool.order
    BY <1>0, <2>1, HealedSound
  <2>3. UNCHANGED <<strategy, passed>>
    BY <1>3 DEF WaitOver
  <2> QED BY <1>0, <2>2, <2>3 DEF PoolInv, Fair
<1>4. CASE Rotate(c)
  <2>1. PICK window \in Windows :
           \E s \in Selections(Marked(pool, key[c], window), strategy) :
              Pick(Marked(pool, key[c], window), s)
    BY <1>4 DEF Rotate
  <2> DEFINE p == Marked(pool, key[c], window)
  <2>2. key[c] \in Keys
    BY <1>4 DEF Rotate, ClientsTyped
  <2>3. Sound(p) /\ p.order = pool.order
    BY <1>0, <2>2, MarkedSound
  <2>4. PICK s : Pick(p, s)
    BY <2>1
  <2> HIDE DEF p
  <2>5. Fair(p, passed)
    BY <1>0, <2>3 DEF Fair
  <2>6. Fair(pool', passed') /\ Sound(pool') /\ passed' \in [Keys -> [Keys -> 0 .. 2]]
    BY <1>0, <2>3, <2>4, <2>5, PickFair
  <2>7. strategy' = strategy
    BY <1>4 DEF Rotate
  <2> QED BY <1>0, <2>6, <2>7 DEF PoolInv
<1>5. CASE SelectKey(c)
  BY <1>1, <1>2, <1>5 DEF SelectKey
<1>6. CASE Reselect(c)
  BY <1>2, <1>6 DEF Reselect
<1> QED BY <1>1, <1>3, <1>4, <1>5, <1>6
        DEF Call, Begin, FirstEvent, RateLimited, BackoffOver, Unreachable, PauseOver,
            Raises, StreamEnds, Abort

LEMMA TickStep == IInv /\ Tick => IInv'
<1> SUFFICES ASSUME IInv, Tick PROVE IInv'
  OBVIOUS
<1>1. /\ pool' = Aged(pool)
      /\ UNCHANGED <<strategy, pc, key, retried, attempt, aborted, fails, tripped, passed>>
      /\ wait' = [c \in Clients |-> IF wait[c] > 0 THEN wait[c] - 1 ELSE 0]
      /\ cool' = [c \in Clients |-> IF cool[c] > 0 THEN cool[c] - 1 ELSE 0]
  BY DEF Tick
<1>2. Sound(pool') /\ pool'.order = pool.order
  BY <1>1, AgedSound DEF IInv, PoolInv
<1>3. PoolInv'
  BY <1>1, <1>2 DEF IInv, PoolInv, Fair
<1>4. ClientsTyped'
  BY <1>1, Limits DEF IInv, ClientsTyped
<1>5. Bounded'
  BY <1>1 DEF IInv, Bounded
<1> QED BY <1>3, <1>4, <1>5 DEF IInv

LEMMA NextInv == IInv /\ [Next]_vars => IInv'
<1> SUFFICES ASSUME IInv, [Next]_vars PROVE IInv'
  OBVIOUS
<1>1. CASE UNCHANGED vars
  BY <1>1 DEF vars, call, breaker, IInv, PoolInv, ClientsTyped, Bounded, Sound, Fair
<1>2. CASE Tick
  BY <1>2, TickStep
<1>3. ASSUME NEW c \in Clients,
             \/ Call(c) \/ Begin(c) \/ SelectKey(c) \/ WaitOver(c) \/ Reselect(c)
             \/ FirstEvent(c) \/ RateLimited(c) \/ BackoffOver(c) \/ Rotate(c)
             \/ Unreachable(c) \/ PauseOver(c) \/ Raises(c) \/ StreamEnds(c)
             \/ Abort(c)
      PROVE  IInv'
  BY <1>3, ClientStep, PoolStep DEF IInv
<1> QED BY <1>1, <1>2, <1>3 DEF Next

LEMMA Invariance == Spec => []IInv
BY InitInv, NextInv, PTL DEF Spec

-----------------------------------------------------------------------------
(* The theorems.                                                             *)

LEMMA PriorityFollowsOrder ==
    ASSUME NEW p, Sound(p)
    PROVE  /\ p \in Pools
           /\ \A i, j \in DOMAIN p.order : i < j => p.rank[p.order[i]] < p.rank[p.order[j]]
<1>1. Ordered(p.order) /\ p.rank = RankIn(p.order)
  BY DEF Sound
<1>2. /\ p.order \in Seq(Keys) /\ Len(p.order) = N /\ DOMAIN p.order = 1 .. N
      /\ p.order \in [1 .. N -> Keys] /\ \A i \in 1 .. N : p.order[i] \in Keys
  BY <1>1 DEF Ordered
<1>3. p.order \in SetToSeqs(Keys)
  BY <1>1, <1>2, KeysFinite DEF SetToSeqs, Ordered
<1>4. p \in Pools
  BY <1>3 DEF Sound, Pools
<1>5. \A i \in 1 .. N : PositionIn(p.order, p.order[i]) = i
  BY <1>1, <1>2, PositionFacts
<1>6. \A i \in 1 .. N : p.rank[p.order[i]] = i - 1
  <2>1. \A k \in Keys : p.rank[k] = PositionIn(p.order, k) - 1
    BY <1>1 DEF RankIn
  <2> QED BY <1>2, <1>5, <2>1
<1>7. ASSUME NEW i \in 1 .. N, NEW j \in 1 .. N, i < j
      PROVE  p.rank[p.order[i]] < p.rank[p.order[j]]
  <2>1. i - 1 < j - 1
    BY <1>7, EntriesOrdered
  <2> QED BY <1>6, <2>1
<1>8. DOMAIN p.order = 1 .. N
  BY <1>2
<1> QED BY <1>4, <1>7, <1>8

\* Type correctness: the pool stays a pool whose saved priorities follow its
\* order, and no breaker, retry or wait counter passes its limit
\* (credential-pool.ts, pool-aware-client.ts, retrying-client.ts).
THEOREM TypeCorrect == Spec => []TypeOK
<1>1. IInv => TypeOK
  BY PriorityFollowsOrder DEF IInv, PoolInv, ClientsTyped, TypeOK
<1> QED BY <1>1, Invariance, PTL

\* round_robin's rotation (selectLocked) is fair to every healthy key, for any
\* number of keys and of runs that select, mark and heal at once.
THEOREM FairTurns == Spec => []NoKeyIsPassedTwice
<1>1. IInv => NoKeyIsPassedTwice
  BY DEF IInv, PoolInv, Fair, NoKeyIsPassedTwice
<1> QED BY <1>1, Invariance, PTL

\* PoolAwareLlmClient.stream reports an exhausted pool only to a call that was
\* aborted, or at a moment when every key rests.
THEOREM ExhaustionIsReal == Spec => ExhaustedMeansResting
<1> DEFINE A == \A c \in Clients :
                   (pc[c] \in {"waiting", "reselect"} /\ pc'[c] = "idle")
                      => aborted[c] \/ \A k \in Keys : pool.rest[k] > 0
<1>1. IInv /\ [Next]_vars => [A]_vars
  <2> SUFFICES ASSUME IInv, Next, NEW c \in Clients,
                      pc[c] \in {"waiting", "reselect"}, pc'[c] = "idle", ~ aborted[c]
               PROVE  \A k \in Keys : pool.rest[k] > 0
    OBVIOUS
  <2>0. pc \in [Clients -> Steps] /\ Sound(pool)
    BY DEF IInv, ClientsTyped, PoolInv
  <2>1. Healthy(pool) = {}
    <3>1. PICK d \in Clients :
             \/ Call(d) \/ Begin(d) \/ SelectKey(d) \/ WaitOver(d) \/ Reselect(d)
             \/ FirstEvent(d) \/ RateLimited(d) \/ BackoffOver(d) \/ Rotate(d)
             \/ Unreachable(d) \/ PauseOver(d) \/ Raises(d) \/ StreamEnds(d)
             \/ Abort(d)
      BY DEF Next, Tick
    <3>2. d = c
      BY <2>0, <3>1 DEF Call, Begin, SelectKey, WaitOver, Reselect, FirstEvent, RateLimited,
            BackoffOver, Rotate, Unreachable, PauseOver, Raises, StreamEnds, Abort, Go, EndCall
    <3>3. CASE WaitOver(c)
      BY <2>0, <3>3 DEF WaitOver, Go
    <3>4. CASE Reselect(c)
      <4>1. PICK s \in Selections(pool, strategy) : s.key = NoKey \/ Go(c, "probing")
        BY <3>4 DEF Reselect
      <4>2. s.key = NoKey
        BY <2>0, <4>1 DEF Go
      <4> QED BY <2>0, <4>2, SelectionFacts
    <3> QED BY <3>1, <3>2, <3>3, <3>4 DEF Call, Begin, SelectKey, FirstEvent, RateLimited,
            BackoffOver, Rotate, Unreachable, PauseOver, Raises, StreamEnds, Abort
  <2>2. \A k \in Keys : pool.rest[k] \in Nat /\ pool.rest[k] # 0
    BY <2>0, <2>1 DEF Healthy, Sound
  <2> QED BY <2>2
<1>2. IInv /\ [Next]_vars => [A]_vars
  BY <1>1
<1> QED BY <1>2, Invariance, PTL DEF Spec, ExhaustedMeansResting

=============================================================================
