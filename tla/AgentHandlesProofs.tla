------------------------- MODULE AgentHandlesProofs -------------------------
(***************************************************************************)
(* Proofs about AgentHandles, for any calls, ids, stores and capacity: the *)
(* type invariant; no handle is orphaned, when there is a cache; a live    *)
(* handle writes under the lease, when every agent has a store of its own. *)
(***************************************************************************)
EXTENDS AgentHandles, FiniteSetTheorems, SequenceTheorems, TLAPS

(* Every agent works with a store of its own, as it does by default.         *)
StoresApart == \A c, d \in Callers : StoreOf[c] = StoreOf[d] => c = d

(* The stores through which the process holds a session.                     *)
Holders(id) == {s \in Stores : id \in leases[s]}

(* Only an open handle is in the cache, and only such a one is disposed.     *)
HandlesPlaced ==
    /\ \A h \in Range(cache) : phase[h] = "open"
    /\ \A h \in disposed : phase[h] \in {"open", "closed"}

(* The count covers the holders, and the lock is ours while it is not zero.  *)
(* (Two agents of one store may both count, and the store gives back once.)  *)
LeasesCounted ==
    \A id \in Ids : /\ IsFiniteSet(Holders(id))
                    /\ Cardinality(Holders(id)) <= refs[id]
                    /\ lock[id] = "ours" <=> refs[id] > 0

(* A handle that writes holds the session through its own store.             *)
WritersHold ==
    \A c \in Callers : phase[c] \in {"hydrating", "open"} /\ c \notin bare =>
                           IdOf[c] \in leases[StoreOf[c]]

(* One entry per id.                                                         *)
Apart(s) == \A i, j \in DOMAIN s : IdOf[s[i]] = IdOf[s[j]] => i = j

CacheInv ==
    /\ phase \in [Callers -> Phases]
    /\ cache \in Seq(Callers) /\ Len(cache) <= MaxAgents /\ Apart(cache)
    /\ disposed \subseteq Callers /\ Range(cache) \cap disposed = {}
    /\ HandlesPlaced
    /\ MaxAgents > 0 => NoOrphan

LeaseInv ==
    /\ bare \subseteq Callers
    /\ leases \in [Stores -> SUBSET Ids]
    /\ refs \in [Ids -> Nat]
    /\ lock \in [Ids -> {"free", "ours", "rival"}]
    /\ LeasesCounted
    /\ StoresApart => WritersHold

IInv == result \in [Callers -> Callers \cup {None}] /\ CacheInv /\ LeaseInv

-----------------------------------------------------------------------------
(* The cache.                                                                *)

LEMMA RemoveAtFacts ==
    ASSUME NEW S, NEW s \in Seq(S), NEW i \in 1 .. Len(s)
    PROVE  /\ RemoveAt(s, i) \in Seq(S)
           /\ Len(RemoveAt(s, i)) = Len(s) - 1
           /\ \A k \in 1 .. Len(s) - 1 : RemoveAt(s, i)[k] = IF k < i THEN s[k] ELSE s[k + 1]
<1> DEFINE n == Len(s)
           p == SubSeq(s, 1, i - 1)
           q == SubSeq(s, i + 1, n)
<1>1. n \in Nat /\ i \in Nat /\ 1 <= i /\ i <= n /\ i - 1 \in Int /\ i + 1 \in Int /\ n \in Int
  OBVIOUS
<1>2. \A k \in 1 .. n : s[k] \in S
  OBVIOUS
<1>3. (\A k \in 1 .. i - 1 : s[k] \in S) /\ (\A k \in i + 1 .. n : s[k] \in S)
  <2> HIDE DEF n
  <2> QED BY <1>1, <1>2
<1>4. /\ p \in Seq(S) /\ Len(p) = IF 1 <= i - 1 THEN (i - 1) - 1 + 1 ELSE 0
      /\ \A k \in 1 .. (i - 1) - 1 + 1 : p[k] = s[1 + k - 1]
  <2> HIDE DEF n
  <2> QED BY <1>1, <1>3, SubSeqProperties
<1>5. /\ q \in Seq(S) /\ Len(q) = IF i + 1 <= n THEN n - (i + 1) + 1 ELSE 0
      /\ \A k \in 1 .. n - (i + 1) + 1 : q[k] = s[(i + 1) + k - 1]
  <2> HIDE DEF n
  <2> QED BY <1>1, <1>3, SubSeqProperties
<1> HIDE DEF n, p, q
<1>6. Len(p) = i - 1 /\ \A k \in 1 .. i - 1 : p[k] = s[k]
  <2>1. Len(p) = i - 1 /\ (i - 1) - 1 + 1 = i - 1
    BY <1>1, <1>4
  <2>2. \A k \in 1 .. i - 1 : 1 + k - 1 = k
    OBVIOUS
  <2> QED BY <1>4, <2>1, <2>2
<1>7. Len(q) = n - i /\ \A k \in 1 .. n - i : q[k] = s[i + k]
  <2>1. Len(q) = n - i /\ n - (i + 1) + 1 = n - i
    BY <1>1, <1>5
  <2>2. \A k \in 1 .. n - i : (i + 1) + k - 1 = i + k
    BY <1>1
  <2> QED BY <1>5, <2>1, <2>2
<1>8. /\ p \o q \in Seq(S) /\ Len(p \o q) = Len(p) + Len(q)
      /\ \A k \in 1 .. Len(p) + Len(q) : (p \o q)[k] = IF k <= Len(p) THEN p[k] ELSE q[k - Len(p)]
  BY <1>4, <1>5, ConcatProperties
<1> DEFINE t == p \o q
<1>9. /\ t \in Seq(S) /\ Len(t) = Len(p) + Len(q)
      /\ \A k \in 1 .. Len(p) + Len(q) : t[k] = IF k <= Len(p) THEN p[k] ELSE q[k - Len(p)]
  BY <1>8
<1> HIDE DEF t
<1>10. Len(t) = n - 1
  BY <1>1, <1>6, <1>7, <1>9
<1>11. ASSUME NEW k \in 1 .. n - 1 PROVE t[k] = IF k < i THEN s[k] ELSE s[k + 1]
  <2>1. k \in 1 .. Len(p) + Len(q) /\ k \in Nat
    BY <1>1, <1>6, <1>7
  <2>2. t[k] = IF k <= Len(p) THEN p[k] ELSE q[k - Len(p)]
    BY <1>9, <2>1
  <2>3. CASE k < i
    <3>1. k <= Len(p) /\ k \in 1 .. i - 1
      BY <1>1, <1>6, <2>1, <2>3
    <3> QED BY <1>6, <2>2, <2>3, <3>1
  <2>4. CASE ~ (k < i)
    <3>1. ~ (k <= Len(p)) /\ k - Len(p) \in 1 .. n - i /\ i + (k - Len(p)) = k + 1
      BY <1>1, <1>6, <2>1, <2>4
    <3>2. q[k - Len(p)] = s[i + (k - Len(p))]
      BY <1>7, <3>1
    <3> QED BY <2>2, <2>4, <3>1, <3>2
  <2> QED BY <2>3, <2>4
<1>12. RemoveAt(s, i) = t
  BY DEF RemoveAt, t, p, q, n
<1> QED BY <1>9, <1>10, <1>11, <1>12 DEF n

\* What is left without an id: all the others, and no more than before.
LEMMA WithoutFacts ==
    ASSUME cache \in Seq(Callers), Apart(cache), NEW id
    PROVE  /\ Without(id) \in Seq(Callers) /\ Apart(Without(id))
           /\ Len(Without(id)) <= Len(cache)
           /\ Cached(id) # {} => Len(Without(id)) < Len(cache)
           /\ Range(Without(id)) = {h \in Range(cache) : IdOf[h] # id}
<1>1. Len(cache) \in Nat /\ DOMAIN cache = 1 .. Len(cache)
  OBVIOUS
<1>2. CASE Cached(id) = {}
  <2>1. Without(id) = cache
    BY <1>2 DEF Without
  <2>2. \A h \in Range(cache) : IdOf[h] # id
    BY <1>2 DEF Cached
  <2> QED BY <1>1, <1>2, <2>1, <2>2
<1>3. CASE Cached(id) # {}
  <2> DEFINE i == CHOOSE k \in DOMAIN cache : IdOf[cache[k]] = id
             w == Without(id)
  <2>1. \E k \in DOMAIN cache : IdOf[cache[k]] = id
    BY <1>3 DEF Cached, Range
  <2>2. i \in DOMAIN cache /\ IdOf[cache[i]] = id
    BY <2>1
  <2>3. w = RemoveAt(cache, i)
    BY <1>3 DEF Without
  <2> HIDE DEF i
  <2>4. /\ w \in Seq(Callers) /\ Len(w) = Len(cache) - 1
        /\ \A k \in 1 .. Len(cache) - 1 : w[k] = IF k < i THEN cache[k] ELSE cache[k + 1]
    BY <1>1, <2>2, <2>3, RemoveAtFacts
  <2> HIDE DEF w
  <2>5. DOMAIN w = 1 .. Len(cache) - 1
    BY <2>4
  <2>6. \A k \in DOMAIN w : \E m \in DOMAIN cache : /\ m # i /\ w[k] = cache[m]
                                                   /\ m = IF k < i THEN k ELSE k + 1
    BY <1>1, <2>2, <2>4, <2>5
  <2>7. \A m \in DOMAIN cache : m # i => \E k \in DOMAIN w : w[k] = cache[m]
    <3> SUFFICES ASSUME NEW m \in DOMAIN cache, m # i PROVE \E k \in DOMAIN w : w[k] = cache[m]
      OBVIOUS
    <3>1. CASE m < i
      <4>1. m \in DOMAIN w /\ w[m] = cache[m]
        BY <1>1, <2>2, <2>4, <2>5, <3>1
      <4> QED BY <4>1
    <3>2. CASE ~ (m < i)
      <4>1. m - 1 \in DOMAIN w /\ ~ (m - 1 < i) /\ (m - 1) + 1 = m
        BY <1>1, <2>2, <2>5, <3>2
      <4>2. w[m - 1] = cache[m]
        BY <2>4, <2>5, <4>1
      <4> QED BY <4>1, <4>2
    <3> QED BY <3>1, <3>2
  <2>8. \A m \in DOMAIN cache : IdOf[cache[m]] = id <=> m = i
    BY <2>2 DEF Apart
  <2>9. Range(w) = {h \in Range(cache) : IdOf[h] # id}
    BY <2>6, <2>7, <2>8 DEF Range
  <2>10. Apart(w)
    <3> SUFFICES ASSUME NEW a \in DOMAIN w, NEW b \in DOMAIN w, IdOf[w[a]] = IdOf[w[b]]
                 PROVE  a = b
      BY DEF Apart
    <3>1. PICK m \in DOMAIN cache : w[a] = cache[m] /\ m = IF a < i THEN a ELSE a + 1
      BY <2>6
    <3>2. PICK l \in DOMAIN cache : w[b] = cache[l] /\ l = IF b < i THEN b ELSE b + 1
      BY <2>6
    <3>3. m = l
      BY <3>1, <3>2 DEF Apart
    <3> QED BY <1>1, <2>2, <2>5, <3>1, <3>2, <3>3
  <2>11. Len(w) <= Len(cache) /\ Len(w) < Len(cache)
    BY <1>1, <2>4
  <2> QED BY <2>4, <2>9, <2>10, <2>11 DEF w
<1> QED BY <1>2, <1>3

\* An entry is added for an id that has none.
LEMMA AppendFacts ==
    ASSUME NEW s \in Seq(Callers), Apart(s), NEW c \in Callers,
           \A h \in Range(s) : IdOf[h] # IdOf[c]
    PROVE  /\ Append(s, c) \in Seq(Callers) /\ Apart(Append(s, c))
           /\ Len(Append(s, c)) = Len(s) + 1
           /\ Range(Append(s, c)) = Range(s) \cup {c}
<1> DEFINE t == Append(s, c)
           n == Len(s)
<1>1. /\ n \in Nat /\ t \in Seq(Callers) /\ Len(t) = n + 1 /\ t[n + 1] = c
      /\ \A k \in 1 .. n : t[k] = s[k]
      /\ DOMAIN s = 1 .. n /\ DOMAIN t = 1 .. n + 1
  OBVIOUS
<1> HIDE DEF t, n
<1>2. Range(t) = Range(s) \cup {c}
  <2>1. \A k \in DOMAIN t : k \in DOMAIN s \/ k = n + 1
    BY <1>1
  <2>2. \A k \in DOMAIN s : k \in DOMAIN t /\ t[k] = s[k]
    BY <1>1
  <2>3. n + 1 \in DOMAIN t
    BY <1>1
  <2> QED BY <1>1, <2>1, <2>2, <2>3 DEF Range
<1>3. Apart(t)
  <2> SUFFICES ASSUME NEW a \in DOMAIN t, NEW b \in DOMAIN t, IdOf[t[a]] = IdOf[t[b]]
               PROVE  a = b
    BY DEF Apart
  <2>1. \A k \in 1 .. n : IdOf[t[k]] # IdOf[c]
    BY <1>1 DEF Range
  <2>2. CASE a \in 1 .. n /\ b \in 1 .. n
    BY <1>1, <2>2 DEF Apart
  <2>3. a \in 1 .. n \/ a = n + 1
    BY <1>1
  <2>4. b \in 1 .. n \/ b = n + 1
    BY <1>1
  <2> QED BY <1>1, <2>1, <2>2, <2>3, <2>4
<1>4. t \in Seq(Callers) /\ Len(t) = Len(s) + 1
  BY <1>1 DEF n
<1> QED BY <1>2, <1>3, <1>4 DEF t

\* The least recently used entry leaves.
LEMMA TailFacts ==
    ASSUME NEW s \in Seq(Callers), Apart(s), s # <<>>
    PROVE  /\ Tail(s) \in Seq(Callers) /\ Apart(Tail(s)) /\ Head(s) \in Callers
           /\ Len(Tail(s)) = Len(s) - 1
           /\ Range(Tail(s)) = Range(s) \ {Head(s)}
           /\ Len(s) > 1 => s[Len(s)] # Head(s)
<1> DEFINE t == Tail(s)
           n == Len(s)
<1>1. /\ n \in Nat \ {0} /\ t \in Seq(Callers) /\ Len(t) = n - 1 /\ Head(s) = s[1]
      /\ \A k \in 1 .. n - 1 : t[k] = s[k + 1]
      /\ DOMAIN s = 1 .. n /\ DOMAIN t = 1 .. n - 1
  OBVIOUS
<1> HIDE DEF t, n
<1>2. \A a, b \in DOMAIN s : s[a] = s[b] => a = b
  BY DEF Apart
<1>3. Range(t) = Range(s) \ {s[1]}
  <2>1. \A k \in DOMAIN t : k + 1 \in DOMAIN s /\ k + 1 # 1 /\ t[k] = s[k + 1]
    BY <1>1
  <2>2. \A m \in DOMAIN s : m # 1 => m - 1 \in DOMAIN t /\ t[m - 1] = s[m]
    <3> SUFFICES ASSUME NEW m \in DOMAIN s, m # 1
                 PROVE  m - 1 \in DOMAIN t /\ t[m - 1] = s[m]
      OBVIOUS
    <3>1. m - 1 \in 1 .. n - 1 /\ (m - 1) + 1 = m
      BY <1>1
    <3> QED BY <1>1, <3>1
  <2>3. 1 \in DOMAIN s
    BY <1>1
  <2>4. ASSUME NEW h \in Range(t) PROVE h \in Range(s) \ {s[1]}
    <3>1. PICK k \in DOMAIN t : h = t[k]
      BY DEF Range
    <3> QED BY <1>2, <2>1, <2>3, <3>1 DEF Range
  <2>5. ASSUME NEW h \in Range(s), h # s[1] PROVE h \in Range(t)
    <3>1. PICK m \in DOMAIN s : h = s[m]
      BY DEF Range
    <3>2. m - 1 \in DOMAIN t /\ t[m - 1] = h
      BY <2>2, <2>5, <3>1
    <3> QED BY <3>2 DEF Range
  <2> QED BY <2>4, <2>5
<1>4. Apart(t)
  <2> SUFFICES ASSUME NEW a \in DOMAIN t, NEW b \in DOMAIN t, IdOf[t[a]] = IdOf[t[b]]
               PROVE  a = b
    BY DEF Apart
  <2>1. a + 1 \in DOMAIN s /\ b + 1 \in DOMAIN s /\ t[a] = s[a + 1] /\ t[b] = s[b + 1]
    BY <1>1
  <2>2. a + 1 = b + 1
    BY <2>1 DEF Apart
  <2> QED BY <1>1, <2>2
<1>5. n > 1 => s[n] # s[1]
  <2>1. n > 1 => n \in DOMAIN s /\ 1 \in DOMAIN s /\ n # 1
    BY <1>1
  <2> QED BY <1>2, <2>1
<1>6. s[1] \in Callers
  BY <1>1
<1> QED BY <1>1, <1>3, <1>4, <1>5, <1>6 DEF t, n
-----------------------------------------------------------------------------
(* The cache and the handles.                                                *)

\* A call that has not opened its handle, and does not, bears on neither.
LEMMA CacheStill ==
    ASSUME CacheInv, NEW c \in Callers, NEW p \in Phases \ {"open"},
           phase[c] \notin {"open", "closed"}, phase' = [phase EXCEPT ![c] = p],
           UNCHANGED <<cache, disposed>>
    PROVE  CacheInv'
<1>1. /\ phase \in [Callers -> Phases] /\ cache \in Seq(Callers) /\ disposed \subseteq Callers
      /\ Range(cache) \subseteq Callers
  BY DEF CacheInv, Range
<1>2. phase' \in [Callers -> Phases] /\ \A h \in Callers \ {c} : phase'[h] = phase[h]
  BY <1>1
<1>3. HandlesPlaced'
  BY <1>1, <1>2 DEF CacheInv, HandlesPlaced
<1>4. NoOrphan => NoOrphan'
  BY <1>1, <1>2 DEF NoOrphan
<1> QED BY <1>2, <1>3, <1>4 DEF CacheInv, Apart

LEMMA HitKeeps ==
    ASSUME CacheInv, NEW c \in Callers, Hit(c) PROVE CacheInv'
<1>1. PICK h \in Cached(IdOf[c]) : cache' = Append(Without(IdOf[c]), h)
  BY DEF Hit
<1>2. phase[c] = "new" /\ phase' = [phase EXCEPT ![c] = "served"] /\ UNCHANGED disposed
  BY DEF Hit
<1>3. /\ phase \in [Callers -> Phases] /\ cache \in Seq(Callers) /\ Apart(cache)
      /\ Len(cache) \in Nat /\ Len(cache) <= MaxAgents /\ disposed \subseteq Callers
      /\ Range(cache) \cap disposed = {} /\ Range(cache) \subseteq Callers
  BY DEF CacheInv, Range
<1> DEFINE w == Without(IdOf[c])
<1>4. /\ w \in Seq(Callers) /\ Apart(w) /\ Len(w) < Len(cache)
      /\ Range(w) = {g \in Range(cache) : IdOf[g] # IdOf[c]}
  BY <1>1, <1>3, WithoutFacts
<1> HIDE DEF w
<1>5. h \in Range(cache) /\ IdOf[h] = IdOf[c] /\ h \in Callers
  BY <1>1, <1>3 DEF Cached
<1>6. /\ Append(w, h) \in Seq(Callers) /\ Apart(Append(w, h))
      /\ Len(Append(w, h)) = Len(w) + 1 /\ Range(Append(w, h)) = Range(w) \cup {h}
  BY <1>4, <1>5, AppendFacts
<1>7. cache' = Append(w, h)
  BY <1>1 DEF w
<1>8. \A g \in Range(cache) : IdOf[g] = IdOf[c] => g = h
  <2>1. \A a, b \in DOMAIN cache : IdOf[cache[a]] = IdOf[cache[b]] => a = b
    BY <1>3 DEF Apart
  <2> QED BY <1>5, <2>1 DEF Range
<1>9. Range(cache') = Range(cache)
  BY <1>4, <1>5, <1>6, <1>7, <1>8
<1>10. cache' \in Seq(Callers) /\ Apart(cache') /\ Len(cache') <= MaxAgents
  <2>1. Len(w) \in Nat /\ MaxAgents \in Nat
    BY <1>4, ConstantsAssumption
  <2> QED BY <1>3, <1>4, <1>6, <1>7, <2>1
<1>11. phase' \in [Callers -> Phases] /\ \A g \in Callers \ {c} : phase'[g] = phase[g]
  BY <1>2, <1>3 DEF Phases
<1>12. HandlesPlaced'
  BY <1>2, <1>3, <1>9, <1>11 DEF CacheInv, HandlesPlaced
<1>13. NoOrphan => NoOrphan'
  BY <1>2, <1>3, <1>9, <1>11 DEF NoOrphan
<1> QED BY <1>2, <1>3, <1>9, <1>10, <1>11, <1>12, <1>13 DEF CacheInv, Apart

\* A handle opens.  What the insertion pushes out is disposed.
LEMMA HydratedKeeps ==
    ASSUME CacheInv, NEW c \in Callers, Hydrated(c) PROVE CacheInv'
<1>1. /\ phase \in [Callers -> Phases] /\ cache \in Seq(Callers) /\ Apart(cache)
      /\ Len(cache) \in Nat /\ Len(cache) <= MaxAgents /\ disposed \subseteq Callers
      /\ Range(cache) \cap disposed = {} /\ Range(cache) \subseteq Callers /\ MaxAgents \in Nat
  BY ConstantsAssumption DEF CacheInv, Range
<1>2. phase[c] = "hydrating" /\ phase' = [phase EXCEPT ![c] = "open"]
  BY DEF Hydrated
<1>3. /\ phase' \in [Callers -> Phases] /\ phase'[c] = "open"
      /\ \A g \in Callers \ {c} : phase'[g] = phase[g]
  BY <1>1, <1>2 DEF Phases
<1>4. c \notin Range(cache) /\ c \notin disposed
  BY <1>2 DEF CacheInv, HandlesPlaced
<1>5. CASE c \in Uncached \/ MaxAgents = 0
  <2>1. UNCHANGED <<cache, disposed>>
    BY <1>5 DEF Hydrated
  <2>2. HandlesPlaced'
    BY <1>1, <1>3, <1>4, <2>1 DEF CacheInv, HandlesPlaced
  <2>3. MaxAgents > 0 => NoOrphan'
    BY <1>1, <1>3, <1>5, <2>1 DEF CacheInv, NoOrphan
  <2> QED BY <1>1, <1>3, <2>1, <2>2, <2>3 DEF CacheInv, Apart
<1>6. CASE ~ (c \in Uncached \/ MaxAgents = 0)
  <2> DEFINE w == Without(IdOf[c])
             e == Append(w, c)
             over == Len(e) > MaxAgents
             gone == Cached(IdOf[c]) \cup (IF over THEN {Head(e)} ELSE {})
  <2>1. cache' = (IF over THEN Tail(e) ELSE e) /\ disposed' = disposed \cup gone
    BY <1>6 DEF Hydrated, Insert
  <2>2. /\ w \in Seq(Callers) /\ Apart(w) /\ Len(w) <= Len(cache)
        /\ Range(w) = {g \in Range(cache) : IdOf[g] # IdOf[c]}
    BY <1>1, WithoutFacts
  <2> HIDE DEF w
  <2>3. /\ e \in Seq(Callers) /\ Apart(e) /\ Len(e) = Len(w) + 1
        /\ Range(e) = Range(w) \cup {c}
    BY <2>2, AppendFacts
  <2>4. e # <<>> /\ e[Len(e)] = c /\ Len(w) \in Nat
    BY <2>2
  <2> HIDE DEF e
  <2>5. /\ Tail(e) \in Seq(Callers) /\ Apart(Tail(e)) /\ Head(e) \in Callers
        /\ Len(Tail(e)) = Len(e) - 1 /\ Range(Tail(e)) = Range(e) \ {Head(e)}
        /\ Len(e) > 1 => e[Len(e)] # Head(e)
    BY <2>3, <2>4, TailFacts
  <2>6. over => Len(e) > 1
    BY <1>1, <1>6, <2>3, <2>4
  <2>7. /\ cache' \in Seq(Callers) /\ Apart(cache') /\ Len(cache') <= MaxAgents
    <3>1. CASE over
      BY <1>1, <2>1, <2>2, <2>3, <2>4, <2>5, <3>1
    <3>2. CASE ~ over
      BY <1>1, <2>1, <2>2, <2>3, <2>4, <3>2
    <3> QED BY <3>1, <3>2
  <2>8. gone \subseteq Range(cache) /\ c \notin gone
    <3>1. over => Head(e) # c
      BY <2>4, <2>5, <2>6
    <3>2. Head(e) \in Range(e)
      <4>1. 1 \in DOMAIN e /\ Head(e) = e[1]
        BY <2>3, <2>4
      <4> QED BY <4>1 DEF Range
    <3>3. over => Head(e) \in Range(cache)
      BY <2>2, <2>3, <3>1, <3>2
    <3> HIDE DEF over
    <3> QED BY <1>4, <3>1, <3>3 DEF Cached
  <2>9. Range(cache') = (Range(cache) \ gone) \cup {c}
    <3>1. Range(e) = (Range(cache) \ Cached(IdOf[c])) \cup {c}
      BY <2>2, <2>3 DEF Cached
    <3>2. CASE over
      <4>1. gone = Cached(IdOf[c]) \cup {Head(e)} /\ Range(cache') = Range(e) \ {Head(e)}
        BY <2>1, <2>5, <3>2
      <4> HIDE DEF gone
      <4> QED BY <2>8, <3>1, <4>1
    <3>3. CASE ~ over
      <4>1. gone = Cached(IdOf[c]) /\ Range(cache') = Range(e)
        BY <2>1, <3>3
      <4> QED BY <3>1, <4>1
    <3> QED BY <3>2, <3>3
  <2> HIDE DEF gone
  <2>10. disposed' \subseteq Callers /\ Range(cache') \cap disposed' = {}
    BY <1>1, <1>4, <2>1, <2>8, <2>9
  <2>11. HandlesPlaced'
    <3>1. \A h \in Range(cache') : phase'[h] = "open"
      BY <1>1, <1>3, <2>9 DEF CacheInv, HandlesPlaced
    <3>2. \A h \in disposed' : phase'[h] \in {"open", "closed"}
      BY <1>1, <1>3, <1>4, <2>1, <2>8 DEF CacheInv, HandlesPlaced
    <3> QED BY <3>1, <3>2 DEF HandlesPlaced
  <2>12. MaxAgents > 0 => NoOrphan'
    <3> SUFFICES ASSUME NoOrphan, NEW d \in Callers \ Uncached, phase'[d] = "open",
                        d \notin disposed'
                 PROVE  \/ d \in Range(cache')
                        \/ \E u \in Uncached : IdOf[u] = IdOf[d] /\ u \in disposed'
      BY DEF NoOrphan, CacheInv
    <3>1. CASE d = c
      BY <2>9, <3>1
    <3>2. CASE d # c
      <4>1. \/ d \in Range(cache)
            \/ \E u \in Uncached : IdOf[u] = IdOf[d] /\ u \in disposed
        BY <1>3, <2>1, <3>2 DEF NoOrphan
      <4> QED BY <2>1, <2>9, <4>1
    <3> QED BY <3>1, <3>2
  <2> QED BY <1>3, <2>7, <2>10, <2>11, <2>12 DEF CacheInv
<1> QED BY <1>5, <1>6

\* An eviction, or a disposal from outside, which forgets the id's entry.
LEMMA ForgetKeeps ==
    ASSUME CacheInv, NEW h \in Callers, phase[h] = "open", h \notin disposed,
           cache' = Without(IdOf[h]), disposed' = disposed \cup {h}, UNCHANGED phase
    PROVE  CacheInv'
<1>1. /\ phase \in [Callers -> Phases] /\ cache \in Seq(Callers) /\ Apart(cache)
      /\ Len(cache) \in Nat /\ Len(cache) <= MaxAgents /\ disposed \subseteq Callers
      /\ Range(cache) \cap disposed = {} /\ Range(cache) \subseteq Callers /\ MaxAgents \in Nat
  BY ConstantsAssumption DEF CacheInv, Range
<1> DEFINE w == Without(IdOf[h])
<1>2. /\ w \in Seq(Callers) /\ Apart(w) /\ Len(w) <= Len(cache)
      /\ Range(w) = {g \in Range(cache) : IdOf[g] # IdOf[h]}
  BY <1>1, WithoutFacts
<1> HIDE DEF w
<1>3. cache' = w
  BY DEF w
<1>4. cache' \in Seq(Callers) /\ Apart(cache') /\ Len(cache') <= MaxAgents
  <2>1. Len(w) \in Nat
    BY <1>2
  <2> QED BY <1>1, <1>2, <1>3, <2>1
<1>5. disposed' \subseteq Callers /\ Range(cache') \cap disposed' = {}
  BY <1>1, <1>2, <1>3
<1>6. HandlesPlaced'
  BY <1>2, <1>3 DEF CacheInv, HandlesPlaced
<1>7. MaxAgents > 0 => NoOrphan'
  <2> SUFFICES ASSUME NoOrphan, NEW d \in Callers \ Uncached, phase[d] = "open",
                      d \notin disposed'
               PROVE  \/ d \in Range(cache')
                      \/ \E u \in Uncached : IdOf[u] = IdOf[d] /\ u \in disposed'
    BY DEF NoOrphan, CacheInv
  <2>1. \/ d \in Range(cache)
        \/ \E u \in Uncached : IdOf[u] = IdOf[d] /\ u \in disposed
    BY DEF NoOrphan
  <2>2. CASE d \in Range(cache) /\ IdOf[d] = IdOf[h]
    <3>1. h \notin Range(cache)
      <4>1. \A a, b \in DOMAIN cache : IdOf[cache[a]] = IdOf[cache[b]] => a = b
        BY <1>1 DEF Apart
      <4> QED BY <2>2, <4>1 DEF Range
    <3>2. CASE h \in Uncached
      BY <2>2, <3>2
    <3>3. CASE h \notin Uncached
      BY <2>2, <3>1, <3>3 DEF NoOrphan
    <3> QED BY <3>2, <3>3
  <2>3. CASE d \in Range(cache) /\ IdOf[d] # IdOf[h]
    BY <1>2, <1>3, <2>3
  <2>4. CASE \E u \in Uncached : IdOf[u] = IdOf[d] /\ u \in disposed
    BY <2>4
  <2> QED BY <2>1, <2>2, <2>3, <2>4
<1> QED BY <1>1, <1>4, <1>5, <1>6, <1>7 DEF CacheInv

-----------------------------------------------------------------------------
(* The leases.                                                               *)

\* One store more, or one less, and the count stays above the holders.
LEMMA HolderJoins ==
    ASSUME LeaseInv, NEW s \in Stores, NEW id \in Ids,
           leases' = [leases EXCEPT ![s] = @ \cup {id}]
    PROVE  /\ \A i \in Ids \ {id} : Holders(i)' = Holders(i)
           /\ IsFiniteSet(Holders(id)') /\ Cardinality(Holders(id)') <= refs[id] + 1
<1>1. leases \in [Stores -> SUBSET Ids] /\ refs[id] \in Nat
  BY DEF LeaseInv
<1>2. IsFiniteSet(Holders(id)) /\ Cardinality(Holders(id)) <= refs[id]
  BY DEF LeaseInv, LeasesCounted
<1>3. Holders(id)' = Holders(id) \cup {s}
  BY <1>1 DEF Holders
<1>4. Cardinality(Holders(id)) \in Nat
  BY <1>2, FS_CardinalityType
<1>5. /\ IsFiniteSet(Holders(id) \cup {s})
      /\ Cardinality(Holders(id) \cup {s}) =
            IF s \in Holders(id) THEN Cardinality(Holders(id)) ELSE Cardinality(Holders(id)) + 1
  BY <1>2, FS_AddElement
<1>6. Cardinality(Holders(id) \cup {s}) <= refs[id] + 1
  BY <1>1, <1>2, <1>4, <1>5
<1>7. \A i \in Ids \ {id} : Holders(i)' = Holders(i)
  BY <1>1 DEF Holders
<1> QED BY <1>3, <1>5, <1>6, <1>7

LEMMA TakeCounts ==
    ASSUME LeaseInv, NEW c \in Callers, AcquireTake(c)
    PROVE  /\ leases' \in [Stores -> SUBSET Ids] /\ refs' \in [Ids -> Nat]
           /\ lock' \in [Ids -> {"free", "ours", "rival"}] /\ LeasesCounted'
           /\ \A s \in Stores : leases[s] \subseteq leases'[s]
           /\ IdOf[c] \in leases'[StoreOf[c]]
<1> DEFINE id == IdOf[c]
           s == StoreOf[c]
<1>1. id \in Ids /\ s \in Stores
  BY ConstantsAssumption
<1>2. /\ leases \in [Stores -> SUBSET Ids] /\ refs \in [Ids -> Nat]
      /\ lock \in [Ids -> {"free", "ours", "rival"}]
  BY DEF LeaseInv
<1>3. /\ leases' = [leases EXCEPT ![s] = @ \cup {id}]
      /\ refs' = [refs EXCEPT ![id] = @ + 1]
      /\ lock' = [lock EXCEPT ![id] = "ours"]
  BY DEF AcquireTake
<1> HIDE DEF id, s
<1>4. /\ leases' \in [Stores -> SUBSET Ids] /\ refs' \in [Ids -> Nat]
      /\ lock' \in [Ids -> {"free", "ours", "rival"}]
      /\ \A t \in Stores : leases[t] \subseteq leases'[t]
      /\ id \in leases'[s]
  BY <1>1, <1>2, <1>3
<1>5. LeasesCounted'
  <2> SUFFICES ASSUME NEW i \in Ids
               PROVE  /\ IsFiniteSet(Holders(i)') /\ Cardinality(Holders(i)') <= refs'[i]
                      /\ lock'[i] = "ours" <=> refs'[i] > 0
    BY DEF LeasesCounted
  <2>1. CASE i = id
    <3>1. refs'[i] = refs[i] + 1 /\ lock'[i] = "ours" /\ refs[i] \in Nat
      BY <1>1, <1>2, <1>3, <2>1
    <3>2. IsFiniteSet(Holders(i)') /\ Cardinality(Holders(i)') <= refs[i] + 1
      BY <1>1, <1>3, <2>1, HolderJoins
    <3> QED BY <3>1, <3>2
  <2>2. CASE i # id
    <3>1. refs'[i] = refs[i] /\ lock'[i] = lock[i]
      BY <1>1, <1>2, <1>3, <2>2
    <3>2. Holders(i)' = Holders(i)
      BY <1>1, <1>3, <2>2, HolderJoins
    <3> QED BY <3>1, <3>2 DEF LeaseInv, LeasesCounted
  <2> QED BY <2>1, <2>2
<1> QED BY <1>4, <1>5 DEF id, s

LEMMA GiveBackCounts ==
    ASSUME LeaseInv, NEW s \in Stores, NEW ids, ids \subseteq leases[s], GiveBack(s, ids)
    PROVE  /\ leases' \in [Stores -> SUBSET Ids] /\ refs' \in [Ids -> Nat]
           /\ lock' \in [Ids -> {"free", "ours", "rival"}] /\ LeasesCounted'
           /\ \A t \in Stores \ {s} : leases'[t] = leases[t]
<1>1. /\ leases \in [Stores -> SUBSET Ids] /\ refs \in [Ids -> Nat]
      /\ lock \in [Ids -> {"free", "ours", "rival"}]
  BY DEF LeaseInv
<1>2. /\ leases' = [leases EXCEPT ![s] = @ \ ids]
      /\ refs' = [i \in Ids |-> IF i \in ids THEN refs[i] - 1 ELSE refs[i]]
      /\ lock' = [i \in Ids |-> IF i \in ids /\ refs[i] = 1 THEN "free" ELSE lock[i]]
  BY DEF GiveBack
<1>3. /\ leases' \in [Stores -> SUBSET Ids] /\ \A t \in Stores \ {s} : leases'[t] = leases[t]
      /\ leases'[s] = leases[s] \ ids
  BY <1>1, <1>2
<1>4. ASSUME NEW i \in Ids
      PROVE  /\ refs'[i] \in Nat /\ lock'[i] \in {"free", "ours", "rival"}
             /\ IsFiniteSet(Holders(i)') /\ Cardinality(Holders(i)') <= refs'[i]
             /\ lock'[i] = "ours" <=> refs'[i] > 0
  <2>1. /\ IsFiniteSet(Holders(i)) /\ Cardinality(Holders(i)) <= refs[i]
        /\ lock[i] = "ours" <=> refs[i] > 0
    BY DEF LeaseInv, LeasesCounted
  <2>2. CASE i \in ids
    <3>1. s \in Holders(i) /\ Holders(i)' = Holders(i) \ {s}
      BY <1>1, <1>3, <2>2 DEF Holders
    <3>2. /\ IsFiniteSet(Holders(i) \ {s})
          /\ Cardinality(Holders(i) \ {s}) = Cardinality(Holders(i)) - 1
      BY <2>1, <3>1, FS_RemoveElement
    <3>3. Cardinality(Holders(i) \ {s}) \in Nat
      BY <3>2, FS_CardinalityType
    <3>4. Cardinality(Holders(i)) \in Nat
      BY <2>1, FS_CardinalityType
    <3>5. refs[i] \in Nat /\ refs'[i] = refs[i] - 1
      BY <1>1, <1>2, <2>2
    <3>6. refs[i] >= 1 /\ Cardinality(Holders(i) \ {s}) <= refs'[i]
      BY <2>1, <3>2, <3>3, <3>4, <3>5
    <3>7. lock'[i] = IF refs[i] = 1 THEN "free" ELSE "ours"
      <4>1. lock[i] = "ours"
        BY <2>1, <3>5, <3>6
      <4> QED BY <1>2, <2>2, <4>1
    <3>8. refs'[i] \in Nat /\ (refs'[i] > 0 <=> refs[i] # 1)
      BY <3>5, <3>6
    <3> QED BY <3>1, <3>2, <3>6, <3>7, <3>8
  <2>3. CASE i \notin ids
    <3>1. Holders(i)' = Holders(i)
      BY <1>1, <1>3, <2>3 DEF Holders
    <3>2. refs'[i] = refs[i] /\ lock'[i] = lock[i]
      BY <1>2, <2>3
    <3> QED BY <1>1, <2>1, <3>1, <3>2
  <2> QED BY <2>2, <2>3
<1>5. refs' \in [Ids -> Nat] /\ lock' \in [Ids -> {"free", "ours", "rival"}]
  BY <1>2, <1>4
<1>6. LeasesCounted'
  BY <1>4 DEF LeasesCounted
<1> QED BY <1>3, <1>5, <1>6

\* A call that comes no closer to writing leaves the leases as they are.
LEMMA LeaseStill ==
    ASSUME LeaseInv, phase \in [Callers -> Phases], NEW c \in Callers, NEW p,
           phase' = [phase EXCEPT ![c] = p], UNCHANGED <<bare, leases, refs, lock>>,
           \/ p \notin {"hydrating", "open"}
           \/ phase[c] = "hydrating"
           \/ IdOf[c] \in leases[StoreOf[c]]
    PROVE  LeaseInv'
<1>1. LeasesCounted'
  BY DEF LeaseInv, LeasesCounted, Holders
<1>2. WritersHold => WritersHold'
  BY DEF WritersHold
<1> QED BY <1>1, <1>2 DEF LeaseInv, StoresApart

\* The leases of a store are given back by the agent whose store it is.
LEMMA StoreGives ==
    ASSUME LeaseInv, phase \in [Callers -> Phases], NEW c \in Callers, NEW ids,
           ids \subseteq leases[StoreOf[c]], GiveBack(StoreOf[c], ids),
           NEW p \in {"failed", "closed"}, phase' = [phase EXCEPT ![c] = p], UNCHANGED bare
    PROVE  LeaseInv'
<1>1. StoreOf[c] \in Stores
  BY ConstantsAssumption
<1>2. /\ leases' \in [Stores -> SUBSET Ids] /\ refs' \in [Ids -> Nat]
      /\ lock' \in [Ids -> {"free", "ours", "rival"}] /\ LeasesCounted'
      /\ \A t \in Stores \ {StoreOf[c]} : leases'[t] = leases[t]
  BY <1>1, GiveBackCounts
<1>3. ASSUME StoresApart PROVE WritersHold'
  <2> SUFFICES ASSUME NEW d \in Callers, phase'[d] \in {"hydrating", "open"}, d \notin bare
               PROVE  IdOf[d] \in leases'[StoreOf[d]]
    BY DEF WritersHold
  <2>1. d # c /\ phase'[d] = phase[d]
    OBVIOUS
  <2>2. StoreOf[d] # StoreOf[c] /\ StoreOf[d] \in Stores
    BY <1>3, <2>1, ConstantsAssumption DEF StoresApart
  <2>3. IdOf[d] \in leases[StoreOf[d]]
    BY <1>3, <2>1 DEF LeaseInv, WritersHold
  <2> QED BY <1>2, <2>2, <2>3
<1>4. bare' \subseteq Callers
  BY DEF LeaseInv
<1> QED BY <1>2, <1>3, <1>4 DEF LeaseInv, StoresApart

LEMMA TakeKeeps ==
    ASSUME LeaseInv, phase \in [Callers -> Phases], NEW c \in Callers, AcquireTake(c)
    PROVE  LeaseInv'
<1>1. /\ leases' \in [Stores -> SUBSET Ids] /\ refs' \in [Ids -> Nat]
      /\ lock' \in [Ids -> {"free", "ours", "rival"}] /\ LeasesCounted'
      /\ \A s \in Stores : leases[s] \subseteq leases'[s]
      /\ IdOf[c] \in leases'[StoreOf[c]]
  BY TakeCounts
<1>2. phase' = [phase EXCEPT ![c] = "hydrating"] /\ UNCHANGED bare
  BY DEF AcquireTake
<1>3. WritersHold => WritersHold'
  BY <1>1, <1>2, ConstantsAssumption DEF WritersHold
<1> QED BY <1>1, <1>2, <1>3 DEF LeaseInv, StoresApart

LEMMA UnavailableKeeps ==
    ASSUME LeaseInv, phase \in [Callers -> Phases], NEW c \in Callers, AcquireUnavailable(c)
    PROVE  LeaseInv'
<1>1. /\ bare' = bare \cup {c} /\ phase' = [phase EXCEPT ![c] = "hydrating"]
      /\ UNCHANGED <<leases, refs, lock>>
  BY DEF AcquireUnavailable
<1>2. LeasesCounted'
  BY <1>1 DEF LeaseInv, LeasesCounted, Holders
<1>3. WritersHold => WritersHold'
  BY <1>1 DEF WritersHold
<1> QED BY <1>1, <1>2, <1>3 DEF LeaseInv, StoresApart

LEMMA RivalKeeps ==
    ASSUME LeaseInv, NEW id \in Ids, Rival(id) PROVE LeaseInv'
<1>1. /\ UNCHANGED <<phase, bare, leases, refs>> /\ lock[id] \in {"free", "rival"}
      /\ \E l \in {"free", "rival"} : lock' = [lock EXCEPT ![id] = l]
  BY DEF Rival
<1>2. lock \in [Ids -> {"free", "ours", "rival"}]
  BY DEF LeaseInv
<1>3. lock' \in [Ids -> {"free", "ours", "rival"}] /\ \A i \in Ids : lock'[i] = "ours" <=> lock[i] = "ours"
  BY <1>1, <1>2
<1>4. LeasesCounted'
  BY <1>1, <1>3 DEF LeaseInv, LeasesCounted, Holders
<1>5. WritersHold => WritersHold'
  BY <1>1 DEF WritersHold
<1> QED BY <1>1, <1>3, <1>4, <1>5 DEF LeaseInv, StoresApart
-----------------------------------------------------------------------------

LEMMA InitHolds == Init => IInv
<1> SUFFICES ASSUME Init PROVE IInv
  OBVIOUS
<1>1. result \in [Callers -> Callers \cup {None}]
  BY DEF Init
<1>2. CacheInv
  <2>1. phase \in [Callers -> Phases] /\ \A c \in Callers : phase[c] = "new"
    BY DEF Init, Phases
  <2>2. cache \in Seq(Callers) /\ Len(cache) = 0 /\ DOMAIN cache = {} /\ disposed = {}
    BY DEF Init
  <2>3. Range(cache) = {} /\ Apart(cache)
    BY <2>2 DEF Range, Apart
  <2>4. HandlesPlaced /\ NoOrphan
    BY <2>1, <2>2, <2>3 DEF HandlesPlaced, NoOrphan
  <2>5. Len(cache) <= MaxAgents
    BY <2>2, ConstantsAssumption
  <2> QED BY <2>1, <2>2, <2>3, <2>4, <2>5 DEF CacheInv
<1>3. LeaseInv
  <2>1. /\ bare = {} /\ leases = [s \in Stores |-> {}] /\ refs = [i \in Ids |-> 0]
        /\ lock = [i \in Ids |-> "free"] /\ phase = [c \in Callers |-> "new"]
    BY DEF Init
  <2>2. \A id \in Ids : Holders(id) = {}
    BY <2>1 DEF Holders
  <2>3. LeasesCounted
    BY <2>1, <2>2, FS_EmptySet DEF LeasesCounted
  <2>4. WritersHold
    BY <2>1 DEF WritersHold
  <2> QED BY <2>1, <2>3, <2>4 DEF LeaseInv
<1> QED BY <1>1, <1>2, <1>3 DEF IInv

LEMMA StartKeeps ==
    ASSUME IInv, NEW c \in Callers, Start(c) PROVE IInv'
<1>1. /\ CacheInv /\ LeaseInv /\ phase \in [Callers -> Phases]
      /\ result \in [Callers -> Callers \cup {None}]
  BY DEF IInv, CacheInv
<1>2. result' \in [Callers -> Callers \cup {None}]
  <2>1. CASE Hit(c)
    <3>1. PICK h \in Cached(IdOf[c]) : result' = [result EXCEPT ![c] = h]
      BY <2>1 DEF Hit
    <3>2. h \in Callers
      BY <1>1, <3>1 DEF CacheInv, Cached, Range
    <3> QED BY <1>1, <3>1, <3>2
  <2>2. CASE Hydrated(c)
    BY <1>1, <2>2 DEF Hydrated
  <2>3. CASE ~ Hit(c) /\ ~ Hydrated(c)
    BY <1>1, <2>3 DEF Start, Build, BuildFails, AcquireCheck, AcquireTake, AcquireBusy,
                      AcquireUnavailable, HydrateFails
  <2> QED BY <2>1, <2>2, <2>3
<1>3. CASE Hit(c)
  <2>1. phase' = [phase EXCEPT ![c] = "served"] /\ UNCHANGED <<bare, leases, refs, lock>>
    BY <1>3 DEF Hit
  <2>2. LeaseInv'
    BY <1>1, <2>1, LeaseStill
  <2> QED BY <1>1, <1>2, <1>3, <2>2, HitKeeps DEF IInv
<1>4. CASE Build(c) \/ BuildFails(c) \/ AcquireBusy(c)
  <2>1. PICK p \in {"building", "failed"} : phase' = [phase EXCEPT ![c] = p]
    BY <1>4 DEF Build, BuildFails, AcquireBusy
  <2>2. /\ UNCHANGED <<cache, disposed, bare, leases, refs, lock>>
        /\ phase[c] \in {"new", "building", "acquiring"}
    BY <1>4 DEF Build, BuildFails, AcquireBusy
  <2>3. p \in Phases \ {"open"} /\ p \notin {"hydrating", "open"}
    BY DEF Phases
  <2>4. CacheInv'
    BY <1>1, <2>1, <2>2, <2>3, CacheStill
  <2>5. LeaseInv'
    BY <1>1, <2>1, <2>2, <2>3, LeaseStill
  <2> QED BY <1>2, <2>4, <2>5 DEF IInv
<1>5. CASE AcquireCheck(c)
  <2> DEFINE p == IF IdOf[c] \in leases[StoreOf[c]] THEN "hydrating" ELSE "acquiring"
  <2>1. /\ phase[c] = "building" /\ phase' = [phase EXCEPT ![c] = p]
        /\ UNCHANGED <<cache, disposed, bare, leases, refs, lock>>
    BY <1>5 DEF AcquireCheck
  <2>2. /\ p \in Phases \ {"open"}
        /\ p \notin {"hydrating", "open"} \/ IdOf[c] \in leases[StoreOf[c]]
    BY DEF Phases
  <2> HIDE DEF p
  <2>3. CacheInv'
    BY <1>1, <2>1, <2>2, CacheStill
  <2>4. LeaseInv'
    BY <1>1, <2>1, <2>2, LeaseStill
  <2> QED BY <1>2, <2>3, <2>4 DEF IInv
<1>6. CASE AcquireTake(c) \/ AcquireUnavailable(c)
  <2>1. /\ phase[c] = "acquiring" /\ phase' = [phase EXCEPT ![c] = "hydrating"]
        /\ UNCHANGED <<cache, disposed>>
    BY <1>6 DEF AcquireTake, AcquireUnavailable
  <2>2. "hydrating" \in Phases \ {"open"}
    BY DEF Phases
  <2>3. CacheInv'
    BY <1>1, <2>1, <2>2, CacheStill
  <2>4. LeaseInv'
    BY <1>1, <1>6, TakeKeeps, UnavailableKeeps
  <2> QED BY <1>2, <2>3, <2>4 DEF IInv
<1>7. CASE Hydrated(c)
  <2>1. /\ phase[c] = "hydrating" /\ phase' = [phase EXCEPT ![c] = "open"]
        /\ UNCHANGED <<bare, leases, refs, lock>>
    BY <1>7 DEF Hydrated
  <2>2. LeaseInv'
    BY <1>1, <2>1, LeaseStill
  <2> QED BY <1>1, <1>2, <1>7, <2>2, HydratedKeeps DEF IInv
<1>8. CASE HydrateFails(c)
  <2> DEFINE ids == {IdOf[c]} \cap leases[StoreOf[c]]
  <2>1. /\ phase[c] = "hydrating" /\ phase' = [phase EXCEPT ![c] = "failed"]
        /\ GiveBack(StoreOf[c], ids) /\ UNCHANGED <<cache, disposed, bare>>
    BY <1>8 DEF HydrateFails
  <2>2. "failed" \in Phases \ {"open"} /\ "failed" \in {"failed", "closed"}
    BY DEF Phases
  <2>3. ids \subseteq leases[StoreOf[c]]
    OBVIOUS
  <2> HIDE DEF ids
  <2>4. CacheInv'
    BY <1>1, <2>1, <2>2, CacheStill
  <2>5. LeaseInv'
    BY <1>1, <2>1, <2>2, <2>3, StoreGives
  <2> QED BY <1>2, <2>4, <2>5 DEF IInv
<1> QED BY <1>3, <1>4, <1>5, <1>6, <1>7, <1>8 DEF Start

LEMMA EndKeeps ==
    ASSUME IInv, NEW h \in Callers, Evict(h) \/ Dispose(h) \/ DisposeStore(h) PROVE IInv'
<1>1. /\ CacheInv /\ LeaseInv /\ phase \in [Callers -> Phases] /\ HandlesPlaced
      /\ Range(cache) \cap disposed = {} /\ result \in [Callers -> Callers \cup {None}]
  BY DEF IInv, CacheInv
<1>2. result' \in [Callers -> Callers \cup {None}]
  BY <1>1 DEF Evict, Dispose, DisposeStore
<1>3. CASE Evict(h) \/ Dispose(h)
  <2>1. /\ phase[h] = "open" /\ h \notin disposed
        /\ cache' = Without(IdOf[h]) /\ disposed' = disposed \cup {h}
        /\ UNCHANGED <<phase, bare, leases, refs, lock>>
    BY <1>1, <1>3 DEF Evict, Dispose, HandlesPlaced
  <2>2. CacheInv'
    BY <1>1, <2>1, ForgetKeeps
  <2>3. LeaseInv'
    BY <1>1, <2>1 DEF LeaseInv, LeasesCounted, Holders, StoresApart, WritersHold
  <2> QED BY <1>2, <2>2, <2>3 DEF IInv
<1>4. CASE DisposeStore(h)
  <2>1. /\ phase[h] = "open" /\ h \in disposed /\ phase' = [phase EXCEPT ![h] = "closed"]
        /\ GiveBack(StoreOf[h], leases[StoreOf[h]]) /\ UNCHANGED <<cache, disposed, bare>>
    BY <1>4 DEF DisposeStore
  <2>2. LeaseInv'
    <3>1. leases[StoreOf[h]] \subseteq leases[StoreOf[h]] /\ "closed" \in {"failed", "closed"}
      OBVIOUS
    <3> QED BY <1>1, <2>1, <3>1, StoreGives
  <2>3. /\ phase' \in [Callers -> Phases] /\ phase'[h] = "closed"
        /\ \A g \in Callers \ {h} : phase'[g] = phase[g]
    BY <1>1, <2>1 DEF Phases
  <2>4. h \notin Range(cache) /\ Range(cache) \subseteq Callers /\ disposed \subseteq Callers
    BY <1>1, <2>1 DEF CacheInv, Range
  <2>5. HandlesPlaced'
    BY <1>1, <2>1, <2>3, <2>4 DEF HandlesPlaced
  <2>6. NoOrphan => NoOrphan'
    BY <2>1, <2>3 DEF NoOrphan
  <2>7. CacheInv'
    BY <1>1, <2>1, <2>3, <2>5, <2>6 DEF CacheInv, Apart
  <2> QED BY <1>2, <2>2, <2>7 DEF IInv
<1> QED BY <1>3, <1>4

LEMMA Inductive ==
    ASSUME IInv, [Next]_vars PROVE IInv'
<1>1. CASE \E c \in Callers : Start(c)
  BY <1>1, StartKeeps
<1>2. CASE \E c \in Callers : Evict(c) \/ Dispose(c) \/ DisposeStore(c)
  BY <1>2, EndKeeps
<1>3. CASE \E id \in Ids : Rival(id)
  <2>1. UNCHANGED <<phase, result, cache, disposed>>
    BY <1>3 DEF Rival
  <2>2. LeaseInv'
    BY <1>3, RivalKeeps DEF IInv
  <2>3. CacheInv'
    BY <2>1 DEF IInv, CacheInv, Apart, HandlesPlaced, NoOrphan
  <2> QED BY <2>1, <2>2, <2>3 DEF IInv
<1>4. CASE UNCHANGED vars
  <2>1. CacheInv'
    BY <1>4 DEF vars, IInv, CacheInv, Apart, HandlesPlaced, NoOrphan
  <2>2. LeaseInv'
    BY <1>4 DEF vars, IInv, LeaseInv, LeasesCounted, Holders, StoresApart, WritersHold
  <2> QED BY <1>4, <2>1, <2>2 DEF vars, IInv
<1> QED BY <1>1, <1>2, <1>3, <1>4 DEF Next

\* The inductive invariant holds throughout, for every value of the constants.
THEOREM Invariant == Spec => []IInv
<1>1. Init => IInv
  BY InitHolds
<1>2. IInv /\ [Next]_vars => IInv'
  BY Inductive
<1> QED BY <1>1, <1>2, PTL DEF Spec

\* The cache has one entry per id, no more than its capacity and none that is
\* being disposed, and no lease is given back more often than it was taken
\* (LiveAgentRegistry.set, forget, evictLRU; createProxy.release), whether or
\* not stores are shared.
THEOREM TypeCorrect == Spec => []TypeOK
<1>1. IInv => TypeOK
  BY DEF IInv, CacheInv, LeaseInv, TypeOK, Apart
<1> QED BY <1>1, Invariant, PTL

\* With a cache of any capacity, calls that race for an id, evictions and
\* disposals leave no handle of getOrCreate open outside the cache, but where
\* a handle of the id from Agent.resume was disposed.
THEOREM NothingOrphaned == ASSUME MaxAgents > 0 PROVE Spec => []NoOrphan
<1>1. IInv => NoOrphan
  BY DEF IInv, CacheInv
<1> QED BY <1>1, Invariant, PTL

\* With a store per agent, no handle of any number of them writes its session
\* without the process's lease, however their starts and disposals interleave
\* (acquireShared, createProxy.release, disposeLocalAgentSession).
THEOREM WritersLeased == ASSUME StoresApart PROVE Spec => []WritesUnderLease
<1>1. IInv => WritesUnderLease
  <2> SUFFICES ASSUME IInv, NEW c \in Callers, phase[c] \in {"hydrating", "open"},
                      c \notin bare
               PROVE  lock[IdOf[c]] = "ours"
    BY DEF WritesUnderLease
  <2> DEFINE id == IdOf[c]
  <2>1. id \in Ids /\ StoreOf[c] \in Stores
    BY ConstantsAssumption
  <2>2. StoreOf[c] \in Holders(id)
    BY <2>1 DEF IInv, LeaseInv, WritersHold, Holders
  <2> HIDE DEF id
  <2>3. /\ IsFiniteSet(Holders(id)) /\ Cardinality(Holders(id)) <= refs[id] /\ refs[id] \in Nat
        /\ lock[id] = "ours" <=> refs[id] > 0
    BY <2>1 DEF IInv, LeaseInv, LeasesCounted
  <2>4. Cardinality(Holders(id)) \in Nat /\ Cardinality(Holders(id)) # 0
    BY <2>2, <2>3, FS_CardinalityType, FS_EmptySet
  <2>5. refs[id] > 0
    BY <2>3, <2>4
  <2> QED BY <2>3, <2>5 DEF id
<1> QED BY <1>1, Invariant, PTL
=============================================================================
