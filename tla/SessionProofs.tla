--------------------------- MODULE SessionProofs ---------------------------
(***************************************************************************)
(* Proofs about the session of an agent.                                   *)
(*                                                                         *)
(* SessionTranscripts, for any number of sends, compactions, injections,   *)
(* faults and interferences of other agents: the replay of the transcript  *)
(* is exact, dispose leaves no turn unwritten, and a hydration mark means  *)
(* that the history is loaded.  What a transcript replays is defined by    *)
(* recursion; what is needed of it for every transcript is proved by       *)
(* induction over the natural numbers, as a statement about a set of them. *)
(*                                                                         *)
(* SessionWriterLease, the lease that the transcript is written under, at  *)
(* the end.                                                                *)
(***************************************************************************)
EXTENDS SessionTranscripts, SequenceTheorems, WellFoundedInduction, TLAPS

-----------------------------------------------------------------------------
(* Recursion over data, by induction on a set: every set of numbers that is  *)
(* not empty has a least element.                                            *)

LEMMA LeastNat ==
    ASSUME NEW S, S \subseteq Nat, S # {}
    PROVE  \E n \in S : \A m \in S : n <= m
<1> DEFINE R == OpToRel(<, Nat)
<1>1. \A x, y \in Nat : <<x, y>> \in R <=> x < y
  BY DEF OpToRel
<1>2. IsWellFoundedOn(R, Nat)
  BY NatLessThanWellFounded
<1> HIDE DEF R
<1>3. \E x \in S : \A y \in S : ~ (<<y, x>> \in R)
  BY <1>2, WFMin, Zenon
<1>4. PICK x \in S : \A y \in S : ~ (<<y, x>> \in R)
  BY <1>3
<1>5. \A y \in S : ~ (y < x)
  BY <1>1, <1>4
<1> QED BY <1>4, <1>5

LEMMA SetInduction ==
    ASSUME NEW S, 0 \in S, \A n \in Nat : n \in S => n + 1 \in S
    PROVE  Nat \subseteq S
<1> SUFFICES ASSUME Nat \ S # {} PROVE FALSE
  OBVIOUS
<1>1. PICK n \in Nat \ S : \A m \in Nat \ S : n <= m
  BY LeastNat, Zenon
<1>2. n # 0 /\ n - 1 \in Nat
  BY <1>1
<1>3. n - 1 \in S
  BY <1>1, <1>2
<1>4. (n - 1) + 1 = n
  BY <1>1
<1> QED BY <1>1, <1>2, <1>3, <1>4

(* The adds along the way that prev leads back from each of 1..n to 0.       *)
Along(f, n, prev, add) ==
    f = [i \in 0..n |-> IF i = 0 THEN <<>> ELSE f[prev[i]] \o add[i]]

Backwards(n, prev) == n \in Nat /\ \A i \in 1..n : prev[i] \in Nat /\ prev[i] < i

LEMMA AlongExists ==
    ASSUME NEW n, NEW prev, NEW add, Backwards(n, prev)
    PROVE  \E f : Along(f, n, prev, add)
<1> DEFINE S == {m \in Nat : m <= n => \E f : Along(f, m, prev, add)}
<1>0. n \in Nat
  BY DEF Backwards
<1>1. 0 \in S
  <2>1. Along([i \in 0..0 |-> <<>>], 0, prev, add)
    BY DEF Along
  <2> QED BY <2>1
<1>2. ASSUME NEW m \in Nat, m \in S PROVE m + 1 \in S
  <2> SUFFICES ASSUME m + 1 <= n PROVE \E g : Along(g, m + 1, prev, add)
    OBVIOUS
  <2>1. m <= n
    BY <1>0
  <2>2. PICK f : Along(f, m, prev, add)
    BY <1>2, <2>1
  <2>3. \A i \in 0..m : f[i] = IF i = 0 THEN <<>> ELSE f[prev[i]] \o add[i]
    BY <2>2 DEF Along
  <2> DEFINE g == [i \in 0..(m + 1) |-> IF i <= m THEN f[i] ELSE f[prev[i]] \o add[i]]
  <2>4. ASSUME NEW i \in 0..(m + 1)
        PROVE  g[i] = IF i = 0 THEN <<>> ELSE g[prev[i]] \o add[i]
    <3>1. CASE i = 0
      BY <2>3, <3>1
    <3>2. CASE i # 0
      <4>1. i \in 1..n /\ prev[i] \in 0..m
        BY <1>0, <3>2 DEF Backwards
      <4>2. g[prev[i]] = f[prev[i]]
        BY <4>1
      <4>3. CASE i <= m
        <5>1. i \in 0..m
          BY <4>3
        <5>2. f[i] = f[prev[i]] \o add[i]
          BY <2>3, <3>2, <5>1
        <5> QED BY <3>2, <4>2, <4>3, <5>2
      <4>4. CASE ~ (i <= m)
        BY <3>2, <4>2, <4>4
      <4> QED BY <4>3, <4>4
    <3> QED BY <3>1, <3>2
  <2>5. g = [i \in 0..(m + 1) |-> g[i]]
    OBVIOUS
  <2> HIDE DEF g
  <2>6. g = [i \in 0..(m + 1) |-> IF i = 0 THEN <<>> ELSE g[prev[i]] \o add[i]]
    BY <2>4, <2>5, Zenon
  <2> QED BY <2>6 DEF Along
<1>3. Nat \subseteq S
  <2> HIDE DEF S
  <2> QED BY <1>1, <1>2, SetInduction
<1> QED BY <1>0, <1>3

\* Two ways that agree up to k have the same adds up to there.
LEMMA AlongUnique ==
    ASSUME NEW n, NEW prev, NEW add, NEW f, Along(f, n, prev, add), Backwards(n, prev),
           NEW m, NEW prev2, NEW add2, NEW g, Along(g, m, prev2, add2), m \in Nat,
           NEW k \in Nat, k <= n, k <= m,
           \A i \in 1..k : prev[i] = prev2[i] /\ add[i] = add2[i]
    PROVE  f[k] = g[k]
<1> DEFINE S == {h \in Nat : \A i \in 0..h : i <= k => f[i] = g[i]}
<1>0. n \in Nat
  BY DEF Backwards
<1>1. \A i \in 0..n : f[i] = IF i = 0 THEN <<>> ELSE f[prev[i]] \o add[i]
  BY DEF Along
<1>2. \A i \in 0..m : g[i] = IF i = 0 THEN <<>> ELSE g[prev2[i]] \o add2[i]
  BY DEF Along
<1>3. 0 \in S
  BY <1>0, <1>1, <1>2
<1>4. ASSUME NEW h \in Nat, h \in S PROVE h + 1 \in S
  <2> SUFFICES ASSUME h + 1 <= k PROVE f[h + 1] = g[h + 1]
    BY <1>4
  <2>1. h + 1 \in 1..k /\ h + 1 \in 1..n /\ h + 1 \in 0..n /\ h + 1 \in 0..m /\ h + 1 # 0
    BY <1>0
  <2>2. prev[h + 1] = prev2[h + 1] /\ add[h + 1] = add2[h + 1] /\ prev[h + 1] \in 0..h
    BY <2>1 DEF Backwards
  <2>3. f[prev[h + 1]] = g[prev[h + 1]]
    BY <1>4, <2>2
  <2>4. f[h + 1] = f[prev[h + 1]] \o add[h + 1]
    BY <1>1, <2>1
  <2>5. g[h + 1] = g[prev2[h + 1]] \o add2[h + 1]
    BY <1>2, <2>1
  <2> QED BY <2>2, <2>3, <2>4, <2>5
<1>5. Nat \subseteq S
  <2> HIDE DEF S
  <2> QED BY <1>3, <1>4, SetInduction
<1>6. k \in S
  BY <1>5
<1> QED BY <1>6

LEMMA AlongTyped ==
    ASSUME NEW n, NEW prev, NEW add, NEW f, Along(f, n, prev, add), Backwards(n, prev),
           NEW T, \A i \in 1..n : add[i] \in Seq(T), NEW k \in 0..n
    PROVE  f[k] \in Seq(T)
<1> DEFINE S == {h \in Nat : \A i \in 0..h : i <= n => f[i] \in Seq(T)}
<1>0. n \in Nat
  BY DEF Backwards
<1>1. \A i \in 0..n : f[i] = IF i = 0 THEN <<>> ELSE f[prev[i]] \o add[i]
  BY DEF Along
<1>2. 0 \in S
  <2>1. f[0] = <<>> /\ <<>> \in Seq(T)
    BY <1>0, <1>1
  <2>2. \A i \in 0..0 : i = 0
    OBVIOUS
  <2> QED BY <2>1, <2>2
<1>3. ASSUME NEW h \in Nat, h \in S PROVE h + 1 \in S
  <2> SUFFICES ASSUME h + 1 <= n PROVE f[h + 1] \in Seq(T)
    BY <1>3
  <2>1. h + 1 \in 1..n /\ h + 1 \in 0..n /\ h + 1 # 0
    BY <1>0
  <2>2. prev[h + 1] \in 0..h
    BY <2>1 DEF Backwards
  <2>3. f[prev[h + 1]] \in Seq(T) /\ add[h + 1] \in Seq(T)
    BY <1>0, <1>3, <2>1, <2>2
  <2>4. f[h + 1] = f[prev[h + 1]] \o add[h + 1]
    BY <1>1, <2>1
  <2> QED BY <2>3, <2>4
<1>4. Nat \subseteq S
  <2> HIDE DEF S
  <2> QED BY <1>2, <1>3, SetInduction
<1>5. k \in S /\ k \in 0..k /\ k <= n
  BY <1>0, <1>4
<1> HIDE DEF Along, Backwards
<1> QED BY <1>5
-----------------------------------------------------------------------------
(* What Replay and Written compute.                                          *)

Sound(r) == r \in Seq(Records) /\ \A i \in 1..Len(r) : r[i].parent < i

Parents(r) == [i \in 1..Len(r) |-> r[i].parent]
Adds(r) == [i \in 1..Len(r) |-> r[i].adds]

LEMMA SoundRecords ==
    ASSUME NEW r, Sound(r)
    PROVE  /\ Len(r) \in Nat /\ DOMAIN r = 1..Len(r)
           /\ \A i \in 1..Len(r) : /\ r[i] \in Records /\ r[i].parent \in Nat
                                   /\ r[i].parent < i /\ r[i].adds \in Seq(Nat)
           /\ Backwards(Len(r), Parents(r))
<1>1. r \in Seq(Records) /\ Len(r) \in Nat /\ DOMAIN r = 1..Len(r)
  BY DEF Sound
<1>2. \A i \in 1..Len(r) : r[i] \in Records /\ r[i].parent < i
  BY <1>1 DEF Sound
<1>3. \A x \in Records : x.parent \in Nat /\ x.adds \in Seq(Nat)
  BY DEF Records
<1> QED BY <1>1, <1>2, <1>3 DEF Backwards, Parents

LEMMA ReplayAlong ==
    ASSUME NEW r, Sound(r)
    PROVE  \E f : Along(f, Len(r), Parents(r), Adds(r)) /\ Replay(r) = f[Len(r)]
<1> DEFINE n == Len(r)
           Eq(f) == f = [i \in 0..n |-> IF i = 0 THEN <<>> ELSE f[r[i].parent] \o r[i].adds]
           up == CHOOSE f : Eq(f)
<1>0. n \in Nat
  BY SoundRecords
<1>1. ASSUME NEW f PROVE Along(f, n, Parents(r), Adds(r)) <=> Eq(f)
  <2>1. \A i \in 0..n : i # 0 => Parents(r)[i] = r[i].parent /\ Adds(r)[i] = r[i].adds
    BY <1>0 DEF Parents, Adds
  <2>2. [i \in 0..n |-> IF i = 0 THEN <<>> ELSE f[Parents(r)[i]] \o Adds(r)[i]]
          = [i \in 0..n |-> IF i = 0 THEN <<>> ELSE f[r[i].parent] \o r[i].adds]
    BY <2>1
  <2> QED BY <2>2 DEF Along
<1>2. Replay(r) = up[n]
  BY DEF Replay
<1> HIDE DEF Eq
<1>3. \E f : Eq(f)
  BY <1>1, SoundRecords, AlongExists
<1>4. Eq(up)
  BY <1>3
<1> HIDE DEF up
<1> QED BY <1>1, <1>2, <1>4

LEMMA ReplayTyped ==
    ASSUME NEW r, Sound(r), NEW T, \A i \in 1..Len(r) : r[i].adds \in Seq(T)
    PROVE  Replay(r) \in Seq(T)
<1>1. PICK f : Along(f, Len(r), Parents(r), Adds(r)) /\ Replay(r) = f[Len(r)]
  BY ReplayAlong
<1>2. \A i \in 1..Len(r) : Adds(r)[i] \in Seq(T)
  BY DEF Adds
<1>3. Len(r) \in 0..Len(r)
  BY SoundRecords
<1>4. f[Len(r)] \in Seq(T)
  BY <1>1, <1>2, <1>3, SoundRecords, AlongTyped
<1> QED BY <1>1, <1>4

\* A record of the transcript ends the replay of what its parent ends.
LEMMA SoundAppend ==
    ASSUME NEW r, Sound(r), NEW x \in Records, x.parent <= Len(r)
    PROVE  /\ Sound(Append(r, x)) /\ Len(Append(r, x)) = Len(r) + 1
           /\ \A i \in 1..Len(r) : Append(r, x)[i] = r[i]
           /\ Append(r, x)[Len(r) + 1] = x
<1>1. r \in Seq(Records) /\ Len(r) \in Nat /\ \A i \in 1..Len(r) : r[i].parent < i
  BY DEF Sound
<1>2. /\ Append(r, x) \in Seq(Records) /\ Len(Append(r, x)) = Len(r) + 1
      /\ \A i \in 1..Len(r) : Append(r, x)[i] = r[i]
      /\ Append(r, x)[Len(r) + 1] = x
  BY <1>1, AppendProperties
<1>3. x.parent < Len(r) + 1
  BY <1>1 DEF Records
<1>4. ASSUME NEW i \in 1..(Len(r) + 1) PROVE Append(r, x)[i].parent < i
  <2>1. CASE i = Len(r) + 1
    BY <1>2, <1>3, <2>1
  <2>2. CASE i # Len(r) + 1
    <3>1. i \in 1..Len(r)
      BY <1>1, <2>2
    <3> QED BY <1>1, <1>2, <3>1
  <2> QED BY <2>1, <2>2
<1> QED BY <1>2, <1>4 DEF Sound

LEMMA SoundPrefix ==
    ASSUME NEW r, Sound(r), NEW k \in Nat, k <= Len(r)
    PROVE  /\ Sound(SubSeq(r, 1, k)) /\ Len(SubSeq(r, 1, k)) = k
           /\ \A i \in 1..k : SubSeq(r, 1, k)[i] = r[i]
<1>1. r \in Seq(Records) /\ Len(r) \in Nat /\ \A i \in 1..Len(r) : r[i].parent < i
  BY DEF Sound
<1>2. \A i \in 1..k : i \in 1..Len(r) /\ r[i] \in Records
  BY <1>1
<1>3. /\ SubSeq(r, 1, k) \in Seq(Records) /\ Len(SubSeq(r, 1, k)) = k
      /\ \A i \in 1..k : SubSeq(r, 1, k)[i] = r[i]
  BY <1>1, <1>2
<1> QED BY <1>1, <1>2, <1>3 DEF Sound

LEMMA ReplayAppend ==
    ASSUME NEW r, Sound(r), NEW x \in Records, x.parent <= Len(r)
    PROVE  Replay(Append(r, x)) = Replay(SubSeq(r, 1, x.parent)) \o x.adds
<1> DEFINE n == Len(r)
           s == Append(r, x)
           k == x.parent
           p == SubSeq(r, 1, k)
<1>0. k \in Nat /\ n \in Nat /\ k <= n /\ \A i \in 1..n : r[i].parent \in Nat
  BY SoundRecords DEF Records
<1>1. Sound(s) /\ Len(s) = n + 1 /\ (\A i \in 1..n : s[i] = r[i]) /\ s[n + 1] = x
  BY SoundAppend
<1>2. Sound(p) /\ Len(p) = k /\ \A i \in 1..k : p[i] = r[i]
  BY <1>0, SoundPrefix
<1> HIDE DEF n, s, k, p
<1>3. PICK f : Along(f, n + 1, Parents(s), Adds(s)) /\ Replay(s) = f[n + 1]
  BY <1>1, ReplayAlong
<1>4. PICK g : Along(g, k, Parents(p), Adds(p)) /\ Replay(p) = g[k]
  BY <1>2, ReplayAlong
<1>5. Backwards(n + 1, Parents(s))
  BY <1>1, SoundRecords
<1>6. f[n + 1] = f[k] \o x.adds
  <2>1. n + 1 \in 0..(n + 1) /\ n + 1 # 0
    BY <1>0
  <2>2. Parents(s)[n + 1] = k /\ Adds(s)[n + 1] = x.adds
    BY <1>0, <1>1 DEF Parents, Adds, k
  <2> QED BY <1>3, <2>1, <2>2 DEF Along
<1>7. f[k] = g[k]
  <2>1. \A i \in 1..k : Parents(s)[i] = Parents(p)[i] /\ Adds(s)[i] = Adds(p)[i]
    BY <1>0, <1>1, <1>2 DEF Parents, Adds
  <2>2. k <= n + 1 /\ k <= k
    BY <1>0
  <2> QED BY <1>0, <1>3, <1>4, <1>5, <2>1, <2>2, AlongUnique
<1>8. Replay(s) = Replay(p) \o x.adds
  BY <1>3, <1>4, <1>6, <1>7
<1> QED BY <1>8 DEF s, p, k

LEMMA ReplayEmpty == Sound(<<>>) /\ Replay(<<>>) = <<>>
<1>1. <<>> \in Seq(Records) /\ Len(<<>>) = 0
  OBVIOUS
<1>2. Sound(<<>>)
  BY <1>1 DEF Sound
<1>3. PICK f : Along(f, 0, Parents(<<>>), Adds(<<>>)) /\ Replay(<<>>) = f[0]
  BY <1>1, <1>2, ReplayAlong
<1>4. f[0] = <<>>
  BY <1>3 DEF Along
<1> QED BY <1>2, <1>3, <1>4

\* What has been read stays as it was.
LEMMA PrefixStays ==
    ASSUME NEW r, Sound(r), NEW x \in Records, x.parent <= Len(r), NEW k \in Nat, k <= Len(r)
    PROVE  SubSeq(Append(r, x), 1, k) = SubSeq(r, 1, k)
<1>1. Len(r) \in Nat
  BY SoundRecords
<1>2. Sound(Append(r, x)) /\ Len(Append(r, x)) = Len(r) + 1
      /\ \A i \in 1..Len(r) : Append(r, x)[i] = r[i]
  BY SoundAppend
<1>3. Sound(SubSeq(r, 1, k)) /\ Len(SubSeq(r, 1, k)) = k
      /\ \A i \in 1..k : SubSeq(r, 1, k)[i] = r[i]
  BY SoundPrefix
<1> DEFINE s == Append(r, x)
<1> HIDE DEF s
<1>4. Sound(SubSeq(s, 1, k)) /\ Len(SubSeq(s, 1, k)) = k
      /\ \A i \in 1..k : SubSeq(s, 1, k)[i] = s[i]
  <2>1. k <= Len(s)
    BY <1>1, <1>2 DEF s
  <2> QED BY <1>2, <2>1, SoundPrefix DEF s
<1>5. \A i \in 1..k : SubSeq(s, 1, k)[i] = SubSeq(r, 1, k)[i]
  BY <1>1, <1>2, <1>3, <1>4 DEF s
<1>6. SubSeq(s, 1, k) \in Seq(Records) /\ SubSeq(r, 1, k) \in Seq(Records)
  BY <1>3, <1>4 DEF Sound
<1> DEFINE a == SubSeq(s, 1, k)
           b == SubSeq(r, 1, k)
<1>7. a \in Seq(Records) /\ b \in Seq(Records) /\ Len(a) = Len(b)
      /\ \A i \in 1..Len(a) : a[i] = b[i]
  BY <1>3, <1>4, <1>5, <1>6
<1> HIDE DEF a, b
<1>8. a = b
  BY <1>7, SeqEqual
<1> QED BY <1>8 DEF a, b, s
Before(n) == [i \in 1..n |-> i - 1]

LEMMA FlattenAlong ==
    ASSUME NEW T, NEW s \in Seq(Seq(T))
    PROVE  \E f : Along(f, Len(s), Before(Len(s)), s) /\ FlattenSeq(s) = f[Len(s)]
<1> DEFINE n == Len(s)
           Eq(g) == g = [i \in 1..n |-> IF i = 1 THEN s[i] ELSE g[i - 1] \o s[i]]
           flat == CHOOSE g : Eq(g)
<1>0. n \in Nat /\ (\A i \in 1..n : s[i] \in Seq(T)) /\ (n = 0 => s = <<>>)
  OBVIOUS
<1>1. Backwards(n, Before(n))
  BY <1>0 DEF Backwards, Before
<1>2. PICK f : Along(f, n, Before(n), s)
  BY <1>1, AlongExists
<1>3. /\ f[0] = <<>>
      /\ \A i \in 1..n : f[i] = f[i - 1] \o s[i]
  <2>1. \A i \in 0..n : f[i] = IF i = 0 THEN <<>> ELSE f[Before(n)[i]] \o s[i]
    BY <1>2 DEF Along
  <2>2. \A i \in 1..n : i \in 0..n /\ i # 0 /\ Before(n)[i] = i - 1
    BY <1>0 DEF Before
  <2>3. 0 \in 0..n
    BY <1>0
  <2> QED BY <2>1, <2>2, <2>3
<1>4. CASE n = 0
  <2>1. FlattenSeq(s) = <<>>
    BY <1>0, <1>4 DEF FlattenSeq
  <2> QED BY <1>2, <1>3, <1>4, <2>1
<1>5. CASE n # 0
  <2>1. FlattenSeq(s) = flat[n]
    BY <1>5 DEF FlattenSeq
  <2>2. Eq([i \in 1..n |-> f[i]])
    <3> DEFINE g == [i \in 1..n |-> f[i]]
    <3>1. ASSUME NEW i \in 1..n PROVE g[i] = IF i = 1 THEN s[i] ELSE g[i - 1] \o s[i]
      <4>1. CASE i = 1
        <5>1. f[i] = f[i - 1] \o s[i] /\ s[i] \in Seq(T)
          BY <1>0, <1>3
        <5>2. f[i - 1] = <<>>
          BY <1>3, <4>1
        <5>3. <<>> \o s[i] = s[i]
          BY <5>1
        <5>4. g[i] = f[i]
          OBVIOUS
        <5> HIDE DEF g
        <5> QED BY <4>1, <5>1, <5>2, <5>3, <5>4
      <4>2. CASE i # 1
        <5>1. i - 1 \in 1..n
          BY <1>0, <4>2
        <5> QED BY <1>3, <4>2, <5>1
      <4> QED BY <4>1, <4>2
    <3>2. g = [i \in 1..n |-> g[i]]
      OBVIOUS
    <3> HIDE DEF g
    <3>3. Eq(g)
      BY <3>1, <3>2
    <3> QED BY <3>3 DEF g
  <2>3. Eq(flat)
    <3> HIDE DEF Eq
    <3>1. \E g : Eq(g)
      BY <2>2
    <3> QED BY <3>1
  <2>4. \A i \in 1..n : flat[i] = IF i = 1 THEN s[i] ELSE flat[i - 1] \o s[i]
    <3> HIDE DEF flat
    <3> QED BY <2>3
  <2> HIDE DEF flat, Eq
  <2> DEFINE g == [i \in 0..n |-> IF i = 0 THEN <<>> ELSE flat[i]]
  <2>5. ASSUME NEW i \in 0..n PROVE g[i] = IF i = 0 THEN <<>> ELSE g[Before(n)[i]] \o s[i]
    <3>1. CASE i = 0
      BY <3>1
    <3>2. CASE i = 1
      <4>1. s[1] \in Seq(T) /\ flat[1] = s[1] /\ Before(n)[1] = 0 /\ 0 \in 0..n
        BY <1>0, <2>4, <3>2 DEF Before
      <4>2. g[i] = s[1] /\ g[0] = <<>>
        BY <1>0, <3>2, <4>1
      <4>3. <<>> \o s[1] = s[1]
        BY <4>1
      <4> QED BY <3>2, <4>1, <4>2, <4>3
    <3>3. CASE i # 0 /\ i # 1
      <4>1. i \in 1..n /\ i - 1 \in 1..n /\ i - 1 # 0 /\ i - 1 \in 0..n /\ Before(n)[i] = i - 1
        BY <1>0, <3>3 DEF Before
      <4>2. flat[i] = flat[i - 1] \o s[i]
        BY <2>4, <3>3, <4>1
      <4>3. g[i] = flat[i] /\ g[i - 1] = flat[i - 1]
        BY <3>3, <4>1
      <4> QED BY <3>3, <4>1, <4>2, <4>3
    <3> QED BY <3>1, <3>2, <3>3
  <2>6. g = [i \in 0..n |-> g[i]] /\ g[n] = flat[n]
    BY <1>0, <1>5
  <2> HIDE DEF g
  <2>7. g = [i \in 0..n |-> IF i = 0 THEN <<>> ELSE g[Before(n)[i]] \o s[i]]
    BY <2>5, <2>6, Zenon
  <2>8. Along(g, n, Before(n), s)
    BY <2>7 DEF Along
  <2> QED BY <2>1, <2>6, <2>8
<1> QED BY <1>4, <1>5

Agree(m, s, u) == \A i \in 1..m : u[i] = s[i]

LEMMA BeforeUnique ==
    ASSUME NEW m \in Nat, NEW s, NEW u, Agree(m, s, u),
           NEW f, Along(f, m, Before(m), s), NEW g, Along(g, m + 1, Before(m + 1), u)
    PROVE  g[m] = f[m]
<1>1. \A i \in 1..m : Before(m + 1)[i] = Before(m)[i] /\ u[i] = s[i]
  BY DEF Before, Agree
<1>2. Backwards(m + 1, Before(m + 1))
  BY DEF Backwards, Before
<1>3. m + 1 \in Nat /\ m <= m + 1 /\ m <= m
  OBVIOUS
<1> QED BY <1>1, <1>2, <1>3, AlongUnique

LEMMA FlattenGrows ==
    ASSUME NEW T, NEW m \in Nat, NEW s \in Seq(Seq(T)), Len(s) = m,
           NEW u \in Seq(Seq(T)), Len(u) = m + 1, \A i \in 1..m : u[i] = s[i]
    PROVE  /\ FlattenSeq(s) \in Seq(T)
           /\ FlattenSeq(u) = FlattenSeq(s) \o u[m + 1]
<1>1. PICK f : Along(f, m, Before(m), s) /\ FlattenSeq(s) = f[m]
  BY FlattenAlong
<1>2. PICK g : Along(g, m + 1, Before(m + 1), u) /\ FlattenSeq(u) = g[m + 1]
  BY FlattenAlong
<1>3. g[m + 1] = g[m] \o u[m + 1]
  <2>1. m + 1 \in 0..(m + 1) /\ m + 1 # 0 /\ Before(m + 1)[m + 1] = m
    BY DEF Before
  <2> QED BY <1>2, <2>1 DEF Along
<1>4. g[m] = f[m]
  <2>1. Agree(m, s, u)
    BY DEF Agree
  <2> QED BY <1>1, <1>2, <2>1, BeforeUnique
<1>5. f[m] \in Seq(T)
  <2>1. m \in 0..m /\ \A i \in 1..m : s[i] \in Seq(T)
    OBVIOUS
  <2>2. Backwards(m, Before(m))
    BY DEF Backwards, Before
  <2> QED BY <1>1, <2>1, <2>2, AlongTyped
<1> QED BY <1>1, <1>2, <1>3, <1>4, <1>5

LEMMA FlattenAppend ==
    ASSUME NEW T, NEW s \in Seq(Seq(T)), NEW t \in Seq(T)
    PROVE  /\ FlattenSeq(s) \in Seq(T)
           /\ FlattenSeq(Append(s, t)) = FlattenSeq(s) \o t
<1>1. /\ Len(s) \in Nat /\ Append(s, t) \in Seq(Seq(T)) /\ Len(Append(s, t)) = Len(s) + 1
      /\ \A i \in 1..Len(s) : Append(s, t)[i] = s[i]
      /\ Append(s, t)[Len(s) + 1] = t
  OBVIOUS
<1> QED BY <1>1, FlattenGrows

\* A compaction adds nothing to what was written, any other record its turn.
LEMMA WrittenAppend ==
    ASSUME NEW r, Sound(r), NEW x \in Records, x.parent <= Len(r)
    PROVE  /\ Written(r) \in Seq(Nat)
           /\ Written(Append(r, x))
                = Written(r) \o (IF x.kind = "compact" THEN <<>> ELSE x.adds)
<1> DEFINE n == Len(r)
           a(y) == IF y.kind = "compact" THEN <<>> ELSE y.adds
           s == [i \in DOMAIN r |-> a(r[i])]
           u == Append(r, x)
           v == [i \in DOMAIN u |-> a(u[i])]
<1>0. /\ r \in Seq(Records) /\ n \in Nat /\ DOMAIN r = 1..n
      /\ \A i \in 1..n : r[i] \in Records /\ a(r[i]) \in Seq(Nat)
  BY SoundRecords DEF Sound
<1>1. /\ DOMAIN u = 1..(n + 1) /\ (\A i \in 1..n : u[i] = r[i]) /\ u[n + 1] = x
  <2>1. u \in Seq(Records) /\ Len(u) = n + 1
    BY <1>0
  <2> QED BY <2>1, SoundAppend
<1>2. a(x) \in Seq(Nat)
  BY DEF Records
<1>3. s \in Seq(Seq(Nat)) /\ Len(s) = n
  BY <1>0
<1>4. v = Append(s, a(x))
  <2>1. /\ Append(s, a(x)) \in Seq(Seq(Nat)) /\ Len(Append(s, a(x))) = n + 1
        /\ \A i \in 1..n : Append(s, a(x))[i] = s[i]
        /\ Append(s, a(x))[n + 1] = a(x)
    BY <1>2, <1>3, AppendProperties
  <2>2. \A i \in 1..n : s[i] = a(r[i])
    BY <1>0
  <2>3. v = [i \in 1..(n + 1) |-> a(u[i])]
    BY <1>1
  <2> HIDE DEF s, v, u, a
  <2>4. ASSUME NEW i \in 1..(n + 1) PROVE v[i] = Append(s, a(x))[i]
    <3>1. CASE i = n + 1
      BY <1>1, <2>1, <2>3, <3>1
    <3>2. CASE i # n + 1
      <4>1. i \in 1..n
        BY <1>0, <3>2
      <4> QED BY <1>1, <2>1, <2>2, <2>3, <4>1
    <3> QED BY <3>1, <3>2
  <2> DEFINE w == Append(s, a(x))
  <2>5. w = [i \in 1..(n + 1) |-> w[i]]
    <3>1. w \in Seq(Seq(Nat)) /\ Len(w) = n + 1
      BY <2>1
    <3> HIDE DEF w
    <3> QED BY <3>1
  <2> HIDE DEF w
  <2>6. v = w
    BY <2>3, <2>4, <2>5 DEF w
  <2> QED BY <2>6 DEF w
<1>5. Written(r) = FlattenSeq(s) /\ Written(u) = FlattenSeq(v)
  BY DEF Written
<1> HIDE DEF s, u, v, a
<1>6. FlattenSeq(s) \in Seq(Nat) /\ FlattenSeq(Append(s, a(x))) = FlattenSeq(s) \o a(x)
  BY <1>2, <1>3, FlattenAppend
<1> QED BY <1>4, <1>5, <1>6 DEF u, a

LEMMA WrittenEmpty == Written(<<>>) = <<>>
BY DEF Written, FlattenSeq
-----------------------------------------------------------------------------
(* The chain of write jobs.                                                  *)

(* Jobs can be ranked so that each comes after the one it waits for, and the *)
(* turns are in their order.                                                 *)
RanksOf(rank, n) ==
    /\ \A j \in jobs : rank[j.id] <= n
    /\ \A j, k \in jobs : k.after = j.id => rank[j.id] < rank[k.id]
    /\ \A j, k \in jobs :
           j.kind = "turn" /\ k.kind = "turn" /\ j.id < k.id => rank[j.id] < rank[k.id]

Ranked == \E rank \in [Nat -> Nat], n \in Nat : RanksOf(rank, n)

(* Every job has one behind it, or is the one the map or a flush knows.      *)
Covered == \A j \in jobs : \/ j.id \in {pendingWrite, awaited}
                           \/ \E k \in jobs : k.after = j.id

IsJob(id) == \E j \in jobs : j.id = id

ChainInv ==
    /\ jobs \subseteq Jobs /\ pendingWrite \in Nat /\ awaited \in Nat
    /\ \A j, k \in jobs : j.id = k.id => j = k
    /\ \A j \in jobs : j.after # 0 => IsJob(j.after)
    /\ \A j \in jobs : j.phase # "queued" => j.after = 0
    /\ pendingWrite # 0 => IsJob(pendingWrite) /\ \A j \in jobs : j.after # pendingWrite
    /\ awaited # 0 => IsJob(awaited)
    /\ Ranked
    /\ ~stolen => Covered

(* No two jobs wait for the same one, so that only one of them is at work.   *)
OneByOne ==
    /\ \A j, k \in jobs : j.after = k.after => j = k
    /\ \A j \in jobs : j.phase = "read" => j.seen = Len(disk)

LEMMA JobFields ==
    \A j \in Jobs : /\ j.id \in Nat \ {0} /\ j.after \in Nat /\ j.seen \in Nat
                    /\ j.kind \in {"turn", "auto", "compact", "inject"}
                    /\ j.partial \in BOOLEAN
                    /\ j.phase \in {"queued", "read", "appended"}
BY DEF Jobs

LEMMA NewJobIsJob ==
    ASSUME NEW id \in Nat \ {0}, NEW kind \in {"turn", "auto", "compact", "inject"},
           NEW partial \in BOOLEAN, NEW tail \in Nat
    PROVE  /\ NewJob(id, kind, partial, tail) \in Jobs
           /\ NewJob(id, kind, partial, tail).id = id
           /\ NewJob(id, kind, partial, tail).kind = kind
           /\ NewJob(id, kind, partial, tail).after = tail
           /\ NewJob(id, kind, partial, tail).phase = "queued"
           /\ NewJob(id, kind, partial, tail).seen = 0
BY DEF NewJob, Jobs

\* When nobody knows a job of a whole chain, there is none.
LEMMA NothingKnown ==
    ASSUME ChainInv, ~stolen, pendingWrite = 0, awaited = 0
    PROVE  jobs = {}
<1> SUFFICES ASSUME jobs # {} PROVE FALSE
  OBVIOUS
<1>1. PICK rank \in [Nat -> Nat], n \in Nat : RanksOf(rank, n)
  BY DEF ChainInv, Ranked
<1>2. /\ \A j \in jobs : j.id \in Nat \ {0}
      /\ \A j \in jobs : rank[j.id] \in Nat /\ rank[j.id] <= n
      /\ \A j, k \in jobs : k.after = j.id => rank[j.id] < rank[k.id]
  BY <1>1, JobFields DEF RanksOf, ChainInv
<1>3. \A j \in jobs : \E k \in jobs : k.after = j.id
  BY <1>2 DEF ChainInv, Covered
<1> DEFINE S == {n - rank[j.id] : j \in jobs}
<1>4. S \subseteq Nat /\ S # {}
  BY <1>2
<1>5. PICK d \in S : \A e \in S : d <= e
  <2> HIDE DEF S
  <2> QED BY <1>4, LeastNat, Zenon
<1>6. PICK j \in jobs : d = n - rank[j.id]
  BY <1>5
<1>7. PICK k \in jobs : k.after = j.id
  BY <1>3
<1>8. n - rank[k.id] \in S
  OBVIOUS
<1>9. d <= n - rank[k.id]
  <2> HIDE DEF S
  <2> QED BY <1>5, <1>8
<1> HIDE DEF S
<1> QED BY <1>2, <1>6, <1>7, <1>9

\* In a chain where one job is at work at a time, it is the first in rank.
LEMMA AtWorkIsFirst ==
    ASSUME ChainInv, OneByOne, NEW j \in jobs, j.after = 0, j.kind = "turn",
           NEW k \in jobs, k.kind = "turn", k # j
    PROVE  j.id < k.id
<1> SUFFICES ASSUME k.id < j.id PROVE FALSE
  BY JobFields DEF ChainInv
<1>1. PICK rank \in [Nat -> Nat], n \in Nat : RanksOf(rank, n)
  BY DEF ChainInv, Ranked
<1>2. /\ \A i \in jobs : i.id \in Nat \ {0} /\ rank[i.id] \in Nat
      /\ \A i, l \in jobs : l.after = i.id => rank[i.id] < rank[l.id]
      /\ rank[k.id] < rank[j.id]
  BY <1>1, JobFields DEF RanksOf, ChainInv
<1> DEFINE S == {rank[i.id] : i \in jobs}
<1>3. S \subseteq Nat /\ S # {}
  BY <1>2
<1>4. PICK d \in S : \A e \in S : d <= e
  <2> HIDE DEF S
  <2> QED BY <1>3, LeastNat, Zenon
<1>5. PICK i \in jobs : d = rank[i.id]
  BY <1>4
<1>6. \A l \in jobs : rank[i.id] <= rank[l.id]
  BY <1>4, <1>5
<1> HIDE DEF S
<1>7. i.after = 0
  <2> SUFFICES ASSUME i.after # 0 PROVE FALSE
    OBVIOUS
  <2>1. PICK l \in jobs : l.id = i.after
    BY DEF ChainInv, IsJob
  <2> QED BY <1>2, <1>6, <2>1
<1>8. i = j
  BY <1>7 DEF OneByOne
<1> QED BY <1>2, <1>6, <1>8

\* A new job goes to the end of the chain.
LEMMA ChainEnqueue ==
    ASSUME ChainInv, NEW id \in Nat \ {0}, NEW kind \in {"turn", "compact", "inject"},
           NEW partial \in BOOLEAN, ~ IsJob(id),
           kind = "turn" => \A j \in jobs : j.kind = "turn" => j.id < id,
           jobs' = jobs \cup {NewJob(id, kind, partial, pendingWrite)},
           \/ pendingWrite' = id /\ awaited' = awaited
           \/ pendingWrite' = 0 /\ awaited' = id /\ awaited = 0,
           stolen' = stolen
    PROVE  ChainInv'
<1> DEFINE x == NewJob(id, kind, partial, pendingWrite)
<1>0. /\ jobs \subseteq Jobs /\ pendingWrite \in Nat /\ awaited \in Nat
      /\ \A j \in jobs : j.id # id
      /\ \A j, k \in jobs : j.id = k.id => j = k
      /\ \A j \in jobs : j.after # 0 => IsJob(j.after)
      /\ \A j \in jobs : j.phase # "queued" => j.after = 0
  BY DEF ChainInv, IsJob
<1>1. /\ x \in Jobs /\ x.id = id /\ x.kind = kind /\ x.after = pendingWrite
      /\ x.phase = "queued" /\ jobs' = jobs \cup {x}
  BY <1>0, NewJobIsJob
<1> HIDE DEF x
<1>2. \A j \in jobs : j.after # id
  BY <1>0 DEF IsJob
<1>3. \A i : IsJob(i) => IsJob(i)'
  BY <1>1 DEF IsJob
<1>4. IsJob(id)'
  BY <1>1 DEF IsJob
<1>5. jobs' \subseteq Jobs /\ pendingWrite' \in Nat /\ awaited' \in Nat
  BY <1>0, <1>1
<1>6. \A j, k \in jobs' : j.id = k.id => j = k
  BY <1>0, <1>1
<1>7. \A j \in jobs' : j.after # 0 => IsJob(j.after)'
  BY <1>0, <1>1, <1>3 DEF ChainInv
<1>8. \A j \in jobs' : j.phase # "queued" => j.after = 0
  BY <1>0, <1>1
<1>9. pendingWrite' # 0 => IsJob(pendingWrite)' /\ \A j \in jobs' : j.after # pendingWrite'
  <2> SUFFICES ASSUME pendingWrite' = id
               PROVE  IsJob(pendingWrite)' /\ \A j \in jobs' : j.after # pendingWrite'
    OBVIOUS
  <2>1. pendingWrite # id
    BY <1>0 DEF ChainInv, IsJob
  <2> QED BY <1>1, <1>2, <1>4, <2>1
<1>10. awaited' # 0 => IsJob(awaited)'
  BY <1>3, <1>4 DEF ChainInv
<1>11. Ranked'
  <2>1. PICK rank \in [Nat -> Nat], n \in Nat : RanksOf(rank, n)
    BY DEF ChainInv, Ranked
  <2> DEFINE r == [rank EXCEPT ![id] = n + 1]
  <2>2. r \in [Nat -> Nat] /\ r[id] = n + 1 /\ \A i \in Nat \ {id} : r[i] = rank[i]
    OBVIOUS
  <2> HIDE DEF r
  <2>3. \A j \in jobs : r[j.id] = rank[j.id] /\ j.id \in Nat \ {0} /\ rank[j.id] \in Nat
                        /\ rank[j.id] <= n
    BY <1>0, <2>1, <2>2, JobFields DEF RanksOf
  <2>4. ASSUME NEW j \in jobs' PROVE r[j.id] <= n + 1
    BY <1>1, <2>2, <2>3
  <2>5. ASSUME NEW j \in jobs', NEW k \in jobs', k.after = j.id PROVE r[j.id] < r[k.id]
    <3>1. j # x
      BY <1>0, <1>1, <1>2, <2>5 DEF ChainInv, IsJob
    <3>2. CASE k = x
      BY <1>1, <2>2, <2>3, <3>1, <3>2
    <3>3. CASE k # x
      <4>1. rank[j.id] < rank[k.id]
        BY <1>1, <2>1, <2>5, <3>1, <3>3 DEF RanksOf
      <4> QED BY <1>1, <2>3, <3>1, <3>3, <4>1
    <3> QED BY <3>2, <3>3
  <2>6. ASSUME NEW j \in jobs', NEW k \in jobs', j.kind = "turn", k.kind = "turn", j.id < k.id
        PROVE  r[j.id] < r[k.id]
    <3>1. j # x
      <4> SUFFICES ASSUME j = x PROVE FALSE
        OBVIOUS
      <4>1. k \in jobs
        BY <1>1, <2>6
      <4>2. k.id < id
        BY <1>1, <2>6, <4>1
      <4> QED BY <1>1, <2>3, <2>6, <4>1, <4>2
    <3>2. CASE k = x
      BY <1>1, <2>2, <2>3, <3>1, <3>2
    <3>3. CASE k # x
      <4>1. rank[j.id] < rank[k.id]
        BY <1>1, <2>1, <2>6, <3>1, <3>3 DEF RanksOf
      <4> QED BY <1>1, <2>3, <3>1, <3>3, <4>1
    <3> QED BY <3>2, <3>3
  <2>7. RanksOf(r, n + 1)'
    BY <2>4, <2>5, <2>6 DEF RanksOf
  <2> QED BY <2>2, <2>7 DEF Ranked
<1>12. ~ stolen' => Covered'
  <2> SUFFICES ASSUME ~ stolen, NEW j \in jobs'
               PROVE  j.id \in {pendingWrite', awaited'} \/ \E k \in jobs' : k.after = j.id
    BY DEF Covered
  <2>1. CASE j = x
    BY <1>1, <2>1
  <2>2. CASE j # x
    <3>1. j \in jobs /\ j.id # 0
      BY <1>0, <1>1, <2>2, JobFields
    <3>2. CASE j.id = pendingWrite
      BY <1>1, <3>2
    <3>3. CASE j.id # pendingWrite
      BY <1>1, <3>1, <3>3 DEF ChainInv, Covered
    <3> QED BY <3>2, <3>3
  <2> QED BY <2>1, <2>2
<1> QED BY <1>5, <1>6, <1>7, <1>8, <1>9, <1>10, <1>11, <1>12 DEF ChainInv

\* A rank stays one when jobs go, settle or move on.
LEMMA RanksKept ==
    ASSUME ChainInv,
           \A j \in jobs' : /\ j \in Jobs
                            /\ \E o \in jobs : /\ o.id = j.id
                                               /\ j.kind = "turn" => o.kind = "turn"
                                               /\ j.after = o.after \/ j.after = 0
    PROVE  Ranked'
<1>1. PICK rank \in [Nat -> Nat], n \in Nat : RanksOf(rank, n)
  BY DEF ChainInv, Ranked
<1>2. \A j \in jobs' : rank[j.id] <= n
  BY <1>1 DEF RanksOf
<1>3. ASSUME NEW j \in jobs', NEW k \in jobs', k.after = j.id PROVE rank[j.id] < rank[k.id]
  <2>1. j.id # 0
    BY JobFields
  <2>2. PICK p \in jobs : p.id = k.id /\ k.after = p.after
    BY <1>3, <2>1
  <2>3. PICK o \in jobs : o.id = j.id
    OBVIOUS
  <2> QED BY <1>1, <1>3, <2>2, <2>3 DEF RanksOf
<1>4. ASSUME NEW j \in jobs', NEW k \in jobs', j.kind = "turn", k.kind = "turn", j.id < k.id
      PROVE  rank[j.id] < rank[k.id]
  <2>1. PICK o \in jobs : o.id = j.id /\ o.kind = "turn"
    BY <1>4
  <2>2. PICK p \in jobs : p.id = k.id /\ p.kind = "turn"
    BY <1>4
  <2> QED BY <1>1, <1>4, <2>1, <2>2 DEF RanksOf
<1>5. RanksOf(rank, n)'
  BY <1>2, <1>3, <1>4 DEF RanksOf
<1> QED BY <1>5 DEF Ranked

\* A job that waits for no other one moves on.
LEMMA ChainMove ==
    ASSUME ChainInv, NEW j \in jobs, j.after = 0,
           NEW k \in Jobs, k.id = j.id, k.after = 0, k.kind = "turn" => j.kind = "turn",
           Becomes(j, k), UNCHANGED <<pendingWrite, awaited, stolen>>
    PROVE  ChainInv'
<1>0. /\ jobs \subseteq Jobs /\ pendingWrite \in Nat /\ awaited \in Nat
      /\ \A i, l \in jobs : i.id = l.id => i = l
      /\ \A i \in jobs : i.after # 0 => IsJob(i.after)
      /\ \A i \in jobs : i.phase # "queued" => i.after = 0
  BY DEF ChainInv
<1>1. jobs' = (jobs \ {j}) \cup {k}
  BY DEF Becomes
<1>2. \A i : IsJob(i) => IsJob(i)'
  BY <1>1 DEF IsJob
<1>3. jobs' \subseteq Jobs /\ pendingWrite' \in Nat /\ awaited' \in Nat
  BY <1>0, <1>1
<1>4. \A i, l \in jobs' : i.id = l.id => i = l
  BY <1>0, <1>1
<1>5. \A i \in jobs' : i.after # 0 => IsJob(i.after)'
  BY <1>0, <1>1, <1>2
<1>6. \A i \in jobs' : i.phase # "queued" => i.after = 0
  BY <1>0, <1>1
<1>7. pendingWrite' # 0 => IsJob(pendingWrite)' /\ \A i \in jobs' : i.after # pendingWrite'
  BY <1>1, <1>2 DEF ChainInv
<1>8. awaited' # 0 => IsJob(awaited)'
  BY <1>2 DEF ChainInv
<1>9. Ranked'
  <2>1. ASSUME NEW i \in jobs'
        PROVE  \E o \in jobs : /\ o.id = i.id
                               /\ i.kind = "turn" => o.kind = "turn"
                               /\ i.after = o.after \/ i.after = 0
    <3>1. CASE i = k
      BY <3>1
    <3>2. CASE i # k
      BY <1>1, <3>2
    <3> QED BY <3>1, <3>2
  <2> QED BY <1>3, <2>1, RanksKept
<1>10. ~ stolen' => Covered'
  <2> SUFFICES ASSUME ~ stolen, NEW i \in jobs'
               PROVE  i.id \in {pendingWrite, awaited} \/ \E l \in jobs' : l.after = i.id
    BY DEF Covered
  <2>1. PICK o \in jobs : o.id = i.id /\ o.id # 0
    BY <1>0, <1>1, JobFields
  <2>2. o.id \in {pendingWrite, awaited} \/ \E l \in jobs : l.after = o.id
    BY DEF ChainInv, Covered
  <2> QED BY <1>1, <2>1, <2>2
<1> QED BY <1>3, <1>4, <1>5, <1>6, <1>7, <1>8, <1>9, <1>10 DEF ChainInv

Freed(o) == [o EXCEPT !.after = 0]

LEMMA FreedFields ==
    ASSUME NEW o \in Jobs
    PROVE  /\ Freed(o) \in Jobs /\ Freed(o).id = o.id /\ Freed(o).kind = o.kind
           /\ Freed(o).phase = o.phase /\ Freed(o).seen = o.seen /\ Freed(o).after = 0
BY DEF Freed, Jobs

\* What is left of the jobs when one settles.
LEMMA SettledJobs ==
    ASSUME NEW j, Settle(j)
    PROVE  \A i \in jobs' : \E o \in jobs \ {j} : \/ o.after = j.id /\ i = Freed(o)
                                                  \/ o.after # j.id /\ i = o
<1> DEFINE Left(o) == IF o.after = j.id THEN Freed(o) ELSE o
<1>1. jobs' = {Left(o) : o \in jobs \ {j}}
  BY DEF Settle, Freed
<1> HIDE DEF Left
<1>2. \A i \in jobs' : \E o \in jobs \ {j} : i = Left(o)
  BY <1>1
<1>3. \A o \in jobs : \/ o.after = j.id /\ Left(o) = Freed(o)
                      \/ o.after # j.id /\ Left(o) = o
  BY DEF Left
<1> QED BY <1>2, <1>3

\* A job settles, and the one behind it is free.
LEMMA ChainSettle ==
    ASSUME ChainInv, NEW j \in jobs, j.phase # "queued", Settle(j), stolen \in BOOLEAN
    PROVE  ChainInv'
<1> DEFINE Left(o) == IF o.after = j.id THEN Freed(o) ELSE o
<1>0. /\ jobs \subseteq Jobs /\ pendingWrite \in Nat /\ awaited \in Nat
      /\ \A i, l \in jobs : i.id = l.id => i = l
      /\ \A i \in jobs : i.after # 0 => IsJob(i.after)
      /\ \A i \in jobs : i.phase # "queued" => i.after = 0
      /\ j.id # 0 /\ j.after = 0
  BY JobFields DEF ChainInv
<1>1. /\ jobs' = {Left(o) : o \in jobs \ {j}}
      /\ pendingWrite' = IF pendingWrite = j.id THEN 0 ELSE pendingWrite
      /\ awaited' = IF awaited = j.id THEN 0 ELSE awaited
      /\ stolen' = (stolen /\ jobs # {j})
  BY DEF Settle, Freed
<1>2. ASSUME NEW o \in jobs \ {j}
      PROVE  /\ Left(o) \in Jobs /\ Left(o).id = o.id /\ Left(o).kind = o.kind
             /\ Left(o).phase = o.phase /\ Left(o).seen = o.seen
             /\ Left(o).after = IF o.after = j.id THEN 0 ELSE o.after
             /\ o.id # j.id
  <2>1. o \in Jobs /\ o.id # j.id
    BY <1>0
  <2>2. /\ Freed(o) \in Jobs /\ Freed(o).id = o.id /\ Freed(o).kind = o.kind
        /\ Freed(o).phase = o.phase /\ Freed(o).seen = o.seen /\ Freed(o).after = 0
    BY <2>1, FreedFields
  <2> QED BY <2>1, <2>2
<1> HIDE DEF Left
<1>3. \A i \in jobs' : \E o \in jobs \ {j} : i = Left(o)
  BY <1>1
<1>4. \A o \in jobs \ {j} : Left(o) \in jobs'
  BY <1>1
<1>5. \A id : IsJob(id) /\ id # j.id => IsJob(id)'
  BY <1>2, <1>4 DEF IsJob
<1>6. jobs' \subseteq Jobs /\ pendingWrite' \in Nat /\ awaited' \in Nat
  BY <1>0, <1>1, <1>2, <1>3
<1>7. \A i, l \in jobs' : i.id = l.id => i = l
  BY <1>0, <1>2, <1>3
<1>8. \A i \in jobs' : i.after # 0 => IsJob(i.after)'
  BY <1>0, <1>2, <1>3, <1>5
<1>9. \A i \in jobs' : i.phase # "queued" => i.after = 0
  BY <1>0, <1>2, <1>3
<1>10. pendingWrite' # 0 => IsJob(pendingWrite)' /\ \A i \in jobs' : i.after # pendingWrite'
  <2> SUFFICES ASSUME pendingWrite' # 0
               PROVE  IsJob(pendingWrite)' /\ \A i \in jobs' : i.after # pendingWrite'
    OBVIOUS
  <2>1. pendingWrite' = pendingWrite /\ pendingWrite # j.id /\ pendingWrite # 0
    BY <1>1
  <2>2. IsJob(pendingWrite) /\ \A i \in jobs : i.after # pendingWrite
    BY <2>1 DEF ChainInv
  <2>3. IsJob(pendingWrite)'
    <3>1. \E i \in jobs' : i.id = pendingWrite
      BY <1>2, <1>4, <2>1, <2>2 DEF IsJob
    <3> QED BY <2>1, <3>1 DEF IsJob
  <2>4. \A i \in jobs' : i.after # pendingWrite'
    BY <1>2, <1>3, <2>1, <2>2
  <2> QED BY <2>3, <2>4
<1>11. awaited' # 0 => IsJob(awaited)'
  <2> SUFFICES ASSUME awaited' # 0 PROVE IsJob(awaited)'
    OBVIOUS
  <2>1. awaited' = awaited /\ awaited # j.id /\ IsJob(awaited)
    BY <1>1 DEF ChainInv
  <2>2. \E i \in jobs' : i.id = awaited
    BY <1>2, <1>4, <2>1 DEF IsJob
  <2> QED BY <2>1, <2>2 DEF IsJob
<1>12. Ranked'
  <2>1. ASSUME NEW i \in jobs'
        PROVE  \E o \in jobs : /\ o.id = i.id
                               /\ i.kind = "turn" => o.kind = "turn"
                               /\ i.after = o.after \/ i.after = 0
    BY <1>2, <1>3
  <2> QED BY <1>6, <2>1, RanksKept
<1>13. ~ stolen' => Covered'
  <2> SUFFICES ASSUME ~ stolen', NEW i \in jobs'
               PROVE  i.id \in {pendingWrite', awaited'} \/ \E l \in jobs' : l.after = i.id
    BY DEF Covered
  <2>1. PICK o \in jobs \ {j} : i = Left(o)
    BY <1>3
  <2>2. i.id = o.id /\ o.id # j.id /\ o.id # 0
    BY <1>0, <1>2, <2>1, JobFields
  <2>3. ~ stolen
    BY <1>1, <2>1
  <2>4. o.id \in {pendingWrite, awaited} \/ \E l \in jobs : l.after = o.id
    BY <2>3 DEF ChainInv, Covered
  <2>5. CASE o.id \in {pendingWrite, awaited}
    BY <1>1, <2>2, <2>5
  <2>6. ASSUME NEW l \in jobs, l.after = o.id
        PROVE  \E m \in jobs' : m.after = i.id
    <3>1. l # j
      BY <1>0, <2>2, <2>6
    <3>2. Left(l) \in jobs' /\ Left(l).after = o.id
      BY <1>2, <1>4, <2>2, <2>6, <3>1
    <3> QED BY <2>2, <3>2
  <2> QED BY <2>4, <2>5, <2>6
<1> QED BY <1>6, <1>7, <1>8, <1>9, <1>10, <1>11, <1>12, <1>13 DEF ChainInv

\* A flush takes the tail of the chain.
LEMMA ChainTake ==
    ASSUME ChainInv, awaited = 0, TakeWrites(pendingWrite), UNCHANGED <<jobs, stolen>>
    PROVE  ChainInv'
<1>1. awaited' = pendingWrite /\ pendingWrite' = 0
  BY DEF TakeWrites
<1>2. Ranked' /\ \A id : IsJob(id)' <=> IsJob(id)
  BY DEF ChainInv, Ranked, RanksOf, IsJob
<1>3. ~ stolen' => Covered'
  BY <1>1, JobFields DEF ChainInv, Covered
<1> QED BY <1>1, <1>2, <1>3 DEF ChainInv, IsJob

\* The tail is dropped, which counts as stolen.
LEMMA ChainDrop ==
    ASSUME ChainInv, pendingWrite' = 0, ~ stolen' => ~ stolen /\ pendingWrite = 0,
           UNCHANGED <<jobs, awaited>>
    PROVE  ChainInv'
<1>1. Ranked'
  BY DEF ChainInv, Ranked, RanksOf
<1>2. ~ stolen' => Covered'
  BY DEF ChainInv, Covered
<1>3. awaited' # 0 => IsJob(awaited)'
  BY DEF ChainInv, IsJob
<1> QED BY <1>1, <1>2, <1>3 DEF ChainInv, IsJob

LEMMA ChainSame ==
    ASSUME ChainInv, UNCHANGED <<jobs, pendingWrite, awaited, stolen>>
    PROVE  ChainInv'
<1>1. Ranked' /\ (Covered' <=> Covered)
  BY DEF ChainInv, Ranked, RanksOf, Covered
<1> QED BY <1>1 DEF ChainInv, IsJob

LEMMA ChainEmpty ==
    ASSUME jobs' = {}, pendingWrite' = 0, awaited' = 0
    PROVE  ChainInv'
<1>1. Ranked'
  <2>1. [i \in Nat |-> 0] \in [Nat -> Nat]
    OBVIOUS
  <2>2. RanksOf([i \in Nat |-> 0], 0)'
    BY DEF RanksOf
  <2> QED BY <2>1, <2>2 DEF Ranked
<1>2. Covered'
  BY DEF Covered
<1> QED BY <1>1, <1>2 DEF ChainInv

LEMMA OneEnqueue ==
    ASSUME ChainInv, OneByOne, jobs = {} \/ pendingWrite # 0,
           NEW id \in Nat \ {0}, NEW kind \in {"turn", "compact", "inject"},
           NEW partial \in BOOLEAN,
           jobs' = jobs \cup {NewJob(id, kind, partial, pendingWrite)}, disk' = disk
    PROVE  OneByOne'
<1> DEFINE x == NewJob(id, kind, partial, pendingWrite)
<1>1. jobs' = jobs \cup {x} /\ x.after = pendingWrite /\ x.phase = "queued"
  BY NewJobIsJob DEF ChainInv
<1> HIDE DEF x
<1>2. \A j \in jobs : j.after # x.after
  BY <1>1 DEF ChainInv
<1> QED BY <1>1, <1>2 DEF OneByOne

LEMMA OneMove ==
    ASSUME ChainInv, OneByOne, NEW j \in jobs, j.after = 0,
           NEW k, k.after = 0, k.phase = "read" => k.seen = Len(disk'), Becomes(j, k)
    PROVE  OneByOne'
<1>0. jobs' = (jobs \ {j}) \cup {k}
  BY DEF Becomes
<1>1. \A i \in jobs' : i = k \/ (i \in jobs /\ i # j)
  BY <1>0
<1>2. \A i \in jobs : i # j => i.after # 0 /\ i.phase # "read"
  BY DEF OneByOne, ChainInv
<1> QED BY <1>1, <1>2 DEF OneByOne

LEMMA OneSettle ==
    ASSUME ChainInv, OneByOne, NEW j \in jobs, j.phase # "queued", Settle(j), stolen \in BOOLEAN
    PROVE  OneByOne'
<1>1. j.after = 0 /\ jobs \subseteq Jobs
  BY DEF ChainInv
<1>2. \A o \in jobs \ {j} : /\ o.after # 0 /\ o.phase # "read"
                            /\ Freed(o).after = 0
                            /\ Freed(o).phase = o.phase
  BY <1>1, FreedFields DEF OneByOne, ChainInv
<1>3. \A i \in jobs' : \E o \in jobs \ {j} : \/ o.after = j.id /\ i = Freed(o)
                                             \/ o.after # j.id /\ i = o
  BY SettledJobs
<1>4. \A i \in jobs' : i.phase # "read"
  BY <1>2, <1>3
<1>5. ASSUME NEW i \in jobs', NEW l \in jobs', i.after = l.after PROVE i = l
  <2>1. PICK o \in jobs \ {j} : \/ o.after = j.id /\ i = Freed(o)
                                \/ o.after # j.id /\ i = o
    BY <1>3
  <2>2. PICK p \in jobs \ {j} : \/ p.after = j.id /\ l = Freed(p)
                                \/ p.after # j.id /\ l = p
    BY <1>3
  <2>3. o.after = p.after
    BY <1>2, <1>5, <2>1, <2>2
  <2>4. o = p
    BY <2>3 DEF OneByOne
  <2> QED BY <2>1, <2>2, <2>4
<1> QED BY <1>4, <1>5 DEF OneByOne

LEMMA OneEmpty ==
    ASSUME jobs' = {}
    PROVE  OneByOne'
BY DEF OneByOne

-----------------------------------------------------------------------------
(* The inductive invariant.                                                  *)

Quiet == {"none", "hydrating", "releasing"}
Going == cycle.at \in {"running", "answered"}
Owed(j) == j.kind = "turn" /\ j.phase # "appended"

Typed ==
    /\ sends \in Nat /\ edits \in Nat
    /\ cache \in Seq(1..(sends + edits))
    /\ hydrated \in BOOLEAN /\ blind \in BOOLEAN /\ stolen \in BOOLEAN /\ spoiled \in BOOLEAN
    /\ handle \in {"none", "hydrating", "live", "disposing", "flushing", "releasing"}
    /\ cycle \in [at : {"idle", "running", "answered", "summary", "flushing"}, turn : Nat]

DiskInv ==
    /\ Sound(disk)
    /\ \A i \in 1..Len(disk) : disk[i].adds \in Seq(1..(sends + edits))
    /\ \A i \in SentAt(disk) : disk[i].adds[1] \in 1..(sends + edits)

(* Turns are numbered as they come, and a send runs on an open handle.       *)
CycleInv ==
    /\ \A j \in jobs : j.id <= sends + edits /\ j.seen <= Len(disk)
    /\ cycle.turn <= sends + edits
    /\ cycle # Idle => handle \in {"live", "disposing"}
    /\ cycle.at = "idle" => cycle = Idle
    /\ Going => /\ cycle.turn # 0 /\ ~ IsJob(cycle.turn)
                /\ \A j \in jobs : j.kind = "turn" => j.id < cycle.turn
    /\ awaited # 0 => cycle.at = "flushing" \/ handle = "flushing"

(* One job is at work at a time, until a write is spoiled; and, spoiled or   *)
(* not, while there is no handle to work on, unless a write was stolen.      *)
WholeInv == ~ spoiled \/ (~ stolen /\ handle \in Quiet) => OneByOne

DrainInv == ~ stolen /\ handle \in Quiet => \A j \in jobs : j.kind \in {"compact", "inject"}

(* The turns that are still to come are later than those on disk.            *)
ExactInv ==
    ~ spoiled =>
        /\ Replay(disk) = Written(disk)
        /\ \A i, k \in SentAt(disk) : i < k => disk[i].adds[1] < disk[k].adds[1]
        /\ \A i \in SentAt(disk) : /\ \A j \in jobs : Owed(j) => disk[i].adds[1] < j.id
                                   /\ Going => disk[i].adds[1] < cycle.turn

(* An injection that has landed will invalidate the history.                 *)
Landed == \E j \in jobs : j.kind = "inject" /\ j.phase = "appended"

Marked == hydrated /\ handle \in {"live", "disposing"} /\ ~ blind

(* A marked history has every turn that is replayed, now or when a job that  *)
(* has read the transcript appends to what it read.                          *)
LoadedInv ==
    /\ handle = "none" /\ hydrated => blind
    /\ Marked =>
        /\ \A j \in jobs : Owed(j) => j.id \in ToSet(cache)
        /\ Going => cycle.turn \in ToSet(cache)
        /\ \/ Landed
           \/ /\ ToSet(Replay(disk)) \subseteq ToSet(cache)
              /\ \A j \in jobs : j.phase = "read" =>
                     ToSet(Replay(SubSeq(disk, 1, j.seen))) \subseteq ToSet(cache)

IInv == /\ Typed /\ DiskInv /\ CycleInv /\ ChainInv
        /\ WholeInv /\ DrainInv /\ ExactInv /\ LoadedInv

-----------------------------------------------------------------------------
(* What a step keeps that leaves most of the state alone.                    *)

LEMMA WiderSeq ==
    ASSUME NEW m \in Nat, NEW n \in Nat, m <= n, NEW s \in Seq(1..m)
    PROVE  s \in Seq(1..n)
<1>1. 1..m \subseteq 1..n
  OBVIOUS
<1> QED BY <1>1, SeqMonotonic

LEMMA DiskSame ==
    ASSUME DiskInv, disk' = disk, sends \in Nat, edits \in Nat, sends' \in Nat, edits' \in Nat,
           sends + edits <= sends' + edits'
    PROVE  DiskInv'
<1> DEFINE m == sends + edits
           n == sends' + edits'
<1>1. m \in Nat
  OBVIOUS
<1>2. n \in Nat
  <2> DEFINE a == sends'
             b == edits'
  <2>1. a \in Nat /\ b \in Nat
    OBVIOUS
  <2> HIDE DEF a, b
  <2>2. a + b \in Nat
    BY <2>1
  <2> QED BY <2>2 DEF a, b
<1>3. m <= n
  OBVIOUS
<1>4. /\ Sound(disk) /\ \A i \in 1..Len(disk) : disk[i].adds \in Seq(1..m)
      /\ \A i \in SentAt(disk) : disk[i].adds[1] \in 1..m
  BY DEF DiskInv
<1> HIDE DEF m, n
<1>5. \A x \in 1..m : x \in 1..n
  BY <1>1, <1>2, <1>3
<1>6. \A i \in 1..Len(disk) : disk[i].adds \in Seq(1..n)
  BY <1>1, <1>2, <1>3, <1>4, WiderSeq
<1>7. \A i \in SentAt(disk) : disk[i].adds[1] \in 1..n
  BY <1>4, <1>5
<1> QED BY <1>4, <1>6, <1>7 DEF DiskInv, Sound, SentAt, n

LEMMA ExactSame ==
    ASSUME ExactInv, disk' = disk, ~ spoiled' => ~ spoiled,
           \A j \in jobs' : Owed(j) => \/ \E o \in jobs : Owed(o) /\ o.id = j.id
                                       \/ Going /\ j.id = cycle.turn,
           Going' => \/ Going /\ cycle'.turn = cycle.turn
                     \/ \A i \in SentAt(disk) : disk[i].adds[1] < cycle'.turn
    PROVE  ExactInv'
<1> DEFINE Ordered == \A i, k \in SentAt(disk) : i < k => disk[i].adds[1] < disk[k].adds[1]
<1>1. ~ spoiled =>
          /\ Replay(disk) = Written(disk)
          /\ Ordered
          /\ \A i \in SentAt(disk) : /\ \A j \in jobs : Owed(j) => disk[i].adds[1] < j.id
                                     /\ Going => disk[i].adds[1] < cycle.turn
  BY DEF ExactInv
<1> HIDE DEF Ordered
<1>2. ~ spoiled' => Replay(disk') = Written(disk')
  BY <1>1
<1>3. ~ spoiled' => \A i \in SentAt(disk) : /\ \A j \in jobs' : Owed(j) => disk[i].adds[1] < j.id
                                            /\ Going' => disk[i].adds[1] < cycle'.turn
  BY <1>1
<1>4. ~ spoiled' => Ordered'
  BY <1>1 DEF Ordered, SentAt
<1>5. SentAt(disk)' = SentAt(disk)
  BY DEF SentAt
<1> QED BY <1>2, <1>3, <1>4, <1>5 DEF ExactInv, Ordered

LEMMA LoadedSame ==
    ASSUME LoadedInv, disk' = disk, handle' = "none" /\ hydrated' => blind',
           Marked' => Marked /\ ToSet(cache) \subseteq ToSet(cache'),
           \A j \in jobs' : Owed(j) => \/ \E o \in jobs : Owed(o) /\ o.id = j.id
                                       \/ Going /\ j.id = cycle.turn,
           Going' => \/ Going /\ cycle'.turn = cycle.turn
                     \/ cycle'.turn \in ToSet(cache'),
           Landed => Landed' \/ ~ Marked',
           \A j \in jobs' : j.phase = "read" => \/ j.seen = Len(disk)
                                                \/ \E o \in jobs : o.phase = "read" /\ o.seen = j.seen,
           Sound(disk)
    PROVE  LoadedInv'
<1> SUFFICES ASSUME Marked' PROVE LoadedInv'
  BY DEF LoadedInv
<1>1. /\ \A j \in jobs : Owed(j) => j.id \in ToSet(cache)
      /\ Going => cycle.turn \in ToSet(cache)
      /\ ToSet(cache) \subseteq ToSet(cache')
  BY DEF LoadedInv
<1>2. /\ \A j \in jobs' : Owed(j) => j.id \in ToSet(cache')
      /\ Going' => cycle'.turn \in ToSet(cache')
  BY <1>1
<1>3. CASE Landed
  BY <1>2, <1>3 DEF LoadedInv
<1>4. CASE ~ Landed
  <2>1. /\ ToSet(Replay(disk)) \subseteq ToSet(cache)
        /\ \A j \in jobs : j.phase = "read" =>
               ToSet(Replay(SubSeq(disk, 1, j.seen))) \subseteq ToSet(cache)
    BY <1>4 DEF LoadedInv
  <2>2. SubSeq(disk, 1, Len(disk)) = disk
    BY SubSeqFull DEF Sound
  <2>3. \A j \in jobs' : j.phase = "read" =>
            ToSet(Replay(SubSeq(disk, 1, j.seen))) \subseteq ToSet(cache)
    BY <2>1, <2>2
  <2>4. /\ ToSet(Replay(disk')) \subseteq ToSet(cache')
        /\ \A j \in jobs' : j.phase = "read" =>
               ToSet(Replay(SubSeq(disk', 1, j.seen))) \subseteq ToSet(cache')
    BY <1>1, <2>1, <2>3
  <2> QED BY <1>2, <2>4 DEF LoadedInv
<1> QED BY <1>3, <1>4

LEMMA InitIInv == Init => IInv
<1> SUFFICES ASSUME Init PROVE IInv
  OBVIOUS
<1>1. Typed
  <2>1. <<>> \in Seq(1..(0 + 0))
    OBVIOUS
  <2>2. cache \in Seq(1..(sends + edits))
    BY <2>1 DEF Init
  <2>3. cycle \in [at : {"idle", "running", "answered", "summary", "flushing"}, turn : Nat]
    BY DEF Init, Idle
  <2> QED BY <2>2, <2>3 DEF Init, Typed
<1>2. DiskInv
  BY ReplayEmpty DEF Init, DiskInv, SentAt
<1>3. CycleInv
  BY DEF Init, CycleInv, Idle, Going
<1>4. ChainInv
  <2>1. Ranked
    <3>1. [i \in Nat |-> 0] \in [Nat -> Nat]
      OBVIOUS
    <3>2. RanksOf([i \in Nat |-> 0], 0)
      BY DEF RanksOf, Init
    <3> QED BY <3>1, <3>2 DEF Ranked
  <2> QED BY <2>1 DEF Init, ChainInv, Covered
<1>5. WholeInv /\ DrainInv
  BY DEF Init, WholeInv, DrainInv, OneByOne
<1>6. ExactInv
  BY ReplayEmpty, WrittenEmpty DEF Init, ExactInv, SentAt
<1>7. LoadedInv
  BY DEF Init, LoadedInv, Marked
<1> QED BY <1>1, <1>2, <1>3, <1>4, <1>5, <1>6, <1>7 DEF IInv

LEMMA ToSetFacts ==
    ASSUME NEW T, NEW s \in Seq(T)
    PROVE  /\ \A x \in T : ToSet(Append(s, x)) = ToSet(s) \cup {x}
           /\ \A t \in Seq(T) : ToSet(s \o t) = ToSet(s) \cup ToSet(t)
           /\ ToSet(<<>>) = {}
<1>1. ASSUME NEW t \in Seq(T) PROVE ToSet(s \o t) = ToSet(s) \cup ToSet(t)
  <2> DEFINE u == s \o t
  <2>1. /\ Len(s) \in Nat /\ Len(t) \in Nat /\ DOMAIN s = 1..Len(s) /\ DOMAIN t = 1..Len(t)
        /\ u \in Seq(T) /\ Len(u) = Len(s) + Len(t) /\ DOMAIN u = 1..(Len(s) + Len(t))
        /\ \A i \in 1..(Len(s) + Len(t)) : u[i] = IF i <= Len(s) THEN s[i] ELSE t[i - Len(s)]
    BY ConcatProperties
  <2> HIDE DEF u
  <2>2. ASSUME NEW i \in DOMAIN u PROVE u[i] \in ToSet(s) \cup ToSet(t)
    <3>1. CASE i <= Len(s)
      BY <2>1, <3>1 DEF ToSet
    <3>2. CASE ~ (i <= Len(s))
      <4>1. i - Len(s) \in 1..Len(t) /\ u[i] = t[i - Len(s)]
        BY <2>1, <3>2
      <4> QED BY <2>1, <4>1 DEF ToSet
    <3> QED BY <3>1, <3>2
  <2>3. ASSUME NEW i \in DOMAIN s PROVE s[i] \in ToSet(u)
    <3>1. i \in DOMAIN u /\ u[i] = s[i]
      BY <2>1
    <3> QED BY <3>1 DEF ToSet
  <2>4. ASSUME NEW i \in DOMAIN t PROVE t[i] \in ToSet(u)
    <3>1. i + Len(s) \in DOMAIN u /\ u[i + Len(s)] = t[(i + Len(s)) - Len(s)] /\ (i + Len(s)) - Len(s) = i
      BY <2>1
    <3>2. u[i + Len(s)] = t[i]
      BY <3>1
    <3> QED BY <3>1, <3>2 DEF ToSet
  <2>5. ToSet(u) = ToSet(s) \cup ToSet(t)
    BY <2>2, <2>3, <2>4 DEF ToSet
  <2> QED BY <2>5 DEF u
<1>2. ASSUME NEW x \in T PROVE ToSet(Append(s, x)) = ToSet(s) \cup {x}
  <2>1. Append(s, x) = s \o <<x>> /\ <<x>> \in Seq(T)
    BY AppendIsConcat
  <2>2. ToSet(<<x>>) = {x}
    BY DEF ToSet
  <2> QED BY <1>1, <2>1, <2>2
<1>3. ToSet(<<>>) = {}
  BY DEF ToSet
<1> QED BY <1>1, <1>2, <1>3

LEMMA MessageAppended ==
    ASSUME NEW m \in Nat, NEW n \in Nat, m <= n, cache \in Seq(1..m), NEW t \in 1..n,
           AppendSessionMessage(t)
    PROVE  /\ cache' \in Seq(1..n)
           /\ ToSet(cache) \subseteq ToSet(cache') /\ t \in ToSet(cache')
<1>1. cache \in Seq(1..n)
  BY WiderSeq
<1>2. CASE t \in ToSet(cache)
  BY <1>1, <1>2 DEF AppendSessionMessage
<1>3. CASE t \notin ToSet(cache)
  <2>1. cache' = Append(cache, t)
    BY <1>3 DEF AppendSessionMessage
  <2>2. Append(cache, t) \in Seq(1..n) /\ ToSet(Append(cache, t)) = ToSet(cache) \cup {t}
    BY <1>1, ToSetFacts
  <2> QED BY <2>1, <2>2
<1> QED BY <1>2, <1>3

LEMMA LoadedVoid ==
    ASSUME ~ Marked', handle' = "none" /\ hydrated' => blind'
    PROVE  LoadedInv'
BY DEF LoadedInv

-----------------------------------------------------------------------------
(* The invariant, action by action.                                          *)

LEMMA Initialize_Keeps == ASSUME IInv, Initialize PROVE IInv'
<1>0. /\ handle = "none" /\ handle' = IF hydrated THEN "live" ELSE "hydrating"
      /\ hydrated' = TRUE /\ cycle = Idle
      /\ UNCHANGED <<disk, cache, pendingWrite, jobs, cycle, awaited, sends, edits, blind, stolen, spoiled>>
  BY DEF IInv, CycleInv, Initialize, calls, history
<1>1. Typed'
  BY <1>0 DEF IInv, Typed
<1>2. DiskInv'
  BY <1>0, DiskSame DEF IInv, Typed
<1>3. CycleInv'
  BY <1>0 DEF IInv, CycleInv, Going, IsJob, Idle
<1>4. ChainInv'
  BY <1>0, ChainSame DEF IInv
<1>5. WholeInv' /\ DrainInv'
  BY <1>0 DEF IInv, WholeInv, DrainInv, OneByOne, Quiet
<1>6. ExactInv'
  BY <1>0, ExactSame DEF IInv, Going, Owed
<1>7. LoadedInv'
  <2>1. ~ Marked'
    BY <1>0 DEF IInv, LoadedInv, Marked
  <2>2. handle' # "none"
    BY <1>0
  <2> QED BY <2>1, <2>2, LoadedVoid
<1> QED BY <1>1, <1>2, <1>3, <1>4, <1>5, <1>6, <1>7 DEF IInv

LEMMA Hydrated_Keeps == ASSUME IInv, Hydrated PROVE IInv'
<1>0. /\ handle = "hydrating" /\ handle' = "live" /\ cycle = Idle
      /\ cache' = IF Replay(disk) = <<>> THEN cache ELSE Replay(disk)
      /\ blind' = stolen
      /\ UNCHANGED <<disk, hydrated, pendingWrite, jobs, cycle, awaited, sends, edits, stolen, spoiled>>
  BY DEF IInv, CycleInv, Hydrated, calls
<1>1. Typed'
  <2>1. Replay(disk) \in Seq(1..(sends + edits))
    BY ReplayTyped DEF IInv, DiskInv
  <2> QED BY <1>0, <2>1 DEF IInv, Typed
<1>2. DiskInv'
  BY <1>0, DiskSame DEF IInv, Typed
<1>3. CycleInv'
  BY <1>0 DEF IInv, CycleInv, Going, IsJob, Idle
<1>4. ChainInv'
  BY <1>0, ChainSame DEF IInv
<1>5. WholeInv' /\ DrainInv'
  BY <1>0 DEF IInv, WholeInv, DrainInv, OneByOne, Quiet
<1>6. ExactInv'
  BY <1>0, ExactSame DEF IInv, Going, Owed
<1>7. LoadedInv'
  <2> SUFFICES ASSUME Marked'
               PROVE  /\ \A j \in jobs : ~ Owed(j)
                      /\ ~ Going
                      /\ ToSet(Replay(disk)) \subseteq ToSet(cache')
                      /\ \A j \in jobs : j.phase = "read" =>
                             ToSet(Replay(SubSeq(disk, 1, j.seen))) \subseteq ToSet(cache')
    BY <1>0 DEF LoadedInv, Owed, Going, Marked
  <2>1. ~ stolen
    BY <1>0 DEF Marked
  <2>2. OneByOne /\ \A j \in jobs : j.kind \in {"compact", "inject"}
    BY <1>0, <2>1 DEF IInv, WholeInv, DrainInv, Quiet
  <2>3. ToSet(Replay(disk)) \subseteq ToSet(cache')
    BY <1>0 DEF ToSet
  <2>4. SubSeq(disk, 1, Len(disk)) = disk
    BY SubSeqFull DEF IInv, DiskInv, Sound
  <2>5. \A j \in jobs : j.phase = "read" =>
             ToSet(Replay(SubSeq(disk, 1, j.seen))) \subseteq ToSet(cache')
    BY <2>2, <2>3, <2>4 DEF OneByOne
  <2> QED BY <1>0, <2>2, <2>3, <2>5 DEF Owed, Going, Idle
<1> QED BY <1>1, <1>2, <1>3, <1>4, <1>5, <1>6, <1>7 DEF IInv

LEMMA HydrationFails_Keeps == ASSUME IInv, HydrationFails PROVE IInv'
<1>0. /\ handle = "hydrating" /\ handle' = "none" /\ cycle = Idle /\ blind' = TRUE
      /\ UNCHANGED <<disk, cache, hydrated, pendingWrite, jobs, cycle, awaited, sends, edits, stolen, spoiled>>
  BY DEF IInv, CycleInv, HydrationFails, calls, memory
<1>1. Typed'
  BY <1>0 DEF IInv, Typed
<1>2. DiskInv'
  BY <1>0, DiskSame DEF IInv, Typed
<1>3. CycleInv'
  BY <1>0 DEF IInv, CycleInv, Going, IsJob, Idle
<1>4. ChainInv'
  BY <1>0, ChainSame DEF IInv
<1>5. WholeInv' /\ DrainInv'
  BY <1>0 DEF IInv, WholeInv, DrainInv, OneByOne, Quiet
<1>6. ExactInv'
  BY <1>0, ExactSame DEF IInv, Going, Owed
<1>7. LoadedInv'
  BY <1>0, LoadedVoid DEF Marked
<1> QED BY <1>1, <1>2, <1>3, <1>4, <1>5, <1>6, <1>7 DEF IInv

LEMMA SendStarts_Keeps == ASSUME IInv, SendStarts PROVE IInv'
<1> DEFINE n == sends + edits
<1>0. /\ handle = "live" /\ cycle = Idle /\ sends' = sends + 1
      /\ cycle' = [at |-> "running", turn |-> n + 1]
      /\ AppendSessionMessage(n + 1)
      /\ UNCHANGED <<disk, hydrated, pendingWrite, jobs, handle, awaited, edits, blind, stolen, spoiled>>
  BY DEF SendStarts, history
<1>1. /\ sends \in Nat /\ edits \in Nat /\ n \in Nat /\ n + 1 \in Nat /\ n <= n + 1
      /\ sends' + edits' = n + 1 /\ cache \in Seq(1..n) /\ sends' \in Nat /\ edits' \in Nat
  BY <1>0 DEF IInv, Typed
<1>2. cache' \in Seq(1..(n + 1)) /\ ToSet(cache) \subseteq ToSet(cache') /\ n + 1 \in ToSet(cache')
  <2>1. n + 1 \in 1..(n + 1)
    BY <1>1
  <2> HIDE DEF n
  <2> QED BY <1>0, <1>1, <2>1, MessageAppended
<1> HIDE DEF n
<1>3. Typed'
  <2>1. cycle' \in [at : {"idle", "running", "answered", "summary", "flushing"}, turn : Nat]
    BY <1>0, <1>1
  <2>2. cache' \in Seq(1..(sends' + edits'))
    BY <1>1, <1>2
  <2> QED BY <1>0, <1>1, <2>1, <2>2 DEF IInv, Typed
<1>4. DiskInv'
  <2>1. sends + edits <= sends' + edits'
    BY <1>1 DEF n
  <2> QED BY <1>0, <1>1, <2>1, DiskSame DEF IInv
<1>5. \A j \in jobs : j.id \in Nat /\ j.id <= n /\ j.id # n + 1 /\ j.id < n + 1 /\ j.seen <= Len(disk)
  BY <1>1, JobFields DEF IInv, CycleInv, ChainInv, n
<1>6. CycleInv'
  <2>1. cycle'.at = "running" /\ cycle'.turn = n + 1 /\ n + 1 # 0
    BY <1>0, <1>1
  <2>2. \A j \in jobs' : j.id <= sends' + edits' /\ j.seen <= Len(disk')
    BY <1>0, <1>1, <1>5
  <2>3. Going' => /\ cycle'.turn # 0 /\ ~ IsJob(cycle.turn)'
                  /\ \A j \in jobs' : j.kind = "turn" => j.id < cycle'.turn
    BY <1>0, <1>5, <2>1 DEF IsJob
  <2>4. awaited' # 0 => handle' = "flushing"
    BY <1>0 DEF IInv, CycleInv, Idle
  <2> QED BY <1>0, <1>1, <2>1, <2>2, <2>3, <2>4 DEF CycleInv
<1>7. ChainInv'
  BY <1>0, ChainSame DEF IInv
<1>8. WholeInv' /\ DrainInv'
  BY <1>0 DEF IInv, WholeInv, DrainInv, OneByOne
<1>9. ExactInv'
  <2>1. \A i \in SentAt(disk) : disk[i].adds[1] < cycle'.turn
    BY <1>0, <1>1 DEF IInv, DiskInv, n
  <2> QED BY <1>0, <2>1, ExactSame DEF IInv, Owed
<1>10. LoadedInv'
  <2>1. Landed => Landed'
    BY <1>0 DEF Landed
  <2>2. cycle'.turn \in ToSet(cache')
    BY <1>0, <1>2
  <2>3. Marked' => Marked
    BY <1>0 DEF Marked
  <2>4. handle' # "none"
    BY <1>0
  <2>5. Sound(disk)
    BY DEF IInv, DiskInv
  <2>6. \A j \in jobs' : Owed(j) => \E o \in jobs : Owed(o) /\ o.id = j.id
    BY <1>0
  <2>7. \A j \in jobs' : j.phase = "read" => \E o \in jobs : o.phase = "read" /\ o.seen = j.seen
    BY <1>0
  <2> QED BY <1>0, <1>2, <2>1, <2>2, <2>3, <2>4, <2>5, <2>6, <2>7, LoadedSame DEF IInv
<1> QED BY <1>3, <1>4, <1>6, <1>7, <1>8, <1>9, <1>10 DEF IInv

\* The steps that leave disk and jobs alone and do not open a handle.
LEMMA RestSame ==
    ASSUME IInv, UNCHANGED <<disk, jobs, sends, edits, spoiled>>,
           Going' => Going /\ cycle'.turn = cycle.turn,
           handle' = "none" /\ hydrated' => blind',
           Marked' => Marked /\ ToSet(cache) \subseteq ToSet(cache')
    PROVE  DiskInv' /\ ExactInv' /\ LoadedInv'
<1>1. DiskInv'
  BY DiskSame DEF IInv, Typed
<1>2. \A j \in jobs' : Owed(j) => \E o \in jobs : Owed(o) /\ o.id = j.id
  OBVIOUS
<1>3. ExactInv'
  BY <1>2, ExactSame DEF IInv
<1>4. LoadedInv'
  <2>1. Landed => Landed'
    BY DEF Landed
  <2>2. \A j \in jobs' : j.phase = "read" => \E o \in jobs : o.phase = "read" /\ o.seen = j.seen
    OBVIOUS
  <2>3. Sound(disk)
    BY DEF IInv, DiskInv
  <2> QED BY <1>2, <2>1, <2>2, <2>3, LoadedSame DEF IInv
<1> QED BY <1>1, <1>3, <1>4

LEMMA SendFails_Keeps == ASSUME IInv, SendFails PROVE IInv'
<1>0. /\ cycle.at = "running" /\ cycle' = Idle
      /\ UNCHANGED <<disk, cache, hydrated, pendingWrite, jobs, handle, awaited, sends, edits,
                     blind, stolen, spoiled>>
  BY DEF SendFails, calls, memory
<1> cycle # Idle /\ awaited = 0
  BY <1>0 DEF IInv, CycleInv, Idle
<1>1. Typed'
  BY <1>0 DEF IInv, Typed, Idle
<1>2. CycleInv'
  <2>1. ~ Going' /\ cycle'.turn = 0
    BY <1>0 DEF Going, Idle
  <2>2. sends + edits \in Nat
    BY DEF IInv, Typed
  <2> QED BY <1>0, <2>1, <2>2 DEF IInv, CycleInv
<1>3. ChainInv'
  BY <1>0, ChainSame DEF IInv
<1>4. WholeInv' /\ DrainInv'
  BY <1>0 DEF IInv, WholeInv, DrainInv, OneByOne
<1>5. DiskInv' /\ ExactInv' /\ LoadedInv'
  <2>1. ~ Going' /\ (Marked' <=> Marked) /\ (handle' = "none" /\ hydrated' => blind')
    BY <1>0 DEF Going, Idle, Marked, IInv, LoadedInv
  <2> QED BY <1>0, <2>1, RestSame
<1> QED BY <1>1, <1>2, <1>3, <1>4, <1>5 DEF IInv

LEMMA RunEnds_Keeps == ASSUME IInv, RunEnds PROVE IInv'
<1> DEFINE n == sends + edits
<1>0. /\ cycle.at = "running" /\ cycle' = [cycle EXCEPT !.at = "answered"]
      /\ AppendSessionMessage(cycle.turn)
      /\ UNCHANGED <<disk, hydrated, pendingWrite, jobs, handle, awaited, sends, edits, blind, stolen, spoiled>>
  BY DEF RunEnds, history, calls
<1>1. cycle'.at = "answered" /\ cycle'.turn = cycle.turn /\ cycle.turn \in Nat
      /\ cycle' \in [at : {"idle", "running", "answered", "summary", "flushing"}, turn : Nat]
  BY <1>0 DEF IInv, Typed
<1>2. n \in Nat /\ cache \in Seq(1..n) /\ cycle.turn \in 1..n
  BY <1>0, <1>1 DEF IInv, Typed, CycleInv, Going
<1>3. cache' \in Seq(1..n) /\ ToSet(cache) \subseteq ToSet(cache')
  <2>1. n <= n
    BY <1>2
  <2> HIDE DEF n
  <2> QED BY <1>0, <1>2, <2>1, MessageAppended
<1>4. Typed'
  BY <1>0, <1>1, <1>3 DEF IInv, Typed
<1>5. CycleInv'
  BY <1>0, <1>1 DEF IInv, CycleInv, Going, IsJob, Idle
<1>6. ChainInv'
  BY <1>0, ChainSame DEF IInv
<1>7. WholeInv' /\ DrainInv'
  BY <1>0 DEF IInv, WholeInv, DrainInv, OneByOne
<1>8. DiskInv' /\ ExactInv' /\ LoadedInv'
  <2>1. Going /\ (Marked' <=> Marked) /\ (handle' = "none" /\ hydrated' => blind')
    BY <1>0 DEF Going, Marked, IInv, LoadedInv
  <2> QED BY <1>0, <1>1, <1>3, <2>1, RestSame
<1> QED BY <1>4, <1>5, <1>6, <1>7, <1>8 DEF IInv

LEMMA FlushStarts_Keeps == ASSUME IInv, FlushStarts PROVE IInv'
<1>0. /\ TakeWrites(pendingWrite)
      /\ UNCHANGED <<disk, cache, hydrated, jobs, sends, edits, blind, stolen, spoiled>>
      /\ \/ cycle.at = "summary" /\ cycle' = [cycle EXCEPT !.at = "flushing"] /\ handle' = handle
         \/ handle = "disposing" /\ cycle = Idle /\ handle' = "flushing" /\ cycle' = cycle
  BY DEF FlushStarts, calls, history, memory
<1>1. /\ cycle \in [at : {"idle", "running", "answered", "summary", "flushing"}, turn : Nat]
      /\ awaited = 0 /\ handle \in {"live", "disposing"}
      /\ awaited' = pendingWrite
  BY <1>0 DEF IInv, CycleInv, Typed, Idle, TakeWrites
<1>2. /\ cycle' \in [at : {"idle", "running", "answered", "summary", "flushing"}, turn : Nat]
      /\ cycle'.turn = cycle.turn /\ ~ Going'
      /\ handle' \in {"live", "disposing", "flushing"}
      /\ \/ cycle'.at = "flushing" /\ handle' = handle
         \/ cycle' = Idle /\ handle' = "flushing"
  BY <1>0, <1>1 DEF Going, Idle
<1>3. Typed'
  BY <1>0, <1>2 DEF IInv, Typed
<1>4. CycleInv'
  BY <1>0, <1>1, <1>2 DEF IInv, CycleInv, Idle
<1>5. ChainInv'
  BY <1>0, <1>1, ChainTake DEF IInv
<1>6. WholeInv' /\ DrainInv'
  BY <1>0, <1>2 DEF IInv, WholeInv, DrainInv, OneByOne, Quiet
<1>7. DiskInv' /\ ExactInv' /\ LoadedInv'
  <2>1. (Marked' => Marked) /\ handle' # "none"
    BY <1>0, <1>1, <1>2 DEF Marked
  <2> QED BY <1>0, <1>2, <2>1, RestSame
<1> QED BY <1>3, <1>4, <1>5, <1>6, <1>7 DEF IInv

LEMMA FlushGoesOn_Keeps == ASSUME IInv, FlushGoesOn PROVE IInv'
<1>0. /\ cycle.at = "flushing" \/ handle = "flushing"
      /\ awaited = 0
      /\ UNCHANGED <<disk, cache, hydrated, jobs, sends, edits, blind, stolen, spoiled>>
  BY DEF FlushGoesOn, calls, history, memory
<1>1. CASE pendingWrite # 0
  <2>0. TakeWrites(pendingWrite) /\ UNCHANGED <<cycle, handle>>
    BY <1>1 DEF FlushGoesOn
  <2>1. Typed'
    BY <1>0, <2>0 DEF IInv, Typed
  <2>2. CycleInv'
    BY <1>0, <2>0 DEF IInv, CycleInv, Going, IsJob
  <2>3. ChainInv'
    BY <1>0, <2>0, ChainTake DEF IInv
  <2>4. WholeInv' /\ DrainInv'
    BY <1>0, <2>0 DEF IInv, WholeInv, DrainInv, OneByOne
  <2>5. DiskInv' /\ ExactInv' /\ LoadedInv'
    <3>1. (Marked' <=> Marked) /\ (Going' <=> Going) /\ (handle' = "none" /\ hydrated' => blind')
      BY <1>0, <2>0 DEF Marked, Going, IInv, LoadedInv
    <3> QED BY <1>0, <2>0, <3>1, RestSame
  <2> QED BY <2>1, <2>2, <2>3, <2>4, <2>5 DEF IInv
<1>2. CASE pendingWrite = 0
  <2>0. /\ cycle' = Idle /\ UNCHANGED <<awaited, pendingWrite>>
        /\ handle' = IF handle = "flushing" THEN "releasing" ELSE handle
    BY <1>2 DEF FlushGoesOn
  <2>1. Typed'
    BY <1>0, <2>0 DEF IInv, Typed, Idle
  <2>2. CycleInv'
    <3>1. ~ Going' /\ cycle'.turn = 0 /\ sends + edits \in Nat
      BY <2>0 DEF Going, Idle, IInv, Typed
    <3> QED BY <1>0, <2>0, <3>1 DEF IInv, CycleInv
  <2>3. ChainInv'
    BY <1>0, <2>0, ChainSame DEF IInv
  <2>4. ~ stolen => jobs = {}
    BY <1>0, <1>2, NothingKnown DEF IInv
  <2>5. WholeInv'
    BY <1>0, <2>0, <2>4 DEF IInv, WholeInv, OneByOne
  <2>6. DrainInv'
    BY <1>0, <2>0, <2>4 DEF DrainInv
  <2>7. DiskInv' /\ ExactInv' /\ LoadedInv'
    <3>1. ~ Going' /\ (Marked' => Marked) /\ (handle' = "none" /\ hydrated' => blind')
      BY <1>0, <2>0 DEF Marked, Going, IInv, LoadedInv, Idle
    <3> QED BY <1>0, <2>0, <3>1, RestSame
  <2> QED BY <2>1, <2>2, <2>3, <2>5, <2>6, <2>7 DEF IInv
<1> QED BY <1>1, <1>2

LEMMA Dispose_Keeps == ASSUME IInv, Dispose PROVE IInv'
<1>0. /\ handle = "live" /\ handle' = "disposing"
      /\ UNCHANGED <<disk, cache, hydrated, pendingWrite, jobs, cycle, awaited, sends, edits,
                     blind, stolen, spoiled>>
  BY DEF Dispose, calls, memory, history
<1>1. Typed'
  BY <1>0 DEF IInv, Typed
<1>2. CycleInv'
  BY <1>0 DEF IInv, CycleInv, Going, IsJob
<1>3. ChainInv'
  BY <1>0, ChainSame DEF IInv
<1>4. WholeInv' /\ DrainInv'
  BY <1>0 DEF IInv, WholeInv, DrainInv, OneByOne, Quiet
<1>5. DiskInv' /\ ExactInv' /\ LoadedInv'
  <2>1. (Going' <=> Going) /\ (Marked' <=> Marked) /\ handle' # "none"
    BY <1>0 DEF Going, Marked
  <2> QED BY <1>0, <2>1, RestSame
<1> QED BY <1>1, <1>2, <1>3, <1>4, <1>5 DEF IInv

LEMMA Disposed_Keeps == ASSUME IInv, Disposed PROVE IInv'
<1>0. /\ handle = "releasing" /\ handle' = "none" /\ hydrated' = FALSE /\ pendingWrite' = 0
      /\ stolen' = (stolen \/ pendingWrite # 0) /\ cycle = Idle
      /\ UNCHANGED <<disk, cache, jobs, cycle, awaited, sends, edits, blind, spoiled>>
  BY DEF IInv, CycleInv, Disposed, ForgetBookkeeping, calls
<1>1. Typed'
  BY <1>0 DEF IInv, Typed
<1>2. CycleInv'
  BY <1>0 DEF IInv, CycleInv, Going, Idle
<1>3. stolen \in BOOLEAN
  BY DEF IInv, Typed
<1>4. ChainInv'
  BY <1>0, <1>3, ChainDrop DEF IInv
<1>5. WholeInv' /\ DrainInv'
  BY <1>0, <1>3 DEF IInv, WholeInv, DrainInv, OneByOne, Quiet
<1>6. DiskInv' /\ ExactInv' /\ LoadedInv'
  <2>1. (Going' <=> Going) /\ ~ Marked'
    BY <1>0 DEF Going, Marked
  <2> QED BY <1>0, <2>1, RestSame
<1> QED BY <1>1, <1>2, <1>4, <1>5, <1>6 DEF IInv

LEMMA OthersFlush_Keeps == ASSUME IInv, OthersFlush PROVE IInv'
<1>0. /\ pendingWrite' = 0 /\ stolen' = TRUE
      /\ UNCHANGED <<disk, cache, hydrated, jobs, handle, cycle, awaited, sends, edits, blind, spoiled>>
  BY DEF OthersFlush, calls, memory
<1>1. Typed'
  BY <1>0 DEF IInv, Typed
<1>2. CycleInv'
  BY <1>0 DEF IInv, CycleInv, Going, IsJob
<1>3. ChainInv'
  BY <1>0, ChainDrop DEF IInv
<1>4. WholeInv' /\ DrainInv'
  BY <1>0 DEF IInv, WholeInv, DrainInv, OneByOne
<1>5. DiskInv' /\ ExactInv' /\ LoadedInv'
  <2>1. (Going' <=> Going) /\ (Marked' <=> Marked) /\ (handle' = "none" /\ hydrated' => blind')
    BY <1>0 DEF Going, Marked, IInv, LoadedInv
  <2> QED BY <1>0, <2>1, RestSame
<1> QED BY <1>1, <1>2, <1>3, <1>4, <1>5 DEF IInv

LEMMA OthersAppend_Keeps == ASSUME IInv, OthersAppend PROVE IInv'
<1>0. /\ cache' = <<>> /\ hydrated' = FALSE /\ pendingWrite' = 0
      /\ stolen' = (stolen \/ pendingWrite # 0)
      /\ UNCHANGED <<disk, jobs, handle, cycle, awaited, sends, edits, blind, spoiled>>
  BY DEF OthersAppend, ForgetBookkeeping, calls
<1>1. Typed'
  <2>1. cache' \in Seq(1..(sends + edits))
    BY <1>0
  <2> QED BY <1>0, <2>1 DEF IInv, Typed
<1>2. CycleInv'
  BY <1>0 DEF IInv, CycleInv, Going, IsJob
<1>3. stolen \in BOOLEAN
  BY DEF IInv, Typed
<1>4. ChainInv'
  BY <1>0, <1>3, ChainDrop DEF IInv
<1>5. WholeInv' /\ DrainInv'
  BY <1>0, <1>3 DEF IInv, WholeInv, DrainInv, OneByOne
<1>6. DiskInv' /\ ExactInv' /\ LoadedInv'
  <2>1. (Going' <=> Going) /\ ~ Marked'
    BY <1>0 DEF Going, Marked
  <2> QED BY <1>0, <2>1, RestSame
<1> QED BY <1>1, <1>2, <1>4, <1>5, <1>6 DEF IInv

\* A job joins the chain: the turn of the send that has not been written yet,
\* or an edit.
LEMMA Enqueued ==
    ASSUME IInv, NEW id \in Nat \ {0}, NEW kind \in {"turn", "compact", "inject"},
           NEW partial \in BOOLEAN, Enqueue(id, kind, partial), ~ IsJob(id),
           kind = "turn" => Going /\ id = cycle.turn,
           sends' \in Nat, edits' \in Nat, sends + edits <= sends' + edits',
           UNCHANGED <<disk, cache, hydrated, handle, blind, stolen>>,
           Going' => Going /\ cycle'.turn = cycle.turn,
           \/ pendingWrite' = id /\ awaited' = awaited
           \/ pendingWrite' = 0 /\ awaited' = id /\ awaited = 0
    PROVE  DiskInv' /\ ChainInv' /\ WholeInv' /\ DrainInv' /\ ExactInv' /\ LoadedInv'
<1> DEFINE new == NewJob(id, kind, partial, pendingWrite)
<1>0. /\ jobs' = jobs \cup {new} /\ spoiled' = (spoiled \/ (pendingWrite = 0 /\ jobs # {}))
      /\ spoiled \in BOOLEAN /\ stolen \in BOOLEAN /\ pendingWrite \in Nat
  BY DEF Enqueue, IInv, Typed, ChainInv
<1>1. new.id = id /\ new.kind = kind /\ new.phase = "queued"
  BY <1>0, NewJobIsJob
<1>2. DiskInv'
  BY DiskSame DEF IInv, Typed
<1>3. ChainInv'
  <2>1. kind = "turn" => \A j \in jobs : j.kind = "turn" => j.id < id
    BY DEF IInv, CycleInv
  <2> QED BY <1>0, <2>1, ChainEnqueue DEF IInv
<1>4. handle \in Quiet => ~ Going /\ awaited = 0
  BY DEF IInv, CycleInv, Quiet, Going, Idle
<1>5. ~ stolen /\ handle \in Quiet /\ pendingWrite = 0 => jobs = {}
  BY <1>4, NothingKnown DEF IInv
<1>6. WholeInv'
  <2> SUFFICES ASSUME ~ spoiled' \/ (~ stolen /\ handle \in Quiet) PROVE OneByOne'
    BY DEF WholeInv, Quiet
  <2>1. OneByOne /\ (jobs = {} \/ pendingWrite # 0)
    BY <1>0, <1>5 DEF IInv, WholeInv
  <2> QED BY <1>0, <2>1, OneEnqueue DEF IInv
<1> HIDE DEF new
<1>7. DrainInv'
  BY <1>0, <1>1, <1>4 DEF IInv, DrainInv, Quiet
<1>8. \A j \in jobs' : Owed(j) => \/ \E o \in jobs : Owed(o) /\ o.id = j.id
                                  \/ Going /\ j.id = cycle.turn
  BY <1>0, <1>1 DEF Owed
<1>9. ExactInv'
  <2>1. ~ spoiled' => ~ spoiled
    BY <1>0
  <2> QED BY <1>8, <2>1, ExactSame DEF IInv
<1>10. LoadedInv'
  <2>1. Landed => Landed'
    BY <1>0 DEF Landed
  <2>2. \A j \in jobs' : j.phase = "read" => \E o \in jobs : o.phase = "read" /\ o.seen = j.seen
    BY <1>0, <1>1
  <2>3. Sound(disk) /\ (Marked' => Marked) /\ (handle' = "none" /\ hydrated' => blind')
    BY DEF IInv, DiskInv, LoadedInv, Marked
  <2> QED BY <1>8, <2>1, <2>2, <2>3, LoadedSame DEF IInv
<1> QED BY <1>2, <1>3, <1>6, <1>7, <1>9, <1>10

LEMMA PersistTurnToTranscript_Keeps == ASSUME IInv, PersistTurnToTranscript PROVE IInv'
<1>0. /\ cycle.at = "answered" /\ cycle' = [cycle EXCEPT !.at = "summary"]
      /\ Enqueue(cycle.turn, "turn", FALSE) /\ pendingWrite' = cycle.turn
      /\ UNCHANGED <<disk, cache, hydrated, handle, awaited, sends, edits, blind, stolen>>
  BY DEF PersistTurnToTranscript, calls, memory
<1>1. /\ Going /\ cycle.turn \in Nat \ {0} /\ ~ IsJob(cycle.turn) /\ cycle # Idle
      /\ cycle'.turn = cycle.turn /\ cycle'.at = "summary" /\ ~ Going'
      /\ cycle' \in [at : {"idle", "running", "answered", "summary", "flushing"}, turn : Nat]
  BY <1>0 DEF IInv, Typed, CycleInv, Going, Idle
<1>2. Typed'
  BY <1>0, <1>1 DEF IInv, Typed, Enqueue
<1>3. CycleInv'
  <2>1. \A j \in jobs' : j.id <= sends' + edits' /\ j.seen <= Len(disk')
    <3> DEFINE new == NewJob(cycle.turn, "turn", FALSE, pendingWrite)
    <3>1. new.id = cycle.turn /\ new.seen = 0
      BY DEF NewJob
    <3>2. jobs' = jobs \cup {new}
      BY <1>0 DEF Enqueue
    <3>3. 0 <= Len(disk) /\ cycle.turn <= sends + edits
      BY SoundRecords DEF IInv, DiskInv, CycleInv
    <3> HIDE DEF new
    <3> QED BY <1>0, <3>1, <3>2, <3>3 DEF IInv, CycleInv
  <2> QED BY <1>0, <1>1, <2>1 DEF IInv, CycleInv
<1>4. DiskInv' /\ ChainInv' /\ WholeInv' /\ DrainInv' /\ ExactInv' /\ LoadedInv'
  <2>1. sends' \in Nat /\ edits' \in Nat /\ sends + edits <= sends' + edits'
    BY <1>0 DEF IInv, Typed
  <2> QED BY <1>0, <1>1, <2>1, Enqueued
<1> QED BY <1>2, <1>3, <1>4 DEF IInv

LEMMA RunFails_Keeps == ASSUME IInv, RunFails PROVE IInv'
<1>0. /\ cycle.at = "running" /\ cycle' = [cycle EXCEPT !.at = "flushing"]
      /\ UNCHANGED <<disk, cache, hydrated, handle, sends, edits, blind, stolen>>
      /\ \/ Enqueue(cycle.turn, "turn", TRUE) /\ TakeWrites(cycle.turn)
         \/ TakeWrites(pendingWrite) /\ UNCHANGED <<jobs, spoiled>>
  BY DEF RunFails, calls, memory
<1>1. /\ Going /\ cycle.turn \in Nat \ {0} /\ ~ IsJob(cycle.turn) /\ cycle # Idle /\ awaited = 0
      /\ cycle'.turn = cycle.turn /\ cycle'.at = "flushing" /\ ~ Going'
      /\ cycle' \in [at : {"idle", "running", "answered", "summary", "flushing"}, turn : Nat]
  BY <1>0 DEF IInv, Typed, CycleInv, Going, Idle
<1>2. Typed'
  BY <1>0, <1>1 DEF IInv, Typed, Enqueue
<1>3. CASE Enqueue(cycle.turn, "turn", TRUE) /\ TakeWrites(cycle.turn)
  <2>1. \A j \in jobs' : j.id <= sends' + edits' /\ j.seen <= Len(disk')
    <3> DEFINE new == NewJob(cycle.turn, "turn", TRUE, pendingWrite)
    <3>1. new.id = cycle.turn /\ new.seen = 0
      BY DEF NewJob
    <3>2. jobs' = jobs \cup {new}
      BY <1>3 DEF Enqueue
    <3>3. 0 <= Len(disk) /\ cycle.turn <= sends + edits
      BY SoundRecords DEF IInv, DiskInv, CycleInv
    <3> HIDE DEF new
    <3> QED BY <1>0, <3>1, <3>2, <3>3 DEF IInv, CycleInv
  <2>2. CycleInv'
    BY <1>0, <1>1, <2>1 DEF IInv, CycleInv
  <2>3. DiskInv' /\ ChainInv' /\ WholeInv' /\ DrainInv' /\ ExactInv' /\ LoadedInv'
    <3>1. sends' \in Nat /\ edits' \in Nat /\ sends + edits <= sends' + edits'
      BY <1>0 DEF IInv, Typed
    <3>2. pendingWrite' = 0 /\ awaited' = cycle.turn
      BY <1>3 DEF TakeWrites
    <3> QED BY <1>0, <1>1, <1>3, <3>1, <3>2, Enqueued
  <2> QED BY <1>2, <2>2, <2>3 DEF IInv
<1>4. CASE TakeWrites(pendingWrite) /\ UNCHANGED <<jobs, spoiled>>
  <2>1. CycleInv'
    BY <1>0, <1>1, <1>4 DEF IInv, CycleInv
  <2>2. ChainInv'
    BY <1>0, <1>1, <1>4, ChainTake DEF IInv
  <2>3. WholeInv' /\ DrainInv'
    BY <1>0, <1>4 DEF IInv, WholeInv, DrainInv, OneByOne
  <2>4. DiskInv' /\ ExactInv' /\ LoadedInv'
    <3>1. (Marked' <=> Marked) /\ (handle' = "none" /\ hydrated' => blind')
      BY <1>0, <1>4 DEF Marked, IInv, LoadedInv
    <3> QED BY <1>0, <1>1, <1>4, <3>1, RestSame
  <2> QED BY <1>2, <2>1, <2>2, <2>3, <2>4 DEF IInv
<1> QED BY <1>0, <1>3, <1>4

LEMMA EnqueueSessionWrite_Keeps ==
    ASSUME IInv, NEW kind \in {"compact", "inject"}, EnqueueSessionWrite(kind) PROVE IInv'
<1> DEFINE n == sends + edits
           id == n + 1
           new == NewJob(id, kind, FALSE, pendingWrite)
<1>0. /\ edits' = edits + 1 /\ Enqueue(id, kind, FALSE) /\ pendingWrite' = id
      /\ UNCHANGED <<disk, cache, hydrated, handle, cycle, awaited, sends, blind, stolen>>
  BY DEF EnqueueSessionWrite, memory
<1>1. /\ sends \in Nat /\ edits \in Nat /\ n \in Nat /\ id \in Nat \ {0} /\ n <= id
      /\ sends' + edits' = id /\ cache \in Seq(1..n) /\ sends' \in Nat /\ edits' \in Nat
  BY <1>0 DEF IInv, Typed
<1>2. \A j \in jobs : j.id \in Nat /\ j.id <= n /\ j.id # id /\ j.seen <= Len(disk)
  BY <1>1, JobFields DEF IInv, CycleInv, ChainInv
<1>3. jobs' = jobs \cup {new} /\ new.id = id /\ new.seen = 0 /\ new.kind = kind
  BY <1>0 DEF Enqueue, NewJob
<1>4. n = sends + edits
  OBVIOUS
<1> HIDE DEF new, id, n
<1>5. Typed'
  <2>1. cache' \in Seq(1..(sends' + edits'))
    BY <1>0, <1>1, WiderSeq
  <2>2. spoiled' \in BOOLEAN
    BY <1>0 DEF Enqueue
  <2> QED BY <1>0, <1>1, <2>1, <2>2 DEF IInv, Typed
<1>6. CycleInv'
  <2>1. 0 <= Len(disk) /\ cycle.turn \in Nat /\ cycle.turn <= n
    BY <1>4, SoundRecords DEF IInv, DiskInv, CycleInv, Typed
  <2>2. \A j \in jobs' : j.id <= sends' + edits' /\ j.seen <= Len(disk')
    BY <1>0, <1>1, <1>2, <1>3, <2>1
  <2>3. cycle'.turn <= sends' + edits'
    BY <1>0, <1>1, <2>1 DEF id
  <2>4. Going' => /\ cycle'.turn # 0 /\ ~ IsJob(cycle.turn)'
                  /\ \A j \in jobs' : j.kind = "turn" => j.id < cycle'.turn
    <3>1. cycle.turn # id
      BY <1>1, <2>1 DEF id
    <3> QED BY <1>0, <1>3, <3>1 DEF IInv, CycleInv, Going, IsJob
  <2> QED BY <1>0, <2>2, <2>3, <2>4 DEF IInv, CycleInv
<1>7. DiskInv' /\ ChainInv' /\ WholeInv' /\ DrainInv' /\ ExactInv' /\ LoadedInv'
  <2>1. ~ IsJob(id)
    BY <1>2 DEF IsJob
  <2>2. Going' => Going /\ cycle'.turn = cycle.turn
    BY <1>0 DEF Going
  <2>3. sends + edits <= sends' + edits'
    BY <1>1, <1>4
  <2>4. kind \in {"turn", "compact", "inject"} /\ kind # "turn" /\ FALSE \in BOOLEAN
    OBVIOUS
  <2> QED BY <1>0, <1>1, <2>1, <2>2, <2>3, <2>4, Enqueued
<1> QED BY <1>5, <1>6, <1>7 DEF IInv

ReadUpTo(o, n) == [o EXCEPT !.phase = "read", !.seen = n]
Appended(o) == [o EXCEPT !.phase = "appended"]

LEMMA MovedFields ==
    ASSUME NEW o \in Jobs, NEW n \in Nat
    PROVE  /\ ReadUpTo(o, n) \in Jobs /\ ReadUpTo(o, n).id = o.id /\ ReadUpTo(o, n).kind = o.kind
           /\ ReadUpTo(o, n).phase = "read" /\ ReadUpTo(o, n).seen = n
           /\ ReadUpTo(o, n).after = o.after
           /\ Appended(o) \in Jobs /\ Appended(o).id = o.id /\ Appended(o).kind = o.kind
           /\ Appended(o).phase = "appended" /\ Appended(o).seen = o.seen
           /\ Appended(o).after = o.after
BY DEF Jobs, ReadUpTo, Appended

\* A job moves on without having written.
LEMMA Moved ==
    ASSUME IInv, NEW j \in jobs, j.after = 0, NEW k \in Jobs, k.id = j.id, k.after = 0,
           Becomes(j, k), k.kind = j.kind \/ j.kind = "turn", k.kind = "turn" => j.kind = "turn",
           k.seen <= Len(disk), k.phase = "read" => k.seen = Len(disk),
           Owed(k) => Owed(j), ~ (j.kind = "inject" /\ j.phase = "appended"),
           UNCHANGED <<disk, cache, hydrated, pendingWrite, handle, cycle, awaited, sends, edits,
                       blind, stolen, spoiled>>
    PROVE  IInv'
<1>1. jobs' = (jobs \ {j}) \cup {k}
  BY DEF Becomes
<1>2. Typed'
  BY DEF IInv, Typed
<1>3. DiskInv'
  BY DiskSame DEF IInv, Typed
<1>4. CycleInv'
  <2>1. \A i \in jobs' : i.id <= sends + edits /\ i.seen <= Len(disk)
    BY <1>1 DEF IInv, CycleInv
  <2>2. Going' => /\ cycle'.turn # 0 /\ ~ IsJob(cycle.turn)'
                  /\ \A i \in jobs' : i.kind = "turn" => i.id < cycle'.turn
    BY <1>1 DEF IInv, CycleInv, Going, IsJob
  <2> QED BY <2>1, <2>2 DEF IInv, CycleInv
<1>5. ChainInv'
  BY ChainMove DEF IInv
<1>6. WholeInv'
  <2>1. OneByOne => OneByOne'
    BY OneMove DEF IInv
  <2> QED BY <2>1 DEF IInv, WholeInv, Quiet
<1>7. DrainInv'
  BY <1>1 DEF IInv, DrainInv, Quiet
<1>8. \A i \in jobs' : Owed(i) => \E o \in jobs : Owed(o) /\ o.id = i.id
  BY <1>1
<1>9. ExactInv'
  BY <1>8, ExactSame DEF IInv, Going
<1>10. LoadedInv'
  <2>1. Landed => Landed'
    BY <1>1 DEF Landed
  <2>2. \A i \in jobs' : i.phase = "read" => \/ i.seen = Len(disk)
                                             \/ \E o \in jobs : o.phase = "read" /\ o.seen = i.seen
    BY <1>1
  <2>3. Sound(disk) /\ (Marked' => Marked) /\ (handle' = "none" /\ hydrated' => blind')
    BY DEF IInv, DiskInv, LoadedInv, Marked
  <2>4. Going' => Going /\ cycle'.turn = cycle.turn
    BY DEF Going
  <2> QED BY <1>8, <2>1, <2>2, <2>3, <2>4, LoadedSame DEF IInv
<1> QED BY <1>2, <1>3, <1>4, <1>5, <1>6, <1>7, <1>9, <1>10 DEF IInv

LEMMA JobReads_Keeps == ASSUME IInv, NEW j \in jobs, JobReads(j) PROVE IInv'
<1> DEFINE k == ReadUpTo(j, Len(disk))
<1>0. /\ j.phase = "queued" /\ j.after = 0 /\ Becomes(j, k)
      /\ UNCHANGED <<disk, cache, hydrated, pendingWrite, handle, cycle, awaited, sends, edits,
                     blind, stolen, spoiled>>
  BY DEF JobReads, memory, calls, history, ReadUpTo
<1>1. j \in Jobs /\ Len(disk) \in Nat
  BY SoundRecords DEF IInv, DiskInv, ChainInv
<1>2. /\ k \in Jobs /\ k.id = j.id /\ k.kind = j.kind /\ k.phase = "read" /\ k.seen = Len(disk)
      /\ k.after = 0
  BY <1>0, <1>1, MovedFields
<1> HIDE DEF k
<1>3. k.seen <= Len(disk) /\ (Owed(k) => Owed(j))
  BY <1>0, <1>1, <1>2 DEF Owed
<1> QED BY <1>0, <1>2, <1>3, Moved

\* What is left of the jobs when one settles, in what matters of a job that
\* the one before it is.
LEMMA SettledFields ==
    ASSUME ChainInv, NEW j \in jobs, Settle(j)
    PROVE  /\ \A i \in jobs' : \E o \in jobs \ {j} : /\ o.id = i.id /\ o.kind = i.kind
                                                     /\ o.phase = i.phase /\ o.seen = i.seen
           /\ \A o \in jobs \ {j} : \E i \in jobs' : /\ o.id = i.id /\ o.kind = i.kind
                                                     /\ o.phase = i.phase /\ o.seen = i.seen
           /\ jobs = {j} => jobs' = {}
<1>0. jobs \subseteq Jobs
  BY DEF ChainInv
<1>1. \A i \in jobs' : \E o \in jobs \ {j} : \/ o.after = j.id /\ i = Freed(o)
                                             \/ o.after # j.id /\ i = o
  BY SettledJobs
<1>2. \A o \in jobs : /\ Freed(o).id = o.id /\ Freed(o).kind = o.kind
                     /\ Freed(o).phase = o.phase /\ Freed(o).seen = o.seen
  BY <1>0, FreedFields
<1>3. \A i \in jobs' : \E o \in jobs \ {j} : /\ o.id = i.id /\ o.kind = i.kind
                                             /\ o.phase = i.phase /\ o.seen = i.seen
  BY <1>1, <1>2
<1>4. ASSUME NEW o \in jobs \ {j}
      PROVE  \E i \in jobs' : o.id = i.id /\ o.kind = i.kind /\ o.phase = i.phase /\ o.seen = i.seen
  <2> DEFINE left == IF o.after = j.id THEN Freed(o) ELSE o
  <2>1. jobs' = {IF x.after = j.id THEN Freed(x) ELSE x : x \in jobs \ {j}}
    BY DEF Settle, Freed
  <2>2. left \in jobs'
    BY <2>1
  <2>3. o.id = left.id /\ o.kind = left.kind /\ o.phase = left.phase /\ o.seen = left.seen
    BY <1>0, FreedFields
  <2> QED BY <2>2, <2>3
<1>5. jobs = {j} => jobs' = {}
  BY <1>3
<1> QED BY <1>3, <1>4, <1>5

LEMMA Settled ==
    ASSUME IInv, NEW j \in jobs, j.phase # "queued", Settle(j), ~ spoiled' => ~ spoiled,
           Len(disk') \in Nat, Len(disk) <= Len(disk'), UNCHANGED <<handle, cycle, sends, edits>>
    PROVE  CycleInv' /\ ChainInv' /\ WholeInv' /\ DrainInv'
<1>0. /\ \A i \in jobs' : \E o \in jobs \ {j} : /\ o.id = i.id /\ o.kind = i.kind
                                                /\ o.phase = i.phase /\ o.seen = i.seen
      /\ jobs = {j} => jobs' = {}
  BY SettledFields DEF IInv
<1>1. stolen \in BOOLEAN /\ stolen' = (stolen /\ jobs # {j}) /\ (awaited' # 0 => awaited # 0)
  BY DEF IInv, Typed, Settle
<1>2. CycleInv'
  <2>1. \A i \in jobs' : i.id <= sends + edits /\ i.seen <= Len(disk')
    <3>1. \A o \in jobs : o.seen \in Nat /\ o.seen <= Len(disk) /\ o.id <= sends + edits
      BY JobFields DEF IInv, CycleInv, ChainInv
    <3>2. Len(disk) \in Nat
      BY SoundRecords DEF IInv, DiskInv
    <3>3. \A o \in jobs : o.seen <= Len(disk')
      BY <3>1, <3>2
    <3> QED BY <1>0, <3>1, <3>3
  <2>2. Going' => /\ cycle'.turn # 0 /\ ~ IsJob(cycle.turn)'
                  /\ \A i \in jobs' : i.kind = "turn" => i.id < cycle'.turn
    BY <1>0 DEF IInv, CycleInv, Going, IsJob
  <2> QED BY <1>1, <2>1, <2>2 DEF IInv, CycleInv
<1>3. ChainInv'
  BY <1>1, ChainSettle DEF IInv
<1>4. WholeInv'
  <2>1. OneByOne => OneByOne'
    BY <1>1, OneSettle DEF IInv
  <2>2. jobs = {j} => OneByOne'
    BY <1>0, OneEmpty
  <2> QED BY <1>1, <2>1, <2>2 DEF IInv, WholeInv, Quiet
<1>5. DrainInv'
  BY <1>0, <1>1 DEF IInv, DrainInv, Quiet
<1> QED BY <1>2, <1>3, <1>4, <1>5

\* A job settles that leaves the history alone.
LEMMA SettledAlone ==
    ASSUME IInv, NEW j \in jobs, j.phase # "queued", Settle(j),
           ~ (j.kind = "inject" /\ j.phase = "appended"),
           UNCHANGED <<disk, cache, hydrated, handle, cycle, sends, edits, blind, spoiled>>
    PROVE  IInv'
<1>0. /\ \A i \in jobs' : \E o \in jobs \ {j} : /\ o.id = i.id /\ o.kind = i.kind
                                                /\ o.phase = i.phase /\ o.seen = i.seen
      /\ \A o \in jobs \ {j} : \E i \in jobs' : /\ o.id = i.id /\ o.kind = i.kind
                                                /\ o.phase = i.phase /\ o.seen = i.seen
  BY SettledFields DEF IInv
<1>1. Typed'
  BY DEF IInv, Typed, Settle
<1>2. DiskInv'
  BY DiskSame DEF IInv, Typed
<1>3. CycleInv' /\ ChainInv' /\ WholeInv' /\ DrainInv'
  <2>1. Len(disk') \in Nat /\ Len(disk) <= Len(disk')
    BY SoundRecords DEF IInv, DiskInv
  <2> QED BY <2>1, Settled
<1>4. \A i \in jobs' : Owed(i) => \E o \in jobs : Owed(o) /\ o.id = i.id
  BY <1>0 DEF Owed
<1>5. ExactInv'
  BY <1>4, ExactSame DEF IInv, Going
<1>6. LoadedInv'
  <2>1. Landed => Landed'
    BY <1>0 DEF Landed
  <2>2. \A i \in jobs' : i.phase = "read" => \E o \in jobs : o.phase = "read" /\ o.seen = i.seen
    BY <1>0
  <2>3. Sound(disk) /\ (Marked' => Marked) /\ (handle' = "none" /\ hydrated' => blind')
    BY DEF IInv, DiskInv, LoadedInv, Marked
  <2>4. Going' => Going /\ cycle'.turn = cycle.turn
    BY DEF Going
  <2> QED BY <1>4, <2>1, <2>2, <2>3, <2>4, LoadedSame DEF IInv
<1> QED BY <1>1, <1>2, <1>3, <1>5, <1>6 DEF IInv

LEMMA JobSettles_Keeps == ASSUME IInv, NEW j \in jobs, JobSettles(j) PROVE IInv'
<1>0. /\ j.phase = "appended"
      /\ UNCHANGED <<disk, handle, cycle, sends, edits, blind, spoiled>>
      /\ \/ j.kind = "turn" /\ Settle(j) /\ UNCHANGED <<cache, hydrated>>
         \/ /\ j.kind = "turn"
            /\ Becomes(j, NewJob(j.id, "auto", FALSE, 0))
            /\ UNCHANGED <<cache, hydrated, pendingWrite, awaited, stolen>>
         \/ j.kind # "turn" /\ Settle(j) /\ InvalidateSessionCache
  BY DEF JobSettles, memory, calls
<1>1. CASE j.kind = "turn" /\ Settle(j) /\ UNCHANGED <<cache, hydrated>>
  BY <1>0, <1>1, SettledAlone
<1>2. CASE /\ j.kind = "turn" /\ Becomes(j, NewJob(j.id, "auto", FALSE, 0))
           /\ UNCHANGED <<cache, hydrated, pendingWrite, awaited, stolen>>
  <2> DEFINE k == NewJob(j.id, "auto", FALSE, 0)
  <2>1. j.id \in Nat \ {0} /\ j.after = 0 /\ Len(disk) \in Nat
    BY <1>0, JobFields, SoundRecords DEF IInv, ChainInv, DiskInv
  <2>2. k \in Jobs /\ k.id = j.id /\ k.kind = "auto" /\ k.after = 0 /\ k.phase = "queued" /\ k.seen = 0
    BY <2>1 DEF NewJob, Jobs
  <2>3. Becomes(j, k)
    BY <1>2
  <2> HIDE DEF k
  <2>4. k.seen <= Len(disk) /\ ~ Owed(k)
    BY <2>1, <2>2 DEF Owed
  <2> QED BY <1>0, <1>2, <2>1, <2>2, <2>3, <2>4, Moved
<1>3. CASE j.kind # "turn" /\ Settle(j) /\ InvalidateSessionCache
  <2>0. cache' = <<>> /\ hydrated' = FALSE
    BY <1>3 DEF InvalidateSessionCache
  <2>1. Typed'
    <3>1. cache' \in Seq(1..(sends + edits)) /\ stolen' \in BOOLEAN
      BY <1>3, <2>0 DEF Settle
    <3> QED BY <1>0, <2>0, <3>1 DEF IInv, Typed
  <2>2. DiskInv'
    BY <1>0, DiskSame DEF IInv, Typed
  <2>3. CycleInv' /\ ChainInv' /\ WholeInv' /\ DrainInv'
    <3>1. Len(disk') \in Nat /\ Len(disk) <= Len(disk')
      BY <1>0, SoundRecords DEF IInv, DiskInv
    <3> QED BY <1>0, <1>3, <3>1, Settled
  <2>4. ExactInv'
    <3>1. \A i \in jobs' : Owed(i) => \E o \in jobs : Owed(o) /\ o.id = i.id
      BY <1>3, SettledFields DEF IInv, Owed
    <3> QED BY <1>0, <3>1, ExactSame DEF IInv, Going
  <2>5. LoadedInv'
    BY <2>0, LoadedVoid DEF Marked
  <2> QED BY <2>1, <2>2, <2>3, <2>4, <2>5 DEF IInv
<1> QED BY <1>0, <1>1, <1>2, <1>3

LEMMA Crash_Keeps == ASSUME IInv, Crash PROVE IInv'
<1>0. /\ cache' = <<>> /\ hydrated' = FALSE /\ pendingWrite' = 0 /\ jobs' = {}
      /\ handle' = "none" /\ cycle' = Idle /\ awaited' = 0 /\ blind' = FALSE /\ stolen' = FALSE
      /\ UNCHANGED <<disk, sends, edits, spoiled>>
  BY DEF Crash, InvalidateSessionCache, calls
<1>1. Typed'
  <2>1. cache' \in Seq(1..(sends + edits))
    BY <1>0
  <2> QED BY <1>0, <2>1 DEF IInv, Typed, Idle
<1>2. DiskInv'
  BY <1>0, DiskSame DEF IInv, Typed
<1>3. ~ Going' /\ cycle'.turn = 0 /\ sends' + edits' \in Nat
  BY <1>0 DEF Going, Idle, IInv, Typed
<1>4. CycleInv'
  BY <1>0, <1>3 DEF CycleInv
<1>5. ChainInv'
  BY <1>0, ChainEmpty
<1>6. WholeInv' /\ DrainInv'
  BY <1>0, OneEmpty DEF WholeInv, DrainInv
<1>7. ExactInv'
  BY <1>0, <1>3, ExactSame DEF IInv
<1>8. LoadedInv'
  BY <1>0, LoadedVoid DEF Marked
<1> QED BY <1>1, <1>2, <1>4, <1>5, <1>6, <1>7, <1>8 DEF IInv

\* A record that is appended is well formed, and hides nothing of what was read.
LEMMA AppendedRecord ==
    ASSUME IInv, NEW x \in Records, x.parent <= Len(disk), x.adds \in Seq(1..(sends + edits)),
           x.kind = "turn" => x.adds[1] \in 1..(sends + edits),
           disk' = Append(disk, x), UNCHANGED <<sends, edits>>
    PROVE  /\ DiskInv' /\ Len(disk') = Len(disk) + 1
           /\ \A i \in SentAt(disk) : disk'[i] = disk[i] /\ i < Len(disk) + 1 /\ i \in 1..Len(disk)
           /\ disk'[Len(disk) + 1] = x
           /\ \A i \in SentAt(disk') : i \in SentAt(disk) \/ (i = Len(disk) + 1 /\ x.kind = "turn")
           /\ \A k \in Nat : k <= Len(disk) => SubSeq(disk', 1, k) = SubSeq(disk, 1, k)
<1>1. Sound(disk) /\ Len(disk) \in Nat /\ DOMAIN disk = 1..Len(disk)
  BY SoundRecords DEF IInv, DiskInv
<1>2. /\ Sound(disk') /\ Len(disk') = Len(disk) + 1
      /\ \A i \in 1..Len(disk) : disk'[i] = disk[i]
      /\ disk'[Len(disk) + 1] = x
  BY <1>1, SoundAppend
<1>3. DOMAIN disk' = 1..(Len(disk) + 1)
  BY <1>2, SoundRecords
<1> DEFINE n == Len(disk)
           d == disk'
<1>4. \A i \in 1..(n + 1) : i \in 1..n \/ i = n + 1
  BY <1>1
<1>5. \A i \in SentAt(disk) : d[i] = disk[i] /\ i < n + 1 /\ i \in 1..n
  BY <1>1, <1>2 DEF SentAt
<1>6. \A i \in SentAt(d) : i \in SentAt(disk) \/ (i = n + 1 /\ x.kind = "turn")
  <2> SUFFICES ASSUME NEW i \in SentAt(d) PROVE i \in SentAt(disk) \/ (i = n + 1 /\ x.kind = "turn")
    OBVIOUS
  <2>1. i \in 1..(n + 1) /\ d[i].kind = "turn"
    BY <1>3 DEF SentAt
  <2>2. CASE i \in 1..n
    BY <1>1, <1>2, <2>1, <2>2 DEF SentAt
  <2>3. CASE i = n + 1
    BY <1>2, <2>1, <2>3
  <2> QED BY <1>4, <2>1, <2>2, <2>3
<1>7. \A i \in 1..(n + 1) : d[i].adds \in Seq(1..(sends + edits))
  BY <1>2, <1>4 DEF IInv, DiskInv
<1>8. \A i \in SentAt(d) : d[i].adds[1] \in 1..(sends + edits)
  BY <1>2, <1>5, <1>6 DEF IInv, DiskInv
<1>9. DiskInv'
  BY <1>2, <1>7, <1>8 DEF DiskInv, Sound, SentAt
<1>10. \A k \in Nat : k <= n => SubSeq(d, 1, k) = SubSeq(disk, 1, k)
  BY <1>1, PrefixStays
<1> QED BY <1>2, <1>5, <1>6, <1>9, <1>10

LEMMA JobFails_Keeps == ASSUME IInv, NEW j \in jobs, JobFails(j) PROVE IInv'
<1> DEFINE x == [kind |-> "compact", adds |-> <<>>, parent |-> 0]
<1>0. /\ j.phase = "read" /\ Settle(j)
      /\ UNCHANGED <<cache, hydrated, handle, cycle, sends, edits, blind>>
      /\ \/ UNCHANGED <<disk, spoiled>>
         \/ disk' = Append(disk, x) /\ spoiled' = TRUE
  BY DEF JobFails, memory, calls
<1>1. CASE UNCHANGED <<disk, spoiled>>
  BY <1>0, <1>1, SettledAlone
<1>2. CASE disk' = Append(disk, x) /\ spoiled' = TRUE
  <2>0. /\ x \in Records /\ x.parent = 0 /\ x.kind = "compact" /\ x.adds = <<>>
        /\ <<>> \in Seq(1..(sends + edits))
    BY DEF Records
  <2>1. Sound(disk) /\ Len(disk) \in Nat /\ 0 <= Len(disk)
    BY SoundRecords DEF IInv, DiskInv
  <2> HIDE DEF x
  <2>2. /\ DiskInv' /\ Len(disk') = Len(disk) + 1
        /\ \A k \in Nat : k <= Len(disk) => SubSeq(disk', 1, k) = SubSeq(disk, 1, k)
    BY <1>0, <1>2, <2>0, <2>1, AppendedRecord
  <2>3. Replay(disk') = <<>>
    <3>1. Replay(disk') = Replay(SubSeq(disk, 1, 0)) \o <<>>
      BY <1>2, <2>0, <2>1, ReplayAppend
    <3>2. SubSeq(disk, 1, 0) = <<>>
      BY <2>1 DEF Sound
    <3>3. <<>> \o <<>> = <<>>
      OBVIOUS
    <3> QED BY <3>1, <3>2, <3>3, ReplayEmpty
  <2>4. /\ \A i \in jobs' : \E o \in jobs \ {j} : /\ o.id = i.id /\ o.kind = i.kind
                                                  /\ o.phase = i.phase /\ o.seen = i.seen
        /\ \A o \in jobs \ {j} : \E i \in jobs' : /\ o.id = i.id /\ o.kind = i.kind
                                                  /\ o.phase = i.phase /\ o.seen = i.seen
    BY <1>0, SettledFields DEF IInv
  <2>5. Typed'
    BY <1>0, <1>2 DEF IInv, Typed, Settle
  <2>6. CycleInv' /\ ChainInv' /\ WholeInv' /\ DrainInv'
    <3>1. Len(disk') \in Nat /\ Len(disk) <= Len(disk')
      BY <2>1, <2>2
    <3> QED BY <1>0, <1>2, <3>1, Settled
  <2>7. ExactInv'
    BY <1>2 DEF ExactInv
  <2>8. LoadedInv'
    <3>1. handle' = "none" /\ hydrated' => blind'
      BY <1>0 DEF IInv, LoadedInv
    <3> SUFFICES ASSUME Marked' PROVE LoadedInv'
      BY <3>1 DEF LoadedInv
    <3>2. Marked
      BY <1>0 DEF Marked
    <3>3. /\ \A i \in jobs' : Owed(i) => i.id \in ToSet(cache)
          /\ Going => cycle.turn \in ToSet(cache)
      BY <2>4, <3>2 DEF IInv, LoadedInv, Owed
    <3>4. ToSet(Replay(disk')) = {}
      BY <2>3 DEF ToSet
    <3>5. CASE Landed
      <4>1. Landed'
        BY <1>0, <2>4, <3>5 DEF Landed
      <4> QED BY <1>0, <3>1, <3>3, <4>1 DEF LoadedInv, Going
    <3>6. CASE ~ Landed
      <4>1. ASSUME NEW i \in jobs', i.phase = "read"
            PROVE  ToSet(Replay(SubSeq(disk', 1, i.seen))) \subseteq ToSet(cache)
        <5>1. PICK o \in jobs : o.phase = "read" /\ o.seen = i.seen
          BY <2>4, <4>1
        <5>2. ToSet(Replay(SubSeq(disk, 1, o.seen))) \subseteq ToSet(cache)
          BY <3>2, <3>6, <5>1 DEF IInv, LoadedInv
        <5>3. o.seen \in Nat /\ o.seen <= Len(disk)
          BY JobFields DEF IInv, CycleInv, ChainInv
        <5>4. SubSeq(disk', 1, o.seen) = SubSeq(disk, 1, o.seen)
          BY <2>2, <5>3
        <5> QED BY <5>1, <5>2, <5>4
      <4> QED BY <1>0, <3>1, <3>3, <3>4, <4>1 DEF LoadedInv, Going
    <3> QED BY <3>5, <3>6
  <2> QED BY <2>2, <2>5, <2>6, <2>7, <2>8 DEF IInv
<1> QED BY <1>0, <1>1, <1>2

\* What a job appends to the transcript it has read.
LEMMA DeltaIsRecord ==
    ASSUME IInv, NEW j \in jobs
    PROVE  /\ Delta(j) \in Records /\ Delta(j).parent <= Len(disk)
           /\ Delta(j).adds \in Seq(1..(sends + edits))
           /\ (Delta(j).kind = "turn") = (j.kind = "turn")
           /\ (Delta(j).kind = "compact") = (j.kind \in {"auto", "compact"})
           /\ j.kind \in {"turn", "inject"} => Delta(j).adds = <<j.id>> /\ Delta(j).parent = j.seen
           /\ j.kind \in {"auto", "compact"} =>
                  /\ Delta(j).adds = Replay(SubSeq(disk, 1, j.seen))
                  /\ Delta(j).parent = 0
<1>1. /\ j.id \in Nat \ {0} /\ j.seen \in Nat /\ j.seen <= Len(disk) /\ j.id <= sends + edits
      /\ j.kind \in {"turn", "auto", "compact", "inject"} /\ sends + edits \in Nat
      /\ Sound(disk) /\ Len(disk) \in Nat
  BY JobFields, SoundRecords DEF IInv, CycleInv, ChainInv, DiskInv, Typed
<1>2. CASE j.kind \in {"turn", "inject"}
  <2>1. Delta(j) = [kind |-> j.kind, adds |-> <<j.id>>, parent |-> j.seen]
    BY <1>2 DEF Delta
  <2>2. j.id \in 1..(sends + edits) /\ j.id \in Nat
    BY <1>1
  <2>3. <<j.id>> \in Seq(Nat) /\ <<j.id>> \in Seq(1..(sends + edits))
    BY <2>2
  <2>4. Delta(j) \in Records
    BY <1>1, <1>2, <2>1, <2>3 DEF Records
  <2> QED BY <1>1, <1>2, <2>1, <2>3, <2>4
<1>3. CASE j.kind \in {"auto", "compact"}
  <2> DEFINE p == SubSeq(disk, 1, j.seen)
  <2>1. Delta(j) = [kind |-> "compact", adds |-> Replay(p), parent |-> 0]
    BY <1>3 DEF Delta
  <2>2. Sound(p) /\ Len(p) = j.seen /\ \A i \in 1..j.seen : p[i] = disk[i]
    BY <1>1, SoundPrefix
  <2> HIDE DEF p
  <2>3. /\ \A i \in 1..Len(p) : p[i].adds \in Seq(1..(sends + edits))
        /\ \A i \in 1..Len(p) : p[i].adds \in Seq(Nat)
    <3>1. \A i \in 1..j.seen : i \in 1..Len(disk)
      BY <1>1
    <3> QED BY <1>1, <2>2, <3>1, SoundRecords DEF IInv, DiskInv
  <2>4. Replay(p) \in Seq(1..(sends + edits)) /\ Replay(p) \in Seq(Nat)
    BY <2>2, <2>3, ReplayTyped
  <2>5. Delta(j) \in Records
    BY <2>1, <2>4 DEF Records
  <2> QED BY <1>1, <1>3, <2>1, <2>4, <2>5 DEF p
<1> QED BY <1>1, <1>2, <1>3

\* Appended to all there is, a record continues the replay as it does the
\* sequence of turns, or starts again with all of it.
LEMMA ExactAppend ==
    ASSUME IInv, NEW j \in jobs, j.seen = Len(disk), Replay(disk) = Written(disk),
           disk' = Append(disk, Delta(j))
    PROVE  Replay(disk') = Written(disk')
<1> DEFINE x == Delta(j)
<1>1. /\ Sound(disk) /\ Len(disk) \in Nat /\ 0 <= Len(disk) /\ disk \in Seq(Records)
      /\ j.kind \in {"turn", "auto", "compact", "inject"}
  BY SoundRecords, JobFields DEF IInv, DiskInv, ChainInv, Sound
<1>2. SubSeq(disk, 1, Len(disk)) = disk /\ SubSeq(disk, 1, 0) = <<>>
  BY <1>1, SubSeqFull
<1>3. /\ x \in Records /\ x.parent <= Len(disk)
      /\ (x.kind = "compact") = (j.kind \in {"auto", "compact"})
      /\ j.kind \in {"turn", "inject"} => x.parent = Len(disk)
      /\ j.kind \in {"auto", "compact"} => x.adds = Replay(disk) /\ x.parent = 0
  <2>1. /\ x \in Records /\ x.parent <= Len(disk)
        /\ (x.kind = "compact") = (j.kind \in {"auto", "compact"})
        /\ j.kind \in {"turn", "inject"} => x.parent = j.seen
        /\ j.kind \in {"auto", "compact"} =>
               x.adds = Replay(SubSeq(disk, 1, j.seen)) /\ x.parent = 0
    BY DeltaIsRecord
  <2> HIDE DEF x
  <2> QED BY <1>2, <2>1
<1>4. disk' = Append(disk, x)
  OBVIOUS
<1> HIDE DEF x
<1>5. Replay(disk') = Replay(SubSeq(disk, 1, x.parent)) \o x.adds
  BY <1>1, <1>3, <1>4, ReplayAppend
<1>6. /\ Written(disk) \in Seq(Nat)
      /\ Written(disk') = Written(disk) \o (IF x.kind = "compact" THEN <<>> ELSE x.adds)
  BY <1>1, <1>3, <1>4, WrittenAppend
<1>7. CASE j.kind \in {"turn", "inject"}
  BY <1>2, <1>3, <1>5, <1>6, <1>7
<1>8. CASE j.kind \in {"auto", "compact"}
  <2>1. Replay(disk') = <<>> \o Written(disk)
    BY <1>2, <1>3, <1>5, <1>8, ReplayEmpty
  <2>2. Written(disk') = Written(disk) \o <<>>
    BY <1>3, <1>6, <1>8
  <2>3. Written(disk) \o <<>> = Written(disk) /\ <<>> \o Written(disk) = Written(disk)
    BY <1>6, ConcatEmptySeq
  <2> QED BY <2>1, <2>2, <2>3
<1> QED BY <1>1, <1>7, <1>8

\* What a job appends replays turns that the history has, if what the job has
\* read does.
LEMMA LoadedAppend ==
    ASSUME IInv, NEW j \in jobs, j.phase = "read", j.kind # "inject", Marked, ~ Landed,
           disk' = Append(disk, Delta(j))
    PROVE  ToSet(Replay(disk')) \subseteq ToSet(cache)
<1> DEFINE x == Delta(j)
           p == SubSeq(disk, 1, j.seen)
<1>1. /\ Sound(disk) /\ Len(disk) \in Nat /\ 0 <= Len(disk) /\ disk \in Seq(Records)
      /\ j.kind \in {"turn", "auto", "compact"} /\ j.seen \in Nat /\ j.seen <= Len(disk)
      /\ j.id \in Nat
  BY SoundRecords, JobFields DEF IInv, DiskInv, ChainInv, Sound, CycleInv
<1>2. ToSet(Replay(p)) \subseteq ToSet(cache) /\ (j.kind = "turn" => j.id \in ToSet(cache))
  BY DEF IInv, LoadedInv, Owed
<1>3. Sound(p) /\ \A i \in 1..Len(p) : p[i].adds \in Seq(Nat)
  <2>1. Sound(p)
    BY <1>1, SoundPrefix
  <2> HIDE DEF p
  <2> QED BY <2>1, SoundRecords
<1>4. Replay(p) \in Seq(Nat)
  <2> HIDE DEF p
  <2> QED BY <1>3, ReplayTyped
<1>5. /\ x \in Records /\ x.parent <= Len(disk)
      /\ j.kind = "turn" => x.adds = <<j.id>> /\ x.parent = j.seen
      /\ j.kind \in {"auto", "compact"} => x.adds = Replay(p) /\ x.parent = 0
  BY DeltaIsRecord
<1>6. disk' = Append(disk, x)
  OBVIOUS
<1> HIDE DEF x
<1>7. Replay(disk') = Replay(SubSeq(disk, 1, x.parent)) \o x.adds
  BY <1>1, <1>5, <1>6, ReplayAppend
<1>8. CASE j.kind = "turn"
  <2>1. Replay(disk') = Replay(p) \o <<j.id>>
    BY <1>5, <1>7, <1>8
  <2> HIDE DEF p
  <2>2. <<j.id>> \in Seq(Nat) /\ ToSet(<<j.id>>) = {j.id}
    BY <1>1 DEF ToSet
  <2>3. ToSet(Replay(p) \o <<j.id>>) = ToSet(Replay(p)) \cup ToSet(<<j.id>>)
    <3> DEFINE s == Replay(p)
               t == <<j.id>>
    <3>1. s \in Seq(Nat) /\ t \in Seq(Nat)
      BY <1>4, <2>2
    <3> HIDE DEF s, t
    <3>2. ToSet(s \o t) = ToSet(s) \cup ToSet(t)
      BY <3>1, ToSetFacts
    <3> QED BY <3>2 DEF s, t
  <2> QED BY <1>2, <1>8, <2>1, <2>2, <2>3
<1>9. CASE j.kind \in {"auto", "compact"}
  <2>1. SubSeq(disk, 1, 0) = <<>>
    BY <1>1
  <2>2. Replay(disk') = <<>> \o Replay(p)
    BY <1>5, <1>7, <1>9, <2>1, ReplayEmpty
  <2> HIDE DEF p
  <2>3. <<>> \o Replay(p) = Replay(p)
    BY <1>4, ConcatEmptySeq
  <2> QED BY <1>2, <2>2, <2>3
<1> QED BY <1>1, <1>8, <1>9

LEMMA JobAppends_Keeps == ASSUME IInv, NEW j \in jobs, JobAppends(j) PROVE IInv'
<1> DEFINE k == Appended(j)
           x == Delta(j)
           n == Len(disk)
<1>0. /\ j.phase = "read" /\ disk' = Append(disk, x) /\ Becomes(j, k)
      /\ UNCHANGED <<cache, hydrated, pendingWrite, handle, cycle, awaited, sends, edits,
                     blind, stolen, spoiled>>
  BY DEF JobAppends, memory, calls, history, Appended
<1>1. /\ j \in Jobs /\ j.after = 0 /\ n \in Nat /\ j.seen \in Nat /\ j.seen <= n
      /\ j.id \in Nat \ {0} /\ j.id <= sends + edits /\ sends + edits \in Nat
      /\ Sound(disk)
  BY <1>0, JobFields, SoundRecords DEF IInv, DiskInv, ChainInv, CycleInv, Typed
<1>2. /\ k \in Jobs /\ k.id = j.id /\ k.kind = j.kind /\ k.phase = "appended" /\ k.seen = j.seen
      /\ k.after = 0
  BY <1>1, MovedFields
<1>3. jobs' = (jobs \ {j}) \cup {k}
  BY <1>0 DEF Becomes
<1>4. /\ x \in Records /\ x.parent <= n /\ x.adds \in Seq(1..(sends + edits))
      /\ (x.kind = "turn") = (j.kind = "turn")
      /\ j.kind = "turn" => x.adds = <<j.id>>
  BY DeltaIsRecord
<1> HIDE DEF k, x
<1>5. x.kind = "turn" => x.adds[1] = j.id /\ x.adds[1] \in 1..(sends + edits)
  BY <1>1, <1>4
<1>6. /\ DiskInv' /\ Len(disk') = n + 1
      /\ \A i \in SentAt(disk) : disk'[i] = disk[i] /\ i < n + 1 /\ i \in 1..n
      /\ disk'[n + 1] = x
      /\ \A i \in SentAt(disk') : i \in SentAt(disk) \/ (i = n + 1 /\ x.kind = "turn")
      /\ \A m \in Nat : m <= n => SubSeq(disk', 1, m) = SubSeq(disk, 1, m)
  BY <1>0, <1>4, <1>5, AppendedRecord
<1>7. Typed'
  BY <1>0 DEF IInv, Typed
<1>8. CycleInv'
  <2>1. \A i \in jobs' : i.id <= sends + edits /\ i.seen <= n + 1
    <3>1. \A o \in jobs : o.seen \in Nat /\ o.seen <= n /\ o.id <= sends + edits
      BY JobFields DEF IInv, CycleInv, ChainInv
    <3>2. \A o \in jobs : o.seen <= n + 1
      BY <1>1, <3>1
    <3> QED BY <1>1, <1>2, <1>3, <3>1, <3>2
  <2>2. Going' => /\ cycle'.turn # 0 /\ ~ IsJob(cycle.turn)'
                  /\ \A i \in jobs' : i.kind = "turn" => i.id < cycle'.turn
    BY <1>0, <1>2, <1>3 DEF IInv, CycleInv, Going, IsJob
  <2> QED BY <1>0, <1>6, <2>1, <2>2 DEF IInv, CycleInv
<1>9. ChainInv'
  <2>1. k.kind = "turn" => j.kind = "turn"
    BY <1>2
  <2> QED BY <1>0, <1>1, <1>2, <2>1, ChainMove DEF IInv
<1>10. WholeInv'
  <2>1. OneByOne => OneByOne'
    BY <1>0, <1>1, <1>2, OneMove DEF IInv
  <2> QED BY <1>0, <2>1 DEF IInv, WholeInv, Quiet
<1>11. DrainInv'
  BY <1>0, <1>2, <1>3 DEF IInv, DrainInv, Quiet
<1>12. ExactInv'
  <2> SUFFICES ASSUME ~ spoiled PROVE ExactInv'
    BY <1>0 DEF ExactInv
  <2>0. OneByOne /\ j.seen = n
    BY <1>0 DEF IInv, WholeInv, OneByOne
  <2>1. /\ Replay(disk) = Written(disk)
        /\ \A i, l \in SentAt(disk) : i < l => disk[i].adds[1] < disk[l].adds[1]
        /\ \A i \in SentAt(disk) : /\ \A o \in jobs : Owed(o) => disk[i].adds[1] < o.id
                                   /\ Going => disk[i].adds[1] < cycle.turn
    BY DEF IInv, ExactInv
  <2>2. Replay(disk') = Written(disk')
    BY <1>0, <2>0, <2>1, ExactAppend DEF x
  <2>3. x.kind = "turn" => \A i \in SentAt(disk) : disk[i].adds[1] < j.id
    BY <1>0, <1>4, <2>1 DEF Owed
  <2>4. \A i \in SentAt(disk') : \/ i \in SentAt(disk) /\ disk'[i] = disk[i] /\ i < n + 1
                                 \/ i = n + 1 /\ x.kind = "turn" /\ disk'[i].adds[1] = j.id
    BY <1>5, <1>6
  <2>5. ASSUME NEW i \in SentAt(disk'), NEW l \in SentAt(disk'), i < l
        PROVE  disk'[i].adds[1] < disk'[l].adds[1]
    <3>1. CASE i = n + 1
      <4>1. FALSE
        BY <1>1, <2>4, <2>5, <3>1
      <4> QED BY <4>1
    <3>2. CASE i # n + 1
      <4>1. i \in SentAt(disk) /\ disk'[i] = disk[i]
        BY <2>4, <3>2
      <4>2. CASE l \in SentAt(disk) /\ disk'[l] = disk[l]
        BY <2>1, <2>5, <4>1, <4>2
      <4>3. CASE x.kind = "turn" /\ disk'[l].adds[1] = j.id
        BY <2>3, <4>1, <4>3
      <4> QED BY <2>4, <4>2, <4>3
    <3> QED BY <3>1, <3>2
  <2>6. ASSUME NEW i \in SentAt(disk'), NEW o \in jobs', Owed(o)
        PROVE  disk'[i].adds[1] < o.id
    <3>1. o \in jobs /\ o # j /\ o.kind = "turn"
      BY <1>2, <1>3, <2>6 DEF Owed
    <3>2. CASE i \in SentAt(disk) /\ disk'[i] = disk[i]
      BY <2>1, <2>6, <3>1, <3>2
    <3>3. CASE x.kind = "turn" /\ disk'[i].adds[1] = j.id
      <4>1. j.id < o.id
        BY <1>1, <1>4, <2>0, <3>1, <3>3, AtWorkIsFirst DEF IInv
      <4> QED BY <3>3, <4>1
    <3> QED BY <2>4, <3>2, <3>3
  <2>7. ASSUME NEW i \in SentAt(disk'), Going
        PROVE  disk'[i].adds[1] < cycle.turn
    <3>1. CASE i \in SentAt(disk) /\ disk'[i] = disk[i]
      BY <2>1, <2>7, <3>1
    <3>2. CASE x.kind = "turn" /\ disk'[i].adds[1] = j.id
      BY <1>4, <2>7, <3>2 DEF IInv, CycleInv
    <3> QED BY <2>4, <3>1, <3>2
  <2>8. Going' => Going /\ cycle'.turn = cycle.turn
    BY <1>0 DEF Going
  <2> DEFINE d == disk'
  <2>9. /\ Replay(d) = Written(d)
        /\ \A i, l \in SentAt(d) : i < l => d[i].adds[1] < d[l].adds[1]
        /\ \A i \in SentAt(d) : /\ \A o \in jobs' : Owed(o) => d[i].adds[1] < o.id
                                /\ Going' => d[i].adds[1] < cycle'.turn
    BY <2>2, <2>5, <2>6, <2>7, <2>8
  <2> QED BY <2>9 DEF ExactInv, SentAt
<1>13. LoadedInv'
  <2>0. handle' = "none" /\ hydrated' => blind'
    BY <1>0 DEF IInv, LoadedInv
  <2> SUFFICES ASSUME Marked' PROVE LoadedInv'
    BY <2>0 DEF LoadedInv
  <2>1. Marked /\ (Going' => Going /\ cycle'.turn = cycle.turn)
    BY <1>0 DEF Marked, Going
  <2>2. /\ \A i \in jobs' : Owed(i) => i.id \in ToSet(cache)
        /\ Going' => cycle'.turn \in ToSet(cache)
    BY <1>2, <1>3, <2>1 DEF IInv, LoadedInv, Owed
  <2>3. CASE Landed \/ j.kind = "inject"
    <3>1. Landed'
      BY <1>0, <1>2, <1>3, <2>3 DEF Landed
    <3> QED BY <1>0, <2>0, <2>2, <3>1 DEF LoadedInv
  <2>4. CASE ~ Landed /\ j.kind # "inject"
    <3>1. ToSet(Replay(disk')) \subseteq ToSet(cache)
      BY <1>0, <2>1, <2>4, LoadedAppend DEF x
    <3>2. ASSUME NEW i \in jobs', i.phase = "read"
          PROVE  ToSet(Replay(SubSeq(disk', 1, i.seen))) \subseteq ToSet(cache)
      <4>1. i \in jobs
        BY <1>2, <1>3, <3>2
      <4>2. ToSet(Replay(SubSeq(disk, 1, i.seen))) \subseteq ToSet(cache)
        BY <2>1, <2>4, <3>2, <4>1 DEF IInv, LoadedInv
      <4>3. i.seen \in Nat /\ i.seen <= n
        BY <4>1, JobFields DEF IInv, CycleInv, ChainInv
      <4>4. SubSeq(disk', 1, i.seen) = SubSeq(disk, 1, i.seen)
        BY <1>6, <4>3
      <4> QED BY <4>2, <4>4
    <3> QED BY <1>0, <2>0, <2>2, <3>1, <3>2 DEF LoadedInv
  <2> QED BY <2>3, <2>4
<1> QED BY <1>6, <1>7, <1>8, <1>9, <1>10, <1>11, <1>12, <1>13 DEF IInv

-----------------------------------------------------------------------------

\* Every step keeps the invariant.
LEMMA NextIInv == IInv /\ [Next]_vars => IInv'
<1> SUFFICES ASSUME IInv, [Next]_vars PROVE IInv'
  OBVIOUS
<1>1. CASE Next
  <2>1. CASE \E kind \in {"compact", "inject"} : EnqueueSessionWrite(kind)
    BY <2>1, EnqueueSessionWrite_Keeps
  <2>2. CASE \E j \in jobs : JobReads(j) \/ JobAppends(j) \/ JobFails(j) \/ JobSettles(j)
    BY <2>2, JobReads_Keeps, JobAppends_Keeps, JobFails_Keeps, JobSettles_Keeps
  <2> QED
    BY <1>1, <2>1, <2>2, Initialize_Keeps, Hydrated_Keeps, HydrationFails_Keeps,
       SendStarts_Keeps, SendFails_Keeps, RunEnds_Keeps, RunFails_Keeps,
       PersistTurnToTranscript_Keeps, FlushStarts_Keeps, FlushGoesOn_Keeps, Dispose_Keeps,
       Disposed_Keeps, OthersFlush_Keeps, OthersAppend_Keeps, Crash_Keeps DEF Next
<1>2. CASE UNCHANGED vars
  <2>0. UNCHANGED <<disk, cache, hydrated, pendingWrite, jobs, handle, cycle, awaited,
                    sends, edits, blind, stolen, spoiled>>
    BY <1>2 DEF vars, memory, calls, history
  <2>1. Typed'
    BY <2>0 DEF IInv, Typed
  <2>2. CycleInv'
    BY <2>0 DEF IInv, CycleInv, Going, IsJob
  <2>3. ChainInv'
    BY <2>0, ChainSame DEF IInv
  <2>4. WholeInv' /\ DrainInv'
    BY <2>0 DEF IInv, WholeInv, DrainInv, OneByOne, Quiet
  <2>5. DiskInv' /\ ExactInv' /\ LoadedInv'
    <3>1. (Going' <=> Going) /\ (Marked' <=> Marked) /\ (handle' = "none" /\ hydrated' => blind')
      BY <2>0 DEF Going, Marked, IInv, LoadedInv
    <3> QED BY <2>0, <3>1, RestSame
  <2> QED BY <2>1, <2>2, <2>3, <2>4, <2>5 DEF IInv
<1> QED BY <1>1, <1>2

LEMMA Inductive == Spec => []IInv
<1>1. IInv /\ [Next]_vars => IInv'
  BY NextIInv
<1> QED BY <1>1, InitIInv, PTL DEF Spec

\* Type of the session's state: a parent comes before its record in the
\* transcript (persistTurn, injectSessionTurn, compaction), a send runs on a
\* handle that is not closed, and the tail in pendingWrites and the write that
\* a flush awaits are unsettled jobs.
THEOREM TypeCorrect == Spec => []TypeOK
<1>1. IInv => TypeOK
  <2> SUFFICES ASSUME IInv PROVE TypeOK
    OBVIOUS
  <2>1. \A i \in DOMAIN disk : disk[i] \in Records /\ disk[i].parent < i
    BY SoundRecords DEF IInv, DiskInv
  <2>2. {pendingWrite, awaited} \subseteq {0} \cup {j.id : j \in jobs}
    BY DEF IInv, ChainInv, IsJob
  <2>3. cache \in Seq(1..sends + edits) /\ hydrated \in BOOLEAN /\ jobs \subseteq Jobs
    BY DEF IInv, Typed, ChainInv
  <2>4. /\ handle \in {"none", "hydrating", "live", "disposing", "flushing", "releasing"}
        /\ cycle.at \in {"idle", "running", "answered", "summary", "flushing"}
        /\ cycle # Idle => handle \in {"live", "disposing"}
    BY DEF IInv, Typed, CycleInv
  <2> QED BY <2>1, <2>2, <2>3, <2>4 DEF TypeOK
<1> QED BY <1>1, Inductive, PTL

\* What reconstructMessages replays is what was written, turn by turn, and the
\* turns of the sends are in their order, for any number of sends, edits,
\* failures, crashes and interferences; until the chain of writes is broken.
THEOREM ReplayExact == Spec => []ReplayIsExact
<1>1. IInv => ReplayIsExact
  BY DEF IInv, ExactInv, ReplayIsExact
<1> QED BY <1>1, Inductive, PTL

\* Once dispose has released the lease, the turns and the compactions they set
\* off have been written, unless another agent has taken a write off the map.
THEOREM DisposeDrainsAll == Spec => []DisposeDrains
<1>1. IInv => DisposeDrains
  BY DEF IInv, DrainInv, DisposeDrains, Quiet
<1> QED BY <1>1, Inductive, PTL

\* The mark in hydratedKeys of a live handle means that its history has every
\* turn the transcript replays, or that an injection has landed and is about
\* to invalidate it.
THEOREM MarkTrue == Spec => []MarkMeansLoaded
<1>1. IInv => MarkMeansLoaded
  BY DEF IInv, LoadedInv, MarkMeansLoaded, Marked, Landed
<1> QED BY <1>1, Inductive, PTL

-----------------------------------------------------------------------------
(* The lease that the session is written under: SessionWriterLease, over     *)
(* constants and variables of its own, for any number of processes on any    *)
(* hosts and every heartbeat window.                                         *)

CONSTANTS Procs, HostOf, Window

VARIABLES lock, step, lease, seen, mine, linked, contended

Lease == INSTANCE SessionWriterLease

LeaseAssumption == Window \in Nat \ {0}

(* A process may have its call in progress only alone.                       *)
Busy(p) == step[p] \notin {"idle", "dead"}

OneCall == ~ contended => \A p, q \in Procs : Busy(p) /\ Busy(q) => p = q

(* The record of a live process never gets too old for a live process on     *)
(* another host, nor does the one it is about to write.                      *)
Young == \A p, q \in Procs :
            Lease!Alive(p) /\ Lease!Alive(q) /\ HostOf[q] # HostOf[p] =>
               /\ mine[p] <= Window
               /\ Lease!Holds(p) /\ lock.is = "owned" /\ lock.by = p => lock.age <= Window

(* A lock that names a live process is that process's own.                   *)
Signed == \A p \in Procs : lock.is = "owned" /\ lock.by = p /\ Lease!Alive(p) => lease[p] = "held"

(* What an acquirer read still stands when it judges it; a writer finds the  *)
(* file it opened; who is about to write has no holder but itself; and the   *)
(* lock names the holder, unless the holder has just truncated it.           *)
Backed ==
    ~ contended =>
        /\ \A p \in Procs : step[p] = "judging" => seen[p] = lock
        /\ \A p \in Procs : step[p] = "writing" => p \in linked /\ lock = Lease!Unreadable
        /\ \A p, h \in Procs : step[p] \in {"opening", "writing"} /\ Lease!Holds(h) => h = p
        /\ \A h \in Procs : Lease!Holds(h) => \/ lock.is = "owned" /\ lock.by = h
                                        \/ step[h] = "writing"

LeaseInv == Lease!TypeOK /\ OneCall /\ Signed /\ Young /\ Backed

-----------------------------------------------------------------------------

\* An age stays an age, and one within the window goes one up at most.
LEMMA OlderAge ==
    ASSUME LeaseAssumption, NEW a \in Lease!Ages
    PROVE  Lease!Older(a) \in Lease!Ages /\ (a < Window => Lease!Older(a) <= Window)
  BY DEF LeaseAssumption, Lease!Ages, Lease!Older

\* The three forms of a lock file are apart.
LEMMA ContentForms ==
    /\ Lease!Absent \in Lease!Contents /\ Lease!Absent.is = "absent"
    /\ Lease!Unreadable \in Lease!Contents /\ Lease!Unreadable.is = "unreadable"
    /\ \A p \in Procs, a \in Lease!Ages :
          /\ Lease!Owned(p, a) \in Lease!Contents /\ Lease!Owned(p, a).is = "owned"
          /\ Lease!Owned(p, a).by = p /\ Lease!Owned(p, a).age = a
<1>1. /\ Lease!Absent \in Lease!Contents /\ Lease!Absent.is = "absent"
      /\ Lease!Unreadable \in Lease!Contents /\ Lease!Unreadable.is = "unreadable"
  BY DEF Lease!Absent, Lease!Unreadable, Lease!Contents
<1>2. ASSUME NEW p \in Procs, NEW a \in Lease!Ages
      PROVE  /\ Lease!Owned(p, a) \in Lease!Contents /\ Lease!Owned(p, a).is = "owned"
             /\ Lease!Owned(p, a).by = p /\ Lease!Owned(p, a).age = a
  BY DEF Lease!Owned, Lease!Contents
<1> QED BY <1>1, <1>2

Aged(x) == IF x.is = "owned" THEN [x EXCEPT !.age = Lease!Older(@)] ELSE x

\* Time changes nothing but the age of a record.
LEMMA AgedContents ==
    ASSUME LeaseAssumption, NEW x \in Lease!Contents
    PROVE  /\ Aged(x) \in Lease!Contents /\ Aged(x).is = x.is
           /\ x.is = "owned" => Aged(x).by = x.by /\ Aged(x).age = Lease!Older(x.age) /\ x.age \in Lease!Ages
           /\ x.is # "owned" => Aged(x) = x
<1>1. CASE x \in [is : {"owned"}, by : Procs, age : Lease!Ages]
  <2>1. x.age \in Lease!Ages /\ x.is = "owned" /\ Lease!Older(x.age) \in Lease!Ages
    BY <1>1, OlderAge
  <2> DEFINE o == Lease!Older(x.age)
  <2>2. Aged(x) = [x EXCEPT !.age = o]
    BY <2>1 DEF Aged
  <2>3. o \in Lease!Ages
    BY <2>1
  <2> HIDE DEF o
  <2>4. /\ [x EXCEPT !.age = o] \in [is : {"owned"}, by : Procs, age : Lease!Ages]
        /\ [x EXCEPT !.age = o].by = x.by /\ [x EXCEPT !.age = o].age = o
        /\ [x EXCEPT !.age = o].is = "owned"
    BY <1>1, <2>3
  <2> QED BY <2>1, <2>2, <2>4 DEF o, Lease!Contents
<1>2. CASE x \in {Lease!Absent, Lease!Unreadable}
  <2>1. x.is # "owned"
    BY <1>2, ContentForms
  <2> QED BY <2>1 DEF Aged
<1> QED BY <1>1, <1>2 DEF Lease!Contents

LEMMA LeaseInit == LeaseAssumption /\ Lease!Init => LeaseInv
<1> SUFFICES ASSUME LeaseAssumption, Lease!Init PROVE LeaseInv
  OBVIOUS
<1>1. Lease!TypeOK
  <2>1. 0 \in Lease!Ages
    BY DEF LeaseAssumption, Lease!Ages
  <2> QED BY <2>1, ContentForms DEF Lease!Init, Lease!TypeOK, Lease!Steps
<1>2. OneCall /\ Backed
  BY DEF Lease!Init, OneCall, Backed, Busy, Lease!Holds
<1>3. \A p \in Procs : mine[p] = 0 /\ ~ Lease!Holds(p)
  BY DEF Lease!Init, Lease!Holds
<1>4. 0 <= Window
  BY DEF LeaseAssumption
<1>5. Young
  BY <1>3, <1>4 DEF Young
<1>6. Signed
  BY ContentForms DEF Lease!Init, Signed
<1> QED BY <1>1, <1>2, <1>5, <1>6 DEF LeaseInv

LEMMA NextTyped ==
    LeaseAssumption /\ Lease!TypeOK /\ [Lease!Next]_(Lease!vars) => Lease!TypeOK'
<1> SUFFICES ASSUME LeaseAssumption, Lease!TypeOK, [Lease!Next]_(Lease!vars) PROVE Lease!TypeOK'
  OBVIOUS
<1> USE DEF Lease!TypeOK
<1>1. 0 \in Lease!Ages
  BY DEF LeaseAssumption, Lease!Ages
<1>2. ASSUME NEW p \in Procs, Lease!Acquire(p) PROVE Lease!TypeOK'
  <2>1. lock' \in Lease!Contents /\ linked' = linked /\ step[p] = "idle" /\ contended' \in BOOLEAN
    BY <1>2, ContentForms DEF Lease!Acquire, Lease!Begin
  <2>2. step' \in [Procs -> Lease!Steps] /\ \A q \in Procs : q # p => step'[q] = step[q]
    BY <1>2 DEF Lease!Acquire, Lease!Steps
  <2>3. mine' \in [Procs -> Lease!Ages] /\ UNCHANGED <<lease, seen>>
    BY <1>1, <1>2 DEF Lease!Acquire
  <2> QED BY <2>1, <2>2, <2>3
<1>3. ASSUME NEW p \in Procs, Lease!ReadOwner(p) PROVE Lease!TypeOK'
  BY <1>3 DEF Lease!ReadOwner, Lease!Steps
<1>4. ASSUME NEW p \in Procs, Lease!Judge(p) PROVE Lease!TypeOK'
  BY <1>1, <1>4, ContentForms DEF Lease!Judge, Lease!Steps
<1>5. ASSUME NEW p \in Procs, Lease!OpenOwner(p) PROVE Lease!TypeOK'
  BY <1>5, ContentForms DEF Lease!OpenOwner, Lease!Steps
<1>6. ASSUME NEW p \in Procs, Lease!WriteOwner(p) PROVE Lease!TypeOK'
  <2>1. Lease!Owned(p, mine[p]) \in Lease!Contents
    BY ContentForms
  <2>2. lock' \in Lease!Contents
    BY <1>6, <2>1, ContentForms DEF Lease!WriteOwner
  <2> QED BY <1>1, <1>6, <2>2 DEF Lease!WriteOwner, Lease!Steps
<1>7. ASSUME NEW p \in Procs, Lease!Renew(p) PROVE Lease!TypeOK'
  BY <1>1, <1>7 DEF Lease!Renew, Lease!Begin, Lease!Steps
<1>8. ASSUME NEW p \in Procs, Lease!Release(p) PROVE Lease!TypeOK'
  BY <1>8, ContentForms DEF Lease!Release, Lease!Begin
<1>9. ASSUME NEW p \in Procs, Lease!Crash(p) PROVE Lease!TypeOK'
  BY <1>1, <1>9, ContentForms DEF Lease!Crash, Lease!Steps
<1>10. CASE Lease!Tick
  <2>1. /\ lock' = Aged(lock) /\ seen' = [p \in Procs |-> Aged(seen[p])]
        /\ UNCHANGED <<step, lease, linked, contended>>
    BY <1>10 DEF Lease!Tick, Aged
  <2>2. lock' \in Lease!Contents /\ seen' \in [Procs -> Lease!Contents]
    BY <2>1, AgedContents
  <2>3. mine' \in [Procs -> Lease!Ages]
    BY <1>10, OlderAge DEF Lease!Tick
  <2> QED BY <2>1, <2>2, <2>3
<1>11. CASE UNCHANGED Lease!vars
  BY <1>11 DEF Lease!vars
<1> QED BY <1>2, <1>3, <1>4, <1>5, <1>6, <1>7, <1>8, <1>9, <1>10, <1>11 DEF Lease!Next, Lease!Call

LEMMA NextOneCall ==
    Lease!TypeOK /\ OneCall /\ [Lease!Next]_(Lease!vars) => OneCall'
<1> SUFFICES ASSUME Lease!TypeOK, OneCall, [Lease!Next]_(Lease!vars) PROVE OneCall'
  OBVIOUS
<1> USE DEF Lease!TypeOK, OneCall
<1>1. ASSUME NEW p \in Procs, NEW where, Lease!Begin(p), step' = [step EXCEPT ![p] = where] PROVE OneCall'
  <2> SUFFICES ASSUME ~ contended', NEW q \in Procs, NEW r \in Procs, Busy(q)', Busy(r)' PROVE q = r
    OBVIOUS
  <2>1. \A x \in Procs : ~ Busy(x)
    BY <1>1 DEF Lease!Begin, Lease!Idle, Busy
  <2>2. \A x \in Procs : x # p => ~ Busy(x)'
    BY <1>1, <2>1 DEF Busy
  <2> QED BY <2>2
<1>2. ASSUME contended' = contended, \A q \in Procs : Busy(q)' => Busy(q) PROVE OneCall'
  BY <1>2
<1>3. ASSUME NEW p \in Procs, Lease!Acquire(p) \/ Lease!Renew(p) PROVE OneCall'
  BY <1>1, <1>3 DEF Lease!Acquire, Lease!Renew
<1>4. ASSUME NEW p \in Procs, Lease!Release(p) PROVE OneCall'
  BY <1>4 DEF Lease!Release, Lease!Begin, Busy
<1>5. ASSUME NEW p \in Procs, Lease!ReadOwner(p) \/ Lease!Judge(p) \/ Lease!OpenOwner(p) \/ Lease!WriteOwner(p) PROVE OneCall'
  <2>1. Busy(p) /\ contended' = contended /\ \A q \in Procs : q # p => step'[q] = step[q]
    BY <1>5 DEF Lease!ReadOwner, Lease!Judge, Lease!OpenOwner, Lease!WriteOwner, Busy
  <2> QED BY <1>2, <2>1 DEF Busy
<1>6. ASSUME NEW p \in Procs, Lease!Crash(p) PROVE OneCall'
  <2>1. contended' = contended /\ ~ Busy(p)' /\ \A q \in Procs : q # p => step'[q] = step[q]
    BY <1>6 DEF Lease!Crash, Busy
  <2> QED BY <1>2, <2>1 DEF Busy
<1>7. CASE Lease!Tick \/ UNCHANGED Lease!vars
  BY <1>2, <1>7 DEF Lease!Tick, Lease!vars, Busy
<1> QED BY <1>3, <1>4, <1>5, <1>6, <1>7 DEF Lease!Next, Lease!Call

\* Only a live process holds a lease, and only its own write gives it one.
LEMMA HoldsKept ==
    ASSUME Lease!TypeOK, NEW q \in Procs, NEW p \in Procs,
           \/ Lease!Acquire(p) \/ Lease!ReadOwner(p) \/ Lease!Judge(p) \/ Lease!OpenOwner(p) \/ Lease!Renew(p)
           \/ Lease!Release(p) \/ Lease!Crash(p)
    PROVE  (Lease!Holds(q)' => Lease!Holds(q)) /\ (Lease!Alive(q)' => Lease!Alive(q))
  BY DEF Lease!TypeOK, Lease!Acquire, Lease!ReadOwner, Lease!Judge, Lease!OpenOwner, Lease!Renew, Lease!Release, Lease!Crash, Lease!Begin, Lease!Holds, Lease!Alive, Lease!Steps

LEMMA NextSigned ==
    LeaseAssumption /\ Lease!TypeOK /\ Signed /\ [Lease!Next]_(Lease!vars) => Signed'
<1> SUFFICES ASSUME LeaseAssumption, Lease!TypeOK, Signed, [Lease!Next]_(Lease!vars) PROVE Signed'
  OBVIOUS
<1> USE DEF Lease!TypeOK
<1>1. ASSUME NEW p \in Procs, Lease!Acquire(p) \/ Lease!ReadOwner(p) \/ Lease!Judge(p) \/ Lease!OpenOwner(p)
                              \/ Lease!Renew(p) \/ Lease!Crash(p)
      PROVE  Signed'
  <2>1. lock' = lock \/ lock' = Lease!Unreadable
    BY <1>1 DEF Lease!Acquire, Lease!ReadOwner, Lease!Judge, Lease!OpenOwner, Lease!Renew, Lease!Crash
  <2>2. lease' = lease
    BY <1>1 DEF Lease!Acquire, Lease!ReadOwner, Lease!Judge, Lease!OpenOwner, Lease!Renew, Lease!Crash
  <2> QED BY <1>1, <2>1, <2>2, ContentForms, HoldsKept DEF Signed
<1>2. ASSUME NEW p \in Procs, Lease!Release(p) PROVE Signed'
  BY <1>2, ContentForms DEF Lease!Release, Signed
<1>3. ASSUME NEW p \in Procs, Lease!WriteOwner(p) PROVE Signed'
  <2>1. /\ lease'[p] = "held" /\ \A q \in Procs : q # p => lease'[q] = lease[q]
        /\ \A q \in Procs : Lease!Alive(q)' => Lease!Alive(q)
    BY <1>3 DEF Lease!WriteOwner, Lease!Alive
  <2>2. lock' = lock \/ lock' = Lease!Unreadable \/ lock' = Lease!Owned(p, mine[p])
    BY <1>3 DEF Lease!WriteOwner
  <2>3. lock' = lock \/ lock'.is # "owned" \/ lock'.by = p
    BY <2>2, ContentForms
  <2> QED BY <2>1, <2>3 DEF Signed
<1>4. CASE Lease!Tick
  <2>1. lock' = Aged(lock) /\ UNCHANGED <<step, lease>>
    BY <1>4 DEF Lease!Tick, Aged
  <2>2. lock'.is = "owned" => lock.is = "owned" /\ lock'.by = lock.by
    BY <2>1, AgedContents
  <2> QED BY <2>1, <2>2 DEF Signed, Lease!Alive
<1>5. CASE UNCHANGED Lease!vars
  BY <1>5 DEF Lease!vars, Signed, Lease!Alive
<1> QED BY <1>1, <1>2, <1>3, <1>4, <1>5 DEF Lease!Next, Lease!Call

LEMMA NextYoung ==
    LeaseAssumption /\ Lease!TypeOK /\ Signed /\ Young /\ [Lease!Next]_(Lease!vars) => Young'
<1> SUFFICES ASSUME LeaseAssumption, Lease!TypeOK, Signed, Young, [Lease!Next]_(Lease!vars) PROVE Young'
  OBVIOUS
<1> USE DEF Lease!TypeOK
<1>1. ASSUME \A q \in Procs : (Lease!Holds(q)' => Lease!Holds(q)) /\ (Lease!Alive(q)' => Lease!Alive(q)),
             \A q \in Procs : mine'[q] = mine[q] \/ mine'[q] = 0,
             lock' = lock \/ lock'.is # "owned"
      PROVE  Young'
  BY <1>1 DEF LeaseAssumption, Young, Lease!Ages
<1>2. ASSUME NEW p \in Procs, Lease!Acquire(p) \/ Lease!ReadOwner(p) \/ Lease!Judge(p) \/ Lease!OpenOwner(p)
                              \/ Lease!Renew(p) \/ Lease!Release(p) \/ Lease!Crash(p)
      PROVE  Young'
  <2>1. \A q \in Procs : mine'[q] = mine[q] \/ mine'[q] = 0
    BY <1>2 DEF Lease!Acquire, Lease!ReadOwner, Lease!Judge, Lease!OpenOwner, Lease!Renew, Lease!Release, Lease!Crash
  <2>2. lock' = lock \/ lock' \in {Lease!Absent, Lease!Unreadable}
    BY <1>2 DEF Lease!Acquire, Lease!ReadOwner, Lease!Judge, Lease!OpenOwner, Lease!Renew, Lease!Release, Lease!Crash
  <2>3. lock' = lock \/ lock'.is # "owned"
    BY <2>2, ContentForms
  <2> QED BY <1>1, <1>2, <2>1, <2>3, HoldsKept
<1>3. ASSUME NEW p \in Procs, Lease!WriteOwner(p) PROVE Young'
  <2>1. Lease!Alive(p) /\ \A q \in Procs : Lease!Alive(q)' => Lease!Alive(q)
    BY <1>3 DEF Lease!WriteOwner, Lease!Alive
  <2>2. \A q \in Procs : q # p => (Lease!Holds(q)' => Lease!Holds(q))
    BY <1>3, <2>1 DEF Lease!WriteOwner, Lease!Holds
  <2>3. \A q \in Procs : mine'[q] = mine[q] \/ mine'[q] = 0
    BY <1>3 DEF Lease!WriteOwner
  <2>4. lock' = lock \/ lock' = Lease!Unreadable \/ lock' = Lease!Owned(p, mine[p])
    BY <1>3 DEF Lease!WriteOwner
  <2> SUFFICES ASSUME NEW q \in Procs, NEW r \in Procs, Lease!Alive(q)', Lease!Alive(r)', HostOf[r] # HostOf[q]
               PROVE  /\ mine'[q] <= Window
                      /\ Lease!Holds(q)' /\ lock'.is = "owned" /\ lock'.by = q => lock'.age <= Window
    BY DEF Young
  <2>5. mine[q] <= Window /\ Lease!Alive(q)
    BY <2>1 DEF Young
  <2>6. mine'[q] <= Window
    BY <2>3, <2>5 DEF LeaseAssumption, Lease!Ages
  <2>7. ASSUME lock'.is = "owned", lock'.by = q PROVE lock'.age <= Window
    <3>1. CASE lock' = lock
      BY <2>1, <2>5, <2>7, <3>1 DEF Young, Signed, Lease!Holds
    <3>2. CASE lock' = Lease!Unreadable
      BY <2>7, <3>2, ContentForms
    <3>3. CASE lock' = Lease!Owned(p, mine[p])
      BY <2>5, <2>7, <3>3, ContentForms
    <3> QED BY <2>4, <3>1, <3>2, <3>3
  <2> QED BY <2>6, <2>7
<1>4. CASE Lease!Tick
  <2>1. /\ Lease!Timely /\ lock' = Aged(lock) /\ UNCHANGED <<step, lease>>
        /\ \A p \in Procs : mine'[p] = mine[p] \/ mine'[p] = Lease!Older(mine[p])
    BY <1>4 DEF Lease!Tick, Aged
  <2>2. \A p \in Procs : (Lease!Holds(p)' <=> Lease!Holds(p)) /\ (Lease!Alive(p)' <=> Lease!Alive(p))
    BY <2>1 DEF Lease!Holds, Lease!Alive
  <2> SUFFICES ASSUME NEW p \in Procs, NEW q \in Procs, Lease!Alive(p), Lease!Alive(q), HostOf[q] # HostOf[p]
               PROVE  /\ mine'[p] <= Window
                      /\ Lease!Holds(p) /\ lock'.is = "owned" /\ lock'.by = p => lock'.age <= Window
    BY <2>2 DEF Young
  <2>3. mine'[p] <= Window
    BY <2>1, OlderAge DEF LeaseAssumption, Lease!Timely, Lease!Ages
  <2>4. ASSUME Lease!Holds(p), lock'.is = "owned", lock'.by = p PROVE lock'.age <= Window
    <3>1. lock.is = "owned" /\ lock.by = p /\ lock'.age = Lease!Older(lock.age) /\ lock.age \in Lease!Ages
      BY <2>1, <2>4, AgedContents
    <3> QED BY <2>1, <2>4, <3>1, OlderAge DEF Lease!Timely
  <2> QED BY <2>3, <2>4
<1>5. CASE UNCHANGED Lease!vars
  BY <1>5 DEF Lease!vars, Young, Lease!Holds, Lease!Alive
<1> QED BY <1>2, <1>3, <1>4, <1>5 DEF Lease!Next, Lease!Call

-----------------------------------------------------------------------------

\* Who may take the lock from a live holder: nobody.
LEMMA HolderIsSafe ==
    ASSUME LeaseAssumption, Lease!TypeOK, Young, NEW p \in Procs, NEW h \in Procs, Lease!Alive(p), Lease!Holds(h),
           lock.is = "owned", lock.by = h
    PROVE  ~ Lease!Reclaimable(p, lock)
<1>1. Lease!Alive(h)
  BY DEF Lease!Holds
<1>2. HostOf[h] # HostOf[p] => lock.age <= Window
  BY <1>1 DEF Young
<1>3. lock.age \in Lease!Ages
  BY AgedContents DEF Lease!TypeOK
<1> QED BY <1>1, <1>2, <1>3 DEF LeaseAssumption, Lease!Reclaimable, Lease!Ages

LEMMA NextBacked == LeaseAssumption /\ LeaseInv /\ [Lease!Next]_(Lease!vars) => Backed'
<1> SUFFICES ASSUME LeaseAssumption, LeaseInv, [Lease!Next]_(Lease!vars), ~ contended' PROVE Backed'
  BY DEF Backed
<1> USE DEF LeaseInv, Lease!TypeOK
<1>1. ASSUME NEW p \in Procs, Lease!Begin(p)
      PROVE  /\ ~ contended /\ step[p] = "idle" /\ \A q \in Procs : ~ Busy(q)
             /\ \A h \in Procs : Lease!Holds(h) => lock.is = "owned" /\ lock.by = h
  <2>1. ~ contended /\ step[p] = "idle" /\ \A q \in Procs : ~ Busy(q)
    BY <1>1 DEF Lease!Begin, Lease!Idle, Busy
  <2> QED BY <2>1 DEF Backed, Busy
<1>2. ASSUME NEW p \in Procs, Busy(p), ~ contended PROVE \A q \in Procs : Busy(q) => q = p
  BY <1>2 DEF OneCall
<1>3. ASSUME NEW p \in Procs, Lease!Acquire(p) PROVE Backed'
  <2>1. /\ ~ contended /\ step[p] = "idle" /\ \A q \in Procs : ~ Busy(q)
        /\ \A h \in Procs : Lease!Holds(h) => lock.is = "owned" /\ lock.by = h
    BY <1>1, <1>3 DEF Lease!Acquire
  <2>2. \A q \in Procs : q # p => step'[q] \in {"idle", "dead"}
    BY <1>3, <2>1 DEF Lease!Acquire, Busy
  <2>3. CASE lock = Lease!Absent
    <3>1. step'[p] = "opening"
      BY <1>3, <2>3 DEF Lease!Acquire
    <3>2. \A h \in Procs : ~ Lease!Holds(h)'
      BY <1>3, <2>1, <2>3, ContentForms, HoldsKept
    <3> QED BY <2>2, <3>1, <3>2 DEF Backed
  <2>4. CASE lock # Lease!Absent
    <3>1. step'[p] = "exists" /\ lock' = lock
      BY <1>3, <2>4 DEF Lease!Acquire
    <3>2. \A h \in Procs : Lease!Holds(h)' => lock'.is = "owned" /\ lock'.by = h
      BY <1>3, <2>1, <3>1, HoldsKept
    <3> QED BY <2>2, <3>1, <3>2 DEF Backed
  <2> QED BY <2>3, <2>4
<1>4. ASSUME NEW p \in Procs, Lease!Renew(p) PROVE Backed'
  <2>1. /\ ~ contended /\ step[p] = "idle" /\ \A q \in Procs : ~ Busy(q)
        /\ \A h \in Procs : Lease!Holds(h) => lock.is = "owned" /\ lock.by = h
    BY <1>1, <1>4 DEF Lease!Renew
  <2>2. lock' = lock /\ step'[p] = "opening" /\ Lease!Holds(p)
    BY <1>4, <2>1 DEF Lease!Renew, Lease!Holds, Lease!Alive
  <2>3. \A q \in Procs : q # p => step'[q] \in {"idle", "dead"}
    BY <1>4, <2>1 DEF Lease!Renew, Busy
  <2>4. \A h \in Procs : Lease!Holds(h)' => h = p /\ lock'.is = "owned" /\ lock'.by = h
    BY <1>4, <2>1, <2>2, HoldsKept
  <2> QED BY <2>2, <2>3, <2>4 DEF Backed
<1>5. ASSUME NEW p \in Procs, Lease!Release(p) PROVE Backed'
  <2>1. /\ ~ contended /\ step[p] = "idle" /\ \A q \in Procs : ~ Busy(q)
        /\ \A h \in Procs : Lease!Holds(h) => lock.is = "owned" /\ lock.by = h
    BY <1>1, <1>5 DEF Lease!Release
  <2>2. Lease!Holds(p) /\ ~ Lease!Holds(p)' /\ step' = step
    BY <1>5, <2>1 DEF Lease!Release, Lease!Holds, Lease!Alive
  <2>3. \A h \in Procs : ~ Lease!Holds(h)'
    BY <1>5, <2>1, <2>2, HoldsKept
  <2> QED BY <2>1, <2>2, <2>3 DEF Backed, Busy
<1>6. ASSUME NEW p \in Procs, Lease!ReadOwner(p) PROVE Backed'
  <2>1. ~ contended /\ step[p] = "exists" /\ step'[p] = "judging" /\ lock' = lock /\ seen'[p] = lock
    BY <1>6 DEF Lease!ReadOwner
  <2>2. \A q \in Procs : q # p => step'[q] = step[q] /\ step[q] \in {"idle", "dead"}
    BY <1>2, <1>6, <2>1 DEF Lease!ReadOwner, Busy
  <2>3. \A h \in Procs : Lease!Holds(h)' => lock'.is = "owned" /\ lock'.by = h
    BY <1>6, <2>1, <2>2, HoldsKept DEF Backed
  <2> QED BY <2>1, <2>2, <2>3 DEF Backed
<1>7. ASSUME NEW p \in Procs, Lease!Judge(p) PROVE Backed'
  <2>1. ~ contended /\ step[p] = "judging" /\ lock' = lock /\ seen[p] = lock /\ Lease!Alive(p)
    BY <1>7 DEF Lease!Judge, Backed, Lease!Alive
  <2>2. \A q \in Procs : q # p => step'[q] = step[q] /\ step[q] \in {"idle", "dead"}
    BY <1>2, <1>7, <2>1 DEF Lease!Judge, Busy
  <2>3. \A h \in Procs : Lease!Holds(h) => lock.is = "owned" /\ lock.by = h
    BY <2>1, <2>2 DEF Backed
  <2>4. \A h \in Procs : Lease!Holds(h)' => Lease!Holds(h) /\ lock'.is = "owned" /\ lock'.by = h
    BY <1>7, <2>1, <2>3, HoldsKept
  <2>5. step'[p] = IF Lease!Reclaimable(p, lock) THEN "opening" ELSE "idle"
    BY <1>7, <2>1 DEF Lease!Judge
  <2>6. step'[p] = "opening" => \A h \in Procs : ~ Lease!Holds(h)
    BY <2>1, <2>3, <2>5, HolderIsSafe
  <2> QED BY <2>2, <2>4, <2>5, <2>6 DEF Backed
<1>8. ASSUME NEW p \in Procs, Lease!OpenOwner(p) PROVE Backed'
  <2>1. /\ ~ contended /\ step[p] = "opening" /\ step'[p] = "writing"
        /\ lock' = Lease!Unreadable /\ p \in linked'
    BY <1>8 DEF Lease!OpenOwner
  <2>2. \A q \in Procs : q # p => step'[q] = step[q] /\ step[q] \in {"idle", "dead"}
    BY <1>2, <1>8, <2>1 DEF Lease!OpenOwner, Busy
  <2>3. \A h \in Procs : Lease!Holds(h)' => h = p
    BY <1>8, <2>1, HoldsKept DEF Backed
  <2> QED BY <2>1, <2>2, <2>3 DEF Backed
<1>9. ASSUME NEW p \in Procs, Lease!WriteOwner(p) PROVE Backed'
  <2>1. ~ contended /\ step[p] = "writing" /\ step'[p] = "idle" /\ lock = Lease!Unreadable /\ p \in linked
    BY <1>9 DEF Lease!WriteOwner, Backed
  <2>2. \A q \in Procs : q # p => step'[q] = step[q] /\ step[q] \in {"idle", "dead"}
    BY <1>2, <1>9, <2>1 DEF Lease!WriteOwner, Busy
  <2>3. lock' = Lease!Owned(p, mine[p])
    BY <1>9, <2>1 DEF Lease!WriteOwner
  <2>4. lock'.is = "owned" /\ lock'.by = p
    BY <2>3, ContentForms
  <2>5. \A h \in Procs : h # p => (Lease!Holds(h)' => Lease!Holds(h))
    BY <1>9, <2>2 DEF Lease!WriteOwner, Lease!Holds, Lease!Alive
  <2>6. \A h \in Procs : Lease!Holds(h)' => h = p
    BY <2>1, <2>5 DEF Backed
  <2> QED BY <2>1, <2>2, <2>4, <2>6 DEF Backed
<1>10. ASSUME NEW p \in Procs, Lease!Crash(p) PROVE Backed'
  <2>1. /\ ~ contended /\ step'[p] = "dead" /\ lock' = lock
        /\ \A q \in Procs : q # p => step'[q] = step[q] /\ seen'[q] = seen[q] /\ (q \in linked' <=> q \in linked)
    BY <1>10 DEF Lease!Crash
  <2>2. ~ Lease!Holds(p)' /\ \A h \in Procs : Lease!Holds(h)' => Lease!Holds(h)
    BY <1>10, <2>1, HoldsKept DEF Lease!Holds, Lease!Alive
  <2> QED BY <2>1, <2>2 DEF Backed
<1>11. CASE Lease!Tick
  <2>1. /\ ~ contended /\ lock' = Aged(lock) /\ seen' = [p \in Procs |-> Aged(seen[p])]
        /\ UNCHANGED <<step, lease, linked>>
    BY <1>11 DEF Lease!Tick, Aged
  <2>2. \A h \in Procs : Lease!Holds(h)' <=> Lease!Holds(h)
    BY <2>1 DEF Lease!Holds, Lease!Alive
  <2>3. lock'.is = lock.is /\ (lock.is = "owned" => lock'.by = lock.by) /\ (lock = Lease!Unreadable => lock' = lock)
    BY <2>1, AgedContents, ContentForms
  <2>4. \A p \in Procs : seen[p] = lock => seen'[p] = lock'
    BY <2>1
  <2> QED BY <2>1, <2>2, <2>3, <2>4 DEF Backed
<1>12. CASE UNCHANGED Lease!vars
  BY <1>12 DEF Lease!vars, Backed, Lease!Holds, Lease!Alive
<1> QED BY <1>3, <1>4, <1>5, <1>6, <1>7, <1>8, <1>9, <1>10, <1>11, <1>12 DEF Lease!Next, Lease!Call

-----------------------------------------------------------------------------

LEMMA LeaseInvariant == ASSUME LeaseAssumption PROVE Lease!Spec => []LeaseInv
<1>1. LeaseInv /\ [Lease!Next]_(Lease!vars) => LeaseInv'
  BY NextTyped, NextOneCall, NextSigned, NextYoung, NextBacked DEF LeaseInv
<1> QED BY <1>1, LeaseInit, PTL DEF Lease!Spec

\* Type correctness of the lock file and of what the processes hold of it.
THEOREM LeaseTypeCorrect == ASSUME LeaseAssumption PROVE Lease!Spec => []Lease!TypeOK
<1>1. LeaseInv => Lease!TypeOK
  BY DEF LeaseInv
<1> QED BY <1>1, LeaseInvariant, PTL

\* As long as no two calls have overlapped one live process at most holds the
\* lease, however many there are, wherever they run and whoever died in the
\* middle of a call, and between calls the lock file names it.
THEOREM LeaseIsBacked == ASSUME LeaseAssumption PROVE Lease!Spec => []Lease!LeaseBacked
<1>1. LeaseInv => Lease!LeaseBacked
  <2> SUFFICES ASSUME LeaseInv, ~ contended
               PROVE  /\ Lease!Exclusive
                      /\ Lease!Idle => \A p \in Procs : Lease!Holds(p) => lock.is = "owned" /\ lock.by = p
    BY DEF Lease!LeaseBacked
  <2>1. Lease!Exclusive
    BY DEF LeaseInv, Backed, Lease!Exclusive
  <2>2. ASSUME Lease!Idle, NEW p \in Procs, Lease!Holds(p) PROVE lock.is = "owned" /\ lock.by = p
    BY <2>2 DEF LeaseInv, Backed, Lease!Idle
  <2> QED BY <2>1, <2>2
<1> QED BY <1>1, LeaseInvariant, PTL

=============================================================================
