------------------------ MODULE AsyncSemaphoreProofs ------------------------
(***************************************************************************)
(* Proofs about AsyncSemaphore, for every set of callers and every number  *)
(* of permits: the counter is exact, the queue is exactly the suspended    *)
(* callers, nobody waits beside a free permit, and the semaphore           *)
(* implements BoundedGrants.  Then about FanOut, the programs in front of  *)
(* it: they use the semaphore as it wants to be used, their items work     *)
(* under a permit, and they leave no item behind.                          *)
(***************************************************************************)
EXTENDS FanOut, FiniteSetTheorems, TLAPS

(* The invariant as a predicate on a counter a, a queue q, phases p and      *)
(* release flags r, so that it can be asserted of the intermediate values    *)
(* that tryGrant is called with.                                             *)
OwnersIn(p, r) == {c \in Callers : p[c] = "granted" \/ (p[c] = "holding" /\ ~ r[c])}

Typed(a, q, p, r) ==
    /\ a \in 0..Permits
    /\ q \in Seq(Callers)
    /\ p \in [Callers -> Phases]
    /\ r \in [Callers -> BOOLEAN]

Counted(a, p, r) ==
    /\ IsFiniteSet(OwnersIn(p, r))
    /\ a = Cardinality(OwnersIn(p, r))

Queued(q, p) ==
    /\ \A i, j \in DOMAIN q : q[i] = q[j] => i = j
    /\ \A c \in Callers : p[c] = "waiting" <=> \E i \in DOMAIN q : q[i] = c

Sound(a, q, p, r) == Typed(a, q, p, r) /\ Counted(a, p, r) /\ Queued(q, p)

IInv == Sound(active, queue, phase, released) /\ WorkConserving

-----------------------------------------------------------------------------

\* tryGrant keeps the state sound, whoever called it.
LEMMA TryGrantSound ==
    ASSUME NEW a, NEW q, NEW p, NEW r,
           Sound(a, q, p, r), TryGrant(a, q, p), released' = r
    PROVE  Sound(active', queue', phase', released')
<1>1. CASE a < Permits /\ q # <<>>
  <2> DEFINE h == Head(q)
  <2>1. /\ active' = a + 1
        /\ queue' = Tail(q)
        /\ phase' = [p EXCEPT ![h] = "granted"]
    BY <1>1 DEF TryGrant
  <2>2. h \in Callers /\ h = q[1] /\ 1 \in DOMAIN q
    BY <1>1 DEF Sound, Typed
  <2>3. p[h] = "waiting"
    BY <2>2 DEF Sound, Queued
  <2>4. Typed(active', queue', phase', released')
    BY <1>1, <2>1, <2>2, PermitsAssumption DEF Sound, Typed, Phases
  <2>5. Counted(active', phase', released')
    <3>1. OwnersIn(phase', released') = OwnersIn(p, r) \cup {h}
      BY <2>1, <2>2 DEF OwnersIn, Sound, Typed
    <3>2. h \notin OwnersIn(p, r)
      BY <2>3 DEF OwnersIn
    <3> DEFINE O == OwnersIn(p, r)
    <3>3. IsFiniteSet(O) /\ a = Cardinality(O)
      BY DEF Sound, Counted
    <3>4. a + 1 = Cardinality(O) + 1 /\ h \notin O
      BY <3>2, <3>3
    <3> HIDE DEF O, h
    <3>5. IsFiniteSet(O \cup {h}) /\ Cardinality(O \cup {h}) = Cardinality(O) + 1
      BY <3>3, <3>4, FS_AddElement
    <3>6. active' = Cardinality(O \cup {h})
      BY <2>1, <3>4, <3>5
    <3>7. IsFiniteSet(OwnersIn(phase', released')) /\ active' = Cardinality(OwnersIn(phase', released'))
      BY <3>1, <3>5, <3>6 DEF O
    <3> QED BY <3>7 DEF Counted
  <2>6. Queued(queue', phase')
    <3>1. \A i \in DOMAIN queue' : i + 1 \in DOMAIN q /\ queue'[i] = q[i + 1]
      BY <1>1, <2>1 DEF Sound, Typed
    <3>2. \A i \in DOMAIN q : i # 1 => i - 1 \in DOMAIN queue' /\ queue'[i - 1] = q[i]
      BY <1>1, <2>1 DEF Sound, Typed
    <3>3. \A i, j \in DOMAIN queue' : queue'[i] = queue'[j] => i = j
      <4> SUFFICES ASSUME NEW i \in DOMAIN queue', NEW j \in DOMAIN queue',
                          queue'[i] = queue'[j]
                   PROVE  i = j
        OBVIOUS
      <4>1. i + 1 = j + 1
        BY <3>1 DEF Sound, Queued
      <4>2. i \in Nat /\ j \in Nat
        BY <1>1, <2>1 DEF Sound, Typed
      <4> QED BY <4>1, <4>2
    <3>4. ASSUME NEW c \in Callers
          PROVE  phase'[c] = "waiting" <=> \E i \in DOMAIN queue' : queue'[i] = c
      <4>1. CASE c = h
        <5>1. phase'[c] = "granted"
          BY <2>1, <2>2, <4>1 DEF Sound, Typed
        <5>2. ASSUME NEW i \in DOMAIN queue', queue'[i] = c PROVE FALSE
          <6>1. i + 1 = 1
            BY <2>2, <3>1, <4>1, <5>2 DEF Sound, Queued
          <6>2. i \in Nat \ {0}
            BY <1>1, <2>1 DEF Sound, Typed
          <6> QED BY <6>1, <6>2
        <5> QED BY <5>1, <5>2
      <4>2. CASE c # h
        <5>1. phase'[c] = p[c]
          BY <2>1, <4>2 DEF Sound, Typed
        <5>2. (\E i \in DOMAIN q : q[i] = c) <=> \E i \in DOMAIN queue' : queue'[i] = c
          BY <2>2, <3>1, <3>2, <4>2
        <5> QED BY <5>1, <5>2 DEF Sound, Queued
      <4> QED BY <4>1, <4>2
    <3> QED BY <3>3, <3>4 DEF Queued
  <2> QED BY <2>4, <2>5, <2>6 DEF Sound
<1>2. CASE ~ (a < Permits /\ q # <<>>)
  BY <1>2 DEF TryGrant, Sound
<1> QED BY <1>1, <1>2

\* Pushing the resolver of a caller that owns nothing keeps the state sound.
LEMMA PushSound ==
    ASSUME IInv, NEW c \in Callers,
           phase[c] = "idle" \/ (phase[c] = "holding" /\ released[c])
    PROVE  Sound(active, Append(queue, c), [phase EXCEPT ![c] = "waiting"], released)
<1> DEFINE q == Append(queue, c)
           p == [phase EXCEPT ![c] = "waiting"]
<1>1. Typed(active, q, p, released)
  BY DEF IInv, Sound, Typed, Phases
<1>2. OwnersIn(p, released) = OwnersIn(phase, released)
  BY DEF IInv, Sound, Typed, OwnersIn
<1>3. Counted(active, p, released)
  BY <1>2 DEF IInv, Sound, Counted
<1>4. Queued(q, p)
  <2>1. /\ DOMAIN q = 1..(Len(queue) + 1)
        /\ DOMAIN queue = 1..Len(queue)
        /\ Len(queue) \in Nat
        /\ q[Len(queue) + 1] = c
        /\ \A i \in 1..Len(queue) : q[i] = queue[i]
    BY DEF IInv, Sound, Typed
  <2>2. \A i \in DOMAIN queue : queue[i] # c
    BY DEF IInv, Sound, Queued
  <2>3. \A i, j \in DOMAIN q : q[i] = q[j] => i = j
    BY <2>1, <2>2 DEF IInv, Sound, Queued
  <2>4. ASSUME NEW d \in Callers
        PROVE  p[d] = "waiting" <=> \E i \in DOMAIN q : q[i] = d
    <3>1. CASE d = c
      BY <2>1, <3>1 DEF IInv, Sound, Typed
    <3>2. CASE d # c
      BY <2>1, <3>2 DEF IInv, Sound, Typed, Queued
    <3> QED BY <3>1, <3>2
  <2> QED BY <2>3, <2>4 DEF Queued
<1> QED BY <1>1, <1>3, <1>4 DEF Sound

\* The first call of a closure takes its caller out of the owners.
LEMMA ReturnSound ==
    ASSUME IInv, NEW c \in Callers, phase[c] = "holding", ~ released[c]
    PROVE  /\ Sound(active - 1, queue, phase, [released EXCEPT ![c] = TRUE])
           /\ c \in Holders
           /\ OwnersIn(phase, [released EXCEPT ![c] = TRUE]) = Holders \ {c}
<1> DEFINE r == [released EXCEPT ![c] = TRUE]
<1>1. c \in OwnersIn(phase, released) /\ OwnersIn(phase, released) = Holders
  BY DEF OwnersIn, Holders
<1>2. OwnersIn(phase, r) = OwnersIn(phase, released) \ {c}
  BY DEF IInv, Sound, Typed, OwnersIn
<1>3. /\ IsFiniteSet(OwnersIn(phase, r))
      /\ Cardinality(OwnersIn(phase, r)) = active - 1
  BY <1>1, <1>2, FS_RemoveElement DEF IInv, Sound, Counted
<1>4. Cardinality(OwnersIn(phase, r)) \in Nat
  BY <1>3, FS_CardinalityType
<1>5. Typed(active - 1, queue, phase, r)
  BY <1>3, <1>4, PermitsAssumption DEF IInv, Sound, Typed
<1>6. Counted(active - 1, phase, r) /\ Queued(queue, phase)
  BY <1>3 DEF IInv, Sound, Counted
<1> QED BY <1>1, <1>2, <1>5, <1>6 DEF Sound

-----------------------------------------------------------------------------

LEMMA InitEstablishes == Init => IInv
<1> SUFFICES ASSUME Init PROVE IInv
  OBVIOUS
<1>1. OwnersIn(phase, released) = {}
  BY DEF Init, OwnersIn
<1>2. Counted(active, phase, released)
  BY <1>1, FS_EmptySet DEF Init, Counted
<1>3. Typed(active, queue, phase, released)
  BY PermitsAssumption DEF Init, Typed, Phases
<1> QED BY <1>2, <1>3 DEF Init, IInv, Sound, Queued, WorkConserving

LEMMA NextPreserves == IInv /\ [Next]_vars => IInv'
<1> SUFFICES ASSUME IInv, [Next]_vars PROVE IInv'
  OBVIOUS
<1>1. ASSUME NEW c \in Callers, Acquire(c) PROVE IInv'
  <2>1. Sound(active, Append(queue, c), [phase EXCEPT ![c] = "waiting"], released)
    BY <1>1, PushSound DEF Acquire
  <2>2. Sound(active', queue', phase', released')
    BY <1>1, <2>1, TryGrantSound DEF Acquire
  <2>3. WorkConserving'
    BY <1>1, PermitsAssumption
       DEF IInv, Sound, Typed, Acquire, TryGrant, WorkConserving
  <2> QED BY <2>2, <2>3 DEF IInv, Sound, Typed, Counted, Queued, OwnersIn
<1>2. ASSUME NEW c \in Callers, Resume(c) PROVE IInv'
  <2>1. OwnersIn(phase', released') = OwnersIn(phase, released)
    BY <1>2 DEF IInv, Sound, Typed, Resume, OwnersIn
  <2>2. Counted(active', phase', released')
    BY <1>2, <2>1 DEF IInv, Sound, Counted, Resume
  <2>3. Typed(active', queue', phase', released')
    BY <1>2 DEF IInv, Sound, Typed, Resume, Phases
  <2>4. Queued(queue', phase')
    BY <1>2 DEF IInv, Sound, Typed, Queued, Resume
  <2> QED BY <1>2, <2>2, <2>3, <2>4
          DEF IInv, Sound, Typed, Counted, Queued, OwnersIn, WorkConserving, Resume
<1>3. ASSUME NEW c \in Callers, Release(c) PROVE IInv'
  <2>1. CASE released[c]
    BY <1>3, <2>1 DEF Release, vars, IInv, Sound, Typed, Counted, Queued, OwnersIn,
                      WorkConserving
  <2>2. CASE ~ released[c]
    <3>1. Sound(active - 1, queue, phase, [released EXCEPT ![c] = TRUE])
      BY <1>3, <2>2, ReturnSound DEF Release
    <3>2. Sound(active', queue', phase', released')
      BY <1>3, <2>2, <3>1, TryGrantSound DEF Release
    <3>3. WorkConserving'
      BY <1>3, <2>2, PermitsAssumption
         DEF IInv, Sound, Typed, Release, TryGrant, WorkConserving
    <3> QED BY <3>2, <3>3 DEF IInv, Sound, Typed, Counted, Queued, OwnersIn
  <2> QED BY <2>1, <2>2
<1>4. CASE UNCHANGED vars
  BY <1>4 DEF vars, IInv, Sound, Typed, Counted, Queued, OwnersIn, WorkConserving
<1> QED BY <1>1, <1>2, <1>3, <1>4 DEF Next

LEMMA Inductive == Spec => []IInv
BY InitEstablishes, NextPreserves, PTL DEF Spec

-----------------------------------------------------------------------------

\* Type correctness of createSemaphore's state.
THEOREM TypeCorrect == Spec => []TypeOK
<1>1. IInv => TypeOK
  BY DEF IInv, Sound, Typed, TypeOK
<1> QED BY <1>1, Inductive, PTL

\* The counter of tryGrant and of the release closure is exact.
THEOREM CounterExact == Spec => []CounterCountsHolders
<1>1. IInv => CounterCountsHolders
  BY DEF IInv, Sound, Counted, OwnersIn, CounterCountsHolders, Holders
<1> QED BY <1>1, Inductive, PTL

\* The resolver queue holds the suspended callers, each once.
THEOREM QueueExact == Spec => []QueueIsWaiters
<1>1. IInv => QueueIsWaiters
  BY DEF IInv, Sound, Queued, QueueIsWaiters
<1> QED BY <1>1, Inductive, PTL

\* One tryGrant per push and per release leaves nobody beside a free permit.
THEOREM NoIdlePermit == Spec => []WorkConserving
<1>1. IInv => WorkConserving
  BY DEF IInv
<1> QED BY <1>1, Inductive, PTL

-----------------------------------------------------------------------------

(* The refinement: a resolver in the queue is a caller that waits, so the    *)
(* two ways in (straight through, or from the head of the queue) are the     *)
(* two branches of the abstract steps.                                       *)

LEMMA SameCardinality == \A S : Abstract!Cardinality(S) = Cardinality(S)
BY DEF Abstract!Cardinality, Cardinality

LEMMA InitRefines == Init => Abstract!Init
BY DEF Init, Abstract!Init, Holders

LEMMA AcquireRefines ==
    ASSUME IInv, NEW c \in Callers, Acquire(c)
    PROVE  Abstract!Arrive(c)
<1> DEFINE p == [phase EXCEPT ![c] = "waiting"]
<1>1. c \notin Holders
  BY DEF Acquire, Holders
<1>2. ~ Abstract!IsWaiting(c)
  BY DEF Acquire, IInv, Sound, Queued, Abstract!IsWaiting
<1>3. active = Cardinality(Holders) /\ active \in Nat /\ active <= Permits
  BY PermitsAssumption DEF IInv, Sound, Typed, Counted, OwnersIn, Holders
<1>4. CASE active < Permits
  <2>1. queue = <<>>
    BY <1>3, <1>4, PermitsAssumption DEF IInv, WorkConserving
  <2>0. Append(queue, c) = <<c>> /\ <<c>> # <<>>
    BY <2>1
  <2>2. /\ queue' = Tail(Append(queue, c))
        /\ phase' = [p EXCEPT ![Head(Append(queue, c))] = "granted"]
        /\ released' = released
    BY <1>4, <2>0 DEF Acquire, TryGrant
  <2>3. queue' = queue /\ Head(Append(queue, c)) = c
    BY <2>1, <2>2, <2>0
  <2>4. phase' = [phase EXCEPT ![c] = "granted"]
    BY <2>2, <2>3 DEF IInv, Sound, Typed
  <2>5. Holders' = Holders \cup {c}
    BY <2>2, <2>4 DEF Holders, IInv, Sound, Typed
  <2> QED BY <1>1, <1>2, <1>3, <1>4, <2>3, <2>5, SameCardinality DEF Abstract!Arrive
<1>5. CASE ~ (active < Permits)
  <2>1. /\ queue' = Append(queue, c)
        /\ phase' = p
        /\ released' = released
    BY <1>5 DEF Acquire, TryGrant
  <2>2. Holders' = Holders
    BY <2>1 DEF Holders, Acquire, IInv, Sound, Typed
  <2> QED BY <1>1, <1>2, <1>3, <1>5, <2>1, <2>2, SameCardinality DEF Abstract!Arrive
<1> QED BY <1>4, <1>5

LEMMA ReleaseRefines ==
    ASSUME IInv, NEW c \in Callers, Release(c), ~ released[c]
    PROVE  Abstract!Depart(c)
<1> DEFINE r == [released EXCEPT ![c] = TRUE]
<1>1. c \in Holders /\ OwnersIn(phase, r) = Holders \ {c}
  BY ReturnSound DEF Release
<1>2. CASE queue = <<>>
  <2>1. queue' = queue /\ phase' = phase /\ released' = r
    BY <1>2 DEF Release, TryGrant
  <2>2. Holders' = Holders \ {c}
    BY <1>1, <2>1 DEF Holders, OwnersIn
  <2> QED BY <1>1, <1>2, <2>1, <2>2 DEF Abstract!Depart
<1>3. CASE queue # <<>>
  <2>1. active = Permits
    BY <1>3 DEF IInv, WorkConserving
  <2>2. /\ queue' = Tail(queue)
        /\ phase' = [phase EXCEPT ![Head(queue)] = "granted"]
        /\ released' = r
    BY <1>3, <2>1, PermitsAssumption DEF Release, TryGrant
  <2>3. Head(queue) \in Callers
    BY <1>3 DEF IInv, Sound, Typed
  <2>4. Holders' = OwnersIn(phase, r) \cup {Head(queue)}
    BY <2>2, <2>3 DEF Holders, OwnersIn, IInv, Sound, Typed
  <2> QED BY <1>1, <1>3, <2>2, <2>4 DEF Abstract!Depart
<1> QED BY <1>2, <1>3

LEMMA NextRefines == IInv /\ [Next]_vars => [Abstract!Next]_(Abstract!vars)
<1> SUFFICES ASSUME IInv, [Next]_vars PROVE [Abstract!Next]_(Abstract!vars)
  OBVIOUS
<1>1. ASSUME NEW c \in Callers, Acquire(c) PROVE Abstract!Next
  BY <1>1, AcquireRefines DEF Abstract!Next
<1>2. ASSUME NEW c \in Callers, Resume(c) PROVE UNCHANGED Abstract!vars
  BY <1>2 DEF Resume, Abstract!vars, Holders, IInv, Sound, Typed
<1>3. ASSUME NEW c \in Callers, Release(c)
      PROVE  Abstract!Next \/ UNCHANGED Abstract!vars
  <2>1. CASE released[c]
    BY <1>3, <2>1 DEF Release, vars, Abstract!vars, Holders
  <2>2. CASE ~ released[c]
    BY <1>3, <2>2, ReleaseRefines DEF Abstract!Next
  <2> QED BY <2>1, <2>2
<1>4. CASE UNCHANGED vars
  BY <1>4 DEF vars, Abstract!vars, Holders
<1> QED BY <1>1, <1>2, <1>3, <1>4 DEF Next

\* Every behaviour of createSemaphore is a behaviour of BoundedGrants.
THEOREM Implements == Spec => Refinement
BY InitRefines, NextRefines, Inductive, PTL DEF Spec, Refinement, Abstract!Spec

-----------------------------------------------------------------------------

(* FanOut.  An item holds an unused closure while it works and a used one    *)
(* when it is over; while the items enter, none has got further than a       *)
(* grant; and a call that has returned left because all items were over or,  *)
(* for map and foreach, because one was rejected.                            *)

ItemsTyped == /\ use \in Uses
              /\ stage \in [Callers -> Stages]
              /\ end \in [Callers -> Ends]
              /\ stop \in BOOLEAN
              /\ outcome \in {"none", "entering", "pending", "ok", "failed", "suspended"}

DirectHasNoItems == use = "direct" => outcome = "none" /\ \A c \in Callers : stage[c] = "queued"

ItemsOwn ==
    use # "direct" => \A c \in Callers :
        /\ stage[c] \in {"running", "callback"} => phase[c] = "holding" /\ ~ released[c]
        /\ stage[c] = "over" => phase[c] = "holding" /\ released[c]
        /\ stage[c] = "queued" /\ phase[c] = "holding" => ~ released[c]

NobodyEarly ==
    outcome = "entering" => \A c \in Callers : stage[c] = "queued" /\ phase[c] # "holding"

Returned == outcome \in {"ok", "failed", "suspended"}

ReturnsInTime == Returned => AllOver \/ (use \in {"map", "foreach"} /\ Rejected # {})

FanInv == ItemsTyped /\ DirectHasNoItems /\ ItemsOwn /\ NobodyEarly /\ ReturnsInTime

\* tryGrant changes nobody but a suspended caller.
LEMMA GrantMoves ==
    ASSUME NEW a, NEW q, NEW p, NEW r, Sound(a, q, p, r), TryGrant(a, q, p)
    PROVE  \A c \in Callers : phase'[c] = p[c] \/ (p[c] = "waiting" /\ phase'[c] = "granted")
<1>1. CASE a < Permits /\ q # <<>>
  <2>1. phase' = [p EXCEPT ![Head(q)] = "granted"]
    BY <1>1 DEF TryGrant
  <2>2. 1 \in DOMAIN q /\ Head(q) = q[1] /\ q[1] \in Callers
    BY <1>1 DEF Sound, Typed
  <2>3. p[q[1]] = "waiting"
    BY <2>2 DEF Sound, Queued
  <2> QED BY <2>1, <2>2, <2>3 DEF Sound, Typed
<1>2. CASE ~ (a < Permits /\ q # <<>>)
  BY <1>2 DEF TryGrant
<1> QED BY <1>1, <1>2

\* acquire() up to its await: the caller waits or is granted at once.
LEMMA AcquireMoves ==
    ASSUME IInv, NEW c \in Callers, Acquire(c)
    PROVE  /\ phase'[c] \in {"waiting", "granted"}
           /\ \A d \in Callers : d # c => \/ phase'[d] = phase[d]
                                          \/ phase[d] = "waiting" /\ phase'[d] = "granted"
           /\ released' = released
<1> DEFINE p == [phase EXCEPT ![c] = "waiting"]
<1>1. Sound(active, Append(queue, c), p, released)
  BY PushSound DEF Acquire
<1>2. \A d \in Callers : phase'[d] = p[d] \/ (p[d] = "waiting" /\ phase'[d] = "granted")
  <2>1. TryGrant(active, Append(queue, c), p)
    BY DEF Acquire
  <2> HIDE DEF p
  <2> QED BY <1>1, <2>1, GrantMoves
<1>3. phase \in [Callers -> Phases]
  BY DEF IInv, Sound, Typed
<1> QED BY <1>2, <1>3 DEF Acquire

\* The first call of a closure.
LEMMA ReleaseMoves ==
    ASSUME IInv, NEW c \in Callers, Release(c), ~ released[c]
    PROVE  /\ phase'[c] = "holding" /\ released'[c]
           /\ \A d \in Callers : d # c => /\ released'[d] = released[d]
                                          /\ \/ phase'[d] = phase[d]
                                             \/ phase[d] = "waiting" /\ phase'[d] = "granted"
<1> DEFINE r == [released EXCEPT ![c] = TRUE]
<1>1. Sound(active - 1, queue, phase, r) /\ phase[c] = "holding"
  BY ReturnSound DEF Release
<1>2. \A d \in Callers : phase'[d] = phase[d] \/ (phase[d] = "waiting" /\ phase'[d] = "granted")
  BY <1>1, GrantMoves DEF Release
<1>3. released' = r
  BY DEF Release
<1> QED BY <1>1, <1>2, <1>3 DEF IInv, Sound, Typed

\* The programs only acquire, resume and release.
LEMMA FanUsesSemaphore == [FanNext]_fanVars => [Next]_vars
<1> SUFFICES ASSUME [FanNext]_fanVars PROVE [Next]_vars
  OBVIOUS
<1>1. CASE AbortSignal \/ Return
  BY <1>1 DEF AbortSignal, Return
<1>2. ASSUME NEW c \in Callers, Direct(c) \/ Enter(c) \/ Continue(c) PROVE [Next]_vars
  BY <1>2 DEF Direct, Enter, Continue, Next
<1>3. ASSUME NEW c \in Callers, Begin(c) \/ Finish(c) \/ Callback(c) PROVE [Next]_vars
  BY <1>3 DEF Begin, Finish, Callback, Next
<1>4. CASE UNCHANGED fanVars
  BY <1>4 DEF fanVars
<1> QED BY <1>1, <1>2, <1>3, <1>4 DEF FanNext

LEMMA FanInitInv == FanInit => IInv /\ FanInv
<1> SUFFICES ASSUME FanInit PROVE IInv /\ FanInv
  OBVIOUS
<1>1. IInv
  BY InitEstablishes DEF FanInit
<1>2. ItemsTyped
  BY DEF FanInit, ItemsTyped, Uses, Stages, Ends
<1>3. DirectHasNoItems /\ ItemsOwn /\ NobodyEarly
  BY DEF FanInit, Init, DirectHasNoItems, ItemsOwn, NobodyEarly
<1>4. ReturnsInTime
  BY DEF FanInit, ReturnsInTime, Returned
<1> QED BY <1>1, <1>2, <1>3, <1>4 DEF FanInv

\* An item that moves on, from a stage that is not the last: its own state is
\* as ItemsOwn wants it and the others have at most been granted.
LEMMA ItemMoves ==
    ASSUME FanInv, NEW c \in Callers, NEW s \in Stages, NEW e \in Ends, Move(c, s, e),
           use # "direct", outcome # "entering", stage[c] # "over",
           UNCHANGED <<use, outcome>>, stop' \in BOOLEAN,
           s \in {"running", "callback"} => phase'[c] = "holding" /\ ~ released'[c],
           s = "over" => phase'[c] = "holding" /\ released'[c],
           s # "queued",
           \A d \in Callers : d # c => /\ released'[d] = released[d]
                                       /\ \/ phase'[d] = phase[d]
                                          \/ phase[d] = "waiting" /\ phase'[d] = "granted"
    PROVE  FanInv'
<1>1. /\ stage' \in [Callers -> Stages] /\ end' \in [Callers -> Ends]
      /\ \A d \in Callers : stage'[d] = IF d = c THEN s ELSE stage[d]
      /\ \A d \in Callers : end'[d] = IF d = c THEN e ELSE end[d]
  BY DEF FanInv, ItemsTyped, Move
<1>2. ItemsTyped'
  BY <1>1 DEF FanInv, ItemsTyped
<1>3. DirectHasNoItems' /\ NobodyEarly'
  BY DEF DirectHasNoItems, NobodyEarly
<1>4. ItemsOwn'
  <2> SUFFICES ASSUME NEW d \in Callers PROVE ItemsOwn!2!(d)'
    BY DEF ItemsOwn
  <2>1. CASE d = c
    BY <1>1, <2>1
  <2>2. CASE d # c
    BY <1>1, <2>2 DEF FanInv, ItemsOwn
  <2> QED BY <2>1, <2>2
<1>5. ReturnsInTime'
  <2> SUFFICES ASSUME Returned' PROVE ReturnsInTime!2'
    BY DEF ReturnsInTime
  <2>1. Returned /\ ~ AllOver
    BY DEF Returned, AllOver
  <2>2. use \in {"map", "foreach"} /\ Rejected # {}
    BY <2>1 DEF FanInv, ReturnsInTime
  <2>3. PICK d \in Callers : d \in Rejected
    BY <2>2 DEF Rejected
  <2>4. d # c
    BY <2>3 DEF Rejected
  <2>5. d \in Rejected'
    BY <1>1, <2>3, <2>4 DEF Rejected
  <2> QED BY <2>2, <2>5
<1> QED BY <1>2, <1>3, <1>4, <1>5 DEF FanInv

LEMMA FanNextInv == IInv /\ FanInv /\ [FanNext]_fanVars => FanInv'
<1> SUFFICES ASSUME IInv, FanInv, [FanNext]_fanVars PROVE FanInv'
  OBVIOUS
<1>0. phase \in [Callers -> Phases] /\ released \in [Callers -> BOOLEAN]
  BY DEF IInv, Sound, Typed
\* Steps in which no item moves and the call does not return.
<1>1. ASSUME UNCHANGED <<use, stage, end, outcome>>, stop' \in BOOLEAN, ItemsOwn', NobodyEarly'
      PROVE  FanInv'
  <2>1. ItemsTyped' /\ DirectHasNoItems'
    BY <1>1 DEF FanInv, ItemsTyped, DirectHasNoItems
  <2>2. ReturnsInTime'
    BY <1>1 DEF FanInv, ReturnsInTime, Returned, AllOver, Rejected
  <2> QED BY <1>1, <2>1, <2>2 DEF FanInv
<1>2. CASE AbortSignal
  <2>1. ItemsOwn' /\ NobodyEarly'
    BY <1>2 DEF AbortSignal, vars, FanInv, ItemsOwn, NobodyEarly
  <2> QED BY <1>1, <1>2, <2>1 DEF AbortSignal
<1>3. CASE Return
  <2>1. /\ outcome = "pending" /\ outcome' \in {"ok", "failed", "suspended"}
        /\ UNCHANGED <<active, queue, phase, released, use, stage, end, stop>>
    BY <1>3 DEF Return, vars
  <2>2. use # "direct"
    BY <2>1 DEF FanInv, DirectHasNoItems
  <2>3. ItemsTyped' /\ DirectHasNoItems' /\ ItemsOwn' /\ NobodyEarly'
    BY <2>1, <2>2 DEF FanInv, ItemsTyped, DirectHasNoItems, ItemsOwn, NobodyEarly
  <2>4. AllOver \/ (use \in {"map", "foreach"} /\ Rejected # {})
    BY <1>3 DEF Return
  <2>5. ReturnsInTime'
    BY <2>1, <2>4 DEF ReturnsInTime, AllOver, Rejected
  <2> QED BY <2>3, <2>5 DEF FanInv
<1>4. ASSUME NEW c \in Callers, Direct(c) PROVE FanInv'
  <2>1. UNCHANGED <<use, stage, end, stop, outcome>> /\ use = "direct"
    BY <1>4 DEF Direct, fan
  <2>2. ItemsOwn' /\ NobodyEarly'
    BY <2>1 DEF FanInv, DirectHasNoItems, ItemsOwn, NobodyEarly
  <2> QED BY <1>1, <2>1, <2>2 DEF FanInv, ItemsTyped
<1>5. ASSUME NEW c \in Callers, Enter(c) PROVE FanInv'
  <2>1. /\ outcome = "entering" /\ outcome' \in {"entering", "pending"}
        /\ UNCHANGED <<use, stage, end, stop>> /\ Acquire(c)
    BY <1>5 DEF Enter
  <2>2. \A d \in Callers : stage[d] = "queued" /\ phase'[d] # "holding"
    BY <2>1, AcquireMoves DEF FanInv, NobodyEarly
  <2>3. use # "direct"
    BY <2>1 DEF FanInv, DirectHasNoItems
  <2>4. ItemsTyped' /\ DirectHasNoItems' /\ ItemsOwn' /\ NobodyEarly'
    BY <2>1, <2>2, <2>3 DEF FanInv, ItemsTyped, DirectHasNoItems, ItemsOwn, NobodyEarly
  <2>5. ReturnsInTime'
    BY <2>1 DEF ReturnsInTime, Returned
  <2> QED BY <2>4, <2>5 DEF FanInv
<1>6. ASSUME NEW c \in Callers, Continue(c) PROVE FanInv'
  <2>1. UNCHANGED <<use, stage, end, stop, outcome>> /\ outcome # "entering" /\ use # "direct"
    BY <1>6 DEF Continue, fan
  <2>2. /\ phase[c] = "granted" /\ phase'[c] = "holding" /\ ~ released'[c]
        /\ \A d \in Callers : d # c => phase'[d] = phase[d] /\ released'[d] = released[d]
    BY <1>0, <1>6 DEF Continue, Resume
  <2>3. stage[c] = "queued"
    BY <2>1, <2>2 DEF FanInv, ItemsOwn, ItemsTyped, Stages
  <2>4. ItemsOwn' /\ NobodyEarly'
    BY <2>1, <2>2, <2>3 DEF FanInv, ItemsOwn, NobodyEarly
  <2> QED BY <1>1, <2>1, <2>4 DEF FanInv, ItemsTyped
<1>7. ASSUME NEW c \in Callers, stage[c] \in {"running", "callback"}
      PROVE  use # "direct" /\ outcome # "entering" /\ phase[c] = "holding" /\ ~ released[c]
  BY <1>7 DEF FanInv, DirectHasNoItems, NobodyEarly, ItemsOwn
<1>8. ASSUME NEW c \in Callers, Begin(c) PROVE FanInv'
  <2>1. /\ use # "direct" /\ outcome # "entering" /\ phase[c] = "holding" /\ ~ released[c]
        /\ stage[c] = "queued" /\ UNCHANGED <<use, stop, outcome>>
    BY <1>8 DEF Begin, FanInv, NobodyEarly, ItemsOwn
  <2>2. CASE Move(c, "callback", "aborted") /\ UNCHANGED vars
    BY <2>1, <2>2, ItemMoves DEF vars, Stages, Ends, FanInv, ItemsTyped
  <2>3. CASE Move(c, "over", "aborted") /\ Release(c)
    BY <2>1, <2>3, ItemMoves, ReleaseMoves DEF Stages, Ends, FanInv, ItemsTyped
  <2>4. CASE Move(c, "running", "none") /\ UNCHANGED vars
    BY <2>1, <2>4, ItemMoves DEF vars, Stages, Ends, FanInv, ItemsTyped
  <2> QED BY <1>8, <2>2, <2>3, <2>4 DEF Begin
<1>9. ASSUME NEW c \in Callers, Finish(c) PROVE FanInv'
  <2>1. PICK e \in WorkEnds : Move(c, IF use = "batch" THEN "callback" ELSE "over", e)
    BY <1>9 DEF Finish
  <2>2. e \in Ends
    BY DEF WorkEnds, Ends
  <2>3. /\ use # "direct" /\ outcome # "entering" /\ phase[c] = "holding" /\ ~ released[c]
        /\ stage[c] = "running" /\ UNCHANGED <<use, stop, outcome>>
    BY <1>7, <1>9 DEF Finish
  <2>4. CASE use = "batch"
    <3>1. Move(c, "callback", e) /\ UNCHANGED vars
      BY <1>9, <2>1, <2>4 DEF Finish
    <3> QED BY <2>2, <2>3, <3>1, ItemMoves DEF vars, Stages, FanInv, ItemsTyped
  <2>5. CASE use # "batch"
    <3>1. Move(c, "over", e) /\ Release(c)
      BY <1>9, <2>1, <2>5 DEF Finish
    <3> QED BY <2>2, <2>3, <3>1, ItemMoves, ReleaseMoves DEF Stages, FanInv, ItemsTyped
  <2> QED BY <2>4, <2>5
<1>10. ASSUME NEW c \in Callers, Callback(c) PROVE FanInv'
  <2>1. /\ use # "direct" /\ outcome # "entering" /\ ~ released[c]
        /\ stage[c] = "callback" /\ UNCHANGED <<use, stop, outcome>>
        /\ Move(c, "over", end[c]) /\ Release(c) /\ end[c] \in Ends
    BY <1>7, <1>10 DEF Callback, FanInv, ItemsTyped
  <2> QED BY <2>1, ItemMoves, ReleaseMoves DEF Stages, FanInv, ItemsTyped
<1>11. CASE UNCHANGED fanVars
  <2>1. UNCHANGED <<phase, released, use, stage, end, stop, outcome>>
    BY <1>11 DEF fanVars, vars, fan
  <2>2. ItemsOwn' /\ NobodyEarly'
    BY <2>1 DEF FanInv, ItemsOwn, NobodyEarly
  <2> QED BY <1>1, <2>1, <2>2 DEF FanInv, ItemsTyped
<1> QED BY <1>2, <1>3, <1>4, <1>5, <1>6, <1>8, <1>9, <1>10, <1>11 DEF FanNext

LEMMA FanInductive == FanSpec => [](IInv /\ FanInv)
<1>1. FanInit => IInv /\ FanInv
  BY FanInitInv
<1>2. IInv /\ FanInv /\ [FanNext]_fanVars => (IInv /\ FanInv)'
  BY FanUsesSemaphore, FanNextInv, NextPreserves
<1> QED BY <1>1, <1>2, PTL DEF FanSpec

\* Type correctness of the semaphore in use and of the items in front of it.
THEOREM FanTypeCorrect == FanSpec => []FanTypeOK
<1>1. IInv /\ FanInv => FanTypeOK
  BY DEF IInv, Sound, Typed, TypeOK, FanInv, ItemsTyped, FanTypeOK
<1> QED BY <1>1, FanInductive, PTL

\* An item of Agent.batch, mapWithConcurrency or a workflow step owns a permit
\* for all of its work, so at most Permits of them overlap.
THEOREM WorkIsPermitted == FanSpec => []PermitSpansWork
<1>1. IInv /\ FanInv => PermitSpansWork
  <2> SUFFICES ASSUME IInv, FanInv PROVE PermitSpansWork
    OBVIOUS
  <2> DEFINE busy == {c \in Callers : stage[c] \in {"running", "callback"}}
  <2>1. busy \subseteq Holders
    BY DEF FanInv, DirectHasNoItems, ItemsOwn, Holders
  <2>2. Holders = OwnersIn(phase, released)
    BY DEF Holders, OwnersIn
  <2>3. IsFiniteSet(Holders) /\ active = Cardinality(Holders) /\ active \in 0..Permits
    BY <2>2 DEF IInv, Sound, Counted, Typed
  <2>4. IsFiniteSet(busy) /\ Cardinality(busy) <= Cardinality(Holders)
    BY <2>1, <2>3, FS_Subset
  <2>5. Cardinality(busy) \in Nat /\ Permits \in Nat
    BY <2>4, FS_CardinalityType, PermitsAssumption
  <2>6. Cardinality(busy) <= Permits
    BY <2>3, <2>4, <2>5
  <2> QED BY <2>1, <2>6 DEF PermitSpansWork
<1> QED BY <1>1, FanInductive, PTL

\* When Agent.batch or a parallel step has returned, no permit is out and
\* nobody waits for one.
THEOREM NothingLeftBehind == FanSpec => []NoStragglers
<1>1. IInv /\ FanInv => NoStragglers
  <2> SUFFICES ASSUME IInv, FanInv, Returned, ~ (use \in {"map", "foreach"} /\ Rejected # {})
               PROVE  Holders = {} /\ queue = <<>>
    BY DEF NoStragglers, Returned
  <2>1. AllOver /\ use # "direct"
    BY DEF FanInv, ReturnsInTime, DirectHasNoItems, Returned
  <2>2. \A c \in Callers : phase[c] = "holding" /\ released[c]
    BY <2>1 DEF FanInv, ItemsOwn, AllOver
  <2>3. Holders = {}
    BY <2>2 DEF Holders
  <2>4. ASSUME queue # <<>> PROVE FALSE
    <3>1. 1 \in DOMAIN queue /\ queue[1] \in Callers
      BY <2>4 DEF IInv, Sound, Typed
    <3>2. phase[queue[1]] = "waiting"
      BY <3>1 DEF IInv, Sound, Queued
    <3> QED BY <2>2, <3>1, <3>2
  <2> QED BY <2>3, <2>4
<1> QED BY <1>1, FanInductive, PTL

\* The semaphore implements BoundedGrants in each of the programs too.
THEOREM FanImplements == FanSpec => Refinement
<1>1. FanSpec => Spec
  BY FanUsesSemaphore, PTL DEF FanSpec, FanInit, Spec
<1> QED BY <1>1, Implements, PTL

=============================================================================
