--------------------------- MODULE AsyncSemaphore ---------------------------
(***************************************************************************)
(* createSemaphore (internal/concurrency/async-semaphore.ts): the gate     *)
(* behind Agent.batch, mapWithConcurrency and the task registry.           *)
(*                                                                         *)
(* The program is single threaded, so a step is one synchronous stretch of *)
(* JavaScript between two awaits.  acquire() runs up to its await in one   *)
(* stretch (Acquire); the continuation that builds the release closure     *)
(* runs later (Resume), in any order among the resolved callers; the       *)
(* closure may be called, also more than once, at any time after           *)
(* (Release).  A caller that has returned its permit may come back with a  *)
(* new call, which gets a new closure.                                     *)
(***************************************************************************)
EXTENDS Naturals, Sequences, FiniteSets

CONSTANTS Callers,   (* the callers of acquire()           *)
          Permits    (* the argument of createSemaphore    *)

\* The constructor rejects anything else (invalid_concurrency).
ASSUME PermitsAssumption == Permits \in Nat \ {0}

VARIABLES active,    (* the counter of permits in flight                     *)
          queue,     (* the resolvers of the callers that wait, oldest first *)
          phase,     (* where each caller stands in acquire()                *)
          released   (* the released flag of each caller's latest closure    *)

vars == <<active, queue, phase, released>>

(* idle:    no call outstanding and no closure held                          *)
(* waiting: acquire() is suspended and its resolver is in the queue          *)
(* granted: resolved by tryGrant, its continuation has not run yet           *)
(* holding: acquire() has returned the release closure                       *)
Phases == {"idle", "waiting", "granted", "holding"}

-----------------------------------------------------------------------------

Init == /\ active = 0
        /\ queue = <<>>
        /\ phase = [c \in Callers |-> "idle"]
        /\ released = [c \in Callers |-> FALSE]

\* Fault: the bound is compared with <= instead of <.
TryGrant_OffByOne(a, q, p) ==
    IF a <= Permits /\ q # <<>>
    THEN /\ active' = a + 1
         /\ queue' = Tail(q)
         /\ phase' = [p EXCEPT ![Head(q)] = "granted"]
    ELSE /\ active' = a
         /\ queue' = q
         /\ phase' = p

\* Fault: pop instead of shift, so the youngest waiter goes first.
TryGrant_Newest(a, q, p) ==
    IF a < Permits /\ q # <<>>
    THEN /\ active' = a + 1
         /\ queue' = SubSeq(q, 1, Len(q) - 1)
         /\ phase' = [p EXCEPT ![q[Len(q)]] = "granted"]
    ELSE /\ active' = a
         /\ queue' = q
         /\ phase' = p

\* tryGrant on counter a, resolver queue q and phases p: shift one resolver
\* and count it, if there is a free permit and somebody to give it to.
TryGrant(a, q, p) ==
    IF a < Permits /\ q # <<>>
    THEN /\ active' = a + 1
         /\ queue' = Tail(q)
         /\ phase' = [p EXCEPT ![Head(q)] = "granted"]
    ELSE /\ active' = a
         /\ queue' = q
         /\ phase' = p

\* acquire() up to its await: push the resolver, then try to grant.
Acquire(c) ==
    /\ \/ phase[c] = "idle"
       \/ phase[c] = "holding" /\ released[c]
    /\ TryGrant(active, Append(queue, c), [phase EXCEPT ![c] = "waiting"])
    /\ UNCHANGED released

\* The continuation of acquire(): a fresh closure with its own flag.
Resume(c) ==
    /\ phase[c] = "granted"
    /\ phase' = [phase EXCEPT ![c] = "holding"]
    /\ released' = [released EXCEPT ![c] = FALSE]
    /\ UNCHANGED <<active, queue>>

\* A call of the release closure; every call after the first returns early.
Release(c) ==
    /\ phase[c] = "holding"
    /\ IF released[c]
       THEN UNCHANGED vars
       ELSE /\ released' = [released EXCEPT ![c] = TRUE]
            /\ TryGrant(active - 1, queue, phase)

Next == \E c \in Callers : Acquire(c) \/ Resume(c) \/ Release(c)

Spec == Init /\ [][Next]_vars

\* The JavaScript runtime runs the continuation of a resolved promise, and a
\* caller releases in a finally block.  Nobody is obliged to call acquire().
Fairness == \A c \in Callers : WF_vars(Resume(c)) /\ WF_vars(Release(c))

FairSpec == Spec /\ Fairness

-----------------------------------------------------------------------------

\* The callers that own a permit.
Holders == {c \in Callers : \/ phase[c] = "granted"
                            \/ phase[c] = "holding" /\ ~ released[c]}

\* Type of the semaphore's state (createSemaphore).
TypeOK ==
    /\ active \in 0..Permits
    /\ queue \in Seq(Callers)
    /\ phase \in [Callers -> Phases]
    /\ released \in [Callers -> BOOLEAN]

\* The counter counts the owners of permits, whatever the order of releases,
\* repeated releases and new calls: no permit leaks and none is made up.
CounterCountsHolders == active = Cardinality(Holders)

\* The queue holds exactly the suspended callers, each of them once, so that
\* no resolver is lost and none is called twice.
QueueIsWaiters ==
    /\ \A i, j \in DOMAIN queue : queue[i] = queue[j] => i = j
    /\ \A c \in Callers : phase[c] = "waiting" <=> \E i \in DOMAIN queue : queue[i] = c

\* tryGrant is called once per push and once per release: that is enough for
\* nobody to wait while a permit is free.
WorkConserving == queue # <<>> => active = Permits

\* The semaphore implements the abstract specification: a caller is inside
\* from the moment tryGrant counts it to its first call of the closure.
Abstract == INSTANCE BoundedGrants WITH inside <- Holders, waiting <- queue

Refinement == Abstract!Spec

\* A caller that asks is served, provided those that hold permits release
\* them: the FIFO order of the resolver queue leaves no room for starvation.
EveryWaiterServed == \A c \in Callers : phase[c] = "waiting" ~> phase[c] = "holding"

=============================================================================
