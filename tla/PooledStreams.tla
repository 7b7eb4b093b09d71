----------------------------- MODULE PooledStreams -----------------------------
(***************************************************************************)
(* Model calls that share one credential pool: PoolAwareLlmClient          *)
(* (internal/llm/pool-aware-client.ts) inside RetryingLlmClient            *)
(* (internal/llm/retrying-client.ts), one client with a circuit breaker of *)
(* its own for each run, the runs of one batch over one CredentialPool.    *)
(*                                                                         *)
(* A client makes one call at a time.  Its pc:                             *)
(*   idle       between calls                                              *)
(*   start      RetryingLlmClient enters an attempt                        *)
(*   ready      the top of the select / probe / classify loop              *)
(*   waiting    asleep in pollUntilAvailable                               *)
(*   reselect   woken, about to select again                               *)
(*   probing    a request is out with a key; no first event yet            *)
(*   backoff    asleep after the first 429                                 *)
(*   streaming  the first event came, the rest is relayed                  *)
(*   pause      asleep between two attempts                                *)
(* Every await in the code ends a step here; what runs between two awaits  *)
(* is one step.  Selection and marking run under the pool's mutex without  *)
(* an await of their own, so each is a single step too.                    *)
(***************************************************************************)
EXTENDS CredentialPool

CONSTANTS Clients,
          Cancellers,   \* the clients whose caller may abort
          Strategies,   \* the strategies to consider
          MaxWait,      \* waitForAvailableMs
          MaxTimeouts,  \* failures in a row that trip a breaker
          BreakerRest,  \* how long a tripped breaker refuses calls
          MaxAttempts   \* RetryingLlmClient's attempts per call

ASSUME SomeClientsCancel == Cancellers \subseteq Clients
ASSUME BoundsArePositive == {MaxWait, MaxTimeouts, BreakerRest, MaxAttempts} \subseteq Nat \ {0}

VARIABLES
    strategy,  \* of the pool, fixed
    pool,      \* see CredentialPool
    pc,        \* what each client is doing
    key,       \* the key its request is out with
    retried,   \* hasRetried429
    attempt,   \* attempts made before this one
    aborted,   \* the call's signal
    wait,      \* time left to the deadline of waitForAvailable
    fails,     \* the breaker's consecutiveTimeouts
    tripped,   \* the breaker has a cooldownUntilMs
    cool,      \* time left until it
    passed     \* history: how often round_robin picked j since k's last turn, k healthy throughout

breaker == <<fails, tripped, cool>>
call    == <<retried, attempt, aborted, wait>>
vars    == <<strategy, pool, pc, key, call, breaker, passed>>

Steps == {"idle", "start", "ready", "waiting", "reselect", "probing", "backoff",
          "streaming", "pause"}

\* The client's program point, key and call state are well formed, and nothing
\* of a call outlives it (the generator's locals).  The pool's priorities follow
\* its order, in the middle of a rotation too: saving and loading, which sorts by
\* priority, keeps it.
TypeOK == /\ strategy \in Strategies
          /\ pool \in Pools
          /\ \A i, j \in DOMAIN pool.order :
                i < j => pool.rank[pool.order[i]] < pool.rank[pool.order[j]]
          /\ pc \in [Clients -> Steps]
          /\ key \in [Clients -> Keys \union {NoKey}]
          /\ retried \in [Clients -> BOOLEAN] /\ aborted \in [Clients -> BOOLEAN]
          /\ attempt \in [Clients -> 0 .. MaxAttempts - 1]
          /\ wait \in [Clients -> 0 .. MaxWait]
          /\ fails \in [Clients -> 0 .. MaxTimeouts]
          /\ tripped \in [Clients -> BOOLEAN]
          /\ cool \in [Clients -> 0 .. BreakerRest]
          /\ passed \in [Keys -> [Keys -> 0 .. 2]]
          /\ \A c \in Clients : (key[c] # NoKey) <=> (pc[c] = "probing")

Init == /\ strategy \in Strategies
        /\ pool = FreshPool
        /\ pc = [c \in Clients |-> "idle"]
        /\ key = [c \in Clients |-> NoKey]
        /\ retried = [c \in Clients |-> FALSE]
        /\ attempt = [c \in Clients |-> 0]
        /\ aborted = [c \in Clients |-> FALSE]
        /\ wait = [c \in Clients |-> 0]
        /\ fails = [c \in Clients |-> 0]
        /\ tripped = [c \in Clients |-> FALSE]
        /\ cool = [c \in Clients |-> 0]
        /\ passed = [k \in Keys |-> [j \in Keys |-> 0]]

-----------------------------------------------------------------------------
(* The pieces of a step.                                                   *)

Go(c, step) == pc' = [pc EXCEPT ![c] = step]

\* The call returns or throws: its generator's locals are gone.
EndCall(c) == /\ Go(c, "idle")
              /\ key' = [key EXCEPT ![c] = NoKey]
              /\ retried' = [retried EXCEPT ![c] = FALSE]
              /\ attempt' = [attempt EXCEPT ![c] = 0]
              /\ aborted' = [aborted EXCEPT ![c] = FALSE]
              /\ wait' = [wait EXCEPT ![c] = 0]

Turns(p, k) == [x \in Keys |-> [j \in Keys |->
                    IF x = k \/ x \notin Healthy(p) THEN 0
                    ELSE IF j = k THEN (IF passed[x][j] = 2 THEN 2 ELSE passed[x][j] + 1)
                    ELSE passed[x][j]]]

\* selectLocked on p picks k (or nothing).
Pick(p, s) == /\ s \in Selections(p, strategy)
              /\ pool' = s.pool
              /\ passed' = IF strategy = "round_robin" /\ s.key # NoKey
                           THEN Turns(p, s.key) ELSE passed

\* shouldSkip found the circuit closed, or its cooldown over.
CloseIfElapsed(c) == /\ tripped' = [tripped EXCEPT ![c] = FALSE]
                     /\ fails' = [fails EXCEPT ![c] = IF tripped[c] THEN 0 ELSE @]
                     /\ UNCHANGED cool

RecordSuccess(c) == /\ fails' = [fails EXCEPT ![c] = 0]
                    /\ tripped' = [tripped EXCEPT ![c] = FALSE]
                    /\ cool' = [cool EXCEPT ![c] = 0]

RecordTimeout(c) ==
    /\ fails' = [fails EXCEPT ![c] = @ + 1]
    /\ tripped' = [tripped EXCEPT ![c] = fails[c] + 1 >= MaxTimeouts]
    /\ cool' = [cool EXCEPT ![c] = IF fails[c] + 1 >= MaxTimeouts THEN BreakerRest ELSE @]

-----------------------------------------------------------------------------
(* One client's call.                                                      *)

Call(c) == /\ pc[c] = "idle"
           /\ Go(c, "start")
           /\ UNCHANGED <<strategy, pool, key, call, breaker, passed>>

CircuitOpen(c) == tripped[c] /\ cool[c] > 0

\* RetryingLlmClient looks at the signal, then the inner stream at its circuit.
Begin(c) ==
    /\ pc[c] = "start"
    /\ \/ (aborted[c] \/ CircuitOpen(c)) /\ EndCall(c) /\ UNCHANGED breaker
       \/ /\ ~aborted[c] /\ ~CircuitOpen(c)
          /\ Go(c, "ready")
          /\ CloseIfElapsed(c)
          /\ UNCHANGED <<key, call>>
    /\ UNCHANGED <<strategy, pool, passed>>

\* The top of the loop: give up on abort, otherwise select a key and send the
\* request; with every key resting, wait for one.
SelectKey(c) ==
    /\ pc[c] = "ready"
    /\ \/ aborted[c] /\ EndCall(c) /\ UNCHANGED <<pool, passed>>
       \/ /\ ~aborted[c]
          /\ \E s \in Selections(pool, strategy) :
                /\ Pick(pool, s)
                /\ key' = [key EXCEPT ![c] = s.key]
                /\ Go(c, IF s.key = NoKey THEN "waiting" ELSE "probing")
                /\ wait' = [wait EXCEPT ![c] = IF s.key = NoKey THEN MaxWait ELSE 0]
          /\ UNCHANGED <<retried, attempt, aborted>>
    /\ UNCHANGED <<strategy, breaker>>

\* Fault: the wait has no deadline.
WaitOver_NoDeadline(c) ==
    /\ pc[c] = "waiting"
    /\ \/ /\ aborted[c]
          /\ EndCall(c) /\ RecordTimeout(c) /\ UNCHANGED pool
       \/ /\ ~aborted[c] /\ Healthy(pool) # {}
          /\ Go(c, "reselect")
          /\ pool' = Healed(pool)
          /\ wait' = [wait EXCEPT ![c] = 0]
          /\ UNCHANGED <<key, retried, attempt, aborted, breaker>>
    /\ UNCHANGED <<strategy, passed>>

\* waitForAvailable looks, on entry and after each jittered sleep: abort and an
\* expired deadline end the wait with the pool exhausted, a healthy key ends it
\* with a second selection.
WaitOver(c) ==
    /\ pc[c] = "waiting"
    /\ \/ /\ aborted[c] \/ (wait[c] = 0 /\ Healthy(pool) = {})
          /\ EndCall(c) /\ RecordTimeout(c) /\ UNCHANGED pool
       \/ /\ ~aborted[c] /\ Healthy(pool) # {}
          /\ Go(c, "reselect")
          /\ pool' = Healed(pool)
          /\ wait' = [wait EXCEPT ![c] = 0]
          /\ UNCHANGED <<key, retried, attempt, aborted, breaker>>
    /\ UNCHANGED <<strategy, passed>>

\* The second selection does not wait again: what woke the client may be gone.
Reselect(c) ==
    /\ pc[c] = "reselect"
    /\ \E s \in Selections(pool, strategy) :
          /\ Pick(pool, s)
          /\ \/ s.key = NoKey /\ EndCall(c) /\ RecordTimeout(c)
             \/ /\ s.key # NoKey
                /\ Go(c, "probing")
                /\ key' = [key EXCEPT ![c] = s.key]
                /\ UNCHANGED <<call, breaker>>
    /\ UNCHANGED strategy

FirstEvent(c) ==
    /\ pc[c] = "probing"
    /\ Go(c, "streaming")
    /\ key' = [key EXCEPT ![c] = NoKey]
    /\ RecordSuccess(c)
    /\ UNCHANGED <<strategy, pool, call, passed>>

\* The first 429 of a round: nothing is marked, the loop retries after a pause.
RateLimited(c) ==
    /\ pc[c] = "probing" /\ ~retried[c]
    /\ Go(c, "backoff")
    /\ key' = [key EXCEPT ![c] = NoKey]
    /\ UNCHANGED <<strategy, pool, call, breaker, passed>>

BackoffOver(c) ==
    /\ pc[c] = "backoff"
    /\ Go(c, "ready")
    /\ retried' = [retried EXCEPT ![c] = TRUE]
    /\ UNCHANGED <<strategy, pool, key, attempt, aborted, wait, breaker, passed>>

\* A 401, 402 or 403, or a 429 after one already retried: the key rests and the
\* client goes round.  markExhaustedAndRotate selects a successor as well, which
\* the client drops: its turn in the order is spent all the same.
Rotate(c) ==
    /\ pc[c] = "probing"
    /\ \E window \in Windows :
          LET p == Marked(pool, key[c], window)
          IN  \E s \in Selections(p, strategy) : Pick(p, s)
    /\ Go(c, "ready")
    /\ key' = [key EXCEPT ![c] = NoKey]
    /\ retried' = [retried EXCEPT ![c] = FALSE]
    /\ UNCHANGED <<strategy, attempt, aborted, wait, breaker>>

\* Fault: one attempt too many.
Unreachable_OneMore(c) ==
    /\ pc[c] = "probing"
    /\ RecordTimeout(c)
    /\ \/ /\ attempt[c] <= MaxAttempts - 1
          /\ Go(c, "pause")
          /\ key' = [key EXCEPT ![c] = NoKey]
          /\ retried' = [retried EXCEPT ![c] = FALSE]
          /\ UNCHANGED <<attempt, aborted, wait>>
       \/ attempt[c] > MaxAttempts - 1 /\ EndCall(c)
    /\ UNCHANGED <<strategy, pool, passed>>

\* NetworkError: the pool does not help.  The outer client tries again unless
\* this was its last attempt; the locals of the inner stream are gone.
Unreachable(c) ==
    /\ pc[c] = "probing"
    /\ RecordTimeout(c)
    /\ \/ /\ attempt[c] < MaxAttempts - 1
          /\ Go(c, "pause")
          /\ key' = [key EXCEPT ![c] = NoKey]
          /\ retried' = [retried EXCEPT ![c] = FALSE]
          /\ UNCHANGED <<attempt, aborted, wait>>
       \/ attempt[c] = MaxAttempts - 1 /\ EndCall(c)
    /\ UNCHANGED <<strategy, pool, passed>>

PauseOver(c) ==
    /\ pc[c] = "pause"
    /\ Go(c, "start")
    /\ attempt' = [attempt EXCEPT ![c] = @ + 1]
    /\ UNCHANGED <<strategy, pool, key, retried, aborted, wait, breaker, passed>>

\* Any other error leaves the loop as it came: a rejected request, or the
\* AbortError of a cancelled one.
Raises(c) ==
    /\ pc[c] = "probing"
    /\ EndCall(c)
    /\ UNCHANGED <<strategy, pool, breaker, passed>>

\* Once an event was relayed nothing is retried, whatever the end.
StreamEnds(c) ==
    /\ pc[c] = "streaming"
    /\ EndCall(c)
    /\ UNCHANGED <<strategy, pool, breaker, passed>>

Abort(c) ==
    /\ c \in Cancellers /\ pc[c] # "idle" /\ ~aborted[c]
    /\ aborted' = [aborted EXCEPT ![c] = TRUE]
    /\ UNCHANGED <<strategy, pool, pc, key, retried, attempt, wait, breaker, passed>>

\* Time passes for every clock at once.
Tick ==
    LET older(f) == [c \in Clients |-> IF f[c] > 0 THEN f[c] - 1 ELSE 0]
    IN  /\ wait' = older(wait)
        /\ cool' = older(cool)
        /\ pool' = Aged(pool)
        /\ <<wait', cool', pool'>> # <<wait, cool, pool>>
        /\ UNCHANGED <<strategy, pc, key, retried, attempt, aborted, fails, tripped, passed>>

Settle(c) == FirstEvent(c) \/ Unreachable(c) \/ Raises(c)

Answer(c) == Settle(c) \/ RateLimited(c) \/ Rotate(c)

Advance(c) == \/ Begin(c) \/ SelectKey(c) \/ WaitOver(c) \/ Reselect(c)
              \/ BackoffOver(c) \/ PauseOver(c) \/ StreamEnds(c)

Next == \/ Tick
        \/ \E c \in Clients : \/ Call(c) \/ Begin(c) \/ SelectKey(c) \/ WaitOver(c) \/ Reselect(c)
                              \/ FirstEvent(c) \/ RateLimited(c) \/ BackoffOver(c) \/ Rotate(c)
                              \/ Unreachable(c) \/ PauseOver(c) \/ Raises(c) \/ StreamEnds(c)
                              \/ Abort(c)

\* Timers fire, streams end, and a provider that is asked again and again does
\* not answer "slow down" or "not you" for ever.
Fairness == /\ WF_vars(Tick)
            /\ \A c \in Clients : WF_vars(Advance(c)) /\ WF_vars(Answer(c)) /\ SF_vars(Settle(c))

Spec == Init /\ [][Next]_vars /\ Fairness

-----------------------------------------------------------------------------

\* A call gives up on the pool only when its caller aborted it or when every
\* key is resting at that very moment: never on the strength of an earlier look
\* at the pool, and never while an expired key waits to be noticed.
ExhaustedMeansResting ==
    [][\A c \in Clients :
          (pc[c] \in {"waiting", "reselect"} /\ pc'[c] = "idle")
             => aborted[c] \/ \A k \in Keys : pool.rest[k] > 0]_vars

\* Round robin is fair under concurrency, refusals and healing: no key is
\* picked twice while another stays healthy and waits for its turn.
NoKeyIsPassedTwice == \A k, j \in Keys : passed[k][j] <= 1

\* Every call comes to an end: no waiter sleeps for ever and no loop of retries,
\* rotations and waits goes on for ever.
EveryCallEnds == \A c \in Clients : pc[c] # "idle" ~> pc[c] = "idle"

=============================================================================
