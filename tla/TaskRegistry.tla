---------------------------- MODULE TaskRegistry ----------------------------
(***************************************************************************)
(* The task registry (internal/task/registry.ts) on its default, in-memory *)
(* store: submit, the run it starts, cancel, the caller's AbortSignal and  *)
(* the eviction timer.                                                     *)
(*                                                                         *)
(* Everything runs on one thread, so an action is the stretch between two  *)
(* awaits.  Each submit() and each cancel() is a process of its own; their *)
(* stretches interleave in any order.  The slots are the promise of the    *)
(* semaphore (BoundedGrants, which AsyncSemaphore is proved to implement). *)
(***************************************************************************)
EXTENDS Naturals, Sequences, FiniteSets

CONSTANTS Submits,     (* the submit() calls                                   *)
          Cancels,     (* the cancel() calls                                   *)
          Ids,         (* the task ids                                         *)
          IdOf,        (* the id each submit() call asks for                   *)
          Parent,      (* the submit() whose work makes this call, or NoSubmit *)
          Signalled,   (* the submit() calls that pass an AbortSignal          *)
          Cap,         (* maxConcurrent                                        *)
          MaxEvictions,(* bound on the evictions of a behaviour                *)
          NoSubmit     (* not a submit() call                                  *)

ASSUME ConstantsAssumption ==
    /\ Cap \in Nat \ {0}
    /\ MaxEvictions \in Nat
    /\ IdOf \in [Submits -> Ids]
    /\ NoSubmit \notin Submits
    /\ Parent \in [Submits -> Submits \cup {NoSubmit}]
    /\ Signalled \subseteq Submits

VARIABLES store,       (* state of the handle stored under each id, or "absent" *)
          aborter,     (* state.aborters: whose AbortController an id names     *)
          log,         (* state.buffers: the lifecycle events of the latest run *)
          pc,          (* where each submit() and its run stand                 *)
          outcome,     (* the terminal state a run has decided on               *)
          aborted,     (* the runs whose AbortController has been aborted       *)
          fired,       (* the callers' AbortSignals that have fired             *)
          cancel,      (* where each cancel() stands, for which id              *)
          inside,      (* the runs that hold a slot of the semaphore            *)
          waiting,     (* the runs that wait for one                            *)
          evictions    (* evictions so far                                      *)

vars == <<store, aborter, log, pc, outcome, aborted, fired, cancel, inside,
          waiting, evictions>>

submitVars == <<pc, outcome>>
slotVars == <<inside, waiting>>

Terminal == {"finished", "error", "cancelled"}
States == {"absent", "queued", "running"} \cup Terminal

(* absent:    store.get found nothing      acquiring: in acquireSlot()        *)
(* joined:    returned the stored handle   starting:  passed the start check  *)
(* inserted:  queued handle stored         marked:    stored as running       *)
(* announced: submitted event emitted      working:   work has been invoked   *)
(* shorted:   pre-aborted, stored so       ending:    outcome decided         *)
(* told:      outcome stored               done:      run over, slot returned *)
Steps == {"unborn", "absent", "joined", "inserted", "announced", "shorted", "acquiring",
          "starting", "marked", "working", "ending", "told", "done"}

Sem == INSTANCE BoundedGrants WITH Callers <- Submits, Permits <- Cap

\* A call made inside a work function carries the AsyncLocalStorage marker.
Reentrant(s) == Parent[s] # NoSubmit

Settled(s) == pc[s] \in {"done", "joined"}

-----------------------------------------------------------------------------

Init ==
    /\ store = [id \in Ids |-> "absent"]
    /\ aborter = [id \in Ids |-> NoSubmit]
    /\ log = [id \in Ids |-> <<>>]
    /\ pc = [s \in Submits |-> "unborn"]
    /\ outcome = [s \in Submits |-> "none"]
    /\ aborted = {}
    /\ fired = {}
    /\ cancel = [c \in Cancels |-> [step |-> "idle"]]
    /\ Sem!Init
    /\ evictions = 0

Goto(s, step) == pc' = [pc EXCEPT ![s] = step]

\* InMemoryTaskStore.update: nothing happens to an id that is not there.
Update(id, state) ==
    store' = [store EXCEPT ![id] = IF @ = "absent" THEN @ ELSE state]

\* emitToSubscribers, as the ring buffer sees it, if the id has one: an empty
\* log stands for no buffer, since a buffer starts with the submitted event.
Emit(id, event) ==
    log' = [log EXCEPT ![id] = IF @ = <<>> THEN @ ELSE Append(@, event)]

\* submit() up to the answer of store.get, the single-flight lookup.
SubmitLookup(s) ==
    /\ pc[s] = "unborn"
    /\ Reentrant(s) => pc[Parent[s]] = "working"
    /\ Goto(s, IF store[IdOf[s]] = "absent" THEN "absent" ELSE "joined")
    /\ UNCHANGED <<store, aborter, log, outcome, aborted, fired, cancel, slotVars, evictions>>

\* buildAndInsertQueued: the stored handle is replaced, whatever it was.
SubmitInsert(s) ==
    /\ pc[s] = "absent"
    /\ store' = [store EXCEPT ![IdOf[s]] = "queued"]
    /\ Goto(s, "inserted")
    /\ UNCHANGED <<aborter, log, outcome, aborted, fired, cancel, slotVars, evictions>>

SubmitAnnounce(s) ==
    /\ pc[s] = "inserted"
    /\ log' = [log EXCEPT ![IdOf[s]] = <<"submitted">>]
    /\ Goto(s, "announced")
    /\ UNCHANGED <<store, aborter, outcome, aborted, fired, cancel, slotVars, evictions>>

\* shortCircuitAborted, for a signal that is already aborted.
SubmitShortCircuit(s) ==
    /\ pc[s] = "announced"
    /\ s \in fired
    /\ store' = [store EXCEPT ![IdOf[s]] = "cancelled"]
    /\ Goto(s, "shorted")
    /\ UNCHANGED <<aborter, log, outcome, aborted, fired, cancel, slotVars, evictions>>

ShortCircuitTell(s) ==
    /\ pc[s] = "shorted"
    /\ log' = [log EXCEPT ![IdOf[s]] = <<"submitted", "cancelled">>]
    /\ Goto(s, "done")
    /\ UNCHANGED <<store, aborter, outcome, aborted, fired, cancel, slotVars, evictions>>

\* Fault: the reentrant call queues for a slot like any other.
SubmitAcquire_NoBypass(s) ==
    /\ pc[s] = "announced"
    /\ s \notin fired
    /\ aborter' = [aborter EXCEPT ![IdOf[s]] = s]
    /\ Sem!Arrive(s)
    /\ Goto(s, "acquiring")
    /\ UNCHANGED <<store, log, outcome, aborted, fired, cancel, evictions>>

\* Register the AbortController, listen to the signal and ask for a slot;
\* a reentrant call goes ahead without one.
SubmitAcquire(s) ==
    /\ pc[s] = "announced"
    /\ s \notin fired
    /\ aborter' = [aborter EXCEPT ![IdOf[s]] = s]
    /\ IF Reentrant(s) THEN UNCHANGED slotVars ELSE Sem!Arrive(s)
    /\ Goto(s, "acquiring")
    /\ UNCHANGED <<store, log, outcome, aborted, fired, cancel, evictions>>

\* Fault: the run starts without waiting for its slot.
StartCheck_NoAwait(s) ==
    /\ pc[s] = "acquiring"
    /\ IF s \in aborted
       THEN /\ outcome' = [outcome EXCEPT ![s] = "cancelled"]
            /\ Goto(s, "ending")
       ELSE /\ Goto(s, "starting")
            /\ UNCHANGED outcome
    /\ UNCHANGED <<store, aborter, log, aborted, fired, cancel, slotVars, evictions>>

\* The run begins: checkCancelRequestedAt (the in-memory handle never carries
\* cancelRequested), then the look at the AbortController.
StartCheck(s) ==
    /\ pc[s] = "acquiring"
    /\ Reentrant(s) \/ s \in inside
    /\ IF s \in aborted
       THEN /\ outcome' = [outcome EXCEPT ![s] = "cancelled"]
            /\ Goto(s, "ending")
       ELSE /\ Goto(s, "starting")
            /\ UNCHANGED outcome
    /\ UNCHANGED <<store, aborter, log, aborted, fired, cancel, slotVars, evictions>>

MarkRunning(s) ==
    /\ pc[s] = "starting"
    /\ Update(IdOf[s], "running")
    /\ Goto(s, "marked")
    /\ UNCHANGED <<aborter, log, outcome, aborted, fired, cancel, slotVars, evictions>>

\* The started event, and the invocation of the work function.
StartWork(s) ==
    /\ pc[s] = "marked"
    /\ Emit(IdOf[s], "started")
    /\ Goto(s, "working")
    /\ UNCHANGED <<store, aborter, outcome, aborted, fired, cancel, slotVars, evictions>>

\* The work function returns or throws; it awaits the tasks it has submitted.
\* runWorkAndFinalize looks at the AbortController before the result.
WorkEnds(s) ==
    /\ pc[s] = "working"
    /\ \A t \in Submits : Parent[t] = s => pc[t] = "unborn" \/ Settled(t)
    /\ \E result \in {"finished", "error"} :
         outcome' = [outcome EXCEPT ![s] = IF s \in aborted THEN "cancelled" ELSE result]
    /\ Goto(s, "ending")
    /\ UNCHANGED <<store, aborter, log, aborted, fired, cancel, slotVars, evictions>>

MarkTerminal(s) ==
    /\ pc[s] = "ending"
    /\ Update(IdOf[s], outcome[s])
    /\ Goto(s, "told")
    /\ UNCHANGED <<aborter, log, outcome, aborted, fired, cancel, slotVars, evictions>>

\* Fault: the slot is returned on the paths that ran the work only.
Settle_Leak(s) ==
    /\ pc[s] = "told"
    /\ Emit(IdOf[s], outcome[s])
    /\ IF Reentrant(s) \/ outcome[s] = "cancelled" THEN UNCHANGED slotVars ELSE Sem!Depart(s)
    /\ aborter' = [aborter EXCEPT ![IdOf[s]] = NoSubmit]
    /\ Goto(s, "done")
    /\ UNCHANGED <<store, outcome, aborted, fired, cancel, evictions>>

\* The terminal event, then the finally block: release the slot and forget the
\* AbortController registered under the id, whoever put it there.
Settle(s) ==
    /\ pc[s] = "told"
    /\ Emit(IdOf[s], outcome[s])
    /\ IF Reentrant(s) THEN UNCHANGED slotVars ELSE Sem!Depart(s)
    /\ aborter' = [aborter EXCEPT ![IdOf[s]] = NoSubmit]
    /\ Goto(s, "done")
    /\ UNCHANGED <<store, outcome, aborted, fired, cancel, evictions>>

-----------------------------------------------------------------------------

\* cancel() up to the answer of store.get, on which it decides.
CancelLookup(c, id) ==
    /\ cancel[c].step = "idle"
    /\ cancel' = [cancel EXCEPT ![c] =
         [id |-> id,
          step |-> CASE store[id] = "absent" -> "unknown"
                     [] store[id] = "queued" -> "sawQueued"
                     [] store[id] = "running" -> "sawRunning"
                     [] OTHER -> "alreadyTerminal"]]
    /\ UNCHANGED <<store, aborter, log, submitVars, aborted, fired, slotVars, evictions>>

CancelStep(c, step) == cancel' = [cancel EXCEPT ![c].step = step]

\* cancelInternal on a task that was queued when it looked: transition ...
CancelQueuedMark(c) ==
    /\ cancel[c].step = "sawQueued"
    /\ Update(cancel[c].id, "cancelled")
    /\ CancelStep(c, "markedCancelled")
    /\ UNCHANGED <<aborter, log, submitVars, aborted, fired, slotVars, evictions>>

\* ... then the event; the AbortController is forgotten, not aborted.
CancelQueuedTell(c) ==
    /\ cancel[c].step = "markedCancelled"
    /\ Emit(cancel[c].id, "cancelled")
    /\ aborter' = [aborter EXCEPT ![cancel[c].id] = NoSubmit]
    /\ CancelStep(c, "cancelled")
    /\ UNCHANGED <<store, submitVars, aborted, fired, slotVars, evictions>>

\* Fault: cancel aborts without checking that there is an AbortController.
CancelRunning_NoGuard(c) ==
    /\ cancel[c].step = "sawRunning"
    /\ aborted' = aborted \cup {aborter[cancel[c].id]}
    /\ CancelStep(c, "cancelled")
    /\ UNCHANGED <<store, aborter, log, submitVars, fired, slotVars, evictions>>

\* cancelInternal on a task that was running when it looked.
CancelRunning(c) ==
    /\ cancel[c].step = "sawRunning"
    /\ aborted' = aborted \cup ({aborter[cancel[c].id]} \ {NoSubmit})
    /\ CancelStep(c, "cancelled")
    /\ UNCHANGED <<store, aborter, log, submitVars, fired, slotVars, evictions>>

\* The caller's AbortSignal fires; the listener is there once submit() has
\* gone past its check of the signal.
SignalFires(s) ==
    /\ s \in Signalled \ fired
    /\ ~ Settled(s)
    /\ fired' = fired \cup {s}
    /\ aborted' = IF pc[s] \in {"unborn", "absent", "inserted", "announced", "shorted"}
                  THEN aborted
                  ELSE aborted \cup {s}
    /\ UNCHANGED <<store, aborter, log, submitVars, cancel, slotVars, evictions>>

\* The eviction timer, for a handle whose retention is over: the store entry
\* goes, and then everything the registry keeps under an id without entry.
Evict(id) ==
    /\ evictions < MaxEvictions
    /\ store[id] \in Terminal
    /\ store' = [store EXCEPT ![id] = "absent"]
    /\ aborter' = [aborter EXCEPT ![id] = NoSubmit]
    /\ log' = [log EXCEPT ![id] = <<>>]
    /\ evictions' = evictions + 1
    /\ UNCHANGED <<submitVars, aborted, fired, cancel, slotVars>>

-----------------------------------------------------------------------------

Run(s) == \/ StartCheck(s) \/ MarkRunning(s) \/ StartWork(s)
          \/ WorkEnds(s) \/ MarkTerminal(s) \/ Settle(s)

Submit(s) == \/ SubmitInsert(s) \/ SubmitAnnounce(s) \/ SubmitShortCircuit(s)
             \/ ShortCircuitTell(s) \/ SubmitAcquire(s)

CancelRest(c) == CancelQueuedMark(c) \/ CancelQueuedTell(c) \/ CancelRunning(c)

Next == \/ \E s \in Submits : SubmitLookup(s) \/ Submit(s) \/ Run(s) \/ SignalFires(s)
        \/ \E c \in Cancels : CancelRest(c) \/ \E id \in Ids : CancelLookup(c, id)
        \/ \E id \in Ids : Evict(id)

Spec == Init /\ [][Next]_vars

\* Promises settle and their continuations run, and a work function ends once
\* the tasks it waits for have.  Nobody is obliged to submit, cancel or abort.
Fairness == /\ \A s \in Submits : WF_vars(Submit(s)) /\ WF_vars(Run(s))
            /\ \A c \in Cancels : WF_vars(CancelRest(c))

FairSpec == Spec /\ Fairness

-----------------------------------------------------------------------------

Cancellations == {[step |-> "idle"]} \cup
    [id : Ids, step : {"sawQueued", "sawRunning", "markedCancelled", "cancelled",
                       "alreadyTerminal", "unknown"}]

\* Type of the registry's state (InternalState and the runs in flight).
TypeOK ==
    /\ store \in [Ids -> States]
    /\ aborter \in [Ids -> Submits \cup {NoSubmit}]
    /\ log \in [Ids -> Seq({"submitted", "started"} \cup Terminal)]
    /\ pc \in [Submits -> Steps]
    /\ outcome \in [Submits -> Terminal \cup {"none"}]
    /\ aborted \in SUBSET Submits
    /\ fired \in SUBSET Signalled
    /\ cancel \in [Cancels -> Cancellations]
    /\ inside \in SUBSET Submits
    /\ waiting \in Seq(Submits)
    /\ evictions \in 0..MaxEvictions

\* The steps of a run that has been let in and has not left.
InSlot == {"starting", "marked", "working", "ending", "told"}

\* Every run that submit() let in holds its slot until it is over, on every
\* path (finished, thrown, aborted before the start), and nobody else does:
\* no slot leaks and none is used twice.
SlotsMatchRuns ==
    /\ \A s \in Submits : pc[s] \in InSlot /\ ~ Reentrant(s) => s \in inside
    /\ \A s \in inside : pc[s] \in InSlot \cup {"acquiring"} /\ ~ Reentrant(s)
    /\ \A i \in DOMAIN waiting : pc[waiting[i]] = "acquiring" /\ waiting[i] \notin inside

\* maxConcurrent bounds the work functions in flight, the reentrant ones aside.
WorkBounded == Cardinality({s \in Submits : pc[s] = "working" /\ ~ Reentrant(s)}) <= Cap

\* Nothing is in flight.
Quiet == /\ \A s \in Submits : pc[s] = "unborn" \/ Settled(s)
         /\ \A c \in Cancels : cancel[c].step \notin {"sawQueued", "sawRunning", "markedCancelled"}

\* Once nothing is in flight, whatever the order in which submits, cancels,
\* signals and evictions met, no handle is stuck in a live state, no slot is
\* taken, no AbortController is kept and every event stream has ended.
QuietIsClean ==
    Quiet => /\ \A id \in Ids : store[id] \in Terminal \cup {"absent"}
             /\ \A id \in Ids : log[id] # <<>> => log[id][Len(log[id])] \in Terminal
             /\ \A id \in Ids : aborter[id] = NoSubmit
             /\ inside = {} /\ waiting = <<>>

\* An AbortController is aborted for its own caller's signal or for a cancel()
\* of its own task: a cancellation never strikes another task.
AbortIsAddressed ==
    \A s \in aborted : \/ s \in fired
                       \/ \E c \in Cancels : cancel[c].step = "cancelled" /\ cancel[c].id = IdOf[s]

\* Every run comes to its end, also one that awaits tasks it has submitted
\* itself while all slots are taken (EC-11).
EveryRunEnds == \A s \in Submits : pc[s] = "inserted" ~> pc[s] = "done"

\* What task.ts says of submit: with an id that is taken, the existing handle
\* is returned and the work is not invoked again.
SingleFlight ==
    \A s, t \in Submits : s # t /\ IdOf[s] = IdOf[t] => ~ (pc[s] = "working" /\ pc[t] = "working")

=============================================================================
