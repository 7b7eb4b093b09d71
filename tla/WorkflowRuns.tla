---------------------------- MODULE WorkflowRuns ----------------------------
(***************************************************************************)
(* One workflow run, under a pinned run id, through Workflow.run and       *)
(* Workflow.resume (internal/workflow/executor.ts), the single-flight      *)
(* registry and the snapshot store.                                        *)
(*                                                                         *)
(* The calls are made on handles, the instances that commit() returns.     *)
(* Each has an identity of its own in the single-flight registry.  With    *)
(* the memory store all handles live in one process; with the json store   *)
(* each is a process of its own, and the directory is shared.  Handles of  *)
(* another workflow share the store too.                                   *)
(*                                                                         *)
(* A step of the model is a synchronous stretch of JavaScript between two  *)
(* awaits.  What a workflow step computes is left out: it completes, fails *)
(* or suspends.  A result is the index of its step; the shared state is    *)
(* the set of the steps that have written to it.                           *)
(***************************************************************************)
EXTENDS Naturals, Sequences, FiniteSets

CONSTANTS Calls,        (* calls of run and resume                           *)
          Fresh,        (* those that are calls of run                       *)
          Handles,      (* committed workflows                               *)
          Foreign,      (* those with another workflow's name                *)
          NumSteps,     (* length of the workflow                            *)
          Kinds,        (* the kind of each of its steps                     *)
          MaxAttempts,  (* each step's retry policy, 1 for none              *)
          MaxCrashes,   (* bound on the crashes of a behaviour               *)
          None

Steps == 1..NumSteps

ASSUME WorkflowAssumption ==
    /\ Fresh \subseteq Calls /\ Foreign \subseteq Handles
    /\ NumSteps \in Nat /\ MaxCrashes \in Nat
    /\ Kinds \in [Steps -> {"fn", "agent", "parallel", "branch", "foreach", "dowhile",
                            "sleep", "suspend"}]
    /\ MaxAttempts \in [Steps -> Nat \ {0}]
    /\ \A k \in Steps : MaxAttempts[k] > 1 => Kinds[k] \in {"fn", "agent"}

VARIABLES backend,      (* persistence of the workflow                       *)
          snap,         (* the snapshot stored under the run id, if any      *)
          flights,      (* handles with an entry in the flight registry      *)
          call,         (* what each call holds                              *)
          lived,        (* history: each run's completed steps in order, and *)
                        (* the steps that wrote to its state                 *)
          latest,       (* history: the latest call of run                   *)
          told,         (* history: runs whose end was reported to a caller  *)
          crashes,      (* history: number of crashes                        *)
          overlapped    (* history: two calls have overlapped                *)

vars == <<backend, snap, flights, call, lived, latest, told, crashes, overlapped>>

(* new        not called yet                                                 *)
(* deleting   resume has loaded the snapshot and awaits its deletion         *)
(* deleted    the deletion is done, the continuation has not run             *)
(* step       a step is being dispatched                                     *)
(* backoff    it threw and its retry policy sleeps                           *)
(* saving     the step suspended, the snapshot is being stored               *)
(* unwinding  the outcome is known, the flight is not released yet           *)
(* ended      the call has returned or thrown                                *)
Places == {"new", "deleting", "deleted", "step", "backoff", "saving", "unwinding", "ended"}

Executing(c) == call[c].pc \in {"step", "backoff", "saving", "unwinding"}
Active(c) == call[c].pc \notin {"new", "ended"}

\* What a snapshot holds: the step that suspended, the results before it, the
\* shared state, and (history) the call of run it goes back to.
Snapshots == [at: 1..NumSteps + 1, results: Seq(Steps), state: SUBSET Steps, of: Fresh]

ASSUME NoneAssumption == None \notin Snapshots

Idle(place) == [pc |-> place, on |-> None, memo |-> None, attempt |-> 1, aborted |-> FALSE]

Init == /\ backend \in {"memory", "json"}
        /\ snap = None
        /\ flights = {}
        /\ call = [c \in Calls |-> Idle("new")]
        /\ lived = [r \in Fresh |-> [done |-> <<>>, wrote |-> {}]]
        /\ latest = None
        /\ told = {}
        /\ crashes = 0
        /\ overlapped = FALSE

Goto(c, place) == call' = [call EXCEPT ![c].pc = place]

\* The call throws, or returns a run that has ended in the way named.
Leave(c, run, how) ==
    /\ call' = [call EXCEPT ![c] = Idle("ended")]
    /\ told' = IF how \in {"completed", "failed", "cancelled"} THEN told \cup {run} ELSE told

\* The same with the flight still to be released.
Unwind(c, how) ==
    /\ Goto(c, "unwinding")
    /\ told' = IF how \in {"completed", "failed", "cancelled"} THEN told \cup {call[c].memo.of} ELSE told

Meet == overlapped' = (overlapped \/ \E d \in Calls : Active(d))

-----------------------------------------------------------------------------

\* Fault: the registry entry is released when the acquisition was refused too.
ExecuteWorkflow_ReleasesAlways(c, h, m) ==
    \/ h \in flights /\ Leave(c, m.of, "throws") /\ flights' = flights \ {h}
    \/ h \notin flights /\ call[c].aborted /\ Leave(c, m.of, "cancelled") /\ UNCHANGED flights
    \/ h \notin flights /\ ~call[c].aborted /\ Leave(c, m.of, "failed") /\ UNCHANGED flights
    \/ /\ h \notin flights /\ ~call[c].aborted
       /\ flights' = flights \cup {h}
       /\ \E place \in {"step", "unwinding"} :
             /\ (place = "step") <=> (m.at \in Steps)
             /\ call' = [call EXCEPT ![c] = [@ EXCEPT !.pc = place, !.on = h, !.memo = m]]
             /\ told' = IF place = "step" THEN told ELSE told \cup {m.of}

\* executeWorkflow on handle h from memory m, up to the first step's await: it
\* throws if the handle has this run in flight, and returns at once for an
\* aborted signal, or for an input or a state that its schema rejects (on a
\* resume the workflow's input schema meets the resume payload).
ExecuteWorkflow(c, h, m) ==
    \/ h \in flights /\ Leave(c, m.of, "throws") /\ UNCHANGED flights
    \/ h \notin flights /\ call[c].aborted /\ Leave(c, m.of, "cancelled") /\ UNCHANGED flights
    \/ h \notin flights /\ ~call[c].aborted /\ Leave(c, m.of, "failed") /\ UNCHANGED flights
    \/ /\ h \notin flights /\ ~call[c].aborted
       /\ flights' = flights \cup {h}
       /\ \E place \in {"step", "unwinding"} :
             /\ (place = "step") <=> (m.at \in Steps)
             /\ call' = [call EXCEPT ![c] = [@ EXCEPT !.pc = place, !.on = h, !.memo = m]]
             /\ told' = IF place = "step" THEN told ELSE told \cup {m.of}

\* Workflow.run with the pinned run id.
Run(c, h) ==
    /\ c \in Fresh /\ call[c].pc = "new" /\ h \notin Foreign
    /\ ExecuteWorkflow(c, h, [at |-> 1, results |-> <<>>, state |-> {}, of |-> c])
    /\ IF h \in flights THEN UNCHANGED <<latest, overlapped>>
                        ELSE latest' = c /\ Meet
    /\ UNCHANGED <<backend, snap, lived, crashes>>

\* Workflow.resume up to the deletion.  It throws if there is no snapshot, and
\* for a snapshot of another workflow, an unknown step or a payload that does
\* not parse, which leave the snapshot alone.
Load(c, h) ==
    /\ c \in Calls \ Fresh /\ call[c].pc = "new"
    /\ \/ Leave(c, None, "throws") /\ UNCHANGED overlapped
       \/ /\ snap # None /\ h \notin Foreign
          /\ call' = [call EXCEPT ![c] = [@ EXCEPT !.pc = "deleting", !.on = h,
                                                   !.memo = [snap EXCEPT !.at = @ + 1]]]
          /\ Meet /\ UNCHANGED told
    /\ UNCHANGED <<backend, snap, flights, lived, latest, crashes>>

\* The store drops the snapshot; unlink may fail for a reason other than its
\* absence, and resume throws.
Delete(c) ==
    /\ call[c].pc = "deleting"
    /\ \/ snap' = None /\ Goto(c, "deleted") /\ UNCHANGED told
       \/ backend = "json" /\ Leave(c, None, "throws") /\ UNCHANGED snap
    /\ UNCHANGED <<backend, flights, lived, latest, crashes, overlapped>>

\* Fault: the results of the steps before the suspension are not restored.
Enter_Lossy(c) ==
    /\ call[c].pc = "deleted"
    /\ ExecuteWorkflow(c, call[c].on, [call[c].memo EXCEPT !.results = <<>>])
    /\ UNCHANGED <<backend, snap, lived, latest, crashes, overlapped>>

\* Resume goes on with the step after the one that suspended, under the run id
\* and with the results and the state of the snapshot.
Enter(c) ==
    /\ call[c].pc = "deleted"
    /\ ExecuteWorkflow(c, call[c].on, call[c].memo)
    /\ UNCHANGED <<backend, snap, lived, latest, crashes, overlapped>>

-----------------------------------------------------------------------------

Here(c) == call[c].memo.at

\* dispatchStep: how a step of each kind may end.  A parallel step takes the
\* sentinel of a branch that suspends for a failure, and collects it or fails;
\* a sleep fails only when it is aborted.  What an agent answers is external.
Outcomes(kind, stopped) ==
    CASE kind = "suspend" -> {"suspended"}
      [] kind \in {"agent", "parallel"} -> {"ok", "failed"}
      [] kind = "sleep" -> IF stopped THEN {"failed"} ELSE {"ok"}
      [] OTHER -> {"ok", "failed", "suspended"}

Ends(c) == Outcomes(Kinds[Here(c)], call[c].aborted)

\* The step returns; the loop looks at the signal before it starts the next,
\* and at the end the output schema decides.
StepCompletes(c) ==
    LET m == call[c].memo
        after == [m EXCEPT !.results = Append(@, m.at), !.state = @ \cup {m.at}, !.at = @ + 1]
        place == IF m.at < NumSteps /\ ~call[c].aborted THEN "step" ELSE "unwinding"
    IN  /\ call[c].pc = "step" /\ "ok" \in Ends(c)
        /\ call' = [call EXCEPT ![c] = [@ EXCEPT !.pc = place, !.memo = after, !.attempt = 1]]
        /\ told' = IF place = "step" THEN told ELSE told \cup {m.of}
        /\ lived' = [lived EXCEPT ![m.of] = [done |-> Append(@.done, m.at),
                                             wrote |-> @.wrote \cup {m.at}]]
        /\ UNCHANGED <<backend, snap, flights, latest, crashes, overlapped>>

\* The step throws or suspends, having written to the state.  withRetry does
\* not tell the two apart and goes on to the next attempt, which an aborted
\* signal turns into a failure.
StepThrows(c) ==
    LET m == call[c].memo
        last == call[c].attempt = MaxAttempts[m.at]
    IN  /\ call[c].pc = "step"
        /\ \E how \in {"failed", "suspended"} \cap Ends(c), place \in {"backoff", "saving", "unwinding"} :
              /\ place = IF ~last /\ ~call[c].aborted THEN "backoff"
                         ELSE IF last /\ how = "suspended" THEN "saving" ELSE "unwinding"
              /\ call' = [call EXCEPT ![c] = [@ EXCEPT !.pc = place,
                                                       !.memo = [m EXCEPT !.state = @ \cup {m.at}]]]
              /\ told' = IF place = "unwinding" THEN told \cup {m.of} ELSE told
        /\ lived' = [lived EXCEPT ![m.of].wrote = @ \cup {m.at}]
        /\ UNCHANGED <<backend, snap, flights, latest, crashes, overlapped>>

\* Fault: the catch block and the loop both count the attempt.
BackoffOver_Twice(c) ==
    /\ call[c].pc = "backoff"
    /\ \/ call[c].aborted /\ Unwind(c, "failed")
       \/ /\ ~call[c].aborted
          /\ call' = [call EXCEPT ![c] = [@ EXCEPT !.pc = "step", !.attempt = call[c].attempt + 2]]
          /\ UNCHANGED told
    /\ UNCHANGED <<backend, snap, flights, lived, latest, crashes, overlapped>>

\* The pause before the next attempt is over, or was cut short by the signal.
BackoffOver(c) ==
    /\ call[c].pc = "backoff"
    /\ \/ call[c].aborted /\ Unwind(c, "failed")
       \/ /\ ~call[c].aborted
          /\ call' = [call EXCEPT ![c] = [@ EXCEPT !.pc = "step", !.attempt = call[c].attempt + 1]]
          /\ UNCHANGED told
    /\ UNCHANGED <<backend, snap, flights, lived, latest, crashes, overlapped>>

\* Fault: a snapshot that could not be stored is reported as a suspension.
SaveSnapshot_Unchecked(c) ==
    /\ call[c].pc = "saving"
    /\ snap' \in {snap, call[c].memo} /\ Unwind(c, "suspended")
    /\ UNCHANGED <<backend, flights, lived, latest, crashes, overlapped>>

\* handleSuspend stores the snapshot; when it cannot (a value that does not
\* serialise, a disk error) the run has failed.
SaveSnapshot(c) ==
    /\ call[c].pc = "saving"
    /\ \/ snap' = call[c].memo /\ Unwind(c, "suspended")
       \/ UNCHANGED snap /\ Unwind(c, "failed")
    /\ UNCHANGED <<backend, flights, lived, latest, crashes, overlapped>>

\* The finally block of executeWorkflow.
Return(c) == /\ call[c].pc = "unwinding"
             /\ call' = [call EXCEPT ![c] = Idle("ended")]
             /\ flights' = flights \ {call[c].on}
             /\ UNCHANGED <<backend, snap, lived, latest, told, crashes, overlapped>>

\* The caller's signal, before the call or while it goes on.
Abort(c) == /\ call[c].pc \notin {"unwinding", "ended"} /\ ~call[c].aborted
            /\ call' = [call EXCEPT ![c].aborted = TRUE]
            /\ UNCHANGED <<backend, snap, flights, lived, latest, told, crashes, overlapped>>

\* A process dies: all handles share it under the memory store, and the
\* snapshot goes with it.
Crash(h) ==
    LET dead == IF backend = "memory" THEN Handles ELSE {h}
    IN  /\ crashes < MaxCrashes
        /\ crashes' = crashes + 1
        /\ call' = [c \in Calls |-> IF Active(c) /\ call[c].on \in dead THEN Idle("ended") ELSE call[c]]
        /\ flights' = flights \ dead
        /\ snap' = IF backend = "memory" THEN None ELSE snap
        /\ UNCHANGED <<backend, lived, latest, told, overlapped>>

Next == \/ \E c \in Calls, h \in Handles : Run(c, h) \/ Load(c, h)
        \/ \E c \in Calls : \/ Delete(c) \/ Enter(c) \/ StepCompletes(c) \/ StepThrows(c)
                            \/ BackoffOver(c) \/ SaveSnapshot(c) \/ Return(c) \/ Abort(c)
        \/ \E h \in Handles : Crash(h)

Spec == Init /\ [][Next]_vars

-----------------------------------------------------------------------------

\* Type of the engine's state (executor.ts, single-flight.ts, snapshot-store.ts).
TypeOK ==
    /\ backend \in {"memory", "json"}
    /\ snap = None \/ (snap \in Snapshots /\ snap.at \in Steps)
    /\ flights \subseteq Handles
    /\ \A c \in Calls :
          /\ call[c].pc \in Places
          /\ Active(c) => call[c].on \in Handles /\ call[c].memo \in Snapshots
          /\ call[c].pc = "step" => Here(c) \in Steps /\ call[c].attempt \in 1..MaxAttempts[Here(c)]
    /\ told \subseteq Fresh

\* The single-flight registry is exact: a handle has an entry while a call
\* executes the run on it, one call at most, and no path out of a call leaves
\* an entry behind or takes another call's away.
FlightIsExact ==
    /\ flights = {call[c].on : c \in {d \in Calls : Executing(d)}}
    /\ \A c, d \in Calls : Executing(c) /\ Executing(d) /\ call[c].on = call[d].on => c = d

\* A run knows its past, through any number of suspensions, retries, crashes
\* and resumes: its step results are the steps that completed, in order and
\* each once, and its shared state has every write.  (Once two calls overlap
\* this no longer holds: both may have loaded the snapshot.)
HistoryIsExact ==
    ~overlapped =>
        \A c \in Calls : Executing(c) =>
            LET past == lived[call[c].memo.of]
            IN  /\ call[c].memo.results = past.done
                /\ call[c].memo.state = past.wrote
                /\ \A i, j \in DOMAIN past.done : i < j => past.done[i] < past.done[j]

\* A run does not vanish: a call has it in hand, or its snapshot can be
\* resumed, or somebody was told how it ended.  Only a crash or overlapping
\* calls (a resume that deleted the snapshot and then finds the run in flight,
\* a late delete that meets the next snapshot) lose a run.
NoLimbo ==
    (latest # None /\ crashes = 0 /\ ~overlapped) =>
        \/ \E c \in Calls : Active(c) /\ call[c].memo.of = latest
        \/ snap # None /\ snap.of = latest
        \/ latest \in told

=============================================================================
