------------------------- MODULE WorkflowRunsProofs -------------------------
(***************************************************************************)
(* Proofs about WorkflowRuns, for every workflow, every set of handles and *)
(* of calls, and any number of crashes.                                    *)
(***************************************************************************)
EXTENDS WorkflowRuns, TLAPS

(* Typing.  The record of a call by itself, and the whole state.             *)
CallRecords == [pc: Places, on: Handles \cup {None}, memo: Snapshots \cup {None},
                attempt: Nat, aborted: BOOLEAN]

(* A call that holds the run has a handle and a memory; while a step is      *)
(* going on the memory points at a step of the workflow; the attempt is in   *)
(* the range of that step's policy, and starts at 1.                         *)
WellFormed(k) ==
    /\ k \in CallRecords
    /\ k.pc \notin {"new", "ended"} => k.on \in Handles /\ k.memo \in Snapshots
    /\ k.pc \in {"step", "backoff", "saving"} => k.memo.at \in Steps
    /\ k.pc = "step" => k.attempt \in 1..MaxAttempts[k.memo.at]
    /\ k.pc = "backoff" => k.attempt \in 1..MaxAttempts[k.memo.at] - 1
    /\ k.pc \in {"new", "deleting", "deleted"} => k.attempt = 1

Typed ==
    /\ backend \in {"memory", "json"}
    /\ snap = None \/ (snap \in Snapshots /\ snap.at \in Steps)
    /\ flights \subseteq Handles
    /\ call \in [Calls -> CallRecords]
    /\ \A c \in Calls : WellFormed(call[c])
    /\ told \subseteq Fresh
    /\ lived \in [Fresh -> [done: Seq(Steps), wrote: SUBSET Steps]]
    /\ latest \in Fresh \cup {None}
    /\ crashes \in Nat
    /\ overlapped \in BOOLEAN

\* The memory a call of run starts from.
LEMMA FreshMemory ==
    ASSUME NEW c \in Fresh
    PROVE  /\ [at |-> 1, results |-> <<>>, state |-> {}, of |-> c] \in Snapshots
           /\ NumSteps \in Nat
  BY WorkflowAssumption DEF Snapshots, Steps

\* The memory resume makes of a snapshot.
LEMMA LoadedMemory ==
    ASSUME NEW m \in Snapshots, m.at \in Steps
    PROVE  /\ [m EXCEPT !.at = @ + 1] \in Snapshots
           /\ [m EXCEPT !.at = @ + 1].of = m.of
           /\ [m EXCEPT !.at = @ + 1].results = m.results
           /\ [m EXCEPT !.at = @ + 1].state = m.state
           /\ [m EXCEPT !.at = @ + 1].at = m.at + 1
<1> DEFINE i == m.at + 1
<1>1. i \in 1..NumSteps + 1
  BY WorkflowAssumption DEF Snapshots, Steps
<1> HIDE DEF i
<1>2. [m EXCEPT !.at = i] \in Snapshots
  BY <1>1 DEF Snapshots
<1>3. /\ [m EXCEPT !.at = i].of = m.of
      /\ [m EXCEPT !.at = i].results = m.results
      /\ [m EXCEPT !.at = i].state = m.state
      /\ [m EXCEPT !.at = i].at = i
  BY DEF Snapshots
<1> QED BY <1>2, <1>3 DEF i

After(m) == [m EXCEPT !.results = Append(@, m.at), !.state = @ \cup {m.at}, !.at = @ + 1]

\* The memory after a step that completed.
LEMMA CompletedMemory ==
    ASSUME NEW m \in Snapshots, m.at \in Steps
    PROVE  /\ After(m) \in Snapshots
           /\ After(m).of = m.of
           /\ After(m).results = Append(m.results, m.at)
           /\ After(m).state = m.state \cup {m.at}
           /\ After(m).at = m.at + 1
<1>1. /\ m.at \in Nat /\ m.at + 1 \in 1..NumSteps + 1
      /\ m.results \in Seq(Steps) /\ Append(m.results, m.at) \in Seq(Steps)
      /\ m.state \cup {m.at} \in SUBSET Steps
      /\ m.of \in Fresh
  BY WorkflowAssumption DEF Snapshots, Steps
<1>2. After(m).at = m.at + 1 /\ After(m).results = Append(m.results, m.at)
  BY DEF Snapshots, After
<1>3. After(m).state = m.state \cup {m.at} /\ After(m).of = m.of
  BY DEF Snapshots, After
<1> DEFINE r == Append(m.results, m.at)
           w == m.state \cup {m.at}
           i == m.at + 1
<1>4. r \in Seq(Steps) /\ w \in SUBSET Steps /\ i \in 1..NumSteps + 1
  BY <1>1
<1> HIDE DEF r, w, i
<1>5. [m EXCEPT !.results = r, !.state = w, !.at = i] \in Snapshots
  BY <1>4 DEF Snapshots
<1> QED BY <1>2, <1>3, <1>5 DEF After, r, w, i

\* The memory after a step that threw or suspended.
LEMMA WrittenMemory ==
    ASSUME NEW m \in Snapshots, m.at \in Steps
    PROVE  /\ [m EXCEPT !.state = @ \cup {m.at}] \in Snapshots
           /\ [m EXCEPT !.state = @ \cup {m.at}].of = m.of
           /\ [m EXCEPT !.state = @ \cup {m.at}].results = m.results
           /\ [m EXCEPT !.state = @ \cup {m.at}].state = m.state \cup {m.at}
           /\ [m EXCEPT !.state = @ \cup {m.at}].at = m.at
<1> DEFINE w == m.state \cup {m.at}
<1>1. w \in SUBSET Steps
  BY DEF Snapshots
<1> HIDE DEF w
<1>2. [m EXCEPT !.state = w] \in Snapshots
  BY <1>1 DEF Snapshots
<1>3. /\ [m EXCEPT !.state = w].of = m.of
      /\ [m EXCEPT !.state = w].results = m.results
      /\ [m EXCEPT !.state = w].state = w
      /\ [m EXCEPT !.state = w].at = m.at
  BY DEF Snapshots
<1> QED BY <1>2, <1>3 DEF w

\* A snapshot's fields.
LEMMA SnapshotFields ==
    ASSUME NEW m \in Snapshots
    PROVE  /\ m.at \in 1..NumSteps + 1 /\ m.at \in Nat
           /\ m.results \in Seq(Steps)
           /\ m.state \in SUBSET Steps
           /\ m.of \in Fresh
  BY WorkflowAssumption DEF Snapshots, Steps

-----------------------------------------------------------------------------


(* What an action does to the record of the call that takes it: call c goes  *)
(* to record n, which is well formed, and every other record stays.          *)
Moves(c, n) == WellFormed(n) /\ call' = [call EXCEPT ![c] = n]

\* A call that is not made yet, or has ended, has a well-formed record.
LEMMA IdleWellFormed ==
    ASSUME NEW place \in {"new", "ended"} PROVE WellFormed(Idle(place))
  BY DEF WellFormed, CallRecords, Idle, Places

\* Moving one call keeps all of them well formed.
LEMMA MoveWellFormed ==
    ASSUME Typed, NEW c \in Calls, NEW n, Moves(c, n)
    PROVE  /\ call' \in [Calls -> CallRecords]
           /\ \A d \in Calls : WellFormed(call'[d])
           /\ call'[c] = n
           /\ \A d \in Calls : d # c => call'[d] = call[d]
  BY DEF Typed, Moves, WellFormed

\* A call that throws or returns before it took the flight.
Quits(c) == Moves(c, Idle("ended")) /\ UNCHANGED <<flights, snap, lived>>

\* A call that takes the flight of handle h and goes on from memory m.
Starts(c, n, h, m) ==
    /\ Moves(c, n) /\ n.on = h /\ n.memo = m
    /\ n.pc \in {"step", "unwinding"}
    /\ h \notin flights /\ flights' = flights \cup {h}
    /\ told' = IF n.pc = "step" THEN told ELSE told \cup {m.of}

\* What executeWorkflow does up to its first await.
LEMMA ExecuteMoves ==
    ASSUME Typed, NEW c \in Calls, NEW h \in Handles, NEW m \in Snapshots,
           call[c].pc \in {"new", "deleted"}, ExecuteWorkflow(c, h, m),
           UNCHANGED <<snap, lived>>
    PROVE  \/ Quits(c) /\ told' = told /\ h \in flights
           \/ Quits(c) /\ told' = told \cup {m.of} /\ h \notin flights
           \/ \E n : Starts(c, n, h, m)
<1>1. WellFormed(Idle("ended"))
  BY IdleWellFormed
<1>2. CASE h \in flights
  BY <1>1, <1>2 DEF ExecuteWorkflow, Leave, Quits, Moves
<1>3. CASE h \notin flights /\ (Leave(c, m.of, "cancelled") \/ Leave(c, m.of, "failed")) /\ flights' = flights
  BY <1>1, <1>3 DEF Leave, Quits, Moves
<1>4. CASE /\ h \notin flights /\ ~call[c].aborted
           /\ flights' = flights \cup {h}
           /\ \E place \in {"step", "unwinding"} :
                 /\ (place = "step") <=> (m.at \in Steps)
                 /\ call' = [call EXCEPT ![c] = [@ EXCEPT !.pc = place, !.on = h, !.memo = m]]
                 /\ told' = IF place = "step" THEN told ELSE told \cup {m.of}
  <2>1. PICK place \in {"step", "unwinding"} :
                 /\ (place = "step") <=> (m.at \in Steps)
                 /\ call' = [call EXCEPT ![c] = [@ EXCEPT !.pc = place, !.on = h, !.memo = m]]
                 /\ told' = IF place = "step" THEN told ELSE told \cup {m.of}
    BY <1>4
  <2> DEFINE n == [call[c] EXCEPT !.pc = place, !.on = h, !.memo = m]
  <2>2. call[c] \in CallRecords /\ call[c].attempt = 1
    BY DEF Typed, WellFormed
  <2>3. n \in CallRecords /\ n.pc = place /\ n.on = h /\ n.memo = m /\ n.attempt = 1
    BY <2>2 DEF CallRecords, Places
  <2>4. call' = [call EXCEPT ![c] = n]
    BY <2>1
  <2> HIDE DEF n
  <2>5. m.at \in Steps => 1 \in 1..MaxAttempts[m.at]
    BY WorkflowAssumption
  <2>6. WellFormed(n)
    BY <2>1, <2>3, <2>5 DEF WellFormed
  <2> QED BY <1>4, <2>1, <2>3, <2>4, <2>6 DEF Starts, Moves
<1> QED BY <1>2, <1>3, <1>4 DEF ExecuteWorkflow

\* Resume that found a snapshot: it holds it, one step further.
Takes(c, n) ==
    /\ call[c].pc = "new" /\ c \notin Fresh /\ snap # None
    /\ Moves(c, n) /\ n.pc = "deleting" /\ n.memo = [snap EXCEPT !.at = @ + 1]
    /\ UNCHANGED <<flights, snap, lived, told, latest, crashes, backend>> /\ Meet

LEMMA LoadMoves ==
    ASSUME Typed, NEW c \in Calls, NEW h \in Handles, Load(c, h)
    PROVE  /\ call[c].pc = "new" /\ c \notin Fresh
           /\ \/ Quits(c) /\ UNCHANGED <<told, latest, crashes, backend, overlapped>>
              \/ \E n : Takes(c, n)
<1>1. WellFormed(Idle("ended"))
  BY IdleWellFormed
<1>2. CASE Leave(c, None, "throws") /\ UNCHANGED overlapped
  BY <1>1, <1>2 DEF Load, Leave, Quits, Moves
<1>3. CASE /\ snap # None /\ h \notin Foreign
           /\ call' = [call EXCEPT ![c] = [@ EXCEPT !.pc = "deleting", !.on = h,
                                                    !.memo = [snap EXCEPT !.at = @ + 1]]]
           /\ Meet /\ UNCHANGED told
  <2> DEFINE m == [snap EXCEPT !.at = @ + 1]
  <2>1. m \in Snapshots
    BY <1>3, LoadedMemory DEF Typed
  <2> HIDE DEF m
  <2> DEFINE n == [call[c] EXCEPT !.pc = "deleting", !.on = h, !.memo = m]
  <2>2. call[c] \in CallRecords /\ call[c].attempt = 1
    BY DEF Typed, WellFormed, Load
  <2>3. n \in CallRecords /\ n.pc = "deleting" /\ n.on = h /\ n.memo = m /\ n.attempt = 1
    BY <2>1, <2>2 DEF CallRecords, Places
  <2>4. call' = [call EXCEPT ![c] = n]
    BY <1>3 DEF m
  <2> HIDE DEF n
  <2>5. WellFormed(n)
    BY <2>1, <2>3 DEF WellFormed
  <2> QED BY <1>3, <2>3, <2>4, <2>5 DEF Takes, Moves, Load, m
<1> QED BY <1>2, <1>3 DEF Load

(* A call that stays on its handle; pc and memo are what may change.         *)
Stays(c, n, place, m) ==
    /\ Moves(c, n) /\ n.pc = place /\ n.memo = m /\ n.on = call[c].on
    /\ UNCHANGED <<flights, latest, crashes, backend, overlapped>>

LEMMA DeleteMoves ==
    ASSUME Typed, NEW c \in Calls, Delete(c)
    PROVE  /\ call[c].pc = "deleting" /\ UNCHANGED <<told, latest, crashes, backend, overlapped>>
           /\ \/ Quits(c)
              \/ snap' = None /\ lived' = lived /\ \E n : Stays(c, n, "deleted", call[c].memo)
<1>1. WellFormed(Idle("ended"))
  BY IdleWellFormed
<1>2. CASE Leave(c, None, "throws") /\ UNCHANGED snap
  BY <1>1, <1>2 DEF Delete, Leave, Quits, Moves
<1>3. CASE snap' = None /\ Goto(c, "deleted") /\ UNCHANGED told
  <2> DEFINE n == [call[c] EXCEPT !.pc = "deleted"]
  <2>1. WellFormed(call[c]) /\ call[c].pc = "deleting"
    BY DEF Typed, Delete
  <2>2. /\ n \in CallRecords /\ n.pc = "deleted" /\ n.on = call[c].on
        /\ n.memo = call[c].memo /\ n.attempt = call[c].attempt
    BY <2>1 DEF WellFormed, CallRecords, Places
  <2>3. call' = [call EXCEPT ![c] = n]
    BY <1>3 DEF Goto
  <2> HIDE DEF n
  <2>4. WellFormed(n)
    BY <2>1, <2>2 DEF WellFormed
  <2> QED BY <1>3, <2>2, <2>3, <2>4 DEF Stays, Moves, Delete
<1> QED BY <1>2, <1>3 DEF Delete

\* A step that completes: the memory, the history, and what comes next.
LEMMA CompleteMoves ==
    ASSUME Typed, NEW c \in Calls, StepCompletes(c)
    PROVE  /\ call[c].pc = "step" /\ snap' = snap
           /\ lived' = [lived EXCEPT ![call[c].memo.of] =
                           [done |-> Append(lived[call[c].memo.of].done, call[c].memo.at),
                            wrote |-> lived[call[c].memo.of].wrote \cup {call[c].memo.at}]]
           /\ \E n, place : /\ place \in {"step", "unwinding"}
                            /\ Stays(c, n, place, After(call[c].memo))
                            /\ told' = IF place = "step" THEN told ELSE told \cup {call[c].memo.of}
<1> DEFINE m == call[c].memo
           place == IF m.at < NumSteps /\ ~call[c].aborted THEN "step" ELSE "unwinding"
           n == [call[c] EXCEPT !.pc = place, !.memo = After(m), !.attempt = 1]
<1>1. WellFormed(call[c]) /\ call[c].pc = "step"
  BY DEF Typed, StepCompletes
<1>2. m \in Snapshots /\ m.at \in Steps
  BY <1>1 DEF WellFormed
<1>3. /\ call' = [call EXCEPT ![c] = n]
      /\ told' = IF place = "step" THEN told ELSE told \cup {m.of}
  BY DEF StepCompletes, After
<1>4. After(m) \in Snapshots /\ After(m).at = m.at + 1
  BY <1>2, CompletedMemory
<1>5. place \in {"step", "unwinding"} /\ (place = "step" => m.at < NumSteps)
  OBVIOUS
<1>6. place = "step" => After(m).at \in Steps /\ 1 \in 1..MaxAttempts[After(m).at]
  BY <1>2, <1>4, <1>5, WorkflowAssumption DEF Steps
<1> HIDE DEF m, place
<1>7. /\ n \in CallRecords /\ n.pc = place /\ n.on = call[c].on
      /\ n.memo = After(m) /\ n.attempt = 1
  BY <1>1, <1>4, <1>5 DEF WellFormed, CallRecords, Places
<1> HIDE DEF n
<1>8. WellFormed(n)
  BY <1>1, <1>4, <1>5, <1>6, <1>7 DEF WellFormed
<1>9. Stays(c, n, place, After(m))
  BY <1>3, <1>7, <1>8 DEF Stays, Moves, StepCompletes
<1>10. \E x, y : /\ y \in {"step", "unwinding"}
                 /\ Stays(c, x, y, After(m))
                 /\ told' = IF y = "step" THEN told ELSE told \cup {m.of}
  BY <1>3, <1>5, <1>9
<1>11. /\ lived' = [lived EXCEPT ![m.of] = [done |-> Append(lived[m.of].done, m.at),
                                           wrote |-> lived[m.of].wrote \cup {m.at}]]
       /\ snap' = snap
  BY DEF StepCompletes, m
<1> QED BY <1>1, <1>10, <1>11 DEF m

\* A step that throws or suspends.
LEMMA ThrowMoves ==
    ASSUME Typed, NEW c \in Calls, StepThrows(c)
    PROVE  /\ call[c].pc = "step" /\ snap' = snap
           /\ lived' = [lived EXCEPT ![call[c].memo.of].wrote = @ \cup {call[c].memo.at}]
           /\ \E n, place : /\ place \in {"backoff", "saving", "unwinding"}
                            /\ Stays(c, n, place, [call[c].memo EXCEPT !.state = @ \cup {call[c].memo.at}])
                            /\ told' = IF place = "unwinding" THEN told \cup {call[c].memo.of} ELSE told
<1> DEFINE m == call[c].memo
           w == [m EXCEPT !.state = @ \cup {m.at}]
<1>1. WellFormed(call[c]) /\ call[c].pc = "step"
  BY DEF Typed, StepThrows
<1>2. m \in Snapshots /\ m.at \in Steps
  BY <1>1 DEF WellFormed
<1>3. w \in Snapshots /\ w.at = m.at
  BY <1>2, WrittenMemory
<1>4. PICK how \in {"failed", "suspended"} \cap Ends(c), place \in {"backoff", "saving", "unwinding"} :
              /\ place = IF ~(call[c].attempt = MaxAttempts[m.at]) /\ ~call[c].aborted THEN "backoff"
                         ELSE IF call[c].attempt = MaxAttempts[m.at] /\ how = "suspended" THEN "saving" ELSE "unwinding"
              /\ call' = [call EXCEPT ![c] = [@ EXCEPT !.pc = place, !.memo = w]]
              /\ told' = IF place = "unwinding" THEN told \cup {m.of} ELSE told
  BY DEF StepThrows
<1> DEFINE n == [call[c] EXCEPT !.pc = place, !.memo = w]
<1>5. call' = [call EXCEPT ![c] = n]
  BY <1>4
<1>6. place = "backoff" => call[c].attempt \in 1..MaxAttempts[m.at] - 1
  BY <1>1, <1>2, <1>4, WorkflowAssumption DEF WellFormed
<1> HIDE DEF w
<1>7. /\ n \in CallRecords /\ n.pc = place /\ n.on = call[c].on
      /\ n.memo = w /\ n.attempt = call[c].attempt
  BY <1>1, <1>3 DEF WellFormed, CallRecords, Places
<1> HIDE DEF n, m
<1>8. WellFormed(n)
  BY <1>1, <1>2, <1>3, <1>6, <1>7 DEF WellFormed, m
<1>9. Stays(c, n, place, w)
  BY <1>5, <1>7, <1>8 DEF Stays, Moves, StepThrows
<1>10. \E x, y : /\ y \in {"backoff", "saving", "unwinding"}
                 /\ Stays(c, x, y, w)
                 /\ told' = IF y = "unwinding" THEN told \cup {m.of} ELSE told
  BY <1>4, <1>9
<1>11. /\ lived' = [lived EXCEPT ![m.of].wrote = @ \cup {m.at}]
       /\ snap' = snap
  BY DEF StepThrows, m
<1> QED BY <1>1, <1>10, <1>11 DEF m, w

\* The pause between two attempts ends.
LEMMA BackoffMoves ==
    ASSUME Typed, NEW c \in Calls, BackoffOver(c)
    PROVE  /\ call[c].pc = "backoff" /\ UNCHANGED <<snap, lived>>
           /\ \E n, place : /\ place \in {"step", "unwinding"}
                            /\ Stays(c, n, place, call[c].memo)
                            /\ told' = IF place = "step" THEN told ELSE told \cup {call[c].memo.of}
<1>1. /\ WellFormed(call[c]) /\ call[c].pc = "backoff"
      /\ UNCHANGED <<flights, latest, crashes, backend, overlapped, snap, lived>>
  BY DEF Typed, BackoffOver
<1>2. CASE Unwind(c, "failed")
  <2> DEFINE n == [call[c] EXCEPT !.pc = "unwinding"]
  <2>1. /\ n \in CallRecords /\ n.pc = "unwinding" /\ n.on = call[c].on
        /\ n.memo = call[c].memo
    BY <1>1 DEF WellFormed, CallRecords, Places
  <2>2. call' = [call EXCEPT ![c] = n] /\ told' = told \cup {call[c].memo.of}
    BY <1>2 DEF Unwind, Goto
  <2> HIDE DEF n
  <2>3. WellFormed(n)
    BY <1>1, <2>1 DEF WellFormed
  <2>4. Stays(c, n, "unwinding", call[c].memo)
    BY <1>1, <2>1, <2>2, <2>3 DEF Stays, Moves
  <2> QED BY <1>1, <2>2, <2>4
<1>3. CASE /\ call' = [call EXCEPT ![c] = [@ EXCEPT !.pc = "step", !.attempt = call[c].attempt + 1]]
           /\ UNCHANGED told
  <2> DEFINE a == call[c].attempt + 1
             n == [call[c] EXCEPT !.pc = "step", !.attempt = call[c].attempt + 1]
  <2>1. a \in Nat /\ a \in 1..MaxAttempts[call[c].memo.at]
    <3>1. MaxAttempts[call[c].memo.at] \in Nat
      BY <1>1, WorkflowAssumption DEF WellFormed
    <3>2. call[c].attempt \in 1..MaxAttempts[call[c].memo.at] - 1
      BY <1>1 DEF WellFormed
    <3> QED BY <3>1, <3>2
  <2>2. call' = [call EXCEPT ![c] = n]
    BY <1>3
  <2>3. /\ n \in CallRecords /\ n.pc = "step" /\ n.on = call[c].on
        /\ n.memo = call[c].memo /\ n.attempt = a
    BY <1>1, <2>1 DEF WellFormed, CallRecords, Places
  <2> HIDE DEF a
  <2> HIDE DEF n
  <2>4. WellFormed(n)
    BY <1>1, <2>1, <2>3 DEF WellFormed
  <2>5. Stays(c, n, "step", call[c].memo)
    BY <1>1, <2>2, <2>3, <2>4 DEF Stays, Moves
  <2> QED BY <1>1, <1>3, <2>5
<1> QED BY <1>2, <1>3 DEF BackoffOver

\* The snapshot is stored, or the run has failed.
LEMMA SaveMoves ==
    ASSUME Typed, NEW c \in Calls, SaveSnapshot(c)
    PROVE  /\ call[c].pc = "saving" /\ lived' = lived
           /\ \E n : Stays(c, n, "unwinding", call[c].memo)
           /\ \/ snap' = call[c].memo /\ told' = told
              \/ snap' = snap /\ told' = told \cup {call[c].memo.of}
<1>1. /\ WellFormed(call[c]) /\ call[c].pc = "saving"
      /\ UNCHANGED <<flights, latest, crashes, backend, overlapped, lived>>
  BY DEF Typed, SaveSnapshot
<1> DEFINE n == [call[c] EXCEPT !.pc = "unwinding"]
<1>2. /\ n \in CallRecords /\ n.pc = "unwinding" /\ n.on = call[c].on
      /\ n.memo = call[c].memo
  BY <1>1 DEF WellFormed, CallRecords, Places
<1>3. call' = [call EXCEPT ![c] = n]
  BY DEF SaveSnapshot, Unwind, Goto
<1> HIDE DEF n
<1>4. WellFormed(n)
  BY <1>1, <1>2 DEF WellFormed
<1>5. Stays(c, n, "unwinding", call[c].memo)
  BY <1>1, <1>2, <1>3, <1>4 DEF Stays, Moves
<1>6. \/ snap' = call[c].memo /\ told' = told
      \/ snap' = snap /\ told' = told \cup {call[c].memo.of}
  BY DEF SaveSnapshot, Unwind
<1> QED BY <1>1, <1>5, <1>6

\* The signal reaches a call: only the flag of its record changes.
LEMMA AbortMoves ==
    ASSUME Typed, NEW c \in Calls, Abort(c)
    PROVE  /\ UNCHANGED <<snap, lived, told>>
           /\ \E n : /\ Stays(c, n, call[c].pc, call[c].memo)
<1>1. /\ WellFormed(call[c])
      /\ UNCHANGED <<flights, latest, crashes, backend, overlapped, snap, lived, told>>
  BY DEF Typed, Abort
<1> DEFINE n == [call[c] EXCEPT !.aborted = TRUE]
<1>2. /\ n \in CallRecords /\ n.pc = call[c].pc /\ n.on = call[c].on
      /\ n.memo = call[c].memo /\ n.attempt = call[c].attempt
  BY <1>1 DEF WellFormed, CallRecords
<1>3. call' = [call EXCEPT ![c] = n]
  BY DEF Abort
<1> HIDE DEF n
<1>4. WellFormed(n)
  BY <1>1, <1>2 DEF WellFormed
<1> QED BY <1>1, <1>2, <1>3, <1>4 DEF Stays, Moves

\* The flight is released.
LEMMA ReturnMoves ==
    ASSUME Typed, NEW c \in Calls, Return(c)
    PROVE  /\ call[c].pc = "unwinding" /\ Moves(c, Idle("ended"))
           /\ flights' = flights \ {call[c].on}
           /\ UNCHANGED <<backend, snap, lived, latest, told, crashes, overlapped>>
  BY IdleWellFormed DEF Return, Moves

\* A crash ends the calls of the processes that die and leaves the others.
LEMMA CrashMoves ==
    ASSUME Typed, NEW h \in Handles, Crash(h)
    PROVE  /\ \A c \in Calls : WellFormed(call'[c])
           /\ call' \in [Calls -> CallRecords]
           /\ \A c \in Calls : \/ call'[c] = call[c]
                               \/ Active(c) /\ call'[c].pc = "ended"
           /\ \A c \in Calls : /\ backend = "memory" => ~Active(c)'
                               /\ backend # "memory" /\ Active(c) =>
                                     ((call'[c] = call[c]) <=> call[c].on # h)
<1>1. \A c \in Calls : WellFormed(call[c]) /\ (Active(c) => call[c].on \in Handles)
  BY DEF Typed, WellFormed, Active
<1>2. WellFormed(Idle("ended")) /\ Idle("ended").pc = "ended"
  BY IdleWellFormed DEF Idle
<1> DEFINE dead == IF backend = "memory" THEN Handles ELSE {h}
<1>3. /\ call' = [c \in Calls |-> IF Active(c) /\ call[c].on \in dead THEN Idle("ended") ELSE call[c]]
      /\ (backend = "memory" => dead = Handles)
      /\ (backend # "memory" => dead = {h})
  BY DEF Crash
<1> HIDE DEF dead
<1>4. \A c \in Calls : IF Active(c) /\ call[c].on \in dead THEN call'[c] = Idle("ended") ELSE call'[c] = call[c]
  BY <1>3
<1>5. \A c \in Calls : WellFormed(call'[c])
  BY <1>1, <1>2, <1>4
<1>6. call' \in [Calls -> CallRecords]
  BY <1>1, <1>2, <1>3 DEF WellFormed
<1>7. \A c \in Calls : \/ call'[c] = call[c]
                       \/ Active(c) /\ call'[c].pc = "ended"
  BY <1>2, <1>4
<1>8. ASSUME NEW c \in Calls
      PROVE  /\ backend = "memory" => ~Active(c)'
             /\ backend # "memory" /\ Active(c) => ((call'[c] = call[c]) <=> call[c].on # h)
  BY <1>1, <1>2, <1>3, <1>4 DEF Active
<1> QED BY <1>5, <1>6, <1>7, <1>8

-----------------------------------------------------------------------------

\* A move of one call, with everything else typed, is typed.
LEMMA MoveTyped ==
    ASSUME Typed, NEW c \in Calls, NEW n, Moves(c, n), backend' = backend,
           snap' = None \/ (snap' \in Snapshots /\ snap'.at \in Steps),
           flights' \subseteq Handles, told' \subseteq Fresh,
           lived' \in [Fresh -> [done: Seq(Steps), wrote: SUBSET Steps]],
           latest' \in Fresh \cup {None}, crashes' \in Nat, overlapped' \in BOOLEAN
    PROVE  Typed'
  BY MoveWellFormed DEF Typed

LEMMA InitTyped == Init => Typed
<1> SUFFICES ASSUME Init PROVE Typed
  OBVIOUS
<1>1. \A c \in Calls : WellFormed(call[c])
  BY IdleWellFormed DEF Init
<1>2. call \in [Calls -> CallRecords]
  BY IdleWellFormed DEF Init, WellFormed
<1>3. lived \in [Fresh -> [done: Seq(Steps), wrote: SUBSET Steps]]
  BY DEF Init
<1> QED BY <1>1, <1>2, <1>3 DEF Init, Typed

LEMMA NextTyped == Typed /\ [Next]_vars => Typed'
<1> SUFFICES ASSUME Typed, [Next]_vars PROVE Typed'
  OBVIOUS
<1>1. /\ snap = None \/ (snap \in Snapshots /\ snap.at \in Steps)
      /\ flights \subseteq Handles /\ told \subseteq Fresh
      /\ lived \in [Fresh -> [done: Seq(Steps), wrote: SUBSET Steps]]
      /\ latest \in Fresh \cup {None} /\ crashes \in Nat /\ overlapped \in BOOLEAN
      /\ \A c \in Calls : WellFormed(call[c])
  BY DEF Typed
<1>2. ASSUME NEW c \in Calls, call[c].pc \notin {"new", "ended"}
      PROVE  /\ call[c].memo \in Snapshots /\ call[c].on \in Handles
             /\ call[c].memo.of \in Fresh
  BY <1>1, <1>2, SnapshotFields DEF WellFormed
<1>3. ASSUME NEW c \in Calls, NEW h \in Handles, NEW m \in Snapshots,
             call[c].pc \in {"new", "deleted"}, ExecuteWorkflow(c, h, m),
             UNCHANGED <<snap, lived, backend, crashes>>,
             latest' \in Fresh \cup {None}, overlapped' \in BOOLEAN
      PROVE  Typed'
  <2>1. m.of \in Fresh
    BY SnapshotFields
  <2>2. flights' \subseteq Handles /\ told' \subseteq Fresh /\ \E n : Moves(c, n)
    BY <1>1, <1>3, <2>1, ExecuteMoves DEF Quits, Starts
  <2> QED BY <1>1, <1>3, <2>2, MoveTyped
<1>4. ASSUME NEW c \in Calls, NEW h \in Handles, Run(c, h) PROVE Typed'
  <2>1. c \in Fresh /\ latest' \in Fresh \cup {None} /\ overlapped' \in BOOLEAN
    BY <1>1, <1>4 DEF Run, Meet
  <2> QED BY <1>3, <1>4, <2>1, FreshMemory DEF Run
<1>5. ASSUME NEW c \in Calls, NEW h \in Handles, Load(c, h) PROVE Typed'
  <2>1. overlapped' \in BOOLEAN /\ \E n : Moves(c, n)
    BY <1>1, <1>5, LoadMoves DEF Quits, Takes, Meet
  <2>2. UNCHANGED <<backend, snap, flights, lived, latest, crashes, told>>
    BY <1>5, LoadMoves DEF Load, Takes
  <2> QED BY <1>1, <2>1, <2>2, MoveTyped
<1>6. ASSUME NEW c \in Calls, Delete(c) PROVE Typed'
  <2>1. \E n : Moves(c, n)
    BY <1>6, DeleteMoves DEF Quits, Stays
  <2>2. UNCHANGED <<backend, flights, lived, latest, crashes, overlapped, told>> /\ snap' \in {snap, None}
    BY <1>6, DeleteMoves DEF Delete
  <2> QED BY <1>1, <2>1, <2>2, MoveTyped
<1>7. ASSUME NEW c \in Calls, Enter(c) PROVE Typed'
  <2>1. call[c].memo \in Snapshots /\ call[c].on \in Handles /\ call[c].pc = "deleted"
    BY <1>2, <1>7 DEF Enter
  <2> QED BY <1>1, <1>3, <1>7, <2>1 DEF Enter
<1>8. ASSUME NEW c \in Calls, StepCompletes(c) PROVE Typed'
  <2>1. call[c].memo.of \in Fresh /\ call[c].memo.at \in Steps
    BY <1>1, <1>2, <1>8, CompleteMoves DEF WellFormed
  <2>2. lived' \in [Fresh -> [done: Seq(Steps), wrote: SUBSET Steps]]
    <3> DEFINE i == call[c].memo.at
               r == call[c].memo.of
               x == [done |-> Append(lived[r].done, i), wrote |-> lived[r].wrote \cup {i}]
    <3>1. x \in [done: Seq(Steps), wrote: SUBSET Steps]
      BY <1>1, <2>1
    <3>2. lived' = [lived EXCEPT ![r] = x]
      BY <1>8, CompleteMoves
    <3> HIDE DEF x, r
    <3> QED BY <1>1, <3>1, <3>2
  <2>3. \E n : Moves(c, n)
    BY <1>8, CompleteMoves DEF Stays
  <2>4. told' = told \/ told' = told \cup {call[c].memo.of}
    BY <1>8, CompleteMoves
  <2>5. told' \subseteq Fresh
    BY <1>1, <2>1, <2>4
  <2> QED BY <1>1, <1>8, <2>2, <2>3, <2>5, MoveTyped DEF StepCompletes
<1>9. ASSUME NEW c \in Calls, StepThrows(c) PROVE Typed'
  <2>1. call[c].memo.of \in Fresh /\ call[c].memo.at \in Steps
    BY <1>1, <1>2, <1>9, ThrowMoves DEF WellFormed
  <2>2. lived' \in [Fresh -> [done: Seq(Steps), wrote: SUBSET Steps]]
    <3> DEFINE i == call[c].memo.at
               r == call[c].memo.of
    <3>1. lived' = [lived EXCEPT ![r].wrote = @ \cup {i}]
      BY <1>9, ThrowMoves
    <3>2. r \in Fresh /\ i \in Steps
      BY <2>1
    <3> HIDE DEF r, i
    <3> QED BY <1>1, <3>1, <3>2
  <2>3. \E n : Moves(c, n)
    BY <1>9, ThrowMoves DEF Stays
  <2>4. told' = told \/ told' = told \cup {call[c].memo.of}
    BY <1>9, ThrowMoves
  <2>5. told' \subseteq Fresh
    BY <1>1, <2>1, <2>4
  <2> QED BY <1>1, <1>9, <2>2, <2>3, <2>5, MoveTyped DEF StepThrows
<1>10. ASSUME NEW c \in Calls, BackoffOver(c) PROVE Typed'
  <2>1. told' \subseteq Fresh /\ \E n : Moves(c, n)
    BY <1>1, <1>2, <1>10, BackoffMoves DEF Stays
  <2> QED BY <1>1, <1>10, <2>1, MoveTyped DEF BackoffOver
<1>11. ASSUME NEW c \in Calls, SaveSnapshot(c) PROVE Typed'
  <2>1. call[c].memo \in Snapshots /\ call[c].memo.at \in Steps /\ call[c].memo.of \in Fresh
    BY <1>1, <1>2, <1>11, SaveMoves DEF WellFormed
  <2>2. told' \subseteq Fresh /\ (\E n : Moves(c, n)) /\ (snap' = snap \/ snap' = call[c].memo)
    BY <1>1, <1>11, <2>1, SaveMoves DEF Stays
  <2> QED BY <1>1, <1>11, <2>1, <2>2, MoveTyped DEF SaveSnapshot
<1>12. ASSUME NEW c \in Calls, Return(c) PROVE Typed'
  BY <1>1, <1>12, ReturnMoves, MoveTyped
<1>13. ASSUME NEW c \in Calls, Abort(c) PROVE Typed'
  <2>1. \E n : Moves(c, n)
    BY <1>13, AbortMoves DEF Stays
  <2> QED BY <1>1, <1>13, <2>1, MoveTyped DEF Abort
<1>14. ASSUME NEW h \in Handles, Crash(h) PROVE Typed'
  <2>1. UNCHANGED <<backend, lived, latest, told, overlapped>> /\ crashes' = crashes + 1
    BY <1>14 DEF Crash
  <2>2. flights' \subseteq Handles /\ snap' \in {snap, None}
    BY <1>1, <1>14 DEF Crash
  <2> QED BY <1>1, <1>14, <2>1, <2>2, CrashMoves DEF Typed
<1>15. CASE UNCHANGED vars
  BY <1>15 DEF vars, Typed, WellFormed
<1> QED BY <1>4, <1>5, <1>6, <1>7, <1>8, <1>9, <1>10, <1>11, <1>12, <1>13, <1>14, <1>15 DEF Next

-----------------------------------------------------------------------------

(* Flights.  Actions that neither start nor end the execution of a call, and *)
(* leave the registry alone, keep it exact.                                  *)
LEMMA FlightKept ==
    ASSUME FlightIsExact, flights' = flights,
           \A c \in Calls : Executing(c)' <=> Executing(c),
           \A c \in Calls : Executing(c) => call'[c].on = call[c].on
    PROVE  FlightIsExact'
<1>1. \A h : h \in {call'[c].on : c \in {d \in Calls : Executing(d)'}}
               <=> h \in {call[c].on : c \in {d \in Calls : Executing(d)}}
  OBVIOUS
<1>2. flights' = {call'[c].on : c \in {d \in Calls : Executing(d)'}}
  BY <1>1 DEF FlightIsExact
<1>3. \A c, d \in Calls : Executing(c)' /\ Executing(d)' /\ call'[c].on = call'[d].on => c = d
  BY DEF FlightIsExact
<1> QED BY <1>2, <1>3 DEF FlightIsExact

LEMMA NextFlights == Typed /\ FlightIsExact /\ [Next]_vars => FlightIsExact'
<1> SUFFICES ASSUME Typed, FlightIsExact, [Next]_vars PROVE FlightIsExact'
  OBVIOUS
<1>1. ASSUME NEW c \in Calls, NEW n, Moves(c, n)
      PROVE  /\ call'[c] = n
             /\ \A d \in Calls : d # c => call'[d] = call[d] /\ (Executing(d)' <=> Executing(d))
  BY <1>1, MoveWellFormed DEF Executing
<1>2. ASSUME NEW c \in Calls, ~Executing(c), Quits(c) PROVE FlightIsExact'
  <2>1. ~Executing(c)' /\ flights' = flights
    BY <1>1, <1>2 DEF Quits, Executing, Idle
  <2> QED BY <1>1, <1>2, <2>1, FlightKept DEF Quits
<1>3. ASSUME NEW c \in Calls, NEW n, NEW place, NEW m, Stays(c, n, place, m),
             place \in {"step", "backoff", "saving", "unwinding"} <=> Executing(c)
      PROVE  FlightIsExact'
  <2>1. Moves(c, n) /\ n.pc = place /\ n.on = call[c].on /\ flights' = flights
    BY <1>3 DEF Stays
  <2>2. (Executing(c)' <=> Executing(c)) /\ call'[c].on = call[c].on
    BY <1>1, <1>3, <2>1 DEF Executing
  <2>3. /\ \A d \in Calls : Executing(d)' <=> Executing(d)
        /\ \A d \in Calls : Executing(d) => call'[d].on = call[d].on
    BY <1>1, <2>1, <2>2
  <2> QED BY <2>1, <2>3, FlightKept
<1>4. ASSUME NEW c \in Calls, NEW h \in Handles, NEW m \in Snapshots,
             call[c].pc \in {"new", "deleted"}, ExecuteWorkflow(c, h, m), UNCHANGED <<snap, lived>>
      PROVE  FlightIsExact'
  <2>1. ~Executing(c)
    BY <1>4 DEF Executing
  <2>2. ASSUME NEW n, Starts(c, n, h, m) PROVE FlightIsExact'
    <3>1. /\ Moves(c, n) /\ n.on = h /\ n.pc \in {"step", "unwinding"}
          /\ h \notin flights /\ flights' = flights \cup {h}
      BY <2>2 DEF Starts
    <3>2. Executing(c)' /\ call'[c].on = h
      BY <1>1, <3>1 DEF Executing
    <3>3. \A d \in Calls : d # c => call'[d] = call[d] /\ (Executing(d)' <=> Executing(d))
      BY <1>1, <3>1
    <3>4. \A d \in Calls : Executing(d) => call[d].on # h
      BY <3>1 DEF FlightIsExact
    <3>5. \A x : x \in flights' <=> x \in {call'[d].on : d \in {e \in Calls : Executing(e)'}}
      BY <2>1, <3>1, <3>2, <3>3 DEF FlightIsExact
    <3>6. \A d, e \in Calls : Executing(d)' /\ Executing(e)' /\ call'[d].on = call'[e].on => d = e
      BY <3>2, <3>3, <3>4 DEF FlightIsExact
    <3> QED BY <3>5, <3>6 DEF FlightIsExact
  <2> QED BY <1>2, <1>4, <2>1, <2>2, ExecuteMoves
<1>5. ASSUME NEW c \in Calls, NEW h \in Handles, Run(c, h) PROVE FlightIsExact'
  BY <1>4, <1>5, FreshMemory DEF Run
<1>6. ASSUME NEW c \in Calls, NEW h \in Handles, Load(c, h) PROVE FlightIsExact'
  <2>1. call[c].pc = "new" /\ ~Executing(c)
    BY <1>6, LoadMoves DEF Executing
  <2>2. ASSUME NEW n, Takes(c, n) PROVE FlightIsExact'
    <3>1. ~Executing(c)' /\ flights' = flights
      BY <1>1, <2>2 DEF Takes, Executing
    <3> QED BY <1>1, <2>1, <2>2, <3>1, FlightKept DEF Takes
  <2> QED BY <1>2, <1>6, <2>1, <2>2, LoadMoves
<1>7. ASSUME NEW c \in Calls, Delete(c) PROVE FlightIsExact'
  <2>1. ~Executing(c)
    BY <1>7, DeleteMoves DEF Executing
  <2> QED BY <1>2, <1>3, <1>7, <2>1, DeleteMoves
<1>8. ASSUME NEW c \in Calls, Enter(c) PROVE FlightIsExact'
  <2>1. call[c].pc = "deleted" /\ call[c].memo \in Snapshots /\ call[c].on \in Handles
    BY <1>8 DEF Enter, Typed, WellFormed
  <2> QED BY <1>4, <1>8, <2>1 DEF Enter
<1>9. ASSUME NEW c \in Calls,
             StepCompletes(c) \/ StepThrows(c) \/ BackoffOver(c) \/ SaveSnapshot(c)
      PROVE  FlightIsExact'
  <2>1. /\ Executing(c)
        /\ \E n, place, m : /\ Stays(c, n, place, m)
                            /\ place \in {"step", "backoff", "saving", "unwinding"}
    <3>1. CASE StepCompletes(c)
      BY <3>1, CompleteMoves DEF Executing
    <3>2. CASE StepThrows(c)
      BY <3>2, ThrowMoves DEF Executing
    <3>3. CASE BackoffOver(c)
      BY <3>3, BackoffMoves DEF Executing
    <3>4. CASE SaveSnapshot(c)
      BY <3>4, SaveMoves DEF Executing
    <3> QED BY <1>9, <3>1, <3>2, <3>3, <3>4
  <2> QED BY <1>3, <2>1
<1>10. ASSUME NEW c \in Calls, Return(c) PROVE FlightIsExact'
  <2>1. /\ call[c].pc = "unwinding" /\ Moves(c, Idle("ended"))
        /\ flights' = flights \ {call[c].on}
    BY <1>10, ReturnMoves
  <2>2. Executing(c) /\ ~Executing(c)'
    BY <1>1, <2>1 DEF Executing, Idle
  <2>3. \A d \in Calls : d # c => call'[d] = call[d] /\ (Executing(d)' <=> Executing(d))
    BY <1>1, <2>1
  <2>4. \A x : x \in flights' <=> x \in {call'[d].on : d \in {e \in Calls : Executing(e)'}}
    BY <2>1, <2>2, <2>3 DEF FlightIsExact
  <2>5. \A d, e \in Calls : Executing(d)' /\ Executing(e)' /\ call'[d].on = call'[e].on => d = e
    BY <2>2, <2>3 DEF FlightIsExact
  <2> QED BY <2>4, <2>5 DEF FlightIsExact
<1>11. ASSUME NEW c \in Calls, Abort(c) PROVE FlightIsExact'
  <2>1. \E n : Stays(c, n, call[c].pc, call[c].memo)
    BY <1>11, AbortMoves
  <2> QED BY <1>3, <2>1 DEF Executing
<1>12. ASSUME NEW h \in Handles, Crash(h) PROVE FlightIsExact'
  <2>1. /\ \A c \in Calls : Executing(c) => Active(c) /\ call[c].on \in Handles
        /\ \A c \in Calls : Executing(c)' => Active(c)'
    BY DEF Typed, WellFormed, Executing, Active
  <2>2. CASE backend = "memory"
    <3>1. \A c \in Calls : ~Executing(c)'
      BY <1>12, <2>1, <2>2, CrashMoves
    <3>2. flights' = {}
      BY <1>12, <2>2 DEF Crash, Typed
    <3> QED BY <3>1, <3>2 DEF FlightIsExact
  <2>3. CASE backend # "memory"
    <3>1. flights' = flights \ {h}
      BY <1>12, <2>3 DEF Crash
    <3>2. \A c \in Calls : Executing(c)' => call'[c] = call[c] /\ Executing(c)
      BY <1>12, CrashMoves DEF Executing
    <3>3. \A c \in Calls : Executing(c) => (Executing(c)' <=> call[c].on # h)
      BY <1>12, <2>1, <2>3, CrashMoves DEF Executing
    <3>4. \A x : x \in flights' <=> x \in {call'[d].on : d \in {e \in Calls : Executing(e)'}}
      BY <3>1, <3>2, <3>3 DEF FlightIsExact
    <3>5. \A d, e \in Calls : Executing(d)' /\ Executing(e)' /\ call'[d].on = call'[e].on => d = e
      BY <3>2 DEF FlightIsExact
    <3> QED BY <3>4, <3>5 DEF FlightIsExact
  <2> QED BY <2>2, <2>3
<1>13. CASE UNCHANGED vars
  BY <1>13 DEF vars, FlightIsExact, Executing
<1> QED BY <1>5, <1>6, <1>7, <1>8, <1>9, <1>10, <1>11, <1>12, <1>13 DEF Next

-----------------------------------------------------------------------------

(* History.  While no two calls have overlapped, one call at most holds the  *)
(* run.                                                                      *)
Alone == ~overlapped => \A c, d \in Calls : Active(c) /\ Active(d) => c = d

(* The results in a memory are in the order of the steps, and before the     *)
(* step the memory points at.                                                *)
Sorted(m) == /\ \A i, j \in DOMAIN m.results : i < j => m.results[i] < m.results[j]
             /\ \A i \in DOMAIN m.results : m.results[i] < m.at

AllSorted == /\ \A c \in Calls : Active(c) => Sorted(call[c].memo)
             /\ snap # None => Sorted(snap)

(* A run that was not started has left no trace.                             *)
Unborn == \A r \in Fresh : call[r].pc = "new" =>
             /\ lived[r].done = <<>> /\ lived[r].wrote = {}
             /\ snap # None => snap.of # r
             /\ \A c \in Calls : Active(c) => call[c].memo.of # r

(* A memory that says what its run has lived.                                *)
Recalls(m) == m.results = lived[m.of].done /\ m.state = lived[m.of].wrote

(* The memories of the call and of the snapshot are true, and a run that     *)
(* goes on has no snapshot beside it, which the next write would make stale. *)
Truthful ==
    ~overlapped =>
        /\ \A c \in Calls : Active(c) => Recalls(call[c].memo)
        /\ snap # None => Recalls(snap)
        /\ \A c \in Calls : call[c].pc \in {"deleted", "step", "backoff", "saving"} /\ snap # None
                               => snap.of # call[c].memo.of

(* Where the latest run is.  Before the delete the snapshot is still there;  *)
(* a resumed run that goes on has none, so that what it stores covers no     *)
(* other run's; a call of run that goes on is the latest; and when a call    *)
(* unwinds its run is stored or its end has been reported.                   *)
Located ==
    ~overlapped =>
        \A c \in Calls :
            /\ call[c].pc = "deleting" => snap # None /\ snap.of = call[c].memo.of
            /\ c \notin Fresh /\ call[c].pc \in {"deleted", "step", "backoff", "saving"} => snap = None
            /\ c \in Fresh /\ Active(c) => call[c].memo.of = latest
            /\ call[c].pc = "unwinding" => \/ call[c].memo.of \in told
                                           \/ snap # None /\ snap.of = call[c].memo.of

HInv == Alone /\ AllSorted /\ Unborn /\ Truthful /\ Located /\ NoLimbo

\* What the steps make of a sorted memory is sorted.
LEMMA SortedMemory ==
    ASSUME NEW m \in Snapshots, Sorted(m), m.at \in Steps
    PROVE  /\ Sorted([m EXCEPT !.at = @ + 1])
           /\ Sorted(After(m))
           /\ Sorted([m EXCEPT !.state = @ \cup {m.at}])
<1>1. m.at \in Nat /\ m.results \in Seq(Nat)
  BY WorkflowAssumption DEF Snapshots, Steps
<1>2. Sorted([m EXCEPT !.at = @ + 1])
  BY <1>1, LoadedMemory DEF Sorted
<1>3. Sorted([m EXCEPT !.state = @ \cup {m.at}])
  BY WrittenMemory DEF Sorted
<1>4. Sorted(After(m))
  <2> DEFINE r == After(m).results
  <2>1. /\ DOMAIN r = 1..Len(m.results) + 1 /\ Len(m.results) \in Nat
        /\ DOMAIN m.results = 1..Len(m.results)
        /\ r[Len(m.results) + 1] = m.at
        /\ \A i \in 1..Len(m.results) : r[i] = m.results[i] /\ r[i] \in Nat
    BY <1>1, CompletedMemory
  <2>2. After(m).at = m.at + 1
    BY CompletedMemory
  <2> DEFINE l == Len(m.results)
  <2>3. /\ \A i \in 1..l : r[i] < m.at /\ r[i] \in Nat
        /\ \A i, j \in 1..l : i < j => r[i] < r[j]
    BY <2>1 DEF Sorted
  <2> HIDE DEF r, l
  <2>4. ASSUME NEW i \in DOMAIN r PROVE r[i] < m.at + 1
    <3>1. i \in 1..l \/ i = l + 1
      BY <2>1 DEF l
    <3> QED BY <1>1, <2>1, <2>3, <3>1 DEF l
  <2>5. ASSUME NEW i \in DOMAIN r, NEW j \in DOMAIN r, i < j PROVE r[i] < r[j]
    <3>1. i \in 1..l /\ (j \in 1..l \/ j = l + 1)
      BY <2>1, <2>5 DEF l
    <3> QED BY <2>1, <2>3, <2>5, <3>1 DEF l
  <2> QED BY <2>2, <2>4, <2>5 DEF Sorted, r
<1> QED BY <1>2, <1>3, <1>4

\* An action after which no more calls are active keeps one alone.
LEMMA AloneKept ==
    ASSUME Alone, overlapped' = overlapped, \A c \in Calls : Active(c)' => Active(c)
    PROVE  Alone'
  BY DEF Alone

\* A call that quits before it took the flight.  If it had the run in hand,
\* the snapshot is still there or the end of the run is told.
LEMMA QuitHistory ==
    ASSUME Typed, HInv, NEW c \in Calls, Quits(c), told \subseteq told',
           UNCHANGED <<latest, crashes, overlapped>>,
           \/ call[c].pc = "new"
           \/ call[c].pc = "deleting"
           \/ call[c].memo.of \in told'
           \/ overlapped
    PROVE  HInv'
<1>1. /\ \A d \in Calls : d # c => call'[d] = call[d]
      /\ call'[c].pc = "ended" /\ UNCHANGED <<snap, lived>>
  BY MoveWellFormed DEF Quits, Idle
<1>2. \A d \in Calls : Active(d)' => Active(d) /\ d # c /\ call'[d] = call[d]
  BY <1>1 DEF Active
<1>3. Alone'
  BY <1>2, AloneKept DEF HInv
<1>4. AllSorted'
  BY <1>1, <1>2 DEF HInv, AllSorted, Sorted
<1>5. Unborn'
  <2>1. \A r \in Fresh : call'[r].pc = "new" => call[r].pc = "new"
    BY <1>1, WorkflowAssumption
  <2> QED BY <1>1, <1>2, <2>1 DEF HInv, Unborn
<1>6. Truthful'
  BY <1>1, <1>2 DEF HInv, Truthful, Recalls
<1>7. Located'
  BY <1>1, <1>2 DEF HInv, Located
<1>8. NoLimbo'
  <2> SUFFICES ASSUME latest # None, crashes = 0, ~overlapped,
                      ~(snap # None /\ snap.of = latest), latest \notin told'
               PROVE  \E d \in Calls : Active(d)' /\ call'[d].memo.of = latest
    BY <1>1 DEF NoLimbo
  <2>1. PICK d \in Calls : Active(d) /\ call[d].memo.of = latest
    BY DEF HInv, NoLimbo
  <2>2. d # c
    BY <2>1 DEF HInv, Located, Active
  <2> QED BY <1>1, <2>1, <2>2 DEF Active
<1> QED BY <1>3, <1>4, <1>5, <1>6, <1>7, <1>8 DEF HInv

\* A call whose place changes and whose memory does not, while its run is
\* not touched: a pause that ends, a signal.
LEMMA StayHistory ==
    ASSUME Typed, HInv, NEW c \in Calls, NEW n, NEW place,
           Stays(c, n, place, call[c].memo), UNCHANGED <<snap, lived>>, told \subseteq told',
           \/ place = call[c].pc
           \/ call[c].pc = "backoff" /\ place = "step"
           \/ call[c].pc = "backoff" /\ place = "unwinding" /\ call[c].memo.of \in told'
    PROVE  HInv'
<1>1. /\ \A d \in Calls : d # c => call'[d] = call[d]
      /\ call'[c].pc = place /\ call'[c].memo = call[c].memo
      /\ UNCHANGED <<snap, lived, latest, crashes, overlapped>>
  BY MoveWellFormed DEF Stays
<1>2. \A d \in Calls : (Active(d)' <=> Active(d)) /\ call'[d].memo = call[d].memo
  BY <1>1 DEF Active
<1>3. Alone'
  BY <1>1, <1>2, AloneKept DEF HInv
<1>4. AllSorted'
  BY <1>1, <1>2 DEF HInv, AllSorted, Sorted
<1>5. Unborn'
  <2>1. \A r \in Fresh : call'[r].pc = "new" => call[r].pc = "new"
    BY <1>1, WorkflowAssumption
  <2> QED BY <1>1, <1>2, <2>1 DEF HInv, Unborn
<1>6. Truthful'
  <2>1. \A d \in Calls : call'[d].pc \in {"deleted", "step", "backoff", "saving"}
                            => call[d].pc \in {"deleted", "step", "backoff", "saving"}
    BY <1>1
  <2> QED BY <1>1, <1>2, <2>1 DEF HInv, Truthful, Recalls
<1>7. Located'
  <2>1. \A d \in Calls : call'[d].pc \in {"deleted", "step", "backoff", "saving"}
                            => call[d].pc \in {"deleted", "step", "backoff", "saving"}
    BY <1>1
  <2>2. \A d \in Calls : call'[d].pc = "deleting" => call[d].pc = "deleting"
    BY <1>1
  <2>3. \A d \in Calls : call'[d].pc = "unwinding" => call[d].pc = "unwinding" \/ call[d].memo.of \in told'
    BY <1>1
  <2> QED BY <1>1, <1>2, <2>1, <2>2, <2>3 DEF HInv, Located
<1>8. NoLimbo'
  BY <1>1, <1>2 DEF HInv, NoLimbo
<1> QED BY <1>3, <1>4, <1>5, <1>6, <1>7, <1>8 DEF HInv

\* A call that takes the flight, of run from the beginning or of resume after
\* its delete, or finds that there is nothing left to execute.
LEMMA StartHistory ==
    ASSUME Typed, HInv, NEW c \in Calls, NEW n, NEW h, NEW m, Starts(c, n, h, m),
           UNCHANGED <<snap, lived, crashes>>,
           \/ /\ call[c].pc = "deleted" /\ m = call[c].memo
              /\ UNCHANGED <<latest, overlapped>>
           \/ /\ call[c].pc = "new" /\ c \in Fresh /\ latest' = c /\ Meet
              /\ m = [at |-> 1, results |-> <<>>, state |-> {}, of |-> c]
    PROVE  HInv'
<1>1. /\ \A d \in Calls : d # c => call'[d] = call[d]
      /\ call'[c].pc \in {"step", "unwinding"} /\ call'[c].memo = m
      /\ told \subseteq told' /\ (call'[c].pc = "unwinding" => m.of \in told')
      /\ UNCHANGED <<snap, lived, crashes>>
  BY MoveWellFormed DEF Starts
<1>2. CASE /\ call[c].pc = "deleted" /\ m = call[c].memo
           /\ UNCHANGED <<latest, overlapped>>
  <2>1. \A d \in Calls : (Active(d)' <=> Active(d)) /\ call'[d].memo = call[d].memo
    BY <1>1, <1>2 DEF Active
  <2>2. Alone'
    BY <1>2, <2>1, AloneKept DEF HInv
  <2>3. AllSorted'
    BY <1>1, <2>1 DEF HInv, AllSorted, Sorted
  <2>4. Unborn'
    <3>1. \A r \in Fresh : call'[r].pc = "new" => call[r].pc = "new"
      BY <1>1, WorkflowAssumption
    <3> QED BY <1>1, <2>1, <3>1 DEF HInv, Unborn
  <2>5. \A d \in Calls : /\ call'[d].pc \in {"deleted", "step", "backoff", "saving"}
                               => call[d].pc \in {"deleted", "step", "backoff", "saving"}
                         /\ call'[d].pc = "deleting" => call[d].pc = "deleting"
                         /\ call'[d].pc = "unwinding" => call[d].pc = "unwinding" \/ call[d].memo.of \in told'
    BY <1>1, <1>2
  <2>6. Truthful'
    BY <1>1, <1>2, <2>1, <2>5 DEF HInv, Truthful, Recalls
  <2>7. Located'
    BY <1>1, <1>2, <2>1, <2>5 DEF HInv, Located
  <2>8. NoLimbo'
    BY <1>1, <1>2, <2>1 DEF HInv, NoLimbo
  <2> QED BY <2>2, <2>3, <2>4, <2>6, <2>7, <2>8 DEF HInv
<1>3. CASE /\ call[c].pc = "new" /\ c \in Fresh /\ latest' = c /\ Meet
           /\ m = [at |-> 1, results |-> <<>>, state |-> {}, of |-> c]
  <2>1. ~overlapped' => ~overlapped /\ \A d \in Calls : ~Active(d)
    BY <1>3 DEF Meet, Typed
  <2>2. \A d \in Calls : d # c => (Active(d)' <=> Active(d))
    BY <1>1 DEF Active
  <2>3. Active(c)' /\ m.of = c /\ m.results = <<>> /\ m.state = {}
    BY <1>1, <1>3 DEF Active
  <2>4. Alone'
    BY <2>1, <2>2 DEF Alone
  <2>5. AllSorted'
    BY <1>1, <2>2, <2>3 DEF HInv, AllSorted, Sorted
  <2>6. Unborn'
    <3>1. \A r \in Fresh : call'[r].pc = "new" => call[r].pc = "new" /\ r # c
      BY <1>1, WorkflowAssumption
    <3> QED BY <1>1, <2>2, <2>3, <3>1 DEF HInv, Unborn
  <2>7. ~overlapped' => \A d \in Calls : call'[d].pc \notin {"new", "ended"} => d = c
    BY <2>1, <2>2 DEF Active
  <2>8. Recalls(m) /\ (snap # None => snap.of # c)
    BY <1>3, <2>3 DEF HInv, Unborn, Recalls
  <2>9. Truthful'
    BY <1>1, <2>1, <2>3, <2>7, <2>8 DEF HInv, Truthful, Recalls, Active
  <2>10. Located'
    BY <1>1, <1>3, <2>3, <2>7 DEF Located, Active
  <2>11. NoLimbo'
    BY <1>1, <1>3, <2>3 DEF NoLimbo
  <2> QED BY <2>4, <2>5, <2>6, <2>9, <2>10, <2>11 DEF HInv
<1> QED BY <1>2, <1>3

\* Resume takes the snapshot in hand.
LEMMA TakeHistory ==
    ASSUME Typed, HInv, NEW c \in Calls, NEW n, Takes(c, n)
    PROVE  HInv'
<1>1. /\ \A d \in Calls : d # c => call'[d] = call[d]
      /\ call'[c].pc = "deleting" /\ call'[c].memo = [snap EXCEPT !.at = @ + 1]
      /\ call[c].pc = "new" /\ c \notin Fresh /\ snap # None
      /\ UNCHANGED <<snap, lived, told, latest, crashes>> /\ Meet
  BY MoveWellFormed DEF Takes
<1>2. snap \in Snapshots /\ snap.at \in Steps
  BY <1>1 DEF Typed
<1> DEFINE m == call'[c].memo
<1>3. m.of = snap.of /\ m.results = snap.results /\ m.state = snap.state
  BY <1>1, <1>2, LoadedMemory
<1>4. ~overlapped' => ~overlapped /\ \A d \in Calls : ~Active(d)
  BY <1>1 DEF Meet, Typed
<1>5. \A d \in Calls : d # c => (Active(d)' <=> Active(d))
  BY <1>1 DEF Active
<1>6. ~overlapped' => \A d \in Calls : call'[d].pc \notin {"new", "ended"} => d = c
  BY <1>4, <1>5 DEF Active
<1>7. Alone'
  BY <1>4, <1>5 DEF Alone
<1>8. AllSorted'
  <2>1. Sorted(m)
    BY <1>1, <1>2, SortedMemory DEF HInv, AllSorted
  <2>2. \A d \in Calls : Active(d)' => Sorted(call'[d].memo)
    BY <1>1, <1>5, <2>1 DEF HInv, AllSorted
  <2>3. snap' # None => Sorted(snap')
    BY <1>1 DEF HInv, AllSorted
  <2> QED BY <2>2, <2>3 DEF AllSorted, Sorted
<1>9. Unborn'
  <2>1. \A r \in Fresh : call'[r].pc = "new" => call[r].pc = "new"
    BY <1>1, WorkflowAssumption
  <2>2. \A d \in Calls : Active(d)' => \/ call'[d].memo.of = snap.of
                                       \/ Active(d) /\ call'[d].memo.of = call[d].memo.of
    BY <1>1, <1>3, <1>5
  <2> HIDE DEF m
  <2> QED BY <1>1, <2>1, <2>2 DEF HInv, Unborn
<1>10. Truthful'
  BY <1>1, <1>3, <1>4, <1>6 DEF HInv, Truthful, Recalls, Active
<1>11. Located'
  BY <1>1, <1>3, <1>6 DEF Located, Active
<1>12. NoLimbo'
  BY <1>1, <1>4, <1>5 DEF HInv, NoLimbo
<1> QED BY <1>7, <1>8, <1>9, <1>10, <1>11, <1>12 DEF HInv

\* The snapshot is deleted; the call has the run in hand.
LEMMA DeleteHistory ==
    ASSUME Typed, HInv, NEW c \in Calls, NEW n, call[c].pc = "deleting",
           Stays(c, n, "deleted", call[c].memo), snap' = None, UNCHANGED <<lived, told>>
    PROVE  HInv'
<1>1. /\ \A d \in Calls : d # c => call'[d] = call[d]
      /\ call'[c].pc = "deleted" /\ call'[c].memo = call[c].memo
      /\ snap' = None
      /\ UNCHANGED <<lived, told, latest, crashes, overlapped>>
  BY MoveWellFormed DEF Stays
<1>2. \A d \in Calls : (Active(d)' <=> Active(d)) /\ call'[d].memo = call[d].memo
  BY <1>1 DEF Active
<1>3. Active(c)
  BY DEF Active
<1>4. ~overlapped => \A d \in Calls : Active(d) => d = c
  BY <1>3 DEF HInv, Alone
<1>5. Alone'
  BY <1>1, <1>2, AloneKept DEF HInv
<1>6. AllSorted'
  BY <1>1, <1>2 DEF HInv, AllSorted, Sorted
<1>7. Unborn'
  <2>1. \A r \in Fresh : call'[r].pc = "new" => call[r].pc = "new"
    BY <1>1, WorkflowAssumption
  <2> QED BY <1>1, <1>2, <2>1 DEF HInv, Unborn
<1>8. Truthful'
  BY <1>1, <1>2 DEF HInv, Truthful, Recalls
<1>9. Located'
  <2> SUFFICES ASSUME ~overlapped PROVE Located'
    BY <1>1 DEF Located
  <2>1. \A d \in Calls : call'[d].pc \notin {"new", "ended"} => d = c
    BY <1>2, <1>4 DEF Active
  <2> QED BY <1>1, <1>2, <2>1 DEF HInv, Located, Active
<1>10. NoLimbo'
  <2> SUFFICES ASSUME latest # None, crashes = 0, ~overlapped, latest \notin told
               PROVE  \E d \in Calls : Active(d)' /\ call'[d].memo.of = latest
    BY <1>1 DEF NoLimbo
  <2>1. CASE \E d \in Calls : Active(d) /\ call[d].memo.of = latest
    BY <1>2, <2>1
  <2>2. CASE snap.of = latest
    BY <1>2, <1>3, <2>2 DEF HInv, Located
  <2> QED BY <2>1, <2>2 DEF HInv, NoLimbo
<1> QED BY <1>5, <1>6, <1>7, <1>8, <1>9, <1>10 DEF HInv

\* A step writes: the memory m of the call and the history of its run move on
\* together.
LEMMA WriteHistory ==
    ASSUME Typed, HInv, NEW c \in Calls, NEW n, NEW place, NEW m, call[c].pc = "step",
           Stays(c, n, place, m), snap' = snap, told \subseteq told',
           place \in {"step", "backoff", "saving", "unwinding"},
           place = "unwinding" => m.of \in told',
           m.of = call[c].memo.of, Sorted(m),
           \A r \in Fresh : r # m.of => lived'[r] = lived[r],
           Recalls(call[c].memo) => m.results = lived'[m.of].done /\ m.state = lived'[m.of].wrote
    PROVE  HInv'
<1>1. /\ \A d \in Calls : d # c => call'[d] = call[d]
      /\ call'[c].pc = place /\ call'[c].memo = m
      /\ UNCHANGED <<snap, latest, crashes, overlapped>>
  BY MoveWellFormed DEF Stays
<1>2. \A d \in Calls : (Active(d)' <=> Active(d)) /\ call'[d].memo.of = call[d].memo.of
  BY <1>1 DEF Active
<1>3. Active(c) /\ m.of \in Fresh
  BY SnapshotFields DEF Active, Typed, WellFormed
<1>4. ~overlapped => \A d \in Calls : Active(d) => d = c
  BY <1>3 DEF HInv, Alone
<1>5. Alone'
  BY <1>1, <1>2, AloneKept DEF HInv
<1>6. AllSorted'
  BY <1>1, <1>2 DEF HInv, AllSorted, Sorted
<1>7. Unborn'
  <2>1. \A r \in Fresh : call'[r].pc = "new" => call[r].pc = "new" /\ r # m.of
    BY <1>1, <1>3, WorkflowAssumption DEF HInv, Unborn
  <2> QED BY <1>1, <1>2, <2>1 DEF HInv, Unborn
<1>8. Truthful'
  <2> SUFFICES ASSUME ~overlapped PROVE Truthful'
    BY <1>1 DEF Truthful
  <2>1. m.results = lived'[m.of].done /\ m.state = lived'[m.of].wrote
    BY <1>3 DEF HInv, Truthful
  <2>2. snap # None => snap.of # m.of /\ snap.of \in Fresh
    BY SnapshotFields DEF HInv, Truthful, Typed
  <2>3. snap # None => snap.results = lived'[snap.of].done /\ snap.state = lived'[snap.of].wrote
    BY <2>2 DEF HInv, Truthful, Recalls
  <2>4. \A d \in Calls : Active(d)' => d = c
    BY <1>2, <1>4
  <2>5. \A d \in Calls : call'[d].pc \in {"deleted", "step", "backoff", "saving"} => d = c
    BY <1>2, <1>4 DEF Active
  <2>6. \A d \in Calls : Active(d)' => /\ call'[d].memo.results = lived'[call'[d].memo.of].done
                                       /\ call'[d].memo.state = lived'[call'[d].memo.of].wrote
    BY <1>1, <2>1, <2>4
  <2>7. \A d \in Calls : call'[d].pc \in {"deleted", "step", "backoff", "saving"} /\ snap # None
                            => snap.of # call'[d].memo.of
    BY <1>1, <2>2, <2>5
  <2> QED BY <1>1, <2>3, <2>6, <2>7 DEF Truthful, Recalls
<1>9. Located'
  <2> SUFFICES ASSUME ~overlapped PROVE Located'
    BY <1>1 DEF Located
  <2>1. \A d \in Calls : call'[d].pc \notin {"new", "ended"} => d = c
    BY <1>2, <1>4 DEF Active
  <2> QED BY <1>1, <1>2, <1>3, <2>1 DEF HInv, Located, Active
<1>10. NoLimbo'
  BY <1>1, <1>2 DEF HInv, NoLimbo
<1> QED BY <1>5, <1>6, <1>7, <1>8, <1>9, <1>10 DEF HInv

\* The snapshot is stored or the run has failed.
LEMMA SaveHistory ==
    ASSUME Typed, HInv, NEW c \in Calls, NEW n, call[c].pc = "saving",
           Stays(c, n, "unwinding", call[c].memo), lived' = lived,
           \/ snap' = call[c].memo /\ told' = told
           \/ snap' = snap /\ told' = told \cup {call[c].memo.of}
    PROVE  HInv'
<1> DEFINE m == call[c].memo
<1>1. /\ \A d \in Calls : d # c => call'[d] = call[d]
      /\ call'[c].pc = "unwinding" /\ call'[c].memo = m
      /\ UNCHANGED <<lived, latest, crashes, overlapped>>
  BY MoveWellFormed DEF Stays
<1>2. \A d \in Calls : (Active(d)' <=> Active(d)) /\ call'[d].memo = call[d].memo
  BY <1>1 DEF Active
<1>3. Active(c) /\ m \in Snapshots /\ m # None
  BY NoneAssumption DEF Active, Typed, WellFormed
<1>4. ~overlapped => \A d \in Calls : Active(d) => d = c
  BY <1>3 DEF HInv, Alone
<1>5. (snap' = m /\ told' = told) \/ (snap' = snap /\ told' = told \cup {m.of})
  OBVIOUS
<1> HIDE DEF m
<1>6. Alone'
  BY <1>1, <1>2, AloneKept DEF HInv
<1>7. AllSorted'
  <2>1. \A d \in Calls : Active(d)' => Sorted(call'[d].memo)
    BY <1>2 DEF HInv, AllSorted
  <2>2. snap' # None => Sorted(snap')
    BY <1>3, <1>5 DEF HInv, AllSorted, m
  <2> QED BY <2>1, <2>2 DEF AllSorted, Sorted
<1>8. Unborn'
  <2>1. \A r \in Fresh : call'[r].pc = "new" => call[r].pc = "new" /\ r # m.of
    BY <1>1, <1>3, WorkflowAssumption DEF HInv, Unborn, m
  <2>2. snap' # None => snap'.of = m.of \/ (snap # None /\ snap'.of = snap.of)
    BY <1>5
  <2> QED BY <1>1, <1>2, <2>1, <2>2 DEF HInv, Unborn
<1>9. Truthful'
  <2> SUFFICES ASSUME ~overlapped PROVE Truthful'
    BY <1>1 DEF Truthful
  <2>1. snap' # None => Recalls(snap')
    BY <1>3, <1>5 DEF HInv, Truthful, m
  <2>2. \A d \in Calls : Active(d)' => Recalls(call'[d].memo)
    BY <1>2 DEF HInv, Truthful
  <2>3. \A d \in Calls : call'[d].pc \notin {"deleted", "step", "backoff", "saving"}
    BY <1>1, <1>2, <1>4 DEF Active
  <2> QED BY <1>1, <2>1, <2>2, <2>3 DEF Truthful, Recalls
<1>10. Located'
  <2> SUFFICES ASSUME ~overlapped PROVE Located'
    BY <1>1 DEF Located
  <2>1. \A d \in Calls : call'[d].pc \notin {"new", "ended"} => d = c
    BY <1>2, <1>4 DEF Active
  <2>2. m.of \in told' \/ (snap' # None /\ snap'.of = m.of)
    BY <1>3, <1>5
  <2>3. c \in Fresh => m.of = latest
    BY <1>3 DEF HInv, Located, m
  <2> QED BY <1>1, <2>1, <2>2, <2>3 DEF Located, Active
<1>11. NoLimbo'
  <2> SUFFICES ASSUME latest # None, crashes = 0, ~overlapped
               PROVE  \/ \E d \in Calls : Active(d)' /\ call'[d].memo.of = latest
                      \/ snap' # None /\ snap'.of = latest
                      \/ latest \in told'
    BY <1>1 DEF NoLimbo
  <2>1. CASE latest \in told
    BY <1>5, <2>1
  <2>2. CASE \E d \in Calls : Active(d) /\ call[d].memo.of = latest
    BY <1>2, <2>2
  <2>3. CASE snap # None /\ snap.of = latest
    <3>1. c \in Fresh /\ m.of = latest
      BY <1>3, <2>3 DEF HInv, Located, m
    <3> QED BY <1>2, <1>3, <3>1 DEF m
  <2> QED BY <2>1, <2>2, <2>3 DEF HInv, NoLimbo
<1> QED BY <1>6, <1>7, <1>8, <1>9, <1>10, <1>11 DEF HInv

\* The flight is released and the call returns.
LEMMA ReturnHistory ==
    ASSUME Typed, HInv, NEW c \in Calls, Return(c)
    PROVE  HInv'
<1>1. /\ \A d \in Calls : d # c => call'[d] = call[d]
      /\ call[c].pc = "unwinding" /\ call'[c].pc = "ended"
      /\ UNCHANGED <<snap, lived, told, latest, crashes, overlapped>>
  BY ReturnMoves, MoveWellFormed DEF Idle
<1>2. \A d \in Calls : Active(d)' => Active(d) /\ d # c /\ call'[d] = call[d]
  BY <1>1 DEF Active
<1>3. Alone'
  BY <1>1, <1>2, AloneKept DEF HInv
<1>4. AllSorted'
  BY <1>1, <1>2 DEF HInv, AllSorted, Sorted
<1>5. Unborn'
  <2>1. \A r \in Fresh : call'[r].pc = "new" => call[r].pc = "new"
    BY <1>1, WorkflowAssumption
  <2> QED BY <1>1, <1>2, <2>1 DEF HInv, Unborn
<1>6. Truthful'
  BY <1>1, <1>2 DEF HInv, Truthful, Recalls
<1>7. Located'
  BY <1>1, <1>2 DEF HInv, Located
<1>8. NoLimbo'
  <2> SUFFICES ASSUME latest # None, crashes = 0, ~overlapped,
                      ~(snap # None /\ snap.of = latest), latest \notin told
               PROVE  \E d \in Calls : Active(d)' /\ call'[d].memo.of = latest
    BY <1>1 DEF NoLimbo
  <2>1. PICK d \in Calls : Active(d) /\ call[d].memo.of = latest
    BY DEF HInv, NoLimbo
  <2>2. d # c
    BY <1>1, <2>1 DEF HInv, Located
  <2> QED BY <1>1, <2>1, <2>2 DEF Active
<1> QED BY <1>3, <1>4, <1>5, <1>6, <1>7, <1>8 DEF HInv

\* A crash: what is left was true before.
LEMMA CrashHistory ==
    ASSUME Typed, HInv, NEW h \in Handles, Crash(h)
    PROVE  HInv'
<1>1. /\ UNCHANGED <<lived, told, latest, overlapped>> /\ crashes' = crashes + 1
      /\ backend = "memory" => snap' = None
      /\ backend # "memory" => snap' = snap
  BY DEF Crash
<1>2. \A c \in Calls : call'[c] = call[c] \/ (Active(c) /\ call'[c].pc = "ended")
  BY CrashMoves
<1>3. \A c \in Calls : Active(c)' => Active(c) /\ call'[c] = call[c] /\ snap' = snap
  BY <1>1, <1>2, CrashMoves DEF Active
<1>4. Alone'
  BY <1>1, <1>3, AloneKept DEF HInv
<1>5. AllSorted'
  BY <1>1, <1>3 DEF HInv, AllSorted, Sorted
<1>6. Unborn'
  <2>1. \A r \in Fresh : call'[r].pc = "new" => call[r].pc = "new"
    BY <1>2, WorkflowAssumption
  <2> QED BY <1>1, <1>3, <2>1 DEF HInv, Unborn
<1>7. Truthful'
  BY <1>1, <1>2, <1>3 DEF HInv, Truthful, Recalls, Active
<1>8. Located'
  BY <1>1, <1>2, <1>3 DEF HInv, Located, Active
<1>9. NoLimbo'
  BY <1>1 DEF Typed, NoLimbo
<1> QED BY <1>4, <1>5, <1>6, <1>7, <1>8, <1>9 DEF HInv

LEMMA InitHistory == Init => FlightIsExact /\ HInv
<1> SUFFICES ASSUME Init PROVE FlightIsExact /\ HInv
  OBVIOUS
<1>1. \A c \in Calls : call[c].pc = "new" /\ ~Active(c) /\ ~Executing(c)
  BY DEF Init, Idle, Active, Executing
<1>2. \A r \in Fresh : lived[r].done = <<>> /\ lived[r].wrote = {}
  BY DEF Init
<1>3. snap = None /\ latest = None /\ flights = {}
  BY DEF Init
<1>4. FlightIsExact
  BY <1>1, <1>3 DEF FlightIsExact
<1>5. Alone /\ AllSorted /\ Unborn /\ Truthful /\ Located /\ NoLimbo
  BY <1>1, <1>2, <1>3 DEF Alone, AllSorted, Unborn, Truthful, Located, NoLimbo
<1> QED BY <1>4, <1>5 DEF HInv

LEMMA NextHistory == Typed /\ FlightIsExact /\ HInv /\ [Next]_vars => HInv'
<1> SUFFICES ASSUME Typed, FlightIsExact, HInv, [Next]_vars PROVE HInv'
  OBVIOUS
<1>1. ASSUME NEW c \in Calls, NEW h \in Handles, Run(c, h) PROVE HInv'
  <2> DEFINE m == [at |-> 1, results |-> <<>>, state |-> {}, of |-> c]
  <2>1. /\ c \in Fresh /\ call[c].pc = "new" /\ ExecuteWorkflow(c, h, m)
        /\ UNCHANGED <<backend, snap, lived, crashes>>
        /\ h \in flights => UNCHANGED <<latest, overlapped>>
        /\ h \notin flights => latest' = c /\ Meet
    BY <1>1 DEF Run
  <2>2. m \in Snapshots /\ m.of = c
    BY <2>1, FreshMemory
  <2>3. ASSUME Quits(c), told' = told, h \in flights PROVE HInv'
    BY <2>1, <2>3, QuitHistory
  <2>4. ASSUME Quits(c), told' = told \cup {m.of}, h \notin flights PROVE HInv'
    <3>1. /\ \A d \in Calls : d # c => call'[d] = call[d]
          /\ call'[c].pc = "ended" /\ UNCHANGED <<snap, lived>>
      BY <2>4, MoveWellFormed DEF Quits, Idle
    <3>2. \A d \in Calls : Active(d)' => Active(d) /\ d # c /\ call'[d] = call[d]
      BY <3>1 DEF Active
    <3>3. latest' = c /\ c \in told' /\ (~overlapped' => ~overlapped /\ \A d \in Calls : ~Active(d))
      BY <2>1, <2>2, <2>4 DEF Meet, Typed
    <3>4. Alone'
      BY <3>2, <3>3 DEF Alone
    <3>5. AllSorted'
      BY <3>1, <3>2 DEF HInv, AllSorted, Sorted
    <3>6. Unborn'
      <4>1. \A r \in Fresh : call'[r].pc = "new" => call[r].pc = "new"
        BY <3>1, WorkflowAssumption
      <4> QED BY <3>1, <3>2, <4>1 DEF HInv, Unborn
    <3>7. ~overlapped' => \A d \in Calls : call'[d].pc \in {"new", "ended"}
      BY <3>2, <3>3 DEF Active
    <3>8. Truthful'
      BY <3>1, <3>3, <3>7 DEF HInv, Truthful, Recalls, Active
    <3>9. Located'
      BY <3>7 DEF Located, Active
    <3>10. NoLimbo'
      BY <3>3 DEF NoLimbo
    <3> QED BY <3>4, <3>5, <3>6, <3>8, <3>9, <3>10 DEF HInv
  <2>5. ASSUME NEW n, Starts(c, n, h, m) PROVE HInv'
    <3>1. h \notin flights
      BY <2>5 DEF Starts
    <3> QED BY <2>1, <2>5, <3>1, StartHistory
  <2> QED BY <2>1, <2>2, <2>3, <2>4, <2>5, ExecuteMoves
<1>2. ASSUME NEW c \in Calls, NEW h \in Handles, Load(c, h) PROVE HInv'
  <2>1. CASE Quits(c) /\ UNCHANGED <<told, latest, crashes, backend, overlapped>>
    BY <1>2, <2>1, LoadMoves, QuitHistory
  <2>2. CASE \E n : Takes(c, n)
    BY <2>2, TakeHistory
  <2> QED BY <1>2, <2>1, <2>2, LoadMoves
<1>3. ASSUME NEW c \in Calls, Delete(c) PROVE HInv'
  <2>1. call[c].pc = "deleting" /\ UNCHANGED <<told, latest, crashes, backend, overlapped>>
    BY <1>3, DeleteMoves
  <2>2. CASE Quits(c)
    BY <2>1, <2>2, QuitHistory
  <2>3. CASE snap' = None /\ lived' = lived /\ \E n : Stays(c, n, "deleted", call[c].memo)
    BY <2>1, <2>3, DeleteHistory
  <2> QED BY <1>3, <2>2, <2>3, DeleteMoves
<1>4. ASSUME NEW c \in Calls, Enter(c) PROVE HInv'
  <2> DEFINE m == call[c].memo
             h == call[c].on
  <2>1. /\ call[c].pc = "deleted" /\ ExecuteWorkflow(c, h, m)
        /\ UNCHANGED <<backend, snap, lived, latest, crashes, overlapped>>
    BY <1>4 DEF Enter
  <2>2. m \in Snapshots /\ h \in Handles /\ Active(c) /\ ~Executing(c)
    BY <2>1 DEF Typed, WellFormed, Active, Executing
  <2>3. h \in flights => overlapped
    <3> SUFFICES ASSUME h \in flights, ~overlapped PROVE FALSE
      BY DEF Typed
    <3>1. PICK d \in Calls : Executing(d)
      BY DEF FlightIsExact
    <3>2. Active(d) /\ d # c
      BY <2>2, <3>1 DEF Active, Executing
    <3> QED BY <2>2, <3>2 DEF HInv, Alone
  <2> HIDE DEF m, h
  <2>4. ASSUME Quits(c), told' = told, h \in flights PROVE HInv'
    BY <2>1, <2>3, <2>4, QuitHistory
  <2>5. ASSUME Quits(c), told' = told \cup {m.of} PROVE HInv'
    BY <2>1, <2>5, QuitHistory DEF m
  <2>6. ASSUME NEW n, Starts(c, n, h, m) PROVE HInv'
    BY <2>1, <2>6, StartHistory DEF m
  <2> QED BY <2>1, <2>2, <2>4, <2>5, <2>6, ExecuteMoves
<1>5. ASSUME NEW c \in Calls, StepCompletes(c) PROVE HInv'
  <2> DEFINE m == call[c].memo
  <2>1. /\ call[c].pc = "step" /\ snap' = snap
        /\ lived' = [lived EXCEPT ![m.of] = [done |-> Append(lived[m.of].done, m.at),
                                             wrote |-> lived[m.of].wrote \cup {m.at}]]
    BY <1>5, CompleteMoves
  <2>2. PICK n, place : /\ place \in {"step", "unwinding"}
                        /\ Stays(c, n, place, After(m))
                        /\ told' = IF place = "step" THEN told ELSE told \cup {m.of}
    BY <1>5, CompleteMoves
  <2>3. m \in Snapshots /\ m.at \in Steps /\ m.of \in Fresh /\ Active(c)
    BY <2>1, SnapshotFields DEF Typed, WellFormed, Active
  <2> HIDE DEF m
  <2>4. /\ After(m).of = m.of /\ After(m).results = Append(m.results, m.at)
        /\ After(m).state = m.state \cup {m.at}
    BY <2>3, CompletedMemory
  <2>5. Sorted(After(m))
    BY <2>3, SortedMemory DEF HInv, AllSorted, m
  <2>6. /\ \A r \in Fresh : r # m.of => lived'[r] = lived[r]
        /\ lived'[m.of].done = Append(lived[m.of].done, m.at)
        /\ lived'[m.of].wrote = lived[m.of].wrote \cup {m.at}
    BY <2>1, <2>3 DEF Typed
  <2>7. Recalls(m) => /\ After(m).results = lived'[After(m).of].done
                      /\ After(m).state = lived'[After(m).of].wrote
    BY <2>4, <2>6 DEF Recalls
  <2>8. told \subseteq told' /\ (place = "unwinding" => After(m).of \in told')
    BY <2>2, <2>4
  <2> QED BY <2>1, <2>2, <2>4, <2>5, <2>6, <2>7, <2>8, WriteHistory DEF m
<1>6. ASSUME NEW c \in Calls, StepThrows(c) PROVE HInv'
  <2> DEFINE m == call[c].memo
             w == [m EXCEPT !.state = @ \cup {m.at}]
  <2>1. /\ call[c].pc = "step" /\ snap' = snap
        /\ lived' = [lived EXCEPT ![m.of].wrote = @ \cup {m.at}]
    BY <1>6, ThrowMoves
  <2>2. PICK n, place : /\ place \in {"backoff", "saving", "unwinding"}
                        /\ Stays(c, n, place, w)
                        /\ told' = IF place = "unwinding" THEN told \cup {m.of} ELSE told
    BY <1>6, ThrowMoves
  <2>3. m \in Snapshots /\ m.at \in Steps /\ m.of \in Fresh /\ Active(c)
    BY <2>1, SnapshotFields DEF Typed, WellFormed, Active
  <2> HIDE DEF m
  <2>4. w.of = m.of /\ w.results = m.results /\ w.state = m.state \cup {m.at}
    BY <2>3, WrittenMemory
  <2>5. Sorted(w)
    BY <2>3, SortedMemory DEF HInv, AllSorted, m
  <2>6. /\ \A r \in Fresh : r # m.of => lived'[r] = lived[r]
        /\ lived'[m.of].done = lived[m.of].done
        /\ lived'[m.of].wrote = lived[m.of].wrote \cup {m.at}
    BY <2>1, <2>3 DEF Typed
  <2> HIDE DEF w
  <2>7. Recalls(m) => w.results = lived'[w.of].done /\ w.state = lived'[w.of].wrote
    BY <2>4, <2>6 DEF Recalls
  <2>8. told \subseteq told' /\ (place = "unwinding" => w.of \in told')
    BY <2>2, <2>4
  <2> QED BY <2>1, <2>2, <2>4, <2>5, <2>6, <2>7, <2>8, WriteHistory DEF m
<1>7. ASSUME NEW c \in Calls, BackoffOver(c) PROVE HInv'
  <2>1. call[c].pc = "backoff" /\ UNCHANGED <<snap, lived>>
    BY <1>7, BackoffMoves
  <2>2. PICK n, place : /\ place \in {"step", "unwinding"}
                        /\ Stays(c, n, place, call[c].memo)
                        /\ told' = IF place = "step" THEN told ELSE told \cup {call[c].memo.of}
    BY <1>7, BackoffMoves
  <2>3. told \subseteq told' /\ (place = "unwinding" => call[c].memo.of \in told')
    BY <2>2
  <2> QED BY <2>1, <2>2, <2>3, StayHistory
<1>8. ASSUME NEW c \in Calls, SaveSnapshot(c) PROVE HInv'
  BY <1>8, SaveMoves, SaveHistory
<1>9. ASSUME NEW c \in Calls, Return(c) PROVE HInv'
  BY <1>9, ReturnHistory
<1>10. ASSUME NEW c \in Calls, Abort(c) PROVE HInv'
  BY <1>10, AbortMoves, StayHistory
<1>11. ASSUME NEW h \in Handles, Crash(h) PROVE HInv'
  BY <1>11, CrashHistory
<1>12. CASE UNCHANGED vars
  BY <1>12 DEF vars, HInv, Alone, AllSorted, Sorted, Unborn, Truthful, Recalls, Located,
               NoLimbo, Active
<1> QED BY <1>1, <1>2, <1>3, <1>4, <1>5, <1>6, <1>7, <1>8, <1>9, <1>10, <1>11, <1>12 DEF Next

-----------------------------------------------------------------------------

IInv == Typed /\ FlightIsExact /\ HInv

LEMMA Inductive == Spec => []IInv
<1>1. Init => IInv
  BY InitTyped, InitHistory DEF IInv
<1>2. IInv /\ [Next]_vars => IInv'
  BY NextTyped, NextFlights, NextHistory DEF IInv
<1> QED BY <1>1, <1>2, PTL DEF Spec

\* Type correctness of the engine's state: an executing call has a handle, a
\* memory that points at a step of the workflow, and an attempt that its
\* step's retry policy allows.
THEOREM TypeCorrect == Spec => []TypeOK
<1>1. IInv => TypeOK
  BY DEF IInv, Typed, WellFormed, CallRecords, TypeOK, Active, Here
<1> QED BY <1>1, Inductive, PTL

\* The single-flight registry of single-flight.ts has an entry for a handle
\* exactly while one call executes the run on it.
THEOREM FlightsExact == Spec => []FlightIsExact
<1>1. IInv => FlightIsExact
  BY DEF IInv
<1> QED BY <1>1, Inductive, PTL

\* Through suspensions, retries, crashes and resumes a run that is executed
\* has the results of exactly the steps that completed, in order, and every
\* write to its shared state, as long as calls have not overlapped.
THEOREM HistoryExact == Spec => []HistoryIsExact
<1>1. IInv => HistoryIsExact
  <2> SUFFICES ASSUME IInv, ~overlapped, NEW c \in Calls, Executing(c)
               PROVE  /\ call[c].memo.results = lived[call[c].memo.of].done
                      /\ call[c].memo.state = lived[call[c].memo.of].wrote
                      /\ \A i, j \in DOMAIN lived[call[c].memo.of].done :
                            i < j => lived[call[c].memo.of].done[i] < lived[call[c].memo.of].done[j]
    BY DEF HistoryIsExact
  <2>1. Active(c)
    BY DEF Executing, Active
  <2>2. Recalls(call[c].memo) /\ Sorted(call[c].memo)
    BY <2>1 DEF IInv, HInv, Truthful, AllSorted
  <2> QED BY <2>2 DEF Recalls, Sorted
<1> QED BY <1>1, Inductive, PTL

\* The latest run is in the hands of a call, or stored, or its end has been
\* told, unless a process crashed or calls overlapped.
THEOREM RunsAreKept == Spec => []NoLimbo
<1>1. IInv => NoLimbo
  BY DEF IInv, HInv
<1> QED BY <1>1, Inductive, PTL
=============================================================================
