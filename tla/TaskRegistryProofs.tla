------------------------- MODULE TaskRegistryProofs -------------------------
(***************************************************************************)
(* Proofs about TaskRegistry for every set of submits, cancels and ids and *)
(* every number of slots: type correctness, the agreement between slots    *)
(* and runs, the bound on the work in flight, the address of every abort   *)
(* and what is left when nothing is in flight. The last part is about the  *)
(* events of one task (TaskSubscribe): no gap and no repeat.               *)
(***************************************************************************)
EXTENDS TaskRegistry, FiniteSetTheorems, SequenceTheorems, TLAPS

\* BoundedGrants brings its own copy of Cardinality along.
LEMMA SameCardinality == \A S : Sem!Cardinality(S) = Cardinality(S)
BY DEF Sem!Cardinality, Cardinality

\* A run that is on its way out has decided how it ended.
OutcomeDecided == \A s \in Submits : pc[s] \in {"ending", "told"} => outcome[s] \in Terminal

-----------------------------------------------------------------------------

LEMMA InitTyped == Init => TypeOK
BY ConstantsAssumption
   DEF Init, TypeOK, States, Terminal, Steps, Sem!Init, Cancellations

LEMMA SlotStepTyped ==
    ASSUME TypeOK, NEW s \in Submits,
           Sem!Arrive(s) \/ Sem!Depart(s) \/ UNCHANGED slotVars
    PROVE  inside' \in SUBSET Submits /\ waiting' \in Seq(Submits)
<1>0. inside \in SUBSET Submits /\ waiting \in Seq(Submits)
  BY DEF TypeOK
<1>1. CASE Sem!Arrive(s)
  BY <1>0, <1>1 DEF Sem!Arrive
<1>2. CASE Sem!Depart(s) /\ waiting = <<>>
  BY <1>0, <1>2 DEF Sem!Depart
<1>3. CASE Sem!Depart(s) /\ waiting # <<>>
  <2>1. Head(waiting) \in Submits /\ Tail(waiting) \in Seq(Submits)
    BY <1>0, <1>3
  <2> QED BY <1>0, <1>3, <2>1 DEF Sem!Depart
<1>4. CASE UNCHANGED slotVars
  BY <1>0, <1>4 DEF slotVars
<1> QED BY <1>1, <1>2, <1>3, <1>4

LEMMA EmitTyped ==
    ASSUME TypeOK, NEW id \in Ids, NEW e \in {"submitted", "started"} \cup Terminal,
           Emit(id, e)
    PROVE  log' \in [Ids -> Seq({"submitted", "started"} \cup Terminal)]
<1> DEFINE Events == {"submitted", "started"} \cup Terminal
<1>1. log[id] \in Seq(Events)
  BY DEF TypeOK
<1>2. Append(log[id], e) \in Seq(Events)
  BY <1>1
<1> QED BY <1>1, <1>2 DEF TypeOK, Emit

LEMMA UpdateTyped ==
    ASSUME TypeOK, NEW id \in Ids, NEW st \in States, Update(id, st)
    PROVE  store' \in [Ids -> States]
BY DEF TypeOK, Update, States

LEMMA NextTyped == TypeOK /\ OutcomeDecided /\ [Next]_vars => TypeOK'
<1> SUFFICES ASSUME TypeOK, OutcomeDecided, [Next]_vars PROVE TypeOK'
  OBVIOUS
<1> USE ConstantsAssumption
<1>1. ASSUME NEW s \in Submits, SubmitLookup(s) PROVE TypeOK'
  BY <1>1 DEF SubmitLookup, TypeOK, Goto, Steps, slotVars
<1>2. ASSUME NEW s \in Submits, SubmitInsert(s) PROVE TypeOK'
  BY <1>2 DEF SubmitInsert, TypeOK, Goto, Steps, slotVars, States
<1>3. ASSUME NEW s \in Submits, SubmitAnnounce(s) PROVE TypeOK'
  <2>1. <<"submitted">> \in Seq({"submitted", "started"} \cup Terminal)
    OBVIOUS
  <2> QED BY <1>3, <2>1 DEF SubmitAnnounce, TypeOK, Goto, Steps, slotVars
<1>4. ASSUME NEW s \in Submits, SubmitShortCircuit(s) PROVE TypeOK'
  BY <1>4 DEF SubmitShortCircuit, TypeOK, Goto, Steps, slotVars, States, Terminal
<1>5. ASSUME NEW s \in Submits, ShortCircuitTell(s) PROVE TypeOK'
  <2>1. <<"submitted", "cancelled">> \in Seq({"submitted", "started"} \cup Terminal)
    BY DEF Terminal
  <2> QED BY <1>5, <2>1 DEF ShortCircuitTell, TypeOK, Goto, Steps, slotVars
<1>6. ASSUME NEW s \in Submits, SubmitAcquire(s) PROVE TypeOK'
  <2>1. inside' \in SUBSET Submits /\ waiting' \in Seq(Submits)
    BY <1>6, SlotStepTyped DEF SubmitAcquire
  <2> QED BY <1>6, <2>1 DEF SubmitAcquire, TypeOK, Goto, Steps
<1>7. ASSUME NEW s \in Submits, StartCheck(s) PROVE TypeOK'
  BY <1>7 DEF StartCheck, TypeOK, Goto, Steps, slotVars, Terminal
<1>8. ASSUME NEW s \in Submits, MarkRunning(s) PROVE TypeOK'
  <2>1. store' \in [Ids -> States]
    BY <1>8, UpdateTyped DEF MarkRunning, States
  <2> QED BY <1>8, <2>1 DEF MarkRunning, TypeOK, Goto, Steps, slotVars
<1>9. ASSUME NEW s \in Submits, StartWork(s) PROVE TypeOK'
  <2>1. log' \in [Ids -> Seq({"submitted", "started"} \cup Terminal)]
    BY <1>9, EmitTyped DEF StartWork
  <2> QED BY <1>9, <2>1 DEF StartWork, TypeOK, Goto, Steps, slotVars
<1>10. ASSUME NEW s \in Submits, WorkEnds(s) PROVE TypeOK'
  BY <1>10 DEF WorkEnds, TypeOK, Goto, Steps, slotVars, Terminal
<1>11. ASSUME NEW s \in Submits, MarkTerminal(s) PROVE TypeOK'
  <2>1. outcome[s] \in States
    BY <1>11 DEF MarkTerminal, OutcomeDecided, States
  <2>2. store' \in [Ids -> States]
    BY <1>11, <2>1, UpdateTyped DEF MarkTerminal
  <2> QED BY <1>11, <2>2 DEF MarkTerminal, TypeOK, Goto, Steps, slotVars
<1>12. ASSUME NEW s \in Submits, Settle(s) PROVE TypeOK'
  <2>1. inside' \in SUBSET Submits /\ waiting' \in Seq(Submits)
    BY <1>12, SlotStepTyped DEF Settle
  <2>2. outcome[s] \in {"submitted", "started"} \cup Terminal
    BY <1>12 DEF Settle, OutcomeDecided
  <2>3. log' \in [Ids -> Seq({"submitted", "started"} \cup Terminal)]
    BY <1>12, <2>2, EmitTyped DEF Settle
  <2> QED BY <1>12, <2>1, <2>3 DEF Settle, TypeOK, Goto, Steps
<1>13. ASSUME NEW s \in Submits, SignalFires(s) PROVE TypeOK'
  BY <1>13 DEF SignalFires, TypeOK, submitVars, slotVars
<1>14. ASSUME NEW c \in Cancels, NEW id \in Ids, CancelLookup(c, id) PROVE TypeOK'
  <2> DEFINE step == CASE store[id] = "absent" -> "unknown"
                       [] store[id] = "queued" -> "sawQueued"
                       [] store[id] = "running" -> "sawRunning"
                       [] OTHER -> "alreadyTerminal"
  <2>1. [id |-> id, step |-> step] \in Cancellations
    BY DEF Cancellations
  <2>2. cancel' = [cancel EXCEPT ![c] = [id |-> id, step |-> step]]
    BY <1>14 DEF CancelLookup
  <2> QED BY <1>14, <2>1, <2>2 DEF CancelLookup, TypeOK, submitVars, slotVars
<1>15. ASSUME NEW c \in Cancels, CancelRest(c) PROVE TypeOK'
  <2>1. /\ cancel[c].id \in Ids
        /\ [cancel[c] EXCEPT !.step = "markedCancelled"] \in Cancellations
        /\ [cancel[c] EXCEPT !.step = "cancelled"] \in Cancellations
    <3>1. cancel[c].step # "idle" /\ cancel[c] \in Cancellations
      BY <1>15 DEF CancelRest, CancelQueuedMark, CancelQueuedTell, CancelRunning, TypeOK
    <3> QED BY <3>1 DEF Cancellations
  <2>2. CASE CancelQueuedMark(c)
    <3>1. store' \in [Ids -> States]
      BY <2>1, <2>2, UpdateTyped DEF CancelQueuedMark, States, Terminal
    <3> QED BY <2>1, <2>2, <3>1
            DEF CancelQueuedMark, CancelStep, TypeOK, submitVars, slotVars
  <2>3. CASE CancelQueuedTell(c)
    <3>1. log' \in [Ids -> Seq({"submitted", "started"} \cup Terminal)]
      BY <2>1, <2>3, EmitTyped DEF CancelQueuedTell, Terminal
    <3> QED BY <2>1, <2>3, <3>1
            DEF CancelQueuedTell, CancelStep, TypeOK, submitVars, slotVars
  <2>4. CASE CancelRunning(c)
    BY <2>1, <2>4 DEF CancelRunning, CancelStep, TypeOK, submitVars, slotVars
  <2> QED BY <1>15, <2>2, <2>3, <2>4 DEF CancelRest
<1>16. ASSUME NEW id \in Ids, Evict(id) PROVE TypeOK'
  <2>1. <<>> \in Seq({"submitted", "started"} \cup Terminal)
    OBVIOUS
  <2> QED BY <1>16, <2>1 DEF Evict, TypeOK, submitVars, slotVars, States
<1>17. CASE UNCHANGED vars
  BY <1>17 DEF vars, TypeOK
<1> QED BY <1>1, <1>2, <1>3, <1>4, <1>5, <1>6, <1>7, <1>8, <1>9, <1>10, <1>11, <1>12,
           <1>13, <1>14, <1>15, <1>16, <1>17 DEF Next, Submit, Run

LEMMA NextDecides == TypeOK /\ OutcomeDecided /\ [Next]_vars => OutcomeDecided'
<1> SUFFICES ASSUME TypeOK, OutcomeDecided, [Next]_vars PROVE OutcomeDecided'
  OBVIOUS
<1> USE DEF OutcomeDecided, TypeOK, Goto
<1>1. ASSUME NEW s \in Submits, SubmitLookup(s) \/ Submit(s) PROVE OutcomeDecided'
  BY <1>1 DEF SubmitLookup, Submit, SubmitInsert, SubmitAnnounce, SubmitShortCircuit,
              ShortCircuitTell, SubmitAcquire
<1>2. ASSUME NEW s \in Submits, Run(s) PROVE OutcomeDecided'
  BY <1>2 DEF Run, StartCheck, MarkRunning, StartWork, WorkEnds, MarkTerminal, Settle, Terminal
<1>3. ASSUME NEW s \in Submits, SignalFires(s) PROVE OutcomeDecided'
  BY <1>3 DEF SignalFires, submitVars
<1>4. ASSUME NEW c \in Cancels, CancelRest(c) \/ \E id \in Ids : CancelLookup(c, id)
      PROVE  OutcomeDecided'
  BY <1>4 DEF CancelRest, CancelQueuedMark, CancelQueuedTell, CancelRunning, CancelLookup,
              submitVars
<1>5. ASSUME NEW id \in Ids, Evict(id) PROVE OutcomeDecided'
  BY <1>5 DEF Evict, submitVars
<1>6. CASE UNCHANGED vars
  BY <1>6 DEF vars
<1> QED BY <1>1, <1>2, <1>3, <1>4, <1>5, <1>6 DEF Next

-----------------------------------------------------------------------------

(* The slots.  SlotsMatchRuns is inductive once the queue is known to hold   *)
(* each waiter once and no reentrant call.                                   *)
WaitersDistinct ==
    /\ \A i, j \in DOMAIN waiting : waiting[i] = waiting[j] => i = j
    /\ \A i \in DOMAIN waiting : ~ Reentrant(waiting[i])

SlotsBounded == IsFiniteSet(inside) /\ Cardinality(inside) <= Cap

SlotInv == SlotsMatchRuns /\ WaitersDistinct /\ SlotsBounded

\* A step of a run that neither enters nor leaves the semaphore.
LEMMA OtherStepKeepsSlots ==
    ASSUME TypeOK, SlotInv, NEW s \in Submits, NEW step, Goto(s, step), UNCHANGED slotVars,
           \/ pc[s] \notin InSlot \cup {"acquiring"} /\ step \notin InSlot \cup {"acquiring"}
           \/ pc[s] \in InSlot /\ step \in InSlot
           \/ pc[s] = "acquiring" /\ step \in InSlot /\ (Reentrant(s) \/ s \in inside)
           \/ Reentrant(s) /\ pc[s] \notin InSlot /\ step = "acquiring"
           \/ Reentrant(s) /\ pc[s] \in InSlot /\ step \notin InSlot
    PROVE  SlotInv'
<1>1. \A t \in Submits : pc'[t] = IF t = s THEN step ELSE pc[t]
  BY DEF TypeOK, Goto
<1>2. inside' = inside /\ waiting' = waiting
  BY DEF slotVars
<1>3. \A i \in DOMAIN waiting : waiting[i] \in Submits
  BY DEF TypeOK
<1>4. "acquiring" \notin InSlot
  BY DEF InSlot
<1>5. WaitersDistinct' /\ SlotsBounded'
  BY <1>2 DEF SlotInv, WaitersDistinct, SlotsBounded, Reentrant
<1>6. SlotsMatchRuns'
  <2>1. \A t \in Submits : pc'[t] \in InSlot /\ ~ Reentrant(t) => t \in inside
    BY <1>1 DEF SlotInv, SlotsMatchRuns
  <2>2. \A t \in inside : pc'[t] \in InSlot \cup {"acquiring"} /\ ~ Reentrant(t)
    BY <1>1 DEF SlotInv, SlotsMatchRuns, TypeOK
  <2>3. \A i \in DOMAIN waiting : pc'[waiting[i]] = "acquiring" /\ waiting[i] \notin inside
    BY <1>1, <1>3, <1>4 DEF SlotInv, SlotsMatchRuns, WaitersDistinct
  <2> QED BY <1>2, <2>1, <2>2, <2>3 DEF SlotsMatchRuns, Reentrant
<1> QED BY <1>5, <1>6 DEF SlotInv

LEMMA ArriveKeepsSlots ==
    ASSUME TypeOK, SlotInv, NEW s \in Submits, ~ Reentrant(s), pc[s] = "announced",
           Goto(s, "acquiring"), Sem!Arrive(s)
    PROVE  SlotInv'
<1> USE ConstantsAssumption
<1>1. \A t \in Submits : pc'[t] = IF t = s THEN "acquiring" ELSE pc[t]
  BY DEF TypeOK, Goto
<1>2. /\ s \notin inside
      /\ \A i \in DOMAIN waiting : waiting[i] # s /\ waiting[i] \in Submits
  <2>1. "announced" \notin InSlot \cup {"acquiring"}
    BY DEF InSlot
  <2>2. s \notin inside
    BY <2>1 DEF SlotInv, SlotsMatchRuns
  <2>3. \A i \in DOMAIN waiting : waiting[i] # s
    BY DEF SlotInv, SlotsMatchRuns
  <2>4. \A i \in DOMAIN waiting : waiting[i] \in Submits
    BY DEF TypeOK
  <2> QED BY <2>2, <2>3, <2>4
<1>3. CASE Cardinality(inside) < Cap
  <2>1. inside' = inside \cup {s} /\ waiting' = waiting
    BY <1>3, SameCardinality DEF Sem!Arrive
  <2>2. SlotsBounded'
    <3>1. Cardinality(inside) \in Nat
      BY FS_CardinalityType DEF SlotInv, SlotsBounded
    <3>2. IsFiniteSet(inside') /\ Cardinality(inside') = Cardinality(inside) + 1
      BY <1>2, <2>1, FS_AddElement DEF SlotInv, SlotsBounded
    <3> QED BY <1>3, <3>1, <3>2 DEF SlotsBounded
  <2>3. WaitersDistinct'
    BY <2>1 DEF SlotInv, WaitersDistinct, Reentrant
  <2>4. SlotsMatchRuns'
    BY <1>1, <1>2, <2>1 DEF SlotInv, SlotsMatchRuns, Reentrant, TypeOK, InSlot
  <2> QED BY <2>2, <2>3, <2>4 DEF SlotInv
<1>4. CASE ~ (Cardinality(inside) < Cap)
  <2>1. inside' = inside /\ waiting' = Append(waiting, s)
    BY <1>4, SameCardinality DEF Sem!Arrive
  <2>2. /\ DOMAIN waiting' = 1..(Len(waiting) + 1)
        /\ DOMAIN waiting = 1..Len(waiting)
        /\ Len(waiting) \in Nat
        /\ waiting'[Len(waiting) + 1] = s
        /\ \A i \in 1..Len(waiting) : waiting'[i] = waiting[i]
    BY <2>1 DEF TypeOK
  <2>3. SlotsBounded'
    BY <2>1 DEF SlotInv, SlotsBounded
  <2>4. WaitersDistinct'
    BY <1>2, <2>2 DEF SlotInv, WaitersDistinct, Reentrant
  <2>5. \A i \in DOMAIN waiting' : pc'[waiting'[i]] = "acquiring" /\ waiting'[i] \notin inside'
    BY <1>1, <1>2, <2>1, <2>2 DEF SlotInv, SlotsMatchRuns
  <2>6. SlotsMatchRuns'
    BY <1>1, <1>2, <2>1, <2>5 DEF SlotInv, SlotsMatchRuns, Reentrant, TypeOK, InSlot
  <2> QED BY <2>3, <2>4, <2>6 DEF SlotInv
<1> QED BY <1>3, <1>4

LEMMA DepartKeepsSlots ==
    ASSUME TypeOK, SlotInv, NEW s \in Submits, ~ Reentrant(s), pc[s] = "told",
           Goto(s, "done"), Sem!Depart(s)
    PROVE  SlotInv'
<1> USE ConstantsAssumption
<1>1. \A t \in Submits : pc'[t] = IF t = s THEN "done" ELSE pc[t]
  BY DEF TypeOK, Goto
<1>2. /\ s \in inside
      /\ \A i \in DOMAIN waiting : waiting[i] # s /\ waiting[i] \in Submits
      /\ Cardinality(inside) \in Nat
      /\ IsFiniteSet(inside \ {s})
      /\ Cardinality(inside \ {s}) = Cardinality(inside) - 1
  BY FS_CardinalityType, FS_RemoveElement
     DEF Sem!Depart, SlotInv, SlotsMatchRuns, SlotsBounded, TypeOK
<1>3. CASE waiting = <<>>
  <2>1. inside' = inside \ {s} /\ waiting' = waiting
    BY <1>3 DEF Sem!Depart
  <2>2. SlotsBounded'
    BY <1>2, <2>1 DEF SlotInv, SlotsBounded
  <2>3. WaitersDistinct'
    BY <2>1 DEF SlotInv, WaitersDistinct, Reentrant
  <2>4. SlotsMatchRuns'
    BY <1>1, <1>2, <2>1 DEF SlotInv, SlotsMatchRuns, Reentrant, TypeOK, InSlot
  <2> QED BY <2>2, <2>3, <2>4 DEF SlotInv
<1>4. CASE waiting # <<>>
  <2> DEFINE h == Head(waiting)
  <2>1. /\ inside' = (inside \ {s}) \cup {h}
        /\ waiting' = Tail(waiting)
    BY <1>4 DEF Sem!Depart
  <2>2. 1 \in DOMAIN waiting /\ h = waiting[1]
    BY <1>4 DEF TypeOK
  <2>3. h \in Submits /\ h # s /\ h \notin inside /\ pc[h] = "acquiring" /\ ~ Reentrant(h)
    BY <1>2, <2>2 DEF SlotInv, SlotsMatchRuns, WaitersDistinct
  <2>4. SlotsBounded'
    <3>1. IsFiniteSet(inside') /\ Cardinality(inside') = Cardinality(inside \ {s}) + 1
      BY <1>2, <2>1, <2>3, FS_AddElement
    <3> QED BY <1>2, <3>1 DEF SlotInv, SlotsBounded
  <2>5. \A i \in DOMAIN waiting' : /\ i \in Nat \ {0}
                                  /\ i + 1 \in DOMAIN waiting
                                  /\ waiting'[i] = waiting[i + 1]
    BY <1>4, <2>1 DEF TypeOK
  <2>6. \A i \in DOMAIN waiting' : waiting'[i] # h
    <3> SUFFICES ASSUME NEW i \in DOMAIN waiting', waiting'[i] = h PROVE FALSE
      OBVIOUS
    <3>1. i + 1 = 1
      BY <2>2, <2>5 DEF SlotInv, WaitersDistinct
    <3> QED BY <2>5, <3>1
  <2>7. WaitersDistinct'
    <3>1. \A i \in DOMAIN waiting' : ~ Reentrant(waiting'[i])
      BY <2>5 DEF SlotInv, WaitersDistinct
    <3>2. ASSUME NEW i \in DOMAIN waiting', NEW j \in DOMAIN waiting', waiting'[i] = waiting'[j]
          PROVE  i = j
      <4>1. i + 1 = j + 1
        BY <2>5, <3>2 DEF SlotInv, WaitersDistinct
      <4> QED BY <2>5, <4>1
    <3> QED BY <3>1, <3>2 DEF WaitersDistinct, Reentrant
  <2>8. SlotsMatchRuns'
    <3>1. \A t \in Submits : pc'[t] \in InSlot /\ ~ Reentrant(t) => t \in inside'
      BY <1>1, <2>1 DEF SlotInv, SlotsMatchRuns, InSlot
    <3>2. \A t \in inside' : pc'[t] \in InSlot \cup {"acquiring"} /\ ~ Reentrant(t)
      BY <1>1, <2>1, <2>3 DEF SlotInv, SlotsMatchRuns, TypeOK
    <3>3. \A i \in DOMAIN waiting' : pc'[waiting'[i]] = "acquiring" /\ waiting'[i] \notin inside'
      BY <1>1, <1>2, <2>1, <2>5, <2>6 DEF SlotInv, SlotsMatchRuns
    <3> QED BY <3>1, <3>2, <3>3 DEF SlotsMatchRuns, Reentrant
  <2> QED BY <2>4, <2>7, <2>8 DEF SlotInv
<1> QED BY <1>3, <1>4

LEMMA InitSlots == Init => SlotInv
BY FS_EmptySet, ConstantsAssumption
   DEF Init, Sem!Init, SlotInv, SlotsMatchRuns, WaitersDistinct, SlotsBounded, InSlot

LEMMA NextSlots == TypeOK /\ SlotInv /\ [Next]_vars => SlotInv'
<1> SUFFICES ASSUME TypeOK, SlotInv, [Next]_vars PROVE SlotInv'
  OBVIOUS
<1> USE DEF InSlot
<1>1. ASSUME NEW s \in Submits, SubmitLookup(s) PROVE SlotInv'
  BY <1>1, OtherStepKeepsSlots DEF SubmitLookup
<1>2. ASSUME NEW s \in Submits, Submit(s) PROVE SlotInv'
  <2>1. CASE SubmitInsert(s)
    BY <2>1, OtherStepKeepsSlots DEF SubmitInsert
  <2>2. CASE SubmitAnnounce(s)
    BY <2>2, OtherStepKeepsSlots DEF SubmitAnnounce
  <2>3. CASE SubmitShortCircuit(s)
    BY <2>3, OtherStepKeepsSlots DEF SubmitShortCircuit
  <2>4. CASE ShortCircuitTell(s)
    BY <2>4, OtherStepKeepsSlots DEF ShortCircuitTell
  <2>5. CASE SubmitAcquire(s) /\ Reentrant(s)
    BY <2>5, OtherStepKeepsSlots DEF SubmitAcquire
  <2>6. CASE SubmitAcquire(s) /\ ~ Reentrant(s)
    BY <2>6, ArriveKeepsSlots DEF SubmitAcquire
  <2> QED BY <1>2, <2>1, <2>2, <2>3, <2>4, <2>5, <2>6 DEF Submit
<1>3. ASSUME NEW s \in Submits, Run(s) PROVE SlotInv'
  <2>1. CASE StartCheck(s)
    BY <2>1, OtherStepKeepsSlots DEF StartCheck
  <2>2. CASE MarkRunning(s)
    BY <2>2, OtherStepKeepsSlots DEF MarkRunning
  <2>3. CASE StartWork(s)
    BY <2>3, OtherStepKeepsSlots DEF StartWork
  <2>4. CASE WorkEnds(s)
    BY <2>4, OtherStepKeepsSlots DEF WorkEnds
  <2>5. CASE MarkTerminal(s)
    BY <2>5, OtherStepKeepsSlots DEF MarkTerminal
  <2>6. CASE Settle(s) /\ Reentrant(s)
    BY <2>6, OtherStepKeepsSlots DEF Settle
  <2>7. CASE Settle(s) /\ ~ Reentrant(s)
    BY <2>7, DepartKeepsSlots DEF Settle
  <2> QED BY <1>3, <2>1, <2>2, <2>3, <2>4, <2>5, <2>6, <2>7 DEF Run
<1>4. ASSUME UNCHANGED <<pc, inside, waiting>> PROVE SlotInv'
  BY <1>4 DEF SlotInv, SlotsMatchRuns, WaitersDistinct, SlotsBounded, Reentrant
<1>5. ASSUME NEW s \in Submits, SignalFires(s) PROVE SlotInv'
  BY <1>4, <1>5 DEF SignalFires, submitVars, slotVars
<1>6. ASSUME NEW c \in Cancels, CancelRest(c) \/ \E id \in Ids : CancelLookup(c, id)
      PROVE  SlotInv'
  BY <1>4, <1>6 DEF CancelRest, CancelQueuedMark, CancelQueuedTell, CancelRunning,
                    CancelLookup, submitVars, slotVars
<1>7. ASSUME NEW id \in Ids, Evict(id) PROVE SlotInv'
  BY <1>4, <1>7 DEF Evict, submitVars, slotVars
<1>8. CASE UNCHANGED vars
  BY <1>4, <1>8 DEF vars
<1> QED BY <1>1, <1>2, <1>3, <1>5, <1>6, <1>7, <1>8 DEF Next

-----------------------------------------------------------------------------

(* Aborts.  A controller is filed under the id of its own run.               *)
FiledUnderOwnId == \A id \in Ids : aborter[id] # NoSubmit => IdOf[aborter[id]] = id

AbortInv == FiledUnderOwnId /\ AbortIsAddressed

LEMMA NextAborts == TypeOK /\ AbortInv /\ [Next]_vars => AbortInv'
<1> SUFFICES ASSUME TypeOK, AbortInv, [Next]_vars PROVE AbortInv'
  OBVIOUS
<1> USE ConstantsAssumption DEF TypeOK, AbortInv, FiledUnderOwnId, AbortIsAddressed
<1>1. ASSUME UNCHANGED <<aborter, aborted, fired, cancel>> PROVE AbortInv'
  BY <1>1
<1>2. ASSUME NEW s \in Submits, SubmitLookup(s) \/ Submit(s) PROVE AbortInv'
  <2>1. CASE SubmitAcquire(s)
    BY <2>1 DEF SubmitAcquire
  <2>2. CASE ~ SubmitAcquire(s)
    BY <1>1, <1>2, <2>2 DEF SubmitLookup, Submit, SubmitInsert, SubmitAnnounce,
                            SubmitShortCircuit, ShortCircuitTell
  <2> QED BY <2>1, <2>2
<1>3. ASSUME NEW s \in Submits, Run(s) PROVE AbortInv'
  <2>1. CASE Settle(s)
    BY <2>1 DEF Settle
  <2>2. CASE ~ Settle(s)
    BY <1>1, <1>3, <2>2 DEF Run, StartCheck, MarkRunning, StartWork, WorkEnds, MarkTerminal
  <2> QED BY <2>1, <2>2
<1>4. ASSUME NEW s \in Submits, SignalFires(s) PROVE AbortInv'
  BY <1>4 DEF SignalFires
<1>5. ASSUME NEW c \in Cancels, NEW id \in Ids, CancelLookup(c, id) PROVE AbortInv'
  <2>1. cancel[c].step # "cancelled" /\ \A d \in Cancels : d # c => cancel'[d] = cancel[d]
    BY <1>5 DEF CancelLookup
  <2>2. UNCHANGED <<aborter, aborted, fired>>
    BY <1>5 DEF CancelLookup
  <2>3. FiledUnderOwnId'
    BY <2>2
  <2>4. AbortIsAddressed'
    <3> SUFFICES ASSUME NEW s \in aborted, s \notin fired
                 PROVE  \E d \in Cancels : cancel'[d].step = "cancelled" /\ cancel'[d].id = IdOf[s]
      BY <2>2
    <3> PICK d \in Cancels : cancel[d].step = "cancelled" /\ cancel[d].id = IdOf[s]
      OBVIOUS
    <3>1. cancel'[d] = cancel[d]
      BY <2>1
    <3> QED BY <3>1
  <2> QED BY <2>3, <2>4
<1>6. ASSUME NEW c \in Cancels, CancelRest(c) PROVE AbortInv'
  <2>1. cancel[c].step # "idle" /\ cancel[c] \in Cancellations
    BY <1>6 DEF CancelRest, CancelQueuedMark, CancelQueuedTell, CancelRunning
  <2>2. \A d \in Cancels : cancel[d].step = "cancelled" => cancel'[d] = cancel[d]
    BY <1>6 DEF CancelRest, CancelQueuedMark, CancelQueuedTell, CancelRunning, CancelStep
  <2>3. CASE CancelRunning(c)
    <3>1. cancel'[c].step = "cancelled" /\ cancel'[c].id = cancel[c].id /\ cancel[c].id \in Ids
      BY <2>1, <2>3 DEF CancelRunning, CancelStep, Cancellations
    <3>2. \A s \in aborted' : s \in aborted \/ IdOf[s] = cancel[c].id
      BY <2>3, <3>1 DEF CancelRunning
    <3>3. FiledUnderOwnId'
      BY <2>3 DEF CancelRunning
    <3>4. AbortIsAddressed'
      <4> SUFFICES ASSUME NEW s \in aborted', s \notin fired
                   PROVE  \E d \in Cancels : cancel'[d].step = "cancelled" /\ cancel'[d].id = IdOf[s]
        BY <2>3 DEF CancelRunning
      <4>1. CASE s \in aborted
        BY <2>2, <4>1
      <4>2. CASE s \notin aborted
        BY <3>1, <3>2, <4>2
      <4> QED BY <4>1, <4>2
    <3> QED BY <3>3, <3>4
  <2>4. CASE CancelQueuedMark(c) \/ CancelQueuedTell(c)
    <3>1. FiledUnderOwnId'
      BY <2>4 DEF CancelQueuedMark, CancelQueuedTell
    <3>2. aborted' = aborted /\ fired' = fired
      BY <2>4 DEF CancelQueuedMark, CancelQueuedTell
    <3>3. AbortIsAddressed'
      <4> SUFFICES ASSUME NEW s \in aborted, s \notin fired
                   PROVE  \E d \in Cancels : cancel'[d].step = "cancelled" /\ cancel'[d].id = IdOf[s]
        BY <3>2
      <4> PICK d \in Cancels : cancel[d].step = "cancelled" /\ cancel[d].id = IdOf[s]
        OBVIOUS
      <4> QED BY <2>2
    <3> QED BY <3>1, <3>3
  <2> QED BY <1>6, <2>3, <2>4 DEF CancelRest
<1>7. ASSUME NEW id \in Ids, Evict(id) PROVE AbortInv'
  BY <1>7 DEF Evict
<1>8. CASE UNCHANGED vars
  BY <1>1, <1>8 DEF vars
<1> QED BY <1>2, <1>3, <1>4, <1>5, <1>6, <1>7, <1>8 DEF Next

-----------------------------------------------------------------------------

(* What is unfinished has a run that will finish it: a handle in a live      *)
(* state, an event stream without its terminal event, and an AbortController *)
(* on file.                                                                  *)
Storing == {"inserted", "announced", "acquiring", "starting", "marked", "working", "ending"}

Telling == {"announced", "shorted", "acquiring", "starting", "marked", "working", "ending",
            "told"}

Owed(id, steps) == \E s \in Submits : IdOf[s] = id /\ pc[s] \in steps

LiveIsOwed == \A id \in Ids : store[id] \in {"queued", "running"} => Owed(id, Storing)

Ended(events) == events # <<>> => events[Len(events)] \in Terminal

OpenIsOwed == \A id \in Ids : Ended(log[id]) \/ Owed(id, Telling)

KeptIsOwed == \A id \in Ids : aborter[id] # NoSubmit => pc[aborter[id]] \in InSlot \cup {"acquiring"}

\* A run that moves leaves what is owed owed, but by itself.
LEMMA MoveOwes ==
    ASSUME TypeOK, NEW s \in Submits, NEW step, Goto(s, step), NEW id \in Ids, NEW steps,
           \/ Owed(id, steps) /\ (IdOf[s] # id \/ step \in steps)
           \/ IdOf[s] = id /\ step \in steps
    PROVE  Owed(id, steps)'
<1>1. \A t \in Submits : pc'[t] = IF t = s THEN step ELSE pc[t]
  BY DEF TypeOK, Goto
<1>2. CASE IdOf[s] = id /\ step \in steps
  BY <1>1, <1>2 DEF Owed
<1>3. CASE Owed(id, steps) /\ IdOf[s] # id
  BY <1>1, <1>3 DEF Owed
<1>4. CASE Owed(id, steps) /\ step \in steps
  <2>1. PICK t \in Submits : IdOf[t] = id /\ pc[t] \in steps
    BY <1>4 DEF Owed
  <2>2. pc'[t] \in steps
    BY <1>1, <1>4, <2>1
  <2> QED BY <2>1, <2>2 DEF Owed
<1> QED BY <1>2, <1>3, <1>4

\* A run that was not among those that owe leaves them alone.
LEMMA OutsiderOwes ==
    ASSUME TypeOK, NEW s \in Submits, NEW step, Goto(s, step), NEW id \in Ids, NEW steps,
           Owed(id, steps), pc[s] \notin steps
    PROVE  Owed(id, steps)'
<1>1. \A t \in Submits : t # s => pc'[t] = pc[t]
  BY DEF TypeOK, Goto
<1> QED BY <1>1 DEF Owed

LEMMA NextLive == TypeOK /\ OutcomeDecided /\ LiveIsOwed /\ [Next]_vars => LiveIsOwed'
<1> SUFFICES ASSUME TypeOK, OutcomeDecided, LiveIsOwed, [Next]_vars,
                    NEW id \in Ids, store'[id] \in {"queued", "running"}
             PROVE  Owed(id, Storing)'
  BY DEF LiveIsOwed
<1> USE ConstantsAssumption
<1>1. ASSUME store[id] \in {"queued", "running"} PROVE Owed(id, Storing)
  BY <1>1 DEF LiveIsOwed
<1>2. ASSUME store'[id] = store[id], UNCHANGED pc PROVE Owed(id, Storing)'
  BY <1>1, <1>2 DEF Owed
<1>3. ASSUME NEW s \in Submits, NEW step, Goto(s, step), store'[id] = store[id],
             pc[s] \notin Storing \/ step \in Storing
      PROVE  Owed(id, Storing)'
  BY <1>1, <1>3, MoveOwes, OutsiderOwes
<1>4. ASSUME NEW s \in Submits, SubmitLookup(s) PROVE Owed(id, Storing)'
  BY <1>3, <1>4 DEF SubmitLookup, Storing
<1>5. ASSUME NEW s \in Submits, SubmitInsert(s) PROVE Owed(id, Storing)'
  <2>1. CASE IdOf[s] = id
    BY <1>5, <2>1, MoveOwes DEF SubmitInsert, Storing
  <2>2. CASE IdOf[s] # id
    BY <1>3, <1>5, <2>2 DEF SubmitInsert, Storing, TypeOK
  <2> QED BY <2>1, <2>2
<1>6. ASSUME NEW s \in Submits, SubmitAnnounce(s) PROVE Owed(id, Storing)'
  BY <1>3, <1>6 DEF SubmitAnnounce, Storing
<1>7. ASSUME NEW s \in Submits, SubmitShortCircuit(s) PROVE Owed(id, Storing)'
  <2>1. IdOf[s] # id /\ store'[id] = store[id]
    BY <1>7 DEF SubmitShortCircuit, TypeOK
  <2> QED BY <1>1, <1>7, <2>1, MoveOwes DEF SubmitShortCircuit
<1>8. ASSUME NEW s \in Submits, ShortCircuitTell(s) PROVE Owed(id, Storing)'
  BY <1>3, <1>8 DEF ShortCircuitTell, Storing
<1>9. ASSUME NEW s \in Submits, SubmitAcquire(s) PROVE Owed(id, Storing)'
  BY <1>3, <1>9 DEF SubmitAcquire, Storing
<1>10. ASSUME NEW s \in Submits, StartCheck(s) PROVE Owed(id, Storing)'
  BY <1>3, <1>10 DEF StartCheck, Storing
<1>11. ASSUME NEW s \in Submits, MarkRunning(s) PROVE Owed(id, Storing)'
  <2>1. CASE IdOf[s] = id
    BY <1>11, <2>1, MoveOwes DEF MarkRunning, Storing
  <2>2. CASE IdOf[s] # id
    BY <1>3, <1>11, <2>2 DEF MarkRunning, Update, Storing, TypeOK
  <2> QED BY <2>1, <2>2
<1>12. ASSUME NEW s \in Submits, StartWork(s) PROVE Owed(id, Storing)'
  BY <1>3, <1>12 DEF StartWork, Storing
<1>13. ASSUME NEW s \in Submits, WorkEnds(s) PROVE Owed(id, Storing)'
  BY <1>3, <1>13 DEF WorkEnds, Storing
<1>14. ASSUME NEW s \in Submits, MarkTerminal(s) PROVE Owed(id, Storing)'
  <2>1. outcome[s] \in Terminal
    BY <1>14 DEF MarkTerminal, OutcomeDecided
  <2>2. IdOf[s] # id /\ store'[id] = store[id]
    BY <1>14, <2>1 DEF MarkTerminal, Update, Terminal, TypeOK
  <2> QED BY <1>1, <1>14, <2>2, MoveOwes DEF MarkTerminal
<1>15. ASSUME NEW s \in Submits, Settle(s) PROVE Owed(id, Storing)'
  BY <1>3, <1>15 DEF Settle, Storing
<1>16. ASSUME NEW s \in Submits, SignalFires(s) PROVE Owed(id, Storing)'
  BY <1>2, <1>16 DEF SignalFires, submitVars
<1>17. ASSUME NEW c \in Cancels, CancelRest(c) \/ \E i \in Ids : CancelLookup(c, i)
       PROVE  Owed(id, Storing)'
  <2>1. UNCHANGED pc
    BY <1>17 DEF CancelRest, CancelQueuedMark, CancelQueuedTell, CancelRunning, CancelLookup,
                 submitVars
  <2>2. store'[id] = store[id]
    BY <1>17 DEF CancelRest, CancelQueuedMark, CancelQueuedTell, CancelRunning, CancelLookup,
                 Update, TypeOK
  <2> QED BY <1>2, <2>1, <2>2
<1>18. ASSUME NEW i \in Ids, Evict(i) PROVE Owed(id, Storing)'
  BY <1>2, <1>18 DEF Evict, submitVars, TypeOK
<1>19. CASE UNCHANGED vars
  BY <1>2, <1>19 DEF vars
<1> QED BY <1>4, <1>5, <1>6, <1>7, <1>8, <1>9, <1>10, <1>11, <1>12, <1>13, <1>14, <1>15, <1>16,
           <1>17, <1>18, <1>19 DEF Next, Submit, Run

\* A terminal event ends a stream, if there is one.
LEMMA TerminalEnds ==
    ASSUME TypeOK, NEW id \in Ids, NEW e \in Terminal, Emit(id, e)
    PROVE  /\ Ended(log'[id])
           /\ \A i \in Ids : i # id => log'[i] = log[i]
<1>1. log[id] \in Seq({"submitted", "started"} \cup Terminal)
  BY DEF TypeOK
<1>2. log'[id] = IF log[id] = <<>> THEN log[id] ELSE Append(log[id], e)
  BY DEF Emit, TypeOK
<1>3. \A i \in Ids : i # id => log'[i] = log[i]
  BY DEF Emit, TypeOK
<1>4. Append(log[id], e)[Len(Append(log[id], e))] = e
  BY <1>1
<1> QED BY <1>2, <1>3, <1>4 DEF Ended

LEMMA NextOpen == TypeOK /\ OutcomeDecided /\ OpenIsOwed /\ [Next]_vars => OpenIsOwed'
<1> SUFFICES ASSUME TypeOK, OutcomeDecided, OpenIsOwed, [Next]_vars,
                    NEW id \in Ids, ~ Ended(log'[id])
             PROVE  Owed(id, Telling)'
  BY DEF OpenIsOwed, Ended
<1> USE ConstantsAssumption
<1>1. ASSUME log'[id] = log[id] PROVE Owed(id, Telling)
  BY <1>1 DEF OpenIsOwed
<1>2. ASSUME log'[id] = log[id], UNCHANGED pc PROVE Owed(id, Telling)'
  BY <1>1, <1>2 DEF Owed
<1>3. ASSUME NEW s \in Submits, NEW step, Goto(s, step), log'[id] = log[id],
             pc[s] \notin Telling \/ step \in Telling
      PROVE  Owed(id, Telling)'
  BY <1>1, <1>3, MoveOwes, OutsiderOwes
<1>4. ASSUME NEW s \in Submits, SubmitLookup(s) \/ SubmitInsert(s) PROVE Owed(id, Telling)'
  BY <1>3, <1>4 DEF SubmitLookup, SubmitInsert, Telling
<1>5. ASSUME NEW s \in Submits, SubmitAnnounce(s) PROVE Owed(id, Telling)'
  <2>1. CASE IdOf[s] = id
    BY <1>5, <2>1, MoveOwes DEF SubmitAnnounce, Telling
  <2>2. CASE IdOf[s] # id
    BY <1>3, <1>5, <2>2 DEF SubmitAnnounce, Telling, TypeOK
  <2> QED BY <2>1, <2>2
<1>6. ASSUME NEW s \in Submits, SubmitShortCircuit(s) \/ SubmitAcquire(s)
      PROVE  Owed(id, Telling)'
  BY <1>3, <1>6 DEF SubmitShortCircuit, SubmitAcquire, Telling
<1>7. ASSUME NEW s \in Submits, ShortCircuitTell(s) PROVE Owed(id, Telling)'
  <2>1. Ended(<<"submitted", "cancelled">>)
    BY DEF Ended, Terminal
  <2>2. IdOf[s] # id /\ log'[id] = log[id]
    BY <1>7, <2>1 DEF ShortCircuitTell, TypeOK
  <2> QED BY <1>1, <1>7, <2>2, MoveOwes DEF ShortCircuitTell
<1>8. ASSUME NEW s \in Submits, StartCheck(s) \/ MarkRunning(s) \/ WorkEnds(s) \/ MarkTerminal(s)
      PROVE  Owed(id, Telling)'
  BY <1>3, <1>8 DEF StartCheck, MarkRunning, WorkEnds, MarkTerminal, Telling
<1>9. ASSUME NEW s \in Submits, StartWork(s) PROVE Owed(id, Telling)'
  <2>1. CASE IdOf[s] = id
    BY <1>9, <2>1, MoveOwes DEF StartWork, Telling
  <2>2. CASE IdOf[s] # id
    BY <1>3, <1>9, <2>2 DEF StartWork, Emit, Telling, TypeOK
  <2> QED BY <2>1, <2>2
<1>10. ASSUME NEW s \in Submits, Settle(s) PROVE Owed(id, Telling)'
  <2>1. outcome[s] \in Terminal /\ Emit(IdOf[s], outcome[s])
    BY <1>10 DEF Settle, OutcomeDecided
  <2>2. IdOf[s] # id /\ log'[id] = log[id]
    BY <2>1, TerminalEnds
  <2> QED BY <1>1, <1>10, <2>2, MoveOwes DEF Settle
<1>11. ASSUME NEW s \in Submits, SignalFires(s) PROVE Owed(id, Telling)'
  BY <1>2, <1>11 DEF SignalFires, submitVars
<1>12. ASSUME NEW c \in Cancels, CancelQueuedTell(c) PROVE Owed(id, Telling)'
  <2>1. cancel[c].id \in Ids
    BY <1>12 DEF CancelQueuedTell, TypeOK, Cancellations
  <2>2. log'[id] = log[id]
    BY <1>12, <2>1, TerminalEnds DEF CancelQueuedTell, Terminal
  <2> QED BY <1>2, <1>12, <2>2 DEF CancelQueuedTell, submitVars
<1>13. ASSUME NEW c \in Cancels, \/ CancelQueuedMark(c) \/ CancelRunning(c)
                                 \/ \E i \in Ids : CancelLookup(c, i)
       PROVE  Owed(id, Telling)'
  BY <1>2, <1>13 DEF CancelQueuedMark, CancelRunning, CancelLookup, submitVars
<1>14. ASSUME NEW i \in Ids, Evict(i) PROVE Owed(id, Telling)'
  <2>1. Ended(<<>>)
    BY DEF Ended
  <2>2. log'[id] = log[id]
    BY <1>14, <2>1 DEF Evict, TypeOK
  <2> QED BY <1>2, <1>14, <2>2 DEF Evict, submitVars
<1>15. CASE UNCHANGED vars
  BY <1>2, <1>15 DEF vars
<1> QED BY <1>4, <1>5, <1>6, <1>7, <1>8, <1>9, <1>10, <1>11, <1>12, <1>13, <1>14, <1>15
        DEF Next, Submit, Run, CancelRest

LEMMA NextKept == TypeOK /\ AbortInv /\ KeptIsOwed /\ [Next]_vars => KeptIsOwed'
<1> SUFFICES ASSUME TypeOK, AbortInv, KeptIsOwed, [Next]_vars,
                    NEW id \in Ids, aborter'[id] # NoSubmit
             PROVE  pc'[aborter'[id]] \in InSlot \cup {"acquiring"}
  BY DEF KeptIsOwed
<1> DEFINE on == InSlot \cup {"acquiring"}
<1> USE ConstantsAssumption
<1>1. ASSUME aborter'[id] = aborter[id]
      PROVE  aborter[id] \in Submits /\ pc[aborter[id]] \in on /\ IdOf[aborter[id]] = id
  BY <1>1 DEF KeptIsOwed, AbortInv, FiledUnderOwnId, TypeOK
<1>2. ASSUME NEW s \in Submits, NEW step, Goto(s, step), aborter'[id] = aborter[id],
             pc[s] \notin on \/ step \in on \/ IdOf[s] # id
      PROVE  pc'[aborter'[id]] \in on
  BY <1>1, <1>2 DEF Goto, TypeOK
<1>3. ASSUME NEW s \in Submits, SubmitLookup(s) \/ Submit(s) PROVE pc'[aborter'[id]] \in on
  <2>1. CASE SubmitAcquire(s)
    <3>1. CASE IdOf[s] = id
      BY <2>1, <3>1 DEF SubmitAcquire, Goto, TypeOK
    <3>2. CASE IdOf[s] # id
      BY <1>2, <2>1, <3>2 DEF SubmitAcquire, TypeOK
    <3> QED BY <3>1, <3>2
  <2>2. CASE SubmitLookup(s)
    BY <1>2, <2>2 DEF SubmitLookup, InSlot
  <2>3. CASE ShortCircuitTell(s) \/ SubmitInsert(s)
    BY <1>2, <2>3 DEF SubmitInsert, ShortCircuitTell, InSlot
  <2>4. CASE SubmitAnnounce(s) \/ SubmitShortCircuit(s)
    BY <1>2, <2>4 DEF SubmitAnnounce, SubmitShortCircuit, InSlot
  <2> QED BY <1>3, <2>1, <2>2, <2>3, <2>4 DEF Submit
<1>4. ASSUME NEW s \in Submits, Run(s) PROVE pc'[aborter'[id]] \in on
  <2>1. CASE Settle(s)
    <3>1. IdOf[s] # id /\ aborter'[id] = aborter[id]
      BY <2>1 DEF Settle, TypeOK
    <3> QED BY <1>2, <2>1, <3>1 DEF Settle
  <2>2. CASE StartCheck(s) \/ MarkRunning(s) \/ StartWork(s)
    BY <1>2, <2>2 DEF StartCheck, MarkRunning, StartWork, InSlot
  <2>3. CASE WorkEnds(s) \/ MarkTerminal(s)
    BY <1>2, <2>3 DEF WorkEnds, MarkTerminal, InSlot
  <2> QED BY <1>4, <2>1, <2>2, <2>3 DEF Run
<1>5. ASSUME UNCHANGED pc, aborter'[id] = aborter[id] PROVE pc'[aborter'[id]] \in on
  BY <1>1, <1>5
<1>6. ASSUME NEW s \in Submits, SignalFires(s) PROVE pc'[aborter'[id]] \in on
  BY <1>5, <1>6 DEF SignalFires, submitVars
<1>7. ASSUME NEW c \in Cancels, CancelRest(c) \/ \E i \in Ids : CancelLookup(c, i)
      PROVE  pc'[aborter'[id]] \in on
  <2>1. UNCHANGED pc
    BY <1>7 DEF CancelRest, CancelQueuedMark, CancelQueuedTell, CancelRunning, CancelLookup,
                submitVars
  <2>2. aborter'[id] = aborter[id]
    BY <1>7 DEF CancelRest, CancelQueuedMark, CancelQueuedTell, CancelRunning, CancelLookup, TypeOK
  <2> QED BY <1>5, <2>1, <2>2
<1>8. ASSUME NEW i \in Ids, Evict(i) PROVE pc'[aborter'[id]] \in on
  <2>1. aborter'[id] = aborter[id]
    BY <1>8 DEF Evict, TypeOK
  <2> QED BY <1>5, <1>8, <2>1 DEF Evict, submitVars
<1>9. CASE UNCHANGED vars
  BY <1>5, <1>9 DEF vars
<1> QED BY <1>3, <1>4, <1>6, <1>7, <1>8, <1>9 DEF Next

\* When nothing is in flight nobody owes, and the slots are those of runs.
LEMMA QuietClean ==
    ASSUME TypeOK, SlotInv, AbortInv, LiveIsOwed, OpenIsOwed, KeptIsOwed
    PROVE  QuietIsClean
<1> SUFFICES ASSUME Quiet PROVE QuietIsClean!2
  BY DEF QuietIsClean
<1> USE ConstantsAssumption
<1>1. \A s \in Submits : pc[s] \in {"unborn", "done", "joined"}
  BY DEF Quiet, Settled
<1>2. \A s \in Submits : pc[s] \notin Storing /\ pc[s] \notin Telling
                         /\ pc[s] \notin InSlot \cup {"acquiring"}
  BY <1>1 DEF Storing, Telling, InSlot
<1>3. \A id \in Ids : store[id] \in Terminal \cup {"absent"}
  BY <1>2 DEF LiveIsOwed, Owed, TypeOK, States
<1>4. \A id \in Ids : log[id] # <<>> => log[id][Len(log[id])] \in Terminal
  BY <1>2 DEF OpenIsOwed, Owed, Ended
<1>5. \A id \in Ids : aborter[id] = NoSubmit
  BY <1>2 DEF KeptIsOwed, TypeOK
<1>6. inside = {}
  BY <1>2 DEF SlotInv, SlotsMatchRuns, TypeOK
<1>7. waiting = <<>>
  <2> SUFFICES ASSUME waiting # <<>> PROVE FALSE
    OBVIOUS
  <2>1. 1 \in DOMAIN waiting /\ waiting[1] \in Submits
    BY DEF TypeOK
  <2> QED BY <1>2, <2>1 DEF SlotInv, SlotsMatchRuns
<1> QED BY <1>3, <1>4, <1>5, <1>6, <1>7

-----------------------------------------------------------------------------

IInv == /\ TypeOK /\ OutcomeDecided /\ SlotInv /\ AbortInv
        /\ LiveIsOwed /\ OpenIsOwed /\ KeptIsOwed

LEMMA Inductive == Spec => []IInv
<1>1. Init => IInv
  <2>1. Init => OutcomeDecided /\ AbortInv
    BY DEF Init, OutcomeDecided, AbortInv, FiledUnderOwnId, AbortIsAddressed
  <2>2. Init => LiveIsOwed /\ OpenIsOwed /\ KeptIsOwed
    BY DEF Init, LiveIsOwed, OpenIsOwed, KeptIsOwed, Ended
  <2> QED BY <2>1, <2>2, InitTyped, InitSlots DEF IInv
<1>2. IInv /\ [Next]_vars => IInv'
  BY NextTyped, NextDecides, NextSlots, NextAborts, NextLive, NextOpen, NextKept DEF IInv
<1> QED BY <1>1, <1>2, PTL DEF Spec

\* Type correctness of the registry's state.
THEOREM TypeCorrect == Spec => []TypeOK
<1>1. IInv => TypeOK
  BY DEF IInv
<1> QED BY <1>1, Inductive, PTL

\* Slots and runs agree on every path through submit() and its run.
THEOREM SlotsExact == Spec => []SlotsMatchRuns
<1>1. IInv => SlotsMatchRuns
  BY DEF IInv, SlotInv
<1> QED BY <1>1, Inductive, PTL

\* At most maxConcurrent work functions are in flight, reentrant ones aside.
THEOREM WorkInFlightBounded == Spec => []WorkBounded
<1>1. IInv => WorkBounded
  <2> SUFFICES ASSUME IInv PROVE WorkBounded
    OBVIOUS
  <2> DEFINE busy == {s \in Submits : pc[s] = "working" /\ ~ Reentrant(s)}
  <2>1. busy \subseteq inside
    BY DEF IInv, SlotInv, SlotsMatchRuns, InSlot
  <2>2. IsFiniteSet(inside) /\ Cardinality(inside) \in Nat /\ Cardinality(inside) <= Cap
    BY FS_CardinalityType DEF IInv, SlotInv, SlotsBounded
  <2>3. /\ IsFiniteSet(busy)
        /\ Cardinality(busy) <= Cardinality(inside)
    BY <2>1, <2>2, FS_Subset
  <2>4. Cardinality(busy) \in Nat /\ Cap \in Nat
    BY <2>3, FS_CardinalityType, ConstantsAssumption
  <2> QED BY <2>2, <2>3, <2>4 DEF WorkBounded
<1> QED BY <1>1, Inductive, PTL

\* No cancellation reaches another task's AbortController.
THEOREM AbortsAddressed == Spec => []AbortIsAddressed
<1>1. IInv => AbortIsAddressed
  BY DEF IInv, AbortInv
<1> QED BY <1>1, Inductive, PTL

\* A registry in which nothing is in flight has no live handle, no slot taken,
\* no AbortController on file and no open event stream, whatever submits,
\* cancels, signals and evictions came before (registry.ts).
THEOREM CleanWhenQuiet == Spec => []QuietIsClean
<1>1. IInv => QuietIsClean
  BY QuietClean DEF IInv
<1> QED BY <1>1, Inductive, PTL

-----------------------------------------------------------------------------
(* The events of one task: TaskSubscribe, over constants and variables of    *)
(* its own, for any number of subscribers, events and any capacity.          *)

CONSTANTS Subscribers, Length, RingCap

VARIABLES emitted, ring, truncated, evicted, listening, phase, queue, got,
          flagged, closing, done

Stream == INSTANCE TaskSubscribe

StreamAssumption == Length \in Nat \ {0, 1} /\ RingCap \in Nat \ {0}

\* Everything an iterator was given, in order.
Given(c) == got[c] \o queue[c]

\* Consecutive events up to the latest.
UpToDate(s) == s # <<>> /\ s[Len(s)] = emitted

\* The buffer ends with the latest event, until the task is forgotten.
RingInv == /\ Stream!Contiguous(ring)
           /\ emitted > 0 /\ ~ evicted => UpToDate(ring)
           /\ evicted => emitted = Length
           /\ emitted = 0 => ring = <<>>

\* An iterator waits only with nothing left to hand out, and is fed only while
\* it is not cleaned up.
IteratorInv ==
    \A c \in Subscribers :
        /\ Stream!Contiguous(Given(c))
        /\ c \in listening => UpToDate(Given(c)) /\ c \notin done
        /\ phase[c] = "away" => /\ got[c] = <<>> /\ queue[c] = <<>>
                                /\ c \notin listening \cup done \cup closing
        /\ phase[c] = "waiting" => queue[c] = <<>>

EventsInv == Stream!TypeOK /\ RingInv /\ IteratorInv

LEMMA ContiguousAppend ==
    ASSUME NEW s \in Seq(Nat), NEW e \in Nat, Stream!Contiguous(s),
           s = <<>> \/ s[Len(s)] = e - 1
    PROVE  /\ Stream!Contiguous(Append(s, e))
           /\ Append(s, e) # <<>> /\ Append(s, e)[Len(Append(s, e))] = e
<1> DEFINE t == Append(s, e)
           n == Len(s)
<1>1. /\ n \in Nat /\ Len(t) = n + 1 /\ DOMAIN t = 1 .. n + 1 /\ DOMAIN s = 1 .. n
      /\ t[n + 1] = e /\ \A i \in 1 .. n : t[i] = s[i] /\ s[i] \in Nat
  OBVIOUS
<1>2. CASE s = <<>>
  <2>1. n = 0
    BY <1>2
  <2> QED BY <1>1, <2>1 DEF Stream!Contiguous
<1>3. CASE s # <<>>
  <2>1. n >= 1 /\ s[n] = e - 1 /\ s[n] = s[1] + n - 1
    BY <1>1, <1>3 DEF Stream!Contiguous
  <2> HIDE DEF t, n
  <2>2. t[n + 1] = t[1] + (n + 1) - 1
    BY <1>1, <2>1
  <2>3. ASSUME NEW i \in 1 .. n + 1 PROVE t[i] = t[1] + i - 1
    <3>1. CASE i = n + 1
      BY <2>2, <3>1
    <3>2. CASE i # n + 1
      <4>1. i \in 1 .. n /\ 1 \in 1 .. n
        BY <1>1, <2>1, <3>2
      <4>2. s[i] = s[1] + i - 1
        BY <1>1, <4>1 DEF Stream!Contiguous
      <4> QED BY <1>1, <4>1, <4>2
    <3> QED BY <3>1, <3>2
  <2>4. Stream!Contiguous(t)
    BY <1>1, <2>3 DEF Stream!Contiguous
  <2>5. t # <<>> /\ t[Len(t)] = e
    <3>1. Len(t) # 0
      BY <1>1
    <3>2. t # <<>>
      BY <3>1
    <3> QED BY <1>1, <3>2
  <2> QED BY <2>4, <2>5 DEF t
<1> QED BY <1>2, <1>3

LEMMA AppendToLast ==
    ASSUME NEW S, NEW s \in Seq(S), NEW t \in Seq(S), NEW x \in S
    PROVE  s \o Append(t, x) = Append(s \o t, x)
<1>1. <<x>> \in Seq(S) /\ s \o t \in Seq(S)
  OBVIOUS
<1>2. Append(t, x) = t \o <<x>> /\ Append(s \o t, x) = (s \o t) \o <<x>>
  BY <1>1, AppendIsConcat
<1> QED BY <1>1, <1>2, ConcatAssociative

LEMMA HeadToLast ==
    ASSUME NEW S, NEW s \in Seq(S), NEW t \in Seq(S), t # <<>>
    PROVE  Append(s, Head(t)) \o Tail(t) = s \o t
<1>1. Head(t) \in S /\ Tail(t) \in Seq(S) /\ <<Head(t)>> \in Seq(S)
  OBVIOUS
<1>2. Append(s, Head(t)) = s \o <<Head(t)>>
  BY <1>1, AppendIsConcat
<1>3. <<Head(t)>> \o Tail(t) = t
  BY <1>1
<1> QED BY <1>1, <1>2, <1>3, ConcatAssociative

LEMMA HeadAndTail ==
    ASSUME NEW S, NEW s \in Seq(S), s # <<>>
    PROVE  Head(s) \in S /\ Tail(s) \in Seq(S)
OBVIOUS

LEMMA ContiguousTail ==
    ASSUME NEW s \in Seq(Nat), s # <<>>, Stream!Contiguous(s)
    PROVE  /\ Tail(s) \in Seq(Nat) /\ Len(Tail(s)) = Len(s) - 1
           /\ Stream!Contiguous(Tail(s))
           /\ Tail(s) # <<>> => Tail(s)[Len(Tail(s))] = s[Len(s)]
<1> DEFINE t == Tail(s)
           n == Len(s)
<1>1. /\ n \in Nat \ {0} /\ t \in Seq(Nat) /\ Len(t) = n - 1 /\ DOMAIN t = 1 .. n - 1
      /\ \A i \in 1 .. n - 1 : t[i] = s[i + 1] /\ \A j \in 1 .. n : s[j] \in Nat
  OBVIOUS
<1>2. \A i \in 1 .. n : s[i] = s[1] + i - 1
  BY DEF Stream!Contiguous
<1>3. t # <<>> => n - 1 >= 1
  BY <1>1
<1> HIDE DEF t, n
<1>4. ASSUME NEW i \in 1 .. n - 1 PROVE t[i] = t[1] + i - 1
  <2>1. i + 1 \in 1 .. n /\ 1 \in 1 .. n - 1 /\ 1 + 1 \in 1 .. n
    BY <1>1
  <2>2. t[i] = s[i + 1] /\ t[1] = s[1 + 1]
    BY <1>1, <2>1
  <2>3. s[i + 1] = s[1] + (i + 1) - 1 /\ s[1 + 1] = s[1] + (1 + 1) - 1 /\ s[1] \in Nat
    BY <1>1, <1>2, <2>1
  <2> QED BY <2>2, <2>3
<1>5. Stream!Contiguous(t)
  BY <1>1, <1>4 DEF Stream!Contiguous
<1>6. t # <<>> => t[n - 1] = s[n]
  <2> SUFFICES ASSUME t # <<>> PROVE t[n - 1] = s[n]
    OBVIOUS
  <2>1. n - 1 \in 1 .. n - 1 /\ (n - 1) + 1 = n
    BY <1>1, <1>3
  <2>2. t[n - 1] = s[(n - 1) + 1]
    BY <1>1, <2>1
  <2> QED BY <2>1, <2>2
<1> QED BY <1>1, <1>5, <1>6 DEF t, n

LEMMA PushInv ==
    ASSUME EventsInv, StreamAssumption, emitted < Length,
           emitted' = emitted + 1, Stream!Push(emitted + 1), evicted' = evicted
    PROVE  /\ ring' \in Seq(1 .. Length) /\ Len(ring') <= RingCap
           /\ truncated' \in BOOLEAN /\ RingInv'
<1> DEFINE e == emitted + 1
           base == IF Len(ring) >= RingCap THEN Tail(ring) ELSE ring
<1>1. /\ Length \in Nat /\ RingCap \in Nat \ {0} /\ emitted \in Nat /\ e \in 1 .. Length
      /\ ring \in Seq(1 .. Length) /\ Len(ring) <= RingCap /\ ~ evicted
      /\ truncated \in BOOLEAN /\ Stream!Contiguous(ring)
  BY DEF EventsInv, RingInv, Stream!TypeOK, StreamAssumption
<1>2. ring \in Seq(Nat)
  <2>1. 1 .. Length \subseteq Nat
    OBVIOUS
  <2> QED BY <1>1, <2>1, SeqMonotonic
<1>3. ring # <<>> => ring[Len(ring)] = emitted
  <2> SUFFICES ASSUME ring # <<>> PROVE ring[Len(ring)] = emitted
    OBVIOUS
  <2>1. emitted > 0
    BY <1>1 DEF EventsInv, RingInv
  <2> QED BY <1>1, <2>1 DEF EventsInv, RingInv, UpToDate
<1>4. /\ base \in Seq(Nat) /\ Len(base) + 1 <= RingCap /\ Stream!Contiguous(base)
      /\ base # <<>> => base[Len(base)] = emitted
  <2>1. CASE Len(ring) >= RingCap
    <3>1. ring # <<>> /\ Len(ring) = RingCap
      BY <1>1, <2>1
    <3>2. /\ Tail(ring) \in Seq(Nat) /\ Len(Tail(ring)) = Len(ring) - 1
          /\ Stream!Contiguous(Tail(ring))
          /\ Tail(ring) # <<>> => Tail(ring)[Len(Tail(ring))] = ring[Len(ring)]
      BY <1>1, <1>2, <3>1, ContiguousTail
    <3>3. base = Tail(ring)
      BY <2>1
    <3> HIDE DEF base
    <3> QED BY <1>1, <1>3, <3>1, <3>2, <3>3
  <2>2. CASE ~ (Len(ring) >= RingCap)
    BY <1>1, <1>2, <1>3, <2>2
  <2> QED BY <2>1, <2>2
<1>5. ring' = Append(base, e)
  BY DEF Stream!Push
<1>6. base \in Seq(1 .. Length)
  <2>1. Len(ring) >= RingCap => ring # <<>>
    BY <1>1
  <2>2. ring # <<>> => Tail(ring) \in Seq(1 .. Length)
    BY <1>1
  <2> QED BY <1>1, <2>1, <2>2
<1> HIDE DEF base
<1>7. /\ Stream!Contiguous(ring') /\ ring' # <<>> /\ ring'[Len(ring')] = e
  <2>1. base = <<>> \/ base[Len(base)] = e - 1
    BY <1>1, <1>4
  <2> QED BY <1>1, <1>4, <1>5, <2>1, ContiguousAppend
<1>8. ring' \in Seq(1 .. Length) /\ Len(ring') <= RingCap
  BY <1>1, <1>4, <1>5, <1>6
<1>9. truncated' \in BOOLEAN
  BY DEF Stream!Push
<1>10. RingInv'
  BY <1>1, <1>7 DEF RingInv, UpToDate, Stream!Contiguous
<1> QED BY <1>8, <1>9, <1>10

\* An event goes to every live iterator once, at the end of what it was given.
LEMMA DeliverInv ==
    ASSUME EventsInv, StreamAssumption, emitted < Length,
           emitted' = emitted + 1, Stream!Deliver(emitted + 1),
           UNCHANGED <<listening, done, closing>>
    PROVE  /\ phase' \in [Subscribers -> Stream!Phases]
           /\ queue' \in [Subscribers -> Seq(1 .. Length)]
           /\ got' \in [Subscribers -> Seq(1 .. Length)]
           /\ IteratorInv'
<1> DEFINE e == emitted + 1
           live == listening \ done
           asked == {c \in live : phase[c] = "waiting"}
<1>1. /\ got' = [c \in Subscribers |-> IF c \in asked THEN Append(got[c], e) ELSE got[c]]
      /\ phase' = [c \in Subscribers |-> IF c \in asked THEN "looping" ELSE phase[c]]
      /\ queue' = [c \in Subscribers |->
                     IF c \in live \ asked THEN Append(queue[c], e) ELSE queue[c]]
  BY DEF Stream!Deliver
<1>2. /\ Length \in Nat /\ emitted \in Nat /\ e \in 1 .. Length /\ e \in Nat
      /\ phase \in [Subscribers -> Stream!Phases] /\ listening \subseteq Subscribers
      /\ \A c \in Subscribers : got[c] \in Seq(1 .. Length) /\ queue[c] \in Seq(1 .. Length)
  BY DEF EventsInv, Stream!TypeOK, StreamAssumption
<1>3. \A c \in Subscribers : c \in live <=> c \in listening
  BY DEF EventsInv, IteratorInv
<1>4. asked \subseteq live /\ \A c \in asked : phase[c] = "waiting"
  OBVIOUS
<1>5. \A c \in live : phase[c] = "waiting" => c \in asked
  OBVIOUS
<1> HIDE DEF e, live, asked
<1>6. ASSUME NEW c \in Subscribers
      PROVE  /\ got'[c] \in Seq(1 .. Length) /\ queue'[c] \in Seq(1 .. Length)
             /\ phase'[c] \in Stream!Phases
             /\ Stream!Contiguous(Given(c))'
             /\ c \in listening => UpToDate(Given(c))' /\ c \notin done
             /\ phase'[c] = "away" => /\ got'[c] = <<>> /\ queue'[c] = <<>>
                                      /\ c \notin listening \cup done \cup closing
             /\ phase'[c] = "waiting" => queue'[c] = <<>>
  <2>0. /\ Stream!Contiguous(Given(c))
        /\ c \in listening => UpToDate(Given(c)) /\ c \notin done
        /\ phase[c] = "away" => /\ got[c] = <<>> /\ queue[c] = <<>>
                                /\ c \notin listening \cup done \cup closing
        /\ phase[c] = "waiting" => queue[c] = <<>>
    BY DEF EventsInv, IteratorInv
  <2>1. /\ got[c] \in Seq(1 .. Length) /\ queue[c] \in Seq(1 .. Length)
        /\ phase[c] \in Stream!Phases
    BY <1>2
  <2>2. CASE c \notin live
    <3>1. got'[c] = got[c] /\ queue'[c] = queue[c] /\ phase'[c] = phase[c] /\ c \notin listening
      BY <1>1, <1>3, <1>4, <2>2
    <3>2. Given(c)' = Given(c)
      BY <3>1 DEF Given
    <3>3. Stream!Contiguous(Given(c))'
      BY <2>0, <3>2 DEF Stream!Contiguous
    <3> QED BY <2>0, <2>1, <3>1, <3>3
  <2>3. CASE c \in live
    <3>1. Given(c)' = Append(Given(c), e)
      <4>1. CASE c \in asked
        <5>1. got'[c] = Append(got[c], e) /\ queue'[c] = queue[c] /\ queue[c] = <<>>
          BY <1>1, <1>4, <2>0, <4>1
        <5> QED BY <2>1, <5>1 DEF Given
      <4>2. CASE c \notin asked
        <5>1. got'[c] = got[c] /\ queue'[c] = Append(queue[c], e)
          BY <1>1, <2>3, <4>2
        <5>2. got[c] \o Append(queue[c], e) = Append(got[c] \o queue[c], e)
          <6> DEFINE a == got[c]
                     b == queue[c]
          <6>1. a \in Seq(1 .. Length) /\ b \in Seq(1 .. Length) /\ e \in 1 .. Length
            BY <1>2, <2>1
          <6> HIDE DEF a, b
          <6>2. a \o Append(b, e) = Append(a \o b, e)
            BY <6>1, AppendToLast
          <6> QED BY <6>2 DEF a, b
        <5> QED BY <5>1, <5>2 DEF Given
      <4> QED BY <4>1, <4>2
    <3>2. Given(c) \in Seq(Nat) /\ Given(c)[Len(Given(c))] = e - 1
      <4>1. Given(c) \in Seq(1 .. Length)
        BY <2>1 DEF Given
      <4>2. 1 .. Length \subseteq Nat
        BY <1>2
      <4>3. Given(c) \in Seq(Nat)
        BY <4>1, <4>2, SeqMonotonic
      <4>4. Given(c)[Len(Given(c))] = emitted
        BY <1>3, <2>0, <2>3 DEF UpToDate
      <4>5. e - 1 = emitted
        BY <1>2 DEF e
      <4> QED BY <4>3, <4>4, <4>5
    <3>3. /\ Stream!Contiguous(Given(c)') /\ Given(c)' # <<>>
          /\ Given(c)'[Len(Given(c)')] = e
      BY <1>2, <2>0, <3>1, <3>2, ContiguousAppend
    <3>4. Stream!Contiguous(Given(c))' /\ UpToDate(Given(c))'
      BY <3>3 DEF Stream!Contiguous, UpToDate, e
    <3>5. CASE c \in asked
      <4>1. /\ got'[c] = Append(got[c], e) /\ queue'[c] = queue[c] /\ queue[c] = <<>>
            /\ phase'[c] = "looping"
        BY <1>1, <1>4, <2>0, <3>5
      <4> QED BY <1>2, <1>3, <2>0, <2>1, <2>3, <3>4, <4>1 DEF Stream!Phases
    <3>6. CASE c \notin asked
      <4>1. got'[c] = got[c] /\ queue'[c] = Append(queue[c], e) /\ phase'[c] = phase[c]
        BY <1>1, <2>3, <3>6
      <4>2. phase[c] # "away" /\ phase[c] # "waiting"
        BY <1>3, <1>5, <2>0, <2>3, <3>6
      <4> QED BY <1>2, <1>3, <2>0, <2>1, <2>3, <3>4, <4>1, <4>2
    <3> QED BY <3>5, <3>6
  <2> QED BY <2>2, <2>3
<1>7. /\ phase' \in [Subscribers -> Stream!Phases]
      /\ queue' \in [Subscribers -> Seq(1 .. Length)]
      /\ got' \in [Subscribers -> Seq(1 .. Length)]
  BY <1>1, <1>6
<1>8. IteratorInv'
  BY <1>6 DEF IteratorInv
<1> QED BY <1>7, <1>8

LEMMA EventsInit == StreamAssumption /\ Stream!Init => EventsInv
<1> SUFFICES ASSUME StreamAssumption, Stream!Init PROVE EventsInv
  OBVIOUS
<1>1. Stream!TypeOK
  <2>1. <<>> \in Seq(1 .. Length) /\ Len(<<>>) = 0
    OBVIOUS
  <2>2. emitted \in 0 .. Length /\ ring \in Seq(1 .. Length) /\ Len(ring) <= RingCap
    BY <2>1 DEF StreamAssumption, Stream!Init
  <2>3. /\ queue \in [Subscribers -> Seq(1 .. Length)]
        /\ got \in [Subscribers -> Seq(1 .. Length)]
    BY <2>1 DEF Stream!Init
  <2>4. /\ phase \in [Subscribers -> Stream!Phases] /\ truncated \in BOOLEAN
        /\ evicted \in BOOLEAN /\ listening \in SUBSET Subscribers
        /\ flagged \in SUBSET Subscribers /\ closing \in SUBSET Subscribers
        /\ done \in SUBSET Subscribers
    BY DEF Stream!Init, Stream!Phases
  <2> QED BY <2>2, <2>3, <2>4 DEF Stream!TypeOK
<1>2. RingInv
  BY DEF StreamAssumption, Stream!Init, RingInv, Stream!Contiguous
<1>3. IteratorInv
  BY DEF Stream!Init, IteratorInv, Given, Stream!Contiguous
<1> QED BY <1>1, <1>2, <1>3 DEF EventsInv

\* Nothing but an event, a subscription or a pull changes what was given.
LEMMA SameGiven ==
    ASSUME EventsInv, UNCHANGED <<emitted, got, queue>>, listening' \subseteq listening,
           \A c \in Subscribers : c \in done' => c \in done \/ c \notin listening',
           \A c \in Subscribers : phase'[c] = phase[c] \/ phase'[c] = "over",
           \A c \in Subscribers : phase[c] = "away" => /\ c \in done' => c \in done
                                                       /\ c \in closing' => c \in closing
    PROVE  IteratorInv'
<1> SUFFICES ASSUME NEW c \in Subscribers
             PROVE  /\ Stream!Contiguous(Given(c))'
                    /\ c \in listening' => UpToDate(Given(c))' /\ c \notin done'
                    /\ phase'[c] = "away" => /\ got'[c] = <<>> /\ queue'[c] = <<>>
                                             /\ c \notin listening' \cup done' \cup closing'
                    /\ phase'[c] = "waiting" => queue'[c] = <<>>
  BY DEF IteratorInv
<1>0. /\ Stream!Contiguous(Given(c))
      /\ c \in listening => UpToDate(Given(c)) /\ c \notin done
      /\ phase[c] = "away" => /\ got[c] = <<>> /\ queue[c] = <<>>
                              /\ c \notin listening \cup done \cup closing
      /\ phase[c] = "waiting" => queue[c] = <<>>
  BY DEF EventsInv, IteratorInv
<1>1. Given(c)' = Given(c)
  BY DEF Given
<1>2. Stream!Contiguous(Given(c))' /\ (UpToDate(Given(c)) => UpToDate(Given(c))')
  BY <1>0, <1>1 DEF Stream!Contiguous, UpToDate
<1> QED BY <1>0, <1>2

\* What c holds after a step that only concerns c.
LEMMA OneGiven ==
    ASSUME EventsInv, NEW c \in Subscribers, UNCHANGED emitted,
           \A d \in Subscribers \ {c} :
              /\ got'[d] = got[d] /\ queue'[d] = queue[d] /\ phase'[d] = phase[d]
              /\ d \in listening' <=> d \in listening
              /\ d \in done' <=> d \in done
              /\ d \in closing' <=> d \in closing,
           /\ Stream!Contiguous(Given(c)')
           /\ c \in listening' => UpToDate(Given(c)') /\ c \notin done'
           /\ phase'[c] # "away"
           /\ phase'[c] = "waiting" => queue'[c] = <<>>
    PROVE  IteratorInv'
<1> SUFFICES ASSUME NEW d \in Subscribers
             PROVE  /\ Stream!Contiguous(Given(d))'
                    /\ d \in listening' => UpToDate(Given(d))' /\ d \notin done'
                    /\ phase'[d] = "away" => /\ got'[d] = <<>> /\ queue'[d] = <<>>
                                             /\ d \notin listening' \cup done' \cup closing'
                    /\ phase'[d] = "waiting" => queue'[d] = <<>>
  BY DEF IteratorInv
<1>1. CASE d = c
  BY <1>1 DEF Stream!Contiguous, UpToDate
<1>2. CASE d # c
  <2>0. /\ Stream!Contiguous(Given(d))
        /\ d \in listening => UpToDate(Given(d)) /\ d \notin done
        /\ phase[d] = "away" => /\ got[d] = <<>> /\ queue[d] = <<>>
                                /\ d \notin listening \cup done \cup closing
        /\ phase[d] = "waiting" => queue[d] = <<>>
    BY DEF EventsInv, IteratorInv
  <2>1. Given(d)' = Given(d)
    BY <1>2 DEF Given
  <2>2. Stream!Contiguous(Given(d))' /\ (UpToDate(Given(d)) => UpToDate(Given(d))')
    BY <2>0, <2>1 DEF Stream!Contiguous, UpToDate
  <2> QED BY <1>2, <2>0, <2>2
<1> QED BY <1>1, <1>2

LEMMA EventsNext ==
    StreamAssumption /\ EventsInv /\ [Stream!Next]_(Stream!vars) => EventsInv'
<1> SUFFICES ASSUME StreamAssumption, EventsInv, [Stream!Next]_(Stream!vars)
             PROVE  EventsInv'
  OBVIOUS
<1>0. Stream!TypeOK /\ RingInv /\ IteratorInv
  BY DEF EventsInv
<1>1. CASE Stream!Emit
  <2>1. /\ emitted < Length /\ emitted' = emitted + 1
        /\ Stream!Push(emitted + 1) /\ Stream!Deliver(emitted + 1)
        /\ UNCHANGED <<evicted, listening, flagged, closing, done>>
    BY <1>1 DEF Stream!Emit
  <2>2. /\ ring' \in Seq(1 .. Length) /\ Len(ring') <= RingCap
        /\ truncated' \in BOOLEAN /\ RingInv'
    BY <2>1, PushInv
  <2>3. /\ phase' \in [Subscribers -> Stream!Phases]
        /\ queue' \in [Subscribers -> Seq(1 .. Length)]
        /\ got' \in [Subscribers -> Seq(1 .. Length)]
        /\ IteratorInv'
    BY <2>1, DeliverInv
  <2>4. Stream!TypeOK'
    BY <1>0, <2>1, <2>2, <2>3 DEF Stream!TypeOK, StreamAssumption
  <2> QED BY <2>2, <2>3, <2>4 DEF EventsInv
<1>2. CASE Stream!Evict
  <2>1. /\ emitted = Length /\ evicted' = TRUE /\ ring' = <<>> /\ listening' = {}
        /\ UNCHANGED <<emitted, truncated, phase, queue, got, flagged, closing, done>>
    BY <1>2 DEF Stream!Evict
  <2>2. Stream!TypeOK'
    BY <1>0, <2>1 DEF Stream!TypeOK, StreamAssumption
  <2>3. RingInv'
    BY <2>1 DEF RingInv, Stream!Contiguous
  <2>4. IteratorInv'
    BY <2>1, SameGiven
  <2> QED BY <2>2, <2>3, <2>4 DEF EventsInv
<1>3. ASSUME NEW c \in Subscribers, Stream!Subscribe(c) PROVE EventsInv'
  <2>1. /\ phase[c] = "away" /\ emitted > 0 /\ ~ evicted
        /\ queue' = [queue EXCEPT ![c] = ring]
        /\ flagged' \in {flagged, flagged \cup {c}}
        /\ listening' = listening \cup {c}
        /\ phase' = [phase EXCEPT ![c] = "looping"]
        /\ UNCHANGED <<emitted, ring, truncated, evicted, got, closing, done>>
    BY <1>3 DEF Stream!Subscribe
  <2>2. Stream!TypeOK'
    BY <1>0, <2>1 DEF Stream!TypeOK, Stream!Phases
  <2>3. RingInv'
    BY <1>0, <2>1 DEF RingInv, UpToDate, Stream!Contiguous
  <2>4. got[c] = <<>> /\ c \notin done
    BY <1>0, <2>1 DEF IteratorInv
  <2>5. Given(c)' = ring
    BY <1>0, <2>1, <2>4 DEF Stream!TypeOK, Given
  <2>6. Stream!Contiguous(ring) /\ UpToDate(ring)
    BY <1>0, <2>1 DEF RingInv
  <2>7. /\ phase'[c] = "looping"
        /\ \A d \in Subscribers \ {c} : queue'[d] = queue[d] /\ phase'[d] = phase[d]
    BY <1>0, <2>1 DEF Stream!TypeOK
  <2>8. IteratorInv'
    BY <2>1, <2>4, <2>5, <2>6, <2>7, OneGiven
  <2> QED BY <2>2, <2>3, <2>8 DEF EventsInv
<1>4. ASSUME NEW c \in Subscribers, Stream!Pull(c) PROVE EventsInv'
  <2>0. phase[c] = "looping" /\ UNCHANGED <<emitted, ring, truncated, evicted, listening, flagged, done>>
    BY <1>4 DEF Stream!Pull
  <2>1. RingInv'
    BY <1>0, <2>0 DEF RingInv, UpToDate, Stream!Contiguous
  <2>2. CASE c \in done /\ phase' = [phase EXCEPT ![c] = "over"] /\ UNCHANGED <<queue, got, closing>>
    <3>1. Stream!TypeOK'
      BY <1>0, <2>0, <2>2 DEF Stream!TypeOK, Stream!Phases
    <3>2. \A d \in Subscribers : phase'[d] = phase[d] \/ phase'[d] = "over"
      BY <1>0, <2>2 DEF Stream!TypeOK
    <3>3. IteratorInv'
      <4>1. \A d \in Subscribers : d \in done => d \notin listening
        BY <1>0 DEF IteratorInv
      <4> QED BY <2>0, <2>2, <3>2, <4>1, SameGiven
    <3> QED BY <2>1, <3>1, <3>3 DEF EventsInv
  <2>3. CASE /\ c \notin done /\ queue[c] # <<>>
             /\ got' = [got EXCEPT ![c] = Append(@, Head(queue[c]))]
             /\ queue' = [queue EXCEPT ![c] = Tail(@)]
             /\ closing' \in {closing, closing \cup {c}}
             /\ UNCHANGED phase
    <3>1. got[c] \in Seq(1 .. Length) /\ queue[c] \in Seq(1 .. Length)
      BY <1>0 DEF Stream!TypeOK
    <3>2. Head(queue[c]) \in 1 .. Length /\ Tail(queue[c]) \in Seq(1 .. Length)
      <4>1. queue[c] # <<>>
        BY <2>3
      <4> QED BY <3>1, <4>1, HeadAndTail, Zenon
    <3>3. /\ got'[c] = Append(got[c], Head(queue[c])) /\ queue'[c] = Tail(queue[c])
          /\ \A d \in Subscribers \ {c} : got'[d] = got[d] /\ queue'[d] = queue[d]
      BY <1>0, <2>3 DEF Stream!TypeOK
    <3>4. Stream!TypeOK'
      BY <1>0, <2>0, <2>3, <3>2 DEF Stream!TypeOK
    <3>5. Given(c)' = Given(c)
      <4>1. Append(got[c], Head(queue[c])) \o Tail(queue[c]) = got[c] \o queue[c]
        BY <2>3, <3>1, HeadToLast
      <4> QED BY <3>3, <4>1 DEF Given
    <3>6. IteratorInv'
      <4>1. Stream!Contiguous(Given(c)) /\ (c \in listening => UpToDate(Given(c)))
        BY <1>0 DEF IteratorInv
      <4> QED BY <2>0, <2>3, <3>3, <3>5, <4>1, OneGiven
    <3> QED BY <2>1, <3>4, <3>6 DEF EventsInv
  <2>4. CASE c \notin done /\ queue[c] = <<>> /\ phase' = [phase EXCEPT ![c] = "waiting"]
             /\ UNCHANGED <<queue, got, closing>>
    <3>1. Stream!TypeOK'
      BY <1>0, <2>0, <2>4 DEF Stream!TypeOK, Stream!Phases
    <3>2. phase'[c] = "waiting" /\ \A d \in Subscribers \ {c} : phase'[d] = phase[d]
      BY <1>0, <2>4 DEF Stream!TypeOK
    <3>3. Given(c)' = Given(c)
      BY <2>4 DEF Given
    <3>4. Stream!Contiguous(Given(c)) /\ (c \in listening => UpToDate(Given(c)))
      BY <1>0 DEF IteratorInv
    <3>5. IteratorInv'
      BY <2>0, <2>4, <3>2, <3>3, <3>4, OneGiven
    <3> QED BY <2>1, <3>1, <3>5 DEF EventsInv
  <2> QED BY <1>4, <2>2, <2>3, <2>4 DEF Stream!Pull
<1>5. ASSUME NEW c \in Subscribers, Stream!CleanupTick(c) PROVE EventsInv'
  <2>1. /\ c \in closing /\ closing' = closing \ {c}
        /\ UNCHANGED <<emitted, ring, truncated, evicted, queue, got, flagged>>
        /\ \/ UNCHANGED <<done, listening, phase>>
           \/ Stream!Clean(c)
    BY <1>5 DEF Stream!CleanupTick
  <2>2. RingInv'
    BY <1>0, <2>1 DEF RingInv, UpToDate, Stream!Contiguous
  <2>3. phase[c] # "away"
    BY <1>0, <2>1 DEF IteratorInv
  <2>4. /\ done' \in {done, done \cup {c}} /\ listening' \subseteq listening
        /\ c \in done' => c \in done \/ c \notin listening'
        /\ phase' \in [Subscribers -> Stream!Phases]
        /\ \A d \in Subscribers : phase'[d] = phase[d] \/ phase'[d] = "over"
    BY <1>0, <2>1 DEF Stream!TypeOK, Stream!Clean, Stream!Phases
  <2>5. Stream!TypeOK'
    BY <1>0, <2>1, <2>4 DEF Stream!TypeOK
  <2>6. IteratorInv'
    BY <2>1, <2>3, <2>4, SameGiven
  <2> QED BY <2>2, <2>5, <2>6 DEF EventsInv
<1>6. ASSUME NEW c \in Subscribers, Stream!Return(c) PROVE EventsInv'
  <2>1. /\ phase[c] \in {"looping", "waiting"} /\ done' = done \cup {c}
        /\ listening' = listening \ {c} /\ phase' = [phase EXCEPT ![c] = "over"]
        /\ UNCHANGED <<emitted, ring, truncated, evicted, queue, got, flagged, closing>>
    BY <1>6 DEF Stream!Return
  <2>2. RingInv'
    BY <1>0, <2>1 DEF RingInv, UpToDate, Stream!Contiguous
  <2>3. Stream!TypeOK'
    BY <1>0, <2>1 DEF Stream!TypeOK, Stream!Phases
  <2>4. \A d \in Subscribers : phase'[d] = phase[d] \/ phase'[d] = "over"
    BY <1>0, <2>1 DEF Stream!TypeOK
  <2>5. IteratorInv'
    BY <2>1, <2>4, SameGiven
  <2> QED BY <2>2, <2>3, <2>5 DEF EventsInv
<1>7. CASE UNCHANGED Stream!vars
  <2>1. UNCHANGED <<emitted, ring, truncated, evicted, listening, phase, queue, got,
                    flagged, closing, done>>
    BY <1>7 DEF Stream!vars
  <2>2. Stream!TypeOK'
    BY <1>0, <2>1 DEF Stream!TypeOK
  <2>3. RingInv'
    BY <1>0, <2>1 DEF RingInv, UpToDate, Stream!Contiguous
  <2>4. IteratorInv'
    BY <1>0, <2>1 DEF IteratorInv, UpToDate, Stream!Contiguous, Given
  <2> QED BY <2>2, <2>3, <2>4 DEF EventsInv
<1> QED BY <1>1, <1>2, <1>3, <1>4, <1>5, <1>6, <1>7 DEF Stream!Next

LEMMA EventsInvariant == ASSUME StreamAssumption PROVE Stream!Spec => []EventsInv
BY EventsInit, EventsNext, PTL DEF Stream!Spec

\* The buffer never holds more than its capacity and every iterator's state is
\* well formed (ring-buffer.ts, subscribe.ts).
THEOREM StreamTypeCorrect == ASSUME StreamAssumption PROVE Stream!Spec => []Stream!TypeOK
<1>1. EventsInv => Stream!TypeOK
  BY DEF EventsInv
<1> QED BY <1>1, EventsInvariant, PTL

\* Replay and live tail join without a gap or a repeat, whenever a subscriber
\* comes, however far the buffer has overflowed and whoever gives up (drainBuffered,
\* deliver, cleanup).
THEOREM ReplayJoinsTail == ASSUME StreamAssumption PROVE Stream!Spec => []Stream!NoGapNoRepeat
<1>1. EventsInv => Stream!NoGapNoRepeat
  BY DEF EventsInv, IteratorInv, Given, UpToDate, Stream!NoGapNoRepeat
<1> QED BY <1>1, EventsInvariant, PTL

=============================================================================
