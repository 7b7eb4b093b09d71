------------------------------- MODULE FanOut -------------------------------
(***************************************************************************)
(* The programs that put an AsyncSemaphore in front of a list of items:    *)
(*   batch     Agent.batch (internal/agent/batch.ts, runBatch)             *)
(*   map       mapWithConcurrency                                          *)
(*   failfast  a workflow's parallel step with the default error policy    *)
(*   collect   a workflow's parallel step that collects                    *)
(*   foreach   a workflow's foreach step                                   *)
(* and direct, the callers of the public Semaphore.create, who come and go *)
(* as they like.  Each use has a semaphore of its own; the behaviours of   *)
(* this module are those of one of them, picked at the start.              *)
(*                                                                         *)
(* The callers of the semaphore are the items.  All of them call acquire() *)
(* in one stretch, in the order of the list (Enter); after that an item    *)
(* runs between awaits: Resume is acquire's continuation, Begin the item's *)
(* own, Finish the end of its work with the finally block that releases    *)
(* the permit, Callback the end of batch's onResult.  What an item runs (an*)
(* agent, a function, a list of workflow steps) is one step that ends.     *)
(***************************************************************************)
EXTENDS AsyncSemaphore, SequencesExt

VARIABLES use,       (* which of the programs this is                        *)
          stage,     (* where each item stands                               *)
          end,       (* how its work ended                                   *)
          stop,      (* the caller's signal was aborted                      *)
          outcome    (* what the call has returned                           *)

fan == <<use, stage, end, stop, outcome>>

fanVars == <<vars, fan>>

Uses == {"direct", "batch", "map", "failfast", "collect", "foreach"}
Stages == {"queued", "running", "callback", "over"}
Ends == {"none", "ok", "failed", "aborted", "suspended"}

\* The items in the order of the list.
Items == SetToSeq(Callers)

FanInit == /\ Init
           /\ use \in Uses
           /\ stage = [c \in Callers |-> "queued"]
           /\ end = [c \in Callers |-> "none"]
           /\ stop \in BOOLEAN /\ (stop => use \in {"batch", "map"})
           /\ outcome = IF use = "direct" THEN "none" ELSE "entering"

Move(c, s, e) == /\ stage' = [stage EXCEPT ![c] = s]
                 /\ end' = [end EXCEPT ![c] = e]

\* The next item's callback runs up to acquire's await.  The call awaits once
\* all of them have.
Enter(c) ==
    /\ outcome = "entering"
    /\ c = Items[1 + Cardinality({d \in Callers : phase[d] # "idle"})]
    /\ Acquire(c)
    /\ outcome' = IF c = Last(Items) THEN "pending" ELSE outcome
    /\ UNCHANGED <<use, stage, end, stop>>

Continue(c) == /\ use # "direct" /\ outcome # "entering"
               /\ Resume(c)
               /\ UNCHANGED fan

\* Fault: map's item throws before the try block whose finally releases.
Begin_Leaks(c) ==
    /\ use # "direct" /\ phase[c] = "holding" /\ stage[c] = "queued"
    /\ \/ stop /\ use = "batch" /\ Move(c, "callback", "aborted") /\ UNCHANGED vars
       \/ stop /\ use = "map" /\ Move(c, "over", "aborted") /\ UNCHANGED vars
       \/ ~(stop /\ use \in {"batch", "map"}) /\ Move(c, "running", "none") /\ UNCHANGED vars
    /\ UNCHANGED <<use, stop, outcome>>

\* With its permit, an item looks at the caller's signal (batch and map; the
\* workflow steps do not) and starts its work.
Begin(c) ==
    /\ use # "direct" /\ phase[c] = "holding" /\ stage[c] = "queued"
    /\ \/ stop /\ use = "batch" /\ Move(c, "callback", "aborted") /\ UNCHANGED vars
       \/ stop /\ use = "map" /\ Move(c, "over", "aborted") /\ Release(c)
       \/ ~(stop /\ use \in {"batch", "map"}) /\ Move(c, "running", "none") /\ UNCHANGED vars
    /\ UNCHANGED <<use, stop, outcome>>

\* A workflow step may suspend; the sentinel it throws passes through here.
WorkEnds == {"ok", "failed"} \cup
            (IF use \in {"failfast", "collect", "foreach"} THEN {"suspended"} ELSE {})

\* Fault: batch gives the permit back before it calls onResult.
Finish_EarlyRelease(c) ==
    /\ stage[c] = "running"
    /\ \E e \in WorkEnds : Move(c, IF use = "batch" THEN "callback" ELSE "over", e)
    /\ Release(c)
    /\ UNCHANGED <<use, stop, outcome>>

\* The work ends.  batch awaits onResult with the permit in hand, the others
\* leave through the finally block.
Finish(c) ==
    /\ stage[c] = "running"
    /\ \E e \in WorkEnds : Move(c, IF use = "batch" THEN "callback" ELSE "over", e)
    /\ IF use = "batch" THEN UNCHANGED vars ELSE Release(c)
    /\ UNCHANGED <<use, stop, outcome>>

\* onResult has returned or thrown, which is the same to batch.
Callback(c) ==
    /\ stage[c] = "callback"
    /\ Move(c, "over", end[c])
    /\ Release(c)
    /\ UNCHANGED <<use, stop, outcome>>

\* The items whose promise is rejected.  batch turns every error into a
\* result; foreach notes a failed item and lets only the sentinel through.
Rejected == {c \in Callers :
                /\ stage[c] = "over"
                /\ \/ use = "map" /\ end[c] # "ok"
                   \/ use \in {"failfast", "collect"} /\ end[c] # "ok"
                   \/ use = "foreach" /\ end[c] = "suspended"}

AllOver == \A c \in Callers : stage[c] = "over"

\* Fault: the fail-fast step does not wait for the branches it has aborted.
Return_FirstFailure ==
    /\ outcome = "pending"
    /\ \/ use \in {"map", "failfast", "foreach"} /\ Rejected # {}
       \/ AllOver
    /\ outcome' = CASE use \in {"map", "failfast"} /\ Rejected # {} -> "failed"
                    [] use = "foreach" /\ Rejected # {} -> "suspended"
                    [] use = "foreach" /\ \E c \in Callers : end[c] = "failed" -> "failed"
                    [] OTHER -> "ok"
    /\ UNCHANGED <<vars, use, stage, end, stop>>

\* The call returns.  Promise.all rejects with the first rejected item (map,
\* foreach); the fail-fast step then waits for the others, collect and batch
\* wait for all of them anyway.
Return ==
    /\ outcome = "pending"
    /\ \/ use \in {"map", "foreach"} /\ Rejected # {}
       \/ AllOver
    /\ outcome' = CASE use \in {"map", "failfast"} /\ Rejected # {} -> "failed"
                    [] use = "foreach" /\ Rejected # {} -> "suspended"
                    [] use = "foreach" /\ \E c \in Callers : end[c] = "failed" -> "failed"
                    [] OTHER -> "ok"
    /\ UNCHANGED <<vars, use, stage, end, stop>>

AbortSignal == /\ use \in {"batch", "map"} /\ outcome # "entering" /\ ~stop
               /\ stop' = TRUE
               /\ UNCHANGED <<vars, use, stage, end, outcome>>

Direct(c) == /\ use = "direct"
             /\ Acquire(c) \/ Resume(c) \/ Release(c)
             /\ UNCHANGED fan

FanNext == \/ AbortSignal \/ Return
           \/ \E c \in Callers : \/ Direct(c) \/ Enter(c) \/ Continue(c)
                                 \/ Begin(c) \/ Finish(c) \/ Callback(c)

\* Continuations run, the work of an item ends, and a direct caller releases
\* what it was given in a finally block.
FanFairness ==
    /\ WF_fanVars(Return)
    /\ \A c \in Callers :
          /\ WF_fanVars(Enter(c) \/ Continue(c) \/ Begin(c) \/ Finish(c) \/ Callback(c))
          /\ WF_fanVars(use = "direct" /\ Resume(c) /\ UNCHANGED fan)
          /\ WF_fanVars(use = "direct" /\ Release(c) /\ UNCHANGED fan)

FanSpec == FanInit /\ [][FanNext]_fanVars /\ FanFairness

-----------------------------------------------------------------------------

\* Type of the semaphore's state and of the items' (createSemaphore, runBatch,
\* runParallelStep, runForeachStep).
FanTypeOK == /\ TypeOK
             /\ use \in Uses
             /\ stage \in [Callers -> Stages]
             /\ end \in [Callers -> Ends]
             /\ stop \in BOOLEAN
             /\ outcome \in {"none", "entering", "pending", "ok", "failed", "suspended"}

\* concurrency bounds the whole life of an item, batch's onResult included: an
\* item at work owns a permit, so no more than Permits of them ever overlap.
PermitSpansWork ==
    LET busy == {c \in Callers : stage[c] \in {"running", "callback"}}
    IN  busy \subseteq Holders /\ Cardinality(busy) <= Permits

\* When Agent.batch or a parallel step has returned, nothing it started is
\* still at work or about to start, on the fail-fast path too.  Only map and a
\* foreach with a suspended item return while others go on.
NoStragglers ==
    (outcome \in {"ok", "failed", "suspended"} /\ ~(use \in {"map", "foreach"} /\ Rejected # {}))
        => Holders = {} /\ queue = <<>>

=============================================================================
