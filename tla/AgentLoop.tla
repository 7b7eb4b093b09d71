------------------------------ MODULE AgentLoop ------------------------------
(***************************************************************************)
(* runAgentLoop (internal/agent-loop): the cycle of model turns and tool   *)
(* batches of one run, up to the output it returns or the error it throws. *)
(*                                                                         *)
(* A turn is a step of its own wherever the code awaits: the model's       *)
(* stream, the stop hook, and in a batch each call's hooks and its tool.   *)
(* What a text or a tool result says is left out; the history keeps which  *)
(* calls were asked for and answered, the event log its length.            *)
(***************************************************************************)
EXTENDS Integers, Sequences, FiniteSets, SequencesExt

CONSTANTS Tools,       \* what a call asks for: tool and canonical input
          NoTool,      \* no call was seen yet
          MaxCalls,    \* bound: calls of one turn
          Iterations,  \* maxIterations of the send
          Nudges,      \* MAX_NUDGE_ATTEMPTS
          Feedbacks,   \* MAX_STOP_FEEDBACK_ATTEMPTS
          ErrorCap,    \* maxConsecutiveToolErrors
          SoftAt, HardAt  \* the thresholds of the doom-loop guard (which can be off: never reached)

ASSUME LoopAssumption ==
    /\ {MaxCalls, Iterations, ErrorCap, SoftAt, HardAt} \subseteq Nat \ {0}
    /\ {Nudges, Feedbacks} \subseteq Nat
    /\ NoTool \notin Tools

VARIABLES
    concurrent, \* maxConcurrentTools of the send
    pc,       \* where runAgentLoop is
    budget,   \* IterationBudget: what remains, and whether the grace call is used
    ctx,      \* LoopContext
    turn,     \* LlmTurnOutput of the turn under way
    calls,    \* the batch in dispatch
    logged,   \* length of ctx.events
    aborted   \* the run's signal

loopVars == <<concurrent, pc, budget, ctx, turn, calls, logged, aborted>>

User == [kind |-> "user", ids |-> <<>>]

NoTurn == [text |-> FALSE, sigs |-> <<>>, stop |-> "none"]

\* initLoopContext's result; priorMessages are well formed and stand in the
\* first message.
FreshContext ==
    [messages |-> <<User>>, text |-> FALSE, status |-> "finished", error |-> FALSE,
     limit |-> FALSE, streak |-> [sig |-> NoTool, count |-> 0],
     nudges |-> 0, feedbacks |-> 0, toolErrors |-> 0, last |-> "none"]

LoopInit == /\ concurrent \in {1, MaxCalls}
            /\ pc = "idle"
            /\ budget = [remaining |-> Iterations, grace |-> FALSE]
            /\ ctx = FreshContext
            /\ turn = NoTurn
            /\ calls = <<>>
            /\ logged = 0
            /\ aborted = FALSE

-----------------------------------------------------------------------------
\* The start

\* The log is seeded with the system and the user event; the subscriber is
\* attached after them.
ContextReady == /\ pc = "init"
                /\ pc' = "gate"
                /\ logged' = 2
                /\ UNCHANGED <<concurrent, budget, ctx, turn, calls, aborted>>

\* An invalid threshold makes the guard's constructor throw.
ContextFails == /\ pc = "init"
                /\ pc' = "thrown"
                /\ UNCHANGED <<concurrent, budget, ctx, turn, calls, logged, aborted>>

-----------------------------------------------------------------------------
\* The head of the loop

ShouldContinue(b) == b.remaining > 0 \/ ~b.grace

BeginTurn == /\ pc = "gate"
             /\ ShouldContinue(budget)
             /\ budget' = [budget EXCEPT !.grace = @ \/ budget.remaining = 0]
             /\ pc' = "llm"
             /\ UNCHANGED <<concurrent, ctx, turn, calls, logged, aborted>>

\* The budget tracker denies, or throws and is taken to deny.  The reason may
\* be its iteration limit, and a detail may come with it.
BudgetDenies(atLimit, detail) ==
    /\ pc = "gate"
    /\ ShouldContinue(budget)
    /\ ctx' = [ctx EXCEPT !.status = "error", !.limit = @ \/ atLimit, !.error = @ \/ detail]
    /\ pc' = "ended"
    /\ UNCHANGED <<concurrent, budget, turn, calls, logged, aborted>>

BudgetExhausted == /\ pc = "gate"
                   /\ ~ShouldContinue(budget)
                   /\ pc' = "ended"
                   /\ UNCHANGED <<concurrent, budget, ctx, turn, calls, logged, aborted>>

\* What the loop does with the decision of a turn; c is the context it left.
EndTurn(decision, c) ==
    /\ LET d == [c EXCEPT !.last = decision]
       IN  CASE decision = "done"  -> /\ ctx' = d
                                      /\ pc' = "ended"
                                      /\ UNCHANGED budget
             [] decision = "error" -> /\ ctx' = [d EXCEPT !.status = "error"]
                                      /\ pc' = "ended"
                                      /\ UNCHANGED budget
             [] OTHER -> /\ budget' = [budget EXCEPT !.remaining = IF @ > 0 THEN @ - 1 ELSE 0]
                         /\ ctx' = IF aborted THEN [d EXCEPT !.status = "cancelled"] ELSE d
                         /\ pc' = IF aborted THEN "ended" ELSE "gate"
    /\ turn' = NoTurn
    /\ calls' = <<>>

-----------------------------------------------------------------------------
\* The model's turn

\* The stream finishes.  A text is reported and becomes the final text.
LlmAnswers(text, sigs, stop) ==
    /\ pc = "llm"
    /\ turn' = [text |-> text, sigs |-> sigs, stop |-> stop]
    /\ logged' = logged + (IF text THEN 1 ELSE 0)
    /\ ctx' = [ctx EXCEPT !.text = @ \/ text]
    /\ pc' = "reply"
    /\ UNCHANGED <<concurrent, budget, calls, aborted>>

\* The stream is cut, after a part of the text or before any.  The first error
\* stays; the part replaces the final text.
LlmThrows(partial) ==
    /\ pc = "llm"
    /\ ~aborted
    /\ logged' = logged + (IF partial THEN 1 ELSE 0)
    /\ EndTurn("error", [ctx EXCEPT !.error = TRUE, !.text = partial])
    /\ UNCHANGED <<concurrent, aborted>>

\* The provider reports an error in the stream: nothing is added to the log.
LlmReportsError(partial) ==
    /\ pc = "llm"
    /\ EndTurn("error", [ctx EXCEPT !.error = TRUE, !.text = partial])
    /\ UNCHANGED <<concurrent, logged, aborted>>

\* The stream ends by the run's own signal: "[aborted]", and no error.
LlmAborted == /\ pc = "llm"
              /\ aborted
              /\ logged' = logged + 1
              /\ EndTurn("error", [ctx EXCEPT !.text = TRUE])
              /\ UNCHANGED <<concurrent, aborted>>

WantsTools(t) == t.stop = "tool_use" /\ t.sigs # <<>>

\* An empty answer is nudged, a bounded number of times.
Bailout(t) == ~t.text /\ t.sigs = <<>>

Nudge == /\ pc = "reply"
         /\ ~WantsTools(turn)
         /\ Bailout(turn)
         /\ ctx.nudges < Nudges
         /\ EndTurn("continue", [ctx EXCEPT !.nudges = @ + 1, !.messages = Append(@, User)])
         /\ UNCHANGED <<concurrent, logged, aborted>>

\* Otherwise the stop hook is run, whatever is left of the re-prompts.
Finishing == pc = "reply" /\ ~WantsTools(turn) /\ (Bailout(turn) => ctx.nudges = Nudges)

StopHookAsksForMore ==
    /\ Finishing
    /\ ctx.feedbacks < Feedbacks
    /\ EndTurn("continue", [ctx EXCEPT !.feedbacks = @ + 1, !.messages = Append(@, User)])
    /\ UNCHANGED <<concurrent, logged, aborted>>

Finish == /\ Finishing
          /\ EndTurn("done", [ctx EXCEPT !.status = "finished"])
          /\ UNCHANGED <<concurrent, logged, aborted>>

StopHookThrows == /\ Finishing
                  /\ pc' = "thrown"
                  /\ UNCHANGED <<concurrent, budget, ctx, turn, calls, logged, aborted>>

-----------------------------------------------------------------------------
\* The batch of tool calls

Batch == DOMAIN calls

\* mapWithConcurrency: a call holds its permit from here to its end.
InFlight == {i \in Batch : calls[i].phase \in {"hooks", "racing", "ran"}}

\* The calls join the history as the assistant's turn and are dispatched.
Dispatch ==
    /\ pc = "reply"
    /\ WantsTools(turn)
    /\ LET ids == [i \in DOMAIN turn.sigs |-> <<Len(ctx.messages), i>>]
       IN  /\ ctx' = [ctx EXCEPT !.messages = Append(@, [kind |-> "calls", ids |-> ids])]
           /\ calls' = [i \in DOMAIN ids |-> [id |-> ids[i], phase |-> "queued", result |-> "none"]]
    /\ pc' = "tools"
    /\ UNCHANGED <<concurrent, budget, turn, logged, aborted>>

\* A step of call i: events are its reports.  The batch outlives its loop: when
\* a call throws, the others go on, and those that wait for a permit start.
CallStep(i, from, to, result, events) ==
    /\ i \in Batch
    /\ calls[i].phase = from
    /\ calls' = [calls EXCEPT ![i] = [id |-> calls[i].id, phase |-> to, result |-> result]]
    /\ logged' = logged + events
    /\ UNCHANGED <<concurrent, budget, ctx, turn, aborted>>

\* Fault: the calls start together, whatever the send allows.
Admitted_NoLimit(i) == \A j \in Batch : j < i => calls[j].phase # "queued"

Admitted(i) == /\ Cardinality(InFlight) < concurrent
               /\ \A j \in Batch : j < i => calls[j].phase # "queued"

\* The call takes its permit and is reported as running; the hooks are asked.
CallStarts(i) == /\ Admitted(i)
                 /\ CallStep(i, "queued", "hooks", "none", 1)
                 /\ UNCHANGED pc

\* The tool is outside the fork's whitelist: running and completed at once.
CallNotListed(i) == /\ Admitted(i)
                    /\ CallStep(i, "queued", "done", "veto", 2)
                    /\ UNCHANGED pc

\* A plugin or a file hook denies: an answer, and not an error.
CallVetoed(i) == CallStep(i, "hooks", "done", "veto", 1) /\ UNCHANGED pc

\* A plugin's hook throws, and nothing catches it before the loop does.
CallThrows(i) == /\ CallStep(i, "hooks", "threw", "none", 0)
                 /\ pc' = IF pc = "tools" THEN "thrown" ELSE pc

\* executeTool is called first and the signal looked at after it.
ToolStarts(i) == /\ IF aborted THEN CallStep(i, "hooks", "ran", "aborted", 0)
                               ELSE CallStep(i, "hooks", "racing", "none", 0)
                 /\ UNCHANGED pc

\* raceToolExecution: the first of the tool, the signal and the deadline settles
\* the race.  A tool that loses it goes on unheard.
ToolEnds(i, result) == /\ ~aborted
                       /\ CallStep(i, "racing", "ran", result, 0)
                       /\ UNCHANGED pc

ToolCutOff(i) == /\ aborted
                 /\ CallStep(i, "racing", "ran", "aborted", 0)
                 /\ UNCHANGED pc

\* perToolTimeoutMs, when the send has one.
ToolTimesOut(i) == /\ CallStep(i, "racing", "ran", "aborted", 0)
                   /\ UNCHANGED pc

\* After the lifecycle hooks, none of which can throw, the end is reported.
CallEnds(i) == CallStep(i, "ran", "done", calls[i].result, 1) /\ UNCHANGED pc

\* Fault: a denied call leaves no result.
Results_NoDenied ==
    SelectSeq([i \in Batch |-> calls[i].id],
              LAMBDA id : \A i \in Batch : calls[i].id = id => calls[i].result # "veto")

\* The results go back in the order of the calls, one for each of them.
Results == [i \in Batch |-> calls[i].id]

IsError(result) == result \in {"err", "aborted"}

\* DoomLoopTracker.inspect, folded over the calls up to the first hard verdict.
Inspect(seen, sig) ==
    IF seen.verdict = "hard" THEN seen
    ELSE LET n == IF sig = seen.sig THEN seen.count + 1 ELSE 1
         IN  [sig |-> sig, count |-> n,
              verdict |-> IF n >= HardAt THEN "hard"
                          ELSE IF n = SoftAt THEN "soft" ELSE seen.verdict]

FirstDoomLoopVerdict(streak, sigs) ==
    FoldLeft(Inspect, [sig |-> streak.sig, count |-> streak.count, verdict |-> "ok"], sigs)

\* inspectDoomLoop: the hard verdict is reported and ends the run in good
\* order, a soft one is said to the model; then the tool errors are counted.
BatchEnds ==
    /\ pc = "tools"
    /\ \A i \in Batch : calls[i].phase = "done"
    /\ LET v == FirstDoomLoopVerdict(ctx.streak, turn.sigs)
           answered == Append(ctx.messages, [kind |-> "results", ids |-> Results])
           failed == \E i \in Batch : IsError(calls[i].result)
           errors == IF failed THEN ctx.toolErrors + 1 ELSE 0
           seen == [ctx EXCEPT !.messages = IF v.verdict = "soft" THEN Append(answered, User) ELSE answered,
                               !.streak = [sig |-> v.sig, count |-> v.count]]
       IN  IF v.verdict = "hard"
           THEN /\ EndTurn("done", [seen EXCEPT !.text = TRUE])
                /\ logged' = logged + 1
           ELSE /\ EndTurn(IF failed /\ errors >= ErrorCap THEN "error" ELSE "continue",
                           [seen EXCEPT !.toolErrors = errors])
                /\ UNCHANGED logged
    /\ UNCHANGED <<concurrent, aborted>>

-----------------------------------------------------------------------------
\* The end

\* Fault: a loop that ran out of turns with a text to show says nothing.
Finalize_Silent ==
    /\ pc = "ended"
    /\ LET mute == ~ShouldContinue(budget) /\ ctx.status = "finished" /\ ~ctx.text
       IN  ctx' = [ctx EXCEPT !.limit = @ \/ mute,
                              !.status = IF mute THEN "error" ELSE @,
                              !.error = @ \/ mute]
    /\ pc' = "returned"
    /\ UNCHANGED <<concurrent, budget, turn, calls, logged, aborted>>

\* diagnoseTermination: a loop that ran out of turns says so, and one that has
\* nothing to show for it is an error.
Finalize ==
    /\ pc = "ended"
    /\ LET exhausted == ~ShouldContinue(budget)
           mute == exhausted /\ ctx.status = "finished" /\ ~ctx.text
       IN  ctx' = [ctx EXCEPT !.limit = @ \/ (ctx.last = "continue" /\ exhausted),
                              !.status = IF mute THEN "error" ELSE @,
                              !.error = @ \/ mute]
    /\ pc' = "returned"
    /\ UNCHANGED <<concurrent, budget, turn, calls, logged, aborted>>

CallNext == \E i \in Batch :
    \/ CallStarts(i) \/ CallNotListed(i) \/ CallVetoed(i) \/ CallThrows(i)
    \/ ToolStarts(i) \/ ToolCutOff(i) \/ CallEnds(i)

ToolNext == \E i \in Batch :
    ToolEnds(i, "ok") \/ ToolEnds(i, "err") \/ ToolTimesOut(i)

LlmNext ==
    \/ \E text \in BOOLEAN, sigs \in BoundedSeq(Tools, MaxCalls), stop \in {"tool_use", "end_turn"} :
          (sigs = <<>> => stop = "end_turn") /\ LlmAnswers(text, sigs, stop)
    \/ \E partial \in BOOLEAN : LlmThrows(partial) \/ LlmReportsError(partial)
    \/ LlmAborted

\* Everything but the tools' own endings and deadlines, which nothing guarantees.
LoopNext ==
    \/ ContextReady \/ ContextFails
    \/ BeginTurn \/ BudgetExhausted
    \/ \E atLimit, detail \in BOOLEAN : BudgetDenies(atLimit, detail)
    \/ LlmNext
    \/ Nudge \/ StopHookAsksForMore \/ Finish \/ StopHookThrows
    \/ Dispatch \/ CallNext \/ BatchEnds
    \/ Finalize

-----------------------------------------------------------------------------

LoopTypeOK ==
    /\ concurrent \in {1, MaxCalls}
    /\ pc \in {"idle", "init", "gate", "llm", "reply", "tools", "ended", "returned", "thrown"}
    /\ budget.remaining \in 0 .. Iterations /\ budget.grace \in BOOLEAN
    /\ ctx.nudges \in 0 .. Nudges /\ ctx.feedbacks \in 0 .. Feedbacks
    /\ ctx.toolErrors \in 0 .. ErrorCap
    /\ ctx.streak.count \in 0 .. HardAt
    /\ Cardinality(InFlight) <= concurrent
    /\ logged \in Nat /\ aborted \in BOOLEAN

\* The history of every request is one the providers accept: each tool call has
\* its result in the very next message, in call order, whichever of the calls
\* were denied, cut off, failed or done first (prune-tool-results.ts: every
\* tool_use must still have a paired tool_result).
EveryCallAnswered ==
    pc = "llm" =>
        \A m \in DOMAIN ctx.messages : ctx.messages[m].kind = "calls" =>
            /\ m < Len(ctx.messages)
            /\ ctx.messages[m + 1] = [kind |-> "results", ids |-> ctx.messages[m].ids]
=============================================================================
