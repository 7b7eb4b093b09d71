------------------------------- MODULE LocalRun -------------------------------
(***************************************************************************)
(* RealLocalRun on top of FixtureRunBase: the run that drives the agent    *)
(* loop.  It starts the MCP servers of the send, hands the loop's events   *)
(* to its consumer, can be cancelled at any moment, and closes what it     *)
(* owns.                                                                   *)
(*                                                                         *)
(* An event is its position in the loop's log.  stream() reads the list of *)
(* events to its end once the run is terminal, so the list then is what    *)
(* its consumer gets; the second view, events(), is fed at the same place. *)
(***************************************************************************)
EXTENDS AgentLoop

CONSTANTS Servers   \* the number of MCP servers of the send

ASSUME ServersAssumption == Servers \in Nat

VARIABLES
    step,     \* where driveLoop is
    mcp,      \* the client of each server
    status,   \* FixtureRunBase.status
    detail,   \* script.errorDetail is set
    script,   \* script.events
    cut,      \* history: length of the log when the run became terminal
    batched   \* history: the loop's output was applied

runVars == <<step, mcp, status, detail, script, cut, batched>>

vars == <<loopVars, runVars>>

Terminated == status # "running"

Init == /\ LoopInit
        /\ step = "boot"
        /\ mcp = [s \in 1 .. Servers |-> "none"]
        /\ status = "running"
        /\ detail = FALSE
        /\ script = <<>>
        /\ cut = 0
        /\ batched = FALSE

-----------------------------------------------------------------------------

\* transitionTo: the first terminal status stays.
TransitionTo(next) ==
    IF Terminated THEN UNCHANGED <<status, cut>>
    ELSE /\ status' = next
         /\ cut' = logged

\* The log positions after n, up to m.
Positions(n, m) == [k \in 1 .. m - n |-> n + k]

\* Fault: a terminal run goes on listening.
Deliver_Late == IF logged' = logged \/ pc = "init"
                THEN UNCHANGED script
                ELSE script' = script \o Positions(logged, logged')

\* onLoopEvent: a terminal run takes no more events.
Deliver == IF Terminated \/ logged' = logged \/ pc = "init"
           THEN UNCHANGED <<script>>
           ELSE /\ script' = script \o Positions(logged, logged')

Reported == Deliver /\ UNCHANGED <<step, mcp, status, detail, cut, batched>>

LoopStep == LoopNext /\ Reported

ToolStep == ToolNext /\ Reported

-----------------------------------------------------------------------------
\* driveLoop

Boot == /\ step = "boot"
        /\ step' = IF Terminated THEN "end" ELSE "mcp"
        /\ UNCHANGED <<loopVars, mcp, status, detail, script, cut, batched>>

BuildInputsFails == /\ step = "boot"
                    /\ ~Terminated
                    /\ detail' = TRUE
                    /\ TransitionTo("error")
                    /\ step' = "end"
                    /\ UNCHANGED <<loopVars, mcp, script, batched>>

Unstarted == {s \in 1 .. Servers : mcp[s] = "none"}

Starting == {s \in 1 .. Servers : mcp[s] = "starting"}

\* One server after the other; a cancelled run starts no further one.
McpInitialize(s) == /\ step = "mcp"
                    /\ ~Terminated
                    /\ Starting = {}
                    /\ s \in Unstarted
                    /\ \A t \in Unstarted : s <= t
                    /\ mcp' = [mcp EXCEPT ![s] = "starting"]
                    /\ UNCHANGED <<loopVars, step, status, detail, script, cut, batched>>

\* The handshake succeeds, or fails and is noted as the run's error.
McpInitialized(s, ok) == /\ step = "mcp"
                         /\ s \in Starting
                         /\ mcp' = [mcp EXCEPT ![s] = "tried"]
                         /\ detail' = (detail \/ ~ok)
                         /\ UNCHANGED <<loopVars, step, status, script, cut, batched>>

\* Fault: the cancelled run leaves before the try, and nothing is closed.
ExecuteAgentLoop_BeforeTry ==
    /\ step = "mcp"
    /\ Starting = {}
    /\ Terminated \/ Unstarted = {}
    /\ step' = IF Terminated THEN "end" ELSE "loop"
    /\ pc' = IF Terminated THEN pc ELSE "init"
    /\ UNCHANGED <<concurrent, budget, ctx, turn, calls, logged, aborted>>
    /\ UNCHANGED <<mcp, status, detail, script, cut, batched>>

\* executeAgentLoop: a run cancelled so far starts no turn.
ExecuteAgentLoop ==
    /\ step = "mcp"
    /\ Starting = {}
    /\ Terminated \/ Unstarted = {}
    /\ step' = IF Terminated THEN "closing" ELSE "loop"
    /\ pc' = IF Terminated THEN pc ELSE "init"
    /\ UNCHANGED <<concurrent, budget, ctx, turn, calls, logged, aborted>>
    /\ UNCHANGED <<mcp, status, detail, script, cut, batched>>

Delivered == {script[k] : k \in DOMAIN script}

\* deliverUndeliveredEvents: what the subscriber has not handed over yet, in the
\* order of the log.
Undelivered ==
    LET missing == (1 .. logged) \ Delivered
    IN  CHOOSE s \in [1 .. Cardinality(missing) -> missing] :
            \A i, j \in DOMAIN s : i < j => s[i] < s[j]

\* applyAgentLoopOutput and the transition, unless the run was cancelled.
LoopReturns ==
    /\ step = "loop"
    /\ pc = "returned"
    /\ script' = IF Terminated THEN script ELSE script \o Undelivered
    /\ detail' = IF Terminated THEN detail ELSE detail \/ ctx.error
    /\ batched' = ~Terminated
    /\ TransitionTo(ctx.status)
    /\ step' = "closing"
    /\ UNCHANGED <<loopVars, mcp>>

LoopThrows == /\ step = "loop"
              /\ pc = "thrown"
              /\ detail' = TRUE
              /\ TransitionTo("error")
              /\ step' = "closing"
              /\ UNCHANGED <<loopVars, mcp, script, batched>>

\* The finally: the run closes the clients it owns (closeOwnedMcpClients); under
\* mcpLifecycle "session" they stay with the pool.
Release(as) == /\ step = "closing"
               /\ mcp' = [s \in 1 .. Servers |-> as]
               /\ step' = "end"
               /\ UNCHANGED <<loopVars, status, detail, script, cut, batched>>

Drive == \/ Boot \/ BuildInputsFails \/ ExecuteAgentLoop
         \/ \E s \in 1 .. Servers : McpInitialize(s)
         \/ \E s \in 1 .. Servers, ok \in BOOLEAN : McpInitialized(s, ok)
         \/ LoopReturns \/ LoopThrows
         \/ Release("closed") \/ Release("pooled")

-----------------------------------------------------------------------------
\* The caller

\* Run.cancel(): the status is final at once, the loop unwinds behind it.
Cancel == /\ ~Terminated
          /\ aborted' = TRUE
          /\ TransitionTo("cancelled")
          /\ UNCHANGED <<concurrent, pc, budget, ctx, turn, calls, logged>>
          /\ UNCHANGED <<step, mcp, detail, script, batched>>

\* SendOptions.signal: the loop learns of it, the run does not.
SignalFires == /\ ~aborted
               /\ ~Terminated
               /\ aborted' = TRUE
               /\ UNCHANGED <<concurrent, pc, budget, ctx, turn, calls, logged, runVars>>

Next == LoopStep \/ ToolStep \/ Drive \/ Cancel \/ SignalFires

\* The promises of the runtime are kept, the provider's stream comes to an end
\* (the signal ends it too), hooks return and MCP handshakes have a deadline.
\* Nothing makes a tool return.
Fairness == WF_vars(LoopStep) /\ WF_vars(Drive)

Spec == Init /\ [][Next]_vars /\ Fairness

-----------------------------------------------------------------------------

\* Type of the loop's and the run's state; no more calls are in flight than the
\* send allows, and only what the loop has logged is handed on.
TypeOK ==
    /\ LoopTypeOK
    /\ step \in {"boot", "mcp", "loop", "closing", "end"}
    /\ mcp \in [1 .. Servers -> {"none", "starting", "tried", "closed", "pooled"}]
    /\ status \in {"running", "finished", "error", "cancelled"}
    /\ Range(script) \subseteq 1 .. logged

\* A consumer of stream() gets what the loop reported until the run became
\* terminal, in that order and each event once, although events come over two
\* channels and the loop goes on reporting after a cancel.  When the loop has
\* returned, the two events it began with follow (they precede the subscriber).
StreamIsExact ==
    Terminated =>
        script = Positions(2, cut) \o (IF batched THEN <<1, 2>> ELSE <<>>)

\* The status can be relied on.  A run that finished answered its last turn, or
\* says that the turns ran out or that it was stopped for repeating itself; it
\* is cancelled only by the caller; and an error without a detail comes from
\* the caller's signal, from failing tools or from a tracker that gave none.
StatusIsTrue ==
    /\ status = "finished" =>
          ctx.limit \/ ctx.last = "done"
    /\ status = "cancelled" => aborted
    /\ status = "error" /\ ~detail =>
          aborted \/ ctx.toolErrors = ErrorCap \/ (ctx.last # "error" /\ ctx.status = "error")

\* A run that is told to stop, by cancel() or by the caller's signal, unwinds to
\* the end however long its tools hang, and every MCP client it started is
\* closed or the pool's, whatever moment the abort met.
RunUnwinds ==
    aborted ~>
        /\ step = "end"
        /\ \A s \in 1 .. Servers : mcp[s] \notin {"starting", "tried"}

=============================================================================
