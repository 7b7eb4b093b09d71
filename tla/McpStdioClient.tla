---------------------------- MODULE McpStdioClient ----------------------------
(***************************************************************************)
(* The client of one MCP server over stdio (internal/mcp/client.ts): a     *)
(* child process that is spawned on initialize(), answers JSON-RPC         *)
(* requests with a deadline each, drops (exits, goes silent, fails to      *)
(* spawn) and is spawned again by the next request in one reconnect cycle  *)
(* that all callers of the moment share.                                   *)
(*                                                                         *)
(* Turns are runs that call initialize(); Callers are tool calls in flight *)
(* (the loop dispatches them in parallel); Cycle is the reconnect cycle's  *)
(* own handshake.  Every callback of the event loop is one step together   *)
(* with the promise continuations it triggers inside the client, except    *)
(* that a caller resumed by a finished reconnect takes a step of its own.  *)
(***************************************************************************)
EXTENDS Naturals

CONSTANTS Callers, Turns, Cycle,
          Children,              \* process slots; a slot is reused once its exit was reported
          Stillborn,             \* a ChildProcess whose spawn failed: no process behind it
          NoChild,
          MaxReconnectAttempts

ASSUME AttemptsArePositive == MaxReconnectAttempts \in Nat \ {0}

VARIABLES
    child,      \* this.child
    dropped,    \* this.dropped
    proc,       \* of each slot: free; up; gone: ended, exit event not delivered
    pend,       \* this.pending: the child each unanswered request was written to
    pc,         \* idle; sent; shared: awaits the reconnect cycle; resumed: about to send after it
    cyc,        \* the reconnect cycle: none, backoff, handshake
    att,        \* its attempt
    wanted,     \* history: initialize() was called and close() has not been since
    overlapped, \* history: a close() or a spawning initialize() fell into a reconnect cycle
    stillborn,  \* history: a spawn of a reconnect cycle failed
    flooded     \* history: the output limit ended the last child

hist == <<wanted, overlapped, stillborn, flooded>>
vars == <<child, dropped, proc, pend, pc, cyc, att, hist>>

Users == Callers \union Turns
Who   == Users \union {Cycle}

ASSUME NamesAreApart == /\ Cycle \notin Users
                        /\ Stillborn \notin Children
                        /\ NoChild \notin Children \union {Stillborn}

\* A user waits for an answer exactly while its request is pending, and the
\* cycle's request is pending exactly during its handshake.
TypeOK == /\ child \in Children \union {Stillborn, NoChild}
          /\ proc \in [Children -> {"free", "up", "gone"}]
          /\ pend \in [Who -> Children \union {Stillborn, NoChild}]
          /\ pc \in [Users -> {"idle", "sent", "shared", "resumed"}]
          /\ cyc \in {"none", "backoff", "handshake"}
          /\ att \in 0 .. MaxReconnectAttempts - 1
          /\ {dropped, wanted, overlapped, stillborn, flooded} \subseteq BOOLEAN
          /\ \A u \in Users : pend[u] # NoChild <=> pc[u] = "sent"
          /\ pend[Cycle] # NoChild <=> cyc = "handshake"

Init == /\ child = NoChild /\ dropped = FALSE
        /\ proc = [ch \in Children |-> "free"]
        /\ pend = [w \in Who |-> NoChild]
        /\ pc = [u \in Users |-> "idle"]
        /\ cyc = "none" /\ att = 0
        /\ wanted = FALSE /\ overlapped = FALSE /\ stillborn = FALSE /\ flooded = FALSE

-----------------------------------------------------------------------------
(* The pieces of a step.                                                   *)

\* A process slot a new child can take; without one the spawn fails.
Fresh(ch) == proc[ch] = "free"

\* The client kills its child.
Killed == [ch \in Children |-> IF ch = child /\ proc[ch] = "up" THEN "gone" ELSE proc[ch]]

\* Still able to have written a line.
CanAnswer(ch) == ch \in Children /\ proc[ch] \in {"up", "gone"}

Send(w, ch) == pend' = [pend EXCEPT ![w] = ch]

\* Fault: one attempt too many.
AttemptFails_OneMore == IF att < MaxReconnectAttempts
                        THEN cyc' = "backoff" /\ att' = att + 1
                        ELSE cyc' = "none" /\ att' = 0

\* The cycle's attempt failed: back off for the next, or fail whoever shares it.
AttemptFails == IF att + 1 < MaxReconnectAttempts
                THEN cyc' = "backoff" /\ att' = att + 1
                ELSE cyc' = "none" /\ att' = 0

LastAttempt == att + 1 = MaxReconnectAttempts

\* Every pending request is rejected, with it the cycle's handshake, and with
\* the last handshake the callers that share the cycle.
RejectAllPending ==
    LET lost == cyc = "handshake"
    IN  /\ pend' = [w \in Who |-> NoChild]
        /\ pc' = [u \in Users |->
                    IF pc[u] = "sent" \/ (pc[u] = "shared" /\ lost /\ LastAttempt)
                    THEN "idle" ELSE pc[u]]
        /\ IF lost THEN AttemptFails ELSE UNCHANGED <<cyc, att>>

-----------------------------------------------------------------------------
(* Calls of the client.                                                    *)

\* Fault: initialize() spawns whether or not a child is live.
Initialize_Always(t) ==
    /\ pc[t] = "idle" /\ wanted' = TRUE
    /\ \E ch \in Children :
          /\ Fresh(ch)
          /\ child' = ch /\ proc' = [proc EXCEPT ![ch] = "up"]
          /\ Send(t, ch) /\ pc' = [pc EXCEPT ![t] = "sent"]
    /\ overlapped' = (overlapped \/ cyc # "none") /\ flooded' = FALSE
    /\ UNCHANGED <<dropped, cyc, att, stillborn>>

\* initialize() returns at once while there is a child, whatever its state.
Initialize(t) ==
    /\ pc[t] = "idle" /\ wanted' = TRUE
    /\ \/ child # NoChild /\ UNCHANGED <<child, proc, pend, pc, overlapped, flooded>>
       \/ /\ child = NoChild
          /\ \E ch \in Children :
                /\ Fresh(ch)
                /\ child' = ch /\ proc' = [proc EXCEPT ![ch] = "up"]
                /\ Send(t, ch) /\ pc' = [pc EXCEPT ![t] = "sent"]
          /\ overlapped' = (overlapped \/ cyc # "none") /\ flooded' = FALSE
    /\ UNCHANGED <<dropped, cyc, att, stillborn>>

\* The process cannot be started: the handshake just written is rejected with
\* everything pending, and the client keeps the ChildProcess that never ran.
InitializeSpawnFails(t) ==
    /\ pc[t] = "idle" /\ child = NoChild
    /\ child' = Stillborn
    /\ RejectAllPending
    /\ wanted' = TRUE /\ overlapped' = (overlapped \/ cyc # "none") /\ flooded' = FALSE
    /\ UNCHANGED <<dropped, proc, stillborn>>

\* A request goes straight to a child; without one, a dropped client joins or
\* starts the cycle.  (A client that was never initialised rejects it.)
Request(c) ==
    /\ pc[c] = "idle"
    /\ \/ /\ child # NoChild
          /\ Send(c, child) /\ pc' = [pc EXCEPT ![c] = "sent"]
          /\ UNCHANGED cyc
       \/ /\ child = NoChild /\ dropped
          /\ pc' = [pc EXCEPT ![c] = "shared"]
          /\ cyc' = IF cyc = "none" THEN "backoff" ELSE cyc
          /\ UNCHANGED pend
    /\ UNCHANGED <<child, dropped, proc, att, hist>>

\* The cycle's continuation of a request: by now the child may be gone again.
Resume(c) ==
    /\ pc[c] = "resumed"
    /\ \/ child # NoChild /\ Send(c, child) /\ pc' = [pc EXCEPT ![c] = "sent"]
       \/ child = NoChild /\ pc' = [pc EXCEPT ![c] = "idle"] /\ UNCHANGED pend
    /\ UNCHANGED <<child, dropped, proc, cyc, att, hist>>

Close ==
    /\ wanted
    /\ RejectAllPending
    /\ child' = NoChild /\ dropped' = FALSE /\ proc' = Killed
    /\ wanted' = FALSE /\ overlapped' = (overlapped \/ cyc # "none")
    /\ UNCHANGED <<stillborn, flooded>>

-----------------------------------------------------------------------------
(* The reconnect cycle.                                                    *)

\* The backoff is over: spawn, whatever happened to the client meanwhile, and
\* start the handshake.
BackoffOver ==
    /\ cyc = "backoff"
    /\ \E ch \in Children :
          /\ Fresh(ch)
          /\ child' = ch /\ proc' = [proc EXCEPT ![ch] = "up"]
          /\ Send(Cycle, ch)
    /\ cyc' = "handshake"
    /\ UNCHANGED <<dropped, pc, att, hist>>

\* The spawn fails: the handshake is rejected as it is made, and everything
\* else that is pending with it.
BackoffOverSpawnFails ==
    /\ cyc = "backoff"
    /\ child' = Stillborn
    /\ AttemptFails
    /\ pend' = [w \in Who |-> NoChild]
    /\ pc' = [u \in Users |-> IF pc[u] = "sent" \/ (pc[u] = "shared" /\ LastAttempt)
                              THEN "idle" ELSE pc[u]]
    /\ stillborn' = TRUE
    /\ UNCHANGED <<dropped, proc, wanted, overlapped, flooded>>

\* Fault: the callers that share the cycle are not resumed.
Reconnected_ForgetsSharers ==
    /\ cyc = "handshake" /\ CanAnswer(pend[Cycle])
    /\ Send(Cycle, NoChild)
    /\ dropped' = FALSE /\ cyc' = "none" /\ att' = 0
    /\ UNCHANGED <<child, proc, pc, hist>>

\* The handshake is answered: the cycle is over and its callers go on.
Reconnected ==
    /\ cyc = "handshake" /\ CanAnswer(pend[Cycle])
    /\ Send(Cycle, NoChild)
    /\ dropped' = FALSE /\ cyc' = "none" /\ att' = 0
    /\ pc' = [u \in Users |-> IF pc[u] = "shared" THEN "resumed" ELSE pc[u]]
    /\ UNCHANGED <<child, proc, hist>>

-----------------------------------------------------------------------------
(* The server and the timers.                                              *)

\* A line with the id of a pending request; a process that ended may have
\* written it before.
Reply(u) ==
    /\ pc[u] = "sent" /\ CanAnswer(pend[u])
    /\ Send(u, NoChild) /\ pc' = [pc EXCEPT ![u] = "idle"]
    /\ UNCHANGED <<child, dropped, proc, cyc, att, hist>>

Exit(ch) ==
    /\ proc[ch] = "up"
    /\ proc' = [proc EXCEPT ![ch] = "gone"]
    /\ UNCHANGED <<child, dropped, pend, pc, cyc, att, hist>>

\* Fault: the exit of a child that was replaced is taken for the present one's.
ExitEvent_AnyChild(ch) ==
    /\ proc[ch] = "gone"
    /\ proc' = [Killed EXCEPT ![ch] = "free"]
    /\ child' = NoChild /\ dropped' = TRUE /\ RejectAllPending
    /\ UNCHANGED hist

\* The exit event reaches the client; it counts if the child is still its own.
ExitEvent(ch) ==
    /\ proc[ch] = "gone"
    /\ proc' = [proc EXCEPT ![ch] = "free"]
    /\ \/ child = ch /\ child' = NoChild /\ dropped' = TRUE /\ RejectAllPending
       \/ child # ch /\ UNCHANGED <<child, dropped, pend, pc, cyc, att>>
    /\ UNCHANGED hist

\* Fault: a client whose server went silent is not marked for a reconnect.
Timeout_NoDrop(w) ==
    /\ pend[w] # NoChild
    /\ RejectAllPending
    /\ child' = NoChild /\ proc' = Killed
    /\ UNCHANGED <<dropped, hist>>

\* A request's deadline passes: whatever child the client has now is killed,
\* and every other request is rejected with it.
Timeout(w) ==
    /\ pend[w] # NoChild
    /\ RejectAllPending
    /\ child' = NoChild /\ dropped' = TRUE /\ proc' = Killed
    /\ UNCHANGED hist

\* The unterminated output of the present child exceeds the buffer.
Overflow ==
    /\ CanAnswer(child)
    /\ RejectAllPending
    /\ child' = NoChild /\ proc' = Killed
    /\ flooded' = TRUE
    /\ UNCHANGED <<dropped, wanted, overlapped, stillborn>>

Next == \/ \E t \in Turns : Initialize(t) \/ InitializeSpawnFails(t)
        \/ \E c \in Callers : Request(c) \/ Resume(c)
        \/ Close \/ BackoffOver \/ BackoffOverSpawnFails \/ Reconnected \/ Overflow
        \/ \E u \in Users : Reply(u)
        \/ \E w \in Who : Timeout(w)
        \/ \E ch \in Children : Exit(ch) \/ ExitEvent(ch)

\* Timers fire, the system reports exits, and promise continuations run.
Fairness == /\ \A w \in Who : WF_vars(Timeout(w))
            /\ WF_vars(BackoffOver \/ BackoffOverSpawnFails)
            /\ \A ch \in Children : WF_vars(ExitEvent(ch))
            /\ \A c \in Callers : WF_vars(Resume(c))

Spec == Init /\ [][Next]_vars /\ Fairness

-----------------------------------------------------------------------------

\* The client loses a child only through that child: it ended, it left one of
\* its requests unanswered, or it was flooded or closed.  A late exit of a
\* predecessor does not count.
SuccessorsSurvive ==
    [][(child # NoChild /\ child' # child /\ ~overlapped' /\ ~stillborn)
          => \/ child = Stillborn \/ proc[child] # "up"
             \/ ~wanted' \/ flooded'
             \/ \E w \in Who : pend[w] = child /\ pend'[w] = NoChild]_vars

\* The client accounts for its server, whichever of exits, timeouts, floods,
\* closes and reconnects happened (until a close or an initialize falls into a
\* reconnect cycle, which spawns without looking): no process outlives the
\* client's interest in it, and a client in use has a child or will start one
\* with the next request.  The output limit is the one teardown that does not
\* mark the client (until the next initialize).
ServerAccountedFor ==
    ~overlapped => /\ \A ch \in Children : proc[ch] = "up" => ch = child
                   /\ wanted /\ ~flooded => child # NoChild \/ dropped

\* Every call settles, whatever the server, the cycle and the other callers do.
EveryCallSettles == \A u \in Users : pc[u] # "idle" ~> pc[u] = "idle"

=============================================================================
