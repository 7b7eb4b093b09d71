--------------------------- MODULE LocalRunProofs ---------------------------
(***************************************************************************)
(* Proofs about AgentLoop and LocalRun, for any number of turns, calls,    *)
(* tools, nudges and servers: the history that goes to the model pairs     *)
(* every call with its result, the stream is exact and the status true.    *)
(*                                                                         *)
(* The streak of the doom-loop guard is a fold over the turn's calls; it   *)
(* bears on none of this and is left as it comes in IInv.  What the types  *)
(* need of it and of the permits is in Bounds, at the end.                 *)
(***************************************************************************)
EXTENDS LocalRun, FiniteSetTheorems, SequenceTheorems, WellFoundedInduction, TLAPS

Message == [kind : {"user", "calls", "results"}, ids : Seq(Nat \X Nat)]

Context(streaks) ==
    [messages : Seq(Message), text : BOOLEAN, status : {"finished", "error", "cancelled"},
     error : BOOLEAN, limit : BOOLEAN, streak : streaks, nudges : 0 .. Nudges,
     feedbacks : 0 .. Feedbacks, toolErrors : 0 .. ErrorCap,
     last : {"none", "done", "error", "continue"}]

Live == {"idle", "init", "gate", "llm", "reply", "tools"}

LoopTyped ==
    /\ pc \in Live \cup {"ended", "returned", "thrown"}
    /\ budget \in [remaining : 0 .. Iterations, grace : BOOLEAN]
    /\ ctx \in Context({ctx.streak})
    /\ turn.sigs \in Seq(Tools)
    /\ logged \in Nat /\ aborted \in BOOLEAN

(* Each of the first n messages that asks for calls is followed by results.  *)
Paired(ms, n) ==
    \A m \in 1 .. n : ms[m].kind = "calls" =>
        /\ m < Len(ms)
        /\ ms[m + 1] = [kind |-> "results", ids |-> ms[m].ids]

(* All are between two turns; during a batch all but the last message, which *)
(* asks for the batch in dispatch.                                           *)
HistoryPaired ==
    LET ms == ctx.messages
    IN  /\ pc \in Live \ {"tools"} => Paired(ms, Len(ms))
        /\ pc = "tools" => /\ Paired(ms, Len(ms) - 1)
                           /\ ms # <<>> /\ ms[Len(ms)].kind = "calls"
                           /\ Batch = DOMAIN ms[Len(ms)].ids
                           /\ \A i \in Batch : calls[i].id = ms[Len(ms)].ids[i]

(* What the context tells about the way the loop came to an end.             *)
VerdictTrue ==
    /\ pc \in Live => /\ ctx.last \in {"none", "continue"}
                      /\ ctx.status = "finished"
                      /\ ctx.toolErrors < ErrorCap
    /\ ctx.last = "none" => budget.remaining > 0
    /\ ctx.status = "cancelled" => aborted
    /\ pc = "ended" /\ ctx.status = "finished" =>
          ctx.last = "done" \/ (ctx.last = "continue" /\ ~ ShouldContinue(budget))
    /\ pc = "returned" /\ ctx.status = "finished" => ctx.limit \/ ctx.last = "done"
    /\ ctx.status = "error" /\ ~ ctx.error =>
          aborted \/ ctx.toolErrors = ErrorCap \/ ctx.last # "error"

(* The log is seeded before anything is added, and calls are in flight only  *)
(* in their batch or after it was left by an error.                          *)
LogSeeded ==
    /\ pc \in {"idle", "init"} => logged = 0
    /\ pc \notin {"idle", "init", "thrown"} => logged >= 2
    /\ Batch # {} => pc \in {"tools", "thrown"} /\ logged >= 2

LoopInv == LoopTyped /\ HistoryPaired /\ VerdictTrue /\ LogSeeded

RunTyped ==
    /\ step \in {"boot", "mcp", "loop", "closing", "end"}
    /\ status \in {"running", "finished", "error", "cancelled"}
    /\ detail \in BOOLEAN /\ batched \in BOOLEAN

(* The stream so far, with the places at which it can still grow.            *)
StreamSoFar ==
    /\ step \in {"boot", "mcp"} => pc = "idle"
    /\ batched => Terminated /\ step \in {"closing", "end"}
    /\ ~ Terminated => script = Positions(2, logged)
    /\ StreamIsExact

(* Where the status comes from.                                              *)
StatusFounded ==
    /\ status = "finished" => pc = "returned" /\ ctx.status = "finished"
    /\ status = "cancelled" => aborted
    /\ status = "error" /\ ~ detail => pc = "returned" /\ ctx.status = "error" /\ ~ ctx.error

IInv == LoopInv /\ RunTyped /\ StreamSoFar /\ StatusFounded

-----------------------------------------------------------------------------
(* Messages and contexts.                                                    *)

\* A message that asks for nothing leaves the history paired.
LEMMA PairedAppend ==
    ASSUME NEW ms \in Seq(Message), NEW x \in Message, Paired(ms, Len(ms)), x.kind # "calls"
    PROVE  Append(ms, x) \in Seq(Message) /\ Paired(Append(ms, x), Len(Append(ms, x)))
<1> DEFINE n == Len(ms)
           t == Append(ms, x)
<1>1. /\ n \in Nat /\ t \in Seq(Message) /\ Len(t) = n + 1 /\ t[n + 1] = x
      /\ \A m \in 1 .. n : t[m] = ms[m]
  OBVIOUS
<1>2. ASSUME NEW m \in 1 .. n + 1, t[m].kind = "calls"
      PROVE  m < n + 1 /\ t[m + 1] = [kind |-> "results", ids |-> t[m].ids]
  <2>1. m \in 1 .. n /\ t[m] = ms[m]
    BY <1>1, <1>2
  <2>2. m < n /\ ms[m + 1] = [kind |-> "results", ids |-> ms[m].ids]
    BY <1>2, <2>1 DEF Paired
  <2> QED BY <1>1, <2>1, <2>2
<1> HIDE DEF n, t
<1>3. Paired(t, n + 1)
  BY <1>1, <1>2 DEF Paired
<1> QED BY <1>1, <1>3 DEF t

\* The calls of a turn are the last message, and the only one without results.
LEMMA PairedCalls ==
    ASSUME NEW ms \in Seq(Message), NEW x \in Message, Paired(ms, Len(ms))
    PROVE  LET t == Append(ms, x)
           IN  t \in Seq(Message) /\ t # <<>> /\ t[Len(t)] = x /\ Paired(t, Len(t) - 1)
<1> DEFINE n == Len(ms)
           t == Append(ms, x)
<1>1. /\ n \in Nat /\ t \in Seq(Message) /\ Len(t) = n + 1 /\ t[n + 1] = x /\ t # <<>>
      /\ \A m \in 1 .. n : t[m] = ms[m]
  OBVIOUS
<1>2. ASSUME NEW m \in 1 .. n, t[m].kind = "calls"
      PROVE  m < n + 1 /\ t[m + 1] = [kind |-> "results", ids |-> t[m].ids]
  <2>1. m < n /\ ms[m + 1] = [kind |-> "results", ids |-> ms[m].ids]
    BY <1>1, <1>2 DEF Paired
  <2> QED BY <1>1, <2>1
<1> HIDE DEF n, t
<1>3. Paired(t, n) /\ n = Len(t) - 1
  BY <1>1, <1>2 DEF Paired
<1> QED BY <1>1, <1>3 DEF t

\* The results of the last message's calls complete the history.
LEMMA PairedResults ==
    ASSUME NEW ms \in Seq(Message), ms # <<>>, Paired(ms, Len(ms) - 1), NEW x \in Message,
           x = [kind |-> "results", ids |-> ms[Len(ms)].ids]
    PROVE  Append(ms, x) \in Seq(Message) /\ Paired(Append(ms, x), Len(Append(ms, x)))
<1> DEFINE n == Len(ms)
           t == Append(ms, x)
<1>1. /\ n \in Nat \ {0} /\ t \in Seq(Message) /\ Len(t) = n + 1 /\ t[n + 1] = x
      /\ \A m \in 1 .. n : t[m] = ms[m]
  OBVIOUS
<1>2. x.kind # "calls"
  OBVIOUS
<1>3. ASSUME NEW m \in 1 .. n + 1, t[m].kind = "calls"
      PROVE  m < n + 1 /\ t[m + 1] = [kind |-> "results", ids |-> t[m].ids]
  <2>1. m \in 1 .. n /\ t[m] = ms[m]
    BY <1>1, <1>2, <1>3
  <2>2. CASE m = n
    BY <1>1, <2>1, <2>2
  <2>3. CASE m # n
    <3>1. m \in 1 .. n - 1
      BY <1>1, <2>1, <2>3
    <3>2. m < n /\ ms[m + 1] = [kind |-> "results", ids |-> ms[m].ids]
      BY <1>3, <2>1, <3>1 DEF Paired
    <3> QED BY <1>1, <2>1, <3>2
  <2> QED BY <2>2, <2>3
<1> HIDE DEF n, t
<1>4. Paired(t, n + 1)
  BY <1>1, <1>3 DEF Paired
<1> QED BY <1>1, <1>4 DEF t

LEMMA UserIsMessage == User \in Message /\ User.kind # "calls"
<1>1. <<>> \in Seq(Nat \X Nat)
  OBVIOUS
<1> QED BY <1>1 DEF User, Message

LEMMA OwnStreak == \A S : \A c \in Context(S) : c \in Context({c.streak})
  BY DEF Context

\* What EndTurn makes of the context it is given.
LEMMA EndTurnContext ==
    ASSUME NEW S, NEW c \in Context(S), NEW decision \in {"done", "error", "continue"},
           EndTurn(decision, c), aborted \in BOOLEAN
    PROVE  /\ ctx' \in Context(S)
           /\ ctx'.messages = c.messages /\ ctx'.error = c.error
           /\ ctx'.toolErrors = c.toolErrors /\ ctx'.last = decision
           /\ decision = "done" => ctx'.status = c.status /\ pc' = "ended"
           /\ decision = "error" => ctx'.status = "error" /\ pc' = "ended"
           /\ decision = "continue" /\ aborted => ctx'.status = "cancelled" /\ pc' = "ended"
           /\ decision = "continue" /\ ~ aborted => ctx'.status = c.status /\ pc' = "gate"
<1> DEFINE d == [c EXCEPT !.last = decision]
<1>1. /\ d \in Context(S) /\ d.messages = c.messages /\ d.error = c.error
      /\ d.toolErrors = c.toolErrors /\ d.last = decision /\ d.status = c.status
  BY DEF Context
<1>2. CASE decision = "done"
  <2>1. ctx' = d /\ pc' = "ended"
    BY <1>2 DEF EndTurn
  <2> QED BY <1>1, <1>2, <2>1
<1>3. CASE decision = "error"
  <2>1. ctx' = [d EXCEPT !.status = "error"] /\ pc' = "ended"
    BY <1>3 DEF EndTurn
  <2> HIDE DEF d
  <2> QED BY <1>1, <1>3, <2>1 DEF Context
<1>4. CASE decision = "continue"
  <2>1. /\ ctx' = IF aborted THEN [d EXCEPT !.status = "cancelled"] ELSE d
        /\ pc' = IF aborted THEN "ended" ELSE "gate"
    BY <1>4 DEF EndTurn
  <2> HIDE DEF d
  <2> QED BY <1>1, <1>4, <2>1 DEF Context
<1> QED BY <1>2, <1>3, <1>4

\* A turn that ends as its decision has it, with a context that bears it out.
LEMMA EndTurnKeeps ==
    ASSUME LoopInv, pc \in {"llm", "reply", "tools"}, NEW S, NEW c \in Context(S),
           NEW decision \in {"done", "error", "continue"}, EndTurn(decision, c),
           UNCHANGED aborted, logged' \in Nat, logged' >= logged, c.status = "finished",
           decision = "continue" =>
               Paired(c.messages, Len(c.messages)) /\ c.toolErrors < ErrorCap,
           decision = "error" => c.error \/ aborted \/ c.toolErrors = ErrorCap
    PROVE  LoopInv'
<1>1. aborted \in BOOLEAN /\ logged \in Nat /\ logged >= 2
  BY DEF LoopInv, LoopTyped, LogSeeded
<1>2. ctx' \in Context({ctx'.streak})
  BY <1>1, EndTurnContext, OwnStreak
<1>3. budget' \in [remaining : 0 .. Iterations, grace : BOOLEAN]
  <2>1. \/ budget' = budget
        \/ budget' = [budget EXCEPT !.remaining = IF @ > 0 THEN @ - 1 ELSE 0]
    BY DEF EndTurn
  <2>2. budget \in [remaining : 0 .. Iterations, grace : BOOLEAN]
    BY DEF LoopInv, LoopTyped
  <2>3. (IF budget.remaining > 0 THEN budget.remaining - 1 ELSE 0) \in 0 .. Iterations
    BY <2>2, LoopAssumption
  <2> QED BY <2>1, <2>2, <2>3
<1>4. turn'.sigs \in Seq(Tools) /\ Batch' = {}
  <2>1. turn' = NoTurn /\ calls' = <<>>
    BY DEF EndTurn
  <2> QED BY <2>1 DEF NoTurn, Batch
<1>5. pc' \in {"ended", "gate"}
  BY <1>1, EndTurnContext
<1>6. LoopTyped'
  BY <1>1, <1>2, <1>3, <1>4, <1>5 DEF LoopTyped, Live
<1>7. HistoryPaired'
  <2>1. CASE pc' = "gate"
    BY <1>1, <2>1, EndTurnContext DEF HistoryPaired
  <2>2. CASE pc' = "ended"
    BY <2>2 DEF HistoryPaired, Live
  <2> QED BY <1>5, <2>1, <2>2
<1>8. VerdictTrue'
  <2>1. CASE pc' = "gate"
    BY <1>1, <2>1, EndTurnContext DEF VerdictTrue
  <2>2. CASE pc' = "ended" /\ decision = "continue"
    BY <1>1, <2>2, EndTurnContext DEF VerdictTrue, Live
  <2>3. CASE pc' = "ended" /\ decision = "done"
    BY <1>1, <2>3, EndTurnContext DEF VerdictTrue, Live
  <2>4. CASE pc' = "ended" /\ decision = "error"
    BY <1>1, <2>4, EndTurnContext DEF VerdictTrue, Live
  <2> QED BY <1>5, <2>1, <2>2, <2>3, <2>4
<1>9. LogSeeded'
  BY <1>1, <1>4, <1>5 DEF LogSeeded
<1> QED BY <1>6, <1>7, <1>8, <1>9 DEF LoopInv

-----------------------------------------------------------------------------
(* The steps of the loop.                                                    *)

LEMMA InitLoop == LoopInit => LoopInv
<1> SUFFICES ASSUME LoopInit PROVE LoopInv
  OBVIOUS
<1>1. ctx = FreshContext /\ ctx \in Context({ctx.streak})
  <2>1. <<User>> \in Seq(Message)
    BY UserIsMessage
  <2>2. 0 \in 0 .. Nudges /\ 0 \in 0 .. Feedbacks /\ 0 \in 0 .. ErrorCap
    BY LoopAssumption
  <2> QED BY <2>1, <2>2 DEF LoopInit, FreshContext, Context
<1>2. budget = [remaining |-> Iterations, grace |-> FALSE] /\ Iterations \in Nat \ {0}
  BY LoopAssumption DEF LoopInit
<1>3. LoopTyped
  <2>1. logged = 0 /\ aborted = FALSE /\ pc = "idle" /\ turn = NoTurn
    BY DEF LoopInit
  <2>2. Iterations \in 0 .. Iterations
    BY <1>2
  <2>3. budget \in [remaining : 0 .. Iterations, grace : BOOLEAN]
    BY <1>2, <2>2
  <2>4. turn.sigs \in Seq(Tools)
    BY <2>1 DEF NoTurn
  <2>5. logged \in Nat /\ aborted \in BOOLEAN
    BY <2>1
  <2> QED BY <1>1, <2>1, <2>3, <2>4, <2>5 DEF LoopTyped, Live
<1>4. HistoryPaired
  <2>1. ctx.messages = <<User>> /\ Len(ctx.messages) = 1 /\ ctx.messages[1].kind # "calls"
    BY <1>1, UserIsMessage DEF FreshContext
  <2>2. Paired(ctx.messages, Len(ctx.messages))
    BY <2>1 DEF Paired
  <2> QED BY <2>2 DEF HistoryPaired, LoopInit
<1>5. VerdictTrue
  <2>1. ctx.last = "none" /\ ctx.status = "finished" /\ ctx.toolErrors = 0
    BY <1>1 DEF FreshContext
  <2>2. 0 < ErrorCap /\ budget.remaining > 0
    BY <1>2, LoopAssumption
  <2> QED BY <2>1, <2>2 DEF VerdictTrue, LoopInit
<1>6. LogSeeded
  BY DEF LoopInit, LogSeeded, Batch
<1> QED BY <1>3, <1>4, <1>5, <1>6 DEF LoopInv

\* Steps between two places of the loop's own that leave the context alone.
LEMMA PlaceKeeps ==
    ASSUME LoopInv, UNCHANGED <<ctx, calls, aborted>>, turn'.sigs \in Seq(Tools),
           budget' \in [remaining : 0 .. Iterations, grace : BOOLEAN],
           budget'.remaining = budget.remaining, logged' \in Nat,
           \/ pc = "init" /\ pc' = "gate" /\ logged' = 2
           \/ pc = "init" /\ pc' = "thrown"
           \/ pc = "gate" /\ pc' = "llm" /\ logged' = logged
           \/ pc = "gate" /\ pc' = "ended" /\ logged' = logged /\ ~ ShouldContinue(budget')
           \/ pc = "reply" /\ pc' = "thrown"
           \/ pc = "idle" /\ pc' = "init" /\ logged' = logged
    PROVE  LoopInv'
<1>1. LoopTyped'
  BY DEF LoopInv, LoopTyped, Live
<1>2. HistoryPaired'
  BY DEF LoopInv, HistoryPaired, Live
<1>3. VerdictTrue'
  <2>1. pc \in Live /\ pc # "tools"
    BY DEF Live
  <2>2. ctx.last \in {"none", "continue"} /\ ctx.status = "finished" /\ ctx.toolErrors < ErrorCap
    BY <2>1 DEF LoopInv, VerdictTrue
  <2>3. ctx.last = "none" => budget'.remaining > 0
    BY DEF LoopInv, VerdictTrue
  <2>4. pc' = "ended" => ctx.last = "continue" /\ ~ ShouldContinue(budget')
    BY <2>2, <2>3 DEF ShouldContinue
  <2> QED BY <2>2, <2>3, <2>4 DEF VerdictTrue
<1>4. LogSeeded'
  BY DEF LoopInv, LogSeeded, Batch
<1> QED BY <1>1, <1>2, <1>3, <1>4 DEF LoopInv

\* A step of a call changes nothing but the call, the log and, when a hook
\* throws, the loop's place.
LEMMA CallKeeps ==
    ASSUME LoopInv, NEW i, NEW from, NEW to, NEW result, NEW events \in Nat,
           CallStep(i, from, to, result, events),
           pc' = pc \/ (pc = "tools" /\ pc' = "thrown")
    PROVE  LoopInv' /\ logged' \in Nat /\ logged' >= logged /\ logged >= 2
<1>1. /\ i \in Batch /\ Batch # {} /\ logged' = logged + events
      /\ UNCHANGED <<concurrent, budget, ctx, turn, aborted>>
  BY DEF CallStep
<1>2. pc \in {"tools", "thrown"} /\ logged >= 2 /\ logged \in Nat
  BY <1>1 DEF LoopInv, LogSeeded, LoopTyped
<1>3. Batch' = Batch /\ \A j \in Batch : calls'[j].id = calls[j].id
  BY <1>1 DEF CallStep, Batch
<1>4. LoopTyped'
  BY <1>1, <1>2 DEF LoopInv, LoopTyped, Live
<1>5. HistoryPaired'
  <2>1. CASE pc' = "tools"
    <3>1. pc = "tools"
      BY <2>1
    <3> QED BY <1>1, <1>3, <2>1, <3>1 DEF LoopInv, HistoryPaired, Live
  <2>2. CASE pc' = "thrown"
    BY <2>2 DEF HistoryPaired, Live
  <2> QED BY <1>2, <2>1, <2>2
<1>6. VerdictTrue'
  BY <1>1, <1>2 DEF LoopInv, VerdictTrue, Live
<1>7. LogSeeded'
  BY <1>1, <1>2, <1>3 DEF LogSeeded
<1> QED BY <1>1, <1>2, <1>4, <1>5, <1>6, <1>7 DEF LoopInv

LEMMA LlmAnswersKeeps ==
    ASSUME LoopInv, NEW text \in BOOLEAN, NEW sigs \in Seq(Tools), NEW stop,
           LlmAnswers(text, sigs, stop)
    PROVE  LoopInv' /\ logged' \in Nat /\ logged' >= logged /\ logged >= 2
<1>1. /\ pc = "llm" /\ pc' = "reply" /\ turn'.sigs = sigs
      /\ UNCHANGED <<concurrent, budget, calls, aborted>>
  BY DEF LlmAnswers
<1>2. logged \in Nat /\ logged >= 2 /\ logged' \in Nat /\ logged' >= logged
  BY <1>1 DEF LlmAnswers, LoopInv, LoopTyped, LogSeeded
<1>3. ctx \in Context({ctx.streak})
  BY DEF LoopInv, LoopTyped
<1>4. ctx' = [ctx EXCEPT !.text = ctx.text \/ text]
  BY DEF LlmAnswers
<1>5. /\ ctx' \in Context({ctx.streak}) /\ ctx'.messages = ctx.messages
      /\ ctx'.status = ctx.status /\ ctx'.error = ctx.error /\ ctx'.limit = ctx.limit
      /\ ctx'.toolErrors = ctx.toolErrors /\ ctx'.last = ctx.last
  BY <1>3, <1>4 DEF Context
<1>6. LoopTyped'
  BY <1>1, <1>2, <1>5, OwnStreak DEF LoopInv, LoopTyped, Live
<1>7. HistoryPaired'
  BY <1>1, <1>5 DEF LoopInv, HistoryPaired, Live
<1>8. VerdictTrue'
  BY <1>1, <1>5 DEF LoopInv, VerdictTrue, Live
<1>9. LogSeeded'
  BY <1>1, <1>2 DEF LoopInv, LogSeeded, Batch
<1> QED BY <1>2, <1>6, <1>7, <1>8, <1>9 DEF LoopInv

LEMMA DispatchKeeps ==
    ASSUME LoopInv, Dispatch PROVE LoopInv'
<1> DEFINE ms == ctx.messages
           ids == [i \in DOMAIN turn.sigs |-> <<Len(ms), i>>]
           x == [kind |-> "calls", ids |-> ids]
<1>1. ctx \in Context({ctx.streak}) /\ ms \in Seq(Message) /\ turn.sigs \in Seq(Tools)
  BY DEF LoopInv, LoopTyped, Context
<1>2. pc = "reply" /\ Paired(ms, Len(ms))
  BY DEF Dispatch, LoopInv, HistoryPaired, Live
<1>3. ids \in Seq(Nat \X Nat)
  <2>1. DOMAIN turn.sigs = 1 .. Len(turn.sigs) /\ Len(turn.sigs) \in Nat /\ Len(ms) \in Nat
    BY <1>1
  <2>2. \A i \in DOMAIN turn.sigs : <<Len(ms), i>> \in Nat \X Nat
    BY <2>1
  <2> QED BY <2>1, <2>2
<1>4. x \in Message /\ x.kind = "calls" /\ x.ids = ids
  BY <1>3 DEF Message
<1>5. /\ ctx' = [ctx EXCEPT !.messages = Append(ms, x)]
      /\ calls' = [i \in DOMAIN ids |-> [id |-> ids[i], phase |-> "queued", result |-> "none"]]
      /\ pc' = "tools" /\ UNCHANGED <<concurrent, budget, turn, logged, aborted>>
  BY DEF Dispatch
<1> DEFINE t == Append(ms, x)
<1>6. t \in Seq(Message) /\ t # <<>> /\ t[Len(t)] = x /\ Paired(t, Len(t) - 1)
  BY <1>1, <1>2, <1>4, PairedCalls
<1>7. Batch' = DOMAIN ids /\ \A i \in DOMAIN ids : calls'[i].id = ids[i]
  BY <1>5 DEF Batch
<1> HIDE DEF ms, ids, x, t
<1>8. /\ ctx' \in Context({ctx.streak}) /\ ctx'.messages = t
      /\ ctx'.status = ctx.status /\ ctx'.error = ctx.error /\ ctx'.limit = ctx.limit
      /\ ctx'.toolErrors = ctx.toolErrors /\ ctx'.last = ctx.last
  BY <1>1, <1>5, <1>6 DEF Context, t
<1>9. LoopTyped'
  BY <1>5, <1>8, OwnStreak DEF LoopInv, LoopTyped, Live
<1>10. HistoryPaired'
  BY <1>4, <1>5, <1>6, <1>7, <1>8 DEF HistoryPaired, Live
<1>11. VerdictTrue'
  BY <1>2, <1>5, <1>8 DEF LoopInv, VerdictTrue, Live
<1>12. LogSeeded'
  BY <1>2, <1>5 DEF LoopInv, LogSeeded
<1> QED BY <1>9, <1>10, <1>11, <1>12 DEF LoopInv

\* Another prompt: a nudge or the stop hook's feedback.
LEMMA PromptKeeps ==
    ASSUME LoopInv, pc = "reply", NEW c \in Context({ctx.streak}),
           c.messages = Append(ctx.messages, User), c.status = ctx.status,
           c.toolErrors = ctx.toolErrors, EndTurn("continue", c), UNCHANGED <<logged, aborted>>
    PROVE  LoopInv'
<1>1. /\ ctx.messages \in Seq(Message) /\ Paired(ctx.messages, Len(ctx.messages))
      /\ c.status = "finished" /\ c.toolErrors < ErrorCap /\ logged \in Nat
  BY DEF LoopInv, LoopTyped, HistoryPaired, VerdictTrue, Live, Context
<1>2. Paired(c.messages, Len(c.messages))
  BY <1>1, PairedAppend, UserIsMessage
<1>3. UNCHANGED aborted /\ logged' \in Nat /\ logged' >= logged
  BY <1>1
<1> QED BY <1>1, <1>2, <1>3, EndTurnKeeps

LEMMA ReplyKeeps ==
    ASSUME LoopInv, Nudge \/ StopHookAsksForMore \/ Finish
    PROVE  LoopInv' /\ logged' = logged /\ pc = "reply"
<1>1. /\ ctx \in Context({ctx.streak}) /\ ctx.messages \in Seq(Message)
      /\ Append(ctx.messages, User) \in Seq(Message)
      /\ ctx.nudges \in 0 .. Nudges /\ ctx.feedbacks \in 0 .. Feedbacks
      /\ Nudges \in Nat /\ Feedbacks \in Nat
  BY UserIsMessage, LoopAssumption DEF LoopInv, LoopTyped, Context
<1>2. CASE Nudge
  <2> DEFINE c == [ctx EXCEPT !.nudges = ctx.nudges + 1, !.messages = Append(ctx.messages, User)]
  <2>1. pc = "reply" /\ EndTurn("continue", c) /\ UNCHANGED <<logged, aborted>>
    BY <1>2 DEF Nudge
  <2>2. ctx.nudges + 1 \in 0 .. Nudges
    BY <1>1, <1>2 DEF Nudge
  <2>3. /\ c \in Context({ctx.streak}) /\ c.messages = Append(ctx.messages, User)
        /\ c.status = ctx.status /\ c.toolErrors = ctx.toolErrors
    BY <1>1, <2>2 DEF Context
  <2> HIDE DEF c
  <2> QED BY <2>1, <2>3, PromptKeeps
<1>3. CASE StopHookAsksForMore
  <2> DEFINE c == [ctx EXCEPT !.feedbacks = ctx.feedbacks + 1,
                              !.messages = Append(ctx.messages, User)]
  <2>1. pc = "reply" /\ EndTurn("continue", c) /\ UNCHANGED <<logged, aborted>>
    BY <1>3 DEF StopHookAsksForMore, Finishing
  <2>2. ctx.feedbacks + 1 \in 0 .. Feedbacks
    BY <1>1, <1>3 DEF StopHookAsksForMore
  <2>3. /\ c \in Context({ctx.streak}) /\ c.messages = Append(ctx.messages, User)
        /\ c.status = ctx.status /\ c.toolErrors = ctx.toolErrors
    BY <1>1, <2>2 DEF Context
  <2> HIDE DEF c
  <2> QED BY <2>1, <2>3, PromptKeeps
<1>4. CASE Finish
  <2> DEFINE c == [ctx EXCEPT !.status = "finished"]
  <2>1. pc = "reply" /\ EndTurn("done", c) /\ UNCHANGED <<logged, aborted>>
    BY <1>4 DEF Finish, Finishing
  <2>2. c \in Context({ctx.streak}) /\ c.status = "finished"
    BY <1>1 DEF Context
  <2>3. logged \in Nat
    BY DEF LoopInv, LoopTyped
  <2> HIDE DEF c
  <2> QED BY <2>1, <2>2, <2>3, EndTurnKeeps
<1> QED BY <1>2, <1>3, <1>4

\* The stream fails or is aborted.
LEMMA LlmFailsKeeps ==
    ASSUME LoopInv, NEW partial \in BOOLEAN,
           LlmThrows(partial) \/ LlmReportsError(partial) \/ LlmAborted
    PROVE  LoopInv' /\ logged' \in Nat /\ logged' >= logged /\ pc = "llm"
<1>1. ctx \in Context({ctx.streak}) /\ logged \in Nat
  BY DEF LoopInv, LoopTyped
<1>2. pc = "llm" /\ UNCHANGED aborted
  BY DEF LlmThrows, LlmReportsError, LlmAborted
<1>3. ctx.status = "finished"
  BY <1>2 DEF LoopInv, VerdictTrue, Live
<1>4. logged' \in Nat /\ logged' >= logged
  BY <1>1 DEF LlmThrows, LlmReportsError, LlmAborted
<1>5. CASE LlmThrows(partial) \/ LlmReportsError(partial)
  <2> DEFINE c == [ctx EXCEPT !.error = TRUE, !.text = partial]
  <2>1. EndTurn("error", c)
    BY <1>5 DEF LlmThrows, LlmReportsError
  <2>2. c \in Context({ctx.streak}) /\ c.status = "finished" /\ c.error
    BY <1>1, <1>3 DEF Context
  <2> HIDE DEF c
  <2> QED BY <1>2, <1>4, <2>1, <2>2, EndTurnKeeps
<1>6. CASE LlmAborted
  <2> DEFINE c == [ctx EXCEPT !.text = TRUE]
  <2>1. EndTurn("error", c) /\ aborted
    BY <1>6 DEF LlmAborted
  <2>2. c \in Context({ctx.streak}) /\ c.status = "finished"
    BY <1>1, <1>3 DEF Context
  <2> HIDE DEF c
  <2> QED BY <1>2, <1>4, <2>1, <2>2, EndTurnKeeps
<1> QED BY <1>5, <1>6

LEMMA BatchEndsKeeps ==
    ASSUME LoopInv, BatchEnds
    PROVE  LoopInv' /\ logged' \in Nat /\ logged' >= logged /\ pc = "tools"
<1> DEFINE v == FirstDoomLoopVerdict(ctx.streak, turn.sigs)
           x == [kind |-> "results", ids |-> Results]
           answered == Append(ctx.messages, x)
           failed == \E i \in Batch : IsError(calls[i].result)
           errors == IF failed THEN ctx.toolErrors + 1 ELSE 0
           ms == IF v.verdict = "soft" THEN Append(answered, User) ELSE answered
           st == [sig |-> v.sig, count |-> v.count]
           seen == [ctx EXCEPT !.messages = ms, !.streak = st]
           decision == IF failed /\ errors >= ErrorCap THEN "error" ELSE "continue"
<1>1. /\ pc = "tools" /\ UNCHANGED aborted
      /\ IF v.verdict = "hard"
         THEN EndTurn("done", [seen EXCEPT !.text = TRUE]) /\ logged' = logged + 1
         ELSE EndTurn(decision, [seen EXCEPT !.toolErrors = errors]) /\ UNCHANGED logged
  BY DEF BatchEnds
<1>2. /\ ctx \in Context({ctx.streak}) /\ ctx.messages \in Seq(Message) /\ logged \in Nat
      /\ ctx.toolErrors \in 0 .. ErrorCap /\ ErrorCap \in Nat \ {0}
  BY LoopAssumption DEF LoopInv, LoopTyped, Context
<1>3. /\ ctx.status = "finished" /\ ctx.toolErrors < ErrorCap
      /\ Paired(ctx.messages, Len(ctx.messages) - 1) /\ ctx.messages # <<>>
      /\ Batch = DOMAIN ctx.messages[Len(ctx.messages)].ids
      /\ \A i \in Batch : calls[i].id = ctx.messages[Len(ctx.messages)].ids[i]
  BY <1>1 DEF LoopInv, VerdictTrue, HistoryPaired, Live
<1>4. x \in Message /\ x = [kind |-> "results", ids |-> ctx.messages[Len(ctx.messages)].ids]
  <2>1. ctx.messages[Len(ctx.messages)] \in Message
    BY <1>2, <1>3
  <2>2. ctx.messages[Len(ctx.messages)].ids \in Seq(Nat \X Nat)
    BY <2>1 DEF Message
  <2>3. Results = ctx.messages[Len(ctx.messages)].ids
    <3> DEFINE ids == ctx.messages[Len(ctx.messages)].ids
    <3>1. Batch = DOMAIN ids /\ \A i \in Batch : calls[i].id = ids[i]
      BY <1>3
    <3>2. ids \in Seq(Nat \X Nat)
      BY <2>2
    <3> HIDE DEF ids
    <3>3. ids = [i \in DOMAIN ids |-> ids[i]]
      BY <3>2
    <3>4. Results = [i \in DOMAIN ids |-> ids[i]]
      BY <3>1 DEF Results
    <3>5. Results = ids
      BY <3>3, <3>4
    <3> QED BY <3>5 DEF ids
  <2> QED BY <2>2, <2>3 DEF Message
<1> HIDE DEF v, x
<1>5. answered \in Seq(Message) /\ Paired(answered, Len(answered))
  BY <1>2, <1>3, <1>4, PairedResults
<1> HIDE DEF answered
<1>6. ms \in Seq(Message) /\ Paired(ms, Len(ms))
  BY <1>5, PairedAppend, UserIsMessage
<1>7. failed \in BOOLEAN
  OBVIOUS
<1> HIDE DEF ms, st, failed
<1>8. /\ seen \in Context({st}) /\ seen.messages = ms /\ seen.status = "finished"
      /\ seen.toolErrors = ctx.toolErrors
  BY <1>2, <1>3, <1>6 DEF Context
<1> HIDE DEF seen
<1>9. CASE v.verdict = "hard"
  <2> DEFINE c == [seen EXCEPT !.text = TRUE]
  <2>1. EndTurn("done", c) /\ logged' = logged + 1
    BY <1>1, <1>9
  <2>2. c \in Context({st}) /\ c.status = "finished"
    BY <1>8 DEF Context
  <2>3. logged' \in Nat /\ logged' >= logged
    BY <1>2, <2>1
  <2> HIDE DEF c
  <2> QED BY <1>1, <2>1, <2>2, <2>3, EndTurnKeeps
<1>10. CASE v.verdict # "hard"
  <2> DEFINE c == [seen EXCEPT !.toolErrors = errors]
  <2>1. EndTurn(decision, c) /\ logged' = logged
    BY <1>1, <1>10
  <2>2. /\ errors \in 0 .. ErrorCap
        /\ decision = "error" => errors = ErrorCap
        /\ decision = "continue" => errors < ErrorCap
        /\ decision \in {"done", "error", "continue"}
    BY <1>2, <1>3, <1>7
  <2> HIDE DEF errors, decision
  <2>3. c \in Context({st}) /\ c.status = "finished" /\ c.messages = ms /\ c.toolErrors = errors
    BY <1>8, <2>2 DEF Context
  <2>4. logged' \in Nat /\ logged' >= logged
    BY <1>2, <2>1
  <2> HIDE DEF c
  <2> QED BY <1>1, <1>6, <2>1, <2>2, <2>3, <2>4, EndTurnKeeps
<1> QED BY <1>9, <1>10

\* The budget tracker's denial and the end of the loop.
LEMMA EndKeeps ==
    ASSUME LoopInv, Finalize \/ \E atLimit, det \in BOOLEAN : BudgetDenies(atLimit, det)
    PROVE  LoopInv' /\ logged' = logged /\ pc \in {"ended", "gate"}
<1>1. ctx \in Context({ctx.streak}) /\ logged \in Nat
  BY DEF LoopInv, LoopTyped
<1>2. ASSUME NEW c \in Context({ctx.streak}), ctx' = c, pc' \in {"ended", "returned"},
             pc \in {"gate", "ended"}, UNCHANGED <<budget, turn, calls, logged, aborted>>,
             VerdictTrue'
      PROVE  LoopInv'
  <2>1. LoopTyped'
    BY <1>2, OwnStreak DEF LoopInv, LoopTyped
  <2>2. HistoryPaired'
    BY <1>2 DEF HistoryPaired, Live
  <2>3. LogSeeded'
    BY <1>2 DEF LoopInv, LogSeeded, Batch
  <2> QED BY <1>2, <2>1, <2>2, <2>3 DEF LoopInv
<1>3. ASSUME NEW atLimit \in BOOLEAN, NEW det \in BOOLEAN, BudgetDenies(atLimit, det)
      PROVE  LoopInv' /\ logged' = logged /\ pc = "gate"
  <2> DEFINE c == [ctx EXCEPT !.status = "error", !.limit = ctx.limit \/ atLimit,
                              !.error = ctx.error \/ det]
  <2>1. /\ ctx' = c /\ pc = "gate" /\ pc' = "ended"
        /\ UNCHANGED <<budget, turn, calls, logged, aborted>>
    BY <1>3 DEF BudgetDenies
  <2>2. /\ c \in Context({ctx.streak}) /\ c.status = "error" /\ c.last = ctx.last
        /\ c.toolErrors = ctx.toolErrors
    BY <1>1 DEF Context
  <2>3. ctx.last \in {"none", "continue"} /\ (ctx.last = "none" => budget.remaining > 0)
    BY <2>1 DEF LoopInv, VerdictTrue, Live
  <2> HIDE DEF c
  <2>4. VerdictTrue'
    BY <2>1, <2>2, <2>3 DEF VerdictTrue, Live
  <2> QED BY <1>2, <2>1, <2>2, <2>4
<1>4. CASE Finalize
  <2> DEFINE exhausted == ~ ShouldContinue(budget)
             mute == exhausted /\ ctx.status = "finished" /\ ~ ctx.text
             c == [ctx EXCEPT !.limit = ctx.limit \/ (ctx.last = "continue" /\ exhausted),
                              !.status = IF mute THEN "error" ELSE ctx.status,
                              !.error = ctx.error \/ mute]
  <2>1. /\ ctx' = c /\ pc = "ended" /\ pc' = "returned"
        /\ UNCHANGED <<budget, turn, calls, logged, aborted>>
    BY <1>4 DEF Finalize
  <2>2. exhausted \in BOOLEAN /\ mute \in BOOLEAN
    OBVIOUS
  <2>3. mute => ctx.status = "finished"
    OBVIOUS
  <2>4. ctx.status = "finished" => ctx.last = "done" \/ (ctx.last = "continue" /\ exhausted)
    BY <2>1 DEF LoopInv, VerdictTrue
  <2> HIDE DEF exhausted, mute
  <2>5. /\ c \in Context({ctx.streak}) /\ c.last = ctx.last /\ c.toolErrors = ctx.toolErrors
        /\ c.limit = (ctx.limit \/ (ctx.last = "continue" /\ exhausted))
        /\ c.status = IF mute THEN "error" ELSE ctx.status
        /\ c.error = (ctx.error \/ mute)
    BY <1>1, <2>2 DEF Context
  <2> HIDE DEF c
  <2>6. /\ ctx.last = "none" => budget.remaining > 0
        /\ ctx.status = "cancelled" => aborted
        /\ ctx.status = "error" /\ ~ ctx.error =>
              aborted \/ ctx.toolErrors = ErrorCap \/ ctx.last # "error"
    BY DEF LoopInv, VerdictTrue
  <2>7. VerdictTrue'
    BY <2>1, <2>3, <2>4, <2>5, <2>6 DEF VerdictTrue, Live
  <2> QED BY <1>2, <2>1, <2>5, <2>7
<1> QED BY <1>3, <1>4

\* Where the log can grow: not before its seed, and not once the loop is back.
LogGrows ==
    /\ logged' \in Nat /\ logged' >= logged
    /\ pc = "init" => logged = 0 /\ logged' \in {0, 2}
    /\ pc # "init" /\ logged' # logged => logged >= 2
    /\ pc \notin {"idle", "returned"}
    /\ pc' \notin {"idle", "init"}

LEMMA CallsKeep ==
    ASSUME LoopInv, CallNext \/ ToolNext
    PROVE  LoopInv' /\ LogGrows /\ UNCHANGED aborted
<1>1. \A n \in {0, 1, 2} : n \in Nat
  OBVIOUS
<1>2. PICK i \in Batch :
         \/ CallStarts(i) \/ CallNotListed(i) \/ CallVetoed(i) \/ CallThrows(i)
         \/ ToolStarts(i) \/ ToolCutOff(i) \/ CallEnds(i)
         \/ ToolEnds(i, "ok") \/ ToolEnds(i, "err") \/ ToolTimesOut(i)
  BY DEF CallNext, ToolNext
<1>3. \E from, to, result : \E n \in {0, 1, 2} :
         CallStep(i, from, to, result, n) /\ (pc' = pc \/ (pc = "tools" /\ pc' = "thrown"))
  <2>1. CASE CallStarts(i)
    BY <2>1 DEF CallStarts
  <2>2. CASE CallNotListed(i)
    BY <2>2 DEF CallNotListed
  <2>3. CASE CallVetoed(i)
    BY <2>3 DEF CallVetoed
  <2>4. CASE CallThrows(i)
    BY <2>4 DEF CallThrows
  <2>5. CASE ToolStarts(i)
    BY <2>5 DEF ToolStarts
  <2>6. CASE ToolCutOff(i)
    BY <2>6 DEF ToolCutOff
  <2>7. CASE CallEnds(i)
    BY <2>7 DEF CallEnds
  <2>8. CASE ToolEnds(i, "ok") \/ ToolEnds(i, "err")
    BY <2>8 DEF ToolEnds
  <2>9. CASE ToolTimesOut(i)
    BY <2>9 DEF ToolTimesOut
  <2> QED BY <1>2, <2>1, <2>2, <2>3, <2>4, <2>5, <2>6, <2>7, <2>8, <2>9
<1>4. LoopInv' /\ logged' \in Nat /\ logged' >= logged /\ logged >= 2
  BY <1>1, <1>3, CallKeeps
<1>5. UNCHANGED aborted /\ (pc' = pc \/ pc' = "thrown")
  BY <1>3 DEF CallStep
<1>6. pc \in {"tools", "thrown"}
  BY <1>2 DEF LoopInv, LogSeeded
<1> QED BY <1>4, <1>5, <1>6 DEF LogGrows

LEMMA LlmKeeps ==
    ASSUME LoopInv, LlmNext
    PROVE  LoopInv' /\ LogGrows /\ UNCHANGED aborted
<1>1. ASSUME NEW text \in BOOLEAN, NEW sigs \in BoundedSeq(Tools, MaxCalls),
             NEW stop \in {"tool_use", "end_turn"}, LlmAnswers(text, sigs, stop)
      PROVE  LoopInv' /\ LogGrows /\ UNCHANGED aborted
  <2>1. sigs \in Seq(Tools)
    <3>1. PICK m \in 0 .. MaxCalls : sigs \in [1 .. m -> Tools]
      BY DEF BoundedSeq, SeqOf
    <3>2. m \in Nat
      BY LoopAssumption
    <3> QED BY <3>1, <3>2
  <2>2. pc = "llm" /\ pc' = "reply" /\ UNCHANGED aborted
    BY <1>1 DEF LlmAnswers
  <2> QED BY <1>1, <2>1, <2>2, LlmAnswersKeeps DEF LogGrows
<1>2. ASSUME NEW partial \in BOOLEAN,
             LlmThrows(partial) \/ LlmReportsError(partial) \/ LlmAborted
      PROVE  LoopInv' /\ LogGrows /\ UNCHANGED aborted
  <2>1. LoopInv' /\ logged' \in Nat /\ logged' >= logged /\ pc = "llm"
    BY <1>2, LlmFailsKeeps
  <2>2. logged >= 2
    BY <2>1 DEF LoopInv, LogSeeded
  <2>3. pc' = "ended" /\ UNCHANGED aborted
    BY <1>2 DEF LlmThrows, LlmReportsError, LlmAborted, EndTurn
  <2> QED BY <2>1, <2>2, <2>3 DEF LogGrows
<1> QED BY <1>1, <1>2 DEF LlmNext

LEMMA LoopKeeps ==
    ASSUME LoopInv, LoopNext \/ ToolNext
    PROVE  LoopInv' /\ LogGrows /\ UNCHANGED aborted
<1>1. CASE CallNext \/ ToolNext
  BY <1>1, CallsKeep
<1>2. CASE LlmNext
  BY <1>2, LlmKeeps
<1>3. /\ turn.sigs \in Seq(Tools) /\ logged \in Nat
      /\ budget \in [remaining : 0 .. Iterations, grace : BOOLEAN]
  BY DEF LoopInv, LoopTyped
<1>4. pc = "init" => logged = 0
  BY DEF LoopInv, LogSeeded
<1>5. CASE ContextReady
  <2>1. /\ pc = "init" /\ pc' = "gate" /\ logged' = 2
        /\ UNCHANGED <<budget, ctx, turn, calls, aborted>>
    BY <1>5 DEF ContextReady
  <2>2. LoopInv'
    BY <1>3, <2>1, PlaceKeeps
  <2> QED BY <1>3, <1>4, <2>1, <2>2 DEF LogGrows
<1>6. CASE ContextFails
  <2>1. /\ pc = "init" /\ pc' = "thrown" /\ logged' = logged
        /\ UNCHANGED <<budget, ctx, turn, calls, aborted>>
    BY <1>6 DEF ContextFails
  <2>2. LoopInv'
    BY <1>3, <2>1, PlaceKeeps
  <2> QED BY <1>3, <1>4, <2>1, <2>2 DEF LogGrows
<1>7. CASE BeginTurn
  <2>1. /\ pc = "gate" /\ pc' = "llm" /\ logged' = logged
        /\ UNCHANGED <<ctx, turn, calls, aborted>>
        /\ budget' = [budget EXCEPT !.grace = budget.grace \/ budget.remaining = 0]
    BY <1>7 DEF BeginTurn
  <2>2. /\ budget' \in [remaining : 0 .. Iterations, grace : BOOLEAN]
        /\ budget'.remaining = budget.remaining
    BY <1>3, <2>1
  <2>3. LoopInv'
    BY <1>3, <2>1, <2>2, PlaceKeeps
  <2> QED BY <1>3, <2>1, <2>3 DEF LogGrows
<1>8. CASE BudgetExhausted
  <2>1. /\ pc = "gate" /\ pc' = "ended" /\ logged' = logged /\ ~ ShouldContinue(budget)
        /\ UNCHANGED <<budget, ctx, turn, calls, aborted>>
    BY <1>8 DEF BudgetExhausted
  <2>2. LoopInv'
    BY <1>3, <2>1, PlaceKeeps DEF ShouldContinue
  <2> QED BY <1>3, <2>1, <2>2 DEF LogGrows
<1>9. CASE Finalize \/ \E atLimit, det \in BOOLEAN : BudgetDenies(atLimit, det)
  <2>1. LoopInv' /\ logged' = logged /\ pc \in {"ended", "gate"}
    BY <1>9, EndKeeps
  <2>2. pc' \in {"ended", "returned"} /\ UNCHANGED aborted
    BY <1>9 DEF Finalize, BudgetDenies
  <2> QED BY <1>3, <2>1, <2>2 DEF LogGrows
<1>10. CASE Nudge \/ StopHookAsksForMore \/ Finish
  <2>1. LoopInv' /\ logged' = logged /\ pc = "reply"
    BY <1>10, ReplyKeeps
  <2>2. pc' \in {"ended", "gate"} /\ UNCHANGED aborted
    BY <1>10 DEF Nudge, StopHookAsksForMore, Finish, EndTurn
  <2> QED BY <1>3, <2>1, <2>2 DEF LogGrows
<1>11. CASE StopHookThrows
  <2>1. /\ pc = "reply" /\ pc' = "thrown" /\ logged' = logged
        /\ UNCHANGED <<budget, ctx, turn, calls, aborted>>
    BY <1>11 DEF StopHookThrows, Finishing
  <2>2. LoopInv'
    BY <1>3, <2>1, PlaceKeeps
  <2> QED BY <1>3, <2>1, <2>2 DEF LogGrows
<1>12. CASE Dispatch
  <2>1. pc = "reply" /\ pc' = "tools" /\ UNCHANGED <<logged, aborted>>
    BY <1>12 DEF Dispatch
  <2>2. LoopInv'
    BY <1>12, DispatchKeeps
  <2> QED BY <1>3, <2>1, <2>2 DEF LogGrows
<1>13. CASE BatchEnds
  <2>1. LoopInv' /\ logged' \in Nat /\ logged' >= logged /\ pc = "tools"
    BY <1>13, BatchEndsKeeps
  <2>2. logged >= 2
    BY <2>1 DEF LoopInv, LogSeeded
  <2>3. pc' \in {"ended", "gate"} /\ UNCHANGED aborted
    BY <1>13 DEF BatchEnds, EndTurn
  <2> QED BY <2>1, <2>2, <2>3 DEF LogGrows
<1> QED BY <1>1, <1>2, <1>5, <1>6, <1>7, <1>8, <1>9, <1>10, <1>11, <1>12, <1>13 DEF LoopNext

-----------------------------------------------------------------------------
(* Log positions.                                                            *)

LEMMA PositionsType ==
    ASSUME NEW n \in Nat, NEW m \in Nat
    PROVE  /\ Positions(n, m) \in Seq(Nat)
           /\ n <= m => /\ Len(Positions(n, m)) = m - n
                        /\ \A k \in 1 .. m - n : Positions(n, m)[k] = n + k
           /\ m <= n => Positions(n, m) = <<>>
<1>1. CASE n <= m
  <2>1. m - n \in Nat /\ \A k \in 1 .. m - n : n + k \in Nat
    BY <1>1
  <2>2. Positions(n, m) \in Seq(Nat) /\ Len(Positions(n, m)) = m - n
    BY <2>1 DEF Positions
  <2>3. \A k \in 1 .. m - n : Positions(n, m)[k] = n + k
    BY DEF Positions
  <2>4. m = n => Positions(n, m) = <<>>
    BY <2>2
  <2> QED BY <1>1, <2>2, <2>3, <2>4
<1>2. CASE m < n
  <2>1. 1 .. m - n = {}
    BY <1>2
  <2>2. Positions(n, m) = <<>>
    BY <2>1 DEF Positions
  <2> QED BY <1>2, <2>2
<1> QED BY <1>1, <1>2

LEMMA PositionsJoin ==
    ASSUME NEW n \in Nat, NEW l \in Nat, NEW m \in Nat, n <= l, l <= m
    PROVE  Positions(n, l) \o Positions(l, m) = Positions(n, m)
<1> DEFINE p == Positions(n, l)
           q == Positions(l, m)
           r == Positions(n, m)
           a == l - n
           b == m - l
<1>1. a \in Nat /\ b \in Nat /\ m - n = a + b /\ l = n + a
  OBVIOUS
<1>2. p \in Seq(Nat) /\ Len(p) = a /\ \A k \in 1 .. a : p[k] = n + k
  BY PositionsType
<1>3. q \in Seq(Nat) /\ Len(q) = b /\ \A k \in 1 .. b : q[k] = l + k
  BY PositionsType
<1>4. r \in Seq(Nat) /\ Len(r) = a + b /\ \A k \in 1 .. a + b : r[k] = n + k
  <2>1. n <= m
    OBVIOUS
  <2>2. r \in Seq(Nat) /\ Len(r) = m - n /\ \A k \in 1 .. m - n : r[k] = n + k
    BY <2>1, PositionsType
  <2> HIDE DEF r, a, b
  <2> QED BY <1>1, <2>2
<1> HIDE DEF p, q, r, a, b
<1>5. /\ p \o q \in Seq(Nat) /\ Len(p \o q) = a + b
      /\ \A k \in 1 .. a + b : (p \o q)[k] = IF k <= a THEN p[k] ELSE q[k - a]
  <2>1. /\ p \o q \in Seq(Nat) /\ Len(p \o q) = Len(p) + Len(q)
        /\ \A k \in 1 .. Len(p) + Len(q) :
               (p \o q)[k] = IF k <= Len(p) THEN p[k] ELSE q[k - Len(p)]
    BY <1>2, <1>3, ConcatProperties
  <2> DEFINE j == p \o q
  <2> HIDE DEF j
  <2>2. /\ j \in Seq(Nat) /\ Len(j) = Len(p) + Len(q)
        /\ \A k \in 1 .. Len(p) + Len(q) :
               j[k] = IF k <= Len(p) THEN p[k] ELSE q[k - Len(p)]
    BY <2>1 DEF j
  <2>3. /\ j \in Seq(Nat) /\ Len(j) = a + b
        /\ \A k \in 1 .. a + b : j[k] = IF k <= a THEN p[k] ELSE q[k - a]
    BY <1>2, <1>3, <2>2
  <2> QED BY <2>3 DEF j
<1>6. ASSUME NEW k \in 1 .. a + b PROVE (p \o q)[k] = r[k]
  <2>1. k \in Nat /\ (p \o q)[k] = IF k <= a THEN p[k] ELSE q[k - a]
    BY <1>1, <1>5
  <2>2. CASE k <= a
    <3>1. k \in 1 .. a /\ r[k] = n + k
      BY <1>1, <1>4, <2>1, <2>2
    <3> QED BY <1>2, <2>1, <2>2, <3>1
  <2>3. CASE ~ (k <= a)
    <3>1. k - a \in 1 .. b /\ l + (k - a) = n + k /\ r[k] = n + k
      BY <1>1, <1>4, <2>1, <2>3
    <3>2. q[k - a] = l + (k - a)
      BY <1>3, <3>1
    <3> QED BY <2>1, <2>3, <3>1, <3>2
  <2> QED BY <2>2, <2>3
<1>7. p \o q = r
  BY <1>1, <1>4, <1>5, <1>6, SeqEqual
<1> QED BY <1>7 DEF p, q, r

\* Of a log that was handed over from its third event on, the first two are left.
LEMMA SeedIsLeft ==
    ASSUME logged \in Nat, logged >= 2, script = Positions(2, logged)
    PROVE  Undelivered = <<1, 2>>
<1> DEFINE missing == (1 .. logged) \ Delivered
           Ordered(s) == \A i, j \in DOMAIN s : i < j => s[i] < s[j]
<1>1. /\ DOMAIN script = 1 .. logged - 2
      /\ \A k \in 1 .. logged - 2 : script[k] = 2 + k
  <2>1. /\ script \in Seq(Nat) /\ Len(script) = logged - 2
        /\ \A k \in 1 .. logged - 2 : script[k] = 2 + k
    BY PositionsType
  <2> QED BY <2>1
<1>2. missing = {1, 2}
  <2>1. ASSUME NEW e \in 1 .. logged PROVE e \in Delivered <=> e > 2
    <3>1. CASE e > 2
      <4>1. e - 2 \in DOMAIN script /\ script[e - 2] = e
        BY <1>1, <3>1
      <4> QED BY <3>1, <4>1 DEF Delivered
    <3>2. CASE ~ (e > 2)
      BY <1>1, <3>2 DEF Delivered
    <3> QED BY <3>1, <3>2
  <2> QED BY <2>1
<1>3. Cardinality({1, 2}) = 2
  <2>1. IsFiniteSet({}) /\ Cardinality({}) = 0
    BY FS_EmptySet
  <2>2. IsFiniteSet({} \cup {1}) /\ Cardinality({} \cup {1}) = 1
    <3>1. 1 \notin {}
      OBVIOUS
    <3> QED BY <2>1, <3>1, FS_AddElement
  <2>3. {} \cup {1} = {1} /\ {1} \cup {2} = {1, 2} /\ 2 \notin {1}
    OBVIOUS
  <2>4. IsFiniteSet({1}) /\ Cardinality({1}) = 1
    BY <2>2, <2>3
  <2>5. Cardinality({1} \cup {2}) = Cardinality({1}) + 1
    BY <2>3, <2>4, FS_AddElement
  <2> QED BY <2>3, <2>4, <2>5
<1>4. <<1, 2>> \in [1 .. 2 -> {1, 2}] /\ Ordered(<<1, 2>>)
  OBVIOUS
<1>5. \A s \in [1 .. 2 -> {1, 2}] : Ordered(s) => s = <<1, 2>>
  <2> SUFFICES ASSUME NEW s \in [1 .. 2 -> {1, 2}], Ordered(s) PROVE s = <<1, 2>>
    OBVIOUS
  <2>1. 1 \in DOMAIN s /\ 2 \in DOMAIN s /\ s[1] \in {1, 2} /\ s[2] \in {1, 2}
    OBVIOUS
  <2>2. s[1] < s[2]
    BY <2>1
  <2>3. s[1] = 1 /\ s[2] = 2
    BY <2>1, <2>2
  <2> QED BY <2>3
<1>6. Undelivered = CHOOSE s \in [1 .. 2 -> {1, 2}] : Ordered(s)
  BY <1>2, <1>3 DEF Undelivered
<1> HIDE DEF Ordered
<1> QED BY <1>4, <1>5, <1>6
-----------------------------------------------------------------------------
(* The run around the loop.                                                  *)

\* The loop's clauses depend on its own variables, and on the signal only
\* where a signal that has fired makes them weaker.
LEMMA LoopUntouched ==
    ASSUME LoopInv, UNCHANGED <<pc, budget, ctx, turn, calls, logged>>,
           aborted' = aborted \/ aborted' = TRUE
    PROVE  LoopInv'
<1>1. LoopTyped'
  BY DEF LoopInv, LoopTyped
<1>2. HistoryPaired'
  BY DEF LoopInv, HistoryPaired, Paired, Batch
<1>3. VerdictTrue'
  BY DEF LoopInv, LoopTyped, VerdictTrue, ShouldContinue
<1>4. LogSeeded'
  BY DEF LoopInv, LogSeeded, Batch
<1> QED BY <1>1, <1>2, <1>3, <1>4 DEF LoopInv

\* A run that becomes terminal without the loop's output keeps its stream.
LEMMA StreamSettles ==
    ASSUME logged \in Nat, script = Positions(2, logged), batched = FALSE
    PROVE  script = Positions(2, logged) \o <<>>
<1>1. Positions(2, logged) \in Seq(Nat)
  BY PositionsType
<1> QED BY <1>1, ConcatEmptySeq

\* A step of the loop or of a tool: what it logged is handed on while the run
\* is open, and nothing of it once the run is terminal.
LEMMA ReportedKeeps ==
    ASSUME IInv, LoopInv', LogGrows, UNCHANGED aborted, Reported
    PROVE  IInv'
<1>1. UNCHANGED <<step, mcp, status, detail, cut, batched, aborted>> /\ Deliver
  BY DEF Reported
<1>2. RunTyped'
  BY <1>1 DEF IInv, RunTyped
<1>3. StatusFounded'
  BY <1>1 DEF IInv, StatusFounded, LogGrows
<1>4. CASE Terminated
  <2>1. Terminated' /\ UNCHANGED script
    BY <1>1, <1>4 DEF Deliver, Terminated
  <2>2. step \notin {"boot", "mcp"}
    BY DEF IInv, StreamSoFar, LogGrows
  <2>3. StreamIsExact'
    BY <1>1, <1>4, <2>1 DEF IInv, StreamSoFar, StreamIsExact, Positions
  <2>4. StreamSoFar'
    BY <1>1, <2>1, <2>2, <2>3 DEF IInv, StreamSoFar
  <2> QED BY <1>2, <1>3, <2>4 DEF IInv
<1>5. CASE ~ Terminated
  <2>1. ~ Terminated' /\ batched = FALSE /\ script = Positions(2, logged) /\ logged \in Nat
    BY <1>1, <1>5 DEF Terminated, IInv, LoopInv, LoopTyped, RunTyped, StreamSoFar
  <2>2. step \notin {"boot", "mcp"}
    BY DEF IInv, StreamSoFar, LogGrows
  <2>3. script' = Positions(2, logged')
    <3>1. CASE pc = "init"
      <4>1. script' = script /\ logged = 0 /\ logged' \in {0, 2}
        BY <1>1, <3>1 DEF Deliver, LogGrows
      <4>2. Positions(2, 0) = <<>> /\ Positions(2, 2) = <<>>
        BY PositionsType
      <4> QED BY <2>1, <4>1, <4>2
    <3>2. CASE pc # "init" /\ logged' = logged
      BY <1>1, <2>1, <3>2 DEF Deliver
    <3>3. CASE pc # "init" /\ logged' # logged
      <4>1. logged >= 2 /\ logged' \in Nat /\ logged <= logged'
        BY <2>1, <3>3 DEF LogGrows
      <4>2. script' = Positions(2, logged) \o Positions(logged, logged')
        BY <1>1, <1>5, <2>1, <3>3 DEF Deliver
      <4> QED BY <2>1, <4>1, <4>2, PositionsJoin
    <3> QED BY <3>1, <3>2, <3>3
  <2>4. StreamSoFar'
    BY <1>1, <2>1, <2>2, <2>3 DEF StreamSoFar, StreamIsExact, Terminated
  <2> QED BY <1>2, <1>3, <2>4 DEF IInv
<1> QED BY <1>4, <1>5

\* The run becomes terminal while the loop stands: by the caller, or because
\* the inputs could not be built or the loop threw.
LEMMA SettledKeeps ==
    ASSUME IInv, LoopInv', NEW next \in {"error", "cancelled"}, TransitionTo(next),
           UNCHANGED <<pc, ctx, logged, script, batched>>, step' \in {step, "closing", "end"},
           detail' \in BOOLEAN, next = "error" => detail', next = "cancelled" => aborted',
           aborted' = aborted \/ aborted' = TRUE, detail' = detail \/ detail' = TRUE
    PROVE  IInv'
<1>1. /\ step \in {"boot", "mcp", "loop", "closing", "end"}
      /\ status \in {"running", "finished", "error", "cancelled"}
      /\ batched \in BOOLEAN /\ logged \in Nat
  BY DEF IInv, RunTyped, LoopInv, LoopTyped
<1>2. Terminated'
  BY DEF TransitionTo, Terminated
<1>3. RunTyped'
  BY <1>1 DEF RunTyped, TransitionTo
<1>4. batched' => step' \in {"closing", "end"}
  BY DEF IInv, StreamSoFar
<1>5. step' \in {"boot", "mcp"} => pc' = "idle"
  BY DEF IInv, StreamSoFar
<1>6. CASE Terminated
  <2>1. UNCHANGED <<status, cut>>
    BY <1>6 DEF TransitionTo
  <2>2. StreamIsExact'
    BY <1>6, <2>1 DEF IInv, StreamSoFar, StreamIsExact, Positions
  <2>3. StreamSoFar'
    BY <1>2, <1>4, <1>5, <2>2 DEF StreamSoFar
  <2>4. StatusFounded'
    BY <2>1 DEF IInv, StatusFounded
  <2> QED BY <1>3, <2>3, <2>4 DEF IInv
<1>7. CASE ~ Terminated
  <2>1. status' = next /\ cut' = logged
    BY <1>7 DEF TransitionTo
  <2>2. batched = FALSE /\ script = Positions(2, logged)
    BY <1>1, <1>7 DEF IInv, StreamSoFar
  <2>3. script' = Positions(2, cut') \o <<>>
    BY <1>1, <2>1, <2>2, StreamSettles
  <2>4. StreamIsExact'
    BY <2>2, <2>3 DEF StreamIsExact, Positions
  <2>5. StreamSoFar'
    BY <1>2, <1>4, <1>5, <2>4 DEF StreamSoFar
  <2>6. StatusFounded'
    BY <2>1 DEF StatusFounded
  <2> QED BY <1>3, <2>5, <2>6 DEF IInv
<1> QED BY <1>6, <1>7

\* driveLoop moves on, and the status and the stream stay.
LEMMA MovedKeeps ==
    ASSUME IInv, LoopInv', UNCHANGED <<ctx, logged, status, script, cut, batched>>,
           aborted' = aborted \/ aborted' = TRUE, detail' \in {detail, TRUE},
           step' \in {"boot", "mcp", "loop", "closing", "end"},
           pc' = pc \/ (pc = "idle" /\ pc' = "init"),
           step' \in {"boot", "mcp"} => step \in {"boot", "mcp"} /\ pc' = pc,
           step \in {"closing", "end"} => step' \in {"closing", "end"}
    PROVE  IInv'
<1>1. RunTyped'
  BY DEF IInv, RunTyped
<1>2. StreamIsExact'
  BY DEF IInv, StreamSoFar, StreamIsExact, Terminated, Positions
<1>3. StreamSoFar'
  BY <1>2 DEF IInv, StreamSoFar, Terminated, Positions
<1>4. StatusFounded'
  BY DEF IInv, RunTyped, StatusFounded
<1> QED BY <1>1, <1>3, <1>4 DEF IInv

LEMMA LoopReturnsKeeps ==
    ASSUME IInv, LoopReturns PROVE IInv'
<1>1. /\ step = "loop" /\ pc = "returned" /\ step' = "closing"
      /\ batched' = (~ Terminated) /\ TransitionTo(ctx.status)
      /\ script' = IF Terminated THEN script ELSE script \o Undelivered
      /\ detail' = IF Terminated THEN detail ELSE detail \/ ctx.error
      /\ UNCHANGED <<pc, budget, ctx, turn, calls, logged, aborted>>
  BY DEF LoopReturns, loopVars
<1>2. /\ ctx.status \in {"finished", "error", "cancelled"} /\ ctx.error \in BOOLEAN
      /\ logged \in Nat /\ logged >= 2 /\ (ctx.status = "cancelled" => aborted)
  BY <1>1 DEF IInv, LoopInv, LoopTyped, Context, LogSeeded, VerdictTrue
<1>3. batched = FALSE /\ detail \in BOOLEAN
  BY <1>1 DEF IInv, RunTyped, StreamSoFar
<1>4. LoopInv'
  BY <1>1, LoopUntouched DEF IInv
<1>5. Terminated' /\ RunTyped'
  BY <1>1, <1>2, <1>3 DEF IInv, RunTyped, TransitionTo, Terminated
<1>6. CASE Terminated
  <2>1. UNCHANGED <<status, cut, script, detail>> /\ batched' = FALSE
    BY <1>1, <1>6 DEF TransitionTo
  <2>2. StreamIsExact'
    BY <1>3, <1>6, <2>1 DEF IInv, StreamSoFar, StreamIsExact, Positions
  <2>3. StreamSoFar'
    BY <1>1, <1>5, <2>2 DEF StreamSoFar
  <2>4. StatusFounded'
    BY <1>1, <2>1 DEF IInv, StatusFounded
  <2> QED BY <1>4, <1>5, <2>3, <2>4 DEF IInv
<1>7. CASE ~ Terminated
  <2>1. status' = ctx.status /\ cut' = logged /\ batched' = TRUE
    BY <1>1, <1>7 DEF TransitionTo
  <2>2. detail' = (detail \/ ctx.error)
    BY <1>1, <1>7
  <2>3. script' = Positions(2, logged) \o <<1, 2>>
    <3>1. script = Positions(2, logged)
      BY <1>7 DEF IInv, StreamSoFar
    <3>2. Undelivered = <<1, 2>>
      BY <1>2, <3>1, SeedIsLeft
    <3> QED BY <1>1, <1>7, <3>1, <3>2
  <2>4. StreamIsExact'
    BY <2>1, <2>3 DEF StreamIsExact, Positions
  <2>5. StreamSoFar'
    BY <1>1, <1>5, <2>4 DEF StreamSoFar
  <2>6. StatusFounded'
    BY <1>1, <1>2, <1>3, <2>1, <2>2 DEF StatusFounded
  <2> QED BY <1>4, <1>5, <2>5, <2>6 DEF IInv
<1> QED BY <1>6, <1>7

LEMMA DriveKeeps ==
    ASSUME IInv, Drive PROVE IInv'
<1>1. /\ LoopInv /\ detail \in BOOLEAN /\ TRUE \in BOOLEAN
      /\ step \in {"boot", "mcp", "loop", "closing", "end"}
  BY DEF IInv, RunTyped
<1>2. UNCHANGED loopVars => LoopInv'
  BY <1>1, LoopUntouched DEF loopVars
<1>3. CASE Boot
  BY <1>2, <1>3, MovedKeeps DEF Boot, loopVars
<1>4. CASE BuildInputsFails
  <2>1. /\ TransitionTo("error") /\ UNCHANGED loopVars /\ UNCHANGED <<script, batched>>
        /\ detail' = TRUE /\ step' = "end"
    BY <1>4 DEF BuildInputsFails
  <2> QED BY <1>1, <1>2, <2>1, SettledKeeps DEF loopVars
<1>5. CASE ExecuteAgentLoop
  <2>1. /\ step = "mcp" /\ step' \in {"closing", "loop"} /\ pc = "idle"
        /\ pc' = pc \/ pc' = "init"
        /\ UNCHANGED <<budget, ctx, turn, calls, logged, aborted>>
        /\ UNCHANGED <<mcp, status, detail, script, cut, batched>>
    BY <1>5 DEF ExecuteAgentLoop, IInv, StreamSoFar
  <2>2. LoopInv'
    <3>1. CASE pc' = pc
      BY <1>1, <2>1, <3>1, LoopUntouched
    <3>2. CASE pc' = "init"
      <4>1. /\ turn'.sigs \in Seq(Tools) /\ logged' \in Nat /\ logged' = logged
            /\ budget' \in [remaining : 0 .. Iterations, grace : BOOLEAN]
            /\ budget'.remaining = budget.remaining
        BY <1>1, <2>1 DEF LoopInv, LoopTyped
      <4> QED BY <1>1, <2>1, <3>2, <4>1, PlaceKeeps
    <3> QED BY <2>1, <3>1, <3>2
  <2> QED BY <2>1, <2>2, MovedKeeps
<1>6. CASE \E s \in 1 .. Servers : McpInitialize(s)
  <2>1. UNCHANGED loopVars /\ UNCHANGED <<step, status, detail, script, cut, batched>>
    BY <1>6 DEF McpInitialize
  <2> QED BY <1>1, <1>2, <2>1, MovedKeeps DEF loopVars
<1>7. CASE \E s \in 1 .. Servers, ok \in BOOLEAN : McpInitialized(s, ok)
  <2>1. /\ UNCHANGED loopVars /\ UNCHANGED <<step, status, script, cut, batched>>
        /\ \E ok \in BOOLEAN : detail' = (detail \/ ~ ok)
    BY <1>7 DEF McpInitialized
  <2>2. detail' \in {detail, TRUE}
    BY <1>1, <2>1
  <2> QED BY <1>1, <1>2, <2>1, <2>2, MovedKeeps DEF loopVars
<1>8. CASE LoopReturns
  BY <1>8, LoopReturnsKeeps
<1>9. CASE LoopThrows
  <2>1. /\ TransitionTo("error") /\ UNCHANGED loopVars /\ UNCHANGED <<script, batched>>
        /\ detail' = TRUE /\ step' = "closing"
    BY <1>9 DEF LoopThrows
  <2> QED BY <1>1, <1>2, <2>1, SettledKeeps DEF loopVars
<1>10. CASE Release("closed") \/ Release("pooled")
  <2>1. /\ UNCHANGED loopVars /\ UNCHANGED <<status, detail, script, cut, batched>>
        /\ step = "closing" /\ step' = "end"
    BY <1>10 DEF Release
  <2> QED BY <1>1, <1>2, <2>1, MovedKeeps DEF loopVars
<1> QED BY <1>3, <1>4, <1>5, <1>6, <1>7, <1>8, <1>9, <1>10 DEF Drive

LEMMA Inductive ==
    ASSUME IInv, [Next]_vars PROVE IInv'
<1>1. LoopInv /\ detail \in BOOLEAN /\ step \in {"boot", "mcp", "loop", "closing", "end"}
  BY DEF IInv, RunTyped
<1>2. CASE LoopStep \/ ToolStep
  BY <1>1, <1>2, LoopKeeps, ReportedKeeps DEF LoopStep, ToolStep
<1>3. CASE Drive
  BY <1>3, DriveKeeps
<1>4. CASE Cancel
  <2>1. /\ TransitionTo("cancelled") /\ aborted' = TRUE
        /\ UNCHANGED <<pc, budget, ctx, turn, calls, logged, step, detail, script, batched>>
    BY <1>4 DEF Cancel
  <2>2. LoopInv'
    BY <1>1, <2>1, LoopUntouched
  <2> QED BY <1>1, <2>1, <2>2, SettledKeeps
<1>5. CASE SignalFires
  <2>1. /\ aborted' = TRUE
        /\ UNCHANGED <<pc, budget, ctx, turn, calls, logged>>
        /\ UNCHANGED <<step, status, detail, script, cut, batched>>
    BY <1>5 DEF SignalFires, runVars
  <2>2. LoopInv'
    BY <1>1, <2>1, LoopUntouched
  <2> QED BY <1>1, <2>1, <2>2, MovedKeeps
<1>6. CASE UNCHANGED vars
  <2>1. /\ UNCHANGED <<pc, budget, ctx, turn, calls, logged, aborted>>
        /\ UNCHANGED <<step, status, detail, script, cut, batched>>
    BY <1>6 DEF vars, loopVars, runVars
  <2>2. LoopInv'
    BY <1>1, <2>1, LoopUntouched
  <2> QED BY <1>1, <2>1, <2>2, MovedKeeps
<1> QED BY <1>2, <1>3, <1>4, <1>5, <1>6 DEF Next

LEMMA InitRun == Init => IInv
<1> SUFFICES ASSUME Init PROVE IInv
  OBVIOUS
<1>1. LoopInv
  BY InitLoop DEF Init
<1>2. /\ step = "boot" /\ status = "running" /\ detail = FALSE /\ batched = FALSE
      /\ script = <<>> /\ logged = 0 /\ pc = "idle"
  BY DEF Init, LoopInit
<1>3. script = Positions(2, logged)
  BY <1>2, PositionsType
<1>4. RunTyped /\ StatusFounded
  BY <1>2 DEF RunTyped, StatusFounded
<1>5. StreamSoFar
  BY <1>2, <1>3 DEF StreamSoFar, StreamIsExact, Terminated
<1> QED BY <1>1, <1>4, <1>5 DEF IInv

-----------------------------------------------------------------------------

\* The inductive invariant holds throughout, for every value of the constants.
THEOREM Invariant == Spec => []IInv
<1>1. Init => IInv
  BY InitRun
<1>2. IInv /\ [Next]_vars => IInv'
  BY Inductive
<1> QED BY <1>1, <1>2, PTL DEF Spec

\* Every request carries a history in which each tool call is answered by the
\* next message: whatever the calls of a batch met (a denial, an abort, a
\* deadline, an error), Results has one entry for each of them, in call order
\* (tool-dispatch and turn handling of runAgentLoop).
THEOREM CallsAnswered == Spec => []EveryCallAnswered
<1>1. IInv => EveryCallAnswered
  <2> SUFFICES ASSUME IInv, pc = "llm",
                      NEW m \in DOMAIN ctx.messages, ctx.messages[m].kind = "calls"
               PROVE  /\ m < Len(ctx.messages)
                      /\ ctx.messages[m + 1] = [kind |-> "results", ids |-> ctx.messages[m].ids]
    BY DEF EveryCallAnswered
  <2>1. Paired(ctx.messages, Len(ctx.messages))
    BY DEF IInv, LoopInv, HistoryPaired, Live
  <2>2. ctx.messages \in Seq(Message)
    BY DEF IInv, LoopInv, LoopTyped, Context
  <2>3. m \in 1 .. Len(ctx.messages)
    BY <2>2
  <2> QED BY <2>1, <2>3 DEF Paired
<1> QED BY <1>1, Invariant, PTL

\* However far the loop has got when the run becomes terminal, the consumer's
\* list holds exactly what was logged by then, and what the loop adds behind a
\* cancel is not handed on (onLoopEvent, deliverUndeliveredEvents).
THEOREM StreamExact == Spec => []StreamIsExact
<1>1. IInv => StreamIsExact
  BY DEF IInv, StreamSoFar
<1> QED BY <1>1, Invariant, PTL

\* The status a run ends with is founded in what the loop did, and an error
\* without a detail has one of three known causes (transitionTo,
\* applyAgentLoopOutput, diagnoseTermination).
THEOREM StatusTrue == Spec => []StatusIsTrue
<1>1. IInv => StatusIsTrue
  BY DEF IInv, StatusFounded, LoopInv, VerdictTrue, StatusIsTrue
<1> QED BY <1>1, Invariant, PTL

-----------------------------------------------------------------------------
(* The doom-loop guard: Inspect folded over the calls of a turn, by          *)
(* induction over their number (over the set of numbers for which it holds). *)

LEMMA LeastNat ==
    ASSUME NEW S, S \subseteq Nat, S # {}
    PROVE  \E n \in S : \A m \in S : n <= m
<1> DEFINE R == OpToRel(<, Nat)
<1>1. \A x, y \in Nat : <<x, y>> \in R <=> x < y
  BY DEF OpToRel
<1>2. IsWellFoundedOn(R, Nat)
  BY NatLessThanWellFounded
<1> HIDE DEF R
<1>3. \E x \in S : \A y \in S : ~ (<<y, x>> \in R)
  BY <1>2, WFMin, Zenon
<1>4. PICK x \in S : \A y \in S : ~ (<<y, x>> \in R)
  BY <1>3
<1>5. \A y \in S : ~ (y < x)
  BY <1>1, <1>4
<1> QED BY <1>4, <1>5

LEMMA SetInduction ==
    ASSUME NEW S, 0 \in S, \A n \in Nat : n \in S => n + 1 \in S
    PROVE  Nat \subseteq S
<1> SUFFICES ASSUME Nat \ S # {} PROVE FALSE
  OBVIOUS
<1>1. PICK n \in Nat \ S : \A m \in Nat \ S : n <= m
  BY LeastNat, Zenon
<1>2. n # 0 /\ n - 1 \in Nat
  BY <1>1
<1>3. n - 1 \in S
  BY <1>1, <1>2
<1>4. (n - 1) + 1 = n
  BY <1>1
<1> QED BY <1>1, <1>2, <1>3, <1>4

Seen(streak) == [sig |-> streak.sig, count |-> streak.count, verdict |-> "ok"]

(* iter is the fold over the calls whose places are in a subset of 1..n.     *)
Folding(iter, n, base, sigs) ==
    iter = [s \in SUBSET (1 .. n) |->
              IF s = {} THEN base ELSE Inspect(iter[s \ {Max(s)}], sigs[Max(s)])]

LEMMA VerdictFolds ==
    ASSUME NEW streak, NEW sigs \in Seq(Tools)
    PROVE  FirstDoomLoopVerdict(streak, sigs)
             = (CHOOSE iter : Folding(iter, Len(sigs), Seen(streak), sigs))[1 .. Len(sigs)]
<1>1. DOMAIN sigs = 1 .. Len(sigs)
  OBVIOUS
<1> QED BY <1>1 DEF FirstDoomLoopVerdict, FoldLeft, MapThenFoldSet, Folding, Seen

LEMMA MaxIsLast ==
    ASSUME NEW n \in Nat, NEW s \in SUBSET (1 .. n + 1), n + 1 \in s
    PROVE  Max(s) = n + 1
<1>1. \A y \in s : n + 1 >= y
  OBVIOUS
<1>2. \A x \in s : (\A y \in s : x >= y) => x = n + 1
  OBVIOUS
<1> QED BY <1>1, <1>2 DEF Max

LEMMA FoldingGrows ==
    ASSUME NEW n \in Nat, NEW base, NEW sigs, NEW iter, Folding(iter, n, base, sigs)
    PROVE  \E next : Folding(next, n + 1, base, sigs)
<1> DEFINE m == n + 1
           next == [s \in SUBSET (1 .. m) |->
                      IF m \in s THEN Inspect(iter[s \ {m}], sigs[m]) ELSE iter[s]]
           then(s) == IF s = {} THEN base ELSE Inspect(next[s \ {Max(s)}], sigs[Max(s)])
<1>1. ASSUME NEW s \in SUBSET (1 .. m) PROVE next[s] = then(s)
  <2>1. CASE m \in s
    <3>1. Max(s) = m /\ s # {}
      BY <2>1, MaxIsLast
    <3>2. s \ {m} \in SUBSET (1 .. m) /\ m \notin s \ {m}
      OBVIOUS
    <3>3. next[s] = Inspect(iter[s \ {m}], sigs[m])
      BY <2>1
    <3>4. next[s \ {m}] = iter[s \ {m}]
      BY <3>2
    <3> HIDE DEF next
    <3> QED BY <3>1, <3>3, <3>4
  <2>2. CASE m \notin s
    <3>1. s \in SUBSET (1 .. n)
      BY <2>2
    <3>2. next[s] = iter[s]
      BY <2>2
    <3>3. iter[s] = IF s = {} THEN base ELSE Inspect(iter[s \ {Max(s)}], sigs[Max(s)])
      BY <3>1 DEF Folding
    <3>4. s \ {Max(s)} \in SUBSET (1 .. m) /\ m \notin s \ {Max(s)}
      BY <2>2
    <3>5. next[s \ {Max(s)}] = iter[s \ {Max(s)}]
      BY <3>4
    <3> HIDE DEF next
    <3> QED BY <3>2, <3>3, <3>5
  <2> QED BY <2>1, <2>2
<1>2. next = [s \in SUBSET (1 .. m) |-> next[s]]
  OBVIOUS
<1>3. next = [s \in SUBSET (1 .. m) |-> then(s)]
  <2> HIDE DEF next, then, m
  <2> QED BY <1>1, <1>2
<1>4. Folding(next, m, base, sigs)
  <2> HIDE DEF next, m
  <2> QED BY <1>3 DEF Folding
<1> HIDE DEF next
<1> QED BY <1>4

LEMMA FoldingExists ==
    ASSUME NEW n \in Nat, NEW base, NEW sigs
    PROVE  \E iter : Folding(iter, n, base, sigs)
<1> DEFINE S == {m \in Nat : \E iter : Folding(iter, m, base, sigs)}
<1>1. 0 \in S
  <2> DEFINE none == [s \in SUBSET (1 .. 0) |-> base]
  <2>1. \A s \in SUBSET (1 .. 0) : s = {}
    OBVIOUS
  <2>2. Folding(none, 0, base, sigs)
    BY <2>1 DEF Folding
  <2> HIDE DEF none
  <2> QED BY <2>2
<1>2. ASSUME NEW m \in Nat, m \in S PROVE m + 1 \in S
  BY <1>2, FoldingGrows
<1> HIDE DEF S
<1>3. n \in S
  BY <1>1, <1>2, SetInduction
<1> QED BY <1>3 DEF S

(* A streak that has not reached the hard threshold, or has just reached it. *)
Counted(v) == v.count \in 0 .. HardAt /\ (v.verdict # "hard" => v.count < HardAt)

LEMMA InspectCounts ==
    ASSUME NEW v, Counted(v), NEW sig
    PROVE  Counted(Inspect(v, sig))
BY LoopAssumption DEF Counted, Inspect

LEMMA VerdictCounts ==
    ASSUME NEW streak, streak.count \in 0 .. HardAt, streak.count < HardAt,
           NEW sigs \in Seq(Tools)
    PROVE  Counted(FirstDoomLoopVerdict(streak, sigs))
<1> DEFINE n == Len(sigs)
           base == Seen(streak)
           iter == CHOOSE f : Folding(f, n, base, sigs)
           S == {m \in Nat : m <= n => Counted(iter[1 .. m])}
<1>1. n \in Nat /\ Counted(base)
  BY DEF Seen, Counted
<1> HIDE DEF n, base
<1>2. Folding(iter, n, base, sigs)
  BY <1>1, FoldingExists
<1> HIDE DEF iter
<1>3. \A s \in SUBSET (1 .. n) :
         iter[s] = IF s = {} THEN base ELSE Inspect(iter[s \ {Max(s)}], sigs[Max(s)])
  BY <1>2 DEF Folding
<1>4. 0 \in S
  <2>1. 1 .. 0 = {} /\ {} \in SUBSET (1 .. n)
    OBVIOUS
  <2>2. iter[1 .. 0] = base
    BY <1>3, <2>1
  <2> QED BY <1>1, <2>2
<1>5. ASSUME NEW m \in Nat, m \in S PROVE m + 1 \in S
  <2> SUFFICES ASSUME m + 1 <= n PROVE Counted(iter[1 .. m + 1])
    OBVIOUS
  <2>1. /\ 1 .. m + 1 \in SUBSET (1 .. n) /\ m + 1 \in 1 .. m + 1
        /\ (1 .. m + 1) \ {m + 1} = 1 .. m /\ 1 .. m + 1 # {}
    BY <1>1
  <2>2. Max(1 .. m + 1) = m + 1
    BY <2>1, MaxIsLast
  <2>3. iter[1 .. m + 1] = Inspect(iter[1 .. m], sigs[m + 1])
    BY <1>3, <2>1, <2>2
  <2>4. Counted(iter[1 .. m])
    BY <1>1, <1>5
  <2> QED BY <2>3, <2>4, InspectCounts
<1> HIDE DEF S
<1>6. n \in S
  BY <1>1, <1>4, <1>5, SetInduction
<1>7. Counted(iter[1 .. n])
  BY <1>1, <1>6 DEF S
<1> QED BY <1>7, VerdictFolds DEF iter, n, base

-----------------------------------------------------------------------------
(* The bounds: what the type of the loop and of the run adds to IInv.        *)

Clients == {"none", "starting", "tried", "closed", "pooled"}

\* The streak has room for another call as long as the loop goes on.
StreakBounded == ctx.streak.count \in 0 .. HardAt /\ (pc \in Live => ctx.streak.count < HardAt)

PermitsBounded ==
    /\ concurrent \in {1, MaxCalls}
    /\ IsFiniteSet(Batch)
    /\ Cardinality(InFlight) <= concurrent

RunBounded ==
    /\ mcp \in [1 .. Servers -> Clients]
    /\ cut \in Nat /\ cut <= logged
    /\ batched => logged >= 2

Bounds == StreakBounded /\ PermitsBounded /\ RunBounded

\* No call is in flight in an empty batch, nor in one whose calls all wait.
LEMMA NoneInFlight ==
    ASSUME NEW f, \A i \in DOMAIN f : f[i].phase = "queued"
    PROVE  Cardinality({i \in DOMAIN f : f[i].phase \in {"hooks", "racing", "ran"}}) = 0
<1>1. {i \in DOMAIN f : f[i].phase \in {"hooks", "racing", "ran"}} = {}
  OBVIOUS
<1> QED BY <1>1, FS_EmptySet

LEMMA EndTurnBounds ==
    ASSUME PermitsBounded, UNCHANGED concurrent, NEW decision, NEW c, EndTurn(decision, c)
    PROVE  PermitsBounded'
<1>1. calls' = <<>> /\ DOMAIN <<>> = {}
  BY DEF EndTurn
<1>2. Batch' = {} /\ InFlight' = {}
  BY <1>1 DEF Batch, InFlight
<1>3. concurrent \in {1, MaxCalls} /\ concurrent \in Nat
  BY LoopAssumption DEF PermitsBounded
<1> QED BY <1>2, <1>3, FS_EmptySet DEF PermitsBounded

LEMMA EndTurnStreak ==
    ASSUME NEW c, "streak" \in DOMAIN c, NEW decision, EndTurn(decision, c)
    PROVE  /\ ctx'.streak = c.streak
           /\ decision \in {"done", "error"} => pc' = "ended"
<1> DEFINE d == [c EXCEPT !.last = decision]
<1>1. "streak" \in DOMAIN d /\ d.streak = c.streak
  OBVIOUS
<1>2. ctx' = d \/ ctx' = [d EXCEPT !.status = "error"] \/ ctx' = [d EXCEPT !.status = "cancelled"]
  BY DEF EndTurn
<1>3. decision \in {"done", "error"} => pc' = "ended"
  BY DEF EndTurn
<1> HIDE DEF d
<1> QED BY <1>1, <1>2, <1>3

LEMMA CallStepBounds ==
    ASSUME PermitsBounded, NEW i, NEW from, NEW to, NEW result, NEW n,
           CallStep(i, from, to, result, n),
           from \in {"hooks", "racing", "ran"} \/ to = "done" \/ Cardinality(InFlight) < concurrent
    PROVE  PermitsBounded'
<1>1. /\ i \in Batch /\ calls[i].phase = from /\ concurrent' = concurrent
      /\ Batch' = Batch /\ calls'[i].phase = to
      /\ \A j \in Batch : j # i => calls'[j] = calls[j]
  BY DEF CallStep, Batch
<1>2. InFlight \subseteq Batch /\ IsFiniteSet(Batch) /\ IsFiniteSet(InFlight)
  BY FS_Subset DEF InFlight, PermitsBounded
<1>3. /\ Cardinality(InFlight) \in Nat /\ Cardinality(InFlight) <= concurrent
      /\ concurrent \in Nat
  BY <1>2, FS_CardinalityType, LoopAssumption DEF PermitsBounded
<1>4. Cardinality(InFlight') <= concurrent
  <2>1. CASE from \in {"hooks", "racing", "ran"} \/ to = "done"
    <3>1. InFlight' \subseteq InFlight
      BY <1>1, <2>1 DEF InFlight
    <3>2. Cardinality(InFlight') <= Cardinality(InFlight) /\ Cardinality(InFlight') \in Nat
      BY <1>2, <3>1, FS_Subset, FS_CardinalityType
    <3> QED BY <1>3, <3>2
  <2>2. CASE Cardinality(InFlight) < concurrent
    <3>1. InFlight' \subseteq InFlight \cup {i}
      BY <1>1 DEF InFlight
    <3>2. /\ IsFiniteSet(InFlight \cup {i})
          /\ Cardinality(InFlight \cup {i}) \in {Cardinality(InFlight), Cardinality(InFlight) + 1}
      BY <1>2, FS_AddElement
    <3>3. /\ Cardinality(InFlight') <= Cardinality(InFlight \cup {i})
          /\ Cardinality(InFlight') \in Nat
      BY <3>1, <3>2, FS_Subset, FS_CardinalityType
    <3> QED BY <1>3, <2>2, <3>2, <3>3
  <2> QED BY <2>1, <2>2
<1> QED BY <1>1, <1>2, <1>4 DEF PermitsBounded

\* Only the end of a batch touches the streak.
LEMMA CallsBounded ==
    ASSUME LoopInv, StreakBounded, PermitsBounded, CallNext \/ ToolNext
    PROVE  StreakBounded' /\ PermitsBounded'
<1>1. PICK i \in Batch :
         \/ CallStarts(i) \/ CallNotListed(i) \/ CallVetoed(i) \/ CallThrows(i)
         \/ ToolStarts(i) \/ ToolCutOff(i) \/ CallEnds(i)
         \/ ToolEnds(i, "ok") \/ ToolEnds(i, "err") \/ ToolTimesOut(i)
  BY DEF CallNext, ToolNext
<1> DEFINE Allowed(from, to) ==
             \/ from \in {"hooks", "racing", "ran"} \/ to = "done"
             \/ Cardinality(InFlight) < concurrent
<1>2. \E from, to, result, n :
         /\ CallStep(i, from, to, result, n) /\ Allowed(from, to)
         /\ pc' \in {pc, "thrown"}
  <2>1. CASE CallStarts(i)
    BY <2>1 DEF CallStarts, Admitted
  <2>2. CASE CallNotListed(i)
    BY <2>2 DEF CallNotListed
  <2>3. CASE CallVetoed(i)
    BY <2>3 DEF CallVetoed
  <2>4. CASE CallThrows(i)
    BY <2>4 DEF CallThrows
  <2>5. CASE ToolStarts(i)
    BY <2>5 DEF ToolStarts
  <2>6. CASE ToolCutOff(i)
    BY <2>6 DEF ToolCutOff
  <2>7. CASE CallEnds(i)
    BY <2>7 DEF CallEnds
  <2>8. CASE ToolEnds(i, "ok") \/ ToolEnds(i, "err")
    BY <2>8 DEF ToolEnds
  <2>9. CASE ToolTimesOut(i)
    BY <2>9 DEF ToolTimesOut
  <2> QED BY <1>1, <2>1, <2>2, <2>3, <2>4, <2>5, <2>6, <2>7, <2>8, <2>9
<1>3. PermitsBounded'
  BY <1>2, CallStepBounds
<1>4. ctx' = ctx /\ pc' \in {pc, "thrown"}
  BY <1>2 DEF CallStep
<1> QED BY <1>3, <1>4 DEF StreakBounded, Live

LEMMA BatchEndsBounded ==
    ASSUME LoopInv, StreakBounded, PermitsBounded, BatchEnds
    PROVE  StreakBounded' /\ PermitsBounded'
<1> DEFINE v == FirstDoomLoopVerdict(ctx.streak, turn.sigs)
           answered == Append(ctx.messages, [kind |-> "results", ids |-> Results])
           failed == \E i \in Batch : IsError(calls[i].result)
           errors == IF failed THEN ctx.toolErrors + 1 ELSE 0
           ms == IF v.verdict = "soft" THEN Append(answered, User) ELSE answered
           st == [sig |-> v.sig, count |-> v.count]
           seen == [ctx EXCEPT !.messages = ms, !.streak = st]
           decision == IF failed /\ errors >= ErrorCap THEN "error" ELSE "continue"
<1>1. /\ pc = "tools" /\ UNCHANGED concurrent
      /\ IF v.verdict = "hard"
         THEN EndTurn("done", [seen EXCEPT !.text = TRUE])
         ELSE EndTurn(decision, [seen EXCEPT !.toolErrors = errors])
  BY DEF BatchEnds
<1>2. Counted(v)
  BY <1>1, VerdictCounts DEF LoopInv, LoopTyped, StreakBounded, Live
<1>3. ctx \in Context({ctx.streak})
  BY DEF LoopInv, LoopTyped
<1> HIDE DEF v, ms, failed
<1>4. st.count = v.count
  OBVIOUS
<1> HIDE DEF st
<1>5. PermitsBounded'
  BY <1>1, EndTurnBounds
<1>6. "streak" \in DOMAIN seen /\ seen.streak = st
  BY <1>3 DEF Context
<1> HIDE DEF seen, errors
<1>7. CASE v.verdict = "hard"
  <2>1. /\ "streak" \in DOMAIN [seen EXCEPT !.text = TRUE]
        /\ [seen EXCEPT !.text = TRUE].streak = st
    BY <1>6
  <2>2. ctx'.streak = st /\ pc' = "ended"
    BY <1>1, <1>7, <2>1, EndTurnStreak
  <2> QED BY <1>2, <1>4, <1>5, <2>2 DEF Counted, StreakBounded, Live
<1>8. CASE v.verdict # "hard"
  <2>1. /\ "streak" \in DOMAIN [seen EXCEPT !.toolErrors = errors]
        /\ [seen EXCEPT !.toolErrors = errors].streak = st
    BY <1>6
  <2>2. ctx'.streak = st
    BY <1>1, <1>8, <2>1, EndTurnStreak
  <2> QED BY <1>2, <1>4, <1>5, <1>8, <2>2 DEF Counted, StreakBounded
<1> QED BY <1>7, <1>8

LEMMA LlmBounded ==
    ASSUME LoopInv, StreakBounded, PermitsBounded, LlmNext
    PROVE  StreakBounded' /\ PermitsBounded'
<1>1. "streak" \in DOMAIN ctx
  BY DEF LoopInv, LoopTyped, Context
<1>2. ASSUME NEW text \in BOOLEAN, NEW sigs, NEW stop, LlmAnswers(text, sigs, stop)
      PROVE  StreakBounded' /\ PermitsBounded'
  <2>1. /\ ctx' = [ctx EXCEPT !.text = ctx.text \/ text] /\ UNCHANGED <<concurrent, calls>>
        /\ pc = "llm" /\ pc' = "reply"
    BY <1>2 DEF LlmAnswers
  <2>2. ctx'.streak = ctx.streak
    BY <1>1, <2>1
  <2> QED BY <2>1, <2>2 DEF StreakBounded, Live, PermitsBounded, Batch, InFlight
<1>3. ASSUME NEW partial \in BOOLEAN,
             LlmThrows(partial) \/ LlmReportsError(partial) \/ LlmAborted
      PROVE  StreakBounded' /\ PermitsBounded'
  <2>1. /\ UNCHANGED concurrent /\ pc = "llm"
        /\ \E c : c \in {[ctx EXCEPT !.error = TRUE, !.text = partial], [ctx EXCEPT !.text = TRUE]}
                  /\ EndTurn("error", c)
    BY <1>3 DEF LlmThrows, LlmReportsError, LlmAborted
  <2>2. PICK c \in {[ctx EXCEPT !.error = TRUE, !.text = partial], [ctx EXCEPT !.text = TRUE]} :
           EndTurn("error", c)
    BY <2>1
  <2>3. "streak" \in DOMAIN c /\ c.streak = ctx.streak
    BY <1>1
  <2>4. ctx'.streak = ctx.streak /\ pc' = "ended"
    BY <2>2, <2>3, EndTurnStreak
  <2> QED BY <2>1, <2>2, <2>4, EndTurnBounds DEF StreakBounded, Live
<1> QED BY <1>2, <1>3 DEF LlmNext

LEMMA ReplyBounded ==
    ASSUME LoopInv, StreakBounded, PermitsBounded, Nudge \/ StopHookAsksForMore \/ Finish
    PROVE  StreakBounded' /\ PermitsBounded'
<1>1. "streak" \in DOMAIN ctx
  BY DEF LoopInv, LoopTyped, Context
<1>2. ASSUME NEW c, NEW decision, "streak" \in DOMAIN c, c.streak = ctx.streak,
             EndTurn(decision, c), pc = "reply", UNCHANGED concurrent
      PROVE  StreakBounded' /\ PermitsBounded'
  <2>1. ctx'.streak = ctx.streak
    BY <1>2, EndTurnStreak
  <2>2. PermitsBounded'
    BY <1>2, EndTurnBounds
  <2> QED BY <1>2, <2>1, <2>2 DEF StreakBounded, Live
<1>3. CASE Nudge
  <2> DEFINE c == [ctx EXCEPT !.nudges = @ + 1, !.messages = Append(@, User)]
  <2>1. "streak" \in DOMAIN c /\ c.streak = ctx.streak
    BY <1>1
  <2>2. EndTurn("continue", c) /\ pc = "reply" /\ UNCHANGED concurrent
    BY <1>3 DEF Nudge
  <2> HIDE DEF c
  <2> QED BY <1>2, <2>1, <2>2
<1>4. CASE StopHookAsksForMore
  <2> DEFINE c == [ctx EXCEPT !.feedbacks = @ + 1, !.messages = Append(@, User)]
  <2>1. "streak" \in DOMAIN c /\ c.streak = ctx.streak
    BY <1>1
  <2>2. EndTurn("continue", c) /\ pc = "reply" /\ UNCHANGED concurrent
    BY <1>4 DEF StopHookAsksForMore, Finishing
  <2> HIDE DEF c
  <2> QED BY <1>2, <2>1, <2>2
<1>5. CASE Finish
  <2> DEFINE c == [ctx EXCEPT !.status = "finished"]
  <2>1. "streak" \in DOMAIN c /\ c.streak = ctx.streak
    BY <1>1
  <2>2. EndTurn("done", c) /\ pc = "reply" /\ UNCHANGED concurrent
    BY <1>5 DEF Finish, Finishing
  <2> HIDE DEF c
  <2> QED BY <1>2, <2>1, <2>2
<1> QED BY <1>3, <1>4, <1>5

LEMMA DispatchBounded ==
    ASSUME LoopInv, StreakBounded, PermitsBounded, Dispatch
    PROVE  StreakBounded' /\ PermitsBounded'
<1> DEFINE ids == [i \in DOMAIN turn.sigs |-> <<Len(ctx.messages), i>>]
<1>1. "streak" \in DOMAIN ctx /\ turn.sigs \in Seq(Tools)
  BY DEF LoopInv, LoopTyped, Context
<1>2. /\ ctx' = [ctx EXCEPT !.messages = Append(@, [kind |-> "calls", ids |-> ids])]
      /\ calls' = [i \in DOMAIN ids |-> [id |-> ids[i], phase |-> "queued", result |-> "none"]]
      /\ pc = "reply" /\ UNCHANGED concurrent
  BY DEF Dispatch
<1>3. DOMAIN ids = 1 .. Len(turn.sigs) /\ Len(turn.sigs) \in Nat
  BY <1>1
<1> HIDE DEF ids
<1>4. ctx'.streak = ctx.streak
  BY <1>1, <1>2
<1>5. DOMAIN calls' = DOMAIN ids /\ \A i \in DOMAIN calls' : calls'[i].phase = "queued"
  BY <1>2
<1>6. IsFiniteSet(Batch')
  BY <1>3, <1>5, FS_Interval DEF Batch
<1>7. Cardinality(InFlight') = 0
  BY <1>5, NoneInFlight DEF InFlight, Batch
<1>8. concurrent' \in {1, MaxCalls} /\ concurrent' \in Nat
  BY <1>2, LoopAssumption DEF PermitsBounded
<1>9. PermitsBounded'
  BY <1>6, <1>7, <1>8 DEF PermitsBounded
<1> QED BY <1>2, <1>4, <1>9 DEF StreakBounded, Live

LEMMA LoopBounded ==
    ASSUME LoopInv, StreakBounded, PermitsBounded, LoopNext \/ ToolNext
    PROVE  StreakBounded' /\ PermitsBounded'
<1>1. "streak" \in DOMAIN ctx
  BY DEF LoopInv, LoopTyped, Context
<1>2. CASE ContextReady \/ ContextFails \/ BeginTurn \/ BudgetExhausted \/ StopHookThrows
  <2>1. UNCHANGED <<concurrent, ctx, calls>> /\ pc \in Live
    BY <1>2 DEF ContextReady, ContextFails, BeginTurn, BudgetExhausted, StopHookThrows,
                Finishing, Live
  <2> QED BY <2>1 DEF StreakBounded, PermitsBounded, Batch, InFlight
<1>3. CASE Finalize \/ \E atLimit, det \in BOOLEAN : BudgetDenies(atLimit, det)
  <2>1. UNCHANGED <<concurrent, calls>> /\ pc' \in {"ended", "returned"}
    BY <1>3 DEF Finalize, BudgetDenies
  <2>2. ctx'.streak = ctx.streak
    BY <1>1, <1>3 DEF Finalize, BudgetDenies
  <2> QED BY <2>1, <2>2 DEF StreakBounded, Live, PermitsBounded, Batch, InFlight
<1> QED BY <1>2, <1>3, CallsBounded, BatchEndsBounded, LlmBounded, ReplyBounded, DispatchBounded
        DEF LoopNext

-----------------------------------------------------------------------------

\* A run becomes terminal at a length the log has.
LEMMA CutBounded ==
    ASSUME logged \in Nat, cut \in Nat, cut <= logged, NEW next, TransitionTo(next)
    PROVE  cut' \in Nat /\ cut' <= logged
BY DEF TransitionTo

LEMMA DriveBounded ==
    ASSUME IInv, RunBounded, Drive \/ Cancel \/ SignalFires
    PROVE  RunBounded' /\ UNCHANGED <<concurrent, ctx, calls>> /\ (pc' \in Live => pc \in Live)
<1>1. /\ logged \in Nat /\ cut \in Nat /\ cut <= logged
      /\ mcp \in [1 .. Servers -> Clients] /\ (batched => logged >= 2)
      /\ (step = "mcp" => pc = "idle")
  BY DEF IInv, LoopInv, LoopTyped, StreamSoFar, RunBounded
<1>2. logged' = logged /\ UNCHANGED <<concurrent, ctx, calls>> /\ (pc' \in Live => pc \in Live)
  BY <1>1 DEF Drive, Cancel, SignalFires, Boot, BuildInputsFails, ExecuteAgentLoop, McpInitialize,
              McpInitialized, LoopReturns, LoopThrows, Release, loopVars, Live
<1>3. cut' = cut \/ \E next : TransitionTo(next)
  BY DEF Drive, Cancel, SignalFires, Boot, BuildInputsFails, ExecuteAgentLoop, McpInitialize,
         McpInitialized, LoopReturns, LoopThrows, Release, runVars
<1>4. cut' \in Nat /\ cut' <= logged
  BY <1>1, <1>3, CutBounded
<1>5. batched' = batched \/ pc = "returned"
  BY DEF Drive, Cancel, SignalFires, Boot, BuildInputsFails, ExecuteAgentLoop, McpInitialize,
         McpInitialized, LoopReturns, LoopThrows, Release, runVars
<1>6. pc = "returned" => logged >= 2
  BY DEF IInv, LoopInv, LogSeeded
<1>7. mcp' \in [1 .. Servers -> Clients]
  BY <1>1 DEF Drive, Cancel, SignalFires, Boot, BuildInputsFails, ExecuteAgentLoop, McpInitialize,
         McpInitialized, LoopReturns, LoopThrows, Release, runVars, Clients
<1> QED BY <1>1, <1>2, <1>4, <1>5, <1>6, <1>7 DEF RunBounded

LEMMA BoundsInductive ==
    ASSUME IInv, Bounds, [Next]_vars PROVE Bounds'
<1>1. LoopInv /\ logged \in Nat
  BY DEF IInv, LoopInv, LoopTyped
<1>2. CASE LoopStep \/ ToolStep
  <2>1. (LoopNext \/ ToolNext) /\ UNCHANGED <<mcp, cut, batched>>
    BY <1>2 DEF LoopStep, ToolStep, Reported
  <2>2. logged' \in Nat /\ logged' >= logged
    BY <1>1, <2>1, LoopKeeps DEF LogGrows
  <2>3. StreakBounded' /\ PermitsBounded'
    BY <1>1, <2>1, LoopBounded DEF Bounds
  <2>4. RunBounded'
    BY <1>1, <2>1, <2>2 DEF Bounds, RunBounded
  <2> QED BY <2>3, <2>4 DEF Bounds
<1>3. CASE Drive \/ Cancel \/ SignalFires
  <2>1. RunBounded' /\ UNCHANGED <<concurrent, ctx, calls>> /\ (pc' \in Live => pc \in Live)
    BY <1>3, DriveBounded DEF Bounds
  <2> QED BY <2>1 DEF Bounds, StreakBounded, PermitsBounded, Batch, InFlight
<1>4. CASE UNCHANGED vars
  BY <1>4 DEF vars, loopVars, runVars, Bounds, StreakBounded, PermitsBounded, RunBounded,
              Batch, InFlight
<1> QED BY <1>2, <1>3, <1>4 DEF Next

LEMMA InitBounds == Init => Bounds
<1> SUFFICES ASSUME Init PROVE Bounds
  OBVIOUS
<1>1. /\ concurrent \in {1, MaxCalls} /\ ctx = FreshContext /\ calls = <<>> /\ logged = 0
      /\ mcp = [s \in 1 .. Servers |-> "none"] /\ cut = 0 /\ batched = FALSE
  BY DEF Init, LoopInit
<1>2. ctx.streak.count = 0 /\ 0 < HardAt /\ HardAt \in Nat /\ concurrent \in Nat
  BY <1>1, LoopAssumption DEF FreshContext
<1>3. Batch = {} /\ InFlight = {}
  BY <1>1 DEF Batch, InFlight
<1>4. PermitsBounded
  BY <1>1, <1>2, <1>3, FS_EmptySet DEF PermitsBounded
<1> QED BY <1>1, <1>2, <1>4 DEF Bounds, StreakBounded, RunBounded, Clients

\* What is handed on is in the log: the list is known exactly, from StreamSoFar.
LEMMA ScriptInLog ==
    ASSUME IInv, RunBounded PROVE Range(script) \subseteq 1 .. logged
<1>1. logged \in Nat /\ cut \in Nat /\ cut <= logged /\ (batched => logged >= 2)
  BY DEF IInv, LoopInv, LoopTyped, RunBounded
<1>2. CASE ~ Terminated
  <2>1. script = Positions(2, logged)
    BY <1>2 DEF IInv, StreamSoFar
  <2> QED BY <1>1, <2>1 DEF Range, Positions
<1>3. CASE Terminated
  <2> DEFINE p == Positions(2, cut)
             q == IF batched THEN <<1, 2>> ELSE <<>>
  <2>1. script = p \o q
    BY <1>3 DEF IInv, StreamSoFar, StreamIsExact
  <2>2. p \in Seq(Nat) /\ \A k \in DOMAIN p : p[k] \in 1 .. logged
    BY <1>1, PositionsType DEF Positions
  <2>3. q \in Seq(Nat) /\ \A k \in DOMAIN q : q[k] \in 1 .. logged
    <3>1. CASE batched
      BY <1>1, <3>1
    <3>2. CASE ~ batched
      BY <3>2
    <3> QED BY <3>1, <3>2
  <2> HIDE DEF p, q
  <2> DEFINE j == p \o q
  <2>4. /\ DOMAIN j = 1 .. Len(p) + Len(q)
        /\ \A k \in 1 .. Len(p) + Len(q) : j[k] = IF k <= Len(p) THEN p[k] ELSE q[k - Len(p)]
    <3>1. /\ p \o q \in Seq(Nat) /\ Len(p \o q) = Len(p) + Len(q)
          /\ \A k \in 1 .. Len(p) + Len(q) :
                 (p \o q)[k] = IF k <= Len(p) THEN p[k] ELSE q[k - Len(p)]
      BY <2>2, <2>3, ConcatProperties
    <3> QED BY <3>1
  <2> HIDE DEF j
  <2>5. ASSUME NEW k \in DOMAIN j PROVE j[k] \in 1 .. logged
    <3>1. /\ Len(p) \in Nat /\ Len(q) \in Nat /\ k \in 1 .. Len(p) + Len(q)
          /\ DOMAIN p = 1 .. Len(p) /\ DOMAIN q = 1 .. Len(q)
      BY <2>2, <2>3, <2>4
    <3>2. CASE k <= Len(p)
      BY <2>2, <2>4, <3>1, <3>2
    <3>3. CASE ~ (k <= Len(p))
      <4>1. k - Len(p) \in DOMAIN q /\ j[k] = q[k - Len(p)]
        BY <2>4, <3>1, <3>3
      <4> QED BY <2>3, <4>1
    <3> QED BY <3>2, <3>3
  <2>6. script = j
    BY <2>1 DEF j
  <2> QED BY <2>5, <2>6 DEF Range
<1> QED BY <1>2, <1>3

\* The type of the loop and of the run: the streak of the doom-loop guard stays
\* under its threshold as long as the loop goes on, no more calls are in flight
\* than the send allows, and only what is in the log is handed to the consumer
\* (DoomLoopTracker.inspect, mapWithConcurrency, onLoopEvent).
THEOREM TypeCorrect == Spec => []TypeOK
<1>1. Init => Bounds
  BY InitBounds
<1>2. IInv /\ Bounds /\ [Next]_vars => Bounds'
  BY BoundsInductive
<1>3. IInv /\ Bounds => TypeOK
  <2> SUFFICES ASSUME IInv, Bounds PROVE TypeOK
    OBVIOUS
  <2>1. LoopTypeOK
    BY DEF IInv, LoopInv, LoopTyped, Context, Live, Bounds, StreakBounded, PermitsBounded,
           LoopTypeOK
  <2>2. Range(script) \subseteq 1 .. logged
    BY ScriptInLog DEF Bounds
  <2> QED BY <2>1, <2>2 DEF TypeOK, IInv, RunTyped, Bounds, RunBounded, Clients
<1> QED BY <1>1, <1>2, <1>3, Invariant, PTL DEF Spec
=============================================================================
