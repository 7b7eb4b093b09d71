------------------------- MODULE SessionTranscripts -------------------------
(***************************************************************************)
(* The session of one agent: the in-memory history that a send reads       *)
(* (internal/session/agent-session.ts, session-cache.ts), the transcript   *)
(* on disk, and the chain of write jobs that carries one to the other and  *)
(* compacts it.                                                            *)
(*                                                                         *)
(* The maps are shared by all agents of the process.  The other agents act *)
(* on this one in two ways, both possible at any time: their flush takes   *)
(* all entries off pendingWrites, and their messages push this session out *)
(* of the cache.  They are the actions OthersFlush and OthersAppend.       *)
(*                                                                         *)
(* The agent has one handle at a time, which its writer lease stands for.  *)
(* A send holds the send mutex from its start to the end of its flush; one *)
(* that waits for the mutex has no effect, so the queue is left out.       *)
(* Agent.compact and Agent.injectSessionTurn need no handle and take no    *)
(* mutex, only the chain of writes.                                        *)
(*                                                                         *)
(* A step of the model is a synchronous stretch of JavaScript between two  *)
(* awaits, or the effect of one read or append.  A turn (its user message, *)
(* its answer and its tool blocks) is a number, and so is an injected      *)
(* pair.  A summary stands for the turns that were summarised.             *)
(***************************************************************************)
EXTENDS Naturals, Sequences, SequencesExt

CONSTANTS MaxSends,    (* bound on the sends                                 *)
          MaxEdits,    (* bound on the compactions and injections            *)
          MaxFaults,   (* bound on the crashes and failures                  *)
          MaxOthers    (* bound on the interferences of other agents         *)

ASSUME SessionAssumption == /\ MaxSends \in Nat /\ MaxEdits \in Nat
                            /\ MaxFaults \in Nat /\ MaxOthers \in Nat

VARIABLES disk,          (* the records of the transcript                    *)
          cache,         (* the agent's history in sessions                  *)
          hydrated,      (* its mark in hydratedKeys                         *)
          pendingWrite,  (* its entry in pendingWrites: the last job of the  *)
                         (* chain, 0 for none                                *)
          jobs,          (* write jobs that have not settled                 *)
          handle,        (* the life of the agent's handle                   *)
          cycle,         (* the send that holds the mutex                    *)
          awaited,       (* the job that the flush of the cycle or of        *)
                         (* dispose awaits, 0 for none                       *)
          sends, edits,  (* calls so far; their sum numbers the turns        *)
          faults,        (* history: number of crashes and failures          *)
          others,        (* history: number of interferences                 *)
          blind,         (* history: the mark was left by a read that failed *)
                         (* or came before a stolen write                    *)
          stolen,        (* history: an unsettled write was dropped from the *)
                         (* map by others, or by a dispose that ends         *)
          spoiled        (* history: a write was enqueued on an empty map    *)
                         (* beside an unsettled one, or a compaction torn    *)

memory == <<cache, hydrated>>
calls == <<sends, edits>>
history == <<faults, others, blind, stolen, spoiled>>
vars == <<disk, memory, pendingWrite, jobs, handle, cycle, awaited, calls, history>>

\* A record holds the turns it stands for; its parent is an earlier record of
\* the transcript, or 0 for a root.
Records == [kind: {"turn", "inject", "compact"}, adds: Seq(Nat), parent: Nat]

\* A job waits for its predecessor (and then to read), has read the first
\* records of the transcript, or has appended.  "auto" is the compaction that
\* a turn's job may go on to, unless the run failed and the turn is partial.
Jobs == [id: Nat \ {0}, kind: {"turn", "auto", "compact", "inject"}, partial: BOOLEAN,
         after: Nat, phase: {"queued", "read", "appended"}, seen: Nat]

NewJob(id, kind, partial, tail) ==
    [id |-> id, kind |-> kind, partial |-> partial, after |-> tail, phase |-> "queued", seen |-> 0]

Idle == [at |-> "idle", turn |-> 0]

Init == /\ disk = <<>> /\ cache = <<>> /\ hydrated = FALSE
        /\ pendingWrite = 0 /\ jobs = {}
        /\ handle = "none" /\ cycle = Idle /\ awaited = 0
        /\ sends = 0 /\ edits = 0
        /\ faults = 0 /\ others = 0 /\ blind = FALSE /\ stolen = FALSE /\ spoiled = FALSE

Fault == faults < MaxFaults /\ faults' = faults + 1

Interference == others < MaxOthers /\ others' = others + 1

\* A job joins the chain, of which the map knows the end.
Enqueue(id, kind, partial) ==
    /\ jobs' = jobs \cup {NewJob(id, kind, partial, pendingWrite)}
    /\ spoiled' = (spoiled \/ (pendingWrite = 0 /\ jobs # {}))

-----------------------------------------------------------------------------

\* reconstructMessages: from the latest leaf, which is the last record, up to
\* a root.
Replay(records) ==
    LET upTo[i \in 0..Len(records)] ==
            IF i = 0 THEN <<>> ELSE upTo[records[i].parent] \o records[i].adds
    IN  upTo[Len(records)]

\* appendSessionMessage: a message of the turn enters the history.
AppendSessionMessage(turn) ==
    cache' = IF turn \in ToSet(cache) THEN cache ELSE Append(cache, turn)

InvalidateSessionCache == cache' = <<>> /\ hydrated' = FALSE

\* Fault: the hydration mark stays.
ForgetBookkeeping_KeepsMark ==
    /\ UNCHANGED hydrated
    /\ pendingWrite' = 0
    /\ stolen' = (stolen \/ pendingWrite # 0)

\* The mark and the tail of the chain are erased, by an eviction or at the end
\* of dispose (discardSession).
ForgetBookkeeping ==
    /\ hydrated' = FALSE
    /\ pendingWrite' = 0
    /\ stolen' = (stolen \/ pendingWrite # 0)

\* LocalAgent.initialize, with the lease: hydrateSession marks the agent and
\* reads, unless it is marked already.
Initialize ==
    /\ handle = "none"
    /\ handle' = IF hydrated THEN "live" ELSE "hydrating"
    /\ hydrated' = TRUE
    /\ UNCHANGED <<disk, cache, pendingWrite, jobs, cycle, awaited, calls, history>>

\* The read is back: what is on disk, if anything, replaces the history.
Hydrated ==
    /\ handle = "hydrating"
    /\ handle' = "live"
    /\ cache' = IF Replay(disk) = <<>> THEN cache ELSE Replay(disk)
    /\ blind' = stolen
    /\ UNCHANGED <<disk, hydrated, pendingWrite, jobs, cycle, awaited, calls, faults, stolen, spoiled, others>>

\* It throws: the lease is given back, the mark stays.
HydrationFails ==
    /\ handle = "hydrating" /\ Fault
    /\ handle' = "none"
    /\ blind' = TRUE
    /\ UNCHANGED <<disk, memory, pendingWrite, jobs, cycle, awaited, calls, stolen, spoiled, others>>

-----------------------------------------------------------------------------

\* executeSendLocked: the history is copied for the model and the user message
\* appended.  (A send that is blocked or throws before has no effect here.)
SendStarts ==
    /\ handle = "live" /\ cycle = Idle /\ sends < MaxSends
    /\ sends' = sends + 1
    /\ cycle' = [at |-> "running", turn |-> sends + edits + 1]
    /\ AppendSessionMessage(sends + edits + 1)
    /\ UNCHANGED <<disk, hydrated, pendingWrite, jobs, handle, awaited, edits, history>>

\* It throws before there is a run: the user message stays in the history.
SendFails ==
    /\ cycle.at = "running" /\ Fault
    /\ cycle' = Idle
    /\ UNCHANGED <<disk, memory, pendingWrite, jobs, handle, awaited, calls, blind, stolen, spoiled, others>>

\* runPostRunLifecycle: the run ended, its answer enters the history.
RunEnds ==
    /\ cycle.at = "running"
    /\ cycle' = [cycle EXCEPT !.at = "answered"]
    /\ AppendSessionMessage(cycle.turn)
    /\ UNCHANGED <<disk, hydrated, pendingWrite, jobs, handle, awaited, calls, history>>

\* Fault: the turn's job does not wait for the one before it.
PersistTurnToTranscript_Unchained ==
    /\ cycle.at = "answered"
    /\ cycle' = [cycle EXCEPT !.at = "summary"]
    /\ jobs' = jobs \cup {NewJob(cycle.turn, "turn", FALSE, 0)}
    /\ pendingWrite' = cycle.turn
    /\ UNCHANGED <<disk, memory, handle, awaited, calls, history>>

\* The turn joins the chain of writes; session summary and hook follow.
PersistTurnToTranscript ==
    /\ cycle.at = "answered"
    /\ cycle' = [cycle EXCEPT !.at = "summary"]
    /\ Enqueue(cycle.turn, "turn", FALSE)
    /\ pendingWrite' = cycle.turn
    /\ UNCHANGED <<disk, memory, handle, awaited, calls, faults, blind, stolen, others>>

\* Fault: the flush does not wait for what it has taken off the map.
TakeWrites_Unawaited(tail) == awaited' = 0 /\ pendingWrite' = 0

\* A round of flushSessionWrites: the tail leaves the map and this flush
\* awaits it.  (So do the tails of the other agents.)
TakeWrites(tail) == awaited' = tail /\ pendingWrite' = 0

\* The run threw: what it produced joins the chain without compaction, and the
\* flush begins.  (Without a conversation there is nothing to write.)
RunFails ==
    /\ cycle.at = "running" /\ Fault
    /\ cycle' = [cycle EXCEPT !.at = "flushing"]
    /\ \/ Enqueue(cycle.turn, "turn", TRUE) /\ TakeWrites(cycle.turn)
       \/ TakeWrites(pendingWrite) /\ UNCHANGED <<jobs, spoiled>>
    /\ UNCHANGED <<disk, memory, handle, calls, blind, stolen, others>>

\* Fault: dispose does not wait for the send mutex.
FlushStarts_NoBarrier ==
    /\ \/ cycle.at = "summary" /\ cycle' = [cycle EXCEPT !.at = "flushing"] /\ UNCHANGED handle
       \/ handle = "disposing" /\ handle' = "flushing" /\ UNCHANGED cycle
    /\ TakeWrites(pendingWrite)
    /\ UNCHANGED <<disk, memory, jobs, calls, history>>

\* The cycle flushes; so does dispose, once it has passed the send mutex.
FlushStarts ==
    /\ \/ cycle.at = "summary" /\ cycle' = [cycle EXCEPT !.at = "flushing"] /\ UNCHANGED handle
       \/ handle = "disposing" /\ cycle = Idle /\ handle' = "flushing" /\ UNCHANGED cycle
    /\ TakeWrites(pendingWrite)
    /\ UNCHANGED <<disk, memory, jobs, calls, history>>

\* What the flush awaited has settled: it looks again, and returns when the
\* map is empty.
FlushGoesOn ==
    /\ cycle.at = "flushing" \/ handle = "flushing"
    /\ awaited = 0
    /\ IF pendingWrite # 0
       THEN TakeWrites(pendingWrite) /\ UNCHANGED <<cycle, handle>>
       ELSE /\ cycle' = Idle
            /\ handle' = IF handle = "flushing" THEN "releasing" ELSE handle
            /\ UNCHANGED <<awaited, pendingWrite>>
    /\ UNCHANGED <<disk, memory, jobs, calls, history>>

\* dispose: no send starts any more, and the run in flight is aborted.
Dispose ==
    /\ handle = "live"
    /\ handle' = "disposing"
    /\ UNCHANGED <<disk, memory, pendingWrite, jobs, cycle, awaited, calls, history>>

\* The lease is released and discardSession erases the bookkeeping, not the
\* history.
Disposed ==
    /\ handle = "releasing"
    /\ handle' = "none"
    /\ ForgetBookkeeping
    /\ UNCHANGED <<disk, cache, jobs, cycle, awaited, calls, faults, blind, spoiled, others>>

\* Another agent's flush takes this agent's tail along.
OthersFlush ==
    /\ pendingWrite # 0 /\ Interference
    /\ pendingWrite' = 0
    /\ stolen' = TRUE
    /\ UNCHANGED <<disk, memory, jobs, handle, cycle, awaited, calls, faults, blind, spoiled>>

\* Another agent's message is one too many for the cache (enforceCeiling), and
\* this session has gone longest without one.
OthersAppend ==
    /\ cache # <<>> /\ Interference
    /\ cache' = <<>>
    /\ ForgetBookkeeping
    /\ UNCHANGED <<disk, jobs, handle, cycle, awaited, calls, faults, blind, spoiled>>

-----------------------------------------------------------------------------

\* Agent.compact and Agent.injectSessionTurn, through enqueueSessionWrite.
EnqueueSessionWrite(kind) ==
    LET id == sends + edits + 1
    IN  /\ edits < MaxEdits
        /\ edits' = edits + 1
        /\ Enqueue(id, kind, FALSE)
        /\ pendingWrite' = id
        /\ UNCHANGED <<disk, memory, handle, cycle, awaited, sends, faults, blind, stolen, others>>

Becomes(j, k) == jobs' = (jobs \ {j}) \cup {k}

\* The job's promise settles, for the job behind it and for the flush that
\* awaits it.  (An entry of the map that has settled is as good as none.)
Settle(j) ==
    /\ jobs' = {IF k.after = j.id THEN [k EXCEPT !.after = 0] ELSE k : k \in jobs \ {j}}
    /\ pendingWrite' = IF pendingWrite = j.id THEN 0 ELSE pendingWrite
    /\ awaited' = IF awaited = j.id THEN 0 ELSE awaited
    /\ stolen' = (stolen /\ jobs # {j})

\* The job before it has settled; it reads the transcript.
JobReads(j) ==
    /\ j.phase = "queued" /\ j.after = 0
    /\ Becomes(j, [j EXCEPT !.phase = "read", !.seen = Len(disk)])
    /\ UNCHANGED <<disk, memory, pendingWrite, handle, cycle, awaited, calls, history>>

\* What a job appends: persistTurn and injectSessionTurn chain onto the last
\* record they read, a compaction starts a new root for what it summarised.
Delta(j) ==
    IF j.kind \in {"turn", "inject"}
    THEN [kind |-> j.kind, adds |-> <<j.id>>, parent |-> j.seen]
    ELSE [kind |-> "compact", adds |-> Replay(SubSeq(disk, 1, j.seen)), parent |-> 0]

JobAppends(j) ==
    /\ j.phase = "read"
    /\ disk' = Append(disk, Delta(j))
    /\ Becomes(j, [j EXCEPT !.phase = "appended"])
    /\ UNCHANGED <<memory, pendingWrite, handle, cycle, awaited, calls, history>>

\* A read, a summary or an append fails; the error of a turn is swallowed.  A
\* compaction whose append is cut short leaves the bare boundary.
JobFails(j) ==
    /\ j.phase = "read" /\ Fault
    /\ Settle(j)
    /\ \/ UNCHANGED <<disk, spoiled>>
       \/ /\ j.kind \in {"auto", "compact"}
          /\ disk' = Append(disk, [kind |-> "compact", adds |-> <<>>, parent |-> 0])
          /\ spoiled' = TRUE
    /\ UNCHANGED <<memory, handle, cycle, calls, blind, others>>

\* The append is done.  A compaction or an injection invalidates the history
\* in memory; a turn may go on to compact, in the same job.
JobSettles(j) ==
    /\ j.phase = "appended"
    /\ \/ j.kind = "turn" /\ Settle(j) /\ UNCHANGED memory
       \/ /\ j.kind = "turn" /\ ~j.partial
          /\ Becomes(j, NewJob(j.id, "auto", FALSE, 0))
          /\ UNCHANGED <<memory, pendingWrite, awaited, stolen>>
       \/ j.kind # "turn" /\ Settle(j) /\ InvalidateSessionCache
    /\ UNCHANGED <<disk, handle, cycle, calls, faults, blind, spoiled, others>>

\* The process dies, and another starts: the transcript is all that is left.
Crash ==
    /\ Fault
    /\ InvalidateSessionCache
    /\ pendingWrite' = 0 /\ jobs' = {} /\ handle' = "none" /\ cycle' = Idle /\ awaited' = 0
    /\ blind' = FALSE /\ stolen' = FALSE
    /\ UNCHANGED <<disk, calls, spoiled, others>>

Next == \/ Initialize \/ Hydrated \/ HydrationFails
        \/ SendStarts \/ SendFails \/ RunEnds \/ RunFails \/ PersistTurnToTranscript
        \/ FlushStarts \/ FlushGoesOn \/ Dispose \/ Disposed
        \/ OthersFlush \/ OthersAppend
        \/ \E kind \in {"compact", "inject"} : EnqueueSessionWrite(kind)
        \/ \E j \in jobs : JobReads(j) \/ JobAppends(j) \/ JobFails(j) \/ JobSettles(j)
        \/ Crash

Spec == Init /\ [][Next]_vars

-----------------------------------------------------------------------------

\* Type of the session's state (agent-session.ts, session-cache.ts): a parent
\* comes before its record, a send runs on a handle that is not closed, and
\* the tail of the chain and the awaited write are unsettled jobs.
TypeOK ==
    /\ \A i \in DOMAIN disk : disk[i] \in Records /\ disk[i].parent < i
    /\ cache \in Seq(1..sends + edits)
    /\ hydrated \in BOOLEAN
    /\ jobs \subseteq Jobs
    /\ {pendingWrite, awaited} \subseteq {0} \cup {j.id : j \in jobs}
    /\ handle \in {"none", "hydrating", "live", "disposing", "flushing", "releasing"}
    /\ cycle.at \in {"idle", "running", "answered", "summary", "flushing"}
    /\ cycle # Idle => handle \in {"live", "disposing"}

\* The turns of a transcript, in the order in which they were appended.
Written(records) ==
    FlattenSeq([i \in DOMAIN records |-> IF records[i].kind = "compact" THEN <<>> ELSE records[i].adds])

\* The records of the turns of sends, each with its turn.
SentAt(records) == {i \in DOMAIN records : records[i].kind = "turn"}

\* The replay of the transcript misses, repeats and reorders no turn, whatever
\* is compacted, injected, lost to a failing disk or cut off by a crash, and
\* the turns of the sends are in their order.  It is no longer so once a chain
\* of writes was broken: by the flush of another agent, by a compaction or an
\* injection that finds the map emptied by the flush of a send whose write is
\* still going on, or by a compaction of which only the boundary landed.
ReplayIsExact ==
    ~spoiled =>
        /\ Replay(disk) = Written(disk)
        /\ \A i, k \in SentAt(disk) : i < k => disk[i].adds[1] < disk[k].adds[1]

\* Once dispose has released the lease no turn of the agent is still to be
\* written, nor the compaction it set off; unless another agent's flush or
\* message took the write off the map, and dispose found nothing to wait for.
DisposeDrains ==
    handle = "none" /\ ~stolen => \A j \in jobs : j.kind \in {"compact", "inject"}

\* The hydration mark of a live handle means that its history has every turn
\* the transcript replays, through evictions, invalidations, crashes and new
\* handles: a send without its past is one without a mark.  (A mark left by a
\* read that failed means nothing; a write that was still going on when the
\* handle opened may be missing; and an injection is invalidated for only
\* after it landed.)
MarkMeansLoaded ==
    hydrated /\ handle \in {"live", "disposing"} /\ ~blind =>
        \/ ToSet(Replay(disk)) \subseteq ToSet(cache)
        \/ \E j \in jobs : j.kind = "inject" /\ j.phase = "appended"

=============================================================================
