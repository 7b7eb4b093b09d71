---------------------------- MODULE TaskSubscribe ----------------------------
(***************************************************************************)
(* Task.subscribe (internal/task/subscribe.ts, ring-buffer.ts): the events *)
(* of one task, kept in a ring buffer for late subscribers and passed on   *)
(* to the live ones, each of which pulls them through an async iterator.   *)
(*                                                                         *)
(* Events are numbered in the order of emission: 1 is the submitted event, *)
(* Length is the terminal event of the task.                               *)
(***************************************************************************)
EXTENDS Naturals, Sequences

CONSTANTS Subscribers, (* the iterators opened on the task       *)
          Length,      (* how many events the task emits         *)
          RingCap      (* capacity of the ring buffer (RING_CAP) *)

ASSUME ConstantsAssumption == Length \in Nat \ {0, 1} /\ RingCap \in Nat \ {0}

VARIABLES emitted,     (* number of events emitted so far                      *)
          ring,        (* the ring buffer, oldest event first                  *)
          truncated,   (* its truncated flag                                   *)
          evicted,     (* the retention timer has dropped the task             *)
          listening,   (* state.subscribers: the callbacks in the task's set   *)
          phase,       (* where each subscriber's loop stands                  *)
          queue,       (* events delivered to an iterator and not pulled yet   *)
          got,         (* events each loop has received                        *)
          flagged,     (* iterators whose first event carries the truncated flag *)
          closing,     (* iterators with a queued cleanup microtask            *)
          done         (* iterators that have been cleaned up                  *)

vars == <<emitted, ring, truncated, evicted, listening, phase, queue, got,
          flagged, closing, done>>

(* away:    not subscribed          waiting: next() has returned a pending   *)
(* looping: between two next()      promise  over: the loop has ended        *)
Phases == {"away", "looping", "waiting", "over"}

IsTerminal(e) == e = Length

Init ==
    /\ emitted = 0
    /\ ring = <<>>
    /\ truncated = FALSE
    /\ evicted = FALSE
    /\ listening = {}
    /\ phase = [c \in Subscribers |-> "away"]
    /\ queue = [c \in Subscribers |-> <<>>]
    /\ got = [c \in Subscribers |-> <<>>]
    /\ flagged = {}
    /\ closing = {}
    /\ done = {}

-----------------------------------------------------------------------------

\* Fault: the ring never drops anything.
Push_NoDrop(e) ==
    /\ ring' = Append(ring, e)
    /\ truncated' = (truncated \/ Len(ring) >= RingCap)

\* RingBuffer.push: at capacity the oldest event makes room.
Push(e) ==
    /\ ring' = Append(IF Len(ring) >= RingCap THEN Tail(ring) ELSE ring, e)
    /\ truncated' = (truncated \/ Len(ring) >= RingCap)

\* Fault: an event resolves the pending next() and is queued as well.
Deliver_Twice(e) ==
    LET asked == {c \in listening \ done : phase[c] = "waiting"}
    IN  /\ got' = [c \in Subscribers |-> IF c \in asked THEN Append(got[c], e) ELSE got[c]]
        /\ phase' = [c \in Subscribers |-> IF c \in asked THEN "looping" ELSE phase[c]]
        /\ queue' = [c \in Subscribers |->
                       IF c \in listening \ done THEN Append(queue[c], e) ELSE queue[c]]

\* Fault: an event is queued also while a next() is pending.
Deliver_QueueOnly(e) ==
    /\ queue' = [c \in Subscribers |->
                   IF c \in listening \ done THEN Append(queue[c], e) ELSE queue[c]]
    /\ UNCHANGED <<got, phase>>

\* TaskIterator.deliver, for every callback in the set: an event resolves the
\* pending next() if there is one and is queued otherwise.
Deliver(e) ==
    LET live == listening \ done
        asked == {c \in live : phase[c] = "waiting"}
    IN  /\ got' = [c \in Subscribers |-> IF c \in asked THEN Append(got[c], e) ELSE got[c]]
        /\ phase' = [c \in Subscribers |-> IF c \in asked THEN "looping" ELSE phase[c]]
        /\ queue' = [c \in Subscribers |->
                       IF c \in live \ asked THEN Append(queue[c], e) ELSE queue[c]]

\* emitToSubscribers: the buffer first, then every callback, synchronously.
Emit ==
    /\ emitted < Length
    /\ emitted' = emitted + 1
    /\ Push(emitted + 1)
    /\ Deliver(emitted + 1)
    /\ UNCHANGED <<evicted, listening, flagged, closing, done>>

\* subscribe and the iterator's constructor: drain a copy of the ring, flag a
\* truncated copy on its submitted event, and add the callback to the set.
Subscribe(c) ==
    /\ phase[c] = "away"
    /\ emitted > 0 /\ ~ evicted
    /\ queue' = [queue EXCEPT ![c] = ring]
    /\ flagged' = IF truncated /\ ring[1] = 1 THEN flagged \cup {c} ELSE flagged
    /\ listening' = listening \cup {c}
    /\ phase' = [phase EXCEPT ![c] = "looping"]
    /\ UNCHANGED <<emitted, ring, truncated, evicted, got, closing, done>>

\* next(): done, or the oldest queued event (a terminal one schedules the
\* cleanup), or a pending promise.
Pull(c) ==
    /\ phase[c] = "looping"
    /\ \/ /\ c \in done
          /\ phase' = [phase EXCEPT ![c] = "over"]
          /\ UNCHANGED <<queue, got, closing>>
       \/ /\ c \notin done /\ queue[c] # <<>>
          /\ got' = [got EXCEPT ![c] = Append(@, Head(queue[c]))]
          /\ queue' = [queue EXCEPT ![c] = Tail(@)]
          /\ closing' = IF IsTerminal(Head(queue[c])) THEN closing \cup {c} ELSE closing
          /\ UNCHANGED phase
       \/ /\ c \notin done /\ queue[c] = <<>>
          /\ phase' = [phase EXCEPT ![c] = "waiting"]
          /\ UNCHANGED <<queue, got, closing>>
    /\ UNCHANGED <<emitted, ring, truncated, evicted, listening, flagged, done>>

\* cleanup(): leave the set and settle a pending next() with done.
Clean(c) ==
    /\ done' = done \cup {c}
    /\ listening' = listening \ {c}
    /\ phase' = [phase EXCEPT ![c] = IF @ = "waiting" THEN "over" ELSE @]

\* The microtask scheduled with the terminal event.
CleanupTick(c) ==
    /\ c \in closing
    /\ closing' = closing \ {c}
    /\ IF c \in done THEN UNCHANGED <<done, listening, phase>> ELSE Clean(c)
    /\ UNCHANGED <<emitted, ring, truncated, evicted, queue, got, flagged>>

\* return(): the subscriber gives up, in its loop or with a next() pending.
Return(c) ==
    /\ phase[c] \in {"looping", "waiting"} /\ c \notin done
    /\ done' = done \cup {c}
    /\ listening' = listening \ {c}
    /\ phase' = [phase EXCEPT ![c] = "over"]
    /\ UNCHANGED <<emitted, ring, truncated, evicted, queue, got, flagged, closing>>

\* The retention timer forgets a terminal task, its buffer and its callbacks.
Evict ==
    /\ emitted = Length /\ ~ evicted
    /\ evicted' = TRUE
    /\ ring' = <<>>
    /\ listening' = {}
    /\ UNCHANGED <<emitted, truncated, phase, queue, got, flagged, closing, done>>

-----------------------------------------------------------------------------

Next == \/ Emit
        \/ Evict
        \/ \E c \in Subscribers : Subscribe(c) \/ Pull(c) \/ CleanupTick(c) \/ Return(c)

Spec == Init /\ [][Next]_vars

\* A task emits its events up to the terminal one (TaskRegistry: every run
\* ends), a subscriber's loop asks again after every event, and microtasks run.
Fairness == /\ WF_vars(Emit)
            /\ \A c \in Subscribers : WF_vars(Pull(c)) /\ WF_vars(CleanupTick(c))

FairSpec == Spec /\ Fairness

-----------------------------------------------------------------------------

\* Type of the buffer's and the iterators' state.
TypeOK ==
    /\ emitted \in 0..Length
    /\ ring \in Seq(1..Length) /\ Len(ring) <= RingCap
    /\ truncated \in BOOLEAN /\ evicted \in BOOLEAN
    /\ listening \in SUBSET Subscribers
    /\ phase \in [Subscribers -> Phases]
    /\ queue \in [Subscribers -> Seq(1..Length)]
    /\ got \in [Subscribers -> Seq(1..Length)]
    /\ flagged \in SUBSET Subscribers
    /\ closing \in SUBSET Subscribers
    /\ done \in SUBSET Subscribers

\* Consecutive events.
Contiguous(events) == \A i \in DOMAIN events : events[i] = events[1] + i - 1

\* Between replay and live tail no event is lost, doubled or out of order: what
\* an iterator has handed out and still holds are consecutive events, up to the
\* latest one as long as its callback is in the set.
NoGapNoRepeat ==
    \A c \in Subscribers :
        LET all == got[c] \o queue[c]
        IN  /\ Contiguous(all)
            /\ c \in listening => all # <<>> /\ all[Len(all)] = emitted

\* A loop that keeps asking sees the terminal event, unless it gives up.
TerminalEventArrives ==
    \A c \in Subscribers :
        phase[c] = "looping" ~> \/ \E i \in DOMAIN got[c] : IsTerminal(got[c][i])
                                \/ phase[c] = "over"

=============================================================================
