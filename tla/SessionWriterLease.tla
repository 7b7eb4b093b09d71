------------------------- MODULE SessionWriterLease -------------------------
(***************************************************************************)
(* The writer lease of a session (internal/persistence/session-writer.ts): *)
(* the file <session>.writer.lock names the one process that may write the *)
(* transcript.  Every call is synchronous in its process, yet each of its  *)
(* file operations is a step of its own for the other processes.           *)
(***************************************************************************)
EXTENDS Naturals, FiniteSets

CONSTANTS Procs,    (* processes that open the session, each with its own pid    *)
          HostOf,   (* the host each of them runs on                             *)
          Window    (* HEARTBEAT_WINDOW_MS, in ticks of the clock                *)

ASSUME ConstantsAssumption ==
    /\ IsFiniteSet(Procs)
    /\ Window \in Nat \ {0}

VARIABLES lock,   (* <session>.writer.lock                                       *)
          step,   (* where each process stands in its call                       *)
          lease,  (* what each process believes of its lease                     *)
          seen,   (* the content each process read from the lock                 *)
          mine,   (* age of the record it is about to write (ownerNow)           *)
          linked, (* processes whose open descriptor still is the lock file      *)
          contended (* history: two calls have overlapped                       *)

vars == <<lock, step, lease, seen, mine, linked, contended>>

-----------------------------------------------------------------------------

(* The file is not there, or it holds nothing that parses (just created or   *)
(* truncated, or garbled by two writers), or it names its owner.             *)
Absent == [is |-> "absent"]
Unreadable == [is |-> "unreadable"]
Owned(p, a) == [is |-> "owned", by |-> p, age |-> a]

Ages == 0..(Window + 1)   (* an age beyond the window counts as Window + 1 *)
Older(a) == IF a > Window THEN a ELSE a + 1

Contents == {Absent, Unreadable} \cup [is : {"owned"}, by : Procs, age : Ages]

(* idle: no call in progress   exists: the exclusive create failed           *)
(* judging: it has read the owner   opening, writing: in writeOwner          *)
Steps == {"idle", "exists", "judging", "opening", "writing", "dead"}

Alive(p) == step[p] # "dead"
Holds(p) == lease[p] = "held" /\ Alive(p)

Idle == \A q \in Procs : step[q] \in {"idle", "dead"}

\* A process starts a call, perhaps in the middle of another's.
Begin(p) == step[p] = "idle" /\ contended' = (contended \/ ~ Idle)

\* Fault: age counts on the same host as well.
Reclaimable_Stale(p, owner) ==
    \/ owner.is # "owned"
    \/ owner.age > Window
    \/ HostOf[owner.by] = HostOf[p] /\ ~ Alive(owner.by)

\* Fault: a lock nobody can interpret is nobody's to take.
Reclaimable_FailClosed(p, owner) ==
    /\ owner.is = "owned"
    /\ IF HostOf[owner.by] = HostOf[p] THEN ~ Alive(owner.by) ELSE owner.age > Window

\* May p take the lock from this owner?  On the same host the pid decides, on
\* another one the age of the record, and no readable owner is no owner.
Reclaimable(p, owner) ==
    \/ owner.is # "owned"
    \/ HostOf[owner.by] = HostOf[p] /\ ~ Alive(owner.by)
    \/ HostOf[owner.by] # HostOf[p] /\ owner.age > Window

Init ==
    /\ lock = Absent
    /\ step = [p \in Procs |-> "idle"]
    /\ lease = [p \in Procs |-> "none"]
    /\ seen = [p \in Procs |-> Absent]
    /\ mine = [p \in Procs |-> 0]
    /\ linked = {}
    /\ contended = FALSE

-----------------------------------------------------------------------------

\* acquireSessionWriter: stamp a record and create the lock exclusively.
Acquire(p) ==
    /\ Begin(p) /\ lease[p] # "held"
    /\ IF lock = Absent
       THEN /\ lock' = Unreadable
            /\ step' = [step EXCEPT ![p] = "opening"]
       ELSE /\ step' = [step EXCEPT ![p] = "exists"]
            /\ UNCHANGED lock
    /\ mine' = [mine EXCEPT ![p] = 0]
    /\ UNCHANGED <<lease, seen, linked>>

\* readOwner: the lock exists, so look who owns it.
ReadOwner(p) ==
    /\ step[p] = "exists"
    /\ seen' = [seen EXCEPT ![p] = lock]
    /\ step' = [step EXCEPT ![p] = "judging"]
    /\ UNCHANGED <<lock, lease, mine, linked, contended>>

\* reclaimable: take the place of the owner, or give up with SessionBusyError.
Judge(p) ==
    /\ step[p] = "judging"
    /\ step' = [step EXCEPT ![p] = IF Reclaimable(p, seen[p]) THEN "opening" ELSE "idle"]
    /\ mine' = [mine EXCEPT ![p] = IF Reclaimable(p, seen[p]) THEN @ ELSE 0]
    /\ seen' = [seen EXCEPT ![p] = Absent]
    /\ UNCHANGED <<lock, lease, linked, contended>>

\* writeOwner opens the file with "w": it is created or truncated.
OpenOwner(p) ==
    /\ step[p] = "opening"
    /\ lock' = Unreadable
    /\ linked' = linked \cup {p}
    /\ step' = [step EXCEPT ![p] = "writing"]
    /\ UNCHANGED <<lease, seen, mine, contended>>

\* Fault: the descriptor stays open.
WriteOwner_NoClose(p) ==
    /\ step[p] = "writing"
    /\ lock' = IF p \in linked THEN Owned(p, mine[p]) ELSE lock
    /\ lease' = [lease EXCEPT ![p] = "held"]
    /\ step' = [step EXCEPT ![p] = "idle"]
    /\ mine' = [mine EXCEPT ![p] = 0]
    /\ UNCHANGED <<seen, linked, contended>>

\* writeOwner writes the record at the start of the file: over another record
\* the result may not parse, and in a file that was removed it is lost.  The
\* caller has its lease in every case.
WriteOwner(p) ==
    /\ step[p] = "writing"
    /\ IF p \in linked
       THEN lock' \in IF lock = Unreadable THEN {Owned(p, mine[p])}
                      ELSE {Owned(p, mine[p]), Unreadable}
       ELSE UNCHANGED lock
    /\ linked' = linked \ {p}
    /\ lease' = [lease EXCEPT ![p] = "held"]
    /\ step' = [step EXCEPT ![p] = "idle"]
    /\ mine' = [mine EXCEPT ![p] = 0]
    /\ UNCHANGED <<seen, contended>>

\* renew(): stamp the record again; nothing on a released lease.
Renew(p) ==
    /\ Begin(p) /\ lease[p] = "held"
    /\ step' = [step EXCEPT ![p] = "opening"]
    /\ mine' = [mine EXCEPT ![p] = 0]
    /\ UNCHANGED <<lock, lease, seen, linked>>

\* Fault: release() removes the lock on every call.
Release_Again(p) ==
    /\ Begin(p) /\ lease[p] # "none"
    /\ lease' = [lease EXCEPT ![p] = "released"]
    /\ lock' = Absent
    /\ linked' = {}
    /\ UNCHANGED <<step, seen, mine>>

\* release(): remove the lock file, whoever it names; the second call does
\* nothing.  A descriptor open on the removed file writes to nowhere.
Release(p) ==
    /\ Begin(p) /\ lease[p] = "held"
    /\ lease' = [lease EXCEPT ![p] = "released"]
    /\ lock' = Absent
    /\ linked' = {}
    /\ UNCHANGED <<step, seen, mine>>

\* A process dies, in the middle of a call or between two.
Crash(p) ==
    /\ Alive(p)
    /\ step' = [step EXCEPT ![p] = "dead"]
    /\ seen' = [seen EXCEPT ![p] = Absent]
    /\ mine' = [mine EXCEPT ![p] = 0]
    /\ linked' = linked \ {p}
    /\ UNCHANGED <<lock, lease, contended>>

\* A process with rivals on other hosts renews its lease before the record is
\* too old, and no call of it takes longer than that.
Timely == \A p, q \in Procs :
             Alive(p) /\ Alive(q) /\ HostOf[q] # HostOf[p] =>
                /\ mine[p] < Window
                /\ Holds(p) /\ lock.is = "owned" /\ lock.by = p => lock.age < Window

\* Time passes over every record.
Tick ==
    /\ Timely
    /\ lock' = IF lock.is = "owned" THEN [lock EXCEPT !.age = Older(@)] ELSE lock
    /\ seen' = [p \in Procs |-> IF seen[p].is = "owned" THEN [seen[p] EXCEPT !.age = Older(@)]
                                ELSE seen[p]]
    /\ mine' = [p \in Procs |-> IF step[p] \in {"exists", "judging", "opening", "writing"}
                                THEN Older(mine[p]) ELSE mine[p]]
    /\ <<lock, seen, mine>>' # <<lock, seen, mine>>
    /\ UNCHANGED <<step, lease, linked, contended>>

-----------------------------------------------------------------------------

Call(p) == Acquire(p) \/ ReadOwner(p) \/ Judge(p) \/ OpenOwner(p) \/ WriteOwner(p)

Next == \/ \E p \in Procs : Call(p) \/ Renew(p) \/ Release(p) \/ Crash(p)
        \/ Tick

Spec == Init /\ [][Next]_vars

\* A process that was refused tries again, a call once begun runs on, and time
\* passes.  Nobody has to renew, release or crash.
FairSpec == Spec /\ WF_vars(Tick) /\ \A p \in Procs : WF_vars(Call(p))

-----------------------------------------------------------------------------

\* Type of the lock file and of the processes' view of it; a descriptor is open
\* during writeOwner only.
TypeOK ==
    /\ lock \in Contents
    /\ step \in [Procs -> Steps]
    /\ lease \in [Procs -> {"none", "held", "released"}]
    /\ seen \in [Procs -> Contents]
    /\ mine \in [Procs -> Ages]
    /\ linked \subseteq {p \in Procs : step[p] = "writing"}
    /\ contended \in BOOLEAN

\* At most one live process holds the lease (session-writer.ts: exclusivity
\* comes from the filesystem, so it holds across processes).
Exclusive == \A p, q \in Procs : Holds(p) /\ Holds(q) => p = q

\* It does as long as no two calls have overlapped, whoever died in the middle
\* of one and wherever the processes run; and the lock file stands behind the
\* holder: between two calls it names the live process that holds the lease, so
\* every later acquirer meets it there.
LeaseBacked ==
    ~ contended =>
        /\ Exclusive
        /\ Idle => \A p \in Procs : Holds(p) => lock.is = "owned" /\ lock.by = p

\* Whatever crashes and overlapping calls leave in the lock file, the session is not locked out:
\* someone gets the lease again, as long as a process is left to try.
NeverLockedOut == []<>(\E p \in Procs : Holds(p) \/ \A q \in Procs : ~ Alive(q))

=============================================================================
