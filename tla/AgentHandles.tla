---------------------------- MODULE AgentHandles ----------------------------
(***************************************************************************)
(* The live local agents of one process: Agent.getOrCreate and             *)
(* Agent.resume (agent.ts), LocalAgent.initialize and dispose              *)
(* (internal/local-agent), the live-agent cache (internal/runtime/registry *)
(* /live-agent-registry.ts) and the leases that the process shares among   *)
(* its session stores (internal/persistence/fs-session-store.ts).          *)
(*                                                                         *)
(* A caller that misses the cache builds a handle of its own, so handles   *)
(* are named after their callers.  SessionWriterLease models the lease     *)
(* file itself; here it is a lock per session that other processes want.   *)
(***************************************************************************)
EXTENDS Naturals, FiniteSets, Sequences, SequencesExt

CONSTANTS Callers,    (* calls of getOrCreate or resume                        *)
          Ids,        (* agent ids                                             *)
          IdOf,       (* the id each caller asks for                           *)
          Uncached,   (* the callers that use Agent.resume, past the cache     *)
          Stores,     (* session stores                                        *)
          StoreOf,    (* the store each caller's agent works with              *)
          MaxAgents,  (* capacity of the live-agent cache                      *)
          None        (* no handle                                             *)

ASSUME ConstantsAssumption ==
    /\ IdOf \in [Callers -> Ids] /\ StoreOf \in [Callers -> Stores]
    /\ Uncached \subseteq Callers
    /\ MaxAgents \in Nat
    /\ None \notin Callers

VARIABLES phase,    (* how far each call, and the handle it builds, has come     *)
          result,   (* the handle each call has returned                         *)
          cache,    (* LiveAgentRegistry.#agents: handles, least recently used first *)
          disposed, (* handles whose dispose() has begun                         *)
          bare,     (* handles that run without a lease (no place to write one)  *)
          leases,   (* FsSessionStore.#leases: ids leased through each store     *)
          refs,     (* sharedLeases: reference count of each session's lease     *)
          lock      (* the session's .writer.lock                                *)

vars == <<phase, result, cache, disposed, bare, leases, refs, lock>>

(* new -> building -> acquiring -> hydrating -> open -> closed, or failed;    *)
(* a caller that hits the cache goes from new to served.                     *)
Phases == {"new", "building", "acquiring", "hydrating", "open", "closed", "failed", "served"}

Cached(id) == {h \in Range(cache) : IdOf[h] = id}

\* The cache without the entry of an id, of which there is at most one.
Without(id) ==
    IF Cached(id) = {} THEN cache
    ELSE RemoveAt(cache, CHOOSE i \in DOMAIN cache : IdOf[cache[i]] = id)

Init ==
    /\ phase = [c \in Callers |-> "new"]
    /\ result = [c \in Callers |-> None]
    /\ cache = <<>>
    /\ disposed = {}
    /\ bare = {}
    /\ leases = [s \in Stores |-> {}]
    /\ refs = [i \in Ids |-> 0]
    /\ lock = [i \in Ids |-> "free"]

-----------------------------------------------------------------------------
(* Building a handle. *)

\* getOrCreate finds the agent in the cache; a lookup counts as a use.
Hit(c) ==
    /\ phase[c] = "new" /\ c \notin Uncached
    /\ \E h \in Cached(IdOf[c]) :
          /\ result' = [result EXCEPT ![c] = h]
          /\ cache' = Append(Without(IdOf[c]), h)
    /\ phase' = [phase EXCEPT ![c] = "served"]
    /\ UNCHANGED <<disposed, bare, leases, refs, lock>>

\* getOrCreate misses, or resume does not look: a LocalAgent is constructed.
Build(c) ==
    /\ phase[c] = "new"
    /\ c \in Uncached \/ Cached(IdOf[c]) = {}
    /\ phase' = [phase EXCEPT ![c] = "building"]
    /\ UNCHANGED <<result, cache, disposed, bare, leases, refs, lock>>

\* initialize fails before the lease: hooks, managers, plugins or subagents.
BuildFails(c) ==
    /\ phase[c] = "building"
    /\ phase' = [phase EXCEPT ![c] = "failed"]
    /\ UNCHANGED <<result, cache, disposed, bare, leases, refs, lock>>

\* FsSessionStore.acquire: a store that has the id's lease has nothing to do;
\* otherwise it makes the directory and takes the lease afterwards.
AcquireCheck(c) ==
    /\ phase[c] = "building"
    /\ phase' = [phase EXCEPT ![c] = IF IdOf[c] \in leases[StoreOf[c]] THEN "hydrating" ELSE "acquiring"]
    /\ UNCHANGED <<result, cache, disposed, bare, leases, refs, lock>>

\* Fault: every store takes the lease for itself.
AcquireTake_Unshared(c) ==
    LET id == IdOf[c] IN
    /\ phase[c] = "acquiring" /\ lock[id] # "rival"
    /\ leases' = [leases EXCEPT ![StoreOf[c]] = @ \cup {id}]
    /\ refs' = [refs EXCEPT ![id] = 1]
    /\ lock' = [lock EXCEPT ![id] = "ours"]
    /\ phase' = [phase EXCEPT ![c] = "hydrating"]
    /\ UNCHANGED <<result, cache, disposed, bare>>

\* acquireShared: one more reference, or the lease of the file.
AcquireTake(c) ==
    LET id == IdOf[c] IN
    /\ phase[c] = "acquiring" /\ lock[id] # "rival"
    /\ leases' = [leases EXCEPT ![StoreOf[c]] = @ \cup {id}]
    /\ refs' = [refs EXCEPT ![id] = @ + 1]
    /\ lock' = [lock EXCEPT ![id] = "ours"]
    /\ phase' = [phase EXCEPT ![c] = "hydrating"]
    /\ UNCHANGED <<result, cache, disposed, bare>>

\* SessionBusyError: another process holds the session.
AcquireBusy(c) ==
    /\ phase[c] = "acquiring" /\ lock[IdOf[c]] = "rival"
    /\ phase' = [phase EXCEPT ![c] = "failed"]
    /\ UNCHANGED <<result, cache, disposed, bare, leases, refs, lock>>

\* Any other failure (acquireLeaseIfPossible): the agent runs without a lease.
AcquireUnavailable(c) ==
    /\ phase[c] = "acquiring"
    /\ bare' = bare \cup {c}
    /\ phase' = [phase EXCEPT ![c] = "hydrating"]
    /\ UNCHANGED <<result, cache, disposed, leases, refs, lock>>

\* Fault: every release frees the lock.
GiveBack_Eager(s, ids) ==
    /\ leases' = [leases EXCEPT ![s] = @ \ ids]
    /\ refs' = [i \in Ids |-> IF i \in ids THEN refs[i] - 1 ELSE refs[i]]
    /\ lock' = [i \in Ids |-> IF i \in ids THEN "free" ELSE lock[i]]

\* The proxies of a set of ids are released through a store: each gives its
\* reference back, and the last one frees the lock.
GiveBack(s, ids) ==
    /\ leases' = [leases EXCEPT ![s] = @ \ ids]
    /\ refs' = [i \in Ids |-> IF i \in ids THEN refs[i] - 1 ELSE refs[i]]
    /\ lock' = [i \in Ids |-> IF i \in ids /\ refs[i] = 1 THEN "free" ELSE lock[i]]

\* initialize fails with the lease in hand and releases it for its own id.
HydrateFails(c) ==
    /\ phase[c] = "hydrating"
    /\ GiveBack(StoreOf[c], {IdOf[c]} \cap leases[StoreOf[c]])
    /\ phase' = [phase EXCEPT ![c] = "failed"]
    /\ UNCHANGED <<result, cache, disposed, bare>>

-----------------------------------------------------------------------------
(* The cache. *)

\* Fault: an overwritten handle is dropped and not disposed.
Insert_Drop(c) ==
    LET entries == Append(Without(IdOf[c]), c)
        excess == Len(entries) > MaxAgents
    IN  /\ cache' = IF excess THEN Tail(entries) ELSE entries
        /\ disposed' = disposed \cup (IF excess THEN {Head(entries)} ELSE {})

\* LiveAgentRegistry.set: the handle under the same id is disposed, and beyond
\* capacity the least recently used one too.
Insert(c) ==
    LET entries == Append(Without(IdOf[c]), c)
        excess == Len(entries) > MaxAgents
    IN  /\ cache' = IF excess THEN Tail(entries) ELSE entries
        /\ disposed' = disposed \cup Cached(IdOf[c])
                                \cup (IF excess THEN {Head(entries)} ELSE {})

\* The history is hydrated: the call returns its handle, and getOrCreate puts
\* it in the cache (unless the cache is switched off).
Hydrated(c) ==
    /\ phase[c] = "hydrating"
    /\ phase' = [phase EXCEPT ![c] = "open"]
    /\ result' = [result EXCEPT ![c] = c]
    /\ IF c \in Uncached \/ MaxAgents = 0 THEN UNCHANGED <<cache, disposed>> ELSE Insert(c)
    /\ UNCHANGED <<bare, leases, refs, lock>>

\* Eviction by the idle sweep, by evict() or by evictAll().
Evict(h) ==
    /\ h \in Range(cache)
    /\ cache' = Without(IdOf[h])
    /\ disposed' = disposed \cup {h}
    /\ UNCHANGED <<phase, result, bare, leases, refs, lock>>

\* Fault: dispose() leaves the cache alone.
Dispose_KeepCached(h) ==
    /\ phase[h] = "open" /\ h \notin disposed
    /\ disposed' = disposed \cup {h}
    /\ UNCHANGED <<phase, result, cache, bare, leases, refs, lock>>

\* dispose() by a caller, up to its first await: forget the id in the cache.
Dispose(h) ==
    /\ phase[h] = "open" /\ h \notin disposed
    /\ disposed' = disposed \cup {h}
    /\ cache' = Without(IdOf[h])
    /\ UNCHANGED <<phase, result, bare, leases, refs, lock>>

\* Fault: the store is left open.
DisposeStore_NoRelease(h) ==
    /\ phase[h] = "open" /\ h \in disposed
    /\ phase' = [phase EXCEPT ![h] = "closed"]
    /\ UNCHANGED <<result, cache, disposed, bare, leases, refs, lock>>

\* The rest of dispose(): after the last send and the flushes, the store is
\* disposed, which gives back every lease it holds.
DisposeStore(h) ==
    /\ phase[h] = "open" /\ h \in disposed
    /\ GiveBack(StoreOf[h], leases[StoreOf[h]])
    /\ phase' = [phase EXCEPT ![h] = "closed"]
    /\ UNCHANGED <<result, cache, disposed, bare>>

\* Another process takes a free session, and leaves it again.
Rival(id) ==
    /\ \/ lock[id] = "free" /\ lock' = [lock EXCEPT ![id] = "rival"]
       \/ lock[id] = "rival" /\ lock' = [lock EXCEPT ![id] = "free"]
    /\ UNCHANGED <<phase, result, cache, disposed, bare, leases, refs>>

-----------------------------------------------------------------------------

Start(c) == \/ Hit(c) \/ Build(c) \/ BuildFails(c) \/ AcquireCheck(c) \/ AcquireTake(c)
            \/ AcquireBusy(c) \/ AcquireUnavailable(c) \/ Hydrated(c) \/ HydrateFails(c)

Next == \/ \E c \in Callers : Start(c) \/ Evict(c) \/ Dispose(c) \/ DisposeStore(c)
        \/ \E id \in Ids : Rival(id)

Spec == Init /\ [][Next]_vars

\* A disposal that has begun runs to its end: the send mutex and the flushes it
\* awaits are released.
FairSpec == Spec /\ \A c \in Callers : WF_vars(DisposeStore(c))

-----------------------------------------------------------------------------

\* Type of the handles, the cache and the leases.  The cache holds one entry per
\* id, at most MaxAgents of them, and never an instance that is being disposed
\* (live-agent-registry.ts, forget: the disposed instance can never be returned
\* by a subsequent get).
TypeOK ==
    /\ phase \in [Callers -> Phases]
    /\ result \in [Callers -> Callers \cup {None}]
    /\ cache \in Seq(Callers) /\ Len(cache) <= MaxAgents
    /\ \A i, j \in DOMAIN cache : IdOf[cache[i]] = IdOf[cache[j]] => i = j
    /\ Range(cache) \cap disposed = {}
    /\ disposed \in SUBSET Callers
    /\ bare \in SUBSET Callers
    /\ leases \in [Stores -> SUBSET Ids]
    /\ refs \in [Ids -> Nat]
    /\ lock \in [Ids -> {"free", "ours", "rival"}]

\* EC-4 of the cache: a handle that getOrCreate built is in the cache until it
\* is disposed, so nothing leaks when two calls race for one id.  Disposing a
\* handle from outside the cache forgets the id, and is the exception.
NoOrphan ==
    \A c \in Callers \ Uncached :
        phase[c] = "open" /\ c \notin disposed =>
            \/ c \in Range(cache)
            \/ \E u \in Uncached : IdOf[u] = IdOf[c] /\ u \in disposed

\* A live handle writes its session only under the process's lease: from the
\* hydration of its history to the end of its disposal no other process can
\* take the session (local-agent-lifecycle.ts: flush before the lease is
\* handed back).
WritesUnderLease ==
    \A c \in Callers : phase[c] \in {"hydrating", "open"} /\ c \notin bare => lock[IdOf[c]] = "ours"

\* Nobody is using the session or about to; disposals may be under way.
Leaving(id) == \A c \in Callers : IdOf[c] = id =>
                  \/ phase[c] \in {"new", "served", "closed", "failed"}
                  \/ phase[c] = "open" /\ c \in disposed

\* A session whose handles are all being disposed becomes free for other
\* processes, unless somebody opens it again.
SessionComesFree == \A id \in Ids : Leaving(id) ~> (lock[id] # "ours" \/ ~ Leaving(id))

=============================================================================
