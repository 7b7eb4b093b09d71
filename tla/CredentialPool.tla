---------------------------- MODULE CredentialPool ----------------------------
(***************************************************************************)
(* The per-provider credential pool (internal/llm/credential-pool.ts) as   *)
(* operators on its value: a pool p is a record of                         *)
(*   order   the entries in the order selection scans them,                *)
(*   rank    each entry's persisted `priority`,                            *)
(*   status  "ok" or "exhausted",                                          *)
(*   rest    how long until lastErrorResetAt, 0 once that moment passed.   *)
(* An entry whose rest is over stays "exhausted" until somebody looks: the *)
(* pool has no timer and heals in availableEntries.                        *)
(*                                                                         *)
(* "random" and "least_used" are one strategy here, "any": each picks some *)
(* healthy entry, and the request counts behind least_used are left out.   *)
(***************************************************************************)
EXTENDS Naturals, Sequences, FiniteSets, SequencesExt

CONSTANTS Entries,   \* the pool's entries by priority, after deduplication by token
          Cooldown,  \* the ladder's rest for a refusal without Retry-After
          Hints,     \* the rests a provider may ask for with Retry-After
          NoKey      \* selection's null

ASSUME RestsArePositive == Cooldown \in Nat \ {0} /\ Hints \subseteq Nat \ {0}

Keys == Range(Entries)

ASSUME EntriesAreDistinct == Entries \in Seq(Keys) /\ Entries # <<>> /\ IsInjective(Entries)

ASSUME NullIsNoEntry == NoKey \notin Keys

Windows == Hints \union {Cooldown}

Pools == [order : SetToSeqs(Keys), rank : [Keys -> Nat],
          status : [Keys -> {"ok", "exhausted"}], rest : [Keys -> Nat]]

PositionIn(order, k) == CHOOSE i \in DOMAIN order : order[i] = k

RankIn(order) == [k \in Keys |-> PositionIn(order, k) - 1]

FreshPool == [order  |-> Entries,
              rank   |-> RankIn(Entries),
              status |-> [k \in Keys |-> "ok"],
              rest   |-> [k \in Keys |-> 0]]

-----------------------------------------------------------------------------

\* Fault: entries whose cooldown expired are not taken back.
Healthy_NoHeal(p) == {k \in Keys : p.status[k] = "ok"}

Healthy(p) == {k \in Keys : p.status[k] = "ok" \/ p.rest[k] = 0}

\* availableEntries writes the expired entries back to "ok" on the way.
Healed(p) == [p EXCEPT !.status =
                [k \in Keys |-> IF k \in Healthy(p) THEN "ok" ELSE "exhausted"]]

FirstHealthy(p) ==
    p.order[CHOOSE i \in DOMAIN p.order :
                /\ p.order[i] \in Healthy(p)
                /\ \A j \in 1 .. i - 1 : p.order[j] \notin Healthy(p)]

\* The order with k last.
Rotated(order, k) == Append(RemoveAt(order, PositionIn(order, k)), k)

\* Fault: the rotated order is not written into the priorities.
ToTheBack_StaleRanks(p, k) == [p EXCEPT !.order = Rotated(p.order, k)]

\* round_robin's turn: k scans last from now on, and the priorities follow the
\* new order so that a pool loaded from a snapshot continues where it was.
ToTheBack(p, k) == [p EXCEPT !.order = Rotated(p.order, k),
                             !.rank = RankIn(Rotated(p.order, k))]

Candidates(p, strategy) == IF strategy = "any" THEN Healthy(p) ELSE {FirstHealthy(p)}

\* Fault: round_robin leaves the order as it is.
AfterPick_NoTurn(p, strategy, k) == Healed(p)

AfterPick(p, strategy, k) ==
    IF strategy = "round_robin" /\ Cardinality(Healthy(p)) > 1
    THEN ToTheBack(Healed(p), k)
    ELSE Healed(p)

\* What selectLocked may do to p: the entry it returns and the pool it leaves.
Selections(p, strategy) ==
    IF Healthy(p) = {}
    THEN {[key |-> NoKey, pool |-> p]}
    ELSE {[key |-> k, pool |-> AfterPick(p, strategy, k)] : k \in Candidates(p, strategy)}

\* markExhaustedAndRotate before its trailing selection.
Marked(p, k, window) == [p EXCEPT !.status[k] = "exhausted", !.rest[k] = window]

\* One unit of time passes.
Aged(p) == [p EXCEPT !.rest = [k \in Keys |-> IF @[k] > 0 THEN @[k] - 1 ELSE 0]]

=============================================================================
