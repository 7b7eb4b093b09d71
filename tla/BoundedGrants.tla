--------------------------- MODULE BoundedGrants ---------------------------
(***************************************************************************)
(* What a counting semaphore promises its callers, without a counter, a    *)
(* resolver queue or release closures: at most Permits callers are inside, *)
(* the others wait in arrival order, nobody waits while there is room, and *)
(* a caller that leaves makes room for exactly one other.                  *)
(*                                                                         *)
(* AsyncSemaphore implements this specification.                           *)
(***************************************************************************)
EXTENDS Naturals, Sequences, FiniteSets

CONSTANTS Callers,   (* the acquire() calls that may be outstanding *)
          Permits    (* how many of them may be inside at a time    *)

VARIABLES inside,    (* the callers that own a permit       *)
          waiting    (* the callers that wait, first come first *)

vars == <<inside, waiting>>

-----------------------------------------------------------------------------

Init == /\ inside = {}
        /\ waiting = <<>>

IsWaiting(c) == \E i \in DOMAIN waiting : waiting[i] = c

\* A newcomer goes in when there is room, and otherwise lines up.
Arrive(c) ==
    /\ c \notin inside
    /\ ~ IsWaiting(c)
    /\ IF Cardinality(inside) < Permits
       THEN /\ inside' = inside \cup {c}
            /\ UNCHANGED waiting
       ELSE /\ waiting' = Append(waiting, c)
            /\ UNCHANGED inside

\* A caller leaves; the one that has waited longest takes its place.
Depart(c) ==
    /\ c \in inside
    /\ IF waiting = <<>>
       THEN /\ inside' = inside \ {c}
            /\ UNCHANGED waiting
       ELSE /\ inside' = (inside \ {c}) \cup {Head(waiting)}
            /\ waiting' = Tail(waiting)

Next == \E c \in Callers : Arrive(c) \/ Depart(c)

Spec == Init /\ [][Next]_vars

=============================================================================
