--------------------------- MODULE MCAgentHandles ---------------------------
(* Three calls of getOrCreate, two of them for one id, and an Agent.resume. *)
EXTENDS AgentHandles, TLC

CONSTANTS c1, c2, c3, u, x, y, s1, s2, s3, su

MCIdOf == (c1 :> x) @@ (c2 :> x) @@ (c3 :> y) @@ (u :> x)

OwnStores == (c1 :> s1) @@ (c2 :> s2) @@ (c3 :> s3) @@ (u :> su)

InjectedStore == [c \in Callers |-> s1]

=============================================================================
