--------------------------- MODULE MCWorkflowRuns ---------------------------
(* A workflow of three steps: a function with a retry policy that may        *)
(* suspend, a suspend step, a sleep.                                         *)
EXTENDS WorkflowRuns, TLC

Three == <<"fn", "suspend", "sleep">>

RetryFirst == <<2, 1, 1>>

CONSTANTS r1, r2, q1, q2, h1, h2

Alike == Permutations({q1, q2}) \cup Permutations({r1, r2}) \cup Permutations({h1, h2})

=============================================================================
