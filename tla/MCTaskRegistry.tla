--------------------------- MODULE MCTaskRegistry ---------------------------
(* Instances of TaskRegistry.                                               *)
EXTENDS TaskRegistry, TLC

CONSTANTS s1, s2, s3, a, b

\* Three submits, two of them racing for one id; the third is made by the work
\* of the first.
Three == {s1, s2, s3}
TwoIds == {a, b}
RacingIds == s1 :> a @@ s2 :> a @@ s3 :> b
Nesting == s1 :> NoSubmit @@ s2 :> NoSubmit @@ s3 :> s1

\* Two submits, for one id or for two.
Two == {s1, s2}
TwoRacing == [s \in Two |-> a]
TwoApart == s1 :> a @@ s2 :> b
TwoNoNesting == [s \in Two |-> NoSubmit]

=============================================================================
