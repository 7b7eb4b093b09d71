------------------------ MODULE MCSessionWriterLease ------------------------
(* Two processes share a host, a third one runs on another host. *)
EXTENDS SessionWriterLease, TLC

CONSTANTS p1, p2, p3, home, away

MCHostOf == (p1 :> home) @@ (p2 :> home) @@ (p3 :> away)

=============================================================================
