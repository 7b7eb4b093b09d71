-------------------------- MODULE MCTaskSubscribe --------------------------
(* Two subscribers of a task that emits more events than the ring holds.    *)
EXTENDS TaskSubscribe

=============================================================================
