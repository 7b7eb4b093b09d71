------------------------------ MODULE MCFanOut ------------------------------
(* FanOut, and with it AsyncSemaphore, with four items and two permits.     *)
EXTENDS FanOut

=============================================================================
