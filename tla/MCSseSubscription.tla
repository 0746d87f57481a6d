-------------------------- MODULE MCSseSubscription -------------------------
(***************************************************************************)
(* Instances of SseSubscription for TLC.  Connection slots and topics are  *)
(* interchangeable, and so are browsers: no property orders them.          *)
(***************************************************************************)
EXTENDS SseSubscription, TLC

Symmetry ==
    Permutations(Browsers) \cup Permutations(Connections) \cup Permutations(Topics)
=============================================================================
