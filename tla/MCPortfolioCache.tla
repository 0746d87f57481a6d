-------------------------- MODULE MCPortfolioCache --------------------------
(***************************************************************************)
(* Instances of PortfolioCache for TLC.  The processes of a set are        *)
(* interchangeable, so the safety runs use their symmetry; runs with a     *)
(* liveness property do not.                                               *)
(***************************************************************************)
EXTENDS PortfolioCache, TLC

Symmetry ==
    Permutations(Requests) \cup Permutations(Handlers) \cup Permutations(Providers)
=============================================================================
