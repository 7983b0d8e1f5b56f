----------------------------- MODULE MCTracing -----------------------------
(***************************************************************************)
(* The listeners of a process differ in nothing but their settings, so     *)
(* that exchanging them makes no difference to any invariant.              *)
(***************************************************************************)
EXTENDS Tracing, TLC

Interchangeable == Permutations(Listeners)

=============================================================================
