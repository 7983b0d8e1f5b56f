----------------------------- MODULE MCProcessor -----------------------------
(* Instances of the metrics processor for TLC: the senders are             *)
(* interchangeable, which the runs of safety properties use.               *)
EXTENDS Processor, TLC

SenderSymmetry == Permutations(Senders)

=============================================================================
