---------------------------- MODULE MCSpikeWorker ----------------------------
(* Finite instances of SpikeWorker for TLC. *)
EXTENDS SpikeWorker, TLC

\* Without dry runs the tasks are interchangeable.
Symmetry == Permutations(Workers)
=============================================================================
