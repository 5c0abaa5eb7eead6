-------------------------- MODULE MCStagedExecutor --------------------------
(* Instances of StagedExecutor for TLC. *)
EXTENDS StagedExecutor, TLC

\* Jobs are interchangeable; guard threads are too.  Used by the safety run
\* only: symmetry is not sound for liveness.
Interchangeable == Permutations(Jobs) \cup Permutations(Guards)

=============================================================================
