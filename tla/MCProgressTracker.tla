-------------------------- MODULE MCProgressTracker --------------------------
(***************************************************************************)
(* Instances of ProgressTracker for TLC.                                   *)
(***************************************************************************)
EXTENDS ProgressTracker, TLC

\* Nodes and candidates may be renamed independently.
Symm == {f @@ g : f \in Permutations(Node), g \in Permutations(Candidate)}

=============================================================================
