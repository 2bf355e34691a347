----------------------------- MODULE MCGleeRtt -----------------------------
(***************************************************************************)
(* Instances of GleeRtt for TLC.                                           *)
(***************************************************************************)
EXTENDS GleeRtt, TLC

Symm == Permutations(Server)

=============================================================================
