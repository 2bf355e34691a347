---------------------------- MODULE MCMvccStore ----------------------------
(***************************************************************************)
(* Instances of MvccStore for TLC.                                         *)
(***************************************************************************)
EXTENDS MvccStore

PutOp(k) == [op |-> "put", key |-> k]
DelOp(k) == [op |-> "delete", key |-> k]

\* Writes of a first key, and a transaction that writes a second key and deletes
\* the first in one revision.
TwoKeys == {<<PutOp(1)>>, <<DelOp(1)>>, <<PutOp(2), DelOp(1)>>}

=============================================================================
