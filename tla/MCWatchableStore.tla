-------------------------- MODULE MCWatchableStore --------------------------
(***************************************************************************)
(* Instances of WatchableStore: one watcher of a key and one of all keys.  *)
(***************************************************************************)
EXTENDS WatchableStore

CONSTANTS k1, k2, w1, w2

MCKeysOf == w1 :> {k1} @@ w2 :> {k1, k2}

MCTxns == {k1 :> "put", k1 :> "delete", k2 :> "put"}

=============================================================================
