------------------------------ MODULE KVStore ------------------------------
(***************************************************************************)
(* The two write operations of a Cosmos SDK key-value store.  A store is a *)
(* function whose domain is the set of keys present, so that Has(key) is   *)
(* key \in DOMAIN store.  Every keeper of the chain reads and writes its   *)
(* state through prefix stores with these operations.                      *)
(***************************************************************************)

\* store.Set(key, value): overwrites or adds one key.
Put(store, key, value) ==
    [k \in DOMAIN store \cup {key} |-> IF k = key THEN value ELSE store[k]]

\* store.Delete(key) for every key of a set; absent keys are ignored.
Drop(store, keys) == [k \in DOMAIN store \ keys |-> store[k]]
=============================================================================
