---------------------------- MODULE ParamsStore ----------------------------
(***************************************************************************)
(* The parameters in LMDB (common/params.cc), which every process opens:   *)
(* the three keys by which controlsd tells boardd how to set the panda up. *)
(* put, get and remove are one transaction each; clearAll is one per key.  *)
(***************************************************************************)

VARIABLE
  store          \* for each key, whether it has a value and of which drive

\* The keys of type CLEAR_ON_IGNITION_ON that a decision here depends on.
Keys == {"CarVin", "ControlsReady", "CarParams"}

\* "fresh": written since boardd last saw the ignition rise; "stale": before.  The
\* code sees only whether there is a value.
Ages == {"none", "stale", "fresh"}
Grown(age) == IF age = "fresh" THEN "stale" ELSE age

Has(key) == store[key] # "none"
Put(key) == store' = [store EXCEPT ![key] = "fresh"]
Remove(key) == store' = [store EXCEPT ![key] = "none"]
GrowOld == store' = [k \in Keys |-> Grown(store[k])]
=============================================================================
