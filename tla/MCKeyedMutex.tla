---------------------------- MODULE MCKeyedMutex ----------------------------
(* KeyedMutex with three callers of two keys: two can share a key while    *)
(* the third deletes or creates the other one's entry.                     *)
EXTENDS KeyedMutexProofs
==============================================================================
