------------------------------ MODULE KeyedLock ------------------------------
(***************************************************************************)
(* What store.KeyedMutex promises its callers: at most one of them holds   *)
(* a key, and callers of different keys never wait for each other.  A      *)
(* "caller" is one call of Lock together with the unlock function that     *)
(* call returned, so a request that holds two keys is two callers.         *)
(***************************************************************************)
CONSTANTS Callers,  \* the calls of Lock that can be outstanding at once
          Keys,     \* lockKey and groupLockKey values
          NoKey     \* the key of a caller that asked for none

VARIABLES phase,    \* what a caller is doing: "idle", "waiting" or "holding"
          want      \* the key it waits for or holds

vars == <<phase, want>>

Init == /\ phase = [c \in Callers |-> "idle"]
        /\ want = [c \in Callers |-> NoKey]

(* Lock(k) is called. *)
Request(c, k) == /\ phase[c] = "idle"
                 /\ phase' = [phase EXCEPT ![c] = "waiting"]
                 /\ want' = [want EXCEPT ![c] = k]

Free(k) == \A d \in Callers : ~ (phase[d] = "holding" /\ want[d] = k)

(* Lock returns. *)
Grant(c) == /\ phase[c] = "waiting"
            /\ Free(want[c])
            /\ phase' = [phase EXCEPT ![c] = "holding"]
            /\ UNCHANGED want

(* The function Lock returned is called. *)
Release(c) == /\ phase[c] = "holding"
              /\ phase' = [phase EXCEPT ![c] = "idle"]
              /\ want' = [want EXCEPT ![c] = NoKey]

Next == \E c \in Callers : \/ \E k \in Keys : Request(c, k)
                           \/ Grant(c)
                           \/ Release(c)

Spec == Init /\ [][Next]_vars
==============================================================================
