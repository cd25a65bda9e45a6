------------------------------ MODULE KeyedMutex -----------------------------
(***************************************************************************)
(* store.KeyedMutex (internal/store/lock.go): a map from key to a          *)
(* reference-counted mutex, the map and the counts guarded by one mutex.   *)
(* The entry of a key exists only while some caller uses it: the first     *)
(* caller creates it, the last one deletes it.  One action per operation   *)
(* on a mutex and one per critical section of k.mu.                        *)
(***************************************************************************)
EXTENDS Naturals, FiniteSets

CONSTANTS Callers,  \* calls of Lock (each with the unlock function it returned)
          Keys,
          Mutexes,  \* the refCountedMutex objects the allocator can hand out
          None      \* no caller, no key, no object

ASSUME NoneAssumption == None \notin Callers \cup Keys \cup Mutexes
ASSUME CallersAssumption == IsFiniteSet(Callers)

VARIABLES mu,     \* the caller that has locked k.mu, or None
          locks,  \* k.locks: the object of each key, None where the map has no entry
          ref,    \* rm.ref of each object
          owner,  \* the caller that has locked rm.mu, or None
          pc,     \* where each caller is
          key,    \* its argument
          rm      \* its local variable rm

vars == <<mu, locks, ref, owner, pc, key, rm>>

Init == /\ mu = None
        /\ locks = [k \in Keys |-> None]
        /\ ref = [o \in Mutexes |-> 0]
        /\ owner = [o \in Mutexes |-> None]
        /\ pc = [c \in Callers |-> "idle"]
        /\ key = [c \in Callers |-> None]
        /\ rm = [c \in Callers |-> None]

(* An object nothing refers to: one the allocator may return for &refCountedMutex{}. *)
Fresh(o) == /\ \A k \in Keys : locks[k] # o
            /\ \A c \in Callers : rm[c] # o

At(c, here, there) == /\ pc[c] = here
                      /\ pc' = [pc EXCEPT ![c] = there]

(* Mutants, each a mistake in the operator after it: the last user's test always *)
(* true or made before the decrement, a count not taken, k.mu not unlocked.      *)
AnyUser(c) == TRUE
NoUserLeft(c) == ref[rm[c]] = 0

(* Whether rm.ref is 0 once this caller is uncounted. *)
LastUser(c) == ref[rm[c]] = 1

Increment(n) == n + 1

KeepMu == UNCHANGED mu
ReleaseMu == mu' = None

(* Lock(k) is called ... *)
Call(c, k) == /\ At(c, "idle", "called")
              /\ key' = [key EXCEPT ![c] = k]
              /\ UNCHANGED <<mu, locks, ref, owner, rm>>

(* ... and does k.mu.Lock(). *)
LockMu(c) == /\ At(c, "called", "find")
             /\ mu = None
             /\ mu' = c
             /\ UNCHANGED <<locks, ref, owner, key, rm>>

(* Under k.mu: look the key up, create its entry when missing, count this caller. *)
Find(c) ==
  /\ At(c, "find", "found")
  /\ \E o \in Mutexes :
       /\ \/ /\ locks[key[c]] = o
             /\ ref' = [ref EXCEPT ![o] = Increment(@)]
             /\ UNCHANGED <<locks, owner>>
          \/ /\ locks[key[c]] = None
             /\ Fresh(o)
             /\ locks' = [locks EXCEPT ![key[c]] = o]
             /\ ref' = [ref EXCEPT ![o] = Increment(0)]
             /\ owner' = [owner EXCEPT ![o] = None]
       /\ rm' = [rm EXCEPT ![c] = o]
  /\ UNCHANGED <<mu, key>>

UnlockMu(c) == /\ At(c, "found", "wait")
               /\ ReleaseMu
               /\ UNCHANGED <<locks, ref, owner, key, rm>>

(* rm.mu.Lock(), after which Lock returns. *)
Acquire(c) == /\ At(c, "wait", "held")
              /\ owner[rm[c]] = None
              /\ owner' = [owner EXCEPT ![rm[c]] = c]
              /\ UNCHANGED <<mu, locks, ref, key, rm>>

(* The unlock function: first rm.mu.Unlock() ... *)
Unlock(c) == /\ At(c, "held", "released")
             /\ owner' = [owner EXCEPT ![rm[c]] = None]
             /\ UNCHANGED <<mu, locks, ref, key, rm>>

(* ... then k.mu.Lock() ... *)
RelockMu(c) == /\ At(c, "released", "drop")
               /\ mu = None
               /\ mu' = c
               /\ UNCHANGED <<locks, ref, owner, key, rm>>

(* ... then uncount this caller and delete the entry nobody uses any more ... *)
Drop(c) == /\ At(c, "drop", "dropped")
           /\ ref' = [ref EXCEPT ![rm[c]] = @ - 1]
           /\ locks' = IF LastUser(c) THEN [locks EXCEPT ![key[c]] = None] ELSE locks
           /\ UNCHANGED <<mu, owner, key, rm>>

(* ... and k.mu.Unlock(). *)
UnlockMuAgain(c) == /\ At(c, "dropped", "idle")
                    /\ ReleaseMu
                    /\ key' = [key EXCEPT ![c] = None]
                    /\ rm' = [rm EXCEPT ![c] = None]
                    /\ UNCHANGED <<locks, ref, owner>>

Next == \E c \in Callers :
          \/ \E k \in Keys : Call(c, k)
          \/ LockMu(c)
          \/ Find(c)
          \/ UnlockMu(c)
          \/ Acquire(c)
          \/ Unlock(c)
          \/ RelockMu(c)
          \/ Drop(c)
          \/ UnlockMuAgain(c)

Spec == Init /\ [][Next]_vars

(***************************************************************************)
(* sync.Mutex hands the lock to the longest waiter once that one has       *)
(* waited a millisecond, so no waiter is overtaken for ever: strong        *)
(* fairness on the three acquisitions.  The other steps are straight-line  *)
(* code, and a holder releases, because every use of the lock is a         *)
(* deferred unlock around calls that return: weak fairness.  Calling Lock  *)
(* is the client's choice, so Call has none.                               *)
(***************************************************************************)
Fairness == \A c \in Callers :
              /\ SF_vars(LockMu(c)) /\ SF_vars(Acquire(c)) /\ SF_vars(RelockMu(c))
              /\ WF_vars(Find(c)) /\ WF_vars(UnlockMu(c)) /\ WF_vars(Unlock(c))
              /\ WF_vars(Drop(c)) /\ WF_vars(UnlockMuAgain(c))

FairSpec == Spec /\ Fairness

------------------------------------------------------------------------------
(***************************************************************************)
(* Properties                                                              *)
(***************************************************************************)
Counted == {"found", "wait", "held", "released", "drop"}
InMu == {"find", "found", "drop", "dropped"}

TypeOK == /\ mu \in Callers \cup {None}
          /\ locks \in [Keys -> Mutexes \cup {None}]
          /\ ref \in [Mutexes -> Nat]
          /\ owner \in [Mutexes -> Callers \cup {None}]
          /\ pc \in [Callers -> Counted \cup InMu \cup {"idle", "called"}]
          /\ key \in [Callers -> Keys \cup {None}]
          /\ rm \in [Callers -> Mutexes \cup {None}]

(* Two callers never hold the same key at once: what every protocol of the *)
(* backend that is longer than one bbolt transaction relies on.            *)
MutualExclusion ==
  \A c, d \in Callers :
    pc[c] = "held" /\ pc[d] = "held" /\ key[c] = key[d] => c = d

(* The callers that count in ref of object o. *)
Users(o) == {c \in Callers : rm[c] = o /\ pc[c] \in Counted}

(* The count of an object is the number of callers that still use it, so   *)
(* no decrement deletes an entry that someone waits on.                    *)
RefCountExact == \A o \in Mutexes : ref[o] = Cardinality(Users(o))

(* Callers that have looked a key up and are not done with it share the    *)
(* object the map holds: a newcomer cannot get a second mutex for the key. *)
SameMutex == \A c \in Callers : pc[c] \in Counted => locks[key[c]] = rm[c]

(* The map does not grow with the keys ever used: an entry outlives its    *)
(* users nowhere, not even inside the critical sections of k.mu.           *)
NoStaleEntry == \A k \in Keys : locks[k] # None => Users(locks[k]) # {}

(* Every call of Lock returns. *)
EveryCallReturns == \A c \in Callers : pc[c] = "called" ~> pc[c] = "held"

(* The detailed lock implements the abstract one.  A caller is waiting     *)
(* from the call on, and idle again once rm.mu is unlocked: the rest of    *)
(* the unlock function is bookkeeping the other callers do not see.        *)
Phase(c) == IF pc[c] = "held" THEN "holding"
            ELSE IF pc[c] \in {"called", "find", "found", "wait"} THEN "waiting"
            ELSE "idle"

Want(c) == IF Phase(c) = "idle" THEN None ELSE key[c]

Abstract == INSTANCE KeyedLock
              WITH NoKey <- None,
                   phase <- [c \in Callers |-> Phase(c)],
                   want <- [c \in Callers |-> Want(c)]

(* Seen through Phase and Want, every step of the lock is a step of *)
(* KeyedLock or none at all.                                        *)
ImplementsKeyedLock == Abstract!Spec
==============================================================================
