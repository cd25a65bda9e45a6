--------------------------- MODULE KeyedMutexProofs --------------------------
(***************************************************************************)
(* KeyedMutex is a correct lock for any number of callers, keys and        *)
(* objects.  The inductive invariant adds to the properties who is inside  *)
(* k.mu, who has locked which object, and that no object serves two keys.  *)
(***************************************************************************)
EXTENDS KeyedMutex, FiniteSetTheorems, TLAPS

MuInv == \A c \in Callers : mu = c <=> pc[c] \in InMu

OwnerInv == \A o \in Mutexes, c \in Callers :
              owner[o] = c <=> pc[c] = "held" /\ rm[c] = o

LocalsInv == \A c \in Callers :
               /\ pc[c] # "idle" => key[c] \in Keys
               /\ pc[c] \in Counted => rm[c] \in Mutexes

OneKeyPerMutex == \A k, l \in Keys : locks[k] = locks[l] /\ locks[k] # None => k = l

IInv == /\ TypeOK
        /\ MuInv
        /\ OwnerInv
        /\ LocalsInv
        /\ OneKeyPerMutex
        /\ SameMutex
        /\ RefCountExact
        /\ NoStaleEntry

(* Nobody calls and the map is empty. *)
LEMMA InitInv == Init => IInv
  <1> SUFFICES ASSUME Init PROVE IInv
    OBVIOUS
  <1> USE NoneAssumption DEF Init, Counted, InMu
  <1>1. TypeOK
    BY DEF TypeOK
  <1>2. MuInv /\ OwnerInv /\ LocalsInv /\ OneKeyPerMutex /\ SameMutex /\ NoStaleEntry
    BY DEF MuInv, OwnerInv, LocalsInv, OneKeyPerMutex, SameMutex, NoStaleEntry
  <1>3. RefCountExact
    <2> SUFFICES ASSUME NEW o \in Mutexes PROVE ref[o] = Cardinality(Users(o))
      BY DEF RefCountExact
    <2>1. Users(o) = {}
      BY DEF Users
    <2>2. QED
      BY <2>1, FS_EmptySet
  <1>4. QED
    BY <1>1, <1>2, <1>3 DEF IInv

(* A step that moves no caller into or out of Counted leaves the users of  *)
(* every object as they were.                                              *)
LEMMA SameUsers ==
  ASSUME NEW c \in Callers, rm' = rm,
         \A d \in Callers : pc'[d] \in Counted <=> pc[d] \in Counted
  PROVE  \A o : Users(o)' = Users(o)
  BY DEF Users

(* Callers are finite in number, so users can be counted. *)
LEMMA UsersFinite == \A o : IsFiniteSet(Users(o)) /\ Cardinality(Users(o)) \in Nat
  <1> SUFFICES ASSUME NEW o PROVE IsFiniteSet(Users(o)) /\ Cardinality(Users(o)) \in Nat
    OBVIOUS
  <1>1. Users(o) \in SUBSET Callers
    BY DEF Users
  <1>2. QED
    BY <1>1, CallersAssumption, FS_Subset, FS_CardinalityType

(* The steps that touch neither the map nor the counts. *)
LEMMA PlainStep ==
  ASSUME IInv, NEW c \in Callers,
         \/ \E k \in Keys : Call(c, k)
         \/ LockMu(c)
         \/ UnlockMu(c)
         \/ Acquire(c)
         \/ Unlock(c)
         \/ RelockMu(c)
  PROVE  IInv'
  <1> USE NoneAssumption DEF ReleaseMu, Increment, LastUser
  <1>1. TypeOK'
    BY DEF IInv, TypeOK, Call, LockMu, UnlockMu, Acquire, Unlock, RelockMu, At, Counted, InMu
  <1>2. MuInv'
    BY DEF IInv, MuInv, TypeOK, Call, LockMu, UnlockMu, Acquire, Unlock, RelockMu, At, InMu
  <1>3. OwnerInv'
    BY DEF IInv, OwnerInv, LocalsInv, TypeOK, Call, LockMu, UnlockMu, Acquire, Unlock,
           RelockMu, At, Counted
  <1>4. LocalsInv'
    BY DEF IInv, LocalsInv, TypeOK, Call, LockMu, UnlockMu, Acquire, Unlock, RelockMu, At,
           Counted
  <1>5. OneKeyPerMutex'
    BY DEF IInv, OneKeyPerMutex, Call, LockMu, UnlockMu, Acquire, Unlock, RelockMu
  <1>6. SameMutex'
    BY DEF IInv, SameMutex, TypeOK, Call, LockMu, UnlockMu, Acquire, Unlock, RelockMu, At,
           Counted
  <1>7. \A o : Users(o)' = Users(o)
    <2>1. /\ rm' = rm
          /\ \A d \in Callers : pc'[d] \in Counted <=> pc[d] \in Counted
      BY DEF IInv, TypeOK, Call, LockMu, UnlockMu, Acquire, Unlock, RelockMu, At, Counted
    <2>2. QED
      BY <2>1, SameUsers
  <1>8. ref' = ref /\ locks' = locks
    BY DEF Call, LockMu, UnlockMu, Acquire, Unlock, RelockMu
  <1>9. RefCountExact'
    BY <1>7, <1>8 DEF IInv, RefCountExact
  <1>10. NoStaleEntry'
    BY <1>7, <1>8 DEF IInv, NoStaleEntry
  <1>11. QED
    BY <1>1, <1>2, <1>3, <1>4, <1>5, <1>6, <1>9, <1>10 DEF IInv

(* Leaving the unlock function. *)
LEMMA LastStep == ASSUME IInv, NEW c \in Callers, UnlockMuAgain(c) PROVE IInv'
  <1> USE NoneAssumption DEF UnlockMuAgain, At, ReleaseMu
  <1>1. TypeOK' /\ MuInv' /\ LocalsInv' /\ OneKeyPerMutex' /\ SameMutex'
    BY DEF IInv, TypeOK, MuInv, LocalsInv, OneKeyPerMutex, SameMutex, Counted, InMu
  <1>2. OwnerInv'
    BY DEF IInv, TypeOK, OwnerInv
  <1>3. \A o : Users(o)' = Users(o)
    BY DEF IInv, TypeOK, Users, Counted
  <1>4. RefCountExact' /\ NoStaleEntry'
    BY <1>3 DEF IInv, RefCountExact, NoStaleEntry
  <1>5. QED
    BY <1>1, <1>2, <1>4 DEF IInv

(* Looking a key up: the caller joins the users of the entry it finds or makes. *)
LEMMA FindStep == ASSUME IInv, NEW c \in Callers, Find(c) PROVE IInv'
  <1> USE NoneAssumption DEF ReleaseMu, Increment, LastUser
  <1>1. PICK o \in Mutexes :
          /\ \/ /\ locks[key[c]] = o
                /\ ref' = [ref EXCEPT ![o] = Increment(@)]
                /\ UNCHANGED <<locks, owner>>
             \/ /\ locks[key[c]] = None
                /\ Fresh(o)
                /\ locks' = [locks EXCEPT ![key[c]] = o]
                /\ ref' = [ref EXCEPT ![o] = Increment(0)]
                /\ owner' = [owner EXCEPT ![o] = None]
          /\ rm' = [rm EXCEPT ![c] = o]
    BY DEF Find
  <1>2. /\ pc[c] = "find" /\ pc' = [pc EXCEPT ![c] = "found"]
        /\ mu' = mu /\ key' = key /\ key[c] \in Keys
    BY DEF Find, At, IInv, LocalsInv
  <1>3. TypeOK'
    BY <1>1, <1>2 DEF IInv, TypeOK, Counted, InMu
  <1>4. MuInv' /\ LocalsInv'
    BY <1>1, <1>2 DEF IInv, TypeOK, MuInv, LocalsInv, Counted, InMu
  <1>5. OneKeyPerMutex'
    BY <1>1, <1>2 DEF IInv, TypeOK, OneKeyPerMutex, Fresh
  <1>6. OwnerInv'
    BY <1>1, <1>2 DEF IInv, TypeOK, OwnerInv, Fresh
  <1>7. SameMutex'
    BY <1>1, <1>2 DEF IInv, TypeOK, SameMutex, LocalsInv, Counted
  <1>8. /\ Users(o)' = Users(o) \cup {c}
        /\ c \notin Users(o)
        /\ \A p \in Mutexes \ {o} : Users(p)' = Users(p)
    BY <1>1, <1>2 DEF IInv, TypeOK, Users, Counted
  <1>9. RefCountExact'
    <2>1. Cardinality(Users(o) \cup {c}) = Cardinality(Users(o)) + 1
      BY <1>8, UsersFinite, FS_AddElement
    <2>2. Fresh(o) => Users(o) = {}
      BY DEF Fresh, Users
    <2>3. ref'[o] = Cardinality(Users(o)')
      <3>1. Cardinality(Users(o)') = Cardinality(Users(o)) + 1
        BY <1>8, <2>1
      <3>2. ref[o] = Cardinality(Users(o)) /\ ref \in [Mutexes -> Nat]
        BY DEF IInv, TypeOK, RefCountExact
      <3>3. CASE locks[key[c]] = o
        BY <1>1, <3>1, <3>2, <3>3
      <3>4. CASE locks[key[c]] # o
        <4>1. Fresh(o) /\ ref' = [ref EXCEPT ![o] = Increment(0)]
          BY <1>1, <3>4
        <4>2. Cardinality(Users(o)) = 0
          BY <2>2, <4>1, FS_EmptySet
        <4>3. QED
          BY <3>1, <3>2, <4>1, <4>2
      <3>5. QED
        BY <3>3, <3>4
    <2>4. \A p \in Mutexes \ {o} : ref'[p] = ref[p]
      BY <1>1 DEF IInv, TypeOK
    <2>5. QED
      BY <1>8, <2>3, <2>4 DEF IInv, RefCountExact
  <1>10. NoStaleEntry'
    BY <1>1, <1>2, <1>8 DEF IInv, TypeOK, NoStaleEntry
  <1>11. QED
    BY <1>3, <1>4, <1>5, <1>6, <1>7, <1>9, <1>10 DEF IInv

(* Leaving the users of an object, and deleting its entry as the last one. *)
LEMMA DropStep == ASSUME IInv, NEW c \in Callers, Drop(c) PROVE IInv'
  <1> USE NoneAssumption DEF ReleaseMu, Increment, LastUser
  <1>0. PICK o \in Mutexes : rm[c] = o
    BY DEF Drop, At, IInv, LocalsInv, Counted
  <1>1. /\ pc[c] = "drop" /\ pc' = [pc EXCEPT ![c] = "dropped"]
        /\ rm[c] = o /\ key[c] \in Keys /\ locks[key[c]] = o
        /\ ref' = [ref EXCEPT ![o] = @ - 1]
        /\ mu' = mu /\ owner' = owner /\ key' = key /\ rm' = rm
    BY <1>0 DEF Drop, At, IInv, LocalsInv, SameMutex, Counted
  <1>2. locks' = IF ref[o] = 1 THEN [locks EXCEPT ![key[c]] = None] ELSE locks
    BY <1>0 DEF Drop
  <1>3. /\ c \in Users(o)
        /\ Users(o)' = Users(o) \ {c}
        /\ \A p \in Mutexes \ {o} : Users(p)' = Users(p)
    BY <1>1 DEF IInv, TypeOK, Users, Counted
  <1>4. /\ Cardinality(Users(o)') = Cardinality(Users(o)) - 1
        /\ Cardinality(Users(o)') \in Nat
        /\ Cardinality(Users(o)') = 0 <=> Users(o)' = {}
    <2>1. IsFiniteSet(Users(o)) /\ IsFiniteSet(Users(o) \ {c})
      BY UsersFinite, FS_RemoveElement
    <2>2. QED
      BY <1>3, <2>1, FS_RemoveElement, FS_EmptySet, FS_CardinalityType
  <1>5. ref[o] = Cardinality(Users(o)) /\ ref[o] \in Nat
    BY <1>1 DEF IInv, TypeOK, RefCountExact
  <1>6. ref'[o] = ref[o] - 1 /\ \A p \in Mutexes \ {o} : ref'[p] = ref[p]
    BY <1>1 DEF IInv, TypeOK
  <1>7. RefCountExact'
    BY <1>3, <1>4, <1>5, <1>6 DEF IInv, RefCountExact
  <1>8. TypeOK'
    <2>1. ref[o] - 1 \in Nat
      BY <1>4, <1>5
    <2>2. ref' \in [Mutexes -> Nat]
      BY <1>1, <2>1 DEF IInv, TypeOK
    <2>3. QED
      BY <1>1, <1>2, <2>2 DEF IInv, TypeOK, Counted, InMu
  <1>9. MuInv' /\ OwnerInv' /\ LocalsInv'
    BY <1>1 DEF IInv, TypeOK, MuInv, OwnerInv, LocalsInv, Counted, InMu
  <1>10. OneKeyPerMutex'
    BY <1>1, <1>2 DEF IInv, TypeOK, OneKeyPerMutex
  <1>11. SameMutex'
    <2> SUFFICES ASSUME NEW d \in Callers, pc'[d] \in Counted
                 PROVE  locks'[key[d]] = rm[d]
      BY <1>1 DEF SameMutex
    <2>1. d # c /\ pc[d] \in Counted /\ locks[key[d]] = rm[d]
      BY <1>1 DEF IInv, TypeOK, SameMutex, Counted
    <2>2. CASE ref[o] = 1
      <3>1. d \notin Users(o)
        BY <1>3, <1>4, <1>5, <2>1, <2>2
      <3>2. key[d] # key[c]
        BY <1>1, <2>1, <3>1 DEF Users
      <3>3. QED
        BY <1>1, <1>2, <2>1, <2>2, <3>2 DEF IInv, TypeOK
    <2>3. CASE ref[o] # 1
      BY <1>2, <2>1, <2>3
    <2>4. QED
      BY <2>2, <2>3
  <1>12. NoStaleEntry'
    <2> SUFFICES ASSUME NEW k \in Keys, NEW p \in Mutexes, locks'[k] = p
                 PROVE  Users(p)' # {}
      BY <1>8 DEF NoStaleEntry, TypeOK
    <2>1. locks[k] = p /\ Users(p) # {}
      BY <1>1, <1>2 DEF IInv, TypeOK, NoStaleEntry
    <2>2. CASE p = o
      <3>1. k = key[c]
        BY <1>1, <2>1, <2>2 DEF IInv, OneKeyPerMutex
      <3>2. ref[o] # 1
        BY <1>1, <1>2, <3>1 DEF IInv, TypeOK
      <3>3. QED
        BY <1>4, <1>5, <2>2, <3>2
    <2>3. CASE p # o
      BY <1>3, <2>1, <2>3
    <2>4. QED
      BY <2>2, <2>3
  <1>13. QED
    BY <1>7, <1>8, <1>9, <1>10, <1>11, <1>12 DEF IInv

(* Every step of every caller keeps every part. *)
LEMMA NextInv == IInv /\ [Next]_vars => IInv'
  <1> SUFFICES ASSUME IInv, [Next]_vars PROVE IInv'
    OBVIOUS
  <1>1. CASE UNCHANGED vars
    <2>1. \A o : Users(o)' = Users(o)
      BY <1>1 DEF vars, Users
    <2>2. QED
      BY <1>1, <2>1 DEF vars, IInv, TypeOK, MuInv, OwnerInv, LocalsInv, OneKeyPerMutex,
                        SameMutex, RefCountExact, NoStaleEntry
  <1>2. CASE Next
    BY <1>2, PlainStep, LastStep, FindStep, DropStep DEF Next
  <1>3. QED
    BY <1>1, <1>2

(* The lock's state is consistent in every reachable state: the counts are *)
(* exact, no entry is stale and users of a key share one mutex.            *)
THEOREM Invariance == Spec => []IInv
  BY InitInv, NextInv, PTL DEF Spec

(* No two callers hold a key at once, however many call: the two hold the  *)
(* object of the key, and an object has one owner.                         *)
THEOREM Exclusion == Spec => []MutualExclusion
  <1>1. IInv => MutualExclusion
    BY NoneAssumption DEF IInv, OwnerInv, LocalsInv, SameMutex, MutualExclusion, Counted
  <1>2. QED
    BY <1>1, Invariance, PTL

(* No entry of the map outlives its users, however many keys are used. *)
THEOREM NoLeak == Spec => []NoStaleEntry
  <1>1. IInv => NoStaleEntry
    BY DEF IInv
  <1>2. QED
    BY <1>1, Invariance, PTL

(* The count of a mutex is the number of callers that use it. *)
THEOREM Counts == Spec => []RefCountExact
  <1>1. IInv => RefCountExact
    BY DEF IInv
  <1>2. QED
    BY <1>1, Invariance, PTL

(* KeyedMutex implements KeyedLock: what a caller sees of it is the        *)
(* abstract lock, because the owner of an object holds its key.            *)
THEOREM Refinement == Spec => ImplementsKeyedLock
  <1> USE NoneAssumption DEF ReleaseMu, Increment, LastUser
  <1>1. Init => Abstract!Init
    BY DEF Init, Abstract!Init, Phase, Want
  <1>2. IInv /\ [Next]_vars => [Abstract!Next]_(Abstract!vars)
    <2> SUFFICES ASSUME IInv, [Next]_vars PROVE [Abstract!Next]_(Abstract!vars)
      OBVIOUS
    <2> DEFINE Same == \A c \in Callers : Phase(c)' = Phase(c) /\ Want(c)' = Want(c)
    <2>1. Same => UNCHANGED Abstract!vars
      BY DEF Abstract!vars
    <2>2. ASSUME NEW c \in Callers, NEW k \in Keys, Call(c, k) PROVE Abstract!Request(c, k)
      BY <2>2 DEF Call, At, IInv, TypeOK, Abstract!Request, Phase, Want
    <2>3. ASSUME NEW c \in Callers,
                 LockMu(c) \/ Find(c) \/ UnlockMu(c) \/ RelockMu(c) \/ Drop(c) \/ UnlockMuAgain(c)
          PROVE  Same
      BY <2>3 DEF LockMu, Find, UnlockMu, RelockMu, Drop, UnlockMuAgain, At, IInv, TypeOK,
                  Phase, Want
    <2>4. ASSUME NEW c \in Callers, Acquire(c) PROVE Abstract!Grant(c)
      <3>1. Abstract!Free(key[c])
        BY <2>4 DEF Abstract!Free, Acquire, At, IInv, OwnerInv, SameMutex, LocalsInv, Counted,
                    Phase, Want
      <3>2. QED
        BY <2>4, <3>1 DEF Acquire, At, IInv, TypeOK, Abstract!Grant, Phase, Want
    <2>5. ASSUME NEW c \in Callers, Unlock(c) PROVE Abstract!Release(c)
      BY <2>5 DEF Unlock, At, IInv, TypeOK, Abstract!Release, Phase, Want
    <2>6. CASE UNCHANGED vars
      BY <2>1, <2>6 DEF vars, Phase, Want
    <2>7. QED
      BY <2>1, <2>2, <2>3, <2>4, <2>5, <2>6 DEF Next, Abstract!Next
  <1>3. QED
    BY <1>1, <1>2, Invariance, PTL DEF Spec, ImplementsKeyedLock, Abstract!Spec
==============================================================================
