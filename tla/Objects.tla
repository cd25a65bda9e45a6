------------------------------- MODULE Objects -------------------------------
(***************************************************************************)
(* Whole objects: PutObject, DeleteObject and GetObject of                 *)
(* internal/backend/backend.go over the bbolt mapping and the PBS          *)
(* snapshots, with the PBS client's retry loops.                           *)
(*                                                                         *)
(* An object is two things that change one after the other: the mapping    *)
(* record of the key and the snapshot it names.  The protocol has to keep  *)
(* them together while requests for one key and for keys of one backup     *)
(* group overlap, PBS calls fail before or after they took effect, bbolt   *)
(* writes fail, and the bridge dies between any two steps.                 *)
(***************************************************************************)
EXTENDS Integers, FiniteSets

CONSTANTS
  Procs,                \* requests in flight
  Keys,                 \* (bucket, key) pairs
  Groups,               \* PBS backup groups
  Bodies,               \* object contents; the ETag is the content's MD5
  None,                 \* no mapping, no lock holder, no request
  GroupOf,              \* idmap: the group the backups of a key belong to
  MaxCollisionRetries,  \* pbs.Client.Backup's constant of that name
  MaxTransientRetries,  \* attempts of one runWithRetry call
  FreshStamps,          \* TRUE: PBS never accepts a backup time at or before one the group
                        \* ever had; FALSE: it compares with the snapshots still present
  Faults,               \* the faults that may happen, out of AllFaults
  MaxFaults,            \* bound: how many of them may
  MaxTime               \* bound: the last second of the clock

AllFaults == {"attempt",     \* a proxmox-backup-client run fails without effect
              "lost_reply",  \* a run takes effect and still reports a failure
              "store",       \* a bbolt transaction fails
              "crash"}       \* the bridge dies and is restarted

Mapping == [stamp : Nat, etag : Bodies]
Answers == {"ok", "error", "exhausted"}

ASSUME KeyAssumption == GroupOf \in [Keys -> Groups] /\ Keys \cap Groups = {}
ASSUME NoneAssumption ==
  None \notin Procs \cup Keys \cup Groups \cup Bodies \cup Mapping \cup Answers
ASSUME BoundAssumption == /\ MaxCollisionRetries \in Nat
                          /\ MaxTransientRetries \in Nat \ {0}
                          /\ FreshStamps \in BOOLEAN
                          /\ Faults \subseteq AllFaults
                          /\ MaxFaults \in Nat /\ MaxTime \in Nat

VARIABLES
  mapping,   \* bbolt bucket "objects": [stamp, etag] of each key, or None
  snaps,     \* the snapshots PBS holds
  latest,    \* the newest backup time each group has had
  holder,    \* who holds the KeyedMutex entry of a key or a group, or None
  now,       \* the clock, in seconds, the resolution of a backup time
  faults,    \* how many faults have happened
  crashes,   \* how many of them were crashes
  pc,        \* where each request is
  call,      \* what it asks: [op, key, body]
  stamp,     \* its backupTime, later usedTime
  bumps,     \* collisions its Backup call has met
  tries,     \* attempts of its current runWithRetry
  old,       \* the mapping it has read
  served,    \* the content GetObject has restored
  result     \* what it answers

env == <<latest, now, faults, crashes>>
locals == <<pc, call, stamp, bumps, tries, old, served, result>>
vars == <<mapping, snaps, latest, holder, now, faults, crashes, locals>>

Snapshot == [group : Groups, time : Nat, key : Keys, etag : Bodies,
             note : Keys \cup {None}]
Call == [op : {"put"}, key : Keys, body : Bodies]
          \cup [op : {"delete", "get"}, key : Keys, body : {None}]

KeyOf(p) == call[p].key

(* Mutant: a group is locked under the name of the key. *)
KeyAsGroup(p) == KeyOf(p)
Group(p) == GroupOf[KeyOf(p)]

Init == /\ mapping = [k \in Keys |-> None]
        /\ snaps = {}
        /\ latest = [g \in Groups |-> 0]
        /\ holder = [l \in Keys \cup Groups |-> None]
        /\ now = 1
        /\ faults = 0 /\ crashes = 0
        /\ pc = [p \in Procs |-> "idle"]
        /\ call = [p \in Procs |-> None]
        /\ stamp = [p \in Procs |-> 0]
        /\ bumps = [p \in Procs |-> 0]
        /\ tries = [p \in Procs |-> 0]
        /\ old = [p \in Procs |-> None]
        /\ served = [p \in Procs |-> None]
        /\ result = [p \in Procs |-> None]

------------------------------------------------------------------------------
At(p, here) == pc[p] = here

Goto(p, there) == pc' = [pc EXCEPT ![p] = there] /\ UNCHANGED result

Answer(p, r) == /\ pc' = [pc EXCEPT ![p] = "return"]
                /\ result' = [result EXCEPT ![p] = r]

Fault(f) == /\ f \in Faults
            /\ faults < MaxFaults
            /\ faults' = faults + 1
            /\ crashes' = IF f = "crash" THEN crashes + 1 ELSE crashes

SnapshotsAt(g, t) == {s \in snaps : s.group = g /\ s.time = t}

Free(l) == holder[l] = None

Unlock(l) == holder' = [holder EXCEPT ![l] = None]

StoreFailureIgnored(p) == Fault("store") /\ Answer(p, "ok")
StoreFails(p) == Fault("store") /\ Answer(p, "error")

(* A request arrives; PutObject has streamed its body to a scratch file. *)
Receive(p) ==
  /\ At(p, "idle")
  /\ \E c \in Call : /\ call' = [call EXCEPT ![p] = c]
                     /\ Goto(p, IF c.op = "get" THEN "read" ELSE "lockKey")
  /\ UNCHANGED <<mapping, snaps, holder, env, stamp, bumps, tries, old, served>>

(* Locks.Lock(lockKey(bucket, key)).  An upload reads the clock as soon as it has the key. *)
LockKey(p) ==
  /\ At(p, "lockKey")
  /\ Free(KeyOf(p))
  /\ holder' = [holder EXCEPT ![KeyOf(p)] = p]
  /\ \/ /\ call[p].op = "put"
        /\ stamp' = [stamp EXCEPT ![p] = now]
        /\ Goto(p, "lockGroup")
     \/ /\ call[p].op = "delete"
        /\ Goto(p, "lookup")
        /\ UNCHANGED stamp
  /\ UNCHANGED <<mapping, snaps, env, call, bumps, tries, old, served>>

(* Locks.Lock(groupLockKey(...)), with the key still held. *)
LockGroup(p) ==
  /\ At(p, "lockGroup")
  /\ Free(Group(p))
  /\ holder' = [holder EXCEPT ![Group(p)] = p]
  /\ tries' = [tries EXCEPT ![p] = 1]
  /\ Goto(p, "backup")
  /\ UNCHANGED <<mapping, snaps, env, call, stamp, bumps, old, served>>

------------------------------------------------------------------------------
(***************************************************************************)
(* pbs.Client.Backup: attempts at one backup time, each time moved on by a *)
(* second when PBS has it or a later one already.                          *)
(***************************************************************************)
LatestPresent(g) == LET times == {s.time : s \in {x \in snaps : x.group = g}}
                    IN  IF times = {} THEN 0 ELSE CHOOSE t \in times : \A u \in times : u <= t

Accepts(g, t) == t > (IF FreshStamps THEN latest[g] ELSE LatestPresent(g))

(* The server's side of a run: a snapshot appears in the group. *)
Store(p) ==
  /\ Accepts(Group(p), stamp[p])
  /\ snaps' = snaps \cup {[group |-> Group(p), time |-> stamp[p], key |-> KeyOf(p),
                           etag |-> call[p].body, note |-> None]}
  /\ latest' = [latest EXCEPT ![Group(p)] = IF @ > stamp[p] THEN @ ELSE stamp[p]]

CanBump(p) == bumps[p] < MaxCollisionRetries

BackupDone(p) ==
  /\ At(p, "backup")
  /\ Store(p)
  /\ Unlock(Group(p))
  /\ Goto(p, "notes")
  /\ UNCHANGED <<mapping, now, faults, crashes, call, stamp, bumps, tries, old, served>>

(* An attempt fails, in the network or, its effect done, on the way back. *)
(* It is repeated unchanged, or the call gives up: no attempts are left,  *)
(* the error is not transient or Client.Timeout has expired.              *)
BackupFails(p) ==
  /\ At(p, "backup")
  /\ \/ Fault("attempt") /\ UNCHANGED <<snaps, latest>>
     \/ Fault("lost_reply") /\ Store(p)
  /\ \/ /\ tries[p] < MaxTransientRetries
        /\ tries' = [tries EXCEPT ![p] = @ + 1]
        /\ UNCHANGED <<pc, result, holder>>
     \/ Unlock(Group(p)) /\ Answer(p, "error") /\ UNCHANGED tries
  /\ UNCHANGED <<mapping, now, call, stamp, bumps, old, served>>

BackupCollides(p) ==
  /\ At(p, "backup")
  /\ ~ Accepts(Group(p), stamp[p])
  /\ stamp' = [stamp EXCEPT ![p] = @ + 1]
  /\ \/ /\ CanBump(p)
        /\ bumps' = [bumps EXCEPT ![p] = @ + 1]
        /\ tries' = [tries EXCEPT ![p] = 1]
        /\ UNCHANGED <<pc, result, holder>>
     \/ /\ ~ CanBump(p)
        /\ Unlock(Group(p))
        /\ Answer(p, "exhausted")
        /\ UNCHANGED <<bumps, tries>>
  /\ UNCHANGED <<mapping, snaps, env, call, old, served>>

------------------------------------------------------------------------------
(***************************************************************************)
(* The rest of commitObjectLocked.                                         *)
(***************************************************************************)
(* The time Backup returns; the mutant is the time it was called with. *)
RequestedTime(p) == stamp[p] - bumps[p]
UsedTime(p) == stamp[p]

(* UpdateNotes writes the key on the new snapshot; a failure is only logged. *)
UpdateNotes(p) ==
  /\ At(p, "notes")
  /\ \/ /\ snaps' = {IF s \in SnapshotsAt(Group(p), UsedTime(p))
                    THEN [s EXCEPT !.note = KeyOf(p)] ELSE s : s \in snaps}
        /\ UNCHANGED <<faults, crashes>>
     \/ Fault("attempt") /\ UNCHANGED snaps
  /\ Goto(p, "readOld")
  /\ UNCHANGED <<mapping, latest, holder, now, call, stamp, bumps, tries, old, served>>

ReadOld(p) ==
  /\ At(p, "readOld")
  /\ \/ /\ old' = [old EXCEPT ![p] = mapping[KeyOf(p)]]
        /\ Goto(p, "write")
        /\ UNCHANGED <<faults, crashes>>
     \/ StoreFails(p) /\ UNCHANGED old
  /\ UNCHANGED <<mapping, snaps, latest, holder, now, call, stamp, bumps, tries, served>>

WriteMapping(p) ==
  /\ At(p, "write")
  /\ \/ /\ mapping' = [mapping EXCEPT ![KeyOf(p)] =
                         [stamp |-> UsedTime(p), etag |-> call[p].body]]
        /\ \/ old[p] # None /\ Goto(p, "forget") /\ tries' = [tries EXCEPT ![p] = 1]
           \/ old[p] = None /\ Answer(p, "ok") /\ UNCHANGED tries
        /\ UNCHANGED <<faults, crashes>>
     \/ StoreFails(p) /\ UNCHANGED <<mapping, tries>>
  /\ UNCHANGED <<snaps, latest, holder, now, call, stamp, bumps, old, served>>

------------------------------------------------------------------------------
(***************************************************************************)
(* pbs.Client.Forget of the mapping in old, by an upload that replaced it  *)
(* or by DeleteObject.  A snapshot that is not there counts as forgotten.  *)
(***************************************************************************)
(* Mutant: the snapshot of the request, not of the mapping it read. *)
RemoveOwn(p) == snaps' = snaps \ SnapshotsAt(Group(p), stamp[p])
RemoveSnapshot(p) == snaps' = snaps \ SnapshotsAt(Group(p), old[p].stamp)

ForgetDone(p) ==
  /\ At(p, "forget")
  /\ RemoveSnapshot(p)
  /\ IF call[p].op = "put" THEN Answer(p, "ok") ELSE Goto(p, "unmap")
  /\ UNCHANGED <<mapping, env, holder, call, stamp, bumps, tries, old, served>>

(* Giving up is only logged by an upload and is the answer of a deletion. *)
ForgetFails(p) ==
  /\ At(p, "forget")
  /\ \/ Fault("attempt") /\ UNCHANGED snaps
     \/ Fault("lost_reply") /\ RemoveSnapshot(p)
  /\ \/ /\ tries[p] < MaxTransientRetries
        /\ tries' = [tries EXCEPT ![p] = @ + 1]
        /\ UNCHANGED <<pc, result>>
     \/ /\ Answer(p, IF call[p].op = "put" THEN "ok" ELSE "error")
        /\ UNCHANGED tries
  /\ UNCHANGED <<mapping, latest, holder, now, call, stamp, bumps, old, served>>

(* DeleteObject's lookup; without a mapping it aborts the key's uploads (Multipart). *)
Lookup(p) ==
  /\ At(p, "lookup")
  /\ \/ /\ old' = [old EXCEPT ![p] = mapping[KeyOf(p)]]
        /\ \/ /\ mapping[KeyOf(p)] # None
              /\ tries' = [tries EXCEPT ![p] = 1]
              /\ Goto(p, "forget")
           \/ mapping[KeyOf(p)] = None /\ Answer(p, "ok") /\ UNCHANGED tries
        /\ UNCHANGED <<faults, crashes>>
     \/ StoreFails(p) /\ UNCHANGED <<old, tries>>
  /\ UNCHANGED <<mapping, snaps, latest, holder, now, call, stamp, bumps, served>>

DeleteMapping(p) ==
  /\ At(p, "unmap")
  /\ \/ /\ mapping' = [mapping EXCEPT ![KeyOf(p)] = None]
        /\ Answer(p, "ok")
        /\ UNCHANGED <<faults, crashes>>
     \/ StoreFails(p) /\ UNCHANGED mapping
  /\ UNCHANGED <<snaps, latest, holder, now, call, stamp, bumps, tries, old, served>>

------------------------------------------------------------------------------
(***************************************************************************)
(* GetObject takes no lock: it reads the mapping, then restores.           *)
(***************************************************************************)
ReadMapping(p) ==
  /\ At(p, "read")
  /\ \/ /\ old' = [old EXCEPT ![p] = mapping[KeyOf(p)]]
        /\ \/ mapping[KeyOf(p)] # None /\ Goto(p, "restore")
           \/ mapping[KeyOf(p)] = None /\ Answer(p, "ok")
        /\ UNCHANGED <<faults, crashes>>
     \/ StoreFails(p) /\ UNCHANGED old
  /\ UNCHANGED <<mapping, snaps, latest, holder, now, call, stamp, bumps, tries, served>>

Restore(p) ==
  /\ At(p, "restore")
  /\ \/ /\ \E s \in SnapshotsAt(Group(p), old[p].stamp) :
             served' = [served EXCEPT ![p] = s.etag]
        /\ Answer(p, "ok")
        /\ UNCHANGED <<faults, crashes>>
     \/ /\ SnapshotsAt(Group(p), old[p].stamp) = {}
        /\ Answer(p, "error")
        /\ UNCHANGED <<served, faults, crashes>>
     \/ Fault("attempt") /\ Answer(p, "error") /\ UNCHANGED served
  /\ UNCHANGED <<mapping, snaps, latest, holder, now, call, stamp, bumps, tries, old>>

------------------------------------------------------------------------------
Clear(S) == /\ call' = [p \in Procs |-> IF p \in S THEN None ELSE call[p]]
            /\ pc' = [p \in Procs |-> IF p \in S THEN "idle" ELSE pc[p]]
            /\ stamp' = [p \in Procs |-> IF p \in S THEN 0 ELSE stamp[p]]
            /\ bumps' = [p \in Procs |-> IF p \in S THEN 0 ELSE bumps[p]]
            /\ tries' = [p \in Procs |-> IF p \in S THEN 0 ELSE tries[p]]
            /\ old' = [p \in Procs |-> IF p \in S THEN None ELSE old[p]]
            /\ served' = [p \in Procs |-> IF p \in S THEN None ELSE served[p]]
            /\ result' = [p \in Procs |-> IF p \in S THEN None ELSE result[p]]
            /\ holder' = [l \in Keys \cup Groups |->
                            IF holder[l] \in S THEN None ELSE holder[l]]

(* The handler returns: its deferred unlock runs and the response is sent. *)
Return(p) == /\ At(p, "return")
             /\ Clear({p})
             /\ UNCHANGED <<mapping, snaps, env>>

(* The bridge dies: requests and locks are gone, bbolt and PBS are not. *)
Crash == /\ \E p \in Procs : ~ At(p, "idle")
         /\ Fault("crash")
         /\ Clear(Procs)
         /\ UNCHANGED <<mapping, snaps, latest, now>>

Tick == /\ now < MaxTime
        /\ now' = now + 1
        /\ UNCHANGED <<mapping, snaps, latest, holder, faults, crashes, locals>>

Step(p) == \/ LockKey(p) \/ LockGroup(p)
           \/ BackupDone(p) \/ BackupFails(p) \/ BackupCollides(p)
           \/ UpdateNotes(p) \/ ReadOld(p) \/ WriteMapping(p)
           \/ ForgetDone(p) \/ ForgetFails(p)
           \/ Lookup(p) \/ DeleteMapping(p)
           \/ ReadMapping(p) \/ Restore(p)
           \/ Return(p)

Next == \/ \E p \in Procs : Receive(p) \/ Step(p)
        \/ Crash
        \/ Tick

Spec == Init /\ [][Next]_vars

(***************************************************************************)
(* Every handler is code that runs on: the PBS client bounds its calls by  *)
(* Client.Timeout, bbolt transactions return.  A waiter for a KeyedMutex   *)
(* key is not overtaken for ever (KeyedMutex!EveryCallReturns).            *)
(***************************************************************************)
Fairness == \A p \in Procs : WF_vars(Step(p)) /\ SF_vars(LockKey(p)) /\ SF_vars(LockGroup(p))

FairSpec == Spec /\ Fairness

------------------------------------------------------------------------------
(***************************************************************************)
(* Properties                                                              *)
(***************************************************************************)
Pcs == {"idle", "lockKey", "lockGroup", "backup", "notes", "readOld", "write", "forget",
        "lookup", "unmap", "read", "restore", "return"}

TypeOK == /\ mapping \in [Keys -> Mapping \cup {None}]
          /\ snaps \subseteq Snapshot
          /\ latest \in [Groups -> Nat]
          /\ holder \in [Keys \cup Groups -> Procs \cup {None}]
          /\ now \in Nat /\ faults \in Nat /\ crashes \in Nat
          /\ pc \in [Procs -> Pcs]
          /\ call \in [Procs -> Call \cup {None}]
          /\ stamp \in [Procs -> Nat]
          /\ bumps \in [Procs -> 0..MaxCollisionRetries]
          /\ tries \in [Procs -> 0..MaxTransientRetries]
          /\ old \in [Procs -> Mapping \cup {None}]
          /\ served \in [Procs -> Bodies \cup {None}]
          /\ result \in [Procs -> Answers \cup {None}]

(* The snapshot a key's mapping names exists and holds what the key was given. *)
Backed(k) == \E s \in SnapshotsAt(GroupOf[k], mapping[k].stamp) :
               s.key = k /\ s.etag = mapping[k].etag

Dangling(k) == mapping[k] # None /\ ~ Backed(k)

(* ARCHITECTURE.md, "Overwrite semantics": there is never a window where a *)
(* key has no valid backing snapshot.  A step that leaves a mapping        *)
(* without its snapshot is the Forget of a DeleteObject of that very key,  *)
(* whatever overlaps, fails or crashes: never an overwrite's Forget, never *)
(* a request for another key of the group, never a mapping write.          *)
OnlyDeleteUnbacks ==
  [][\A k \in Keys : ~ Dangling(k) /\ Dangling(k)' =>
       \E p \in Procs : pc[p] = "forget" /\ call[p].op = "delete" /\ KeyOf(p) = k]_vars

(* Two keys of a group never come to name one snapshot, so forgetting the  *)
(* one key's backup cannot lose the other's.                               *)
NoSharedSnapshot ==
  \A k, l \in Keys : /\ k # l /\ GroupOf[k] = GroupOf[l]
                     /\ mapping[k] # None /\ mapping[l] # None
                     => mapping[k].stamp # mapping[l].stamp

InHand(s, p) == /\ pc[p] \in {"notes", "readOld", "write", "forget"}
                /\ KeyOf(p) = s.key
                /\ s.time = IF pc[p] = "forget" THEN old[p].stamp ELSE stamp[p]

(* Snapshots nothing will ever read or forget again. *)
Orphans == {s \in snaps : /\ mapping[s.key] = None \/ mapping[s.key].stamp # s.time
                          /\ \A p \in Procs : ~ InHand(s, p)}

(* Storage leaks only through failures, one snapshot for each: without     *)
(* any, every snapshot is some key's or in the hands of a request.  A      *)
(* crash may leak one for each request it interrupts.                      *)
LeaksAreFaults ==
  Cardinality(Orphans) <= faults + crashes * (Cardinality(Procs) - 1)

(* LIMITATIONS.md: a lost database can be reconstructed from the notes.    *)
(* The note of a mapped snapshot is written before the mapping is, so at   *)
(* every moment only as many mapped keys lack theirs as calls have failed. *)
NotesNameTheKey ==
  Cardinality({k \in Keys : mapping[k] # None /\
                 \E s \in SnapshotsAt(GroupOf[k], mapping[k].stamp) : s.note # k}) <= faults

(* backend.go:59: with Backup serialized per group, a collision can only   *)
(* ever be against committed history, never a moving target.  While a      *)
(* request is in Backup, only its own attempts add to the group.           *)
OnlyOwnAttemptsMoveHistory ==
  [][\A p \in Procs : pc[p] = "backup" /\ latest'[Group(p)] # latest[Group(p)] =>
       pc'[p] # "backup" \/ tries'[p] # tries[p]]_vars

(* backend.go:59: serializing per group removes the race in which          *)
(* collision retries are exhausted.                                        *)
CollisionsResolved == \A p \in Procs : result[p] # "exhausted"

(* No request hangs, on the locks it waits for while holding another or    *)
(* in a retry loop.                                                        *)
EveryRequestAnswered == \A p \in Procs : pc[p] # "idle" ~> pc[p] = "idle"

------------------------------------------------------------------------------
(***************************************************************************)
(* Objects implements S3Objects: the content of a key is the ETag of its   *)
(* mapping, an upload or deletion takes effect when the mapping changes    *)
(* and a download when it reads the mapping.  The steps on snapshots are   *)
(* invisible.                                                              *)
(***************************************************************************)
Content(m) == IF m = None THEN None ELSE m.etag

(* An upload that forgets the superseded snapshot has had its effect. *)
Decided(p) == pc[p] = "return" \/ (pc[p] = "forget" /\ call[p].op = "put")

Phase(p) == IF pc[p] = "idle" THEN "idle"
            ELSE IF Decided(p) THEN "done"
            ELSE IF pc[p] = "restore" THEN "read"
            ELSE "pending"

Seen(p) == IF pc[p] = "idle" THEN None
           ELSE IF call[p].op = "get" THEN Content(old[p]) ELSE None

Status(p) == IF result[p] \in {"error", "exhausted"} THEN "error" ELSE "ok"

Reply(p) == IF pc[p] = "idle" THEN None
            ELSE IF Decided(p) THEN [status |-> Status(p), body |-> served[p]]
            ELSE None

Abstract == INSTANCE S3Objects
              WITH objects <- [k \in Keys |-> Content(mapping[k])],
                   phase <- [p \in Procs |-> Phase(p)],
                   request <- call,
                   seen <- [p \in Procs |-> Seen(p)],
                   answer <- [p \in Procs |-> Reply(p)]

ImplementsS3Objects == Abstract!Spec
==============================================================================
