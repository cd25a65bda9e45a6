---------------------------- MODULE ObjectsProofs ----------------------------
(***************************************************************************)
(* Objects keeps mappings and snapshots together for any number of         *)
(* requests, keys, groups, faults and retries, as long as PBS never        *)
(* accepts a backup time twice (FreshStamps): its invariant, then what     *)
(* leaks and which notes are missing, by counting, and at the end that it  *)
(* implements the store of S3Objects.                                      *)
(***************************************************************************)
EXTENDS Objects, FiniteSetTheorems, TLAPS

Uploading == {"lockGroup", "backup", "notes", "readOld", "write"}
InFlight == {"notes", "readOld", "write"}
Locked == Uploading \cup {"forget", "lookup", "unmap"}
Unread == {"idle", "lockKey", "lockGroup", "backup", "notes", "readOld", "lookup", "read"}

(* Where a request can be, by what it asks, and what it has found out there. *)
PhaseInv ==
  \A p \in Procs :
    /\ pc[p] # "idle" => call[p] \in Call
    /\ pc[p] \in Uploading => call[p].op = "put"
    /\ pc[p] \in {"lookup", "unmap"} => call[p].op = "delete"
    /\ pc[p] \in {"lockKey", "forget"} => call[p].op \in {"put", "delete"}
    /\ pc[p] \in {"read", "restore"} => call[p].op = "get"
    /\ pc[p] \in Unread => old[p] = None
    /\ pc[p] \in {"forget", "restore"} => old[p] # None
    /\ pc[p] # "return" => served[p] = None /\ result[p] = None
    /\ pc[p] = "return" => result[p] # None
    /\ pc[p] = "idle" => call[p] = None

(* A request is the holder of the locks it has taken. *)
LockInv ==
  \A p \in Procs :
    /\ pc[p] \in Locked => holder[KeyOf(p)] = p
    /\ pc[p] = "backup" => holder[Group(p)] = p

(* Snapshots are of the group their key belongs to and not newer than its latest. *)
HistoryInv == \A s \in snaps : s.group = GroupOf[s.key] /\ s.time <= latest[s.group]

(* A backup of the key k was made at t, with content e; if it is still there it is that. *)
Names(k, t, e) == /\ t <= latest[GroupOf[k]]
                  /\ \A s \in SnapshotsAt(GroupOf[k], t) : s.key = k /\ s.etag = e

MappingNames ==
  \A k \in Keys : mapping[k] # None => Names(k, mapping[k].stamp, mapping[k].etag)

OldNames ==
  \A p \in Procs : old[p] # None => Names(KeyOf(p), old[p].stamp, old[p].etag)

(* The snapshot of an upload that has not written its mapping yet is there. *)
StampNames ==
  \A p \in Procs : pc[p] \in InFlight =>
    /\ Names(KeyOf(p), stamp[p], call[p].body)
    /\ SnapshotsAt(Group(p), stamp[p]) # {}

(* An upload supersedes a snapshot other than the one it has made. *)
Supersedes ==
  \A p \in Procs :
    /\ pc[p] \in {"notes", "readOld"} /\ mapping[KeyOf(p)] # None =>
         mapping[KeyOf(p)].stamp # stamp[p]
    /\ pc[p] = "write" /\ old[p] # None => old[p].stamp # stamp[p]
    /\ pc[p] = "forget" /\ call[p].op = "put" /\ mapping[KeyOf(p)] # None =>
         mapping[KeyOf(p)].stamp # old[p].stamp

StampInv == /\ HistoryInv
            /\ MappingNames /\ OldNames /\ StampNames
            /\ Supersedes
            /\ NoSharedSnapshot

IInv == /\ TypeOK
        /\ PhaseInv
        /\ LockInv
        /\ FreshStamps => StampInv

------------------------------------------------------------------------------
(* No request, no mapping, no snapshot. *)
LEMMA InitInv == Init => IInv
  <1> SUFFICES ASSUME Init PROVE IInv
    OBVIOUS
  <1> USE NoneAssumption, KeyAssumption, BoundAssumption DEF Init
  <1>1. TypeOK
    BY DEF TypeOK, Pcs
  <1>2. PhaseInv /\ LockInv
    BY DEF PhaseInv, LockInv, Uploading, Locked, Unread
  <1>3. StampInv
    BY DEF StampInv, HistoryInv, MappingNames, OldNames, StampNames, Supersedes,
           NoSharedSnapshot, InFlight
  <1>4. QED
    BY <1>1, <1>2, <1>3 DEF IInv

(* What a request asks is well typed. *)
LEMMA CallType ==
  ASSUME IInv, NEW p \in Procs, pc[p] # "idle"
  PROVE  /\ KeyOf(p) \in Keys /\ Group(p) \in Groups
         /\ call[p].op = "put" => call[p].body \in Bodies
  BY KeyAssumption DEF IInv, PhaseInv, Call, KeyOf, Group

(* The snapshot a Backup adds is one. *)
LEMMA StoreType ==
  ASSUME IInv, NEW p \in Procs, At(p, "backup"), Store(p)
  PROVE  snaps' \subseteq Snapshot /\ latest' \in [Groups -> Nat]
  <1>1. /\ KeyOf(p) \in Keys /\ Group(p) \in Groups
        /\ call[p].body \in Bodies /\ stamp[p] \in Nat
    BY CallType DEF At, IInv, TypeOK, PhaseInv, Uploading
  <1>2. [group |-> Group(p), time |-> stamp[p], key |-> KeyOf(p), etag |-> call[p].body,
         note |-> None] \in Snapshot
    BY <1>1 DEF Snapshot
  <1>3. QED
    BY <1>1, <1>2 DEF Store, IInv, TypeOK

(* ... and UpdateNotes keeps it one. *)
LEMMA NotesType == ASSUME IInv, NEW p \in Procs, UpdateNotes(p) PROVE snaps' \subseteq Snapshot
  <1>1. KeyOf(p) \in Keys
    BY CallType DEF UpdateNotes, At
  <1>2. \A s \in Snapshot : [s EXCEPT !.note = KeyOf(p)] \in Snapshot
    BY <1>1 DEF Snapshot
  <1>3. snaps \subseteq Snapshot
    BY DEF IInv, TypeOK
  <1>4. QED
    BY <1>2, <1>3 DEF UpdateNotes

(* Type correctness. *)
LEMMA TypeStep == IInv /\ [Next]_vars => TypeOK'
  <1> SUFFICES ASSUME IInv, [Next]_vars PROVE TypeOK'
    OBVIOUS
  <1> USE CallType DEF IInv, TypeOK, At, Goto, Answer, env, locals, Pcs, Fault, Unlock,
         StoreFails, Answers
  <1>0. 1 \in 0..MaxTransientRetries
    BY BoundAssumption
  <1>1. ASSUME NEW p \in Procs, Receive(p) PROVE TypeOK'
    BY <1>1 DEF Receive
  <1>2. ASSUME NEW p \in Procs, LockKey(p) PROVE TypeOK'
    BY <1>2 DEF LockKey
  <1>3. ASSUME NEW p \in Procs, LockGroup(p) PROVE TypeOK'
    BY <1>0, <1>3 DEF LockGroup
  <1>4. ASSUME NEW p \in Procs, BackupDone(p) PROVE TypeOK'
    BY <1>4, StoreType DEF BackupDone
  <1>5. ASSUME NEW p \in Procs, BackupFails(p) PROVE TypeOK'
    BY BoundAssumption, <1>0, <1>5, StoreType DEF BackupFails
  <1>6. ASSUME NEW p \in Procs, BackupCollides(p) PROVE TypeOK'
    BY BoundAssumption, <1>0, <1>6 DEF BackupCollides, CanBump
  <1>7. ASSUME NEW p \in Procs, UpdateNotes(p) PROVE TypeOK'
    <2>1. /\ faults' \in Nat /\ crashes' \in Nat
          /\ pc' = [pc EXCEPT ![p] = "readOld"] /\ result' = result
          /\ UNCHANGED <<mapping, latest, holder, now, call, stamp, bumps, tries, old, served>>
      BY <1>7 DEF UpdateNotes
    <2>2. QED
      BY <1>7, <2>1, NotesType
  <1>8. ASSUME NEW p \in Procs, ReadOld(p) PROVE TypeOK'
    BY <1>8 DEF ReadOld
  <1>9. ASSUME NEW p \in Procs, WriteMapping(p) PROVE TypeOK'
    <2>1. [stamp |-> UsedTime(p), etag |-> call[p].body] \in Mapping
      BY <1>9, CallType DEF WriteMapping, PhaseInv, Uploading, Mapping, UsedTime
    <2>2. QED
      BY <1>0, <1>9, <2>1 DEF WriteMapping
  <1>10. ASSUME NEW p \in Procs, ForgetDone(p) PROVE TypeOK'
    BY <1>10 DEF ForgetDone, RemoveSnapshot, SnapshotsAt
  <1>11. ASSUME NEW p \in Procs, ForgetFails(p) PROVE TypeOK'
    BY BoundAssumption, <1>0, <1>11 DEF ForgetFails, RemoveSnapshot, SnapshotsAt
  <1>12. ASSUME NEW p \in Procs, Lookup(p) PROVE TypeOK'
    BY <1>0, <1>12 DEF Lookup
  <1>13. ASSUME NEW p \in Procs, DeleteMapping(p) PROVE TypeOK'
    BY <1>13 DEF DeleteMapping
  <1>14. ASSUME NEW p \in Procs, ReadMapping(p) PROVE TypeOK'
    BY <1>14 DEF ReadMapping
  <1>15. ASSUME NEW p \in Procs, Restore(p) PROVE TypeOK'
    BY <1>15 DEF Restore, SnapshotsAt, Snapshot
  <1>16. ASSUME NEW p \in Procs, Return(p) PROVE TypeOK'
    BY BoundAssumption, <1>16 DEF Return, Clear
  <1>17. CASE Crash
    BY BoundAssumption, <1>17 DEF Crash, Clear
  <1>18. CASE Tick
    BY <1>18 DEF Tick
  <1>19. CASE UNCHANGED vars
    BY <1>19 DEF vars
  <1>20. QED
    BY <1>1, <1>2, <1>3, <1>4, <1>5, <1>6, <1>7, <1>8, <1>9, <1>10, <1>11, <1>12, <1>13,
       <1>14, <1>15, <1>16, <1>17, <1>18, <1>19 DEF Next, Step

(* Where requests are. *)
LEMMA PhaseStep == IInv /\ [Next]_vars => PhaseInv'
  <1> SUFFICES ASSUME IInv, [Next]_vars PROVE PhaseInv'
    OBVIOUS
  <1> USE NoneAssumption DEF IInv, TypeOK, At, Goto, Answer, env, locals, PhaseInv,
         Uploading, Unread, StoreFails, Answers
  <1>1. ASSUME NEW p \in Procs, Receive(p) PROVE PhaseInv'
    BY <1>1 DEF Receive, Call
  <1>2. ASSUME NEW p \in Procs, LockKey(p) PROVE PhaseInv'
    BY <1>2 DEF LockKey, Call
  <1>3. ASSUME NEW p \in Procs, LockGroup(p) PROVE PhaseInv'
    BY <1>3 DEF LockGroup
  <1>4. ASSUME NEW p \in Procs, BackupDone(p) PROVE PhaseInv'
    BY <1>4 DEF BackupDone
  <1>5. ASSUME NEW p \in Procs, BackupFails(p) PROVE PhaseInv'
    BY <1>5 DEF BackupFails
  <1>6. ASSUME NEW p \in Procs, BackupCollides(p) PROVE PhaseInv'
    BY <1>6 DEF BackupCollides
  <1>7. ASSUME NEW p \in Procs, UpdateNotes(p) PROVE PhaseInv'
    BY <1>7 DEF UpdateNotes
  <1>8. ASSUME NEW p \in Procs, ReadOld(p) PROVE PhaseInv'
    BY <1>8 DEF ReadOld
  <1>9. ASSUME NEW p \in Procs, WriteMapping(p) PROVE PhaseInv'
    BY <1>9 DEF WriteMapping, Mapping
  <1>10. ASSUME NEW p \in Procs, ForgetDone(p) PROVE PhaseInv'
    BY <1>10 DEF ForgetDone
  <1>11. ASSUME NEW p \in Procs, ForgetFails(p) PROVE PhaseInv'
    BY <1>11 DEF ForgetFails
  <1>12. ASSUME NEW p \in Procs, Lookup(p) PROVE PhaseInv'
    BY <1>12 DEF Lookup
  <1>13. ASSUME NEW p \in Procs, DeleteMapping(p) PROVE PhaseInv'
    BY <1>13 DEF DeleteMapping
  <1>14. ASSUME NEW p \in Procs, ReadMapping(p) PROVE PhaseInv'
    BY <1>14 DEF ReadMapping
  <1>15. ASSUME NEW p \in Procs, Restore(p) PROVE PhaseInv'
    BY <1>15 DEF Restore
  <1>16. ASSUME NEW p \in Procs, Return(p) PROVE PhaseInv'
    BY <1>16 DEF Return, Clear
  <1>17. CASE Crash
    BY <1>17 DEF Crash, Clear
  <1>18. CASE Tick
    BY <1>18 DEF Tick
  <1>19. CASE UNCHANGED vars
    BY <1>19 DEF vars
  <1>20. QED
    BY <1>1, <1>2, <1>3, <1>4, <1>5, <1>6, <1>7, <1>8, <1>9, <1>10, <1>11, <1>12, <1>13,
       <1>14, <1>15, <1>16, <1>17, <1>18, <1>19 DEF Next, Step

(* What locks they hold. *)
LEMMA LockStep == IInv /\ [Next]_vars => LockInv'
  <1> SUFFICES ASSUME IInv, [Next]_vars PROVE LockInv'
    OBVIOUS
  <1> USE KeyAssumption, NoneAssumption DEF IInv, TypeOK, At, Goto, Answer, env, locals,
         LockInv, Locked, Uploading, PhaseInv, StoreFails, KeyOf, Group, Unlock, Call, Free
  <1>1. ASSUME NEW p \in Procs, Receive(p) PROVE LockInv'
    BY <1>1 DEF Receive
  <1>2. ASSUME NEW p \in Procs, LockKey(p) PROVE LockInv'
    BY <1>2 DEF LockKey
  <1>3. ASSUME NEW p \in Procs, LockGroup(p) PROVE LockInv'
    BY <1>3 DEF LockGroup
  <1>4. ASSUME NEW p \in Procs, BackupDone(p) PROVE LockInv'
    BY <1>4 DEF BackupDone
  <1>5. ASSUME NEW p \in Procs, BackupFails(p) PROVE LockInv'
    BY <1>5 DEF BackupFails
  <1>6. ASSUME NEW p \in Procs, BackupCollides(p) PROVE LockInv'
    BY <1>6 DEF BackupCollides
  <1>7. ASSUME NEW p \in Procs, UpdateNotes(p) PROVE LockInv'
    BY <1>7 DEF UpdateNotes
  <1>8. ASSUME NEW p \in Procs, ReadOld(p) PROVE LockInv'
    BY <1>8 DEF ReadOld
  <1>9. ASSUME NEW p \in Procs, WriteMapping(p) PROVE LockInv'
    BY <1>9 DEF WriteMapping
  <1>10. ASSUME NEW p \in Procs, ForgetDone(p) PROVE LockInv'
    BY <1>10 DEF ForgetDone
  <1>11. ASSUME NEW p \in Procs, ForgetFails(p) PROVE LockInv'
    BY <1>11 DEF ForgetFails
  <1>12. ASSUME NEW p \in Procs, Lookup(p) PROVE LockInv'
    BY <1>12 DEF Lookup
  <1>13. ASSUME NEW p \in Procs, DeleteMapping(p) PROVE LockInv'
    BY <1>13 DEF DeleteMapping
  <1>14. ASSUME NEW p \in Procs, ReadMapping(p) PROVE LockInv'
    BY <1>14 DEF ReadMapping
  <1>15. ASSUME NEW p \in Procs, Restore(p) PROVE LockInv'
    BY <1>15 DEF Restore
  <1>16. ASSUME NEW p \in Procs, Return(p) PROVE LockInv'
    BY <1>16 DEF Return, Clear
  <1>17. CASE Crash
    BY <1>17 DEF Crash, Clear
  <1>18. CASE Tick
    BY <1>18 DEF Tick
  <1>19. CASE UNCHANGED vars
    BY <1>19 DEF vars
  <1>20. QED
    BY <1>1, <1>2, <1>3, <1>4, <1>5, <1>6, <1>7, <1>8, <1>9, <1>10, <1>11, <1>12, <1>13,
       <1>14, <1>15, <1>16, <1>17, <1>18, <1>19 DEF Next, Step

------------------------------------------------------------------------------
(* The four kinds of steps, seen from PBS. *)
LEMMA SnapshotSteps ==
  ASSUME IInv, [Next]_vars
  PROVE  \/ UNCHANGED <<snaps, latest>>
         \/ \E p \in Procs : At(p, "backup") /\ Store(p)
         \/ \E p \in Procs : UpdateNotes(p)
         \/ \E p \in Procs : At(p, "forget") /\ RemoveSnapshot(p) /\ latest' = latest
  BY DEF Next, Step, vars, env, Receive, LockKey, LockGroup, BackupDone, BackupFails,
         BackupCollides, ReadOld, WriteMapping, ForgetDone, ForgetFails, Lookup, DeleteMapping,
         ReadMapping, Restore, Return, Crash, Tick

(* Writing notes changes no other field of a snapshot. *)
LEMMA Relabelled ==
  ASSUME IInv, NEW p \in Procs, UpdateNotes(p)
  PROVE  /\ latest' = latest
         /\ \A s \in snaps' : \E t \in snaps :
              s.group = t.group /\ s.time = t.time /\ s.key = t.key /\ s.etag = t.etag
         /\ \A t \in snaps : \E s \in snaps' :
              s.group = t.group /\ s.time = t.time /\ s.key = t.key /\ s.etag = t.etag
  <1>1. latest' = latest
    BY DEF UpdateNotes
  <1>2. CASE snaps' = snaps
    BY <1>1, <1>2
  <1>3. CASE snaps' # snaps
    <2> DEFINE f(s) == IF s \in SnapshotsAt(Group(p), UsedTime(p))
                       THEN [s EXCEPT !.note = KeyOf(p)] ELSE s
    <2>1. snaps' = {f(s) : s \in snaps}
      BY <1>3 DEF UpdateNotes
    <2>2. ASSUME NEW s \in snaps
          PROVE  /\ f(s).group = s.group /\ f(s).time = s.time
                 /\ f(s).key = s.key /\ f(s).etag = s.etag
      BY DEF IInv, TypeOK, Snapshot
    <2>3. QED
      BY <1>1, <2>1, <2>2
  <1>4. QED
    BY <1>2, <1>3

(* What a Backup adds is newer than all its group ever had. *)
LEMMA Stored ==
  ASSUME IInv, FreshStamps, NEW p \in Procs, At(p, "backup"), Store(p)
  PROVE  /\ KeyOf(p) \in Keys /\ Group(p) = GroupOf[KeyOf(p)]
         /\ stamp[p] \in Nat /\ stamp[p] > latest[Group(p)]
         /\ snaps' = snaps \cup {[group |-> Group(p), time |-> stamp[p], key |-> KeyOf(p),
                                  etag |-> call[p].body, note |-> None]}
         /\ latest' = [latest EXCEPT ![Group(p)] = stamp[p]]
  <1>1. KeyOf(p) \in Keys /\ Group(p) \in Groups /\ stamp[p] \in Nat
    BY KeyAssumption DEF At, IInv, TypeOK, PhaseInv, KeyOf, Group, Call
  <1>2. latest[Group(p)] \in Nat /\ stamp[p] > latest[Group(p)]
    BY <1>1 DEF Store, Accepts, IInv, TypeOK
  <1>3. ~ (latest[Group(p)] > stamp[p])
    BY <1>1, <1>2
  <1>4. QED
    BY <1>1, <1>2, <1>3 DEF Store, Group

(* A backup time, once given to a key and a content, never names another. *)
LEMMA NamesKept ==
  ASSUME IInv, FreshStamps, [Next]_vars, NEW k \in Keys, NEW t \in Nat, NEW e, Names(k, t, e)
  PROVE  Names(k, t, e)'
  <1> USE KeyAssumption DEF Names, SnapshotsAt
  <1>1. CASE UNCHANGED <<snaps, latest>>
    BY <1>1
  <1>2. ASSUME NEW p \in Procs, At(p, "backup"), Store(p) PROVE Names(k, t, e)'
    <2>1. /\ t <= latest'[GroupOf[k]] 
          /\ GroupOf[k] = Group(p) => t # stamp[p]
      BY <1>2, Stored DEF IInv, TypeOK
    <2>2. \A s \in snaps' \ snaps : s.group = Group(p) /\ s.time = stamp[p]
      BY <1>2, Stored
    <2>3. QED
      BY <2>1, <2>2
  <1>3. ASSUME NEW p \in Procs, UpdateNotes(p) PROVE Names(k, t, e)'
    BY <1>3, Relabelled
  <1>4. ASSUME NEW p \in Procs, At(p, "forget"), RemoveSnapshot(p), latest' = latest
        PROVE  Names(k, t, e)'
    BY <1>4 DEF RemoveSnapshot
  <1>5. QED
    BY <1>1, <1>2, <1>3, <1>4, SnapshotSteps

(* Backups come after all earlier ones of their group. *)
LEMMA HistoryStep == ASSUME IInv, FreshStamps, [Next]_vars PROVE HistoryInv'
  <1> USE KeyAssumption DEF HistoryInv, IInv, StampInv
  <1>1. CASE UNCHANGED <<snaps, latest>>
    BY <1>1
  <1>2. ASSUME NEW p \in Procs, At(p, "backup"), Store(p) PROVE HistoryInv'
    <2>1. \A s \in snaps : s.time \in Nat /\ s.group \in Groups /\ s.time <= latest[s.group]
      BY DEF TypeOK, Snapshot
    <2>2. \A g \in Groups : latest[g] \in Nat /\ latest'[g] >= latest[g]
      BY <1>2, Stored DEF TypeOK
    <2>3. \A s \in snaps : s.time <= latest'[s.group]
      <3> SUFFICES ASSUME NEW s \in snaps PROVE s.time <= latest'[s.group]
        OBVIOUS
      <3>1. latest'[s.group] \in Nat
        BY <1>2, <2>1, Stored DEF TypeOK
      <3>2. QED
        BY <2>1, <2>2, <3>1
    <2>4. \A s \in snaps' \ snaps : s.group = Group(p) /\ s.time = stamp[p] /\ s.key = KeyOf(p)
      BY <1>2, Stored
    <2>5. latest'[Group(p)] = stamp[p]
      BY <1>2, Stored DEF TypeOK
    <2>6. QED
      BY <1>2, <2>3, <2>4, <2>5, Stored
  <1>3. ASSUME NEW p \in Procs, UpdateNotes(p) PROVE HistoryInv'
    BY <1>3, Relabelled
  <1>4. ASSUME NEW p \in Procs, At(p, "forget"), RemoveSnapshot(p), latest' = latest
        PROVE  HistoryInv'
    BY <1>4 DEF RemoveSnapshot
  <1>5. QED
    BY <1>1, <1>2, <1>3, <1>4, SnapshotSteps

(* Only a Forget for its own key removes a snapshot. *)
LEMMA SnapshotsKept ==
  ASSUME IInv, FreshStamps, [Next]_vars, NEW s \in snaps,
         \A p \in Procs : At(p, "forget") => KeyOf(p) # s.key
  PROVE  \E t \in snaps' : t.group = s.group /\ t.time = s.time
  <1>1. CASE UNCHANGED <<snaps, latest>>
    BY <1>1
  <1>2. ASSUME NEW p \in Procs, At(p, "backup"), Store(p) PROVE s \in snaps'
    BY <1>2, Stored
  <1>3. ASSUME NEW p \in Procs, UpdateNotes(p)
        PROVE  \E t \in snaps' : t.group = s.group /\ t.time = s.time
    BY <1>3, Relabelled
  <1>4. ASSUME NEW p \in Procs, At(p, "forget"), RemoveSnapshot(p), latest' = latest
        PROVE  s \in snaps'
    <2>1. old[p] # None
      BY <1>4 DEF At, IInv, PhaseInv
    <2>2. \A x \in SnapshotsAt(Group(p), old[p].stamp) : x.key = KeyOf(p)
      BY <2>1 DEF IInv, StampInv, OldNames, Names, Group
    <2>3. QED
      BY <1>4, <2>2 DEF RemoveSnapshot
  <1>5. QED
    BY <1>1, <1>2, <1>3, <1>4, SnapshotSteps

(* How a mapping changes ... *)
LEMMA MappingSteps ==
  ASSUME IInv, [Next]_vars, NEW k \in Keys
  PROVE  \/ mapping'[k] = mapping[k]
         \/ \E p \in Procs : At(p, "unmap") /\ KeyOf(p) = k /\ mapping'[k] = None
         \/ \E p \in Procs : /\ At(p, "write") /\ KeyOf(p) = k
                             /\ mapping'[k] = [stamp |-> stamp[p], etag |-> call[p].body]
  <1>1. CASE mapping' = mapping
    BY <1>1
  <1>2. ASSUME NEW p \in Procs, WriteMapping(p), mapping' # mapping
        PROVE  /\ At(p, "write") /\ KeyOf(p) \in Keys
               /\ mapping' = [mapping EXCEPT ![KeyOf(p)] =
                                [stamp |-> stamp[p], etag |-> call[p].body]]
    BY <1>2, CallType DEF WriteMapping, UsedTime, At
  <1>3. ASSUME NEW p \in Procs, DeleteMapping(p), mapping' # mapping
        PROVE  At(p, "unmap") /\ mapping' = [mapping EXCEPT ![KeyOf(p)] = None]
    BY <1>3 DEF DeleteMapping
  <1>4. CASE mapping' # mapping
    <2>1. PICK p \in Procs : WriteMapping(p) \/ DeleteMapping(p)
      BY <1>4 DEF Next, Step, vars, Receive, LockKey, LockGroup, BackupDone, BackupFails,
         BackupCollides, UpdateNotes, ReadOld, ForgetDone, ForgetFails, Lookup,
         ReadMapping, Restore, Return, Crash, Tick
    <2>2. mapping \in [Keys -> Mapping \cup {None}]
      BY DEF IInv, TypeOK
    <2>3. CASE WriteMapping(p)
      BY <1>2, <1>4, <2>2, <2>3
    <2>4. CASE DeleteMapping(p)
      BY <1>3, <1>4, <2>2, <2>4
    <2>5. QED
      BY <2>1, <2>3, <2>4
  <1>5. QED
    BY <1>1, <1>4

(* ... and that it does not while the holder of its lock is elsewhere. *)
LEMMA MappingKept ==
  ASSUME IInv, [Next]_vars, NEW p \in Procs, pc[p] \in Locked, pc[p] \notin {"write", "unmap"}
  PROVE  mapping'[KeyOf(p)] = mapping[KeyOf(p)]
  <1>1. KeyOf(p) \in Keys
    BY DEF IInv, PhaseInv, Call, KeyOf, Locked, Uploading
  <1>2. \A q \in Procs : pc[q] \in {"write", "unmap"} => KeyOf(q) # KeyOf(p)
    BY DEF IInv, LockInv, Locked, Uploading
  <1>3. QED
    BY <1>1, <1>2, MappingSteps DEF At

(* A mapping keeps naming the backup it was written for. *)
LEMMA MappingNamesStep == ASSUME IInv, FreshStamps, [Next]_vars PROVE MappingNames'
  <1> SUFFICES ASSUME NEW k \in Keys, mapping'[k] # None,
                      NEW t, t = mapping'[k].stamp, NEW e, e = mapping'[k].etag
               PROVE  Names(k, t, e)'
    BY DEF MappingNames
  <1>1. t \in Nat /\ Names(k, t, e)
    <2>1. CASE mapping'[k] = mapping[k]
      BY <2>1 DEF IInv, TypeOK, Mapping, StampInv, MappingNames
    <2>2. ASSUME NEW p \in Procs, At(p, "write"), KeyOf(p) = k,
                 mapping'[k] = [stamp |-> stamp[p], etag |-> call[p].body]
          PROVE  t \in Nat /\ Names(k, t, e)
      BY <2>2 DEF At, IInv, TypeOK, StampInv, StampNames, InFlight
    <2>3. QED
      BY <2>1, <2>2, MappingSteps
  <1>2. QED
    BY <1>1, NamesKept

(* A request's old mapping is one its own key has had. *)
LEMMA OldSteps ==
  ASSUME IInv, [Next]_vars, NEW p \in Procs, old'[p] # None
  PROVE  /\ call'[p] = call[p] /\ KeyOf(p) \in Keys
         /\ old'[p] = old[p] \/ old'[p] = mapping[KeyOf(p)]
  <1>1. /\ pc[p] # "idle" => KeyOf(p) \in Keys
        /\ old[p] # None => pc[p] # "idle"
    BY DEF IInv, PhaseInv, Unread, Call, KeyOf
  <1>2. old \in [Procs -> Mapping \cup {None}] /\ call \in [Procs -> Call \cup {None}]
    BY DEF IInv, TypeOK
  <1>3. ASSUME NEW q \in Procs,
               \/ Receive(q) \/ LockKey(q) \/ LockGroup(q)
               \/ BackupDone(q) \/ BackupFails(q) \/ BackupCollides(q)
               \/ UpdateNotes(q) \/ WriteMapping(q) \/ ForgetDone(q) \/ ForgetFails(q)
               \/ DeleteMapping(q) \/ Restore(q)
        PROVE  old' = old /\ (pc[p] # "idle" => call'[p] = call[p])
    BY <1>2, <1>3 DEF Receive, LockKey, LockGroup, BackupDone, BackupFails, BackupCollides,
                      UpdateNotes, WriteMapping, ForgetDone, ForgetFails, DeleteMapping,
                      Restore, At
  <1>4. ASSUME NEW q \in Procs, ReadOld(q) \/ Lookup(q) \/ ReadMapping(q)
        PROVE  /\ call' = call
               /\ old'[p] = old[p] \/ (pc[p] # "idle" /\ old'[p] = mapping[KeyOf(p)])
    <2>1. /\ call' = call /\ pc[q] # "idle"
          /\ old' = old \/ old' = [old EXCEPT ![q] = mapping[KeyOf(q)]]
      BY <1>4 DEF ReadOld, Lookup, ReadMapping, At
    <2>2. QED
      BY <1>2, <2>1
  <1>5. ASSUME (\E q \in Procs : Return(q)) \/ Crash PROVE call'[p] = call[p] /\ old'[p] = old[p]
    BY <1>5 DEF Return, Crash, Clear
  <1>6. CASE Tick \/ UNCHANGED vars
    BY <1>1, <1>6 DEF Tick, vars, locals
  <1>7. QED
    BY <1>1, <1>3, <1>4, <1>5, <1>6 DEF Next, Step

(* What a request has read as old names what it named when it was read. *)
LEMMA OldNamesStep == ASSUME IInv, FreshStamps, [Next]_vars PROVE OldNames'
  <1> SUFFICES ASSUME NEW p \in Procs, old'[p] # None, NEW k, k = KeyOf(p)',
                      NEW t, t = old'[p].stamp, NEW e, e = old'[p].etag
               PROVE  Names(k, t, e)'
    BY DEF OldNames
  <1>1. /\ k = KeyOf(p) /\ k \in Keys
        /\ old'[p] = old[p] \/ old'[p] = mapping[k]
    BY OldSteps DEF KeyOf
  <1>2. t \in Nat /\ Names(k, t, e)
    BY <1>1 DEF IInv, TypeOK, Mapping, StampInv, MappingNames, OldNames
  <1>3. QED
    BY <1>1, <1>2, NamesKept

(* An upload is in flight from its Backup on, with the stamp it has used. *)
LEMMA StampSteps ==
  ASSUME IInv, [Next]_vars, NEW p \in Procs, pc'[p] \in InFlight
  PROVE  /\ call'[p] = call[p] /\ KeyOf(p) \in Keys
         /\ stamp'[p] = stamp[p]
         /\ pc[p] \in InFlight \/ (At(p, "backup") /\ Store(p) /\ mapping' = mapping)
  <1> USE DEF IInv, TypeOK, PhaseInv, At, Goto, Answer, KeyOf, InFlight, Uploading, Call,
          env, locals
  <1>1. ASSUME NEW q \in Procs,
               \/ Receive(q) \/ LockKey(q) \/ LockGroup(q) \/ BackupFails(q) \/ BackupCollides(q)
               \/ UpdateNotes(q) \/ ReadOld(q) \/ WriteMapping(q)
        PROVE  call'[p] = call[p] /\ stamp'[p] = stamp[p] /\ pc[p] \in InFlight
    BY <1>1 DEF Receive, LockKey, LockGroup, BackupFails, BackupCollides, UpdateNotes, ReadOld,
                WriteMapping, StoreFails
  <1>2. ASSUME NEW q \in Procs,
               \/ ForgetDone(q) \/ ForgetFails(q) \/ Lookup(q) \/ DeleteMapping(q)
               \/ ReadMapping(q) \/ Restore(q)
        PROVE  call'[p] = call[p] /\ stamp'[p] = stamp[p] /\ pc[p] \in InFlight
    BY <1>2 DEF ForgetDone, ForgetFails, Lookup, DeleteMapping, ReadMapping, Restore, StoreFails
  <1>3. ASSUME NEW q \in Procs, BackupDone(q)
        PROVE  /\ call'[p] = call[p] /\ stamp'[p] = stamp[p] 
               /\ pc[p] \in InFlight \/ (At(p, "backup") /\ Store(p) /\ mapping' = mapping)
    BY <1>3 DEF BackupDone
  <1>4. ASSUME (\E q \in Procs : Return(q)) \/ Crash
        PROVE  call'[p] = call[p] /\ stamp'[p] = stamp[p] /\ pc[p] \in InFlight
    BY <1>4 DEF Return, Crash, Clear
  <1>5. CASE Tick \/ UNCHANGED vars
    BY <1>5 DEF Tick, vars
  <1>6. pc[p] # "idle" => KeyOf(p) \in Keys
    OBVIOUS
  <1>7. QED
    BY <1>1, <1>2, <1>3, <1>4, <1>5, <1>6 DEF Next, Step

(* A request's backup time names its own backup until it is mapped. *)
LEMMA StampNamesStep == ASSUME IInv, FreshStamps, [Next]_vars PROVE StampNames'
  <1> SUFFICES ASSUME NEW p \in Procs, pc'[p] \in InFlight, NEW k, k = KeyOf(p)',
                      NEW t, t = stamp'[p], NEW e, e = call'[p].body
               PROVE  Names(k, t, e)' /\ SnapshotsAt(GroupOf[k], t)' # {}
    BY DEF StampNames, Group
  <1>1. /\ k = KeyOf(p) /\ k \in Keys /\ t = stamp[p] /\ t \in Nat /\ e = call[p].body
        /\ pc[p] \in InFlight \/ (At(p, "backup") /\ Store(p))
    BY StampSteps DEF KeyOf, IInv, TypeOK
  <1>2. CASE pc[p] \in InFlight
    <2>1. Names(k, t, e) /\ SnapshotsAt(GroupOf[k], t) # {}
      BY <1>1, <1>2 DEF IInv, StampInv, StampNames, Group
    <2>2. PICK s \in snaps : s.group = GroupOf[k] /\ s.time = t /\ s.key = k
      BY <2>1 DEF Names, SnapshotsAt
    <2>3. \A q \in Procs : At(q, "forget") => KeyOf(q) # k
      BY <1>1, <1>2 DEF At, IInv, LockInv, Locked, Uploading, InFlight
    <2>4. QED
      BY <1>1, <2>1, <2>2, <2>3, NamesKept, SnapshotsKept DEF SnapshotsAt
  <1>3. CASE At(p, "backup") /\ Store(p)
    <2>1. GroupOf[k] \in Groups /\ latest'[GroupOf[k]] = t /\ t > latest[GroupOf[k]]
      BY <1>1, <1>3, Stored, KeyAssumption DEF IInv, TypeOK
    <2>2. \A s \in snaps : s.group = GroupOf[k] => s.time # t
      <3>1. \A s \in snaps : s.time \in Nat /\ s.time <= latest[s.group]
        BY DEF IInv, TypeOK, Snapshot, StampInv, HistoryInv
      <3>2. latest[GroupOf[k]] \in Nat
        BY <2>1 DEF IInv, TypeOK
      <3>3. QED
        BY <1>1, <2>1, <3>1, <3>2
    <2>3. snaps' = snaps \cup {[group |-> GroupOf[k], time |-> t, key |-> k, etag |-> e,
                                note |-> None]}
      BY <1>1, <1>3, Stored
    <2>4. SnapshotsAt(GroupOf[k], t)' = {[group |-> GroupOf[k], time |-> t, key |-> k,
                                          etag |-> e, note |-> None]}
      BY <2>2, <2>3 DEF SnapshotsAt
    <2>5. t <= latest'[GroupOf[k]]
      BY <1>1, <2>1
    <2>6. QED
      BY <2>4, <2>5 DEF Names
  <1>4. QED
    BY <1>1, <1>2, <1>3

(* The order of an upload's steps. *)
LEMMA OutOfWrite ==
  ASSUME IInv, [Next]_vars, NEW p \in Procs, pc[p] = "write"
  PROVE  pc'[p] \notin {"notes", "readOld"}
  <1>1. ASSUME NEW q \in Procs, Step(q) \/ Receive(q)
        PROVE  pc'[p] \notin {"notes", "readOld"}
    <2>1. q # p => pc'[p] = pc[p]
      BY <1>1 DEF Step, Receive, LockKey, LockGroup, BackupDone, BackupFails, BackupCollides,
                  UpdateNotes, ReadOld, WriteMapping, ForgetDone, ForgetFails, Lookup,
                  DeleteMapping, ReadMapping, Restore, Return, Clear, StoreFails, Goto, Answer,
                  IInv, TypeOK
    <2>2. CASE q = p
      <3>1. WriteMapping(p)
        BY <1>1, <2>2 DEF Step, Receive, LockKey, LockGroup, BackupDone, BackupFails,
                  BackupCollides, UpdateNotes, ReadOld, ForgetDone, ForgetFails, Lookup,
                  DeleteMapping, ReadMapping, Restore, Return, At
      <3>2. QED
        BY <3>1 DEF WriteMapping, StoreFails, Goto, Answer, IInv, TypeOK
    <2>3. QED
      BY <2>1, <2>2
  <1>2. CASE Crash \/ Tick \/ UNCHANGED vars
    BY <1>2 DEF Crash, Clear, Tick, vars, locals
  <1>3. QED
    BY <1>1, <1>2 DEF Next

(* Into "write" a request comes from reading the mapping it will supersede. *)
LEMMA WriteSteps ==
  ASSUME IInv, [Next]_vars, NEW p \in Procs, pc'[p] = "write"
  PROVE  \/ pc[p] = "write" /\ old'[p] = old[p]
         \/ pc[p] = "readOld" /\ old'[p] = mapping[KeyOf(p)]
  <1> USE DEF IInv, TypeOK, At, Goto, Answer
  <1>1. ASSUME NEW q \in Procs,
               \/ Receive(q) \/ LockKey(q) \/ LockGroup(q)
               \/ BackupDone(q) \/ BackupFails(q) \/ BackupCollides(q)
               \/ UpdateNotes(q) \/ WriteMapping(q)
        PROVE  pc[p] = "write" /\ old'[p] = old[p]
    BY <1>1 DEF Receive, LockKey, LockGroup, BackupDone, BackupFails, BackupCollides,
                UpdateNotes, WriteMapping, StoreFails
  <1>2. ASSUME NEW q \in Procs,
               \/ ForgetDone(q) \/ ForgetFails(q) \/ Lookup(q) \/ DeleteMapping(q)
               \/ ReadMapping(q) \/ Restore(q)
        PROVE  pc[p] = "write" /\ old'[p] = old[p]
    BY <1>2 DEF ForgetDone, ForgetFails, Lookup, DeleteMapping, ReadMapping, Restore, StoreFails
  <1>3. ASSUME NEW q \in Procs, ReadOld(q)
        PROVE  \/ pc[p] = "write" /\ old'[p] = old[p]
               \/ pc[p] = "readOld" /\ old'[p] = mapping[KeyOf(p)]
    BY <1>3 DEF ReadOld, StoreFails
  <1>4. ASSUME (\E q \in Procs : Return(q)) \/ Crash PROVE pc[p] = "write" /\ old'[p] = old[p]
    BY <1>4 DEF Return, Crash, Clear
  <1>5. CASE Tick \/ UNCHANGED vars
    BY <1>5 DEF Tick, vars, locals
  <1>6. QED
    BY <1>1, <1>2, <1>3, <1>4, <1>5 DEF Next, Step

(* An upload begins to forget when it has written its mapping. *)
LEMMA ForgetSteps ==
  ASSUME IInv, [Next]_vars, NEW p \in Procs, pc'[p] = "forget", call'[p].op = "put"
  PROVE  /\ call'[p] = call[p] /\ old'[p] = old[p] /\ old[p] # None
         /\ \/ pc[p] = "forget"
            \/ /\ pc[p] = "write" /\ KeyOf(p) \in Keys
               /\ mapping' = [mapping EXCEPT ![KeyOf(p)] =
                                [stamp |-> stamp[p], etag |-> call[p].body]]
  <1> USE DEF IInv, TypeOK, PhaseInv, At, Goto, Answer
  <1>1. ASSUME NEW q \in Procs,
               \/ Receive(q) \/ LockKey(q) \/ LockGroup(q)
               \/ BackupDone(q) \/ BackupFails(q) \/ BackupCollides(q)
               \/ UpdateNotes(q) \/ ReadOld(q)
        PROVE  call'[p] = call[p] /\ old'[p] = old[p] /\ pc[p] = "forget"
    BY <1>1 DEF Receive, LockKey, LockGroup, BackupDone, BackupFails, BackupCollides,
                UpdateNotes, ReadOld, StoreFails
  <1>2. ASSUME NEW q \in Procs,
               \/ ForgetDone(q) \/ ForgetFails(q) \/ Lookup(q) \/ DeleteMapping(q)
               \/ ReadMapping(q) \/ Restore(q)
        PROVE  call'[p] = call[p] /\ old'[p] = old[p] /\ pc[p] = "forget"
    BY <1>2 DEF ForgetDone, ForgetFails, Lookup, DeleteMapping, ReadMapping, Restore, StoreFails
  <1>3. ASSUME NEW q \in Procs, WriteMapping(q), pc[p] # "forget"
        PROVE  /\ call' = call /\ old' = old /\ old[p] # None /\ pc[p] = "write"
               /\ mapping' = [mapping EXCEPT ![KeyOf(p)] =
                                [stamp |-> stamp[p], etag |-> call[p].body]]
    BY <1>3 DEF WriteMapping, UsedTime, StoreFails
  <1>4. ASSUME NEW q \in Procs, WriteMapping(q), pc[p] = "forget"
        PROVE  call' = call /\ old' = old
    BY <1>4 DEF WriteMapping
  <1>5. ASSUME (\E q \in Procs : Return(q)) \/ Crash
        PROVE  call'[p] = call[p] /\ old'[p] = old[p] /\ pc[p] = "forget"
    BY <1>5 DEF Return, Crash, Clear
  <1>6. CASE Tick \/ UNCHANGED vars
    BY <1>6 DEF Tick, vars, locals
  <1>7. pc[p] = "write" => KeyOf(p) \in Keys
    BY DEF Call, KeyOf
  <1>8. pc[p] = "forget" => old[p] # None
    OBVIOUS
  <1>9. QED
    BY <1>1, <1>2, <1>3, <1>4, <1>5, <1>6, <1>7, <1>8 DEF Next, Step

(* A request that is going to map a backup has a newer one than the key's mapping. *)
LEMMA SupersedesStep == ASSUME IInv, FreshStamps, [Next]_vars PROVE Supersedes'
  <1> USE DEF At
  <1>1. ASSUME NEW p \in Procs, pc'[p] \in {"notes", "readOld"}, mapping'[KeyOf(p)'] # None
        PROVE  mapping'[KeyOf(p)'].stamp # stamp'[p]
    <2>1. /\ KeyOf(p)' = KeyOf(p) /\ KeyOf(p) \in Keys /\ stamp'[p] = stamp[p]
          /\ pc[p] \in InFlight \/ (At(p, "backup") /\ Store(p) /\ mapping' = mapping)
      BY <1>1, StampSteps DEF InFlight, KeyOf
    <2>2. CASE pc[p] \in {"notes", "readOld"}
      <3>1. mapping'[KeyOf(p)] = mapping[KeyOf(p)]
        BY <2>2, MappingKept DEF Locked, Uploading
      <3>2. QED
        BY <1>1, <2>1, <2>2, <3>1 DEF IInv, StampInv, Supersedes
    <2>3. pc[p] # "write"
      BY <1>1, OutOfWrite
    <2>4. CASE At(p, "backup") /\ Store(p) /\ mapping' = mapping
      <3>1. mapping[KeyOf(p)].stamp <= latest[Group(p)] /\ mapping[KeyOf(p)].stamp \in Nat
        BY <1>1, <2>1, <2>4 DEF IInv, TypeOK, Mapping, StampInv, MappingNames, Names, Group
      <3>2. stamp[p] > latest[Group(p)] /\ latest[Group(p)] \in Nat /\ stamp[p] \in Nat
        BY <2>1, <2>4, Stored, KeyAssumption DEF IInv, TypeOK
      <3>3. QED
        BY <2>1, <2>4, <3>1, <3>2
    <2>5. QED
      BY <2>1, <2>2, <2>3, <2>4 DEF InFlight
  <1>2. ASSUME NEW p \in Procs, pc'[p] = "write", old'[p] # None
        PROVE  old'[p].stamp # stamp'[p]
    <2>1. CASE pc[p] = "write"
      BY <1>2, <2>1, WriteSteps, StampSteps DEF InFlight, IInv, StampInv, Supersedes
    <2>2. CASE pc[p] # "write"
      BY <1>2, <2>2, WriteSteps, StampSteps DEF InFlight, IInv, StampInv, Supersedes
    <2>3. QED
      BY <2>1, <2>2
  <1>3. ASSUME NEW p \in Procs, pc'[p] = "forget", call'[p].op = "put",
               mapping'[KeyOf(p)'] # None
        PROVE  mapping'[KeyOf(p)'].stamp # old'[p].stamp
    <2>1. CASE pc[p] = "forget"
      <3>1. mapping'[KeyOf(p)] = mapping[KeyOf(p)]
        BY <2>1, MappingKept DEF Locked
      <3>2. QED
        BY <1>3, <2>1, <3>1, ForgetSteps DEF KeyOf, IInv, StampInv, Supersedes
    <2>2. CASE pc[p] # "forget"
      <3>1. /\ KeyOf(p)' = KeyOf(p) /\ KeyOf(p) \in Keys /\ pc[p] = "write"
            /\ old'[p] = old[p] /\ old[p] # None
            /\ mapping' = [mapping EXCEPT ![KeyOf(p)] =
                              [stamp |-> stamp[p], etag |-> call[p].body]]
        BY <1>3, <2>2, ForgetSteps DEF KeyOf
      <3>2. mapping'[KeyOf(p)].stamp = stamp[p]
        BY <3>1 DEF IInv, TypeOK
      <3>3. old[p].stamp # stamp[p]
        BY <3>1 DEF IInv, StampInv, Supersedes
      <3>4. QED
        BY <3>1, <3>2, <3>3
    <2>3. QED
      BY <2>1, <2>2
  <1>4. QED
    BY <1>1, <1>2, <1>3 DEF Supersedes

(* The key that is written next names a snapshot of its own. *)
LEMMA NoSharedStep == ASSUME IInv, FreshStamps, [Next]_vars PROVE NoSharedSnapshot'
  <1> DEFINE New(k) == \E p \in Procs : /\ At(p, "write") /\ KeyOf(p) = k
                                        /\ mapping'[k].stamp = stamp[p]
  <1> SUFFICES ASSUME NEW k \in Keys, NEW l \in Keys, k # l, GroupOf[k] = GroupOf[l],
                      mapping'[k] # None, mapping'[l] # None,
                      mapping'[k].stamp = mapping'[l].stamp
               PROVE  FALSE
    BY DEF NoSharedSnapshot
  <1>1. ASSUME NEW x \in Keys, mapping'[x] # None
        PROVE  mapping'[x] = mapping[x] \/ New(x)
    <2>1. CASE \E p \in Procs : /\ At(p, "write") /\ KeyOf(p) = x
                                /\ mapping'[x] = [stamp |-> stamp[p], etag |-> call[p].body]
      BY <2>1
    <2>2. QED
      BY <1>1, <2>1, MappingSteps
  <1>2. ASSUME NEW x \in Keys, NEW y \in Keys, New(x), GroupOf[x] = GroupOf[y],
               mapping'[y] # None, mapping'[x].stamp = mapping'[y].stamp
        PROVE  x = y
    <2>1. PICK s \in snaps : s.group = GroupOf[x] /\ s.time = mapping'[x].stamp /\ s.key = x
      BY <1>2 DEF At, IInv, StampInv, StampNames, InFlight, Names, SnapshotsAt, Group
    <2>2. s \in SnapshotsAt(GroupOf[y], mapping'[y].stamp)
      BY <1>2, <2>1 DEF SnapshotsAt
    <2>3. CASE mapping'[y] = mapping[y]
      <3>1. mapping[y] # None
        BY <1>2, <2>3
      <3>2. Names(y, mapping[y].stamp, mapping[y].etag)
        BY <3>1 DEF IInv, StampInv, MappingNames
      <3>3. QED
        BY <2>1, <2>2, <2>3, <3>2 DEF Names
    <2>4. CASE New(y)
      <3>1. PICK q \in Procs : At(q, "write") /\ KeyOf(q) = y /\ mapping'[y].stamp = stamp[q]
        BY <2>4
      <3>2. Names(y, stamp[q], call[q].body)
        BY <3>1 DEF At, IInv, StampInv, StampNames, InFlight
      <3>3. QED
        BY <2>1, <2>2, <3>1, <3>2 DEF Names
    <2>5. QED
      BY <1>1, <1>2, <2>3, <2>4
  <1>3. CASE mapping'[k] = mapping[k] /\ mapping'[l] = mapping[l]
    BY <1>3 DEF IInv, StampInv, NoSharedSnapshot
  <1>4. QED
    BY <1>1, <1>2, <1>3
------------------------------------------------------------------------------
(* Every action keeps every part. *)
LEMMA NextInv == IInv /\ [Next]_vars => IInv'
  <1>1. ASSUME IInv, FreshStamps, [Next]_vars PROVE StampInv'
    BY <1>1, HistoryStep, MappingNamesStep, OldNamesStep, StampNamesStep, SupersedesStep,
       NoSharedStep DEF StampInv
  <1>2. QED
    BY <1>1, TypeStep, PhaseStep, LockStep DEF IInv

(* Requests, locks, mappings and snapshots stay in step, whatever overlaps *)
(* and whatever fails; without FreshStamps the part on snapshots is vacuous. *)
THEOREM Invariance == Spec => []IInv
  BY InitInv, NextInv, PTL DEF Spec

(* No two keys of a group name one snapshot. *)
THEOREM NoSharing == ASSUME FreshStamps PROVE Spec => []NoSharedSnapshot
  <1>1. IInv => NoSharedSnapshot
    BY FreshStamps DEF IInv, StampInv
  <1>2. QED
    BY <1>1, Invariance, PTL

(* The snapshot of a mapping goes only with a Forget of a deletion of its key. *)
LEMMA StaysBacked ==
  ASSUME IInv, FreshStamps, [Next]_vars, NEW k \in Keys, ~ Dangling(k), Dangling(k)'
  PROVE  \E p \in Procs : pc[p] = "forget" /\ call[p].op = "delete" /\ KeyOf(p) = k
  <1>1. mapping'[k] # None /\ ~ Backed(k)'
    BY DEF Dangling
  <1>2. mapping'[k] = mapping[k]
    <2> SUFFICES ASSUME NEW p \in Procs, At(p, "write"), KeyOf(p) = k,
                        mapping'[k] = [stamp |-> stamp[p], etag |-> call[p].body]
                 PROVE  FALSE
      BY <1>1, MappingSteps
    <2>1. PICK t \in Nat : t = stamp[p]
      BY DEF IInv, TypeOK
    <2>2. PICK e \in Bodies : e = call[p].body
      BY CallType DEF At, IInv, PhaseInv, Uploading
    <2>3. Names(k, t, e) /\ \E s \in snaps : s.group = GroupOf[k] /\ s.time = t /\ s.key = k
      BY <2>1, <2>2 DEF At, IInv, StampInv, StampNames, InFlight, Names, SnapshotsAt, Group
    <2>4. \A q \in Procs : At(q, "forget") => KeyOf(q) # k
      BY DEF At, IInv, LockInv, Locked, Uploading
    <2>5. \E x \in snaps' : x.group = GroupOf[k] /\ x.time = t
      BY <2>3, <2>4, SnapshotsKept
    <2>6. \E x \in snaps' : x.group = GroupOf[k] /\ x.time = t /\ x.key = k /\ x.etag = e
      BY <2>3, <2>5, NamesKept DEF Names, SnapshotsAt
    <2>7. QED
      BY <1>1, <2>1, <2>2, <2>6 DEF Backed, SnapshotsAt
  <1>3. PICK s \in snaps : /\ s.group = GroupOf[k] /\ s.time = mapping[k].stamp
                           /\ s.key = k /\ s.etag = mapping[k].etag
    BY <1>1, <1>2 DEF Dangling, Backed, SnapshotsAt
  <1>4. ~ \E x \in snaps' : /\ x.group = s.group /\ x.time = s.time
                            /\ x.key = s.key /\ x.etag = s.etag
    BY <1>1, <1>2, <1>3 DEF Backed, SnapshotsAt
  <1>5. PICK p \in Procs : At(p, "forget") /\ RemoveSnapshot(p)
    <2>1. s \notin snaps'
      BY <1>4
    <2>2. ~ UNCHANGED <<snaps, latest>>
      BY <2>1
    <2>3. \A p \in Procs : ~ (At(p, "backup") /\ Store(p))
      BY <2>1 DEF Store
    <2>4. \A p \in Procs : ~ UpdateNotes(p)
      BY <1>4, Relabelled
    <2>5. QED
      BY <2>2, <2>3, <2>4, SnapshotSteps
  <1>6. s \in SnapshotsAt(Group(p), old[p].stamp)
    BY <1>4, <1>5 DEF RemoveSnapshot
  <1>7. old[p] # None /\ call[p].op \in {"put", "delete"}
    BY <1>5 DEF At, IInv, PhaseInv
  <1>8. KeyOf(p) = k
    BY <1>3, <1>6, <1>7 DEF IInv, StampInv, OldNames, Names, Group
  <1>9. call[p].op # "put"
    BY <1>1, <1>2, <1>3, <1>5, <1>6, <1>8 DEF At, IInv, StampInv, Supersedes, SnapshotsAt
  <1>10. QED
    BY <1>5, <1>7, <1>8, <1>9 DEF At

(* A mapping loses its snapshot to a DeleteObject of its key, to nothing else. *)
THEOREM NeverUnbacked == ASSUME FreshStamps PROVE Spec => OnlyDeleteUnbacks
  <1>1. IInv /\ [Next]_vars =>
          [\A k \in Keys : ~ Dangling(k) /\ Dangling(k)' =>
             \E p \in Procs : pc[p] = "forget" /\ call[p].op = "delete" /\ KeyOf(p) = k]_vars
    BY FreshStamps, StaysBacked
  <1>2. QED
    BY <1>1, Invariance, PTL DEF Spec, OnlyDeleteUnbacks

(* While a request is in Backup nobody else adds to its group. *)
THEOREM HistoryIsStill == Spec => OnlyOwnAttemptsMoveHistory
  <1>1. IInv /\ [Next]_vars =>
          [\A p \in Procs : pc[p] = "backup" /\ latest'[Group(p)] # latest[Group(p)] =>
             pc'[p] # "backup" \/ tries'[p] # tries[p]]_vars
    <2> SUFFICES ASSUME IInv, [Next]_vars, NEW p \in Procs, pc[p] = "backup",
                        latest'[Group(p)] # latest[Group(p)]
                 PROVE  pc'[p] # "backup" \/ tries'[p] # tries[p]
      OBVIOUS
    <2>1. PICK q \in Procs : At(q, "backup") /\ (BackupDone(q) \/ BackupFails(q))
      BY DEF Next, Step, vars, env, Receive, LockKey, LockGroup, BackupDone, BackupFails,
             BackupCollides, UpdateNotes, ReadOld, WriteMapping, ForgetDone, ForgetFails,
             Lookup, DeleteMapping, ReadMapping, Restore, Return, Crash, Tick
    <2>2. Group(q) = Group(p)
      <3>1. latest' = [latest EXCEPT ![Group(q)] = latest'[Group(q)]]
        BY <2>1 DEF BackupDone, BackupFails, Store, IInv, TypeOK
      <3>2. Group(p) \in Groups /\ latest \in [Groups -> Nat]
        BY CallType DEF IInv, TypeOK
      <3>3. QED
        BY <3>1, <3>2
    <2>3. q = p
      BY <2>1, <2>2 DEF At, IInv, LockInv
    <2>4. QED
      BY <2>1, <2>3 DEF BackupDone, BackupFails, Goto, Answer, IInv, TypeOK
  <1>2. QED
    BY <1>1, Invariance, PTL DEF Spec, OnlyOwnAttemptsMoveHistory

------------------------------------------------------------------------------
(***************************************************************************)
(* Snapshots that leak, and notes that are missing                         *)
(***************************************************************************)
OneSnapshot == \A s, t \in snaps : s.group = t.group /\ s.time = t.time => s = t

(* What a request is about to overwrite or to delete is still the mapping. *)
OldIsMapping ==
  \A p \in Procs :
    \/ pc[p] \in {"write", "unmap"}
    \/ pc[p] = "forget" /\ call[p].op = "delete"
    => old[p] = mapping[KeyOf(p)]

(* A mapping is deleted only when its snapshot is gone. *)
Forgotten ==
  \A p \in Procs : pc[p] = "unmap" =>
    old[p] # None /\ SnapshotsAt(Group(p), old[p].stamp) = {}

MostLeaks == faults + crashes * (Cardinality(Procs) - 1)

LeakInv == /\ OneSnapshot /\ OldIsMapping /\ Forgotten
           /\ IsFiniteSet(Orphans) /\ Cardinality(Orphans) <= MostLeaks

(* The backup made for k at t lacks its note. *)
Unlabelled(k, t) == \E s \in SnapshotsAt(GroupOf[k], t) : s.note # k

(* The keys whose mapping names such a backup, or will. *)
Unnoted ==
  {k \in Keys : \/ mapping[k] # None /\ Unlabelled(k, mapping[k].stamp)
                \/ \E p \in Procs : /\ pc[p] \in {"readOld", "write"} /\ KeyOf(p) = k
                                    /\ Unlabelled(k, stamp[p])}

NoteInv == IsFiniteSet(Unnoted) /\ Cardinality(Unnoted) <= faults

(* A backup keeps its note. *)
LEMMA LabelsKept ==
  ASSUME IInv, FreshStamps, [Next]_vars, NEW k \in Keys, NEW t \in Nat, NEW e, Names(k, t, e),
         Unlabelled(k, t)'
  PROVE  Unlabelled(k, t)
  <1> USE KeyAssumption DEF Names, SnapshotsAt, Unlabelled
  <1>1. CASE UNCHANGED <<snaps, latest>>
    BY <1>1
  <1>2. ASSUME NEW p \in Procs, At(p, "backup"), Store(p) PROVE Unlabelled(k, t)
    <2>1. GroupOf[k] = Group(p) => t # stamp[p]
      BY <1>2, Stored DEF IInv, TypeOK
    <2>2. \A s \in snaps' \ snaps : s.group = Group(p) /\ s.time = stamp[p]
      BY <1>2, Stored
    <2>3. QED
      BY <2>1, <2>2
  <1>3. ASSUME NEW p \in Procs, UpdateNotes(p) PROVE Unlabelled(k, t)
    <2>1. /\ pc[p] \in InFlight /\ KeyOf(p) \in Keys
          /\ \A s \in SnapshotsAt(Group(p), UsedTime(p)) : s.key = KeyOf(p)
      BY <1>3, CallType DEF UpdateNotes, At, InFlight, IInv, StampInv, StampNames, Group, UsedTime
    <2>2. PICK s \in snaps' : s.group = GroupOf[k] /\ s.time = t /\ s.note # k
      OBVIOUS
    <2>3. CASE s \in snaps
      BY <2>2, <2>3
    <2>4. CASE s \notin snaps
      <3>1. PICK x \in SnapshotsAt(Group(p), UsedTime(p)) : s = [x EXCEPT !.note = KeyOf(p)]
        BY <1>3, <2>4 DEF UpdateNotes
      <3>2. /\ s.group = x.group /\ s.time = x.time /\ s.note = KeyOf(p)
        BY <3>1 DEF IInv, TypeOK, Snapshot
      <3>3. x.key = k /\ x.key = KeyOf(p)
        BY <2>1, <2>2, <3>1, <3>2
      <3> QED BY <2>2, <3>2, <3>3
    <2> QED BY <2>3, <2>4
  <1>4. ASSUME NEW p \in Procs, At(p, "forget"), RemoveSnapshot(p), latest' = latest
        PROVE  Unlabelled(k, t)
    BY <1>4 DEF RemoveSnapshot
  <1>5. QED
    BY <1>1, <1>2, <1>3, <1>4, SnapshotSteps

(* The clock of failures never goes back. *)
LEMMA FaultsGrow ==
  ASSUME IInv, [Next]_vars
  PROVE  faults' \in Nat /\ faults' >= faults
  <1>1. faults' = faults \/ faults' = faults + 1
    BY DEF Next, Step, vars, env, Receive, LockKey, LockGroup, BackupDone, BackupFails,
           BackupCollides, UpdateNotes, ReadOld, WriteMapping, ForgetDone, ForgetFails, Lookup,
           DeleteMapping, ReadMapping, Restore, Return, Crash, Tick, Fault, StoreFails
  <1> QED BY <1>1 DEF IInv, TypeOK

(* Into "readOld" a request comes from UpdateNotes. *)
LEMMA NotesSteps ==
  ASSUME IInv, [Next]_vars, NEW p \in Procs, pc'[p] \in {"readOld", "write"}
  PROVE  pc[p] \in {"readOld", "write"} \/ UpdateNotes(p)
  <1> USE DEF IInv, TypeOK, At, Goto, Answer
  <1>1. ASSUME NEW q \in Procs,
               \/ Receive(q) \/ LockKey(q) \/ LockGroup(q)
               \/ BackupDone(q) \/ BackupFails(q) \/ BackupCollides(q)
               \/ WriteMapping(q) \/ ReadOld(q)
        PROVE  pc[p] \in {"readOld", "write"}
    BY <1>1 DEF Receive, LockKey, LockGroup, BackupDone, BackupFails, BackupCollides,
                ReadOld, WriteMapping, StoreFails
  <1>2. ASSUME NEW q \in Procs,
               \/ ForgetDone(q) \/ ForgetFails(q) \/ Lookup(q) \/ DeleteMapping(q)
               \/ ReadMapping(q) \/ Restore(q)
        PROVE  pc[p] \in {"readOld", "write"}
    BY <1>2 DEF ForgetDone, ForgetFails, Lookup, DeleteMapping, ReadMapping, Restore, StoreFails
  <1>3. ASSUME NEW q \in Procs \ {p}, UpdateNotes(q) PROVE pc[p] \in {"readOld", "write"}
    BY <1>3 DEF UpdateNotes
  <1>4. ASSUME (\E q \in Procs : Return(q)) \/ Crash PROVE pc[p] \in {"readOld", "write"}
    BY <1>4 DEF Return, Crash, Clear
  <1>5. CASE Tick \/ UNCHANGED vars
    BY <1>5 DEF Tick, vars, locals
  <1>6. QED
    BY <1>1, <1>2, <1>3, <1>4, <1>5 DEF Next, Step

(* A key comes to lack its note only where writing it fails. *)
LEMMA UnnotedSteps ==
  ASSUME IInv, FreshStamps, [Next]_vars, NEW k \in Unnoted', k \notin Unnoted
  PROVE  \E p \in Procs : UpdateNotes(p) /\ KeyOf(p) = k /\ faults' = faults + 1
  <1>1. k \in Keys
    BY DEF Unnoted
  <1>2. CASE mapping'[k] # None /\ Unlabelled(k, mapping[k].stamp)'
    <2>1. CASE mapping'[k] = mapping[k]
      <3>1. /\ mapping[k].stamp \in Nat
            /\ Names(k, mapping[k].stamp, mapping[k].etag)
        BY <1>1, <1>2, <2>1 DEF IInv, TypeOK, Mapping, StampInv, MappingNames
      <3>2. ~ Unlabelled(k, mapping[k].stamp)
        BY <1>1, <1>2, <2>1 DEF Unnoted
      <3> HIDE DEF Unlabelled
      <3>3. PICK t \in Nat : t = mapping[k].stamp
        BY <3>1
      <3>4. Unlabelled(k, t)'
        BY <1>2, <2>1, <3>3 DEF Unlabelled, SnapshotsAt
      <3> QED BY <1>1, <3>1, <3>2, <3>3, <3>4, LabelsKept
    <2>2. ASSUME NEW p \in Procs, At(p, "write"), KeyOf(p) = k,
                 mapping'[k] = [stamp |-> stamp[p], etag |-> call[p].body]
          PROVE  FALSE
      <3>1. PICK t \in Nat : t = stamp[p]
        BY DEF IInv, TypeOK
      <3>2. Names(k, t, call[p].body) /\ ~ Unlabelled(k, t)
        BY <1>1, <2>2, <3>1 DEF At, IInv, StampInv, StampNames, InFlight, Unnoted
      <3>3. Unlabelled(k, t)'
        BY <1>2, <2>2, <3>1 DEF Unlabelled, SnapshotsAt
      <3> QED BY <1>1, <3>2, <3>3, LabelsKept
    <2> QED BY <1>1, <1>2, <2>1, <2>2, MappingSteps
  <1>3. ASSUME NEW p \in Procs, pc'[p] \in {"readOld", "write"}, KeyOf(p)' = k,
               Unlabelled(k, stamp[p])'
        PROVE  UpdateNotes(p) /\ KeyOf(p) = k /\ faults' = faults + 1
    <2>1. KeyOf(p) = k /\ stamp'[p] = stamp[p]
      BY <1>3, StampSteps DEF InFlight, KeyOf
    <2>2. PICK t \in Nat : t = stamp[p]
      BY DEF IInv, TypeOK
    <2>3. Unlabelled(k, t)'
      BY <1>3, <2>1, <2>2 DEF Unlabelled, SnapshotsAt
    <2>4. CASE pc[p] \in {"readOld", "write"}
      <3>1. Names(k, t, call[p].body) /\ ~ Unlabelled(k, t)
        BY <1>1, <2>1, <2>2, <2>4 DEF IInv, StampInv, StampNames, InFlight, Unnoted
      <3> QED BY <1>1, <2>3, <3>1, LabelsKept
    <2>5. CASE UpdateNotes(p)
      <3>1. CASE Fault("attempt")
        BY <2>1, <2>5, <3>1 DEF Fault
      <3>2. CASE snaps' = {IF s \in SnapshotsAt(Group(p), UsedTime(p))
                           THEN [s EXCEPT !.note = KeyOf(p)] ELSE s : s \in snaps}
        <4>1. PICK s \in snaps' : s.group = GroupOf[k] /\ s.time = t /\ s.note # k
          BY <2>3 DEF Unlabelled, SnapshotsAt
        <4>2. PICK x \in snaps : s = IF x \in SnapshotsAt(Group(p), UsedTime(p))
                                     THEN [x EXCEPT !.note = KeyOf(p)] ELSE x
          BY <3>2
        <4>3. x.group = s.group /\ x.time = s.time
          BY <4>2 DEF IInv, TypeOK, Snapshot
        <4>4. x \in SnapshotsAt(Group(p), UsedTime(p))
          BY <2>1, <2>2, <4>1, <4>3 DEF SnapshotsAt, Group, UsedTime
        <4>5. s.note = KeyOf(p)
          BY <4>2, <4>4 DEF IInv, TypeOK, Snapshot
        <4> QED BY <2>1, <4>1, <4>5
      <3> QED BY <2>5, <3>1, <3>2 DEF UpdateNotes
    <2> QED BY <1>3, <2>4, <2>5, NotesSteps
  <1> QED BY <1>2, <1>3 DEF Unnoted

(* Only the backup's own request can fail to write its notes, and then a fault has happened. *)
LEMMA NoteStep ==
  ASSUME IInv, FreshStamps, NoteInv, [Next]_vars
  PROVE  NoteInv'
  <1>1. faults \in Nat /\ faults' \in Nat /\ faults' >= faults
    BY FaultsGrow DEF IInv, TypeOK
  <1>2. IsFiniteSet(Unnoted) /\ Cardinality(Unnoted) \in Nat /\ Cardinality(Unnoted) <= faults
    BY FS_CardinalityType DEF NoteInv
  <1>3. CASE Unnoted' \subseteq Unnoted
    <2>1. IsFiniteSet(Unnoted') /\ Cardinality(Unnoted') <= Cardinality(Unnoted)
      BY <1>2, <1>3, FS_Subset
    <2>2. Cardinality(Unnoted') \in Nat
      BY <2>1, FS_CardinalityType
    <2> QED BY <1>1, <1>2, <2>1, <2>2 DEF NoteInv
  <1>4. ASSUME NEW k \in Unnoted', k \notin Unnoted PROVE NoteInv'
    <2>1. PICK p \in Procs : UpdateNotes(p) /\ KeyOf(p) = k /\ faults' = faults + 1
      BY <1>4, UnnotedSteps
    <2>2. Unnoted' \subseteq Unnoted \cup {k}
      <3> SUFFICES ASSUME NEW l \in Unnoted', l \notin Unnoted PROVE l = k
        OBVIOUS
      <3>1. PICK q \in Procs : UpdateNotes(q) /\ KeyOf(q) = l
        BY UnnotedSteps
      <3>2. p = q
        BY <2>1, <3>1 DEF UpdateNotes, At, Goto, IInv, TypeOK
      <3> QED BY <2>1, <3>1, <3>2
    <2>3. /\ IsFiniteSet(Unnoted \cup {k})
          /\ Cardinality(Unnoted \cup {k}) = Cardinality(Unnoted) + 1
      BY <1>2, <1>4, FS_AddElement
    <2>4. IsFiniteSet(Unnoted') /\ Cardinality(Unnoted') <= Cardinality(Unnoted \cup {k})
      BY <2>2, <2>3, FS_Subset
    <2>5. Cardinality(Unnoted') \in Nat
      BY <2>4, FS_CardinalityType
    <2> QED BY <1>1, <1>2, <2>1, <2>3, <2>4, <2>5 DEF NoteInv
  <1> QED BY <1>3, <1>4

(***************************************************************************)
(* As long as PBS never accepts a backup time twice, no more mapped keys   *)
(* lack their note than calls have failed (backend.go:134), for any number *)
(* of requests, keys, groups and faults.                                   *)
(***************************************************************************)
THEOREM NotesAreThere == ASSUME FreshStamps PROVE Spec => []NotesNameTheKey
  <1>1. Init => NoteInv
    <2> SUFFICES ASSUME Init PROVE NoteInv
      OBVIOUS
    <2>1. Unnoted = {}
      BY DEF Init, Unnoted
    <2> QED BY <2>1, FS_EmptySet DEF NoteInv, Init
  <1>2. IInv /\ NoteInv /\ [Next]_vars => NoteInv'
    BY FreshStamps, NoteStep
  <1>3. IInv /\ NoteInv => NotesNameTheKey
    <2> SUFFICES ASSUME IInv, NoteInv PROVE NotesNameTheKey
      OBVIOUS
    <2> DEFINE S == {k \in Keys : mapping[k] # None /\
                       \E s \in SnapshotsAt(GroupOf[k], mapping[k].stamp) : s.note # k}
    <2>1. S \subseteq Unnoted
      BY DEF Unnoted, Unlabelled
    <2>2. IsFiniteSet(S) /\ Cardinality(S) <= Cardinality(Unnoted)
      BY <2>1, FS_Subset DEF NoteInv
    <2>3. Cardinality(S) \in Nat /\ Cardinality(Unnoted) \in Nat /\ faults \in Nat
      BY <2>2, FS_CardinalityType DEF NoteInv, IInv, TypeOK
    <2> QED BY <2>2, <2>3 DEF NoteInv, NotesNameTheKey
  <1> QED BY <1>1, <1>2, <1>3, Invariance, PTL DEF Spec

------------------------------------------------------------------------------
(* Requests but the one that moves stay where they are. *)
LEMMA OthersStay ==
  ASSUME IInv, NEW p \in Procs, Receive(p) \/ Step(p), NEW q \in Procs \ {p}
  PROVE  pc'[q] = pc[q] /\ call'[q] = call[q] /\ stamp'[q] = stamp[q] /\ old'[q] = old[q]
  <1> USE DEF IInv, TypeOK, Goto, Answer, StoreFails, locals
  <1>1. CASE Receive(p) \/ LockKey(p) \/ LockGroup(p) \/ BackupDone(p) \/ BackupFails(p)
    BY <1>1 DEF Receive, LockKey, LockGroup, BackupDone, BackupFails
  <1>2. CASE BackupCollides(p) \/ UpdateNotes(p) \/ ReadOld(p) \/ WriteMapping(p)
    BY <1>2 DEF BackupCollides, UpdateNotes, ReadOld, WriteMapping
  <1>3. CASE ForgetDone(p) \/ ForgetFails(p) \/ Lookup(p) \/ DeleteMapping(p)
    BY <1>3 DEF ForgetDone, ForgetFails, Lookup, DeleteMapping
  <1>4. CASE ReadMapping(p) \/ Restore(p) \/ Return(p)
    BY <1>4 DEF ReadMapping, Restore, Return, Clear
  <1>5. QED
    BY <1>1, <1>2, <1>3, <1>4 DEF Step

(* A request changes no other's mapping while that one holds its lock. *)
LEMMA OthersMappings ==
  ASSUME IInv, NEW p \in Procs, Receive(p) \/ Step(p), NEW q \in Procs \ {p}, pc[q] \in Locked
  PROVE  mapping'[KeyOf(q)] = mapping[KeyOf(q)]
  <1>1. KeyOf(q) \in Keys /\ holder[KeyOf(q)] = q
    BY CallType DEF Locked, Uploading, IInv, LockInv
  <1>2. CASE mapping' = mapping
    BY <1>2
  <1>3. ASSUME mapping' # mapping PROVE mapping'[KeyOf(q)] = mapping[KeyOf(q)]
    <2>1. /\ pc[p] \in {"write", "unmap"}
          /\ \E m : mapping' = [mapping EXCEPT ![KeyOf(p)] = m]
      BY <1>3 DEF Step, Receive, LockKey, LockGroup, BackupDone, BackupFails, BackupCollides,
                  UpdateNotes, ReadOld, WriteMapping, ForgetDone, ForgetFails, Lookup,
                  DeleteMapping, ReadMapping, Restore, Return, At
    <2>2. KeyOf(p) # KeyOf(q)
      BY <1>1, <2>1 DEF IInv, LockInv, Locked, Uploading
    <2> QED BY <1>1, <2>1, <2>2 DEF IInv, TypeOK
  <1> QED BY <1>2, <1>3

(* No backup time is used twice in a group. *)
LEMMA OneStep == ASSUME IInv, FreshStamps, OneSnapshot, [Next]_vars PROVE OneSnapshot'
  <1> USE DEF OneSnapshot
  <1>1. CASE UNCHANGED <<snaps, latest>>
    BY <1>1
  <1>2. ASSUME NEW p \in Procs, At(p, "backup"), Store(p) PROVE OneSnapshot'
    <2>1. \A s \in snaps : s.group = Group(p) => s.time # stamp[p]
      <3> SUFFICES ASSUME NEW s \in snaps, s.group = Group(p), s.time = stamp[p] PROVE FALSE
        OBVIOUS
      <3>1. stamp[p] <= latest[Group(p)]
        BY DEF IInv, StampInv, HistoryInv
      <3>2. stamp[p] > latest[Group(p)] /\ stamp[p] \in Nat /\ Group(p) \in Groups
        BY <1>2, Stored, KeyAssumption
      <3> QED BY <3>1, <3>2 DEF IInv, TypeOK
    <2>2. \A s \in snaps' \ snaps : s = [group |-> Group(p), time |-> stamp[p],
                                         key |-> KeyOf(p), etag |-> call[p].body, note |-> None]
      BY <1>2, Stored
    <2>3. \A s \in snaps' \ snaps : s.group = Group(p) /\ s.time = stamp[p]
      BY <2>2
    <2> QED BY <2>1, <2>2, <2>3
  <1>3. ASSUME NEW p \in Procs, UpdateNotes(p) PROVE OneSnapshot'
    <2>1. CASE snaps' = snaps
      BY <2>1
    <2>2. CASE snaps' # snaps
      <3> DEFINE f(s) == IF s \in SnapshotsAt(Group(p), UsedTime(p))
                         THEN [s EXCEPT !.note = KeyOf(p)] ELSE s
      <3>1. snaps' = {f(s) : s \in snaps}
        BY <1>3, <2>2 DEF UpdateNotes
      <3>2. \A s \in snaps : f(s).group = s.group /\ f(s).time = s.time
        BY DEF IInv, TypeOK, Snapshot
      <3> HIDE DEF f
      <3> SUFFICES ASSUME NEW x \in snaps, NEW y \in snaps,
                          f(x).group = f(y).group, f(x).time = f(y).time
                   PROVE  f(x) = f(y)
        BY <3>1
      <3>3. x = y
        BY <3>2
      <3> QED BY <3>3
    <2> QED BY <2>1, <2>2
  <1>4. ASSUME NEW p \in Procs, At(p, "forget"), RemoveSnapshot(p) PROVE OneSnapshot'
    BY <1>4 DEF RemoveSnapshot
  <1> QED BY <1>1, <1>2, <1>3, <1>4, SnapshotSteps

(* What the holder of a key has read of its mapping stays true. *)
LEMMA OldIsMappingStep ==
  ASSUME IInv, OldIsMapping, [Next]_vars
  PROVE  OldIsMapping'
  <1> USE DEF OldIsMapping
  <1>1. ASSUME NEW p \in Procs, Receive(p) \/ Step(p) PROVE OldIsMapping'
    <2> SUFFICES ASSUME NEW q \in Procs,
                        \/ pc'[q] \in {"write", "unmap"}
                        \/ pc'[q] = "forget" /\ call'[q].op = "delete"
                 PROVE  old'[q] = mapping'[KeyOf(q)']
      BY DEF KeyOf
    <2>1. CASE q # p
      <3>1. pc[q] \in Locked /\ old[q] = mapping[KeyOf(q)]
        BY <1>1, <2>1, OthersStay DEF Locked, Uploading
      <3> QED BY <1>1, <2>1, <3>1, OthersStay, OthersMappings DEF KeyOf
    <2>2. CASE q = p
      <3> USE <2>2 DEF At, Goto, Answer, KeyOf, IInv, TypeOK, PhaseInv, StoreFails
      <3>1. CASE Receive(p) \/ LockKey(p) \/ LockGroup(p) \/ BackupDone(p) \/ BackupFails(p)
                 \/ BackupCollides(p) \/ UpdateNotes(p)
        BY <3>1 DEF Receive, LockKey, LockGroup, BackupDone, BackupFails, BackupCollides,
                    UpdateNotes, Uploading
      <3>2. CASE ReadOld(p) \/ WriteMapping(p)
        BY <3>2 DEF ReadOld, WriteMapping, Uploading
      <3>3. CASE ForgetDone(p) \/ ForgetFails(p)
        BY <3>3 DEF ForgetDone, ForgetFails
      <3>4. CASE Lookup(p) \/ DeleteMapping(p) \/ ReadMapping(p) \/ Restore(p)
        BY <3>4 DEF Lookup, DeleteMapping, ReadMapping, Restore
      <3>5. CASE Return(p)
        BY <3>5 DEF Return, Clear
      <3> QED BY <1>1, <3>1, <3>2, <3>3, <3>4, <3>5 DEF Step
    <2> QED BY <2>1, <2>2
  <1>2. CASE Crash
    BY <1>2 DEF Crash, Clear
  <1>3. CASE Tick \/ UNCHANGED vars
    BY <1>3 DEF Tick, vars, locals, KeyOf
  <1> QED BY <1>1, <1>2, <1>3 DEF Next

(* What is forgotten stays so. *)
LEMMA ForgottenStep ==
  ASSUME IInv, FreshStamps, Forgotten, [Next]_vars
  PROVE  Forgotten'
  <1> SUFFICES ASSUME NEW p \in Procs, pc'[p] = "unmap"
               PROVE  old'[p] # None /\ SnapshotsAt(Group(p), old[p].stamp)' = {}
    BY DEF Forgotten
  <1>1. /\ call'[p] = call[p] /\ old'[p] = old[p] /\ old[p] # None
        /\ pc[p] = "unmap" \/ ForgetDone(p)
    <2>1. ASSUME NEW q \in Procs \ {p}, Receive(q) \/ Step(q)
          PROVE  call'[p] = call[p] /\ old'[p] = old[p] /\ pc[p] = "unmap"
      BY <2>1, OthersStay
    <2>2. ASSUME Receive(p) \/ Step(p)
          PROVE  call'[p] = call[p] /\ old'[p] = old[p] /\ ForgetDone(p)
      BY <2>2 DEF Step, Receive, LockKey, LockGroup, BackupDone, BackupFails, BackupCollides,
                  UpdateNotes, ReadOld, WriteMapping, ForgetDone, ForgetFails, Lookup,
                  DeleteMapping, ReadMapping, Restore, Return, Clear, StoreFails, Goto, Answer,
                  At, IInv, TypeOK
    <2>3. CASE Crash \/ Tick \/ UNCHANGED vars
      BY <2>3 DEF Crash, Clear, Tick, vars, locals, Forgotten
    <2>4. ForgetDone(p) => old[p] # None
      BY DEF ForgetDone, At, IInv, PhaseInv
    <2> QED BY <2>1, <2>2, <2>3, <2>4 DEF Next, Forgotten
  <1>2. CASE pc[p] = "unmap"
    <2>1. /\ KeyOf(p) \in Keys /\ old[p].stamp \in Nat
          /\ SnapshotsAt(Group(p), old[p].stamp) = {}
      BY <1>1, <1>2, CallType DEF Forgotten, IInv, TypeOK, Mapping
    <2>2. PICK k \in Keys, t \in Nat : k = KeyOf(p) /\ t = old[p].stamp
      BY <2>1
    <2>3. Names(k, t, None)
      BY <1>1, <2>1, <2>2 DEF Names, Group, IInv, StampInv, OldNames
    <2>4. Names(k, t, None)'
      BY <2>3, NamesKept
    <2>5. \A s \in snaps' : s.etag # None
      BY TypeStep, NoneAssumption DEF TypeOK, Snapshot
    <2>6. SnapshotsAt(GroupOf[k], t)' = {}
      BY <2>4, <2>5 DEF Names, SnapshotsAt
    <2> QED BY <1>1, <2>2, <2>6 DEF SnapshotsAt, Group, KeyOf
  <1>3. CASE ForgetDone(p)
    BY <1>1, <1>3 DEF ForgetDone, RemoveSnapshot, SnapshotsAt, Group, KeyOf
  <1> QED BY <1>1, <1>2, <1>3

------------------------------------------------------------------------------
(* What a request would leak if it went away. *)
Hand(p) == {s \in snaps : InHand(s, p)}

(* Requests of one key hold one lock, so one snapshot at most is in hand for it. *)
LEMMA OneInHand ==
  ASSUME IInv, FreshStamps, OneSnapshot, NEW p \in Procs, NEW s \in Hand(p), NEW t \in Hand(p)
  PROVE  s = t
  BY DEF Hand, InHand, OneSnapshot, IInv, StampInv, HistoryInv

(* What a request does leaves the others' snapshots in their hands. *)
LEMMA OthersHold ==
  ASSUME IInv, NEW p \in Procs, Receive(p) \/ Step(p), NEW q \in Procs \ {p},
         NEW s, InHand(s, q)
  PROVE  InHand(s, q)'
  BY OthersStay DEF InHand, KeyOf

(* While mappings stay, only the request that moves can lose a snapshot. *)
LEMMA OwnLoss ==
  ASSUME IInv, NEW p \in Procs, Receive(p) \/ Step(p), mapping' = mapping,
         NEW s \in Orphans', s \in snaps, s \notin Orphans
  PROVE  s \in Hand(p) /\ ~ InHand(s, p)'
  <1>1. /\ mapping[s.key] = None \/ mapping[s.key].stamp # s.time
        /\ \A q \in Procs : ~ InHand(s, q)'
    BY DEF Orphans
  <1>2. PICK q \in Procs : InHand(s, q)
    BY <1>1 DEF Orphans
  <1>3. q = p
    BY <1>1, <1>2, OthersHold
  <1> QED BY <1>1, <1>2, <1>3 DEF Hand

(* A backup orphans at most its own snapshot, and only with a fault. *)
LEMMA BackupOrphans ==
  ASSUME IInv, FreshStamps, NEW p \in Procs, BackupDone(p) \/ BackupFails(p)
  PROVE  \/ Orphans' \subseteq Orphans
         \/ faults' = faults + 1 /\ \E s : Orphans' \subseteq Orphans \cup {s}
  <1>1. pc[p] = "backup" /\ mapping' = mapping /\ Hand(p) = {}
    BY DEF BackupDone, BackupFails, At, Hand, InHand
  <1>2. \A s \in Orphans' : s \in snaps => s \in Orphans
    BY <1>1, OwnLoss DEF Step
  <1>3. CASE snaps' = snaps
    BY <1>2, <1>3 DEF Orphans
  <1>4. CASE Store(p)
    <2>0. PICK n : n = [group |-> Group(p), time |-> stamp[p], key |-> KeyOf(p),
                        etag |-> call[p].body, note |-> None]
      OBVIOUS
    <2>1. Orphans' \subseteq Orphans \cup {n}
      BY <1>2, <1>4, <2>0 DEF Store, Orphans
    <2>2. CASE BackupDone(p)
      <3>1. InHand(n, p)'
        BY <2>0, <2>2 DEF BackupDone, Goto, InHand, KeyOf, IInv, TypeOK
      <3>2. n \notin Orphans'
        BY <3>1 DEF Orphans
      <3> QED BY <2>1, <3>2
    <2>3. CASE BackupFails(p)
      <3>1. faults' = faults + 1
        BY <2>3 DEF BackupFails, Fault
      <3> QED BY <2>1, <3>1
    <2> QED BY <2>2, <2>3
  <1> QED BY <1>3, <1>4 DEF BackupDone, BackupFails

(* Writing notes orphans nothing. *)
LEMMA NotesOrphans ==
  ASSUME IInv, FreshStamps, NEW p \in Procs, UpdateNotes(p)
  PROVE  Orphans' \subseteq Orphans
  <1>1. /\ mapping' = mapping /\ call' = call /\ stamp' = stamp
        /\ pc[p] = "notes" /\ pc'[p] = "readOld"
    BY DEF UpdateNotes, At, Goto, IInv, TypeOK
  <1>2. ASSUME NEW s, InHand(s, p) PROVE InHand(s, p)'
    BY <1>1, <1>2 DEF InHand, KeyOf
  <1>3. SUFFICES ASSUME NEW s \in Orphans' PROVE s \in snaps
    BY <1>1, <1>2, OwnLoss DEF Step, Hand
  <1>4. CASE s \notin snaps
    <2>1. s \in snaps'
      BY DEF Orphans
    <2>2. PICK x \in SnapshotsAt(Group(p), UsedTime(p)) : s = [x EXCEPT !.note = KeyOf(p)]
      BY <1>4, <2>1 DEF UpdateNotes
    <2>3. s.key = x.key /\ s.time = x.time
      BY <2>2 DEF IInv, TypeOK, Snapshot, SnapshotsAt
    <2>4. x.time = stamp[p] /\ x.key = KeyOf(p)
      BY <1>1 DEF SnapshotsAt, UsedTime, Group, InFlight, IInv, StampInv, StampNames, Names
    <2>5. InHand(s, p)'
      BY <1>1, <2>3, <2>4 DEF InHand, KeyOf
    <2> QED BY <2>5 DEF Orphans
  <1> QED BY <1>4

(* So do the steps up to the mapping: only a bbolt write that fails orphans what is in hand. *)
LEMMA CommitOrphans ==
  ASSUME IInv, FreshStamps, OldIsMapping, NEW p \in Procs, ReadOld(p) \/ WriteMapping(p)
  PROVE  \/ Orphans' \subseteq Orphans
         \/ faults' = faults + 1 /\ Orphans' \subseteq Orphans \cup Hand(p)
  <1>0. Orphans' \subseteq snaps
    BY DEF Orphans, ReadOld, WriteMapping
  <1>1. CASE StoreFails(p)
    <2>1. mapping' = mapping /\ faults' = faults + 1
      BY <1>1 DEF ReadOld, WriteMapping, StoreFails, Fault, Answer, Goto, At, IInv, TypeOK
    <2> QED BY <1>0, <2>1, OwnLoss DEF Step
  <1>2. CASE ReadOld(p) /\ ~ StoreFails(p)
    <2>1. /\ mapping' = mapping /\ call' = call /\ stamp' = stamp
          /\ pc[p] = "readOld" /\ pc'[p] = "write"
      BY <1>2 DEF ReadOld, At, Goto, IInv, TypeOK
    <2>2. ASSUME NEW s, InHand(s, p) PROVE InHand(s, p)'
      BY <2>1, <2>2 DEF InHand, KeyOf
    <2> QED BY <1>0, <2>1, <2>2, OwnLoss DEF Step, Hand
  <1>3. CASE WriteMapping(p) /\ ~ StoreFails(p)
    <2>1. /\ pc[p] = "write" /\ call' = call /\ stamp' = stamp /\ old' = old
          /\ KeyOf(p) \in Keys /\ old[p] = mapping[KeyOf(p)]
          /\ mapping' = [mapping EXCEPT ![KeyOf(p)] =
                           [stamp |-> stamp[p], etag |-> call[p].body]]
          /\ old[p] # None => pc'[p] = "forget"
      BY <1>3, CallType DEF WriteMapping, UsedTime, At, Goto, IInv, TypeOK, OldIsMapping
    <2>2. /\ mapping'[KeyOf(p)].stamp = stamp[p]
          /\ mapping'[KeyOf(p)] # None
          /\ \A k \in Keys \ {KeyOf(p)} : mapping'[k] = mapping[k]
      <3>1. mapping'[KeyOf(p)] = [stamp |-> stamp[p], etag |-> call[p].body]
        BY <2>1 DEF IInv, TypeOK
      <3>2. [stamp |-> stamp[p], etag |-> call[p].body] \in Mapping
        BY <2>1, CallType DEF IInv, PhaseInv, Uploading, TypeOK, Mapping
      <3> QED BY <2>1, <3>1, <3>2, NoneAssumption DEF IInv, TypeOK
    <2>3. ASSUME NEW s \in Orphans', s \notin Orphans PROVE FALSE
      <3>1. /\ s \in snaps /\ s.key \in Keys
            /\ mapping'[s.key] = None \/ mapping'[s.key].stamp # s.time
            /\ \A q \in Procs : ~ InHand(s, q)'
        BY <1>0, <2>3 DEF Orphans, IInv, TypeOK, Snapshot
      <3>2. CASE s.key = KeyOf(p) /\ mapping[s.key] # None /\ mapping[s.key].stamp = s.time
        <4>1. InHand(s, p)'
          BY <2>1, <3>2 DEF InHand, KeyOf
        <4> QED BY <3>1, <4>1
      <3>3. CASE s.key # KeyOf(p) /\ mapping[s.key] # None /\ mapping[s.key].stamp = s.time
        BY <2>2, <3>1, <3>3
      <3>4. ASSUME NEW q \in Procs, InHand(s, q) PROVE FALSE
        <4>1. q = p
          BY <3>1, <3>4, OthersHold DEF Step
        <4> QED BY <2>1, <2>2, <3>1, <3>4, <4>1 DEF InHand
      <3> QED BY <2>3, <3>1, <3>2, <3>3, <3>4 DEF Orphans
    <2> QED BY <2>3
  <1> QED BY <1>1, <1>2, <1>3

(* A Forget orphans what it was to remove, and only by failing. *)
LEMMA ForgetOrphans ==
  ASSUME IInv, FreshStamps, OldIsMapping, NEW p \in Procs, ForgetDone(p) \/ ForgetFails(p)
  PROVE  \/ Orphans' \subseteq Orphans
         \/ faults' = faults + 1 /\ Orphans' \subseteq Orphans \cup Hand(p)
  <1>1. /\ pc[p] = "forget" /\ mapping' = mapping /\ call' = call /\ old' = old
        /\ snaps' \subseteq snaps /\ old[p] # None
    BY DEF ForgetDone, ForgetFails, RemoveSnapshot, At, IInv, PhaseInv
  <1>2. \A s \in Orphans' : s \notin Orphans => s \in Hand(p)
    BY <1>1, OwnLoss DEF Step, Orphans
  <1>3. CASE ForgetFails(p)
    BY <1>2, <1>3 DEF ForgetFails, Fault
  <1>4. CASE ForgetDone(p)
    <2>1. \A s \in Hand(p) : s \notin snaps'
      BY <1>1, <1>4 DEF Hand, InHand, ForgetDone, RemoveSnapshot, SnapshotsAt, Group, IInv,
                        StampInv, HistoryInv
    <2> QED BY <1>2, <2>1 DEF Orphans
  <1> QED BY <1>3, <1>4

(* Unmapping orphans nothing: the snapshot has been forgotten. *)
LEMMA UnmapOrphans ==
  ASSUME IInv, FreshStamps, OldIsMapping, Forgotten, NEW p \in Procs, DeleteMapping(p)
  PROVE  Orphans' \subseteq Orphans
  <1>1. pc[p] = "unmap" /\ snaps' = snaps /\ KeyOf(p) \in Keys /\ old[p] = mapping[KeyOf(p)]
    BY CallType DEF DeleteMapping, At, OldIsMapping
  <1>2. \A s \in snaps : ~ InHand(s, p)
    BY <1>1 DEF InHand
  <1>3. CASE mapping' = mapping
    BY <1>1, <1>2, <1>3, OwnLoss DEF Step, Hand, Orphans
  <1>4. CASE mapping' = [mapping EXCEPT ![KeyOf(p)] = None]
    <2>1. ASSUME NEW s \in Orphans', s \notin Orphans PROVE FALSE
      <3>1. /\ s \in snaps /\ s.key \in Keys
            /\ \A q \in Procs : ~ InHand(s, q)'
        BY <1>1, <2>1 DEF Orphans, IInv, TypeOK, Snapshot
      <3>2. \A q \in Procs : ~ InHand(s, q)
        BY <1>2, <3>1, OthersHold DEF Step
      <3>3. mapping[s.key] # None /\ mapping[s.key].stamp = s.time
        BY <2>1, <3>1, <3>2 DEF Orphans
      <3>4. s.key = KeyOf(p)
        BY <1>4, <2>1, <3>1, <3>3 DEF Orphans, IInv, TypeOK
      <3>5. s \in SnapshotsAt(Group(p), old[p].stamp)
        BY <1>1, <3>1, <3>3, <3>4 DEF SnapshotsAt, Group, IInv, StampInv, HistoryInv
      <3> QED BY <1>1, <3>5 DEF Forgotten
    <2> QED BY <2>1
  <1> QED BY <1>3, <1>4 DEF DeleteMapping

(* Who moves may lose one snapshot, and then something has failed. *)
LEMMA OrphanStep ==
  ASSUME IInv, FreshStamps, OldIsMapping, Forgotten, NEW p \in Procs, Receive(p) \/ Step(p)
  PROVE  \/ Orphans' \subseteq Orphans
         \/ /\ faults' = faults + 1
            /\ \/ Orphans' \subseteq Orphans \cup Hand(p)
               \/ \E s : Orphans' \subseteq Orphans \cup {s}
  <1>1. CASE \/ Receive(p) \/ LockKey(p) \/ LockGroup(p) \/ BackupCollides(p) \/ Lookup(p)
             \/ ReadMapping(p) \/ Restore(p) \/ Return(p)
    <2>1. /\ mapping' = mapping /\ snaps' = snaps
          /\ pc[p] \notin {"notes", "readOld", "write", "forget"}
      BY <1>1 DEF Receive, LockKey, LockGroup, BackupCollides, Lookup, ReadMapping, Restore,
                  Return, At
    <2>2. Hand(p) = {}
      BY <2>1 DEF Hand, InHand
    <2> QED BY <2>1, <2>2, OwnLoss DEF Orphans
  <1>2. CASE BackupDone(p) \/ BackupFails(p)
    BY <1>2, BackupOrphans
  <1>3. CASE UpdateNotes(p)
    BY <1>3, NotesOrphans
  <1>4. CASE ReadOld(p) \/ WriteMapping(p)
    BY <1>4, CommitOrphans
  <1>5. CASE ForgetDone(p) \/ ForgetFails(p)
    BY <1>5, ForgetOrphans
  <1>6. CASE DeleteMapping(p)
    BY <1>6, UnmapOrphans
  <1> QED BY <1>1, <1>2, <1>3, <1>4, <1>5, <1>6 DEF Step

(* A crash may lose one of each. *)
LEMMA CrashOrphans ==
  ASSUME IInv, FreshStamps, OneSnapshot, IsFiniteSet(Procs), Crash
  PROVE  \E H : /\ Orphans' \subseteq Orphans \cup H
                /\ IsFiniteSet(H) /\ Cardinality(H) <= Cardinality(Procs)
  <1> DEFINE H == UNION {Hand(p) : p \in Procs}
             P == {p \in Procs : Hand(p) # {}}
             f == [p \in P |-> CHOOSE s \in Hand(p) : TRUE]
  <1>1. f \in Surjection(P, H)
    <2>1. \A p \in P : f[p] \in Hand(p)
      OBVIOUS
    <2>2. f \in [P -> H]
      BY <2>1
    <2>3. ASSUME NEW s \in H PROVE \E p \in P : f[p] = s
      <3>1. PICK p \in Procs : s \in Hand(p)
        OBVIOUS
      <3>2. p \in P /\ f[p] \in Hand(p)
        BY <2>1, <3>1
      <3> QED BY <3>1, <3>2, OneInHand
    <2> HIDE DEF f, P, H
    <2> QED BY <2>2, <2>3 DEF Surjection
  <1>2. IsFiniteSet(P) /\ Cardinality(P) <= Cardinality(Procs)
    BY FS_Subset
  <1>3. IsFiniteSet(H) /\ Cardinality(H) <= Cardinality(P)
    <2> HIDE DEF f, P, H
    <2> QED BY <1>1, <1>2, FS_Surjection
  <1>4. Orphans' \subseteq Orphans \cup H
    BY DEF Crash, Orphans, Hand
  <1>5. Cardinality(H) \in Nat /\ Cardinality(P) \in Nat /\ Cardinality(Procs) \in Nat
    BY <1>2, <1>3, FS_CardinalityType
  <1> HIDE DEF H, P
  <1> QED BY <1>2, <1>3, <1>4, <1>5

(* A set that grows by no more than another has elements. *)
LEMMA GrowsBy ==
  ASSUME NEW S, IsFiniteSet(S), NEW H, IsFiniteSet(H), NEW T \in SUBSET (S \cup H)
  PROVE  /\ IsFiniteSet(T)
         /\ Cardinality(S) \in Nat /\ Cardinality(H) \in Nat /\ Cardinality(T) \in Nat
         /\ Cardinality(T) <= Cardinality(S) + Cardinality(H)
  <1>1. IsFiniteSet(S \cup H) /\ IsFiniteSet(S \cap H)
    BY FS_Union, FS_Intersection
  <1>2. Cardinality(S \cup H) = Cardinality(S) + Cardinality(H) - Cardinality(S \cap H)
    BY FS_Union
  <1>3. IsFiniteSet(T) /\ Cardinality(T) <= Cardinality(S \cup H)
    BY <1>1, FS_Subset
  <1>4. /\ Cardinality(S) \in Nat /\ Cardinality(H) \in Nat /\ Cardinality(T) \in Nat
        /\ Cardinality(S \cap H) \in Nat /\ Cardinality(S \cup H) \in Nat
    BY <1>1, <1>3, FS_CardinalityType
  <1> QED BY <1>2, <1>3, <1>4

(* Only a crash counts as one. *)
LEMMA NoCrash ==
  ASSUME NEW p \in Procs, Receive(p) \/ Step(p)
  PROVE  crashes' = crashes
  BY DEF Step, env, Receive, LockKey, LockGroup, BackupDone, BackupFails, BackupCollides,
         UpdateNotes, ReadOld, WriteMapping, ForgetDone, ForgetFails, Lookup, DeleteMapping,
         ReadMapping, Restore, Return, Fault, StoreFails

(* No step orphans more snapshots than the faults it counts allow. *)
LEMMA LeakStep ==
  ASSUME IInv, FreshStamps, LeakInv, IsFiniteSet(Procs), [Next]_vars
  PROVE  IsFiniteSet(Orphans') /\ Cardinality(Orphans') <= MostLeaks'
  <1> DEFINE more == Cardinality(Procs) - 1
  <1>1. /\ faults \in Nat /\ faults' \in Nat /\ faults' >= faults
        /\ crashes \in Nat /\ more \in Int
    BY FaultsGrow, FS_CardinalityType DEF IInv, TypeOK
  <1>2. /\ MostLeaks = faults + crashes * more /\ MostLeaks' = faults' + crashes' * more
        /\ crashes * more \in Int /\ (crashes + 1) * more = crashes * more + more
    BY <1>1 DEF MostLeaks
  <1> HIDE DEF more
  <1>3. /\ crashes' = crashes => MostLeaks' = MostLeaks + (faults' - faults)
        /\ crashes' = crashes + 1 => MostLeaks' = MostLeaks + (faults' - faults) + more
        /\ MostLeaks \in Int
    BY <1>1, <1>2
  <1>4. ASSUME crashes' = crashes, Orphans' \subseteq Orphans
        PROVE  IsFiniteSet(Orphans') /\ Cardinality(Orphans') <= MostLeaks'
    <2>1. /\ IsFiniteSet(Orphans') /\ Cardinality(Orphans') <= Cardinality(Orphans)
          /\ Cardinality(Orphans) \in Nat
      BY <1>4, FS_Subset, FS_CardinalityType DEF LeakInv
    <2>2. Cardinality(Orphans') \in Nat
      BY <2>1, FS_CardinalityType
    <2>3. Cardinality(Orphans) <= MostLeaks
      BY DEF LeakInv
    <2> QED BY <1>1, <1>3, <1>4, <2>1, <2>2, <2>3
  <1>5. ASSUME faults' = faults + 1,
               NEW H, IsFiniteSet(H), Orphans' \subseteq Orphans \cup H,
               \/ crashes' = crashes /\ Cardinality(H) <= 1
               \/ crashes' = crashes + 1 /\ Cardinality(H) <= more + 1
        PROVE  IsFiniteSet(Orphans') /\ Cardinality(Orphans') <= MostLeaks'
    <2>1. /\ IsFiniteSet(Orphans')
          /\ Cardinality(Orphans) \in Nat /\ Cardinality(H) \in Nat
          /\ Cardinality(Orphans') \in Nat
          /\ Cardinality(Orphans') <= Cardinality(Orphans) + Cardinality(H)
      BY <1>5, GrowsBy DEF LeakInv
    <2>2. Cardinality(Orphans) <= MostLeaks
      BY DEF LeakInv
    <2> QED BY <1>1, <1>3, <1>5, <2>1, <2>2
  <1>6. ASSUME NEW p \in Procs, Receive(p) \/ Step(p)
        PROVE  IsFiniteSet(Orphans') /\ Cardinality(Orphans') <= MostLeaks'
    <2>1. crashes' = crashes
      BY <1>6, NoCrash
    <2>2. \A s : IsFiniteSet({s}) /\ Cardinality({s}) <= 1
      <3>1. \A s : IsFiniteSet({s}) /\ Cardinality({s}) = 1
        BY FS_Singleton
      <3>2. 1 <= 1
        OBVIOUS
      <3> QED BY <3>1, <3>2
    <2>3. Hand(p) = {} \/ \E s : Hand(p) = {s}
      BY OneInHand DEF LeakInv
    <2>4. CASE Orphans' \subseteq Orphans
      BY <1>4, <2>1, <2>4
    <2>5. CASE faults' = faults + 1 /\ \E s : Orphans' \subseteq Orphans \cup {s}
      BY <1>5, <2>1, <2>2, <2>5
    <2>6. CASE faults' = faults + 1 /\ Orphans' \subseteq Orphans \cup Hand(p)
      BY <1>4, <2>1, <2>3, <2>5, <2>6
    <2> QED BY <1>6, <2>4, <2>5, <2>6, OrphanStep DEF LeakInv
  <1>7. CASE Crash
    <2>1. faults' = faults + 1 /\ crashes' = crashes + 1
      BY <1>7 DEF Crash, Fault
    <2>2. more + 1 = Cardinality(Procs)
      BY FS_CardinalityType DEF more
    <2> QED BY <1>5, <1>7, <2>1, <2>2, CrashOrphans DEF LeakInv
  <1>8. CASE Tick \/ UNCHANGED vars
    BY <1>4, <1>8 DEF Tick, vars, locals, Orphans, InHand, KeyOf
  <1> QED BY <1>6, <1>7, <1>8 DEF Next

(***************************************************************************)
(* As long as PBS never accepts a backup time twice, whatever overlaps in  *)
(* whatever order, each failure of a call or a transaction leaks at most   *)
(* one snapshot and a crash at most one for each request (backend.go:109). *)
(***************************************************************************)
THEOREM LeaksAreBounded ==
  ASSUME FreshStamps, IsFiniteSet(Procs)
  PROVE  Spec => []LeaksAreFaults
  <1>1. Init => LeakInv
    <2> SUFFICES ASSUME Init PROVE LeakInv
      OBVIOUS
    <2>1. Orphans = {}
      BY DEF Init, Orphans
    <2>2. OneSnapshot /\ OldIsMapping /\ Forgotten
      BY DEF Init, OneSnapshot, OldIsMapping, Forgotten
    <2>3. MostLeaks = 0
      BY FS_CardinalityType, IsFiniteSet(Procs) DEF Init, MostLeaks
    <2> QED BY <2>1, <2>2, <2>3, FS_EmptySet DEF LeakInv
  <1>2. IInv /\ LeakInv /\ [Next]_vars => LeakInv'
    BY FreshStamps, IsFiniteSet(Procs), LeakStep, OneStep, OldIsMappingStep, ForgottenStep
       DEF LeakInv
  <1>3. LeakInv => LeaksAreFaults
    BY DEF LeakInv, MostLeaks, LeaksAreFaults
  <1> QED BY <1>1, <1>2, <1>3, Invariance, PTL DEF Spec

------------------------------------------------------------------------------
(***************************************************************************)
(* Objects implements S3Objects, from the invariant IInv: every step is a  *)
(* step of S3Objects under the mapping of Objects or leaves what S3Objects *)
(* sees as it was.  Downloads need the invariant's part on snapshots: what *)
(* is restored later is what the mapping named.                            *)
(***************************************************************************)
(* What S3Objects sees of the other requests does not change. *)
Others(p) == \A q \in Procs \ {p} : /\ pc'[q] = pc[q] /\ call'[q] = call[q] /\ old'[q] = old[q]
                                    /\ served'[q] = served[q] /\ result'[q] = result[q]

(* A step of p leaves the abstract state of the other requests. *)
LEMMA OthersKept ==
  ASSUME IInv, NEW p \in Procs, Receive(p) \/ (Step(p) /\ ~ Return(p))
  PROVE  Others(p)
  <1> USE DEF Others, IInv, TypeOK, Goto, Answer, StoreFails, locals
  <1>1. CASE Receive(p) \/ LockKey(p) \/ LockGroup(p) \/ BackupDone(p) \/ BackupFails(p)
    BY <1>1 DEF Receive, LockKey, LockGroup, BackupDone, BackupFails
  <1>2. CASE BackupCollides(p) \/ UpdateNotes(p) \/ ReadOld(p) \/ WriteMapping(p)
    BY <1>2 DEF BackupCollides, UpdateNotes, ReadOld, WriteMapping
  <1>3. CASE ForgetDone(p) \/ ForgetFails(p) \/ Lookup(p) \/ DeleteMapping(p)
    BY <1>3 DEF ForgetDone, ForgetFails, Lookup, DeleteMapping
  <1>4. CASE ReadMapping(p) \/ Restore(p)
    BY <1>4 DEF ReadMapping, Restore
  <1>5. QED
    BY <1>1, <1>2, <1>3, <1>4 DEF Step

(* The abstract state of a request is a function of its own variables. *)
LEMMA OthersSame ==
  ASSUME NEW p \in Procs, Others(p), NEW q \in Procs \ {p}
  PROVE  Phase(q)' = Phase(q) /\ call'[q] = call[q] /\ Seen(q)' = Seen(q) /\ Reply(q)' = Reply(q)
  BY DEF Others, Phase, Seen, Reply, Decided, Status, Content

(* A step that S3Objects does not see. *)
LEMMA Unseen ==
  ASSUME NEW p \in Procs, Others(p), call' = call, mapping' = mapping,
         Phase(p)' = Phase(p), Seen(p)' = Seen(p), Reply(p)' = Reply(p)
  PROVE  UNCHANGED Abstract!vars
  <1>1. \A q \in Procs : /\ Phase(q)' = Phase(q) /\ Seen(q)' = Seen(q)
                         /\ Reply(q)' = Reply(q)
    BY OthersSame
  <1>2. QED
    BY <1>1 DEF Abstract!vars

Undecided == {"lockKey", "lockGroup", "backup", "notes", "readOld", "write", "lookup", "unmap",
              "read", "restore"}

(* A failure before the request has had its effect. *)
LEMMA FailStep ==
  ASSUME IInv, NEW p \in Procs, Others(p), call' = call, mapping' = mapping,
         pc[p] \in Undecided \/ (pc[p] = "forget" /\ call[p].op = "delete"),
         pc'[p] = "return", result'[p] \in {"error", "exhausted"},
         old'[p] = old[p], served'[p] = None
  PROVE  Abstract!Fail(p)
  <1>1. Phase(p) \in {"pending", "read"} /\ Phase(p)' = "done"
    BY DEF Phase, Decided, Undecided
  <1>2. Seen(p)' = Seen(p)
    BY DEF Seen, Undecided
  <1>3. Reply(p)' = [status |-> "error", body |-> None]
    BY DEF Reply, Decided, Status
  <1>4. QED
    BY <1>1, <1>2, <1>3, OthersSame DEF Abstract!Fail, Abstract!Reply

(* An upload or deletion has its effect. *)
LEMMA WriteStep ==
  ASSUME IInv, NEW p \in Procs, Others(p), call' = call,
         pc[p] \in {"write", "unmap", "lookup"}, pc'[p] \in {"return", "forget"},
         pc'[p] = "forget" => call[p].op = "put",
         result'[p] \in {"ok", None}, served'[p] = None,
         \A k \in Keys : Content(mapping'[k]) =
            IF k = KeyOf(p) THEN call[p].body ELSE Content(mapping[k])
  PROVE  Abstract!Write(p)
  <1>1. call[p] \in Call /\ call[p].op \in {"put", "delete"}
    BY DEF IInv, PhaseInv, Uploading
  <1>2. call[p] \in Abstract!Put \cup Abstract!Delete
    BY <1>1 DEF Call, Abstract!Put, Abstract!Delete
  <1>3. Phase(p) = "pending" /\ Phase(p)' = "done" /\ Seen(p)' = Seen(p)
    BY <1>1 DEF Phase, Decided, Seen
  <1>4. Reply(p)' = [status |-> "ok", body |-> None]
    BY NoneAssumption DEF Reply, Decided, Status, Answers
  <1>5. [k \in Keys |-> Content(mapping'[k])] =
          [[k \in Keys |-> Content(mapping[k])] EXCEPT ![call[p].key] = call[p].body]
    BY DEF KeyOf
  <1>6. QED
    BY <1>2, <1>3, <1>4, <1>5, OthersSame DEF Abstract!Write, Abstract!Reply

(* A request arrives. *)
LEMMA ArrivalStep ==
  ASSUME IInv, NEW p \in Procs, Receive(p)
  PROVE  \E r \in Abstract!Put \cup Abstract!Delete \cup Abstract!Get : Abstract!Receive(p, r)
  <1>1. PICK c \in Call : /\ call' = [call EXCEPT ![p] = c]
                          /\ Goto(p, IF c.op = "get" THEN "read" ELSE "lockKey")
    BY DEF Receive
  <1>2. c \in Abstract!Put \cup Abstract!Delete \cup Abstract!Get
    BY DEF Call, Abstract!Put, Abstract!Delete, Abstract!Get
  <1>3. /\ pc[p] = "idle" /\ pc'[p] \in {"read", "lockKey"} /\ call'[p] = c
        /\ mapping' = mapping /\ old' = old /\ old[p] = None /\ Others(p)
    BY <1>1, OthersKept DEF Receive, At, Goto, IInv, TypeOK, PhaseInv, Unread
  <1>4. /\ Phase(p) = "idle" /\ Phase(p)' = "pending"
        /\ Seen(p) = None /\ Seen(p)' = None
        /\ Reply(p) = None /\ Reply(p)' = None
    BY <1>3 DEF Phase, Decided, Seen, Reply, Content
  <1>5. Abstract!Receive(p, c)
    BY <1>1, <1>3, <1>4, OthersSame DEF Abstract!Receive
  <1>6. QED
    BY <1>2, <1>5

(* GetObject's reading of the mapping. *)
LEMMA ReadStep ==
  ASSUME IInv, NEW p \in Procs, ReadMapping(p)
  PROVE  Abstract!Miss(p) \/ Abstract!Find(p) \/ Abstract!Fail(p)
  <1>1. /\ pc[p] = "read" /\ call' = call /\ mapping' = mapping /\ Others(p)
        /\ old[p] = None /\ served'[p] = None
        /\ call[p] \in Call /\ call[p].op = "get" /\ KeyOf(p) \in Keys
    <2>1. At(p, "read") /\ call' = call /\ mapping' = mapping /\ served' = served
      BY DEF ReadMapping
    <2>2. Others(p)
      BY <2>1, OthersKept DEF Step, Return, At
    <2>3. KeyOf(p) \in Keys
      BY <2>1, CallType DEF At
    <2>4. QED
      BY <2>1, <2>2, <2>3 DEF At, IInv, PhaseInv, Unread
  <1>2. call[p] \in Abstract!Get
    BY <1>1 DEF Call, Abstract!Get
  <1>3. CASE StoreFails(p) /\ UNCHANGED old
    <2>1. pc'[p] = "return" /\ result'[p] = "error"
      BY <1>3 DEF StoreFails, Answer, IInv, TypeOK
    <2>2. QED
      BY <1>1, <1>3, <2>1, FailStep DEF Undecided
  <1>4. CASE /\ mapping[KeyOf(p)] = None /\ Answer(p, "ok")
             /\ old' = [old EXCEPT ![p] = mapping[KeyOf(p)]]
    <2>1. pc'[p] = "return" /\ result'[p] = "ok" /\ old'[p] = None
      BY <1>4 DEF Answer, IInv, TypeOK
    <2>2. /\ Phase(p) = "pending" /\ Phase(p)' = "done"
          /\ Seen(p) = None /\ Seen(p)' = None
          /\ Reply(p)' = [status |-> "ok", body |-> None]
      BY <1>1, <2>1 DEF Phase, Decided, Seen, Content, Reply, Status
    <2>3. Content(mapping[call[p].key]) = None
      BY <1>4 DEF Content, KeyOf
    <2>4. QED
      BY <1>1, <1>2, <2>2, <2>3, OthersSame DEF Abstract!Miss, Abstract!Reply, KeyOf
  <1>5. CASE /\ mapping[KeyOf(p)] # None /\ Goto(p, "restore")
             /\ old' = [old EXCEPT ![p] = mapping[KeyOf(p)]]
    <2>1. pc'[p] = "restore" /\ old'[p] = mapping[KeyOf(p)]
      BY <1>5 DEF Goto, IInv, TypeOK
    <2>2. /\ Phase(p) = "pending" /\ Phase(p)' = "read"
          /\ Seen(p)' = Content(mapping[KeyOf(p)])
          /\ Reply(p) = None /\ Reply(p)' = None
      BY <1>1, <2>1 DEF Phase, Decided, Seen, Reply
    <2>3. Content(mapping[KeyOf(p)]) # None
      BY <1>1, <1>5, NoneAssumption DEF Content, IInv, TypeOK, Mapping
    <2>4. QED
      BY <1>1, <1>2, <2>2, <2>3, OthersSame DEF Abstract!Find, KeyOf
  <1>6. QED
    BY <1>3, <1>4, <1>5 DEF ReadMapping

(* GetObject's restore delivers what its reading found. *)
LEMMA RestoreStep ==
  ASSUME IInv, FreshStamps, NEW p \in Procs, Restore(p)
  PROVE  Abstract!Deliver(p) \/ Abstract!Fail(p)
  <1>1. /\ pc[p] = "restore" /\ call' = call /\ mapping' = mapping /\ old' = old /\ Others(p)
        /\ old[p] # None /\ call[p].op = "get" /\ served[p] = None
    BY OthersKept DEF Restore, At, IInv, PhaseInv, Step, Return
  <1>2. CASE Answer(p, "error") /\ UNCHANGED served
    <2>1. pc'[p] = "return" /\ result'[p] = "error" /\ served'[p] = None
      BY <1>1, <1>2 DEF Answer, IInv, TypeOK
    <2>2. QED
      BY <1>1, <2>1, FailStep DEF Undecided
  <1>3. ASSUME NEW s \in SnapshotsAt(Group(p), old[p].stamp),
               served' = [served EXCEPT ![p] = s.etag], Answer(p, "ok")
        PROVE  Abstract!Deliver(p)
    <2>1. s.etag = old[p].etag
      BY <1>1, <1>3 DEF IInv, StampInv, OldNames, Names, Group
    <2>2. pc'[p] = "return" /\ result'[p] = "ok" /\ served'[p] = old[p].etag
      BY <1>3, <2>1 DEF Answer, IInv, TypeOK
    <2>3. /\ Phase(p) = "read" /\ Phase(p)' = "done"
          /\ Seen(p) = old[p].etag /\ Seen(p)' = Seen(p)
          /\ Reply(p)' = [status |-> "ok", body |-> old[p].etag]
      BY <1>1, <2>2 DEF Phase, Decided, Seen, Content, Reply, Status
    <2>4. QED
      BY <1>1, <2>3, OthersSame DEF Abstract!Deliver, Abstract!Reply
  <1>4. QED
    BY <1>2, <1>3 DEF Restore

(* The steps of an upload up to the write of its mapping. *)
LEMMA UploadStep ==
  ASSUME IInv, NEW p \in Procs,
         \/ LockKey(p) \/ LockGroup(p) \/ BackupDone(p) \/ BackupFails(p) \/ BackupCollides(p)
         \/ UpdateNotes(p) \/ ReadOld(p)
  PROVE  Abstract!Fail(p) \/ UNCHANGED Abstract!vars
  <1>1. /\ Others(p) /\ call' = call /\ mapping' = mapping
        /\ pc[p] \in {"lockKey", "lockGroup", "backup", "notes", "readOld"}
        /\ served' = served /\ served[p] = None /\ result[p] = None
        /\ call[p].op \in {"put", "delete"}
    <2>1. Others(p)
      BY OthersKept DEF Step, LockKey, LockGroup, BackupDone, BackupFails, BackupCollides,
         UpdateNotes, ReadOld, Return, At
    <2>2. /\ call' = call /\ mapping' = mapping /\ served' = served
          /\ pc[p] \in {"lockKey", "lockGroup", "backup", "notes", "readOld"}
      BY DEF LockKey, LockGroup, BackupDone, BackupFails, BackupCollides, UpdateNotes, ReadOld, At
    <2>3. QED
      BY <2>1, <2>2 DEF IInv, PhaseInv, Uploading
  <1>2. \/ /\ pc'[p] \in {"lockGroup", "lookup", "backup", "notes", "readOld", "write"}
           /\ result'[p] = None
        \/ pc'[p] = "return" /\ result'[p] \in {"error", "exhausted"} /\ old'[p] = old[p]
    BY <1>1 DEF LockKey, LockGroup, BackupDone, BackupFails, BackupCollides, UpdateNotes, ReadOld,
       At, Goto, Answer, StoreFails, IInv, TypeOK
  <1>3. CASE pc'[p] = "return"
    BY <1>1, <1>2, <1>3, FailStep DEF Undecided
  <1>4. CASE pc'[p] # "return"
    <2>1. Phase(p)' = Phase(p) /\ Seen(p)' = Seen(p) /\ Reply(p)' = Reply(p)
      BY <1>1, <1>2, <1>4 DEF Phase, Decided, Seen, Reply
    <2>2. QED
      BY <1>1, <2>1, Unseen
  <1>5. QED
    BY <1>3, <1>4

(* The steps of an upload or a deletion from the write of the mapping on. *)
LEMMA MappingStep ==
  ASSUME IInv, NEW p \in Procs,
         WriteMapping(p) \/ ForgetDone(p) \/ ForgetFails(p) \/ Lookup(p) \/ DeleteMapping(p)
  PROVE  Abstract!Write(p) \/ Abstract!Fail(p) \/ UNCHANGED Abstract!vars
  <1>1. /\ Others(p) /\ call' = call /\ served' = served
        /\ pc[p] \in {"write", "forget", "lookup", "unmap"}
    BY OthersKept DEF Step, WriteMapping, ForgetDone, ForgetFails, Lookup, DeleteMapping, Return,
       At
  <1>2. /\ served'[p] = None /\ result[p] = None
        /\ pc[p] = "write" => call[p].op = "put"
        /\ pc[p] \in {"lookup", "unmap"} => call[p].op = "delete"
        /\ call[p].op \in {"put", "delete"}
        /\ call[p] \in Call /\ KeyOf(p) \in Keys
    BY <1>1, CallType DEF IInv, PhaseInv, Uploading
  <1>3. CASE WriteMapping(p)
    <2>1. CASE StoreFails(p) /\ UNCHANGED <<mapping, tries>>
      <3>1. pc'[p] = "return" /\ result'[p] = "error" /\ mapping' = mapping /\ old' = old
        BY <1>3, <2>1 DEF WriteMapping, StoreFails, Answer, IInv, TypeOK
      <3>2. QED
        BY <1>1, <1>2, <1>3, <3>1, FailStep DEF WriteMapping, At, Undecided
    <2>2. CASE ~ (StoreFails(p) /\ UNCHANGED <<mapping, tries>>)
      <3>1. /\ mapping' = [mapping EXCEPT ![KeyOf(p)] = [stamp |-> UsedTime(p),
                                                         etag |-> call[p].body]]
            /\ Goto(p, "forget") \/ Answer(p, "ok")
        BY <1>3, <2>2 DEF WriteMapping
      <3>2. pc[p] = "write" /\ pc'[p] \in {"return", "forget"} /\ result'[p] \in {"ok", None}
        BY <1>2, <1>3, <3>1 DEF WriteMapping, At, Goto, Answer, IInv, TypeOK
      <3>3. [stamp |-> UsedTime(p), etag |-> call[p].body] # None
        BY <1>1, <1>2, <3>2, CallType, NoneAssumption DEF UsedTime, Mapping, IInv, TypeOK
      <3>4. \A k \in Keys : Content(mapping'[k]) =
                 IF k = KeyOf(p) THEN call[p].body ELSE Content(mapping[k])
        BY <3>1, <3>3 DEF Content, IInv, TypeOK
      <3>5. QED
        BY <1>1, <1>2, <3>2, <3>4, WriteStep
    <2>3. QED
      BY <2>1, <2>2
  <1>4. CASE ForgetDone(p) \/ ForgetFails(p)
    <2>1. /\ mapping' = mapping /\ old' = old /\ pc[p] = "forget" /\ old[p] # None
          /\ \/ pc'[p] = "forget" /\ result'[p] = None
             \/ call[p].op = "put" /\ pc'[p] = "return" /\ result'[p] = "ok"
             \/ call[p].op = "delete" /\ pc'[p] = "unmap" /\ result'[p] = None
             \/ call[p].op = "delete" /\ pc'[p] = "return" /\ result'[p] = "error"
      BY <1>2, <1>4 DEF ForgetDone, ForgetFails, At, Goto, Answer, IInv, TypeOK, PhaseInv
    <2>2. CASE call[p].op = "delete" /\ pc'[p] = "return" /\ result'[p] = "error"
      BY <1>1, <1>2, <2>1, <2>2, FailStep
    <2>3. CASE ~ (call[p].op = "delete" /\ pc'[p] = "return" /\ result'[p] = "error")
      <3>1. Phase(p)' = Phase(p) /\ Seen(p)' = Seen(p)
        BY <1>1, <1>2, <2>1, <2>3 DEF Phase, Decided, Seen
      <3>2. Reply(p)' = Reply(p)
        BY <1>1, <1>2, <2>1, <2>3, NoneAssumption DEF Decided, Reply, Status, Answers
      <3>3. QED
        BY <1>1, <2>1, <3>1, <3>2, Unseen
    <2>4. QED
      BY <2>2, <2>3
  <1>5. CASE Lookup(p)
    <2>1. pc[p] = "lookup" /\ mapping' = mapping /\ call[p].body = None /\ call[p].op = "delete"
      BY <1>2, <1>5 DEF Lookup, At, Call
    <2>2. \/ pc'[p] = "return" /\ result'[p] = "error" /\ old'[p] = old[p]
          \/ pc'[p] = "return" /\ result'[p] = "ok" /\ mapping[KeyOf(p)] = None
          \/ pc'[p] = "forget" /\ result'[p] = None
      BY <1>2, <1>5 DEF Lookup, At, Goto, Answer, StoreFails, IInv, TypeOK
    <2>3. CASE pc'[p] = "return" /\ result'[p] = "error" /\ old'[p] = old[p]
      BY <1>1, <1>2, <2>1, <2>3, FailStep DEF Undecided
    <2>4. CASE pc'[p] = "return" /\ result'[p] = "ok" /\ mapping[KeyOf(p)] = None
      <3>1. \A k \in Keys : Content(mapping'[k]) =
                 IF k = KeyOf(p) THEN call[p].body ELSE Content(mapping[k])
        BY <2>1, <2>4 DEF Content
      <3>2. QED
        BY <1>1, <1>2, <2>1, <2>4, <3>1, WriteStep
    <2>5. CASE pc'[p] = "forget" /\ result'[p] = None
      <3>1. Phase(p)' = Phase(p) /\ Seen(p)' = Seen(p) /\ Reply(p)' = Reply(p)
        BY <1>1, <2>1, <2>5 DEF Phase, Decided, Seen, Reply
      <3>2. QED
        BY <1>1, <2>1, <3>1, Unseen
    <2>6. QED
      BY <2>2, <2>3, <2>4, <2>5
  <1>6. CASE DeleteMapping(p)
    <2>1. pc[p] = "unmap" /\ old' = old /\ call[p].body = None /\ call[p].op = "delete"
      BY <1>2, <1>6 DEF DeleteMapping, At, Call
    <2>2. CASE StoreFails(p) /\ UNCHANGED mapping
      <3>1. pc'[p] = "return" /\ result'[p] = "error"
        BY <2>2 DEF StoreFails, Answer, IInv, TypeOK
      <3>2. QED
        BY <1>1, <1>2, <2>1, <2>2, <3>1, FailStep DEF Undecided
    <2>3. CASE mapping' = [mapping EXCEPT ![KeyOf(p)] = None] /\ Answer(p, "ok")
      <3>1. pc'[p] = "return" /\ result'[p] = "ok"
        BY <2>3 DEF Answer, IInv, TypeOK
      <3>2. \A k \in Keys : Content(mapping'[k]) =
                 IF k = KeyOf(p) THEN call[p].body ELSE Content(mapping[k])
        BY <2>1, <2>3 DEF Content, IInv, TypeOK
      <3>3. QED
        BY <1>1, <1>2, <2>1, <3>1, <3>2, WriteStep
    <2>4. QED
      BY <1>6, <2>2, <2>3 DEF DeleteMapping
  <1>7. QED
    BY <1>3, <1>4, <1>5, <1>6

(* Objects implements S3Objects: uploads, deletions and downloads are      *)
(* atomic to a client, and failed ones have no effect.                     *)
THEOREM Refinement == ASSUME FreshStamps PROVE Spec => ImplementsS3Objects
  <1>1. Init => Abstract!Init
    BY DEF Init, Abstract!Init, Phase, Seen, Reply, Content
  <1>2. IInv /\ [Next]_vars => [Abstract!Next]_(Abstract!vars)
    <2> SUFFICES ASSUME IInv, [Next]_vars PROVE [Abstract!Next]_(Abstract!vars)
      OBVIOUS
    <2>1. ASSUME NEW p \in Procs, Return(p) PROVE Abstract!Return(p)
      <3>1. Phase(p) = "done" /\ mapping' = mapping
        BY <2>1 DEF Return, At, Phase, Decided
      <3>2. call' = [q \in Procs |-> IF q \in {p} THEN None ELSE call[q]]
        BY <2>1 DEF Return, Clear
      <3>3. ASSUME NEW q \in Procs
            PROVE  /\ Phase(q)' = IF q \in {p} THEN "idle" ELSE Phase(q)
                   /\ Seen(q)' = IF q \in {p} THEN None ELSE Seen(q)
                   /\ Reply(q)' = IF q \in {p} THEN None ELSE Reply(q)
        BY <2>1 DEF Return, Clear, Phase, Decided, Seen, Reply, Status, Content
      <3>4. QED
        BY <3>1, <3>2, <3>3 DEF Abstract!Return, Abstract!Clear
    <2>2. CASE Crash
      <3>1. /\ mapping' = mapping
            /\ call' = [q \in Procs |-> IF q \in Procs THEN None ELSE call[q]]
        BY <2>2 DEF Crash, Clear
      <3>2. ASSUME NEW q \in Procs
            PROVE  Phase(q)' = "idle" /\ Seen(q)' = None /\ Reply(q)' = None
        BY <2>2 DEF Crash, Clear, Phase, Seen, Reply
      <3>3. QED
        BY <3>1, <3>2 DEF Abstract!Next, Abstract!Crash, Abstract!Clear
    <2>3. CASE Tick \/ UNCHANGED vars
      BY <2>3 DEF Tick, vars, locals, Abstract!vars, Phase, Decided, Seen, Reply, Status, Content
    <2>4. QED
      BY <2>1, <2>2, <2>3, FreshStamps, ArrivalStep, UploadStep, MappingStep, ReadStep, RestoreStep
         DEF Next, Step, Abstract!Next
  <1>3. QED
    BY <1>1, <1>2, Invariance, PTL DEF Spec, ImplementsS3Objects, Abstract!Spec
==============================================================================
