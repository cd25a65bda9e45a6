------------------------------ MODULE Multipart ------------------------------
(***************************************************************************)
(* Multipart uploads: the handlers of internal/backend/backend.go, the     *)
(* scratch files of internal/stage and the records of internal/store, with *)
(* the garbage collector of internal/stage/gc.go beside them.              *)
(*                                                                         *)
(* An upload is a bbolt record, one bbolt record for each part and a       *)
(* scratch directory.  Requests hold the lock of their key for their whole *)
(* body; the garbage collector holds none.  Committing the assembled file  *)
(* to PBS is one call that fails or succeeds here; what is inside it is    *)
(* module Objects.                                                         *)
(***************************************************************************)
EXTENDS Integers, FiniteSets, Sequences, SequencesExt

CONSTANTS
  Procs, Keys,
  Uploads,      \* the upload IDs newUploadID will return, each once
  PartNumbers,
  Data,         \* contents of a part; its ETag is the content's MD5
  Torn,         \* what a part file holds while it is being written
  None,
  Claims,       \* the part lists clients send with CompleteMultipartUpload
  KeysMatch,    \* TRUE: clients name an upload with the key it was created for
  Collecting,   \* TRUE: the garbage collector's sweeps run
  Faults,       \* the faults that may happen, out of AllFaults
  MaxFaults     \* bound: how many kinds of them may

AllFaults == {"body",    \* a part's body or its write breaks off
              "copy",    \* copying a part into the final file fails
              "backup",  \* PBS.Backup or PBS.Forget fails
              "store",   \* a bbolt write fails
              "files",   \* a file or a scratch directory cannot be removed
              "crash"}   \* the bridge dies and is restarted

Content == Seq(Data \cup {Torn})
ListedPart == [number : PartNumbers, etag : Data]
Upload == [key : Keys, stale : BOOLEAN]
Request == [op : {"create", "abort"}, key : Keys, upload : Uploads]
             \cup [op : {"delete"}, key : Keys]
             \cup [op : {"uploadPart"}, key : Keys, upload : Uploads, part : PartNumbers,
                   data : Data]
             \cup [op : {"complete"}, key : Keys, upload : Uploads, claim : Claims]

Results == {"ok", "error", "notFound", "aborted"}

ASSUME ConstantsAssumption ==
  /\ PartNumbers \subseteq Nat \ {0}
  /\ \A c \in Claims : c \in Seq(ListedPart)
  /\ KeysMatch \in BOOLEAN /\ Collecting \in BOOLEAN
  /\ Faults \subseteq AllFaults /\ MaxFaults \in Nat
  /\ IsFiniteSet(Uploads)

ASSUME NoneAssumption ==
  /\ Torn \notin Data
  /\ None \notin Data \cup {Torn} \cup Procs \cup Keys \cup Uploads
  /\ None \notin Content /\ None \notin Upload /\ None \notin Request /\ None \notin Results

VARIABLES
  record,    \* bbolt bucket "multipart_uploads": [key, stale] of each upload, or None
  parts,     \* bbolt bucket "multipart_parts": the ETag of each part, or None
  dir,       \* whether the upload's scratch directory exists
  file,      \* its part files: content, Torn or None
  partial,   \* whether final.img.partial exists
  final,     \* final.img: its content, or None
  object,    \* what the key's mapping says of the object: [upload, content], or None
  home,      \* the key an upload was created for, None while the ID is unused
  commits,   \* how often an upload has become the key's object since its last part came
  undone,    \* what of an upload could not be removed when last that was tried
  holder,    \* who holds the lock of each key
  pc, req, result,   \* of each request: where it is, what it asks, what it answers,
  out, todo,         \* the content assembled so far, the parts still to append,
  victims,           \* the uploads still to clean up
  gcpc, gctodo,      \* of the garbage collector: where it is, the uploads still to do
  faults     \* the faults that have happened

upload == <<record, parts>>
scratch == <<dir, file, partial, final>>
locals == <<pc, req, result, out, todo, victims>>
gc == <<gcpc, gctodo>>
vars == <<upload, scratch, object, home, commits, undone, holder, locals, gc, faults>>

NoFiles == [n \in PartNumbers |-> None]

Init == /\ record = [u \in Uploads |-> None]
        /\ parts = [u \in Uploads |-> NoFiles]
        /\ dir = [u \in Uploads |-> FALSE]
        /\ file = [u \in Uploads |-> NoFiles]
        /\ partial = [u \in Uploads |-> FALSE]
        /\ final = [u \in Uploads |-> None]
        /\ object = [k \in Keys |-> None]
        /\ home = [u \in Uploads |-> None]
        /\ commits = [u \in Uploads |-> 0]
        /\ undone = [u \in Uploads |-> {}]
        /\ holder = [k \in Keys |-> None]
        /\ pc = [p \in Procs |-> "idle"]
        /\ req = [p \in Procs |-> None]
        /\ out = [p \in Procs |-> <<>>]
        /\ todo = [p \in Procs |-> <<>>]
        /\ victims = [p \in Procs |-> <<>>]
        /\ result = [p \in Procs |-> None]
        /\ gcpc = "readDir"
        /\ gctodo = {}
        /\ faults = {}

------------------------------------------------------------------------------
At(p, here) == pc[p] = here

Goto(p, there) == pc' = [pc EXCEPT ![p] = there] /\ UNCHANGED result

Answer(p, r) == /\ pc' = [pc EXCEPT ![p] = "return"]
                /\ result' = [result EXCEPT ![p] = r]

(* Go on to clean the uploads of s up, and answer r then. *)
CleanUp(p, s, r) == /\ pc' = [pc EXCEPT ![p] = "removeDir"]
                    /\ victims' = [victims EXCEPT ![p] = s]
                    /\ result' = [result EXCEPT ![p] = r]

(* A fault comes as often as it likes, a crash once. *)
Fault(f) == /\ f \in Faults
            /\ f = "crash" => f \notin faults
            /\ Cardinality(faults \cup {f}) <= MaxFaults
            /\ faults' = faults \cup {f}

(* stage.RemoveUploadDir.  os.RemoveAll fails with any of the files gone; what is not *)
(* there is no failure.                                                               *)
RemoveUploadDir(u) == /\ dir' = [dir EXCEPT ![u] = FALSE]
                      /\ file' = [file EXCEPT ![u] = NoFiles]
                      /\ partial' = [partial EXCEPT ![u] = FALSE]
                      /\ final' = [final EXCEPT ![u] = None]
                      /\ undone' = [undone EXCEPT ![u] = @ \ {"dir"}]
                      /\ UNCHANGED faults

RemoveUploadDirFails(u) ==
  /\ dir[u] /\ Fault("files")
  /\ \E gone \in SUBSET PartNumbers :
       file' = [file EXCEPT ![u] =
                  [n \in PartNumbers |-> IF n \in gone THEN None ELSE file[u][n]]]
  /\ partial' \in {partial, [partial EXCEPT ![u] = FALSE]}
  /\ final' \in {final, [final EXCEPT ![u] = None]}
  /\ undone' = [undone EXCEPT ![u] = @ \cup {"dir"}]
  /\ UNCHANGED dir

(* Mutants: the part records survive, nothing is deleted. *)
DeleteRecordOnly(u) == /\ record' = [record EXCEPT ![u] = None]
                       /\ undone' = [undone EXCEPT ![u] = @ \ {"record"}]
                       /\ UNCHANGED <<parts, faults>>
DeleteNothing(u) == UNCHANGED <<record, parts, undone, faults>>

(* store.DeleteUpload: one transaction, ErrNotFound without a record.  Nothing is changed *)
(* when it fails.                                                                         *)
DeleteUpload(u) == /\ record' = [record EXCEPT ![u] = None]
                   /\ parts' = IF record[u] = None THEN parts
                                                   ELSE [parts EXCEPT ![u] = NoFiles]
                   /\ undone' = [undone EXCEPT ![u] = @ \ {"record"}]
                   /\ UNCHANGED faults

DeleteUploadFails(u) == /\ record[u] # None /\ Fault("store")
                        /\ undone' = [undone EXCEPT ![u] = @ \cup {"record"}]
                        /\ UNCHANGED <<record, parts>>

Opened == {u \in Uploads : home[u] # None}

(* IDs neither in use nor being handed out. *)
Unused == {u \in Uploads \ Opened :
             \A q \in Procs : req[q] # None => req[q].op # "create" \/ req[q].upload # u}

(* The keys a client may send with an upload ID: nothing compares them with the record's. *)
KeysFor(u) == IF KeysMatch THEN {home[u]} ELSE Keys

RequestsFor(u) ==
  [op : {"uploadPart"}, key : KeysFor(u), upload : {u}, part : PartNumbers, data : Data]
  \cup [op : {"complete"}, key : KeysFor(u), upload : {u}, claim : Claims]
  \cup [op : {"abort"}, key : KeysFor(u), upload : {u}]

Requests ==
  {[op |-> "create", key |-> k, upload |-> u] : k \in Keys, u \in Unused}
  \cup {[op |-> "delete", key |-> k] : k \in Keys}
  \cup UNION {RequestsFor(u) : u \in Opened}

(* Mutant: the lock does not exclude. *)
AlwaysFree(k) == TRUE
Free(k) == holder[k] = None

(* A request arrives and gets the lock of its key: waiting for it has no effect. *)
Enter(p) ==
  /\ At(p, "idle")
  /\ \E r \in Requests :
       /\ Free(r.key)
       /\ holder' = [holder EXCEPT ![r.key] = p]
       /\ req' = [req EXCEPT ![p] = r]
       /\ Goto(p, r.op)
  /\ UNCHANGED <<upload, scratch, object, home, commits, undone, out, todo, victims, gc, faults>>

CreateMultipartUpload(p) ==
  /\ At(p, "create")
  /\ \/ /\ record' = [record EXCEPT ![req[p].upload] = [key |-> req[p].key, stale |-> FALSE]]
        /\ home' = [home EXCEPT ![req[p].upload] = req[p].key]
        /\ Answer(p, "ok")
        /\ UNCHANGED faults
     \/ Fault("store") /\ Answer(p, "error") /\ UNCHANGED <<record, home>>
  /\ UNCHANGED <<parts, scratch, object, commits, undone, holder, req, out, todo, victims, gc>>

------------------------------------------------------------------------------
(***************************************************************************)
(* UploadPart: check the record, write the file, write the part's record,  *)
(* touch the upload.                                                       *)
(***************************************************************************)
(* GetUpload finds no record. *)
Missing(p) == record[req[p].upload] = None

OpenPart(p) ==
  /\ At(p, "uploadPart")
  /\ LET u == req[p].upload
     IN  \/ Missing(p) /\ Answer(p, "notFound") /\ UNCHANGED <<dir, file>>
         \/ /\ ~ Missing(p)
            /\ dir' = [dir EXCEPT ![u] = TRUE]
            /\ file' = [file EXCEPT ![u][req[p].part] = Torn]
            /\ Goto(p, "writePart")
  /\ commits' = IF Missing(p) THEN commits ELSE [commits EXCEPT ![req[p].upload] = 0]
  /\ UNCHANGED <<upload, partial, final, object, home, undone, holder, req, out, todo,
                 victims, gc, faults>>

(* The body has arrived, into the file or, if that was removed meanwhile, into nothing; *)
(* or it breaks off, and WritePart removes the file.                                    *)
WritePart(p) ==
  /\ At(p, "writePart")
  /\ LET Becomes(x) == file' = [file EXCEPT ![req[p].upload][req[p].part] =
                                  IF @ = None THEN None ELSE x]
     IN  \/ Becomes(req[p].data) /\ Goto(p, "putPart") /\ UNCHANGED faults
         \/ Fault("body") /\ Becomes(None) /\ Answer(p, "error")
  /\ UNCHANGED <<upload, dir, partial, final, object, home, commits, undone, holder, req, out,
                 todo,
                 victims, gc>>

(* PutPart does not look at the upload's record. *)
PutPart(p) ==
  /\ At(p, "putPart")
  /\ \/ /\ parts' = [parts EXCEPT ![req[p].upload][req[p].part] = req[p].data]
        /\ Goto(p, "touch")
        /\ UNCHANGED faults
     \/ Fault("store") /\ Answer(p, "error") /\ UNCHANGED parts
  /\ UNCHANGED <<record, scratch, object, home, commits, undone, holder, req, out, todo,
                 victims, gc>>

(* TouchUpload's error, ErrNotFound say, is ignored. *)
TouchUpload(p) ==
  /\ At(p, "touch")
  /\ \/ /\ record' = IF Missing(p) THEN record ELSE [record EXCEPT ![req[p].upload].stale = FALSE]
        /\ UNCHANGED faults
     \/ Fault("store") /\ UNCHANGED record
  /\ Answer(p, "ok")
  /\ UNCHANGED <<parts, scratch, object, home, commits, undone, holder, req, out, todo, victims,
                 gc>>

------------------------------------------------------------------------------
(***************************************************************************)
(* CompleteMultipartUpload                                                 *)
(***************************************************************************)
(* Mutant: the ETags are not compared. *)
ValidButForEtags(u, claim) ==
  /\ claim # <<>>
  /\ \A i, j \in DOMAIN claim : i < j => claim[i].number < claim[j].number
  /\ \A i \in DOMAIN claim : parts[u][claim[i].number] # None

(* The part list is not empty, ascending, and agrees with the part records. *)
Valid(u, claim) ==
  /\ claim # <<>>
  /\ \A i, j \in DOMAIN claim : i < j => claim[i].number < claim[j].number
  /\ \A i \in DOMAIN claim : parts[u][claim[i].number] = claim[i].etag

(* Validate the list and enter ConcatParts, which reuses a final.img it finds. *)
Validate(p) ==
  /\ At(p, "complete")
  /\ LET u == req[p].upload
     IN  \/ Missing(p) /\ Answer(p, "notFound") /\ UNCHANGED <<dir, partial, out, todo>>
         \/ /\ ~ Missing(p) /\ ~ Valid(u, req[p].claim)
            /\ Answer(p, "error")
            /\ UNCHANGED <<dir, partial, out, todo>>
         \/ /\ ~ Missing(p) /\ Valid(u, req[p].claim)
            /\ dir' = [dir EXCEPT ![u] = TRUE]
            /\ \/ /\ final[u] # None
                  /\ out' = [out EXCEPT ![p] = final[u]]
                  /\ Goto(p, "commit")
                  /\ UNCHANGED <<partial, todo>>
               \/ /\ final[u] = None
                  /\ partial' = [partial EXCEPT ![u] = TRUE]
                  /\ todo' = [todo EXCEPT ![p] = req[p].claim]
                  /\ Goto(p, "concat")
                  /\ UNCHANGED out
  /\ UNCHANGED <<upload, file, final, object, home, commits, undone, holder, req, victims, gc, faults>>

(* Mutants: a part file is kept, a failed upload is kept. *)
KeepPart(u, n) == UNCHANGED <<file, faults>>
ConsumePart(u, n) == \/ file' = [file EXCEPT ![u][n] = None] /\ UNCHANGED faults
                     \/ Fault("files") /\ UNCHANGED file

GiveUpLater(p) == Answer(p, "error") /\ UNCHANGED victims
GiveUp(p) == CleanUp(p, <<req[p].upload>>, "error")

(* One part is appended and its file removed, whose failure is ignored; a file that is *)
(* missing or cannot be copied ends the upload.                                        *)
ConcatPart(p) ==
  /\ At(p, "concat") /\ todo[p] # <<>>
  /\ LET u == req[p].upload
         n == Head(todo[p]).number
     IN  \/ /\ file[u][n] # None
            /\ out' = [out EXCEPT ![p] = Append(@, file[u][n])]
            /\ ConsumePart(u, n)
            /\ todo' = [todo EXCEPT ![p] = Tail(@)]
            /\ UNCHANGED <<pc, result, victims, partial>>
         \/ /\ \/ file[u][n] = None /\ UNCHANGED faults
               \/ file[u][n] # None /\ Fault("copy")
            /\ partial' = [partial EXCEPT ![u] = FALSE]
            /\ GiveUp(p)
            /\ UNCHANGED <<out, file, todo>>
  /\ UNCHANGED <<upload, dir, final, object, home, commits, undone, holder, req, gc>>

(* The rename to final.img, which fails if the directory was removed meanwhile. *)
RenameFinal(p) ==
  /\ At(p, "concat") /\ todo[p] = <<>>
  /\ LET u == req[p].upload
     IN  \/ /\ partial[u]
            /\ partial' = [partial EXCEPT ![u] = FALSE]
            /\ final' = [final EXCEPT ![u] = out[p]]
            /\ Goto(p, "commit")
            /\ UNCHANGED victims
         \/ ~ partial[u] /\ GiveUp(p) /\ UNCHANGED <<partial, final>>
  /\ UNCHANGED <<upload, dir, file, object, home, commits, undone, holder, req, out, todo, gc,
                 faults>>

(* commitObjectLocked: proxmox-backup-client opens final.img.  When it cannot, or Backup *)
(* fails, the answer is an error and nothing is cleaned up.                              *)
OpenFinal(p) ==
  /\ At(p, "commit")
  /\ IF final[req[p].upload] = None THEN Answer(p, "error") ELSE Goto(p, "backup")
  /\ UNCHANGED <<upload, scratch, object, home, commits, undone, holder, req, out, todo,
                 victims, gc, faults>>

Backup(p) ==
  /\ At(p, "backup")
  /\ \/ Goto(p, "unlink") /\ UNCHANGED faults
     \/ Fault("backup") /\ Answer(p, "error")
  /\ UNCHANGED <<upload, scratch, object, home, commits, undone, holder, req, out, todo,
                 victims, gc>>

(* os.Remove(filePath), before the mapping is written; its failure is ignored. *)
UnlinkFinal(p) ==
  /\ At(p, "unlink")
  /\ \/ final' = [final EXCEPT ![req[p].upload] = None] /\ UNCHANGED faults
     \/ Fault("files") /\ UNCHANGED final
  /\ Goto(p, "map")
  /\ UNCHANGED <<upload, dir, file, partial, object, home, commits, undone, holder, req, out,
                 todo,
                 victims, gc>>

(* The mapping of the record's key is read and written; an error there is the answer too. *)
PutObjectMapping(p) ==
  /\ At(p, "map")
  /\ \/ /\ object' = [object EXCEPT ![home[req[p].upload]] =
                          [upload |-> req[p].upload, content |-> out[p]]]
        /\ commits' = [commits EXCEPT ![req[p].upload] = @ + 1]
        /\ CleanUp(p, <<req[p].upload>>, "ok")
        /\ UNCHANGED faults
     \/ Fault("store") /\ Answer(p, "error") /\ UNCHANGED <<object, commits, victims>>
  /\ UNCHANGED <<upload, scratch, home, undone, holder, req, out, todo, gc>>

------------------------------------------------------------------------------
(***************************************************************************)
(* Removing uploads: AbortMultipartUpload, DeleteObject of a key without   *)
(* an object (abortMatchingUploads), cleanupUpload.                        *)
(***************************************************************************)
AbortMultipartUpload(p) ==
  /\ At(p, "abort")
  /\ \/ Missing(p) /\ Answer(p, "notFound") /\ UNCHANGED victims
     \/ ~ Missing(p) /\ CleanUp(p, <<req[p].upload>>, "ok")
  /\ UNCHANGED <<upload, scratch, object, home, commits, undone, holder, req, out, todo, gc,
                 faults>>

(* FindUploadsByBucketKey; the mutant skips uploads the sweep would take anyway. *)
ActiveOfKey(k) == {u \in Uploads : record[u] # None /\ record[u].key = k /\ ~ record[u].stale}
OfKey(k) == {u \in Uploads : record[u] # None /\ record[u].key = k}

(* Forget or the deletion of the mapping may fail. *)
DeleteObject(p) ==
  /\ At(p, "delete")
  /\ \/ /\ object[req[p].key] # None
        /\ \/ /\ object' = [object EXCEPT ![req[p].key] = None]
              /\ Answer(p, "ok")
              /\ UNCHANGED faults
           \/ (Fault("backup") \/ Fault("store")) /\ Answer(p, "error") /\ UNCHANGED object
        /\ UNCHANGED victims
     \/ /\ object[req[p].key] = None
        /\ \/ OfKey(req[p].key) = {} /\ Answer(p, "aborted") /\ UNCHANGED victims
           \/ /\ OfKey(req[p].key) # {}
              /\ CleanUp(p, SetToSeq(OfKey(req[p].key)), "aborted")
        /\ UNCHANGED <<object, faults>>
  /\ UNCHANGED <<upload, scratch, home, commits, undone, holder, req, out, todo, gc>>

(* AbortMultipartUpload answers the first error, the other two log it and go on. *)
Failed(p) == IF req[p].op = "abort" THEN [result EXCEPT ![p] = "error"] ELSE result

RemoveDir(p) ==
  /\ At(p, "removeDir")
  /\ LET u == Head(victims[p])
     IN  \/ RemoveUploadDir(u) /\ Goto(p, "removeRecord") /\ UNCHANGED victims
         \/ /\ RemoveUploadDirFails(u)
            /\ \/ req[p].op # "abort" /\ Goto(p, "removeRecord") /\ UNCHANGED victims
               \/ /\ req[p].op = "abort" /\ Answer(p, "error")
                  /\ victims' = [victims EXCEPT ![p] = <<>>]
  /\ UNCHANGED <<upload, object, home, commits, holder, req, out, todo, gc>>

(* The next upload of the loop. *)
NextVictims(p) == Tail(victims[p])

RemoveRecord(p) ==
  /\ At(p, "removeRecord")
  /\ LET u == Head(victims[p])
     IN  \/ DeleteUpload(u) /\ result' = IF record[u] = None THEN Failed(p) ELSE result
         \/ DeleteUploadFails(u) /\ result' = Failed(p)
  /\ victims' = [victims EXCEPT ![p] = NextVictims(p)]
  /\ pc' = [pc EXCEPT ![p] = IF NextVictims(p) = <<>> THEN "return" ELSE "removeDir"]
  /\ UNCHANGED <<scratch, object, home, commits, holder, req, out, todo, gc>>

------------------------------------------------------------------------------
(***************************************************************************)
(* The garbage collector: once at startup it removes the directories that  *)
(* have no record, reading the directory before the records; then it       *)
(* sweeps, upload by upload, the ones idle for the TTL.                    *)
(***************************************************************************)
Collector(from, to) == gcpc = from /\ gcpc' = to

ReadScratchDir == /\ Collector("readDir", "listIDs")
                  /\ gctodo' = {u \in Uploads : dir[u]}
                  /\ UNCHANGED <<upload, scratch, undone, faults>>

(* The directories without a record; the mutant counts stale records as none. *)
UnknownOrStale(S) == {u \in S : record[u] # None => record[u].stale}
Unknown(S) == {u \in S : record[u] = None}

ListAllUploadIDs == /\ Collector("listIDs", "reconcile")
                    /\ gctodo' = Unknown(gctodo)
                    /\ UNCHANGED <<upload, scratch, undone, faults>>

(* The collector logs a failure and goes on with the next upload. *)
RemoveOrphan == /\ Collector("reconcile", "reconcile")
                /\ \E u \in gctodo : /\ gctodo' = gctodo \ {u}
                                     /\ RemoveUploadDir(u) \/ RemoveUploadDirFails(u)
                /\ UNCHANGED upload

Reconciled == /\ Collector("reconcile", "wait")
              /\ gctodo = {}
              /\ UNCHANGED <<upload, scratch, undone, gctodo, faults>>

Stale(u) == record[u] # None /\ record[u].stale

ListUploadsOlderThan == /\ Collecting
                        /\ Collector("wait", "sweep")
                        /\ gctodo' = {u \in Uploads : Stale(u)}
                        /\ gctodo' # {}
                        /\ UNCHANGED <<upload, scratch, undone, faults>>

(* The upload whose turn it is. *)
Swept == CHOOSE u \in gctodo : TRUE

SweepDir == /\ Collector("sweep", "sweepRecord")
            /\ gctodo # {}
            /\ RemoveUploadDir(Swept) \/ RemoveUploadDirFails(Swept)
            /\ UNCHANGED <<upload, gctodo>>

SweepRecord == /\ Collector("sweepRecord", "sweep")
               /\ gctodo' = gctodo \ {Swept}
               /\ DeleteUpload(Swept) \/ DeleteUploadFails(Swept)
               /\ UNCHANGED scratch

SweepDone == /\ Collector("sweep", "wait")
             /\ gctodo = {}
             /\ UNCHANGED <<upload, scratch, undone, gctodo, faults>>

Collect == /\ \/ ReadScratchDir \/ ListAllUploadIDs \/ RemoveOrphan \/ Reconciled
              \/ ListUploadsOlderThan \/ SweepDir \/ SweepRecord \/ SweepDone
           /\ UNCHANGED <<object, home, commits, holder, locals>>

(* The TTL passes without activity on an upload. *)
Expire == /\ \E u \in Uploads : /\ record[u] # None /\ ~ record[u].stale
                               /\ record' = [record EXCEPT ![u].stale = TRUE]
          /\ UNCHANGED <<parts, scratch, object, home, commits, undone, holder, locals, gc,
                         faults>>

------------------------------------------------------------------------------
Clear(S) == LET Reset(f, v) == [p \in Procs |-> IF p \in S THEN v ELSE f[p]]
            IN  /\ pc' = Reset(pc, "idle")
                /\ req' = Reset(req, None)
                /\ result' = Reset(result, None)
                /\ out' = Reset(out, <<>>)
                /\ todo' = Reset(todo, <<>>)
                /\ victims' = Reset(victims, <<>>)
                /\ holder' = [k \in Keys |-> IF holder[k] \in S THEN None ELSE holder[k]]

Return(p) == /\ At(p, "return")
             /\ Clear({p})
             /\ UNCHANGED <<upload, scratch, object, home, commits, undone, gc, faults>>

(* bbolt and the scratch directory survive a crash, half-written files included; *)
(* the garbage collector starts over.                                            *)
Crash == /\ Fault("crash")
         /\ Clear(Procs)
         /\ gcpc' = "readDir" /\ gctodo' = {}
         /\ UNCHANGED <<upload, scratch, object, home, commits, undone>>

Step(p) == \/ CreateMultipartUpload(p)
           \/ OpenPart(p) \/ WritePart(p) \/ PutPart(p) \/ TouchUpload(p)
           \/ Validate(p) \/ ConcatPart(p) \/ RenameFinal(p)
           \/ OpenFinal(p) \/ Backup(p) \/ UnlinkFinal(p) \/ PutObjectMapping(p)
           \/ AbortMultipartUpload(p) \/ DeleteObject(p)
           \/ RemoveDir(p) \/ RemoveRecord(p)
           \/ Return(p)

Next == \/ \E p \in Procs : Enter(p) \/ Step(p)
        \/ Collect
        \/ Expire
        \/ Crash

Spec == Init /\ [][Next]_vars

(* Handlers and the collector's goroutine run on; arrivals, expiries and crashes need not *)
(* come.                                                                                  *)
Fairness == WF_vars(Collect) /\ \A p \in Procs : WF_vars(Step(p))

FairSpec == Spec /\ Fairness

------------------------------------------------------------------------------
(***************************************************************************)
(* Properties                                                              *)
(***************************************************************************)
Pcs == {"idle", "create", "uploadPart", "writePart", "putPart", "touch", "complete", "concat",
        "commit", "backup", "unlink", "map", "abort", "delete", "removeDir", "removeRecord",
        "return"}
GcPcs == {"readDir", "listIDs", "reconcile", "wait", "sweep", "sweepRecord"}

TypeOK == /\ record \in [Uploads -> Upload \cup {None}]
          /\ parts \in [Uploads -> [PartNumbers -> Data \cup {None}]]
          /\ dir \in [Uploads -> BOOLEAN]
          /\ file \in [Uploads -> [PartNumbers -> Data \cup {Torn, None}]]
          /\ partial \in [Uploads -> BOOLEAN]
          /\ final \in [Uploads -> Content \cup {None}]
          /\ home \in [Uploads -> Keys \cup {None}]
          /\ commits \in [Uploads -> Nat]
          /\ undone \in [Uploads -> SUBSET {"dir", "record"}]
          /\ holder \in [Keys -> Procs \cup {None}]
          /\ pc \in [Procs -> Pcs]
          /\ req \in [Procs -> Request \cup {None}]
          /\ result \in [Procs -> Results \cup {None}]
          /\ out \in [Procs -> Content]
          /\ todo \in [Procs -> Seq(ListedPart)]
          /\ victims \in [Procs -> Seq(Uploads)]
          /\ gcpc \in GcPcs /\ gctodo \subseteq Uploads
          /\ faults \subseteq Faults

(* No request and no sweep is at work on the upload. *)
AtRest(u) == /\ home[u] # None /\ holder[home[u]] = None
             /\ gcpc \in {"sweep", "sweepRecord"} => u \notin gctodo

(* The upload's bbolt records and its scratch directory agree, "never one  *)
(* present without the other" (backend_test.go:488), once nothing is at    *)
(* work on it, but for what could not be removed: part records are there   *)
(* only with the upload's, a directory without a record is one whose       *)
(* removal failed, and part records without a directory are those whose    *)
(* deletion failed.                                                        *)
NoSplitState ==
  \A u \in Uploads : AtRest(u) =>
    /\ parts[u] # NoFiles => record[u] # None
    /\ dir[u] => record[u] # None \/ "dir" \in undone[u]
    /\ parts[u] # NoFiles => dir[u] \/ "record" \in undone[u]

(* When UploadPart answers ok, the part is in the upload, on disk and in   *)
(* bbolt: the ETag the client will claim is the ETag of what it finds.     *)
AcknowledgedPartIsStored ==
  \A p \in Procs : pc[p] = "return" /\ req[p].op = "uploadPart" /\ result[p] = "ok" =>
    LET u == req[p].upload  n == req[p].part
    IN  record[u] # None /\ parts[u][n] = req[p].data /\ file[u][n] = req[p].data

(* When DeleteObject has found no object and answers, nothing is left of   *)
(* any upload of the key, whatever part of one was arriving, but what      *)
(* could not be removed (backend.go:293).  When AbortMultipartUpload       *)
(* answers ok, nothing at all is left of the upload (backend.go:519).      *)
DeleteClearsKey ==
  \A p \in Procs : pc[p] = "return" =>
    /\ result[p] = "aborted" =>
         \A u \in Uploads : home[u] = req[p].key =>
           /\ "record" \notin undone[u] => record[u] = None /\ parts[u] = NoFiles
           /\ "dir" \notin undone[u] => ~ dir[u]
    /\ result[p] = "ok" /\ req[p].op = "abort" =>
         LET u == req[p].upload IN record[u] = None /\ parts[u] = NoFiles /\ ~ dir[u]

Etags(claim) == [i \in DOMAIN claim |-> claim[i].etag]

(* ARCHITECTURE.md, "Multipart upload lifecycle": the claimed list is      *)
(* validated against what was stored and its parts are concatenated.  What *)
(* a request commits is what it claimed, part for part.                    *)
CommitsWhatWasClaimed ==
  \A p \in Procs : pc[p] \in {"commit", "backup", "unlink", "map"} =>
    out[p] = Etags(req[p].claim)

(* So it does as long as nothing worse has happened than bodies that broke *)
(* off and copies that failed: parts sent again, in any order with other   *)
(* requests, do not mix old bytes with new ETags.                          *)
CommitsClaimUnlessStoreOrBackupFailed ==
  faults \subseteq {"body", "copy"} => CommitsWhatWasClaimed

(* backend.go:483: a failed commit leaves final.img, "still on disk;       *)
(* commitObject only removes it on success", for a retry to succeed        *)
(* against.  (A request that has assembled the file, or found it, and      *)
(* answers an error has failed in commitObjectLocked.)                     *)
FinalOutlivesFailure ==
  \A p \in Procs :
    /\ pc[p] = "return" /\ req[p].op = "complete" /\ result[p] = "error"
    /\ out[p] # <<>> /\ todo[p] = <<>>
    => final[req[p].upload] # None

(* The client retries a failed CompleteMultipartUpload with the same       *)
(* upload ID: an upload at rest has its final.img or every part it lists.  *)
Retryable ==
  \A u \in Uploads : AtRest(u) /\ parts[u] # NoFiles =>
    \/ final[u] # None
    \/ \A n \in PartNumbers : parts[u][n] # None => file[u][n] = parts[u][n]

(* So it has after failed copies and failed backups. *)
RetryableUnlessStoreFailed == faults \subseteq {"copy", "backup"} => Retryable

(* Repeating CompleteMultipartUpload, the answer lost in a crash say, does *)
(* not make the upload the key's object a second time, over what was put   *)
(* or deleted since: its bytes are consumed by the first time.  (Claims    *)
(* that share no part, which no client sends, are not covered.)            *)
CommittedOnce == \A u \in Uploads : commits[u] <= 1

(* backend.go:107: every caller of commitObjectLocked holds the lock of    *)
(* the key it commits to.                                                  *)
CommitsUnderItsLock ==
  \A p \in Procs : pc[p] \in {"commit", "backup", "unlink", "map"} =>
    holder[home[req[p].upload]] = p

(* Startup reconciliation runs beside the first requests and still never   *)
(* removes the directory of an upload that has a record.                   *)
ReconcileSparesUploads ==
  [][\A u \in Uploads : gcpc = "reconcile" /\ u \in gctodo /\ u \notin gctodo' =>
       record[u] = None]_vars

(* gc.go:13: a sweep removes uploads with no activity within the TTL. *)
SweepSparesActive ==
  [][\A u \in Uploads :
       gcpc = "sweepRecord" /\ gcpc' = "sweep" /\ record[u] # None /\ record'[u] = None =>
         record[u].stale]_vars

(* An abandoned upload is reclaimed: one that goes stale is removed, by    *)
(* the sweep or by a request, unless a part arrives, or the sweep cannot   *)
(* delete it however often it tries (gc.go:58).                            *)
StaleIsReclaimed ==
  \A u \in Uploads :
    (Stale(u) ~> ~ Stale(u)) \/ []<><<SweepRecord /\ DeleteUploadFails(u)>>_vars

(* No request keeps its key for ever. *)
EveryRequestAnswered == \A p \in Procs : pc[p] # "idle" ~> pc[p] = "idle"
==============================================================================
