--------------------------- MODULE MultipartProofs ---------------------------
(***************************************************************************)
(* Multipart keeps uploads together for any number of requests, keys,      *)
(* uploads, parts and contents.  The inductive invariant is a conjunction  *)
(* of named parts, each with the circumstances it holds under: BaseInv     *)
(* always; ClearedInv while clients name uploads with their own keys;      *)
(* PresentInv as long as, besides, neither a sweep nor a crash has come;   *)
(* RetryInv, ClaimInv and OnceInv, one for each of the deeper properties,  *)
(* under the faults that property survives.                                *)
(***************************************************************************)
EXTENDS Multipart, FiniteSetTheorems, TLAPS

PartPcs == {"uploadPart", "writePart", "putPart", "touch"}
CommitPcs == {"commit", "backup", "unlink", "map"}
CompletePcs == {"complete", "concat"} \cup CommitPcs
CleanPcs == {"removeDir", "removeRecord"}

(* Where a request can be, by what it asks. *)
RequestInv ==
  \A p \in Procs :
    /\ pc[p] = "idle" <=> req[p] = None
    /\ pc[p] \in PartPcs => req[p].op = "uploadPart"
    /\ pc[p] \in CompletePcs => req[p].op = "complete"
    /\ pc[p] \in {"create", "abort", "delete"} => req[p].op = pc[p]
    /\ pc[p] \in CleanPcs => req[p].op \in {"complete", "abort", "delete"}
    /\ pc[p] \in CleanPcs <=> victims[p] # <<>>
    /\ pc[p] \in CleanPcs \cup {"return"} <=> result[p] # None

(* Every request holds the lock of its key. *)
LockInv == \A p \in Procs : pc[p] # "idle" => holder[req[p].key] = p

(* An unused upload ID has left nothing, and a request has found an upload *)
(* under its own key if clients name it with that.                         *)
Found(p, u) == home[u] # None /\ (KeysMatch => home[u] = req[p].key)

Works(p, u) == \/ /\ pc[p] # "idle" /\ req[p].op \in {"uploadPart", "complete", "abort"}
                  /\ u = req[p].upload
               \/ \E i \in DOMAIN victims[p] : u = victims[p][i]

HomeInv ==
  \A u \in Uploads :
    /\ home[u] = None => /\ record[u] = None /\ parts[u] = NoFiles /\ ~ dir[u]
                         /\ commits[u] = 0 /\ undone[u] = {}
    /\ record[u] # None => record[u].key = home[u]
    /\ \A p \in Procs : Works(p, u) => Found(p, u)

Creates(p) == pc[p] # "idle" /\ req[p].op = "create"

CreateInv ==
  \A p \in Procs :
    /\ pc[p] = "create" => home[req[p].upload] = None
    /\ \A q \in Procs : Creates(p) /\ Creates(q) /\ p # q => req[p].upload # req[q].upload

(* What the collector has on its list. *)
GcInv ==
  /\ gcpc \in {"listIDs", "reconcile"} => \A u \in gctodo : home[u] # None
  /\ gcpc = "reconcile" => \A u \in gctodo : record[u] = None
  /\ gcpc = "sweepRecord" => gctodo # {}
  /\ ~ Collecting => gcpc \notin {"sweep", "sweepRecord"}

(* Without its directory an upload has no files. *)
ScratchInv ==
  \A u \in Uploads : ~ dir[u] => file[u] = NoFiles /\ ~ partial[u] /\ final[u] = None

(* Only a fault leaves something undone. *)
UndoneInv ==
  \A u \in Uploads : /\ "dir" \in undone[u] => "files" \in faults
                     /\ "record" \in undone[u] => "store" \in faults

BaseInv == /\ TypeOK
           /\ RequestInv /\ LockInv
           /\ HomeInv /\ CreateInv
           /\ GcInv
           /\ ScratchInv
           /\ UndoneInv

(* The directory has gone before the record does, or could not be removed. *)
ClearedInv ==
  \A p \in Procs : pc[p] = "removeRecord" =>
    LET u == Head(victims[p])
    IN  ~ dir[u] \/ ("dir" \in undone[u] /\ req[p].op # "abort")

------------------------------------------------------------------------------
(***************************************************************************)
(* While no sweep and no crash comes                                       *)
(***************************************************************************)
Undisturbed == KeysMatch /\ ~ Collecting /\ "crash" \notin faults

(* What UploadPart has stored by where it is. *)
PartInv ==
  \A p \in Procs :
    LET u == req[p].upload  n == req[p].part
        Acknowledged == pc[p] = "return" /\ req[p].op = "uploadPart" /\ result[p] = "ok"
    IN  /\ pc[p] \in {"writePart", "putPart", "touch"} \/ Acknowledged => record[u] # None /\ dir[u]
        /\ pc[p] = "writePart" => file[u][n] # None
        /\ pc[p] \in {"putPart", "touch"} \/ Acknowledged => file[u][n] = req[p].data
        /\ pc[p] = "touch" \/ Acknowledged => parts[u][n] = req[p].data

Gone(u) == record[u] = None /\ parts[u] = NoFiles /\ ~ dir[u]

(* Nothing is left but what could not be removed. *)
GoneOrUndone(u) ==
  /\ "record" \notin undone[u] => record[u] = None /\ parts[u] = NoFiles
  /\ "dir" \notin undone[u] => ~ dir[u]

(* CompleteMultipartUpload and the loops that remove uploads still have    *)
(* the records of theirs; DeleteObject has all the key's uploads.          *)
VictimInv ==
  \A p \in Procs :
    /\ pc[p] \in CompletePcs \ {"complete"} => record[req[p].upload] # None
    /\ \A i \in DOMAIN victims[p] : record[victims[p][i]] # None
    /\ \A i, j \in DOMAIN victims[p] : victims[p][i] = victims[p][j] => i = j
    /\ pc[p] # "idle" /\ result[p] = "aborted" =>
         \A u \in Uploads : home[u] = req[p].key =>
           GoneOrUndone(u) \/ \E i \in DOMAIN victims[p] : u = victims[p][i]
    /\ pc[p] # "idle" /\ req[p].op = "abort" =>
         /\ \A i \in DOMAIN victims[p] : victims[p][i] = req[p].upload
         /\ pc[p] = "return" /\ result[p] = "ok" => Gone(req[p].upload)

AgreeInv ==
  \A u \in Uploads :
    /\ parts[u] # NoFiles => record[u] # None
    /\ dir[u] => record[u] # None \/ "dir" \in undone[u]
    /\ parts[u] # NoFiles =>
         \/ dir[u] \/ "record" \in undone[u]
         \/ \E p \in Procs : pc[p] = "removeRecord" /\ u = Head(victims[p])

PresentInv == PartInv /\ VictimInv /\ AgreeInv

------------------------------------------------------------------------------
(***************************************************************************)
(* ... and no fault but failed copies and backups                          *)
(***************************************************************************)
Writing(u, n) == \E p \in Procs : /\ pc[p] \in {"writePart", "putPart"}
                                  /\ req[p].upload = u /\ req[p].part = n

Busy(u) == \E p \in Procs : \/ pc[p] \in {"concat", "map"} /\ req[p].upload = u
                            \/ \E i \in DOMAIN victims[p] : u = victims[p][i]

(* An upload can be completed again unless a request is using it up. *)
CanRetry(u) == parts[u] # NoFiles =>
                 \/ final[u] # None
                 \/ Busy(u)
                 \/ \A n \in PartNumbers :
                      parts[u][n] # None => file[u][n] = parts[u][n] \/ Writing(u, n)

RetryUploads == \A u \in Uploads : CanRetry(u)

RetryFinals ==
  \A p \in Procs : pc[p] \in {"commit", "backup", "unlink"} => final[req[p].upload] # None

RetryInv == RetryUploads /\ RetryFinals

------------------------------------------------------------------------------
(***************************************************************************)
(* With sweeps, and no fault but broken bodies and failed copies           *)
(***************************************************************************)
(* A part's file is what its record says unless it is being written. *)
FilesInv ==
  /\ \A u \in Uploads, n \in PartNumbers :
       file[u][n] # None /\ parts[u][n] # None => file[u][n] = parts[u][n] \/ Writing(u, n)
  /\ \A p \in Procs : pc[p] = "putPart" =>
       file[req[p].upload][req[p].part] \in {None, req[p].data}

Finishing(p, u) == pc[p] \in {"commit", "backup", "unlink"} /\ req[p].upload = u

(* What is assembled and what is left on the list are the claim. *)
MakesUp(o, left, claim) == o \o Etags(left) = Etags(claim)

AssembledInv ==
  \A p \in Procs :
    /\ pc[p] \in {"idle", "complete"} => out[p] = <<>>
    /\ pc[p] = "concat" =>
         /\ MakesUp(out[p], todo[p], req[p].claim)
         /\ \A i \in DOMAIN todo[p] :
              file[req[p].upload][todo[p][i].number] \in {None, todo[p][i].etag}
    /\ pc[p] \in CommitPcs => out[p] = Etags(req[p].claim)

(* No final.img is left behind by a request. *)
FinalInUse == \A u \in Uploads : final[u] # None => \E p \in Procs : Finishing(p, u)

ClaimInv == FilesInv /\ AssembledInv /\ FinalInUse

------------------------------------------------------------------------------
(***************************************************************************)
(* With sweeps and faults that do not meet                                 *)
(***************************************************************************)
ClaimsOverlap ==
  \A c, d \in Claims \ {<<>>} : \E i \in DOMAIN c, j \in DOMAIN d : c[i].number = d[j].number

(* An upload is spent when a part of every claim has been used up. *)
Spent(u) == /\ final[u] = None
            /\ \A c \in Claims \ {<<>>} : \E i \in DOMAIN c : file[u][c[i].number] = None

(* A request that has completed the upload cleans it up. *)
InVictims(u) == \E p \in Procs : \E i \in DOMAIN victims[p] :
                  u = victims[p][i] /\ req[p].op = "complete"

SpentInv ==
  /\ \A u \in Uploads :
       /\ commits[u] <= 1
       /\ commits[u] = 1 => Spent(u) \/ record[u] = None \/ InVictims(u)
  /\ \A p \in Procs :
       /\ pc[p] = "concat" /\ commits[req[p].upload] = 1 =>
            \E i \in DOMAIN todo[p] : file[req[p].upload][todo[p][i].number] = None
       /\ pc[p] \in CommitPcs => commits[req[p].upload] = 0

(* Before the first failed backup, failed removal or crash, the parts are  *)
(* used up before the commit.                                              *)
FirstInv ==
  /\ \A u \in Uploads : commits[u] = 1 => Spent(u)
  /\ FinalInUse
  /\ \A p \in Procs :
       /\ pc[p] \in CompletePcs \ {"complete"} => req[p].claim # <<>>
       /\ pc[p] = "concat" =>
            \A i \in DOMAIN req[p].claim :
              \/ file[req[p].upload][req[p].claim[i].number] = None
              \/ \E j \in DOMAIN todo[p] : todo[p][j].number = req[p].claim[i].number
       /\ pc[p] \in CommitPcs =>
            \A i \in DOMAIN req[p].claim : file[req[p].upload][req[p].claim[i].number] = None

(* The pairs of faults that can make an upload the key's object twice. *)
Meeting == {{"backup", "crash"}, {"files", "crash"}, {"files", "store"}}

OnceInv == /\ (\A m \in Meeting : ~ (m \subseteq faults)) => SpentInv
           /\ faults \cap {"backup", "files", "crash"} = {} => FirstInv

------------------------------------------------------------------------------
IInv == /\ BaseInv
        /\ KeysMatch => ClearedInv
        /\ Undisturbed => PresentInv
        /\ Undisturbed /\ faults \subseteq {"copy", "backup"} => RetryInv
        /\ KeysMatch /\ faults \subseteq {"body", "copy"} => ClaimInv
        /\ KeysMatch /\ ClaimsOverlap => OnceInv
        /\ Cardinality(faults) <= MaxFaults

------------------------------------------------------------------------------
(***************************************************************************)
(* What the steps have in common                                           *)
(***************************************************************************)
(* The fields of what a request asks. *)
LEMMA RequestFields ==
  ASSUME TypeOK, NEW p \in Procs, req[p] # None
  PROVE  /\ req[p] \in Request
         /\ req[p].key \in Keys
         /\ req[p].op # "delete" => req[p].upload \in Uploads
         /\ req[p].op = "uploadPart" => req[p].part \in PartNumbers /\ req[p].data \in Data
         /\ req[p].op = "complete" => req[p].claim \in Claims /\ req[p].claim \in Seq(ListedPart)
  BY ConstantsAssumption DEF TypeOK, Request

(* Those of a request that is at its own work. *)
LEMMA AtWork ==
  ASSUME TypeOK, RequestInv, NEW p \in Procs, pc[p] \notin {"idle", "return"}
  PROVE  /\ req[p] \in Request /\ req[p].key \in Keys
         /\ pc[p] # "delete" /\ pc[p] \notin CleanPcs => req[p].upload \in Uploads
         /\ pc[p] \in PartPcs => req[p].part \in PartNumbers /\ req[p].data \in Data
         /\ pc[p] \in CompletePcs => req[p].claim \in Claims /\ req[p].claim \in Seq(ListedPart)
         /\ pc[p] \in CleanPcs => /\ victims[p] # <<>> /\ Head(victims[p]) \in Uploads
                                  /\ Tail(victims[p]) \in Seq(Uploads)
  <1>1. req[p] # None
    BY DEF RequestInv
  <1>2. pc[p] \in Pcs /\ victims[p] \in Seq(Uploads)
    BY DEF TypeOK
  <1>3. pc[p] \in CleanPcs => victims[p] # <<>>
    BY DEF RequestInv
  <1>4. pc[p] \in PartPcs => req[p].op = "uploadPart"
    BY DEF RequestInv
  <1>5. pc[p] \in CompletePcs => req[p].op = "complete"
    BY DEF RequestInv
  <1>6. pc[p] \in {"create", "abort", "delete"} => req[p].op = pc[p]
    BY DEF RequestInv
  <1>7. pc[p] # "delete" /\ pc[p] \notin CleanPcs => req[p].op # "delete"
    BY <1>2, <1>4, <1>5, <1>6 DEF Pcs, PartPcs, CompletePcs, CommitPcs, CleanPcs
  <1>8. QED
    BY <1>1, <1>2, <1>3, <1>4, <1>5, <1>7, RequestFields

(* What clients may ask is a request. *)
LEMMA RequestsTyped == TypeOK => Requests \subseteq Request
  <1> SUFFICES ASSUME TypeOK, NEW r \in Requests PROVE r \in Request
    OBVIOUS
  <1>1. \A u \in Opened : u \in Uploads /\ KeysFor(u) \subseteq Keys
    BY DEF Opened, KeysFor, TypeOK
  <1>2. Unused \subseteq Uploads
    BY DEF Unused
  <1>3. CASE r \in {[op |-> "create", key |-> k, upload |-> u] : k \in Keys, u \in Unused}
    BY <1>2, <1>3 DEF Request
  <1>4. CASE r \in {[op |-> "delete", key |-> k] : k \in Keys}
    BY <1>4 DEF Request
  <1>5. CASE r \in UNION {RequestsFor(u) : u \in Opened}
    <2>1. PICK u \in Opened : r \in RequestsFor(u)
      BY <1>5
    <2>2. u \in Uploads /\ KeysFor(u) \subseteq Keys
      BY <1>1
    <2>3. QED
      BY <2>1, <2>2 DEF RequestsFor, Request
  <1>6. QED
    BY <1>3, <1>4, <1>5 DEF Requests

(* Everything a request does between its arrival and its answer. *)
Work(p) == \/ CreateMultipartUpload(p)
           \/ OpenPart(p) \/ WritePart(p) \/ PutPart(p) \/ TouchUpload(p)
           \/ Validate(p) \/ ConcatPart(p) \/ RenameFinal(p)
           \/ OpenFinal(p) \/ Backup(p) \/ UnlinkFinal(p) \/ PutObjectMapping(p)
           \/ AbortMultipartUpload(p) \/ DeleteObject(p)
           \/ RemoveDir(p) \/ RemoveRecord(p)

(* The step of one request leaves the others where they are. *)
LEMMA WorkFrame ==
  ASSUME TypeOK, NEW p \in Procs, Work(p)
  PROVE  /\ UNCHANGED <<req, holder, gc>>
         /\ pc[p] \notin {"idle", "return"}
         /\ \A q \in Procs \ {p} : /\ pc'[q] = pc[q] /\ result'[q] = result[q]
                                  /\ out'[q] = out[q] /\ todo'[q] = todo[q]
                                  /\ victims'[q] = victims[q]
  <1> USE DEF TypeOK, At, Goto, Answer, CleanUp, gc
  <1>1. CASE CreateMultipartUpload(p) \/ AbortMultipartUpload(p) \/ DeleteObject(p)
    BY <1>1 DEF CreateMultipartUpload, AbortMultipartUpload, DeleteObject
  <1>2. CASE OpenPart(p) \/ WritePart(p) \/ PutPart(p) \/ TouchUpload(p)
    BY <1>2 DEF OpenPart, WritePart, PutPart, TouchUpload
  <1>3. CASE Validate(p) \/ ConcatPart(p) \/ RenameFinal(p)
    BY <1>3 DEF Validate, ConcatPart, RenameFinal, GiveUp
  <1>4. CASE OpenFinal(p) \/ Backup(p) \/ UnlinkFinal(p) \/ PutObjectMapping(p)
    BY <1>4 DEF OpenFinal, Backup, UnlinkFinal, PutObjectMapping
  <1>5. CASE RemoveDir(p) \/ RemoveRecord(p)
    BY <1>5 DEF RemoveDir, RemoveRecord, Failed
  <1>6. QED
    BY <1>1, <1>2, <1>3, <1>4, <1>5 DEF Work

(* Next, with a request's own work in one. *)
LEMMA NextCases ==
  ASSUME [Next]_vars
  PROVE  \/ \E p \in Procs : Enter(p) \/ Work(p) \/ Return(p)
         \/ Collect \/ Expire \/ Crash
         \/ UNCHANGED vars
  BY DEF Next, Step, Work

------------------------------------------------------------------------------
(***************************************************************************)
(* The part that needs no circumstances                                    *)
(***************************************************************************)
(* The sequence of a finite set holds each of its elements once. *)
LEMMA SetToSeqOnce ==
  ASSUME NEW S, IsFiniteSet(S)
  PROVE  /\ SetToSeq(S) \in Seq(S)
         /\ DOMAIN SetToSeq(S) = 1..Cardinality(S)
         /\ \A x \in S : \E i \in DOMAIN SetToSeq(S) : x = SetToSeq(S)[i]
         /\ \A i, j \in DOMAIN SetToSeq(S) : SetToSeq(S)[i] = SetToSeq(S)[j] => i = j
  <1> DEFINE n == Cardinality(S)
             s == SetToSeq(S)
  <1>1. n \in Nat /\ ExistsBijection(1..n, S)
    BY FS_CardinalityType
  <1>2. \E f \in [1..n -> S] : IsInjective(f)
    BY <1>1 DEF ExistsBijection, Bijection, Injection, IsInjective
  <1>3. s \in [1..n -> S] /\ IsInjective(s)
    BY <1>2 DEF SetToSeq
  <1>4. IsFiniteSet(1..n) /\ Cardinality(1..n) = n
    BY <1>1, FS_Interval
  <1>5. s \in Injection(1..n, S)
    BY <1>3 DEF Injection, IsInjective
  <1>6. s \in Surjection(1..n, S)
    BY <1>4, <1>5, FS_Injection
  <1>7. s \in Seq(S) /\ DOMAIN s = 1..n
    BY <1>1, <1>3
  <1>8. QED
    BY <1>3, <1>6, <1>7 DEF Surjection, IsInjective

(* The uploads DeleteObject finds. *)
LEMMA VictimsOfKey ==
  ASSUME NEW k \in Keys
  PROVE  /\ SetToSeq(OfKey(k)) \in Seq(Uploads)
         /\ \A u \in OfKey(k) : \E i \in DOMAIN SetToSeq(OfKey(k)) : u = SetToSeq(OfKey(k))[i]
         /\ \A i \in DOMAIN SetToSeq(OfKey(k)) : SetToSeq(OfKey(k))[i] \in OfKey(k)
         /\ \A i, j \in DOMAIN SetToSeq(OfKey(k)) :
              SetToSeq(OfKey(k))[i] = SetToSeq(OfKey(k))[j] => i = j
         /\ OfKey(k) # {} => SetToSeq(OfKey(k)) # <<>>
  <1>1. OfKey(k) \in SUBSET Uploads
    BY DEF OfKey
  <1>2. IsFiniteSet(OfKey(k))
    BY <1>1, ConstantsAssumption, FS_Subset
  <1> HIDE DEF OfKey
  <1>3. QED
    BY <1>1, <1>2, SetToSeqOnce

(* Every request is idle, every upload ID unused, the collector about to read the directory. *)
LEMMA BaseInit == Init => BaseInv
  <1> SUFFICES ASSUME Init PROVE BaseInv
    OBVIOUS
  <1> USE NoneAssumption DEF Init, NoFiles
  <1>1. TypeOK
    BY DEF TypeOK, Pcs, GcPcs, Content
  <1>2. RequestInv /\ LockInv /\ HomeInv /\ CreateInv /\ GcInv /\ ScratchInv /\ UndoneInv
    BY DEF RequestInv, LockInv, HomeInv, Works, CreateInv, Creates, GcInv, ScratchInv, UndoneInv,
           PartPcs, CompletePcs, CommitPcs, CleanPcs
  <1>3. QED
    BY <1>1, <1>2 DEF BaseInv

(* Changing one element of a matrix. *)
LEMMA Cell ==
  ASSUME NEW A, NEW B, NEW C, NEW f \in [A -> [B -> C]], NEW x \in A, NEW y \in B, NEW z \in C
  PROVE  /\ [f EXCEPT ![x][y] = z] \in [A -> [B -> C]]
         /\ \A v \in A, w \in B :
              [f EXCEPT ![x][y] = z][v][w] = IF v = x /\ w = y THEN z ELSE f[v][w]
         /\ \A v \in A : v # x => [f EXCEPT ![x][y] = z][v] = f[v]
  <1>1. [f[x] EXCEPT ![y] = z] \in [B -> C]
    OBVIOUS
  <1>2. [f EXCEPT ![x][y] = z] = [v \in A |-> IF v = x THEN [f[x] EXCEPT ![y] = z] ELSE f[v]]
    OBVIOUS
  <1>3. QED
    BY <1>1, <1>2

(* Type correctness, by groups of variables. *)
UploadType == /\ record \in [Uploads -> Upload \cup {None}]
              /\ parts \in [Uploads -> [PartNumbers -> Data \cup {None}]]
              /\ home \in [Uploads -> Keys \cup {None}]
              /\ commits \in [Uploads -> Nat]
              /\ undone \in [Uploads -> SUBSET {"dir", "record"}]

ScratchType == /\ dir \in [Uploads -> BOOLEAN]
               /\ file \in [Uploads -> [PartNumbers -> Data \cup {Torn, None}]]
               /\ partial \in [Uploads -> BOOLEAN]
               /\ final \in [Uploads -> Content \cup {None}]

LocalsType == /\ pc \in [Procs -> Pcs]
              /\ result \in [Procs -> Results \cup {None}]
              /\ out \in [Procs -> Content]
              /\ todo \in [Procs -> Seq(ListedPart)]
              /\ victims \in [Procs -> Seq(Uploads)]

OtherType == /\ holder \in [Keys -> Procs \cup {None}]
             /\ req \in [Procs -> Request \cup {None}]
             /\ gcpc \in GcPcs /\ gctodo \subseteq Uploads
             /\ faults \subseteq Faults

(* Writing one part's file, or one part's record. *)
LEMMA FileCell ==
  ASSUME ScratchType, NEW u \in Uploads, NEW n \in PartNumbers, NEW x \in Data \cup {Torn, None},
         file' = [file EXCEPT ![u][n] = x]
  PROVE  /\ file' \in [Uploads -> [PartNumbers -> Data \cup {Torn, None}]]
         /\ \A v \in Uploads, w \in PartNumbers :
              file'[v][w] = IF v = u /\ w = n THEN x ELSE file[v][w]
         /\ \A v \in Uploads : v # u => file'[v] = file[v]
  <1>1. file \in [Uploads -> [PartNumbers -> Data \cup {Torn, None}]]
    BY DEF ScratchType
  <1>2. QED
    BY <1>1, Cell

(* Writing one part's record leaves those of all others. *)
LEMMA PartCell ==
  ASSUME UploadType, NEW u \in Uploads, NEW n \in PartNumbers, NEW x \in Data,
         parts' = [parts EXCEPT ![u][n] = x]
  PROVE  /\ parts' \in [Uploads -> [PartNumbers -> Data \cup {None}]]
         /\ \A v \in Uploads, w \in PartNumbers :
              parts'[v][w] = IF v = u /\ w = n THEN x ELSE parts[v][w]
         /\ \A v \in Uploads : v # u => parts'[v] = parts[v]
  <1>1. parts \in [Uploads -> [PartNumbers -> Data \cup {None}]]
    BY DEF UploadType
  <1>2. QED
    BY <1>1, Cell

(* TypeOK in four groups of variables, so that a step is typed group by group. *)
LEMMA TypeGroups == TypeOK <=> UploadType /\ ScratchType /\ LocalsType /\ OtherType
  BY DEF TypeOK, UploadType, ScratchType, LocalsType, OtherType

LEMMA TypeGroupsNext == UploadType' /\ ScratchType' /\ LocalsType' /\ OtherType' => TypeOK'
  BY DEF TypeOK, UploadType, ScratchType, LocalsType, OtherType

(* What neither a removal nor a deletion changes of another upload. *)
SameUpload(v) == record'[v] = record[v] /\ parts'[v] = parts[v]
SameScratch(v) == /\ dir'[v] = dir[v] /\ file'[v] = file[v]
                  /\ partial'[v] = partial[v] /\ final'[v] = final[v]

(* Files only go away, all of them with their directory. *)
Shrinks(v) == /\ dir'[v] => dir[v]
              /\ \A n \in PartNumbers : file'[v][n] \in {None, file[v][n]}
              /\ partial'[v] => partial[v]
              /\ final'[v] \in {None, final[v]}
              /\ ~ dir'[v] => file'[v] = NoFiles /\ ~ partial'[v] /\ final'[v] = None

(* Removing a directory, whether it succeeds or not, only takes files away. *)
Removes(u) == RemoveUploadDir(u) \/ RemoveUploadDirFails(u)

LEMMA Removal ==
  ASSUME UploadType, ScratchType, NEW u \in Uploads, Removes(u)
  PROVE  /\ ScratchType' /\ undone' \in [Uploads -> SUBSET {"dir", "record"}]
         /\ \A v \in Uploads : v # u => SameScratch(v) /\ undone'[v] = undone[v]
         /\ Shrinks(u)
         /\ \/ ~ dir'[u] /\ undone'[u] = undone[u] \ {"dir"} /\ UNCHANGED faults
            \/ /\ dir[u] /\ dir'[u] /\ undone'[u] = undone[u] \cup {"dir"}
               /\ Fault("files")
  <1>1. CASE RemoveUploadDir(u)
    BY <1>1 DEF RemoveUploadDir, NoFiles, UploadType, ScratchType, SameScratch, Shrinks
  <1>2. CASE RemoveUploadDirFails(u)
    <2>1. PICK gone \in SUBSET PartNumbers :
            file' = [file EXCEPT ![u] =
                       [n \in PartNumbers |-> IF n \in gone THEN None ELSE file[u][n]]]
      BY <1>2 DEF RemoveUploadDirFails
    <2>2. /\ file' \in [Uploads -> [PartNumbers -> Data \cup {Torn, None}]]
          /\ \A n \in PartNumbers : file'[u][n] \in {None, file[u][n]}
          /\ \A v \in Uploads : v # u => file'[v] = file[v]
      BY <2>1 DEF ScratchType
    <2>3. /\ partial' \in [Uploads -> BOOLEAN] /\ final' \in [Uploads -> Content \cup {None}]
          /\ partial'[u] => partial[u]
          /\ final'[u] \in {None, final[u]}
          /\ \A v \in Uploads : v # u => partial'[v] = partial[v] /\ final'[v] = final[v]
      BY <1>2 DEF RemoveUploadDirFails, ScratchType
    <2>4. /\ dir' = dir /\ dir[u] /\ Fault("files")
          /\ undone' = [undone EXCEPT ![u] = @ \cup {"dir"}]
      BY <1>2 DEF RemoveUploadDirFails
    <2>5. QED
      BY <2>2, <2>3, <2>4 DEF UploadType, ScratchType, SameScratch, Shrinks
  <1>3. QED
    BY <1>1, <1>2 DEF Removes

(* Deleting an upload's records deletes all of them or none. *)
Deletes(u) == DeleteUpload(u) \/ DeleteUploadFails(u)

LEMMA Deletion ==
  ASSUME UploadType, NEW u \in Uploads, Deletes(u)
  PROVE  /\ record' \in [Uploads -> Upload \cup {None}]
         /\ parts' \in [Uploads -> [PartNumbers -> Data \cup {None}]]
         /\ undone' \in [Uploads -> SUBSET {"dir", "record"}]
         /\ \A v \in Uploads : v # u => SameUpload(v) /\ undone'[v] = undone[v]
         /\ \/ /\ DeleteUpload(u) /\ record'[u] = None
               /\ parts'[u] = IF record[u] = None THEN parts[u] ELSE NoFiles
               /\ undone'[u] = undone[u] \ {"record"} /\ UNCHANGED faults
            \/ /\ DeleteUploadFails(u) /\ SameUpload(u) /\ record[u] # None
               /\ undone'[u] = undone[u] \cup {"record"} /\ Fault("store")
  <1>1. CASE DeleteUpload(u)
    BY <1>1 DEF DeleteUpload, NoFiles, UploadType, SameUpload
  <1>2. CASE DeleteUploadFails(u)
    BY <1>2 DEF DeleteUploadFails, UploadType, SameUpload
  <1>3. QED
    BY <1>1, <1>2 DEF Deletes

(* What the removal steps of a request do. *)
LEMMA RemoveDirs ==
  ASSUME NEW p \in Procs, RemoveDir(p)
  PROVE  Removes(Head(victims[p])) /\ pc[p] = "removeDir"
  BY DEF RemoveDir, Removes, At

LEMMA RemoveRecords ==
  ASSUME NEW p \in Procs, RemoveRecord(p)
  PROVE  Deletes(Head(victims[p])) /\ pc[p] = "removeRecord"
  BY DEF RemoveRecord, Deletes, At

(* What a step of the collector does. *)
LEMMA CollectCases ==
  ASSUME GcInv, Collect
  PROVE  \/ UNCHANGED <<upload, scratch, undone, faults>>
         \/ \E u \in gctodo : /\ gcpc \in {"reconcile", "sweep"}
                              /\ Removes(u) /\ UNCHANGED upload
         \/ \E u \in gctodo : /\ gcpc = "sweepRecord"
                              /\ Deletes(u) /\ UNCHANGED scratch
  <1>1. gctodo # {} => Swept \in gctodo
    BY DEF Swept
  <1>2. CASE ReadScratchDir \/ ListAllUploadIDs \/ Reconciled \/ ListUploadsOlderThan \/ SweepDone
    BY <1>2 DEF ReadScratchDir, ListAllUploadIDs, Reconciled, ListUploadsOlderThan, SweepDone
  <1>3. CASE RemoveOrphan
    BY <1>3 DEF RemoveOrphan, Collector, Removes
  <1>4. CASE SweepDir
    BY <1>1, <1>4 DEF SweepDir, Collector, Removes
  <1>5. CASE SweepRecord
    BY <1>1, <1>5 DEF SweepRecord, Collector, Deletes, GcInv
  <1>6. QED
    BY <1>2, <1>3, <1>4, <1>5 DEF Collect

(* The step of a request keeps each group. *)
LEMMA WorkUploadType == ASSUME TypeOK, RequestInv, NEW p \in Procs, Work(p) PROVE UploadType'
  <1> USE DEF UploadType, At
  <1>1. UploadType /\ pc[p] \notin {"idle", "return"}
    BY TypeGroups, WorkFrame
  <1> HIDE DEF UploadType
  <1>2. CASE CreateMultipartUpload(p)
    <2>1. req[p].upload \in Uploads /\ req[p].key \in Keys
      BY <1>1, <1>2, AtWork DEF CreateMultipartUpload, At, CleanPcs
    <2>2. [key |-> req[p].key, stale |-> FALSE] \in Upload
      BY <2>1 DEF Upload
    <2>3. QED
      BY <1>1, <1>2, <2>1, <2>2 DEF CreateMultipartUpload, UploadType
  <1>3. CASE OpenPart(p)
    <2>1. req[p].upload \in Uploads
      BY <1>1, <1>3, AtWork DEF OpenPart, At, CleanPcs
    <2>2. QED
      BY <1>1, <1>3, <2>1 DEF OpenPart, upload, UploadType
  <1>4. CASE PutPart(p)
    <2>1. req[p].upload \in Uploads /\ req[p].part \in PartNumbers /\ req[p].data \in Data
      BY <1>1, <1>4, AtWork DEF PutPart, At, CleanPcs, PartPcs
    <2>2. parts' \in [Uploads -> [PartNumbers -> Data \cup {None}]]
      BY <1>1, <1>4, <2>1, PartCell DEF PutPart, UploadType
    <2>3. QED
      BY <1>1, <1>4, <2>2 DEF PutPart, UploadType
  <1>5. CASE TouchUpload(p)
    <2>1. req[p].upload \in Uploads
      BY <1>1, <1>5, AtWork DEF TouchUpload, At, CleanPcs
    <2>2. /\ UNCHANGED <<parts, home, commits, undone>>
          /\ \/ UNCHANGED record
             \/ /\ record[req[p].upload] # None
                /\ record' = [record EXCEPT ![req[p].upload].stale = FALSE]
      BY <1>5 DEF TouchUpload, Missing
    <2>3. record' \in [Uploads -> Upload \cup {None}]
      <3> DEFINE r == [record[req[p].upload] EXCEPT !.stale = FALSE]
      <3>1. record \in [Uploads -> Upload \cup {None}]
        BY <1>1 DEF UploadType
      <3>2. \A x \in Upload : [x EXCEPT !.stale = FALSE] \in Upload
        BY DEF Upload
      <3>3. record[req[p].upload] # None => r \in Upload
        BY <2>1, <3>1, <3>2
      <3>4. \/ UNCHANGED record
            \/ record[req[p].upload] # None /\ record' = [record EXCEPT ![req[p].upload] = r]
        BY <2>2
      <3> HIDE DEF r
      <3>5. QED
        BY <3>1, <3>3, <3>4
    <2>4. QED
      BY <1>1, <2>2, <2>3 DEF UploadType
  <1>6. CASE PutObjectMapping(p)
    <2>1. req[p].upload \in Uploads
      BY <1>1, <1>6, AtWork DEF PutObjectMapping, At, CleanPcs
    <2>2. QED
      BY <1>1, <1>6, <2>1 DEF PutObjectMapping, upload, UploadType
  <1>7. CASE RemoveRecord(p)
    <2>1. Head(victims[p]) \in Uploads /\ Deletes(Head(victims[p]))
      BY <1>1, <1>7, AtWork, RemoveRecords DEF CleanPcs
    <2>2. UNCHANGED <<home, commits>>
      BY <1>7 DEF RemoveRecord
    <2>3. QED
      BY <1>1, <2>1, <2>2, Deletion DEF UploadType
  <1>8. CASE WritePart(p) \/ Validate(p) \/ ConcatPart(p) \/ RenameFinal(p)
    BY <1>1, <1>8 DEF WritePart, Validate, ConcatPart, RenameFinal, upload, UploadType
  <1>9. CASE OpenFinal(p) \/ Backup(p) \/ UnlinkFinal(p)
    BY <1>1, <1>9 DEF OpenFinal, Backup, UnlinkFinal, upload, UploadType
  <1>10. CASE AbortMultipartUpload(p) \/ DeleteObject(p)
    BY <1>1, <1>10 DEF AbortMultipartUpload, DeleteObject, upload, UploadType
  <1>11. CASE RemoveDir(p)
    <2>1. Head(victims[p]) \in Uploads /\ Removes(Head(victims[p]))
      BY <1>1, <1>11, AtWork, RemoveDirs DEF CleanPcs
    <2>2. UNCHANGED <<upload, home, commits>>
      BY <1>11 DEF RemoveDir
    <2>3. undone' \in [Uploads -> SUBSET {"dir", "record"}]
      BY <1>1, <2>1, Removal, TypeGroups
    <2>4. QED
      BY <1>1, <2>2, <2>3 DEF upload, UploadType
  <1>12. QED
    BY <1>2, <1>3, <1>4, <1>5, <1>6, <1>7, <1>8, <1>9, <1>10, <1>11 DEF Work

(* A request writes contents of parts into files, never anything else. *)
LEMMA WorkScratchType == ASSUME TypeOK, RequestInv, NEW p \in Procs, Work(p) PROVE ScratchType'
  <1> USE DEF At
  <1>1. ScratchType /\ pc[p] \notin {"idle", "return"}
    BY TypeGroups, WorkFrame
  <1>2. CASE OpenPart(p) \/ WritePart(p)
    <2>1. req[p].upload \in Uploads /\ req[p].part \in PartNumbers /\ req[p].data \in Data
      BY <1>1, <1>2, AtWork DEF OpenPart, WritePart, CleanPcs, PartPcs
    <2>2. CASE OpenPart(p)
      <3>1. file' \in [Uploads -> [PartNumbers -> Data \cup {Torn, None}]]
        <4>1. UNCHANGED file \/ file' = [file EXCEPT ![req[p].upload][req[p].part] = Torn]
          BY <2>2 DEF OpenPart
        <4>2. UNCHANGED file => file' \in [Uploads -> [PartNumbers -> Data \cup {Torn, None}]]
          BY <1>1 DEF ScratchType
        <4>3. QED
          BY <1>1, <2>1, <4>1, <4>2, FileCell
      <3>2. QED
        BY <1>1, <2>1, <2>2, <3>1 DEF OpenPart, ScratchType
    <2>3. CASE WritePart(p)
      <3>1. file' \in [Uploads -> [PartNumbers -> Data \cup {Torn, None}]]
        BY <1>1, <2>1, <2>3, FileCell DEF WritePart
      <3>2. QED
        BY <1>1, <2>3, <3>1 DEF WritePart, ScratchType
    <2>4. QED
      BY <1>2, <2>2, <2>3
  <1>3. CASE Validate(p) \/ ConcatPart(p) \/ RenameFinal(p) \/ UnlinkFinal(p)
    <2>1. req[p].upload \in Uploads
      BY <1>1, <1>3, AtWork DEF Validate, ConcatPart, RenameFinal, UnlinkFinal, CleanPcs
    <2>2. CASE Validate(p)
      BY <1>1, <2>1, <2>2 DEF Validate, ScratchType
    <2>3. CASE ConcatPart(p)
      <3>1. Head(todo[p]).number \in PartNumbers
        <4>1. todo[p] \in Seq(ListedPart) /\ todo[p] # <<>>
          BY <2>3 DEF ConcatPart, TypeOK
        <4>2. Head(todo[p]) \in ListedPart
          BY <4>1
        <4>3. QED
          BY <4>2 DEF ListedPart
      <3>2. file' \in [Uploads -> [PartNumbers -> Data \cup {Torn, None}]]
        <4>1. \/ UNCHANGED file
              \/ file' = [file EXCEPT ![req[p].upload][Head(todo[p]).number] = None]
          BY <2>3 DEF ConcatPart, ConsumePart
        <4>2. UNCHANGED file => file' \in [Uploads -> [PartNumbers -> Data \cup {Torn, None}]]
          BY <1>1 DEF ScratchType
        <4>3. QED
          BY <1>1, <2>1, <3>1, <4>1, <4>2, FileCell
      <3>3. QED
        BY <1>1, <2>1, <2>3, <3>2 DEF ConcatPart, ScratchType
    <2>4. CASE RenameFinal(p)
      <3>1. out[p] \in Content
        BY DEF TypeOK
      <3>2. QED
        BY <1>1, <2>1, <2>4, <3>1 DEF RenameFinal, ScratchType
    <2>5. CASE UnlinkFinal(p)
      BY <1>1, <2>1, <2>5 DEF UnlinkFinal, ScratchType
    <2>6. QED
      BY <1>3, <2>2, <2>3, <2>4, <2>5
  <1>4. CASE RemoveDir(p)
    <2>1. Head(victims[p]) \in Uploads /\ Removes(Head(victims[p]))
      BY <1>1, <1>4, AtWork, RemoveDirs DEF CleanPcs
    <2>2. QED
      BY <1>1, <2>1, Removal, TypeGroups
  <1>5. CASE UNCHANGED scratch
    BY <1>1, <1>5 DEF scratch, ScratchType
  <1>6. QED
    BY <1>2, <1>3, <1>4, <1>5 DEF Work, CreateMultipartUpload, PutPart, TouchUpload, OpenFinal,
       Backup, PutObjectMapping, AbortMultipartUpload, DeleteObject, RemoveRecord

(* Going on, answering, cleaning up: what most steps do with the locals. *)
LEMMA LocalsUpdate ==
  ASSUME LocalsType, NEW p \in Procs, UNCHANGED <<out, todo>>,
         NEW x \in Pcs, pc' = [pc EXCEPT ![p] = x],
         UNCHANGED result \/ \E r \in Results : result' = [result EXCEPT ![p] = r],
         UNCHANGED victims \/ \E s \in Seq(Uploads) : victims' = [victims EXCEPT ![p] = s]
  PROVE  LocalsType'
  <1>1. result' \in [Procs -> Results \cup {None}] /\ victims' \in [Procs -> Seq(Uploads)]
    BY DEF LocalsType
  <1>2. QED
    BY <1>1 DEF LocalsType

(* Where Work leads is a place a request can be, with lists of its own kind. *)
LEMMA WorkLocalsType == ASSUME TypeOK, RequestInv, NEW p \in Procs, Work(p) PROVE LocalsType'
  <1> USE DEF At, Goto, Answer, CleanUp
  <1>1. LocalsType /\ pc[p] \notin {"idle", "return"}
    BY TypeGroups, WorkFrame
  <1>2. /\ "return" \in Pcs /\ "removeDir" \in Pcs /\ "removeRecord" \in Pcs
        /\ {"writePart", "putPart", "touch", "concat", "commit", "backup", "unlink", "map"}
             \subseteq Pcs
        /\ {"ok", "error", "notFound", "aborted"} \subseteq Results
    BY DEF Pcs, Results
  <1>3. CASE CreateMultipartUpload(p) \/ OpenPart(p) \/ WritePart(p) \/ PutPart(p) \/ TouchUpload(p)
    BY <1>1, <1>2, <1>3 DEF CreateMultipartUpload, OpenPart, WritePart, PutPart, TouchUpload, LocalsType
  <1>4. CASE OpenFinal(p) \/ Backup(p) \/ UnlinkFinal(p)
    BY <1>1, <1>2, <1>4 DEF OpenFinal, Backup, UnlinkFinal, LocalsType
  <1>5. CASE Validate(p)
    <2>1. /\ req[p].upload \in Uploads /\ req[p].claim \in Seq(ListedPart)
      BY <1>1, <1>5, AtWork DEF Validate, CleanPcs, CompletePcs
    <2>2. final[req[p].upload] # None => final[req[p].upload] \in Content
      BY <2>1 DEF TypeOK
    <2>3. /\ UNCHANGED victims
          /\ \/ UNCHANGED <<out, todo>>
             \/ /\ final[req[p].upload] # None /\ UNCHANGED todo
                /\ out' = [out EXCEPT ![p] = final[req[p].upload]]
             \/ UNCHANGED out /\ todo' = [todo EXCEPT ![p] = req[p].claim]
      BY <1>5 DEF Validate
    <2>4. /\ \E x \in Pcs : pc' = [pc EXCEPT ![p] = x]
          /\ UNCHANGED result \/ \E r \in Results : result' = [result EXCEPT ![p] = r]
      BY <1>2, <1>5 DEF Validate
    <2>5. out' \in [Procs -> Content] /\ todo' \in [Procs -> Seq(ListedPart)]
      BY <1>1, <2>1, <2>2, <2>3 DEF LocalsType
    <2>6. QED
      BY <1>1, <2>3, <2>4, <2>5 DEF LocalsType
  <1>6. CASE ConcatPart(p) \/ RenameFinal(p) \/ PutObjectMapping(p) \/ AbortMultipartUpload(p)
    <2>1. req[p].upload \in Uploads
      BY <1>1, <1>6, AtWork DEF ConcatPart, RenameFinal, PutObjectMapping, AbortMultipartUpload, CleanPcs
    <2>2. <<req[p].upload>> \in Seq(Uploads)
      BY <2>1
    <2>3. CASE ConcatPart(p)
      <3>1. /\ todo[p] \in Seq(ListedPart) /\ todo[p] # <<>> /\ Tail(todo[p]) \in Seq(ListedPart)
            /\ Head(todo[p]).number \in PartNumbers
        <4>1. todo[p] \in Seq(ListedPart) /\ todo[p] # <<>>
          BY <2>3 DEF ConcatPart, TypeOK
        <4>2. Head(todo[p]) \in ListedPart /\ Tail(todo[p]) \in Seq(ListedPart)
          BY <4>1
        <4>3. QED
          BY <4>1, <4>2 DEF ListedPart
      <3>2. LET x == file[req[p].upload][Head(todo[p]).number]
            IN  x # None => Append(out[p], x) \in Content
        BY <2>1, <3>1 DEF TypeOK, Content
      <3>3. QED
        BY <1>1, <1>2, <2>2, <2>3, <3>1, <3>2 DEF ConcatPart, GiveUp, LocalsType
    <2>4. CASE RenameFinal(p)
      <3>1. /\ UNCHANGED <<out, todo>>
            /\ \/ pc' = [pc EXCEPT ![p] = "commit"] \/ pc' = [pc EXCEPT ![p] = "removeDir"]
            /\ UNCHANGED result \/ result' = [result EXCEPT ![p] = "error"]
            /\ UNCHANGED victims \/ victims' = [victims EXCEPT ![p] = <<req[p].upload>>]
        BY <2>4 DEF RenameFinal, GiveUp
      <3>2. QED
        BY <1>1, <1>2, <2>2, <3>1, LocalsUpdate
    <2>5. CASE PutObjectMapping(p)
      <3>1. /\ UNCHANGED <<out, todo>>
            /\ \/ pc' = [pc EXCEPT ![p] = "return"] \/ pc' = [pc EXCEPT ![p] = "removeDir"]
            /\ \E r \in Results : result' = [result EXCEPT ![p] = r]
            /\ UNCHANGED victims \/ victims' = [victims EXCEPT ![p] = <<req[p].upload>>]
        BY <1>2, <2>5 DEF PutObjectMapping
      <3>2. UNCHANGED victims \/ \E s \in Seq(Uploads) : victims' = [victims EXCEPT ![p] = s]
        BY <2>2, <3>1
      <3>3. QED
        BY <1>1, <1>2, <3>1, <3>2, LocalsUpdate
    <2>6. CASE AbortMultipartUpload(p)
      BY <1>1, <1>2, <2>2, <2>6 DEF AbortMultipartUpload, LocalsType
    <2>7. QED
      BY <1>6, <2>3, <2>4, <2>5, <2>6
  <1>7. CASE DeleteObject(p)
    <2>1. req[p].key \in Keys
      BY <1>1, <1>7, AtWork DEF DeleteObject
    <2>2. SetToSeq(OfKey(req[p].key)) \in Seq(Uploads)
      BY <2>1, VictimsOfKey
    <2>3. /\ UNCHANGED <<out, todo>>
          /\ pc' = [pc EXCEPT ![p] = "return"] \/ pc' = [pc EXCEPT ![p] = "removeDir"]
          /\ \/ UNCHANGED victims
             \/ victims' = [victims EXCEPT ![p] = SetToSeq(OfKey(req[p].key))]
          /\ \E r \in Results : result' = [result EXCEPT ![p] = r]
      BY <1>2, <1>7 DEF DeleteObject
    <2>4. \/ UNCHANGED victims
          \/ \E s \in Seq(Uploads) : victims' = [victims EXCEPT ![p] = s]
      BY <2>2, <2>3
    <2>5. QED
      BY <1>1, <1>2, <2>3, <2>4, LocalsUpdate
  <1>8. CASE RemoveRecord(p)
    <2>1. Tail(victims[p]) \in Seq(Uploads)
      BY <1>1, <1>8, AtWork DEF RemoveRecord, CleanPcs
    <2>2. /\ UNCHANGED <<out, todo>>
          /\ pc' = [pc EXCEPT ![p] = "return"] \/ pc' = [pc EXCEPT ![p] = "removeDir"]
          /\ UNCHANGED result \/ result' = [result EXCEPT ![p] = "error"]
          /\ victims' = [victims EXCEPT ![p] = Tail(victims[p])]
      BY <1>8 DEF RemoveRecord, NextVictims, Failed
    <2>3. QED
      BY <1>1, <1>2, <2>1, <2>2, LocalsUpdate
  <1>9. CASE RemoveDir(p)
    <2>1. /\ UNCHANGED <<out, todo>>
          /\ pc' = [pc EXCEPT ![p] = "return"] \/ pc' = [pc EXCEPT ![p] = "removeRecord"]
          /\ UNCHANGED result \/ result' = [result EXCEPT ![p] = "error"]
          /\ UNCHANGED victims \/ victims' = [victims EXCEPT ![p] = <<>>]
      BY <1>9 DEF RemoveDir
    <2>2. <<>> \in Seq(Uploads)
      OBVIOUS
    <2>3. UNCHANGED victims \/ \E s \in Seq(Uploads) : victims' = [victims EXCEPT ![p] = s]
      BY <2>1, <2>2
    <2>4. QED
      BY <1>1, <1>2, <2>1, <2>3, LocalsUpdate
  <1>10. QED
    BY <1>3, <1>4, <1>5, <1>6, <1>7, <1>8, <1>9 DEF Work

(* The object, the history and the faults keep their types. *)
LEMMA WorkOtherType == ASSUME TypeOK, RequestInv, NEW p \in Procs, Work(p) PROVE OtherType'
  <1>1. OtherType /\ UNCHANGED <<req, holder, gcpc, gctodo>>
    BY TypeGroups, WorkFrame DEF gc
  <1>2. faults' \subseteq Faults
    <2>1. faults' = faults \/ \E f \in Faults : faults' = faults \cup {f}
      BY DEF Work, CreateMultipartUpload, OpenPart, WritePart, PutPart, TouchUpload, Validate,
             ConcatPart, RenameFinal, OpenFinal, Backup, UnlinkFinal, PutObjectMapping,
             AbortMultipartUpload, DeleteObject, RemoveDir, RemoveRecord, ConsumePart,
             RemoveUploadDir, RemoveUploadDirFails, DeleteUpload, DeleteUploadFails, Fault
    <2>2. QED
      BY <1>1, <2>1 DEF OtherType
  <1>3. QED
    BY <1>1, <1>2 DEF OtherType

(* ... and so do the steps of the collector, the expiry and what ends requests. *)
LEMMA CollectType == ASSUME BaseInv, Collect PROVE TypeOK'
  <1>1. UNCHANGED <<object, home, commits, holder, pc, req, result, out, todo, victims>>
    BY DEF Collect, locals
  <1>2. UploadType /\ ScratchType /\ OtherType /\ LocalsType
    BY TypeGroups DEF BaseInv
  <1>3. LocalsType'
    BY <1>1, <1>2 DEF LocalsType
  <1>4. gcpc' \in GcPcs /\ gctodo' \subseteq Uploads
    BY <1>2 DEF Collect, ReadScratchDir, ListAllUploadIDs, RemoveOrphan, Reconciled,
       ListUploadsOlderThan, SweepDir, SweepRecord, SweepDone, Collector, Unknown, GcPcs, OtherType
  <1>5. CASE UNCHANGED <<upload, scratch, undone, faults>>
    <2>1. UploadType' /\ ScratchType' /\ OtherType'
      BY <1>1, <1>2, <1>4, <1>5 DEF upload, scratch, UploadType, ScratchType, OtherType
    <2>2. QED
      BY <1>3, <2>1, TypeGroupsNext
  <1>6. ASSUME NEW u \in gctodo, Removes(u), UNCHANGED upload PROVE TypeOK'
    <2>1. u \in Uploads
      BY <1>2 DEF OtherType
    <2>2. ScratchType' /\ undone' \in [Uploads -> SUBSET {"dir", "record"}]
      BY <1>2, <1>6, <2>1, Removal
    <2>3. faults' \subseteq Faults
      BY <1>2, <1>6 DEF Removes, RemoveUploadDir, RemoveUploadDirFails, Fault, OtherType
    <2>4. UploadType' /\ OtherType'
      BY <1>1, <1>2, <1>4, <1>6, <2>2, <2>3 DEF upload, UploadType, OtherType
    <2>5. QED
      BY <1>3, <2>2, <2>4, TypeGroupsNext
  <1>7. ASSUME NEW u \in gctodo, Deletes(u), UNCHANGED scratch PROVE TypeOK'
    <2>1. u \in Uploads
      BY <1>2 DEF OtherType
    <2>2. UploadType'
      BY <1>1, <1>2, <1>7, <2>1, Deletion DEF UploadType
    <2>3. faults' \subseteq Faults
      BY <1>2, <1>7 DEF Deletes, DeleteUpload, DeleteUploadFails, Fault, OtherType
    <2>4. ScratchType' /\ OtherType'
      BY <1>1, <1>2, <1>4, <1>7, <2>3 DEF scratch, ScratchType, OtherType
    <2>5. QED
      BY <1>3, <2>2, <2>4, TypeGroupsNext
  <1>8. QED
    BY <1>5, <1>6, <1>7, CollectCases DEF BaseInv

(* Crash and Return set requests back. *)
LEMMA ClearFrame ==
  ASSUME TypeOK, NEW S \in SUBSET Procs, Clear(S)
  PROVE  /\ LocalsType' /\ req' \in [Procs -> Request \cup {None}]
         /\ holder' \in [Keys -> Procs \cup {None}]
         /\ \A p \in S : /\ pc'[p] = "idle" /\ req'[p] = None /\ result'[p] = None
                         /\ out'[p] = <<>> /\ todo'[p] = <<>> /\ victims'[p] = <<>>
         /\ \A p \in Procs \ S : /\ pc'[p] = pc[p] /\ req'[p] = req[p] /\ result'[p] = result[p]
                                 /\ out'[p] = out[p] /\ todo'[p] = todo[p]
                                 /\ victims'[p] = victims[p]
         /\ \A k \in Keys : holder'[k] = IF holder[k] \in S THEN None ELSE holder[k]
  <1>1. "idle" \in Pcs /\ <<>> \in Content /\ <<>> \in Seq(ListedPart) /\ <<>> \in Seq(Uploads)
    BY DEF Pcs, Content
  <1>2. QED
    BY <1>1 DEF Clear, TypeOK, LocalsType

(* Requests, collector, clock and crash keep the types. *)
LEMMA TypeStep == BaseInv /\ [Next]_vars => TypeOK'
  <1> SUFFICES ASSUME BaseInv, [Next]_vars PROVE TypeOK'
    OBVIOUS
  <1>1. TypeOK /\ RequestInv /\ UploadType /\ ScratchType /\ LocalsType /\ OtherType
    BY TypeGroups DEF BaseInv
  <1>2. ASSUME NEW p \in Procs, Enter(p) PROVE TypeOK'
    <2>1. PICK r \in Requests : /\ holder' = [holder EXCEPT ![r.key] = p]
                                /\ req' = [req EXCEPT ![p] = r]
                                /\ pc' = [pc EXCEPT ![p] = r.op]
      BY <1>2 DEF Enter, Goto
    <2>2. r \in Request
      BY <1>1, RequestsTyped
    <2>3. r.op \in Pcs
      BY <2>2 DEF Request, Pcs
    <2>4. OtherType'
      BY <1>1, <1>2, <2>1, <2>2 DEF Enter, OtherType, gc
    <2>5. LocalsType'
      BY <1>1, <1>2, <2>1, <2>3 DEF Enter, Goto, LocalsType
    <2>6. UploadType' /\ ScratchType'
      BY <1>1, <1>2 DEF Enter, UploadType, ScratchType, upload, scratch
    <2>7. QED
      BY <2>4, <2>5, <2>6, TypeGroupsNext
  <1>3. ASSUME NEW p \in Procs, Work(p) PROVE TypeOK'
    BY <1>1, <1>3, WorkUploadType, WorkScratchType, WorkLocalsType, WorkOtherType, TypeGroupsNext
  <1>4. ASSUME NEW p \in Procs, Return(p) PROVE TypeOK'
    <2>1. {p} \in SUBSET Procs /\ Clear({p})
      BY <1>4 DEF Return
    <2>2. /\ LocalsType' /\ req' \in [Procs -> Request \cup {None}]
          /\ holder' \in [Keys -> Procs \cup {None}]
      BY <1>1, <2>1, ClearFrame
    <2>3. UploadType' /\ ScratchType' /\ OtherType'
      BY <1>1, <1>4, <2>2 DEF Return, UploadType, ScratchType, OtherType, upload, scratch, gc
    <2>4. QED
      BY <2>2, <2>3, TypeGroupsNext
  <1>5. CASE Collect
    BY <1>5, CollectType
  <1>6. CASE Expire
    <2>1. UploadType'
      BY <1>1, <1>6 DEF Expire, UploadType, Upload
    <2>2. ScratchType' /\ LocalsType' /\ OtherType'
      BY <1>1, <1>6 DEF Expire, ScratchType, LocalsType, OtherType, scratch, locals, gc
    <2>3. QED
      BY <2>1, <2>2, TypeGroupsNext
  <1>7. CASE Crash
    <2>1. Clear(Procs) /\ UNCHANGED <<upload, scratch, home, commits, undone>>
          /\ gcpc' = "readDir" /\ gctodo' = {} /\ faults' \subseteq Faults
      BY <1>1, <1>7 DEF Crash, Fault, OtherType
    <2>2. /\ LocalsType' /\ req' \in [Procs -> Request \cup {None}]
          /\ holder' \in [Keys -> Procs \cup {None}]
      BY <1>1, <2>1, ClearFrame
    <2>3. UploadType' /\ ScratchType' /\ OtherType'
      BY <1>1, <2>1, <2>2 DEF UploadType, ScratchType, OtherType, upload, scratch, GcPcs
    <2>4. QED
      BY <2>2, <2>3, TypeGroupsNext
  <1>8. CASE UNCHANGED vars
    BY <1>1, <1>8 DEF vars, upload, scratch, locals, gc, TypeOK
  <1>9. QED
    BY <1>2, <1>3, <1>4, <1>5, <1>6, <1>7, <1>8, NextCases

(* An answer is never the absence of one. *)
LEMMA ResultsAreSome == \A r \in {"ok", "error", "notFound", "aborted"} : r # None
  BY NoneAssumption DEF Results

(* Where the step of a request leads, and what it leaves to clean up. *)
LEMMA Moves ==
  ASSUME TypeOK, RequestInv, NEW p \in Procs, Work(p)
  PROVE  /\ pc[p] = "create" => pc'[p] = "return"
         /\ pc[p] = "uploadPart" => pc'[p] \in {"writePart", "return"}
         /\ pc[p] = "writePart" => pc'[p] \in {"putPart", "return"}
         /\ pc[p] = "putPart" => pc'[p] \in {"touch", "return"}
         /\ pc[p] = "touch" => pc'[p] = "return"
         /\ pc[p] = "complete" => pc'[p] \in {"concat", "commit", "return"}
         /\ pc[p] = "concat" => pc'[p] \in {"concat", "commit", "removeDir"}
         /\ pc[p] = "commit" => pc'[p] \in {"backup", "return"}
         /\ pc[p] = "backup" => pc'[p] \in {"unlink", "return"}
         /\ pc[p] = "unlink" => pc'[p] = "map"
         /\ pc[p] \in {"map", "abort", "delete"} => pc'[p] \in {"removeDir", "return"}
         /\ pc[p] = "removeDir" =>
              pc'[p] = "removeRecord" \/ (pc'[p] = "return" /\ req[p].op = "abort")
         /\ pc[p] = "removeRecord" => pc'[p] \in {"removeDir", "return"}
         /\ pc'[p] \in CleanPcs <=> victims'[p] # <<>>
         /\ pc'[p] \in CleanPcs \cup {"return"} <=> result'[p] # None
         /\ \/ victims'[p] = victims[p]
            \/ victims'[p] = <<req[p].upload>> /\ req[p].op \in {"complete", "abort"}
            \/ victims'[p] = SetToSeq(OfKey(req[p].key)) /\ req[p].op = "delete"
            \/ victims'[p] = Tail(victims[p]) /\ victims[p] # <<>>
            \/ victims'[p] = <<>>
  <1> USE DEF At, Goto, Answer, CleanUp
  <1>1. pc \in [Procs -> Pcs] /\ victims \in [Procs -> Seq(Uploads)]
    BY DEF TypeOK
  <1>2. /\ pc[p] \in CleanPcs <=> victims[p] # <<>>
        /\ pc[p] \in CleanPcs \cup {"return"} <=> result[p] # None
        /\ result \in [Procs -> Results \cup {None}]
        /\ <<req[p].upload>> # <<>>
        /\ \A r \in {"ok", "error", "notFound", "aborted"} : r # None
    BY ResultsAreSome DEF RequestInv, TypeOK
  <1>3. CASE CreateMultipartUpload(p) \/ OpenPart(p) \/ WritePart(p) \/ PutPart(p) \/ TouchUpload(p)
    BY <1>1, <1>2, <1>3 DEF CreateMultipartUpload, OpenPart, WritePart, PutPart, TouchUpload, CleanPcs
  <1>4. CASE Validate(p) \/ OpenFinal(p) \/ Backup(p) \/ UnlinkFinal(p)
    BY <1>1, <1>2, <1>4 DEF Validate, OpenFinal, Backup, UnlinkFinal, CleanPcs
  <1>5. CASE ConcatPart(p) \/ RenameFinal(p)
    <2>1. req[p].op = "complete"
      BY <1>5 DEF ConcatPart, RenameFinal, RequestInv, CompletePcs
    <2>2. /\ pc[p] = "concat"
          /\ \/ /\ pc' = [pc EXCEPT ![p] = "removeDir"]
                /\ victims' = [victims EXCEPT ![p] = <<req[p].upload>>]
                /\ result' = [result EXCEPT ![p] = "error"]
             \/ UNCHANGED <<pc, victims, result>>
             \/ pc' = [pc EXCEPT ![p] = "commit"] /\ UNCHANGED <<victims, result>>
      BY <1>5 DEF ConcatPart, RenameFinal, GiveUp
    <2>3. CASE /\ pc' = [pc EXCEPT ![p] = "removeDir"]
               /\ victims' = [victims EXCEPT ![p] = <<req[p].upload>>]
               /\ result' = [result EXCEPT ![p] = "error"]
      BY <1>1, <1>2, <2>1, <2>2, <2>3 DEF CleanPcs
    <2>4. CASE \/ UNCHANGED <<pc, victims, result>>
               \/ pc' = [pc EXCEPT ![p] = "commit"] /\ UNCHANGED <<victims, result>>
      BY <1>1, <1>2, <2>2, <2>4 DEF CleanPcs
    <2>5. QED
      BY <2>2, <2>3, <2>4
  <1>6. CASE PutObjectMapping(p)
    <2>1. req[p].op = "complete"
      BY <1>6 DEF PutObjectMapping, RequestInv, CompletePcs, CommitPcs
    <2>2. QED
      BY <1>1, <1>2, <1>6, <2>1 DEF PutObjectMapping, CleanPcs
  <1>7. CASE AbortMultipartUpload(p)
    <2>1. req[p].op = "abort"
      BY <1>7 DEF AbortMultipartUpload, RequestInv
    <2>2. QED
      BY <1>1, <1>2, <1>7, <2>1 DEF AbortMultipartUpload, CleanPcs
  <1>8. CASE DeleteObject(p)
    <2>1. req[p].op = "delete" /\ req[p].key \in Keys
      BY <1>8, AtWork DEF DeleteObject, RequestInv
    <2>2. OfKey(req[p].key) # {} => SetToSeq(OfKey(req[p].key)) # <<>>
      BY <2>1, VictimsOfKey
    <2>3. QED
      BY <1>1, <1>2, <1>8, <2>1, <2>2 DEF DeleteObject, CleanPcs
  <1>9. CASE RemoveRecord(p)
    <2>1. /\ pc[p] = "removeRecord"
          /\ victims' = [victims EXCEPT ![p] = Tail(victims[p])]
          /\ pc' = [pc EXCEPT ![p] = IF Tail(victims[p]) = <<>> THEN "return" ELSE "removeDir"]
          /\ UNCHANGED result \/ result' = [result EXCEPT ![p] = "error"]
      BY <1>9 DEF RemoveRecord, NextVictims, Failed
    <2>2. QED
      BY <1>1, <1>2, <2>1 DEF CleanPcs
  <1>10. CASE RemoveDir(p)
    <2>1. /\ pc[p] = "removeDir"
          /\ \/ pc' = [pc EXCEPT ![p] = "removeRecord"] /\ UNCHANGED <<victims, result>>
             \/ /\ req[p].op = "abort" /\ pc' = [pc EXCEPT ![p] = "return"]
                /\ victims' = [victims EXCEPT ![p] = <<>>]
                /\ result' = [result EXCEPT ![p] = "error"]
      BY <1>10 DEF RemoveDir
    <2>2. QED
      BY <1>1, <1>2, <2>1 DEF CleanPcs
  <1>11. QED
    BY <1>3, <1>4, <1>5, <1>6, <1>7, <1>8, <1>9, <1>10 DEF Work

(* A request that works on no upload yet or any more does not hold one. *)
LEMMA EnterFrame ==
  ASSUME TypeOK, RequestInv, NEW p \in Procs, Enter(p)
  PROVE  /\ UNCHANGED <<upload, scratch, object, home, commits, undone, result, out, todo, victims,
                         gc, faults>>
         /\ pc[p] = "idle" /\ victims[p] = <<>> /\ result[p] = None
         /\ req'[p] \in Requests /\ req'[p] \in Request /\ pc'[p] = req'[p].op
         /\ req'[p].key \in Keys /\ holder[req'[p].key] = None
         /\ holder' = [holder EXCEPT ![req'[p].key] = p]
         /\ \A q \in Procs \ {p} : pc'[q] = pc[q] /\ req'[q] = req[q]
  <1>1. PICK r \in Requests : /\ Free(r.key)
                              /\ holder' = [holder EXCEPT ![r.key] = p]
                              /\ req' = [req EXCEPT ![p] = r]
                              /\ pc' = [pc EXCEPT ![p] = r.op]
    BY DEF Enter, Goto
  <1>2. r \in Request /\ r.key \in Keys
    BY <1>1, RequestsTyped DEF Request
  <1>3. req \in [Procs -> Request \cup {None}] /\ pc \in [Procs -> Pcs]
    BY DEF TypeOK
  <1>4. pc[p] = "idle" /\ victims[p] = <<>> /\ result[p] = None
    BY DEF Enter, At, RequestInv, CleanPcs
  <1>5. QED
    BY <1>1, <1>2, <1>3, <1>4 DEF Enter, Goto, Free

(* A request keeps what it asks until it is answered, so its place fits it. *)
LEMMA RequestStep == BaseInv /\ [Next]_vars => RequestInv'
  <1> SUFFICES ASSUME BaseInv, [Next]_vars, NEW q \in Procs
               PROVE  (/\ pc[q] = "idle" <=> req[q] = None
                       /\ pc[q] \in PartPcs => req[q].op = "uploadPart"
                       /\ pc[q] \in CompletePcs => req[q].op = "complete"
                       /\ pc[q] \in {"create", "abort", "delete"} => req[q].op = pc[q]
                       /\ pc[q] \in CleanPcs => req[q].op \in {"complete", "abort", "delete"}
                       /\ pc[q] \in CleanPcs <=> victims[q] # <<>>
                       /\ pc[q] \in CleanPcs \cup {"return"} <=> result[q] # None)'
    BY DEF RequestInv
  <1>1. /\ TypeOK /\ RequestInv
        /\ pc[q] = "idle" <=> req[q] = None
        /\ pc[q] \in PartPcs => req[q].op = "uploadPart"
        /\ pc[q] \in CompletePcs => req[q].op = "complete"
        /\ pc[q] \in {"create", "abort", "delete"} => req[q].op = pc[q]
        /\ pc[q] \in CleanPcs => req[q].op \in {"complete", "abort", "delete"}
        /\ pc[q] \in CleanPcs <=> victims[q] # <<>>
        /\ pc[q] \in CleanPcs \cup {"return"} <=> result[q] # None
        /\ pc[q] \in Pcs
    BY DEF BaseInv, RequestInv, TypeOK
  <1> USE DEF PartPcs, CompletePcs, CommitPcs, CleanPcs
  <1>2. CASE UNCHANGED <<pc, req, victims, result>>
    BY <1>1, <1>2
  <1>3. ASSUME NEW p \in Procs, Enter(p)
        PROVE  \/ pc'[q] = pc[q] /\ req'[q] = req[q] /\ victims'[q] = victims[q]
                  /\ result'[q] = result[q]
               \/ req'[q] \in Request /\ pc'[q] = req'[q].op /\ victims'[q] = <<>> /\ result'[q] = None
    BY <1>1, <1>3, EnterFrame
  <1>4. ASSUME NEW p \in Procs, Return(p)
        PROVE  \/ pc'[q] = pc[q] /\ req'[q] = req[q] /\ victims'[q] = victims[q]
                  /\ result'[q] = result[q]
               \/ pc'[q] = "idle" /\ req'[q] = None /\ victims'[q] = <<>> /\ result'[q] = None
    BY <1>1, <1>4, ClearFrame DEF Return
  <1>5. CASE Crash
    BY <1>1, <1>5, ClearFrame DEF Crash
  <1>6. ASSUME NEW p \in Procs, Work(p), q # p
        PROVE  pc'[q] = pc[q] /\ req'[q] = req[q] /\ victims'[q] = victims[q]
                  /\ result'[q] = result[q]
    BY <1>1, <1>6, WorkFrame
  <1>7. ASSUME Work(q)
        PROVE  (/\ pc[q] = "idle" <=> req[q] = None
                /\ pc[q] \in PartPcs => req[q].op = "uploadPart"
                /\ pc[q] \in CompletePcs => req[q].op = "complete"
                /\ pc[q] \in {"create", "abort", "delete"} => req[q].op = pc[q]
                /\ pc[q] \in CleanPcs => req[q].op \in {"complete", "abort", "delete"}
                /\ pc[q] \in CleanPcs <=> victims[q] # <<>>
                /\ pc[q] \in CleanPcs \cup {"return"} <=> result[q] # None)'
    <2>1. req' = req /\ pc[q] \notin {"idle", "return"}
      BY <1>1, <1>7, WorkFrame
    <2>2. QED
      BY <1>1, <1>7, <2>1, Moves DEF Pcs
  <1>8. ASSUME req'[q] \in Request, pc'[q] = req'[q].op
        PROVE  pc'[q] \in {"create", "uploadPart", "complete", "abort", "delete"} /\ req'[q] # None
    BY <1>8, NoneAssumption DEF Request
  <1>9. CASE Collect \/ Expire \/ UNCHANGED vars
    BY <1>2, <1>9 DEF Collect, Expire, vars, locals
  <1>10. QED
    BY <1>1, <1>3, <1>4, <1>5, <1>6, <1>7, <1>8, <1>9, NextCases

(* Only the holder gives a lock back, and only after its answer. *)
LEMMA LockStep == BaseInv /\ [Next]_vars => LockInv'
  <1> SUFFICES ASSUME BaseInv, [Next]_vars, NEW q \in Procs
               PROVE  (pc[q] # "idle" => holder[req[q].key] = q)'
    BY DEF LockInv
  <1>1. /\ TypeOK /\ RequestInv
        /\ pc[q] # "idle" => holder[req[q].key] = q /\ req[q].key \in Keys
        /\ q # None
    BY RequestFields, NoneAssumption DEF BaseInv, RequestInv, LockInv
  <1>2. ASSUME NEW p \in Procs, Enter(p) PROVE (pc[q] # "idle" => holder[req[q].key] = q)'
    <2>1. holder \in [Keys -> Procs \cup {None}]
      BY <1>1 DEF TypeOK
    <2>2. QED
      BY <1>1, <1>2, <2>1, EnterFrame
  <1>3. ASSUME NEW p \in Procs, Work(p) PROVE (pc[q] # "idle" => holder[req[q].key] = q)'
    BY <1>1, <1>3, WorkFrame
  <1>4. ASSUME NEW p \in Procs, Return(p) PROVE (pc[q] # "idle" => holder[req[q].key] = q)'
    <2>1. {p} \in SUBSET Procs /\ Clear({p})
      BY <1>4 DEF Return
    <2>2. QED
      BY <1>1, <2>1, ClearFrame
  <1>5. CASE Crash
    BY <1>1, <1>5, ClearFrame DEF Crash
  <1>6. CASE Collect \/ Expire \/ UNCHANGED vars
    BY <1>1, <1>6 DEF Collect, Expire, vars, locals
  <1>7. QED
    BY <1>2, <1>3, <1>4, <1>5, <1>6, NextCases

(* What one upload keeps. *)
Kept(v) == /\ record'[v] = record[v] /\ parts'[v] = parts[v]
           /\ dir'[v] = dir[v] /\ file'[v] = file[v]
           /\ partial'[v] = partial[v] /\ final'[v] = final[v]
           /\ home'[v] = home[v] /\ commits'[v] = commits[v] /\ undone'[v] = undone[v]

(* The step of a request leaves the uploads alone that it does not work on. *)
LEMMA WorkKeeps ==
  ASSUME TypeOK, RequestInv, NEW p \in Procs, Work(p), NEW v \in Uploads,
         ~ Works(p, v), ~ (pc[p] = "create" /\ req[p].upload = v)
  PROVE  Kept(v)
  <1> USE DEF At, Kept
  <1>1. UploadType /\ ScratchType /\ pc[p] \notin {"idle", "return"}
    BY TypeGroups, WorkFrame
  <1>2. \A i \in DOMAIN victims[p] : victims[p][i] # v
    BY DEF Works
  <1>3. pc[p] \in {"uploadPart", "writePart", "putPart", "touch", "complete", "concat", "commit",
                   "backup", "unlink", "map", "abort"} => req[p].upload # v
    BY <1>1 DEF Works, RequestInv, PartPcs, CompletePcs, CommitPcs
  <1>4. CASE CreateMultipartUpload(p)
    BY <1>1, <1>4 DEF CreateMultipartUpload, scratch, UploadType
  <1>5. CASE OpenPart(p) \/ PutPart(p) \/ WritePart(p)
    BY <1>1, <1>3, <1>5 DEF OpenPart, PutPart, WritePart, upload, scratch, UploadType, ScratchType
  <1>6. CASE TouchUpload(p) \/ OpenFinal(p) \/ Backup(p) \/ UnlinkFinal(p) \/ PutObjectMapping(p)
    BY <1>1, <1>3, <1>6 DEF TouchUpload, OpenFinal, Backup, UnlinkFinal, PutObjectMapping, upload,
       scratch, UploadType, ScratchType
  <1>7. CASE Validate(p) \/ ConcatPart(p) \/ RenameFinal(p)
    BY <1>1, <1>3, <1>7 DEF Validate, ConcatPart, ConsumePart, RenameFinal, upload, UploadType, ScratchType
  <1>8. CASE AbortMultipartUpload(p) \/ DeleteObject(p)
    BY <1>8 DEF AbortMultipartUpload, DeleteObject, upload, scratch
  <1>9. CASE RemoveDir(p) \/ RemoveRecord(p)
    <2>1. Head(victims[p]) # v
      <3>1. victims[p] # <<>> /\ victims[p] \in Seq(Uploads)
        BY <1>9, AtWork DEF RemoveDir, RemoveRecord, CleanPcs, TypeOK
      <3>2. Head(victims[p]) = victims[p][1] /\ 1 \in DOMAIN victims[p]
        BY <3>1
      <3>3. QED
        BY <1>2, <3>2
    <2>2. Head(victims[p]) \in Uploads
      BY <1>9, AtWork DEF RemoveDir, RemoveRecord, CleanPcs
    <2>3. CASE RemoveDir(p)
      BY <1>1, <2>1, <2>2, <2>3, RemoveDirs, Removal DEF RemoveDir, SameScratch, upload
    <2>4. CASE RemoveRecord(p)
      BY <1>1, <2>1, <2>2, <2>4, RemoveRecords, Deletion DEF RemoveRecord, SameUpload, scratch
    <2>5. QED
      BY <1>9, <2>3, <2>4
  <1>10. QED
    BY <1>4, <1>5, <1>6, <1>7, <1>8, <1>9 DEF Work

(* Only CreateMultipartUpload makes records; RemoveRecord alone removes them. *)
LEMMA WorkRecords ==
  ASSUME TypeOK, RequestInv, NEW p \in Procs, Work(p), NEW u \in Uploads
  PROVE  /\ pc[p] = "create" => CreateMultipartUpload(p)
         /\ pc[p] # "create" =>
              /\ home' = home
              /\ record'[u] # None => record[u] # None /\ record'[u].key = record[u].key
              /\ pc[p] # "removeRecord" => (record[u] # None => record'[u] # None)
  <1> USE DEF At
  <1>1. record \in [Uploads -> Upload \cup {None}]
    BY DEF TypeOK
  <1>2. CASE CreateMultipartUpload(p)
    BY <1>2 DEF CreateMultipartUpload
  <1>3. CASE TouchUpload(p)
    <2>1. pc[p] = "touch" /\ home' = home /\ req[p].upload \in Uploads
      BY <1>3, AtWork DEF TouchUpload, CleanPcs
    <2>2. \/ record' = record
          \/ record[req[p].upload] # None /\ record' = [record EXCEPT ![req[p].upload].stale = FALSE]
      BY <1>3 DEF TouchUpload, Missing
    <2>3. \A x \in Upload : [x EXCEPT !.stale = FALSE] \in Upload /\ [x EXCEPT !.stale = FALSE].key = x.key
      BY DEF Upload
    <2>4. /\ record'[u] # None => record[u] # None /\ record'[u].key = record[u].key
          /\ record[u] # None => record'[u] # None
      <3>1. CASE record' = record
        BY <3>1
      <3>2. CASE /\ record[req[p].upload] # None
                 /\ record' = [record EXCEPT ![req[p].upload].stale = FALSE]
        <4> DEFINE r == [record[req[p].upload] EXCEPT !.stale = FALSE]
        <4>1. r \in Upload /\ r.key = record[req[p].upload].key
          BY <1>1, <2>1, <2>3, <3>2
        <4>2. record' = [record EXCEPT ![req[p].upload] = r]
          BY <3>2
        <4> HIDE DEF r
        <4>3. QED
          BY <1>1, <2>1, <3>2, <4>1, <4>2, NoneAssumption
      <3>3. QED
        BY <2>2, <3>1, <3>2
    <2>5. QED
      BY <2>1, <2>4
  <1>4. CASE RemoveRecord(p)
    <2>1. /\ Head(victims[p]) \in Uploads /\ Deletes(Head(victims[p])) /\ UploadType
          /\ pc[p] = "removeRecord" /\ home' = home
      BY <1>4, AtWork, RemoveRecords, TypeGroups DEF CleanPcs, RemoveRecord
    <2>2. record'[u] = record[u] \/ record'[u] = None
      BY <2>1, Deletion DEF SameUpload
    <2>3. QED
      BY <2>1, <2>2
  <1>5. CASE OpenPart(p) \/ PutPart(p) \/ WritePart(p) \/ Validate(p) \/ ConcatPart(p) \/ RenameFinal(p)
    BY <1>5 DEF OpenPart, PutPart, WritePart, Validate, ConcatPart, RenameFinal, upload
  <1>6. CASE OpenFinal(p) \/ Backup(p) \/ UnlinkFinal(p) \/ PutObjectMapping(p)
    BY <1>6 DEF OpenFinal, Backup, UnlinkFinal, PutObjectMapping, upload
  <1>7. CASE AbortMultipartUpload(p) \/ DeleteObject(p) \/ RemoveDir(p)
    BY <1>7 DEF AbortMultipartUpload, DeleteObject, RemoveDir, upload
  <1>8. QED
    BY <1>2, <1>3, <1>4, <1>5, <1>6, <1>7 DEF Work

(* What the expiry of the TTL does to a record. *)
LEMMA ExpireFrame ==
  ASSUME TypeOK, Expire
  PROVE  /\ UNCHANGED <<parts, scratch, object, home, commits, undone, holder, locals, gc, faults>>
         /\ \A u \in Uploads : /\ record'[u] = None <=> record[u] = None
                               /\ record'[u] # None => record'[u].key = record[u].key
  <1>1. record \in [Uploads -> Upload \cup {None}]
    BY DEF TypeOK
  <1>2. PICK u \in Uploads : record[u] # None /\ record' = [record EXCEPT ![u].stale = TRUE]
    BY DEF Expire
  <1>3. \A x \in Upload : [x EXCEPT !.stale = TRUE] \in Upload /\ [x EXCEPT !.stale = TRUE].key = x.key
    BY DEF Upload
  <1>4. QED
    BY <1>1, <1>2, <1>3, NoneAssumption DEF Expire

(* The collector removes directories and records, and touches nothing else. *)
LEMMA CollectFrame ==
  ASSUME TypeOK, GcInv, Collect
  PROVE  /\ UNCHANGED <<object, home, commits, holder, locals>>
         /\ \A v \in Uploads :
              /\ \/ SameUpload(v)
                 \/ gcpc = "sweepRecord" /\ record'[v] = None /\ parts'[v] = NoFiles
              /\ \/ SameScratch(v)
                 \/ /\ gcpc = "sweep" \/ (gcpc = "reconcile" /\ v \in gctodo)
                    /\ Shrinks(v)
              /\ "dir" \in undone[v] /\ dir'[v] => "dir" \in undone'[v]
              /\ gcpc = "sweepRecord" \/ ("record" \in undone'[v] <=> "record" \in undone[v])
              /\ undone[v] = {} /\ ~ dir[v] /\ record[v] = None => undone'[v] = {}
  <1>1. UploadType /\ ScratchType /\ gctodo \subseteq Uploads
    BY TypeGroups DEF TypeOK
  <1>2. UNCHANGED <<object, home, commits, holder, locals>>
    BY DEF Collect
  <1>3. CASE UNCHANGED <<upload, scratch, undone, faults>>
    BY <1>2, <1>3 DEF upload, scratch, SameUpload, SameScratch
  <1>4. ASSUME NEW u \in gctodo, gcpc \in {"reconcile", "sweep"}, Removes(u), UNCHANGED upload,
               NEW v \in Uploads
        PROVE  /\ SameUpload(v)
               /\ \/ SameScratch(v)
                  \/ /\ gcpc = "sweep" \/ (gcpc = "reconcile" /\ v \in gctodo)
                     /\ Shrinks(v)
               /\ "dir" \in undone[v] /\ dir'[v] => "dir" \in undone'[v]
               /\ "record" \in undone'[v] <=> "record" \in undone[v]
               /\ undone[v] = {} /\ ~ dir[v] => undone'[v] = {}
    <2>1. u \in Uploads
      BY <1>1
    <2>2. CASE v # u
      BY <1>1, <1>4, <2>1, <2>2, Removal DEF upload, SameUpload
    <2>3. CASE v = u
      <3>1. /\ Shrinks(u)
            /\ \/ ~ dir'[u] /\ undone'[u] = undone[u] \ {"dir"}
               \/ dir[u] /\ dir'[u] /\ undone'[u] = undone[u] \cup {"dir"}
        BY <1>1, <1>4, <2>1, Removal
      <3>2. QED
        BY <1>4, <2>3, <3>1 DEF upload, SameUpload
    <2>4. QED
      BY <2>2, <2>3
  <1>5. ASSUME NEW u \in gctodo, gcpc = "sweepRecord", Deletes(u), UNCHANGED scratch,
               NEW v \in Uploads
        PROVE  /\ SameUpload(v) \/ (record'[v] = None /\ parts'[v] = NoFiles)
               /\ SameScratch(v)
               /\ "dir" \in undone[v] => "dir" \in undone'[v]
               /\ undone[v] = {} /\ record[v] = None => undone'[v] = {}
    <2>1. u \in Uploads /\ SameScratch(v)
      BY <1>1, <1>5 DEF scratch, SameScratch
    <2>2. CASE v # u
      BY <1>1, <1>5, <2>1, <2>2, Deletion
    <2>3. CASE v = u
      <3>1. \/ /\ record'[u] = None
               /\ parts'[u] = IF record[u] = None THEN parts[u] ELSE NoFiles
               /\ undone'[u] = undone[u] \ {"record"}
            \/ SameUpload(u) /\ record[u] # None /\ undone'[u] = undone[u] \cup {"record"}
        BY <1>1, <1>5, <2>1, Deletion
      <3>2. QED
        BY <2>1, <2>3, <3>1 DEF SameUpload
    <2>4. QED
      BY <2>2, <2>3
  <1>6. QED
    BY <1>2, <1>3, <1>4, <1>5, CollectCases

(* The uploads a request works on after its step are those before, or the *)
(* ones DeleteObject has found.                                           *)
LEMMA WorksStep ==
  ASSUME BaseInv, NEW p \in Procs, Work(p), NEW q \in Procs, NEW u \in Uploads, Works(q, u)'
  PROVE  Works(q, u) \/ (q = p /\ record[u] # None /\ record[u].key = req[p].key)
  <1>1. /\ TypeOK /\ RequestInv /\ req' = req /\ pc[p] \notin {"idle", "return"}
        /\ victims[p] \in Seq(Uploads)
    BY WorkFrame DEF BaseInv, TypeOK
  <1>2. CASE q # p
    BY <1>1, <1>2, WorkFrame DEF Works
  <1>3. CASE pc'[q] # "idle" /\ req'[q].op \in {"uploadPart", "complete", "abort"} /\ u = req'[q].upload
    BY <1>1, <1>2, <1>3 DEF Works
  <1>4. ASSUME q = p, NEW i \in DOMAIN victims'[p], u = victims'[p][i]
        PROVE  Works(q, u) \/ (record[u] # None /\ record[u].key = req[p].key)
    <2>1. CASE victims'[p] = victims[p]
      BY <1>4, <2>1 DEF Works
    <2>2. CASE victims'[p] = <<req[p].upload>> /\ req[p].op \in {"complete", "abort"}
      <3>1. u = req[p].upload
        BY <1>4, <2>2
      <3>2. QED
        BY <1>1, <1>4, <2>2, <3>1 DEF Works
    <2>3. CASE victims'[p] = SetToSeq(OfKey(req[p].key)) /\ req[p].op = "delete"
      <3>1. req[p].key \in Keys
        BY <1>1, AtWork
      <3>2. u \in OfKey(req[p].key)
        BY <1>4, <2>3, <3>1, VictimsOfKey
      <3>3. QED
        BY <3>2 DEF OfKey
    <2>4. CASE victims'[p] = Tail(victims[p]) /\ victims[p] # <<>>
      <3>1. i + 1 \in DOMAIN victims[p] /\ Tail(victims[p])[i] = victims[p][i + 1]
        BY <1>1, <1>4, <2>4
      <3>2. QED
        BY <1>4, <2>4, <3>1 DEF Works
    <2>5. CASE victims'[p] = <<>>
      BY <1>4, <2>5
    <2>6. QED
      BY <1>1, <2>1, <2>2, <2>3, <2>4, <2>5, Moves
  <1>5. QED
    BY <1>2, <1>3, <1>4 DEF Works

(* A request creates only a whole upload under an unused ID, and keeps to the one it found. *)
LEMMA HomeWork ==
  ASSUME BaseInv, NEW p \in Procs, Work(p), NEW u \in Uploads
  PROVE  (/\ home[u] = None => /\ record[u] = None /\ parts[u] = NoFiles /\ ~ dir[u]
                               /\ commits[u] = 0 /\ undone[u] = {}
          /\ record[u] # None => record[u].key = home[u]
          /\ \A q \in Procs : Works(q, u) => Found(q, u))'
  <1>1. /\ TypeOK /\ RequestInv /\ req' = req
        /\ home[u] = None => /\ record[u] = None /\ parts[u] = NoFiles /\ ~ dir[u]
                             /\ commits[u] = 0 /\ undone[u] = {}
        /\ record[u] # None => record[u].key = home[u]
        /\ \A q \in Procs : Works(q, u) => Found(q, u)
        /\ pc[p] = "create" => home[req[p].upload] = None
    BY WorkFrame DEF BaseInv, HomeInv, CreateInv
  <1>2. \A q \in Procs : Works(q, u)' => Found(q, u)
    BY <1>1, WorksStep DEF Found
  <1>3. CASE pc[p] = "create" /\ req[p].upload = u
    <2>1. CreateMultipartUpload(p) /\ req[p].key \in Keys /\ req[p].key # None
      BY <1>1, <1>3, WorkRecords, AtWork, NoneAssumption DEF CreateMultipartUpload, At
    <2>2. /\ UNCHANGED <<parts, dir, commits, undone>>
          /\ \/ record'[u].key = req[p].key /\ home'[u] = req[p].key
             \/ UNCHANGED <<record, home>>
      BY <1>1, <1>3, <2>1 DEF CreateMultipartUpload, scratch, TypeOK
    <2>3. QED
      BY <1>1, <1>2, <1>3, <2>1, <2>2 DEF Found
  <1>4. CASE ~ (pc[p] = "create" /\ req[p].upload = u) /\ ~ Works(p, u)
    BY <1>1, <1>2, <1>4, WorkKeeps DEF Kept, Found
  <1>5. CASE Works(p, u)
    <2>1. home[u] # None
      BY <1>1, <1>5 DEF Found
    <2>2. home'[u] = home[u]
      <3>1. CASE pc[p] # "create"
        BY <1>1, <3>1, WorkRecords
      <3>2. CASE pc[p] = "create"
        <4>1. req[p].upload # u /\ CreateMultipartUpload(p)
          BY <1>1, <2>1, <3>2, WorkRecords
        <4>2. QED
          BY <1>1, <4>1 DEF CreateMultipartUpload, TypeOK
      <3>3. QED
        BY <3>1, <3>2
    <2>3. record'[u] # None => record'[u].key = home[u]
      <3>1. CASE pc[p] # "create"
        BY <1>1, <3>1, WorkRecords
      <3>2. CASE pc[p] = "create"
        <4>1. req[p].upload # u /\ CreateMultipartUpload(p)
          BY <1>1, <2>1, <3>2, WorkRecords
        <4>2. record'[u] = record[u]
          BY <1>1, <4>1 DEF CreateMultipartUpload, TypeOK
        <4>3. QED
          BY <1>1, <4>2
      <3>3. QED
        BY <3>1, <3>2
    <2>4. QED
      BY <1>1, <1>2, <2>1, <2>2, <2>3 DEF Found
  <1>6. QED
    BY <1>3, <1>4, <1>5

(* An upload keeps the key it was created for. *)
LEMMA HomeStep == BaseInv /\ [Next]_vars => HomeInv'
  <1> SUFFICES ASSUME BaseInv, [Next]_vars, NEW u \in Uploads
               PROVE  (/\ home[u] = None => /\ record[u] = None /\ parts[u] = NoFiles /\ ~ dir[u]
                                            /\ commits[u] = 0 /\ undone[u] = {}
                       /\ record[u] # None => record[u].key = home[u]
                       /\ \A q \in Procs : Works(q, u) => Found(q, u))'
    BY DEF HomeInv
  <1>1. /\ TypeOK /\ RequestInv /\ GcInv
        /\ home[u] = None => /\ record[u] = None /\ parts[u] = NoFiles /\ ~ dir[u]
                             /\ commits[u] = 0 /\ undone[u] = {}
        /\ record[u] # None => record[u].key = home[u]
        /\ \A q \in Procs : Works(q, u) => Found(q, u)
    BY DEF BaseInv, HomeInv
  <1>2. ASSUME NEW p \in Procs, Enter(p), NEW q \in Procs, Works(q, u)' PROVE Found(q, u)'
    <2>1. /\ UNCHANGED <<home, victims>> /\ req'[p] \in Requests /\ victims[p] = <<>>
          /\ \A r \in Procs \ {p} : pc'[r] = pc[r] /\ req'[r] = req[r]
      BY <1>1, <1>2, EnterFrame
    <2>2. CASE q # p
      <3>1. Works(q, u)
        BY <1>2, <2>1, <2>2 DEF Works
      <3>2. QED
        BY <1>1, <2>1, <2>2, <3>1 DEF Found
    <2>3. CASE q = p
      <3>1. req'[p].op \in {"uploadPart", "complete", "abort"} /\ u = req'[p].upload
        BY <1>2, <2>1, <2>3 DEF Works
      <3>2. PICK v \in Opened : req'[p] \in RequestsFor(v)
        BY <2>1, <3>1 DEF Requests
      <3>3. u = v /\ req'[p].key \in KeysFor(v)
        BY <3>1, <3>2 DEF RequestsFor
      <3>4. QED
        BY <2>1, <2>3, <3>2, <3>3 DEF KeysFor, Opened, Found
    <2>4. QED
      BY <2>2, <2>3
  <1>3. ASSUME NEW p \in Procs, Return(p), NEW q \in Procs, Works(q, u)' PROVE Found(q, u)'
    <2>1. {p} \in SUBSET Procs /\ Clear({p}) /\ home' = home
      BY <1>3 DEF Return
    <2>2. q # p /\ pc'[q] = pc[q] /\ req'[q] = req[q] /\ victims'[q] = victims[q]
      BY <1>1, <1>3, <2>1, ClearFrame DEF Works
    <2>3. QED
      BY <1>1, <1>3, <2>1, <2>2 DEF Works, Found
  <1>4. CASE Crash
    <2>1. \A q \in Procs : ~ Works(q, u)'
      BY <1>1, <1>4, ClearFrame DEF Crash, Works
    <2>2. QED
      BY <1>1, <1>4, <2>1 DEF Crash, upload, scratch
  <1>5. CASE Collect
    <2>1. UNCHANGED <<home, commits, pc, req, victims>>
      BY <1>1, <1>5, CollectFrame DEF locals
    <2>2. /\ SameUpload(u) \/ (record'[u] = None /\ parts'[u] = NoFiles)
          /\ dir'[u] => dir[u]
          /\ undone[u] = {} /\ ~ dir[u] /\ record[u] = None => undone'[u] = {}
      BY <1>1, <1>5, CollectFrame DEF SameScratch, Shrinks
    <2>3. QED
      BY <1>1, <2>1, <2>2 DEF Works, Found, SameUpload
  <1>6. CASE Expire
    BY <1>1, <1>6, ExpireFrame DEF Works, Found, scratch, locals
  <1>7. CASE UNCHANGED vars
    BY <1>1, <1>7 DEF Works, Found, vars, upload, scratch, locals
  <1>8. ASSUME NEW p \in Procs, Enter(p) \/ Return(p)
        PROVE  UNCHANGED <<home, record, parts, dir, commits, undone>>
    BY <1>8 DEF Enter, Return, upload, scratch
  <1>9. QED
    BY <1>1, <1>2, <1>3, <1>4, <1>5, <1>6, <1>7, <1>8, HomeWork, NextCases

(* Two requests never create one upload: newUploadID's IDs are new. *)
LEMMA CreateStep == BaseInv /\ [Next]_vars => CreateInv'
  <1> SUFFICES ASSUME BaseInv, [Next]_vars PROVE CreateInv'
    OBVIOUS
  <1>1. TypeOK /\ RequestInv /\ CreateInv /\ GcInv
    BY DEF BaseInv
  <1>2. ASSUME NEW p \in Procs, Enter(p) PROVE CreateInv'
    <2>1. /\ home' = home /\ pc[p] = "idle" /\ req'[p] \in Requests /\ pc'[p] = req'[p].op
          /\ \A q \in Procs \ {p} : pc'[q] = pc[q] /\ req'[q] = req[q]
      BY <1>1, <1>2, EnterFrame
    <2>2. req'[p].op = "create" => req'[p].upload \in Unused
      <3>1. ASSUME NEW u \in Opened, req'[p] \in RequestsFor(u) PROVE req'[p].op # "create"
        BY <3>1 DEF RequestsFor
      <3>2. QED
        BY <2>1, <3>1 DEF Requests
    <2>3. req'[p].op = "create" =>
            /\ home[req'[p].upload] = None
            /\ \A q \in Procs : Creates(q) => req[q].upload # req'[p].upload
      BY <1>1, <2>2 DEF Unused, Opened, Creates, RequestInv
    <2>4. \A q \in Procs \ {p} : Creates(q)' => Creates(q)
      BY <2>1 DEF Creates
    <2>5. QED
      BY <1>1, <2>1, <2>3, <2>4 DEF CreateInv, Creates
  <1>3. ASSUME NEW p \in Procs, Work(p) PROVE CreateInv'
    <2>1. /\ req' = req /\ pc[p] \notin {"idle", "return"}
          /\ \A q \in Procs \ {p} : pc'[q] = pc[q]
          /\ pc'[p] # "create"
      BY <1>1, <1>3, WorkFrame, Moves DEF TypeOK, Pcs
    <2>2. \A q \in Procs : Creates(q)' => Creates(q)
      BY <2>1 DEF Creates
    <2>3. ASSUME NEW q \in Procs, pc'[q] = "create" PROVE home'[req[q].upload] = None
      <3>1. q # p /\ pc[q] = "create" /\ home[req[q].upload] = None /\ Creates(q)
        BY <1>1, <2>1, <2>3 DEF CreateInv, Creates, RequestInv
      <3>2. CASE pc[p] # "create"
        BY <1>1, <1>3, <3>1, <3>2, WorkRecords, AtWork DEF CleanPcs
      <3>3. CASE pc[p] = "create"
        <4>1. CreateMultipartUpload(p) /\ req[p].upload # req[q].upload
          BY <1>1, <1>3, <3>1, <3>3, WorkRecords, AtWork DEF CreateInv, Creates, RequestInv, CleanPcs
        <4>2. req[q].upload \in Uploads
          BY <1>1, <3>1, AtWork DEF CleanPcs
        <4>3. QED
          BY <1>1, <3>1, <4>1, <4>2 DEF CreateMultipartUpload, TypeOK
      <3>4. QED
        BY <3>2, <3>3
    <2>4. QED
      BY <1>1, <2>1, <2>2, <2>3 DEF CreateInv, Creates
  <1>4. ASSUME NEW S \in SUBSET Procs, Clear(S), home' = home PROVE CreateInv'
    BY <1>1, <1>4, ClearFrame DEF CreateInv, Creates
  <1>5. ASSUME NEW p \in Procs, Return(p) PROVE CreateInv'
    <2>1. {p} \in SUBSET Procs /\ Clear({p}) /\ home' = home
      BY <1>5 DEF Return
    <2>2. QED
      BY <1>4, <2>1
  <1>6. CASE Crash
    BY <1>4, <1>6 DEF Crash
  <1>7. CASE Collect \/ Expire \/ UNCHANGED vars
    BY <1>1, <1>7 DEF Collect, Expire, vars, locals, CreateInv, Creates
  <1>8. QED
    BY <1>2, <1>3, <1>5, <1>6, <1>7, NextCases

(* Records come only with upload IDs that were unused. *)
LEMMA NoneComesBack ==
  ASSUME BaseInv, [Next]_vars, NEW u \in Uploads, home[u] # None
  PROVE  home'[u] # None /\ (record[u] = None => record'[u] = None)
  <1>1. TypeOK /\ RequestInv /\ CreateInv /\ GcInv
    BY DEF BaseInv
  <1>2. ASSUME NEW p \in Procs, Work(p)
        PROVE  home'[u] # None /\ (record[u] = None => record'[u] = None)
    <2>1. CASE pc[p] # "create"
      BY <1>1, <1>2, <2>1, WorkRecords
    <2>2. CASE pc[p] = "create"
      <3>1. home[req[p].upload] = None /\ CreateMultipartUpload(p)
        BY <1>1, <1>2, <2>2, WorkRecords DEF CreateInv
      <3>2. \/ UNCHANGED <<record, home>>
            \/ \E x, y : /\ record' = [record EXCEPT ![req[p].upload] = x]
                         /\ home' = [home EXCEPT ![req[p].upload] = y]
        BY <3>1 DEF CreateMultipartUpload
      <3>3. QED
        BY <1>1, <3>1, <3>2 DEF TypeOK
    <2>3. QED
      BY <2>1, <2>2
  <1>3. CASE Collect
    BY <1>1, <1>3, CollectFrame DEF SameUpload
  <1>4. CASE Expire
    BY <1>1, <1>4, ExpireFrame
  <1>5. CASE UNCHANGED <<home, record>>
    BY <1>5
  <1>6. ASSUME NEW p \in Procs, Enter(p) \/ Return(p) PROVE UNCHANGED <<home, record>>
    BY <1>6 DEF Enter, Return, upload
  <1>7. QED
    BY <1>2, <1>3, <1>4, <1>5, <1>6, NextCases DEF Crash, vars, upload

(* What reconciliation has listed stays without a record until it has been removed. *)
LEMMA GcStep == BaseInv /\ [Next]_vars => GcInv'
  <1> SUFFICES ASSUME BaseInv, [Next]_vars PROVE GcInv'
    OBVIOUS
  <1>1. TypeOK /\ RequestInv /\ HomeInv /\ GcInv /\ gctodo \subseteq Uploads
    BY DEF BaseInv, TypeOK
  <1>2. CASE UNCHANGED gc
    BY <1>1, <1>2, NoneComesBack DEF GcInv, gc
  <1>3. CASE Collect
    <2>1. home' = home
      BY <1>3 DEF Collect
    <2>2. CASE ReadScratchDir
      BY <1>1, <2>1, <2>2 DEF ReadScratchDir, Collector, GcInv, HomeInv
    <2>3. CASE ListAllUploadIDs
      BY <1>1, <2>1, <2>3 DEF ListAllUploadIDs, Collector, GcInv, Unknown, upload
    <2>4. CASE RemoveOrphan \/ Reconciled
      BY <1>1, <2>1, <2>4 DEF RemoveOrphan, Reconciled, Collector, GcInv, upload
    <2>5. CASE ListUploadsOlderThan \/ SweepDir \/ SweepRecord \/ SweepDone
      BY <1>1, <2>5 DEF ListUploadsOlderThan, SweepDir, SweepRecord, SweepDone, Collector, GcInv
    <2>6. QED
      BY <1>3, <2>2, <2>3, <2>4, <2>5 DEF Collect
  <1>4. CASE Crash
    BY <1>4 DEF Crash, GcInv
  <1>5. ASSUME NEW p \in Procs, Enter(p) \/ Work(p) \/ Return(p) PROVE UNCHANGED gc
    BY <1>1, <1>5, WorkFrame DEF Enter, Return
  <1>6. QED
    BY <1>2, <1>3, <1>4, <1>5, NextCases DEF Expire, vars

(* Part files and final.img are inside the upload's directory. *)
LEMMA ScratchStep == BaseInv /\ [Next]_vars => ScratchInv'
  <1> SUFFICES ASSUME BaseInv, [Next]_vars, NEW v \in Uploads
               PROVE  (~ dir[v] => file[v] = NoFiles /\ ~ partial[v] /\ final[v] = None)'
    BY DEF ScratchInv
  <1>1. /\ TypeOK /\ RequestInv /\ GcInv /\ UploadType /\ ScratchType
        /\ ~ dir[v] => file[v] = NoFiles /\ ~ partial[v] /\ final[v] = None
        /\ NoFiles' = NoFiles
    BY TypeGroups DEF BaseInv, ScratchInv, NoFiles
  <1>2. CASE UNCHANGED <<dir, file, partial, final>>
    BY <1>1, <1>2
  <1>3. CASE Collect
    BY <1>1, <1>3, CollectFrame DEF SameScratch, Shrinks
  <1>4. ASSUME NEW p \in Procs, Work(p)
        PROVE  ~ dir'[v] => file'[v] = NoFiles /\ ~ partial'[v] /\ final'[v] = None
    <2> USE DEF At
    <2>1. pc[p] \notin {"idle", "return"}
      BY <1>1, <1>4, WorkFrame
    <2>2. CASE WritePart(p)
      <3>1. req[p].upload \in Uploads /\ req[p].part \in PartNumbers
        BY <1>1, <2>1, <2>2, AtWork DEF WritePart, CleanPcs, PartPcs
      <3>2. /\ UNCHANGED <<dir, partial, final>>
            /\ \E x : file' = [file EXCEPT ![req[p].upload][req[p].part] =
                                 IF file[req[p].upload][req[p].part] = None THEN None ELSE x]
        BY <2>2 DEF WritePart
      <3>3. file[v] = NoFiles => file'[v] = NoFiles
        BY <1>1, <3>1, <3>2 DEF ScratchType, NoFiles
      <3>4. QED
        BY <1>1, <3>2, <3>3
    <2>3. CASE OpenPart(p)
      <3>1. req[p].upload \in Uploads
        BY <1>1, <2>1, <2>3, AtWork DEF OpenPart, CleanPcs
      <3>2. QED
        BY <1>1, <2>3, <3>1 DEF OpenPart, ScratchType
    <2>4. CASE ConcatPart(p)
      <3>1. req[p].upload \in Uploads
        BY <1>1, <2>1, <2>4, AtWork DEF ConcatPart, CleanPcs
      <3>2. todo[p] \in Seq(ListedPart) /\ todo[p] # <<>>
        BY <1>1, <2>4 DEF ConcatPart, TypeOK
      <3>3. Head(todo[p]).number \in PartNumbers
        <4>1. Head(todo[p]) \in ListedPart
          BY <3>2
        <4>2. QED
          BY <4>1 DEF ListedPart
      <3>4. /\ UNCHANGED <<dir, final>>
            /\ partial' = partial \/ partial' = [partial EXCEPT ![req[p].upload] = FALSE]
            /\ \/ file' = file
               \/ file' = [file EXCEPT ![req[p].upload][Head(todo[p]).number] = None]
        BY <2>4 DEF ConcatPart, ConsumePart
      <3>5. file[v] = NoFiles => file'[v] = NoFiles
        BY <1>1, <3>1, <3>3, <3>4 DEF ScratchType, NoFiles
      <3>6. QED
        BY <1>1, <3>1, <3>4, <3>5 DEF ScratchType
    <2>5. CASE Validate(p) \/ RenameFinal(p) \/ UnlinkFinal(p)
      <3>1. req[p].upload \in Uploads
        BY <1>1, <2>1, <2>5, AtWork DEF Validate, RenameFinal, UnlinkFinal, CleanPcs
      <3>2. QED
        BY <1>1, <2>5, <3>1 DEF Validate, RenameFinal, UnlinkFinal, ScratchType
    <2>6. CASE RemoveDir(p)
      <3>1. Head(victims[p]) \in Uploads
        BY <1>1, <2>1, <2>6, AtWork DEF RemoveDir, CleanPcs
      <3>2. QED
        BY <1>1, <2>6, <3>1, RemoveDirs, Removal DEF SameScratch, Shrinks
    <2>7. CASE UNCHANGED scratch
      BY <1>1, <2>7 DEF scratch
    <2>8. QED
      BY <1>4, <2>2, <2>3, <2>4, <2>5, <2>6, <2>7 DEF Work, CreateMultipartUpload, PutPart,
         TouchUpload, OpenFinal, Backup, PutObjectMapping, AbortMultipartUpload, DeleteObject,
         RemoveRecord
  <1>5. ASSUME NEW p \in Procs, Enter(p) \/ Return(p) PROVE UNCHANGED scratch
    BY <1>5 DEF Enter, Return
  <1>6. QED
    BY <1>1, <1>2, <1>3, <1>4, <1>5, NextCases DEF Crash, Expire, vars, scratch

(* A fault is never taken back. *)
LEMMA FaultsGrow == ASSUME [Next]_vars PROVE faults \subseteq faults'
  <1>1. ASSUME NEW p \in Procs, Work(p) PROVE faults \subseteq faults'
    BY <1>1 DEF Work, CreateMultipartUpload, OpenPart, WritePart, PutPart, TouchUpload, Validate,
       ConcatPart, RenameFinal, OpenFinal, Backup, UnlinkFinal, PutObjectMapping,
       AbortMultipartUpload, DeleteObject, RemoveDir, RemoveRecord, ConsumePart,
       RemoveUploadDir, RemoveUploadDirFails, DeleteUpload, DeleteUploadFails, Fault
  <1>2. CASE Collect
    BY <1>2 DEF Collect, ReadScratchDir, ListAllUploadIDs, RemoveOrphan, Reconciled,
       ListUploadsOlderThan, SweepDir, SweepRecord, SweepDone, RemoveUploadDir,
       RemoveUploadDirFails, DeleteUpload, DeleteUploadFails, Fault
  <1>3. QED
    BY <1>1, <1>2, NextCases DEF Enter, Return, Expire, Crash, Fault, vars

(* What is left undone has failed, so a fault has happened. *)
LEMMA UndoneStep == BaseInv /\ [Next]_vars => UndoneInv'
  <1> SUFFICES ASSUME BaseInv, [Next]_vars, NEW v \in Uploads
               PROVE  (/\ "dir" \in undone[v] => "files" \in faults
                       /\ "record" \in undone[v] => "store" \in faults)'
    BY DEF UndoneInv
  <1>1. /\ TypeOK /\ RequestInv /\ GcInv /\ UploadType /\ ScratchType
        /\ "dir" \in undone[v] => "files" \in faults
        /\ "record" \in undone[v] => "store" \in faults
        /\ faults \subseteq faults'
    BY TypeGroups, FaultsGrow DEF BaseInv, UndoneInv
  <1>2. CASE UNCHANGED undone
    BY <1>1, <1>2
  <1>3. ASSUME NEW u \in Uploads, Removes(u)
        PROVE  /\ "dir" \in undone'[v] => "files" \in faults'
               /\ "record" \in undone'[v] => "store" \in faults'
    BY <1>1, <1>3, Removal DEF Fault
  <1>4. ASSUME NEW u \in Uploads, Deletes(u)
        PROVE  /\ "dir" \in undone'[v] => "files" \in faults'
               /\ "record" \in undone'[v] => "store" \in faults'
    BY <1>1, <1>4, Deletion DEF Fault
  <1>5. CASE Collect
    BY <1>1, <1>2, <1>3, <1>4, <1>5, CollectCases DEF TypeOK
  <1>6. ASSUME NEW p \in Procs, RemoveDir(p) \/ RemoveRecord(p)
        PROVE  \E u \in Uploads : Removes(u) \/ Deletes(u)
    BY <1>1, <1>6, AtWork, RemoveDirs, RemoveRecords DEF CleanPcs
  <1>7. ASSUME NEW p \in Procs, Work(p), ~ RemoveDir(p), ~ RemoveRecord(p)
        PROVE  UNCHANGED undone
    BY <1>7 DEF Work, CreateMultipartUpload, OpenPart, WritePart, PutPart, TouchUpload, Validate,
       ConcatPart, RenameFinal, OpenFinal, Backup, UnlinkFinal, PutObjectMapping,
       AbortMultipartUpload, DeleteObject
  <1>8. ASSUME NEW p \in Procs, Enter(p) \/ Return(p) PROVE UNCHANGED undone
    BY <1>8 DEF Enter, Return
  <1>9. QED
    BY <1>2, <1>3, <1>4, <1>5, <1>6, <1>7, <1>8, NextCases DEF Crash, Expire, vars

(* The part of the invariant that needs no assumption about clients and faults. *)
LEMMA BaseStep == BaseInv /\ [Next]_vars => BaseInv'
  BY TypeStep, RequestStep, LockStep, HomeStep, CreateStep, GcStep, ScratchStep, UndoneStep
     DEF BaseInv

------------------------------------------------------------------------------
(***************************************************************************)
(* Requests of one key exclude each other                                  *)
(***************************************************************************)
LEMMA KeyAlone ==
  ASSUME BaseInv, NEW p \in Procs, NEW q \in Procs, pc[p] # "idle", pc[q] # "idle",
         req[p].key = req[q].key
  PROVE  p = q
  BY DEF BaseInv, LockInv

(* ... and so do requests of one upload, if clients name it with its key. *)
LEMMA Alone ==
  ASSUME BaseInv, KeysMatch, NEW p \in Procs, NEW q \in Procs, NEW u \in Uploads,
         Works(p, u), Works(q, u)
  PROVE  p = q
  <1>1. /\ home[u] = req[p].key /\ home[u] = req[q].key
        /\ pc[p] # "idle" /\ pc[q] # "idle"
    BY DEF BaseInv, HomeInv, Found, Works, RequestInv, CleanPcs
  <1>2. QED
    BY <1>1, KeyAlone

(* A request at work on an upload found it there, under the key it was created for. *)
LEMMA WorkersHome ==
  ASSUME BaseInv, NEW p \in Procs, NEW u \in Uploads, Works(p, u)
  PROVE  /\ home[u] # None
         /\ KeysMatch => home[u] = req[p].key
         /\ pc[p] # "idle"
         /\ \A q \in Procs : ~ (pc[q] = "create" /\ req[q].upload = u)
  BY DEF BaseInv, HomeInv, CreateInv, Found, Works, RequestInv, CleanPcs

(* While a request works on an upload, the steps of others leave it alone. *)
LEMMA OthersKeep ==
  ASSUME BaseInv, KeysMatch, NEW p \in Procs, Work(p), NEW q \in Procs, q # p,
         NEW u \in Uploads, Works(q, u)
  PROVE  Kept(u)
  <1>1. ~ Works(p, u) /\ ~ (pc[p] = "create" /\ req[p].upload = u)
    BY Alone, WorkersHome
  <1>2. QED
    BY <1>1, WorkKeeps DEF BaseInv

(* The upload of a request at its own work, and its first victim. *)
LEMMA WorksOn ==
  ASSUME BaseInv, NEW p \in Procs
  PROVE  /\ pc[p] # "idle" /\ req[p].op \in {"uploadPart", "complete", "abort"} =>
              req[p].upload \in Uploads /\ Works(p, req[p].upload)
         /\ pc[p] \in PartPcs \cup CompletePcs \cup {"abort"} =>
              req[p].upload \in Uploads /\ Works(p, req[p].upload)
         /\ \A i \in DOMAIN victims[p] : victims[p][i] \in Uploads /\ Works(p, victims[p][i])
         /\ pc[p] \in CleanPcs => /\ victims[p] # <<>> /\ 1 \in DOMAIN victims[p]
                                  /\ Head(victims[p]) = victims[p][1]
                                  /\ Head(victims[p]) \in Uploads /\ Works(p, Head(victims[p]))
  <1>1. TypeOK /\ RequestInv /\ victims[p] \in Seq(Uploads)
    BY DEF BaseInv, TypeOK
  <1>2. pc[p] # "idle" /\ req[p].op \in {"uploadPart", "complete", "abort"} =>
          req[p].upload \in Uploads /\ Works(p, req[p].upload)
    BY <1>1, RequestFields DEF Works, RequestInv
  <1>3. pc[p] \in PartPcs \cup CompletePcs \cup {"abort"} =>
          pc[p] # "idle" /\ req[p].op \in {"uploadPart", "complete", "abort"}
    BY <1>1 DEF RequestInv, PartPcs, CompletePcs, CommitPcs
  <1>4. \A i \in DOMAIN victims[p] : victims[p][i] \in Uploads /\ Works(p, victims[p][i])
    BY <1>1 DEF Works
  <1>5. pc[p] \in CleanPcs => victims[p] # <<>>
    BY <1>1 DEF RequestInv
  <1>6. victims[p] # <<>> => 1 \in DOMAIN victims[p] /\ Head(victims[p]) = victims[p][1]
    BY <1>1
  <1>7. QED
    BY <1>2, <1>3, <1>4, <1>5, <1>6

(* The kinds of steps without a crash, by what they leave alone. *)
LEMMA EnterOrReturn ==
  ASSUME BaseInv, NEW p \in Procs, Enter(p) \/ Return(p)
  PROVE  /\ UNCHANGED <<upload, scratch, object, home, commits, undone, gc, faults>>
         /\ pc'[p] \in {"idle", "create", "uploadPart", "complete", "abort", "delete"}
         /\ result'[p] = None /\ victims'[p] = <<>> /\ victims[p] = <<>>
         /\ pc[p] \in {"idle", "return"}
         /\ \A q \in Procs \ {p} : /\ pc'[q] = pc[q] /\ req'[q] = req[q] /\ result'[q] = result[q]
                                  /\ out'[q] = out[q] /\ todo'[q] = todo[q]
                                  /\ victims'[q] = victims[q]
  <1>1. TypeOK /\ RequestInv
    BY DEF BaseInv
  <1>2. CASE Enter(p)
    BY <1>1, <1>2, EnterFrame DEF Request
  <1>3. CASE Return(p)
    <2>1. {p} \in SUBSET Procs /\ Clear({p}) /\ pc[p] = "return"
      BY <1>3 DEF Return, At
    <2>2. QED
      BY <1>1, <1>3, <2>1, ClearFrame DEF Return, RequestInv, CleanPcs
  <1>4. QED
    BY <1>2, <1>3

(* Where a step of a request removes an upload's directory or its record. *)
LEMMA RemoveEffect ==
  ASSUME BaseInv, NEW p \in Procs, Work(p), pc[p] \in CleanPcs
  PROVE  LET u == Head(victims[p])
         IN  /\ u \in Uploads
             /\ pc[p] = "removeDir" =>
                  /\ Removes(u) /\ UNCHANGED upload
                  /\ \/ /\ victims'[p] = victims[p] /\ pc'[p] = "removeRecord"
                        /\ result'[p] = result[p]
                        /\ RemoveUploadDir(u) \/ req[p].op # "abort"
                     \/ /\ req[p].op = "abort" /\ RemoveUploadDirFails(u)
                        /\ victims'[p] = <<>> /\ pc'[p] = "return" /\ result'[p] = "error"
             /\ pc[p] = "removeRecord" =>
                  /\ Deletes(u) /\ UNCHANGED scratch
                  /\ victims'[p] = Tail(victims[p]) /\ pc'[p] # "removeRecord"
                  /\ pc'[p] = "return" <=> Tail(victims[p]) = <<>>
                  /\ req[p].op # "abort" => result'[p] = result[p]
                  /\ result'[p] \in {result[p], "error"}
                  /\ req[p].op = "abort" /\ result'[p] # "error" =>
                       DeleteUpload(u) /\ record[u] # None
  <1>1. TypeOK /\ Head(victims[p]) \in Uploads
    BY WorksOn DEF BaseInv
  <1>2. RemoveDir(p) \/ RemoveRecord(p)
    BY DEF Work, CleanPcs, At, CreateMultipartUpload, OpenPart, WritePart, PutPart, TouchUpload,
       Validate, ConcatPart, RenameFinal, OpenFinal, Backup, UnlinkFinal, PutObjectMapping,
       AbortMultipartUpload, DeleteObject
  <1>3. CASE RemoveDir(p)
    BY <1>1, <1>3, RemoveDirs DEF RemoveDir, Goto, Answer, TypeOK
  <1>4. CASE RemoveRecord(p)
    BY <1>1, <1>4, RemoveRecords DEF RemoveRecord, NextVictims, Failed, TypeOK
  <1>5. QED
    BY <1>2, <1>3, <1>4

(* A request comes to a record only when the directory has gone or stays for good. *)
LEMMA ClearedStep ==
  ASSUME BaseInv, ClearedInv, KeysMatch, [Next]_vars
  PROVE  ClearedInv'
  <1> DEFINE Ready(q) == LET u == Head(victims[q])
                         IN  ~ dir[u] \/ ("dir" \in undone[u] /\ req[q].op # "abort")
  <1>1. TypeOK /\ RequestInv /\ GcInv /\ UploadType /\ ScratchType
    BY TypeGroups DEF BaseInv
  <1>2. SUFFICES ASSUME NEW q \in Procs, pc'[q] = "removeRecord" PROVE Ready(q)'
    BY DEF ClearedInv
  <1>3. pc[q] = "removeRecord" =>
          Ready(q) /\ Head(victims[q]) \in Uploads /\ Works(q, Head(victims[q]))
    BY WorksOn DEF ClearedInv, CleanPcs
  <1>4. ASSUME pc[q] = "removeRecord", req'[q] = req[q], victims'[q] = victims[q],
               LET u == Head(victims[q])
               IN  (dir'[u] => dir[u]) /\ ("dir" \in undone[u] /\ dir'[u] => "dir" \in undone'[u])
        PROVE  Ready(q)'
    BY <1>3, <1>4
  <1>5. ASSUME NEW p \in Procs, Enter(p) \/ Return(p) PROVE Ready(q)'
    BY <1>2, <1>4, <1>5, EnterOrReturn DEF scratch
  <1>6. ASSUME NEW p \in Procs, Work(p), q # p PROVE Ready(q)'
    <2>1. pc'[q] = pc[q] /\ req'[q] = req[q] /\ victims'[q] = victims[q]
      BY <1>1, <1>6, WorkFrame
    <2>2. Kept(Head(victims[q]))
      BY <1>2, <1>3, <1>6, <2>1, OthersKeep
    <2>3. QED
      BY <1>2, <1>4, <2>1, <2>2 DEF Kept
  <1>7. ASSUME Work(q) PROVE Ready(q)'
    <2>1. pc[q] = "removeDir" /\ req' = req
      BY <1>1, <1>2, <1>7, Moves, WorkFrame DEF TypeOK, Pcs
    <2>2. LET u == Head(victims[q])
          IN  /\ u \in Uploads /\ Removes(u) /\ victims'[q] = victims[q]
              /\ RemoveUploadDir(u) \/ req[q].op # "abort"
      BY <1>2, <1>7, <2>1, RemoveEffect DEF CleanPcs
    <2>3. LET u == Head(victims[q])
          IN  ~ dir'[u] \/ (RemoveUploadDirFails(u) /\ "dir" \in undone'[u])
      BY <1>1, <2>2, Removal DEF Removes, RemoveUploadDir, ScratchType
    <2>4. QED
      BY <1>1, <2>1, <2>2, <2>3 DEF RemoveUploadDir, ScratchType
  <1>8. CASE Collect
    <2>1. UNCHANGED <<pc, req, victims>>
      BY <1>8 DEF Collect, locals
    <2>2. QED
      BY <1>1, <1>2, <1>3, <1>4, <1>8, <2>1, CollectFrame DEF SameScratch, Shrinks
  <1>9. CASE Expire \/ UNCHANGED vars
    BY <1>2, <1>4, <1>9 DEF Expire, vars, locals, scratch
  <1>10. CASE Crash
    BY <1>1, <1>2, <1>10, ClearFrame DEF Crash
  <1>11. QED
    BY <1>5, <1>6, <1>7, <1>8, <1>9, <1>10, NextCases

------------------------------------------------------------------------------
(***************************************************************************)
(* While no sweep and no crash comes                                       *)
(***************************************************************************)
(* Reconciliation finds nothing to remove but what nobody else could remove. *)
LEMMA QuietCollect ==
  ASSUME BaseInv, ~ Collecting, Collect, NEW v \in Uploads
  PROVE  /\ SameUpload(v)
         /\ record[v] # None => SameScratch(v)
         /\ dir'[v] => dir[v]
         /\ "dir" \in undone[v] /\ dir'[v] => "dir" \in undone'[v]
         /\ "record" \in undone'[v] <=> "record" \in undone[v]
  <1>1. TypeOK /\ GcInv
    BY DEF BaseInv
  <1>2. /\ gcpc \notin {"sweep", "sweepRecord"}
        /\ gcpc = "reconcile" /\ v \in gctodo => record[v] = None
    BY <1>1 DEF GcInv
  <1>3. QED
    BY <1>1, <1>2, CollectFrame DEF SameScratch, Shrinks

(* Nothing has been acknowledged yet. *)
LEMMA PresentInit == Init => PresentInv
  BY DEF Init, PresentInv, PartInv, VictimInv, AgreeInv, NoFiles, CompletePcs, CommitPcs

(* An acknowledged part keeps its file and its record until the upload is cleaned up. *)
LEMMA PartStep ==
  ASSUME BaseInv, PresentInv, [Next]_vars, Undisturbed, Undisturbed'
  PROVE  PartInv'
  <1>1. /\ TypeOK /\ RequestInv /\ KeysMatch /\ ~ Collecting
        /\ PartInv /\ AgreeInv
    BY DEF BaseInv, PresentInv, Undisturbed
  <1> DEFINE Acknowledged(q) == pc[q] = "return" /\ req[q].op = "uploadPart" /\ result[q] = "ok"
             Stored(q) ==
               LET u == req[q].upload  n == req[q].part
               IN  /\ pc[q] \in {"writePart", "putPart", "touch"} \/ Acknowledged(q) =>
                        record[u] # None /\ dir[u]
                   /\ pc[q] = "writePart" => file[u][n] # None
                   /\ pc[q] \in {"putPart", "touch"} \/ Acknowledged(q) => file[u][n] = req[q].data
                   /\ pc[q] = "touch" \/ Acknowledged(q) => parts[u][n] = req[q].data
             Involved(q) == pc[q] \in {"writePart", "putPart", "touch"} \/ Acknowledged(q)
  <1>2. ASSUME NEW q \in Procs PROVE Stored(q)
    BY <1>1 DEF PartInv
  <1>3. SUFFICES ASSUME NEW q \in Procs PROVE Stored(q)'
    BY DEF PartInv
  <1>4. Involved(q) => req[q].upload \in Uploads /\ Works(q, req[q].upload)
    BY WorksOn DEF PartPcs
  <1>5. ASSUME pc'[q] = pc[q], req'[q] = req[q], result'[q] = result[q],
               Involved(q) => /\ record'[req[q].upload] # None
                              /\ parts'[req[q].upload] = parts[req[q].upload]
                              /\ dir'[req[q].upload] = dir[req[q].upload]
                              /\ file'[req[q].upload] = file[req[q].upload]
        PROVE  Stored(q)'
    BY <1>2, <1>5
  <1>6. ASSUME ~ Involved(q)' PROVE Stored(q)'
    BY <1>6
  <1>7. ASSUME NEW p \in Procs, Enter(p) \/ Return(p) PROVE Stored(q)'
    <2>1. CASE q = p
      BY <1>6, <1>7, <2>1, EnterOrReturn
    <2>2. CASE q # p
      BY <1>2, <1>5, <1>7, <2>2, EnterOrReturn DEF upload, scratch
    <2>3. QED
      BY <2>1, <2>2
  <1>8. ASSUME NEW p \in Procs, Work(p), q # p PROVE Stored(q)'
    <2>1. pc'[q] = pc[q] /\ req'[q] = req[q] /\ result'[q] = result[q]
      BY <1>1, <1>8, WorkFrame
    <2>2. Involved(q) => Kept(req[q].upload)
      BY <1>1, <1>4, <1>8, OthersKeep
    <2>3. QED
      BY <1>2, <1>5, <2>1, <2>2 DEF Kept
  <1>9. CASE Collect
    BY <1>1, <1>2, <1>4, <1>5, <1>9, QuietCollect, CollectFrame DEF locals, SameUpload, SameScratch,
       BaseInv
  <1>10. CASE Expire
    BY <1>1, <1>2, <1>4, <1>5, <1>10, ExpireFrame DEF locals, scratch
  <1>11. CASE UNCHANGED vars
    BY <1>2, <1>5, <1>11 DEF vars, upload, scratch, locals
  <1>12. ASSUME Work(q) PROVE Stored(q)'
    <2> USE DEF At
    <2>1. /\ req' = req /\ pc[q] \in Pcs \ {"idle", "return"}
          /\ ScratchType /\ UploadType
      BY <1>1, <1>12, WorkFrame, TypeGroups DEF TypeOK
    <2>2. CASE pc[q] \notin PartPcs
      <3>1. req[q].op # "uploadPart"
        BY <1>1, <2>1, <2>2 DEF RequestInv, Pcs, PartPcs, CompletePcs, CommitPcs, CleanPcs
      <3>2. pc'[q] \notin {"writePart", "putPart", "touch"}
        BY <1>1, <1>12, <2>1, <2>2, Moves DEF Pcs, PartPcs
      <3>3. QED
        BY <1>6, <2>1, <3>1, <3>2
    <2>3. CASE pc[q] \in PartPcs
      <3>1. /\ req[q].upload \in Uploads /\ req[q].part \in PartNumbers /\ req[q].data \in Data
            /\ req[q].op = "uploadPart"
        BY <1>1, <2>1, <2>3, AtWork DEF PartPcs, CleanPcs, RequestInv
      <3>2. CASE OpenPart(q)
        <4>1. CASE Missing(q)
          BY <1>1, <1>6, <2>1, <3>2, <4>1 DEF OpenPart, Answer, TypeOK
        <4>2. CASE ~ Missing(q)
          <5>1. /\ dir' = [dir EXCEPT ![req[q].upload] = TRUE]
                /\ file' = [file EXCEPT ![req[q].upload][req[q].part] = Torn]
                /\ pc'[q] = "writePart" /\ record' = record
            BY <1>1, <3>2, <4>2 DEF OpenPart, Answer, Goto, upload, TypeOK
          <5>2. file'[req[q].upload][req[q].part] = Torn
            BY <2>1, <3>1, <5>1, FileCell
          <5>3. Torn # None
            BY NoneAssumption
          <5>4. QED
            BY <2>1, <3>1, <4>2, <5>1, <5>2, <5>3 DEF Missing, ScratchType
        <4>3. QED
          BY <4>1, <4>2
      <3>3. CASE WritePart(q)
        <4>1. /\ UNCHANGED <<record, dir>> /\ record[req[q].upload] # None /\ dir[req[q].upload]
              /\ file[req[q].upload][req[q].part] # None
          BY <1>2, <3>3 DEF WritePart, upload
        <4>2. CASE pc'[q] = "putPart" /\ file' = [file EXCEPT ![req[q].upload][req[q].part] = req[q].data]
          <5>1. file'[req[q].upload][req[q].part] = req[q].data
            BY <2>1, <3>1, <4>2, FileCell
          <5>2. QED
            BY <2>1, <4>1, <4>2, <5>1
        <4>3. CASE pc'[q] = "return" /\ result'[q] = "error"
          BY <1>6, <4>3
        <4>4. QED
          BY <1>1, <3>3, <4>1, <4>2, <4>3 DEF WritePart, Goto, Answer, TypeOK
      <3>4. CASE PutPart(q)
        <4>1. /\ UNCHANGED <<record, dir, file>> /\ record[req[q].upload] # None /\ dir[req[q].upload]
              /\ file[req[q].upload][req[q].part] = req[q].data
          BY <1>2, <3>4 DEF PutPart, scratch
        <4>2. CASE pc'[q] = "touch" /\ parts' = [parts EXCEPT ![req[q].upload][req[q].part] = req[q].data]
          <5>1. parts'[req[q].upload][req[q].part] = req[q].data
            BY <2>1, <3>1, <4>2, PartCell
          <5>2. QED
            BY <2>1, <4>1, <4>2, <5>1
        <4>3. CASE pc'[q] = "return" /\ result'[q] = "error"
          BY <1>6, <4>3
        <4>4. QED
          BY <1>1, <3>4, <4>2, <4>3 DEF PutPart, Goto, Answer, TypeOK
      <3>5. CASE TouchUpload(q)
        <4>1. /\ UNCHANGED <<parts, dir, file>> /\ record[req[q].upload] # None
              /\ dir[req[q].upload] /\ file[req[q].upload][req[q].part] = req[q].data
              /\ parts[req[q].upload][req[q].part] = req[q].data
              /\ pc[q] = "touch"
          BY <1>2, <3>5 DEF TouchUpload, scratch
        <4>2. record'[req[q].upload] # None
          BY <1>1, <1>12, <3>1, <4>1, WorkRecords
        <4>3. pc'[q] = "return"
          BY <1>1, <1>12, <4>1, Moves
        <4>4. QED
          BY <2>1, <4>1, <4>2, <4>3
      <3>6. QED
        BY <1>12, <2>3, <3>2, <3>3, <3>4, <3>5 DEF Work, PartPcs, CreateMultipartUpload, Validate,
           ConcatPart, RenameFinal, OpenFinal, Backup, UnlinkFinal, PutObjectMapping,
           AbortMultipartUpload, DeleteObject, RemoveDir, RemoveRecord
    <2>4. QED
      BY <2>2, <2>3
  <1>13. ~ Crash
    BY DEF Crash, Fault, Undisturbed
  <1>14. QED
    BY <1>7, <1>8, <1>9, <1>10, <1>11, <1>12, <1>13, NextCases

(* RemoveRecord is the only step of a request that removes a record. *)
LEMMA RecordStays ==
  ASSUME BaseInv, NEW p \in Procs, Work(p), pc[p] # "removeRecord", NEW u \in Uploads,
         record[u] # None
  PROVE  record'[u] # None
  <1>1. TypeOK /\ RequestInv
    BY DEF BaseInv
  <1>2. CASE pc[p] # "create"
    BY <1>1, <1>2, WorkRecords
  <1>3. CASE pc[p] = "create"
    <2>1. CreateMultipartUpload(p) /\ home[u] # None
      BY <1>1, <1>3, WorkRecords, NoneAssumption DEF BaseInv, HomeInv, TypeOK, Upload
    <2>2. req[p].upload # u
      BY <1>3, <2>1 DEF BaseInv, CreateInv
    <2>3. record'[u] = record[u]
      BY <1>1, <2>1, <2>2 DEF CreateMultipartUpload, TypeOK
    <2>4. QED
      BY <2>3
  <1>4. QED
    BY <1>2, <1>3

(* An upload stays the upload of its key. *)
LEMMA HomeStays ==
  ASSUME BaseInv, NEW p \in Procs, Work(p), NEW u \in Uploads, home[u] # None
  PROVE  home'[u] = home[u]
  <1>1. TypeOK /\ RequestInv
    BY DEF BaseInv
  <1>2. CASE pc[p] # "create"
    BY <1>1, <1>2, WorkRecords
  <1>3. CASE pc[p] = "create"
    <2>1. CreateMultipartUpload(p) /\ req[p].upload # u
      BY <1>1, <1>3, WorkRecords DEF BaseInv, CreateInv
    <2>2. QED
      BY <1>1, <2>1 DEF CreateMultipartUpload, TypeOK
  <1>4. QED
    BY <1>2, <1>3

(* DeleteObject answers "aborted" when it has listed all the key's uploads. *)
LEMMA AbortsAll ==
  ASSUME BaseInv, NEW p \in Procs, Work(p), pc[p] \notin CleanPcs, result'[p] = "aborted"
  PROVE  /\ UNCHANGED <<upload, scratch, home, undone>>
         /\ req[p].key \in Keys
         /\ \A u \in OfKey(req[p].key) : \E i \in DOMAIN victims'[p] : u = victims'[p][i]
  <1>1. TypeOK /\ RequestInv /\ result[p] # "aborted"
    BY WorkFrame, ResultsAreSome DEF BaseInv, RequestInv
  <1>2. DeleteObject(p)
    <2>1. ASSUME CreateMultipartUpload(p) \/ OpenPart(p) \/ WritePart(p) \/ PutPart(p) \/ TouchUpload(p)
          PROVE  FALSE
      BY <1>1, <2>1 DEF CreateMultipartUpload, OpenPart, WritePart, PutPart, TouchUpload, Goto, Answer, TypeOK
    <2>2. ASSUME Validate(p) \/ OpenFinal(p) \/ Backup(p) \/ UnlinkFinal(p) \/ RemoveDir(p) \/ RemoveRecord(p)
          PROVE  FALSE
      BY <1>1, <2>2 DEF Validate, OpenFinal, Backup, UnlinkFinal, RemoveDir, RemoveRecord, At, CleanPcs,
         Goto, Answer, TypeOK
    <2>3. ASSUME ConcatPart(p) \/ RenameFinal(p) \/ PutObjectMapping(p) \/ AbortMultipartUpload(p)
          PROVE  FALSE
      BY <1>1, <2>3 DEF ConcatPart, RenameFinal, PutObjectMapping, AbortMultipartUpload, GiveUp, CleanUp,
         Goto, Answer, TypeOK
    <2>4. QED
      BY <2>1, <2>2, <2>3 DEF Work
  <1>3. req[p].key \in Keys
    BY <1>1, <1>2, AtWork DEF DeleteObject, At
  <1>4. \/ OfKey(req[p].key) = {}
        \/ victims'[p] = SetToSeq(OfKey(req[p].key))
    BY <1>1, <1>2 DEF DeleteObject, Answer, CleanUp, TypeOK
  <1>5. QED
    BY <1>2, <1>3, <1>4, VictimsOfKey DEF DeleteObject

(* What is gone, or could not be removed, stays so unless something comes back. *)
LEMMA GoneStays ==
  ASSUME NEW u, record[u] = None => record'[u] = None, parts[u] = NoFiles => parts'[u] = NoFiles,
         dir'[u] => dir[u], "dir" \in undone[u] /\ dir'[u] => "dir" \in undone'[u],
         "record" \in undone[u] => "record" \in undone'[u]
  PROVE  (Gone(u) => Gone(u)') /\ (GoneOrUndone(u) => GoneOrUndone(u)')
  <1>1. NoFiles' = NoFiles
    BY DEF NoFiles
  <1>2. QED
    BY <1>1 DEF Gone, GoneOrUndone

(* A clean-up loop has exactly the uploads of its key still to do. *)
LEMMA VictimStep ==
  ASSUME BaseInv, ClearedInv, PresentInv, [Next]_vars, Undisturbed, Undisturbed'
  PROVE  VictimInv'
  <1>1. /\ TypeOK /\ RequestInv /\ KeysMatch /\ ~ Collecting
        /\ VictimInv /\ AgreeInv
    BY DEF BaseInv, PresentInv, Undisturbed
  <1> DEFINE Has(q) == /\ pc[q] \in CompletePcs \ {"complete"} => record[req[q].upload] # None
                       /\ \A i \in DOMAIN victims[q] : record[victims[q][i]] # None
             Once(q) == \A i, j \in DOMAIN victims[q] : victims[q][i] = victims[q][j] => i = j
             All(q) == pc[q] # "idle" /\ result[q] = "aborted" =>
                         \A u \in Uploads : home[u] = req[q].key =>
                           GoneOrUndone(u) \/ \E i \in DOMAIN victims[q] : u = victims[q][i]
             Aborts(q) == pc[q] # "idle" /\ req[q].op = "abort" =>
                            /\ \A i \in DOMAIN victims[q] : victims[q][i] = req[q].upload
                            /\ pc[q] = "return" /\ result[q] = "ok" => Gone(req[q].upload)
  <1>2. ASSUME NEW q \in Procs PROVE Has(q) /\ Once(q) /\ All(q) /\ Aborts(q)
    BY <1>1 DEF VictimInv
  <1>3. SUFFICES ASSUME NEW q \in Procs PROVE (Has(q) /\ Once(q) /\ All(q) /\ Aborts(q))'
    BY DEF VictimInv
  <1>4. /\ pc[q] \in CompletePcs => req[q].upload \in Uploads /\ Works(q, req[q].upload)
        /\ \A i \in DOMAIN victims[q] : victims[q][i] \in Uploads /\ Works(q, victims[q][i])
        /\ pc[q] # "idle" /\ req[q].op = "abort" =>
             req[q].upload \in Uploads /\ Works(q, req[q].upload)
    BY WorksOn
  <1>5. ASSUME /\ pc'[q] = pc[q] /\ req'[q] = req[q] /\ result'[q] = result[q]
               /\ victims'[q] = victims[q],
               \A u \in Uploads : Works(q, u) => /\ record[u] # None => record'[u] # None
                                                 /\ Gone(u) => Gone(u)',
               pc[q] # "idle" => \A u \in Uploads : home'[u] = req[q].key =>
                                  home[u] = req[q].key /\ (GoneOrUndone(u) => GoneOrUndone(u)')
        PROVE  (Has(q) /\ Once(q) /\ All(q) /\ Aborts(q))'
    <2>1. Has(q)' /\ Once(q)'
      BY <1>2, <1>4, <1>5
    <2>2. All(q)'
      <3> SUFFICES ASSUME pc[q] # "idle", result[q] = "aborted", NEW u \in Uploads,
                          home'[u] = req[q].key
                   PROVE  GoneOrUndone(u)' \/ \E i \in DOMAIN victims[q] : u = victims[q][i]
        BY <1>5
      <3>1. home[u] = req[q].key /\ (GoneOrUndone(u) => GoneOrUndone(u)')
        BY <1>5
      <3>2. GoneOrUndone(u) \/ \E i \in DOMAIN victims[q] : u = victims[q][i]
        BY <1>2, <3>1
      <3>3. QED
        BY <3>1, <3>2
    <2>3. Aborts(q)'
      BY <1>2, <1>4, <1>5
    <2>4. QED
      BY <2>1, <2>2, <2>3
  <1>6. ASSUME NEW p \in Procs, Enter(p) \/ Return(p)
        PROVE  (Has(q) /\ Once(q) /\ All(q) /\ Aborts(q))'
    <2>1. CASE q = p
      BY <1>6, <2>1, EnterOrReturn, ResultsAreSome DEF CompletePcs, CommitPcs
    <2>2. CASE q # p
      <3>1. UNCHANGED <<record, parts, dir, home, undone>>
        BY <1>6, EnterOrReturn DEF upload, scratch
      <3>2. /\ pc'[q] = pc[q] /\ req'[q] = req[q] /\ result'[q] = result[q]
            /\ victims'[q] = victims[q]
        BY <1>6, <2>2, EnterOrReturn
      <3>3. \A u \in Uploads : (Gone(u) => Gone(u)') /\ (GoneOrUndone(u) => GoneOrUndone(u)')
        BY <3>1, GoneStays
      <3>4. QED
        BY <1>5, <3>1, <3>2, <3>3
    <2>3. QED
      BY <2>1, <2>2
  <1>7. CASE Collect
    <2>1. /\ pc'[q] = pc[q] /\ req'[q] = req[q] /\ result'[q] = result[q]
          /\ victims'[q] = victims[q] /\ home' = home
      BY <1>7 DEF Collect, locals
    <2>2. \A u \in Uploads : /\ record'[u] = record[u]
                             /\ Gone(u) => Gone(u)'
                             /\ GoneOrUndone(u) => GoneOrUndone(u)'
      BY <1>1, <1>7, QuietCollect, GoneStays DEF SameUpload
    <2>3. QED
      BY <1>5, <2>1, <2>2
  <1>8. CASE Expire
    <2>1. /\ pc'[q] = pc[q] /\ req'[q] = req[q] /\ result'[q] = result[q] /\ undone' = undone
          /\ victims'[q] = victims[q] /\ home' = home /\ parts' = parts /\ dir' = dir
      BY <1>8 DEF Expire, locals, scratch
    <2>2. \A u \in Uploads : /\ record'[u] = None <=> record[u] = None
                             /\ Gone(u) => Gone(u)'
                             /\ GoneOrUndone(u) => GoneOrUndone(u)'
      BY <1>1, <1>8, <2>1, ExpireFrame, GoneStays
    <2>3. QED
      BY <1>5, <2>1, <2>2
  <1>9. CASE UNCHANGED vars
    <2>1. /\ UNCHANGED <<record, parts, dir, home, undone>>
          /\ UNCHANGED <<pc, req, result, victims>>
      BY <1>9 DEF vars, upload, scratch, locals
    <2>2. \A u \in Uploads : (Gone(u) => Gone(u)') /\ (GoneOrUndone(u) => GoneOrUndone(u)')
      BY <2>1, GoneStays
    <2>3. QED
      BY <1>5, <2>1, <2>2
  <1>10. ASSUME NEW p \in Procs, Work(p), q # p
         PROVE  (Has(q) /\ Once(q) /\ All(q) /\ Aborts(q))'
    <2>1. /\ pc'[q] = pc[q] /\ req'[q] = req[q] /\ result'[q] = result[q]
          /\ victims'[q] = victims[q] /\ req' = req /\ pc[p] # "idle"
      BY <1>1, <1>10, WorkFrame
    <2>2. ASSUME NEW u \in Uploads, Works(q, u)
          PROVE  (record[u] # None => record'[u] # None) /\ (Gone(u) => Gone(u)')
      BY <1>1, <1>10, <2>2, OthersKeep, GoneStays DEF Kept
    <2>3. ASSUME pc[q] # "idle", NEW u \in Uploads, home'[u] = req[q].key
          PROVE  home[u] = req[q].key /\ (GoneOrUndone(u) => GoneOrUndone(u)')
      <3>1. req[p].key # req[q].key
        BY <1>10, <2>1, <2>3, KeyAlone
      <3>2. CASE pc[p] = "create" /\ req[p].upload = u
        <4>1. CreateMultipartUpload(p) /\ home[u] = None /\ home \in [Uploads -> Keys \cup {None}]
          BY <1>1, <1>10, <3>2, WorkRecords DEF BaseInv, CreateInv, TypeOK
        <4>2. home'[u] = req[p].key \/ home'[u] = None
          BY <3>2, <4>1 DEF CreateMultipartUpload
        <4>3. req[q].key # None
          BY <1>1, <2>3, RequestFields, NoneAssumption DEF RequestInv
        <4>4. QED
          BY <2>3, <3>1, <4>2, <4>3
      <3>3. CASE Works(p, u)
        <4>1. home[u] = req[p].key /\ home[u] # None
          BY <1>1, <3>3, WorkersHome
        <4>2. home'[u] = home[u]
          BY <1>10, <4>1, HomeStays
        <4>3. QED
          BY <2>3, <3>1, <4>1, <4>2
      <3>4. CASE ~ Works(p, u) /\ ~ (pc[p] = "create" /\ req[p].upload = u)
        <4>1. Kept(u)
          BY <1>1, <1>10, <3>4, WorkKeeps
        <4>2. QED
          BY <2>3, <4>1, GoneStays DEF Kept
      <3>5. QED
        BY <3>2, <3>3, <3>4
    <2>4. QED
      BY <1>5, <2>1, <2>2, <2>3
  <1>11. ASSUME Work(q) PROVE (Has(q) /\ Once(q) /\ All(q) /\ Aborts(q))'
    <2>1. /\ req' = req /\ pc[q] \in Pcs \ {"idle", "return"}
          /\ victims[q] \in Seq(Uploads) /\ NoFiles' = NoFiles
          /\ UploadType /\ ScratchType
      BY <1>1, <1>11, WorkFrame, TypeGroups DEF TypeOK, NoFiles
    <2>2. CASE pc[q] = "removeDir"
      <3> DEFINE h == Head(victims[q])
      <3>1. /\ Removes(h) /\ UNCHANGED <<record, parts>> /\ h \in Uploads
            /\ \/ /\ victims'[q] = victims[q] /\ pc'[q] = "removeRecord"
                  /\ result'[q] = result[q]
               \/ victims'[q] = <<>> /\ pc'[q] = "return" /\ result'[q] = "error"
        BY <1>11, <2>2, RemoveEffect DEF CleanPcs, upload
      <3>2. home' = home
        BY <1>1, <1>11, <2>2, WorkRecords, <3>1
      <3>3. ASSUME NEW u \in Uploads PROVE GoneOrUndone(u) => GoneOrUndone(u)'
        <4>1. /\ dir'[u] => dir[u]
              /\ "dir" \in undone[u] /\ dir'[u] => "dir" \in undone'[u]
              /\ "record" \in undone[u] => "record" \in undone'[u]
          BY <2>1, <3>1, Removal DEF SameScratch, Shrinks
        <4>2. QED
          BY <3>1, <4>1, GoneStays
      <3>4. Has(q)' /\ Once(q)'
        BY <1>2, <3>1 DEF CompletePcs, CommitPcs
      <3>5. All(q)'
        BY <1>2, <2>1, <2>2, <3>1, <3>2, <3>3
      <3>6. Aborts(q)'
        BY <1>2, <2>1, <2>2, <3>1
      <3>7. QED
        BY <3>4, <3>5, <3>6
    <2>3. CASE pc[q] = "removeRecord"
      <3> DEFINE h == Head(victims[q])
      <3>1. /\ Deletes(h) /\ UNCHANGED scratch /\ h \in Uploads
            /\ victims'[q] = Tail(victims[q]) /\ pc'[q] \in {"removeDir", "return"}
            /\ pc'[q] = "return" <=> Tail(victims[q]) = <<>>
            /\ result'[q] \in {result[q], "error"}
            /\ req[q].op = "abort" /\ result'[q] # "error" => DeleteUpload(h) /\ record[h] # None
        BY <1>1, <1>11, <2>3, RemoveEffect, Moves DEF CleanPcs
      <3>2. home' = home
        BY <1>1, <1>11, <2>3, WorkRecords, <3>1
      <3>3. victims[q] # <<>> /\ h = victims[q][1] /\ 1 \in DOMAIN victims[q]
        BY <2>3, WorksOn DEF CleanPcs
      <3>4. /\ \A i \in DOMAIN victims'[q] : i + 1 \in DOMAIN victims[q] /\ i + 1 # 1
                                           /\ victims'[q][i] = victims[q][i + 1]
            /\ \A i \in DOMAIN victims[q] : i = 1 \/ (i - 1 \in DOMAIN victims'[q]
                                                    /\ victims'[q][i - 1] = victims[q][i])
            /\ DOMAIN victims[q] \subseteq Nat /\ DOMAIN victims'[q] \subseteq Nat
        BY <2>1, <3>1, <3>3
      <3>5. /\ record[h] # None
            /\ ~ dir[h] \/ ("dir" \in undone[h] /\ req[q].op # "abort")
        BY <1>2, <2>3, <3>3 DEF ClearedInv
      <3>6. /\ \/ record'[h] = None /\ parts'[h] = NoFiles
               \/ "record" \in undone'[h]
            /\ "dir" \in undone[h] => "dir" \in undone'[h]
            /\ \A u \in Uploads : u # h => SameUpload(u) /\ undone'[u] = undone[u]
            /\ dir' = dir
        BY <2>1, <3>1, <3>5, Deletion DEF scratch
      <3>7. Has(q)'
        <4>1. \A i \in DOMAIN victims'[q] : victims'[q][i] # h /\ victims'[q][i] \in Uploads
                                             /\ record[victims'[q][i]] # None
          BY <1>2, <1>4, <3>3, <3>4
        <4>2. QED
          BY <3>1, <3>6, <4>1 DEF CompletePcs, CommitPcs, SameUpload
      <3>8. Once(q)'
        <4> SUFFICES ASSUME NEW i \in DOMAIN victims'[q], NEW j \in DOMAIN victims'[q],
                            victims'[q][i] = victims'[q][j]
                     PROVE  i = j
          OBVIOUS
        <4>1. i + 1 = j + 1 /\ i \in Nat /\ j \in Nat
          BY <1>2, <3>4
        <4>2. QED
          BY <4>1
      <3>9. All(q)'
        <4> SUFFICES ASSUME result[q] = "aborted", NEW u \in Uploads, home[u] = req[q].key
                     PROVE  GoneOrUndone(u)' \/ \E i \in DOMAIN victims'[q] : u = victims'[q][i]
          BY <2>1, <3>1, <3>2
        <4>1. GoneOrUndone(u) \/ \E i \in DOMAIN victims[q] : u = victims[q][i]
          BY <1>2, <2>3
        <4>2. CASE u # h /\ GoneOrUndone(u)
          BY <3>6, <4>2, GoneStays DEF SameUpload
        <4>3. CASE u = h
          BY <2>1, <3>5, <3>6, <4>3 DEF GoneOrUndone
        <4>4. QED
          BY <3>3, <3>4, <4>1, <4>2, <4>3
      <3>10. Aborts(q)'
        <4> SUFFICES ASSUME req[q].op = "abort"
                     PROVE  /\ \A i \in DOMAIN victims'[q] : victims'[q][i] = req[q].upload
                            /\ result'[q] = "ok" => Gone(req[q].upload)'
          BY <2>1
        <4>1. \A i \in DOMAIN victims[q] : victims[q][i] = req[q].upload
          BY <1>2, <2>3
        <4>2. h = req[q].upload
          BY <3>3, <4>1
        <4>3. result'[q] = "ok" => record'[h] = None /\ parts'[h] = NoFiles /\ ~ dir'[h]
          BY <2>1, <3>1, <3>5, <3>6 DEF DeleteUpload, UploadType
        <4>4. QED
          BY <2>1, <3>4, <4>1, <4>2, <4>3 DEF Gone
      <3>11. QED
        BY <3>7, <3>8, <3>9, <3>10
    <2>4. CASE pc[q] \notin CleanPcs
      <3>1. victims[q] = <<>>
        BY <1>1, <2>4 DEF RequestInv
      <3>2. \A u \in Uploads : record[u] # None => record'[u] # None
        BY <1>11, <2>4, RecordStays DEF CleanPcs
      <3>3. pc[q] = "abort" =>
              /\ pc'[q] \in {"removeDir", "return"}
              /\ \/ result'[q] = "notFound" /\ victims'[q] = <<>>
                 \/ ~ Missing(q) /\ pc'[q] = "removeDir" /\ victims'[q] = <<req[q].upload>>
        <4> SUFFICES ASSUME pc[q] = "abort" PROVE AbortMultipartUpload(q)
          BY <1>1, <3>1 DEF AbortMultipartUpload, Answer, CleanUp, TypeOK
        <4>1. QED
          BY <1>11 DEF Work, At, CreateMultipartUpload, OpenPart, WritePart, PutPart,
             TouchUpload, Validate, ConcatPart, RenameFinal, OpenFinal, Backup, UnlinkFinal,
             PutObjectMapping, DeleteObject, RemoveDir, RemoveRecord
      <3>4. pc'[q] \in CompletePcs \ {"complete"} => record[req[q].upload] # None /\ req[q].upload \in Uploads
        <4>1. CASE pc[q] \in CompletePcs \ {"complete"}
          BY <1>2, <1>4, <4>1
        <4>2. CASE pc[q] = "complete"
          <5>1. Validate(q)
            BY <1>11, <4>2 DEF Work, At, CreateMultipartUpload, OpenPart, WritePart, PutPart,
               TouchUpload, ConcatPart, RenameFinal, OpenFinal, Backup, UnlinkFinal,
               PutObjectMapping, AbortMultipartUpload, DeleteObject, RemoveDir, RemoveRecord
          <5>2. Missing(q) => pc'[q] = "return"
            BY <1>1, <5>1 DEF Validate, Answer, TypeOK
          <5>3. QED
            BY <1>4, <4>2, <5>2 DEF Missing, CompletePcs, CommitPcs
        <4>3. CASE pc[q] \notin CompletePcs
          BY <1>1, <1>11, <2>1, <2>4, <4>3, Moves DEF Pcs, CompletePcs, CommitPcs, CleanPcs
        <4>4. QED
          BY <4>1, <4>2, <4>3
      <3>5. /\ \A i \in DOMAIN victims'[q] : victims'[q][i] \in Uploads /\ record[victims'[q][i]] # None
            /\ Once(q)'
        <4>1. CASE \/ victims'[q] = victims[q] \/ victims'[q] = <<>>
                   \/ victims'[q] = Tail(victims[q]) /\ victims[q] # <<>>
          BY <3>1, <4>1
        <4>2. CASE victims'[q] = <<req[q].upload>> /\ req[q].op \in {"complete", "abort"}
          <5>1. victims'[q] # <<>>
            BY <4>2
          <5>2. pc[q] \in {"concat", "map", "abort"}
            BY <1>1, <1>11, <2>1, <2>4, <4>2, <5>1, Moves DEF Pcs, CleanPcs, RequestInv
          <5>3. CASE pc[q] \in {"concat", "map"}
            BY <1>2, <1>4, <4>2, <5>3 DEF CompletePcs, CommitPcs
          <5>4. CASE pc[q] = "abort"
            BY <3>3, <4>2, <5>1, <5>4, WorksOn DEF Missing
          <5>5. QED
            BY <5>2, <5>3, <5>4
        <4>3. CASE victims'[q] = SetToSeq(OfKey(req[q].key)) /\ req[q].op = "delete"
          <5>1. req[q].key \in Keys
            BY <1>1, <2>1, AtWork
          <5>2. /\ \A i \in DOMAIN victims'[q] : victims'[q][i] \in OfKey(req[q].key)
                /\ \A i, j \in DOMAIN victims'[q] : victims'[q][i] = victims'[q][j] => i = j
            BY <4>3, <5>1, VictimsOfKey
          <5>3. \A u \in OfKey(req[q].key) : u \in Uploads /\ record[u] # None
            BY DEF OfKey
          <5>4. QED
            BY <5>2, <5>3
        <4>4. QED
          BY <1>1, <1>11, <4>1, <4>2, <4>3, Moves
      <3>6. Has(q)'
        BY <2>1, <3>2, <3>4, <3>5
      <3>7. All(q)'
        <4> SUFFICES ASSUME result'[q] = "aborted", NEW u \in Uploads, home'[u] = req[q].key
                     PROVE  GoneOrUndone(u)' \/ \E i \in DOMAIN victims'[q] : u = victims'[q][i]
          BY <2>1
        <4>1. UNCHANGED <<record, parts, dir, home, undone>> /\ req[q].key \in Keys
          BY <1>11, <2>4, AbortsAll DEF upload, scratch
        <4>2. CASE u \in OfKey(req[q].key)
          BY <1>11, <2>4, <4>2, AbortsAll
        <4>3. CASE u \notin OfKey(req[q].key)
          <5>1. record[u] = None
            BY <4>1, <4>3 DEF OfKey, BaseInv, HomeInv
          <5>2. QED
            BY <1>1, <2>1, <4>1, <5>1 DEF AgreeInv, GoneOrUndone
        <4>4. QED
          BY <4>2, <4>3
      <3>8. Aborts(q)'
        <4>1. req[q].op = "abort" => pc[q] = "abort"
          BY <1>1, <2>1, <2>4 DEF RequestInv, Pcs, PartPcs, CompletePcs, CommitPcs, CleanPcs
        <4>2. QED
          BY <2>1, <3>3, <4>1
      <3>9. QED
        BY <3>5, <3>6, <3>7, <3>8
    <2>5. QED
      BY <2>2, <2>3, <2>4 DEF CleanPcs
  <1>12. ~ Crash
    BY DEF Crash, Fault, Undisturbed
  <1>13. QED
    BY <1>6, <1>7, <1>8, <1>9, <1>10, <1>11, <1>12, NextCases

(* What the other steps of requests do to directories and part records. *)
LEMMA WorkAgree ==
  ASSUME BaseInv, NEW p \in Procs, Work(p), pc[p] \notin CleanPcs, NEW u \in Uploads
  PROVE  /\ dir[u] => dir'[u]
         /\ dir'[u] => dir[u] \/ record[u] # None
         /\ parts'[u] # NoFiles => parts[u] # NoFiles \/ (pc[p] = "putPart" /\ u = req[p].upload)
         /\ undone' = undone
  <1> USE DEF At
  <1>1. TypeOK /\ RequestInv /\ UploadType /\ ScratchType
    BY TypeGroups DEF BaseInv
  <1>2. CASE OpenPart(p) \/ Validate(p)
    <2>1. req[p].upload \in Uploads
      BY <1>2, WorksOn DEF OpenPart, Validate, PartPcs, CompletePcs
    <2>2. parts' = parts /\ undone' = undone
      BY <1>2 DEF OpenPart, Validate, upload
    <2>3. dir' = dir \/ (~ Missing(p) /\ dir' = [dir EXCEPT ![req[p].upload] = TRUE])
      BY <1>2 DEF OpenPart, Validate
    <2>4. QED
      BY <1>1, <2>1, <2>2, <2>3 DEF ScratchType, Missing
  <1>3. CASE PutPart(p)
    <2>1. req[p].upload \in Uploads
      BY <1>3, WorksOn DEF PutPart, PartPcs
    <2>2. QED
      BY <1>1, <1>3, <2>1 DEF PutPart, UploadType, scratch
  <1>4. CASE RemoveDir(p) \/ RemoveRecord(p)
    BY <1>4 DEF RemoveDir, RemoveRecord, CleanPcs
  <1>5. CASE UNCHANGED <<dir, parts, undone>>
    BY <1>5
  <1>6. QED
    BY <1>2, <1>3, <1>4, <1>5 DEF Work, CreateMultipartUpload, WritePart, TouchUpload, ConcatPart,
       RenameFinal, OpenFinal, Backup, UnlinkFinal, PutObjectMapping, AbortMultipartUpload,
       DeleteObject, upload, scratch

(* Records, part records and directories come and go together but for the request in between. *)
LEMMA AgreeStep ==
  ASSUME BaseInv, ClearedInv, PresentInv, [Next]_vars, Undisturbed, Undisturbed'
  PROVE  AgreeInv'
  <1>1. /\ TypeOK /\ RequestInv /\ KeysMatch /\ ~ Collecting
        /\ PartInv /\ VictimInv /\ AgreeInv
    BY DEF BaseInv, PresentInv, Undisturbed
  <1> DEFINE Clearing(p, u) == pc[p] = "removeRecord" /\ u = Head(victims[p])
             Agree(u) == /\ parts[u] # NoFiles => record[u] # None
                         /\ dir[u] => record[u] # None \/ "dir" \in undone[u]
                         /\ parts[u] # NoFiles =>
                              \/ dir[u] \/ "record" \in undone[u]
                              \/ \E p \in Procs : Clearing(p, u)
  <1>2. SUFFICES ASSUME NEW u \in Uploads PROVE Agree(u)'
    BY DEF AgreeInv
  <1>3. Agree(u) /\ NoFiles' = NoFiles
    BY <1>1 DEF AgreeInv, NoFiles
  <1>4. ASSUME dir'[u] = dir[u], parts'[u] = parts[u], record[u] # None => record'[u] # None,
               undone'[u] = undone[u], \A p \in Procs : Clearing(p, u) => Clearing(p, u)'
        PROVE  Agree(u)'
    BY <1>3, <1>4
  <1>5. ASSUME NEW p \in Procs, Enter(p) \/ Return(p) PROVE Agree(u)'
    <2>1. \A q \in Procs : Clearing(q, u) => Clearing(q, u)'
      BY <1>5, EnterOrReturn
    <2>2. QED
      BY <1>4, <1>5, <2>1, EnterOrReturn DEF upload, scratch
  <1>6. CASE Collect
    <2>1. /\ record'[u] = record[u] /\ parts'[u] = parts[u]
          /\ record[u] # None => dir'[u] = dir[u]
          /\ dir'[u] => dir[u]
          /\ "dir" \in undone[u] /\ dir'[u] => "dir" \in undone'[u]
          /\ "record" \in undone'[u] <=> "record" \in undone[u]
      BY <1>1, <1>6, QuietCollect DEF SameUpload, SameScratch
    <2>2. \A p \in Procs : Clearing(p, u) => Clearing(p, u)'
      BY <1>6 DEF Collect, locals
    <2>3. QED
      BY <1>3, <2>1, <2>2
  <1>7. CASE Expire
    BY <1>1, <1>4, <1>7, ExpireFrame DEF scratch, locals
  <1>8. CASE UNCHANGED vars
    BY <1>4, <1>8 DEF vars, upload, scratch, locals
  <1>9. ASSUME NEW p \in Procs, Work(p) PROVE Agree(u)'
    <2>1. /\ req' = req /\ pc[p] \in Pcs \ {"idle", "return"}
          /\ \A q \in Procs \ {p} : pc'[q] = pc[q] /\ victims'[q] = victims[q]
          /\ UploadType /\ ScratchType
      BY <1>1, <1>9, WorkFrame, TypeGroups DEF TypeOK
    <2>2. CASE pc[p] = "removeDir"
      <3> DEFINE h == Head(victims[p])
      <3>1. /\ Removes(h) /\ UNCHANGED <<record, parts>> /\ h \in Uploads
            /\ \/ victims'[p] = victims[p] /\ pc'[p] = "removeRecord"
               \/ RemoveUploadDirFails(h)
        BY <1>9, <2>2, RemoveEffect DEF CleanPcs, upload
      <3>2. record[h] # None
        BY <1>1, <2>2, WorksOn DEF VictimInv, CleanPcs
      <3>3. u # h => dir'[u] = dir[u] /\ undone'[u] = undone[u]
        BY <2>1, <3>1, Removal DEF SameScratch
      <3>4. (pc'[p] = "removeRecord" /\ victims'[p] = victims[p]) \/ dir'[h]
        BY <3>1 DEF RemoveUploadDirFails
      <3>5. \A q \in Procs : Clearing(q, u) => Clearing(q, u)'
        BY <2>1, <2>2
      <3>6. CASE u = h
        <4>1. record'[u] # None /\ (dir'[u] \/ \E q \in Procs : Clearing(q, u)')
          BY <3>1, <3>2, <3>4, <3>6
        <4>2. QED
          BY <4>1
      <3>7. CASE u # h
        BY <1>4, <3>1, <3>3, <3>5, <3>7
      <3>8. QED
        BY <3>6, <3>7
    <2>3. CASE pc[p] = "removeRecord"
      <3> DEFINE h == Head(victims[p])
      <3>1. /\ Deletes(h) /\ UNCHANGED dir /\ h \in Uploads
        BY <1>9, <2>3, RemoveEffect DEF CleanPcs, scratch
      <3>2. record[h] # None /\ (~ dir[h] \/ "dir" \in undone[h])
        BY <1>1, <2>3, WorksOn DEF VictimInv, CleanPcs, ClearedInv
      <3>3. /\ \/ parts'[h] = NoFiles
               \/ "record" \in undone'[h] /\ record'[h] = record[h]
            /\ "dir" \in undone[h] => "dir" \in undone'[h]
            /\ u # h => record'[u] = record[u] /\ parts'[u] = parts[u] /\ undone'[u] = undone[u]
        BY <2>1, <3>1, <3>2, Deletion DEF SameUpload
      <3>4. CASE u = h
        BY <1>3, <3>1, <3>2, <3>3, <3>4
      <3>5. CASE u # h
        <4>1. \A q \in Procs : Clearing(q, u) => Clearing(q, u)'
          BY <2>1, <3>5
        <4>2. QED
          BY <1>4, <3>1, <3>3, <3>5, <4>1
      <3>6. QED
        BY <3>4, <3>5
    <2>4. CASE pc[p] \notin CleanPcs
      <3>1. /\ dir[u] => dir'[u]
            /\ dir'[u] => dir[u] \/ record[u] # None
            /\ parts'[u] # NoFiles => parts[u] # NoFiles \/ (pc[p] = "putPart" /\ u = req[p].upload)
            /\ record[u] # None => record'[u] # None
            /\ undone'[u] = undone[u]
        BY <1>9, <2>4, WorkAgree, RecordStays DEF CleanPcs
      <3>2. pc[p] = "putPart" /\ u = req[p].upload => record[u] # None /\ dir[u]
        BY <1>1 DEF PartInv
      <3>3. \A q \in Procs : Clearing(q, u) => Clearing(q, u)'
        BY <2>1, <2>4 DEF CleanPcs
      <3>4. QED
        BY <1>3, <3>1, <3>2, <3>3
    <2>5. QED
      BY <2>2, <2>3, <2>4 DEF CleanPcs
  <1>10. ~ Crash
    BY DEF Crash, Fault, Undisturbed
  <1>11. QED
    BY <1>5, <1>6, <1>7, <1>8, <1>9, <1>10, NextCases

(* The three together, as long as no sweep runs and nothing has crashed. *)
LEMMA PresentStep ==
  ASSUME BaseInv, KeysMatch => ClearedInv, Undisturbed => PresentInv, [Next]_vars
  PROVE  Undisturbed' => PresentInv'
  <1>1. Undisturbed' => Undisturbed /\ ClearedInv
    BY FaultsGrow DEF Undisturbed
  <1>2. QED
    BY <1>1, PartStep, VictimStep, AgreeStep DEF PresentInv

------------------------------------------------------------------------------
(***************************************************************************)
(* ... and no fault but failed copies and backups                          *)
(***************************************************************************)
(* Which action a request takes, by where it is. *)
LEMMA ByPc ==
  ASSUME NEW p \in Procs, Work(p)
  PROVE  /\ pc[p] = "uploadPart" => OpenPart(p)
         /\ pc[p] = "writePart" => WritePart(p)
         /\ pc[p] = "putPart" => PutPart(p)
         /\ pc[p] = "touch" => TouchUpload(p)
         /\ pc[p] = "complete" => Validate(p)
         /\ pc[p] = "concat" => ConcatPart(p) \/ RenameFinal(p)
         /\ pc[p] = "commit" => OpenFinal(p)
         /\ pc[p] = "backup" => Backup(p)
         /\ pc[p] = "unlink" => UnlinkFinal(p)
         /\ pc[p] = "map" => PutObjectMapping(p)
         /\ pc[p] = "abort" => AbortMultipartUpload(p)
  <1>1. ASSUME CreateMultipartUpload(p) \/ DeleteObject(p) \/ RemoveDir(p) \/ RemoveRecord(p)
        PROVE  pc[p] \in {"create", "delete", "removeDir", "removeRecord"}
    BY <1>1 DEF CreateMultipartUpload, DeleteObject, RemoveDir, RemoveRecord, At
  <1>2. /\ OpenPart(p) => pc[p] = "uploadPart"
        /\ WritePart(p) => pc[p] = "writePart"
        /\ PutPart(p) => pc[p] = "putPart"
        /\ TouchUpload(p) => pc[p] = "touch"
        /\ Validate(p) => pc[p] = "complete"
        /\ ConcatPart(p) \/ RenameFinal(p) => pc[p] = "concat"
        /\ OpenFinal(p) => pc[p] = "commit"
        /\ Backup(p) => pc[p] = "backup"
        /\ UnlinkFinal(p) => pc[p] = "unlink"
        /\ PutObjectMapping(p) => pc[p] = "map"
        /\ AbortMultipartUpload(p) => pc[p] = "abort"
    BY DEF OpenPart, WritePart, PutPart, TouchUpload, Validate, ConcatPart, RenameFinal, OpenFinal,
       Backup, UnlinkFinal, PutObjectMapping, AbortMultipartUpload, At
  <1>3. QED
    BY <1>1, <1>2 DEF Work

(* A request that is not cleaning up works on the upload it names. *)
LEMMA WorksOnItsOwn ==
  ASSUME BaseInv, NEW p \in Procs, pc[p] \notin CleanPcs, NEW u \in Uploads, Works(p, u)
  PROVE  u = req[p].upload /\ req[p].op \in {"uploadPart", "complete", "abort"}
  <1>1. victims[p] = <<>>
    BY DEF BaseInv, RequestInv
  <1>2. QED
    BY <1>1 DEF Works

(* A fault that has not happened after a step does not happen in it. *)
LEMMA NoFault == ASSUME NEW f, f \notin faults' PROVE ~ Fault(f)
  BY DEF Fault

(* final.img is there from its rename to the unlink after the backup. *)
LEMMA FinalsStep ==
  ASSUME BaseInv, PresentInv, RetryFinals, [Next]_vars, Undisturbed, Undisturbed'
  PROVE  RetryFinals'
  <1>1. TypeOK /\ RequestInv /\ KeysMatch /\ ~ Collecting /\ VictimInv
    BY DEF BaseInv, PresentInv, Undisturbed
  <1> DEFINE Late(q) == pc[q] \in {"commit", "backup", "unlink"}
  <1>2. SUFFICES ASSUME NEW q \in Procs PROVE (Late(q) => final[req[q].upload] # None)'
    BY DEF RetryFinals
  <1>3. Late(q) => /\ final[req[q].upload] # None /\ record[req[q].upload] # None
                   /\ req[q].upload \in Uploads /\ Works(q, req[q].upload)
    BY <1>1, WorksOn DEF RetryFinals, VictimInv, CompletePcs, CommitPcs
  <1>4. ASSUME NEW p \in Procs, Enter(p) \/ Return(p)
        PROVE  (Late(q) => final[req[q].upload] # None)'
    BY <1>3, <1>4, EnterOrReturn DEF scratch
  <1>5. CASE Collect
    BY <1>1, <1>3, <1>5, QuietCollect DEF SameScratch, Collect, locals
  <1>6. CASE Expire \/ UNCHANGED vars
    BY <1>3, <1>6 DEF Expire, vars, scratch, locals
  <1>7. ASSUME NEW p \in Procs, Work(p), q # p PROVE (Late(q) => final[req[q].upload] # None)'
    <2>1. pc'[q] = pc[q] /\ req' = req
      BY <1>1, <1>7, WorkFrame
    <2>2. Late(q) => Kept(req[q].upload)
      BY <1>1, <1>3, <1>7, OthersKeep
    <2>3. QED
      BY <1>3, <2>1, <2>2 DEF Kept
  <1>8. ASSUME Work(q) PROVE (Late(q) => final[req[q].upload] # None)'
    <2>1. req' = req /\ pc[q] \in Pcs \ {"idle", "return"} /\ ScratchType
      BY <1>1, <1>8, WorkFrame, TypeGroups DEF TypeOK
    <2>2. SUFFICES ASSUME Late(q)' PROVE final'[req[q].upload] # None
      BY <2>1
    <2>3. pc[q] \in {"complete", "concat", "commit", "backup"}
      BY <1>1, <1>8, <2>1, <2>2, Moves DEF Pcs
    <2>4. req[q].upload \in Uploads
      BY <2>3, WorksOn DEF CompletePcs, CommitPcs
    <2>5. CASE pc[q] = "complete"
      BY <1>1, <1>8, <2>2, <2>5, ByPc DEF Validate, Answer, Goto, TypeOK
    <2>6. CASE pc[q] = "concat"
      <3>1. RenameFinal(q) /\ partial[req[q].upload]
        BY <1>1, <1>8, <2>2, <2>6, ByPc DEF ConcatPart, RenameFinal, GiveUp, CleanUp, TypeOK
      <3>2. out[q] \in Content /\ out[q] # None
        BY <1>1, NoneAssumption DEF TypeOK
      <3>3. QED
        BY <2>1, <2>4, <3>1, <3>2 DEF RenameFinal, ScratchType
    <2>7. CASE pc[q] \in {"commit", "backup"}
      BY <1>3, <1>8, <2>7, ByPc DEF OpenFinal, Backup, scratch
    <2>8. QED
      BY <2>3, <2>5, <2>6, <2>7
  <1>9. ~ Crash
    BY DEF Crash, Fault, Undisturbed
  <1>10. QED
    BY <1>4, <1>5, <1>6, <1>7, <1>8, <1>9, NextCases

(* A failed copy leaves the parts or the whole final.img behind. *)
LEMMA UploadsStep ==
  ASSUME BaseInv, PresentInv, RetryInv, [Next]_vars, Undisturbed, Undisturbed',
         faults' \subseteq {"copy", "backup"}
  PROVE  RetryUploads'
  <1>1. /\ TypeOK /\ RequestInv /\ KeysMatch /\ ~ Collecting
        /\ PartInv /\ AgreeInv /\ RetryFinals
    BY DEF BaseInv, PresentInv, Undisturbed, RetryInv
  <1>2. SUFFICES ASSUME NEW u \in Uploads PROVE CanRetry(u)'
    BY DEF RetryUploads
  <1>3. CanRetry(u) /\ NoFiles' = NoFiles
    BY DEF RetryInv, RetryUploads, NoFiles
  <1>4. ASSUME parts'[u] = parts[u], file'[u] = file[u], final'[u] = final[u],
               Busy(u) => Busy(u)', \A n \in PartNumbers : Writing(u, n) => Writing(u, n)'
        PROVE  CanRetry(u)'
    BY <1>3, <1>4 DEF CanRetry
  <1>5. /\ \A q \in Procs : \/ pc[q] \in {"concat", "map"} /\ req[q].upload = u
                            \/ \E i \in DOMAIN victims[q] : u = victims[q][i]
                            => Works(q, u)
        /\ \A q \in Procs : pc[q] \in {"writePart", "putPart"} /\ req[q].upload = u => Works(q, u)
    BY WorksOn DEF PartPcs, CompletePcs, CommitPcs
  <1>6. ASSUME \A q \in Procs : Works(q, u) =>
                 pc'[q] = pc[q] /\ req'[q] = req[q] /\ victims'[q] = victims[q]
        PROVE  (Busy(u) => Busy(u)') /\ \A n \in PartNumbers : Writing(u, n) => Writing(u, n)'
    BY <1>5, <1>6 DEF Busy, Writing
  <1>7. ASSUME NEW p \in Procs, Enter(p) \/ Return(p) PROVE CanRetry(u)'
    <2>1. /\ \A q \in Procs \ {p} : pc'[q] = pc[q] /\ req'[q] = req[q] /\ victims'[q] = victims[q]
          /\ victims[p] = <<>> /\ pc[p] \in {"idle", "return"}
          /\ UNCHANGED <<parts, file, final>>
      BY <1>7, EnterOrReturn DEF upload, scratch
    <2>2. (Busy(u) => Busy(u)') /\ \A n \in PartNumbers : Writing(u, n) => Writing(u, n)'
      BY <2>1 DEF Busy, Writing
    <2>3. QED
      BY <1>4, <2>1, <2>2
  <1>8. CASE Collect
    <2>1. /\ parts'[u] = parts[u]
          /\ parts[u] # NoFiles => file'[u] = file[u] /\ final'[u] = final[u]
      BY <1>1, <1>8, QuietCollect DEF SameUpload, SameScratch, AgreeInv
    <2>2. QED
      BY <1>3, <1>4, <1>6, <1>8, <2>1 DEF CanRetry, Collect, locals
  <1>9. CASE Expire \/ UNCHANGED vars
    BY <1>4, <1>6, <1>9 DEF Expire, vars, upload, scratch, locals
  <1>10. ASSUME NEW p \in Procs, Work(p) PROVE CanRetry(u)'
    <2>1. /\ req' = req /\ pc[p] \in Pcs \ {"idle", "return"}
          /\ \A q \in Procs \ {p} : pc'[q] = pc[q] /\ victims'[q] = victims[q]
          /\ UploadType /\ ScratchType
          /\ victims[p] \in Seq(Uploads)
      BY <1>1, <1>10, WorkFrame, TypeGroups DEF TypeOK
    <2>2. CASE ~ Works(p, u)
      <3>1. CASE pc[p] = "create" /\ req[p].upload = u
        <4>1. CreateMultipartUpload(p) /\ parts[u] = NoFiles
          BY <1>1, <1>10, <3>1, WorkRecords DEF BaseInv, HomeInv, CreateInv
        <4>2. QED
          BY <1>3, <4>1 DEF CreateMultipartUpload, CanRetry
      <3>2. CASE ~ (pc[p] = "create" /\ req[p].upload = u)
        <4>1. Kept(u)
          BY <1>1, <1>10, <2>2, <3>2, WorkKeeps
        <4>2. QED
          BY <1>4, <1>6, <2>1, <2>2, <4>1 DEF Kept
      <3>3. QED
        BY <3>1, <3>2
    <2>3. CASE Works(p, u) /\ pc[p] \notin CleanPcs
      <3>1. /\ u = req[p].upload /\ req[p].op \in {"uploadPart", "complete", "abort"}
            /\ pc[p] \in PartPcs \cup CompletePcs \cup {"abort"}
        BY <2>1, <2>3, <1>1, WorksOnItsOwn DEF RequestInv, Pcs, PartPcs, CompletePcs, CommitPcs, CleanPcs
      <3>2. \A q \in Procs : q # p => ~ Works(q, u)
        BY <1>1, <2>3, Alone
      <3>3. victims[p] = <<>>
        BY <1>1, <2>3 DEF RequestInv
      <3>4. Busy(u) => pc[p] \in {"concat", "map"}
        BY <1>5, <3>2, <3>3 DEF Busy
      <3>5. \A n \in PartNumbers : Writing(u, n) => pc[p] \in {"writePart", "putPart"} /\ req[p].part = n
        BY <1>5, <3>2 DEF Writing
      <3>6. ASSUME pc[p] \notin {"concat", "map", "writePart", "putPart"},
                   parts'[u] = parts[u], file'[u] = file[u], final'[u] = final[u]
            PROVE  CanRetry(u)'
        BY <1>4, <3>4, <3>5, <3>6
      <3>7. ASSUME pc'[p] \in {"concat", "map"} PROVE CanRetry(u)'
        BY <2>1, <3>1, <3>7 DEF CanRetry, Busy
      <3>8. ASSUME NEW i \in DOMAIN victims'[p], u = victims'[p][i] PROVE CanRetry(u)'
        BY <3>8 DEF CanRetry, Busy
      <3>9. ASSUME victims'[p] = <<req[p].upload>> PROVE CanRetry(u)'
        <4>1. 1 \in DOMAIN victims'[p] /\ u = victims'[p][1]
          BY <3>1, <3>9
        <4>2. QED
          BY <3>8, <4>1
      <3>10. CASE pc[p] = "uploadPart"
        <4>1. OpenPart(p) /\ req[p].part \in PartNumbers
          BY <1>1, <1>10, <3>10, ByPc, AtWork DEF PartPcs
        <4>2. CASE Missing(p)
          BY <3>6, <3>10, <4>1, <4>2 DEF OpenPart, upload
        <4>3. CASE ~ Missing(p)
          <5>1. /\ file' = [file EXCEPT ![u][req[p].part] = Torn]
                /\ UNCHANGED <<parts, final>> /\ pc'[p] = "writePart"
            BY <1>1, <3>1, <4>1, <4>3 DEF OpenPart, Goto, upload, TypeOK
          <5>2. \A n \in PartNumbers : n # req[p].part => file'[u][n] = file[u][n]
            BY <2>1, <4>1, <5>1, FileCell
          <5>3. \A n \in PartNumbers : n = req[p].part => Writing(u, n)'
            BY <2>1, <3>1, <5>1 DEF Writing
          <5>4. ASSUME NEW n \in PartNumbers, parts[u][n] # None => file[u][n] = parts[u][n] \/ Writing(u, n)
               PROVE  parts'[u][n] # None => file'[u][n] = parts'[u][n] \/ Writing(u, n)'
            <6>1. CASE n = req[p].part
              BY <3>5, <3>10, <5>1, <5>2, <5>3, <6>1
            <6>2. CASE n # req[p].part
              BY <3>5, <3>10, <5>1, <5>2, <5>3, <5>4, <6>2
            <6>3. QED
              BY <6>1, <6>2
          <5>5. QED
            BY <1>3, <3>4, <3>10, <5>1, <5>4 DEF CanRetry
        <4>4. QED
          BY <4>2, <4>3
      <3>11. CASE pc[p] = "writePart"
        <4>1. WritePart(p) /\ req[p].part \in PartNumbers /\ req[p].data \in Data
          BY <1>1, <1>10, <3>11, ByPc, AtWork DEF PartPcs
        <4>2. ~ Fault("body")
          BY NoFault
        <4>3. /\ pc'[p] = "putPart" /\ UNCHANGED <<parts, final>>
              /\ \E x \in {None, req[p].data} : file' = [file EXCEPT ![u][req[p].part] = x]
          BY <1>1, <3>1, <4>1, <4>2 DEF WritePart, Goto, upload, TypeOK
        <4>4. \A n \in PartNumbers : n # req[p].part => file'[u][n] = file[u][n]
          BY <2>1, <4>1, <4>3, FileCell
        <4>5. \A n \in PartNumbers : n = req[p].part => Writing(u, n)'
          BY <2>1, <3>1, <4>3 DEF Writing
        <4>6. ASSUME NEW n \in PartNumbers, parts[u][n] # None => file[u][n] = parts[u][n] \/ Writing(u, n)
             PROVE  parts'[u][n] # None => file'[u][n] = parts'[u][n] \/ Writing(u, n)'
          <5>1. CASE n = req[p].part
            BY <3>5, <4>3, <4>4, <4>5, <5>1
          <5>2. CASE n # req[p].part
            BY <3>5, <4>3, <4>4, <4>5, <4>6, <5>2
          <5>3. QED
            BY <5>1, <5>2
        <4>7. QED
          BY <1>3, <3>4, <3>11, <4>3, <4>6 DEF CanRetry
      <3>12. CASE pc[p] = "putPart"
        <4>1. PutPart(p) /\ req[p].part \in PartNumbers /\ req[p].data \in Data
          BY <1>1, <1>10, <3>12, ByPc, AtWork DEF PartPcs
        <4>2. ~ Fault("store")
          BY NoFault
        <4>3. /\ parts' = [parts EXCEPT ![u][req[p].part] = req[p].data]
              /\ UNCHANGED <<file, final>>
          BY <3>1, <4>1, <4>2 DEF PutPart, scratch
        <4>4. /\ parts'[u][req[p].part] = req[p].data
              /\ \A n \in PartNumbers : n # req[p].part => parts'[u][n] = parts[u][n]
          BY <2>1, <4>1, <4>3, PartCell
        <4>5. file[u][req[p].part] = req[p].data
          BY <1>1, <3>1, <3>12 DEF PartInv
        <4>6. \A n \in PartNumbers : parts[u] = NoFiles => parts[u][n] = None
          BY DEF NoFiles
        <4>7. QED
          BY <1>3, <3>4, <3>5, <3>12, <4>3, <4>4, <4>5, <4>6 DEF CanRetry
      <3>13. CASE pc[p] = "touch"
        BY <1>10, <3>6, <3>13, ByPc DEF TouchUpload, scratch
      <3>14. CASE pc[p] = "complete"
        <4>1. Validate(p)
          BY <1>10, <3>14, ByPc
        <4>2. QED
          BY <3>6, <3>14, <4>1 DEF Validate, upload
      <3>15. CASE pc[p] = "concat"
        <4>1. ConcatPart(p) \/ RenameFinal(p)
          BY <1>10, <3>15, ByPc
        <4>2. CASE ConcatPart(p)
          <5>1. pc'[p] = "concat" \/ victims'[p] = <<req[p].upload>>
            BY <1>1, <3>15, <4>2 DEF ConcatPart, GiveUp, CleanUp, TypeOK
          <5>2. QED
            BY <3>7, <3>9, <5>1
        <4>3. CASE RenameFinal(p)
          <5>1. final'[u] = out[p] \/ victims'[p] = <<req[p].upload>>
            BY <1>1, <2>1, <3>1, <4>3 DEF RenameFinal, GiveUp, CleanUp, TypeOK
          <5>2. out[p] # None
            BY <1>1, NoneAssumption DEF TypeOK
          <5>3. QED
            BY <3>9, <5>1, <5>2 DEF CanRetry
        <4>4. QED
          BY <4>1, <4>2, <4>3
      <3>16. CASE pc[p] \in {"commit", "backup"}
        BY <1>10, <3>6, <3>16, ByPc DEF OpenFinal, Backup, upload, scratch
      <3>17. CASE pc[p] = "unlink"
        BY <1>1, <1>10, <3>7, <3>17, Moves
      <3>18. CASE pc[p] = "map"
        <4>1. PutObjectMapping(p) /\ ~ Fault("store")
          BY <1>10, <3>18, ByPc, NoFault
        <4>2. victims'[p] = <<req[p].upload>>
          BY <1>1, <4>1 DEF PutObjectMapping, CleanUp, TypeOK
        <4>3. QED
          BY <3>9, <4>2
      <3>19. CASE pc[p] = "abort"
        BY <1>10, <3>6, <3>19, ByPc DEF AbortMultipartUpload, upload, scratch
      <3>20. QED
        BY <3>1, <3>10, <3>11, <3>12, <3>13, <3>14, <3>15, <3>16, <3>17, <3>18, <3>19
           DEF PartPcs, CompletePcs, CommitPcs
    <2>4. CASE Works(p, u) /\ pc[p] \in CleanPcs
      <3> DEFINE h == Head(victims[p])
      <3>1. /\ h \in Uploads /\ victims[p] # <<>> /\ h = victims[p][1]
            /\ \A q \in Procs : q # p => ~ Works(q, u)
        BY <1>1, <2>4, WorksOn, Alone
      <3>2. CASE pc[p] = "removeDir"
        <4>1. /\ RemoveUploadDir(h) /\ UNCHANGED parts /\ victims'[p] = victims[p]
          <5>1. ~ RemoveUploadDirFails(h)
            BY NoFault DEF RemoveUploadDirFails
          <5>2. QED
            BY <1>10, <3>2, <5>1, RemoveEffect DEF CleanPcs, upload, Removes
        <4>2. CASE \E i \in DOMAIN victims[p] : u = victims[p][i]
          BY <4>1, <4>2 DEF CanRetry, Busy
        <4>3. CASE ~ \E i \in DOMAIN victims[p] : u = victims[p][i]
          <5>1. u # h
            BY <2>4, <4>3, WorksOn
          <5>2. file'[u] = file[u] /\ final'[u] = final[u]
            BY <2>1, <4>1, <5>1 DEF RemoveUploadDir, ScratchType
          <5>3. ~ Busy(u) /\ \A n \in PartNumbers : ~ Writing(u, n)
            BY <1>5, <3>1, <3>2, <4>3 DEF Busy, Writing
          <5>4. QED
            BY <1>4, <4>1, <5>2, <5>3
        <4>4. QED
          BY <4>2, <4>3
      <3>3. CASE pc[p] = "removeRecord"
        <4>1. /\ DeleteUpload(h) /\ UNCHANGED <<file, final>> /\ victims'[p] = Tail(victims[p])
          <5>1. ~ DeleteUploadFails(h)
            BY NoFault DEF DeleteUploadFails
          <5>2. QED
            BY <1>10, <3>3, <5>1, RemoveEffect DEF CleanPcs, scratch, Deletes
        <4>2. record[h] # None
          BY <1>1, <3>3, WorksOn DEF PresentInv, VictimInv, CleanPcs
        <4>3. parts'[h] = NoFiles /\ (u # h => parts'[u] = parts[u])
          BY <2>1, <3>1, <4>1, <4>2 DEF DeleteUpload, UploadType
        <4>4. CASE u = h
          BY <1>3, <4>3, <4>4 DEF CanRetry
        <4>5. ASSUME u # h, NEW i \in DOMAIN victims[p], u = victims[p][i] PROVE CanRetry(u)'
          <5>1. i - 1 \in DOMAIN Tail(victims[p]) /\ Tail(victims[p])[i - 1] = u
            BY <2>1, <3>1, <4>5
          <5>2. QED
            BY <4>1, <5>1 DEF CanRetry, Busy
        <4>6. CASE u # h /\ ~ \E i \in DOMAIN victims[p] : u = victims[p][i]
          <5>1. ~ Busy(u) /\ \A n \in PartNumbers : ~ Writing(u, n)
            BY <1>5, <3>1, <3>3, <4>6 DEF Busy, Writing
          <5>2. QED
            BY <1>4, <4>1, <4>3, <4>6, <5>1
        <4>7. QED
          BY <4>4, <4>5, <4>6
      <3>4. QED
        BY <2>4, <3>2, <3>3 DEF CleanPcs
    <2>5. QED
      BY <2>2, <2>3, <2>4
  <1>11. ~ Crash
    BY DEF Crash, Fault, Undisturbed
  <1>12. QED
    BY <1>7, <1>8, <1>9, <1>10, <1>11, NextCases

(* Both together, while nothing but copies and backups has failed. *)
LEMMA RetryStep ==
  ASSUME BaseInv, Undisturbed => PresentInv, [Next]_vars,
         Undisturbed /\ faults \subseteq {"copy", "backup"} => RetryInv
  PROVE  (Undisturbed /\ faults \subseteq {"copy", "backup"} => RetryInv)'
  <1>1. SUFFICES ASSUME Undisturbed', faults' \subseteq {"copy", "backup"} PROVE RetryInv'
    OBVIOUS
  <1>2. Undisturbed /\ faults \subseteq {"copy", "backup"}
    BY <1>1, FaultsGrow DEF Undisturbed
  <1>3. QED
    BY <1>1, <1>2, UploadsStep, FinalsStep DEF RetryInv

------------------------------------------------------------------------------
(***************************************************************************)
(* With sweeps, and no fault but broken bodies and failed copies           *)
(***************************************************************************)
(* Only the three steps of UploadPart write a part's file or record, and   *)
(* only RenameFinal a final.img; the others leave or remove them.          *)
LEMMA WorkFiles ==
  ASSUME BaseInv, NEW p \in Procs, Work(p), NEW u \in Uploads
  PROVE  /\ pc[p] \notin {"uploadPart", "writePart", "putPart"} =>
              \A n \in PartNumbers : /\ file'[u][n] \in {None, file[u][n]}
                                     /\ parts'[u][n] \in {None, parts[u][n]}
         /\ ~ RenameFinal(p) => final'[u] \in {None, final[u]}
  <1> USE DEF At
  <1>1. /\ TypeOK /\ RequestInv /\ UploadType /\ ScratchType
        /\ pc[p] \notin {"idle", "return"}
    BY TypeGroups, WorkFrame DEF BaseInv
  <1>2. CASE OpenPart(p) \/ WritePart(p) \/ PutPart(p)
    BY <1>2 DEF OpenPart, WritePart, PutPart, scratch
  <1>3. CASE ConcatPart(p)
    <2>1. req[p].upload \in Uploads
      BY <1>3, WorksOn DEF ConcatPart, CompletePcs
    <2>2. Head(todo[p]).number \in PartNumbers
      <3>1. todo[p] \in Seq(ListedPart) /\ todo[p] # <<>>
        BY <1>1, <1>3 DEF ConcatPart, TypeOK
      <3>2. Head(todo[p]) \in ListedPart
        BY <3>1
      <3>3. QED
        BY <3>2 DEF ListedPart
    <2>3. /\ UNCHANGED <<parts, final>>
          /\ file' = file \/ file' = [file EXCEPT ![req[p].upload][Head(todo[p]).number] = None]
      BY <1>3 DEF ConcatPart, ConsumePart, upload
    <2>4. ASSUME NEW n \in PartNumbers PROVE file'[u][n] \in {None, file[u][n]}
      <3>1. CASE file' = file
        BY <3>1
      <3>2. CASE file' = [file EXCEPT ![req[p].upload][Head(todo[p]).number] = None]
        BY <1>1, <2>1, <2>2, <3>2, FileCell
      <3>3. QED
        BY <2>3, <3>1, <3>2
    <2>5. QED
      BY <2>3, <2>4
  <1>4. CASE RenameFinal(p)
    BY <1>4 DEF RenameFinal, upload
  <1>5. CASE UnlinkFinal(p)
    <2>1. req[p].upload \in Uploads
      BY <1>5, WorksOn DEF UnlinkFinal, CompletePcs, CommitPcs
    <2>2. QED
      BY <1>1, <1>5, <2>1 DEF UnlinkFinal, ScratchType, upload
  <1>6. CASE RemoveDir(p)
    <2>1. Head(victims[p]) \in Uploads
      BY <1>6, WorksOn DEF RemoveDir, CleanPcs
    <2>2. parts' = parts /\ Removes(Head(victims[p]))
      BY <1>6, RemoveDirs DEF RemoveDir, upload
    <2>3. SameScratch(u) \/ Shrinks(u)
      BY <1>1, <2>1, <2>2, Removal
    <2>4. QED
      BY <2>2, <2>3 DEF SameScratch, Shrinks
  <1>7. CASE RemoveRecord(p)
    <2>1. Head(victims[p]) \in Uploads
      BY <1>7, WorksOn DEF RemoveRecord, CleanPcs
    <2>2. parts'[u] \in {NoFiles, parts[u]} /\ file' = file /\ final' = final
      BY <1>1, <1>7, <2>1, RemoveRecords, Deletion DEF RemoveRecord, SameUpload, scratch
    <2>3. QED
      BY <2>2 DEF NoFiles
  <1>8. CASE UNCHANGED <<parts, file, final>>
    BY <1>8
  <1>9. QED
    BY <1>2, <1>3, <1>4, <1>5, <1>6, <1>7, <1>8 DEF Work, CreateMultipartUpload, TouchUpload,
       Validate, OpenFinal, Backup, PutObjectMapping, AbortMultipartUpload, DeleteObject,
       upload, scratch

(* While neither backups nor removals fail nor the bridge crashes,         *)
(* final.img goes with the request that made it.                           *)
LEMMA FinalInUseStep ==
  ASSUME BaseInv, FinalInUse, [Next]_vars, KeysMatch,
         faults' \cap {"backup", "files", "crash"} = {}
  PROVE  FinalInUse'
  <1>1. TypeOK /\ RequestInv /\ GcInv
    BY DEF BaseInv
  <1>2. SUFFICES ASSUME NEW u \in Uploads, final'[u] # None
                 PROVE  \E p \in Procs : Finishing(p, u)'
    BY DEF FinalInUse
  <1>3. final[u] # None => \E p \in Procs : Finishing(p, u)
    BY DEF FinalInUse
  <1>4. \A q \in Procs : Finishing(q, u) => Works(q, u)
    BY WorksOn DEF Finishing, CompletePcs, CommitPcs
  <1>5. ASSUME NEW p \in Procs, Enter(p) \/ Return(p) PROVE \E q \in Procs : Finishing(q, u)'
    BY <1>2, <1>3, <1>5, EnterOrReturn DEF Finishing, scratch
  <1>6. CASE Collect
    BY <1>1, <1>2, <1>3, <1>6, CollectFrame DEF Finishing, SameScratch, Shrinks, locals
  <1>7. CASE Expire \/ UNCHANGED vars
    BY <1>2, <1>3, <1>7 DEF Expire, vars, Finishing, scratch, locals
  <1>8. ASSUME NEW p \in Procs, Work(p) PROVE \E q \in Procs : Finishing(q, u)'
    <2>1. /\ req' = req /\ \A q \in Procs \ {p} : pc'[q] = pc[q]
      BY <1>1, <1>8, WorkFrame
    <2>2. CASE final[u] = None
      <3>1. RenameFinal(p) /\ pc[p] = "concat"
        BY <1>2, <1>8, <2>2, WorkFiles DEF RenameFinal, At
      <3>2. req[p].upload = u /\ pc'[p] = "commit"
        BY <1>1, <1>2, <2>2, <3>1 DEF RenameFinal, Goto, TypeOK
      <3>3. QED
        BY <2>1, <3>2 DEF Finishing
    <2>3. CASE final[u] # None
      <3>1. PICK q \in Procs : Finishing(q, u)
        BY <1>3, <2>3
      <3>2. CASE q # p
        BY <2>1, <3>1, <3>2 DEF Finishing
      <3>3. CASE q = p
        <4>1. CASE pc[p] = "commit"
          <5>1. OpenFinal(p) /\ req[p].upload = u
            BY <1>8, <3>1, <3>3, <4>1, ByPc DEF Finishing
          <5>2. pc'[p] = "backup"
            BY <1>1, <2>3, <5>1 DEF OpenFinal, Goto, TypeOK
          <5>3. QED
            BY <2>1, <5>1, <5>2 DEF Finishing
        <4>2. CASE pc[p] = "backup"
          <5>1. Backup(p) /\ req[p].upload = u /\ ~ Fault("backup")
            BY <1>8, <3>1, <3>3, <4>2, ByPc, NoFault DEF Finishing
          <5>2. pc'[p] = "unlink"
            BY <1>1, <5>1 DEF Backup, Goto, TypeOK
          <5>3. QED
            BY <2>1, <5>1, <5>2 DEF Finishing
        <4>3. CASE pc[p] = "unlink"
          <5>1. UnlinkFinal(p) /\ req[p].upload = u /\ ~ Fault("files")
            BY <1>8, <3>1, <3>3, <4>3, ByPc, NoFault DEF Finishing
          <5>2. final'[u] = None
            BY <1>1, <5>1 DEF UnlinkFinal, TypeOK
          <5>3. QED
            BY <1>2, <5>2
        <4>4. QED
          BY <3>1, <3>3, <4>1, <4>2, <4>3 DEF Finishing
      <3>4. QED
        BY <3>2, <3>3
    <2>4. QED
      BY <2>2, <2>3
  <1>9. ~ Crash
    BY DEF Crash, Fault
  <1>10. QED
    BY <1>5, <1>6, <1>7, <1>8, <1>9, NextCases

(* Appending the part at the head of the list moves its ETag over. *)
LEMMA EtagsTail ==
  ASSUME NEW s \in Seq(ListedPart), s # <<>>, NEW o \in Content
  PROVE  Append(o, Head(s).etag) \o Etags(Tail(s)) = o \o Etags(s)
  <1> DEFINE A == Data \cup {Torn}
             e == Etags(s)
             t == Etags(Tail(s))
             x == Head(s).etag
             m == Len(o)
             k == Len(s)
  <1>1. k \in Nat /\ k > 0 /\ DOMAIN s = 1..k /\ m \in Nat /\ o \in Seq(A)
    BY DEF Content
  <1>2. ASSUME NEW i \in 1..k PROVE s[i].etag \in A
    <2>1. s[i] \in ListedPart
      BY <1>1
    <2>2. QED
      BY <2>1 DEF ListedPart
  <1>3. /\ Tail(s) \in Seq(ListedPart) /\ Len(Tail(s)) = k - 1 /\ DOMAIN Tail(s) = 1..(k - 1)
        /\ \A i \in 1..(k - 1) : Tail(s)[i] = s[i + 1]
        /\ Head(s) = s[1]
    OBVIOUS
  <1>4. e = [i \in 1..k |-> s[i].etag] /\ t = [i \in 1..(k - 1) |-> Tail(s)[i].etag]
    BY <1>1, <1>3 DEF Etags
  <1> HIDE DEF e, t, x, m, k, A
  <1>5. e \in Seq(A) /\ Len(e) = k
    BY <1>1, <1>2, <1>4
  <1>6. \A i \in 1..(k - 1) : t[i] = e[i + 1] /\ t[i] \in A
    <2>1. \A i \in 1..(k - 1) : i + 1 \in 1..k
      BY <1>1
    <2>2. QED
      BY <1>2, <1>3, <1>4, <2>1
  <1>7. \E n \in Nat : n = k - 1 /\ DOMAIN t = 1..n /\ t = [i \in 1..n |-> t[i]]
    BY <1>1, <1>4
  <1>8. t \in Seq(A) /\ Len(t) = k - 1
    BY <1>6, <1>7
  <1>9. x = e[1] /\ x \in A
    BY <1>1, <1>2, <1>3, <1>4 DEF x
  <1>10. ASSUME NEW a \in Seq(A), Len(a) = m + 1, a[m + 1] = x, \A i \in 1..m : a[i] = o[i]
         PROVE  a \o t = o \o e
    <2>1. a \o t \in Seq(A) /\ o \o e \in Seq(A)
      BY <1>1, <1>5, <1>8
    <2>2. Len(a \o t) = m + k /\ Len(o \o e) = m + k
      <3>1. Len(a \o t) = Len(a) + Len(t)
        BY <1>8, <1>10
      <3>2. Len(o \o e) = Len(o) + Len(e)
        BY <1>1, <1>5
      <3>3. QED
        BY <1>1, <1>5, <1>8, <1>10, <3>1, <3>2 DEF m
    <2>3. ASSUME NEW i \in 1..(m + k) PROVE (a \o t)[i] = (o \o e)[i]
      <3>1. CASE i <= m
        BY <1>1, <1>5, <1>8, <1>10, <3>1 DEF m
      <3>2. CASE i = m + 1
        BY <1>1, <1>5, <1>8, <1>9, <1>10, <3>2 DEF m
      <3>3. CASE i > m + 1
        <4>1. i - (m + 1) \in 1..(k - 1) /\ i - m = (i - (m + 1)) + 1
          BY <1>1, <3>3
        <4>2. (a \o t)[i] = t[i - (m + 1)]
          BY <1>1, <1>8, <1>10, <3>3
        <4>3. (o \o e)[i] = e[i - m]
          BY <1>1, <1>5, <3>3 DEF m
        <4>4. t[i - (m + 1)] = e[(i - (m + 1)) + 1]
          BY <1>6, <4>1
        <4>5. QED
          BY <4>1, <4>2, <4>3, <4>4
      <3>4. i <= m \/ i = m + 1 \/ i > m + 1
        BY <1>1
      <3>5. QED
        BY <3>1, <3>2, <3>3, <3>4
    <2>4. QED
      BY <2>1, <2>2, <2>3
  <1>11. /\ Append(o, x) \in Seq(A) /\ Len(Append(o, x)) = m + 1 /\ Append(o, x)[m + 1] = x
         /\ \A i \in 1..m : Append(o, x)[i] = o[i]
    BY <1>1, <1>9 DEF m
  <1>12. Append(o, x) \o t = o \o e
    BY <1>10, <1>11
  <1>13. QED
    BY <1>12 DEF e, t, x

(* From the whole claim to the empty list. *)
LEMMA MakesUpAll == ASSUME NEW c \in Seq(ListedPart) PROVE MakesUp(<<>>, c, c)
  <1>1. ASSUME NEW i \in DOMAIN c PROVE c[i].etag \in Data
    <2>1. c[i] \in ListedPart
      OBVIOUS
    <2>2. QED
      BY <2>1 DEF ListedPart
  <1>2. Etags(c) \in Seq(Data)
    BY <1>1 DEF Etags
  <1>3. <<>> \o Etags(c) = Etags(c)
    BY <1>2
  <1>4. QED
    BY <1>3 DEF MakesUp

(* With nothing left to append the file is what was claimed. *)
LEMMA MakesUpEmpty ==
  ASSUME NEW o \in Content, NEW c, MakesUp(o, <<>>, c)
  PROVE  o = Etags(c)
  <1>1. Etags(<<>>) = <<>>
    BY DEF Etags
  <1>2. o \o <<>> = o
    BY DEF Content
  <1>3. QED
    BY <1>1, <1>2 DEF MakesUp

(* A recorded ETag is that of the bytes in the file, unless the part is being written. *)
LEMMA FilesStep ==
  ASSUME BaseInv, FilesInv, [Next]_vars, KeysMatch, faults' \subseteq {"body", "copy"}
  PROVE  FilesInv'
  <1>1. TypeOK /\ RequestInv /\ GcInv
    BY DEF BaseInv
  <1> DEFINE Same(u, n) == file[u][n] # None /\ parts[u][n] # None =>
                             file[u][n] = parts[u][n] \/ Writing(u, n)
             Put(q) == pc[q] = "putPart" =>
                         file[req[q].upload][req[q].part] \in {None, req[q].data}
             InPart(q) == pc[q] \in {"writePart", "putPart"}
  <1>2. /\ \A u \in Uploads, n \in PartNumbers : Same(u, n)
        /\ \A q \in Procs : Put(q)
    BY DEF FilesInv
  <1>3. \A q \in Procs : InPart(q) =>
          /\ req[q].upload \in Uploads /\ Works(q, req[q].upload)
          /\ req[q].part \in PartNumbers /\ req[q].data \in Data
    BY <1>1, WorksOn, AtWork DEF PartPcs
  <1>4. ASSUME \A q \in Procs : InPart(q) => pc'[q] = pc[q] /\ req'[q] = req[q],
               \A q \in Procs : InPart(q)' => InPart(q) /\ pc'[q] = pc[q] /\ req'[q] = req[q],
               \A u \in Uploads, n \in PartNumbers :
                 file'[u][n] \in {None, file[u][n]} /\ parts'[u][n] \in {None, parts[u][n]}
        PROVE  FilesInv'
    <2>1. ASSUME NEW u \in Uploads, NEW n \in PartNumbers PROVE Same(u, n)'
      <3>1. Writing(u, n) => Writing(u, n)'
        BY <1>4 DEF Writing
      <3>2. QED
        BY <1>2, <1>4, <3>1
    <2>2. ASSUME NEW q \in Procs PROVE Put(q)'
      BY <1>2, <1>3, <1>4
    <2>3. QED
      BY <2>1, <2>2 DEF FilesInv
  <1>5. ASSUME NEW p \in Procs, Enter(p) \/ Return(p) PROVE FilesInv'
    BY <1>4, <1>5, EnterOrReturn DEF upload, scratch
  <1>6. CASE Collect
    <2>1. UNCHANGED <<pc, req>>
      BY <1>1, <1>6, CollectFrame DEF locals
    <2>2. \A u \in Uploads : /\ \A n \in PartNumbers : file'[u][n] \in {None, file[u][n]}
                             /\ parts'[u] = parts[u] \/ parts'[u] = NoFiles
      BY <1>1, <1>6, CollectFrame DEF SameUpload, SameScratch, Shrinks
    <2>3. QED
      BY <1>4, <2>1, <2>2 DEF NoFiles
  <1>7. CASE Expire \/ UNCHANGED vars
    BY <1>4, <1>7 DEF Expire, vars, upload, scratch, locals
  <1>8. ASSUME NEW p \in Procs, Work(p), pc[p] \notin {"uploadPart", "writePart", "putPart"}
        PROVE  FilesInv'
    <2>1. /\ req' = req /\ \A q \in Procs \ {p} : pc'[q] = pc[q]
          /\ pc[p] \in Pcs \ {"idle", "return"}
      BY <1>1, <1>8, WorkFrame DEF TypeOK
    <2>2. ~ InPart(p)'
      BY <1>1, <1>8, <2>1, Moves DEF Pcs
    <2>3. \A u \in Uploads, n \in PartNumbers :
            file'[u][n] \in {None, file[u][n]} /\ parts'[u][n] \in {None, parts[u][n]}
      BY <1>8, WorkFiles
    <2>4. QED
      BY <1>4, <1>8, <2>1, <2>2, <2>3
  <1>9. ASSUME NEW p \in Procs, Work(p), pc[p] \in {"uploadPart", "writePart", "putPart"}
        PROVE  FilesInv'
    <2> DEFINE v == req[p].upload
               m == req[p].part
    <2>1. /\ req' = req /\ \A q \in Procs \ {p} : pc'[q] = pc[q]
          /\ UploadType /\ ScratchType
      BY <1>1, <1>9, WorkFrame, TypeGroups
    <2>2. /\ v \in Uploads /\ m \in PartNumbers /\ req[p].data \in Data /\ Works(p, v)
      BY <1>1, <1>9, WorksOn, AtWork DEF PartPcs
    <2>3. \A q \in Procs : q # p => ~ Works(q, v)
      BY <2>2, Alone
    <2>4. \A q \in Procs \ {p} : InPart(q) => req[q].upload # v
      BY <1>3, <2>3
    <2>5. ASSUME \A u \in Uploads, n \in PartNumbers : u # v \/ n # m =>
                   file'[u][n] = file[u][n] /\ parts'[u][n] = parts[u][n],
                 \A u \in Uploads, n \in PartNumbers : u = v /\ n = m => Same(u, n)',
                 Put(p)'
          PROVE  FilesInv'
      <3>1. ASSUME NEW u \in Uploads, NEW n \in PartNumbers PROVE Same(u, n)'
        <4>1. CASE u = v /\ n = m
          BY <2>5, <4>1
        <4>2. CASE u # v \/ n # m
          <5>1. Writing(u, n) => Writing(u, n)'
            <6>1. ASSUME NEW q \in Procs, InPart(q), req[q].upload = u, req[q].part = n PROVE q # p
              BY <4>2, <6>1
            <6>2. QED
              BY <2>1, <6>1 DEF Writing
          <5>2. QED
            BY <1>2, <2>5, <4>2, <5>1
        <4>3. QED
          BY <4>1, <4>2
      <3>2. ASSUME NEW q \in Procs, q # p PROVE Put(q)'
        BY <1>2, <1>3, <2>1, <2>4, <2>5, <3>2
      <3>3. QED
        BY <2>5, <3>1, <3>2 DEF FilesInv
    <2>6. CASE pc[p] = "uploadPart"
      <3>1. OpenPart(p)
        BY <1>9, <2>6, ByPc
      <3>2. CASE Missing(p)
        <4>1. UNCHANGED <<file, parts>> /\ pc'[p] = "return"
          BY <1>1, <3>1, <3>2 DEF OpenPart, Answer, TypeOK, upload
        <4>2. QED
          BY <1>4, <2>1, <2>6, <4>1
      <3>3. CASE ~ Missing(p)
        <4>1. /\ file' = [file EXCEPT ![v][m] = Torn]
              /\ UNCHANGED parts /\ pc'[p] = "writePart"
          BY <1>1, <3>1, <3>3 DEF OpenPart, Goto, TypeOK, upload
        <4>2. \A u \in Uploads, n \in PartNumbers : u # v \/ n # m => file'[u][n] = file[u][n]
          BY <2>1, <2>2, <4>1, FileCell
        <4>3. \A u \in Uploads, n \in PartNumbers : u = v /\ n = m => Writing(u, n)'
          BY <2>1, <4>1 DEF Writing
        <4>4. QED
          BY <2>1, <2>5, <4>1, <4>2, <4>3
      <3>4. QED
        BY <3>2, <3>3
    <2>7. CASE pc[p] = "writePart"
      <3>1. WritePart(p) /\ UNCHANGED parts
        BY <1>9, <2>7, ByPc DEF WritePart, upload
      <3>2. PICK x \in {None, req[p].data} :
              /\ file' = [file EXCEPT ![v][m] = x]
              /\ pc'[p] = "putPart" \/ (pc'[p] = "return" /\ x = None)
        BY <1>1, <3>1 DEF WritePart, Goto, Answer, TypeOK
      <3>3. /\ \A u \in Uploads, n \in PartNumbers : u # v \/ n # m => file'[u][n] = file[u][n]
            /\ file'[v][m] = x
        BY <2>1, <2>2, <3>2, FileCell
      <3>4. \A u \in Uploads, n \in PartNumbers : u = v /\ n = m => Same(u, n)'
        <4>1. CASE pc'[p] = "putPart"
          <5>1. \A u \in Uploads, n \in PartNumbers : u = v /\ n = m => Writing(u, n)'
            BY <2>1, <4>1 DEF Writing
          <5>2. QED
            BY <2>1, <5>1
        <4>2. CASE x = None
          BY <2>1, <3>3, <4>2
        <4>3. QED
          BY <3>2, <4>1, <4>2
      <3>5. QED
        BY <2>1, <2>5, <3>1, <3>3, <3>4
    <2>8. CASE pc[p] = "putPart"
      <3>1. PutPart(p) /\ UNCHANGED file /\ ~ Fault("store")
        BY <1>9, <2>8, ByPc, NoFault DEF PutPart, scratch
      <3>2. parts' = [parts EXCEPT ![v][m] = req[p].data] /\ pc'[p] = "touch"
        BY <1>1, <3>1 DEF PutPart, Goto, TypeOK
      <3>3. /\ \A u \in Uploads, n \in PartNumbers : u # v \/ n # m => parts'[u][n] = parts[u][n]
            /\ parts'[v][m] = req[p].data
        BY <2>1, <2>2, <3>2, PartCell
      <3>4. file[v][m] \in {None, req[p].data}
        BY <1>2, <2>8
      <3>5. \A u \in Uploads, n \in PartNumbers : u = v /\ n = m => Same(u, n)'
        BY <2>1, <3>1, <3>3, <3>4
      <3>6. QED
        BY <2>5, <3>1, <3>2, <3>3, <3>5
    <2>9. QED
      BY <1>9, <2>6, <2>7, <2>8
  <1>10. ~ Crash
    BY DEF Crash, Fault
  <1>11. QED
    BY <1>5, <1>6, <1>7, <1>8, <1>9, <1>10, NextCases

(* Nothing is assembled for the claim but what the claim lists. *)
LEMMA AssembledStep ==
  ASSUME BaseInv, ClaimInv, [Next]_vars, KeysMatch, faults' \subseteq {"body", "copy"}
  PROVE  AssembledInv'
  <1>1. /\ TypeOK /\ RequestInv /\ GcInv /\ FilesInv /\ AssembledInv /\ FinalInUse
        /\ UploadType /\ ScratchType
    BY TypeGroups DEF BaseInv, ClaimInv
  <1> DEFINE Assembled(q) ==
               /\ pc[q] \in {"idle", "complete"} => out[q] = <<>>
               /\ pc[q] = "concat" =>
                    /\ MakesUp(out[q], todo[q], req[q].claim)
                    /\ \A i \in DOMAIN todo[q] :
                         file[req[q].upload][todo[q][i].number] \in {None, todo[q][i].etag}
               /\ pc[q] \in CommitPcs => out[q] = Etags(req[q].claim)
  <1>2. \A q \in Procs : Assembled(q)
    BY <1>1 DEF AssembledInv
  <1>3. SUFFICES \A q \in Procs : Assembled(q)'
    BY DEF AssembledInv
  <1>4. \A q \in Procs : pc[q] = "concat" => /\ req[q].upload \in Uploads
                                           /\ Works(q, req[q].upload)
    BY WorksOn DEF CompletePcs
  <1>5. ASSUME NEW s \in Seq(ListedPart), NEW i \in DOMAIN s
        PROVE  s[i].number \in PartNumbers /\ s[i].etag \in Data
    <2>1. s[i] \in ListedPart
      OBVIOUS
    <2>2. QED
      BY <2>1 DEF ListedPart
  <1>6. ASSUME NEW q \in Procs, pc'[q] = pc[q], req'[q] = req[q], out'[q] = out[q],
               todo'[q] = todo[q],
               pc[q] = "concat" => \A n \in PartNumbers :
                 file'[req[q].upload][n] \in {None, file[req[q].upload][n]}
        PROVE  Assembled(q)'
    <2>1. todo[q] \in Seq(ListedPart)
      BY <1>1 DEF TypeOK
    <2>2. Assembled(q)
      BY <1>2
    <2>3. pc[q] = "concat" => \A i \in DOMAIN todo[q] :
            file'[req[q].upload][todo[q][i].number] \in {None, todo[q][i].etag}
      BY <1>5, <1>6, <2>1, <2>2
    <2>4. QED
      BY <1>6, <2>2, <2>3
  <1>7. ASSUME NEW p \in Procs, Enter(p) \/ Return(p) PROVE \A q \in Procs : Assembled(q)'
    <2>1. /\ \A q \in Procs \ {p} : /\ pc'[q] = pc[q] /\ req'[q] = req[q]
                                   /\ out'[q] = out[q] /\ todo'[q] = todo[q]
          /\ pc'[p] \in {"idle", "create", "uploadPart", "complete", "abort", "delete"}
          /\ file' = file
      BY <1>7, EnterOrReturn DEF scratch
    <2>2. out'[p] = <<>>
      <3>1. CASE Enter(p)
        BY <1>1, <1>2, <3>1, EnterFrame
      <3>2. CASE Return(p)
        <4>1. Clear({p}) /\ p \in {p} /\ {p} \in SUBSET Procs
          BY <3>2 DEF Return
        <4>2. QED
          BY <1>1, <4>1, ClearFrame
      <3>3. QED
        BY <1>7, <3>1, <3>2
    <2>3. Assembled(p)'
      BY <2>1, <2>2 DEF CommitPcs
    <2>4. ASSUME NEW q \in Procs, q # p PROVE Assembled(q)'
      BY <1>6, <2>1, <2>4
    <2>5. QED
      BY <2>3, <2>4
  <1>8. CASE Collect
    <2>1. UNCHANGED <<pc, req, out, todo>>
      BY <1>1, <1>8, CollectFrame DEF locals
    <2>2. \A u \in Uploads, n \in PartNumbers : file'[u][n] \in {None, file[u][n]}
      BY <1>1, <1>8, CollectFrame DEF SameScratch, Shrinks
    <2>3. QED
      BY <1>4, <1>6, <2>1, <2>2
  <1>9. CASE Expire \/ UNCHANGED vars
    BY <1>6, <1>9 DEF Expire, vars, scratch, locals
  <1>10. ASSUME NEW p \in Procs, Work(p) PROVE \A q \in Procs : Assembled(q)'
    <2> DEFINE v == req[p].upload
    <2>1. /\ req' = req /\ pc[p] \in Pcs \ {"idle", "return"}
          /\ \A q \in Procs \ {p} : pc'[q] = pc[q] /\ out'[q] = out[q] /\ todo'[q] = todo[q]
      BY <1>1, <1>10, WorkFrame DEF TypeOK
    <2>2. ASSUME NEW q \in Procs, q # p PROVE Assembled(q)'
      <3>1. pc[q] = "concat" => file'[req[q].upload] = file[req[q].upload]
        BY <1>4, <1>10, <2>2, OthersKeep DEF Kept
      <3>2. QED
        BY <1>6, <2>1, <2>2, <3>1
    <2>3. ASSUME pc'[p] \notin {"idle", "complete", "concat"} \cup CommitPcs PROVE Assembled(p)'
      BY <2>3
    <2>4. ASSUME pc[p] \in CompletePcs
          PROVE  /\ v \in Uploads /\ Works(p, v) /\ \A q \in Procs : Works(q, v) => q = p
                 /\ req[p].claim \in Seq(ListedPart)
      BY <1>1, <2>1, <2>4, WorksOn, AtWork, Alone DEF CleanPcs
    <2>5. ASSUME pc[p] = "complete" PROVE Assembled(p)'
      <3>1. Validate(p) /\ file' = file
        BY <1>10, <2>5, ByPc DEF Validate
      <3>2. /\ v \in Uploads /\ \A q \in Procs : Works(q, v) => q = p
            /\ req[p].claim \in Seq(ListedPart)
        BY <2>4, <2>5 DEF CompletePcs
      <3>3. final[v] = None
        <4>1. \A q \in Procs : ~ Finishing(q, v)
          BY <2>5, <3>2, WorksOn DEF Finishing, CompletePcs, CommitPcs
        <4>2. QED
          BY <1>1, <3>2, <4>1 DEF FinalInUse
      <3>4. \/ pc'[p] = "return"
            \/ /\ pc'[p] = "concat" /\ out' = out /\ todo'[p] = req[p].claim
               /\ Valid(v, req[p].claim)
        BY <1>1, <3>1, <3>3 DEF Validate, Goto, Answer, TypeOK
      <3>5. CASE pc'[p] = "return"
        BY <2>3, <3>5 DEF CommitPcs
      <3>6. CASE /\ pc'[p] = "concat" /\ out' = out /\ todo'[p] = req[p].claim
                 /\ Valid(v, req[p].claim)
        <4>1. out[p] = <<>>
          BY <1>2, <2>5
        <4>2. MakesUp(<<>>, req[p].claim, req[p].claim)
          BY <3>2, MakesUpAll
        <4>3. ASSUME NEW i \in DOMAIN req[p].claim
              PROVE  file[v][req[p].claim[i].number] \in {None, req[p].claim[i].etag}
          <5>1. /\ req[p].claim[i].number \in PartNumbers /\ req[p].claim[i].etag \in Data
            BY <1>5, <3>2
          <5>2. parts[v][req[p].claim[i].number] = req[p].claim[i].etag
            BY <3>6 DEF Valid
          <5>3. req[p].claim[i].etag # None
            BY <5>1, NoneAssumption
          <5>4. ~ Writing(v, req[p].claim[i].number)
            <6>1. ASSUME NEW q \in Procs, pc[q] \in {"writePart", "putPart"}, req[q].upload = v
                  PROVE  FALSE
              <7>1. Works(q, req[q].upload)
                BY <6>1, WorksOn DEF PartPcs
              <7>2. QED
                BY <2>5, <3>2, <6>1, <7>1
            <6>2. QED
              BY <6>1 DEF Writing
          <5>5. QED
            BY <1>1, <3>2, <5>1, <5>2, <5>3, <5>4 DEF FilesInv
        <4>4. QED
          BY <2>1, <3>1, <3>6, <4>1, <4>2, <4>3 DEF CommitPcs
      <3>7. QED
        BY <3>4, <3>5, <3>6
    <2>6. ASSUME pc[p] = "concat" /\ ConcatPart(p) PROVE Assembled(p)'
      <3>1. /\ v \in Uploads /\ todo[p] \in Seq(ListedPart) /\ todo[p] # <<>>
            /\ out[p] \in Content
        BY <1>1, <2>4, <2>6 DEF ConcatPart, TypeOK, CompletePcs
      <3>2. /\ Head(todo[p]) = todo[p][1] /\ 1 \in DOMAIN todo[p]
            /\ Head(todo[p]).number \in PartNumbers
            /\ Tail(todo[p]) \in Seq(ListedPart)
            /\ \A i \in DOMAIN Tail(todo[p]) : /\ i + 1 \in DOMAIN todo[p]
                                              /\ Tail(todo[p])[i] = todo[p][i + 1]
        BY <1>5, <3>1
      <3>3. \/ /\ file[v][Head(todo[p]).number] # None
               /\ out'[p] = Append(out[p], file[v][Head(todo[p]).number])
               /\ file' = [file EXCEPT ![v][Head(todo[p]).number] = None]
               /\ todo'[p] = Tail(todo[p])
               /\ pc' = pc
            \/ pc'[p] = "removeDir"
        <4>1. ~ Fault("files")
          BY NoFault
        <4>2. QED
          BY <1>1, <2>6, <4>1 DEF ConcatPart, ConsumePart, GiveUp, CleanUp, TypeOK
      <3>4. CASE pc'[p] = "removeDir"
        BY <2>3, <3>4 DEF CommitPcs
      <3>5. CASE /\ file[v][Head(todo[p]).number] # None
                 /\ out'[p] = Append(out[p], file[v][Head(todo[p]).number])
                 /\ file' = [file EXCEPT ![v][Head(todo[p]).number] = None]
                 /\ todo'[p] = Tail(todo[p])
                 /\ pc' = pc
        <4>1. file[v][Head(todo[p]).number] = Head(todo[p]).etag
          BY <1>2, <2>6, <3>2, <3>5
        <4>2. MakesUp(out'[p], todo'[p], req[p].claim)
          <5>1. MakesUp(out[p], todo[p], req[p].claim)
            BY <1>2, <2>6
          <5>2. Append(out[p], Head(todo[p]).etag) \o Etags(Tail(todo[p]))
                  = out[p] \o Etags(todo[p])
            BY <3>1, EtagsTail
          <5>3. QED
            BY <3>5, <4>1, <5>1, <5>2 DEF MakesUp
        <4>3. \A n \in PartNumbers : file'[v][n] \in {None, file[v][n]}
          BY <1>1, <3>1, <3>2, <3>5, FileCell
        <4>4. ASSUME NEW i \in DOMAIN Tail(todo[p])
              PROVE  file'[v][Tail(todo[p])[i].number] \in {None, Tail(todo[p])[i].etag}
          <5>1. /\ i + 1 \in DOMAIN todo[p] /\ Tail(todo[p])[i] = todo[p][i + 1]
                /\ Tail(todo[p])[i].number \in PartNumbers
            BY <1>5, <3>2
          <5>2. file[v][todo[p][i + 1].number] \in {None, todo[p][i + 1].etag}
            BY <1>2, <2>6, <5>1
          <5>3. QED
            BY <4>3, <5>1, <5>2
        <4>5. QED
          BY <2>1, <2>6, <3>5, <4>2, <4>4 DEF CommitPcs
      <3>6. QED
        BY <3>3, <3>4, <3>5
    <2>7. ASSUME pc[p] = "concat" /\ RenameFinal(p) PROVE Assembled(p)'
      <3>1. /\ pc'[p] = "commit" \/ pc'[p] = "removeDir"
            /\ out' = out /\ todo[p] = <<>> /\ out[p] \in Content
        BY <1>1, <2>7 DEF RenameFinal, Goto, GiveUp, CleanUp, TypeOK
      <3>2. out[p] = Etags(req[p].claim)
        BY <1>2, <2>7, <3>1, MakesUpEmpty
      <3>3. QED
        BY <2>1, <2>3, <3>1, <3>2 DEF CommitPcs
    <2>8. ASSUME pc[p] \in CommitPcs PROVE Assembled(p)'
      <3>1. pc'[p] \in {"backup", "unlink", "map", "removeDir", "return"}
        BY <1>1, <1>10, <2>8, Moves DEF CommitPcs
      <3>2. out' = out
        BY <1>10, <2>8, ByPc DEF CommitPcs, OpenFinal, Backup, UnlinkFinal, PutObjectMapping
      <3>3. QED
        BY <1>2, <2>1, <2>8, <3>1, <3>2 DEF CommitPcs
    <2>9. ASSUME pc[p] \notin {"complete", "concat"} \cup CommitPcs PROVE Assembled(p)'
      <3>1. pc'[p] \notin {"idle", "complete", "concat"} \cup CommitPcs
        BY <1>1, <1>10, <2>1, <2>9, Moves DEF Pcs, CommitPcs, CleanPcs
      <3>2. QED
        BY <2>3, <3>1
    <2>10. Assembled(p)'
      BY <1>10, <2>5, <2>6, <2>7, <2>8, <2>9, ByPc
    <2>11. QED
      BY <2>2, <2>10
  <1>11. ~ Crash
    BY DEF Crash, Fault
  <1>12. QED
    BY <1>7, <1>8, <1>9, <1>10, <1>11, NextCases

(* Hence what is assembled is what was claimed, while only bodies and copies have failed. *)
LEMMA ClaimStep ==
  ASSUME BaseInv, [Next]_vars, KeysMatch /\ faults \subseteq {"body", "copy"} => ClaimInv
  PROVE  (KeysMatch /\ faults \subseteq {"body", "copy"} => ClaimInv)'
  <1>1. SUFFICES ASSUME KeysMatch, faults' \subseteq {"body", "copy"} PROVE ClaimInv'
    OBVIOUS
  <1>2. faults \subseteq {"body", "copy"} /\ ClaimInv
    BY <1>1, FaultsGrow
  <1>3. FilesInv' /\ AssembledInv'
    BY <1>1, <1>2, FilesStep, AssembledStep DEF ClaimInv
  <1>4. FinalInUse'
    BY <1>1, <1>2, FinalInUseStep DEF ClaimInv
  <1>5. QED
    BY <1>3, <1>4 DEF ClaimInv

------------------------------------------------------------------------------
(***************************************************************************)
(* With sweeps and faults that do not meet                                 *)
(***************************************************************************)
(* A part's file comes only with the request that opens it.                *)
LEMMA NoFileComes ==
  ASSUME BaseInv, NEW p \in Procs, Work(p), pc[p] # "uploadPart", NEW u \in Uploads
  PROVE  \A n \in PartNumbers : file[u][n] = None => file'[u][n] = None
  <1>1. TypeOK /\ RequestInv /\ ScratchType
    BY TypeGroups DEF BaseInv
  <1>2. CASE pc[p] = "writePart"
    <2>1. WritePart(p) /\ req[p].upload \in Uploads /\ req[p].part \in PartNumbers
          /\ req[p].data \in Data
      BY <1>1, <1>2, ByPc, AtWork DEF PartPcs, CleanPcs
    <2>2. PICK x \in Data \cup {None} :
            /\ file' = [file EXCEPT ![req[p].upload][req[p].part] = x]
            /\ file[req[p].upload][req[p].part] = None => x = None
      BY <1>1, <2>1 DEF WritePart, ScratchType
    <2>3. QED
      BY <1>1, <2>1, <2>2, FileCell
  <1>3. CASE pc[p] = "putPart"
    BY <1>3, ByPc DEF PutPart, scratch
  <1>4. CASE pc[p] \notin {"uploadPart", "writePart", "putPart"}
    BY <1>4, WorkFiles
  <1>5. QED
    BY <1>2, <1>3, <1>4

(* An upload is credited with a commit only by writing the mapping, and    *)
(* starts over with a part.                                                *)
LEMMA WorkCommits ==
  ASSUME BaseInv, NEW p \in Procs, Work(p), NEW u \in Uploads
  PROVE  /\ commits'[u] # commits[u] =>
              /\ pc[p] \in {"uploadPart", "map"} /\ u = req[p].upload
              /\ pc[p] = "uploadPart" => commits'[u] = 0
              /\ pc[p] = "map" => /\ commits'[u] = commits[u] + 1 /\ victims'[p] = <<u>>
                                  /\ UNCHANGED scratch
         /\ pc[p] = "uploadPart" => UNCHANGED <<upload, final>>
         /\ pc[p] = "uploadPart" /\ u = req[p].upload /\ commits'[u] # 0 =>
              commits' = commits /\ file' = file
  <1>1. TypeOK /\ RequestInv
    BY DEF BaseInv
  <1>2. CASE pc[p] = "uploadPart"
    <2>1. OpenPart(p) /\ req[p].upload \in Uploads
      BY <1>2, ByPc, WorksOn DEF PartPcs
    <2>2. QED
      BY <1>1, <1>2, <2>1 DEF OpenPart, TypeOK
  <1>3. CASE pc[p] = "map"
    <2>1. PutObjectMapping(p) /\ req[p].upload \in Uploads
      BY <1>3, ByPc, WorksOn DEF CompletePcs, CommitPcs
    <2>2. UNCHANGED scratch
      BY <2>1 DEF PutObjectMapping
    <2>3. CASE commits' = commits
      BY <1>3, <2>3
    <2>4. CASE /\ commits' = [commits EXCEPT ![req[p].upload] = @ + 1]
               /\ CleanUp(p, <<req[p].upload>>, "ok")
      BY <1>1, <1>3, <2>1, <2>2, <2>4 DEF CleanUp, TypeOK
    <2>5. QED
      BY <2>1, <2>3, <2>4 DEF PutObjectMapping
  <1>4. CASE pc[p] \notin {"uploadPart", "map"}
    <2>1. commits' = commits
      BY <1>4 DEF Work, At, CreateMultipartUpload, OpenPart, WritePart, PutPart, TouchUpload,
         Validate, ConcatPart, RenameFinal, OpenFinal, Backup, UnlinkFinal, PutObjectMapping,
         AbortMultipartUpload, DeleteObject, RemoveDir, RemoveRecord
    <2>2. QED
      BY <1>4, <2>1
  <1>5. QED
    BY <1>2, <1>3, <1>4

(* Without files an upload is spent. *)
LEMMA EmptyIsSpent ==
  ASSUME NEW u \in Uploads, file[u] = NoFiles, final[u] = None
  PROVE  Spent(u)
  <1>1. SUFFICES ASSUME NEW c \in Claims \ {<<>>}
                 PROVE  \E i \in DOMAIN c : file[u][c[i].number] = None
    BY DEF Spent
  <1>2. c \in Seq(ListedPart) /\ 1 \in DOMAIN c
    <2>1. c \in Seq(ListedPart) /\ c # <<>>
      BY ConstantsAssumption
    <2>2. QED
      BY <2>1
  <1>3. c[1] \in ListedPart
    BY <1>2
  <1>4. c[1].number \in PartNumbers
    BY <1>3 DEF ListedPart
  <1>5. QED
    BY <1>2, <1>4 DEF NoFiles

(* An upload on a list stays on it until its record is deleted, or it has  *)
(* nothing left to be assembled from when that fails.                      *)
LEMMA VictimsStay ==
  ASSUME BaseInv, ClearedInv, NEW p \in Procs, Work(p), NEW u \in Uploads, KeysMatch,
         InVictims(u), ~ ({"files", "store"} \subseteq faults')
  PROVE  InVictims(u)' \/ record'[u] = None \/ Spent(u)'
  <1>1. TypeOK /\ RequestInv /\ UploadType /\ ScratchType /\ req' = req
    BY TypeGroups, WorkFrame DEF BaseInv
  <1>2. PICK q \in Procs : /\ \E i \in DOMAIN victims[q] : u = victims[q][i]
                           /\ req[q].op = "complete"
    BY DEF InVictims
  <1>3. victims[q] # <<>> /\ pc[q] \in CleanPcs
    <2>1. victims[q] \in Seq(Uploads)
      BY <1>1 DEF TypeOK
    <2>2. victims[q] # <<>>
      BY <1>2, <2>1
    <2>3. QED
      BY <1>1, <2>2 DEF RequestInv
  <1>4. CASE q # p
    <2>1. victims'[q] = victims[q]
      BY <1>1, <1>4, WorkFrame
    <2>2. QED
      BY <1>1, <1>2, <2>1 DEF InVictims
  <1>5. CASE q = p /\ pc[p] = "removeDir"
    <2>1. victims'[p] = victims[p]
      BY <1>2, <1>5, RemoveEffect DEF CleanPcs
    <2>2. QED
      BY <1>1, <1>2, <1>5, <2>1 DEF InVictims
  <1>6. CASE q = p /\ pc[p] = "removeRecord"
    <2>1. /\ Deletes(Head(victims[p])) /\ victims'[p] = Tail(victims[p])
          /\ Head(victims[p]) = victims[p][1] /\ victims[p] \in Seq(Uploads)
          /\ UNCHANGED scratch
      BY <1>1, <1>6, RemoveEffect, WorksOn DEF CleanPcs, TypeOK
    <2>2. PICK i \in DOMAIN victims[p] : u = victims[p][i]
      BY <1>2, <1>6
    <2>3. CASE i = 1
      <3>1. u = Head(victims[p])
        BY <2>1, <2>2, <2>3
      <3>2. record'[u] = None \/ Fault("store")
        BY <1>1, <2>1, <3>1, Deletion
      <3>3. CASE Fault("store")
        <4>1. "files" \notin faults
          BY <3>3 DEF Fault
        <4>2. "dir" \notin undone[u]
          BY <4>1 DEF BaseInv, UndoneInv
        <4>3. ~ dir[u]
          BY <1>6, <3>1, <4>2 DEF ClearedInv
        <4>4. file[u] = NoFiles /\ final[u] = None
          BY <4>3 DEF BaseInv, ScratchInv
        <4>5. Spent(u)
          BY <4>4, EmptyIsSpent
        <4>6. QED
          BY <2>1, <4>5 DEF Spent, scratch
      <3>4. QED
        BY <3>2, <3>3
    <2>4. CASE i # 1
      <3>1. i - 1 \in DOMAIN Tail(victims[p]) /\ Tail(victims[p])[i - 1] = u
        BY <1>3, <1>6, <2>1, <2>2, <2>4
      <3>2. QED
        BY <1>1, <1>2, <1>6, <2>1, <3>1 DEF InVictims
    <2>5. QED
      BY <2>3, <2>4
  <1>7. QED
    BY <1>3, <1>4, <1>5, <1>6 DEF CleanPcs

(* Who is on a list of uploads to remove is being removed by one request.  *)
LEMMA VictimsOfOne ==
  ASSUME BaseInv, NEW u \in Uploads, InVictims(u)
  PROVE  \E q \in Procs : Works(q, u) /\ pc[q] \in CleanPcs
  <1>1. TypeOK /\ RequestInv
    BY DEF BaseInv
  <1>2. PICK q \in Procs : \E i \in DOMAIN victims[q] : u = victims[q][i]
    BY DEF InVictims
  <1>3. victims[q] \in Seq(Uploads) /\ victims[q] # <<>>
    BY <1>1, <1>2 DEF TypeOK
  <1>4. QED
    BY <1>1, <1>2, <1>3 DEF RequestInv, Works

(* Spent uploads stay spent but for new parts and a new final.img.         *)
LEMMA SpentStays ==
  ASSUME NEW u \in Uploads, Spent(u), final'[u] = None,
         \A n \in PartNumbers : file[u][n] = None => file'[u][n] = None
  PROVE  Spent(u)'
  <1>1. ASSUME NEW c \in Claims \ {<<>>}
        PROVE  \E i \in DOMAIN c : file'[u][c[i].number] = None
    <2>1. PICK i \in DOMAIN c : file[u][c[i].number] = None
      BY DEF Spent
    <2>2. c \in Seq(ListedPart)
      BY ConstantsAssumption
    <2>3. c[i] \in ListedPart
      BY <2>2
    <2>4. c[i].number \in PartNumbers
      BY <2>3 DEF ListedPart
    <2>5. QED
      BY <2>1, <2>4
  <1>2. QED
    BY <1>1 DEF Spent

(* While no pair of faults that can bring it back has happened, what has   *)
(* been committed cannot be assembled again.                               *)
LEMMA SpentStep ==
  ASSUME BaseInv, ClearedInv, SpentInv, faults \cap {"backup", "files", "crash"} = {} => FirstInv,
         [Next]_vars, KeysMatch, \A m \in Meeting : ~ (m \subseteq faults')
  PROVE  SpentInv'
  <1>1. TypeOK /\ RequestInv /\ GcInv /\ CreateInv /\ HomeInv /\ UploadType /\ ScratchType
    BY TypeGroups DEF BaseInv
  <1> DEFINE Once(u) == /\ commits[u] <= 1
                        /\ commits[u] = 1 => Spent(u) \/ record[u] = None \/ InVictims(u)
             Lacks(q) == pc[q] = "concat" /\ commits[req[q].upload] = 1 =>
                           \E i \in DOMAIN todo[q] :
                             file[req[q].upload][todo[q][i].number] = None
             Fresh(q) == pc[q] \in CommitPcs => commits[req[q].upload] = 0
  <1>2. /\ \A u \in Uploads : Once(u)
        /\ \A q \in Procs : Lacks(q) /\ Fresh(q)
    BY DEF SpentInv
  <1>3. SUFFICES /\ \A u \in Uploads : Once(u)'
                 /\ \A q \in Procs : Lacks(q)' /\ Fresh(q)'
    BY DEF SpentInv
  <1>4. \A q \in Procs : pc[q] \in {"concat"} \cup CommitPcs =>
          req[q].upload \in Uploads /\ Works(q, req[q].upload)
    BY WorksOn DEF CompletePcs
  <1>5. ASSUME NEW s \in Seq(ListedPart), NEW i \in DOMAIN s PROVE s[i].number \in PartNumbers
    <2>1. s[i] \in ListedPart
      OBVIOUS
    <2>2. QED
      BY <2>1 DEF ListedPart
  <1>6. ASSUME NEW u \in Uploads, commits'[u] = commits[u], final'[u] \in {None, final[u]},
               \A n \in PartNumbers : file[u][n] = None => file'[u][n] = None,
               record[u] = None => record'[u] = None,
               InVictims(u) => InVictims(u)' \/ record'[u] = None \/ Spent(u)'
        PROVE  Once(u)'
    <2>1. CASE commits[u] = 1 /\ Spent(u)
      <3>1. final'[u] = None
        BY <1>6, <2>1 DEF Spent
      <3>2. QED
        BY <1>6, <2>1, <3>1, SpentStays
    <2>2. CASE ~ (commits[u] = 1 /\ Spent(u))
      BY <1>2, <1>6, <2>2
    <2>3. QED
      BY <2>1, <2>2
  <1>7. ASSUME NEW q \in Procs, pc'[q] = pc[q], req'[q] = req[q], todo'[q] = todo[q],
               pc[q] \in {"concat"} \cup CommitPcs =>
                 /\ commits'[req[q].upload] = commits[req[q].upload]
                 /\ \A n \in PartNumbers :
                      file[req[q].upload][n] = None => file'[req[q].upload][n] = None
        PROVE  Lacks(q)' /\ Fresh(q)'
    <2>1. Lacks(q) /\ Fresh(q) /\ todo[q] \in Seq(ListedPart)
      BY <1>1, <1>2 DEF TypeOK
    <2>2. Lacks(q)'
      BY <1>5, <1>7, <2>1
    <2>3. Fresh(q)'
      BY <1>7, <2>1
    <2>4. QED
      BY <2>2, <2>3
  <1>8. ASSUME NEW p \in Procs, Enter(p) \/ Return(p)
        PROVE  /\ \A u \in Uploads : Once(u)'
               /\ \A q \in Procs : Lacks(q)' /\ Fresh(q)'
    <2>1. /\ UNCHANGED <<upload, scratch, commits>>
          /\ \A q \in Procs \ {p} : /\ pc'[q] = pc[q] /\ req'[q] = req[q]
                                   /\ todo'[q] = todo[q] /\ victims'[q] = victims[q]
          /\ pc'[p] \in {"idle", "create", "uploadPart", "complete", "abort", "delete"}
          /\ victims[p] = <<>>
      BY <1>8, EnterOrReturn
    <2>2. \A u \in Uploads : InVictims(u) => InVictims(u)'
      BY <2>1 DEF InVictims
    <2>3. \A u \in Uploads : Once(u)'
      BY <1>6, <2>1, <2>2 DEF upload, scratch
    <2>4. Lacks(p)' /\ Fresh(p)'
      BY <2>1 DEF CommitPcs
    <2>5. ASSUME NEW q \in Procs, q # p PROVE Lacks(q)' /\ Fresh(q)'
      BY <1>7, <2>1, <2>5 DEF scratch
    <2>6. QED
      BY <2>3, <2>4, <2>5
  <1>9. CASE Collect
    <2>1. UNCHANGED <<pc, req, todo, victims, commits>>
      BY <1>1, <1>9, CollectFrame DEF locals
    <2>2. \A u \in Uploads : /\ record'[u] = record[u] \/ record'[u] = None
                             /\ \A n \in PartNumbers : file'[u][n] \in {None, file[u][n]}
                             /\ final'[u] \in {None, final[u]}
      BY <1>1, <1>9, CollectFrame DEF SameUpload, SameScratch, Shrinks
    <2>3. \A u \in Uploads, n \in PartNumbers : file[u][n] = None => file'[u][n] = None
      BY <2>2
    <2>4. \A u \in Uploads : InVictims(u) => InVictims(u)'
      BY <2>1 DEF InVictims
    <2>5. \A u \in Uploads : Once(u)'
      BY <1>6, <2>1, <2>2, <2>3, <2>4
    <2>6. \A q \in Procs : Lacks(q)' /\ Fresh(q)'
      BY <1>4, <1>7, <2>1, <2>3
    <2>7. QED
      BY <2>5, <2>6
  <1>10. CASE Expire \/ UNCHANGED vars
    <2>1. /\ UNCHANGED <<scratch, commits, locals>>
          /\ \A u \in Uploads : record[u] = None => record'[u] = None
      BY <1>1, <1>10, ExpireFrame DEF vars, upload
    <2>2. \A u \in Uploads : InVictims(u) => InVictims(u)'
      BY <2>1 DEF InVictims, locals
    <2>3. \A u \in Uploads : Once(u)'
      BY <1>6, <2>1, <2>2 DEF scratch
    <2>4. \A q \in Procs : Lacks(q)' /\ Fresh(q)'
      BY <1>7, <2>1 DEF scratch, locals
    <2>5. QED
      BY <2>3, <2>4
  <1>11. CASE Crash
    <2>1. /\ Clear(Procs) /\ UNCHANGED <<upload, scratch, commits>>
          /\ "crash" \notin faults /\ "crash" \in faults'
      BY <1>11 DEF Crash, Fault
    <2>2. faults \cap {"backup", "files", "crash"} = {}
      BY <2>1, FaultsGrow DEF Meeting
    <2>3. \A u \in Uploads : commits[u] = 1 => Spent(u)
      BY <2>1, <2>2 DEF FirstInv
    <2>4. \A u \in Uploads : commits'[u] = 1 => Spent(u)'
      BY <2>1, <2>3 DEF Spent, scratch
    <2>5. \A q \in Procs : pc'[q] = "idle"
      BY <1>1, <2>1, ClearFrame
    <2>6. QED
      BY <1>2, <2>1, <2>4, <2>5 DEF CommitPcs
  <1>12. ASSUME NEW p \in Procs, Work(p)
         PROVE  /\ \A u \in Uploads : Once(u)'
                /\ \A q \in Procs : Lacks(q)' /\ Fresh(q)'
    <2> DEFINE v == req[p].upload
    <2>1. /\ req' = req /\ pc[p] \in Pcs \ {"idle", "return"}
          /\ \A q \in Procs \ {p} : pc'[q] = pc[q] /\ todo'[q] = todo[q]
      BY <1>1, <1>12, WorkFrame DEF TypeOK
    <2>2. pc[p] # "uploadPart" =>
            \A u \in Uploads, n \in PartNumbers : file[u][n] = None => file'[u][n] = None
      BY <1>12, NoFileComes
    <2>3. ASSUME pc[p] \in CompletePcs
          PROVE  /\ v \in Uploads /\ Works(p, v) /\ \A q \in Procs : Works(q, v) => q = p
                 /\ req[p].claim \in Claims /\ req[p].claim \in Seq(ListedPart)
      BY <1>1, <2>1, <2>3, WorksOn, AtWork, Alone DEF CleanPcs
    <2>4. ASSUME NEW u \in Uploads PROVE Once(u)'
      <3>1. /\ InVictims(u) => InVictims(u)' \/ record'[u] = None \/ Spent(u)'
            /\ home[u] # None /\ record[u] = None => record'[u] = None
        BY <1>12, VictimsStay, NoneComesBack DEF Meeting
      <3>2. CASE home[u] = None
        <4>1. commits[u] = 0 /\ ~ (u = v /\ pc[p] \in {"uploadPart", "map"})
          BY <1>1, <3>2, WorksOn DEF HomeInv, Found, PartPcs, CompletePcs, CommitPcs
        <4>2. commits'[u] = 0
          BY <1>12, <4>1, WorkCommits
        <4>3. QED
          BY <4>2
      <3>3. CASE home[u] # None /\ pc[p] = "uploadPart" /\ u = v /\ commits'[u] = 0
        BY <3>3
      <3>4. CASE home[u] # None /\ pc[p] = "uploadPart" /\ u = v /\ commits'[u] # 0
        <4>1. commits' = commits /\ file' = file /\ UNCHANGED <<upload, final>>
          BY <1>12, <3>4, WorkCommits
        <4>2. QED
          BY <1>6, <3>1, <3>4, <4>1
      <3>5. CASE home[u] # None /\ pc[p] = "uploadPart" /\ u # v
        <4>1. ~ Works(p, u)
          BY <3>5, WorksOnItsOwn DEF CleanPcs
        <4>2. Kept(u)
          BY <1>1, <1>12, <3>5, <4>1, WorkKeeps
        <4>3. QED
          BY <1>6, <3>1, <3>5, <4>2 DEF Kept
      <3>6. CASE pc[p] = "map" /\ u = v
        <4>1. commits[u] = 0
          BY <1>2, <3>6 DEF CommitPcs
        <4>2. CASE commits'[u] = commits[u]
          BY <4>1, <4>2
        <4>3. CASE commits'[u] # commits[u]
          <5>1. commits'[u] = 1 /\ victims'[p] = <<u>>
            BY <1>12, <3>6, <4>1, <4>3, WorkCommits
          <5>2. req[p].op = "complete"
            BY <1>1, <3>6 DEF RequestInv, CompletePcs, CommitPcs
          <5>3. InVictims(u)'
            BY <2>1, <5>1, <5>2 DEF InVictims
          <5>4. QED
            BY <5>1, <5>3
        <4>4. QED
          BY <4>2, <4>3
      <3>7. CASE RenameFinal(p) /\ u = v
        <4>1. todo[p] = <<>> /\ pc[p] = "concat"
          BY <3>7 DEF RenameFinal, At
        <4>2. commits[u] # 1 /\ commits[u] \in Nat
          BY <1>1, <1>2, <3>7, <4>1 DEF TypeOK
        <4>3. commits'[u] = commits[u]
          BY <1>12, <4>1, WorkCommits
        <4>4. QED
          BY <1>2, <4>2, <4>3
      <3>8. CASE /\ home[u] # None /\ pc[p] # "uploadPart"
                 /\ ~ (pc[p] = "map" /\ u = v) /\ ~ (RenameFinal(p) /\ u = v)
        <4>1. commits'[u] = commits[u]
          BY <1>12, <3>8, WorkCommits
        <4>2. final'[u] \in {None, final[u]}
          <5>1. CASE ~ RenameFinal(p)
            BY <1>12, <5>1, WorkFiles
          <5>2. CASE RenameFinal(p)
            <6>1. u # v /\ v \in Uploads /\ pc[p] = "concat"
              BY <2>3, <3>8, <5>2 DEF RenameFinal, At, CompletePcs
            <6>2. QED
              BY <1>1, <5>2, <6>1 DEF RenameFinal, ScratchType
          <5>3. QED
            BY <5>1, <5>2
        <4>3. QED
          BY <1>6, <2>2, <3>1, <3>8, <4>1, <4>2
      <3>9. QED
        BY <3>2, <3>3, <3>4, <3>5, <3>6, <3>7, <3>8
    <2>5. ASSUME NEW q \in Procs, q # p PROVE Lacks(q)' /\ Fresh(q)'
      <3>1. pc[q] \in {"concat"} \cup CommitPcs => Kept(req[q].upload)
        BY <1>4, <1>12, <2>5, OthersKeep
      <3>2. QED
        BY <1>7, <2>1, <2>5, <3>1 DEF Kept
    <2>6. ASSUME pc'[p] \notin {"concat"} \cup CommitPcs PROVE Lacks(p)' /\ Fresh(p)'
      BY <2>6
    <2>7. ASSUME pc[p] = "complete" PROVE Lacks(p)' /\ Fresh(p)'
      <3>1. Validate(p) /\ file' = file /\ commits' = commits
        BY <1>12, <2>7, ByPc DEF Validate
      <3>2. /\ v \in Uploads /\ \A q \in Procs : Works(q, v) => q = p
            /\ req[p].claim \in Claims
        BY <2>3, <2>7 DEF CompletePcs
      <3>3. \/ pc'[p] = "return"
            \/ /\ record[v] # None /\ Valid(v, req[p].claim)
               /\ \/ pc'[p] = "commit" /\ final[v] # None
                  \/ pc'[p] = "concat" /\ todo'[p] = req[p].claim
        BY <1>1, <3>1 DEF Validate, Goto, Answer, Missing, TypeOK
      <3>4. ASSUME record[v] # None, commits[v] = 1 PROVE Spent(v)
        <4>1. ~ InVictims(v)
          BY <2>7, <3>2, VictimsOfOne DEF CleanPcs
        <4>2. QED
          BY <1>2, <3>2, <3>4, <4>1
      <3>5. CASE pc'[p] = "return"
        BY <2>6, <3>5 DEF CommitPcs
      <3>6. CASE record[v] # None /\ pc'[p] = "commit" /\ final[v] # None
        <4>1. commits[v] # 1
          BY <3>4, <3>6 DEF Spent
        <4>2. commits[v] = 0
          <5>1. commits[v] \in Nat
            BY <1>1, <3>2 DEF TypeOK
          <5>2. commits[v] <= 1
            BY <1>2, <3>2
          <5>3. QED
            BY <4>1, <5>1, <5>2
        <4>3. QED
          BY <2>1, <3>1, <3>6, <4>2
      <3>7. CASE /\ record[v] # None /\ Valid(v, req[p].claim)
                 /\ pc'[p] = "concat" /\ todo'[p] = req[p].claim
        <4>1. ASSUME commits[v] = 1
              PROVE  \E i \in DOMAIN req[p].claim : file[v][req[p].claim[i].number] = None
          <5>1. req[p].claim \in Claims \ {<<>>}
            BY <3>2, <3>7 DEF Valid
          <5>2. QED
            BY <3>4, <3>7, <4>1, <5>1 DEF Spent
        <4>2. QED
          BY <2>1, <3>1, <3>7, <4>1 DEF CommitPcs
      <3>8. QED
        BY <3>3, <3>5, <3>6, <3>7
    <2>8. ASSUME pc[p] = "concat", ConcatPart(p) PROVE Lacks(p)' /\ Fresh(p)'
      <3>1. /\ v \in Uploads /\ todo[p] \in Seq(ListedPart) /\ todo[p] # <<>>
            /\ commits' = commits
        BY <1>1, <2>3, <2>8 DEF ConcatPart, TypeOK, CompletePcs
      <3>2. \/ /\ file[v][Head(todo[p]).number] # None
               /\ todo'[p] = Tail(todo[p])
               /\ pc' = pc
            \/ pc'[p] = "removeDir"
        BY <1>1, <2>8 DEF ConcatPart, GiveUp, CleanUp, TypeOK
      <3>3. CASE pc'[p] = "removeDir"
        BY <2>6, <3>3 DEF CommitPcs
      <3>4. CASE /\ file[v][Head(todo[p]).number] # None
                 /\ todo'[p] = Tail(todo[p])
                 /\ pc' = pc
        <4>1. ASSUME commits[v] = 1
              PROVE  \E i \in DOMAIN Tail(todo[p]) : file'[v][Tail(todo[p])[i].number] = None
          <5>1. PICK i \in DOMAIN todo[p] : file[v][todo[p][i].number] = None
            BY <1>2, <2>8, <4>1
          <5>2. i # 1
            BY <3>1, <3>4, <5>1
          <5>3. i - 1 \in DOMAIN Tail(todo[p]) /\ Tail(todo[p])[i - 1] = todo[p][i]
            BY <3>1, <5>2
          <5>4. file'[v][todo[p][i].number] = None
            BY <1>5, <2>2, <2>8, <3>1, <5>1
          <5>5. QED
            BY <5>3, <5>4
        <4>2. QED
          BY <2>1, <2>8, <3>1, <3>4, <4>1 DEF CommitPcs
      <3>5. QED
        BY <3>2, <3>3, <3>4
    <2>9. ASSUME pc[p] = "concat", RenameFinal(p) PROVE Lacks(p)' /\ Fresh(p)'
      <3>1. /\ pc'[p] = "commit" \/ pc'[p] = "removeDir"
            /\ todo[p] = <<>> /\ commits' = commits
        BY <1>1, <2>9 DEF RenameFinal, Goto, GiveUp, CleanUp, TypeOK
      <3>2. v \in Uploads
        BY <2>3, <2>9 DEF CompletePcs
      <3>3. commits[v] # 1
        BY <1>2, <2>9, <3>1
      <3>4. commits[v] = 0
        <4>1. commits[v] \in Nat
          BY <1>1, <3>2 DEF TypeOK
        <4>2. commits[v] <= 1
          BY <1>2, <3>2
        <4>3. QED
          BY <3>3, <4>1, <4>2
      <3>5. QED
        BY <2>1, <3>1, <3>4 DEF CommitPcs
    <2>10. ASSUME pc[p] \in CommitPcs PROVE Lacks(p)' /\ Fresh(p)'
      <3>1. pc'[p] \in {"backup", "unlink", "map", "removeDir", "return"}
        BY <1>1, <1>12, <2>10, Moves DEF CommitPcs
      <3>2. CASE pc'[p] \in {"removeDir", "return"}
        BY <2>6, <3>2 DEF CommitPcs
      <3>3. CASE pc'[p] \in {"backup", "unlink", "map"}
        <4>1. pc[p] # "map" /\ v \in Uploads
          BY <1>1, <1>12, <2>3, <2>10, <3>3, Moves DEF CompletePcs
        <4>2. commits'[v] = commits[v]
          BY <1>12, <2>10, <4>1, WorkCommits DEF CommitPcs
        <4>3. QED
          BY <1>2, <2>1, <2>10, <3>3, <4>2
      <3>4. QED
        BY <3>1, <3>2, <3>3
    <2>11. CASE pc[p] \notin {"complete", "concat"} \cup CommitPcs
      <3>1. pc'[p] \notin {"concat"} \cup CommitPcs
        BY <1>1, <1>12, <2>1, <2>11, Moves DEF Pcs, CommitPcs, CleanPcs
      <3>2. QED
        BY <2>4, <2>5, <2>6, <3>1
    <2>12. CASE pc[p] \in {"complete", "concat"} \cup CommitPcs
      BY <1>12, <2>4, <2>5, <2>7, <2>8, <2>9, <2>10, <2>12, ByPc
    <2>13. QED
      BY <2>11, <2>12
  <1>13. QED
    BY <1>8, <1>9, <1>10, <1>11, <1>12, NextCases

(* As long as the first of any pair has not, the parts go before the       *)
(* commit comes.                                                           *)
LEMMA FirstStep ==
  ASSUME BaseInv, SpentInv, FirstInv, [Next]_vars, KeysMatch, ClaimsOverlap,
         faults' \cap {"backup", "files", "crash"} = {}
  PROVE  FirstInv'
  <1>1. /\ TypeOK /\ RequestInv /\ GcInv /\ CreateInv /\ HomeInv
        /\ UploadType /\ ScratchType /\ FinalInUse
    BY TypeGroups DEF BaseInv, FirstInv
  <1> DEFINE Used(u) == commits[u] = 1 => Spent(u)
             Taken(q, n) == file[req[q].upload][n] = None
             Uses(q) ==
               /\ pc[q] \in {"concat"} \cup CommitPcs => req[q].claim # <<>>
               /\ pc[q] = "concat" =>
                    \A i \in DOMAIN req[q].claim :
                      \/ Taken(q, req[q].claim[i].number)
                      \/ \E j \in DOMAIN todo[q] : todo[q][j].number = req[q].claim[i].number
               /\ pc[q] \in CommitPcs =>
                    \A i \in DOMAIN req[q].claim : Taken(q, req[q].claim[i].number)
  <1>2. /\ \A u \in Uploads : Used(u)
        /\ \A q \in Procs : Uses(q)
    BY DEF FirstInv, CompletePcs, CommitPcs
  <1>3. SUFFICES /\ \A u \in Uploads : Used(u)'
                 /\ \A q \in Procs : Uses(q)'
    <2>1. FinalInUse'
      BY <1>1, FinalInUseStep
    <2>2. QED
      BY <2>1 DEF FirstInv, CompletePcs, CommitPcs
  <1>4. \A q \in Procs : pc[q] \in {"concat"} \cup CommitPcs =>
          /\ req[q].upload \in Uploads /\ Works(q, req[q].upload)
          /\ req[q].claim \in Claims /\ req[q].claim \in Seq(ListedPart)
    <2>1. ASSUME NEW q \in Procs, pc[q] \in {"concat"} \cup CommitPcs
          PROVE  req[q].claim \in Claims /\ req[q].claim \in Seq(ListedPart)
      BY <1>1, <2>1, AtWork DEF CompletePcs, CommitPcs
    <2>2. QED
      BY <2>1, WorksOn DEF CompletePcs
  <1>5. ASSUME NEW s \in Seq(ListedPart), NEW i \in DOMAIN s PROVE s[i].number \in PartNumbers
    <2>1. s[i] \in ListedPart
      OBVIOUS
    <2>2. QED
      BY <2>1 DEF ListedPart
  <1>6. ASSUME NEW u \in Uploads, commits'[u] = commits[u], final'[u] \in {None, final[u]},
               \A n \in PartNumbers : file[u][n] = None => file'[u][n] = None
        PROVE  Used(u)'
    <2>1. CASE commits[u] = 1
      <3>1. Spent(u)
        BY <1>2, <2>1
      <3>2. final'[u] = None
        BY <1>6, <3>1 DEF Spent
      <3>3. QED
        BY <1>6, <3>1, <3>2, SpentStays
    <2>2. CASE commits[u] # 1
      BY <1>6, <2>2
    <2>3. QED
      BY <2>1, <2>2
  <1>7. ASSUME NEW q \in Procs, pc'[q] = pc[q], req'[q] = req[q], todo'[q] = todo[q],
               pc[q] \in {"concat"} \cup CommitPcs =>
                 \A n \in PartNumbers :
                   file[req[q].upload][n] = None => file'[req[q].upload][n] = None
        PROVE  Uses(q)'
    <2>1. Uses(q)
      BY <1>2
    <2>2. ASSUME pc[q] \in {"concat"} \cup CommitPcs
          PROVE  \A i \in DOMAIN req[q].claim :
                   Taken(q, req[q].claim[i].number) => Taken(q, req[q].claim[i].number)'
      BY <1>4, <1>5, <1>7, <2>2
    <2>3. QED
      BY <1>7, <2>1, <2>2
  <1>8. ASSUME NEW p \in Procs, Enter(p) \/ Return(p)
        PROVE  /\ \A u \in Uploads : Used(u)'
               /\ \A q \in Procs : Uses(q)'
    <2>1. /\ UNCHANGED <<scratch, commits>>
          /\ \A q \in Procs \ {p} : pc'[q] = pc[q] /\ req'[q] = req[q] /\ todo'[q] = todo[q]
          /\ pc'[p] \in {"idle", "create", "uploadPart", "complete", "abort", "delete"}
      BY <1>8, EnterOrReturn
    <2>2. \A u \in Uploads : Used(u)'
      BY <1>6, <2>1 DEF scratch
    <2>3. Uses(p)'
      BY <2>1 DEF CommitPcs
    <2>4. ASSUME NEW q \in Procs, q # p PROVE Uses(q)'
      BY <1>7, <2>1, <2>4 DEF scratch
    <2>5. QED
      BY <2>2, <2>3, <2>4
  <1>9. CASE Collect
    <2>1. UNCHANGED <<pc, req, todo, commits>>
      BY <1>1, <1>9, CollectFrame DEF locals
    <2>2. \A u \in Uploads : /\ \A n \in PartNumbers : file'[u][n] \in {None, file[u][n]}
                             /\ final'[u] \in {None, final[u]}
      BY <1>1, <1>9, CollectFrame DEF SameScratch, Shrinks
    <2>3. \A u \in Uploads, n \in PartNumbers : file[u][n] = None => file'[u][n] = None
      BY <2>2
    <2>4. \A u \in Uploads : Used(u)'
      BY <1>6, <2>1, <2>2, <2>3
    <2>5. \A q \in Procs : Uses(q)'
      BY <1>4, <1>7, <2>1, <2>3
    <2>6. QED
      BY <2>4, <2>5
  <1>10. CASE Expire \/ UNCHANGED vars
    <2>1. UNCHANGED <<scratch, commits, locals>>
      BY <1>1, <1>10, ExpireFrame DEF vars
    <2>2. \A u \in Uploads : Used(u)'
      BY <1>6, <2>1 DEF scratch
    <2>3. \A q \in Procs : Uses(q)'
      BY <1>7, <2>1 DEF scratch, locals
    <2>4. QED
      BY <2>2, <2>3
  <1>11. ~ Crash
    BY DEF Crash, Fault
  <1>12. ASSUME NEW p \in Procs, Work(p)
         PROVE  /\ \A u \in Uploads : Used(u)'
                /\ \A q \in Procs : Uses(q)'
    <2> DEFINE v == req[p].upload
    <2>1. /\ req' = req /\ pc[p] \in Pcs \ {"idle", "return"}
          /\ \A q \in Procs \ {p} : pc'[q] = pc[q] /\ todo'[q] = todo[q]
      BY <1>1, <1>12, WorkFrame DEF TypeOK
    <2>2. pc[p] # "uploadPart" =>
            \A u \in Uploads, n \in PartNumbers : file[u][n] = None => file'[u][n] = None
      BY <1>12, NoFileComes
    <2>3. ASSUME pc[p] \in CompletePcs
          PROVE  /\ v \in Uploads /\ \A q \in Procs : Works(q, v) => q = p
                 /\ req[p].claim \in Claims /\ req[p].claim \in Seq(ListedPart)
      BY <1>1, <2>1, <2>3, WorksOn, AtWork, Alone DEF CleanPcs
    <2>4. ASSUME NEW u \in Uploads PROVE Used(u)'
      <3>1. CASE pc[p] = "uploadPart" /\ u = v
        BY <1>2, <1>6, <1>12, <3>1, WorkCommits
      <3>2. CASE pc[p] = "uploadPart" /\ u # v
        <4>1. ~ Works(p, u)
          BY <3>2, WorksOnItsOwn DEF CleanPcs
        <4>2. Kept(u)
          BY <1>1, <1>12, <3>2, <4>1, WorkKeeps
        <4>3. QED
          BY <1>6, <4>2 DEF Kept
      <3>3. CASE pc[p] = "map" /\ u = v
        <4>1. final'[u] \in {None, final[u]}
          BY <1>12, <3>3, WorkFiles DEF RenameFinal, At
        <4>2. final[u] = None
          <5>1. \A q \in Procs : ~ Finishing(q, u)
            BY <2>3, <3>3, WorksOn DEF Finishing, CompletePcs, CommitPcs
          <5>2. QED
            BY <1>1, <5>1 DEF FinalInUse
        <4>3. Spent(u)
          <5>1. req[p].claim \in Claims \ {<<>>}
            BY <1>2, <1>4, <3>3 DEF CommitPcs
          <5>2. \A i \in DOMAIN req[p].claim : file[u][req[p].claim[i].number] = None
            BY <1>2, <3>3 DEF CommitPcs
          <5>3. ASSUME NEW c \in Claims \ {<<>>}
                PROVE  \E i \in DOMAIN c : file[u][c[i].number] = None
            <6>1. PICK i \in DOMAIN c, j \in DOMAIN req[p].claim :
                    c[i].number = req[p].claim[j].number
              BY <5>1 DEF ClaimsOverlap
            <6>2. QED
              BY <5>2, <6>1
          <5>4. QED
            BY <4>2, <5>3 DEF Spent
        <4>4. final'[u] = None /\ \A n \in PartNumbers : file[u][n] = None => file'[u][n] = None
          BY <2>2, <3>3, <4>1, <4>2
        <4>5. QED
          BY <4>3, <4>4, SpentStays
      <3>4. CASE RenameFinal(p) /\ u = v
        <4>1. todo[p] = <<>> /\ pc[p] = "concat"
          BY <3>4 DEF RenameFinal, At
        <4>2. commits[u] # 1
          BY <3>4, <4>1 DEF SpentInv
        <4>3. commits'[u] = commits[u]
          BY <1>12, <4>1, WorkCommits
        <4>4. QED
          BY <4>2, <4>3
      <3>5. CASE /\ pc[p] # "uploadPart"
                 /\ ~ (pc[p] = "map" /\ u = v) /\ ~ (RenameFinal(p) /\ u = v)
        <4>1. commits'[u] = commits[u]
          BY <1>12, <3>5, WorkCommits
        <4>2. final'[u] \in {None, final[u]}
          <5>1. CASE ~ RenameFinal(p)
            BY <1>12, <5>1, WorkFiles
          <5>2. CASE RenameFinal(p)
            <6>1. u # v /\ v \in Uploads /\ pc[p] = "concat"
              BY <2>3, <3>5, <5>2 DEF RenameFinal, At, CompletePcs
            <6>2. QED
              BY <1>1, <5>2, <6>1 DEF RenameFinal, ScratchType
          <5>3. QED
            BY <5>1, <5>2
        <4>3. QED
          BY <1>6, <2>2, <3>5, <4>1, <4>2
      <3>6. QED
        BY <3>1, <3>2, <3>3, <3>4, <3>5
    <2>5. ASSUME NEW q \in Procs, q # p PROVE Uses(q)'
      <3>1. pc[q] \in {"concat"} \cup CommitPcs => Kept(req[q].upload)
        BY <1>4, <1>12, <2>5, OthersKeep
      <3>2. QED
        BY <1>7, <2>1, <2>5, <3>1 DEF Kept
    <2>6. ASSUME pc'[p] \notin {"concat"} \cup CommitPcs PROVE Uses(p)'
      BY <2>6
    <2>7. ASSUME pc[p] = "complete" PROVE Uses(p)'
      <3>1. Validate(p)
        BY <1>12, <2>7, ByPc
      <3>2. v \in Uploads /\ \A q \in Procs : Works(q, v) => q = p
        BY <2>3, <2>7 DEF CompletePcs
      <3>3. final[v] = None
        <4>1. \A q \in Procs : ~ Finishing(q, v)
          BY <2>7, <3>2, WorksOn DEF Finishing, CompletePcs, CommitPcs
        <4>2. QED
          BY <1>1, <3>2, <4>1 DEF FinalInUse
      <3>4. \/ pc'[p] = "return"
            \/ pc'[p] = "concat" /\ todo'[p] = req[p].claim /\ Valid(v, req[p].claim)
        BY <1>1, <3>1, <3>3 DEF Validate, Goto, Answer, TypeOK
      <3>5. CASE pc'[p] = "return"
        BY <2>6, <3>5 DEF CommitPcs
      <3>6. CASE pc'[p] = "concat" /\ todo'[p] = req[p].claim /\ Valid(v, req[p].claim)
        BY <2>1, <3>6 DEF CommitPcs, Valid
      <3>7. QED
        BY <3>4, <3>5, <3>6
    <2>8. ASSUME pc[p] = "concat", ConcatPart(p) PROVE Uses(p)'
      <3>1. /\ v \in Uploads /\ todo[p] \in Seq(ListedPart) /\ todo[p] # <<>>
            /\ req[p].claim \in Seq(ListedPart)
        BY <1>1, <2>3, <2>8 DEF ConcatPart, TypeOK, CompletePcs
      <3>2. Head(todo[p]) = todo[p][1] /\ Head(todo[p]).number \in PartNumbers
        BY <1>5, <3>1
      <3>3. \/ /\ file' = [file EXCEPT ![v][Head(todo[p]).number] = None]
               /\ todo'[p] = Tail(todo[p])
               /\ pc' = pc
            \/ pc'[p] = "removeDir"
        <4>1. ~ Fault("files")
          BY NoFault
        <4>2. QED
          BY <1>1, <2>8, <4>1 DEF ConcatPart, ConsumePart, GiveUp, CleanUp, TypeOK
      <3>4. CASE pc'[p] = "removeDir"
        BY <2>6, <3>4 DEF CommitPcs
      <3>5. CASE /\ file' = [file EXCEPT ![v][Head(todo[p]).number] = None]
                 /\ todo'[p] = Tail(todo[p])
                 /\ pc' = pc
        <4>1. \A n \in PartNumbers : n = Head(todo[p]).number \/ file[v][n] = None =>
                                       file'[v][n] = None
          BY <1>1, <3>1, <3>2, <3>5, FileCell
        <4>2. ASSUME NEW i \in DOMAIN req[p].claim
              PROVE  \/ file'[v][req[p].claim[i].number] = None
                     \/ \E j \in DOMAIN Tail(todo[p]) :
                          Tail(todo[p])[j].number = req[p].claim[i].number
          <5>1. req[p].claim[i].number \in PartNumbers
            BY <1>5, <3>1
          <5>2. CASE file[v][req[p].claim[i].number] = None
            BY <4>1, <5>1, <5>2
          <5>3. CASE file[v][req[p].claim[i].number] # None
            <6>1. PICK j \in DOMAIN todo[p] : todo[p][j].number = req[p].claim[i].number
              BY <1>2, <2>8, <5>3
            <6>2. CASE j = 1
              BY <3>2, <4>1, <5>1, <6>1, <6>2
            <6>3. CASE j # 1
              <7>1. j - 1 \in DOMAIN Tail(todo[p]) /\ Tail(todo[p])[j - 1] = todo[p][j]
                BY <3>1, <6>3
              <7>2. QED
                BY <6>1, <7>1
            <6>4. QED
              BY <6>2, <6>3
          <5>4. QED
            BY <5>2, <5>3
        <4>3. pc[p] \notin CommitPcs /\ req[p].claim # <<>>
          BY <1>2, <2>8 DEF CommitPcs
        <4>4. QED
          BY <2>1, <2>8, <3>5, <4>2, <4>3
      <3>6. QED
        BY <3>3, <3>4, <3>5
    <2>9. ASSUME pc[p] = "concat", RenameFinal(p) PROVE Uses(p)'
      <3>1. /\ pc'[p] = "commit" \/ pc'[p] = "removeDir"
            /\ todo[p] = <<>> /\ file' = file
        BY <1>1, <2>9 DEF RenameFinal, Goto, GiveUp, CleanUp, TypeOK
      <3>2. req[p].claim # <<>> /\ \A i \in DOMAIN req[p].claim : Taken(p, req[p].claim[i].number)
        BY <1>2, <2>9, <3>1
      <3>3. QED
        BY <2>1, <3>1, <3>2 DEF CommitPcs
    <2>10. ASSUME pc[p] \in CommitPcs PROVE Uses(p)'
      <3>1. pc'[p] \in {"backup", "unlink", "map", "removeDir", "return"}
        BY <1>1, <1>12, <2>10, Moves DEF CommitPcs
      <3>2. file' = file
        BY <1>12, <2>10, ByPc
           DEF CommitPcs, OpenFinal, Backup, UnlinkFinal, PutObjectMapping, scratch
      <3>3. req[p].claim # <<>> /\ \A i \in DOMAIN req[p].claim : Taken(p, req[p].claim[i].number)
        BY <1>2, <2>10
      <3>4. QED
        BY <2>1, <3>1, <3>2, <3>3
    <2>11. CASE pc[p] \notin {"complete", "concat"} \cup CommitPcs
      <3>1. pc'[p] \notin {"concat"} \cup CommitPcs
        BY <1>1, <1>12, <2>1, <2>11, Moves DEF Pcs, CommitPcs, CleanPcs
      <3>2. QED
        BY <2>4, <2>5, <2>6, <3>1
    <2>12. CASE pc[p] \in {"complete", "concat"} \cup CommitPcs
      BY <1>12, <2>4, <2>5, <2>7, <2>8, <2>9, <2>10, <2>12, ByPc
    <2>13. QED
      BY <2>11, <2>12
  <1>13. QED
    BY <1>8, <1>9, <1>10, <1>11, <1>12, NextCases

(* A part of every claim is consumed by the commit and comes back only with a new one. *)
LEMMA OnceStep ==
  ASSUME BaseInv, ClearedInv, [Next]_vars, KeysMatch, ClaimsOverlap, OnceInv
  PROVE  OnceInv'
  <1>1. ASSUME \A m \in Meeting : ~ (m \subseteq faults') PROVE SpentInv'
    <2>1. \A m \in Meeting : ~ (m \subseteq faults)
      BY <1>1, FaultsGrow
    <2>2. QED
      BY <1>1, <2>1, SpentStep DEF OnceInv
  <1>2. ASSUME faults' \cap {"backup", "files", "crash"} = {} PROVE FirstInv'
    <2>1. faults \cap {"backup", "files", "crash"} = {}
      BY <1>2, FaultsGrow
    <2>2. \A m \in Meeting : ~ (m \subseteq faults)
      BY <2>1 DEF Meeting
    <2>3. QED
      BY <1>2, <2>1, <2>2, FirstStep DEF OnceInv
  <1>3. QED
    BY <1>1, <1>2 DEF OnceInv

------------------------------------------------------------------------------
(***************************************************************************)
(* The inductive invariant                                                 *)
(***************************************************************************)
(* There are finitely many kinds of fault.                                 *)
LEMMA FaultsFinite == \A S : S \subseteq AllFaults => IsFiniteSet(S)
  <1>1. IsFiniteSet({"body"} \cup {"copy"} \cup {"backup"} \cup {"store"} \cup {"files"}
                      \cup {"crash"})
    BY FS_Singleton, FS_Union
  <1>2. AllFaults = {"body"} \cup {"copy"} \cup {"backup"} \cup {"store"} \cup {"files"}
                      \cup {"crash"}
    BY DEF AllFaults
  <1>3. QED
    BY <1>1, <1>2, FS_Subset

(* No step adds more faults than the bound leaves.                         *)
LEMMA FaultsStep ==
  ASSUME TypeOK, [Next]_vars, Cardinality(faults) <= MaxFaults
  PROVE  Cardinality(faults') <= MaxFaults
  <1>1. faults' = faults \/ \E f \in Faults : Fault(f)
    <2>1. ASSUME NEW p \in Procs, Work(p) PROVE faults' = faults \/ \E f \in Faults : Fault(f)
      BY <2>1 DEF Work, CreateMultipartUpload, OpenPart, WritePart, PutPart, TouchUpload, Validate,
         ConcatPart, RenameFinal, OpenFinal, Backup, UnlinkFinal, PutObjectMapping,
         AbortMultipartUpload, DeleteObject, RemoveDir, RemoveRecord, ConsumePart,
         RemoveUploadDir, RemoveUploadDirFails, DeleteUpload, DeleteUploadFails, Fault
    <2>2. Crash => \E f \in Faults : Fault(f)
      BY DEF Crash, Fault
    <2>3. Collect => faults' = faults \/ \E f \in Faults : Fault(f)
      BY DEF Collect, ReadScratchDir, ListAllUploadIDs, RemoveOrphan, Reconciled,
         ListUploadsOlderThan, SweepDir, SweepRecord, SweepDone, RemoveUploadDir,
         RemoveUploadDirFails, DeleteUpload, DeleteUploadFails, Fault
    <2>4. QED
      BY <2>1, <2>2, <2>3, NextCases DEF Enter, Return, Expire, vars
  <1>2. CASE faults' = faults
    BY <1>2
  <1>3. ASSUME NEW f \in Faults, Fault(f) PROVE Cardinality(faults') <= MaxFaults
    BY <1>3 DEF Fault
  <1>4. QED
    BY <1>1, <1>2, <1>3

(* Each layer holds at first. *)
LEMMA InitInv == Init => IInv
  <1> SUFFICES ASSUME Init PROVE IInv
    OBVIOUS
  <1>1. BaseInv /\ PresentInv
    BY BaseInit, PresentInit
  <1>2. RetryInv
    BY DEF Init, RetryInv, RetryUploads, RetryFinals, CanRetry
  <1>3. ClaimInv
    BY DEF Init, NoFiles, ClaimInv, FilesInv, AssembledInv, FinalInUse, CommitPcs
  <1>4. ClearedInv /\ OnceInv
    BY DEF Init, ClearedInv, OnceInv, SpentInv, FirstInv, FinalInUse, CompletePcs, CommitPcs
  <1>5. Cardinality(faults) <= MaxFaults
    BY ConstantsAssumption, FS_EmptySet DEF Init
  <1>6. QED
    BY <1>1, <1>2, <1>3, <1>4, <1>5 DEF IInv

(* Each layer is kept under its own circumstances, and BaseInv under all. *)
LEMMA NextInv == IInv /\ [Next]_vars => IInv'
  <1> SUFFICES ASSUME IInv, [Next]_vars PROVE IInv'
    OBVIOUS
  <1>1. BaseInv /\ TypeOK
    BY DEF IInv, BaseInv
  <1>2. BaseInv' /\ (KeysMatch => ClearedInv)'
    BY <1>1, BaseStep, ClearedStep DEF IInv
  <1>3. (Undisturbed => PresentInv)'
    BY <1>1, PresentStep DEF IInv
  <1>4. (Undisturbed /\ faults \subseteq {"copy", "backup"} => RetryInv)'
    BY <1>1, RetryStep DEF IInv
  <1>5. (KeysMatch /\ faults \subseteq {"body", "copy"} => ClaimInv)'
    BY <1>1, ClaimStep DEF IInv
  <1>6. (KeysMatch /\ ClaimsOverlap => OnceInv)'
    BY <1>1, OnceStep DEF IInv
  <1>7. Cardinality(faults') <= MaxFaults
    BY <1>1, FaultsStep DEF IInv
  <1>8. QED
    BY <1>2, <1>3, <1>4, <1>5, <1>6, <1>7 DEF IInv

(* Whatever requests and sweeps overlap and whatever fails, every part of  *)
(* the invariant holds in the circumstances named with it.                 *)
THEOREM Invariance == Spec => []IInv
  BY InitInv, NextInv, PTL DEF Spec

(* Records, files and requests have their types, whatever happens.         *)
THEOREM TypeCorrect == Spec => []TypeOK
  <1>1. IInv => TypeOK
    BY DEF IInv, BaseInv
  <1>2. QED
    BY <1>1, Invariance, PTL

------------------------------------------------------------------------------
(***************************************************************************)
(* What follows for the properties                                         *)
(***************************************************************************)
(* Nobody works on an upload that is at rest.                              *)
LEMMA NobodyAtRest ==
  ASSUME BaseInv, KeysMatch, NEW u \in Uploads, AtRest(u), NEW p \in Procs
  PROVE  ~ Works(p, u)
  <1>1. Works(p, u) => home[u] = req[p].key /\ pc[p] # "idle"
    BY WorkersHome
  <1>2. QED
    BY <1>1, NoneAssumption DEF BaseInv, LockInv, AtRest

(* Reconciliation runs beside the first requests without a lock, and still *)
(* removes no directory of an upload that has a record.                    *)
THEOREM ReconciliationIsSafe == Spec => ReconcileSparesUploads
  <1>1. IInv /\ [Next]_vars =>
          [\A u \in Uploads : gcpc = "reconcile" /\ u \in gctodo /\ u \notin gctodo' =>
             record[u] = None]_vars
    BY DEF IInv, BaseInv, GcInv
  <1>2. QED
    BY <1>1, Invariance, PTL DEF Spec, ReconcileSparesUploads

(* While clients name uploads with their own keys, every commit holds the  *)
(* lock of the key it commits to.                                          *)
THEOREM CommitsAreLocked == ASSUME KeysMatch PROVE Spec => []CommitsUnderItsLock
  <1>1. ASSUME IInv, NEW p \in Procs, pc[p] \in CommitPcs
        PROVE  holder[home[req[p].upload]] = p
    <2>1. BaseInv
      BY <1>1 DEF IInv
    <2>2. req[p].upload \in Uploads /\ Works(p, req[p].upload)
      BY <1>1, <2>1, WorksOn DEF CompletePcs
    <2>3. home[req[p].upload] = req[p].key /\ pc[p] # "idle"
      BY <2>1, <2>2, KeysMatch, WorkersHome
    <2>4. QED
      BY <2>1, <2>3 DEF BaseInv, LockInv
  <1>2. IInv => CommitsUnderItsLock
    BY <1>1 DEF CommitsUnderItsLock, CommitPcs
  <1>3. QED
    BY <1>2, Invariance, PTL

(* Without sweeps and crashes, an upload's records and its directory agree *)
(* as soon as nothing is at work on it, whatever else failed, but for what *)
(* could not be removed.                                                   *)
THEOREM NeverSplit ==
  ASSUME KeysMatch, ~ Collecting, "crash" \notin Faults
  PROVE  Spec => []NoSplitState
  <1>1. ASSUME IInv, NEW u \in Uploads, AtRest(u)
        PROVE  /\ parts[u] # NoFiles => record[u] # None
               /\ dir[u] => record[u] # None \/ "dir" \in undone[u]
               /\ parts[u] # NoFiles => dir[u] \/ "record" \in undone[u]
    <2>1. BaseInv /\ AgreeInv
      BY <1>1, KeysMatch, ~ Collecting, "crash" \notin Faults
         DEF IInv, BaseInv, TypeOK, Undisturbed, PresentInv
    <2>2. ~ \E p \in Procs : pc[p] = "removeRecord" /\ u = Head(victims[p])
      BY <1>1, <2>1, KeysMatch, NobodyAtRest, WorksOn DEF CleanPcs
    <2>3. QED
      BY <2>1, <2>2 DEF AgreeInv
  <1>2. IInv => NoSplitState
    BY <1>1 DEF NoSplitState
  <1>3. QED
    BY <1>2, Invariance, PTL

(* Then what UploadPart has answered ok for is there, in the directory and *)
(* in the database.                                                        *)
THEOREM PartsAreStored ==
  ASSUME KeysMatch, ~ Collecting, "crash" \notin Faults
  PROVE  Spec => []AcknowledgedPartIsStored
  <1>1. ASSUME IInv PROVE PartInv
    BY <1>1, KeysMatch, ~ Collecting, "crash" \notin Faults
       DEF IInv, BaseInv, TypeOK, Undisturbed, PresentInv
  <1>2. IInv => AcknowledgedPartIsStored
    BY <1>1 DEF PartInv, AcknowledgedPartIsStored
  <1>3. QED
    BY <1>2, Invariance, PTL

(* And a DeleteObject that aborts the key's uploads leaves nothing of them *)
(* but what it could not remove, an AbortMultipartUpload that answers ok   *)
(* nothing of its own.                                                     *)
THEOREM DeleteClears ==
  ASSUME KeysMatch, ~ Collecting, "crash" \notin Faults
  PROVE  Spec => []DeleteClearsKey
  <1>1. ASSUME IInv PROVE VictimInv /\ RequestInv
    BY <1>1, KeysMatch, ~ Collecting, "crash" \notin Faults
       DEF IInv, BaseInv, TypeOK, Undisturbed, PresentInv
  <1>2. IInv => DeleteClearsKey
    BY <1>1 DEF VictimInv, RequestInv, CleanPcs, Gone, GoneOrUndone, DeleteClearsKey
  <1>3. QED
    BY <1>2, Invariance, PTL

(* Without sweeps, an upload at rest can be completed again after failed   *)
(* copies and failed backups.                                              *)
THEOREM FailedCompletesRetry ==
  ASSUME KeysMatch, ~ Collecting
  PROVE  Spec => []RetryableUnlessStoreFailed
  <1>1. ASSUME IInv, faults \subseteq {"copy", "backup"}, NEW u \in Uploads, AtRest(u),
               parts[u] # NoFiles
        PROVE  \/ final[u] # None
               \/ \A n \in PartNumbers : parts[u][n] # None => file[u][n] = parts[u][n]
    <2>1. BaseInv /\ RetryInv
      BY <1>1, KeysMatch, ~ Collecting DEF IInv, Undisturbed
    <2>2. ~ Busy(u) /\ \A n \in PartNumbers : ~ Writing(u, n)
      <3>1. \A p \in Procs : ~ Works(p, u)
        BY <1>1, <2>1, KeysMatch, NobodyAtRest
      <3>2. QED
        BY <2>1, <3>1, WorksOn DEF Busy, Writing, PartPcs, CompletePcs, CommitPcs
    <2>3. QED
      BY <1>1, <2>1, <2>2 DEF RetryInv, RetryUploads, CanRetry
  <1>2. IInv => RetryableUnlessStoreFailed
    BY <1>1 DEF RetryableUnlessStoreFailed, Retryable
  <1>3. QED
    BY <1>2, Invariance, PTL

(* Sweeps or not, what is committed is what was claimed after nothing but  *)
(* bodies that broke off and copies that failed.                           *)
THEOREM ClaimsAreCommitted ==
  ASSUME KeysMatch
  PROVE  Spec => []CommitsClaimUnlessStoreOrBackupFailed
  <1>1. ASSUME IInv, faults \subseteq {"body", "copy"} PROVE AssembledInv
    BY <1>1, KeysMatch DEF IInv, ClaimInv
  <1>2. IInv => CommitsClaimUnlessStoreOrBackupFailed
    BY <1>1 DEF AssembledInv, CommitPcs, CommitsWhatWasClaimed, CommitsClaimUnlessStoreOrBackupFailed
  <1>3. QED
    BY <1>2, Invariance, PTL

(* With claims that share a part, an upload becomes the key's object once  *)
(* through sweeps and any one kind of fault, or through any kinds of which *)
(* no two meet that bring its bytes back: a crash with a backup or a       *)
(* removal that failed, a failed removal with a failed deletion.           *)
THEOREM OneCommit ==
  ASSUME KeysMatch, ClaimsOverlap, MaxFaults <= 1 \/ \A m \in Meeting : ~ (m \subseteq Faults)
  PROVE  Spec => []CommittedOnce
  <1>1. ASSUME IInv, NEW m \in Meeting PROVE ~ (m \subseteq faults)
    <2>1. faults \subseteq Faults /\ Cardinality(faults) <= MaxFaults /\ MaxFaults \in Nat
      BY <1>1, ConstantsAssumption DEF IInv, BaseInv, TypeOK
    <2>2. IsFiniteSet(faults) /\ Cardinality(faults) \in Nat
      BY <2>1, ConstantsAssumption, FaultsFinite, FS_CardinalityType
    <2>3. ASSUME m \subseteq faults PROVE Cardinality(faults) > 1
      <3>1. PICK f, g \in AllFaults : m = {f, g} /\ f # g
        <4>1. CASE m = {"backup", "crash"}
          BY <4>1 DEF AllFaults
        <4>2. CASE m = {"files", "crash"}
          BY <4>2 DEF AllFaults
        <4>3. CASE m = {"files", "store"}
          BY <4>3 DEF AllFaults
        <4>4. QED
          BY <4>1, <4>2, <4>3 DEF Meeting
      <3>2. IsFiniteSet({f}) /\ Cardinality({f}) = 1
        BY FS_Singleton
      <3>3. Cardinality({f} \cup {g}) = 2
        <4>1. g \notin {f}
          BY <3>1
        <4>2. Cardinality({f} \cup {g}) = Cardinality({f}) + 1
          BY <3>2, <4>1, FS_AddElement
        <4>3. QED
          BY <3>2, <4>2
      <3>4. {f} \cup {g} \subseteq faults
        BY <2>3, <3>1
      <3>5. Cardinality({f} \cup {g}) <= Cardinality(faults)
        BY <2>2, <3>4, FS_Subset
      <3>6. QED
        BY <2>2, <3>3, <3>5
    <2>4. QED
      BY <2>1, <2>2, <2>3, MaxFaults <= 1 \/ \A n \in Meeting : ~ (n \subseteq Faults)
  <1>2. IInv => CommittedOnce
    BY <1>1, KeysMatch, ClaimsOverlap DEF IInv, OnceInv, SpentInv, CommittedOnce
  <1>3. QED
    BY <1>2, Invariance, PTL
==============================================================================
