# A TLA+ verification of pterodactyl-proxmox-backup-bridge

The bridge is an S3 server, written in Go, that Pterodactyl's Wings uploads its
game-server backups to. It keeps no object itself: each object is a snapshot in
a Proxmox Backup Server (PBS), made by running `proxmox-backup-client`, and a
bbolt database maps each `(bucket, key)` to the snapshot that holds it. This
directory holds TLA+ specifications of the parts where that arrangement can go
wrong, configurations that check them with TLC, and theorems checked by TLAPS.

Paths below are relative to the repository.

## 1. Inventory

### 1.1 Components

| Component | Source | State it keeps | Operations |
|---|---|---|---|
| Keyed lock | `internal/store/lock.go` | a map from key to a reference-counted mutex, and the mutex that guards it | `Lock`, the unlock function it returns |
| Object protocol | `internal/backend/backend.go`, `internal/store/objects.go` | bbolt bucket `objects`; PBS snapshots; the lock of a key and of a backup group | `PutObject`, `GetObject`, `HeadObject`, `DeleteObject`, `commitObjectLocked` |
| Multipart uploads | `internal/backend/backend.go`, `internal/store/multipart.go`, `internal/stage/staging.go` | bbolt buckets `multipart_uploads` and `multipart_parts`; a scratch directory for each upload | `CreateMultipartUpload`, `UploadPart`, `ListParts`, `CompleteMultipartUpload`, `AbortMultipartUpload`, `abortMatchingUploads` |
| Garbage collector | `internal/stage/gc.go` | none of its own | `reconcileOnStartup` once at startup, then `sweep` on every tick |
| PBS client | `internal/pbs/client.go`, `errors.go` | none between calls; in a call the attempt, the backoff and the deadline | `Backup`, `Restore`, `RestoreStream`, `UpdateNotes`, `Forget`, `runWithRetry` |
| Download handler | `internal/s3api/get_object.go` with `GetObject` and `RestoreStream` | two reads of the mapping, a child process, a `get-*.tmp` scratch file | `handleGetObject`, `parseRange` |
| Other handlers and router | `internal/s3api/*.go` | none | dispatch on method and query, XML bodies, error codes |
| Object listing | `internal/store/objects.go`, `internal/backend/backend.go` | reads `objects` | `ListObjects` with prefix, delimiter, start-after and page size |
| Identifier mapping | `internal/idmap/sanitize.go` | none | key to PBS namespace and backup ID |
| Database lifecycle | `internal/store/bbolt.go` | the database file, its buckets and schema version | `Open`, `Close` |
| SigV4 | `internal/sigv4/*.go` | none; a chunked body has a reader with a state | `Verify`, presigned URLs, clock window, `ChunkedReader` |
| Server lifecycle | `cmd/bridge/main.go` | the server, its contexts | start, graceful shutdown |
| Configuration, logging | `internal/config`, `internal/logging` | read once | |

### 1.2 How they interact

* **Calls.** The router authenticates a request (SigV4) and calls a handler, the
  handler calls the backend, the backend calls the store, the scratch-file
  package and the PBS client. All of it runs on the goroutine of the request.
  Only the garbage collector has a goroutine of its own.
* **Locks.** Every backend operation that changes something takes the
  `KeyedMutex` entry of its `(bucket, key)` for its whole body. A commit also
  takes the entry of its backup group, inside the first one, for the duration
  of `PBS.Backup`. Downloads and the garbage collector take no lock.
* **Shared state.** bbolt transactions are serializable and durable. Scratch
  files are plain files: an upload's parts, `final.img.partial`, `final.img`.
  PBS is remote and knows nothing of the bridge's locks.
* **Failure.** A `proxmox-backup-client` run can fail before or after it had
  its effect; a bbolt transaction can fail (the disk is full); a body can break
  off; the process can die at any step. Nothing spans bbolt and PBS: each
  operation is a sequence of steps in two systems.

### 1.3 What is hard, and what makes each part correct

* *Keyed lock.* The entry of a key is made by its first user and deleted by its
  last one while others come. Correct: at most one holder per key, no caller
  counted twice or not at all, no entry kept, every call returns.
* *Object protocol.* An overwrite maps the new snapshot and then forgets the old
  one, a deletion forgets and then unmaps. Keys may share a backup group, whose
  backup times have one second's resolution and must ascend. Correct: a mapped
  key is backed by a snapshot with its content, except through its own deletion;
  no two keys share a snapshot; snapshots leak only through faults; each request
  looks as if it took effect at one instant.
* *Multipart uploads.* An upload is records and files that change in turn.
  Correct: records and files agree whenever nothing is at work on the upload; an
  acknowledged part is there; what is committed is what the client claimed; a
  failed completion can be repeated; a repeated one does not commit twice.
* *Garbage collector.* It runs beside the requests without locks. Correct:
  abandoned uploads go, active ones stay, and reconciliation takes no directory
  of a recorded upload.
* *PBS client.* Retries inside collision retries, under a deadline. Correct:
  answers agree with what happened, every call ends within its budget,
  exhaustion is reported only when it is real.
* *Listing.* A page is cut by a count of rows and by a count of entries, some of
  which stand for many rows; the next page starts at the last entry, and rows
  come and go in between. Correct: nothing that stays is skipped, nothing is
  listed twice, a page leads on.
* *Requests and SigV4.* What the client signs and what arrives through a proxy
  must come to one canonical request, under clocks that differ; a streamed body
  is verified while it is already being handed on. Correct: nothing is served
  that was not signed so, nothing is refused without a reason, an acknowledged
  body is the signed one.
* *Server lifecycle.* A shutdown waits, but not for ever; the database is then
  closed under whatever still runs, and the next process may be waiting for it.
  Correct: what was acknowledged stays, one process has the database, a
  signalled process ends.
* *Identifier mapping.* Correct: every ID is one PBS takes, and it is known
  which keys share a group.
* *Download.* Size and body come from two reads of the mapping with no lock; a
  timeout applies until the first byte and not after it; a child process and a
  scratch file have to be got rid of on every path. Correct: the bytes asked
  for, nothing killed once it streams, nothing left behind.

`PROJECT.json` lists these hazards line by line under `hazards`, with the
properties that would catch them.

## 2. The modules

| Module | What it is |
|---|---|
| `KeyedLock` | Abstract: one holder per key. |
| `KeyedMutex` | `lock.go`, one action per mutex operation and critical section. |
| `KeyedMutexProofs` | Its inductive invariant, theorems and the refinement of `KeyedLock`. |
| `S3Objects` | Abstract: a linearizable store of whole objects. |
| `Objects` | Put, delete and get over bbolt's mapping and PBS's snapshots. |
| `ObjectsProofs` | Its inductive invariant and theorems; the counts of leaks and of missing notes; the refinement of `S3Objects`. |
| `Multipart`, `MultipartProofs` | Upload records, scratch files, the garbage collector; their safety proved. |
| `PBSClient`, `PBSClientProofs` | One call of the PBS client: retries, collisions, deadline, error classes; its safety proved. |
| `Download`, `DownloadProofs` | One download after another, streamed or ranged, beside writers of the key; its safety proved. |
| `Listing` | `ListObjectsV2`: scan, grouping, truncation, and the client that reads page after page. |
| `SigV4` | Verification as operators: canonical request, clock window, the order of the checks; the client's signer. |
| `Router` | The switch of `ServeHTTP` as a table of cases. |
| `ChunkedReader` | The decoder of aws-chunked bodies over a wire that may do anything. |
| `Requests`, `RequestsProofs` | Composes these three: a request from its client through a proxy to its handler, with its body. Proved: the decoder, by itself and in place; what becomes of a body; that what is served is what was signed and meant, and that what should be served is. |
| `Server`, `ServerProofs` | Bridge processes on one database: start, shutdown, crash, successor, with uploads in flight; its safety proved. |
| `Idmap` | The PBS group of a key. |
| `NamesProofs` | About names, of both modules: `Listing`'s inductive invariant and theorems; what IDs are and who shares one. |
| `MC*` | The instances TLC checks. |

They compose by abstraction. `KeyedMutex` shows that the real lock is the
one-step lock `KeyedLock`; `Objects` and `Multipart` use that: `holder` maps a
lock to the request that has it. `Objects` contains the retry loops of the PBS
client as its requests interleave; `PBSClient` adds the clock, the deadline and
the backoff for one call. `Multipart` takes the commit of `Objects` as one step
that fails or succeeds between its own file operations; `Download` takes the
writers of `Objects` as an environment of map, forget and unmap steps.
`Requests` ends where a handler has read its body to a scratch file, which is
where `Objects`, `Multipart` and `Server` begin. `Server` has one upload per key,
so that it can leave locks and overwrites to `Objects` and add what that leaves
out: the scratch file of `PutObject`, the grace period, the lock on the database
file. `MCObjects` takes its group of two keys from `Idmap`; the theorems about
`Objects` hold for any map from keys to groups.

### 2.1 Correspondence with the code

The `map` of `PROJECT.json` gives the lines each definition stands for. In short:

* **`KeyedMutex`**: `mu` is `k.mu`, `locks` is `k.locks`, `ref` and `owner` are
  the two fields of `refCountedMutex`. Objects the garbage collector of Go could
  reuse are those nothing refers to (`Fresh`). `Find` is the critical section of
  `Lock`, `Drop` the one of the unlock function.
* **`Objects`**: `mapping` is the bucket `objects` reduced to the backup time
  and ETag, `snaps` what PBS holds, `holder` the `KeyedMutex`. One action per
  bbolt transaction, PBS run or lock operation, in the order of
  `commitObjectLocked` (`LockKey` with the read of the clock, `LockGroup`,
  `BackupDone`/`BackupFails`/`BackupCollides`, `UpdateNotes`, `ReadOld`,
  `WriteMapping`, `ForgetDone`/`ForgetFails`), of `DeleteObject` (`Lookup`,
  forget, `DeleteMapping`) and of `GetObject` (`ReadMapping`, `Restore`). The
  deferred unlock is part of `Return`. A content stands for its bytes and its
  ETag, a backup time is a number of seconds.
* **`Multipart`**: one action per bbolt transaction or file operation that
  another party can see. `record`, `parts` are the two buckets (with `stale` for
  "last activity older than the TTL"), `dir`, `file`, `partial`, `final` the
  scratch directory. `Torn` is what a file holds that is half written. Wherever
  the code removes a directory or a record, the removal may fail
  (`RemoveUploadDirFails`, `DeleteUploadFails`), with what the caller makes of
  it: `AbortMultipartUpload` answers the error, `cleanupUpload`,
  `abortMatchingUploads` and the collector log it and go on.
  `home`, `commits` and `undone`, what could not be removed, are history.
* **`PBSClient`**: `attempt`, `delay`, `wake`, `deadline` are the locals of
  `runWithRetry`; `time`, `bumps` those of `Backup`; `stored` is the server.
  `elapsed` counts time in units of `transientRetryBaseDelay`. A failed run's
  stderr matches a set of `Classes`, the classifiers of `errors.go`; `Judge` and
  `Conclude` are the order they are asked in. A run may fail in the words of any
  set, and a refusal may come in other words than those looked for.
* **`Download`**: `info` and `source` are the two reads of the mapping, `proc`
  the child process, `expired` and `cancelled` the two contexts of
  `RestoreStream`, `sent` the bytes the client got. `ParseRange` is
  `parseRange`.
* **`Listing`**: `rows` is the bucket `objects` of bbolt, bucket name, NUL and
  key in one sequence of bytes. `Scan` is the cursor's loop, whose body is
  `Filter`; `ListObjects` is the loop of `Backend.ListObjects` and `Response` the
  handler. What a loop does one row at a time is a recursive function of the row,
  or the set of rows it takes, so that it can be proved about. The client goes on
  behind the greatest entry of a page, by either parameter. `always` and `ever`
  are history: the rows that were there all the time, and at any page.
* **`SigV4`**: `VerifyHeader` and `VerifyPresigned` list the checks of the
  functions of that name in order, with the error code of each; `Expired` and
  `Skewed` are `clock.go`. A signature is the record of all it is computed from,
  which is what an HMAC that nobody forges amounts to. Sorting is by rank: in
  place `n` comes the name with `n - 1` before it (`InOrder`, `Sorted`), which is
  what any sort makes of distinct names. `Duration` wraps around as
  `time.Duration` does.
* **`Requests`**: `sent` and `req` are the request as signed and as it arrives;
  `Forwarded` is what a proxy may do without breaking a signature, `Mangled`
  what must break it. `ReadChunk` and `ReadPlain` are the body's reader,
  `WriteToTemp` and `WritePart`. `wire`, `prev`, `taken`, `done`, `err` are those
  of `ChunkedReader`; `NextChunk` is its step, so `TakenAsSigned` is checked here
  and proved there.
* **`Server`**: `phase` is the place a process has reached in `run`, `lock` the
  flock of `bridge.db`, `files`, `children`, `snaps`, `mapped` what an upload has
  left in the scratch directory, the process table, PBS and bbolt. A signal
  before `NotifyContext` kills the process: it is a `Crash`.

### 2.2 What is left out of them

The names of snapshots, files and records; XML; logging; the wording of errors.
In `Objects` a PBS error is of one class: transient or final, a collision, a
missing snapshot; `PBSClient` has those of several. The times `Client.Timeout`
bounds are a free choice to give up in `Objects` and counted in `PBSClient`. In `Multipart` a waiter for a lock is a
request that has not arrived: waiting has no effect; bbolt reads, and opening,
creating and closing scratch files, do not fail; nor does removing the file of a
part that broke off or a `final.img.partial`. In `Requests` URI encoding
and the texts of header, date and credential are taken to be read back as they
were written, and the `Date` header, which stands in for `X-Amz-Date`, is left
out. A region is not compared by the code and not modelled.

## 3. The runs

All bounds are constants of the `.cfg`. `MaxFaults` bounds how many faults
happen in a behaviour, `Faults` names which; `MaxTime` bounds the clock.

### 3.1 Runs that pass

| Run | Checks |
|---|---|
| `keyed_mutex` | exclusion, no stale entry; every call returns; `KeyedMutex` implements `KeyedLock` |
| `objects` | the safety of the object protocol under every fault; `Objects` implements `S3Objects` |
| `objects_live` | no request waits for ever |
| `multipart` | without sweeps, one kind of fault: records and files agree and a deletion leaves nothing, but for what could not be removed; acknowledged parts are stored, a failed completion can be repeated |
| `multipart_gc` | with sweeps, reconciliation and one kind of fault or a crash: commits are what was claimed, one commit per upload, no recorded upload is taken for an orphan, abandoned uploads go |
| `pbs_client` | answers, budget and exhaustion of one PBS call whose errors may be of any classes, and that it ends though the child may hang |
| `download` | ranges, bytes, the process and the scratch file of downloads; a response starts, or fails, in time |
| `listing` | no row that stays is skipped, none is invented or listed twice, and without a delimiter each page leads on |
| `request` | what is served was signed and arrived unchanged in time; what was, is served, and by the handler meant; a streamed body is stored as signed or not at all |
| `server` | acknowledged uploads stay, a shutdown fails nothing before its grace period is over, leftovers have a reason, a signalled process ends |

### 3.2 Runs that find a disagreement

Each checks one sentence of the repository and TLC finds a behaviour of the code
against it. `PROJECT.json` quotes the sentence under `findings`.

| Run | What happens |
|---|---|
| `multipart_lost_final` | `final.img` is removed before the mapping is written; when bbolt fails then, the answer is an error and `final.img` is gone, which the comment at `backend.go:487` calls the only thing a retry can succeed against. The run checks `FinalOutlivesFailure`. |
| `request_trailer` | `authenticate` unwraps one aws-chunked mode. A body sent in a mode with a trailer passes verification and is stored with its frames. |

More configurations are kept beside the runs, each with a counterexample to
the one property it names. They document behaviour worth knowing, most of it
against no sentence of the repository, and are not among the runs.

| Configuration | What happens |
|---|---|
| `MCObjectsExhausted.cfg` | The backup time is read before the wait for the group lock (`backend.go:121`). An upload overtaken there by one with a later clock collides, and after five seconds' difference exhausts its retries. |
| `MCMultipartStaleFinal.cfg` | A `final.img` of a failed attempt is reused although a part was sent again and claimed (`staging.go:102`). |
| `MCMultipartSplit.cfg` | The sweep removes an upload while a part of it is written; the part's record stays (`gc.go:55`). |
| `MCDownloadSlice.cfg` | The range is computed from the old object and cut from a shorter new one (`get_object.go:18`). |
| `MCPBSClientMisled.cfg` | A word of `IsNotFound` in another error makes `Forget` answer ok while the snapshot is there (`client.go:418`). |
| `MCListingStuck.cfg` | With a delimiter, a truncated page whose rows all lie under the common prefix it resumed behind is the same page again (`objects.go:76` compares keys with the prefix, which is less than them). The response carries no `NextContinuationToken`, so a client has nothing else to resume by. |
| `MCRequestsSubresource.cfg` | A PUT of a subresource the switch does not know, such as `?acl`, is taken for `PutObject` (`router.go:72`). |
| `MCObjectsReuse.cfg` | `Forget` is repeated after a lost reply (`client.go:417`). If PBS accepts the freed backup time again, another key may have it by then and loses its only snapshot. What PBS does is not in this repository: see `FreshStamps` below. |
| `MCMultipartTornPart.cfg` | A part sent again is written over the file its old record describes (`staging.go:190`); a crash leaves the old ETag over a torn file, and that is committed. A failed `PutPart` does the same with the new bytes. |
| `MCMultipartSweep.cfg` | The sweep removes an upload that became active after it was listed (`gc.go:54`). |
| `MCMultipartOtherKey.cfg` | An upload completed under another key's path is committed to its own key under the other key's lock (`backend.go:481`). |
| `MCPBSClientBudget.cfg` | Each collision starts a new `Client.Timeout`, where `docs/ARCHITECTURE.md` says each call has one. `WithinBudget` is what holds. |
| `MCDownloadEmpty.cfg` | A suffix range of an empty object is answered 206 with bytes 0 to -1 (`get_object.go:97`). |

Plainer properties, in configurations that pass and are not runs either:

| Configuration | Checks |
|---|---|
| `MCMultipartBasics.cfg` | `IInv`, the inductive invariant of `MultipartProofs`, with sweeps, faults and crashes; `EveryRequestAnswered`: the abort loop of a deletion ends, nobody waits for ever |
| `MCListingBasics.cfg` | `TypeOK`; `PagesAreBounded`: a page has at most as many objects as asked for (proved as well). Common prefixes are not bounded so: the code adds them before it compares with `max-keys` (`backend.go:314`), up to the rows it has fetched |
| `MCServerBasics.cfg` | `TypeOK`, `OneDatabase`; `OpeningEnds`: a process that waits for the database gets it or gives up |

`MCDownload.cfg`, `MCRequests.cfg` and `MCPBSClient.cfg` pass with the `TypeOK`
of their modules added, `MCKeyedMutex.cfg`, `MCObjects.cfg`, `MCMultipart.cfg`
and `MCPBSClient.cfg` with the inductive invariants `IInv` of the proofs, and
`MCObjects.cfg` with `LeakInv` and `NoteInv` as well, and the instance of
`MCListing.cfg` with `Sound`, the inductive invariant of `NamesProofs`. TLC also
evaluates `OperationsAreRouted`, an `ASSUME` of `MCRequests`: the switch picks the
handler meant for each operation of the instance, which is the hypothesis of two
theorems.

Two passing properties of the multipart runs are the other side of what goes
wrong above: `CommitsClaimUnlessStoreOrBackupFailed` says that commits are what was claimed
as long as no worse fault has happened than a broken body or a failed copy, and
`RetryableUnlessStoreFailed` that failed copies and failed backups leave an
upload retryable (a body that breaks off when a part is sent again takes the old
part with it). `NoSplitState`, `AcknowledgedPartIsStored` and `DeleteClearsKey`
are stated for a bridge that neither sweeps nor crashes: `Collecting` and
`Faults` in the `.cfg` say so, and the theorems have it as a hypothesis.

A clean-up may fail half-way. The first and the last of the three then hold but
for the very thing that could not be removed, which `undone` names. After a
failed `DeleteUpload` record and part records are there without a directory,
until a later clean-up or sweep; after a failed `RemoveUploadDir` a directory
is there without a record, which no request and no sweep looks at again: it
stays until the next start reconciles. `NoSplitState` says that there is no
third case, and that part records never outlive the upload's record;
`DeleteClearsKey` also says that an `AbortMultipartUpload` that answers ok has
left nothing at all.

`CommittedOnce` needs that all lists a client may claim share a part: the part
that is consumed is what stops the second attempt. Three pairs of faults
together defeat it, `Meeting` in `MultipartProofs`. A failed backup leaves a
`final.img`, the client sends its parts again, the retry commits that file
without using them up, a crash comes before the clean-up, and the parts complete
the upload a second time. Files that cannot be removed, the parts' as they are
appended or `final.img` after the backup, leave the upload with all its bytes if
a crash comes before the clean-up, or if the clean-up can remove neither the
directory nor the record.

### 3.3 The bounds and why they are enough

* *Two requests at a time*, three callers for the keyed lock. Every lock has one
  holder, so two requests already form every race of the protocol: a holder and
  one it excludes, or a locked request and an unlocked one. The keyed lock needs
  a third: one that leaves, one that waits, one that arrives. A request slot is
  used again and again, so runs are not limited to two requests.
* *Two keys of one group*, the least where a collision between keys can happen.
  Keys of different groups share nothing. For other numbers there are the
  proofs.
* *Two uploads of one content in `multipart`, one upload of two contents in
  `multipart_gc`, two part numbers*: an upload beside a second of its key, a
  claim of one part or of both, and, with two contents, a part sent again with
  other bytes. The properties of `multipart` that speak of contents are
  theorems (`PartsAreStored`, `FailedCompletesRetry`), and
  `MCMultipartBasics.cfg` checks their invariant with two contents. With two
  uploads clients claim one of two lists, with one upload one of three.
* *One fault* in `objects`, any of the kinds named, at any step; *one kind of
  fault* in the multipart runs, which may strike as often as it likes, but for a
  crash, which comes once; three and four faults in `download` and `pbs_client`,
  enough to exhaust the retries. In the multipart runs the kinds are broken
  bodies, failed copies, backups, bbolt writes, files or directories that cannot
  be removed, and a crash. `objects` counts leaks against faults: one for each,
  and for a crash one for each request it interrupts (`crashes` tells them
  apart), so a second leak by one failure shows.
* *`MaxCollisionRetries`, `MaxTransientRetries`* are 1 and 2 in `objects`, 2 and
  3 in `pbs_client`: each loop goes round, and gives up.
* *`MaxTime`* 2 lets a clock move past the first backup.
* *`Timeout` 5, delays 1 and 3*: the deadline falls inside a run, inside a
  backoff and at its end.
* *Objects of 0, 1 and 3 bytes*: the empty object, the one-byte one, and one
  with a first, an inner and a last byte; ranges reach beyond each.

* *Six keys of three characters at most, `PageLimit` 2, `OverFetch` 2, two
  changes*: keys alone, under one common prefix and under two, delimiters of one
  and two characters, pages cut by the count of rows, by the count of entries
  and inside a common prefix; rows of two other buckets whose names begin as
  this one's does.
* *`ClockSkew` 2, `MaxDuration` 16*: clocks off by less, as much and more than
  the skew, arrivals before and after each edge, expiries of 0, of 3, and of 20
  and 35, which wrap to a negative and a positive duration. All ten handlers and
  four requests that reach none; right and wrong keys.
* *A body of three frames, wires with up to two disturbances*: lost, repeated,
  exchanged, altered, garbled, torn frames and empty lines, and those in pairs;
  the theorem has every wire.
* *Two processes, two uploads, two faults*: the second process starts before,
  while and after the first one stops; one upload in each, or two in one.

Symmetry is used where the permuted values occur only as values: requests,
contents, and never with a liveness property.
`CHECK_DEADLOCK FALSE` is said for `PBSClient`, which is one call that ends, for
`Listing`, whose client is done and whose others make a bounded number of
changes, and for `Server`, whose processes run once each.

### 3.4 Fairness

* `KeyedMutex`: strong fairness for the three acquisitions, since `sync.Mutex`
  hands over to a waiter of more than a millisecond; weak fairness for
  straight-line code. None for the call.
* `Objects`: weak fairness for the steps of a handler (a PBS run ends by
  `Client.Timeout`, bbolt transactions return) and strong fairness for the
  locks, which is what `KeyedMutex!EveryCallReturns` shows. None for arrivals,
  the clock, crashes.
* `Multipart`: weak fairness for the handlers and the collector's goroutine.
  None for arrivals, expiry, crashes. No fairness makes a failing `DeleteUpload`
  succeed at last: `StaleIsReclaimed` excepts an upload for which it fails again
  and again, sweep after sweep.
* `PBSClient`: weak fairness for time, the kill at the deadline and the client's
  own code. None for the child process: it need never end.
* `Download`: weak fairness for the expiry of the start budget, the kill by a
  done context and the handler's code. None for the child process, and none for
  the copy, which a client may leave unread.

* `Server`: weak fairness for the code of `run` and for its two timers, the wait
  for the database and the grace period. None for uploads: a client may stall
  and `proxmox-backup-client` may hang for as long as they like.
* `Listing` and `Requests` state safety only.

## 4. What is proved

| Theorem | Module | States |
|---|---|---|
| `Invariance`, `Exclusion`, `NoLeak`, `Counts` | `KeyedMutexProofs` | the invariant; one holder per key; no entry outlives its users; counts are exact |
| `Refinement` | `KeyedMutexProofs` | `KeyedMutex` implements `KeyedLock` |
| `Invariance`, `NoSharing`, `NeverUnbacked`, `HistoryIsStill` | `ObjectsProofs` | the invariant; no shared snapshot; only a key's own deletion unbacks it; only its own attempts move a group's history |
| `LeaksAreBounded`, `NotesAreThere` | `ObjectsProofs` | unnamed snapshots and missing notes are accounted for by faults |
| `Refinement` | `ObjectsProofs` | `Objects` implements `S3Objects` |
| `Invariance`, `TypeCorrect` | `MultipartProofs` | the invariant, in its layers; the types |
| `ReconciliationIsSafe` | `MultipartProofs` | startup reconciliation takes no recorded upload's directory, whatever else happens |
| `CommitsAreLocked` | `MultipartProofs` | a commit holds the lock of the key it commits to |
| `NeverSplit`, `PartsAreStored`, `DeleteClears` | `MultipartProofs` | without sweeps and crashes: records and files agree and a deletion leaves nothing, but for what could not be removed; acknowledged parts are there |
| `ClaimsAreCommitted`, `FailedCompletesRetry`, `OneCommit` | `MultipartProofs` | what is committed was claimed; a failed completion can be repeated; one commit per upload; each under the faults it survives |
| `Budget`, `Truthful`, `Exhaustion` | `PBSClientProofs` | a PBS call takes at most `Client.Timeout` for each `runWithRetry`; its answer is what it did, but for lost replies; it is exhausted only by a history that reaches so far |
| `Invariance`, `RangesAreRight`, `CompleteDownloads` | `DownloadProofs` | the invariant; `parseRange` is right for every header and size; a complete download is the bytes asked for |
| `StreamsOutliveBudget`, `ProcessesEnd`, `ScratchFilesEnd` | `DownloadProofs` | the budget kills no stream; no process and, but for failed restores, no file stays |
| `ReaderInvariance`, `DecodedAsSigned` | `RequestsProofs` | a reader gets a beginning of the signed body, and its end only after all of it |
| `Invariance`, `ServedAsSigned`, `AllOrNothingButTrailers` | `RequestsProofs` | the same in front of a handler; an upload is stored as sent or not at all, unless it has a trailer |
| `ServedIsVouchedFor` | `RequestsProofs` | a request that is served was signed with the bridge's key, for its method, path and canonical request, and comes in its window |
| `OneOwner`, `Durable`, `TypeCorrect` | `ServerProofs` | one process has the database; an acknowledged upload keeps snapshot and mapping; the types |
| `Graceful`, `LeftoversExplained` | `ServerProofs` | a shutdown harms nobody within its grace period; what stays behind has a reason |
| `ServedAsSent` | `RequestsProofs` | a request that is served arrived as it was signed, in its window, and has the handler its client meant, if the switch routes the operations right |
| `RefusedForAReason` | `RequestsProofs` | under the same hypothesis, a request signed with the bridge's key, that comes in time and not mangled, is served, if it has a handler at all |
| `Invariance` | `NamesProofs` | the invariant of `Listing` |
| `NothingSkipped`, `NothingInvented`, `EachOnce` | `NamesProofs` | a listing that is done has every row that was there all the time, nothing that never was, and is in ascending order without repetition |
| `PagesGoOn`, `PagesBounded` | `NamesProofs` | without a delimiter each page begins behind the last; a page has at most as many objects as asked for |
| `IDIsValid`, `SharedID` | `NamesProofs` | IDs are what PBS takes; who shares one |

They hold for every number of requests, keys, groups, uploads, parts, contents,
processes and frames, every retry limit and every number of faults, under the
named `ASSUME`s of the modules, which say that the constants have their types,
that callers, and the upload IDs that will ever be made, are finite in number,
and that `None` is no other value. Two say a little more: `BytesAssumption`, that
there are finitely many keys, none of them empty, and `OperationAssumption`, that
the parameters of a request have known names which tell them apart, and that no
header's value is a blank. What a theorem assumes beyond that it states as a
hypothesis.

**The keyed lock.** `MutualExclusion` is not inductive: it says nothing of
callers that wait. The strengthening is that every caller that counts uses the
object the map holds for its key (`SameMutex`), that the count of an object is
the number of callers using it (`RefCountExact`, by cardinality of finite sets),
that `k.mu` is held by whoever is in its critical section, and that a caller in
`held` owns its object. Deleting the entry when the count falls to zero then
deletes it under nobody.

**The object protocol.** `IInv` in `ObjectsProofs` is the conjunction of

* `TypeOK`,
* `PhaseInv`: what a request has read or been given at each `pc`,
* `LockInv`: between `LockKey` and `Return` a request holds its key, between
  `LockGroup` and the end of `Backup` its group,
* `StampInv`, under `FreshStamps`: every mapped, snapshotted or in-hand backup
  time is at most the newest of its group, times name one snapshot in a group,
  and those of different keys differ.

`FreshStamps` is the assumption that PBS never accepts a backup time at or below
one its group has ever had. A comment of `internal/pbs/client.go:172` can be
read either way. With it, `NoSharing`, `NeverUnbacked`, the two counts and the
refinement are theorems; without it `MCObjectsReuse.cfg` shows the
counterexample. It is a hypothesis of those theorems, not an `ASSUME`.

The two counts stand on `IInv` with more of it. An unnamed snapshot
(`Orphans`) is one that neither a mapping names nor a request will map or
forget. `LeakInv` adds that a time of a group has one snapshot, that what a
request is about to overwrite or unmap is still the mapping, and that a mapping
is deleted only once its snapshot is gone. Then every step but a crash leaves
the set of orphans as it was or adds the one snapshot the moving request had in
hand, and counts a fault as it does; a crash adds at most what each request had
in hand. The sets are finite, so cardinalities add up. For the notes the set is
`Unnoted`: the keys mapped to a backup without their note, with those that will
be, since a note is written, and fails to be, before the mapping. Only a failed
`UpdateNotes` makes it grow, by its own key.

The refinement maps a key to the content of its mapping. An upload or deletion
takes effect when the mapping changes, a download when it reads the mapping. A
deletion whose `Forget` succeeded and whose bbolt write failed is, to a client,
a failed request with no effect on the mapping; a download of that key then
answers an error, as `S3Objects` allows.

**Multipart uploads.** No two of the properties hold under the same
circumstances: a sweep splits an upload, a failed bbolt write takes a retry
away. So the invariant has layers, each with the condition it holds under, and
each is shown to be kept using the ones below it.

* `BaseInv`, always: types; what a request asks fits where it is; each request
  holds the lock of its key (`LockInv`); an upload keeps the key it was created
  for, and whoever works on one found it created (`HomeInv`); two requests never
  create one upload (`CreateInv`); files lie in directories; and what
  reconciliation has on its list has no record (`GcInv`): it lists the directory
  first and the records after, so a directory it saw belongs to an upload that
  was created before, and a record that is missing then never comes; and what `undone`
  says needs the fault that did it (`UndoneInv`). `ReconciliationIsSafe` follows
  from this part alone.
* `ClearedInv`, while clients name uploads with their own keys: a request comes
  to a record only when the directory has gone or could not be removed.
* `PresentInv`, while clients name uploads with their own keys and neither a
  sweep nor a crash has come: an acknowledged part has its file and its record
  (`PartInv`), the clean-up loops have exactly the uploads still to do, each
  once, and what is no longer on their lists is gone but for what is `undone`
  (`VictimInv`), and records, part records and directories are there together
  but for the one a request is removing or could not remove (`AgreeInv`). One lemma does
  most of it: requests on one upload are requests of one key, and exclude each
  other.
* `RetryInv`, while, beyond that, only copies and backups have failed:
  `final.img` is there from its rename to its unlink, and an upload without it
  has every recorded part on disk or is being completed.
* `ClaimInv`, with sweeps, while only bodies and copies have failed: a part's
  file is what its record says unless it is being written (`FilesInv`), and the
  content assembled so far and the parts to append make up the claim.
* `OnceInv`, if any two lists that may be claimed share a part: after its commit
  an upload lacks a part of every claim, or its record, or is being cleaned up,
  unless faults of one of the pairs in `Meeting` have both come. Before the first
  failed backup, failed removal or crash that comes from more: parts are used up
  before the commit, and a `final.img` has a request at work on it.

**The PBS client.** `WithinBudget` needs to know where the deadline lies:
`deadline <= Timeout * (bumps + 1)`, and `elapsed <= deadline` while the call
is running.

`AnswersAreTrue` and `ExhaustionIsEarned` come from a second invariant, `Truth`:
while the call runs, `stored = before` unless a reply was lost, a `Backup` has
taken nothing away and `time = asked + bumps`; and in a backoff the words waited
on are true of the group, or `misled` is set. One lemma says what `Conclude`
makes of an error whose words satisfy that, and each way for a run to fail is
shown to produce such an error. `AnswersAreTrue` alone says nothing of a call
that has not ended.

**Downloads.** The invariant carries what a handler decided to the end: while it
is at work, `range` is what `ParseRange` made of the header and the size read
first, `source` is an object, what has been sent is `source` from the first byte
on, and a process is there only where something waits for it. `RangesAreRight`
is arithmetic by cases of the header. That the bytes sent *are* those asked for
is put as the equality of two sets and an order, so that it needs no filter over
a sequence. `None` is no range and no process: `NoneAssumption`.

**Bodies.** `ReaderInv` ties the chain to the data: `prev` is the sequence
of everything handed on. A frame that fits carries a signature of the client's,
which names its whole past, so its data is the next of the signed body. That
signatures are not forged is the type of `Frame`: a frame on the wire has a
signature the client made. In front of a handler the same invariant holds while
a body is being read; around it, a request that waits has no body yet, and an
answer of 200 was given only when the reader was done or the body was plain and
whole. The exception of `AllOrNothingButTrailers` is the finding of
`request_trailer`; in the instance of `request`, which has no trailers, it is
`AllOrNothing`.

**Signatures.** `SignInv` says that what a client sent, if it is signed at all,
carries a signature with its own key (`SignedWith`), that no proxy changes it,
and that a request with a handler has passed `Verify`. `FirstFailing` takes the
least failing check of a list, so a list without one has none that fails
(`FirstHolds`); the checks of `VerifyHeader` and `VerifyPresigned` are then read
off one by one. Equal signatures have equal keys, dates and canonical requests:
`Signature` is a record, which is how an HMAC without collisions is modelled. The
bound on the time needs that the expiry in nanoseconds, wrapped to 64 bits, is
never longer than the one meant (`DurationBounded`).

For `NoFalseService` and `NoFalseRefusal` the canonical request has to be known,
not only compared. The lemmas go from the sort outwards:

* Ranking is a bijection: each place has one name and each name one place
  (`Ranked`, `SortedNames`), by the cardinality of the sets of names before a
  name. So reversed parameters sort to the same query (`QueryReversed`), and a
  query with one parameter fewer is shorter (`QueryShortened`).
* A header that has one line has that line's word for a value, whatever blanks
  are around it and whatever is before or behind it (`OneLine`, `CollapseWord`),
  and one with no line has none (`NoLine`).
* Hence what a proxy may do leaves the signature to be computed as it was
  (`HeaderArrives`, `PresignedArrives`, through `SameSignature`), and a request
  that passes `Verify` is none of `Mangled` (`HeaderIntact`, `PresignedIntact`):
  all but the headers shows in the canonical request (`MangledShows`), and the
  headers a client of the model sends are all signed.
* The switch looks at the method, the path and the set of parameters only
  (`SameDispatch`), so a request that arrives intact goes where the operation
  does as its client makes it (`DispatchAsPlain`). That this is the handler meant
  is a fact about the operations, `Routed`, and the theorems' hypothesis.
  `MCRequestsSubresource.cfg` has one for which it is false.

The invariant `CourseInv` beside `SignInv` says that a sent request is one of the
three a client makes of its operation (`MeantInv`), that what arrives is it, or
it forwarded, or it mangled with `intact` false (`WayInv`), and that a handler is
the one the switch picked (`SwitchInv`). That a good presigned request is not
refused needs `DurationKept`: below `MaxDuration` nothing wraps.

**Listings.** `Sound`, the inductive invariant, is `TypeOK`, the three properties
`NothingIsSkipped`, `NothingIsInvented`, `AscendingOnce`, and `Passed`: what a
client has listed is not behind `after`, where its next page starts, and what is
in `always` is there now. The work is
in what one page is.

* Loops and orders need induction, over numbers only: a set of naturals has a
  least member (`LeastOf`), so a fact that fails somewhere fails for a first time
  (`UpTo`). With it, `Filter` has taken just the rows that pass (`FilterLoop`,
  `Filtered`), and bytes are in a total order in which what a string begins with
  comes first (`Transitive`, `Total`, `LessBehind`).
* Rows in order are keys in order, and the rows of one bucket are apart from
  those of another, one's name beginning the other's or not: no name has the
  NUL that ends it (`RowOrder`, `BucketsApart`). So `Scan` returns the first of
  the wanted keys behind where it starts, and says whether there are more
  (`Scanned`).
* A page is what its objects and common prefixes make of these, up to the entry
  it breaks off at (`PageEnds`, `PageFacts`). The next page starts at its
  greatest entry (`Greatest`, `Resumes`), and all that is not behind that has been
  listed by now, if it was there.
* A page then keeps each conjunct of `Sound` (`PageKeeps`), and a put or deletion
  in between can only take from `always` and add to `ever` (`ChangeKeeps`).

**The server.** A process past `Open` and before `Close` has the lock, and an
upload past the backup has its snapshot and past the mapping its mapping; the
only steps that touch both a process and its uploads are those that end it. For
the shutdown: an upload in flight belongs to a process that serves or drains, or
to one whose grace period was too short for it (`late`), and a file, a child or
a snapshot is left only at the places of an upload that can leave it (`Traces`).

**The identifiers.** `SanitizeBackupID` is expanded by cases: a readable ID is
the name without its extension, a hashed one ends in the hash. `HashAssumption`
takes eight hexadecimal digits to tell the names in use apart.

### 4.1 What is only model-checked

* Liveness (`EveryCallReturns`, `EveryRequestAnswered`, `StaleIsReclaimed`,
  `EveryCallEnds`, `HeadersInTime`, `SignalledProcessEnds`): `ENABLED` and
  fairness are beyond the prover.

Every other property of the runs that pass is a theorem; `OneCommit`,
`NeverSplit` and the rest of `Multipart`, those of `Objects` that need
`FreshStamps`, and `NoFalseService` and `NoFalseRefusal`, under the hypotheses
above, which their runs satisfy.

## 5. Not modelled, and the plan

| Part | Why not |
|---|---|
| Configuration, logging, request IDs | read once or written out; no state a property could be about |
| `ListParts`, XML bodies | one read of the records; conversions between structures and text |
| Schema version | written by `Open`, read by nothing |
| The `-healthcheck` mode of `main` | a client of its own with one request |
| The texts of `errors.go`, command lines, the parsing of headers and dates | strings; their outcomes are nondeterministic choices (error classes) or taken as read back rightly (headers) |
| The request limit of `CompleteMultipartUpload`, 10 MiB | a body longer than that is a body that does not parse |
| `stub-proxmox-backup-client` | the tests' PBS; the models have the one the code expects |

Things met while reading that no run is about:

* `x-amz-content-sha256` of a plain body is part of the signature but is never
  compared with the body, and a presigned upload's body is not signed at all:
  `AcknowledgedAsSent` takes plain bodies to arrive as they were sent, or to
  break off.
* The comment on `checkExpiry` (`clock.go:33`) says that windows unreasonably far
  in the future are refused; there is no such limit, and an expiry beyond 2^63
  nanoseconds wraps. `NoFalseRefusal` excepts it.
* `docs/ARCHITECTURE.md:39` says that the dots of a bucket become dashes; the
  code and its comment make them levels of a namespace.
* Nothing cleans up `put-*.tmp` and `get-*.tmp` files (`LeftoversHaveReason` says
  when they stay): reconciliation looks at `multipart/` alone.
* A container runtime that kills after ten seconds cuts the thirty seconds of
  grace short: for the model it is a `Crash`.

What would come next: an abstract upload that is open, committed or gone, which
`Multipart` implements.

`commits` counts from the last part that came: that a client resends parts and
completes again is its own wish.

## 6. Running it

    tlc -workers 2 -config MCObjects.cfg MCObjects
    tlapm ObjectsProofs.tla

The longest runs (`objects`, `multipart`) take a minute or three, the longest
proofs (`MultipartProofs`, `ObjectsProofs`, `RequestsProofs`) a few.
