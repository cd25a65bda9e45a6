------------------------------- MODULE Download -------------------------------
(***************************************************************************)
(* One download: handleGetObject of internal/s3api/get_object.go, GetObject *)
(* of internal/backend and RestoreStream of internal/pbs/client.go, while  *)
(* uploads and deletions of the same key go on.                            *)
(*                                                                         *)
(* Nothing locks a download.  It reads the mapping twice, for the headers  *)
(* and for the body, starts proxmox-backup-client, waits for its first     *)
(* bytes within Client.Timeout, starting it again after a transient        *)
(* failure, and from then on copies what comes.  A ranged download         *)
(* restores to a scratch file and slices that.                             *)
(***************************************************************************)
EXTENDS Integers, Sequences

CONSTANTS Bodies,               \* the contents uploads give the key
          Size,                 \* their length in bytes
          None,
          RangeHeaders,         \* Range headers clients send; None is no header
          MaxTransientRetries,
          MaxFaults             \* bound: how many failed runs

ASSUME SizeAssumption == Size \in [Bodies -> Nat]
(* A RangeSpec. *)
Ranges == [start : Nat, end : Int]

Processes == {"running", "exited", "killed"}

ASSUME NoneAssumption == None \notin Bodies \cup Ranges \cup Processes
ASSUME HeaderAssumption == RangeHeaders \subseteq [kind : {"bad"}]
                                            \cup [kind : {"suffix"}, n : Int]
                                            \cup [kind : {"from"}, start : Nat]
                                            \cup [kind : {"span"}, start : Nat, end : Int]
ASSUME BoundAssumption == MaxTransientRetries \in Nat \ {0} /\ MaxFaults \in Nat

VARIABLES mapping,    \* bbolt's mapping of the key: the content it names, or None
          snaps,      \* the contents PBS has a snapshot of
          pc,
          header,     \* the Range header
          info,       \* the mapping HeadObject read: Content-Length, ETag
          range,      \* rangeSpec
          source,     \* the mapping GetObject read
          attempt,
          expired,    \* startCtx is done
          cancelled,  \* the client has disconnected: ctx is done
          proc,       \* the restore process: None, "running", "exited" or "killed"
          sent,       \* the body written to the response
          scratch,    \* get-*.tmp: its content, "torn" or None
          status,     \* the response status
          faults

object == <<mapping, snaps>>
request == <<header, info, range, source>>
vars == <<object, request, pc, attempt, expired, cancelled, proc, sent, scratch, status, faults>>

Reset == /\ header' = None /\ info' = None /\ range' = None /\ source' = None
         /\ attempt' = 0 /\ expired' = FALSE /\ cancelled' = FALSE
         /\ sent' = <<>> /\ scratch' = None /\ status' = None

Init == /\ mapping \in Bodies \cup {None}
        /\ snaps = {mapping} \ {None}
        /\ pc = "idle"
        /\ header = None /\ info = None /\ range = None /\ source = None
        /\ attempt = 0 /\ expired = FALSE /\ cancelled = FALSE
        /\ proc = None /\ sent = <<>> /\ scratch = None /\ status = None
        /\ faults = 0

------------------------------------------------------------------------------
(***************************************************************************)
(* parseRange: [start, end], or None for a header that is not accepted.    *)
(* The conversion of the numbers is abstracted: "bad" is every header that *)
(* is not one range of two numbers.                                        *)
(***************************************************************************)
AtMost(n, m) == IF n > m THEN m ELSE n

(* Mutant: an end beyond the object is kept. *)
EndAsSent(h, size) == IF h.kind = "from" THEN size - 1 ELSE h.end
LastByte(h, size) == IF h.kind = "from" THEN size - 1 ELSE AtMost(h.end, size - 1)

ParseRange(h, size) ==
  CASE h.kind = "bad" -> None
    [] h.kind = "suffix" ->
         IF h.n <= 0 THEN None
                     ELSE [start |-> size - AtMost(h.n, size), end |-> size - 1]
    [] h.kind \in {"from", "span"} ->
         IF h.start > LastByte(h, size) \/ size = 0
         THEN None
         ELSE [start |-> h.start, end |-> LastByte(h, size)]

------------------------------------------------------------------------------
(***************************************************************************)
(* What uploads and deletions of the key do (module Objects): a new        *)
(* snapshot is mapped and then the old one forgotten; a deletion forgets   *)
(* first.                                                                  *)
(***************************************************************************)
Upload == \E b \in Bodies \ snaps : mapping' = b /\ snaps' = snaps \cup {b}

ForgetOld == \E b \in snaps \ {mapping} : snaps' = snaps \ {b} /\ UNCHANGED mapping

Delete == \/ snaps' = snaps \ {mapping} /\ mapping \in snaps /\ UNCHANGED mapping
          \/ mapping # None /\ mapping \notin snaps /\ mapping' = None /\ UNCHANGED snaps

Writers == /\ Upload \/ ForgetOld \/ Delete
           /\ UNCHANGED <<request, pc, attempt, expired, cancelled, proc, sent, scratch, status,
                          faults>>

------------------------------------------------------------------------------
Goto(there) == pc' = there /\ UNCHANGED status

Answer(s) == pc' = "done" /\ status' = s

Fault == faults < MaxFaults /\ faults' = faults + 1

Arrive == /\ pc = "idle"
          /\ header' \in RangeHeaders \cup {None}
          /\ Goto("head")
          /\ UNCHANGED <<object, info, range, source, attempt, expired, cancelled, proc, sent,
                         scratch, faults>>

HeadObject ==
  /\ pc = "head"
  /\ info' = mapping
  /\ \/ mapping = None /\ Answer("NoSuchKey") /\ UNCHANGED range
     \/ mapping # None /\ header = None /\ Goto("mapping") /\ UNCHANGED range
     \/ /\ mapping # None /\ header # None
        /\ range' = ParseRange(header, Size[mapping])
        /\ IF range' = None THEN Answer("InvalidArgument") ELSE Goto("mapping")
  /\ UNCHANGED <<object, header, source, attempt, expired, cancelled, proc, sent, scratch,
                 faults>>

(* GetObject reads the mapping again and starts the first run. *)
GetObject ==
  /\ pc = "mapping"
  /\ source' = mapping
  /\ \/ mapping = None /\ Answer("NoSuchKey") /\ UNCHANGED <<attempt, proc>>
     \/ /\ mapping # None
        /\ attempt' = 1
        /\ proc' = "running"
        /\ Goto(IF range = None THEN "peek" ELSE "restore")
  /\ UNCHANGED <<object, header, info, range, expired, cancelled, sent, scratch, faults>>

------------------------------------------------------------------------------
(***************************************************************************)
(* RestoreStream                                                           *)
(***************************************************************************)
Byte(b, i) == <<b, i>>
Slice(b, from, to) == [i \in 1..(to - from + 1) |-> Byte(b, from + i - 1)]

(* Mutants: the wait for the first bytes is bound to ctx alone, the process to startCtx. *)
CtxDone == cancelled
StartCtxDone == expired \/ cancelled

BoundToBudget == StartCtxDone
Doomed == cancelled

(* exec.CommandContext kills the process when its context is done. *)
KillProc ==
  /\ pc \in {"peek", "copy", "restore"} /\ proc = "running"
  /\ IF pc = "restore" THEN StartCtxDone ELSE Doomed
  /\ proc' = "killed"
  /\ UNCHANGED <<object, request, pc, attempt, expired, cancelled, sent, scratch, status, faults>>

(* The first chunk, or the end of an empty archive: the stream is handed back, the *)
(* headers are written, and the deferred cancel ends startCtx.                     *)
HandBack ==
  /\ pc = "peek" /\ proc = "running" /\ source \in snaps
  /\ IF Size[source] = 0
     THEN proc' = "exited" /\ UNCHANGED sent
     ELSE (\E n \in 1..Size[source] : sent' = sent \o Slice(source, 0, n - 1)) /\ UNCHANGED proc
  /\ expired' = TRUE
  /\ status' = "OK"
  /\ pc' = "copy"
  /\ UNCHANGED <<object, request, attempt, cancelled, scratch, faults>>

MoreAttempts == attempt < MaxTransientRetries

(* The process ends without output.  A transient failure is retried; a missing *)
(* snapshot, another failure or a killed process is not.                       *)
PeekFails ==
  /\ pc = "peek"
  /\ \/ /\ proc = "running" /\ Fault
        /\ IF MoreAttempts THEN Goto("backoff") ELSE Answer("InternalError")
     \/ proc = "running" /\ Fault /\ Answer("InternalError")
     \/ proc = "running" /\ source \notin snaps /\ Answer("InternalError") /\ UNCHANGED faults
     \/ proc = "killed" /\ Answer("InternalError") /\ UNCHANGED faults
  /\ proc' = None
  /\ UNCHANGED <<object, request, attempt, expired, cancelled, sent, scratch>>

(* startCtx is done first: the process is killed, and the error is no PBSError. *)
PeekExpires ==
  /\ pc = "peek" /\ StartCtxDone
  /\ proc' = None
  /\ Answer("InternalError")
  /\ UNCHANGED <<object, request, attempt, expired, cancelled, sent, scratch, faults>>

Backoff ==
  /\ pc = "backoff"
  /\ \/ /\ attempt' = attempt + 1
        /\ proc' = "running"
        /\ Goto("peek")
     \/ StartCtxDone /\ Answer("InternalError") /\ UNCHANGED <<attempt, proc>>
  /\ UNCHANGED <<object, request, expired, cancelled, sent, scratch, faults>>

------------------------------------------------------------------------------
(***************************************************************************)
(* Restore to a scratch file, in runWithRetry, for a ranged download       *)
(***************************************************************************)
(* A run that fails may leave part of the file, and nobody removes it. *)
RestoreFails ==
  /\ pc = "restore"
  /\ scratch' \in {scratch, "torn"}
  /\ \/ /\ proc = "running" /\ Fault /\ MoreAttempts /\ ~ StartCtxDone
        /\ attempt' = attempt + 1
        /\ UNCHANGED <<pc, status, proc>>
     \/ /\ \/ proc = "running" /\ Fault
           \/ proc = "running" /\ source \notin snaps /\ UNCHANGED faults
           \/ proc = "killed" /\ UNCHANGED faults
        /\ proc' = None
        /\ Answer("InternalError")
        /\ UNCHANGED attempt
  /\ UNCHANGED <<object, request, expired, cancelled, sent>>

RestoreDone ==
  /\ pc = "restore" /\ proc = "running" /\ source \in snaps
  /\ proc' = None
  /\ scratch' = source
  /\ status' = "PartialContent"
  /\ pc' = "copy"
  /\ UNCHANGED <<object, request, attempt, expired, cancelled, sent, faults>>

------------------------------------------------------------------------------
(***************************************************************************)
(* io.Copy of the body into the response, then the deferred Close          *)
(***************************************************************************)
(* Mutant: the file is read from its start. *)
WithoutSeek == IF range = None
               THEN Slice(source, 0, Size[source] - 1)
               ELSE Slice(source, 0, AtMost(range.end - range.start, Size[source] - 1))

(* What the reader GetObject returned yields: the archive, or start..end of it. *)
Body == IF range = None
        THEN Slice(source, 0, Size[source] - 1)
        ELSE Slice(source, range.start, AtMost(range.end, Size[source] - 1))

Copy ==
  /\ pc = "copy"
  /\ range # None \/ proc = "running"
  /\ Len(sent) < Len(Body)
  /\ sent' = Append(sent, Body[Len(sent) + 1])
  /\ UNCHANGED <<object, request, pc, attempt, expired, cancelled, proc, scratch, status, faults>>

(* The process ends: all is written, or it fails in the middle. *)
Exit ==
  /\ pc = "copy" /\ proc = "running"
  /\ \/ Len(sent) = Len(Body) /\ UNCHANGED faults
     \/ Fault
     \/ source \notin snaps /\ UNCHANGED faults
  /\ proc' = "exited"
  /\ UNCHANGED <<object, request, pc, attempt, expired, cancelled, sent, scratch, status>>

(* Mutant: the file is only closed. *)
KeepScratch == UNCHANGED scratch
RemoveScratch == scratch' = None

(* Mutant: the process is not waited for. *)
Forsake == UNCHANGED proc
Wait == proc # "running" /\ proc' = None

Close ==
  /\ pc = "copy"
  /\ \/ range # None /\ (Len(sent) = Len(Body) \/ cancelled)
     \/ range = None /\ proc # "running"
  /\ Wait
  /\ RemoveScratch
  /\ Goto("done")
  /\ UNCHANGED <<object, request, attempt, expired, cancelled, sent, faults>>

Expire == /\ pc \in {"peek", "backoff", "restore"} /\ ~ expired
          /\ expired' = TRUE
          /\ UNCHANGED <<object, request, pc, attempt, cancelled, proc, sent, scratch, status,
                         faults>>

Disconnect == /\ pc \notin {"idle", "done"} /\ ~ cancelled
              /\ cancelled' = TRUE
              /\ UNCHANGED <<object, request, pc, attempt, expired, proc, sent, scratch, status,
                             faults>>

Return == /\ pc = "done"
          /\ pc' = "idle"
          /\ Reset
          /\ UNCHANGED <<object, proc, faults>>

Next == \/ Writers
        \/ Arrive \/ HeadObject \/ GetObject
        \/ HandBack \/ PeekFails \/ PeekExpires \/ Backoff
        \/ RestoreFails \/ RestoreDone
        \/ Copy \/ Exit \/ Close
        \/ KillProc \/ Expire \/ Disconnect
        \/ Return

Spec == Init /\ [][Next]_vars

(* Client.Timeout elapses, contexts kill and the handler runs on; no process need ever write. *)
Fairness == /\ WF_vars(Expire) /\ WF_vars(KillProc)
            /\ WF_vars(HeadObject) /\ WF_vars(GetObject)
            /\ WF_vars(PeekExpires) /\ WF_vars(Backoff)
            /\ WF_vars(proc = "killed" /\ (PeekFails \/ RestoreFails))

FairSpec == Spec /\ Fairness

------------------------------------------------------------------------------
(***************************************************************************)
(* Properties                                                              *)
(***************************************************************************)
Pcs == {"idle", "head", "mapping", "peek", "backoff", "restore", "copy", "done"}
Ok == {"OK", "PartialContent"}
Errors == {"NoSuchKey", "InvalidArgument", "InternalError"}

TypeOK == /\ mapping \in Bodies \cup {None}
          /\ snaps \subseteq Bodies
          /\ pc \in Pcs
          /\ header \in RangeHeaders \cup {None}
          /\ info \in Bodies \cup {None}
          /\ range \in Ranges \cup {None}
          /\ source \in Bodies \cup {None}
          /\ attempt \in 0..MaxTransientRetries
          /\ expired \in BOOLEAN /\ cancelled \in BOOLEAN
          /\ proc \in Processes \cup {None}
          /\ sent \in Seq(Bodies \X Nat)
          /\ scratch \in Bodies \cup {None, "torn"}
          /\ status \in Ok \cup Errors \cup {None}
          /\ faults \in 0..MaxFaults

(* What a Range header asks for, said with sets: the positions it names. *)
Wanted(h, size) ==
  {i \in 0..(size - 1) : CASE h.kind = "bad" -> FALSE
                           [] h.kind = "suffix" -> i >= size - h.n
                           [] h.kind = "from" -> i >= h.start
                           [] h.kind = "span" -> h.start <= i /\ i <= h.end}

(* get_object.go:73: a header is refused only if it names no byte of the   *)
(* object, and the range it is turned into is the bytes it names.          *)
RangeIsWhatWasAsked ==
  \A b \in Bodies : header # None =>
    LET r == ParseRange(header, Size[b])
    IN  IF r = None THEN Wanted(header, Size[b]) = {}
                    ELSE r.start..r.end = Wanted(header, Size[b])

(* s3api/backend.go:28: a RangeSpec is an inclusive range of bytes. *)
RangeIsInclusive == range # None => range.start <= range.end

ContentLength == IF range = None THEN Size[info] ELSE range.end - range.start + 1

(* The client takes the response for complete and reads Content-Length bytes of it. *)
Complete == pc = "done" /\ status \in Ok /\ ~ cancelled /\ Len(sent) >= ContentLength

(* The positions the client asked for. *)
Asked == IF header = None THEN 0..(Size[info] - 1) ELSE Wanted(header, Size[info])

(* A complete response carries the bytes that were asked for, of the       *)
(* object its ETag names, none missing and none twice, whatever failed and *)
(* was retried before its first byte and whatever was forgotten meanwhile: *)
(* unless the key was overwritten between the two reads of its mapping.    *)
CompleteIsCoherent ==
  Complete /\ info = source =>
    /\ {sent[i] : i \in 1..ContentLength} = {Byte(info, i) : i \in Asked}
    /\ \A i, j \in 1..ContentLength : i < j => sent[i][2] < sent[j][2]

(* s3api/backend.go:57: slicing to exactly [Start, End] is the backend's *)
(* responsibility.                                                       *)
SlicesExactly == pc = "copy" /\ range # None => Len(Body) = ContentLength

(* client.go:246: once started, a stream is tied to the request's context  *)
(* only, not to the retry budget.                                          *)
StreamSurvivesBudget == pc = "copy" /\ proc = "killed" => cancelled

(* No restore process outlives its download, whichever way that ended. *)
NoProcessLeft == pc \in {"idle", "done", "backoff"} => proc = None

(* ARCHITECTURE.md, "GetObject": the scratch file is cleaned up on Close.   *)
(* One outlives its download only if the restore to it failed.             *)
ScratchIsRemoved == pc = "done" /\ scratch # None => status = "InternalError"

(* The response starts within Client.Timeout even if the restore process   *)
(* never writes a byte and never ends.                                     *)
HeadersInTime == pc \in {"peek", "backoff", "restore"} ~> pc \in {"copy", "done"}
==============================================================================
