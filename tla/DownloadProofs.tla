---------------------------- MODULE DownloadProofs ----------------------------
(***************************************************************************)
(* What a client takes for a complete download is what it asked for, and   *)
(* nothing of a download is left when it is over, for any contents, any    *)
(* Range header and any number of retries, whatever uploads and deletions  *)
(* do meanwhile.                                                           *)
(***************************************************************************)
EXTENDS Download, TLAPS

Waiting == {"peek", "backoff", "restore"}
Started == {"copy"} \cup Waiting

(* The bytes that follow are first, first + 1, ... *)
First == IF range = None THEN 0 ELSE range.start

(* The header was answered from the size of the object as it was first. *)
HeadInv ==
  pc \in {"mapping"} \cup Started \/ (pc = "done" /\ status \in Ok) =>
    /\ info \in Bodies
    /\ range = IF header = None THEN None ELSE ParseRange(header, Size[info])
    /\ header # None => range # None

(* Which object is streamed, and whether it is sliced. *)
SourceInv ==
  /\ pc \in Started \/ (pc = "done" /\ status \in Ok) => source \in Bodies
  /\ pc \in {"idle", "head", "peek", "backoff"} => range = None
  /\ pc = "restore" => range # None

(* What was sent is a beginning of the body. *)
SentInv ==
  /\ pc \in {"idle", "head", "mapping"} \cup Waiting => sent = <<>>
  /\ pc = "copy" \/ (pc = "done" /\ status \in Ok) =>
       \A i \in 1..Len(sent) : sent[i] = Byte(source, First + i - 1)

ProcInv ==
  /\ pc \in {"idle", "head", "mapping", "backoff", "done"} => proc = None
  /\ StreamSurvivesBudget

ScratchInv ==
  /\ pc \in {"idle", "head", "mapping", "peek", "backoff"} => scratch = None
  /\ pc = "copy" => status \in Ok
  /\ pc \in {"idle", "head", "mapping"} \cup Waiting => status = None
  /\ ScratchIsRemoved

(* It waits only when it may try again. *)
AttemptInv == pc = "backoff" => attempt < MaxTransientRetries

IInv == TypeOK /\ AttemptInv /\ HeadInv /\ SourceInv /\ SentInv /\ ProcInv /\ ScratchInv

------------------------------------------------------------------------------
(* A range is a RangeSpec. *)
LEMMA RangeType ==
  ASSUME NEW h \in RangeHeaders, NEW size \in Nat
  PROVE  ParseRange(h, size) \in Ranges \cup {None}
  <1>1. CASE h \in [kind : {"bad"}]
    BY <1>1 DEF ParseRange
  <1>2. CASE h \in [kind : {"suffix"}, n : Int]
    BY <1>2 DEF ParseRange, AtMost, Ranges
  <1>3. CASE h \in [kind : {"from"}, start : Nat]
    BY <1>3 DEF ParseRange, LastByte, Ranges
  <1>4. CASE h \in [kind : {"span"}, start : Nat, end : Int]
    BY <1>4 DEF ParseRange, LastByte, AtMost, Ranges
  <1> QED BY <1>1, <1>2, <1>3, <1>4, HeaderAssumption

(* parseRange finds the bytes a header names, if there are any, and ends  *)
(* within the object.                                                      *)
LEMMA RangeIsWanted ==
  ASSUME NEW h \in RangeHeaders, NEW size \in Nat
  PROVE  IF ParseRange(h, size) = None
         THEN Wanted(h, size) = {}
         ELSE /\ ParseRange(h, size).start..ParseRange(h, size).end = Wanted(h, size)
              /\ ParseRange(h, size).end <= size - 1
  <1> USE NoneAssumption DEF AtMost, Ranges
  <1> DEFINE Is(r) == /\ ParseRange(h, size) = r
                      /\ r \in Ranges /\ r.end <= size - 1
                      /\ r.start..r.end = Wanted(h, size)
  <1>1. CASE h \in [kind : {"bad"}]
    BY <1>1 DEF ParseRange, Wanted
  <1>2. CASE h \in [kind : {"suffix"}, n : Int]
    <2>0. Wanted(h, size) = {i \in 0..(size - 1) : i >= size - h.n}
      BY <1>2 DEF Wanted
    <2>1. CASE h.n <= 0
      <3>1. ParseRange(h, size) = None
        BY <1>2, <2>1 DEF ParseRange
      <3> QED BY <1>2, <2>0, <2>1, <3>1
    <2>2. CASE h.n > 0
      <3>1. ParseRange(h, size) = [start |-> size - AtMost(h.n, size), end |-> size - 1]
        BY <1>2, <2>2 DEF ParseRange
      <3>2. \A i \in Int : i \in (size - AtMost(h.n, size))..(size - 1)
                             <=> i \in 0..(size - 1) /\ i >= size - h.n
        BY <1>2, <2>2
      <3>3. (size - AtMost(h.n, size))..(size - 1) = Wanted(h, size)
        BY <1>2, <2>0, <3>2
      <3>4. Is([start |-> size - AtMost(h.n, size), end |-> size - 1])
        BY <1>2, <2>2, <3>1, <3>3
      <3> QED BY <3>4
    <2> QED BY <1>2, <2>1, <2>2
  <1>3. CASE h \in [kind : {"from"}, start : Nat]
    <2>0. /\ Wanted(h, size) = {i \in 0..(size - 1) : i >= h.start}
          /\ LastByte(h, size) = size - 1
      BY <1>3 DEF Wanted, LastByte
    <2>1. CASE h.start > size - 1
      <3>1. ParseRange(h, size) = None
        BY <1>3, <2>0, <2>1 DEF ParseRange
      <3> QED BY <1>3, <2>0, <2>1, <3>1
    <2>2. CASE h.start <= size - 1
      <3>1. ParseRange(h, size) = [start |-> h.start, end |-> size - 1]
        BY <1>3, <2>0, <2>2 DEF ParseRange
      <3>2. h.start..(size - 1) = Wanted(h, size)
        BY <1>3, <2>0, <2>2
      <3>3. Is([start |-> h.start, end |-> size - 1])
        BY <1>3, <3>1, <3>2
      <3> QED BY <3>3
    <2> QED BY <1>3, <2>1, <2>2
  <1>4. CASE h \in [kind : {"span"}, start : Nat, end : Int]
    <2>0. /\ Wanted(h, size) = {i \in 0..(size - 1) : h.start <= i /\ i <= h.end}
          /\ LastByte(h, size) = AtMost(h.end, size - 1) /\ LastByte(h, size) \in Int
      BY <1>4 DEF Wanted, LastByte
    <2>1. CASE h.start > LastByte(h, size) \/ size = 0
      <3>1. ParseRange(h, size) = None
        BY <1>4, <2>1 DEF ParseRange
      <3> QED BY <1>4, <2>0, <2>1, <3>1
    <2>2. CASE ~ (h.start > LastByte(h, size) \/ size = 0)
      <3>1. ParseRange(h, size) = [start |-> h.start, end |-> LastByte(h, size)]
        BY <1>4, <2>2 DEF ParseRange
      <3>2. h.start..LastByte(h, size) = Wanted(h, size)
        BY <1>4, <2>0, <2>2
      <3>3. Is([start |-> h.start, end |-> LastByte(h, size)])
        BY <1>4, <2>0, <3>1, <3>2
      <3> QED BY <3>3
    <2> QED BY <2>1, <2>2
  <1> QED BY <1>1, <1>2, <1>3, <1>4, HeaderAssumption

(* A slice is a sequence of bytes of its object. *)
LEMMA SliceBytes ==
  ASSUME NEW b \in Bodies, NEW from \in Nat, NEW to \in Int
  PROVE  /\ Slice(b, from, to) \in Seq(Bodies \X Nat)
         /\ Len(Slice(b, from, to)) = IF from <= to THEN to - from + 1 ELSE 0
         /\ \A i \in 1..Len(Slice(b, from, to)) :
              Slice(b, from, to)[i] = Byte(b, from + i - 1)
  <1> DEFINE n == IF from <= to THEN to - from + 1 ELSE 0
             s == [i \in 1..n |-> Byte(b, from + i - 1)]
  <1>1. n \in Nat /\ 1..(to - from + 1) = 1..n
    OBVIOUS
  <1>2. Slice(b, from, to) = s
    BY <1>1 DEF Slice
  <1>3. \A i \in 1..n : Byte(b, from + i - 1) \in Bodies \X Nat
    BY <1>1 DEF Byte
  <1> HIDE DEF n
  <1>4. s \in Seq(Bodies \X Nat) /\ Len(s) = n
    BY <1>1, <1>3
  <1> QED BY <1>1, <1>2, <1>4 DEF n

(* ... and the body is one, from the first byte asked for. *)
LEMMA BodyBytes ==
  ASSUME TypeOK, source \in Bodies
  PROVE  /\ Body \in Seq(Bodies \X Nat)
         /\ \A i \in 1..Len(Body) : Body[i] = Byte(source, First + i - 1)
  <1>1. Size[source] \in Nat
    BY SizeAssumption
  <1>2. CASE range = None
    <2>1. Body = Slice(source, 0, Size[source] - 1) /\ First = 0
      BY <1>2 DEF Body, First
    <2> QED BY <1>1, <2>1, SliceBytes
  <1>3. CASE range # None
    <2>1. /\ range.start \in Nat /\ AtMost(range.end, Size[source] - 1) \in Int
          /\ First = range.start
          /\ Body = Slice(source, range.start, AtMost(range.end, Size[source] - 1))
      BY <1>1, <1>3 DEF Body, First, TypeOK, Ranges, AtMost
    <2> QED BY <2>1, SliceBytes
  <1> QED BY <1>2, <1>3

------------------------------------------------------------------------------
(* Nothing is asked yet. *)
LEMMA InitInv == Init => IInv
  <1> SUFFICES ASSUME Init PROVE IInv
    OBVIOUS
  <1> USE BoundAssumption DEF Init
  <1>1. TypeOK
    <2>1. <<>> \in Seq(Bodies \X Nat)
      OBVIOUS
    <2>2. sent \in Seq(Bodies \X Nat)
      BY <2>1
    <2>3. expired \in BOOLEAN /\ cancelled \in BOOLEAN
      OBVIOUS
    <2>5. attempt \in 0..MaxTransientRetries /\ faults \in 0..MaxFaults
      OBVIOUS
    <2> HIDE DEF Init
    <2>4. mapping \in Bodies \cup {None} /\ snaps \subseteq Bodies
      BY DEF Init
    <2> QED BY <2>2, <2>3, <2>4, <2>5 DEF TypeOK, Pcs, Init
  <1> QED BY <1>1 DEF IInv, AttemptInv, HeadInv, SourceInv, SentInv, ProcInv, ScratchInv, Started, Waiting,
             StreamSurvivesBudget, ScratchIsRemoved

(* Type correctness. *)
LEMMA TypeStep == IInv /\ [Next]_vars => TypeOK'
  <1> SUFFICES ASSUME IInv, [Next]_vars PROVE TypeOK'
    OBVIOUS
  <1> USE BoundAssumption DEF IInv, TypeOK, Pcs, Processes, Ok, Errors, object, request, Goto, Answer, Fault
  <1>1. CASE Writers
    BY <1>1 DEF Writers, Upload, ForgetOld, Delete
  <1>2. CASE Arrive \/ GetObject
    BY <1>2 DEF Arrive, GetObject
  <1>3. CASE HeadObject
    <2>1. mapping # None /\ header # None => ParseRange(header, Size[mapping]) \in Ranges \cup {None}
      BY RangeType, SizeAssumption
    <2> QED BY <1>3, <2>1 DEF HeadObject
  <1>4. CASE HandBack
    <2>1. source \in Bodies /\ Size[source] \in Nat
      BY <1>4, SizeAssumption DEF HandBack
    <2>2. \A n \in 1..Size[source] : sent \o Slice(source, 0, n - 1) \in Seq(Bodies \X Nat)
      BY <2>1, SliceBytes
    <2>3. sent' \in Seq(Bodies \X Nat)
      BY <1>4, <2>2 DEF HandBack
    <2> QED BY <1>4, <2>3 DEF HandBack
  <1>5. CASE PeekFails \/ PeekExpires
    BY <1>5 DEF PeekFails, PeekExpires
  <1>6. CASE Backoff
    <2>1. attempt' \in 0..MaxTransientRetries
      BY <1>6 DEF Backoff, AttemptInv
    <2> QED BY <1>6, <2>1 DEF Backoff
  <1>7. CASE RestoreFails
    BY <1>7 DEF RestoreFails, MoreAttempts
  <1>8. CASE RestoreDone
    BY <1>8 DEF RestoreDone
  <1>9. CASE Copy
    <2>1. source \in Bodies
      BY <1>9 DEF Copy, SourceInv, Started
    <2>2. Body \in Seq(Bodies \X Nat)
      BY <2>1, BodyBytes
    <2>3. Body[Len(sent) + 1] \in Bodies \X Nat
      BY <1>9, <2>2 DEF Copy
    <2> QED BY <1>9, <2>3 DEF Copy
  <1>10. CASE Exit \/ Close
    BY <1>10 DEF Exit, Close, Wait, RemoveScratch
  <1>11. CASE KillProc \/ Expire \/ Disconnect
    BY <1>11 DEF KillProc, Expire, Disconnect
  <1>12. CASE Return
    <2>1. <<>> \in Seq(Bodies \X Nat)
      OBVIOUS
    <2>2. sent' \in Seq(Bodies \X Nat)
      BY <1>12, <2>1 DEF Return, Reset
    <2>3. expired' \in BOOLEAN /\ cancelled' \in BOOLEAN
      BY <1>12 DEF Return, Reset
    <2>4. attempt' \in 0..MaxTransientRetries
      BY <1>12 DEF Return, Reset
    <2> QED BY <1>12, <2>2, <2>3, <2>4 DEF Return, Reset
  <1>13. CASE UNCHANGED vars
    BY <1>13 DEF vars
  <1> QED BY <1>1, <1>2, <1>3, <1>4, <1>5, <1>6, <1>7, <1>8, <1>9, <1>10, <1>11, <1>12, <1>13
          DEF Next

(* What the response says stays what was asked. *)
LEMMA HeadStep == IInv /\ [Next]_vars => AttemptInv' /\ HeadInv' /\ SourceInv'
  <1> SUFFICES ASSUME IInv, [Next]_vars PROVE AttemptInv' /\ HeadInv' /\ SourceInv'
    OBVIOUS
  <1> USE DEF IInv, TypeOK, AttemptInv, HeadInv, SourceInv, Started, Waiting, Ok, object,
              request, Goto, Answer
  <1>1. CASE Writers
    BY <1>1 DEF Writers
  <1>2. CASE Arrive
    BY <1>2 DEF Arrive
  <1>3. CASE HeadObject
    BY <1>3 DEF HeadObject
  <1>4. CASE GetObject
    BY <1>4 DEF GetObject
  <1>5. CASE HandBack
    BY <1>5 DEF HandBack
  <1>6. CASE PeekFails \/ PeekExpires \/ Backoff
    BY <1>6 DEF PeekFails, PeekExpires, Backoff, MoreAttempts
  <1>7. CASE RestoreFails \/ RestoreDone
    BY <1>7 DEF RestoreFails, RestoreDone
  <1>8. CASE Copy \/ Exit \/ Close
    BY <1>8 DEF Copy, Exit, Close
  <1>9. CASE KillProc \/ Expire \/ Disconnect
    BY <1>9 DEF KillProc, Expire, Disconnect
  <1>10. CASE Return
    BY <1>10 DEF Return, Reset
  <1>11. CASE UNCHANGED vars
    BY <1>11 DEF vars
  <1> QED BY <1>1, <1>2, <1>3, <1>4, <1>5, <1>6, <1>7, <1>8, <1>9, <1>10, <1>11 DEF Next

(* Each byte that is sent is the next one of the body. *)
LEMMA SentStep == IInv /\ [Next]_vars => SentInv'
  <1> SUFFICES ASSUME IInv, [Next]_vars PROVE SentInv'
    OBVIOUS
  <1> USE DEF IInv, SentInv, Started, Waiting, Ok, object, request, Goto, Answer
  <1>1. CASE UNCHANGED <<pc, status, source, range, sent>>
    BY <1>1 DEF First
  <1>2. CASE Arrive \/ HeadObject \/ GetObject
    BY <1>2 DEF Arrive, HeadObject, GetObject
  <1>3. CASE HandBack
    <2>1. /\ source \in Bodies /\ Size[source] \in Nat /\ sent = <<>> /\ range = None
          /\ UNCHANGED <<source, range>> /\ pc' = "copy"
      BY <1>3, SizeAssumption DEF HandBack, SourceInv
    <2>2. CASE sent' = sent
      BY <2>1, <2>2
    <2>3. ASSUME NEW n \in 1..Size[source], sent' = sent \o Slice(source, 0, n - 1)
          PROVE  \A i \in 1..Len(sent') : sent'[i] = Byte(source, i - 1)
      <3>1. Slice(source, 0, n - 1) \in Seq(Bodies \X Nat)
        BY <2>1, SliceBytes
      <3>2. sent' = Slice(source, 0, n - 1)
        BY <2>1, <2>3, <3>1
      <3> QED BY <2>1, <3>2, SliceBytes
    <2> QED BY <1>3, <2>1, <2>2, <2>3 DEF HandBack, First
  <1>4. CASE PeekFails \/ PeekExpires \/ Backoff \/ RestoreFails
    BY <1>4 DEF PeekFails, PeekExpires, Backoff, RestoreFails
  <1>5. CASE RestoreDone
    BY <1>5 DEF RestoreDone
  <1>6. CASE Copy
    <2>1. /\ source \in Bodies /\ sent \in Seq(Bodies \X Nat)
          /\ pc = "copy" /\ UNCHANGED <<pc, source, range>>
          /\ Len(sent) < Len(Body) /\ sent' = Append(sent, Body[Len(sent) + 1])
      BY <1>6 DEF Copy, SourceInv, TypeOK
    <2>2. /\ Body \in Seq(Bodies \X Nat)
          /\ \A i \in 1..Len(Body) : Body[i] = Byte(source, First + i - 1)
      BY <2>1, BodyBytes
    <2>3. \A i \in 1..Len(sent) : sent[i] = Byte(source, First + i - 1)
      BY <2>1
    <2>4. \A i \in 1..Len(sent') : sent'[i] = Byte(source, First + i - 1)
      <3> HIDE DEF IInv, SentInv
      <3>1. /\ Len(sent') = Len(sent) + 1
            /\ sent'[Len(sent) + 1] = Byte(source, First + (Len(sent) + 1) - 1)
            /\ \A i \in 1..Len(sent) : sent'[i] = sent[i]
        BY <2>1, <2>2
      <3> QED BY <2>1, <2>3, <3>1
    <2>5. First' = First
      BY <2>1 DEF First
    <2> QED BY <2>1, <2>4, <2>5
  <1>7. CASE Close
    BY <1>7 DEF Close, ScratchInv, First
  <1>8. CASE Return
    BY <1>8 DEF Return, Reset
  <1>9. Writers \/ Exit \/ KillProc \/ Expire \/ Disconnect \/ UNCHANGED vars =>
          UNCHANGED <<pc, status, source, range, sent>>
    BY DEF Writers, Exit, KillProc, Expire, Disconnect, vars
  <1> QED BY <1>1, <1>2, <1>3, <1>4, <1>5, <1>6, <1>7, <1>8, <1>9 DEF Next

(* Who starts a process or makes a file sees to its end. *)
LEMMA EndStep == IInv /\ [Next]_vars => ProcInv' /\ ScratchInv'
  <1> SUFFICES ASSUME IInv, [Next]_vars PROVE ProcInv' /\ ScratchInv'
    OBVIOUS
  <1> USE DEF IInv, TypeOK, ProcInv, ScratchInv, StreamSurvivesBudget, ScratchIsRemoved, Waiting,
              Ok, object, request, Goto, Answer
  <1>1. CASE Writers
    BY <1>1 DEF Writers
  <1>2. CASE Arrive \/ HeadObject
    BY <1>2 DEF Arrive, HeadObject
  <1>3. CASE GetObject
    BY <1>3 DEF GetObject
  <1>4. CASE HandBack
    BY <1>4 DEF HandBack
  <1>5. CASE PeekFails \/ PeekExpires \/ Backoff
    BY <1>5 DEF PeekFails, PeekExpires, Backoff
  <1>6. CASE RestoreFails \/ RestoreDone
    BY <1>6, NoneAssumption DEF RestoreFails, RestoreDone, Processes
  <1>7. CASE Copy \/ Exit
    BY <1>7 DEF Copy, Exit
  <1>8. CASE Close
    BY <1>8 DEF Close, Wait, RemoveScratch
  <1>9. CASE KillProc
    BY <1>9 DEF KillProc, Doomed, StartCtxDone
  <1>10. CASE Expire \/ Disconnect
    BY <1>10 DEF Expire, Disconnect
  <1>11. CASE Return
    BY <1>11 DEF Return, Reset
  <1>12. CASE UNCHANGED vars
    BY <1>12 DEF vars
  <1> QED BY <1>1, <1>2, <1>3, <1>4, <1>5, <1>6, <1>7, <1>8, <1>9, <1>10, <1>11, <1>12 DEF Next

(* However a download is interleaved with uploads, failures and timeouts. *)
THEOREM Invariance == Spec => []IInv
  BY InitInv, TypeStep, HeadStep, SentStep, EndStep, PTL DEF Spec, IInv

------------------------------------------------------------------------------
(***************************************************************************)
(* For every header and every size, parseRange (get_object.go:73) refuses  *)
(* only a header that names no byte, and turns another into its bytes.     *)
(***************************************************************************)
THEOREM RangesAreRight == Spec => []RangeIsWhatWasAsked
  <1>1. IInv => RangeIsWhatWasAsked
    BY RangeIsWanted, SizeAssumption DEF IInv, TypeOK, RangeIsWhatWasAsked
  <1> QED BY <1>1, Invariance, PTL

(***************************************************************************)
(* A download that its client takes for complete has the bytes asked for,  *)
(* each once and in order, of the object its ETag names, unless that was   *)
(* overwritten between the two lookups (get_object.go:12, backend.go:205). *)
(***************************************************************************)
THEOREM CompleteDownloads == Spec => []CompleteIsCoherent
  <1>1. IInv => CompleteIsCoherent
    <2> SUFFICES ASSUME IInv, Complete, info = source
                 PROVE  /\ {sent[i] : i \in 1..ContentLength} = {Byte(info, i) : i \in Asked}
                        /\ \A i, j \in 1..ContentLength : i < j => sent[i][2] < sent[j][2]
      BY DEF CompleteIsCoherent
    <2> DEFINE n == ContentLength
    <2>1. /\ info \in Bodies /\ Size[info] \in Nat /\ n <= Len(sent) /\ Len(sent) \in Nat
          /\ \A i \in 1..Len(sent) : sent[i] = Byte(info, First + i - 1)
          /\ range = IF header = None THEN None ELSE ParseRange(header, Size[info])
          /\ header # None => range # None
      BY SizeAssumption DEF IInv, Complete, HeadInv, SentInv, TypeOK
    <2>2. First \in Nat /\ n \in Int /\ First..(First + n - 1) = Asked
      <3>1. CASE header = None
        BY <2>1, <3>1 DEF First, Asked, ContentLength
      <3>2. CASE header # None
        <4>1. range \in Ranges /\ header \in RangeHeaders /\ range # None
          BY <2>1, <3>2 DEF IInv, TypeOK
        <4>2. range.start..range.end = Wanted(header, Size[info])
          BY <2>1, <3>2, <4>1, RangeIsWanted
        <4>3. First = range.start /\ n = range.end - range.start + 1 /\ First + n - 1 = range.end
          BY <4>1 DEF First, ContentLength, Ranges
        <4> QED BY <3>2, <4>1, <4>2, <4>3 DEF Asked, Ranges
      <3> QED BY <3>1, <3>2
    <2> HIDE DEF n
    <2>3. \A i \in 1..n : sent[i] = Byte(info, First + i - 1)
      BY <2>1, <2>2
    <2>4. {sent[i] : i \in 1..n} = {Byte(info, j) : j \in Asked}
      <3>1. ASSUME NEW i \in 1..n PROVE \E j \in Asked : sent[i] = Byte(info, j)
        <4>1. First + i - 1 \in First..(First + n - 1)
          BY <2>2
        <4> QED BY <2>2, <2>3, <4>1
      <3>2. ASSUME NEW j \in Asked PROVE \E i \in 1..n : sent[i] = Byte(info, j)
        <4>1. j \in Int /\ First <= j /\ j <= First + n - 1
          BY <2>2
        <4>2. j - First + 1 \in 1..n /\ First + (j - First + 1) - 1 = j
          BY <2>2, <4>1
        <4> QED BY <2>3, <4>2
      <3> QED BY <3>1, <3>2
    <2>5. \A i, j \in 1..n : i < j => sent[i][2] < sent[j][2]
      BY <2>2, <2>3 DEF Byte
    <2> QED BY <2>4, <2>5 DEF n
  <1> QED BY <1>1, Invariance, PTL

(***************************************************************************)
(* A stream that has begun is killed only when the client has gone         *)
(* (client.go:246): the retry budget ends with its first bytes.            *)
(***************************************************************************)
THEOREM StreamsOutliveBudget == Spec => []StreamSurvivesBudget
  <1>1. IInv => StreamSurvivesBudget
    BY DEF IInv, ProcInv
  <1> QED BY <1>1, Invariance, PTL

(***************************************************************************)
(* Whichever way a download ends, no restore process is left, nor while it *)
(* waits to start another (client.go:253).                                 *)
(***************************************************************************)
THEOREM ProcessesEnd == Spec => []NoProcessLeft
  <1>1. IInv => NoProcessLeft
    BY DEF IInv, ProcInv, NoProcessLeft
  <1> QED BY <1>1, Invariance, PTL

(***************************************************************************)
(* A scratch file outlives its download only if the restore to it failed   *)
(* (backend.go:205).                                                       *)
(***************************************************************************)
THEOREM ScratchFilesEnd == Spec => []ScratchIsRemoved
  <1>1. IInv => ScratchIsRemoved
    BY DEF IInv, ScratchInv
  <1> QED BY <1>1, Invariance, PTL
==============================================================================
