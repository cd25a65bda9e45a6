--------------------------- MODULE RequestsProofs ---------------------------
(***************************************************************************)
(* Whatever arrives of a signed body, the decoder hands on a beginning of  *)
(* it, and the whole of it if it reports the end; and with the decoder     *)
(* between the wire and a handler, an upload is all or nothing.  A request *)
(* that is served at all is one the bridge's key vouches for, arrived as   *)
(* it was signed and is served as it was meant; and one to which all that  *)
(* applies, and that comes in time, is served.                             *)
(***************************************************************************)
EXTENDS Requests, SequenceTheorems, FiniteSetTheorems, WellFoundedInduction, TLAPS

(* A signature the client made that fits after the first n chunks is the   *)
(* one of the chunk that comes next.                                       *)
LEMMA NextVouched ==
  ASSUME NEW n \in 0..Len(Payload), NEW d \in Chunks \cup {End},
         Append(SubSeq(Payload, 1, n), d) \in Vouched
  PROVE  /\ d = signed[n + 1]
         /\ d = End => n = Len(Payload)
         /\ d # End => n < Len(Payload) /\ d = Payload[n + 1]
PROOF
<1>1. signed \in Seq(Chunks \cup {End}) /\ Len(signed) = Len(Payload) + 1
  BY PayloadAssumption DEF signed
<1>2. PICK i \in 1..Len(signed) : Append(SubSeq(Payload, 1, n), d) = SubSeq(signed, 1, i)
  BY DEF Vouched
<1>3. SubSeq(Payload, 1, n) \in Seq(Chunks) /\ Len(SubSeq(Payload, 1, n)) = n
  BY PayloadAssumption
<1>4. /\ Len(Append(SubSeq(Payload, 1, n), d)) = n + 1
      /\ Append(SubSeq(Payload, 1, n), d)[n + 1] = d
  BY <1>3
<1>5. Len(SubSeq(signed, 1, i)) = i /\ SubSeq(signed, 1, i)[i] = signed[i]
  BY <1>1
<1>6. i = n + 1 /\ d = signed[n + 1]
  BY <1>2, <1>4, <1>5
<1>7. signed[Len(Payload) + 1] = End /\ (n < Len(Payload) => signed[n + 1] = Payload[n + 1])
  BY PayloadAssumption DEF signed
<1>8. n < Len(Payload) => Payload[n + 1] \in Chunks
  BY PayloadAssumption
<1> QED BY <1>6, <1>7, <1>8, PayloadAssumption

(* One chunk more of a beginning is the next beginning. *)
LEMMA OneMore ==
  ASSUME NEW n \in Nat, n < Len(Payload)
  PROVE  Append(SubSeq(Payload, 1, n), Payload[n + 1]) = SubSeq(Payload, 1, n + 1)
PROOF
<1> DEFINE s == Append(SubSeq(Payload, 1, n), Payload[n + 1])
           t == SubSeq(Payload, 1, n + 1)
<1>1. Payload \in Seq(Chunks) /\ Len(Payload) \in Nat
  BY PayloadAssumption
<1>2. SubSeq(Payload, 1, n) \in Seq(Chunks) /\ Len(SubSeq(Payload, 1, n)) = n
  BY <1>1
<1>3. s \in Seq(Chunks) /\ t \in Seq(Chunks) /\ Len(s) = n + 1 /\ Len(t) = n + 1
  BY <1>1, <1>2
<1>4. \A k \in 1..(n + 1) : s[k] = t[k]
  BY <1>1, <1>2
<1> QED BY <1>3, <1>4, SeqEqual

(* What is left to read after a blank line is a wire again. *)
LEMMA UnblankedIsWire ==
  ASSUME ReaderTypeOK
  PROVE  Unblanked \in Seq(Frame)
BY DEF ReaderTypeOK, Unblanked

(* Whatever is on the wire, the decoder starts with nothing handed on. *)
LEMMA StartInv == ASSUME NEW w \in Seq(Frame), Start(w) PROVE ReaderInv
PROOF
<1>1. ReaderTypeOK
  <2>1. wire \in Seq(Frame) /\ prev = <<>> /\ taken = <<>> /\ done = FALSE /\ err = "none"
    BY DEF Start, Seed
  <2>2. <<>> \in Seq(Chunks) /\ <<>> \in Seq(Chunks \cup {End})
    OBVIOUS
  <2> QED BY <2>1, <2>2 DEF ReaderTypeOK
<1>2. Len(Payload) \in Nat /\ SubSeq(Payload, 1, 0) = <<>>
  BY PayloadAssumption
<1> QED BY <1>1, <1>2 DEF Start, ReaderInv, Seed

(* The same of a step that starts a body. *)
LEMMA StartNext ==
  ASSUME wire' \in Seq(Frame), prev' = Seed, taken' = <<>>, done' = FALSE, err' = "none"
  PROVE  ReaderInv'
PROOF
<1>1. ReaderTypeOK'
  <2>1. <<>> \in Seq(Chunks) /\ <<>> \in Seq(Chunks \cup {End})
    OBVIOUS
  <2> QED BY <2>1 DEF ReaderTypeOK, Seed
<1>2. Len(Payload) \in Nat /\ SubSeq(Payload, 1, 0) = <<>>
  BY PayloadAssumption
<1> QED BY <1>1, <1>2 DEF ReaderInv, Seed

(* The step that hands on a chunk, or ends the body. *)
LEMMA AcceptInv == ReaderInv /\ Accept => ReaderInv'
PROOF
<1> SUFFICES ASSUME ReaderInv, Accept PROVE ReaderInv'
  OBVIOUS
<1> DEFINE f == Head(Unblanked)
<1>1. ReaderTypeOK /\ Unblanked \in Seq(Frame) /\ Unblanked # <<>>
  BY UnblankedIsWire DEF ReaderInv, Accept
<1>2. /\ f \in Frame /\ Tail(Unblanked) \in Seq(Frame)
      /\ f.data \in Chunks \cup {End} /\ f.sig \in Vouched
  <2>1. f \in Frame /\ Tail(Unblanked) \in Seq(Frame)
    BY <1>1
  <2> QED BY <2>1 DEF Frame
<1>3. /\ ~done /\ err = "none" /\ f.sig = Append(taken, f.data)
      /\ prev' = f.sig /\ done' = (f.data = End)
      /\ taken' = IF f.data = End THEN taken ELSE Append(taken, f.data)
      /\ wire' = Tail(Unblanked) /\ err' = err
  <2> HIDE DEF f
  <2>1. /\ ~done /\ err = "none" /\ f.sig = Append(prev, f.data)
        /\ prev' = f.sig /\ done' = (f.data = End) /\ taken' = taken \o HandedOn(f)
        /\ wire' = Tail(Unblanked) /\ err' = err
    BY DEF Accept, Unread, Fits, ChunkSignature, IsEnd, f
  <2>2. taken \in Seq(Chunks) /\ prev = taken
    BY <1>1, <2>1 DEF ReaderInv, ReaderTypeOK
  <2>3. taken \o <<>> = taken /\ taken \o <<f.data>> = Append(taken, f.data)
    BY <2>2, AppendIsConcat, ConcatEmptySeq, <1>2
  <2> QED BY <2>1, <2>2, <2>3 DEF HandedOn
<1>4. PICK n \in 0..Len(Payload) : taken = SubSeq(Payload, 1, n)
  BY DEF ReaderInv
<1>5. /\ f.data = End => n = Len(Payload)
      /\ f.data # End => n < Len(Payload) /\ f.data = Payload[n + 1]
  BY <1>2, <1>3, <1>4, NextVouched
<1>6. ReaderTypeOK'
  <2> HIDE DEF f
  <2>0. taken \in Seq(Chunks) /\ taken \in Seq(Chunks \cup {End})
    BY <1>1 DEF ReaderTypeOK
  <2>1. f.sig \in Seq(Chunks \cup {End})
    BY <1>2, <1>3, <2>0
  <2>3. taken' \in Seq(Chunks)
    BY <1>2, <1>3, <2>0
  <2>2. done' \in BOOLEAN /\ err' \in {"none", "broken", "SignatureDoesNotMatch"}
    BY <1>3
  <2> QED BY <1>2, <1>3, <2>1, <2>2, <2>3 DEF ReaderTypeOK
<1>7. CASE f.data = End
  <2>1. taken = Payload
    BY <1>4, <1>5, <1>7, PayloadAssumption
  <2> QED BY <1>3, <1>4, <1>6, <1>7, <2>1 DEF ReaderInv
<1>8. CASE f.data # End
  <2>1. taken' = SubSeq(Payload, 1, n + 1) /\ n + 1 \in 0..Len(Payload)
    BY <1>3, <1>4, <1>5, <1>8, OneMore, PayloadAssumption
  <2> QED BY <1>3, <1>6, <1>8, <2>1 DEF ReaderInv
<1> QED BY <1>7, <1>8

(* Every step of the decoder, and those that leave it alone. *)
LEMMA ReadInv == ReaderInv /\ [NextChunk]_reader => ReaderInv'
PROOF
<1> SUFFICES ASSUME ReaderInv, [NextChunk]_reader PROVE ReaderInv'
  OBVIOUS
<1>1. CASE Break
  BY <1>1 DEF ReaderInv, ReaderTypeOK, Break
<1>2. CASE Mismatch
  BY <1>2 DEF ReaderInv, ReaderTypeOK, Mismatch
<1>3. CASE Accept
  BY <1>3, AcceptInv
<1>4. CASE UNCHANGED reader
  BY <1>4 DEF ReaderInv, ReaderTypeOK, reader
<1> QED BY <1>1, <1>2, <1>3, <1>4 DEF NextChunk

(* The decoder by itself keeps its invariant. *)
THEOREM ReaderInvariance == ReaderSpec => []ReaderInv
PROOF
<1>1. ReaderInit => ReaderInv
  BY WireAssumption, StartInv DEF ReaderInit
<1>2. ReaderInv /\ [NextChunk]_reader => ReaderInv'
  BY ReadInv
<1> QED BY <1>1, <1>2, PTL DEF ReaderSpec

(***************************************************************************)
(* For every payload and everything that may arrive of it, what Read has   *)
(* handed on is signed, in order and without a gap, and io.EOF means that  *)
(* it is all there.                                                        *)
(***************************************************************************)
THEOREM DecodedAsSigned == ReaderSpec => []TakenAsSigned
PROOF
<1>1. ReaderInv => TakenAsSigned
  BY DEF ReaderInv, TakenAsSigned
<1> QED BY <1>1, ReaderInvariance, PTL

------------------------------------------------------------------------------
(***************************************************************************)
(* The decoder between the wire and a handler                              *)
(***************************************************************************)
(* A body that is sent with a trailer and is not unwrapped. *)
Trailing == HeaderValue(req, "x-amz-content-sha256") = <<<<"trailer">>>>

(* A request that has not reached its handler has nothing. *)
FreshInv == pc \in {"idle", "sent", "arrived"} =>
              /\ handler = None /\ file = None
              /\ taken = <<>> /\ ~done /\ err = "none"

(* The scratch file of one that has is what the decoder has handed on. *)
BodyInv == pc = "body" =>
             /\ err = "none"
             /\ file = IF handler \in ToFile THEN taken ELSE None
             /\ ~Streaming(req) => ~done

(* And in the end it is all there or gone. *)
AnswerInv == pc = "answered" =>
               /\ status = "OK" /\ HasBody /\ handler \in ToFile /\ ~Trailing => file = Payload
               /\ status \in Codes => file = None /\ ~done

WaitingInv == pc # "answered" => status = None

IInv == ReaderInv /\ FreshInv /\ BodyInv /\ AnswerInv /\ WaitingInv
          /\ pc \in {"idle", "sent", "arrived", "body", "answered"}

(* No request has arrived yet. *)
LEMMA InitInv == Init => IInv
PROOF
<1> SUFFICES ASSUME Init PROVE IInv
  OBVIOUS
<1>1. ReaderInv
  <2>1. <<>> \in Seq(Frame)
    OBVIOUS
  <2> QED BY <2>1, StartInv DEF Init
<1> QED BY <1>1 DEF Init, Start, IInv, FreshInv, BodyInv, AnswerInv, WaitingInv

(* Reaching the handler, with the decoder before it or not. *)
LEMMA ServeInv == IInv /\ Serve => IInv'
PROOF
<1> SUFFICES ASSUME IInv, Serve PROVE IInv'
  OBVIOUS
<1>1. /\ pc = "arrived" /\ UNCHANGED <<client, arrival>> /\ ReaderInv
      /\ handler = None /\ file = None /\ taken = <<>> /\ ~done /\ err = "none"
      /\ status = None
  BY DEF IInv, Serve, NeedsAuth, FreshInv, WaitingInv
<1>2. CASE /\ Answer("InvalidArgument") /\ UNCHANGED <<handler, file, reader>>
  <2>1. ReaderInv'
    BY <1>2, ReadInv DEF IInv
  <2> QED BY <1>1, <1>2, <2>1 DEF Answer, IInv, FreshInv, BodyInv, AnswerInv, WaitingInv, HasBody,
                                 reader
<1>3. CASE /\ pc' = "body" /\ UNCHANGED status
           /\ IF Streaming(req)
              THEN /\ \E w \in Wires : wire' = w
                   /\ prev' = Seed /\ taken' = <<>> /\ done' = FALSE /\ err' = "none"
              ELSE UNCHANGED reader
           /\ file' = IF handler' \in ToFile THEN <<>> ELSE None
  <2>1. ReaderInv'
    <3>1. CASE UNCHANGED reader
      BY <1>1, <3>1, ReadInv
    <3>2. CASE (\E w \in Wires : wire' = w) /\ prev' = Seed /\ taken' = <<>> /\ done' = FALSE
               /\ err' = "none"
      BY <3>2, WireAssumption, StartNext
    <3> QED BY <1>3, <3>1, <3>2
  <2>2. taken' = <<>> /\ ~done' /\ err' = "none"
    BY <1>1, <1>3 DEF reader
  <2> QED BY <1>1, <1>3, <2>1, <2>2 DEF IInv, FreshInv, BodyInv, AnswerInv, WaitingInv
<1> QED BY <1>2, <1>3 DEF Serve, ToFile

(* One frame more, or the error that removes the file. *)
LEMMA ChunkInv == IInv /\ ReadChunk => IInv'
PROOF
<1> SUFFICES ASSUME IInv, ReadChunk PROVE IInv'
  OBVIOUS
<1>1. /\ pc = "body" /\ Streaming(req) /\ NextChunk /\ UNCHANGED <<client, arrival, handler>>
      /\ HasBody /\ ReaderInv /\ status = None
      /\ err = "none" /\ file = IF handler \in ToFile THEN taken ELSE None
  BY DEF IInv, ReadChunk, BodyInv, WaitingInv
<1>2. ReaderInv' /\ taken \in Seq(Chunks) /\ taken # None
  BY <1>1, ReadInv, NoneAssumption DEF ReaderInv, ReaderTypeOK
<1>3. Streaming(req)' <=> Streaming(req)
  BY <1>1 DEF arrival
<1>4. CASE err' # "none"
  <2>1. ~done' /\ file' = None /\ pc' = "answered"
        /\ status' \in {"InvalidArgument", "InternalError"}
    BY <1>1, <1>4 DEF ReadChunk, NextChunk, Break, Mismatch, Accept, Unread, BodyFails, Answer
  <2> QED BY <1>2, <2>1 DEF IInv, FreshInv, BodyInv, AnswerInv, WaitingInv
<1>5. CASE err' = "none"
  <2>1. UNCHANGED <<pc, status>> /\ file' = IF file = None THEN None ELSE taken'
    BY <1>5 DEF ReadChunk
  <2>2. file' = IF handler' \in ToFile THEN taken' ELSE None
    BY <1>1, <1>2, <2>1
  <2> QED BY <1>1, <1>2, <1>3, <1>5, <2>1, <2>2 DEF IInv, FreshInv, BodyInv, AnswerInv, WaitingInv
<1> QED BY <1>4, <1>5

(* Every other step of a request. *)
LEMMA NextInv == IInv /\ [Next]_vars => IInv'
PROOF
<1> SUFFICES ASSUME IInv, [Next]_vars PROVE IInv'
  OBVIOUS
<1> USE DEF IInv, FreshInv, BodyInv, AnswerInv, WaitingInv
<1>1. ASSUME UNCHANGED reader PROVE ReaderInv'
  BY <1>1, ReadInv
<1>2. CASE Sign \/ Deliver
  BY <1>1, <1>2 DEF Sign, Deliver, arrival, client, reader
<1>3. CASE Health
  <2>1. /\ handler' = "health" /\ pc' = "answered" /\ status' = "OK" /\ pc = "arrived"
        /\ UNCHANGED <<client, arrival, file, reader>>
    BY <1>3 DEF Health, Answer
  <2>2. "health" \notin Readers /\ "health" \notin ToFile /\ "OK" \notin Codes
    BY DEF Readers, ToFile, Codes
  <2>3. ~HasBody'
    BY <2>1, <2>2 DEF HasBody
  <2> QED BY <1>1, <2>1, <2>2, <2>3 DEF reader
<1>10. CASE Refuse
  <2>1. /\ pc = "arrived" /\ pc' = "answered"
        /\ UNCHANGED <<client, arrival, handler, file, reader>>
    BY <1>10 DEF Refuse, NeedsAuth, Answer
  <2>2. handler = None /\ None \notin Readers /\ None \notin ToFile
    <3>1. /\ DOMAIN Cases = 1..10 /\ Cases[2].handler = "UploadPart"
          /\ Cases[3].handler = "CompleteMultipartUpload" /\ Cases[7].handler = "PutObject"
      BY DEF Cases, Rule
    <3>2. None # "UploadPart" /\ None # "CompleteMultipartUpload" /\ None # "PutObject"
      BY <3>1, NoneAssumption
    <3> QED BY <2>1, <3>2 DEF Readers, ToFile
  <2>3. ~HasBody'
    BY <2>1, <2>2 DEF HasBody
  <2> QED BY <1>1, <2>1, <2>2, <2>3 DEF reader
<1>4. CASE Serve
  BY <1>4, ServeInv
<1>5. CASE ReadChunk
  BY <1>5, ChunkInv
<1>6. CASE ReadPlain
  <2>1. /\ pc = "body" /\ UNCHANGED <<client, arrival, handler, reader>>
        /\ HasBody /\ ~Streaming(req) /\ ~done
    BY <1>6 DEF ReadPlain
  <2>2. CASE BodyFails
    BY <1>1, <2>1, <2>2 DEF BodyFails, Answer, reader
  <2>3. CASE /\ file' = IF file = None THEN None
                         ELSE IF Trailing THEN Framed(Payload) ELSE Payload
             /\ Answer("OK")
    <3>1. handler' \in ToFile => file # None
      BY <2>1, NoneAssumption DEF ReaderInv, ReaderTypeOK
    <3>2. Trailing' <=> Trailing
      BY <2>1 DEF arrival, Trailing
    <3>3. "OK" \notin Codes
      BY DEF Codes
    <3> QED BY <1>1, <2>1, <2>3, <3>1, <3>2, <3>3 DEF Answer, reader
  <2> QED BY <1>6, <2>2, <2>3 DEF ReadPlain, Trailing
<1>7. CASE Finish
  <2>1. /\ pc = "body" /\ UNCHANGED <<client, arrival, handler, file, reader>>
        /\ pc' = "answered" /\ status' = "OK" /\ "OK" \notin Codes
    BY <1>7 DEF Finish, Answer, Codes
  <2>2. HasBody' <=> HasBody
    BY <2>1 DEF HasBody, client
  <2>3. HasBody => done
    BY <1>7 DEF Finish, BodyIsRead
  <2>4. HasBody /\ handler \in ToFile => file = Payload
    BY <2>1, <2>3 DEF ReaderInv
  <2> QED BY <1>1, <2>1, <2>2, <2>4
<1>8. CASE Return
  <2>1. wire' \in Seq(Frame)
    BY <1>8 DEF Return
  <2>2. ReaderInv'
    BY <1>8, <2>1, StartNext DEF Return
  <2> QED BY <1>8, <2>2 DEF Return
<1>9. CASE UNCHANGED vars
  BY <1>1, <1>9 DEF vars, client, arrival, reader, HasBody, Trailing
<1> QED BY <1>2, <1>3, <1>4, <1>5, <1>6, <1>7, <1>8, <1>9, <1>10 DEF Next

(* A request has its body where the invariant says, from arrival to answer. *)
THEOREM Invariance == Spec => []IInv
  BY InitInv, NextInv, PTL DEF Spec

(***************************************************************************)
(* In front of a handler, and from request to request, the decoder of      *)
(* chunked.go:137 keeps what it promises by itself.                        *)
(***************************************************************************)
THEOREM ServedAsSigned == Spec => []TakenAsSigned
PROOF
<1>1. IInv => TakenAsSigned
  BY DEF IInv, ReaderInv, TakenAsSigned
<1> QED BY <1>1, Invariance, PTL

(***************************************************************************)
(* Whatever signatures, routes and wires there are, an upload that is      *)
(* acknowledged is stored as it was sent and any other leaves nothing      *)
(* (chunked.go:137, staging.go:50, :199), with one exception: a body whose *)
(* trailer nobody takes off is stored with its frames.                     *)
(***************************************************************************)
THEOREM AllOrNothingButTrailers == Spec => [](BrokenBodyKeepsNothing /\ (Trailing \/ AllOrNothing))
PROOF
<1>1. ASSUME IInv PROVE BrokenBodyKeepsNothing
  BY <1>1, NoneAssumption
     DEF IInv, WaitingInv, AnswerInv, BrokenBodyKeepsNothing, Codes
<1>2. ASSUME IInv, ~Trailing PROVE AcknowledgedAsSent
  BY <1>2, NoneAssumption
     DEF IInv, WaitingInv, AnswerInv, AcknowledgedAsSent, HasBody, Readers, ToFile
<1>3. IInv => BrokenBodyKeepsNothing /\ (Trailing \/ AllOrNothing)
  BY <1>1, <1>2 DEF AllOrNothing
<1> QED BY <1>3, Invariance, PTL

------------------------------------------------------------------------------
(* Min of FiniteSetsExt, of a set of naturals that need not be finite. *)
LEMMA Least == ASSUME NEW S \in SUBSET Nat, S # {} PROVE Min(S) \in S
<1> DEFINE R == {ss \in Nat \X Nat : ss[1] < ss[2]}
<1>1. OpToRel(<, Nat) = R
  BY Zenon DEF OpToRel
<1>2. PICK m \in S : \A y \in S : ~ <<y, m>> \in R
  <2> HIDE DEF R
  <2> QED BY <1>1, NatLessThanWellFounded, WFMin
<1>3. ASSUME NEW y \in S PROVE m <= y
  <2>1. y \in Nat /\ m \in Nat /\ <<y, m>> \notin R
    BY <1>2
  <2>2. y < m => <<y, m>> \in R
    BY <2>1
  <2> QED BY <2>1, <2>2
<1> QED BY <1>3 DEF Min

(* A list of checks of which none is the first to fail. *)
LEMMA FirstHolds ==
  ASSUME NEW checks, NEW n \in Nat, DOMAIN checks = 1..n,
         \A i \in 1..n : checks[i].code # "ok", FirstFailing(checks) = "ok"
  PROVE  \A i \in 1..n : checks[i].holds
<1> DEFINE failing == {i \in DOMAIN checks : ~checks[i].holds}
<1>1. failing # {} => Min(failing) \in failing
  BY Least
<1>2. failing # {} => FirstFailing(checks) = checks[Min(failing)].code
  BY DEF FirstFailing
<1>3. failing = {}
  BY <1>1, <1>2
<1> QED BY <1>3

(* The checks of VerifyHeader and of VerifyPresigned, one by one. *)
LEMMA Checks8 ==
  ASSUME NEW a, NEW b, NEW c, NEW d, NEW e, NEW f, NEW g, NEW h,
         NEW s, s = <<a>> \o <<b, c>> \o <<d, e, f>> \o <<g, h>>
  PROVE  /\ DOMAIN s = 1..8
         /\ s[1] = a /\ s[2] = b /\ s[3] = c /\ s[4] = d
         /\ s[5] = e /\ s[6] = f /\ s[7] = g /\ s[8] = h
<1> DEFINE S == {a, b, c, d, e, f, g, h}
           s1 == <<a>> \o <<b, c>>
           s2 == s1 \o <<d, e, f>>
<1>1. /\ <<a>> \in Seq(S) /\ <<b, c>> \in Seq(S) /\ <<d, e, f>> \in Seq(S) /\ <<g, h>> \in Seq(S)
  OBVIOUS
<1> HIDE DEF S
<1>2. s1 \in Seq(S) /\ Len(s1) = 3 /\ s1[1] = a /\ s1[2] = b /\ s1[3] = c
  BY <1>1, ConcatProperties
<1> HIDE DEF s1
<1> DEFINE t == <<d, e, f>>
<1>5. t \in Seq(S) /\ Len(t) = 3 /\ t[1] = d /\ t[2] = e /\ t[3] = f
  BY <1>1
<1> HIDE DEF t
<1>3. /\ s2 \in Seq(S) /\ Len(s2) = 6 /\ \A i \in 1..3 : s2[i] = s1[i]
      /\ s2[4] = d /\ s2[5] = e /\ s2[6] = f
  <2>1. /\ s2 \in Seq(S) /\ Len(s2) = 6
        /\ \A i \in 1..6 : s2[i] = IF i <= 3 THEN s1[i] ELSE t[i - 3]
    <3>1. s2 = s1 \o t
      BY DEF t
    <3> HIDE DEF s2
    <3>2. /\ s1 \o t \in Seq(S) /\ Len(s1 \o t) = Len(s1) + Len(t)
          /\ \A i \in 1..Len(s1) + Len(t) :
               (s1 \o t)[i] = IF i <= Len(s1) THEN s1[i] ELSE t[i - Len(s1)]
      BY <1>2, <1>5, ConcatProperties, Zenon
    <3> QED BY <1>2, <1>5, <3>1, <3>2
  <2> HIDE DEF s2
  <2> QED BY <1>5, <2>1
<1> HIDE DEF s2
<1>4. /\ s \in Seq(S) /\ Len(s) = 8 /\ \A i \in 1..6 : s[i] = s2[i]
      /\ s[7] = g /\ s[8] = h
  <2>1. s = s2 \o <<g, h>>
    BY DEF s2, s1
  <2> QED BY <1>1, <1>3, <2>1, ConcatProperties
<1> QED BY <1>2, <1>3, <1>4

(* The same of five checks. *)
LEMMA Checks5 ==
  ASSUME NEW a, NEW b, NEW c, NEW d, NEW e,
         NEW s, s = <<a, b>> \o <<c>> \o <<d, e>>
  PROVE  /\ DOMAIN s = 1..5
         /\ s[1] = a /\ s[2] = b /\ s[3] = c /\ s[4] = d /\ s[5] = e
<1> DEFINE S == {a, b, c, d, e}
           s1 == <<a, b>> \o <<c>>
<1>1. <<a, b>> \in Seq(S) /\ <<c>> \in Seq(S) /\ <<d, e>> \in Seq(S)
  OBVIOUS
<1> HIDE DEF S
<1>2. s1 \in Seq(S) /\ Len(s1) = 3 /\ s1[1] = a /\ s1[2] = b /\ s1[3] = c
  BY <1>1, ConcatProperties
<1> HIDE DEF s1
<1>3. s \in Seq(S) /\ Len(s) = 5 /\ \A i \in 1..3 : s[i] = s1[i]
  <2>1. s = s1 \o <<d, e>>
    BY DEF s1
  <2> QED BY <1>1, <1>2, <2>1, ConcatProperties
<1>4. s[4] = d /\ s[5] = e
  <2>1. s = s1 \o <<d, e>>
    BY DEF s1
  <2> QED BY <1>1, <1>2, <2>1, ConcatProperties
<1> QED BY <1>2, <1>3, <1>4

(* A check that holds. *)
LEMMA Holding == ASSUME NEW h \in BOOLEAN, NEW c, Check(h, c).holds PROVE h
BY DEF Check

(* When no check of a list fails they all hold. *)
LEMMA Hold8 ==
  ASSUME NEW h1 \in BOOLEAN, NEW h2 \in BOOLEAN, NEW h3 \in BOOLEAN, NEW h4 \in BOOLEAN,
         NEW h5 \in BOOLEAN, NEW h6 \in BOOLEAN, NEW h7 \in BOOLEAN, NEW h8 \in BOOLEAN,
         FirstFailing(<<Check(h1, "AccessDenied")>> \o <<Check(h2, "InvalidAccessKeyId"),
                                                               Check(h3, "InvalidArgument")>>
                      \o <<Check(h4, "AccessDenied"), Check(h5, "RequestTimeTooSkewed"),
                           Check(h6, "AccessDenied")>>
                      \o <<Check(h7, "InvalidArgument"), Check(h8, "SignatureDoesNotMatch")>>)
           = "ok"
  PROVE  h1 /\ h2 /\ h3 /\ h4 /\ h5 /\ h6 /\ h7 /\ h8
<1> DEFINE s == <<Check(h1, "AccessDenied")>> \o <<Check(h2, "InvalidAccessKeyId"),
                                                         Check(h3, "InvalidArgument")>>
                \o <<Check(h4, "AccessDenied"), Check(h5, "RequestTimeTooSkewed"),
                     Check(h6, "AccessDenied")>>
                \o <<Check(h7, "InvalidArgument"), Check(h8, "SignatureDoesNotMatch")>>
<1>1. /\ DOMAIN s = 1..8
      /\ s[1] = Check(h1, "AccessDenied") /\ s[2] = Check(h2, "InvalidAccessKeyId")
      /\ s[3] = Check(h3, "InvalidArgument") /\ s[4] = Check(h4, "AccessDenied")
      /\ s[5] = Check(h5, "RequestTimeTooSkewed") /\ s[6] = Check(h6, "AccessDenied")
      /\ s[7] = Check(h7, "InvalidArgument") /\ s[8] = Check(h8, "SignatureDoesNotMatch")
  <2> DEFINE c1 == Check(h1, "AccessDenied")
             c2 == Check(h2, "InvalidAccessKeyId")
             c3 == Check(h3, "InvalidArgument")
             c4 == Check(h4, "AccessDenied")
             c5 == Check(h5, "RequestTimeTooSkewed")
             c6 == Check(h6, "AccessDenied")
             c7 == Check(h7, "InvalidArgument")
             c8 == Check(h8, "SignatureDoesNotMatch")
  <2>1. s = <<c1>> \o <<c2, c3>> \o <<c4, c5, c6>> \o <<c7, c8>>
    OBVIOUS
  <2> HIDE DEF c1, c2, c3, c4, c5, c6, c7, c8, s
  <2>2. /\ DOMAIN s = 1..8
        /\ s[1] = c1 /\ s[2] = c2 /\ s[3] = c3 /\ s[4] = c4
        /\ s[5] = c5 /\ s[6] = c6 /\ s[7] = c7 /\ s[8] = c8
    BY <2>1, Checks8
  <2> QED BY <2>2 DEF c1, c2, c3, c4, c5, c6, c7, c8
<1>2. FirstFailing(s) = "ok"
  OBVIOUS
<1> HIDE DEF s
<1>3. \A i \in 1..8 : s[i].code # "ok"
  BY <1>1 DEF Check
<1>4. \A i \in 1..8 : s[i].holds
  BY <1>1, <1>2, <1>3, FirstHolds
<1>5. /\ Check(h1, "AccessDenied").holds /\ Check(h2, "InvalidAccessKeyId").holds
      /\ Check(h3, "InvalidArgument").holds /\ Check(h4, "AccessDenied").holds
      /\ Check(h5, "RequestTimeTooSkewed").holds /\ Check(h6, "AccessDenied").holds
      /\ Check(h7, "InvalidArgument").holds /\ Check(h8, "SignatureDoesNotMatch").holds
  BY <1>1, <1>4
<1> QED BY <1>5, Holding

(* What VerifyHeader lets through. *)
LEMMA HeaderVerified ==
  ASSUME NEW r, NEW now, VerifyHeader(r, now) = "ok"
  PROVE  /\ r.auth.sig # None /\ r.auth.access = Credentials.access
         /\ SignedAt(r) # None /\ ~ Skewed(now, SignedAt(r))
         /\ HeaderValue(r, "x-amz-content-sha256") # <<>> /\ Present(r)
         /\ r.auth.sig = Signature(Credentials.secret, r)
PROOF
<1> DEFINE h1 == r.auth.sig # None
           h2 == r.auth.access = Credentials.access
           h3 == r.auth.service = "s3"
           h4 == SignedAt(r) # None
           h5 == SignedAt(r) # None => ~Skewed(now, SignedAt(r))
           h6 == HeaderValue(r, "x-amz-content-sha256") # <<>>
           h7 == Present(r)
           h8 == Present(r) => r.auth.sig = Signature(Credentials.secret, r)
<1>1. /\ h1 \in BOOLEAN /\ h2 \in BOOLEAN /\ h3 \in BOOLEAN /\ h4 \in BOOLEAN
      /\ h5 \in BOOLEAN /\ h6 \in BOOLEAN /\ h7 \in BOOLEAN /\ h8 \in BOOLEAN
  BY DEF Present
<1>2. FirstFailing(<<Check(h1, "AccessDenied")>>
                   \o <<Check(h2, "InvalidAccessKeyId"), Check(h3, "InvalidArgument")>>
                   \o <<Check(h4, "AccessDenied"), Check(h5, "RequestTimeTooSkewed"),
                        Check(h6, "AccessDenied")>>
                   \o <<Check(h7, "InvalidArgument"), Check(h8, "SignatureDoesNotMatch")>>) = "ok"
  BY Zenon DEF VerifyHeader, ScopeChecks, SignatureChecks
<1> HIDE DEF h1, h2, h3, h4, h5, h6, h7, h8
<1>3. h1 /\ h2 /\ h4 /\ h5 /\ h6 /\ h7 /\ h8
  BY <1>1, <1>2, Hold8
<1> QED BY <1>3 DEF h1, h2, h4, h5, h6, h7, h8

(* The same for the five checks of a presigned URL. *)
LEMMA Hold5 ==
  ASSUME NEW h1 \in BOOLEAN, NEW h2 \in BOOLEAN, NEW h3 \in BOOLEAN, NEW h4 \in BOOLEAN,
         NEW h5 \in BOOLEAN,
         FirstFailing(<<Check(h1, "InvalidAccessKeyId"), Check(h2, "InvalidArgument")>>
                      \o <<Check(h3, "AccessDenied")>>
                      \o <<Check(h4, "InvalidArgument"), Check(h5, "SignatureDoesNotMatch")>>)
           = "ok"
  PROVE  h1 /\ h2 /\ h3 /\ h4 /\ h5
<1> DEFINE c1 == Check(h1, "InvalidAccessKeyId")
           c2 == Check(h2, "InvalidArgument")
           c3 == Check(h3, "AccessDenied")
           c4 == Check(h4, "InvalidArgument")
           c5 == Check(h5, "SignatureDoesNotMatch")
           s == <<c1, c2>> \o <<c3>> \o <<c4, c5>>
<1>1. /\ DOMAIN s = 1..5
      /\ s[1] = c1 /\ s[2] = c2 /\ s[3] = c3 /\ s[4] = c4 /\ s[5] = c5
  <2> HIDE DEF c1, c2, c3, c4, c5
  <2> QED BY Checks5
<1>2. FirstFailing(s) = "ok"
  OBVIOUS
<1> HIDE DEF s
<1>3. \A i \in 1..5 : s[i].code # "ok"
  BY <1>1 DEF Check
<1>4. \A i \in 1..5 : s[i].holds
  BY <1>1, <1>2, <1>3, FirstHolds
<1>5. c1.holds /\ c2.holds /\ c3.holds /\ c4.holds /\ c5.holds
  BY <1>1, <1>4
<1> QED BY <1>5, Holding

(* What VerifyPresigned lets through. *)
LEMMA PresignedVerified ==
  ASSUME NEW r, NEW now, VerifyPresigned(r, now) = "ok"
  PROVE  /\ r.auth.access = Credentials.access
         /\ ~ Expired(now, SignedAt(r), r.auth.expires)
         /\ r.auth.sig = Signature(Credentials.secret, r)
PROOF
<1> DEFINE h1 == r.auth.access = Credentials.access
           h2 == r.auth.service = "s3"
           h3 == ~ Expired(now, SignedAt(r), r.auth.expires)
           h4 == Present(r)
           h5 == Present(r) => r.auth.sig = Signature(Credentials.secret, r)
<1>1. h1 \in BOOLEAN /\ h2 \in BOOLEAN /\ h3 \in BOOLEAN /\ h4 \in BOOLEAN /\ h5 \in BOOLEAN
  BY DEF Present
<1>2. FirstFailing(<<Check(h1, "InvalidAccessKeyId"), Check(h2, "InvalidArgument")>>
                   \o <<Check(h3, "AccessDenied")>>
                   \o <<Check(h4, "InvalidArgument"), Check(h5, "SignatureDoesNotMatch")>>) = "ok"
  BY Zenon DEF VerifyPresigned, ScopeChecks, SignatureChecks
<1> HIDE DEF h1, h2, h3, h4, h5
<1>3. h1 /\ h3 /\ h4 /\ h5
  BY <1>1, <1>2, Hold5
<1> QED BY <1>3 DEF h1, h3, h4, h5

(* The fields of a request. *)
Fields == {"method", "path", "query", "host", "auth", "headers"}

(* A request s carries a signature made with the key k at the time t, of   *)
(* its own method and path.                                                *)
SignedWith(s, k, t) ==
  /\ s.auth # NoAuth /\ s.auth.access = k.access
  /\ s.auth.sig.key = <<k.secret, "s3">>
  /\ s.auth.sig.request.method = s.method /\ s.auth.sig.request.path = s.path
  /\ IsPresigned(s) => /\ s.auth.date = t /\ s.auth.sig.date = t
                       /\ s.auth.expires \in Expires

(* What signing does to a request that has all it takes but the signature. *)
LEMMA SignatureIsSet ==
  ASSUME NEW r, DOMAIN r = Fields, DOMAIN r.auth = DOMAIN NoAuth,
         NEW k, NEW t, r.auth.access = k.access, r.auth.service = "s3",
         IsPresigned(r) => r.auth.date = t /\ r.auth.expires \in Expires,
         k.access # None
  PROVE  /\ SignedWith(Signed(r, k.secret), k, t)
         /\ DOMAIN Signed(r, k.secret) = Fields
<1> DEFINE s == Signed(r, k.secret)
           g == Signature(k.secret, r)
<1>1. /\ DOMAIN s = Fields
      /\ s.method = r.method /\ s.path = r.path
      /\ s.auth = [r.auth EXCEPT !.sig = g]
  BY DEF Signed, Fields
<1>2. /\ s.auth.sig = g /\ s.auth.access = r.auth.access /\ s.auth.date = r.auth.date
      /\ s.auth.form = r.auth.form /\ s.auth.expires = r.auth.expires
  BY <1>1 DEF NoAuth
<1>3. /\ g.key = <<k.secret, "s3">> /\ g.date = SignedAt(r)
      /\ g.request.method = r.method /\ g.request.path = r.path
  BY DEF Signature, CanonicalRequest
<1>4. s.auth # NoAuth
  BY <1>2 DEF NoAuth
<1>5. IsPresigned(r) => SignedAt(r) = r.auth.date
  BY DEF SignedAt
<1> HIDE DEF s, g
<1>6. SignedWith(s, k, t) /\ DOMAIN s = Fields
  BY <1>1, <1>2, <1>3, <1>4, <1>5 DEF SignedWith, IsPresigned
<1> QED BY <1>6 DEF s

(* An SDK signs a request in its headers ... *)
LEMMA SignHeaderSigns ==
  ASSUME NEW o, NEW mode, NEW k, NEW t, k.access # None
  PROVE  /\ SignedWith(SignHeader(Plain(o, mode), k, t), k, t)
         /\ DOMAIN SignHeader(Plain(o, mode), k, t) = Fields
<1> DEFINE p == Plain(o, mode)
           a == [form |-> "header", access |-> k.access, service |-> "s3", date |-> None,
                 expires |-> None, sig |-> None,
                 names |-> <<"host", "x-amz-content-sha256", "x-amz-date">>]
           r == [p EXCEPT !.auth = a,
                          !.headers = @ \o <<[name |-> "x-amz-date", value |-> <<t>>]>>]
<1>1. DOMAIN p = Fields
  BY DEF Plain, Fields
<1>2. DOMAIN r = Fields /\ r.auth = a
  <2> HIDE DEF p, a
  <2> QED BY <1>1 DEF Fields
<1>3. SignHeader(p, k, t) = Signed(r, k.secret)
  BY DEF SignHeader
<1> HIDE DEF p, r
<1>4. /\ DOMAIN r.auth = DOMAIN NoAuth /\ r.auth.access = k.access /\ r.auth.service = "s3"
      /\ ~ IsPresigned(r)
  BY <1>2 DEF NoAuth, IsPresigned
<1>5. SignedWith(SignHeader(p, k, t), k, t) /\ DOMAIN SignHeader(p, k, t) = Fields
  BY <1>2, <1>3, <1>4, SignatureIsSet
<1> QED BY <1>5 DEF p

(* ... or in its URL. *)
LEMMA PresignURLSigns ==
  ASSUME NEW o, NEW k, NEW t, NEW e \in Expires, k.access # None
  PROVE  /\ SignedWith(PresignURL(Plain(o, None), k, t, e), k, t)
         /\ DOMAIN PresignURL(Plain(o, None), k, t, e) = Fields
<1> DEFINE p == Plain(o, None)
           a == [form |-> "presigned", access |-> k.access, service |-> "s3", date |-> t,
                 expires |-> e, names |-> <<"host">>, sig |-> None]
           r == [p EXCEPT !.auth = a]
<1>1. DOMAIN p = Fields
  BY DEF Plain, Fields
<1>2. DOMAIN r = Fields /\ r.auth = a
  <2> HIDE DEF p, a
  <2> QED BY <1>1 DEF Fields
<1>3. PresignURL(p, k, t, e) = Signed(r, k.secret)
  BY DEF PresignURL
<1> HIDE DEF p, r
<1>4. /\ DOMAIN r.auth = DOMAIN NoAuth /\ r.auth.access = k.access /\ r.auth.service = "s3"
      /\ r.auth.date = t /\ r.auth.expires \in Expires
  BY <1>2 DEF NoAuth
<1>5. SignedWith(PresignURL(p, k, t, e), k, t) /\ DOMAIN PresignURL(p, k, t, e) = Fields
  BY <1>2, <1>3, <1>4, SignatureIsSet
<1> QED BY <1>5 DEF p

------------------------------------------------------------------------------
(* What the client has sent, what of it a proxy cannot change, and that a  *)
(* request has been verified when it has a handler.                        *)
SentInv == pc # "idle" => /\ key \in Keys /\ offset \in Offsets
                          /\ DOMAIN sent = Fields
                          /\ sent.auth = NoAuth \/ SignedWith(sent, key, offset)

ArrivedInv == pc \in {"arrived", "body", "answered"} => age \in Ages /\ req.auth = sent.auth

VerifiedInv == Served => pc \in {"body", "answered"} /\ Verify(req, age) = "ok"

SignInv == SentInv /\ ArrivedInv /\ VerifiedInv

(* Whatever a proxy does, it leaves the signature. *)
LEMMA AuthArrives ==
  ASSUME NEW r, DOMAIN r = Fields, NEW q \in {r, Forwarded(r)} \cup Mangled(r)
  PROVE  q.auth = r.auth
<1> USE DEF Fields
<1>1. CASE q \in {r, Forwarded(r)}
  BY <1>1 DEF Forwarded
<1>2. CASE q \in Mangled(r)
  BY <1>2 DEF Mangled
<1> QED BY <1>1, <1>2

(* Every step of a request. *)
LEMMA SignStep ==
  ASSUME IInv, SignInv, [Next]_vars
  PROVE  SignInv'
<1> USE DEF SignInv, SentInv, ArrivedInv, VerifiedInv, Served
<1>1. pc \in {"idle", "sent", "arrived"} => handler = None
  BY DEF IInv, FreshInv
<1>2. CASE Sign
  <2>1. /\ pc = "idle" /\ pc' = "sent" /\ key' \in Keys /\ offset' \in Offsets
        /\ handler' = None /\ key'.access # None
    BY <1>1, <1>2, KeyAssumption DEF Sign
  <2>2. CASE \E mode \in Modes : sent' = SignHeader(Plain(op', mode), key', offset')
    BY <2>1, <2>2, SignHeaderSigns
  <2>3. CASE \E e \in Expires : sent' = PresignURL(Plain(op', None), key', offset', e)
    BY <2>1, <2>3, PresignURLSigns
  <2>4. CASE sent' = Plain(op', None)
    <3>1. DOMAIN sent' = Fields /\ sent'.auth = NoAuth
      BY <2>4 DEF Plain, Fields
    <3> QED BY <2>1, <3>1
  <2> QED BY <1>2, <2>2, <2>3, <2>4 DEF Sign
<1>3. CASE Deliver
  <2>1. /\ pc = "sent" /\ pc' = "arrived" /\ age' \in Ages
        /\ req' \in {sent, Forwarded(sent)} \cup Mangled(sent)
        /\ UNCHANGED <<key, offset, sent, handler>>
    BY <1>3 DEF Deliver, client
  <2> QED BY <1>1, <2>1, AuthArrives
<1>4. CASE Serve
  <2>1. /\ pc = "arrived" /\ Verify(req, age) = "ok"
        /\ UNCHANGED <<key, offset, sent, req, age>>
    BY <1>4 DEF Serve, NeedsAuth, client, arrival
  <2>2. pc' \in {"body", "answered"}
    BY <1>4 DEF Serve, Answer
  <2> QED BY <2>1, <2>2
<1>5. CASE Health \/ Refuse
  <2>1. /\ pc = "arrived" /\ pc' = "answered" /\ handler' \in {handler, "health"}
        /\ UNCHANGED <<key, offset, sent, req, age>>
    BY <1>5 DEF Health, Refuse, NeedsAuth, Answer, client, arrival
  <2> QED BY <1>1, <2>1
<1>6. CASE ReadChunk \/ ReadPlain \/ Finish
  <2>1. /\ pc = "body" /\ pc' \in {"body", "answered"}
        /\ UNCHANGED <<key, offset, sent, req, age, handler>>
    BY <1>6 DEF ReadChunk, ReadPlain, Finish, BodyFails, Answer, client, arrival
  <2> QED BY <2>1
<1>7. CASE Return
  BY <1>7 DEF Return
<1>8. CASE UNCHANGED vars
  BY <1>8 DEF vars, client, arrival
<1> QED BY <1>2, <1>3, <1>4, <1>5, <1>6, <1>7, <1>8 DEF Next

(* A duration that wraps around is no longer than the one that was meant. *)
LEMMA DurationBounded ==
  ASSUME NEW e \in Int, e > 0
  PROVE  Duration(e) \in Int /\ Duration(e) <= e
<1> DEFINE x == e + MaxDuration
           n == 2 * MaxDuration
<1>1. x \in Nat /\ n \in Nat \ {0}
  BY ClockAssumption
<1>2. ASSUME NEW a \in Nat, NEW b \in Nat \ {0} PROVE a % b \in Nat /\ a % b <= a
  <2>1. /\ a \div b \in Nat /\ a % b \in Nat
        /\ a = (b * (a \div b)) + (a % b)
    OBVIOUS
  <2>2. b * (a \div b) >= 0
    BY <2>1
  <2> QED BY <2>1, <2>2
<1>3. x % n \in Nat /\ x % n <= x
  BY <1>1, <1>2
<1> QED BY <1>3, ClockAssumption DEF Duration

(***************************************************************************)
(* What NoFalseService says of the signature (verify.go:145,               *)
(* presign.go:73): a request that is served was signed with the bridge's   *)
(* key, for the method and the path it is served for, and the signature    *)
(* is of the canonical request that arrived.  When the date that was       *)
(* signed is no more than ClockSkew off, it is served no later than        *)
(* 2 * ClockSkew after signing, a link 2 * ClockSkew after its expiry.     *)
(***************************************************************************)
VouchedFor ==
  Served =>
    /\ OurKey
    /\ req.method = sent.method /\ req.path = sent.path
    /\ sent.auth.sig.request = CanonicalRequest(req)
    /\ LET date == sent.auth.sig.date
       IN  /\ IsPresigned(sent) => date = offset
           /\ date \in -ClockSkew..ClockSkew =>
                age <= 2 * ClockSkew + (IF IsPresigned(sent) THEN sent.auth.expires ELSE 0)

(* A verified request fits what the client signed, field by field. *)
LEMMA VerifiedIsVouched == ASSUME IInv, SignInv PROVE VouchedFor
<1> SUFFICES ASSUME Served PROVE VouchedFor
  BY DEF VouchedFor
<1>1. /\ Verify(req, age) = "ok" /\ req.auth = sent.auth /\ age \in Ages
      /\ key \in Keys /\ offset \in Offsets
      /\ sent.auth = NoAuth \/ SignedWith(sent, key, offset)
  BY DEF SignInv, SentInv, ArrivedInv, VerifiedInv
<1>2. /\ req.auth.access = Credentials.access
      /\ req.auth.sig = Signature(Credentials.secret, req)
      /\ sent.auth # NoAuth
      /\ IF IsPresigned(req) THEN ~ Expired(age, SignedAt(req), req.auth.expires)
                             ELSE ~ Skewed(age, SignedAt(req))
  <2>1. CASE IsPresigned(req)
    BY <1>1, <2>1, PresignedVerified DEF Verify, IsPresigned, NoAuth
  <2>2. CASE ~ IsPresigned(req)
    BY <1>1, <2>2, HeaderVerified DEF Verify, NoAuth
  <2> QED BY <2>1, <2>2
<1>3. SignedWith(sent, key, offset)
  BY <1>1, <1>2
<1> DEFINE g == Signature(Credentials.secret, req)
<1>4. /\ sent.auth.sig = g /\ g.key[1] = Credentials.secret
      /\ g.date = SignedAt(req) /\ g.request = CanonicalRequest(req)
      /\ g.request.method = req.method /\ g.request.path = req.path
  BY <1>1, <1>2 DEF Signature, CanonicalRequest
<1> HIDE DEF g
<1>5. OurKey
  <2>1. key.access = Credentials.access /\ key.secret = Credentials.secret
    BY <1>1, <1>2, <1>3, <1>4 DEF SignedWith
  <2> QED BY <1>1, <1>2, <2>1, KeyAssumption DEF OurKey
<1>6. req.method = sent.method /\ req.path = sent.path
  BY <1>3, <1>4 DEF SignedWith
<1> DEFINE date == sent.auth.sig.date
<1>7. date = SignedAt(req) /\ (IsPresigned(sent) => date = offset /\ sent.auth.expires \in Int)
  BY <1>3, <1>4, TimeAssumption DEF SignedWith
<1>8. ASSUME date \in -ClockSkew..ClockSkew
      PROVE  age <= 2 * ClockSkew + (IF IsPresigned(sent) THEN sent.auth.expires ELSE 0)
  <2>0. age \in Int /\ date \in Int /\ ClockSkew \in Nat
    BY <1>1, <1>8, TimeAssumption, ClockAssumption
  <2>1. CASE IsPresigned(sent)
    <3>1. sent.auth.expires > 0 /\ age <= date + Duration(sent.auth.expires) + ClockSkew
      BY <1>1, <1>2, <1>7, <2>0, <2>1, DurationBounded DEF Expired, IsPresigned
    <3> QED BY <1>7, <1>8, <2>0, <2>1, <3>1, DurationBounded
  <2>2. CASE ~ IsPresigned(sent)
    <3>1. age - date <= ClockSkew
      BY <1>1, <1>2, <1>7, <2>0, <2>2 DEF Skewed, Abs, IsPresigned
    <3> QED BY <1>8, <2>0, <2>2, <3>1
  <2> QED BY <2>1, <2>2
<1> QED BY <1>2, <1>4, <1>5, <1>6, <1>7, <1>8 DEF VouchedFor

(***************************************************************************)
(* For every set of keys, clocks, operations and expiries, and whatever a  *)
(* proxy changes.                                                          *)
(***************************************************************************)
THEOREM ServedIsVouchedFor == Spec => []VouchedFor
PROOF
<1>1. Init => SignInv
  BY DEF Init, SignInv, SentInv, ArrivedInv, VerifiedInv, Served
<1> QED BY <1>1, SignStep, VerifiedIsVouched, Invariance, PTL DEF Spec

------------------------------------------------------------------------------
(* In a strict total order of a finite set every member has a place of its *)
(* own: the number of members before it, and one.                          *)
LEMMA Ranked ==
  ASSUME NEW D, IsFiniteSet(D), NEW R,
         \A i \in D : <<i, i>> \notin R,
         \A i, j, k \in D : <<i, j>> \in R /\ <<j, k>> \in R => <<i, k>> \in R,
         \A i, j \in D : i = j \/ <<i, j>> \in R \/ <<j, i>> \in R
  PROVE  \E f \in [D -> 1..Cardinality(D)] :
           /\ \A i \in D : Cardinality({j \in D : <<j, i>> \in R}) = f[i] - 1
           /\ \A i, j \in D : f[i] = f[j] => i = j
           /\ \A n \in 1..Cardinality(D) : \E i \in D : f[i] = n
PROOF
<1> DEFINE below(i) == {j \in D : <<j, i>> \in R}
           f == [i \in D |-> Cardinality(below(i)) + 1]
<1>1. PICK N \in Nat : N = Cardinality(D)
  BY FS_CardinalityType
<1>2. ASSUME NEW i \in D PROVE Cardinality(below(i)) \in Nat /\ Cardinality(below(i)) < N
  <2>1. below(i) \in SUBSET D /\ below(i) # D
    OBVIOUS
  <2> HIDE DEF below
  <2> QED BY <1>1, <2>1, FS_Subset, FS_CardinalityType
<1>3. ASSUME NEW i \in D, NEW j \in D, <<i, j>> \in R
      PROVE  Cardinality(below(i)) < Cardinality(below(j))
  <2>1. below(i) \in SUBSET below(j) /\ below(j) \in SUBSET D /\ i \in below(j) /\ i \notin below(i)
    BY <1>3
  <2>2. Cardinality(below(i)) \in Nat /\ Cardinality(below(j)) \in Nat
    BY <1>2
  <2> HIDE DEF below
  <2>3. IsFiniteSet(below(j))
    BY <2>1, FS_Subset
  <2>4. /\ Cardinality(below(i)) <= Cardinality(below(j))
        /\ Cardinality(below(i)) # Cardinality(below(j))
    BY <2>1, <2>3, FS_Subset
  <2> QED BY <2>2, <2>4
<1>4. \A i \in D : f[i] = Cardinality(below(i)) + 1 /\ Cardinality(below(i)) \in Nat
  BY <1>2
<1>5. f \in [D -> 1..N]
  BY <1>2
<1> HIDE DEF f
<1>6. \A i, j \in D : f[i] = f[j] => i = j
  <2>1. SUFFICES ASSUME NEW i \in D, NEW j \in D, f[i] = f[j], i # j PROVE FALSE
    OBVIOUS
  <2>2. Cardinality(below(i)) = Cardinality(below(j))
    BY <1>4, <2>1
  <2>3. <<i, j>> \in R \/ <<j, i>> \in R
    BY <2>1
  <2> HIDE DEF below
  <2> QED BY <1>2, <1>3, <2>2, <2>3
<1>7. f \in Injection(D, 1..N)
  BY <1>5, <1>6 DEF Injection, IsInjective
<1>8. f \in Surjection(D, 1..N)
  <2>1. IsFiniteSet(1..N) /\ Cardinality(1..N) = N
    BY FS_Interval
  <2> QED BY <1>1, <1>7, <2>1, FS_Injection
<1>9. \A n \in 1..N : \E i \in D : f[i] = n
  BY <1>8 DEF Surjection
<1>10. \A i \in D : Cardinality(below(i)) = f[i] - 1
  BY <1>4
<1> QED BY <1>1, <1>5, <1>6, <1>9, <1>10

(* The order of names is one. *)
LEMMA BeforeIsOrder ==
  /\ \A m : ~ Before(m, m)
  /\ \A m, n, p : Before(m, n) /\ Before(n, p) => Before(m, p)
PROOF
<1>1. DOMAIN Names = 1..10
  BY DEF Names
<1>2. \A i, j \in 1..10 : Names[i] = Names[j] => i = j
  BY SMTT(60) DEF Names
<1> HIDE DEF Names
<1> QED BY <1>1, <1>2 DEF Before

(* Distinct names, each of which has its place in the order. *)
Comparable(names) ==
  \A i, j \in DOMAIN names :
    i = j \/ Before(names[i], names[j]) \/ Before(names[j], names[i])

(* The number of names before the one at i. *)
Rank(names, i) == Cardinality({j \in DOMAIN names : Before(names[j], names[i])})

(* sort.Strings of such names. *)
LEMMA SortedNames ==
  ASSUME NEW names, IsFiniteSet(DOMAIN names), Comparable(names)
  PROVE  /\ DOMAIN Sorted(names) = 1..Cardinality(DOMAIN names)
         /\ \A n \in 1..Cardinality(DOMAIN names) :
              Sorted(names)[n] \in DOMAIN names /\ Rank(names, Sorted(names)[n]) = n - 1
         /\ \A i, j \in DOMAIN names : Rank(names, i) = Rank(names, j) => i = j
         /\ \A i \in DOMAIN names : \E n \in 1..Cardinality(DOMAIN names) : Sorted(names)[n] = i
PROOF
<1> DEFINE D == DOMAIN names
           N == Cardinality(D)
           R == {p \in D \X D : Before(names[p[1]], names[p[2]])}
<1>1. \A i, j \in D : <<i, j>> \in R <=> Before(names[i], names[j])
  OBVIOUS
<1>2. ASSUME NEW i \in D PROVE {j \in D : <<j, i>> \in R} = {j \in D : Before(names[j], names[i])}
  BY <1>1
<1>3. /\ \A i \in D : <<i, i>> \notin R
      /\ \A i, j, k \in D : <<i, j>> \in R /\ <<j, k>> \in R => <<i, k>> \in R
      /\ \A i, j \in D : i = j \/ <<i, j>> \in R \/ <<j, i>> \in R
  <2> HIDE DEF R, D
  <2>1. \A i, j \in D : i = j \/ Before(names[i], names[j]) \/ Before(names[j], names[i])
    BY DEF Comparable, D
  <2> QED BY <1>1, <2>1, BeforeIsOrder
<1>4. PICK f \in [D -> 1..N] :
        /\ \A i \in D : Cardinality({j \in D : <<j, i>> \in R}) = f[i] - 1
        /\ \A i, j \in D : f[i] = f[j] => i = j
        /\ \A n \in 1..N : \E i \in D : f[i] = n
  <2> HIDE DEF R
  <2> QED BY <1>3, Ranked
<1>5. \A i \in D : Rank(names, i) = f[i] - 1
  BY <1>2, <1>4 DEF Rank
<1>6. N \in Nat
  BY FS_CardinalityType
<1>7. /\ DOMAIN Sorted(names) = 1..N
      /\ \A n \in 1..N : Sorted(names)[n] = CHOOSE i \in D : Rank(names, i) = n - 1
  BY DEF Sorted, InOrder, Rank
<1> HIDE DEF R, N, D
<1>8. ASSUME NEW n \in 1..N PROVE Sorted(names)[n] \in D /\ Rank(names, Sorted(names)[n]) = n - 1
  <2>1. PICK i \in D : f[i] = n
    BY <1>4
  <2>2. Rank(names, i) = n - 1
    BY <1>5, <2>1
  <2>3. Sorted(names)[n] = CHOOSE j \in D : Rank(names, j) = n - 1
    BY <1>7
  <2> QED BY <2>2, <2>3
<1>9. \A i, j \in D : Rank(names, i) = Rank(names, j) => i = j
  <2>1. ASSUME NEW i \in D, NEW j \in D, Rank(names, i) = Rank(names, j) PROVE i = j
    <3>1. f[i] \in Int /\ f[j] \in Int /\ f[i] - 1 = f[j] - 1
      BY <1>4, <1>5, <1>6, <2>1
    <3> QED BY <1>4, <3>1
  <2> QED BY <2>1
<1>10. ASSUME NEW i \in D PROVE \E n \in 1..N : Sorted(names)[n] = i
  <2>1. f[i] \in 1..N /\ Rank(names, i) = f[i] - 1
    BY <1>4, <1>5
  <2>2. Sorted(names)[f[i]] = i
    BY <1>8, <1>9, <2>1
  <2> QED BY <2>1, <2>2
<1> QED BY <1>7, <1>8, <1>9, <1>10 DEF D, N

(* Parameters that names tell apart. *)
NamesOf(query) == [i \in DOMAIN query |-> query[i][1]]

(* The same number of parameters has its name before one when they stand   *)
(* in the opposite order.                                                  *)
LEMMA RankReversed ==
  ASSUME NEW S, NEW query \in Seq(S), NEW i \in 1..Len(query)
  PROVE  Rank(NamesOf(Reverse(query)), i) = Rank(NamesOf(query), Len(query) + 1 - i)
PROOF
<1>1. PICK L \in Nat : L = Len(query) /\ DOMAIN query = 1..L
  OBVIOUS
<1>2. PICK other : other = Reverse(query)
  OBVIOUS
<1>3. DOMAIN other = 1..L /\ \A j \in 1..L : other[j] = query[L + 1 - j]
  <2>1. other = [j \in 1..L |-> query[(L - j) + 1]]
    BY <1>1, <1>2 DEF Reverse
  <2>2. \A j \in 1..L : (L - j) + 1 = L + 1 - j
    OBVIOUS
  <2> QED BY <2>1, <2>2
<1> DEFINE m == L + 1 - i
           A == {j \in 1..L : Before(query[j][1], query[m][1])}
           B == {j \in 1..L : Before(other[j][1], other[i][1])}
           f == [j \in A |-> L + 1 - j]
<1>4. m \in 1..L /\ other[i] = query[m]
  BY <1>1, <1>3
<1>5. Rank(NamesOf(query), m) = Cardinality(A)
  <2>1. DOMAIN NamesOf(query) = 1..L /\ \A j \in 1..L : NamesOf(query)[j] = query[j][1]
    BY <1>1 DEF NamesOf
  <2>2. {j \in DOMAIN NamesOf(query) : Before(NamesOf(query)[j], NamesOf(query)[m])} = A
    BY <1>4, <2>1
  <2> QED BY <2>2, Zenon DEF Rank
<1>6. Rank(NamesOf(other), i) = Cardinality(B)
  <2>1. DOMAIN NamesOf(other) = 1..L /\ \A j \in 1..L : NamesOf(other)[j] = other[j][1]
    BY <1>3 DEF NamesOf
  <2>2. {j \in DOMAIN NamesOf(other) : Before(NamesOf(other)[j], NamesOf(other)[i])} = B
    BY <1>1, <2>1
  <2> QED BY <2>2, Zenon DEF Rank
<1>7. IsFiniteSet(A)
  <2>1. IsFiniteSet(1..L) /\ A \in SUBSET (1..L)
    BY FS_Interval
  <2> HIDE DEF A
  <2> QED BY <2>1, FS_Subset
<1>8. \A j \in 1..L : L + 1 - j \in 1..L /\ L + 1 - (L + 1 - j) = j
  OBVIOUS
<1>9. \A j \in 1..L : j \in A <=> L + 1 - j \in B
  <2>1. \A j \in 1..L : other[L + 1 - j] = query[j]
    BY <1>3, <1>8
  <2> HIDE DEF m
  <2> QED BY <1>4, <1>8, <2>1
<1>10. A \subseteq 1..L /\ B \subseteq 1..L
  OBVIOUS
<1> HIDE DEF A, B
<1>11. f \in Bijection(A, B)
  <2>1. f \in [A -> B]
    BY <1>9, <1>10
  <2>2. \A j, k \in A : f[j] = f[k] => j = k
    BY <1>10
  <2>3. \A k \in B : \E j \in A : f[j] = k
    <3>1. SUFFICES ASSUME NEW k \in B PROVE \E j \in A : f[j] = k
      OBVIOUS
    <3>2. L + 1 - k \in A
      BY <1>8, <1>9, <1>10
    <3>3. f[L + 1 - k] = k
      BY <1>8, <1>10, <3>2
    <3> QED BY <3>2, <3>3
  <2> HIDE DEF f
  <2> QED BY <2>1, <2>2, <2>3 DEF Bijection, Injection, Surjection, IsInjective
<1>12. Cardinality(A) = Cardinality(B)
  BY <1>7, <1>11, FS_Bijection DEF ExistsBijection
<1> QED BY <1>1, <1>2, <1>5, <1>6, <1>12

(* The canonical query is the same in whatever order the parameters come. *)
LEMMA QueryReversed ==
  ASSUME NEW S, NEW query \in Seq(S), Comparable(NamesOf(query))
  PROVE  CanonicalQuery(Reverse(query)) = CanonicalQuery(query)
PROOF
<1>1. PICK L \in Nat : L = Len(query) /\ DOMAIN query = 1..L
  OBVIOUS
<1>2. PICK other : other = Reverse(query)
  OBVIOUS
<1>3. DOMAIN other = 1..L /\ \A j \in 1..L : other[j] = query[L + 1 - j]
  <2>1. other = [j \in 1..L |-> query[(L - j) + 1]]
    BY <1>1, <1>2 DEF Reverse
  <2>2. \A j \in 1..L : (L - j) + 1 = L + 1 - j
    OBVIOUS
  <2> QED BY <2>1, <2>2
<1>4. \A j \in 1..L : L + 1 - j \in 1..L /\ L + 1 - (L + 1 - j) = j
  OBVIOUS
<1>5. PICK names : names = NamesOf(query)
  OBVIOUS
<1>6. PICK onames : onames = NamesOf(other)
  OBVIOUS
<1>7. /\ DOMAIN names = 1..L /\ \A j \in 1..L : names[j] = query[j][1]
      /\ DOMAIN onames = 1..L /\ \A j \in 1..L : onames[j] = other[j][1]
  BY <1>1, <1>3, <1>5, <1>6 DEF NamesOf
<1>8. Comparable(names) /\ Comparable(onames)
  <2>1. Comparable(names)
    BY <1>5
  <2>2. \A j \in 1..L : onames[j] = names[L + 1 - j]
    BY <1>3, <1>4, <1>7
  <2>3. ASSUME NEW i \in 1..L, NEW j \in 1..L
        PROVE  i = j \/ Before(onames[i], onames[j]) \/ Before(onames[j], onames[i])
    <3>1. PICK a \in 1..L : a = L + 1 - i /\ onames[i] = names[a]
      BY <1>4, <2>2
    <3>2. PICK b \in 1..L : b = L + 1 - j /\ onames[j] = names[b]
      BY <1>4, <2>2
    <3>3. a = b \/ Before(names[a], names[b]) \/ Before(names[b], names[a])
      BY <1>7, <2>1 DEF Comparable
    <3>4. a = b => i = j
      BY <3>1, <3>2
    <3> QED BY <3>1, <3>2, <3>3, <3>4
  <2> QED BY <1>7, <2>1, <2>3 DEF Comparable
<1>9. IsFiniteSet(1..L) /\ Cardinality(1..L) = L
  BY FS_Interval
<1>10. PICK s : s = Sorted(names)
  OBVIOUS
<1>11. PICK t : t = Sorted(onames)
  OBVIOUS
<1>12. /\ DOMAIN s = 1..L
       /\ \A n \in 1..L : s[n] \in 1..L /\ Rank(names, s[n]) = n - 1
       /\ \A i, j \in 1..L : Rank(names, i) = Rank(names, j) => i = j
  <2>1. IsFiniteSet(DOMAIN names) /\ Cardinality(DOMAIN names) = L /\ DOMAIN names = 1..L
    BY <1>7, <1>9
  <2> QED BY <1>8, <1>10, <2>1, SortedNames
<1>13. /\ DOMAIN t = 1..L
       /\ \A n \in 1..L : t[n] \in 1..L /\ Rank(onames, t[n]) = n - 1
  <2>1. IsFiniteSet(DOMAIN onames) /\ Cardinality(DOMAIN onames) = L /\ DOMAIN onames = 1..L
    BY <1>7, <1>9
  <2> QED BY <1>8, <1>11, <2>1, SortedNames
<1>14. \A i \in 1..L : Rank(onames, i) = Rank(names, L + 1 - i)
  BY <1>1, <1>2, <1>5, <1>6, RankReversed
<1>15. ASSUME NEW n \in 1..L PROVE other[t[n]] = query[s[n]]
  <2>1. PICK k \in 1..L : k = t[n]
    BY <1>13
  <2>2. Rank(onames, k) = n - 1 /\ Rank(onames, k) = Rank(names, L + 1 - k)
    BY <1>13, <1>14, <2>1
  <2>3. s[n] = L + 1 - k
    <3>1. L + 1 - k \in 1..L /\ s[n] \in 1..L /\ Rank(names, s[n]) = Rank(names, L + 1 - k)
      BY <1>4, <1>12, <2>2
    <3> QED BY <1>12, <3>1
  <2> QED BY <1>3, <2>1, <2>3
<1>16. CanonicalQuery(other) = [n \in 1..L |-> other[t[n]]]
  BY <1>6, <1>11, <1>13 DEF CanonicalQuery, NamesOf
<1>17. CanonicalQuery(query) = [n \in 1..L |-> query[s[n]]]
  BY <1>5, <1>10, <1>12 DEF CanonicalQuery, NamesOf
<1> QED BY <1>2, <1>15, <1>16, <1>17

(* Every parameter is in the canonical query. *)
LEMMA QueryLength ==
  ASSUME NEW S, NEW query \in Seq(S)
  PROVE  DOMAIN CanonicalQuery(query) = 1..Len(query)
PROOF
<1>1. PICK L \in Nat : L = Len(query) /\ DOMAIN query = 1..L
  OBVIOUS
<1>2. PICK names : names = NamesOf(query)
  OBVIOUS
<1>3. Cardinality(DOMAIN names) = L
  <2>1. DOMAIN names = 1..L
    BY <1>1, <1>2 DEF NamesOf
  <2>2. Cardinality(1..L) = L
    BY FS_Interval
  <2> QED BY <2>1, <2>2
<1>4. DOMAIN Sorted(names) = 1..L
  BY <1>3 DEF Sorted, InOrder
<1> QED BY <1>1, <1>2, <1>4 DEF CanonicalQuery, NamesOf

(* A query that lost a parameter has another canonical form. *)
LEMMA QueryShortened ==
  ASSUME NEW S, NEW query \in Seq(S), NEW i \in DOMAIN query
  PROVE  CanonicalQuery(RemoveAt(query, i)) # CanonicalQuery(query)
PROOF
<1>1. PICK L \in Nat : L = Len(query) /\ i \in 1..L
  OBVIOUS
<1>2. PICK u : u = SubSeq(query, 1, i - 1)
  OBVIOUS
<1>3. PICK w : w = SubSeq(query, i + 1, L)
  OBVIOUS
<1>4. u \in Seq(S) /\ w \in Seq(S) /\ Len(u) = i - 1 /\ Len(w) = L - i
  <2>1. i - 1 \in Int /\ i + 1 \in Int /\ L \in Int /\ \A j \in 1..L : query[j] \in S
    BY <1>1
  <2>2. (\A j \in 1..(i - 1) : query[j] \in S) /\ \A j \in (i + 1)..L : query[j] \in S
    BY <1>1, <2>1
  <2>3. u \in Seq(S) /\ Len(u) = IF 1 <= i - 1 THEN i - 1 - 1 + 1 ELSE 0
    BY <1>2, <2>1, <2>2, SubSeqProperties
  <2>4. w \in Seq(S) /\ Len(w) = IF i + 1 <= L THEN L - (i + 1) + 1 ELSE 0
    BY <1>3, <2>1, <2>2, SubSeqProperties
  <2> QED BY <1>1, <2>3, <2>4
<1>5. RemoveAt(query, i) = u \o w
  BY <1>1, <1>2, <1>3 DEF RemoveAt
<1>6. u \o w \in Seq(S) /\ Len(u \o w) = L - 1
  <2>1. u \o w \in Seq(S) /\ Len(u \o w) = Len(u) + Len(w)
    BY <1>4, ConcatProperties
  <2>2. (i - 1) + (L - i) = L - 1
    BY <1>1
  <2> QED BY <1>4, <2>1, <2>2
<1>7. DOMAIN CanonicalQuery(u \o w) = 1..(L - 1) /\ DOMAIN CanonicalQuery(query) = 1..L
  BY <1>1, <1>6, QueryLength
<1>8. L \in 1..L /\ L \notin 1..(L - 1)
  BY <1>1
<1> QED BY <1>5, <1>7, <1>8

------------------------------------------------------------------------------
(* Positions in their order, when there is no or one. *)
Ordered(P) == InOrder(P, <)

(* No positions, an empty list. *)
LEMMA NoneOrdered == Ordered({}) = <<>>
PROOF
<1>1. 1..Cardinality({}) = {}
  BY FS_EmptySet
<1> QED BY <1>1 DEF Ordered, InOrder

(* One position, a list of it. *)
LEMMA OneOrdered == ASSUME NEW i \in Int PROVE Ordered({i}) = <<i>>
PROOF
<1> DEFINE Place(n) == CHOOSE j \in {i} : Cardinality({k \in {i} : k < j}) = n - 1
<1>1. Cardinality({i}) = 1 /\ Cardinality({}) = 0
  BY FS_Singleton, FS_EmptySet
<1>2. Ordered({i}) = [n \in 1..1 |-> Place(n)]
  BY <1>1 DEF Ordered, InOrder
<1>3. {k \in {i} : k < i} = {}
  OBVIOUS
<1>4. Cardinality({k \in {i} : k < i}) = 1 - 1
  BY <1>1, <1>3
<1>5. Place(1) \in {i}
  BY <1>4
<1> HIDE DEF Place
<1>6. DOMAIN Ordered({i}) = 1..1 /\ Ordered({i})[1] = i
  BY <1>2, <1>5
<1>7. [n \in 1..1 |-> Place(n)] = <<i>>
  BY <1>5
<1> QED BY <1>2, <1>7

(* What the definitions say in these terms. *)
LEMMA CollapseOrdered ==
  ASSUME NEW v
  PROVE  LET words == Ordered({i \in DOMAIN v : v[i] # Blank})
         IN  Collapse(v) = [n \in DOMAIN words |-> v[words[n]]]
BY Zenon DEF Collapse, Ordered, InOrder

Lines(r, name) == Ordered({j \in DOMAIN r.headers : r.headers[j].name = name})

(* The lines of a header, one by one. *)
LEMMA LinesOrdered ==
  ASSUME NEW r, NEW name, name # "host"
  PROVE  /\ DOMAIN HeaderValue(r, name) = DOMAIN Lines(r, name)
         /\ HeaderValue(r, name) = [n \in DOMAIN HeaderValue(r, name) |-> HeaderValue(r, name)[n]]
         /\ \A n \in DOMAIN Lines(r, name) :
              HeaderValue(r, name)[n] = Collapse(r.headers[Lines(r, name)[n]].value)
PROOF
<1> DEFINE lines == Ordered({j \in DOMAIN r.headers : r.headers[j].name = name})
           value == HeaderValue(r, name)
<1>1. value = [n \in DOMAIN lines |-> Collapse(r.headers[lines[n]].value)]
  BY Zenon DEF HeaderValue, Ordered, InOrder
<1> HIDE DEF value, lines
<1>2. /\ DOMAIN value = DOMAIN lines /\ value = [n \in DOMAIN value |-> value[n]]
      /\ \A n \in DOMAIN lines : value[n] = Collapse(r.headers[lines[n]].value)
  BY <1>1
<1> QED BY <1>2 DEF value, lines, Lines

(* A word stays the same with a blank before it. *)
LEMMA CollapseWord ==
  ASSUME NEW w, w # Blank
  PROVE  Collapse(<<w>>) = <<w>> /\ Collapse(<<Blank, w>>) = <<w>>
PROOF
<1>1. PICK v : v = <<w>>
  OBVIOUS
<1>2. PICK b : b = <<Blank, w>>
  OBVIOUS
<1>3. DOMAIN v = 1..1 /\ v[1] = w /\ DOMAIN b = 1..2 /\ b[1] = Blank /\ b[2] = w
  BY <1>1, <1>2
<1>4. {i \in DOMAIN v : v[i] # Blank} = {1} /\ {i \in DOMAIN b : b[i] # Blank} = {2}
  BY <1>3
<1>5. /\ Collapse(v) = [n \in DOMAIN Ordered({1}) |-> v[Ordered({1})[n]]]
      /\ Collapse(b) = [n \in DOMAIN Ordered({2}) |-> b[Ordered({2})[n]]]
  BY <1>4, CollapseOrdered
<1>6. PICK p : p = Ordered({1}) /\ DOMAIN p = 1..1 /\ p[1] = 1
  BY OneOrdered
<1>7. PICK q : q = Ordered({2}) /\ DOMAIN q = 1..1 /\ q[1] = 2
  BY OneOrdered
<1>8. [n \in DOMAIN p |-> v[p[n]]] = <<w>> /\ [n \in DOMAIN q |-> b[q[n]]] = <<w>>
  BY <1>3, <1>6, <1>7
<1> QED BY <1>1, <1>2, <1>5, <1>6, <1>7, <1>8

(* The value of a header that has one line. *)
LEMMA OneLine ==
  ASSUME NEW r, NEW name, name # "host", NEW i \in Int, i \in DOMAIN r.headers,
         \A j \in DOMAIN r.headers : r.headers[j].name = name <=> j = i
  PROVE  HeaderValue(r, name) = <<Collapse(r.headers[i].value)>>
PROOF
<1>1. PICK lines : lines = Lines(r, name)
  OBVIOUS
<1>2. PICK value : value = HeaderValue(r, name)
  OBVIOUS
<1>3. /\ DOMAIN value = DOMAIN lines /\ value = [n \in DOMAIN value |-> value[n]]
      /\ \A n \in DOMAIN lines : value[n] = Collapse(r.headers[lines[n]].value)
  BY <1>1, <1>2, LinesOrdered
<1>4. {j \in DOMAIN r.headers : r.headers[j].name = name} = {i}
  OBVIOUS
<1>5. DOMAIN lines = 1..1 /\ lines[1] = i
  BY <1>1, <1>4, OneOrdered DEF Lines
<1>6. PICK c : c = Collapse(r.headers[i].value)
  OBVIOUS
<1>7. DOMAIN value = 1..1 /\ value[1] = c
  BY <1>3, <1>5, <1>6
<1>8. value = <<c>>
  BY <1>3, <1>7
<1> QED BY <1>2, <1>6, <1>8

(* A header without a line has no value. *)
LEMMA NoLine ==
  ASSUME NEW r, NEW name, name # "host", \A j \in DOMAIN r.headers : r.headers[j].name # name
  PROVE  HeaderValue(r, name) = <<>>
PROOF
<1>1. PICK lines : lines = Lines(r, name)
  OBVIOUS
<1>2. PICK value : value = HeaderValue(r, name)
  OBVIOUS
<1>3. DOMAIN value = DOMAIN lines /\ value = [n \in DOMAIN value |-> value[n]]
  BY <1>1, <1>2, LinesOrdered
<1>4. {j \in DOMAIN r.headers : r.headers[j].name = name} = {}
  OBVIOUS
<1>5. DOMAIN lines = {}
  <2>1. lines = Ordered({})
    BY <1>1, <1>4 DEF Lines
  <2>2. DOMAIN <<>> = {}
    OBVIOUS
  <2> QED BY <2>1, <2>2, NoneOrdered
<1>6. value = <<>>
  BY <1>3, <1>5
<1> QED BY <1>2, <1>6

(* The host, which is no header in Go. *)
LEMMA HostLine ==
  ASSUME NEW r PROVE HeaderValue(r, "host") = IF r.host = None THEN <<>> ELSE <<<<r.host>>>>
BY DEF HeaderValue

(* Requests that agree in all that is signed have the same signature. *)
SignedAlike(q, r) ==
  /\ q.method = r.method /\ q.path = r.path
  /\ CanonicalQuery(q.query) = CanonicalQuery(r.query)
  /\ q.auth.form = r.auth.form /\ q.auth.service = r.auth.service /\ q.auth.date = r.auth.date
  /\ q.auth.names = r.auth.names
  /\ [q.auth EXCEPT !.sig = None] = [r.auth EXCEPT !.sig = None]
  /\ \A i \in DOMAIN r.auth.names :
       HeaderValue(q, r.auth.names[i]) = HeaderValue(r, r.auth.names[i])
  /\ \A name \in {"x-amz-content-sha256", "x-amz-date"} :
       HeaderValue(q, name) = HeaderValue(r, name)

(* That is all the signature is made from. *)
LEMMA SameSignature ==
  ASSUME NEW r, NEW q, SignedAlike(q, r),
         IsFiniteSet(DOMAIN r.auth.names), Comparable(r.auth.names), NEW k
  PROVE  Signature(k, q) = Signature(k, r)
PROOF
<1> USE DEF SignedAlike
<1>1. CanonicalHeaders(q) = CanonicalHeaders(r)
  <2>1. PICK names : names = r.auth.names /\ names = q.auth.names
    OBVIOUS
  <2>2. PICK s : s = Sorted(names)
    OBVIOUS
  <2>3. \A n \in DOMAIN s : s[n] \in DOMAIN names
    BY <2>1, <2>2, SortedNames
  <2>4. \A n \in DOMAIN s : HeaderValue(q, names[s[n]]) = HeaderValue(r, names[s[n]])
    BY <2>1, <2>3
  <2>5. /\ CanonicalHeaders(q) = [n \in DOMAIN s |-> <<names[s[n]], HeaderValue(q, names[s[n]])>>]
        /\ CanonicalHeaders(r) = [n \in DOMAIN s |-> <<names[s[n]], HeaderValue(r, names[s[n]])>>]
    BY <2>1, <2>2, Zenon DEF CanonicalHeaders
  <2> QED BY <2>4, <2>5
<1>2. PayloadHash(q) = PayloadHash(r) /\ (IsPresigned(q) <=> IsPresigned(r))
  BY DEF PayloadHash, IsPresigned
<1>3. SignedAt(q) = SignedAt(r)
  BY <1>2 DEF SignedAt
<1>4. CanonicalRequest(q) = CanonicalRequest(r)
  BY <1>1, <1>2 DEF CanonicalRequest
<1> QED BY <1>3, <1>4 DEF Signature

(* The signature is not part of what is signed. *)
LEMMA SignedFits ==
  ASSUME NEW r, DOMAIN r = Fields, DOMAIN r.auth = DOMAIN NoAuth,
         IsFiniteSet(DOMAIN r.auth.names), Comparable(r.auth.names), NEW k
  PROVE  Signed(r, k).auth.sig = Signature(k, Signed(r, k))
PROOF
<1>1. PICK g : g = Signature(k, r)
  OBVIOUS
<1>2. PICK s : s = Signed(r, k)
  OBVIOUS
<1>3. /\ s.method = r.method /\ s.path = r.path /\ s.query = r.query
      /\ s.host = r.host /\ s.headers = r.headers
      /\ s.auth = [r.auth EXCEPT !.sig = g]
  BY <1>1, <1>2 DEF Signed, Fields
<1>4. PICK a : a = r.auth
  OBVIOUS
<1>5. DOMAIN a = {"form", "access", "service", "date", "expires", "names", "sig"}
  BY <1>4 DEF NoAuth
<1>6. /\ s.auth.form = a.form /\ s.auth.service = a.service /\ s.auth.date = a.date
      /\ s.auth.names = a.names /\ s.auth.sig = g
      /\ [s.auth EXCEPT !.sig = None] = [a EXCEPT !.sig = None]
  BY <1>3, <1>4, <1>5
<1>7. \A name : HeaderValue(s, name) = HeaderValue(r, name)
  BY <1>3 DEF HeaderValue
<1>8. Signature(k, s) = Signature(k, r)
  <2>1. /\ s.auth.form = r.auth.form /\ s.auth.service = r.auth.service
        /\ s.auth.date = r.auth.date /\ s.auth.names = r.auth.names
        /\ [s.auth EXCEPT !.sig = None] = [r.auth EXCEPT !.sig = None]
    BY <1>4, <1>6
  <2>2. CanonicalQuery(s.query) = CanonicalQuery(r.query)
    BY <1>3
  <2>3. \A i \in DOMAIN r.auth.names :
          HeaderValue(s, r.auth.names[i]) = HeaderValue(r, r.auth.names[i])
    BY <1>7
  <2>4. SignedAlike(s, r)
    BY <1>3, <1>7, <2>1, <2>2, <2>3 DEF SignedAlike
  <2> QED BY <2>4, SameSignature
<1> QED BY <1>1, <1>2, <1>6, <1>8

------------------------------------------------------------------------------
(* A line of a request, and what a proxy makes of it. *)
Line(name, word) == [name |-> name, value |-> <<word>>]
Spaced(name, word) == [name |-> name, value |-> <<Blank, word>>]

(* What an SDK signs in a header. *)
HeaderNames == <<"host", "x-amz-content-sha256", "x-amz-date">>

(* The names an SDK signs are in the order of names. *)
LEMMA NamesCompare ==
  /\ IsFiniteSet(DOMAIN HeaderNames) /\ Comparable(HeaderNames)
  /\ IsFiniteSet(DOMAIN <<"host">>) /\ Comparable(<<"host">>)
PROOF
<1>1. DOMAIN HeaderNames = 1..3 /\ DOMAIN <<"host">> = 1..1
  BY DEF HeaderNames
<1>2. IsFiniteSet(1..3) /\ IsFiniteSet(1..1)
  BY FS_Interval, 1 \in Int, 3 \in Int
<1>3. /\ Before("host", "x-amz-content-sha256") /\ Before("host", "x-amz-date")
      /\ Before("x-amz-content-sha256", "x-amz-date")
  <2>1. DOMAIN Names = 1..10 /\ Names[2] = "host" /\ Names[7] = "x-amz-content-sha256"
        /\ Names[8] = "x-amz-date"
    BY DEF Names
  <2> QED BY <2>1 DEF Before
<1>4. /\ HeaderNames[1] = "host" /\ HeaderNames[2] = "x-amz-content-sha256"
      /\ HeaderNames[3] = "x-amz-date"
  BY DEF HeaderNames
<1> HIDE DEF HeaderNames
<1>5. \A i, j \in 1..3 : i = j \/ Before(HeaderNames[i], HeaderNames[j])
                              \/ Before(HeaderNames[j], HeaderNames[i])
  <2>1. \A i \in 1..3 : i = 1 \/ i = 2 \/ i = 3
    OBVIOUS
  <2> QED BY <1>3, <1>4, <2>1
<1>6. Comparable(HeaderNames)
  BY <1>1, <1>5 DEF Comparable
<1>7. Comparable(<<"host">>)
  BY <1>1 DEF Comparable
<1> QED BY <1>1, <1>2, <1>6, <1>7

(* Short lists joined. *)
LEMMA Joined ==
  ASSUME NEW a, NEW b, NEW c
  PROVE  <<a>> \o <<b>> = <<a, b>> /\ <<a>> \o <<b, c>> = <<a, b, c>>
PROOF
<1>1. PICK S : S = {a, b, c}
  OBVIOUS
<1>2. PICK u : u = <<a>> /\ u \in Seq(S) /\ Len(u) = 1 /\ u[1] = a
  <2>1. <<a>> \in Seq(S) /\ Len(<<a>>) = 1
    BY <1>1
  <2>2. <<a>>[1] = a
    OBVIOUS
  <2> QED BY <2>1, <2>2
<1>3. PICK v : v = <<b>> /\ v \in Seq(S) /\ Len(v) = 1 /\ v[1] = b
  <2>1. <<b>> \in Seq(S) /\ Len(<<b>>) = 1
    BY <1>1
  <2>2. <<b>>[1] = b
    OBVIOUS
  <2> QED BY <2>1, <2>2
<1>4. PICK w : w = <<b, c>> /\ w \in Seq(S) /\ Len(w) = 2 /\ w[1] = b /\ w[2] = c
  <2>1. <<b, c>> \in Seq(S) /\ Len(<<b, c>>) = 2
    BY <1>1
  <2>2. <<b, c>>[1] = b /\ <<b, c>>[2] = c
    OBVIOUS
  <2> QED BY <2>1, <2>2
<1>5. /\ u \o v \in Seq(S) /\ Len(u \o v) = 2
      /\ (u \o v)[1] = a /\ (u \o v)[2] = b
  BY <1>2, <1>3, ConcatProperties
<1>6. /\ u \o w \in Seq(S) /\ Len(u \o w) = 3
      /\ (u \o w)[1] = a /\ (u \o w)[2] = b /\ (u \o w)[3] = c
  BY <1>2, <1>4, ConcatProperties
<1>7. ASSUME NEW x, x \in Seq(S), Len(x) = 2, x[1] = a, x[2] = b PROVE x = <<a, b>>
  BY <1>7
<1>8. ASSUME NEW x, x \in Seq(S), Len(x) = 3, x[1] = a, x[2] = b, x[3] = c PROVE x = <<a, b, c>>
  BY <1>8
<1>9. u \o v = <<a, b>>
  BY <1>5, <1>7
<1>10. u \o w = <<a, b, c>>
  BY <1>6, <1>8
<1> QED BY <1>2, <1>3, <1>4, <1>9, <1>10

(* A request signed in its headers. *)
LEMMA SignHeaderIs ==
  ASSUME NEW o, NEW mode, mode # None, NEW k, NEW t,
         NEW s, s = SignHeader(Plain(o, mode), k, t)
  PROVE  /\ DOMAIN s = Fields
         /\ s.method = o.method /\ s.path = o.path /\ s.query = o.query /\ s.host = "bridge"
         /\ s.headers = <<Line("x-amz-content-sha256", mode), Line("x-amz-date", t)>>
         /\ ~ IsPresigned(s) /\ s.auth.access = k.access /\ s.auth.service = "s3"
         /\ s.auth.names = HeaderNames /\ s.auth.sig = Signature(k.secret, s)
PROOF
<1>1. PICK p : p = Plain(o, mode)
  OBVIOUS
<1>2. /\ DOMAIN p = Fields
      /\ p.method = o.method /\ p.path = o.path /\ p.query = o.query /\ p.host = "bridge"
      /\ p.headers = <<Line("x-amz-content-sha256", mode)>>
  BY <1>1 DEF Plain, Fields, Line
<1>3. PICK a : a = [form |-> "header", access |-> k.access, service |-> "s3", date |-> None,
                    expires |-> None, sig |-> None, names |-> HeaderNames]
  OBVIOUS
<1>4. PICK r : r = [p EXCEPT !.auth = a, !.headers = @ \o <<Line("x-amz-date", t)>>]
  OBVIOUS
<1>5. s = Signed(r, k.secret)
  BY <1>1, <1>3, <1>4 DEF SignHeader, HeaderNames, Line
<1>6. /\ DOMAIN r = Fields
      /\ r.method = o.method /\ r.path = o.path /\ r.query = o.query /\ r.host = "bridge"
      /\ r.headers = p.headers \o <<Line("x-amz-date", t)>> /\ r.auth = a
  BY <1>2, <1>4 DEF Fields
<1>7. r.headers = <<Line("x-amz-content-sha256", mode), Line("x-amz-date", t)>>
  BY <1>2, <1>6, Joined
<1>8. /\ DOMAIN r.auth = DOMAIN NoAuth /\ r.auth.names = HeaderNames /\ r.auth.form = "header"
      /\ r.auth.access = k.access /\ r.auth.service = "s3"
  BY <1>3, <1>6 DEF NoAuth
<1>9. s.auth.sig = Signature(k.secret, s)
  BY <1>5, <1>6, <1>8, SignedFits, NamesCompare
<1>10. /\ DOMAIN s = Fields
       /\ s.method = r.method /\ s.path = r.path /\ s.query = r.query /\ s.host = r.host
       /\ s.headers = r.headers
       /\ s.auth = [r.auth EXCEPT !.sig = Signature(k.secret, r)]
  BY <1>5, <1>6 DEF Signed, Fields
<1>11. /\ s.auth.form = "header" /\ s.auth.access = k.access /\ s.auth.service = "s3"
       /\ s.auth.names = HeaderNames
  BY <1>8, <1>10 DEF NoAuth
<1> QED BY <1>6, <1>7, <1>9, <1>10, <1>11 DEF IsPresigned

(* A request signed in its URL. *)
LEMMA PresignURLIs ==
  ASSUME NEW o, NEW k, NEW t, NEW e, NEW s, s = PresignURL(Plain(o, None), k, t, e)
  PROVE  /\ DOMAIN s = Fields
         /\ s.method = o.method /\ s.path = o.path /\ s.query = o.query /\ s.host = "bridge"
         /\ s.headers = <<>>
         /\ IsPresigned(s) /\ s.auth.access = k.access /\ s.auth.service = "s3"
         /\ s.auth.date = t /\ s.auth.expires = e
         /\ s.auth.names = <<"host">> /\ s.auth.sig = Signature(k.secret, s)
PROOF
<1>1. PICK p : p = Plain(o, None)
  OBVIOUS
<1>2. /\ DOMAIN p = Fields
      /\ p.method = o.method /\ p.path = o.path /\ p.query = o.query /\ p.host = "bridge"
      /\ p.headers = <<>>
  BY <1>1 DEF Plain, Fields
<1>3. PICK a : a = [form |-> "presigned", access |-> k.access, service |-> "s3", date |-> t,
                    expires |-> e, names |-> <<"host">>, sig |-> None]
  OBVIOUS
<1>4. PICK r : r = [p EXCEPT !.auth = a]
  OBVIOUS
<1>5. s = Signed(r, k.secret)
  BY <1>1, <1>3, <1>4 DEF PresignURL
<1>6. /\ DOMAIN r = Fields
      /\ r.method = o.method /\ r.path = o.path /\ r.query = o.query /\ r.host = "bridge"
      /\ r.headers = <<>> /\ r.auth = a
  BY <1>2, <1>4 DEF Fields
<1>8. /\ DOMAIN r.auth = DOMAIN NoAuth /\ r.auth.names = <<"host">> /\ r.auth.form = "presigned"
      /\ r.auth.access = k.access /\ r.auth.service = "s3"
      /\ r.auth.date = t /\ r.auth.expires = e
  BY <1>3, <1>6 DEF NoAuth
<1>9. s.auth.sig = Signature(k.secret, s)
  BY <1>5, <1>6, <1>8, SignedFits, NamesCompare
<1>10. /\ DOMAIN s = Fields
       /\ s.method = r.method /\ s.path = r.path /\ s.query = r.query /\ s.host = r.host
       /\ s.headers = r.headers
       /\ s.auth = [r.auth EXCEPT !.sig = Signature(k.secret, r)]
  BY <1>5, <1>6 DEF Signed, Fields
<1>11. /\ s.auth.form = "presigned" /\ s.auth.access = k.access /\ s.auth.service = "s3"
       /\ s.auth.date = t /\ s.auth.expires = e /\ s.auth.names = <<"host">>
  BY <1>8, <1>10 DEF NoAuth
<1> QED BY <1>6, <1>9, <1>10, <1>11 DEF IsPresigned

(* A blank before the word of a line. *)
LEMMA SpacedLine ==
  ASSUME NEW n, NEW v
  PROVE  [Line(n, v) EXCEPT !.value = <<Blank>> \o @] = Spaced(n, v)
PROOF
<1>1. PICK b : b = <<Blank>> \o <<v>> /\ b = <<Blank, v>>
  BY Joined
<1>2. Line(n, v).value = <<v>>
  BY DEF Line
<1>3. [Line(n, v) EXCEPT !.value = <<Blank>> \o @] = [Line(n, v) EXCEPT !.value = b]
  BY <1>1, <1>2
<1>4. [Line(n, v) EXCEPT !.value = b] = Spaced(n, v)
  BY <1>1 DEF Line, Spaced
<1> QED BY <1>3, <1>4

(* What a proxy does, in these terms. *)
LEMMA ForwardedDef ==
  ASSUME NEW s
  PROVE  Forwarded(s) = [s EXCEPT !.query = Reverse(@),
                                  !.headers = <<Spaced("x-forwarded-for", "proxy")>>
                                              \o Reverse(SpacedAll(@))]
BY Zenon DEF Forwarded, Spaced

(* What a proxy makes of the lines of a request that has two, or none. *)
LEMMA ForwardedIs ==
  ASSUME NEW s, DOMAIN s = Fields, NEW q, q = Forwarded(s)
  PROVE  /\ q.method = s.method /\ q.path = s.path /\ q.host = s.host /\ q.auth = s.auth
         /\ q.query = Reverse(s.query)
         /\ s.headers = <<>> => q.headers = <<Spaced("x-forwarded-for", "proxy")>>
         /\ \A m, n, v, w :
              s.headers = <<Line(m, v), Line(n, w)>> =>
                q.headers = <<Spaced("x-forwarded-for", "proxy"), Spaced(n, w), Spaced(m, v)>>
PROOF
<1>1. PICK h : h = s.headers
  OBVIOUS
<1> DEFINE X == SpacedAll(h)
<1>2. /\ q.method = s.method /\ q.path = s.path /\ q.host = s.host /\ q.auth = s.auth
      /\ q.query = Reverse(s.query)
      /\ q.headers = <<Spaced("x-forwarded-for", "proxy")>> \o Reverse(X)
  <2>1. PICK f : f = <<Spaced("x-forwarded-for", "proxy")>> \o Reverse(X)
    OBVIOUS
  <2>2. q = [s EXCEPT !.query = Reverse(@), !.headers = f]
    BY <1>1, <2>1, ForwardedDef, Zenon
  <2>3. /\ q.method = s.method /\ q.path = s.path /\ q.host = s.host /\ q.auth = s.auth
        /\ q.query = Reverse(s.query) /\ q.headers = f
    BY <2>2 DEF Fields
  <2> QED BY <2>1, <2>3
<1>3. ASSUME h = <<>> PROVE q.headers = <<Spaced("x-forwarded-for", "proxy")>>
  <2>1. X = <<>>
    BY <1>3 DEF SpacedAll
  <2>2. Reverse(X) = <<>>
    BY <2>1 DEF Reverse
  <2>3. PICK f : f = Spaced("x-forwarded-for", "proxy")
    OBVIOUS
  <2>4. <<f>> \in Seq({f})
    OBVIOUS
  <2>5. <<f>> \o <<>> = <<f>>
    BY <2>4, ConcatEmptySeq
  <2> QED BY <1>2, <2>2, <2>3, <2>5
<1>4. ASSUME NEW m, NEW n, NEW v, NEW w, h = <<Line(m, v), Line(n, w)>>
      PROVE  q.headers = <<Spaced("x-forwarded-for", "proxy"), Spaced(n, w), Spaced(m, v)>>
  <2>1. PICK a : a = Spaced(m, v)
    OBVIOUS
  <2>2. PICK b : b = Spaced(n, w)
    OBVIOUS
  <2>4. DOMAIN h = 1..2 /\ h[1] = Line(m, v) /\ h[2] = Line(n, w)
    BY <1>4
  <2>5. /\ [h[1] EXCEPT !.value = <<Blank>> \o @] = a
        /\ [h[2] EXCEPT !.value = <<Blank>> \o @] = b
    BY <2>1, <2>2, <2>4, SpacedLine
  <2>6. PICK y : y = X
    OBVIOUS
  <2>7. DOMAIN y = 1..2 /\ y[1] = a /\ y[2] = b
    BY <2>4, <2>5, <2>6 DEF SpacedAll
  <2>8. y = <<a, b>>
    <3>1. y = [i \in 1..2 |-> y[i]]
      BY <2>4, <2>6 DEF SpacedAll
    <3> QED BY <2>7, <3>1
  <2>9. Reverse(<<a, b>>) = <<b, a>>
    BY DEF Reverse
  <2>10. PICK f : f = Spaced("x-forwarded-for", "proxy")
    OBVIOUS
  <2>11. <<f>> \o <<b, a>> = <<f, b, a>>
    BY Joined
  <2> QED BY <1>2, <2>1, <2>2, <2>6, <2>8, <2>9, <2>10, <2>11
<1> QED BY <1>1, <1>2, <1>3, <1>4

(* The values of the two lines an SDK signs, before and behind a proxy. *)
LEMMA SentValues ==
  ASSUME NEW r, NEW v, v # Blank, NEW t, t # Blank,
         \/ r.headers = <<Line("x-amz-content-sha256", v), Line("x-amz-date", t)>>
         \/ r.headers = <<Spaced("x-forwarded-for", "proxy"), Spaced("x-amz-date", t),
                          Spaced("x-amz-content-sha256", v)>>
  PROVE  /\ HeaderValue(r, "x-amz-content-sha256") = <<<<v>>>>
         /\ HeaderValue(r, "x-amz-date") = <<<<t>>>>
PROOF
<1>1. /\ Collapse(<<v>>) = <<v>> /\ Collapse(<<Blank, v>>) = <<v>>
      /\ Collapse(<<t>>) = <<t>> /\ Collapse(<<Blank, t>>) = <<t>>
  BY CollapseWord
<1>2. CASE r.headers = <<Line("x-amz-content-sha256", v), Line("x-amz-date", t)>>
  <2>1. /\ DOMAIN r.headers = 1..2
        /\ r.headers[1].name = "x-amz-content-sha256" /\ r.headers[1].value = <<v>>
        /\ r.headers[2].name = "x-amz-date" /\ r.headers[2].value = <<t>>
    BY <1>2 DEF Line
  <2>2. \A j \in 1..2 : j = 1 \/ j = 2
    OBVIOUS
  <2>3. \A j \in DOMAIN r.headers : r.headers[j].name = "x-amz-content-sha256" <=> j = 1
    BY <2>1, <2>2
  <2>4. \A j \in DOMAIN r.headers : r.headers[j].name = "x-amz-date" <=> j = 2
    BY <2>1, <2>2
  <2>5. HeaderValue(r, "x-amz-content-sha256") = <<Collapse(r.headers[1].value)>>
    <3>1. 1 \in DOMAIN r.headers /\ "x-amz-content-sha256" # "host"
      BY <2>1
    <3> QED BY <2>3, <3>1, OneLine
  <2>6. HeaderValue(r, "x-amz-date") = <<Collapse(r.headers[2].value)>>
    <3>1. 2 \in DOMAIN r.headers /\ "x-amz-date" # "host"
      BY <2>1
    <3> QED BY <2>4, <3>1, OneLine
  <2> QED BY <1>1, <2>1, <2>5, <2>6
<1>3. CASE r.headers = <<Spaced("x-forwarded-for", "proxy"), Spaced("x-amz-date", t),
                         Spaced("x-amz-content-sha256", v)>>
  <2>1. /\ DOMAIN r.headers = 1..3 /\ r.headers[1].name = "x-forwarded-for"
        /\ r.headers[3].name = "x-amz-content-sha256" /\ r.headers[3].value = <<Blank, v>>
        /\ r.headers[2].name = "x-amz-date" /\ r.headers[2].value = <<Blank, t>>
    BY <1>3 DEF Spaced
  <2>2. \A j \in 1..3 : j = 1 \/ j = 2 \/ j = 3
    OBVIOUS
  <2>3. \A j \in DOMAIN r.headers : r.headers[j].name = "x-amz-content-sha256" <=> j = 3
    BY <2>1, <2>2
  <2>4. \A j \in DOMAIN r.headers : r.headers[j].name = "x-amz-date" <=> j = 2
    BY <2>1, <2>2
  <2>5. HeaderValue(r, "x-amz-content-sha256") = <<Collapse(r.headers[3].value)>>
    <3>1. 3 \in DOMAIN r.headers /\ "x-amz-content-sha256" # "host"
      BY <2>1
    <3> QED BY <2>3, <3>1, OneLine
  <2>6. HeaderValue(r, "x-amz-date") = <<Collapse(r.headers[2].value)>>
    <3>1. 2 \in DOMAIN r.headers /\ "x-amz-date" # "host"
      BY <2>1
    <3> QED BY <2>4, <3>1, OneLine
  <2> QED BY <1>1, <2>1, <2>5, <2>6
<1> QED BY <1>2, <1>3

(* A presigned request has neither, and no proxy adds one. *)
LEMMA NoValues ==
  ASSUME NEW r, r.headers = <<>> \/ r.headers = <<Spaced("x-forwarded-for", "proxy")>>
  PROVE  /\ HeaderValue(r, "x-amz-content-sha256") = <<>>
         /\ HeaderValue(r, "x-amz-date") = <<>>
PROOF
<1>1. \A j \in DOMAIN r.headers : r.headers[j].name = "x-forwarded-for"
  <2>1. CASE r.headers = <<>>
    BY <2>1
  <2>2. CASE r.headers = <<Spaced("x-forwarded-for", "proxy")>>
    BY <2>2 DEF Spaced
  <2> QED BY <2>1, <2>2
<1>2. ASSUME NEW name, name # "host", name # "x-forwarded-for" PROVE HeaderValue(r, name) = <<>>
  BY <1>1, <1>2, NoLine
<1> QED BY <1>2

(* A request of an operation, whose parameters come in whatever order. *)
LEMMA SameQuery ==
  ASSUME NEW o \in Operations
  PROVE  CanonicalQuery(Reverse(o.query)) = CanonicalQuery(o.query)
PROOF
<1>1. PICK query \in Seq(STRING \X STRING) : query = o.query
  BY OperationAssumption
<1>2. \A i, j \in DOMAIN query :
        i = j \/ Before(query[i][1], query[j][1]) \/ Before(query[j][1], query[i][1])
  BY <1>1, OperationAssumption
<1>3. Comparable(NamesOf(query))
  BY <1>2 DEF Comparable, NamesOf
<1> QED BY <1>1, <1>3, QueryReversed

(* A header-signed request as it arrives with nothing changed that counts. *)
LEMMA HeaderArrives ==
  ASSUME NEW o \in Operations, NEW mode \in Modes, NEW k, NEW t \in Offsets,
         NEW s, s = SignHeader(Plain(o, mode), k, t), NEW q \in {s, Forwarded(s)},
         None # "bridge"
  PROVE  /\ ~ IsPresigned(q) /\ q.auth = s.auth
         /\ HeaderValue(q, "x-amz-content-sha256") = <<<<mode>>>>
         /\ SignedAt(q) = t /\ Present(q)
         /\ q.auth.sig = Signature(k.secret, q)
PROOF
<1>1. mode # None /\ mode # Blank /\ t # Blank /\ t # None
  BY OperationAssumption
<1>2. /\ DOMAIN s = Fields
      /\ s.method = o.method /\ s.path = o.path /\ s.query = o.query /\ s.host = "bridge"
      /\ s.headers = <<Line("x-amz-content-sha256", mode), Line("x-amz-date", t)>>
      /\ ~ IsPresigned(s) /\ s.auth.names = HeaderNames /\ s.auth.sig = Signature(k.secret, s)
  BY <1>1, SignHeaderIs
<1>3. PICK f : f = Forwarded(s)
  OBVIOUS
<1>4. /\ f.method = s.method /\ f.path = s.path /\ f.host = s.host /\ f.auth = s.auth
      /\ f.query = Reverse(s.query)
      /\ f.headers = <<Spaced("x-forwarded-for", "proxy"), Spaced("x-amz-date", t),
                       Spaced("x-amz-content-sha256", mode)>>
  BY <1>2, <1>3, ForwardedIs
<1>5. /\ q.method = s.method /\ q.path = s.path /\ q.host = "bridge" /\ q.auth = s.auth
      /\ CanonicalQuery(q.query) = CanonicalQuery(s.query)
  BY <1>2, <1>3, <1>4, SameQuery
<1>6. /\ HeaderValue(s, "x-amz-content-sha256") = <<<<mode>>>>
      /\ HeaderValue(s, "x-amz-date") = <<<<t>>>>
  BY <1>1, <1>2, SentValues
<1>7. /\ HeaderValue(q, "x-amz-content-sha256") = <<<<mode>>>>
      /\ HeaderValue(q, "x-amz-date") = <<<<t>>>>
  <2>1. \/ q.headers = <<Line("x-amz-content-sha256", mode), Line("x-amz-date", t)>>
        \/ q.headers = <<Spaced("x-forwarded-for", "proxy"), Spaced("x-amz-date", t),
                         Spaced("x-amz-content-sha256", mode)>>
    BY <1>2, <1>3, <1>4
  <2> QED BY <1>1, <2>1, SentValues
<1>8. HeaderValue(q, "host") = <<<<"bridge">>>> /\ HeaderValue(s, "host") = <<<<"bridge">>>>
  BY <1>2, <1>5, HostLine
<1>9. \A i \in DOMAIN HeaderNames :
        /\ HeaderValue(q, HeaderNames[i]) = HeaderValue(s, HeaderNames[i])
        /\ HeaderValue(q, HeaderNames[i]) # <<>>
  <2>1. DOMAIN HeaderNames = 1..3 /\ HeaderNames[1] = "host"
        /\ HeaderNames[2] = "x-amz-content-sha256" /\ HeaderNames[3] = "x-amz-date"
    BY DEF HeaderNames
  <2>2. \A i \in 1..3 : i = 1 \/ i = 2 \/ i = 3
    OBVIOUS
  <2>3. <<<<"bridge">>>> # <<>> /\ <<<<mode>>>> # <<>> /\ <<<<t>>>> # <<>>
    OBVIOUS
  <2> QED BY <1>6, <1>7, <1>8, <2>1, <2>2, <2>3
<1>10. Signature(k.secret, q) = Signature(k.secret, s)
  <2>1. [q.auth EXCEPT !.sig = None] = [s.auth EXCEPT !.sig = None]
    BY <1>5
  <2>2. \A name \in {"x-amz-content-sha256", "x-amz-date"} :
          HeaderValue(q, name) = HeaderValue(s, name)
    BY <1>6, <1>7
  <2>3. \A i \in DOMAIN s.auth.names :
          HeaderValue(q, s.auth.names[i]) = HeaderValue(s, s.auth.names[i])
    BY <1>2, <1>9
  <2>4. IsFiniteSet(DOMAIN s.auth.names) /\ Comparable(s.auth.names)
    BY <1>2, NamesCompare
  <2>5. /\ q.auth.form = s.auth.form /\ q.auth.service = s.auth.service
        /\ q.auth.date = s.auth.date /\ q.auth.names = s.auth.names
    BY <1>5
  <2>6. q.method = s.method /\ q.path = s.path /\ CanonicalQuery(q.query) = CanonicalQuery(s.query)
    BY <1>5
  <2>7. SignedAlike(q, s)
    BY <2>1, <2>2, <2>3, <2>5, <2>6 DEF SignedAlike
  <2> QED BY <2>4, <2>7, SameSignature
<1>11. Present(q)
  BY <1>2, <1>5, <1>9 DEF Present
<1>12. ~ IsPresigned(q)
  BY <1>2, <1>5 DEF IsPresigned
<1>13. SignedAt(q) = t
  BY <1>7, <1>12 DEF SignedAt
<1> QED BY <1>2, <1>5, <1>7, <1>10, <1>11, <1>12, <1>13

(* The same of a presigned request. *)
LEMMA PresignedArrives ==
  ASSUME NEW o \in Operations, NEW k, NEW t, NEW e,
         NEW s, s = PresignURL(Plain(o, None), k, t, e), NEW q \in {s, Forwarded(s)},
         None # "bridge"
  PROVE  /\ IsPresigned(q) /\ q.auth = s.auth /\ SignedAt(q) = t /\ Present(q)
         /\ q.auth.sig = Signature(k.secret, q)
PROOF
<1>2. /\ DOMAIN s = Fields
      /\ s.method = o.method /\ s.path = o.path /\ s.query = o.query /\ s.host = "bridge"
      /\ s.headers = <<>> /\ s.auth.date = t
      /\ IsPresigned(s) /\ s.auth.names = <<"host">> /\ s.auth.sig = Signature(k.secret, s)
  BY PresignURLIs
<1>3. PICK f : f = Forwarded(s)
  OBVIOUS
<1>4. /\ f.method = s.method /\ f.path = s.path /\ f.host = s.host /\ f.auth = s.auth
      /\ f.query = Reverse(s.query)
      /\ f.headers = <<Spaced("x-forwarded-for", "proxy")>>
  BY <1>2, <1>3, ForwardedIs
<1>5. /\ q.method = s.method /\ q.path = s.path /\ q.host = "bridge" /\ q.auth = s.auth
      /\ CanonicalQuery(q.query) = CanonicalQuery(s.query)
  BY <1>2, <1>3, <1>4, SameQuery
<1>6. /\ HeaderValue(s, "x-amz-content-sha256") = <<>> /\ HeaderValue(s, "x-amz-date") = <<>>
      /\ HeaderValue(q, "x-amz-content-sha256") = <<>> /\ HeaderValue(q, "x-amz-date") = <<>>
  <2>1. q.headers = <<>> \/ q.headers = <<Spaced("x-forwarded-for", "proxy")>>
    BY <1>2, <1>3, <1>4
  <2> QED BY <1>2, <2>1, NoValues
<1>8. HeaderValue(q, "host") = <<<<"bridge">>>> /\ HeaderValue(s, "host") = <<<<"bridge">>>>
  BY <1>2, <1>5, HostLine
<1>9. /\ \A i \in DOMAIN s.auth.names : s.auth.names[i] = "host"
      /\ <<<<"bridge">>>> # <<>>
  BY <1>2
<1>10. Signature(k.secret, q) = Signature(k.secret, s)
  <2>1. [q.auth EXCEPT !.sig = None] = [s.auth EXCEPT !.sig = None]
    BY <1>5
  <2>2. \A name \in {"x-amz-content-sha256", "x-amz-date"} :
          HeaderValue(q, name) = HeaderValue(s, name)
    BY <1>6
  <2>3. \A i \in DOMAIN s.auth.names :
          HeaderValue(q, s.auth.names[i]) = HeaderValue(s, s.auth.names[i])
    BY <1>8, <1>9
  <2>4. IsFiniteSet(DOMAIN s.auth.names) /\ Comparable(s.auth.names)
    BY <1>2, NamesCompare
  <2>5. /\ q.auth.form = s.auth.form /\ q.auth.service = s.auth.service
        /\ q.auth.date = s.auth.date /\ q.auth.names = s.auth.names
    BY <1>5
  <2>6. q.method = s.method /\ q.path = s.path /\ CanonicalQuery(q.query) = CanonicalQuery(s.query)
    BY <1>5
  <2>7. SignedAlike(q, s)
    BY <2>1, <2>2, <2>3, <2>5, <2>6 DEF SignedAlike
  <2> QED BY <2>4, <2>7, SameSignature
<1>11. Present(q)
  BY <1>5, <1>8, <1>9 DEF Present
<1>12. IsPresigned(q)
  BY <1>2, <1>5 DEF IsPresigned
<1>13. SignedAt(q) = t
  BY <1>2, <1>5, <1>12 DEF SignedAt
<1> QED BY <1>2, <1>5, <1>10, <1>11, <1>12, <1>13

(* A list of checks that all hold. *)
LEMMA AllHold ==
  ASSUME NEW checks, \A i \in DOMAIN checks : checks[i].holds
  PROVE  FirstFailing(checks) = "ok"
BY DEF FirstFailing

(* A check whose condition holds. *)
LEMMA Passing == ASSUME NEW h, h, NEW c PROVE Check(h, c).holds
BY DEF Check

(* What VerifyHeader does not refuse. *)
LEMMA HeaderPasses ==
  ASSUME NEW r, NEW now, r.auth.sig # None, r.auth.access = Credentials.access,
         r.auth.service = "s3", SignedAt(r) # None, ~ Skewed(now, SignedAt(r)),
         HeaderValue(r, "x-amz-content-sha256") # <<>>, Present(r),
         r.auth.sig = Signature(Credentials.secret, r)
  PROVE  VerifyHeader(r, now) = "ok"
PROOF
<1>1. PICK c1 : c1 = Check(r.auth.sig # None, "AccessDenied") /\ c1.holds
  BY Passing
<1>2. PICK c2 : c2 = Check(r.auth.access = Credentials.access, "InvalidAccessKeyId") /\ c2.holds
  BY Passing
<1>3. PICK c3 : c3 = Check(r.auth.service = "s3", "InvalidArgument") /\ c3.holds
  BY Passing
<1>4. PICK c4 : c4 = Check(SignedAt(r) # None, "AccessDenied") /\ c4.holds
  BY Passing
<1>5. PICK c5 : c5 = Check(SignedAt(r) # None => ~Skewed(now, SignedAt(r)),
                           "RequestTimeTooSkewed") /\ c5.holds
  BY Passing
<1>6. PICK c6 : c6 = Check(HeaderValue(r, "x-amz-content-sha256") # <<>>, "AccessDenied")
                /\ c6.holds
  BY Passing
<1>7. PICK c7 : c7 = Check(Present(r), "InvalidArgument") /\ c7.holds
  BY Passing
<1>8. PICK c8 : c8 = Check(Present(r) => r.auth.sig = Signature(Credentials.secret, r),
                           "SignatureDoesNotMatch") /\ c8.holds
  BY Passing
<1>9. PICK s : s = <<c1>> \o <<c2, c3>> \o <<c4, c5, c6>> \o <<c7, c8>>
  OBVIOUS
<1>10. VerifyHeader(r, now) = FirstFailing(s)
  BY <1>1, <1>2, <1>3, <1>4, <1>5, <1>6, <1>7, <1>8, <1>9, Zenon
     DEF VerifyHeader, ScopeChecks, SignatureChecks
<1>11. /\ DOMAIN s = 1..8
       /\ s[1] = c1 /\ s[2] = c2 /\ s[3] = c3 /\ s[4] = c4
       /\ s[5] = c5 /\ s[6] = c6 /\ s[7] = c7 /\ s[8] = c8
  BY <1>9, Checks8
<1>12. \A i \in 1..8 : i = 1 \/ i = 2 \/ i = 3 \/ i = 4 \/ i = 5 \/ i = 6 \/ i = 7 \/ i = 8
  OBVIOUS
<1>13. \A i \in DOMAIN s : s[i].holds
  BY <1>1, <1>2, <1>3, <1>4, <1>5, <1>6, <1>7, <1>8, <1>11, <1>12
<1> QED BY <1>10, <1>13, AllHold

(* The same of VerifyPresigned. *)
LEMMA PresignedPasses ==
  ASSUME NEW r, NEW now, r.auth.access = Credentials.access, r.auth.service = "s3",
         ~ Expired(now, SignedAt(r), r.auth.expires), Present(r),
         r.auth.sig = Signature(Credentials.secret, r)
  PROVE  VerifyPresigned(r, now) = "ok"
PROOF
<1>1. PICK c1 : c1 = Check(r.auth.access = Credentials.access, "InvalidAccessKeyId") /\ c1.holds
  BY Passing
<1>2. PICK c2 : c2 = Check(r.auth.service = "s3", "InvalidArgument") /\ c2.holds
  BY Passing
<1>3. PICK c3 : c3 = Check(~Expired(now, SignedAt(r), r.auth.expires), "AccessDenied") /\ c3.holds
  BY Passing
<1>4. PICK c4 : c4 = Check(Present(r), "InvalidArgument") /\ c4.holds
  BY Passing
<1>5. PICK c5 : c5 = Check(Present(r) => r.auth.sig = Signature(Credentials.secret, r),
                           "SignatureDoesNotMatch") /\ c5.holds
  BY Passing
<1>6. PICK s : s = <<c1, c2>> \o <<c3>> \o <<c4, c5>>
  OBVIOUS
<1>7. VerifyPresigned(r, now) = FirstFailing(s)
  BY <1>1, <1>2, <1>3, <1>4, <1>5, <1>6, Zenon DEF VerifyPresigned, ScopeChecks, SignatureChecks
<1>8. /\ DOMAIN s = 1..5
      /\ s[1] = c1 /\ s[2] = c2 /\ s[3] = c3 /\ s[4] = c4 /\ s[5] = c5
  BY <1>6, Checks5
<1>9. \A i \in 1..5 : i = 1 \/ i = 2 \/ i = 3 \/ i = 4 \/ i = 5
  OBVIOUS
<1>10. \A i \in DOMAIN s : s[i].holds
  BY <1>1, <1>2, <1>3, <1>4, <1>5, <1>8, <1>9
<1> QED BY <1>7, <1>10, AllHold

------------------------------------------------------------------------------
(* The switch looks at the method, the path and the names of parameters. *)
LEMMA SameDispatch ==
  ASSUME NEW q, NEW r, q.method = r.method, q.path = r.path, Parameters(q) = Parameters(r)
  PROVE  Dispatch(q) = Dispatch(r)
PROOF
<1>1. \A c : Matches(c, q) <=> Matches(c, r)
  BY DEF Matches
<1>2. Fitting(q) = Fitting(r)
  BY <1>1 DEF Fitting
<1> QED BY <1>2, Zenon DEF Dispatch

(* However a request of an operation is signed and forwarded, the switch    *)
(* picks the same handler.                                                 *)
LEMMA DispatchAsPlain ==
  ASSUME NEW o \in Operations, NEW s, DOMAIN s = Fields,
         s.method = o.method, s.path = o.path, s.query = o.query, NEW q \in {s, Forwarded(s)}
  PROVE  Dispatch(q) = Dispatch(Plain(o, None)) /\ q.path = o.path
PROOF
<1>1. PICK query \in Seq(STRING \X STRING) : query = o.query
  BY OperationAssumption
<1>2. PICK p : p = Plain(o, None)
  OBVIOUS
<1>3. p.method = o.method /\ p.path = o.path /\ p.query = query
  BY <1>1, <1>2 DEF Plain
<1>4. /\ q.method = o.method /\ q.path = o.path
      /\ q.query = query \/ q.query = Reverse(query)
  <2>1. CASE q = s
    BY <1>1, <2>1
  <2>2. CASE q = Forwarded(s)
    BY <1>1, <2>2, ForwardedIs
  <2> QED BY <2>1, <2>2
<1>5. PICK L \in Nat : L = Len(query) /\ DOMAIN query = 1..L
  OBVIOUS
<1>6. PICK u : u = Reverse(query)
  OBVIOUS
<1>7. DOMAIN u = 1..L /\ \A i \in 1..L : u[i] = query[L - i + 1]
  BY <1>5, <1>6 DEF Reverse
<1>8. {u[i][1] : i \in DOMAIN u} = {query[i][1] : i \in DOMAIN query}
  <2>1. ASSUME NEW i \in 1..L PROVE \E j \in 1..L : u[i][1] = query[j][1]
    <3>1. L - i + 1 \in 1..L
      OBVIOUS
    <3> QED BY <1>7, <3>1
  <2>2. ASSUME NEW i \in 1..L PROVE \E j \in 1..L : query[i][1] = u[j][1]
    <3>1. L - i + 1 \in 1..L /\ L - (L - i + 1) + 1 = i
      OBVIOUS
    <3> QED BY <1>7, <3>1
  <2>3. {u[i][1] : i \in 1..L} = {query[i][1] : i \in 1..L}
    <3> DEFINE A == {u[i][1] : i \in 1..L}
               B == {query[i][1] : i \in 1..L}
    <3>1. ASSUME NEW x \in A PROVE x \in B
      <4>1. PICK i \in 1..L : x = u[i][1]
        OBVIOUS
      <4>2. PICK j \in 1..L : u[i][1] = query[j][1]
        BY <2>1
      <4> QED BY <4>1, <4>2
    <3>2. ASSUME NEW x \in B PROVE x \in A
      <4>1. PICK i \in 1..L : x = query[i][1]
        OBVIOUS
      <4>2. PICK j \in 1..L : query[i][1] = u[j][1]
        BY <2>2
      <4> QED BY <4>1, <4>2
    <3> HIDE DEF A, B
    <3>3. A = B
      BY <3>1, <3>2
    <3> QED BY <3>3 DEF A, B
  <2> QED BY <1>5, <1>7, <2>3
<1>9. Parameters(q) = Parameters(p)
  BY <1>3, <1>4, <1>6, <1>8 DEF Parameters
<1> QED BY <1>2, <1>3, <1>4, <1>9, SameDispatch

(* Requests with the same canonical headers have the same signed ones. *)
LEMMA SameHeader ==
  ASSUME NEW q, NEW r, NEW names, q.auth.names = names, r.auth.names = names,
         IsFiniteSet(DOMAIN names), Comparable(names), NEW i \in DOMAIN names,
         CanonicalHeaders(q) = CanonicalHeaders(r)
  PROVE  HeaderValue(q, names[i]) = HeaderValue(r, names[i])
PROOF
<1>1. PICK s : s = Sorted(names)
  OBVIOUS
<1>2. PICK n \in DOMAIN s : s[n] = i
  BY <1>1, SortedNames
<1>3. /\ CanonicalHeaders(q) = [m \in DOMAIN s |-> <<names[s[m]], HeaderValue(q, names[s[m]])>>]
      /\ CanonicalHeaders(r) = [m \in DOMAIN s |-> <<names[s[m]], HeaderValue(r, names[s[m]])>>]
  BY <1>1, Zenon DEF CanonicalHeaders
<1>4. /\ CanonicalHeaders(q)[n] = <<names[i], HeaderValue(q, names[i])>>
      /\ CanonicalHeaders(r)[n] = <<names[i], HeaderValue(r, names[i])>>
  BY <1>2, <1>3
<1>5. <<names[i], HeaderValue(q, names[i])>> = <<names[i], HeaderValue(r, names[i])>>
  BY <1>4
<1> QED BY <1>5

(* What is left of a list without one of its elements. *)
LEMMA Removed ==
  ASSUME NEW S, NEW h \in Seq(S), NEW i \in 1..Len(h)
  PROVE  /\ DOMAIN RemoveAt(h, i) = 1..(Len(h) - 1)
         /\ \A n \in 1..(Len(h) - 1) : RemoveAt(h, i)[n] = IF n < i THEN h[n] ELSE h[n + 1]
PROOF
<1>1. PICK L \in Nat : L = Len(h) /\ i \in 1..L
  OBVIOUS
<1>2. PICK u : u = SubSeq(h, 1, i - 1)
  OBVIOUS
<1>3. PICK w : w = SubSeq(h, i + 1, L)
  OBVIOUS
<1>4. i - 1 \in Int /\ i + 1 \in Int /\ L \in Int /\ \A j \in 1..L : h[j] \in S
  BY <1>1
<1>5. (\A j \in 1..(i - 1) : h[j] \in S) /\ \A j \in (i + 1)..L : h[j] \in S
  BY <1>1, <1>4
<1>6. /\ u \in Seq(S) /\ Len(u) = IF 1 <= i - 1 THEN i - 1 - 1 + 1 ELSE 0
      /\ \A n \in 1..(i - 1 - 1 + 1) : u[n] = h[1 + n - 1]
  BY <1>2, <1>4, <1>5, SubSeqProperties
<1>7. /\ w \in Seq(S) /\ Len(w) = IF i + 1 <= L THEN L - (i + 1) + 1 ELSE 0
      /\ \A n \in 1..(L - (i + 1) + 1) : w[n] = h[i + 1 + n - 1]
  BY <1>3, <1>4, <1>5, SubSeqProperties
<1>8. Len(u) = i - 1 /\ Len(w) = L - i
  BY <1>1, <1>6, <1>7
<1>9. PICK x : x = u \o w
  OBVIOUS
<1>10. /\ x \in Seq(S) /\ Len(x) = Len(u) + Len(w)
       /\ \A n \in 1..Len(u) + Len(w) : x[n] = IF n <= Len(u) THEN u[n] ELSE w[n - Len(u)]
  BY <1>6, <1>7, <1>9, ConcatProperties
<1>11. DOMAIN x = 1..(L - 1)
  BY <1>1, <1>8, <1>10
<1>12. ASSUME NEW n \in 1..(L - 1) PROVE x[n] = IF n < i THEN h[n] ELSE h[n + 1]
  <2>1. x[n] = IF n <= i - 1 THEN u[n] ELSE w[n - (i - 1)]
    BY <1>1, <1>8, <1>10
  <2>2. CASE n < i
    <3>1. n \in 1..(i - 1 - 1 + 1) /\ n <= i - 1 /\ 1 + n - 1 = n
      BY <1>1, <2>2
    <3> QED BY <1>6, <2>1, <2>2, <3>1
  <2>3. CASE ~ (n < i)
    <3>1. PICK m \in 1..(L - (i + 1) + 1) : m = n - (i - 1) /\ i + 1 + m - 1 = n + 1
      BY <1>1, <2>3
    <3>2. ~ (n <= i - 1)
      BY <1>1, <2>3
    <3> QED BY <1>7, <2>1, <2>3, <3>1, <3>2
  <2> QED BY <2>2, <2>3
<1>13. RemoveAt(h, i) = x
  BY <1>1, <1>2, <1>3, <1>9 DEF RemoveAt
<1> QED BY <1>1, <1>11, <1>12, <1>13

(* What a proxy that is set up wrong changes. *)
LEMMA MangledIs ==
  ASSUME NEW s, DOMAIN s = Fields, NEW q \in Mangled(s)
  PROVE  /\ q.auth = s.auth
         /\ \/ q.host \in {"internal", None}
            \/ q.path = [s.path EXCEPT !.bucket = "prefix"]
            \/ q.method # s.method
            \/ \E i \in DOMAIN s.query : q.query = RemoveAt(s.query, i)
            \/ /\ q.query = s.query
               /\ \E i \in DOMAIN s.headers : q.headers = RemoveAt(s.headers, i)
PROOF
<1> USE DEF Fields
<1>1. CASE q = [s EXCEPT !.host = "internal"] \/ q = [s EXCEPT !.host = None]
  BY <1>1
<1>2. CASE q = [s EXCEPT !.path.bucket = "prefix"]
  BY <1>2
<1>3. CASE q \in {[s EXCEPT !.method = "GET"] : m \in {"HEAD"} \cap {s.method}}
  BY <1>3
<1>4. CASE q \in {[s EXCEPT !.query = RemoveAt(@, i)] : i \in DOMAIN s.query}
  <2>1. PICK i \in DOMAIN s.query : q = [s EXCEPT !.query = RemoveAt(@, i)]
    BY <1>4
  <2>2. PICK x : x = RemoveAt(s.query, i)
    OBVIOUS
  <2>3. q = [s EXCEPT !.query = x]
    BY <2>1, <2>2
  <2> QED BY <2>2, <2>3
<1>5. CASE q \in {[s EXCEPT !.headers = RemoveAt(@, i)] : i \in DOMAIN s.headers}
  <2>1. PICK i \in DOMAIN s.headers : q = [s EXCEPT !.headers = RemoveAt(@, i)]
    BY <1>5
  <2>2. PICK x : x = RemoveAt(s.headers, i)
    OBVIOUS
  <2>3. q = [s EXCEPT !.headers = x]
    BY <2>1, <2>2
  <2> QED BY <2>2, <2>3
<1> QED BY <1>1, <1>2, <1>3, <1>4, <1>5, Zenon DEF Mangled

(* None of it goes unnoticed when the signature is compared. *)
LEMMA MangledShows ==
  ASSUME NEW o \in Operations, NEW s, DOMAIN s = Fields,
         s.path = o.path, s.query = o.query, s.host = "bridge", None # "bridge",
         IsFiniteSet(DOMAIN s.auth.names), Comparable(s.auth.names),
         1 \in DOMAIN s.auth.names, s.auth.names[1] = "host",
         NEW q \in Mangled(s), CanonicalRequest(q) = CanonicalRequest(s)
  PROVE  q.auth = s.auth /\ \E i \in DOMAIN s.headers : q.headers = RemoveAt(s.headers, i)
PROOF
<1>1. /\ q.auth = s.auth
      /\ \/ q.host \in {"internal", None}
         \/ q.path = [s.path EXCEPT !.bucket = "prefix"]
         \/ q.method # s.method
         \/ \E i \in DOMAIN s.query : q.query = RemoveAt(s.query, i)
         \/ /\ q.query = s.query
            /\ \E i \in DOMAIN s.headers : q.headers = RemoveAt(s.headers, i)
  BY MangledIs
<1>2. /\ q.method = s.method /\ q.path = s.path
      /\ CanonicalQuery(q.query) = CanonicalQuery(s.query)
      /\ CanonicalHeaders(q) = CanonicalHeaders(s)
  BY DEF CanonicalRequest
<1>3. HeaderValue(q, "host") = HeaderValue(s, "host")
  BY <1>1, <1>2, SameHeader
<1>4. HeaderValue(s, "host") = <<<<"bridge">>>>
  BY HostLine
<1>5. q.host = "bridge"
  <2>1. q.host # None
    <3>1. q.host = None => HeaderValue(q, "host") = <<>>
      BY HostLine
    <3>2. <<<<"bridge">>>> # <<>>
      OBVIOUS
    <3> QED BY <1>3, <1>4, <3>1, <3>2
  <2>2. <<<<q.host>>>> = <<<<"bridge">>>>
    BY <1>3, <1>4, <2>1, HostLine
  <2> QED BY <2>2
<1>6. q.path # [s.path EXCEPT !.bucket = "prefix"]
  <2>1. s.path \in [bucket : STRING, key : STRING] /\ s.path.bucket # "prefix"
    BY OperationAssumption
  <2> QED BY <1>2, <2>1
<1>7. ~ \E i \in DOMAIN s.query : q.query = RemoveAt(s.query, i)
  <2>1. PICK query \in Seq(STRING \X STRING) : query = s.query
    BY OperationAssumption
  <2> QED BY <1>2, <2>1, QueryShortened
<1> QED BY <1>1, <1>2, <1>5, <1>6, <1>7

(* A request signed in its headers that is let through arrived as it was   *)
(* sent, but for the order and the blanks.                                 *)
LEMMA HeaderIntact ==
  ASSUME NEW o \in Operations, NEW mode \in Modes, NEW k, NEW t \in Offsets,
         NEW s, s = SignHeader(Plain(o, mode), k, t), None # "bridge",
         NEW q \in Mangled(s), NEW now
  PROVE  Verify(q, now) # "ok"
PROOF
<1>1. mode # None /\ mode # Blank /\ t # Blank /\ t # None
  BY OperationAssumption
<1>2. /\ DOMAIN s = Fields /\ s.path = o.path /\ s.query = o.query /\ s.host = "bridge"
      /\ s.headers = <<Line("x-amz-content-sha256", mode), Line("x-amz-date", t)>>
      /\ ~ IsPresigned(s) /\ s.auth.names = HeaderNames /\ s.auth.sig = Signature(k.secret, s)
  BY <1>1, SignHeaderIs
<1>3. q.auth = s.auth
  BY <1>2, MangledIs
<1>4. SUFFICES ASSUME Verify(q, now) = "ok" PROVE FALSE
  OBVIOUS
<1>5. ~ IsPresigned(q) /\ VerifyHeader(q, now) = "ok"
  BY <1>2, <1>3, <1>4 DEF Verify, IsPresigned
<1>6. /\ q.auth.sig = Signature(Credentials.secret, q) /\ SignedAt(q) # None
      /\ HeaderValue(q, "x-amz-content-sha256") # <<>>
  BY <1>5, HeaderVerified
<1>7. CanonicalRequest(q) = CanonicalRequest(s)
  <2>1. Signature(Credentials.secret, q) = Signature(k.secret, s)
    BY <1>2, <1>3, <1>6
  <2> QED BY <2>1 DEF Signature
<1>8. \E i \in DOMAIN s.headers : q.headers = RemoveAt(s.headers, i)
  <2>1. 1 \in DOMAIN HeaderNames /\ HeaderNames[1] = "host"
    BY DEF HeaderNames
  <2>2. /\ IsFiniteSet(DOMAIN s.auth.names) /\ Comparable(s.auth.names)
        /\ 1 \in DOMAIN s.auth.names /\ s.auth.names[1] = "host"
    BY <1>2, <2>1, NamesCompare
  <2> QED BY <1>2, <1>7, <2>2, MangledShows
<1>9. PICK a : a = Line("x-amz-content-sha256", mode) /\ a.name = "x-amz-content-sha256"
  <2>1. Line("x-amz-content-sha256", mode).name = "x-amz-content-sha256"
    BY DEF Line
  <2> QED BY <2>1
<1>10. PICK b : b = Line("x-amz-date", t) /\ b.name = "x-amz-date"
  <2>1. Line("x-amz-date", t).name = "x-amz-date"
    BY DEF Line
  <2> QED BY <2>1
<1>11. PICK h : h = <<a, b>>
  OBVIOUS
<1>12. h \in Seq({a, b}) /\ Len(h) = 2 /\ h[1] = a /\ h[2] = b
  BY <1>11
<1>13. PICK i \in 1..2 : q.headers = RemoveAt(h, i)
  BY <1>2, <1>8, <1>9, <1>10, <1>11, <1>12
<1>14. DOMAIN q.headers = 1..1 /\ q.headers[1] = IF 1 < i THEN a ELSE b
  <2>1. /\ DOMAIN RemoveAt(h, i) = 1..(2 - 1)
        /\ \A n \in 1..(2 - 1) : RemoveAt(h, i)[n] = IF n < i THEN h[n] ELSE h[n + 1]
    BY <1>12, Removed
  <2>2. RemoveAt(h, i)[1] = IF 1 < i THEN h[1] ELSE h[1 + 1]
    BY <2>1
  <2> QED BY <1>12, <1>13, <2>1, <2>2
<1>15. CASE i = 1
  <2>1. \A j \in DOMAIN q.headers : q.headers[j].name # "x-amz-content-sha256"
    BY <1>10, <1>14, <1>15
  <2> QED BY <1>6, <2>1, NoLine
<1>16. CASE i = 2
  <2>1. \A j \in DOMAIN q.headers : q.headers[j].name # "x-amz-date"
    BY <1>9, <1>14, <1>16
  <2>2. HeaderValue(q, "x-amz-date") = <<>>
    BY <2>1, NoLine
  <2> QED BY <1>5, <1>6, <2>2 DEF SignedAt
<1> QED BY <1>13, <1>15, <1>16

(* The same of a presigned one. *)
LEMMA PresignedIntact ==
  ASSUME NEW o \in Operations, NEW k, NEW t, NEW e,
         NEW s, s = PresignURL(Plain(o, None), k, t, e), None # "bridge",
         NEW q \in Mangled(s), NEW now
  PROVE  Verify(q, now) # "ok"
PROOF
<1>2. /\ DOMAIN s = Fields /\ s.path = o.path /\ s.query = o.query /\ s.host = "bridge"
      /\ s.headers = <<>>
      /\ IsPresigned(s) /\ s.auth.names = <<"host">> /\ s.auth.sig = Signature(k.secret, s)
  BY PresignURLIs
<1>3. q.auth = s.auth
  BY <1>2, MangledIs
<1>4. SUFFICES ASSUME Verify(q, now) = "ok" PROVE FALSE
  OBVIOUS
<1>5. VerifyPresigned(q, now) = "ok"
  BY <1>2, <1>3, <1>4 DEF Verify, IsPresigned
<1>6. q.auth.sig = Signature(Credentials.secret, q)
  BY <1>5, PresignedVerified
<1>7. CanonicalRequest(q) = CanonicalRequest(s)
  <2>1. Signature(Credentials.secret, q) = Signature(k.secret, s)
    BY <1>2, <1>3, <1>6
  <2> QED BY <2>1 DEF Signature
<1>8. \E i \in DOMAIN s.headers : q.headers = RemoveAt(s.headers, i)
  <2>1. /\ IsFiniteSet(DOMAIN s.auth.names) /\ Comparable(s.auth.names)
        /\ 1 \in DOMAIN s.auth.names /\ s.auth.names[1] = "host"
    BY <1>2, NamesCompare
  <2> QED BY <1>2, <1>7, <2>1, MangledShows
<1> QED BY <1>2, <1>8

------------------------------------------------------------------------------
(***************************************************************************)
(* A request is the operation that is meant, signed in one of the ways an  *)
(* SDK has.  It arrives as a proxy leaves it.  A handler is the switch's,  *)
(* and where there is none the request was refused or no case fits.        *)
(***************************************************************************)
MeantInv ==
  pc # "idle" =>
    /\ op \in Operations
    /\ \/ sent = Plain(op, None)
       \/ \E mode \in Modes : sent = SignHeader(Plain(op, mode), key, offset)
       \/ \E e \in Expires : sent = PresignURL(Plain(op, None), key, offset, e)

WayInv ==
  pc \in {"arrived", "body", "answered"} =>
    IF intact THEN req \in {sent, Forwarded(sent)} ELSE req \in Mangled(sent)

HealthPath(r) == r.path.bucket = "healthz" /\ r.path.key = ""

SwitchInv ==
  /\ pc = "body" => handler # None
  /\ Served => handler = Dispatch(req) /\ ~ HealthPath(req)
  /\ pc = "answered" /\ handler = None =>
       ~ HealthPath(req) /\ (Verify(req, age) # "ok" \/ Dispatch(req) = "InvalidArgument")

CourseInv == MeantInv /\ WayInv /\ SwitchInv

(* The switch has a handler or an error. *)
LEMMA DispatchIsNot ==
  ASSUME NEW r, Dispatch(r) # "InvalidArgument"
  PROVE  Dispatch(r) # None /\ Dispatch(r) # "health"
PROOF
<1>1. Fitting(r) # {} /\ Dispatch(r) = Cases[Min(Fitting(r))].handler
  BY DEF Dispatch
<1>2. DOMAIN Cases = 1..10
  BY DEF Cases
<1>3. Fitting(r) \in SUBSET Nat /\ Fitting(r) \subseteq DOMAIN Cases
  BY <1>2 DEF Fitting
<1>4. PICK i \in DOMAIN Cases : Dispatch(r) = Cases[i].handler
  <2>1. Min(Fitting(r)) \in Fitting(r)
    BY <1>1, <1>3, Least
  <2> QED BY <1>1, <1>3, <2>1
<1>5. Cases[i].handler # "health"
  BY <1>2 DEF Cases, Rule
<1> QED BY <1>4, <1>5, NoneAssumption

(* Every step of a request. *)
LEMMA CourseStep ==
  ASSUME IInv, CourseInv, [Next]_vars
  PROVE  CourseInv'
PROOF
<1> USE DEF CourseInv, MeantInv, WayInv, SwitchInv, Served
<1>1. pc \in {"idle", "sent", "arrived"} => handler = None
  BY DEF IInv, FreshInv
<1>2. CASE Sign
  <2>1. pc = "idle" /\ pc' = "sent" /\ op' \in Operations /\ handler' = handler /\ handler = None
    BY <1>1, <1>2 DEF Sign
  <2>2. \/ sent' = Plain(op', None)
        \/ \E mode \in Modes : sent' = SignHeader(Plain(op', mode), key', offset')
        \/ \E e \in Expires : sent' = PresignURL(Plain(op', None), key', offset', e)
    BY <1>2 DEF Sign
  <2> QED BY <2>1, <2>2
<1>3. CASE Deliver
  <2>1. /\ pc = "sent" /\ pc' = "arrived" /\ handler' = None
        /\ UNCHANGED <<op, key, offset, sent>>
        /\ \/ req' \in {sent, Forwarded(sent)} /\ intact' = TRUE
           \/ req' \in Mangled(sent) /\ intact' = FALSE
    BY <1>1, <1>3 DEF Deliver, client
  <2>2. MeantInv'
    BY <2>1
  <2>3. WayInv'
    BY <2>1
  <2> QED BY <2>1, <2>2, <2>3
<1>4. CASE Health
  <2>1. /\ pc = "arrived" /\ pc' = "answered" /\ handler' = "health" /\ "health" # None
        /\ UNCHANGED <<op, key, offset, sent, req, intact, age>>
    BY <1>4, NoneAssumption DEF Health, Answer, client, arrival
  <2> QED BY <2>1
<1>5. CASE Refuse
  <2>1. /\ pc = "arrived" /\ pc' = "answered" /\ handler' = None
        /\ ~ HealthPath(req) /\ Verify(req, age) # "ok"
        /\ UNCHANGED <<op, key, offset, sent, req, intact, age>>
    BY <1>1, <1>5 DEF Refuse, NeedsAuth, Answer, client, arrival, HealthPath
  <2>2. ~ HealthPath(req)' /\ (Verify(req, age) # "ok")'
    BY <2>1
  <2> QED BY <2>1, <2>2
<1>6. CASE Serve
  <2>1. /\ pc = "arrived" /\ ~ HealthPath(req)
        /\ UNCHANGED <<op, key, offset, sent, req, intact, age>>
    BY <1>6 DEF Serve, NeedsAuth, client, arrival, HealthPath
  <2>2. ~ HealthPath(req)'
    BY <2>1
  <2>3. CASE /\ Dispatch(req) = "InvalidArgument" /\ Answer("InvalidArgument")
             /\ UNCHANGED <<handler, file, reader>>
    <3>1. pc' = "answered" /\ handler' = None /\ Dispatch(req)' = "InvalidArgument"
      BY <1>1, <2>1, <2>3 DEF Answer
    <3> QED BY <2>1, <2>2, <3>1
  <2>4. CASE Dispatch(req) # "InvalidArgument" /\ handler' = Dispatch(req) /\ pc' = "body"
    <3>1. handler' # None /\ handler' = Dispatch(req)'
      BY <2>1, <2>4, DispatchIsNot
    <3> QED BY <2>1, <2>2, <2>4, <3>1
  <2> QED BY <1>6, <2>3, <2>4 DEF Serve
<1>7. CASE ReadChunk \/ ReadPlain \/ Finish
  <2>1. /\ pc = "body" /\ pc' \in {"body", "answered"}
        /\ UNCHANGED <<op, key, offset, sent, req, intact, age, handler>>
    BY <1>7 DEF ReadChunk, ReadPlain, Finish, BodyFails, Answer, client, arrival
  <2>2. Dispatch(req)' = Dispatch(req) /\ (HealthPath(req)' <=> HealthPath(req))
    BY <2>1
  <2> QED BY <2>1, <2>2
<1>8. CASE Return
  BY <1>8 DEF Return
<1>9. CASE UNCHANGED vars
  <2>1. UNCHANGED <<pc, op, key, offset, sent, req, intact, age, handler>>
    BY <1>9 DEF vars, client, arrival
  <2>2. /\ Dispatch(req)' = Dispatch(req) /\ (HealthPath(req)' <=> HealthPath(req))
        /\ Verify(req, age)' = Verify(req, age)
    BY <2>1
  <2> QED BY <2>1, <2>2
<1> QED BY <1>2, <1>3, <1>4, <1>5, <1>6, <1>7, <1>8, <1>9 DEF Next

(* What is signed one way or the other, from the invariants. *)
LEMMA SignedSent ==
  ASSUME SignInv, CourseInv, OurKey, pc # "idle"
  PROVE  /\ key = Credentials /\ op \in Operations /\ offset \in Offsets /\ None # "bridge"
         /\ \/ \E mode \in Modes : sent = SignHeader(Plain(op, mode), key, offset)
            \/ \E e \in Expires : sent = PresignURL(Plain(op, None), key, offset, e)
PROOF
<1>1. sent.auth # NoAuth /\ key = Credentials
  BY DEF OurKey
<1>2. sent # Plain(op, None)
  <2>1. Plain(op, None).auth = NoAuth
    BY DEF Plain
  <2> QED BY <1>1, <2>1
<1> QED BY <1>1, <1>2, NoneAssumption DEF SignInv, SentInv, CourseInv, MeantInv

(* A request of which all that is signed arrives has the handler that is   *)
(* meant.                                                                  *)
LEMMA IntactDispatch ==
  ASSUME SignInv, CourseInv, OurKey, pc \in {"arrived", "body", "answered"}, intact,
         Routed(Operations), ~ HealthPath(req)
  PROVE  Dispatch(req) = op.meaning
PROOF
<1>1. /\ op \in Operations /\ offset \in Offsets /\ req \in {sent, Forwarded(sent)}
      /\ \/ \E mode \in Modes : sent = SignHeader(Plain(op, mode), key, offset)
         \/ \E e \in Expires : sent = PresignURL(Plain(op, None), key, offset, e)
  BY SignedSent DEF CourseInv, WayInv
<1>2. /\ DOMAIN sent = Fields /\ sent.method = op.method /\ sent.path = op.path
      /\ sent.query = op.query
  <2>1. CASE \E mode \in Modes : sent = SignHeader(Plain(op, mode), key, offset)
    BY <2>1, SignHeaderIs, OperationAssumption
  <2>2. CASE \E e \in Expires : sent = PresignURL(Plain(op, None), key, offset, e)
    BY <2>2, PresignURLIs
  <2> QED BY <1>1, <2>1, <2>2
<1>3. Dispatch(req) = Dispatch(Plain(op, None)) /\ req.path = op.path
  BY <1>1, <1>2, DispatchAsPlain
<1> QED BY <1>1, <1>3 DEF Routed, HealthPath

(* What is served arrived unchanged in all that is signed. *)
LEMMA ServedIntact ==
  ASSUME SignInv, CourseInv, OurKey, Served
  PROVE  intact
PROOF
<1>1. /\ pc \in {"body", "answered"} /\ Verify(req, age) = "ok"
      /\ op \in Operations /\ offset \in Offsets /\ None # "bridge"
      /\ \/ \E mode \in Modes : sent = SignHeader(Plain(op, mode), key, offset)
         \/ \E e \in Expires : sent = PresignURL(Plain(op, None), key, offset, e)
  BY SignedSent DEF SignInv, VerifiedInv
<1>2. SUFFICES ASSUME ~ intact PROVE FALSE
  OBVIOUS
<1>3. req \in Mangled(sent)
  BY <1>1, <1>2 DEF CourseInv, WayInv
<1>4. CASE \E mode \in Modes : sent = SignHeader(Plain(op, mode), key, offset)
  BY <1>1, <1>3, <1>4, HeaderIntact
<1>5. CASE \E e \in Expires : sent = PresignURL(Plain(op, None), key, offset, e)
  BY <1>1, <1>3, <1>5, PresignedIntact
<1> QED BY <1>1, <1>4, <1>5

(* The date that is signed is the client's clock. *)
LEMMA DateSigned ==
  ASSUME SignInv, CourseInv, VouchedFor, Served
  PROVE  sent.auth.sig.date = offset
PROOF
<1>1. /\ op \in Operations /\ offset \in Offsets /\ None # "bridge"
      /\ \/ \E mode \in Modes : sent = SignHeader(Plain(op, mode), key, offset)
         \/ \E e \in Expires : sent = PresignURL(Plain(op, None), key, offset, e)
  BY SignedSent DEF SignInv, VerifiedInv, VouchedFor
<1>2. CASE \E mode \in Modes : sent = SignHeader(Plain(op, mode), key, offset)
  <2>1. SignedAt(sent) = offset /\ sent.auth.sig = Signature(key.secret, sent)
    BY <1>1, <1>2, HeaderArrives
  <2> QED BY <2>1 DEF Signature
<1>3. CASE \E e \in Expires : sent = PresignURL(Plain(op, None), key, offset, e)
  <2>1. SignedAt(sent) = offset /\ sent.auth.sig = Signature(key.secret, sent)
    BY <1>1, <1>3, PresignedArrives
  <2> QED BY <2>1 DEF Signature
<1> QED BY <1>1, <1>2, <1>3

(* The three invariants are enough for what is served. *)
LEMMA ServiceIsMeant ==
  ASSUME IInv, SignInv, CourseInv, Routed(Operations)
  PROVE  NoFalseService
PROOF
<1> SUFFICES ASSUME Served PROVE NoFalseService
  BY DEF NoFalseService
<1>1. VouchedFor
  BY VerifiedIsVouched
<1>2. OurKey
  BY <1>1 DEF VouchedFor
<1>3. intact
  BY <1>2, ServedIntact
<1>4. ServedAsMeant
  <2>1. handler = Dispatch(req) /\ ~ HealthPath(req) /\ pc \in {"body", "answered"}
    BY DEF CourseInv, SwitchInv, SignInv, VerifiedInv
  <2> QED BY <1>2, <1>3, <2>1, IntactDispatch DEF ServedAsMeant
<1>5. offset \in -ClockSkew..ClockSkew =>
        age <= 2 * ClockSkew + (IF IsPresigned(sent) THEN sent.auth.expires ELSE 0)
  BY <1>1, DateSigned DEF VouchedFor
<1> QED BY <1>2, <1>3, <1>4, <1>5 DEF NoFalseService

(* A link whose duration does not wrap around is good for as long as it    *)
(* says.                                                                   *)
LEMMA DurationKept ==
  ASSUME NEW e \in 1..(MaxDuration - 1)
  PROVE  Duration(e) = e
PROOF
<1>1. PICK M \in Nat \ {0} : M = MaxDuration
  BY ClockAssumption
<1>2. e + M \in Nat /\ 2 * M \in Nat \ {0} /\ e + M < 2 * M
  BY <1>1
<1>3. ASSUME NEW a \in Nat, NEW b \in Nat \ {0}, a < b PROVE a % b = a
  BY <1>3
<1>4. (e + M) % (2 * M) = e + M
  BY <1>2, <1>3
<1> QED BY <1>1, <1>4 DEF Duration

(* A request that is as it should be is not refused. *)
LEMMA GoodIsAccepted ==
  ASSUME SignInv, CourseInv, OurKey, pc = "answered", intact,
         offset \in -ClockSkew..ClockSkew, InTime
  PROVE  Verify(req, age) = "ok"
PROOF
<1>1. /\ key = Credentials /\ op \in Operations /\ offset \in Offsets /\ None # "bridge"
      /\ \/ \E mode \in Modes : sent = SignHeader(Plain(op, mode), key, offset)
         \/ \E e \in Expires : sent = PresignURL(Plain(op, None), key, offset, e)
  BY SignedSent
<1>2. req \in {sent, Forwarded(sent)} /\ age \in Ages
  BY DEF CourseInv, WayInv, SignInv, ArrivedInv
<1>3. age \in Nat /\ offset \in Int /\ ClockSkew \in Nat
  BY <1>1, <1>2, TimeAssumption, ClockAssumption
<1>4. ASSUME NEW mode \in Modes, sent = SignHeader(Plain(op, mode), key, offset)
      PROVE  Verify(req, age) = "ok"
  <2>1. /\ ~ IsPresigned(sent) /\ sent.auth.access = key.access /\ sent.auth.service = "s3"
    BY <1>4, SignHeaderIs, OperationAssumption
  <2>2. /\ ~ IsPresigned(req) /\ req.auth = sent.auth
        /\ HeaderValue(req, "x-amz-content-sha256") = <<<<mode>>>>
        /\ SignedAt(req) = offset /\ Present(req)
        /\ req.auth.sig = Signature(Credentials.secret, req)
    BY <1>1, <1>2, <1>4, HeaderArrives
  <2>3. req.auth.sig # None
    BY <1>1, <1>4, <2>2, SignatureAssumption DEF SignInv, SentInv
  <2>4. SignedAt(req) # None
    BY <1>1, <2>2, OperationAssumption
  <2>5. ~ Skewed(age, SignedAt(req))
    <3>1. age - offset \in -ClockSkew..ClockSkew
      BY <2>1 DEF InTime
    <3> QED BY <1>3, <2>2, <3>1 DEF Skewed, Abs
  <2>6. HeaderValue(req, "x-amz-content-sha256") # <<>>
    <3>1. <<<<mode>>>> # <<>>
      OBVIOUS
    <3> QED BY <2>2, <3>1
  <2>7. VerifyHeader(req, age) = "ok"
    BY <1>1, <2>1, <2>2, <2>3, <2>4, <2>5, <2>6, HeaderPasses
  <2> QED BY <2>2, <2>7 DEF Verify
<1>5. ASSUME NEW e \in Expires, sent = PresignURL(Plain(op, None), key, offset, e)
      PROVE  Verify(req, age) = "ok"
  <2>1. /\ IsPresigned(sent) /\ sent.auth.access = key.access /\ sent.auth.service = "s3"
        /\ sent.auth.expires = e
    BY <1>5, PresignURLIs
  <2>2. /\ IsPresigned(req) /\ req.auth = sent.auth
        /\ SignedAt(req) = offset /\ Present(req)
        /\ req.auth.sig = Signature(Credentials.secret, req)
    BY <1>1, <1>2, <1>5, PresignedArrives
  <2>3. e \in 1..(MaxDuration - 1) /\ age <= e /\ MaxDuration \in Nat
    BY <2>1, ClockAssumption DEF InTime
  <2>4. Duration(e) = e
    BY <2>3, DurationKept
  <2>5. ~ Expired(age, offset, e)
    BY <1>3, <2>3, <2>4 DEF Expired
  <2>6. VerifyPresigned(req, age) = "ok"
    BY <1>1, <2>1, <2>2, <2>5, PresignedPasses
  <2> QED BY <2>2, <2>6 DEF Verify
<1> QED BY <1>1, <1>4, <1>5

(* ... and for what is refused. *)
LEMMA RefusalHasReason ==
  ASSUME SignInv, CourseInv, Routed(Operations)
  PROVE  NoFalseRefusal
PROOF
<1> SUFFICES ASSUME pc = "answered", OurKey, intact, offset \in -ClockSkew..ClockSkew, InTime,
                    handler = None
             PROVE  op.meaning = "InvalidArgument"
  BY DEF NoFalseRefusal
<1>1. Verify(req, age) = "ok"
  BY GoodIsAccepted
<1>2. ~ HealthPath(req) /\ Dispatch(req) = "InvalidArgument"
  BY <1>1 DEF CourseInv, SwitchInv
<1> QED BY <1>2, IntactDispatch

(* All three hold of every behaviour. *)
LEMMA Courses == Spec => [](IInv /\ SignInv /\ CourseInv)
PROOF
<1>1. Init => SignInv /\ CourseInv
  <2>1. ASSUME Init PROVE SignInv /\ CourseInv
    BY <2>1 DEF Init, SignInv, SentInv, ArrivedInv, VerifiedInv, Served,
                CourseInv, MeantInv, WayInv, SwitchInv
  <2> QED BY <2>1
<1> QED BY <1>1, SignStep, CourseStep, Invariance, PTL DEF Spec

(***************************************************************************)
(* For every set of keys, clocks, expiries and operations for which the    *)
(* switch has the handler that is meant, and whatever a proxy does: a      *)
(* request that is served was signed with the bridge's key, arrived        *)
(* unchanged in all that is signed, is served by the handler that is meant *)
(* and in time (verify.go:145, presign.go:73, router.go:59).               *)
(***************************************************************************)
THEOREM ServedAsSent == ASSUME Routed(Operations) PROVE Spec => []NoFalseService
PROOF
<1>1. IInv /\ SignInv /\ CourseInv => NoFalseService
  BY ServiceIsMeant
<1> QED BY <1>1, Courses, PTL

(***************************************************************************)
(* And none is refused without a reason, whatever a proxy does to the      *)
(* order of its parameters and headers or to blanks (canonical.go:98,      *)
(* :135, :172).                                                            *)
(***************************************************************************)
THEOREM RefusedForAReason == ASSUME Routed(Operations) PROVE Spec => []NoFalseRefusal
PROOF
<1>1. IInv /\ SignInv /\ CourseInv => NoFalseRefusal
  BY RefusalHasReason
<1> QED BY <1>1, Courses, PTL
==============================================================================
