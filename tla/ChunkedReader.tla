---------------------------- MODULE ChunkedReader ----------------------------
(***************************************************************************)
(* The decoder of aws-chunked bodies: internal/sigv4/chunked.go.           *)
(*                                                                         *)
(* The body of a streaming upload is a sequence of frames, each a header   *)
(* line with a size and a signature, the data and a line end.  A frame's   *)
(* signature vouches for its data and for the signature before it, and the *)
(* frame of size zero ends the body.  The reader hands on the data of a    *)
(* frame only when its signature fits, and it hands on nothing more after  *)
(* an error.  The wire may lose, repeat, reorder, alter or cut off frames. *)
(***************************************************************************)
EXTENDS Integers, Sequences

CONSTANTS Chunks,     \* the data of a frame
          End,        \* the data of the frame of size zero
          Payload,    \* the body the client sends
          Wires       \* what may arrive of it

signed == Append(Payload, End)

(***************************************************************************)
(* A signature is an HMAC over the previous one and the data, so it stands *)
(* for the data of its frame and of all frames before it.  Those the       *)
(* client made are Vouched; the chain starts at Seed, the signature of the *)
(* request.                                                                *)
(***************************************************************************)
Seed == <<>>

(* Mutant: the chain is not part of what is signed. *)
Unchained(prev, data) == <<data>>
ChunkSignature(prev, data) == Append(prev, data)

Vouched == {SubSeq(signed, 1, i) : i \in 1..Len(signed)}

(***************************************************************************)
(* "chunk": a header line, as much data as it says, and two more bytes.    *)
(* "blank": an empty line.  "garbled": a line that is no header, or one    *)
(* whose size is not acceptable.  "torn": a frame that breaks off.         *)
(***************************************************************************)
Frame == [kind : {"chunk", "blank", "garbled", "torn"}, data : Chunks \cup {End}, sig : Vouched]

ASSUME PayloadAssumption == Payload \in Seq(Chunks) /\ End \notin Chunks
ASSUME WireAssumption == Wires \subseteq Seq(Frame)

VARIABLES wire,     \* the frames not read yet
          prev,     \* prevSignature
          taken,    \* the data handed to the reader of the body
          done,
          err       \* the error every further Read returns, or "none"

reader == <<wire, prev, taken, done, err>>

ReaderTypeOK == /\ wire \in Seq(Frame)
                /\ prev \in Seq(Chunks \cup {End})
                /\ taken \in Seq(Chunks)
                /\ done \in BOOLEAN
                /\ err \in {"none", "broken", "SignatureDoesNotMatch"}

Start(w) == wire = w /\ prev = Seed /\ taken = <<>> /\ done = FALSE /\ err = "none"

ReaderInit == \E w \in Wires : Start(w)

------------------------------------------------------------------------------
(* One blank line before a header is passed over. *)
Unblanked == IF wire # <<>> /\ Head(wire).kind = "blank" THEN Tail(wire) ELSE wire

Unread == ~done /\ err = "none"

Break == /\ Unread
         /\ Unblanked # <<>> => Head(Unblanked).kind # "chunk"
         /\ err' = "broken"
         /\ UNCHANGED <<wire, prev, taken, done>>

Fits(f) == f.sig = ChunkSignature(prev, f.data)

Mismatch == /\ Unread
            /\ Unblanked # <<>> /\ Head(Unblanked).kind = "chunk"
            /\ ~Fits(Head(Unblanked))
            /\ err' = "SignatureDoesNotMatch"
            /\ UNCHANGED <<wire, prev, taken, done>>

IsEnd(f) == f.data = End

HandedOn(f) == IF f.data = End THEN <<>> ELSE <<f.data>>

Accept == /\ Unread
          /\ Unblanked # <<>> /\ Head(Unblanked).kind = "chunk"
          /\ LET f == Head(Unblanked)
             IN /\ Fits(f)
                /\ prev' = f.sig
                /\ done' = IsEnd(f)
                /\ taken' = taken \o HandedOn(f)
          /\ wire' = Tail(Unblanked)
          /\ UNCHANGED err

(* nextChunk, as Read calls it when it has nothing left to hand on. *)
NextChunk == Break \/ Mismatch \/ Accept

ReaderSpec == ReaderInit /\ [][NextChunk]_reader

------------------------------------------------------------------------------
(***************************************************************************)
(* What the reader of the body has got, from whatever arrived, is what the *)
(* client signed from its beginning on; and it is told that the body has   *)
(* ended only when it has all of it.  (io.EOF of Read, chunked.go:69.)     *)
(***************************************************************************)
TakenAsSigned == /\ \E n \in 0..Len(Payload) : taken = SubSeq(Payload, 1, n)
                 /\ done => taken = Payload

(* What the theorem is proved by: the chain has got as far as the data has. *)
ReaderInv == /\ ReaderTypeOK
             /\ \E n \in 0..Len(Payload) : taken = SubSeq(Payload, 1, n)
             /\ prev = IF done THEN Append(taken, End) ELSE taken
             /\ done => taken = Payload
==============================================================================
