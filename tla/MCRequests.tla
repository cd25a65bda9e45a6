----------------------------- MODULE MCRequests -----------------------------
EXTENDS Requests

CONSTANTS c1, c2, end, noKey, noSecret

Bridge == [access |-> "panel", secret |-> "secret"]
AllKeys == {Bridge, [Bridge EXCEPT !.secret = noSecret], [Bridge EXCEPT !.access = noKey]}

Object == [bucket |-> "b", key |-> "k"]
Bucket == [bucket |-> "b", key |-> ""]
Operation(name, method, path, query, upload, meaning) ==
  [name |-> name, method |-> method, path |-> path, query |-> query, upload |-> upload,
   meaning |-> meaning]

AllOperations ==
  {Operation("CreateMultipartUpload", "POST", Object, <<<<"uploads", "">>>>, FALSE,
             "CreateMultipartUpload"),
   Operation("UploadPart", "PUT", Object, <<<<"partNumber", "1">>, <<"uploadId", "u">>>>, TRUE,
             "UploadPart"),
   Operation("CompleteMultipartUpload", "POST", Object, <<<<"uploadId", "u">>>>, TRUE,
             "CompleteMultipartUpload"),
   Operation("AbortMultipartUpload", "DELETE", Object, <<<<"uploadId", "u">>>>, FALSE,
             "AbortMultipartUpload"),
   Operation("ListParts", "GET", Object, <<<<"uploadId", "u">>>>, FALSE, "ListParts"),
   Operation("ListObjectsV2", "GET", Bucket, <<<<"list-type", "2">>>>, FALSE, "ListObjectsV2"),
   Operation("ListObjects", "GET", Bucket, <<>>, FALSE, "InvalidArgument"),
   Operation("ListBuckets", "GET", [Bucket EXCEPT !.bucket = ""], <<>>, FALSE, "InvalidArgument"),
   Operation("CreateBucket", "PUT", Bucket, <<>>, FALSE, "InvalidArgument"),
   Operation("PutObject", "PUT", Object, <<<<"x-id", "PutObject">>>>, TRUE, "PutObject"),
   Operation("GetObject", "GET", Object, <<<<"x-id", "GetObject">>>>, FALSE, "GetObject"),
   Operation("HeadObject", "HEAD", Object, <<>>, FALSE, "HeadObject"),
   Operation("DeleteObject", "DELETE", Object, <<>>, FALSE, "DeleteObject"),
   Operation("healthcheck", "GET", [Bucket EXCEPT !.bucket = "healthz"], <<>>, FALSE, "health")}

(* The hypothesis of ServedAsSent and RefusedForAReason. *)
ASSUME OperationsAreRouted == Routed(AllOperations)

(* PutObjectAcl is a PUT of an object with a parameter the switch does not know. *)
WithSubresources == AllOperations \cup
  {Operation("PutObjectAcl", "PUT", Object, <<<<"acl", "">>>>, FALSE, "InvalidArgument")}

AllOffsets == {-3, -2, 0, 2, 3}
AllAges == {0, 1, 2, 4, 5, 7, 8}
AllExpires == {0, 3, 20, 35}
NoExpires == {}

(***************************************************************************)
(* What becomes of a body on a wire that loses, repeats, exchanges, alters *)
(* or cuts off up to two frames, or adds an empty line.                    *)
(***************************************************************************)
TheBody == <<c1, c2, c1>>
Frames == LET s == Append(TheBody, end)
          IN [i \in DOMAIN s |-> [kind |-> "chunk", data |-> s[i], sig |-> SubSeq(s, 1, i)]]

Disturbed(w) ==
  {RemoveAt(w, i) : i \in DOMAIN w}
  \cup {InsertAt(w, i, w[i]) : i \in DOMAIN w}
  \cup {InsertAt(w, i, [w[i] EXCEPT !.kind = "blank"]) : i \in DOMAIN w}
  \cup {[w EXCEPT ![i] = w[j], ![j] = w[i]] : i, j \in DOMAIN w}
  \cup {[w EXCEPT ![i].data = d] : i \in DOMAIN w, d \in {c1, c2, end}}
  \cup {[w EXCEPT ![i].kind = "garbled"] : i \in DOMAIN w}
  \cup {Append(SubSeq(w, 1, i - 1), [w[i] EXCEPT !.kind = "torn"]) : i \in DOMAIN w}
  \cup {SubSeq(w, 1, i) : i \in 0..Len(w)}

AllWires == {Frames} \cup Disturbed(Frames) \cup UNION {Disturbed(w) : w \in Disturbed(Frames)}
CleanWire == {Frames}
=============================================================================
