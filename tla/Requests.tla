------------------------------ MODULE Requests ------------------------------
(***************************************************************************)
(* A request on its way from the client that signs it through a proxy to   *)
(* Handler.ServeHTTP (internal/s3api/router.go), which verifies it, picks  *)
(* its handler and, for a streaming upload, puts the ChunkedReader between *)
(* the body and the handler.  What a handler does then is in the modules   *)
(* Objects, Multipart, Download and Listing; here it reads the body, if it *)
(* has one, to a scratch file.                                             *)
(*                                                                         *)
(* Time is the server's clock at the moment of signing plus age.  The      *)
(* client's clock is off by offset.                                        *)
(***************************************************************************)
EXTENDS SigV4, Router, ChunkedReader

CONSTANTS Operations,       \* [name, method, path, query, upload, meaning]
          Keys,             \* the credentials clients have: [access, secret]
          Modes,            \* how clients send the body of a header-signed upload
          Offsets, Ages, Expires

Codes == {"AccessDenied", "InvalidAccessKeyId", "InvalidArgument", "RequestTimeTooSkewed",
          "SignatureDoesNotMatch", "InternalError"}

(* The handlers that read a body, and among them those that write it to a file. *)
ToFile == {"PutObject", "UploadPart"}
Readers == ToFile \cup {"CompleteMultipartUpload"}

ASSUME NoneAssumption == /\ None \notin Codes \cup {"OK", "health", "bridge"}
                         /\ None \notin {Cases[i].handler : i \in DOMAIN Cases}
                         /\ None \notin Seq(Chunks)

ASSUME KeyAssumption ==
  /\ \A k \in Keys : k.access # None
  /\ \A k \in Keys \cup {Credentials} : k = [access |-> k.access, secret |-> k.secret]

ASSUME TimeAssumption == Offsets \subseteq Int /\ Ages \subseteq Nat /\ Expires \subseteq Int

(* A header's value is no blank, and no path is the one a proxy gets wrong.  The names *)
(* of a request's parameters are known and tell them apart.                            *)
ASSUME OperationAssumption ==
  /\ \A t \in Offsets : t # Blank /\ t # None
  /\ \A m \in Modes : m # Blank /\ m # None
  /\ \A o \in Operations :
       /\ o.path \in [bucket : STRING, key : STRING] /\ o.path.bucket # "prefix"
       /\ o.query \in Seq(STRING \X STRING)
       /\ \A i, j \in DOMAIN o.query :
            \/ i = j
            \/ Before(o.query[i][1], o.query[j][1]) \/ Before(o.query[j][1], o.query[i][1])

VARIABLES pc,
          op,          \* the operation the client means
          key, offset, \* its credentials and its clock
          sent,        \* the request as it was signed
          req,         \* the request as it arrives
          intact,      \* nothing the signature covers was changed on the way
          age,         \* the server's clock at arrival
          handler,     \* the handler reached, "health", or None
          file,        \* the scratch file the handler writes the body to, or None
          status       \* "OK" or an error code

client == <<op, key, offset, sent>>
arrival == <<req, intact, age>>
vars == <<pc, client, arrival, handler, file, status, reader>>

Init == /\ pc = "idle"
        /\ op = None /\ key = None /\ offset = 0 /\ sent = None
        /\ req = None /\ intact = TRUE /\ age = 0
        /\ handler = None /\ file = None /\ status = None
        /\ Start(<<>>)

------------------------------------------------------------------------------
(***************************************************************************)
(* The client.  A presigned upload's payload is not signed.                *)
(***************************************************************************)
Plain(o, mode) ==
  [method |-> o.method, path |-> o.path, query |-> o.query, host |-> "bridge", auth |-> NoAuth,
   headers |-> IF mode = None THEN <<>>
                              ELSE <<[name |-> "x-amz-content-sha256", value |-> <<mode>>]>>]

(* No signature is the value for none. *)
ASSUME SignatureAssumption ==
  \A o \in Operations, mode \in Modes, k \in Keys, t \in Offsets :
    SignHeader(Plain(o, mode), k, t).auth.sig # None

Sign ==
  /\ pc = "idle" /\ pc' = "sent"
  /\ op' \in Operations /\ key' \in Keys /\ offset' \in Offsets
  /\ \/ \E mode \in Modes : /\ op'.upload \/ mode = "hash"
                            /\ sent' = SignHeader(Plain(op', mode), key', offset')
     \/ \E e \in Expires : sent' = PresignURL(Plain(op', None), key', offset', e)
     \/ sent' = Plain(op', None)
  /\ UNCHANGED <<arrival, handler, file, status, reader>>

(***************************************************************************)
(* The way.  A proxy may reorder parameters and headers, add a header and  *)
(* blanks around values; one that is set up wrong may also forward another *)
(* Host, another path or method, or drop a header or a parameter.          *)
(***************************************************************************)
SpacedAll(headers) == [i \in DOMAIN headers |-> [headers[i] EXCEPT !.value = <<Blank>> \o @]]

Forwarded(r) ==
  [r EXCEPT !.query = Reverse(@),
            !.headers = <<[name |-> "x-forwarded-for", value |-> <<Blank, "proxy">>]>>
                        \o Reverse(SpacedAll(@))]

Mangled(r) ==
  {[r EXCEPT !.host = "internal"], [r EXCEPT !.host = None],
   [r EXCEPT !.path.bucket = "prefix"]}
  \cup {[r EXCEPT !.method = "GET"] : m \in {"HEAD"} \cap {r.method}}
  \cup {[r EXCEPT !.query = RemoveAt(@, i)] : i \in DOMAIN r.query}
  \cup {[r EXCEPT !.headers = RemoveAt(@, i)] : i \in DOMAIN r.headers}

Deliver ==
  /\ pc = "sent" /\ pc' = "arrived"
  /\ age' \in Ages
  /\ \/ req' \in {sent, Forwarded(sent)} /\ intact' = TRUE
     \/ req' \in Mangled(sent) /\ intact' = FALSE
  /\ UNCHANGED <<client, handler, file, status, reader>>

------------------------------------------------------------------------------
Answer(s) == pc' = "answered" /\ status' = s

(* ServeHTTP before its switch: authenticate, except for /healthz. *)
Health == /\ pc = "arrived" /\ req.path.bucket = "healthz" /\ req.path.key = ""
          /\ handler' = "health" /\ Answer("OK")
          /\ UNCHANGED <<client, arrival, file, reader>>

NeedsAuth == pc = "arrived" /\ ~(req.path.bucket = "healthz" /\ req.path.key = "")

Refuse == /\ NeedsAuth
          /\ Verify(req, age) # "ok"
          /\ Answer(Verify(req, age))
          /\ UNCHANGED <<client, arrival, handler, file, reader>>

(* The bodies that are unwrapped: only those of StreamingPayload. *)
Streaming(r) == ~IsPresigned(r) /\ HeaderValue(r, "x-amz-content-sha256") = <<<<"streaming">>>>

Serve ==
  /\ NeedsAuth
  /\ Verify(req, age) = "ok"
  /\ \/ /\ Dispatch(req) = "InvalidArgument" /\ Answer("InvalidArgument")
        /\ UNCHANGED <<handler, file, reader>>
     \/ /\ Dispatch(req) # "InvalidArgument" /\ handler' = Dispatch(req)
        /\ pc' = "body" /\ UNCHANGED status
        /\ IF Streaming(req)
           THEN /\ \E w \in Wires : wire' = w
                /\ prev' = Seed /\ taken' = <<>> /\ done' = FALSE /\ err' = "none"
           ELSE UNCHANGED reader
        /\ file' = IF handler' \in ToFile THEN <<>> ELSE None
  /\ UNCHANGED <<client, arrival>>

------------------------------------------------------------------------------
(***************************************************************************)
(* The handler reads the body.  WriteToTemp and WritePart remove their     *)
(* file when that fails.  CompleteMultipartUpload reads it to memory.      *)
(***************************************************************************)
BodyFails == /\ Answer(IF handler = "CompleteMultipartUpload" THEN "InvalidArgument"
                                                               ELSE "InternalError")
             /\ file' = None

HasBody == op.upload /\ handler \in Readers

ReadChunk == /\ pc = "body" /\ HasBody /\ Streaming(req)
             /\ NextChunk
             /\ IF err' # "none" THEN BodyFails
                                 ELSE /\ file' = IF file = None THEN None ELSE taken'
                                      /\ UNCHANGED <<pc, status>>
             /\ UNCHANGED <<client, arrival, handler>>

(* Without frames, or with frames nobody takes off. *)
Framed(body) == [i \in DOMAIN body |-> <<"frame", body[i]>>]

ReadPlain == /\ pc = "body" /\ HasBody /\ ~Streaming(req) /\ file \in {None, <<>>}
             /\ \/ BodyFails
                \/ /\ file' = IF file = None THEN None
                              ELSE IF HeaderValue(req, "x-amz-content-sha256") = <<<<"trailer">>>>
                              THEN Framed(Payload) ELSE Payload
                   /\ Answer("OK")
             /\ UNCHANGED <<client, arrival, handler, reader>>

(* Mutant: the handler is done when the wire is. *)
WireIsEmpty == wire = <<>>
BodyIsRead == IF HasBody THEN Streaming(req) /\ done ELSE TRUE

Finish == /\ pc = "body" /\ BodyIsRead
          /\ Answer("OK")
          /\ UNCHANGED <<client, arrival, handler, file, reader>>

(* The next request: nothing of this one is kept but the stored file. *)
Return == /\ pc = "answered"
          /\ pc' = "idle"
          /\ op' = None /\ key' = None /\ offset' = 0 /\ sent' = None
          /\ req' = None /\ intact' = TRUE /\ age' = 0
          /\ handler' = None /\ file' = None /\ status' = None
          /\ wire' = <<>> /\ prev' = Seed /\ taken' = <<>> /\ done' = FALSE /\ err' = "none"

Next == Sign \/ Deliver \/ Health \/ Refuse \/ Serve \/ ReadChunk \/ ReadPlain \/ Finish \/ Return

Spec == Init /\ [][Next]_vars

------------------------------------------------------------------------------
TypeOK == /\ pc \in {"idle", "sent", "arrived", "body", "answered"}
          /\ handler \in {Cases[i].handler : i \in DOMAIN Cases} \cup {"health", None}
          /\ status \in Codes \cup {"OK", None}
          /\ (pc = "answered") = (status # None)
          /\ ReaderTypeOK

Served == handler \notin {None, "health"}

OurKey == key = Credentials /\ sent.auth # NoAuth

(***************************************************************************)
(* The switch of ServeHTTP picks the handler the client means, although    *)
(* the cases overlap (router.go:59): a PUT with an upload ID is a part.    *)
(***************************************************************************)
ServedAsMeant == handler # None => handler = op.meaning

(* The operations for which it does, /healthz aside, as they leave the client. *)
Routed(operations) ==
  \A o \in operations :
    \/ o.path.bucket = "healthz" /\ o.path.key = ""
    \/ Dispatch(Plain(o, None)) = o.meaning

(***************************************************************************)
(* Nothing else is let through (verify.go:145, presign.go:73,              *)
(* router.go:59): a request that is served was signed with the bridge's    *)
(* key, arrived unchanged in all the signature covers, and reached the     *)
(* handler that was meant.  A client whose clock is no more than ClockSkew *)
(* off can count on a link ending 2 * ClockSkew after its expiry, however  *)
(* long that was, and other requests after 2 * ClockSkew.                  *)
(***************************************************************************)
NoFalseService ==
  Served =>
    /\ OurKey /\ intact /\ ServedAsMeant
    /\ offset \in -ClockSkew..ClockSkew =>
         age <= 2 * ClockSkew + (IF IsPresigned(sent) THEN sent.auth.expires ELSE 0)

(***************************************************************************)
(* Verify refuses no request without a reason: with the right key, nothing *)
(* changed that is signed, and a clock within ClockSkew, a request that    *)
(* comes in time is served, whatever a proxy did to the order of its       *)
(* parameters and headers or to blanks (canonical.go:98, :135, :172).      *)
(***************************************************************************)
InTime == IF IsPresigned(sent)
          THEN sent.auth.expires \in 1..(MaxDuration - 1) /\ age <= sent.auth.expires
          ELSE age - offset \in -ClockSkew..ClockSkew

NoFalseRefusal ==
  pc = "answered" /\ OurKey /\ intact /\ offset \in -ClockSkew..ClockSkew /\ InTime
    => handler # None \/ op.meaning = "InvalidArgument"

(***************************************************************************)
(* A body that is acknowledged is stored as it was sent, without the       *)
(* frames it came in ("transparently decodes aws-chunked bodies when       *)
(* present", docs/ARCHITECTURE.md:9).                                      *)
(***************************************************************************)
AcknowledgedAsSent ==
  status = "OK" /\ HasBody /\ handler # "CompleteMultipartUpload" => file = Payload

(***************************************************************************)
(* A body that breaks off or does not verify leaves no file behind         *)
(* (staging.go:50, :199), and its request is not acknowledged.             *)
(***************************************************************************)
BrokenBodyKeepsNothing == status \in Codes => file = None /\ ~done

(***************************************************************************)
(* An upload is all or nothing: what is acknowledged is what was sent, and *)
(* of anything else nothing stays (chunked.go:137, staging.go:50, :199).   *)
(***************************************************************************)
AllOrNothing == AcknowledgedAsSent /\ BrokenBodyKeepsNothing
==============================================================================
