------------------------------- MODULE Router -------------------------------
(***************************************************************************)
(* Handler.ServeHTTP's switch, internal/s3api/router.go: the first case    *)
(* that fits decides.                                                      *)
(***************************************************************************)
EXTENDS Sequences, SequencesExt

Rule(method, needs, onObject, handler) ==
  [method |-> method, needs |-> needs, onObject |-> onObject, handler |-> handler]

Cases ==
  <<Rule("POST",   {"uploads"},                TRUE,  "CreateMultipartUpload"),
    Rule("PUT",    {"uploadId", "partNumber"}, TRUE,  "UploadPart"),
    Rule("POST",   {"uploadId"},               TRUE,  "CompleteMultipartUpload"),
    Rule("DELETE", {"uploadId"},               TRUE,  "AbortMultipartUpload"),
    Rule("GET",    {"uploadId"},               TRUE,  "ListParts"),
    Rule("GET",    {"list-type"},              FALSE, "ListObjectsV2"),
    Rule("PUT",    {},                         TRUE,  "PutObject"),
    Rule("GET",    {},                         TRUE,  "GetObject"),
    Rule("HEAD",   {},                         TRUE,  "HeadObject"),
    Rule("DELETE", {},                         TRUE,  "DeleteObject")>>

Parameters(r) == {r.query[i][1] : i \in DOMAIN r.query}

Matches(c, r) == /\ c.method = r.method
                 /\ c.needs \subseteq Parameters(r)
                 /\ c.onObject = (r.path.key # "")

Fitting(r) == {i \in DOMAIN Cases : Matches(Cases[i], r)}

(* A handler, or "InvalidArgument". *)
Dispatch(r) == IF r.path.bucket = "" \/ Fitting(r) = {} THEN "InvalidArgument"
                                                        ELSE Cases[Min(Fitting(r))].handler
=============================================================================
