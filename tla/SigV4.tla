-------------------------------- MODULE SigV4 --------------------------------
(***************************************************************************)
(* Signature verification: verify.go, presign.go, canonical.go, clock.go   *)
(* of internal/sigv4.                                                      *)
(*                                                                         *)
(* A request is a record of method, path, query (a sequence of name and    *)
(* value), headers (a sequence of name and words), host and auth, which is *)
(* what the Authorization header or the X-Amz-* query parameters say:      *)
(* form, access, service, date, expires, names (SignedHeaders) and sig.    *)
(* HMAC-SHA256 is taken to be injective: a signature is the record of what *)
(* it was made from.                                                       *)
(***************************************************************************)
EXTENDS Integers, Sequences, SequencesExt

CONSTANTS None,
          Blank,           \* a space in a header's value
          Credentials,     \* [access, secret] of the bridge
          ClockSkew,       \* Verifier.ClockSkew, in seconds
          MaxDuration      \* a time.Duration wraps around here: 2^63 nanoseconds

ASSUME ClockAssumption == ClockSkew \in Nat /\ MaxDuration \in Nat \ {0}

(* The names that occur, in the order of sort.Strings. *)
Names == <<"content-type", "host", "list-type", "partNumber", "uploadId", "uploads",
           "x-amz-content-sha256", "x-amz-date", "x-forwarded-for", "x-id">>
Before(m, n) == \E i, j \in DOMAIN Names : i < j /\ Names[i] = m /\ Names[j] = n

------------------------------------------------------------------------------
(***************************************************************************)
(* The canonical request.  URI encoding is injective and is left out;      *)
(* canonicalHeaders collapses blanks, joins the lines of one name and      *)
(* looks up the host, which is no header in Go.                            *)
(***************************************************************************)
(* The members of P in the order R, the one with n - 1 before it in place n. *)
InOrder(P, R(_, _)) ==
  [n \in 1..Cardinality(P) |-> CHOOSE i \in P : Cardinality({j \in P : R(j, i)}) = n - 1]

(* sort.Strings: where names are, in their order. *)
Sorted(names) == InOrder(DOMAIN names, LAMBDA i, j : Before(names[i], names[j]))

(* Mutant: parameters in the order they came in. *)
AsSent(query) == query
CanonicalQuery(query) == LET places == Sorted([i \in DOMAIN query |-> query[i][1]])
                         IN  [n \in DOMAIN places |-> query[places[n]]]

Collapse(value) == LET words == InOrder({i \in DOMAIN value : value[i] # Blank}, <)
                   IN  [n \in DOMAIN words |-> value[words[n]]]

HeaderValue(r, name) ==
  LET lines == InOrder({i \in DOMAIN r.headers : r.headers[i].name = name}, <)
  IN CASE name = "host" -> IF r.host = None THEN <<>> ELSE <<<<r.host>>>>
       [] OTHER -> [n \in DOMAIN lines |-> Collapse(r.headers[lines[n]].value)]

Present(r) == \A i \in DOMAIN r.auth.names : HeaderValue(r, r.auth.names[i]) # <<>>

CanonicalHeaders(r) ==
  LET names == r.auth.names
      places == Sorted(names)
  IN  [n \in DOMAIN places |-> <<names[places[n]], HeaderValue(r, names[places[n]])>>]

IsPresigned(r) == r.auth.form = "presigned"

PayloadHash(r) == IF IsPresigned(r) THEN <<<<"UNSIGNED-PAYLOAD">>>>
                                    ELSE HeaderValue(r, "x-amz-content-sha256")

(* The X-Amz-* parameters are query parameters of a presigned URL; all but *)
(* X-Amz-Signature are canonicalized.                                      *)
(* Mutant: the method is left out. *)
AnyMethod(r) ==
  [path |-> r.path, query |-> CanonicalQuery(r.query),
   amz |-> IF IsPresigned(r) THEN [r.auth EXCEPT !.sig = None] ELSE None,
   headers |-> CanonicalHeaders(r), hash |-> PayloadHash(r)]
CanonicalRequest(r) ==
  [method |-> r.method, path |-> r.path, query |-> CanonicalQuery(r.query),
   amz |-> IF IsPresigned(r) THEN [r.auth EXCEPT !.sig = None] ELSE None,
   headers |-> CanonicalHeaders(r), hash |-> PayloadHash(r)]

(* X-Amz-Date: a parameter of a presigned URL, otherwise a header. *)
SignedAt(r) == LET lines == HeaderValue(r, "x-amz-date")
               IN IF IsPresigned(r) THEN r.auth.date ELSE IF lines = <<>> THEN None ELSE lines[1][1]

Signature(secret, r) ==
  [key |-> <<secret, r.auth.service>>, date |-> SignedAt(r), request |-> CanonicalRequest(r)]

------------------------------------------------------------------------------
(***************************************************************************)
(* The clock: a header-signed request is good for ClockSkew around its     *)
(* date, a presigned one for its expiry, and ClockSkew more at either end. *)
(***************************************************************************)
Abs(n) == IF n < 0 THEN -n ELSE n

Skewed(now, signedAt) == Abs(now - signedAt) > ClockSkew

(* time.Duration(expiresSeconds) * time.Second *)
Duration(seconds) == ((seconds + MaxDuration) % (2 * MaxDuration)) - MaxDuration

Expired(now, signedAt, expires) ==
  \/ expires <= 0
  \/ now > signedAt + Duration(expires) + ClockSkew
  \/ signedAt > now + ClockSkew

------------------------------------------------------------------------------
(***************************************************************************)
(* VerifyHeader and VerifyPresigned: the error code of the first check     *)
(* that fails, or "ok".                                                    *)
(***************************************************************************)
FirstFailing(checks) ==
  LET failing == {i \in DOMAIN checks : ~checks[i].holds}
  IN IF failing = {} THEN "ok" ELSE checks[Min(failing)].code

Check(holds, code) == [holds |-> holds, code |-> code]

ScopeChecks(a) == <<Check(a.access = Credentials.access, "InvalidAccessKeyId"),
                    Check(a.service = "s3", "InvalidArgument")>>

SignatureChecks(r) ==
  <<Check(Present(r), "InvalidArgument"),
    Check(Present(r) => r.auth.sig = Signature(Credentials.secret, r),
          "SignatureDoesNotMatch")>>

VerifyHeader(r, now) ==
  FirstFailing(<<Check(r.auth.sig # None, "AccessDenied")>> \o ScopeChecks(r.auth)
               \o <<Check(SignedAt(r) # None, "AccessDenied"),
                    Check(SignedAt(r) # None => ~Skewed(now, SignedAt(r)),
                          "RequestTimeTooSkewed"),
                    Check(HeaderValue(r, "x-amz-content-sha256") # <<>>, "AccessDenied")>>
               \o SignatureChecks(r))

VerifyPresigned(r, now) ==
  FirstFailing(ScopeChecks(r.auth)
               \o <<Check(~Expired(now, SignedAt(r), r.auth.expires), "AccessDenied")>>
               \o SignatureChecks(r))

Verify(r, now) == IF IsPresigned(r) THEN VerifyPresigned(r, now) ELSE VerifyHeader(r, now)

------------------------------------------------------------------------------
(***************************************************************************)
(* The client's side: an AWS SDK, for which the tests' own signer stands.  *)
(***************************************************************************)
NoAuth == [form |-> "header", access |-> None, service |-> None, date |-> None,
           expires |-> None, names |-> <<>>, sig |-> None]

Signed(r, secret) == [r EXCEPT !.auth.sig = Signature(secret, r)]

SignHeader(r, key, date) ==
  Signed([r EXCEPT !.auth =
            [form |-> "header", access |-> key.access, service |-> "s3", date |-> None,
             expires |-> None, sig |-> None,
             names |-> <<"host", "x-amz-content-sha256", "x-amz-date">>],
          !.headers = @ \o <<[name |-> "x-amz-date", value |-> <<date>>]>>],
         key.secret)

PresignURL(r, key, date, expires) ==
  Signed([r EXCEPT !.auth =
            [form |-> "presigned", access |-> key.access, service |-> "s3", date |-> date,
             expires |-> expires, names |-> <<"host">>, sig |-> None]],
         key.secret)
==============================================================================
