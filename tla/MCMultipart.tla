----------------------------- MODULE MCMultipart -----------------------------
(* Multipart with parts 1 and 2 of contents a and b. *)
EXTENDS MultipartProofs, TLC

CONSTANTS a, b

Part(n, e) == [number |-> n, etag |-> e]

(* Lists of one part, and of both. *)
FewClaims == {<<Part(1, a)>>, <<Part(1, b)>>, <<Part(1, a), Part(2, b)>>}
OneClaims == {<<Part(1, a)>>, <<Part(1, a), Part(2, a)>>}

Symmetry == Permutations(Procs)
==============================================================================
