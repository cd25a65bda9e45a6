------------------------------ MODULE MCListing ------------------------------
(* The bytes nul, "/", "a" and "b" are 0, 1, 2 and 3. *)
EXTENDS Listing

MCBucket == <<2>>
\* a, a/a, a/ab, a/b, aa, b
MCKeys == {<<2>>, <<2, 1, 2>>, <<2, 1, 2, 3>>, <<2, 1, 3>>, <<2, 2>>, <<3>>}
\* a in bucket aa, and b/ in bucket a/
MCOthers == {<<<<2, 2>>, <<2>>>>, <<<<2, 1>>, <<3, 1>>>>}
MCParameters == [prefix : {<<>>, <<2>>, <<2, 1>>}, delimiter : {<<>>, <<1>>, <<1, 2>>},
                 max : {0, 1, 2}, start : {<<>>, <<2, 1>>}]
==============================================================================
