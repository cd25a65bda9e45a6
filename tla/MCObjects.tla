------------------------------ MODULE MCObjects ------------------------------
(* Objects with two keys of one backup group, which is the one Idmap makes of them. *)
EXTENDS ObjectsProofs, Idmap, TLC

CONSTANTS k1, k2, g1

OneGroup == k1 :> g1 @@ k2 :> g1

MCExtensions == <<<<".", "t", "g", "z">>, <<".", "g", "z">>>>
MCFallback == <<"k">>
\* s.gz: its ID is s; s.s.s: hashed
MCSegments == {<<"s", ".", "g", "z">>, <<"s", ".", "s", ".", "s">>}
MCHash == [n \in MCSegments |-> <<IF Len(n) = 4 THEN "f" ELSE "g">>]

GroupName(bucket, key) == <<SanitizeNamespace(bucket), GroupIDFromKey(key)>>

ASSUME GroupAssumption ==
  \A n \in MCSegments :
    GroupName(<<"b", ".", "c">>, n \o <<"/", "1">>) = GroupName(<<"b", ".", ".", "c">>, n \o <<"/", "2">>)

Symmetry == Permutations(Procs) \cup Permutations(Bodies)
==============================================================================
