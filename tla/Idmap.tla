-------------------------------- MODULE Idmap --------------------------------
(***************************************************************************)
(* internal/idmap: the PBS group of an object, from the name of its bucket *)
(* and the first segment of its key.  Names are sequences of characters.   *)
(***************************************************************************)
EXTENDS Integers, SequencesExt

CONSTANTS Chars,
          Valid,          \* the characters PBS takes in an ID
          Underscore, Dash, Slash, Dot,
          Extensions,     \* the known ones, in the order they are tried
          Fallback,       \* "key"
          MaxIDLen,       \* maxBackupIDLen
          HashLen,        \* hashSuffixLen
          Segments,       \* the names that are made IDs of
          Hash            \* hashSuffix of each

ASSUME IDAssumption == /\ Valid \subseteq Chars /\ Underscore \in Valid /\ Dash \in Valid
                       /\ Segments \subseteq Seq(Chars) /\ Extensions \in Seq(Seq(Chars))
                       /\ Fallback \in Seq(Valid) /\ Fallback # <<>>
                       /\ HashLen \in Nat /\ MaxIDLen \in Nat /\ MaxIDLen > HashLen + 1

(* Eight digits of a SHA-256 are taken to tell names apart. *)
ASSUME HashAssumption ==
  /\ \A m \in Segments : Hash[m] \in Seq(Valid) /\ Len(Hash[m]) = HashLen
  /\ \A m, n \in Segments : Hash[m] = Hash[n] => m = n

FirstFit(s) == {i \in DOMAIN Extensions : /\ IsSuffix(Extensions[i], s)
                                          /\ \A j \in 1..(i - 1) : ~ IsSuffix(Extensions[j], s)}

stripKnownExtensions(s) ==
  IF FirstFit(s) = {} THEN s
  ELSE SubSeq(s, 1, Len(s) - Len(Extensions[CHOOSE i \in FirstFit(s) : TRUE]))

sanitizeChars(s) == [i \in 1..Len(s) |-> IF s[i] \in Valid THEN s[i] ELSE Underscore]

Sanitized(n) == LET s == sanitizeChars(stripKnownExtensions(n))
                IN  IF s = <<>> THEN Fallback ELSE s

isCleanLossless(n) == stripKnownExtensions(n) = Sanitized(n)

Readable(n) == isCleanLossless(n) /\ Len(Sanitized(n)) <= MaxIDLen

Hashed(n) ==
  LET room == MaxIDLen - HashLen - 1
      s == Sanitized(n)
  IN  Append(IF Len(s) > room THEN SubSeq(s, 1, room) ELSE s, Dash) \o Hash[n]

SanitizeBackupID(n) == IF Readable(n) THEN Sanitized(n) ELSE Hashed(n)

FirstSegment(key) ==
  LET slashes == {i \in DOMAIN key : key[i] = Slash}
  IN  IF slashes = {} THEN key ELSE SubSeq(key, 1, Min(slashes) - 1)

GroupIDFromKey(key) == SanitizeBackupID(FirstSegment(key))

(* The components between the dots of a bucket's name, without the empty ones. *)
SanitizeNamespace(bucket) ==
  SelectSeq(FoldLeft(LAMBDA parts, c : IF c = Dot THEN Append(parts, <<>>)
                                       ELSE [parts EXCEPT ![Len(parts)] = Append(@, c)],
                     <<<<>>>>, bucket),
            LAMBDA part : part # <<>>)
==============================================================================
