------------------------------- MODULE Listing -------------------------------
(***************************************************************************)
(* ListObjectsV2 over the bucket "objects" of bbolt: the cursor scan of    *)
(* DB.ListObjects, the grouping under a delimiter of Backend.ListObjects   *)
(* and the parameters of handleListObjectsV2, called page by page by a     *)
(* client that resumes behind the last entry it got, while others put and  *)
(* delete objects.                                                         *)
(*                                                                         *)
(* A string is a sequence of numbers, in the order of its bytes.           *)
(***************************************************************************)
EXTENDS Integers, SequencesExt

CONSTANTS Bucket, Keys,    \* the bucket that is listed and the names of its objects
          Nul,             \* the byte between them in a row's key
          Others,          \* bucket and name of objects in other buckets
          Parameters,      \* the parameters of a client: a set of records
          PageLimit,       \* 1000 in list_objects.go
          OverFetch,       \* 4 in backend.go
          MaxChanges       \* bound: puts and deletions of others in a behaviour

ASSUME ListingAssumption == /\ PageLimit \in Nat \ {0} /\ OverFetch \in Nat \ {0}
                            /\ MaxChanges \in Nat
                            /\ \A b \in {Bucket} \cup {o[1] : o \in Others} :
                                 \A i \in DOMAIN b : b[i] # Nul

(* Bytes are numbers.  No object has an empty key: "/bucket/" is the bucket itself. *)
ASSUME BytesAssumption == /\ Bucket \in Seq(Int) /\ Nul \in Int
                          /\ Keys \subseteq Seq(Int) /\ <<>> \notin Keys
                          /\ \A o \in Others : o \in Seq(Int) \X Seq(Int) /\ o[1] # Bucket
                          /\ IsFiniteSet(Keys) /\ IsFiniteSet(Others)
                          /\ \A q \in Parameters :
                               /\ q.prefix \in Seq(Int) /\ q.delimiter \in Seq(Int)
                               /\ q.start \in Seq(Int) /\ q.max \in Int

VARIABLES rows,     \* the keys of the bbolt bucket "objects"
          query,    \* what the client lists
          after,    \* the last entry it got
          state,    \* "idle", "paging" or "ended"
          listed,   \* the objects it got, in order
          groups,   \* the common prefixes it got
          always,   \* the rows that were there from its first page on
          ever,     \* the rows that were there at some page
          changes

client == <<query, after, state, listed, groups>>
vars == <<rows, client, always, ever, changes>>

objectMapKey(b, k) == b \o <<Nul>> \o k

(* bytes.Compare, as bbolt orders its keys. *)
Less(s, t) == \/ IsStrictPrefix(s, t)
              \/ \E i \in DOMAIN s \cap DOMAIN t :
                   s[i] < t[i] /\ SubSeq(s, 1, i - 1) = SubSeq(t, 1, i - 1)

Own == {objectMapKey(Bucket, k) : k \in Keys}
Foreign == {objectMapKey(o[1], o[2]) : o \in Others}

(* All rows there can be, as a cursor yields them. *)
Order == [i \in 1..Cardinality(Own \cup Foreign) |->
            CHOOSE r \in Own \cup Foreign :
              Cardinality({q \in Own \cup Foreign : Less(q, r)}) = i - 1]

------------------------------------------------------------------------------
(***************************************************************************)
(* DB.ListObjects                                                          *)
(***************************************************************************)
(* Mutant: start-after is part of the page it starts. *)
From(r, k) == k = <<>> \/ ~ Less(r, objectMapKey(Bucket, k))
Beyond(r, k) == k = <<>> \/ Less(objectMapKey(Bucket, k), r)

(* Mutant: nothing separates the bucket from the key. *)
LoosePrefix == Bucket

ScanPrefix == objectMapKey(Bucket, query.prefix)

(* A loop that appends those elements of s that are in T. *)
Filter(s, T) ==
  LET loop[i \in 0..Len(s)] == IF i = 0 THEN <<>>
                               ELSE IF s[i] \in T THEN Append(loop[i - 1], s[i])
                               ELSE loop[i - 1]
  IN  loop[Len(s)]

(* The cursor's loop. *)
Scan(start) == Filter(Order, {r \in rows : IsPrefix(ScanPrefix, r) /\ Beyond(r, start)})

KeyOfRow(r) == SubSeq(r, Len(Bucket) + 2, Len(r))

------------------------------------------------------------------------------
(***************************************************************************)
(* Backend.ListObjects                                                     *)
(***************************************************************************)
(* Where d begins in s, 0 if nowhere. *)
indexOf(s, d) ==
  LET I == {i \in 1..(Len(s) - Len(d) + 1) : SubSeq(s, i, i + Len(d) - 1) = d}
  IN  IF I = {} THEN 0 ELSE CHOOSE i \in I : \A j \in I : i <= j

Rest(k) == SubSeq(k, Len(query.prefix) + 1, Len(k))

Alone(k) == query.delimiter = <<>> \/ indexOf(Rest(k), query.delimiter) = 0

CommonPrefix(k) ==
  SubSeq(k, 1, Len(query.prefix) + indexOf(Rest(k), query.delimiter) + Len(query.delimiter) - 1)

Entry(k) == IF Alone(k) THEN k ELSE CommonPrefix(k)

(* The first i - 1 keys fill the page for the i-th: common prefixes count, but only *)
(* an object ends it.                                                               *)
Full(keys, i, max) ==
  Alone(keys[i]) /\ Cardinality({Entry(keys[j]) : j \in 1..(i - 1)}) >= max

Fetched(found, max) == IF Len(found) > max * OverFetch THEN max * OverFetch ELSE Len(found)

(* Mutant: what was not fetched is not said to be missing. *)
NeverMore(found, max) == FALSE
MoreThanFetched(found, max) == Len(found) > max * OverFetch

ListObjects(start, max) ==
  LET found == Scan(start)
      n == Fetched(found, max)
      keys == [i \in 1..n |-> KeyOfRow(found[i])]
      full == {i \in 1..n : Full(keys, i, max)}
      page == SubSeq(keys, 1, IF full = {} THEN n ELSE CHOOSE i \in 0..n :
                                i + 1 \in full /\ \A j \in full : i < j)
  IN  [objects |-> Filter(page, {k \in ToSet(page) : Alone(k)}),
       prefixes |-> {CommonPrefix(k) : k \in {k \in ToSet(page) : ~ Alone(k)}},
       truncated |-> MoreThanFetched(found, max) \/ full # {}]

------------------------------------------------------------------------------
(***************************************************************************)
(* handleListObjectsV2 and its client                                      *)
(***************************************************************************)
PageSize(max) == IF max <= 0 \/ max > PageLimit THEN PageLimit ELSE max

(* Mutant: the continuation token is not looked at. *)
OnlyStart(start, token) == start
StartAfter(start, token) == IF start = <<>> THEN token ELSE start

Response(start, token) == ListObjects(StartAfter(start, token), PageSize(query.max))

(* A client goes on by start-after or, when it gave none, by continuation-token. *)
NextPages == {Response(after, <<>>)} \cup
             (IF query.start = <<>> THEN {Response(<<>>, after)} ELSE {})

(* The greatest entry of a page, or k. *)
LastEntry(page, k) ==
  LET ends == {k} \cup ToSet(page.objects) \cup page.prefixes
  IN  CHOOSE e \in ends : \A f \in ends : ~ Less(e, f)

Init == /\ \E S \in SUBSET Own : rows = S \cup Foreign
        /\ query \in Parameters
        /\ after = query.start
        /\ state = "idle"
        /\ listed = <<>> /\ groups = {}
        /\ always = {} /\ ever = {}
        /\ changes = 0

Page ==
  /\ state # "ended"
  /\ \E page \in NextPages :
       /\ listed' = listed \o page.objects
       /\ groups' = groups \cup page.prefixes
       /\ after' = LastEntry(page, after)
       /\ state' = IF page.truncated THEN "paging" ELSE "ended"
  /\ always' = IF state = "idle" THEN rows ELSE always
  /\ ever' = ever \cup rows
  /\ UNCHANGED <<rows, query, changes>>

Change == changes < MaxChanges /\ changes' = changes + 1

Put == /\ Change
       /\ \E r \in Own \ rows : rows' = rows \cup {r}
       /\ UNCHANGED <<client, always, ever>>

Delete == /\ Change
          /\ \E r \in Own \cap rows : rows' = rows \ {r} /\ always' = always \ {r}
          /\ UNCHANGED <<client, ever>>

Next == Page \/ Put \/ Delete

Spec == Init /\ [][Next]_vars

------------------------------------------------------------------------------
(***************************************************************************)
(* Properties                                                              *)
(***************************************************************************)
TypeOK == /\ rows \subseteq Own \cup Foreign
          /\ state \in {"idle", "paging", "ended"}
          /\ listed \in Seq(Keys)
          /\ always \subseteq ever
          /\ changes \in 0..MaxChanges

(* The rows of S the client asked for. *)
Wanted(S) == {k \in Keys : /\ objectMapKey(Bucket, k) \in S
                           /\ IsPrefix(query.prefix, k)
                           /\ query.start = <<>> \/ Less(query.start, k)}

(* However objects come and go between the pages, a key that is there the  *)
(* whole time and that the client has passed, or any when the listing is   *)
(* over, has been listed, itself or by a common prefix it begins with.     *)
NothingIsSkipped ==
  \A k \in Wanted(always) :
    state = "ended" \/ ~ Less(after, k) =>
      k \in ToSet(listed) \/ \E p \in groups : IsPrefix(p, k)

(* What is listed was there at some page, in this bucket, as an object of  *)
(* its own; a common prefix is one of an object that was.                  *)
NothingIsInvented ==
  /\ \A k \in ToSet(listed) : k \in Wanted(ever) /\ Alone(k)
  /\ \A p \in groups : \E k \in Wanted(ever) :
       ~ Alone(k) /\ p = CommonPrefix(k)

(* No object is listed twice, and they come in the order of their keys.    *)
AscendingOnce == \A i, j \in DOMAIN listed : i < j => Less(listed[i], listed[j])

(* A page holds no more objects than max-keys, which is at most the page   *)
(* limit, and says that it is truncated only if rows follow.  (Only a page *)
(* leaves the rows as they are.)                                           *)
PagesAreBounded ==
  [][rows' = rows =>
       /\ Len(listed') - Len(listed) <= PageLimit
       /\ query.max \in 1..PageLimit => Len(listed') - Len(listed) <= query.max
       /\ state' = "paging" => \E k \in Wanted(rows) : Less(after', k)]_vars

(* A truncated page of a listing without a delimiter ends behind where it  *)
(* began, so that a listing of finitely many keys comes to its end.        *)
PagesAdvance ==
  query.delimiter = <<>> =>
    \A page \in NextPages : page.truncated => Less(after, LastEntry(page, after))

(* With a delimiter it need not: when all rows fetched are under one       *)
(* common prefix, the page that resumes behind it is the same again.       *)
GroupedPagesAdvance ==
  \A page \in NextPages : page.truncated => Less(after, LastEntry(page, after))
==============================================================================
