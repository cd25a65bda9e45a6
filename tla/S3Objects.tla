------------------------------ MODULE S3Objects ------------------------------
(***************************************************************************)
(* What the bridge promises an S3 client about whole objects: each key     *)
(* holds a content or nothing, and a request takes effect at one instant   *)
(* between its arrival and its answer, whatever else is running.  An       *)
(* upload or deletion that answers an error has had no effect; a download  *)
(* that answers ok delivers what the key held at that instant.             *)
(***************************************************************************)
CONSTANTS Procs, Keys, Bodies, None

VARIABLES objects,  \* the content of each key, or None
          phase,    \* of each request: "idle", "pending", "read", "done"
          request,  \* what it asks: [op, key, body]
          seen,     \* what a download found
          answer    \* the response: [status, body]

vars == <<objects, phase, request, seen, answer>>

Put == [op : {"put"}, key : Keys, body : Bodies]
Delete == [op : {"delete"}, key : Keys, body : {None}]
Get == [op : {"get"}, key : Keys, body : {None}]

Init == /\ objects = [k \in Keys |-> None]
        /\ phase = [p \in Procs |-> "idle"]
        /\ request = [p \in Procs |-> None]
        /\ seen = [p \in Procs |-> None]
        /\ answer = [p \in Procs |-> None]

Receive(p, r) == /\ phase[p] = "idle"
                 /\ phase' = [phase EXCEPT ![p] = "pending"]
                 /\ request' = [request EXCEPT ![p] = r]
                 /\ UNCHANGED <<objects, seen, answer>>

Reply(p, status, body) == /\ phase' = [phase EXCEPT ![p] = "done"]
                      /\ answer' = [answer EXCEPT ![p] = [status |-> status, body |-> body]]

(* An upload replaces the content, a deletion empties the key. *)
Write(p) == /\ phase[p] = "pending"
            /\ request[p] \in Put \cup Delete
            /\ objects' = [objects EXCEPT ![request[p].key] = request[p].body]
            /\ Reply(p, "ok", None)
            /\ UNCHANGED <<request, seen>>

(* A download of an empty key says so. *)
Miss(p) == /\ phase[p] = "pending"
           /\ request[p] \in Get
           /\ objects[request[p].key] = None
           /\ Reply(p, "ok", None)
           /\ UNCHANGED <<objects, request, seen>>

(* Otherwise it finds the content ... *)
Find(p) == /\ phase[p] = "pending"
           /\ request[p] \in Get
           /\ objects[request[p].key] # None
           /\ phase' = [phase EXCEPT ![p] = "read"]
           /\ seen' = [seen EXCEPT ![p] = objects[request[p].key]]
           /\ UNCHANGED <<objects, request, answer>>

(* ... and delivers it. *)
Deliver(p) == /\ phase[p] = "read"
              /\ Reply(p, "ok", seen[p])
              /\ UNCHANGED <<objects, request, seen>>

(* Any request may fail instead, with no effect. *)
Fail(p) == /\ phase[p] \in {"pending", "read"}
           /\ Reply(p, "error", None)
           /\ UNCHANGED <<objects, request, seen>>

Clear(S) == /\ phase' = [p \in Procs |-> IF p \in S THEN "idle" ELSE phase[p]]
            /\ request' = [p \in Procs |-> IF p \in S THEN None ELSE request[p]]
            /\ seen' = [p \in Procs |-> IF p \in S THEN None ELSE seen[p]]
            /\ answer' = [p \in Procs |-> IF p \in S THEN None ELSE answer[p]]
            /\ UNCHANGED objects

Return(p) == phase[p] = "done" /\ Clear({p})

(* A crash loses the requests in flight, before or after their effect. *)
Crash == Clear(Procs)

Next == \/ \E p \in Procs : \/ \E r \in Put \cup Delete \cup Get : Receive(p, r)
                            \/ Write(p) \/ Miss(p) \/ Find(p) \/ Deliver(p)
                            \/ Fail(p) \/ Return(p)
        \/ Crash

Spec == Init /\ [][Next]_vars
==============================================================================
