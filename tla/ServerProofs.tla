---------------------------- MODULE ServerProofs ----------------------------
(***************************************************************************)
(* For any number of processes and uploads, with any faults: one process   *)
(* at a time has the database, what is acknowledged is stored for good,    *)
(* and what a shutdown within its grace period ends or leaves behind is    *)
(* nothing.                                                                *)
(***************************************************************************)
EXTENDS Server, TLAPS

(* A process past Open and before Close has the lock; an upload past the   *)
(* backup has its snapshot, one past the mapping has that, too.            *)
Exclusive == \A p \in Procs : HasOpened(p) => lock = p

Stored == \A u \in Uploads :
            /\ pc[u] \in {"unlink", "map", "reply", "acknowledged"} => u \in snaps
            /\ pc[u] \in {"reply", "acknowledged"} => u \in mapped

(* A process serves requests until it is told to stop; past that, only the *)
(* requests its grace period was too short for are still in flight.        *)
Served == /\ \A u \in Uploads : InFlight(u) =>
               /\ home[u] \in Procs
               /\ \/ phase[home[u]] \in {"serving", "draining"}
                  \/ phase[home[u]] \in {"closing", "closed"} /\ home[u] \in late
          /\ \A p \in Procs : phase[p] = "draining" => p \in signalled

(* What an upload can have left at each place. *)
Traces == /\ \A u \in files : pc[u] \in {"body", "backup", "unlink", "failed", "dropped"}
          /\ \A u \in children : pc[u] \in {"backup", "dropped"}
          /\ \A u \in snaps : pc[u] \in {"unlink", "map", "reply", "acknowledged", "failed", "dropped"}

Typed == /\ phase \in [Procs -> Phases]
         /\ pc \in [Uploads -> {"new", "body", "backup", "unlink", "map", "reply",
                                "acknowledged", "failed", "dropped"}]
         /\ home \in [Uploads -> Procs \cup {None}]
         /\ lock \in Procs \cup {None}
         /\ late \subseteq signalled /\ signalled \subseteq Procs
         /\ files \cup children \cup snaps \cup mapped \cup harmed \subseteq Uploads
         /\ faults \in 0..MaxFaults

IInv == Typed /\ Exclusive /\ Stored /\ Served /\ Traces /\ ShutdownIsGraceful

(* No process, no lock, no upload. *)
LEMMA InitInv == Init => IInv
BY NoneAssumption, BoundAssumption
   DEF Init, IInv, Typed, Exclusive, Stored, Served, Traces, ShutdownIsGraceful, Phases, HasOpened,
       InFlight

(* A fault keeps within the bound and harms what it names. *)
LEMMA FaultTyped ==
  ASSUME Typed, NEW us \in SUBSET Uploads, Fault(us) \/ NoFault
  PROVE  harmed' \subseteq Uploads /\ faults' \in 0..MaxFaults /\ harmed \subseteq harmed'
BY BoundAssumption DEF Typed, Fault, NoFault

(* The steps of a process other than its end leave the uploads alone. *)
LEMMA ProcessInv ==
  ASSUME IInv, NEW p \in Procs,
         Launch(p) \/ Start(p) \/ StartFails(p) \/ Signal(p) \/ Shutdown(p) \/ Drained(p)
           \/ GraceExpires(p) \/ CloseDB(p)
  PROVE  IInv'
PROOF
<1>1. /\ UNCHANGED <<pc, home, files, children, snaps, mapped>>
      /\ late \subseteq late' /\ signalled \subseteq signalled'
  BY DEF Launch, Start, Open, OpenTimesOut, Listen, StartFails, Signal, Shutdown, Drained,
         GraceExpires, CloseDB, upload, data
<1>2. Fault({}) \/ NoFault
  BY DEF Launch, Start, Open, OpenTimesOut, Listen, StartFails, Signal, Shutdown, Drained,
         GraceExpires, CloseDB
<1>3. harmed' \subseteq Uploads /\ faults' \in 0..MaxFaults /\ harmed \subseteq harmed'
  BY <1>2, FaultTyped DEF IInv
<1>4. Stored' /\ Traces' /\ ShutdownIsGraceful'
  BY <1>1, <1>3 DEF IInv, Stored, Traces, ShutdownIsGraceful
<1>5. Typed'
  <2>1. phase' \in [Procs -> Phases] /\ lock' \in Procs \cup {None}
    BY DEF IInv, Typed, Launch, Start, Open, OpenTimesOut, Listen, StartFails, Signal,
           Shutdown, Drained, GraceExpires, CloseDB, Move, Phases
  <2>2. late' \subseteq signalled' /\ signalled' \subseteq Procs
    BY DEF IInv, Typed, Served, Launch, Start, Open, OpenTimesOut, Listen, StartFails, Signal,
           Shutdown, Drained, GraceExpires, CloseDB, Move
  <2> QED BY <1>1, <1>3, <2>1, <2>2 DEF IInv, Typed
<1>6. Exclusive'
  <2>1. CASE Open(p)
    BY <2>1, NoneAssumption DEF IInv, Typed, Exclusive, HasOpened, Open, LockIsFree, Move
  <2>2. CASE CloseDB(p)
    BY <2>2 DEF IInv, Typed, Exclusive, HasOpened, CloseDB, Move
  <2>3. CASE Launch(p) \/ OpenTimesOut(p) \/ Listen(p) \/ StartFails(p) \/ Signal(p)
    BY <2>3 DEF IInv, Typed, Exclusive, HasOpened, Launch, OpenTimesOut, Listen, StartFails,
                Signal, Move
  <2>4. CASE Shutdown(p) \/ Drained(p) \/ GraceExpires(p)
    BY <2>4 DEF IInv, Typed, Exclusive, HasOpened, Shutdown, Drained, GraceExpires, Move
  <2> QED BY <2>1, <2>2, <2>3, <2>4 DEF Start
<1>7. Served'
  <2>1. \A u \in Uploads : InFlight(u)' <=> InFlight(u)
    BY <1>1 DEF InFlight
  <2>2. \A q \in Procs \ {p} : phase'[q] = phase[q]
    BY DEF IInv, Typed, Launch, Start, Open, OpenTimesOut, Listen, StartFails, Signal,
           Shutdown, Drained, GraceExpires, CloseDB, Move
  <2>3. ASSUME NEW u \in Uploads, InFlight(u), home[u] = p
        PROVE  \/ phase'[p] \in {"serving", "draining"}
               \/ phase'[p] \in {"closing", "closed"} /\ p \in late'
    <3>1. \/ phase[p] \in {"serving", "draining"}
          \/ phase[p] \in {"closing", "closed"} /\ p \in late
      BY <2>3 DEF IInv, Served
    <3>2. ~Idle(p)
      BY <2>3 DEF Idle, Of
    <3>3. CASE Signal(p) \/ Shutdown(p) \/ GraceExpires(p) \/ CloseDB(p)
      BY <3>1, <3>3 DEF IInv, Typed, Signal, Shutdown, GraceExpires, CloseDB, Move
    <3>4. CASE Launch(p) \/ Start(p) \/ StartFails(p) \/ Drained(p)
      BY <3>1, <3>2, <3>4 DEF Launch, Start, Open, OpenTimesOut, Listen, StartFails, Drained, Move
    <3> QED BY <3>3, <3>4
  <2>4. phase'[p] = "draining" => p \in signalled'
    BY DEF IInv, Typed, Served, Launch, Start, Open, OpenTimesOut, Listen, StartFails, Signal,
           Shutdown, Done, Drained, GraceExpires, CloseDB, Move
  <2>5. \A q \in Procs : phase'[q] = "draining" => q \in signalled'
    BY <1>1, <2>2, <2>4 DEF IInv, Served
  <2> QED BY <1>1, <2>1, <2>2, <2>3, <2>5 DEF IInv, Served
<1> QED BY <1>4, <1>5, <1>6, <1>7 DEF IInv

(* The end of a process, by itself after the grace period or by a crash. *)
LEMMA EndInv ==
  ASSUME IInv, NEW p \in Procs, Exit(p) \/ Crash(p)
  PROVE  IInv'
PROOF
<1>1. End(p) /\ (Fault(Of(p)) \/ NoFault) /\ Of(p) \in SUBSET Uploads
  BY DEF Exit, Crash, Of
<1>2. harmed' \subseteq Uploads /\ faults' \in 0..MaxFaults /\ harmed \subseteq harmed'
  BY <1>1, FaultTyped DEF IInv
<1>3. /\ \A u \in Uploads : pc'[u] = IF u \in Of(p) THEN "dropped" ELSE pc[u]
      /\ \A q \in Procs : phase'[q] = IF q = p THEN "gone" ELSE phase[q]
      /\ UNCHANGED <<signalled, late, home, files, children, snaps, mapped>>
  BY <1>1 DEF End, IInv, Typed, data
<1>4. Typed'
  BY <1>1, <1>2, <1>3 DEF IInv, Typed, End, Phases
<1>5. Exclusive'
  BY <1>1, <1>3 DEF IInv, Typed, Exclusive, HasOpened, End
<1>6. Stored' /\ Traces'
  BY <1>3 DEF IInv, Typed, Stored, Traces
<1>7. Served'
  <2>1. ASSUME NEW u \in Uploads, InFlight(u)' PROVE InFlight(u) /\ home[u] # p
    BY <1>3, <2>1 DEF InFlight, Of
  <2> QED BY <1>3, <2>1 DEF IInv, Served
<1>8. ShutdownIsGraceful'
  <2>1. ASSUME NEW u \in Of(p) PROVE u \in harmed' \/ home[u] \in late
    BY <2>1 DEF IInv, Served, Of, Exit, Crash, Fault
  <2> QED BY <1>2, <1>3, <2>1 DEF IInv, ShutdownIsGraceful
<1> QED BY <1>4, <1>5, <1>6, <1>7, <1>8 DEF IInv

(* A request that fails without a fault of its own has met a closed        *)
(* database, and so outlived the grace period.                             *)
LEMMA FailsForAReason ==
  ASSUME IInv, NEW u \in Uploads, Handle(u), pc'[u] = "failed"
  PROVE  u \in harmed' \/ home[u] \in late
PROOF
<1>1. CASE BodyBreaks(u) \/ BackupFails(u)
  BY <1>1 DEF BodyBreaks, BackupFails, Fault
<1>2. CASE PutObjectMapping(u)
  <2>1. CASE HasDB(home[u]) /\ Goto(u, "map", "reply")
    BY <2>1 DEF IInv, Typed, Goto
  <2>2. CASE ~HasDB(home[u]) /\ Goto(u, "map", "failed")
    <3>1. InFlight(u)
      BY <2>2 DEF Goto, InFlight
    <3>2. home[u] \in Procs /\ ~HasOpened(home[u])
      BY <2>2, <3>1 DEF IInv, Served, Exclusive, HasDB
    <3> QED BY <3>1, <3>2 DEF IInv, Served, HasOpened
  <2>3. CASE Fault({u})
    BY <2>3 DEF Fault
  <2> QED BY <1>2, <2>1, <2>2, <2>3 DEF PutObjectMapping
<1>3. CASE BodyEnds(u) \/ BackupDone(u) \/ Unlink(u) \/ Reply(u)
  BY <1>3 DEF IInv, Typed, BodyEnds, BackupDone, Unlink, Reply, Goto
<1> QED BY <1>1, <1>2, <1>3 DEF Handle

(* The steps of an upload leave the processes and the other uploads alone. *)
LEMMA UploadInv ==
  ASSUME IInv, NEW u \in Uploads,
         Handle(u) \/ Orphaned(u) \/ \E p \in Procs : Accept(u, p)
  PROVE  IInv'
PROOF
<1>1. UNCHANGED process
  BY DEF Handle, Orphaned, Accept, BodyEnds, BodyBreaks, BackupDone, BackupFails, Unlink,
         PutObjectMapping, Reply
<1>2. Exclusive'
  BY <1>1 DEF IInv, Exclusive, HasOpened, process
<1>3. Fault({u}) \/ NoFault
  BY DEF Handle, Orphaned, Accept, BodyEnds, BodyBreaks, BackupDone, BackupFails, Unlink,
         PutObjectMapping, Reply
<1>4. harmed' \subseteq Uploads /\ faults' \in 0..MaxFaults /\ harmed \subseteq harmed'
  BY <1>3, FaultTyped DEF IInv
<1>5. \A v \in Uploads \ {u} : /\ pc'[v] = pc[v] /\ home'[v] = home[v]
                               /\ v \in files' <=> v \in files
                               /\ v \in children' <=> v \in children
                               /\ v \in snaps' <=> v \in snaps
                               /\ v \in mapped' <=> v \in mapped
  <2>1. CASE \E p \in Procs : Accept(u, p)
    BY <2>1 DEF IInv, Typed, Accept, Goto
  <2>2. CASE Handle(u)
    BY <2>2 DEF IInv, Typed, Handle, BodyEnds, BodyBreaks, BackupDone, BackupFails, Unlink,
                WithoutFile, PutObjectMapping, Reply, Goto, data
  <2>3. CASE Orphaned(u)
    BY <2>3 DEF Orphaned, upload
  <2> QED BY <2>1, <2>2, <2>3
<1>6. Typed'
  <2> USE <1>1, <1>4 DEF IInv, Typed, Goto, process
  <2>1. CASE \E p \in Procs : Accept(u, p)
    BY <2>1 DEF Accept
  <2>2. CASE BodyEnds(u) \/ BodyBreaks(u) \/ BackupDone(u)
    BY <2>2 DEF BodyEnds, BodyBreaks, BackupDone
  <2>3. CASE BackupFails(u)
    BY <2>3 DEF BackupFails
  <2>4. CASE Unlink(u) \/ Reply(u)
    BY <2>4 DEF Unlink, WithoutFile, Reply, data
  <2>5. CASE PutObjectMapping(u)
    BY <2>5 DEF PutObjectMapping
  <2>6. CASE Orphaned(u)
    BY <2>6 DEF Orphaned, upload
  <2> QED BY <2>1, <2>2, <2>3, <2>4, <2>5, <2>6 DEF Handle
<1>7. /\ (pc[u] \in {"unlink", "map", "reply", "acknowledged"} => u \in snaps)'
      /\ (pc[u] \in {"reply", "acknowledged"} => u \in mapped)'
      /\ (u \in files => pc[u] \in {"body", "backup", "unlink", "failed", "dropped"})'
      /\ (u \in children => pc[u] \in {"backup", "dropped"})'
      /\ (u \in snaps =>
            pc[u] \in {"unlink", "map", "reply", "acknowledged", "failed", "dropped"})'
  <2> USE DEF IInv, Typed, Stored, Traces, Goto
  <2>1. CASE \E p \in Procs : Accept(u, p)
    BY <2>1 DEF Accept
  <2>2. CASE BodyEnds(u) \/ BodyBreaks(u) \/ BackupDone(u)
    BY <2>2 DEF BodyEnds, BodyBreaks, BackupDone
  <2>3. CASE BackupFails(u)
    BY <2>3 DEF BackupFails
  <2>4. CASE Unlink(u) \/ Reply(u)
    BY <2>4 DEF Unlink, WithoutFile, Reply, data
  <2>5. CASE PutObjectMapping(u)
    BY <2>5 DEF PutObjectMapping, HasDB
  <2>6. CASE Orphaned(u)
    <3>1. pc[u] = "dropped"
      BY <2>6, NoneAssumption DEF Orphaned, Alive, Running, Served, InFlight
    <3> QED BY <2>6, <3>1 DEF Orphaned, upload
  <2> QED BY <2>1, <2>2, <2>3, <2>4, <2>5, <2>6 DEF Handle
<1>8. Stored' /\ Traces'
  BY <1>5, <1>6, <1>7 DEF IInv, Typed, Stored, Traces
<1>9. Served'
  <2>1. InFlight(u)' => home'[u] \in Procs /\ (phase[home'[u]] = "serving" \/
                                              (InFlight(u) /\ home'[u] = home[u]))
    <3>1. CASE \E p \in Procs : Accept(u, p)
      BY <3>1 DEF IInv, Typed, Accept
    <3>2. CASE Handle(u)
      <4>1. home' = home /\ InFlight(u)
        BY <3>2 DEF Handle, BodyEnds, BodyBreaks, BackupDone, BackupFails, Unlink,
                    PutObjectMapping, Reply, Goto, InFlight
      <4> QED BY <4>1 DEF IInv, Served
    <3>3. CASE Orphaned(u)
      BY <3>3 DEF IInv, Served, Orphaned, upload, InFlight
    <3> QED BY <3>1, <3>2, <3>3
  <2>2. \A v \in Uploads \ {u} : InFlight(v)' <=> InFlight(v)
    BY <1>5 DEF InFlight
  <2> QED BY <1>1, <1>5, <2>1, <2>2 DEF IInv, Served, process
<1>10. ShutdownIsGraceful'
  <2>1. pc'[u] \in {"failed", "dropped"} => u \in harmed' \/ home'[u] \in late
    <3>1. CASE \E p \in Procs : Accept(u, p)
      BY <3>1 DEF IInv, Typed, Accept, Goto
    <3>2. CASE Handle(u)
      <4>1. home' = home /\ pc'[u] # "dropped"
        BY <3>2 DEF IInv, Typed, Handle, BodyEnds, BodyBreaks, BackupDone, BackupFails, Unlink,
                    PutObjectMapping, Reply, Goto
      <4> QED BY <3>2, <4>1, FailsForAReason
    <3>3. CASE Orphaned(u)
      BY <3>3, <1>4 DEF IInv, ShutdownIsGraceful, Orphaned, upload
    <3> QED BY <3>1, <3>2, <3>3
  <2> QED BY <1>1, <1>4, <1>5, <2>1 DEF IInv, ShutdownIsGraceful, process
<1> QED BY <1>2, <1>6, <1>8, <1>9, <1>10 DEF IInv

(* A step is one process's, one upload's, or an end that touches both. *)
LEMMA NextInv == IInv /\ [Next]_vars => IInv'
PROOF
<1> SUFFICES ASSUME IInv, [Next]_vars PROVE IInv'
  OBVIOUS
<1>1. CASE \E p \in Procs : Crash(p) \/ Exit(p)
  BY <1>1, EndInv
<1>2. CASE \E p \in Procs : \/ Launch(p) \/ Start(p) \/ StartFails(p) \/ Signal(p)
                            \/ Shutdown(p) \/ Drained(p) \/ GraceExpires(p) \/ CloseDB(p)
  BY <1>2, ProcessInv
<1>3. CASE \E u \in Uploads : Handle(u) \/ Orphaned(u) \/ \E p \in Procs : Accept(u, p)
  BY <1>3, UploadInv
<1>4. CASE UNCHANGED vars
  BY <1>4 DEF IInv, Typed, Exclusive, Stored, Served, Traces, ShutdownIsGraceful, HasOpened,
              InFlight, vars, process, upload, data
<1> QED BY <1>1, <1>2, <1>3, <1>4 DEF Next, Stop

(* The inductive invariant holds through overlaps, crashes and restarts. *)
LEMMA Invariance == Spec => []IInv
PROOF
<1>1. Init => IInv
  BY InitInv
<1>2. IInv /\ [Next]_vars => IInv'
  BY NextInv
<1> QED BY <1>1, <1>2, PTL DEF Spec

(* However many processes are started, one of them has the database open. *)
THEOREM OneOwner == Spec => []OneDatabase
PROOF
<1>1. IInv => OneDatabase
  BY DEF IInv, Exclusive, OneDatabase
<1> QED BY <1>1, Invariance, PTL

(* An upload that was acknowledged keeps its mapping and its snapshot      *)
(* through shutdowns, crashes and restarts.                                *)
THEOREM Durable == Spec => []AcknowledgedIsStored
PROOF
<1>1. IInv => AcknowledgedIsStored
  BY DEF IInv, Stored, AcknowledgedIsStored
<1> QED BY <1>1, Invariance, PTL

(* Types, and that a proxmox-backup-client runs for requests at that place *)
(* and for those whose process has gone.                                   *)
THEOREM TypeCorrect == Spec => []TypeOK
PROOF
<1>1. IInv => TypeOK
  BY DEF IInv, Typed, Traces, TypeOK
<1> QED BY <1>1, Invariance, PTL

(* A shutdown that is given its time cuts no request off and fails none.   *)
THEOREM Graceful == Spec => []ShutdownIsGraceful
PROOF
<1>1. IInv => ShutdownIsGraceful
  BY DEF IInv
<1> QED BY <1>1, Invariance, PTL

(* No scratch file and no unmapped snapshot outlives a request that ended  *)
(* well: each belongs to one in flight, or to one that a fault or the end  *)
(* of the grace period met.                                                *)
THEOREM LeftoversExplained == Spec => []LeftoversHaveReason
PROOF
<1>1. ASSUME IInv, NEW u \in files \cup (snaps \ mapped)
      PROVE  \/ InFlight(u)
             \/ pc[u] \in {"failed", "dropped"} /\ (u \in harmed \/ home[u] \in late)
  <2>1. u \in Uploads
    BY <1>1 DEF IInv, Typed
  <2>2. pc[u] # "acknowledged"
    BY <1>1, <2>1 DEF IInv, Traces, Stored
  <2>3. InFlight(u) \/ pc[u] \in {"failed", "dropped"}
    BY <1>1, <2>2 DEF IInv, Traces, InFlight
  <2> QED BY <1>1, <2>1, <2>3 DEF IInv, ShutdownIsGraceful
<1>2. IInv => LeftoversHaveReason
  BY <1>1 DEF LeftoversHaveReason
<1> QED BY <1>2, Invariance, PTL
=============================================================================
