------------------------------- MODULE Server -------------------------------
(***************************************************************************)
(* The life of bridge processes, cmd/bridge/main.go, on one data and one   *)
(* scratch directory, with uploads (PutObject of internal/backend) running *)
(* in them: start, shutdown on a signal with its grace period, crash, and  *)
(* the process that comes next, which may be started before the last one   *)
(* has gone.                                                               *)
(*                                                                         *)
(* Each upload has a key of its own (Objects has those that share one),    *)
(* so a snapshot, a mapping and a put-*.tmp file are named by the upload   *)
(* they are of.                                                            *)
(***************************************************************************)
EXTENDS Naturals, FiniteSets

CONSTANTS Procs,         \* processes; each runs once
          Uploads,       \* PutObject requests; each is sent once
          None,
          MaxFaults      \* bound: crashes, failed runs, failed writes, broken connections

ASSUME NoneAssumption == None \notin Procs
ASSUME BoundAssumption == MaxFaults \in Nat

VARIABLES phase,      \* of a process: the place it has got to in run
          signalled,  \* the context of signal.NotifyContext is done
          late,       \* the grace period of the shutdown has run out
          lock,       \* the process that has bridge.db open, or None
          pc,         \* of an upload
          home,       \* the process that serves it, or None
          files,      \* the uploads with a put-*.tmp file
          children,   \* the uploads a proxmox-backup-client runs for
          snaps,      \* the uploads PBS has a snapshot of
          mapped,     \* the uploads bridge.db has a mapping of
          harmed,     \* history: the uploads a fault happened to
          faults

process == <<phase, signalled, late, lock>>
upload == <<pc, home>>
data == <<files, children, snaps, mapped>>
vars == <<process, upload, data, harmed, faults>>

Phases == {"new", "opening", "starting", "serving", "draining", "closing", "closed", "gone"}

Running(p) == phase[p] \notin {"new", "gone"}
InFlight(u) == pc[u] \in {"body", "backup", "unlink", "map", "reply"}
Of(p) == {u \in Uploads : home[u] = p /\ InFlight(u)}

Init == /\ phase = [p \in Procs |-> "new"]
        /\ signalled = {} /\ late = {} /\ lock = None
        /\ pc = [u \in Uploads |-> "new"]
        /\ home = [u \in Uploads |-> None]
        /\ files = {} /\ children = {} /\ snaps = {} /\ mapped = {}
        /\ harmed = {} /\ faults = 0

Move(p, from, to) == phase[p] = from /\ phase' = [phase EXCEPT ![p] = to]

Fault(us) == faults < MaxFaults /\ faults' = faults + 1 /\ harmed' = harmed \cup us
NoFault == UNCHANGED <<harmed, faults>>

------------------------------------------------------------------------------
(***************************************************************************)
(* Starting: store.Open waits five seconds for the lock on the file, then  *)
(* gives up; then the scratch directory and the listener.  An error closes *)
(* the database on the way out.                                            *)
(***************************************************************************)
Launch(p) == /\ Move(p, "new", "opening")
             /\ UNCHANGED <<signalled, late, lock, upload, data>> /\ NoFault

LockIsFree == lock = None

Open(p) == /\ Move(p, "opening", "starting")
           /\ LockIsFree /\ lock' = p
           /\ UNCHANGED <<signalled, late, upload, data>> /\ NoFault

WaitEnds(p) == ~LockIsFree

OpenTimesOut(p) == /\ Move(p, "opening", "gone")
                   /\ WaitEnds(p)
                   /\ UNCHANGED <<signalled, late, lock, upload, data>> /\ NoFault

Listen(p) == /\ Move(p, "starting", "serving")
             /\ UNCHANGED <<signalled, late, lock, upload, data>> /\ NoFault

StartFails(p) == /\ Move(p, "starting", "closing")
                 /\ Fault({})
                 /\ UNCHANGED <<signalled, late, lock, upload, data>>

------------------------------------------------------------------------------
(***************************************************************************)
(* Stopping: a signal ends the context, Shutdown closes the listener and   *)
(* waits for the requests in flight, for thirty seconds at most; whatever  *)
(* it returns, run closes the database and the process exits.  A second    *)
(* signal changes nothing.                                                 *)
(***************************************************************************)
Signal(p) == /\ phase[p] \in {"serving", "draining"}
             /\ p \notin signalled
             /\ signalled' = signalled \cup {p}
             /\ UNCHANGED <<phase, late, lock, upload, data>> /\ NoFault

Done(p) == p \in signalled

Shutdown(p) == /\ Done(p) /\ Move(p, "serving", "draining")
               /\ UNCHANGED <<signalled, late, lock, upload, data>> /\ NoFault

(* Mutant: Shutdown waits for nothing. *)
NobodyAsked(p) == TRUE
Idle(p) == Of(p) = {}

Drained(p) == /\ Move(p, "draining", "closing")
              /\ Idle(p)
              /\ UNCHANGED <<signalled, late, lock, upload, data>> /\ NoFault

(* Mutant: the grace period is not limited. *)
Endless(p) == FALSE
TimedOut(p) == ~Idle(p)

GraceExpires(p) == /\ Move(p, "draining", "closing")
                   /\ TimedOut(p)
                   /\ late' = late \cup {p}
                   /\ UNCHANGED <<signalled, lock, upload, data>> /\ NoFault

CloseDB(p) == /\ Move(p, "closing", "closed")
              /\ lock' = IF lock = p THEN None ELSE lock
              /\ UNCHANGED <<signalled, late, upload, data>> /\ NoFault

(* The process ends: its requests with it, its children without it. *)
End(p) == /\ phase' = [phase EXCEPT ![p] = "gone"]
          /\ lock' = IF lock = p THEN None ELSE lock
          /\ pc' = [u \in Uploads |-> IF u \in Of(p) THEN "dropped" ELSE pc[u]]
          /\ UNCHANGED <<signalled, late, home, data>>

Exit(p) == phase[p] = "closed" /\ End(p) /\ NoFault

Crash(p) == Running(p) /\ End(p) /\ Fault(Of(p))

------------------------------------------------------------------------------
(***************************************************************************)
(* One upload: WriteToTemp, commitObjectLocked.                            *)
(***************************************************************************)
Goto(u, from, to) == pc[u] = from /\ pc' = [pc EXCEPT ![u] = to]

Alive(u) == home[u] # None /\ Running(home[u])

(* Until Shutdown closes it, the listener accepts. *)
Accept(u, p) == /\ phase[p] = "serving"
                /\ Goto(u, "new", "body")
                /\ home' = [home EXCEPT ![u] = p]
                /\ files' = files \cup {u}
                /\ UNCHANGED <<process, children, snaps, mapped>> /\ NoFault

BodyEnds(u) == /\ Alive(u) /\ Goto(u, "body", "backup")
               /\ children' = children \cup {u}
               /\ UNCHANGED <<process, home, files, snaps, mapped>> /\ NoFault

BodyBreaks(u) == /\ Alive(u) /\ Goto(u, "body", "failed")
                 /\ Fault({u})
                 /\ files' = files \ {u}
                 /\ UNCHANGED <<process, home, children, snaps, mapped>>

BackupDone(u) == /\ Alive(u) /\ Goto(u, "backup", "unlink")
                 /\ children' = children \ {u} /\ snaps' = snaps \cup {u}
                 /\ UNCHANGED <<process, home, files, mapped>> /\ NoFault

(* The run fails, or is killed because the client has gone; it may have    *)
(* made the snapshot.  put-*.tmp stays.                                    *)
BackupFails(u) == /\ Alive(u) /\ Goto(u, "backup", "failed")
                  /\ Fault({u})
                  /\ children' = children \ {u} /\ snaps' \in {snaps, snaps \cup {u}}
                  /\ UNCHANGED <<process, home, files, mapped>>

(* Mutant: the scratch file is forgotten. *)
KeepFile(u) == files
WithoutFile(u) == files \ {u}

Unlink(u) == /\ Alive(u) /\ Goto(u, "unlink", "map")
             /\ files' = WithoutFile(u)
             /\ UNCHANGED <<process, home, children, snaps, mapped>> /\ NoFault

(* Mutant: the error of a closed database is not looked at. *)
ClosedIsFine(p) == TRUE
HasDB(p) == lock = p

PutObjectMapping(u) ==
  /\ Alive(u)
  /\ UNCHANGED <<process, home, files, children, snaps>>
  /\ \/ /\ HasDB(home[u]) /\ Goto(u, "map", "reply")
        /\ mapped' = mapped \cup (IF lock = home[u] THEN {u} ELSE {}) /\ NoFault
     \/ ~HasDB(home[u]) /\ Goto(u, "map", "failed") /\ UNCHANGED mapped /\ NoFault
     \/ Goto(u, "map", "failed") /\ UNCHANGED mapped /\ Fault({u})

Reply(u) == /\ Alive(u) /\ Goto(u, "reply", "acknowledged")
            /\ UNCHANGED <<process, home, data>> /\ NoFault

(* A child whose process is gone goes on by itself, or dies with it. *)
Orphaned(u) == /\ u \in children /\ ~Alive(u)
               /\ children' = children \ {u} /\ snaps' \in {snaps, snaps \cup {u}}
               /\ UNCHANGED <<process, upload, files, mapped>> /\ NoFault

Stop(p) == Shutdown(p) \/ Drained(p) \/ GraceExpires(p) \/ CloseDB(p) \/ Exit(p)

Start(p) == Open(p) \/ OpenTimesOut(p) \/ Listen(p)

Handle(u) == \/ BodyEnds(u) \/ BodyBreaks(u) \/ BackupDone(u) \/ BackupFails(u)
             \/ Unlink(u) \/ PutObjectMapping(u) \/ Reply(u)

Next == \/ \E p \in Procs : \/ Launch(p) \/ Start(p) \/ StartFails(p)
                            \/ Signal(p) \/ Stop(p) \/ Crash(p)
        \/ \E u \in Uploads, p \in Procs : Accept(u, p)
        \/ \E u \in Uploads : Handle(u) \/ Orphaned(u)

(* The process moves on, and its timers run out.  Clients and              *)
(* proxmox-backup-client owe nothing: bodies may stall, runs may hang.     *)
Fairness == \A p \in Procs : WF_vars(Start(p)) /\ WF_vars(Stop(p))

Spec == Init /\ [][Next]_vars /\ Fairness

------------------------------------------------------------------------------
TypeOK == /\ phase \in [Procs -> Phases]
          /\ signalled \subseteq Procs /\ late \subseteq signalled
          /\ lock \in Procs \cup {None}
          /\ pc \in [Uploads -> {"new", "body", "backup", "unlink", "map", "reply",
                                 "acknowledged", "failed", "dropped"}]
          /\ home \in [Uploads -> Procs \cup {None}]
          /\ children \subseteq {u \in Uploads : pc[u] \in {"backup", "dropped"}}
          /\ files \cup snaps \cup mapped \cup harmed \subseteq Uploads
          /\ faults \in 0..MaxFaults

(***************************************************************************)
(* What a client was told is stored is stored, and a later process finds   *)
(* it: put_object.go:13 after the mapping was written, never after the     *)
(* database was closed under the request (main.go:108).                    *)
(***************************************************************************)
AcknowledgedIsStored == \A u \in Uploads : pc[u] = "acknowledged" => u \in mapped \cap snaps

(***************************************************************************)
(* A shutdown cuts no request off and fails none, unless the grace period  *)
(* ran out: every other request that got no answer, or an error, met with  *)
(* a fault of its own.                                                     *)
(***************************************************************************)
ShutdownIsGraceful ==
  \A u \in Uploads : pc[u] \in {"failed", "dropped"} => u \in harmed \/ home[u] \in late

(***************************************************************************)
(* A put-*.tmp file outlives only an upload that failed or was cut off,    *)
(* and a snapshot without a mapping likewise (backend.go:132, :185).       *)
(***************************************************************************)
LeftoversHaveReason ==
  \A u \in files \cup (snaps \ mapped) :
    \/ InFlight(u)
    \/ pc[u] \in {"failed", "dropped"} /\ (u \in harmed \/ home[u] \in late)

(***************************************************************************)
(* Two processes never have the database open at once, however closely     *)
(* one follows the other (bbolt.go:33): none can serve from a mapping      *)
(* another one still changes.                                              *)
(***************************************************************************)
HasOpened(p) == phase[p] \in {"starting", "serving", "draining", "closing"}
OneDatabase == \A p, q \in Procs : HasOpened(p) /\ HasOpened(q) => p = q

(***************************************************************************)
(* A signalled process ends though clients stall and runs hang, and one    *)
(* that waits for the database gets it or gives up.                        *)
(***************************************************************************)
SignalledProcessEnds == \A p \in Procs : p \in signalled ~> phase[p] = "gone"
OpeningEnds == \A p \in Procs : phase[p] = "opening" ~> phase[p] # "opening"
==============================================================================
