------------------------------ MODULE PBSClient ------------------------------
(***************************************************************************)
(* One call of pbs.Client (internal/pbs/client.go) against a PBS group:    *)
(* Backup with its collision loop, Forget, and Restore or UpdateNotes,     *)
(* which need a snapshot and change none.  Each goes through runWithRetry, *)
(* which repeats a run that failed transiently within Client.Timeout.      *)
(*                                                                         *)
(* What a failed run's stderr matches (errors.go) is any set of Classes:   *)
(* the words looked for may stand there by accident, or be missing.        *)
(*                                                                         *)
(* Time is counted in units of transientRetryBaseDelay.  Calls on one      *)
(* group come one after the other (the group lock of module Objects); the  *)
(* clock of the group's backup times is apart from the one of the budget.  *)
(***************************************************************************)
EXTENDS Integers

CONSTANTS MaxCollisionRetries,
          MaxTransientRetries,
          BaseDelay, MaxDelay,  \* transientRetryBaseDelay and transientRetryMaxDelay
          Timeout,              \* Client.Timeout
          History,              \* the backup times a group may have before the call comes
          None,
          MaxFaults             \* bound: how many runs fail, or are refused in other words

ASSUME BoundAssumption == /\ MaxCollisionRetries \in Nat
                          /\ MaxTransientRetries \in Nat \ {0}
                          /\ BaseDelay \in Nat \ {0} /\ MaxDelay \in Nat \ {0}
                          /\ Timeout \in Nat \ {0}
                          /\ History \subseteq Nat
                          /\ MaxFaults \in Nat

ASSUME NoneAssumption == None \notin {"ok", "error", "exhausted"}

VARIABLES stored,   \* the backup times of the group's snapshots
          pc,       \* "idle", "run", "backoff" or "done"
          op,       \* "backup", "forget" or "use"
          asked,    \* the backup time of the call
          time,     \* the one of the current run
          bumps,    \* collisions Backup has met
          attempt,  \* of the current runWithRetry
          delay,    \* its next backoff
          wake,     \* when the backoff ends
          deadline, \* when the context of the current runWithRetry is done
          text,     \* in a backoff, the classes of the error that led to it
          elapsed,  \* time since the call
          answer,   \* "ok", "error" or "exhausted"
          before,   \* the group's backup times when the call came
          faults,
          lost,     \* failed runs of this call that had had their effect
          misled    \* a run of this call failed in words of a refusal that was none

loop == <<attempt, delay, wake, deadline, text>>
history == <<before, faults, lost, misled>>
vars == <<stored, pc, op, asked, time, bumps, loop, elapsed, answer, history>>

(* IsTransient, IsBackupTimeCollision, IsNotFound *)
Classes == {"transient", "collision", "missing"}

Init == /\ stored \in SUBSET History
        /\ pc = "idle" /\ op = None /\ asked = 0 /\ time = 0 /\ bumps = 0
        /\ attempt = 0 /\ delay = 0 /\ wake = 0 /\ deadline = 0 /\ text = {}
        /\ elapsed = 0 /\ answer = None /\ before = stored
        /\ faults = 0 /\ lost = 0 /\ misled = FALSE

------------------------------------------------------------------------------
(***************************************************************************)
(* runWithRetry                                                            *)
(***************************************************************************)
(* Enter it: a context of its own, the first attempt. *)
Enter == /\ pc' = "run"
         /\ attempt' = 1
         /\ delay' = BaseDelay
         /\ wake' = 0
         /\ deadline' = elapsed + Timeout
         /\ text' = {}

Leave(a) == pc' = "done" /\ answer' = a

Fault == faults < MaxFaults /\ faults' = faults + 1

(* Backup times ascend in a group. *)
Accepts(t) == \A s \in stored : s < t

(* What a run does on the server. *)
Effect ==
  \/ op = "backup" /\ Accepts(time) /\ stored' = stored \cup {time}
  \/ op = "forget" /\ time \in stored /\ stored' = stored \ {time}
  \/ op = "use" /\ time \in stored /\ UNCHANGED stored

Call ==
  /\ pc = "idle"
  /\ op' \in {"backup", "forget", "use"}
  /\ asked' \in History
  /\ time' = asked'
  /\ before' = stored
  /\ Enter
  /\ UNCHANGED <<stored, bumps, elapsed, answer, faults, lost, misled>>

(* Mutant: no context is made for the call. *)
NeverDone == FALSE
BudgetDone == elapsed = deadline

(* Mutant: one collision fewer is resolved. *)
LastCollision == bumps + 1 >= MaxCollisionRetries
NoMoreBumps == bumps >= MaxCollisionRetries

(* What Backup and Forget do with the error runWithRetry returns: a collision is *)
(* tried again a second later, a missing snapshot is as good as forgotten.       *)
Conclude(t) ==
  \/ /\ op = "backup" /\ "collision" \in t
     /\ time' = time + 1
     /\ IF NoMoreBumps
        THEN Leave("exhausted") /\ UNCHANGED <<bumps, loop>>
        ELSE bumps' = bumps + 1 /\ Enter /\ UNCHANGED answer
  \/ /\ op = "forget" /\ "missing" \in t
     /\ Leave("ok")
     /\ UNCHANGED <<time, bumps, loop>>
  \/ /\ ~ (op = "backup" /\ "collision" \in t) /\ ~ (op = "forget" /\ "missing" \in t)
     /\ Leave("error")
     /\ UNCHANGED <<time, bumps, loop>>

MoreAttempts == attempt < MaxTransientRetries

AtMost(n, m) == IF n > m THEN m ELSE n

(* A run has failed with t: what is transient comes first. *)
Judge(t) ==
  IF "transient" \in t /\ MoreAttempts /\ ~ BudgetDone
  THEN /\ pc' = "backoff"
       /\ wake' = elapsed + delay
       /\ delay' = AtMost(3 * delay, MaxDelay)
       /\ text' = t
       /\ UNCHANGED <<attempt, deadline, time, bumps, answer>>
  ELSE Conclude(t)

Succeed ==
  /\ pc = "run" /\ elapsed < deadline
  /\ Effect
  /\ Leave("ok")
  /\ UNCHANGED <<op, asked, time, bumps, loop, elapsed, history>>

(* A run that fails, or is killed, may have had its effect before. *)
EffectOrNot == \/ Effect /\ lost' = lost + 1
               \/ UNCHANGED <<stored, lost>>

(* The words that send this call into one of its branches. *)
Refusal == IF op = "backup" THEN {"collision"} ELSE {"missing"}

RunFails ==
  /\ pc = "run" /\ Fault
  /\ EffectOrNot
  /\ \E t \in SUBSET Classes : Judge(t) /\ misled' = (misled \/ Refusal \subseteq t)
  /\ UNCHANGED <<op, asked, elapsed, before>>

Killed ==
  /\ pc = "run" /\ BudgetDone
  /\ EffectOrNot
  /\ Judge({})
  /\ UNCHANGED <<op, asked, elapsed, before, faults, misled>>

(* PBS has the backup time or a later one, or has no such snapshot; it says so, unless *)
(* the wording differs from what errors.go looks for.                                 *)
Refused ==
  /\ pc = "run" /\ elapsed < deadline
  /\ IF op = "backup" THEN ~ Accepts(time) ELSE time \notin stored
  /\ \/ Judge(Refusal) /\ UNCHANGED faults
     \/ Fault /\ \E t \in SUBSET Classes : Judge(t)
  /\ UNCHANGED <<stored, op, asked, elapsed, before, lost, misled>>

(* Mutant: each attempt has a budget of its own. *)
FreshDeadline == elapsed + Timeout
SameDeadline == deadline

(* The select at the end of the loop: a backoff that ends with the budget may go *)
(* either way, and the run that follows is killed at once.                       *)
Retry ==
  /\ pc = "backoff" /\ elapsed = wake
  /\ pc' = "run"
  /\ attempt' = attempt + 1
  /\ deadline' = SameDeadline
  /\ text' = {}
  /\ UNCHANGED <<stored, op, asked, time, bumps, delay, wake, elapsed, answer, history>>

BudgetSpent ==
  /\ pc = "backoff" /\ BudgetDone
  /\ Conclude(text)
  /\ UNCHANGED <<stored, op, asked, elapsed, history>>

(* The time Backup returns; the mutant is the one it was called with. *)
RequestedTime == asked
UsedTime == time

(* The deadline kills and the backoff wakes: time passes neither. *)
Tick ==
  /\ pc \in {"run", "backoff"}
  /\ elapsed < deadline
  /\ pc = "backoff" => elapsed < wake
  /\ elapsed' = elapsed + 1
  /\ UNCHANGED <<stored, pc, op, asked, time, bumps, loop, answer, history>>

Next == \/ Call
        \/ Succeed \/ RunFails \/ Killed \/ Refused
        \/ Retry \/ BudgetSpent
        \/ Tick

Spec == Init /\ [][Next]_vars

(* Time passes and the client's code runs on; runs need not end by themselves. *)
Fairness == WF_vars(Tick) /\ WF_vars(Killed) /\ WF_vars(Retry \/ BudgetSpent)

FairSpec == Spec /\ Fairness

------------------------------------------------------------------------------
(***************************************************************************)
(* Properties                                                              *)
(***************************************************************************)
TypeOK == /\ stored \subseteq Nat /\ before \subseteq Nat
          /\ pc \in {"idle", "run", "backoff", "done"}
          /\ op \in {"backup", "forget", "use", None}
          /\ asked \in Nat /\ time \in Nat
          /\ bumps \in 0..MaxCollisionRetries
          /\ attempt \in 0..MaxTransientRetries
          /\ delay \in Nat /\ wake \in Nat /\ deadline \in Nat /\ elapsed \in Nat
          /\ answer \in {"ok", "error", "exhausted", None}
          /\ text \subseteq Classes
          /\ faults \in Nat /\ lost \in Nat /\ misled \in BOOLEAN

(* Every call ends within Client.Timeout; Backup needs it once more for    *)
(* every collision.                                                        *)
WithinBudget == elapsed <= Timeout * (bumps + 1)

(* ARCHITECTURE.md, "PBS client retries": Client.Timeout bounds each call, *)
(* Backup among them, as a single shared budget.                           *)
SharedBudget == elapsed <= Timeout

(* What a call answers is what happened, when no reply of a run was lost   *)
(* and no words misled it: Backup has made the snapshot it returns the     *)
(* time of and nothing else, Forget leaves none at its time, and a call    *)
(* that fails has done nothing.  Words that are missing do no harm, as a   *)
(* comment of errors.go has it.  However a Backup that answers ok came to  *)
(* it, it names a snapshot of its own.                                     *)
AnswersAreTrue ==
  pc = "done" =>
    /\ op = "backup" /\ answer = "ok" => UsedTime \in stored \ before
    /\ op = "forget" /\ answer = "ok" /\ ~ misled => asked \notin stored
    /\ lost = 0 /\ ~ (op = "forget" /\ misled) =>
         stored = IF answer # "ok" \/ op = "use" THEN before
                  ELSE IF op = "backup" THEN before \cup {UsedTime}
                  ELSE before \ {asked}

(* A word of IsNotFound in another error makes Forget answer ok although   *)
(* the snapshot is there: what errors.go calls safe are words that are     *)
(* missing.  No run of the project claims this one.                        *)
ForgetLeavesNothing ==
  pc = "done" /\ op = "forget" /\ answer = "ok" => asked \notin stored

(* Collisions exhaust Backup only when the group's history reaches         *)
(* MaxCollisionRetries seconds or more beyond the requested time, or       *)
(* snapshots of this very call stand in its way, or words misled it.       *)
ExhaustionIsEarned ==
  answer = "exhausted" =>
    lost > 0 \/ misled \/ \E s \in before : s >= asked + MaxCollisionRetries

(* Every call ends, even if proxmox-backup-client never does. *)
EveryCallEnds == pc = "run" ~> pc = "done"
==============================================================================
