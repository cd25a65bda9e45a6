--------------------------- MODULE PBSClientProofs ---------------------------
(***************************************************************************)
(* However many attempts runWithRetry makes and however its backoffs fall, *)
(* a call ends within Client.Timeout, once more for each collision.        *)
(***************************************************************************)
EXTENDS PBSClient, TLAPS

(* The context of the current runWithRetry was made when the collisions    *)
(* before it had cost at most Timeout each, and time does not pass it.     *)
IInv == /\ elapsed \in Nat /\ deadline \in Nat
        /\ bumps \in Nat
        /\ elapsed <= Timeout * (bumps + 1)
        /\ pc \in {"run", "backoff"} =>
             elapsed <= deadline /\ deadline <= Timeout * (bumps + 1)
        /\ pc = "idle" => elapsed = 0 /\ bumps = 0

(* One more collision allows one more Timeout. *)
LEMMA OneMore ==
  ASSUME NEW t \in Nat, NEW b \in Nat
  PROVE  /\ t * (b + 1) \in Nat
         /\ t * (b + 1 + 1) = t * (b + 1) + t
OBVIOUS

(* Before the call no time has passed and no collision happened. *)
LEMMA InitInv == Init => IInv
<1> SUFFICES ASSUME Init PROVE IInv
  OBVIOUS
<1> Timeout \in Nat
  BY BoundAssumption
<1> Timeout * (0 + 1) \in Nat
  BY OneMore
<1> QED BY DEF Init, IInv

(* Entering runWithRetry when the elapsed time is within what the collisions so far allow. *)
LEMMA EnterInv ==
  ASSUME IInv, Enter, elapsed' = elapsed, bumps' \in Nat,
         elapsed + Timeout <= Timeout * (bumps' + 1)
  PROVE  IInv'
<1> Timeout \in Nat
  BY BoundAssumption
<1> DEFINE B == Timeout * (bumps' + 1)
<1>1. B \in Nat /\ elapsed \in Nat /\ elapsed + Timeout <= B
  BY OneMore DEF IInv
<1>2. deadline' = elapsed + Timeout /\ pc' = "run"
  BY DEF Enter
<1>3. elapsed' <= B /\ elapsed' <= deadline' /\ deadline' <= B /\ deadline' \in Nat
  <2> HIDE DEF B
  <2> QED BY <1>1, <1>2
<1> QED BY <1>1, <1>2, <1>3 DEF IInv

(* A call starts one budget. *)
LEMMA CallInv == ASSUME IInv, Call PROVE IInv'
<1> Timeout \in Nat
  BY BoundAssumption
<1>1. elapsed = 0 /\ bumps = 0
  BY DEF IInv, Call
<1>2. Timeout * (0 + 1) = Timeout
  OBVIOUS
<1>3. elapsed + Timeout <= Timeout * (bumps' + 1)
  BY <1>1, <1>2 DEF Call
<1> QED BY <1>1, <1>3, EnterInv DEF Call

(* What the caller does with an error stays within the budget: a collision pays for *)
(* the runWithRetry it starts.                                                      *)
LEMMA ConcludeInv ==
  ASSUME IInv, NEW t, Conclude(t), elapsed' = elapsed
  PROVE  IInv'
<1> Timeout \in Nat
  BY BoundAssumption
<1>1. CASE pc' = "done" /\ UNCHANGED <<bumps, loop>>
  BY <1>1 DEF loop, IInv
<1>2. CASE bumps' = bumps + 1 /\ Enter
  <2>1. bumps \in Nat
    BY DEF IInv
  <2>2. Timeout * (bumps + 1 + 1) = Timeout * (bumps + 1) + Timeout
    BY <2>1, OneMore
  <2>3. Timeout * (bumps + 1) \in Nat
    BY <2>1, OneMore
  <2>4. elapsed + Timeout <= Timeout * (bumps' + 1)
    BY <1>2, <2>1, <2>2, <2>3 DEF IInv
  <2> QED BY <1>2, <2>1, <2>4, EnterInv
<1> QED BY <1>1, <1>2 DEF Conclude, Leave

(* An attempt that is judged keeps the deadline or starts the next collision's. *)
LEMMA JudgeInv ==
  ASSUME IInv, NEW t, pc = "run", Judge(t), elapsed' = elapsed
  PROVE  IInv'
<1>1. CASE Conclude(t)
  BY <1>1, ConcludeInv
<1>2. CASE pc' = "backoff" /\ UNCHANGED <<deadline, bumps>>
  BY <1>2 DEF IInv
<1> QED BY <1>1, <1>2 DEF Judge

(* Time does not pass the deadline while a call runs. *)
LEMMA TickInv == ASSUME IInv, Tick PROVE IInv'
<1> Timeout \in Nat
  BY BoundAssumption
<1>1. Timeout * (bumps + 1) \in Nat
  BY OneMore DEF IInv
<1> QED BY <1>1 DEF IInv, Tick, loop

(* Every action keeps the deadline where it was or adds one budget for a bump. *)
LEMMA NextInv == IInv /\ [Next]_vars => IInv'
<1> SUFFICES ASSUME IInv, [Next]_vars PROVE IInv'
  OBVIOUS
<1>1. CASE Call
  BY <1>1, CallInv
<1>2. CASE Succeed
  BY <1>2 DEF IInv, Succeed, Leave, loop
<1>3. CASE RunFails
  BY <1>3, JudgeInv DEF RunFails
<1>4. CASE Killed
  BY <1>4, JudgeInv DEF Killed
<1>5. CASE Refused
  BY <1>5, JudgeInv DEF Refused
<1>6. CASE Retry
  BY <1>6 DEF IInv, Retry, SameDeadline
<1>7. CASE BudgetSpent
  BY <1>7, ConcludeInv DEF BudgetSpent
<1>8. CASE Tick
  BY <1>8, TickInv
<1>9. CASE UNCHANGED vars
  BY <1>9 DEF IInv, vars, loop
<1> QED BY <1>1, <1>2, <1>3, <1>4, <1>5, <1>6, <1>7, <1>8, <1>9 DEF Next

(* runWithRetry, Backup: for every Timeout, number of attempts, backoff    *)
(* and history of the group, the elapsed time stays within the budget.     *)
THEOREM Budget == Spec => []WithinBudget
<1>1. IInv => WithinBudget
  BY DEF IInv, WithinBudget
<1> QED BY InitInv, NextInv, <1>1, PTL DEF Spec

------------------------------------------------------------------------------
(***************************************************************************)
(* What a call answers is what happened.  While the call runs, the group   *)
(* differs from what it was only by effects whose reply was lost, and the  *)
(* words of the error a backoff waits on are true, or misled the call.     *)
(***************************************************************************)
Open == pc \in {"run", "backoff"}

Ops == {"backup", "forget", "use"}

Types == /\ stored \subseteq Nat /\ before \subseteq Nat
         /\ asked \in Nat /\ time \in Nat /\ bumps \in Nat /\ lost \in Nat
         /\ misled \in BOOLEAN
         /\ pc \in {"idle", "run", "backoff", "done"}
         /\ pc = "idle" => bumps = 0 /\ lost = 0
         /\ Open => op \in Ops
         /\ pc # "done" => answer = None

(* What the call has done so far. *)
Deeds == /\ lost = 0 => stored = before
         /\ op = "backup" => before \subseteq stored /\ time = asked + bumps
         /\ op # "backup" => time = asked

(* What an error of the classes t says of the group. *)
Words(t) ==
  /\ op = "forget" /\ "missing" \in t => misled \/ time \notin stored
  /\ op = "backup" /\ "collision" \in t =>
       misled \/ lost > 0 \/ \E s \in before : s >= time

Truth == /\ Types
         /\ Open => Deeds
         /\ pc = "backoff" => Words(text)
         /\ AnswersAreTrue
         /\ ExhaustionIsEarned

(* Nothing has been done and nothing waited for. *)
LEMMA InitTruth == Init => Truth
<1> SUFFICES ASSUME Init PROVE Truth
  OBVIOUS
<1>1. Types
  BY BoundAssumption DEF Init, Types, Open
<1> QED BY <1>1, NoneAssumption DEF Init, Truth, Open, AnswersAreTrue, ExhaustionIsEarned

(* A call starts with the group as it found it. *)
LEMMA CallTruth == ASSUME Truth, Call PROVE Truth'
<1>1. Types'
  BY BoundAssumption DEF Truth, Types, Open, Ops, Call, Enter
<1>2. PICK h \in Nat : asked' = h /\ time' = h
  BY BoundAssumption DEF Call
<1>3. bumps' = 0 /\ before' = stored'
  BY DEF Truth, Types, Call
<1>4. h + 0 = h
  OBVIOUS
<1>5. Deeds'
  BY <1>2, <1>3, <1>4 DEF Deeds
<1> QED BY <1>1, <1>5, NoneAssumption
     DEF Truth, Types, Call, Enter, Open, AnswersAreTrue, ExhaustionIsEarned

(* A call is open, the run that fails may just have had its effect, and what the   *)
(* error says is true or misleads.                                                 *)
Failed(t) == /\ Types /\ Open /\ Deeds
             /\ UNCHANGED <<op, asked, before, elapsed>>
             /\ stored' \subseteq Nat /\ lost' \in Nat /\ misled' \in BOOLEAN
             /\ lost' = 0 => stored' = before
             /\ op = "backup" => before \subseteq stored'
             /\ op = "forget" /\ "missing" \in t => misled' \/ time \notin stored'
             /\ op = "backup" /\ "collision" \in t =>
                  misled' \/ lost' > 0 \/ \E s \in before : s >= time

(* An error whose words are true, or that has misled, is concluded truly. *)
LEMMA ConcludeTruth == ASSUME NEW t, Failed(t), Conclude(t) PROVE Truth'
<1> USE DEF Failed, Types, Open, Ops, Deeds
<1>1. CASE op = "backup" /\ "collision" \in t
  <2>1. CASE NoMoreBumps /\ Leave("exhausted") /\ time' = time + 1 /\ UNCHANGED <<bumps, loop>>
    <3>1. \A s \in before : s >= time => s >= asked + MaxCollisionRetries
      BY <1>1, <2>1, BoundAssumption DEF NoMoreBumps
    <3>2. ExhaustionIsEarned'
      BY <1>1, <3>1 DEF ExhaustionIsEarned
    <3>3. AnswersAreTrue'
      <4>1. answer' = "exhausted"
        BY <2>1 DEF Leave
      <4> QED BY <4>1 DEF AnswersAreTrue, UsedTime
    <3> QED BY <2>1, <3>2, <3>3 DEF Truth, Leave
  <2>2. CASE bumps' = bumps + 1 /\ time' = time + 1 /\ Enter /\ UNCHANGED answer
    <3>1. Types'
      BY <2>2 DEF Enter
    <3>2. Deeds'
      BY <1>1, <2>2
    <3> QED BY <2>2, <3>1, <3>2, NoneAssumption
         DEF Truth, Enter, AnswersAreTrue, ExhaustionIsEarned
  <2> QED BY <1>1, <2>1, <2>2 DEF Conclude
<1>2. CASE op = "forget" /\ "missing" \in t
  <2>1. pc' = "done" /\ answer' = "ok" /\ UNCHANGED <<time, bumps>>
    BY <1>2 DEF Conclude, Leave
  <2>2. asked = time /\ (misled' \/ asked \notin stored')
    BY <1>2
  <2>3. ~ misled' /\ lost' = 0 => stored' = before \ {asked}
    BY <2>2
  <2>4. AnswersAreTrue'
    BY <1>2, <2>1, <2>2, <2>3 DEF AnswersAreTrue, UsedTime
  <2> QED BY <2>1, <2>4 DEF Truth, ExhaustionIsEarned
<1>3. CASE ~ (op = "backup" /\ "collision" \in t) /\ ~ (op = "forget" /\ "missing" \in t)
  <2>1. pc' = "done" /\ answer' = "error" /\ UNCHANGED <<time, bumps>>
    BY <1>3 DEF Conclude, Leave
  <2>2. AnswersAreTrue'
    BY <2>1 DEF AnswersAreTrue, UsedTime
  <2> QED BY <2>1, <2>2 DEF Truth, ExhaustionIsEarned
<1> QED BY <1>1, <1>2, <1>3

(* So is a judged attempt, whichever way it is judged. *)
LEMMA JudgeTruth == ASSUME NEW t, Failed(t), Judge(t) PROVE Truth'
<1>1. CASE Conclude(t)
  BY <1>1, ConcludeTruth
<1>2. CASE pc' = "backoff" /\ text' = t /\ UNCHANGED <<time, bumps, answer>>
  <2> USE <1>2 DEF Failed
  <2>1. Types'
    BY DEF Types, Open, Ops
  <2>2. Deeds'
    BY DEF Deeds
  <2>3. Words(text)'
    BY DEF Words
  <2> QED BY <2>1, <2>2, <2>3, NoneAssumption
       DEF Truth, Types, Open, AnswersAreTrue, ExhaustionIsEarned
<1> QED BY <1>1, <1>2 DEF Judge

(* What a run that fails, with or without effect, leaves behind. *)
LEMMA EffectFailed ==
  ASSUME Types, Open, Deeds, EffectOrNot
  PROVE  /\ stored' \subseteq Nat /\ lost' \in Nat
         /\ lost' = 0 => stored' = before
         /\ op = "backup" => before \subseteq stored'
<1>1. CASE UNCHANGED <<stored, lost>>
  BY <1>1 DEF Types, Deeds
<1>2. CASE Effect /\ lost' = lost + 1
  <2>1. stored' \subseteq Nat
    BY <1>2 DEF Types, Effect
  <2>2. op = "backup" => before \subseteq stored'
    BY <1>2 DEF Deeds, Effect
  <2> QED BY <1>2, <2>1, <2>2 DEF Types
<1> QED BY <1>1, <1>2 DEF EffectOrNot

(* A run that fails has words that are true of the group, or misleads. *)
LEMMA RunFailsTruth == ASSUME Truth, RunFails PROVE Truth'
<1>1. Types /\ Open /\ Deeds
  BY DEF Truth, RunFails, Open
<1>2. PICK t \in SUBSET Classes : Judge(t) /\ misled' = (misled \/ Refusal \subseteq t)
  BY DEF RunFails
<1>3. misled' \in BOOLEAN /\ (op = "forget" /\ "missing" \in t => misled')
                          /\ (op = "backup" /\ "collision" \in t => misled')
  BY <1>1, <1>2 DEF Refusal, Types
<1>4. Failed(t)
  BY <1>1, <1>3, EffectFailed DEF RunFails, Failed
<1> QED BY <1>2, <1>4, JudgeTruth

(* A run killed at the deadline is an error of no class. *)
LEMMA KilledTruth == ASSUME Truth, Killed PROVE Truth'
<1>1. Types /\ Open /\ Deeds
  BY DEF Truth, Killed, Open
<1>2. Failed({})
  BY <1>1, EffectFailed DEF Killed, Failed, Types
<1> QED BY <1>2, JudgeTruth DEF Killed

(* PBS refuses a backup time when it has that one or a later one. *)
LEMMA RefusedTruth == ASSUME Truth, Refused PROVE Truth'
<1>1. Types /\ Open /\ Deeds
  BY DEF Truth, Refused, Open
<1>2. PICK t : Judge(t)
  BY DEF Refused
<1>3. op = "backup" => \E s \in stored : s >= time
  BY <1>1 DEF Refused, Accepts, Types
<1>4. op = "backup" => lost > 0 \/ \E s \in before : s >= time
  BY <1>1, <1>3 DEF Deeds, Types
<1>5. op = "forget" => time \notin stored
  BY DEF Refused
<1>6. Failed(t)
  BY <1>1, <1>4, <1>5 DEF Refused, Failed, Types, Deeds
<1> QED BY <1>2, <1>6, JudgeTruth

(* A run that succeeds makes the one difference its answer stands for. *)
LEMMA SucceedTruth == ASSUME Truth, Succeed PROVE Truth'
<1>1. Types /\ Open /\ Deeds
  BY DEF Truth, Succeed, Open
<1>2. pc' = "done" /\ answer' = "ok" /\ UNCHANGED <<op, asked, time, bumps, before, lost, misled>>
  BY DEF Succeed, Leave, history
<1>3. stored' \subseteq Nat
  BY <1>1 DEF Succeed, Effect, Types
<1>4. AnswersAreTrue'
  <2>1. CASE op = "backup"
    <3>1. time \notin stored /\ stored' = stored \cup {time}
      BY <1>1, <2>1 DEF Succeed, Effect, Accepts, Types
    <3> QED BY <1>1, <1>2, <2>1, <3>1 DEF Deeds, AnswersAreTrue, UsedTime
  <2>2. CASE op = "forget"
    <3>1. stored' = stored \ {time}
      BY <2>2 DEF Succeed, Effect
    <3> QED BY <1>1, <1>2, <2>2, <3>1 DEF Deeds, AnswersAreTrue
  <2>3. CASE op = "use"
    <3>1. stored' = stored
      BY <2>3 DEF Succeed, Effect
    <3> QED BY <1>1, <1>2, <2>3, <3>1 DEF Deeds, AnswersAreTrue
  <2> QED BY <1>1, <2>1, <2>2, <2>3 DEF Types, Ops
<1> QED BY <1>1, <1>2, <1>3, <1>4 DEF Truth, Types, Open, ExhaustionIsEarned

(* A budget spent in a backoff ends with the words of the last attempt. *)
LEMMA BudgetSpentTruth == ASSUME Truth, BudgetSpent PROVE Truth'
<1>1. Types /\ Open /\ Deeds /\ Words(text)
  BY DEF Truth, BudgetSpent, Open
<1>2. Failed(text)
  BY <1>1 DEF BudgetSpent, Failed, Words, Deeds, Types, history
<1> QED BY <1>2, ConcludeTruth DEF BudgetSpent

(* Every action keeps the words true of the group. *)
LEMMA NextTruth == Truth /\ [Next]_vars => Truth'
<1> SUFFICES ASSUME Truth, [Next]_vars PROVE Truth'
  OBVIOUS
<1>1. CASE Call
  BY <1>1, CallTruth
<1>2. CASE Succeed
  BY <1>2, SucceedTruth
<1>3. CASE RunFails
  BY <1>3, RunFailsTruth
<1>4. CASE Killed
  BY <1>4, KilledTruth
<1>5. CASE Refused
  BY <1>5, RefusedTruth
<1>6. CASE BudgetSpent
  BY <1>6, BudgetSpentTruth
<1>7. CASE Retry \/ Tick \/ UNCHANGED vars
  <2>1. UNCHANGED <<stored, op, asked, time, bumps, answer, before, lost, misled>>
    BY <1>7 DEF Retry, Tick, vars, history
  <2>2. \/ pc \in {"run", "backoff"} /\ pc' = "run"
        \/ UNCHANGED <<pc, text>>
    BY <1>7 DEF Retry, Tick, vars, loop
  <2>3. Types' /\ (Open => Deeds)' /\ (pc = "backoff" => Words(text))'
    BY <2>1, <2>2 DEF Truth, Types, Open, Deeds, Words
  <2>4. AnswersAreTrue'
    BY <2>1, <2>2 DEF Truth, AnswersAreTrue, UsedTime
  <2>5. ExhaustionIsEarned'
    BY <2>1 DEF Truth, ExhaustionIsEarned
  <2> QED BY <2>3, <2>4, <2>5 DEF Truth
<1> QED BY <1>1, <1>2, <1>3, <1>4, <1>5, <1>6, <1>7 DEF Next

(* Backup, Forget and runWithRetry: whatever fails, hangs or is worded     *)
(* otherwise, the answer of a call is what it has done to the group.       *)
THEOREM Truthful == Spec => []AnswersAreTrue
<1>1. Truth => AnswersAreTrue
  BY DEF Truth
<1> QED BY InitTruth, NextTruth, <1>1, PTL DEF Spec

(* Backup's collision loop: for every number of retries, collisions        *)
(* exhaust it only when the group's history reaches beyond what it tries.  *)
THEOREM Exhaustion == Spec => []ExhaustionIsEarned
<1>1. Truth => ExhaustionIsEarned
  BY DEF Truth
<1> QED BY InitTruth, NextTruth, <1>1, PTL DEF Spec

==============================================================================
