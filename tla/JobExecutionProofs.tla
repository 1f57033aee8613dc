-------------------------- MODULE JobExecutionProofs --------------------------
(***************************************************************************)
(* Theorems about the two executors of jobs, for any number of stages,     *)
(* scenes and attempts and any set of workers: StageExecution, whatever    *)
(* the assignment of worker ids, shared or not, and LegacyFactory.         *)
(*                                                                         *)
(* The inductive invariant of StageExecution describes the table of stage  *)
(* runs: within a stage every attempt before the latest has FAILED and the *)
(* latest has not, a stage has rows only once those before it are          *)
(* completed, a claim that waits for its lock still aims at such a stage,  *)
(* and the run a process holds is not one that can be claimed.             *)
(*                                                                         *)
(* That of LegacyFactory follows the one script of the job.  A claim       *)
(* counts, so no two processes have the same attempt of a job; as long as  *)
(* none of them has handed the script job out under another, whoever       *)
(* works on it has the last.  Then there is one script, its scenes are     *)
(* those it has when planning is queued, and of all the processes that     *)
(* plan it one gets past the first key of the requirements.                *)
(***************************************************************************)
EXTENDS StageExecution, Sequences, TLAPS

CONSTANTS Scenes, MaxRecoveries  \* of the legacy factory
VARIABLES status, attempts, input, stage, scripts, at, mine, recoveries, disowned

\* The legacy factory; its jobs have as many attempts, and processes of their own.
F == INSTANCE LegacyFactory

AttemptsInOrder ==
  \A r, q \in Run :
    r[1] = q[1] /\ r[2] < q[2] /\ run[q] # "ABSENT" => run[r] = "FAILED"

LatestAttempt ==
  \A s \in Stage : run[<<s, 1>>] # "ABSENT" =>
    \E a \in Attempt : run[<<s, a>>] \notin {"ABSENT", "FAILED"}

AimInv ==
  \A w \in Worker : pc[w] = "locking" =>
    \A p \in Stage : p < aim[w] => Completed(p)

AtRun == {"running", "finishing", "failing"}
HasRun == \A w \in Worker : pc[w] \in AtRun => cur[w] # NoRun
HeldInv ==
  \A w \in Worker : cur[w] # NoRun => run[cur[w]] \notin {"ABSENT", "RETRYING"}

JobInv ==
  \A r \in Run : /\ run[r] = "RUNNING" => jobStatus \notin {"QUEUED", "RETRYING"}
                 /\ run[r] = "DEAD_LETTER" => jobStatus \in JobEnded

TypeInv == TypeOK /\ HasRun
OrderInv == AttemptsInOrder /\ StagesInOrder /\ AimInv

USE NAssumption, AttemptsAssumption, IdAssumption
-----------------------------------------------------------------------------
LEMMA RunParts ==
  /\ \A r \in Run : r[1] \in Stage /\ r[2] \in Attempt /\ r = <<r[1], r[2]>>
  /\ \A s \in Stage, a \in Attempt : <<s, a>> \in Run
  /\ NoRun \notin Run
  /\ 1 \in Stage /\ 1 \in Attempt
  BY DEF Run, Stage, Attempt, NoRun

LEMMA InitTypeInv == Init => TypeInv
<1> SUFFICES ASSUME Init PROVE TypeInv
  OBVIOUS
<1> USE RunParts DEF Init
<1>1. TypeOK
  BY Zenon DEF TypeOK, JobStatus, RunStatus
<1>2. HasRun
  BY DEF HasRun, AtRun
<1> QED
  BY <1>1, <1>2 DEF TypeInv

LEMMA RecoveredRuns ==
  ASSUME TypeInv, RecoverRuns
  PROVE  /\ run' \in [Run -> RunStatus]
         /\ runOwner' \in [Run -> Id \cup {None}]
         /\ runLive' \in [Run -> BOOLEAN]
<1> USE DEF TypeInv, TypeOK, RunStatus
<1>1. run' \in [Run -> RunStatus]
  BY Zenon DEF RecoverRuns
<1>2. runOwner' \in [Run -> Id \cup {None}]
  BY Zenon DEF RecoverRuns
<1>3. runLive' \in [Run -> BOOLEAN]
  BY Zenon DEF RecoverRuns
<1> QED
  BY <1>1, <1>2, <1>3

LEMMA NextTypeInv == TypeInv /\ [Next]_vars => TypeInv'
<1> SUFFICES ASSUME TypeInv, [Next]_vars PROVE TypeInv'
  OBVIOUS
<1> USE RunParts DEF TypeInv, TypeOK, HasRun, AtRun, JobStatus, RunStatus,
                     Goto, Drop, job, runs
<1>1. CASE UNCHANGED vars
  BY <1>1 DEF vars
<1>2. ASSUME NEW w \in Worker, Step(w) \/ Crash(w) PROVE TypeInv'
  <2>1. CASE ClaimJob(w) BY <2>1 DEF ClaimJob
  <2>2. CASE ChooseStage(w) BY <2>2 DEF ChooseStage
  <2>3. CASE ClaimRetry(w) BY <2>3 DEF ClaimRetry, MayClaim, Take, Claimable
  <2>4. CASE ClaimFirst(w) BY <2>4 DEF ClaimFirst, MayClaim, Take
  <2>5. CASE ClaimThrows(w) BY <2>5 DEF ClaimThrows
  <2>6. CASE ClaimNothing(w) BY <2>6 DEF ClaimNothing
  <2>7. CASE Handle(w) BY <2>7 DEF Handle
  <2>8. CASE CompleteStage(w)
    <3>1. cur[w] \in Run
      BY <2>8 DEF CompleteStage
    <3>2. CASE Release(cur[w], "COMPLETED")
      BY <2>8, <3>1, <3>2 DEF CompleteStage, Release
    <3>3. CASE UNCHANGED <<run, runOwner, runLive>>
      BY <2>8, <3>3 DEF CompleteStage
    <3> QED
      BY <2>8, <3>2, <3>3 DEF CompleteStage
  <2>9. CASE FailStage(w) BY <2>9 DEF FailStage, HoldsRun, Release
  <2>10. CASE CompleteJob(w) BY <2>10 DEF CompleteJob
  <2>11. CASE CompleteProduction(w) BY <2>11 DEF CompleteProduction
  <2>12. CASE Crash(w) BY <2>12 DEF Crash
  <2> QED
    BY <1>2, <2>1, <2>2, <2>3, <2>4, <2>5, <2>6, <2>7, <2>8, <2>9, <2>10,
       <2>11, <2>12 DEF Step
<1>3. CASE ExpireJob BY <1>3 DEF ExpireJob
<1>4. ASSUME NEW r \in Run, ExpireRun(r) PROVE TypeInv'
  BY <1>4 DEF ExpireRun
<1>5. CASE RecoverRuns
  <2>1. jobStatus' \in JobStatus /\ jobOwner' \in Id \cup {None} /\ jobLive' \in BOOLEAN
    BY <1>5, Zenon DEF RecoverRuns
  <2>2. UNCHANGED <<jobAttempt, production, pc, aim, cur, made>>
    BY <1>5, Zenon DEF RecoverRuns
  <2> QED
    BY <1>5, RecoveredRuns, <2>1, <2>2
<1>6. CASE RecoverJob
  BY <1>6 DEF RecoverJob, Attempt
<1> QED
  BY <1>1, <1>2, <1>3, <1>4, <1>5, <1>6 DEF Next, Recover

(***************************************************************************)
(* Type correctness: whatever is claimed, lost and recovered, the rows     *)
(* keep to the statuses of their CHECK constraints, and no attempt number  *)
(* passes max_attempts.                                                    *)
(***************************************************************************)
THEOREM TypeCorrect == Spec => []TypeOK
<1>1. TypeInv => TypeOK
  BY DEF TypeInv
<1> QED
  BY <1>1, InitTypeInv, NextTypeInv, PTL DEF Spec
-----------------------------------------------------------------------------
(***************************************************************************)
(* How a step may change the table of stage runs: not at all, by a claim,  *)
(* by the end of a run that is held, or by recovery.                       *)
(***************************************************************************)
Claims(w, r) ==
  /\ MayClaim(w) /\ r[1] = aim[w]
  /\ run[r] = "RETRYING" \/ (run[r] = "ABSENT" /\ r[2] = 1)
  /\ run' = [run EXCEPT ![r] = "RUNNING"]

Ends(w) ==
  /\ cur[w] \in Run /\ run[cur[w]] = "RUNNING"
  /\ \E s \in {"COMPLETED", "RETRYING"} : run' = [run EXCEPT ![cur[w]] = s]

LEMMA RunChange ==
  ASSUME TypeInv, [Next]_vars
  PROVE  \/ UNCHANGED run
         \/ \E w \in Worker, r \in Run : Claims(w, r)
         \/ \E w \in Worker : Ends(w)
         \/ RecoverRuns
<1> USE RunParts DEF TypeInv, TypeOK, HasRun, AtRun, job, runs
<1>1. CASE UNCHANGED vars
  BY <1>1 DEF vars
<1>2. ASSUME NEW w \in Worker, Step(w) \/ Crash(w)
      PROVE  UNCHANGED run \/ (\E r \in Run : Claims(w, r)) \/ Ends(w)
  <2>1. CASE ClaimJob(w) \/ ChooseStage(w) \/ ClaimThrows(w) \/ ClaimNothing(w)
    BY <2>1 DEF ClaimJob, ChooseStage, ClaimThrows, ClaimNothing
  <2>2. CASE ClaimRetry(w)
    <3>1. PICK a \in Attempt : run[<<aim[w], a>>] = "RETRYING" /\ Take(w, <<aim[w], a>>)
      BY <2>2 DEF ClaimRetry, Claimable
    <3>2. Claims(w, <<aim[w], a>>)
      BY <2>2, <3>1 DEF ClaimRetry, Claims, Take, MayClaim
    <3> QED
      BY <3>2 DEF TypeInv
  <2>3. CASE ClaimFirst(w)
    <3>1. Claims(w, <<aim[w], 1>>)
      BY <2>3 DEF ClaimFirst, Claims, Take, MayClaim
    <3> QED
      BY <3>1
  <2>4. CASE Handle(w) \/ CompleteJob(w) \/ CompleteProduction(w) \/ Crash(w)
    BY <2>4 DEF Handle, CompleteJob, CompleteProduction, Crash
  <2>5. CASE CompleteStage(w)
    BY <2>5 DEF CompleteStage, HoldsRun, Release, Ends
  <2>6. CASE FailStage(w)
    BY <2>6 DEF FailStage, HoldsRun, Release, Ends
  <2> QED
    BY <1>2, <2>1, <2>2, <2>3, <2>4, <2>5, <2>6 DEF Step
<1>3. CASE ExpireJob BY <1>3 DEF ExpireJob
<1>4. ASSUME NEW r \in Run, ExpireRun(r) PROVE UNCHANGED run
  BY <1>4 DEF ExpireRun
<1>5. CASE RecoverJob BY <1>5 DEF RecoverJob
<1> QED
  BY <1>1, <1>2, <1>3, <1>4, <1>5 DEF Next, Recover

(***************************************************************************)
(* Recovery only touches expired runs and rows that do not exist yet.      *)
(***************************************************************************)
LEMMA RetriedAreNew ==
  ASSUME TypeInv, AttemptsInOrder, NEW q \in Retried
  PROVE  /\ q \in Run /\ run[q] = "ABSENT"
         /\ \E x \in Expired : x[1] = q[1] /\ x[2] + 1 = q[2]
<1>1. PICK x \in Expired : x[2] < MaxAttempts /\ q = <<x[1], x[2] + 1>>
  BY DEF Retried, Next1
<1>2. x \in Run /\ run[x] = "RUNNING"
  BY DEF Expired
<1>3. x[2] + 1 \in Attempt /\ x[2] < x[2] + 1
  BY <1>1, <1>2, RunParts DEF Attempt
<1>4. q \in Run /\ q[1] = x[1] /\ q[2] = x[2] + 1
  BY <1>1, <1>2, <1>3, RunParts
<1>5. run[q] = "ABSENT"
  BY <1>2, <1>3, <1>4 DEF AttemptsInOrder
<1> QED
  BY <1>4, <1>5

LEMMA Recovered ==
  ASSUME TypeInv, AttemptsInOrder, RecoverRuns, NEW r \in Run
  PROVE  /\ r \in Expired => run[r] = "RUNNING" /\ r \notin Retried
         /\ r \in Expired /\ r[2] < MaxAttempts => run'[r] = "FAILED"
         /\ r \in Expired /\ ~(r[2] < MaxAttempts) => run'[r] = "DEAD_LETTER"
         /\ r \in Retried => run'[r] = "RETRYING"
         /\ r \notin Expired \cup Retried => run'[r] = run[r]
<1>1. r \in Expired => run[r] = "RUNNING"
  BY DEF Expired
<1>2. r \in Expired => r \notin Retried
  BY <1>1, RetriedAreNew
<1>3. run'[r] = IF r \in Expired
                  THEN IF r[2] < MaxAttempts THEN "FAILED" ELSE "DEAD_LETTER"
                  ELSE IF r \in Retried THEN "RETRYING" ELSE run[r]
  BY DEF RecoverRuns
<1> QED
  BY <1>1, <1>2, <1>3

LEMMA CompletedStable ==
  ASSUME TypeInv, AttemptsInOrder, [Next]_vars, NEW s \in Stage, Completed(s)
  PROVE  Completed(s)'
<1>1. PICK a \in Attempt : run[<<s, a>>] = "COMPLETED"
  BY DEF Completed
<1>2. <<s, a>> \in Run
  BY RunParts
<1>3. run'[<<s, a>>] = "COMPLETED"
  <2>1. CASE UNCHANGED run BY <2>1, <1>1
  <2>2. ASSUME NEW w \in Worker, NEW r \in Run, Claims(w, r)
        PROVE run'[<<s, a>>] = "COMPLETED"
    BY <2>2, <1>1, <1>2 DEF Claims, TypeInv, TypeOK
  <2>3. ASSUME NEW w \in Worker, Ends(w) PROVE run'[<<s, a>>] = "COMPLETED"
    BY <2>3, <1>1, <1>2 DEF Ends, TypeInv, TypeOK
  <2>4. CASE RecoverRuns
    BY <2>4, <1>1, <1>2, Recovered, RetriedAreNew
  <2> QED
    BY <2>1, <2>2, <2>3, <2>4, RunChange
<1> QED
  BY <1>3 DEF Completed
-----------------------------------------------------------------------------
LEMMA NextAttemptsInOrder ==
  ASSUME TypeInv, AttemptsInOrder, [Next]_vars
  PROVE  AttemptsInOrder'
<1> SUFFICES ASSUME NEW r \in Run, NEW q \in Run,
                    r[1] = q[1], r[2] < q[2], run'[q] # "ABSENT"
             PROVE  run'[r] = "FAILED"
  BY DEF AttemptsInOrder
<1> USE DEF TypeInv, TypeOK
<1>0. run[q] # "ABSENT" => run[r] = "FAILED"
  BY DEF AttemptsInOrder
<1>1. CASE UNCHANGED run
  BY <1>0, <1>1
<1>2. ASSUME NEW w \in Worker, NEW x \in Run, Claims(w, x) PROVE run'[r] = "FAILED"
  <2>1. CASE run[q] # "ABSENT"
    BY <1>0, <1>2, <2>1 DEF Claims
  <2>2. CASE run[q] = "ABSENT"
    <3>1. q = x /\ q[2] = 1
      BY <1>2, <2>2 DEF Claims
    <3> QED
      BY <3>1, RunParts DEF Attempt
  <2> QED
    BY <2>1, <2>2
<1>3. ASSUME NEW w \in Worker, Ends(w) PROVE run'[r] = "FAILED"
  BY <1>0, <1>3 DEF Ends
<1>4. CASE RecoverRuns
  <2>1. CASE run[q] # "ABSENT"
    BY <1>0, <1>4, <2>1, Recovered, RetriedAreNew
  <2>2. CASE run[q] = "ABSENT"
    <3>1. q \in Retried
      BY <1>4, <2>2, Recovered
    <3>2. PICK x \in Expired : x[1] = q[1] /\ x[2] + 1 = q[2]
      BY <3>1, RetriedAreNew
    <3>3. x \in Run /\ run[x] = "RUNNING"
      BY <3>2 DEF Expired
    <3>4. q[2] \in 1..MaxAttempts /\ x[2] \in 1..MaxAttempts /\ r[2] \in 1..MaxAttempts
      BY <3>3, RunParts DEF Attempt
    <3>5. CASE r[2] = x[2]
      <4>1. r = x
        BY <3>2, <3>3, <3>5, RunParts
      <4>2. r[2] < MaxAttempts
        BY <3>4
      <4> QED
        BY <1>4, <3>2, <4>1, <4>2, Recovered
    <3>6. CASE r[2] < x[2]
      <4>1. run[r] = "FAILED"
        BY <3>2, <3>3, <3>6 DEF AttemptsInOrder
      <4> QED
        BY <1>4, <4>1, Recovered, RetriedAreNew
    <3> QED
      BY <3>2, <3>4, <3>5, <3>6
  <2> QED
    BY <2>1, <2>2
<1> QED
  BY <1>1, <1>2, <1>3, <1>4, RunChange

LEMMA NextStagesInOrder ==
  ASSUME TypeInv, OrderInv, [Next]_vars
  PROVE  StagesInOrder'
<1> SUFFICES ASSUME NEW r \in Run, NEW p \in Stage, run'[r] # "ABSENT", p < r[1]
             PROVE  Completed(p)'
  BY DEF StagesInOrder
<1> USE DEF TypeInv, TypeOK, OrderInv
<1>1. Completed(p)
  <2>1. CASE run[r] # "ABSENT"
    BY <2>1 DEF StagesInOrder
  <2>2. CASE run[r] = "ABSENT"
    <3>1. ASSUME NEW w \in Worker, NEW x \in Run, Claims(w, x) PROVE Completed(p)
      <4>1. r = x
        BY <2>2, <3>1 DEF Claims
      <4> QED
        BY <3>1, <4>1 DEF Claims, MayClaim, AimInv
    <3>2. ASSUME NEW w \in Worker, Ends(w) PROVE Completed(p)
      BY <2>2, <3>2 DEF Ends
    <3>3. CASE RecoverRuns
      <4>1. r \in Retried
        BY <2>2, <3>3, Recovered
      <4>2. PICK x \in Expired : x[1] = r[1]
        BY <4>1, RetriedAreNew
      <4> QED
        BY <4>2 DEF Expired, StagesInOrder
    <3> QED
      BY <2>2, <3>1, <3>2, <3>3, RunChange
  <2> QED
    BY <2>1, <2>2
<1> QED
  BY <1>1, CompletedStable

\* A claim that waits for its lock has just chosen its stage, or still aims at it.
LEMMA AimChange ==
  ASSUME TypeInv, [Next]_vars, NEW v \in Worker, pc'[v] = "locking"
  PROVE  \/ pc[v] = "locking" /\ aim'[v] = aim[v]
         \/ Target(aim'[v])
<1> USE DEF TypeInv, TypeOK, Goto, job, runs
<1>1. CASE UNCHANGED vars
  BY <1>1 DEF vars
<1>2. ASSUME NEW w \in Worker, Step(w) \/ Crash(w)
      PROVE  (pc[v] = "locking" /\ aim'[v] = aim[v]) \/ Target(aim'[v])
  <2>1. CASE ChooseStage(w)
    BY <2>1 DEF ChooseStage
  <2>2. CASE ClaimJob(w) \/ ClaimThrows(w) \/ ClaimNothing(w) \/ Handle(w)
    BY <2>2 DEF ClaimJob, ClaimThrows, ClaimNothing, Handle
  <2>3. CASE ClaimRetry(w) \/ ClaimFirst(w)
    BY <2>3 DEF ClaimRetry, ClaimFirst, Take
  <2>4. CASE CompleteStage(w) \/ FailStage(w)
    BY <2>4 DEF CompleteStage, FailStage
  <2>5. CASE CompleteJob(w) \/ CompleteProduction(w) \/ Crash(w)
    BY <2>5 DEF CompleteJob, CompleteProduction, Crash
  <2> QED
    BY <1>2, <2>1, <2>2, <2>3, <2>4, <2>5 DEF Step
<1>3. CASE ExpireJob BY <1>3 DEF ExpireJob
<1>4. ASSUME NEW r \in Run, ExpireRun(r)
      PROVE  pc[v] = "locking" /\ aim'[v] = aim[v]
  BY <1>4 DEF ExpireRun
<1>5. CASE Recover BY <1>5 DEF Recover, RecoverRuns, RecoverJob
<1> QED
  BY <1>1, <1>2, <1>3, <1>4, <1>5 DEF Next

LEMMA NextAimInv ==
  ASSUME TypeInv, TypeInv', OrderInv, [Next]_vars
  PROVE  AimInv'
<1> SUFFICES ASSUME NEW v \in Worker, pc'[v] = "locking",
                    NEW p \in Stage, p < aim'[v]
             PROVE  Completed(p)'
  BY DEF AimInv
<1>1. Completed(p)
  BY AimChange DEF AimInv, OrderInv, Target
<1> QED
  BY <1>1, CompletedStable DEF OrderInv

(***************************************************************************)
(* The order of the stages and of the attempts within them.                *)
(***************************************************************************)
LEMMA NextOrderInv == TypeInv /\ OrderInv /\ [Next]_vars => OrderInv'
  BY NextTypeInv, NextAttemptsInOrder, NextStagesInOrder, NextAimInv DEF OrderInv

LEMMA InitOrderInv == Init => OrderInv
  BY RunParts DEF Init, OrderInv, AttemptsInOrder, StagesInOrder, AimInv

LEMMA OrderIsSafe == TypeInv /\ OrderInv => OneActiveRun /\ CompletedIsFinal
<1> SUFFICES ASSUME TypeInv, OrderInv PROVE OneActiveRun /\ CompletedIsFinal
  OBVIOUS
<1> USE DEF OrderInv
<1>1. ASSUME NEW r \in Run, NEW q \in Run, r[1] = q[1], r # q
      PROVE  run[r] \in {"ABSENT", "FAILED"} \/ run[q] \in {"ABSENT", "FAILED"}
  <2>1. r[2] < q[2] \/ q[2] < r[2]
    BY <1>1, RunParts DEF Attempt
  <2> QED
    BY <1>1, <2>1 DEF AttemptsInOrder
<1>2. CompletedIsFinal
  <2> SUFFICES ASSUME NEW r \in Run, NEW q \in Run,
                      run[r] = "COMPLETED", r[1] = q[1], r # q, run[q] # "ABSENT"
               PROVE  run[q] = "FAILED"
    BY DEF CompletedIsFinal
  <2> QED
    BY <1>1
<1>3. ASSUME NEW r \in Run, NEW q \in Run,
             run[r] = "RUNNING", run[q] = "RUNNING", r[1] < q[1]
      PROVE  FALSE
  <2>1. PICK a \in Attempt : run[<<r[1], a>>] = "COMPLETED"
    BY <1>3, RunParts DEF StagesInOrder, Completed
  <2> QED
    BY <1>1, <1>3, <2>1, RunParts
<1>4. OneActiveRun
  <2> SUFFICES ASSUME NEW r \in Run, NEW q \in Run,
                      run[r] = "RUNNING", run[q] = "RUNNING"
               PROVE  r = q
    BY DEF OneActiveRun
  <2>1. r[1] = q[1]
    BY <1>3, RunParts DEF Stage
  <2> QED
    BY <1>1, <2>1
<1> QED
  BY <1>2, <1>4

(***************************************************************************)
(* Whoever shares worker ids with whom: stages run in order, a job has one *)
(* active run at most, and a completed stage is never run again.           *)
(***************************************************************************)
THEOREM StageOrder == Spec => [](StagesInOrder /\ OneActiveRun /\ CompletedIsFinal)
<1>1. TypeInv /\ OrderInv => StagesInOrder /\ OneActiveRun /\ CompletedIsFinal
  BY OrderIsSafe DEF OrderInv
<1> QED
  BY <1>1, InitTypeInv, InitOrderInv, NextTypeInv, NextOrderInv, PTL DEF Spec
-----------------------------------------------------------------------------
(***************************************************************************)
(* What the processes hold: how a step changes cur.                        *)
(***************************************************************************)
LEMMA HeldChange ==
  ASSUME TypeInv, [Next]_vars
  PROVE  \/ UNCHANGED cur /\ UNCHANGED run
         \/ \E w \in Worker, r \in Run :
              Claims(w, r) /\ cur' = [cur EXCEPT ![w] = r]
         \/ \E w \in Worker : /\ cur' = [cur EXCEPT ![w] = NoRun]
                              /\ Ends(w) \/ UNCHANGED run
         \/ \E w \in Worker : /\ UNCHANGED cur
                              /\ cur[w] \in Run
                              /\ run[cur[w]] = "RUNNING"
                              /\ run' = [run EXCEPT ![cur[w]] = "COMPLETED"]
         \/ RecoverRuns /\ UNCHANGED cur
<1> USE RunParts DEF TypeInv, TypeOK, HasRun, AtRun, job, runs, Drop
<1>1. CASE UNCHANGED vars
  BY <1>1 DEF vars
<1>2. ASSUME NEW w \in Worker, Step(w) \/ Crash(w)
      PROVE  \/ UNCHANGED cur /\ UNCHANGED run
             \/ \E r \in Run : Claims(w, r) /\ cur' = [cur EXCEPT ![w] = r]
             \/ cur' = [cur EXCEPT ![w] = NoRun] /\ (Ends(w) \/ UNCHANGED run)
             \/ /\ UNCHANGED cur
                /\ cur[w] \in Run
                /\ run[cur[w]] = "RUNNING"
                /\ run' = [run EXCEPT ![cur[w]] = "COMPLETED"]
  <2>1. CASE ClaimJob(w) \/ ChooseStage(w) \/ ClaimThrows(w) \/ ClaimNothing(w)
    BY <2>1 DEF ClaimJob, ChooseStage, ClaimThrows, ClaimNothing
  <2>2. CASE ClaimRetry(w)
    <3>1. PICK a \in Attempt : run[<<aim[w], a>>] = "RETRYING" /\ Take(w, <<aim[w], a>>)
      BY <2>2 DEF ClaimRetry, Claimable
    <3>2. Claims(w, <<aim[w], a>>) /\ cur' = [cur EXCEPT ![w] = <<aim[w], a>>]
      BY <2>2, <3>1 DEF ClaimRetry, Claims, Take, MayClaim
    <3> QED
      BY <3>2
  <2>3. CASE ClaimFirst(w)
    <3>1. Claims(w, <<aim[w], 1>>) /\ cur' = [cur EXCEPT ![w] = <<aim[w], 1>>]
      BY <2>3 DEF ClaimFirst, Claims, Take, MayClaim
    <3> QED
      BY <3>1
  <2>4. CASE Handle(w) \/ CompleteJob(w) \/ CompleteProduction(w)
    BY <2>4 DEF Handle, CompleteJob, CompleteProduction
  <2>5. CASE CompleteStage(w)
    BY <2>5 DEF CompleteStage, HoldsRun, Release, Ends
  <2>6. CASE FailStage(w)
    BY <2>6 DEF FailStage, HoldsRun, Release, Ends
  <2>7. CASE Crash(w)
    BY <2>7 DEF Crash
  <2> QED
    BY <1>2, <2>1, <2>2, <2>3, <2>4, <2>5, <2>6, <2>7 DEF Step
<1>3. CASE ExpireJob BY <1>3 DEF ExpireJob
<1>4. ASSUME NEW r \in Run, ExpireRun(r) PROVE UNCHANGED cur /\ UNCHANGED run
  BY <1>4 DEF ExpireRun
<1>5. CASE RecoverJob BY <1>5 DEF RecoverJob
<1>6. CASE RecoverRuns BY <1>6 DEF RecoverRuns
<1> QED
  BY <1>1, <1>2, <1>3, <1>4, <1>5, <1>6 DEF Next, Recover

Held == HeldInv /\ RunHeldOnce

LEMMA NextHeld == TypeInv /\ OrderInv /\ Held /\ [Next]_vars => Held'
<1> SUFFICES ASSUME TypeInv, AttemptsInOrder, Held, [Next]_vars PROVE Held'
  BY DEF OrderInv
<1> USE RunParts DEF TypeInv, TypeOK, Held, HeldInv, RunHeldOnce
<1>1. CASE UNCHANGED cur /\ UNCHANGED run
  BY <1>1
<1>2. ASSUME NEW w \in Worker, NEW r \in Run,
             Claims(w, r), cur' = [cur EXCEPT ![w] = r]
      PROVE  Held'
  BY <1>2 DEF Claims
<1>3. ASSUME NEW w \in Worker, cur' = [cur EXCEPT ![w] = NoRun],
             Ends(w) \/ UNCHANGED run
      PROVE  Held'
  BY <1>3 DEF Ends
<1>4. ASSUME NEW w \in Worker, UNCHANGED cur, cur[w] \in Run,
             run[cur[w]] = "RUNNING", run' = [run EXCEPT ![cur[w]] = "COMPLETED"]
      PROVE  Held'
  BY <1>4
<1>5. CASE RecoverRuns /\ UNCHANGED cur
  <2>1. ASSUME NEW v \in Worker, cur[v] # NoRun
        PROVE  run'[cur[v]] \notin {"ABSENT", "RETRYING"}
    BY <1>5, <2>1, Recovered, RetriedAreNew
  <2> QED
    BY <1>5, <2>1
<1> QED
  BY <1>1, <1>2, <1>3, <1>4, <1>5, HeldChange

(***************************************************************************)
(* Two processes never hold the same attempt, even when they share a       *)
(* worker id and one of them outlives its lease: a run is put back to      *)
(* RETRYING only by the process that holds it, and recovery retries under  *)
(* a new attempt.                                                          *)
(***************************************************************************)
THEOREM RunsAreHeldOnce == Spec => []RunHeldOnce
<1>1. Init => Held
  BY DEF Init, Held, HeldInv, RunHeldOnce
<1>2. Held => RunHeldOnce
  BY DEF Held
<1> QED
  BY <1>1, <1>2, InitTypeInv, InitOrderInv, NextTypeInv, NextOrderInv, NextHeld,
     PTL DEF Spec
-----------------------------------------------------------------------------
(***************************************************************************)
(* The job follows its stage runs: while one is active the job is not      *)
(* waiting, and when one is dead the job has ended.                        *)
(***************************************************************************)
LEMMA NextJobInv ==
  ASSUME TypeInv, OrderInv, JobInv, [Next]_vars
  PROVE  JobInv'
<1> SUFFICES ASSUME NEW r \in Run
             PROVE  /\ run'[r] = "RUNNING" => jobStatus' \notin {"QUEUED", "RETRYING"}
                    /\ run'[r] = "DEAD_LETTER" => jobStatus' \in JobEnded
  BY DEF JobInv
<1> DEFINE Goal == /\ run'[r] = "RUNNING" => jobStatus' \notin {"QUEUED", "RETRYING"}
                   /\ run'[r] = "DEAD_LETTER" => jobStatus' \in JobEnded
<1> USE RunParts DEF TypeInv, TypeOK, HasRun, AtRun, OrderInv, JobInv, JobEnded,
                     JobStatus, job, runs
<1>1. CASE UNCHANGED vars
  BY <1>1 DEF vars
<1>2. ASSUME NEW w \in Worker, Step(w) \/ Crash(w) PROVE Goal
  <2>1. CASE ClaimJob(w)
    BY <2>1 DEF ClaimJob
  <2>2. CASE ClaimRetry(w) \/ ClaimFirst(w)
    BY <2>2 DEF ClaimRetry, ClaimFirst, MayClaim, HoldsJob, Take, Claimable
  <2>3. CASE CompleteStage(w) \/ FailStage(w)
    BY <2>3 DEF CompleteStage, FailStage, HoldsRun, Release
  <2>4. CASE CompleteJob(w)
    BY <2>4 DEF CompleteJob, HoldsJob
  <2>5. CASE ChooseStage(w) \/ ClaimThrows(w) \/ ClaimNothing(w) \/ Handle(w)
    BY <2>5 DEF ChooseStage, ClaimThrows, ClaimNothing, Handle
  <2>6. CASE CompleteProduction(w) \/ Crash(w)
    BY <2>6 DEF CompleteProduction, Crash
  <2> QED
    BY <1>2, <2>1, <2>2, <2>3, <2>4, <2>5, <2>6 DEF Step
<1>3. CASE ExpireJob BY <1>3 DEF ExpireJob
<1>4. ASSUME NEW q \in Run, ExpireRun(q) PROVE Goal
  BY <1>4 DEF ExpireRun
<1>5. CASE RecoverJob BY <1>5 DEF RecoverJob
<1>6. CASE RecoverRuns
  <2>1. PICK x \in Expired : TRUE
    BY <1>6 DEF RecoverRuns
  <2>2. x \in Run /\ run[x] = "RUNNING"
    BY DEF Expired
  <2>3. run'[r] # "RUNNING"
    <3>1. ASSUME run[r] = "RUNNING" PROVE r \in Expired
      <4>1. r = x
        BY <2>2, <3>1, OrderIsSafe DEF OneActiveRun
      <4> QED
        BY <4>1
    <3> QED
      BY <1>6, <3>1, Recovered
  <2>4. jobStatus = "RUNNING" =>
          jobStatus' = IF \E q \in Expired : q[2] = MaxAttempts THEN "FAILED" ELSE "RETRYING"
    BY <1>6, Zenon DEF RecoverRuns
  <2>5. jobStatus # "RUNNING" => jobStatus' = jobStatus
    BY <1>6, Zenon DEF RecoverRuns
  <2>6. ASSUME run'[r] = "DEAD_LETTER" PROVE jobStatus' \in JobEnded
    <3>1. CASE run[r] = "DEAD_LETTER"
      BY <2>5, <3>1
    <3>2. CASE run[r] # "DEAD_LETTER"
      <4>1. r \in Expired /\ ~(r[2] < MaxAttempts)
        BY <1>6, <2>6, <3>2, Recovered
      <4>2. r[2] = MaxAttempts
        <5> HIDE DEF TypeInv, TypeOK, OrderInv, JobInv
        <5>1. r[2] \in 1..MaxAttempts
          BY DEF Attempt
        <5> QED
          BY <4>1, <5>1
      <4>3. run[r] = "RUNNING"
        BY <4>1 DEF Expired
      <4> QED
        BY <2>4, <2>5, <4>1, <4>2, <4>3
    <3> QED
      BY <3>1, <3>2
  <2> QED
    BY <2>3, <2>6
<1> QED
  BY <1>1, <1>2, <1>3, <1>4, <1>5, <1>6 DEF Next, Recover

LEMMA NextLatestAttempt ==
  ASSUME TypeInv, AttemptsInOrder, LatestAttempt, [Next]_vars
  PROVE  LatestAttempt'
<1> SUFFICES ASSUME NEW s \in Stage, run'[<<s, 1>>] # "ABSENT"
             PROVE  \E a \in Attempt : run'[<<s, a>>] \notin {"ABSENT", "FAILED"}
  BY DEF LatestAttempt
<1> USE RunParts DEF TypeInv, TypeOK, LatestAttempt
<1>1. CASE UNCHANGED run
  BY <1>1
<1>2. ASSUME NEW w \in Worker, NEW r \in Run, Claims(w, r)
      PROVE  \E a \in Attempt : run'[<<s, a>>] \notin {"ABSENT", "FAILED"}
  <2>1. CASE r[1] = s
    <3>1. run'[<<s, r[2]>>] = "RUNNING"
      BY <1>2, <2>1 DEF Claims
    <3> QED
      BY <3>1
  <2>2. CASE r[1] # s
    <3>1. \A a \in Attempt : run'[<<s, a>>] = run[<<s, a>>]
      BY <1>2, <2>2 DEF Claims
    <3> QED
      BY <3>1
  <2> QED
    BY <2>1, <2>2
<1>3. ASSUME NEW w \in Worker, Ends(w)
      PROVE  \E a \in Attempt : run'[<<s, a>>] \notin {"ABSENT", "FAILED"}
  BY <1>3 DEF Ends
<1>4. CASE RecoverRuns
  <2>1. run[<<s, 1>>] # "ABSENT"
    <3>1. <<s, 1>> \notin Retried
      BY RetriedAreNew DEF Expired, Attempt
    <3> QED
      BY <1>4, <3>1, Recovered DEF Expired
  <2>2. PICK a \in Attempt : run[<<s, a>>] \notin {"ABSENT", "FAILED"}
    BY <2>1
  <2>3. CASE <<s, a>> \in Expired /\ a < MaxAttempts
    <3>1. <<s, a + 1>> \in Retried /\ a + 1 \in Attempt
      BY <2>3 DEF Retried, Next1, Attempt
    <3>2. run'[<<s, a + 1>>] = "RETRYING"
      BY <1>4, <3>1, Recovered
    <3> QED
      BY <3>1, <3>2
  <2>4. CASE <<s, a>> \in Expired /\ ~(a < MaxAttempts)
    <3>1. run'[<<s, a>>] = "DEAD_LETTER"
      BY <1>4, <2>4, Recovered
    <3> QED
      BY <3>1
  <2>5. CASE <<s, a>> \notin Expired
    <3>1. run'[<<s, a>>] = run[<<s, a>>]
      BY <1>4, <2>2, <2>5, Recovered, RetriedAreNew
    <3> QED
      BY <2>2, <3>1
  <2> QED
    BY <2>3, <2>4, <2>5
<1> QED
  BY <1>1, <1>2, <1>3, <1>4, RunChange

LEMMA ClaimableWhileOpen == TypeInv /\ JobInv /\ LatestAttempt => NextStageIsClaimable
<1> SUFFICES ASSUME TypeInv, JobInv, LatestAttempt, jobStatus \notin JobEnded,
                    NEW s \in Stage, Target(s), run[<<s, 1>>] # "ABSENT"
             PROVE  Executing(s) \/ Claimable(s) # {}
  BY DEF NextStageIsClaimable
<1>1. PICK a \in Attempt : run[<<s, a>>] \notin {"ABSENT", "FAILED"}
  BY DEF LatestAttempt
<1>2. <<s, a>> \in Run /\ run[<<s, a>>] \in RunStatus
  BY RunParts DEF TypeInv, TypeOK
<1>3. run[<<s, a>>] # "COMPLETED"
  BY DEF Target, Completed
<1>4. run[<<s, a>>] # "DEAD_LETTER"
  BY <1>2 DEF JobInv
<1> QED
  BY <1>1, <1>2, <1>3, <1>4 DEF RunStatus, Executing, Claimable

(***************************************************************************)
(* While a job has not ended, its next stage is active, waits for a retry, *)
(* or is new: no interleaving of failures, fenced answers and recovery     *)
(* strands a stage whose first attempt a claim would insert again.         *)
(***************************************************************************)
THEOREM NextStageClaimable == Spec => []NextStageIsClaimable
<1> DEFINE Inv == TypeInv /\ OrderInv /\ JobInv /\ LatestAttempt
<1>1. Init => Inv
  <2>1. Init => JobInv /\ LatestAttempt
    BY RunParts DEF Init, JobInv, LatestAttempt
  <2> QED
    BY <2>1, InitTypeInv, InitOrderInv
<1>2. Inv /\ [Next]_vars => Inv'
  BY NextTypeInv, NextOrderInv, NextJobInv, NextLatestAttempt DEF OrderInv
<1>3. Inv => NextStageIsClaimable
  BY ClaimableWhileOpen
<1> QED
  BY <1>1, <1>2, <1>3, PTL DEF Spec
-----------------------------------------------------------------------------
(***************************************************************************)
(* When every process has a worker id of its own, the lease of the job     *)
(* excludes: who holds it and is between two stages knows that none is     *)
(* active, that the stage it has chosen is still to do, and that all are   *)
(* done when it goes to complete the job.                                  *)
(***************************************************************************)
IdsAreOwn == \A v, w \in Worker : IdOf[v] = IdOf[w] => v = w

HolderInv ==
  \A w \in Worker : HoldsJob(w) =>
    /\ pc[w] \in {"next", "locking", "closing"} => \A r \in Run : run[r] # "RUNNING"
    /\ pc[w] = "locking" => ~Completed(aim[w])
    /\ pc[w] = "closing" => \A s \in Stage : Completed(s)

LEMMA NextHolderInv ==
  ASSUME IdsAreOwn, TypeInv, OrderInv, JobInv, HolderInv, [Next]_vars
  PROVE  HolderInv'
<1> DEFINE Safe(v) ==
      /\ pc[v] \in {"next", "locking", "closing"} => \A r \in Run : run[r] # "RUNNING"
      /\ pc[v] = "locking" => ~Completed(aim[v])
      /\ pc[v] = "closing" => \A s \in Stage : Completed(s)
<1> SUFFICES ASSUME NEW v \in Worker, HoldsJob(v)' PROVE Safe(v)'
  BY DEF HolderInv
<1> USE RunParts DEF TypeInv, TypeOK, HasRun, AtRun, OrderInv, HolderInv,
                     HoldsJob, Goto, job, runs
<1>0. OneActiveRun
  BY OrderIsSafe
<1>1. CASE UNCHANGED vars
  BY <1>1 DEF vars, Completed
<1>2. ASSUME NEW w \in Worker, Step(w) \/ Crash(w) PROVE Safe(v)'
  <2>1. CASE ClaimJob(w)
    <3>1. v = w /\ pc'[v] = "next" /\ UNCHANGED run
      BY <2>1 DEF ClaimJob, IdsAreOwn
    <3>2. \A r \in Run : run[r] # "RUNNING"
      BY <2>1 DEF ClaimJob, JobInv
    <3> QED
      BY <3>1, <3>2
  <2>2. CASE ChooseStage(w)
    BY <2>2 DEF ChooseStage, Target, Completed
  <2>3. CASE ClaimRetry(w) \/ ClaimFirst(w)
    <3>1. v = w
      BY <2>3 DEF ClaimRetry, ClaimFirst, MayClaim, IdsAreOwn
    <3>2. pc'[v] = "running"
      BY <2>3, <3>1 DEF ClaimRetry, ClaimFirst, Take
    <3> QED
      BY <3>2
  <2>4. CASE ClaimThrows(w)
    BY <2>4 DEF ClaimThrows, Completed
  <2>5. CASE ClaimNothing(w)
    <3>1. CASE v # w
      BY <2>5, <3>1 DEF ClaimNothing, Completed
    <3>2. CASE v = w
      BY <2>5, <3>2 DEF ClaimNothing, Completed, Executing
    <3> QED
      BY <3>1, <3>2
  <2>6. CASE CompleteStage(w) \/ FailStage(w)
    <3>1. HoldsJob(v) /\ aim'[v] = aim[v]
      BY <2>6 DEF CompleteStage, FailStage
    <3>2. CASE UNCHANGED run
      BY <2>6, <3>1, <3>2 DEF CompleteStage, FailStage, HoldsRun, Release, Completed
    <3>3. CASE ~UNCHANGED run
      <4>1. /\ cur[w] \in Run /\ run[cur[w]] = "RUNNING"
            /\ \E s \in {"COMPLETED", "RETRYING"} : run' = [run EXCEPT ![cur[w]] = s]
        BY <2>6, <3>3 DEF CompleteStage, FailStage, HoldsRun, Release
      <4>2. pc[v] \notin {"next", "locking", "closing"}
        BY <3>1, <4>1
      <4>3. pc'[v] \notin {"locking", "closing"}
        BY <2>6, <4>2 DEF CompleteStage, FailStage
      <4>4. \A r \in Run : run'[r] # "RUNNING"
        BY <1>0, <4>1 DEF OneActiveRun
      <4> QED
        BY <4>3, <4>4
    <3> QED
      BY <3>2, <3>3
  <2>7. CASE CompleteJob(w)
    BY <2>7 DEF CompleteJob, Completed
  <2>8. CASE Handle(w) \/ CompleteProduction(w) \/ Crash(w)
    BY <2>8 DEF Handle, CompleteProduction, Crash, Completed
  <2> QED
    BY <1>2, <2>1, <2>2, <2>3, <2>4, <2>5, <2>6, <2>7, <2>8 DEF Step
<1>3. CASE ExpireJob BY <1>3 DEF ExpireJob
<1>4. ASSUME NEW r \in Run, ExpireRun(r) PROVE Safe(v)'
  BY <1>4 DEF ExpireRun, Completed
<1>5. CASE RecoverRuns BY <1>5 DEF RecoverRuns
<1>6. CASE RecoverJob BY <1>6 DEF RecoverJob
<1> QED
  BY <1>1, <1>2, <1>3, <1>4, <1>5, <1>6 DEF Next, Recover

LEMMA NextJobWhole ==
  ASSUME TypeInv, OrderInv, HolderInv, CompletedJobIsWhole, [Next]_vars
  PROVE  CompletedJobIsWhole'
<1> SUFFICES ASSUME jobStatus' = "COMPLETED", NEW s \in Stage PROVE Completed(s)'
  BY DEF CompletedJobIsWhole
<1>1. CASE jobStatus = "COMPLETED"
  BY <1>1, CompletedStable DEF CompletedJobIsWhole, OrderInv
<1>2. CASE jobStatus # "COMPLETED"
  <2>1. PICK w \in Worker : CompleteJob(w)
    BY <1>2 DEF Next, vars, job, runs, Step, Recover, ClaimJob, ChooseStage, ClaimRetry,
       ClaimFirst, ClaimThrows, ClaimNothing, Handle, CompleteStage, FailStage,
       CompleteProduction, Crash, ExpireJob, ExpireRun, RecoverRuns, RecoverJob
  <2>2. HoldsJob(w) /\ pc[w] = "closing"
    BY <1>2, <2>1 DEF CompleteJob
  <2>3. Completed(s)
    BY <2>2 DEF HolderInv
  <2> QED
    BY <2>3, CompletedStable DEF OrderInv
<1> QED
  BY <1>1, <1>2

LEMMA HolderNeverCollides ==
  TypeInv /\ OrderInv /\ JobInv /\ LatestAttempt /\ HolderInv => NoAttemptCollision
<1> SUFFICES ASSUME TypeInv, OrderInv, JobInv, LatestAttempt, HolderInv,
                    NEW w \in Worker, Collides(w)
             PROVE  FALSE
  BY DEF NoAttemptCollision
<1>1. HoldsJob(w) /\ pc[w] = "locking" /\ aim[w] \in Stage
  BY DEF Collides, MayClaim, TypeInv, TypeOK
<1>2. Target(aim[w])
  BY <1>1 DEF HolderInv, Target, OrderInv, AimInv
<1>3. jobStatus \notin JobEnded
  BY <1>1 DEF HoldsJob, JobEnded
<1> QED
  BY <1>1, <1>2, <1>3, ClaimableWhileOpen DEF NextStageIsClaimable, Collides, MayClaim

ExclusionInv == /\ TypeInv /\ OrderInv /\ JobInv /\ LatestAttempt
                /\ HolderInv /\ CompletedJobIsWhole

LEMMA InitExclusionInv == Init => ExclusionInv
<1>1. Init => JobInv /\ LatestAttempt /\ HolderInv /\ CompletedJobIsWhole
  BY RunParts DEF Init, JobInv, LatestAttempt, HolderInv, HoldsJob, CompletedJobIsWhole
<1> QED
  BY <1>1, InitTypeInv, InitOrderInv DEF ExclusionInv

LEMMA NextExclusionInv ==
  ASSUME IdsAreOwn PROVE ExclusionInv /\ [Next]_vars => ExclusionInv'
  BY NextTypeInv, NextOrderInv, NextJobInv, NextLatestAttempt, NextHolderInv,
     NextJobWhole DEF OrderInv, ExclusionInv

(***************************************************************************)
(* With worker ids of their own, processes complete a job only when all    *)
(* its stages are completed, and no claim runs into the unique constraint  *)
(* on attempts.  (When ids are shared neither holds.)                      *)
(***************************************************************************)
THEOREM JobExclusion ==
  ASSUME IdsAreOwn PROVE Spec => [](CompletedJobIsWhole /\ NoAttemptCollision)
<1>1. ExclusionInv => CompletedJobIsWhole /\ NoAttemptCollision
  BY HolderNeverCollides DEF ExclusionInv
<1> QED
  BY <1>1, InitExclusionInv, NextExclusionInv, PTL DEF Spec
-----------------------------------------------------------------------------
(***************************************************************************)
(* To its production, a job with such processes is an OrderedPipeline.     *)
(* What is completed is a prefix of the stages, and a run is active only   *)
(* for a job that is RUNNING.                                              *)
(***************************************************************************)
CompletedUpTo(n) == \A s \in Stage : Completed(s) <=> s <= n
Prefix == \E n \in 0 .. N : CompletedUpTo(n)
NoneActive == \A r \in Run : run[r] # "RUNNING"
ActiveInv == \A r \in Run : run[r] = "RUNNING" => jobStatus = "RUNNING"
PipelineInv == ExclusionInv /\ Prefix /\ ActiveInv

LEMMA ProgressIs == \A n \in 0 .. N : CompletedUpTo(n) => Progress = n
<1> SUFFICES ASSUME NEW n \in 0 .. N, CompletedUpTo(n) PROVE Progress = n
  OBVIOUS
<1>1. ASSUME NEW m \in 0 .. N, NEW k \in 0 .. N, CompletedUpTo(m), CompletedUpTo(k)
      PROVE  ~(m < k)
  <2>1. SUFFICES ASSUME m < k PROVE FALSE
    OBVIOUS
  <2>2. k \in Stage /\ k <= k /\ ~(k <= m)
    BY <2>1 DEF Stage
  <2> QED
    BY <1>1, <2>2 DEF CompletedUpTo
<1>2. Progress \in 0 .. N /\ CompletedUpTo(Progress)
  BY DEF Progress, CompletedUpTo
<1> QED
  BY <1>1, <1>2

LEMMA InHandIs ==
  /\ NoneActive => InHand = 0
  /\ OneActiveRun => \A r \in Run : run[r] = "RUNNING" => InHand = r[1]
<1> USE RunParts
<1>1. ASSUME NoneActive PROVE InHand = 0
  BY <1>1 DEF NoneActive, InHand, Executing
<1>2. ASSUME OneActiveRun, NEW r \in Run, run[r] = "RUNNING" PROVE InHand = r[1]
  <2>1. Executing(r[1])
    BY <1>2 DEF Executing
  <2>2. ASSUME NEW s \in Stage, Executing(s) PROVE s = r[1]
    <3>1. PICK a \in Attempt : run[<<s, a>>] = "RUNNING"
      BY <2>2 DEF Executing
    <3>2. <<s, a>> = r
      BY <1>2, <3>1 DEF OneActiveRun
    <3> QED
      BY <3>2
  <2> QED
    BY <2>1, <2>2 DEF InHand
<1> QED
  BY <1>1, <1>2

\* The stages that are completed when one of them is active or may be begun.
LEMMA PrefixBefore ==
  ASSUME Prefix, NEW s \in Stage, ~Completed(s), \A p \in Stage : p < s => Completed(p)
  PROVE  CompletedUpTo(s - 1) /\ s - 1 \in 0 .. N
<1>1. PICK n \in 0 .. N : CompletedUpTo(n)
  BY DEF Prefix
<1>2. s \in 1 .. N
  BY DEF Stage
<1>3. ~(s <= n)
  BY <1>1 DEF CompletedUpTo
<1>4. ~(n < s - 1)
  <2>1. SUFFICES ASSUME n < s - 1 PROVE FALSE
    OBVIOUS
  <2>2. n + 1 \in Stage /\ n + 1 < s /\ ~(n + 1 <= n)
    BY <1>2, <2>1 DEF Stage
  <2> QED
    BY <1>1, <2>2 DEF CompletedUpTo
<1>5. n = s - 1
  BY <1>2, <1>3, <1>4
<1> QED
  BY <1>1, <1>5

LEMMA ActiveIsNext ==
  ASSUME TypeInv, OrderInv, Prefix, NEW r \in Run, run[r] = "RUNNING"
  PROVE  CompletedUpTo(r[1] - 1) /\ r[1] - 1 \in 0 .. N /\ ~Completed(r[1])
<1>1. ~Completed(r[1])
  <2>1. ASSUME NEW a \in Attempt, run[<<r[1], a>>] = "COMPLETED" PROVE FALSE
    <3>1. <<r[1], a>> # r
      BY <2>1
    <3> QED
      BY <2>1, <3>1, RunParts, OrderIsSafe DEF CompletedIsFinal
  <2> QED
    BY <2>1 DEF Completed
<1>2. \A p \in Stage : p < r[1] => Completed(p)
  BY DEF OrderInv, StagesInOrder
<1> QED
  BY <1>1, <1>2, PrefixBefore, RunParts
-----------------------------------------------------------------------------
(***************************************************************************)
(* A step of the job, as its pipeline sees it: how the completed stages    *)
(* and the stage in hand change, with the run they change by.              *)
(***************************************************************************)
SameStages == \A s \in Stage : Completed(s)' <=> Completed(s)

LEMMA ClaimStep ==
  ASSUME PipelineInv, NEW w \in Worker, NEW r \in Run, Claims(w, r)
  PROVE  /\ jobStatus = "RUNNING" /\ NoneActive
         /\ CompletedUpTo(r[1] - 1) /\ r[1] - 1 \in 0 .. N
         /\ run'[r] = "RUNNING" /\ SameStages
<1> USE DEF PipelineInv, ExclusionInv, TypeInv, TypeOK
<1>1. HoldsJob(w) /\ pc[w] = "locking" /\ aim[w] = r[1] /\ r[1] \in Stage
  BY RunParts DEF Claims, MayClaim
<1>2. NoneActive /\ ~Completed(r[1])
  BY <1>1 DEF HolderInv, NoneActive
<1>3. \A p \in Stage : p < r[1] => Completed(p)
  BY <1>1 DEF OrderInv, AimInv
<1>4. SameStages
  BY RunParts DEF Claims, SameStages, Completed
<1> QED
  BY <1>1, <1>2, <1>3, <1>4, PrefixBefore DEF HoldsJob, Claims

LEMMA EndStep ==
  ASSUME PipelineInv, NEW w \in Worker, Ends(w)
  PROVE  \E r \in Run :
           /\ run[r] = "RUNNING" /\ NoneActive'
           /\ CompletedUpTo(r[1] - 1) /\ r[1] - 1 \in 0 .. N
           /\ SameStages \/ \A s \in Stage : Completed(s)' <=> Completed(s) \/ s = r[1]
<1> USE DEF PipelineInv, ExclusionInv, TypeInv, TypeOK
<1> DEFINE r == cur[w]
<1>1. r \in Run /\ run[r] = "RUNNING"
  BY DEF Ends
<1>2. PICK e \in {"COMPLETED", "RETRYING"} : run' = [run EXCEPT ![r] = e]
  BY DEF Ends
<1> HIDE DEF r
<1>3. CompletedUpTo(r[1] - 1) /\ r[1] - 1 \in 0 .. N
  BY <1>1, ActiveIsNext
<1>4. NoneActive'
  BY <1>1, <1>2, OrderIsSafe DEF NoneActive, OneActiveRun
<1>5. \A q \in Run : run'[q] = IF q = r THEN e ELSE run[q]
  BY <1>1, <1>2
<1>6. CASE e = "RETRYING"
  BY <1>1, <1>3, <1>4, <1>5, <1>6, RunParts DEF SameStages, Completed
<1>7. CASE e = "COMPLETED"
  <2>1. ASSUME NEW s \in Stage PROVE Completed(s)' <=> Completed(s) \/ s = r[1]
    <3>1. CASE s = r[1]
      <4>1. <<s, r[2]>> \in Run /\ run'[<<s, r[2]>>] = "COMPLETED" /\ r[2] \in Attempt
        BY <1>1, <1>5, <1>7, <3>1, RunParts
      <4> QED
        BY <3>1, <4>1 DEF Completed
    <3>2. CASE s # r[1]
      <4>1. \A a \in Attempt : run'[<<s, a>>] = run[<<s, a>>]
        BY <1>5, <3>2, RunParts
      <4> QED
        BY <3>2, <4>1 DEF Completed
    <3> QED
      BY <3>1, <3>2
  <2> QED
    BY <1>1, <1>3, <1>4, <2>1
<1> QED
  BY <1>6, <1>7

LEMMA RecoverStep ==
  ASSUME PipelineInv, RecoverRuns
  PROVE  /\ \E r \in Run : run[r] = "RUNNING"
         /\ NoneActive' /\ SameStages /\ jobStatus = "RUNNING"
<1> USE DEF PipelineInv, ExclusionInv, TypeInv, TypeOK, OrderInv
<1>1. PICK x \in Expired : TRUE
  BY DEF RecoverRuns
<1>2. x \in Run /\ run[x] = "RUNNING"
  BY DEF Expired
<1>3. ASSUME NEW r \in Run PROVE run'[r] # "RUNNING"
  <2>1. run[r] = "RUNNING" => r \in Expired
    BY <1>1, <1>2, OrderIsSafe DEF OneActiveRun
  <2> QED
    BY <2>1, Recovered
<1>4. ASSUME NEW r \in Run PROVE run'[r] = "COMPLETED" <=> run[r] = "COMPLETED"
  BY Recovered, RetriedAreNew
<1>5. SameStages
  BY <1>4, RunParts DEF SameStages, Completed
<1> QED
  BY <1>2, <1>3, <1>5 DEF NoneActive, ActiveInv
-----------------------------------------------------------------------------
LEMMA NothingAtFirst == Init => CompletedUpTo(0) /\ NoneActive
<1> SUFFICES ASSUME Init PROVE CompletedUpTo(0) /\ NoneActive
  OBVIOUS
<1>1. \A r \in Run : run[r] = "ABSENT"
  BY DEF Init
<1>2. \A s \in Stage, a \in Attempt : run[<<s, a>>] = "ABSENT"
  BY <1>1, RunParts
<1>3. \A s \in Stage : ~Completed(s)
  BY <1>2 DEF Completed
<1>4. \A s \in Stage : ~(s <= 0)
  BY DEF Stage
<1> QED
  BY <1>1, <1>3, <1>4 DEF CompletedUpTo, NoneActive

LEMMA InitPipelineInv == Init => PipelineInv
<1>1. 0 \in 0 .. N
  OBVIOUS
<1> QED
  BY <1>1, InitExclusionInv, NothingAtFirst
     DEF PipelineInv, Prefix, ActiveInv, NoneActive

\* The job leaves RUNNING only when none of its runs is active.
LEMMA JobStatusChange ==
  ASSUME PipelineInv, [Next]_vars, jobStatus' # jobStatus
  PROVE  \/ /\ jobStatus \in {"QUEUED", "RETRYING"} /\ jobStatus' = "RUNNING" /\ UNCHANGED run
            /\ UNCHANGED production \/ (production \in {"DRAFT", "RUNNING"} /\ production' = "RUNNING")
         \/ /\ jobStatus = "RUNNING" /\ jobStatus' = "COMPLETED"
            /\ NoneActive /\ CompletedUpTo(N) /\ UNCHANGED <<run, production>>
         \/ /\ jobStatus = "RUNNING" /\ jobStatus' \in {"RETRYING", "DEAD_LETTER"}
            /\ NoneActive /\ UNCHANGED <<run, production>>
         \/ RecoverRuns
<1> USE DEF job, runs, vars
<1>1. ASSUME NEW w \in Worker, ClaimJob(w)
      PROVE  /\ jobStatus \in {"QUEUED", "RETRYING"} /\ jobStatus' = "RUNNING" /\ UNCHANGED run
             /\ UNCHANGED production \/ (production \in {"DRAFT", "RUNNING"} /\ production' = "RUNNING")
  BY <1>1 DEF ClaimJob
<1>2. ASSUME NEW w \in Worker, CompleteJob(w)
      PROVE  /\ jobStatus = "RUNNING" /\ jobStatus' = "COMPLETED"
             /\ NoneActive /\ CompletedUpTo(N) /\ UNCHANGED <<run, production>>
  <2>1. HoldsJob(w) /\ pc[w] = "closing" /\ jobStatus' = "COMPLETED" /\ UNCHANGED <<run, production>>
    BY <1>2 DEF CompleteJob
  <2>2. NoneActive /\ \A s \in Stage : Completed(s)
    BY <2>1 DEF PipelineInv, ExclusionInv, HolderInv, NoneActive
  <2>3. \A s \in Stage : s <= N
    BY DEF Stage
  <2> QED
    BY <2>1, <2>2, <2>3 DEF HoldsJob, CompletedUpTo
<1>3. CASE RecoverJob
  BY <1>3 DEF RecoverJob, NoneActive
<1>4. ASSUME NEW w \in Worker, Step(w) \/ Crash(w) PROVE ClaimJob(w) \/ CompleteJob(w)
  BY <1>4 DEF Step, ChooseStage, ClaimRetry, ClaimFirst, ClaimThrows, ClaimNothing, Handle,
     CompleteStage, FailStage, CompleteProduction, Crash
<1>5. CASE ExpireJob BY <1>5 DEF ExpireJob
<1>6. ASSUME NEW r \in Run, ExpireRun(r) PROVE FALSE
  BY <1>6 DEF ExpireRun
<1> QED
  BY <1>1, <1>2, <1>3, <1>4, <1>5, <1>6 DEF Next, Recover

LEMMA NextPrefix == ASSUME PipelineInv, [Next]_vars PROVE Prefix'
<1> USE DEF PipelineInv, ExclusionInv
<1>1. ASSUME NEW n \in 0 .. N, CompletedUpTo(n)' PROVE Prefix'
  BY <1>1 DEF Prefix
<1>2. PICK n \in 0 .. N : CompletedUpTo(n)
  BY DEF Prefix
<1>3. CASE UNCHANGED run
  BY <1>1, <1>2, <1>3 DEF CompletedUpTo, Completed
<1>4. CASE SameStages
  BY <1>1, <1>2, <1>4 DEF CompletedUpTo, SameStages
<1>5. ASSUME NEW r \in Run, CompletedUpTo(r[1] - 1), r[1] - 1 \in 0 .. N,
             \A s \in Stage : Completed(s)' <=> Completed(s) \/ s = r[1]
      PROVE  Prefix'
  <2>1. r[1] \in 0 .. N
    BY RunParts DEF Stage
  <2>2. ASSUME NEW s \in Stage PROVE Completed(s)' <=> s <= r[1]
    <3>1. s \in Nat
      BY DEF Stage
    <3>2. (s <= r[1] - 1 \/ s = r[1]) <=> s <= r[1]
      BY <2>1, <3>1
    <3> QED
      BY <1>5, <3>2 DEF CompletedUpTo
  <2>3. CompletedUpTo(r[1])'
    BY <2>2 DEF CompletedUpTo
  <2> QED
    BY <1>1, <2>1, <2>3
<1>6. TypeInv
  OBVIOUS
<1> QED
  BY <1>3, <1>4, <1>5, <1>6, RunChange, ClaimStep, EndStep, RecoverStep

LEMMA NextPipelineInv ==
  ASSUME IdsAreOwn PROVE PipelineInv /\ [Next]_vars => PipelineInv'
<1> SUFFICES ASSUME PipelineInv, [Next]_vars PROVE PipelineInv'
  OBVIOUS
<1>1. ExclusionInv'
  BY NextExclusionInv DEF PipelineInv
<1>2. Prefix'
  BY NextPrefix
<1>3. ActiveInv'
  <2> SUFFICES ASSUME NEW r \in Run, run'[r] = "RUNNING" PROVE jobStatus' = "RUNNING"
    BY DEF ActiveInv
  <2>1. ~RecoverRuns
    BY RecoverStep DEF NoneActive
  <2>2. CASE run[r] = "RUNNING"
    BY <2>1, <2>2, JobStatusChange DEF PipelineInv, ActiveInv, NoneActive
  <2>3. CASE run[r] # "RUNNING"
    <3>1. ASSUME NEW w \in Worker, Ends(w) PROVE FALSE
      BY <3>1, EndStep DEF NoneActive
    <3>2. PICK w \in Worker, q \in Run : Claims(w, q)
      BY <2>1, <2>3, <3>1, RunChange DEF PipelineInv, ExclusionInv
    <3>3. jobStatus = "RUNNING" /\ run'[q] = "RUNNING" /\ run[q] # "RUNNING"
      BY <3>2, ClaimStep DEF NoneActive
    <3> QED
      BY <2>1, <3>3, JobStatusChange
  <2> QED
    BY <2>2, <2>3
<1> QED
  BY <1>1, <1>2, <1>3 DEF PipelineInv

LEMMA ProductionChange ==
  ASSUME [Next]_vars
  PROVE  \/ UNCHANGED production
         \/ production # "COMPLETED" /\ production' = "RUNNING" /\ UNCHANGED run
         \/ production' = "COMPLETED" /\ jobStatus = "COMPLETED" /\ UNCHANGED <<run, jobStatus>>
<1> USE DEF job, runs, vars
<1>1. ASSUME NEW w \in Worker, ClaimJob(w)
      PROVE  \/ UNCHANGED production
             \/ production # "COMPLETED" /\ production' = "RUNNING" /\ UNCHANGED run
  BY <1>1 DEF ClaimJob
<1>2. ASSUME NEW w \in Worker, CompleteProduction(w)
      PROVE  \/ UNCHANGED production
             \/ production' = "COMPLETED" /\ jobStatus = "COMPLETED" /\ UNCHANGED <<run, jobStatus>>
  BY <1>2 DEF CompleteProduction
<1>3. ASSUME NEW w \in Worker, Step(w) \/ Crash(w)
      PROVE  ClaimJob(w) \/ CompleteProduction(w) \/ UNCHANGED production
  BY <1>3 DEF Step, ChooseStage, ClaimRetry, ClaimFirst, ClaimThrows, ClaimNothing, Handle,
     CompleteStage, FailStage, CompleteJob, Crash
<1>4. CASE ExpireJob BY <1>4 DEF ExpireJob
<1>5. ASSUME NEW r \in Run, ExpireRun(r) PROVE UNCHANGED production
  BY <1>5 DEF ExpireRun
<1>6. CASE Recover BY <1>6 DEF Recover, RecoverRuns, RecoverJob
<1> QED
  BY <1>1, <1>2, <1>3, <1>4, <1>5, <1>6 DEF Next
-----------------------------------------------------------------------------
(***************************************************************************)
(* Each step of the job is a step of the pipeline or a stutter: a claim    *)
(* begins the next stage, the end of a run advances or abandons it, the    *)
(* first loop of recovery abandons it or gives up, and the rest of the     *)
(* steps on the job finish, give up or are not seen.                       *)
(***************************************************************************)
Delivered == production = "COMPLETED"
NextOfPipeline == Pipeline!Next \/ UNCHANGED <<Progress, InHand, Outcome, Delivered>>

LEMMA SeenAfter ==
  /\ \A n \in 0 .. N : CompletedUpTo(n)' => Progress' = n
  /\ NoneActive' => InHand' = 0
  /\ OneActiveRun' => \A r \in Run : run'[r] = "RUNNING" => InHand' = r[1]
<1>1. (\A n \in 0 .. N : CompletedUpTo(n) => Progress = n)'
  BY ProgressIs, PTL
<1>2. (/\ NoneActive => InHand = 0
       /\ OneActiveRun => \A r \in Run : run[r] = "RUNNING" => InHand = r[1])'
  BY InHandIs, PTL
<1> QED
  BY <1>1, <1>2

LEMMA SeenSame ==
  /\ UNCHANGED run => Progress' = Progress /\ InHand' = InHand
  /\ SameStages => Progress' = Progress
<1>1. UNCHANGED run => Progress' = Progress /\ InHand' = InHand
  BY DEF Progress, InHand, Completed, Executing
<1>2. SameStages => Progress' = Progress
  BY DEF Progress, SameStages
<1> QED
  BY <1>1, <1>2

LEMMA OutcomeIs ==
  /\ jobStatus \in {"QUEUED", "RUNNING", "RETRYING"} => Outcome = "OPEN"
  /\ jobStatus' \in {"QUEUED", "RUNNING", "RETRYING"} => Outcome' = "OPEN"
  /\ jobStatus = "COMPLETED" => Outcome = "COMPLETED"
  /\ jobStatus' = "COMPLETED" => Outcome' = "COMPLETED"
  /\ jobStatus' \in {"FAILED", "DEAD_LETTER"} => Outcome' = "GIVEN_UP"
  /\ UNCHANGED jobStatus => UNCHANGED Outcome
  BY DEF Outcome, JobEnded

LEMMA RecoverIsSeen ==
  ASSUME PipelineInv, RecoverRuns
  PROVE  NextOfPipeline
<1>1. PICK r \in Run : run[r] = "RUNNING"
  BY RecoverStep
<1>2. InHand = r[1] /\ r[1] # 0 /\ InHand' = 0 /\ Progress' = Progress
  <2>1. OneActiveRun
    BY OrderIsSafe DEF PipelineInv, ExclusionInv
  <2> QED
    BY <1>1, <2>1, RecoverStep, InHandIs, SeenAfter, SeenSame, RunParts DEF Stage
<1>3. UNCHANGED production /\ jobStatus = "RUNNING" /\ jobStatus' \in {"FAILED", "RETRYING"}
  BY RecoverStep DEF RecoverRuns
<1>4. CASE jobStatus' = "FAILED"
  BY <1>2, <1>3, <1>4, OutcomeIs DEF NextOfPipeline, Pipeline!Next, Pipeline!GiveUp, Delivered
<1>5. CASE jobStatus' = "RETRYING"
  BY <1>2, <1>3, <1>5, OutcomeIs DEF NextOfPipeline, Pipeline!Next, Pipeline!Abandon, Delivered
<1> QED
  BY <1>3, <1>4, <1>5

LEMMA ClaimIsSeen ==
  ASSUME PipelineInv, PipelineInv', UNCHANGED <<jobStatus, production>>,
         NEW w \in Worker, NEW r \in Run, Claims(w, r)
  PROVE  NextOfPipeline
<1>1. Progress = r[1] - 1 /\ InHand = 0 /\ Outcome = "OPEN"
  BY ClaimStep, ProgressIs, InHandIs, OutcomeIs
<1>2. UNCHANGED <<Progress, Outcome, Delivered>>
  BY ClaimStep, SeenSame, OutcomeIs DEF Delivered
<1>3. InHand' = r[1]
  <2>1. OneActiveRun'
    <3>1. TypeInv' /\ OrderInv'
      BY DEF PipelineInv, ExclusionInv
    <3>2. (TypeInv /\ OrderInv => OneActiveRun)'
      BY OrderIsSafe, PTL
    <3> QED
      BY <3>1, <3>2
  <2> QED
    BY <2>1, ClaimStep, SeenAfter
<1>4. r[1] \in 1 .. N
  BY RunParts DEF Stage
<1>5. Progress < N /\ InHand' = Progress + 1
  BY <1>1, <1>3, <1>4
<1> QED
  BY <1>1, <1>2, <1>5 DEF NextOfPipeline, Pipeline!Next, Pipeline!Begin, Delivered

LEMMA EndIsSeen ==
  ASSUME PipelineInv, UNCHANGED <<jobStatus, production>>, NEW w \in Worker, Ends(w)
  PROVE  NextOfPipeline
<1>1. PICK r \in Run :
        /\ run[r] = "RUNNING" /\ NoneActive'
        /\ CompletedUpTo(r[1] - 1) /\ r[1] - 1 \in 0 .. N
        /\ SameStages \/ \A s \in Stage : Completed(s)' <=> Completed(s) \/ s = r[1]
  BY EndStep
<1>2. OneActiveRun
  BY OrderIsSafe DEF PipelineInv, ExclusionInv
<1>3. InHand = r[1] /\ InHand' = 0 /\ r[1] \in 1 .. N
  BY <1>1, <1>2, InHandIs, SeenAfter, RunParts DEF Stage
<1>4. UNCHANGED <<Outcome, Delivered>>
  BY OutcomeIs DEF Delivered
<1>5. CASE SameStages
  BY <1>3, <1>4, <1>5, SeenSame DEF NextOfPipeline, Pipeline!Next, Pipeline!Abandon, Delivered
<1>6. CASE \A s \in Stage : Completed(s)' <=> Completed(s) \/ s = r[1]
  <2>1. CompletedUpTo(r[1])'
    <3>1. ASSUME NEW s \in Stage PROVE Completed(s)' <=> s <= r[1]
      <4>1. (s <= r[1] - 1 \/ s = r[1]) <=> s <= r[1]
        BY <1>3 DEF Stage
      <4> QED
        BY <1>1, <1>6, <4>1 DEF CompletedUpTo
    <3> QED
      BY <3>1 DEF CompletedUpTo
  <2>2. Progress' = r[1]
    BY <1>3, <2>1, SeenAfter
  <2> QED
    BY <1>3, <1>4, <2>2 DEF NextOfPipeline, Pipeline!Next, Pipeline!Advance, Delivered
<1> QED
  BY <1>1, <1>5, <1>6

LEMMA JobIsSeen ==
  ASSUME PipelineInv, [Next]_vars, ~RecoverRuns, UNCHANGED run
  PROVE  NextOfPipeline
<1>1. UNCHANGED <<Progress, InHand>>
  BY SeenSame
<1>2. CASE UNCHANGED jobStatus
  <2>1. CASE UNCHANGED Delivered
    BY <1>1, <1>2, <2>1, OutcomeIs DEF NextOfPipeline
  <2>2. CASE Delivered' = TRUE /\ jobStatus = "COMPLETED"
    BY <1>1, <1>2, <2>2, OutcomeIs DEF NextOfPipeline, Pipeline!Next, Pipeline!Deliver, Delivered
  <2> QED
    BY <2>1, <2>2, ProductionChange DEF Delivered
<1>3. CASE jobStatus' # jobStatus
  <2>1. UNCHANGED Delivered
    BY <1>3, JobStatusChange DEF Delivered
  <2>2. CASE jobStatus' = "COMPLETED" /\ jobStatus = "RUNNING" /\ NoneActive /\ CompletedUpTo(N)
    <3>1. Progress = N /\ InHand = 0
      BY <2>2, ProgressIs, InHandIs
    <3> QED
      BY <1>1, <2>1, <2>2, <3>1, OutcomeIs
         DEF NextOfPipeline, Pipeline!Next, Pipeline!Finish, Delivered
  <2>3. CASE jobStatus \in {"QUEUED", "RETRYING", "RUNNING"} /\ jobStatus' \in {"RUNNING", "RETRYING"}
    BY <1>1, <2>1, <2>3, OutcomeIs DEF NextOfPipeline
  <2>4. CASE jobStatus = "RUNNING" /\ jobStatus' = "DEAD_LETTER" /\ NoneActive
    BY <1>1, <2>1, <2>4, InHandIs, OutcomeIs
       DEF NextOfPipeline, Pipeline!Next, Pipeline!GiveUp, Delivered
  <2> QED
    BY <1>3, <2>2, <2>3, <2>4, JobStatusChange
<1> QED
  BY <1>2, <1>3

LEMMA NextIsSeen ==
  ASSUME PipelineInv, PipelineInv', [Next]_vars
  PROVE  NextOfPipeline
<1>1. CASE RecoverRuns
  BY <1>1, RecoverIsSeen
<1>2. CASE ~RecoverRuns /\ UNCHANGED run
  BY <1>2, JobIsSeen
<1>3. CASE ~RecoverRuns /\ ~UNCHANGED run
  <2>1. UNCHANGED <<jobStatus, production>>
    BY <1>3, JobStatusChange, ProductionChange
  <2>2. TypeInv
    BY DEF PipelineInv, ExclusionInv
  <2> QED
    BY <1>3, <2>1, <2>2, RunChange, ClaimIsSeen, EndIsSeen
<1> QED
  BY <1>1, <1>2, <1>3

(***************************************************************************)
(* The engine implements its promise: with worker ids of their own,        *)
(* however processes crash, stall behind a lock or lose their leases, the  *)
(* job goes through its stages one after the other, ends once, and its     *)
(* production is completed only when all of them are.                      *)
(***************************************************************************)
THEOREM PipelineRefinement ==
  ASSUME IdsAreOwn PROVE Spec => ImplementsOrderedPipeline
<1>1. Init => Pipeline!Init
  <2> SUFFICES ASSUME Init PROVE Pipeline!Init
    OBVIOUS
  <2>1. CompletedUpTo(0) /\ NoneActive
    BY NothingAtFirst
  <2>2. Progress = 0 /\ InHand = 0
    BY <2>1, ProgressIs, InHandIs
  <2>3. Outcome = "OPEN" /\ production = "DRAFT"
    BY OutcomeIs DEF Init
  <2> QED
    BY <2>2, <2>3 DEF Pipeline!Init
<1>2. PipelineInv /\ PipelineInv' /\ [Next]_vars => [Pipeline!Next]_(Pipeline!vars)
  BY NextIsSeen DEF NextOfPipeline, Delivered, Pipeline!vars
<1> QED
  BY <1>1, <1>2, InitPipelineInv, NextPipelineInv, PTL
     DEF Spec, ImplementsOrderedPipeline, Pipeline!Spec

(***************************************************************************)
(* What the promise comes to: the stage in hand is the next one of an open *)
(* job, a completed job has every stage behind it, and only a completed    *)
(* one has delivered.                                                      *)
(***************************************************************************)
THEOREM PipelinePromise ==
  ASSUME IdsAreOwn PROVE Spec => []Pipeline!Promise
<1> USE DEF Pipeline!Promise
<1>1. Pipeline!Init => Pipeline!Promise
  BY DEF Pipeline!Init
<1>2. Pipeline!Promise /\ [Pipeline!Next]_(Pipeline!vars) => Pipeline!Promise'
  BY DEF Pipeline!Next, Pipeline!vars, Pipeline!Begin, Pipeline!Advance, Pipeline!Abandon,
         Pipeline!Finish, Pipeline!GiveUp, Pipeline!Deliver
<1> QED
  BY <1>1, <1>2, PipelineRefinement, PTL DEF ImplementsOrderedPipeline, Pipeline!Spec
-----------------------------------------------------------------------------
(***************************************************************************)
(* The legacy factory.                                                     *)
(***************************************************************************)
FactoryConstants == Scenes \in Nat \ {0} /\ MaxRecoveries \in Nat

AtScript == {"saving", "inserting", "scenes", "queueing"}
AtPlan == {"bible", "binding", "shots", "requirements", "packaging"}

(***************************************************************************)
(* Who is where with what: each process works on the rows of its own kind  *)
(* of job and on a script that exists, and the scenes of a script are      *)
(* inserted by the one process that inserted the script.                   *)
(***************************************************************************)
QueuedHasScript == \A p \in F!Planning : status[p] # "absent" => input[p] # 0

OwnInv(w) ==
  /\ at[w] # "idle" => status[F!J(w)] # "absent"
  /\ at[w] \in AtScript => F!J(w) = F!ScriptJob
  /\ at[w] \in AtPlan => F!J(w) \in F!Planning
  /\ at[w] \in AtPlan \cup {"scenes", "queueing"} => mine[w].script # 0
  /\ at[w] \in {"bible", "binding"} => mine[w].next = 1
  /\ at[w] \in {"shots", "requirements"} => mine[w].next \in 1 .. mine[w].seen + 1
  /\ at[w] = "scenes" => scripts[mine[w].script].scenes < Scenes

OwnScript ==
  \A w, v \in Worker :
    at[w] = "scenes" /\ at[v] = "scenes" /\ mine[w].script = mine[v].script => w = v

HandsInv == QueuedHasScript /\ (\A w \in Worker : OwnInv(w)) /\ OwnScript

FactoryTypes == F!TypeOK /\ HandsInv

\* A claim counts, so each process that holds a job has an attempt of its own.
ClaimInv ==
  /\ \A w \in Worker : at[w] # "idle" => mine[w].attempts <= attempts[F!J(w)]
  /\ \A w, v \in Worker : at[w] # "idle" /\ at[v] # "idle" /\ F!J(w) = F!J(v)
                           /\ mine[w].attempts = mine[v].attempts => w = v

\* The script job has one process, until that one has failed it.
SoleInv ==
  F!ScriptJob \notin disowned =>
    \A w \in Worker : F!Holds(w, F!ScriptJob) /\ at[w] # "rethrown" =>
      /\ mine[w].attempts = attempts[F!ScriptJob]
      /\ \/ status[F!ScriptJob] = "running"
         \/ status[F!ScriptJob] = "completed" /\ at[w] = "failing"

\* There is one script, and once planning is queued its scenes are those it has.
FrozenInv ==
  F!ScriptJob \notin disowned =>
    /\ Len(scripts) <= 1
    /\ \A w \in Worker : at[w] = "inserting" => Len(scripts) = 0
    /\ \A w \in Worker : at[w] \in {"inserting", "scenes"} =>
         \A p \in F!Planning : status[p] = "absent"

\* The process whose requirements these are.
Keeper(w) == at[w] = "packaging" \/ (at[w] = "requirements" /\ mine[w].next > 1)

(***************************************************************************)
(* Of all processes that plan one gets past the first key, as long as      *)
(* there is no package; who gets there has all scenes and all shots.       *)
(***************************************************************************)
Fits == \A i \in 1 .. Len(scripts) : scripts[i].shots <= scripts[i].scenes

PlanOf(w) ==
  LET s == scripts[mine[w].script]
  IN /\ at[w] = "scenes" => s.packages = 0
     /\ at[w] \in {"bible", "binding", "shots"} => mine[w].seen = s.scenes
     /\ at[w] = "shots" => mine[w].next <= s.shots + 1
     /\ at[w] = "requirements" => mine[w].seen = s.shots /\ s.shots = s.scenes
     /\ at[w] = "requirements" /\ mine[w].next > 1 => s.required = mine[w].next - 1
     /\ at[w] = "packaging" => s.scenes > 0 /\ s.shots = s.scenes /\ s.required = s.scenes
     /\ Keeper(w) => s.packages = 0 /\ s.required > 0

PlanInv ==
  F!ScriptJob \notin disowned =>
    /\ Fits
    /\ \A w \in Worker : PlanOf(w)
    /\ \A w, v \in Worker : Keeper(w) /\ Keeper(v) => w = v

FactoryInv == FactoryTypes /\ ClaimInv /\ SoleInv /\ FrozenInv /\ PlanInv /\ F!OneWholePackage

Statuses == {"absent", "queued", "running", "retrying", "completed", "dead_letter"}
StageStatuses == {"absent", "running", "completed", "retrying", "dead_letter"}

USE DEF Statuses, StageStatuses, FactoryConstants

Script == [scenes : 0 .. Scenes, shots : 0 .. Scenes, required : 0 .. Scenes, packages : Nat]
Hand == [job : F!Job, attempts : 0 .. MaxAttempts, script : Nat, seen : 0 .. Scenes, next : 0 .. Scenes + 1]

\* What a step does to the processes, and to the script it works on.
Moves(w, l, s, e, n) ==
  /\ at' \in [Worker -> F!Location]
  /\ mine' \in [Worker -> Hand]
  /\ \A v \in Worker : v # w => at'[v] = at[v] /\ mine'[v] = mine[v]
  /\ at'[w] = l
  /\ mine'[w].job = mine[w].job /\ mine'[w].attempts = mine[w].attempts
  /\ mine'[w].script = s /\ mine'[w].seen = e /\ mine'[w].next = n

Walks(w, l) == Moves(w, l, mine[w].script, mine[w].seen, mine[w].next)

Leaves(w) ==
  /\ at' \in [Worker -> F!Location]
  /\ mine' \in [Worker -> Hand]
  /\ \A v \in Worker : v # w => at'[v] = at[v] /\ mine'[v] = mine[v]
  /\ at'[w] = "idle"
  /\ mine'[w].script = 0

Rewrites(i, scenes, shots, required, packages) ==
  /\ scripts' \in Seq(Script)
  /\ Len(scripts') = Len(scripts)
  /\ \A k \in 1 .. Len(scripts) : k # i => scripts'[k] = scripts[k]
  /\ scripts'[i].scenes = scenes /\ scripts'[i].shots = shots
  /\ scripts'[i].required = required /\ scripts'[i].packages = packages
-----------------------------------------------------------------------------
LEMMA FactoryInit ==
  ASSUME FactoryConstants, F!Init
  PROVE  FactoryInv
<1> USE DEF F!Init, F!Idle, F!Holds, F!J, AtScript, AtPlan, Keeper
<1>1. F!TypeOK BY DEF F!TypeOK, F!Job, F!Planning, F!Location
<1>2. HandsInv
  <2>1. \A p \in F!Planning : status[p] = "absent"
    BY DEF F!Job, F!Planning, F!ScriptJob
  <2> QED
    BY <2>1 DEF HandsInv, QueuedHasScript, OwnInv, OwnScript
<1>3. ClaimInv BY DEF ClaimInv
<1>4. SoleInv BY DEF SoleInv
<1>5. FrozenInv BY DEF FrozenInv, F!Planning
<1>6. PlanInv BY DEF PlanInv, Fits, PlanOf
<1>7. F!OneWholePackage BY DEF F!OneWholePackage
<1> QED
  BY <1>1, <1>2, <1>3, <1>4, <1>5, <1>6, <1>7 DEF FactoryInv, FactoryTypes
-----------------------------------------------------------------------------
(***************************************************************************)
(* The effects of the actions, process by process and script by script.    *)
(***************************************************************************)
LEMMA Hands ==
  ASSUME FactoryConstants,
         F!TypeOK
  PROVE  /\ at \in [Worker -> F!Location] /\ mine \in [Worker -> Hand]
         /\ scripts \in Seq(Script)
         /\ \A w \in Worker : mine[w].script <= Len(scripts)
<1>1. \A w \in Worker : mine[w] \in Hand /\ mine[w].script <= Len(scripts)
  <2> SUFFICES ASSUME NEW w \in Worker PROVE mine[w] \in Hand /\ mine[w].script <= Len(scripts)
    OBVIOUS
  <2>1. mine[w] \in [job : F!Job, attempts : 0 .. MaxAttempts, script : 0 .. Len(scripts),
                     seen : 0 .. Scenes, next : 0 .. Scenes + 1]
    BY DEF F!TypeOK
  <2>2. Len(scripts) \in Nat
    BY DEF F!TypeOK
  <2> QED
    BY <2>1, <2>2 DEF Hand
<1>2. mine = [w \in Worker |-> mine[w]]
  BY DEF F!TypeOK
<1> QED
  BY <1>1, <1>2 DEF F!TypeOK, Script

LEMMA HandsOf ==
  ASSUME FactoryConstants,
         mine' \in [Worker -> Hand], scripts' \in Seq(Script),
         \A w \in Worker : mine'[w].script <= Len(scripts')
  PROVE  mine' \in [Worker -> [job : F!Job, attempts : 0 .. MaxAttempts, script : 0 .. Len(scripts'),
                               seen : 0 .. Scenes, next : 0 .. Scenes + 1]]
<1>1. ASSUME NEW w \in Worker
      PROVE  mine'[w] \in [job : F!Job, attempts : 0 .. MaxAttempts, script : 0 .. Len(scripts'),
                           seen : 0 .. Scenes, next : 0 .. Scenes + 1]
  <2>1. mine'[w] \in Hand
    OBVIOUS
  <2> QED
    BY <2>1 DEF Hand
<1> QED
  BY <1>1

LEMMA WalkEffect ==
  ASSUME FactoryConstants,
         F!TypeOK, NEW w \in Worker, NEW l \in F!Location, F!Goto(w, l), mine' = mine
  PROVE  Walks(w, l)
  BY Hands DEF F!Goto, Walks, Moves

LEMMA ReadEffect ==
  ASSUME FactoryConstants,
         F!TypeOK, NEW w \in Worker, NEW l \in F!Location,
         NEW s \in Nat, NEW e \in 0 .. Scenes, NEW n \in 0 .. Scenes + 1,
         at' = [at EXCEPT ![w] = l],
         mine' = [mine EXCEPT ![w].script = s, ![w].seen = e, ![w].next = n]
  PROVE  Moves(w, l, s, e, n)
  BY Hands DEF Moves, Hand

LEMMA FallEffect ==
  ASSUME FactoryConstants,
         F!TypeOK, NEW w \in Worker, NEW l \in F!Location, F!Fall(w, l)
  PROVE  Moves(w, l, 0, 0, 0)
<1>1. 0 \in Nat /\ 0 \in 0 .. Scenes /\ 0 \in 0 .. Scenes + 1
  OBVIOUS
<1> QED
  BY <1>1, ReadEffect DEF F!Fall, F!Goto

LEMMA LeaveEffect ==
  ASSUME FactoryConstants,
         F!TypeOK, NEW w \in Worker, F!Leave(w)
  PROVE  Leaves(w)
<1>1. F!Idle \in Hand
  BY DEF F!Idle, Hand, F!Job, F!ScriptJob
<1> QED
  BY <1>1, Hands DEF F!Leave, F!Goto, Leaves, F!Idle, F!Location

LEMMA ClaimEffect ==
  ASSUME FactoryConstants,
         F!TypeOK, NEW w \in Worker, NEW j \in F!Job, F!ClaimJob(w, j)
  PROVE  /\ at' \in [Worker -> F!Location]
         /\ mine' \in [Worker -> Hand]
         /\ \A v \in Worker : v # w => at'[v] = at[v] /\ mine'[v] = mine[v]
         /\ at[w] = "idle" /\ at'[w] = "opening"
         /\ mine'[w].job = j /\ mine'[w].attempts = attempts[j] + 1 /\ mine'[w].script = 0
         /\ status[j] \in {"queued", "retrying"} /\ attempts[j] + 1 \in 0 .. MaxAttempts
         /\ status' = [status EXCEPT ![j] = "running"]
         /\ attempts' = [attempts EXCEPT ![j] = attempts[j] + 1]
         /\ UNCHANGED <<input, stage, scripts, recoveries, disowned>>
<1>1. attempts[j] + 1 \in 0 .. MaxAttempts
  BY DEF F!TypeOK, F!ClaimJob, F!Claimable
<1> DEFINE t == [F!Idle EXCEPT !.job = j, !.attempts = attempts[j] + 1]
<1>2. F!Idle \in Hand /\ F!Idle.script = 0
  BY DEF F!Idle, Hand, F!Job, F!ScriptJob
<1>3. t \in Hand /\ t.job = j /\ t.attempts = attempts[j] + 1 /\ t.script = 0
  BY <1>1, <1>2 DEF Hand
<1>4. mine' = [mine EXCEPT ![w] = t] /\ at' = [at EXCEPT ![w] = "opening"] /\ at[w] = "idle"
  BY DEF F!ClaimJob, F!Goto
<1> HIDE DEF t
<1> QED
  BY <1>1, <1>3, <1>4, Hands DEF F!Location, F!ClaimJob, F!Claimable, F!recovery

LEMMA RewriteEffect ==
  ASSUME FactoryConstants,
         scripts \in Seq(Script), NEW i \in 1 .. Len(scripts), NEW r \in Script,
         scripts' = [scripts EXCEPT ![i] = r]
  PROVE  Rewrites(i, r.scenes, r.shots, r.required, r.packages)
  BY DEF Rewrites

LEMMA EnsureStageEffect ==
  ASSUME FactoryConstants,
         FactoryTypes, NEW w \in Worker, F!EnsureStage(w)
  PROVE  /\ at[w] = "opening" /\ Walks(w, "generating")
         /\ stage' = [stage EXCEPT ![F!J(w)] = IF stage[F!J(w)] = "completed" THEN "completed" ELSE "running"]
         /\ UNCHANGED <<status, attempts, input, scripts, recoveries, disowned>>
  BY WalkEffect DEF FactoryTypes, F!EnsureStage, F!Set, F!Location, F!rows, F!recovery

LEMMA GenerateScriptEffect ==
  ASSUME FactoryConstants,
         FactoryTypes, NEW w \in Worker, F!GenerateScript(w)
  PROVE  /\ at[w] = "generating" /\ F!J(w) = F!ScriptJob /\ Walks(w, "saving")
         /\ UNCHANGED <<status, attempts, input, stage, scripts, recoveries, disowned>>
  BY WalkEffect DEF FactoryTypes, F!GenerateScript, F!Location, F!rows, F!recovery

LEMMA GeneratePlanEffect ==
  ASSUME FactoryConstants,
         FactoryTypes, NEW w \in Worker, F!GeneratePlan(w)
  PROVE  /\ at[w] = "generating" /\ F!J(w) \in F!Planning
         /\ input[F!J(w)] \in 1 .. Len(scripts)
         /\ Moves(w, "bible", input[F!J(w)], scripts[input[F!J(w)]].scenes, 1)
         /\ UNCHANGED <<status, attempts, input, stage, scripts, recoveries, disowned>>
<1>1. at[w] = "generating" /\ F!J(w) \in F!Planning
  BY DEF F!GeneratePlan
<1>2. status[F!J(w)] # "absent" /\ input[F!J(w)] # 0
  BY <1>1 DEF FactoryTypes, HandsInv, QueuedHasScript, OwnInv, OwnScript
<1>3. input[F!J(w)] \in 1 .. Len(scripts)
  BY <1>1, <1>2 DEF FactoryTypes, F!TypeOK
<1>4. scripts[input[F!J(w)]].scenes \in 0 .. Scenes
  <2>1. scripts[input[F!J(w)]] \in Script
    BY <1>3, Hands DEF FactoryTypes
  <2> QED
    BY <2>1 DEF Script
<1> DEFINE a == input[F!J(w)]
           e == scripts[input[F!J(w)]].scenes
<1>5. mine' = [mine EXCEPT ![w].script = a, ![w].next = 1, ![w].seen = e]
  BY DEF F!GeneratePlan
<1>6. a \in Nat /\ e \in 0 .. Scenes /\ 1 \in 0 .. Scenes + 1
  BY <1>3, <1>4
<1>7. at' = [at EXCEPT ![w] = "bible"]
  BY DEF F!GeneratePlan, F!Goto
<1> HIDE DEF a, e
<1>8. Moves(w, "bible", a, e, 1)
  BY <1>5, <1>6, <1>7, Hands DEF FactoryTypes, Moves, Hand, F!Location
<1> QED
  BY <1>1, <1>3, <1>8 DEF a, e, F!GeneratePlan, F!rows, F!recovery

LEMMA PersistPlanEffect ==
  ASSUME FactoryConstants,
         FactoryTypes, NEW w \in Worker, F!PersistPlan(w)
  PROVE  /\ at[w] = "bible" /\ Walks(w, "binding")
         /\ UNCHANGED <<status, attempts, input, stage, scripts, recoveries, disowned>>
  BY WalkEffect DEF FactoryTypes, F!PersistPlan, F!Location, F!rows, F!recovery

LEMMA PersistScenesEffect ==
  ASSUME FactoryConstants,
         FactoryTypes, NEW w \in Worker, F!PersistScenes(w)
  PROVE  /\ at[w] = "binding" /\ Walks(w, "shots")
         /\ UNCHANGED <<status, attempts, input, stage, scripts, recoveries, disowned>>
  BY WalkEffect DEF FactoryTypes, F!PersistScenes, F!Location, F!rows, F!recovery

LEMMA RefuseEffect ==
  ASSUME FactoryConstants,
         FactoryTypes, NEW w \in Worker, F!Refuse(w)
  PROVE  /\ at[w] = "generating" /\ Moves(w, "failing", 0, 0, 0)
         /\ UNCHANGED <<status, attempts, input, stage, scripts, recoveries, disowned>>
  BY FallEffect DEF FactoryTypes, F!Refuse, F!Location, F!rows, F!recovery

LEMMA SaveScriptEffect ==
  ASSUME FactoryConstants,
         FactoryTypes, NEW w \in Worker, F!SaveScript(w)
  PROVE  /\ at[w] = "saving"
         /\ \/ scripts # <<>> /\ Moves(w, "queueing", Len(scripts), mine[w].seen, mine[w].next)
            \/ scripts = <<>> /\ Walks(w, "inserting")
         /\ UNCHANGED <<status, attempts, input, stage, scripts, recoveries, disowned>>
<1>1. ASSUME scripts # <<>>
      PROVE  Moves(w, "queueing", Len(scripts), mine[w].seen, mine[w].next)
  <2>1. mine' = [mine EXCEPT ![w].script = Len(scripts)] /\ at' = [at EXCEPT ![w] = "queueing"]
    BY <1>1 DEF F!SaveScript, F!Goto
  <2>2. Len(scripts) \in Nat
    BY DEF FactoryTypes, F!TypeOK
  <2> QED
    BY <2>1, <2>2, Hands DEF FactoryTypes, Moves, Hand, F!Location
<1>2. ASSUME scripts = <<>> PROVE Walks(w, "inserting")
  BY <1>2, WalkEffect DEF FactoryTypes, F!SaveScript, F!Location
<1> QED
  BY <1>1, <1>2 DEF F!SaveScript, F!rows, F!recovery

LEMMA InsertScriptEffect ==
  ASSUME FactoryConstants,
         FactoryTypes, NEW w \in Worker, F!InsertScript(w)
  PROVE  /\ at[w] = "inserting"
         /\ Moves(w, "scenes", Len(scripts) + 1, mine[w].seen, mine[w].next)
         /\ scripts' \in Seq(Script)
         /\ Len(scripts') = Len(scripts) + 1
         /\ \A k \in 1 .. Len(scripts) : scripts'[k] = scripts[k]
         /\ scripts'[Len(scripts) + 1] = F!NewScript
         /\ UNCHANGED <<status, attempts, input, stage, recoveries, disowned>>
<1>1. F!NewScript \in Script
  BY DEF F!NewScript, Script
<1>2. scripts' = Append(scripts, F!NewScript)
  BY DEF F!InsertScript
<1>3. mine' = [mine EXCEPT ![w].script = Len(scripts) + 1] /\ at' = [at EXCEPT ![w] = "scenes"]
  BY DEF F!InsertScript, F!Goto
<1>4. Len(scripts) + 1 \in Nat
  BY DEF FactoryTypes, F!TypeOK
<1>5. Moves(w, "scenes", Len(scripts) + 1, mine[w].seen, mine[w].next)
  BY <1>3, <1>4, Hands DEF FactoryTypes, Moves, Hand, F!Location
<1>6. /\ scripts' \in Seq(Script)
      /\ Len(scripts') = Len(scripts) + 1
      /\ \A k \in 1 .. Len(scripts) : scripts'[k] = scripts[k]
      /\ scripts'[Len(scripts) + 1] = F!NewScript
  BY <1>1, <1>2, Hands DEF FactoryTypes
<1> QED
  BY <1>5, <1>6 DEF F!InsertScript, F!rows, F!recovery

\* The script in the hands of a process is there.
LEMMA TextInHand ==
  ASSUME FactoryConstants,
         FactoryTypes, NEW w \in Worker, at[w] \in AtPlan \cup {"scenes", "queueing"}
  PROVE  mine[w].script \in 1 .. Len(scripts) /\ scripts[mine[w].script] \in Script
<1>1. mine[w].script # 0
  BY DEF FactoryTypes, HandsInv, QueuedHasScript, OwnInv, OwnScript
<1>2. mine[w].script \in Nat
  BY Hands DEF FactoryTypes, Hand
<1> QED
  BY <1>1, <1>2, Hands DEF FactoryTypes

\* What inserting a scene makes of a script.
LEMMA OneSceneMore ==
  ASSUME FactoryConstants, NEW r \in Script, r.scenes < Scenes
  PROVE  LET t == [r EXCEPT !.scenes = r.scenes + 1]
         IN /\ t \in Script
            /\ t.scenes = r.scenes + 1 /\ t.shots = r.shots
            /\ t.required = r.required /\ t.packages = r.packages
<1>1. /\ r.scenes \in 0 .. Scenes /\ r.shots \in 0 .. Scenes
      /\ r.required \in 0 .. Scenes /\ r.packages \in Nat
  BY DEF Script
<1>2. r.scenes + 1 \in 0 .. Scenes
  BY <1>1
<1> DEFINE m == r.scenes + 1
           t == [r EXCEPT !.scenes = m]
<1>3. m \in 0 .. Scenes
  BY <1>2
<1> HIDE DEF m
<1>4. /\ t \in Script
      /\ t.scenes = m /\ t.shots = r.shots /\ t.required = r.required /\ t.packages = r.packages
  BY <1>1, <1>3 DEF Script
<1> QED
  BY <1>4 DEF m

LEMMA InsertSceneEffect ==
  ASSUME FactoryConstants,
         FactoryTypes, NEW w \in Worker, F!InsertScene(w)
  PROVE  LET i == mine[w].script
             r == scripts[i]
         IN /\ at[w] = "scenes" /\ r.scenes < Scenes
            /\ \/ Walks(w, "scenes") /\ r.scenes + 1 < Scenes
               \/ Walks(w, "queueing")
            /\ Rewrites(i, r.scenes + 1, r.shots, r.required, r.packages)
            /\ UNCHANGED <<status, attempts, input, stage, recoveries, disowned>>
<1> DEFINE i == mine[w].script
           r == scripts[i]
           t == [r EXCEPT !.scenes = r.scenes + 1]
<1>1. at[w] = "scenes" /\ r.scenes < Scenes
  BY DEF F!InsertScene, FactoryTypes, HandsInv, QueuedHasScript, OwnInv, OwnScript
<1>2. i \in 1 .. Len(scripts) /\ r \in Script
  BY <1>1, TextInHand
<1>3. t \in Script /\ t.scenes = r.scenes + 1 /\ t.shots = r.shots /\ t.required = r.required
      /\ t.packages = r.packages
  BY <1>1, <1>2, OneSceneMore
<1>4. scripts' = [scripts EXCEPT ![i] = t]
  BY DEF F!InsertScene
<1>5. Rewrites(i, t.scenes, t.shots, t.required, t.packages)
  <2> HIDE DEF i, t
  <2> QED BY <1>2, <1>3, <1>4, RewriteEffect, Hands DEF FactoryTypes
<1>6. \/ Walks(w, "scenes") /\ r.scenes + 1 < Scenes
      \/ Walks(w, "queueing")
  <2>1. mine' = mine /\ F!Goto(w, IF r.scenes + 1 < Scenes THEN "scenes" ELSE "queueing")
    BY DEF F!InsertScene
  <2>2. "scenes" \in F!Location /\ "queueing" \in F!Location
    BY DEF F!Location
  <2> QED
    BY <2>1, <2>2, WalkEffect DEF FactoryTypes
<1> QED
  BY <1>1, <1>3, <1>5, <1>6 DEF F!InsertScene, F!rows, F!recovery

LEMMA QueuePlanningEffect ==
  ASSUME FactoryConstants,
         FactoryTypes, NEW w \in Worker, F!QueuePlanning(w)
  PROVE  /\ at[w] = "queueing" /\ Walks(w, "closing")
         /\ \E p \in F!Planning :
              /\ status[p] = "absent"
              /\ status' = [status EXCEPT ![p] = "queued"]
              /\ input' = [input EXCEPT ![p] = mine[w].script]
         /\ UNCHANGED <<attempts, stage, scripts, recoveries, disowned>>
  BY WalkEffect DEF FactoryTypes, F!QueuePlanning, F!Location, F!rows, F!recovery

LEMMA CreateShotEffect ==
  ASSUME FactoryConstants,
         FactoryTypes, NEW w \in Worker, F!CreateShot(w)
  PROVE  LET i == mine[w].script
             r == scripts[i]
             n == mine[w].next
         IN /\ at[w] = "shots"
            /\ \/ /\ n <= mine[w].seen
                  /\ Rewrites(i, r.scenes, IF n > r.shots THEN n ELSE r.shots, r.required, r.packages)
                  /\ Moves(w, "shots", i, mine[w].seen, n + 1)
               \/ /\ n > mine[w].seen
                  /\ scripts' = scripts
                  /\ Moves(w, "requirements", i, r.shots, 1)
            /\ UNCHANGED <<status, attempts, input, stage, recoveries, disowned>>
<1> DEFINE i == mine[w].script
           r == scripts[i]
           n == mine[w].next
           m == IF n > r.shots THEN n ELSE r.shots
           t == [r EXCEPT !.shots = m]
<1>1. at[w] = "shots" /\ mine[w] \in Hand
  BY Hands DEF F!CreateShot, FactoryTypes
<1>2. i \in 1 .. Len(scripts) /\ r \in Script
  BY <1>1, TextInHand DEF AtPlan
<1>3. ASSUME n <= mine[w].seen
      PROVE  Rewrites(i, r.scenes, m, r.required, r.packages) /\ Moves(w, "shots", i, mine[w].seen, n + 1)
  <2>1. m \in 0 .. Scenes /\ n + 1 \in 0 .. Scenes + 1
    BY <1>1, <1>2, <1>3 DEF Script, Hand
  <2>2. t \in Script /\ t.scenes = r.scenes /\ t.shots = m /\ t.required = r.required
        /\ t.packages = r.packages
    <3> HIDE DEF m, r
    <3> QED BY <1>2, <2>1 DEF Script
  <2>3. scripts' = [scripts EXCEPT ![i] = t]
    BY <1>3 DEF F!CreateShot
  <2>4. Rewrites(i, t.scenes, t.shots, t.required, t.packages)
    <3> HIDE DEF i, t
    <3> QED BY <1>2, <2>2, <2>3, RewriteEffect, Hands DEF FactoryTypes
  <2>5. mine' = [mine EXCEPT ![w].next = n + 1] /\ at' = at
    BY <1>3 DEF F!CreateShot
  <2>6. Moves(w, "shots", i, mine[w].seen, n + 1)
    BY <1>1, <2>1, <2>5, Hands DEF FactoryTypes, Moves, Hand
  <2> QED
    BY <2>2, <2>4, <2>6
<1>4. ASSUME ~(n <= mine[w].seen)
      PROVE  n > mine[w].seen /\ scripts' = scripts /\ Moves(w, "requirements", i, r.shots, 1)
  <2>1. n > mine[w].seen
    BY <1>1, <1>4 DEF Hand
  <2>2. /\ mine' = [mine EXCEPT ![w].next = 1, ![w].seen = r.shots]
        /\ at' = [at EXCEPT ![w] = "requirements"]
        /\ scripts' = scripts
    BY <1>4 DEF F!CreateShot, F!Goto
  <2>3. r.shots \in 0 .. Scenes /\ 1 \in 0 .. Scenes + 1
    BY <1>2 DEF Script
  <2>4. Moves(w, "requirements", i, r.shots, 1)
    <3> HIDE DEF r
    <3> QED BY <2>2, <2>3, Hands DEF FactoryTypes, Moves, Hand, F!Location
  <2> QED
    BY <2>1, <2>2, <2>4
<1> QED
  BY <1>1, <1>3, <1>4 DEF F!CreateShot, F!rows, F!recovery

LEMMA CreateRequirementEffect ==
  ASSUME FactoryConstants,
         FactoryTypes, NEW w \in Worker, F!CreateRequirement(w)
  PROVE  LET i == mine[w].script
             r == scripts[i]
             n == mine[w].next
         IN /\ at[w] = "requirements"
            /\ \/ /\ Moves(w, "failing", 0, 0, 0) /\ scripts' = scripts
               \/ /\ n > mine[w].seen /\ r.scenes # 0
                  /\ Walks(w, "packaging") /\ scripts' = scripts
               \/ /\ n <= mine[w].seen /\ n > r.required
                  /\ Rewrites(i, r.scenes, r.shots, n, r.packages)
                  /\ Moves(w, "requirements", i, mine[w].seen, n + 1)
            /\ UNCHANGED <<status, attempts, input, stage, recoveries, disowned>>
<1> DEFINE i == mine[w].script
           r == scripts[i]
           n == mine[w].next
           t == [r EXCEPT !.required = n]
<1>1. at[w] = "requirements" /\ mine[w] \in Hand
  BY Hands DEF F!CreateRequirement, FactoryTypes
<1>2. i \in 1 .. Len(scripts) /\ r \in Script
  BY <1>1, TextInHand DEF AtPlan
<1>3. ASSUME n <= mine[w].seen, n > r.required
      PROVE  Rewrites(i, r.scenes, r.shots, n, r.packages) /\ Moves(w, "requirements", i, mine[w].seen, n + 1)
  <2>1. n \in 0 .. Scenes /\ n + 1 \in 0 .. Scenes + 1
    BY <1>1, <1>2, <1>3 DEF Script, Hand
  <2>2. t \in Script /\ t.scenes = r.scenes /\ t.shots = r.shots /\ t.required = n
        /\ t.packages = r.packages
    <3> HIDE DEF n, r
    <3> QED BY <1>2, <2>1 DEF Script
  <2>3. ~(n > mine[w].seen) /\ ~(n <= r.required)
    BY <1>1, <1>2, <1>3 DEF Hand, Script
  <2>4. scripts' = [scripts EXCEPT ![i] = t]
    BY <2>3 DEF F!CreateRequirement
  <2>5. Rewrites(i, t.scenes, t.shots, t.required, t.packages)
    <3> HIDE DEF i, t
    <3> QED BY <1>2, <2>2, <2>4, RewriteEffect, Hands DEF FactoryTypes
  <2>6. mine' = [mine EXCEPT ![w].next = n + 1] /\ at' = at
    BY <2>3 DEF F!CreateRequirement
  <2>7. Moves(w, "requirements", i, mine[w].seen, n + 1)
    BY <1>1, <2>1, <2>6, Hands DEF FactoryTypes, Moves, Hand
  <2> QED
    BY <2>2, <2>5, <2>7
<1>4. ASSUME n > mine[w].seen
      PROVE  /\ scripts' = scripts
             /\ \/ Moves(w, "failing", 0, 0, 0)
                \/ r.scenes # 0 /\ Walks(w, "packaging")
  <2>1. F!ValidateContinuity(w, i)
    BY <1>4 DEF F!CreateRequirement
  <2>2. "failing" \in F!Location /\ "packaging" \in F!Location
    BY DEF F!Location
  <2> QED
    BY <2>1, <2>2, FallEffect, WalkEffect DEF F!ValidateContinuity, FactoryTypes
<1>5. ASSUME ~(n > mine[w].seen), n <= r.required
      PROVE  scripts' = scripts /\ Moves(w, "failing", 0, 0, 0)
  <2>1. F!Fall(w, "failing") /\ scripts' = scripts
    BY <1>5 DEF F!CreateRequirement
  <2> QED
    BY <2>1, FallEffect DEF F!Location, FactoryTypes
<1>6. \/ n <= mine[w].seen /\ n > r.required
      \/ n > mine[w].seen
      \/ ~(n > mine[w].seen) /\ n <= r.required
  BY <1>1, <1>2 DEF Hand, Script
<1> QED
  BY <1>1, <1>3, <1>4, <1>5, <1>6 DEF F!CreateRequirement, F!rows, F!recovery

LEMMA CreatePackageEffect ==
  ASSUME FactoryConstants,
         FactoryTypes, NEW w \in Worker, F!CreatePackage(w)
  PROVE  LET i == mine[w].script
             r == scripts[i]
         IN /\ at[w] = "packaging" /\ Walks(w, "closing")
            /\ Rewrites(i, r.scenes, r.shots, r.required, r.packages + 1)
            /\ UNCHANGED <<status, attempts, input, stage, recoveries, disowned>>
<1> DEFINE i == mine[w].script
           r == scripts[i]
           t == [r EXCEPT !.packages = @ + 1]
<1>1. at[w] = "packaging" /\ Walks(w, "closing")
  BY WalkEffect DEF F!CreatePackage, FactoryTypes, F!Location
<1>2. i \in 1 .. Len(scripts) /\ r \in Script
  BY <1>1, TextInHand DEF AtPlan
<1>3. t \in Script /\ t.scenes = r.scenes /\ t.shots = r.shots /\ t.required = r.required
      /\ t.packages = r.packages + 1
  <2> HIDE DEF r
  <2> QED BY <1>2 DEF Script
<1>4. scripts' = [scripts EXCEPT ![i] = t]
  BY DEF F!CreatePackage
<1>5. Rewrites(i, t.scenes, t.shots, t.required, t.packages)
  <2> HIDE DEF i, t
  <2> QED BY <1>2, <1>3, <1>4, RewriteEffect, Hands DEF FactoryTypes
<1> QED
  BY <1>1, <1>3, <1>5 DEF F!CreatePackage, F!rows, F!recovery

LEMMA CompleteStageEffect ==
  ASSUME FactoryConstants,
         FactoryTypes, NEW w \in Worker, F!CompleteStage(w)
  PROVE  /\ at[w] = "closing" /\ Walks(w, "finishing")
         /\ stage' = [stage EXCEPT ![F!J(w)] = "completed"]
         /\ UNCHANGED <<status, attempts, input, scripts, recoveries, disowned>>
  BY WalkEffect DEF FactoryTypes, F!CompleteStage, F!Set, F!Location, F!rows, F!recovery

LEMMA CompleteJobEffect ==
  ASSUME FactoryConstants,
         FactoryTypes, NEW w \in Worker, F!CompleteJob(w)
  PROVE  /\ at[w] = "finishing" /\ (Leaves(w) \/ Moves(w, "failing", 0, 0, 0))
         /\ status' = [status EXCEPT ![F!J(w)] = "completed"]
         /\ UNCHANGED <<attempts, input, stage, scripts, recoveries, disowned>>
  BY LeaveEffect, FallEffect DEF FactoryTypes, F!CompleteJob, F!Set, F!Location, F!recovery

LEMMA FailRowEffect ==
  ASSUME FactoryConstants,
         NEW w \in Worker, F!FailRow(w)
  PROVE  /\ \E f \in {"retrying", "dead_letter"} : status' = [status EXCEPT ![F!J(w)] = f]
         /\ \/ disowned' = disowned /\ attempts[F!J(w)] = mine[w].attempts
            \/ disowned' = disowned \cup {F!J(w)}
  BY DEF F!FailRow, F!Set, F!Failed

LEMMA FailJobEffect ==
  ASSUME FactoryConstants,
         FactoryTypes, NEW w \in Worker, F!FailJob(w)
  PROVE  /\ at[w] = "failing" /\ Walks(w, "rethrown")
         /\ \/ UNCHANGED <<status, disowned>>
            \/ F!FailRow(w)
         /\ \/ UNCHANGED stage
            \/ \E f \in {"retrying", "dead_letter"} : stage' = [stage EXCEPT ![F!J(w)] = f]
         /\ UNCHANGED <<attempts, input, scripts, recoveries>>
  BY WalkEffect DEF FactoryTypes, F!FailJob, F!Set, F!Failed, F!Location

LEMMA FailAgainEffect ==
  ASSUME FactoryConstants,
         FactoryTypes, NEW w \in Worker, F!FailAgain(w)
  PROVE  /\ at[w] = "rethrown" /\ Leaves(w) /\ F!FailRow(w)
         /\ UNCHANGED <<attempts, input, stage, scripts, recoveries>>
  BY LeaveEffect DEF FactoryTypes, F!FailAgain

LEMMA ThrowEffect ==
  ASSUME FactoryConstants,
         FactoryTypes, NEW w \in Worker, F!Throw(w)
  PROVE  /\ at[w] \notin {"idle", "generating", "failing", "rethrown"}
         /\ \/ at[w] = "opening" /\ Moves(w, "rethrown", 0, 0, 0)
            \/ Moves(w, "failing", 0, 0, 0)
         /\ UNCHANGED <<status, attempts, input, stage, scripts, recoveries, disowned>>
<1>1. "rethrown" \in F!Location /\ "failing" \in F!Location
  BY DEF F!Location
<1> QED
  BY <1>1, FallEffect DEF FactoryTypes, F!Throw, F!rows, F!recovery

LEMMA CrashEffect ==
  ASSUME FactoryConstants,
         FactoryTypes, NEW w \in Worker, F!Crash(w)
  PROVE  /\ at[w] # "idle" /\ Leaves(w)
         /\ UNCHANGED <<status, attempts, input, stage, scripts, recoveries, disowned>>
  BY LeaveEffect DEF FactoryTypes, F!Crash, F!rows, F!recovery
-----------------------------------------------------------------------------
(***************************************************************************)
(* Type correctness.                                                       *)
(***************************************************************************)
RowsOK ==
  /\ status \in [F!Job -> Statuses]
  /\ attempts \in [F!Job -> 0 .. MaxAttempts]
  /\ stage \in [F!Job -> StageStatuses]
  /\ recoveries \in 0 .. MaxRecoveries
  /\ disowned \subseteq F!Job

HandsOK ==
  /\ at \in [Worker -> F!Location]
  /\ mine \in [Worker -> Hand]
  /\ scripts \in Seq(Script)
  /\ \A w \in Worker : mine[w].script <= Len(scripts)

LEMMA OwnJob ==
  ASSUME FactoryConstants,
         F!TypeOK, NEW w \in Worker
  PROVE  F!J(w) \in F!Job /\ mine[w].attempts \in Nat /\ mine[w].script \in Nat /\ mine[w].next \in Nat
<1>1. mine[w] \in Hand
  BY Hands
<1> QED
  BY <1>1 DEF F!J, Hand

LEMMA NextRowsOK ==
  ASSUME FactoryConstants, FactoryTypes, [F!Next]_(F!vars)
  PROVE  RowsOK'
<1>a. F!TypeOK /\ RowsOK /\ \A w \in Worker : F!J(w) \in F!Job
  BY OwnJob DEF FactoryTypes, F!TypeOK, RowsOK
<1> USE <1>a DEF RowsOK
<1>1. CASE UNCHANGED F!vars
  BY <1>1 DEF F!vars, F!rows, F!recovery
<1>2. ASSUME NEW w \in Worker, NEW j \in F!Job, F!ClaimJob(w, j) PROVE RowsOK'
  BY <1>2, ClaimEffect
<1>3. ASSUME NEW w \in Worker, F!Work(w) PROVE RowsOK'
  <2>1. CASE F!EnsureStage(w) BY <2>1, EnsureStageEffect
  <2>2. CASE F!GenerateScript(w) BY <2>2, GenerateScriptEffect
  <2>3. CASE F!GeneratePlan(w) BY <2>3, GeneratePlanEffect
  <2>4. CASE F!Refuse(w) BY <2>4, RefuseEffect
  <2>5. CASE F!SaveScript(w) BY <2>5, SaveScriptEffect
  <2>6. CASE F!InsertScript(w) BY <2>6, InsertScriptEffect
  <2>7. CASE F!InsertScene(w) BY <2>7, InsertSceneEffect
  <2>8. CASE F!QueuePlanning(w)
    BY <2>8, QueuePlanningEffect DEF F!Job, F!Planning
  <2>9. CASE F!PersistPlan(w) BY <2>9, PersistPlanEffect
  <2>10. CASE F!PersistScenes(w) BY <2>10, PersistScenesEffect
  <2>11. CASE F!CreateShot(w) BY <2>11, CreateShotEffect
  <2>12. CASE F!CreateRequirement(w) BY <2>12, CreateRequirementEffect
  <2>13. CASE F!CreatePackage(w) BY <2>13, CreatePackageEffect
  <2>14. CASE F!CompleteStage(w) BY <2>14, CompleteStageEffect
  <2>15. CASE F!CompleteJob(w) BY <2>15, CompleteJobEffect
  <2>16. CASE F!FailJob(w)
    <3>1. ASSUME F!FailRow(w) PROVE /\ status' \in [F!Job -> Statuses]
                                  /\ disowned' \subseteq F!Job
      BY <3>1, FailRowEffect
    <3>2. stage' \in [F!Job -> StageStatuses]
      BY <2>16, FailJobEffect
    <3> QED
      BY <2>16, <3>1, <3>2, FailJobEffect
  <2>17. CASE F!FailAgain(w)
    <3>1. ASSUME F!FailRow(w) PROVE /\ status' \in [F!Job -> Statuses]
                                  /\ disowned' \subseteq F!Job
      BY <3>1, FailRowEffect
    <3> QED
      BY <2>17, <3>1, FailAgainEffect
  <2> QED
    BY <1>3, <2>1, <2>2, <2>3, <2>4, <2>5, <2>6, <2>7, <2>8, <2>9,
       <2>10, <2>11, <2>12, <2>13, <2>14, <2>15, <2>16, <2>17 DEF F!Work
<1>4. ASSUME NEW w \in Worker, F!Throw(w) PROVE RowsOK'
  BY <1>4, ThrowEffect
<1>5. ASSUME NEW w \in Worker, F!Crash(w) PROVE RowsOK'
  BY <1>5, CrashEffect
<1>6. ASSUME NEW j \in F!Job, F!RecoverStale(j) PROVE RowsOK'
  BY <1>6 DEF F!RecoverStale
<1> QED
  BY <1>1, <1>2, <1>3, <1>4, <1>5, <1>6 DEF F!Next

LEMMA NextHandsOK ==
  ASSUME FactoryConstants, FactoryTypes, [F!Next]_(F!vars)
  PROVE  HandsOK'
<1>a. HandsOK /\ Len(scripts) \in Nat
  BY Hands DEF FactoryTypes, HandsOK
<1> USE <1>a DEF HandsOK, Moves, Walks, Leaves, Rewrites
<1>1. CASE UNCHANGED F!vars
  BY <1>1 DEF F!vars, F!rows, F!recovery
<1>2. ASSUME NEW w \in Worker, NEW j \in F!Job, F!ClaimJob(w, j) PROVE HandsOK'
  BY <1>2, ClaimEffect DEF FactoryTypes
<1>3. ASSUME NEW w \in Worker, F!Work(w) PROVE HandsOK'
  <2>1. CASE F!EnsureStage(w) BY <2>1, EnsureStageEffect
  <2>2. CASE F!GenerateScript(w) BY <2>2, GenerateScriptEffect
  <2>3. CASE F!GeneratePlan(w) BY <2>3, GeneratePlanEffect
  <2>4. CASE F!Refuse(w) BY <2>4, RefuseEffect
  <2>5. CASE F!SaveScript(w) BY <2>5, SaveScriptEffect
  <2>6. CASE F!InsertScript(w)
    <3>1. \A v \in Worker : mine'[v].script <= Len(scripts')
      <4>1. \A v \in Worker : mine[v].script \in Nat
        BY OwnJob DEF FactoryTypes
      <4> QED BY <2>6, <4>1, InsertScriptEffect
    <3> QED BY <2>6, <3>1, InsertScriptEffect
  <2>7. CASE F!InsertScene(w) BY <2>7, InsertSceneEffect
  <2>8. CASE F!QueuePlanning(w) BY <2>8, QueuePlanningEffect
  <2>9. CASE F!PersistPlan(w) BY <2>9, PersistPlanEffect
  <2>10. CASE F!PersistScenes(w) BY <2>10, PersistScenesEffect
  <2>11. CASE F!CreateShot(w)
    BY <2>11, CreateShotEffect, TextInHand DEF AtPlan
  <2>12. CASE F!CreateRequirement(w)
    BY <2>12, CreateRequirementEffect, TextInHand DEF AtPlan
  <2>13. CASE F!CreatePackage(w) BY <2>13, CreatePackageEffect
  <2>14. CASE F!CompleteStage(w) BY <2>14, CompleteStageEffect
  <2>15. CASE F!CompleteJob(w) BY <2>15, CompleteJobEffect
  <2>16. CASE F!FailJob(w) BY <2>16, FailJobEffect
  <2>17. CASE F!FailAgain(w) BY <2>17, FailAgainEffect
  <2> QED
    BY <1>3, <2>1, <2>2, <2>3, <2>4, <2>5, <2>6, <2>7, <2>8, <2>9,
       <2>10, <2>11, <2>12, <2>13, <2>14, <2>15, <2>16, <2>17 DEF F!Work
<1>4. ASSUME NEW w \in Worker, F!Throw(w) PROVE HandsOK'
  BY <1>4, ThrowEffect
<1>5. ASSUME NEW w \in Worker, F!Crash(w) PROVE HandsOK'
  BY <1>5, CrashEffect
<1>6. ASSUME NEW j \in F!Job, F!RecoverStale(j) PROVE HandsOK'
  BY <1>6 DEF F!RecoverStale
<1> QED
  BY <1>1, <1>2, <1>3, <1>4, <1>5, <1>6 DEF F!Next

LEMMA NextInputOK ==
  ASSUME FactoryConstants, FactoryTypes, [F!Next]_(F!vars)
  PROVE  (input \in [F!Planning -> 0 .. Len(scripts)])'
<1> SUFFICES ASSUME FactoryTypes, [F!Next]_(F!vars) PROVE input' \in [F!Planning -> 0 .. Len(scripts')]
  OBVIOUS
<1>a. input \in [F!Planning -> 0 .. Len(scripts)] /\ Len(scripts) \in Nat
  BY DEF FactoryTypes, F!TypeOK
<1> USE <1>a DEF Moves, Walks, Leaves, Rewrites
<1>1. CASE UNCHANGED F!vars
  BY <1>1 DEF F!vars, F!rows, F!recovery
<1>2. ASSUME NEW w \in Worker, NEW j \in F!Job, F!ClaimJob(w, j) PROVE input' \in [F!Planning -> 0 .. Len(scripts')]
  BY <1>2 DEF F!ClaimJob
<1>3. ASSUME NEW w \in Worker, F!Work(w) PROVE input' \in [F!Planning -> 0 .. Len(scripts')]
  <2>1. CASE F!EnsureStage(w) BY <2>1, EnsureStageEffect
  <2>2. CASE F!GenerateScript(w) BY <2>2, GenerateScriptEffect
  <2>3. CASE F!GeneratePlan(w) BY <2>3, GeneratePlanEffect
  <2>4. CASE F!Refuse(w) BY <2>4, RefuseEffect
  <2>5. CASE F!SaveScript(w) BY <2>5, SaveScriptEffect
  <2>6. CASE F!InsertScript(w) BY <2>6, InsertScriptEffect
  <2>7. CASE F!InsertScene(w) BY <2>7, InsertSceneEffect
  <2>8. CASE F!QueuePlanning(w)
    BY <2>8, QueuePlanningEffect, TextInHand
  <2>9. CASE F!PersistPlan(w) BY <2>9, PersistPlanEffect
  <2>10. CASE F!PersistScenes(w) BY <2>10, PersistScenesEffect
  <2>11. CASE F!CreateShot(w) BY <2>11, CreateShotEffect
  <2>12. CASE F!CreateRequirement(w) BY <2>12, CreateRequirementEffect
  <2>13. CASE F!CreatePackage(w) BY <2>13, CreatePackageEffect
  <2>14. CASE F!CompleteStage(w) BY <2>14, CompleteStageEffect
  <2>15. CASE F!CompleteJob(w) BY <2>15, CompleteJobEffect
  <2>16. CASE F!FailJob(w) BY <2>16, FailJobEffect
  <2>17. CASE F!FailAgain(w) BY <2>17, FailAgainEffect
  <2> QED
    BY <1>3, <2>1, <2>2, <2>3, <2>4, <2>5, <2>6, <2>7, <2>8, <2>9,
       <2>10, <2>11, <2>12, <2>13, <2>14, <2>15, <2>16, <2>17 DEF F!Work
<1>4. ASSUME NEW w \in Worker, F!Throw(w) PROVE input' \in [F!Planning -> 0 .. Len(scripts')]
  BY <1>4, ThrowEffect
<1>5. ASSUME NEW w \in Worker, F!Crash(w) PROVE input' \in [F!Planning -> 0 .. Len(scripts')]
  BY <1>5, CrashEffect
<1>6. ASSUME NEW j \in F!Job, F!RecoverStale(j) PROVE input' \in [F!Planning -> 0 .. Len(scripts')]
  BY <1>6 DEF F!RecoverStale
<1> QED
  BY <1>1, <1>2, <1>3, <1>4, <1>5, <1>6 DEF F!Next

LEMMA NextFactoryTypeOK ==
  ASSUME FactoryConstants, FactoryTypes, [F!Next]_(F!vars)
  PROVE  F!TypeOK'
<1>1. RowsOK' /\ HandsOK' /\ (input \in [F!Planning -> 0 .. Len(scripts)])'
  BY NextRowsOK, NextHandsOK, NextInputOK
<1>2. mine' \in [Worker -> [job : F!Job, attempts : 0 .. MaxAttempts, script : 0 .. Len(scripts'),
                            seen : 0 .. Scenes, next : 0 .. Scenes + 1]]
  BY <1>1, HandsOf DEF HandsOK
<1> QED
  BY <1>1, <1>2 DEF F!TypeOK, RowsOK, HandsOK, Script

LEMMA NextQueuedHasScript ==
  ASSUME FactoryConstants, FactoryTypes, [F!Next]_(F!vars)
  PROVE  QueuedHasScript'
<1>a. /\ QueuedHasScript /\ F!TypeOK /\ F!Planning \subseteq F!Job
      /\ \A w \in Worker : at[w] # "idle" => status[F!J(w)] # "absent"
  BY DEF FactoryTypes, HandsInv, QueuedHasScript, OwnInv, F!Job
<1>b. /\ status \in [F!Job -> Statuses]
      /\ input \in [F!Planning -> 0 .. Len(scripts)]
  BY <1>a DEF F!TypeOK
<1> USE <1>a, <1>b, OwnJob DEF QueuedHasScript
<1>1. CASE UNCHANGED F!vars
  BY <1>1 DEF F!vars, F!rows, F!recovery
<1>2. ASSUME NEW w \in Worker, NEW j \in F!Job, F!ClaimJob(w, j) PROVE QueuedHasScript'
  BY <1>2, ClaimEffect
<1>3. ASSUME NEW w \in Worker, F!Work(w) PROVE QueuedHasScript'
  <2>1. CASE F!EnsureStage(w) BY <2>1, EnsureStageEffect
  <2>2. CASE F!GenerateScript(w) BY <2>2, GenerateScriptEffect
  <2>3. CASE F!GeneratePlan(w) BY <2>3, GeneratePlanEffect
  <2>4. CASE F!Refuse(w) BY <2>4, RefuseEffect
  <2>5. CASE F!SaveScript(w) BY <2>5, SaveScriptEffect
  <2>6. CASE F!InsertScript(w) BY <2>6, InsertScriptEffect
  <2>7. CASE F!InsertScene(w) BY <2>7, InsertSceneEffect
  <2>8. CASE F!QueuePlanning(w)
    BY <2>8, QueuePlanningEffect, TextInHand
  <2>9. CASE F!PersistPlan(w) BY <2>9, PersistPlanEffect
  <2>10. CASE F!PersistScenes(w) BY <2>10, PersistScenesEffect
  <2>11. CASE F!CreateShot(w) BY <2>11, CreateShotEffect
  <2>12. CASE F!CreateRequirement(w) BY <2>12, CreateRequirementEffect
  <2>13. CASE F!CreatePackage(w) BY <2>13, CreatePackageEffect
  <2>14. CASE F!CompleteStage(w) BY <2>14, CompleteStageEffect
  <2>15. CASE F!CompleteJob(w) BY <2>15, CompleteJobEffect
  <2>16. CASE F!FailJob(w)
    BY <2>16, FailJobEffect, FailRowEffect
  <2>17. CASE F!FailAgain(w)
    BY <2>17, FailAgainEffect, FailRowEffect
  <2> QED
    BY <1>3, <2>1, <2>2, <2>3, <2>4, <2>5, <2>6, <2>7, <2>8, <2>9,
       <2>10, <2>11, <2>12, <2>13, <2>14, <2>15, <2>16, <2>17 DEF F!Work
<1>4. ASSUME NEW w \in Worker, F!Throw(w) PROVE QueuedHasScript'
  BY <1>4, ThrowEffect
<1>5. ASSUME NEW w \in Worker, F!Crash(w) PROVE QueuedHasScript'
  BY <1>5, CrashEffect
<1>6. ASSUME NEW j \in F!Job, F!RecoverStale(j) PROVE QueuedHasScript'
  BY <1>6 DEF F!RecoverStale
<1> QED
  BY <1>1, <1>2, <1>3, <1>4, <1>5, <1>6 DEF F!Next

LEMMA NextOwnInv ==
  ASSUME FactoryConstants, FactoryTypes, [F!Next]_(F!vars)
  PROVE  \A v \in Worker : OwnInv(v)'
<1> SUFFICES ASSUME NEW v \in Worker PROVE OwnInv(v)'
  OBVIOUS
<1>o. \A u \in Worker : OwnInv(u)
  BY DEF FactoryTypes, HandsInv
<1>a. /\ OwnInv(v)
      /\ F!TypeOK /\ F!Planning \subseteq F!Job /\ F!ScriptJob \notin F!Planning
      /\ \A u \in Worker : at[u] \in AtPlan \cup {"scenes", "queueing"}
                             => mine[u].script \in 1 .. Len(scripts)
  BY <1>o, TextInHand DEF FactoryTypes, F!Job, F!ScriptJob, F!Planning
<1>b. /\ status \in [F!Job -> Statuses]
      /\ mine \in [Worker -> Hand] /\ scripts \in Seq(Script) /\ Len(scripts) \in Nat
  <2>1. status \in [F!Job -> Statuses]
    BY <1>a DEF F!TypeOK
  <2>2. mine \in [Worker -> Hand] /\ scripts \in Seq(Script)
    BY <1>a, Hands
  <2> QED
    BY <2>1, <2>2
<1> USE <1>a, <1>b, OwnJob DEF OwnInv, F!J, AtScript, AtPlan, Moves, Walks, Leaves
<1>1. CASE UNCHANGED F!vars
  BY <1>1 DEF F!vars, F!rows, F!recovery
<1>2. ASSUME NEW w \in Worker, NEW j \in F!Job, F!ClaimJob(w, j) PROVE OwnInv(v)'
  BY <1>2, ClaimEffect
<1>3. ASSUME NEW w \in Worker, F!Work(w) PROVE OwnInv(v)'
  <2>1. CASE F!EnsureStage(w) BY <2>1, EnsureStageEffect
  <2>2. CASE F!GenerateScript(w) BY <2>2, GenerateScriptEffect
  <2>3. CASE F!GeneratePlan(w) BY <2>3, GeneratePlanEffect
  <2>4. CASE F!Refuse(w) BY <2>4, RefuseEffect
  <2>5. CASE F!SaveScript(w)
    <3>1. /\ at[w] = "saving" /\ at'[w] \in {"queueing", "inserting"}
          /\ mine'[w].job = mine[w].job
          /\ v # w => at'[v] = at[v] /\ mine'[v] = mine[v]
          /\ status' = status /\ scripts' = scripts
      BY <2>5, SaveScriptEffect
    <3>2. at'[w] = "queueing" => mine'[w].script # 0
      <4>1. scripts # <<>> => Len(scripts) # 0
        BY <1>b
      <4> QED
        BY <2>5, <4>1, SaveScriptEffect
    <3> QED
      BY <3>1, <3>2
  <2>6. CASE F!InsertScript(w)
    BY <2>6, InsertScriptEffect DEF F!NewScript
  <2>7. CASE F!InsertScene(w)
    BY <1>o, <2>7, InsertSceneEffect DEF Rewrites, FactoryTypes, HandsInv, OwnScript
  <2>8. CASE F!QueuePlanning(w)
    BY <2>8, QueuePlanningEffect
  <2>9. CASE F!PersistPlan(w) BY <2>9, PersistPlanEffect
  <2>10. CASE F!PersistScenes(w)
    <3>1. at[w] = "binding" /\ Walks(w, "shots") /\ status' = status /\ scripts' = scripts
      BY <2>10, PersistScenesEffect
    <3>2. mine[w].next = 1 /\ mine[w].seen \in Nat
      BY <1>o, <3>1 DEF Hand
    <3>3. mine[w].next \in 1 .. mine[w].seen + 1
      BY <3>2
    <3> QED
      BY <3>1, <3>3
  <2>11. CASE F!CreateShot(w)
    <3>1. mine[w] \in Hand /\ mine[w].script \in 1 .. Len(scripts) /\ scripts[mine[w].script] \in Script
      BY <2>11, CreateShotEffect, TextInHand
    <3>2. \A k \in 1 .. Len(scripts) : scripts'[k].scenes = scripts[k].scenes
      BY <2>11, <3>1, CreateShotEffect DEF Rewrites
    <3>3. /\ mine[w].next \in 1 .. Scenes + 1 /\ mine[w].seen \in 0 .. Scenes
          /\ scripts[mine[w].script].shots \in 0 .. Scenes
      <4>1. at[w] = "shots"
        BY <2>11, CreateShotEffect
      <4>2. mine[w].next \in 1 .. mine[w].seen + 1 /\ mine[w].seen \in 0 .. Scenes
        BY <1>o, <3>1, <4>1 DEF Hand
      <4>3. scripts[mine[w].script].shots \in 0 .. Scenes
        BY <3>1 DEF Script
      <4>4. mine[w].next \in 1 .. Scenes + 1
        BY <4>2
      <4> QED
        BY <4>2, <4>3, <4>4
    <3>4. status' = status /\ at[w] = "shots"
      BY <2>11, CreateShotEffect
    <3>5. CASE v = w
      BY <3>3, <3>4, <3>5, <2>11, CreateShotEffect
    <3>6. CASE v # w
      <4>1. at'[v] = at[v] /\ mine'[v] = mine[v]
        BY <2>11, <3>6, CreateShotEffect
      <4> QED
        BY <3>2, <3>4, <4>1
    <3> QED
      BY <3>5, <3>6
  <2>12. CASE F!CreateRequirement(w)
    <3>1. mine[w] \in Hand /\ mine[w].script \in 1 .. Len(scripts) /\ scripts[mine[w].script] \in Script
      BY <2>12, CreateRequirementEffect, TextInHand
    <3>2. \A k \in 1 .. Len(scripts) : scripts'[k].scenes = scripts[k].scenes
      BY <2>12, <3>1, CreateRequirementEffect DEF Rewrites
    <3>3. mine[w].next \in 1 .. Scenes + 1 /\ mine[w].seen \in 0 .. Scenes
      <4>1. at[w] = "requirements"
        BY <2>12, CreateRequirementEffect
      <4>2. mine[w].next \in 1 .. mine[w].seen + 1 /\ mine[w].seen \in 0 .. Scenes
        BY <1>o, <3>1, <4>1 DEF Hand
      <4> QED
        BY <4>2
    <3>4. status' = status /\ at[w] = "requirements"
      BY <2>12, CreateRequirementEffect
    <3>5. CASE v = w
      BY <3>3, <3>4, <3>5, <2>12, CreateRequirementEffect
    <3>6. CASE v # w
      <4>1. at'[v] = at[v] /\ mine'[v] = mine[v]
        BY <2>12, <3>6, CreateRequirementEffect
      <4> QED
        BY <3>2, <3>4, <4>1
    <3> QED
      BY <3>5, <3>6
  <2>13. CASE F!CreatePackage(w)
    <3>1. mine[w].script \in 1 .. Len(scripts)
      BY <2>13, CreatePackageEffect, TextInHand
    <3>2. \A k \in 1 .. Len(scripts) : scripts'[k].scenes = scripts[k].scenes
      BY <2>13, <3>1, CreatePackageEffect DEF Rewrites
    <3>3. /\ at'[w] = "closing" /\ F!J(w)' = F!J(w) /\ at[w] = "packaging" /\ status' = status
          /\ v # w => at'[v] = at[v] /\ mine'[v] = mine[v]
      BY <2>13, CreatePackageEffect
    <3> QED
      BY <3>2, <3>3
  <2>14. CASE F!CompleteStage(w) BY <2>14, CompleteStageEffect
  <2>15. CASE F!CompleteJob(w)
    <3>1. /\ at'[w] \in {"idle", "failing"} /\ (at'[w] = "failing" => mine'[w].job = mine[w].job)
          /\ v # w => at'[v] = at[v] /\ mine'[v] = mine[v]
          /\ status' = [status EXCEPT ![F!J(w)] = "completed"] /\ scripts' = scripts
      BY <2>15, CompleteJobEffect
    <3> QED
      BY <3>1
  <2>16. CASE F!FailJob(w)
    BY <2>16, FailJobEffect, FailRowEffect
  <2>17. CASE F!FailAgain(w)
    BY <2>17, FailAgainEffect, FailRowEffect
  <2> QED
    BY <1>3, <2>1, <2>2, <2>3, <2>4, <2>5, <2>6, <2>7, <2>8, <2>9,
       <2>10, <2>11, <2>12, <2>13, <2>14, <2>15, <2>16, <2>17 DEF F!Work
<1>4. ASSUME NEW w \in Worker, F!Throw(w) PROVE OwnInv(v)'
  <2>1. CASE at[w] = "opening" /\ Moves(w, "rethrown", 0, 0, 0)
    BY <1>4, <2>1, ThrowEffect
  <2>2. CASE Moves(w, "failing", 0, 0, 0)
    BY <1>4, <2>2, ThrowEffect
  <2> QED
    BY <1>4, <2>1, <2>2, ThrowEffect
<1>5. ASSUME NEW w \in Worker, F!Crash(w) PROVE OwnInv(v)'
  BY <1>5, CrashEffect
<1>6. ASSUME NEW j \in F!Job, F!RecoverStale(j) PROVE OwnInv(v)'
  BY <1>6 DEF F!RecoverStale
<1> QED
  BY <1>1, <1>2, <1>3, <1>4, <1>5, <1>6 DEF F!Next

LEMMA NextOwnScript ==
  ASSUME FactoryConstants, FactoryTypes, [F!Next]_(F!vars)
  PROVE  OwnScript'
<1> SUFFICES ASSUME NEW a \in Worker, NEW b \in Worker,
                    at'[a] = "scenes", at'[b] = "scenes", mine'[a].script = mine'[b].script
             PROVE  a = b
  BY DEF OwnScript
<1>a. /\ at[a] = "scenes" /\ at[b] = "scenes" /\ mine[a].script = mine[b].script => a = b
      /\ F!TypeOK /\ Len(scripts) \in Nat
      /\ mine[a].script <= Len(scripts) /\ mine[a].script \in Nat
      /\ mine[b].script <= Len(scripts) /\ mine[b].script \in Nat
  BY OwnJob, Hands DEF FactoryTypes, HandsInv, QueuedHasScript, OwnInv, OwnScript
<1> USE <1>a DEF Moves, Walks, Leaves
<1>1. CASE UNCHANGED F!vars
  BY <1>1 DEF F!vars, F!rows, F!recovery
<1>2. ASSUME NEW w \in Worker, NEW j \in F!Job, F!ClaimJob(w, j) PROVE a = b
  BY <1>2, ClaimEffect
<1>3. ASSUME NEW w \in Worker, F!Work(w) PROVE a = b
  <2>1. CASE F!EnsureStage(w) BY <2>1, EnsureStageEffect
  <2>2. CASE F!GenerateScript(w) BY <2>2, GenerateScriptEffect
  <2>3. CASE F!GeneratePlan(w) BY <2>3, GeneratePlanEffect
  <2>4. CASE F!Refuse(w) BY <2>4, RefuseEffect
  <2>5. CASE F!SaveScript(w) BY <2>5, SaveScriptEffect
  <2>6. CASE F!InsertScript(w) BY <2>6, InsertScriptEffect
  <2>7. CASE F!InsertScene(w) BY <2>7, InsertSceneEffect
  <2>8. CASE F!QueuePlanning(w) BY <2>8, QueuePlanningEffect
  <2>9. CASE F!PersistPlan(w) BY <2>9, PersistPlanEffect
  <2>10. CASE F!PersistScenes(w) BY <2>10, PersistScenesEffect
  <2>11. CASE F!CreateShot(w) BY <2>11, CreateShotEffect
  <2>12. CASE F!CreateRequirement(w) BY <2>12, CreateRequirementEffect
  <2>13. CASE F!CreatePackage(w) BY <2>13, CreatePackageEffect
  <2>14. CASE F!CompleteStage(w) BY <2>14, CompleteStageEffect
  <2>15. CASE F!CompleteJob(w) BY <2>15, CompleteJobEffect
  <2>16. CASE F!FailJob(w) BY <2>16, FailJobEffect
  <2>17. CASE F!FailAgain(w) BY <2>17, FailAgainEffect
  <2> QED
    BY <1>3, <2>1, <2>2, <2>3, <2>4, <2>5, <2>6, <2>7, <2>8, <2>9,
       <2>10, <2>11, <2>12, <2>13, <2>14, <2>15, <2>16, <2>17 DEF F!Work
<1>4. ASSUME NEW w \in Worker, F!Throw(w) PROVE a = b
  BY <1>4, ThrowEffect
<1>5. ASSUME NEW w \in Worker, F!Crash(w) PROVE a = b
  BY <1>5, CrashEffect
<1>6. ASSUME NEW j \in F!Job, F!RecoverStale(j) PROVE a = b
  BY <1>6 DEF F!RecoverStale
<1> QED
  BY <1>1, <1>2, <1>3, <1>4, <1>5, <1>6 DEF F!Next

LEMMA NextFactoryTypes ==
  ASSUME FactoryConstants, FactoryTypes, [F!Next]_(F!vars)
  PROVE  FactoryTypes'
<1> SUFFICES ASSUME FactoryTypes, [F!Next]_(F!vars) PROVE F!TypeOK' /\ HandsInv'
  BY DEF FactoryTypes
<1>1. QueuedHasScript' /\ OwnScript' /\ \A v \in Worker : OwnInv(v)'
  BY NextQueuedHasScript, NextOwnInv, NextOwnScript
<1> QED
  BY <1>1, NextFactoryTypeOK DEF HandsInv, QueuedHasScript, OwnScript, OwnInv

LEMMA NextClaimInv ==
  ASSUME FactoryConstants, FactoryTypes, ClaimInv, [F!Next]_(F!vars)
  PROVE  ClaimInv'
<1>a. F!TypeOK /\ \A w \in Worker : F!J(w) \in F!Job /\ mine[w].attempts \in Nat
  BY OwnJob DEF FactoryTypes
<1>b. attempts \in [F!Job -> 0 .. MaxAttempts]
  BY <1>a DEF F!TypeOK
<1> USE <1>a, <1>b DEF ClaimInv, F!J, Moves, Walks, Leaves
<1>1. CASE UNCHANGED F!vars
  BY <1>1 DEF F!vars, F!rows, F!recovery
<1>2. ASSUME NEW w \in Worker, NEW j \in F!Job, F!ClaimJob(w, j) PROVE ClaimInv'
  BY <1>2, ClaimEffect
<1>3. ASSUME NEW w \in Worker, F!Work(w) PROVE ClaimInv'
  <2>1. CASE F!EnsureStage(w) BY <2>1, EnsureStageEffect
  <2>2. CASE F!GenerateScript(w) BY <2>2, GenerateScriptEffect
  <2>3. CASE F!GeneratePlan(w)
    <3>1. /\ at[w] # "idle" /\ mine'[w].job = mine[w].job /\ mine'[w].attempts = mine[w].attempts
          /\ \A v \in Worker : v # w => at'[v] = at[v] /\ mine'[v] = mine[v]
          /\ attempts' = attempts
      BY <2>3, GeneratePlanEffect
    <3> QED
      BY <3>1
  <2>4. CASE F!Refuse(w) BY <2>4, RefuseEffect
  <2>5. CASE F!SaveScript(w) BY <2>5, SaveScriptEffect
  <2>6. CASE F!InsertScript(w)
    <3>1. /\ at[w] # "idle" /\ mine'[w].job = mine[w].job /\ mine'[w].attempts = mine[w].attempts
          /\ \A v \in Worker : v # w => at'[v] = at[v] /\ mine'[v] = mine[v]
          /\ attempts' = attempts
      BY <2>6, InsertScriptEffect
    <3> QED
      BY <3>1
  <2>7. CASE F!InsertScene(w) BY <2>7, InsertSceneEffect
  <2>8. CASE F!QueuePlanning(w) BY <2>8, QueuePlanningEffect
  <2>9. CASE F!PersistPlan(w) BY <2>9, PersistPlanEffect
  <2>10. CASE F!PersistScenes(w) BY <2>10, PersistScenesEffect
  <2>11. CASE F!CreateShot(w) BY <2>11, CreateShotEffect
  <2>12. CASE F!CreateRequirement(w) BY <2>12, CreateRequirementEffect
  <2>13. CASE F!CreatePackage(w) BY <2>13, CreatePackageEffect
  <2>14. CASE F!CompleteStage(w) BY <2>14, CompleteStageEffect
  <2>15. CASE F!CompleteJob(w) BY <2>15, CompleteJobEffect
  <2>16. CASE F!FailJob(w) BY <2>16, FailJobEffect
  <2>17. CASE F!FailAgain(w) BY <2>17, FailAgainEffect
  <2> QED
    BY <1>3, <2>1, <2>2, <2>3, <2>4, <2>5, <2>6, <2>7, <2>8, <2>9,
       <2>10, <2>11, <2>12, <2>13, <2>14, <2>15, <2>16, <2>17 DEF F!Work
<1>4. ASSUME NEW w \in Worker, F!Throw(w) PROVE ClaimInv'
  BY <1>4, ThrowEffect
<1>5. ASSUME NEW w \in Worker, F!Crash(w) PROVE ClaimInv'
  BY <1>5, CrashEffect
<1>6. ASSUME NEW j \in F!Job, F!RecoverStale(j) PROVE ClaimInv'
  BY <1>6 DEF F!RecoverStale
<1> QED
  BY <1>1, <1>2, <1>3, <1>4, <1>5, <1>6 DEF F!Next

LEMMA NextSoleInv ==
  ASSUME FactoryConstants, FactoryTypes, ClaimInv, SoleInv, [F!Next]_(F!vars)
  PROVE  SoleInv'
<1>a. /\ F!TypeOK /\ F!ScriptJob \in F!Job /\ F!ScriptJob \notin F!Planning
      /\ \A w \in Worker : F!J(w) \in F!Job /\ mine[w].attempts \in Nat
  BY OwnJob DEF FactoryTypes, F!Job, F!Planning, F!ScriptJob
<1>b. /\ attempts \in [F!Job -> 0 .. MaxAttempts]
      /\ status \in [F!Job -> Statuses]
  BY <1>a DEF F!TypeOK
<1> USE <1>a, <1>b DEF ClaimInv, SoleInv, F!Holds, F!J, Moves, Walks, Leaves
<1>1. CASE UNCHANGED F!vars
  BY <1>1 DEF F!vars, F!rows, F!recovery
<1>2. ASSUME NEW w \in Worker, NEW j \in F!Job, F!ClaimJob(w, j) PROVE SoleInv'
  BY <1>2, ClaimEffect
<1>3. ASSUME NEW w \in Worker, F!Work(w) PROVE SoleInv'
  <2>1. CASE F!EnsureStage(w) BY <2>1, EnsureStageEffect
  <2>2. CASE F!GenerateScript(w) BY <2>2, GenerateScriptEffect
  <2>3. CASE F!GeneratePlan(w) BY <2>3, GeneratePlanEffect
  <2>4. CASE F!Refuse(w) BY <2>4, RefuseEffect
  <2>5. CASE F!SaveScript(w) BY <2>5, SaveScriptEffect
  <2>6. CASE F!InsertScript(w) BY <2>6, InsertScriptEffect
  <2>7. CASE F!InsertScene(w) BY <2>7, InsertSceneEffect
  <2>8. CASE F!QueuePlanning(w)
    BY <2>8, QueuePlanningEffect DEF F!Job
  <2>9. CASE F!PersistPlan(w) BY <2>9, PersistPlanEffect
  <2>10. CASE F!PersistScenes(w) BY <2>10, PersistScenesEffect
  <2>11. CASE F!CreateShot(w) BY <2>11, CreateShotEffect
  <2>12. CASE F!CreateRequirement(w) BY <2>12, CreateRequirementEffect
  <2>13. CASE F!CreatePackage(w) BY <2>13, CreatePackageEffect
  <2>14. CASE F!CompleteStage(w) BY <2>14, CompleteStageEffect
  <2>15. CASE F!CompleteJob(w) BY <2>15, CompleteJobEffect
  <2>16. CASE F!FailJob(w)
    BY <2>16, FailJobEffect, FailRowEffect
  <2>17. CASE F!FailAgain(w)
    BY <2>17, FailAgainEffect, FailRowEffect
  <2> QED
    BY <1>3, <2>1, <2>2, <2>3, <2>4, <2>5, <2>6, <2>7, <2>8, <2>9,
       <2>10, <2>11, <2>12, <2>13, <2>14, <2>15, <2>16, <2>17 DEF F!Work
<1>4. ASSUME NEW w \in Worker, F!Throw(w) PROVE SoleInv'
  BY <1>4, ThrowEffect
<1>5. ASSUME NEW w \in Worker, F!Crash(w) PROVE SoleInv'
  BY <1>5, CrashEffect
<1>6. ASSUME NEW j \in F!Job, F!RecoverStale(j) PROVE SoleInv'
  BY <1>6 DEF F!RecoverStale
<1> QED
  BY <1>1, <1>2, <1>3, <1>4, <1>5, <1>6 DEF F!Next

LEMMA SoleWriter ==
  ASSUME FactoryConstants,
         FactoryTypes, ClaimInv, SoleInv, F!ScriptJob \notin disowned,
         NEW w \in Worker, at[w] \in AtScript, NEW v \in Worker, at[v] \in AtScript
  PROVE  w = v
  BY DEF FactoryTypes, HandsInv, QueuedHasScript, OwnInv, OwnScript, SoleInv, ClaimInv, AtScript, F!Holds, F!J

LEMMA NextOneScript ==
  ASSUME FactoryConstants, FactoryTypes, FrozenInv, [F!Next]_(F!vars)
  PROVE  (F!ScriptJob \notin disowned => Len(scripts) <= 1)'
<1> SUFFICES ASSUME F!ScriptJob \notin disowned'
             PROVE  Len(scripts') <= 1
  OBVIOUS
<1>a. F!TypeOK /\ Len(scripts) \in Nat
  BY DEF FactoryTypes, F!TypeOK
<1> USE <1>a DEF FrozenInv, Rewrites
<1>1. CASE UNCHANGED F!vars
  BY <1>1 DEF F!vars, F!rows, F!recovery
<1>2. ASSUME NEW w \in Worker, NEW j \in F!Job, F!ClaimJob(w, j) PROVE Len(scripts') <= 1
  BY <1>2, ClaimEffect
<1>3. ASSUME NEW w \in Worker, F!Work(w) PROVE Len(scripts') <= 1
  <2>1. CASE F!EnsureStage(w) BY <2>1, EnsureStageEffect
  <2>2. CASE F!GenerateScript(w) BY <2>2, GenerateScriptEffect
  <2>3. CASE F!GeneratePlan(w) BY <2>3, GeneratePlanEffect
  <2>4. CASE F!Refuse(w) BY <2>4, RefuseEffect
  <2>5. CASE F!SaveScript(w) BY <2>5, SaveScriptEffect
  <2>6. CASE F!InsertScript(w) BY <2>6, InsertScriptEffect
  <2>7. CASE F!InsertScene(w) BY <2>7, InsertSceneEffect
  <2>8. CASE F!QueuePlanning(w) BY <2>8, QueuePlanningEffect
  <2>9. CASE F!PersistPlan(w) BY <2>9, PersistPlanEffect
  <2>10. CASE F!PersistScenes(w) BY <2>10, PersistScenesEffect
  <2>11. CASE F!CreateShot(w) BY <2>11, CreateShotEffect
  <2>12. CASE F!CreateRequirement(w) BY <2>12, CreateRequirementEffect
  <2>13. CASE F!CreatePackage(w) BY <2>13, CreatePackageEffect
  <2>14. CASE F!CompleteStage(w) BY <2>14, CompleteStageEffect
  <2>15. CASE F!CompleteJob(w) BY <2>15, CompleteJobEffect
  <2>16. CASE F!FailJob(w)
    BY <2>16, FailJobEffect, FailRowEffect
  <2>17. CASE F!FailAgain(w)
    BY <2>17, FailAgainEffect, FailRowEffect
  <2> QED
    BY <1>3, <2>1, <2>2, <2>3, <2>4, <2>5, <2>6, <2>7, <2>8, <2>9,
       <2>10, <2>11, <2>12, <2>13, <2>14, <2>15, <2>16, <2>17 DEF F!Work
<1>4. ASSUME NEW w \in Worker, F!Throw(w) PROVE Len(scripts') <= 1
  BY <1>4, ThrowEffect
<1>5. ASSUME NEW w \in Worker, F!Crash(w) PROVE Len(scripts') <= 1
  BY <1>5, CrashEffect
<1>6. ASSUME NEW j \in F!Job, F!RecoverStale(j) PROVE Len(scripts') <= 1
  BY <1>6 DEF F!RecoverStale
<1> QED
  BY <1>1, <1>2, <1>3, <1>4, <1>5, <1>6 DEF F!Next

LEMMA NextFrozenInv ==
  ASSUME FactoryConstants, FactoryTypes, ClaimInv, SoleInv, FrozenInv, [F!Next]_(F!vars)
  PROVE  FrozenInv'
<1>z. ASSUME F!ScriptJob \notin disowned' PROVE Len(scripts') <= 1
  BY <1>z, NextOneScript
<1> SUFFICES ASSUME F!ScriptJob \notin disowned',
                    NEW u \in Worker, at'[u] \in {"inserting", "scenes"}, NEW p \in F!Planning
             PROVE  (at'[u] = "inserting" => Len(scripts') = 0) /\ status'[p] = "absent"
  BY <1>z DEF FrozenInv, F!Planning
<1>a. /\ F!TypeOK /\ F!ScriptJob \in F!Job /\ F!Planning \subseteq F!Job /\ F!ScriptJob \notin F!Planning
      /\ Len(scripts) \in Nat
      /\ (scripts = <<>> <=> Len(scripts) = 0)
      /\ \A w \in Worker : F!J(w) \in F!Job
      /\ \A w \in Worker : at[w] # "idle" => status[F!J(w)] # "absent"
      /\ \A q \in F!Planning : status[q] # "absent" => input[q] # 0
  BY OwnJob, Hands DEF FactoryTypes, HandsInv, QueuedHasScript, OwnInv, OwnScript, F!Job, F!Planning, F!ScriptJob
<1>b. /\ status \in [F!Job -> Statuses]
      /\ input \in [F!Planning -> 0 .. Len(scripts)]
  BY <1>a DEF F!TypeOK
<1>c. F!ScriptJob \notin disowned =>
        /\ (at[u] = "inserting" => Len(scripts) = 0)
        /\ (at[u] \in {"inserting", "scenes"} => status[p] = "absent")
  BY DEF FrozenInv
<1>d. F!ScriptJob \notin disowned => \A w \in Worker :
        at[w] \in AtScript /\ at[u] \in AtScript => w = u
  BY SoleWriter
<1> DEFINE Unplanned == (at'[u] = "inserting" => Len(scripts') = 0) /\ status'[p] = "absent"
<1> USE <1>a, <1>b, <1>c, <1>d DEF AtScript, Moves, Walks, Leaves
<1>1. CASE UNCHANGED F!vars
  BY <1>1 DEF F!vars, F!rows, F!recovery
<1>2. ASSUME NEW w \in Worker, NEW j \in F!Job, F!ClaimJob(w, j) PROVE Unplanned
  BY <1>2, ClaimEffect
<1>3. ASSUME NEW w \in Worker, F!Work(w) PROVE Unplanned
  <2>1. CASE F!EnsureStage(w) BY <2>1, EnsureStageEffect
  <2>2. CASE F!GenerateScript(w) BY <2>2, GenerateScriptEffect
  <2>3. CASE F!GeneratePlan(w) BY <2>3, GeneratePlanEffect
  <2>4. CASE F!Refuse(w) BY <2>4, RefuseEffect
  <2>5. CASE F!SaveScript(w) BY <2>5, SaveScriptEffect
  <2>6. CASE F!InsertScript(w) BY <2>6, InsertScriptEffect
  <2>7. CASE F!InsertScene(w)
    BY <2>7, InsertSceneEffect DEF Rewrites
  <2>8. CASE F!QueuePlanning(w) BY <2>8, QueuePlanningEffect
  <2>9. CASE F!PersistPlan(w) BY <2>9, PersistPlanEffect
  <2>10. CASE F!PersistScenes(w) BY <2>10, PersistScenesEffect
  <2>11. CASE F!CreateShot(w)
    BY <2>11, CreateShotEffect DEF Rewrites
  <2>12. CASE F!CreateRequirement(w)
    BY <2>12, CreateRequirementEffect DEF Rewrites
  <2>13. CASE F!CreatePackage(w)
    BY <2>13, CreatePackageEffect DEF Rewrites
  <2>14. CASE F!CompleteStage(w) BY <2>14, CompleteStageEffect
  <2>15. CASE F!CompleteJob(w) BY <2>15, CompleteJobEffect
  <2>16. CASE F!FailJob(w)
    BY <2>16, FailJobEffect, FailRowEffect
  <2>17. CASE F!FailAgain(w)
    BY <2>17, FailAgainEffect, FailRowEffect
  <2> QED
    BY <1>3, <2>1, <2>2, <2>3, <2>4, <2>5, <2>6, <2>7, <2>8, <2>9,
       <2>10, <2>11, <2>12, <2>13, <2>14, <2>15, <2>16, <2>17 DEF F!Work
<1>4. ASSUME NEW w \in Worker, F!Throw(w) PROVE Unplanned
  BY <1>4, ThrowEffect
<1>5. ASSUME NEW w \in Worker, F!Crash(w) PROVE Unplanned
  BY <1>5, CrashEffect
<1>6. ASSUME NEW j \in F!Job, F!RecoverStale(j) PROVE Unplanned
  BY <1>6 DEF F!RecoverStale
<1> QED
  BY <1>1, <1>2, <1>3, <1>4, <1>5, <1>6 DEF F!Next

(***************************************************************************)
(* The plan of the one script, as long as the script job has one process.  *)
(***************************************************************************)
LEMMA Only ==
  ASSUME FactoryConstants,
         FactoryInv, F!ScriptJob \notin disowned, NEW w \in Worker, at[w] \in AtPlan \cup {"scenes", "queueing"}
  PROVE  /\ Len(scripts) = 1 /\ mine[w].script = 1 /\ scripts[1] \in Script
         /\ mine[w].seen \in Nat /\ mine[w].next \in Nat
<1>1. mine[w].script \in 1 .. Len(scripts) /\ scripts[mine[w].script] \in Script
  BY TextInHand DEF FactoryInv
<1>2. Len(scripts) \in Nat /\ Len(scripts) <= 1
  BY DEF FactoryInv, FrozenInv, FactoryTypes, F!TypeOK
<1>3. mine[w] \in Hand
  BY Hands DEF FactoryInv, FactoryTypes
<1>4. mine[w].seen \in Nat /\ mine[w].next \in Nat /\ mine[w].script \in Nat
  BY <1>3 DEF Hand
<1>5. \A n, m \in Nat : m \in 1 .. n /\ n <= 1 => n = 1 /\ m = 1
  OBVIOUS
<1>6. Len(scripts) = 1 /\ mine[w].script = 1
  BY <1>1, <1>2, <1>4, <1>5, Zenon
<1> QED
  BY <1>1, <1>4, <1>6

LEMMA ScenesAreThere ==
  ASSUME FactoryConstants,
         FactoryInv, F!ScriptJob \notin disowned,
         NEW w \in Worker, at[w] \in AtPlan, NEW v \in Worker, at[v] \in {"inserting", "scenes"}
  PROVE  FALSE
<1>1. F!J(w) \in F!Planning /\ status[F!J(w)] # "absent"
  BY DEF FactoryInv, FactoryTypes, HandsInv, QueuedHasScript, OwnInv, OwnScript, AtPlan
<1> QED
  BY <1>1 DEF FactoryInv, FrozenInv

\* Nothing takes a job from the disowned.
LEMMA StillOwned ==
  ASSUME FactoryConstants, FactoryInv, [F!Next]_(F!vars), F!ScriptJob \notin disowned'
  PROVE  F!ScriptJob \notin disowned
<1>a. FactoryTypes /\ F!TypeOK
  BY DEF FactoryInv, FactoryTypes
<1> USE <1>a
<1>1. CASE UNCHANGED F!vars
  BY <1>1 DEF F!vars, F!rows, F!recovery
<1>2. ASSUME NEW w \in Worker, NEW j \in F!Job, F!ClaimJob(w, j) PROVE F!ScriptJob \notin disowned
  BY <1>2, ClaimEffect
<1>3. ASSUME NEW w \in Worker, F!Work(w) PROVE F!ScriptJob \notin disowned
  <2>1. CASE F!EnsureStage(w) BY <2>1, EnsureStageEffect
  <2>2. CASE F!GenerateScript(w) BY <2>2, GenerateScriptEffect
  <2>3. CASE F!GeneratePlan(w) BY <2>3, GeneratePlanEffect
  <2>4. CASE F!Refuse(w) BY <2>4, RefuseEffect
  <2>5. CASE F!SaveScript(w) BY <2>5, SaveScriptEffect
  <2>6. CASE F!InsertScript(w) BY <2>6, InsertScriptEffect
  <2>7. CASE F!InsertScene(w) BY <2>7, InsertSceneEffect
  <2>8. CASE F!QueuePlanning(w) BY <2>8, QueuePlanningEffect
  <2>9. CASE F!PersistPlan(w) BY <2>9, PersistPlanEffect
  <2>10. CASE F!PersistScenes(w) BY <2>10, PersistScenesEffect
  <2>11. CASE F!CreateShot(w) BY <2>11, CreateShotEffect
  <2>12. CASE F!CreateRequirement(w) BY <2>12, CreateRequirementEffect
  <2>13. CASE F!CreatePackage(w) BY <2>13, CreatePackageEffect
  <2>14. CASE F!CompleteStage(w) BY <2>14, CompleteStageEffect
  <2>15. CASE F!CompleteJob(w) BY <2>15, CompleteJobEffect
  <2>16. CASE F!FailJob(w)
    BY <2>16, FailJobEffect, FailRowEffect
  <2>17. CASE F!FailAgain(w)
    BY <2>17, FailAgainEffect, FailRowEffect
  <2> QED
    BY <1>3, <2>1, <2>2, <2>3, <2>4, <2>5, <2>6, <2>7, <2>8, <2>9,
       <2>10, <2>11, <2>12, <2>13, <2>14, <2>15, <2>16, <2>17 DEF F!Work
<1>4. ASSUME NEW w \in Worker, F!Throw(w) PROVE F!ScriptJob \notin disowned
  BY <1>4, ThrowEffect
<1>5. ASSUME NEW w \in Worker, F!Crash(w) PROVE F!ScriptJob \notin disowned
  BY <1>5, CrashEffect
<1>6. ASSUME NEW j \in F!Job, F!RecoverStale(j) PROVE F!ScriptJob \notin disowned
  BY <1>6 DEF F!RecoverStale
<1> QED
  BY <1>1, <1>2, <1>3, <1>4, <1>5, <1>6 DEF F!Next

LEMMA NextFits ==
  ASSUME FactoryConstants, FactoryInv, [F!Next]_(F!vars)
  PROVE  (F!ScriptJob \notin disowned => Fits)'
<1> SUFFICES ASSUME F!ScriptJob \notin disowned', NEW i \in 1 .. Len(scripts')
             PROVE  scripts'[i].shots <= scripts'[i].scenes
  BY DEF Fits
<1>a. /\ FactoryTypes /\ F!TypeOK /\ F!ScriptJob \notin disowned
      /\ \A k \in 1 .. Len(scripts) : scripts[k].shots <= scripts[k].scenes /\ scripts[k] \in Script
      /\ scripts \in Seq(Script) /\ Len(scripts) \in Nat
  BY StillOwned, Hands DEF FactoryInv, FactoryTypes, PlanInv, Fits
<1> USE <1>a DEF Rewrites
<1>1. CASE UNCHANGED F!vars
  BY <1>1 DEF F!vars, F!rows, F!recovery
<1>2. ASSUME NEW w \in Worker, NEW j \in F!Job, F!ClaimJob(w, j) PROVE scripts'[i].shots <= scripts'[i].scenes
  BY <1>2, ClaimEffect
<1>3. ASSUME NEW w \in Worker, F!Work(w) PROVE scripts'[i].shots <= scripts'[i].scenes
  <2>1. CASE F!EnsureStage(w) BY <2>1, EnsureStageEffect
  <2>2. CASE F!GenerateScript(w) BY <2>2, GenerateScriptEffect
  <2>3. CASE F!GeneratePlan(w) BY <2>3, GeneratePlanEffect
  <2>4. CASE F!Refuse(w) BY <2>4, RefuseEffect
  <2>5. CASE F!SaveScript(w) BY <2>5, SaveScriptEffect
  <2>6. CASE F!InsertScript(w)
    BY <2>6, InsertScriptEffect DEF F!NewScript
  <2>7. CASE F!InsertScene(w)
    <3>1. mine[w].script \in 1 .. Len(scripts)
      BY <2>7, InsertSceneEffect, TextInHand
    <3>2. i \in 1 .. Len(scripts)
      BY <2>7, InsertSceneEffect
    <3>3. scripts[i] \in Script /\ scripts[i].shots <= scripts[i].scenes
      BY <3>2
    <3>4. scripts[i].shots \in Nat /\ scripts[i].scenes \in Nat
      BY <3>3 DEF Script
    <3>5. CASE i = mine[w].script
      BY <3>3, <3>4, <3>5, <2>7, InsertSceneEffect
    <3>6. CASE i # mine[w].script
      BY <3>2, <3>3, <3>6, <2>7, InsertSceneEffect
    <3> QED
      BY <3>5, <3>6
  <2>8. CASE F!QueuePlanning(w) BY <2>8, QueuePlanningEffect
  <2>9. CASE F!PersistPlan(w) BY <2>9, PersistPlanEffect
  <2>10. CASE F!PersistScenes(w) BY <2>10, PersistScenesEffect
  <2>11. CASE F!CreateShot(w)
    <3>1. mine[w].script = 1 /\ Len(scripts) = 1 /\ at[w] = "shots" /\ scripts[1] \in Script
          /\ mine[w].next \in Nat
      BY <2>11, CreateShotEffect, Only DEF AtPlan
    <3>2. mine[w].seen = scripts[1].scenes
      BY <3>1 DEF FactoryInv, PlanInv, PlanOf
    <3>3. scripts[1].shots \in Nat /\ scripts[1].scenes \in Nat
      BY <3>1 DEF Script
    <3> QED
      BY <2>11, <3>1, <3>2, <3>3, CreateShotEffect
  <2>12. CASE F!CreateRequirement(w)
    BY <2>12, CreateRequirementEffect, TextInHand DEF AtPlan
  <2>13. CASE F!CreatePackage(w)
    BY <2>13, CreatePackageEffect, TextInHand DEF AtPlan
  <2>14. CASE F!CompleteStage(w) BY <2>14, CompleteStageEffect
  <2>15. CASE F!CompleteJob(w) BY <2>15, CompleteJobEffect
  <2>16. CASE F!FailJob(w) BY <2>16, FailJobEffect
  <2>17. CASE F!FailAgain(w) BY <2>17, FailAgainEffect
  <2> QED
    BY <1>3, <2>1, <2>2, <2>3, <2>4, <2>5, <2>6, <2>7, <2>8, <2>9,
       <2>10, <2>11, <2>12, <2>13, <2>14, <2>15, <2>16, <2>17 DEF F!Work
<1>4. ASSUME NEW w \in Worker, F!Throw(w) PROVE scripts'[i].shots <= scripts'[i].scenes
  BY <1>4, ThrowEffect
<1>5. ASSUME NEW w \in Worker, F!Crash(w) PROVE scripts'[i].shots <= scripts'[i].scenes
  BY <1>5, CrashEffect
<1>6. ASSUME NEW j \in F!Job, F!RecoverStale(j) PROVE scripts'[i].shots <= scripts'[i].scenes
  BY <1>6 DEF F!RecoverStale
<1> QED
  BY <1>1, <1>2, <1>3, <1>4, <1>5, <1>6 DEF F!Next

\* The facts a step of the plan needs, once there is a process that plans.
LEMMA Facts ==
  ASSUME FactoryConstants,
         FactoryInv, [F!Next]_(F!vars), F!ScriptJob \notin disowned'
  PROVE  /\ FactoryTypes /\ F!TypeOK /\ F!ScriptJob \notin disowned
         /\ \A v \in Worker : PlanOf(v)
         /\ \A v, u \in Worker : Keeper(v) /\ Keeper(u) => u = v
         /\ scripts \in Seq(Script) /\ Len(scripts) \in Nat
         /\ \A k \in 1 .. Len(scripts) : /\ scripts[k].shots <= scripts[k].scenes
                                         /\ scripts[k].shots \in Nat /\ scripts[k].scenes \in Nat
                                         /\ scripts[k].required \in Nat /\ scripts[k].packages \in Nat
<1>1. FactoryTypes /\ F!TypeOK /\ F!ScriptJob \notin disowned
  BY StillOwned DEF FactoryInv, FactoryTypes
<1>2. scripts \in Seq(Script) /\ Len(scripts) \in Nat
  BY <1>1, Hands
<1>3. /\ Fits
      /\ \A v \in Worker : PlanOf(v)
      /\ \A v, u \in Worker : Keeper(v) /\ Keeper(u) => u = v
  BY <1>1 DEF FactoryInv, PlanInv
<1>4. \A k \in 1 .. Len(scripts) : scripts[k] \in Script
  BY <1>2
<1> QED
  BY <1>1, <1>2, <1>3, <1>4 DEF Fits, Script

\* A key that is new: there is neither a package nor a process that got so far.
LEMMA NewKey ==
  ASSUME FactoryConstants,
         FactoryInv, [F!Next]_(F!vars), F!ScriptJob \notin disowned', NEW w \in Worker,
         at[w] = "requirements", mine[w].next <= mine[w].seen, mine[w].next > scripts[1].required
  PROVE  /\ scripts[1].packages = 0
         /\ \A v \in Worker : Keeper(v) => v = w
<1>1. /\ Len(scripts) = 1 /\ mine[w].script = 1
      /\ mine[w].seen \in Nat /\ mine[w].next \in Nat
  BY Facts, Only DEF AtPlan
<1>2. /\ scripts[1].required \in Nat /\ scripts[1].packages \in Nat
      /\ mine[w].seen = scripts[1].shots /\ scripts[1].shots = scripts[1].scenes
  BY <1>1, Facts DEF PlanOf
<1>3. ASSUME scripts[1].packages # 0 PROVE FALSE
  <2>1. scripts[1].required = scripts[1].scenes
    BY <1>1, <1>2, <1>3, Facts DEF FactoryInv, F!OneWholePackage
  <2> QED
    BY <1>1, <1>2, <2>1
<1>4. ASSUME NEW v \in Worker, Keeper(v), v # w PROVE FALSE
  <2>1. ~Keeper(w)
    BY <1>4, Facts
  <2>2. mine[w].next <= 1
    BY <1>1, <2>1 DEF Keeper
  <2>3. mine[v].script = 1
    BY <1>4, Facts, Only DEF Keeper, AtPlan
  <2>4. scripts[1].required > 0
    BY <1>4, <2>3, Facts DEF PlanOf
  <2> QED
    BY <1>1, <1>2, <2>2, <2>4
<1> QED
  BY <1>3, <1>4

LEMMA NextKeeper ==
  ASSUME FactoryConstants,
         FactoryInv, [F!Next]_(F!vars), F!ScriptJob \notin disowned'
  PROVE  \A u, v \in Worker : Keeper(u)' /\ Keeper(v)' => u = v
<1> SUFFICES ASSUME NEW u \in Worker, NEW v \in Worker, Keeper(u)', Keeper(v)' PROVE u = v
  OBVIOUS
<1>a. /\ FactoryTypes /\ F!TypeOK
      /\ Keeper(u) /\ Keeper(v) => u = v
  BY Facts
<1> USE <1>a DEF Keeper, Moves, Walks, Leaves
<1>1. CASE UNCHANGED F!vars
  BY <1>1 DEF F!vars, F!rows, F!recovery
<1>2. ASSUME NEW w \in Worker, NEW j \in F!Job, F!ClaimJob(w, j) PROVE u = v
  BY <1>2, ClaimEffect
<1>3. ASSUME NEW w \in Worker, F!Work(w) PROVE u = v
  <2>1. CASE F!EnsureStage(w) BY <2>1, EnsureStageEffect
  <2>2. CASE F!GenerateScript(w) BY <2>2, GenerateScriptEffect
  <2>3. CASE F!GeneratePlan(w) BY <2>3, GeneratePlanEffect
  <2>4. CASE F!Refuse(w) BY <2>4, RefuseEffect
  <2>5. CASE F!SaveScript(w) BY <2>5, SaveScriptEffect
  <2>6. CASE F!InsertScript(w) BY <2>6, InsertScriptEffect
  <2>7. CASE F!InsertScene(w) BY <2>7, InsertSceneEffect
  <2>8. CASE F!QueuePlanning(w) BY <2>8, QueuePlanningEffect
  <2>9. CASE F!PersistPlan(w) BY <2>9, PersistPlanEffect
  <2>10. CASE F!PersistScenes(w) BY <2>10, PersistScenesEffect
  <2>11. CASE F!CreateShot(w) BY <2>11, CreateShotEffect
  <2>12. CASE F!CreateRequirement(w)
    <3>1. mine[w].script = 1 /\ at[w] = "requirements" /\ mine[w].next \in Nat /\ mine[w].seen \in Nat
      BY <2>12, CreateRequirementEffect, Only, Facts DEF AtPlan
    <3>2. CASE Moves(w, "failing", 0, 0, 0)
      BY <3>2
    <3>3. CASE mine[w].next > mine[w].seen /\ scripts[1].scenes # 0 /\ Walks(w, "packaging")
      <4>1. mine[w].next > 1
        BY <3>1, <3>3, Facts, Only DEF PlanOf, AtPlan
      <4> QED
        BY <3>1, <3>3, <4>1
    <3>4. CASE /\ mine[w].next <= mine[w].seen /\ mine[w].next > scripts[1].required
               /\ Moves(w, "requirements", 1, mine[w].seen, mine[w].next + 1)
      <4>1. \A x \in Worker : Keeper(x) => x = w
        BY <3>1, <3>4, NewKey
      <4> QED
        BY <3>4, <4>1
    <3> QED
      BY <2>12, <3>1, <3>2, <3>3, <3>4, CreateRequirementEffect
  <2>13. CASE F!CreatePackage(w) BY <2>13, CreatePackageEffect
  <2>14. CASE F!CompleteStage(w) BY <2>14, CompleteStageEffect
  <2>15. CASE F!CompleteJob(w) BY <2>15, CompleteJobEffect
  <2>16. CASE F!FailJob(w) BY <2>16, FailJobEffect
  <2>17. CASE F!FailAgain(w) BY <2>17, FailAgainEffect
  <2> QED
    BY <1>3, <2>1, <2>2, <2>3, <2>4, <2>5, <2>6, <2>7, <2>8, <2>9,
       <2>10, <2>11, <2>12, <2>13, <2>14, <2>15, <2>16, <2>17 DEF F!Work
<1>4. ASSUME NEW w \in Worker, F!Throw(w) PROVE u = v
  BY <1>4, ThrowEffect
<1>5. ASSUME NEW w \in Worker, F!Crash(w) PROVE u = v
  BY <1>5, CrashEffect
<1>6. ASSUME NEW j \in F!Job, F!RecoverStale(j) PROVE u = v
  BY <1>6 DEF F!RecoverStale
<1> QED
  BY <1>1, <1>2, <1>3, <1>4, <1>5, <1>6 DEF F!Next

LEMMA NextWhole ==
  ASSUME FactoryConstants, FactoryInv, [F!Next]_(F!vars)
  PROVE  F!OneWholePackage'
<1>b. scripts' \in Seq(Script)
  BY NextHandsOK DEF FactoryInv, HandsOK
<1> SUFFICES ASSUME F!ScriptJob \notin disowned',
                    NEW i \in 1 .. Len(scripts'), scripts'[i].packages > 0
             PROVE  /\ scripts'[i].packages = 1 /\ scripts'[i].scenes > 0
                    /\ scripts'[i].shots = scripts'[i].scenes /\ scripts'[i].required = scripts'[i].scenes
  BY <1>b DEF F!OneWholePackage
<1>a. /\ FactoryTypes /\ F!TypeOK /\ Len(scripts) \in Nat
      /\ i \in 1 .. Len(scripts) /\ scripts[i].packages > 0 =>
            /\ scripts[i].packages = 1 /\ scripts[i].scenes > 0
            /\ scripts[i].shots = scripts[i].scenes /\ scripts[i].required = scripts[i].scenes
  BY Facts DEF FactoryInv, F!OneWholePackage
<1> DEFINE Whole == /\ scripts'[i].packages = 1 /\ scripts'[i].scenes > 0
                    /\ scripts'[i].shots = scripts'[i].scenes
                    /\ scripts'[i].required = scripts'[i].scenes
<1> USE <1>a DEF Rewrites
<1>1. CASE UNCHANGED F!vars
  BY <1>1 DEF F!vars, F!rows, F!recovery
<1>2. ASSUME NEW w \in Worker, NEW j \in F!Job, F!ClaimJob(w, j) PROVE Whole
  BY <1>2, ClaimEffect
<1>3. ASSUME NEW w \in Worker, F!Work(w) PROVE Whole
  <2>1. CASE F!EnsureStage(w) BY <2>1, EnsureStageEffect
  <2>2. CASE F!GenerateScript(w) BY <2>2, GenerateScriptEffect
  <2>3. CASE F!GeneratePlan(w) BY <2>3, GeneratePlanEffect
  <2>4. CASE F!Refuse(w) BY <2>4, RefuseEffect
  <2>5. CASE F!SaveScript(w) BY <2>5, SaveScriptEffect
  <2>6. CASE F!InsertScript(w)
    BY <2>6, InsertScriptEffect DEF F!NewScript
  <2>7. CASE F!InsertScene(w)
    <3>1. Len(scripts) = 1 /\ mine[w].script = 1 /\ at[w] = "scenes"
      BY <2>7, InsertSceneEffect, Only, Facts
    <3>2. scripts[1].packages = 0
      BY <3>1, Facts DEF PlanOf
    <3> QED
      BY <2>7, <3>1, <3>2, InsertSceneEffect
  <2>8. CASE F!QueuePlanning(w) BY <2>8, QueuePlanningEffect
  <2>9. CASE F!PersistPlan(w) BY <2>9, PersistPlanEffect
  <2>10. CASE F!PersistScenes(w) BY <2>10, PersistScenesEffect
  <2>11. CASE F!CreateShot(w)
    <3>1. Len(scripts) = 1 /\ mine[w].script = 1 /\ at[w] = "shots" /\ mine[w].next \in Nat
      BY <2>11, CreateShotEffect, Only, Facts DEF AtPlan
    <3>2. mine[w].seen = scripts[1].scenes /\ scripts[1].scenes \in Nat /\ scripts[1].shots \in Nat
      BY <3>1, Facts DEF PlanOf
    <3> QED
      BY <2>11, <3>1, <3>2, CreateShotEffect
  <2>12. CASE F!CreateRequirement(w)
    <3>1. Len(scripts) = 1 /\ mine[w].script = 1 /\ at[w] = "requirements"
      BY <2>12, CreateRequirementEffect, Only, Facts DEF AtPlan
    <3>2. mine[w].next <= mine[w].seen /\ mine[w].next > scripts[1].required => scripts[1].packages = 0
      BY <3>1, NewKey
    <3> QED
      BY <2>12, <3>1, <3>2, CreateRequirementEffect
  <2>13. CASE F!CreatePackage(w)
    <3>1. Len(scripts) = 1 /\ mine[w].script = 1 /\ at[w] = "packaging"
      BY <2>13, CreatePackageEffect, Only, Facts DEF AtPlan
    <3>2. /\ scripts[1].packages = 0 /\ scripts[1].scenes > 0
          /\ scripts[1].shots = scripts[1].scenes /\ scripts[1].required = scripts[1].scenes
      BY <3>1, Facts DEF PlanOf, Keeper
    <3> QED
      BY <2>13, <3>1, <3>2, CreatePackageEffect
  <2>14. CASE F!CompleteStage(w) BY <2>14, CompleteStageEffect
  <2>15. CASE F!CompleteJob(w) BY <2>15, CompleteJobEffect
  <2>16. CASE F!FailJob(w) BY <2>16, FailJobEffect
  <2>17. CASE F!FailAgain(w) BY <2>17, FailAgainEffect
  <2> QED
    BY <1>3, <2>1, <2>2, <2>3, <2>4, <2>5, <2>6, <2>7, <2>8, <2>9,
       <2>10, <2>11, <2>12, <2>13, <2>14, <2>15, <2>16, <2>17 DEF F!Work
<1>4. ASSUME NEW w \in Worker, F!Throw(w) PROVE Whole
  BY <1>4, ThrowEffect
<1>5. ASSUME NEW w \in Worker, F!Crash(w) PROVE Whole
  BY <1>5, CrashEffect
<1>6. ASSUME NEW j \in F!Job, F!RecoverStale(j) PROVE Whole
  BY <1>6 DEF F!RecoverStale
<1> QED
  BY <1>1, <1>2, <1>3, <1>4, <1>5, <1>6 DEF F!Next

LEMMA NextPlanOf ==
  ASSUME FactoryConstants,
         FactoryInv, [F!Next]_(F!vars), F!ScriptJob \notin disowned', NEW u \in Worker
  PROVE  PlanOf(u)'
<1>a. /\ FactoryTypes /\ F!TypeOK /\ PlanOf(u)
      /\ scripts \in Seq(Script) /\ Len(scripts) \in Nat
  BY Facts
<1>b. at[u] \in AtPlan \cup {"scenes", "queueing"} => mine[u].script = 1 /\ Len(scripts) = 1
  BY Facts, Only
<1>c. Len(scripts) = 1 => /\ scripts[1].shots \in Nat /\ scripts[1].scenes \in Nat
                          /\ scripts[1].required \in Nat /\ scripts[1].packages \in Nat
                          /\ scripts[1].shots <= scripts[1].scenes
  BY Facts
<1>d. mine[u].seen \in Nat /\ mine[u].next \in Nat
  <2>1. mine[u] \in Hand
    BY <1>a, Hands
  <2> QED
    BY <2>1 DEF Hand
<1> USE <1>a, <1>b, <1>c, <1>d DEF PlanOf, Keeper, AtPlan, Moves, Walks, Leaves
<1>1. CASE UNCHANGED F!vars
  BY <1>1 DEF F!vars, F!rows, F!recovery
<1>2. ASSUME NEW w \in Worker, NEW j \in F!Job, F!ClaimJob(w, j) PROVE PlanOf(u)'
  BY <1>2, ClaimEffect
<1>3. ASSUME NEW w \in Worker, F!Work(w) PROVE PlanOf(u)'
  <2>1. CASE F!EnsureStage(w) BY <2>1, EnsureStageEffect
  <2>2. CASE F!GenerateScript(w) BY <2>2, GenerateScriptEffect
  <2>3. CASE F!GeneratePlan(w)
    <3>1. /\ at'[w] = "bible" /\ mine'[w].script = input[F!J(w)]
          /\ mine'[w].seen = scripts[input[F!J(w)]].scenes
          /\ scripts' = scripts
          /\ w # u => at'[u] = at[u] /\ mine'[u] = mine[u]
      BY <2>3, GeneratePlanEffect
    <3> QED
      BY <3>1
  <2>4. CASE F!Refuse(w) BY <2>4, RefuseEffect
  <2>5. CASE F!SaveScript(w)
    <3>1. /\ at'[w] \in {"queueing", "inserting"} /\ scripts' = scripts
          /\ w # u => at'[u] = at[u] /\ mine'[u] = mine[u]
      BY <2>5, SaveScriptEffect
    <3> QED
      BY <3>1
  <2>6. CASE F!InsertScript(w)
    <3>1. at[w] = "inserting"
      BY <2>6, InsertScriptEffect
    <3>2. Len(scripts) = 0
      BY <3>1, Facts DEF FactoryInv, FrozenInv
    <3>3. /\ at'[w] = "scenes" /\ mine'[w].script = 1 /\ scripts'[1] = F!NewScript
          /\ w # u => at'[u] = at[u] /\ mine'[u] = mine[u]
      BY <2>6, <3>2, InsertScriptEffect
    <3>4. at'[u] \in AtPlan \cup {"scenes"} => u = w
      BY <3>2, <3>3
    <3> QED
      BY <3>3, <3>4 DEF F!NewScript
  <2>7. CASE F!InsertScene(w)
    <3>1. at[w] = "scenes" /\ mine[w].script = 1 /\ Len(scripts) = 1
      BY <2>7, InsertSceneEffect, Only, Facts
    <3>2. scripts[1].packages = 0
      BY <3>1, Facts
    <3>3. scripts'[1].packages = 0
      BY <2>7, <3>1, <3>2, InsertSceneEffect DEF Rewrites
    <3>4. /\ at'[w] \in {"scenes", "queueing"} /\ mine'[w].script = 1
          /\ w # u => at'[u] = at[u] /\ mine'[u] = mine[u]
      BY <2>7, <3>1, InsertSceneEffect
    <3>5. at[u] \notin AtPlan
      BY <3>1, ScenesAreThere, Facts
    <3> QED
      BY <3>3, <3>4, <3>5
  <2>8. CASE F!QueuePlanning(w)
    <3>1. /\ at'[w] = "closing" /\ scripts' = scripts
          /\ w # u => at'[u] = at[u] /\ mine'[u] = mine[u]
      BY <2>8, QueuePlanningEffect
    <3> QED
      BY <3>1
  <2>9. CASE F!PersistPlan(w) BY <2>9, PersistPlanEffect
  <2>10. CASE F!PersistScenes(w)
    <3>1. /\ at[w] = "binding" /\ at'[w] = "shots" /\ scripts' = scripts
          /\ mine'[w].script = mine[w].script /\ mine'[w].seen = mine[w].seen
          /\ mine'[w].next = mine[w].next
          /\ w # u => at'[u] = at[u] /\ mine'[u] = mine[u]
      BY <2>10, PersistScenesEffect
    <3>2. mine[w].next = 1
      BY <3>1 DEF FactoryTypes, HandsInv, QueuedHasScript, OwnInv, OwnScript
    <3> QED
      BY <3>1, <3>2
  <2>11. CASE F!CreateShot(w)
    <3>1. at[w] = "shots" /\ mine[w].script = 1 /\ Len(scripts) = 1
          /\ mine[w].seen \in Nat /\ mine[w].next \in Nat
      BY <2>11, CreateShotEffect, Only, Facts
    <3>2. mine[w].seen = scripts[1].scenes /\ mine[w].next <= scripts[1].shots + 1
      BY <3>1, Facts
    <3>3. CASE /\ mine[w].next <= mine[w].seen
               /\ Rewrites(1, scripts[1].scenes,
                           IF mine[w].next > scripts[1].shots THEN mine[w].next ELSE scripts[1].shots,
                           scripts[1].required, scripts[1].packages)
               /\ Moves(w, "shots", 1, mine[w].seen, mine[w].next + 1)
      <4>1. /\ scripts'[1].scenes = scripts[1].scenes /\ scripts'[1].required = scripts[1].required
            /\ scripts'[1].packages = scripts[1].packages
            /\ scripts'[1].shots = IF mine[w].next > scripts[1].shots THEN mine[w].next ELSE scripts[1].shots
        BY <3>3 DEF Rewrites
      <4>2. CASE u = w
        BY <3>1, <3>2, <3>3, <4>1, <4>2
      <4>3. CASE u # w
        <5>1. at'[u] = at[u] /\ mine'[u] = mine[u]
          BY <3>3, <4>3
        <5>2. at[u] \in {"requirements", "packaging"} => scripts'[1].shots = scripts[1].shots
          BY <3>1, <3>2, <3>3, <4>1
        <5>3. at[u] \in AtPlan \cup {"scenes"} => mine[u].script = 1 /\ Len(scripts) = 1
          OBVIOUS
        <5>4. at[u] = "shots" => mine[u].next <= scripts'[1].shots + 1
          BY <3>1, <4>1
        <5> QED
          BY <4>1, <5>1, <5>2, <5>3, <5>4
      <4> QED
        BY <4>2, <4>3
    <3>4. CASE /\ mine[w].next > mine[w].seen /\ scripts' = scripts
               /\ Moves(w, "requirements", 1, scripts[1].shots, 1)
      <4>1. scripts[1].shots = scripts[1].scenes
        BY <3>1, <3>2, <3>4
      <4> QED
        BY <3>4, <4>1
    <3> QED
      BY <2>11, <3>1, <3>3, <3>4, CreateShotEffect
  <2>12. CASE F!CreateRequirement(w)
    <3>1. at[w] = "requirements" /\ mine[w].script = 1 /\ Len(scripts) = 1
          /\ mine[w].seen \in Nat /\ mine[w].next \in Nat
      BY <2>12, CreateRequirementEffect, Only, Facts
    <3>2. /\ mine[w].seen = scripts[1].shots /\ scripts[1].shots = scripts[1].scenes
          /\ mine[w].next > 1 => /\ scripts[1].required = mine[w].next - 1
                                 /\ scripts[1].packages = 0
          /\ mine[w].next <= mine[w].seen + 1 /\ mine[w].next >= 1
      <4>1. mine[w].next \in 1 .. mine[w].seen + 1
        BY <3>1 DEF FactoryTypes, HandsInv, QueuedHasScript, OwnInv, OwnScript
      <4> QED
        BY <3>1, <4>1, Facts
    <3>3. CASE Moves(w, "failing", 0, 0, 0) /\ scripts' = scripts
      BY <3>3
    <3>4. CASE /\ mine[w].next > mine[w].seen /\ scripts[1].scenes # 0
               /\ Walks(w, "packaging") /\ scripts' = scripts
      <4>1. scripts[1].required = scripts[1].scenes /\ scripts[1].packages = 0 /\ scripts[1].scenes > 0
        BY <3>1, <3>2, <3>4
      <4> QED
        BY <3>1, <3>2, <3>4, <4>1
    <3>5. CASE /\ mine[w].next <= mine[w].seen /\ mine[w].next > scripts[1].required
               /\ Rewrites(1, scripts[1].scenes, scripts[1].shots, mine[w].next, scripts[1].packages)
               /\ Moves(w, "requirements", 1, mine[w].seen, mine[w].next + 1)
      <4>1. scripts[1].packages = 0 /\ (Keeper(u) => u = w)
        BY <3>1, <3>5, NewKey
      <4>2. /\ scripts'[1].scenes = scripts[1].scenes /\ scripts'[1].shots = scripts[1].shots
            /\ scripts'[1].required = mine[w].next /\ scripts'[1].packages = scripts[1].packages
        BY <3>5 DEF Rewrites
      <4>3. CASE u = w
        <5>1. /\ at'[u] = "requirements" /\ mine'[u].script = 1
              /\ mine'[u].seen = mine[w].seen /\ mine'[u].next = mine[w].next + 1
          BY <3>5, <4>3
        <5>2. mine[w].next = mine'[u].next - 1
          <6> DEFINE n == mine[w].next
          <6>1. n \in Nat /\ mine'[u].next = n + 1
            BY <3>1, <5>1
          <6> HIDE DEF n
          <6>2. n = n + 1 - 1
            BY <6>1
          <6>3. n = mine'[u].next - 1
            BY <6>1, <6>2
          <6> QED
            BY <6>3 DEF n
        <5>3. /\ mine'[u].seen = scripts'[1].shots /\ scripts'[1].shots = scripts'[1].scenes
              /\ scripts'[1].required = mine'[u].next - 1
              /\ scripts'[1].packages = 0 /\ scripts'[1].required > 0
          <6>1. mine'[u].seen = scripts'[1].shots /\ scripts'[1].shots = scripts'[1].scenes
            BY <3>2, <4>2, <5>1
          <6>2. scripts'[1].required = mine'[u].next - 1
            BY <4>2, <5>2
          <6>3. scripts'[1].packages = 0 /\ scripts'[1].required > 0
            BY <3>1, <3>2, <4>1, <4>2
          <6> QED
            BY <6>1, <6>2, <6>3
        <5> QED
          BY <5>1, <5>3
      <4>4. CASE u # w
        BY <3>5, <4>1, <4>2, <4>4
      <4> QED
        BY <4>3, <4>4
    <3> QED
      BY <2>12, <3>1, <3>3, <3>4, <3>5, CreateRequirementEffect
  <2>13. CASE F!CreatePackage(w)
    <3>1. at[w] = "packaging" /\ mine[w].script = 1 /\ Len(scripts) = 1
      BY <2>13, CreatePackageEffect, Only, Facts
    <3>2. Keeper(u) => u = w
      BY <3>1, Facts
    <3>3. at[u] # "scenes"
      BY <3>1, ScenesAreThere, Facts
    <3>4. /\ scripts'[1].scenes = scripts[1].scenes /\ scripts'[1].shots = scripts[1].shots
          /\ scripts'[1].required = scripts[1].required
      BY <2>13, <3>1, CreatePackageEffect DEF Rewrites
    <3>5. at'[w] = "closing" /\ (u # w => at'[u] = at[u] /\ mine'[u] = mine[u])
      BY <2>13, CreatePackageEffect
    <3> QED
      BY <3>2, <3>3, <3>4, <3>5
  <2>14. CASE F!CompleteStage(w) BY <2>14, CompleteStageEffect
  <2>15. CASE F!CompleteJob(w) BY <2>15, CompleteJobEffect
  <2>16. CASE F!FailJob(w) BY <2>16, FailJobEffect
  <2>17. CASE F!FailAgain(w) BY <2>17, FailAgainEffect
  <2> QED
    BY <1>3, <2>1, <2>2, <2>3, <2>4, <2>5, <2>6, <2>7, <2>8, <2>9,
       <2>10, <2>11, <2>12, <2>13, <2>14, <2>15, <2>16, <2>17 DEF F!Work
<1>4. ASSUME NEW w \in Worker, F!Throw(w) PROVE PlanOf(u)'
  BY <1>4, ThrowEffect
<1>5. ASSUME NEW w \in Worker, F!Crash(w) PROVE PlanOf(u)'
  BY <1>5, CrashEffect
<1>6. ASSUME NEW j \in F!Job, F!RecoverStale(j) PROVE PlanOf(u)'
  BY <1>6 DEF F!RecoverStale
<1> QED
  BY <1>1, <1>2, <1>3, <1>4, <1>5, <1>6 DEF F!Next
-----------------------------------------------------------------------------
LEMMA FactoryStep ==
  ASSUME FactoryConstants, FactoryInv, [F!Next]_(F!vars)
  PROVE  FactoryInv'
<1>1. FactoryTypes' /\ ClaimInv' /\ SoleInv' /\ FrozenInv'
  BY NextFactoryTypes, NextClaimInv, NextSoleInv, NextFrozenInv DEF FactoryInv
<1>3. ASSUME F!ScriptJob \notin disowned'
      PROVE  /\ Fits'
             /\ \A w \in Worker : PlanOf(w)'
             /\ \A w, v \in Worker : Keeper(w)' /\ Keeper(v)' => w = v
  BY <1>3, NextFits, NextPlanOf, NextKeeper
<1>4. PlanInv'
  BY <1>3 DEF PlanInv
<1> QED
  BY <1>1, <1>4, NextWhole DEF FactoryInv

(***************************************************************************)
(* Type correctness: jobs and stages of the factory keep to their statuses *)
(* and attempts to max_attempts, no script gets a scene, a shot or a       *)
(* requirement too many, and each process works on a script that exists.   *)
(***************************************************************************)
THEOREM FactoryTypeCorrect ==
  ASSUME FactoryConstants
  PROVE  F!Spec => []F!TypeOK
<1>1. FactoryInv => F!TypeOK
  BY DEF FactoryInv, FactoryTypes
<1> QED
  BY <1>1, FactoryInit, FactoryStep, PTL DEF F!Spec

(***************************************************************************)
(* However often planning is queued, retried, failed over or run by many   *)
(* processes at once, a script gets one package that waits for approval,   *)
(* with shots and requirements for all its scenes, unless the script job   *)
(* was handed out while another process held it.                           *)
(***************************************************************************)
THEOREM OnePackage ==
  ASSUME FactoryConstants
  PROVE  F!Spec => []F!OneWholePackage
<1>1. FactoryInv => F!OneWholePackage
  BY DEF FactoryInv
<1> QED
  BY <1>1, FactoryInit, FactoryStep, PTL DEF F!Spec
===============================================================================
