---------------------------- MODULE StageExecution ----------------------------
(***************************************************************************)
(* The V2.1 execution engine: one job of one production, its ordered       *)
(* stages and their attempts, the workers that claim and run them under    *)
(* leases, and the recovery of expired work.                               *)
(*                                                                         *)
(* The SQL statements (migrations/002_v2_1_execution.sql and the latest    *)
(* definitions of claim_stage and recover_expired_work) are atomic steps,  *)
(* except that claim_stage() chooses its stage before it waits for its     *)
(* lock; what worker/v2.1-*.js awaits in between interleaves.  A lease is  *)
(* live until it expires, which it may do at any time: heartbeats and      *)
(* clocks only decide when.                                                *)
(***************************************************************************)
EXTENDS Naturals

CONSTANTS N,            \* number of stages, in the order of stage_definitions
          MaxAttempts,  \* max_attempts of the job and of its stage runs
          Worker,       \* worker processes
          Id,           \* values of worker_id
          IdOf,         \* the worker_id each process uses
          None

ASSUME NAssumption == N \in Nat \ {0}
ASSUME AttemptsAssumption == MaxAttempts \in Nat \ {0}
ASSUME IdAssumption == IdOf \in [Worker -> Id] /\ None \notin Id

Stage == 1..N
Attempt == 1..MaxAttempts
Run == Stage \X Attempt    \* the rows (stage, attempt) a job may have in stage_runs

VARIABLES
  \* the row of v2_1.jobs, and the status of its production:
  jobStatus, jobOwner, jobLive, jobAttempt, production,
  \* the rows of v2_1.stage_runs:
  run, runOwner, runLive,
  \* each worker process:
  pc,
  aim,     \* the stage its claim_stage() call has chosen
  cur,     \* the stage run it was handed
  made     \* has PipelineExecutor.run completed a stage?

job == <<jobStatus, jobOwner, jobLive, jobAttempt>>
runs == <<run, runOwner, runLive>>
vars == <<job, production, runs, pc, aim, cur, made>>

JobStatus == {"QUEUED", "RUNNING", "RETRYING", "COMPLETED", "FAILED", "DEAD_LETTER"}
JobEnded == {"COMPLETED", "FAILED", "DEAD_LETTER"}
RunStatus == {"ABSENT", "RUNNING", "RETRYING", "COMPLETED", "FAILED", "DEAD_LETTER"}
NoRun == <<0, 0>>

TypeOK ==
  /\ jobStatus \in JobStatus
  /\ jobOwner \in Id \cup {None}
  /\ jobLive \in BOOLEAN
  /\ jobAttempt \in Attempt
  /\ production \in {"DRAFT", "RUNNING", "COMPLETED"}
  /\ run \in [Run -> RunStatus]
  /\ runOwner \in [Run -> Id \cup {None}]
  /\ runLive \in [Run -> BOOLEAN]
  /\ pc \in [Worker -> {"idle", "next", "locking", "running", "finishing",
                        "failing", "closing", "finalizing"}]
  /\ aim \in [Worker -> Stage]
  /\ cur \in [Worker -> Run \cup {NoRun}]
  /\ made \in [Worker -> BOOLEAN]

Init ==
  /\ jobStatus = "QUEUED"
  /\ jobOwner = None
  /\ jobLive = FALSE
  /\ jobAttempt = 1
  /\ production = "DRAFT"
  /\ run = [r \in Run |-> "ABSENT"]
  /\ runOwner = [r \in Run |-> None]
  /\ runLive = [r \in Run |-> FALSE]
  /\ pc = [w \in Worker |-> "idle"]
  /\ aim = [w \in Worker |-> 1]
  /\ cur = [w \in Worker |-> NoRun]
  /\ made = [w \in Worker |-> FALSE]

Goto(w, l) == pc' = [pc EXCEPT ![w] = l]
Drop(w) == cur' = [cur EXCEPT ![w] = NoRun]

(***************************************************************************)
(* claim_job() and claim_job_for_production(), of which only the latter    *)
(* touches the production.                                                 *)
(***************************************************************************)
ClaimJob(w) ==
  /\ pc[w] = "idle"
  /\ jobStatus \in {"QUEUED", "RETRYING"}
  /\ jobStatus' = "RUNNING"
  /\ jobOwner' = IdOf[w]
  /\ jobLive' = TRUE
  /\ \/ UNCHANGED production
     \/ /\ production \in {"DRAFT", "RUNNING"}
        /\ production' = "RUNNING"
  /\ made' = [made EXCEPT ![w] = FALSE]
  /\ Goto(w, "next")
  /\ UNCHANGED <<jobAttempt, runs, aim, cur>>

Completed(s) == \E a \in Attempt : run[<<s, a>>] = "COMPLETED"

\* The stage to run next: the first that has no completed attempt.
Target(s) == /\ ~Completed(s)
             /\ \A p \in Stage : p < s => Completed(p)
HoldsJob(w) == jobStatus = "RUNNING" /\ jobOwner = IdOf[w] /\ jobLive
Executing(s) == \E a \in Attempt : run[<<s, a>>] = "RUNNING"
Claimable(s) == {a \in Attempt : run[<<s, a>>] = "RETRYING"}

(***************************************************************************)
(* claim_stage() chooses the stage; what it then does under the lock is    *)
(* one of the next four actions.                                           *)
(***************************************************************************)
ChooseStage(w) ==
  /\ pc[w] = "next"
  /\ \E s \in Stage : Target(s) /\ aim' = [aim EXCEPT ![w] = s]
  /\ Goto(w, "locking")
  /\ UNCHANGED <<job, production, runs, cur, made>>

Take(w, r) ==
  /\ run' = [run EXCEPT ![r] = "RUNNING"]
  /\ runOwner' = [runOwner EXCEPT ![r] = IdOf[w]]
  /\ runLive' = [runLive EXCEPT ![r] = TRUE]
  /\ cur' = [cur EXCEPT ![w] = r]
  /\ Goto(w, "running")

\* Mistake: the lease of the job is not looked at again under the lock.
MayClaimUnheld(w) == pc[w] = "locking" /\ ~Executing(aim[w])

MayClaim(w) == pc[w] = "locking" /\ HoldsJob(w) /\ ~Executing(aim[w])

\* The latest attempt that waits for a retry.
ClaimRetry(w) ==
  /\ MayClaim(w)
  /\ \E a \in Claimable(aim[w]) : /\ \A b \in Claimable(aim[w]) : b <= a
                                /\ Take(w, <<aim[w], a>>)
  /\ UNCHANGED <<job, production, aim, made>>

\* No attempt waits: a first attempt is inserted.
ClaimFirst(w) ==
  /\ MayClaim(w)
  /\ Claimable(aim[w]) = {}
  /\ run[<<aim[w], 1>>] = "ABSENT"
  /\ Take(w, <<aim[w], 1>>)
  /\ UNCHANGED <<job, production, aim, made>>

\* The insertion would violate UNIQUE(job_id, stage, attempt): the claim can only throw.
Collides(w) == /\ MayClaim(w)
               /\ Claimable(aim[w]) = {}
               /\ run[<<aim[w], 1>>] # "ABSENT"

\* claim_stage() throws: so it does, or the database fails.
ClaimThrows(w) ==
  /\ pc[w] \in {"next", "locking"}
  /\ Goto(w, "idle")
  /\ UNCHANGED <<job, production, runs, aim, cur, made>>

(***************************************************************************)
(* claim_stage() returns no row: PipelineExecutor.run takes that for the   *)
(* end of the job, or throws when it had made no progress.                 *)
(***************************************************************************)
ClaimNothing(w) ==
  /\ \/ pc[w] = "next" /\ \A s \in Stage : Completed(s)
     \/ pc[w] = "locking" /\ ~HoldsJob(w)
     \/ pc[w] = "locking" /\ Executing(aim[w])
  /\ Goto(w, IF made[w] THEN "closing" ELSE "idle")
  /\ UNCHANGED <<job, production, runs, aim, cur, made>>

\* StageRunner.run: the handler and its artifacts succeed or throw.
Handle(w) ==
  /\ pc[w] = "running"
  /\ Goto(w, "finishing") \/ Goto(w, "failing")
  /\ UNCHANGED <<job, production, runs, aim, cur, made>>

(***************************************************************************)
(* completeStage() and failStage(), fenced by the worker id and the live   *)
(* lease of the stage run.  A fenced completeStage() returns null, which   *)
(* throws on completed.status and ends in failStage().                     *)
(***************************************************************************)
HoldsRun(w) == /\ run[cur[w]] = "RUNNING"
               /\ runOwner[cur[w]] = IdOf[w]
               /\ runLive[cur[w]]

Release(r, s) ==
  /\ run' = [run EXCEPT ![r] = s]
  /\ runOwner' = [runOwner EXCEPT ![r] = None]
  /\ runLive' = [runLive EXCEPT ![r] = FALSE]

CompleteStage(w) ==
  /\ pc[w] = "finishing"
  /\ \/ /\ HoldsRun(w)
        /\ Release(cur[w], "COMPLETED")
        /\ made' = [made EXCEPT ![w] = TRUE]
        /\ Drop(w)
        /\ Goto(w, "next")
     \/ /\ HoldsRun(w)                  \* committed, but the answer is lost
        /\ Release(cur[w], "COMPLETED")
        /\ Goto(w, "failing")
        /\ UNCHANGED <<cur, made>>
     \/ /\ ~HoldsRun(w)
        /\ Goto(w, "failing")
        /\ UNCHANGED <<run, runOwner, runLive, cur, made>>
  /\ UNCHANGED <<job, production, aim>>

\* Every stage is retryable: a failed run waits again under the same attempt.
FailStage(w) ==
  /\ pc[w] = "failing"
  /\ IF HoldsRun(w) THEN Release(cur[w], "RETRYING")
                    ELSE UNCHANGED <<run, runOwner, runLive>>
  /\ Drop(w)
  /\ Goto(w, "idle")
  /\ UNCHANGED <<job, production, aim, made>>

\* Mistake: the job is completed by its id alone.
CompleteJobUnfenced(w) ==
  /\ pc[w] = "closing"
  /\ jobStatus' = "COMPLETED"
  /\ jobOwner' = None
  /\ jobLive' = FALSE
  /\ Goto(w, "finalizing")
  /\ UNCHANGED <<jobAttempt, production, runs, aim, cur, made>>

(***************************************************************************)
(* completeJob(): two statements.  When the first is fenced the result is  *)
(* null and PipelineExecutor.run still returns as if the job were done.    *)
(***************************************************************************)
CompleteJob(w) ==
  /\ pc[w] = "closing"
  /\ IF HoldsJob(w)
       THEN /\ jobStatus' = "COMPLETED"
            /\ jobOwner' = None
            /\ jobLive' = FALSE
            /\ Goto(w, "finalizing")
       ELSE /\ Goto(w, "idle")
            /\ UNCHANGED <<jobStatus, jobOwner, jobLive>>
  /\ UNCHANGED <<jobAttempt, production, runs, aim, cur, made>>

CompleteProduction(w) ==
  /\ pc[w] = "finalizing"
  /\ production' = IF production = "RUNNING" /\ jobStatus = "COMPLETED"
                     THEN "COMPLETED" ELSE production
  /\ Goto(w, "idle")
  /\ UNCHANGED <<job, runs, aim, cur, made>>

\* The process dies and is started again; it remembers nothing.
Crash(w) ==
  /\ pc[w] # "idle"
  /\ Goto(w, "idle")
  /\ Drop(w)
  /\ UNCHANGED <<job, production, runs, aim, made>>

\* Time passes: a lease that nobody renews expires.
ExpireJob ==
  /\ jobStatus = "RUNNING" /\ jobLive
  /\ jobLive' = FALSE
  /\ UNCHANGED <<jobStatus, jobOwner, jobAttempt, production, runs, pc, aim, cur, made>>

ExpireRun(r) ==
  /\ run[r] = "RUNNING" /\ runLive[r]
  /\ runLive' = [runLive EXCEPT ![r] = FALSE]
  /\ UNCHANGED <<job, production, run, runOwner, pc, aim, cur, made>>

(***************************************************************************)
(* recover_expired_work(), one transaction.  Its first loop takes expired  *)
(* stage runs: the next attempt is inserted for a retry and the job put    *)
(* back, or, after the last attempt, both end.                             *)
(***************************************************************************)
Expired == {r \in Run : run[r] = "RUNNING" /\ ~runLive[r]}
Next1(r) == <<r[1], r[2] + 1>>
Retried == {Next1(r) : r \in {x \in Expired : x[2] < MaxAttempts}}

\* Mistake: the expired row itself is put back, without a new attempt.
RecoverRunsInPlace ==
  /\ Expired # {}
  /\ run' = [r \in Run |-> IF r \in Expired THEN "RETRYING" ELSE run[r]]
  /\ runOwner' = [r \in Run |-> IF r \in Expired THEN None ELSE runOwner[r]]
  /\ jobStatus' = IF jobStatus = "RUNNING" THEN "RETRYING" ELSE jobStatus
  /\ jobOwner' = None
  /\ jobLive' = FALSE
  /\ UNCHANGED <<jobAttempt, production, runLive, pc, aim, cur, made>>
\* Mistake: the next attempt is not inserted.
RecoverRunsUnretried ==
  /\ Expired # {}
  /\ run' = [r \in Run |-> IF r \in Expired THEN "FAILED" ELSE run[r]]
  /\ runOwner' = [r \in Run |-> IF r \in Expired THEN None ELSE runOwner[r]]
  /\ jobStatus' = IF jobStatus = "RUNNING" THEN "RETRYING" ELSE jobStatus
  /\ jobOwner' = None
  /\ jobLive' = FALSE
  /\ UNCHANGED <<jobAttempt, production, runLive, pc, aim, cur, made>>

RecoverRuns ==
  /\ Expired # {}
  /\ run' = [r \in Run |->
       IF r \in Expired
         THEN IF r[2] < MaxAttempts THEN "FAILED" ELSE "DEAD_LETTER"
         ELSE IF r \in Retried THEN "RETRYING" ELSE run[r]]
  /\ runOwner' = [r \in Run |-> IF r \in Expired THEN None ELSE runOwner[r]]
  /\ runLive' = [r \in Run |-> runLive[r] /\ r \notin Expired]
  /\ IF jobStatus = "RUNNING"
       THEN /\ jobStatus' = IF \E r \in Expired : r[2] = MaxAttempts
                              THEN "FAILED" ELSE "RETRYING"
            /\ jobOwner' = None
            /\ jobLive' = FALSE
       ELSE UNCHANGED <<jobStatus, jobOwner, jobLive>>
  /\ UNCHANGED <<jobAttempt, production, pc, aim, cur, made>>

\* Mistake: attempts are not counted.
RecoverJobUncounted ==
  /\ jobStatus = "RUNNING" /\ ~jobLive
  /\ \A r \in Run : run[r] # "RUNNING"
  /\ jobStatus' = "RETRYING"
  /\ jobOwner' = None
  /\ UNCHANGED <<jobLive, jobAttempt, production, runs, pc, aim, cur, made>>

\* Its second loop: a job whose lease expired while none of its runs is active.
RecoverJob ==
  /\ Expired = {}
  /\ jobStatus = "RUNNING" /\ ~jobLive
  /\ \A r \in Run : run[r] # "RUNNING"
  /\ IF jobAttempt < MaxAttempts
       THEN /\ jobStatus' = "RETRYING"
            /\ jobAttempt' = jobAttempt + 1
       ELSE /\ jobStatus' = "DEAD_LETTER"
            /\ UNCHANGED jobAttempt
  /\ jobOwner' = None
  /\ UNCHANGED <<jobLive, production, runs, pc, aim, cur, made>>

Step(w) ==
  \/ ClaimJob(w) \/ ChooseStage(w)
  \/ ClaimRetry(w) \/ ClaimFirst(w) \/ ClaimThrows(w) \/ ClaimNothing(w)
  \/ Handle(w) \/ CompleteStage(w) \/ FailStage(w)
  \/ CompleteJob(w) \/ CompleteProduction(w)

Recover == RecoverRuns \/ RecoverJob

Next ==
  \/ \E w \in Worker : Step(w) \/ Crash(w)
  \/ ExpireJob
  \/ \E r \in Run : ExpireRun(r)
  \/ Recover

Spec == Init /\ [][Next]_vars
FairSpec == /\ Spec
            /\ \A w \in Worker : WF_vars(Step(w))
            /\ WF_vars(ExpireJob)
            /\ \A r \in Run : WF_vars(ExpireRun(r))
            /\ WF_vars(Recover)
-----------------------------------------------------------------------------
(***************************************************************************)
(* Whoever shares worker ids with whom, a job has at most one active run,  *)
(* and no two processes ever hold the same run: the claim's lock, fencing  *)
(* and recovery together give each attempt to one process once at a time.  *)
(***************************************************************************)
OneActiveRun ==
  \A r, q \in Run : run[r] = "RUNNING" /\ run[q] = "RUNNING" => r = q

RunHeldOnce ==
  \A v, w \in Worker : cur[v] = cur[w] /\ cur[v] # NoRun => v = w

(***************************************************************************)
(* A stage has a row only once every earlier stage is completed, even when *)
(* stale workers, retries and recovery interleave.                         *)
(***************************************************************************)
StagesInOrder ==
  \A r \in Run, p \in Stage : run[r] # "ABSENT" /\ p < r[1] => Completed(p)

(***************************************************************************)
(* A completed stage is final: no attempt of it is active or waits for a   *)
(* retry, and it was completed once.                                       *)
(***************************************************************************)
CompletedIsFinal ==
  \A r, q \in Run :
    run[r] = "COMPLETED" /\ r[1] = q[1] /\ r # q => run[q] \in {"ABSENT", "FAILED"}

(***************************************************************************)
(* A stage that a claim chose before it waited for the lock may be stale   *)
(* after it; the unique constraint is then all that is left.  Processes    *)
(* with worker ids of their own never come to that: the lease of the job   *)
(* fences the stale claim first.                                           *)
(***************************************************************************)
NoAttemptCollision == \A w \in Worker : ~Collides(w)

(***************************************************************************)
(* While a job can still be worked on, its next stage is active, waits for *)
(* a retry, or is new: no interleaving of failure and recovery leaves a    *)
(* stage that every later claim would collide on.                          *)
(***************************************************************************)
NextStageIsClaimable ==
  jobStatus \notin JobEnded =>
    \A s \in Stage : Target(s) =>
      Executing(s) \/ Claimable(s) # {} \/ run[<<s, 1>>] = "ABSENT"

(***************************************************************************)
(* A job is completed only when its last stage is, although the executor   *)
(* takes any claim that returns nothing for the end of the job: this needs *)
(* every process to have a worker id of its own.                           *)
(***************************************************************************)
CompletedJobIsWhole ==
  jobStatus = "COMPLETED" => \A s \in Stage : Completed(s)

(***************************************************************************)
(* Crashes, expired leases, fenced answers and failing handlers cannot     *)
(* keep a job going for ever: attempts are bounded along every path.       *)
(***************************************************************************)
JobEnds == <>(jobStatus \in JobEnded)

(***************************************************************************)
(* To its production the job is an ordered pipeline.                       *)
(***************************************************************************)
Progress == CHOOSE n \in 0 .. N : \A s \in Stage : Completed(s) <=> s <= n
InHand == IF \E s \in Stage : Executing(s) THEN CHOOSE s \in Stage : Executing(s) ELSE 0
Outcome == IF jobStatus = "COMPLETED" THEN "COMPLETED"
           ELSE IF jobStatus \in JobEnded THEN "GIVEN_UP" ELSE "OPEN"

Pipeline == INSTANCE OrderedPipeline WITH
  done <- Progress, working <- InHand, outcome <- Outcome,
  delivered <- production = "COMPLETED"

(***************************************************************************)
(* Processes with worker ids of their own implement it: whatever they      *)
(* claim late, lose or complete twice, no stage is started out of turn,    *)
(* again, or for a job that has ended, no job ends with a stage in hand,   *)
(* and only one that is whole delivers.                                    *)
(***************************************************************************)
ImplementsOrderedPipeline == Pipeline!Spec
=============================================================================
