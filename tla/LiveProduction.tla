---------------------------- MODULE LiveProduction ----------------------------
(***************************************************************************)
(* A controlled live production (src/v2.4/live-production-service.js run   *)
(* by scripts/live-production.js): one production key, its rows in         *)
(* v2_1.productions and v2_1.jobs, the one paid video, and the review of   *)
(* the master.  The input has schema version 1 and no durable media        *)
(* executor: the row of the job is all that protects the money.            *)
(*                                                                         *)
(* Every call of run() for the key is a Run.  Its steps are the awaited    *)
(* statements; each may fail with or without effect, and a process may die *)
(* between any two.  A prediction is named by the run that paid for it.    *)
(* Files are written whole here; MediaExecution is about half written ones.*)
(* recover_expired_work() is run by the operator, at any time.             *)
(***************************************************************************)
EXTENDS Naturals

CONSTANTS Run,          \* calls of LiveProductionService.run for the key
          Worker,       \* values of config.workerId
          WorkerOf,     \* the worker id of each call
          MaxAttempts,  \* max_attempts of the job
          None

ASSUME WorkerAssumption == WorkerOf \in [Run -> Worker]
ASSUME AttemptsAssumption == MaxAttempts \in Nat \ {0}
ASSUME NoneAssumption == None \notin Run \cup Worker

VARIABLES
  jobStatus, owner, live, attempt,  \* the row of v2_1.jobs; live: its lease
  requestState,                     \* providerRequestState in its payload
  production,  \* the status of the row of v2_1.productions
  video,       \* the prediction whose bytes are the immutable artifact
  review,      \* the review item of the master
  pc,          \* where each run stands
  seen,        \* the status of the job that prepare() found
  seenMarked,  \* the runs whose prepare() found the boundary marked
  allow,       \* the runs with allowRecoveredRetry
  beyond,      \* the runs with providerBoundaryCrossed
  paid,        \* the runs that paid for a prediction
  stale        \* history: the runs that claimed over a boundary marked since prepare()

job == <<jobStatus, owner, live, attempt, requestState>>
local == <<seen, seenMarked, allow>>
vars == <<job, production, video, review, pc, local, beyond, paid, stale>>

JobStatus == {"ABSENT", "QUEUED", "RUNNING", "RETRYING", "COMPLETED", "FAILED", "DEAD_LETTER"}
Location == {"idle", "deciding", "claiming", "claimed", "resolving", "paying", "storing",
             "mastering", "reviewing", "completing", "closing", "failing", "condemning", "ended"}

TypeOK ==
  /\ jobStatus \in JobStatus
  /\ owner \in Worker \cup {None}
  /\ live \in BOOLEAN
  /\ attempt \in 1..MaxAttempts
  /\ requestState \in {"NOT_STARTED", "MAY_HAVE_STARTED"}
  /\ production \in {"ABSENT", "RUNNING", "COMPLETED", "FAILED"}
  /\ video \in Run \cup {None}
  /\ review \in {"none", "pending", "decided"}
  /\ pc \in [Run -> Location]
  /\ seen \in [Run -> JobStatus]
  /\ seenMarked \subseteq Run
  /\ allow \subseteq Run
  /\ beyond \subseteq Run
  /\ paid \subseteq Run
  /\ stale \subseteq Run

Init ==
  /\ jobStatus = "ABSENT"
  /\ owner = None
  /\ live = FALSE
  /\ attempt = 1
  /\ requestState = "NOT_STARTED"
  /\ production = "ABSENT"
  /\ video = None
  /\ review = "none"
  /\ pc = [c \in Run |-> "idle"]
  /\ seen = [c \in Run |-> "ABSENT"]
  /\ seenMarked = {}
  /\ allow = {}
  /\ beyond = {}
  /\ paid = {}
  /\ stale = {}

\* A prediction may have been started.
Marked == requestState = "MAY_HAVE_STARTED"

Goto(c, l) == pc' = [pc EXCEPT ![c] = l]
Mine(c) == owner = WorkerOf[c] /\ jobStatus = "RUNNING"

\* prepare(): what the rows say now is what the run decides on.
Prepare(c) ==
  /\ pc[c] = "idle"
  /\ seen' = [seen EXCEPT ![c] = jobStatus]
  /\ seenMarked' = IF Marked THEN seenMarked \cup {c} ELSE seenMarked
  /\ Goto(c, "deciding") \/ Goto(c, "ended")
  /\ UNCHANGED <<job, production, video, review, allow, beyond, paid, stale>>

\* Mistake: a recovered run is retried whatever it may have paid for.
MayRetryAlways(c) == TRUE

(***************************************************************************)
(* A recovered run is retried when no prediction can have been made, or    *)
(* when its video is in the store; else LIVE_EXISTING_PREDICTION_UNRESOLVED *)
(* refuses a second paid prediction.                                       *)
(***************************************************************************)
MayRetry(c) == c \notin seenMarked \/ video # None

Decide(c) ==
  /\ pc[c] = "deciding"
  /\ \/ seen[c] # "RETRYING" /\ Goto(c, "claiming") /\ UNCHANGED allow
     \/ /\ seen[c] = "RETRYING" /\ MayRetry(c)
        /\ allow' = allow \cup {c}
        /\ Goto(c, "claiming")
     \/ /\ seen[c] = "RETRYING" /\ ~MayRetry(c)
        /\ Goto(c, "ended") /\ UNCHANGED allow
  /\ UNCHANGED <<job, production, video, review, seen, seenMarked, beyond, paid, stale>>

Claims(c) == \/ jobStatus \in {"ABSENT", "QUEUED"}
             \/ jobStatus = "RETRYING" /\ c \in allow

(***************************************************************************)
(* createAndClaim(), one transaction: the rows are created as DRAFT and    *)
(* QUEUED unless they exist, and claimed for 30 minutes.  A completed job  *)
(* is reused, any other is refused and rolled back.  When the answer of    *)
(* the commit is lost nothing is reported.                                 *)
(***************************************************************************)
CreateAndClaim(c) ==
  /\ pc[c] = "claiming"
  /\ \/ /\ Claims(c)
        /\ jobStatus' = "RUNNING"
        /\ owner' = WorkerOf[c]
        /\ live' = TRUE
        /\ production' = "RUNNING"
        /\ stale' = IF Marked /\ c \notin seenMarked THEN stale \cup {c} ELSE stale
        /\ Goto(c, "claimed") \/ Goto(c, "ended")
     \/ /\ Goto(c, "ended")
        /\ UNCHANGED <<jobStatus, owner, live, production, stale>>
  /\ UNCHANGED <<attempt, requestState, video, review, local, beyond, paid>>

\* The input artifact is stored and markProviderBoundary(), which may be fenced.
MarkBoundary(c) ==
  /\ pc[c] = "claimed"
  /\ \/ /\ Mine(c)
        /\ requestState' = "MAY_HAVE_STARTED"
        /\ \/ /\ beyond' = beyond \cup {c}
              /\ Goto(c, "resolving")
           \/ /\ UNCHANGED beyond
              /\ Goto(c, "failing")
     \/ /\ Goto(c, "failing")
        /\ UNCHANGED <<requestState, beyond>>
  /\ UNCHANGED <<jobStatus, owner, live, attempt, production, video, review, local, paid, stale>>

\* MasterProductionOrchestrator.build: the video of the store, or a new prediction.
Resolve(c) ==
  /\ pc[c] = "resolving"
  /\ Goto(c, IF video = None THEN "paying" ELSE "mastering")
  /\ UNCHANGED <<job, production, video, review, local, beyond, paid, stale>>

\* generateMediaAsset(): a request may never leave, and be paid for in vain.
Pay(c) ==
  /\ pc[c] = "paying"
  /\ \/ /\ paid' = paid \cup {c}
        /\ Goto(c, "storing") \/ Goto(c, "failing")
     \/ /\ Goto(c, "failing")
        /\ UNCHANGED paid
  /\ UNCHANGED <<job, production, video, review, local, beyond, stale>>

\* createVersion(): the first bytes stay, others conflict.
Store(c) ==
  /\ pc[c] = "storing"
  /\ \/ /\ video = None
        /\ video' = c
        /\ Goto(c, "mastering")
     \/ /\ Goto(c, "failing")
        /\ UNCHANGED video
  /\ UNCHANGED <<job, production, review, local, beyond, paid, stale>>

\* Mistake: a failed master is not told from one that is ready for review.
MasterUnvalidated(c) ==
  /\ pc[c] = "mastering"
  /\ Goto(c, "completing")
  /\ UNCHANGED <<job, production, video, review, local, beyond, paid, stale>>

\* The master is rendered, validated, and registered for review once.
Master(c) ==
  /\ pc[c] = "mastering"
  /\ \/ /\ review' = IF review = "none" THEN "pending" ELSE review
        /\ Goto(c, "reviewing") \/ Goto(c, "failing")
     \/ /\ Goto(c, "failing")
        /\ UNCHANGED review
  /\ UNCHANGED <<job, production, video, local, beyond, paid, stale>>

\* LIVE_REVIEW_NOT_PENDING unless the review awaits its decision.
CheckReview(c) ==
  /\ pc[c] = "reviewing"
  /\ \/ review = "pending" /\ Goto(c, "completing")
     \/ Goto(c, "failing")
  /\ UNCHANGED <<job, production, video, review, local, beyond, paid, stale>>

(***************************************************************************)
(* complete(): the job, fenced by the worker id (LIVE_JOB_FENCED) but not  *)
(* by the lease, then the production.  An error of either goes to fail().  *)
(***************************************************************************)
CompleteJob(c) ==
  /\ pc[c] = "completing"
  /\ \/ /\ Mine(c)
        /\ jobStatus' = "COMPLETED"
        /\ owner' = None
        /\ live' = FALSE
        /\ Goto(c, "closing") \/ Goto(c, "failing")
     \/ /\ Goto(c, "failing")
        /\ UNCHANGED <<jobStatus, owner, live>>
  /\ UNCHANGED <<attempt, requestState, production, video, review, local, beyond, paid, stale>>

CompleteProduction(c) ==
  /\ pc[c] = "closing"
  /\ \/ /\ production' = IF production = "RUNNING" THEN "COMPLETED" ELSE production
        /\ Goto(c, "ended") \/ Goto(c, "failing")
     \/ /\ Goto(c, "failing")
        /\ UNCHANGED production
  /\ UNCHANGED <<job, video, review, local, beyond, paid, stale>>

(***************************************************************************)
(* fail(): RETRYING before the boundary and FAILED beyond it, fenced by    *)
(* the worker id; FAILED is then written to the production, which is       *)
(* fenced by nothing.  An error of fail() itself ends the run.             *)
(***************************************************************************)
Verdict(c) == IF c \in beyond THEN "FAILED" ELSE "RETRYING"

FailJob(c) ==
  /\ pc[c] = "failing"
  /\ \/ /\ IF Mine(c)
             THEN jobStatus' = Verdict(c) /\ owner' = None /\ live' = FALSE
             ELSE UNCHANGED <<jobStatus, owner, live>>
        /\ Goto(c, IF c \in beyond THEN "condemning" ELSE "ended")
     \/ /\ Goto(c, "ended")
        /\ UNCHANGED <<jobStatus, owner, live>>
  /\ UNCHANGED <<attempt, requestState, production, video, review, local, beyond, paid, stale>>

FailProduction(c) ==
  /\ pc[c] = "condemning"
  /\ production' = IF production = "RUNNING" THEN "FAILED" ELSE production
  /\ Goto(c, "ended")
  /\ UNCHANGED <<job, video, review, local, beyond, paid, stale>>

Crash(c) ==
  /\ pc[c] \notin {"idle", "ended"}
  /\ Goto(c, "ended")
  /\ UNCHANGED <<job, production, video, review, local, beyond, paid, stale>>

Step(c) ==
  \/ Prepare(c) \/ Decide(c) \/ CreateAndClaim(c) \/ MarkBoundary(c)
  \/ Resolve(c) \/ Pay(c) \/ Store(c) \/ Master(c) \/ CheckReview(c)
  \/ CompleteJob(c) \/ CompleteProduction(c) \/ FailJob(c) \/ FailProduction(c)

\* A reviewer approves or rejects the master.
Review ==
  /\ review = "pending"
  /\ review' = "decided"
  /\ UNCHANGED <<job, production, video, pc, local, beyond, paid, stale>>

\* Half an hour passes; nothing renews the lease.
ExpireLease ==
  /\ live
  /\ live' = FALSE
  /\ UNCHANGED <<jobStatus, owner, attempt, requestState, production, video, review, pc, local,
                 beyond, paid, stale>>

\* recover_expired_work(): the second loop; the job has no stage runs.
Recover ==
  /\ jobStatus = "RUNNING" /\ ~live
  /\ IF attempt < MaxAttempts
       THEN jobStatus' = "RETRYING" /\ attempt' = attempt + 1
       ELSE jobStatus' = "DEAD_LETTER" /\ UNCHANGED attempt
  /\ owner' = None
  /\ UNCHANGED <<live, requestState, production, video, review, pc, local, beyond, paid, stale>>

Next == \/ \E c \in Run : Step(c) \/ Crash(c)
        \/ Review \/ ExpireLease \/ Recover

Spec == Init /\ [][Next]_vars
-----------------------------------------------------------------------------
(***************************************************************************)
(* When money may have been spent the row says so, whoever died when.      *)
(***************************************************************************)
PaidIsMarked == paid # {} => Marked

(***************************************************************************)
(* Runs that race, expire, are recovered and retried buy the video once,   *)
(* as long as no claim is granted over a boundary that was marked after    *)
(* its run had read the job.                                               *)
(***************************************************************************)
OnePredictionUnlessStale ==
  stale = {} => \A c, d \in paid : c = d

(***************************************************************************)
(* A production is COMPLETED only when its job is, although another run,   *)
(* recovery or a late failure may write the job between the two statements.*)
(***************************************************************************)
CompletedTogether == production = "COMPLETED" => jobStatus = "COMPLETED"

(***************************************************************************)
(* A completed job has its video in the store and its master before a      *)
(* reviewer, even when the run that completes it is not the one that paid. *)
(***************************************************************************)
CompletedIsReviewable ==
  jobStatus = "COMPLETED" => video \in paid /\ review # "none"
=============================================================================
