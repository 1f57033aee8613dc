---------------------------- MODULE LegacyFactory ----------------------------
(***************************************************************************)
(* worker/factory-worker-v2.js over the tables of migrations/001_v2.sql:   *)
(* one script_generation job, the production_planning jobs that it queues, *)
(* and processes that take one job each.  Every statement commits alone,   *)
(* and a job has neither lease nor owner: a claim is only a status.        *)
(*                                                                         *)
(* A step is a statement, or several of which no other one reads a part.   *)
(* Any of them may fail, its effect made or not (Throw), and a process may *)
(* die anywhere.  The language model is external: its answer passes the    *)
(* validation or fails like any other step.  The production plan that      *)
(* generateProductionPlan() builds names no cast and no location for a     *)
(* scene, so the requirements are those of the shots.                      *)
(***************************************************************************)
EXTENDS Naturals, Sequences

CONSTANTS Worker,
          Scenes,       \* scenes of the generated script
          MaxAttempts,  \* max_attempts of a job
          MaxRecoveries \* bound on the reruns of the migration

ASSUME ScenesAssumption == Scenes \in Nat \ {0}
ASSUME AttemptsAssumption == MaxAttempts \in Nat \ {0}
ASSUME RecoveriesAssumption == MaxRecoveries \in Nat

ScriptJob == 0
Planning == 1 .. MaxAttempts    \* one per run of the script job, at most
Job == {ScriptJob} \cup Planning

VARIABLES
  status, attempts,  \* generation_jobs
  input,     \* the script a planning job works on, 0 for none
  stage,     \* job_stage.status; its attempts and pipeline run follow it
  scripts,   \* the scripts of the job: scenes, shots, requirements, packages
  at,        \* where each process stands
  mine,      \* its copy of the job and of what it has read
  recoveries,\* reruns of the migration
  disowned   \* history: jobs handed out again while a process held them

rows == <<status, attempts, input>>
recovery == <<recoveries, disowned>>
vars == <<rows, stage, scripts, at, mine, recovery>>

Location == {"idle", "opening", "generating", "saving", "inserting", "scenes",
             "queueing", "bible", "binding", "shots", "requirements",
             "packaging", "closing",
             "finishing", "failing", "rethrown"}
Idle == [job |-> ScriptJob, attempts |-> 0, script |-> 0, seen |-> 0, next |-> 0]

TypeOK ==
  /\ status \in [Job -> {"absent", "queued", "running", "retrying", "completed", "dead_letter"}]
  /\ attempts \in [Job -> 0 .. MaxAttempts]
  /\ input \in [Planning -> 0 .. Len(scripts)]
  /\ stage \in [Job -> {"absent", "running", "completed", "retrying", "dead_letter"}]
  /\ scripts \in Seq([scenes : 0 .. Scenes, shots : 0 .. Scenes,
                      required : 0 .. Scenes, packages : Nat])
  /\ recoveries \in 0 .. MaxRecoveries
  /\ disowned \subseteq Job
  /\ at \in [Worker -> Location]
  /\ mine \in [Worker -> [job : Job, attempts : 0 .. MaxAttempts,
                          script : 0 .. Len(scripts), seen : 0 .. Scenes, next : 0 .. Scenes + 1]]

Init ==
  /\ status = [j \in Job |-> IF j = ScriptJob THEN "queued" ELSE "absent"]
  /\ attempts = [j \in Job |-> 0]
  /\ input = [j \in Planning |-> 0]
  /\ stage = [j \in Job |-> "absent"]
  /\ scripts = <<>>
  /\ recoveries = 0
  /\ disowned = {}
  /\ at = [w \in Worker |-> "idle"]
  /\ mine = [w \in Worker |-> Idle]

Goto(w, l) == at' = [at EXCEPT ![w] = l]
Holds(w, j) == at[w] # "idle" /\ mine[w].job = j
J(w) == mine[w].job
Set(f, w, value) == f' = [f EXCEPT ![J(w)] = value]
Leave(w) == Goto(w, "idle") /\ mine' = [mine EXCEPT ![w] = Idle]
Fall(w, l) == Goto(w, l) /\ mine' = [mine EXCEPT ![w].script = 0, ![w].seen = 0, ![w].next = 0]

(***************************************************************************)
(* claimJob(): the next job that is due, with its attempt counted.  The    *)
(* backoff of next_attempt_at has passed whenever the claim comes.         *)
(***************************************************************************)
Claimable(j) == status[j] \in {"queued", "retrying"} /\ attempts[j] < MaxAttempts

ClaimJob(w, j) ==
  /\ at[w] = "idle"
  /\ Claimable(j)
  /\ status' = [status EXCEPT ![j] = "running"]
  /\ attempts' = [attempts EXCEPT ![j] = @ + 1]
  /\ mine' = [mine EXCEPT ![w] = [Idle EXCEPT !.job = j, !.attempts = attempts[j] + 1]]
  /\ Goto(w, "opening")
  /\ UNCHANGED <<input, stage, scripts, recovery>>

(***************************************************************************)
(* ensurePipelineStage(): the rows of pipeline, stage and attempt are made *)
(* or set running again.                                                   *)
(***************************************************************************)
EnsureStage(w) ==
  /\ at[w] = "opening"
  /\ Set(stage, w, IF stage[J(w)] = "completed" THEN "completed" ELSE "running")
  /\ Goto(w, "generating")
  /\ UNCHANGED <<rows, scripts, mine, recovery>>

(***************************************************************************)
(* The call of the language model: generateScript() for a script, and      *)
(* generateProductionPlan() for one whose scenes are read before it.  No   *)
(* answer, or one that is no JSON or fails the validation, is an error.    *)
(***************************************************************************)
GenerateScript(w) ==
  /\ at[w] = "generating" /\ J(w) = ScriptJob
  /\ Goto(w, "saving")
  /\ UNCHANGED <<rows, stage, scripts, mine, recovery>>

GeneratePlan(w) ==
  /\ at[w] = "generating" /\ J(w) \in Planning
  /\ mine' = [mine EXCEPT ![w].script = input[J(w)], ![w].next = 1,
                          ![w].seen = scripts[input[J(w)]].scenes]
  /\ Goto(w, "bible")
  /\ UNCHANGED <<rows, stage, scripts, recovery>>

\* The bible: upserts of cast and locations, which nothing here reads.
PersistPlan(w) ==
  /\ at[w] = "bible"
  /\ Goto(w, "binding")
  /\ UNCHANGED <<rows, stage, scripts, mine, recovery>>

\* persistScenes(): location, prompts and cast of the scenes that were read.
PersistScenes(w) ==
  /\ at[w] = "binding"
  /\ Goto(w, "shots")
  /\ UNCHANGED <<rows, stage, scripts, mine, recovery>>

Refuse(w) ==
  /\ at[w] = "generating"
  /\ Fall(w, "failing")
  /\ UNCHANGED <<rows, stage, scripts, recovery>>

NewScript == [scenes |-> 0, shots |-> 0, required |-> 0, packages |-> 0]

(***************************************************************************)
(* saveScript(): the latest script of this job if it has one, as it is;    *)
(* else a new script, and then its scenes, a statement for each.           *)
(***************************************************************************)
SaveScript(w) ==
  /\ at[w] = "saving"
  /\ IF scripts # <<>>
       THEN /\ mine' = [mine EXCEPT ![w].script = Len(scripts)]
            /\ Goto(w, "queueing")
       ELSE Goto(w, "inserting") /\ UNCHANGED mine
  /\ UNCHANGED <<rows, stage, scripts, recovery>>

InsertScript(w) ==
  /\ at[w] = "inserting"
  /\ scripts' = Append(scripts, NewScript)
  /\ mine' = [mine EXCEPT ![w].script = Len(scripts) + 1]
  /\ Goto(w, "scenes")
  /\ UNCHANGED <<rows, stage, recovery>>

InsertScene(w) ==
  /\ at[w] = "scenes"
  /\ scripts' = [scripts EXCEPT ![mine[w].script].scenes = @ + 1]
  /\ Goto(w, IF scripts[mine[w].script].scenes + 1 < Scenes THEN "scenes" ELSE "queueing")
  /\ UNCHANGED <<rows, stage, mine, recovery>>

\* The end of processScriptGeneration(): a planning job, without a key.
QueuePlanning(w) ==
  /\ at[w] = "queueing"
  /\ \E p \in Planning :
       /\ status[p] = "absent" /\ \A q \in 1 .. p - 1 : status[q] # "absent"
       /\ status' = [status EXCEPT ![p] = "queued"]
       /\ input' = [input EXCEPT ![p] = mine[w].script]
  /\ Goto(w, "closing")
  /\ UNCHANGED <<attempts, stage, scripts, mine, recovery>>

(***************************************************************************)
(* processProductionPlanning(): shots (an upsert each) for the scenes that *)
(* were read before the bible was made, requirements under unique keys for *)
(* the shots there are now, and a pipeline run that waits for approval.    *)
(***************************************************************************)
CreateShot(w) ==
  /\ at[w] = "shots"
  /\ LET s == mine[w].script
         n == mine[w].next
     IN IF n <= mine[w].seen
          THEN /\ scripts' = [scripts EXCEPT ![s].shots = IF n > @ THEN n ELSE @]
               /\ mine' = [mine EXCEPT ![w].next = n + 1]
               /\ UNCHANGED at
          ELSE /\ mine' = [mine EXCEPT ![w].next = 1, ![w].seen = scripts[s].shots]
               /\ Goto(w, "requirements")
               /\ UNCHANGED scripts
  /\ UNCHANGED <<rows, stage, recovery>>

\* After the last key: validateContinuity() wants scenes.
ValidateContinuity(w, s) ==
  /\ IF scripts[s].scenes = 0 THEN Fall(w, "failing")
                              ELSE Goto(w, "packaging") /\ UNCHANGED mine
  /\ UNCHANGED scripts

\* Mistake: ON CONFLICT DO NOTHING, so that each run ends in a package.
CreateRequirementQuiet(w) ==
  /\ at[w] = "requirements"
  /\ LET s == mine[w].script
         n == mine[w].next
     IN IF n > mine[w].seen
          THEN ValidateContinuity(w, s)
          ELSE /\ scripts' = [scripts EXCEPT ![s].required = IF n > @ THEN n ELSE @]
               /\ mine' = [mine EXCEPT ![w].next = n + 1]
               /\ UNCHANGED at
  /\ UNCHANGED <<rows, stage, recovery>>

\* A key that exists is a unique violation.
CreateRequirement(w) ==
  /\ at[w] = "requirements"
  /\ LET s == mine[w].script
         n == mine[w].next
     IN IF n > mine[w].seen
          THEN ValidateContinuity(w, s)
          ELSE IF n <= scripts[s].required
          THEN Fall(w, "failing") /\ UNCHANGED scripts
          ELSE /\ scripts' = [scripts EXCEPT ![s].required = n]
               /\ mine' = [mine EXCEPT ![w].next = n + 1]
               /\ UNCHANGED at
  /\ UNCHANGED <<rows, stage, recovery>>

\* createPipelineRun(): an insert without a key, whatever other runs there are.
CreatePackage(w) ==
  /\ at[w] = "packaging"
  /\ scripts' = [scripts EXCEPT ![mine[w].script].packages = @ + 1]
  /\ Goto(w, "closing")
  /\ UNCHANGED <<rows, stage, mine, recovery>>

(***************************************************************************)
(* The end of processJob(): createArtifact(), its validation and           *)
(* completeStage(); then the job, whatever has become of it meanwhile.     *)
(***************************************************************************)
CompleteStage(w) ==
  /\ at[w] = "closing"
  /\ Set(stage, w, "completed")
  /\ Goto(w, "finishing")
  /\ UNCHANGED <<rows, scripts, mine, recovery>>

\* An error of this statement, the job completed or not, is one of the try block.
CompleteJob(w) ==
  /\ at[w] = "finishing"
  /\ Set(status, w, "completed")
  /\ Leave(w) \/ Fall(w, "failing")
  /\ UNCHANGED <<attempts, input, stage, scripts, recovery>>

(***************************************************************************)
(* An error: the try block of processJob() ends in failJob(), but there is *)
(* none around ensurePipelineStage().                                      *)
(***************************************************************************)
Throw(w) ==
  /\ at[w] \notin {"idle", "generating", "failing", "rethrown"}
  /\ Fall(w, IF at[w] = "opening" THEN "rethrown" ELSE "failing")
  /\ UNCHANGED <<rows, stage, scripts, recovery>>

Retries(w) == mine[w].attempts < MaxAttempts
Failed(w) == IF Retries(w) THEN "retrying" ELSE "dead_letter"

\* The statement of failJob() on the job: not fenced by status or attempt.
FailRow(w) ==
  /\ Set(status, w, Failed(w))
  /\ disowned' = IF attempts[J(w)] # mine[w].attempts   \* claimed again since
                   THEN disowned \cup {J(w)} ELSE disowned

(***************************************************************************)
(* failJob() with the context: attempt and stage, the job, and for the     *)
(* last attempt a dead letter; it may fail after any.                      *)
(***************************************************************************)
FailJob(w) ==
  /\ at[w] = "failing"
  /\ Goto(w, "rethrown")
  /\ \/ UNCHANGED <<stage, status, disowned>>
     \/ /\ Set(stage, w, Failed(w))
        /\ FailRow(w) \/ UNCHANGED <<status, disowned>>
  /\ UNCHANGED <<attempts, input, scripts, mine, recoveries>>

(***************************************************************************)
(* main() fails the job once more, without context: for a job that is to   *)
(* be dead that ends in a TypeError, after its statement.                  *)
(***************************************************************************)
FailAgain(w) ==
  /\ at[w] = "rethrown"
  /\ FailRow(w)
  /\ Leave(w)
  /\ UNCHANGED <<attempts, input, stage, scripts, recoveries>>

Crash(w) ==
  /\ at[w] # "idle"
  /\ Leave(w)
  /\ UNCHANGED <<rows, stage, scripts, recovery>>

\* 001_v2.sql, run again: a job that has been running for 30 minutes.
RecoverStale(j) ==
  /\ status[j] = "running"
  /\ recoveries < MaxRecoveries
  /\ recoveries' = recoveries + 1
  /\ status' = [status EXCEPT ![j] = "retrying"]
  /\ disowned' = IF \E w \in Worker : Holds(w, j) THEN disowned \cup {j} ELSE disowned
  /\ UNCHANGED <<attempts, input, stage, scripts, at, mine>>

Work(w) ==
  \/ EnsureStage(w) \/ GenerateScript(w) \/ GeneratePlan(w) \/ Refuse(w)
  \/ SaveScript(w) \/ InsertScript(w) \/ InsertScene(w) \/ QueuePlanning(w)
  \/ PersistPlan(w) \/ PersistScenes(w) \/ CreateShot(w) \/ CreateRequirement(w)
  \/ CreatePackage(w)
  \/ CompleteStage(w) \/ CompleteJob(w) \/ FailJob(w) \/ FailAgain(w)

Next ==
  \/ \E w \in Worker : (\E j \in Job : ClaimJob(w, j)) \/ Work(w) \/ Throw(w) \/ Crash(w)
  \/ \E j \in Job : RecoverStale(j)

Spec == Init /\ [][Next]_vars
-----------------------------------------------------------------------------
(***************************************************************************)
(* However often planning is queued, retried or run twice at once, a       *)
(* script gets one package that waits for approval, and it is whole: shots *)
(* and requirements for every scene of the script.  The unique keys of the *)
(* requirements stop every later run, and no scene is added behind the     *)
(* back of planning - unless two processes had the script job at once,     *)
(* because it was handed out again by the second, unfenced failJob() of    *)
(* main() or by the recovery of a process that was slow and not dead.  (A  *)
(* plan made before either has inserted a scene has no keys to stop at.)   *)
(***************************************************************************)
OneWholePackage ==
  ScriptJob \notin disowned =>
    \A i \in {k \in DOMAIN scripts : scripts[k].packages > 0} :
      /\ scripts[i].packages = 1
      /\ scripts[i].scenes > 0
      /\ scripts[i].shots = scripts[i].scenes
      /\ scripts[i].required = scripts[i].scenes
=============================================================================
