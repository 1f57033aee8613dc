------------------------------ MODULE FastRender ------------------------------
(***************************************************************************)
(* The FAST master of one production: its row in                           *)
(* v2_6.fast_render_executions, the calls of DurableFastRenderer.render()  *)
(* (src/v2.6/durable-fast-renderer.js) and the tasks of the renderer as    *)
(* the MoneyPrinterTurbo adapter sees them.  A task is named by the call   *)
(* that posted it.  Any statement may fail, made or not, and a call may    *)
(* die anywhere.  The artifact file is whole at once here: MediaExecution  *)
(* has the file that is not.                                               *)
(***************************************************************************)
CONSTANTS Call,     \* calls of render() for the one production
          Worker,   \* worker ids
          WorkerOf, \* the id each call is given
          None

ASSUME WorkerAssumption == WorkerOf \in [Call -> Worker]
ASSUME NoneAssumption == None \notin Call \cup Worker

VARIABLES
  \* the row:
  status, owner, task,
  artifact,  \* the task whose output is the master, or None
  fate,      \* the renderer's side of the task each call posted
  at,        \* where each call stands
  seen,      \* the status it read from the row
  using,     \* the task it follows
  crossed,   \* calls past the boundary, in their own eyes
  answer,    \* the master each call returned
  reviewed,  \* masters registered for review
  holder,    \* history: the call that claimed last
  reset      \* history: RETRYABLE was written over the claim of another call

row == <<status, owner, task>>
local == <<seen, using, crossed>>
history == <<holder, reset>>
vars == <<row, artifact, fate, at, local, answer, reviewed, history>>

Status == {"NOT_STARTED", "RUNNING", "MAY_HAVE_STARTED", "REQUEST_ACCEPTED", "PROCESSING",
           "SUCCEEDED", "RETRYABLE", "NEEDS_RECONCILIATION", "VALIDATION_FAILED", "FAILED"}
AMBIGUOUS == {"MAY_HAVE_STARTED", "REQUEST_ACCEPTED", "PROCESSING", "NEEDS_RECONCILIATION"}
Fate == {"none", "processing", "good", "bad", "failed"}   \* "bad" fails validation
Location == {"idle", "looking", "adopting_cached", "claiming", "marking", "posting",
             "accepting", "polling", "storing", "documenting", "adopting", "registering",
             "refused", "failing", "failing_terminal", "failing_validation", "ended"}

TypeOK ==
  /\ status \in Status
  /\ owner \in Worker \cup {None}
  /\ task \in Call \cup {None}
  /\ artifact \in Call \cup {None}
  /\ fate \in [Call -> Fate]
  /\ at \in [Call -> Location]
  /\ seen \in [Call -> Status]
  /\ using \in [Call -> Call \cup {None}]
  /\ crossed \subseteq Call
  /\ answer \in [Call -> Call \cup {None}]
  /\ reviewed \subseteq Call
  /\ holder \in Call \cup {None}
  /\ reset \in BOOLEAN

Init ==
  /\ status = "NOT_STARTED" /\ owner = None /\ task = None
  /\ artifact = None
  /\ fate = [c \in Call |-> "none"]
  /\ at = [c \in Call |-> "idle"]
  /\ seen = [c \in Call |-> "NOT_STARTED"]
  /\ using = [c \in Call |-> None]
  /\ crossed = {}
  /\ answer = [c \in Call |-> None]
  /\ reviewed = {}
  /\ holder = None
  /\ reset = FALSE

Goto(c, l) == at' = [at EXCEPT ![c] = l]
Mine(c) == owner = WorkerOf[c]
MineOrFree(c) == owner \in {WorkerOf[c], None}

\* ensure(): the row is made if there is none, and read.
Ensure(c) ==
  /\ at[c] = "idle"
  /\ seen' = [seen EXCEPT ![c] = status]
  /\ using' = [using EXCEPT ![c] = task]
  /\ Goto(c, "looking")
  /\ UNCHANGED <<row, artifact, fate, crossed, answer, reviewed, history>>

(***************************************************************************)
(* cached(), then the branch on the status that ensure() read.             *)
(***************************************************************************)
Branch(c) ==
  IF artifact # None THEN "adopting_cached"
  ELSE IF seen[c] = "SUCCEEDED" THEN "ended"     \* FAST_RENDER_ARTIFACT_MISSING
  ELSE IF seen[c] \notin AMBIGUOUS THEN "claiming"
  ELSE IF using[c] = None THEN "refused"         \* FAST_RENDER_STATE_UNRESOLVED
  ELSE "polling"

Look(c) ==
  /\ at[c] = "looking"
  /\ Goto(c, Branch(c))
  /\ crossed' = IF Branch(c) = "polling" THEN crossed \cup {c} ELSE crossed
  /\ UNCHANGED <<row, artifact, fate, seen, using, answer, reviewed, history>>

\* adopt() of the cached master is fenced by nothing; its errors are not caught.
AdoptCached(c) ==
  /\ at[c] = "adopting_cached"
  /\ \/ /\ status' = "SUCCEEDED" /\ owner' = None
        /\ task' = IF using[c] = None THEN task ELSE using[c]
        /\ \/ /\ answer' = [answer EXCEPT ![c] = artifact]
              /\ reviewed' = reviewed \cup {artifact}
           \/ UNCHANGED <<answer, reviewed>>     \* an error of the registration
     \/ UNCHANGED <<row, answer, reviewed>>
  /\ Goto(c, "ended")
  /\ UNCHANGED <<artifact, fate, local, history>>

\* Mistake: an execution in doubt is claimed again.
ClaimableDoubtful == {"NOT_STARTED", "RETRYABLE", "NEEDS_RECONCILIATION"}
Claimable == {"NOT_STARTED", "RETRYABLE"}

\* claim(): of no row the catch block dies on row.id.
Claim(c) ==
  /\ at[c] = "claiming"
  /\ IF status \in Claimable
       THEN /\ status' = "RUNNING" /\ owner' = WorkerOf[c]
            /\ holder' = c
            /\ UNCHANGED task
            /\ Goto(c, "marking") \/ Goto(c, "failing")
       ELSE Goto(c, "ended") /\ UNCHANGED <<row, holder>>
  /\ UNCHANGED <<artifact, fate, local, answer, reviewed, reset>>

ClaimFails(c) ==
  /\ at[c] = "claiming"
  /\ Goto(c, "failing")
  /\ UNCHANGED <<row, artifact, fate, local, answer, reviewed, history>>

MarkBoundary(c) ==
  /\ at[c] = "marking"
  /\ \/ /\ Mine(c) /\ status = "RUNNING"
        /\ status' = "MAY_HAVE_STARTED"
        /\ \/ Goto(c, "posting") /\ crossed' = crossed \cup {c}
           \/ Goto(c, "failing") /\ UNCHANGED crossed
     \/ Goto(c, "failing") /\ UNCHANGED <<status, crossed>>
  /\ UNCHANGED <<owner, task, artifact, fate, seen, using, answer, reviewed, history>>

\* adapter.render(): POST /api/v1/videos; the answer may be lost.
Post(c) ==
  /\ at[c] = "posting"
  /\ \/ /\ fate' = [fate EXCEPT ![c] = "processing"]
        /\ \/ Goto(c, "accepting") /\ using' = [using EXCEPT ![c] = c]
           \/ Goto(c, "failing") /\ UNCHANGED using
     \/ Goto(c, "failing") /\ UNCHANGED <<fate, using>>
  /\ UNCHANGED <<row, artifact, seen, crossed, answer, reviewed, history>>

RecordAccepted(c) ==
  /\ at[c] = "accepting"
  /\ \/ /\ Mine(c) /\ status \in {"MAY_HAVE_STARTED", "REQUEST_ACCEPTED", "PROCESSING"}
        /\ task \in {None, c}
        /\ status' = "REQUEST_ACCEPTED" /\ task' = c
        /\ Goto(c, "polling") \/ Goto(c, "failing")
     \/ Goto(c, "failing") /\ UNCHANGED <<status, task>>
  /\ UNCHANGED <<owner, artifact, fate, local, answer, reviewed, history>>

\* The renderer works on what was posted.
Render(c) ==
  /\ fate[c] = "processing"
  /\ \E f \in {"good", "bad", "failed"} : fate' = [fate EXCEPT ![c] = f]
  /\ UNCHANGED <<row, artifact, at, local, answer, reviewed, history>>

(***************************************************************************)
(* One round of poll(): onStatus records it, for a recovery under no       *)
(* worker id, and then the state of the task decides; or it ends in an     *)
(* error (no answer, a deadline, an output that cannot be downloaded).     *)
(***************************************************************************)
Recovers(c) == using[c] # c
RecordStatus(c) ==
  status' = IF /\ status \in {"REQUEST_ACCEPTED", "PROCESSING", "NEEDS_RECONCILIATION"}
               /\ task = using[c]
               /\ Recovers(c) \/ MineOrFree(c)
              THEN "PROCESSING" ELSE status

Polled(c) ==
  CASE fate[using[c]] = "processing" -> {"polling", "failing"}
    [] fate[using[c]] = "failed" -> {"failing_terminal", "failing"}   \* MPT_TASK_FAILED
    [] OTHER -> {"storing", "failing"}

Poll(c) ==
  /\ at[c] = "polling"
  /\ \/ RecordStatus(c) /\ \E l \in Polled(c) : Goto(c, l)
     \/ Goto(c, "failing") /\ UNCHANGED status
  /\ UNCHANGED <<owner, task, artifact, fate, local, answer, reviewed, history>>

\* Mistakes: an error of the store is passed over; nothing is validated.
StoreUnsure(c) ==
  /\ at[c] = "storing"
  /\ IF fate[using[c]] = "bad"
       THEN Goto(c, "failing_validation") /\ UNCHANGED artifact
       ELSE /\ artifact' = using[c] \/ UNCHANGED artifact
            /\ Goto(c, "documenting")
  /\ UNCHANGED <<row, fate, local, answer, reviewed, history>>
StoreUnvalidated(c) ==
  /\ at[c] = "storing"
  /\ IF artifact \in {None, using[c]}
       THEN artifact' = using[c] /\ Goto(c, "documenting")
       ELSE Goto(c, "failing") /\ UNCHANGED artifact
  /\ UNCHANGED <<row, fate, local, answer, reviewed, history>>

(***************************************************************************)
(* validate(), then createVersion() under the deterministic key: the first *)
(* bytes stay, and others are an idempotency conflict.                     *)
(***************************************************************************)
Store(c) ==
  /\ at[c] = "storing"
  /\ IF fate[using[c]] = "bad"
       THEN Goto(c, "failing_validation") /\ UNCHANGED artifact
       ELSE \/ /\ artifact \in {None, using[c]}
               /\ artifact' = using[c]
               /\ Goto(c, "documenting") \/ Goto(c, "failing")
            \/ Goto(c, "failing") /\ UNCHANGED artifact
  /\ UNCHANGED <<row, fate, local, answer, reviewed, history>>

\* The provenance, which may conflict with that of an earlier call.
Document(c) ==
  /\ at[c] = "documenting"
  /\ Goto(c, "adopting") \/ Goto(c, "failing")
  /\ UNCHANGED <<row, artifact, fate, local, answer, reviewed, history>>

Adopt(c) ==
  /\ at[c] = "adopting"
  /\ \/ /\ MineOrFree(c)
        /\ status' = "SUCCEEDED" /\ owner' = None /\ task' = using[c]
        /\ Goto(c, "registering") \/ Goto(c, "failing")
     \/ Goto(c, "failing") /\ UNCHANGED row
  /\ UNCHANGED <<artifact, fate, local, answer, reviewed, history>>

Register(c) ==
  /\ at[c] = "registering"
  /\ \/ /\ reviewed' = reviewed \cup {using[c]}
        /\ \/ answer' = [answer EXCEPT ![c] = using[c]] /\ Goto(c, "ended")
           \/ Goto(c, "failing") /\ UNCHANGED answer
     \/ Goto(c, "failing") /\ UNCHANGED <<reviewed, answer>>
  /\ UNCHANGED <<row, artifact, fate, local, history>>

(***************************************************************************)
(* markFailure(): the status comes from what the call knows, the fence is  *)
(* the owner, gone or the same; its own errors are swallowed.              *)
(***************************************************************************)
FailureStatus(c) ==
  CASE at[c] = "failing_validation" -> "VALIDATION_FAILED"
    [] at[c] = "failing_terminal" -> "FAILED"
    [] c \in crossed -> "NEEDS_RECONCILIATION"
    [] OTHER -> "RETRYABLE"

Overwrites(c) ==
  /\ FailureStatus(c) = "RETRYABLE" /\ holder # c
  /\ status \notin {"NOT_STARTED", "RETRYABLE"}
MarksFailure(c) ==
  at[c] \in {"failing", "failing_terminal", "failing_validation", "refused"}

MarkFailure(c) ==
  /\ MarksFailure(c)
  /\ \/ /\ MineOrFree(c)
        /\ status' = FailureStatus(c) /\ owner' = None
        /\ reset' = (reset \/ Overwrites(c))
     \/ UNCHANGED <<status, owner, reset>>
  /\ Goto(c, "ended")
  /\ UNCHANGED <<task, artifact, fate, local, answer, reviewed, holder>>

Crash(c) ==
  /\ at[c] \notin {"idle", "ended"}
  /\ Goto(c, "ended")
  /\ UNCHANGED <<row, artifact, fate, local, answer, reviewed, history>>

Step(c) ==
  \/ Ensure(c) \/ Look(c) \/ AdoptCached(c) \/ Claim(c) \/ ClaimFails(c) \/ MarkBoundary(c) \/ Post(c)
  \/ RecordAccepted(c) \/ Poll(c) \/ Store(c) \/ Document(c) \/ Adopt(c) \/ Register(c)
  \/ MarkFailure(c)

Next == \E c \in Call : Step(c) \/ Crash(c) \/ Render(c)

Spec == Init /\ [][Next]_vars
-----------------------------------------------------------------------------
(***************************************************************************)
(* Migration 20260824, line 2: an execution that may have reached the      *)
(* renderer is never reset.  So what can be claimed, or is claimed and not *)
(* marked, has no task, and the renderer gets one task, however calls      *)
(* fail, die and follow each other - unless a call that was refused, or    *)
(* failed before its boundary, has made the claim of another RETRYABLE.    *)
(***************************************************************************)
OneTaskUnlessReset ==
  ~reset =>
    /\ \A c, d \in Call : fate[c] # "none" /\ fate[d] # "none" => c = d
    /\ status \in {"NOT_STARTED", "RETRYABLE", "RUNNING"} =>
         \A c \in Call : fate[c] = "none"

(***************************************************************************)
(* A master is in front of a reviewer, or a row SUCCEEDED, only with the   *)
(* artifact stored and its output valid; a second task changes neither.    *)
(***************************************************************************)
ReviewedIsStored ==
  /\ \A c \in reviewed : c = artifact
  /\ status = "SUCCEEDED" => artifact # None
  /\ artifact # None => fate[artifact] = "good"

\* What render() promises of the master, whoever asks: ImmutableArtifact.
Promise == INSTANCE ImmutableArtifact WITH
             Client <- Call, Value <- Call, value <- artifact, answer <- answer
ImplementsPromise == Promise!Spec
=============================================================================
