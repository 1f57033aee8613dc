--------------------------- MODULE ShotRegeneration ---------------------------
(***************************************************************************)
(* One production under the operator's hands: its job is run, fails, has a *)
(* shot regenerated or its evidence evaluated again, and continues.        *)
(*                                                                         *)
(* Three kinds of actor share the row of the job, the rows of              *)
(* v2_7.shot_regenerations and the durable media:                          *)
(*   - the run() of the job, started, retried or continued from the console *)
(*     (its own steps are LiveProduction's; here it renders and ends);     *)
(*   - the calls of regenerateShot(), each with a preflight of its own and *)
(*     an execution scheduled behind its answer                            *)
(*     (src/v2.7/production-command-service.js);                           *)
(*   - the calls of recover(), which evaluate the failed bytes again       *)
(*     (src/v2.10.1/quality-recovery-service.js).                          *)
(* A statement is a step.  The plan of a regeneration, which the preflight *)
(* hashes, is its shot, its kind, its number and the revision it edits.    *)
(* A video is named by the request that asked for it; the first video of   *)
(* every shot is Original.  MediaExecution says how a video is paid once.  *)
(***************************************************************************)
EXTENDS Naturals, FiniteSets

CONSTANTS Shot,       \* shot_id of the production
          Request,    \* requestId the operators send
          Call,       \* calls of regenerateShot()
          RequestOf,  \* the request of each call
          Recovery,   \* calls of recover()
          MaxRuns,    \* bound: runs of the job
          None

ASSUME RequestAssumption == RequestOf \in [Call -> Request]
ASSUME NoneAssumption == None \notin Request \cup Recovery
ASSUME RecoveryAssumption == Request \cap Recovery = {} /\ Call \cap Recovery = {}
ASSUME FiniteAssumption == IsFiniteSet(Request) /\ MaxRuns \in Nat

VARIABLES
  aware,    \* the input names V2.10 references: V210ReferenceAwareMediaExecutor runs it
  job,      \* status of the row of v2_1.jobs
  error,    \* its error: the failed shot and what is wrong with it
  payload,  \* its payload: the last recovery recorded in it under each key
  scheduled, \* runs behind an answer of the console that have not begun
  runs,     \* how often run() has claimed the job
  shown,    \* what the master of the run shows for each shot
  row,      \* v2_7.shot_regenerations, by request
  latest,   \* the row SUCCEEDED with the last completed_at
  media,    \* v2_5.media_executions, by shot and name
  pc,       \* where each call stands
  plan,     \* the plan each call has had confirmed
  seen,     \* the error each call has read with the job
  paid,     \* history: the requests whose video was paid for
  passed,   \* history: the requests whose video passed the evaluation
  stale,    \* history: rows inserted with a plan that another revision has overtaken
  crashed   \* history: the requests whose call died

jobVars == <<aware, job, error, payload, scheduled, runs, shown>>
rowVars == <<row, latest>>
local == <<pc, plan, seen>>
history == <<paid, passed, stale, crashed>>
vars == <<jobVars, rowVars, media, local, history>>

Original == None
Kind == {"NORMAL", "GEOMETRY", "CREATIVE"}
Bounded == {"GEOMETRY", "CREATIVE"}  \* BOUNDED_SOURCE_RECOVERY_KINDS

\* geometryRecovery, sourceRecovery and qualityRecovery: one key each, and a record
\* replaces the one before it, also that of another shot.
Slot == Bounded \cup {"QUALITY"}

\* DIRECT: PROVIDER_OUTPUT_GEOMETRY_MISMATCH as the error of the job; GEOMETRY,
\* CREATIVE and EVIDENCE: SOURCE_QUALITY_VALIDATION_FAILED with one failed shot.
QualityClass == {"GEOMETRY", "CREATIVE", "EVIDENCE"}
NoError == [class |-> "NONE", shot |-> None]
Error == {NoError, [class |-> "OTHER", shot |-> None], [class |-> "RECOVERED", shot |-> None]}
         \cup [class : QualityClass \cup {"DIRECT"}, shot : Shot]

Lineage == [Shot -> Request \cup {Original}]  \* the video a canonical input names
NoPlan == [shot |-> None, kind |-> "NORMAL", no |-> 0, base |-> [s \in Shot |-> Original]]
Absent == [status |-> "ABSENT", plan |-> NoPlan]

Active == {"PREPARED", "RUNNING", "RETRYING"}  \* NEEDS_RECONCILIATION is never written
Video == Shot \X (Request \cup {Original})
Caller == Call \cup Recovery

\* The canonical input of a row, once its shot shows the replacement.
Revised(r) == [row[r].plan.base EXCEPT ![row[r].plan.shot] = r]
\* Mistake: every revision were built from the input the production started with.
CurrentForgets == [s \in Shot |-> Original]
Current == IF latest = None THEN [s \in Shot |-> Original] ELSE Revised(latest)

Rows(s) == {r \in Request : row[r].status # "ABSENT" /\ row[r].plan.shot = s}
\* Mistake: revisions were numbered in the production, not in the shot.
NextNumberAcross(s) == 1 + Cardinality({r \in Request : row[r].status # "ABSENT"})
NextNumber(s) == 1 + Cardinality(Rows(s))
SourceOf(p) == p.base[p.shot]
Ambiguous == \E v \in Video : media[v] = "DOUBT"

Init ==
  /\ aware \in BOOLEAN
  /\ job = "QUEUED" /\ error = NoError /\ payload = [k \in Slot |-> None] /\ scheduled = 0 /\ runs = 0
  /\ shown = [s \in Shot |-> Original]
  /\ row = [r \in Request |-> Absent] /\ latest = None
  /\ media = [v \in Video |-> "NONE"]
  /\ pc = [c \in Caller |-> "IDLE"]
  /\ plan = [c \in Call |-> NoPlan]
  /\ seen = [c \in Caller |-> NoError]
  /\ paid = {} /\ passed = {} /\ stale = {} /\ crashed = {}

Goto(c, place) == pc' = [pc EXCEPT ![c] = place]

\* A call that is scheduled works from its row; one that is done knows nothing more.
Move(c, place) ==
  /\ Goto(c, place)
  /\ IF place \in {"SCHEDULED", "DONE"}
     THEN plan' = [plan EXCEPT ![c] = NoPlan] /\ seen' = [seen EXCEPT ![c] = NoError]
     ELSE UNCHANGED <<plan, seen>>
SetStatus(r, s) == row' = [row EXCEPT ![r].status = s]

-----------------------------------------------------------------------------
\* The run of the job.

\* latestReplacement(): the automatic replacement of the first video of a shot.
\* Mistake: the executor still knew geometry recoveries alone.
ReplacementsOfGeometry(s) == {r \in Request : /\ row[r].status = "SUCCEEDED"
                                              /\ row[r].plan.kind = "GEOMETRY"
                                              /\ row[r].plan.shot = s
                                              /\ SourceOf(row[r].plan) = Original}
Replacements(s) == {r \in Request : /\ row[r].status = "SUCCEEDED"
                                    /\ row[r].plan.kind \in Bounded
                                    /\ row[r].plan.shot = s
                                    /\ SourceOf(row[r].plan) = Original}
\* The plain executor asks for the video of the input and knows no replacement.
Shown(s) == IF ~aware \/ Replacements(s) = {} THEN {Original}
            ELSE {r \in Replacements(s) : \A q \in Replacements(s) : row[q].plan.no <= row[r].plan.no}

\* The answer to the operator precedes the run, which nothing binds to what was read here.
Schedule == scheduled + runs < MaxRuns /\ scheduled' = scheduled + 1

\* start() of a job that is QUEUED, retry() of one that is RETRYING.
StartOrRetry ==
  /\ job \in {"QUEUED", "RETRYING"} /\ ~Ambiguous
  /\ Schedule
  /\ UNCHANGED <<aware, job, error, payload, runs, shown, rowVars, media, local, history>>

\* continueRecoveredV210(), for a STARTED V2.10 draft: a recovery is recorded, and the
\* job is RETRYING whatever has put it there since.
Continue ==
  /\ aware /\ job = "RETRYING" /\ ~Ambiguous
  /\ \E k \in Slot : payload[k] # None
  /\ Schedule
  /\ UNCHANGED <<aware, job, error, payload, runs, shown, rowVars, media, local, history>>

\* The claim of a run, or its refusal.  No automatic replacement succeeds while the
\* job is RUNNING: what the executor finds for each shot is settled here.
ClaimRun ==
  /\ scheduled > 0 /\ scheduled' = scheduled - 1
  /\ IF job \in {"QUEUED", "RETRYING"}
     THEN /\ job' = "RUNNING" /\ runs' = runs + 1
          /\ shown' \in {f \in Lineage : \A s \in Shot : f[s] \in Shown(s)}
     ELSE UNCHANGED <<job, runs, shown>>
  /\ UNCHANGED <<aware, error, payload, rowVars, media, local, history>>

\* The videos the run has to pay for: those nobody has generated.
Missing == {s \in Shot : shown[s] = Original /\ media[<<s, Original>>] = "NONE"}
AllShown == \A s \in Shot : media[<<s, shown[s]>>] \in {"NONE", "DONE"}
GenerateAll ==
  /\ AllShown
  /\ media' = [v \in Video |-> IF v \in Missing \X {Original} THEN "DONE" ELSE media[v]]

\* The master passes, or one of its shots fails source quality.
CompleteRun ==
  /\ job = "RUNNING" /\ GenerateAll
  /\ job' = "COMPLETED"
  /\ UNCHANGED <<aware, error, payload, scheduled, runs, shown, rowVars, local, history>>

FailQuality(s, class) ==
  /\ job = "RUNNING" /\ GenerateAll
  /\ job' = "FAILED" /\ error' = [class |-> class, shot |-> s]
  /\ UNCHANGED <<aware, payload, scheduled, runs, shown, rowVars, local, history>>

\* Every other failure of a run with durable media leaves the job RETRYING: a
\* video of the wrong shape, one that may have been paid for, or any error.
FailVideo(s, fate) ==
  /\ job = "RUNNING" /\ s \in Missing
  /\ media' = [media EXCEPT ![<<s, Original>>] = fate]
  /\ job' = "RETRYING"
  /\ error' = IF fate = "DEAD" THEN [class |-> "DIRECT", shot |-> s]
              ELSE [class |-> "OTHER", shot |-> None]
  /\ UNCHANGED <<aware, payload, scheduled, runs, shown, rowVars, local, history>>

FailRun ==
  /\ job = "RUNNING"
  /\ job' = "RETRYING" /\ error' = [class |-> "OTHER", shot |-> None]
  /\ UNCHANGED <<aware, payload, scheduled, runs, shown, rowVars, media, local, history>>

-----------------------------------------------------------------------------
\* The calls of regenerateShot().

Allowed == job \notin {"RUNNING", "QUEUED"} /\ ~Ambiguous

\* geometryFailureForShot() and creativeFailureForShot(): the error must name the
\* video the current input shows, and no automatic attempt may be recorded for it.
Applicable(p, e) ==
  \/ p.kind = "NORMAL"
  \/ /\ e.shot = p.shot /\ SourceOf(p) = Original
     /\ p.kind = "GEOMETRY" => e.class \in {"GEOMETRY", "DIRECT"}
     /\ p.kind = "CREATIVE" => e.class = "CREATIVE"

\* Mistake: an attempt that failed did not count.
AttemptsAlive(p) == {r \in Rows(p.shot) : /\ row[r].plan.kind = p.kind
                                          /\ SourceOf(row[r].plan) = SourceOf(p)
                                          /\ row[r].status # "FAILED"}
Attempts(p) == {r \in Rows(p.shot) : /\ row[r].plan.kind = p.kind
                                     /\ SourceOf(row[r].plan) = SourceOf(p)}

\* The shots of the input to be executed: a source recovery projects the others away.
Projected(p) == IF p.kind \in Bounded THEN {p.shot} ELSE Shot

\* prepareShotRegeneration() from latestShotRevision() on.  The input to be executed
\* must need one new video and no more.
Preparable(p, e) ==
  /\ p.base = Current /\ p.no = NextNumber(p.shot)
  /\ Applicable(p, e)
  /\ p.kind \in Bounded => Attempts(p) = {}
  /\ \A s \in Projected(p) \ {p.shot} : media[<<s, p.base[s]>>] = "DONE"

PlanFor(s, kind) == [shot |-> s, kind |-> kind, no |-> NextNumber(s), base |-> Current]

Preflight(c, s, kind) ==
  /\ pc[c] = "IDLE" /\ Allowed /\ Preparable(PlanFor(s, kind), error)
  /\ plan' = [plan EXCEPT ![c] = PlanFor(s, kind)]
  /\ Goto(c, "CONFIRMED")
  /\ UNCHANGED <<jobVars, rowVars, media, seen, history>>

\* What a request already recorded means to the call that finds it.
Known(c, r) ==
  CASE row[r].plan # plan[c] -> "DONE"
    [] row[r].status \in {"SUCCEEDED", "RUNNING"} -> "DONE"
    [] OTHER -> "SCHEDULED"

\* getShotRegenerationByRequest(): an automatic attempt is never taken up again.
Look(c) ==
  LET r == RequestOf[c] IN
  /\ pc[c] = "CONFIRMED"
  /\ Move(c, CASE row[r].status = "ABSENT" -> "NEW"
               [] row[r].plan.kind \in Bounded -> "DONE"
               [] OTHER -> Known(c, r))
  /\ UNCHANGED <<jobVars, rowVars, media, history>>

ReadJob(c) ==
  /\ pc[c] = "NEW"
  /\ IF job \in {"RUNNING", "QUEUED"}
     THEN Move(c, "DONE")
     ELSE seen' = [seen EXCEPT ![c] = error] /\ Goto(c, "READ") /\ UNCHANGED plan
  /\ UNCHANGED <<jobVars, rowVars, media, history>>

ReadSafety(c) ==
  /\ pc[c] = "READ"
  /\ Move(c, IF Ambiguous THEN "DONE" ELSE "SAFE")
  /\ UNCHANGED <<jobVars, rowVars, media, history>>

\* PREFLIGHT_STALE unless the plan is still the confirmed one.
Prepare(c) ==
  /\ pc[c] = "SAFE"
  /\ Move(c, IF Preparable(plan[c], seen[c]) THEN "PREPARED" ELSE "DONE")
  /\ UNCHANGED <<jobVars, rowVars, media, history>>

\* The unique indexes of v2_7.shot_regenerations.
Insertable(p) ==
  /\ \A q \in Request : row[q].status \notin Active
  /\ \A q \in Rows(p.shot) : row[q].plan.no # p.no
  /\ p.kind \in Bounded => Attempts(p) = {}

Ensure(c) ==
  LET r == RequestOf[c]
      inserted == row[r].status = "ABSENT" /\ Insertable(plan[c])
  IN
  /\ pc[c] = "PREPARED"
  /\ row' = IF inserted THEN [row EXCEPT ![r] = [status |-> "PREPARED", plan |-> plan[c]]] ELSE row
  /\ Move(c, IF inserted THEN "SCHEDULED"
             ELSE IF row[r].status = "ABSENT" THEN "DONE" ELSE Known(c, r))
  /\ stale' = IF inserted /\ plan[c].base # Current THEN stale \cup {r} ELSE stale
  /\ UNCHANGED <<jobVars, latest, media, paid, passed, crashed>>

\* Mistake: a row could be claimed while it is executed.
ClaimableRunning(r) == row[r].status \in Active
Claimable(r) == row[r].status \in {"PREPARED", "RETRYING"}

Claim(c) ==
  LET r == RequestOf[c] IN
  /\ pc[c] = "SCHEDULED"
  /\ IF Claimable(r) THEN SetStatus(r, "RUNNING") /\ Goto(c, "CLAIMED")
                     ELSE UNCHANGED row /\ Goto(c, "DONE")
  /\ UNCHANGED <<jobVars, latest, media, plan, seen, history>>

PlanOf(c) == row[RequestOf[c]].plan
VideoOf(c) == <<PlanOf(c).shot, RequestOf[c]>>

\* boundedSourceRecoveryPlan(): the plan of a source recovery counts one new video.
OneNewVideo(c) == PlanOf(c).kind \in Bounded => media[VideoOf(c)] = "NONE"

\* prepareRevision() and the media executor: a video in doubt or refused is an error;
\* a generated one is used again.
Generate(c) ==
  LET v == VideoOf(c) IN
  /\ pc[c] = "CLAIMED"
  /\ \/ /\ media[v] = "NONE"
        /\ media' = [media EXCEPT ![v] = "DOUBT"] /\ paid' = paid \cup {RequestOf[c]} /\ Goto(c, "PAID")
     \/ /\ media[v] = "DONE" /\ OneNewVideo(c)
        /\ Goto(c, "GENERATED") /\ UNCHANGED <<media, paid>>
     \/ Goto(c, "FAILING") /\ UNCHANGED <<media, paid>>
  /\ UNCHANGED <<jobVars, rowVars, plan, seen, passed, stale, crashed>>

\* The video is stored, has the wrong shape, or its answer is lost.
Answer(c, fate) ==
  /\ pc[c] = "PAID"
  /\ media' = [media EXCEPT ![VideoOf(c)] = fate]
  /\ Goto(c, CASE fate = "DONE" -> "GENERATED" [] fate = "DEAD" -> "MISSHAPEN" [] OTHER -> "FAILING")
  /\ UNCHANGED <<jobVars, rowVars, plan, seen, history>>

\* The visual evaluation of a source recovery; the master of a revision.
Judge(c) ==
  /\ pc[c] = "GENERATED"
  /\ \/ Goto(c, "PASSED") /\ passed' = passed \cup {RequestOf[c]}
     \/ Goto(c, "FAILING") /\ UNCHANGED passed
  /\ UNCHANGED <<jobVars, rowVars, media, plan, seen, paid, stale, crashed>>

CompleteRevision(c) ==
  LET r == RequestOf[c] IN
  /\ pc[c] = "PASSED" /\ PlanOf(c).kind = "NORMAL"
  /\ IF row[r].status = "RUNNING" THEN SetStatus(r, "SUCCEEDED") /\ latest' = r
                                  ELSE UNCHANGED rowVars
  /\ Goto(c, "DONE")
  /\ UNCHANGED <<jobVars, media, plan, seen, history>>

\* The job a source recovery may resume.
Resumable == job = "FAILED"

\* Mistake: the row were completed by a statement of its own.
CompleteSourceApart(c) ==
  LET r == RequestOf[c] IN
  /\ pc[c] = "PASSED" /\ PlanOf(c).kind \in Bounded
  /\ IF row[r].status = "RUNNING" THEN SetStatus(r, "SUCCEEDED") /\ latest' = r
                                  ELSE UNCHANGED rowVars
  /\ IF Resumable
     THEN /\ job' = "RETRYING" /\ error' = [class |-> "RECOVERED", shot |-> None]
          /\ payload' = [payload EXCEPT ![PlanOf(c).kind] = r]
          /\ Goto(c, "DONE")
     ELSE UNCHANGED <<job, error, payload>> /\ Goto(c, "FAILING")
  /\ UNCHANGED <<aware, scheduled, runs, shown, media, plan, seen, history>>

\* completeSourceRecovery(): the row and the job in one transaction, or neither.
CompleteSource(c) ==
  LET r == RequestOf[c] IN
  /\ pc[c] = "PASSED" /\ PlanOf(c).kind \in Bounded
  /\ IF row[r].status = "RUNNING" /\ Resumable
     THEN /\ SetStatus(r, "SUCCEEDED") /\ latest' = r
          /\ job' = "RETRYING" /\ error' = [class |-> "RECOVERED", shot |-> None]
          /\ payload' = [payload EXCEPT ![PlanOf(c).kind] = r]
          /\ Goto(c, "DONE")
     ELSE UNCHANGED <<rowVars, job, error, payload>> /\ Goto(c, "FAILING")
  /\ UNCHANGED <<aware, scheduled, runs, shown, media, plan, seen, history>>

\* failShotRegeneration().
FailureStatus(c) ==
  IF PlanOf(c).kind \in Bounded \/ pc[c] = "MISSHAPEN" THEN "FAILED" ELSE "RETRYING"

Fail(c) ==
  LET r == RequestOf[c] IN
  /\ pc[c] \in {"FAILING", "MISSHAPEN"}
  /\ IF row[r].status = "RUNNING" THEN SetStatus(r, FailureStatus(c)) ELSE UNCHANGED row
  /\ Goto(c, "DONE")
  /\ UNCHANGED <<jobVars, latest, media, plan, seen, history>>

\* The server dies, or the statement that records a failure fails.
Executing == {"SCHEDULED", "CLAIMED", "PAID", "GENERATED", "PASSED", "FAILING", "MISSHAPEN"}
Crash(c) ==
  /\ pc[c] \in Executing
  /\ Goto(c, "DEAD") /\ crashed' = crashed \cup {RequestOf[c]}
  /\ UNCHANGED <<jobVars, rowVars, media, plan, seen, paid, passed, stale>>

-----------------------------------------------------------------------------
\* The calls of recover().

\* inspect(): one failed shot whose bytes may be evaluated again.
Inspect(q) ==
  /\ pc[q] = "IDLE" /\ job = "FAILED" /\ error.class = "EVIDENCE" /\ ~Ambiguous
  /\ media[<<error.shot, Original>>] = "DONE"
  /\ seen' = [seen EXCEPT ![q] = error]
  /\ Goto(q, "READ")
  /\ UNCHANGED <<jobVars, rowVars, media, plan, history>>

\* The transaction behind the evaluation: it asks for a failed source, not for the
\* one that was evaluated.
Persist(q, verdict) ==
  /\ pc[q] = "READ"
  /\ Goto(q, "DONE") /\ seen' = [seen EXCEPT ![q] = NoError]
  /\ IF job = "FAILED" /\ error.class \in QualityClass
     THEN IF verdict = "ACCEPT"
          THEN /\ job' = "RETRYING" /\ error' = [class |-> "RECOVERED", shot |-> None]
               /\ payload' = [payload EXCEPT !["QUALITY"] = q]
          ELSE /\ job' = job /\ error' = [class |-> verdict, shot |-> seen[q].shot]
               /\ payload' = [payload EXCEPT !["QUALITY"] = None]
     ELSE UNCHANGED <<job, error, payload>>
  /\ UNCHANGED <<aware, scheduled, runs, shown, rowVars, media, plan, history>>

-----------------------------------------------------------------------------
RunStep ==
  \/ StartOrRetry \/ Continue \/ ClaimRun \/ CompleteRun \/ FailRun
  \/ \E s \in Shot : \/ \E class \in QualityClass : FailQuality(s, class)
                     \/ \E fate \in {"DEAD", "DOUBT"} : FailVideo(s, fate)
Execute(c) ==
  \/ Claim(c) \/ Generate(c) \/ Judge(c) \/ CompleteRevision(c) \/ CompleteSource(c) \/ Fail(c)
  \/ \E fate \in {"DONE", "DEAD", "DOUBT"} : Answer(c, fate)
Confirm(c) == Look(c) \/ ReadJob(c) \/ ReadSafety(c) \/ Prepare(c) \/ Ensure(c)
Operate(c) == \E s \in Shot, kind \in Kind : Preflight(c, s, kind)
Recover(q) == Inspect(q) \/ \E verdict \in {"ACCEPT"} \cup QualityClass : Persist(q, verdict)

Next ==
  \/ RunStep
  \/ \E c \in Call : Operate(c) \/ Confirm(c) \/ Execute(c) \/ Crash(c)
  \/ \E q \in Recovery : Recover(q)

Spec == Init /\ [][Next]_vars

-----------------------------------------------------------------------------
Places == {"IDLE", "CONFIRMED", "NEW", "READ", "SAFE", "PREPARED", "DONE", "DEAD"} \cup Executing
Plan == [shot : Shot \cup {None}, kind : Kind, no : 0..1 + Cardinality(Request), base : Lineage]
RowStatus == {"ABSENT", "SUCCEEDED", "FAILED"} \cup Active

\* Every variable has the values the two tables, the calls and their histories allow;
\* a row is numbered in its shot without gaps.
TypeOK ==
  /\ job \in {"QUEUED", "RUNNING", "RETRYING", "FAILED", "COMPLETED"}
  /\ aware \in BOOLEAN /\ error \in Error
  /\ payload \in [Slot -> Request \cup Recovery \cup {None}]
  /\ scheduled \in 0..MaxRuns /\ runs \in 0..MaxRuns
  /\ shown \in Lineage
  /\ row \in [Request -> [status : RowStatus, plan : Plan]]
  /\ \A s \in Shot : {row[r].plan.no : r \in Rows(s)} = 1..Cardinality(Rows(s))
  /\ latest \in Request \cup {None}
  /\ media \in [Video -> {"NONE", "DOUBT", "DONE", "DEAD"}]
  /\ pc \in [Caller -> Places] /\ plan \in [Call -> Plan] /\ seen \in [Caller -> Error]
  /\ paid \subseteq Request /\ passed \subseteq paid /\ stale \subseteq Request
  /\ crashed \subseteq Request

\* A row that is RUNNING has exactly one call that will end it, and a row that is not
\* has none: two confirmations of one request, or a request found again, never
\* execute it twice, and nothing but a death leaves it RUNNING (and with it the
\* production closed to every other regeneration).
Working == {"CLAIMED", "PAID", "GENERATED", "PASSED", "FAILING", "MISSHAPEN"}
ExecutedByOne ==
  \A r \in Request \ crashed :
    Cardinality({c \in Call : RequestOf[c] = r /\ pc[c] \in Working})
      = IF row[r].status = "RUNNING" THEN 1 ELSE 0

\* The job and the rows of the automatic replacements say the same: a key of the
\* payload names a replacement of its kind that was accepted, with a stored video that
\* passed; a kind that has one is named; and what succeeded last is not overwritten.
Accepted == {r \in Request : row[r].status = "SUCCEEDED" /\ row[r].plan.kind \in Bounded}
ResumedTogether ==
  /\ \A k \in Bounded : payload[k] # None => payload[k] \in Accepted /\ row[payload[k]].plan.kind = k
  /\ \A r \in Accepted : /\ payload[row[r].plan.kind] # None
                         /\ media[<<row[r].plan.shot, r>>] = "DONE" /\ r \in passed
  /\ latest \in Accepted => payload[row[latest].plan.kind] = latest

\* The automatic route pays for one replacement of a source and a kind, however many
\* requests and confirmations are sent at once.
OneAutomaticReplacement ==
  \A r, q \in paid :
    /\ row[r].plan.kind \in Bounded /\ row[q].plan.kind = row[r].plan.kind
    /\ row[q].plan.shot = row[r].plan.shot
    /\ SourceOf(row[q].plan) = SourceOf(row[r].plan)
    => q = r

\* Revisions build on one another: the current input of the production shows, for every
\* shot, its last successful replacement, unless a row was inserted with a plan that a
\* revision had overtaken since it was made.
Successful(s) == {r \in Rows(s) : row[r].status = "SUCCEEDED"}
RevisionsAccumulateUnlessStale ==
  stale = {} =>
    \A s \in Shot : \A r \in Successful(s) :
      /\ Current[s] # Original
      /\ row[Current[s]].plan.no >= row[r].plan.no

\* Where the executor knows replacements, the master of a completed job shows every
\* accepted automatic replacement of a first video, or one accepted after it: none that
\* was paid for is left out by the run that continued, although the payload has
\* forgotten it.  Two of one shot take a row inserted with a plan that was overtaken.
MasterShowsReplacements ==
  aware /\ job = "COMPLETED" => \A r \in Accepted :
    LET s == row[r].plan.shot IN
    SourceOf(row[r].plan) = Original =>
      /\ shown[s] \in Accepted /\ row[shown[s]].plan.no >= row[r].plan.no
      /\ stale = {} => shown[s] = r
=============================================================================
