--------------------------- MODULE MasterProduction ---------------------------
(***************************************************************************)
(* The QUALITY lane: an operator's input becomes scenes, shots and assets  *)
(* (src/v2.5/production-input.js), the plan is checked before anything is  *)
(* paid for, every asset is generated and judged, and the master is        *)
(* assembled, rendered, validated and registered for review                *)
(* (worker/v2.1-master-production.js, run by src/v2.4/live-production-     *)
(* service.js for an input of schema version 2 or later).                  *)
(*                                                                         *)
(* One production and its job; each Run is a call of run() under a worker  *)
(* id of its own.  Texts, prompts and measurements are left out: of the    *)
(* plan the model keeps the durations, of the media how long they really   *)
(* are, of an evaluation its verdict (WARN counts as PASS, as in the code).*)
(* A file that was stored stays as it is (MediaExecution is about that);   *)
(* the production's row is the subject of LiveProduction.                  *)
(*                                                                         *)
(* Durations an operator gives are numbers of seconds; here they are in    *)
(* tenths of a millisecond, so that rounding happens.                      *)
(***************************************************************************)
EXTENDS Integers, Sequences, FiniteSets, Functions

CONSTANTS Inputs,     \* operators' inputs, see InputType
          Durations,  \* how long, in ms, a delivered file may be
          Run,        \* calls of LiveProductionService.run
          None

InputType == [shots  : Seq([scene : Nat, length : Nat, frames : Nat, fps : Nat \ {0}]),
              scenes : Seq(Nat),
              target : Nat,
              voice  : BOOLEAN]

ASSUME InputsAssumption == Inputs \subseteq InputType
ASSUME DurationsAssumption == Durations \subseteq Nat \ {0}
ASSUME NoneAssumption == None \notin Run \cup Durations
-----------------------------------------------------------------------------
Distance(m, n) == IF m < n THEN n - m ELSE m - n
Total(f, S) == FoldFunctionOnSet(+, 0, f, S)

\* Math.round(x * 1000) of a number of seconds.
RoundedMs(tenths) == (tenths + 5) \div 10

Shots(in) == DOMAIN in.shots
ShotsOf(in, k) == {s \in Shots(in) : in.shots[s].scene = k}
Lengths(in) == [s \in Shots(in) |-> in.shots[s].length]

(***************************************************************************)
(* buildProductionInput(): the shots of a scene add up to the scene within *)
(* 0.05 s, and the scenes to the target within 0.25 s.                     *)
(***************************************************************************)
SceneAccepted(in, k) ==
  /\ in.scenes[k] > 0
  /\ ShotsOf(in, k) # {}
  /\ \A s \in ShotsOf(in, k) : in.shots[s].length > 0
  /\ Distance(Total(Lengths(in), ShotsOf(in, k)), in.scenes[k]) <= 500

Accepted(in) ==
  /\ in.scenes # <<>>
  /\ in.target > 0
  /\ \A s \in Shots(in) : in.shots[s].scene \in DOMAIN in.scenes
  /\ \A k \in DOMAIN in.scenes : SceneAccepted(in, k)
  /\ Distance(Total(in.scenes, DOMAIN in.scenes), in.target) <= 2500

(***************************************************************************)
(* The input that the console makes of a target of d seconds (planCreative *)
(* and buildRawInput of src/v2.7): one scene and shot per five seconds or  *)
(* less, all of one length.                                                *)
(***************************************************************************)
OperatorInput(d, frames, fps) ==
  LET count  == (d + 4) \div 5
      length == (10000 * d) \div count
  IN [shots  |-> [s \in 1..count |->
                    [scene |-> s, length |-> length, frames |-> frames, fps |-> fps]],
      scenes |-> [k \in 1..count |-> length],
      target |-> 10000 * d,
      voice  |-> TRUE]

\* The assets: one video per shot and, after them, the voice.
Voice(in) == Len(in.shots) + 1
Assets(in) == Shots(in) \cup (IF in.voice THEN {Voice(in)} ELSE {})

\* How long the plan says that the file of an asset is (its "temporal").
PlannedMs(in, a) ==
  IF a \in Shots(in)
    THEN LET shot == in.shots[a] IN (2 * 1000 * shot.frames + shot.fps) \div (2 * shot.fps)
    ELSE RoundedMs(in.target)

\* target_clip_duration_ms, and durationMs of a shot in the timeline.
ClipMs(in) == [s \in Shots(in) |-> RoundedMs(in.shots[s].length)]

\* Clips laid end to end: where each of the first n ends.
Ends(clip, n) ==
  LET at[s \in 0..n] == IF s = 0 THEN 0 ELSE at[s - 1] + clip[s]
  IN at

(***************************************************************************)
(* buildMasterTimeline(): the cursor goes over the shots; the clip of the  *)
(* voice spans the windows of all shots.                                   *)
(***************************************************************************)
TimelineMs(in) == Ends(ClipMs(in), Len(in.shots))[Len(in.shots)]

\* How long the file of an asset has to be for its clip.
NeededMs(in, a) == IF a \in Shots(in) THEN ClipMs(in)[a] ELSE TimelineMs(in)

\* Mistake: the timing of the voice is not compared.
PreflightUntimed(in) == \A s \in Shots(in) : ClipMs(in)[s] > 0

(***************************************************************************)
(* validatePreExecutionQuality(), asked by prepare() and again by build(): *)
(* scenes and voice fit the shots within 250 ms, and the timeline can be   *)
(* built.  How long a video will be is not compared with its shot.         *)
(***************************************************************************)
Preflight(in) ==
  /\ \A k \in DOMAIN in.scenes :
       Distance(Total(Lengths(in), ShotsOf(in, k)), in.scenes[k]) <= 2500
  /\ in.voice => Distance(PlannedMs(in, Voice(in)), TimelineMs(in)) <= 250
  /\ \A s \in Shots(in) : ClipMs(in)[s] > 0

\* assembleMedia(): planned lengths again, without a tolerance.
Assembles(in) == \A a \in Assets(in) : PlannedMs(in, a) >= NeededMs(in, a)

\* validateMediaProbe(): a video may be 1.5 s shorter than its shot, a voice anything.
Inspected(in, a, ms) == a \in Shots(in) => ms + 1500 >= ClipMs(in)[a]

\* AudioQualityEvaluator: a voice that would be cut off.
CutOff(in, ms) == in.voice /\ ms > TimelineMs(in) + 1000

(***************************************************************************)
(* buildFfmpegArgs(): the videos are trimmed to their clips and joined, so *)
(* that a short one moves the later ones forward; the voice is trimmed to  *)
(* the timeline, and silence has its length.  The probe of the master      *)
(* knows the longer of the two streams.                                    *)
(***************************************************************************)
Shorter(m, n) == IF m < n THEN m ELSE n
Trimmed(in, file) == [s \in Shots(in) |-> Shorter(file[s], ClipMs(in)[s])]
VideoMs(in, file) == Ends(Trimmed(in, file), Len(in.shots))[Len(in.shots)]
AudioMs(in, file) ==
  IF in.voice THEN Shorter(file[Voice(in)], TimelineMs(in)) ELSE TimelineMs(in)
MasterMs(in, file) ==
  IF AudioMs(in, file) > VideoMs(in, file) THEN AudioMs(in, file) ELSE VideoMs(in, file)

\* Mistake: the length of the master is not looked at.
MasterValidUntimed(in, file) == TRUE

\* validateMasterProbe() and validatePostRenderQuality(), durationToleranceMs.
MasterValid(in, file) == Distance(MasterMs(in, file), TimelineMs(in)) <= 1000
-----------------------------------------------------------------------------
VARIABLES
  input,    \* the structured input of the production
  file,     \* the stored file of each asset, by its length in ms
  job,      \* the status of the row of v2_1.jobs
  owner,    \* its worker_id
  master,   \* whether the master is stored
  review,   \* the review item of the master
  pc,       \* where each run stands
  next,     \* the asset each run is at
  cause,    \* why a run fails: "plan", "quality" (a verdict), "error"
  judged,   \* history: the runs that were given a verdict
  failed,   \* history: a verdict was FAIL
  unconcluded \* history: a judged run ended without a conclusion, or one lost its job

row == <<job, owner>>
history == <<judged, failed, unconcluded>>
vars == <<input, file, row, master, review, pc, next, cause, history>>

Location == {"idle", "marking", "obtaining", "judging", "comparing", "assembling", "rendering",
             "finishing", "storing", "registering", "reviewing", "completing", "failing", "ended"}

TypeOK ==
  /\ input \in Inputs
  /\ file \in [Assets(input) -> Durations \cup {None}]
  /\ job \in {"QUEUED", "RUNNING", "RETRYING", "COMPLETED", "FAILED", "DEAD_LETTER"}
  /\ owner \in Run \cup {None}
  /\ master \in BOOLEAN
  /\ review \in {"none", "pending", "decided"}
  /\ pc \in [Run -> Location]
  /\ next \in [Run -> Nat]
  /\ cause \in [Run -> {"none", "plan", "quality", "error"}]
  /\ judged \subseteq Run
  /\ failed \in BOOLEAN
  /\ unconcluded \in BOOLEAN

Init ==
  /\ input \in {in \in Inputs : Accepted(in)}
  /\ file = [a \in Assets(input) |-> None]
  /\ job = "QUEUED"
  /\ owner = None
  /\ master = FALSE
  /\ review = "none"
  /\ pc = [r \in Run |-> "idle"]
  /\ next = [r \in Run |-> 1]
  /\ cause = [r \in Run |-> "none"]
  /\ judged = {}
  /\ failed = FALSE
  /\ unconcluded = FALSE

Goto(r, l) == pc' = [pc EXCEPT ![r] = l]
Fail(r, why) == Goto(r, "failing") /\ cause' = [cause EXCEPT ![r] = why]
Mine(r) == owner = r /\ job = "RUNNING"

(***************************************************************************)
(* prepare() refuses a plan that fails its validation; createAndClaim()    *)
(* takes the job, also a RETRYING one, since every asset is durable.       *)
(* Either may fail, the claim also with its answer lost.                   *)
(***************************************************************************)
Start(r) ==
  /\ pc[r] = "idle"
  /\ \/ /\ Preflight(input)
        /\ job \in {"QUEUED", "RETRYING"}
        /\ job' = "RUNNING"
        /\ owner' = r
        /\ Goto(r, "marking") \/ Goto(r, "ended")
     \/ /\ Goto(r, "ended")
        /\ UNCHANGED row
  /\ UNCHANGED <<input, file, master, review, next, cause, history>>

\* The input artifact and markProviderBoundary(), which may be fenced.
Mark(r) ==
  /\ pc[r] = "marking"
  /\ \/ Mine(r) /\ Goto(r, "obtaining") /\ UNCHANGED cause
     \/ Fail(r, "error")
  /\ UNCHANGED <<input, file, row, master, review, next, history>>

\* After asset next[r]: another one, the continuity of several shots, or the assembly.
Advance(r) ==
  /\ next' = [next EXCEPT ![r] = @ + 1]
  /\ Goto(r, IF next[r] + 1 \in Assets(input) THEN "obtaining"
             ELSE IF Len(input.shots) > 1 THEN "comparing" ELSE "assembling")

\* A video is judged before the next asset is paid for.
Obtained(r) ==
  IF next[r] \in Shots(input) THEN Goto(r, "judging") /\ UNCHANGED next ELSE Advance(r)

(***************************************************************************)
(* DurableMediaExecutor.execute(): the stored file, or one that was paid   *)
(* for, inspected and stored; or an error, also after the file was stored. *)
(***************************************************************************)
Obtain(r) ==
  LET a == next[r] IN
  /\ pc[r] = "obtaining"
  /\ \/ /\ file[a] # None
        /\ Obtained(r)
        /\ UNCHANGED <<file, cause>>
     \/ /\ file[a] = None
        /\ \E ms \in Durations : Inspected(input, a, ms) /\ file' = [file EXCEPT ![a] = ms]
        /\ \/ Obtained(r) /\ UNCHANGED cause
           \/ Fail(r, "error") /\ UNCHANGED next
     \/ Fail(r, "error") /\ UNCHANGED <<file, next>>
  /\ UNCHANGED <<input, row, master, review, history>>

\* A verdict that stops the build: SOURCE_QUALITY_VALIDATION_FAILED and its like.
Condemn(r) ==
  /\ Fail(r, "quality")
  /\ failed' = TRUE
  /\ judged' = judged \cup {r}

(***************************************************************************)
(* The evaluation of one source: an evaluator that throws is a verdict     *)
(* FAIL, evidence that cannot be stored an error.                          *)
(***************************************************************************)
Judge(r) ==
  /\ pc[r] = "judging"
  /\ \/ Advance(r) /\ judged' = judged \cup {r} /\ UNCHANGED <<cause, failed>>
     \/ Condemn(r) /\ UNCHANGED next
     \/ Fail(r, "error") /\ judged' = judged \cup {r} /\ UNCHANGED <<next, failed>>
  /\ UNCHANGED <<input, file, row, master, review, unconcluded>>

\* evaluateContinuity() over all shots.
Compare(r) ==
  /\ pc[r] = "comparing"
  /\ \/ Goto(r, "assembling") /\ UNCHANGED <<cause, judged, failed>>
     \/ Condemn(r)
  /\ UNCHANGED <<input, file, row, master, review, next, unconcluded>>

\* The voice is audited, then assembleMedia(), which may refuse the plan; or an error.
Assemble(r) ==
  /\ pc[r] = "assembling"
  /\ \/ CutOff(input, file[Voice(input)]) /\ Condemn(r)
     \/ /\ ~CutOff(input, file[Voice(input)])
        /\ IF Assembles(input) THEN Goto(r, "rendering") /\ UNCHANGED cause ELSE Fail(r, "plan")
        /\ UNCHANGED <<judged, failed>>
     \/ Fail(r, "error") /\ UNCHANGED <<judged, failed>>
  /\ UNCHANGED <<input, file, row, master, review, next, unconcluded>>

(***************************************************************************)
(* render() and the validation of the probe: MASTER_MEDIA_VALIDATION_FAILED *)
(* is thrown before the master is stored, and is no failure of quality to  *)
(* fail().                                                                 *)
(***************************************************************************)
Render(r) ==
  /\ pc[r] = "rendering"
  /\ \/ MasterValid(input, file) /\ Goto(r, "finishing") /\ UNCHANGED cause
     \/ Fail(r, "error")
  /\ UNCHANGED <<input, file, row, master, review, next, history>>

\* The evaluation of the master; FAIL does not stop the build.
Finish(r) ==
  /\ pc[r] = "finishing"
  /\ judged' = judged \cup {r}
  /\ \/ UNCHANGED <<cause, failed>>
     \/ cause' = [cause EXCEPT ![r] = "quality"] /\ failed' = TRUE
  /\ Goto(r, "storing")
  /\ UNCHANGED <<input, file, row, master, review, next, unconcluded>>

\* The master is stored, then the evidence; a failed one is not registered.
Store(r) ==
  /\ pc[r] = "storing"
  /\ \/ /\ master' = TRUE
        /\ \/ Goto(r, IF cause[r] = "quality" THEN "failing" ELSE "registering") /\ UNCHANGED cause
           \/ Fail(r, "error")
     \/ Fail(r, "error") /\ UNCHANGED master
  /\ UNCHANGED <<input, file, row, review, next, history>>

\* registerMasterForReview(): the first registration stays.
Register(r) ==
  /\ pc[r] = "registering"
  /\ \/ /\ review' = IF review = "none" THEN "pending" ELSE review
        /\ \/ Goto(r, "reviewing") /\ UNCHANGED cause
           \/ Fail(r, "error")
     \/ Fail(r, "error") /\ UNCHANGED review
  /\ UNCHANGED <<input, file, row, master, next, history>>

\* LIVE_REVIEW_NOT_PENDING unless the review awaits its decision.
CheckReview(r) ==
  /\ pc[r] = "reviewing"
  /\ \/ review = "pending" /\ Goto(r, "completing") /\ UNCHANGED cause
     \/ Fail(r, "error")
  /\ UNCHANGED <<input, file, row, master, review, next, history>>

\* complete(), fenced by the worker id; its answer may be lost.
Complete(r) ==
  /\ pc[r] = "completing"
  /\ \/ /\ Mine(r)
        /\ job' = "COMPLETED"
        /\ owner' = None
        /\ \/ Goto(r, "ended") /\ UNCHANGED cause
           \/ Fail(r, "error")
     \/ Fail(r, "error") /\ UNCHANGED row
  /\ UNCHANGED <<input, file, master, review, next, history>>

\* Mistake: a failure of quality is retried like any other.
FailureStatusRetried(r) == "RETRYING"

\* fail(): with durable assets only a failure of quality is final.
FailureStatus(r) == IF cause[r] = "quality" THEN "FAILED" ELSE "RETRYING"

FailJob(r) ==
  /\ pc[r] = "failing"
  /\ \/ /\ Mine(r)
        /\ job' = FailureStatus(r)
        /\ owner' = None
        /\ unconcluded' = (unconcluded \/ (r \in judged /\ cause[r] # "quality"))
     \/ /\ unconcluded' = (unconcluded \/ r \in judged)
        /\ UNCHANGED row
  /\ Goto(r, "ended")
  /\ UNCHANGED <<input, file, master, review, next, cause, judged, failed>>

Crash(r) ==
  /\ pc[r] \notin {"idle", "ended"}
  /\ Goto(r, "ended")
  /\ unconcluded' = (unconcluded \/ r \in judged)
  /\ UNCHANGED <<input, file, row, master, review, next, cause, judged, failed>>

Step(r) ==
  \/ Start(r) \/ Mark(r) \/ Obtain(r) \/ Judge(r) \/ Compare(r) \/ Assemble(r) \/ Render(r)
  \/ Finish(r) \/ Store(r) \/ Register(r) \/ CheckReview(r) \/ Complete(r) \/ FailJob(r)

(***************************************************************************)
(* recover_expired_work(): the half hour of the lease has passed, whether  *)
(* the run lives or not; LiveProduction counts the attempts.               *)
(***************************************************************************)
Recover ==
  /\ job = "RUNNING"
  /\ job' \in {"RETRYING", "DEAD_LETTER"}
  /\ owner' = None
  /\ unconcluded' = (unconcluded \/ pc[owner] # "ended")
  /\ UNCHANGED <<input, file, master, review, pc, next, cause, judged, failed>>

\* A reviewer approves or rejects the master.
Review ==
  /\ review = "pending"
  /\ review' = "decided"
  /\ UNCHANGED <<input, file, row, master, pc, next, cause, history>>

Next == (\E r \in Run : Step(r) \/ Crash(r)) \/ Recover \/ Review

Spec == Init /\ [][Next]_vars
-----------------------------------------------------------------------------
(***************************************************************************)
(* When the assembly refuses a plan that the preflight accepted, all its   *)
(* media have been paid for.  This happens to no plan but those with one   *)
(* of the two faults the preflight does not look at: a video that is       *)
(* generated shorter than its shot, a voice shorter than the timeline by   *)
(* no more than the preflight's tolerance.                                 *)
(***************************************************************************)
Uncompared(in) ==
  \/ \E s \in Shots(in) : PlannedMs(in, s) < ClipMs(in)[s]
  \/ in.voice /\ PlannedMs(in, Voice(in)) \in (TimelineMs(in) - 250)..(TimelineMs(in) - 1)

RefusedOnlyUncompared == \A r \in Run : cause[r] = "plan" => Uncompared(input)

(***************************************************************************)
(* A master before a reviewer shows its shots for as long as the timeline  *)
(* says, within the tolerance of the check that was made of it; except     *)
(* that the check measures the longer stream, so that a voice, or silence, *)
(* hides videos that end early, by up to 1.5 s each.                       *)
(***************************************************************************)
MissingMs == TimelineMs(input) - VideoMs(input, file)

VideoIsWholeUnlessMasked ==
  review # "none" =>
    \/ MissingMs <= 1000
    \/ AudioMs(input, file) > VideoMs(input, file) /\ MissingMs <= 1500 * Len(input.shots)

(***************************************************************************)
(* No production has both a verdict FAIL and a master before a reviewer,   *)
(* however often it is recovered and run again; unless a run that had been *)
(* given a verdict ended without a conclusion (it died or failed           *)
(* otherwise), or a run lost its job while it lived, since the next run    *)
(* asks the evaluators again.                                              *)
(***************************************************************************)
OneConclusionUnlessInterrupted == review # "none" /\ failed => unconcluded
=============================================================================
