--------------------------- MODULE QualityDirector ---------------------------
(***************************************************************************)
(* The creative draft of a QUALITY production and the four approvals that  *)
(* stand between its brief and the start of the production                 *)
(* (src/v2.10/quality-script-first-service.js,                             *)
(* quality-creative-production-service.js and the repositories below them).*)
(*                                                                         *)
(* Sessions of the console run one operation after the other, two sessions *)
(* at a time; a statement that writes is a step, and what an operation     *)
(* reads before its first write is one step.  Of the brief the model keeps *)
(* what the gates tell apart: the input scriptSourceFingerprint() hashes,  *)
(* the one storyboardSourceFingerprint() hashes, and the reference of the  *)
(* opening shot, which neither does.                                       *)
(*                                                                         *)
(* The keyframe and the pilot are made by calls that take minutes: what    *)
(* they have checked at their start may no longer be so when their result  *)
(* is written.  What they pay for, and the ones that fail, are             *)
(* LockedKeyframe's.                                                       *)
(***************************************************************************)
EXTENDS Naturals, Sequences, SequencesExt

CONSTANTS Session,      \* sessions of the operators
          Input,        \* what scriptSourceFingerprint() hashes of a brief
          Text,         \* contents of a script
          Board,        \* storyboards
          MaxRevisions, \* bound: revisions of the script and of the storyboard together
          MaxKeyframes, \* bound: keyframes
          MaxFlows,     \* bound: workflows
          MaxPilots,    \* bound: attempts of the first video
          None

ASSUME BoundsAssumption == {MaxRevisions, MaxKeyframes, MaxFlows, MaxPilots} \subseteq Nat

VARIABLES
  brief,      \* creative_brief of the draft
  status,     \* its status: CREATIVE_INCOMPLETE, which no guard tells from DRAFT, is DRAFT
  start,      \* its start_state
  preflight,  \* its preflight_fingerprint: the brief that was certified, or None
  scripts,    \* v2_10.quality_script_revisions, in the order of their revision
  boards,     \* v2_10.quality_storyboard_revisions
  voiced,     \* a preview of a voice or an uploaded narration is stored
  events,     \* the latest of v2_10.quality_stage_approval_events of each stage
  granted,    \* the subjects that have an APPROVED event
  flows,      \* the states of v2_10.locked_keyframe_workflows, the latest one last
  frames,     \* v2_10.keyframe_artifacts that passed, with their workflow and approval
  pilots,     \* v2_10.locked_stage_attempts of the first video, in the order of their claims
  at,         \* where each session stands in its operation
  mem,        \* what its operation has read
  scheduled,  \* history: runs of a production that start() has scheduled
  strayed,    \* history: the pilot approved last was not one of the look approved then
  disturbed,  \* history: an operation died or was refused half-way, or wrote over what
              \* it had not read
  overtaken   \* history: approvals were withdrawn between a gate start() read and its claim

draft == <<brief, status, start, preflight>>
approvals == <<events, granted>>
revisions == <<scripts, boards, voiced>>
local == <<at, mem>>
stages == <<flows, frames, pilots>>
history == <<scheduled, strayed, disturbed>>
vars == <<draft, revisions, approvals, stages, local, history, overtaken>>

STAGE_ORDER == <<"SCRIPT", "STORYBOARD", "LOOK", "PILOT">>
Stage == ToSet(STAGE_ORDER)

Brief == [input : Input, board : Board, look : 0 .. MaxKeyframes]
ASSUME NoneAssumption == None \notin Brief
Storyboard == [board : Board, script : Text]
Subject(stage) == CASE stage = "SCRIPT" -> Text
                    [] stage = "STORYBOARD" -> Storyboard
                    [] stage = "LOOK" -> 1 .. MaxKeyframes
                    [] OTHER -> 1 .. MaxPilots
Locked == {"PREPARED", "AWAITING_HUMAN_APPROVAL", "KEYFRAME_APPROVED", "FIRST_VIDEO_REVIEW",
           "FIRST_VIDEO_FAILED", "FIRST_VIDEO_REJECTED", "FIRST_VIDEO_ACCEPTED",
           "CONTINUATION_STARTED"}

Idle == [brief |-> None, rev |-> None, from |-> 0]
NoEvent == [decision |-> "NONE", subject |-> None]

Init ==
  /\ brief \in {b \in Brief : b.look = 0}
  /\ status = "DRAFT" /\ start = "IDLE" /\ preflight = None
  /\ scripts = <<>> /\ boards = <<>> /\ voiced = FALSE
  /\ events = [st \in Stage |-> NoEvent] /\ granted = [st \in Stage |-> {}]
  /\ flows = <<>> /\ frames = <<>> /\ pilots = <<>>
  /\ at = [s \in Session |-> "ready"] /\ mem = [s \in Session |-> Idle]
  /\ scheduled = 0 /\ strayed = FALSE /\ disturbed = FALSE /\ overtaken = FALSE

----------------------------------------------------------------------------
\* The gate: the latest event of a stage approves it, and for a script or a
\* storyboard it approves the latest revision.
Approved(stage) ==
  /\ events[stage].decision = "APPROVED"
  /\ stage = "SCRIPT" => events[stage].subject = Last(scripts)
  /\ stage = "STORYBOARD" => events[stage].subject = Last(boards)

Gate(n) == \A i \in 1 .. n : Approved(STAGE_ORDER[i])

\* Mistake: a running start does not close the draft.
EditableRunning == status # "STARTED" /\ start # "NEEDS_RECONCILIATION"

\* What the guard of updateDraft(), savePreflight() and of the binding demands.
Editable == status # "STARTED" /\ start \notin {"RUNNING", "NEEDS_RECONCILIATION"}

\* History: an approval answered with an old event, behind which others came.
Reused(stage, subject) == subject \in granted[stage] /\ events[stage].subject # subject

\* recordQualityApproval(): an approval of what was approved once is not
\* written again; a rejection always is.
Record(stage, decision, subject) ==
  IF decision = "APPROVED" /\ subject \in granted[stage]
  THEN UNCHANGED approvals
  ELSE /\ events' = [events EXCEPT ![stage] = [decision |-> decision, subject |-> subject]]
       /\ granted' = IF decision = "APPROVED"
                     THEN [granted EXCEPT ![stage] = @ \union {subject}] ELSE granted

\* Mistake: a new revision keeps the preflight of the old one.
WriteCertified(b, reset) ==
  /\ brief' = b
  /\ preflight' = preflight
  /\ status' = IF reset \/ b # brief THEN "DRAFT" ELSE status
  /\ UNCHANGED start

\* The draft is written with the brief b.  A brief that differs is a new
\* revision, which has no preflight.
Write(b, reset) ==
  /\ brief' = b
  /\ preflight' = IF reset \/ b # brief THEN None ELSE preflight
  /\ status' = IF reset \/ b # brief THEN "DRAFT" ELSE status
  /\ UNCHANGED start

Go(s, label, m) == at' = [at EXCEPT ![s] = label] /\ mem' = [mem EXCEPT ![s] = m]
Done(s) == Go(s, "ready", Idle)
Downstream(s, n) == Go(s, "invalidate", [Idle EXCEPT !.from = n])

\* History: between its first write and its last an operation leaves a draft
\* that only half of its rules hold for.
Midway(s) == at[s] \in {"invalidate", "boardRecord", "lookBind", "lookRecord"}
Blind(seen) == disturbed' = (disturbed \/ seen # brief)

----------------------------------------------------------------------------
\* updateDraft(): PATCH of the brief, whose opening shot may show any approved
\* keyframe, or anything else, which is 0.  A getDraft() that fails before it is
\* swallowed, and with it the comparison that invalidates.
EditRead(s) ==
  /\ at[s] = "ready"
  /\ \E seen \in {brief, None} : Go(s, "edit", [Idle EXCEPT !.brief = seen])
  /\ UNCHANGED <<draft, revisions, approvals, stages, history>>

\* Mistake: a storyboard that was edited needs a new look, and no approval.
FirstStaleLook(before, after) ==
  CASE before = None -> 0
    [] before.input # after.input -> 1
    [] before.board # after.board -> 3
    [] OTHER -> 0

\* The first stage whose source differs between two briefs, or none.
FirstStale(before, after) ==
  CASE before = None -> 0
    [] before.input # after.input -> 1
    [] before.board # after.board -> 2
    [] OTHER -> 0

Edit(s) ==
  /\ at[s] = "edit"
  /\ \/ /\ Editable
        /\ \E b \in {b \in Brief : b.look # 0 => b.look <= Len(frames) /\ frames[b.look].approved} :
             /\ Write(b, FALSE)
             /\ Blind(IF mem[s].brief # None THEN mem[s].brief ELSE b)
             /\ LET first == FirstStale(mem[s].brief, b)
                IN IF first = 0 THEN Done(s) ELSE Downstream(s, first)
     \/ ~Editable /\ Done(s) /\ UNCHANGED <<draft, disturbed>>
  /\ UNCHANGED <<revisions, approvals, stages, scheduled, strayed>>

\* invalidateQualityStages(): a stage after the other, then the draft, which
\* is reset whatever its start_state.
Invalidate(s) ==
  /\ at[s] = "invalidate"
  /\ mem[s].from <= Len(STAGE_ORDER)
  /\ LET stage == STAGE_ORDER[mem[s].from]
     IN IF events[stage].decision = "APPROVED"
        THEN Record(stage, "INVALIDATED", events[stage].subject)
        ELSE UNCHANGED approvals
  /\ Go(s, "invalidate", [mem[s] EXCEPT !.from = @ + 1])
  /\ UNCHANGED <<draft, revisions, stages, history>>

Reset(s) ==
  /\ at[s] = "invalidate"
  /\ mem[s].from > Len(STAGE_ORDER)
  /\ IF status # "STARTED" THEN Write(brief, TRUE) ELSE UNCHANGED draft
  /\ Done(s)
  /\ UNCHANGED <<revisions, approvals, stages, history>>

\* generateVoicePreview(), uploadVoice(): evidence that approveVoice() may certify.
PreviewVoice(s) ==
  /\ at[s] = "ready" /\ voiced' = TRUE
  /\ UNCHANGED <<draft, scripts, boards, approvals, stages, local, history>>

UploadVoice(s) ==
  /\ at[s] = "ready" /\ voiced' = TRUE
  /\ UNCHANGED <<draft, scripts, boards, approvals, stages, local, history>>

\* approveVoice(): the brief that was read is written back with the voice in
\* it, which no fingerprint of a stage covers; a voice that was there is no change.
VoiceRead(s) ==
  /\ at[s] = "ready" /\ voiced
  /\ Go(s, "voice", [Idle EXCEPT !.brief = brief])
  /\ UNCHANGED <<draft, revisions, approvals, stages, history>>

VoiceApprove(s) ==
  /\ at[s] = "voice"
  /\ IF Editable
     THEN /\ \E changed \in BOOLEAN : Write(mem[s].brief, changed)
          /\ Blind(mem[s].brief)
     ELSE UNCHANGED <<draft, disturbed>>
  /\ Done(s)
  /\ UNCHANGED <<revisions, approvals, stages, scheduled, strayed>>

----------------------------------------------------------------------------
\* saveScript(): a content that was saved before keeps its old revision.
SaveScript(s) ==
  /\ at[s] = "ready" /\ status # "STARTED"
  /\ \E t \in Text :
       IF t \in ToSet(scripts) THEN UNCHANGED scripts
       ELSE Len(scripts) + Len(boards) < MaxRevisions /\ scripts' = Append(scripts, t)
  /\ Downstream(s, 2)
  /\ UNCHANGED <<draft, boards, voiced, approvals, stages, history>>

\* approveScript(): of the latest revision, or of the one the operator names.
ApproveScript(s) ==
  /\ at[s] = "ready" /\ status # "STARTED"
  /\ \E t \in ToSet(scripts) : Record("SCRIPT", "APPROVED", t)
  /\ Downstream(s, 2)
  /\ UNCHANGED <<draft, revisions, stages, history>>

SaveStoryboard(s) ==
  /\ at[s] = "ready" /\ status # "STARTED" /\ Gate(1)
  /\ \E b \in Board :
       LET board == [board |-> b, script |-> events["SCRIPT"].subject]
       IN IF board \in ToSet(boards) THEN UNCHANGED boards
          ELSE Len(scripts) + Len(boards) < MaxRevisions /\ boards' = Append(boards, board)
  /\ Downstream(s, 3)
  /\ UNCHANGED <<draft, scripts, voiced, approvals, stages, history>>

\* approveStoryboard(): the draft and the gate are read, the brief that was
\* read is written with the storyboard bound into it, and then the approval.
BoardRead(s) ==
  /\ at[s] = "ready" /\ status # "STARTED" /\ Gate(1)
  /\ \E board \in ToSet(boards) :
       /\ board.script = events["SCRIPT"].subject
       /\ Go(s, "boardBind", [Idle EXCEPT !.brief = brief, !.rev = board])
  /\ UNCHANGED <<draft, revisions, approvals, stages, history>>

BoardBind(s) ==
  /\ at[s] = "boardBind"
  /\ IF Editable
     THEN /\ Write([mem[s].brief EXCEPT !.board = mem[s].rev.board], TRUE)
          /\ disturbed' = (disturbed \/ mem[s].brief # brief)
          /\ Go(s, "boardRecord", [mem[s] EXCEPT !.brief = None])
     ELSE Done(s) /\ UNCHANGED <<draft, disturbed>>
  /\ UNCHANGED <<revisions, approvals, stages, scheduled, strayed>>

BoardRecord(s) ==
  /\ at[s] = "boardRecord"
  /\ Record("STORYBOARD", "APPROVED", mem[s].rev)
  /\ disturbed' = (disturbed \/ events["SCRIPT"].subject # mem[s].rev.script
                             \/ brief.board # mem[s].rev.board
                             \/ Reused("STORYBOARD", mem[s].rev))
  /\ Downstream(s, 3)
  /\ UNCHANGED <<draft, revisions, stages, scheduled, strayed>>

----------------------------------------------------------------------------
\* preflightKeyframe(), executeKeyframe(): behind the gate of script and storyboard,
\* in the latest workflow, or in a new one when the opening shot is no longer its.
StillCheck(s) ==
  /\ at[s] = "ready" /\ status # "STARTED" /\ Gate(2)
  /\ \/ /\ flows # <<>> /\ UNCHANGED flows
        /\ Go(s, "still", [Idle EXCEPT !.rev = Len(flows)])
     \/ /\ Len(flows) < MaxFlows /\ flows' = Append(flows, "PREPARED")
        /\ Go(s, "still", [Idle EXCEPT !.rev = Len(flows) + 1])
  /\ UNCHANGED <<draft, revisions, approvals, frames, pilots, history>>

\* storeKeyframeArtifact(), recordKeyframeValidation(): a keyframe that passed
\* awaits the operator, if its workflow still takes one.
StillStore(s) ==
  /\ at[s] = "still"
  /\ IF flows[mem[s].rev] \in {"PREPARED", "AWAITING_HUMAN_APPROVAL", "KEYFRAME_APPROVED",
                              "FIRST_VIDEO_FAILED"}
     THEN /\ Len(frames) < MaxKeyframes
          /\ frames' = Append(frames, [flow |-> mem[s].rev, approved |-> FALSE])
          /\ flows' = [flows EXCEPT ![mem[s].rev] = "AWAITING_HUMAN_APPROVAL"]
     ELSE UNCHANGED <<frames, flows>>
  /\ Done(s)
  /\ UNCHANGED <<draft, revisions, approvals, pilots, history>>

\* approveKeyframe(): the keyframe, the brief with the keyframe bound into it,
\* the LOOK, and PILOT and the preflight withdrawn.
LookRead(s) ==
  /\ at[s] = "ready" /\ status # "STARTED" /\ Gate(2) /\ frames # <<>>
  /\ Go(s, "look", [Idle EXCEPT !.brief = brief])
  /\ UNCHANGED <<draft, revisions, approvals, stages, history>>

LookApprove(s) ==
  /\ at[s] = "look"
  /\ \E k \in 1 .. Len(frames) :
       IF flows[frames[k].flow] \in {"AWAITING_HUMAN_APPROVAL", "KEYFRAME_APPROVED"}
       THEN /\ flows' = [flows EXCEPT ![frames[k].flow] = "KEYFRAME_APPROVED"]
            /\ frames' = [frames EXCEPT ![k].approved = TRUE]
            /\ Go(s, "lookBind", [mem[s] EXCEPT !.rev = k])
       ELSE Done(s) /\ UNCHANGED <<flows, frames>>
  /\ UNCHANGED <<draft, revisions, approvals, pilots, history>>

LookBind(s) ==
  /\ at[s] = "lookBind"
  /\ IF Editable
     THEN /\ Write([mem[s].brief EXCEPT !.look = mem[s].rev], FALSE)
          /\ Blind(mem[s].brief)
          /\ Go(s, "lookRecord", [mem[s] EXCEPT !.brief = None])
     ELSE Done(s) /\ disturbed' = TRUE /\ UNCHANGED draft
  /\ UNCHANGED <<revisions, approvals, stages, scheduled, strayed>>

LookRecord(s) ==
  /\ at[s] = "lookRecord"
  /\ Record("LOOK", "APPROVED", mem[s].rev)
  /\ Downstream(s, 4)
  /\ UNCHANGED <<draft, revisions, stages, history>>

\* startFirstVideo(): behind the gate of script, storyboard and look, an approved
\* keyframe of the latest workflow that the certified brief shows.
FilmCheck(s) ==
  /\ at[s] = "ready" /\ status = "PREFLIGHT_READY" /\ Gate(3)
  /\ \E k \in 1 .. Len(frames) :
       /\ frames[k].approved /\ frames[k].flow = Len(flows) /\ brief.look = k
       /\ Go(s, "film", [Idle EXCEPT !.rev = k])
  /\ UNCHANGED <<draft, revisions, approvals, stages, history>>

PilotsOf(f) == {i \in 1 .. Len(pilots) : frames[pilots[i].keyframe].flow = f}
InDoubt(f) == \E i \in PilotsOf(f) : pilots[i].status = "RUNNING"

\* claimLockedStage(): one attempt at a time, and none behind one in doubt.
FilmClaim(s) ==
  /\ at[s] = "film"
  /\ IF InDoubt(frames[mem[s].rev].flow)
     THEN Done(s) /\ UNCHANGED pilots
     ELSE /\ Len(pilots) < MaxPilots
          /\ pilots' = Append(pilots, [keyframe |-> mem[s].rev, status |-> "RUNNING"])
          /\ Go(s, "filming", [Idle EXCEPT !.rev = Len(pilots) + 1])
  /\ UNCHANGED <<draft, revisions, approvals, flows, frames, history>>

\* finishLockedStage(): the video passed its evaluation, or it did not, or the
\* call failed before it had paid.
FilmFinish(s) ==
  /\ at[s] = "filming"
  /\ \/ \E result \in {"SUCCEEDED", "FAILED"} :
          /\ pilots' = [pilots EXCEPT ![mem[s].rev].status = result]
          /\ Go(s, "filmed", mem[s])
     \/ pilots' = [pilots EXCEPT ![mem[s].rev].status = "FAILED"] /\ Done(s)
  /\ UNCHANGED <<draft, revisions, approvals, flows, frames, history>>

\* recordFirstVideoResult() asks for the state of the workflow and for nothing
\* else; with a video that passed the preflight is withdrawn, also of a draft that
\* is starting.  Somebody has moved the workflow to FIRST_VIDEO_RUNNING before.
FilmRecord(s) ==
  /\ at[s] = "filmed"
  /\ LET pilot == pilots[mem[s].rev]
         f == frames[pilot.keyframe].flow
     IN IF flows[f] = "KEYFRAME_APPROVED"
        THEN IF pilot.status = "SUCCEEDED"
             THEN /\ flows' = [flows EXCEPT ![f] = "FIRST_VIDEO_REVIEW"]
                  /\ IF status = "PREFLIGHT_READY" THEN Write(brief, TRUE) ELSE UNCHANGED draft
             ELSE flows' = [flows EXCEPT ![f] = "FIRST_VIDEO_FAILED"] /\ UNCHANGED draft
        ELSE UNCHANGED <<flows, draft>>
  /\ Done(s)
  /\ UNCHANGED <<revisions, approvals, frames, pilots, history>>

\* getLatestLockedStageAttempt(): of the latest workflow, which is in review.
Reviewed(i) ==
  /\ flows # <<>> /\ Last(flows) = "FIRST_VIDEO_REVIEW"
  /\ i \in PilotsOf(Len(flows)) /\ \A j \in PilotsOf(Len(flows)) : j <= i

\* approvePilot(), rejectPilot(): the event, then the workflow.
PilotRead(s) ==
  /\ at[s] = "ready" /\ Gate(3)
  /\ \E i \in 1 .. Len(pilots) :
       /\ Reviewed(i) /\ pilots[i].status = "SUCCEEDED"
       /\ Go(s, "pilotRecord", [Idle EXCEPT !.rev = i])
  /\ UNCHANGED <<draft, revisions, approvals, stages, history>>

PilotRecord(s) ==
  /\ at[s] = "pilotRecord"
  /\ Record("PILOT", "APPROVED", mem[s].rev)
  /\ strayed' = IF mem[s].rev \in granted["PILOT"] THEN strayed
                ELSE pilots[mem[s].rev].keyframe # events["LOOK"].subject
  /\ Go(s, "pilotAccept", mem[s])
  /\ UNCHANGED <<draft, revisions, stages, scheduled, disturbed>>

RejectPilot(s) ==
  /\ at[s] = "ready"
  /\ \E i \in 1 .. Len(pilots) :
       /\ Reviewed(i)
       /\ Record("PILOT", "REJECTED", i)
       /\ Go(s, "rejectFlow", [Idle EXCEPT !.rev = i])
  /\ UNCHANGED <<draft, revisions, stages, history>>

\* approvePilotWorkflow(), rejectPilotWorkflow(): only out of the review, and an
\* approval only of the latest attempt.
PilotSettle(s) ==
  /\ at[s] \in {"pilotAccept", "rejectFlow"}
  /\ LET i == mem[s].rev
         f == frames[pilots[i].keyframe].flow
         latest == \A j \in PilotsOf(f) : j <= i
     IN flows' = IF flows[f] = "FIRST_VIDEO_REVIEW" /\ (at[s] = "pilotAccept" => latest)
                 THEN [flows EXCEPT ![f] = IF at[s] = "pilotAccept" THEN "FIRST_VIDEO_ACCEPTED"
                                           ELSE "FIRST_VIDEO_REJECTED"]
                 ELSE flows
  /\ Done(s)
  /\ UNCHANGED <<draft, revisions, approvals, frames, pilots, history>>

----------------------------------------------------------------------------
\* preflight(): behind the gate of script and storyboard; a selection of
\* another provider rewrites the draft with the brief that was read.
PreflightRead(s) ==
  /\ at[s] = "ready" /\ Gate(2) /\ Editable
  /\ Go(s, "preflight", [Idle EXCEPT !.brief = brief])
  /\ UNCHANGED <<draft, revisions, approvals, stages, history>>

Reselect(s) ==
  /\ at[s] = "preflight"
  /\ IF Editable
     THEN /\ Write(mem[s].brief, TRUE)
          /\ Blind(mem[s].brief)
          /\ UNCHANGED local
     ELSE Done(s) /\ UNCHANGED <<draft, disturbed>>
  /\ UNCHANGED <<revisions, approvals, stages, scheduled, strayed>>

\* buildProductionPreflight() finds a blocker: the answer is given, nothing is saved.
PreflightBlocked(s) ==
  /\ at[s] = "preflight"
  /\ Done(s)
  /\ UNCHANGED <<draft, revisions, approvals, stages, history>>

\* savePreflight() does not ask whether the brief is still the one certified.
PreflightSave(s) ==
  /\ at[s] = "preflight"
  /\ IF Editable
     THEN /\ preflight' = mem[s].brief
          /\ status' = "PREFLIGHT_READY" /\ start' = "IDLE"
          /\ UNCHANGED brief
          /\ Blind(mem[s].brief)
     ELSE UNCHANGED <<draft, disturbed>>
  /\ Done(s)
  /\ UNCHANGED <<revisions, approvals, stages, scheduled, strayed>>

\* Mistake: start() takes a pilot that was made for one that was approved.
StartGateUnpiloted(s) ==
  /\ at[s] = "ready" /\ Gate(3)
  /\ Go(s, "start", Idle)
  /\ UNCHANGED <<draft, revisions, approvals, stages, history>>

\* start(): the gate of all four stages, then the draft and the workflow.
StartGate(s) ==
  /\ at[s] = "ready" /\ Gate(4)
  /\ Go(s, "start", Idle)
  /\ UNCHANGED <<draft, revisions, approvals, stages, history>>

StartRead(s) ==
  /\ at[s] = "start"
  /\ IF /\ Editable
        /\ flows = <<>> \/ Last(flows) = "FIRST_VIDEO_ACCEPTED"
        /\ preflight = brief
     THEN Go(s, "claim", [Idle EXCEPT !.brief = brief])
     ELSE Done(s)
  /\ UNCHANGED <<draft, revisions, approvals, stages, history>>

\* claimStart(), under the lock of the row.
Claimable(seen) == Editable /\ status = "PREFLIGHT_READY" /\ preflight = seen

Claim(s) ==
  /\ at[s] = "claim"
  /\ IF Claimable(mem[s].brief)
     THEN /\ start' = "RUNNING"
          /\ Go(s, "create", Idle)
     ELSE Done(s) /\ UNCHANGED start
  /\ UNCHANGED <<brief, status, preflight, revisions, approvals, stages, history>>

\* starter.start(): nothing is created, or the production is and what follows
\* fails, or its run is scheduled.
Create(s) ==
  /\ at[s] = "create"
  /\ \/ Go(s, "fail", [mem[s] EXCEPT !.rev = "NOT_CROSSED"]) /\ UNCHANGED scheduled
     \/ Go(s, "fail", [mem[s] EXCEPT !.rev = "CANONICAL_CREATED"]) /\ UNCHANGED scheduled
     \/ Go(s, "finish", mem[s]) /\ scheduled' = scheduled + 1
  /\ UNCHANGED <<draft, revisions, approvals, stages, strayed, disturbed>>

\* finishStartSuccess(): a check of the table wants a preflight of what is STARTED.
\* Any error of it, also of a commit that was done, is answered as a failure that
\* may have started something.
FinishSuccess(s) ==
  /\ at[s] = "finish"
  /\ \/ /\ preflight # None
        /\ status' = "STARTED" /\ start' = "SUCCEEDED"
        /\ \/ Go(s, "continue", mem[s])
           \/ Go(s, "fail", [mem[s] EXCEPT !.rev = "MAY_HAVE_STARTED"])
     \/ /\ Go(s, "fail", [mem[s] EXCEPT !.rev = "MAY_HAVE_STARTED"])
        /\ UNCHANGED <<status, start>>
  /\ UNCHANGED <<brief, preflight, revisions, approvals, stages, history>>

\* finishStartFailure(): only what crossed no boundary may be started again, and
\* a start that is over is left as it is.
FailureState(boundary) ==
  IF boundary = "NOT_CROSSED" THEN "FAILED_RETRYABLE" ELSE "NEEDS_RECONCILIATION"

FinishFailure(s) ==
  /\ at[s] = "fail"
  /\ start' = IF start = "RUNNING" THEN FailureState(mem[s].rev) ELSE start
  /\ Done(s)
  /\ UNCHANGED <<brief, status, preflight, revisions, approvals, stages, history>>

\* markLockedContinuationStarted(): of the workflow of the same production, if
\* there is one.
Continue(s) ==
  /\ at[s] = "continue"
  /\ \/ UNCHANGED flows
     \/ \E f \in 1 .. Len(flows) : /\ flows[f] = "FIRST_VIDEO_ACCEPTED"
                                  /\ flows' = [flows EXCEPT ![f] = "CONTINUATION_STARTED"]
  /\ Done(s)
  /\ UNCHANGED <<draft, revisions, approvals, frames, pilots, history>>

\* A call dies: the process, or its connection to the database.  Of a pilot that is
\* being made nobody knows what became, and its attempt stays in doubt.
Crash(s) ==
  /\ at[s] # "ready"
  /\ Done(s)
  /\ disturbed' = (disturbed \/ Midway(s))
  /\ UNCHANGED <<draft, revisions, approvals, stages, scheduled, strayed>>

\* History: a start() that has passed its gate has not claimed the draft yet.
Gated == \E s \in Session : at[s] \in {"start", "claim"}

Step ==
  \E s \in Session :
       \/ EditRead(s) \/ Edit(s) \/ Invalidate(s) \/ Reset(s)
       \/ PreviewVoice(s) \/ UploadVoice(s) \/ VoiceRead(s) \/ VoiceApprove(s)
       \/ SaveScript(s) \/ ApproveScript(s) \/ SaveStoryboard(s)
       \/ BoardRead(s) \/ BoardBind(s) \/ BoardRecord(s)
       \/ StillCheck(s) \/ StillStore(s)
       \/ FilmCheck(s) \/ FilmClaim(s) \/ FilmFinish(s) \/ FilmRecord(s)
       \/ LookRead(s) \/ LookApprove(s) \/ LookBind(s) \/ LookRecord(s)
       \/ PilotRead(s) \/ PilotRecord(s) \/ RejectPilot(s) \/ PilotSettle(s)
       \/ PreflightRead(s) \/ Reselect(s) \/ PreflightBlocked(s) \/ PreflightSave(s)
       \/ StartGate(s) \/ StartRead(s) \/ Claim(s) \/ Create(s)
       \/ FinishSuccess(s) \/ FinishFailure(s) \/ Continue(s)
       \/ Crash(s)

Next == Step /\ overtaken' = (Gated' /\ (overtaken \/ (Gated /\ Gate(4) /\ ~Gate(4)')))

Spec == Init /\ [][Next]_vars

----------------------------------------------------------------------------
\* The draft obeys the checks of its table: what is certified or started has a
\* preflight and nothing else has; and no keyframe is without its workflow, and no
\* pilot without its keyframe.
TypeOK ==
  /\ brief \in Brief /\ preflight \in Brief \union {None}
  /\ status \in {"DRAFT", "PREFLIGHT_READY", "STARTED"}
  /\ start \in {"IDLE", "RUNNING", "FAILED_RETRYABLE", "NEEDS_RECONCILIATION", "SUCCEEDED"}
  /\ (status # "DRAFT") = (preflight # None)
  /\ (status = "STARTED") = (start = "SUCCEEDED")
  /\ IsInjective(scripts) /\ ToSet(scripts) \subseteq Text /\ voiced \in BOOLEAN
  /\ IsInjective(boards) /\ ToSet(boards) \subseteq Storyboard
  /\ \A st \in Stage : granted[st] \subseteq Subject(st)
  /\ ToSet(flows) \subseteq Locked
  /\ \A k \in 1 .. Len(frames) : frames[k].flow \in 1 .. Len(flows)
  /\ \A i \in 1 .. Len(pilots) : pilots[i].keyframe \in 1 .. Len(frames)

\* A start is claimed only for a draft as it was approved: the script and the
\* storyboard are the latest and approved, the storyboard was written for that
\* script and is the one in the brief, the brief is the one certified, and the
\* approved pilot shows the approved look, or, if it was approved as the pilot of
\* another keyframe, one that once was the look - unless an operation is half
\* done, died or was refused half done, or wrote over what it had not read, or
\* the approvals were withdrawn between the gate of start() and its claim.
Shown == pilots[events["PILOT"].subject].keyframe

AsApproved ==
  /\ Gate(4)
  /\ events["STORYBOARD"].subject.script = events["SCRIPT"].subject
  /\ events["STORYBOARD"].subject.board = brief.board
  /\ Shown = events["LOOK"].subject \/ strayed
  /\ Shown \in granted["LOOK"]
  /\ preflight = brief

Claimed == start # "RUNNING" /\ start' = "RUNNING"

StartedAsApprovedUnlessDisturbed ==
  [][Claimed => disturbed \/ overtaken \/ (\E s \in Session : Midway(s)) \/ AsApproved]_vars

\* One run is scheduled for a draft, and a draft with a scheduled run is never
\* open for another start, whichever sessions start it, edit it or die, and
\* whether the answer of the database to the start is lost or an error.
ScheduledOnce ==
  /\ scheduled <= 1
  /\ scheduled = 1 => start \in {"RUNNING", "NEEDS_RECONCILIATION", "SUCCEEDED"}

\* The gate for paid media opens on a storyboard written for the approved
\* script and bound into the brief, unless an operation is half done, died or was
\* refused half done, or wrote over what it had not read.
GateIsCoherentUnlessDisturbed ==
  Gate(2) => \/ disturbed \/ \E s \in Session : Midway(s)
             \/ /\ events["STORYBOARD"].subject.script = events["SCRIPT"].subject
                /\ events["STORYBOARD"].subject.board = brief.board
=============================================================================
