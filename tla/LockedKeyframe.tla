--------------------------- MODULE LockedKeyframe ---------------------------
(***************************************************************************)
(* The two paid stages of a QUALITY production before its start: the       *)
(* keyframe of the opening shot and the first video made from it           *)
(* (src/v2.10/locked-keyframe-service.js, the workflow, preflight, attempt *)
(* and keyframe statements of the repositories below it, and the triggers  *)
(* of migrations/20260901 and 20260903).                                   *)
(*                                                                         *)
(* A stage is prepared once, claimed under an advisory lock, and pays      *)
(* behind a boundary it has marked.  Every statement is a step, and so is  *)
(* what a call reads before it claims.  The approvals of the director      *)
(* are QualityDirector's; here its gates stand open.                       *)
(***************************************************************************)
EXTENDS Naturals, Sequences, FiniteSets, SequencesExt

CONSTANTS Call,          \* calls of the console
          Plan,          \* plans of the opening shot
          ByHand,        \* somebody moves a workflow to FIRST_VIDEO_RUNNING
          MaxFlows,      \* bound: workflows
          MaxPreflights, \* bound: preflights of a stage
          MaxAttempts,   \* bound: attempts of a stage, and so keyframes
          MaxRevisions,  \* bound: revisions of the draft
          MaxCrashes     \* bound: calls that die

ASSUME BoundsAssumption ==
  /\ {MaxFlows, MaxPreflights, MaxAttempts, MaxRevisions, MaxCrashes} \subseteq Nat
  /\ MaxRevisions # 0 /\ ByHand \in BOOLEAN

VARIABLES
  shot,       \* the opening shot in the brief of the draft: its plan, its reference
  revision,   \* revision of the draft
  certified,  \* the draft has a final preflight
  flows,      \* v2_10.locked_keyframe_workflows, the latest one last
  keyframes,  \* v2_10.keyframe_artifacts with their validation and approval events
  preflights, \* v2_10.locked_stage_preflights
  attempts,   \* v2_10.locked_stage_attempts
  at,         \* where each call stands
  mem,        \* what it holds
  paid,       \* history: the attempts that called a media provider
  overtaken,  \* history: the brief changed while a pilot of it was being made
  crashes     \* history: calls that died

draft == <<shot, revision, certified>>
history == <<paid, overtaken, crashes>>
vars == <<draft, flows, keyframes, preflights, attempts, at, mem, history>>

Idle == [p |-> 0, a |-> 0, k |-> 0, crossed |-> FALSE, safe |-> FALSE, ok |-> FALSE]
InDoubt == {"RUNNING", "NEEDS_RECONCILIATION"}
Pilots == {a \in 1 .. Len(attempts) : attempts[a].stage = "FIRST_VIDEO"}

Init ==
  /\ shot \in [plan : Plan, ref : {0}] /\ revision = 1 /\ certified = FALSE
  /\ flows = <<>> /\ keyframes = <<>> /\ preflights = <<>> /\ attempts = <<>>
  /\ at = [c \in Call |-> "ready"] /\ mem = [c \in Call |-> Idle]
  /\ paid = {} /\ overtaken = FALSE /\ crashes = 0

----------------------------------------------------------------------------
\* protect_locked_keyframe_workflow(): the moves of a workflow.
Allowed(from, to) ==
  from = to \/ <<from, to>> \in
    {<<"PREPARED", "KEYFRAME_READY">>, <<"KEYFRAME_READY", "AWAITING_HUMAN_APPROVAL">>,
     <<"AWAITING_HUMAN_APPROVAL", "KEYFRAME_READY">>,
     <<"AWAITING_HUMAN_APPROVAL", "KEYFRAME_APPROVED">>,
     <<"KEYFRAME_APPROVED", "KEYFRAME_READY">>, <<"KEYFRAME_APPROVED", "FIRST_VIDEO_RUNNING">>,
     <<"FIRST_VIDEO_RUNNING", "FIRST_VIDEO_FAILED">>, <<"FIRST_VIDEO_RUNNING", "FIRST_VIDEO_REVIEW">>,
     <<"FIRST_VIDEO_REVIEW", "FIRST_VIDEO_ACCEPTED">>, <<"FIRST_VIDEO_REVIEW", "FIRST_VIDEO_REJECTED">>,
     <<"FIRST_VIDEO_REJECTED", "KEYFRAME_APPROVED">>, <<"FIRST_VIDEO_FAILED", "KEYFRAME_READY">>,
     <<"FIRST_VIDEO_ACCEPTED", "CONTINUATION_STARTED">>}

Move(f, to) == flows' = [flows EXCEPT ![f].state = to]
Latest == Len(flows)
Go(c, label, m) == at' = [at EXCEPT ![c] = label] /\ mem' = [mem EXCEPT ![c] = m]
Done(c) == Go(c, "ready", Idle)
FlowOf(c) == attempts[mem[c].a].flow

Filming == \E c \in Call : mem[c].p # 0 /\ preflights[mem[c].p].stage = "FIRST_VIDEO"

\* The brief is written with another opening shot: a new revision, uncertified.
Rewrite(s) ==
  /\ shot' = s
  /\ revision' = revision + 1 /\ certified' = FALSE
  /\ overtaken' = (overtaken \/ Filming \/ \E f \in 1 .. Latest : flows[f].state = "FIRST_VIDEO_REVIEW")

----------------------------------------------------------------------------
\* The operators edit the brief and certify it (QualityDirector).
Edit ==
  /\ revision < MaxRevisions
  /\ \E x \in Plan \ {shot.plan} : Rewrite([shot EXCEPT !.plan = x])
  /\ UNCHANGED <<flows, keyframes, preflights, attempts, at, mem, paid, crashes>>

Certify ==
  /\ ~certified /\ certified' = TRUE
  /\ UNCHANGED <<shot, revision, flows, keyframes, preflights, attempts, at, mem, history>>

\* saveLockedStagePreflight(): a plan that was prepared before is found again.
Save(p) ==
  IF p \in ToSet(preflights) /\ p.source # "UPLOAD" THEN UNCHANGED preflights
  ELSE /\ Cardinality({q \in 1 .. Len(preflights) : preflights[q].stage = p.stage}) < MaxPreflights
       /\ preflights' = Append(preflights, p)

\* ensureLockedWorkflow(): the workflow of this very shot, or a new one.
EnsureWorkflow(f) ==
  IF \E g \in 1 .. Latest : flows[g].shot = shot
  THEN f <= Latest /\ flows[f].shot = shot /\ UNCHANGED flows
  ELSE /\ f = Latest + 1 /\ f <= MaxFlows
       /\ flows' = Append(flows, [shot |-> shot, state |-> "PREPARED"])

\* buildKeyframeStagePlan(): an image that is generated or an operator's own file.
KeyframePlan(f, source) == [stage |-> "KEYFRAME", flow |-> f, revision |-> revision, k |-> 0,
                            source |-> source]

\* Every upload has a preflight of its own.
PreflightKeyframe ==
  /\ \E source \in {"AI", "UPLOAD"}, f \in 1 .. Latest + 1 :
       EnsureWorkflow(f) /\ Save(KeyframePlan(f, source))
  /\ UNCHANGED <<draft, keyframes, attempts, at, mem, history>>

\* executeKeyframe(): a preflight of the latest workflow and of this revision.
ExecuteKeyframe(c) ==
  /\ at[c] = "ready"
  /\ \E p \in 1 .. Len(preflights) :
       /\ preflights[p].stage = "KEYFRAME" /\ preflights[p].flow = Latest
       /\ preflights[p].revision = revision
       /\ Go(c, "claim", [Idle EXCEPT !.p = p])
  /\ UNCHANGED <<draft, flows, keyframes, preflights, attempts, history>>

\* Mistake: only a running attempt closes the stage.
OpenDoubtful(p) == \A a \in 1 .. Len(attempts) :
                     attempts[a].flow = preflights[p].flow /\ attempts[a].stage = preflights[p].stage
                       => attempts[a].status # "RUNNING"

\* Mistake: every failure is followed by another attempt.
RetriableFailed(p) == \A a \in 1 .. Len(attempts) :
                        attempts[a].p = p => attempts[a].status = "FAILED"

\* claimLockedStage(): an attempt in doubt closes the stage of the workflow,
\* one that succeeded answers for its preflight, and only one that failed
\* on this side of the boundary for a reason of the operator's own file is
\* followed by another.
Open(p) == \A a \in 1 .. Len(attempts) :
             attempts[a].flow = preflights[p].flow /\ attempts[a].stage = preflights[p].stage
               => attempts[a].status \notin InDoubt

Retriable(p) == LET prior == {a \in 1 .. Len(attempts) : attempts[a].p = p}
                IN \A a \in prior : (\A b \in prior : b <= a) => attempts[a].safe

Claim(c) ==
  /\ at[c] = "claim"
  /\ LET p == mem[c].p
         stage == preflights[p].stage
     IN IF Open(p) /\ Retriable(p)
        THEN /\ Cardinality({a \in 1 .. Len(attempts) : attempts[a].stage = stage}) < MaxAttempts
             /\ attempts' = Append(attempts, [flow |-> preflights[p].flow, stage |-> stage, p |-> p,
                                              status |-> "RUNNING", boundary |-> "NOT_CROSSED",
                                              safe |-> FALSE, k |-> preflights[p].k])
             /\ Go(c, IF preflights[p].source = "UPLOAD" THEN "inspect" ELSE "mark",
                      [mem[c] EXCEPT !.a = Len(attempts) + 1])
        ELSE Done(c) /\ UNCHANGED attempts
  /\ UNCHANGED <<draft, flows, keyframes, preflights, history>>

\* markLockedStageBoundary(), in front of a media provider or, for an upload,
\* of the evaluator; for a pilot, after its production was created.
MarkBoundary(c) ==
  /\ at[c] = "mark"
  /\ \/ /\ attempts' = [attempts EXCEPT ![mem[c].a].boundary = "MAY_HAVE_STARTED"]
        /\ \/ Go(c, IF mem[c].k # 0 THEN "evaluate" ELSE "generate", [mem[c] EXCEPT !.crossed = TRUE])
           \/ Go(c, "fail", mem[c])
     \/ Go(c, "fail", mem[c]) /\ UNCHANGED attempts
  /\ UNCHANGED <<draft, flows, keyframes, preflights, history>>

\* The paid call: an image, or a video and its evaluation.
Generate(c) ==
  /\ at[c] = "generate"
  /\ paid' = paid \union {mem[c].a}
  /\ \/ Go(c, "fail", mem[c]) /\ UNCHANGED attempts
     \/ /\ attempts[mem[c].a].stage = "KEYFRAME"
        /\ Go(c, "store", mem[c])
     \/ /\ attempts[mem[c].a].stage = "FIRST_VIDEO"
        /\ \E ok \in BOOLEAN : Go(c, "finish", [mem[c] EXCEPT !.ok = ok])
  /\ UNCHANGED <<draft, flows, keyframes, preflights, attempts, overtaken, crashes>>

\* inspectImage() of an upload.
Inspect(c) ==
  /\ at[c] = "inspect"
  /\ \/ Go(c, "store", mem[c])
     \/ Go(c, "fail", [mem[c] EXCEPT !.safe = TRUE])
  /\ UNCHANGED <<draft, flows, keyframes, preflights, attempts, history>>

\* Mistake: the workflow is moved by its evaluation alone.
StoreQuiet(c) ==
  /\ at[c] = "store"
  /\ keyframes' = Append(keyframes, [flow |-> FlowOf(c), validation |-> "NONE", approved |-> FALSE])
  /\ IF flows[FlowOf(c)].state = "PREPARED" THEN Move(FlowOf(c), "KEYFRAME_READY") ELSE UNCHANGED flows
  /\ Go(c, IF mem[c].crossed THEN "evaluate" ELSE "mark", [mem[c] EXCEPT !.k = Len(keyframes) + 1])
  /\ UNCHANGED <<draft, preflights, attempts, history>>

\* storeKeyframeArtifact(): the row and the move of the workflow, in one
\* transaction that the trigger may refuse.
Store(c) ==
  /\ at[c] = "store"
  /\ IF Allowed(flows[FlowOf(c)].state, "KEYFRAME_READY")
     THEN /\ keyframes' = Append(keyframes, [flow |-> FlowOf(c), validation |-> "NONE",
                                             approved |-> FALSE])
          /\ Move(FlowOf(c), "KEYFRAME_READY")
          /\ Go(c, IF mem[c].crossed THEN "evaluate" ELSE "mark",
                   [mem[c] EXCEPT !.k = Len(keyframes) + 1])
     ELSE Go(c, "fail", mem[c]) /\ UNCHANGED <<keyframes, flows>>
  /\ UNCHANGED <<draft, preflights, attempts, history>>

\* The evaluation and recordKeyframeValidation(): a PASS must find the
\* workflow where its keyframe has left it.
Evaluate(c) ==
  /\ at[c] = "evaluate"
  /\ \/ Go(c, "fail", mem[c]) /\ UNCHANGED <<keyframes, flows>>
     \/ /\ keyframes' = [keyframes EXCEPT ![mem[c].k].validation = "FAIL"]
        /\ Go(c, "finish", mem[c]) /\ UNCHANGED flows
     \/ /\ flows[FlowOf(c)].state = "KEYFRAME_READY"
        /\ keyframes' = [keyframes EXCEPT ![mem[c].k].validation = "PASS"]
        /\ Move(FlowOf(c), "AWAITING_HUMAN_APPROVAL")
        /\ Go(c, "finish", [mem[c] EXCEPT !.ok = TRUE])
  /\ UNCHANGED <<draft, preflights, attempts, history>>

\* finishLockedStage(): the row of an attempt that ends with what the call holds,
\* answered or failed.
Finished(x, m) == [x EXCEPT !.status = IF m.ok THEN "SUCCEEDED" ELSE "FAILED",
                            !.boundary = "COMPLETED",
                            !.k = IF x.k = 0 THEN m.k ELSE x.k]
Failed(x, m) == [x EXCEPT !.status = IF m.crossed THEN "NEEDS_RECONCILIATION" ELSE "FAILED",
                          !.boundary = IF m.crossed THEN "MAY_HAVE_STARTED" ELSE "NOT_CROSSED",
                          !.safe = ~m.crossed /\ m.safe]

\* Only an attempt that is still running is finished.
Finish(c) ==
  /\ at[c] = "finish"
  /\ \/ /\ attempts[mem[c].a].status = "RUNNING"
        /\ attempts' = [attempts EXCEPT ![mem[c].a] = Finished(attempts[mem[c].a], mem[c])]
        /\ IF attempts[mem[c].a].stage = "FIRST_VIDEO" THEN Go(c, "record", mem[c]) ELSE Done(c)
     \/ Go(c, "fail", mem[c]) /\ UNCHANGED attempts
  /\ UNCHANGED <<draft, flows, keyframes, preflights, history>>

\* The catch of both stages; an attempt that has ended keeps its end.
Fail(c) ==
  /\ at[c] = "fail"
  /\ IF attempts[mem[c].a].status = "RUNNING"
     THEN attempts' = [attempts EXCEPT ![mem[c].a] = Failed(attempts[mem[c].a], mem[c])]
     ELSE UNCHANGED attempts
  /\ Done(c)
  /\ UNCHANGED <<draft, flows, keyframes, preflights, history>>

----------------------------------------------------------------------------
\* approvedKeyframeIdentity(): what may be the reference of a video.
ApprovedIdentity(k) == k # 0 /\ keyframes[k].validation = "PASS" /\ keyframes[k].approved

\* bindApprovedKeyframe(): the opening shot with the keyframe as its reference.
Bound(k) == [shot EXCEPT !.ref = k]

\* approveKeyframe(): any keyframe of the workflow that passed, and then the
\* brief that was read with the keyframe as its reference.
ApproveKeyframe(c) ==
  /\ at[c] = "ready"
  /\ \E k \in 1 .. Len(keyframes) :
       /\ keyframes[k].validation = "PASS"
       /\ flows[keyframes[k].flow].state \in {"AWAITING_HUMAN_APPROVAL", "KEYFRAME_APPROVED"}
       /\ keyframes' = [keyframes EXCEPT ![k].approved = TRUE]
       /\ Move(keyframes[k].flow, "KEYFRAME_APPROVED")
       /\ Go(c, "bind", [Idle EXCEPT !.k = k])
  /\ UNCHANGED <<draft, preflights, attempts, history>>

Bind(c) ==
  /\ at[c] = "bind"
  /\ IF shot = Bound(mem[c].k) THEN UNCHANGED <<draft, overtaken>>
     ELSE revision < MaxRevisions /\ Rewrite(Bound(mem[c].k))
  /\ Done(c)
  /\ UNCHANGED <<flows, keyframes, preflights, attempts, paid, crashes>>

\* buildFirstVideoStagePlan(): one video that refers to the keyframe of the brief.
VideoPlan == [stage |-> "FIRST_VIDEO", flow |-> Latest, revision |-> revision, k |-> shot.ref,
              source |-> "VIDEO"]

\* preflightFirstVideo(): of a certified draft whose opening shot refers to an
\* approved keyframe of the latest workflow.
PreflightFirstVideo ==
  /\ certified /\ ApprovedIdentity(shot.ref) /\ keyframes[shot.ref].flow = Latest
  /\ Save(VideoPlan)
  /\ UNCHANGED <<draft, flows, keyframes, attempts, at, mem, history>>

\* Mistake: the preflight of an older revision starts a pilot.
StartFirstVideoStale(c) ==
  /\ at[c] = "ready" /\ certified
  /\ \E p \in 1 .. Len(preflights) :
       /\ preflights[p].stage = "FIRST_VIDEO" /\ preflights[p].flow = Latest
       /\ Go(c, "claim", [Idle EXCEPT !.p = p])
  /\ UNCHANGED <<draft, flows, keyframes, preflights, attempts, history>>

\* startFirstVideo(): the same draft, the same keyframe.
StartFirstVideo(c) ==
  /\ at[c] = "ready" /\ certified
  /\ \E p \in 1 .. Len(preflights) :
       /\ preflights[p].stage = "FIRST_VIDEO" /\ preflights[p].flow = Latest
       /\ preflights[p].revision = revision /\ ApprovedIdentity(preflights[p].k)
       /\ Go(c, "claim", [Idle EXCEPT !.p = p])
  /\ UNCHANGED <<draft, flows, keyframes, preflights, attempts, history>>

\* recordFirstVideoResult(): its WHERE takes a workflow whose keyframe is
\* approved, and the trigger does not.
RecordFirstVideo(c) ==
  /\ at[c] = "record"
  /\ LET to == IF mem[c].ok THEN "FIRST_VIDEO_REVIEW" ELSE "FIRST_VIDEO_FAILED"
         from == flows[FlowOf(c)].state
     IN IF from \in {"KEYFRAME_APPROVED", "FIRST_VIDEO_RUNNING"} /\ Allowed(from, to)
        THEN /\ Move(FlowOf(c), to)
             /\ certified' = (certified /\ ~mem[c].ok)
             /\ Done(c)
        ELSE Go(c, "fail", mem[c]) /\ UNCHANGED <<flows, certified>>
  /\ UNCHANGED <<shot, revision, keyframes, preflights, attempts, history>>

\* approvePilot(), rejectPilot(): of the latest workflow, on its latest pilot.
DecidePilot ==
  /\ Latest > 0 /\ flows[Latest].state = "FIRST_VIDEO_REVIEW"
  /\ LET pilots == {a \in Pilots : attempts[a].flow = Latest}
     IN \/ /\ \A a \in pilots : (\A b \in pilots : b <= a) => attempts[a].status = "SUCCEEDED"
           /\ Move(Latest, "FIRST_VIDEO_ACCEPTED")
        \/ Move(Latest, "FIRST_VIDEO_REJECTED")
  /\ UNCHANGED <<draft, keyframes, preflights, attempts, at, mem, history>>

\* No code of the repository writes FIRST_VIDEO_RUNNING: an operator of the
\* database does, as the certification test of the repository does.
MoveByHand ==
  /\ ByHand
  /\ \E f \in 1 .. Latest : flows[f].state = "KEYFRAME_APPROVED" /\ Move(f, "FIRST_VIDEO_RUNNING")
  /\ UNCHANGED <<draft, keyframes, preflights, attempts, at, mem, history>>

Crash(c) ==
  /\ at[c] \notin {"ready", "claim"} /\ crashes < MaxCrashes
  /\ crashes' = crashes + 1
  /\ Done(c)
  /\ UNCHANGED <<draft, flows, keyframes, preflights, attempts, paid, overtaken>>

Next ==
  \/ Edit \/ Certify \/ PreflightKeyframe \/ PreflightFirstVideo \/ DecidePilot \/ MoveByHand
  \/ \E c \in Call :
       \/ ExecuteKeyframe(c) \/ StartFirstVideo(c) \/ Claim(c) \/ MarkBoundary(c)
       \/ Generate(c) \/ Inspect(c) \/ Store(c) \/ Evaluate(c) \/ Finish(c) \/ Fail(c)
       \/ RecordFirstVideo(c) \/ ApproveKeyframe(c) \/ Bind(c) \/ Crash(c)

Spec == Init /\ [][Next]_vars

----------------------------------------------------------------------------
\* The rows refer to one another, and a stage of a workflow has at most one
\* attempt in doubt, as the index locked_stage_one_active_attempt demands.
TypeOK ==
  /\ shot \in [plan : Plan, ref : 0 .. Len(keyframes)] /\ revision \in 1 .. MaxRevisions
  /\ \A k \in 1 .. Len(keyframes) : keyframes[k].flow \in 1 .. Latest
  /\ \A p \in 1 .. Len(preflights) : preflights[p].flow \in 1 .. Latest
  /\ \A a \in 1 .. Len(attempts) :
       /\ attempts[a].flow = preflights[attempts[a].p].flow
       /\ attempts[a].k \in 0 .. Len(keyframes)
  /\ \A a, b \in 1 .. Len(attempts) :
       /\ a # b /\ attempts[a].flow = attempts[b].flow /\ attempts[a].stage = attempts[b].stage
         => ~({attempts[a].status, attempts[b].status} \subseteq InDoubt)

\* A preflight is paid for once, whatever becomes of its attempts, and nothing
\* is paid for in a stage of a workflow behind a call in doubt.
PaidOnce ==
  \A a, b \in paid : a < b =>
    /\ attempts[a].p # attempts[b].p
    /\ attempts[a].flow = attempts[b].flow /\ attempts[a].stage = attempts[b].stage
         => attempts[a].status \notin InDoubt

\* What waits for a human, or was approved by one, is a workflow whose newest
\* keyframe passed its evaluation: no keyframe slips in behind an approval.
NewestPassed ==
  \A f \in 1 .. Latest :
    flows[f].state \in {"AWAITING_HUMAN_APPROVAL", "KEYFRAME_APPROVED", "FIRST_VIDEO_RUNNING",
                        "FIRST_VIDEO_REVIEW", "FIRST_VIDEO_ACCEPTED"} =>
      \E k \in 1 .. Len(keyframes) :
        /\ keyframes[k].flow = f /\ keyframes[k].validation = "PASS"
        /\ \A j \in k + 1 .. Len(keyframes) : keyframes[j].flow # f

\* A pilot that waits for its human shows the opening shot of the brief, unless
\* the brief changed while it was made or while it waited.
PilotShowsLookUnlessOvertaken ==
  \A f \in 1 .. Latest :
    flows[f].state = "FIRST_VIDEO_REVIEW" =>
      \/ overtaken
      \/ \E a \in Pilots : /\ attempts[a].flow = f /\ attempts[a].status = "SUCCEEDED"
                           /\ attempts[a].k = shot.ref /\ a \in paid

\* A pilot that was paid for and accepted is put before a human: once no call
\* is at work its workflow is in review, or has been decided.
PilotReachesReview ==
  (\A c \in Call : at[c] = "ready") =>
    \A a \in Pilots : attempts[a].status = "SUCCEEDED" =>
      flows[attempts[a].flow].state \in {"FIRST_VIDEO_REVIEW", "FIRST_VIDEO_ACCEPTED",
                                         "FIRST_VIDEO_REJECTED", "CONTINUATION_STARTED"}
=============================================================================
